------------------------------- MODULE NetStack -------------------------------
(***************************************************************************)
(* The life of a packet buffer (mbuf) in the DPDK build: the driver fills  *)
(* it, netstack/net passes it up from Ethernet to UDP, R2P2 keeps it in a  *)
(* client or server pair or reuses it for the answer, and dpdk_eth_send    *)
(* gives it back to the driver.  Every layer frees it, sends it or keeps   *)
(* it; nothing else records who has it.                                    *)
(*                                                                         *)
(* A frame is the branch the handlers take for it.  The node has one       *)
(* client pair at a time, which is enough for every path of an mbuf, and   *)
(* whatever number of server pairs.                                        *)
(***************************************************************************)
EXTENDS Integers, Sequences, FiniteSets, Functions

CONSTANTS
  Mbuf,        \* pktmbuf_pool
  Frames,      \* the frames that may arrive
  MaxFrames,   \* bound: frames received
  MaxReq,      \* bound: requests sent
  ReqPkts,     \* packets of a request
  RespPkts,    \* packets of a response
  Groups,      \* CFG.multicast_cnt
  BATCH_SIZE,
  FlushAt,     \* packets dpdk_eth_send collects before it flushes, 32
  TxRing,      \* ETH_DEV_TX_QUEUE_SZ
  NO_BATCH,
  Feedback     \* built with FDIR or ACCELERATED: replies are notified to the router

ASSUME NetStackAssumption ==
  /\ MaxFrames \in Nat /\ MaxReq \in Nat /\ Groups \in Nat
  /\ ReqPkts \in Nat \ {0} /\ RespPkts \in Nat \ {0}
  /\ BATCH_SIZE \in Nat /\ FlushAt \in Nat \ {0} /\ TxRing \in Nat \ {0}
  /\ NO_BATCH \in BOOLEAN /\ Feedback \in BOOLEAN

VARIABLES
  pool,      \* mbufs that are free
  polling,   \* inside dpdk_net_poll
  batch,     \* what eth_in has not seen yet of rx_pkts: mbuf and frame
  tx_buf,    \* mbufs collected for the next flush
  nic,       \* mbufs given to the driver for transmission
  pending,   \* request chains of pending_server_pairs
  app,       \* request chains the application has not answered yet
  state,     \* the client pair: "none", "W_ACK" or "W_RESPONSE"
  request,   \* its request.head_buffer chain
  reply,     \* its reply.head_buffer chain
  abort,     \* the assert that stopped the node, "no" if none did
  lost,      \* history: the mbufs the code is known not to free
  frames, reqs

pair == <<state, request, reply, lost>>
sending == <<tx_buf, nic>>
server == <<pending, app>>
bounds == <<frames, reqs>>
vars == <<pool, polling, batch, sending, server, pair, abort, bounds>>

Init ==
  /\ pool = Mbuf
  /\ polling = FALSE /\ batch = <<>>
  /\ tx_buf = <<>> /\ nic = {}
  /\ pending = {} /\ app = {}
  /\ state = "none" /\ request = <<>> /\ reply = <<>>
  /\ abort = "no" /\ lost = {}
  /\ frames = 0 /\ reqs = 0

-----------------------------------------------------------------------------
(* alloc_net_sge, n times. *)
Allocs(n) == {q \in [1 .. n -> pool] : \A i, j \in 1 .. n : q[i] = q[j] => i = j}

(* rte_pktmbuf_free of a chain.                                            *)
Chain(q) == Range(q)

(* Mutant: the batch is flushed one packet too late.                       *)
Send_OneLate(q) ==
  LET all == tx_buf \o q
      flushed == IF Len(all) > FlushAt THEN Len(all) ELSE 0 IN
  IF NO_BATCH
    THEN /\ Cardinality(nic) + Len(q) <= TxRing
         /\ nic' = nic \cup Chain(q)
         /\ UNCHANGED tx_buf
    ELSE /\ nic' = nic \cup Chain(SubSeq(all, 1, flushed))
         /\ tx_buf' = SubSeq(all, flushed + 1, Len(all))

(* dpdk_eth_send, once for every mbuf of q.  Without batching it spins     *)
(* until the driver's ring has room.  With it, mbufs wait in tx_buf until  *)
(* there are FlushAt of them; what the ring does not take of a flush is    *)
(* freed by rte_eth_tx_buffer_flush, which here is an early TxDone.        *)
Send(q) ==
  LET all == tx_buf \o q
      flushed == (Len(all) \div FlushAt) * FlushAt IN
  IF NO_BATCH
    THEN /\ Cardinality(nic) + Len(q) <= TxRing
         /\ nic' = nic \cup Chain(q)
         /\ UNCHANGED tx_buf
    ELSE /\ nic' = nic \cup Chain(SubSeq(all, 1, flushed))
         /\ tx_buf' = SubSeq(all, flushed + 1, Len(all))

Running == abort = "no"

(* A failed assert.                                                        *)
Abort(what) ==
  /\ abort' = what
  /\ UNCHANGED <<pool, polling, batch, sending, server, pair, bounds>>

(* assert(pkt_buf) in alloc_net_sge, when n mbufs are wanted.              *)
NoMbuf(n) == Cardinality(pool) < n /\ Abort("alloc")

-----------------------------------------------------------------------------
(* The driver and dpdk_net_poll. *)

(* rte_eth_rx_burst: the driver has filled up to BATCH_SIZE mbufs.         *)
RxBurst ==
  /\ Running /\ ~polling
  /\ polling' = TRUE
  /\ \E n \in 0 .. BATCH_SIZE : \E q \in Allocs(n), f \in [1 .. n -> Frames] :
       /\ frames + n <= MaxFrames
       /\ frames' = frames + n
       /\ pool' = pool \ Chain(q)
       /\ batch' = [k \in 1 .. n |-> [buf |-> q[k], frame |-> f[k]]]
  /\ UNCHANGED <<sending, server, pair, abort, reqs>>

(* The end of dpdk_net_poll: dpdk_flush.                                   *)
EndPoll ==
  /\ Running /\ polling /\ batch = <<>>
  /\ polling' = FALSE
  /\ nic' = nic \cup Chain(tx_buf) /\ tx_buf' = <<>>
  /\ UNCHANGED <<pool, batch, server, pair, abort, bounds>>

(* The driver has sent the frame and frees its mbuf.                       *)
TxDone(b) ==
  /\ b \in nic
  /\ nic' = nic \ {b} /\ pool' = pool \cup {b}
  /\ UNCHANGED <<polling, batch, tx_buf, server, pair, abort, bounds>>

-----------------------------------------------------------------------------
(* eth_in takes the next mbuf b of the batch, of frame f.                  *)
In(b, f) ==
  /\ Running /\ polling
  /\ batch # <<>> /\ Head(batch) = [buf |-> b, frame |-> f]

Taken(b, f) ==
  /\ In(b, f)
  /\ batch' = Tail(batch)
  /\ UNCHANGED <<polling, abort, bounds>>

(* What the layers do not want, each at its own place: unknown ether type, *)
(* ARP for another address or with an unknown operation, a wrong address   *)
(* or protocol, ICMP that is no echo request, other IGMP.                  *)
Refused == {"ether_other", "arp_other", "arp_op", "ip_other", "icmp_other",
            "igmp_v2", "igmp_other"}

Refuse(b) ==
  \E f \in Refused :
    /\ Taken(b, f)
    /\ pool' = pool \cup {b}
    /\ UNCHANGED <<sending, server, pair>>

(* arp_in: ARP_OP_REPLY; ip_in: IPPROTO_TCP.  The handler returns.         *)
Ignore(b) ==
  \E f \in {"arp_reply", "tcp"} :
    /\ Taken(b, f)
    /\ lost' = lost \cup {b}
    /\ UNCHANGED <<pool, sending, server, state, request, reply>>

(* arp_out and icmp_echo answer in the mbuf of the request.                *)
AnswerInPlace(b) ==
  \E f \in {"arp_request", "icmp_echo"} :
    /\ Taken(b, f)
    /\ Send(<<b>>)
    /\ UNCHANGED <<pool, server, pair>>

(* ip_out: assert(dst_haddr != NULL), for an echo from an unknown host.    *)
UnknownMac(b) == In(b, "icmp_stranger") /\ Abort("mac")

(* igmp_in: assert(0) for the reports and leaves nobody should send it.    *)
IgmpAssert(b) == In(b, "igmp_bad") /\ Abort("igmp")

(* igmp_handle_membership_query: a new mbuf for every group, then free.    *)
IgmpQuery(b) ==
  \/ \E q \in Allocs(Groups) :
       /\ Taken(b, "igmp_query")
       /\ pool' = (pool \ Chain(q)) \cup {b}
       /\ Send(q)
       /\ UNCHANGED <<server, pair>>
  \/ In(b, "igmp_query") /\ NoMbuf(Groups)

-----------------------------------------------------------------------------
(* udp_in, r2p2lib_udp_recv, handle_incoming_pck: the server's side.       *)

(* handle_request for a request of one packet.                             *)
RequestSingle(b) ==
  /\ Taken(b, "request")
  /\ app' = app \cup {<<b>>}
  /\ UNCHANGED <<pool, sending, pending, pair>>

(* should_keep_req refuses it: send_drop_msg, then free_server_pair.       *)
RequestDropped(b) ==
  \/ \E q \in Allocs(1) :
       /\ Taken(b, "request")
       /\ pool' = (pool \ Chain(q)) \cup {b}
       /\ Send(q)
       /\ UNCHANGED <<server, pair>>
  \/ In(b, "request") /\ NoMbuf(1)

(* The first of several packets: the pair waits, an ACK is sent.           *)
RequestFirst(b) ==
  \/ \E q \in Allocs(1) :
       /\ Taken(b, "request_first")
       /\ pending' = pending \cup {<<b>>}
       /\ pool' = pool \ Chain(q)
       /\ Send(q)
       /\ UNCHANGED <<app, pair>>
  \/ In(b, "request_first") /\ NoMbuf(1)

(* Mutant: a packet out of order is not freed with the pair it breaks.     *)
RequestRest_OutOfOrderKept(b) ==
  /\ Taken(b, "request_rest")
  /\ \/ /\ pool' = pool \cup {b}
        /\ UNCHANGED server
     \/ \E c \in pending :
          \/ /\ pool' = pool \cup Chain(c)
             /\ pending' = pending \ {c}
             /\ UNCHANGED app
          \/ /\ pending' = (pending \ {c}) \cup {Append(c, b)}
             /\ UNCHANGED <<pool, app>>
          \/ /\ pending' = pending \ {c}
             /\ app' = app \cup {Append(c, b)}
             /\ UNCHANGED pool
  /\ UNCHANGED <<sending, pair>>

(* A later packet: of no pending pair, out of order (both are freed), one  *)
(* more of the request, or the one that completes it.                      *)
RequestRest(b) ==
  /\ Taken(b, "request_rest")
  /\ \/ /\ pool' = pool \cup {b}
        /\ UNCHANGED server
     \/ \E c \in pending :
          \/ /\ pool' = pool \cup {b} \cup Chain(c)
             /\ pending' = pending \ {c}
             /\ UNCHANGED app
          \/ /\ pending' = (pending \ {c}) \cup {Append(c, b)}
             /\ UNCHANGED <<pool, app>>
          \/ /\ pending' = pending \ {c}
             /\ app' = app \cup {Append(c, b)}
             /\ UNCHANGED pool
  /\ UNCHANGED <<sending, pair>>

(* __r2p2_send_response: the reply is built and sent, then what            *)
(* router_notify sends, and the mbufs of the request are freed; those of   *)
(* the reply are the driver's.                                             *)
SendResponse(c) ==
  LET n == IF Feedback THEN RespPkts + 1 ELSE RespPkts IN
  /\ Running
  /\ \/ \E q \in Allocs(n) :
          /\ app' = app \ {c}
          /\ pool' = (pool \ Chain(q)) \cup Chain(c)
          /\ Send(q)
          /\ UNCHANGED <<polling, batch, pending, pair, abort, bounds>>
     \/ NoMbuf(n)

-----------------------------------------------------------------------------
(* The client's side. *)

(* __r2p2_send_req: the first packet is sent, and request.head_buffer      *)
(* becomes the second one.                                                 *)
SendReq ==
  /\ Running /\ ~polling
  /\ state = "none" /\ reqs < MaxReq
  /\ \/ \E q \in Allocs(ReqPkts) :
          /\ pool' = pool \ Chain(q)
          /\ Send(<<Head(q)>>)
          /\ request' = Tail(q) /\ reply' = <<>>
          /\ state' = IF ReqPkts = 1 THEN "W_RESPONSE" ELSE "W_ACK"
          /\ reqs' = reqs + 1
          /\ UNCHANGED <<polling, batch, server, abort, lost, frames>>
     \/ NoMbuf(ReqPkts)

(* Mutant: free_client_pair frees the request too, as on Linux.            *)
FreePair_Request(also) ==
  /\ pool' = pool \cup Chain(reply) \cup Chain(request) \cup also
  /\ UNCHANGED lost
  /\ state' = "none" /\ request' = <<>> /\ reply' = <<>>

(* free_client_pair: the reply is freed, and not the request.              *)
FreePair(also) ==
  /\ pool' = pool \cup Chain(reply) \cup also
  /\ lost' = IF state = "W_ACK" THEN lost \cup Chain(request) ELSE lost
  /\ state' = "none" /\ request' = <<>> /\ reply' = <<>>

(* Its request id is of no client pair.                                    *)
ResponseUnmatched(b) ==
  \E f \in {"ack", "reply", "reply_part", "reply_bad", "drop"} :
    /\ Taken(b, f)
    /\ pool' = pool \cup {b}
    /\ UNCHANGED <<sending, server, pair>>

(* The asserts on cp->state.                                               *)
StateAssert(b) ==
  /\ \/ In(b, "ack") /\ state = "W_RESPONSE"
     \/ \E f \in {"reply", "reply_part", "reply_bad"} : In(b, f) /\ state = "W_ACK"
  /\ Abort("state")

(* ACK_MSG: the rest is sent; request.head_buffer still points to it.      *)
RecvAck(b) ==
  /\ Taken(b, "ack")
  /\ state = "W_ACK"
  /\ state' = "W_RESPONSE"
  /\ pool' = pool \cup {b}
  /\ Send(request)
  /\ UNCHANGED <<server, request, reply, lost>>

(* A packet of the reply that is not the last one.                         *)
RecvPart(b) ==
  /\ Taken(b, "reply_part")
  /\ state = "W_RESPONSE"
  /\ reply' = Append(reply, b)
  /\ UNCHANGED <<pool, sending, server, state, request, lost>>

(* The last one: success_cb, in which r2p2_recv_resp_done frees the pair.  *)
(* Out of order, or of a wrong size: error_cb, and the pair is freed too.  *)
RecvLast(b) ==
  \E f \in {"reply", "reply_bad"} :
    /\ Taken(b, f)
    /\ state = "W_RESPONSE"
    /\ FreePair({b})
    /\ UNCHANGED <<sending, server>>

(* handle_drop_msg, in any state.                                          *)
RecvDrop(b) ==
  /\ Taken(b, "drop")
  /\ state # "none"
  /\ FreePair({b})
  /\ UNCHANGED <<sending, server>>

(* rte_timer_manage, between two polls: timer_triggered.                   *)
Timeout ==
  /\ Running /\ ~polling
  /\ state # "none"
  /\ FreePair({})
  /\ UNCHANGED <<polling, batch, sending, server, abort, bounds>>

(* udp_in hands every UDP payload to handle_incoming_pck.                  *)
UdpIn(b) ==
  \/ RequestSingle(b) \/ RequestDropped(b) \/ RequestFirst(b) \/ RequestRest(b)
  \/ ResponseUnmatched(b) \/ StateAssert(b)
  \/ RecvAck(b) \/ RecvPart(b) \/ RecvLast(b) \/ RecvDrop(b)

EthIn(b) ==
  \/ Refuse(b) \/ Ignore(b) \/ AnswerInPlace(b) \/ UnknownMac(b)
  \/ IgmpAssert(b) \/ IgmpQuery(b)
  \/ UdpIn(b)

Next ==
  \/ RxBurst \/ EndPoll \/ SendReq \/ Timeout
  \/ \E b \in Mbuf : EthIn(b) \/ TxDone(b)
  \/ \E c \in app : SendResponse(c)

Spec == Init /\ [][Next]_vars

-----------------------------------------------------------------------------
(* The places of mbuf b.  What a client pair holds of its request is its   *)
(* own until the ACK; after it the driver has it.                          *)
Places(b) ==
  (IF b \in pool THEN 1 ELSE 0)
  + Cardinality({k \in 1 .. Len(batch) : batch[k].buf = b})
  + Cardinality({k \in 1 .. Len(tx_buf) : tx_buf[k] = b})
  + (IF b \in nic THEN 1 ELSE 0)
  + Cardinality({c \in pending : b \in Chain(c)})
  + Cardinality({c \in app : b \in Chain(c)})
  + (IF state = "W_ACK" /\ b \in Chain(request) THEN 1 ELSE 0)
  + Cardinality({k \in 1 .. Len(reply) : reply[k] = b})

TypeOK ==
  /\ pool \subseteq Mbuf /\ nic \subseteq Mbuf
  /\ polling \in BOOLEAN
  /\ Len(batch) <= BATCH_SIZE /\ Len(tx_buf) < FlushAt
  /\ state \in {"none", "W_ACK", "W_RESPONSE"}
  /\ abort \in {"no", "alloc", "mac", "igmp", "state"}

(* "Get next before sending because udp destroys the entry": no mbuf is    *)
(* freed or sent while something else still has it, so none is freed twice *)
(* and none is overwritten while the driver or a pair uses it.             *)
OneOwner == \A b \in Mbuf : Places(b) <= 1

(* Apart from an ARP reply, a TCP segment and the unsent packets of a      *)
(* request that ends without its ACK, no mbuf is lost: each is in the pool *)
(* or somebody has it, whatever the order of packets, drops and timeouts.  *)
NoOtherLeak == \A b \in Mbuf : Places(b) = 0 <=> b \in lost
=============================================================================
