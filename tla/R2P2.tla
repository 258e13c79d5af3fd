------------------------------- MODULE R2P2 -------------------------------
(***************************************************************************)
(* The R2P2 request/response protocol (r2p2/r2p2-common.c with the Linux   *)
(* backend's sockets and timers): one client thread, several servers that  *)
(* may receive the first packet of a request (the router chooses), and a   *)
(* network that delays, reorders, duplicates and loses packets.  A packet  *)
(* that is never delivered is lost.  Raft message types are left out.      *)
(*                                                                         *)
(* A client pair lives on the socket prepare_to_send gave it, and a socket *)
(* has one pair at a time, so cp is indexed by socket; owner 0 marks a     *)
(* socket that is not taken.  The payload of a packet is <<body, index>>:  *)
(* the body of a request is <<r>>, that of a reply names the requests whose *)
(* packets it answers, one by one.                                         *)
(***************************************************************************)
EXTENDS Integers, Sequences, Network

CONSTANTS
  NReq,         \* bound: requests the client ever sends
  NSock,        \* SOCKPOOL_SIZE
  Servers,
  ReqPkts,      \* packets of request r
  RespPkts,     \* packets of the response to request r
  RidSpace,     \* values of rid, 2^16 in the code
  MaxDup,       \* bound: packets the network duplicates
  MaxDrops,     \* bound: requests the flow control function refuses
  Kept          \* requests whose reply the application may keep: it calls
                \* r2p2_recv_resp_done some time after success_cb

ASSUME R2P2Assumption ==
  /\ NReq \in Nat /\ NSock \in Nat \ {0} /\ RidSpace \in Nat \ {0}
  /\ ReqPkts \in [1 .. NReq -> Nat \ {0}]
  /\ RespPkts \in [1 .. NReq -> Nat \ {0}]
  /\ Kept \subseteq 1 .. NReq
  /\ "router" \notin Servers

Reqs == 1 .. NReq
Socks == 0 .. NSock - 1

VARIABLES
  issued,       \* requests sent so far; request r is the r-th
  rid,          \* the last request id used
  sockIdx,      \* sp.idx & (SOCKPOOL_SIZE - 1), all that is used of it
  owner,        \* request whose pair holds each socket, 0 if it is free
  cp,           \* the client pair on each socket
  outcome,      \* history: the callbacks made for each request
  crashed,      \* an assert of the client failed
  pending,      \* pending_server_pairs of each server
  app,          \* requests each server's application has not answered yet
  executed,     \* history: payloads handed to the applications
  net,          \* packets in flight
  dups, drops

client == <<issued, rid, sockIdx, owner, cp, outcome, crashed>>
server == <<pending, app, executed, drops>>
vars == <<client, server, net, dups>>

(* event: r2p2_poll may still meet an event of the pair's timer, which is   *)
(* armed, or expired in time for the batch of events it works on.          *)
NoPair == [rid |-> 0, state |-> "none", event |-> FALSE,
           expected |-> 0, received |-> 0, reply |-> <<>>]

Init ==
  /\ issued = 0 /\ rid = 0 /\ sockIdx = 0
  /\ owner = [s \in Socks |-> 0]
  /\ cp = [s \in Socks |-> NoPair]
  /\ outcome = [r \in Reqs |-> <<>>]
  /\ crashed = FALSE
  /\ pending = [v \in Servers |-> <<>>]
  /\ app = [v \in Servers |-> <<>>]
  /\ executed = <<>>
  /\ net = Empty
  /\ dups = 0 /\ drops = 0

-----------------------------------------------------------------------------
(* Packets.  r2p2_prepare_msg: the first packet carries the number of      *)
(* packets in p_order, the others their index.                             *)
Packet(kind, at, sock, id, n, of, k) ==
  [kind |-> kind, at |-> at, sock |-> sock, rid |-> id,
   order |-> IF k = 0 THEN n ELSE k, first |-> k = 0, last |-> k = n - 1,
   data |-> <<of, k>>]

Message(kind, at, sock, id, n, of) ==
  {Packet(kind, at, sock, id, n, of, k) : k \in 0 .. n - 1}

Control(kind, at, sock, id) ==
  {Packet(kind, at, sock, id, 1, <<>>, 0)}

Payload(of, n) == [k \in 1 .. n |-> <<of, k - 1>>]

Taken(p) == Take({p}, net)

(* remove_from_list on the k-th pair of a list.                            *)
Without(q, k) == SubSeq(q, 1, k - 1) \o SubSeq(q, k + 1, Len(q))

-----------------------------------------------------------------------------
(* Client. *)

Free(s) == owner[s] = 0

(* get_socket: the first free socket at or after sp.idx.                   *)
NextSocket(s) ==
  \E d \in 0 .. NSock - 1 :
    /\ s = (sockIdx + d) % NSock
    /\ Free(s)
    /\ \A e \in 0 .. d - 1 : ~Free((sockIdx + e) % NSock)

(* __r2p2_send_req for a REQUEST_MSG, prepare_to_send included: the timer  *)
(* is armed, and only the first packet is sent.                            *)
SendReq ==
  LET r == issued + 1
      id == (rid + 1) % RidSpace
      n == ReqPkts[r] IN
  /\ ~crashed
  /\ issued < NReq
  /\ issued' = r
  /\ \E s \in Socks :
       /\ NextSocket(s)
       /\ sockIdx' = (s + 1) % NSock
       /\ rid' = id
       /\ owner' = [owner EXCEPT ![s] = r]
       /\ cp' = [cp EXCEPT ![s] =
                   [NoPair EXCEPT !.rid = id, !.event = TRUE,
                      !.state = IF n = 1 THEN "W_RESPONSE" ELSE "W_ACK"]]
       /\ net' = Put({Packet("REQ", "router", s, id, n, <<r>>, 0)}, net)
  /\ UNCHANGED <<outcome, crashed, server, dups>>

(* prepare_to_send fails: error_cb(-ERR_NO_SOCKET), the pair is freed.     *)
NoSocket ==
  /\ ~crashed
  /\ issued < NReq
  /\ \A s \in Socks : ~Free(s)
  /\ issued' = issued + 1
  /\ outcome' = [outcome EXCEPT ![issued + 1] =
                   Append(@, [kind |-> "error", reply |-> <<>>])]
  /\ UNCHANGED <<rid, sockIdx, owner, cp, crashed, server, net, dups>>

(* A callback for the request of socket s. *)
Callback(s, kind, reply) ==
  outcome' = [outcome EXCEPT ![owner[s]] =
                Append(@, [kind |-> kind, reply |-> reply])]

(* Mutant: the pair is not taken off pending_client_pairs. *)
FreePair_StillPending(s) ==
  /\ cp' = [cp EXCEPT ![s].event = FALSE]
  /\ UNCHANGED owner

(* free_client_pair: the timer is disarmed, the socket is free again.      *)
FreePair(s) ==
  /\ owner' = [owner EXCEPT ![s] = 0]
  /\ cp' = [cp EXCEPT ![s] = NoPair]

(* find_in_pending_client_pairs: by local port and request id.             *)
Match(p) == ~Free(p.sock) /\ cp[p.sock].rid = p.rid

(* r2p2_poll reads a packet from the socket it was addressed to.           *)
ToClient(p) ==
  /\ ~crashed
  /\ p.kind \in {"RESP", "ACK", "DROP"}
  /\ p.sock \in Socks

(* No pair matches: the packet is freed.                                   *)
RecvUnmatched(p) ==
  /\ ToClient(p) /\ ~Match(p)
  /\ net' = Taken(p)
  /\ UNCHANGED <<client, server, dups>>

AssertFails ==
  /\ crashed' = TRUE
  /\ UNCHANGED <<issued, rid, sockIdx, owner, cp, outcome>>

(* The pair after packet p of its reply: r2p2_msg_add_payload and the      *)
(* counters.  A first packet restarts them, whatever came before.          *)
WithPacket(c, p) ==
  [c EXCEPT !.reply = Append(@, p.data),
            !.received = IF p.first THEN 1 ELSE @ + 1,
            !.expected = IF p.first THEN p.order ELSE @]

(* Mutant: only a packet that comes again is refused. *)
BadPacket_RepeatsOnly(c, p) == ~p.first /\ p.order < c.received

(* "OOF in response" or "Wrong total size in response".                    *)
BadPacket(c, p) ==
  \/ ~p.first /\ p.order # c.received
  \/ p.last /\ WithPacket(c, p).received # WithPacket(c, p).expected

(* handle_response for a RESPONSE_MSG that matches pair c.                 *)
ToPair(p) ==
  /\ ToClient(p) /\ p.kind = "RESP" /\ Match(p)
  /\ net' = Taken(p)
  /\ UNCHANGED <<server, dups>>

(* assert(cp->state == R2P2_W_RESPONSE)                                    *)
ResponseAssert(p) ==
  /\ ToPair(p)
  /\ cp[p.sock].state # "W_RESPONSE"
  /\ AssertFails

ResponseBad(p) ==
  /\ ToPair(p)
  /\ cp[p.sock].state = "W_RESPONSE"
  /\ BadPacket(cp[p.sock], p)
  /\ Callback(p.sock, "error", <<>>)
  /\ FreePair(p.sock)
  /\ UNCHANGED <<issued, rid, sockIdx, crashed>>

(* Mutant: the timer is disarmed by the first packet of the reply. *)
ResponsePart_Disarms(p) ==
  /\ ToPair(p)
  /\ cp[p.sock].state = "W_RESPONSE"
  /\ ~BadPacket(cp[p.sock], p) /\ ~p.last
  /\ cp' = [cp EXCEPT ![p.sock] = [WithPacket(@, p) EXCEPT !.event = FALSE]]
  /\ UNCHANGED <<issued, rid, sockIdx, owner, crashed, outcome>>

ResponsePart(p) ==
  /\ ToPair(p)
  /\ cp[p.sock].state = "W_RESPONSE"
  /\ ~BadPacket(cp[p.sock], p) /\ ~p.last
  /\ cp' = [cp EXCEPT ![p.sock] = WithPacket(@, p)]
  /\ UNCHANGED <<issued, rid, sockIdx, owner, crashed, outcome>>

(* The full reply: the timer is disarmed and success_cb called, in which   *)
(* the application calls r2p2_recv_resp_done, or keeps the pair.  Disarming *)
(* comes too late for a timer event in the batch r2p2_poll works on.       *)
ResponseFull(p) ==
  LET c == WithPacket(cp[p.sock], p) IN
  /\ ToPair(p)
  /\ cp[p.sock].state = "W_RESPONSE"
  /\ ~BadPacket(cp[p.sock], p) /\ p.last
  /\ Callback(p.sock, "success", c.reply)
  /\ \/ FreePair(p.sock)
     \/ /\ owner[p.sock] \in Kept
        /\ \E late \in BOOLEAN : cp' = [cp EXCEPT ![p.sock] = [c EXCEPT !.event = late]]
        /\ UNCHANGED owner
  /\ UNCHANGED <<issued, rid, sockIdx, crashed>>

(* r2p2_recv_resp_done, called after success_cb returned.                  *)
RecvRespDone(s) ==
  /\ ~crashed
  /\ ~Free(s)
  /\ outcome[owner[s]] # <<>>
  /\ FreePair(s)
  /\ UNCHANGED <<issued, rid, sockIdx, crashed, outcome, server, net, dups>>

(* Mutant: the state stays R2P2_W_ACK. *)
RecvAck_StateKept(p) ==
  LET s == p.sock
      r == owner[s]
      rest == {q \in Message("REQ", p.at, s, p.rid, ReqPkts[r], <<r>>) :
                 ~q.first} IN
  /\ ToClient(p) /\ p.kind = "ACK" /\ Match(p)
  /\ cp[s].state = "W_ACK"
  /\ net' = Put(rest, Taken(p))
  /\ UNCHANGED <<client, server, dups>>

(* handle_response for an ACK_MSG: the rest of the request goes to the     *)
(* server that sent the ACK.                                               *)
RecvAck(p) ==
  LET s == p.sock
      r == owner[s]
      rest == {q \in Message("REQ", p.at, s, p.rid, ReqPkts[r], <<r>>) :
                 ~q.first} IN
  /\ ToClient(p) /\ p.kind = "ACK" /\ Match(p)
  /\ cp[s].state = "W_ACK"
  /\ net' = Put(rest, Taken(p))
  /\ cp' = [cp EXCEPT ![s].state = "W_RESPONSE"]
  /\ UNCHANGED <<issued, rid, sockIdx, owner, outcome, crashed, server, dups>>

(* assert(cp->state == R2P2_W_ACK)                                         *)
AckAssert(p) ==
  /\ ToClient(p) /\ p.kind = "ACK" /\ Match(p)
  /\ cp[p.sock].state # "W_ACK"
  /\ net' = Taken(p)
  /\ AssertFails
  /\ UNCHANGED <<server, dups>>

(* handle_drop_msg: in any state of the pair.                              *)
RecvDrop(p) ==
  /\ ToClient(p) /\ p.kind = "DROP" /\ Match(p)
  /\ net' = Taken(p)
  /\ Callback(p.sock, "dropped", <<>>)
  /\ FreePair(p.sock)
  /\ UNCHANGED <<issued, rid, sockIdx, crashed, server, dups>>

(* Mutant: the request is sent once more before it is given up. *)
TimerFires_Resends(s) ==
  LET c == cp[s] IN
  /\ ~crashed
  /\ ~Free(s) /\ c.event
  /\ Callback(s, "timeout", <<>>)
  /\ FreePair(s)
  /\ net' = Put({Packet("REQ", "router", s, c.rid, ReqPkts[owner[s]], <<owner[s]>>, 0)}, net)
  /\ UNCHANGED <<issued, rid, sockIdx, crashed, server, dups>>

(* Mutant: timer_triggered does not free the pair. *)
TimerFires_PairLeft(s) ==
  /\ ~crashed
  /\ ~Free(s) /\ cp[s].event
  /\ Callback(s, "timeout", <<>>)
  /\ UNCHANGED <<issued, rid, sockIdx, owner, cp, crashed, server, net, dups>>

(* handle_timer_for_socket, which asks only whether the socket is taken,   *)
(* and timer_triggered.                                                    *)
TimerFires(s) ==
  /\ ~crashed
  /\ ~Free(s) /\ cp[s].event
  /\ Callback(s, "timeout", <<>>)
  /\ FreePair(s)
  /\ UNCHANGED <<issued, rid, sockIdx, crashed, server, net, dups>>

-----------------------------------------------------------------------------
(* Servers. *)

(* The router, or the address in ctx->destination, decides who gets the    *)
(* first packet; the others carry the address of the server that ACKed.    *)
AtServer(v, p) == p.kind = "REQ" /\ p.at \in {"router", v}

Request(p) == [sock |-> p.sock, rid |-> p.rid, data |-> <<p.data>>,
               expected |-> p.order, received |-> 1]

(* forward_request                                                         *)
Forward(v, q) ==
  /\ app' = [app EXCEPT ![v] = Append(@, q)]
  /\ executed' = Append(executed, q.data)

(* Mutant: no return after send_drop_msg. *)
RequestDropped_FallsThrough(v, p) ==
  /\ AtServer(v, p) /\ p.first
  /\ drops < MaxDrops
  /\ drops' = drops + 1
  /\ net' = Put(Control("DROP", v, p.sock, p.rid), Taken(p))
  /\ IF p.last
       THEN Forward(v, Request(p)) /\ UNCHANGED pending
       ELSE /\ pending' = [pending EXCEPT ![v] = Append(@, Request(p))]
            /\ UNCHANGED <<app, executed>>
  /\ UNCHANGED <<client, dups>>

(* The flow control function refuses the request: send_drop_msg.           *)
RequestDropped(v, p) ==
  /\ AtServer(v, p) /\ p.first
  /\ drops < MaxDrops
  /\ drops' = drops + 1
  /\ net' = Put(Control("DROP", v, p.sock, p.rid), Taken(p))
  /\ UNCHANGED <<client, pending, app, executed, dups>>

RequestSingle(v, p) ==
  /\ AtServer(v, p) /\ p.first /\ p.last
  /\ net' = Taken(p)
  /\ Forward(v, Request(p))
  /\ UNCHANGED <<client, pending, drops, dups>>

(* The first of several packets: the pair is appended to the pending ones, *)
(* next to an old one with the same id and source if there is one.         *)
RequestFirst(v, p) ==
  /\ AtServer(v, p) /\ p.first /\ ~p.last
  /\ pending' = [pending EXCEPT ![v] = Append(@, Request(p))]
  /\ net' = Put(Control("ACK", v, p.sock, p.rid), Taken(p))
  /\ UNCHANGED <<client, app, executed, drops, dups>>

(* Mutant: the first pending pair is taken, whoever sent it. *)
Same_Any(q, p) == q.received > 0

(* find_in_pending_server_pairs: the oldest match.                         *)
Same(q, p) == q.sock = p.sock /\ q.rid = p.rid

Found(v, p, k) ==
  /\ k \in 1 .. Len(pending[v])
  /\ Same(pending[v][k], p)
  /\ \A j \in 1 .. k - 1 : ~Same(pending[v][j], p)

RequestUnmatched(v, p) ==
  /\ AtServer(v, p) /\ ~p.first
  /\ \A k \in 1 .. Len(pending[v]) : ~Same(pending[v][k], p)
  /\ net' = Taken(p)
  /\ UNCHANGED <<client, server, dups>>

(* A later packet of a pending request: out of order or of a wrong total,  *)
(* it takes the pair with it; the last one hands the request over.         *)
RequestRest(v, p) ==
  \E k \in 1 .. Len(pending[v]) :
    LET old == pending[v][k]
        q == [old EXCEPT !.data = Append(@, p.data), !.received = @ + 1] IN
    /\ AtServer(v, p) /\ ~p.first
    /\ Found(v, p, k)
    /\ net' = Taken(p)
    /\ \/ /\ p.order # old.received \/ (p.last /\ q.received # q.expected)
          /\ pending' = [pending EXCEPT ![v] = Without(@, k)]
          /\ UNCHANGED <<app, executed>>
       \/ /\ p.order = old.received /\ ~p.last
          /\ pending' = [pending EXCEPT ![v][k] = q]
          /\ UNCHANGED <<app, executed>>
       \/ /\ p.order = old.received /\ p.last /\ q.received = q.expected
          /\ pending' = [pending EXCEPT ![v] = Without(@, k)]
          /\ Forward(v, q)
    /\ UNCHANGED <<client, drops, dups>>

(* r2p2_send_response by the application, for any request it holds.         *)
SendResponse(v, k) ==
  LET q == app[v][k]
      body == [j \in 1 .. Len(q.data) |-> q.data[j][1][1]] IN
  /\ app' = [app EXCEPT ![v] = Without(@, k)]
  /\ net' = Put(Message("RESP", v, q.sock, q.rid, RespPkts[body[1]], body), net)
  /\ UNCHANGED <<client, pending, executed, drops, dups>>

-----------------------------------------------------------------------------
Duplicate(p) ==
  /\ dups < MaxDup
  /\ dups' = dups + 1
  /\ net' = Put({p}, net)
  /\ UNCHANGED <<client, server>>

ClientRecv(p) ==
  \/ RecvUnmatched(p) \/ RecvAck(p) \/ AckAssert(p) \/ RecvDrop(p)
  \/ ResponseAssert(p) \/ ResponseBad(p) \/ ResponsePart(p) \/ ResponseFull(p)

ServerRecv(v, p) ==
  \/ RequestDropped(v, p) \/ RequestSingle(v, p) \/ RequestFirst(v, p)
  \/ RequestUnmatched(v, p) \/ RequestRest(v, p)

Next ==
  \/ SendReq \/ NoSocket
  \/ \E s \in Socks : TimerFires(s) \/ RecvRespDone(s)
  \/ \E p \in DOMAIN net : ClientRecv(p) \/ Duplicate(p)
  \/ \E v \in Servers : \E p \in DOMAIN net : ServerRecv(v, p)
  \/ \E v \in Servers : \E k \in 1 .. Len(app[v]) : SendResponse(v, k)

Spec == Init /\ [][Next]_vars

(* timerfd expires once armed, and the client keeps polling.               *)
FairSpec == Spec /\ \A s \in Socks : WF_vars(TimerFires(s))

-----------------------------------------------------------------------------
TypeOK ==
  /\ issued \in 0 .. NReq /\ rid \in 0 .. RidSpace - 1 /\ sockIdx \in Socks
  /\ owner \in [Socks -> 0 .. NReq]
  /\ DOMAIN cp = Socks /\ DOMAIN outcome = Reqs
  /\ crashed \in BOOLEAN

(* handle_response, handle_drop_msg, timer_triggered: a request whose      *)
(* application calls r2p2_recv_resp_done in success_cb is reported at most *)
(* once, whichever of a reply, a DROP, a broken reply, a timeout and a     *)
(* late packet come, and whatever pairs of other requests are kept.        *)
OneOutcome == \A r \in Reqs \ Kept : Len(outcome[r]) <= 1

(* For a request whose pair the application keeps, timeout_cb may follow   *)
(* success_cb (a timer event in the same batch as the reply); no other     *)
(* second callback, and no third one, is ever made.                        *)
KeptOutcome ==
  \A r \in Kept :
    \/ Len(outcome[r]) <= 1
    \/ Len(outcome[r]) = 2 /\ outcome[r][1].kind = "success"
                           /\ outcome[r][2].kind = "timeout"

(* success_cb gets the reply to its own request, all its packets, in       *)
(* order: "Is it full msg? Should I call the application?"                 *)
ReplyIntegrity ==
  \A r \in Reqs : \A k \in 1 .. Len(outcome[r]) :
    outcome[r][k].kind = "success" =>
      outcome[r][k].reply =
        Payload([j \in 1 .. ReqPkts[r] |-> r], RespPkts[r])

(* handle_request gives the application whole requests, never packets of   *)
(* two of them.                                                            *)
RequestIntegrity ==
  \A k \in 1 .. Len(executed) :
    \E r \in 1 .. issued : executed[k] = Payload(<<r>>, ReqPkts[r])

(* No assert of handle_response fails.                                     *)
NoAssertFailure == ~crashed

(* Every request the client sends is concluded by a callback.              *)
Concluded == \A r \in Reqs : issued >= r ~> outcome[r] # <<>>

-----------------------------------------------------------------------------
(* The client's view of request r, and the requests that ran whole. *)
Status(r) ==
  CASE outcome[r] # <<>> -> outcome[r][1].kind
    [] outcome[r] = <<>> /\ r <= issued -> "issued"
    [] OTHER -> "new"

Ran ==
  {r \in Reqs : \E k \in 1 .. Len(executed) :
                  executed[k] = Payload(<<r>>, ReqPkts[r])}

Contract == INSTANCE RPC WITH status <- [r \in Reqs |-> Status(r)], ran <- Ran

(* As long as the network does not duplicate packets, the protocol keeps   *)
(* the contract of RPC, late replies on reused sockets included.           *)
KeepsContract == Contract!Spec

(* handle_request: no request is handed to the application twice.          *)
AtMostOnce ==
  \A j, k \in 1 .. Len(executed) : executed[j] = executed[k] => j = k

(* A pair's request was sent, and unless the pair may be kept it has had   *)
(* no callback.                                                            *)
OpenPairs ==
  \A s \in Socks : ~Free(s) =>
    owner[s] \in 1 .. issued /\ (owner[s] \in Kept \/ outcome[owner[s]] = <<>>)

(* No request holds two sockets.                                           *)
OneSocket ==
  \A s, t \in Socks : ~Free(s) /\ owner[s] = owner[t] => s = t

(* No request to come has had a callback.                                  *)
FutureOpen == \A r \in Reqs : r > issued => outcome[r] = <<>>

(* The inductive invariant behind OneOutcome.                              *)
OutcomeInv ==
  /\ issued \in 0 .. NReq
  /\ owner \in [Socks -> 0 .. NReq]
  /\ DOMAIN outcome = Reqs
  /\ OpenPairs /\ OneSocket /\ FutureOpen
  /\ OneOutcome
=============================================================================
