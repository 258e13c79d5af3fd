------------------------------ MODULE EventLoop ------------------------------
(***************************************************************************)
(* The polling loop of the Linux backend (r2p2/linux-backend.c): r2p2_poll *)
(* takes a batch of events from epoll and handles them one by one, while   *)
(* timers expire, packets arrive, and the callbacks of one event send      *)
(* requests and free sockets that later events of the batch are about.     *)
(*                                                                         *)
(* Each socket of the pool has a datagram socket and a timerfd.  Requests  *)
(* are of one packet, and request ids are unique: what a reply matches is  *)
(* the subject of module R2P2.                                             *)
(***************************************************************************)
EXTENDS Integers, Sequences, FiniteSets

CONSTANTS
  NReq,            \* bound: requests the application ever sends
  NSock,           \* SOCKPOOL_SIZE
  MAX_EVENTS,
  Refused,         \* the requests a server answers, if at all, with DROP
  MaxBad,          \* bound: datagrams that recvfrom fails on
  SendInCallback,  \* may a callback call r2p2_send_req?
  Kept             \* requests whose reply the application may keep: it calls
                   \* r2p2_recv_resp_done some time after success_cb

ASSUME EventLoopAssumption ==
  /\ NReq \in Nat /\ NSock \in Nat \ {0} /\ MAX_EVENTS \in Nat \ {0}
  /\ Refused \subseteq 1 .. NReq /\ MaxBad \in Nat /\ SendInCallback \in BOOLEAN
  /\ Kept \subseteq 1 .. NReq

Reqs == 1 .. NReq
Socks == 0 .. NSock - 1
Fds == {"fd", "tfd"} \X Socks

VARIABLES
  issued,    \* requests sent so far; request r is the r-th
  idx,       \* sp.idx & (SOCKPOOL_SIZE - 1), all that is used of it
  count,     \* sp.count
  cp,        \* request whose pair holds each socket, 0 if it is not taken
  timer,     \* each timerfd; while it is armed, with the request that armed it
  rx,        \* datagrams in each socket
  rdllist,   \* the ready list of epoll
  events,    \* the events of the batch r2p2_poll has not handled yet
  cb,        \* the callback that runs, and the socket it is about
  outcome,   \* history: the callbacks made for each request
  expired,   \* history: requests whose own timer expired
  net,       \* requests on their way, with the socket they were sent on
  bad

sockets == <<idx, count, cp>>
kernel == <<rx, rdllist, bad>>
history == <<outcome, expired>>
vars == <<issued, sockets, timer, net, kernel, events, cb, history>>

Off == [state |-> "off", req |-> 0]
Armed(r) == [state |-> "armed", req |-> r]
Expired == [state |-> "expired", req |-> 0]

NoCallback == [kind |-> "none", sock |-> 0]

(* r2p2_init_per_core: both descriptors of every socket join the epoll set *)
(* with EPOLLIN, level triggered.                                          *)
Init ==
  /\ issued = 0 /\ idx = 0 /\ count = 0
  /\ cp = [s \in Socks |-> 0]
  /\ timer = [s \in Socks |-> Off]
  /\ rx = [s \in Socks |-> <<>>]
  /\ rdllist = <<>> /\ events = <<>>
  /\ cb = NoCallback
  /\ outcome = [r \in Reqs |-> <<>>]
  /\ expired = {} /\ net = {} /\ bad = 0

Taken(s) == cp[s] # 0

-----------------------------------------------------------------------------
(* The kernel and the servers.                                             *)

(* A descriptor that becomes readable joins the tail of the ready list.    *)
Ready(f) ==
  rdllist' = IF \E k \in 1 .. Len(rdllist) : rdllist[k] = f
               THEN rdllist ELSE Append(rdllist, f)

Expire(s) ==
  /\ timer[s].state = "armed"
  /\ timer' = [timer EXCEPT ![s] = Expired]
  /\ expired' = expired \cup {timer[s].req}
  /\ Ready(<<"tfd", s>>)
  /\ UNCHANGED <<issued, sockets, net, rx, bad, events, cb, outcome>>

AnswerTo(r) == IF r \in Refused THEN "drop" ELSE "reply"

(* A server answers request r with a reply or a DROP, once.  The answer    *)
(* goes to the port r was sent from; it may come late, or never.           *)
Answer(r, s) ==
  /\ <<r, s>> \in net
  /\ net' = net \ {<<r, s>>}
  /\ rx' = [rx EXCEPT ![s] = Append(@, [kind |-> AnswerTo(r), req |-> r])]
  /\ Ready(<<"fd", s>>)
  /\ UNCHANGED <<issued, sockets, timer, bad, events, cb, history>>

(* A datagram whose checksum is wrong: the descriptor is readable, and     *)
(* recvfrom fails.                                                         *)
BadDatagram(s) ==
  /\ bad < MaxBad
  /\ bad' = bad + 1
  /\ rx' = [rx EXCEPT ![s] = Append(@, [kind |-> "bad", req |-> 0])]
  /\ Ready(<<"fd", s>>)
  /\ UNCHANGED <<issued, sockets, timer, net, events, cb, history>>

-----------------------------------------------------------------------------
(* Requests. *)

(* The application runs between two calls of r2p2_poll, and in callbacks.  *)
AppRuns ==
  \/ events = <<>> /\ cb = NoCallback
  \/ SendInCallback /\ cb # NoCallback

(* get_socket: the first socket at or after sp.idx that is not taken.      *)
get_socket(s) ==
  /\ count < NSock
  /\ \E d \in 0 .. NSock - 1 :
       /\ s = (idx + d) % NSock
       /\ ~Taken(s)
       /\ \A e \in 0 .. d - 1 : Taken((idx + e) % NSock)
  /\ idx' = (s + 1) % NSock
  /\ count' = count + 1

(* Mutant: the timer of the next socket is set.                            *)
prepare_to_send_NextTimer(r) ==
  \E s \in Socks :
    LET t == (s + 1) % NSock IN
    /\ get_socket(s)
    /\ cp' = [cp EXCEPT ![s] = r]
    /\ net' = net \cup {<<r, s>>}
    /\ timer' = [timer EXCEPT ![t] = Armed(r)]

(* Mutant: timerfd_settime is forgotten.                                   *)
prepare_to_send_NotArmed(r) ==
  \E s \in Socks :
    /\ get_socket(s)
    /\ cp' = [cp EXCEPT ![s] = r]
    /\ net' = net \cup {<<r, s>>}
    /\ UNCHANGED timer

(* prepare_to_send: timerfd_settime also forgets an expiry nobody handled. *)
prepare_to_send(r) ==
  \E s \in Socks :
    /\ get_socket(s)
    /\ cp' = [cp EXCEPT ![s] = r]
    /\ net' = net \cup {<<r, s>>}
    /\ timer' = [timer EXCEPT ![s] = Armed(r)]

Concludes(r, kind) == outcome' = [outcome EXCEPT ![r] = Append(@, kind)]

(* __r2p2_send_req, ERR_NO_SOCKET included.                                *)
SendReq ==
  /\ AppRuns
  /\ issued < NReq
  /\ issued' = issued + 1
  /\ \/ prepare_to_send(issued + 1) /\ UNCHANGED outcome
     \/ /\ count >= NSock
        /\ Concludes(issued + 1, "no_socket")
        /\ UNCHANGED <<sockets, timer, net>>
  /\ UNCHANGED <<kernel, events, cb, expired>>

(* Mutant: the socket is not counted as free.                              *)
FreePair_NotCounted(s) ==
  /\ timer' = [timer EXCEPT ![s] = Off]
  /\ cp' = [cp EXCEPT ![s] = 0]
  /\ UNCHANGED <<count, idx>>

(* free_client_pair with linux_on_client_pair_free and free_socket.        *)
FreePair(s) ==
  /\ timer' = [timer EXCEPT ![s] = Off]
  /\ cp' = [cp EXCEPT ![s] = 0]
  /\ count' = count - 1
  /\ UNCHANGED idx

(* r2p2_recv_resp_done, called in success_cb or, for a reply that is kept, *)
(* whenever the application runs before timeout_cb is called for it.       *)
RecvRespDone(s) ==
  /\ Taken(s) /\ outcome[cp[s]] = <<"success">>
  /\ \/ cb = [kind |-> "success", sock |-> s]
     \/ cp[s] \in Kept /\ (events = <<>> \/ cb # NoCallback)
  /\ FreePair(s)
  /\ UNCHANGED <<issued, net, kernel, events, cb, history>>

-----------------------------------------------------------------------------
(* r2p2_poll. *)

Readable(f) ==
  IF f[1] = "tfd" THEN timer[f[2]] = Expired ELSE rx[f[2]] # <<>>

(* Mutant: epoll_wait is told that the array holds one event more.         *)
EpollWait_OneMore ==
  /\ events = <<>> /\ cb = NoCallback
  /\ LET places == {k \in DOMAIN rdllist : Readable(rdllist[k])}
         size == Cardinality(places)
         n == IF size <= MAX_EVENTS THEN size ELSE MAX_EVENTS + 1 IN
     /\ places # {}
     /\ \E at \in [1 .. size -> places] :
          LET live == [k \in 1 .. size |-> rdllist[at[k]]] IN
          /\ \A j, k \in 1 .. size : j < k => at[j] < at[k]
          /\ events' = SubSeq(live, 1, n)
          /\ rdllist' = SubSeq(live, n + 1, size) \o SubSeq(live, 1, n)
  /\ UNCHANGED <<issued, sockets, timer, net, rx, bad, cb, history>>

(* epoll_wait: the first MAX_EVENTS descriptors of the ready list that are *)
(* still readable; being level triggered they go back to its tail.         *)
EpollWait ==
  /\ events = <<>> /\ cb = NoCallback
  /\ LET places == {k \in DOMAIN rdllist : Readable(rdllist[k])}
         size == Cardinality(places)
         n == IF size < MAX_EVENTS THEN size ELSE MAX_EVENTS IN
     /\ places # {}
     /\ \E at \in [1 .. size -> places] :
          LET live == [k \in 1 .. size |-> rdllist[at[k]]] IN
          /\ \A j, k \in 1 .. size : j < k => at[j] < at[k]
          /\ events' = SubSeq(live, 1, n)
          /\ rdllist' = SubSeq(live, n + 1, size) \o SubSeq(live, 1, n)
  /\ UNCHANGED <<issued, sockets, timer, net, rx, bad, cb, history>>

NextEvent(f) ==
  /\ cb = NoCallback
  /\ events # <<>> /\ Head(events) = f

(* handle_timer_for_socket and timer_triggered up to timeout_cb.           *)
HandleTimer(s) ==
  /\ NextEvent(<<"tfd", s>>)
  /\ events' = Tail(events)
  /\ timer' = [timer EXCEPT ![s] = Off]
  /\ \/ /\ Taken(s)
        /\ Concludes(cp[s], "timeout")
        /\ cb' = [kind |-> "timeout", sock |-> s]
     \/ /\ ~Taken(s)
        /\ UNCHANGED <<outcome, cb>>
  /\ UNCHANGED <<issued, sockets, net, kernel, expired>>

(* Mutant: the pair outlives its timeout.                                  *)
TimerReturns_PairKept ==
  /\ cb.kind = "timeout"
  /\ cb' = NoCallback
  /\ UNCHANGED <<issued, sockets, timer, net, kernel, events, history>>

(* The rest of timer_triggered, once timeout_cb has returned.              *)
TimerReturns ==
  /\ cb.kind = "timeout"
  /\ cb' = NoCallback
  /\ FreePair(cb.sock)
  /\ UNCHANGED <<issued, net, kernel, events, history>>

(* A receive event reads one datagram.                                     *)
Receive(s, d) ==
  /\ NextEvent(<<"fd", s>>)
  /\ rx[s] # <<>> /\ d = Head(rx[s])
  /\ rx' = [rx EXCEPT ![s] = Tail(@)]
  /\ UNCHANGED <<issued, net, rdllist, bad, expired>>

(* recvlen < 0: r2p2_poll returns, and the rest of the batch is left.      *)
HandleBad(s) ==
  /\ Receive(s, [kind |-> "bad", req |-> 0])
  /\ events' = <<>>
  /\ UNCHANGED <<sockets, timer, cb, outcome>>

(* handle_response: no pair, or the pair of another request.               *)
HandleUnmatched(s) ==
  \E r \in Reqs :
    /\ Receive(s, [kind |-> AnswerTo(r), req |-> r])
    /\ cp[s] # r
    /\ events' = Tail(events)
    /\ UNCHANGED <<sockets, timer, cb, outcome>>

(* The full reply: the timer is disarmed, success_cb starts.               *)
HandleReply(s) ==
  /\ Taken(s)
  /\ Receive(s, [kind |-> "reply", req |-> cp[s]])
  /\ events' = Tail(events)
  /\ timer' = [timer EXCEPT ![s] = Off]
  /\ Concludes(cp[s], "success")
  /\ cb' = [kind |-> "success", sock |-> s]
  /\ UNCHANGED sockets

(* success_cb returns, once it has given the reply back if it is not kept. *)
ReplyReturns ==
  LET s == cb.sock IN
  /\ cb.kind = "success"
  /\ Taken(s) /\ outcome[cp[s]] = <<"success">> => cp[s] \in Kept
  /\ cb' = NoCallback
  /\ UNCHANGED <<issued, sockets, timer, net, kernel, events, history>>

(* handle_drop_msg up to error_cb, and the rest of it.                     *)
HandleDrop(s) ==
  /\ Taken(s)
  /\ Receive(s, [kind |-> "drop", req |-> cp[s]])
  /\ events' = Tail(events)
  /\ Concludes(cp[s], "dropped")
  /\ cb' = [kind |-> "dropped", sock |-> s]
  /\ UNCHANGED <<sockets, timer>>

DropReturns ==
  /\ cb.kind = "dropped"
  /\ cb' = NoCallback
  /\ FreePair(cb.sock)
  /\ UNCHANGED <<issued, net, kernel, events, history>>

Returns == TimerReturns \/ ReplyReturns \/ DropReturns

Handle(s) ==
  \/ HandleTimer(s) \/ HandleBad(s) \/ HandleUnmatched(s)
  \/ HandleReply(s) \/ HandleDrop(s)

Next ==
  \/ SendReq \/ EpollWait \/ Returns
  \/ \E s \in Socks : Handle(s) \/ Expire(s) \/ BadDatagram(s) \/ RecvRespDone(s)
  \/ \E r \in Reqs, s \in Socks : Answer(r, s)

Spec == Init /\ [][Next]_vars

(* The application calls r2p2_poll forever, its callbacks return, and      *)
(* inside success_cb it gives back a reply it does not keep; timers expire. *)
FairSpec ==
  /\ Spec
  /\ WF_vars(EpollWait) /\ WF_vars(Returns)
  /\ \A s \in Socks :
       /\ WF_vars(Handle(s)) /\ WF_vars(Expire(s))
       /\ WF_vars(cp[s] \notin Kept /\ RecvRespDone(s))

-----------------------------------------------------------------------------
TypeOK ==
  /\ issued \in 0 .. NReq /\ idx \in Socks /\ count \in 0 .. NSock
  /\ cp \in [Socks -> 0 .. NReq]
  /\ timer \in [Socks -> {Off, Expired} \cup {Armed(r) : r \in Reqs}]
  /\ \A k \in 1 .. Len(rdllist) : rdllist[k] \in Fds
  /\ Len(events) <= MAX_EVENTS

(* A request is reported once, whatever the batch holds about its socket   *)
(* when its callback runs; only a reply that is kept may be followed by    *)
(* timeout_cb, when both events are in one batch.                          *)
OneOutcome ==
  \A r \in Reqs :
    \/ Len(outcome[r]) <= 1
    \/ r \in Kept /\ outcome[r] = <<"success", "timeout">>

(* __disarm_timer: "Disable timer".  timeout_cb is called only for a       *)
(* request whose own timer expired, never because of the timer of the      *)
(* request that had the socket before it.                                  *)
OwnTimeout ==
  \A r \in Reqs : \A k \in 1 .. Len(outcome[r]) :
    outcome[r][k] = "timeout" => r \in expired

(* get_socket looks for a free socket without a bound because sp.count     *)
(* says that there is one.                                                 *)
CountExact == count = Cardinality({s \in Socks : Taken(s)})

(* Every request is concluded by a callback, although r2p2_poll gives up   *)
(* the rest of its batch when recvfrom fails.                              *)
Concluded == \A r \in Reqs : issued >= r ~> outcome[r] # <<>>
=============================================================================
