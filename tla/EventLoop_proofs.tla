--------------------------- MODULE EventLoop_proofs ---------------------------
(***************************************************************************)
(* Proofs about EventLoop, for every number of requests, sockets and       *)
(* events in a batch: a request is reported once, sp.count is exact, and,  *)
(* when callbacks send no requests, timeout_cb is called only for a        *)
(* request whose own timer expired.                                        *)
(***************************************************************************)
EXTENDS EventLoop, FiniteSetTheorems, TLAPS

Outcomes == {"success", "timeout", "dropped", "no_socket"}

Timers == {Off, Expired} \cup {Armed(r) : r \in Reqs}

(* The types the other conjuncts rest on.                                  *)
Shape ==
  /\ issued \in 0 .. NReq /\ idx \in Socks
  /\ cp \in [Socks -> 0 .. NReq]
  /\ timer \in [Socks -> Timers]
  /\ rdllist \in Seq(Fds)
  /\ events \in Seq(Fds) /\ Len(events) <= MAX_EVENTS
  /\ outcome \in [Reqs -> Seq(Outcomes)]
  /\ cb \in [kind : {"none", "success", "timeout", "dropped"}, sock : Socks]
  /\ cb.kind = "none" => cb = NoCallback

(* Two sockets are never held by one request, and a request not sent yet   *)
(* holds none and has no outcome.                                          *)
Holders ==
  /\ \A s \in Socks : cp[s] <= issued
  /\ \A s, t \in Socks : Taken(s) /\ cp[s] = cp[t] => s = t
  /\ \A r \in Reqs : r > issued => outcome[r] = <<>>

(* The request of socket s has had no callback, or its reply is kept.      *)
Waiting(s) ==
  outcome[cp[s]] = <<>> \/ (cp[s] \in Kept /\ outcome[cp[s]] = <<"success">>)

(* Its callback is being called.                                           *)
Calling(s) ==
  /\ cb.kind # "none" /\ cb.sock = s
  /\ \/ outcome[cp[s]] = <<cb.kind>>
     \/ /\ cb.kind = "timeout" /\ cp[s] \in Kept
        /\ outcome[cp[s]] = <<"success", "timeout">>

(* Every request that holds a socket is at one of these.                   *)
Reported ==
  /\ \A s \in Socks : Taken(s) => Waiting(s) \/ Calling(s)
  /\ \A s \in Socks : cb.kind \in {"timeout", "dropped"} /\ cb.sock = s => Taken(s) /\ Calling(s)

(* What is on its way to the client: a request or its answer is there once, *)
(* and not after its reply was handled.                                    *)
Datagrams == [kind : {"reply", "drop", "bad"}, req : 0 .. NReq]
Arrived(r) == \E s \in Socks : \E k \in 1 .. Len(rx[s]) : rx[s][k].req = r
Pending(r) == Arrived(r) \/ \E s \in Socks : <<r, s>> \in net
Single ==
  \A s, t \in Socks : \A j \in 1 .. Len(rx[s]) : \A k \in 1 .. Len(rx[t]) :
    rx[s][j].req # 0 /\ rx[s][j].req = rx[t][k].req => s = t /\ j = k
Unreplied(r) == outcome[r] # <<"success">> /\ outcome[r] # <<"success", "timeout">>
Delivery ==
  /\ rx \in [Socks -> Seq(Datagrams)] /\ Single
  /\ \A r \in Reqs, s, t \in Socks : <<r, s>> \in net /\ <<r, t>> \in net => s = t
  /\ \A r \in Reqs, s \in Socks : <<r, s>> \in net => ~Arrived(r)
  /\ \A r \in Reqs : Pending(r) => r <= issued /\ Unreplied(r)

(* An armed timer belongs to the request that holds the socket; a socket   *)
(* whose timer expired, or whose timer event is in the batch, is free or   *)
(* held by a request whose own timer expired.                              *)
TimersOwn ==
  /\ \A s \in Socks : timer[s].state = "armed" => Taken(s) /\ timer[s].req = cp[s]
  /\ \A s \in Socks : timer[s].state = "expired" /\ Taken(s) => cp[s] \in expired
  /\ \A k \in 1 .. Len(events), s \in Socks :
       events[k] = <<"tfd", s>> /\ Taken(s) => cp[s] \in expired

IInv == Shape /\ Holders /\ Reported /\ Delivery /\ OneOutcome /\ CountExact

OInv == TimersOwn /\ OwnTimeout

-----------------------------------------------------------------------------
(* The socket pool. *)

(* The pool is finite, and so is every part of it.                         *)
LEMMA SocksFinite ==
  /\ IsFiniteSet(Socks) /\ Cardinality(Socks) = NSock
  /\ \A S \in SUBSET Socks : IsFiniteSet(S) /\ Cardinality(S) \in 0 .. NSock
<1>1. IsFiniteSet(0 .. NSock - 1) /\ Cardinality(0 .. NSock - 1) = NSock
  BY EventLoopAssumption, FS_Interval
<1>2. IsFiniteSet(Socks) /\ Cardinality(Socks) = NSock
  BY <1>1, Zenon DEF Socks
<1>3. ASSUME NEW S \in SUBSET Socks
      PROVE  IsFiniteSet(S) /\ Cardinality(S) \in 0 .. NSock
  <2>1. IsFiniteSet(S) /\ Cardinality(S) <= Cardinality(Socks)
    BY <1>2, FS_Subset, Zenon
  <2>2. Cardinality(S) \in Nat
    BY <2>1, FS_CardinalityType, Zenon
  <2> QED BY <1>2, <2>1, <2>2, EventLoopAssumption
<1> QED BY <1>2, <1>3, Zenon

(* When a free socket is taken the number of taken ones grows by one, and  *)
(* it shrinks by one when a taken one is freed.                            *)
LEMMA TakenCount ==
  ASSUME cp \in [Socks -> 0 .. NReq], NEW s \in Socks, NEW r \in 0 .. NReq,
         cp' = [cp EXCEPT ![s] = r]
  PROVE  LET now == Cardinality({t \in Socks : Taken(t)})
             next == Cardinality({t \in Socks : Taken(t)'}) IN
         /\ ~Taken(s) /\ r # 0 => next = now + 1
         /\ Taken(s) /\ r = 0 => now > 0 /\ next = now - 1
<1> DEFINE T == {t \in Socks : Taken(t)}
           U == {t \in Socks : Taken(t)'}
<1>1. IsFiniteSet(T) /\ Cardinality(T) \in Nat
  BY SocksFinite
<1>2. CASE ~Taken(s) /\ r # 0
  <2>1. U = T \cup {s} /\ s \notin T
    BY <1>2, Zenon DEF Taken
  <2> QED BY <1>1, <1>2, <2>1, FS_AddElement, Zenon
<1>3. CASE Taken(s) /\ r = 0
  <2>1. U = T \ {s} /\ s \in T
    BY <1>3, Zenon DEF Taken
  <2>2. Cardinality(U) = Cardinality(T) - 1
    BY <1>1, <2>1, FS_RemoveElement
  <2>3. Cardinality(T) # 0
    BY <1>1, <2>1, FS_EmptySet, Zenon
  <2> QED BY <1>1, <1>3, <2>2, <2>3
<1> QED BY <1>2, <1>3, Zenon

-----------------------------------------------------------------------------
(* What is on its way. *)

(* A step that changes none of it.                                         *)
LEMMA DeliveryQuiet ==
  ASSUME Delivery, UNCHANGED <<rx, net, issued, outcome>>
  PROVE  Delivery'
<1>1. rx' = rx /\ net' = net /\ issued' = issued /\ outcome' = outcome
  BY Zenon
<1>2. Single'
  BY <1>1 DEF Delivery, Single
<1>3. \A r : /\ Arrived(r)' <=> Arrived(r)
             /\ Pending(r)' <=> Pending(r)
             /\ Unreplied(r)' <=> Unreplied(r)
  BY <1>1, Zenon DEF Arrived, Pending, Unreplied
<1> QED BY <1>1, <1>2, <1>3, Zenon DEF Delivery

(* A datagram joins those of socket s.                                     *)
LEMMA Appends ==
  ASSUME rx \in [Socks -> Seq(Datagrams)], Single, NEW s \in Socks, NEW d \in Datagrams,
         rx' = [rx EXCEPT ![s] = Append(@, d)], d.req # 0 => ~Arrived(d.req)
  PROVE  /\ rx' \in [Socks -> Seq(Datagrams)] /\ Single'
         /\ \A r : Arrived(r)' => Arrived(r) \/ r = d.req
<1>1. PICK q, n : q = rx[s] /\ n = Len(q)
  BY Zenon
<1>2. q \in Seq(Datagrams) /\ n \in Nat
  BY <1>1
<1>3. /\ Append(q, d) \in Seq(Datagrams) /\ Len(Append(q, d)) = n + 1
      /\ Append(q, d)[n + 1] = d /\ \A k \in 1 .. n : Append(q, d)[k] = q[k]
  BY <1>1, <1>2
<1>4. rx'[s] = Append(q, d) /\ \A t \in Socks : t # s => rx'[t] = rx[t]
  BY <1>1, Zenon
<1>5. rx' \in [Socks -> Seq(Datagrams)]
  BY <1>1, <1>3, Zenon
<1>6. \A k \in 1 .. n + 1 : k \in 1 .. n \/ k = n + 1
  BY <1>2
<1>7. ASSUME NEW t \in Socks, NEW k \in 1 .. Len(rx'[t])
      PROVE  \/ k \in 1 .. Len(rx[t]) /\ rx'[t][k] = rx[t][k]
             \/ t = s /\ k = n + 1 /\ rx'[t][k] = d
  <2>1. CASE t # s
    BY <1>4, <1>7, <2>1, Zenon
  <2>2. CASE t = s
    BY <1>1, <1>3, <1>4, <1>6, <1>7, <2>2, Zenon
  <2> QED BY <2>1, <2>2, Zenon
<1>8. ASSUME NEW r, Arrived(r)' PROVE Arrived(r) \/ r = d.req
  <2>1. PICK t \in Socks : \E k \in 1 .. Len(rx'[t]) : rx'[t][k].req = r
    BY <1>8, Zenon DEF Arrived
  <2>2. PICK k \in 1 .. Len(rx'[t]) : rx'[t][k].req = r
    BY <2>1, Zenon
  <2>3. CASE k \in 1 .. Len(rx[t]) /\ rx'[t][k] = rx[t][k]
    <3>1. rx[t][k].req = r
      BY <2>2, <2>3, Zenon
    <3> QED BY <2>3, <3>1, Zenon DEF Arrived
  <2>4. CASE rx'[t][k] = d
    BY <2>2, <2>4, Zenon
  <2> QED BY <1>7, <2>3, <2>4, Zenon
<1>9. ASSUME NEW t \in Socks, NEW u \in Socks,
             NEW j \in 1 .. Len(rx'[t]), NEW k \in 1 .. Len(rx'[u]),
             rx'[t][j].req # 0, rx'[t][j].req = rx'[u][k].req
      PROVE  t = u /\ j = k
  <2>1. CASE rx'[t][j] = rx[t][j] /\ j \in 1 .. Len(rx[t])
             /\ rx'[u][k] = rx[u][k] /\ k \in 1 .. Len(rx[u])
    <3>1. rx[t][j].req # 0 /\ rx[t][j].req = rx[u][k].req
      BY <1>9, <2>1, Zenon
    <3> QED BY <2>1, <3>1 DEF Single
  <2>2. CASE rx'[t][j] = rx[t][j] /\ j \in 1 .. Len(rx[t]) /\ rx'[u][k] = d
    <3>1. rx[t][j].req = d.req /\ d.req # 0
      BY <1>9, <2>2, Zenon
    <3> QED BY <2>2, <3>1, Zenon DEF Arrived
  <2>3. CASE rx'[t][j] = d /\ rx'[u][k] = rx[u][k] /\ k \in 1 .. Len(rx[u])
    <3>1. rx[u][k].req = d.req /\ d.req # 0
      BY <1>9, <2>3, Zenon
    <3> QED BY <2>3, <3>1, Zenon DEF Arrived
  <2>4. CASE t = s /\ j = n + 1 /\ u = s /\ k = n + 1
    BY <2>4, Zenon
  <2> QED BY <1>7, <2>1, <2>2, <2>3, <2>4, Zenon
<1>10. Single'
  BY ONLY <1>9 DEF Single
<1> QED BY <1>5, <1>8, <1>10, Zenon

(* The first datagram of socket s is read.                                 *)
LEMMA Reads ==
  ASSUME rx \in [Socks -> Seq(Datagrams)], Single, NEW s \in Socks, rx[s] # <<>>,
         NEW d, d = Head(rx[s]), rx' = [rx EXCEPT ![s] = Tail(@)]
  PROVE  /\ rx' \in [Socks -> Seq(Datagrams)] /\ Single' /\ d \in Datagrams /\ Arrived(d.req)
         /\ \A r : Arrived(r)' => Arrived(r) /\ (r # 0 => r # d.req)
<1>1. PICK q, n : q = rx[s] /\ n = Len(q)
  BY Zenon
<1>2. q \in Seq(Datagrams) /\ q # <<>> /\ d = Head(q)
  BY <1>1, Zenon
<1>3. /\ Tail(q) \in Seq(Datagrams) /\ n \in Nat /\ n > 0 /\ Len(Tail(q)) = n - 1
      /\ d = q[1] /\ d \in Datagrams
      /\ \A k \in 1 .. n - 1 : Tail(q)[k] = q[k + 1]
  BY <1>1, <1>2
<1>4. rx'[s] = Tail(q) /\ \A t \in Socks : t # s => rx'[t] = rx[t]
  BY <1>1, Zenon
<1>5. rx' \in [Socks -> Seq(Datagrams)]
  BY <1>1, <1>3, Zenon
<1>6. 1 \in 1 .. n /\ \A k \in 1 .. n - 1 : k + 1 \in 1 .. n /\ k + 1 # 1
  BY <1>3
<1>7. \A j, k \in 1 .. n - 1 : j + 1 = k + 1 => j = k
  BY <1>3
<1>8. ASSUME NEW t \in Socks, NEW k \in 1 .. Len(rx'[t])
      PROVE  \/ t # s /\ k \in 1 .. Len(rx[t]) /\ rx'[t][k] = rx[t][k]
             \/ t = s /\ k \in 1 .. n - 1 /\ rx'[t][k] = q[k + 1]
  BY <1>3, <1>4, <1>8, Zenon
<1>9. Arrived(d.req)
  BY <1>1, <1>3, <1>6, Zenon DEF Arrived
<1>10. ASSUME NEW r, Arrived(r)' PROVE Arrived(r) /\ (r # 0 => r # d.req)
  <2>1. PICK t \in Socks : \E k \in 1 .. Len(rx'[t]) : rx'[t][k].req = r
    BY <1>10, Zenon DEF Arrived
  <2>2. PICK k \in 1 .. Len(rx'[t]) : rx'[t][k].req = r
    BY <2>1, Zenon
  <2>3. CASE t # s /\ k \in 1 .. Len(rx[t]) /\ rx'[t][k] = rx[t][k]
    <3>1. rx[t][k].req = r
      BY <2>2, <2>3, Zenon
    <3>2. r # 0 => rx[t][k].req # rx[s][1].req
      BY <1>1, <1>6, <2>3, <3>1, Zenon DEF Single
    <3> QED BY <1>1, <1>3, <2>3, <3>1, <3>2, Zenon DEF Arrived
  <2>4. CASE t = s /\ k \in 1 .. n - 1 /\ rx'[t][k] = q[k + 1]
    <3>1. k + 1 \in 1 .. n /\ k + 1 # 1 /\ q[k + 1].req = r
      BY <1>6, <2>2, <2>4, Zenon
    <3>2. PICK i : i = k + 1
      BY Zenon
    <3>3. i \in 1 .. Len(rx[s]) /\ i # 1 /\ rx[s][i].req = r
      BY <1>1, <3>1, <3>2, Zenon
    <3>4. r # 0 => rx[s][i].req # rx[s][1].req
      BY <1>1, <1>6, <3>3, Zenon DEF Single
    <3> QED BY <1>1, <1>3, <3>3, <3>4, Zenon DEF Arrived
  <2> QED BY <1>8, <2>3, <2>4, Zenon
<1>11. ASSUME NEW t \in Socks, NEW u \in Socks,
              NEW j \in 1 .. Len(rx'[t]), NEW k \in 1 .. Len(rx'[u]),
              rx'[t][j].req # 0, rx'[t][j].req = rx'[u][k].req
       PROVE  t = u /\ j = k
  <2>0. ASSUME NEW v \in Socks, NEW i \in 1 .. Len(rx'[v])
        PROVE  \E a \in 1 .. Len(rx[v]) : rx[v][a] = rx'[v][i] /\ a = (IF v = s THEN i + 1 ELSE i)
    <3>1. CASE v # s
      BY <1>8, <2>0, <3>1, Zenon
    <3>2. CASE v = s
      <4>1. i \in 1 .. n - 1 /\ rx'[v][i] = q[i + 1]
        BY <1>8, <2>0, <3>2, Zenon
      <4>2. i + 1 \in 1 .. Len(rx[v]) /\ rx[v][i + 1] = rx'[v][i]
        BY <1>1, <1>6, <3>2, <4>1, Zenon
      <4> QED BY <3>2, <4>2, Zenon
    <3> QED BY <3>1, <3>2, Zenon
  <2>1. PICK a \in 1 .. Len(rx[t]) : rx[t][a] = rx'[t][j] /\ a = (IF t = s THEN j + 1 ELSE j)
    BY <2>0, Zenon
  <2>2. PICK b \in 1 .. Len(rx[u]) : rx[u][b] = rx'[u][k] /\ b = (IF u = s THEN k + 1 ELSE k)
    BY <2>0, Zenon
  <2>3. rx[t][a].req # 0 /\ rx[t][a].req = rx[u][b].req
    BY <1>11, <2>1, <2>2, Zenon
  <2>4. t = u /\ a = b
    <3>1. Single /\ t \in Socks /\ u \in Socks /\ a \in 1 .. Len(rx[t]) /\ b \in 1 .. Len(rx[u])
      BY <2>1, <2>2, Zenon
    <3> QED BY ONLY <2>3, <3>1 DEF Single
  <2>5. t = s => j \in 1 .. n - 1 /\ k \in 1 .. n - 1
    BY <1>8, <2>4, Zenon
  <2> QED BY <1>7, <2>1, <2>2, <2>4, <2>5, Zenon
<1>12. Single'
  BY ONLY <1>11 DEF Single
<1> QED BY <1>3, <1>5, <1>9, <1>10, <1>12, Zenon

(* A server answers a request.                                             *)
LEMMA AnswerDelivery ==
  ASSUME Shape, Delivery, NEW r \in Reqs, NEW s \in Socks, Answer(r, s)
  PROVE  Delivery'
<1>1. PICK d : d = [kind |-> AnswerTo(r), req |-> r]
  BY Zenon
<1>2. /\ <<r, s>> \in net /\ net' = net \ {<<r, s>>} /\ rx' = [rx EXCEPT ![s] = Append(@, d)]
      /\ UNCHANGED <<issued, outcome>>
  BY <1>1, Zenon DEF Answer, history
<1>3. d \in Datagrams /\ d.req = r
  BY <1>1, EventLoopAssumption DEF Datagrams, AnswerTo, Reqs
<1>4. ~Arrived(r)
  BY <1>2, Zenon DEF Delivery
<1>5. /\ rx' \in [Socks -> Seq(Datagrams)] /\ Single'
      /\ \A q : Arrived(q)' => Arrived(q) \/ q = r
  BY <1>2, <1>3, <1>4, Appends, Zenon DEF Delivery
<1>6. ASSUME NEW q \in Reqs, NEW t \in Socks, <<q, t>> \in net'
      PROVE  <<q, t>> \in net /\ q # r
  <2>1. <<q, t>> \in net /\ <<q, t>> # <<r, s>>
    BY <1>2, <1>6, Zenon
  <2>2. q = r => t = s
    BY <1>2, <2>1, Zenon DEF Delivery
  <2> QED BY <2>1, <2>2, Zenon
<1>7. \A q \in Reqs, t \in Socks : <<q, t>> \in net' => ~Arrived(q)'
  BY <1>5, <1>6, Zenon DEF Delivery
<1>8. ASSUME NEW q \in Reqs, Pending(q)' PROVE Pending(q)
  BY <1>2, <1>5, <1>6, <1>8, Zenon DEF Pending
<1>9. \A q \in Reqs : Pending(q)' => q <= issued' /\ Unreplied(q)'
  BY <1>2, <1>8, Zenon DEF Delivery, Unreplied
<1> QED BY <1>5, <1>6, <1>7, <1>9, Zenon DEF Delivery

(* A datagram that recvfrom will fail on.                                  *)
LEMMA BadDelivery ==
  ASSUME Delivery, NEW s \in Socks, BadDatagram(s)
  PROVE  Delivery'
<1>1. PICK d : d = [kind |-> "bad", req |-> 0]
  BY Zenon
<1>2. rx' = [rx EXCEPT ![s] = Append(@, d)] /\ UNCHANGED <<net, issued, outcome>>
  BY <1>1, Zenon DEF BadDatagram, history
<1>3. d \in Datagrams /\ d.req = 0
  BY <1>1, EventLoopAssumption DEF Datagrams
<1>4. /\ rx' \in [Socks -> Seq(Datagrams)] /\ Single'
      /\ \A q : Arrived(q)' => Arrived(q) \/ q = 0
  BY <1>2, <1>3, Appends, Zenon DEF Delivery
<1>5. \A q \in Reqs : q # 0
  BY EventLoopAssumption DEF Reqs
<1> QED BY <1>2, <1>4, <1>5, Zenon DEF Delivery, Pending, Unreplied

(* r2p2_poll reads a datagram: no other one is about the same request.     *)
LEMMA ReceiveDelivery ==
  ASSUME Delivery, NEW s \in Socks, NEW d, Receive(s, d),
         \A r \in Reqs : r # d.req => outcome'[r] = outcome[r]
  PROVE  Delivery' /\ Arrived(d.req)
<1>1. /\ rx[s] # <<>> /\ d = Head(rx[s]) /\ rx' = [rx EXCEPT ![s] = Tail(@)]
      /\ UNCHANGED <<net, issued>>
  BY Zenon DEF Receive
<1>2. /\ rx' \in [Socks -> Seq(Datagrams)] /\ Single' /\ Arrived(d.req)
      /\ \A r : Arrived(r)' => Arrived(r) /\ (r # 0 => r # d.req)
  BY <1>1, Reads, Zenon DEF Delivery
<1>3. \A r \in Reqs : r # 0
  BY EventLoopAssumption DEF Reqs
<1>4. ASSUME NEW r \in Reqs, Pending(r)' PROVE Pending(r) /\ r # d.req
  BY <1>1, <1>2, <1>3, <1>4, Zenon DEF Pending, Delivery
<1>5. \A r \in Reqs : Pending(r)' => r <= issued' /\ Unreplied(r)'
  BY <1>1, <1>4, Zenon DEF Delivery, Unreplied
<1> QED BY <1>1, <1>2, <1>5, Zenon DEF Delivery

(* A callback that is not for a reply.                                     *)
LEMMA CallDelivery ==
  ASSUME Delivery, UNCHANGED <<rx, net, issued>>, NEW r \in Reqs, Unreplied(r) => Unreplied(r)',
         \A q \in Reqs : q # r => outcome'[q] = outcome[q]
  PROVE  Delivery'
<1>1. \A q \in Reqs : Pending(q)' <=> Pending(q)
  BY Zenon DEF Pending, Arrived
<1>2. \A q \in Reqs : Pending(q)' => q <= issued' /\ Unreplied(q)'
  BY <1>1, Zenon DEF Delivery, Unreplied
<1>3. Single' /\ \A q : Arrived(q)' <=> Arrived(q)
  BY DEF Delivery, Single, Arrived
<1> QED BY <1>2, <1>3, Zenon DEF Delivery

(* A request is sent.                                                      *)
LEMMA SendDelivery ==
  ASSUME Delivery, issued \in 0 .. NReq, NEW r \in Reqs, r = issued + 1, issued' = r,
         outcome[r] = <<>>, \A q \in Reqs : q # r => outcome'[q] = outcome[q],
         outcome'[r] = <<>> \/ outcome'[r] = <<"no_socket">>, UNCHANGED rx,
         net' = net \/ \E s \in Socks : net' = net \cup {<<r, s>>}
  PROVE  Delivery'
<1>1. ~Pending(r)
  <2>1. ~(r <= issued)
    BY Zenon, SMT
  <2> QED BY <2>1, Zenon DEF Delivery
<1>2. Unreplied(r)'
  <2>1. <<>> # <<"success">> /\ <<>> # <<"success", "timeout">>
    OBVIOUS
  <2>2. <<"no_socket">> # <<"success">> /\ <<"no_socket">> # <<"success", "timeout">>
    OBVIOUS
  <2> QED BY <2>1, <2>2, Zenon DEF Unreplied
<1>3. \A q : Arrived(q)' <=> Arrived(q)
  BY Zenon DEF Arrived
<1>4. ASSUME NEW q \in Reqs, NEW s \in Socks, <<q, s>> \in net' PROVE <<q, s>> \in net \/ q = r
  <2>1. CASE \E t \in Socks : net' = net \cup {<<r, t>>}
    <3>1. PICK t \in Socks : net' = net \cup {<<r, t>>}
      BY <2>1, Zenon
    <3>2. <<q, s>> \in net \/ <<q, s>> = <<r, t>>
      BY <1>4, <3>1, Zenon
    <3>3. <<q, s>> = <<r, t>> => q = r
      OBVIOUS
    <3> QED BY <3>2, <3>3, Zenon
  <2> QED BY <1>4, <2>1, Zenon
<1>5. \A s, t \in Socks : <<r, s>> \in net' /\ <<r, t>> \in net' => s = t
  BY <1>1, Zenon DEF Pending
<1>6. \A q \in Reqs : q <= issued => q <= issued'
  BY DEF Reqs
<1>7. ASSUME NEW q \in Reqs, Pending(q)' PROVE q <= issued' /\ Unreplied(q)'
  <2>1. CASE q = r
    <3>1. r <= issued'
      BY DEF Reqs
    <3> QED BY <1>2, <2>1, <3>1, Zenon
  <2>2. CASE q # r
    <3>1. Pending(q)
      BY <1>3, <1>4, <1>7, <2>2, Zenon DEF Pending
    <3> QED BY <1>6, <2>2, <3>1, Zenon DEF Delivery, Unreplied
  <2> QED BY <2>1, <2>2, Zenon
<1>8. \A q \in Reqs, s, t \in Socks : <<q, s>> \in net' /\ <<q, t>> \in net' => s = t
  BY <1>4, <1>5, Zenon DEF Delivery
<1>9. \A q \in Reqs, s \in Socks : <<q, s>> \in net' => ~Arrived(q)'
  BY <1>1, <1>3, <1>4, Zenon DEF Delivery, Pending
<1>10. Single'
  BY DEF Delivery, Single
<1> QED BY <1>7, <1>8, <1>9, <1>10, Zenon DEF Delivery

-----------------------------------------------------------------------------
(* The kinds of steps. *)

(* A step that neither calls back nor moves a socket from one request to   *)
(* another.                                                                *)
LEMMA Quiet ==
  ASSUME IInv, Shape', Delivery', UNCHANGED <<issued, cp, count, cb, outcome>>
  PROVE  IInv'
<1>1. Holders' BY Zenon DEF IInv, Holders, Taken
<1>2. Reported' BY Zenon DEF IInv, Reported, Taken, Waiting, Calling
<1>3. OneOutcome' BY Zenon DEF IInv, OneOutcome
<1>4. CountExact' BY Zenon DEF IInv, CountExact, Taken
<1> QED BY <1>1, <1>2, <1>3, <1>4, Zenon DEF IInv

(* Between callbacks, the request of socket s has none or its reply is     *)
(* kept.                                                                   *)
LEMMA Idle ==
  ASSUME IInv, cb = NoCallback, NEW s \in Socks, Taken(s)
  PROVE  /\ cp[s] \in Reqs /\ cp[s] <= issued /\ Waiting(s)
         /\ \A t \in Socks : Taken(t) => Waiting(t)
<1>1. cp[s] \in Reqs /\ cp[s] <= issued
  BY DEF IInv, Shape, Holders, Taken, Reqs
<1>2. cb.kind = "none"
  BY Zenon DEF NoCallback
<1>3. \A t \in Socks : Taken(t) => Waiting(t)
  BY <1>2, Zenon DEF IInv, Reported, Calling
<1> QED BY <1>1, <1>3, Zenon

(* A callback starts for the request that holds socket s.                  *)
LEMMA Calls ==
  ASSUME IInv, cb = NoCallback, NEW s \in Socks, Taken(s),
         NEW kind \in {"success", "timeout", "dropped"},
         Concludes(cp[s], kind), cb' = [kind |-> kind, sock |-> s],
         kind = "timeout" \/ outcome[cp[s]] = <<>>, Delivery',
         UNCHANGED <<issued, idx, cp, count, rdllist>>,
         timer' \in [Socks -> Timers], events' \in Seq(Fds), Len(events') <= MAX_EVENTS
  PROVE  IInv'
<1>1. PICK r : r = cp[s]
  BY Zenon
<1>2. r \in Reqs /\ outcome \in [Reqs -> Seq(Outcomes)] /\ r <= issued /\ Waiting(s)
  BY <1>1, Idle, Zenon DEF IInv, Shape
<1>3. PICK o : o = outcome'[r]
  BY Zenon
<1>4. /\ o = Append(outcome[r], kind)
      /\ \A q \in Reqs : q # r => outcome'[q] = outcome[q]
      /\ outcome' = [outcome EXCEPT ![r] = o]
  BY <1>1, <1>2, <1>3, Zenon DEF Concludes
<1>5. \/ o = <<kind>> /\ Len(o) <= 1
      \/ kind = "timeout" /\ r \in Kept /\ o = <<"success", "timeout">>
  <2>1. CASE outcome[r] = <<>>
    BY ONLY <1>4, <2>1
  <2>2. CASE kind = "timeout" /\ r \in Kept /\ outcome[r] = <<"success">>
    <3>1. o = Append(<<"success">>, "timeout")
      BY <1>4, <2>2, Zenon
    <3>2. <<"success">> \in Seq(Outcomes) /\ "timeout" \in Outcomes
      BY DEF Outcomes
    <3>3. o \in Seq(Outcomes) /\ Len(o) = 2 /\ o[1] = "success" /\ o[2] = "timeout"
      BY ONLY <3>1, <3>2, SMT
    <3>4. o = <<"success", "timeout">>
      BY ONLY <3>3, SMT
    <3> QED BY <2>2, <3>4, Zenon
  <2> QED BY <1>1, <1>2, <2>1, <2>2, Zenon DEF Waiting
<1>6. o \in Seq(Outcomes)
  <2>1. kind \in Outcomes
    BY Zenon DEF Outcomes
  <2>2. outcome[r] \in Seq(Outcomes)
    BY <1>2, Zenon
  <2> QED BY ONLY <1>4, <2>1, <2>2
<1>7. Shape'
  <2>1. outcome' \in [Reqs -> Seq(Outcomes)]
    BY <1>2, <1>4, <1>6, Zenon
  <2>2. /\ cb' \in [kind : {"none", "success", "timeout", "dropped"}, sock : Socks]
        /\ cb'.kind # "none"
    BY Zenon
  <2> QED BY <2>1, <2>2, Zenon DEF IInv, Shape
<1>8. Holders'
  <2>1. \A q \in Reqs : q > issued => q # r
    BY <1>2 DEF IInv, Shape, Reqs
  <2> QED BY <1>4, <2>1, Zenon DEF IInv, Holders, Taken
<1>9. Reported'
  <2>1. \A t \in Socks : Taken(t) /\ t # s => cp[t] # r /\ cp[t] \in Reqs /\ Waiting(t)
    BY <1>1, Idle, Zenon DEF IInv, Holders, Taken
  <2>2. Calling(s)'
    <3>1. cb'.kind = kind /\ cb'.sock = s /\ kind # "none"
      BY Zenon
    <3>2. outcome'[cp'[s]] = o /\ cp'[s] = r
      BY <1>1, <1>3, Zenon
    <3> QED BY <1>5, <3>1, <3>2, Zenon DEF Calling
  <2>3. \A t \in Socks : Taken(t)' /\ t # s => Waiting(t)'
    BY <1>4, <2>1, Zenon DEF Waiting, Taken
  <2>4. cb'.sock = s /\ Taken(s)'
    BY Zenon DEF Taken
  <2> QED BY <2>2, <2>3, <2>4, Zenon DEF Reported
<1>10. OneOutcome'
  BY <1>3, <1>4, <1>5, Zenon DEF IInv, OneOutcome
<1>11. CountExact' BY Zenon DEF IInv, CountExact, Taken
<1> QED BY <1>7, <1>8, <1>9, <1>10, <1>11, Zenon DEF IInv

(* A pair is freed: its callback returns, or the application gives it back *)
(* while no timeout_cb or error_cb is called for it.                       *)
LEMMA Frees ==
  ASSUME IInv, NEW s \in Socks, Taken(s), FreePair(s),
         \/ cb.sock = s /\ cb' = NoCallback
         \/ cb' = cb /\ ~(cb.sock = s /\ cb.kind \in {"timeout", "dropped"}),
         UNCHANGED <<issued, outcome, rdllist, events, rx, net>>
  PROVE  IInv'
<1>1. cp \in [Socks -> 0 .. NReq] /\ timer \in [Socks -> Timers]
  BY Zenon DEF IInv, Shape
<1>2. /\ cp' = [cp EXCEPT ![s] = 0] /\ timer' = [timer EXCEPT ![s] = Off]
      /\ UNCHANGED idx /\ count' = count - 1
  BY Zenon DEF FreePair
<1>3. Shape'
  <2>1. cp' \in [Socks -> 0 .. NReq] /\ timer' \in [Socks -> Timers]
    BY <1>1, <1>2, EventLoopAssumption DEF Timers
  <2>2. NoCallback \in [kind : {"none", "success", "timeout", "dropped"}, sock : Socks]
    BY EventLoopAssumption DEF NoCallback, Socks
  <2> QED BY <1>2, <2>1, <2>2, Zenon DEF IInv, Shape
<1>4. \A t \in Socks : /\ Taken(t)' => t # s /\ Taken(t) /\ cp'[t] = cp[t]
                       /\ t # s => cp'[t] = cp[t] /\ (Taken(t)' <=> Taken(t))
  BY <1>1, <1>2, Zenon DEF Taken
<1>5. Holders'
  <2>1. \A t \in Socks : cp'[t] <= issued'
    BY <1>1, <1>2, <1>4 DEF IInv, Holders, Shape
  <2>2. \A t, u \in Socks : Taken(t)' /\ cp'[t] = cp'[u] => t = u
    BY <1>4 DEF IInv, Holders, Taken
  <2> QED BY <2>1, <2>2, Zenon DEF IInv, Holders
<1>6. Reported'
  <2>1. ASSUME NEW t \in Socks, Taken(t)' PROVE Waiting(t)' \/ Calling(t)'
    <3>1. t # s /\ cp'[t] = cp[t] /\ (Waiting(t) \/ Calling(t))
      BY <1>4, <2>1, Zenon DEF IInv, Reported
    <3> QED BY <3>1, Zenon DEF Waiting, Calling
  <2>2. ASSUME NEW t \in Socks, cb'.kind \in {"timeout", "dropped"}, cb'.sock = t
        PROVE  Taken(t)' /\ Calling(t)'
    <3>1. NoCallback.kind = "none" /\ "none" \notin {"timeout", "dropped"}
      BY Zenon DEF NoCallback
    <3>2. cb' = cb /\ t # s
      BY <2>2, <3>1, Zenon
    <3>3. Taken(t) /\ Calling(t)
      BY <2>2, <3>2, Zenon DEF IInv, Reported
    <3> QED BY <1>4, <3>2, <3>3, Zenon DEF Calling
  <2> QED BY <2>1, <2>2, Zenon DEF Reported
<1>7. OneOutcome' BY Zenon DEF IInv, OneOutcome
<1>8. CountExact'
  <2>1. 0 \in 0 .. NReq
    BY EventLoopAssumption
  <2>2. Cardinality({t \in Socks : Taken(t)'}) = Cardinality({t \in Socks : Taken(t)}) - 1
    BY <1>1, <1>2, <2>1, TakenCount, Zenon
  <2> QED BY <1>2, <2>2, Zenon DEF IInv, CountExact
<1>9. Delivery'
  BY DeliveryQuiet, Zenon DEF IInv
<1> QED BY <1>3, <1>5, <1>6, <1>7, <1>8, <1>9, Zenon DEF IInv

(* A request is sent, on a free socket or without one.                     *)
LEMMA Sends ==
  ASSUME IInv, SendReq
  PROVE  IInv'
<1> DEFINE r == issued + 1
<1>1. /\ r \in Reqs /\ issued' = r /\ outcome[r] = <<>> /\ issued \in Nat
      /\ UNCHANGED <<rdllist, events, cb>>
  BY EventLoopAssumption DEF SendReq, kernel, IInv, Shape, Holders, Reqs
<1>2. \A s \in Socks : cp[s] \in 0 .. NReq /\ cp[s] <= issued /\ cp[s] # r
  BY <1>1, EventLoopAssumption DEF IInv, Shape, Holders
<1>3. CASE prepare_to_send(r) /\ UNCHANGED outcome
  <2>1. PICK s \in Socks :
          /\ ~Taken(s) /\ count' = count + 1 /\ idx' = (s + 1) % NSock
          /\ cp' = [cp EXCEPT ![s] = r] /\ timer' = [timer EXCEPT ![s] = Armed(r)]
          /\ net' = net \cup {<<r, s>>}
    BY <1>3, Zenon DEF prepare_to_send, get_socket
  <2>2. cp'[s] = r /\ \A t \in Socks : t # s => cp'[t] = cp[t]
    BY <2>1, Zenon DEF IInv, Shape
  <2>3. Shape'
    <3>1. idx' \in Socks
      BY <2>1, EventLoopAssumption DEF Socks
    <3>2. timer' \in [Socks -> Timers]
      BY <1>1, <2>1, Zenon DEF IInv, Shape, Timers
    <3>3. cp' \in [Socks -> 0 .. NReq]
      BY <1>1, <2>1 DEF IInv, Shape, Reqs
    <3>4. issued' \in 0 .. NReq
      BY <1>1 DEF Reqs
    <3> QED BY <1>1, <1>3, <3>1, <3>2, <3>3, <3>4, Zenon DEF IInv, Shape
  <2>4. Holders'
    <3>1. \A t \in Socks : cp'[t] <= issued'
      BY <1>1, <1>2, <2>2
    <3>2. \A t, u \in Socks : Taken(t)' /\ cp'[t] = cp'[u] => t = u
      BY <1>1, <1>2, <2>2, Zenon DEF IInv, Holders, Taken
    <3>3. \A q \in Reqs : q > issued' => outcome'[q] = <<>>
      BY <1>1, <1>3 DEF IInv, Holders, Reqs
    <3> QED BY <3>1, <3>2, <3>3, Zenon DEF Holders
  <2>5. Reported'
    <3>1. Waiting(s)'
      BY <1>1, <1>3, <2>2, Zenon DEF Waiting
    <3>2. ASSUME NEW t \in Socks, t # s
          PROVE  (Waiting(t)' <=> Waiting(t)) /\ (Calling(t)' <=> Calling(t))
      BY <1>1, <1>3, <2>2, <3>2, Zenon DEF Waiting, Calling
    <3>3. ASSUME NEW t \in Socks, Taken(t)' PROVE Waiting(t)' \/ Calling(t)'
      BY <2>2, <3>1, <3>2, <3>3, Zenon DEF IInv, Reported, Taken
    <3>4. ASSUME NEW t \in Socks, cb.kind \in {"timeout", "dropped"}, cb.sock = t
          PROVE  Taken(t)' /\ Calling(t)'
      <4>1. Taken(t) /\ Calling(t)
        BY <3>4, Zenon DEF IInv, Reported
      <4>2. t # s
        BY <2>1, <4>1, Zenon
      <4> QED BY <2>2, <3>2, <4>1, <4>2, Zenon DEF Taken
    <3> QED BY <1>1, <3>3, <3>4, Zenon DEF Reported
  <2>6. OneOutcome' BY <1>3, Zenon DEF IInv, OneOutcome
  <2>7. CountExact'
    <3>1. r \in 0 .. NReq /\ r # 0 /\ cp \in [Socks -> 0 .. NReq]
      BY <1>1 DEF IInv, Shape, Reqs
    <3>2. Cardinality({t \in Socks : Taken(t)'}) = Cardinality({t \in Socks : Taken(t)}) + 1
      BY <2>1, <3>1, TakenCount, Zenon
    <3> QED BY <2>1, <3>2, Zenon DEF IInv, CountExact
  <2>8. Delivery'
    <3>1. Delivery /\ issued \in 0 .. NReq
      BY Zenon DEF IInv, Shape
    <3>2. UNCHANGED rx
      BY Zenon DEF SendReq, kernel
    <3> QED BY <1>1, <1>3, <2>1, <3>1, <3>2, SendDelivery, Zenon
  <2> QED BY <2>3, <2>4, <2>5, <2>6, <2>7, <2>8, Zenon DEF IInv
<1>4. CASE Concludes(r, "no_socket") /\ UNCHANGED <<sockets, timer, net>>
  <2>1. /\ outcome' = [outcome EXCEPT ![r] = <<"no_socket">>]
        /\ UNCHANGED <<idx, count, cp, timer, net>>
    BY <1>1, <1>4 DEF Concludes, sockets
  <2>2. outcome \in [Reqs -> Seq(Outcomes)]
    BY Zenon DEF IInv, Shape
  <2>3. outcome'[r] = <<"no_socket">> /\ \A q \in Reqs : q # r => outcome'[q] = outcome[q]
    BY <1>1, <2>1, <2>2, Zenon
  <2>4. Shape'
    <3>1. <<"no_socket">> \in Seq(Outcomes)
      BY DEF Outcomes
    <3>2. outcome' \in [Reqs -> Seq(Outcomes)]
      BY <1>1, <2>1, <2>2, <3>1, Zenon
    <3>3. issued' \in 0 .. NReq
      BY <1>1 DEF Reqs
    <3> QED BY <1>1, <2>1, <3>2, <3>3, Zenon DEF IInv, Shape
  <2>5. Holders'
    BY <1>1, <1>2, <2>1, <2>3 DEF IInv, Holders, Taken, Reqs
  <2>6. Reported'
    <3>1. \A s \in Socks : Taken(s) => outcome'[cp[s]] = outcome[cp[s]]
      BY <1>2, <2>3 DEF Taken, Reqs
    <3>2. cb \in [kind : {"none", "success", "timeout", "dropped"}, sock : Socks]
      BY Zenon DEF IInv, Shape
    <3>3. \A s \in Socks : Taken(s) => (Waiting(s) => Waiting(s)') /\ (Calling(s) => Calling(s)')
      BY <1>1, <2>1, <3>1, Zenon DEF Waiting, Calling
    <3> QED BY <1>1, <2>1, <3>2, <3>3, Zenon DEF IInv, Reported, Taken
  <2>7. OneOutcome'
    <3>1. Len(<<"no_socket">>) <= 1
      OBVIOUS
    <3> QED BY <2>3, <3>1, Zenon DEF IInv, OneOutcome
  <2>8. CountExact' BY <2>1, Zenon DEF IInv, CountExact, Taken
  <2>9. Delivery'
    <3>1. Delivery /\ issued \in 0 .. NReq
      BY Zenon DEF IInv, Shape
    <3>2. UNCHANGED rx
      BY Zenon DEF SendReq, kernel
    <3> QED BY <1>1, <2>1, <2>3, <3>1, <3>2, SendDelivery, Zenon
  <2> QED BY <2>4, <2>5, <2>6, <2>7, <2>8, <2>9, Zenon DEF IInv
<1> QED BY <1>3, <1>4, Zenon DEF SendReq

(* A descriptor joins the ready list.                                      *)
LEMMA ReadyList ==
  ASSUME rdllist \in Seq(Fds), NEW f \in Fds, Ready(f)
  PROVE  rdllist' \in Seq(Fds)
BY DEF Ready

(* What epoll_wait returns, and what it leaves in the ready list.          *)
LEMMA Waits ==
  ASSUME Shape, EpollWait
  PROVE  /\ events' \in Seq(Fds) /\ Len(events') <= MAX_EVENTS
         /\ \A k \in 1 .. Len(events') : events'[k] \in Fds /\ Readable(events'[k])
         /\ rdllist' \in Seq(Fds)
<1>1. PICK places : places = {k \in DOMAIN rdllist : Readable(rdllist[k])}
  BY Zenon
<1>2. PICK size : size = Cardinality(places)
  BY Zenon
<1>3. rdllist \in Seq(Fds) /\ places \subseteq 1 .. Len(rdllist)
  BY <1>1 DEF Shape
<1>4. size \in Nat
  <2>1. IsFiniteSet(1 .. Len(rdllist))
    BY <1>3, FS_Interval
  <2> QED BY <1>2, <1>3, <2>1, FS_Subset, FS_CardinalityType, Zenon
<1>5. PICK n : n = IF size < MAX_EVENTS THEN size ELSE MAX_EVENTS
  BY Zenon
<1>6. PICK at \in [1 .. size -> places] :
        LET live == [k \in 1 .. size |-> rdllist[at[k]]] IN
        /\ events' = SubSeq(live, 1, n)
        /\ rdllist' = SubSeq(live, n + 1, size) \o SubSeq(live, 1, n)
  BY <1>1, <1>2, <1>5, Zenon DEF EpollWait
<1>7. PICK live : live = [k \in 1 .. size |-> rdllist[at[k]]]
  BY Zenon
<1>8. events' = SubSeq(live, 1, n) /\ rdllist' = SubSeq(live, n + 1, size) \o SubSeq(live, 1, n)
  BY <1>6, <1>7, Zenon
<1>9. n \in 0 .. size /\ n <= MAX_EVENTS
  BY <1>4, <1>5, EventLoopAssumption
<1>10. \A k \in 1 .. size : live[k] \in Fds /\ Readable(live[k])
  BY <1>1, <1>3, <1>7
<1>11. live \in Seq(Fds) /\ Len(live) = size
  BY <1>4, <1>7, <1>10
<1>12. SubSeq(live, 1, n) \in Seq(Fds) /\ Len(SubSeq(live, 1, n)) = n
       /\ \A k \in 1 .. n : SubSeq(live, 1, n)[k] = live[k]
  BY <1>9, <1>11
<1>13. SubSeq(live, n + 1, size) \in Seq(Fds)
  BY <1>9, <1>11
<1> QED BY <1>8, <1>9, <1>10, <1>12, <1>13

-----------------------------------------------------------------------------
(* Initially nothing is taken.                                             *)
LEMMA InitIInv ==
  ASSUME Init PROVE IInv /\ OInv
<1>1. Shape
  <2>1. 0 \in Socks /\ 0 \in 0 .. NReq
    BY EventLoopAssumption DEF Socks
  <2>2. timer \in [Socks -> Timers] /\ outcome \in [Reqs -> Seq(Outcomes)]
    BY DEF Init, Timers
  <2> QED BY <2>1, <2>2, EventLoopAssumption DEF Init, Shape, NoCallback
<1>2. Holders /\ Reported /\ OneOutcome
  BY EventLoopAssumption DEF Init, Holders, Reported, OneOutcome, Taken, NoCallback
<1>5. Delivery
  <2>1. rx \in [Socks -> Seq(Datagrams)] /\ \A s \in Socks : \A k \in 1 .. Len(rx[s]) : FALSE
    BY DEF Init
  <2>2. \A r : ~Pending(r)
    BY <2>1, Zenon DEF Init, Pending, Arrived
  <2> QED BY <2>1, <2>2, Zenon DEF Delivery, Single, Pending
<1>3. CountExact
  <2>1. {s \in Socks : Taken(s)} = {}
    BY Zenon DEF Init, Taken
  <2> QED BY <2>1, FS_EmptySet, Zenon DEF Init, CountExact
<1>4. OInv
  BY DEF Init, OInv, TimersOwn, OwnTimeout, Off
<1> QED BY <1>1, <1>2, <1>3, <1>4, <1>5, Zenon DEF IInv

(* Every step preserves the invariant.                                     *)
LEMMA NextIInv ==
  ASSUME IInv, [Next]_vars
  PROVE  IInv'
<1>1. Shape /\ Delivery
  BY Zenon DEF IInv
<1>2. ASSUME SendReq PROVE IInv'
  BY <1>2, Sends, Zenon
<1>3. ASSUME EpollWait PROVE IInv'
  <2>1. Shape'
    BY <1>1, <1>3, Waits, Zenon DEF EpollWait, Shape, sockets, history
  <2>2. UNCHANGED <<issued, cp, count, cb, outcome, rx, net>>
    BY <1>3, Zenon DEF EpollWait, sockets, history
  <2> QED BY <1>1, <2>1, <2>2, DeliveryQuiet, Quiet, Zenon
<1>4. ASSUME TimerReturns \/ DropReturns PROVE IInv'
  <2>1. /\ cb.kind \in {"timeout", "dropped"} /\ cb' = NoCallback /\ FreePair(cb.sock)
        /\ UNCHANGED <<issued, outcome, rdllist, events, rx, net>>
    BY <1>4, Zenon DEF TimerReturns, DropReturns, kernel, history
  <2>2. cb.sock \in Socks /\ Taken(cb.sock)
    BY <2>1, Zenon DEF IInv, Reported, Shape
  <2> QED BY <2>1, <2>2, Frees, Zenon
<1>6. ASSUME ReplyReturns PROVE IInv'
  <2>1. /\ cb' = NoCallback
        /\ UNCHANGED <<issued, idx, count, cp, timer, rdllist, events, outcome, rx, net>>
    BY <1>6, Zenon DEF ReplyReturns, sockets, kernel, history
  <2>2. Shape'
    BY <1>1, <2>1, EventLoopAssumption DEF Shape, NoCallback, Socks
  <2>3. Reported'
    <3>1. cb.kind = "success" /\ cb'.kind = "none" /\ "none" \notin {"timeout", "dropped"}
      <4>1. NoCallback.kind = "none" /\ "none" \notin {"timeout", "dropped"}
        BY Zenon DEF NoCallback
      <4> QED BY <1>6, <2>1, <4>1, Zenon DEF ReplyReturns
    <3>2. ASSUME NEW s \in Socks, Taken(s) PROVE Waiting(s)
      <4>1. CASE Calling(s)
        <5>1. cb.sock = s /\ outcome[cp[s]] = <<"success">>
          BY <3>1, <4>1, Zenon DEF Calling
        <5> QED BY <1>6, <3>2, <5>1, Zenon DEF ReplyReturns, Waiting
      <4> QED BY <3>2, <4>1, Zenon DEF IInv, Reported
    <3> QED BY <2>1, <3>1, <3>2, Zenon DEF Reported, Taken, Waiting
  <2>4. Holders' /\ OneOutcome' /\ CountExact'
    BY <2>1, Zenon DEF IInv, Holders, OneOutcome, CountExact, Taken
  <2> QED BY <1>1, <2>1, <2>2, <2>3, <2>4, DeliveryQuiet, Zenon DEF IInv
<1>7. ASSUME NEW s \in Socks, Expire(s) PROVE IInv'
  <2>1. rdllist' \in Seq(Fds)
    BY <1>1, <1>7, ReadyList, Zenon DEF Expire, Shape, Fds
  <2>2. timer' \in [Socks -> Timers]
    BY <1>1, <1>7, Zenon DEF Expire, Shape, Timers
  <2>3. UNCHANGED <<issued, idx, count, cp, events, cb, outcome, rx, net>>
    BY <1>7, Zenon DEF Expire, sockets
  <2>4. Shape'
    BY <1>1, <2>1, <2>2, <2>3, Zenon DEF Shape
  <2> QED BY <1>1, <2>3, <2>4, DeliveryQuiet, Quiet, Zenon
<1>8. ASSUME NEW s \in Socks, NEW r \in Reqs, Answer(r, s) PROVE IInv'
  <2>1. rdllist' \in Seq(Fds)
    BY <1>1, <1>8, ReadyList, Zenon DEF Answer, Shape, Fds
  <2>2. UNCHANGED <<issued, idx, count, cp, timer, events, cb, outcome>>
    BY <1>8, Zenon DEF Answer, sockets, history
  <2>3. Shape'
    BY <1>1, <2>1, <2>2, Zenon DEF Shape
  <2>4. Delivery'
    BY <1>1, <1>8, AnswerDelivery, Zenon
  <2> QED BY <2>2, <2>3, <2>4, Quiet, Zenon
<1>9. ASSUME NEW s \in Socks, BadDatagram(s) PROVE IInv'
  <2>1. rdllist' \in Seq(Fds)
    BY <1>1, <1>9, ReadyList, Zenon DEF BadDatagram, Shape, Fds
  <2>2. UNCHANGED <<issued, idx, count, cp, timer, events, cb, outcome>>
    BY <1>9, Zenon DEF BadDatagram, sockets, history
  <2>3. Shape'
    BY <1>1, <2>1, <2>2, Zenon DEF Shape
  <2>4. Delivery'
    BY <1>1, <1>9, BadDelivery, Zenon
  <2> QED BY <2>2, <2>3, <2>4, Quiet, Zenon
<1>10. ASSUME NEW s \in Socks, RecvRespDone(s) PROVE IInv'
  <2>1. /\ Taken(s) /\ outcome[cp[s]] = <<"success">> /\ FreePair(s)
        /\ UNCHANGED <<issued, outcome, rdllist, events, rx, net, cb>>
    BY <1>10, Zenon DEF RecvRespDone, kernel, history
  <2>2. ASSUME cb.sock = s, cb.kind \in {"timeout", "dropped"} PROVE FALSE
    <3>1. Calling(s)
      BY <2>2, Zenon DEF IInv, Reported
    <3>2. \/ outcome[cp[s]] = <<"timeout">> \/ outcome[cp[s]] = <<"dropped">>
          \/ outcome[cp[s]] = <<"success", "timeout">>
      BY <2>2, <3>1, Zenon DEF Calling
    <3> QED BY ONLY <2>1, <3>2
  <2> QED BY <2>1, <2>2, Frees, Zenon
<1>11. ASSUME NEW s \in Socks, Handle(s) PROVE IInv'
  <2>1. events # <<>> /\ cb = NoCallback /\ UNCHANGED <<issued, idx, count, cp, rdllist>>
    BY <1>11, Zenon DEF Handle, HandleTimer, HandleBad, HandleUnmatched, HandleReply, HandleDrop,
                 Receive, NextEvent, sockets, kernel
  <2>2. Tail(events) \in Seq(Fds) /\ Len(Tail(events)) <= MAX_EVENTS
    BY <1>1, <2>1, EventLoopAssumption DEF Shape
  <2>3. [timer EXCEPT ![s] = Off] \in [Socks -> Timers]
    BY <1>1, Zenon DEF Shape, Timers
  <2>4. CASE HandleTimer(s) /\ Taken(s)
    <3>1. cp[s] \in Reqs /\ Waiting(s) /\ outcome \in [Reqs -> Seq(Outcomes)]
      BY <1>1, <2>1, <2>4, Idle, Zenon DEF Shape
    <3>2. /\ Concludes(cp[s], "timeout") /\ cb' = [kind |-> "timeout", sock |-> s]
          /\ events' = Tail(events) /\ timer' = [timer EXCEPT ![s] = Off] /\ UNCHANGED <<rx, net>>
      BY <2>4, Zenon DEF HandleTimer, kernel
    <3>3. /\ outcome'[cp[s]] = Append(outcome[cp[s]], "timeout")
          /\ \A q \in Reqs : q # cp[s] => outcome'[q] = outcome[q]
      BY <3>1, <3>2, Zenon DEF Concludes
    <3>4. ASSUME Unreplied(cp[s]) PROVE outcome'[cp[s]] = <<"timeout">>
      <4>1. outcome[cp[s]] = <<>>
        BY <3>1, <3>4, Zenon DEF Waiting, Unreplied
      <4> QED BY ONLY <3>3, <4>1
    <3>5. Unreplied(cp[s]) => Unreplied(cp[s])'
      <4>1. <<"timeout">> # <<"success">> /\ <<"timeout">> # <<"success", "timeout">>
        OBVIOUS
      <4>2. UNCHANGED cp
        BY <2>1, Zenon
      <4> QED BY <3>4, <4>1, <4>2, Zenon DEF Unreplied
    <3>6. Delivery'
      <4>1. PICK r : r = cp[s] /\ r \in Reqs
        BY <3>1, Zenon
      <4>2. (Unreplied(r) => Unreplied(r)') /\ \A q \in Reqs : q # r => outcome'[q] = outcome[q]
        BY <2>1, <3>3, <3>5, <4>1, Zenon DEF Unreplied
      <4> QED BY <1>1, <2>1, <3>2, <4>1, <4>2, CallDelivery, Zenon
    <3> QED BY <2>1, <2>2, <2>3, <2>4, <3>2, <3>6, Calls, Zenon
  <2>5. CASE HandleTimer(s) /\ ~Taken(s)
    <3>1. Shape' /\ UNCHANGED <<cb, outcome, rx, net>>
      BY <1>1, <2>1, <2>2, <2>3, <2>5, Zenon DEF HandleTimer, Shape, kernel
    <3> QED BY <1>1, <2>1, <3>1, DeliveryQuiet, Quiet, Zenon
  <2>6. CASE HandleBad(s)
    <3>1. Shape' /\ UNCHANGED <<cb, outcome>>
      BY <1>1, <2>1, <2>6, EventLoopAssumption DEF HandleBad, Shape
    <3>2. PICK d : Receive(s, d)
      BY <2>6, Zenon DEF HandleBad
    <3> QED BY <1>1, <2>1, <3>1, <3>2, ReceiveDelivery, Quiet, Zenon
  <2>7. CASE HandleUnmatched(s)
    <3>1. events' = Tail(events) /\ UNCHANGED <<timer, cb, outcome>>
      BY <2>7, Zenon DEF HandleUnmatched
    <3>2. Shape'
      BY <1>1, <2>1, <2>2, <3>1, Zenon DEF Shape
    <3>3. PICK d : Receive(s, d)
      BY <2>7, Zenon DEF HandleUnmatched
    <3> QED BY <1>1, <2>1, <3>1, <3>2, <3>3, ReceiveDelivery, Quiet, Zenon
  <2>8. ASSUME NEW d, NEW kind \in {"success", "dropped"}, Taken(s), Receive(s, d), d.req = cp[s],
               events' = Tail(events), timer' \in [Socks -> Timers],
               Concludes(cp[s], kind), cb' = [kind |-> kind, sock |-> s]
        PROVE  IInv'
    <3>1. cp[s] \in Reqs /\ Waiting(s) /\ outcome \in [Reqs -> Seq(Outcomes)]
      BY <1>1, <2>1, <2>8, Idle, Zenon DEF Shape
    <3>2. \A q \in Reqs : q # d.req => outcome'[q] = outcome[q]
      BY <2>8, <3>1, Zenon DEF Concludes
    <3>3. Delivery' /\ Arrived(cp[s])
      BY <1>1, <2>8, <3>2, ReceiveDelivery, Zenon
    <3>4. Unreplied(cp[s])
      BY <1>1, <3>1, <3>3, Zenon DEF Delivery, Pending
    <3>5. outcome[cp[s]] = <<>>
      BY <3>1, <3>4, Zenon DEF Waiting, Unreplied
    <3>6. kind \in {"success", "timeout", "dropped"}
      BY <2>8, Zenon
    <3> QED BY <2>1, <2>2, <2>8, <3>3, <3>5, <3>6, Calls, Zenon
  <2>9. CASE HandleReply(s)
    <3>1. PICK d : d = [kind |-> "reply", req |-> cp[s]]
      BY Zenon
    <3>2. d.req = cp[s] /\ Receive(s, d) /\ timer' \in [Socks -> Timers]
      BY <2>3, <2>9, <3>1, Zenon DEF HandleReply
    <3> QED BY <2>8, <2>9, <3>2, Zenon DEF HandleReply
  <2>10. CASE HandleDrop(s)
    <3>1. PICK d : d = [kind |-> "drop", req |-> cp[s]]
      BY Zenon
    <3>2. d.req = cp[s] /\ Receive(s, d) /\ timer' \in [Socks -> Timers]
      BY <1>1, <2>10, <3>1, Zenon DEF HandleDrop, Shape
    <3> QED BY <2>8, <2>10, <3>2, Zenon DEF HandleDrop
  <2> QED BY <1>11, <2>4, <2>5, <2>6, <2>7, <2>9, <2>10, Zenon DEF Handle
<1>12. ASSUME UNCHANGED vars PROVE IInv'
  <2>1. UNCHANGED <<issued, idx, count, cp, timer, rdllist, events, cb, outcome, rx, net>>
    BY <1>12, Zenon DEF vars, sockets, kernel, history
  <2>2. Shape'
    BY <1>1, <2>1, Zenon DEF Shape
  <2> QED BY <1>1, <2>1, <2>2, DeliveryQuiet, Quiet, Zenon
<1> QED BY <1>2, <1>3, <1>4, <1>6, <1>7, <1>8, <1>9, <1>10, <1>11, <1>12, Zenon
           DEF Next, Returns

-----------------------------------------------------------------------------
(* Whose timer it was. *)

(* A step that only frees sockets, stops timers, forgets events and lets   *)
(* timers that expired be known.                                           *)
LEMMA TimersKept ==
  ASSUME IInv, TimersOwn, expired \subseteq expired',
         \A s \in Socks : Taken(s)' => cp'[s] = cp[s],
         \A s \in Socks : timer'[s] = Off \/ (timer'[s] = timer[s] /\ cp'[s] = cp[s]),
         \A k \in 1 .. Len(events') : \E j \in 1 .. Len(events) : events'[k] = events[j]
  PROVE  TimersOwn'
<1>1. \A s \in Socks : timer'[s].state = "armed" => Taken(s)' /\ timer'[s].req = cp'[s]
  BY DEF TimersOwn, Off, Taken
<1>2. \A s \in Socks : timer'[s].state = "expired" /\ Taken(s)' => cp'[s] \in expired'
  BY DEF TimersOwn, Off, Taken
<1>3. ASSUME NEW k \in 1 .. Len(events'), NEW s \in Socks, events'[k] = <<"tfd", s>>, Taken(s)'
      PROVE  cp'[s] \in expired'
  BY <1>3 DEF TimersOwn, Taken
<1> QED BY <1>1, <1>2, <1>3, Zenon DEF TimersOwn

(* Every step preserves it, when callbacks send no requests: the socket of *)
(* a timer event then changes hands in no batch that holds the event.      *)
LEMMA NextOInv ==
  ASSUME ~SendInCallback, IInv, OInv, [Next]_vars
  PROVE  OInv'
<1>1. Shape /\ TimersOwn /\ OwnTimeout
  BY Zenon DEF IInv, OInv
<1>2. /\ cp \in [Socks -> 0 .. NReq] /\ timer \in [Socks -> Timers]
      /\ outcome \in [Reqs -> Seq(Outcomes)]
  BY <1>1, Zenon DEF Shape
<1>3. UNCHANGED outcome /\ expired \subseteq expired' => OwnTimeout'
  BY <1>1, Zenon DEF OwnTimeout
<1>4. ASSUME SendReq PROVE OInv'
  <2>1. events = <<>> /\ UNCHANGED <<events, expired>>
    BY <1>4, Zenon DEF SendReq, AppRuns
  <2>2. CASE prepare_to_send(issued + 1) /\ UNCHANGED outcome
    <3>1. PICK s \in Socks :
            cp' = [cp EXCEPT ![s] = issued + 1] /\ timer' = [timer EXCEPT ![s] = Armed(issued + 1)]
      BY <2>2, Zenon DEF prepare_to_send
    <3>2. issued \in Nat
      BY <1>1 DEF Shape
    <3>3. /\ cp'[s] = issued + 1 /\ timer'[s] = Armed(issued + 1) /\ issued + 1 # 0
          /\ \A t \in Socks : t # s => cp'[t] = cp[t] /\ timer'[t] = timer[t]
      BY <1>2, <3>1, <3>2
    <3>4. \A t \in Socks : timer'[t].state = "armed" => Taken(t)' /\ timer'[t].req = cp'[t]
      BY <1>1, <3>3 DEF TimersOwn, Taken, Armed
    <3>5. \A t \in Socks : timer'[t].state = "expired" /\ Taken(t)' => cp'[t] \in expired'
      BY <1>1, <2>1, <3>3 DEF TimersOwn, Taken, Armed
    <3>6. TimersOwn'
      BY <2>1, <3>4, <3>5 DEF TimersOwn
    <3> QED BY <1>3, <2>1, <2>2, <3>6, Zenon DEF OInv
  <2>3. CASE Concludes(issued + 1, "no_socket") /\ UNCHANGED <<sockets, timer, net>>
    <3>1. TimersOwn'
      BY <1>1, <2>1, <2>3, Zenon DEF TimersOwn, Taken, sockets
    <3>2. PICK r : r = issued + 1
      BY Zenon
    <3>a. issued \in 0 .. NReq /\ issued < NReq
      BY <1>1, <1>4, Zenon DEF SendReq, Shape
    <3>b. r \in Reqs /\ r > issued
      BY <3>2, <3>a, EventLoopAssumption DEF Reqs
    <3>3. r \in Reqs /\ outcome[r] = <<>>
      BY <3>b, Zenon DEF IInv, Holders
    <3>4. outcome' = [outcome EXCEPT ![r] = <<"no_socket">>]
      BY <2>3, <3>2, <3>3 DEF Concludes
    <3>5. OwnTimeout'
      BY <1>1, <1>2, <2>1, <3>3, <3>4 DEF OwnTimeout
    <3> QED BY <3>1, <3>5, Zenon DEF OInv
  <2> QED BY <1>4, <2>2, <2>3, Zenon DEF SendReq
<1>5. ASSUME EpollWait PROVE OInv'
  <2>1. UNCHANGED <<cp, timer, outcome, expired>>
    BY <1>5, Zenon DEF EpollWait, sockets, history
  <2>2. ASSUME NEW k \in 1 .. Len(events'), NEW s \in Socks, events'[k] = <<"tfd", s>>, Taken(s)
        PROVE  cp[s] \in expired
    <3>1. Readable(<<"tfd", s>>)
      BY <1>1, <1>5, <2>2, Waits, Zenon
    <3>2. timer[s] = Expired
      BY <3>1, Zenon DEF Readable
    <3> QED BY <1>1, <2>2, <3>2 DEF TimersOwn, Expired
  <2>3. TimersOwn'
    BY <1>1, <2>1, <2>2, Zenon DEF TimersOwn, Taken
  <2> QED BY <1>3, <2>1, <2>3, Zenon DEF OInv
<1>6. ASSUME NEW s \in Socks, FreePair(s), UNCHANGED <<events, expired, outcome>> PROVE OInv'
  <2>1. /\ cp'[s] = 0 /\ timer'[s] = Off
        /\ \A t \in Socks : t # s => cp'[t] = cp[t] /\ timer'[t] = timer[t]
    BY <1>2, <1>6, Zenon DEF FreePair
  <2>2. TimersOwn'
    BY <1>1, <1>6, <2>1, TimersKept, Zenon DEF Taken
  <2> QED BY <1>3, <1>6, <2>2, Zenon DEF OInv
<1>7. ASSUME TimerReturns \/ DropReturns PROVE OInv'
  <2>1. cb.sock \in Socks
    BY <1>1, Zenon DEF Shape
  <2> QED BY <1>6, <1>7, <2>1, Zenon DEF TimerReturns, DropReturns, history
<1>8. ASSUME NEW s \in Socks, RecvRespDone(s) PROVE OInv'
  BY <1>6, <1>8, Zenon DEF RecvRespDone, history
<1>9. ASSUME UNCHANGED <<cp, timer, events, outcome, expired>> PROVE OInv'
  <2>1. TimersOwn'
    BY <1>1, <1>9, TimersKept, Zenon
  <2> QED BY <1>3, <1>9, <2>1, Zenon DEF OInv
<1>10. ASSUME ReplyReturns \/ UNCHANGED vars PROVE OInv'
  BY <1>9, <1>10, Zenon DEF ReplyReturns, vars, sockets, kernel, history
<1>11. ASSUME NEW s \in Socks, BadDatagram(s) \/ \E r \in Reqs : Answer(r, s) PROVE OInv'
  BY <1>9, <1>11, Zenon DEF BadDatagram, Answer, sockets, history
<1>12. ASSUME NEW s \in Socks, Expire(s) PROVE OInv'
  <2>1. /\ timer[s].state = "armed" /\ timer' = [timer EXCEPT ![s] = Expired]
        /\ expired' = expired \cup {timer[s].req} /\ UNCHANGED <<cp, events, outcome>>
    BY <1>12, Zenon DEF Expire, sockets
  <2>2. timer'[s] = Expired /\ \A t \in Socks : t # s => timer'[t] = timer[t]
    BY <1>2, <2>1, Zenon
  <2>3. cp[s] \in expired'
    BY <1>1, <2>1, Zenon DEF TimersOwn
  <2>4. TimersOwn'
    BY <1>1, <2>1, <2>2, <2>3 DEF TimersOwn, Taken, Expired
  <2> QED BY <1>3, <2>1, <2>4, Zenon DEF OInv
<1>13. ASSUME NEW s \in Socks, Handle(s) PROVE OInv'
  <2>1. events # <<>> /\ cb = NoCallback /\ UNCHANGED <<cp, expired>>
    BY <1>13, Zenon DEF Handle, HandleTimer, HandleBad, HandleUnmatched, HandleReply, HandleDrop,
                 Receive, NextEvent, sockets
  <2>2. events' = Tail(events) \/ events' = <<>>
    BY <1>13, Zenon DEF Handle, HandleTimer, HandleBad, HandleUnmatched, HandleReply, HandleDrop
  <2>3. \A k \in 1 .. Len(events') : \E j \in 1 .. Len(events) : events'[k] = events[j]
    <3>1. Len(Tail(events)) = Len(events) - 1 /\ Len(events) \in Nat
          /\ \A k \in 1 .. Len(events) - 1 : Tail(events)[k] = events[k + 1]
      BY <1>1, <2>1 DEF Shape
    <3>2. \A k \in 1 .. Len(events) - 1 : k + 1 \in 1 .. Len(events)
      BY <3>1
    <3>3. CASE events' = Tail(events)
      <4>1. \A k \in 1 .. Len(events') : k \in 1 .. Len(events) - 1
        BY <3>1, <3>3
      <4> QED BY <3>1, <3>2, <3>3, <4>1, Zenon
    <3>4. CASE events' = <<>>
      <4>1. \A k \in 1 .. Len(events') : FALSE
        BY <3>4
      <4> QED BY <4>1, Zenon
    <3> QED BY <2>2, <3>3, <3>4, Zenon
  <2>4. timer' = [timer EXCEPT ![s] = Off] \/ timer' = timer
    BY <1>13, Zenon DEF Handle, HandleTimer, HandleBad, HandleUnmatched, HandleReply, HandleDrop
  <2>5. \A t \in Socks : timer'[t] = Off \/ timer'[t] = timer[t]
    BY <1>2, <2>4, Zenon
  <2>6. TimersOwn'
    BY <1>1, <2>1, <2>3, <2>5, TimersKept, Zenon
  <2>7. ASSUME NEW kind \in {"success", "timeout", "dropped"}, Taken(s), Concludes(cp[s], kind),
               kind = "timeout" => cp[s] \in expired
        PROVE  OwnTimeout'
    <3>1. PICK r : r = cp[s]
      BY Zenon
    <3>2. r \in Reqs /\ outcome[r] \in Seq(Outcomes)
      BY <1>2, <2>1, <2>7, <3>1, Idle, Zenon
    <3>3. /\ outcome'[r] = Append(outcome[r], kind)
          /\ \A q \in Reqs : q # r => outcome'[q] = outcome[q]
      BY <1>2, <2>7, <3>1, <3>2, Zenon DEF Concludes
    <3>4. \A k \in 1 .. Len(outcome'[r]) :
            outcome'[r][k] = kind \/ (k \in 1 .. Len(outcome[r]) /\ outcome'[r][k] = outcome[r][k])
      BY ONLY <3>2, <3>3, SMT
    <3>5. \A k \in 1 .. Len(outcome'[r]) : outcome'[r][k] = "timeout" => r \in expired
      BY <1>1, <2>7, <3>1, <3>2, <3>4, Zenon DEF OwnTimeout
    <3> QED BY <1>1, <2>1, <3>3, <3>5, Zenon DEF OwnTimeout
  <2>8. CASE HandleTimer(s)
    <3>1. events[1] = <<"tfd", s>> /\ 1 \in 1 .. Len(events)
      BY <1>1, <2>8 DEF HandleTimer, NextEvent, Shape
    <3>2. Taken(s) => cp[s] \in expired
      BY <1>1, <3>1, Zenon DEF TimersOwn
    <3>3. OwnTimeout'
      BY <1>3, <2>1, <2>7, <2>8, <3>2, Zenon DEF HandleTimer
    <3> QED BY <2>6, <3>3, Zenon DEF OInv
  <2>9. CASE HandleReply(s) \/ HandleDrop(s)
    <3>1. OwnTimeout'
      BY <2>7, <2>9, Zenon DEF HandleReply, HandleDrop
    <3> QED BY <2>6, <3>1, Zenon DEF OInv
  <2>10. CASE HandleBad(s) \/ HandleUnmatched(s)
    <3>1. UNCHANGED outcome
      BY <2>10, Zenon DEF HandleBad, HandleUnmatched
    <3> QED BY <1>3, <2>1, <2>6, <3>1, Zenon DEF OInv
  <2> QED BY <1>13, <2>8, <2>9, <2>10, Zenon DEF Handle
<1> QED BY <1>4, <1>5, <1>7, <1>8, <1>10, <1>11, <1>12, <1>13, Zenon DEF Next, Returns

-----------------------------------------------------------------------------
(* The invariant, for every number of requests, sockets and events, and    *)
(* whether or not callbacks send requests.                                 *)
THEOREM Inductive == Spec => []IInv
<1>1. Init => IInv
  BY InitIInv, Zenon
<1>2. IInv /\ [Next]_vars => IInv'
  BY NextIInv, Zenon
<1> QED BY <1>1, <1>2, PTL DEF Spec

(* The state of the polling loop keeps its type: sp.count stays within the *)
(* pool, and r2p2_poll never holds more than MAX_EVENTS events.            *)
THEOREM Typed == Spec => []TypeOK
<1>1. IInv => TypeOK
  <2> SUFFICES ASSUME IInv PROVE TypeOK
    BY Zenon
  <2>1. count \in 0 .. NSock
    BY SocksFinite, Zenon DEF IInv, CountExact
  <2>2. \A k \in 1 .. Len(rdllist) : rdllist[k] \in Fds
    BY DEF IInv, Shape
  <2> QED BY <2>1, <2>2, Zenon DEF IInv, Shape, TypeOK, Timers
<1> QED BY <1>1, Inductive, PTL

(* Each request is reported by at most one callback or error, or by        *)
(* success_cb and then timeout_cb if its reply is kept, whatever the batch *)
(* still holds about its socket and whatever callbacks do.                 *)
THEOREM ReportedOnce == Spec => []OneOutcome
<1>1. IInv => OneOutcome
  BY Zenon DEF IInv
<1> QED BY <1>1, Inductive, PTL

(* sp.count is the number of sockets taken.                                *)
THEOREM ExactCount == Spec => []CountExact
<1>1. IInv => CountExact
  BY Zenon DEF IInv
<1> QED BY <1>1, Inductive, PTL

(* When callbacks send no requests, timeout_cb is called only for a        *)
(* request whose own timer expired.                                        *)
THEOREM TimeoutsOwn == ~SendInCallback /\ Spec => []OwnTimeout
<1>1. ~SendInCallback /\ Init => IInv /\ OInv
  BY InitIInv, Zenon
<1>2. ~SendInCallback /\ IInv /\ OInv /\ [Next]_vars => IInv' /\ OInv'
  BY NextIInv, NextOInv, Zenon
<1>3. IInv /\ OInv => OwnTimeout
  BY Zenon DEF OInv
<1>4. CASE SendInCallback
  BY <1>4, Zenon
<1>5. CASE ~SendInCallback
  <2>1. Init => IInv /\ OInv
    BY <1>1, <1>5, Zenon
  <2>2. IInv /\ OInv /\ [Next]_vars => IInv' /\ OInv'
    BY <1>2, <1>5, Zenon
  <2> QED BY <1>3, <2>1, <2>2, PTL DEF Spec
<1> QED BY <1>4, <1>5, Zenon
=============================================================================
