---------------------------- MODULE R2P2_proofs ----------------------------
(***************************************************************************)
(* The client and the server library, for any number of requests, sockets, *)
(* servers and packets.                                                    *)
(*                                                                         *)
(* On a network that delays, reorders, loses and duplicates packets, a     *)
(* request is reported to its application at most once, provided that the  *)
(* application calls r2p2_recv_resp_done in success_cb, as those of the    *)
(* repository do; and the server's application is handed whole requests,   *)
(* provided that request ids do not wrap.                                  *)
(*                                                                         *)
(* Without duplication, and whenever r2p2_recv_resp_done is called, the    *)
(* two libraries implement RPC, success_cb gets whole replies and no       *)
(* assert fails.  A request is in one place at a time: its first packet is *)
(* in flight, a server pair waits for the rest of it, it was executed, or  *)
(* it was dropped.  The places only follow one another, so it is executed  *)
(* once (Stages).  So do the places of its answer: an ACK after the first  *)
(* packet, the rest of the request after the ACK, the packets of the reply *)
(* after the application let go of the request, and a client pair that has *)
(* the first packets of the reply and none of those in flight (Replies).   *)
(***************************************************************************)
EXTENDS R2P2, TLAPS

(* Leaves are for Zenon, but for those that name another prover. *)
USE Zenon

-----------------------------------------------------------------------------
(* Arithmetic for the leaves below.                                        *)

(* The lengths of messages, and the numbers of their packets.              *)
LEMMA Lengths ==
  \A r \in Reqs :
    /\ ReqPkts[r] \in Nat \ {0} /\ RespPkts[r] \in Nat \ {0}
    /\ \A k \in 0 .. ReqPkts[r] - 1 : k \in Nat
    /\ \A k \in 0 .. RespPkts[r] - 1 : k \in Nat
  BY ONLY R2P2Assumption, SMT DEF Reqs

(* The members of an interval from 0 are natural numbers.                  *)
LEMMA Counts ==
  \A n : \A k \in 0 .. n : k \in Nat
  BY ONLY SMT

(* A packet, by its number k, and the last of n.                           *)
LEMMA PacketNumbers ==
  /\ 1 - 1 = 0 /\ 0 + 1 = 1
  /\ \A n \in Nat : (n - 1) + 1 = n /\ (0 >= n => n = 0) /\ (n # 0 => n > 0)
  /\ \A n \in Nat : n # 0 /\ n # 1 => n > 1
  /\ \A n \in Nat : \A k \in 0 .. n - 1 : k + 1 <= n /\ (k # 0 => k \in 1 .. n - 1)
  /\ \A n \in Nat : \A k \in 1 .. n - 1 : k + 1 \in 1 .. n
  /\ \A k, n \in Nat : k # n /\ k >= n => k >= n + 1
  BY ONLY SMT

(* n times the same.                                                       *)
LEMMA Repeated ==
  ASSUME NEW S, NEW x \in S, NEW n \in Nat
  PROVE  [j \in 1 .. n |-> x] \in Seq(S)
  BY ONLY SMT

(* The sizes of the client's tables and of its counters, however long it   *)
(* runs: sp.idx stays in the pool and rid in its width.                    *)
THEOREM TypesKept == Spec => []TypeOK
<1>1. Init => TypeOK
  <2> SUFFICES ASSUME Init PROVE TypeOK
    OBVIOUS
  <2>1. issued = 0 /\ rid = 0 /\ sockIdx = 0 /\ crashed = FALSE
    BY DEF Init
  <2>2. DOMAIN cp = Socks /\ DOMAIN outcome = Reqs /\ owner = [s \in Socks |-> 0]
    BY DEF Init
  <2>3. 0 \in 0 .. NReq /\ 0 \in 0 .. RidSpace - 1 /\ 0 \in Socks
    BY ONLY R2P2Assumption, SMT DEF Socks
  <2> QED BY <2>1, <2>2, <2>3 DEF TypeOK
<1>2. TypeOK /\ [Next]_vars => TypeOK'
  <2> SUFFICES ASSUME TypeOK, [Next]_vars PROVE TypeOK'
    OBVIOUS
  <2>1. ASSUME NEW s \in Socks, FreePair(s),
               UNCHANGED <<issued, rid, sockIdx, crashed>>, DOMAIN outcome' = DOMAIN outcome
        PROVE  TypeOK'
    BY <2>1, R2P2Assumption, SMT DEF TypeOK, FreePair
  <2>2. ASSUME UNCHANGED <<issued, rid, sockIdx, owner>>, crashed' \in BOOLEAN,
               DOMAIN cp' = DOMAIN cp, DOMAIN outcome' = DOMAIN outcome
        PROVE  TypeOK'
    BY <2>2 DEF TypeOK
  <2>3. \A s, kind, reply : Callback(s, kind, reply) => DOMAIN outcome' = DOMAIN outcome
    BY ONLY SMT DEF Callback
  <2>c. crashed \in BOOLEAN
    BY DEF TypeOK
  <2>4. CASE SendReq
    <3>1. PICK s, c : /\ s \in Socks /\ sockIdx' = (s + 1) % NSock /\ rid' = (rid + 1) % RidSpace
                               /\ owner' = [owner EXCEPT ![s] = issued + 1]
                               /\ cp' = [cp EXCEPT ![s] = c]
      BY <2>4 DEF SendReq
    <3>2. issued < NReq /\ issued' = issued + 1 /\ UNCHANGED <<outcome, crashed>>
      BY <2>4 DEF SendReq
    <3>3. sockIdx' \in Socks /\ rid' \in 0 .. RidSpace - 1
      BY <3>1, R2P2Assumption, SMT DEF TypeOK, Socks
    <3>4. issued + 1 \in 0 .. NReq
      BY <3>2, R2P2Assumption, SMT DEF TypeOK
    <3> QED BY <3>1, <3>2, <3>3, <3>4 DEF TypeOK
  <2>5. CASE NoSocket
    <3>1. issued < NReq /\ issued' = issued + 1 /\ UNCHANGED <<rid, sockIdx, owner, cp, crashed>>
          /\ DOMAIN outcome' = DOMAIN outcome
      BY ONLY <2>5, SMT DEF NoSocket
    <3> QED BY <3>1, R2P2Assumption, SMT DEF TypeOK
  <2>6. ASSUME NEW s \in Socks, TimerFires(s) \/ RecvRespDone(s) PROVE TypeOK'
    <3>1. /\ FreePair(s) /\ UNCHANGED <<issued, rid, sockIdx, crashed>>
          /\ DOMAIN outcome' = DOMAIN outcome
      BY <2>3, <2>6 DEF TimerFires, RecvRespDone
    <3> QED BY <2>1, <3>1
  <2>7. ASSUME NEW p \in DOMAIN net, ClientRecv(p) PROVE TypeOK'
    <3>1. CASE RecvDrop(p) \/ ResponseBad(p) \/ (ResponseFull(p) /\ FreePair(p.sock))
      <4>1. /\ p.sock \in Socks /\ FreePair(p.sock) /\ UNCHANGED <<issued, rid, sockIdx, crashed>>
            /\ DOMAIN outcome' = DOMAIN outcome
        BY <2>3, <3>1 DEF RecvDrop, ResponseBad, ResponseFull, ToPair, ToClient
      <4> QED BY <2>1, <4>1
    <3>2. CASE RecvUnmatched(p) \/ AckAssert(p) \/ ResponseAssert(p)
      <4>1. /\ UNCHANGED <<issued, rid, sockIdx, owner, cp, outcome>> /\ crashed' \in BOOLEAN
        BY <2>c, <3>2 DEF RecvUnmatched, AckAssert, ResponseAssert, AssertFails, client
      <4> QED BY <2>2, <4>1
    <3>3. CASE RecvAck(p) \/ ResponsePart(p) \/ (ResponseFull(p) /\ ~FreePair(p.sock))
      <4>1. /\ UNCHANGED <<issued, rid, sockIdx, owner, crashed>>
            /\ \E c : cp' = [cp EXCEPT ![p.sock] = c]
        BY <3>3 DEF RecvAck, ResponsePart, ResponseFull
      <4>2. DOMAIN outcome' = DOMAIN outcome
        BY <2>3, <3>3 DEF RecvAck, ResponsePart, ResponseFull
      <4>3. DOMAIN cp' = DOMAIN cp
        BY <4>1
      <4> QED BY <2>2, <2>c, <4>1, <4>2, <4>3
    <3> QED BY <2>7, <3>1, <3>2, <3>3 DEF ClientRecv
  <2>8. ASSUME NEW v \in Servers, NEW p \in DOMAIN net, ServerRecv(v, p) PROVE UNCHANGED client
    BY <2>8 DEF ServerRecv, RequestDropped, RequestSingle, RequestFirst, RequestUnmatched,
       RequestRest
  <2>9. ASSUME NEW v \in Servers, NEW k, SendResponse(v, k) PROVE UNCHANGED client
    BY <2>9 DEF SendResponse
  <2>10. ASSUME NEW p \in DOMAIN net, Duplicate(p) PROVE UNCHANGED client
    BY <2>10 DEF Duplicate
  <2>11. CASE UNCHANGED vars
    BY <2>2, <2>c, <2>11 DEF vars, client
  <2>12. UNCHANGED client => TypeOK'
    BY <2>2, <2>c DEF client
  <2> QED BY <2>4, <2>5, <2>6, <2>7, <2>8, <2>9, <2>10, <2>11, <2>12 DEF Next
<1> QED BY <1>1, <1>2, PTL DEF Spec

-----------------------------------------------------------------------------
(* Callbacks.                                                              *)

(* The client's side of a callback: sockets belong to requests that were   *)
(* sent, each to one, and no request that is not kept has had two.         *)
Called ==
  /\ issued \in 0 .. NReq /\ owner \in [Socks -> 0 .. NReq] /\ DOMAIN outcome = Reqs
  /\ \A s \in Socks : ~Free(s) => owner[s] \in 1 .. issued
  /\ OneSocket /\ FutureOpen /\ OneOutcome

(* The request of socket s has had no callback yet.                        *)
Open(s) == outcome[owner[s]] = <<>>

(* It may have a callback.                                                 *)
Callable(s) == Open(s) \/ owner[s] \in Kept

(* Nothing has been sent, no socket is taken.                              *)
LEMMA InitCalled == Init => Called /\ \A s \in Socks : Free(s)
  BY ONLY R2P2Assumption, SMT DEF Init, Called, OneSocket, FutureOpen, OneOutcome, Free, Reqs, Socks

(* A callback of a request, which may free its socket.                     *)
LEMMA CalledConclude ==
  ASSUME Called, NEW s \in Socks, ~Free(s), Callable(s), NEW kind, NEW reply,
         Callback(s, kind, reply), owner' = [owner EXCEPT ![s] = 0] \/ owner' = owner,
         issued' = issued
  PROVE  /\ Called'
         /\ \A t \in Socks : ~Free(t)' =>
              /\ ~Free(t) /\ owner'[t] = owner[t]
              /\ t # s => outcome'[owner'[t]] = outcome[owner[t]]
<1> DEFINE r == owner[s]
           cb == [kind |-> kind, reply |-> reply]
<1>1. /\ issued \in 0 .. NReq /\ owner \in [Socks -> 0 .. NReq]
      /\ DOMAIN outcome = Reqs
  BY DEF Called
<1>2. OneSocket /\ FutureOpen /\ OneOutcome /\ \A t \in Socks : ~Free(t) => owner[t] \in 1 .. issued
  BY DEF Called
<1>3. r \in 1 .. issued /\ r \in Reqs
  BY <1>1, <1>2, R2P2Assumption, SMT DEF Reqs
<1>4. outcome' = [outcome EXCEPT ![r] = Append(outcome[r], cb)]
  BY DEF Callback
<1>5. ASSUME r \notin Kept PROVE Len(outcome'[r]) <= 1
  <2>1. outcome'[r] = Append(<<>>, cb)
    BY <1>1, <1>3, <1>4, <1>5 DEF Callable, Open
  <2> HIDE DEF cb, r
  <2> QED BY ONLY <2>1, SMT
<1>6. /\ DOMAIN outcome' = Reqs
      /\ \A q \in Reqs : q # r => outcome'[q] = outcome[q]
  BY <1>1, <1>4
<1>7. /\ owner' \in [Socks -> 0 .. NReq]
      /\ \A t \in Socks : owner'[t] # 0 => owner'[t] = owner[t]
  <2>1. s \in Socks /\ (owner' = [owner EXCEPT ![s] = 0] \/ owner' = owner)
    OBVIOUS
  <2>2. owner \in [Socks -> 0 .. NReq] /\ 0 \in 0 .. NReq
    BY <1>1, R2P2Assumption, SMT
  <2> QED BY <2>1, <2>2
<1>8. \A t \in Socks : ~Free(t)' => ~Free(t) /\ owner'[t] = owner[t]
  BY <1>7 DEF Free
<1>9. OneSocket'
  BY <1>2, <1>7 DEF OneSocket, Free
<1>10. FutureOpen'
  BY <1>1, <1>2, <1>3, <1>6, SMT DEF FutureOpen, Reqs
<1>11. OneOutcome'
  <2>1. r \notin Kept => Len(outcome'[r]) <= 1
    BY <1>5
  <2> QED BY <1>2, <1>6, <2>1 DEF OneOutcome
<1>12. Called'
  BY <1>1, <1>2, <1>6, <1>7, <1>8, <1>9, <1>10, <1>11 DEF Called
<1>13. ASSUME NEW t \in Socks, ~Free(t)', t # s PROVE outcome'[owner'[t]] = outcome[owner[t]]
  <2>1. ~Free(t) /\ owner'[t] = owner[t] /\ owner[t] \in 1 .. issued
    BY <1>2, <1>8, <1>13
  <2>2. owner[t] \in Reqs
    BY ONLY <1>1, <2>1, R2P2Assumption, SMT DEF Reqs
  <2>3. owner[t] # r
    BY <1>2, <1>13 DEF OneSocket
  <2> QED BY <1>6, <2>1, <2>2, <2>3
<1> QED BY <1>8, <1>12, <1>13

(* __r2p2_send_req on a free socket.                                       *)
LEMMA CalledSend ==
  ASSUME Called, SendReq, NEW s \in Socks, owner' = [owner EXCEPT ![s] = issued + 1]
  PROVE  /\ Called' /\ owner'[s] = issued + 1 /\ Open(s)'
         /\ \A t \in Socks : t # s => owner'[t] = owner[t]
<1>1. /\ issued \in 0 .. NReq /\ owner \in [Socks -> 0 .. NReq]
      /\ DOMAIN outcome = Reqs
  BY DEF Called
<1>2. OneSocket /\ FutureOpen /\ OneOutcome /\ \A t \in Socks : ~Free(t) => owner[t] \in 1 .. issued
  BY DEF Called
<1>4. issued' = issued + 1 /\ issued < NReq /\ outcome' = outcome
  BY DEF SendReq
<1>5. issued' \in 0 .. NReq /\ issued + 1 \in 1 .. NReq
  BY ONLY <1>1, <1>4, R2P2Assumption, SMT
<1>6. /\ owner' \in [Socks -> 0 .. NReq]
      /\ owner'[s] = issued + 1
      /\ \A t \in Socks : t # s => owner'[t] = owner[t]
  BY <1>1, <1>5, SMT
<1>7. outcome[issued + 1] = <<>>
  BY ONLY <1>1, <1>2, <1>5, SMT DEF FutureOpen, Reqs
<1>8. \A t \in Socks : owner[t] \in 0 .. issued
  BY ONLY <1>1, <1>2, SMT DEF Free
<1>9. ASSUME NEW t \in Socks, ~Free(t)' PROVE owner'[t] \in 1 .. issued'
  <2>1. CASE t = s
    BY ONLY <1>1, <1>4, <1>6, <2>1, SMT
  <2>2. CASE t # s
    BY ONLY <1>1, <1>4, <1>6, <1>8, <1>9, <2>2, SMT DEF Free
  <2> QED BY <2>1, <2>2
<1>10. OneSocket'
  <2> SUFFICES ASSUME NEW t \in Socks, NEW u \in Socks, owner'[t] # 0,
                      owner'[t] = owner'[u]
               PROVE  t = u
    BY DEF OneSocket, Free
  <2>1. CASE t = s \/ u = s
    BY <1>1, <1>6, <1>8, <2>1, SMT
  <2>2. CASE t # s /\ u # s
    BY <1>2, <1>6, <2>2 DEF OneSocket, Free
  <2> QED BY <2>1, <2>2
<1>11. FutureOpen' /\ OneOutcome'
  BY ONLY <1>1, <1>2, <1>4, SMT DEF FutureOpen, OneOutcome, Reqs
<1>12. Open(s)'
  BY <1>4, <1>6, <1>7 DEF Open
<1> QED BY <1>1, <1>4, <1>5, <1>6, <1>9, <1>10, <1>11, <1>12 DEF Called

(* __r2p2_send_req without a free socket.                                  *)
LEMMA CalledNoSocket ==
  ASSUME Called, NoSocket
  PROVE  Called' /\ \A s \in Socks : ~Free(s) => outcome'[owner'[s]] = outcome[owner[s]]
<1> DEFINE r == issued + 1
           cb == [kind |-> "error", reply |-> <<>>]
<1>1. /\ issued \in 0 .. NReq /\ owner \in [Socks -> 0 .. NReq]
      /\ DOMAIN outcome = Reqs
  BY DEF Called
<1>2. OneSocket /\ FutureOpen /\ OneOutcome /\ \A t \in Socks : ~Free(t) => owner[t] \in 1 .. issued
  BY DEF Called
<1>3. /\ issued' = r /\ owner' = owner /\ issued < NReq
      /\ outcome' = [outcome EXCEPT ![r] = Append(outcome[r], cb)]
  BY DEF NoSocket
<1>4. r \in 1 .. NReq /\ r \in Reqs /\ outcome[r] = <<>>
  BY ONLY <1>1, <1>2, <1>3, R2P2Assumption, SMT DEF FutureOpen, Reqs
<1>5. Len(outcome'[r]) = 1
  <2>1. outcome'[r] = Append(<<>>, cb)
    BY <1>1, <1>3, <1>4
  <2> HIDE DEF cb, r
  <2> QED BY ONLY <2>1, SMT
<1>6. /\ DOMAIN outcome' = Reqs
      /\ \A q \in Reqs : q # r => outcome'[q] = outcome[q]
  BY <1>1, <1>3
<1>7. ASSUME NEW t \in Socks, ~Free(t)
      PROVE  owner[t] \in Reqs /\ owner[t] # r /\ owner[t] \in 1 .. r
  <2>1. owner[t] \in 1 .. issued
    BY <1>2, <1>7
  <2> QED BY ONLY <1>1, <2>1, R2P2Assumption, SMT DEF Reqs
<1>8. OneSocket'
  BY <1>2, <1>3 DEF OneSocket, Free
<1>9. FutureOpen'
  BY ONLY <1>1, <1>2, <1>3, <1>6, SMT DEF FutureOpen, Reqs
<1>10. OneOutcome'
  <2>1. Len(outcome'[r]) <= 1
    BY ONLY <1>5, SMT
  <2> QED BY <1>2, <1>6, <2>1 DEF OneOutcome
<1>11. issued' \in 0 .. NReq /\ owner' \in [Socks -> 0 .. NReq]
  BY ONLY <1>1, <1>3, <1>4, R2P2Assumption, SMT
<1>12. \A s \in Socks : ~Free(s)' <=> ~Free(s)
  BY <1>3 DEF Free
<1> QED BY <1>3, <1>6, <1>7, <1>8, <1>9, <1>10, <1>11, <1>12 DEF Called

(* OutcomeInv is that, with pairs that may all have a callback.             *)
LEMMA OutcomeCalled == OutcomeInv <=> Called /\ \A s \in Socks : ~Free(s) => Callable(s)
  BY DEF OutcomeInv, Called, OpenPairs, Callable, Open

(* The callback of a request frees its socket, or its pair may be kept.    *)
LEMMA ConcludeStep ==
  ASSUME OutcomeInv, NEW s \in Socks, ~Free(s), NEW kind, NEW reply,
         Callback(s, kind, reply), issued' = issued,
         FreePair(s) \/ (owner' = owner /\ owner[s] \in Kept)
  PROVE  OutcomeInv'
<1>1. Called /\ \A t \in Socks : ~Free(t) => Callable(t)
  BY OutcomeCalled
<1>2. /\ owner' = [owner EXCEPT ![s] = 0] \/ owner' = owner
      /\ owner'[s] = 0 \/ owner'[s] \in Kept
  <2>1. CASE FreePair(s)
    BY <1>1, <2>1, R2P2Assumption, SMT DEF FreePair, Called
  <2> QED BY <2>1
<1>3. /\ Called'
      /\ \A t \in Socks : ~Free(t)' =>
           /\ ~Free(t) /\ owner'[t] = owner[t]
           /\ t # s => outcome'[owner'[t]] = outcome[owner[t]]
  BY <1>1, <1>2, CalledConclude
<1>4. \A t \in Socks : ~Free(t)' => Callable(t)'
  <2>1. ~Free(s)' => Callable(s)'
    BY <1>2 DEF Free, Callable
  <2> QED BY <1>1, <1>3, <2>1 DEF Callable, Open
<1>5. (OutcomeInv <=> Called /\ \A t \in Socks : ~Free(t) => Callable(t))'
  BY DEF OutcomeInv, Called, OpenPairs, Callable, Open
<1> QED BY <1>3, <1>4, <1>5

(* A step that leaves the calls and the sockets alone.                     *)
LEMMA QuietStep ==
  ASSUME OutcomeInv, UNCHANGED <<issued, owner, outcome>>
  PROVE  OutcomeInv'
  BY DEF OutcomeInv, OpenPairs, OneSocket, FutureOpen, OneOutcome, Free

(* Every step of the protocol and of the network keeps the invariant.      *)
LEMMA NextOutcome ==
  ASSUME OutcomeInv, [Next]_vars
  PROVE  OutcomeInv'
<1>c. Called /\ \A t \in Socks : ~Free(t) => Callable(t)
  BY OutcomeCalled
<1>o. (OutcomeInv <=> Called /\ \A t \in Socks : ~Free(t) => Callable(t))'
  BY DEF OutcomeInv, Called, OpenPairs, Callable, Open
<1>1. ASSUME NEW s \in Socks, TimerFires(s)
      PROVE  OutcomeInv'
  BY <1>1, ConcludeStep DEF TimerFires
<1>2. ASSUME NEW s \in Socks, RecvRespDone(s)
      PROVE  OutcomeInv'
  <2>1. /\ owner \in [Socks -> 0 .. NReq] /\ owner' = [owner EXCEPT ![s] = 0]
        /\ UNCHANGED <<issued, outcome>>
    BY <1>c, <1>2 DEF RecvRespDone, FreePair, Called
  <2>2. /\ owner' \in [Socks -> 0 .. NReq]
        /\ \A t \in Socks : owner'[t] # 0 => owner'[t] = owner[t]
    BY ONLY <2>1, R2P2Assumption, SMT
  <2> QED BY <2>1, <2>2 DEF OutcomeInv, OpenPairs, OneSocket, FutureOpen, OneOutcome, Free
<1>3. ASSUME NEW p \in DOMAIN net, ClientRecv(p)
      PROVE  OutcomeInv'
  <2>1. CASE RecvUnmatched(p) \/ RecvAck(p) \/ AckAssert(p) \/ ResponseAssert(p)
             \/ ResponsePart(p)
    BY <2>1, QuietStep DEF RecvUnmatched, RecvAck, AckAssert, ResponseAssert,
       ResponsePart, AssertFails, client
  <2>2. CASE RecvDrop(p)
    BY <2>2, ConcludeStep DEF RecvDrop, ToClient, Match
  <2>3. CASE ResponseBad(p)
    BY <2>3, ConcludeStep DEF ResponseBad, ToPair, ToClient, Match
  <2>4. CASE ResponseFull(p)
    BY <2>4, ConcludeStep DEF ResponseFull, ToPair, ToClient, Match
  <2> QED BY <1>3, <2>1, <2>2, <2>3, <2>4 DEF ClientRecv
<1>4. ASSUME NEW v \in Servers, NEW p \in DOMAIN net, ServerRecv(v, p)
      PROVE  OutcomeInv'
  BY <1>4, QuietStep DEF ServerRecv, RequestDropped, RequestSingle, RequestFirst,
     RequestUnmatched, RequestRest, client
<1>5. ASSUME NEW p, Duplicate(p)
      PROVE  OutcomeInv'
  BY <1>5, QuietStep DEF Duplicate, client
<1>6. ASSUME NEW v \in Servers, NEW k, SendResponse(v, k)
      PROVE  OutcomeInv'
  BY <1>6, QuietStep DEF SendResponse, client
<1>7. CASE UNCHANGED vars
  BY <1>7, QuietStep DEF vars, client
<1>8. CASE SendReq
  <2>1. PICK s \in Socks : owner' = [owner EXCEPT ![s] = issued + 1]
    BY <1>8 DEF SendReq
  <2>2. /\ Called' /\ Open(s)' /\ outcome' = outcome
        /\ \A t \in Socks : t # s => owner'[t] = owner[t]
    BY <1>c, <1>8, <2>1, CalledSend DEF SendReq
  <2>3. \A t \in Socks : ~Free(t)' => Callable(t)'
    BY <1>c, <2>2 DEF Free, Callable, Open
  <2> QED BY <1>o, <2>2, <2>3
<1>9. CASE NoSocket
  <2>1. owner' = owner
    BY <1>9 DEF NoSocket
  <2>2. \A t \in Socks : ~Free(t)' => ~Free(t)
    BY <2>1 DEF Free
  <2>3. Called' /\ \A t \in Socks : ~Free(t)' => Callable(t)'
    BY <1>c, <1>9, <2>1, <2>2, CalledNoSocket DEF Callable, Open
  <2> QED BY <1>o, <2>3
<1> QED BY <1>1, <1>2, <1>3, <1>4, <1>5, <1>6, <1>7, <1>8, <1>9 DEF Next

(* A request whose application calls r2p2_recv_resp_done in success_cb     *)
(* gets at most one of success_cb, error_cb and timeout_cb, and at most    *)
(* once, whatever the network does, however request ids wrap, and whatever *)
(* becomes of the pairs that are kept.                                     *)
THEOREM ReportedOnce == Spec => []OneOutcome
<1>0. Init => OutcomeInv
  BY InitCalled, OutcomeCalled
<1>1. OutcomeInv /\ [Next]_vars => OutcomeInv'
  BY NextOutcome
<1>2. OutcomeInv => OneOutcome
  BY DEF OutcomeInv
<1> QED BY <1>0, <1>1, <1>2, PTL DEF Spec

(* A step that neither calls back nor takes or frees a socket.             *)
LEMMA CalledQuiet ==
  ASSUME Called, UNCHANGED <<issued, owner, outcome>>
  PROVE  Called' /\ \A s \in Socks : Free(s)' = Free(s) /\ Open(s)' = Open(s)
  BY DEF Called, OneSocket, FutureOpen, OneOutcome, Free, Open

(* A socket is freed.                                                      *)
LEMMA CalledFree ==
  ASSUME Called, NEW s \in Socks, FreePair(s), UNCHANGED <<issued, outcome>>
  PROVE  /\ Called'
         /\ \A t \in Socks : ~Free(t)' => t # s /\ ~Free(t) /\ (Open(t) => Open(t)')
<1>1. owner \in [Socks -> 0 .. NReq] /\ owner' = [owner EXCEPT ![s] = 0]
  BY DEF Called, FreePair
<1>2. /\ owner' \in [Socks -> 0 .. NReq] /\ owner'[s] = 0
      /\ \A t \in Socks : t # s => owner'[t] = owner[t]
  BY ONLY <1>1, R2P2Assumption, SMT
<1> QED BY <1>2 DEF Called, OneSocket, FutureOpen, OneOutcome, Free, Open

(* The body of the reply to request r.                                     *)
Body(r) == [j \in 1 .. ReqPkts[r] |-> r]

(* The pair of socket s has its whole reply, and success_cb was called:    *)
(* the application keeps it.                                               *)
Held(s) ==
  /\ owner[s] \in Kept /\ cp[s].received = RespPkts[owner[s]]
  /\ \E cb : outcome[owner[s]] = <<cb>> /\ cb.kind = "success"

(* The request of a pair had no callback, or the pair is such a one.       *)
Calls ==
  /\ Called /\ ReplyIntegrity /\ KeptOutcome /\ ~crashed
  /\ \A s \in Socks : ~Free(s) => Open(s) \/ Held(s)

(* A step that calls nobody back, and changes only pairs that are open.    *)
LEMMA QuietCalls ==
  ASSUME Calls, UNCHANGED <<issued, owner, outcome, crashed>>,
         \A s \in Socks : ~Free(s) => cp'[s] = cp[s] \/ Open(s)
  PROVE  Calls'
<1>1. Called' /\ \A s \in Socks : (Free(s)' <=> Free(s)) /\ (Open(s)' <=> Open(s))
  BY CalledQuiet DEF Calls
<1>2. ReplyIntegrity' /\ KeptOutcome' /\ ~crashed'
  BY DEF Calls, ReplyIntegrity, KeptOutcome
<1>3. ASSUME NEW s \in Socks, ~Free(s)' PROVE Open(s)' \/ Held(s)'
  BY <1>1, <1>3 DEF Calls, Held
<1> QED BY <1>1, <1>2, <1>3 DEF Calls

(* r2p2_recv_resp_done.                                                    *)
LEMMA FreeCalls ==
  ASSUME Calls, NEW s \in Socks, FreePair(s), DOMAIN cp = Socks,
         UNCHANGED <<issued, outcome, crashed>>
  PROVE  Calls'
<1>1. /\ Called'
      /\ \A t \in Socks : ~Free(t)' => t # s /\ ~Free(t) /\ (Open(t) => Open(t)')
  BY CalledFree DEF Calls
<1>2. ReplyIntegrity' /\ KeptOutcome' /\ ~crashed'
  BY DEF Calls, ReplyIntegrity, KeptOutcome
<1>3. \A t \in Socks : t # s => cp'[t] = cp[t] /\ owner'[t] = owner[t]
  BY DEF FreePair, Calls, Called
<1>4. ASSUME NEW t \in Socks, ~Free(t)' PROVE Open(t)' \/ Held(t)'
  <2>1. t # s /\ ~Free(t) /\ cp'[t] = cp[t] /\ owner'[t] = owner[t]
    BY <1>1, <1>3, <1>4
  <2>2. Open(t) \/ Held(t)
    BY <2>1 DEF Calls
  <2> QED BY <2>1, <2>2 DEF Held, Open
<1> QED BY <1>1, <1>2, <1>4 DEF Calls

(* The one callback of the request of socket s.                            *)
LEMMA CallbackCalls ==
  ASSUME Calls, NEW s \in Socks, ~Free(s), Open(s), NEW kind, NEW reply, Callback(s, kind, reply),
         UNCHANGED <<issued, crashed>>, \A t \in Socks : t # s => cp'[t] = cp[t],
         kind = "success" => reply = Payload(Body(owner[s]), RespPkts[owner[s]]),
         \/ owner' = [owner EXCEPT ![s] = 0]
         \/ /\ owner' = owner /\ owner[s] \in Kept /\ kind = "success"
            /\ cp'[s].received = RespPkts[owner[s]]
  PROVE  Calls'
<1>1. /\ Called'
      /\ \A t \in Socks : ~Free(t)' =>
           /\ ~Free(t) /\ owner'[t] = owner[t]
           /\ t # s => outcome'[owner'[t]] = outcome[owner[t]]
  BY CalledConclude DEF Calls, Callable
<1>2. PICK r : r = owner[s]
  OBVIOUS
<1>3. r \in Reqs /\ outcome[r] = <<>> /\ DOMAIN outcome = Reqs
  <2>1. r \in 1 .. issued /\ issued \in 0 .. NReq /\ outcome[r] = <<>> /\ DOMAIN outcome = Reqs
    BY <1>2 DEF Calls, Called, Open
  <2> QED BY ONLY <2>1, R2P2Assumption, SMT DEF Reqs
<1>4. PICK cb : cb = [kind |-> kind, reply |-> reply]
  OBVIOUS
<1>5. outcome'[r] = Append(<<>>, cb) /\ \A q \in Reqs : q # r => outcome'[q] = outcome[q]
  BY <1>2, <1>3, <1>4 DEF Callback
<1>6. outcome'[r] = <<cb>> /\ Len(outcome'[r]) = 1 /\ outcome'[r][1] = cb
  BY ONLY <1>5, SMT
<1>k. KeptOutcome'
  <2>1. Len(outcome'[r]) <= 1
    BY ONLY <1>6, SMT
  <2>2. Kept \subseteq Reqs
    BY R2P2Assumption DEF Reqs
  <2>3. \A q \in Kept : Len(outcome'[q]) <= 1 \/ outcome'[q] = outcome[q]
    BY <1>5, <2>1, <2>2
  <2>4. KeptOutcome
    BY DEF Calls
  <2> QED BY ONLY <2>3, <2>4, SMT DEF KeptOutcome
<1>7. ReplyIntegrity'
  <2>1. ASSUME NEW q \in Reqs, NEW k \in 1 .. Len(outcome'[q]), outcome'[q][k].kind = "success"
        PROVE  outcome'[q][k].reply = Payload(Body(q), RespPkts[q])
    <3>1. CASE q # r
      BY <1>5, <2>1, <3>1 DEF Calls, ReplyIntegrity, Body
    <3>2. CASE q = r
      <4>1. k = 1
        <5>1. k \in 1 .. 1
          BY <1>6, <3>2
        <5> QED BY ONLY <5>1, SMT
      <4>2. cb.kind = kind /\ cb.reply = reply
        BY <1>4
      <4> QED BY <1>2, <1>6, <2>1, <3>2, <4>1, <4>2
    <3> QED BY <3>1, <3>2
  <2> QED BY <2>1 DEF ReplyIntegrity, Body
<1>8. ASSUME NEW t \in Socks, ~Free(t)' PROVE Open(t)' \/ Held(t)'
  <2>1. CASE t # s
    <3>1. cp'[t] = cp[t] /\ owner'[t] = owner[t] /\ outcome'[owner'[t]] = outcome[owner[t]]
      BY <1>1, <1>8, <2>1
    <3>2. Open(t) \/ Held(t)
      BY <1>1, <1>8 DEF Calls
    <3> QED BY <3>1, <3>2 DEF Held, Open
  <2>2. CASE t = s
    <3>1. owner' # [owner EXCEPT ![s] = 0]
      BY <1>8, <2>2 DEF Free, Calls, Called
    <3>2. owner'[s] = r /\ r \in Kept /\ cp'[s].received = RespPkts[r] /\ kind = "success"
      BY <1>2, <3>1
    <3>3. cb.kind = kind
      BY <1>4
    <3>4. outcome'[r] = <<cb>> /\ cb.kind = "success"
      BY <1>6, <3>2, <3>3
    <3> QED BY <2>2, <3>2, <3>4 DEF Held
  <2> QED BY <2>1, <2>2
<1> QED BY <1>1, <1>k, <1>7, <1>8 DEF Calls

(* A timer event that comes after the reply it was in one batch with.      *)
LEMMA LateCalls ==
  ASSUME Calls, NEW s \in Socks, ~Free(s), Held(s), Callback(s, "timeout", <<>>),
         UNCHANGED <<issued, crashed>>, owner' = [owner EXCEPT ![s] = 0],
         \A t \in Socks : t # s => cp'[t] = cp[t]
  PROVE  /\ Calls'
         /\ \A q \in Reqs : /\ outcome'[q] = <<>> <=> outcome[q] = <<>>
                           /\ outcome'[q][1] = outcome[q][1]
<1>1. /\ Called'
      /\ \A t \in Socks : ~Free(t)' =>
           /\ ~Free(t) /\ owner'[t] = owner[t]
           /\ t # s => outcome'[owner'[t]] = outcome[owner[t]]
  BY CalledConclude DEF Calls, Callable, Held
<1>2. PICK r : r = owner[s]
  OBVIOUS
<1>3. r \in Kept /\ Kept \subseteq Reqs /\ r \in Reqs /\ DOMAIN outcome = Reqs
  BY <1>2, R2P2Assumption DEF Calls, Called, Held, Reqs
<1>4. PICK cb : outcome[r] = <<cb>> /\ cb.kind = "success"
  BY <1>2 DEF Held
<1>5. PICK late : late = [kind |-> "timeout", reply |-> <<>>]
  OBVIOUS
<1>6. late.kind = "timeout"
  BY <1>5
<1>7. outcome'[r] = Append(<<cb>>, late) /\ \A q \in Reqs : q # r => outcome'[q] = outcome[q]
  BY <1>2, <1>3, <1>4, <1>5 DEF Callback
<1>8. /\ Len(outcome'[r]) = 2 /\ outcome'[r][1] = cb /\ outcome'[r][2] = late
      /\ outcome'[r] # <<>> /\ outcome[r] # <<>> /\ outcome[r][1] = cb /\ Len(outcome[r]) = 1
      /\ 1 \in 1 .. Len(outcome[r]) /\ \A k \in 1 .. Len(outcome'[r]) : k = 1 \/ k = 2
  BY ONLY <1>4, <1>7, SMT
<1>9. KeptOutcome'
  <2>1. outcome'[r][1].kind = "success" /\ outcome'[r][2].kind = "timeout"
    BY <1>4, <1>6, <1>8
  <2> QED BY <1>3, <1>7, <1>8, <2>1 DEF Calls, KeptOutcome
<1>10. ReplyIntegrity'
  <2>1. ASSUME NEW q \in Reqs, NEW k \in 1 .. Len(outcome'[q]), outcome'[q][k].kind = "success"
        PROVE  outcome'[q][k].reply = Payload(Body(q), RespPkts[q])
    <3>1. CASE q # r
      BY <1>7, <2>1, <3>1 DEF Calls, ReplyIntegrity, Body
    <3>2. CASE q = r
      <4>1. k = 1
        <5>1. k = 1 \/ k = 2
          BY <1>8, <3>2
        <5>2. "timeout" # "success"
          OBVIOUS
        <5> QED BY <1>6, <1>8, <2>1, <3>2, <5>1, <5>2
      <4>2. outcome'[q][k] = outcome[q][1] /\ 1 \in 1 .. Len(outcome[q])
        BY <1>8, <3>2, <4>1
      <4> QED BY <2>1, <4>2 DEF Calls, ReplyIntegrity, Body
    <3> QED BY <3>1, <3>2
  <2> QED BY <2>1 DEF ReplyIntegrity, Body
<1>11. ASSUME NEW t \in Socks, ~Free(t)' PROVE Open(t)' \/ Held(t)'
  <2>1. t # s
    BY <1>11 DEF Free, Calls, Called
  <2>2. cp'[t] = cp[t] /\ owner'[t] = owner[t] /\ outcome'[owner'[t]] = outcome[owner[t]]
    BY <1>1, <1>11, <2>1
  <2>3. Open(t) \/ Held(t)
    BY <1>1, <1>11 DEF Calls
  <2> QED BY <2>2, <2>3 DEF Held, Open
<1>12. \A q \in Reqs : /\ outcome'[q] = <<>> <=> outcome[q] = <<>>
                     /\ outcome'[q][1] = outcome[q][1]
  BY <1>7, <1>8
<1>13. ~crashed'
  BY DEF Calls
<1> QED BY <1>1, <1>9, <1>10, <1>11, <1>12, <1>13 DEF Calls

(* __r2p2_send_req, with a free socket and without one.                    *)
LEMMA SendCalls ==
  ASSUME Calls, SendReq, DOMAIN cp = Socks
  PROVE  Calls'
<1>1. PICK s \in Socks : /\ owner' = [owner EXCEPT ![s] = issued + 1]
                         /\ \A t \in Socks : t # s => cp'[t] = cp[t]
  BY DEF SendReq
<1>2. UNCHANGED <<outcome, crashed>>
  BY DEF SendReq
<1>3. Called' /\ Open(s)' /\ \A t \in Socks : t # s => owner'[t] = owner[t]
  BY <1>1, CalledSend DEF Calls
<1>4. ReplyIntegrity' /\ KeptOutcome' /\ ~crashed'
  BY <1>2 DEF Calls, ReplyIntegrity, KeptOutcome
<1>5. ASSUME NEW t \in Socks, ~Free(t)' PROVE Open(t)' \/ Held(t)'
  <2>1. CASE t = s
    BY <1>3, <2>1
  <2>2. CASE t # s
    <3>1. cp'[t] = cp[t] /\ owner'[t] = owner[t] /\ ~Free(t)
      BY <1>1, <1>3, <1>5, <2>2 DEF Free
    <3>2. Open(t) \/ Held(t)
      BY <3>1 DEF Calls
    <3> QED BY <1>2, <3>1, <3>2 DEF Held, Open
  <2> QED BY <2>1, <2>2
<1> QED BY <1>3, <1>4, <1>5 DEF Calls

(* error_cb(-ERR_NO_SOCKET) brings no reply.                               *)
LEMMA NoSocketCalls ==
  ASSUME Calls, NoSocket
  PROVE  Calls'
<1>1. Called' /\ \A s \in Socks : ~Free(s) => outcome'[owner'[s]] = outcome[owner[s]]
  BY CalledNoSocket DEF Calls
<1>2. PICK r, cb : r = issued + 1 /\ cb = [kind |-> "error", reply |-> <<>>]
  OBVIOUS
<1>3. /\ UNCHANGED <<owner, cp, crashed>> /\ issued < NReq
      /\ outcome' = [outcome EXCEPT ![r] = Append(outcome[r], cb)]
  BY <1>2 DEF NoSocket
<1>4. r \in Reqs /\ outcome[r] = <<>> /\ DOMAIN outcome = Reqs
  BY <1>2, <1>3, R2P2Assumption, SMT DEF Calls, Called, FutureOpen, Reqs
<1>5. outcome'[r] = Append(<<>>, cb) /\ \A q \in Reqs : q # r => outcome'[q] = outcome[q]
  BY <1>3, <1>4
<1>6. outcome'[r] = <<cb>> /\ Len(outcome'[r]) = 1 /\ outcome'[r][1] = cb
  BY ONLY <1>5, SMT
<1>k. KeptOutcome'
  <2>1. Len(outcome'[r]) <= 1
    BY ONLY <1>6, SMT
  <2>2. Kept \subseteq Reqs
    BY R2P2Assumption DEF Reqs
  <2>3. \A q \in Kept : Len(outcome'[q]) <= 1 \/ outcome'[q] = outcome[q]
    BY <1>5, <2>1, <2>2
  <2>4. KeptOutcome
    BY DEF Calls
  <2> QED BY ONLY <2>3, <2>4, SMT DEF KeptOutcome
<1>7. ReplyIntegrity'
  <2>1. ASSUME NEW q \in Reqs, NEW k \in 1 .. Len(outcome'[q]), outcome'[q][k].kind = "success"
        PROVE  outcome'[q][k].reply = Payload(Body(q), RespPkts[q])
    <3>1. CASE q # r
      BY <1>5, <2>1, <3>1 DEF Calls, ReplyIntegrity, Body
    <3>2. CASE q = r
      <4>1. k = 1
        <5>1. k \in 1 .. 1
          BY <1>6, <3>2
        <5> QED BY ONLY <5>1, SMT
      <4>2. cb.kind = "error"
        BY <1>2
      <4> QED BY ONLY <1>6, <2>1, <3>2, <4>1, <4>2, SMT
    <3> QED BY <3>1, <3>2
  <2> QED BY <2>1 DEF ReplyIntegrity, Body
<1>8. ASSUME NEW t \in Socks, ~Free(t)' PROVE Open(t)' \/ Held(t)'
  <2>1. ~Free(t)
    BY <1>3, <1>8 DEF Free
  <2>2. cp'[t] = cp[t] /\ owner'[t] = owner[t] /\ outcome'[owner'[t]] = outcome[owner[t]]
    BY <1>1, <1>3, <2>1
  <2>3. Open(t) \/ Held(t)
    BY <2>1 DEF Calls
  <2> QED BY <2>2, <2>3 DEF Held, Open
<1>9. ~crashed'
  BY <1>3 DEF Calls
<1> QED BY <1>1, <1>k, <1>7, <1>8, <1>9 DEF Calls

-----------------------------------------------------------------------------
(* What packets and pairs are about.                                       *)

(* What packets carry: part k of the request whose payload is <<r>>.        *)
Datum == Seq(Reqs) \X Nat
Part(r, k) == <<<<r>>, k>>
ServerPair == [sock : Socks, rid : Nat, data : Seq(Datum), expected : Nat, received : Nat]

(* A packet of request r, as r2p2_prepare_msg makes it.                    *)
ReqPacket(p, r) ==
  \E k \in 0 .. ReqPkts[r] - 1 :
    /\ p.data = Part(r, k)
    /\ p.first <=> k = 0
    /\ p.last <=> k = ReqPkts[r] - 1
    /\ p.order = IF k = 0 THEN ReqPkts[r] ELSE k

(* f says for which request each request id was used.  Everything that     *)
(* carries an id is about that request.                                    *)
KnownPacket(f, p) ==
  /\ p.sock \in Socks /\ p.rid \in 1 .. rid
  /\ p.kind = "REQ" => ReqPacket(p, f[p.rid])
  /\ p.kind = "RESP" => f[p.rid] \in Ran
KnownPair(f, q) ==
  /\ q.rid \in 1 .. rid
  /\ q.received \in 1 .. ReqPkts[f[q.rid]] /\ q.expected = ReqPkts[f[q.rid]]
  /\ q.data = Payload(<<f[q.rid]>>, q.received)
Numbered(f) ==
  /\ f \in [1 .. rid -> 1 .. issued]
  /\ \A i, j \in 1 .. rid : f[i] = f[j] => i = j
NetKnown(f) == \A p \in DOMAIN net : KnownPacket(f, p)
ClientKnown(f) ==
  \A s \in Socks : owner[s] # 0 => cp[s].rid \in 1 .. rid /\ owner[s] = f[cp[s].rid]
PendingKnown(f) ==
  \A v \in Servers : \A k \in 1 .. Len(pending[v]) : KnownPair(f, pending[v][k])
AppKnown(f) ==
  \A v \in Servers : \A k \in 1 .. Len(app[v]) :
    app[v][k].rid \in 1 .. rid /\ f[app[v][k].rid] \in Ran
Typed ==
  /\ issued \in 0 .. NReq /\ rid \in 0 .. issued
  /\ owner \in [Socks -> 0 .. NReq]
  /\ DOMAIN cp = Socks /\ \A s \in Socks : "rid" \in DOMAIN cp[s]
  /\ pending \in [Servers -> Seq(ServerPair)] /\ app \in [Servers -> Seq(ServerPair)]
  /\ executed \in Seq(Seq(Datum))
Whole(f) ==
  /\ Typed /\ Numbered(f) /\ NetKnown(f) /\ ClientKnown(f) /\ PendingKnown(f) /\ AppKnown(f)
  /\ RequestIntegrity

-----------------------------------------------------------------------------
(* Where a request is, on a network that does not duplicate packets.       *)

(* The ids on the lists L are all different.                               *)
Unique(L) ==
  \A v, w \in Servers : \A j \in 1 .. Len(L[v]), k \in 1 .. Len(L[w]) :
    L[v][j].rid = L[w][k].rid => v = w /\ j = k

(* The stages of the request with id i.                                    *)
First(p) == p.kind = "REQ" /\ p.first
Sent(i) == \E p \in DOMAIN net : First(p) /\ p.rid = i
Waits(i) == \E v \in Servers : \E k \in 1 .. Len(pending[v]) : pending[v][k].rid = i
Dropped(r) == outcome[r] # <<>> /\ outcome[r][1].kind = "dropped"
Refused(f, i) == (\E p \in DOMAIN net : p.kind = "DROP" /\ p.rid = i) \/ Dropped(f[i])

(* A request is at one of them.                                            *)
Exclusive(f) ==
  \A i \in 1 .. rid :
    /\ Sent(i) => ~Waits(i) /\ ~Refused(f, i) /\ f[i] \notin Ran
    /\ Waits(i) => ~Refused(f, i) /\ f[i] \notin Ran
    /\ Refused(f, i) => f[i] \notin Ran

(* Its first packet is one, and so is the pair that waits for the others.  *)
SingleFirst ==
  /\ \A p \in DOMAIN net : First(p) => net[p] = 1
  /\ \A p, q \in DOMAIN net : First(p) /\ First(q) /\ p.rid = q.rid => p = q
SinglePair == Unique(pending)

(* What the application is told.                                           *)
Kinds ==
  \A r \in Reqs : outcome[r] # <<>> =>
    /\ outcome[r][1].kind \in {"success", "dropped", "error", "timeout"}
    /\ outcome[r][1].kind = "success" => r \in Ran
Stages(f) == Exclusive(f) /\ SingleFirst /\ SinglePair /\ Kinds /\ AtMostOnce

(* The outcome of request r becomes a callback of kind k.                  *)
Reports(r, k) ==
  /\ outcome[r] = <<>> /\ outcome'[r] # <<>> /\ outcome'[r][1].kind = k
  /\ \A q \in Reqs : q # r => outcome'[q] = outcome[q]

(* No first packet and no DROP is sent.                                    *)
NothingNew == \A m \in DOMAIN net' : m \in DOMAIN net \/ (~First(m) /\ m.kind # "DROP")

-----------------------------------------------------------------------------
(* What answers say there.                                                 *)

(* A packet of that reply.                                                 *)
RespPacket(p, r) ==
  \E k \in 0 .. RespPkts[r] - 1 :
    /\ p.data = <<Body(r), k>>
    /\ p.first <=> k = 0
    /\ p.last <=> k = RespPkts[r] - 1
    /\ p.order = IF k = 0 THEN RespPkts[r] ELSE k
IsAck(p, i) == p.kind = "ACK" /\ p.rid = i
IsResp(p, i) == p.kind = "RESP" /\ p.rid = i
IsRest(p, i) == p.kind = "REQ" /\ p.rid = i /\ ~p.first
Alone(p) == p.kind \in {"ACK", "RESP"}

(* The application holds the request of id i.                              *)
Holds(i) == \E v \in Servers : \E k \in 1 .. Len(app[v]) : app[v][k].rid = i

(* An ACK or a packet of a reply is in flight once.                        *)
SingleAnswers == \A p \in DOMAIN net : Alone(p) => net[p] = 1

(* A request of several packets is ACKed once its first one has arrived.   *)
Acks(f) ==
  /\ \A p \in DOMAIN net : p.kind = "ACK" => ReqPkts[f[p.rid]] > 1 /\ ~Sent(p.rid)
  /\ \A p, q \in DOMAIN net : p.kind = "ACK" /\ IsAck(q, p.rid) => p = q

(* The application holds whole requests, each once.                        *)
Apps(f) ==
  /\ \A v \in Servers : \A k \in 1 .. Len(app[v]) :
       app[v][k].data = Payload(<<f[app[v][k].rid]>>, ReqPkts[f[app[v][k].rid]])
  /\ Unique(app)

(* A reply is sent when the application lets go of its request.            *)
Resps(f) ==
  /\ \A p \in DOMAIN net : p.kind = "RESP" => RespPacket(p, f[p.rid]) /\ ~Holds(p.rid)
  /\ \A p, q \in DOMAIN net :
       p.kind = "RESP" /\ IsResp(q, p.rid) /\ p.data[2] = q.data[2] => p = q
ClientPair ==
  [rid : Nat, state : {"none", "W_ACK", "W_RESPONSE"}, event : BOOLEAN,
   expected : Nat, received : Nat, reply : Seq(Datum)]

(* Pair c of request r: it waits for an ACK as long as the rest of the     *)
(* request was not sent, and has the first packets of the reply, which are *)
(* no longer in flight.                                                    *)
PairOf(c, r) ==
  /\ c.state \in {"W_ACK", "W_RESPONSE"}
  /\ c.state = "W_ACK" => /\ ReqPkts[r] > 1 /\ r \notin Ran
                          /\ \A p \in DOMAIN net : ~IsRest(p, c.rid)
  /\ c.state = "W_RESPONSE" /\ ReqPkts[r] > 1 =>
       ~Sent(c.rid) /\ \A p \in DOMAIN net : ~IsAck(p, c.rid)
  /\ c.received <= RespPkts[r] /\ c.reply = Payload(Body(r), c.received)
  /\ c.received > 0 => c.expected = RespPkts[r] /\ r \in Ran /\ ~Holds(c.rid)
  /\ \A p \in DOMAIN net : IsResp(p, c.rid) => p.data[2] >= c.received
Pairs ==
  /\ cp \in [Socks -> ClientPair]
  /\ \A s \in Socks : owner[s] # 0 => PairOf(cp[s], owner[s])
Replies(f) == SingleAnswers /\ Acks(f) /\ Apps(f) /\ Resps(f) /\ Pairs

(* The inductive invariant, and what a step of the protocol is.            *)
Once(f) == Whole(f) /\ Calls /\ Stages(f) /\ Replies(f)
Allowed(f) == Stages(f)' /\ Calls' /\ Replies(f)' /\ (Contract!Next \/ UNCHANGED Contract!vars)

-----------------------------------------------------------------------------
(* The start.                                                              *)

(* Nothing has been sent.                                                  *)
LEMMA InitWhole == Init => \E f : Whole(f)
<1> SUFFICES ASSUME Init PROVE \E f : Whole(f)
  OBVIOUS
<1>1. Typed
  BY R2P2Assumption, SMT DEF Init, Typed, NoPair
<1>2. PICK f : f = [i \in 1 .. 0 |-> 0]
  OBVIOUS
<1>3. Numbered(f)
  BY <1>2, SMT DEF Numbered, Init
<1>4. NetKnown(f)
  BY DEF NetKnown, Init, Empty
<1>5. ClientKnown(f) /\ PendingKnown(f) /\ AppKnown(f) /\ RequestIntegrity
  BY SMT DEF ClientKnown, PendingKnown, AppKnown, RequestIntegrity, Init
<1> QED BY <1>1, <1>3, <1>4, <1>5 DEF Whole

(* A socket that is free has a pair that says nothing.                     *)
LEMMA NoPairFacts == NoPair \in ClientPair /\ NoPair.received = 0 /\ NoPair.reply = <<>>
<1>1. PICK e : e = <<>>
  OBVIOUS
<1>2. e \in Seq(Datum)
  BY ONLY <1>1, SMT
<1>3. NoPair = [rid |-> 0, state |-> "none", event |-> FALSE, expected |-> 0, received |-> 0,
                reply |-> e]
  BY <1>1 DEF NoPair
<1>4. NoPair.received = 0 /\ NoPair.reply = e
  BY ONLY <1>3, SMT
<1>5. NoPair \in ClientPair
  BY ONLY <1>2, <1>3, SMT DEF ClientPair
<1> QED BY <1>1, <1>4, <1>5

(* Nothing has been sent.                                                  *)
LEMMA InitOnce == Init => (\E f : Once(f)) /\ dups = 0
<1> SUFFICES ASSUME Init PROVE (\E f : Once(f)) /\ dups = 0
  OBVIOUS
<1>1. PICK f : Whole(f)
  BY InitWhole
<1>2. Called /\ \A s \in Socks : Free(s)
  BY InitCalled
<1>3. DOMAIN net = {}
  BY DEF Init, Empty
<1>4. rid = 0 /\ Len(executed) = 0 /\ (\A v \in Servers : Len(pending[v]) = 0)
      /\ (\A r \in Reqs : outcome[r] = <<>>) /\ dups = 0
  BY DEF Init
<1>5. Exclusive(f)
  BY ONLY <1>4, SMT DEF Exclusive
<1>6. SingleFirst
  BY <1>3 DEF SingleFirst
<1>7. SinglePair /\ AtMostOnce
  BY ONLY <1>4, SMT DEF SinglePair, Unique, AtMostOnce
<1>8. Kinds
  BY <1>4 DEF Kinds
<1>9. Calls
  <2>1. ~crashed
    BY DEF Init
  <2>2. ReplyIntegrity
    BY ONLY <1>4, SMT DEF ReplyIntegrity
  <2>3. KeptOutcome
    BY ONLY <1>4, R2P2Assumption, SMT DEF KeptOutcome, Reqs
  <2> QED BY <1>2, <2>1, <2>2, <2>3 DEF Calls
<1>10. Pairs
  <2>1. cp = [s \in Socks |-> NoPair]
    BY DEF Init
  <2> QED BY <1>2, <2>1, NoPairFacts DEF Pairs, Free
<1>11. Apps(f)
  <2>1. \A v \in Servers : app[v] = <<>>
    BY DEF Init
  <2> QED BY ONLY <2>1, SMT DEF Apps, Unique
<1>12. Replies(f)
  BY <1>3, <1>10, <1>11 DEF Replies, SingleAnswers, Acks, Resps
<1> QED BY <1>1, <1>4, <1>5, <1>6, <1>7, <1>8, <1>9, <1>12 DEF Once, Stages

-----------------------------------------------------------------------------
(* The client sends a request.                                             *)

(* __r2p2_send_req without a free socket uses no id.                       *)
LEMMA NoSocketWhole ==
  ASSUME NEW f, Whole(f), NoSocket
  PROVE  Whole(f)'
<1>1. /\ issued' = issued + 1 /\ issued < NReq
      /\ UNCHANGED <<rid, owner, cp, pending, app, executed, net>>
  BY DEF NoSocket, server
<1>2. Typed /\ Numbered(f) /\ NetKnown(f) /\ ClientKnown(f) /\ PendingKnown(f) /\ AppKnown(f)
      /\ RequestIntegrity
  BY DEF Whole
<1>3. issued \in 0 .. NReq /\ NReq \in Nat /\ rid \in 0 .. issued
  BY <1>2, R2P2Assumption DEF Typed
<1>4. \A i \in 1 .. issued : i \in 1 .. issued'
  BY ONLY <1>1, <1>3, SMT
<1>5. issued' \in 0 .. NReq /\ rid' \in 0 .. issued'
  BY ONLY <1>1, <1>3, SMT
<1>6. Typed'
  BY <1>1, <1>2, <1>5 DEF Typed
<1>7. Numbered(f)'
  BY <1>1, <1>2, <1>4 DEF Numbered
<1>r. Ran' = Ran
  BY <1>1 DEF Ran
<1>n. NetKnown(f)'
  BY <1>1, <1>2, <1>r DEF NetKnown, KnownPacket
<1>p. PendingKnown(f)'
  BY <1>1, <1>2 DEF PendingKnown, KnownPair
<1>8. ClientKnown(f)' /\ AppKnown(f)'
  BY <1>1, <1>2, <1>r DEF ClientKnown, AppKnown
<1>9. RequestIntegrity'
  BY <1>1, <1>2, <1>4 DEF RequestIntegrity
<1> QED BY <1>6, <1>7, <1>n, <1>p, <1>8, <1>9 DEF Whole

(* r2p2_send_req: a request is issued.                                     *)
LEMMA Issues ==
  ASSUME Called, issued < NReq, issued' = issued + 1, UNCHANGED <<outcome, executed>>
  PROVE  Contract!Next
<1>1. PICK r : r = issued + 1
  OBVIOUS
<1>2. /\ r \in Reqs /\ issued \in Nat /\ outcome[r] = <<>>
      /\ Status(r) = "new" /\ Status(r)' = "issued"
  <2>1. r \in Reqs /\ r > issued /\ issued \in Nat /\ r <= issued' /\ ~(r <= issued)
    BY <1>1, R2P2Assumption, SMT DEF Called, Reqs
  <2>2. outcome[r] = <<>>
    BY <2>1 DEF Called, FutureOpen
  <2> QED BY <2>1, <2>2 DEF Status
<1>3. ASSUME NEW q \in Reqs, q # r PROVE Status(q)' = Status(q)
  <2>1. q <= issued' <=> q <= issued
    BY <1>1, <1>2, <1>3, SMT DEF Reqs
  <2> QED BY <2>1 DEF Status
<1>4. [q \in Reqs |-> Status(q)]' = [[q \in Reqs |-> Status(q)] EXCEPT ![r] = "issued"]
  BY <1>2, <1>3
<1>5. Ran' = Ran
  BY DEF Ran
<1>6. Contract!Issue(r)
  BY <1>2, <1>4, <1>5 DEF Contract!Issue
<1> QED BY <1>2, <1>6 DEF Contract!Next

(* What is sent is in flight.                                              *)
LEMMA PutDomain ==
  ASSUME NEW S, NEW B PROVE DOMAIN Put(S, B) = DOMAIN B \cup S
<1> DEFINE sum(e) == (IF e \in DOMAIN B THEN B[e] ELSE 0) + (IF e \in S THEN 1 ELSE 0)
<1>1. Put(S, B) = [e \in DOMAIN B \cup S |-> sum(e)]
  BY DEF Put
<1> HIDE DEF sum
<1> QED BY <1>1

(* r2p2_prepare_msg makes packets of its request.                          *)
LEMMA PacketKnown ==
  ASSUME NEW r \in Reqs, NEW k \in 0 .. ReqPkts[r] - 1, NEW at, NEW sock, NEW id, NEW p,
         p = Packet("REQ", at, sock, id, ReqPkts[r], <<r>>, k)
  PROVE  p.kind = "REQ" /\ p.sock = sock /\ p.rid = id /\ ReqPacket(p, r)
<1>2. /\ p.kind = "REQ" /\ p.sock = sock /\ p.rid = id
      /\ p.order = IF k = 0 THEN ReqPkts[r] ELSE k
      /\ p.first <=> k = 0
      /\ p.last <=> k = ReqPkts[r] - 1
      /\ p.data = <<<<r>>, k>>
  BY DEF Packet
<1>3. ReqPacket(p, r)
  BY <1>2 DEF ReqPacket, Part
<1> QED BY <1>2, <1>3

(* Request ids and requests are numbers.                                   *)
LEMMA IdsAreNumbers ==
  ASSUME Typed
  PROVE  /\ rid \in Nat /\ issued \in Nat /\ 1 .. issued \subseteq Reqs
         /\ \A i \in 1 .. rid : i \in Nat
  BY R2P2Assumption, SMT DEF Typed, Reqs

(* __r2p2_send_req uses a new request id, as long as ids do not wrap.      *)
LEMMA SendReqWhole ==
  ASSUME NReq < RidSpace, NEW f, Whole(f), SendReq
  PROVE  rid' = rid + 1 /\ \E g : /\ Whole(g)' /\ g[rid + 1] = issued + 1
                                 /\ \A i \in 1 .. rid : g[i] = f[i]
<1>1. Typed /\ Numbered(f) /\ NetKnown(f) /\ ClientKnown(f) /\ PendingKnown(f) /\ AppKnown(f)
      /\ RequestIntegrity
  BY DEF Whole
<1>2. PICK r, id, s, c, p :
        /\ r = issued + 1 /\ id = (rid + 1) % RidSpace /\ s \in Socks /\ issued < NReq
        /\ p = Packet("REQ", "router", s, id, ReqPkts[r], <<r>>, 0)
        /\ issued' = r /\ rid' = id /\ net' = Put({p}, net)
        /\ owner' = [owner EXCEPT ![s] = r] /\ cp' = [cp EXCEPT ![s] = c]
        /\ "rid" \in DOMAIN c /\ c.rid = id
        /\ UNCHANGED <<pending, app, executed>>
  <2>1. PICK r, id : r = issued + 1 /\ id = (rid + 1) % RidSpace
    OBVIOUS
  <2>2. PICK s \in Socks :
          /\ rid' = id /\ owner' = [owner EXCEPT ![s] = r]
          /\ cp' = [cp EXCEPT ![s] =
                      [NoPair EXCEPT !.rid = id, !.event = TRUE,
                         !.state = IF ReqPkts[r] = 1 THEN "W_RESPONSE" ELSE "W_ACK"]]
          /\ net' = Put({Packet("REQ", "router", s, id, ReqPkts[r], <<r>>, 0)}, net)
    BY <2>1 DEF SendReq
  <2>3. PICK c : c = [NoPair EXCEPT !.rid = id, !.event = TRUE,
                         !.state = IF ReqPkts[r] = 1 THEN "W_RESPONSE" ELSE "W_ACK"]
    OBVIOUS
  <2>4. "rid" \in DOMAIN c /\ c.rid = id
    BY <2>3 DEF NoPair
  <2>5. issued < NReq /\ issued' = r /\ UNCHANGED <<pending, app, executed>>
    BY <2>1 DEF SendReq, server
  <2> QED BY <2>1, <2>2, <2>3, <2>4, <2>5
<1>3. /\ issued \in Nat /\ rid \in Nat /\ rid <= issued /\ r \in 1 .. NReq /\ r \in Reqs
      /\ id = rid + 1 /\ issued' \in 0 .. NReq /\ rid' \in 0 .. issued'
  <2>1. issued \in 0 .. NReq /\ rid \in 0 .. issued /\ NReq \in Nat /\ RidSpace \in Nat
    BY <1>1, R2P2Assumption DEF Typed
  <2>2. rid + 1 \in 0 .. RidSpace - 1
    BY <1>2, <2>1, SMT
  <2>3. (rid + 1) % RidSpace = rid + 1
    BY ONLY <2>1, <2>2, SMT
  <2> QED BY ONLY <1>2, <2>1, <2>3, SMT DEF Reqs
<1>g. PICK g : g = [i \in 1 .. id |-> IF i = id THEN r ELSE f[i]]
  OBVIOUS
<1>4. /\ f \in [1 .. rid -> 1 .. issued] /\ \A i, j \in 1 .. rid : f[i] = f[j] => i = j
  BY <1>1 DEF Numbered
<1>5. /\ g[id] = r /\ id \in 1 .. id /\ \A i \in 1 .. rid : g[i] = f[i] /\ i \in 1 .. id /\ i # id
      /\ \A i \in 1 .. id : i = id \/ i \in 1 .. rid
      /\ g \in [1 .. id -> 1 .. r]
  BY ONLY <1>2, <1>3, <1>4, <1>g, SMT
<1>6. \A i, j \in 1 .. id : g[i] = g[j] => i = j
  <2>1. \A i \in 1 .. rid : f[i] # r
    BY ONLY <1>2, <1>3, <1>4, SMT
  <2> QED BY <1>4, <1>5, <2>1
<1>7. Numbered(g)'
  BY <1>2, <1>5, <1>6 DEF Numbered
<1>8. Ran' = Ran
  BY <1>2 DEF Ran
<1>9. Typed'
  <2>1. owner' \in [Socks -> 0 .. NReq]
    <3>1. r \in 0 .. NReq /\ owner \in [Socks -> 0 .. NReq]
      BY ONLY <1>1, <1>3, SMT DEF Typed
    <3> QED BY <1>2, <3>1
  <2>2. DOMAIN cp' = Socks /\ \A t \in Socks : "rid" \in DOMAIN cp'[t]
    BY <1>1, <1>2 DEF Typed
  <2>3. /\ pending' \in [Servers -> Seq(ServerPair)] /\ app' \in [Servers -> Seq(ServerPair)]
        /\ executed' \in Seq(Seq(Datum))
    BY <1>1, <1>2 DEF Typed
  <2> QED BY <1>3, <2>1, <2>2, <2>3 DEF Typed
<1>10. NetKnown(g)'
  <2>1. /\ p.kind = "REQ" /\ p.sock = s /\ p.rid = id /\ ReqPacket(p, r)
    <3>1. ReqPkts[r] \in Nat \ {0}
      BY <1>3, R2P2Assumption
    <3>2. 0 \in 0 .. ReqPkts[r] - 1
      BY ONLY <3>1, SMT
    <3> QED BY ONLY <1>2, <1>3, <3>2, PacketKnown, SMT
  <2>2. DOMAIN net' \subseteq DOMAIN net \cup {p}
    BY <1>2, PutDomain
  <2>3. KnownPacket(g, p)'
    <3>1. p.rid \in 1 .. rid' /\ p.sock \in Socks /\ p.kind # "RESP" /\ g[p.rid] = r
      BY <1>2, <1>5, <2>1
    <3>2. ReqPacket(p, g[p.rid])
      BY <2>1, <3>1
    <3> QED BY <3>1, <3>2 DEF KnownPacket
  <2>4. ASSUME NEW z \in DOMAIN net PROVE KnownPacket(g, z)'
    <3>1. KnownPacket(f, z)
      BY <1>1 DEF NetKnown
    <3>2. z.sock \in Socks /\ z.rid \in 1 .. rid' /\ g[z.rid] = f[z.rid]
      BY <1>2, <1>5, <3>1 DEF KnownPacket
    <3>3. z.kind = "REQ" => ReqPacket(z, g[z.rid])
      BY <3>1, <3>2 DEF KnownPacket
    <3>4. z.kind = "RESP" => g[z.rid] \in Ran'
      BY <1>8, <3>1, <3>2 DEF KnownPacket
    <3> QED BY <3>2, <3>3, <3>4 DEF KnownPacket
  <2> QED BY <2>2, <2>3, <2>4 DEF NetKnown
<1>11. ClientKnown(g)'
  <2> SUFFICES ASSUME NEW t \in Socks, owner'[t] # 0
               PROVE  cp'[t].rid \in 1 .. id /\ owner'[t] = g[cp'[t].rid]
    BY <1>2 DEF ClientKnown
  <2>1. CASE t = s
    BY <1>1, <1>2, <1>5, <2>1 DEF Typed
  <2>2. CASE t # s
    BY <1>1, <1>2, <1>5, <2>2 DEF Typed, ClientKnown
  <2> QED BY <2>1, <2>2
<1>12. PendingKnown(g)'
  <2>1. ASSUME NEW v \in Servers, NEW k \in 1 .. Len(pending[v])
        PROVE  KnownPair(g, pending[v][k])'
    <3>1. PICK q : q = pending[v][k]
      OBVIOUS
    <3>2. KnownPair(f, q)
      BY <1>1, <3>1 DEF PendingKnown
    <3>3. q.rid \in 1 .. rid' /\ g[q.rid] = f[q.rid]
      BY <1>2, <1>5, <3>2 DEF KnownPair
    <3> QED BY <1>2, <3>1, <3>2, <3>3 DEF KnownPair
  <2> QED BY <1>2, <2>1 DEF PendingKnown
<1>13. AppKnown(g)'
  BY <1>1, <1>2, <1>5, <1>8 DEF AppKnown
<1>14. RequestIntegrity'
  <2>1. \A i \in 1 .. issued : i \in 1 .. issued'
    BY ONLY <1>2, <1>3, SMT
  <2> QED BY <1>1, <1>2, <2>1 DEF RequestIntegrity
<1>15. Whole(g)'
  BY <1>7, <1>9, <1>10, <1>11, <1>12, <1>13, <1>14 DEF Whole
<1>16. rid' = rid + 1 /\ g[rid + 1] = issued + 1 /\ \A i \in 1 .. rid : g[i] = f[i]
  BY <1>2, <1>3, <1>5
<1> QED BY <1>15, <1>16

(* The parts of a request, in order.                                       *)
LEMMA PayloadFacts ==
  ASSUME NEW r \in Reqs, NEW n \in Nat
  PROVE  /\ Payload(<<r>>, n) \in Seq(Datum) /\ Len(Payload(<<r>>, n)) = n
         /\ \A k \in 1 .. n : Payload(<<r>>, n)[k] = Part(r, k - 1)
<1>0. <<r>> \in Seq(Reqs)
  BY ONLY SMT
<1>1. PICK of \in Seq(Reqs) : of = <<r>>
  BY <1>0
<1>2. \A k \in 1 .. n : <<of, k - 1>> \in Datum
  BY ONLY SMT DEF Datum
<1> DEFINE d(k) == <<of, k - 1>>
<1>3. \A k \in 1 .. n : d(k) \in Datum
  BY <1>2
<1>4. Payload(of, n) = [k \in 1 .. n |-> d(k)]
  BY DEF Payload
<1> HIDE DEF d
<1>5. [k \in 1 .. n |-> d(k)] \in Seq(Datum)
  BY ONLY <1>3, SMT
<1>6. Len([k \in 1 .. n |-> d(k)]) = n
  BY ONLY <1>3, SMT
<1> QED BY <1>1, <1>4, <1>5, <1>6 DEF d, Part

(* The packets of F are in flight once.                                    *)
Single(F, B) == \A m \in DOMAIN B : m \in F => B[m] = 1

(* Sending packets that are not in F, or were not in flight.               *)
LEMMA SinglePut ==
  ASSUME NEW B, NEW F, NEW X, Single(F, B), X \cap F \cap DOMAIN B = {}
  PROVE  Single(F, Put(X, B))
<1> DEFINE sum(e) == (IF e \in DOMAIN B THEN B[e] ELSE 0) + (IF e \in X THEN 1 ELSE 0)
<1>1. Put(X, B) = [e \in DOMAIN B \cup X |-> sum(e)]
  BY DEF Put
<1>2. ASSUME NEW m \in DOMAIN B \cup X, m \in F PROVE sum(m) = 1
  BY <1>2, SMT DEF Single
<1> HIDE DEF sum
<1> QED BY ONLY <1>1, <1>2, SMT DEF Single

(* The first packet of a new request.                                      *)
LEMMA NetSendsFirst ==
  ASSUME NEW p, SingleFirst, net' = Put({p}, net), First(p), \A m \in DOMAIN net : m.rid # p.rid
  PROVE  SingleFirst' /\ \A m \in DOMAIN net' : m \in DOMAIN net \cup {p}
<1>1. PICK F : F = {m \in DOMAIN net \cup {p} : First(m)}
  OBVIOUS
<1>2. Single(F, net) /\ {p} \cap F \cap DOMAIN net = {}
  BY <1>1 DEF SingleFirst, Single
<1>3. Single(F, net')
  BY <1>2, SinglePut
<1>4. DOMAIN net' = DOMAIN net \cup {p}
  BY PutDomain
<1>5. ASSUME NEW m \in DOMAIN net', First(m) PROVE net'[m] = 1
  BY <1>1, <1>3, <1>4, <1>5 DEF Single
<1>6. ASSUME NEW m \in DOMAIN net', NEW q \in DOMAIN net', First(m), First(q), m.rid = q.rid
      PROVE  m = q
  BY <1>4, <1>6 DEF SingleFirst
<1> QED BY <1>4, <1>5, <1>6 DEF SingleFirst, First

(* Two requests have different payloads.                                   *)
LEMMA PayloadInjective ==
  ASSUME NEW r \in Reqs, NEW q \in Reqs, Payload(<<r>>, ReqPkts[r]) = Payload(<<q>>, ReqPkts[q])
  PROVE  r = q
<1>1. ReqPkts[r] \in Nat /\ ReqPkts[q] \in Nat /\ 1 \in 1 .. ReqPkts[r] /\ 1 \in 1 .. ReqPkts[q]
  BY ONLY R2P2Assumption, SMT DEF Reqs
<1>2. Payload(<<r>>, ReqPkts[r])[1] = Part(r, 0) /\ Payload(<<q>>, ReqPkts[q])[1] = Part(q, 0)
  <2>1. ASSUME NEW x \in Reqs, NEW n \in Nat, 1 \in 1 .. n PROVE Payload(<<x>>, n)[1] = Part(x, 0)
    <3>1. Payload(<<x>>, n)[1] = Part(x, 1 - 1)
      BY <2>1, PayloadFacts
    <3> QED BY ONLY <3>1, SMT
  <2> QED BY <1>1, <2>1
<1>3. Part(r, 0) = Part(q, 0)
  BY <1>2
<1>4. <<r>> = <<q>>
  BY <1>3 DEF Part
<1> QED BY <1>4

(* __r2p2_send_req starts a new request.                                   *)
LEMMA SendStages ==
  ASSUME NEW f, Whole(f), Called, Stages(f), NEW id, id = rid + 1, NEW g, g[id] = issued + 1,
         \A i \in 1 .. rid : g[i] = f[i], rid' = id, SendReq
  PROVE  Stages(g)'
<1>1. PICK s, p : /\ s \in Socks
                  /\ p = Packet("REQ", "router", s, rid', ReqPkts[issued + 1], <<issued + 1>>, 0)
                  /\ net' = Put({p}, net)
  BY DEF SendReq
<1>2. UNCHANGED <<outcome, pending, executed>> /\ issued < NReq
  BY DEF SendReq, server
<1>3. p.kind = "REQ" /\ p.first /\ p.rid = id
  BY <1>1 DEF Packet
<1>4. rid \in Nat /\ issued \in Nat /\ issued + 1 \in Reqs
  BY <1>2, R2P2Assumption, SMT DEF Whole, Typed, Reqs
<1>5. \A i \in 1 .. rid' : i = id \/ (i \in 1 .. rid /\ i # id)
  BY <1>4, SMT
<1>6. \A m \in DOMAIN net : m.rid # id
  BY <1>4, SMT DEF Whole, NetKnown, KnownPacket
<1>7. SingleFirst' /\ \A m \in DOMAIN net' : m \in DOMAIN net \/ m = p
  <2>1. First(p) /\ \A m \in DOMAIN net : m.rid # p.rid
    BY <1>3, <1>6 DEF First
  <2>2. SingleFirst' /\ \A m \in DOMAIN net' : m \in DOMAIN net \cup {p}
    BY <1>1, <2>1, NetSendsFirst DEF Stages
  <2> QED BY <2>2
<1>8. Ran' = Ran
  BY <1>2 DEF Ran
<1>9. \A i : (Waits(i)' <=> Waits(i)) /\ (i # id => (Sent(i)' => Sent(i)))
  BY <1>2, <1>3, <1>7 DEF Waits, Sent
<1>10. \A i \in 1 .. rid : Refused(g, i)' => Refused(f, i)
  BY <1>2, <1>3, <1>7 DEF Refused, Dropped
<1>11. ~Waits(id)
  <2>1. ASSUME NEW v \in Servers, NEW k \in 1 .. Len(pending[v]) PROVE pending[v][k].rid # id
    <3>1. pending[v][k].rid \in 1 .. rid
      BY DEF Whole, PendingKnown, KnownPair
    <3> QED BY <1>4, <3>1, SMT
  <2> QED BY <2>1 DEF Waits
<1>12. ~Refused(g, id)'
  <2>1. outcome[issued + 1] = <<>>
    BY <1>4, SMT DEF Called, FutureOpen
  <2>2. outcome'[g[id]] = <<>>
    BY <1>2, <2>1
  <2>3. ~Dropped(g[id])'
    BY <2>2 DEF Dropped
  <2>4. \A m \in DOMAIN net' : ~(m.kind = "DROP" /\ m.rid = id)
    BY <1>3, <1>6, <1>7
  <2> QED BY <2>3, <2>4 DEF Refused
<1>13. issued + 1 \notin Ran
  <2>1. ASSUME NEW k \in 1 .. Len(executed),
               executed[k] = Payload(<<issued + 1>>, ReqPkts[issued + 1])
        PROVE  FALSE
    <3>1. PICK r \in 1 .. issued : executed[k] = Payload(<<r>>, ReqPkts[r])
      BY DEF Whole, RequestIntegrity
    <3>2. r \in Reqs /\ r # issued + 1
      BY ONLY <1>2, <1>4, R2P2Assumption, SMT DEF Reqs
    <3> QED BY <1>4, <2>1, <3>1, <3>2, PayloadInjective
  <2> QED BY <2>1 DEF Ran
<1>14. Exclusive(g)'
  <2>1. ASSUME NEW i \in 1 .. rid', i # id
        PROVE  /\ Sent(i)' => ~Waits(i)' /\ ~Refused(g, i)' /\ g[i] \notin Ran'
               /\ Waits(i)' => ~Refused(g, i)' /\ g[i] \notin Ran'
               /\ Refused(g, i)' => g[i] \notin Ran'
    BY <1>5, <1>8, <1>9, <1>10, <2>1 DEF Stages, Exclusive
  <2>2. g[id] \notin Ran' /\ ~Waits(id)'
    BY <1>8, <1>9, <1>11, <1>13
  <2> QED BY <1>12, <2>1, <2>2 DEF Exclusive
<1>15. SinglePair' /\ AtMostOnce' /\ Kinds'
  BY <1>2, <1>8, SMT DEF Stages, SinglePair, AtMostOnce, Kinds
<1> QED BY <1>7, <1>14, <1>15 DEF Stages

(* Answers that were not in flight are sent.                               *)
LEMMA AnswersSent ==
  ASSUME NEW X, SingleAnswers, net' = Put(X, net), \A m \in X : Alone(m) => m \notin DOMAIN net
  PROVE  SingleAnswers' /\ \A m \in DOMAIN net' : m \in DOMAIN net \cup X
<1>1. PICK F : F = {m \in DOMAIN net \cup X : Alone(m)}
  OBVIOUS
<1>2. Single(F, net) /\ X \cap F \cap DOMAIN net = {}
  BY <1>1 DEF SingleAnswers, Single
<1>3. Single(F, net')
  BY <1>2, SinglePut
<1>4. DOMAIN net' = DOMAIN net \cup X
  BY PutDomain
<1> QED BY <1>1, <1>3, <1>4 DEF SingleAnswers, Single, Alone

(* What the pairs of the client are after a step.                          *)
LEMMA PairsStep ==
  ASSUME cp' \in [Socks -> ClientPair],
         \A s \in Socks : owner'[s] # 0 => \E c, r : cp'[s] = c /\ owner'[s] = r /\ PairOf(c, r)'
  PROVE  Pairs'
<1>1. ASSUME NEW s \in Socks, NEW c, NEW r, cp'[s] = c, owner'[s] = r, PairOf(c, r)'
      PROVE  PairOf(cp[s], owner[s])'
  BY <1>1 DEF PairOf
<1> QED BY <1>1 DEF Pairs

(* A pair that the step is not about.                                      *)
LEMMA OtherPair ==
  ASSUME NEW c, NEW r, PairOf(c, r), r \in Ran' <=> r \in Ran, Holds(c.rid)' => Holds(c.rid),
         \A m \in DOMAIN net' : m \in DOMAIN net \/ m.rid # c.rid \/ m.kind = "DROP"
  PROVE  PairOf(c, r)'
<1>1. Sent(c.rid)' => Sent(c.rid)
  BY DEF Sent, First
<1>2. \A m \in DOMAIN net' :
        IsRest(m, c.rid) \/ IsAck(m, c.rid) \/ IsResp(m, c.rid) => m \in DOMAIN net
  BY DEF IsRest, IsAck, IsResp
<1> QED BY <1>1, <1>2 DEF PairOf, IsRest, IsAck, IsResp

(* The pair prepare_to_send makes for request r, of id i.                  *)
NewPair(r, i) ==
  [NoPair EXCEPT !.rid = i, !.event = TRUE,
                 !.state = IF ReqPkts[r] = 1 THEN "W_RESPONSE" ELSE "W_ACK"]

(* It waits for an ACK, or for the reply.                                  *)
Fresh(c, r, i) ==
  /\ c \in ClientPair /\ c.rid = i /\ c.received = 0 /\ c.reply = <<>>
  /\ (c.state = "W_ACK" /\ ReqPkts[r] > 1) \/ (c.state = "W_RESPONSE" /\ ReqPkts[r] = 1)

(* prepare_to_send makes such pairs.                                       *)
LEMMA NewPairFacts ==
  ASSUME NEW r \in Reqs, NEW i \in Nat, NEW c, c = NewPair(r, i)
  PROVE  Fresh(c, r, i)
<1>1. PICK st : st = IF ReqPkts[r] = 1 THEN "W_RESPONSE" ELSE "W_ACK"
  OBVIOUS
<1>2. PICK n \in ClientPair : n = NoPair /\ n.received = 0 /\ n.reply = <<>>
  BY NoPairFacts
<1>3. PICK b \in BOOLEAN : b = TRUE
  OBVIOUS
<1>4. c = [n EXCEPT !.rid = i, !.event = b, !.state = st]
  BY <1>1, <1>2, <1>3 DEF NewPair
<1>5. ReqPkts[r] \in Nat \ {0}
  BY ONLY R2P2Assumption, SMT DEF Reqs
<1>6. (st = "W_ACK" /\ ReqPkts[r] > 1) \/ (st = "W_RESPONSE" /\ ReqPkts[r] = 1)
  BY ONLY <1>1, <1>5, SMT
<1>7. st \in {"none", "W_ACK", "W_RESPONSE"}
  BY <1>1
<1>8. c \in ClientPair
  BY <1>4, <1>7 DEF ClientPair
<1>9. c.rid = i /\ c.state = st /\ c.received = n.received /\ c.reply = n.reply
  BY <1>4 DEF ClientPair
<1> QED BY <1>2, <1>6, <1>8, <1>9 DEF Fresh

(* A request to come has not run.                                          *)
LEMMA FutureNotRan ==
  ASSUME issued \in Nat, issued < NReq, RequestIntegrity
  PROVE  issued + 1 \notin Ran
<1>1. issued + 1 \in Reqs
  BY R2P2Assumption, SMT DEF Reqs
<1>2. ASSUME NEW k \in 1 .. Len(executed),
             executed[k] = Payload(<<issued + 1>>, ReqPkts[issued + 1])
      PROVE  FALSE
  <2>1. PICK r \in 1 .. issued : executed[k] = Payload(<<r>>, ReqPkts[r])
    BY DEF RequestIntegrity
  <2>2. r \in Reqs /\ r # issued + 1
    BY R2P2Assumption, SMT DEF Reqs
  <2> QED BY <1>1, <1>2, <2>1, <2>2, PayloadInjective
<1> QED BY <1>2 DEF Ran

(* __r2p2_send_req starts a new request.                                   *)
LEMMA SendReplies ==
  ASSUME NEW f, Whole(f), Replies(f), NEW id, id = rid + 1, NEW g, g[id] = issued + 1,
         \A i \in 1 .. rid : g[i] = f[i], rid' = id, SendReq
  PROVE  Replies(g)'
<1>1. PICK r : r = issued + 1
  OBVIOUS
<1>2. PICK s \in Socks :
        /\ owner' = [owner EXCEPT ![s] = r] /\ cp' = [cp EXCEPT ![s] = NewPair(r, rid')]
        /\ net' = Put({Packet("REQ", "router", s, rid', ReqPkts[r], <<r>>, 0)}, net)
  BY <1>1 DEF SendReq, NewPair
<1>3. PICK p, c : p = Packet("REQ", "router", s, id, ReqPkts[r], <<r>>, 0) /\ c = NewPair(r, id)
  OBVIOUS
<1>4. p.kind = "REQ" /\ p.first /\ p.rid = id
  BY <1>3 DEF Packet
<1>5. UNCHANGED <<app, executed>> /\ issued < NReq
  BY DEF SendReq, server
<1>6. /\ rid \in Nat /\ issued \in Nat /\ r \in Reqs /\ id \in Nat /\ id \notin 1 .. rid
      /\ \A i \in 1 .. rid : i # id
  BY <1>1, <1>5, R2P2Assumption, SMT DEF Whole, Typed, Reqs
<1>7. /\ NetKnown(f) /\ AppKnown(f) /\ ClientKnown(f) /\ RequestIntegrity
      /\ owner \in [Socks -> 0 .. NReq] /\ cp \in [Socks -> ClientPair]
  BY DEF Whole, Typed, Replies, Pairs
<1>8. \A m \in DOMAIN net : m.rid \in 1 .. rid
  BY <1>7 DEF NetKnown, KnownPacket
<1>9. SingleAnswers' /\ \A m \in DOMAIN net' : m \in DOMAIN net \/ m = p
  <2>1. PICK X : X = {p}
    OBVIOUS
  <2>2. net' = Put(X, net) /\ \A m \in X : ~Alone(m)
    BY <1>2, <1>3, <1>4, <2>1 DEF Alone
  <2>3. SingleAnswers' /\ \A m \in DOMAIN net' : m \in DOMAIN net \cup X
    BY <2>2, AnswersSent DEF Replies
  <2> QED BY <2>1, <2>3
<1>10. Ran' = Ran /\ r \notin Ran
  BY <1>1, <1>5, <1>6, <1>7, FutureNotRan DEF Ran
<1>11. Acks(g)'
  <2>1. \A i : i # id => (Sent(i)' => Sent(i))
    BY <1>4, <1>9 DEF Sent
  <2>2. ASSUME NEW m \in DOMAIN net', m.kind = "ACK" PROVE ReqPkts[g[m.rid]] > 1 /\ ~Sent(m.rid)'
    <3>1. m \in DOMAIN net /\ m.rid \in 1 .. rid
      BY <1>4, <1>8, <1>9, <2>2
    <3> QED BY <1>6, <2>1, <2>2, <3>1 DEF Replies, Acks
  <2>3. \A m, n \in DOMAIN net' : m.kind = "ACK" /\ IsAck(n, m.rid) => m = n
    BY <1>4, <1>9 DEF Replies, Acks, IsAck
  <2> QED BY <2>2, <2>3 DEF Acks, IsAck
<1>12. Apps(g)' /\ \A i : Holds(i)' <=> Holds(i)
  <2>1. ASSUME NEW w \in Servers, NEW j \in 1 .. Len(app[w])
        PROVE  app[w][j].data = Payload(<<g[app[w][j].rid]>>, ReqPkts[g[app[w][j].rid]])
    <3>1. app[w][j].rid \in 1 .. rid
      BY <1>7 DEF AppKnown
    <3>2. PICK i \in 1 .. rid : i = app[w][j].rid
      BY <3>1
    <3>3. app[w][j].data = Payload(<<f[i]>>, ReqPkts[f[i]])
      BY <3>2 DEF Replies, Apps
    <3> QED BY <3>2, <3>3
  <2>2. Unique(app)
    BY DEF Replies, Apps
  <2> QED BY <1>5, <2>1, <2>2 DEF Apps, Holds
<1>13. Resps(g)'
  <2>1. ASSUME NEW m \in DOMAIN net', m.kind = "RESP"
        PROVE  RespPacket(m, g[m.rid]) /\ ~Holds(m.rid)'
    <3>1. m \in DOMAIN net /\ m.rid \in 1 .. rid
      BY <1>4, <1>8, <1>9, <2>1
    <3>2. g[m.rid] = f[m.rid]
      BY <3>1
    <3> QED BY <1>12, <2>1, <3>1, <3>2 DEF Replies, Resps
  <2>2. \A m, n \in DOMAIN net' :
          m.kind = "RESP" /\ IsResp(n, m.rid) /\ m.data[2] = n.data[2] => m = n
    BY <1>4, <1>9 DEF Replies, Resps, IsResp
  <2> QED BY <2>1, <2>2 DEF Resps, IsResp, RespPacket
<1>14. /\ c \in ClientPair /\ c.rid = id /\ c.received = 0 /\ c.reply = <<>>
       /\ (c.state = "W_ACK" /\ ReqPkts[r] > 1) \/ (c.state = "W_RESPONSE" /\ ReqPkts[r] = 1)
  <2>1. Fresh(c, r, id)
    BY <1>3, <1>6, NewPairFacts
  <2> QED BY <2>1 DEF Fresh
<1>15. PairOf(c, r)'
  <2>1. \A m \in DOMAIN net' : ~IsRest(m, id) /\ ~IsResp(m, id)
    BY <1>4, <1>6, <1>8, <1>9 DEF IsRest, IsResp
  <2>2. c.received <= RespPkts[r] /\ ~(c.received > 0) /\ ~(1 > 1)
    BY ONLY <1>6, <1>14, R2P2Assumption, SMT DEF Reqs
  <2>3. c.reply = Payload(Body(r), c.received)
    <3>1. \A B : Payload(B, 0) = <<>>
      BY ONLY SMT DEF Payload
    <3> QED BY <1>14, <3>1
  <2> QED BY <1>10, <1>14, <2>1, <2>2, <2>3 DEF PairOf, IsRest, IsResp
<1>16. /\ cp' \in [Socks -> ClientPair] /\ cp'[s] = c /\ owner'[s] = r
       /\ \A t \in Socks : t # s => cp'[t] = cp[t] /\ owner'[t] = owner[t]
  BY <1>2, <1>3, <1>7, <1>14
<1>17. ASSUME NEW t \in Socks, owner'[t] # 0
       PROVE  \E x, y : cp'[t] = x /\ owner'[t] = y /\ PairOf(x, y)'
  <2>1. CASE t = s
    BY <1>15, <1>16, <2>1
  <2>2. CASE t # s
    <3>1. PICK x, y : x = cp[t] /\ y = owner[t]
      OBVIOUS
    <3>2. PairOf(x, y) /\ cp'[t] = x /\ owner'[t] = y /\ x.rid \in 1 .. rid
      BY <1>7, <1>16, <1>17, <2>2, <3>1 DEF Replies, Pairs, ClientKnown
    <3>3. PairOf(x, y)'
      BY <1>4, <1>6, <1>9, <1>10, <1>12, <3>2, OtherPair
    <3> QED BY <3>2, <3>3
  <2> QED BY <2>1, <2>2
<1>18. Pairs'
  BY <1>16, <1>17, PairsStep
<1> QED BY <1>9, <1>11, <1>12, <1>13, <1>18 DEF Replies

-----------------------------------------------------------------------------
(* The application answers a request.                                      *)

(* A sequence followed by another.                                         *)
LEMMA ConcatFacts ==
  ASSUME NEW S, NEW s \in Seq(S), NEW t \in Seq(S)
  PROVE  /\ s \o t \in Seq(S) /\ Len(s \o t) = Len(s) + Len(t)
         /\ \A i \in 1 .. Len(s) + Len(t) :
              (s \o t)[i] = IF i <= Len(s) THEN s[i] ELSE t[i - Len(s)]
  BY ONLY SMT

(* The list without its element k.                                         *)
LEMMA WithoutFacts ==
  ASSUME NEW S, NEW q \in Seq(S), NEW k \in 1 .. Len(q)
  PROVE  /\ Without(q, k) \in Seq(S) /\ Len(Without(q, k)) = Len(q) - 1
         /\ \A i \in 1 .. Len(q) - 1 : Without(q, k)[i] = q[IF i < k THEN i ELSE i + 1]
<1> DEFINE a == SubSeq(q, 1, k - 1)
           b == SubSeq(q, k + 1, Len(q))
<1>1. a \in Seq(S) /\ Len(a) = k - 1 /\ \A i \in 1 .. k - 1 : a[i] = q[i]
  BY ONLY SMT
<1>2. b \in Seq(S) /\ Len(b) = Len(q) - k /\ \A i \in 1 .. Len(q) - k : b[i] = q[k + i]
  BY ONLY SMT
<1> HIDE DEF a, b
<1>3. /\ a \o b \in Seq(S) /\ Len(a \o b) = Len(q) - 1
      /\ \A i \in 1 .. Len(q) - 1 : (a \o b)[i] = IF i <= k - 1 THEN a[i] ELSE b[i - (k - 1)]
  BY ONLY <1>1, <1>2, ConcatFacts, SMT
<1>4. ASSUME NEW i \in 1 .. Len(q) - 1 PROVE (a \o b)[i] = q[IF i < k THEN i ELSE i + 1]
  <2>1. CASE i < k
    BY ONLY <1>1, <1>3, <2>1, SMT
  <2>2. CASE ~(i < k)
    <3>1. i - (k - 1) \in 1 .. Len(q) - k /\ k + (i - (k - 1)) = i + 1 /\ ~(i <= k - 1)
      BY ONLY <2>2, SMT
    <3> QED BY <1>2, <1>3, <2>2, <3>1
  <2> QED BY <2>1, <2>2
<1> QED BY <1>3, <1>4 DEF Without, a, b

(* A step of a server.                                                     *)
LEMMA ServerSide ==
  ASSUME NEW f, Whole(f), UNCHANGED <<issued, rid, owner, cp>>, Ran \subseteq Ran',
         NEW X, DOMAIN net' \subseteq DOMAIN net \cup X, \A p \in X : KnownPacket(f, p)',
         pending' \in [Servers -> Seq(ServerPair)], app' \in [Servers -> Seq(ServerPair)],
         executed' \in Seq(Seq(Datum)), RequestIntegrity', PendingKnown(f)', AppKnown(f)'
  PROVE  Whole(f)'
<1>2. Typed'
  BY DEF Whole, Typed
<1>3. Numbered(f)'
  BY DEF Whole, Numbered
<1>4. NetKnown(f)'
  <2>1. \A p \in DOMAIN net : KnownPacket(f, p)
    BY DEF Whole, NetKnown
  <2>2. \A p \in DOMAIN net : KnownPacket(f, p)'
    BY <2>1 DEF KnownPacket
  <2> QED BY <2>2 DEF NetKnown
<1>5. ClientKnown(f)'
  BY DEF Whole, ClientKnown
<1> QED BY <1>2, <1>3, <1>4, <1>5 DEF Whole

(* Lists of server pairs: what is on M was on L, or is q.                  *)
From(L, M, q) ==
  \A v \in Servers : \A j \in 1 .. Len(M[v]) :
    M[v][j] = q \/ \E i \in 1 .. Len(L[v]) : M[v][j] = L[v][i]

(* remove_from_list.                                                       *)
LEMMA ListWithout ==
  ASSUME NEW L \in [Servers -> Seq(ServerPair)], NEW v \in Servers,
         NEW k \in 1 .. Len(L[v]), NEW M, M = [L EXCEPT ![v] = Without(L[v], k)], NEW q
  PROVE  M \in [Servers -> Seq(ServerPair)] /\ From(L, M, q)
<1>1. PICK s \in Seq(ServerPair) : s = L[v]
  OBVIOUS
<1>2. PICK t : t = Without(s, k)
  OBVIOUS
<1>3. /\ t \in Seq(ServerPair) /\ Len(t) = Len(s) - 1
      /\ \A i \in 1 .. Len(s) - 1 : t[i] = s[IF i < k THEN i ELSE i + 1]
  BY <1>1, <1>2, WithoutFacts
<1>4. \A j \in 1 .. Len(t) : \E i \in 1 .. Len(s) : t[j] = s[i]
  <2> TAKE j \in 1 .. Len(t)
  <2>1. (IF j < k THEN j ELSE j + 1) \in 1 .. Len(s)
    BY ONLY <1>1, <1>3, SMT
  <2> QED BY <1>3, <2>1
<1>5. /\ M \in [Servers -> Seq(ServerPair)] /\ M[v] = t
      /\ \A w \in Servers : w # v => M[w] = L[w]
  BY <1>1, <1>2, <1>3
<1> QED BY <1>1, <1>4, <1>5, SMT DEF From

(* r2p2_send_response.                                                     *)
LEMMA SendResponseWhole ==
  ASSUME NEW f, Whole(f), NEW v \in Servers, NEW k \in 1 .. Len(app[v]), SendResponse(v, k)
  PROVE  Whole(f)'
<1>1. PICK q, body, n, X :
        /\ q = app[v][k] /\ X = Message("RESP", v, q.sock, q.rid, n, body)
        /\ app' = [app EXCEPT ![v] = Without(@, k)] /\ net' = Put(X, net)
        /\ UNCHANGED <<issued, rid, owner, cp, pending, executed>>
  BY DEF SendResponse, client
<1>2. /\ app \in [Servers -> Seq(ServerPair)] /\ executed \in Seq(Seq(Datum)) /\ AppKnown(f)
      /\ PendingKnown(f) /\ RequestIntegrity /\ pending \in [Servers -> Seq(ServerPair)]
  BY DEF Whole, Typed
<1>3. q.sock \in Socks /\ q.rid \in 1 .. rid /\ f[q.rid] \in Ran
  <2>1. app[v] \in Seq(ServerPair)
    BY <1>2
  <2>2. q \in ServerPair
    BY ONLY <1>1, <2>1, SMT
  <2> QED BY <1>1, <1>2, <2>2 DEF AppKnown, ServerPair
<1>4. Ran' = Ran
  BY <1>1 DEF Ran
<1>5. ASSUME NEW p \in X PROVE p.kind = "RESP" /\ p.sock = q.sock /\ p.rid = q.rid
  <2>1. PICK j : p = Packet("RESP", v, q.sock, q.rid, n, body, j)
    BY <1>1 DEF Message
  <2> QED BY ONLY <2>1, SMT DEF Packet
<1>6. \A p \in X : KnownPacket(f, p)'
  BY <1>1, <1>3, <1>4, <1>5 DEF KnownPacket
<1>7. app' \in [Servers -> Seq(ServerPair)] /\ From(app, app', q)
  BY <1>1, <1>2, ListWithout
<1>8. AppKnown(f)'
  <2>1. ASSUME NEW w \in Servers, NEW j \in 1 .. Len(app'[w])
        PROVE  app'[w][j].rid \in 1 .. rid /\ f[app'[w][j].rid] \in Ran
    <3>1. app'[w][j] = q \/ \E i \in 1 .. Len(app[w]) : app'[w][j] = app[w][i]
      BY <1>7 DEF From
    <3> QED BY <1>2, <1>3, <3>1 DEF AppKnown
  <2> QED BY <1>1, <1>4, <2>1 DEF AppKnown
<1>9. PendingKnown(f)' /\ RequestIntegrity'
  BY <1>1, <1>2 DEF PendingKnown, KnownPair, RequestIntegrity
<1>10. DOMAIN net' \subseteq DOMAIN net \cup X
  BY <1>1, PutDomain
<1> QED BY <1>1, <1>2, <1>4, <1>6, <1>7, <1>8, <1>9, <1>10, ServerSide

(* Ids are of requests that were sent.                                     *)
LEMMA KnownReq ==
  ASSUME NEW f, Typed, Numbered(f)
  PROVE  \A i \in 1 .. rid : f[i] \in 1 .. issued /\ f[i] \in Reqs /\ ReqPkts[f[i]] \in Nat \ {0}
<1>1. \A i \in 1 .. rid : f[i] \in 1 .. issued
  BY DEF Numbered
<1>2. 1 .. issued \subseteq Reqs
  BY R2P2Assumption, SMT DEF Typed, Reqs
<1>3. \A r \in Reqs : ReqPkts[r] \in Nat \ {0}
  BY R2P2Assumption DEF Reqs
<1> QED BY <1>1, <1>2, <1>3

(* M has pairs of L, and none with the given id.                           *)
Lacks(L, M, id) ==
  \A w \in Servers : \A j \in 1 .. Len(M[w]) :
    M[w][j].rid # id /\ \E i \in 1 .. Len(L[w]) : M[w][j] = L[w][i]

(* Element k of the list of v is removed.                                  *)
LEMMA UniqueWithout ==
  ASSUME NEW L \in [Servers -> Seq(ServerPair)], Unique(L), NEW v \in Servers,
         NEW k \in 1 .. Len(L[v]), NEW M, M = [L EXCEPT ![v] = Without(L[v], k)]
  PROVE  Unique(M) /\ Lacks(L, M, L[v][k].rid)
<1>2. PICK s \in Seq(ServerPair) : s = L[v]
  OBVIOUS
<1>3. PICK t : t = Without(s, k)
  OBVIOUS
<1>4. /\ Len(t) = Len(s) - 1 /\ Len(s) \in Nat
      /\ \A i \in 1 .. Len(s) - 1 : t[i] = s[IF i < k THEN i ELSE i + 1]
  <2>1. k \in 1 .. Len(s)
    BY <1>2
  <2>2. Len(s) \in Nat
    BY ONLY SMT
  <2>3. /\ Len(t) = Len(s) - 1
        /\ \A i \in 1 .. Len(s) - 1 : t[i] = s[IF i < k THEN i ELSE i + 1]
    BY <1>3, <2>1, WithoutFacts
  <2> QED BY <2>2, <2>3
<1>5. M[v] = t /\ \A w \in Servers : w # v => M[w] = L[w]
  BY <1>2, <1>3
<1> DEFINE at(w, j) == IF w # v \/ j < k THEN j ELSE j + 1
<1>6. ASSUME NEW w \in Servers, NEW j \in 1 .. Len(M[w])
      PROVE  /\ at(w, j) \in 1 .. Len(L[w]) /\ M[w][j] = L[w][at(w, j)]
             /\ w = v => at(w, j) # k
  <2>1. CASE w = v
    <3>1. j \in 1 .. Len(s) - 1 /\ (IF j < k THEN j ELSE j + 1) \in 1 .. Len(s)
      BY ONLY <1>2, <1>4, <1>5, <2>1, SMT
    <3>2. at(w, j) = IF j < k THEN j ELSE j + 1
      BY <2>1
    <3>3. (IF j < k THEN j ELSE j + 1) # k
      BY ONLY <3>1, SMT
    <3> QED BY <1>2, <1>4, <1>5, <2>1, <3>1, <3>2, <3>3
  <2>2. CASE w # v
    BY <1>5, <2>2
  <2> QED BY <2>1, <2>2
<1>7. ASSUME NEW w \in Servers, NEW i \in 1 .. Len(M[w]), NEW j \in 1 .. Len(M[w]),
             at(w, i) = at(w, j)
      PROVE  i = j
  <2>1. CASE w = v
    BY ONLY <1>2, <1>4, <1>5, <1>7, <2>1, SMT
  <2>2. CASE w # v
    BY <1>7, <2>2
  <2> QED BY <2>1, <2>2
<1> HIDE DEF at
<1>8. Unique(M)
  <2> SUFFICES ASSUME NEW w \in Servers, NEW x \in Servers, NEW i \in 1 .. Len(M[w]),
                      NEW j \in 1 .. Len(M[x]), M[w][i].rid = M[x][j].rid
               PROVE  w = x /\ i = j
    BY DEF Unique
  <2>1. PICK a \in 1 .. Len(L[w]) : a = at(w, i) /\ M[w][i] = L[w][a]
    BY <1>6
  <2>2. PICK b \in 1 .. Len(L[x]) : b = at(x, j) /\ M[x][j] = L[x][b]
    BY <1>6
  <2>3. w = x /\ a = b
    <3>1. /\ Unique(L) /\ w \in Servers /\ a \in 1 .. Len(L[w]) /\ x \in Servers
          /\ b \in 1 .. Len(L[x]) /\ L[w][a].rid = L[x][b].rid
      BY <2>1, <2>2
    <3> QED BY ONLY <3>1, SMT DEF Unique
  <2> QED BY <1>7, <2>1, <2>2, <2>3
<1>9. ASSUME NEW w \in Servers, NEW j \in 1 .. Len(M[w])
      PROVE  M[w][j].rid # L[v][k].rid
  <2>1. SUFFICES ASSUME L[w][at(w, j)].rid = L[v][k].rid PROVE FALSE
    BY <1>6
  <2>2. w = v /\ at(w, j) = k
    BY <1>6, <2>1, SMT DEF Unique
  <2> QED BY <1>6, <2>2
<1> QED BY <1>6, <1>8, <1>9, ZenonT(60) DEF Lacks

(* No ACK, no reply, no change of what the application holds.              *)
LEMMA AcksKept ==
  ASSUME NEW f, Acks(f), \A m \in DOMAIN net' : m \in DOMAIN net \/ (m.kind # "ACK" /\ ~First(m))
  PROVE  Acks(f)'
<1>1. \A i : Sent(i)' => Sent(i)
  BY DEF Sent, First
<1> QED BY <1>1 DEF Acks, IsAck

(* The body the application makes from the packets of request r.           *)
LEMMA BodyFacts ==
  ASSUME NEW r \in Reqs, NEW d, d = Payload(<<r>>, ReqPkts[r])
  PROVE  [j \in 1 .. Len(d) |-> d[j][1][1]] = Body(r) /\ Body(r)[1] = r
<1>1. ReqPkts[r] \in Nat \ {0} /\ ReqPkts[r] \in Nat
  BY ONLY R2P2Assumption, SMT DEF Reqs
<1>2. Len(d) = ReqPkts[r] /\ \A k \in 1 .. ReqPkts[r] : d[k] = Part(r, k - 1)
  BY <1>1, PayloadFacts
<1>3. ASSUME NEW k \in 1 .. ReqPkts[r] PROVE d[k][1][1] = r
  <2>1. d[k] = <<<<r>>, k - 1>>
    BY <1>2 DEF Part
  <2> QED BY ONLY <2>1, SMT
<1>4. 1 \in 1 .. ReqPkts[r]
  BY ONLY <1>1, SMT
<1> QED BY <1>2, <1>3, <1>4 DEF Body

(* X is the reply to request r, of id i.                                   *)
ReplyOf(X, r, i) ==
  /\ \A m \in X : m.kind = "RESP" /\ m.rid = i /\ RespPacket(m, r) /\ m.data[2] >= 0
  /\ \A m, n \in X : m.data[2] = n.data[2] => m = n

(* r2p2_prepare_msg makes such packets.                                    *)
LEMMA ReplyPackets ==
  ASSUME NEW r \in Reqs, NEW v, NEW sock, NEW id, NEW X,
         X = Message("RESP", v, sock, id, RespPkts[r], Body(r))
  PROVE  ReplyOf(X, r, id)
<1>1. PICK B, n : B = Body(r) /\ n = RespPkts[r]
  OBVIOUS
<1>2. n \in Nat \ {0}
  BY ONLY <1>1, R2P2Assumption, SMT DEF Reqs
<1>3. \A m \in X : \E k \in 0 .. n - 1 : m = Packet("RESP", v, sock, id, n, B, k)
  BY <1>1 DEF Message
<1>4. ASSUME NEW k \in 0 .. n - 1, NEW m, m = Packet("RESP", v, sock, id, n, B, k)
      PROVE  /\ m.kind = "RESP" /\ m.rid = id /\ m.data = <<B, k>> /\ (m.first <=> k = 0)
             /\ (m.last <=> k = n - 1) /\ (m.order = IF k = 0 THEN n ELSE k) /\ m.data[2] = k
  BY <1>4 DEF Packet
<1>5. ASSUME NEW m \in X
      PROVE  m.kind = "RESP" /\ m.rid = id /\ RespPacket(m, r) /\ m.data[2] >= 0
  <2>1. PICK k \in 0 .. n - 1 : m = Packet("RESP", v, sock, id, n, B, k)
    BY <1>3
  <2>2. k >= 0
    BY ONLY <1>2, SMT
  <2>3. /\ m.kind = "RESP" /\ m.rid = id /\ m.data = <<B, k>> /\ (m.first <=> k = 0)
        /\ (m.last <=> k = n - 1) /\ (m.order = IF k = 0 THEN n ELSE k) /\ m.data[2] = k
    BY <2>1 DEF Packet
  <2>4. RespPacket(m, r)
    BY <1>1, <2>3 DEF RespPacket
  <2> QED BY <2>2, <2>3, <2>4
<1>6. ASSUME NEW m \in X, NEW q \in X, m.data[2] = q.data[2] PROVE m = q
  <2>1. PICK k \in 0 .. n - 1 : m = Packet("RESP", v, sock, id, n, B, k)
    BY <1>3
  <2>2. PICK j \in 0 .. n - 1 : q = Packet("RESP", v, sock, id, n, B, j)
    BY <1>3
  <2>3. m.data[2] = k
    BY <1>4, <2>1
  <2>4. q.data[2] = j
    BY <1>4, <2>2
  <2> QED BY <1>6, <2>1, <2>2, <2>3, <2>4
<1> QED BY <1>5, <1>6 DEF ReplyOf

(* r2p2_send_response for the request at place k.                          *)
LEMMA ResponseReplies ==
  ASSUME NEW f, Whole(f), Replies(f), NEW v \in Servers, NEW k \in 1 .. Len(app[v]),
         SendResponse(v, k)
  PROVE  Replies(f)'
<1>1. PICK q, i, r : q = app[v][k] /\ i = q.rid /\ r = f[i]
  OBVIOUS
<1>2. /\ app \in [Servers -> Seq(ServerPair)] /\ AppKnown(f) /\ NetKnown(f) /\ ClientKnown(f)
      /\ Numbered(f) /\ Typed
  BY DEF Whole, Typed
<1>3. i \in 1 .. rid /\ r \in Ran /\ r \in Reqs /\ Holds(i)
  BY <1>1, <1>2, KnownReq DEF AppKnown, Holds
<1>4. q.data = Payload(<<r>>, ReqPkts[r])
  BY <1>1 DEF Replies, Apps
<1>5. PICK body, X : /\ body = [j \in 1 .. Len(q.data) |-> q.data[j][1][1]]
                     /\ X = Message("RESP", v, q.sock, i, RespPkts[body[1]], body)
  OBVIOUS
<1>6. /\ net' = Put(X, net) /\ app' = [app EXCEPT ![v] = Without(app[v], k)]
      /\ UNCHANGED <<owner, cp, executed>>
  BY <1>1, <1>5 DEF SendResponse, client
<1>7. body = Body(r) /\ body[1] = r
  BY <1>3, <1>4, <1>5, BodyFacts
<1>8. X = Message("RESP", v, q.sock, i, RespPkts[r], Body(r))
  BY <1>5, <1>7
<1>9. /\ \A m \in X : m.kind = "RESP" /\ m.rid = i /\ RespPacket(m, r) /\ m.data[2] >= 0
      /\ \A m, n \in X : m.data[2] = n.data[2] => m = n
  <2>1. ReplyOf(X, r, i)
    BY <1>3, <1>8, ReplyPackets
  <2> QED BY <2>1 DEF ReplyOf
<1>10. \A m \in DOMAIN net : m.kind = "RESP" => m.rid # i
  BY <1>3 DEF Replies, Resps
<1>11. SingleAnswers' /\ \A m \in DOMAIN net' : m \in DOMAIN net \cup X
  <2>1. \A m \in X : Alone(m) => m \notin DOMAIN net
    BY <1>9, <1>10
  <2> QED BY <1>6, <2>1, AnswersSent DEF Replies
<1>12. Unique(app)' /\ Lacks(app, app', i)
  <2>1. PICK L, M : L = app /\ M = app'
    OBVIOUS
  <2>2. /\ L \in [Servers -> Seq(ServerPair)] /\ Unique(L) /\ k \in 1 .. Len(L[v])
        /\ M = [L EXCEPT ![v] = Without(L[v], k)] /\ L[v][k].rid = i
    BY <1>1, <1>2, <1>6, <2>1 DEF Replies, Apps
  <2>3. Unique(M) /\ Lacks(L, M, L[v][k].rid)
    BY <2>2, UniqueWithout
  <2> QED BY <2>1, <2>2, <2>3
<1>13. ASSUME NEW w \in Servers, NEW j \in 1 .. Len(app'[w])
       PROVE  /\ app'[w][j].rid # i
              /\ \E a \in 1 .. Len(app[w]) : app'[w][j] = app[w][a]
  BY <1>12 DEF Lacks
<1>14. Apps(f)'
  <2>1. ASSUME NEW w \in Servers, NEW j \in 1 .. Len(app'[w])
        PROVE  app'[w][j].data = Payload(<<f[app'[w][j].rid]>>, ReqPkts[f[app'[w][j].rid]])
    <3>1. PICK a \in 1 .. Len(app[w]) : app'[w][j] = app[w][a]
      BY <1>13
    <3>2. app[w][a].data = Payload(<<f[app[w][a].rid]>>, ReqPkts[f[app[w][a].rid]])
      BY DEF Replies, Apps
    <3> QED BY <3>1, <3>2
  <2> QED BY <1>12, <2>1 DEF Apps
<1>15. ASSUME NEW h, Holds(h)' PROVE Holds(h) /\ h # i
  <2>1. PICK w \in Servers : \E j \in 1 .. Len(app'[w]) : app'[w][j].rid = h
    BY <1>15 DEF Holds
  <2>2. PICK j \in 1 .. Len(app'[w]) : app'[w][j].rid = h
    BY <2>1
  <2>3. PICK a \in 1 .. Len(app[w]) : app'[w][j] = app[w][a]
    BY <1>13
  <2> QED BY <1>13, <2>2, <2>3 DEF Holds
<1>16. Acks(f)'
  <2>1. \A m \in DOMAIN net' : m \in DOMAIN net \/ (m.kind # "ACK" /\ ~First(m))
    BY <1>9, <1>11 DEF First
  <2> QED BY <2>1, AcksKept DEF Replies
<1>17. Resps(f)'
  <2>1. ASSUME NEW m \in DOMAIN net', m.kind = "RESP"
        PROVE  RespPacket(m, f[m.rid]) /\ ~Holds(m.rid)'
    BY <1>1, <1>9, <1>11, <1>15, <2>1 DEF Replies, Resps
  <2>2. ASSUME NEW m \in DOMAIN net', NEW n \in DOMAIN net', m.kind = "RESP", IsResp(n, m.rid),
               m.data[2] = n.data[2]
        PROVE  m = n
    <3>1. n.kind = "RESP" /\ n.rid = m.rid
      BY <2>2 DEF IsResp
    <3>2. CASE m.rid = i
      BY <1>9, <1>10, <1>11, <2>2, <3>1, <3>2
    <3>3. CASE m.rid # i
      BY <1>9, <1>11, <2>2, <3>1, <3>3 DEF Replies, Resps
    <3> QED BY <3>2, <3>3
  <2> QED BY <2>1, <2>2 DEF Resps, IsResp, RespPacket
<1>18. Ran' = Ran
  BY <1>6 DEF Ran
<1>19. ASSUME NEW s \in Socks, owner'[s] # 0
       PROVE  \E c, y : cp'[s] = c /\ owner'[s] = y /\ PairOf(c, y)'
  <2>1. PICK c, y : c = cp[s] /\ y = owner[s]
    OBVIOUS
  <2>2. /\ PairOf(c, y) /\ cp'[s] = c /\ owner'[s] = y /\ y = f[c.rid] /\ c.rid \in 1 .. rid
        /\ c \in ClientPair
    BY <1>2, <1>6, <1>19, <2>1 DEF Replies, Pairs, ClientKnown
  <2>3. CASE c.rid # i
    <3>1. PairOf(c, y)'
      BY <1>9, <1>11, <1>15, <1>18, <2>2, <2>3, OtherPair
    <3> QED BY <2>2, <3>1
  <2>4. CASE c.rid = i
    <3>1. ~(c.received > 0)
      BY <1>3, <2>2, <2>4 DEF PairOf
    <3>2. c.state # "W_ACK"
      BY <1>1, <1>3, <2>2, <2>4 DEF PairOf
    <3>3. c.received = 0
      <4>1. PICK n \in Nat : n = c.received
        BY <2>2 DEF ClientPair
      <4> QED BY ONLY <3>1, <4>1, SMT
    <3>4. \A m \in DOMAIN net' : IsResp(m, c.rid) => m.data[2] >= c.received
      BY <1>9, <1>10, <1>11, <2>4, <3>3 DEF IsResp
    <3>5. \A m \in DOMAIN net' : m \in DOMAIN net \/ (m.kind # "ACK" /\ ~First(m))
      BY <1>9, <1>11 DEF First
    <3>6. /\ Sent(c.rid)' => Sent(c.rid)
          /\ \A m \in DOMAIN net' : IsAck(m, c.rid) => m \in DOMAIN net
      BY <3>5 DEF Sent, First, IsAck
    <3>7. PairOf(c, y)'
      BY <2>2, <3>1, <3>2, <3>4, <3>6 DEF PairOf, IsAck, IsResp
    <3> QED BY <2>2, <3>7
  <2> QED BY <2>3, <2>4
<1>20. cp' \in [Socks -> ClientPair]
  BY <1>6 DEF Replies, Pairs
<1>21. Pairs'
  BY <1>19, <1>20, PairsStep
<1> QED BY <1>11, <1>14, <1>16, <1>17, <1>21 DEF Replies

(* Packets are sent that are not first ones.                               *)
LEMMA NetSends ==
  ASSUME NEW X, SingleFirst, net' = Put(X, net), \A m \in X : ~First(m)
  PROVE  SingleFirst' /\ \A m \in DOMAIN net' : m \in DOMAIN net \cup X
<1>1. PICK F : F = {m \in DOMAIN net : First(m)}
  OBVIOUS
<1>2. Single(F, net) /\ X \cap F \cap DOMAIN net = {}
  BY <1>1 DEF SingleFirst, Single
<1>3. Single(F, net')
  BY <1>2, SinglePut
<1>4. DOMAIN net' = DOMAIN net \cup X
  BY PutDomain
<1> QED BY <1>1, <1>3, <1>4 DEF SingleFirst, Single, First

(* What the steps are for RPC: one that issues, runs and reports nothing.  *)
LEMMA Stutters ==
  ASSUME UNCHANGED <<issued, outcome, executed>>
  PROVE  UNCHANGED Contract!vars
<1>1. Ran' = Ran
  BY DEF Ran
<1>2. [r \in Reqs |-> Status(r)]' = [r \in Reqs |-> Status(r)]
  BY DEF Status
<1> QED BY <1>1, <1>2 DEF Contract!vars

(* Then no request is in flight, or refused, that was not before.          *)
LEMMA NothingNewFacts ==
  ASSUME NEW f, NothingNew, NEW i
  PROVE  /\ Sent(i)' => Sent(i)
         /\ UNCHANGED outcome => (Refused(f, i)' => Refused(f, i))
  BY DEF NothingNew, Sent, Refused, First, Dropped

(* A step that leaves the stages alone.                                    *)
LEMMA QuietStages ==
  ASSUME NEW f, Stages(f), UNCHANGED <<rid, pending, outcome, executed>>, SingleFirst', NothingNew
  PROVE  Stages(f)'
<1>1. Ran' = Ran
  BY DEF Ran
<1>2. \A i : Waits(i)' <=> Waits(i)
  BY DEF Waits
<1>3. Exclusive(f)'
  BY <1>1, <1>2, NothingNewFacts DEF Stages, Exclusive
<1>4. SinglePair' /\ AtMostOnce'
  BY SMT DEF Stages, SinglePair, AtMostOnce
<1>5. Kinds'
  BY <1>1 DEF Stages, Kinds
<1> QED BY <1>3, <1>4, <1>5 DEF Stages

(* A step of the client or the network that reports nothing.               *)
LEMMA QuietAllowed ==
  ASSUME NEW f, Once(f), UNCHANGED <<issued, rid, pending, outcome, executed>>,
         SingleFirst', NothingNew, Calls', Replies(f)'
  PROVE  Allowed(f)
  BY QuietStages, Stutters DEF Once, Allowed

(* r2p2_send_response.                                                     *)
LEMMA SendResponseAllowed ==
  ASSUME NEW f, Once(f), NEW v \in Servers, NEW k \in 1 .. Len(app[v]), SendResponse(v, k)
  PROVE  Allowed(f)
<1>1. PICK q, n, body, X :
        /\ X = Message("RESP", v, q.sock, q.rid, n, body) /\ net' = Put(X, net)
        /\ UNCHANGED <<issued, rid, owner, cp, crashed, outcome, pending, executed>>
  BY DEF SendResponse, client
<1>2. \A m \in X : ~First(m) /\ m.kind # "DROP"
  BY ONLY <1>1, SMTT(30) DEF Message, Packet, First
<1>3. SingleFirst' /\ \A m \in DOMAIN net' : m \in DOMAIN net \cup X
  BY <1>1, <1>2, NetSends DEF Once, Stages
<1>4. NothingNew
  BY <1>2, <1>3 DEF NothingNew
<1>5. Replies(f)' /\ Calls'
  BY <1>1, ResponseReplies, QuietCalls DEF Once
<1> QED BY <1>1, <1>3, <1>4, <1>5, QuietAllowed

-----------------------------------------------------------------------------
(* A server receives a packet.                                             *)

(* Sequences with the same elements are the same.                          *)
LEMMA SameSeq ==
  ASSUME NEW S, NEW s \in Seq(S), NEW t \in Seq(S), Len(s) = Len(t),
         \A i \in 1 .. Len(s) : s[i] = t[i]
  PROVE  s = t
  BY SMT

(* Taking packets out adds none.                                           *)
LEMMA TakeDomain ==
  ASSUME NEW S, NEW B PROVE DOMAIN Take(S, B) \subseteq DOMAIN B
  BY DEF Take

(* Answering packets adds the answers only.                                *)
LEMMA AnswerDomain ==
  ASSUME NEW R, NEW S, NEW B PROVE DOMAIN Put(S, Take(R, B)) \subseteq DOMAIN B \cup S
<1> DEFINE T == Take(R, B)
<1>1. DOMAIN T \subseteq DOMAIN B
  BY TakeDomain
<1> HIDE DEF T
<1>2. DOMAIN Put(S, T) = DOMAIN T \cup S
  BY PutDomain
<1> QED BY <1>1, <1>2 DEF T

(* The next part makes the payload longer by one.                          *)
LEMMA PayloadAppend ==
  ASSUME NEW r \in Reqs, NEW n \in Nat
  PROVE  Append(Payload(<<r>>, n), Part(r, n)) = Payload(<<r>>, n + 1)
<1>0. PICK P, Q, d : P = Payload(<<r>>, n) /\ Q = Payload(<<r>>, n + 1) /\ d = Part(r, n)
  OBVIOUS
<1>1. P \in Seq(Datum) /\ Len(P) = n /\ \A k \in 1 .. n : P[k] = Part(r, k - 1)
  BY <1>0, PayloadFacts
<1>2. Q \in Seq(Datum) /\ Len(Q) = n + 1 /\ \A k \in 1 .. n + 1 : Q[k] = Part(r, k - 1)
  <2>1. n + 1 \in Nat
    BY ONLY SMT
  <2> QED BY <1>0, <2>1, PayloadFacts
<1>3. Q[n + 1] = d /\ d \in Datum
  <2>1. n + 1 \in 1 .. n + 1 /\ (n + 1) - 1 = n
    BY ONLY SMT
  <2>2. Q[n + 1] = Part(r, n)
    BY <1>2, <2>1
  <2> QED BY ONLY <1>0, <1>2, <2>1, <2>2, SMT
<1>4. Append(P, d) \in Seq(Datum) /\ Len(Append(P, d)) = n + 1 /\ Append(P, d)[n + 1] = d
  BY ONLY <1>1, <1>3, SMT
<1>5. \A k \in 1 .. n : Append(P, d)[k] = P[k] /\ Q[k] = P[k]
  <2>1. \A k \in 1 .. n : Append(P, d)[k] = P[k]
    BY ONLY <1>1, <1>3, SMT
  <2>2. \A k \in 1 .. n : Q[k] = P[k]
    BY ONLY <1>1, <1>2, SMT
  <2> QED BY <2>1, <2>2
<1>6. \A k \in 1 .. n + 1 : Append(P, d)[k] = Q[k]
  BY ONLY <1>3, <1>4, <1>5, SMT
<1>7. Append(P, d) = Q
  BY <1>2, <1>4, <1>6, SameSeq
<1> QED BY <1>0, <1>7

(* add_to_list.                                                            *)
LEMMA ListAppend ==
  ASSUME NEW L \in [Servers -> Seq(ServerPair)], NEW v \in Servers, NEW q \in ServerPair,
         NEW M, M = [L EXCEPT ![v] = Append(L[v], q)]
  PROVE  M \in [Servers -> Seq(ServerPair)] /\ From(L, M, q)
<1>1. /\ L[v] \in Seq(ServerPair) /\ Append(L[v], q) \in Seq(ServerPair)
      /\ Len(Append(L[v], q)) = Len(L[v]) + 1 /\ Append(L[v], q)[Len(L[v]) + 1] = q
      /\ \A j \in 1 .. Len(L[v]) : Append(L[v], q)[j] = L[v][j]
  BY ONLY SMT
<1>2. /\ M \in [Servers -> Seq(ServerPair)] /\ M[v] = Append(L[v], q)
      /\ \A w \in Servers : w # v => M[w] = L[w]
  BY <1>1
<1>3. \A j \in 1 .. Len(M[v]) : j \in 1 .. Len(L[v]) \/ j = Len(L[v]) + 1
  BY ONLY <1>1, <1>2, SMT
<1> QED BY <1>1, <1>2, <1>3 DEF From

(* A pair is updated in place.                                             *)
LEMMA ListUpdate ==
  ASSUME NEW L \in [Servers -> Seq(ServerPair)], NEW v \in Servers,
         NEW k \in 1 .. Len(L[v]), NEW q \in ServerPair,
         NEW M, M = [L EXCEPT ![v] = [L[v] EXCEPT ![k] = q]]
  PROVE  M \in [Servers -> Seq(ServerPair)] /\ From(L, M, q)
<1>1. PICK s \in Seq(ServerPair) : s = L[v]
  OBVIOUS
<1>2. PICK t : t = [s EXCEPT ![k] = q]
  OBVIOUS
<1>3. t \in Seq(ServerPair) /\ Len(t) = Len(s) /\ \A i \in 1 .. Len(s) : t[i] = q \/ t[i] = s[i]
  BY ONLY <1>1, <1>2, SMT
<1>5. /\ M \in [Servers -> Seq(ServerPair)] /\ M[v] = t
      /\ \A w \in Servers : w # v => M[w] = L[w]
  BY <1>1, <1>2, <1>3
<1> QED BY <1>1, <1>3, <1>5, SMT DEF From

(* forward_request with the whole of request r.                            *)
LEMMA ForwardFacts ==
  ASSUME NEW f, Whole(f), NEW v \in Servers, NEW q \in ServerPair, q.rid \in 1 .. rid,
         q.data = Payload(<<f[q.rid]>>, ReqPkts[f[q.rid]]), Forward(v, q),
         UNCHANGED <<issued, rid>>
  PROVE  /\ app' \in [Servers -> Seq(ServerPair)] /\ executed' \in Seq(Seq(Datum))
         /\ RequestIntegrity' /\ Ran \subseteq Ran' /\ AppKnown(f)'
<1>1. PICK r, d : r = f[q.rid] /\ d = Payload(<<r>>, ReqPkts[r]) /\ d = q.data
  OBVIOUS
<1>2. Typed /\ Numbered(f) /\ RequestIntegrity /\ AppKnown(f)
  BY DEF Whole
<1>3. r \in 1 .. issued /\ r \in Reqs
  BY <1>1, <1>2, KnownReq
<1>4. d \in Seq(Datum) /\ executed \in Seq(Seq(Datum)) /\ executed' = Append(executed, d)
  BY <1>1, <1>2 DEF ServerPair, Forward, Typed
<1>5. /\ executed' \in Seq(Seq(Datum)) /\ Len(executed') = Len(executed) + 1
      /\ executed'[Len(executed) + 1] = d /\ Len(executed) \in Nat
      /\ \A k \in 1 .. Len(executed) : executed'[k] = executed[k]
  BY ONLY <1>4, SMTT(30)
<1>6. /\ \A k \in 1 .. Len(executed') : k \in 1 .. Len(executed) \/ k = Len(executed) + 1
      /\ \A k \in 1 .. Len(executed) : k \in 1 .. Len(executed')
      /\ Len(executed) + 1 \in 1 .. Len(executed')
  BY ONLY <1>5, SMT
<1>7. RequestIntegrity'
  BY <1>1, <1>2, <1>3, <1>5, <1>6, ZenonT(60) DEF RequestIntegrity
<1>8. Ran \subseteq Ran'
  BY <1>5, <1>6 DEF Ran
<1>9. r \in Ran'
  BY <1>1, <1>3, <1>5, <1>6 DEF Ran
<1>10. app' = [app EXCEPT ![v] = Append(app[v], q)] /\ app \in [Servers -> Seq(ServerPair)]
  BY <1>2 DEF Forward, Typed
<1>11. app' \in [Servers -> Seq(ServerPair)] /\ From(app, app', q)
  BY <1>10, ListAppend
<1>12. AppKnown(f)'
  BY <1>1, <1>2, <1>8, <1>9, <1>11, ZenonT(60) DEF AppKnown, From
<1> QED BY <1>5, <1>7, <1>8, <1>11, <1>12

(* A server makes a step that sends nothing and hands over nothing.        *)
LEMMA ServerTakes ==
  ASSUME NEW f, Whole(f), UNCHANGED <<issued, rid, owner, cp, app, executed>>,
         NEW X, DOMAIN net' \subseteq DOMAIN net \cup X,
         \A p \in X : p.sock \in Socks /\ p.rid \in 1 .. rid /\ p.kind \notin {"REQ", "RESP"},
         pending' \in [Servers -> Seq(ServerPair)], PendingKnown(f)'
  PROVE  Whole(f)'
<1>1. Ran' = Ran
  BY DEF Ran
<1>2. \A p \in X : KnownPacket(f, p)'
  BY DEF KnownPacket
<1>3. AppKnown(f)' /\ RequestIntegrity'
  BY <1>1 DEF Whole, AppKnown, RequestIntegrity
<1>4. app' \in [Servers -> Seq(ServerPair)] /\ executed' \in Seq(Seq(Datum))
  BY DEF Whole, Typed
<1> QED BY <1>1, <1>2, <1>3, <1>4, ServerSide

(* r2p2_send_msg of an ACK or a DROP.                                      *)
LEMMA ControlFacts ==
  ASSUME NEW kind, NEW v, NEW sock, NEW id
  PROVE  \A p \in Control(kind, v, sock, id) : p.kind = kind /\ p.sock = sock /\ p.rid = id
<1> SUFFICES ASSUME NEW p \in Control(kind, v, sock, id)
             PROVE  p.kind = kind /\ p.sock = sock /\ p.rid = id
  OBVIOUS
<1>1. p = Packet(kind, v, sock, id, 1, <<>>, 0)
  BY DEF Control
<1> QED BY ONLY <1>1, SMT DEF Packet

(* The first packet of a request makes a pair that knows its request.      *)
LEMMA FirstPair ==
  ASSUME NEW f, Whole(f), NEW p \in DOMAIN net, p.kind = "REQ", p.first
  PROVE  /\ Request(p) \in ServerPair /\ KnownPair(f, Request(p)) /\ Request(p).rid = p.rid
         /\ p.last => Request(p).data = Payload(<<f[p.rid]>>, ReqPkts[f[p.rid]])
<1>1. KnownPacket(f, p) /\ Typed /\ Numbered(f)
  BY DEF Whole, NetKnown
<1>2. PICK r : r = f[p.rid]
  OBVIOUS
<1>3. /\ p.sock \in Socks /\ p.rid \in 1 .. rid /\ r \in Reqs /\ ReqPkts[r] \in Nat \ {0}
      /\ p.data = Part(r, 0) /\ (p.last <=> 0 = ReqPkts[r] - 1) /\ p.order = ReqPkts[r]
  BY <1>1, <1>2, KnownReq DEF KnownPacket, ReqPacket
<1>4. rid \in Nat /\ p.rid \in Nat
  BY <1>1, <1>3, IdsAreNumbers
<1>5. PICK d : d = Payload(<<r>>, 1)
  OBVIOUS
<1>6. d = <<p.data>> /\ d \in Seq(Datum)
  <2>1. d \in Seq(Datum) /\ Len(d) = 1 /\ \A k \in 1 .. 1 : d[k] = Part(r, k - 1)
    BY <1>3, <1>5, PayloadFacts
  <2>2. d[1] = p.data
    <3>1. d[1] = Part(r, 1 - 1)
      BY ONLY <2>1, SMT
    <3> QED BY ONLY <1>3, <3>1, SMT
  <2>3. PICK e : e = p.data /\ e \in Datum
    <3>1. d[1] \in Datum
      BY ONLY <2>1, SMT
    <3> QED BY <2>2, <3>1
  <2>4. d = <<e>>
    BY ONLY <2>1, <2>2, <2>3, SMT
  <2> QED BY <2>1, <2>3, <2>4
<1>7. PICK q : q = Request(p)
  OBVIOUS
<1>8. q = [sock |-> p.sock, rid |-> p.rid, data |-> d, expected |-> p.order, received |-> 1]
  BY <1>6, <1>7 DEF Request
<1>9. q \in ServerPair
  BY <1>3, <1>4, <1>6, <1>8 DEF ServerPair
<1>10. q.rid = p.rid /\ q.data = d /\ q.expected = ReqPkts[r] /\ q.received = 1
  BY <1>3, <1>8
<1>11. KnownPair(f, q)
  BY ONLY <1>2, <1>3, <1>5, <1>10, SMTT(30) DEF KnownPair
<1>12. p.last => ReqPkts[r] = 1
  BY ONLY <1>3, SMT
<1> QED BY <1>2, <1>5, <1>7, <1>9, <1>10, <1>11, <1>12

(* The pair after a later packet.                                          *)
Longer(old, p) == [old EXCEPT !.data = Append(@, p.data), !.received = @ + 1]

(* The next packet of a pending request.                                   *)
LEMMA NextPair ==
  ASSUME NEW f, Whole(f), NEW p \in DOMAIN net, p.kind = "REQ", ~p.first,
         NEW old \in ServerPair, KnownPair(f, old), Same(old, p), p.order = old.received,
         NEW q, q = Longer(old, p)
  PROVE  /\ q \in ServerPair /\ q.rid = old.rid /\ KnownPair(f, q)
         /\ p.last => q.data = Payload(<<f[q.rid]>>, ReqPkts[f[q.rid]])
<1>1. KnownPacket(f, p) /\ Typed /\ Numbered(f) /\ old.rid = p.rid
  BY DEF Whole, NetKnown, Same
<1>2. PICK r, n : r = f[p.rid] /\ n = old.received
  OBVIOUS
<1>3. /\ p.rid \in 1 .. rid /\ r \in Reqs /\ ReqPkts[r] \in Nat \ {0}
      /\ p.data = Part(r, n) /\ (p.last <=> n = ReqPkts[r] - 1) /\ n \in 1 .. ReqPkts[r] - 1
  <2>1. p.rid \in 1 .. rid /\ ReqPacket(p, r)
    BY <1>1, <1>2 DEF KnownPacket
  <2>2. r \in Reqs /\ ReqPkts[r] \in Nat \ {0}
    BY <1>1, <1>2, <2>1, KnownReq
  <2>3. PICK k \in 0 .. ReqPkts[r] - 1 :
          /\ p.data = Part(r, k) /\ (p.first <=> k = 0) /\ (p.last <=> k = ReqPkts[r] - 1)
          /\ p.order = IF k = 0 THEN ReqPkts[r] ELSE k
    BY <2>1 DEF ReqPacket
  <2>4. k = n /\ k # 0
    BY <1>2, <2>3
  <2>5. k \in 1 .. ReqPkts[r] - 1
    BY <2>2, <2>4, PacketNumbers
  <2> QED BY <2>1, <2>2, <2>3, <2>4, <2>5
<1>4. /\ old.data = Payload(<<r>>, n) /\ old.expected = ReqPkts[r] /\ n \in Nat
      /\ old.data \in Seq(Datum)
  BY <1>1, <1>2 DEF KnownPair, ServerPair
<1>5. Append(old.data, p.data) = Payload(<<r>>, n + 1)
  BY <1>3, <1>4, PayloadAppend
<1>6. PICK d \in Seq(Datum) : d = Append(old.data, p.data) /\ d = Payload(<<r>>, n + 1)
  <2>1. n + 1 \in Nat
    BY ONLY <1>4, SMT
  <2> QED BY <1>3, <1>4, <1>5, <2>1, PayloadFacts
<1>7. q = [old EXCEPT !.data = d, !.received = n + 1]
  BY <1>2, <1>6 DEF Longer
<1>8. /\ q \in ServerPair /\ q.rid = old.rid /\ q.data = d /\ q.expected = old.expected
      /\ q.received = n + 1
  <2>1. PICK m \in Nat : m = n + 1
    BY ONLY <1>4, SMT
  <2>2. q = [old EXCEPT !.data = d, !.received = m]
    BY <1>7, <2>1
  <2>3. q \in ServerPair
    BY <2>2 DEF ServerPair
  <2>4. q.rid = old.rid /\ q.data = d /\ q.expected = old.expected /\ q.received = m
    BY <2>2 DEF ServerPair
  <2> QED BY <2>1, <2>3, <2>4
<1>9. KnownPair(f, q)
  <2>1. n + 1 \in 1 .. ReqPkts[r]
    BY <1>3, PacketNumbers
  <2>2. q.rid \in 1 .. rid /\ f[q.rid] = r
    BY <1>1, <1>2, <1>3, <1>8
  <2>3. q.received \in 1 .. ReqPkts[r] /\ q.expected = ReqPkts[r]
    BY <1>4, <1>8, <2>1
  <2>4. q.data = Payload(<<r>>, q.received)
    BY <1>6, <1>8
  <2> QED BY <2>2, <2>3, <2>4 DEF KnownPair
<1>10. p.last => n + 1 = ReqPkts[r]
  BY ONLY <1>3, SMTT(30)
<1> QED BY <1>1, <1>2, <1>6, <1>8, <1>9, <1>10

(* A list whose pairs are known stays so.                                  *)
LEMMA FromKnown ==
  ASSUME NEW f, NEW q, UNCHANGED rid, PendingKnown(f), KnownPair(f, q), From(pending, pending', q)
  PROVE  PendingKnown(f)'
<1>1. ASSUME NEW v \in Servers, NEW j \in 1 .. Len(pending'[v])
      PROVE  KnownPair(f, pending'[v][j])
  BY DEF PendingKnown, From
<1> QED BY <1>1 DEF PendingKnown, KnownPair

(* handle_request.                                                         *)
LEMMA ServerRecvWhole ==
  ASSUME NEW f, Whole(f), NEW v \in Servers, NEW p \in DOMAIN net, ServerRecv(v, p)
  PROVE  Whole(f)'
<1>1. /\ Typed /\ KnownPacket(f, p) /\ PendingKnown(f)
      /\ pending \in [Servers -> Seq(ServerPair)]
  BY DEF Whole, NetKnown, Typed
<1>2. PICK X : X = {}
  OBVIOUS
<1>3. /\ DOMAIN Taken(p) \subseteq DOMAIN net \cup X
      /\ \A q \in X : q.sock \in Socks /\ q.rid \in 1 .. rid /\ q.kind \notin {"REQ", "RESP"}
      /\ \A q \in X : KnownPacket(f, q)'
  BY <1>2, TakeDomain DEF Taken
<1>4. UNCHANGED <<issued, rid, owner, cp>> /\ p.kind = "REQ"
  BY DEF ServerRecv, RequestDropped, RequestSingle, RequestFirst, RequestUnmatched,
     RequestRest, AtServer, client
<1>5. UNCHANGED pending => PendingKnown(f)'
  <2>1. ASSUME UNCHANGED pending, NEW w \in Servers, NEW k \in 1 .. Len(pending'[w])
        PROVE  KnownPair(f, pending[w][k])'
    <3>1. pending'[w][k] = pending[w][k] /\ k \in 1 .. Len(pending[w])
      BY <2>1
    <3>2. KnownPair(f, pending[w][k])
      BY <1>1, <3>1 DEF PendingKnown
    <3> QED BY <1>4, <3>1, <3>2 DEF KnownPair
  <2> QED BY <2>1 DEF PendingKnown
<1>6. CASE RequestDropped(v, p)
  <2>1. PICK Y : Y = Control("DROP", v, p.sock, p.rid)
    OBVIOUS
  <2>2. UNCHANGED <<pending, app, executed>> /\ net' = Put(Y, Taken(p))
    BY <1>6, <2>1 DEF RequestDropped
  <2>3. \A q \in Y : q.sock \in Socks /\ q.rid \in 1 .. rid /\ q.kind \notin {"REQ", "RESP"}
    <3>1. \A q \in Y : q.kind = "DROP" /\ q.sock = p.sock /\ q.rid = p.rid
      BY ONLY <2>1, ControlFacts, SMT
    <3>2. "DROP" \notin {"REQ", "RESP"}
      OBVIOUS
    <3> QED BY <1>1, <3>1, <3>2 DEF KnownPacket
  <2>4. DOMAIN net' \subseteq DOMAIN net \cup Y
    BY <2>2, AnswerDomain DEF Taken
  <2> QED BY <1>1, <1>4, <1>5, <2>2, <2>3, <2>4, ServerTakes
<1>7. CASE RequestUnmatched(v, p)
  <2>1. UNCHANGED <<pending, app, executed>> /\ net' = Taken(p)
    BY <1>7 DEF RequestUnmatched, server
  <2> QED BY <1>1, <1>3, <1>4, <1>5, <2>1, ServerTakes
<1>8. CASE RequestFirst(v, p)
  <2>1. PICK Y : Y = Control("ACK", v, p.sock, p.rid)
    OBVIOUS
  <2>2. PICK q : q = Request(p)
    OBVIOUS
  <2>3. /\ UNCHANGED <<app, executed>> /\ net' = Put(Y, Taken(p)) /\ p.first
        /\ pending' = [pending EXCEPT ![v] = Append(pending[v], q)]
    BY <1>8, <2>1, <2>2 DEF RequestFirst
  <2>4. \A z \in Y : z.sock \in Socks /\ z.rid \in 1 .. rid /\ z.kind \notin {"REQ", "RESP"}
    <3>1. \A z \in Y : z.kind = "ACK" /\ z.sock = p.sock /\ z.rid = p.rid
      BY ONLY <2>1, ControlFacts, SMT
    <3>2. "ACK" \notin {"REQ", "RESP"}
      OBVIOUS
    <3> QED BY <1>1, <3>1, <3>2 DEF KnownPacket
  <2>5. DOMAIN net' \subseteq DOMAIN net \cup Y
    BY <2>3, AnswerDomain DEF Taken
  <2>6. q \in ServerPair /\ KnownPair(f, q)
    BY <1>4, <2>2, <2>3, FirstPair
  <2>7. pending' \in [Servers -> Seq(ServerPair)] /\ From(pending, pending', q)
    BY <1>1, <2>3, <2>6, ListAppend
  <2>8. PendingKnown(f)'
    BY <1>1, <1>4, <2>6, <2>7, FromKnown
  <2> QED BY <1>4, <2>3, <2>4, <2>5, <2>7, <2>8, ServerTakes
<1>9. CASE RequestSingle(v, p)
  <2>1. PICK q : q = Request(p)
    OBVIOUS
  <2>2. UNCHANGED pending /\ net' = Taken(p) /\ p.first /\ p.last /\ Forward(v, q)
    BY <1>9, <2>1 DEF RequestSingle
  <2>3. q \in ServerPair /\ q.rid = p.rid /\ q.data = Payload(<<f[q.rid]>>, ReqPkts[f[q.rid]])
    BY <1>4, <2>1, <2>2, FirstPair
  <2>4. /\ app' \in [Servers -> Seq(ServerPair)] /\ executed' \in Seq(Seq(Datum))
        /\ RequestIntegrity' /\ Ran \subseteq Ran' /\ AppKnown(f)'
    BY <1>1, <1>4, <2>2, <2>3, ForwardFacts DEF KnownPacket
  <2> QED BY <1>1, <1>3, <1>4, <1>5, <2>2, <2>4, ServerSide
<1>10. CASE RequestRest(v, p)
  <2>1. PICK k, q, old :
          /\ k \in 1 .. Len(pending[v])
          /\ old = pending[v][k] /\ q = Longer(old, p)
          /\ ~p.first /\ Found(v, p, k) /\ net' = Taken(p)
          /\ \/ /\ pending' = [pending EXCEPT ![v] = Without(@, k)]
                /\ UNCHANGED <<app, executed>>
             \/ /\ p.order = old.received /\ ~p.last
                /\ pending' = [pending EXCEPT ![v][k] = q]
                /\ UNCHANGED <<app, executed>>
             \/ /\ p.order = old.received /\ p.last
                /\ pending' = [pending EXCEPT ![v] = Without(@, k)]
                /\ Forward(v, q)
    BY <1>10 DEF RequestRest, Longer
  <2>k. k \in 1 .. Len(pending[v])
    BY <2>1
  <2>2. old \in ServerPair /\ KnownPair(f, old) /\ Same(old, p)
    <3>1. pending[v] \in Seq(ServerPair) /\ old = pending[v][k] /\ Found(v, p, k)
      BY <1>1, <2>1
    <3>2. old \in ServerPair
      BY ONLY <2>k, <3>1, SMT
    <3> QED BY <1>1, <2>k, <3>1, <3>2 DEF PendingKnown, Found
  <2>n. p.order = old.received =>
          /\ q \in ServerPair /\ q.rid = old.rid /\ KnownPair(f, q)
          /\ p.last => q.data = Payload(<<f[q.rid]>>, ReqPkts[f[q.rid]])
    <3>1. ~p.first /\ q = Longer(old, p)
      BY <2>1
    <3>2. ASSUME p.order = old.received
          PROVE  /\ q \in ServerPair /\ q.rid = old.rid /\ KnownPair(f, q)
                 /\ p.last => q.data = Payload(<<f[q.rid]>>, ReqPkts[f[q.rid]])
      <4>1. /\ Whole(f) /\ p \in DOMAIN net /\ p.kind = "REQ" /\ ~p.first /\ old \in ServerPair
            /\ KnownPair(f, old) /\ Same(old, p) /\ p.order = old.received /\ q = Longer(old, p)
        BY <1>4, <2>2, <3>1, <3>2
      <4> QED BY ONLY <4>1, NextPair
    <3> QED BY <3>2
  <2>3. CASE pending' = [pending EXCEPT ![v] = Without(@, k)]
    <3>1. pending' \in [Servers -> Seq(ServerPair)] /\ From(pending, pending', old)
      BY <1>1, <2>k, <2>3, ListWithout
    <3>2. PendingKnown(f)'
      BY <1>1, <1>4, <2>2, <3>1, FromKnown
    <3>3. CASE UNCHANGED <<app, executed>>
      BY <1>3, <1>4, <2>1, <3>1, <3>2, <3>3, ServerTakes
    <3>4. CASE p.order = old.received /\ p.last /\ Forward(v, q)
      <4>1. /\ q \in ServerPair /\ q.rid = old.rid
            /\ q.data = Payload(<<f[q.rid]>>, ReqPkts[f[q.rid]])
        BY <2>n, <3>4
      <4>2. q.rid \in 1 .. rid
        BY <2>2, <4>1 DEF KnownPair
      <4>3. /\ app' \in [Servers -> Seq(ServerPair)] /\ executed' \in Seq(Seq(Datum))
            /\ RequestIntegrity' /\ Ran \subseteq Ran' /\ AppKnown(f)'
        BY <1>4, <3>4, <4>1, <4>2, ForwardFacts
      <4> QED BY <1>3, <1>4, <2>1, <3>1, <3>2, <4>3, ServerSide
    <3>5. CASE p.order = old.received /\ ~p.last /\ UNCHANGED <<app, executed>>
      BY <3>3, <3>5
    <3> QED BY <2>1, <3>3, <3>4, <3>5
  <2>4. CASE /\ p.order = old.received /\ pending' = [pending EXCEPT ![v][k] = q]
             /\ UNCHANGED <<app, executed>>
    <3>1. q \in ServerPair /\ KnownPair(f, q)
      BY <2>n, <2>4
    <3>2. pending' = [pending EXCEPT ![v] = [pending[v] EXCEPT ![k] = q]]
      BY <1>1, <2>4
    <3>3. pending' \in [Servers -> Seq(ServerPair)] /\ From(pending, pending', q)
      BY <1>1, <2>k, <3>1, <3>2, ListUpdate
    <3>4. PendingKnown(f)'
      BY <1>1, <1>4, <3>1, <3>3, FromKnown
    <3> QED BY <1>3, <1>4, <2>1, <2>4, <3>3, <3>4, ServerTakes
  <2> QED BY <2>1, <2>3, <2>4
<1> QED BY <1>6, <1>7, <1>8, <1>9, <1>10 DEF ServerRecv

(* A new id is appended.                                                   *)
LEMMA UniqueAppend ==
  ASSUME NEW L \in [Servers -> Seq(ServerPair)], Unique(L), NEW v \in Servers,
         NEW q \in ServerPair, NEW M, M = [L EXCEPT ![v] = Append(L[v], q)],
         \A w \in Servers : \A j \in 1 .. Len(L[w]) : L[w][j].rid # q.rid
  PROVE  Unique(M)
<1>1. PICK s \in Seq(ServerPair) : s = L[v]
  OBVIOUS
<1>2. /\ M[v] = Append(s, q) /\ Len(M[v]) = Len(s) + 1 /\ M[v][Len(s) + 1] = q
      /\ \A j \in 1 .. Len(s) : M[v][j] = s[j]
  <2>1. M[v] = Append(s, q)
    BY <1>1
  <2>2. /\ Len(Append(s, q)) = Len(s) + 1 /\ Append(s, q)[Len(s) + 1] = q
        /\ \A j \in 1 .. Len(s) : Append(s, q)[j] = s[j]
    BY ONLY SMT
  <2> QED BY <2>1, <2>2
<1>3. \A w \in Servers : w # v => M[w] = L[w]
  OBVIOUS
<1>4. \A j \in 1 .. Len(M[v]) : j \in 1 .. Len(s) \/ j = Len(s) + 1
  BY ONLY <1>1, <1>2, SMT
<1>5. ASSUME NEW w \in Servers, NEW j \in 1 .. Len(M[w])
      PROVE  \/ j \in 1 .. Len(L[w]) /\ M[w][j] = L[w][j]
             \/ w = v /\ j = Len(s) + 1 /\ M[w][j].rid = q.rid
  BY <1>1, <1>2, <1>3, <1>4
<1> SUFFICES ASSUME NEW w \in Servers, NEW x \in Servers, NEW i \in 1 .. Len(M[w]),
                    NEW j \in 1 .. Len(M[x]), M[w][i].rid = M[x][j].rid
             PROVE  w = x /\ i = j
  BY DEF Unique
<1>6. CASE i \in 1 .. Len(L[w]) /\ M[w][i] = L[w][i]
  <2>1. M[w][i].rid # q.rid
    BY <1>6
  <2>2. M[x][j].rid # q.rid
    BY <2>1
  <2>3. j \in 1 .. Len(L[x]) /\ M[x][j] = L[x][j]
    BY <1>5, <2>2
  <2>4. L[w][i].rid = L[x][j].rid
    BY <1>6, <2>3
  <2> QED BY <1>6, <2>3, <2>4 DEF Unique
<1>7. CASE w = v /\ i = Len(s) + 1 /\ M[w][i].rid = q.rid
  <2>1. M[x][j].rid = q.rid
    BY <1>7
  <2>2. x = v /\ j = Len(s) + 1
    <3>1. CASE j \in 1 .. Len(L[x]) /\ M[x][j] = L[x][j]
      <4>1. L[x][j].rid # q.rid
        BY <3>1
      <4> QED BY <2>1, <3>1, <4>1
    <3> QED BY <1>5, <3>1
  <2> QED BY <1>7, <2>2
<1> QED BY <1>5, <1>6, <1>7

(* A first packet leaves the network.                                      *)
LEMMA FirstGone ==
  ASSUME SingleFirst, NEW p \in DOMAIN net, First(p), p \notin DOMAIN net',
         \A m \in DOMAIN net' : m \in DOMAIN net \/ ~First(m)
  PROVE  /\ ~Sent(p.rid)'
         /\ \A i : Sent(i)' => Sent(i)
<1>1. ASSUME NEW m \in DOMAIN net', First(m) PROVE m \in DOMAIN net /\ m.rid # p.rid
  BY <1>1 DEF SingleFirst
<1> QED BY <1>1 DEF Sent, First

(* send_drop_msg.                                                          *)
LEMMA DropStages ==
  ASSUME NEW f, Stages(f), NEW p \in DOMAIN net, First(p), p \notin DOMAIN net',
         p.rid \in 1 .. rid, SingleFirst', UNCHANGED <<rid, pending, outcome, executed>>,
         \A m \in DOMAIN net' : m \in DOMAIN net \/ (m.kind = "DROP" /\ m.rid = p.rid)
  PROVE  Stages(f)'
<1>1. Ran' = Ran
  BY DEF Ran
<1>2. \A i : Waits(i)' <=> Waits(i)
  BY DEF Waits
<1>3. ~Sent(p.rid)' /\ \A i : Sent(i)' => Sent(i)
  BY FirstGone DEF Stages, First
<1>4. \A i : i # p.rid => (Refused(f, i)' => Refused(f, i))
  BY DEF Refused, Dropped
<1>5. Sent(p.rid)
  BY DEF Sent
<1>6. Exclusive(f)'
  BY <1>1, <1>2, <1>3, <1>4, <1>5 DEF Stages, Exclusive
<1>7. SinglePair' /\ AtMostOnce'
  BY ZenonT(60) DEF Stages, SinglePair, AtMostOnce
<1>8. Kinds'
  BY <1>1 DEF Stages, Kinds
<1> QED BY <1>6, <1>7, <1>8 DEF Stages

(* A request of one packet is handed over.                                 *)
LEMMA RunStages ==
  ASSUME NEW f, Stages(f), Numbered(f), NEW p \in DOMAIN net, First(p), p \notin DOMAIN net',
         p.rid \in 1 .. rid, SingleFirst', NothingNew, UNCHANGED <<rid, pending, outcome>>,
         Ran' = Ran \cup {f[p.rid]}, AtMostOnce'
  PROVE  Stages(f)'
<1>1. \A i \in 1 .. rid : i # p.rid => f[i] # f[p.rid]
  BY DEF Numbered
<1>2. \A i : Waits(i)' <=> Waits(i)
  BY DEF Waits
<1>3. ~Sent(p.rid)' /\ \A i : Sent(i)' => Sent(i)
  BY FirstGone DEF Stages, First, NothingNew
<1>4. \A i : Refused(f, i)' => Refused(f, i)
  BY NothingNewFacts
<1>5. Sent(p.rid)
  BY DEF Sent
<1>6. Exclusive(f)'
  BY <1>1, <1>2, <1>3, <1>4, <1>5 DEF Stages, Exclusive
<1>7. SinglePair'
  BY SMT DEF Stages, SinglePair
<1>8. Kinds'
  BY DEF Stages, Kinds
<1> QED BY <1>6, <1>7, <1>8 DEF Stages

(* The first of several packets: the pair waits for the others.            *)
LEMMA WaitStages ==
  ASSUME NEW f, Stages(f), Typed, NEW p \in DOMAIN net, First(p), p \notin DOMAIN net',
         p.rid \in 1 .. rid, SingleFirst', NothingNew, UNCHANGED <<rid, outcome, executed>>,
         NEW v \in Servers, NEW q \in ServerPair, q.rid = p.rid,
         pending' = [pending EXCEPT ![v] = Append(pending[v], q)]
  PROVE  Stages(f)'
<1>1. Ran' = Ran
  BY DEF Ran
<1>2. pending \in [Servers -> Seq(ServerPair)]
  BY DEF Typed
<1>3. From(pending, pending', q)
  BY <1>2, ListAppend
<1>6. ASSUME NEW i, i # p.rid, Waits(i)' PROVE Waits(i)
  <2>1. PICK w \in Servers : \E j \in 1 .. Len(pending'[w]) : pending'[w][j].rid = i
    BY <1>6 DEF Waits
  <2>2. PICK j \in 1 .. Len(pending'[w]) : pending'[w][j].rid = i
    BY <2>1
  <2>3. \E k \in 1 .. Len(pending[w]) : pending'[w][j] = pending[w][k]
    BY <1>3, <1>6, <2>2 DEF From
  <2> QED BY <2>2, <2>3 DEF Waits
<1>7. ~Sent(p.rid)' /\ \A i : Sent(i)' => Sent(i)
  BY FirstGone DEF Stages, First, NothingNew
<1>8. \A i : Refused(f, i)' => Refused(f, i)
  BY NothingNewFacts
<1>9. Sent(p.rid)
  BY DEF Sent
<1>10. Exclusive(f)'
  BY <1>1, <1>6, <1>7, <1>8, <1>9 DEF Stages, Exclusive
<1>11. \A w \in Servers : \A j \in 1 .. Len(pending[w]) : pending[w][j].rid # p.rid
  BY <1>9 DEF Stages, Exclusive, Waits
<1>12. SinglePair'
  <2>1. PICK L, M : L = pending /\ M = pending'
    OBVIOUS
  <2>2. L \in [Servers -> Seq(ServerPair)] /\ Unique(L) /\ M = [L EXCEPT ![v] = Append(L[v], q)]
    BY <1>2, <2>1 DEF Stages, SinglePair
  <2>3. \A w \in Servers : \A j \in 1 .. Len(L[w]) : L[w][j].rid # q.rid
    BY <1>11, <2>1
  <2>4. Unique(M)
    BY <2>2, <2>3, UniqueAppend
  <2> QED BY <2>1, <2>4 DEF SinglePair
<1>13. AtMostOnce' /\ Kinds'
  BY <1>1 DEF Stages, AtMostOnce, Kinds
<1> QED BY <1>10, <1>12, <1>13 DEF Stages

(* A pair leaves the list: its request runs, or does not.                  *)
LEMMA LeaveStages ==
  ASSUME NEW f, Stages(f), Typed, Numbered(f), SingleFirst', NothingNew, UNCHANGED <<rid, outcome>>,
         NEW v \in Servers, NEW k \in 1 .. Len(pending[v]),
         pending' = [pending EXCEPT ![v] = Without(pending[v], k)],
         pending[v][k].rid \in 1 .. rid,
         Ran' = Ran \/ Ran' = Ran \cup {f[pending[v][k].rid]}, AtMostOnce'
  PROVE  Stages(f)'
<1>1. PICK i0 : i0 = pending[v][k].rid
  OBVIOUS
<1>2. PICK L, M : L = pending /\ M = pending'
  OBVIOUS
<1>3. L \in [Servers -> Seq(ServerPair)] /\ Unique(L) /\ M = [L EXCEPT ![v] = Without(L[v], k)]
  BY <1>2 DEF Stages, SinglePair, Typed
<1>4. Unique(M) /\ Lacks(L, M, i0)
  <2>1. k \in 1 .. Len(L[v]) /\ L[v][k].rid = i0
    BY <1>1, <1>2
  <2>2. Unique(M) /\ Lacks(L, M, L[v][k].rid)
    BY <1>3, <2>1, UniqueWithout
  <2> QED BY <2>1, <2>2
<1>8. SinglePair'
  BY <1>2, <1>4 DEF SinglePair
<1>9. ASSUME NEW i, Waits(i)' PROVE Waits(i)
  <2>1. PICK w \in Servers : \E j \in 1 .. Len(M[w]) : M[w][j].rid = i
    BY <1>2, <1>9 DEF Waits
  <2>2. PICK j \in 1 .. Len(M[w]) : M[w][j].rid = i
    BY <2>1
  <2>3. PICK m \in 1 .. Len(L[w]) : M[w][j] = L[w][m]
    BY <1>4, <2>2 DEF Lacks
  <2> QED BY <1>2, <2>2, <2>3 DEF Waits
<1>10. ~Waits(i0)' /\ Waits(i0)
  BY <1>1, <1>2, <1>4, ZenonT(60) DEF Waits, Lacks
<1>11. \A i : Sent(i)' => Sent(i)
  BY NothingNewFacts
<1>12. \A i : Refused(f, i)' => Refused(f, i)
  BY NothingNewFacts
<1>13. \A i \in 1 .. rid : i # i0 => (f[i] \in Ran' => f[i] \in Ran)
  BY <1>1 DEF Numbered
<1>14. Exclusive(f)'
  BY <1>1, <1>9, <1>10, <1>11, <1>12, <1>13 DEF Stages, Exclusive
<1>15. Kinds'
  BY DEF Stages, Kinds
<1> QED BY <1>8, <1>14, <1>15 DEF Stages

(* A pair gets its next packet.                                            *)
LEMMA StayStages ==
  ASSUME NEW f, Stages(f), Typed, SingleFirst', NothingNew, UNCHANGED <<rid, outcome, executed>>,
         NEW v \in Servers, NEW k \in 1 .. Len(pending[v]), NEW q, q.rid = pending[v][k].rid,
         pending' = [pending EXCEPT ![v] = [pending[v] EXCEPT ![k] = q]]
  PROVE  Stages(f)'
<1>1. Ran' = Ran
  BY DEF Ran
<1>2. PICK s \in Seq(ServerPair) : s = pending[v]
  BY DEF Typed
<1>3. PICK t : t = [s EXCEPT ![k] = q]
  OBVIOUS
<1>4. Len(t) = Len(s) /\ \A i \in 1 .. Len(s) : t[i].rid = s[i].rid
  BY <1>2, <1>3, SMT
<1>5. pending'[v] = t /\ \A w \in Servers : w # v => pending'[w] = pending[w]
  BY <1>2, <1>3 DEF Typed
<1>6. \A w \in Servers : Len(pending'[w]) = Len(pending[w])
  BY <1>2, <1>4, <1>5
<1>7. \A w \in Servers : \A j \in 1 .. Len(pending[w]) : pending'[w][j].rid = pending[w][j].rid
  BY <1>2, <1>4, <1>5
<1>8. SinglePair'
  <2> SUFFICES ASSUME NEW w \in Servers, NEW x \in Servers, NEW i \in 1 .. Len(pending'[w]),
                      NEW j \in 1 .. Len(pending'[x]), pending'[w][i].rid = pending'[x][j].rid
               PROVE  w = x /\ i = j
    BY DEF SinglePair, Unique
  <2>1. i \in 1 .. Len(pending[w]) /\ j \in 1 .. Len(pending[x])
    BY <1>6
  <2>2. pending[w][i].rid = pending[x][j].rid
    BY <1>7, <2>1
  <2>3. Unique(pending) /\ w \in Servers /\ x \in Servers
    BY DEF Stages, SinglePair
  <2> QED BY ONLY <2>1, <2>2, <2>3, SMT DEF Unique
<1>9. \A i : Waits(i)' => Waits(i)
  <2> SUFFICES ASSUME NEW i, Waits(i)' PROVE Waits(i)
    OBVIOUS
  <2>1. PICK w \in Servers : \E j \in 1 .. Len(pending'[w]) : pending'[w][j].rid = i
    BY DEF Waits
  <2>2. PICK j \in 1 .. Len(pending'[w]) : pending'[w][j].rid = i
    BY <2>1
  <2>3. j \in 1 .. Len(pending[w])
    BY <1>6
  <2>4. pending[w][j].rid = i
    BY <1>7, <2>2, <2>3
  <2> QED BY <2>3, <2>4 DEF Waits
<1>10. Exclusive(f)'
  BY <1>1, <1>9, NothingNewFacts DEF Stages, Exclusive
<1>11. AtMostOnce' /\ Kinds'
  BY <1>1 DEF Stages, AtMostOnce, Kinds
<1> QED BY <1>8, <1>10, <1>11 DEF Stages

(* Taking a packet out: if it was single, it is gone.                      *)
LEMMA SingleTake ==
  ASSUME NEW B, NEW F, NEW p, Single(F, B)
  PROVE  Single(F, Take({p}, B)) /\ (p \in F => p \notin DOMAIN Take({p}, B))
  BY SMT DEF Take, Single

(* Packets are taken out or sent, none of them a second time.              *)
LEMMA AnswersTaken ==
  ASSUME NEW p, SingleAnswers, net' = Taken(p)
  PROVE  /\ SingleAnswers' /\ \A m \in DOMAIN net' : m \in DOMAIN net
         /\ Alone(p) => p \notin DOMAIN net'
<1>1. PICK F : F = {m \in DOMAIN net \cup {p} : Alone(m)}
  OBVIOUS
<1>2. Single(F, net)
  BY <1>1 DEF SingleAnswers, Single
<1>3. Single(F, net') /\ (p \in F => p \notin DOMAIN net')
  BY <1>2, SingleTake DEF Taken
<1>4. DOMAIN net' \subseteq DOMAIN net
  BY TakeDomain DEF Taken
<1> QED BY <1>1, <1>3, <1>4 DEF SingleAnswers, Single, Alone

(* A packet is taken out, and such answers are sent.                       *)
LEMMA AnswersAnswered ==
  ASSUME NEW p, NEW X, SingleAnswers, net' = Put(X, Taken(p)),
         \A m \in X : Alone(m) => m \notin DOMAIN net
  PROVE  /\ SingleAnswers' /\ \A m \in DOMAIN net' : m \in DOMAIN net \cup X
         /\ Alone(p) /\ p \notin X => p \notin DOMAIN net'
<1>1. PICK F : F = {m \in DOMAIN net \cup X \cup {p} : Alone(m)}
  OBVIOUS
<1>2. Single(F, net)
  BY <1>1 DEF SingleAnswers, Single
<1>3. PICK T : T = Taken(p)
  OBVIOUS
<1>4. Single(F, T) /\ (p \in F => p \notin DOMAIN T) /\ DOMAIN T \subseteq DOMAIN net
  BY <1>2, <1>3, SingleTake, TakeDomain DEF Taken
<1>5. X \cap F \cap DOMAIN T = {}
  BY <1>1, <1>4
<1>6. Single(F, net')
  BY <1>3, <1>4, <1>5, SinglePut
<1>7. DOMAIN net' = DOMAIN T \cup X
  BY <1>3, PutDomain
<1> QED BY <1>1, <1>4, <1>6, <1>7 DEF SingleAnswers, Single, Alone

(* No packet of a reply is sent, and the application takes no request.     *)
LEMMA RespsKept ==
  ASSUME NEW f, Resps(f), \A m \in DOMAIN net' : m \in DOMAIN net \/ m.kind # "RESP",
         \A m \in DOMAIN net : m.kind = "RESP" => (Holds(m.rid)' => Holds(m.rid))
  PROVE  Resps(f)'
<1>1. \A m \in DOMAIN net' : m.kind = "RESP" => RespPacket(m, f[m.rid]) /\ ~Holds(m.rid)'
  BY DEF Resps
<1>2. \A p, q \in DOMAIN net' :
        p.kind = "RESP" /\ IsResp(q, p.rid) /\ p.data[2] = q.data[2] => p = q
  BY DEF Resps, IsResp
<1> QED BY <1>1, <1>2 DEF Resps, IsResp, RespPacket

(* The application's requests stay.                                        *)
LEMMA AppsKept ==
  ASSUME NEW f, Apps(f), app' = app
  PROVE  Apps(f)' /\ \A i : Holds(i)' <=> Holds(i)
  BY ZenonT(60) DEF Apps, Holds

(* A step that sends at most a DROP, runs nothing and changes no pair but  *)
(* frees some.                                                             *)
LEMMA QuietReplies ==
  ASSUME NEW f, Replies(f), SingleAnswers', UNCHANGED <<app, executed>>,
         \A m \in DOMAIN net' : m \in DOMAIN net \/ m.kind = "DROP",
         cp' \in [Socks -> ClientPair],
         \A s \in Socks : owner'[s] # 0 => owner'[s] = owner[s] /\ cp'[s] = cp[s]
  PROVE  Replies(f)'
<1>1. Ran' = Ran
  BY DEF Ran
<1>2. Acks(f)' /\ Apps(f)' /\ Resps(f)' /\ \A i : Holds(i)' <=> Holds(i)
  <2>1. \A m \in DOMAIN net' : m \in DOMAIN net \/ (m.kind # "ACK" /\ ~First(m) /\ m.kind # "RESP")
    BY DEF First
  <2> QED BY <2>1, AcksKept, AppsKept, RespsKept DEF Replies
<1>3. ASSUME NEW s \in Socks, owner'[s] # 0
      PROVE  \E c, r : cp'[s] = c /\ owner'[s] = r /\ PairOf(c, r)'
  <2>1. PICK c, r : c = cp[s] /\ r = owner[s]
    OBVIOUS
  <2>2. PairOf(c, r) /\ cp'[s] = c /\ owner'[s] = r
    BY <1>3, <2>1 DEF Replies, Pairs
  <2>3. PairOf(c, r)'
    BY <1>1, <1>2, <2>2, OtherPair
  <2> QED BY <2>2, <2>3
<1>4. Pairs'
  BY <1>3, PairsStep
<1> QED BY <1>2, <1>4 DEF Replies

(* The first of several packets is ACKed.                                  *)
LEMMA FirstReplies ==
  ASSUME NEW f, Replies(f), SingleFirst, UNCHANGED <<owner, cp, app, executed>>,
         NEW p \in DOMAIN net, First(p), p \notin DOMAIN net', ReqPkts[f[p.rid]] > 1,
         NEW a, IsAck(a, p.rid), net' = Put({a}, Taken(p)), ClientKnown(f)
  PROVE  Replies(f)'
<1>1. Ran' = Ran
  BY DEF Ran
<1>2. a.kind = "ACK" /\ a.rid = p.rid /\ Sent(p.rid)
  BY DEF IsAck, Sent
<1>3. \A m \in DOMAIN net : ~IsAck(m, p.rid)
  BY <1>2 DEF IsAck, Replies, Acks
<1>4. SingleAnswers' /\ \A m \in DOMAIN net' : m \in DOMAIN net \/ m = a
  <2>1. PICK X : X = {a}
    OBVIOUS
  <2>2. net' = Put(X, Taken(p)) /\ \A m \in X : Alone(m) => m \notin DOMAIN net
    BY <1>3, <2>1
  <2>3. SingleAnswers' /\ \A m \in DOMAIN net' : m \in DOMAIN net \cup X
    BY <2>2, AnswersAnswered DEF Replies
  <2> QED BY <2>1, <2>3
<1>5. ~Sent(p.rid)' /\ \A i : Sent(i)' => Sent(i)
  <2>1. \A m \in DOMAIN net' : m \in DOMAIN net \/ ~First(m)
    BY <1>2, <1>4 DEF First
  <2> QED BY <2>1, FirstGone
<1>6. Acks(f)'
  <2>1. ASSUME NEW m \in DOMAIN net', m.kind = "ACK" PROVE ReqPkts[f[m.rid]] > 1 /\ ~Sent(m.rid)'
    BY <1>2, <1>4, <1>5, <2>1 DEF Replies, Acks
  <2>2. ASSUME NEW m \in DOMAIN net', NEW q \in DOMAIN net', m.kind = "ACK", IsAck(q, m.rid)
        PROVE  m = q
    BY <1>2, <1>3, <1>4, <2>2 DEF Replies, Acks, IsAck
  <2> QED BY <2>1, <2>2 DEF Acks, IsAck
<1>7. Apps(f)' /\ Resps(f)' /\ \A i : Holds(i)' <=> Holds(i)
  BY <1>2, <1>4, AppsKept, RespsKept DEF Replies
<1>8. ASSUME NEW s \in Socks, owner'[s] # 0
      PROVE  \E c, r : cp'[s] = c /\ owner'[s] = r /\ PairOf(c, r)'
  <2>1. PICK c, r : c = cp[s] /\ r = owner[s]
    OBVIOUS
  <2>2. PairOf(c, r) /\ cp'[s] = c /\ owner'[s] = r /\ r = f[c.rid]
    BY <1>8, <2>1 DEF Replies, Pairs, ClientKnown
  <2>3. CASE c.rid # p.rid
    BY <1>1, <1>2, <1>4, <1>7, <2>2, <2>3, OtherPair
  <2>4. CASE c.rid = p.rid
    <3>1. c.state # "W_RESPONSE"
      BY <1>2, <2>2, <2>4 DEF PairOf
    <3>2. \A m \in DOMAIN net' : IsRest(m, c.rid) \/ IsResp(m, c.rid) => m \in DOMAIN net
      BY <1>2, <1>4 DEF IsRest, IsResp
    <3>3. PairOf(c, r)'
      BY <1>1, <1>7, <2>2, <3>1, <3>2 DEF PairOf, IsRest, IsResp
    <3> QED BY <2>2, <3>3
  <2> QED BY <2>2, <2>3, <2>4
<1>9. cp' \in [Socks -> ClientPair]
  BY DEF Replies, Pairs
<1>10. Pairs'
  BY <1>8, <1>9, PairsStep
<1> QED BY <1>4, <1>6, <1>7, <1>10 DEF Replies

(* forward_request with the whole of the request of id i.                  *)
LEMMA ForwardReplies ==
  ASSUME NEW f, Whole(f), Replies(f), UNCHANGED <<owner, cp>>, NEW i \in 1 .. rid, f[i] \notin Ran,
         Ran' = Ran \cup {f[i]}, NEW p \in DOMAIN net, net' = Taken(p),
         ReqPkts[f[i]] = 1 \/ IsRest(p, i),
         NEW v \in Servers, NEW q \in ServerPair, q.rid = i,
         q.data = Payload(<<f[i]>>, ReqPkts[f[i]]), app' = [app EXCEPT ![v] = Append(app[v], q)]
  PROVE  Replies(f)'
<1>1. SingleAnswers' /\ \A m \in DOMAIN net' : m \in DOMAIN net
  BY AnswersTaken DEF Replies
<1>2. /\ app \in [Servers -> Seq(ServerPair)] /\ AppKnown(f) /\ NetKnown(f) /\ ClientKnown(f)
      /\ Numbered(f)
  BY DEF Whole, Typed
<1>3. ~Holds(i)
  BY <1>2 DEF AppKnown, Holds
<1>4. From(app, app', q)
  BY <1>2, ListAppend
<1>5. Apps(f)'
  <2>1. Unique(app)'
    <3>1. PICK L, M : L = app /\ M = app'
      OBVIOUS
    <3>2. L \in [Servers -> Seq(ServerPair)] /\ Unique(L) /\ M = [L EXCEPT ![v] = Append(L[v], q)]
      BY <1>2, <3>1 DEF Replies, Apps
    <3>3. \A w \in Servers : \A j \in 1 .. Len(L[w]) : L[w][j].rid # q.rid
      BY <1>3, <3>1 DEF Holds
    <3>4. Unique(M)
      BY <3>2, <3>3, UniqueAppend
    <3> QED BY <3>1, <3>4
  <2>2. ASSUME NEW w \in Servers, NEW j \in 1 .. Len(app'[w])
        PROVE  app'[w][j].data = Payload(<<f[app'[w][j].rid]>>, ReqPkts[f[app'[w][j].rid]])
    <3>1. PICK x : x = app'[w][j]
      OBVIOUS
    <3>2. CASE x = q
      BY <3>1, <3>2
    <3>3. ASSUME NEW k \in 1 .. Len(app[w]), x = app[w][k]
          PROVE  x.data = Payload(<<f[x.rid]>>, ReqPkts[f[x.rid]])
      <4>1. app[w][k].data = Payload(<<f[app[w][k].rid]>>, ReqPkts[f[app[w][k].rid]])
        BY DEF Replies, Apps
      <4> QED BY <3>3, <4>1
    <3> QED BY <1>4, <3>1, <3>2, <3>3 DEF From
  <2> QED BY <2>1, <2>2 DEF Apps
<1>6. ASSUME NEW h, h # i, Holds(h)' PROVE Holds(h)
  <2>1. PICK w \in Servers : \E j \in 1 .. Len(app'[w]) : app'[w][j].rid = h
    BY <1>6 DEF Holds
  <2>2. PICK j \in 1 .. Len(app'[w]) : app'[w][j].rid = h
    BY <2>1
  <2>3. PICK k \in 1 .. Len(app[w]) : app'[w][j] = app[w][k]
    BY <1>4, <1>6, <2>2 DEF From
  <2> QED BY <2>2, <2>3 DEF Holds
<1>7. Acks(f)' /\ Resps(f)'
  <2>1. ASSUME NEW m \in DOMAIN net, m.kind = "RESP" PROVE m.rid # i
    BY <1>2, <2>1 DEF NetKnown, KnownPacket
  <2> QED BY <1>1, <1>6, <2>1, AcksKept, RespsKept DEF Replies
<1>8. ASSUME NEW s \in Socks, owner'[s] # 0
      PROVE  \E c, r : cp'[s] = c /\ owner'[s] = r /\ PairOf(c, r)'
  <2>1. PICK c, r : c = cp[s] /\ r = owner[s]
    OBVIOUS
  <2>2. PairOf(c, r) /\ cp'[s] = c /\ owner'[s] = r /\ r = f[c.rid] /\ c.rid \in 1 .. rid
        /\ c \in ClientPair
    BY <1>2, <1>8, <2>1 DEF Replies, Pairs, ClientKnown
  <2>3. CASE c.rid # i
    <3>1. r # f[i]
      BY <1>2, <2>2, <2>3 DEF Numbered
    <3>2. r \in Ran' <=> r \in Ran
      BY <3>1
    <3>3. PairOf(c, r)'
      BY <1>1, <1>6, <2>2, <2>3, <3>2, OtherPair
    <3> QED BY <2>2, <3>3
  <2>4. CASE c.rid = i
    <3>1. c.state # "W_ACK"
      <4>1. ~IsRest(p, i) \/ c.state # "W_ACK"
        BY <2>2, <2>4 DEF PairOf
      <4>2. c.state = "W_ACK" => ReqPkts[f[i]] > 1
        BY <2>2, <2>4 DEF PairOf
      <4>3. ~(1 > 1)
        BY ONLY SMT
      <4> QED BY <4>1, <4>2, <4>3
    <3>2. ~(c.received > 0)
      BY <2>2, <2>4 DEF PairOf
    <3>3. \A m \in DOMAIN net' : IsAck(m, c.rid) \/ IsResp(m, c.rid) => m \in DOMAIN net
      BY <1>1
    <3>4. Sent(c.rid)' => Sent(c.rid)
      BY <1>1 DEF Sent, First
    <3>5. PairOf(c, r)'
      BY <2>2, <3>1, <3>2, <3>3, <3>4 DEF PairOf, IsAck, IsResp
    <3> QED BY <2>2, <3>5
  <2> QED BY <2>3, <2>4
<1>9. cp' \in [Socks -> ClientPair]
  BY DEF Replies, Pairs
<1>10. Pairs'
  BY <1>8, <1>9, PairsStep
<1> QED BY <1>1, <1>5, <1>7, <1>10 DEF Replies

(* No first packet is sent: those in flight stay single.                   *)
LEMMA NetTakes ==
  ASSUME NEW p, SingleFirst, net' = Taken(p)
  PROVE  /\ SingleFirst' /\ \A m \in DOMAIN net' : m \in DOMAIN net
         /\ First(p) => p \notin DOMAIN net'
<1>1. PICK F : F = {m \in DOMAIN net \cup {p} : First(m)}
  OBVIOUS
<1>2. Single(F, net)
  BY <1>1 DEF SingleFirst, Single
<1>3. Single(F, net') /\ (p \in F => p \notin DOMAIN net')
  BY <1>2, SingleTake DEF Taken
<1>4. DOMAIN net' \subseteq DOMAIN net
  BY TakeDomain DEF Taken
<1> QED BY <1>1, <1>3, <1>4 DEF SingleFirst, Single, First

(* A packet is answered with packets that are not first ones.              *)
LEMMA NetAnswers ==
  ASSUME NEW p, NEW X, SingleFirst, net' = Put(X, Taken(p)), \A m \in X : ~First(m)
  PROVE  /\ SingleFirst' /\ \A m \in DOMAIN net' : m \in DOMAIN net \cup X
         /\ First(p) => p \notin DOMAIN net'
<1>1. PICK F : F = {m \in DOMAIN net \cup {p} : First(m)}
  OBVIOUS
<1>2. Single(F, net)
  BY <1>1 DEF SingleFirst, Single
<1>3. PICK T : T = Taken(p)
  OBVIOUS
<1>4. Single(F, T) /\ (p \in F => p \notin DOMAIN T) /\ DOMAIN T \subseteq DOMAIN net
  BY <1>2, <1>3, SingleTake, TakeDomain DEF Taken
<1>5. X \cap F \cap DOMAIN T = {}
  BY <1>1
<1>6. Single(F, net')
  BY <1>3, <1>4, <1>5, SinglePut
<1>7. DOMAIN net' = DOMAIN T \cup X
  BY <1>3, PutDomain
<1> QED BY <1>1, <1>4, <1>6, <1>7 DEF SingleFirst, Single, First

(* A request that runs is new among those that ran.                        *)
LEMMA RanAppend ==
  ASSUME NEW r \in Reqs, r \notin Ran, executed \in Seq(Seq(Datum)),
         executed' = Append(executed, Payload(<<r>>, ReqPkts[r])), AtMostOnce
  PROVE  Ran' = Ran \cup {r} /\ AtMostOnce'
<1>1. PICK d : d = Payload(<<r>>, ReqPkts[r])
  OBVIOUS
<1>2. d \in Seq(Datum)
  BY <1>1, PayloadFacts, R2P2Assumption DEF Reqs
<1>3. /\ Len(executed') = Len(executed) + 1 /\ executed'[Len(executed) + 1] = d
      /\ Len(executed) \in Nat /\ \A k \in 1 .. Len(executed) : executed'[k] = executed[k]
  BY <1>1, <1>2, SMT
<1>4. /\ \A k \in 1 .. Len(executed') : k \in 1 .. Len(executed) \/ k = Len(executed) + 1
      /\ \A k \in 1 .. Len(executed) : k \in 1 .. Len(executed')
      /\ Len(executed) + 1 \in 1 .. Len(executed')
  BY ONLY <1>3, SMT
<1>5. \A k \in 1 .. Len(executed) : executed[k] # d
  BY <1>1 DEF Ran
<1>6. AtMostOnce'
  BY <1>3, <1>4, <1>5, SMT DEF AtMostOnce
<1>7. ASSUME NEW q \in Reqs PROVE q \in Ran' <=> q \in Ran \cup {r}
  <2>1. CASE q = r
    BY <1>1, <1>3, <1>4, <2>1 DEF Ran
  <2>2. CASE q # r
    <3>1. d # Payload(<<q>>, ReqPkts[q])
      BY <1>1, <2>2, PayloadInjective
    <3> QED BY <1>3, <1>4, <2>2, <3>1 DEF Ran
  <2> QED BY <2>1, <2>2
<1>8. Ran' \subseteq Reqs /\ Ran \subseteq Reqs
  BY DEF Ran
<1> QED BY <1>6, <1>7, <1>8

(* A request is handed to the application.                                 *)
LEMMA Runs ==
  ASSUME Called, Kinds, NEW r \in 1 .. issued, r \notin Ran, ~Dropped(r), Ran' = Ran \cup {r},
         UNCHANGED <<issued, outcome>>
  PROVE  Contract!Next
<1>1. r \in Reqs /\ r <= issued
  BY R2P2Assumption, SMT DEF Called, Reqs
<1>2. [q \in Reqs |-> Status(q)]' = [q \in Reqs |-> Status(q)]
  BY DEF Status
<1>3. Status(r) \in {"issued", "error", "timeout"}
  BY <1>1 DEF Status, Kinds, Dropped
<1>4. Contract!Run(r)
  BY <1>1, <1>2, <1>3 DEF Contract!Run
<1> QED BY <1>1, <1>4 DEF Contract!Next

(* forward_request with the whole of the request of id i.                  *)
LEMMA ForwardRuns ==
  ASSUME NEW f, Once(f), NEW i \in 1 .. rid, Sent(i) \/ Waits(i), NEW v, NEW q, Forward(v, q),
         q.data = Payload(<<f[i]>>, ReqPkts[f[i]]), UNCHANGED <<issued, outcome>>
  PROVE  f[i] \notin Ran /\ Ran' = Ran \cup {f[i]} /\ AtMostOnce' /\ Contract!Next
<1>1. PICK r : r = f[i]
  OBVIOUS
<1>2. /\ Typed /\ Numbered(f) /\ AtMostOnce /\ Kinds /\ Called
      /\ executed \in Seq(Seq(Datum))
  BY DEF Once, Calls, Whole, Stages, Typed
<1>3. r \in 1 .. issued /\ r \in Reqs
  BY <1>1, <1>2, KnownReq
<1>4. r \notin Ran /\ ~Dropped(r)
  BY <1>1 DEF Once, Stages, Exclusive, Refused
<1>5. executed' = Append(executed, Payload(<<r>>, ReqPkts[r]))
  BY <1>1 DEF Forward
<1>6. Ran' = Ran \cup {r} /\ AtMostOnce'
  BY <1>2, <1>3, <1>4, <1>5, RanAppend
<1>7. Contract!Next
  BY <1>2, <1>3, <1>4, <1>6, Runs
<1> QED BY <1>1, <1>4, <1>6, <1>7

(* handle_request.                                                         *)
LEMMA ServerRecvAllowed ==
  ASSUME NEW f, Once(f), NEW v \in Servers, NEW p \in DOMAIN net, ServerRecv(v, p)
  PROVE  Allowed(f)
<1>1. /\ SingleFirst /\ KnownPacket(f, p) /\ Typed /\ Numbered(f) /\ Whole(f) /\ Stages(f)
      /\ pending \in [Servers -> Seq(ServerPair)] /\ PendingKnown(f)
  BY DEF Once, Stages, Whole, NetKnown, Typed
<1>2. p.rid \in 1 .. rid /\ p.sock \in Socks
  BY <1>1 DEF KnownPacket
<1>3. UNCHANGED <<issued, rid, owner, cp, crashed, outcome>> /\ p.kind = "REQ"
  BY DEF ServerRecv, RequestDropped, RequestSingle, RequestFirst, RequestUnmatched,
     RequestRest, AtServer, client
<1>r. Replies(f) /\ SingleAnswers /\ ClientKnown(f) /\ cp \in [Socks -> ClientPair]
      /\ app \in [Servers -> Seq(ServerPair)]
  BY DEF Once, Replies, Pairs, Whole, Typed
<1>c. Calls'
  BY <1>3, QuietCalls DEF Once
<1>4. net' = Taken(p) => /\ SingleFirst' /\ NothingNew
                         /\ p.first => p \notin DOMAIN net'
  BY <1>1, <1>3, NetTakes DEF NothingNew, First
<1>q. UNCHANGED <<app, executed>> /\ net' = Taken(p) => Replies(f)'
  BY <1>3, <1>r, AnswersTaken, QuietReplies
<1>5. p.first => First(p) /\ Sent(p.rid)
  BY <1>3 DEF First, Sent
<1>6. CASE RequestDropped(v, p)
  <2>1. PICK X : X = Control("DROP", v, p.sock, p.rid)
    OBVIOUS
  <2>2. UNCHANGED <<pending, app, executed>> /\ net' = Put(X, Taken(p)) /\ p.first
    BY <1>6, <2>1 DEF RequestDropped
  <2>3. \A m \in X : m.kind = "DROP" /\ m.rid = p.rid /\ ~First(m)
    BY ONLY <2>1, ControlFacts, SMT DEF First
  <2>4. /\ SingleFirst' /\ \A m \in DOMAIN net' : m \in DOMAIN net \cup X
        /\ p \notin DOMAIN net'
    BY <1>1, <1>5, <2>2, <2>3, NetAnswers
  <2>5. Stages(f)'
    BY <1>1, <1>2, <1>3, <1>5, <2>2, <2>3, <2>4, DropStages
  <2>6. SingleAnswers'
    BY <1>r, <2>2, <2>3, AnswersAnswered DEF Alone
  <2>7. Replies(f)'
    BY <1>3, <1>r, <2>2, <2>3, <2>4, <2>6, QuietReplies
  <2> QED BY <1>3, <1>c, <2>2, <2>5, <2>7, Stutters DEF Allowed
<1>7. CASE RequestUnmatched(v, p)
  <2>1. UNCHANGED <<pending, app, executed>> /\ net' = Taken(p)
    BY <1>7 DEF RequestUnmatched, server
  <2> QED BY <1>3, <1>4, <1>c, <1>q, <2>1, QuietAllowed
<1>8. CASE RequestFirst(v, p)
  <2>1. PICK X, q : X = Control("ACK", v, p.sock, p.rid) /\ q = Request(p)
    OBVIOUS
  <2>2. /\ UNCHANGED <<app, executed>> /\ net' = Put(X, Taken(p)) /\ p.first /\ ~p.last
        /\ pending' = [pending EXCEPT ![v] = Append(pending[v], q)]
    BY <1>8, <2>1 DEF RequestFirst
  <2>3. \A m \in X : m.kind = "ACK" /\ ~First(m)
    BY ONLY <2>1, ControlFacts, SMT DEF First
  <2>4. /\ SingleFirst' /\ \A m \in DOMAIN net' : m \in DOMAIN net \cup X
        /\ p \notin DOMAIN net'
    BY <1>1, <1>5, <2>2, <2>3, NetAnswers
  <2>5. NothingNew
    BY <2>3, <2>4 DEF NothingNew
  <2>6. q \in ServerPair /\ q.rid = p.rid
    BY <1>1, <1>3, <2>1, <2>2, FirstPair
  <2>7. Stages(f)'
    BY <1>1, <1>2, <1>3, <1>5, <2>2, <2>4, <2>5, <2>6, WaitStages
  <2>8. PICK a : X = {a} /\ IsAck(a, p.rid)
    <3>1. PICK a : X = {a}
      BY <2>1 DEF Control
    <3>2. IsAck(a, p.rid)
      BY ONLY <2>1, <3>1, ControlFacts, SMT DEF IsAck
    <3> QED BY <3>1, <3>2
  <2>9. ReqPkts[f[p.rid]] > 1
    <3>1. PICK r : r = f[p.rid]
      OBVIOUS
    <3>2. ReqPacket(p, r) /\ ReqPkts[r] \in Nat \ {0}
      BY <1>1, <1>2, <1>3, <3>1, KnownReq DEF KnownPacket
    <3>3. ReqPkts[r] # 1
      <4>1. 0 # ReqPkts[r] - 1
        BY <2>2, <3>2 DEF ReqPacket
      <4> QED BY <4>1, PacketNumbers
    <3> QED BY <3>1, <3>2, <3>3, PacketNumbers
  <2>10. Replies(f)'
    <3>1. net' = Put({a}, Taken(p))
      BY <2>2, <2>8
    <3> QED BY <1>1, <1>3, <1>5, <1>r, <2>2, <2>4, <2>8, <2>9, <3>1, FirstReplies
  <2> QED BY <1>3, <1>c, <2>2, <2>7, <2>10, Stutters DEF Allowed
<1>9. CASE RequestSingle(v, p)
  <2>1. PICK q : q = Request(p)
    OBVIOUS
  <2>2. UNCHANGED pending /\ net' = Taken(p) /\ p.first /\ p.last /\ Forward(v, q)
    BY <1>9, <2>1 DEF RequestSingle
  <2>3. q.data = Payload(<<f[p.rid]>>, ReqPkts[f[p.rid]]) /\ q \in ServerPair /\ q.rid = p.rid
    BY <1>1, <1>3, <2>1, <2>2, FirstPair
  <2>4. f[p.rid] \notin Ran /\ Ran' = Ran \cup {f[p.rid]} /\ AtMostOnce' /\ Contract!Next
    BY <1>2, <1>3, <1>5, <2>2, <2>3, ForwardRuns
  <2>5. Stages(f)'
    BY <1>1, <1>2, <1>3, <1>4, <1>5, <2>2, <2>4, RunStages
  <2>6. ReqPkts[f[p.rid]] = 1
    <3>1. PICK r : r = f[p.rid]
      OBVIOUS
    <3>2. ReqPacket(p, r) /\ ReqPkts[r] \in Nat \ {0}
      BY <1>1, <1>2, <1>3, <3>1, KnownReq DEF KnownPacket
    <3>3. ReqPkts[r] = 1
      BY ONLY <2>2, <3>2, SMTT(30) DEF ReqPacket
    <3> QED BY <3>1, <3>3
  <2>7. app' = [app EXCEPT ![v] = Append(app[v], q)]
    BY <1>r, <2>2 DEF Forward
  <2>8. Replies(f)'
    BY <1>1, <1>2, <1>3, <1>r, <2>2, <2>3, <2>4, <2>6, <2>7, ForwardReplies
  <2> QED BY <1>c, <2>4, <2>5, <2>8 DEF Allowed
<1>10. CASE RequestRest(v, p)
  <2>1. PICK k, q, old :
          /\ k \in 1 .. Len(pending[v])
          /\ old = pending[v][k] /\ q = Longer(old, p)
          /\ ~p.first /\ Found(v, p, k) /\ net' = Taken(p)
          /\ \/ /\ pending' = [pending EXCEPT ![v] = Without(@, k)]
                /\ UNCHANGED <<app, executed>>
             \/ /\ p.order = old.received /\ ~p.last
                /\ pending' = [pending EXCEPT ![v][k] = q]
                /\ UNCHANGED <<app, executed>>
             \/ /\ p.order = old.received /\ p.last
                /\ pending' = [pending EXCEPT ![v] = Without(@, k)]
                /\ Forward(v, q)
    BY <1>10 DEF RequestRest, Longer
  <2>k. k \in 1 .. Len(pending[v])
    BY <2>1
  <2>2. old \in ServerPair /\ KnownPair(f, old) /\ Same(old, p)
    <3>1. pending[v] \in Seq(ServerPair) /\ old = pending[v][k] /\ Found(v, p, k)
      BY <1>1, <2>1
    <3>2. old \in ServerPair
      BY ONLY <2>k, <3>1, SMT
    <3> QED BY <1>1, <2>k, <3>1, <3>2 DEF PendingKnown, Found
  <2>3. Waits(p.rid) /\ pending[v][k].rid = p.rid /\ old.rid = p.rid
    BY <2>k, <2>1, <2>2 DEF Waits, Same
  <2>4. ASSUME p.order = old.received
        PROVE  /\ q.rid = old.rid /\ q \in ServerPair
               /\ p.last => q.data = Payload(<<f[p.rid]>>, ReqPkts[f[p.rid]])
    <3>1. ~p.first /\ q = Longer(old, p)
      BY <2>1
    <3>2. /\ q.rid = old.rid /\ q \in ServerPair
          /\ p.last => q.data = Payload(<<f[q.rid]>>, ReqPkts[f[q.rid]])
      <4>1. /\ Whole(f) /\ p \in DOMAIN net /\ p.kind = "REQ" /\ ~p.first /\ old \in ServerPair
            /\ KnownPair(f, old) /\ Same(old, p) /\ p.order = old.received /\ q = Longer(old, p)
        BY <1>1, <1>3, <2>2, <2>4, <3>1
      <4> QED BY ONLY <4>1, NextPair
    <3> QED BY <2>3, <3>2
  <2>5. SingleFirst' /\ NothingNew
    BY <1>4, <2>1
  <2>6. CASE pending' = [pending EXCEPT ![v] = Without(@, k)] /\ UNCHANGED <<app, executed>>
    <3>1. Ran' = Ran /\ AtMostOnce'
      BY <1>1, <2>6 DEF Ran, Stages, AtMostOnce
    <3>2. Stages(f)'
      BY <1>1, <1>2, <1>3, <2>k, <2>3, <2>5, <2>6, <3>1, LeaveStages
    <3> QED BY <1>3, <1>c, <1>q, <2>1, <2>6, <3>2, Stutters DEF Allowed
  <2>7. CASE /\ pending' = [pending EXCEPT ![v] = Without(@, k)] /\ Forward(v, q)
             /\ p.order = old.received /\ p.last
    <3>1. q.data = Payload(<<f[p.rid]>>, ReqPkts[f[p.rid]]) /\ q \in ServerPair /\ q.rid = p.rid
      BY <2>3, <2>4, <2>7
    <3>2. f[p.rid] \notin Ran /\ Ran' = Ran \cup {f[p.rid]} /\ AtMostOnce' /\ Contract!Next
      BY <1>2, <1>3, <2>3, <2>7, <3>1, ForwardRuns
    <3>3. Stages(f)'
      BY <1>1, <1>2, <1>3, <2>k, <2>3, <2>5, <2>7, <3>2, LeaveStages
    <3>4. IsRest(p, p.rid) /\ net' = Taken(p)
      BY <1>3, <2>1 DEF IsRest
    <3>5. app' = [app EXCEPT ![v] = Append(app[v], q)]
      BY <1>r, <2>7 DEF Forward
    <3>6. Replies(f)'
      BY <1>1, <1>2, <1>3, <1>r, <3>1, <3>2, <3>4, <3>5, ForwardReplies
    <3> QED BY <1>c, <3>2, <3>3, <3>6 DEF Allowed
  <2>8. CASE /\ p.order = old.received /\ pending' = [pending EXCEPT ![v][k] = q]
             /\ UNCHANGED <<app, executed>>
    <3>1. q.rid = pending[v][k].rid
      BY <2>1, <2>4, <2>8
    <3>2. pending' = [pending EXCEPT ![v] = [pending[v] EXCEPT ![k] = q]]
      BY <1>1, <2>8
    <3>3. Stages(f)'
      BY <1>1, <1>3, <2>k, <2>5, <2>8, <3>1, <3>2, StayStages
    <3> QED BY <1>3, <1>c, <1>q, <2>1, <2>8, <3>3, Stutters DEF Allowed
  <2> QED BY <2>1, <2>6, <2>7, <2>8
<1> QED BY <1>6, <1>7, <1>8, <1>9, <1>10 DEF ServerRecv

-----------------------------------------------------------------------------
(* The client receives a packet.                                           *)

(* A step of the client alone, which sends no new request.                 *)
LEMMA ClientSide ==
  ASSUME NEW f, Whole(f), UNCHANGED <<issued, rid, pending, app, executed>>,
         NEW X, DOMAIN net' \subseteq DOMAIN net \cup X, \A p \in X : KnownPacket(f, p),
         owner' \in [Socks -> 0 .. NReq], DOMAIN cp' = Socks,
         \A s \in Socks : "rid" \in DOMAIN cp'[s],
         \A s \in Socks : owner'[s] # 0 => owner'[s] = owner[s] /\ cp'[s].rid = cp[s].rid
  PROVE  Whole(f)'
<1>1. Ran' = Ran
  BY DEF Ran
<1>2. Typed'
  BY DEF Whole, Typed
<1>3. Numbered(f)' /\ RequestIntegrity'
  BY DEF Whole, Numbered, RequestIntegrity
<1>4. NetKnown(f)'
  <2>1. \A p \in DOMAIN net \cup X : KnownPacket(f, p)
    BY DEF Whole, NetKnown
  <2> QED BY <1>1, <2>1 DEF NetKnown, KnownPacket
<1>5. ClientKnown(f)'
  BY DEF Whole, ClientKnown
<1>6. PendingKnown(f)' /\ AppKnown(f)'
  BY <1>1 DEF Whole, PendingKnown, AppKnown, KnownPair
<1> QED BY <1>2, <1>3, <1>4, <1>5, <1>6 DEF Whole

(* free_client_pair.                                                       *)
LEMMA FreeFacts ==
  ASSUME Typed, NEW s \in Socks, FreePair(s)
  PROVE  /\ owner' \in [Socks -> 0 .. NReq] /\ DOMAIN cp' = Socks
         /\ \A t \in Socks : "rid" \in DOMAIN cp'[t]
         /\ \A t \in Socks : owner'[t] # 0 => owner'[t] = owner[t] /\ cp'[t].rid = cp[t].rid
<1>1. owner' = [owner EXCEPT ![s] = 0] /\ cp' = [cp EXCEPT ![s] = NoPair]
  BY DEF FreePair
<1>2. "rid" \in DOMAIN NoPair
  BY DEF NoPair
<1> QED BY <1>1, <1>2, R2P2Assumption, SMT DEF Typed

(* A pair that changes and keeps its request id.                           *)
LEMMA PairFacts ==
  ASSUME Typed, NEW s \in Socks, NEW c, cp' = [cp EXCEPT ![s] = c], UNCHANGED owner,
         "rid" \in DOMAIN c, c.rid = cp[s].rid
  PROVE  /\ owner' \in [Socks -> 0 .. NReq] /\ DOMAIN cp' = Socks
         /\ \A t \in Socks : "rid" \in DOMAIN cp'[t]
         /\ \A t \in Socks : owner'[t] # 0 => owner'[t] = owner[t] /\ cp'[t].rid = cp[t].rid
  BY DEF Typed

(* r2p2_msg_add_payload and the counters keep it.                          *)
LEMMA WithPacketFacts ==
  ASSUME NEW c, NEW p, "rid" \in DOMAIN c
  PROVE  "rid" \in DOMAIN WithPacket(c, p) /\ WithPacket(c, p).rid = c.rid
  BY DEF WithPacket

(* The client side makes a step and sends nothing.                         *)
LEMMA ClientTakes ==
  ASSUME NEW f, Whole(f), UNCHANGED <<issued, rid, pending, app, executed>>,
         DOMAIN net' \subseteq DOMAIN net,
         owner' \in [Socks -> 0 .. NReq], DOMAIN cp' = Socks,
         \A s \in Socks : "rid" \in DOMAIN cp'[s],
         \A s \in Socks : owner'[s] # 0 => owner'[s] = owner[s] /\ cp'[s].rid = cp[s].rid
  PROVE  Whole(f)'
<1>1. PICK X : X = {}
  OBVIOUS
<1>2. DOMAIN net' \subseteq DOMAIN net \cup X /\ \A p \in X : KnownPacket(f, p)
  BY <1>1
<1> QED BY <1>2, ClientSide

(* Packets for the client.                                                 *)
LEMMA ClientRecvWhole ==
  ASSUME NEW f, Whole(f), NEW p \in DOMAIN net, ClientRecv(p)
  PROVE  Whole(f)'
<1>t. Typed /\ KnownPacket(f, p)
  BY DEF Whole, NetKnown
<1>u. p.sock \in Socks /\ "rid" \in DOMAIN cp[p.sock]
  BY <1>t DEF KnownPacket, Typed
<1>d. DOMAIN Taken(p) \subseteq DOMAIN net
  BY TakeDomain DEF Taken
<1>1. CASE RecvUnmatched(p) \/ AckAssert(p) \/ ResponseAssert(p)
  <2>1. UNCHANGED <<issued, rid, owner, cp, pending, app, executed>> /\ net' = Taken(p)
    BY <1>1 DEF RecvUnmatched, AckAssert, ResponseAssert, ToPair, AssertFails, client, server
  <2> QED BY <1>t, <1>d, <2>1, ClientTakes DEF Typed
<1>2. CASE RecvDrop(p) \/ ResponseBad(p) \/ (ResponseFull(p) /\ FreePair(p.sock))
  <2>1. UNCHANGED <<issued, rid, pending, app, executed>> /\ net' = Taken(p) /\ FreePair(p.sock)
    BY <1>2 DEF RecvDrop, ResponseBad, ResponseFull, ToPair, server
  <2> QED BY <1>t, <1>u, <1>d, <2>1, FreeFacts, ClientTakes
<1>3. CASE ResponsePart(p) \/ (ResponseFull(p) /\ ~FreePair(p.sock))
  <2>1. UNCHANGED <<issued, rid, pending, app, executed, owner>> /\ net' = Taken(p)
    BY <1>3 DEF ResponsePart, ResponseFull, ToPair, server
  <2>2. PICK c : cp' = [cp EXCEPT ![p.sock] = c] /\ "rid" \in DOMAIN c /\ c.rid = cp[p.sock].rid
    <3>1. PICK w : w = WithPacket(cp[p.sock], p)
      OBVIOUS
    <3>2. "rid" \in DOMAIN w /\ w.rid = cp[p.sock].rid
      BY <1>u, <3>1, WithPacketFacts
    <3>3. \/ cp' = [cp EXCEPT ![p.sock] = w]
          \/ \E late \in BOOLEAN : cp' = [cp EXCEPT ![p.sock] = [w EXCEPT !.event = late]]
      BY <1>3, <3>1 DEF ResponsePart, ResponseFull
    <3>4. ASSUME NEW late, NEW x, x = [w EXCEPT !.event = late]
          PROVE  "rid" \in DOMAIN x /\ x.rid = cp[p.sock].rid
      BY <3>2, <3>4
    <3> QED BY <3>2, <3>3, <3>4
  <2> QED BY <1>t, <1>u, <1>d, <2>1, <2>2, PairFacts, ClientTakes
<1>4. CASE RecvAck(p)
  <2>1. PICK s, r, X : /\ s = p.sock /\ r = owner[s]
                       /\ X = {q \in Message("REQ", p.at, s, p.rid, ReqPkts[r], <<r>>) : ~q.first}
    OBVIOUS
  <2>2. /\ UNCHANGED <<issued, rid, pending, app, executed, owner>> /\ net' = Put(X, Taken(p))
        /\ cp' = [cp EXCEPT ![s].state = "W_RESPONSE"] /\ owner[s] # 0 /\ cp[s].rid = p.rid
    BY <1>4, <2>1 DEF RecvAck, Match, Free, server
  <2>3. r = f[p.rid] /\ p.rid \in 1 .. rid /\ s \in Socks
    BY <1>t, <1>u, <2>1, <2>2 DEF Whole, ClientKnown, KnownPacket
  <2>4. r \in Reqs
    BY <1>t, <2>3, KnownReq DEF Whole
  <2>5. ASSUME NEW q \in X PROVE KnownPacket(f, q)
    <3>1. PICK k \in 0 .. ReqPkts[r] - 1 : q = Packet("REQ", p.at, s, p.rid, ReqPkts[r], <<r>>, k)
      BY <2>1 DEF Message
    <3>2. q.kind = "REQ" /\ q.sock = s /\ q.rid = p.rid /\ ReqPacket(q, r)
      BY ONLY <2>4, <3>1, PacketKnown, SMT
    <3>3. q.kind # "RESP"
      BY <3>2, ZenonT(60)
    <3> QED BY <2>3, <3>2, <3>3 DEF KnownPacket
  <2>6. DOMAIN net' \subseteq DOMAIN net \cup X
    BY <2>2, AnswerDomain DEF Taken
  <2>7. PICK c : c = [cp[s] EXCEPT !.state = "W_RESPONSE"]
    OBVIOUS
  <2>8. "rid" \in DOMAIN c /\ c.rid = cp[s].rid /\ cp' = [cp EXCEPT ![s] = c]
    BY <1>u, <2>1, <2>2, <2>7
  <2> QED BY <1>t, <2>2, <2>3, <2>5, <2>6, <2>8, PairFacts, ClientSide
<1> QED BY <1>1, <1>2, <1>3, <1>4 DEF ClientRecv

(* Pairs of the same id are the same.                                      *)
LEMMA PairIds ==
  ASSUME NEW f, Whole(f), Called, NEW s \in Socks, NEW t \in Socks, ~Free(s), ~Free(t),
         cp[s].rid = cp[t].rid
  PROVE  s = t
  BY DEF Whole, ClientKnown, Called, OneSocket, Free

(* handle_response for an ACK_MSG: X is the rest of the request.           *)
LEMMA AckReplies ==
  ASSUME NEW f, Whole(f), Called, Replies(f), NEW p \in DOMAIN net, p.kind = "ACK",
         NEW s \in Socks, ~Free(s), cp[s].rid = p.rid, UNCHANGED <<owner, app, executed>>,
         NEW X, \A m \in X : IsRest(m, p.rid), net' = Put(X, Taken(p)),
         cp' = [cp EXCEPT ![s].state = "W_RESPONSE"]
  PROVE  Replies(f)'
<1>1. Ran' = Ran
  BY DEF Ran
<1>2. \A m \in X : m.kind = "REQ" /\ m.rid = p.rid /\ ~m.first
  BY DEF IsRest
<1>3. /\ SingleAnswers' /\ \A m \in DOMAIN net' : m \in DOMAIN net \cup X
      /\ p \notin DOMAIN net'
  <2>1. \A m \in X : ~Alone(m)
    BY <1>2 DEF Alone
  <2>2. Alone(p)
    BY DEF Alone
  <2> QED BY <2>1, <2>2, AnswersAnswered DEF Replies
<1>4. \A m \in DOMAIN net' : m \in DOMAIN net \/ (m.kind = "REQ" /\ m.rid = p.rid /\ ~m.first)
  BY <1>2, <1>3
<1>5. Acks(f)' /\ Apps(f)' /\ Resps(f)' /\ \A i : Holds(i)' <=> Holds(i)
  <2>1. \A m \in DOMAIN net' : m \in DOMAIN net \/ (m.kind # "ACK" /\ ~First(m) /\ m.kind # "RESP")
    BY <1>4 DEF First
  <2> QED BY <2>1, AcksKept, AppsKept, RespsKept DEF Replies
<1>6. PICK c \in ClientPair : c = cp[s]
  BY DEF Replies, Pairs
<1>7. PICK r, d : r = owner[s] /\ d = [c EXCEPT !.state = "W_RESPONSE"]
  OBVIOUS
<1>8. cp \in [Socks -> ClientPair] /\ PairOf(c, r) /\ r = f[p.rid] /\ c.rid = p.rid
  BY <1>6, <1>7 DEF Replies, Pairs, Whole, ClientKnown, Free
<1>9. /\ d \in ClientPair /\ d.state = "W_RESPONSE" /\ d.rid = p.rid /\ d.received = c.received
      /\ d.expected = c.expected /\ d.reply = c.reply
  BY <1>6, <1>7, <1>8 DEF ClientPair
<1>10. /\ cp' \in [Socks -> ClientPair] /\ cp'[s] = d
       /\ \A t \in Socks : t # s => cp'[t] = cp[t]
  <2>1. cp' = [cp EXCEPT ![s] = d]
    BY <1>6, <1>7, <1>8
  <2> QED BY <1>8, <1>9, <2>1
<1>11. PairOf(d, r)'
  <2>1. ~Sent(p.rid) /\ \A q \in DOMAIN net : IsAck(q, p.rid) => q = p
    BY DEF Replies, Acks
  <2>2. ~Sent(p.rid)'
    BY <1>4, <2>1 DEF Sent, First
  <2>3. \A q \in DOMAIN net' : ~IsAck(q, p.rid)
    BY <1>3, <1>4, <2>1 DEF IsAck
  <2>4. \A q \in DOMAIN net' : IsResp(q, p.rid) => q.data[2] >= c.received
    BY <1>4, <1>8 DEF IsResp, PairOf
  <2>5. /\ c.received <= RespPkts[r] /\ c.reply = Payload(Body(r), c.received)
        /\ c.received > 0 => c.expected = RespPkts[r] /\ r \in Ran' /\ ~Holds(p.rid)'
    BY <1>1, <1>5, <1>8 DEF PairOf
  <2> QED BY <1>9, <2>2, <2>3, <2>4, <2>5 DEF PairOf, IsAck, IsResp
<1>12. ASSUME NEW t \in Socks, owner'[t] # 0
       PROVE  \E x, y : cp'[t] = x /\ owner'[t] = y /\ PairOf(x, y)'
  <2>1. CASE t = s
    BY <1>7, <1>10, <1>11, <2>1
  <2>2. CASE t # s
    <3>1. PICK x, y : x = cp[t] /\ y = owner[t]
      OBVIOUS
    <3>2. PairOf(x, y) /\ cp'[t] = x /\ owner'[t] = y
      BY <1>10, <1>12, <2>2, <3>1 DEF Replies, Pairs
    <3>3. x.rid # p.rid
      BY <1>12, <2>2, <3>1, PairIds DEF Free
    <3>4. PairOf(x, y)'
      BY <1>1, <1>4, <1>5, <3>2, <3>3, OtherPair
    <3> QED BY <3>2, <3>4
  <2> QED BY <2>1, <2>2
<1>13. Pairs'
  BY <1>10, <1>12, PairsStep
<1> QED BY <1>3, <1>5, <1>13 DEF Replies

(* Packet p of the reply: the pair of socket s is d after it.              *)
LEMMA PartReplies ==
  ASSUME NEW f, Whole(f), Called, Replies(f), NEW p \in DOMAIN net, p.kind = "RESP",
         NEW s \in Socks, ~Free(s), cp[s].rid = p.rid, UNCHANGED <<owner, app, executed>>,
         net' = Taken(p), NEW d \in ClientPair, cp' = [cp EXCEPT ![s] = d],
         d.rid = p.rid, d.state = "W_RESPONSE", cp[s].state = "W_RESPONSE",
         p.data[2] = cp[s].received, d.received = cp[s].received + 1,
         d.received <= RespPkts[owner[s]], d.expected = RespPkts[owner[s]],
         d.reply = Payload(Body(owner[s]), d.received)
  PROVE  Replies(f)'
<1>1. Ran' = Ran
  BY DEF Ran
<1>2. SingleAnswers' /\ p \notin DOMAIN net' /\ \A m \in DOMAIN net' : m \in DOMAIN net
  <2>1. Alone(p)
    BY DEF Alone
  <2> QED BY <2>1, AnswersTaken DEF Replies
<1>3. Acks(f)' /\ Apps(f)' /\ Resps(f)' /\ \A i : Holds(i)' <=> Holds(i)
  BY <1>2, AcksKept, AppsKept, RespsKept DEF Replies
<1>4. PICK c, r : c \in ClientPair /\ c = cp[s] /\ r = owner[s]
  BY DEF Replies, Pairs
<1>5. /\ cp \in [Socks -> ClientPair] /\ PairOf(c, r) /\ r = f[p.rid] /\ c.rid = p.rid
      /\ KnownPacket(f, p)
  BY <1>4 DEF Replies, Pairs, Whole, ClientKnown, Free, NetKnown
<1>6. /\ cp' \in [Socks -> ClientPair] /\ cp'[s] = d
      /\ \A t \in Socks : t # s => cp'[t] = cp[t]
  BY <1>5
<1>7. PairOf(d, r)'
  <2>1. Sent(p.rid)' => Sent(p.rid)
    BY <1>2 DEF Sent, First
  <2>2. ReqPkts[r] > 1 => ~Sent(p.rid)' /\ \A q \in DOMAIN net' : ~IsAck(q, p.rid)
    BY <1>2, <1>4, <1>5, <2>1 DEF PairOf
  <2>3. r \in Ran' /\ ~Holds(p.rid)'
    BY <1>1, <1>3, <1>5 DEF KnownPacket, Replies, Resps
  <2>4. ASSUME NEW q \in DOMAIN net', IsResp(q, p.rid) PROVE q.data[2] >= d.received
    <3>1. q \in DOMAIN net /\ q.rid = p.rid /\ q.kind = "RESP" /\ q # p
      BY <1>2, <2>4 DEF IsResp
    <3>2. q.data[2] # p.data[2]
      BY <2>4, <3>1 DEF Replies, Resps
    <3>3. q.data[2] >= c.received
      BY <1>5, <2>4, <3>1 DEF PairOf
    <3>4. PICK j : j = q.data[2]
      OBVIOUS
    <3>5. PICK n \in Nat : n = c.received
      BY <1>4 DEF ClientPair
    <3>6. j \in Nat
      <4>1. RespPacket(q, f[p.rid])
        BY <3>1 DEF Replies, Resps
      <4>2. PICK k \in 0 .. RespPkts[f[p.rid]] - 1 : q.data = <<Body(f[p.rid]), k>>
        BY <4>1 DEF RespPacket
      <4>3. q.data[2] = k
        BY ONLY <4>2, SMT
      <4> QED BY <3>4, <4>2, <4>3, Counts
    <3>7. j # n /\ j >= n
      BY <1>4, <3>2, <3>3, <3>4, <3>5
    <3>8. j >= n + 1
      BY <3>5, <3>6, <3>7, PacketNumbers
    <3> QED BY <1>4, <3>4, <3>5, <3>8
  <2>5. /\ d.received <= RespPkts[r] /\ d.reply = Payload(Body(r), d.received)
        /\ d.expected = RespPkts[r]
    BY <1>4
  <2> QED BY <2>2, <2>3, <2>4, <2>5 DEF PairOf, IsAck, IsResp
<1>8. ASSUME NEW t \in Socks, owner'[t] # 0
      PROVE  \E x, y : cp'[t] = x /\ owner'[t] = y /\ PairOf(x, y)'
  <2>1. CASE t = s
    BY <1>4, <1>6, <1>7, <2>1
  <2>2. CASE t # s
    <3>1. PICK x, y : x = cp[t] /\ y = owner[t]
      OBVIOUS
    <3>2. PairOf(x, y) /\ cp'[t] = x /\ owner'[t] = y
      BY <1>6, <1>8, <2>2, <3>1 DEF Replies, Pairs
    <3>3. PairOf(x, y)'
      BY <1>1, <1>2, <1>3, <3>2, OtherPair
    <3> QED BY <3>2, <3>3
  <2> QED BY <2>1, <2>2
<1>9. Pairs'
  BY <1>6, <1>8, PairsStep
<1> QED BY <1>2, <1>3, <1>9 DEF Replies

(* A callback reports the request of its socket.                           *)
LEMMA CallbackReports ==
  ASSUME Called, NEW r \in Reqs, outcome[r] = <<>>, NEW kind, NEW reply,
         outcome' = [outcome EXCEPT ![r] = Append(@, [kind |-> kind, reply |-> reply])]
  PROVE  Reports(r, kind)
<1>1. PICK cb : cb = [kind |-> kind, reply |-> reply]
  OBVIOUS
<1>2. outcome' = [outcome EXCEPT ![r] = Append(outcome[r], cb)] /\ DOMAIN outcome = Reqs
  BY <1>1 DEF Called
<1>3. outcome'[r] = Append(<<>>, cb)
  BY <1>2
<1>4. outcome'[r] # <<>> /\ outcome'[r][1] = cb
  BY ONLY <1>3, SMT
<1>5. \A q \in Reqs : q # r => outcome'[q] = outcome[q]
  BY <1>2
<1> QED BY <1>1, <1>4, <1>5, SMT DEF Reports

(* A callback changes the status of its request only.                      *)
LEMMA ReportStatus ==
  ASSUME NEW r \in Reqs, NEW k, Reports(r, k),
         UNCHANGED issued \/ (r = issued + 1 /\ issued' = issued + 1 /\ issued \in Nat)
  PROVE  /\ [q \in Reqs |-> Status(q)]' = [[q \in Reqs |-> Status(q)] EXCEPT ![r] = k]
         /\ Status(r) = IF r <= issued THEN "issued" ELSE "new"
<1>1. Status(r)' = k /\ Status(r) = IF r <= issued THEN "issued" ELSE "new"
  BY DEF Status, Reports
<1>2. ASSUME NEW q \in Reqs, q # r PROVE Status(q)' = Status(q)
  <2>1. q <= issued' <=> q <= issued
    BY <1>2, SMT DEF Reqs
  <2>2. outcome'[q] = outcome[q]
    BY <1>2 DEF Reports
  <2> QED BY <2>1, <2>2 DEF Status
<1> QED BY <1>1, <1>2

(* The callback of a pending request.                                      *)
LEMMA Concludes ==
  ASSUME Called, NEW r \in 1 .. issued, NEW k, Reports(r, k), UNCHANGED <<issued, executed>>,
         \/ k \in {"error", "timeout"}
         \/ k = "success" /\ r \in Ran
         \/ k = "dropped" /\ r \notin Ran
  PROVE  Contract!Next
<1>1. r \in Reqs /\ r <= issued
  BY R2P2Assumption, SMT DEF Called, Reqs
<1>2. Ran' = Ran
  BY DEF Ran
<1>3. /\ [q \in Reqs |-> Status(q)]' = [[q \in Reqs |-> Status(q)] EXCEPT ![r] = k]
      /\ Status(r) = "issued"
  BY <1>1, ReportStatus
<1>4. Contract!Fail(r) \/ Contract!Succeed(r) \/ Contract!Drop(r)
  BY <1>1, <1>2, <1>3 DEF Contract!Fail, Contract!Succeed, Contract!Drop
<1> QED BY <1>1, <1>4 DEF Contract!Next

(* A callback.  handle_drop_msg has a DROP for it.                         *)
LEMMA ReportStages ==
  ASSUME NEW f, Stages(f), Typed, Numbered(f), UNCHANGED <<rid, pending, executed>>,
         SingleFirst', NothingNew, NEW r \in Reqs, NEW k, Reports(r, k),
         \/ k \in {"error", "timeout"}
         \/ k = "success" /\ r \in Ran
         \/ k = "dropped" /\ \E i \in 1 .. rid : f[i] = r /\ Refused(f, i)
  PROVE  Stages(f)'
<1>1. Ran' = Ran
  BY DEF Ran
<1>2. \A i : Waits(i)' <=> Waits(i)
  BY DEF Waits
<1>3. ASSUME NEW i \in 1 .. rid, Refused(f, i)' PROVE Refused(f, i)
  <2>1. CASE \E p \in DOMAIN net' : p.kind = "DROP" /\ p.rid = i
    BY <2>1 DEF NothingNew, Refused
  <2>2. CASE Dropped(f[i])' /\ f[i] = r
    <3>1. k = "dropped"
      BY <2>2 DEF Dropped, Reports
    <3>2. PICK j \in 1 .. rid : f[j] = r /\ Refused(f, j)
      BY <3>1
    <3> QED BY <2>2, <3>2 DEF Numbered
  <2>3. CASE Dropped(f[i])' /\ f[i] # r
    <3>1. f[i] \in Reqs => outcome'[f[i]] = outcome[f[i]]
      BY <2>3 DEF Reports
    <3>2. f[i] \in Reqs
      BY KnownReq
    <3> QED BY <2>3, <3>1, <3>2 DEF Dropped, Refused
  <2> QED BY <1>3, <2>1, <2>2, <2>3 DEF Refused
<1>4. Exclusive(f)'
  BY <1>1, <1>2, <1>3, NothingNewFacts DEF Stages, Exclusive
<1>5. SinglePair' /\ AtMostOnce'
  BY SMT DEF Stages, SinglePair, AtMostOnce
<1>6. Kinds'
  BY <1>1 DEF Stages, Kinds, Reports
<1> QED BY <1>4, <1>5, <1>6 DEF Stages

(* A callback for the request of socket s.                                 *)
LEMMA CallbackAllowed ==
  ASSUME NEW f, Once(f), NEW s \in Socks, ~Free(s), Open(s), NEW kind, NEW reply,
         Callback(s, kind, reply),
         UNCHANGED <<issued, rid, pending, executed>>, SingleFirst', NothingNew,
         \/ kind \in {"error", "timeout"}
         \/ kind = "success" /\ owner[s] \in Ran
         \/ kind = "dropped" /\ Refused(f, cp[s].rid),
         Calls', Replies(f)'
  PROVE  Allowed(f)
<1>1. PICK r, i : r = owner[s] /\ i = cp[s].rid
  OBVIOUS
<1>2. r \in 1 .. issued /\ outcome[r] = <<>>
  BY <1>1 DEF Once, Calls, Called, Open
<1>3. i \in 1 .. rid /\ r = f[i]
  BY <1>1 DEF Once, Whole, ClientKnown, Free
<1>4. r \in Reqs
  BY <1>2, IdsAreNumbers DEF Once, Whole
<1>5. Reports(r, kind)
  BY <1>1, <1>2, <1>4, CallbackReports DEF Once, Calls, Callback
<1>6. Typed /\ Numbered(f)
  BY DEF Once, Whole
<1>7. Stages(f)'
  <2>1. kind = "dropped" => \E j \in 1 .. rid : f[j] = r /\ Refused(f, j)
    BY <1>1, <1>3
  <2> QED BY <1>1, <1>4, <1>5, <1>6, <2>1, ReportStages DEF Once
<1>8. Refused(f, i) => r \notin Ran
  BY <1>3 DEF Once, Stages, Exclusive
<1>9. Contract!Next
  BY <1>1, <1>2, <1>5, <1>8, Concludes DEF Once, Calls
<1> QED BY <1>7, <1>9 DEF Allowed

(* free_client_pair leaves the other pairs alone.                          *)
LEMMA FreedPairs ==
  ASSUME NEW f, Once(f), NEW s \in Socks, FreePair(s)
  PROVE  /\ cp' \in [Socks -> ClientPair] /\ owner' = [owner EXCEPT ![s] = 0]
         /\ \A t \in Socks : t # s => cp'[t] = cp[t]
         /\ \A t \in Socks : owner'[t] # 0 => owner'[t] = owner[t] /\ cp'[t] = cp[t]
<1>1. cp \in [Socks -> ClientPair] /\ owner \in [Socks -> 0 .. NReq]
  BY DEF Once, Replies, Pairs, Calls, Called
<1>2. cp' = [cp EXCEPT ![s] = NoPair] /\ owner' = [owner EXCEPT ![s] = 0]
  BY DEF FreePair
<1>3. cp' \in [Socks -> ClientPair] /\ \A t \in Socks : t # s => cp'[t] = cp[t]
  BY <1>1, <1>2, NoPairFacts
<1>4. owner'[s] = 0 /\ \A t \in Socks : t # s => owner'[t] = owner[t]
  BY <1>1, <1>2
<1> QED BY <1>2, <1>3, <1>4

(* A callback that frees the pair of socket s; net' has nothing new.       *)
LEMMA ConcludeAllowed ==
  ASSUME NEW f, Once(f), NEW s \in Socks, ~Free(s), Open(s), NEW kind, NEW reply,
         Callback(s, kind, reply), FreePair(s), SingleFirst', SingleAnswers',
         UNCHANGED <<issued, rid, crashed, pending, app, executed>>,
         \A m \in DOMAIN net' : m \in DOMAIN net,
         kind = "success" => reply = Payload(Body(owner[s]), RespPkts[owner[s]]),
         \/ kind \in {"error", "timeout"}
         \/ kind = "success" /\ owner[s] \in Ran
         \/ kind = "dropped" /\ Refused(f, cp[s].rid)
  PROVE  Allowed(f)
<1>1. /\ cp' \in [Socks -> ClientPair] /\ owner' = [owner EXCEPT ![s] = 0]
      /\ \A t \in Socks : t # s => cp'[t] = cp[t]
      /\ \A t \in Socks : owner'[t] # 0 => owner'[t] = owner[t] /\ cp'[t] = cp[t]
  BY FreedPairs
<1>2. Replies(f)'
  BY <1>1, QuietReplies DEF Once
<1>3. Calls'
  BY <1>1, CallbackCalls DEF Once
<1>4. NothingNew
  BY DEF NothingNew
<1> QED BY <1>2, <1>3, <1>4, CallbackAllowed

(* The parts of a reply, in order.                                         *)
LEMMA ReplyAppend ==
  ASSUME NEW B \in Seq(Reqs), NEW n \in Nat
  PROVE  /\ Payload(B, n) \in Seq(Datum)
         /\ Append(Payload(B, n), <<B, n>>) = Payload(B, n + 1)
<1>1. ASSUME NEW m \in Nat
      PROVE  /\ Payload(B, m) \in Seq(Datum) /\ Len(Payload(B, m)) = m
             /\ \A k \in 1 .. m : Payload(B, m)[k] = <<B, k - 1>>
  <2>1. \A k \in 1 .. m : <<B, k - 1>> \in Datum
    BY ONLY SMT DEF Datum
  <2> DEFINE d(k) == <<B, k - 1>>
  <2>2. \A k \in 1 .. m : d(k) \in Datum
    BY <2>1
  <2>3. Payload(B, m) = [k \in 1 .. m |-> d(k)]
    BY DEF Payload
  <2> HIDE DEF d
  <2>4. [k \in 1 .. m |-> d(k)] \in Seq(Datum) /\ Len([k \in 1 .. m |-> d(k)]) = m
    BY ONLY <2>2, SMT
  <2> QED BY <2>3, <2>4 DEF d
<1>2. PICK P, Q, d : P = Payload(B, n) /\ Q = Payload(B, n + 1) /\ d = <<B, n>>
  OBVIOUS
<1>3. P \in Seq(Datum) /\ Len(P) = n /\ \A k \in 1 .. n : P[k] = <<B, k - 1>>
  BY <1>1, <1>2
<1>4. Q \in Seq(Datum) /\ Len(Q) = n + 1 /\ \A k \in 1 .. n + 1 : Q[k] = <<B, k - 1>>
  <2>1. n + 1 \in Nat
    BY ONLY SMT
  <2> QED BY <1>1, <1>2, <2>1
<1>5. Q[n + 1] = d /\ d \in Datum
  <2>1. n + 1 \in 1 .. n + 1 /\ (n + 1) - 1 = n
    BY ONLY SMT
  <2>2. Q[n + 1] = <<B, n>>
    BY ONLY <1>4, <2>1, SMT
  <2>3. <<B, n>> \in Datum
    BY ONLY SMT DEF Datum
  <2> QED BY <1>2, <2>2, <2>3
<1>6. Append(P, d) \in Seq(Datum) /\ Len(Append(P, d)) = n + 1 /\ Append(P, d)[n + 1] = d
  BY ONLY <1>3, <1>5, SMT
<1>7. \A k \in 1 .. n : Append(P, d)[k] = P[k] /\ Q[k] = P[k]
  <2>1. \A k \in 1 .. n : Append(P, d)[k] = P[k]
    BY ONLY <1>3, <1>5, SMT
  <2>2. \A k \in 1 .. n : k \in 1 .. n + 1
    BY ONLY SMT
  <2> QED BY <1>3, <1>4, <2>1, <2>2
<1>8. \A k \in 1 .. n + 1 : Append(P, d)[k] = Q[k]
  BY ONLY <1>5, <1>6, <1>7, SMT
<1>9. Append(P, d) = Q
  BY <1>4, <1>6, <1>8, SameSeq
<1> QED BY <1>2, <1>3, <1>9

(* Packet p of the reply fits the pair c of request r, which it makes d.   *)
Accepts(r, c, p, d) ==
  /\ r \in Reqs /\ c \in ClientPair /\ PairOf(c, r) /\ p \in DOMAIN net /\ IsResp(p, c.rid)
  /\ RespPacket(p, r) /\ ~BadPacket(c, p) /\ d = WithPacket(c, p)

(* Pair d of request r has a packet more than c, and it is p.              *)
Extended(r, c, p, d) ==
  /\ d \in ClientPair /\ d.rid = c.rid /\ d.state = c.state /\ d.event = c.event
  /\ p.data[2] = c.received /\ d.received = c.received + 1 /\ d.expected = RespPkts[r]
  /\ d.received <= RespPkts[r] /\ d.reply = Payload(Body(r), d.received)
  /\ p.last => d.received = RespPkts[r]

(* r2p2_msg_add_payload of the packet the pair waits for.                  *)
LEMMA Accepted ==
  ASSUME NEW r, NEW c, NEW p, NEW d, Accepts(r, c, p, d)
  PROVE  Extended(r, c, p, d)
<1> /\ r \in Reqs /\ c \in ClientPair /\ PairOf(c, r) /\ p \in DOMAIN net /\ IsResp(p, c.rid)
    /\ RespPacket(p, r) /\ ~BadPacket(c, p) /\ d = WithPacket(c, p)
  BY DEF Accepts
<1>1. PICK k \in 0 .. RespPkts[r] - 1 :
         /\ p.data = <<Body(r), k>> /\ (p.first <=> k = 0) /\ (p.last <=> k = RespPkts[r] - 1)
         /\ p.order = IF k = 0 THEN RespPkts[r] ELSE k
  BY DEF RespPacket
<1>2. PICK n \in Nat : n = c.received
  BY DEF ClientPair
<1>3. /\ c.reply = Payload(Body(r), n) /\ n <= RespPkts[r] /\ (n > 0 => c.expected = RespPkts[r])
      /\ p.data[2] >= n
  BY <1>2 DEF PairOf
<1>4. p.data[2] = k /\ RespPkts[r] \in Nat \ {0} /\ k \in Nat
  <2>1. p.data[2] = k
    BY ONLY <1>1, SMT
  <2> QED BY <2>1, Lengths
<1>5. k = n
  <2>1. ~p.first => p.order = n
    BY <1>2 DEF BadPacket
  <2>2. CASE k = 0
    <3>1. 0 >= n
      BY <1>3, <1>4, <2>2
    <3> QED BY <1>2, <2>2, <3>1, PacketNumbers
  <2>3. CASE k # 0
    BY <1>1, <2>1, <2>3
  <2> QED BY <2>2, <2>3
<1>6. PICK B \in Seq(Reqs) : B = Body(r)
  <2>1. ReqPkts[r] \in Nat
    BY Lengths
  <2>2. [j \in 1 .. ReqPkts[r] |-> r] \in Seq(Reqs)
    BY <2>1, Repeated
  <2> QED BY <2>2 DEF Body
<1>7. PICK rep \in Seq(Datum) : rep = Append(c.reply, p.data) /\ rep = Payload(B, n + 1)
  <2>1. n + 1 \in Nat
    BY ONLY SMT
  <2> QED BY <1>1, <1>3, <1>5, <1>6, <2>1, ReplyAppend
<1>8. PICK m, e :
         /\ m = IF p.first THEN 1 ELSE c.received + 1
         /\ e = IF p.first THEN p.order ELSE c.expected
         /\ m \in Nat /\ e \in Nat
  <2>1. c.expected \in Nat
    BY DEF ClientPair
  <2>2. PICK m : m = IF p.first THEN 1 ELSE c.received + 1
    OBVIOUS
  <2>3. PICK e : e = IF p.first THEN p.order ELSE c.expected
    OBVIOUS
  <2>4. m \in Nat
    BY ONLY <1>2, <2>2, SMT
  <2>5. e \in Nat
    BY <1>1, <1>4, <2>1, <2>3, ZenonT(60)
  <2> QED BY <2>2, <2>3, <2>4, <2>5
<1>9. d = [c EXCEPT !.reply = rep, !.received = m, !.expected = e]
  BY <1>7, <1>8 DEF WithPacket
<1>10. /\ d \in ClientPair /\ d.rid = c.rid /\ d.state = c.state /\ d.event = c.event
       /\ d.reply = rep /\ d.received = m /\ d.expected = e
  <2>1. m \in Nat /\ e \in Nat
    BY <1>8
  <2>2. d \in ClientPair
    BY <1>9, <2>1 DEF ClientPair
  <2>3. /\ d.rid = c.rid /\ d.state = c.state /\ d.event = c.event
        /\ d.reply = rep /\ d.received = m /\ d.expected = e
    BY <1>9 DEF ClientPair
  <2> QED BY <2>2, <2>3
<1>11. m = n + 1 /\ e = RespPkts[r] /\ n + 1 <= RespPkts[r]
  <2>1. n + 1 <= RespPkts[r]
    BY <1>1, <1>4, <1>5, PacketNumbers
  <2>2. CASE p.first
    <3>1. n = 0 /\ e = RespPkts[r] /\ m = 1
      BY <1>1, <1>5, <1>8, <2>2
    <3> QED BY <2>1, <3>1, PacketNumbers
  <2>3. CASE ~p.first
    <3>1. n # 0 /\ e = c.expected /\ m = n + 1
      BY <1>1, <1>2, <1>5, <1>8, <2>3
    <3>2. n > 0
      BY <3>1, PacketNumbers
    <3> QED BY <1>3, <2>1, <3>1, <3>2
  <2> QED BY <2>2, <2>3
<1>12. p.last => n + 1 = RespPkts[r]
  BY <1>1, <1>4, <1>5, PacketNumbers
<1> QED BY <1>2, <1>4, <1>5, <1>6, <1>7, <1>10, <1>11, <1>12 DEF Extended

(* A packet for the pair c of request r, on socket s.                      *)
ForPair(f, p, s, c, r) ==
  /\ s = p.sock /\ s \in Socks /\ ~Free(s) /\ c = cp[s] /\ c \in ClientPair /\ c.rid = p.rid
  /\ r = owner[s] /\ r = f[p.rid] /\ r \in Reqs /\ PairOf(c, r) /\ KnownPacket(f, p)

(* find_in_pending_client_pairs finds the pair of the request.             *)
LEMMA MatchFacts ==
  ASSUME NEW f, Once(f), NEW p \in DOMAIN net, ToClient(p), Match(p),
         NEW s, s = p.sock, NEW c, c = cp[s], NEW r, r = owner[s]
  PROVE  ForPair(f, p, s, c, r)
<1>1. s \in Socks /\ ~Free(s) /\ c.rid = p.rid
  BY DEF ToClient, Match
<1>2. c \in ClientPair /\ PairOf(c, r) /\ r = f[p.rid] /\ p.rid \in 1 .. rid
  BY <1>1 DEF Once, Replies, Pairs, Whole, ClientKnown, Free
<1>3. Typed /\ Numbered(f) /\ KnownPacket(f, p)
  BY DEF Once, Whole, NetKnown
<1>4. r \in Reqs
  BY <1>2, <1>3, KnownReq
<1> QED BY <1>1, <1>2, <1>3, <1>4 DEF ForPair

(* A pair whose request was concluded has the whole reply.                 *)
LEMMA KeptRan ==
  ASSUME NEW f, Once(f), NEW s \in Socks, ~Free(s), ~Open(s)
  PROVE  /\ owner[s] \in Ran /\ Held(s) /\ cp[s].received = RespPkts[owner[s]]
         /\ cp[s].state # "W_ACK"
<1>1. PICK c, r : c = cp[s] /\ r = owner[s]
  OBVIOUS
<1>2. PairOf(c, r) /\ Held(s) /\ c.received = RespPkts[r]
  BY <1>1 DEF Once, Calls, Held, Replies, Pairs, Free
<1>3. r \in 1 .. issued /\ issued \in 0 .. NReq
  BY <1>1 DEF Once, Calls, Called
<1>4. RespPkts[r] > 0
  BY ONLY <1>3, R2P2Assumption, SMT
<1>5. r \in Ran /\ c.state # "W_ACK"
  BY <1>2, <1>4 DEF PairOf
<1> QED BY <1>1, <1>2, <1>5

(* The timer event of a pair that is kept: it tells RPC nothing.           *)
LEMMA LateAllowed ==
  ASSUME NEW f, Once(f), NEW s \in Socks, ~Free(s), ~Open(s), Callback(s, "timeout", <<>>),
         FreePair(s), SingleFirst', SingleAnswers', NothingNew,
         UNCHANGED <<issued, rid, crashed, pending, app, executed, net>>
  PROVE  Allowed(f)
<1>1. /\ cp' \in [Socks -> ClientPair] /\ owner' = [owner EXCEPT ![s] = 0]
      /\ \A t \in Socks : t # s => cp'[t] = cp[t]
      /\ \A t \in Socks : owner'[t] # 0 => owner'[t] = owner[t] /\ cp'[t] = cp[t]
  BY FreedPairs
<1>2. Replies(f)'
  BY <1>1, QuietReplies DEF Once
<1>3. /\ Calls'
      /\ \A q \in Reqs : outcome'[q] = <<>> <=> outcome[q] = <<>>
      /\ \A q \in Reqs : outcome'[q][1] = outcome[q][1]
  BY <1>1, KeptRan, LateCalls DEF Once
<1>4. Ran' = Ran /\ \A i : Waits(i)' <=> Waits(i)
  BY DEF Ran, Waits
<1>5. Typed /\ Numbered(f) /\ Stages(f)
  BY DEF Once, Whole
<1>6. ASSUME NEW i \in 1 .. rid, Refused(f, i)' PROVE Refused(f, i)
  <2>1. f[i] \in Reqs
    BY <1>5, KnownReq
  <2> QED BY <1>3, <1>6, <2>1 DEF Refused, Dropped
<1>7. Exclusive(f)'
  BY <1>4, <1>5, <1>6, NothingNewFacts DEF Stages, Exclusive
<1>8. SinglePair' /\ AtMostOnce'
  BY <1>5, SMT DEF Stages, SinglePair, AtMostOnce
<1>9. Kinds'
  BY <1>3, <1>4, <1>5 DEF Stages, Kinds
<1>10. [q \in Reqs |-> Status(q)]' = [q \in Reqs |-> Status(q)]
  BY <1>3 DEF Status
<1>11. UNCHANGED Contract!vars
  BY <1>4, <1>10 DEF Contract!vars
<1> QED BY <1>2, <1>3, <1>7, <1>8, <1>9, <1>11 DEF Allowed, Stages

(* A reply finds its pair waiting for it, and the request open.            *)
LEMMA ReplyFinds ==
  ASSUME NEW f, Once(f), NEW p \in DOMAIN net, p.kind = "RESP",
         NEW s, NEW c, NEW r, ForPair(f, p, s, c, r)
  PROVE  /\ Open(s) /\ c.state = "W_RESPONSE" /\ r \in Ran /\ RespPacket(p, r)
         /\ IsResp(p, c.rid)
<1>1. /\ s \in Socks /\ ~Free(s) /\ c = cp[s] /\ r = owner[s] /\ r = f[p.rid] /\ r \in Reqs
      /\ PairOf(c, r) /\ c.rid = p.rid /\ KnownPacket(f, p)
  BY DEF ForPair
<1>2. r \in Ran /\ RespPacket(p, r) /\ IsResp(p, c.rid)
  BY <1>1 DEF KnownPacket, IsResp, Once, Replies, Resps
<1>3. c.state = "W_RESPONSE" /\ p.data[2] >= c.received
  BY <1>1, <1>2 DEF PairOf
<1>4. PICK n : n = RespPkts[r]
  OBVIOUS
<1>5. n \in Nat
  BY ONLY <1>1, <1>4, R2P2Assumption, SMTT(30) DEF Reqs
<1>6. PICK k \in 0 .. n - 1 : p.data = <<Body(r), k>>
  BY <1>2, <1>4 DEF RespPacket
<1>7. p.data[2] = k
  BY ONLY <1>6, SMTT(30)
<1>8. ~(k >= n)
  BY ONLY <1>5, SMTT(30)
<1>9. c.received # n
  BY <1>3, <1>7, <1>8
<1>10. Open(s)
  BY <1>1, <1>4, <1>9, KeptRan
<1> QED BY <1>2, <1>3, <1>10

(* An ACK finds its pair waiting for it.                                   *)
LEMMA AckFinds ==
  ASSUME NEW f, Once(f), NEW p \in DOMAIN net, p.kind = "ACK",
         NEW s, NEW c, NEW r, ForPair(f, p, s, c, r)
  PROVE  Open(s) /\ c.state = "W_ACK"
<1>1. /\ s \in Socks /\ ~Free(s) /\ c = cp[s] /\ r = owner[s] /\ r = f[p.rid]
      /\ PairOf(c, r) /\ c.rid = p.rid
  BY DEF ForPair
<1>2. IsAck(p, c.rid) /\ ReqPkts[r] > 1
  BY <1>1 DEF IsAck, Once, Replies, Acks
<1>3. c.state = "W_ACK"
  BY <1>1, <1>2 DEF PairOf
<1> QED BY <1>1, <1>3, KeptRan

(* handle_drop_msg finds the request open.                                 *)
LEMMA DropFinds ==
  ASSUME NEW f, Once(f), NEW p \in DOMAIN net, p.kind = "DROP",
         NEW s, NEW c, NEW r, ForPair(f, p, s, c, r)
  PROVE  Open(s) /\ Refused(f, c.rid)
<1>1. /\ s \in Socks /\ ~Free(s) /\ r = owner[s] /\ r = f[c.rid] /\ c.rid = p.rid
      /\ KnownPacket(f, p)
  BY DEF ForPair
<1>2. Refused(f, c.rid)
  BY <1>1 DEF Refused
<1>3. r \notin Ran
  BY <1>1, <1>2 DEF KnownPacket, Once, Stages, Exclusive
<1> QED BY <1>1, <1>2, <1>3, KeptRan

(* With the last packet the reply is whole.                                *)
HasReply(p, w, r) ==
  p.last => w.received = RespPkts[r] /\ w.reply = Payload(Body(r), RespPkts[r])

(* A packet of the reply that handle_response keeps.                       *)
LEMMA KeepsPacket ==
  ASSUME NEW f, Once(f), NEW p \in DOMAIN net, ToPair(p), ~BadPacket(cp[p.sock], p),
         NEW s, s = p.sock, NEW r, r = owner[s], NEW w, w = WithPacket(cp[s], p)
  PROVE  /\ s \in Socks /\ ~Free(s) /\ Open(s) /\ r \in Ran /\ w \in ClientPair
         /\ HasReply(p, w, r)
         /\ \A d \in ClientPair :
              (/\ d.rid = w.rid /\ d.state = w.state /\ d.received = w.received
               /\ d.expected = w.expected /\ d.reply = w.reply
               /\ cp' = [cp EXCEPT ![s] = d] /\ owner' = owner) => Replies(f)'
<1>1. PICK c : c = cp[s]
  OBVIOUS
<1>2. ToClient(p) /\ p.kind = "RESP" /\ Match(p) /\ net' = Taken(p) /\ UNCHANGED <<app, executed>>
  BY DEF ToPair, server
<1>3. ForPair(f, p, s, c, r)
  BY <1>1, <1>2, MatchFacts
<1>4. /\ Open(s) /\ c.state = "W_RESPONSE" /\ r \in Ran /\ RespPacket(p, r) /\ IsResp(p, c.rid)
  BY <1>2, <1>3, ReplyFinds
<1>5. s \in Socks /\ ~Free(s) /\ c \in ClientPair /\ c.rid = p.rid /\ r \in Reqs /\ PairOf(c, r)
  BY <1>3 DEF ForPair
<1>6. /\ w \in ClientPair /\ w.rid = c.rid /\ w.state = c.state
      /\ p.data[2] = c.received /\ w.received = c.received + 1 /\ w.expected = RespPkts[r]
      /\ w.received <= RespPkts[r] /\ w.reply = Payload(Body(r), w.received)
      /\ p.last => w.received = RespPkts[r]
  <2>1. ~BadPacket(c, p) /\ w = WithPacket(c, p)
    BY <1>1
  <2>2. Accepts(r, c, p, w)
    BY <1>4, <1>5, <2>1 DEF Accepts
  <2>3. Extended(r, c, p, w)
    BY <2>2, Accepted
  <2> QED BY <2>3 DEF Extended
<1>7. ASSUME NEW d \in ClientPair, d.rid = w.rid, d.state = w.state, d.received = w.received,
             d.expected = w.expected, d.reply = w.reply, cp' = [cp EXCEPT ![s] = d], owner' = owner
      PROVE  Replies(f)'
  <2>1. Whole(f) /\ Called /\ Replies(f)
    BY DEF Once, Calls
  <2>2. /\ cp[s].rid = p.rid /\ cp[s].state = "W_RESPONSE" /\ p.data[2] = cp[s].received
        /\ d.rid = p.rid /\ d.state = "W_RESPONSE" /\ d.received = cp[s].received + 1
    BY <1>1, <1>4, <1>5, <1>6, <1>7
  <2>3. d.received <= RespPkts[owner[s]] /\ d.expected = RespPkts[owner[s]]
        /\ d.reply = Payload(Body(owner[s]), d.received)
    BY <1>6, <1>7
  <2> QED BY <1>2, <1>5, <1>7, <2>1, <2>2, <2>3, PartReplies
<1>8. p.last => w.reply = Payload(Body(r), RespPkts[r])
  BY <1>6
<1>9. HasReply(p, w, r)
  BY <1>6, <1>8, ZenonT(60) DEF HasReply
<1>10. \A d \in ClientPair :
         (/\ d.rid = w.rid /\ d.state = w.state /\ d.received = w.received
          /\ d.expected = w.expected /\ d.reply = w.reply
          /\ cp' = [cp EXCEPT ![s] = d] /\ owner' = owner) => Replies(f)'
  BY <1>7
<1> QED BY <1>4, <1>5, <1>6, <1>9, <1>10

(* handle_response, and the requests of the other calls of r2p2_poll.      *)
LEMMA ClientRecvAllowed ==
  ASSUME NEW f, Once(f), NEW p \in DOMAIN net, ClientRecv(p)
  PROVE  Allowed(f)
<1>1. SingleFirst /\ KnownPacket(f, p) /\ Whole(f) /\ Called /\ Replies(f) /\ SingleAnswers /\ Calls
  BY DEF Once, Stages, Whole, NetKnown, Calls, Replies
<1>2. net' = Taken(p) => /\ SingleFirst' /\ NothingNew /\ SingleAnswers'
                         /\ \A m \in DOMAIN net' : m \in DOMAIN net
  BY <1>1, NetTakes, AnswersTaken DEF NothingNew
<1>3. PICK s, c, r : s = p.sock /\ c = cp[s] /\ r = owner[s]
  OBVIOUS
<1>4. ToClient(p) /\ Match(p) => ForPair(f, p, s, c, r)
  BY <1>3, MatchFacts
<1>5. ForPair(f, p, s, c, r) => s \in Socks /\ ~Free(s) /\ c.rid = p.rid
  BY DEF ForPair
<1>6. cp \in [Socks -> ClientPair]
  BY <1>1 DEF Replies, Pairs
<1>7. CASE RecvUnmatched(p)
  <2>1. /\ UNCHANGED <<issued, rid, owner, cp, crashed, pending, app, outcome, executed>>
        /\ net' = Taken(p)
    BY <1>7 DEF RecvUnmatched, client, server
  <2>2. Replies(f)' /\ Calls'
    BY <1>1, <1>2, <1>6, <2>1, QuietReplies, QuietCalls
  <2> QED BY <1>2, <2>1, <2>2, QuietAllowed
<1>8. ~AckAssert(p)
  BY <1>3, <1>4, AckFinds DEF AckAssert
<1>9. ~ResponseAssert(p)
  <2> SUFFICES ASSUME ResponseAssert(p) PROVE FALSE
    OBVIOUS
  <2>1. p.kind = "RESP" /\ ToClient(p) /\ Match(p) /\ c.state # "W_RESPONSE"
    BY <1>3 DEF ResponseAssert, ToPair
  <2> QED BY <1>4, <2>1, ReplyFinds
<1>10. CASE ResponsePart(p)
  <2>1. PICK w : w = WithPacket(cp[s], p)
    OBVIOUS
  <2>2. /\ UNCHANGED <<issued, rid, owner, crashed, pending, app, outcome, executed>> /\ ToPair(p)
        /\ ~BadPacket(cp[p.sock], p) /\ cp' = [cp EXCEPT ![s] = w] /\ net' = Taken(p)
    BY <1>3, <1>10, <2>1 DEF ResponsePart, ToPair, server
  <2>3. s \in Socks /\ Open(s) /\ Replies(f)'
    BY <1>3, <2>1, <2>2, KeepsPacket
  <2>4. Calls'
    BY <1>1, <1>6, <2>2, <2>3, QuietCalls
  <2> QED BY <1>2, <2>2, <2>3, <2>4, QuietAllowed
<1>11. CASE RecvAck(p)
  <2>1. PICK X : /\ UNCHANGED <<issued, rid, owner, crashed, pending, app, outcome, executed>>
                 /\ net' = Put(X, Taken(p)) /\ p.kind = "ACK" /\ ToClient(p) /\ Match(p)
                 /\ cp' = [cp EXCEPT ![s].state = "W_RESPONSE"]
                 /\ X = {q \in Message("REQ", p.at, p.sock, p.rid, ReqPkts[owner[p.sock]],
                                       <<owner[p.sock]>>) : ~q.first}
    BY <1>3, <1>11 DEF RecvAck, server
  <2>2. \A m \in X : IsRest(m, p.rid) /\ ~First(m) /\ m.kind # "DROP"
    BY ONLY <2>1, SMTT(30) DEF Message, Packet, First, IsRest
  <2>3. SingleFirst' /\ \A m \in DOMAIN net' : m \in DOMAIN net \cup X
    BY <1>1, <2>1, <2>2, NetAnswers
  <2>4. NothingNew
    BY <2>2, <2>3 DEF NothingNew
  <2>5. s \in Socks /\ ~Free(s) /\ cp[s].rid = p.rid /\ Open(s)
    BY <1>3, <1>4, <1>5, <2>1, AckFinds
  <2>6. Replies(f)'
    BY <1>1, <2>1, <2>2, <2>5, AckReplies
  <2>7. Calls'
    BY <1>1, <1>6, <2>1, <2>5, QuietCalls
  <2> QED BY <2>1, <2>3, <2>4, <2>6, <2>7, QuietAllowed
<1>12. CASE RecvDrop(p)
  <2>1. /\ Callback(s, "dropped", <<>>) /\ net' = Taken(p) /\ FreePair(s) /\ ToClient(p) /\ Match(p)
        /\ UNCHANGED <<issued, rid, crashed, pending, app, executed>> /\ p.kind = "DROP"
    BY <1>3, <1>12 DEF RecvDrop, server
  <2>2. s \in Socks /\ ~Free(s) /\ Open(s) /\ Refused(f, cp[s].rid)
    BY <1>3, <1>4, <1>5, <2>1, DropFinds
  <2> QED BY <1>2, <2>1, <2>2, ConcludeAllowed
<1>13. CASE ResponseBad(p)
  <2>1. /\ Callback(s, "error", <<>>) /\ net' = Taken(p) /\ FreePair(s) /\ ToClient(p) /\ Match(p)
        /\ UNCHANGED <<issued, rid, crashed, pending, app, executed>> /\ p.kind = "RESP"
    BY <1>3, <1>13 DEF ResponseBad, ToPair, server
  <2>2. s \in Socks /\ ~Free(s) /\ Open(s)
    BY <1>3, <1>4, <1>5, <2>1, ReplyFinds
  <2> QED BY <1>2, <2>1, <2>2, ConcludeAllowed
<1>14. CASE ResponseFull(p)
  <2>1. PICK w, reply : w = WithPacket(cp[s], p) /\ reply = w.reply
    OBVIOUS
  <2>2. /\ Callback(s, "success", reply) /\ net' = Taken(p) /\ ToPair(p) /\ p.last
        /\ ~BadPacket(cp[p.sock], p) /\ UNCHANGED <<issued, rid, crashed, pending, app, executed>>
    BY <1>3, <1>14, <2>1 DEF ResponseFull, ToPair, server
  <2>d. \/ FreePair(s)
        \/ /\ \E late \in BOOLEAN : cp' = [cp EXCEPT ![s] = [w EXCEPT !.event = late]]
           /\ owner' = owner /\ r \in Kept
    BY <1>3, <1>14, <2>1 DEF ResponseFull
  <2>3. /\ s \in Socks /\ ~Free(s) /\ Open(s) /\ r \in Ran /\ w \in ClientPair
        /\ w.received = RespPkts[r] /\ reply = Payload(Body(r), RespPkts[r])
    <3>1. w = WithPacket(cp[s], p)
      BY <2>1
    <3>2. /\ s \in Socks /\ ~Free(s) /\ Open(s) /\ r \in Ran /\ w \in ClientPair
          /\ w.received = RespPkts[r] /\ w.reply = Payload(Body(r), RespPkts[r])
      <4>1. s \in Socks /\ ~Free(s) /\ Open(s) /\ r \in Ran /\ w \in ClientPair /\ HasReply(p, w, r)
        BY <1>3, <2>2, <3>1, KeepsPacket
      <4> QED BY <2>2, <4>1 DEF HasReply
    <3> QED BY <2>1, <3>2
  <2>4. CASE FreePair(s)
    BY <1>2, <1>3, <2>2, <2>3, <2>4, ConcludeAllowed
  <2>5. ASSUME NEW late \in BOOLEAN, NEW d, d = [w EXCEPT !.event = late],
               cp' = [cp EXCEPT ![s] = d], owner' = owner, r \in Kept
        PROVE  Allowed(f)
    <3>1. /\ d \in ClientPair /\ d.rid = w.rid /\ d.state = w.state /\ d.received = w.received
          /\ d.expected = w.expected /\ d.reply = w.reply
      BY <2>3, <2>5 DEF ClientPair
    <3>2. Replies(f)'
      <4>1. w = WithPacket(cp[s], p)
        BY <2>1
      <4>2. cp' = [cp EXCEPT ![s] = d] /\ owner' = owner
        BY <2>5
      <4> QED BY <1>3, <2>2, <3>1, <4>1, <4>2, KeepsPacket
    <3>3. cp'[s] = d /\ owner'[s] = r /\ \A t \in Socks : t # s => cp'[t] = cp[t]
      BY <1>3, <1>6, <2>3, <2>5
    <3>4. cp'[s].received = RespPkts[owner[s]]
      BY <1>3, <2>3, <3>1, <3>3
    <3>5. Calls'
      BY <1>1, <1>3, <2>2, <2>3, <2>5, <3>3, <3>4, CallbackCalls
    <3> QED BY <1>2, <1>3, <2>2, <2>3, <3>2, <3>5, CallbackAllowed
  <2> QED BY <2>d, <2>4, <2>5
<1> QED BY <1>7, <1>8, <1>9, <1>10, <1>11, <1>12, <1>13, <1>14 DEF ClientRecv

-----------------------------------------------------------------------------
(* Every step.                                                             *)

(* Every step keeps the requests whole.                                    *)
LEMMA NextWhole ==
  ASSUME NReq < RidSpace, \E f : Whole(f), [Next]_vars
  PROVE  (\E f : Whole(f))'
<1>1. PICK f : Whole(f)
  OBVIOUS
<1>2. CASE SendReq
  BY <1>1, <1>2, SendReqWhole
<1>3. CASE NoSocket
  BY <1>1, <1>3, NoSocketWhole
<1>4. ASSUME NEW s \in Socks, TimerFires(s) \/ RecvRespDone(s) PROVE Whole(f)'
  <2>1. UNCHANGED <<issued, rid, pending, app, executed, net>> /\ FreePair(s)
    BY <1>4 DEF TimerFires, RecvRespDone, server
  <2> QED BY <1>1, <2>1, FreeFacts, ClientTakes DEF Whole
<1>5. ASSUME NEW p \in DOMAIN net, Duplicate(p) PROVE Whole(f)'
  <2>1. net' = Put({p}, net) /\ UNCHANGED <<issued, rid, owner, cp, pending, app, executed>>
    BY <1>5 DEF Duplicate, client, server
  <2>2. DOMAIN net' \subseteq DOMAIN net
    BY ONLY <2>1, PutDomain, SMT
  <2> QED BY <1>1, <2>1, <2>2, ClientTakes DEF Whole, Typed
<1>6. CASE UNCHANGED vars
  BY <1>1, <1>6, ClientTakes DEF Whole, Typed, vars, client, server
<1> QED BY <1>1, <1>2, <1>3, <1>4, <1>5, <1>6, ClientRecvWhole, ServerRecvWhole,
           SendResponseWhole
           DEF Next

(* handle_request gives the application whole requests, however the packets *)
(* are lost, reordered or duplicated, as long as request ids do not wrap.  *)
THEOREM WholeRequests == NReq < RidSpace /\ Spec => []RequestIntegrity
<1> SUFFICES ASSUME NReq < RidSpace PROVE Spec => []RequestIntegrity
  OBVIOUS
<1> DEFINE Inv == \E f : Whole(f)
<1>1. Init => Inv
  BY InitWhole
<1>2. Inv /\ [Next]_vars => Inv'
  BY NextWhole
<1>3. Inv => RequestIntegrity
  BY DEF Whole
<1> QED BY <1>1, <1>2, <1>3, PTL DEF Spec

(* error_cb(-ERR_NO_SOCKET).                                               *)
LEMMA FailsAtOnce ==
  ASSUME Called, issued < NReq, issued' = issued + 1, UNCHANGED executed,
         Reports(issued + 1, "error")
  PROVE  Contract!Next
<1>1. PICK r : r = issued + 1
  OBVIOUS
<1>2. issued \in Nat /\ r \in Reqs /\ ~(r <= issued)
  BY <1>1, R2P2Assumption, SMT DEF Called, Reqs
<1>3. Ran' = Ran
  BY DEF Ran
<1>4. /\ [q \in Reqs |-> Status(q)]' = [[q \in Reqs |-> Status(q)] EXCEPT ![r] = "error"]
      /\ Status(r) = "new"
  BY <1>1, <1>2, ReportStatus
<1>5. Contract!Fail(r)
  BY <1>2, <1>3, <1>4 DEF Contract!Fail
<1> QED BY <1>2, <1>5 DEF Contract!Next

(* Every step keeps the invariant and the contract.                        *)
LEMMA NextOnce ==
  ASSUME NReq < RidSpace, MaxDup = 0, NEW f, Once(f), dups = 0, [Next]_vars
  PROVE  (\E g : Once(g)') /\ dups' = 0 /\ (Contract!Next \/ UNCHANGED Contract!vars)
<1>1. /\ Whole(f) /\ Calls /\ Called /\ Stages(f) /\ Replies(f) /\ DOMAIN cp = Socks
      /\ cp \in [Socks -> ClientPair] /\ SingleAnswers
  BY DEF Once, Calls, Whole, Typed, Replies, Pairs
<1>2. \A p : ~Duplicate(p)
  BY SMT DEF Duplicate
<1>3. dups' = 0
  <2>1. CASE SendReq \/ NoSocket
    BY <2>1 DEF SendReq, NoSocket
  <2>2. ASSUME NEW s \in Socks, TimerFires(s) \/ RecvRespDone(s) PROVE dups' = dups
    BY <2>2 DEF TimerFires, RecvRespDone
  <2>3. ASSUME NEW p \in DOMAIN net, ClientRecv(p) PROVE dups' = dups
    BY <2>3 DEF ClientRecv, RecvUnmatched, RecvAck, AckAssert, RecvDrop, ResponseAssert,
       ResponseBad, ResponsePart, ResponseFull, ToPair
  <2>4. ASSUME NEW v \in Servers, NEW p \in DOMAIN net, ServerRecv(v, p) PROVE dups' = dups
    BY <2>4 DEF ServerRecv, RequestDropped, RequestSingle, RequestFirst, RequestUnmatched,
       RequestRest
  <2>5. ASSUME NEW v \in Servers, NEW k, SendResponse(v, k) PROVE dups' = dups
    BY <2>5 DEF SendResponse
  <2>6. CASE UNCHANGED vars
    BY <2>6 DEF vars
  <2> QED BY <1>2, <2>1, <2>2, <2>3, <2>4, <2>5, <2>6 DEF Next
<1>q. net' = net => SingleFirst' /\ NothingNew /\ SingleAnswers'
  BY ONLY <1>1, SMTT(30) DEF Stages, SingleFirst, NothingNew, SingleAnswers
<1>4. CASE SendReq
  <2>1. PICK id : id = rid + 1
    OBVIOUS
  <2>2. rid' = id /\ \E g : Whole(g)' /\ g[id] = issued + 1 /\ \A i \in 1 .. rid : g[i] = f[i]
    BY <1>1, <1>4, <2>1, SendReqWhole
  <2>3. PICK g : Whole(g)' /\ g[id] = issued + 1 /\ \A i \in 1 .. rid : g[i] = f[i]
    BY <2>2
  <2>4. Stages(g)'
    BY <1>1, <1>4, <2>1, <2>2, <2>3, SendStages
  <2>5. issued < NReq /\ issued' = issued + 1 /\ UNCHANGED <<outcome, executed>>
    BY <1>4 DEF SendReq, server
  <2>6. Contract!Next
    BY <1>1, <2>5, Issues
  <2>7. Replies(g)'
    BY <1>1, <1>4, <2>1, <2>2, <2>3, SendReplies
  <2>8. Calls'
    BY <1>1, <1>4, SendCalls
  <2> QED BY <1>3, <2>3, <2>4, <2>6, <2>7, <2>8 DEF Once
<1>5. CASE NoSocket
  <2>1. PICK r : r = issued + 1
    OBVIOUS
  <2>2. /\ issued' = r /\ issued < NReq
        /\ UNCHANGED <<rid, owner, cp, pending, app, executed, net>>
        /\ outcome' = [outcome EXCEPT ![r] = Append(@, [kind |-> "error", reply |-> <<>>])]
    BY <1>5, <2>1 DEF NoSocket, server
  <2>3. r \in Reqs /\ outcome[r] = <<>> /\ issued \in Nat
    BY ONLY <1>1, <2>1, <2>2, R2P2Assumption, SMTT(30) DEF Called, FutureOpen, Reqs
  <2>4. Reports(r, "error")
    BY <1>1, <2>2, <2>3, CallbackReports
  <2>5. Contract!Next
    BY <1>1, <2>1, <2>2, <2>4, FailsAtOnce
  <2>6. Stages(f)'
    BY <1>1, <1>q, <2>2, <2>3, <2>4, ReportStages DEF Whole
  <2>7. Whole(f)'
    BY <1>1, <1>5, NoSocketWhole
  <2>8. Replies(f)' /\ Calls'
    BY <1>1, <1>5, <1>q, <2>2, QuietReplies, NoSocketCalls
  <2> QED BY <1>3, <2>5, <2>6, <2>7, <2>8 DEF Once
<1>6. ASSUME NEW s \in Socks, TimerFires(s) PROVE Whole(f)' /\ Allowed(f)
  <2>1. /\ UNCHANGED <<issued, rid, crashed, pending, app, executed, net>> /\ FreePair(s)
        /\ ~Free(s) /\ Callback(s, "timeout", <<>>)
    BY <1>6 DEF TimerFires, server
  <2>2. Whole(f)'
    BY <2>1, FreeFacts, ClientTakes DEF Once, Whole
  <2>3. CASE Open(s)
    BY <1>q, <2>1, <2>2, <2>3, ConcludeAllowed
  <2>4. CASE ~Open(s)
    BY <1>q, <2>1, <2>2, <2>4, LateAllowed
  <2> QED BY <2>3, <2>4
<1>7. ASSUME NEW s \in Socks, RecvRespDone(s) PROVE Whole(f)' /\ Allowed(f)
  <2>1. UNCHANGED <<issued, rid, crashed, pending, app, executed, net, outcome>> /\ FreePair(s)
    BY <1>7 DEF RecvRespDone, server
  <2>2. Whole(f)'
    BY <2>1, FreeFacts, ClientTakes DEF Once, Whole
  <2>3. /\ cp' \in [Socks -> ClientPair]
        /\ \A t \in Socks : owner'[t] # 0 => owner'[t] = owner[t] /\ cp'[t] = cp[t]
    BY <2>1, FreedPairs
  <2>4. Replies(f)' /\ Calls'
    BY <1>1, <1>q, <2>1, <2>3, QuietReplies, FreeCalls
  <2>5. Allowed(f)
    BY <1>q, <2>1, <2>4, QuietAllowed
  <2> QED BY <2>2, <2>5
<1>8. ASSUME NEW p \in DOMAIN net, ClientRecv(p) PROVE Whole(f)' /\ Allowed(f)
  BY <1>8, ClientRecvWhole, ClientRecvAllowed DEF Once
<1>9. ASSUME NEW v \in Servers, NEW p \in DOMAIN net, ServerRecv(v, p) PROVE Whole(f)' /\ Allowed(f)
  BY <1>9, ServerRecvWhole, ServerRecvAllowed DEF Once
<1>10. ASSUME NEW v \in Servers, NEW k \in 1 .. Len(app[v]), SendResponse(v, k)
       PROVE  Whole(f)' /\ Allowed(f)
  BY <1>10, SendResponseWhole, SendResponseAllowed DEF Once
<1>11. CASE UNCHANGED vars
  <2>1. UNCHANGED <<issued, rid, owner, cp, crashed, pending, app, executed, net, outcome>>
    BY <1>11 DEF vars, client, server
  <2>2. Whole(f)'
    BY <2>1, ClientTakes DEF Once, Whole, Typed
  <2>3. Replies(f)' /\ Calls'
    BY <1>1, <1>q, <2>1, QuietReplies, QuietCalls
  <2>4. Allowed(f)
    BY <1>q, <2>1, <2>3, QuietAllowed
  <2> QED BY <1>3, <2>2, <2>4 DEF Once, Allowed
<1>12. Whole(f)' /\ Allowed(f) => (\E g : Once(g)') /\ (Contract!Next \/ UNCHANGED Contract!vars)
  BY DEF Once, Allowed
<1> QED BY <1>2, <1>3, <1>4, <1>5, <1>6, <1>7, <1>8, <1>9, <1>10, <1>11, <1>12 DEF Next

(* What always holds of the protocol then.                                 *)
Sound == (\E f : Once(f)) /\ dups = 0

(* Every step keeps it, and is one of RPC or none.                         *)
LEMMA SoundStep ==
  ASSUME NReq < RidSpace, MaxDup = 0, Sound, [Next]_vars
  PROVE  Sound' /\ [Contract!Next]_(Contract!vars)
  BY NextOnce DEF Sound

(* It holds of every state.                                                *)
LEMMA StaysSound == NReq < RidSpace /\ MaxDup = 0 /\ Spec => []Sound
<1> SUFFICES ASSUME NReq < RidSpace, MaxDup = 0 PROVE Spec => []Sound
  OBVIOUS
<1>1. Init => Sound
  BY InitOnce DEF Sound
<1>2. Sound /\ [Next]_vars => Sound'
  BY SoundStep
<1> QED BY <1>1, <1>2, PTL DEF Spec

(* On a network that does not duplicate packets, as long as request ids do *)
(* not wrap, the protocol implements RPC, whether the application calls    *)
(* r2p2_recv_resp_done in success_cb or later.                             *)
THEOREM ImplementsRPC == NReq < RidSpace /\ MaxDup = 0 /\ Spec => KeepsContract
<1> SUFFICES ASSUME NReq < RidSpace, MaxDup = 0 PROVE Spec => KeepsContract
  OBVIOUS
<1>1. Spec => []Sound
  BY StaysSound
<1>2. Sound /\ [Next]_vars => [Contract!Next]_(Contract!vars)
  BY SoundStep
<1>3. Init => Contract!Init
  <2> SUFFICES ASSUME Init PROVE Contract!Init
    OBVIOUS
  <2>1. Ran = {}
    BY SMT DEF Ran, Init
  <2>2. \A r \in Reqs : Status(r) = "new"
    BY R2P2Assumption, SMT DEF Status, Init, Reqs
  <2> QED BY <2>1, <2>2 DEF Contract!Init
<1> QED BY <1>1, <1>2, <1>3, PTL DEF Spec, KeepsContract, Contract!Spec

(* Under the same conditions no request is handed to the application       *)
(* twice.                                                                  *)
THEOREM RunsAtMostOnce == NReq < RidSpace /\ MaxDup = 0 /\ Spec => []AtMostOnce
<1>1. Sound => AtMostOnce
  BY DEF Sound, Once, Stages
<1> QED BY <1>1, StaysSound, PTL

(* Under the same conditions success_cb gets the reply to its own request, *)
(* whole and in order, though replies to requests that timed out come late *)
(* to a socket that was taken again.                                       *)
THEOREM WholeReplies == NReq < RidSpace /\ MaxDup = 0 /\ Spec => []ReplyIntegrity
<1>1. Sound => ReplyIntegrity
  BY DEF Sound, Once, Calls
<1> QED BY <1>1, StaysSound, PTL

(* Under the same conditions no assert on the state of a pair fails in     *)
(* handle_response: an ACK finds its pair waiting for an ACK, a reply one  *)
(* that waits for a reply.                                                 *)
THEOREM AssertsHold == NReq < RidSpace /\ MaxDup = 0 /\ Spec => []NoAssertFailure
<1>1. Sound => NoAssertFailure
  BY DEF Sound, Once, Calls, NoAssertFailure
<1> QED BY <1>1, StaysSound, PTL

(* Under the same conditions a request whose pair the application keeps    *)
(* after success_cb gets one callback, or success_cb and then timeout_cb:  *)
(* no packet that is still to come concludes it again, and no timer does   *)
(* so twice.                                                               *)
THEOREM KeptReported == NReq < RidSpace /\ MaxDup = 0 /\ Spec => []KeptOutcome
<1>1. Sound => KeptOutcome
  BY DEF Sound, Once, Calls
<1> QED BY <1>1, StaysSound, PTL
=============================================================================
