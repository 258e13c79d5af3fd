------------------------- MODULE RouterBasic_proofs -------------------------
(***************************************************************************)
(* Proofs about RouterBasic, for every number of workers and every amount  *)
(* of traffic: the counters of JSQ are exact, its stack of idle targets    *)
(* never goes stale, a scan joins the shortest queue it read, and round    *)
(* robin rotates.                                                          *)
(***************************************************************************)
EXTENDS RouterBasic, SequenceTheorems, TLAPS

(* app_init and app_main establish the invariant. *)
LEMMA InitIInv == Init => IInv
  BY BasicAssumption
     DEF Init, IInv, TypeOK, CountersOK, ScanOK, BacklogExact, OnlyJsq, StackBacklog,
     StackDistinct, Backlog, Outstanding, Unearned, Zero, NoFlow, Flows, Direct,
     Workers, NoMin, NoTarget

(* One more at w leaves a table of naturals. *)
LEMMA Increment ==
  ASSUME NEW D, NEW f \in [D -> Nat], NEW w
  PROVE  /\ [f EXCEPT ![w] = @ + 1] \in [D -> Nat]
         /\ \A v \in D :
              [f EXCEPT ![w] = @ + 1][v] = f[v] + (IF v = w THEN 1 ELSE 0)
<1> DEFINE g == [f EXCEPT ![w] = @ + 1]
<1>1. ASSUME NEW v \in D PROVE f[v] \in Nat
  OBVIOUS
<1>2. ASSUME NEW v \in D PROVE g[v] = IF v = w THEN f[v] + 1 ELSE f[v]
  OBVIOUS
<1>3. DOMAIN g = D /\ g = [v \in DOMAIN g |-> g[v]]
  BY Zenon
<1>4. ASSUME NEW v \in D
      PROVE  g[v] \in Nat /\ g[v] = f[v] + (IF v = w THEN 1 ELSE 0)
  <2> HIDE DEF g
  <2> QED BY <1>1, <1>2
<1> HIDE DEF g
<1>5. g \in [D -> Nat]
  BY <1>3, <1>4
<1>6. \A v \in D : g[v] = f[v] + (IF v = w THEN 1 ELSE 0)
  BY <1>4
<1> QED BY <1>5, <1>6 DEF g

(* The same for one less, when there is one. *)
LEMMA Decrement ==
  ASSUME NEW D, NEW f \in [D -> Nat], NEW w \in D, f[w] > 0
  PROVE  /\ [f EXCEPT ![w] = @ - 1] \in [D -> Nat]
         /\ \A v \in D :
              [f EXCEPT ![w] = @ - 1][v] = f[v] - (IF v = w THEN 1 ELSE 0)
<1> DEFINE g == [f EXCEPT ![w] = @ - 1]
<1>1. ASSUME NEW v \in D PROVE f[v] \in Nat
  OBVIOUS
<1>2. ASSUME NEW v \in D PROVE g[v] = IF v = w THEN f[v] - 1 ELSE f[v]
  OBVIOUS
<1>3. DOMAIN g = D /\ g = [v \in DOMAIN g |-> g[v]]
  BY Zenon
<1>4. ASSUME NEW v \in D
      PROVE  g[v] \in Nat /\ g[v] = f[v] - (IF v = w THEN 1 ELSE 0)
  <2> HIDE DEF g
  <2> QED BY <1>1, <1>2
<1> HIDE DEF g
<1>5. g \in [D -> Nat]
  BY <1>3, <1>4
<1>6. \A v \in D : g[v] = f[v] - (IF v = w THEN 1 ELSE 0)
  BY <1>4
<1> QED BY <1>5, <1>6 DEF g

(* The flow of the FIXED_ROUTE requests is none of the targets'.           *)
LEMMA FlowFacts ==
  /\ Direct \in Flows /\ Direct \notin Workers
  /\ \A w \in Workers : w \in Flows /\ w # Direct
  /\ \A f \in Flows : Target(f) \in Workers
<1>1. WorkerCount \in Nat /\ WorkerCount # 0
  BY BasicAssumption
<1>2. WorkerCount \notin Workers /\ 0 \in Workers
  BY <1>1 DEF Workers
<1> QED BY <1>2, Zenon DEF Direct, Flows, Target

(* The accounts of a flow are numbers.                                     *)
LEMMA Accounts ==
  ASSUME CountersOK
  PROVE  /\ \A f \in Flows : Outstanding(f) \in Nat
         /\ \A w \in Workers : Unearned(w) \in Int /\ Backlog(w) \in Int
<1>1. \A f \in Flows : Outstanding(f) \in Nat
  BY DEF CountersOK, Outstanding
<1>2. Outstanding(Direct) \in Nat /\ fixed \in Nat
  BY <1>1, FlowFacts DEF CountersOK
<1>3. \A w \in Workers : Unearned(w) \in Int
  BY <1>2 DEF Unearned
<1>4. \A w \in Workers : Backlog(w) \in Int
  BY DEF CountersOK, Backlog
<1> QED BY <1>1, <1>3, <1>4

(* Removing the top of the stack leaves the other entries as they were. *)
LEMMA PoppedStack ==
  ASSUME NEW s \in Seq(Workers), s # <<>>
  PROVE  LET t == SubSeq(s, 1, Len(s) - 1) IN
         /\ t \in Seq(Workers)
         /\ Len(t) = Len(s) - 1
         /\ \A k \in 1 .. Len(t) : t[k] = s[k] /\ k \in 1 .. Len(s) /\ k # Len(s)
         /\ Len(s) \in 1 .. Len(s)
         /\ s[Len(s)] \in Workers
<1>1. Len(s) \in Nat \ {0}
  OBVIOUS
<1>2. s[Len(s)] \in Workers
  BY <1>1
<1> DEFINE t == SubSeq(s, 1, Len(s) - 1)
<1> DEFINE n == Len(s) - 1
<1>a. /\ n \in Nat
      /\ \A k \in 1 .. n : s[k] \in Workers
  BY <1>1
<1> HIDE DEF n
<1>b. /\ SubSeq(s, 1, n) \in Seq(Workers)
      /\ Len(SubSeq(s, 1, n)) = IF 1 <= n THEN n - 1 + 1 ELSE 0
      /\ \A k \in 1 .. n - 1 + 1 : SubSeq(s, 1, n)[k] = s[1 + k - 1]
  BY <1>a, SubSeqProperties
<1>c. t \in Seq(Workers) /\ Len(t) = n /\ \A k \in 1 .. n : t[k] = s[k]
  <2>1. t = SubSeq(s, 1, n)
    BY DEF n
  <2> HIDE DEF t
  <2>2. \A k \in 1 .. n : t[k] = s[1 + k - 1] /\ 1 + k - 1 = k
    BY <1>a, <1>b, <2>1
  <2> QED BY <1>a, <1>b, <2>1, <2>2
<1> HIDE DEF t
<1>3. t \in Seq(Workers) /\ Len(t) = Len(s) - 1
  BY <1>c DEF n
<1>4. \A k \in 1 .. Len(s) - 1 : t[k] = s[k]
  BY <1>c DEF n
<1>5. \A k \in 1 .. Len(t) : t[k] = s[k] /\ k \in 1 .. Len(s) /\ k # Len(s)
  BY <1>1, <1>3, <1>4
<1>6. Len(s) \in 1 .. Len(s)
  BY <1>1
<1> QED BY <1>2, <1>3, <1>5, <1>6 DEF t

(* send_to_worker keeps the types of the counters. *)
LEMMA SendToCounters ==
  ASSUME CountersOK, NEW w, SendTo(w), UNCHANGED <<tokens, fixed>>,
         sent' \in [Workers -> Nat]
  PROVE  CountersOK'
<1>1. held \in [Flows -> Nat] /\ held' = [held EXCEPT ![w] = @ + 1]
  BY DEF CountersOK, SendTo
<1>2. held' \in [Flows -> Nat]
  BY <1>1, Increment
<1>3. arrived' \in Nat
  BY DEF CountersOK, SendTo
<1> QED BY <1>2, <1>3 DEF CountersOK, SendTo

(* A request of flow w is outstanding from the moment it is sent.          *)
LEMMA Started ==
  ASSUME CountersOK, NEW w, held' = [held EXCEPT ![w] = @ + 1],
         UNCHANGED <<feedback, vanished>>
  PROVE  \A f \in Flows : Outstanding(f)' = Outstanding(f) + (IF f = w THEN 1 ELSE 0)
<1> SUFFICES ASSUME NEW f \in Flows
             PROVE  held'[f] + feedback[f] + vanished[f]
                    = held[f] + feedback[f] + vanished[f] + (IF f = w THEN 1 ELSE 0)
  BY DEF Outstanding
<1>1. held'[f] = held[f] + (IF f = w THEN 1 ELSE 0)
  BY Increment DEF CountersOK
<1>2. held[f] \in Nat /\ feedback[f] \in Nat /\ vanished[f] \in Nat
  BY DEF CountersOK
<1> QED BY <1>1, <1>2

(* A request sent to target w and charged to it keeps the counters exact. *)
LEMMA Charged ==
  ASSUME CountersOK, BacklogExact, NEW w, w \notin {Direct},
         sent' = [sent EXCEPT ![w] = @ + 1],
         held' = [held EXCEPT ![w] = @ + 1],
         UNCHANGED <<policy, tokens, feedback, vanished, fixed>>
  PROVE  BacklogExact'
<1> SUFFICES ASSUME policy = "JSQ", NEW v \in Workers
             PROVE  Backlog(v)' + Unearned(v)' = Outstanding(v)'
  BY DEF BacklogExact
<1>1. Backlog(v) + Unearned(v) = Outstanding(v)
  BY DEF BacklogExact
<1>2. Outstanding(v)' = Outstanding(v) + (IF v = w THEN 1 ELSE 0)
  BY FlowFacts, Started
<1>3. Unearned(v)' = Unearned(v)
  <2>1. Outstanding(Direct)' = Outstanding(Direct) + 0
    BY FlowFacts, Started
  <2>2. Outstanding(Direct)' = Outstanding(Direct)
    BY <2>1, Accounts, FlowFacts
  <2> QED BY <2>2 DEF Unearned
<1>4. Backlog(v)' = Backlog(v) + (IF v = w THEN 1 ELSE 0)
  <2>1. sent'[v] = sent[v] + (IF v = w THEN 1 ELSE 0)
    BY Increment DEF CountersOK
  <2>2. sent[v] \in Nat /\ tokens[v] \in Nat
    BY DEF CountersOK
  <2> QED BY <2>1, <2>2 DEF Backlog
<1>5. Backlog(v) \in Int /\ Unearned(v) \in Int /\ Outstanding(v) \in Int
  BY Accounts, FlowFacts
<1> QED BY <1>1, <1>2, <1>3, <1>4, <1>5

(* Handing out the top of the stack, from an old scan or a fresh one,      *)
(* keeps the invariant: the target is charged and leaves the stack, where  *)
(* it was only once.                                                       *)
LEMMA PopStep ==
  ASSUME IInv, PopIdle, policy = "JSQ", UNCHANGED <<policy, tokens, curr_idx>>,
         UNCHANGED <<i, min, min_idx, seen, fixed>>,
         pc' = "poll"
  PROVE  IInv'
<1> DEFINE w == jsq_idle[Len(jsq_idle)]
<1>0. TypeOK /\ BacklogExact /\ OnlyJsq /\ StackBacklog /\ StackDistinct
  BY DEF IInv
<1>1. /\ jsq_idle \in Seq(Workers) /\ jsq_idle # <<>>
      /\ jsq_idle' = SubSeq(jsq_idle, 1, Len(jsq_idle) - 1)
      /\ sent' = [sent EXCEPT ![w] = @ + 1]
      /\ held' = [held EXCEPT ![w] = @ + 1]
      /\ last' = w /\ arrived' = arrived + 1
      /\ UNCHANGED <<feedback, vanished>>
  BY <1>0 DEF TypeOK, PopIdle, SendTo
<1>2. /\ jsq_idle' \in Seq(Workers)
      /\ Len(jsq_idle') = Len(jsq_idle) - 1
      /\ \A k \in 1 .. Len(jsq_idle') :
           jsq_idle'[k] = jsq_idle[k] /\ k \in 1 .. Len(jsq_idle) /\ k # Len(jsq_idle)
      /\ Len(jsq_idle) \in 1 .. Len(jsq_idle)
      /\ w \in Workers
  BY <1>1, PoppedStack
<1> HIDE DEF w
<1>3. TypeOK'
  <2>0. sent' \in [Workers -> Nat] /\ SendTo(w)
    <3>1. sent \in [Workers -> Nat]
      BY <1>0 DEF TypeOK, CountersOK
    <3> QED BY <1>1, <3>1, Increment DEF SendTo
  <2>1. CountersOK'
    BY <1>0, <2>0, SendToCounters DEF TypeOK
  <2>2. ScanOK'
    BY <1>0 DEF TypeOK, ScanOK
  <2> QED BY <1>0, <1>1, <1>2, <2>1, <2>2 DEF TypeOK
<1>4. BacklogExact'
  <2>1. w \notin {Direct}
    BY <1>2, FlowFacts
  <2> QED BY <1>0, <1>1, <2>1, Charged DEF TypeOK
<1>5. OnlyJsq'
  BY DEF OnlyJsq
<1>6. StackBacklog'
  <2> SUFFICES ASSUME NEW k \in 1 .. Len(jsq_idle')
               PROVE  (sent'[jsq_idle'[k]] - tokens'[jsq_idle'[k]]) <= 0
    BY DEF StackBacklog, Backlog
  <2>1. jsq_idle'[k] # w
    BY <1>0, <1>2 DEF StackDistinct, w
  <2>2. sent'[jsq_idle'[k]] = sent[jsq_idle[k]]
    <3>1. sent \in [Workers -> Nat] /\ jsq_idle'[k] \in Workers /\ jsq_idle'[k] = jsq_idle[k]
      <4>1. sent \in [Workers -> Nat]
        BY <1>0 DEF TypeOK, CountersOK
      <4>2. jsq_idle'[k] \in Workers
        BY <1>2
      <4> QED BY <1>2, <4>1, <4>2
    <3> QED BY <1>1, <2>1, <3>1
  <2> QED BY <1>0, <1>2, <2>2 DEF StackBacklog, Backlog
<1>7. StackDistinct'
  BY <1>0, <1>2 DEF StackDistinct
<1> QED BY <1>3, <1>4, <1>5, <1>6, <1>7 DEF IInv

(* Sending to the target with the least backlog seen: the stack is empty.  *)
LEMMA SendMinStep ==
  ASSUME IInv, SendMin, policy = "JSQ", UNCHANGED <<policy, tokens, curr_idx>>,
         UNCHANGED <<i, min, min_idx, seen, fixed>>,
         pc' = "poll"
  PROVE  IInv'
<1>0. TypeOK /\ BacklogExact
  BY DEF IInv
<1>1. jsq_idle = <<>> /\ jsq_idle' = <<>>
  BY DEF SendMin
<1>2. TypeOK'
  <2>0. sent' \in [Workers -> Nat] /\ SendTo(min_idx)
    <3>1. sent \in [Workers -> Nat]
      BY <1>0 DEF TypeOK, CountersOK
    <3> QED BY <3>1, Increment DEF SendMin
  <2>1. CountersOK'
    BY <1>0, <2>0, SendToCounters DEF TypeOK
  <2>2. ScanOK'
    BY <1>0 DEF TypeOK, ScanOK
  <2>3. min_idx \in Workers \cup {NoTarget} /\ last' = min_idx
    BY <1>0 DEF TypeOK, ScanOK, SendMin, SendTo
  <2> QED BY <1>0, <1>1, <2>1, <2>2, <2>3 DEF TypeOK
<1>3. BacklogExact'
  <2>1. min_idx \notin {Direct}
    <3>1. min_idx \in Workers \cup {NoTarget} /\ WorkerCount # NoTarget
      BY <1>0, BasicAssumption DEF TypeOK, ScanOK, NoTarget
    <3> QED BY <3>1, FlowFacts DEF Direct
  <2> QED BY <1>0, <2>1, Charged DEF TypeOK, SendMin, SendTo
<1>4. OnlyJsq' /\ StackBacklog' /\ StackDistinct'
  BY <1>1 DEF OnlyJsq, StackBacklog, StackDistinct
<1> QED BY <1>2, <1>3, <1>4 DEF IInv

(* One iteration of the scan stacks target i only when its backlog is      *)
(* zero, and i is beyond every entry stacked so far.                       *)
LEMMA ScanStep ==
  ASSUME IInv, JsqScan
  PROVE  IInv'
<1>0. TypeOK /\ BacklogExact /\ OnlyJsq /\ StackBacklog /\ StackDistinct
  BY DEF IInv
<1>1. i \in Workers /\ Backlog(i) \in Int /\ jsq_idle \in Seq(Workers)
  <2>1. i \in 0 .. WorkerCount /\ i < WorkerCount /\ WorkerCount \in Nat
    BY <1>0, BasicAssumption DEF TypeOK, ScanOK, JsqScan
  <2>2. i \in Workers
    BY <2>1 DEF Workers
  <2>3. Backlog(i) \in Int
    BY <1>0, <2>2 DEF TypeOK, CountersOK, Backlog
  <2> QED BY <1>0, <2>2, <2>3 DEF TypeOK
<1>2. TypeOK'
  <2>1. CountersOK'
    BY <1>0 DEF TypeOK, CountersOK, JsqScan, workers
  <2>2. i + 1 \in 0 .. WorkerCount
    BY <1>1, BasicAssumption DEF Workers
  <2>3. ScanOK'
    BY <1>0, <1>1, <2>2 DEF TypeOK, ScanOK, JsqScan
  <2>4. jsq_idle' \in Seq(Workers)
    BY <1>1 DEF JsqScan
  <2> QED BY <1>0, <2>1, <2>3, <2>4 DEF TypeOK, JsqScan
<1>3. BacklogExact' /\ OnlyJsq'
  BY <1>0 DEF JsqScan, BacklogExact, OnlyJsq, Backlog, Unearned, Outstanding, workers
<1>4. StackBacklog' /\ StackDistinct'
  <2>1. CASE Backlog(i) = 0
    <3>1. jsq_idle' = Append(jsq_idle, i) /\ i' = i + 1 /\ UNCHANGED <<sent, tokens, pc>>
      BY <2>1 DEF JsqScan
    <3>2. /\ Len(jsq_idle') = Len(jsq_idle) + 1
          /\ \A k \in 1 .. Len(jsq_idle) : jsq_idle'[k] = jsq_idle[k]
          /\ jsq_idle'[Len(jsq_idle) + 1] = i
          /\ Len(jsq_idle) \in Nat
      BY <1>1, <3>1
    <3>3. \A k \in 1 .. Len(jsq_idle) : jsq_idle[k] < i /\ jsq_idle[k] \in Workers
      BY <1>0, <1>1 DEF StackDistinct, JsqScan
    <3>4. \A k \in 1 .. Len(jsq_idle') :
            k \in 1 .. Len(jsq_idle) \/ (k = Len(jsq_idle) + 1 /\ jsq_idle'[k] = i)
      BY <3>2
    <3>5. StackBacklog'
      <4> SUFFICES ASSUME NEW k \in 1 .. Len(jsq_idle')
                   PROVE  (sent[jsq_idle'[k]] - tokens[jsq_idle'[k]]) <= 0
        BY <3>1 DEF StackBacklog, Backlog
      <4>1. CASE k \in 1 .. Len(jsq_idle)
        BY <4>1, <1>0, <3>2 DEF StackBacklog, Backlog
      <4>2. CASE jsq_idle'[k] = i
        BY <4>2, <2>1 DEF Backlog
      <4> QED BY <3>4, <4>1, <4>2
    <3>6. StackDistinct'
      BY <1>0, <1>1, <3>1, <3>2, <3>3, <3>4 DEF StackDistinct, Workers
    <3> QED BY <3>5, <3>6
  <2>2. CASE Backlog(i) # 0
    <3>1. UNCHANGED <<jsq_idle, sent, tokens, pc>> /\ i' = i + 1
      BY <2>2 DEF JsqScan
    <3>2. \A k \in 1 .. Len(jsq_idle) : jsq_idle[k] \in Workers
      BY <1>1
    <3> QED BY <1>0, <1>1, <3>1, <3>2 DEF StackBacklog, StackDistinct, Backlog, Workers
  <2> QED BY <2>1, <2>2
<1> QED BY <1>2, <1>3, <1>4 DEF IInv

(* A FEEDBACK becomes a token: one request of its flow is less outstanding,*)
(* and one more token is earned, or, by a FIXED_ROUTE request, unearned.   *)
LEMMA FeedbackStep ==
  ASSUME IInv, NEW f \in Flows, CtrlIn(f)
  PROVE  IInv'
<1>0. TypeOK /\ BacklogExact /\ OnlyJsq /\ StackBacklog /\ StackDistinct
  BY DEF IInv
<1>1. /\ CountersOK /\ feedback[f] > 0
      /\ feedback' = [feedback EXCEPT ![f] = @ - 1]
      /\ UNCHANGED <<policy, sent, fixed, held, vanished>>
  BY <1>0 DEF TypeOK, CtrlIn
<1>2. /\ feedback' \in [Flows -> Nat]
      /\ \A g \in Flows : feedback'[g] = feedback[g] - (IF g = f THEN 1 ELSE 0)
  BY <1>1, Decrement DEF CountersOK
<1>3. tokens' \in [Workers -> Nat]
  BY <1>1, Increment DEF CountersOK, CtrlIn
<1>4. CountersOK'
  BY <1>0, <1>2, <1>3 DEF TypeOK, CountersOK, CtrlIn
<1>5. ScanOK'
  BY <1>0 DEF TypeOK, ScanOK, CtrlIn, scan
<1>6. TypeOK'
  BY <1>0, <1>4, <1>5 DEF TypeOK, CtrlIn
<1>7. \A g \in Flows : Outstanding(g)' = Outstanding(g) - (IF g = f THEN 1 ELSE 0)
  <2> SUFFICES ASSUME NEW g \in Flows
               PROVE  held[g] + feedback'[g] + vanished[g]
                      = (held[g] + feedback[g] + vanished[g]) - (IF g = f THEN 1 ELSE 0)
    BY <1>1 DEF Outstanding
  <2>1. held[g] \in Nat /\ feedback[g] \in Nat /\ vanished[g] \in Nat
    BY <1>1 DEF CountersOK
  <2> QED BY <1>2, <2>1
<1>8. BacklogExact'
  <2> SUFFICES ASSUME policy = "JSQ", NEW v \in Workers
               PROVE  Backlog(v)' + Unearned(v)' = Outstanding(v)'
    BY <1>1 DEF BacklogExact
  <2>1. Backlog(v) + Unearned(v) = Outstanding(v)
    BY <1>0 DEF BacklogExact
  <2>2. Backlog(v)' = Backlog(v) - (IF v = Target(f) THEN 1 ELSE 0)
    <3>1. tokens'[v] = tokens[v] + (IF v = Target(f) THEN 1 ELSE 0)
      BY <1>1, Increment DEF CountersOK, CtrlIn
    <3>2. sent[v] \in Nat /\ tokens[v] \in Nat
      BY <1>1 DEF CountersOK
    <3> QED BY <1>1, <3>1, <3>2 DEF Backlog
  <2>3. /\ Backlog(v) \in Int /\ Unearned(v) \in Int /\ Outstanding(v) \in Int
        /\ Outstanding(Direct) \in Int /\ fixed \in Int
    BY <1>1, Accounts, FlowFacts DEF CountersOK
  <2>4. /\ Outstanding(v)' = Outstanding(v) - (IF v = f THEN 1 ELSE 0)
        /\ Outstanding(Direct)' = Outstanding(Direct) - (IF Direct = f THEN 1 ELSE 0)
    BY <1>7, FlowFacts
  <2>5. CASE f = Direct
    <3>1. Outstanding(v)' = Outstanding(v) /\ Target(f) = 0
      BY <2>3, <2>4, <2>5, FlowFacts DEF Target
    <3>2. Unearned(v)' = Unearned(v) + (IF v = 0 THEN 1 ELSE 0)
      BY <1>1, <2>3, <2>4, <2>5 DEF Unearned
    <3> QED BY <2>1, <2>2, <2>3, <3>1, <3>2
  <2>6. CASE f # Direct
    <3>1. Target(f) = f
      BY <2>6 DEF Target
    <3>2. Unearned(v)' = Unearned(v)
      BY <1>1, <2>3, <2>4, <2>6 DEF Unearned
    <3> QED BY <2>1, <2>2, <2>3, <2>4, <3>1, <3>2
  <2> QED BY <2>5, <2>6
<1>9. OnlyJsq' /\ StackDistinct'
  BY <1>0 DEF CtrlIn, OnlyJsq, StackDistinct, scan
<1>10. StackBacklog'
  <2> SUFFICES ASSUME NEW k \in 1 .. Len(jsq_idle)
               PROVE  (sent[jsq_idle[k]] - tokens'[jsq_idle[k]]) <= 0
    BY DEF CtrlIn, StackBacklog, Backlog
  <2>1. jsq_idle[k] \in Workers
    BY <1>0 DEF TypeOK
  <2>2. tokens[jsq_idle[k]] \in Nat /\ sent[jsq_idle[k]] \in Nat
    BY <1>1, <2>1 DEF CountersOK
  <2>3. tokens'[jsq_idle[k]] \in {tokens[jsq_idle[k]], tokens[jsq_idle[k]] + 1}
    BY <1>1, <2>1 DEF CountersOK, CtrlIn
  <2> QED BY <1>0, <2>2, <2>3, SMTT(30) DEF StackBacklog, Backlog
<1> QED BY <1>6, <1>8, <1>9, <1>10 DEF IInv

(* A request that is answered, or lost, is as outstanding as before.       *)
LEMMA ReportStep ==
  ASSUME IInv, NEW f \in Flows, Finish(f) \/ Vanish(f)
  PROVE  IInv'
<1>0. TypeOK /\ BacklogExact /\ OnlyJsq /\ StackBacklog /\ StackDistinct
  BY DEF IInv
<1>1. /\ CountersOK /\ held[f] > 0
      /\ held' = [held EXCEPT ![f] = @ - 1]
      /\ UNCHANGED <<policy, tokens, sent, curr_idx, jsq_idle, scan, last, arrived, fixed>>
  BY <1>0 DEF TypeOK, Finish, Vanish
<1>2. /\ held' \in [Flows -> Nat]
      /\ \A g \in Flows : held'[g] = held[g] - (IF g = f THEN 1 ELSE 0)
  BY <1>1, Decrement DEF CountersOK
<1>3. /\ feedback' \in [Flows -> Nat] /\ vanished' \in [Flows -> Nat]
      /\ \/ /\ \A g \in Flows : feedback'[g] = feedback[g] + (IF g = f THEN 1 ELSE 0)
            /\ vanished' = vanished
         \/ /\ \A g \in Flows : vanished'[g] = vanished[g] + (IF g = f THEN 1 ELSE 0)
            /\ feedback' = feedback
  BY <1>1, Increment DEF CountersOK, Finish, Vanish
<1>4. TypeOK'
  BY <1>0, <1>1, <1>2, <1>3 DEF TypeOK, CountersOK, ScanOK, scan
<1>5. \A g \in Flows : Outstanding(g)' = Outstanding(g)
  <2> SUFFICES ASSUME NEW g \in Flows
               PROVE  held'[g] + feedback'[g] + vanished'[g] = held[g] + feedback[g] + vanished[g]
    BY DEF Outstanding
  <2>1. held[g] \in Nat /\ feedback[g] \in Nat /\ vanished[g] \in Nat
    BY <1>1 DEF CountersOK
  <2> QED BY <1>2, <1>3, <2>1
<1>6. BacklogExact'
  <2>1. \A w \in Workers : Unearned(w)' = Unearned(w) /\ Backlog(w)' = Backlog(w)
    BY <1>1, <1>5, FlowFacts, Zenon DEF Unearned, Backlog
  <2> QED BY <1>0, <1>1, <1>5, <2>1, FlowFacts, Zenon DEF BacklogExact
<1>7. OnlyJsq' /\ StackBacklog' /\ StackDistinct'
  BY <1>0, <1>1 DEF OnlyJsq, StackBacklog, StackDistinct, Backlog, scan
<1> QED BY <1>4, <1>6, <1>7 DEF IInv

(* The steps of the environment and of the other policies: none lowers     *)
(* tokens or raises sent of a stacked target.                              *)
LEMMA OtherStep ==
  ASSUME IInv,
         \/ SendRand \/ SendRR \/ SendFixed \/ JsqStart
         \/ \E f \in Flows : CtrlIn(f) \/ Finish(f) \/ Vanish(f)
  PROVE  IInv'
<1>0. TypeOK /\ BacklogExact /\ OnlyJsq /\ StackBacklog /\ StackDistinct
  BY DEF IInv
<1>1. CASE SendRand
  <2>1. PICK v \in Workers : SendTo(v)
    BY <1>1 DEF SendRand
  <2>2. CountersOK' /\ ScanOK' /\ last' = v
    <3>1. sent' \in [Workers -> Nat] /\ UNCHANGED <<tokens, fixed>> /\ SendTo(v)
      BY <1>0, <1>1, <2>1 DEF TypeOK, CountersOK, SendRand
    <3>2. CountersOK'
      BY <1>0, <3>1, SendToCounters DEF TypeOK
    <3>3. ScanOK'
      BY <1>0, <1>1 DEF TypeOK, ScanOK, SendRand, scan
    <3> QED BY <3>1, <3>2, <3>3 DEF SendTo
  <2>3. TypeOK'
    BY <1>0, <1>1, <2>2 DEF TypeOK, SendRand
  <2>4. /\ policy' = "RAND"
        /\ UNCHANGED <<policy, tokens, sent, jsq_idle, pc, i>>
    BY <1>1 DEF SendRand, scan
  <2>5. BacklogExact' /\ OnlyJsq'
    BY <1>0, <2>4, "RAND" # "JSQ", Zenon DEF BacklogExact, OnlyJsq
  <2>6. StackBacklog' /\ StackDistinct'
    BY <1>0, <2>4, Zenon DEF StackBacklog, StackDistinct, Backlog
  <2> QED BY <2>3, <2>5, <2>6 DEF IInv
<1>2. CASE SendRR
  <2>1. curr_idx % WorkerCount \in Workers /\ (curr_idx + 1) % IdxSpace \in 0 .. IdxSpace - 1
    <3>1. curr_idx \in Nat /\ WorkerCount \in Nat \ {0} /\ IdxSpace \in Nat \ {0}
      BY <1>0, BasicAssumption DEF TypeOK
    <3> QED BY <3>1 DEF Workers
  <2>2. CountersOK' /\ ScanOK' /\ last' = curr_idx % WorkerCount
    <3>1. sent' \in [Workers -> Nat] /\ UNCHANGED <<tokens, fixed>> /\ SendTo(curr_idx % WorkerCount)
      BY <1>0, <1>2, <2>1 DEF TypeOK, CountersOK, SendRR
    <3>2. CountersOK'
      BY <1>0, <3>1, SendToCounters DEF TypeOK
    <3>3. ScanOK'
      BY <1>0, <1>2 DEF TypeOK, ScanOK, SendRR, scan
    <3> QED BY <3>1, <3>2, <3>3 DEF SendTo
  <2>3. TypeOK'
    BY <1>0, <1>2, <2>1, <2>2 DEF TypeOK, SendRR
  <2>4. /\ policy' = "RR"
        /\ UNCHANGED <<policy, tokens, sent, jsq_idle, pc, i>>
    BY <1>2 DEF SendRR, scan
  <2>5. BacklogExact' /\ OnlyJsq'
    BY <1>0, <2>4, "RR" # "JSQ", Zenon DEF BacklogExact, OnlyJsq
  <2>6. StackBacklog' /\ StackDistinct'
    BY <1>0, <2>4, Zenon DEF StackBacklog, StackDistinct, Backlog
  <2> QED BY <2>3, <2>5, <2>6 DEF IInv
<1>3. CASE SendFixed
  <2>1. CountersOK' /\ ScanOK'
    <3>1. held \in [Flows -> Nat] /\ held' = [held EXCEPT ![Direct] = @ + 1]
      BY <1>0, <1>3 DEF TypeOK, CountersOK, SendFixed
    <3>2. held' \in [Flows -> Nat]
      BY <3>1, Increment
    <3>3. fixed' \in Nat
      BY <1>0, <1>3 DEF TypeOK, CountersOK, SendFixed
    <3>4. CountersOK'
      BY <1>0, <1>3, <3>2, <3>3 DEF TypeOK, CountersOK, SendFixed
    <3>5. ScanOK'
      BY <1>0, <1>3 DEF TypeOK, ScanOK, SendFixed, scan
    <3> QED BY <3>4, <3>5
  <2>2. TypeOK'
    BY <1>0, <1>3, <2>1 DEF TypeOK, SendFixed
  <2>3. BacklogExact'
    <3> SUFFICES ASSUME policy = "JSQ", NEW v \in Workers
                 PROVE  Backlog(v)' + Unearned(v)' = Outstanding(v)'
      BY <1>3 DEF SendFixed, BacklogExact
    <3>0. CountersOK /\ held' = [held EXCEPT ![Direct] = @ + 1] /\ fixed' = fixed + 1
          /\ UNCHANGED <<feedback, vanished, sent, tokens>>
      BY <1>0, <1>3 DEF TypeOK, SendFixed
    <3>1. Backlog(v) + Unearned(v) = Outstanding(v)
      BY <1>0 DEF BacklogExact
    <3>2. /\ Outstanding(v)' = Outstanding(v) + 0
          /\ Outstanding(Direct)' = Outstanding(Direct) + 1
      BY <3>0, FlowFacts, Started
    <3>3. Outstanding(Direct) \in Nat /\ Outstanding(v) \in Nat /\ fixed \in Nat
      BY <3>0, FlowFacts, Accounts DEF CountersOK
    <3>4. Unearned(v)' = Unearned(v)
      BY <3>0, <3>2, <3>3 DEF Unearned
    <3>5. Backlog(v)' = Backlog(v)
      BY <3>0 DEF Backlog
    <3> QED BY <3>1, <3>2, <3>3, <3>4, <3>5
  <2>4. OnlyJsq' /\ StackBacklog' /\ StackDistinct'
    BY <1>0, <1>3 DEF SendFixed, OnlyJsq, StackBacklog, StackDistinct, Backlog, scan
  <2> QED BY <2>2, <2>3, <2>4 DEF IInv
<1>4. CASE JsqStart
  <2>1. TypeOK'
    <3>1. CountersOK'
      BY <1>0, <1>4 DEF TypeOK, CountersOK, JsqStart, workers
    <3>2. ScanOK'
      BY <1>4, BasicAssumption DEF ScanOK, JsqStart, Zero, NoMin
    <3> QED BY <1>0, <1>4, <3>1, <3>2 DEF TypeOK, JsqStart
  <2>2. /\ policy = "JSQ" /\ jsq_idle' = <<>>
        /\ UNCHANGED <<policy, tokens, sent, fixed, held, feedback, vanished>>
    BY <1>4 DEF JsqStart, workers
  <2>3. BacklogExact' /\ OnlyJsq'
    BY <1>0, <2>2, Zenon DEF BacklogExact, OnlyJsq, Backlog, Unearned, Outstanding
  <2>4. StackBacklog' /\ StackDistinct'
    BY ONLY <2>2, SMT DEF StackBacklog, StackDistinct
  <2> QED BY <2>1, <2>3, <2>4 DEF IInv
<1>5. ASSUME NEW f \in Flows, CtrlIn(f)
      PROVE  IInv'
  BY <1>5, FeedbackStep
<1>6. ASSUME NEW f \in Flows, Finish(f)
      PROVE  IInv'
  BY <1>6, ReportStep
<1>7. ASSUME NEW f \in Flows, Vanish(f)
      PROVE  IInv'
  BY <1>7, ReportStep
<1> QED BY <1>1, <1>2, <1>3, <1>4, <1>5, <1>6, <1>7

(* Every step of the router and of its environment keeps the invariant. *)
LEMMA NextIInv == IInv /\ [Next]_vars => IInv'
<1> SUFFICES ASSUME IInv, [Next]_vars PROVE IInv'
  OBVIOUS
<1>1. CASE JsqFromStack
  BY <1>1, PopStep DEF JsqFromStack, scan
<1>2. CASE JsqSend
  <2>1. policy = "JSQ"
    BY <1>2 DEF JsqSend, IInv, OnlyJsq
  <2> QED BY <1>2, <2>1, PopStep, SendMinStep DEF JsqSend
<1>3. CASE JsqScan
  BY <1>3, ScanStep
<1>4. CASE UNCHANGED vars
  BY <1>4 DEF vars, scan, workers, IInv, TypeOK, CountersOK, ScanOK, BacklogExact,
     OnlyJsq, StackBacklog, StackDistinct, Backlog, Unearned, Outstanding
<1> QED BY <1>1, <1>2, <1>3, <1>4, OtherStep DEF Next

(* The invariant holds in every reachable state. *)
THEOREM Invariance == Spec => []IInv
  BY InitIInv, NextIInv, PTL DEF Spec

(* The variables keep their types: no counter of the router goes below 0,  *)
(* curr_idx stays a uint16_t.                                              *)
THEOREM TypeCorrect == Spec => []TypeOK
<1>1. IInv => TypeOK
  BY DEF IInv
<1> QED BY Invariance, <1>1, PTL

(* The counters of JSQ tell the LB_ROUTE requests a target has not         *)
(* reported, less the tokens that FIXED_ROUTE requests, which fw_in does   *)
(* not charge, have returned.                                              *)
THEOREM BacklogIsExact == Spec => []BacklogExact
<1>1. IInv => BacklogExact
  BY DEF IInv
<1> QED BY Invariance, <1>1, PTL

(* A target that get_jsq_target takes from its stack holds no LB_ROUTE     *)
(* request, however old the scan; only targets[0] may hold some, at most   *)
(* as many as FIXED_ROUTE requests returned tokens.  It is stacked once.   *)
THEOREM StackNeverStale == Spec => []IdleStackTruthful
<1>1. IInv => IdleStackTruthful
  <2> SUFFICES ASSUME IInv, NEW k \in 1 .. Len(jsq_idle)
               PROVE  held[jsq_idle[k]] <= Unearned(jsq_idle[k])
    BY DEF IInv, IdleStackTruthful, StackDistinct
  <2>0. TypeOK /\ BacklogExact /\ OnlyJsq /\ StackBacklog /\ CountersOK
    BY DEF IInv, TypeOK
  <2> DEFINE w == jsq_idle[k]
  <2>1. w \in Workers /\ policy = "JSQ"
    <3>1. jsq_idle \in Seq(Workers)
      BY <2>0 DEF TypeOK
    <3>2. w \in Workers /\ jsq_idle # <<>>
      BY <3>1
    <3> QED BY <2>0, <3>2 DEF OnlyJsq
  <2>2. Backlog(w) <= 0
    BY <2>0 DEF StackBacklog
  <2>3. Backlog(w) + Unearned(w) = Outstanding(w)
    BY <2>0, <2>1 DEF BacklogExact
  <2> HIDE DEF w
  <2>4. Backlog(w) \in Int /\ Unearned(w) \in Int
    BY <2>0, <2>1, Accounts
  <2>5. held[w] \in Nat /\ held[w] <= Outstanding(w) /\ Outstanding(w) \in Nat
    <3>1. w \in Flows
      BY <2>1, FlowFacts
    <3> QED BY <2>0, <3>1 DEF CountersOK, Outstanding
  <2>6. held[w] <= Unearned(w)
    BY <2>2, <2>3, <2>4, <2>5
  <2> QED BY <2>6 DEF w
<1> QED BY Invariance, <1>1, PTL

-----------------------------------------------------------------------------
(* get_jsq_target starts with min = 0xFFFFFF: a backlog that large would   *)
(* not be seen, and min_idx would stay -1.                                 *)
BacklogsFit == \A w \in Workers : Backlog(w) < NoMin

(* The loop of get_jsq_target after i targets: min_idx is a target read    *)
(* with the backlog min, no target read had less, and the stack holds      *)
(* targets read idle, one at least if there was one.                       *)
ScanSound ==
  pc = "scan" =>
    /\ IF min_idx = NoTarget THEN i = 0 /\ min = NoMin
                             ELSE min_idx \in 0 .. i - 1 /\ seen[min_idx] = min
    /\ \A v \in 0 .. i - 1 : min <= seen[v] /\ (seen[v] = 0 => jsq_idle # <<>>)
    /\ \A k \in 1 .. Len(jsq_idle) : jsq_idle[k] \in 0 .. i - 1 /\ seen[jsq_idle[k]] = 0

(* One target is read: it is the new minimum, or min still is.             *)
LEMMA ScanStaysSound == IInv /\ BacklogsFit /\ ScanSound /\ JsqScan => ScanSound'
<1> SUFFICES ASSUME IInv, BacklogsFit, ScanSound, JsqScan PROVE ScanSound'
  OBVIOUS
<1>1. /\ pc = "scan" /\ i \in Nat /\ i < WorkerCount /\ WorkerCount \in Nat /\ min \in Int
      /\ min_idx \in Workers \cup {NoTarget} /\ seen \in [Workers -> Int]
      /\ jsq_idle \in Seq(Workers) /\ i \in Workers
  <2>1. /\ pc = "scan" /\ i < WorkerCount /\ i \in 0 .. WorkerCount /\ min \in Int
        /\ min_idx \in Workers \cup {NoTarget} /\ seen \in [Workers -> Int]
        /\ jsq_idle \in Seq(Workers)
    BY DEF IInv, TypeOK, ScanOK, JsqScan
  <2>2. i \in Nat /\ WorkerCount \in Nat /\ i \in Workers
    BY <2>1, BasicAssumption DEF Workers
  <2> QED BY <2>1, <2>2
<1>2. PICK b : b = Backlog(i)
  OBVIOUS
<1>3. b \in Int /\ b < NoMin
  <2>1. tokens[i] \in Nat /\ sent[i] \in Nat
    BY <1>1 DEF IInv, TypeOK, CountersOK
  <2> QED BY <1>1, <1>2, <2>1 DEF BacklogsFit, Backlog
<1>4. /\ i' = i + 1 /\ seen' = [seen EXCEPT ![i] = b] /\ pc' = pc
      /\ min' = IF b < min THEN b ELSE min
      /\ min_idx' = IF b < min THEN i ELSE min_idx
      /\ jsq_idle' = IF b = 0 THEN Append(jsq_idle, i) ELSE jsq_idle
  BY <1>2 DEF JsqScan
<1>5. seen'[i] = b /\ \A v \in 0 .. i - 1 : seen'[v] = seen[v] /\ seen[v] \in Int
  <2>1. \A v \in 0 .. i - 1 : v \in Workers /\ v # i
    BY <1>1 DEF Workers
  <2> QED BY <1>1, <1>4, <2>1
<1>6. \A v \in 0 .. i' - 1 : v \in 0 .. i - 1 \/ v = i
  BY <1>1, <1>4
<1>7. 0 .. i - 1 \subseteq 0 .. i' - 1 /\ i \in 0 .. i' - 1
  BY <1>1, <1>4
<1>8. IF min_idx' = NoTarget THEN i' = 0 /\ min' = NoMin
                             ELSE min_idx' \in 0 .. i' - 1 /\ seen'[min_idx'] = min'
  <2>1. CASE b < min
    <3>1. min_idx' = i /\ min' = b /\ i # NoTarget
      BY <1>1, <1>4, <2>1 DEF NoTarget
    <3> QED BY <1>5, <1>7, <3>1
  <2>2. CASE ~(b < min)
    <3>1. min_idx # NoTarget
      BY <1>1, <1>3, <2>2 DEF ScanSound
    <3>2. min_idx \in 0 .. i - 1 /\ seen[min_idx] = min
      BY <1>1, <3>1 DEF ScanSound
    <3> QED BY <1>4, <1>5, <1>7, <2>2, <3>1, <3>2
  <2> QED BY <2>1, <2>2
<1>9. ASSUME NEW v \in 0 .. i' - 1
      PROVE  min' <= seen'[v] /\ (seen'[v] = 0 => jsq_idle' # <<>>)
  <2>1. min' <= b /\ min' <= min /\ min' \in Int
    BY <1>1, <1>3, <1>4
  <2>2. Append(jsq_idle, i) # <<>>
    BY <1>1
  <2>3. CASE v = i
    BY <1>4, <1>5, <2>1, <2>2, <2>3
  <2>4. CASE v \in 0 .. i - 1
    <3>1. min <= seen[v] /\ (seen[v] = 0 => jsq_idle # <<>>) /\ seen'[v] = seen[v] /\ seen[v] \in Int
      BY <1>1, <1>5, <2>4 DEF ScanSound
    <3>2. jsq_idle # <<>> => jsq_idle' # <<>>
      BY <1>4, <2>2
    <3> QED BY <1>1, <2>1, <3>1, <3>2
  <2> QED BY <1>6, <2>3, <2>4
<1>10. ASSUME NEW k \in 1 .. Len(jsq_idle')
       PROVE  jsq_idle'[k] \in 0 .. i' - 1 /\ seen'[jsq_idle'[k]] = 0
  <2>1. \A l \in 1 .. Len(jsq_idle) : jsq_idle[l] \in 0 .. i' - 1 /\ seen'[jsq_idle[l]] = 0
    BY <1>1, <1>5, <1>7 DEF ScanSound
  <2>2. CASE b = 0
    <3>1. jsq_idle' = Append(jsq_idle, i)
      BY <1>4, <2>2
    <3>2. \/ k \in 1 .. Len(jsq_idle) /\ jsq_idle'[k] = jsq_idle[k]
          \/ jsq_idle'[k] = i
      BY <1>1, <3>1
    <3> QED BY <1>5, <1>7, <2>1, <2>2, <3>2
  <2>3. CASE b # 0
    BY <1>4, <2>1, <2>3
  <2> QED BY <2>2, <2>3
<1> QED BY <1>8, <1>9, <1>10 DEF ScanSound

(* Feedback may arrive between two reads: it leaves what was read alone.   *)
LEMMA NextScanSound == IInv /\ BacklogsFit /\ ScanSound /\ [Next]_vars => ScanSound'
<1> SUFFICES ASSUME IInv, BacklogsFit, ScanSound, [Next]_vars PROVE ScanSound'
  OBVIOUS
<1>a. ASSUME UNCHANGED <<scan, jsq_idle>> PROVE ScanSound'
  BY <1>a DEF ScanSound, scan
<1>1. CASE JsqScan
  BY <1>1, ScanStaysSound
<1>2. CASE JsqStart
  <2>1. i' = 0 /\ min' = NoMin /\ min_idx' = NoTarget /\ jsq_idle' = <<>>
    BY <1>2 DEF JsqStart
  <2> QED BY <2>1 DEF ScanSound
<1>3. CASE JsqFromStack \/ JsqSend
  <2>1. pc' = "poll"
    BY <1>3 DEF JsqFromStack, JsqSend, scan
  <2> QED BY <2>1 DEF ScanSound
<1>4. CASE SendRand \/ SendRR \/ SendFixed \/ UNCHANGED vars
  BY <1>a, <1>4, Zenon DEF SendRand, SendRR, SendFixed, vars
<1>5. CASE \E f \in Flows : CtrlIn(f) \/ Finish(f) \/ Vanish(f)
  BY <1>a, <1>5, Zenon DEF CtrlIn, Finish, Vanish
<1> QED BY <1>1, <1>2, <1>3, <1>4, <1>5 DEF Next

(* The target get_jsq_target returns after a scan.                         *)
LEMMA ScanJoins ==
  ASSUME IInv, ScanSound, [Next]_vars, pc = "scan", pc' = "poll"
  PROVE  IF \E v \in Workers : seen[v] = 0
           THEN seen[last'] = 0
           ELSE \A v \in Workers : seen[last'] <= seen[v]
<1>1. JsqSend
  BY DEF Next, SendRand, SendRR, SendFixed, JsqFromStack, JsqStart, JsqScan, CtrlIn, Finish,
         Vanish, vars, scan
<1>2. /\ 0 .. i - 1 = Workers /\ i # 0 /\ jsq_idle \in Seq(Workers)
  <2>1. i = WorkerCount /\ WorkerCount # 0
    BY <1>1, BasicAssumption DEF JsqSend
  <2> QED BY <2>1, Zenon DEF IInv, TypeOK, Workers
<1>3. CASE PopIdle
  <2>1. /\ jsq_idle # <<>> /\ last' = jsq_idle[Len(jsq_idle)]
    BY <1>3 DEF PopIdle, SendTo
  <2>2. Len(jsq_idle) \in 1 .. Len(jsq_idle)
    BY <1>2, <2>1
  <2>3. last' \in Workers /\ seen[last'] = 0
    BY <1>2, <2>1, <2>2 DEF ScanSound
  <2> QED BY <2>3, Zenon
<1>4. CASE SendMin
  <2>1. jsq_idle = <<>> /\ last' = min_idx
    BY <1>4 DEF SendMin, SendTo
  <2>2. seen[min_idx] = min /\ \A v \in Workers : min <= seen[v] /\ seen[v] # 0
    BY <1>2, <2>1, Zenon DEF ScanSound
  <2> QED BY <2>1, <2>2, Zenon
<1> QED BY <1>1, <1>3, <1>4 DEF JsqSend

(* get_jsq_target after a scan returns a target that was read idle, or     *)
(* else one read with the least backlog, as long as no backlog reaches     *)
(* 0xFFFFFF; the control core may update tokens between any two reads.     *)
THEOREM ScanJoinsShortest == Spec /\ []BacklogsFit => JoinsShortest
<1>1. Init => ScanSound
  BY DEF Init, ScanSound
<1>2. IInv /\ ScanSound /\ [Next]_vars =>
        [pc = "scan" /\ pc' = "poll" =>
           IF \E v \in Workers : seen[v] = 0
             THEN seen[last'] = 0
             ELSE \A v \in Workers : seen[last'] <= seen[v]]_vars
  BY ScanJoins, Zenon
<1> QED BY <1>1, <1>2, Invariance, NextScanSound, PTL DEF Spec, JoinsShortest

-----------------------------------------------------------------------------
(* Two ways to write a number as a multiple of m and a remainder are one.  *)
LEMMA RemainderUnique ==
  ASSUME NEW m \in Nat \ {0}, NEW q \in Int, NEW r \in 0 .. m - 1,
         NEW q2 \in Int, NEW r2 \in 0 .. m - 1, m * q + r = m * q2 + r2
  PROVE  r = r2
<1>1. m * (q - q2) = r2 - r
  OBVIOUS
<1>2. PICK d \in Int : d = q - q2
  OBVIOUS
<1>3. CASE d >= 1
  <2>1. m * d >= m
    BY <1>3
  <2> QED BY <1>1, <1>2, <2>1
<1>4. CASE d <= -1
  <2>1. m * d <= -m
    BY <1>4
  <2> QED BY <1>1, <1>2, <2>1
<1>5. CASE d = 0
  BY <1>1, <1>2, <1>5
<1> QED BY <1>2, <1>3, <1>4, <1>5

(* The remainder after one more.                                           *)
LEMMA ModSuccessor ==
  ASSUME NEW m \in Nat \ {0}, NEW a \in Nat
  PROVE  ((a % m) + 1) % m = (a + 1) % m
<1>1. PICK q, r : q = a \div m /\ r = a % m
  OBVIOUS
<1>2. q \in Int /\ r \in 0 .. m - 1 /\ a = m * q + r
  BY <1>1
<1>3. PICK p, s : p = (a + 1) \div m /\ s = (a + 1) % m
  OBVIOUS
<1>4. p \in Int /\ s \in 0 .. m - 1 /\ a + 1 = m * p + s
  BY <1>3
<1>5. PICK u, t : u = (r + 1) \div m /\ t = (r + 1) % m
  OBVIOUS
<1>6. u \in Int /\ t \in 0 .. m - 1 /\ r + 1 = m * u + t
  BY <1>2, <1>5
<1>7. m * (q + u) + t = m * p + s /\ q + u \in Int
  BY <1>2, <1>4, <1>6
<1>8. t = s
  BY <1>4, <1>6, <1>7, RemainderUnique
<1> QED BY <1>1, <1>3, <1>5, <1>8

(* Until it wraps, curr_idx names the target after the last one.           *)
InOrder ==
  policy = "RR" /\ last # NoTarget /\ curr_idx # 0 =>
    curr_idx % WorkerCount = (last + 1) % WorkerCount

(* curr_idx++ and then modulo worker_count is the next target, unless the  *)
(* uint16_t wraps.                                                         *)
LEMMA IndexAdvances ==
  ASSUME NEW c \in 0 .. IdxSpace - 1, (c + 1) % IdxSpace # 0
  PROVE  ((c + 1) % IdxSpace) % WorkerCount = ((c % WorkerCount) + 1) % WorkerCount
<1>1. c \in Nat /\ IdxSpace \in Nat \ {0} /\ WorkerCount \in Nat \ {0} /\ c + 1 <= IdxSpace
  BY BasicAssumption
<1>2. ((c % WorkerCount) + 1) % WorkerCount = (c + 1) % WorkerCount
  BY <1>1, ModSuccessor
<1>3. c + 1 # IdxSpace
  BY <1>1
<1>4. (c + 1) % IdxSpace = c + 1
  BY <1>1, <1>3
<1> QED BY <1>2, <1>4

(* A request by LB_ROUTE under RR is SendRR; nothing else moves last or    *)
(* curr_idx then.                                                          *)
LEMMA NextInOrder ==
  ASSUME IInv, InOrder, [Next]_vars
  PROVE  /\ InOrder'
         /\ policy = "RR" /\ arrived' # arrived /\ last # NoTarget =>
              last' = IF curr_idx = 0 THEN 0 ELSE (last + 1) % WorkerCount
<1>1. CASE SendRR
  <2>1. last' = curr_idx % WorkerCount /\ curr_idx' = (curr_idx + 1) % IdxSpace /\ policy' = policy
        /\ policy = "RR"
    BY <1>1 DEF SendRR, SendTo
  <2>2. curr_idx \in 0 .. IdxSpace - 1
    BY DEF IInv, TypeOK
  <2>3. curr_idx' # 0 => curr_idx' % WorkerCount = (last' + 1) % WorkerCount
    BY <2>1, <2>2, IndexAdvances
  <2>4. 0 % WorkerCount = 0
    BY BasicAssumption
  <2>5. last # NoTarget => last' = IF curr_idx = 0 THEN 0 ELSE (last + 1) % WorkerCount
    BY <2>1, <2>4, Zenon DEF InOrder
  <2> QED BY <2>1, <2>3, <2>5, Zenon DEF InOrder
<1>2. CASE UNCHANGED <<policy, curr_idx, last, arrived>>
  BY <1>2 DEF InOrder
<1>3. CASE policy # "RR" /\ policy' = policy
  BY <1>3 DEF InOrder
<1>4. CASE SendRand \/ JsqFromStack \/ JsqSend
  <2>1. policy' = policy
    BY <1>4 DEF SendRand, JsqFromStack, JsqSend
  <2>2. policy # "RR"
    BY <1>4 DEF SendRand, JsqFromStack, JsqSend, IInv, OnlyJsq
  <2> QED BY <1>3, <2>1, <2>2
<1>5. CASE SendFixed \/ JsqStart \/ JsqScan \/ UNCHANGED vars
  BY <1>2, <1>5, Zenon DEF SendFixed, JsqStart, JsqScan, vars
<1>6. CASE \E f \in Flows : CtrlIn(f) \/ Finish(f) \/ Vanish(f)
  BY <1>2, <1>6, Zenon DEF CtrlIn, Finish, Vanish
<1> QED BY <1>1, <1>4, <1>5, <1>6 DEF Next

(* Round robin goes from each target to the next, whatever FIXED_ROUTE     *)
(* requests come in between, for any number of targets; where curr_idx     *)
(* wraps, the next one is targets[0].                                      *)
THEOREM RoundRobinRotates == Spec => RotatesTargets
<1>1. Init => InOrder
  BY DEF Init, InOrder
<1>2. IInv /\ InOrder /\ [Next]_vars => InOrder'
  BY NextInOrder
<1>3. IInv /\ InOrder /\ [Next]_vars =>
        [policy = "RR" /\ arrived' # arrived /\ last # NoTarget =>
           last' = IF curr_idx = 0 THEN 0 ELSE (last + 1) % WorkerCount]_vars
  BY NextInOrder, Zenon
<1> QED BY <1>1, <1>2, <1>3, Invariance, PTL DEF Spec, RotatesTargets
=============================================================================
