-------------------------- MODULE RouterFC_proofs --------------------------
(***************************************************************************)
(* JBSQ(n) for every number of workers and slots: the invariants of        *)
(* RouterFC, from the inductive invariant IInv.                            *)
(***************************************************************************)
EXTENDS RouterFC, FiniteSetTheorems, TLAPS

(* Appending one entry to one row of target_group.                         *)
LEMMA AppendRow ==
  ASSUME NEW gs \in [Groups -> Seq(Workers)], NEW d \in Groups,
         NEW w \in Workers
  PROVE  LET gs2 == [gs EXCEPT ![d] = Append(@, w)] IN
         /\ gs2 \in [Groups -> Seq(Workers)]
         /\ \A g \in Groups : g # d => gs2[g] = gs[g]
         /\ Len(gs2[d]) = Len(gs[d]) + 1
         /\ gs2[d][Len(gs[d]) + 1] = w
         /\ \A k \in 1 .. Len(gs[d]) : gs2[d][k] = gs[d][k]
  <1> DEFINE gs2 == [gs EXCEPT ![d] = Append(@, w)]
  <1>1. gs[d] \in Seq(Workers)
    OBVIOUS
  <1>2. gs2[d] = Append(gs[d], w)
    OBVIOUS
  <1>3. Append(gs[d], w) \in Seq(Workers)
    BY <1>1
  <1>4. gs2 \in [Groups -> Seq(Workers)]
    BY <1>3
  <1>5. \A g \in Groups : g # d => gs2[g] = gs[g]
    OBVIOUS
  <1>6. /\ Len(Append(gs[d], w)) = Len(gs[d]) + 1
        /\ Append(gs[d], w)[Len(gs[d]) + 1] = w
        /\ \A k \in 1 .. Len(gs[d]) : Append(gs[d], w)[k] = gs[d][k]
    BY <1>1
  <1> QED
    BY <1>2, <1>4, <1>5, <1>6

(* A row without repetitions fits in worker_count entries.                 *)
LEMMA RowLength ==
  ASSUME NEW row \in Seq(Workers),
         \A k, l \in 1 .. Len(row) : row[k] = row[l] => k = l
  PROVE  Len(row) <= WorkerCount
  <1> SUFFICES ASSUME ~ (Len(row) <= WorkerCount)
               PROVE  FALSE
    OBVIOUS
  <1>1. Len(row) \in Nat /\ WorkerCount \in Nat /\ row \in [1 .. Len(row) -> Workers]
    BY WorkerCountAssumption
  <1>2. IsFiniteSet(1 .. Len(row)) /\ Cardinality(1 .. Len(row)) = Len(row)
    <2>1. 1 \in Int /\ Len(row) \in Int
      BY <1>1
    <2>2. /\ IsFiniteSet(1 .. Len(row))
          /\ Cardinality(1 .. Len(row)) = IF 1 > Len(row) THEN 0 ELSE (Len(row) - 1) + 1
      BY <2>1, FS_Interval
    <2> QED
      BY <1>1, <2>2
  <1>3. IsFiniteSet(Workers) /\ Cardinality(Workers) = WorkerCount
    <2>1. WorkerCount - 1 \in Int
      BY WorkerCountAssumption
    <2> QED
      BY <2>1, FS_Interval, WorkerCountAssumption DEF Workers
  <1>4. Cardinality(Workers) < Cardinality(1 .. Len(row))
    BY <1>1, <1>2, <1>3
  <1>5. \E x, y \in 1 .. Len(row) : x # y /\ row[x] = row[y]
    BY <1>1, <1>2, <1>3, <1>4, FS_PigeonHole
  <1> QED
    BY <1>5

-----------------------------------------------------------------------------
(* An entry after the first m of a sequence is one of its entries.         *)
LEMMA LaterEntry ==
  ASSUME NEW S, NEW q \in Seq(S), NEW m \in Nat, NEW k \in m + 1 .. Len(q)
  PROVE  k \in 1 .. Len(q) /\ k > m /\ k \in Int
  <1>1. Len(q) \in Nat
    OBVIOUS
  <1> QED
    BY <1>1

(* The groups are numbers.                                                 *)
LEMMA GroupsInt == \A g \in Groups : g \in Int
  BY SlotsAssumption DEF Groups

(* app_init and app_main establish the invariant. *)
LEMMA InitIInv == Init => IInv
  <1> SUFFICES ASSUME Init PROVE IInv
    OBVIOUS
  <1> USE WorkerCountAssumption, SlotsAssumption DEF Init
  <1>1. TypeOK
    BY DEF TypeOK, PCs
  <1>2. SlotConservation /\ BoundedQueues
    BY DEF SlotConservation, BoundedQueues
  <1>3. PromisedSlots /\ UsedFromTop /\ RowsDistinct
    BY DEF PromisedSlots, UsedFromTop, RowsDistinct
  <1>4. idle_slots = Len(groups[Slots - 1]) - group_idx[Slots - 1]
    BY DEF Groups
  <1> QED
    BY <1>1, <1>2, <1>3, <1>4 DEF IInv

(* Steps that move fc_fw_main on, or only queue a packet, touch neither    *)
(* the groups nor the counters.                                            *)
LEMMA QuietStep ==
  ASSUME IInv,
         UNCHANGED <<tokens, sent, groups, group_idx, idle_slots, avail_slots,
                     env>>,
         pending_routed' \in Nat, pending_direct' \in Nat,
         pc' \in PCs, i' \in Int, arrived' \in [lb : Nat, fixed : Nat],
         pc' = "scan" => pc = "scan" /\ i' = i,
         pc' = "busy" => i' <= Slots - 2
  PROVE  IInv'
  <1> USE DEF IInv, env
  <1>1. TypeOK'
    BY DEF TypeOK
  <1>2. SlotConservation' /\ BoundedQueues'
    BY DEF SlotConservation, BoundedQueues
  <1>3. PromisedSlots' /\ UsedFromTop' /\ RowsDistinct'
    BY DEF PromisedSlots, UsedFromTop, RowsDistinct
  <1> QED
    BY <1>1, <1>2, <1>3

(* Steps of the servers, the network and the control core leave fc_fw_main *)
(* alone and never add to what a worker holds.                             *)
LEMMA EnvironmentStep ==
  ASSUME IInv, NEW w \in Workers, CtrlIn(w) \/ Finish(w) \/ Vanish(w)
  PROVE  IInv'
  <1> DEFINE Counts(f) == f \in [Workers -> Nat]
  <1>1. UNCHANGED <<sent, pending_routed, pending_direct, pc, i, groups,
                    group_idx, avail_slots, idle_slots, arrived>>
    BY DEF CtrlIn, Finish, Vanish, core
  <1>i. TypeOK /\ SlotConservation /\ BoundedQueues /\ PromisedSlots
        /\ UsedFromTop /\ RowsDistinct
    BY DEF IInv
  <1>t. /\ Counts(tokens) /\ Counts(sent) /\ Counts(routed) /\ Counts(direct)
        /\ Counts(feedback) /\ Counts(vanished)
    BY DEF IInv, TypeOK
  <1>2. /\ Counts(tokens') /\ Counts(routed') /\ Counts(direct')
        /\ Counts(feedback') /\ Counts(vanished')
        /\ \A v \in Workers : routed'[v] <= routed[v]
    <2>1. CASE CtrlIn(w)
      BY <2>1, <1>t DEF CtrlIn
    <2>2. CASE Finish(w)
      BY <2>2, <1>t DEF Finish
    <2>3. CASE Vanish(w)
      BY <2>3, <1>t DEF Vanish
    <2> QED
      BY <2>1, <2>2, <2>3
  <1>3. TypeOK'
    BY <1>1, <1>2 DEF IInv, TypeOK
  <1>4. SlotConservation'
    <2> SUFFICES ASSUME NEW v \in Workers
                 PROVE  tokens'[v] - sent'[v] = Slots -
                          (routed'[v] + direct'[v] + feedback'[v] + vanished'[v])
      BY DEF SlotConservation
    <2>0. tokens[v] - sent[v] =
            Slots - (routed[v] + direct[v] + feedback[v] + vanished[v])
      BY <1>i DEF SlotConservation
    <2> USE <1>1, <1>t, <2>0, SlotsAssumption
    <2>1. CASE CtrlIn(w)
      BY <2>1 DEF CtrlIn
    <2>2. CASE Finish(w)
      BY <2>2 DEF Finish
    <2>3. CASE Vanish(w)
      BY <2>3 DEF Vanish
    <2> QED
      BY <2>1, <2>2, <2>3
  <1>5. BoundedQueues'
    BY <1>1, <1>2, <1>i, <1>t, SlotsAssumption DEF BoundedQueues
  <1>6. PromisedSlots'
    <2> SUFFICES ASSUME NEW g \in Groups,
                        NEW k \in group_idx[g] + 1 .. Len(groups[g])
                 PROVE  routed'[groups[g][k]] + g + 1 <= Slots
      BY <1>1 DEF PromisedSlots
    <2>0. groups \in [Groups -> Seq(Workers)] /\ group_idx[g] \in Nat
      BY <1>i DEF TypeOK
    <2>1. groups[g][k] \in Workers /\ g \in Int
      <3>1. k \in 1 .. Len(groups[g]) /\ groups[g] \in Seq(Workers)
        BY <2>0, LaterEntry
      <3> QED
        BY <3>1, GroupsInt
    <2>2. routed[groups[g][k]] + g + 1 <= Slots
      BY <1>i DEF PromisedSlots
    <2>3. \A v \in Workers : routed[v] \in Int /\ routed'[v] \in Int
      BY <1>2, <1>t
    <2> DEFINE old == routed[groups[g][k]]
               new == routed'[groups[g][k]]
    <2>4. old \in Int /\ new \in Int /\ new <= old /\ old + g + 1 <= Slots
      BY <1>2, <2>1, <2>2, <2>3
    <2> HIDE DEF old, new
    <2>5. new + g + 1 <= Slots
      BY <2>1, <2>4, SlotsAssumption
    <2> QED
      BY <2>5 DEF new
  <1>7. UsedFromTop' /\ RowsDistinct'
    BY <1>1, <1>i DEF UsedFromTop, RowsDistinct
  <1> QED
    BY <1>1, <1>3, <1>4, <1>5, <1>6, <1>7 DEF IInv

(* Serving an entry of group g: the worker gets one more request, and its  *)
(* entry moves to group g - 1, if there is one.                            *)
LEMMA ServeStep ==
  ASSUME IInv, NEW g \in Groups, Serve(g, g - 1), pc # "scan",
         idle_slots' = idle_slots - (IF g = Slots - 1 THEN 1 ELSE 0),
         UNCHANGED <<tokens, pending_direct, pc, i, direct, feedback, vanished,
                     arrived>>
  PROVE  IInv'
  <1> DEFINE k0 == group_idx[g] + 1
             w  == groups[g][k0]
             Old(h, k) == k \in 1 .. Len(groups[h])
             New(h, k) == g > 0 /\ h = g - 1 /\ k = Len(groups[h]) + 1
  <1>i. TypeOK /\ SlotConservation /\ BoundedQueues /\ PromisedSlots
        /\ UsedFromTop /\ RowsDistinct
        /\ \A h \in Groups : group_idx[h] <= Len(groups[h])
        /\ idle_slots = Len(groups[Slots - 1]) - group_idx[Slots - 1]
        /\ (pc = "busy" => i <= Slots - 2)
    BY DEF IInv
  <1>g. g \in Nat /\ Slots \in Nat /\ g <= Slots - 1 /\ Slots - 1 \in Groups
        /\ (g > 0 => g - 1 \in Groups)
    BY SlotsAssumption DEF Groups
  <1>t. /\ groups \in [Groups -> Seq(Workers)]
        /\ group_idx \in [Groups -> Nat]
        /\ \A h \in Groups : Len(groups[h]) \in Nat /\ group_idx[h] \in Nat
        /\ \A h \in Groups : \A k \in 1 .. Len(groups[h]) : groups[h][k] \in Workers
    BY <1>i DEF TypeOK
  <1>c. /\ tokens \in [Workers -> Nat] /\ sent \in [Workers -> Nat]
        /\ routed \in [Workers -> Nat] /\ direct \in [Workers -> Nat]
        /\ feedback \in [Workers -> Nat] /\ vanished \in [Workers -> Nat]
    BY <1>i DEF TypeOK
  <1>k. k0 \in 1 .. Len(groups[g]) /\ k0 = group_idx[g] + 1 /\ w \in Workers
    BY <1>t DEF Serve, Unused
  <1>p. routed[w] + g + 1 <= Slots
    BY <1>i, <1>t, <1>k DEF PromisedSlots
  <1>r. routed' = [routed EXCEPT ![w] = @ + 1] /\ sent' = [sent EXCEPT ![w] = @ + 1]
    BY DEF Serve
  <1>x. group_idx' = [group_idx EXCEPT ![g] = @ + 1]
    BY DEF Serve
  <1>y. groups' = IF g - 1 >= 0 THEN [groups EXCEPT ![g - 1] = Append(@, w)]
                                ELSE groups
    BY DEF Serve
  <1> HIDE DEF k0, w
  (* What becomes of the rows. *)
  <1>1. /\ groups' \in [Groups -> Seq(Workers)]
        /\ \A h \in Groups : ~ (g > 0 /\ h = g - 1) => groups'[h] = groups[h]
        /\ \A h \in Groups : g > 0 /\ h = g - 1 =>
              /\ Len(groups'[h]) = Len(groups[h]) + 1
              /\ groups'[h][Len(groups[h]) + 1] = w
        /\ \A h \in Groups : \A k \in 1 .. Len(groups[h]) :
              groups'[h][k] = groups[h][k]
    <2>1. CASE g = 0
      BY <2>1, <1>y, <1>t, <1>g
    <2>2. CASE g > 0
      <3>1. g - 1 \in Groups /\ groups' = [groups EXCEPT ![g - 1] = Append(@, w)]
        BY <2>2, <1>g, <1>y
      <3> QED
        BY <2>2, <3>1, <1>t, <1>k, AppendRow
    <2> QED
      BY <2>1, <2>2, <1>g
  <1>2. \A h \in Groups : \A k \in 1 .. Len(groups'[h]) :
          \/ Old(h, k) /\ groups'[h][k] = groups[h][k]
          \/ New(h, k) /\ groups'[h][k] = w
    <2> SUFFICES ASSUME NEW h \in Groups, NEW k \in 1 .. Len(groups'[h])
                 PROVE  \/ Old(h, k) /\ groups'[h][k] = groups[h][k]
                        \/ New(h, k) /\ groups'[h][k] = w
      OBVIOUS
    <2>1. CASE g > 0 /\ h = g - 1
      <3>1. k \in 1 .. Len(groups[h]) \/ k = Len(groups[h]) + 1
        BY <2>1, <1>1, <1>t
      <3> QED
        BY <2>1, <3>1, <1>1
    <2>2. CASE ~ (g > 0 /\ h = g - 1)
      BY <2>2, <1>1
    <2> QED
      BY <2>1, <2>2
  <1>3. /\ group_idx' \in [Groups -> Nat]
        /\ group_idx'[g] = group_idx[g] + 1
        /\ \A h \in Groups : h # g => group_idx'[h] = group_idx[h]
    BY <1>x, <1>t
  (* Old entries still unused belong to other workers; entries of w are    *)
  (* at g or above.                                                        *)
  <1>4. \A h \in Groups : \A k \in group_idx'[h] + 1 .. Len(groups[h]) :
          groups[h][k] # w /\ k \in group_idx[h] + 1 .. Len(groups[h])
    <2> SUFFICES ASSUME NEW h \in Groups,
                        NEW k \in group_idx'[h] + 1 .. Len(groups[h])
                 PROVE  groups[h][k] # w /\ k \in group_idx[h] + 1 .. Len(groups[h])
      OBVIOUS
    <2>1. k \in group_idx[h] + 1 .. Len(groups[h]) /\ k \in 1 .. Len(groups[h])
          /\ ~ (h = g /\ k = k0) /\ h \in Int
      <3>1. group_idx[h] \in Nat /\ group_idx'[h] \in Nat /\ Len(groups[h]) \in Nat
        BY <1>3, <1>t
      <3>2. k \in 1 .. Len(groups[h]) /\ k > group_idx'[h]
        BY <3>1, LaterEntry
      <3>3. CASE h = g
        BY <3>1, <3>2, <3>3, <1>3, <1>k, GroupsInt
      <3>4. CASE h # g
        BY <3>1, <3>2, <3>4, <1>3, GroupsInt
      <3> QED
        BY <3>3, <3>4
    <2>2. k0 \in group_idx[g] + 1 .. Len(groups[g])
      BY <1>k, <1>t
    <2>3. ASSUME groups[h][k] = w PROVE FALSE
      <3>0. groups[h][k] = groups[g][k0]
        BY <2>3 DEF w
      <3>1. h >= g
        BY <1>i, <2>1, <2>2, <3>0 DEF UsedFromTop
      <3>2. g >= h
        BY <1>i, <1>k, <2>1, <3>0 DEF UsedFromTop
      <3>3. h = g
        BY <3>1, <3>2, <2>1, <1>g
      <3>4. k = k0
        BY <1>i, <1>k, <2>1, <3>0, <3>3 DEF RowsDistinct
      <3> QED
        BY <2>1, <3>3, <3>4
    <2> QED
      BY <2>1, <2>3
  <1>5. \A h \in Groups : \A k \in 1 .. Len(groups[h]) : groups[h][k] = w => h >= g
    BY <1>i, <1>k, <1>t DEF UsedFromTop, w
  <1>6. TypeOK'
    <2>1. pending_routed' \in Nat /\ avail_slots' \in Int
      BY <1>i DEF Serve, TypeOK
    <2>2. idle_slots' \in Nat
      <3>1. idle_slots \in Nat
        BY <1>i DEF TypeOK
      <3>2. g = Slots - 1 => idle_slots > 0
        BY <1>i, <1>k, <1>t
      <3> QED
        BY <3>1, <3>2
    <2>3. routed' \in [Workers -> Nat] /\ sent' \in [Workers -> Nat]
      <3>1. routed[w] + 1 \in Nat /\ sent[w] + 1 \in Nat
        BY <1>c, <1>k
      <3> QED
        BY <1>c, <1>r, <3>1
    <2> QED
      BY <1>i, <1>1, <1>3, <2>1, <2>2, <2>3 DEF TypeOK
  <1>7. SlotConservation' /\ BoundedQueues'
    <2>1. BoundedQueues'
      BY <1>i, <1>c, <1>r, <1>k, <1>p, <1>g DEF BoundedQueues
    <2>2. SlotConservation'
      <3> SUFFICES ASSUME NEW v \in Workers
                   PROVE  tokens[v] - sent'[v] = Slots -
                            (routed'[v] + direct[v] + feedback[v] + vanished[v])
        BY DEF SlotConservation
      <3>1. tokens[v] - sent[v] =
              Slots - (routed[v] + direct[v] + feedback[v] + vanished[v])
        BY <1>i DEF SlotConservation
      <3>2. \/ sent'[v] = sent[v] /\ routed'[v] = routed[v]
            \/ sent'[v] = sent[v] + 1 /\ routed'[v] = routed[v] + 1
        BY <1>c, <1>r, <1>k
      <3> QED
        BY <3>1, <3>2, <1>c, <1>g
    <2> QED
      BY <2>1, <2>2
  <1>8. PromisedSlots'
    <2> SUFFICES ASSUME NEW h \in Groups,
                        NEW k \in group_idx'[h] + 1 .. Len(groups'[h])
                 PROVE  routed'[groups'[h][k]] + h + 1 <= Slots
      BY DEF PromisedSlots
    <2>1. k \in 1 .. Len(groups'[h]) /\ h \in Int
      BY <1>3, <1>1, SlotsAssumption DEF Groups
    <2>2. CASE Old(h, k) /\ groups'[h][k] = groups[h][k]
      <3>1. k \in group_idx'[h] + 1 .. Len(groups[h])
        BY <2>2, <1>3, <1>t
      <3>2. groups[h][k] # w /\ routed[groups[h][k]] + h + 1 <= Slots
        BY <3>1, <1>4, <1>i DEF PromisedSlots
      <3>3. routed'[groups[h][k]] = routed[groups[h][k]]
        BY <3>2, <2>2, <1>r, <1>t, <1>i DEF TypeOK
      <3> QED
        BY <2>2, <3>2, <3>3
    <2>3. CASE New(h, k) /\ groups'[h][k] = w
      <3>1. routed[w] \in Nat /\ routed'[w] = routed[w] + 1
        BY <1>i, <1>r, <1>k DEF TypeOK
      <3> QED
        BY <2>3, <3>1, <1>p, <1>g
    <2> QED
      BY <2>1, <2>2, <2>3, <1>2
  <1>9. UsedFromTop'
    <2> SUFFICES ASSUME NEW a \in Groups, NEW h \in Groups,
                        NEW k \in 1 .. Len(groups'[a]),
                        NEW l \in group_idx'[h] + 1 .. Len(groups'[h]),
                        groups'[a][k] = groups'[h][l]
                 PROVE  a >= h
      BY DEF UsedFromTop
    <2>1. l \in 1 .. Len(groups'[h]) /\ h \in Int /\ a \in Int
      <3>1. groups'[h] \in Seq(Workers) /\ group_idx'[h] \in Nat
        BY <1>3, <1>1
      <3> QED
        BY <3>1, LaterEntry, GroupsInt
    <2>2. CASE New(h, l) /\ groups'[h][l] = w
      <3>1. CASE New(a, k)
        <4>1. a = h
          BY <2>2, <3>1
        <4> QED
          BY <4>1, <2>1
      <3>2. CASE Old(a, k) /\ groups'[a][k] = groups[a][k]
        <4>1. a >= g
          BY <2>2, <3>2, <1>5
        <4> QED
          BY <4>1, <2>2, <2>1, <1>g
      <3> QED
        BY <3>1, <3>2, <1>2
    <2>3. CASE Old(h, l) /\ groups'[h][l] = groups[h][l]
      <3>1. l \in group_idx'[h] + 1 .. Len(groups[h])
        BY <2>3, <1>3, <1>t, SMTT(30)
      <3>2. groups[h][l] # w /\ l \in group_idx[h] + 1 .. Len(groups[h])
        BY <3>1, <1>4
      <3>3. Old(a, k) /\ groups'[a][k] = groups[a][k]
        BY <1>2, <2>3, <3>2
      <3> QED
        BY <3>2, <3>3, <2>3, <1>i DEF UsedFromTop
    <2> QED
      BY <2>1, <2>2, <2>3, <1>2
  <1>10. RowsDistinct'
    <2> SUFFICES ASSUME NEW h \in Groups,
                        NEW k \in 1 .. Len(groups'[h]),
                        NEW l \in 1 .. Len(groups'[h]),
                        groups'[h][k] = groups'[h][l]
                 PROVE  k = l
      BY DEF RowsDistinct
    <2>1. ASSUME NEW m \in 1 .. Len(groups[h]), groups[h][m] = w, g > 0, h = g - 1
          PROVE  FALSE
      BY <2>1, <1>5, <1>g
    <2>2. CASE New(h, k)
      <3>1. ~ Old(h, l) \/ groups[h][l] # w
        BY <2>1, <2>2
      <3> QED
        BY <2>2, <3>1, <1>1, <1>2
    <2>3. CASE New(h, l)
      <3>1. ~ Old(h, k) \/ groups[h][k] # w
        BY <2>1, <2>3
      <3> QED
        BY <2>3, <3>1, <1>1, <1>2
    <2>4. CASE Old(h, k) /\ Old(h, l)
      BY <2>4, <1>1, <1>i DEF RowsDistinct
    <2> QED
      BY <2>2, <2>3, <2>4, <1>2
  <1>11. /\ \A h \in Groups : group_idx'[h] <= Len(groups'[h])
         /\ idle_slots' = Len(groups'[Slots - 1]) - group_idx'[Slots - 1]
    <2>1. groups'[Slots - 1] = groups[Slots - 1] /\ groups'[g] = groups[g]
      BY <1>1, <1>g
    <2>2. \A h \in Groups : Len(groups'[h]) >= Len(groups[h])
      BY <1>1, <1>t
    <2>3. idle_slots' = Len(groups'[Slots - 1]) - group_idx'[Slots - 1]
      <3>1. CASE g = Slots - 1
        BY <3>1, <2>1, <1>3, <1>i, <1>t
      <3>2. CASE g # Slots - 1
        BY <3>2, <2>1, <1>3, <1>i, <1>g, <1>t
      <3> QED
        BY <3>1, <3>2
    <2>4. ASSUME NEW h \in Groups
          PROVE  group_idx'[h] <= Len(groups'[h])
      <3>1. CASE h = g
        BY <3>1, <2>1, <1>3, <1>k, <1>t
      <3>2. CASE h # g
        <4>1. group_idx'[h] <= Len(groups[h]) /\ group_idx'[h] \in Nat
          BY <3>2, <1>3, <1>i
        <4>2. Len(groups'[h]) \in Nat
          BY <1>1
        <4> QED
          BY <4>1, <4>2, <2>2, <1>t
      <3> QED
        BY <3>1, <3>2
    <2> QED
      BY <2>3, <2>4
  <1>12. pc' # "scan" /\ (pc' = "busy" => i' <= Slots - 2)
    BY <1>i
  <1> QED
    BY <1>6, <1>7, <1>8, <1>9, <1>10, <1>11, <1>12 DEF IInv

(* Direct requests use a slot of targets[0] behind the groups' back.       *)
LEMMA SendDirectStep == IInv /\ SendDirect => IInv'
  <1> SUFFICES ASSUME IInv, SendDirect PROVE IInv'
    OBVIOUS
  <1>i. TypeOK /\ SlotConservation /\ BoundedQueues /\ PromisedSlots
        /\ UsedFromTop /\ RowsDistinct
    BY DEF IInv
  <1>1. /\ UNCHANGED <<tokens, pending_routed, pc, i, groups, group_idx,
                       avail_slots, idle_slots, routed, feedback, vanished,
                       arrived>>
        /\ sent' = [sent EXCEPT ![0] = @ + 1]
        /\ direct' = [direct EXCEPT ![0] = @ + 1]
        /\ pending_direct > 0 /\ pending_direct' = pending_direct - 1
    BY DEF SendDirect, core
  <1>c. /\ tokens \in [Workers -> Nat] /\ sent \in [Workers -> Nat]
        /\ routed \in [Workers -> Nat] /\ direct \in [Workers -> Nat]
        /\ feedback \in [Workers -> Nat] /\ vanished \in [Workers -> Nat]
    BY <1>i DEF TypeOK
  <1>2. TypeOK'
    <2>0. 0 \in Workers
      BY WorkerCountAssumption DEF Workers
    <2>1. sent' \in [Workers -> Nat] /\ direct' \in [Workers -> Nat]
      BY <1>1, <1>c, <2>0
    <2>2. pending_direct' \in Nat
      BY <1>1, <1>i DEF TypeOK
    <2> QED
      BY <1>1, <1>i, <2>1, <2>2 DEF TypeOK
  <1>3. SlotConservation'
    <2> SUFFICES ASSUME NEW v \in Workers
                 PROVE  tokens[v] - sent'[v] = Slots -
                          (routed[v] + direct'[v] + feedback[v] + vanished[v])
      BY <1>1 DEF SlotConservation
    <2>1. tokens[v] - sent[v] =
            Slots - (routed[v] + direct[v] + feedback[v] + vanished[v])
      BY <1>i DEF SlotConservation
    <2>2. \/ sent'[v] = sent[v] /\ direct'[v] = direct[v]
          \/ sent'[v] = sent[v] + 1 /\ direct'[v] = direct[v] + 1
      BY <1>c, <1>1
    <2> QED
      BY <2>1, <2>2, <1>c, SlotsAssumption
  <1>4. BoundedQueues' /\ PromisedSlots' /\ UsedFromTop' /\ RowsDistinct'
    BY <1>1, <1>i, SMTT(30) DEF BoundedQueues, PromisedSlots, UsedFromTop, RowsDistinct
  <1> QED
    BY <1>1, <1>2, <1>3, <1>4 DEF IInv

(* net_poll returns: either the groups stay, or they are all emptied.      *)
LEMMA PollDoneStep == IInv /\ PollDone => IInv'
  <1> SUFFICES ASSUME IInv, PollDone PROVE IInv'
    OBVIOUS
  <1>i. TypeOK /\ SlotConservation /\ BoundedQueues
    BY DEF IInv
  <1>1. UNCHANGED <<tokens, sent, pending_routed, pending_direct, env, arrived>>
    BY DEF PollDone
  <1>2. CASE NeedScan
    <2>1. /\ avail_slots' = 0 /\ idle_slots' = 0 /\ i' = 0 /\ pc' = "scan"
          /\ groups' = [g \in Groups |-> <<>>]
          /\ group_idx' = [g \in Groups |-> 0]
      BY <1>2 DEF PollDone
    <2>2. TypeOK'
      BY <1>1, <1>i, <2>1 DEF TypeOK, PCs, env
    <2>3. SlotConservation' /\ BoundedQueues'
      BY <1>1, <1>i DEF SlotConservation, BoundedQueues, env
    <2>4. PromisedSlots' /\ UsedFromTop' /\ RowsDistinct'
      BY <2>1 DEF PromisedSlots, UsedFromTop, RowsDistinct
    <2>5. Slots - 1 \in Groups
      BY SlotsAssumption DEF Groups
    <2>6. /\ \A g \in Groups : group_idx'[g] <= Len(groups'[g])
          /\ idle_slots' = Len(groups'[Slots - 1]) - group_idx'[Slots - 1]
          /\ i' \in 0 .. WorkerCount
          /\ \A g \in Groups : \A k \in 1 .. Len(groups'[g]) : groups'[g][k] < i'
      BY <2>1, <2>5, WorkerCountAssumption
    <2> QED
      BY <2>1, <2>2, <2>3, <2>4, <2>6 DEF IInv
  <1>3. CASE ~ NeedScan
    <2>1. pc' = "direct" /\ UNCHANGED <<i, groups, group_idx, avail_slots, idle_slots>>
      BY <1>3 DEF PollDone
    <2> QED
      BY <1>1, <1>i, <2>1, QuietStep DEF TypeOK, PCs
  <1> QED
    BY <1>2, <1>3

(* The scan files worker i, of which no row has an entry yet, in the row   *)
(* for the slots it has left.                                              *)
LEMMA ScanTargetStep == IInv /\ ScanTarget => IInv'
  <1> SUFFICES ASSUME IInv, ScanTarget PROVE IInv'
    OBVIOUS
  <1>i. /\ TypeOK /\ SlotConservation /\ BoundedQueues /\ PromisedSlots
        /\ UsedFromTop /\ RowsDistinct
        /\ \A h \in Groups : group_idx[h] <= Len(groups[h])
        /\ idle_slots = Len(groups[Slots - 1]) - group_idx[Slots - 1]
    BY DEF IInv
  <1>1. /\ UNCHANGED <<tokens, sent, pending_routed, pending_direct, pc,
                       group_idx, env, arrived>>
        /\ i' = i + 1
    BY DEF ScanTarget
  <1>2. /\ pc = "scan" /\ i \in Workers /\ i \in Int /\ i' \in 0 .. WorkerCount
        /\ i' \in Int
        /\ \A g \in Groups : \A k \in 1 .. Len(groups[g]) : groups[g][k] < i
    BY WorkerCountAssumption DEF IInv, ScanTarget, Workers
  <1>t. /\ groups \in [Groups -> Seq(Workers)]
        /\ group_idx \in [Groups -> Nat]
        /\ \A h \in Groups : Len(groups[h]) \in Nat /\ group_idx[h] \in Nat
        /\ \A h \in Groups : \A k \in 1 .. Len(groups[h]) : groups[h][k] \in Int
    <2>1. groups \in [Groups -> Seq(Workers)] /\ group_idx \in [Groups -> Nat]
      BY <1>i DEF TypeOK
    <2>2. \A h \in Groups : \A k \in 1 .. Len(groups[h]) : groups[h][k] \in Workers
      BY <2>1
    <2>3. \A w \in Workers : w \in Int
      BY WorkerCountAssumption DEF Workers
    <2> QED
      BY <2>1, <2>2, <2>3
  <1>u. /\ tokens[i] \in Nat /\ sent[i] \in Nat /\ routed[i] \in Nat
        /\ direct[i] \in Nat /\ feedback[i] \in Nat /\ vanished[i] \in Nat
    BY <1>i, <1>2 DEF TypeOK
  <1>3. SlotConservation' /\ BoundedQueues'
    BY <1>1, <1>i DEF SlotConservation, BoundedQueues, env
  <1>4. CASE Avail(i) < 1
    <2>1. UNCHANGED <<groups, avail_slots, idle_slots>>
      BY <1>4 DEF ScanTarget
    <2>2. TypeOK'
      BY <1>1, <1>2, <1>i, <2>1 DEF TypeOK, env
    <2>3. PromisedSlots' /\ UsedFromTop' /\ RowsDistinct'
      BY <1>1, <1>i, <2>1, SMTT(30) DEF PromisedSlots, UsedFromTop, RowsDistinct, env
    <2>4. \A g \in Groups : \A k \in 1 .. Len(groups'[g]) : groups'[g][k] < i'
      BY <1>1, <1>2, <1>t, <2>1
    <2> QED
      BY <1>1, <1>2, <1>3, <1>i, <2>1, <2>2, <2>3, <2>4 DEF IInv
  <1>5. CASE ~ (Avail(i) < 1)
    <2> DEFINE d == Avail(i) - 1
    <2>1. /\ groups' = [groups EXCEPT ![d] = Append(@, i)]
          /\ avail_slots' = avail_slots + Avail(i)
          /\ idle_slots' = idle_slots + (IF Avail(i) = Slots THEN 1 ELSE 0)
      BY <1>5 DEF ScanTarget
    <2>2. d \in Groups /\ d \in Int /\ routed[i] + d + 1 <= Slots /\ Slots - 1 \in Groups
          /\ Avail(i) \in Int /\ (Avail(i) = Slots <=> d = Slots - 1)
      <3>1. tokens[i] - sent[i] =
              Slots - (routed[i] + direct[i] + feedback[i] + vanished[i])
        BY <1>i, <1>2 DEF SlotConservation
      <3>2. Avail(i) \in Int /\ Avail(i) >= 1 /\ routed[i] + Avail(i) <= Slots
        BY <3>1, <1>5, <1>u, SlotsAssumption DEF Avail
      <3> QED
        BY <3>2, <1>u, SlotsAssumption DEF Groups
    <2> HIDE DEF d
    <2>3. /\ groups' \in [Groups -> Seq(Workers)]
          /\ \A h \in Groups : h # d => groups'[h] = groups[h]
          /\ Len(groups'[d]) = Len(groups[d]) + 1
          /\ groups'[d][Len(groups[d]) + 1] = i
          /\ \A k \in 1 .. Len(groups[d]) : groups'[d][k] = groups[d][k]
      BY <2>1, <2>2, <1>2, <1>t, AppendRow
    <2>4. \A h \in Groups : \A k \in 1 .. Len(groups'[h]) :
            \/ k \in 1 .. Len(groups[h]) /\ groups'[h][k] = groups[h][k]
                 /\ groups[h][k] < i
            \/ h = d /\ k = Len(groups[h]) + 1 /\ groups'[h][k] = i
      <3> SUFFICES ASSUME NEW h \in Groups, NEW k \in 1 .. Len(groups'[h])
                   PROVE  \/ k \in 1 .. Len(groups[h]) /\ groups'[h][k] = groups[h][k]
                               /\ groups[h][k] < i
                          \/ h = d /\ k = Len(groups[h]) + 1 /\ groups'[h][k] = i
        OBVIOUS
      <3>1. k \in 1 .. Len(groups[h]) \/ (h = d /\ k = Len(groups[h]) + 1)
        BY <2>2, <2>3, <1>t
      <3> QED
        BY <3>1, <2>3, <1>2
    <2>5. TypeOK'
      <3>0. idle_slots \in Nat /\ avail_slots \in Int
        BY <1>i DEF TypeOK
      <3>1. idle_slots' \in Nat /\ avail_slots' \in Int
        BY <2>1, <2>2, <3>0
      <3> QED
        BY <3>1, <2>3, <1>1, <1>2, <1>i DEF TypeOK, env
    <2>6. PromisedSlots'
      <3> SUFFICES ASSUME NEW h \in Groups, NEW k \in group_idx[h] + 1 .. Len(groups'[h])
                   PROVE  routed[groups'[h][k]] + h + 1 <= Slots
        BY <1>1 DEF PromisedSlots, env
      <3>1. k \in 1 .. Len(groups'[h])
        BY <1>t, <2>3
      <3>2. CASE k \in 1 .. Len(groups[h]) /\ groups'[h][k] = groups[h][k]
        <4>1. k \in group_idx[h] + 1 .. Len(groups[h])
          BY <3>2, <1>t, SMTT(30)
        <4> QED
          BY <3>2, <4>1, <1>i DEF PromisedSlots
      <3>3. CASE h = d /\ groups'[h][k] = i
        BY <3>3, <2>2
      <3> QED
        BY <3>1, <3>2, <3>3, <2>4
    <2>7. UsedFromTop'
      <3> SUFFICES ASSUME NEW a \in Groups, NEW h \in Groups,
                          NEW k \in 1 .. Len(groups'[a]),
                          NEW l \in group_idx[h] + 1 .. Len(groups'[h]),
                          groups'[a][k] = groups'[h][l]
                   PROVE  a >= h
        BY <1>1 DEF UsedFromTop
      <3>1. l \in 1 .. Len(groups'[h]) /\ h \in Int /\ a \in Int
        <4>1. groups'[h] \in Seq(Workers) /\ group_idx[h] \in Nat
          BY <1>t, <2>3
        <4> QED
          BY <4>1, LaterEntry, GroupsInt
      <3>2. CASE a = d /\ h = d
        BY <3>2, <3>1, SMTT(30)
      <3>3. CASE /\ k \in 1 .. Len(groups[a]) /\ groups'[a][k] = groups[a][k]
                 /\ l \in 1 .. Len(groups[h]) /\ groups'[h][l] = groups[h][l]
        <4>1. l \in group_idx[h] + 1 .. Len(groups[h])
          BY <3>3, <1>t
        <4> QED
          BY <3>3, <4>1, <1>i DEF UsedFromTop
      <3>4. ASSUME groups'[a][k] = i \/ groups'[h][l] = i
            PROVE  a = d /\ h = d
        <4>1. ~ (groups'[a][k] < i) /\ ~ (groups'[h][l] < i)
          BY <3>4, <1>2
        <4> QED
          BY <4>1, <2>4, <3>1
      <3> QED
        BY <3>1, <3>2, <3>3, <3>4, <2>4
    <2>8. RowsDistinct'
      <3> SUFFICES ASSUME NEW h \in Groups,
                          NEW k \in 1 .. Len(groups'[h]),
                          NEW l \in 1 .. Len(groups'[h]),
                          groups'[h][k] = groups'[h][l]
                   PROVE  k = l
        BY DEF RowsDistinct
      <3>1. CASE k \in 1 .. Len(groups[h]) /\ l \in 1 .. Len(groups[h])
        <4>1. groups'[h][k] = groups[h][k] /\ groups'[h][l] = groups[h][l]
          BY <3>1, <2>3
        <4> QED
          BY <3>1, <4>1, <1>i DEF RowsDistinct
      <3> QED
        BY <3>1, <2>4, <1>2, SMTT(30)
    <2>9. /\ \A h \in Groups : group_idx[h] <= Len(groups'[h])
          /\ idle_slots' = Len(groups'[Slots - 1]) - group_idx[Slots - 1]
      <3>1. \A h \in Groups : group_idx[h] <= Len(groups'[h])
        BY <2>3, <1>i, <1>t, <2>2, SMTT(30)
      <3>2. CASE d = Slots - 1
        BY <3>2, <2>1, <2>2, <2>3, <1>i, <1>t, SMTT(30)
      <3>3. CASE d # Slots - 1
        BY <3>3, <2>1, <2>2, <2>3, <1>i, <1>t, SMTT(30)
      <3> QED
        BY <3>1, <3>2, <3>3
    <2>10. ASSUME NEW g \in Groups, NEW k \in 1 .. Len(groups'[g])
           PROVE  groups'[g][k] < i'
      <3>1. CASE groups'[g][k] = i
        BY <3>1, <1>1, <1>2, SMTT(30)
      <3>2. CASE /\ k \in 1 .. Len(groups[g]) /\ groups'[g][k] = groups[g][k]
                 /\ groups[g][k] < i
        <4>1. groups[g][k] \in Int
          BY <3>2, <1>t
        <4> QED
          BY <4>1, <3>2, <1>1, <1>2
      <3> QED
        BY <3>1, <3>2, <2>4
    <2> QED
      BY <1>1, <1>2, <1>3, <2>5, <2>6, <2>7, <2>8, <2>9, <2>10 DEF IInv
  <1> QED
    BY <1>4, <1>5

(* Every step of either core, and of the servers, keeps the invariant. *)
LEMMA NextIInv == IInv /\ [Next]_vars => IInv'
  <1> SUFFICES ASSUME IInv, [Next]_vars PROVE IInv'
    OBVIOUS
  <1>t. TypeOK /\ (pc = "busy" => i <= Slots - 2)
    BY DEF IInv
  <1>n. /\ pending_routed \in Nat /\ pending_direct \in Nat /\ pc \in PCs
        /\ i \in Int /\ arrived \in [lb : Nat, fixed : Nat] /\ Slots \in Nat
    BY <1>t, SlotsAssumption DEF TypeOK
  <1>1. CASE FcFwInRouted
    <2>1. arrived' \in [lb : Nat, fixed : Nat] /\ pending_routed' \in Nat
      BY <1>1, <1>n DEF FcFwInRouted
    <2> QED
      BY <1>1, <1>n, <1>t, <2>1, QuietStep DEF FcFwInRouted, core
  <1>2. CASE FcFwInDirect
    <2>1. arrived' \in [lb : Nat, fixed : Nat] /\ pending_direct' \in Nat
      BY <1>2, <1>n DEF FcFwInDirect
    <2> QED
      BY <1>2, <1>n, <1>t, <2>1, QuietStep DEF FcFwInDirect, core
  <1>3. CASE PollDone
    BY <1>3, PollDoneStep
  <1>4. CASE ScanTarget
    BY <1>4, ScanTargetStep
  <1>5. CASE ScanDone
    BY <1>5, <1>n, QuietStep DEF ScanDone, PCs
  <1>6. CASE SendDirect
    BY <1>6, SendDirectStep
  <1>7. CASE DirectDone
    <2>1. pc' \in PCs /\ pc' # "scan" /\ i' \in Int /\ i' <= Slots - 2
      BY <1>7, <1>n DEF DirectDone, PCs
    <2> QED
      BY <1>7, <1>n, <2>1, QuietStep DEF DirectDone
  <1>8. CASE ServeIdle
    <2>1. Slots - 1 \in Groups /\ (Slots - 1) - 1 = Slots - 2
      BY SlotsAssumption DEF Groups
    <2> QED
      BY <1>8, <2>1, ServeStep DEF ServeIdle
  <1>9. CASE IdleDone
    BY <1>9, <1>n, QuietStep DEF IdleDone, PCs
  <1>10. CASE ServeBusy
    <2>1. i \in Groups /\ i # Slots - 1
      BY <1>10, <1>n, <1>t DEF ServeBusy, Groups
    <2>2. idle_slots \in Nat
      BY <1>t DEF TypeOK
    <2> QED
      BY <1>10, <2>1, <2>2, ServeStep DEF ServeBusy
  <1>11. CASE BusyNext
    <2>1. pc' \in {"poll", "busy"} /\ i' \in Int /\ i' <= Slots - 2
      BY <1>11, <1>n, <1>t DEF BusyNext
    <2> QED
      BY <1>11, <1>n, <2>1, QuietStep DEF BusyNext, PCs
  <1>12. ASSUME NEW w \in Workers, CtrlIn(w) \/ Finish(w) \/ Vanish(w)
         PROVE  IInv'
    BY <1>12, EnvironmentStep
  <1>13. CASE UNCHANGED vars
    BY <1>13, <1>n, <1>t, QuietStep DEF vars, core
  <1> QED
    BY <1>1, <1>2, <1>3, <1>4, <1>5, <1>6, <1>7, <1>8, <1>9, <1>10, <1>11,
       <1>12, <1>13 DEF Next, AppCore

-----------------------------------------------------------------------------
(* The inductive invariant of the FC router.                               *)
THEOREM Invariance == Spec => []IInv
  BY InitIInv, NextIInv, PTL DEF Spec

(* Type correctness of the FC router's state.                              *)
THEOREM TypeCorrect == Spec => []TypeOK
  <1>1. IInv => TypeOK
    BY DEF IInv
  <1> QED
    BY <1>1, Invariance, PTL

(* tokens and sent account for every slot, whatever the two cores, the     *)
(* servers and the network do.                                             *)
THEOREM SlotsConserved == Spec => []SlotConservation
  <1>1. IInv => SlotConservation
    BY DEF IInv
  <1> QED
    BY <1>1, Invariance, PTL

(* JBSQ(n): fc_fw_main never lets a worker hold more than per_queue_slots  *)
(* routed requests.                                                        *)
THEOREM QueuesBounded == Spec => []BoundedQueues
  <1>1. IInv => BoundedQueues
    BY DEF IInv
  <1> QED
    BY <1>1, Invariance, PTL

(* The scan and the demotions stay inside target_group: rows below         *)
(* per_queue_slots, at most worker_count entries each.                     *)
THEOREM RowsAlwaysFit == Spec => []RowsFit
  <1>1. IInv => RowsFit
    <2> SUFFICES ASSUME IInv PROVE RowsFit
      OBVIOUS
    <2>1. ASSUME NEW g \in Groups PROVE Len(groups[g]) <= WorkerCount
      <3>1. groups[g] \in Seq(Workers)
        BY DEF IInv, TypeOK
      <3>2. \A k, l \in 1 .. Len(groups[g]) : groups[g][k] = groups[g][l] => k = l
        BY DEF IInv, RowsDistinct
      <3> QED
        BY <3>1, <3>2, RowLength
    <2>2. ASSUME NEW w \in Workers PROVE Avail(w) <= Slots
      <3>1. tokens[w] - sent[w] =
              Slots - (routed[w] + direct[w] + feedback[w] + vanished[w])
        BY DEF IInv, SlotConservation
      <3>2. /\ tokens[w] \in Nat /\ sent[w] \in Nat /\ routed[w] \in Nat
            /\ direct[w] \in Nat /\ feedback[w] \in Nat /\ vanished[w] \in Nat
        BY DEF IInv, TypeOK
      <3>3. tokens[w] - sent[w] <= Slots
        BY <3>1, <3>2, SlotsAssumption
      <3> QED
        BY <3>3 DEF Avail
    <2>3. \A g \in Groups : group_idx[g] <= Len(groups[g])
      BY DEF IInv
    <2> QED
      BY <2>1, <2>2, <2>3 DEF RowsFit
  <1> QED
    BY <1>1, Invariance, PTL

-----------------------------------------------------------------------------
(* Serving a group leaves the groups above it as they were.                *)
LEMMA ServeAbove ==
  ASSUME IInv, NEW g \in Groups, Serve(g, g - 1), NEW h \in Groups, h > g
  PROVE  Unused(h)' <=> Unused(h)
  <1>1. g \in Int /\ h \in Int
    BY SlotsAssumption DEF Groups
  <1>2. group_idx \in [Groups -> Nat] /\ groups \in [Groups -> Seq(Workers)]
    BY DEF IInv, TypeOK
  <1>3. group_idx'[h] = group_idx[h]
    BY <1>1, <1>2, SMTT(30) DEF Serve
  <1>4. groups'[h] = groups[h]
    BY <1>1, <1>2, SMTT(30) DEF Serve
  <1> QED
    BY <1>3, <1>4 DEF Unused

(* Every step serves the least loaded group that has a target left. *)
LEMMA NextDrained == IInv /\ Drained /\ [Next]_vars => Drained'
  <1> SUFFICES ASSUME IInv, Drained, [Next]_vars, pc' = "busy"
               PROVE  \A h \in Groups : h > i' => ~ Unused(h)'
    BY DEF Drained
  <1>t. i \in Int /\ Slots \in Nat \ {0} /\ pending_routed \in Nat
        /\ idle_slots = Len(groups[Slots - 1]) - group_idx[Slots - 1]
        /\ (pc = "busy" => i <= Slots - 2)
    BY SlotsAssumption DEF IInv, TypeOK
  <1>1. CASE DirectDone
    <2>1. idle_slots = 0 /\ i' = Slots - 2 /\ UNCHANGED <<groups, group_idx>>
      BY <1>1 DEF DirectDone
    <2>2. ~ Unused(Slots - 1)
      <3>1. Slots - 1 \in Groups
        BY <1>t DEF Groups
      <3>2. Len(groups[Slots - 1]) \in Nat /\ group_idx[Slots - 1] \in Nat
        BY <3>1 DEF IInv, TypeOK
      <3> QED
        BY <2>1, <1>t, <3>2 DEF Unused
    <2>3. \A h \in Groups : h > i' => h = Slots - 1
      BY <2>1, <1>t DEF Groups
    <2> QED
      BY <2>1, <2>2, <2>3 DEF Unused
  <1>2. CASE ServeBusy
    <2>1. i \in Groups /\ Serve(i, i - 1) /\ i' = i /\ pc = "busy"
      BY <1>2, <1>t DEF ServeBusy, Groups
    <2> QED
      BY <2>1, ServeAbove DEF Drained
  <1>3. CASE BusyNext
    <2>1. /\ pc = "busy" /\ i' = i - 1 /\ UNCHANGED <<groups, group_idx>>
          /\ ~ Unused(i)
      BY <1>3, <1>t DEF BusyNext
    <2>2. \A h \in Groups : h > i' => h = i \/ h > i
      BY <2>1, <1>t DEF Groups
    <2> QED
      BY <2>1, <2>2 DEF Drained, Unused
  <1>4. CASE UNCHANGED <<pc, i, groups, group_idx>>
    BY <1>4 DEF Drained, Unused
  <1>5. ~ PollDone /\ ~ ScanTarget /\ ~ ScanDone /\ ~ ServeIdle /\ ~ IdleDone
    BY DEF PollDone, ScanTarget, ScanDone, ServeIdle, IdleDone
  <1> QED
    BY <1>1, <1>2, <1>3, <1>4, <1>5
    DEF Next, AppCore, FcFwInRouted, FcFwInDirect, SendDirect, CtrlIn, Finish,
        Vanish, vars, core

(* The order of the loops in fc_fw_main: every routed request goes to one  *)
(* of the workers with the most free slots the router knows of.            *)
THEOREM ServesLeastLoadedFirst == Spec => LeastLoadedFirst
  <1> DEFINE A == \A g \in Groups : group_idx'[g] > group_idx[g] =>
                    \A h \in Groups : h > g => ~ Unused(h)
  <1>1. Init => Drained
    BY DEF Init, Drained
  <1>2. IInv /\ Drained /\ [Next]_vars => [A]_vars
    <2> SUFFICES ASSUME IInv, Drained, Next,
                        NEW g \in Groups, group_idx'[g] > group_idx[g],
                        NEW h \in Groups, h > g
                 PROVE  ~ Unused(h)
      OBVIOUS
    <2>t. /\ g \in Int /\ h \in Int /\ h <= Slots - 1 /\ Slots \in Nat /\ i \in Int
          /\ group_idx \in [Groups -> Nat]
      <3>1. i \in Int /\ group_idx \in [Groups -> Nat]
        BY DEF IInv, TypeOK
      <3>2. g \in Int /\ h \in Int /\ h <= Slots - 1 /\ Slots \in Nat
        BY SlotsAssumption DEF Groups
      <3> QED
        BY <3>1, <3>2
    <2>1. CASE ServeIdle
      <3>0. group_idx' = [group_idx EXCEPT ![Slots - 1] = @ + 1]
        BY <2>1 DEF ServeIdle, Serve
      <3>1. g = Slots - 1
        BY <3>0, <2>t
      <3> QED
        BY <3>1, <2>t
    <2>2. CASE ServeBusy
      <3>1. g = i /\ pc = "busy"
        BY <2>2, <2>t, SMTT(30) DEF ServeBusy, Serve
      <3> QED
        BY <3>1 DEF Drained
    <2>3. CASE PollDone
      <3>1. group_idx'[g] = 0 \/ group_idx'[g] = group_idx[g]
        BY <2>3 DEF PollDone
      <3> QED
        BY <3>1, <2>t
    <2>4. CASE group_idx' = group_idx
      BY <2>4, <2>t
    <2> QED
      BY <2>1, <2>2, <2>3, <2>4
      DEF Next, AppCore, FcFwInRouted, FcFwInDirect, SendDirect, CtrlIn, Finish,
          Vanish, ScanTarget, ScanDone, DirectDone, IdleDone, BusyNext, core
  <1>3. Spec => []Drained
    BY <1>1, Invariance, NextDrained, PTL DEF Spec
  <1> QED
    BY <1>2, <1>3, Invariance, PTL DEF Spec, LeastLoadedFirst

(* The slots of entry k of group g.                                        *)
EntrySlots(g, k) == ({g} \X {k}) \X (0 .. g)

(* An entry of group g stands for g + 1 slots.                             *)
LEMMA EntrySlotsCount ==
  ASSUME NEW g \in Groups, NEW k
  PROVE  IsFiniteSet(EntrySlots(g, k)) /\ Cardinality(EntrySlots(g, k)) = g + 1
  <1>1. g \in Nat /\ 0 \in Int /\ g \in Int
    BY SlotsAssumption DEF Groups
  <1>2. PICK A, B, C : A = {g} /\ B = {k} /\ C = 0 .. g
    BY Zenon
  <1>3. /\ IsFiniteSet(A) /\ Cardinality(A) = 1
        /\ IsFiniteSet(B) /\ Cardinality(B) = 1
    BY <1>2, FS_Singleton, Zenon
  <1>4. IsFiniteSet(C) /\ Cardinality(C) = g + 1
    <2>1. /\ IsFiniteSet(C)
          /\ Cardinality(C) = IF 0 > g THEN 0 ELSE g - 0 + 1
      BY <1>1, <1>2, FS_Interval, Zenon
    <2> QED
      BY <1>1, <2>1
  <1>5. IsFiniteSet(A \X B) /\ Cardinality(A \X B) = Cardinality(A) * Cardinality(B)
    BY <1>3, FS_Product, Zenon
  <1>6. PICK D : D = A \X B
    BY Zenon
  <1>7. IsFiniteSet(D) /\ Cardinality(D) = 1
    BY <1>3, <1>5, <1>6
  <1>8. IsFiniteSet(D \X C) /\ Cardinality(D \X C) = Cardinality(D) * Cardinality(C)
    BY <1>4, <1>7, FS_Product, Zenon
  <1>9. Cardinality(D \X C) = g + 1
    BY <1>1, <1>4, <1>7, <1>8
  <1> QED
    BY <1>2, <1>6, <1>8, <1>9, Zenon DEF EntrySlots

(* The slots of several entries of a group.                                *)
LEMMA SlotsOfEntries ==
  ASSUME NEW g, NEW E, NEW x
  PROVE  x \in ({g} \X E) \X (0 .. g) <=> \E k \in E : x \in EntrySlots(g, k)
  BY DEF EntrySlots

(* A slot is of an unused entry of its group.                              *)
SlotsAre ==
  \A x : x \in CachedSlots <=>
    \E g \in Groups : \E k \in group_idx[g] + 1 .. Len(groups[g]) : x \in EntrySlots(g, k)

(* The cached slots are those of the unused entries.                       *)
LEMMA CachedSlotsAre == SlotsAre
  <1>1. \A x : x \in CachedSlots <=>
          \E g \in Groups : x \in ({g} \X (group_idx[g] + 1 .. Len(groups[g]))) \X (0 .. g)
    BY Zenon DEF CachedSlots, UnusedEntries
  <1> QED
    BY <1>1, SlotsOfEntries, ZenonT(60) DEF SlotsAre

(* Entries of different groups or places share no slots.                   *)
LEMMA EntrySlotsApart ==
  ASSUME NEW g, NEW k, NEW h, NEW l, NEW x, x \in EntrySlots(g, k), x \in EntrySlots(h, l)
  PROVE  g = h /\ k = l
  BY DEF EntrySlots

(* Entry k of group g becomes one of the unused entries.                   *)
LEMMA EntryAdded ==
  ASSUME NEW S, IsFiniteSet(S), NEW g \in Groups, NEW k,
         \A x \in EntrySlots(g, k) : x \notin S
  PROVE  /\ IsFiniteSet(S \cup EntrySlots(g, k))
         /\ Cardinality(S \cup EntrySlots(g, k)) = Cardinality(S) + g + 1
  <1>1. PICK T : T = EntrySlots(g, k)
    BY Zenon
  <1>2. IsFiniteSet(T) /\ Cardinality(T) = g + 1
    BY <1>1, EntrySlotsCount, Zenon
  <1>3. S \cap T = {}
    BY <1>1, Zenon
  <1>4. /\ IsFiniteSet(S \cup T)
        /\ Cardinality(S \cup T) = Cardinality(S) + Cardinality(T) - Cardinality(S \cap T)
    BY <1>2, FS_Union, Zenon
  <1>5. Cardinality(S \cap T) = 0
    BY <1>3, FS_EmptySet, Zenon
  <1>6. Cardinality(S) \in Nat /\ g \in Int
    BY FS_CardinalityType, SlotsAssumption DEF Groups
  <1>7. Cardinality(S \cup T) = Cardinality(S) + g + 1
    BY <1>2, <1>4, <1>5, <1>6
  <1> QED
    BY <1>1, <1>4, <1>7, Zenon

(* An unused entry is used.                                                *)
LEMMA EntryRemoved ==
  ASSUME NEW S, IsFiniteSet(S), NEW g \in Groups, NEW k, EntrySlots(g, k) \subseteq S
  PROVE  /\ IsFiniteSet(S \ EntrySlots(g, k))
         /\ Cardinality(S \ EntrySlots(g, k)) = Cardinality(S) - (g + 1)
  <1>1. PICK T : T = EntrySlots(g, k)
    BY Zenon
  <1>2. IsFiniteSet(T) /\ Cardinality(T) = g + 1
    BY <1>1, EntrySlotsCount, Zenon
  <1>3. S \cap T = T
    BY <1>1, Zenon
  <1>4. /\ IsFiniteSet(S \ T)
        /\ Cardinality(S \ T) = Cardinality(S) - Cardinality(S \cap T)
    BY FS_Difference, Zenon
  <1>5. Cardinality(S \ T) = Cardinality(S) - (g + 1)
    BY <1>2, <1>3, <1>4, Zenon
  <1> QED
    BY <1>1, <1>4, <1>5, Zenon

(* avail_slots counts the cached slots.                                    *)
Counted == IsFiniteSet(CachedSlots) /\ avail_slots = Cardinality(CachedSlots)

(* The groups after the start and before a scan.                           *)
NothingCached ==
  groups = [g \in Groups |-> <<>>] /\ group_idx = [g \in Groups |-> 0] /\ avail_slots = 0

(* No entry, no slot.                                                      *)
LEMMA NoneCounted == NothingCached => Counted
  <1> SUFFICES ASSUME NothingCached PROVE Counted
    OBVIOUS
  <1>1. \A g \in Groups : group_idx[g] + 1 .. Len(groups[g]) = {}
    BY DEF NothingCached
  <1>2. CachedSlots = {}
    BY <1>1, CachedSlotsAre, Zenon DEF SlotsAre
  <1> QED
    BY <1>2, FS_EmptySet, Zenon DEF Counted, NothingCached

(* The scan files a target under its free slots.                           *)
LEMMA ScanTargetCounted == IInv /\ Counted /\ ScanTarget => Counted'
  <1> SUFFICES ASSUME IInv, Counted, ScanTarget PROVE Counted'
    OBVIOUS
  <1>1. CASE Avail(i) < 1
    <2>1. UNCHANGED <<groups, group_idx, avail_slots>>
      BY <1>1, Zenon DEF ScanTarget
    <2> QED
      BY <2>1, Zenon DEF Counted, CachedSlots, UnusedEntries
  <1>2. CASE ~(Avail(i) < 1)
    <2>1. PICK g : g = Avail(i) - 1
      BY Zenon
    <2>2. /\ i \in Workers /\ tokens[i] \in Nat /\ sent[i] \in Nat
          /\ tokens[i] - sent[i] =
               Slots - (routed[i] + direct[i] + feedback[i] + vanished[i])
          /\ routed[i] \in Nat /\ direct[i] \in Nat /\ feedback[i] \in Nat /\ vanished[i] \in Nat
      <3>1. i \in Workers
        BY WorkerCountAssumption, SMTT(30) DEF ScanTarget, IInv, Workers
      <3> QED
        BY <3>1, Zenon DEF IInv, TypeOK, SlotConservation
    <2>3. g \in Groups /\ g + 1 = Avail(i)
      BY <1>2, <2>1, <2>2, SlotsAssumption, SMTT(30) DEF Groups, Avail
    <2>4. /\ groups' = [groups EXCEPT ![g] = Append(@, i)] /\ group_idx' = group_idx
          /\ avail_slots' = avail_slots + Avail(i)
      BY <1>2, <2>1, Zenon DEF ScanTarget
    <2>5. PICK k : k = Len(groups[g]) + 1
      BY Zenon
    <2>6. groups \in [Groups -> Seq(Workers)] /\ group_idx \in [Groups -> Nat]
          /\ group_idx[g] <= Len(groups[g])
      BY <2>3, Zenon DEF IInv, TypeOK
    <2>7. Len(groups'[g]) = k /\ \A h \in Groups : h # g => groups'[h] = groups[h]
      BY <2>2, <2>3, <2>4, <2>5, <2>6, AppendRow, Zenon
    <2>8. \A l : l \in group_idx[g] + 1 .. k <=> l \in group_idx[g] + 1 .. Len(groups[g]) \/ l = k
      <3>1. Len(groups[g]) \in Nat /\ group_idx[g] \in Nat
        BY <2>3, <2>6
      <3> QED
        BY <2>5, <2>6, <3>1
    <2>9. k \notin group_idx[g] + 1 .. Len(groups[g])
      <3>1. Len(groups[g]) \in Nat
        BY <2>3, <2>6
      <3> QED
        BY <2>5, <3>1
    <2>10. \A x \in EntrySlots(g, k) : x \notin CachedSlots
      <3> SUFFICES ASSUME NEW x \in EntrySlots(g, k), x \in CachedSlots PROVE FALSE
        BY Zenon
      <3>1. PICK h \in Groups : \E l \in group_idx[h] + 1 .. Len(groups[h]) : x \in EntrySlots(h, l)
        BY CachedSlotsAre, Zenon DEF SlotsAre
      <3>2. PICK l \in group_idx[h] + 1 .. Len(groups[h]) : x \in EntrySlots(h, l)
        BY <3>1, Zenon
      <3>3. g = h /\ k = l
        BY <3>2, EntrySlotsApart, Zenon
      <3> QED
        BY <2>9, <3>3, Zenon
    <2>11. \A x : x \in CachedSlots' <=> x \in CachedSlots \/ x \in EntrySlots(g, k)
      <3>1. SlotsAre'
        BY CachedSlotsAre, PTL
      <3>2. \A x : x \in CachedSlots' <=>
              \E h \in Groups : \E l \in group_idx[h] + 1 .. Len(groups'[h]) : x \in EntrySlots(h, l)
        BY <2>4, <3>1, Zenon DEF SlotsAre, EntrySlots
      <3> QED
        BY <2>3, <2>7, <2>8, <3>2, CachedSlotsAre, Zenon DEF SlotsAre
    <2>12. CachedSlots' = CachedSlots \cup EntrySlots(g, k)
      BY <2>11, Zenon
    <2>13. /\ IsFiniteSet(CachedSlots')
           /\ Cardinality(CachedSlots') = Cardinality(CachedSlots) + g + 1
      BY <2>3, <2>10, <2>12, EntryAdded, Zenon DEF Counted
    <2>14. Cardinality(CachedSlots) \in Nat /\ g \in Int
      BY <2>3, FS_CardinalityType, SlotsAssumption DEF Counted, Groups
    <2>15. PICK c, d : c = Cardinality(CachedSlots) /\ d = Cardinality(CachedSlots')
      BY Zenon
    <2>16. avail_slots' = d
      <3>1. avail_slots = c /\ d = c + g + 1 /\ c \in Nat
        BY <2>13, <2>14, <2>15, Zenon DEF Counted
      <3>2. avail_slots' = c + Avail(i)
        BY <2>4, <3>1, Zenon
      <3> QED
        BY <2>3, <2>14, <3>1, <3>2
    <2> QED
      BY <2>13, <2>15, <2>16, Zenon DEF Counted
  <1> QED
    BY <1>1, <1>2, Zenon

(* A target of group g is served, which uses its entry up, and is filed    *)
(* again one group below: it has one slot less.                            *)
LEMMA ServeCounted ==
  ASSUME IInv, Counted, NEW g \in Groups, Serve(g, g - 1)
  PROVE  Counted'
  <1>1. PICK k, d, w : k = group_idx[g] + 1 /\ d = g - 1 /\ w = groups[g][k]
    BY Zenon
  <1>2. /\ group_idx' = [group_idx EXCEPT ![g] = k]
        /\ groups' = IF d >= 0 THEN [groups EXCEPT ![d] = Append(@, w)] ELSE groups
        /\ avail_slots' = avail_slots - 1 /\ group_idx[g] < Len(groups[g])
    BY <1>1, Zenon DEF Serve, Unused
  <1>3. /\ groups \in [Groups -> Seq(Workers)] /\ group_idx \in [Groups -> Nat]
        /\ \A h \in Groups : group_idx[h] <= Len(groups[h])
    BY Zenon DEF IInv, TypeOK
  <1>4. /\ g \in Nat /\ d \in Int /\ g = d + 1 /\ (d >= 0 => d \in Groups /\ d # g)
        /\ (~(d >= 0) => g = 0)
    BY <1>1, SlotsAssumption DEF Groups
  <1>5. \A h \in Groups : Len(groups[h]) \in Nat /\ group_idx[h] \in Nat
    BY <1>3
  <1>6. k \in group_idx[g] + 1 .. Len(groups[g]) /\ w \in Workers
    BY <1>1, <1>2, <1>3, <1>5
  <1>7. PICK rest : rest = CachedSlots \ EntrySlots(g, k)
    BY Zenon
  <1>8. IsFiniteSet(rest) /\ Cardinality(rest) = Cardinality(CachedSlots) - (g + 1)
    <2>1. EntrySlots(g, k) \subseteq CachedSlots
      BY <1>6, CachedSlotsAre, Zenon DEF SlotsAre
    <2> QED
      BY <1>7, <2>1, EntryRemoved, Zenon DEF Counted
  <1>9. Cardinality(CachedSlots) \in Nat
    BY FS_CardinalityType, Zenon DEF Counted
  <1>10. \A l : l \in k + 1 .. Len(groups[g]) <=> l \in group_idx[g] + 1 .. Len(groups[g]) /\ l # k
    BY <1>1, <1>5, <1>6
  <1>11. \A x : x \in rest <=>
           \E h \in Groups : \E l \in group_idx'[h] + 1 .. Len(groups[h]) : x \in EntrySlots(h, l)
    <2>1. group_idx'[g] = k /\ \A h \in Groups : h # g => group_idx'[h] = group_idx[h]
      BY <1>2, <1>3, Zenon
    <2>2. ASSUME NEW x \in rest
          PROVE  \E h \in Groups : \E l \in group_idx'[h] + 1 .. Len(groups[h]) : x \in EntrySlots(h, l)
      <3>1. x \in CachedSlots /\ x \notin EntrySlots(g, k)
        BY <1>7, <2>2, Zenon
      <3>2. PICK h \in Groups : \E l \in group_idx[h] + 1 .. Len(groups[h]) : x \in EntrySlots(h, l)
        BY <3>1, CachedSlotsAre, Zenon DEF SlotsAre
      <3> QED
        BY <1>10, <2>1, <3>1, <3>2, Zenon
    <2>3. ASSUME NEW x, NEW h \in Groups, NEW l \in group_idx'[h] + 1 .. Len(groups[h]),
                 x \in EntrySlots(h, l)
          PROVE  x \in rest
      <3>1. l \in group_idx[h] + 1 .. Len(groups[h]) /\ (h = g => l # k)
        BY <1>10, <2>1, Zenon
      <3>2. x \notin EntrySlots(g, k)
        BY <2>3, <3>1, EntrySlotsApart, Zenon
      <3>3. x \in CachedSlots
        BY <2>3, <3>1, CachedSlotsAre, Zenon DEF SlotsAre
      <3> QED
        BY <1>7, <3>2, <3>3, Zenon
    <2> QED
      BY <2>2, <2>3, Zenon
  <1>12. \A x : x \in CachedSlots' <=>
           \E h \in Groups : \E l \in group_idx'[h] + 1 .. Len(groups'[h]) : x \in EntrySlots(h, l)
    <2>1. SlotsAre'
      BY CachedSlotsAre, PTL
    <2> QED
      BY <2>1, Zenon DEF SlotsAre, EntrySlots
  <1>13. CASE ~(d >= 0)
    <2>1. groups' = groups
      BY <1>2, <1>13, Zenon
    <2>2. CachedSlots' = rest
      BY <1>11, <1>12, <2>1, Zenon
    <2>3. IsFiniteSet(CachedSlots') /\ Cardinality(CachedSlots') = Cardinality(CachedSlots) - (g + 1)
      BY <1>8, <2>2, Zenon
    <2>4. PICK c : c = Cardinality(CachedSlots)
      BY Zenon
    <2>5. avail_slots' = c - (g + 1)
      <3>1. avail_slots' = c - 1 /\ c \in Nat
        BY <1>2, <1>9, <2>4, Zenon DEF Counted
      <3> QED
        BY <1>4, <1>13, <3>1
    <2> QED
      BY <2>3, <2>4, <2>5, Zenon DEF Counted
  <1>14. CASE d >= 0
    <2>1. d \in Groups /\ d # g /\ groups' = [groups EXCEPT ![d] = Append(@, w)]
      BY <1>2, <1>4, <1>14, Zenon
    <2>2. PICK m : m = Len(groups[d]) + 1
      BY Zenon
    <2>3. Len(groups'[d]) = m /\ \A h \in Groups : h # d => groups'[h] = groups[h]
      BY <1>3, <1>6, <2>1, <2>2, AppendRow, Zenon
    <2>4. group_idx'[d] = group_idx[d]
      BY <1>2, <1>3, <2>1, Zenon
    <2>5. /\ \A l : l \in group_idx[d] + 1 .. m <=> l \in group_idx[d] + 1 .. Len(groups[d]) \/ l = m
          /\ m \notin group_idx[d] + 1 .. Len(groups[d])
      <3>1. Len(groups[d]) \in Nat /\ group_idx[d] \in Nat /\ group_idx[d] <= Len(groups[d])
        BY <1>3, <1>5, <2>1, Zenon
      <3> QED
        BY <2>2, <3>1
    <2>6. \A x \in EntrySlots(d, m) : x \notin rest
      <3> SUFFICES ASSUME NEW x \in EntrySlots(d, m), x \in CachedSlots PROVE FALSE
        BY <1>7, Zenon
      <3>1. PICK h \in Groups : \E l \in group_idx[h] + 1 .. Len(groups[h]) : x \in EntrySlots(h, l)
        BY CachedSlotsAre, Zenon DEF SlotsAre
      <3>2. PICK l \in group_idx[h] + 1 .. Len(groups[h]) : x \in EntrySlots(h, l)
        BY <3>1, Zenon
      <3>3. d = h /\ m = l
        BY <3>2, EntrySlotsApart, Zenon
      <3> QED
        BY <2>5, <3>3, Zenon
    <2>7. \A x : x \in CachedSlots' <=> x \in rest \/ x \in EntrySlots(d, m)
      BY <1>11, <1>12, <2>1, <2>3, <2>4, <2>5, Zenon
    <2>8. CachedSlots' = rest \cup EntrySlots(d, m)
      BY <2>7, Zenon
    <2>9. /\ IsFiniteSet(CachedSlots')
          /\ Cardinality(CachedSlots') = Cardinality(rest) + d + 1
      BY <1>8, <2>1, <2>6, <2>8, EntryAdded, Zenon
    <2>10. PICK c, e : c = Cardinality(CachedSlots) /\ e = Cardinality(CachedSlots')
      BY Zenon
    <2>11. PICK r : r = Cardinality(rest)
      BY Zenon
    <2>12. avail_slots' = e
      <3>1. avail_slots' = c - 1 /\ c \in Nat /\ r = c - (g + 1) /\ e = r + d + 1
        BY <1>2, <1>8, <1>9, <2>9, <2>10, <2>11, Zenon DEF Counted
      <3> QED
        BY <1>4, <3>1
    <2> QED
      BY <2>9, <2>10, <2>12, Zenon DEF Counted
  <1> QED
    BY <1>13, <1>14, Zenon

(* Every other step leaves the groups and avail_slots alone.               *)
LEMMA NextCounted == IInv /\ Counted /\ [Next]_vars => Counted'
  <1> SUFFICES ASSUME IInv, Counted, [Next]_vars PROVE Counted'
    OBVIOUS
  <1>a. ASSUME UNCHANGED <<groups, group_idx, avail_slots>> PROVE Counted'
    BY <1>a, Zenon DEF Counted, CachedSlots, UnusedEntries
  <1>1. CASE PollDone
    <2>1. CASE NeedScan
      <3>1. /\ groups' = [g \in Groups |-> <<>>] /\ group_idx' = [g \in Groups |-> 0]
            /\ avail_slots' = 0
        BY <1>1, <2>1, Zenon DEF PollDone
      <3>2. (NothingCached => Counted)'
        BY NoneCounted, PTL
      <3> QED
        BY <3>1, <3>2, Zenon DEF NothingCached
    <2>2. CASE ~NeedScan
      BY <1>a, <1>1, <2>2, Zenon DEF PollDone
    <2> QED
      BY <2>1, <2>2, Zenon
  <1>2. CASE ScanTarget
    BY <1>2, ScanTargetCounted, Zenon
  <1>3. CASE ServeIdle
    <2>1. Slots - 1 \in Groups /\ (Slots - 1) - 1 = Slots - 2
      BY SlotsAssumption DEF Groups
    <2>2. Serve(Slots - 1, (Slots - 1) - 1)
      BY <1>3, <2>1, Zenon DEF ServeIdle
    <2> QED
      BY <2>1, <2>2, ServeCounted, Zenon
  <1>4. CASE ServeBusy
    <2>1. i \in Groups
      BY <1>4, SlotsAssumption, SMTT(30) DEF ServeBusy, IInv, TypeOK, Groups
    <2> QED
      BY <1>4, <2>1, ServeCounted, Zenon DEF ServeBusy
  <1>5. CASE FcFwInRouted \/ FcFwInDirect \/ ScanDone \/ SendDirect \/ DirectDone \/ IdleDone
             \/ BusyNext \/ UNCHANGED vars
    BY <1>a, <1>5, Zenon
       DEF FcFwInRouted, FcFwInDirect, ScanDone, SendDirect, DirectDone, IdleDone, BusyNext,
           vars, core
  <1>6. CASE \E w \in Workers : CtrlIn(w) \/ Finish(w) \/ Vanish(w)
    BY <1>a, <1>6, Zenon DEF CtrlIn, Finish, Vanish, core
  <1> QED
    BY <1>1, <1>2, <1>3, <1>4, <1>5, <1>6, Zenon DEF Next, AppCore

(* fc_fw_main: avail_slots and idle_slots say what is left in the cached   *)
(* groups, during the scan, between scans and after any number of          *)
(* demotions.                                                              *)
THEOREM SlotsAccounted == Spec => []SlotAccounting
  <1>1. Init => IInv /\ Counted
    <2>1. Init => NothingCached
      BY Zenon DEF Init, NothingCached
    <2> QED
      BY <2>1, InitIInv, NoneCounted, Zenon
  <1>2. IInv /\ Counted /\ [Next]_vars => (IInv /\ Counted)'
    BY NextIInv, NextCounted, Zenon
  <1>3. ASSUME IInv, Counted PROVE SlotAccounting
    <2>1. PICK g, a, b : g = Slots - 1 /\ a = group_idx[g] + 1 /\ b = Len(groups[g])
      BY Zenon
    <2>2. g \in Groups
      BY <2>1, SlotsAssumption DEF Groups
    <2>3. /\ groups[g] \in Seq(Workers) /\ group_idx[g] \in Nat /\ group_idx[g] <= b
          /\ idle_slots = b - group_idx[g]
      BY <1>3, <2>1, <2>2, Zenon DEF IInv, TypeOK
    <2>4. a \in Int /\ b \in Int /\ idle_slots = IF a > b THEN 0 ELSE b - a + 1
      BY <2>1, <2>3
    <2>5. PICK A, B : A = {g} /\ B = a .. b
      BY Zenon
    <2>6. IsFiniteSet(A) /\ Cardinality(A) = 1
      BY <2>5, FS_Singleton, Zenon
    <2>7. IsFiniteSet(B) /\ Cardinality(B) = idle_slots
      BY <2>4, <2>5, FS_Interval, Zenon
    <2>8. Cardinality(A \X B) = Cardinality(A) * Cardinality(B)
      BY <2>6, <2>7, FS_Product, Zenon
    <2>9. Cardinality(A \X B) = idle_slots
      <3>1. PICK n : n = Cardinality(A \X B)
        BY Zenon
      <3>2. n = 1 * idle_slots
        BY <2>6, <2>7, <2>8, <3>1, Zenon
      <3>3. idle_slots \in Int
        BY <2>3, <2>4
      <3> QED
        BY <3>1, <3>2, <3>3
    <2>10. UnusedEntries(Slots - 1) = A \X B
      BY <2>1, <2>5, Zenon DEF UnusedEntries
    <2> QED
      BY <1>3, <2>9, <2>10, Zenon DEF SlotAccounting, Counted
  <1> QED
    BY <1>1, <1>2, <1>3, PTL DEF Spec
=============================================================================
