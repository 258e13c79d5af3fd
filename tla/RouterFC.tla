------------------------------ MODULE RouterFC ------------------------------
(***************************************************************************)
(* The software router under the FC policy, JBSQ(n): the app core's main   *)
(* loop fc_fw_main with its cached target groups, and the control core     *)
(* that turns feedback messages into tokens (dpdk-apps/r2p2-router.c).     *)
(*                                                                         *)
(* The two cores share tokens and sent.  Only the control core writes      *)
(* tokens, only the app core writes sent, and the app core reads tokens    *)
(* one target at a time while it rebuilds the groups, so a step of the     *)
(* control core may fall between any two steps of the app core.            *)
(*                                                                         *)
(* Packets are counted: what a request carries never matters here.         *)
(***************************************************************************)
EXTENDS Integers, Sequences, FiniteSets

CONSTANTS
  WorkerCount,      \* worker_count, the targets given on the command line
  Slots,            \* per_queue_slots, the n of JBSQ(n)
  MaxRouted,        \* bound: LB_ROUTE requests that ever arrive
  MaxDirect,        \* bound: FIXED_ROUTE requests that ever arrive
  MaxVanished       \* bound: requests that never produce feedback

ASSUME WorkerCountAssumption == WorkerCount \in Nat \ {0}
ASSUME SlotsAssumption == Slots \in Nat \ {0}

Workers == 0 .. WorkerCount - 1
Groups  == 0 .. Slots - 1
BUFFER_CNT_THRES == 2

VARIABLES
  tokens,           \* tokens[w], written by the control core
  sent,             \* sent[w], written by the app core
  pending_routed,   \* pending_routed_count
  pending_direct,   \* pending_direct_count
  pc,               \* where fc_fw_main is
  i,                \* its loop variable: the target scanned, the group served
  groups,           \* target_group/target_group_count: one row per group
  group_idx,        \* entries of each row already used
  avail_slots,
  idle_slots,
  \* the servers and the network, seen from the router
  routed,           \* routed requests held by (or on the way to) a worker
  direct,           \* direct requests held by (or on the way to) a worker
  feedback,         \* feedback messages on their way to the control core
  vanished,         \* requests that will never produce feedback
  arrived           \* requests that came so far, by policy

core == <<pc, i, groups, group_idx, avail_slots, idle_slots>>
env  == <<routed, direct, feedback, vanished>>
vars == <<tokens, sent, pending_routed, pending_direct, core, env, arrived>>

PCs == {"poll", "scan", "direct", "idle", "busy"}

-----------------------------------------------------------------------------
Init ==
  /\ tokens = [w \in Workers |-> Slots]
  /\ sent = [w \in Workers |-> 0]
  /\ pending_routed = 0
  /\ pending_direct = 0
  /\ pc = "poll"
  /\ i = 0
  /\ groups = [g \in Groups |-> <<>>]
  /\ group_idx = [g \in Groups |-> 0]
  /\ avail_slots = 0
  /\ idle_slots = 0
  /\ routed = [w \in Workers |-> 0]
  /\ direct = [w \in Workers |-> 0]
  /\ feedback = [w \in Workers |-> 0]
  /\ vanished = [w \in Workers |-> 0]
  /\ arrived = [lb |-> 0, fixed |-> 0]

(* fc_fw_in, called by net_poll for each packet: queue it by its policy. *)
FcFwInRouted ==
  /\ pc = "poll"
  /\ arrived.lb < MaxRouted
  /\ arrived' = [arrived EXCEPT !.lb = @ + 1]
  /\ pending_routed' = pending_routed + 1
  /\ UNCHANGED <<tokens, sent, pending_direct, core, env>>

FcFwInDirect ==
  /\ pc = "poll"
  /\ arrived.fixed < MaxDirect
  /\ arrived' = [arrived EXCEPT !.fixed = @ + 1]
  /\ pending_direct' = pending_direct + 1
  /\ UNCHANGED <<tokens, sent, pending_routed, core, env>>

(* A plausible bug: rebuild the groups only while some slot is left. *)
NeedScan_WhileAvailable ==
  avail_slots # 0 /\ idle_slots = 0 /\ pending_routed < BUFFER_CNT_THRES

(* "Check for new slots only if it's necessary" *)
NeedScan ==
  \/ avail_slots = 0
  \/ idle_slots = 0 /\ pending_routed < BUFFER_CNT_THRES

(* A plausible bug: target_group_count is not cleared. *)
PollDone_KeepsGroups ==
  /\ pc = "poll"
  /\ IF NeedScan
       THEN /\ avail_slots' = 0
            /\ idle_slots' = 0
            /\ group_idx' = [g \in Groups |-> 0]
            /\ i' = 0
            /\ pc' = "scan"
            /\ UNCHANGED groups
       ELSE /\ pc' = "direct"
            /\ UNCHANGED <<i, groups, group_idx, avail_slots, idle_slots>>
  /\ UNCHANGED <<tokens, sent, pending_routed, pending_direct, env, arrived>>

(* net_poll returns: forget the groups if they are to be rebuilt. *)
PollDone ==
  /\ pc = "poll"
  /\ IF NeedScan
       THEN /\ avail_slots' = 0
            /\ idle_slots' = 0
            /\ groups' = [g \in Groups |-> <<>>]
            /\ group_idx' = [g \in Groups |-> 0]
            /\ i' = 0
            /\ pc' = "scan"
       ELSE /\ pc' = "direct"
            /\ UNCHANGED <<i, groups, group_idx, avail_slots, idle_slots>>
  /\ UNCHANGED <<tokens, sent, pending_routed, pending_direct, env, arrived>>

Avail(w) == tokens[w] - sent[w]

(* One iteration of the scan: read tokens[i] once and file the target. *)
ScanTarget ==
  /\ pc = "scan"
  /\ i < WorkerCount
  /\ i' = i + 1
  /\ IF Avail(i) < 1
       THEN UNCHANGED <<groups, avail_slots, idle_slots>>
       ELSE /\ groups' = [groups EXCEPT ![Avail(i) - 1] = Append(@, i)]
            /\ avail_slots' = avail_slots + Avail(i)
            /\ idle_slots' = idle_slots + (IF Avail(i) = Slots THEN 1 ELSE 0)
  /\ UNCHANGED <<tokens, sent, pending_routed, pending_direct, pc, group_idx,
                 env, arrived>>

ScanDone ==
  /\ pc = "scan"
  /\ i = WorkerCount
  /\ pc' = "direct"
  /\ UNCHANGED <<tokens, sent, pending_routed, pending_direct, i, groups,
                 group_idx, avail_slots, idle_slots, env, arrived>>

(* A plausible bug: sent[0]++ forgotten for direct requests. *)
SendDirect_Unaccounted ==
  /\ pc = "direct"
  /\ pending_direct > 0
  /\ pending_direct' = pending_direct - 1
  /\ direct' = [direct EXCEPT ![0] = @ + 1]
  /\ UNCHANGED <<tokens, sent, pending_routed, core, routed, feedback,
                 vanished, arrived>>

(* "send direct no matter what": FIXED_ROUTE requests go to targets[0]. *)
SendDirect ==
  /\ pc = "direct"
  /\ pending_direct > 0
  /\ pending_direct' = pending_direct - 1
  /\ sent' = [sent EXCEPT ![0] = @ + 1]
  /\ direct' = [direct EXCEPT ![0] = @ + 1]
  /\ UNCHANGED <<tokens, pending_routed, core, routed, feedback, vanished,
                 arrived>>

(* A plausible bug: the loop over the groups starts one too low. *)
DirectDone_StartsLow ==
  /\ pc = "direct"
  /\ pending_direct = 0
  /\ pc' = IF idle_slots # 0 THEN "idle"
           ELSE IF avail_slots # 0 THEN "busy" ELSE "poll"
  /\ i' = Slots - 3
  /\ UNCHANGED <<tokens, sent, pending_routed, pending_direct, groups,
                 group_idx, avail_slots, idle_slots, env, arrived>>

(* The idle branch, the other one, or neither. *)
DirectDone ==
  /\ pc = "direct"
  /\ pending_direct = 0
  /\ pc' = IF idle_slots # 0 THEN "idle"
           ELSE IF avail_slots # 0 THEN "busy" ELSE "poll"
  /\ i' = Slots - 2
  /\ UNCHANGED <<tokens, sent, pending_routed, pending_direct, groups,
                 group_idx, avail_slots, idle_slots, env, arrived>>

Unused(g) == group_idx[g] < Len(groups[g])

(* Send the oldest pending request to the next unused target of group g    *)
(* (send_from_pending_routed, sent[]++) and "add the worker to the next    *)
(* group", the one with one slot less.                                     *)
Serve(g, demoteTo) ==
  LET w == groups[g][group_idx[g] + 1] IN
  /\ pending_routed > 0
  /\ Unused(g)
  /\ pending_routed' = pending_routed - 1
  /\ group_idx' = [group_idx EXCEPT ![g] = @ + 1]
  /\ sent' = [sent EXCEPT ![w] = @ + 1]
  /\ routed' = [routed EXCEPT ![w] = @ + 1]
  /\ avail_slots' = avail_slots - 1
  /\ groups' = IF demoteTo >= 0
               THEN [groups EXCEPT ![demoteTo] = Append(@, w)] ELSE groups

(* Plausible bugs: idle_slots-- forgotten, or done twice. *)
ServeIdle_IdleSlotsKept ==
  /\ pc = "idle"
  /\ Serve(Slots - 1, Slots - 2)
  /\ UNCHANGED <<tokens, pending_direct, pc, i, idle_slots, direct, feedback,
                 vanished, arrived>>

(* The idle branch: serve the targets with all their slots. *)
ServeIdle ==
  /\ pc = "idle"
  /\ Serve(Slots - 1, Slots - 2)
  /\ idle_slots' = idle_slots - 1
  /\ UNCHANGED <<tokens, pending_direct, pc, i, direct, feedback, vanished,
                 arrived>>

IdleDone ==
  /\ pc = "idle"
  /\ ~ (pending_routed > 0 /\ Unused(Slots - 1))
  /\ pc' = "poll"
  /\ UNCHANGED <<tokens, sent, pending_routed, pending_direct, i, groups,
                 group_idx, avail_slots, idle_slots, env, arrived>>

(* A plausible bug: the target is put back into the group it came from. *)
ServeBusy_NotDemoted ==
  /\ pc = "busy"
  /\ i >= 0
  /\ Serve(i, i)
  /\ UNCHANGED <<tokens, pending_direct, pc, i, idle_slots, direct, feedback,
                 vanished, arrived>>

(* The other branch: serve the groups from the one with most slots down. *)
ServeBusy ==
  /\ pc = "busy"
  /\ i >= 0
  /\ Serve(i, i - 1)
  /\ UNCHANGED <<tokens, pending_direct, pc, i, idle_slots, direct, feedback,
                 vanished, arrived>>

(* The inner while ends: leave the for loop, or go on with the next group. *)
BusyNext ==
  /\ pc = "busy"
  /\ ~ (i >= 0 /\ pending_routed > 0 /\ Unused(i))
  /\ IF i < 0 \/ pending_routed = 0
       THEN pc' = "poll" /\ i' = i
       ELSE pc' = pc /\ i' = i - 1
  /\ UNCHANGED <<tokens, sent, pending_routed, pending_direct, groups,
                 group_idx, avail_slots, idle_slots, env, arrived>>

AppCore ==
  \/ PollDone \/ ScanTarget \/ ScanDone \/ SendDirect \/ DirectDone
  \/ ServeIdle \/ IdleDone \/ ServeBusy \/ BusyNext

-----------------------------------------------------------------------------
(* ctrl_in and update_tokens on the control core: a feedback message from  *)
(* worker w gives it one slot back.                                        *)
CtrlIn(w) ==
  /\ feedback[w] > 0
  /\ feedback' = [feedback EXCEPT ![w] = @ - 1]
  /\ tokens' = [tokens EXCEPT ![w] = @ + 1]
  /\ UNCHANGED <<sent, pending_routed, pending_direct, core, routed, direct,
                 vanished, arrived>>

(* A worker answers a request: r2p2_send_response ends in router_notify.   *)
Finish(w) ==
  /\ \/ /\ routed[w] > 0
        /\ routed' = [routed EXCEPT ![w] = @ - 1]
        /\ UNCHANGED direct
     \/ /\ direct[w] > 0
        /\ direct' = [direct EXCEPT ![w] = @ - 1]
        /\ UNCHANGED routed
  /\ feedback' = [feedback EXCEPT ![w] = @ + 1]
  /\ UNCHANGED <<tokens, sent, pending_routed, pending_direct, core, vanished,
                 arrived>>

(* A request or its feedback is lost, the server drops it (send_drop_msg   *)
(* notifies no router), or the rest of it never arrives: no feedback.      *)
Vanish(w) ==
  /\ vanished[w] < MaxVanished
  /\ \/ /\ routed[w] > 0
        /\ routed' = [routed EXCEPT ![w] = @ - 1]
        /\ UNCHANGED <<direct, feedback>>
     \/ /\ direct[w] > 0
        /\ direct' = [direct EXCEPT ![w] = @ - 1]
        /\ UNCHANGED <<routed, feedback>>
     \/ /\ feedback[w] > 0
        /\ feedback' = [feedback EXCEPT ![w] = @ - 1]
        /\ UNCHANGED <<routed, direct>>
  /\ vanished' = [vanished EXCEPT ![w] = @ + 1]
  /\ UNCHANGED <<tokens, sent, pending_routed, pending_direct, core, arrived>>

Next ==
  \/ FcFwInRouted
  \/ FcFwInDirect
  \/ AppCore
  \/ \E w \in Workers : CtrlIn(w) \/ Finish(w) \/ Vanish(w)

Spec == Init /\ [][Next]_vars

(* Both cores poll for ever, and the servers answer what they are sent.    *)
FairSpec ==
  /\ Spec
  /\ WF_vars(AppCore)
  /\ \A w \in Workers : WF_vars(CtrlIn(w)) /\ WF_vars(Finish(w))

-----------------------------------------------------------------------------
TypeOK ==
  /\ tokens \in [Workers -> Nat]
  /\ sent \in [Workers -> Nat]
  /\ pending_routed \in Nat
  /\ pending_direct \in Nat
  /\ pc \in PCs
  /\ i \in Int
  /\ groups \in [Groups -> Seq(Workers)]
  /\ group_idx \in [Groups -> Nat]
  /\ avail_slots \in Int
  /\ idle_slots \in Nat
  /\ routed \in [Workers -> Nat]
  /\ direct \in [Workers -> Nat]
  /\ feedback \in [Workers -> Nat]
  /\ vanished \in [Workers -> Nat]
  /\ arrived \in [lb : Nat, fixed : Nat]

(* Every slot is accounted for: what the two counters of a worker say is   *)
(* free is the configured slots less what the worker holds, what feedback  *)
(* is under way and what was lost.  It is the only link between tokens     *)
(* (control core) and sent (app core).                                     *)
SlotConservation ==
  \A w \in Workers :
    tokens[w] - sent[w] =
      Slots - (routed[w] + direct[w] + feedback[w] + vanished[w])

(* JBSQ(n): no worker ever holds more than per_queue_slots routed          *)
(* requests, although the app core decides on cached groups while the      *)
(* control core changes tokens and direct requests bypass the groups.      *)
BoundedQueues == \A w \in Workers : routed[w] <= Slots

(* A row of target_group holds worker_count entries and there are          *)
(* per_queue_slots rows: neither the scan nor the demotions that follow it *)
(* write past them.                                                        *)
RowsFit ==
  /\ \A g \in Groups : group_idx[g] <= Len(groups[g])
  /\ \A g \in Groups : Len(groups[g]) <= WorkerCount
  /\ \A w \in Workers : Avail(w) <= Slots

(* What the cached groups promise between two scans: every unused entry    *)
(* stands for slots its worker really has left for routed requests.        *)
PromisedSlots ==
  \A g \in Groups : \A k \in group_idx[g] + 1 .. Len(groups[g]) :
    routed[groups[g][k]] + g + 1 <= Slots

(* The entries of a worker are used from the top group down: while it has  *)
(* an unused entry, it has none in a lower group.                          *)
UsedFromTop ==
  \A g, h \in Groups :
    \A k \in 1 .. Len(groups[g]), l \in group_idx[h] + 1 .. Len(groups[h]) :
      groups[g][k] = groups[h][l] => g >= h

(* A worker is entered in a row at most once between two scans.            *)
RowsDistinct ==
  \A g \in Groups : \A k, l \in 1 .. Len(groups[g]) :
    groups[g][k] = groups[g][l] => k = l

(* The slots the unused entries of the cached groups stand for: g + 1 of   *)
(* each entry of group g.                                                  *)
UnusedEntries(g) == {g} \X (group_idx[g] + 1 .. Len(groups[g]))
CachedSlots == UNION {UnusedEntries(g) \X (0 .. g) : g \in Groups}

(* The two counters that decide whether tokens are read again say what is  *)
(* left in the groups: avail_slots the slots of all unused entries,        *)
(* idle_slots the entries of the last group.  If they drifted, the router  *)
(* would ignore free workers or spin without serving.                      *)
SlotAccounting ==
  /\ avail_slots = Cardinality(CachedSlots)
  /\ idle_slots = Cardinality(UnusedEntries(Slots - 1))

(* A request goes to a worker with the most cached free slots: when an     *)
(* entry of a group is used, no group above it has an unused entry left.   *)
LeastLoadedFirst ==
  [][\A g \in Groups : group_idx'[g] > group_idx[g] =>
       \A h \in Groups : h > g => ~ Unused(h)]_vars

(* No request waits for ever in the router while the servers answer: the   *)
(* rescan test never leaves the loop with stale empty groups.              *)
RoutedForwarded == pending_routed > 0 ~> pending_routed = 0

(* In the busy branch, the groups above the one being served are used up.  *)
Drained == pc = "busy" => \A h \in Groups : h > i => ~ Unused(h)

(* The inductive invariant behind BoundedQueues and RowsFit.               *)
IInv ==
  /\ TypeOK
  /\ SlotConservation
  /\ BoundedQueues
  /\ PromisedSlots /\ UsedFromTop /\ RowsDistinct
  /\ \A g \in Groups : group_idx[g] <= Len(groups[g])
  /\ idle_slots = Len(groups[Slots - 1]) - group_idx[Slots - 1]
  /\ pc = "scan" =>
       /\ i \in 0 .. WorkerCount
       /\ \A g \in Groups : \A k \in 1 .. Len(groups[g]) : groups[g][k] < i
  /\ pc = "busy" => i <= Slots - 2
=============================================================================
