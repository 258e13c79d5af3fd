---------------------------- MODULE RouterBasic ----------------------------
(***************************************************************************)
(* The software router under the policies without a queue of its own:      *)
(* RAND, RR and JSQ (select_target, get_jsq_target and fw_in of            *)
(* dpdk-apps/r2p2-router.c).  A request leaves in the call that receives   *)
(* it.  Under JSQ the app core scans tokens one target at a time while the *)
(* control core updates them, and keeps the idle targets it saw on a stack *)
(* for the requests to come.                                               *)
(***************************************************************************)
EXTENDS Integers, Sequences

CONSTANTS
  WorkerCount,      \* worker_count
  Policies,         \* the policies the router may be started with
  IdxSpace,         \* number of values of curr_idx, 2^16 in the code
  MaxRouted,        \* bound: LB_ROUTE requests that ever arrive
  MaxFixed,         \* bound: FIXED_ROUTE requests that ever arrive
  MaxVanished       \* bound: requests per worker that give no feedback

ASSUME BasicAssumption ==
  /\ WorkerCount \in 1 .. 64          \* targets[64]
  /\ Policies \subseteq {"RAND", "RR", "JSQ"}
  /\ IdxSpace \in Nat \ {0}

Workers == 0 .. WorkerCount - 1

(* The requests on their way are counted by flow: for each target the      *)
(* LB_ROUTE requests it was given, and the FIXED_ROUTE requests, which all *)
(* go to targets[0].                                                       *)
Direct == WorkerCount
Flows == Workers \cup {Direct}
Target(f) == IF f = Direct THEN 0 ELSE f

NoMin == 16777215        \* 0xFFFFFF, the start value of min
NoTarget == -1           \* the start value of min_idx

VARIABLES
  policy,
  tokens, sent,          \* tokens is written by the control core
  curr_idx,
  jsq_idle,              \* the stack jsq_idle[0 .. jsq_idle_count - 1]
  pc, i, min, min_idx,   \* the scan of get_jsq_target
  seen,                  \* history: the backlogs this scan has read
  last,                  \* history: target of the last LB_ROUTE request
  arrived, fixed,        \* history: LB_ROUTE and FIXED_ROUTE requests so far
  held, feedback, vanished   \* per flow: requests, FEEDBACKs, lost ones

scan == <<pc, i, min, min_idx, seen>>
workers == <<held, feedback, vanished>>
vars == <<policy, tokens, sent, curr_idx, jsq_idle, scan, last, arrived,
          fixed, workers>>

Zero == [w \in Workers |-> 0]
NoFlow == [f \in Flows |-> 0]

(* app_init with per_queue_slots = 0, the value src/README.md prescribes   *)
(* for every policy but JBSQ, then app_main.                               *)
Init ==
  /\ policy \in Policies
  /\ tokens = Zero /\ sent = Zero
  /\ curr_idx = 0
  /\ jsq_idle = <<>>
  /\ pc = "poll" /\ i = 0 /\ min = NoMin /\ min_idx = NoTarget /\ seen = Zero
  /\ last = NoTarget /\ arrived = 0 /\ fixed = 0
  /\ held = NoFlow /\ feedback = NoFlow /\ vanished = NoFlow

(* send_to_worker for a request of fw_in's LB_ROUTE branch.                *)
SendTo(w) ==
  /\ held' = [held EXCEPT ![w] = @ + 1]
  /\ last' = w
  /\ arrived' = arrived + 1
  /\ UNCHANGED <<feedback, vanished>>

SendRand ==
  /\ policy = "RAND"
  /\ arrived < MaxRouted
  /\ \E w \in Workers : SendTo(w)
  /\ UNCHANGED <<policy, tokens, sent, curr_idx, jsq_idle, scan, fixed>>

(* Mutant: FIXED_ROUTE requests take the LB_ROUTE path's index too. *)
SendRR_SkipsTarget ==
  /\ policy = "RR"
  /\ arrived < MaxRouted
  /\ SendTo(curr_idx % WorkerCount)
  /\ curr_idx' = (curr_idx + 1 + fixed) % IdxSpace
  /\ UNCHANGED <<policy, tokens, sent, jsq_idle, scan, fixed>>

(* targets[curr_idx++ % worker_count]: curr_idx is a uint16_t and wraps.   *)
SendRR ==
  /\ policy = "RR"
  /\ arrived < MaxRouted
  /\ SendTo(curr_idx % WorkerCount)
  /\ curr_idx' = (curr_idx + 1) % IdxSpace
  /\ UNCHANGED <<policy, tokens, sent, jsq_idle, scan, fixed>>

Backlog(w) == sent[w] - tokens[w]

(* Mutant: the target taken from the stack is not charged. *)
PopIdle_Uncharged ==
  /\ jsq_idle # <<>>
  /\ jsq_idle' = SubSeq(jsq_idle, 1, Len(jsq_idle) - 1)
  /\ UNCHANGED sent
  /\ SendTo(jsq_idle[Len(jsq_idle)])

(* Mutant: the target is read but stays on the stack. *)
PopIdle_Kept ==
  /\ jsq_idle # <<>>
  /\ UNCHANGED jsq_idle
  /\ sent' = [sent EXCEPT ![jsq_idle[Len(jsq_idle)]] = @ + 1]
  /\ SendTo(jsq_idle[Len(jsq_idle)])

(* sent[jsq_idle[--jsq_idle_count]]++, and that target is returned.        *)
PopIdle ==
  /\ jsq_idle # <<>>
  /\ jsq_idle' = SubSeq(jsq_idle, 1, Len(jsq_idle) - 1)
  /\ sent' = [sent EXCEPT ![jsq_idle[Len(jsq_idle)]] = @ + 1]
  /\ SendTo(jsq_idle[Len(jsq_idle)])

(* get_jsq_target with idle targets left from an earlier scan.             *)
JsqFromStack ==
  /\ policy = "JSQ" /\ pc = "poll"
  /\ arrived < MaxRouted
  /\ PopIdle
  /\ UNCHANGED <<policy, tokens, curr_idx, scan, fixed>>

JsqStart ==
  /\ policy = "JSQ" /\ pc = "poll"
  /\ arrived < MaxRouted
  /\ jsq_idle = <<>>
  /\ pc' = "scan" /\ i' = 0 /\ min' = NoMin /\ min_idx' = NoTarget /\ seen' = Zero
  /\ UNCHANGED <<policy, tokens, sent, curr_idx, jsq_idle, last, arrived,
                 fixed, workers>>

(* Mutant: min is not updated with min_idx. *)
JsqScan_MinKept ==
  /\ pc = "scan" /\ i < WorkerCount
  /\ i' = i + 1
  /\ seen' = [seen EXCEPT ![i] = Backlog(i)]
  /\ min_idx' = IF Backlog(i) < min THEN i ELSE min_idx
  /\ jsq_idle' = IF Backlog(i) = 0 THEN Append(jsq_idle, i) ELSE jsq_idle
  /\ UNCHANGED <<policy, tokens, sent, curr_idx, pc, min, last, arrived,
                 fixed, workers>>

(* One iteration of the loop "Find min and idle workers"; the control core *)
(* may run between two of them.                                            *)
JsqScan ==
  /\ pc = "scan" /\ i < WorkerCount
  /\ i' = i + 1
  /\ seen' = [seen EXCEPT ![i] = Backlog(i)]
  /\ min' = IF Backlog(i) < min THEN Backlog(i) ELSE min
  /\ min_idx' = IF Backlog(i) < min THEN i ELSE min_idx
  /\ jsq_idle' = IF Backlog(i) = 0 THEN Append(jsq_idle, i) ELSE jsq_idle
  /\ UNCHANGED <<policy, tokens, sent, curr_idx, pc, last, arrived, fixed,
                 workers>>

SendMin ==
  /\ jsq_idle = <<>>
  /\ sent' = [sent EXCEPT ![min_idx] = @ + 1]
  /\ SendTo(min_idx)
  /\ UNCHANGED jsq_idle

JsqSend ==
  /\ pc = "scan" /\ i = WorkerCount
  /\ PopIdle \/ SendMin
  /\ pc' = "poll"
  /\ UNCHANGED <<policy, tokens, curr_idx, i, min, min_idx, seen, fixed>>

(* fw_in with FIXED_ROUTE: targets[0], and neither counter is touched.     *)
SendFixed ==
  /\ pc = "poll"
  /\ fixed < MaxFixed
  /\ fixed' = fixed + 1
  /\ held' = [held EXCEPT ![Direct] = @ + 1]
  /\ UNCHANGED <<policy, tokens, sent, curr_idx, jsq_idle, scan, last,
                 arrived, feedback, vanished>>

(* ctrl_in and update_tokens, on the control core: a FEEDBACK tells which  *)
(* target it is from, and not by which route the request had come.         *)
CtrlIn(f) ==
  /\ feedback[f] > 0
  /\ feedback' = [feedback EXCEPT ![f] = @ - 1]
  /\ tokens' = IF policy = "JSQ" THEN [tokens EXCEPT ![Target(f)] = @ + 1]
                                 ELSE tokens
  /\ UNCHANGED <<policy, sent, curr_idx, jsq_idle, scan, last, arrived, fixed,
                 held, vanished>>

(* router_notify: the worker reports a finished request to the router.     *)
Finish(f) ==
  /\ held[f] > 0
  /\ held' = [held EXCEPT ![f] = @ - 1]
  /\ feedback' = [feedback EXCEPT ![f] = @ + 1]
  /\ UNCHANGED <<policy, tokens, sent, curr_idx, jsq_idle, scan, last,
                 arrived, fixed, vanished>>

(* The request, or the FEEDBACK for it, is lost, or the server answers     *)
(* with a DROP: no FEEDBACK ever arrives.                                  *)
Vanish(f) ==
  /\ held[f] > 0
  /\ vanished[f] < MaxVanished
  /\ held' = [held EXCEPT ![f] = @ - 1]
  /\ vanished' = [vanished EXCEPT ![f] = @ + 1]
  /\ UNCHANGED <<policy, tokens, sent, curr_idx, jsq_idle, scan, last,
                 arrived, fixed, feedback>>

Next ==
  \/ SendRand \/ SendRR \/ SendFixed
  \/ JsqFromStack \/ JsqStart \/ JsqScan \/ JsqSend
  \/ \E f \in Flows : CtrlIn(f) \/ Finish(f) \/ Vanish(f)

Spec == Init /\ [][Next]_vars

-----------------------------------------------------------------------------
CountersOK ==
  /\ tokens \in [Workers -> Nat] /\ sent \in [Workers -> Nat]
  /\ held \in [Flows -> Nat] /\ feedback \in [Flows -> Nat]
  /\ vanished \in [Flows -> Nat]
  /\ arrived \in Nat /\ fixed \in Nat

ScanOK ==
  /\ pc \in {"poll", "scan"}
  /\ i \in 0 .. WorkerCount
  /\ min \in Int /\ min_idx \in Workers \cup {NoTarget}
  /\ seen \in [Workers -> Int]

(* Every variable has the type its declaration in the code gives it.       *)
TypeOK ==
  /\ CountersOK
  /\ ScanOK
  /\ policy \in Policies
  /\ curr_idx \in 0 .. IdxSpace - 1
  /\ jsq_idle \in Seq(Workers)
  /\ last \in Workers \cup {NoTarget}

(* The requests of flow f the control core has had no FEEDBACK for.        *)
Outstanding(f) == held[f] + feedback[f] + vanished[f]

(* The tokens of target w that FIXED_ROUTE requests returned: sent was     *)
(* never charged for them.                                                 *)
Unearned(w) == IF w = 0 THEN fixed - Outstanding(Direct) ELSE 0

(* get_jsq_target hands out a stacked target without reading its counters  *)
(* again.  However long ago the scan was, a target other than targets[0]   *)
(* still holds no LB_ROUTE request, and targets[0] holds at most one for   *)
(* each token a FIXED_ROUTE request has returned.  A target is on the      *)
(* stack only once, so the stack never outgrows jsq_idle[64].              *)
IdleStackTruthful ==
  /\ \A k \in 1 .. Len(jsq_idle) :
       held[jsq_idle[k]] <= Unearned(jsq_idle[k])
  /\ \A k, l \in 1 .. Len(jsq_idle) : jsq_idle[k] = jsq_idle[l] => k = l

(* get_jsq_target after a scan: an idle target if the scan saw one, else   *)
(* one with the shortest backlog seen, whatever the control core did       *)
(* between the reads.                                                      *)
JoinsShortest ==
  [][pc = "scan" /\ pc' = "poll" =>
       IF \E v \in Workers : seen[v] = 0
         THEN seen[last'] = 0
         ELSE \A v \in Workers : seen[last'] <= seen[v]]_vars

(* "rr for round-robin": each LB_ROUTE request goes to the target after    *)
(* the previous one's, whatever FIXED_ROUTE traffic comes in between; only *)
(* where the uint16_t curr_idx has wrapped the rotation starts over at     *)
(* targets[0], which need not be the next one.                             *)
RotatesTargets ==
  [][policy = "RR" /\ arrived' # arrived /\ last # NoTarget =>
       last' = IF curr_idx = 0 THEN 0 ELSE (last + 1) % WorkerCount]_vars

(* sent - tokens is the number of LB_ROUTE requests the target still has   *)
(* to report, the lost ones among them, less the tokens FIXED_ROUTE        *)
(* requests returned: it may be zero, or negative, for a busy target.      *)
BacklogExact ==
  policy = "JSQ" =>
    \A w \in Workers : Backlog(w) + Unearned(w) = Outstanding(w)

(* A stacked target has backlog zero or less.                              *)
StackBacklog ==
  \A k \in 1 .. Len(jsq_idle) : Backlog(jsq_idle[k]) <= 0

(* The entries are distinct, and a scan has stacked only targets it has    *)
(* passed, so the one it stacks next is new.                               *)
StackDistinct ==
  /\ \A k, l \in 1 .. Len(jsq_idle) : jsq_idle[k] = jsq_idle[l] => k = l
  /\ pc = "scan" => \A k \in 1 .. Len(jsq_idle) : jsq_idle[k] < i

(* Only JSQ scans and stacks.                                              *)
OnlyJsq == pc = "scan" \/ jsq_idle # <<>> => policy = "JSQ"

(* The inductive invariant behind IdleStackTruthful.                       *)
IInv == TypeOK /\ BacklogExact /\ OnlyJsq /\ StackBacklog /\ StackDistinct
=============================================================================
