-------------------------------- MODULE RPC --------------------------------
(***************************************************************************)
(* What R2P2 promises an application on a network that delays, reorders    *)
(* and loses packets but does not duplicate them: a request runs at most   *)
(* once and is concluded at most once, success is reported only for a      *)
(* request that ran, and a request reported as dropped never runs.         *)
(***************************************************************************)
EXTENDS Naturals

CONSTANT Reqs

VARIABLES
  status,   \* of each request, as its client sees it
  ran       \* the requests that a server's application has received

vars == <<status, ran>>

Init ==
  /\ status = [r \in Reqs |-> "new"]
  /\ ran = {}

Issue(r) ==
  /\ status[r] = "new"
  /\ status' = [status EXCEPT ![r] = "issued"]
  /\ UNCHANGED ran

(* The client may have given up on the request by now. *)
Run(r) ==
  /\ status[r] \in {"issued", "error", "timeout"}
  /\ r \notin ran
  /\ ran' = ran \cup {r}
  /\ UNCHANGED status

Succeed(r) ==
  /\ status[r] = "issued"
  /\ r \in ran
  /\ status' = [status EXCEPT ![r] = "success"]
  /\ UNCHANGED ran

Drop(r) ==
  /\ status[r] = "issued"
  /\ r \notin ran
  /\ status' = [status EXCEPT ![r] = "dropped"]
  /\ UNCHANGED ran

(* A broken reply, no free socket, or a timeout. *)
Fail(r) ==
  /\ status[r] \in {"new", "issued"}
  /\ \/ status' = [status EXCEPT ![r] = "error"]
     \/ status[r] = "issued" /\ status' = [status EXCEPT ![r] = "timeout"]
  /\ UNCHANGED ran

Next == \E r \in Reqs : Issue(r) \/ Run(r) \/ Succeed(r) \/ Drop(r) \/ Fail(r)

Spec == Init /\ [][Next]_vars
=============================================================================
