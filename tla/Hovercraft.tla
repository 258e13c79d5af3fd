----------------------------- MODULE Hovercraft -----------------------------
(***************************************************************************)
(* HovercRaft (r2p2/hovercraft.c, hovercraft-log.c): clients multicast     *)
(* requests to all nodes, the leader orders them with Raft, followers find *)
(* the requests of an append-entries message among those they hold, and    *)
(* replies are spread over the nodes.  Built with WITH_RAFT, LB_REPLIES    *)
(* and SKIP_NO_SE, with and without ACCELERATED.  Without it clients send  *)
(* to the leader only and append entries carry the requests.               *)
(*                                                                         *)
(* Any node may call an election, and the leader then steps down; the      *)
(* elections that are won are won by the same node, Leader, whose log is   *)
(* the longest.  Each campaign has a term of its own.                      *)
(*                                                                         *)
(* The Raft library is external; what it does is modelled as the callbacks *)
(* and calls of hovercraft.c need it.  Every node has a network thread and *)
(* a worker thread that applies (raft_worker).  R2P2 matches a reply to    *)
(* its request, so the reply to a request that has timed out is dropped:   *)
(* a timed-out append-entries request stays in the network, not live.      *)
(***************************************************************************)
EXTENDS Integers, Sequences, FiniteSets, Network

CONSTANTS
  N, Leader,             \* real_peer_cnt; local_raft_id of the leader
  Requests,              \* the replicated requests clients multicast
  Copies,                \* the copies <<node, request>> the network does not lose
  NoSideEffects,         \* those of type NORMAL_NO_SIDE_EFFECTS
  MAX_ENTRIES_PER_MSG, BOUNDED_QUEUE, FC_THRESHOLD,
  LOG_ENTRY_COUNT,       \* items of the request ring behind the Raft log
  UNORDERED_LIMIT,       \* 3000 in handle_replicated_req
  PENDING_LIMIT,         \* 128, the size of pending_replicated_reqs
  BATCH_SIZE,            \* packets taken in by one poll
  SmartLb, ACCELERATED,  \* SMART_LB, ACCELERATED
  MaxAe, MaxTimeouts,    \* bounds: append-entries requests sent, timeouts
  MaxTerm                \* bound: terms

ASSUME ParamsAssumption ==
  /\ N \in Nat /\ N % 2 = 1 /\ Leader \in 0 .. N - 1
  /\ NoSideEffects \subseteq Requests
  /\ Copies \subseteq (0 .. N - 1) \X Requests
  /\ MAX_ENTRIES_PER_MSG \in Nat \ {0} /\ BOUNDED_QUEUE \in Nat \ {0}
  /\ FC_THRESHOLD \in Nat /\ PENDING_LIMIT \in Nat /\ BATCH_SIZE \in Nat
  /\ LOG_ENTRY_COUNT \in Nat /\ FC_THRESHOLD + PENDING_LIMIT <= LOG_ENTRY_COUNT + 1
  /\ SmartLb \in BOOLEAN /\ ACCELERATED \in BOOLEAN
  /\ MaxAe \in Nat /\ MaxTimeouts \in Nat /\ MaxTerm \in Nat \ {0}

Nodes == 0 .. N - 1
Followers == Nodes \ {Leader}

VARIABLES
  mcast,             \* copies of requests on their way: <<node, request>>
  pending_rr,        \* pending_replicated_reqs of Leader
  carried,           \* how many of them are from earlier polls
  role, term,        \* Raft: the role of Leader; the current term of each node
  term_start,        \* Len(log[Leader]) when it was last elected
  log,               \* of each node: [req, replier, reply], reply is SHOULD_REPLY
  unordered,         \* unordered_reqs of each node
  commit, applied,   \* Raft's indices on each node
  next_idx, match_idx,           \* Raft's view of each follower
  pending_ae,                    \* peer->pending_ae
  assigned_log_idx, assigned,    \* of the leader; peer->assigned
  done, peer_done,               \* done of each node; peer->done
  announced_commit_idx,
  net,               \* Raft messages in flight
  sent, timeouts,    \* counters for the bounds
  replied,           \* history: how often each node has replied to each request
  aborted            \* "no" or the assertion that stopped a node

pending == <<pending_rr, carried>>
raft == <<log, commit, next_idx, match_idx>>
election == <<role, term, term_start>>
balance == <<assigned_log_idx, assigned, peer_done>>
worker == <<applied, done, replied>>
vars == <<mcast, pending, raft, election, unordered, worker, pending_ae, balance,
          announced_commit_idx, net, sent, timeouts, aborted>>

Init ==
  /\ mcast = Copies
  /\ pending_rr = <<>> /\ carried = 0
  /\ role = "leader" /\ term = [n \in Nodes |-> 1] /\ term_start = 0
  /\ log = [n \in Nodes |-> <<>>]
  /\ unordered = [n \in Nodes |-> {}]
  /\ commit = [n \in Nodes |-> 0] /\ applied = [n \in Nodes |-> 0]
  /\ next_idx = [f \in Followers |-> 1] /\ match_idx = [f \in Followers |-> 0]
  /\ pending_ae = [f \in Followers |-> FALSE]
  /\ assigned_log_idx = 0 /\ assigned = [n \in Nodes |-> 0]
  /\ done = [n \in Nodes |-> 0] /\ peer_done = [f \in Followers |-> 0]
  /\ announced_commit_idx = 0
  /\ net = Empty
  /\ sent = 0 /\ timeouts = 0
  /\ replied = [n \in Nodes |-> [r \in Requests |-> 0]]
  /\ aborted = "no"

(* No assertion has failed: the model stops with the first node that does. *)
Running == aborted = "no"

InFlight(m) == m \in DOMAIN net
Smallest(S) == CHOOSE x \in S : \A y \in S : x <= y
Least(x, y) == IF x < y THEN x ELSE y
Most(x, y) == IF x > y THEN x ELSE y

-----------------------------------------------------------------------------
(* Mutant: the entries not yet applied are not looked at. *)
Keeps_Always(n) == TRUE

(* should_keep_new_entry *)
Keeps(n) == Len(log[n]) - applied[n] < FC_THRESHOLD

(* add_to_unordered_reqs, for a request that is not there or is older than *)
(* GB_TRHRESHOLD: it fails for a younger one.                              *)
AddToUnordered(f, r) == [unordered EXCEPT ![f] = @ \cup {r}]

Abort(what) ==
  /\ aborted' = what
  /\ UNCHANGED <<mcast, pending, raft, election, unordered, worker, pending_ae, balance,
                 announced_commit_idx, net, sent, timeouts>>

(* A request reaches a node.  Flow control answers DROP; the leader queues *)
(* the request for ordering, and asserts that there is room; any other     *)
(* node keeps it with the unordered ones or, without ACCELERATED, aborts.  *)
HandleReplicatedReq(n, r) ==
  LET leads == n = Leader /\ role = "leader" IN
  /\ Running
  /\ <<n, r>> \in mcast
  /\ leads => Len(pending_rr) - carried < BATCH_SIZE
  /\ IF Keeps(n) /\ leads /\ Len(pending_rr) >= PENDING_LIMIT THEN Abort("pending")
     ELSE IF Keeps(n) /\ ~leads /\ ~ACCELERATED THEN Abort("role")
     ELSE /\ mcast' = mcast \ {<<n, r>>}
          /\ pending_rr' = IF Keeps(n) /\ leads THEN Append(pending_rr, r) ELSE pending_rr
          /\ unordered' = IF Keeps(n) /\ ~leads /\ Cardinality(unordered[n]) < UNORDERED_LIMIT
                          THEN AddToUnordered(n, r) ELSE unordered
          /\ UNCHANGED <<carried, raft, election, worker, pending_ae, balance,
                         announced_commit_idx, net, sent, timeouts, aborted>>

(* order_one_req and, in raft_recv_entry, log_offer: every entry is marked *)
(* for the leader to answer, its replier for now.                          *)
Ordered(r) == [req |-> r, replier |-> Leader, reply |-> TRUE]

LeaderOrderRequests ==
  /\ log' = [log EXCEPT ![Leader] = @ \o
               [k \in DOMAIN pending_rr |-> Ordered(pending_rr[k])]]
  /\ pending_rr' = <<>> /\ carried' = 0

(* do_raft_duties at the end of a poll: requests stay queued when the node *)
(* is no longer the leader.                                                *)
DoRaftDuties ==
  /\ Running
  /\ IF role = "leader" THEN pending_rr # <<>> /\ LeaderOrderRequests
     ELSE /\ carried # Len(pending_rr) /\ carried' = Len(pending_rr)
          /\ UNCHANGED <<log, pending_rr>>
  /\ UNCHANGED <<mcast, commit, next_idx, match_idx, election, unordered, worker, pending_ae,
                 balance, announced_commit_idx, net, sent, timeouts, aborted>>

-----------------------------------------------------------------------------
(* peer->assigned - done, as the leader knows it, before it is stored in   *)
(* the unsigned diff of smart_lb and check_available_slots, where a        *)
(* negative number is a huge one, or in the int of bounded_rand.           *)
KnownDone(n) == IF n = Leader THEN done[n] ELSE peer_done[n]
Diff(n) == assigned[n] - KnownDone(n)

(* Node n is charged for executing the entry. *)
Charged(n, e) == e.req \notin NoSideEffects \/ e.replier = n

(* Mutant: a full node is taken for one with a free slot. *)
PickReplier_FullToo(d) ==
  LET free == {n \in Nodes : d[n] \in 0 .. BOUNDED_QUEUE} IN
  IF SmartLb
  THEN IF free = {} THEN {Leader}
       ELSE {Smallest({n \in free : \A k \in free : d[n] <= d[k]})}
  ELSE {n \in Nodes : d[n] < 2 * BOUNDED_QUEUE}

(* pick_replier with diff d[n] of each node: smart_lb takes the first of   *)
(* the least loaded below the bound, or the leader itself; bounded_rand    *)
(* any one below twice the bound, and asserts that there is one.           *)
PickReplier(d) ==
  LET free == {n \in Nodes : d[n] \in 0 .. BOUNDED_QUEUE - 1} IN
  IF SmartLb
  THEN IF free = {} THEN {Leader}
       ELSE {Smallest({n \in free : \A k \in free : d[n] <= d[k]})}
  ELSE {n \in Nodes : d[n] < 2 * BOUNDED_QUEUE}

check_available_slots == \E n \in Nodes : Diff(n) \in 0 .. BOUNDED_QUEUE - 1

(* The request of entry i is still in the ring of node n. *)
InRing(n, i) == i > Len(log[n]) - LOG_ENTRY_COUNT

(* msg->n_entries after the two limits, from what Raft offers. *)
EntriesToSend(f) ==
  LET prev == next_idx[f] - 1
      n == Least(Len(log[Leader]) - prev, MAX_ENTRIES_PER_MSG)
  IN IF prev + n > commit[Leader] /\ ~check_available_slots THEN 1 ELSE n

(* The repliers r of the entries first .. last, picked one after the other *)
(* by pick: each sees the charges of those before it.                      *)
ChargesUpTo(n, r, first, last) ==
  Cardinality({j \in first .. last : Charged(n, [log[Leader][j] EXCEPT !.replier = r[j]])})

Loads(r, first, i) == [n \in Nodes |-> Diff(n) + ChargesUpTo(n, r, first, i - 1)]

Assignment(r, first, last) ==
  \A i \in first .. last : r[i] \in PickReplier(Loads(r, first, i))

NoCandidate(first, last) ==
  \E i \in first .. last : \E r \in [first .. i - 1 -> Nodes] :
     Assignment(r, first, i - 1) /\ PickReplier(Loads(r, first, i)) = {}

(* Mutant: the entry keeps the mark log_offer gave it. *)
Assign_StillReplies(e, p) == [e EXCEPT !.replier = p]

(* Mutant: nodes counted from one. *)
Assign_OffByOne(e, p) == [e EXCEPT !.replier = p + 1, !.reply = @ /\ p = Leader]

(* An entry given to replier p: SHOULD_REPLY is cleared unless it is the   *)
(* leader.                                                                 *)
Assign(e, p) == [e EXCEPT !.replier = p, !.reply = @ /\ p = Leader]

(* What travels of an entry: the request's identity and the replier. *)
Header(e) == [req |-> e.req, replier |-> e.replier]

(* send_raft_msg: the append-entries request to f with the entries e.      *)
AppendEntriesReq(f, prev, e) ==
  [kind |-> "AE", node |-> f, live |-> TRUE, term |-> term[Leader], prev |-> prev,
   commit |-> commit[Leader], entries |-> e]

(* Mutant: entries sent before get a replier again. *)
FirstToAssign_Resent(f) == next_idx[f]

(* The first entry the loop of r2p2_send_appendentries gives a replier.    *)
FirstToAssign(f) == assigned_log_idx + 1

(* r2p2_send_appendentries, called by Raft for a new entry, a heartbeat or *)
(* after a reply: nothing while a request to the peer is outstanding.      *)
(* An entry outside the log, or whose request the ring has dropped, has no *)
(* server pair: assert(sp) in entries_to_iov_accel.                        *)
SendAppendEntries(f) ==
  LET prev == next_idx[f] - 1
      last == prev + EntriesToSend(f)
      first == FirstToAssign(f)
      present == /\ last <= Len(log[Leader])
                 /\ \A i \in prev + 1 .. last : InRing(Leader, i)
                 /\ first > prev \/ first > last
  IN
  /\ Running
  /\ role = "leader"
  /\ ~pending_ae[f]
  /\ sent < MaxAe
  /\ IF ~present THEN Abort("entry")
     ELSE \/ NoCandidate(first, last) /\ Abort("candidate")
          \/ /\ \E r \in [first .. last -> Nodes] :
                  /\ Assignment(r, first, last)
                  /\ log' = [log EXCEPT ![Leader] =
                       [i \in DOMAIN @ |-> IF i \in first .. last THEN Assign(@[i], r[i])
                                          ELSE @[i]]]
                  /\ assigned' = [n \in Nodes |-> assigned[n] + ChargesUpTo(n, r, first, last)]
             /\ assigned_log_idx' = Most(assigned_log_idx, last)
             /\ pending_ae' = [pending_ae EXCEPT ![f] = TRUE]
             /\ net' = Put({AppendEntriesReq(f, prev,
                           [k \in 1 .. last - prev |-> Header(log'[Leader][prev + k])])}, net)
             /\ sent' = sent + 1
             /\ UNCHANGED <<mcast, pending, commit, next_idx, match_idx, election, unordered,
                            worker, peer_done, announced_commit_idx, timeouts, aborted>>

-----------------------------------------------------------------------------
(* msg_to_entries_accel: the entries whose request f holds; msg_to_entries *)
(* finds every request in the message.                                     *)
Held(f, m) == {k \in DOMAIN m.entries : ~ACCELERATED \/ m.entries[k].req \in unordered[f]}

(* raft_recv_appendentries (external): it rejects a message of an old term *)
(* and one that starts after the end of the log.                           *)
Fits(f, m) == m.term >= term[f] /\ m.prev <= Len(log[f])

(* The same: the entries the follower takes are those after its log, up to *)
(* the first whose request it does not hold.                               *)
Taken(f, m) ==
  LET len == Len(log[f])
      stop == Cardinality({k \in DOMAIN m.entries :
                             \A j \in 1 .. k : m.prev + j > len => j \in Held(f, m)})
  IN IF ~Fits(f, m) \/ m.prev + stop <= len THEN <<>>
     ELSE SubSeq(m.entries, len - m.prev + 1, stop)

Missing(f, m) ==
  Fits(f, m) /\ Len(log[f]) + Len(Taken(f, m)) < m.prev + Len(m.entries)

(* The same: the commit index with n entries in the log.                   *)
CommitTo(f, m, n) ==
  IF Fits(f, m) THEN Most(commit[f], Least(m.commit, n)) ELSE commit[f]

(* The same: a newer term makes the node a follower of that term, and the  *)
(* callback r2p2_became_follower forgets what it has done.                 *)
Follow(n, t) ==
  /\ term' = [term EXCEPT ![n] = Most(@, t)]
  /\ done' = IF t > term[n] THEN [done EXCEPT ![n] = 0] ELSE done

(* What is left of the unordered requests when those at the entries k of m *)
(* have been taken out and the callback has run: the unused of them are    *)
(* put back after it.                                                      *)
Unused(f, m, k, taken) ==
  LET found == {m.entries[j].req : j \in k} IN
  (IF m.term > term[f] THEN found ELSE unordered[f]) \ {taken[j].req : j \in DOMAIN taken}

(* Mutant: the entry is never marked. *)
Offered_Unmarked(f, h) == [req |-> h.req, replier |-> h.replier, reply |-> FALSE]

(* The entry of header h after r2p2_log_offer on follower f.               *)
Offered(f, h) == [req |-> h.req, replier |-> h.replier, reply |-> h.replier = f]

(* send_raft_msg: the reply to append-entries request m, and the request   *)
(* for a missing entry.                                                    *)
AppendEntriesRep(f, m, current) ==
  [kind |-> "AE_REP", node |-> f, live |-> TRUE, term |-> term'[f], success |-> Fits(f, m),
   current |-> current, done |-> done'[f]]
RecoveryReq(f, current) == [kind |-> "RECOVER", node |-> f, current |-> current]

(* process_ae_req_accel and process_ae_req_vanilla.  log_offer marks the   *)
(* entries this node is to answer; a missing request is asked for, and the *)
(* reply is success.                                                       *)
ReceiveAppendEntries(f, m) ==
  LET taken == Taken(f, m)
      new == [k \in DOMAIN taken |-> Offered(f, taken[k])]
      len == Len(log[f]) + Len(taken)
  IN
  /\ Running
  /\ InFlight(m) /\ m.kind = "AE" /\ m.node = f
  /\ Follow(f, m.term)
  /\ log' = [log EXCEPT ![f] = @ \o new]
  /\ commit' = [commit EXCEPT ![f] = CommitTo(f, m, len)]
  /\ unordered' = IF ACCELERATED THEN [unordered EXCEPT ![f] = Unused(f, m, Held(f, m), taken)]
                  ELSE unordered
  /\ net' = Put((IF Missing(f, m) THEN {RecoveryReq(f, len)} ELSE {})
                \cup (IF m.live THEN {AppendEntriesRep(f, m, len)} ELSE {}), Take({m}, net))
  /\ UNCHANGED <<mcast, pending, next_idx, match_idx, role, term_start, applied, replied,
                 pending_ae, balance, announced_commit_idx, sent, timeouts, aborted>>

(* raft_recv_appendentries_response (external): the commit index, after a  *)
(* reply with index i.  Only an entry of the current term is counted.      *)
MajorityHas(match, i) ==
  2 * (1 + Cardinality({f \in Followers : match[f] >= i})) > N

CommitIndex(match, i) ==
  IF i > commit[Leader] /\ i > term_start /\ MajorityHas(match, i) THEN i ELSE commit[Leader]

(* announce_increased_commit: to every follower. *)
Announcements(next, committed) ==
  {[kind |-> "ANNOUNCE", node |-> g, live |-> TRUE, term |-> term[Leader],
    prev |-> next[g] - 1, commit |-> committed] : g \in Followers}

(* raft_reply_recved, for the reply to an append-entries request.          *)
RaftReplyRecved(f, m) ==
  /\ InFlight(m) /\ m.kind = "AE_REP" /\ m.node = f /\ m.live
  /\ pending_ae' = [pending_ae EXCEPT ![f] = FALSE]

(* r2p2_became_follower on Leader, for a term newer than its own.          *)
StepDown(t) ==
  /\ Follow(Leader, t)
  /\ role' = IF t > term[Leader] THEN "follower" ELSE role
  /\ unordered' = IF t > term[Leader] THEN [unordered EXCEPT ![Leader] = {}] ELSE unordered

(* The reply and the APPEND_ENTRIES_REP case of raft_process.  The leader  *)
(* follows a newer term and ignores an older one; a commit index that has  *)
(* grown is announced.  A node that is not the leader any more may be told *)
(* so by Raft, which is assert(res == 0).                                  *)
ReceiveAppendEntriesReply(f, m) ==
  LET current == role = "leader" /\ m.term = term[Leader]
      success == current /\ m.success
      match == IF success THEN [match_idx EXCEPT ![f] = Most(@, m.current)] ELSE match_idx
      next == IF current THEN [next_idx EXCEPT ![f] = m.current + 1] ELSE next_idx
      committed == IF success THEN CommitIndex(match, m.current) ELSE commit[Leader]
      announce == announced_commit_idx < committed
  IN
  /\ Running
  /\ \/ /\ InFlight(m) /\ m.kind = "AE_REP" /\ m.node = f /\ m.live
        /\ role # "leader"
        /\ Abort("response")
     \/ /\ RaftReplyRecved(f, m)
        /\ IF role = "leader" THEN StepDown(m.term) ELSE UNCHANGED <<role, term, done, unordered>>
        /\ peer_done' = [peer_done EXCEPT ![f] = m.done]
        /\ match_idx' = match /\ next_idx' = next
        /\ commit' = [commit EXCEPT ![Leader] = committed]
        /\ announced_commit_idx' = Most(announced_commit_idx, committed)
        /\ net' = Put(IF announce THEN Announcements(next, committed) ELSE {}, Take({m}, net))
        /\ UNCHANGED <<mcast, pending, log, term_start, applied, replied, assigned_log_idx,
                       assigned, sent, timeouts, aborted>>

(* raft_request_timeout of an append-entries request.                      *)
AppendEntriesTimeout(f) ==
  LET old == {m \in DOMAIN net : m.kind \in {"AE", "AE_REP"} /\ m.node = f /\ m.live} IN
  /\ Running
  /\ pending_ae[f]
  /\ timeouts < MaxTimeouts
  /\ timeouts' = timeouts + 1
  /\ pending_ae' = [pending_ae EXCEPT ![f] = FALSE]
  /\ net' = Put({[m EXCEPT !.live = FALSE] : m \in {x \in old : x.kind = "AE"}}, Take(old, net))
  /\ UNCHANGED <<mcast, pending, raft, election, unordered, worker, balance,
                 announced_commit_idx, sent, aborted>>

AnnounceCommitRep(f) == [kind |-> "ANNOUNCE_REP", node |-> f, done |-> done'[f]]

(* ANNOUNCE_COMMIT_REQ at a follower, an append-entries request without    *)
(* entries, and its reply at the leader.                                   *)
ReceiveAnnounce(f, m) ==
  /\ Running
  /\ InFlight(m) /\ m.kind = "ANNOUNCE" /\ m.node = f
  /\ Follow(f, m.term)
  /\ commit' = [commit EXCEPT ![f] = CommitTo(f, m, Len(log[f]))]
  /\ unordered' = IF m.term > term[f] THEN [unordered EXCEPT ![f] = {}] ELSE unordered
  /\ net' = Put({AnnounceCommitRep(f)}, Take({m}, net))
  /\ UNCHANGED <<mcast, pending, log, next_idx, match_idx, role, term_start, applied, replied,
                 pending_ae, balance, announced_commit_idx, sent, timeouts, aborted>>

ReceiveAnnounceReply(f, m) ==
  /\ Running
  /\ InFlight(m) /\ m.kind = "ANNOUNCE_REP" /\ m.node = f
  /\ peer_done' = [peer_done EXCEPT ![f] = m.done]
  /\ net' = Take({m}, net)
  /\ UNCHANGED <<mcast, pending, raft, election, unordered, worker, pending_ae, assigned_log_idx,
                 assigned, announced_commit_idx, sent, timeouts, aborted>>

-----------------------------------------------------------------------------
(* entries_to_iov: the entry with its request; msg_to_entries makes a new  *)
(* server pair of it.                                                      *)
RecoveryRep(f, i) == [kind |-> "RECOVER_REP", node |-> f, req |-> log[Leader][i].req]
Recovered(m) == m.req

(* RECOVERY_REQ at the leader: the entry after the follower's last.        *)
ReceiveRecoveryReq(f, m) ==
  LET i == m.current + 1 IN
  /\ Running
  /\ InFlight(m) /\ m.kind = "RECOVER" /\ m.node = f
  /\ IF i > Len(log[Leader]) \/ ~InRing(Leader, i) THEN Abort("entry")
     ELSE /\ net' = Put({RecoveryRep(f, i)}, Take({m}, net))
          /\ UNCHANGED <<mcast, pending, raft, election, unordered, worker, pending_ae, balance,
                         announced_commit_idx, sent, timeouts, aborted>>

(* RECOVERY_REP at the follower: the request joins the unordered ones.  If *)
(* it is there already, add_to_unordered_reqs replaces one older than a    *)
(* second and fails, which is assert(0), for a younger one.                *)
ReceiveRecoveryRep(f, m) ==
  /\ Running
  /\ InFlight(m) /\ m.kind = "RECOVER_REP" /\ m.node = f
  /\ \/ Recovered(m) \in unordered[f] /\ Abort("recovery")
     \/ /\ unordered' = AddToUnordered(f, Recovered(m))
        /\ net' = Take({m}, net)
        /\ UNCHANGED <<mcast, pending, raft, election, worker, pending_ae, balance,
                       announced_commit_idx, sent, timeouts, aborted>>

(* Mutant: an entry the node is not to execute is counted as done. *)
Executes_Always(n, e) == TRUE

(* r2p2_applylog under SKIP_NO_SE: whether the node executes the entry.    *)
Executes(n, e) == e.req \notin NoSideEffects \/ e.replier = n

(* raft_worker applies the next committed entry: r2p2_applylog, and        *)
(* r2p2_send_response, which answers only for an entry with SHOULD_REPLY.  *)
ApplyLog(n) ==
  LET i == applied[n] + 1
      e == log[n][i]
  IN
  /\ Running
  /\ applied[n] < commit[n]
  /\ IF ~InRing(n, i) THEN Abort("apply")
     ELSE /\ applied' = [applied EXCEPT ![n] = i]
          /\ done' = IF Executes(n, e) THEN [done EXCEPT ![n] = @ + 1] ELSE done
          /\ replied' = IF Executes(n, e) /\ e.reply
                          THEN [replied EXCEPT ![n][e.req] = @ + 1] ELSE replied
          /\ UNCHANGED <<mcast, pending, raft, election, unordered, pending_ae, balance,
                         announced_commit_idx, net, sent, timeouts, aborted>>

(* An election timeout: Raft calls r2p2_send_requestvote for every peer.   *)
(* The term t is the next one.                                             *)
Campaign(n, t) ==
  /\ Running
  /\ n = Leader => role # "leader"
  /\ \E c \in Nodes : t = term[c] + 1
  /\ \A c \in Nodes : term[c] < t
  /\ term' = [term EXCEPT ![n] = t]
  /\ role' = IF n = Leader THEN "candidate" ELSE role
  /\ UNCHANGED <<mcast, pending, raft, term_start, unordered, worker, pending_ae, balance,
                 announced_commit_idx, net, sent, timeouts, aborted>>

(* VOTE_REQUEST of a newer term t at node n: r2p2_became_follower.         *)
ReceiveVoteRequest(n, t) ==
  /\ Running
  /\ \E c \in Nodes : term[c] >= t
  /\ t > term[n]
  /\ Follow(n, t)
  /\ role' = IF n = Leader THEN "follower" ELSE role
  /\ unordered' = [unordered EXCEPT ![n] = {}]
  /\ UNCHANGED <<mcast, pending, raft, term_start, applied, replied, pending_ae, balance,
                 announced_commit_idx, net, sent, timeouts, aborted>>

(* The VOTE_REPLY that makes a majority, and r2p2_became_leader.  What it  *)
(* sends to the router has no answer and is left out.                      *)
BecomeLeader ==
  /\ Running
  /\ role = "candidate"
  /\ 2 * Cardinality({n \in Nodes : term[n] = term[Leader]}) > N
  /\ role' = "leader" /\ term_start' = Len(log[Leader])
  /\ next_idx' = [f \in Followers |-> Len(log[Leader]) + 1]
  /\ match_idx' = [f \in Followers |-> 0]
  /\ assigned_log_idx' = Len(log[Leader]) /\ assigned' = [n \in Nodes |-> 0]
  /\ done' = [done EXCEPT ![Leader] = 0] /\ peer_done' = [f \in Followers |-> 0]
  /\ unordered' = [unordered EXCEPT ![Leader] = {}]
  /\ UNCHANGED <<mcast, pending, log, commit, term, applied, replied, pending_ae,
                 announced_commit_idx, net, sent, timeouts, aborted>>

Receive(m) ==
  \E f \in Followers :
     \/ ReceiveAppendEntries(f, m) \/ ReceiveAppendEntriesReply(f, m)
     \/ ReceiveAnnounce(f, m) \/ ReceiveAnnounceReply(f, m)
     \/ ReceiveRecoveryReq(f, m) \/ ReceiveRecoveryRep(f, m)

Next ==
  \/ \E n \in Nodes, r \in Requests : HandleReplicatedReq(n, r)
  \/ DoRaftDuties
  \/ \E f \in Followers : SendAppendEntries(f) \/ AppendEntriesTimeout(f)
  \/ \E m \in DOMAIN net : Receive(m)
  \/ \E n \in Nodes : ApplyLog(n)
  \/ \E n \in Nodes, t \in 1 .. MaxTerm : Campaign(n, t) \/ ReceiveVoteRequest(n, t)
  \/ BecomeLeader

Spec == Init /\ [][Next]_vars

-----------------------------------------------------------------------------
Entry == [req : Requests, replier : Nodes, reply : BOOLEAN]

AeReqs == [kind : {"AE"}, node : Followers, live : BOOLEAN, term : 1 .. MaxTerm, prev : Nat,
           commit : Nat, entries : Seq([req : Requests, replier : Nodes])]
AeReps == [kind : {"AE_REP"}, node : Followers, live : BOOLEAN, term : 1 .. MaxTerm,
           success : BOOLEAN, current : Nat, done : Nat]
AnnounceReqs == [kind : {"ANNOUNCE"}, node : Followers, live : BOOLEAN, term : 1 .. MaxTerm,
                 prev : Nat, commit : Nat]
AnnounceReps == [kind : {"ANNOUNCE_REP"}, node : Followers, done : Nat]
RecoveryReqs == [kind : {"RECOVER"}, node : Followers, current : Nat]
RecoveryReps == [kind : {"RECOVER_REP"}, node : Followers, req : Requests]

Message == AeReqs \cup AeReps \cup AnnounceReqs \cup AnnounceReps \cup RecoveryReqs
           \cup RecoveryReps

TypeOK ==
  /\ mcast \subseteq Nodes \X Requests
  /\ pending_rr \in Seq(Requests)
  /\ log \in [Nodes -> Seq(Entry)]
  /\ carried \in 0 .. Len(pending_rr) /\ Len(pending_rr) <= PENDING_LIMIT
  /\ role \in {"leader", "candidate", "follower"} /\ term \in [Nodes -> 1 .. MaxTerm]
  /\ term_start \in 0 .. Len(log[Leader])
  /\ unordered \in [Nodes -> SUBSET Requests]
  /\ commit \in [Nodes -> Nat] /\ applied \in [Nodes -> Nat]
  /\ \A n \in Nodes : applied[n] <= commit[n] /\ commit[n] <= Len(log[n])
  /\ next_idx \in [Followers -> Nat \ {0}] /\ match_idx \in [Followers -> Nat]
  /\ pending_ae \in [Followers -> BOOLEAN]
  /\ assigned_log_idx \in 0 .. Len(log[Leader]) /\ announced_commit_idx \in Nat
  /\ assigned \in [Nodes -> Nat] /\ done \in [Nodes -> Nat]
  /\ peer_done \in [Followers -> Nat]
  /\ DOMAIN net \subseteq Message
  /\ sent \in 0 .. MaxAe /\ timeouts \in 0 .. MaxTimeouts
  /\ replied \in [Nodes -> [Requests -> Nat]]
  /\ aborted \in {"no", "pending", "role", "entry", "candidate", "response", "recovery", "apply"}

(* process_ae_req_accel and r2p2_send_appendentries: a follower's log is   *)
(* a prefix of the leader's, request by request and with the same          *)
(* replier, whatever was lost, recovered, sent again or arrived late.      *)
LogsAgree ==
  \A f \in Followers :
     /\ Len(log[f]) <= assigned_log_idx
     /\ \A i \in 1 .. Len(log[f]) : Header(log[f][i]) = Header(log[Leader][i])

(* r2p2_log_offer, r2p2_send_appendentries and r2p2_applylog: no request   *)
(* is answered by two nodes, and none twice by one.                        *)
OneReply ==
  \A r \in Requests : \A n, k \in Nodes :
    /\ replied[n][r] <= 1
    /\ replied[n][r] > 0 /\ replied[k][r] > 0 => n = k

(* The same: once every node has applied an entry, one node has answered.  *)
SomeReply ==
  \A i \in 1 .. Len(log[Leader]) :
     (\A n \in Nodes : applied[n] >= i) =>
        \E n \in Nodes : replied[n][log[Leader][i].req] > 0

(* The assigned entries the node is charged for and has not applied.       *)
Outstanding(n) == {i \in applied[n] + 1 .. assigned_log_idx : Charged(n, log[Leader][i])}

(* Leader is in its first term, and no node has heard of another.          *)
NoElection == \A n \in Nodes : term[n] = 1

(* assigned in r2p2_send_appendentries and done in r2p2_applylog: their    *)
(* difference is the number of assigned entries the node has still to      *)
(* execute, and what the leader knows of done never exceeds it, so the     *)
(* unsigned difference does not wrap and no load is underestimated, until  *)
(* the first election.                                                     *)
LoadExact ==
  NoElection => \A n \in Nodes :
     /\ assigned[n] - done[n] = Cardinality(Outstanding(n))
     /\ KnownDone(n) <= done[n]

(* smart_lb: a request without side effects that is given to a follower   *)
(* has, there, at most BOUNDED_QUEUE entries to be executed up to itself.  *)
QueueBounded ==
  SmartLb /\ NoElection => \A f \in Followers : \A i \in Outstanding(f) :
     log[Leader][i].req \in NoSideEffects =>
        Cardinality({j \in Outstanding(f) : j <= i}) <= BOUNDED_QUEUE

(* RECOVERY_REP, "if (add_to_unordered_reqs(recovered_entry.data.buf))     *)
(* assert(0)": a recovered request is not among the unordered ones.        *)
RecoveredIsNew == aborted # "recovery"

(* should_keep_new_entry and r2p2_raft_log_add: the ring of the leader     *)
(* never drops the request of an entry it has not applied.                 *)
LeaderKeepsUnapplied ==
  \A i \in applied[Leader] + 1 .. Len(log[Leader]) : InRing(Leader, i)
=============================================================================
