------------------------- MODULE Hovercraft_proofs -------------------------
(***************************************************************************)
(* HovercRaft for any number of nodes and requests, with and without       *)
(* ACCELERATED, whatever is lost, delayed, recovered or sent again, and    *)
(* over any number of elections that the same node wins: the logs agree,   *)
(* every request is answered by one node, and the leader's ring keeps what *)
(* it has not applied.  Until the first election, the loads the leader     *)
(* balances by are those of the nodes, and no queue grows past its bound.  *)
(***************************************************************************)
EXTENDS Hovercraft, FiniteSetTheorems, TLAPS

(* Leaves are for Zenon, but for those that name another prover. *)
USE Zenon

(* A sequence followed by another.                                         *)
LEMMA ConcatFacts ==
  ASSUME NEW S, NEW s \in Seq(S), NEW t \in Seq(S)
  PROVE  /\ s \o t \in Seq(S) /\ Len(s \o t) = Len(s) + Len(t)
         /\ \A i \in 1 .. Len(s) + Len(t) :
              (s \o t)[i] = IF i <= Len(s) THEN s[i] ELSE t[i - Len(s)]
  BY ONLY SMT

(* A part of a sequence.                                                   *)
LEMMA SubSeqFacts ==
  ASSUME NEW S, NEW s \in Seq(S), NEW a \in 1 .. Len(s) + 1, NEW b \in a - 1 .. Len(s)
  PROVE  /\ SubSeq(s, a, b) \in Seq(S) /\ Len(SubSeq(s, a, b)) = b - a + 1
         /\ \A i \in 1 .. b - a + 1 : SubSeq(s, a, b)[i] = s[a + i - 1]
  BY ONLY SMT

(* A sequence over S.                                                      *)
LEMMA SeqFacts ==
  ASSUME NEW S, NEW s \in Seq(S)
  PROVE  Len(s) \in Nat /\ \A i \in 1 .. Len(s) : s[i] \in S
  BY ONLY SMT

(* The index after a is in a sequence of at least c > a members.           *)
LEMMA NextIndex ==
  ASSUME NEW a \in Nat, NEW c \in Nat, NEW n \in Nat, a < c, c <= n
  PROVE  a + 1 \in 1 .. n /\ a + 1 <= c
  BY SMT

(* A function on 1 .. n is a sequence of length n.                         *)
LEMMA FunctionIsSeq ==
  ASSUME NEW S, NEW n \in Nat, NEW s \in [1 .. n -> S]
  PROVE  s \in Seq(S) /\ Len(s) = n
  BY ONLY SMT

(* What is sent is in flight.                                              *)
LEMMA PutDomain ==
  ASSUME NEW S, NEW B PROVE DOMAIN Put(S, B) = DOMAIN B \cup S
<1> DEFINE sum(e) == (IF e \in DOMAIN B THEN B[e] ELSE 0) + (IF e \in S THEN 1 ELSE 0)
<1>1. Put(S, B) = [e \in DOMAIN B \cup S |-> sum(e)]
  BY DEF Put
<1> HIDE DEF sum
<1> QED BY <1>1

(* Taking packets out adds none.                                           *)
LEMMA TakeDomain ==
  ASSUME NEW S, NEW B PROVE DOMAIN Take(S, B) \subseteq DOMAIN B
  BY DEF Take

(* Answering packets adds the answers only.                                *)
LEMMA AnswerDomain ==
  ASSUME NEW R, NEW S, NEW B PROVE DOMAIN Put(S, Take(R, B)) \subseteq DOMAIN B \cup S
<1> DEFINE T == Take(R, B)
<1>1. DOMAIN T \subseteq DOMAIN B
  BY TakeDomain
<1> HIDE DEF T
<1>2. DOMAIN Put(S, T) = DOMAIN T \cup S
  BY PutDomain
<1> QED BY <1>1, <1>2 DEF T

-----------------------------------------------------------------------------
(* What append-entries messages carry is the leader's log, and a reply     *)
(* never counts entries its sender does not have.                          *)
MessageTrue(m) ==
  /\ m.kind = "AE" => \A k \in 1 .. Len(m.entries) :
        /\ m.prev + k <= assigned_log_idx
        /\ m.entries[k] = Header(log[Leader][m.prev + k])
  /\ m.kind = "AE_REP" => m.current <= Len(log[m.node])

MessagesTrue == \A m \in DOMAIN net : MessageTrue(m)

(* SHOULD_REPLY marks the entries whose replier the node is; entries that  *)
(* have not been sent are the leader's to answer.                          *)
MarksTrue ==
  /\ \A n \in Nodes : \A i \in 1 .. Len(log[n]) : log[n][i].reply <=> log[n][i].replier = n
  /\ \A i \in 1 .. Len(log[Leader]) : i > assigned_log_idx => log[Leader][i].replier = Leader

(* Only entries with their final replier are committed, so applied.        *)
CommitAssigned == commit[Leader] <= assigned_log_idx

(* The replies sent are those of the entries applied by their replier, one *)
(* for each.                                                               *)
AnswersExact ==
  /\ \A n \in Nodes, r \in Requests : replied[n][r] > 0 =>
        \E i \in 1 .. applied[n] : log[n][i].req = r /\ log[n][i].replier = n
  /\ \A n \in Nodes : \A i \in 1 .. applied[n] :
        log[n][i].replier = n => replied[n][log[n][i].req] > 0
  /\ \A n \in Nodes, r \in Requests : replied[n][r] <= 1

(* A request is in one place on its way into the leader's log.             *)
Once ==
  /\ \A i, j \in 1 .. Len(log[Leader]) : log[Leader][i].req = log[Leader][j].req => i = j
  /\ \A i, j \in 1 .. Len(pending_rr) : pending_rr[i] = pending_rr[j] => i = j
  /\ \A i \in 1 .. Len(log[Leader]), j \in 1 .. Len(pending_rr) :
        log[Leader][i].req # pending_rr[j]
  /\ \A r \in Requests : <<Leader, r>> \in mcast =>
        /\ \A i \in 1 .. Len(log[Leader]) : log[Leader][i].req # r
        /\ \A j \in 1 .. Len(pending_rr) : pending_rr[j] # r

(* Requests are queued under the flow control threshold only.              *)
RingFits ==
  /\ pending_rr # <<>> => Len(log[Leader]) - applied[Leader] < FC_THRESHOLD
  /\ Len(log[Leader]) - applied[Leader] <= LOG_ENTRY_COUNT

IInv == /\ TypeOK /\ LogsAgree /\ MessagesTrue /\ MarksTrue /\ CommitAssigned
        /\ AnswersExact /\ Once /\ RingFits

-----------------------------------------------------------------------------
(* Raft roles and indices of the nodes.                                    *)
LEMMA NodeFacts ==
  /\ Leader \in Nodes /\ Followers \subseteq Nodes /\ Nodes \subseteq Nat
  /\ \A n \in Nodes : n \in Followers <=> n # Leader
  BY ONLY ParamsAssumption, SMT DEF Nodes, Followers

Aborts == {"pending", "role", "entry", "candidate", "response", "recovery", "apply"}

(* The variables the inductive invariant is about.                         *)
main == <<mcast, pending, raft, election, unordered, worker, pending_ae, balance,
          announced_commit_idx, net, sent, timeouts>>

(* The requests of the leader's log, its queue and the network.            *)
LEMMA OnceKept ==
  ASSUME Once, log'[Leader] = log[Leader], UNCHANGED <<pending_rr, mcast>>
  PROVE  Once'
  BY SMT DEF Once

(* A step that changes nothing but the note of a failed assertion.         *)
LEMMA Still ==
  ASSUME IInv, UNCHANGED main, aborted' \in {aborted} \cup Aborts
  PROVE  IInv'
<1> USE DEF IInv, main, pending, raft, election, worker, balance
<1>1. TypeOK'
  BY DEF TypeOK, Aborts
<1>2. LogsAgree'
  BY DEF LogsAgree
<1>3. MessagesTrue'
  BY DEF MessagesTrue, MessageTrue
<1>4. MarksTrue'
  BY DEF MarksTrue
<1>5. CommitAssigned'
  BY DEF CommitAssigned
<1>6. AnswersExact'
  BY SMT DEF AnswersExact
<1>7. Once'
  BY SMT DEF Once
<1>8. RingFits'
  BY DEF RingFits
<1> QED BY <1>1, <1>2, <1>3, <1>4, <1>5, <1>6, <1>7, <1>8

(* A failed assertion stops the model.                                     *)
LEMMA AbortStep == ASSUME IInv, NEW what \in Aborts, Abort(what) PROVE IInv'
  BY Still DEF Abort, main

(* Nothing has been ordered, sent or applied.                              *)
LEMMA InitIInv == Init => IInv
<1> SUFFICES ASSUME Init PROVE IInv
  OBVIOUS
<1>1. DOMAIN net = {}
  BY DEF Init, Empty
<1>2. \A n \in Nodes : Len(log[n]) = 0 /\ commit[n] = 0 /\ applied[n] = 0
  BY DEF Init
<1>3. /\ Len(pending_rr) = 0 /\ carried = 0 /\ term_start = 0 /\ assigned_log_idx = 0
      /\ announced_commit_idx = 0 /\ sent = 0 /\ timeouts = 0 /\ aborted = "no"
      /\ role = "leader" /\ mcast = Copies /\ \A n \in Nodes, r \in Requests : replied[n][r] = 0
  BY DEF Init
<1>4. <<>> \in Seq(Entry) /\ <<>> \in Seq(Requests)
  BY ONLY SMT
<1>5. /\ log \in [Nodes -> Seq(Entry)] /\ pending_rr \in Seq(Requests)
      /\ unordered \in [Nodes -> SUBSET Requests]
  BY <1>4 DEF Init
<1>6. /\ commit \in [Nodes -> Nat] /\ applied \in [Nodes -> Nat]
      /\ next_idx \in [Followers -> Nat \ {0}] /\ match_idx \in [Followers -> Nat]
      /\ pending_ae \in [Followers -> BOOLEAN] /\ assigned \in [Nodes -> Nat]
      /\ done \in [Nodes -> Nat] /\ peer_done \in [Followers -> Nat]
      /\ term \in [Nodes -> 1 .. MaxTerm]
  BY ParamsAssumption, SMT DEF Init
<1>7. TypeOK
  <2>1. mcast \subseteq Nodes \X Requests
    BY <1>3, ParamsAssumption DEF Nodes
  <2>2. /\ carried \in 0 .. Len(pending_rr) /\ Len(pending_rr) <= PENDING_LIMIT
        /\ term_start \in 0 .. Len(log[Leader]) /\ assigned_log_idx \in 0 .. Len(log[Leader])
        /\ \A n \in Nodes : applied[n] <= commit[n] /\ commit[n] <= Len(log[n])
    BY ONLY <1>2, <1>3, NodeFacts, ParamsAssumption, SMT
  <2>3. /\ announced_commit_idx \in Nat /\ sent \in 0 .. MaxAe /\ timeouts \in 0 .. MaxTimeouts
    BY ONLY <1>3, ParamsAssumption, SMT
  <2>4. DOMAIN net \subseteq Message /\ replied \in [Nodes -> [Requests -> Nat]]
    BY <1>1, SMT DEF Init
  <2> QED BY <1>3, <1>5, <1>6, <2>1, <2>2, <2>3, <2>4 DEF TypeOK
<1>8. LogsAgree /\ MessagesTrue /\ CommitAssigned
  BY <1>1, <1>2, <1>3, NodeFacts, SMT DEF LogsAgree, MessagesTrue, CommitAssigned
<1>9. MarksTrue /\ AnswersExact
  <2>1. \A n \in Nodes : \A i \in 1 .. applied[n] : FALSE
    BY ONLY <1>2, SMT
  <2>2. \A n \in Nodes, r \in Requests : ~(replied[n][r] > 0) /\ replied[n][r] <= 1
    BY ONLY <1>3, SMT
  <2>3. AnswersExact
    BY <2>1, <2>2 DEF AnswersExact
  <2>4. MarksTrue
    BY ONLY <1>2, NodeFacts, SMT DEF MarksTrue
  <2> QED BY <2>3, <2>4
<1>10. Once /\ RingFits
  BY ONLY <1>2, <1>3, <1>5, NodeFacts, ParamsAssumption, SMT DEF Once, RingFits
<1> QED BY <1>7, <1>8, <1>9, <1>10 DEF IInv

-----------------------------------------------------------------------------
(* The replies stay exact when what has been applied stays in the logs.    *)
LEMMA AnswersKept ==
  ASSUME AnswersExact, UNCHANGED <<applied, replied>>,
         \A n \in Nodes : \A i \in 1 .. applied[n] : log'[n][i] = log[n][i]
  PROVE  AnswersExact'
<1>1. ASSUME NEW n \in Nodes, NEW r \in Requests, replied[n][r] > 0
      PROVE  \E i \in 1 .. applied[n] : log'[n][i].req = r /\ log'[n][i].replier = n
  <2>1. PICK i \in 1 .. applied[n] : log[n][i].req = r /\ log[n][i].replier = n
    BY <1>1 DEF AnswersExact
  <2>2. log'[n][i].req = r /\ log'[n][i].replier = n
    BY <2>1
  <2> QED BY <2>2
<1>2. ASSUME NEW n \in Nodes, NEW i \in 1 .. applied[n], log'[n][i].replier = n
      PROVE  replied[n][log'[n][i].req] > 0
  <2>1. log'[n][i] = log[n][i] /\ log[n][i].replier = n
    BY <1>2
  <2> QED BY <2>1 DEF AnswersExact
<1> QED BY <1>1, <1>2 DEF AnswersExact

(* The fields of a message, by its kind.                                   *)
LEMMA Kinds ==
  ASSUME NEW m \in Message
  PROVE  /\ m.kind = "AE" => m \in AeReqs
         /\ m.kind = "AE_REP" => m \in AeReps
         /\ m.kind = "ANNOUNCE" => m \in AnnounceReqs
         /\ m.kind = "ANNOUNCE_REP" => m \in AnnounceReps
         /\ m.kind = "RECOVER" => m \in RecoveryReqs
         /\ m.kind = "RECOVER_REP" => m \in RecoveryReps
  BY DEF Message, AeReqs, AeReps, AnnounceReqs, AnnounceReps, RecoveryReqs, RecoveryReps

(* An append-entries request carries a sequence.                           *)
LEMMA AeFacts ==
  ASSUME NEW m \in AeReqs
  PROVE  m.prev \in Nat /\ Len(m.entries) \in Nat
<1>1. m.prev \in Nat /\ m.entries \in Seq([req : Requests, replier : Nodes])
  BY DEF AeReqs
<1> QED BY ONLY <1>1, SMT

(* What does not depend on the messages in flight and the commit index,    *)
(* when the logs and what has been ordered, assigned and applied stay.     *)
LEMMA FrameLogs ==
  ASSUME IInv, UNCHANGED <<log, assigned_log_idx, pending_rr, mcast, applied, replied>>
  PROVE  LogsAgree' /\ MarksTrue' /\ AnswersExact' /\ Once' /\ RingFits'
<1> USE DEF IInv
<1>1. LogsAgree'
  BY DEF LogsAgree
<1>2. MarksTrue'
  BY DEF MarksTrue
<1>3. AnswersExact'
  BY SMT DEF AnswersExact
<1>4. Once'
  BY SMT DEF Once
<1>5. RingFits'
  BY DEF RingFits
<1> QED BY <1>1, <1>2, <1>3, <1>4, <1>5

(* The same when the leader's commit index stays too.                      *)
LEMMA Frame ==
  ASSUME IInv, UNCHANGED <<log, assigned_log_idx, pending_rr, mcast, applied, replied>>,
         commit'[Leader] = commit[Leader]
  PROVE  LogsAgree' /\ MarksTrue' /\ CommitAssigned' /\ AnswersExact' /\ Once' /\ RingFits'
  BY FrameLogs DEF IInv, CommitAssigned

(* The messages, when only ones in X are new.                              *)
LEMMA FrameMessages ==
  ASSUME IInv, UNCHANGED <<log, assigned_log_idx>>, NEW X,
         DOMAIN net' \subseteq DOMAIN net \cup X,
         \A x \in X : x \in Message /\ MessageTrue(x)'
  PROVE  DOMAIN net' \subseteq Message /\ MessagesTrue'
<1>1. \A m \in DOMAIN net : m \in Message /\ MessageTrue(m)
  BY DEF IInv, TypeOK, MessagesTrue
<1>2. \A m \in DOMAIN net : MessageTrue(m)'
  BY <1>1 DEF MessageTrue
<1> QED BY <1>1, <1>2 DEF MessagesTrue

(* The messages, when m is taken in and x is sent.                         *)
LEMMA Answer ==
  ASSUME IInv, UNCHANGED <<log, assigned_log_idx>>, NEW m, NEW x,
         net' = Put({x}, Take({m}, net)), x \in Message, MessageTrue(x)'
  PROVE  DOMAIN net' \subseteq Message /\ MessagesTrue'
<1>1. DOMAIN net' \subseteq DOMAIN net \cup {x}
  BY AnswerDomain
<1> DEFINE X == {x}
<1>2. \A y \in X : y \in Message /\ MessageTrue(y)'
  OBVIOUS
<1>3. DOMAIN net' \subseteq DOMAIN net \cup X
  BY <1>1
<1> HIDE DEF X
<1> QED BY <1>2, <1>3, FrameMessages

(* The messages, when some are taken in and none is sent.                  *)
LEMMA FewerMessages ==
  ASSUME IInv, UNCHANGED <<log, assigned_log_idx>>, DOMAIN net' \subseteq DOMAIN net
  PROVE  DOMAIN net' \subseteq Message /\ MessagesTrue'
<1>1. \A m \in DOMAIN net : m \in Message /\ MessageTrue(m)
  BY DEF IInv, TypeOK, MessagesTrue
<1>2. \A m \in DOMAIN net : MessageTrue(m)'
  BY <1>1 DEF MessageTrue
<1> QED BY <1>1, <1>2 DEF MessagesTrue

-----------------------------------------------------------------------------
(* Elections: only terms, roles and what they reset change.                *)
LEMMA CampaignStep ==
  ASSUME IInv, NEW n \in Nodes, NEW t \in 1 .. MaxTerm, Campaign(n, t)
  PROVE  IInv'
<1> USE DEF Campaign, pending, raft, worker, balance
<1>1. LogsAgree' /\ MarksTrue' /\ CommitAssigned' /\ AnswersExact' /\ Once' /\ RingFits'
  BY Frame
<1>2. MessagesTrue'
  BY DEF IInv, MessagesTrue, MessageTrue
<1>3. TypeOK'
  BY DEF IInv, TypeOK
<1> QED BY <1>1, <1>2, <1>3 DEF IInv

(* A node hears of a newer term.                                           *)
LEMMA VoteRequestStep ==
  ASSUME IInv, NEW n \in Nodes, NEW t \in 1 .. MaxTerm, ReceiveVoteRequest(n, t)
  PROVE  IInv'
<1> USE DEF ReceiveVoteRequest, pending, raft, balance
<1>1. LogsAgree' /\ MarksTrue' /\ CommitAssigned' /\ AnswersExact' /\ Once' /\ RingFits'
  BY Frame
<1>2. MessagesTrue'
  BY DEF IInv, MessagesTrue, MessageTrue
<1>3. term' \in [Nodes -> 1 .. MaxTerm] /\ done' \in [Nodes -> Nat]
  BY DEF IInv, TypeOK, Follow, Most
<1>4. TypeOK'
  BY <1>3 DEF IInv, TypeOK
<1> QED BY <1>1, <1>2, <1>4 DEF IInv

(* A new term of the leader: what it has not assigned stays its own to     *)
(* answer.                                                                 *)
LEMMA BecomeLeaderStep == ASSUME IInv, BecomeLeader PROVE IInv'
<1> USE DEF BecomeLeader, pending
<1>1. /\ log \in [Nodes -> Seq(Entry)] /\ Leader \in Nodes /\ Followers \subseteq Nodes
      /\ assigned_log_idx \in 0 .. Len(log[Leader])
      /\ \A n \in Nodes : commit[n] \in Nat /\ commit[n] <= Len(log[n])
  BY NodeFacts DEF IInv, TypeOK
<1>2. Len(log[Leader]) \in Nat
  BY ONLY <1>1, SMT
<1>3. TypeOK'
  <2>1. /\ next_idx' \in [Followers -> Nat \ {0}] /\ match_idx' \in [Followers -> Nat]
        /\ assigned' \in [Nodes -> Nat] /\ peer_done' \in [Followers -> Nat]
    BY <1>2, SMT
  <2>2. done' \in [Nodes -> Nat] /\ unordered' \in [Nodes -> SUBSET Requests]
    BY DEF IInv, TypeOK
  <2>3. assigned_log_idx' \in 0 .. Len(log[Leader]) /\ term_start' \in 0 .. Len(log[Leader])
    BY <1>2, SMT
  <2> QED BY <2>1, <2>2, <2>3 DEF IInv, TypeOK
<1>4. LogsAgree' /\ CommitAssigned'
  BY <1>1, <1>2, SMT DEF IInv, LogsAgree, CommitAssigned
<1>5. MessagesTrue'
  <2> SUFFICES ASSUME NEW m \in DOMAIN net PROVE MessageTrue(m)'
    BY DEF MessagesTrue
  <2>1. m \in Message /\ MessageTrue(m)
    BY DEF IInv, TypeOK, MessagesTrue
  <2>2. m.kind = "AE" => m.prev \in Nat /\ m.entries \in Seq([req : Requests, replier : Nodes])
    BY <2>1, Kinds DEF AeReqs
  <2> QED BY <1>1, <1>2, <2>1, <2>2, SMT DEF MessageTrue
<1>6. MarksTrue'
  BY <1>1, <1>2, SMT DEF IInv, MarksTrue
<1>7. AnswersExact'
  BY SMT DEF IInv, AnswersExact
<1>8. Once' /\ RingFits'
  BY ZenonT(60) DEF IInv, Once, RingFits
<1> QED BY <1>3, <1>4, <1>5, <1>6, <1>7, <1>8 DEF IInv

-----------------------------------------------------------------------------
(* A timeout only marks messages as not live.                              *)
LEMMA TimeoutStep ==
  ASSUME IInv, NEW f \in Followers, AppendEntriesTimeout(f)
  PROVE  IInv'
<1> DEFINE old == {m \in DOMAIN net : m.kind \in {"AE", "AE_REP"} /\ m.node = f /\ m.live}
           X == {[m EXCEPT !.live = FALSE] : m \in {x \in old : x.kind = "AE"}}
<1>1. net' = Put(X, Take(old, net))
  BY DEF AppendEntriesTimeout
<1>2. /\ timeouts < MaxTimeouts /\ timeouts' = timeouts + 1
      /\ pending_ae' = [pending_ae EXCEPT ![f] = FALSE]
      /\ UNCHANGED <<mcast, pending, raft, election, unordered, worker, balance,
                     announced_commit_idx, sent, aborted>>
  BY DEF AppendEntriesTimeout
<1> USE DEF pending, raft, election, worker, balance
<1>3. DOMAIN net' \subseteq DOMAIN net \cup X
  BY <1>1, AnswerDomain
<1>4. \A x \in X : x \in Message /\ MessageTrue(x)'
  <2> SUFFICES ASSUME NEW m \in DOMAIN net, m.kind = "AE",
                      NEW x, x = [m EXCEPT !.live = FALSE]
               PROVE  x \in Message /\ MessageTrue(x)'
    OBVIOUS
  <2>1. m \in AeReqs /\ MessageTrue(m)
    BY Kinds DEF IInv, TypeOK, MessagesTrue
  <2>2. x \in AeReqs /\ x.kind = "AE" /\ x.prev = m.prev /\ x.entries = m.entries
    BY <2>1 DEF AeReqs
  <2> QED BY <1>2, <2>1, <2>2 DEF Message, MessageTrue
<1>5. DOMAIN net' \subseteq Message /\ MessagesTrue'
  <2> HIDE DEF X
  <2> QED BY <1>2, <1>3, <1>4, FrameMessages
<1>6. LogsAgree' /\ MarksTrue' /\ CommitAssigned' /\ AnswersExact' /\ Once' /\ RingFits'
  BY <1>2, Frame
<1>7. TypeOK'
  <2>1. TypeOK
    BY DEF IInv
  <2>2. timeouts' \in 0 .. MaxTimeouts /\ pending_ae' \in [Followers -> BOOLEAN]
    BY ONLY <1>2, <2>1, ParamsAssumption, SMT DEF TypeOK
  <2> QED BY <1>2, <1>5, <2>1, <2>2 DEF TypeOK
<1> QED BY <1>5, <1>6, <1>7 DEF IInv

(* A recovery request is answered with an entry of the leader.             *)
LEMMA RecoveryReqStep ==
  ASSUME IInv, NEW f \in Followers, NEW m \in DOMAIN net, ReceiveRecoveryReq(f, m)
  PROVE  IInv'
<1> DEFINE i == m.current + 1
<1>1. CASE Abort("entry")
  BY <1>1, AbortStep DEF Aborts
<1>2. CASE ~ Abort("entry")
  <2> PICK x : x = RecoveryRep(f, i)
    OBVIOUS
  <2>1. /\ net' = Put({x}, Take({m}, net))
        /\ UNCHANGED <<mcast, pending, raft, election, unordered, worker, pending_ae, balance,
                       announced_commit_idx, sent, timeouts, aborted>>
        /\ ~(i > Len(log[Leader])) /\ m.kind = "RECOVER"
    BY <1>2 DEF ReceiveRecoveryReq
  <2> USE DEF pending, raft, election, worker, balance
  <2>2. m.current \in Nat
    BY <2>1, Kinds DEF IInv, TypeOK, RecoveryReqs
  <2>3. log[Leader] \in Seq(Entry)
    BY NodeFacts DEF IInv, TypeOK
  <2>4. log[Leader][i] \in Entry
    <3>1. ~(i > Len(log[Leader]))
      BY <2>1
    <3>2. PICK j : j = i
      OBVIOUS
    <3>3. j \in 1 .. Len(log[Leader])
      BY ONLY <2>2, <2>3, <3>1, <3>2, SMT
    <3> QED BY ONLY <2>3, <3>2, <3>3, SMT
  <2>5. x \in RecoveryReps /\ x.kind = "RECOVER_REP"
    BY <2>4 DEF RecoveryRep, RecoveryReps, Entry
  <2>6. x \in Message /\ MessageTrue(x)'
    BY <2>5 DEF Message, MessageTrue
  <2>7. DOMAIN net' \subseteq Message /\ MessagesTrue'
    BY <2>1, <2>6, Answer
  <2>8. LogsAgree' /\ MarksTrue' /\ CommitAssigned' /\ AnswersExact' /\ Once' /\ RingFits'
    BY <2>1, Frame
  <2>9. TypeOK'
    <3>1. TypeOK
      BY DEF IInv
    <3> QED BY <2>1, <2>7, <3>1 DEF TypeOK
  <2> QED BY <2>7, <2>8, <2>9 DEF IInv
<1> QED BY <1>1, <1>2

(* A recovered request joins the unordered ones.                           *)
LEMMA RecoveryRepStep ==
  ASSUME IInv, NEW f \in Followers, NEW m \in DOMAIN net, ReceiveRecoveryRep(f, m)
  PROVE  IInv'
<1>1. CASE Abort("recovery")
  BY <1>1, AbortStep DEF Aborts
<1>2. CASE ~ Abort("recovery")
  <2>1. /\ net' = Take({m}, net) /\ unordered' = AddToUnordered(f, Recovered(m))
        /\ UNCHANGED <<mcast, pending, raft, election, worker, pending_ae, balance,
                       announced_commit_idx, sent, timeouts, aborted>>
        /\ m.kind = "RECOVER_REP"
    BY <1>2 DEF ReceiveRecoveryRep
  <2> USE DEF pending, raft, election, worker, balance
  <2>2. m.req \in Requests
    <3>1. m \in RecoveryReps
      BY <2>1, Kinds DEF IInv, TypeOK
    <3> QED BY <3>1 DEF RecoveryReps
  <2>3. DOMAIN net' \subseteq DOMAIN net
    BY <2>1, TakeDomain
  <2>4. DOMAIN net' \subseteq Message /\ MessagesTrue'
    BY <2>1, <2>3, FewerMessages
  <2>5. LogsAgree' /\ MarksTrue' /\ CommitAssigned' /\ AnswersExact' /\ Once' /\ RingFits'
    BY <2>1, Frame
  <2>6. unordered' \in [Nodes -> SUBSET Requests]
    BY <2>1, <2>2, NodeFacts DEF IInv, TypeOK, AddToUnordered, Recovered
  <2>7. TypeOK'
    <3>1. TypeOK
      BY DEF IInv
    <3> QED BY <2>1, <2>4, <2>6, <3>1 DEF TypeOK
  <2> QED BY <2>4, <2>5, <2>7 DEF IInv
<1> QED BY <1>1, <1>2

(* What a message tells a follower of the commit index never goes beyond   *)
(* its log.                                                                *)
LEMMA CommitToFacts ==
  ASSUME TypeOK, NEW f \in Followers, NEW m, m.commit \in Nat, NEW n \in Nat, Len(log[f]) <= n
  PROVE  CommitTo(f, m, n) \in Nat /\ commit[f] <= CommitTo(f, m, n) /\ CommitTo(f, m, n) <= n
<1>1. commit[f] \in Nat /\ Len(log[f]) \in Nat /\ commit[f] <= Len(log[f])
  BY NodeFacts, SMT DEF TypeOK
<1> QED BY <1>1, SMT DEF CommitTo, Most, Least

(* A node that hears of a term.                                            *)
LEMMA FollowFacts ==
  ASSUME TypeOK, NEW n \in Nodes, NEW t \in 1 .. MaxTerm, Follow(n, t)
  PROVE  term' \in [Nodes -> 1 .. MaxTerm] /\ done' \in [Nodes -> Nat]
  BY DEF TypeOK, Follow, Most

(* A follower hears of the commit index.                                   *)
LEMMA AnnounceStep ==
  ASSUME IInv, NEW f \in Followers, NEW m \in DOMAIN net, ReceiveAnnounce(f, m)
  PROVE  IInv'
<1> PICK x : x = AnnounceCommitRep(f)
  OBVIOUS
<1>1. /\ net' = Put({x}, Take({m}, net)) /\ m.kind = "ANNOUNCE" /\ Follow(f, m.term)
      /\ commit' = [commit EXCEPT ![f] = CommitTo(f, m, Len(log[f]))]
      /\ unordered' = IF m.term > term[f] THEN [unordered EXCEPT ![f] = {}] ELSE unordered
      /\ UNCHANGED <<mcast, pending, log, next_idx, match_idx, role, term_start, applied, replied,
                     pending_ae, balance, announced_commit_idx, sent, timeouts, aborted>>
  BY DEF ReceiveAnnounce
<1> USE DEF pending, balance
<1>2. TypeOK /\ m \in AnnounceReqs /\ f \in Nodes /\ f # Leader /\ Leader \in Nodes
  BY <1>1, Kinds, NodeFacts DEF IInv, TypeOK
<1>3. m.commit \in Nat /\ m.term \in 1 .. MaxTerm
  BY <1>2 DEF AnnounceReqs
<1>4. term' \in [Nodes -> 1 .. MaxTerm] /\ done' \in [Nodes -> Nat]
  BY <1>1, <1>2, <1>3, FollowFacts
<1>5. x \in Message /\ MessageTrue(x)'
  <2>1. x \in AnnounceReps /\ x.kind = "ANNOUNCE_REP"
    BY <1>2, <1>4 DEF AnnounceCommitRep, AnnounceReps
  <2> QED BY <2>1 DEF Message, MessageTrue
<1>6. DOMAIN net' \subseteq Message /\ MessagesTrue'
  BY <1>1, <1>5, Answer
<1>7. LogsAgree' /\ MarksTrue' /\ CommitAssigned' /\ AnswersExact' /\ Once' /\ RingFits'
  <2>1. commit'[Leader] = commit[Leader]
    BY <1>1, <1>2 DEF TypeOK
  <2> QED BY <1>1, <2>1, Frame
<1>8. TypeOK'
  <2>1. log[f] \in Seq(Entry) /\ Len(log[f]) \in Nat
    BY ONLY <1>2, SMT DEF TypeOK
  <2>a. PICK c, len : len = Len(log[f]) /\ c = CommitTo(f, m, len)
    OBVIOUS
  <2>2. c \in Nat /\ commit[f] <= c /\ c <= len
    <3>1. len \in Nat /\ Len(log[f]) <= len
      BY ONLY <2>1, <2>a, SMT
    <3> QED BY <1>2, <1>3, <2>a, <3>1, CommitToFacts
  <2>3. /\ commit' \in [Nodes -> Nat]
        /\ \A n \in Nodes : applied[n] <= commit'[n] /\ commit'[n] <= Len(log[n])
    <3>1. commit' = [commit EXCEPT ![f] = c]
      BY <1>1, <2>a
    <3>2. \A n \in Nodes : commit[n] \in Nat /\ applied[n] \in Nat /\ applied[n] <= commit[n]
                           /\ commit[n] <= Len(log[n])
      BY <1>2 DEF TypeOK
    <3>3. commit \in [Nodes -> Nat]
      BY <1>2 DEF TypeOK
    <3> QED BY ONLY <1>2, <2>1, <2>a, <2>2, <3>1, <3>2, <3>3, SMT
  <2>4. unordered' \in [Nodes -> SUBSET Requests]
    BY <1>1, <1>2 DEF TypeOK
  <2> QED BY <1>1, <1>2, <1>4, <1>6, <2>3, <2>4 DEF TypeOK
<1> QED BY <1>6, <1>7, <1>8 DEF IInv

(* The leader hears what a follower has done.                              *)
LEMMA AnnounceReplyStep ==
  ASSUME IInv, NEW f \in Followers, NEW m \in DOMAIN net, ReceiveAnnounceReply(f, m)
  PROVE  IInv'
<1>1. /\ net' = Take({m}, net) /\ m.kind = "ANNOUNCE_REP"
      /\ peer_done' = [peer_done EXCEPT ![f] = m.done]
      /\ UNCHANGED <<mcast, pending, raft, election, unordered, worker, pending_ae,
                     assigned_log_idx, assigned, announced_commit_idx, sent, timeouts, aborted>>
  BY DEF ReceiveAnnounceReply
<1> USE DEF pending, raft, election, worker
<1>2. TypeOK /\ m.done \in Nat
  BY <1>1, Kinds DEF IInv, TypeOK, AnnounceReps
<1>3. DOMAIN net' \subseteq DOMAIN net
  BY <1>1, TakeDomain
<1>4. DOMAIN net' \subseteq Message /\ MessagesTrue'
  BY <1>1, <1>3, FewerMessages
<1>5. LogsAgree' /\ MarksTrue' /\ CommitAssigned' /\ AnswersExact' /\ Once' /\ RingFits'
  BY <1>1, Frame
<1>6. peer_done' \in [Followers -> Nat]
  BY <1>1, <1>2 DEF TypeOK
<1>7. TypeOK'
  BY <1>1, <1>2, <1>4, <1>6 DEF TypeOK
<1> QED BY <1>4, <1>5, <1>7 DEF IInv

-----------------------------------------------------------------------------
(* The client's request leaves the network and may be queued.              *)
LEMMA HandleReplicatedReqStep ==
  ASSUME IInv, NEW n \in Nodes, NEW r \in Requests, HandleReplicatedReq(n, r)
  PROVE  IInv'
<1> DEFINE leads == n = Leader /\ role = "leader"
<1>0. TypeOK
  BY DEF IInv
<1>1. CASE Abort("pending") \/ Abort("role")
  BY <1>1, AbortStep DEF Aborts
<1>2. CASE ~(Abort("pending") \/ Abort("role"))
  <2>1. /\ <<n, r>> \in mcast /\ mcast' = mcast \ {<<n, r>>}
        /\ Keeps(n) /\ leads => Len(pending_rr) < PENDING_LIMIT
        /\ pending_rr' = IF Keeps(n) /\ leads THEN Append(pending_rr, r) ELSE pending_rr
        /\ unordered' \in {unordered, AddToUnordered(n, r)}
        /\ UNCHANGED <<carried, raft, election, worker, pending_ae, balance,
                       announced_commit_idx, net, sent, timeouts, aborted>>
    <3>1. ~(Keeps(n) /\ leads /\ Len(pending_rr) >= PENDING_LIMIT)
      BY <1>2 DEF HandleReplicatedReq
    <3>2. Len(pending_rr) \in Nat /\ PENDING_LIMIT \in Nat
      BY ONLY <1>0, ParamsAssumption, SMT DEF TypeOK
    <3> QED BY <1>2, <3>1, <3>2, SMT DEF HandleReplicatedReq
  <2> USE DEF raft, election, worker, balance
  <2>2. /\ pending_rr \in Seq(Requests) /\ Len(pending_rr) \in Nat
        /\ carried \in 0 .. Len(pending_rr)
    BY ONLY <1>0, SMT DEF TypeOK
  <2>3. LogsAgree' /\ MarksTrue' /\ CommitAssigned'
    BY <2>1 DEF IInv, LogsAgree, MarksTrue, CommitAssigned
  <2>4. AnswersExact' /\ MessagesTrue'
    <3>1. AnswersExact /\ MessagesTrue
      BY DEF IInv
    <3>2. UNCHANGED <<log, applied, replied, assigned_log_idx, net>>
      BY <2>1
    <3> QED BY ONLY <3>1, <3>2, SMT DEF AnswersExact, MessagesTrue, MessageTrue
  <2>5. /\ pending_rr' \in Seq(Requests) /\ Len(pending_rr) <= Len(pending_rr')
        /\ Len(pending_rr') \in Nat /\ Len(pending_rr') <= PENDING_LIMIT
    BY ONLY <1>0, <2>1, <2>2, ParamsAssumption, SMTT(30) DEF TypeOK
  <2>6. TypeOK'
    <3>1. /\ unordered \in [Nodes -> SUBSET Requests]
          /\ AddToUnordered(n, r) \in [Nodes -> SUBSET Requests]
      BY <1>0 DEF TypeOK, AddToUnordered
    <3>2. unordered' \in [Nodes -> SUBSET Requests]
      BY <2>1, <3>1
    <3>3. mcast' \subseteq Nodes \X Requests
      BY <1>0, <2>1 DEF TypeOK
    <3>4. carried' \in 0 .. Len(pending_rr')
      BY ONLY <2>1, <2>2, <2>5, SMT
    <3> QED BY <1>0, <2>1, <2>5, <3>2, <3>3, <3>4 DEF TypeOK
  <2>7. Once'
    <3>1. CASE pending_rr' = pending_rr
      BY <2>1, <3>1, ZenonT(60) DEF IInv, Once
    <3>2. CASE n = Leader /\ pending_rr' = Append(pending_rr, r)
      <4>1. Len(pending_rr') = Len(pending_rr) + 1 /\ pending_rr'[Len(pending_rr) + 1] = r
            /\ \A j \in 1 .. Len(pending_rr) : pending_rr'[j] = pending_rr[j]
        BY ONLY <2>2, <3>2, SMT
      <4>2. \A j \in 1 .. Len(pending_rr') : j \in 1 .. Len(pending_rr) \/ pending_rr'[j] = r
        BY ONLY <2>2, <4>1, SMT
      <4>3. /\ log' = log /\ <<Leader, r>> \in mcast
            /\ \A q : <<Leader, q>> \in mcast' => <<Leader, q>> \in mcast /\ q # r
        BY <2>1, <3>2
      <4>4. Once
        BY DEF IInv
      <4>5. /\ \A j \in 1 .. Len(pending_rr) : pending_rr[j] # r
            /\ \A i \in 1 .. Len(log[Leader]) : log[Leader][i].req # r
        BY <4>3, <4>4 DEF Once
      <4>6. \A i, j \in 1 .. Len(pending_rr') : pending_rr'[i] = pending_rr'[j] => i = j
        <5>1. \A i, j \in 1 .. Len(pending_rr) : pending_rr[i] = pending_rr[j] => i = j
          BY <4>4 DEF Once
        <5>2. \A j \in 1 .. Len(pending_rr') : j \in 1 .. Len(pending_rr) \/ j = Len(pending_rr) + 1
          BY ONLY <2>2, <4>1, SMT
        <5> QED BY <4>1, <4>5, <5>1, <5>2
      <4>7. /\ \A i \in 1 .. Len(log'[Leader]), j \in 1 .. Len(pending_rr') :
                  log'[Leader][i].req # pending_rr'[j]
            /\ \A q \in Requests : <<Leader, q>> \in mcast' =>
                  /\ \A i \in 1 .. Len(log'[Leader]) : log'[Leader][i].req # q
                  /\ \A j \in 1 .. Len(pending_rr') : pending_rr'[j] # q
        <5>1. \A j \in 1 .. Len(pending_rr') : pending_rr'[j] = r \/
                  (j \in 1 .. Len(pending_rr) /\ pending_rr'[j] = pending_rr[j])
          BY <4>1, <4>2
        <5>2. ASSUME NEW i \in 1 .. Len(log[Leader]), NEW j \in 1 .. Len(pending_rr')
              PROVE  log[Leader][i].req # pending_rr'[j]
          <6>1. CASE pending_rr'[j] = r
            BY <4>5, <6>1
          <6>2. CASE j \in 1 .. Len(pending_rr) /\ pending_rr'[j] = pending_rr[j]
            BY <4>4, <6>2 DEF Once
          <6> QED BY <5>1, <6>1, <6>2
        <5>3. ASSUME NEW q \in Requests, <<Leader, q>> \in mcast'
              PROVE  /\ \A i \in 1 .. Len(log[Leader]) : log[Leader][i].req # q
                     /\ \A j \in 1 .. Len(pending_rr') : pending_rr'[j] # q
          <6>1. <<Leader, q>> \in mcast /\ q # r
            BY <4>3, <5>3
          <6>2. /\ \A i \in 1 .. Len(log[Leader]) : log[Leader][i].req # q
                /\ \A j \in 1 .. Len(pending_rr) : pending_rr[j] # q
            BY <4>4, <6>1 DEF Once
          <6> QED BY <5>1, <6>1, <6>2
        <5> QED BY <4>3, <5>2, <5>3
      <4> QED BY <4>3, <4>4, <4>6, <4>7 DEF Once
    <3> QED BY <2>1, <3>1, <3>2
  <2>8. RingFits'
    BY <2>1 DEF IInv, RingFits, Keeps
  <2> QED BY <2>3, <2>4, <2>6, <2>7, <2>8 DEF IInv
<1> QED BY <1>1, <1>2

(* An entry of a node is the leader's, with the same replier.              *)
LEMMA EntryOrdered ==
  ASSUME IInv, NEW n \in Nodes, NEW i \in 1 .. Len(log[n])
  PROVE  /\ i \in 1 .. Len(log[Leader])
         /\ log[Leader][i].req = log[n][i].req /\ log[Leader][i].replier = log[n][i].replier
<1>1. TypeOK /\ LogsAgree
  BY DEF IInv
<1>2. CASE n = Leader
  BY <1>2
<1>3. CASE n # Leader
  <2>1. n \in Followers
    BY <1>3, NodeFacts
  <2>2. Len(log[n]) <= assigned_log_idx /\ Header(log[n][i]) = Header(log[Leader][i])
    BY <1>1, <2>1 DEF LogsAgree
  <2>3. /\ assigned_log_idx \in 0 .. Len(log[Leader])
        /\ Len(log[Leader]) \in Nat /\ Len(log[n]) \in Nat
    BY ONLY <1>1, n \in Nodes, NodeFacts, SMTT(30) DEF TypeOK
  <2>4. i \in 1 .. Len(log[Leader])
    BY ONLY <2>2, <2>3, i \in 1 .. Len(log[n]), SMT
  <2> QED BY <2>2, <2>4 DEF Header
<1> QED BY <1>2, <1>3

(* What a node has applied is in the leader's log.                         *)
LEMMA AppliedOrdered ==
  ASSUME IInv, NEW n \in Nodes, NEW i \in 1 .. applied[n]
  PROVE  \E j \in 1 .. Len(log[Leader]) :
           log[Leader][j].req = log[n][i].req /\ log[Leader][j].replier = log[n][i].replier
<1>1. TypeOK
  BY DEF IInv
<1>2. /\ applied[n] \in Nat /\ commit[n] \in Nat /\ Len(log[n]) \in Nat
      /\ applied[n] <= commit[n] /\ commit[n] <= Len(log[n])
  BY ONLY <1>1, n \in Nodes, SMTT(30) DEF TypeOK
<1>3. i \in 1 .. Len(log[n])
  BY ONLY <1>2, i \in 1 .. applied[n], SMT
<1> QED BY <1>3, EntryOrdered

(* No request is in two entries of a node.                                 *)
LEMMA EntriesDiffer ==
  ASSUME IInv, NEW n \in Nodes, NEW i \in 1 .. Len(log[n]), NEW j \in 1 .. Len(log[n]),
         log[n][i].req = log[n][j].req
  PROVE  i = j
<1>1. /\ i \in 1 .. Len(log[Leader]) /\ j \in 1 .. Len(log[Leader])
      /\ log[Leader][i].req = log[n][i].req /\ log[Leader][j].req = log[n][j].req
  BY EntryOrdered
<1> QED BY <1>1 DEF IInv, Once

(* An entry is answered when it is applied by its replier.                 *)
LEMMA ApplyLogStep ==
  ASSUME IInv, NEW n \in Nodes, ApplyLog(n)
  PROVE  IInv'
<1> DEFINE i == applied[n] + 1
           e == log[n][i]
<1>1. CASE Abort("apply")
  BY <1>1, AbortStep DEF Aborts
<1>2. CASE ~ Abort("apply")
  <2>1. /\ applied[n] < commit[n] /\ applied' = [applied EXCEPT ![n] = i]
        /\ done' = IF Executes(n, e) THEN [done EXCEPT ![n] = @ + 1] ELSE done
        /\ replied' = IF Executes(n, e) /\ e.reply
                        THEN [replied EXCEPT ![n][e.req] = @ + 1] ELSE replied
        /\ UNCHANGED <<mcast, pending, raft, election, unordered, pending_ae, balance,
                       announced_commit_idx, net, sent, timeouts, aborted>>
    BY <1>2 DEF ApplyLog
  <2> USE DEF pending, raft, election, balance
  <2>2. TypeOK
    BY DEF IInv
  <2>3. /\ applied[n] \in Nat /\ commit[n] \in Nat /\ Len(log[n]) \in Nat /\ log[n] \in Seq(Entry)
        /\ commit[n] <= Len(log[n]) /\ applied \in [Nodes -> Nat] /\ done \in [Nodes -> Nat]
    <3>1. log[n] \in Seq(Entry) /\ Len(log[n]) \in Nat
      BY ONLY <2>2, SMT DEF TypeOK
    <3>2. applied \in [Nodes -> Nat] /\ done \in [Nodes -> Nat] /\ commit \in [Nodes -> Nat]
      BY <2>2 DEF TypeOK
    <3>3. commit[n] <= Len(log[n])
      BY <2>2 DEF TypeOK
    <3> QED BY <3>1, <3>2, <3>3
  <2>4. i \in 1 .. Len(log[n]) /\ i <= commit[n] /\ e \in Entry
    <3>1. i \in 1 .. Len(log[n]) /\ i <= commit[n]
      BY <2>1, <2>3, NextIndex
    <3> QED BY <2>3, <3>1, SeqFacts
  <2>5. replied' = IF e.replier = n THEN [replied EXCEPT ![n][e.req] = @ + 1] ELSE replied
    BY <2>1, <2>4 DEF IInv, MarksTrue, Executes
  <2>r. replied \in [Nodes -> [Requests -> Nat]] /\ e.req \in Requests
    BY <2>2, <2>4 DEF TypeOK, Entry
  <2>6. applied'[n] = i /\ \A k \in Nodes : k # n => applied'[k] = applied[k]
    BY <2>1, <2>3
  <2> HIDE DEF e
  <2>7. LogsAgree' /\ MarksTrue' /\ CommitAssigned'
    BY <2>1 DEF IInv, LogsAgree, MarksTrue, CommitAssigned
  <2>8. MessagesTrue' /\ Once'
    BY <2>1, ZenonT(60) DEF IInv, MessagesTrue, MessageTrue, Once
  <2>9. RingFits'
    <3>1. RingFits
      BY DEF IInv
    <3>2. /\ Len(log[Leader]) \in Nat /\ applied[Leader] \in Nat /\ applied'[Leader] \in Nat
          /\ applied[Leader] <= applied'[Leader]
      <4>1. Leader \in Nodes /\ Len(log[Leader]) \in Nat /\ applied[Leader] \in Nat
        BY <2>2, NodeFacts, SeqFacts DEF TypeOK
      <4>2. applied'[Leader] \in {applied[Leader], applied[Leader] + 1}
        BY <2>6, <4>1
      <4> QED BY ONLY <4>1, <4>2, SMT
    <3>3. log' = log /\ pending_rr' = pending_rr
      BY <2>1
    <3> QED BY ONLY <3>1, <3>2, <3>3, ParamsAssumption, SMT DEF RingFits
  <2>10. AnswersExact'
    <3>a. ASSUME NEW k \in Nodes, NEW r \in Requests
          PROVE  /\ k = n /\ r = e.req /\ e.replier = n => replied'[k][r] = replied[k][r] + 1
                 /\ ~(k = n /\ r = e.req /\ e.replier = n) => replied'[k][r] = replied[k][r]
      BY ONLY <2>5, <2>r, <3>a, n \in Nodes, SMT
    <3>b. \A k \in Nodes, r \in Requests : replied[k][r] \in Nat
      BY <2>r
    <3>1. ASSUME NEW k \in Nodes, NEW r \in Requests, replied'[k][r] > 0
          PROVE  \E j \in 1 .. applied'[k] : log[k][j].req = r /\ log[k][j].replier = k
      <4>1. CASE replied[k][r] > 0
        <5>1. PICK j \in 1 .. applied[k] : log[k][j].req = r /\ log[k][j].replier = k
          BY <4>1 DEF IInv, AnswersExact
        <5>2. applied[k] \in Nat
          BY <2>2 DEF TypeOK
        <5>3. applied'[k] = applied[k] \/ applied'[k] = applied[k] + 1
          BY <2>6
        <5>4. j \in 1 .. applied'[k]
          BY ONLY <5>2, <5>3, SMT
        <5> QED BY <5>1, <5>4
      <4>2. CASE ~(replied[k][r] > 0)
        <5>1. k = n /\ r = e.req /\ e.replier = n
          BY <3>1, <3>a, <4>2
        <5>2. i \in 1 .. applied'[k]
          BY ONLY <2>3, <2>6, <5>1, SMT
        <5> QED BY <5>1, <5>2 DEF e
      <4> QED BY <4>1, <4>2
    <3>2. ASSUME NEW k \in Nodes, NEW j \in 1 .. applied'[k], log[k][j].replier = k
          PROVE  replied'[k][log[k][j].req] > 0
      <4>1. CASE k = n /\ j = i
        <5>1. e.req = log[k][j].req /\ e.replier = n
          BY <3>2, <4>1 DEF e
        <5>2. replied'[n][e.req] = replied[n][e.req] + 1 /\ replied[n][e.req] \in Nat
          BY <2>r, <3>a, <3>b, <5>1
        <5>3. replied'[n][e.req] > 0
          BY ONLY <5>2, SMT
        <5> QED BY <4>1, <5>1, <5>3
      <4>2. CASE ~(k = n /\ j = i)
        <5>1. j \in 1 .. applied[k]
          BY ONLY <2>3, <2>6, <4>2, SMT
        <5>2. PICK r : r = log[k][j].req
          OBVIOUS
        <5>3. replied[k][r] > 0 /\ r \in Requests
          <6>1. log[k] \in Seq(Entry) /\ j \in 1 .. Len(log[k])
            <7>1. /\ log[k] \in Seq(Entry) /\ applied[k] \in Nat /\ commit[k] \in Nat
                  /\ applied[k] <= commit[k] /\ commit[k] <= Len(log[k])
              BY ONLY <2>2, k \in Nodes, SMTT(30) DEF TypeOK
            <7> QED BY ONLY <5>1, <7>1, SMT
          <6>2. log[k][j] \in Entry
            BY ONLY <6>1, SMT
          <6> QED BY <3>2, <5>1, <5>2, <6>2 DEF IInv, AnswersExact, Entry
        <5>4. replied'[k][r] \in {replied[k][r], replied[k][r] + 1} /\ replied[k][r] \in Nat
          BY <3>a, <3>b, <5>3
        <5>5. replied'[k][r] > 0
          BY ONLY <5>3, <5>4, SMT
        <5> QED BY <5>2, <5>5
      <4> QED BY <4>1, <4>2
    <3>3. ASSUME NEW k \in Nodes, NEW r \in Requests PROVE replied'[k][r] <= 1
      <4>1. CASE k = n /\ r = e.req /\ e.replier = n
        <5>1. ~(replied[k][r] > 0)
          <6> SUFFICES ASSUME replied[k][r] > 0 PROVE FALSE
            OBVIOUS
          <6>1. PICK j \in 1 .. applied[n] : log[n][j].req = r
            <7>1. \E j \in 1 .. applied[k] : log[k][j].req = r /\ log[k][j].replier = k
              BY DEF IInv, AnswersExact
            <7> QED BY <4>1, <7>1
          <6>2. j \in 1 .. Len(log[n]) /\ j # i
            BY ONLY <2>3, <2>4, <6>1, SMT
          <6>3. log[n][j].req = log[n][i].req
            BY <4>1, <6>1 DEF e
          <6> QED BY <2>4, <6>2, <6>3, EntriesDiffer
        <5>2. replied'[k][r] = replied[k][r] + 1 /\ replied[k][r] \in Nat
          BY <3>a, <3>b, <4>1
        <5> QED BY ONLY <5>1, <5>2, SMT
      <4>2. CASE ~(k = n /\ r = e.req /\ e.replier = n)
        <5>1. replied[k][r] <= 1
          BY Zenon DEF IInv, AnswersExact
        <5>2. replied'[k][r] = replied[k][r]
          BY <3>a, <4>2, Zenon
        <5> QED BY ONLY <5>1, <5>2, Zenon
      <4> QED BY ONLY <4>1, <4>2, Zenon
    <3> QED BY ONLY <2>1, <3>1, <3>2, <3>3, SMT DEF AnswersExact
  <2>11. TypeOK'
    <3>1. applied' \in [Nodes -> Nat] /\ done' \in [Nodes -> Nat]
      BY ONLY <2>1, <2>3, SMTT(30)
    <3>2. \A k \in Nodes : applied'[k] <= commit[k]
      BY <2>2, <2>4, <2>6 DEF TypeOK
    <3>3. replied' \in [Nodes -> [Requests -> Nat]]
      BY ONLY <2>5, <2>r, n \in Nodes, SMT
    <3> QED BY <2>1, <2>2, <3>1, <3>2, <3>3 DEF TypeOK
  <2> QED BY <2>7, <2>8, <2>9, <2>10, <2>11 DEF IInv
<1> QED BY <1>1, <1>2

(* The leader's log grows by the queued requests, for itself to answer.    *)
LEMMA DoRaftDutiesStep == ASSUME IInv, DoRaftDuties PROVE IInv'
<1> USE DEF worker, balance, election
<1>t. TypeOK /\ Leader \in Nodes /\ Followers \subseteq Nodes
  BY NodeFacts DEF IInv
<1>0. /\ log \in [Nodes -> Seq(Entry)] /\ log[Leader] \in Seq(Entry) /\ Len(log[Leader]) \in Nat
      /\ pending_rr \in Seq(Requests) /\ Len(pending_rr) \in Nat
  BY ONLY <1>t, SMT DEF TypeOK
<1>1. CASE role # "leader"
  <2>1. /\ carried' = Len(pending_rr)
        /\ UNCHANGED <<log, pending_rr, mcast, commit, next_idx, match_idx, election, unordered,
             worker, pending_ae, balance, announced_commit_idx, net, sent, timeouts, aborted>>
    BY <1>1 DEF DoRaftDuties
  <2>2. LogsAgree' /\ MarksTrue' /\ CommitAssigned' /\ AnswersExact' /\ Once' /\ RingFits'
    BY <2>1, Frame
  <2>3. MessagesTrue'
    BY <2>1 DEF IInv, MessagesTrue, MessageTrue
  <2>4. TypeOK'
    <3>1. carried' \in 0 .. Len(pending_rr')
      BY ONLY <1>0, <2>1, SMT
    <3> QED BY <1>t, <2>1, <3>1 DEF TypeOK
  <2> QED BY <2>2, <2>3, <2>4 DEF IInv
<1>2. CASE role = "leader"
  <2> DEFINE len == Len(log[Leader])
             new == [k \in DOMAIN pending_rr |-> Ordered(pending_rr[k])]
  <2>1. /\ pending_rr # <<>> /\ log' = [log EXCEPT ![Leader] = @ \o new]
        /\ pending_rr' = <<>> /\ carried' = 0
        /\ UNCHANGED <<mcast, commit, next_idx, match_idx, election, unordered, worker, pending_ae,
                       balance, announced_commit_idx, net, sent, timeouts, aborted>>
    BY <1>2 DEF DoRaftDuties, LeaderOrderRequests
  <2>2. /\ new \in Seq(Entry) /\ Len(new) = Len(pending_rr)
        /\ \A k \in 1 .. Len(pending_rr) : new[k] = Ordered(pending_rr[k])
    <3>1. \A k \in 1 .. Len(pending_rr) : Ordered(pending_rr[k]) \in Entry
      BY ONLY <1>t, <1>0, SMT DEF Ordered, Entry
    <3>2. DOMAIN pending_rr = 1 .. Len(pending_rr)
      BY ONLY <1>0, SMT
    <3> QED BY ONLY <1>0, <3>1, <3>2, SMT
  <2> HIDE DEF new
  <2>3. /\ log' \in [Nodes -> Seq(Entry)] /\ Len(log'[Leader]) = len + Len(pending_rr)
        /\ \A i \in 1 .. len : log'[Leader][i] = log[Leader][i]
        /\ \A i \in len + 1 .. Len(log'[Leader]) : log'[Leader][i] = Ordered(pending_rr[i - len])
        /\ \A n \in Nodes : n # Leader => log'[n] = log[n]
    <3>1. /\ log[Leader] \o new \in Seq(Entry) /\ Len(log[Leader] \o new) = len + Len(pending_rr)
          /\ \A i \in 1 .. len : (log[Leader] \o new)[i] = log[Leader][i]
          /\ \A i \in len + 1 .. len + Len(pending_rr) : (log[Leader] \o new)[i] = new[i - len]
      <4>1. /\ log[Leader] \o new \in Seq(Entry) /\ Len(log[Leader] \o new) = len + Len(new)
            /\ \A i \in 1 .. len + Len(new) : (log[Leader] \o new)[i] =
                  IF i <= len THEN log[Leader][i] ELSE new[i - len]
        BY <1>0, <2>2, ConcatFacts, ZenonT(60)
      <4>2. /\ \A i \in 1 .. len : i \in 1 .. len + Len(new) /\ i <= len
            /\ \A i \in len + 1 .. len + Len(new) : i \in 1 .. len + Len(new) /\ ~(i <= len)
        BY ONLY <1>0, <2>2, SMT
      <4> QED BY <2>2, <4>1, <4>2
    <3>2. /\ log'[Leader] = log[Leader] \o new /\ log' \in [Nodes -> Seq(Entry)]
          /\ \A n \in Nodes : n # Leader => log'[n] = log[n]
      BY <1>t, <1>0, <2>1, <3>1
    <3>3. \A i \in len + 1 .. len + Len(pending_rr) : i - len \in 1 .. Len(pending_rr)
      BY ONLY <1>0, SMT
    <3> QED BY <2>2, <3>1, <3>2, <3>3
  <2>4. \A i \in 1 .. Len(log'[Leader]) :
           i \in 1 .. len \/ (i \in len + 1 .. Len(log'[Leader]) /\ i - len \in 1 .. Len(pending_rr))
    BY ONLY <1>0, <2>3, SMT
  <2>5. \A r : Ordered(r).req = r /\ Ordered(r).replier = Leader /\ Ordered(r).reply
    BY DEF Ordered
  <2>6. /\ assigned_log_idx \in 0 .. len /\ term_start \in 0 .. len
        /\ \A n \in Nodes : commit[n] \in Nat /\ applied[n] \in Nat /\ Len(log[n]) \in Nat
        /\ \A n \in Nodes : applied[n] <= commit[n] /\ commit[n] <= Len(log[n])
    BY ONLY <1>t, SMT DEF TypeOK
  <2>7. LogsAgree' /\ CommitAssigned'
    <3>1. LogsAgree /\ CommitAssigned
      BY DEF IInv
    <3>2. \A g \in Followers : g \in Nodes /\ g # Leader /\ Len(log[g]) <= assigned_log_idx
      BY <3>1, NodeFacts DEF LogsAgree
    <3>3. \A g \in Followers : \A i \in 1 .. Len(log[g]) : i \in 1 .. len
      BY ONLY <1>0, <2>6, <3>2, SMT
    <3>4. ASSUME NEW g \in Followers
          PROVE  /\ Len(log'[g]) <= assigned_log_idx
                 /\ \A i \in 1 .. Len(log'[g]) : Header(log'[g][i]) = Header(log'[Leader][i])
      <4>1. log'[g] = log[g]
        BY <2>3, <3>2
      <4>2. \A i \in 1 .. Len(log[g]) : log'[Leader][i] = log[Leader][i]
        BY <2>3, <3>3
      <4> QED BY <3>1, <4>1, <4>2 DEF LogsAgree
    <3> QED BY <2>1, <3>1, <3>4 DEF LogsAgree, CommitAssigned
  <2>8. MessagesTrue'
    <3> SUFFICES ASSUME NEW m \in DOMAIN net PROVE MessageTrue(m)'
      BY <2>1 DEF MessagesTrue
    <3>1. m \in Message /\ MessageTrue(m)
      BY <1>t DEF IInv, TypeOK, MessagesTrue
    <3>2. CASE m.kind = "AE"
      <4>1. m.prev \in Nat /\ Len(m.entries) \in Nat
        BY ONLY <3>1, <3>2, Kinds, SMT DEF AeReqs
      <4>2. \A k \in 1 .. Len(m.entries) : m.prev + k <= assigned_log_idx => m.prev + k \in 1 .. len
        BY ONLY <1>0, <2>6, <4>1, SMT
      <4> QED BY <2>1, <2>3, <3>1, <3>2, <4>2 DEF MessageTrue
    <3>3. CASE m.kind = "AE_REP"
      <4>1. m.node \in Nodes /\ m.node # Leader
        BY <3>1, <3>3, Kinds, NodeFacts DEF AeReps
      <4> QED BY <2>3, <3>1, <3>3, <4>1 DEF MessageTrue
    <3> QED BY <3>2, <3>3 DEF MessageTrue
  <2>9. MarksTrue'
    <3>1. ASSUME NEW n \in Nodes, NEW i \in 1 .. Len(log'[n])
          PROVE  log'[n][i].reply <=> log'[n][i].replier = n
      <4>1. CASE i \in 1 .. Len(log[n]) /\ log'[n][i] = log[n][i]
        <5>1. log[n][i].reply <=> log[n][i].replier = n
          BY <4>1 DEF IInv, MarksTrue
        <5> QED BY ONLY <4>1, <5>1, SMT
      <4>2. CASE n = Leader /\ log'[n][i] = Ordered(pending_rr[i - len])
        <5>1. log'[n][i].replier = n /\ log'[n][i].reply
          BY <2>5, <4>2
        <5> QED BY ONLY <5>1, SMT
      <4> QED BY <2>3, <2>4, <4>1, <4>2
    <3>2. ASSUME NEW i \in 1 .. Len(log'[Leader]), i > assigned_log_idx
          PROVE  log'[Leader][i].replier = Leader
      <4>1. CASE i \in 1 .. len
        BY <2>3, <3>2, <4>1 DEF IInv, MarksTrue
      <4>2. CASE i \in len + 1 .. Len(log'[Leader])
        <5>1. log'[Leader][i] = Ordered(pending_rr[i - len])
          BY <2>3, <4>2
        <5> QED BY <2>5, <5>1
      <4> QED BY <2>4, <4>1, <4>2
    <3> QED BY <2>1, <3>1, <3>2 DEF MarksTrue
  <2>10. AnswersExact'
    <3>1. \A n \in Nodes : \A i \in 1 .. applied[n] : log'[n][i] = log[n][i]
      <4>1. \A i \in 1 .. applied[Leader] : i \in 1 .. len
        BY ONLY <1>t, <1>0, <2>6, SMT
      <4> QED BY <2>3, <4>1
    <3>2. AnswersExact
      BY DEF IInv
    <3> QED BY <2>1, <3>1, <3>2, AnswersKept
  <2>11. Once'
    <3> DEFINE req(i) == log'[Leader][i].req
    <3>1. \A i \in 1 .. len : req(i) = log[Leader][i].req
      BY <2>3
    <3>2. \A i \in len + 1 .. Len(log'[Leader]) : req(i) = pending_rr[i - len]
      BY ONLY <2>3, <2>5, SMTT(30)
    <3> HIDE DEF req
    <3>3. ASSUME NEW i \in 1 .. Len(log'[Leader]), NEW j \in 1 .. Len(log'[Leader]), req(i) = req(j)
          PROVE  i = j
      <4>1. Once
        BY DEF IInv
      <4>2. CASE i \in 1 .. len /\ j \in 1 .. len
        BY ONLY <3>1, <3>3, <4>1, <4>2, SMT DEF Once
      <4>3. CASE i \notin 1 .. len /\ j \notin 1 .. len
        <5>1. i - len = j - len
          BY <2>4, <3>2, <3>3, <4>1, <4>3 DEF Once
        <5> QED BY ONLY <1>0, <5>1, SMT
      <4>4. CASE ~(i \in 1 .. len <=> j \in 1 .. len)
        <5>1. ASSUME NEW a \in 1 .. len, NEW b \in len + 1 .. Len(log'[Leader])
              PROVE  req(a) # req(b)
          <6>1. b - len \in 1 .. Len(pending_rr)
            BY ONLY <1>0, <2>3, SMTT(30)
          <6> QED BY ONLY <2>4, <3>1, <3>2, <4>1, <6>1, SMTT(30) DEF Once
        <5>2. \A k \in 1 .. Len(log'[Leader]) : k \notin 1 .. len => k \in len + 1 .. Len(log'[Leader])
          BY ONLY <1>0, <2>3, SMT
        <5> QED BY <3>3, <4>4, <5>1, <5>2
      <4> QED BY <4>2, <4>3, <4>4
    <3>4. ASSUME NEW r \in Requests, <<Leader, r>> \in mcast, NEW i \in 1 .. Len(log'[Leader])
          PROVE  req(i) # r
      <4>1. /\ \A k \in 1 .. len : log[Leader][k].req # r
            /\ \A k \in 1 .. Len(pending_rr) : pending_rr[k] # r
        BY <3>4 DEF IInv, Once
      <4> QED BY <2>4, <3>1, <3>2, <4>1
    <3>5. Len(pending_rr') = 0
      BY <2>1
    <3> QED BY ONLY <2>1, <3>3, <3>4, <3>5, SMT DEF Once, req
  <2>12. RingFits'
    <3>1. RingFits
      BY DEF IInv
    <3>2. Len(pending_rr) <= PENDING_LIMIT
      BY <1>t DEF TypeOK
    <3>3. len - applied[Leader] < FC_THRESHOLD
      BY <2>1, <3>1 DEF RingFits
    <3>4. Len(log'[Leader]) - applied[Leader] <= LOG_ENTRY_COUNT
      BY ONLY <1>t, <1>0, <2>3, <2>6, <3>2, <3>3, ParamsAssumption, SMT
    <3> QED BY <2>1, <3>4 DEF RingFits
  <2>13. TypeOK'
    <3>1. \A n \in Nodes : applied[n] <= commit[n] /\ commit[n] <= Len(log'[n])
      <4>1. ASSUME NEW n \in Nodes, n # Leader PROVE Len(log'[n]) = Len(log[n])
        BY <2>3, <4>1
      <4>2. Len(log'[Leader]) >= len
        BY ONLY <1>t, <1>0, <2>3, SMT
      <4>3. commit[Leader] <= Len(log'[Leader])
        BY ONLY <1>t, <1>0, <2>3, <2>6, <4>2, SMT
      <4> QED BY <2>6, <4>1, <4>3
    <3>2. /\ pending_rr' \in Seq(Requests) /\ carried' \in 0 .. Len(pending_rr')
          /\ Len(pending_rr') <= PENDING_LIMIT
      BY ONLY <2>1, ParamsAssumption, SMT
    <3>3. assigned_log_idx \in 0 .. Len(log'[Leader]) /\ term_start \in 0 .. Len(log'[Leader])
      BY ONLY <1>0, <2>3, <2>6, SMT
    <3> QED BY <1>t, <2>1, <2>3, <3>1, <3>2, <3>3 DEF TypeOK
  <2> QED BY <2>7, <2>8, <2>9, <2>10, <2>11, <2>12, <2>13 DEF IInv
<1> QED BY <1>1, <1>2

(* The leader commits what a majority has, which is assigned, and tells    *)
(* the followers.                                                          *)
LEMMA AppendEntriesReplyStep ==
  ASSUME IInv, NEW f \in Followers, NEW m \in DOMAIN net, ReceiveAppendEntriesReply(f, m)
  PROVE  IInv'
<1>t. TypeOK /\ Leader \in Nodes /\ f \in Nodes /\ Followers \subseteq Nodes
  BY NodeFacts DEF IInv
<1>1. CASE Abort("response")
  BY <1>1, AbortStep DEF Aborts
<1>2. CASE ~ Abort("response")
  <2> DEFINE current == role = "leader" /\ m.term = term[Leader]
             success == current /\ m.success
             matched == IF success THEN [match_idx EXCEPT ![f] = Most(@, m.current)] ELSE match_idx
  <2>a. PICK next : next = IF current THEN [next_idx EXCEPT ![f] = m.current + 1] ELSE next_idx
    OBVIOUS
  <2>b. PICK committed :
        committed = IF success THEN CommitIndex(matched, m.current) ELSE commit[Leader]
    OBVIOUS
  <2>1. /\ RaftReplyRecved(f, m)
        /\ IF role = "leader" THEN StepDown(m.term) ELSE UNCHANGED <<role, term, done, unordered>>
        /\ peer_done' = [peer_done EXCEPT ![f] = m.done]
        /\ match_idx' = matched /\ next_idx' = next
        /\ commit' = [commit EXCEPT ![Leader] = committed]
        /\ announced_commit_idx' = Most(announced_commit_idx, committed)
        /\ net' = Put(IF announced_commit_idx < committed
                      THEN Announcements(next, committed) ELSE {}, Take({m}, net))
        /\ UNCHANGED <<mcast, pending, log, term_start, applied, replied, assigned_log_idx,
                       assigned, sent, timeouts, aborted>>
    BY <1>2, <2>a, <2>b DEF ReceiveAppendEntriesReply
  <2> USE DEF pending
  <2>2. m \in AeReps /\ MessageTrue(m) /\ m.kind = "AE_REP" /\ m.node = f
    BY <1>t, <2>1, Kinds DEF IInv, TypeOK, MessagesTrue, RaftReplyRecved
  <2>3. m.current \in Nat /\ m.done \in Nat /\ m.term \in 1 .. MaxTerm /\ m.current <= Len(log[f])
    BY <2>2 DEF AeReps, MessageTrue
  <2>4. /\ commit \in [Nodes -> Nat] /\ assigned_log_idx \in Nat /\ Len(log[f]) \in Nat
        /\ Len(log[Leader]) \in Nat /\ assigned_log_idx <= Len(log[Leader])
        /\ next_idx \in [Followers -> Nat \ {0}] /\ match_idx \in [Followers -> Nat]
        /\ announced_commit_idx \in Nat /\ term[Leader] \in 1 .. MaxTerm
        /\ peer_done \in [Followers -> Nat] /\ pending_ae \in [Followers -> BOOLEAN]
        /\ unordered \in [Nodes -> SUBSET Requests]
    <3>1. /\ assigned_log_idx \in 0 .. Len(log[Leader])
          /\ log[Leader] \in Seq(Entry) /\ log[f] \in Seq(Entry)
      BY <1>t DEF TypeOK
    <3>2. Len(log[f]) \in Nat /\ Len(log[Leader]) \in Nat
      BY ONLY <3>1, SMT
    <3>3. assigned_log_idx \in Nat /\ assigned_log_idx <= Len(log[Leader])
      BY ONLY <3>1, <3>2, SMT
    <3> QED BY <1>t, <3>2, <3>3 DEF TypeOK
  <2>5. committed \in Nat /\ commit[Leader] <= committed /\ committed <= assigned_log_idx
    <3>1. Len(log[f]) <= assigned_log_idx /\ commit[Leader] <= assigned_log_idx
      BY DEF IInv, LogsAgree, CommitAssigned
    <3>2. committed = commit[Leader] \/ (committed = m.current /\ m.current > commit[Leader])
      BY <2>b DEF CommitIndex
    <3>3. commit[Leader] \in Nat /\ Len(log[f]) \in Nat /\ assigned_log_idx \in Nat
      BY <1>t, <2>4
    <3> QED BY ONLY <2>3, <3>1, <3>2, <3>3, SMT
  <2>6. next \in [Followers -> Nat \ {0}] /\ matched \in [Followers -> Nat]
    <3>1. next_idx \in [Followers -> Nat \ {0}] /\ match_idx \in [Followers -> Nat]
      BY <2>4
    <3>2. next \in [Followers -> Nat \ {0}]
      BY ONLY <2>a, <2>3, <3>1, SMT
    <3>3. matched \in [Followers -> Nat]
      BY <2>3, <3>1 DEF Most
    <3> QED BY <3>2, <3>3
  <2>7. DOMAIN net' \subseteq Message /\ MessagesTrue'
    <3> DEFINE X == {[kind |-> "ANNOUNCE", node |-> g, live |-> TRUE, term |-> term[Leader],
                      prev |-> next[g] - 1, commit |-> committed] : g \in Followers}
    <3>1. Announcements(next, committed) = X
      BY DEF Announcements
    <3>2. \A x \in X : x \in AnnounceReqs /\ x.kind = "ANNOUNCE"
      <4>1. \A g \in Followers : next[g] - 1 \in Nat
        BY ONLY <2>6, SMT
      <4>2. ASSUME NEW g \in Followers, NEW x,
                   x = [kind |-> "ANNOUNCE", node |-> g, live |-> TRUE, term |-> term[Leader],
                        prev |-> next[g] - 1, commit |-> committed]
            PROVE  x \in AnnounceReqs /\ x.kind = "ANNOUNCE"
        BY <2>4, <2>5, <4>1, <4>2 DEF AnnounceReqs
      <4> QED BY <4>2
    <3> HIDE DEF X
    <3>3. DOMAIN net' \subseteq DOMAIN net \cup X
      BY ONLY <2>1, <3>1, AnswerDomain, SMT
    <3>4. \A x \in X : x \in Message /\ MessageTrue(x)'
      BY <3>2 DEF Message, MessageTrue
    <3> QED BY <2>1, <3>3, <3>4, FrameMessages
  <2>8. LogsAgree' /\ MarksTrue' /\ AnswersExact' /\ Once' /\ RingFits'
    BY <2>1, FrameLogs
  <2>9. CommitAssigned'
    BY <1>t, <2>1, <2>4, <2>5 DEF CommitAssigned
  <2>10. /\ term' \in [Nodes -> 1 .. MaxTerm] /\ done' \in [Nodes -> Nat]
         /\ unordered' \in [Nodes -> SUBSET Requests]
         /\ role' \in {"leader", "candidate", "follower"}
    <3>1. CASE role = "leader"
      <4>1. Follow(Leader, m.term) /\ role' \in {"follower", role}
            /\ unordered' = IF m.term > term[Leader] THEN [unordered EXCEPT ![Leader] = {}]
                            ELSE unordered
        BY <2>1, <3>1 DEF StepDown
      <4>2. unordered' \in [Nodes -> SUBSET Requests]
        BY <2>4, <4>1
      <4> QED BY <1>t, <2>3, <3>1, <4>1, <4>2, FollowFacts
    <3>2. CASE role # "leader"
      BY <1>t, <2>1, <3>2 DEF TypeOK
    <3> QED BY <3>1, <3>2
  <2>11. TypeOK'
    <3>1. /\ peer_done' \in [Followers -> Nat] /\ match_idx' \in [Followers -> Nat]
          /\ next_idx' \in [Followers -> Nat \ {0}] /\ announced_commit_idx' \in Nat
      BY <2>1, <2>3, <2>4, <2>5, <2>6 DEF Most
    <3>2. pending_ae' \in [Followers -> BOOLEAN]
      BY <2>1, <2>4 DEF RaftReplyRecved
    <3>3. commit' \in [Nodes -> Nat]
      BY <2>1, <2>4, <2>5
    <3>4. \A n \in Nodes : applied[n] <= commit'[n] /\ commit'[n] <= Len(log[n])
      <4>1. \A n \in Nodes : commit[n] \in Nat /\ applied[n] \in Nat /\ applied[n] <= commit[n]
                             /\ commit[n] <= Len(log[n])
        BY <1>t DEF TypeOK
      <4>2. \A n \in Nodes : commit'[n] = IF n = Leader THEN committed ELSE commit[n]
        BY <2>1, <2>4
      <4>3. applied[Leader] <= committed /\ committed <= Len(log[Leader])
        BY ONLY <1>t, <2>4, <2>5, <4>1, SMT
      <4> QED BY <4>1, <4>2, <4>3
    <3> QED BY <1>t, <2>1, <2>7, <2>10, <3>1, <3>2, <3>3, <3>4 DEF TypeOK
  <2> QED BY <2>7, <2>8, <2>9, <2>11 DEF IInv
<1> QED BY <1>1, <1>2

(* The entries picked repliers are charged for are finitely many           *)
(* The entries first .. last get the repliers r, the log is as it was      *)
(* otherwise.                                                              *)
Gives(first, last, r) ==
  /\ log' \in [Nodes -> Seq(Entry)] /\ Len(log'[Leader]) = Len(log[Leader])
  /\ \A i \in 1 .. Len(log[Leader]) : log'[Leader][i] =
        IF i \in first .. last THEN Assign(log[Leader][i], r[i]) ELSE log[Leader][i]
  /\ \A n \in Nodes : n # Leader => log'[n] = log[n]

(* A request with the entries after prev up to last is sent to f, and the  *)
(* repliers r are those of the entries that had none.                      *)
Sends(f, prev, first, last, r) ==
  /\ prev \in Nat /\ last \in Int /\ last <= Len(log[Leader])
  /\ first = assigned_log_idx + 1 /\ r \in [first .. last -> Nodes]
  /\ Assignment(r, first, last) /\ Gives(first, last, r)
  /\ assigned' = [n \in Nodes |-> assigned[n] + ChargesUpTo(n, r, first, last)]
  /\ assigned_log_idx' = Most(assigned_log_idx, last)
  /\ pending_ae' = [pending_ae EXCEPT ![f] = TRUE]
  /\ net' = Put({AppendEntriesReq(f, prev,
                   [k \in 1 .. last - prev |-> Header(log'[Leader][prev + k])])}, net)
  /\ sent < MaxAe /\ sent' = sent + 1
  /\ UNCHANGED <<mcast, pending, commit, next_idx, match_idx, election, unordered,
                 worker, peer_done, announced_commit_idx, timeouts, aborted>>

(* The repliers r2p2_send_appendentries gives to the entries first .. last. *)
Chosen(r, first, last) ==
  /\ Assignment(r, first, last)
  /\ log' = [log EXCEPT ![Leader] =
       [i \in DOMAIN @ |-> IF i \in first .. last THEN Assign(@[i], r[i]) ELSE @[i]]]
  /\ assigned' = [n \in Nodes |-> assigned[n] + ChargesUpTo(n, r, first, last)]

(* What r2p2_send_appendentries does when no assertion fails.              *)
LEMMA Sending ==
  ASSUME TypeOK, NEW f \in Followers, SendAppendEntries(f),
         ~(Abort("entry") \/ Abort("candidate"))
  PROVE  \E prev, first, last, r : Sends(f, prev, first, last, r)
<1>t. Leader \in Nodes /\ f \in Nodes
  BY NodeFacts
<1>1. PICK prev, last, first, len :
        /\ prev = next_idx[f] - 1 /\ last = prev + EntriesToSend(f)
        /\ first = assigned_log_idx + 1 /\ len = Len(log[Leader])
  OBVIOUS
<1>a. /\ last <= Len(log[Leader]) /\ sent < MaxAe
      /\ assigned_log_idx' = Most(assigned_log_idx, last)
      /\ pending_ae' = [pending_ae EXCEPT ![f] = TRUE]
      /\ net' = Put({AppendEntriesReq(f, prev,
                       [k \in 1 .. last - prev |-> Header(log'[Leader][prev + k])])}, net)
      /\ sent' = sent + 1
      /\ UNCHANGED <<mcast, pending, commit, next_idx, match_idx, election, unordered,
                     worker, peer_done, announced_commit_idx, timeouts, aborted>>
  BY <1>1 DEF SendAppendEntries, FirstToAssign
<1>2. PICK r \in [first .. last -> Nodes] :
        /\ Assignment(r, first, last)
        /\ log' = [log EXCEPT ![Leader] =
             [i \in DOMAIN @ |-> IF i \in first .. last THEN Assign(@[i], r[i]) ELSE @[i]]]
        /\ assigned' = [n \in Nodes |-> assigned[n] + ChargesUpTo(n, r, first, last)]
  <2>1. PICK r \in [FirstToAssign(f) .. next_idx[f] - 1 + EntriesToSend(f) -> Nodes] :
          Chosen(r, FirstToAssign(f), next_idx[f] - 1 + EntriesToSend(f))
    BY DEF SendAppendEntries, Chosen
  <2>2. FirstToAssign(f) = first /\ next_idx[f] - 1 + EntriesToSend(f) = last
    BY <1>1 DEF FirstToAssign
  <2>3. r \in [first .. last -> Nodes] /\ Chosen(r, first, last)
    BY <2>1, <2>2
  <2> QED BY <2>3 DEF Chosen
<1>3. /\ log \in [Nodes -> Seq(Entry)] /\ log[Leader] \in Seq(Entry) /\ len \in Nat
      /\ DOMAIN log[Leader] = 1 .. len /\ assigned_log_idx \in 0 .. len /\ next_idx[f] \in Nat \ {0}
      /\ \A i \in 1 .. len : log[Leader][i] \in Entry
  <2>1. log \in [Nodes -> Seq(Entry)] /\ log[Leader] \in Seq(Entry) /\ next_idx[f] \in Nat \ {0}
    BY <1>t DEF TypeOK
  <2>2. assigned_log_idx \in 0 .. len
    BY <1>1 DEF TypeOK
  <2> QED BY ONLY <1>1, <2>1, <2>2, SMT
<1>4. prev \in Nat /\ last \in Int /\ first \in 1 .. len + 1 /\ last <= len
  <2>1. commit[Leader] \in Nat /\ MAX_ENTRIES_PER_MSG \in Nat
    BY <1>t, ParamsAssumption DEF TypeOK
  <2>2. prev \in Nat /\ first \in 1 .. len + 1
    BY ONLY <1>1, <1>3, SMT
  <2>3. EntriesToSend(f) \in Int
    BY ONLY <1>1, <1>3, <2>1, <2>2, SMT DEF EntriesToSend, Least
  <2> QED BY ONLY <1>1, <1>a, <2>2, <2>3, SMT
<1>5. \A i \in first .. last : Assign(log[Leader][i], r[i]) \in Entry
  <2> SUFFICES ASSUME NEW i \in first .. last PROVE Assign(log[Leader][i], r[i]) \in Entry
    OBVIOUS
  <2>1. i \in 1 .. len
    BY ONLY <1>3, <1>4, SMT
  <2>2. log[Leader][i] \in Entry /\ r[i] \in Nodes
    BY <1>3, <2>1
  <2> QED BY <2>2 DEF Assign, Entry
<1>6. Gives(first, last, r)
  <2> DEFINE new == [i \in 1 .. len |-> IF i \in first .. last THEN Assign(log[Leader][i], r[i])
                                        ELSE log[Leader][i]]
  <2>1. log' = [log EXCEPT ![Leader] = new]
    BY <1>2, <1>3
  <2>2. new \in Seq(Entry) /\ Len(new) = len
    <3>1. new \in [1 .. len -> Entry]
      BY <1>3, <1>5
    <3> QED BY <1>3, <3>1, FunctionIsSeq, ZenonT(60)
  <2>3. \A i \in 1 .. len : new[i] = IF i \in first .. last THEN Assign(log[Leader][i], r[i])
                                     ELSE log[Leader][i]
    OBVIOUS
  <2> HIDE DEF new
  <2>4. /\ log' \in [Nodes -> Seq(Entry)] /\ log'[Leader] = new
        /\ \A n \in Nodes : n # Leader => log'[n] = log[n]
    BY <1>t, <1>3, <2>1, <2>2
  <2> QED BY <1>1, <2>2, <2>3, <2>4 DEF Gives
<1>7. Sends(f, prev, first, last, r)
  BY <1>1, <1>2, <1>a, <1>4, <1>6 DEF Sends
<1> QED BY <1>7

(* What an assignment charges a node is a natural number.                  *)
ChargesCounted ==
  \A n, r : \A first, last \in Int : ChargesUpTo(n, r, first, last) \in Nat

(* Only entries that no node but the leader has, and that are not          *)
(* committed, are given a replier, and the message carries it.             *)
LEMMA SendAppendEntriesStep ==
  ASSUME IInv, ChargesCounted, NEW f \in Followers, SendAppendEntries(f)
  PROVE  IInv'
<1>t. TypeOK /\ Leader \in Nodes /\ f \in Nodes /\ Followers \subseteq Nodes
  BY NodeFacts DEF IInv
<1>1. CASE Abort("entry") \/ Abort("candidate")
  BY <1>1, AbortStep DEF Aborts
<1>2. CASE ~(Abort("entry") \/ Abort("candidate"))
  <2>0. PICK prev, first, last, r : Sends(f, prev, first, last, r)
    BY <1>2, <1>t, Sending
  <2>a. PICK len : len = Len(log[Leader])
    OBVIOUS
  <2>b. PICK entries : entries = [k \in 1 .. last - prev |-> Header(log'[Leader][prev + k])]
    OBVIOUS
  <2>c. PICK x : x = AppendEntriesReq(f, prev, entries)
    OBVIOUS
  <2>1. /\ sent < MaxAe /\ assigned_log_idx' = Most(assigned_log_idx, last)
        /\ pending_ae' = [pending_ae EXCEPT ![f] = TRUE]
        /\ net' = Put({x}, net)
        /\ sent' = sent + 1
        /\ UNCHANGED <<mcast, pending, commit, next_idx, match_idx, election, unordered,
                       worker, peer_done, announced_commit_idx, timeouts, aborted>>
    BY <2>0, <2>b, <2>c DEF Sends
  <2>2. /\ first = assigned_log_idx + 1 /\ r \in [first .. last -> Nodes]
        /\ assigned' = [n \in Nodes |-> assigned[n] + ChargesUpTo(n, r, first, last)]
    BY <2>0 DEF Sends
  <2> USE DEF pending, election, worker
  <2>3. /\ log[Leader] \in Seq(Entry) /\ len \in Nat /\ assigned_log_idx \in 0 .. len
        /\ \A i \in 1 .. len : log[Leader][i] \in Entry
    <3>1. log[Leader] \in Seq(Entry)
      BY <1>t DEF TypeOK
    <3>2. assigned_log_idx \in 0 .. len
      BY <1>t, <2>a DEF TypeOK
    <3> QED BY ONLY <2>a, <3>1, <3>2, SMT
  <2>4. prev \in Nat /\ last \in Int /\ first \in 1 .. len + 1 /\ last <= len
    <3>1. prev \in Nat /\ last \in Int /\ last <= len
      BY <2>0, <2>a DEF Sends
    <3> QED BY ONLY <2>2, <2>3, <3>1, SMT
  <2>5. \A i \in first .. last : i \in 1 .. len /\ i > assigned_log_idx
    BY ONLY <2>2, <2>3, <2>4, SMT
  <2>6. /\ log' \in [Nodes -> Seq(Entry)] /\ Len(log'[Leader]) = len
        /\ \A i \in 1 .. len : log'[Leader][i] =
              IF i \in first .. last THEN Assign(log[Leader][i], r[i]) ELSE log[Leader][i]
        /\ \A n \in Nodes : n # Leader => log'[n] = log[n]
    BY <2>0, <2>a DEF Sends, Gives
  <2>7. \A i \in 1 .. len : /\ i <= assigned_log_idx => log'[Leader][i] = log[Leader][i]
                            /\ log'[Leader][i].req = log[Leader][i].req
    <3>1. \A i \in first .. last : Assign(log[Leader][i], r[i]).req = log[Leader][i].req
      BY <2>3, <2>5 DEF Assign, Entry
    <3>2. \A i \in 1 .. len : i <= assigned_log_idx => i \notin first .. last
      BY ONLY <2>3, <2>5, SMT
    <3> QED BY <2>6, <3>1, <3>2
  <2>8. assigned_log_idx' \in 0 .. len /\ assigned_log_idx <= assigned_log_idx'
        /\ last <= assigned_log_idx'
    BY ONLY <2>1, <2>3, <2>4, SMT DEF Most
  <2>9. \A n \in Nodes : commit[n] \in Nat /\ applied[n] \in Nat /\ applied[n] <= commit[n]
                         /\ commit[n] <= Len(log[n]) /\ Len(log[n]) \in Nat
    BY ONLY <1>t, SMT DEF TypeOK
  <2>10. commit[Leader] <= assigned_log_idx
    BY DEF IInv, CommitAssigned
  <2>11. LogsAgree'
    <3> SUFFICES ASSUME NEW g \in Followers
                 PROVE  /\ Len(log'[g]) <= assigned_log_idx'
                        /\ \A i \in 1 .. Len(log'[g]) :
                              Header(log'[g][i]) = Header(log'[Leader][i])
      BY DEF LogsAgree, Header
    <3>1. g \in Nodes /\ log'[g] = log[g] /\ Len(log[g]) \in Nat
      BY <1>t, <2>6, <2>9, NodeFacts
    <3>2. /\ Len(log[g]) <= assigned_log_idx
          /\ \A i \in 1 .. Len(log[g]) : Header(log[g][i]) = Header(log[Leader][i])
      BY DEF IInv, LogsAgree
    <3>3. \A i \in 1 .. Len(log[g]) : i \in 1 .. len /\ i <= assigned_log_idx
      BY ONLY <2>3, <3>1, <3>2, SMT
    <3> QED BY ONLY <2>3, <2>7, <2>8, <3>1, <3>2, <3>3, SMT
  <2>12. x \in Message /\ MessageTrue(x)'
    <3>1. \A k \in 1 .. last - prev : prev + k \in 1 .. len /\ prev + k <= last
      BY ONLY <2>3, <2>4, SMT
    <3>2. \A k \in 1 .. last - prev : Header(log'[Leader][prev + k]) \in [req : Requests, replier : Nodes]
      <4>1. \A i \in 1 .. len : log'[Leader][i] \in Entry
        BY ONLY <1>t, <2>6, SMT
      <4> QED BY <3>1, <4>1 DEF Header, Entry
    <3>3. /\ entries \in Seq([req : Requests, replier : Nodes])
          /\ \A k \in 1 .. Len(entries) : k \in 1 .. last - prev
      <4>1. PICK n \in Nat : 1 .. last - prev = 1 .. n
        <5>1. CASE last >= prev
          <6>1. last - prev \in Nat
            BY ONLY <2>4, <5>1, SMT
          <6> QED BY <6>1
        <5>2. CASE last < prev
          <6>1. 1 .. last - prev = 1 .. 0
            BY ONLY <2>4, <5>2, SMT
          <6> QED BY <6>1
        <5> QED BY ONLY <2>4, <5>1, <5>2, SMT
      <4>2. entries = [k \in 1 .. n |-> Header(log'[Leader][prev + k])]
        BY <2>b, <4>1
      <4>3. entries \in [1 .. n -> [req : Requests, replier : Nodes]]
        BY <3>2, <4>1, <4>2
      <4>4. entries \in Seq([req : Requests, replier : Nodes]) /\ Len(entries) = n
        BY <4>1, <4>3, FunctionIsSeq
      <4> QED BY <4>1, <4>4
    <3>4. /\ x.kind = "AE" /\ x.prev = prev /\ x.entries = entries /\ x \in AeReqs
      <4>1. commit[Leader] \in Nat /\ term[Leader] \in 1 .. MaxTerm
        BY <1>t DEF TypeOK
      <4> QED BY <2>c, <2>4, <3>3, <4>1 DEF AppendEntriesReq, AeReqs
    <3>5. \A k \in 1 .. Len(entries) : /\ prev + k <= assigned_log_idx'
                                       /\ entries[k] = Header(log'[Leader][prev + k])
      <4> SUFFICES ASSUME NEW k \in 1 .. Len(entries)
                   PROVE  /\ prev + k <= assigned_log_idx'
                          /\ entries[k] = Header(log'[Leader][prev + k])
        OBVIOUS
      <4>1. k \in 1 .. last - prev
        BY <3>3
      <4>2. prev + k \in Int /\ prev + k <= last
        BY ONLY <2>4, <3>1, <4>1, SMT
      <4> QED BY ONLY <2>b, <2>3, <2>4, <2>8, <4>1, <4>2, SMT
    <3>6. x \in Message
      BY <3>4 DEF Message
    <3>7. MessageTrue(x)'
      BY <3>4, <3>5 DEF MessageTrue, Header
    <3> QED BY <3>6, <3>7
  <2>13. DOMAIN net' \subseteq DOMAIN net \cup {x}
    BY <2>1, PutDomain
  <2>14. MessagesTrue' /\ DOMAIN net' \subseteq Message
    <3>1. ASSUME NEW m \in DOMAIN net PROVE MessageTrue(m)' /\ m \in Message
      <4>1. m \in Message /\ MessageTrue(m)
        BY <1>t DEF IInv, TypeOK, MessagesTrue
      <4>2. CASE m.kind = "AE"
        <5>1. m.prev \in Nat /\ Len(m.entries) \in Nat
          <6>1. m \in AeReqs
            BY <4>1, <4>2, Kinds
          <6> QED BY <6>1, AeFacts
        <5>2. ASSUME NEW k \in 1 .. Len(m.entries)
              PROVE  /\ m.prev + k <= assigned_log_idx'
                     /\ m.entries[k] = Header(log'[Leader][m.prev + k])
          <6>1. m.prev + k <= assigned_log_idx /\ m.entries[k] = Header(log[Leader][m.prev + k])
            BY <4>1, <4>2 DEF MessageTrue
          <6>2. m.prev + k \in 1 .. len
            <7>1. PICK p, a : p = m.prev + k /\ a = assigned_log_idx
              OBVIOUS
            <7>2. p \in Nat /\ p >= 1
              BY ONLY <5>1, <7>1, SMT
            <7>3. a \in 0 .. len /\ len \in Nat /\ p <= a
              BY <2>3, <6>1, <7>1
            <7>4. p \in 1 .. len
              BY ONLY <7>2, <7>3, SMT
            <7> QED BY <7>1, <7>4
          <6> QED BY ONLY <2>3, <2>7, <2>8, <6>1, <6>2, SMTT(30)
        <5> QED BY <4>1, <4>2, <5>2 DEF MessageTrue, Header
      <4>3. CASE m.kind = "AE_REP"
        <5>1. m.node \in Nodes /\ m.node # Leader
          BY <4>1, <4>3, Kinds, NodeFacts DEF AeReps
        <5> QED BY <2>6, <4>1, <4>3, <5>1 DEF MessageTrue
      <4> QED BY <4>1, <4>2, <4>3 DEF MessageTrue
    <3>2. \A m \in DOMAIN net' : MessageTrue(m)' /\ m \in Message
      BY <2>12, <2>13, <3>1
    <3> QED BY <3>2 DEF MessagesTrue
  <2>15. MarksTrue'
    <3>1. MarksTrue
      BY DEF IInv
    <3>2. ASSUME NEW i \in 1 .. len PROVE log'[Leader][i].reply <=> log'[Leader][i].replier = Leader
      <4>1. CASE i \in first .. last
        <5>1. log[Leader][i].replier = Leader /\ log[Leader][i].reply
          BY <1>t, <2>a, <2>5, <3>1, <4>1 DEF MarksTrue
        <5>2. log[Leader][i] \in Entry /\ r[i] \in Nodes
          BY <2>2, <2>3, <4>1
        <5>3. log'[Leader][i] = Assign(log[Leader][i], r[i])
          BY <2>6, <4>1
        <5> QED BY <5>1, <5>2, <5>3 DEF Assign, Entry
      <4>2. CASE i \notin first .. last
        BY ONLY <1>t, <2>a, <2>6, <3>1, <4>2, SMT DEF MarksTrue
      <4> QED BY <4>1, <4>2
    <3>3. ASSUME NEW i \in 1 .. len, i > assigned_log_idx' PROVE log'[Leader][i].replier = Leader
      <4>1. i > assigned_log_idx /\ i \notin first .. last
        BY ONLY <2>3, <2>4, <2>8, <3>3, SMT
      <4> QED BY <2>a, <2>6, <3>1, <4>1 DEF MarksTrue
    <3>4. ASSUME NEW n \in Nodes, n # Leader, NEW i \in 1 .. Len(log'[n])
          PROVE  log'[n][i].reply <=> log'[n][i].replier = n
      BY ONLY <2>6, <3>1, <3>4, SMT DEF MarksTrue
    <3> QED BY <2>6, <3>2, <3>3, <3>4 DEF MarksTrue
  <2>16. CommitAssigned'
    <3>1. commit[Leader] <= assigned_log_idx /\ commit'[Leader] = commit[Leader]
      BY <2>1 DEF IInv, CommitAssigned
    <3>2. assigned_log_idx <= assigned_log_idx' /\ commit[Leader] \in Nat
      BY <1>t, <2>3, <2>8, <2>9, <2>10 DEF TypeOK
    <3> QED BY ONLY <2>3, <2>8, <3>1, <3>2, SMT DEF CommitAssigned
  <2>17. AnswersExact'
    <3>1. \A n \in Nodes : \A i \in 1 .. applied[n] : log'[n][i] = log[n][i]
      <4>1. \A i \in 1 .. applied[Leader] : i \in 1 .. len /\ i <= assigned_log_idx
        BY ONLY <1>t, <2>3, <2>9, <2>10, SMT
      <4> QED BY <2>6, <2>7, <4>1
    <3>2. AnswersExact
      BY DEF IInv
    <3> QED BY <2>1, <3>1, <3>2, AnswersKept
  <2>18. Once'
    <3>1. Once
      BY DEF IInv
    <3>2. /\ Len(log'[Leader]) = Len(log[Leader])
          /\ \A i \in 1 .. Len(log[Leader]) : log'[Leader][i].req = log[Leader][i].req
      BY <2>a, <2>6, <2>7
    <3>3. ASSUME NEW i \in 1 .. Len(log'[Leader]), NEW j \in 1 .. Len(log'[Leader]),
                 log'[Leader][i].req = log'[Leader][j].req
          PROVE  i = j
      <4>1. i \in 1 .. Len(log[Leader]) /\ j \in 1 .. Len(log[Leader])
        BY <3>2
      <4>2. log[Leader][i].req = log[Leader][j].req
        BY <3>2, <3>3, <4>1
      <4> QED BY <3>1, <4>1, <4>2 DEF Once
    <3>4. ASSUME NEW i \in 1 .. Len(log'[Leader]), NEW j \in 1 .. Len(pending_rr)
          PROVE  log'[Leader][i].req # pending_rr[j]
      <4>1. i \in 1 .. Len(log[Leader])
        BY <3>2
      <4>2. log'[Leader][i].req = log[Leader][i].req
        BY <3>2, <4>1
      <4>3. log[Leader][i].req # pending_rr[j]
        BY <3>1, <4>1 DEF Once
      <4> QED BY <4>2, <4>3
    <3>5. \A i, j \in 1 .. Len(pending_rr) : pending_rr[i] = pending_rr[j] => i = j
      BY <3>1 DEF Once
    <3>6. ASSUME NEW q \in Requests, <<Leader, q>> \in mcast
          PROVE  /\ \A i \in 1 .. Len(log'[Leader]) : log'[Leader][i].req # q
                 /\ \A j \in 1 .. Len(pending_rr) : pending_rr[j] # q
      <4>1. /\ \A i \in 1 .. Len(log[Leader]) : log[Leader][i].req # q
            /\ \A j \in 1 .. Len(pending_rr) : pending_rr[j] # q
        BY <3>1, <3>6 DEF Once
      <4> QED BY <3>2, <4>1
    <3>7. UNCHANGED <<pending_rr, mcast>>
      BY <2>1
    <3> QED BY <3>3, <3>4, <3>5, <3>6, <3>7 DEF Once
  <2>19. RingFits'
    BY <2>a, <2>1, <2>6, ZenonT(60) DEF IInv, RingFits
  <2>20. TypeOK'
    <3>1. assigned' \in [Nodes -> Nat]
      <4>1. \A n \in Nodes : assigned[n] \in Nat /\ ChargesUpTo(n, r, first, last) \in Nat
        <5>1. first \in Int /\ last \in Int
          BY ONLY <2>3, <2>4, SMT
        <5>2. \A n \in Nodes : assigned[n] \in Nat
          BY <1>t DEF TypeOK
        <5> QED BY <5>1, <5>2 DEF ChargesCounted
      <4> QED BY ONLY <2>2, <4>1, SMT
    <3>2. sent' \in 0 .. MaxAe /\ pending_ae' \in [Followers -> BOOLEAN]
      <4>1. sent \in 0 .. MaxAe /\ pending_ae \in [Followers -> BOOLEAN] /\ MaxAe \in Nat
        BY <1>t, ParamsAssumption DEF TypeOK
      <4> QED BY ONLY <2>1, <4>1, SMT
    <3>3. \A n \in Nodes : applied[n] <= commit[n] /\ commit[n] <= Len(log'[n])
      BY <2>a, <2>6, <2>9
    <3>4. assigned_log_idx' \in 0 .. Len(log'[Leader]) /\ term_start \in 0 .. Len(log'[Leader])
      <4>1. term_start \in 0 .. Len(log[Leader])
        BY <1>t DEF TypeOK
      <4> QED BY <2>a, <2>6, <2>8, <4>1
    <3> QED BY <1>t, <2>1, <2>6, <2>14, <3>1, <3>2, <3>3, <3>4 DEF TypeOK
  <2> QED BY <2>11, <2>14, <2>15, <2>16, <2>17, <2>18, <2>19, <2>20 DEF IInv
<1> QED BY <1>1, <1>2

-----------------------------------------------------------------------------

(* The entries picked repliers are charged for are finitely many.          *)
LEMMA ChargesNat ==
  ASSUME NEW n, NEW r, NEW first \in Int, NEW last \in Int
  PROVE  ChargesUpTo(n, r, first, last) \in Nat
<1>1. IsFiniteSet(first .. last)
  BY FS_Interval
<1> DEFINE S == {j \in first .. last : Charged(n, [log[Leader][j] EXCEPT !.replier = r[j]])}
<1>2. S \subseteq first .. last
  OBVIOUS
<1> HIDE DEF S
<1>3. IsFiniteSet(S)
  BY <1>1, <1>2, FS_Subset
<1>4. Cardinality(S) \in Nat
  BY <1>3, FS_CardinalityType
<1> QED BY <1>4 DEF ChargesUpTo, S

(* The numbers up to n are n.                                              *)
LEMMA UptoFinite ==
  ASSUME NEW n \in Nat
  PROVE  IsFiniteSet(1 .. n) /\ Cardinality(1 .. n) = n
  BY ONLY FS_Interval, SMT

(* The entries a follower takes are the ones of the message that follow    *)
(* its log.                                                                *)
LEMMA TakenFacts ==
  ASSUME TypeOK, NEW f \in Followers, NEW m \in AeReqs
  PROVE  /\ Taken(f, m) \in Seq([req : Requests, replier : Nodes])
         /\ \A k \in 1 .. Len(Taken(f, m)) :
               /\ Len(log[f]) + k - m.prev \in 1 .. Len(m.entries)
               /\ Taken(f, m)[k] = m.entries[Len(log[f]) + k - m.prev]
<1> DEFINE H == [req : Requests, replier : Nodes]
           S == {k \in DOMAIN m.entries :
                   \A j \in 1 .. k : m.prev + j > Len(log[f]) => j \in Held(f, m)}
<1>1. PICK len, stop : len = Len(log[f]) /\ stop = Cardinality(S)
  OBVIOUS
<1>2. m.entries \in Seq(H) /\ m.prev \in Nat
  BY DEF AeReqs
<1> HIDE DEF H
<1>3. len \in Nat
  BY ONLY <1>1, NodeFacts, SMTT(30) DEF TypeOK
<1>4. stop \in Nat /\ stop <= Len(m.entries)
  <2>1. DOMAIN m.entries = 1 .. Len(m.entries) /\ Len(m.entries) \in Nat
    BY ONLY <1>2, SMT
  <2>2. S \subseteq 1 .. Len(m.entries)
    BY <2>1
  <2> HIDE DEF S
  <2>3. IsFiniteSet(1 .. Len(m.entries)) /\ Cardinality(1 .. Len(m.entries)) = Len(m.entries)
    BY <2>1, UptoFinite
  <2>4. IsFiniteSet(S) /\ Cardinality(S) <= Cardinality(1 .. Len(m.entries))
    BY <2>2, <2>3, FS_Subset
  <2>5. Cardinality(S) \in Nat
    BY <2>4, FS_CardinalityType
  <2> QED BY <1>1, <2>3, <2>4, <2>5
<1>5. Taken(f, m) = IF ~Fits(f, m) \/ m.prev + stop <= len THEN <<>>
                    ELSE SubSeq(m.entries, len - m.prev + 1, stop)
  BY <1>1 DEF Taken
<1> HIDE DEF S
<1>6. CASE ~Fits(f, m) \/ m.prev + stop <= len
  BY ONLY <1>5, <1>6, SMT DEF H
<1>7. CASE Fits(f, m) /\ ~(m.prev + stop <= len)
  <2>1. m.prev <= len
    BY <1>1, <1>7 DEF Fits
  <2>2. PICK a : a = len - m.prev + 1
    OBVIOUS
  <2>3. a \in 1 .. stop
    BY ONLY <1>2, <1>3, <1>4, <1>7, <2>1, <2>2, SMT
  <2>4. \A i \in a .. stop : m.entries[i] \in H
    <3>1. \A i \in a .. stop : i \in 1 .. Len(m.entries)
      BY ONLY <1>2, <1>4, <2>3, SMT
    <3> QED BY ONLY <1>2, <3>1, SMT
  <2>5. Taken(f, m) = SubSeq(m.entries, a, stop)
    BY <1>5, <1>7, <2>2
  <2>6. /\ Taken(f, m) \in Seq(H) /\ Len(Taken(f, m)) = stop - a + 1
        /\ \A i \in 1 .. stop - a + 1 : Taken(f, m)[i] = m.entries[a + i - 1]
    BY ONLY <1>4, <2>3, <2>4, <2>5, SubSeqFacts, SMTT(30)
  <2>7. \A k \in 1 .. stop - a + 1 : a + k - 1 = len + k - m.prev /\ a + k - 1 \in 1 .. Len(m.entries)
    <3>1. Len(m.entries) \in Nat /\ stop \in Nat /\ stop <= Len(m.entries) /\ m.prev \in Nat
      BY ONLY <1>2, <1>4, SMT
    <3>2. ASSUME NEW k \in 1 .. stop - a + 1
          PROVE  a + k - 1 = len + k - m.prev /\ a + k - 1 \in 1 .. stop
      <4>1. a + k - 1 \in 1 .. stop
        BY ONLY <2>3, <3>1, SMT
      <4>2. a + k - 1 = len + k - m.prev
        BY ONLY <1>3, <2>2, <3>1, SMT
      <4> QED BY <4>1, <4>2
    <3> QED BY ONLY <3>1, <3>2, SMT
  <2> QED BY <1>1, <2>6, <2>7 DEF H
<1> QED BY <1>6, <1>7

(* A follower's log grows by entries of the leader's log, marked for it to *)
(* answer when it is their replier.                                        *)
LEMMA AppendEntriesStep ==
  ASSUME IInv, NEW f \in Followers, NEW m \in DOMAIN net, ReceiveAppendEntries(f, m)
  PROVE  IInv'
<1>t. TypeOK /\ Leader \in Nodes /\ f \in Nodes /\ f # Leader /\ Followers \subseteq Nodes
  BY NodeFacts DEF IInv
<1> DEFINE H == [req : Requests, replier : Nodes]
<1>a. PICK taken, len : taken = Taken(f, m) /\ len = Len(log[f]) + Len(taken)
  OBVIOUS
<1>b. PICK new : new = [k \in DOMAIN taken |-> Offered(f, taken[k])]
  OBVIOUS
<1>c. PICK x, y : x = AppendEntriesRep(f, m, len) /\ y = RecoveryReq(f, len)
  OBVIOUS
<1>1. /\ m.kind = "AE" /\ Follow(f, m.term)
      /\ log' = [log EXCEPT ![f] = @ \o new]
      /\ commit' = [commit EXCEPT ![f] = CommitTo(f, m, len)]
      /\ unordered' = IF ACCELERATED THEN [unordered EXCEPT ![f] = Unused(f, m, Held(f, m), taken)]
                      ELSE unordered
      /\ net' = Put((IF Missing(f, m) THEN {y} ELSE {}) \cup (IF m.live THEN {x} ELSE {}),
                    Take({m}, net))
      /\ UNCHANGED <<mcast, pending, next_idx, match_idx, role, term_start, applied, replied,
                     pending_ae, balance, announced_commit_idx, sent, timeouts, aborted>>
  BY <1>a, <1>b, <1>c DEF ReceiveAppendEntries
<1> USE DEF pending, balance
<1>2. m \in AeReqs /\ MessageTrue(m)
  BY <1>t, <1>1, Kinds DEF IInv, TypeOK, MessagesTrue
<1>3. m.commit \in Nat /\ m.term \in 1 .. MaxTerm /\ m.entries \in Seq(H) /\ m.prev \in Nat
  BY <1>2 DEF AeReqs
<1> HIDE DEF H
<1>4. /\ log \in [Nodes -> Seq(Entry)] /\ log[f] \in Seq(Entry) /\ Len(log[f]) \in Nat
      /\ assigned_log_idx \in 0 .. Len(log[Leader]) /\ Len(log[Leader]) \in Nat
  <2>1. log \in [Nodes -> Seq(Entry)] /\ log[f] \in Seq(Entry) /\ log[Leader] \in Seq(Entry)
    BY <1>t DEF TypeOK
  <2>2. assigned_log_idx \in 0 .. Len(log[Leader])
    BY <1>t DEF TypeOK
  <2> QED BY ONLY <2>1, <2>2, SMT
<1>5. /\ taken \in Seq(H)
      /\ \A k \in 1 .. Len(taken) : /\ Len(log[f]) + k <= assigned_log_idx
                                    /\ taken[k] = Header(log[Leader][Len(log[f]) + k])
  <2>1. taken \in Seq(H)
    BY <1>t, <1>a, <1>2, TakenFacts DEF H
  <2>2. ASSUME NEW k \in 1 .. Len(taken)
        PROVE  /\ Len(log[f]) + k <= assigned_log_idx
               /\ taken[k] = Header(log[Leader][Len(log[f]) + k])
    <3>1. PICK j : j = Len(log[f]) + k - m.prev
      OBVIOUS
    <3>2. j \in 1 .. Len(m.entries) /\ taken[k] = m.entries[j]
      BY <1>t, <1>a, <1>2, <3>1, TakenFacts
    <3>3. m.prev + j <= assigned_log_idx /\ m.entries[j] = Header(log[Leader][m.prev + j])
      BY <1>1, <1>2, <3>2 DEF MessageTrue
    <3>4. m.prev + j = Len(log[f]) + k
      BY ONLY <1>3, <1>4, <2>1, <3>1, SMT
    <3> QED BY <3>2, <3>3, <3>4
  <2> QED BY <2>1, <2>2
<1>6. /\ new \in Seq(Entry) /\ Len(new) = Len(taken) /\ Len(taken) \in Nat
      /\ \A k \in 1 .. Len(taken) : /\ new[k] = Offered(f, taken[k])
                                    /\ Header(new[k]) = taken[k]
                                    /\ new[k].reply <=> new[k].replier = f
  <2>1. Len(taken) \in Nat /\ DOMAIN taken = 1 .. Len(taken)
    BY ONLY <1>5, SMT
  <2>2. ASSUME NEW k \in 1 .. Len(taken)
        PROVE  /\ Offered(f, taken[k]) \in Entry /\ Header(Offered(f, taken[k])) = taken[k]
               /\ Offered(f, taken[k]).reply <=> Offered(f, taken[k]).replier = f
    <3>1. taken[k] \in H
      BY ONLY <1>5, SMT
    <3> QED BY <3>1 DEF Offered, Header, Entry, H
  <2>3. new \in [1 .. Len(taken) -> Entry] /\ \A k \in 1 .. Len(taken) : new[k] = Offered(f, taken[k])
    BY <1>b, <2>1, <2>2
  <2> QED BY <2>1, <2>2, <2>3, FunctionIsSeq
<1>7. /\ log' \in [Nodes -> Seq(Entry)] /\ Len(log'[f]) = len /\ len \in Nat /\ Len(log[f]) <= len
      /\ \A i \in 1 .. Len(log[f]) : log'[f][i] = log[f][i]
      /\ \A i \in Len(log[f]) + 1 .. len : log'[f][i] = new[i - Len(log[f])]
                                           /\ i - Len(log[f]) \in 1 .. Len(taken)
      /\ \A n \in Nodes : n # f => log'[n] = log[n]
  <2>1. /\ log[f] \o new \in Seq(Entry) /\ Len(log[f] \o new) = Len(log[f]) + Len(new)
        /\ \A i \in 1 .. Len(log[f]) + Len(new) : (log[f] \o new)[i] =
              IF i <= Len(log[f]) THEN log[f][i] ELSE new[i - Len(log[f])]
    <3>1. log[f] \in Seq(Entry) /\ new \in Seq(Entry)
      BY <1>4, <1>6
    <3> QED BY <3>1, ConcatFacts
  <2>2. /\ log'[f] = log[f] \o new /\ log' \in [Nodes -> Seq(Entry)]
        /\ \A n \in Nodes : n # f => log'[n] = log[n]
    BY <1>t, <1>1, <1>4, <2>1
  <2>3. /\ len \in Nat /\ Len(log[f]) <= len /\ len = Len(log[f]) + Len(new)
        /\ \A i \in 1 .. Len(log[f]) : i \in 1 .. len /\ i <= Len(log[f])
        /\ \A i \in Len(log[f]) + 1 .. len :
              i \in 1 .. len /\ ~(i <= Len(log[f])) /\ i - Len(log[f]) \in 1 .. Len(taken)
    BY ONLY <1>a, <1>4, <1>6, SMT
  <2> QED BY <2>1, <2>2, <2>3
<1>8. \A i \in 1 .. len : i \in 1 .. Len(log[f]) \/ i \in Len(log[f]) + 1 .. len
  BY ONLY <1>4, <1>7, SMT
<1>9. LogsAgree'
  <2>1. LogsAgree
    BY DEF IInv
  <2>2. ASSUME NEW g \in Followers, g # f
        PROVE  /\ Len(log'[g]) <= assigned_log_idx
               /\ \A i \in 1 .. Len(log'[g]) : Header(log'[g][i]) = Header(log'[Leader][i])
    BY <1>t, <1>7, <2>1, <2>2, ZenonT(60) DEF LogsAgree
  <2>3. len <= assigned_log_idx
    <3>1. Len(log[f]) <= assigned_log_idx
      BY <2>1 DEF LogsAgree
    <3>2. Len(taken) = 0 \/ Len(log[f]) + Len(taken) <= assigned_log_idx
      BY ONLY <1>5, <1>6, SMT
    <3> QED BY ONLY <1>a, <1>4, <1>6, <3>1, <3>2, SMT
  <2>4. ASSUME NEW i \in 1 .. len PROVE Header(log'[f][i]) = Header(log[Leader][i])
    <3>1. CASE i \in 1 .. Len(log[f])
      BY <1>7, <2>1, <3>1 DEF LogsAgree
    <3>2. CASE i \in Len(log[f]) + 1 .. len
      <4>1. PICK k : k = i - Len(log[f])
        OBVIOUS
      <4>2. k \in 1 .. Len(taken) /\ log'[f][i] = new[k] /\ Len(log[f]) + k = i
        BY ONLY <1>4, <1>7, <3>2, <4>1, SMT
      <4>3. Header(new[k]) = taken[k] /\ taken[k] = Header(log[Leader][Len(log[f]) + k])
        BY <1>5, <1>6, <4>2
      <4> QED BY <4>2, <4>3
    <3> QED BY <1>8, <3>1, <3>2
  <2>5. log'[Leader] = log[Leader]
    BY <1>t, <1>7
  <2>6. \A g \in Followers :
           /\ Len(log'[g]) <= assigned_log_idx
           /\ \A i \in 1 .. Len(log'[g]) : Header(log'[g][i]) = Header(log'[Leader][i])
    BY <1>7, <2>2, <2>3, <2>4, <2>5
  <2> QED BY <1>1, <2>6 DEF LogsAgree, Header
<1>10. MarksTrue'
  <2>1. MarksTrue
    BY DEF IInv
  <2>2. ASSUME NEW i \in 1 .. len PROVE log'[f][i].reply <=> log'[f][i].replier = f
    <3>1. CASE i \in 1 .. Len(log[f])
      <4>1. log'[f][i] = log[f][i]
        BY <1>7, <3>1
      <4>2. log[f][i].reply <=> log[f][i].replier = f
        BY <1>t, <2>1, <3>1 DEF MarksTrue
      <4> QED BY ONLY <4>1, <4>2, SMTT(30)
    <3>2. CASE i \in Len(log[f]) + 1 .. len
      <4>1. PICK k \in 1 .. Len(taken) : log'[f][i] = new[k]
        BY <1>7, <3>2
      <4> QED BY <1>6, <4>1
    <3> QED BY <1>8, <3>1, <3>2
  <2>3. log'[Leader] = log[Leader] /\ assigned_log_idx' = assigned_log_idx
    BY <1>t, <1>1, <1>7
  <2>4. \A n \in Nodes : \A i \in 1 .. Len(log'[n]) : log'[n][i].reply <=> log'[n][i].replier = n
    <3> SUFFICES ASSUME NEW n \in Nodes, NEW i \in 1 .. Len(log'[n])
                 PROVE  log'[n][i].reply <=> log'[n][i].replier = n
      OBVIOUS
    <3>1. CASE n = f
      BY <1>7, <2>2, <3>1
    <3>2. CASE n # f
      <4>1. log'[n] = log[n]
        BY <1>7, <3>2
      <4>2. i \in 1 .. Len(log[n]) /\ log'[n][i] = log[n][i]
        BY <4>1
      <4>3. log[n][i].reply <=> log[n][i].replier = n
        BY <2>1, <4>2 DEF MarksTrue
      <4> QED BY ONLY <4>2, <4>3, SMTT(30)
    <3> QED BY <3>1, <3>2
  <2> QED BY <2>1, <2>3, <2>4, ZenonT(60) DEF MarksTrue
<1>11. CommitAssigned' /\ Once' /\ RingFits'
  <2>1. log'[Leader] = log[Leader] /\ commit'[Leader] = commit[Leader]
    BY <1>t, <1>1, <1>7 DEF TypeOK
  <2>2. CommitAssigned'
    BY <1>1, <2>1 DEF IInv, CommitAssigned
  <2>3. Once'
    <3>1. Once /\ UNCHANGED <<pending_rr, mcast>>
      BY <1>1 DEF IInv
    <3> QED BY <2>1, <3>1, OnceKept
  <2>4. RingFits'
    BY <1>1, <2>1 DEF IInv, RingFits
  <2> QED BY <2>2, <2>3, <2>4
<1>12. AnswersExact'
  <2>1. \A n \in Nodes : \A i \in 1 .. applied[n] : log'[n][i] = log[n][i]
    <3>1. applied[f] \in Nat /\ commit[f] \in Nat /\ applied[f] <= commit[f] /\ commit[f] <= Len(log[f])
      BY <1>t DEF TypeOK
    <3>2. \A i \in 1 .. applied[f] : i \in 1 .. Len(log[f])
      BY ONLY <1>4, <3>1, SMT
    <3> QED BY <1>7, <3>2
  <2>2. AnswersExact
    BY DEF IInv
  <2> QED BY <1>1, <2>1, <2>2, AnswersKept
<1>13. term' \in [Nodes -> 1 .. MaxTerm] /\ done' \in [Nodes -> Nat]
  BY <1>t, <1>1, <1>3, FollowFacts
<1>14. DOMAIN net' \subseteq DOMAIN net \cup {x, y}
  <2>1. (IF Missing(f, m) THEN {y} ELSE {}) \cup (IF m.live THEN {x} ELSE {}) \subseteq {x, y}
    OBVIOUS
  <2> QED BY <1>1, <2>1, AnswerDomain
<1>15. DOMAIN net' \subseteq Message /\ MessagesTrue'
  <2>1. x \in Message /\ MessageTrue(x)'
    <3>1. x \in AeReps /\ x.kind = "AE_REP" /\ x.current = len /\ x.node = f
      BY <1>t, <1>c, <1>7, <1>13 DEF AppendEntriesRep, AeReps, Fits
    <3> QED BY ONLY <1>7, <3>1, SMTT(30) DEF Message, MessageTrue
  <2>2. y \in Message /\ MessageTrue(y)'
    <3>1. y \in RecoveryReqs /\ y.kind = "RECOVER"
      BY <1>c, <1>7 DEF RecoveryReq, RecoveryReqs
    <3> QED BY <3>1 DEF Message, MessageTrue
  <2>3. ASSUME NEW z \in DOMAIN net PROVE z \in Message /\ MessageTrue(z)'
    <3>1. z \in Message /\ MessageTrue(z)
      BY <1>t DEF IInv, TypeOK, MessagesTrue
    <3>2. log'[Leader] = log[Leader] /\ assigned_log_idx' = assigned_log_idx
      BY <1>t, <1>1, <1>7
    <3>3. CASE z.kind = "AE_REP"
      <4>1. z.node \in Nodes /\ z.current \in Nat
        BY <1>t, <3>1, <3>3, Kinds DEF AeReps
      <4>2. Len(log[z.node]) \in Nat /\ Len(log[z.node]) <= Len(log'[z.node])
        <5>1. CASE z.node = f
          BY <1>4, <1>7, <5>1
        <5>2. CASE z.node # f
          <6>1. log[z.node] \in Seq(Entry) /\ log'[z.node] = log[z.node]
            BY <1>4, <1>7, <4>1, <5>2
          <6> QED BY ONLY <6>1, SMT
        <5> QED BY <5>1, <5>2
      <4>3. z.current <= Len(log'[z.node])
        <5>1. z.current <= Len(log[z.node]) /\ Len(log'[z.node]) \in Nat
          BY ONLY <1>7, <3>1, <3>3, <4>1, SMTT(30) DEF MessageTrue
        <5> QED BY ONLY <4>1, <4>2, <5>1, SMT
      <4> QED BY <3>1, <3>3, <4>3 DEF MessageTrue
    <3> QED BY <3>1, <3>2, <3>3 DEF MessageTrue, Header
  <2> QED BY <1>14, <2>1, <2>2, <2>3 DEF MessagesTrue
<1>16. TypeOK'
  <2>1. PICK c : c = CommitTo(f, m, len)
    OBVIOUS
  <2>2. c \in Nat /\ commit[f] <= c /\ c <= len
    BY <1>t, <1>3, <1>7, <2>1, CommitToFacts
  <2>3. /\ commit' \in [Nodes -> Nat]
        /\ \A n \in Nodes : applied[n] <= commit'[n] /\ commit'[n] <= Len(log'[n])
    <3>1. commit' = [commit EXCEPT ![f] = c]
      BY <1>1, <2>1
    <3>2. \A n \in Nodes : commit[n] \in Nat /\ applied[n] \in Nat /\ applied[n] <= commit[n]
                           /\ commit[n] <= Len(log[n])
      BY <1>t DEF TypeOK
    <3>3. commit \in [Nodes -> Nat]
      BY <1>t DEF TypeOK
    <3>4. \A n \in Nodes : commit'[n] = IF n = f THEN c ELSE commit[n]
      BY <3>1, <3>3
    <3>5. applied[f] <= c
      BY ONLY <1>t, <2>2, <3>2, SMT
    <3>6. commit' \in [Nodes -> Nat]
      BY <2>2, <3>1, <3>3
    <3>7. \A n \in Nodes : Len(log'[n]) = IF n = f THEN len ELSE Len(log[n])
      BY <1>t, <1>7
    <3> QED BY <2>2, <3>2, <3>4, <3>5, <3>6, <3>7
  <2>4. unordered' \in [Nodes -> SUBSET Requests]
    <3>1. unordered \in [Nodes -> SUBSET Requests]
      BY <1>t DEF TypeOK
    <3>2. \A j \in Held(f, m) : m.entries[j].req \in Requests
      <4>1. \A j \in DOMAIN m.entries : m.entries[j] \in H
        BY ONLY <1>3, SMT
      <4> QED BY <4>1 DEF Held, H
    <3>3. Unused(f, m, Held(f, m), taken) \subseteq Requests
      BY <1>t, <3>1, <3>2 DEF Unused
    <3> QED BY <1>1, <3>1, <3>3
  <2>5. log'[Leader] = log[Leader]
    BY <1>t, <1>7
  <2> QED BY <1>t, <1>1, <1>7, <1>13, <1>15, <2>3, <2>4, <2>5 DEF TypeOK
<1> QED BY <1>9, <1>10, <1>11, <1>12, <1>15, <1>16 DEF IInv

-----------------------------------------------------------------------------
(* Every step of the system preserves the invariant.                       *)
LEMMA NextIInv == IInv /\ [Next]_vars => IInv'
<1> SUFFICES ASSUME IInv, [Next]_vars PROVE IInv'
  OBVIOUS
<1>1. CASE UNCHANGED vars
  BY <1>1, Still DEF vars, main
<1>2. CASE \E n \in Nodes, r \in Requests : HandleReplicatedReq(n, r)
  BY <1>2, HandleReplicatedReqStep
<1>3. CASE DoRaftDuties
  BY <1>3, DoRaftDutiesStep
<1>4. CASE \E f \in Followers : SendAppendEntries(f) \/ AppendEntriesTimeout(f)
  <2>1. ChargesCounted
    BY ChargesNat DEF ChargesCounted
  <2> QED BY <1>4, <2>1, SendAppendEntriesStep, TimeoutStep
<1>5. CASE \E m \in DOMAIN net : Receive(m)
  <2>1. PICK m \in DOMAIN net, f \in Followers :
          \/ ReceiveAppendEntries(f, m) \/ ReceiveAppendEntriesReply(f, m)
          \/ ReceiveAnnounce(f, m) \/ ReceiveAnnounceReply(f, m)
          \/ ReceiveRecoveryReq(f, m) \/ ReceiveRecoveryRep(f, m)
    BY <1>5 DEF Receive
  <2> QED BY <2>1, AppendEntriesStep, AppendEntriesReplyStep, AnnounceStep, AnnounceReplyStep,
             RecoveryReqStep, RecoveryRepStep
<1>6. CASE \E n \in Nodes : ApplyLog(n)
  BY <1>6, ApplyLogStep
<1>7. CASE \E n \in Nodes, t \in 1 .. MaxTerm : Campaign(n, t) \/ ReceiveVoteRequest(n, t)
  BY <1>7, CampaignStep, VoteRequestStep
<1>8. CASE BecomeLeader
  BY <1>8, BecomeLeaderStep
<1> QED BY <1>1, <1>2, <1>3, <1>4, <1>5, <1>6, <1>7, <1>8 DEF Next

(* The inductive invariant holds in every reachable state.                 *)
THEOREM Inductive == Spec => []IInv
  BY InitIInv, NextIInv, PTL DEF Spec

(* The state of every node is well formed: nothing is applied that is not  *)
(* committed or committed that is not in the log, and at most              *)
(* pending_replicated_reqs requests are queued (handle_replicated_req).    *)
THEOREM Typed == Spec => []TypeOK
<1>1. IInv => TypeOK
  BY DEF IInv
<1> QED BY <1>1, Inductive, PTL

(* A follower's log is a prefix of the leader's (process_ae_req_accel,     *)
(* r2p2_send_appendentries).                                               *)
THEOREM Agreement == Spec => []LogsAgree
<1>1. IInv => LogsAgree
  BY DEF IInv
<1> QED BY <1>1, Inductive, PTL

(* No request is answered by two nodes, and none twice by one: it is in    *)
(* one entry, which has one replier on all nodes and is applied once       *)
(* (r2p2_send_appendentries, r2p2_applylog).                               *)
THEOREM AtMostOneReply == Spec => []OneReply
<1>1. ASSUME IInv PROVE OneReply
  <2> SUFFICES ASSUME NEW r \in Requests
               PROVE  \A n, k \in Nodes : /\ replied[n][r] <= 1
                                          /\ replied[n][r] > 0 /\ replied[k][r] > 0 => n = k
    BY DEF OneReply
  <2>1. AnswersExact /\ Once
    BY <1>1 DEF IInv
  <2>2. ASSUME NEW n \in Nodes, replied[n][r] > 0
        PROVE  \E i \in 1 .. Len(log[Leader]) : log[Leader][i].req = r /\ log[Leader][i].replier = n
    <3>1. PICK i \in 1 .. applied[n] : log[n][i].req = r /\ log[n][i].replier = n
      BY <2>1, <2>2 DEF AnswersExact
    <3> QED BY <1>1, <3>1, AppliedOrdered
  <2>3. \A n, k \in Nodes : replied[n][r] > 0 /\ replied[k][r] > 0 => n = k
    BY ONLY <2>1, <2>2, SMT DEF Once
  <2> QED BY <2>1, <2>3 DEF AnswersExact
<1> QED BY <1>1, Inductive, PTL

(* Once every node has applied an entry, its replier has answered          *)
(* (r2p2_log_offer marks it on that node only, r2p2_applylog answers).     *)
THEOREM AnsweredWhenApplied == Spec => []SomeReply
<1>1. ASSUME IInv PROVE SomeReply
  <2> SUFFICES ASSUME NEW i \in 1 .. Len(log[Leader]), \A n \in Nodes : applied[n] >= i
               PROVE  \E n \in Nodes : replied[n][log[Leader][i].req] > 0
    BY DEF SomeReply
  <2>1. TypeOK /\ LogsAgree /\ AnswersExact
    BY <1>1 DEF IInv
  <2>2. PICK n : n = log[Leader][i].replier
    OBVIOUS
  <2>3. n \in Nodes
    <3>1. log[Leader] \in Seq(Entry)
      BY <2>1, NodeFacts DEF TypeOK
    <3>2. log[Leader][i] \in Entry
      BY ONLY <3>1, SMT
    <3> QED BY <2>2, <3>2 DEF Entry
  <2>4. /\ applied[n] \in Nat /\ commit[n] \in Nat /\ Len(log[n]) \in Nat
        /\ applied[n] <= commit[n] /\ commit[n] <= Len(log[n])
    BY ONLY <2>1, <2>3, SMTT(30) DEF TypeOK
  <2>5. i \in 1 .. applied[n] /\ i \in 1 .. Len(log[n])
    BY <2>3, <2>4, SMT
  <2>6. log[n][i].req = log[Leader][i].req /\ log[n][i].replier = n
    <3>1. CASE n = Leader
      BY <2>2, <3>1
    <3>2. CASE n # Leader
      <4>1. Header(log[n][i]) = Header(log[Leader][i])
        BY <2>1, <2>3, <2>5, <3>2, NodeFacts DEF LogsAgree
      <4> QED BY <2>2, <4>1 DEF Header
    <3> QED BY <3>1, <3>2
  <2> QED BY <2>1, <2>3, <2>5, <2>6 DEF AnswersExact
<1> QED BY <1>1, Inductive, PTL

(* The leader's ring keeps the request of every entry it has not applied:  *)
(* should_keep_new_entry lets requests in below FC_THRESHOLD only, and one *)
(* poll or an interrupted one queues at most PENDING_LIMIT of them.        *)
THEOREM RingKeeps == Spec => []LeaderKeepsUnapplied
<1>1. ASSUME IInv PROVE LeaderKeepsUnapplied
  <2>1. TypeOK /\ RingFits
    BY <1>1 DEF IInv
  <2>2. Len(log[Leader]) \in Nat /\ applied[Leader] \in Nat
    BY ONLY <2>1, NodeFacts, SMTT(30) DEF TypeOK
  <2> QED BY ONLY <2>1, <2>2, ParamsAssumption, SMT DEF RingFits, LeaderKeepsUnapplied, InRing
<1> QED BY <1>1, Inductive, PTL

-----------------------------------------------------------------------------
(* The balance of load, as long as there is no election.                   *)

(* A reply tells at most what its sender has done.                         *)
DoneTrue(m) == m.kind \in {"AE_REP", "ANNOUNCE_REP"} => m.done <= done[m.node]

(* The load of every node is what it has still to execute, the leader      *)
(* knows of no more than is done, and smart_lb keeps the queues short.     *)
Load ==
  /\ role = "leader"
  /\ \A n \in Nodes : assigned[n] - done[n] = Cardinality(Outstanding(n))
  /\ \A f \in Followers : peer_done[f] <= done[f]
  /\ \A m \in DOMAIN net : DoneTrue(m)
  /\ SmartLb => \A f \in Followers : \A i \in Outstanding(f) :
       log[Leader][i].req \in NoSideEffects =>
          Cardinality({j \in Outstanding(f) : j <= i}) <= BOUNDED_QUEUE

LoadInv == NoElection => Load

(* What a node has to execute is a finite set of entries that the leader   *)
(* has given a replier.                                                    *)
LEMMA OutstandingFacts ==
  ASSUME IInv, NEW n \in Nodes
  PROVE  /\ assigned_log_idx \in Nat /\ applied[n] \in Nat /\ applied[n] <= assigned_log_idx
         /\ assigned_log_idx <= Len(log[Leader])
         /\ Outstanding(n) \subseteq 1 .. assigned_log_idx
         /\ IsFiniteSet(Outstanding(n)) /\ Cardinality(Outstanding(n)) \in Nat
<1>1. /\ assigned_log_idx \in 0 .. Len(log[Leader]) /\ Len(log[Leader]) \in Nat
      /\ applied[n] \in Nat /\ commit[n] \in Nat /\ applied[n] <= commit[n]
      /\ commit[n] <= Len(log[n]) /\ Len(log[n]) \in Nat
  <2>1. /\ assigned_log_idx \in 0 .. Len(log[Leader]) /\ log[Leader] \in Seq(Entry)
        /\ log[n] \in Seq(Entry) /\ applied[n] \in Nat /\ commit[n] \in Nat
        /\ applied[n] <= commit[n] /\ commit[n] <= Len(log[n])
    BY NodeFacts DEF IInv, TypeOK
  <2> QED BY ONLY <2>1, SMT
<1>2. applied[n] <= assigned_log_idx
  <2>1. CASE n = Leader
    BY <1>1, <2>1, SMT DEF IInv, CommitAssigned
  <2>2. CASE n # Leader
    <3>1. Len(log[n]) <= assigned_log_idx
      BY <2>2, NodeFacts DEF IInv, LogsAgree
    <3> QED BY ONLY <1>1, <3>1, SMT
  <2> QED BY <2>1, <2>2
<1>3. applied[n] + 1 .. assigned_log_idx \subseteq 1 .. assigned_log_idx
  BY ONLY <1>1, SMT
<1>4. PICK S : S = Outstanding(n)
  OBVIOUS
<1>5. S \subseteq 1 .. assigned_log_idx
  BY <1>3, <1>4 DEF Outstanding
<1>6. 1 \in Int /\ assigned_log_idx \in Int
  BY ONLY <1>1, SMT
<1>7. IsFiniteSet(1 .. assigned_log_idx)
  BY <1>6, FS_Interval
<1>8. IsFiniteSet(S)
  BY <1>5, <1>7, FS_Subset
<1>9. Cardinality(S) \in Nat
  BY <1>8, FS_CardinalityType
<1>10. assigned_log_idx \in Nat /\ assigned_log_idx <= Len(log[Leader])
  BY ONLY <1>1, SMT
<1> QED BY <1>1, <1>2, <1>4, <1>5, <1>8, <1>9, <1>10

(* A step that neither assigns nor applies entries and after which no      *)
(* node has done more or less: only what the replies say has to be looked  *)
(* at.                                                                     *)
LEMMA LoadKept ==
  ASSUME IInv, Load, role' = role, done' = done,
         UNCHANGED <<assigned, applied, assigned_log_idx>>,
         \A i \in 1 .. assigned_log_idx : log'[Leader][i] = log[Leader][i],
         \A f \in Followers : peer_done'[f] <= done[f],
         NEW X, DOMAIN net' \subseteq DOMAIN net \cup X, \A x \in X : DoneTrue(x)
  PROVE  Load'
<1>1. ASSUME NEW n \in Nodes
      PROVE  /\ Outstanding(n)' = Outstanding(n)
             /\ \A i \in Outstanding(n) : log'[Leader][i] = log[Leader][i]
  <2>1. \A i \in applied[n] + 1 .. assigned_log_idx : i \in 1 .. assigned_log_idx
    BY OutstandingFacts, SMTT(30)
  <2>2. \A i \in applied[n] + 1 .. assigned_log_idx : log'[Leader][i] = log[Leader][i]
    BY <2>1
  <2> QED BY <2>2 DEF Outstanding, Charged
<1>2. \A n \in Nodes : assigned'[n] - done'[n] = Cardinality(Outstanding(n)')
  BY <1>1 DEF Load
<1>3. \A m \in DOMAIN net' : DoneTrue(m)'
  BY DEF Load, DoneTrue
<1>4. ASSUME SmartLb, NEW f \in Followers, NEW i \in Outstanding(f)',
             log'[Leader][i].req \in NoSideEffects
      PROVE  Cardinality({j \in Outstanding(f)' : j <= i}) <= BOUNDED_QUEUE
  <2>1. f \in Nodes
    BY NodeFacts
  <2>2. i \in Outstanding(f) /\ log[Leader][i].req \in NoSideEffects
    BY <1>1, <1>4, <2>1
  <2>3. Cardinality({j \in Outstanding(f) : j <= i}) <= BOUNDED_QUEUE
    BY <1>4, <2>2 DEF Load
  <2> QED BY <1>1, <2>1, <2>3
<1> QED BY <1>2, <1>3, <1>4 DEF Load

(* The same, when nothing is sent.                                         *)
LEMMA LoadStill ==
  ASSUME IInv, Load, DOMAIN net' \subseteq DOMAIN net, UNCHANGED <<balance, worker, log, role>>
  PROVE  Load'
<1>1. UNCHANGED <<assigned, applied, assigned_log_idx, done, peer_done, log, role>>
  BY DEF balance, worker
<1>2. PICK X : X = {}
  OBVIOUS
<1> QED BY <1>1, <1>2, LoadKept DEF Load

(* No node hears of a later term than the first, or there is an election.  *)
LEMMA FollowCalm ==
  ASSUME IInv, NEW n \in Nodes, NEW t \in 1 .. MaxTerm, Follow(n, t), NoElection'
  PROVE  NoElection /\ ~(t > term[n]) /\ done' = done
<1>1. term \in [Nodes -> 1 .. MaxTerm] /\ MaxTerm \in Nat
  BY ParamsAssumption DEF IInv, TypeOK
<1>2. /\ term' = [term EXCEPT ![n] = Most(term[n], t)] /\ \A k \in Nodes : term'[k] = 1
      /\ done' = IF t > term[n] THEN [done EXCEPT ![n] = 0] ELSE done
  BY DEF Follow, NoElection
<1>3. Most(term[n], t) = 1 /\ \A k \in Nodes : k # n => term[k] = 1
  BY <1>1, <1>2
<1>4. term[n] = 1 /\ t = 1
  BY ONLY <1>1, <1>3, SMT DEF Most
<1>5. ~(t > term[n])
  BY ONLY <1>4, SMT
<1> QED BY <1>2, <1>3, <1>4, <1>5 DEF NoElection

(* Nothing has been assigned or done.                                      *)
LEMMA InitLoad == Init => LoadInv
<1> SUFFICES ASSUME Init PROVE Load
  BY DEF LoadInv
<1>1. DOMAIN net = {}
  BY DEF Init, Empty
<1>2. \A n \in Nodes : applied[n] = 0 /\ assigned[n] = 0 /\ done[n] = 0
  BY DEF Init
<1>3. \A f \in Followers : f \in Nodes /\ peer_done[f] = 0
  BY NodeFacts DEF Init
<1>4. \A n \in Nodes : Outstanding(n) = {}
  <2>1. assigned_log_idx = 0
    BY DEF Init
  <2> QED BY ONLY <1>2, <2>1, SMT DEF Outstanding
<1>5. \A n \in Nodes : assigned[n] - done[n] = Cardinality(Outstanding(n))
  <2>1. Cardinality({}) = 0
    BY FS_EmptySet
  <2>2. 0 - 0 = 0
    BY ONLY SMT
  <2> QED BY <1>2, <1>4, <2>1, <2>2
<1>6. \A f \in Followers : peer_done[f] <= done[f]
  <2>1. \A f \in Followers : peer_done[f] = 0 /\ done[f] = 0
    BY ONLY <1>2, <1>3, Zenon
  <2>2. 0 <= 0
    BY ONLY SMT
  <2> QED BY ONLY <2>1, <2>2, Zenon
<1>7. role = "leader"
  BY DEF Init
<1> QED BY <1>1, <1>3, <1>4, <1>5, <1>6, <1>7 DEF Load

(* Ordering requests appends to the leader's log.                          *)
LEMMA DoRaftDutiesLoad == ASSUME IInv, Load, DoRaftDuties PROVE Load'
<1>1. /\ role = "leader" /\ LeaderOrderRequests
      /\ UNCHANGED <<commit, election, worker, balance, net>>
  BY DEF DoRaftDuties, Load
<1>2. UNCHANGED <<assigned, applied, assigned_log_idx, done, peer_done, role, net>>
  BY <1>1 DEF balance, worker, election
<1>3. PICK s, t, len : /\ s = log[Leader] /\ len = Len(log[Leader])
                       /\ t = [k \in DOMAIN pending_rr |-> Ordered(pending_rr[k])]
  OBVIOUS
<1>4. log \in [Nodes -> Seq(Entry)] /\ Leader \in Nodes /\ s \in Seq(Entry) /\ len \in Nat
  <2>1. log \in [Nodes -> Seq(Entry)] /\ Leader \in Nodes
    BY NodeFacts DEF IInv, TypeOK
  <2> QED BY ONLY <1>3, <2>1, SMT
<1>5. t \in Seq(Entry)
  <2>1. pending_rr \in Seq(Requests)
    BY DEF IInv, TypeOK
  <2>2. PICK n \in Nat : n = Len(pending_rr) /\ DOMAIN pending_rr = 1 .. n
    BY ONLY <2>1, SMT
  <2>3. \A k \in 1 .. n : Ordered(pending_rr[k]) \in Entry
    <3>1. \A k \in 1 .. n : pending_rr[k] \in Requests
      BY ONLY <2>1, <2>2, SMT
    <3> QED BY <1>4, <3>1 DEF Ordered, Entry
  <2>4. t = [k \in 1 .. n |-> Ordered(pending_rr[k])]
    BY <1>3, <2>2
  <2>5. t \in [1 .. n -> Entry]
    BY <2>3, <2>4
  <2> QED BY <2>5, FunctionIsSeq
<1>6. log'[Leader] = s \o t
  BY <1>1, <1>3, <1>4 DEF LeaderOrderRequests
<1>7. \A i \in 1 .. len : (s \o t)[i] = s[i]
  BY ONLY <1>3, <1>4, <1>5, ConcatFacts, SMTT(30)
<1>8. \A i \in 1 .. assigned_log_idx : i \in 1 .. len
  BY <1>3, <1>4, OutstandingFacts, SMT
<1>9. \A i \in 1 .. assigned_log_idx : log'[Leader][i] = log[Leader][i]
  BY <1>3, <1>6, <1>7, <1>8
<1>10. PICK X : X = {}
  OBVIOUS
<1> QED BY <1>2, <1>9, <1>10, LoadKept DEF Load

(* The messages to a follower are given up.                                *)
LEMMA TimeoutLoad ==
  ASSUME IInv, Load, NEW f \in Followers, AppendEntriesTimeout(f)
  PROVE  Load'
<1>1. PICK old, X :
        /\ X = {[m EXCEPT !.live = FALSE] : m \in {x \in old : x.kind = "AE"}}
        /\ old \subseteq DOMAIN net /\ net' = Put(X, Take(old, net))
        /\ UNCHANGED <<balance, worker, log, election>>
  BY DEF AppendEntriesTimeout, raft
<1>2. DOMAIN net' \subseteq DOMAIN net \cup X
  BY <1>1, AnswerDomain
<1>3. ASSUME NEW x \in X PROVE DoneTrue(x)
  <2>1. PICK m \in old : m.kind = "AE" /\ x = [m EXCEPT !.live = FALSE]
    BY <1>1
  <2>2. m \in AeReqs
    BY <1>1, <2>1, Kinds DEF IInv, TypeOK
  <2>3. x.kind = "AE"
    BY <2>1, <2>2 DEF AeReqs
  <2> QED BY ONLY <2>3, SMT DEF DoneTrue
<1>4. UNCHANGED <<assigned, applied, assigned_log_idx, done, peer_done, log, role>>
  BY <1>1 DEF balance, worker, election
<1> QED BY <1>2, <1>3, <1>4, LoadKept DEF Load

(* A follower takes entries, and reports what it has done.                 *)
LEMMA AppendEntriesLoad ==
  ASSUME IInv, LoadInv, NoElection', NEW f \in Followers, NEW m \in DOMAIN net,
         ReceiveAppendEntries(f, m)
  PROVE  Load'
<1>1. f \in Nodes /\ f # Leader /\ m.term \in 1 .. MaxTerm /\ Leader \in Nodes
  <2>1. m \in AeReqs
    BY Kinds DEF ReceiveAppendEntries, IInv, TypeOK
  <2> QED BY <2>1, NodeFacts DEF AeReqs
<1>2. PICK new, len, X, Y :
        /\ Follow(f, m.term) /\ log' = [log EXCEPT ![f] = log[f] \o new]
        /\ X = (IF Missing(f, m) THEN {RecoveryReq(f, len)} ELSE {})
        /\ Y = (IF m.live THEN {AppendEntriesRep(f, m, len)} ELSE {})
        /\ net' = Put(X \cup Y, Take({m}, net))
        /\ UNCHANGED <<role, applied, balance>>
  BY DEF ReceiveAppendEntries
<1>3. NoElection /\ done' = done /\ Load
  BY <1>1, <1>2, FollowCalm DEF LoadInv
<1>4. PICK Z : Z = X \cup Y
  OBVIOUS
<1>5. DOMAIN net' \subseteq DOMAIN net \cup Z
  BY <1>2, <1>4, AnswerDomain
<1>6. ASSUME NEW x \in Z PROVE DoneTrue(x)
  <2>1. CASE x \in X
    <3>1. x = RecoveryReq(f, len)
      BY <1>2, <2>1
    <3>2. x.kind = "RECOVER"
      BY <3>1 DEF RecoveryReq
    <3> QED BY ONLY <3>2, SMT DEF DoneTrue
  <2>2. CASE x \in Y
    <3>1. x = AppendEntriesRep(f, m, len)
      BY <1>2, <2>2
    <3>2. x.done = done[f] /\ x.node = f
      BY <1>3, <3>1 DEF AppendEntriesRep
    <3>3. done[f] \in Nat
      BY <1>1 DEF IInv, TypeOK
    <3>4. x.done <= done[x.node]
      BY ONLY <3>2, <3>3, SMT
    <3> QED BY <3>4 DEF DoneTrue
  <2> QED BY <1>4, <2>1, <2>2
<1>7. log'[Leader] = log[Leader]
  BY <1>1, <1>2 DEF IInv, TypeOK
<1>8. UNCHANGED <<assigned, applied, assigned_log_idx, peer_done, role>>
  BY <1>2 DEF balance
<1> QED BY <1>3, <1>5, <1>6, <1>7, <1>8, LoadKept DEF Load

(* The leader hears what a follower has done.                              *)
LEMMA HeardLoad ==
  ASSUME IInv, Load, NEW f \in Followers, NEW m \in DOMAIN net, m.node = f,
         m.kind \in {"AE_REP", "ANNOUNCE_REP"}, peer_done' = [peer_done EXCEPT ![f] = m.done],
         UNCHANGED <<assigned, applied, assigned_log_idx, done, log, role>>,
         NEW X, DOMAIN net' \subseteq DOMAIN net \cup X, \A x \in X : DoneTrue(x)
  PROVE  Load'
<1>1. m.done <= done[f]
  BY DEF Load, DoneTrue
<1>2. \A g \in Followers : peer_done'[g] <= done[g]
  BY <1>1 DEF IInv, TypeOK, Load
<1> QED BY <1>2, LoadKept

(* The reply to an append-entries request.                                 *)
LEMMA AppendEntriesReplyLoad ==
  ASSUME IInv, LoadInv, NoElection', NEW f \in Followers, NEW m \in DOMAIN net,
         ReceiveAppendEntriesReply(f, m), ~Abort("response")
  PROVE  Load'
<1>1. m.term \in 1 .. MaxTerm /\ Leader \in Nodes /\ m.kind = "AE_REP"
  <2>1. m \in AeReps /\ m.kind = "AE_REP"
    BY Kinds DEF ReceiveAppendEntriesReply, RaftReplyRecved, IInv, TypeOK
  <2> QED BY <2>1, NodeFacts DEF AeReps
<1>2. PICK X, next, committed :
        /\ RaftReplyRecved(f, m) /\ peer_done' = [peer_done EXCEPT ![f] = m.done]
        /\ IF role = "leader" THEN StepDown(m.term) ELSE UNCHANGED <<role, term, done, unordered>>
        /\ X = {} \/ X = Announcements(next, committed)
        /\ net' = Put(X, Take({m}, net))
        /\ UNCHANGED <<log, applied, assigned_log_idx, assigned>>
  BY DEF ReceiveAppendEntriesReply
<1>3. NoElection /\ done' = done /\ role' = role
  <2>1. CASE role = "leader"
    <3>1. Follow(Leader, m.term) /\ (~(m.term > term[Leader]) => role' = role)
      BY <1>2, <2>1 DEF StepDown
    <3> QED BY <1>1, <3>1, FollowCalm
  <2>2. CASE role # "leader"
    <3>1. UNCHANGED <<role, term, done>>
      BY <1>2, <2>2
    <3> QED BY <3>1 DEF NoElection
  <2> QED BY <2>1, <2>2
<1>4. DOMAIN net' \subseteq DOMAIN net \cup X
  BY <1>2, AnswerDomain
<1>5. ASSUME NEW x \in X PROVE DoneTrue(x)
  <2>1. x \in Announcements(next, committed)
    BY <1>2
  <2>2. PICK g \in Followers :
          x = [kind |-> "ANNOUNCE", node |-> g, live |-> TRUE, term |-> term[Leader],
               prev |-> next[g] - 1, commit |-> committed]
    BY <2>1 DEF Announcements
  <2>3. x.kind = "ANNOUNCE"
    BY <2>2
  <2> QED BY ONLY <2>3, SMT DEF DoneTrue
<1>6. Load
  BY <1>3 DEF LoadInv
<1>7. m.node = f /\ m.kind \in {"AE_REP", "ANNOUNCE_REP"}
  BY <1>2 DEF RaftReplyRecved
<1> QED BY <1>2, <1>3, <1>4, <1>5, <1>6, <1>7, HeardLoad

(* The announcement of a commit index, and its reply.                      *)
LEMMA AnnounceLoad ==
  ASSUME IInv, LoadInv, NoElection', NEW f \in Followers, NEW m \in DOMAIN net,
         ReceiveAnnounce(f, m)
  PROVE  Load'
<1>1. f \in Nodes /\ m.term \in 1 .. MaxTerm
  <2>1. m \in AnnounceReqs
    BY Kinds DEF ReceiveAnnounce, IInv, TypeOK
  <2> QED BY <2>1, NodeFacts DEF AnnounceReqs
<1>2. PICK x, X :
        /\ Follow(f, m.term) /\ x = AnnounceCommitRep(f) /\ X = {x}
        /\ net' = Put(X, Take({m}, net))
        /\ UNCHANGED <<log, role, applied, balance>>
  BY DEF ReceiveAnnounce
<1>3. NoElection /\ done' = done /\ Load
  BY <1>1, <1>2, FollowCalm DEF LoadInv
<1>4. DOMAIN net' \subseteq DOMAIN net \cup X
  BY <1>2, AnswerDomain
<1>5. \A y \in X : DoneTrue(y)
  <2>1. x.done = done[f] /\ x.node = f
    BY <1>2, <1>3 DEF AnnounceCommitRep
  <2>2. done[f] \in Nat
    BY <1>1 DEF IInv, TypeOK
  <2>3. x.done <= done[x.node]
    BY ONLY <2>1, <2>2, SMT
  <2> QED BY <1>2, <2>3 DEF DoneTrue
<1>6. UNCHANGED <<assigned, applied, assigned_log_idx, peer_done, role, log>>
  BY <1>2 DEF balance
<1> QED BY <1>3, <1>4, <1>5, <1>6, LoadKept DEF Load

(* The reply to an announcement.                                           *)
LEMMA AnnounceReplyLoad ==
  ASSUME IInv, Load, NEW f \in Followers, NEW m \in DOMAIN net, ReceiveAnnounceReply(f, m)
  PROVE  Load'
<1>1. /\ m.kind \in {"AE_REP", "ANNOUNCE_REP"} /\ m.node = f
      /\ peer_done' = [peer_done EXCEPT ![f] = m.done]
      /\ DOMAIN net' \subseteq DOMAIN net
      /\ UNCHANGED <<assigned, applied, assigned_log_idx, done, log, role>>
  BY TakeDomain DEF ReceiveAnnounceReply, raft, election, worker
<1>2. PICK X : X = {}
  OBVIOUS
<1>3. DOMAIN net' \subseteq DOMAIN net \cup X /\ \A x \in X : DoneTrue(x)
  BY <1>1, <1>2
<1> QED BY <1>1, <1>3, HeardLoad

(* A request for a missing entry.                                          *)
LEMMA RecoveryReqLoad ==
  ASSUME IInv, Load, NEW f \in Followers, NEW m \in DOMAIN net, ReceiveRecoveryReq(f, m),
         ~Abort("entry")
  PROVE  Load'
<1>1. PICK x, X, i :
        /\ x = RecoveryRep(f, i) /\ X = {x} /\ net' = Put(X, Take({m}, net))
        /\ UNCHANGED <<raft, election, worker, balance>>
  BY DEF ReceiveRecoveryReq
<1>2. DOMAIN net' \subseteq DOMAIN net \cup X
  BY <1>1, AnswerDomain
<1>3. \A y \in X : DoneTrue(y)
  <2>1. x.kind = "RECOVER_REP"
    BY <1>1 DEF RecoveryRep
  <2>2. DoneTrue(x)
    BY ONLY <2>1, SMT DEF DoneTrue
  <2> QED BY <1>1, <2>2
<1>4. UNCHANGED <<assigned, applied, assigned_log_idx, done, peer_done, log, role>>
  BY <1>1 DEF raft, election, worker, balance
<1> QED BY <1>2, <1>3, <1>4, LoadKept DEF Load

(* An entry is applied: it is no longer outstanding, and it is counted as  *)
(* done if the node was charged for it.                                    *)
LEMMA ApplyLogLoad ==
  ASSUME IInv, Load, NEW n \in Nodes, ApplyLog(n), ~Abort("apply")
  PROVE  Load'
<1>1. PICK i, e : i = applied[n] + 1 /\ e = log[n][i]
  OBVIOUS
<1>2. /\ applied[n] < commit[n] /\ applied' = [applied EXCEPT ![n] = i]
      /\ done' = IF Executes(n, e) THEN [done EXCEPT ![n] = @ + 1] ELSE done
      /\ UNCHANGED <<log, role, assigned_log_idx, assigned, peer_done, net>>
  BY <1>1 DEF ApplyLog, raft, election, balance
<1>3. /\ applied \in [Nodes -> Nat] /\ done \in [Nodes -> Nat] /\ commit[n] \in Nat
      /\ commit[n] <= Len(log[n]) /\ log \in [Nodes -> Seq(Entry)] /\ peer_done \in [Followers -> Nat]
  BY DEF IInv, TypeOK
<1>4. /\ assigned_log_idx \in Nat /\ applied[n] \in Nat
      /\ IsFiniteSet(Outstanding(n)) /\ Cardinality(Outstanding(n)) \in Nat
  BY OutstandingFacts
<1>5. Len(log[n]) \in Nat /\ i \in 1 .. Len(log[n])
  <2>1. Len(log[n]) \in Nat
    BY ONLY <1>3, SMT
  <2> QED BY ONLY <1>1, <1>2, <1>3, <1>4, <2>1, SMTT(30)
<1>6. i \in applied[n] + 1 .. assigned_log_idx /\ Header(e) = Header(log[Leader][i])
  <2>1. CASE n = Leader
    <3>1. commit[Leader] <= assigned_log_idx
      BY DEF IInv, CommitAssigned
    <3> QED BY ONLY <1>1, <1>2, <1>3, <1>4, <2>1, <3>1, SMTT(30)
  <2>2. CASE n # Leader
    <3>1. /\ Len(log[n]) <= assigned_log_idx
          /\ \A k \in 1 .. Len(log[n]) : Header(log[n][k]) = Header(log[Leader][k])
      BY <2>2, NodeFacts DEF IInv, LogsAgree
    <3>2. i \in applied[n] + 1 .. assigned_log_idx
      <4>1. i = applied[n] + 1 /\ i <= Len(log[n]) /\ i \in Nat
        BY ONLY <1>1, <1>5, SMT
      <4>2. assigned_log_idx \in Nat /\ Len(log[n]) \in Nat
        BY <1>4, <1>5
      <4> QED BY ONLY <3>1, <4>1, <4>2, SMT
    <3> QED BY <1>1, <1>5, <3>1, <3>2
  <2> QED BY <2>1, <2>2
<1>7. Executes(n, e) <=> i \in Outstanding(n)
  <2>1. e.req = log[Leader][i].req /\ e.replier = log[Leader][i].replier
    BY <1>6 DEF Header
  <2> QED BY <1>6, <2>1 DEF Executes, Outstanding, Charged
<1>8. Outstanding(n)' = Outstanding(n) \ {i}
  <2>1. applied'[n] = i
    BY <1>2, <1>3
  <2>2. \A j : j \in i + 1 .. assigned_log_idx <=> j \in applied[n] + 1 .. assigned_log_idx /\ j # i
    BY ONLY <1>1, <1>4, SMT
  <2> QED BY <1>2, <2>1, <2>2 DEF Outstanding, Charged
<1>9. \A k \in Nodes : k # n => Outstanding(k)' = Outstanding(k) /\ done'[k] = done[k]
  BY <1>2, <1>3 DEF Outstanding, Charged
<1>10. assigned[n] - done'[n] = Cardinality(Outstanding(n)')
  <2>1. Cardinality(Outstanding(n) \ {i}) =
          IF i \in Outstanding(n) THEN Cardinality(Outstanding(n)) - 1
          ELSE Cardinality(Outstanding(n))
    BY <1>4, FS_RemoveElement
  <2>2. assigned[n] - done[n] = Cardinality(Outstanding(n)) /\ assigned[n] \in Nat
    BY DEF Load, IInv, TypeOK
  <2>3. done'[n] = IF i \in Outstanding(n) THEN done[n] + 1 ELSE done[n]
    BY <1>2, <1>3, <1>7
  <2>4. done[n] \in Nat
    BY <1>3
  <2>5. Cardinality(Outstanding(n)') = Cardinality(Outstanding(n) \ {i})
    BY <1>8
  <2> HIDE DEF Outstanding
  <2>6. PICK c, d : c = Cardinality(Outstanding(n)) /\ d = Cardinality(Outstanding(n)')
    OBVIOUS
  <2>7. d = IF i \in Outstanding(n) THEN c - 1 ELSE c
    BY <2>1, <2>5, <2>6
  <2>8. c \in Nat /\ assigned[n] - done[n] = c
    BY <1>4, <2>2, <2>6
  <2>9. assigned[n] - done'[n] = d
    BY ONLY <2>2, <2>3, <2>4, <2>7, <2>8, SMTT(30)
  <2> QED BY <2>6, <2>9
<1>11. \A k \in Nodes : assigned'[k] - done'[k] = Cardinality(Outstanding(k)')
  BY <1>2, <1>9, <1>10 DEF Load
<1>12. \A k \in Nodes : done[k] \in Nat /\ done'[k] \in Nat /\ done[k] <= done'[k]
  BY ONLY <1>2, <1>3, SMTT(30)
<1>13. \A f \in Followers : peer_done'[f] <= done'[f]
  <2>1. \A f \in Followers : f \in Nodes /\ peer_done[f] \in Nat /\ peer_done[f] <= done[f]
    BY <1>3, NodeFacts DEF Load
  <2> QED BY ONLY <1>2, <1>12, <2>1, SMT
<1>14. ASSUME NEW m \in DOMAIN net' PROVE DoneTrue(m)'
  <2> SUFFICES ASSUME m.kind \in {"AE_REP", "ANNOUNCE_REP"} PROVE m.done <= done'[m.node]
    BY DEF DoneTrue
  <2>1. m \in DOMAIN net /\ m.done <= done[m.node]
    BY <1>2 DEF Load, DoneTrue
  <2>2. m.done \in Nat /\ m.node \in Nodes
    <3>1. m \in AeReps \/ m \in AnnounceReps
      BY <2>1, Kinds DEF IInv, TypeOK
    <3> QED BY <3>1, NodeFacts DEF AeReps, AnnounceReps
  <2> QED BY ONLY <1>12, <2>1, <2>2, SMTT(30)
<1>15. ASSUME SmartLb, NEW f \in Followers, NEW k \in Outstanding(f)',
              log'[Leader][k].req \in NoSideEffects
       PROVE  Cardinality({j \in Outstanding(f)' : j <= k}) <= BOUNDED_QUEUE
  <2>1. f \in Nodes /\ BOUNDED_QUEUE \in Nat
    BY ONLY NodeFacts, ParamsAssumption, SMT
  <2>2. PICK S, T : S = {j \in Outstanding(f) : j <= k} /\ T = {j \in Outstanding(f)' : j <= k}
    OBVIOUS
  <2>3. Outstanding(f)' \subseteq Outstanding(f)
    BY <1>8, <1>9, <2>1
  <2>4. k \in Outstanding(f) /\ T \subseteq S /\ S \subseteq Outstanding(f)
    BY <2>2, <2>3
  <2>5. Cardinality(S) <= BOUNDED_QUEUE
    BY <1>2, <1>15, <2>2, <2>4 DEF Load
  <2>6. IsFiniteSet(Outstanding(f))
    BY <2>1, OutstandingFacts
  <2>7. IsFiniteSet(S)
    BY <2>4, <2>6, FS_Subset
  <2>8. IsFiniteSet(T) /\ Cardinality(T) <= Cardinality(S)
    BY <2>4, <2>7, FS_Subset
  <2>9. Cardinality(S) \in Nat /\ Cardinality(T) \in Nat
    BY <2>7, <2>8, FS_CardinalityType
  <2>10. Cardinality(T) <= BOUNDED_QUEUE
    BY ONLY <2>1, <2>5, <2>8, <2>9, SMT
  <2> QED BY <2>2, <2>10
<1>16. role' = "leader"
  BY <1>2 DEF Load
<1> QED BY <1>11, <1>13, <1>14, <1>15, <1>16 DEF Load

(* A set of natural numbers that is not empty has a least one.             *)
LEMMA LeastNatural ==
  ASSUME NEW T, T \subseteq Nat, T # {}
  PROVE  \E x \in T : \A y \in T : x <= y
<1> DEFINE R == {ss \in Nat \X Nat : ss[1] < ss[2]}
<1>1. IsWellFoundedOn(R, Nat)
  BY ONLY NatLessThanWellFounded, SMT DEF OpToRel
<1> HIDE DEF R
<1>2. PICK x \in T : \A y \in T : ~(<<y, x>> \in R)
  BY <1>1, WFMin
<1>3. ASSUME NEW y \in T PROVE x <= y
  <2>1. <<y, x>> \in Nat \X Nat /\ ~(<<y, x>> \in R) /\ x \in Nat /\ y \in Nat
    BY <1>2
  <2>2. ~(y < x)
    BY ONLY <2>1, SMT DEF R
  <2> QED BY ONLY <2>1, <2>2, SMT
<1> QED BY <1>2, <1>3

(* smart_lb gives an entry to a follower only if it has a free slot.       *)
LEMMA PickedIsFree ==
  ASSUME SmartLb, NEW d, NEW f \in PickReplier(d), f # Leader
  PROVE  f \in Nodes /\ d[f] \in 0 .. BOUNDED_QUEUE - 1
<1>1. PICK free : free = {n \in Nodes : d[n] \in 0 .. BOUNDED_QUEUE - 1}
  OBVIOUS
<1>2. PICK S : S = {n \in free : \A k \in free : d[n] <= d[k]}
  OBVIOUS
<1>3. free # {} /\ f = Smallest(S)
  BY <1>1, <1>2 DEF PickReplier
<1>4. S # {}
  <2>1. PICK T : T = {d[n] : n \in free}
    OBVIOUS
  <2>2. T \subseteq Nat /\ T # {}
    <3>1. \A n \in free : d[n] \in Nat
      BY ONLY <1>1, ParamsAssumption, SMT
    <3> QED BY <1>3, <2>1, <3>1
  <2>3. PICK t \in T : \A y \in T : t <= y
    BY <2>2, LeastNatural
  <2>4. PICK n \in free : t = d[n]
    BY <2>1
  <2>5. n \in S
    BY <1>2, <2>1, <2>3, <2>4
  <2> QED BY <2>5
<1>5. S \subseteq Nat
  BY <1>1, <1>2, NodeFacts
<1>6. \E x \in S : \A y \in S : x <= y
  BY <1>4, <1>5, LeastNatural
<1>7. f \in S
  BY <1>3, <1>6 DEF Smallest
<1> QED BY <1>1, <1>2, <1>7

(* Every new entry is charged to the nodes that are to execute it, and     *)
(* smart_lb looked at the queue as long as it was or longer.               *)
LEMMA SendAppendEntriesLoad ==
  ASSUME IInv, Load, NEW f \in Followers, SendAppendEntries(f),
         ~(Abort("entry") \/ Abort("candidate"))
  PROVE  Load'
<1>0. PICK prev, first, last, r : Sends(f, prev, first, last, r)
  BY Sending DEF IInv
<1>1. PICK len, a, x, X :
        /\ a = assigned_log_idx /\ first = a + 1 /\ len = Len(log[Leader])
        /\ last \in Int /\ last <= len /\ r \in [first .. last -> Nodes]
        /\ Assignment(r, first, last) /\ Gives(first, last, r)
        /\ assigned' = [n \in Nodes |-> assigned[n] + ChargesUpTo(n, r, first, last)]
        /\ assigned_log_idx' = Most(a, last)
        /\ net' = Put(X, net) /\ X = {x} /\ x.kind = "AE"
        /\ UNCHANGED <<role, applied, done, peer_done>>
  <2>1. PICK x, e : net' = Put({x}, net) /\ x = AppendEntriesReq(f, prev, e)
    BY <1>0 DEF Sends
  <2>2. x.kind = "AE"
    BY <2>1 DEF AppendEntriesReq
  <2>3. UNCHANGED <<role, applied, done, peer_done>>
    BY <1>0 DEF Sends, election, worker
  <2> QED BY <1>0, <2>1, <2>2, <2>3 DEF Sends
<1>2. a \in Nat /\ len \in Nat /\ a <= len /\ first \in Int
  BY <1>1, OutstandingFacts, NodeFacts, SMTT(30)
<1>3. /\ \A i \in 1 .. a : i \in 1 .. len /\ log'[Leader][i] = log[Leader][i]
      /\ \A i \in first .. last : /\ i \in 1 .. len /\ i > a /\ r[i] \in Nodes
                                  /\ log'[Leader][i] = Assign(log[Leader][i], r[i])
  <2>1. \A i \in 1 .. a : i \in 1 .. len /\ i \notin first .. last
    BY ONLY <1>1, <1>2, SMT
  <2>2. \A i \in first .. last : i \in 1 .. len /\ i > a
    BY ONLY <1>1, <1>2, SMT
  <2> QED BY <1>1, <2>1, <2>2 DEF Gives
<1>4. \A i \in 1 .. len : log[Leader][i] \in Entry
  <2>1. log[Leader] \in Seq(Entry)
    BY NodeFacts DEF IInv, TypeOK
  <2> QED BY <1>1, <2>1, SeqFacts
<1> DEFINE New(n, to) ==
      {j \in first .. to : Charged(n, [log[Leader][j] EXCEPT !.replier = r[j]])}
<1>5. \A n \in Nodes : \A i \in first .. last :
        /\ Charged(n, log'[Leader][i]) <=> Charged(n, [log[Leader][i] EXCEPT !.replier = r[i]])
        /\ Charged(n, log'[Leader][i]) <=> log[Leader][i].req \notin NoSideEffects \/ r[i] = n
        /\ log'[Leader][i].req = log[Leader][i].req
  <2> SUFFICES ASSUME NEW n \in Nodes, NEW i \in first .. last, NEW e, e = log[Leader][i],
                      NEW p, p = r[i]
               PROVE  /\ Charged(n, log'[Leader][i]) <=> Charged(n, [e EXCEPT !.replier = p])
                      /\ Charged(n, log'[Leader][i]) <=> e.req \notin NoSideEffects \/ p = n
                      /\ log'[Leader][i].req = e.req
    OBVIOUS
  <2>1. e \in Entry /\ log'[Leader][i] = Assign(e, p)
    BY <1>3, <1>4
  <2>2. /\ [e EXCEPT !.replier = p].req = e.req /\ [e EXCEPT !.replier = p].replier = p
        /\ Assign(e, p).req = e.req /\ Assign(e, p).replier = p
    BY <2>1 DEF Assign, Entry
  <2> QED BY <2>1, <2>2 DEF Charged
<1>6. \A n : \A to \in Int : /\ IsFiniteSet(New(n, to)) /\ Cardinality(New(n, to)) \in Nat
                             /\ ChargesUpTo(n, r, first, to) = Cardinality(New(n, to))
  <2> SUFFICES ASSUME NEW n, NEW to \in Int
               PROVE  /\ IsFiniteSet(New(n, to)) /\ Cardinality(New(n, to)) \in Nat
                      /\ ChargesUpTo(n, r, first, to) = Cardinality(New(n, to))
    OBVIOUS
  <2>1. PICK S : S = New(n, to)
    OBVIOUS
  <2>2. S \subseteq first .. to
    BY <2>1
  <2>3. IsFiniteSet(first .. to)
    BY <1>2, FS_Interval
  <2>4. IsFiniteSet(S)
    BY <2>2, <2>3, FS_Subset
  <2>5. Cardinality(S) \in Nat
    BY <2>4, FS_CardinalityType
  <2> QED BY <2>1, <2>4, <2>5 DEF ChargesUpTo
<1>7. \A n \in Nodes : Outstanding(n)' = Outstanding(n) \cup New(n, last)
  <2> SUFFICES ASSUME NEW n \in Nodes, NEW i
               PROVE  i \in Outstanding(n)' <=> i \in Outstanding(n) \/ i \in New(n, last)
    OBVIOUS
  <2>1. applied[n] \in Nat /\ applied[n] <= a
    BY <1>1, OutstandingFacts
  <2>2. /\ i \in applied[n] + 1 .. Most(a, last) <=>
             i \in applied[n] + 1 .. a \/ i \in first .. last
        /\ i \in applied[n] + 1 .. a => i \in 1 .. a
    <3>1. first = a + 1 /\ last \in Int
      BY <1>1
    <3> QED BY ONLY <1>2, <2>1, <3>1, SMT DEF Most
  <2>3. i \in Outstanding(n)' <=> i \in applied[n] + 1 .. Most(a, last) /\ Charged(n, log'[Leader][i])
    BY <1>1 DEF Outstanding, Charged
  <2>4. CASE i \in 1 .. a
    <3>1. i \notin first .. last
      BY ONLY <1>1, <1>2, <2>4, SMTT(30)
    <3> QED BY <1>1, <1>3, <2>2, <2>3, <2>4, <3>1 DEF Outstanding
  <2>5. CASE i \notin 1 .. a
    BY <1>1, <1>5, <2>2, <2>3, <2>5 DEF Outstanding
  <2> QED BY <2>4, <2>5
<1>8. \A n \in Nodes : /\ Outstanding(n) \subseteq 1 .. a /\ IsFiniteSet(Outstanding(n))
                       /\ Cardinality(Outstanding(n)) \in Nat
  BY <1>1, OutstandingFacts
<1>9. \A n \in Nodes, to \in Int :
        Cardinality(Outstanding(n) \cup New(n, to)) =
          Cardinality(Outstanding(n)) + Cardinality(New(n, to))
  <2> SUFFICES ASSUME NEW n \in Nodes, NEW to \in Int
               PROVE  Cardinality(Outstanding(n) \cup New(n, to)) =
                        Cardinality(Outstanding(n)) + Cardinality(New(n, to))
    OBVIOUS
  <2>1. PICK S, T : S = Outstanding(n) /\ T = New(n, to)
    OBVIOUS
  <2>2. IsFiniteSet(S) /\ IsFiniteSet(T) /\ Cardinality(S) \in Nat /\ Cardinality(T) \in Nat
    BY <1>6, <1>8, <2>1
  <2>3. \A i \in 1 .. a : i \notin first .. to
    BY ONLY <1>1, <1>2, SMTT(30)
  <2>4. S \cap T = {}
    BY <1>8, <2>1, <2>3
  <2>5. Cardinality(S \cup T) = Cardinality(S) + Cardinality(T) - Cardinality(S \cap T)
    BY <2>2, FS_Union
  <2>6. Cardinality(S \cap T) = 0
    BY <2>4, FS_EmptySet
  <2>7. Cardinality(S \cup T) = Cardinality(S) + Cardinality(T)
    BY ONLY <2>2, <2>5, <2>6, SMT
  <2> QED BY <2>1, <2>7
<1> HIDE DEF New
<1>10. ASSUME NEW n \in Nodes PROVE assigned'[n] - done'[n] = Cardinality(Outstanding(n)')
  <2>1. PICK c, d, e : c = Cardinality(Outstanding(n)) /\ d = Cardinality(New(n, last))
                       /\ e = Cardinality(Outstanding(n)')
    OBVIOUS
  <2>2. c \in Nat /\ d \in Nat /\ e = c + d
    BY <1>1, <1>6, <1>7, <1>8, <1>9, <2>1
  <2>3. assigned[n] \in Nat /\ done[n] \in Nat /\ assigned[n] - done[n] = c
    BY <2>1 DEF Load, IInv, TypeOK
  <2>4. assigned'[n] = assigned[n] + d /\ done'[n] = done[n]
    BY <1>1, <1>6, <2>1
  <2>5. assigned'[n] - done'[n] = e
    BY ONLY <2>2, <2>3, <2>4, SMTT(30)
  <2> QED BY <2>1, <2>5
<1>11. ASSUME NEW m \in DOMAIN net' PROVE DoneTrue(m)'
  <2>0. DOMAIN Put(X, net) = DOMAIN net \cup X /\ net' = Put(X, net) /\ X = {x}
    BY <1>1, PutDomain
  <2>1. m \in DOMAIN net \/ m = x
    BY <2>0
  <2>2. CASE m = x
    BY <1>1, <2>2, ZenonT(60) DEF DoneTrue
  <2>3. CASE m \in DOMAIN net
    BY <1>1, <2>3 DEF Load, DoneTrue
  <2> QED BY <2>1, <2>2, <2>3
<1>12. ASSUME SmartLb, NEW g \in Followers, NEW i \in Outstanding(g)',
              log'[Leader][i].req \in NoSideEffects
       PROVE  Cardinality({j \in Outstanding(g)' : j <= i}) <= BOUNDED_QUEUE
  <2>1. g \in Nodes /\ g # Leader
    BY NodeFacts
  <2>2. CASE i \in Outstanding(g)
    <3>1. i \in 1 .. a /\ log[Leader][i].req \in NoSideEffects
      BY <1>3, <1>8, <1>12, <2>1, <2>2
    <3>2. \A j \in New(g, last) : ~(j <= i)
      <4>1. \A j \in first .. last : ~(j <= i)
        BY ONLY <1>1, <1>2, <3>1, SMT
      <4> QED BY <4>1 DEF New
    <3>3. {j \in Outstanding(g)' : j <= i} = {j \in Outstanding(g) : j <= i}
      BY <1>7, <2>1, <3>2
    <3>4. Cardinality({j \in Outstanding(g) : j <= i}) <= BOUNDED_QUEUE
      BY <1>12, <2>2, <3>1 DEF Load
    <3> QED BY <3>3, <3>4
  <2>3. CASE i \in New(g, last)
    <3>1. i \in first .. last /\ log[Leader][i].req \in NoSideEffects /\ r[i] = g
      <4>1. i \in first .. last /\ Charged(g, [log[Leader][i] EXCEPT !.replier = r[i]])
        BY <2>3 DEF New
      <4> QED BY <1>5, <1>12, <2>1, <4>1
    <3>2. PICK k : k = i - 1
      OBVIOUS
    <3>3. k \in Int /\ i \in Int /\ \A j \in Int : j <= i <=> j <= k \/ j = i
      <4>1. first \in Int /\ last \in Int /\ i \in first .. last
        BY <1>1, <1>2, <3>1
      <4> QED BY ONLY <3>2, <4>1, SMT
    <3>4. PICK S, T, U : /\ S = {j \in Outstanding(g)' : j <= i} /\ U = Outstanding(g)
                         /\ T = U \cup New(g, k)
      OBVIOUS
    <3>5. Diff(g) + ChargesUpTo(g, r, first, k) \in 0 .. BOUNDED_QUEUE - 1
      <4>1. PICK d : d = Loads(r, first, i)
        OBVIOUS
      <4>2. g \in PickReplier(d)
        BY <1>1, <3>1, <4>1 DEF Assignment
      <4>3. d[g] \in 0 .. BOUNDED_QUEUE - 1
        BY <1>12, <2>1, <4>2, PickedIsFree
      <4>4. d[g] = Diff(g) + ChargesUpTo(g, r, first, k)
        BY <2>1, <3>2, <4>1 DEF Loads
      <4> QED BY <4>3, <4>4
    <3>6. Cardinality(T) \in Nat /\ IsFiniteSet(T) /\ Cardinality(T) + 1 <= BOUNDED_QUEUE
      <4>1. PICK c, d : c = Cardinality(U) /\ d = Cardinality(New(g, k))
        OBVIOUS
      <4>2. c \in Nat /\ d \in Nat /\ Cardinality(T) = c + d /\ d = ChargesUpTo(g, r, first, k)
        BY <1>6, <1>8, <1>9, <2>1, <3>3, <3>4, <4>1
      <4>3. /\ Diff(g) = assigned[g] - peer_done[g] /\ peer_done[g] <= done[g]
            /\ assigned[g] - done[g] = c
            /\ assigned[g] \in Nat /\ done[g] \in Nat /\ peer_done[g] \in Nat
        BY <2>1, <3>4, <4>1 DEF Diff, KnownDone, Load, IInv, TypeOK
      <4>4. BOUNDED_QUEUE \in Nat
        BY ONLY ParamsAssumption, SMT
      <4>5. IsFiniteSet(T)
        <5>1. PICK V : V = New(g, k)
          OBVIOUS
        <5>2. IsFiniteSet(U) /\ IsFiniteSet(V)
          BY <1>6, <1>8, <2>1, <3>3, <3>4, <5>1
        <5>3. IsFiniteSet(U \cup V)
          BY <5>2, FS_Union
        <5> QED BY <3>4, <5>1, <5>3
      <4>6. Cardinality(T) \in Nat /\ Cardinality(T) + 1 <= BOUNDED_QUEUE
        <5>1. PICK u, y, z : u = assigned[g] /\ y = done[g] /\ z = peer_done[g]
          OBVIOUS
        <5>2. /\ u \in Nat /\ y \in Nat /\ z \in Nat /\ z <= y /\ u - y = c
              /\ (u - z) + d \in 0 .. BOUNDED_QUEUE - 1
          BY <3>5, <4>2, <4>3, <5>1
        <5>3. c + d \in Nat /\ c + d + 1 <= BOUNDED_QUEUE
          BY ONLY <4>2, <4>4, <5>2, SMT
        <5> QED BY <4>2, <5>3
      <4> QED BY <4>5, <4>6
    <3>7. S \subseteq T \cup {i}
      <4> SUFFICES ASSUME NEW j \in S, j # i PROVE j \in T
        OBVIOUS
      <4>1. j \in U \/ (j \in New(g, last) /\ j <= i)
        BY <1>7, <2>1, <3>4
      <4>2. CASE j \in New(g, last) /\ j <= i
        <5>1. j \in first .. last /\ Charged(g, [log[Leader][j] EXCEPT !.replier = r[j]])
          BY <4>2 DEF New
        <5>2. j \in first .. k
          BY <1>1, <1>2, <3>3, <4>2, <5>1, SMT
        <5> QED BY <3>4, <5>1, <5>2 DEF New
      <4> QED BY <3>4, <4>1, <4>2
    <3>8. /\ IsFiniteSet(T \cup {i})
          /\ Cardinality(T \cup {i}) =
               IF i \in T THEN Cardinality(T) ELSE Cardinality(T) + 1
      BY <3>6, FS_AddElement
    <3>9. PICK V : V = T \cup {i}
      OBVIOUS
    <3>10. IsFiniteSet(S) /\ Cardinality(S) <= Cardinality(V)
      BY <3>7, <3>8, <3>9, FS_Subset
    <3>11. Cardinality(S) \in Nat
      BY <3>10, FS_CardinalityType
    <3>12. Cardinality(V) = Cardinality(T) \/ Cardinality(V) = Cardinality(T) + 1
      BY <3>8, <3>9
    <3>13. BOUNDED_QUEUE \in Nat
      BY ONLY ParamsAssumption, SMT
    <3>14. Cardinality(S) <= BOUNDED_QUEUE
      BY ONLY <3>6, <3>10, <3>11, <3>12, <3>13, SMT
    <3> QED BY <3>4, <3>14
  <2> QED BY <1>7, <1>12, <2>1, <2>2, <2>3
<1>13. \A g \in Followers : peer_done'[g] <= done'[g]
  BY <1>1 DEF Load
<1>14. role' = "leader"
  BY <1>1 DEF Load
<1> QED BY <1>10, <1>11, <1>12, <1>13, <1>14 DEF Load

(* Every step, as long as there is no election after it.                   *)
LEMMA NextLoad == IInv /\ LoadInv /\ [Next]_vars => LoadInv'
<1> SUFFICES ASSUME IInv, LoadInv, [Next]_vars, NoElection' PROVE Load'
  BY DEF LoadInv
<1>a. ASSUME UNCHANGED term PROVE Load
  BY <1>a DEF LoadInv, NoElection
<1>b. ASSUME NEW what, Abort(what) PROVE Load'
  <2>1. UNCHANGED <<net, balance, worker, log, role, term>>
    BY <1>b DEF Abort, raft, election
  <2> QED BY <1>a, <2>1, LoadStill
<1>1. CASE UNCHANGED vars
  <2>1. UNCHANGED <<net, balance, worker, log, role, term>>
    BY <1>1 DEF vars, raft, election
  <2> QED BY <1>a, <2>1, LoadStill
<1>2. CASE \E n \in Nodes, r \in Requests : HandleReplicatedReq(n, r)
  <2>1. PICK n \in Nodes, r \in Requests : HandleReplicatedReq(n, r)
    BY <1>2
  <2>2. CASE Abort("pending") \/ Abort("role")
    BY <1>b, <2>2
  <2>3. CASE ~(Abort("pending") \/ Abort("role"))
    <3>1. UNCHANGED <<raft, election, worker, balance, net>>
      BY <2>1, <2>3 DEF HandleReplicatedReq
    <3>2. UNCHANGED <<net, balance, worker, log, role, term>>
      BY <3>1 DEF raft, election
    <3> QED BY <1>a, <3>2, LoadStill
  <2> QED BY <2>2, <2>3
<1>3. CASE DoRaftDuties
  <2>1. UNCHANGED term
    BY <1>3 DEF DoRaftDuties, election
  <2> QED BY <1>a, <1>3, <2>1, DoRaftDutiesLoad
<1>4. CASE \E f \in Followers : SendAppendEntries(f) \/ AppendEntriesTimeout(f)
  <2>1. PICK f \in Followers : SendAppendEntries(f) \/ AppendEntriesTimeout(f)
    BY <1>4
  <2>2. CASE Abort("entry") \/ Abort("candidate")
    BY <1>b, <2>2
  <2>3. CASE SendAppendEntries(f) /\ ~(Abort("entry") \/ Abort("candidate"))
    <3>1. UNCHANGED term
      BY <2>3, Sending, ZenonT(60) DEF IInv, Sends, election
    <3> QED BY <1>a, <2>3, <3>1, SendAppendEntriesLoad
  <2>4. CASE AppendEntriesTimeout(f)
    <3>1. UNCHANGED term
      BY <2>4 DEF AppendEntriesTimeout, election
    <3> QED BY <1>a, <2>4, <3>1, TimeoutLoad
  <2> QED BY <2>1, <2>2, <2>3, <2>4
<1>5. CASE \E m \in DOMAIN net : Receive(m)
  <2>1. PICK m \in DOMAIN net, f \in Followers :
          \/ ReceiveAppendEntries(f, m) \/ ReceiveAppendEntriesReply(f, m)
          \/ ReceiveAnnounce(f, m) \/ ReceiveAnnounceReply(f, m)
          \/ ReceiveRecoveryReq(f, m) \/ ReceiveRecoveryRep(f, m)
    BY <1>5 DEF Receive
  <2>2. CASE Abort("response") \/ Abort("entry") \/ Abort("recovery")
    BY <1>b, <2>2
  <2>3. CASE ReceiveAppendEntriesReply(f, m) /\ ~Abort("response")
    BY <2>3, AppendEntriesReplyLoad
  <2>4. CASE ReceiveAnnounceReply(f, m)
    <3>1. UNCHANGED term
      BY <2>4 DEF ReceiveAnnounceReply, election
    <3> QED BY <1>a, <2>4, <3>1, AnnounceReplyLoad
  <2>5. CASE ReceiveRecoveryReq(f, m) /\ ~Abort("entry")
    <3>1. UNCHANGED term
      BY <2>5 DEF ReceiveRecoveryReq, election
    <3> QED BY <1>a, <2>5, <3>1, RecoveryReqLoad
  <2>6. CASE ReceiveRecoveryRep(f, m) /\ ~Abort("recovery")
    <3>1. net' = Take({m}, net) /\ UNCHANGED <<raft, election, worker, balance>>
      BY <2>6 DEF ReceiveRecoveryRep
    <3>2. DOMAIN net' \subseteq DOMAIN net /\ UNCHANGED <<balance, worker, log, role, term>>
      BY <3>1, TakeDomain DEF raft, election
    <3> QED BY <1>a, <3>2, LoadStill
  <2> QED BY <2>1, <2>2, <2>3, <2>4, <2>5, <2>6, AppendEntriesLoad, AnnounceLoad
<1>6. CASE \E n \in Nodes : ApplyLog(n)
  <2>1. PICK n \in Nodes : ApplyLog(n)
    BY <1>6
  <2>2. CASE ~Abort("apply")
    <3>1. UNCHANGED term
      BY <2>1, <2>2 DEF ApplyLog, election
    <3> QED BY <1>a, <2>1, <2>2, <3>1, ApplyLogLoad
  <2> QED BY <1>b, <2>2
<1>7. CASE \E n \in Nodes, t \in 1 .. MaxTerm : Campaign(n, t) \/ ReceiveVoteRequest(n, t)
  <2>1. PICK n \in Nodes, t \in 1 .. MaxTerm : Campaign(n, t) \/ ReceiveVoteRequest(n, t)
    BY <1>7
  <2>2. term \in [Nodes -> 1 .. MaxTerm] /\ MaxTerm \in Nat
    BY ParamsAssumption DEF IInv, TypeOK
  <2>3. ~ReceiveVoteRequest(n, t)
    BY <2>1, FollowCalm DEF ReceiveVoteRequest
  <2>4. ~Campaign(n, t)
    <3> SUFFICES ASSUME Campaign(n, t) PROVE FALSE
      OBVIOUS
    <3>1. term[n] < t /\ term'[n] = t
      BY <2>2 DEF Campaign
    <3>2. term'[n] = 1
      BY DEF NoElection
    <3> QED BY ONLY <2>2, <3>1, <3>2, SMT
  <2> QED BY <2>1, <2>3, <2>4
<1>8. CASE BecomeLeader
  <2>1. UNCHANGED term /\ role = "candidate"
    BY <1>8 DEF BecomeLeader
  <2>2. role = "leader"
    BY <1>a, <2>1 DEF Load
  <2> QED BY ONLY <2>1, <2>2, SMT
<1> QED BY <1>1, <1>2, <1>3, <1>4, <1>5, <1>6, <1>7, <1>8 DEF Next

(* The load invariant, next to the one of the logs.                        *)
LEMMA StaysLoaded == Spec => [](IInv /\ LoadInv)
<1>1. Init => IInv /\ LoadInv
  BY InitIInv, InitLoad
<1>2. IInv /\ LoadInv /\ [Next]_vars => (IInv /\ LoadInv)'
  BY NextIInv, NextLoad
<1> QED BY <1>1, <1>2, PTL DEF Spec

(* Until the first election assigned - done is what a node has still to    *)
(* execute, and the leader knows of no more than is done: the differences  *)
(* pick_replier and check_available_slots compute are never negative.      *)
THEOREM LoadsExact == Spec => []LoadExact
<1>1. ASSUME IInv, LoadInv PROVE LoadExact
  <2> SUFFICES ASSUME NoElection, NEW n \in Nodes
               PROVE  /\ assigned[n] - done[n] = Cardinality(Outstanding(n))
                      /\ KnownDone(n) <= done[n]
    BY DEF LoadExact
  <2>1. Load
    BY <1>1 DEF LoadInv
  <2>2. done[n] \in Nat
    BY <1>1 DEF IInv, TypeOK
  <2>3. done[n] <= done[n]
    BY ONLY <2>2, SMT
  <2>4. n # Leader => n \in Followers
    BY NodeFacts
  <2>5. KnownDone(n) <= done[n]
    BY <2>1, <2>3, <2>4 DEF KnownDone, Load
  <2> QED BY <2>1, <2>5 DEF Load
<1> QED BY <1>1, StaysLoaded, PTL

(* With SMART_LB and until the first election, a request without side      *)
(* effects that a follower is to answer waits there behind fewer than      *)
(* BOUNDED_QUEUE others, whatever the leader has heard of it so far.       *)
THEOREM QueuesBounded == Spec => []QueueBounded
<1>1. ASSUME LoadInv PROVE QueueBounded
  BY <1>1 DEF LoadInv, Load, QueueBounded
<1> QED BY <1>1, StaysLoaded, PTL
=============================================================================
