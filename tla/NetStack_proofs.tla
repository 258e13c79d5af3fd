--------------------------- MODULE NetStack_proofs ---------------------------
(***************************************************************************)
(* Proofs about NetStack, for every pool of mbufs, every bound and both    *)
(* ways of sending: an mbuf always has one owner, or is one of the mbufs   *)
(* the code is known to lose.                                              *)
(*                                                                         *)
(* The argument gives every mbuf a home: the place that has it.  An action *)
(* moves mbufs from one home to another, and the state then agrees with    *)
(* the new homes.                                                          *)
(***************************************************************************)
EXTENDS NetStack, FiniteSetTheorems, TLAPS

-----------------------------------------------------------------------------
(* Sequences without repetition. *)

Distinct(s) == \A i, j \in DOMAIN s : s[i] = s[j] => i = j

(* A sequence of S in which nothing occurs twice.                          *)
IsChain(s, S) == s \in Seq(S) /\ Distinct(s)

(* The multiples of d below a.                                             *)
LEMMA Multiples ==
  ASSUME NEW a \in Nat, NEW d \in Nat \ {0}
  PROVE  (a \div d) * d \in 0 .. a /\ a - (a \div d) * d < d
  OBVIOUS

(* A sequence is the function of its elements.                             *)
LEMMA SeqIsFcn ==
  ASSUME NEW S, NEW s \in Seq(S)
  PROVE  s = [k \in 1 .. Len(s) |-> s[k]]
  OBVIOUS

(* A part of a sequence.                                                   *)
LEMMA SubSeqFacts ==
  ASSUME NEW S, NEW s \in Seq(S), NEW a \in 1 .. Len(s) + 1, NEW b \in a - 1 .. Len(s)
  PROVE  /\ SubSeq(s, a, b) \in Seq(S) /\ Len(SubSeq(s, a, b)) = b - a + 1
         /\ \A i \in 1 .. b - a + 1 : SubSeq(s, a, b)[i] = s[a + i - 1]
  OBVIOUS

(* Without its first element.                                              *)
LEMMA TailChain ==
  ASSUME NEW S, NEW s, IsChain(s, S), s # <<>>
  PROVE  /\ IsChain(Tail(s), S) /\ Head(s) \in Chain(s)
         /\ Chain(Tail(s)) = Chain(s) \ {Head(s)}
<1>1. /\ Len(s) \in Nat \ {0} /\ DOMAIN s = 1 .. Len(s) /\ s \in Seq(S)
      /\ Tail(s) \in Seq(S) /\ Len(Tail(s)) = Len(s) - 1 /\ Head(s) = s[1]
      /\ \A k \in 1 .. Len(s) - 1 : Tail(s)[k] = s[k + 1]
  BY DEF IsChain
<1>2. DOMAIN Tail(s) = 1 .. Len(s) - 1
  BY <1>1
<1>3. \A k \in 1 .. Len(s) - 1 : k + 1 \in DOMAIN s /\ k + 1 # 1
  BY <1>1
<1>4. \A k \in DOMAIN s : k = 1 \/ (k - 1 \in 1 .. Len(s) - 1 /\ (k - 1) + 1 = k)
  BY <1>1
<1>5. 1 \in DOMAIN s
  BY <1>1
<1>6. Distinct(Tail(s))
  <2> SUFFICES ASSUME NEW i \in 1 .. Len(s) - 1, NEW j \in 1 .. Len(s) - 1, Tail(s)[i] = Tail(s)[j]
               PROVE  i = j
    BY <1>2, Zenon DEF Distinct
  <2>1. s[i + 1] = s[j + 1]
    BY <1>1, Zenon
  <2>2. i + 1 = j + 1
    BY <1>3, <2>1, Zenon DEF IsChain, Distinct
  <2> QED BY <1>1, <2>2
<1>7. Chain(Tail(s)) \subseteq Chain(s) \ {Head(s)}
  <2> SUFFICES ASSUME NEW k \in 1 .. Len(s) - 1
               PROVE  Tail(s)[k] \in Chain(s) /\ Tail(s)[k] # Head(s)
    BY <1>2, Zenon DEF Chain, Range
  <2>1. Tail(s)[k] = s[k + 1] /\ k + 1 \in DOMAIN s /\ k + 1 # 1
    BY <1>1, <1>3, Zenon
  <2>2. s[k + 1] # s[1]
    BY <1>5, <2>1, Zenon DEF IsChain, Distinct
  <2> QED BY <1>1, <2>1, <2>2, Zenon DEF Chain, Range
<1>8. Chain(s) \ {Head(s)} \subseteq Chain(Tail(s))
  <2> SUFFICES ASSUME NEW k \in DOMAIN s, s[k] # Head(s)
               PROVE  s[k] \in Chain(Tail(s))
    BY Zenon DEF Chain, Range
  <2>1. k - 1 \in 1 .. Len(s) - 1 /\ s[k] = Tail(s)[k - 1]
    BY <1>1, <1>4, Zenon
  <2> QED BY <1>2, <2>1, Zenon DEF Chain, Range
<1> QED BY <1>1, <1>5, <1>6, <1>7, <1>8, Zenon DEF IsChain, Chain, Range

(* One after the other.                                                    *)
LEMMA ConcatChain ==
  ASSUME NEW S, NEW s, NEW t, IsChain(s, S), IsChain(t, S), Chain(s) \cap Chain(t) = {}
  PROVE  /\ IsChain(s \o t, S) /\ Chain(s \o t) = Chain(s) \cup Chain(t)
         /\ Len(s \o t) = Len(s) + Len(t)
<1> DEFINE st == s \o t
<1>1. /\ DOMAIN s = 1 .. Len(s) /\ DOMAIN t = 1 .. Len(t) /\ Len(s) \in Nat /\ Len(t) \in Nat
      /\ st \in Seq(S) /\ Len(st) = Len(s) + Len(t) /\ DOMAIN st = 1 .. Len(s) + Len(t)
  BY DEF IsChain
<1>2. \A k \in 1 .. Len(s) + Len(t) : st[k] = IF k <= Len(s) THEN s[k] ELSE t[k - Len(s)]
  BY DEF IsChain
<1> HIDE DEF st
<1>3. \A k \in DOMAIN st : \/ k \in DOMAIN s /\ st[k] = s[k]
                           \/ k - Len(s) \in DOMAIN t /\ st[k] = t[k - Len(s)]
  BY <1>1, <1>2
<1>4. Chain(st) \subseteq Chain(s) \cup Chain(t)
  BY <1>3, Zenon DEF Chain, Range
<1>5. Chain(s) \subseteq Chain(st)
  <2>1. \A k \in DOMAIN s : k \in DOMAIN st /\ st[k] = s[k]
    BY <1>1, <1>2
  <2> QED BY <2>1, Zenon DEF Chain, Range
<1>6. Chain(t) \subseteq Chain(st)
  <2>1. \A k \in DOMAIN t : Len(s) + k \in DOMAIN st /\ st[Len(s) + k] = t[k]
    BY <1>1, <1>2
  <2> QED BY <2>1, Zenon DEF Chain, Range
<1>7. Distinct(st)
  <2> SUFFICES ASSUME NEW i \in DOMAIN st, NEW j \in DOMAIN st, st[i] = st[j] PROVE i = j
    BY Zenon DEF Distinct
  <2>1. \A k \in DOMAIN s, l \in DOMAIN t : s[k] # t[l]
    BY Zenon DEF Chain, Range
  <2>2. CASE i \in DOMAIN s /\ j \in DOMAIN s
    BY <1>1, <1>2, <2>2 DEF IsChain, Distinct
  <2>3. CASE i - Len(s) \in DOMAIN t /\ j - Len(s) \in DOMAIN t
    <3>1. st[i] = t[i - Len(s)] /\ st[j] = t[j - Len(s)]
      BY <1>1, <1>2, <2>3
    <3>2. i - Len(s) = j - Len(s)
      BY <2>3, <3>1, Zenon DEF IsChain, Distinct
    <3> QED BY <1>1, <3>2
  <2> QED BY <1>3, <2>1, <2>2, <2>3, Zenon
<1> QED BY <1>1, <1>4, <1>5, <1>6, <1>7, Zenon DEF IsChain, st

(* Cut in two.                                                             *)
LEMMA CutChain ==
  ASSUME NEW S, NEW s, IsChain(s, S), NEW n \in 0 .. Len(s)
  PROVE  LET t == SubSeq(s, 1, n)
             u == SubSeq(s, n + 1, Len(s)) IN
         /\ IsChain(u, S) /\ Len(u) = Len(s) - n
         /\ Chain(t) \subseteq Chain(s) /\ Chain(u) = Chain(s) \ Chain(t)
<1> DEFINE t == SubSeq(s, 1, n)
           u == SubSeq(s, n + 1, Len(s))
<1>1. /\ Len(s) \in Nat /\ DOMAIN s = 1 .. Len(s) /\ n \in Nat /\ n <= Len(s)
      /\ \A i, j \in DOMAIN s : s[i] = s[j] => i = j
  BY DEF IsChain, Distinct
<1>2. /\ DOMAIN t = 1 .. n /\ \A k \in 1 .. n : t[k] = s[k]
      /\ u \in Seq(S) /\ Len(u) = Len(s) - n /\ DOMAIN u = 1 .. Len(s) - n
      /\ \A k \in 1 .. Len(s) - n : u[k] = s[n + k]
  <2>1. s \in Seq(S)
    BY Zenon DEF IsChain
  <2>2. DOMAIN t = 1 .. n /\ \A k \in 1 .. n : t[k] = s[k]
    BY <1>1, <2>1
  <2>3. PICK a : a = n + 1
    BY Zenon
  <2>4. a \in 1 .. Len(s) + 1 /\ Len(s) \in a - 1 .. Len(s) /\ Len(s) - a + 1 = Len(s) - n
    BY <1>1, <2>3
  <2>5. u \in Seq(S) /\ Len(u) = Len(s) - n
    BY <2>1, <2>3, <2>4, SubSeqFacts, Zenon
  <2>6. \A k \in 1 .. Len(s) - n : u[k] = s[n + k]
    <3>0. \A k \in 1 .. Len(s) - a + 1 : SubSeq(s, a, Len(s))[k] = s[a + k - 1]
      BY <2>1, <2>4, SubSeqFacts, Zenon
    <3>1. \A k \in 1 .. Len(s) - n : u[k] = s[a + k - 1]
      BY <2>3, <2>4, <3>0, Zenon
    <3>2. \A k \in 1 .. Len(s) - n : a + k - 1 = n + k
      BY <1>1, <2>3
    <3> QED BY <3>1, <3>2, Zenon
  <2> HIDE DEF u
  <2>7. DOMAIN u = 1 .. Len(s) - n
    BY <2>5
  <2> QED BY <2>2, <2>5, <2>6, <2>7, Zenon
<1> HIDE DEF t, u
<1>3. \A k \in 1 .. n : k \in DOMAIN s
  BY <1>1
<1>4. \A k \in 1 .. Len(s) - n : n + k \in DOMAIN s /\ \A l \in 1 .. n : l # n + k
  BY <1>1
<1>5. \A k \in DOMAIN s : k \in 1 .. n \/ (k - n \in 1 .. Len(s) - n /\ n + (k - n) = k)
  BY <1>1
<1>6. Chain(t) \subseteq Chain(s)
  BY <1>2, <1>3, Zenon DEF Chain, Range
<1>7. Chain(u) \subseteq Chain(s) \ Chain(t)
  <2> SUFFICES ASSUME NEW k \in 1 .. Len(s) - n PROVE u[k] \in Chain(s) /\ u[k] \notin Chain(t)
    BY <1>2, Zenon DEF Chain, Range
  <2>1. \A l \in 1 .. n : t[l] # u[k]
    BY <1>1, <1>2, <1>3, <1>4, Zenon
  <2> QED BY <1>2, <1>4, <2>1, Zenon DEF Chain, Range
<1>8. Chain(s) \ Chain(t) \subseteq Chain(u)
  <2> SUFFICES ASSUME NEW k \in DOMAIN s, s[k] \notin Chain(t) PROVE s[k] \in Chain(u)
    BY Zenon DEF Chain, Range
  <2>1. k \notin 1 .. n
    BY <1>2, Zenon DEF Chain, Range
  <2>2. k - n \in DOMAIN u /\ u[k - n] = s[k]
    BY <1>2, <1>5, <2>1, Zenon
  <2> QED BY <2>2, Zenon DEF Chain, Range
<1>9. Distinct(u)
  <2> SUFFICES ASSUME NEW i \in 1 .. Len(s) - n, NEW j \in 1 .. Len(s) - n, u[i] = u[j] PROVE i = j
    BY <1>2, Zenon DEF Distinct
  <2>1. s[n + i] = s[n + j]
    BY <1>2, Zenon
  <2>2. n + i = n + j
    BY <1>1, <1>4, <2>1, Zenon
  <2> QED BY <1>1, <2>2
<1> QED BY <1>2, <1>6, <1>7, <1>8, <1>9, Zenon DEF IsChain, t, u

(* Chains of none and of one.                                              *)
LEMMA SmallChains ==
  ASSUME NEW S, NEW x \in S
  PROVE  /\ IsChain(<<>>, S) /\ Chain(<<>>) = {} /\ Len(<<>>) = 0
         /\ IsChain(<<x>>, S) /\ Chain(<<x>>) = {x} /\ Len(<<x>>) = 1
  BY DEF IsChain, Distinct, Chain, Range

(* One more.                                                               *)
LEMMA AppendChain ==
  ASSUME NEW S, NEW s, IsChain(s, S), NEW x \in S, x \notin Chain(s)
  PROVE  IsChain(Append(s, x), S) /\ Chain(Append(s, x)) = Chain(s) \cup {x}
<1> DEFINE t == Append(s, x)
<1>1. /\ Len(s) \in Nat /\ DOMAIN s = 1 .. Len(s) /\ t \in Seq(S) /\ DOMAIN t = 1 .. Len(s) + 1
      /\ t[Len(s) + 1] = x /\ \A k \in 1 .. Len(s) : t[k] = s[k]
  BY DEF IsChain
<1> HIDE DEF t
<1>2. Len(s) + 1 \in DOMAIN t /\ \A k \in DOMAIN t : k \in DOMAIN s \/ k = Len(s) + 1
  BY <1>1
<1>3. \A k \in DOMAIN s : k \in DOMAIN t /\ t[k] = s[k] /\ s[k] # x
  <2>1. \A k \in DOMAIN s : k \in DOMAIN t
    BY <1>1
  <2> QED BY <1>1, <2>1, Zenon DEF Chain, Range
<1>4. Chain(t) = Chain(s) \cup {x}
  BY <1>1, <1>2, <1>3, Zenon DEF Chain, Range
<1>5. Distinct(t)
  BY <1>1, <1>2, <1>3, Zenon DEF IsChain, Distinct
<1> QED BY <1>1, <1>4, <1>5, Zenon DEF IsChain, t

(* What occurs in a chain occurs there once.                               *)
LEMMA OccursOnce ==
  ASSUME NEW S, NEW s, IsChain(s, S), NEW x
  PROVE  Cardinality({k \in 1 .. Len(s) : s[k] = x}) = IF x \in Chain(s) THEN 1 ELSE 0
<1>1. DOMAIN s = 1 .. Len(s)
  BY DEF IsChain
<1>2. CASE x \in Chain(s)
  <2>1. PICK k \in DOMAIN s : s[k] = x
    BY <1>2, Zenon DEF Chain, Range
  <2>2. {l \in 1 .. Len(s) : s[l] = x} = {k}
    BY <1>1, <2>1, Zenon DEF IsChain, Distinct
  <2> QED BY <1>2, <2>2, FS_Singleton, Zenon
<1>3. CASE x \notin Chain(s)
  <2>1. {k \in 1 .. Len(s) : s[k] = x} = {}
    BY <1>1, <1>3, Zenon DEF Chain, Range
  <2> QED BY <1>3, <2>1, FS_EmptySet, Zenon
<1> QED BY <1>2, <1>3, Zenon

-----------------------------------------------------------------------------
(* The homes of the mbufs. *)

Bufs(q) == [k \in DOMAIN q |-> q[k].buf]

Held(C) == UNION {Chain(c) : c \in C}

Names == {"pool", "batch", "tx", "nic", "pending", "app", "request", "reply", "lost"}

(* The mbufs of each place.                                                *)
Place(x) ==
  CASE x = "pool" -> pool
    [] x = "batch" -> Chain(Bufs(batch))
    [] x = "tx" -> Chain(tx_buf)
    [] x = "nic" -> nic
    [] x = "pending" -> Held(pending)
    [] x = "app" -> Held(app)
    [] x = "request" -> IF state = "W_ACK" THEN Chain(request) ELSE {}
    [] x = "reply" -> Chain(reply)
    [] x = "lost" -> lost

where == [x \in Names |-> Place(x)]

(* Every mbuf is in one place.                                             *)
Partition(W) ==
  /\ W = [x \in Names |-> W[x]]
  /\ \A x \in Names : W[x] \subseteq Mbuf
  /\ \A b \in Mbuf : \E x \in Names : b \in W[x] /\ \A y \in Names \ {x} : b \notin W[y]

Apart(C) == \A c, d \in C : c # d => Chain(c) \cap Chain(d) = {}

PollShape ==
  /\ polling \in BOOLEAN /\ (~polling => batch = <<>>)
  /\ batch \in Seq([buf : Mbuf, frame : Frames]) /\ Len(batch) <= BATCH_SIZE
  /\ IsChain(Bufs(batch), Mbuf)

SendShape == IsChain(tx_buf, Mbuf) /\ Len(tx_buf) < FlushAt

ServerShape ==
  /\ \A c \in pending : IsChain(c, Mbuf)
  /\ \A c \in app : IsChain(c, Mbuf)
  /\ Apart(pending) /\ Apart(app)

PairShape ==
  /\ IsChain(request, Mbuf) /\ IsChain(reply, Mbuf)
  /\ state \in {"none", "W_ACK", "W_RESPONSE"} /\ (state = "none" => reply = <<>>)

AbortShape == abort \in {"no", "alloc", "mac", "igmp", "state"}

(* Inside a place nothing occurs twice either.                             *)
Shape == PollShape /\ SendShape /\ ServerShape /\ PairShape /\ AbortShape

IInv == Shape /\ Partition(where)

(* The mbufs of S move from place y to place x.                            *)
To(W, S, y, x) ==
  [z \in Names |-> IF z = x THEN W[z] \cup S ELSE IF z = y THEN W[z] \ S ELSE W[z]]

(* What that does to each place.                                           *)
Moved(V, W, S, y, x) ==
  /\ V[x] = W[x] \cup S /\ V[y] = W[y] \ S
  /\ \A z \in Names : z # x /\ z # y => V[z] = W[z]

(* Every mbuf has one home still.                                          *)
LEMMA Moves ==
  ASSUME NEW W, Partition(W), NEW x \in Names, NEW y \in Names, x # y, NEW S, S \subseteq W[y]
  PROVE  Partition(To(W, S, y, x))
<1> DEFINE V == To(W, S, y, x)
<1>1. /\ V[x] = W[x] \cup S /\ V[y] = W[y] \ S
      /\ \A z \in Names : z # x /\ z # y => V[z] = W[z]
  BY Zenon DEF To
<1>2. V = [z \in Names |-> V[z]]
  BY Zenon DEF To
<1> HIDE DEF V
<1>3. \A z \in Names : V[z] \subseteq Mbuf
  BY <1>1, Zenon DEF Partition
<1>4. ASSUME NEW b \in Mbuf
      PROVE  \E z \in Names : b \in V[z] /\ \A w \in Names \ {z} : b \notin V[w]
  <2>1. PICK z \in Names : b \in W[z] /\ \A w \in Names \ {z} : b \notin W[w]
    BY Zenon DEF Partition
  <2>2. CASE b \in S
    <3>1. z = y
      BY <2>1, <2>2, Zenon
    <3>2. b \in V[x] /\ \A w \in Names \ {x} : b \notin V[w]
      BY <1>1, <2>1, <2>2, <3>1, Zenon
    <3> QED BY <3>2, Zenon
  <2>3. CASE b \notin S
    <3>1. b \in V[z] /\ \A w \in Names \ {z} : b \notin V[w]
      BY <1>1, <2>1, <2>3, Zenon
    <3> QED BY <3>1, Zenon
  <2> QED BY <2>2, <2>3, Zenon
<1> QED BY <1>2, <1>3, <1>4, Zenon DEF Partition, V

(* No mbuf is in two places, and all are mbufs.                            *)
LEMMA PlacesApart ==
  ASSUME NEW W, Partition(W), NEW x \in Names, NEW y \in Names, x # y
  PROVE  W[x] \cap W[y] = {} /\ W[x] \subseteq Mbuf
  BY Zenon DEF Partition

(* The places, one by one.                                                 *)
LEMMA WhereFacts ==
  /\ where["pool"] = pool /\ where["batch"] = Chain(Bufs(batch)) /\ where["tx"] = Chain(tx_buf)
  /\ where["nic"] = nic /\ where["pending"] = Held(pending) /\ where["app"] = Held(app)
  /\ where["request"] = IF state = "W_ACK" THEN Chain(request) ELSE {}
  /\ where["reply"] = Chain(reply) /\ where["lost"] = lost
  BY Zenon DEF where, Place, Names

(* The places after a step.                                                *)
LEMMA NewHomes ==
  ASSUME NEW W, Partition(W),
         pool' = W["pool"], Chain(Bufs(batch')) = W["batch"], Chain(tx_buf') = W["tx"],
         nic' = W["nic"], Held(pending') = W["pending"], Held(app') = W["app"],
         (IF state' = "W_ACK" THEN Chain(request') ELSE {}) = W["request"],
         Chain(reply') = W["reply"], lost' = W["lost"]
  PROVE  Partition(where)'
<1>1. \A x \in Names : Place(x)' = W[x]
  BY Zenon DEF Place, Names
<1>2. where' = W
  BY <1>1, Zenon DEF where, Partition
<1> QED BY <1>2, Zenon DEF Partition

-----------------------------------------------------------------------------
(* What the places hold. *)

(* eth_in takes the first mbuf of the batch.                               *)
LEMMA TakenBatch ==
  ASSUME Shape, NEW b, NEW f, Taken(b, f)
  PROVE  /\ b \in Chain(Bufs(batch)) /\ b \in Mbuf
         /\ Chain(Bufs(batch')) = Chain(Bufs(batch)) \ {b}
         /\ IsChain(Bufs(batch'), Mbuf) /\ Len(batch') <= BATCH_SIZE
         /\ batch' \in Seq([buf : Mbuf, frame : Frames]) /\ polling' = TRUE
         /\ UNCHANGED <<abort, frames, reqs>>
<1> DEFINE B == Bufs(batch)
<1>1. /\ batch # <<>> /\ Head(batch).buf = b /\ batch' = Tail(batch)
      /\ polling' = TRUE /\ UNCHANGED <<abort, frames, reqs>> /\ polling
  BY DEF Shape, PollShape, Taken, In, bounds
<1>2. /\ Len(batch) \in Nat \ {0} /\ DOMAIN batch = 1 .. Len(batch)
      /\ Tail(batch) \in Seq([buf : Mbuf, frame : Frames]) /\ Len(Tail(batch)) = Len(batch) - 1
      /\ DOMAIN Tail(batch) = 1 .. Len(batch) - 1 /\ Head(batch) = batch[1]
      /\ \A k \in 1 .. Len(batch) - 1 : Tail(batch)[k] = batch[k + 1]
  BY <1>1 DEF Shape, PollShape
<1>3. IsChain(B, Mbuf) /\ B # <<>> /\ Len(B) = Len(batch)
  <2>1. IsChain(B, Mbuf) /\ DOMAIN B = 1 .. Len(batch)
    BY <1>2, Zenon DEF Shape, PollShape, Bufs
  <2> HIDE DEF B
  <2>2. B \in Seq(Mbuf)
    BY <2>1, Zenon DEF IsChain
  <2> QED BY <1>2, <2>1, <2>2
<1>4. Head(B) = b
  <2>1. 1 \in DOMAIN batch
    BY <1>2
  <2>2. B[1] = b
    BY <1>1, <1>2, <2>1, Zenon DEF Bufs
  <2> HIDE DEF B
  <2> QED BY <1>3, <2>2 DEF IsChain
<1>5. Bufs(Tail(batch)) = Tail(B)
  <2>1. \A k \in 1 .. Len(batch) - 1 : k + 1 \in DOMAIN batch
    BY <1>2
  <2>2. \A k \in 1 .. Len(batch) - 1 : Bufs(Tail(batch))[k] = B[k + 1]
    BY <1>2, <2>1, Zenon DEF Bufs
  <2>3. DOMAIN Bufs(Tail(batch)) = 1 .. Len(batch) - 1
        /\ Bufs(Tail(batch)) = [k \in 1 .. Len(batch) - 1 |-> Bufs(Tail(batch))[k]]
    BY <1>2, Zenon DEF Bufs
  <2> HIDE DEF B
  <2>4. Tail(B) \in Seq(Mbuf) /\ Len(Tail(B)) = Len(batch) - 1
        /\ \A k \in 1 .. Len(batch) - 1 : Tail(B)[k] = B[k + 1]
    BY <1>2, <1>3 DEF IsChain
  <2>5. Tail(B) = [k \in 1 .. Len(batch) - 1 |-> Tail(B)[k]]
    BY <2>4, SeqIsFcn, Zenon
  <2> QED BY <2>2, <2>3, <2>4, <2>5, Zenon
<1>6. /\ IsChain(Tail(B), Mbuf) /\ b \in Chain(B) /\ Chain(Tail(B)) = Chain(B) \ {b}
  BY <1>3, <1>4, TailChain, Zenon
<1>7. b \in Mbuf
  BY <1>6 DEF Chain, Range, Shape, PollShape, IsChain
<1>8. Len(batch') <= BATCH_SIZE
  BY <1>1, <1>2, NetStackAssumption DEF Shape, PollShape
<1> QED BY <1>1, <1>2, <1>5, <1>6, <1>7, <1>8, Zenon

(* dpdk_eth_send: the mbufs of q join those that wait; some of them all go *)
(* to the driver.                                                          *)
LEMMA SendFacts ==
  ASSUME Shape, NEW q, IsChain(q, Mbuf), Chain(q) \cap Chain(tx_buf) = {}, Send(q)
  PROVE  \E F : /\ F \subseteq Chain(tx_buf) \cup Chain(q)
                /\ nic' = nic \cup F /\ Chain(tx_buf') = (Chain(tx_buf) \cup Chain(q)) \ F
                /\ IsChain(tx_buf', Mbuf) /\ Len(tx_buf') < FlushAt
<1>1. CASE NO_BATCH
  <2>1. nic' = nic \cup Chain(q) /\ tx_buf' = tx_buf
    BY <1>1, Zenon DEF Send
  <2>2. Chain(tx_buf) = (Chain(tx_buf) \cup Chain(q)) \ Chain(q)
    BY Zenon
  <2> QED BY <2>1, <2>2, Zenon DEF Shape, SendShape
<1>2. CASE ~NO_BATCH
  <2>1. PICK all, n : all = tx_buf \o q /\ n = (Len(all) \div FlushAt) * FlushAt
    BY Zenon
  <2>2. nic' = nic \cup Chain(SubSeq(all, 1, n)) /\ tx_buf' = SubSeq(all, n + 1, Len(all))
    BY <1>2, <2>1, Zenon DEF Send
  <2>3. IsChain(all, Mbuf) /\ Chain(all) = Chain(tx_buf) \cup Chain(q)
    <3>1. IsChain(tx_buf, Mbuf)
      BY Zenon DEF Shape, SendShape
    <3>2. IsChain(tx_buf \o q, Mbuf) /\ Chain(tx_buf \o q) = Chain(tx_buf) \cup Chain(q)
      BY <3>1, ConcatChain
    <3> QED BY <2>1, <3>2, Zenon
  <2>4. Len(all) \in Nat
    BY <2>3 DEF IsChain
  <2>5. n \in 0 .. Len(all) /\ Len(all) - n < FlushAt
    BY <2>1, <2>4, Multiples, NetStackAssumption, Zenon
  <2>6. /\ IsChain(tx_buf', Mbuf) /\ Len(tx_buf') = Len(all) - n
        /\ Chain(SubSeq(all, 1, n)) \subseteq Chain(all)
        /\ Chain(tx_buf') = Chain(all) \ Chain(SubSeq(all, 1, n))
    BY <2>2, <2>3, <2>5, CutChain
  <2> QED BY <2>2, <2>3, <2>5, <2>6, Zenon
<1> QED BY <1>1, <1>2, Zenon

(* n new mbufs from the pool.                                              *)
LEMMA AllocFacts ==
  ASSUME NEW n \in Nat, NEW q \in Allocs(n), pool \subseteq Mbuf
  PROVE  IsChain(q, Mbuf) /\ Chain(q) \subseteq pool /\ Len(q) = n
<1>1. q \in [1 .. n -> pool] /\ \A i, j \in 1 .. n : q[i] = q[j] => i = j
  BY Zenon DEF Allocs
<1>2. q \in Seq(Mbuf) /\ Len(q) = n /\ DOMAIN q = 1 .. n
  BY <1>1
<1>3. IsChain(q, Mbuf)
  BY <1>1, <1>2, Zenon DEF IsChain, Distinct
<1>4. Chain(q) \subseteq pool
  BY <1>1, <1>2 DEF Chain, Range
<1> QED BY <1>2, <1>3, <1>4, Zenon

(* A chain joins others.                                                   *)
LEMMA AddChain ==
  ASSUME NEW C, Apart(C), NEW c, Chain(c) \cap Held(C) = {}
  PROVE  Apart(C \cup {c}) /\ Held(C \cup {c}) = Held(C) \cup Chain(c)
<1>1. \A d \in C : Chain(d) \subseteq Held(C)
  BY Zenon DEF Held
<1>2. \A d \in C : Chain(c) \cap Chain(d) = {} /\ Chain(d) \cap Chain(c) = {}
  BY <1>1, Zenon
<1>3. Held(C \cup {c}) = Held(C) \cup Chain(c)
  BY Zenon DEF Held
<1>4. Apart(C \cup {c})
  BY <1>2, Zenon DEF Apart
<1> QED BY <1>3, <1>4, Zenon

(* A chain leaves others.                                                  *)
LEMMA DropChain ==
  ASSUME NEW C, Apart(C), NEW c \in C
  PROVE  /\ Apart(C \ {c}) /\ Chain(c) \subseteq Held(C)
         /\ Held(C \ {c}) = Held(C) \ Chain(c)
<1>1. Chain(c) \subseteq Held(C)
  BY Zenon DEF Held
<1>2. Held(C \ {c}) = Held(C) \ Chain(c)
  BY Zenon DEF Held, Apart
<1>3. Apart(C \ {c})
  BY Zenon DEF Apart
<1> QED BY <1>1, <1>2, <1>3, Zenon

(* In V they have moved.                                                   *)
LEMMA MoveHomes ==
  ASSUME NEW W, Partition(W), NEW x \in Names, NEW y \in Names, x # y, NEW S, S \subseteq W[y]
  PROVE  \E V : Partition(V) /\ Moved(V, W, S, y, x)
<1>1. Partition(To(W, S, y, x))
  BY Moves, Zenon
<1>2. Moved(To(W, S, y, x), W, S, y, x)
  BY Zenon DEF Moved, To
<1> QED BY <1>1, <1>2, Zenon

(* eth_in takes mbuf b, and it goes to place x.                            *)
LEMMA TakenTo ==
  ASSUME Shape, NEW b, NEW f, Taken(b, f), NEW x \in Names, x # "batch",
         NEW W, Partition(W), W["batch"] = Chain(Bufs(batch))
  PROVE  \E V : /\ Partition(V) /\ V[x] = W[x] \cup {b} /\ V["batch"] = Chain(Bufs(batch'))
                /\ \A z \in Names : z # x /\ z # "batch" => V[z] = W[z]
<1>1. b \in Chain(Bufs(batch)) /\ Chain(Bufs(batch')) = Chain(Bufs(batch)) \ {b}
  BY TakenBatch, Zenon
<1>2. "batch" \in Names /\ {b} \subseteq W["batch"]
  BY <1>1, Zenon DEF Names
<1>3. PICK V : Partition(V) /\ Moved(V, W, {b}, "batch", x)
  BY <1>2, MoveHomes, Zenon
<1>4. /\ V["batch"] = Chain(Bufs(batch')) /\ V[x] = W[x] \cup {b}
      /\ \A z \in Names : z # x /\ z # "batch" => V[z] = W[z]
  BY <1>1, <1>3, Zenon DEF Moved
<1> QED BY <1>3, <1>4, Zenon

(* Nothing else has it.                                                    *)
LEMMA TakenHomes ==
  ASSUME IInv, NEW b, NEW f, Taken(b, f)
  PROVE  /\ b \in Mbuf /\ \A z \in Names : z # "batch" => b \notin where[z]
         /\ PollShape' /\ AbortShape' /\ UNCHANGED <<frames, reqs>>
         /\ Shape /\ Partition(where)
<1>1. /\ b \in Chain(Bufs(batch)) /\ b \in Mbuf
      /\ IsChain(Bufs(batch'), Mbuf) /\ Len(batch') <= BATCH_SIZE
      /\ batch' \in Seq([buf : Mbuf, frame : Frames]) /\ polling' = TRUE
      /\ UNCHANGED <<abort, frames, reqs>>
  BY TakenBatch, Zenon DEF IInv
<1>2. PollShape'
  BY <1>1, Zenon DEF PollShape
<1>3. AbortShape'
  BY <1>1, Zenon DEF AbortShape, Shape, IInv
<1>4. where["batch"] = Chain(Bufs(batch)) /\ "batch" \in Names
  BY WhereFacts, Zenon DEF Names
<1>5. \A z \in Names : z # "batch" => b \notin where[z]
  BY <1>1, <1>4, PlacesApart, Zenon DEF IInv
<1> QED BY <1>1, <1>2, <1>3, <1>5, Zenon DEF IInv

(* dpdk_eth_send takes the mbufs of q.                                     *)
LEMMA SendHomes ==
  ASSUME Shape, NEW W, Partition(W), NEW q, IsChain(q, Mbuf), Chain(q) \cap Chain(tx_buf) = {},
         W["tx"] = Chain(tx_buf) \cup Chain(q), W["nic"] = nic, Send(q)
  PROVE  /\ \E V : /\ Partition(V) /\ V["tx"] = Chain(tx_buf') /\ V["nic"] = nic'
                   /\ \A z \in Names : z # "tx" /\ z # "nic" => V[z] = W[z]
         /\ SendShape'
<1>1. PICK F : /\ F \subseteq Chain(tx_buf) \cup Chain(q)
               /\ nic' = nic \cup F /\ Chain(tx_buf') = (Chain(tx_buf) \cup Chain(q)) \ F
               /\ IsChain(tx_buf', Mbuf) /\ Len(tx_buf') < FlushAt
  BY SendFacts, Zenon
<1>2. "tx" \in Names /\ "nic" \in Names /\ "tx" # "nic" /\ F \subseteq W["tx"]
  BY <1>1, Zenon DEF Names
<1>3. PICK V : Partition(V) /\ Moved(V, W, F, "tx", "nic")
  BY <1>2, MoveHomes, Zenon
<1>4. /\ V["tx"] = Chain(tx_buf') /\ V["nic"] = nic'
      /\ \A z \in Names : z # "tx" /\ z # "nic" => V[z] = W[z]
  BY <1>1, <1>3, Zenon DEF Moved
<1> QED BY <1>1, <1>3, <1>4, Zenon DEF SendShape

-----------------------------------------------------------------------------
(* The steps. *)

(* Outside eth_in.                                                         *)
LEMMA PollKept ==
  ASSUME PollShape, AbortShape, UNCHANGED <<polling, batch, abort>>
  PROVE  PollShape' /\ AbortShape'
<1>1. polling' = polling /\ batch' = batch /\ abort' = abort
  BY Zenon
<1>2. PollShape'
  BY <1>1 DEF PollShape
<1>3. AbortShape'
  BY <1>1, Zenon DEF AbortShape
<1> QED BY <1>2, <1>3, Zenon

(* No mbuf is anywhere but in the pool at the start.                       *)
LEMMA InitHomes == Init => IInv
<1> SUFFICES ASSUME Init
             PROVE  IInv
  BY Zenon
<1>1. Bufs(<<>>) = <<>> /\ Held({}) = {}
  BY DEF Bufs, Held
<1>2. IsChain(<<>>, Mbuf) /\ Chain(<<>>) = {}
  BY DEF IsChain, Distinct, Chain, Range
<1>3. Shape
  <2>1. /\ batch \in Seq([buf : Mbuf, frame : Frames]) /\ Len(batch) <= BATCH_SIZE
        /\ Len(tx_buf) < FlushAt
    BY NetStackAssumption DEF Init
  <2> QED BY <1>1, <1>2, <2>1, Zenon
             DEF Init, Shape, PollShape, SendShape, ServerShape, PairShape, AbortShape, Apart
<1>4. Partition(where)
  <2>1. /\ where["pool"] = Mbuf /\ \A x \in Names \ {"pool"} : where[x] = {}
    BY <1>1, <1>2, WhereFacts, Zenon DEF Init, Names
  <2>2. where = [x \in Names |-> where[x]] /\ "pool" \in Names
    BY Zenon DEF where, Names
  <2> QED BY <2>1, <2>2, Zenon DEF Partition
<1> QED BY <1>3, <1>4, Zenon DEF IInv

(* An assert moves nothing.                                                *)
LEMMA AbortHomes ==
  ASSUME IInv, NEW what \in {"alloc", "mac", "igmp", "state"}, Abort(what)
  PROVE  IInv'
<1>1. UNCHANGED <<pool, polling, batch, tx_buf, nic, pending, app, state, request, reply, lost>>
  BY Zenon DEF Abort, sending, server, pair
<1>2. abort' \in {"no", "alloc", "mac", "igmp", "state"}
  BY Zenon DEF Abort
<1>3. Partition(where)'
  BY <1>1, WhereFacts, NewHomes, Zenon DEF IInv
<1>4. PollShape' /\ SendShape' /\ ServerShape' /\ PairShape'
  BY <1>1, Zenon DEF IInv, Shape, PollShape, SendShape, ServerShape, PairShape
<1> QED BY <1>2, <1>3, <1>4, Zenon DEF IInv, Shape, AbortShape

(* A step that leaves everything where it is.                              *)
LEMMA StutterHomes ==
  ASSUME IInv, UNCHANGED vars
  PROVE  IInv'
<1>1. UNCHANGED <<pool, polling, batch, tx_buf, nic, pending, app, state, request, reply, lost,
                  abort>>
  BY Zenon DEF vars, sending, server, pair
<1>3. Partition(where)'
  BY <1>1, WhereFacts, NewHomes, Zenon DEF IInv
<1>4. PollShape' /\ SendShape' /\ ServerShape' /\ PairShape' /\ AbortShape'
  BY <1>1, Zenon DEF IInv, Shape, PollShape, SendShape, ServerShape, PairShape, AbortShape
<1> QED BY <1>3, <1>4, Zenon DEF IInv, Shape

(* rte_eth_rx_burst fills mbufs of the pool.                               *)
LEMMA RxBurstHomes ==
  ASSUME IInv, RxBurst
  PROVE  IInv'
<1>0. PICK n \in 0 .. BATCH_SIZE : \E q \in Allocs(n), f \in [1 .. n -> Frames] :
        /\ pool' = pool \ Chain(q)
        /\ batch' = [k \in 1 .. n |-> [buf |-> q[k], frame |-> f[k]]]
  BY Zenon DEF RxBurst
<1>1. PICK q \in Allocs(n), f \in [1 .. n -> Frames] :
        /\ pool' = pool \ Chain(q)
        /\ batch' = [k \in 1 .. n |-> [buf |-> q[k], frame |-> f[k]]]
  BY <1>0, Zenon
<1>2. /\ polling' = TRUE /\ batch = <<>>
      /\ UNCHANGED <<tx_buf, nic, pending, app, state, request, reply, lost, abort>>
  BY Zenon DEF RxBurst, sending, server, pair, IInv, Shape, PollShape
<1>3. n \in Nat /\ n <= BATCH_SIZE
  BY NetStackAssumption
<1>4. "pool" \in Names /\ "batch" \in Names /\ where["pool"] = pool /\ Partition(where)
  BY WhereFacts, Zenon DEF Names, IInv
<1>5. pool \subseteq Mbuf
  BY <1>4, Zenon DEF Partition
<1>6. IsChain(q, Mbuf) /\ Chain(q) \subseteq pool /\ Len(q) = n
  BY <1>3, <1>5, AllocFacts, Zenon
<1>7. q \in Seq(Mbuf) /\ q \in [1 .. n -> Mbuf]
  BY <1>6 DEF IsChain
<1>8. batch' \in Seq([buf : Mbuf, frame : Frames]) /\ Len(batch') = n /\ DOMAIN batch' = 1 .. n
  BY <1>1, <1>3, <1>7
<1>9. Bufs(batch') = q
  <2>1. Bufs(batch') = [k \in 1 .. n |-> q[k]]
    BY <1>1, <1>8, Zenon DEF Bufs
  <2> QED BY <1>7, <2>1, Zenon
<1>10. PollShape'
  BY <1>2, <1>3, <1>6, <1>8, <1>9, Zenon DEF PollShape
<1>11. SendShape' /\ ServerShape' /\ PairShape' /\ AbortShape'
  BY <1>2, Zenon DEF IInv, Shape, SendShape, ServerShape, PairShape, AbortShape
<1>12. Bufs(<<>>) = <<>> /\ Chain(<<>>) = {}
  BY DEF Bufs, Chain, Range
<1>13. PICK V : Partition(V) /\ Moved(V, where, Chain(q), "pool", "batch")
  BY <1>4, <1>6, MoveHomes, Zenon
<1>14. V["batch"] = Chain(q)
  BY <1>2, <1>12, <1>13, WhereFacts DEF Moved
<1>15. Partition(where)'
  BY <1>1, <1>2, <1>9, <1>13, <1>14, WhereFacts, NewHomes, Zenon DEF Moved, Names
<1> QED BY <1>10, <1>11, <1>15, Zenon DEF IInv, Shape

(* dpdk_flush.                                                             *)
LEMMA EndPollHomes ==
  ASSUME IInv, EndPoll
  PROVE  IInv'
<1>1. /\ nic' = nic \cup Chain(tx_buf) /\ tx_buf' = <<>> /\ polling' = FALSE /\ batch = <<>>
      /\ UNCHANGED <<pool, batch, pending, app, state, request, reply, lost, abort>>
  BY Zenon DEF EndPoll, server, pair
<1>2. IsChain(<<>>, Mbuf) /\ Chain(<<>>) = {} /\ Len(<<>>) = 0
  BY DEF IsChain, Distinct, Chain, Range
<1>3. SendShape'
  BY <1>1, <1>2, NetStackAssumption DEF SendShape
<1>4. PollShape' /\ ServerShape' /\ PairShape' /\ AbortShape'
  BY <1>1, Zenon DEF IInv, Shape, PollShape, ServerShape, PairShape, AbortShape
<1>5. /\ "tx" \in Names /\ "nic" \in Names /\ Partition(where)
      /\ Chain(tx_buf) \subseteq where["tx"]
  BY WhereFacts, Zenon DEF Names, IInv
<1>6. PICK V : Partition(V) /\ Moved(V, where, Chain(tx_buf), "tx", "nic")
  BY <1>5, MoveHomes, Zenon
<1>7. V["tx"] = Chain(tx_buf')
  BY <1>1, <1>2, <1>6, WhereFacts, Zenon DEF Moved
<1>8. Partition(where)'
  BY <1>1, <1>6, <1>7, WhereFacts, NewHomes, Zenon DEF Moved, Names
<1> QED BY <1>3, <1>4, <1>8, Zenon DEF IInv, Shape

(* The driver frees what it has sent.                                      *)
LEMMA TxDoneHomes ==
  ASSUME IInv, NEW b, TxDone(b)
  PROVE  IInv'
<1>1. /\ b \in nic /\ nic' = nic \ {b} /\ pool' = pool \cup {b}
      /\ UNCHANGED <<polling, batch, tx_buf, pending, app, state, request, reply, lost, abort>>
  BY Zenon DEF TxDone, server, pair
<1>2. PollShape' /\ SendShape' /\ ServerShape' /\ PairShape' /\ AbortShape'
  BY <1>1, Zenon DEF IInv, Shape, PollShape, SendShape, ServerShape, PairShape, AbortShape
<1>3. /\ "pool" \in Names /\ "nic" \in Names /\ Partition(where) /\ {b} \subseteq where["nic"]
  BY <1>1, WhereFacts, Zenon DEF Names, IInv
<1>4. PICK V : Partition(V) /\ Moved(V, where, {b}, "nic", "pool")
  BY <1>3, MoveHomes, Zenon
<1>5. Partition(where)'
  BY <1>1, <1>4, WhereFacts, NewHomes, Zenon DEF Moved, Names
<1> QED BY <1>2, <1>5, Zenon DEF IInv, Shape

(* Refuse and ResponseUnmatched: mbuf b is freed.                          *)
LEMMA FreedHomes ==
  ASSUME IInv, NEW b, NEW f, Taken(b, f), pool' = pool \cup {b}, UNCHANGED <<sending, server, pair>>
  PROVE  IInv'
<1>1. UNCHANGED <<tx_buf, nic, pending, app, state, request, reply, lost>>
  BY Zenon DEF sending, server, pair
<1>2. "pool" \in Names /\ "pool" # "batch"
  BY Zenon DEF Names
<1>t. b \in Mbuf /\ (\A z \in Names : z # "batch" => b \notin where[z])
      /\ PollShape' /\ AbortShape' /\ Shape /\ Partition(where)
  BY TakenHomes, Zenon
<1>3. \E V : /\ Partition(V) /\ V["pool"] = where["pool"] \cup {b}
             /\ V["batch"] = Chain(Bufs(batch'))
             /\ \A z \in Names : z # "pool" /\ z # "batch" => V[z] = where[z]
  BY <1>2, <1>t, TakenTo, WhereFacts
<1>4. SendShape' /\ ServerShape' /\ PairShape'
  BY <1>1, Zenon DEF IInv, Shape, SendShape, ServerShape, PairShape
<1>5. Partition(where)'
  BY <1>1, <1>3, WhereFacts, NewHomes, Zenon DEF Names
<1> QED BY <1>t, <1>4, <1>5, Zenon DEF IInv, Shape

(* Ignore: mbuf b is lost.                                                 *)
LEMMA IgnoreHomes ==
  ASSUME IInv, NEW b, Ignore(b)
  PROVE  IInv'
<1>1. PICK f : Taken(b, f) /\ lost' = lost \cup {b}
               /\ UNCHANGED <<pool, sending, server, state, request, reply>>
  BY Zenon DEF Ignore
<1>2. UNCHANGED <<pool, tx_buf, nic, pending, app, state, request, reply>>
  BY <1>1, Zenon DEF sending, server
<1>3. "lost" \in Names /\ "lost" # "batch"
  BY Zenon DEF Names
<1>t. b \in Mbuf /\ (\A z \in Names : z # "batch" => b \notin where[z])
      /\ PollShape' /\ AbortShape' /\ Shape /\ Partition(where)
  BY <1>1, TakenHomes, Zenon
<1>4. \E V : /\ Partition(V) /\ V["lost"] = where["lost"] \cup {b}
             /\ V["batch"] = Chain(Bufs(batch'))
             /\ \A z \in Names : z # "lost" /\ z # "batch" => V[z] = where[z]
  BY <1>1, <1>3, <1>t, TakenTo, WhereFacts
<1>5. SendShape' /\ ServerShape' /\ PairShape'
  BY <1>2, Zenon DEF IInv, Shape, SendShape, ServerShape, PairShape
<1>6. Partition(where)'
  BY <1>1, <1>2, <1>4, WhereFacts, NewHomes, Zenon DEF Names
<1> QED BY <1>t, <1>5, <1>6, Zenon DEF IInv, Shape

(* AnswerInPlace: mbuf b is sent.                                          *)
LEMMA AnswerHomes ==
  ASSUME IInv, NEW b, AnswerInPlace(b)
  PROVE  IInv'
<1>1. PICK f : Taken(b, f) /\ Send(<<b>>) /\ UNCHANGED <<pool, server, pair>>
  BY Zenon DEF AnswerInPlace
<1>2. UNCHANGED <<pool, pending, app, state, request, reply, lost>>
  BY <1>1, Zenon DEF server, pair
<1>3. "tx" \in Names /\ "tx" # "batch"
  BY Zenon DEF Names
<1>t. b \in Mbuf /\ (\A z \in Names : z # "batch" => b \notin where[z])
      /\ PollShape' /\ AbortShape' /\ Shape /\ Partition(where)
  BY <1>1, TakenHomes, Zenon
<1>4. \E V : /\ Partition(V) /\ V["tx"] = where["tx"] \cup {b}
             /\ V["batch"] = Chain(Bufs(batch'))
             /\ \A z \in Names : z # "tx" /\ z # "batch" => V[z] = where[z]
  BY <1>1, <1>3, <1>t, TakenTo, WhereFacts
<1>5. IsChain(<<b>>, Mbuf) /\ Chain(<<b>>) = {b} /\ {b} \cap Chain(tx_buf) = {}
  BY <1>3, <1>t, SmallChains, WhereFacts, Zenon
<1>6. PICK W : /\ Partition(W) /\ W["tx"] = Chain(tx_buf) \cup Chain(<<b>>)
               /\ W["batch"] = Chain(Bufs(batch')) /\ W["nic"] = nic
               /\ \A z \in Names : z # "tx" /\ z # "batch" => W[z] = where[z]
  BY <1>4, <1>5, WhereFacts, Zenon DEF Names
<1>7. Shape
  BY Zenon DEF IInv
<1>8. /\ \E V : /\ Partition(V) /\ V["tx"] = Chain(tx_buf') /\ V["nic"] = nic'
                /\ \A z \in Names : z # "tx" /\ z # "nic" => V[z] = W[z]
      /\ SendShape'
  BY <1>1, <1>5, <1>6, <1>7, SendHomes, Zenon
<1>9. ServerShape' /\ PairShape'
  BY <1>2, Zenon DEF IInv, Shape, ServerShape, PairShape
<1>10. Partition(where)'
  BY <1>2, <1>6, <1>8, WhereFacts, NewHomes, Zenon DEF Names
<1> QED BY <1>t, <1>8, <1>9, <1>10, Zenon DEF IInv, Shape

(* n new mbufs are sent.                                                   *)
LEMMA AllocSend ==
  ASSUME IInv, NEW n \in Nat, NEW q \in Allocs(n), Send(q)
  PROVE  /\ \E V : /\ Partition(V) /\ V["pool"] = pool \ Chain(q)
                   /\ V["tx"] = Chain(tx_buf') /\ V["nic"] = nic'
                   /\ \A z \in Names : z \notin {"pool", "tx", "nic"} => V[z] = where[z]
         /\ SendShape' /\ Chain(q) \subseteq pool
<1>1. /\ "pool" \in Names /\ "tx" \in Names /\ "nic" \in Names
      /\ where["pool"] = pool /\ Partition(where) /\ Shape /\ where["tx"] = Chain(tx_buf)
  BY WhereFacts, Zenon DEF Names, IInv
<1>2. pool \subseteq Mbuf /\ pool \cap Chain(tx_buf) = {}
  BY <1>1, PlacesApart, Zenon
<1>3. IsChain(q, Mbuf) /\ Chain(q) \subseteq pool
  BY <1>2, AllocFacts, Zenon
<1>4. PICK W : Partition(W) /\ Moved(W, where, Chain(q), "pool", "tx")
  BY <1>1, <1>3, MoveHomes, Zenon
<1>5. W["tx"] = Chain(tx_buf) \cup Chain(q) /\ W["nic"] = nic /\ Chain(q) \cap Chain(tx_buf) = {}
  BY <1>1, <1>2, <1>3, <1>4, WhereFacts, Zenon DEF Moved
<1>6. /\ \E V : /\ Partition(V) /\ V["tx"] = Chain(tx_buf') /\ V["nic"] = nic'
                /\ \A z \in Names : z # "tx" /\ z # "nic" => V[z] = W[z]
      /\ SendShape'
  BY <1>1, <1>3, <1>4, <1>5, SendHomes, Zenon
<1> QED BY <1>1, <1>3, <1>4, <1>6, Zenon DEF Moved

(* IgmpQuery and RequestDropped: new mbufs are sent and b is freed.        *)
LEMMA AnsweredHomes ==
  ASSUME IInv, NEW b, NEW f, Taken(b, f), NEW n \in Nat, NEW q \in Allocs(n), Send(q),
         pool' = (pool \ Chain(q)) \cup {b}, UNCHANGED <<server, pair>>
  PROVE  IInv'
<1>1. UNCHANGED <<pending, app, state, request, reply, lost>>
  BY Zenon DEF server, pair
<1>2. "pool" \in Names /\ "pool" # "batch"
  BY Zenon DEF Names
<1>t. PollShape' /\ AbortShape' /\ Shape /\ Partition(where)
  BY TakenHomes, Zenon
<1>3. SendShape'
  BY AllocSend, Zenon
<1>4. PICK W : /\ Partition(W) /\ W["pool"] = pool \ Chain(q)
               /\ W["tx"] = Chain(tx_buf') /\ W["nic"] = nic'
               /\ \A z \in Names : z \notin {"pool", "tx", "nic"} => W[z] = where[z]
  BY AllocSend, Zenon
<1>5. W["batch"] = Chain(Bufs(batch))
  BY <1>4, WhereFacts, Zenon DEF Names
<1>6. PICK V : /\ Partition(V) /\ V["pool"] = W["pool"] \cup {b} /\ V["batch"] = Chain(Bufs(batch'))
               /\ \A z \in Names : z # "pool" /\ z # "batch" => V[z] = W[z]
  BY <1>2, <1>4, <1>5, <1>t, TakenTo, SMTT(30)
<1>7. ServerShape' /\ PairShape'
  BY <1>1, Zenon DEF IInv, Shape, ServerShape, PairShape
<1>8. Partition(where)'
  BY <1>1, <1>4, <1>6, WhereFacts, NewHomes DEF Names
<1> QED BY <1>3, <1>7, <1>8, <1>t, Zenon DEF IInv, Shape

(* A request of one packet is the application's.                           *)
LEMMA RequestSingleHomes ==
  ASSUME IInv, NEW b, RequestSingle(b)
  PROVE  IInv'
<1>1. /\ Taken(b, "request") /\ app' = app \cup {<<b>>}
      /\ UNCHANGED <<pool, tx_buf, nic, pending, state, request, reply, lost>>
  BY Zenon DEF RequestSingle, sending, pair
<1>2. "app" \in Names /\ "app" # "batch"
  BY Zenon DEF Names
<1>t. b \in Mbuf /\ (\A z \in Names : z # "batch" => b \notin where[z])
      /\ PollShape' /\ AbortShape' /\ Shape /\ Partition(where)
  BY <1>1, TakenHomes, Zenon
<1>3. PICK V : /\ Partition(V) /\ V["app"] = where["app"] \cup {b}
               /\ V["batch"] = Chain(Bufs(batch'))
               /\ \A z \in Names : z # "app" /\ z # "batch" => V[z] = where[z]
  BY <1>1, <1>2, <1>t, TakenTo, WhereFacts
<1>4. IsChain(<<b>>, Mbuf) /\ Chain(<<b>>) = {b}
  BY <1>t, SmallChains, Zenon
<1>5. Chain(<<b>>) \cap Held(app) = {} /\ Apart(app)
  BY <1>2, <1>4, <1>t, WhereFacts, Zenon DEF Shape, ServerShape
<1>6. Apart(app') /\ Held(app') = Held(app) \cup {b}
  BY <1>1, <1>4, <1>5, AddChain, Zenon
<1>7. ServerShape'
  BY <1>1, <1>4, <1>6, <1>t, Zenon DEF Shape, ServerShape
<1>8. SendShape' /\ PairShape'
  BY <1>1, <1>t, Zenon DEF Shape, SendShape, PairShape
<1>9. Partition(where)'
  BY <1>1, <1>3, <1>6, WhereFacts, NewHomes, Zenon DEF Names
<1> QED BY <1>7, <1>8, <1>9, <1>t, Zenon DEF IInv, Shape

(* The first packet of a request waits, and an ACK is sent.                *)
LEMMA RequestFirstHomes ==
  ASSUME IInv, NEW b, NEW q \in Allocs(1), Taken(b, "request_first"),
         pending' = pending \cup {<<b>>}, pool' = pool \ Chain(q), Send(q), UNCHANGED <<app, pair>>
  PROVE  IInv'
<1>1. UNCHANGED <<app, state, request, reply, lost>>
  BY Zenon DEF pair
<1>2. "pending" \in Names /\ "pending" # "batch"
  BY Zenon DEF Names
<1>t. b \in Mbuf /\ (\A z \in Names : z # "batch" => b \notin where[z])
      /\ PollShape' /\ AbortShape' /\ Shape /\ Partition(where)
  BY TakenHomes, Zenon
<1>3. SendShape'
  BY AllocSend, Zenon
<1>4. PICK W : /\ Partition(W) /\ W["pool"] = pool \ Chain(q)
               /\ W["tx"] = Chain(tx_buf') /\ W["nic"] = nic'
               /\ \A z \in Names : z \notin {"pool", "tx", "nic"} => W[z] = where[z]
  BY AllocSend, Zenon
<1>5. W["batch"] = Chain(Bufs(batch))
  BY <1>4, WhereFacts, Zenon DEF Names
<1>6. PICK V : /\ Partition(V) /\ V["pending"] = W["pending"] \cup {b}
               /\ V["batch"] = Chain(Bufs(batch'))
               /\ \A z \in Names : z # "pending" /\ z # "batch" => V[z] = W[z]
  BY <1>2, <1>4, <1>5, <1>t, TakenTo, SMTT(30)
<1>7. IsChain(<<b>>, Mbuf) /\ Chain(<<b>>) = {b}
  BY <1>t, SmallChains, Zenon
<1>8. Chain(<<b>>) \cap Held(pending) = {} /\ Apart(pending)
  BY <1>2, <1>7, <1>t, WhereFacts, Zenon DEF Shape, ServerShape
<1>9. Apart(pending') /\ Held(pending') = Held(pending) \cup {b}
  BY <1>7, <1>8, AddChain, Zenon
<1>10. ServerShape'
  BY <1>1, <1>7, <1>9, <1>t, Zenon DEF Shape, ServerShape
<1>11. PairShape'
  BY <1>1, <1>t, Zenon DEF Shape, PairShape
<1>12. Partition(where)'
  BY <1>1, <1>4, <1>6, <1>9, WhereFacts, NewHomes DEF Names
<1> QED BY <1>3, <1>10, <1>11, <1>12, <1>t, Zenon DEF IInv, Shape

(* A later packet of a request.                                            *)
LEMMA RequestRestHomes ==
  ASSUME IInv, NEW b, RequestRest(b)
  PROVE  IInv'
<1>1. /\ Taken(b, "request_rest")
      /\ UNCHANGED <<tx_buf, nic, state, request, reply, lost>> /\ UNCHANGED <<sending, pair>>
  BY Zenon DEF RequestRest, sending, pair
<1>t. b \in Mbuf /\ (\A z \in Names : z # "batch" => b \notin where[z])
      /\ PollShape' /\ AbortShape' /\ Shape /\ Partition(where)
  BY <1>1, TakenHomes, Zenon
<1>n. "pool" \in Names /\ "pending" \in Names /\ "app" \in Names
  BY Zenon DEF Names
<1>2. SendShape' /\ PairShape'
  BY <1>1, <1>t, Zenon DEF Shape, SendShape, PairShape
<1>3. CASE pool' = pool \cup {b} /\ UNCHANGED server
  BY <1>1, <1>3, FreedHomes, Zenon
<1>4. ASSUME NEW c \in pending, pending' = pending \ {c},
             pool' = pool \cup {b} \cup Chain(c), app' = app
      PROVE  IInv'
  <2>1. /\ Apart(pending') /\ Chain(c) \subseteq Held(pending)
        /\ Held(pending') = Held(pending) \ Chain(c)
    BY <1>4, <1>t, DropChain, Zenon DEF Shape, ServerShape
  <2>2. ServerShape'
    BY <1>4, <1>t, <2>1, Zenon DEF Shape, ServerShape
  <2>3. PICK W : /\ Partition(W) /\ W["pool"] = where["pool"] \cup {b}
                 /\ W["batch"] = Chain(Bufs(batch'))
                 /\ \A z \in Names : z # "pool" /\ z # "batch" => W[z] = where[z]
    BY <1>1, <1>n, <1>t, TakenTo, WhereFacts, SMTT(30)
  <2>4. Chain(c) \subseteq W["pending"]
    BY <1>n, <2>1, <2>3, WhereFacts, Zenon
  <2>5. PICK V : Partition(V) /\ Moved(V, W, Chain(c), "pending", "pool")
    BY <1>n, <2>3, <2>4, MoveHomes, Zenon
  <2>6. Partition(where)'
    <3>1. V["pending"] = Held(pending') /\ V["pool"] = pool'
      BY <1>n, <1>4, <2>1, <2>3, <2>5, WhereFacts, Zenon DEF Moved
    <3>2. /\ V["batch"] = Chain(Bufs(batch'))
          /\ \A z \in Names : z \notin {"pending", "pool", "batch"} => V[z] = where[z]
      BY <2>3, <2>5, Zenon DEF Moved, Names
    <3>3. /\ V["app"] = where["app"] /\ V["tx"] = where["tx"] /\ V["nic"] = where["nic"]
          /\ V["request"] = where["request"] /\ V["reply"] = where["reply"]
          /\ V["lost"] = where["lost"]
      BY <3>2, Zenon DEF Names
    <3> QED BY <1>1, <1>4, <2>5, <3>1, <3>2, <3>3, WhereFacts, NewHomes, Zenon
  <2> QED BY <1>2, <1>t, <2>2, <2>6, Zenon DEF IInv, Shape
<1>5. ASSUME NEW c \in pending,
             \/ pending' = (pending \ {c}) \cup {Append(c, b)} /\ UNCHANGED <<pool, app>>
             \/ pending' = pending \ {c} /\ app' = app \cup {Append(c, b)} /\ UNCHANGED pool
      PROVE  IInv'
  <2>1. /\ Apart(pending \ {c}) /\ Chain(c) \subseteq Held(pending)
        /\ Held(pending \ {c}) = Held(pending) \ Chain(c)
    BY <1>t, DropChain, Zenon DEF Shape, ServerShape
  <2>2. b \notin Held(pending) /\ b \notin Held(app) /\ Held(pending) \cap Held(app) = {}
    BY <1>n, <1>t, PlacesApart, WhereFacts, Zenon
  <2>3. IsChain(c, Mbuf)
    BY <1>t, Zenon DEF Shape, ServerShape
  <2>4. IsChain(Append(c, b), Mbuf) /\ Chain(Append(c, b)) = Chain(c) \cup {b}
    BY <1>t, <2>1, <2>2, <2>3, AppendChain
  <2>5. CASE pending' = (pending \ {c}) \cup {Append(c, b)} /\ UNCHANGED <<pool, app>>
    <3>1. Chain(Append(c, b)) \cap Held(pending \ {c}) = {}
      BY <2>1, <2>2, <2>4, Zenon
    <3>2. Apart(pending') /\ Held(pending') = Held(pending) \cup {b}
      <4>1. Apart(pending') /\ Held(pending') = Held(pending \ {c}) \cup Chain(Append(c, b))
        BY <2>1, <2>5, <3>1, AddChain, Zenon
      <4> QED BY <2>1, <2>4, <4>1, Zenon
    <3>3. ServerShape'
      BY <1>t, <2>4, <2>5, <3>2, Zenon DEF Shape, ServerShape
    <3>4. PICK V : /\ Partition(V) /\ V["pending"] = where["pending"] \cup {b}
                   /\ V["batch"] = Chain(Bufs(batch'))
                   /\ \A z \in Names : z # "pending" /\ z # "batch" => V[z] = where[z]
      BY <1>1, <1>n, <1>t, TakenTo, WhereFacts
    <3>5. Partition(where)'
      BY <1>1, <2>5, <3>2, <3>4, WhereFacts, NewHomes, Zenon DEF Names
    <3> QED BY <1>2, <1>t, <3>3, <3>5, Zenon DEF IInv, Shape
  <2>6. CASE pending' = pending \ {c} /\ app' = app \cup {Append(c, b)} /\ UNCHANGED pool
    <3>1. Chain(Append(c, b)) \cap Held(app) = {} /\ Apart(app)
      BY <1>t, <2>1, <2>2, <2>4, Zenon DEF Shape, ServerShape
    <3>2. Apart(app') /\ Held(app') = Held(app) \cup {b} \cup Chain(c)
      <4>1. Apart(app') /\ Held(app') = Held(app) \cup Chain(Append(c, b))
        BY <2>6, <3>1, AddChain, Zenon
      <4> QED BY <2>4, <4>1, Zenon
    <3>3. ServerShape'
      BY <1>t, <2>1, <2>4, <2>6, <3>2, Zenon DEF Shape, ServerShape
    <3>4. PICK W : /\ Partition(W) /\ W["app"] = where["app"] \cup {b}
                   /\ W["batch"] = Chain(Bufs(batch'))
                   /\ \A z \in Names : z # "app" /\ z # "batch" => W[z] = where[z]
      BY <1>1, <1>n, <1>t, TakenTo, WhereFacts, SMTT(30)
    <3>5. Chain(c) \subseteq W["pending"]
      BY <1>n, <2>1, <3>4, WhereFacts, Zenon
    <3>6. PICK V : Partition(V) /\ Moved(V, W, Chain(c), "pending", "app")
      BY <1>n, <3>4, <3>5, MoveHomes, Zenon
    <3>7. Partition(where)'
      <4>1. V["pending"] = Held(pending') /\ V["app"] = Held(app')
        BY <1>n, <2>1, <2>6, <3>2, <3>4, <3>6, WhereFacts, Zenon DEF Moved
      <4>2. /\ V["batch"] = Chain(Bufs(batch'))
            /\ \A z \in Names : z \notin {"pending", "app", "batch"} => V[z] = where[z]
        BY <3>4, <3>6, Zenon DEF Moved, Names
      <4>3. /\ V["pool"] = where["pool"] /\ V["tx"] = where["tx"] /\ V["nic"] = where["nic"]
            /\ V["request"] = where["request"] /\ V["reply"] = where["reply"]
            /\ V["lost"] = where["lost"]
        BY <4>2, Zenon DEF Names
      <4> QED BY <1>1, <2>6, <3>6, <4>1, <4>2, <4>3, WhereFacts, NewHomes, Zenon
    <3> QED BY <1>2, <1>t, <3>3, <3>7, Zenon DEF IInv, Shape
  <2> QED BY <1>5, <2>5, <2>6, Zenon
<1> QED BY <1>3, <1>4, <1>5, Zenon DEF RequestRest

(* The application answers: its request is freed, the reply sent.          *)
LEMMA SendResponseHomes ==
  ASSUME IInv, NEW c \in app, NEW n \in Nat, NEW q \in Allocs(n), Send(q), app' = app \ {c},
         pool' = (pool \ Chain(q)) \cup Chain(c),
         UNCHANGED <<polling, batch, pending, pair, abort, bounds>>
  PROVE  IInv'
<1>1. UNCHANGED <<polling, batch, pending, state, request, reply, lost, abort>> /\ Shape
  BY Zenon DEF pair, IInv
<1>2. SendShape'
  BY AllocSend, Zenon
<1>3. PICK W : /\ Partition(W) /\ W["pool"] = pool \ Chain(q)
               /\ W["tx"] = Chain(tx_buf') /\ W["nic"] = nic'
               /\ \A z \in Names : z \notin {"pool", "tx", "nic"} => W[z] = where[z]
  BY AllocSend, Zenon
<1>4. Apart(app') /\ Chain(c) \subseteq Held(app) /\ Held(app') = Held(app) \ Chain(c)
  BY <1>1, DropChain, Zenon DEF Shape, ServerShape
<1>5. "app" \in Names /\ "pool" \in Names /\ Chain(c) \subseteq W["app"]
  BY <1>3, <1>4, WhereFacts, Zenon DEF Names
<1>6. PICK V : Partition(V) /\ Moved(V, W, Chain(c), "app", "pool")
  BY <1>3, <1>5, MoveHomes, Zenon
<1>7. ServerShape'
  BY <1>1, <1>4, Zenon DEF Shape, ServerShape
<1>8. PollShape' /\ PairShape' /\ AbortShape'
  <2>1. PollShape' /\ AbortShape'
    BY <1>1, PollKept, Zenon DEF Shape
  <2>2. PairShape'
    BY <1>1, Zenon DEF Shape, PairShape
  <2> QED BY <2>1, <2>2, Zenon
<1>9. Partition(where)'
  <2>1. /\ V["app"] = Held(app') /\ V["pool"] = pool'
        /\ V["tx"] = Chain(tx_buf') /\ V["nic"] = nic'
    BY <1>3, <1>4, <1>6, WhereFacts, Zenon DEF Moved, Names
  <2>2. \A z \in Names : z \notin {"app", "pool", "tx", "nic"} => V[z] = where[z]
    BY <1>3, <1>6, Zenon DEF Moved
  <2>3. /\ V["batch"] = where["batch"] /\ V["pending"] = where["pending"]
        /\ V["request"] = where["request"] /\ V["reply"] = where["reply"]
        /\ V["lost"] = where["lost"]
    BY <2>2, Zenon DEF Names
  <2> QED BY <1>1, <1>6, <2>1, <2>2, <2>3, WhereFacts, NewHomes, Zenon
<1> QED BY <1>2, <1>7, <1>8, <1>9, Zenon DEF IInv, Shape

(* A request is sent: its first packet by the driver, the rest waits.      *)
LEMMA SendReqHomes ==
  ASSUME IInv, SendReq, NEW q \in Allocs(ReqPkts), pool' = pool \ Chain(q), Send(<<Head(q)>>),
         request' = Tail(q), reply' = <<>>, state = "none",
         state' = IF ReqPkts = 1 THEN "W_RESPONSE" ELSE "W_ACK",
         UNCHANGED <<polling, batch, server, abort, lost, frames>>
  PROVE  IInv'
<1>1. UNCHANGED <<polling, batch, pending, app, abort, lost>> /\ Shape /\ Partition(where)
  BY Zenon DEF server, IInv
<1>n. "pool" \in Names /\ "tx" \in Names /\ "nic" \in Names /\ "request" \in Names
  BY Zenon DEF Names
<1>2. pool \subseteq Mbuf /\ pool \cap Chain(tx_buf) = {}
  BY <1>1, <1>n, PlacesApart, WhereFacts, Zenon
<1>3. IsChain(q, Mbuf) /\ Chain(q) \subseteq pool /\ Len(q) = ReqPkts /\ ReqPkts \in Nat \ {0}
  BY <1>2, AllocFacts, NetStackAssumption, Zenon
<1>4. q # <<>>
  BY <1>3, Zenon
<1>5. /\ IsChain(Tail(q), Mbuf) /\ Head(q) \in Chain(q) /\ Chain(Tail(q)) = Chain(q) \ {Head(q)}
  BY <1>3, <1>4, TailChain, Zenon
<1>6. ReqPkts = 1 => Chain(Tail(q)) = {}
  BY <1>3 DEF IsChain, Chain, Range
<1>7. IsChain(<<>>, Mbuf) /\ Chain(<<>>) = {}
  BY DEF IsChain, Distinct, Chain, Range
<1>8. PICK h : h = Head(q)
  BY Zenon
<1>9. h \in pool /\ h \in Mbuf /\ h \notin Chain(tx_buf)
  BY <1>2, <1>3, <1>5, <1>8, Zenon
<1>10. IsChain(<<h>>, Mbuf) /\ Chain(<<h>>) = {h}
  BY <1>9, SmallChains, Zenon
<1>11. PICK U : Partition(U) /\ Moved(U, where, {h}, "pool", "tx")
  BY <1>1, <1>9, <1>n, MoveHomes, WhereFacts, Zenon
<1>12. Chain(Tail(q)) \subseteq U["pool"] /\ U["tx"] = Chain(tx_buf) \cup {h} /\ U["nic"] = nic
  BY <1>3, <1>5, <1>8, <1>11, <1>n, WhereFacts, Zenon DEF Moved
<1>13. PICK W : Partition(W) /\ Moved(W, U, Chain(Tail(q)), "pool", "request")
  BY <1>11, <1>12, <1>n, MoveHomes, Zenon
<1>14. W["tx"] = Chain(tx_buf) \cup Chain(<<h>>) /\ W["nic"] = nic
  BY <1>10, <1>12, <1>13, <1>n, Zenon DEF Moved
<1>15. Send(<<h>>) /\ Chain(<<h>>) \cap Chain(tx_buf) = {}
  BY <1>8, <1>9, <1>10, Zenon
<1>16. /\ \E V : /\ Partition(V) /\ V["tx"] = Chain(tx_buf') /\ V["nic"] = nic'
                 /\ \A z \in Names : z # "tx" /\ z # "nic" => V[z] = W[z]
       /\ SendShape'
  BY <1>1, <1>10, <1>13, <1>14, <1>15, SendHomes, Zenon
<1>17. W["pool"] = pool' /\ W["request"] = Chain(Tail(q))
  <2>1. U["pool"] = pool \ {h} /\ U["request"] = {}
    BY <1>11, <1>n, WhereFacts, Zenon DEF Moved
  <2>2. W["pool"] = U["pool"] \ Chain(Tail(q)) /\ W["request"] = U["request"] \cup Chain(Tail(q))
    BY <1>13, Zenon DEF Moved
  <2> QED BY <1>5, <1>8, <2>1, <2>2, Zenon
<1>18. (IF state' = "W_ACK" THEN Chain(request') ELSE {}) = Chain(Tail(q))
  BY <1>6, Zenon
<1>19. Chain(reply') = {} /\ Chain(reply) = {}
  BY <1>1, <1>7, Zenon DEF Shape, PairShape
<1>20. \A z \in {"batch", "pending", "app", "reply", "lost"} : W[z] = where[z]
  BY <1>11, <1>13, Zenon DEF Moved, Names
<1>21. Partition(where)'
  BY <1>1, <1>16, <1>17, <1>18, <1>19, <1>20, <1>n, WhereFacts, NewHomes, ZenonT(60) DEF Names
<1>22. PairShape'
  BY <1>5, <1>7, Zenon DEF PairShape
<1>23. PollShape' /\ AbortShape'
  BY <1>1, PollKept, Zenon DEF Shape
<1>24. ServerShape'
  BY <1>1, Zenon DEF Shape, ServerShape
<1> QED BY <1>16, <1>21, <1>22, <1>23, <1>24, Zenon DEF IInv, Shape

(* The ACK: the rest of the request is sent.                               *)
LEMMA RecvAckHomes ==
  ASSUME IInv, NEW b, RecvAck(b)
  PROVE  IInv'
<1>1. /\ Taken(b, "ack") /\ state = "W_ACK" /\ state' = "W_RESPONSE" /\ pool' = pool \cup {b}
      /\ Send(request) /\ UNCHANGED <<pending, app, request, reply, lost>>
  BY Zenon DEF RecvAck, server
<1>t. PollShape' /\ AbortShape' /\ Shape /\ Partition(where)
  BY <1>1, TakenHomes, Zenon
<1>n. "pool" \in Names /\ "tx" \in Names /\ "nic" \in Names /\ "request" \in Names
  BY Zenon DEF Names
<1>2. where["request"] = Chain(request) /\ IsChain(request, Mbuf)
  BY <1>1, <1>t, WhereFacts, Zenon DEF Shape, PairShape
<1>3. Chain(request) \cap Chain(tx_buf) = {}
  BY <1>2, <1>n, <1>t, PlacesApart, WhereFacts, Zenon
<1>4. PICK U : /\ Partition(U) /\ U["pool"] = where["pool"] \cup {b}
               /\ U["batch"] = Chain(Bufs(batch'))
               /\ \A z \in Names : z # "pool" /\ z # "batch" => U[z] = where[z]
  BY <1>1, <1>n, <1>t, TakenTo, WhereFacts, SMTT(30)
<1>5. U["request"] = Chain(request) /\ U["tx"] = Chain(tx_buf) /\ U["nic"] = nic
  BY <1>2, <1>4, <1>n, WhereFacts, Zenon
<1>6. PICK W : Partition(W) /\ Moved(W, U, Chain(request), "request", "tx")
  BY <1>4, <1>5, <1>n, MoveHomes, Zenon
<1>7. W["tx"] = Chain(tx_buf) \cup Chain(request) /\ W["nic"] = nic /\ W["request"] = {}
  BY <1>5, <1>6, <1>n, Zenon DEF Moved
<1>8. /\ \E V : /\ Partition(V) /\ V["tx"] = Chain(tx_buf') /\ V["nic"] = nic'
                /\ \A z \in Names : z # "tx" /\ z # "nic" => V[z] = W[z]
      /\ SendShape'
  BY <1>1, <1>2, <1>3, <1>6, <1>7, <1>t, SendHomes, Zenon
<1>9. /\ W["pool"] = pool' /\ W["batch"] = Chain(Bufs(batch'))
      /\ \A z \in {"pending", "app", "reply", "lost"} : W[z] = where[z]
  BY <1>1, <1>4, <1>6, WhereFacts, Zenon DEF Moved, Names
<1>10. Partition(where)'
  BY <1>1, <1>7, <1>8, <1>9, WhereFacts, NewHomes, Zenon DEF Names
<1>11. PairShape'
  BY <1>1, <1>t, Zenon DEF Shape, PairShape
<1>12. ServerShape'
  BY <1>1, <1>t, Zenon DEF Shape, ServerShape
<1> QED BY <1>8, <1>10, <1>11, <1>12, <1>t, Zenon DEF IInv, Shape

(* A packet of the reply is kept.                                          *)
LEMMA RecvPartHomes ==
  ASSUME IInv, NEW b, RecvPart(b)
  PROVE  IInv'
<1>1. /\ Taken(b, "reply_part") /\ state = "W_RESPONSE" /\ reply' = Append(reply, b)
      /\ UNCHANGED <<pool, tx_buf, nic, pending, app, state, request, lost>>
  BY Zenon DEF RecvPart, sending, server
<1>t. b \in Mbuf /\ (\A z \in Names : z # "batch" => b \notin where[z])
      /\ PollShape' /\ AbortShape' /\ Shape /\ Partition(where)
  BY <1>1, TakenHomes, Zenon
<1>n. "reply" \in Names /\ "reply" # "batch"
  BY Zenon DEF Names
<1>2. PICK V : /\ Partition(V) /\ V["reply"] = where["reply"] \cup {b}
               /\ V["batch"] = Chain(Bufs(batch'))
               /\ \A z \in Names : z # "reply" /\ z # "batch" => V[z] = where[z]
  BY <1>1, <1>n, <1>t, TakenTo, WhereFacts, SMTT(30)
<1>3. IsChain(reply, Mbuf) /\ b \notin Chain(reply)
  BY <1>n, <1>t, WhereFacts, Zenon DEF Shape, PairShape
<1>4. IsChain(reply', Mbuf) /\ Chain(reply') = Chain(reply) \cup {b}
  BY <1>1, <1>3, <1>t, AppendChain, SMTT(30)
<1>5. PairShape'
  BY <1>1, <1>4, <1>t, Zenon DEF Shape, PairShape
<1>6. SendShape' /\ ServerShape'
  BY <1>1, <1>t, Zenon DEF Shape, SendShape, ServerShape
<1>7. Partition(where)'
  BY <1>1, <1>2, <1>4, WhereFacts, NewHomes, Zenon DEF Names
<1> QED BY <1>5, <1>6, <1>7, <1>t, Zenon DEF IInv, Shape

(* free_client_pair: the reply returns to the pool, what the ACK has not   *)
(* released of the request is lost.  W is where the mbufs were before.     *)
LEMMA FreePairHomes ==
  ASSUME Shape, NEW also, FreePair(also), NEW W, Partition(W),
         W["pool"] = pool \cup also, W["batch"] = Chain(Bufs(batch')),
         \A z \in Names : z # "pool" /\ z # "batch" => W[z] = where[z],
         UNCHANGED <<sending, server>>
  PROVE  Partition(where)' /\ PairShape' /\ SendShape' /\ ServerShape'
<1>1. /\ pool' = pool \cup Chain(reply) \cup also
      /\ lost' = (IF state = "W_ACK" THEN lost \cup Chain(request) ELSE lost)
      /\ state' = "none" /\ request' = <<>> /\ reply' = <<>>
      /\ UNCHANGED <<tx_buf, nic, pending, app>>
  BY Zenon DEF FreePair, sending, server
<1>n. "pool" \in Names /\ "reply" \in Names /\ "request" \in Names /\ "lost" \in Names
  BY Zenon DEF Names
<1>2. IsChain(<<>>, Mbuf) /\ Chain(<<>>) = {}
  BY DEF IsChain, Distinct, Chain, Range
<1>3. PICK R : R = IF state = "W_ACK" THEN Chain(request) ELSE {}
  BY Zenon
<1>4. W["reply"] = Chain(reply) /\ W["request"] = R /\ W["lost"] = lost
  BY <1>3, <1>n, WhereFacts, Zenon
<1>5. PICK U : Partition(U) /\ Moved(U, W, Chain(reply), "reply", "pool")
  BY <1>4, <1>n, MoveHomes, Zenon
<1>6. R \subseteq U["request"]
  BY <1>4, <1>5, <1>n, Zenon DEF Moved
<1>7. PICK V : Partition(V) /\ Moved(V, U, R, "request", "lost")
  BY <1>5, <1>6, <1>n, MoveHomes, Zenon
<1>8. /\ V["pool"] = pool' /\ V["reply"] = {} /\ V["request"] = {}
      /\ V["lost"] = lost \cup R /\ V["batch"] = Chain(Bufs(batch'))
      /\ \A z \in {"tx", "nic", "pending", "app"} : V[z] = where[z]
  <2>1. /\ U["pool"] = pool' /\ U["reply"] = {} /\ U["request"] = R
        /\ U["lost"] = lost /\ U["batch"] = Chain(Bufs(batch'))
        /\ \A z \in {"tx", "nic", "pending", "app"} : U[z] = where[z]
    BY <1>1, <1>4, <1>5, Zenon DEF Moved, Names
  <2> QED BY <1>7, <2>1, Zenon DEF Moved, Names
<1>9. lost' = lost \cup R
  BY <1>1, <1>3, Zenon
<1>10. Partition(where)'
  BY <1>1, <1>2, <1>7, <1>8, <1>9, WhereFacts, NewHomes, Zenon
<1>11. PairShape'
  BY <1>1, <1>2, Zenon DEF PairShape
<1>12. SendShape'
  BY <1>1, Zenon DEF Shape, SendShape
<1>13. ServerShape'
  BY <1>1, Zenon DEF Shape, ServerShape
<1> QED BY <1>10, <1>11, <1>12, <1>13, Zenon

(* RecvLast and RecvDrop: the pair and the packet are freed.               *)
LEMMA ConcludedHomes ==
  ASSUME IInv, NEW b, NEW f, Taken(b, f), FreePair({b}), UNCHANGED <<sending, server>>
  PROVE  IInv'
<1>t. PollShape' /\ AbortShape' /\ Shape /\ Partition(where)
  BY TakenHomes, Zenon
<1>n. "pool" \in Names /\ "pool" # "batch"
  BY Zenon DEF Names
<1>1. PICK W : /\ Partition(W) /\ W["pool"] = where["pool"] \cup {b}
               /\ W["batch"] = Chain(Bufs(batch'))
               /\ \A z \in Names : z # "pool" /\ z # "batch" => W[z] = where[z]
  BY <1>n, <1>t, TakenTo, WhereFacts
<1>2. W["pool"] = pool \cup {b}
  BY <1>1, WhereFacts, Zenon
<1>3. Partition(where)' /\ PairShape' /\ SendShape' /\ ServerShape'
  BY <1>1, <1>2, <1>t, FreePairHomes, Zenon
<1> QED BY <1>3, <1>t, Zenon DEF IInv, Shape

(* The timer of the pair fires.                                            *)
LEMMA TimeoutHomes ==
  ASSUME IInv, Timeout
  PROVE  IInv'
<1>1. FreePair({}) /\ UNCHANGED <<polling, batch, abort>> /\ UNCHANGED <<sending, server>>
  BY Zenon DEF Timeout
<1>2. Shape /\ Partition(where)
  BY Zenon DEF IInv
<1>3. where["pool"] = pool \cup {} /\ where["batch"] = Chain(Bufs(batch'))
  BY <1>1, WhereFacts, Zenon
<1>4. Partition(where)' /\ PairShape' /\ SendShape' /\ ServerShape'
  BY <1>1, <1>2, <1>3, FreePairHomes, Zenon
<1>5. PollShape' /\ AbortShape'
  BY <1>1, <1>2, PollKept, Zenon DEF Shape
<1> QED BY <1>4, <1>5, Zenon DEF IInv, Shape

(* Every step.                                                             *)
LEMMA NextHomes ==
  ASSUME IInv, [Next]_vars
  PROVE  IInv'
<1>1. CASE UNCHANGED vars
  BY <1>1, StutterHomes, Zenon
<1>2. CASE RxBurst
  BY <1>2, RxBurstHomes, Zenon
<1>3. CASE EndPoll
  BY <1>3, EndPollHomes, Zenon
<1>4. CASE SendReq
  <2>1. CASE \E q \in Allocs(ReqPkts) :
               /\ pool' = pool \ Chain(q) /\ Send(<<Head(q)>>)
               /\ request' = Tail(q) /\ reply' = <<>>
               /\ state' = IF ReqPkts = 1 THEN "W_RESPONSE" ELSE "W_ACK"
               /\ UNCHANGED <<polling, batch, server, abort, lost, frames>>
    <3>1. state = "none"
      BY <1>4, Zenon DEF SendReq
    <3> QED BY <1>4, <2>1, <3>1, SendReqHomes, Zenon
  <2>2. CASE NoMbuf(ReqPkts)
    BY <2>2, AbortHomes, Zenon DEF NoMbuf
  <2> QED BY <1>4, <2>1, <2>2, Zenon DEF SendReq
<1>5. CASE Timeout
  BY <1>5, TimeoutHomes, Zenon
<1>6. ASSUME NEW b \in Mbuf, TxDone(b) PROVE IInv'
  BY <1>6, TxDoneHomes, Zenon
<1>7. ASSUME NEW b \in Mbuf, EthIn(b) PROVE IInv'
  <2>1. CASE Refuse(b) \/ ResponseUnmatched(b)
    BY <2>1, FreedHomes, Zenon DEF Refuse, ResponseUnmatched
  <2>2. CASE Ignore(b)
    BY <2>2, IgnoreHomes, Zenon
  <2>3. CASE AnswerInPlace(b)
    BY <2>3, AnswerHomes, Zenon
  <2>4. CASE UnknownMac(b) \/ IgmpAssert(b) \/ StateAssert(b)
    BY <2>4, AbortHomes, Zenon DEF UnknownMac, IgmpAssert, StateAssert
  <2>5. CASE IgmpQuery(b)
    <3>1. Groups \in Nat
      BY NetStackAssumption, Zenon
    <3> QED BY <2>5, <3>1, AnsweredHomes, AbortHomes, Zenon DEF IgmpQuery, NoMbuf
  <2>6. CASE RequestSingle(b)
    BY <2>6, RequestSingleHomes, Zenon
  <2>7. CASE RequestDropped(b)
    <3>1. 1 \in Nat
      BY Zenon
    <3> QED BY <2>7, <3>1, AnsweredHomes, AbortHomes, Zenon DEF RequestDropped, NoMbuf
  <2>8. CASE RequestFirst(b)
    BY <2>8, RequestFirstHomes, AbortHomes, Zenon DEF RequestFirst, NoMbuf
  <2>9. CASE RequestRest(b)
    BY <2>9, RequestRestHomes, Zenon
  <2>10. CASE RecvAck(b)
    BY <2>10, RecvAckHomes, Zenon
  <2>11. CASE RecvPart(b)
    BY <2>11, RecvPartHomes, Zenon
  <2>12. CASE RecvLast(b) \/ RecvDrop(b)
    BY <2>12, ConcludedHomes, Zenon DEF RecvLast, RecvDrop
  <2> QED BY <1>7, <2>1, <2>2, <2>3, <2>4, <2>5, <2>6, <2>7, <2>8, <2>9, <2>10, <2>11, <2>12, Zenon
          DEF EthIn, UdpIn
<1>8. ASSUME NEW c \in app, SendResponse(c) PROVE IInv'
  <2>1. PICK n : n = IF Feedback THEN RespPkts + 1 ELSE RespPkts
    BY Zenon
  <2>2. n \in Nat
    BY <2>1, NetStackAssumption
  <2>3. \/ \E q \in Allocs(n) :
             /\ Send(q) /\ app' = app \ {c} /\ pool' = (pool \ Chain(q)) \cup Chain(c)
             /\ UNCHANGED <<polling, batch, pending, pair, abort, bounds>>
        \/ NoMbuf(n)
    BY <1>8, <2>1, Zenon DEF SendResponse
  <2> QED BY <2>2, <2>3, SendResponseHomes, AbortHomes, Zenon DEF NoMbuf
<1> QED BY <1>1, <1>2, <1>3, <1>4, <1>5, <1>6, <1>7, <1>8, Zenon DEF Next

(* In every reachable state each mbuf has one home, and occurs in it once. *)
THEOREM Inductive == Spec => []IInv
<1>1. Init => IInv
  BY InitHomes, Zenon
<1>2. IInv /\ [Next]_vars => IInv'
  BY NextHomes, Zenon
<1> QED BY <1>1, <1>2, PTL DEF Spec

-----------------------------------------------------------------------------
(* From homes to counts. *)

(* An mbuf is in one chain, if it is in any.                               *)
LEMMA HeldOnce ==
  ASSUME NEW C, Apart(C), NEW b
  PROVE  Cardinality({c \in C : b \in Chain(c)}) = IF b \in Held(C) THEN 1 ELSE 0
<1>1. CASE b \in Held(C)
  <2>1. PICK c \in C : b \in Chain(c)
    BY <1>1, Zenon DEF Held
  <2>2. {d \in C : b \in Chain(d)} = {c}
    BY <2>1, Zenon DEF Apart
  <2> QED BY <1>1, <2>2, FS_Singleton, Zenon
<1>2. CASE b \notin Held(C)
  <2>1. {c \in C : b \in Chain(c)} = {}
    BY <1>2, Zenon DEF Held
  <2> QED BY <1>2, <2>1, FS_EmptySet, Zenon
<1> QED BY <1>1, <1>2, Zenon

(* The places of an mbuf, counted.                                         *)
LEMMA Counted ==
  ASSUME IInv, NEW b \in Mbuf
  PROVE  Places(b) = IF b \in lost THEN 0 ELSE 1
<1>1. PICK x \in Names : b \in where[x] /\ \A y \in Names \ {x} : b \notin where[y]
  BY Zenon DEF IInv, Partition
<1> DEFINE One(y) == IF b \in where[y] THEN 1 ELSE 0
<1>2. Cardinality({k \in 1 .. Len(batch) : batch[k].buf = b}) = One("batch")
  <2> DEFINE B == Bufs(batch)
  <2>1. DOMAIN batch = 1 .. Len(batch)
    BY DEF IInv, Shape, PollShape
  <2>2. /\ IsChain(B, Mbuf) /\ DOMAIN B = 1 .. Len(batch)
        /\ \A k \in 1 .. Len(batch) : B[k] = batch[k].buf
    BY <2>1, Zenon DEF IInv, Shape, PollShape, Bufs
  <2>3. where["batch"] = Chain(B)
    BY WhereFacts, Zenon
  <2> HIDE DEF B
  <2>4. Len(B) = Len(batch)
    <3>1. B \in Seq(Mbuf) /\ Len(batch) \in Nat
      BY <2>2 DEF IsChain, IInv, Shape, PollShape
    <3> QED BY <2>2, <3>1
  <2>5. {k \in 1 .. Len(batch) : batch[k].buf = b} = {k \in 1 .. Len(B) : B[k] = b}
    BY <2>2, <2>4, Zenon
  <2>6. Cardinality({k \in 1 .. Len(B) : B[k] = b}) = IF b \in Chain(B) THEN 1 ELSE 0
    BY <2>2, OccursOnce, Zenon
  <2> QED BY <2>3, <2>5, <2>6, Zenon
<1>3. Cardinality({k \in 1 .. Len(tx_buf) : tx_buf[k] = b}) = One("tx")
  BY OccursOnce, WhereFacts, ZenonT(60) DEF IInv, Shape, SendShape
<1>4. Cardinality({k \in 1 .. Len(reply) : reply[k] = b}) = One("reply")
  <2>1. IsChain(reply, Mbuf) /\ where["reply"] = Chain(reply)
    BY WhereFacts, Zenon DEF IInv, Shape, PairShape
  <2> QED BY <2>1, OccursOnce, Zenon
<1>5. Cardinality({c \in pending : b \in Chain(c)}) = One("pending")
  BY HeldOnce, WhereFacts, Zenon DEF IInv, Shape, ServerShape
<1>6. Cardinality({c \in app : b \in Chain(c)}) = One("app")
  BY HeldOnce, WhereFacts, Zenon DEF IInv, Shape, ServerShape
<1>7. (IF state = "W_ACK" /\ b \in Chain(request) THEN 1 ELSE 0) = One("request")
  BY WhereFacts, Zenon
<1>8. (IF b \in pool THEN 1 ELSE 0) = One("pool") /\ (IF b \in nic THEN 1 ELSE 0) = One("nic")
  BY WhereFacts, Zenon
<1>9. \A y \in Names : One(y) = IF y = x THEN 1 ELSE 0
  BY <1>1, Zenon
<1>10. b \in lost <=> x = "lost"
  BY <1>1, WhereFacts, Zenon DEF Names
<1> HIDE DEF One
<1>11. Places(b) = One("pool") + One("batch") + One("tx") + One("nic") + One("pending")
                   + One("app") + One("request") + One("reply")
  BY <1>2, <1>3, <1>4, <1>5, <1>6, <1>7, <1>8, Zenon DEF Places
<1> QED BY <1>9, <1>10, <1>11 DEF Names

(* The batch and tx_buf keep within their sizes, whatever is sent.         *)
THEOREM Typed == Spec => []TypeOK
<1>1. IInv => TypeOK
  <2> SUFFICES ASSUME IInv
               PROVE  TypeOK
    BY Zenon
  <2>1. where["pool"] = pool /\ where["nic"] = nic /\ "pool" \in Names /\ "nic" \in Names
    BY WhereFacts, Zenon DEF Names
  <2>2. pool \subseteq Mbuf /\ nic \subseteq Mbuf
    BY <2>1, Zenon DEF IInv, Partition
  <2> QED BY <2>2, Zenon DEF IInv, Shape, PollShape, SendShape, PairShape, AbortShape, TypeOK
<1> QED BY <1>1, Inductive, PTL

(* No mbuf is freed or sent while something else still has it.             *)
THEOREM OwnedOnce == Spec => []OneOwner
<1>1. IInv => OneOwner
  <2> SUFFICES ASSUME IInv, NEW b \in Mbuf
               PROVE  Places(b) <= 1
    BY Zenon DEF OneOwner
  <2> QED BY Counted
<1> QED BY <1>1, Inductive, PTL

(* No mbuf is lost but those the code is known to lose.                    *)
THEOREM KnownLeaks == Spec => []NoOtherLeak
<1>1. IInv => NoOtherLeak
  <2> SUFFICES ASSUME IInv, NEW b \in Mbuf
               PROVE  Places(b) = 0 <=> b \in lost
    BY Zenon DEF NoOtherLeak
  <2> QED BY Counted
<1> QED BY <1>1, Inductive, PTL
=============================================================================
