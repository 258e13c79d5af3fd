--------------------------- MODULE Mempool_proofs ---------------------------
(* Proofs, for a pool of any size, of the invariants of Mempool.           *)
EXTENDS Mempool, FiniteSetTheorems, TLAPS

(* The pool has Size objects, none of them Nil.                            *)
LEMMA ObjsFinite == IsFiniteSet(Objs) /\ Cardinality(Objs) = Size /\ Nil \notin Objs
<1>1. Size \in Nat
  BY SizeAssumption
<1>2. IsFiniteSet(0 .. (Size - 1)) /\ Cardinality(0 .. (Size - 1)) = Size
  <2>1. 0 \in Int /\ Size - 1 \in Int
    BY <1>1
  <2>2. /\ IsFiniteSet(0 .. (Size - 1))
        /\ Cardinality(0 .. (Size - 1)) = IF 0 > Size - 1 THEN 0 ELSE (Size - 1) - 0 + 1
    BY <2>1, FS_Interval
  <2> QED
    BY <1>1, <2>2, SizeAssumption
<1> QED
  BY <1>2 DEF Objs, Nil

(* The taken objects are finitely many, at most Size.                      *)
LEMMA TakenFinite ==
  IsFiniteSet(Taken) /\ Cardinality(Taken) \in Nat
<1>1. Taken \subseteq Objs
  BY DEF Taken
<1>2. IsFiniteSet(Taken)
  BY <1>1, ObjsFinite, FS_Subset
<1> QED
  BY <1>2, FS_CardinalityType

(* What Without, the list after a removal, holds.                          *)
LEMMA WithoutEntries ==
  ASSUME NEW S, NEW q \in Seq(S), NEW k \in 1 .. Len(q)
  PROVE  /\ Without(q, k) \in Seq(S)
         /\ Len(Without(q, k)) = Len(q) - 1
         /\ \A j \in 1 .. Len(q) - 1 :
              Without(q, k)[j] = IF j < k THEN q[j] ELSE q[j + 1]
<1> DEFINE a == SubSeq(q, 1, k - 1)
           b == SubSeq(q, k + 1, Len(q))
<1>1. a \in Seq(S) /\ Len(a) = k - 1 /\ \A j \in 1 .. k - 1 : a[j] = q[j]
  OBVIOUS
<1>2. b \in Seq(S) /\ Len(b) = Len(q) - k /\ \A j \in 1 .. Len(q) - k : b[j] = q[k + j]
  OBVIOUS
<1>3. Without(q, k) = a \o b
  BY DEF Without
<1> HIDE DEF a, b
<1>4. /\ a \o b \in Seq(S) /\ Len(a \o b) = Len(q) - 1
      /\ \A j \in 1 .. Len(q) - 1 :
           (a \o b)[j] = IF j <= Len(a) THEN a[j] ELSE b[j - Len(a)]
  <2>1. a \in Seq(S) /\ b \in Seq(S) /\ Len(a) + Len(b) = Len(q) - 1
    <3>1. Len(q) \in Nat
      OBVIOUS
    <3> QED
      BY <1>1, <1>2, <3>1
  <2>2. /\ a \o b \in Seq(S) /\ Len(a \o b) = Len(a) + Len(b)
        /\ \A j \in 1 .. Len(a) + Len(b) :
             (a \o b)[j] = IF j <= Len(a) THEN a[j] ELSE b[j - Len(a)]
    BY <2>1
  <2> QED
    BY <2>1, <2>2
<1>5. ASSUME NEW j \in 1 .. Len(q) - 1
      PROVE  (a \o b)[j] = IF j < k THEN q[j] ELSE q[j + 1]
  <2>1. CASE j < k
    BY <1>1, <1>4, <2>1
  <2>2. CASE ~(j < k)
    <3>1. (a \o b)[j] = b[j - (k - 1)]
      BY <1>1, <1>4, <2>2
    <3>2. j - (k - 1) \in 1 .. Len(q) - k /\ k + (j - (k - 1)) = j + 1
      BY <2>2
    <3> QED
      BY <1>2, <2>2, <3>1, <3>2
  <2> QED
    BY <2>1, <2>2
<1> QED
  BY <1>3, <1>4, <1>5

(* The new pool is empty.                                                  *)
LEMMA InitIInv == Init => IInv
<1> SUFFICES ASSUME Init PROVE IInv
  OBVIOUS
<1>1. TypeOK
  <2>1. 0 \in Objs
    BY SizeAssumption DEF Objs
  <2>2. PoolOK
    BY <2>1 DEF Init, PoolOK
  <2>3. LinksOK
    BY DEF Init, LinksOK
  <2> QED
    BY <2>2, <2>3 DEF TypeOK
<1>2. Taken = {}
  BY DEF Init, Taken
<1>3. CountExact
  BY <1>2, FS_EmptySet DEF Init, CountExact
<1>4. ListSound /\ LinkedTaken
  BY DEF Init, ListSound, LinkedTaken
<1> QED
  BY <1>1, <1>3, <1>4 DEF IInv

(* TakeObject hands out an object that was not taken.                      *)
LEMMA TakeIInv == IInv /\ TakeObject => IInv'
<1> SUFFICES ASSUME IInv, TakeObject PROVE IInv'
  OBVIOUS
<1> USE DEF IInv
<1>1. idx \in Objs /\ ~taken[idx] /\ taken \in [Objs -> BOOLEAN] /\ count \in Nat
  BY DEF TypeOK, PoolOK, TakeObject
<1>2. TypeOK'
  <2>1. (idx + 1) % Size \in Objs
    <3>1. idx + 1 \in Int /\ Size \in Nat /\ Size > 0
      BY <1>1, SizeAssumption DEF Objs
    <3>2. (idx + 1) % Size \in 0 .. Size - 1
      BY <3>1
    <3> QED
      BY <3>2 DEF Objs
  <2>2. PoolOK'
    <3>1. taken' \in [Objs -> BOOLEAN] /\ allocating' \in BOOLEAN
      BY <1>1, Zenon DEF TakeObject
    <3>2. count' \in Nat /\ idx' \in Objs
      BY <1>1, <2>1 DEF TakeObject
    <3> QED
      BY <3>1, <3>2 DEF PoolOK
  <2>3. LinksOK'
    BY <1>1 DEF TypeOK, LinksOK, TakeObject
  <2> QED
    BY <2>2, <2>3 DEF TypeOK
<1>3. CountExact'
  <2>1. Taken' = Taken \cup {idx} /\ idx \notin Taken
    BY <1>1 DEF Taken, TakeObject
  <2>2. Cardinality(Taken') = Cardinality(Taken) + 1
    BY <2>1, TakenFinite, FS_AddElement
  <2> QED
    BY <2>2, <1>1 DEF CountExact, TakeObject
<1>4. \A k \in 1 .. Len(list) : list[k] # idx /\ list[k] \in Objs
  BY <1>1 DEF LinkedTaken, TypeOK, LinksOK
<1>5. \A k \in 1 .. Len(list) : next'[list[k]] = next[list[k]] /\ prev'[list[k]] = prev[list[k]]
  BY <1>1, <1>4 DEF TakeObject, TypeOK, LinksOK
<1>6. list' = list /\ head' = head /\ tail' = tail /\ Len(list) \in Nat
  BY DEF TakeObject, TypeOK, LinksOK
<1>7. ListSound'
  BY <1>5, <1>6 DEF ListSound
<1>8. LinkedTaken'
  BY <1>1, <1>4, <1>6 DEF LinkedTaken, TakeObject
<1> QED
  BY <1>2, <1>3, <1>7, <1>8

(* FreeObject takes back an object that is not linked.                     *)
LEMMA FreeIInv == ASSUME NEW o \in Objs PROVE IInv /\ FreeObject(o) => IInv'
<1> SUFFICES ASSUME IInv, FreeObject(o) PROVE IInv'
  OBVIOUS
<1> USE DEF IInv
<1>1. taken[o] /\ taken \in [Objs -> BOOLEAN] /\ count \in Nat
  BY DEF TypeOK, PoolOK, FreeObject
<1>3. CountExact' /\ count' \in Nat
  <2>1. Taken' = Taken \ {o} /\ o \in Taken
    BY <1>1 DEF Taken, FreeObject
  <2>2. Cardinality(Taken') = Cardinality(Taken) - 1
    BY <2>1, TakenFinite, FS_RemoveElement
  <2>3. Cardinality(Taken') \in Nat
    BY <2>1, TakenFinite, FS_RemoveElement, FS_CardinalityType
  <2> QED
    BY <2>2, <2>3, <1>1, TakenFinite DEF CountExact, FreeObject
<1>2. TypeOK'
  <2>1. PoolOK'
    BY <1>1, <1>3 DEF TypeOK, PoolOK, FreeObject
  <2>2. LinksOK'
    BY DEF TypeOK, LinksOK, FreeObject
  <2> QED
    BY <2>1, <2>2 DEF TypeOK
<1>4. \A k \in 1 .. Len(list) : list[k] # o /\ list[k] \in Objs
  BY DEF FreeObject, Linked, TypeOK, LinksOK
<1>5. \A k \in 1 .. Len(list) : next'[list[k]] = next[list[k]] /\ prev'[list[k]] = prev[list[k]]
  BY <1>4 DEF FreeObject, TypeOK, LinksOK
<1>6. list' = list /\ head' = head /\ tail' = tail /\ Len(list) \in Nat
  BY DEF FreeObject, TypeOK, LinksOK
<1>7. ListSound'
  BY <1>5, <1>6 DEF ListSound
<1>8. LinkedTaken'
  BY <1>1, <1>4, <1>6 DEF LinkedTaken, FreeObject
<1> QED
  BY <1>2, <1>3, <1>7, <1>8

(* AddToList: the object becomes the tail.                                 *)
LEMMA AddIInv == ASSUME NEW o \in Objs PROVE IInv /\ AddToList(o) => IInv'
<1> SUFFICES ASSUME IInv, AddToList(o) PROVE IInv'
  OBVIOUS
<1> USE DEF IInv
<1> DEFINE n == Len(list)
<1>1. /\ n \in Nat /\ list \in Seq(Objs)
      /\ next \in [Objs -> Objs \cup {Nil}] /\ prev \in [Objs -> Objs \cup {Nil}]
      /\ head \in Objs \cup {Nil} /\ tail \in Objs \cup {Nil}
  BY DEF TypeOK, LinksOK
<1>2. \A k \in 1 .. n : list[k] # o /\ list[k] \in Objs
  BY <1>1 DEF AddToList, Linked
<1>3. /\ list' \in Seq(Objs) /\ Len(list') = n + 1 /\ list'[n + 1] = o
      /\ \A k \in 1 .. n : list'[k] = list[k]
  BY <1>1 DEF AddToList
<1>4. tail = IF n = 0 THEN Nil ELSE list[n]
  BY <1>1 DEF ListSound
<1>5. tail = Nil <=> n = 0
  BY <1>1, <1>2, <1>4, ObjsFinite
<1>6. /\ next'[o] = Nil /\ prev'[o] = tail /\ tail' = o
      /\ head' = IF n = 0 THEN o ELSE head
  BY <1>1, <1>5, <1>2, <1>4 DEF AddToList
<1>7. \A k \in 1 .. n : prev'[list[k]] = prev[list[k]]
  BY <1>1, <1>2 DEF AddToList
<1>8. \A k \in 1 .. n - 1 : next'[list[k]] = next[list[k]]
  <2> SUFFICES ASSUME NEW k \in 1 .. n - 1 PROVE next'[list[k]] = next[list[k]]
    OBVIOUS
  <2>1. list[k] # list[n] /\ list[k] \in Objs /\ list[k] # o /\ tail = list[n]
    BY <1>1, <1>2, <1>4 DEF LinkedTaken
  <2> QED
    BY <1>1, <2>1 DEF AddToList
<1>9. n > 0 => next'[list[n]] = o
  <2> SUFFICES ASSUME n > 0 PROVE next'[list[n]] = o
    OBVIOUS
  <2>1. tail = list[n] /\ list[n] \in Objs /\ list[n] # o /\ tail # Nil
    BY <1>1, <1>2, <1>4, <1>5
  <2> QED
    BY <1>1, <2>1 DEF AddToList
<1>10. TypeOK'
  <2>1. LinksOK'
    BY <1>1, <1>3 DEF AddToList, LinksOK
  <2> QED
    BY <2>1 DEF TypeOK, PoolOK, AddToList, pool
<1>11. CountExact'
  BY DEF CountExact, AddToList, pool, Taken
<1> HIDE DEF n
<1>12. ListSound'
  <2>1. \A k \in 1 .. n - 1 : next[list[k]] = list[k + 1] /\ prev[list[k + 1]] = list[k]
    BY DEF ListSound, n
  <2>2. n > 0 => head = list[1] /\ prev[list[1]] = Nil
    BY DEF ListSound, n
  <2>3. ASSUME NEW k \in 1 .. n PROVE next'[list'[k]] = list'[k + 1] /\ prev'[list'[k + 1]] = list'[k]
    <3>1. CASE k = n
      BY <1>1, <1>3, <1>4, <1>6, <1>9, <3>1
    <3>2. CASE k < n
      <4>1. k \in 1 .. n - 1 /\ k + 1 \in 1 .. n
        BY <1>1, <3>2
      <4> QED
        BY <1>3, <1>7, <1>8, <2>1, <4>1
    <3> QED
      BY <1>1, <3>1, <3>2
  <2>4. head' = list'[1] /\ prev'[list'[1]] = Nil
    <3>1. CASE n = 0
      BY <1>3, <1>4, <1>6, <3>1
    <3>2. CASE n > 0
      BY <1>1, <1>3, <1>6, <1>7, <2>2, <3>2
    <3> QED
      BY <1>1, <3>1, <3>2
  <2>5. tail' = list'[n + 1] /\ next'[list'[n + 1]] = Nil
    BY <1>3, <1>6
  <2> QED
    BY <1>1, <1>3, <2>3, <2>4, <2>5 DEF ListSound
<1>13. LinkedTaken'
  <2>1. taken' = taken /\ taken[o]
    BY DEF AddToList, pool
  <2>2. \A k \in 1 .. n : taken[list[k]]
    BY DEF LinkedTaken, n
  <2>3. \A j, k \in 1 .. n : list[j] = list[k] => j = k
    BY DEF LinkedTaken, n
  <2>4. \A k \in 1 .. n + 1 : k = n + 1 \/ k \in 1 .. n
    BY <1>1
  <2>5. \A k \in 1 .. n + 1 : taken'[list'[k]]
    BY <1>3, <2>1, <2>2, <2>4
  <2>6. \A j, k \in 1 .. n + 1 : list'[j] = list'[k] => j = k
    BY <1>2, <1>3, <2>3, <2>4
  <2> QED
    BY <1>3, <2>5, <2>6 DEF LinkedTaken
<1> QED
  BY <1>10, <1>11, <1>12, <1>13

(* RemoveFromList: the neighbours of the object become neighbours.         *)
LEMMA RemoveIInv ==
  ASSUME NEW k \in 1 .. Len(list) PROVE IInv /\ RemoveFromList(k) => IInv'
<1> SUFFICES ASSUME IInv, RemoveFromList(k) PROVE IInv'
  OBVIOUS
<1> USE DEF IInv
<1> DEFINE n == Len(list)
           o == list[k]
<1>1. /\ n \in Nat /\ list \in Seq(Objs) /\ k \in 1 .. n
      /\ next \in [Objs -> Objs \cup {Nil}] /\ prev \in [Objs -> Objs \cup {Nil}]
      /\ head \in Objs \cup {Nil} /\ tail \in Objs \cup {Nil}
  BY DEF TypeOK, LinksOK
<1>2. o \in Objs /\ \A j \in 1 .. n : list[j] \in Objs /\ list[j] # Nil
  BY <1>1, ObjsFinite
<1>3. \A i, j \in 1 .. n : list[i] = list[j] => i = j
  BY DEF LinkedTaken
<1>4. /\ prev[o] = IF k = 1 THEN Nil ELSE list[k - 1]
      /\ next[o] = IF k = n THEN Nil ELSE list[k + 1]
  <2>2. k > 1 => prev[o] = list[k - 1]
    <3> SUFFICES ASSUME k > 1 PROVE prev[list[k]] = list[k - 1]
      OBVIOUS
    <3>1. k - 1 \in 1 .. n - 1 /\ (k - 1) + 1 = k
      BY <1>1
    <3> QED
      BY <3>1 DEF ListSound
  <2>3. k < n => next[o] = list[k + 1]
    BY <1>1 DEF ListSound
  <2>4. k = n => next[o] = Nil
    BY <1>1 DEF ListSound
  <2>5. k = 1 => prev[o] = Nil
    BY <1>1 DEF ListSound
  <2> QED
    BY <1>1, <2>2, <2>3, <2>4, <2>5
<1>5. /\ head' = IF o = head THEN next[o] ELSE head
      /\ tail' = IF o = tail THEN prev[o] ELSE tail
      /\ next' = IF prev[o] = Nil THEN next ELSE [next EXCEPT ![prev[o]] = next[o]]
      /\ prev' = IF next[o] = Nil THEN prev ELSE [prev EXCEPT ![next[o]] = prev[o]]
  BY DEF RemoveFromList, Unlink
<1>6. /\ list' \in Seq(Objs) /\ Len(list') = n - 1
      /\ \A j \in 1 .. n - 1 : list'[j] = IF j < k THEN list[j] ELSE list[j + 1]
  BY <1>1, WithoutEntries DEF RemoveFromList
<1>7. head = list[1] /\ prev[list[1]] = Nil /\ tail = list[n] /\ next[list[n]] = Nil
  BY <1>1 DEF ListSound
<1>8. \A j \in 1 .. n - 1 : next[list[j]] = list[j + 1] /\ prev[list[j + 1]] = list[j]
  BY DEF ListSound
<1>9. UNCHANGED pool
  BY DEF RemoveFromList
<1>10. \A j \in 1 .. n : taken[list[j]]
  BY DEF LinkedTaken
<1>11. PoolOK /\ CountExact
  BY DEF TypeOK
<1> HIDE DEF n, o, IInv
<1>12. ASSUME NEW j \in 1 .. n
       PROVE  /\ next'[list[j]] = IF j = k - 1 THEN next[o] ELSE next[list[j]]
              /\ prev'[list[j]] = IF j = k + 1 THEN prev[o] ELSE prev[list[j]]
  <2>1. next'[list[j]] = IF j = k - 1 THEN next[o] ELSE next[list[j]]
    <3>1. CASE k = 1
      BY <1>1, <1>4, <1>5, <3>1
    <3>2. CASE k > 1
      <4>1. k - 1 \in 1 .. n /\ prev[o] = list[k - 1] /\ prev[o] # Nil /\ prev[o] \in Objs
        BY <1>1, <1>2, <1>4, <3>2
      <4>2. list[j] = prev[o] <=> j = k - 1
        BY <1>3, <4>1
      <4>3. next' = [next EXCEPT ![prev[o]] = next[o]]
        BY <1>5, <4>1
      <4> QED
        BY <1>1, <1>2, <4>1, <4>2, <4>3
    <3> QED
      BY <1>1, <3>1, <3>2
  <2>2. prev'[list[j]] = IF j = k + 1 THEN prev[o] ELSE prev[list[j]]
    <3>1. CASE k = n
      BY <1>1, <1>4, <1>5, <3>1
    <3>2. CASE k < n
      <4>1. k + 1 \in 1 .. n /\ next[o] = list[k + 1] /\ next[o] # Nil /\ next[o] \in Objs
        BY <1>1, <1>2, <1>4, <3>2
      <4>2. list[j] = next[o] <=> j = k + 1
        BY <1>3, <4>1
      <4>3. prev' = [prev EXCEPT ![next[o]] = prev[o]]
        BY <1>5, <4>1
      <4> QED
        BY <1>1, <1>2, <4>1, <4>2, <4>3
    <3> QED
      BY <1>1, <3>1, <3>2
  <2> QED
    BY <2>1, <2>2
<1>13. TypeOK'
  <2>1. LinksOK'
    BY <1>1, <1>2, <1>5, <1>6 DEF LinksOK
  <2>2. PoolOK'
    BY <1>9, <1>11 DEF PoolOK, pool
  <2> QED
    BY <2>1, <2>2 DEF TypeOK
<1>14. CountExact'
  BY <1>9, <1>11 DEF CountExact, pool, Taken
<1>15. LinkedTaken'
  <2>1. \A j \in 1 .. n - 1 : \E i \in 1 .. n :
          list'[j] = list[i] /\ i = IF j < k THEN j ELSE j + 1
    <3> SUFFICES ASSUME NEW j \in 1 .. n - 1
                 PROVE  \E i \in 1 .. n : list'[j] = list[i] /\ i = IF j < k THEN j ELSE j + 1
      OBVIOUS
    <3>1. CASE j < k
      BY <1>1, <1>6, <3>1
    <3>2. CASE ~(j < k)
      BY <1>1, <1>6, <3>2
    <3> QED
      BY <3>1, <3>2
  <2>2. \A j \in 1 .. n - 1 : taken'[list'[j]]
    BY <1>9, <1>10, <2>1 DEF pool
  <2>3. ASSUME NEW i \in 1 .. n - 1, NEW j \in 1 .. n - 1, list'[i] = list'[j] PROVE i = j
    <3>1. PICK a \in 1 .. n : list'[i] = list[a] /\ a = IF i < k THEN i ELSE i + 1
      BY <2>1
    <3>2. PICK b \in 1 .. n : list'[j] = list[b] /\ b = IF j < k THEN j ELSE j + 1
      BY <2>1
    <3>3. a = b
      BY <1>3, <2>3, <3>1, <3>2
    <3> QED
      BY <1>1, <3>1, <3>2, <3>3
  <2> QED
    BY <1>6, <2>2, <2>3 DEF LinkedTaken
<1>16. ListSound'
  <2>1. ASSUME NEW j \in 1 .. n - 2
        PROVE  next'[list'[j]] = list'[j + 1] /\ prev'[list'[j + 1]] = list'[j]
    <3>1. CASE j + 1 < k
      <4>1. /\ list'[j] = list[j] /\ list'[j + 1] = list[j + 1]
            /\ j \in 1 .. n /\ j + 1 \in 1 .. n /\ j \in 1 .. n - 1
            /\ j # k - 1 /\ j + 1 # k + 1
        BY <1>1, <1>6, <3>1
      <4> QED
        BY <1>8, <1>12, <4>1
    <3>2. CASE j + 1 = k
      <4>1. /\ list'[j] = list[j] /\ list'[j + 1] = list[j + 2]
            /\ j \in 1 .. n /\ j + 2 \in 1 .. n /\ j = k - 1 /\ j + 2 = k + 1 /\ k # 1 /\ k # n
        BY <1>1, <1>6, <3>2
      <4>2. next[o] = list[j + 2] /\ prev[o] = list[j]
        BY <1>4, <4>1
      <4> QED
        BY <1>12, <4>1, <4>2
    <3>3. CASE j + 1 > k
      <4>3. /\ j \in 1 .. n - 1 /\ ~(j < k) /\ ~(j + 1 < k)
            /\ j + 1 \in 1 .. n - 1 /\ (j + 1) + 1 = j + 2
            /\ j + 1 \in 1 .. n /\ j + 2 \in 1 .. n /\ j + 1 # k - 1 /\ j + 2 # k + 1
        BY <1>1, <3>3
      <4>1. /\ list'[j] = list[j + 1] /\ list'[j + 1] = list[j + 2]
            /\ j + 1 \in 1 .. n - 1 /\ (j + 1) + 1 = j + 2
            /\ j + 1 \in 1 .. n /\ j + 2 \in 1 .. n /\ j + 1 # k - 1 /\ j + 2 # k + 1
        BY <1>6, <4>3
      <4>2. next[list[j + 1]] = list[j + 2] /\ prev[list[j + 2]] = list[j + 1]
        BY <1>8, <4>1
      <4> QED
        BY <1>12, <4>1, <4>2
    <3> QED
      BY <1>1, <3>1, <3>2, <3>3
  <2>2. n = 1 => head' = Nil /\ tail' = Nil
    BY <1>1, <1>4, <1>5, <1>7 DEF o
  <2>3. n > 1 => head' = list'[1] /\ prev'[list'[1]] = Nil
    <3> SUFFICES ASSUME n > 1 PROVE head' = list'[1] /\ prev'[list'[1]] = Nil
      OBVIOUS
    <3>1. CASE k = 1
      <4>1. list'[1] = list[2] /\ 2 \in 1 .. n /\ next[o] = list[2] /\ o = head /\ prev[o] = Nil
        BY <1>1, <1>4, <1>6, <1>7, <3>1 DEF o
      <4> QED
        BY <1>5, <1>12, <3>1, <4>1
    <3>2. CASE k > 1
      <4>1. list'[1] = list[1] /\ 1 \in 1 .. n /\ 1 # k + 1
        BY <1>1, <1>6, <3>2
      <4>2. o # head
        BY <1>1, <1>3, <1>7, <3>2 DEF o
      <4> QED
        BY <1>5, <1>7, <1>12, <4>1, <4>2
    <3> QED
      BY <1>1, <3>1, <3>2
  <2>4. n > 1 => tail' = list'[n - 1] /\ next'[list'[n - 1]] = Nil
    <3> SUFFICES ASSUME n > 1 PROVE tail' = list'[n - 1] /\ next'[list'[n - 1]] = Nil
      OBVIOUS
    <3>1. CASE k = n
      <4>1. /\ list'[n - 1] = list[n - 1] /\ n - 1 \in 1 .. n /\ prev[o] = list[n - 1]
            /\ o = tail /\ next[o] = Nil /\ n - 1 = k - 1
        BY <1>1, <1>4, <1>6, <1>7, <3>1 DEF o
      <4> QED
        BY <1>5, <1>12, <4>1
    <3>2. CASE k < n
      <4>1. list'[n - 1] = list[n] /\ n \in 1 .. n /\ n # k - 1
        BY <1>1, <1>6, <3>2
      <4>2. o # tail
        BY <1>1, <1>3, <1>7, <3>2 DEF o
      <4> QED
        BY <1>5, <1>7, <1>12, <4>1, <4>2
    <3> QED
      BY <1>1, <3>1, <3>2
  <2>5. n - 1 \in Nat /\ (n - 1 = 0 <=> n = 1) /\ (n - 1 > 0 <=> n > 1) /\ (n - 1) - 1 = n - 2
    BY <1>1
  <2> QED
    BY <1>6, <2>1, <2>2, <2>3, <2>4, <2>5 DEF ListSound
<1> QED
  BY <1>13, <1>14, <1>15, <1>16 DEF IInv

(* RemoveUnlinked changes nothing.                                         *)
LEMMA UnlinkedIInv == ASSUME NEW o \in Objs PROVE IInv /\ RemoveUnlinked(o) => IInv'
<1> SUFFICES ASSUME IInv, RemoveUnlinked(o) PROVE IInv'
  OBVIOUS
<1>1. Len(list) \in Nat /\ o # Nil
  BY ObjsFinite DEF IInv, TypeOK, LinksOK
<1>2. o # head /\ o # tail
  <2>1. CASE Len(list) = 0
    BY <1>1, <2>1 DEF IInv, ListSound
  <2>2. CASE Len(list) > 0
    BY <1>1, <2>2 DEF IInv, ListSound, RemoveUnlinked, Linked
  <2> QED
    BY <1>1, <2>1, <2>2
<1>3. UNCHANGED vars
  BY <1>2 DEF RemoveUnlinked, Unlink, vars, pool, links
<1> QED
  BY <1>3 DEF vars, pool, links, IInv, TypeOK, PoolOK, LinksOK, CountExact, Taken,
              ListSound, LinkedTaken

(* Every step preserves the invariant.                                     *)
LEMMA StepIInv == IInv /\ [Next]_vars => IInv'
<1> SUFFICES ASSUME IInv, [Next]_vars PROVE IInv'
  OBVIOUS
<1>1. CASE AllocObject
  BY <1>1 DEF AllocObject, links, IInv, TypeOK, PoolOK, LinksOK, CountExact, Taken,
              ListSound, LinkedTaken
<1>2. CASE SkipTaken
  <2>1. idx' \in Objs
    <3>1. idx + 1 \in Int /\ Size \in Nat /\ Size > 0
      BY SizeAssumption DEF IInv, TypeOK, PoolOK, Objs
    <3>2. (idx + 1) % Size \in 0 .. Size - 1
      BY <3>1
    <3> QED
      BY <1>2, <3>2 DEF SkipTaken, Objs
  <2>2. TypeOK'
    BY <1>2, <2>1 DEF SkipTaken, links, IInv, TypeOK, PoolOK, LinksOK
  <2> QED
    BY <1>2, <2>2 DEF SkipTaken, links, IInv, CountExact, Taken, ListSound, LinkedTaken
<1>3. CASE TakeObject
  BY <1>3, TakeIInv
<1>4. ASSUME NEW o \in Objs, FreeObject(o) PROVE IInv'
  BY <1>4, FreeIInv
<1>5. ASSUME NEW o \in Objs, AddToList(o) PROVE IInv'
  BY <1>5, AddIInv
<1>6. ASSUME NEW o \in Objs, RemoveUnlinked(o) PROVE IInv'
  BY <1>6, UnlinkedIInv
<1>7. ASSUME NEW k \in 1 .. Len(list), RemoveFromList(k) PROVE IInv'
  BY <1>7, RemoveIInv
<1>8. CASE UNCHANGED vars
  BY <1>8 DEF vars, pool, links, IInv, TypeOK, PoolOK, LinksOK, CountExact, Taken,
              ListSound, LinkedTaken
<1> QED
  BY <1>1, <1>2, <1>3, <1>4, <1>5, <1>6, <1>7, <1>8 DEF Next

(* The pool and the list are well formed in every reachable state.         *)
THEOREM PoolInvariant == Spec => []IInv
  BY InitIInv, StepIInv, PTL DEF Spec

(* For a pool of any size: following next from head visits the linked      *)
(* objects, oldest first, and prev leads back (add_to_list and             *)
(* remove_from_list).                                                      *)
THEOREM ListIsSound == Spec => []ListSound
<1>1. IInv => ListSound
  BY DEF IInv
<1> QED
  BY <1>1, PoolInvariant, PTL

(* For a pool of any size: mpool->count is the number of objects in use    *)
(* (alloc_object and free_object).                                         *)
THEOREM CountIsExact == Spec => []CountExact
<1>1. IInv => CountExact
  BY DEF IInv
<1> QED
  BY <1>1, PoolInvariant, PTL

(* While alloc_object searches, an object that is not taken exists, so its *)
(* loop has something to find.                                             *)
THEOREM SearchFinds == Spec => [](allocating => \E o \in Objs : ~taken[o])
<1>1. IInv => (allocating => \E o \in Objs : ~taken[o])
  <2> SUFFICES ASSUME IInv, allocating, \A o \in Objs : taken[o] PROVE FALSE
    OBVIOUS
  <2>1. Taken = Objs
    BY DEF Taken
  <2>2. count = Size /\ count < Size
    BY <2>1, ObjsFinite DEF IInv, CountExact
  <2> QED
    BY <2>2, SizeAssumption
<1> QED
  BY <1>1, PoolInvariant, PTL
=============================================================================
