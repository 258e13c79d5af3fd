------------------------------ MODULE Mempool ------------------------------
(***************************************************************************)
(* A fixed pool of objects and a doubly linked list threaded through them  *)
(* (r2p2/mempool.c), used the way the R2P2 code uses them: an object is    *)
(* allocated, may be linked, is unlinked before it is freed.  The pools    *)
(* belong to one thread, so calls do not interleave; the search of         *)
(* alloc_object is still a loop, one iteration a step, since it stops only *)
(* if the pool's counter is right.                                         *)
(***************************************************************************)
EXTENDS Integers, Sequences, FiniteSets

CONSTANT Size   \* mpool->size

(* "FIXME!!! Make sure pool_size is a power of 2": then the & (size - 1)   *)
(* of alloc_object is a remainder, also when the 32-bit idx wraps.         *)
ASSUME SizeAssumption == Size \in Nat \ {0}
ASSUME PowerOfTwo == \E k \in 0 .. Size : Size = 2 ^ k

Objs == 0 .. Size - 1
Nil == -1

VARIABLES
  taken,        \* fo->taken of each object
  count, idx,   \* mpool->count, mpool->idx (modulo size)
  next, prev,   \* fo->next, fo->prev
  head, tail,   \* of the list
  allocating,   \* alloc_object is in its while loop
  list          \* history: the linked objects, oldest first

pool == <<taken, count, idx, allocating>>
links == <<next, prev, head, tail, list>>
vars == <<pool, links>>

(* create_mempool does not set taken; every pool of the code is larger     *)
(* than what malloc serves from its heap, so the pages are new and zero.   *)
Init ==
  /\ taken = [o \in Objs |-> FALSE]
  /\ count = 0 /\ idx = 0
  /\ next = [o \in Objs |-> Nil]
  /\ prev = [o \in Objs |-> Nil]
  /\ head = Nil /\ tail = Nil
  /\ allocating = FALSE
  /\ list = <<>>

Linked(o) == \E k \in 1 .. Len(list) : list[k] = o

(* Mutant: the bound is off by one. *)
AllocObject_OneMore ==
  /\ ~allocating
  /\ count <= Size
  /\ allocating' = TRUE
  /\ UNCHANGED <<taken, count, idx, links>>

(* alloc_object: NULL if the counter says the pool is full, else search.   *)
AllocObject ==
  /\ ~allocating
  /\ count < Size
  /\ allocating' = TRUE
  /\ UNCHANGED <<taken, count, idx, links>>

SkipTaken ==
  /\ allocating
  /\ taken[idx]
  /\ idx' = (idx + 1) % Size
  /\ UNCHANGED <<taken, count, allocating, links>>

TakeObject ==
  /\ allocating
  /\ ~taken[idx]
  /\ allocating' = FALSE
  /\ taken' = [taken EXCEPT ![idx] = TRUE]
  /\ next' = [next EXCEPT ![idx] = Nil]
  /\ prev' = [prev EXCEPT ![idx] = Nil]
  /\ count' = count + 1
  /\ idx' = (idx + 1) % Size
  /\ UNCHANGED <<head, tail, list>>

(* Mutant: the counter is left alone. *)
FreeObject_NotCounted(o) ==
  /\ ~allocating
  /\ taken[o] /\ ~Linked(o)
  /\ taken' = [taken EXCEPT ![o] = FALSE]
  /\ next' = [next EXCEPT ![o] = Nil]
  /\ prev' = [prev EXCEPT ![o] = Nil]
  /\ UNCHANGED <<count, idx, allocating, head, tail, list>>

(* free_object, called for an object that is in no list.                   *)
FreeObject(o) ==
  /\ ~allocating
  /\ taken[o] /\ ~Linked(o)
  /\ taken' = [taken EXCEPT ![o] = FALSE]
  /\ next' = [next EXCEPT ![o] = Nil]
  /\ prev' = [prev EXCEPT ![o] = Nil]
  /\ count' = count - 1
  /\ UNCHANGED <<idx, allocating, head, tail, list>>

(* Mutant: prev keeps what an earlier list left in it. *)
AddToList_PrevKept(o) ==
  /\ ~allocating
  /\ taken[o] /\ ~Linked(o)
  /\ next' = IF tail = Nil THEN [next EXCEPT ![o] = Nil]
             ELSE [next EXCEPT ![tail] = o, ![o] = Nil]
  /\ prev' = IF tail = Nil THEN prev ELSE [prev EXCEPT ![o] = tail]
  /\ head' = IF tail = Nil THEN o ELSE head
  /\ tail' = o
  /\ list' = Append(list, o)
  /\ UNCHANGED pool

AddToList(o) ==
  /\ ~allocating
  /\ taken[o] /\ ~Linked(o)
  /\ next' = IF tail = Nil THEN [next EXCEPT ![o] = Nil]
             ELSE [next EXCEPT ![tail] = o, ![o] = Nil]
  /\ prev' = [prev EXCEPT ![o] = tail]
  /\ head' = IF tail = Nil THEN o ELSE head
  /\ tail' = o
  /\ list' = Append(list, o)
  /\ UNCHANGED pool

Without(q, k) == SubSeq(q, 1, k - 1) \o SubSeq(q, k + 1, Len(q))

(* The pointers after remove_from_list(o); o keeps its own.                *)
Unlink(o) ==
  /\ head' = IF o = head THEN next[o] ELSE head
  /\ tail' = IF o = tail THEN prev[o] ELSE tail
  /\ next' = IF prev[o] = Nil THEN next ELSE [next EXCEPT ![prev[o]] = next[o]]
  /\ prev' = IF next[o] = Nil THEN prev ELSE [prev EXCEPT ![next[o]] = prev[o]]

RemoveFromList(k) ==
  /\ ~allocating
  /\ Unlink(list[k])
  /\ list' = Without(list, k)
  /\ UNCHANGED pool

(* handle_request calls remove_from_list for a one-packet request of a     *)
(* wrong total, a pair just allocated that never was in the list.          *)
RemoveUnlinked(o) ==
  /\ ~allocating
  /\ taken[o] /\ ~Linked(o)
  /\ next[o] = Nil /\ prev[o] = Nil
  /\ Unlink(o)
  /\ UNCHANGED <<list, pool>>

Next ==
  \/ AllocObject \/ SkipTaken \/ TakeObject
  \/ \E o \in Objs : FreeObject(o) \/ AddToList(o) \/ RemoveUnlinked(o)
  \/ \E k \in 1 .. Len(list) : RemoveFromList(k)

Spec == Init /\ [][Next]_vars

(* The while loop of alloc_object goes on until it ends.                   *)
FairSpec == Spec /\ WF_vars(SkipTaken \/ TakeObject)

-----------------------------------------------------------------------------
PoolOK ==
  /\ taken \in [Objs -> BOOLEAN]
  /\ count \in Nat /\ idx \in Objs
  /\ allocating \in BOOLEAN

LinksOK ==
  /\ next \in [Objs -> Objs \cup {Nil}]
  /\ prev \in [Objs -> Objs \cup {Nil}]
  /\ head \in Objs \cup {Nil} /\ tail \in Objs \cup {Nil}
  /\ list \in Seq(Objs)

TypeOK == PoolOK /\ LinksOK

Taken == {o \in Objs : taken[o]}

(* alloc_object and free_object keep count equal to the objects in use;    *)
(* the search of alloc_object relies on it to end.                         *)
CountExact ==
  /\ count = Cardinality(Taken)
  /\ allocating => count < Size

(* add_to_list and remove_from_list: whatever the order in which pairs     *)
(* come and go, following next from head visits exactly the linked pairs,  *)
(* oldest first, as find_in_pending_client_pairs does, and prev leads back *)
(* from tail.                                                              *)
ListSound ==
  LET n == Len(list) IN
  /\ n = 0 => head = Nil /\ tail = Nil
  /\ n > 0 => /\ head = list[1] /\ prev[list[1]] = Nil
              /\ tail = list[n] /\ next[list[n]] = Nil
  /\ \A k \in 1 .. n - 1 : next[list[k]] = list[k + 1] /\ prev[list[k + 1]] = list[k]

(* A linked object is taken, and linked once.                              *)
LinkedTaken ==
  /\ \A k \in 1 .. Len(list) : taken[list[k]]
  /\ \A j, k \in 1 .. Len(list) : list[j] = list[k] => j = k

(* alloc_object ends.                                                      *)
AllocEnds == allocating ~> ~allocating

(* The inductive invariant. *)
IInv == TypeOK /\ CountExact /\ ListSound /\ LinkedTaken
=============================================================================
