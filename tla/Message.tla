------------------------------ MODULE Message ------------------------------
(***************************************************************************)
(* From the application's iovecs to packets and back: r2p2_prepare_msg     *)
(* cuts a message into packet buffers, and gbuffer_read / gbuffer_skip     *)
(* walk the buffers of a received message (r2p2/r2p2-common.c).            *)
(*                                                                         *)
(* A byte is the position it has in the application's message, so a buffer *)
(* that holds the wrong bytes, or the right ones in the wrong order, is    *)
(* seen.  Sizes leave out the R2P2 header, which every buffer starts with. *)
(***************************************************************************)
EXTENDS Integers, Sequences

CONSTANTS
  PAYLOAD_SIZE,       \* of a packet
  MIN_PAYLOAD_SIZE,   \* of the first packet of a request of several packets
  Messages,           \* the messages sent: iov[k] is the length of iovec k,
                      \* off[k] the position of its first byte
  ReadSizes           \* the sizes gbuffer_read and gbuffer_skip are called with

WellFormed(m) ==
  /\ m.iov \in Seq(Nat) /\ m.off \in Seq(Nat)
  /\ Len(m.iov) > 0 /\ Len(m.off) = Len(m.iov) + 1
  /\ m.off[1] = 0
  /\ \A k \in 1 .. Len(m.iov) :
       /\ m.off[k + 1] = m.off[k] + m.iov[k]
       /\ m.off[k] <= m.off[Len(m.iov) + 1]

ASSUME SizesAssumption ==
  /\ PAYLOAD_SIZE \in Nat /\ MIN_PAYLOAD_SIZE \in 1 .. PAYLOAD_SIZE
  /\ ReadSizes \subseteq Nat \ {0}
ASSUME MessagesAssumption == \A m \in Messages : WellFormed(m)

VARIABLES
  phase,                                  \* "count", "copy", then "read"
  iov, off, isRequest,                    \* the arguments
  i, total_payload, single_packet_msg,    \* the first loop
  iov_idx, copied, bufferleft, is_first,  \* the second loop
  bufs,             \* the message's buffers; from (history) is the position
                    \* of the next byte when the buffer was added
  current, left_in_buffer,                \* the reader
  call, left,       \* the call of the reader under way, and what is left of it
  asked, seen       \* history: bytes asked for; bytes read or skipped, in order

args == <<iov, off, isRequest>>
counting == <<i, total_payload, single_packet_msg>>
copying == <<iov_idx, copied, bufferleft, is_first>>
reading == <<current, left_in_buffer, call, left, asked, seen>>
vars == <<phase, args, counting, copying, bufs, reading>>

Total == off[Len(iov) + 1]
Smaller(x, y) == IF x < y THEN x ELSE y

Init ==
  /\ phase = "count"
  /\ \E m \in Messages : iov = m.iov /\ off = m.off
  /\ isRequest \in BOOLEAN
  /\ i = 1 /\ total_payload = 0 /\ single_packet_msg = TRUE
  /\ iov_idx = 1 /\ copied = 0 /\ bufferleft = 0 /\ is_first = TRUE
  /\ bufs = <<>>
  /\ current = 1 /\ left_in_buffer = 0
  /\ call = "none" /\ left = 0 /\ asked = 0 /\ seen = <<>>

(* One iteration of the loop that adds up the lengths.                     *)
Count ==
  /\ phase = "count" /\ i <= Len(iov)
  /\ total_payload' = total_payload + iov[i]
  /\ i' = i + 1
  /\ IF total_payload' > PAYLOAD_SIZE
     THEN single_packet_msg' = FALSE /\ phase' = "copy"
     ELSE UNCHANGED <<single_packet_msg, phase>>
  /\ UNCHANGED <<args, copying, bufs, reading>>

CountDone ==
  /\ phase = "count" /\ i > Len(iov)
  /\ phase' = "copy"
  /\ UNCHANGED <<args, counting, copying, bufs, reading>>

should_small_first == ~single_packet_msg /\ isRequest

(* Mutant: the size given to a full buffer ignores the small first one. *)
NewBuffer_FullSize ==
  /\ phase = "copy" /\ iov_idx <= Len(iov) /\ bufferleft = 0
  /\ LET n == Len(bufs)
         small == is_first /\ should_small_first
         first == is_first /\ ~(small /\ n > 0)
         closed == IF n = 0 THEN bufs ELSE [bufs EXCEPT ![n].size = PAYLOAD_SIZE]
     IN /\ is_first' = first
        /\ bufferleft' = IF first /\ should_small_first
                         THEN MIN_PAYLOAD_SIZE ELSE PAYLOAD_SIZE
        /\ bufs' = Append(closed,
             [from |-> off[iov_idx] + copied, data |-> <<>>, size |-> 0,
              order |-> n, F |-> FALSE, L |-> FALSE])
  /\ UNCHANGED <<phase, args, counting, iov_idx, copied, reading>>

(* if (!bufferleft): the size of the full buffer, and a new one with its   *)
(* header.                                                                 *)
NewBuffer ==
  /\ phase = "copy" /\ iov_idx <= Len(iov) /\ bufferleft = 0
  /\ LET n == Len(bufs)
         small == is_first /\ should_small_first
         first == is_first /\ ~(small /\ n > 0)
         closed == IF n = 0 THEN bufs
                   ELSE [bufs EXCEPT ![n].size =
                           IF small THEN MIN_PAYLOAD_SIZE ELSE PAYLOAD_SIZE]
     IN /\ is_first' = first
        /\ bufferleft' = IF first /\ should_small_first
                         THEN MIN_PAYLOAD_SIZE ELSE PAYLOAD_SIZE
        /\ bufs' = Append(closed,
             [from |-> off[iov_idx] + copied, data |-> <<>>, size |-> 0,
              order |-> n, F |-> FALSE, L |-> FALSE])
  /\ UNCHANGED <<phase, args, counting, iov_idx, copied, reading>>

(* Mutant: the whole iovec is copied, whatever room is left. *)
Copy_NoBound ==
  /\ phase = "copy" /\ iov_idx <= Len(iov) /\ bufferleft > 0
  /\ LET n == Len(bufs)
         tocopy == iov[iov_idx] - copied
     IN /\ bufs' = [bufs EXCEPT ![n].data =
                      @ \o [j \in 1 .. tocopy |-> off[iov_idx] + copied + j - 1]]
        /\ bufferleft' = bufferleft - tocopy
        /\ iov_idx' = iov_idx + 1
        /\ copied' = 0
  /\ UNCHANGED <<phase, args, counting, is_first, reading>>

(* The memcpy and what follows it, in a buffer that has room; an empty     *)
(* iovec copies nothing.                                                   *)
Copy ==
  /\ phase = "copy" /\ iov_idx <= Len(iov) /\ bufferleft > 0
  /\ LET n == Len(bufs)
         tocopy == Smaller(bufferleft, iov[iov_idx] - copied)
         ended == copied + tocopy = iov[iov_idx]
     IN /\ bufs' = [bufs EXCEPT ![n].data =
                      @ \o [j \in 1 .. tocopy |-> off[iov_idx] + copied + j - 1]]
        /\ bufferleft' = bufferleft - tocopy
        /\ iov_idx' = IF ended THEN iov_idx + 1 ELSE iov_idx
        /\ copied' = IF ended THEN 0 ELSE copied + tocopy
  /\ UNCHANGED <<phase, args, counting, is_first, reading>>

(* The size of the last buffer, the flags and the packet count; the reader *)
(* of the received message starts at its first buffer.                     *)
Finish ==
  /\ phase = "copy" /\ iov_idx > Len(iov)
  /\ LET n == Len(bufs) IN
     bufs' = [b \in 1 .. n |->
        [bufs[b] EXCEPT !.size = IF b = n THEN PAYLOAD_SIZE - bufferleft ELSE @,
                        !.order = IF b = 1 THEN n ELSE @,
                        !.F = (b = 1), !.L = (b = n)]]
  /\ phase' = "read"
  /\ left_in_buffer' = bufs'[1].size
  /\ UNCHANGED <<args, counting, copying, current, call, left, asked, seen>>

-----------------------------------------------------------------------------
(* A call of gbuffer_read or gbuffer_skip; none is made once one has       *)
(* returned short, the reader then has no buffer.                          *)
ReaderCall(f, size) ==
  /\ phase = "read" /\ call = "none"
  /\ current <= Len(bufs)
  /\ call' = f /\ left' = size /\ asked' = asked + size
  /\ UNCHANGED <<phase, args, counting, copying, bufs, current, left_in_buffer, seen>>

(* if (!reader->left_in_buffer): on to the next buffer, or break.  From an *)
(* empty buffer the loop copies nothing and moves on.                      *)
NextBuffer ==
  /\ call # "none" /\ left > 0 /\ left_in_buffer = 0
  /\ current' = current + 1
  /\ IF current = Len(bufs) THEN call' = "none" /\ UNCHANGED left_in_buffer
     ELSE left_in_buffer' = bufs[current + 1].size /\ UNCHANGED call
  /\ UNCHANGED <<phase, args, counting, copying, bufs, left, asked, seen>>

(* The n bytes of the current buffer the reader stands at, by its size.    *)
AtReader(n) ==
  LET b == bufs[current] IN
  [j \in 1 .. n |-> b.data[b.size - left_in_buffer + j]]

(* Mutant: the source is the start of the buffer's payload. *)
ReadBytes_FromStart ==
  /\ call = "read" /\ left > 0 /\ left_in_buffer > 0
  /\ LET n == Smaller(left_in_buffer, left) IN
     /\ seen' = seen \o SubSeq(bufs[current].data, 1, n)
     /\ left' = left - n /\ left_in_buffer' = left_in_buffer - n
  /\ UNCHANGED <<phase, args, counting, copying, bufs, current, call, asked>>

ReadBytes ==
  /\ call = "read" /\ left > 0 /\ left_in_buffer > 0
  /\ LET n == Smaller(left_in_buffer, left) IN
     /\ seen' = seen \o AtReader(n)
     /\ left' = left - n /\ left_in_buffer' = left_in_buffer - n
  /\ UNCHANGED <<phase, args, counting, copying, bufs, current, call, asked>>

(* Mutant: a skip that ends in this buffer is taken to end with it. *)
SkipBytes_WholeBuffer ==
  /\ call = "skip" /\ left > 0 /\ left_in_buffer > 0
  /\ seen' = seen \o AtReader(left_in_buffer)
  /\ left' = 0 /\ left_in_buffer' = 0
  /\ UNCHANGED <<phase, args, counting, copying, bufs, current, call, asked>>

SkipBytes ==
  /\ call = "skip" /\ left > 0 /\ left_in_buffer > 0
  /\ IF left_in_buffer < left
     THEN /\ seen' = seen \o AtReader(left_in_buffer)
          /\ left' = left - left_in_buffer /\ left_in_buffer' = 0
     ELSE /\ seen' = seen \o AtReader(left)
          /\ left' = 0 /\ left_in_buffer' = left_in_buffer - left
  /\ UNCHANGED <<phase, args, counting, copying, bufs, current, call, asked>>

Return ==
  /\ call # "none" /\ left = 0
  /\ call' = "none"
  /\ UNCHANGED <<phase, args, counting, copying, bufs, current, left_in_buffer,
                 left, asked, seen>>

Next ==
  \/ Count \/ CountDone \/ NewBuffer \/ Copy \/ Finish
  \/ \E f \in {"read", "skip"}, size \in ReadSizes : ReaderCall(f, size)
  \/ NextBuffer \/ ReadBytes \/ SkipBytes \/ Return

Spec == Init /\ [][Next]_vars

-----------------------------------------------------------------------------
TypeOK ==
  /\ phase \in {"count", "copy", "read"}
  /\ iov \in Seq(Nat) /\ off \in Seq(Nat) /\ isRequest \in BOOLEAN
  /\ i \in Nat /\ total_payload \in Nat /\ single_packet_msg \in BOOLEAN
  /\ iov_idx \in Nat /\ copied \in Nat /\ is_first \in BOOLEAN
  /\ bufferleft \in 0 .. PAYLOAD_SIZE
  /\ bufs \in Seq([from : Nat, data : Seq(Nat), size : Nat, order : Nat,
                   F : BOOLEAN, L : BOOLEAN])
  /\ current \in Nat /\ left_in_buffer \in 0 .. PAYLOAD_SIZE
  /\ call \in {"none", "read", "skip"} /\ left \in Nat /\ asked \in Nat
  /\ seen \in Seq(Nat)

Capacity(b) == IF b = 1 /\ should_small_first THEN MIN_PAYLOAD_SIZE ELSE PAYLOAD_SIZE

(* r2p2_prepare_msg: however the message is spread over iovecs, its bytes  *)
(* are in the packets' payloads in order, without gap or overlap; every    *)
(* packet but the last is full, its size field is the bytes it holds, the  *)
(* packets are numbered, and the first one carries their number.           *)
Segmented ==
  phase = "read" =>
    LET n == Len(bufs) IN
    /\ n > 0 /\ bufs[1].from = 0 /\ bufs[n].from + bufs[n].size = Total
    /\ \A b \in 1 .. n :
         /\ Len(bufs[b].data) = bufs[b].size
         /\ bufs[b].size <= Capacity(b)
         /\ b < n => bufs[b].size = Capacity(b) /\ bufs[b + 1].from = bufs[b].from + bufs[b].size
         /\ \A j \in 1 .. bufs[b].size : bufs[b].data[j] = bufs[b].from + j - 1
         /\ bufs[b].order = IF b = 1 THEN n ELSE b - 1
         /\ bufs[b].F = (b = 1) /\ bufs[b].L = (b = n)

(* gbuffer_read and gbuffer_skip: any mix of calls passes over the bytes   *)
(* of the message in order, across packet boundaries.                      *)
ReadsInOrder == \A j \in 1 .. Len(seen) : seen[j] = j - 1

(* gbuffer_read and gbuffer_skip return short only at the message's end.   *)
ReadsComplete ==
  (phase = "read" /\ call = "none") => Len(seen) = Smaller(asked, Total)
=============================================================================
