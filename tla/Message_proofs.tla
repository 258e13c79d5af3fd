--------------------------- MODULE Message_proofs ---------------------------
(* Proofs, for all payload sizes and messages, that r2p2_prepare_msg cuts  *)
(* a message into packets correctly (Segmented), and that gbuffer_read and *)
(* gbuffer_skip walk those packets' bytes in order (ReadsInOrder) and to   *)
(* the end (ReadsComplete).                                                *)
EXTENDS Message, TLAPS

Buffer == [from : Nat, data : Seq(Nat), size : Nat, order : Nat, F : BOOLEAN, L : BOOLEAN]

(* The room in buffer b, given whether the first one is small.             *)
Room(small, b) == IF b = 1 /\ small THEN MIN_PAYLOAD_SIZE ELSE PAYLOAD_SIZE

(* The message is one of Messages, so its offsets add up.                  *)
ArgsInv ==
  /\ WellFormed([iov |-> iov, off |-> off])
  /\ isRequest \in BOOLEAN

(* The first loop: total_payload is the offset reached; a message found    *)
(* too large for one packet is too large.                                  *)
CountInv ==
  /\ i \in 1 .. Len(iov) + 1 /\ total_payload \in Nat
  /\ phase = "count" => total_payload = off[i] /\ single_packet_msg
  /\ single_packet_msg \in BOOLEAN
  /\ ~single_packet_msg => off[Len(iov) + 1] > PAYLOAD_SIZE

(* Where the second loop stands in the iovecs.                             *)
PlaceInv ==
  /\ iov_idx \in 1 .. Len(iov) + 1 /\ copied \in Nat
  /\ iov_idx <= Len(iov) => copied <= iov[iov_idx]
  /\ iov_idx > Len(iov) => copied = 0
  /\ Len(bufs) = 0 => iov_idx = 1 /\ copied = 0

(* The buffer being filled: all bytes up to it have been copied.           *)
TailInv ==
  LET n == Len(bufs) IN
  /\ bufferleft \in Nat
  /\ is_first \in BOOLEAN
  /\ is_first <=> ~(should_small_first /\ n >= 2)
  /\ n = 0 => bufferleft = 0
  /\ n > 0 => /\ bufs[n].from + Len(bufs[n].data) = off[iov_idx] + copied
              /\ Len(bufs[n].data) + bufferleft = Room(should_small_first, n)

(* The buffers: contiguous, each holding its own stretch of the message,   *)
(* all but the last full and with their size set.                          *)
BufsInv ==
  LET n == Len(bufs) IN
  /\ bufs \in Seq(Buffer)
  /\ n > 0 => bufs[1].from = 0
  /\ \A b \in 1 .. n :
       /\ bufs[b].order = b - 1 /\ ~bufs[b].F /\ ~bufs[b].L
       /\ \A j \in 1 .. Len(bufs[b].data) : bufs[b].data[j] = bufs[b].from + j - 1
  /\ \A b \in 1 .. n - 1 :
       /\ bufs[b].size = Room(should_small_first, b)
       /\ Len(bufs[b].data) = Room(should_small_first, b)
       /\ bufs[b + 1].from = bufs[b].from + Room(should_small_first, b)
       /\ bufs[b].from + Room(should_small_first, b) <= bufs[n].from

(* No buffer of a cut message reaches beyond the message.                  *)
EndsInv ==
  /\ bufs \in Seq(Buffer)
  /\ \A b \in 1 .. Len(bufs) : bufs[b].from + bufs[b].size <= Total

CutInv ==
  /\ phase \in {"count", "copy", "read"}
  /\ ArgsInv /\ CountInv
  /\ phase = "count" => bufs = <<>>
  /\ phase # "read" => PlaceInv /\ TailInv /\ BufsInv
  /\ phase = "read" => EndsInv
  /\ Segmented

(* The arguments, unfolded.                                                *)
LEMMA ArgsFacts ==
  ASSUME ArgsInv
  PROVE  /\ iov \in Seq(Nat) /\ off \in Seq(Nat) /\ isRequest \in BOOLEAN
         /\ Len(iov) \in Nat /\ Len(iov) > 0 /\ Len(off) = Len(iov) + 1
         /\ off[1] = 0
         /\ \A k \in 1 .. Len(iov) : off[k + 1] = off[k] + iov[k] /\ off[k] <= off[Len(iov) + 1]
         /\ \A k \in 1 .. Len(iov) : iov[k] \in Nat
         /\ \A k \in 1 .. Len(iov) + 1 : off[k] \in Nat
<1>1. /\ iov \in Seq(Nat) /\ off \in Seq(Nat) /\ isRequest \in BOOLEAN
      /\ Len(iov) > 0 /\ Len(off) = Len(iov) + 1 /\ off[1] = 0
      /\ \A k \in 1 .. Len(iov) : off[k + 1] = off[k] + iov[k] /\ off[k] <= off[Len(iov) + 1]
  BY DEF ArgsInv, WellFormed
<1>2. Len(iov) \in Nat /\ \A k \in 1 .. Len(iov) : iov[k] \in Nat
  BY <1>1
<1>3. \A k \in 1 .. Len(off) : off[k] \in Nat
  BY <1>1
<1> QED
  BY <1>1, <1>2, <1>3, Zenon

(* Before the first step nothing is cut.                                   *)
LEMMA InitCut == Init => CutInv
<1> SUFFICES ASSUME Init PROVE CutInv
  OBVIOUS
<1>1. ArgsInv
  <2>1. PICK m \in Messages : iov = m.iov /\ off = m.off
    BY DEF Init
  <2>2. WellFormed(m)
    BY MessagesAssumption
  <2> QED
    BY <2>1, <2>2 DEF Init, ArgsInv, WellFormed
<1>2. CountInv
  BY <1>1, ArgsFacts DEF Init, CountInv
<1>3. PlaceInv
  BY <1>1, ArgsFacts DEF Init, PlaceInv
<1>4. TailInv
  <2>1. ~should_small_first /\ is_first = TRUE /\ bufferleft = 0 /\ Len(bufs) = 0
    BY DEF Init, should_small_first
  <2> QED
    BY <2>1 DEF TailInv
<1>5. BufsInv
  BY DEF Init, BufsInv
<1>6. Segmented
  BY DEF Init, Segmented
<1> QED
  BY <1>1, <1>2, <1>3, <1>4, <1>5, <1>6 DEF Init, CutInv

(* The loop that adds up the lengths.                                      *)
LEMMA CountCut == CutInv /\ Count => CutInv'
<1> SUFFICES ASSUME CutInv, Count PROVE CutInv'
  OBVIOUS
<1>1. /\ ArgsInv /\ CountInv /\ phase = "count" /\ bufs = <<>> /\ PlaceInv /\ TailInv /\ BufsInv
  BY DEF CutInv, Count
<1>12. i \in 1 .. Len(iov)
  BY <1>1, ArgsFacts DEF Count, CountInv
<1>2. UNCHANGED <<args, copying, bufs>>
  BY DEF Count
<1>3. total_payload' = off[i + 1] /\ i' = i + 1 /\ total_payload' \in Nat
  <2>1. total_payload = off[i] /\ total_payload' = total_payload + iov[i] /\ i' = i + 1
    BY <1>1 DEF Count, CountInv
  <2>2. off[i + 1] = off[i] + iov[i] /\ off[i] \in Nat /\ iov[i] \in Nat
    BY <1>1, <1>12, ArgsFacts
  <2> QED
    BY <2>1, <2>2
<1>4. ArgsInv'
  BY <1>1, <1>2 DEF ArgsInv, args
<1>5. off[i + 1] <= off[Len(iov) + 1]
  <2>1. CASE i = Len(iov)
    BY <1>1, <1>12, <2>1, ArgsFacts
  <2>2. CASE i < Len(iov)
    <3>1. i + 1 \in 1 .. Len(iov)
      BY <1>1, <1>12, <2>2, ArgsFacts
    <3> QED
      BY <1>1, <3>1, ArgsFacts
  <2> QED
    BY <1>1, <1>12, <2>1, <2>2, ArgsFacts
<1>6. /\ single_packet_msg /\ phase' \in {"count", "copy"}
      /\ phase' = "count" => single_packet_msg'
      /\ single_packet_msg' \in BOOLEAN
      /\ ~single_packet_msg' => total_payload' > PAYLOAD_SIZE
  BY <1>1 DEF Count, CountInv
<1>7. CountInv'
  <2>1. off[Len(iov) + 1] \in Nat /\ off[i + 1] \in Nat /\ i + 1 \in 1 .. Len(iov) + 1
    BY <1>1, <1>12, ArgsFacts
  <2>2. iov' = iov /\ off' = off
    BY <1>2 DEF args
  <2>3. ~single_packet_msg' => off[Len(iov) + 1] > PAYLOAD_SIZE
    BY <1>3, <1>5, <1>6, <2>1, SizesAssumption
  <2> QED
    BY <1>3, <1>6, <2>1, <2>2, <2>3 DEF CountInv
<1>8. PlaceInv'
  BY <1>1, <1>2 DEF PlaceInv, args, copying
<1>9. TailInv'
  BY <1>1, <1>2 DEF TailInv, copying
<1>10. BufsInv'
  BY <1>1, <1>2 DEF BufsInv
<1>11. Segmented'
  BY <1>6 DEF Segmented
<1> QED
  BY <1>1, <1>2, <1>4, <1>6, <1>7, <1>8, <1>9, <1>10, <1>11 DEF CutInv

(* The end of that loop.                                                   *)
LEMMA CountDoneCut == CutInv /\ CountDone => CutInv'
<1> SUFFICES ASSUME CutInv, CountDone PROVE CutInv'
  OBVIOUS
<1>1. /\ ArgsInv /\ CountInv /\ bufs = <<>> /\ PlaceInv /\ TailInv /\ BufsInv /\ phase' = "copy"
  BY DEF CutInv, CountDone
<1>2. UNCHANGED <<args, counting, copying, bufs>>
  BY DEF CountDone
<1>3. ArgsInv'
  BY <1>1, <1>2 DEF ArgsInv, args
<1>4. CountInv'
  BY <1>1, <1>2 DEF CountInv, args, counting
<1>5. PlaceInv'
  BY <1>1, <1>2 DEF PlaceInv, args, copying
<1>6. TailInv'
  BY <1>1, <1>2 DEF TailInv, args, counting, copying, should_small_first
<1>7. BufsInv'
  BY <1>1, <1>2 DEF BufsInv
<1>8. Segmented'
  BY <1>1 DEF Segmented
<1> QED
  BY <1>1, <1>3, <1>4, <1>5, <1>6, <1>7, <1>8 DEF CutInv

(* A buffer is full exactly when bufferleft is 0; the next one starts      *)
(* where it ends.                                                          *)
LEMMA NewBufferCut == CutInv /\ NewBuffer => CutInv'
<1> SUFFICES ASSUME CutInv, NewBuffer PROVE CutInv'
  OBVIOUS
<1> DEFINE n == Len(bufs)
           small == is_first /\ should_small_first
           first == is_first /\ ~(small /\ n > 0)
           closed == IF n = 0 THEN bufs
                     ELSE [bufs EXCEPT ![n].size =
                             IF small THEN MIN_PAYLOAD_SIZE ELSE PAYLOAD_SIZE]
           new == [from |-> off[iov_idx] + copied, data |-> <<>>, size |-> 0,
                   order |-> n, F |-> FALSE, L |-> FALSE]
<1>1. /\ ArgsInv /\ CountInv /\ PlaceInv /\ TailInv /\ BufsInv
      /\ phase = "copy" /\ phase' = "copy"
      /\ iov_idx <= Len(iov) /\ bufferleft = 0
      /\ is_first' = first
      /\ bufferleft' = IF first /\ should_small_first THEN MIN_PAYLOAD_SIZE ELSE PAYLOAD_SIZE
      /\ bufs' = Append(closed, new)
  BY DEF CutInv, NewBuffer
<1>2. UNCHANGED <<args, counting, iov_idx, copied>>
  BY DEF NewBuffer
<1>3. ArgsInv'
  BY <1>1, <1>2 DEF ArgsInv, args
<1>4. CountInv'
  BY <1>1, <1>2 DEF CountInv, args, counting
<1>5. /\ n \in Nat /\ bufs \in Seq(Buffer)
      /\ off[iov_idx] + copied \in Nat
      /\ PAYLOAD_SIZE \in Nat /\ MIN_PAYLOAD_SIZE \in Nat
  <2>1. n \in Nat /\ bufs \in Seq(Buffer)
    BY <1>1 DEF BufsInv
  <2>2. off[iov_idx] \in Nat /\ copied \in Nat
    BY <1>1, ArgsFacts DEF PlaceInv
  <2> QED
    BY <2>1, <2>2, SizesAssumption
<1>6. is_first <=> ~(should_small_first /\ n >= 2)
  BY <1>1 DEF TailInv
<1>7. n > 0 => Room(should_small_first, n) = IF small THEN MIN_PAYLOAD_SIZE ELSE PAYLOAD_SIZE
  <2>1. CASE n = 1
    BY <1>6, <2>1 DEF Room
  <2>2. CASE n >= 2
    <3>1. n # 1
      <4>1. n \in Nat
        BY <1>5
      <4> HIDE DEF n
      <4> QED
        BY <4>1, <2>2
    <3>2. ~small
      BY <1>6, <2>2
    <3> HIDE DEF small, n
    <3> QED
      BY <3>1, <3>2 DEF Room
  <2>3. n = 0 \/ n = 1 \/ n >= 2
    <3>1. n \in Nat
      BY <1>5
    <3> HIDE DEF n
    <3> QED
      BY <3>1
  <2>4. CASE n = 0
    BY <2>4
  <2> HIDE DEF small, n
  <2> QED
    BY <2>1, <2>2, <2>3, <2>4
<1>8. first <=> ~(should_small_first /\ n + 1 >= 2)
  <2>1. CASE n = 0
    BY <1>6, <2>1
  <2>2. CASE n > 0
    BY <1>5, <1>6, <2>2
  <2> QED
    BY <1>5, <2>1, <2>2
<1>9. bufferleft' = Room(should_small_first, n + 1)
  <2>1. CASE n = 0
    BY <1>1, <1>8, <2>1 DEF Room
  <2>2. CASE n > 0
    BY <1>1, <1>5, <1>8, <2>2 DEF Room
  <2> QED
    BY <1>5, <2>1, <2>2
<1>10. \A b \in Nat : Room(should_small_first, b) \in Nat
  BY <1>5 DEF Room
<1>11. should_small_first' = should_small_first
  BY <1>2 DEF should_small_first, args, counting
<1>12. /\ closed \in Seq(Buffer) /\ Len(closed) = n
       /\ \A b \in 1 .. n : /\ closed[b].from = bufs[b].from /\ closed[b].data = bufs[b].data
                            /\ closed[b].order = bufs[b].order
                            /\ closed[b].F = bufs[b].F /\ closed[b].L = bufs[b].L
                            /\ closed[b].size = IF b = n THEN Room(should_small_first, n) ELSE bufs[b].size
  <2>1. CASE n = 0
    BY <1>5, <2>1
  <2>2. CASE n > 0
    <3>1. closed = [bufs EXCEPT ![n].size = Room(should_small_first, n)]
      <4>1. n # 0
        BY <1>5, <2>2
      <4> HIDE DEF n, small
      <4> QED
        BY <1>7, <2>2, <4>1
    <3>2. Room(should_small_first, n) \in Nat /\ n \in 1 .. n
      BY <1>5, <1>10, <2>2
    <3> DEFINE c == Room(should_small_first, n)
    <3> HIDE DEF closed, n, c
    <3>3. closed = [bufs EXCEPT ![n] = [bufs[n] EXCEPT !.size = c]] /\ bufs[n] \in Buffer
      BY <1>5, <3>1, <3>2 DEF c, n
    <3>4. /\ [bufs[n] EXCEPT !.size = c] \in Buffer
          /\ [bufs[n] EXCEPT !.size = c].size = c
          /\ [bufs[n] EXCEPT !.size = c].from = bufs[n].from
          /\ [bufs[n] EXCEPT !.size = c].data = bufs[n].data
          /\ [bufs[n] EXCEPT !.size = c].order = bufs[n].order
          /\ [bufs[n] EXCEPT !.size = c].F = bufs[n].F
          /\ [bufs[n] EXCEPT !.size = c].L = bufs[n].L
      BY <3>2, <3>3 DEF c, Buffer
    <3> DEFINE e == [bufs[n] EXCEPT !.size = c]
    <3> HIDE DEF e
    <3>5. /\ closed \in Seq(Buffer) /\ Len(closed) = n
          /\ \A b \in 1 .. n : closed[b] = IF b = n THEN e ELSE bufs[b]
      BY <1>5, <3>2, <3>3, <3>4 DEF e, n
    <3> QED
      BY <3>4, <3>5 DEF e, c
  <2> QED
    BY <1>5, <2>1, <2>2
<1>13. new \in Buffer /\ new.from = off[iov_idx] + copied /\ new.data = <<>> /\ Len(new.data) = 0
       /\ new.order = n /\ ~new.F /\ ~new.L
  BY <1>5 DEF Buffer
<1>14. /\ BufsInv /\ TailInv
  BY <1>1
<1> HIDE DEF closed, new, small, first
<1>15. /\ bufs' \in Seq(Buffer) /\ Len(bufs') = n + 1 /\ bufs'[n + 1] = new
       /\ \A b \in 1 .. n : bufs'[b] = closed[b]
  BY <1>1, <1>5, <1>12, <1>13, SMTT(30)
<1>16. PlaceInv'
  BY <1>1, <1>2, <1>5, <1>15 DEF PlaceInv, args
<1>17. n > 0 => /\ bufs[n].from + Len(bufs[n].data) = off[iov_idx] + copied
                /\ Len(bufs[n].data) = Room(should_small_first, n)
  <2>1. n > 0 => Len(bufs[n].data) \in Nat
    BY <1>5 DEF Buffer
  <2>2. n > 0 => /\ Len(bufs[n].data) + 0 = Room(should_small_first, n)
                 /\ bufs[n].from + Len(bufs[n].data) = off[iov_idx] + copied
    BY <1>1 DEF TailInv
  <2> QED
    BY <2>1, <2>2
<1>18. n = 0 => off[iov_idx] + copied = 0
  BY <1>1, ArgsFacts DEF PlaceInv
<1>19. /\ n > 0 => bufs[1].from = 0
       /\ \A b \in 1 .. n :
            /\ bufs[b].order = b - 1 /\ ~bufs[b].F /\ ~bufs[b].L
            /\ \A j \in 1 .. Len(bufs[b].data) : bufs[b].data[j] = bufs[b].from + j - 1
       /\ \A b \in 1 .. n - 1 :
            /\ bufs[b].size = Room(should_small_first, b)
            /\ Len(bufs[b].data) = Room(should_small_first, b)
            /\ bufs[b + 1].from = bufs[b].from + Room(should_small_first, b)
            /\ bufs[b].from + Room(should_small_first, b) <= bufs[n].from
  BY <1>1 DEF BufsInv
<1> HIDE DEF n
<1>20. TailInv'
  <2>1. off' = off /\ iov_idx' = iov_idx /\ copied' = copied
    BY <1>2 DEF args
  <2>2. bufs'[n + 1].from + Len(bufs'[n + 1].data) = off[iov_idx] + copied
    BY <1>5, <1>13, <1>15
  <2>3. Len(bufs'[n + 1].data) + bufferleft' = Room(should_small_first, n + 1) /\ bufferleft' \in Nat
    <3>1. n + 1 \in Nat /\ Len(bufs'[n + 1].data) = 0
      BY <1>5, <1>13, <1>15
    <3>2. bufferleft' \in Nat
      BY <1>9, <1>10, <3>1
    <3> QED
      BY <1>9, <3>1, <3>2
  <2>4. (is_first' <=> ~(should_small_first' /\ n + 1 >= 2)) /\ is_first' \in BOOLEAN
    BY <1>1, <1>8, <1>11 DEF first
  <2> QED
    BY <1>5, <1>11, <1>15, <2>1, <2>2, <2>3, <2>4 DEF TailInv
<1>21. BufsInv'
  <2>1. bufs'[1].from = 0
    <3>1. CASE n = 0
      BY <1>13, <1>15, <1>18, <3>1
    <3>2. CASE n > 0
      BY <1>5, <1>12, <1>15, <1>19, <3>2
    <3> QED
      BY <1>5, <3>1, <3>2
  <2>2. ASSUME NEW b \in 1 .. n + 1
        PROVE  /\ bufs'[b].order = b - 1 /\ ~bufs'[b].F /\ ~bufs'[b].L
               /\ \A j \in 1 .. Len(bufs'[b].data) : bufs'[b].data[j] = bufs'[b].from + j - 1
    <3>1. CASE b = n + 1
      BY <1>5, <1>13, <1>15, <3>1
    <3>2. CASE b \in 1 .. n
      <4>1. /\ bufs'[b].order = bufs[b].order /\ bufs'[b].data = bufs[b].data
            /\ bufs'[b].from = bufs[b].from /\ bufs'[b].F = bufs[b].F /\ bufs'[b].L = bufs[b].L
        BY <1>12, <1>15, <3>2
      <4> QED
        BY <1>19, <3>2, <4>1
    <3> QED
      BY <1>5, <3>1, <3>2, SMTT(30)
  <2>3. ASSUME NEW b \in 1 .. n
        PROVE  /\ bufs'[b].size = Room(should_small_first, b)
               /\ Len(bufs'[b].data) = Room(should_small_first, b)
               /\ bufs'[b + 1].from = bufs'[b].from + Room(should_small_first, b)
    <3>1. /\ bufs'[b].data = bufs[b].data /\ bufs'[b].from = bufs[b].from
          /\ bufs'[b].size = IF b = n THEN Room(should_small_first, n) ELSE bufs[b].size
      BY ZenonT(60), <1>12, <1>15
    <3>2. CASE b = n
      BY <1>5, <1>13, <1>15, <1>17, <3>1, <3>2
    <3>3. CASE b < n
      <4>1. b \in 1 .. n - 1 /\ b + 1 \in 1 .. n
        BY <1>5, <3>3
      <4>2. bufs'[b + 1].from = bufs[b + 1].from
        BY <1>12, <1>15, <4>1
      <4> QED
        BY <1>5, <1>19, <3>1, <3>3, <4>1, <4>2
    <3> QED
      BY <1>5, <3>2, <3>3
  <2>4. Len(bufs') = n + 1 /\ (n + 1) - 1 = n
    BY <1>5, <1>15
  <2>5. ASSUME NEW b \in 1 .. n
        PROVE  bufs'[b].from + Room(should_small_first, b) <= bufs'[n + 1].from
    <3>1. n \in 1 .. n /\ n > 0
      BY <1>5
    <3>2. /\ bufs'[b].from = bufs[b].from /\ bufs[b].from \in Nat /\ bufs[n].from \in Nat
          /\ Room(should_small_first, b) \in Nat /\ Room(should_small_first, n) \in Nat
      <4>1. bufs'[b].from = bufs[b].from
        BY <1>12, <1>15, Zenon
      <4>2. bufs[b] \in Buffer /\ bufs[n] \in Buffer
        BY <1>5, <3>1 DEF n
      <4>3. bufs[b].from \in Nat /\ bufs[n].from \in Nat
        BY <4>2 DEF Buffer
      <4>4. Room(should_small_first, b) \in Nat /\ Room(should_small_first, n) \in Nat
        BY <1>5 DEF Room
      <4> QED
        BY <4>1, <4>3, <4>4, Zenon
    <3>3. bufs'[n + 1].from = bufs[n].from + Room(should_small_first, n)
      BY <1>13, <1>15, <1>17, <3>1
    <3>4. CASE b = n
      BY <3>2, <3>3, <3>4
    <3>5. CASE b # n
      <4>1. b \in 1 .. n - 1
        BY <1>5, <3>5
      <4>2. bufs[b].from + Room(should_small_first, b) <= bufs[n].from
        BY <1>19, <4>1, Zenon
      <4> QED
        BY <3>2, <3>3, <4>2
    <3> QED
      BY <3>4, <3>5, Zenon
  <2> QED
    BY <1>11, <1>15, <2>1, <2>2, <2>3, <2>4, <2>5 DEF BufsInv
<1>22. Segmented'
  BY <1>1 DEF Segmented
<1> QED
  BY <1>1, <1>3, <1>4, <1>16, <1>20, <1>21, <1>22 DEF CutInv

(* What concatenation is.                                                  *)
LEMMA Concat ==
  ASSUME NEW x \in Seq(Nat), NEW y \in Seq(Nat)
  PROVE  /\ x \o y \in Seq(Nat) /\ Len(x \o y) = Len(x) + Len(y)
         /\ \A j \in 1 .. Len(x) : (x \o y)[j] = x[j]
         /\ \A j \in Len(x) + 1 .. Len(x) + Len(y) : (x \o y)[j] = y[j - Len(x)]
OBVIOUS

(* memcpy appends the next bytes of the message to the last buffer.        *)
LEMMA CopyCut == CutInv /\ Copy => CutInv'
<1> SUFFICES ASSUME CutInv, Copy PROVE CutInv'
  OBVIOUS
<1> DEFINE n == Len(bufs)
           t == Smaller(bufferleft, iov[iov_idx] - copied)
           pos == off[iov_idx] + copied
           chunk == [j \in 1 .. t |-> pos + j - 1]
           ended == copied + t = iov[iov_idx]
           d == bufs[n].data \o chunk
<1>1. /\ ArgsInv /\ CountInv /\ PlaceInv /\ TailInv /\ BufsInv
      /\ phase = "copy" /\ phase' = "copy"
      /\ iov_idx <= Len(iov) /\ bufferleft > 0
      /\ bufferleft' = bufferleft - t
      /\ iov_idx' = IF ended THEN iov_idx + 1 ELSE iov_idx
      /\ copied' = IF ended THEN 0 ELSE copied + t
      /\ bufs' = [bufs EXCEPT ![n].data = d]
  BY DEF CutInv, Copy
<1>2. UNCHANGED <<args, counting, is_first>>
  BY DEF Copy
<1>3. ArgsInv'
  BY <1>1, <1>2 DEF ArgsInv, args
<1>4. CountInv'
  BY <1>1, <1>2 DEF CountInv, args, counting
<1>5. n \in Nat /\ bufs \in Seq(Buffer)
  BY <1>1 DEF BufsInv
<1>6. /\ Len(iov) \in Nat /\ iov_idx \in 1 .. Len(iov) /\ copied \in Nat /\ bufferleft \in Nat
      /\ iov[iov_idx] \in Nat /\ off[iov_idx] \in Nat /\ copied <= iov[iov_idx]
      /\ off[iov_idx + 1] = off[iov_idx] + iov[iov_idx]
  <2>1. Len(iov) \in Nat /\ iov_idx \in 1 .. Len(iov) /\ iov_idx \in 1 .. Len(iov) + 1
    BY <1>1, ArgsFacts DEF PlaceInv
  <2> QED
    BY <1>1, <2>1, ArgsFacts DEF PlaceInv, TailInv
<1>7. t \in Nat /\ t <= bufferleft /\ copied + t <= iov[iov_idx] /\ pos \in Nat
  BY <1>6, SMTT(30) DEF Smaller
<1>8. n > 0 /\ bufs[n] \in Buffer /\ n \in 1 .. n /\ bufs[n].data \in Seq(Nat)
  <2>1. n # 0
    BY <1>1, <1>6 DEF TailInv
  <2>2. n > 0 /\ n \in 1 .. n
    <3>1. n \in Nat
      BY <1>5
    <3> HIDE DEF n
    <3> QED
      BY <2>1, <3>1
  <2>3. bufs[n] \in Buffer
    BY <1>5, <2>2
  <2> QED
    BY <2>2, <2>3 DEF Buffer
<1> DEFINE len == Len(bufs[n].data)
<1>9. /\ len \in Nat /\ bufs[n].from \in Nat /\ bufs[n].from + len = pos
      /\ len + bufferleft = Room(should_small_first, n)
  <2>1. /\ bufs[n].from + Len(bufs[n].data) = off[iov_idx] + copied
        /\ Len(bufs[n].data) + bufferleft = Room(should_small_first, n)
    BY <1>1, <1>8 DEF TailInv
  <2> QED
    BY <1>8, <2>1 DEF Buffer
<1>10. should_small_first' = should_small_first
  BY <1>2 DEF should_small_first, args, counting
<1> HIDE DEF t, pos, n
<1>11. chunk \in Seq(Nat) /\ Len(chunk) = t /\ \A j \in 1 .. t : chunk[j] = pos + j - 1
  BY <1>7
<1> HIDE DEF chunk
<1>12. /\ d \in Seq(Nat) /\ Len(d) = len + t
       /\ \A j \in 1 .. len : d[j] = bufs[n].data[j]
       /\ \A j \in len + 1 .. len + t : d[j] = chunk[j - len]
  BY <1>8, <1>11, Concat
<1>13. bufs' = [bufs EXCEPT ![n] = [bufs[n] EXCEPT !.data = d]]
  BY <1>1
<1> HIDE DEF d
<1>14. /\ [bufs[n] EXCEPT !.data = d] \in Buffer
       /\ [bufs[n] EXCEPT !.data = d].data = d
       /\ [bufs[n] EXCEPT !.data = d].from = bufs[n].from
       /\ [bufs[n] EXCEPT !.data = d].size = bufs[n].size
       /\ [bufs[n] EXCEPT !.data = d].order = bufs[n].order
       /\ [bufs[n] EXCEPT !.data = d].F = bufs[n].F
       /\ [bufs[n] EXCEPT !.data = d].L = bufs[n].L
  BY <1>8, <1>12 DEF Buffer
<1> DEFINE e == [bufs[n] EXCEPT !.data = d]
<1>15. e \in Buffer
  BY <1>14
<1> HIDE DEF e
<1>16. /\ bufs' \in Seq(Buffer) /\ Len(bufs') = n
       /\ \A b \in 1 .. n : bufs'[b] = IF b = n THEN e ELSE bufs[b]
  BY <1>5, <1>8, <1>13, <1>15 DEF e, n
<1>17. /\ \A b \in 1 .. n : /\ bufs'[b].from = bufs[b].from /\ bufs'[b].size = bufs[b].size
                            /\ bufs'[b].order = bufs[b].order
                            /\ bufs'[b].F = bufs[b].F /\ bufs'[b].L = bufs[b].L
       /\ \A b \in 1 .. n : b # n => bufs'[b].data = bufs[b].data
       /\ bufs'[n].data = d
  BY <1>8, <1>14, <1>16 DEF e
<1>18. iov' = iov /\ off' = off
  BY <1>2 DEF args
<1>19. iov_idx' \in 1 .. Len(iov) + 1 /\ copied' \in Nat /\ off[iov_idx'] + copied' = pos + t
  <2>1. CASE ended
    <3>1. iov_idx' = iov_idx + 1 /\ copied' = 0 /\ copied + t = iov[iov_idx]
      BY <1>1, <2>1
    <3>2. off[iov_idx'] = off[iov_idx] + (copied + t)
      BY <1>6, <3>1
    <3> QED
      BY <1>6, <1>7, <3>1, <3>2, SMTT(30) DEF pos
  <2>2. CASE ~ended
    <3>1. iov_idx' = iov_idx /\ copied' = copied + t
      BY <1>1, <2>2
    <3> QED
      BY <1>6, <1>7, <3>1 DEF pos
  <2> QED
    BY <2>1, <2>2
<1>20. PlaceInv'
  <2>1. iov_idx' <= Len(iov) => copied' <= iov[iov_idx']
    <3>1. CASE ended
      <4>1. iov_idx' <= Len(iov) => iov[iov_idx'] \in Nat
        <5>1. iov_idx' <= Len(iov) => iov_idx' \in 1 .. Len(iov)
          BY <1>6, <1>19
        <5> QED
          BY <1>1, <5>1, ArgsFacts, Zenon
      <4> QED
        BY <1>1, <3>1, <4>1
    <3>2. CASE ~ended
      BY <1>1, <1>7, <3>2
    <3> QED
      BY <3>1, <3>2
  <2>2. iov_idx' > Len(iov) => copied' = 0
    <3>1. CASE ended
      BY <1>1, <3>1
    <3>2. CASE ~ended
      BY <1>1, <1>6, <3>2
    <3> QED
      BY <3>1, <3>2
  <2>3. Len(bufs') # 0
    BY <1>5, <1>8, <1>16
  <2> QED
    BY <1>18, <1>19, <2>1, <2>2, <2>3 DEF PlaceInv
<1>21. TailInv'
  <2>1. bufs'[n].from + Len(bufs'[n].data) = off[iov_idx'] + copied'
    <3>1. bufs'[n].from = bufs[n].from /\ Len(bufs'[n].data) = len + t
      BY <1>8, <1>12, <1>17
    <3> HIDE DEF len
    <3>2. (off[iov_idx'] + copied') = pos + t
      BY <1>19
    <3>3. bufs[n].from + (len + t) = pos + t
      BY <1>7, <1>9
    <3> QED
      BY <3>1, <3>2, <3>3
  <2>2. Len(bufs'[n].data) + bufferleft' = Room(should_small_first, n) /\ bufferleft' \in Nat
    <3>1. Len(bufs'[n].data) = len + t /\ bufferleft' = bufferleft - t
      BY <1>1, <1>12, <1>17
    <3> HIDE DEF len
    <3> QED
      BY <1>6, <1>7, <1>9, <3>1
  <2>3. is_first' \in BOOLEAN /\ (is_first' <=> ~(should_small_first' /\ n >= 2))
    BY <1>1, <1>2, <1>10 DEF TailInv, n
  <2>4. n # 0
    BY <1>5, <1>8
  <2> QED
    BY <1>10, <1>16, <1>18, <2>1, <2>2, <2>3, <2>4 DEF TailInv
<1>22. /\ n > 0 => bufs[1].from = 0
       /\ \A b \in 1 .. n :
            /\ bufs[b].order = b - 1 /\ ~bufs[b].F /\ ~bufs[b].L
            /\ \A j \in 1 .. Len(bufs[b].data) : bufs[b].data[j] = bufs[b].from + j - 1
       /\ \A b \in 1 .. n - 1 :
            /\ bufs[b].size = Room(should_small_first, b)
            /\ Len(bufs[b].data) = Room(should_small_first, b)
            /\ bufs[b + 1].from = bufs[b].from + Room(should_small_first, b)
            /\ bufs[b].from + Room(should_small_first, b) <= bufs[n].from
  BY <1>1 DEF BufsInv, n
<1>23. BufsInv'
  <2>1. bufs'[1].from = 0
    BY <1>5, <1>8, <1>17, <1>22
  <2>2. ASSUME NEW b \in 1 .. n
        PROVE  /\ bufs'[b].order = b - 1 /\ ~bufs'[b].F /\ ~bufs'[b].L
               /\ \A j \in 1 .. Len(bufs'[b].data) : bufs'[b].data[j] = bufs'[b].from + j - 1
    <3>1. bufs'[b].order = b - 1 /\ ~bufs'[b].F /\ ~bufs'[b].L
      BY <1>17, <1>22
    <3>2. CASE b # n
      BY <1>17, <1>22, <3>1, <3>2
    <3>3. CASE b = n
      <4>1. ASSUME NEW j \in 1 .. len + t
            PROVE  d[j] = bufs[n].from + j - 1
        <5>1. CASE j \in 1 .. len
          BY <1>8, <1>12, <1>22, <5>1
        <5>2. CASE j \in len + 1 .. len + t
          <6>1. d[j] = chunk[j - len] /\ j - len \in 1 .. t
            BY <1>7, <1>9, <1>12, <5>2
          <6>2. chunk[j - len] = pos + (j - len) - 1
            BY <1>11, <6>1
          <6> HIDE DEF len
          <6> QED
            BY <1>7, <1>9, <6>1, <6>2
        <5> HIDE DEF len
        <5> QED
          BY <1>7, <1>9, <5>1, <5>2
      <4> QED
        BY <1>8, <1>12, <1>17, <3>1, <3>3, <4>1
    <3> QED
      BY <3>2, <3>3
  <2>3. ASSUME NEW b \in 1 .. n - 1
        PROVE  /\ bufs'[b].size = Room(should_small_first, b)
               /\ Len(bufs'[b].data) = Room(should_small_first, b)
               /\ bufs'[b + 1].from = bufs'[b].from + Room(should_small_first, b)
               /\ bufs'[b].from + Room(should_small_first, b) <= bufs'[n].from
    <3>1. b \in 1 .. n /\ b + 1 \in 1 .. n /\ b # n /\ n \in 1 .. n
      BY <1>5
    <3> QED
      BY <1>17, <1>22, <3>1
  <2> QED
    BY <1>10, <1>16, <2>1, <2>2, <2>3 DEF BufsInv
<1>24. Segmented'
  BY <1>1 DEF Segmented
<1> QED
  BY <1>1, <1>3, <1>4, <1>20, <1>21, <1>23, <1>24 DEF CutInv

(* The last buffer is as full as its size says: a message whose first      *)
(* packet is small has more than one.                                      *)
LEMMA FinishCut == CutInv /\ Finish => CutInv'
<1> SUFFICES ASSUME CutInv, Finish PROVE CutInv'
  OBVIOUS
<1> DEFINE n == Len(bufs)
<1>1. /\ ArgsInv /\ CountInv /\ PlaceInv /\ TailInv /\ BufsInv
      /\ phase' = "read" /\ iov_idx > Len(iov)
  BY DEF CutInv, Finish
<1>0. bufs' = [b \in 1 .. n |->
           [bufs[b] EXCEPT !.size = IF b = n THEN PAYLOAD_SIZE - bufferleft ELSE @,
                           !.order = IF b = 1 THEN n ELSE @,
                           !.F = (b = 1), !.L = (b = n)]]
  BY DEF Finish
<1>2. UNCHANGED <<args, counting>>
  BY DEF Finish
<1>3. ArgsInv'
  BY <1>1, <1>2 DEF ArgsInv, args
<1>4. CountInv'
  BY <1>1, <1>2 DEF CountInv, args, counting
<1>5. n \in Nat /\ bufs \in Seq(Buffer)
  BY <1>1 DEF BufsInv
<1>6. iov_idx = Len(iov) + 1 /\ copied = 0 /\ Total \in Nat /\ n # 0
  BY <1>1, ArgsFacts DEF PlaceInv, Total
<1>7. /\ bufs[n].from + Len(bufs[n].data) = Total + 0
      /\ Len(bufs[n].data) + bufferleft = Room(should_small_first, n) /\ bufferleft \in Nat
  <2>1. n > 0
    <3>1. n \in Nat
      BY <1>5
    <3> HIDE DEF n
    <3> QED
      BY <1>6, <3>1
  <2> QED
    BY <1>1, <1>6, <2>1 DEF TailInv, Total
<1>8. \A b \in 1 .. n : bufs[b] \in Buffer
  BY <1>5
<1>9. /\ bufs[1].from = 0
      /\ \A b \in 1 .. n :
           /\ bufs[b].order = b - 1
           /\ \A j \in 1 .. Len(bufs[b].data) : bufs[b].data[j] = bufs[b].from + j - 1
      /\ \A b \in 1 .. n - 1 :
           /\ bufs[b].size = Room(should_small_first, b)
           /\ Len(bufs[b].data) = Room(should_small_first, b)
           /\ bufs[b + 1].from = bufs[b].from + Room(should_small_first, b)
           /\ bufs[b].from + Room(should_small_first, b) <= bufs[n].from
  <2>1. n > 0
    <3>1. n \in Nat
      BY <1>5
    <3> HIDE DEF n
    <3> QED
      BY <1>6, <3>1
  <2> QED
    BY <1>1, <2>1 DEF BufsInv
<1>10. should_small_first => Total > PAYLOAD_SIZE
  BY <1>1 DEF CountInv, should_small_first, Total
<1>11. n \in Nat
  BY <1>5
<1> HIDE DEF n
<1>12. n \in 1 .. n /\ 1 \in 1 .. n
  BY <1>6, <1>11
<1>13. Len(bufs[n].data) \in Nat /\ bufs[n].from \in Nat
  BY <1>8, <1>12 DEF Buffer
<1>14. Len(bufs[n].data) = PAYLOAD_SIZE - bufferleft /\ Len(bufs[n].data) <= Room(should_small_first, n)
  <2>1. ~(n = 1 /\ should_small_first)
    <3> SUFFICES ASSUME n = 1, should_small_first PROVE FALSE
      OBVIOUS
    <3>1. Room(should_small_first, n) = MIN_PAYLOAD_SIZE
      BY DEF Room
    <3>2. Len(bufs[n].data) = Total
      BY <1>6, <1>7, <1>9, <1>13
    <3>3. Len(bufs[n].data) + bufferleft = MIN_PAYLOAD_SIZE /\ bufferleft \in Nat
      BY <1>7, <3>1
    <3>4. Len(bufs[n].data) > PAYLOAD_SIZE
      BY <1>10, <3>2
    <3> QED
      BY <1>13, <3>3, <3>4, SizesAssumption
  <2>2. Room(should_small_first, n) = PAYLOAD_SIZE
    BY <2>1 DEF Room
  <2> QED
    BY <1>7, <1>13, <2>2, SizesAssumption
<1>15. \A b \in 1 .. n :
         /\ bufs'[b].from = bufs[b].from /\ bufs'[b].data = bufs[b].data
         /\ bufs'[b].size = IF b = n THEN PAYLOAD_SIZE - bufferleft ELSE bufs[b].size
         /\ bufs'[b].order = IF b = 1 THEN n ELSE bufs[b].order
         /\ bufs'[b].F = (b = 1) /\ bufs'[b].L = (b = n)
  BY <1>0, <1>8 DEF Buffer
<1>16. Len(bufs') = n
  <2> DEFINE f(b) == [bufs[b] EXCEPT !.size = IF b = n THEN PAYLOAD_SIZE - bufferleft ELSE @,
                                     !.order = IF b = 1 THEN n ELSE @,
                                     !.F = (b = 1), !.L = (b = n)]
  <2>1. bufs' = [b \in 1 .. n |-> f(b)]
    BY <1>0
  <2> HIDE DEF f
  <2> QED
    BY <1>11, <2>1
<1>17. should_small_first' = should_small_first /\ Total' = Total
  BY <1>2 DEF should_small_first, Total, args, counting
<1>18. \A b \in 1 .. n : Room(should_small_first, b) \in Nat /\ Capacity(b)' = Room(should_small_first, b)
  BY <1>17, SizesAssumption DEF Room, Capacity
<1>19. bufs'[1].from = 0 /\ bufs'[n].from + bufs'[n].size = Total
  <2>1. bufs'[n].size = Len(bufs[n].data) /\ bufs'[n].from = bufs[n].from /\ bufs'[1].from = bufs[1].from
    BY <1>12, <1>14, <1>15
  <2> QED
    BY <1>6, <1>7, <1>9, <2>1
<1>20. ASSUME NEW b \in 1 .. n
       PROVE  /\ Len(bufs'[b].data) = bufs'[b].size
              /\ bufs'[b].size <= Room(should_small_first, b)
              /\ b < n => /\ bufs'[b].size = Room(should_small_first, b)
                          /\ bufs'[b + 1].from = bufs'[b].from + bufs'[b].size
              /\ \A j \in 1 .. bufs'[b].size : bufs'[b].data[j] = bufs'[b].from + j - 1
              /\ bufs'[b].order = IF b = 1 THEN n ELSE b - 1
  <2>1. bufs'[b].order = IF b = 1 THEN n ELSE b - 1
    BY <1>9, <1>15, SMTT(30)
  <2>2. CASE b = n
    <3>1. bufs'[b].size = Len(bufs[n].data) /\ bufs'[b].from = bufs[n].from /\ bufs'[b].data = bufs[n].data
      BY <1>12, <1>14, <1>15, <2>2
    <3> QED
      BY <1>9, <1>11, <1>12, <1>14, <2>1, <2>2, <3>1, SMTT(30)
  <2>3. CASE b # n
    <3>1. b \in 1 .. n - 1 /\ b + 1 \in 1 .. n
      BY <1>11, <2>3
    <3>2. /\ bufs'[b].size = Room(should_small_first, b) /\ bufs'[b].from = bufs[b].from
          /\ bufs'[b].data = bufs[b].data /\ Len(bufs[b].data) = Room(should_small_first, b)
          /\ bufs'[b + 1].from = bufs[b].from + Room(should_small_first, b)
      <4>1. /\ bufs[b].size = Room(should_small_first, b)
            /\ Len(bufs[b].data) = Room(should_small_first, b)
            /\ bufs[b + 1].from = bufs[b].from + Room(should_small_first, b)
        BY ONLY <1>9, <3>1, Zenon
      <4>2. /\ bufs'[b].from = bufs[b].from /\ bufs'[b].data = bufs[b].data
            /\ bufs'[b].size = IF b = n THEN PAYLOAD_SIZE - bufferleft ELSE bufs[b].size
        BY ONLY <1>15, b \in 1 .. n, Zenon
      <4>3. bufs'[b].size = bufs[b].size
        BY ONLY <2>3, <4>2, Zenon
      <4>4. bufs'[b + 1].from = bufs[b + 1].from
        BY ONLY <1>15, <3>1, Zenon
      <4> QED BY ONLY <4>1, <4>2, <4>3, <4>4, Zenon
    <3>3. \A j \in 1 .. Len(bufs[b].data) : bufs[b].data[j] = bufs[b].from + j - 1
      BY <1>9
    <3>4. Room(should_small_first, b) <= Room(should_small_first, b)
      BY <1>18
    <3> QED
      BY <2>1, <3>2, <3>3, <3>4
  <2> QED
    BY <2>2, <2>3
<1>21. Segmented'
  <2>1. n > 0
    BY <1>6, <1>11
  <2> QED
    <3>1. \A b \in 1 .. n : bufs'[b].F = (b = 1) /\ bufs'[b].L = (b = n)
      BY Zenon, <1>15
    <3>2. \A b \in 1 .. n :
            /\ Len(bufs'[b].data) = bufs'[b].size
            /\ bufs'[b].size <= Capacity(b)'
            /\ b < n => /\ bufs'[b].size = Capacity(b)'
                        /\ bufs'[b + 1].from = bufs'[b].from + bufs'[b].size
            /\ \A j \in 1 .. bufs'[b].size : bufs'[b].data[j] = bufs'[b].from + j - 1
            /\ bufs'[b].order = IF b = 1 THEN n ELSE b - 1
      BY ZenonT(30), <1>18, <1>20
    <3> QED
      BY ZenonT(60), <1>16, <1>17, <1>19, <2>1, <3>1, <3>2 DEF Segmented
<1>22. EndsInv'
  <2>1. ASSUME NEW b \in 1 .. n
        PROVE  bufs'[b] \in Buffer
    <3>1. PAYLOAD_SIZE - bufferleft \in Nat
      BY <1>13, <1>14, Zenon
    <3>2. bufs[b] \in Buffer
      BY <1>8, Zenon
    <3>3. PICK sz \in Nat, o \in Nat :
            bufs'[b] = [bufs[b] EXCEPT !.size = sz, !.order = o, !.F = (b = 1), !.L = (b = n)]
      <4>1. bufs[b].size \in Nat /\ bufs[b].order \in Nat
        BY <3>2 DEF Buffer
      <4>2. (IF b = n THEN PAYLOAD_SIZE - bufferleft ELSE bufs[b].size) \in Nat
        BY <3>1, <4>1
      <4>3. (IF b = 1 THEN n ELSE bufs[b].order) \in Nat
        BY <1>11, <4>1
      <4> QED
        BY <1>0, <4>2, <4>3, Zenon
    <3> QED
      BY <3>2, <3>3 DEF Buffer
  <2>2. bufs' \in Seq(Buffer)
    <3>1. PICK f : f = bufs'
      BY Zenon
    <3>2. f = [b \in 1 .. n |-> f[b]]
      BY <1>0, <3>1, Zenon
    <3>3. \A b \in 1 .. n : f[b] \in Buffer
      BY <2>1, <3>1, Zenon
    <3>4. f \in [1 .. n -> Buffer]
      BY <3>2, <3>3, Zenon
    <3>5. f \in Seq(Buffer)
      BY <1>11, <3>4
    <3> QED
      BY <3>1, <3>5, Zenon
  <2>3. ASSUME NEW b \in 1 .. n
        PROVE  bufs'[b].from + bufs'[b].size <= Total
    <3>1. CASE b = n
      BY <1>6, <1>19, <3>1
    <3>2. CASE b # n
      <4>1. b \in 1 .. n - 1 /\ b < n
        BY <1>11, <3>2
      <4>2. bufs'[b].from + bufs'[b].size <= bufs'[n].from
        BY <1>9, <1>12, <1>15, <1>20, <4>1, Zenon
      <4>3. /\ bufs'[b].from \in Nat /\ bufs'[b].size \in Nat
            /\ bufs'[n].from \in Nat /\ bufs'[n].size \in Nat
        BY <1>12, <2>1 DEF Buffer
      <4> QED
        BY <1>19, <4>2, <4>3
    <3> QED
      BY <3>1, <3>2, Zenon
  <2> QED
    BY <1>16, <1>17, <2>2, <2>3, Zenon DEF EndsInv
<1> QED
  BY <1>1, <1>3, <1>4, <1>21, <1>22 DEF CutInv

(* Reading leaves the buffers alone, and a step of the reader is taken     *)
(* only when the message is cut.                                           *)
LEMMA ReaderCut ==
  ASSUME CutInv, UNCHANGED <<phase, args, counting, bufs>>, phase = "read"
  PROVE  CutInv'
<1>1. ArgsInv' /\ CountInv'
  BY DEF CutInv, ArgsInv, CountInv, args, counting
<1>2. Segmented'
  BY SMTT(30) DEF CutInv, Segmented, Capacity, should_small_first, Total, args, counting
<1>3. EndsInv'
  BY DEF CutInv, EndsInv, Total, args
<1> QED
  BY <1>1, <1>2, <1>3 DEF CutInv

(* No call of the reader is under way before there are buffers to read.    *)
CallInv == phase # "read" => call = "none"

(* Every step of r2p2_prepare_msg and of the reader keeps the invariant.   *)
LEMMA StepCut == CutInv /\ CallInv /\ [Next]_vars => CutInv' /\ CallInv'
<1> SUFFICES ASSUME CutInv, CallInv, [Next]_vars PROVE CutInv' /\ CallInv'
  OBVIOUS
<1>1. CASE Count
  BY <1>1, CountCut DEF Count, CallInv, reading
<1>2. CASE CountDone
  BY <1>2, CountDoneCut DEF CountDone, CallInv, reading
<1>3. CASE NewBuffer
  BY <1>3, NewBufferCut DEF NewBuffer, CallInv, reading
<1>4. CASE Copy
  BY <1>4, CopyCut DEF Copy, CallInv, reading
<1>5. CASE Finish
  <2>1. phase' = "read"
    BY <1>5 DEF Finish
  <2> QED
    BY <1>5, <2>1, FinishCut DEF CallInv
<1>6. ASSUME NEW f \in {"read", "skip"}, NEW size \in ReadSizes, ReaderCall(f, size)
      PROVE  CutInv' /\ CallInv'
  <2>1. phase = "read" /\ phase' = "read" /\ UNCHANGED <<phase, args, counting, bufs>>
    BY <1>6 DEF ReaderCall
  <2> QED
    BY <2>1, ReaderCut DEF CallInv
<1>7. CASE NextBuffer
  <2>1. phase = "read" /\ phase' = "read" /\ UNCHANGED <<phase, args, counting, bufs>>
    BY <1>7 DEF NextBuffer, CallInv
  <2> QED
    BY <2>1, ReaderCut DEF CallInv
<1>8. CASE ReadBytes
  <2>1. phase = "read" /\ phase' = "read" /\ UNCHANGED <<phase, args, counting, bufs>>
    BY <1>8 DEF ReadBytes, CallInv
  <2> QED
    BY <2>1, ReaderCut DEF CallInv
<1>9. CASE SkipBytes
  <2>1. phase = "read" /\ phase' = "read" /\ UNCHANGED <<phase, args, counting, bufs>>
    BY <1>9 DEF SkipBytes, CallInv
  <2> QED
    BY <2>1, ReaderCut DEF CallInv
<1>10. CASE Return
  <2>1. phase = "read" /\ phase' = "read" /\ UNCHANGED <<phase, args, counting, bufs>>
    BY <1>10 DEF Return, CallInv
  <2> QED
    BY <2>1, ReaderCut DEF CallInv
<1>11. CASE UNCHANGED vars
  <2>1. /\ phase' = phase /\ iov' = iov /\ off' = off /\ isRequest' = isRequest /\ i' = i
        /\ total_payload' = total_payload /\ single_packet_msg' = single_packet_msg
        /\ iov_idx' = iov_idx /\ copied' = copied /\ bufferleft' = bufferleft
        /\ is_first' = is_first /\ bufs' = bufs /\ call' = call
    BY <1>11 DEF vars, args, counting, copying, reading
  <2> QED
    <3>1. should_small_first' = should_small_first /\ Total' = Total
      BY <2>1 DEF should_small_first, Total
    <3>2. ArgsInv' /\ CountInv' /\ CallInv'
      BY <2>1, <3>1 DEF CutInv, CallInv, ArgsInv, CountInv, Total
    <3>3. phase # "read" => PlaceInv' /\ TailInv'
      BY <2>1, <3>1 DEF CutInv, PlaceInv, TailInv
    <3>4. phase # "read" => BufsInv'
      BY <2>1, <3>1 DEF CutInv, BufsInv
    <3>5. Segmented'
      BY <2>1, SMTT(30) DEF CutInv, Segmented, Capacity, Total, should_small_first
    <3>6. phase = "read" => EndsInv'
      BY <2>1, <3>1 DEF CutInv, EndsInv
    <3> QED
      BY <2>1, <3>2, <3>3, <3>4, <3>5, <3>6 DEF CutInv
<1> QED
  BY <1>1, <1>2, <1>3, <1>4, <1>5, <1>6, <1>7, <1>8, <1>9, <1>10, <1>11 DEF Next

(* r2p2_prepare_msg, for every payload size, every small-first size up to  *)
(* it and every message: the packets hold the message, in order, full      *)
(* except for the last, with the sizes, numbers and flags the header needs.*)
THEOREM Segmentation == Spec => []Segmented
<1>1. Init => CutInv /\ CallInv
  BY InitCut DEF Init, CallInv
<1>2. CutInv => Segmented
  BY DEF CutInv
<1> QED
  BY <1>1, <1>2, StepCut, PTL DEF Spec
-----------------------------------------------------------------------------
(* The reader. *)

(* What the second loop left behind has the types it should.               *)
CopyTyped ==
  /\ iov_idx \in Nat /\ copied \in Nat /\ is_first \in BOOLEAN
  /\ bufferleft \in 0 .. PAYLOAD_SIZE

(* Where the reader stands: what it has passed over is what lies before    *)
(* the bytes left in its buffer, and what it was asked for beyond that is  *)
(* what is left of the call.  It has no buffer once it is at the end.      *)
ReaderInv ==
  LET n == Len(bufs) IN
  /\ seen \in Seq(Nat) /\ asked \in Nat /\ left \in Nat /\ call \in {"none", "read", "skip"}
  /\ current \in Nat /\ left_in_buffer \in 0 .. PAYLOAD_SIZE
  /\ asked = Len(seen) + left
  /\ ReadsInOrder
  /\ phase # "read" =>
       call = "none" /\ left = 0 /\ Len(seen) = 0 /\ current = 1 /\ left_in_buffer = 0
  /\ phase = "read" =>
       /\ current \in 1 .. n + 1
       /\ current <= n => /\ left_in_buffer <= bufs[current].size
                          /\ Len(seen) = bufs[current].from + bufs[current].size - left_in_buffer
                          /\ call = "none" => left = 0
       /\ current = n + 1 => call = "none" /\ Len(seen) = Total

RInv == CutInv /\ CallInv /\ CopyTyped /\ ReaderInv

(* Nothing is read before the message is cut.                              *)
LEMMA InitRead == Init => CopyTyped /\ ReaderInv
<1> SUFFICES ASSUME Init PROVE CopyTyped /\ ReaderInv
  OBVIOUS
<1>1. CopyTyped
  BY SizesAssumption DEF Init, CopyTyped
<1>2. /\ seen = <<>> /\ asked = 0 /\ left = 0 /\ call = "none" /\ current = 1
      /\ left_in_buffer = 0 /\ phase = "count"
  BY DEF Init
<1>3. seen \in Seq(Nat) /\ Len(seen) = 0
  BY <1>2
<1>4. ReadsInOrder
  BY <1>3 DEF ReadsInOrder
<1>5. ReaderInv
  BY <1>2, <1>3, <1>4, SizesAssumption DEF ReaderInv
<1> QED
  BY <1>1, <1>5

(* While the message is cut, the loop's own invariant has these types; the *)
(* reader leaves them alone.                                               *)
LEMMA CuttingTyped == CutInv /\ phase # "read" => CopyTyped
<1> SUFFICES ASSUME CutInv, phase # "read" PROVE CopyTyped
  OBVIOUS
<1>1. ArgsInv /\ PlaceInv /\ TailInv /\ BufsInv
  BY DEF CutInv
<1>2. iov_idx \in Nat /\ copied \in Nat /\ is_first \in BOOLEAN /\ bufferleft \in Nat
  BY <1>1, ArgsFacts DEF PlaceInv, TailInv
<1>3. PICK n : n = Len(bufs)
  BY Zenon
<1>4. n \in Nat /\ bufs \in Seq(Buffer)
  BY <1>1, <1>3 DEF BufsInv
<1>5. CASE n = 0
  <2>1. bufferleft = 0
    BY <1>1, <1>3, <1>5, Zenon DEF TailInv
  <2> QED
    BY <1>2, <2>1, SizesAssumption DEF CopyTyped
<1>6. CASE n > 0
  <2>1. Len(bufs[n].data) + bufferleft = Room(should_small_first, n)
    BY <1>1, <1>3, <1>6, Zenon DEF TailInv
  <2>2. bufs[n] \in Buffer
    BY <1>3, <1>4, <1>6
  <2>3. Len(bufs[n].data) \in Nat
    BY <2>2 DEF Buffer
  <2>4. Room(should_small_first, n) \in Nat /\ Room(should_small_first, n) <= PAYLOAD_SIZE
    BY SizesAssumption DEF Room
  <2>5. bufferleft <= PAYLOAD_SIZE
    <3>1. PICK l, r : l = Len(bufs[n].data) /\ r = Room(should_small_first, n)
      BY Zenon
    <3>2. l \in Nat /\ r \in Nat /\ r <= PAYLOAD_SIZE /\ l + bufferleft = r
      BY ONLY <2>1, <2>3, <2>4, <3>1, Zenon
    <3> QED BY ONLY <1>2, <3>2, SizesAssumption, SMT
  <2> QED
    BY <1>2, <2>5, SizesAssumption DEF CopyTyped
<1> QED
  BY <1>4, <1>5, <1>6

(* r2p2_prepare_msg leaves the reader alone.                               *)
LEMMA CuttingRead ==
  ASSUME ReaderInv, UNCHANGED reading, phase # "read", phase' # "read"
  PROVE  ReaderInv'
<1>1. UNCHANGED <<current, left_in_buffer, call, left, asked, seen>>
  BY Zenon DEF reading
<1> QED
  BY <1>1 DEF ReaderInv, ReadsInOrder

(* The reader starts at the first byte.                                    *)
LEMMA FinishRead == CutInv' /\ ReaderInv /\ Finish => ReaderInv'
<1> SUFFICES ASSUME CutInv', ReaderInv, Finish PROVE ReaderInv'
  OBVIOUS
<1>1. /\ phase = "copy" /\ phase' = "read" /\ left_in_buffer' = bufs'[1].size
      /\ UNCHANGED <<current, call, left, asked, seen>>
  BY DEF Finish
<1>2. /\ call = "none" /\ left = 0 /\ Len(seen) = 0 /\ current = 1
      /\ seen \in Seq(Nat) /\ asked \in Nat /\ asked = Len(seen) + left /\ ReadsInOrder
  BY <1>1 DEF ReaderInv
<1>3. EndsInv' /\ Segmented'
  BY <1>1 DEF CutInv
<1>4. Len(bufs') > 0 /\ bufs'[1].from = 0
  BY <1>1, <1>3, Zenon DEF Segmented
<1>5. Len(bufs') \in Nat /\ 1 \in 1 .. Len(bufs') /\ bufs'[1] \in Buffer
  BY <1>3, <1>4 DEF EndsInv
<1>6. bufs'[1].size \in Nat /\ bufs'[1].size <= Capacity(1)'
  <2>1. bufs'[1].size <= Capacity(1)'
    BY <1>1, <1>3, <1>5, Zenon DEF Segmented
  <2> QED
    BY <1>5, <2>1 DEF Buffer
<1>7. Capacity(1)' \in Nat /\ Capacity(1)' <= PAYLOAD_SIZE
  BY SizesAssumption DEF Capacity
<1>8. left_in_buffer' \in 0 .. PAYLOAD_SIZE
  BY <1>1, <1>6, <1>7, SizesAssumption
<1>9. ReadsInOrder'
  BY <1>1, <1>2 DEF ReadsInOrder
<1>10. Len(seen') = bufs'[1].from + bufs'[1].size - left_in_buffer'
  BY <1>1, <1>2, <1>4, <1>6
<1>11. left_in_buffer' <= bufs'[1].size
  BY <1>1, <1>6
<1>12. 1 \in 1 .. Len(bufs') + 1 /\ 1 # Len(bufs') + 1
  BY <1>5
<1> QED
  BY <1>1, <1>2, <1>5, <1>8, <1>9, <1>10, <1>11, <1>12 DEF ReaderInv

(* gbuffer_read and gbuffer_skip are called with a buffer to read from.    *)
LEMMA CallRead ==
  ASSUME ReaderInv, NEW f \in {"read", "skip"}, NEW size \in ReadSizes, ReaderCall(f, size)
  PROVE  ReaderInv'
<1>1. /\ phase = "read" /\ phase' = "read" /\ call = "none" /\ current <= Len(bufs)
      /\ call' = f /\ left' = size /\ asked' = asked + size
      /\ UNCHANGED <<bufs, current, left_in_buffer, seen>> /\ UNCHANGED args
  BY DEF ReaderCall
<1>2. /\ seen \in Seq(Nat) /\ asked \in Nat /\ asked = Len(seen) + left /\ ReadsInOrder
      /\ current \in Nat /\ left_in_buffer \in 0 .. PAYLOAD_SIZE /\ current \in 1 .. Len(bufs) + 1
      /\ left_in_buffer <= bufs[current].size
      /\ Len(seen) = bufs[current].from + bufs[current].size - left_in_buffer /\ left = 0
  BY <1>1, Zenon DEF ReaderInv
<1>3. size \in Nat /\ Len(seen) \in Nat
  BY <1>2, SizesAssumption
<1>4. asked' \in Nat /\ asked' = Len(seen') + left'
  BY <1>1, <1>2, <1>3
<1>5. ReadsInOrder'
  BY <1>1, <1>2 DEF ReadsInOrder
<1>6. current' # Len(bufs') + 1 /\ call' \in {"none", "read", "skip"} /\ call' # "none"
  BY <1>1, <1>2
<1>7. /\ seen' \in Seq(Nat) /\ current' \in Nat /\ left_in_buffer' \in 0 .. PAYLOAD_SIZE
      /\ current' \in 1 .. Len(bufs') + 1 /\ left_in_buffer' <= bufs'[current'].size
      /\ Len(seen') = bufs'[current'].from + bufs'[current'].size - left_in_buffer' /\ left' \in Nat
  BY <1>1, <1>2, <1>3, Zenon
<1> QED
  BY <1>1, <1>4, <1>5, <1>6, <1>7, Zenon DEF ReaderInv

(* While a call is under way the reader has a buffer, whose bytes are the  *)
(* ones that follow what it has passed over.                               *)
LEMMA AtBuffer ==
  ASSUME CutInv, ReaderInv, call # "none"
  PROVE  /\ phase = "read" /\ current \in 1 .. Len(bufs) /\ Len(bufs) \in Nat
         /\ bufs[current].from \in Nat /\ bufs[current].size \in Nat
         /\ bufs[current].data \in Seq(Nat) /\ Len(bufs[current].data) = bufs[current].size
         /\ left_in_buffer \in 0 .. bufs[current].size /\ Len(seen) \in Nat
         /\ Len(seen) = bufs[current].from + bufs[current].size - left_in_buffer
         /\ \A j \in 1 .. bufs[current].size : bufs[current].data[j] = bufs[current].from + j - 1
<1>1. phase = "read"
  BY DEF ReaderInv
<1>2. EndsInv /\ Segmented
  BY <1>1 DEF CutInv
<1>3. Len(bufs) \in Nat
  BY <1>2 DEF EndsInv
<1>4. current \in 1 .. Len(bufs) + 1 /\ current # Len(bufs) + 1
  BY <1>1, Zenon DEF ReaderInv
<1>5. current \in 1 .. Len(bufs) /\ current <= Len(bufs)
  BY <1>3, <1>4
<1>6. bufs[current] \in Buffer
  BY <1>2, <1>5 DEF EndsInv
<1>7. /\ bufs[current].from \in Nat /\ bufs[current].size \in Nat /\ bufs[current].data \in Seq(Nat)
  BY <1>6 DEF Buffer
<1>8. /\ Len(bufs[current].data) = bufs[current].size
      /\ \A j \in 1 .. bufs[current].size : bufs[current].data[j] = bufs[current].from + j - 1
  BY <1>1, <1>2, <1>5, Zenon DEF Segmented
<1>9. /\ left_in_buffer <= bufs[current].size /\ seen \in Seq(Nat)
      /\ left_in_buffer \in 0 .. PAYLOAD_SIZE
      /\ Len(seen) = bufs[current].from + bufs[current].size - left_in_buffer
  BY <1>1, <1>5, Zenon DEF ReaderInv
<1>10. left_in_buffer \in 0 .. bufs[current].size /\ Len(seen) \in Nat
  BY <1>7, <1>9, SizesAssumption
<1> QED
  BY <1>1, <1>3, <1>5, <1>7, <1>8, <1>9, <1>10, Zenon

(* Both functions pass over the next k bytes: at most what is left of the  *)
(* call, and what is left of the buffer.                                   *)
LEMMA PassRead ==
  ASSUME CutInv, ReaderInv, call # "none",
         NEW k \in Nat, k <= left, k <= left_in_buffer,
         seen' = seen \o AtReader(k), left' = left - k, left_in_buffer' = left_in_buffer - k,
         UNCHANGED <<phase, args, bufs, current, call, asked>>
  PROVE  ReaderInv'
<1>1. /\ phase = "read" /\ current \in 1 .. Len(bufs) /\ Len(bufs) \in Nat
      /\ bufs[current].from \in Nat /\ bufs[current].size \in Nat
      /\ left_in_buffer \in 0 .. bufs[current].size /\ Len(seen) \in Nat
      /\ Len(seen) = bufs[current].from + bufs[current].size - left_in_buffer
      /\ \A j \in 1 .. bufs[current].size : bufs[current].data[j] = bufs[current].from + j - 1
  BY AtBuffer, Zenon
<1>2. PICK from, size : from = bufs[current].from /\ size = bufs[current].size
  BY Zenon
<1>3. /\ from \in Nat /\ size \in Nat /\ left_in_buffer \in Nat /\ left_in_buffer <= size
      /\ Len(seen) = from + size - left_in_buffer
      /\ \A j \in 1 .. size : bufs[current].data[j] = from + j - 1
  BY <1>1, <1>2, SMTT(30)
<1>4. PICK chunk : chunk = AtReader(k)
  BY Zenon
<1>5. ASSUME NEW j \in 1 .. k
      PROVE  bufs[current].data[size - left_in_buffer + j] = Len(seen) + j - 1
  <2>1. size - left_in_buffer + j \in 1 .. size
    BY <1>3
  <2>2. bufs[current].data[size - left_in_buffer + j] = from + (size - left_in_buffer + j) - 1
    BY <1>3, <2>1, Zenon
  <2>3. PICK N : N = Len(seen)
    BY Zenon
  <2>4. N = from + size - left_in_buffer
    BY <1>3, <2>3, Zenon
  <2>5. from + (size - left_in_buffer + j) - 1 = N + j - 1
    BY <1>3, <2>4
  <2> QED
    BY <2>2, <2>3, <2>5, Zenon
<1>6. chunk = [j \in 1 .. k |-> bufs[current].data[size - left_in_buffer + j]]
  BY <1>2, <1>4, Zenon DEF AtReader
<1>7. chunk = [j \in 1 .. k |-> Len(seen) + j - 1]
  BY <1>5, <1>6, Zenon
<1>8. chunk \in Seq(Nat) /\ Len(chunk) = k /\ \A j \in 1 .. k : chunk[j] = Len(seen) + j - 1
  BY <1>1, <1>7
<1>9. /\ seen \in Seq(Nat) /\ asked \in Nat /\ left \in Nat /\ call \in {"none", "read", "skip"}
      /\ current \in Nat /\ asked = Len(seen) + left /\ ReadsInOrder
      /\ left_in_buffer \in 0 .. PAYLOAD_SIZE
  BY Zenon DEF ReaderInv
<1>10. /\ seen' \in Seq(Nat) /\ Len(seen') = Len(seen) + k
       /\ \A j \in 1 .. Len(seen) : seen'[j] = seen[j]
       /\ \A j \in Len(seen) + 1 .. Len(seen) + k : seen'[j] = chunk[j - Len(seen)]
  <2>1. seen' = seen \o chunk
    BY <1>4, Zenon
  <2>2. /\ seen \o chunk \in Seq(Nat) /\ Len(seen \o chunk) = Len(seen) + Len(chunk)
        /\ \A j \in 1 .. Len(seen) : (seen \o chunk)[j] = seen[j]
        /\ \A j \in Len(seen) + 1 .. Len(seen) + Len(chunk) : (seen \o chunk)[j] = chunk[j - Len(seen)]
    BY <1>8, <1>9, Concat, Zenon
  <2> QED
    BY <1>8, <2>1, <2>2, Zenon
<1>11. ReadsInOrder'
  <2>1. ASSUME NEW j \in 1 .. Len(seen') PROVE seen'[j] = j - 1
    <3>1. CASE j \in 1 .. Len(seen)
      BY <1>9, <1>10, <3>1, Zenon DEF ReadsInOrder
    <3>2. CASE ~(j \in 1 .. Len(seen))
      <4>3. PICK N \in Nat : N = Len(seen)
        BY <1>1, Zenon
      <4>4. j \in 1 .. N + k /\ ~(j \in 1 .. N)
        BY <1>10, <3>2, <4>3, Zenon
      <4>5. j \in N + 1 .. N + k /\ j - N \in 1 .. k
        BY <4>4
      <4>1. j \in Len(seen) + 1 .. Len(seen) + k /\ j - Len(seen) \in 1 .. k
        BY <4>3, <4>5, Zenon
      <4>2. seen'[j] = Len(seen) + (j - Len(seen)) - 1
        BY <1>8, <1>10, <4>1, Zenon
      <4> QED
        BY <1>1, <4>1, <4>2, SMTT(30)
    <3> QED
      BY <3>1, <3>2, Zenon
  <2> QED
    BY <2>1, Zenon DEF ReadsInOrder
<1>12. asked' = Len(seen') + left' /\ left' \in Nat
  BY <1>1, <1>9, <1>10, SMTT(30)
<1>13. /\ left_in_buffer' \in 0 .. PAYLOAD_SIZE /\ left_in_buffer' <= size
       /\ Len(seen') = from + size - left_in_buffer'
  <2>1. PICK s, l : s = Len(seen) /\ l = left_in_buffer
    BY Zenon
  <2>2. /\ s = from + size - l /\ l <= size /\ l \in 0 .. PAYLOAD_SIZE /\ k <= l
        /\ Len(seen') = s + k /\ left_in_buffer' = l - k
    BY <1>3, <1>9, <1>10, <2>1, Zenon
  <2>3. from \in Nat /\ size \in Nat /\ PAYLOAD_SIZE \in Nat
    BY <1>3, SizesAssumption, Zenon
  <2>4. l - k \in 0 .. PAYLOAD_SIZE /\ l - k <= size /\ s + k = from + size - (l - k)
    BY <2>2, <2>3
  <2> QED
    BY <2>2, <2>4, Zenon
<1>14. current' \in 1 .. Len(bufs') + 1 /\ current' # Len(bufs') + 1
  BY <1>1
<1>15. phase' = "read" /\ bufs'[current'].from = from /\ bufs'[current'].size = size /\ call' # "none"
  BY <1>1, <1>2, Zenon
<1> QED
  BY <1>9, <1>10, <1>11, <1>12, <1>13, <1>14, <1>15, Zenon DEF ReaderInv

(* On to the next buffer, or off the end of the message.                   *)
LEMMA NextBufferRead == CutInv /\ ReaderInv /\ NextBuffer => ReaderInv'
<1> SUFFICES ASSUME CutInv, ReaderInv, NextBuffer PROVE ReaderInv'
  OBVIOUS
<1>1. /\ call # "none" /\ left > 0 /\ left_in_buffer = 0 /\ current' = current + 1
      /\ UNCHANGED <<phase, args, bufs, left, asked, seen>>
  BY DEF NextBuffer
<1>2. /\ phase = "read" /\ current \in 1 .. Len(bufs) /\ Len(bufs) \in Nat
      /\ bufs[current].from \in Nat /\ bufs[current].size \in Nat /\ Len(seen) \in Nat
      /\ Len(seen) = bufs[current].from + bufs[current].size - left_in_buffer
  BY <1>1, AtBuffer, Zenon
<1>3. Len(seen) = bufs[current].from + bufs[current].size
  BY <1>1, <1>2, SMTT(30)
<1>4. /\ seen \in Seq(Nat) /\ asked \in Nat /\ left \in Nat /\ call \in {"none", "read", "skip"}
      /\ asked = Len(seen) + left /\ ReadsInOrder /\ left_in_buffer \in 0 .. PAYLOAD_SIZE
  BY Zenon DEF ReaderInv
<1>5. ReadsInOrder'
  BY <1>1, <1>4 DEF ReadsInOrder
<1>6. Segmented /\ EndsInv
  BY <1>2 DEF CutInv
<1>7. CASE current = Len(bufs)
  <2>1. call' = "none" /\ left_in_buffer' = left_in_buffer
    BY <1>7, Zenon DEF NextBuffer
  <2>2. Len(seen) = Total
    BY <1>2, <1>3, <1>6, <1>7, Zenon DEF Segmented
  <2>3. Total' = Total
    BY <1>1 DEF Total, args
  <2>4. current' = Len(bufs') + 1 /\ current' \in 1 .. Len(bufs') + 1 /\ ~(current' <= Len(bufs'))
        /\ current' \in Nat
    BY <1>1, <1>2, <1>7
  <2> QED
    BY <1>1, <1>2, <1>4, <1>5, <2>1, <2>2, <2>3, <2>4, Zenon DEF ReaderInv
<1>8. CASE current # Len(bufs)
  <2>1. call' = call /\ left_in_buffer' = bufs[current + 1].size
    BY <1>8, Zenon DEF NextBuffer
  <2>2. current < Len(bufs) /\ current + 1 \in 1 .. Len(bufs) /\ current' \in 1 .. Len(bufs) + 1
        /\ current' # Len(bufs) + 1 /\ current' \in Nat
    BY <1>1, <1>2, <1>8
  <2>3. bufs[current + 1].from = Len(seen)
    BY <1>2, <1>3, <1>6, <2>2, Zenon DEF Segmented
  <2>4. bufs[current + 1].size \in Nat /\ bufs[current + 1].from \in Nat
    <3>1. bufs[current + 1] \in Buffer
      BY <1>6, <2>2 DEF EndsInv
    <3> QED
      BY <3>1 DEF Buffer
  <2>5. bufs[current + 1].size <= Capacity(current + 1)
    BY <1>2, <1>6, <2>2, Zenon DEF Segmented
  <2>6. Capacity(current + 1) \in Nat /\ Capacity(current + 1) <= PAYLOAD_SIZE
    BY SizesAssumption DEF Capacity
  <2>7. PICK from, size : from = bufs[current + 1].from /\ size = bufs[current + 1].size
    BY Zenon
  <2>8. /\ left_in_buffer' \in 0 .. PAYLOAD_SIZE /\ left_in_buffer' <= size
        /\ Len(seen) = from + size - left_in_buffer'
    BY <1>2, <2>1, <2>3, <2>4, <2>5, <2>6, <2>7, SizesAssumption
  <2>9. bufs'[current'].from = from /\ bufs'[current'].size = size /\ call' # "none" /\ bufs' = bufs
    BY <1>1, <2>1, <2>7, Zenon
  <2> QED
    BY <1>1, <1>2, <1>4, <1>5, <2>1, <2>2, <2>8, <2>9, Zenon DEF ReaderInv
<1> QED
  BY <1>7, <1>8, Zenon

(* A call that is over leaves nothing to do.                               *)
LEMMA ReturnRead == CutInv /\ ReaderInv /\ Return => ReaderInv'
<1> SUFFICES ASSUME CutInv, ReaderInv, Return PROVE ReaderInv'
  OBVIOUS
<1>1. /\ call # "none" /\ left = 0 /\ call' = "none"
      /\ UNCHANGED <<phase, args, bufs, current, left_in_buffer, left, asked, seen>>
  BY DEF Return
<1>2. phase = "read" /\ current \in 1 .. Len(bufs) /\ Len(bufs) \in Nat
  BY <1>1, AtBuffer, Zenon
<1>3. current' # Len(bufs') + 1
  BY <1>1, <1>2
<1>4. ReadsInOrder'
  BY <1>1 DEF ReaderInv, ReadsInOrder
<1>5. phase' = "read" /\ bufs' = bufs /\ current' = current /\ left_in_buffer' = left_in_buffer
      /\ left' = left /\ asked' = asked /\ seen' = seen
  BY <1>1, <1>2, Zenon
<1> QED
  BY <1>1, <1>2, <1>3, <1>4, <1>5, Zenon DEF ReaderInv

(* gbuffer_read takes what the buffer has, or what the call wants.         *)
LEMMA ReadBytesRead == CutInv /\ ReaderInv /\ ReadBytes => ReaderInv'
<1> SUFFICES ASSUME CutInv, ReaderInv, ReadBytes PROVE ReaderInv'
  OBVIOUS
<1>1. left \in Nat /\ left_in_buffer \in 0 .. PAYLOAD_SIZE
  BY DEF ReaderInv
<1>2. PICK k : k = Smaller(left_in_buffer, left)
  BY Zenon
<1>3. k \in Nat /\ k <= left /\ k <= left_in_buffer
  BY <1>1, <1>2, SizesAssumption DEF Smaller
<1>4. /\ call # "none" /\ seen' = seen \o AtReader(k) /\ left' = left - k
      /\ left_in_buffer' = left_in_buffer - k
      /\ UNCHANGED <<phase, args, bufs, current, call, asked>>
  BY <1>2 DEF ReadBytes
<1> QED
  BY <1>3, <1>4, PassRead, Zenon

(* gbuffer_skip has a branch for each.                                     *)
LEMMA SkipBytesRead == CutInv /\ ReaderInv /\ SkipBytes => ReaderInv'
<1> SUFFICES ASSUME CutInv, ReaderInv, SkipBytes PROVE ReaderInv'
  OBVIOUS
<1>1. left \in Nat /\ left_in_buffer \in Nat
  BY SizesAssumption DEF ReaderInv
<1>2. call # "none" /\ UNCHANGED <<phase, args, bufs, current, call, asked>>
  BY DEF SkipBytes
<1>3. CASE left_in_buffer < left
  <2>1. seen' = seen \o AtReader(left_in_buffer) /\ left' = left - left_in_buffer /\ left_in_buffer' = 0
    BY <1>3, Zenon DEF SkipBytes
  <2>2. left_in_buffer <= left /\ left_in_buffer <= left_in_buffer /\ left_in_buffer - left_in_buffer = 0
    BY <1>1, <1>3
  <2> QED
    BY <1>1, <1>2, <2>1, <2>2, PassRead, Zenon
<1>4. CASE ~(left_in_buffer < left)
  <2>1. seen' = seen \o AtReader(left) /\ left' = 0 /\ left_in_buffer' = left_in_buffer - left
    BY <1>4, Zenon DEF SkipBytes
  <2>2. left <= left_in_buffer /\ left <= left /\ left - left = 0
    BY <1>1, <1>4
  <2> QED
    BY <1>1, <1>2, <2>1, <2>2, PassRead, Zenon
<1> QED
  BY <1>3, <1>4, Zenon

(* Every step keeps the whole invariant.                                   *)
LEMMA StepRead == RInv /\ [Next]_vars => RInv'
<1> SUFFICES ASSUME RInv, [Next]_vars PROVE RInv'
  OBVIOUS
<1>1. CutInv /\ CallInv /\ CopyTyped /\ ReaderInv /\ CutInv' /\ CallInv'
  BY StepCut, Zenon DEF RInv
<1>2. CopyTyped'
  <2>1. CASE phase' # "read"
    <3>1. (CutInv /\ phase # "read" => CopyTyped)'
      BY CuttingTyped, PTL
    <3> QED
      BY <1>1, <2>1, <3>1, Zenon
  <2>2. CASE phase' = "read"
    <3>1. UNCHANGED copying
      BY <1>1, <2>2
         DEF Next, Count, CountDone, NewBuffer, Copy, Finish, ReaderCall, NextBuffer, ReadBytes,
                        SkipBytes, Return, vars
    <3>2. UNCHANGED <<iov_idx, copied, bufferleft, is_first>>
      BY <3>1, Zenon DEF copying
    <3> QED
      BY <1>1, <3>2 DEF CopyTyped
  <2> QED
    BY <2>1, <2>2, Zenon
<1>3. ReaderInv'
  <2>1. CASE Count \/ CountDone \/ NewBuffer \/ Copy
    <3>1. UNCHANGED reading /\ phase # "read" /\ phase' # "read"
      BY <2>1 DEF Count, CountDone, NewBuffer, Copy
    <3> QED
      BY <1>1, <3>1, CuttingRead, Zenon
  <2>2. CASE Finish
    BY <1>1, <2>2, FinishRead, Zenon
  <2>3. CASE \E f \in {"read", "skip"}, size \in ReadSizes : ReaderCall(f, size)
    BY <1>1, <2>3, CallRead, Zenon
  <2>4. CASE NextBuffer
    BY <1>1, <2>4, NextBufferRead, Zenon
  <2>5. CASE ReadBytes
    BY <1>1, <2>5, ReadBytesRead, Zenon
  <2>6. CASE SkipBytes
    BY <1>1, <2>6, SkipBytesRead, Zenon
  <2>7. CASE Return
    BY <1>1, <2>7, ReturnRead, Zenon
  <2>8. CASE UNCHANGED vars
    <3>1. UNCHANGED <<phase, args, bufs, reading>>
      BY <2>8, Zenon DEF vars
    <3>2. /\ phase' = phase /\ bufs' = bufs /\ current' = current /\ left_in_buffer' = left_in_buffer
          /\ call' = call /\ left' = left /\ asked' = asked /\ seen' = seen /\ off' = off /\ iov' = iov
      BY <3>1, Zenon DEF args, reading
    <3>3. Total' = Total
      BY <3>2, Zenon DEF Total
    <3>4. ReadsInOrder' <=> ReadsInOrder
      BY <3>2, Zenon DEF ReadsInOrder
    <3> QED
      BY <1>1, <3>2, <3>3, <3>4, Zenon DEF ReaderInv
  <2> QED
    BY <2>1, <2>2, <2>3, <2>4, <2>5, <2>6, <2>7, <2>8, Zenon DEF Next
<1> QED
  BY <1>1, <1>2, <1>3, Zenon DEF RInv

(* The invariant of cutting and reading, for every payload size, message   *)
(* and sequence of calls.                                                  *)
THEOREM Inductive == Spec => []RInv
<1>1. Init => RInv
  BY InitCut, InitRead DEF Init, CallInv, RInv
<1> QED
  BY <1>1, StepRead, PTL DEF Spec

(* The types of the locals of r2p2_prepare_msg and of the reader; neither  *)
(* bufferleft nor left_in_buffer leaves a packet's payload.                *)
THEOREM Typed == Spec => []TypeOK
<1>1. RInv => TypeOK
  <2> SUFFICES ASSUME RInv PROVE TypeOK
    OBVIOUS
  <2>1. CutInv /\ CopyTyped /\ ReaderInv
    BY DEF RInv
  <2>2. ArgsInv /\ CountInv /\ phase \in {"count", "copy", "read"}
    BY <2>1 DEF CutInv
  <2>3. bufs \in Seq(Buffer)
    BY <2>1 DEF CutInv, BufsInv, EndsInv
  <2>4. iov \in Seq(Nat) /\ off \in Seq(Nat) /\ isRequest \in BOOLEAN /\ i \in Nat
        /\ total_payload \in Nat /\ single_packet_msg \in BOOLEAN
    BY <2>2, ArgsFacts DEF CountInv
  <2> QED
    BY <2>1, <2>2, <2>3, <2>4, Zenon DEF TypeOK, CopyTyped, ReaderInv, Buffer
<1> QED
  BY <1>1, Inductive, PTL

(* gbuffer_read and gbuffer_skip, in any mix of calls and sizes, pass over *)
(* the bytes of any message in order, across any packet boundary.          *)
THEOREM InOrder == Spec => []ReadsInOrder
<1>1. RInv => ReadsInOrder
  BY DEF RInv, ReaderInv
<1> QED
  BY <1>1, Inductive, PTL

(* A call returns short only when the message is at its end, and then the  *)
(* whole of it has been passed over.                                       *)
THEOREM Complete == Spec => []ReadsComplete
<1>1. RInv => ReadsComplete
  <2> SUFFICES ASSUME RInv, phase = "read", call = "none"
               PROVE  Len(seen) = Smaller(asked, Total)
    BY DEF ReadsComplete
  <2>1. CutInv /\ ReaderInv
    BY DEF RInv
  <2>2. /\ seen \in Seq(Nat) /\ asked \in Nat /\ left \in Nat /\ asked = Len(seen) + left
        /\ left_in_buffer \in 0 .. PAYLOAD_SIZE /\ current \in 1 .. Len(bufs) + 1
    BY <2>1, Zenon DEF ReaderInv
  <2>3. EndsInv /\ ArgsInv
    BY <2>1 DEF CutInv
  <2>4. Total \in Nat
    BY <2>3, ArgsFacts DEF Total
  <2>5. CASE current <= Len(bufs)
    <3>1. left = 0 /\ Len(seen) = bufs[current].from + bufs[current].size - left_in_buffer
      BY <2>1, <2>5, Zenon DEF ReaderInv
    <3>2. current \in 1 .. Len(bufs)
      BY <2>2, <2>3, <2>5 DEF EndsInv
    <3>3. bufs[current].from + bufs[current].size <= Total /\ bufs[current] \in Buffer
      BY <2>3, <3>2 DEF EndsInv
    <3>4. bufs[current].from \in Nat /\ bufs[current].size \in Nat /\ Len(seen) \in Nat
      BY <2>2, <3>3 DEF Buffer
    <3>5. Len(seen) <= Total /\ asked = Len(seen)
      BY <2>2, <2>4, <3>1, <3>3, <3>4, SizesAssumption, SMTT(30)
    <3> QED
      BY <2>4, <3>4, <3>5 DEF Smaller
  <2>6. CASE ~(current <= Len(bufs))
    <3>1. Len(bufs) \in Nat
      BY <2>3 DEF EndsInv
    <3>2. current = Len(bufs) + 1
      BY <2>2, <2>6, <3>1
    <3>3. Len(seen) = Total
      BY <2>1, <3>2, Zenon DEF ReaderInv
    <3> QED
      BY <2>2, <2>4, <3>3 DEF Smaller
  <2> QED
    BY <2>5, <2>6, Zenon
<1> QED
  BY <1>1, Inductive, PTL
=============================================================================
