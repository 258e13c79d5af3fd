----------------------------- MODULE MCMessage -----------------------------
(* Instances of Message: all messages of up to MaxIov iovecs of up to      *)
(* MaxLen bytes, the offsets computed from the lengths.                    *)
EXTENDS Message, SequencesExt

CONSTANTS MaxIov, MinLen, MaxLen

Offsets(lens) == [k \in 1 .. Len(lens) + 1 |-> FoldLeft(+, 0, SubSeq(lens, 1, k - 1))]

MCMessages ==
  {[iov |-> lens, off |-> Offsets(lens)] :
     lens \in UNION {[1 .. n -> MinLen .. MaxLen] : n \in 1 .. MaxIov}}
=============================================================================
