------------------------------ MODULE MCR2P2 ------------------------------
(***************************************************************************)
(* Instances of R2P2: message lengths for the requests of a run.           *)
(***************************************************************************)
EXTENDS R2P2, TLC

Servers_any == Permutations(Servers)

Len_212 == <<2, 1, 2>>
Len_221 == <<2, 2, 1>>
Len_33 == <<3, 3>>
Len_11 == <<1, 1>>
=============================================================================
