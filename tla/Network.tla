------------------------------- MODULE Network -------------------------------
(***************************************************************************)
(* Packets in flight, as a function from each of them to the number of its *)
(* copies.  Sockets of the kernel and of the DPDK stack are external: what *)
(* is sent may be delivered in any order, late, or never, and the users of *)
(* this module say whether it may be duplicated.                           *)
(***************************************************************************)
EXTENDS Integers

Empty == [m \in {} |-> 0]

(* The network once the packets S have been sent. *)
Put(S, ms) ==
  [m \in DOMAIN ms \cup S |->
     (IF m \in DOMAIN ms THEN ms[m] ELSE 0) + (IF m \in S THEN 1 ELSE 0)]

(* The network once a copy of each of the packets S has been taken out. *)
Take(S, ms) ==
  [m \in {x \in DOMAIN ms : x \in S => ms[x] > 1} |->
     IF m \in S THEN ms[m] - 1 ELSE ms[m]]
=============================================================================
