---------------------------- MODULE MCHovercraft ----------------------------
(* Instances of Hovercraft: which copies of the requests may arrive.       *)
EXTENDS Hovercraft, TLC

AllCopies == Nodes \X Requests

(* The copies to the followers are lost: they recover every request.       *)
ToLeader == {c \in AllCopies : c[1] = Leader}

(* The requests are alike where all have side effects and Copies treats    *)
(* them alike.                                                             *)
AnyRequest == Permutations(Requests)
=============================================================================
