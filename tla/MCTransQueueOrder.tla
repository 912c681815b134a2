-------------------------- MODULE MCTransQueueOrder --------------------------
EXTENDS TransQueueOrder

CONSTANTS p1, i1, d1

(* PEEK, INSERT and DELETE. *)
ThreeTrans == {p1, i1, d1}
ThreeCommands == (p1 :> 1) @@ (i1 :> 3) @@ (d1 :> 5)
=============================================================================
