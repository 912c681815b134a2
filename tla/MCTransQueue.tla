---------------------------- MODULE MCTransQueue ----------------------------
EXTENDS TransQueueImpl, TLC

CONSTANTS p1, s1, i1, d1, d2

(* PEEK, SELECT, INSERT and twice DELETE. *)
FiveTrans == {p1, s1, i1, d1, d2}
FiveCommands == (p1 :> 1) @@ (s1 :> 2) @@ (i1 :> 3) @@ (d1 :> 5) @@ (d2 :> 5)
=============================================================================
