------------------------------- MODULE MCWal -------------------------------
EXTENDS Wal, TLC

CONSTANTS k1, k2, v1

Keys == {k1, k2}

(* Keys as long as in the tests: 3 bytes, the number of INSERT, and 4.     *)
KeySizes == (k1 :> 3) @@ (k2 :> 4)
=============================================================================
