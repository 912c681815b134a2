----------------------------- MODULE MCStorage -----------------------------
EXTENDS StorageImpl, TLC

CONSTANTS k1, k2, a, b, empty

TwoKeys == {k1, k2}

(* Records of 3 and 6 bytes.  A page of 9 bytes holds one of each exactly, *)
(* or two of a, but not two of b.  When a goes from before b, b moves by   *)
(* less than its length; everything else moves by enough.                  *)
Values == {a, b}
Sizes == (a :> 1) @@ (b :> 4)

(* Records of 4 and 6 bytes, for a page of 8: a and b together pass the    *)
(* test of headers_alloc_page although their length fields make them too   *)
(* long.  Where an offset can count 10 bytes it wraps to 0 behind them.    *)
TightSizes == (a :> 2) @@ (b :> 4)

(* The same with an empty value, which is refused. *)
TightValues == {a, b, empty}
EmptySizes == TightSizes @@ (empty :> 0)

KeySymmetry == Permutations(Key)

(* The state of the program.  Views leave out history that no property of  *)
(* a run reads, and the LSNs of which a property only says that they are   *)
(* numbers; no guard reads any of these but ops.                           *)
Engine ==
    <<status, [p \in DOMAIN headers |-> [headers[p] EXCEPT !.pLSN = 0]], uploaded, mem,
      lru, hashmap, [disk EXCEPT !.lsn = 0], [file EXCEPT !.lsn = 0], main, worker,
      defrag, ops>>

(* After damage nothing depends on what the contents should have been, or  *)
(* on which damage it was, until a start sets kv and damage anew; quiet is *)
(* set anew when the next handler begins.                                  *)
UpToDamage ==
    <<Engine, saved, IF damage \subseteq {"clean"} THEN <<kv, quiet, damage>> ELSE <<>>>>
=============================================================================
