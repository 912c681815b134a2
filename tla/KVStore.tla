------------------------------ MODULE KVStore ------------------------------
(***************************************************************************)
(* What the storage engine promises: a map from keys to values that only   *)
(* insertions and deletions change, and of which a snapshot keeps a copy   *)
(* that the next start begins with.                                        *)
(*                                                                         *)
(* The promise has two limits.  An engine that was harmed promises nothing *)
(* about its contents until it starts again from a sound copy, and while   *)
(* a copy is being written there is none.                                  *)
(***************************************************************************)
CONSTANTS Key, Value, None, Down, Unknown

VARIABLES
    contents, \* what a lookup finds, Unknown after harm, Down when not running
    durable   \* the contents of the last snapshot, or Unknown

vars == <<contents, durable>>

Contents == [Key -> Value \cup {None}]

Init == contents = [k \in Key |-> None] /\ durable = contents

Running == contents \notin {Down, Unknown}

Insert(k, v) ==
    /\ Running /\ contents[k] = None
    /\ contents' = [contents EXCEPT ![k] = v]
    /\ UNCHANGED durable

Delete(k) ==
    /\ Running /\ contents[k] # None
    /\ contents' = [contents EXCEPT ![k] = None]
    /\ UNCHANGED durable

(* The copy is given up, and a new one is completed. *)
BeginCopy == durable' = Unknown /\ UNCHANGED contents
EndCopy == Running /\ durable' = contents /\ UNCHANGED contents

Harm == Running /\ contents' = Unknown /\ durable' \in {durable, Unknown}

Stop == contents # Down /\ contents' = Down /\ durable' \in {durable, Unknown}

Start == contents = Down /\ contents' = durable /\ UNCHANGED durable

Next ==
    /\ vars' # vars
    /\ \/ \E k \in Key : Delete(k) \/ \E v \in Value : Insert(k, v)
       \/ BeginCopy \/ EndCopy \/ Harm \/ Stop \/ Start

Spec == Init /\ [][Next]_vars
=============================================================================
