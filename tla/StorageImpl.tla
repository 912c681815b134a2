---------------------------- MODULE StorageImpl ----------------------------
(***************************************************************************)
(* The storage engine implements KVStore.  Its contents are what a lookup  *)
(* would read: through the hash map, the key vector of a page, and the     *)
(* bytes of the arena or, for a page that is not heated, of the file.  Its *)
(* durable copy is what a start would read from the files.                 *)
(***************************************************************************)
EXTENDS Storage

CONSTANTS Down, Unknown

ASSUME ViewAssumption ==
    Down # Unknown /\ Down \notin Contents /\ Unknown \notin Contents

(* An insertion into a clean page harms only the files. *)
Visible ==
    IF status # "up" THEN Down
    ELSE IF damage \subseteq {"clean"} THEN [k \in Key |-> Stored(k)] ELSE Unknown

OnFile ==
    IF saved.ok /\ file.state = "whole" THEN [k \in Key |-> Decoded(k)] ELSE Unknown

KV == INSTANCE KVStore WITH contents <- Visible, durable <- OnFile

(* No step of either thread changes what a lookup finds, except the ones   *)
(* that add a key to the hash map or take one out, until one of the events *)
(* in damage: neither moving values in a page, nor heating, dumping or     *)
(* half a signal handler.  A start finds what the snapshot recorded.       *)
ImplementsKVStore == KV!Spec
=============================================================================
