--------------------------- MODULE PriorityQueue ---------------------------
(***************************************************************************)
(* What the transaction queue promises to the threads that use it: an      *)
(* entry goes in whole, and what comes out is an entry with a least key.   *)
(* The key is what heap.c compares, four bytes of which one is the command *)
(* and the others are padding; how far this is from the documented order   *)
(* of requests is the subject of TransQueueOrder.                          *)
(* TransQueueImpl states that the heap, its mutex and its semaphore        *)
(* implement this; the module Request is built on it.                      *)
(***************************************************************************)
EXTENDS Integers

CONSTANT Entry      \* the possible entries, with an integer field key

VARIABLE queue      \* the entries that are in the queue

Init == queue = {}

Push(e) ==
    /\ e \notin queue
    /\ queue' = queue \cup {e}

Pop(e) ==
    /\ e \in queue
    /\ \A other \in queue : e.key <= other.key
    /\ queue' = queue \ {e}

Next == \E e \in Entry : Push(e) \/ Pop(e)

Spec == Init /\ [][Next]_queue
=============================================================================
