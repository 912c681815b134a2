--------------------------- MODULE TransQueueImpl ---------------------------
(***************************************************************************)
(* The heap of the module TransQueue as a priority queue.  While           *)
(* heap_insert looks for the place of the new entry, the entry at the      *)
(* current index is a hole: what it holds is also somewhere else, or is    *)
(* not yet in the queue.                                                   *)
(***************************************************************************)
EXTENDS TransQueue

PossibleEntry ==
    {[key |-> Command[t] + 256 * pad, trans |-> t] : t \in Trans, pad \in Padding}

Queued ==
    {heap[i] : i \in {j \in DOMAIN heap : loop.pc = "insert" => j # at}}

PQ == INSTANCE PriorityQueue WITH Entry <- PossibleEntry, queue <- Queued

(* push_queue adds one entry and pop_queue takes one with the least key,   *)
(* each at one moment of its run, however the two threads interleave and   *)
(* however the entries are moved inside the heap.                          *)
ImplementsPriorityQueue == PQ!Spec
=============================================================================
