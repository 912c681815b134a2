--------------------------- MODULE TransQueueOrder ---------------------------
(***************************************************************************)
(* The order in which the transaction queue is documented to serve its     *)
(* requests, which is not the one of the keys that heap.c compares.  A     *)
(* history variable is added to TransQueue: the pending transactions in    *)
(* the order of their arrival.                                             *)
(***************************************************************************)
EXTENDS TransQueue, SequencesExt

VARIABLE arrived

orderVars == <<vars, arrived>>

OrderInit == Init /\ arrived = <<>>

OrderNext ==
    /\ Next
    /\ arrived' = SelectSeq(arrived, LAMBDA t : t \in pending')
                      \o SetToSeq(pending' \ pending)

OrderSpec == OrderInit /\ [][OrderNext]_orderVars
-----------------------------------------------------------------------------
(* The classes of TODO.md: PEEK, SELECT, and the modifying commands. *)
Class(t) == IF Command[t] <= 2 THEN Command[t] ELSE 3

(* What the worker takes in a step. *)
Popped == pending \ pending'

Arrival(t) == CHOOSE i \in DOMAIN arrived : arrived[i] = t

(* TODO.md has three classes, with INSERT, UPDATE and DELETE in one, and   *)
(* says that transactions are executed in the order in which they enter    *)
(* the queue: of what is in the heap, the worker takes one of the least    *)
(* class and in it the one that came first.                                *)
ServedInOrder ==
    [][\A t \in Popped : \A i \in DOMAIN heap :
          LET u == heap[i].trans
          IN  \/ Class(t) < Class(u)
              \/ Class(t) = Class(u) /\ Arrival(t) <= Arrival(u)]_orderVars
=============================================================================
