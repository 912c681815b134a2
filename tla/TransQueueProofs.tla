-------------------------- MODULE TransQueueProofs --------------------------
(***************************************************************************)
(* The safety of the transaction queue for any number of transactions, any *)
(* padding and any page size.                                              *)
(*                                                                         *)
(* The argument is a count: what the semaphore promises, together with the *)
(* entry that a worker past sem_wait has already claimed, is what the heap *)
(* holds, except for the entry of a push that has not posted yet, and one  *)
(* too many for every sem_wait that a signal has interrupted.  The count   *)
(* is only meaningful while one thread at a time is in the heap, so it is  *)
(* proved together with the ownership of the mutex.                        *)
(***************************************************************************)
EXTENDS TransQueueImpl, WellFoundedInduction, TLAPS

(* The mutex is held exactly by the thread that is inside the heap. *)
MutexHeld ==
    /\ mutex = "loop" <=> LoopInside
    /\ mutex = "worker" <=> WorkerInside

(* The worker is on its way to an entry, or came back without one. *)
Empty == worker.pc \in {"unlock", "execute", "SIGSEGV"} /\ worker.trans = NULL
Claimed == IF worker.pc \in {"lock", "delmin"} \/ Empty THEN 1 ELSE 0
Unposted == IF loop.pc \in {"insert", "post"} THEN 1 ELSE 0

(* The semaphore counts the entries that nobody claimed yet, and those     *)
(* that a worker has popped without a count.                               *)
SemaphoreCounts == sem + Claimed + Unposted = Len(heap) + uncounted

(* The worker has no transaction in hand before it popped one, and an      *)
(* interrupted wait is not over before the handler is.                     *)
WorkerHands ==
    /\ worker.pc \in {"wait", "interrupted", "lock", "delmin"} => worker.trans = NULL
    /\ worker.pc = "sift" => worker.trans # NULL
    /\ Empty => uncounted > 0

(* The loops work inside the heap, on an entry that exists. *)
LoopsInHeap ==
    /\ loop.pc \in {"lock", "insert"} => loop.entry \in Entry
    /\ loop.pc = "insert" => at \in 1 .. Len(heap)
    /\ worker.pc = "sift" => at \in Nat \ {0}

Inv == TypeOK /\ MutexHeld /\ SemaphoreCounts /\ WorkerHands /\ LoopsInHeap
-----------------------------------------------------------------------------
(* The invariant holds for the queue that init_queue makes. *)
LEMMA InitInv == Init => Inv
BY QueueAssumption DEF Init, Inv, TypeOK, MutexHeld, SemaphoreCounts, Claimed, Empty,
    Unposted, WorkerHands, LoopsInHeap, LoopInside, WorkerInside, Entry, NoEntry

(* What the steps of the two threads are, and those of the signals: the    *)
(* latter leave the heap and the event loop as they are.                   *)
LEMMA Steps ==
    ASSUME [Next]_vars
    PROVE  \/ /\ UNCHANGED signalVars
              /\ \/ on_request \/ push_lock \/ SiftUp \/ InsertEntry \/ push_post
                 \/ push_unlock \/ pop_wait \/ pop_lock \/ DelMin \/ DelMinNothing
                 \/ SiftDown \/ DelMinDone \/ pop_unlock \/ execute \/ DereferenceNull
           \/ SIGUSR1
           \/ \E th \in Thread : HandlerReturns(th)
           \/ UNCHANGED vars
BY DEF Next, Arrives, LoopStep, WorkerStep, Runs, Ended

(* What a step of the signals changes. *)
LEMMA SignalSteps ==
    ASSUME SIGUSR1 \/ \E th \in Thread : HandlerReturns(th)
    PROVE  /\ UNCHANGED <<mutex, sem, heap, allocated, at, loop, pending>>
           /\ worker' = worker \/ /\ worker.pc \in {"wait", "interrupted"}
                                  /\ \E pc \in {"interrupted", "lock"} :
                                       worker' = [worker EXCEPT !.pc = pc]
<1>1. CASE SIGUSR1
  <2>1. PICK th \in Thread :
          \/ worker' = worker
          \/ /\ th = "worker" /\ worker.pc = "wait" /\ sem = 0
             /\ worker' = [worker EXCEPT !.pc = "interrupted"]
    BY <1>1, Zenon DEF SIGUSR1
  <2>2. UNCHANGED <<mutex, sem, heap, allocated, at, loop, pending>>
    BY <1>1 DEF SIGUSR1
  <2> QED BY <2>1, <2>2
<1>2. ASSUME NEW th \in Thread, HandlerReturns(th)
      PROVE  /\ UNCHANGED <<mutex, sem, heap, allocated, at, loop, pending>>
             /\ worker' = worker \/ /\ worker.pc = "interrupted"
                                    /\ worker' = [worker EXCEPT !.pc = "lock"]
  <2>1. UNCHANGED <<mutex, sem, heap, allocated, at, loop, pending>>
    BY <1>2 DEF HandlerReturns
  <2>2. CASE th = "worker" /\ worker.pc = "interrupted"
    BY <1>2, <2>1, <2>2 DEF HandlerReturns
  <2>3. CASE ~(th = "worker" /\ worker.pc = "interrupted")
    BY <1>2, <2>1, <2>3 DEF HandlerReturns
  <2> QED BY <2>2, <2>3
<1> QED BY <1>1, <1>2

(* Every step of either thread keeps the invariant. *)
LEMMA NextInv == Inv /\ [Next]_vars => Inv'
<1> SUFFICES ASSUME Inv, [Next]_vars PROVE Inv'
    OBVIOUS
<1> USE QueueAssumption DEF Inv, TypeOK, MutexHeld, SemaphoreCounts, Claimed, Empty,
        Unposted, WorkerHands, LoopsInHeap, LoopInside, WorkerInside
<1>1. CASE on_request /\ UNCHANGED signalVars
  <2>1. PICK t \in Trans, pad \in Padding :
            loop' = [pc |-> "lock", entry |-> [key |-> Command[t] + 256 * pad, trans |-> t]]
    BY <1>1 DEF signalVars, on_request
  <2>2. [key |-> Command[t] + 256 * pad, trans |-> t] \in Entry
    <3>1. Command[t] \in Int /\ pad \in Int OBVIOUS
    <3>2. Command[t] + 256 * pad \in Int BY <3>1
    <3> QED BY <3>2, Zenon DEF Entry
  <2> QED BY <1>1, <2>1, <2>2 DEF signalVars, on_request
<1>2. CASE push_lock /\ UNCHANGED signalVars
  <2>1. PagesFor(Len(heap) + 1) \in Nat
    BY DEF PagesFor
  <2>2. heap' \in Seq(Entry) /\ Len(heap') = Len(heap) + 1
    BY <1>2 DEF signalVars, push_lock
  <2>3. TypeOK' BY <1>2, <2>1, <2>2, SMTT(30) DEF signalVars, push_lock
  <2>4. MutexHeld' BY <1>2 DEF signalVars, push_lock
  <2>5. SemaphoreCounts' BY <1>2, <2>2 DEF signalVars, push_lock
  <2> QED BY <1>2, <2>2, <2>3, <2>4, <2>5 DEF signalVars, push_lock
<1>3. CASE SiftUp /\ UNCHANGED signalVars
  <2>1. at \div 2 \in 1 .. Len(heap) /\ heap[at \div 2] \in Entry
    BY <1>3 DEF signalVars, SiftUp
  <2> QED BY <1>3, <2>1, SMTT(30) DEF signalVars, SiftUp
<1>4. CASE InsertEntry /\ UNCHANGED signalVars
  BY <1>4 DEF signalVars, InsertEntry, NoEntry
<1>5. CASE push_post /\ UNCHANGED signalVars
  BY <1>5, SMTT(30) DEF signalVars, push_post
<1>6. CASE push_unlock /\ UNCHANGED signalVars
  BY <1>6 DEF signalVars, push_unlock
<1>7. CASE pop_wait /\ UNCHANGED signalVars
  BY <1>7, SMTT(30) DEF signalVars, pop_wait
<1>8. CASE pop_lock /\ UNCHANGED signalVars
  BY <1>8 DEF signalVars, pop_lock
<1>9. CASE DelMin /\ UNCHANGED signalVars
  <2>1. heap[1].trans \in Trans
    <3>1. heap[1] \in Entry BY <1>9 DEF signalVars, DelMin
    <3> QED BY <3>1 DEF Entry
  <2>2. heap' \in Seq(Entry) /\ Len(heap') = Len(heap) - 1
    <3> DEFINE short == [i \in 1 .. (Len(heap) - 1) |->
                            IF i = 1 THEN heap[Len(heap)] ELSE heap[i]]
    <3>1. \A i \in 1 .. (Len(heap) - 1) : short[i] \in Entry
      BY <1>9 DEF signalVars, DelMin
    <3>2. short \in Seq(Entry) /\ Len(short) = Len(heap) - 1
      BY <1>9, <3>1 DEF signalVars, DelMin
    <3> QED BY <1>9, <3>2 DEF signalVars, DelMin
  <2>3. /\ worker.pc = "delmin" /\ worker' = [pc |-> "sift", trans |-> heap[1].trans]
        /\ at' = 1 /\ pending' = pending \ {heap[1].trans}
        /\ UNCHANGED <<mutex, sem, allocated, loop, handling, signals, uncounted>>
    BY <1>9 DEF signalVars, DelMin
  <2>4. TypeOK' BY <2>1, <2>2, <2>3
  <2>5. SemaphoreCounts' BY <2>2, <2>3
  <2>6. loop.pc # "insert" BY <2>3
  <2>7. MutexHeld' BY <2>3
  <2>8. WorkerHands' BY <2>1, <2>3
  <2>9. LoopsInHeap' BY <2>3, <2>6
  <2> QED BY <2>4, <2>5, <2>7, <2>8, <2>9
<1>10. CASE SiftDown /\ UNCHANGED signalVars
  <2>1. PICK c \in 2 * at .. 2 * at + 1 :
            /\ SmallerChild(c)
            /\ heap' = [heap EXCEPT ![at] = heap[c], ![c] = heap[at]]
            /\ at' = c
    BY <1>10 DEF signalVars, SiftDown
  <2>4. at \in Nat \ {0} BY <1>10 DEF SiftDown
  <2>2. c \in 1 .. Len(heap) /\ at \in 1 .. Len(heap)
    <3>1. Len(heap) \in Nat /\ c <= Len(heap)
      BY <2>1, <2>4 DEF SmallerChild
    <3> QED BY <2>4, <3>1
  <2>3. heap' \in Seq(Entry) /\ Len(heap') = Len(heap)
    BY <2>1, <2>2
  <2> QED BY <1>10, <2>1, <2>2, <2>3 DEF signalVars, SiftDown
<1>11. CASE DelMinDone /\ UNCHANGED signalVars
  <2>1. PagesAfter(Len(heap)) \in Nat
    BY DEF PagesAfter
  <2> QED BY <1>11, <2>1 DEF signalVars, DelMinDone
<1>12. CASE pop_unlock /\ UNCHANGED signalVars
  BY <1>12 DEF signalVars, pop_unlock
<1>13. CASE execute /\ UNCHANGED signalVars
  BY <1>13 DEF signalVars, execute
<1>15. CASE DelMinNothing /\ UNCHANGED signalVars
  BY <1>15 DEF DelMinNothing, signalVars
<1>16. CASE DereferenceNull /\ UNCHANGED signalVars
  BY <1>16 DEF DereferenceNull, signalVars
<1>17. CASE SIGUSR1
  <2>1. handling' \subseteq Thread /\ signals' \in Nat
    BY <1>17 DEF SIGUSR1, Takes
  <2> QED BY <1>17, <2>1 DEF SIGUSR1
<1>18. ASSUME NEW th \in Thread, HandlerReturns(th) PROVE Inv'
  <2>1. CASE th = "worker" /\ worker.pc = "interrupted"
    <3>1. /\ worker' = [worker EXCEPT !.pc = "lock"] /\ uncounted' = uncounted + 1
          /\ handling' \subseteq Thread
          /\ UNCHANGED <<mutex, sem, heap, allocated, at, loop, pending, signals>>
      BY <1>18, <2>1 DEF HandlerReturns
    <3>2. TypeOK' BY <3>1
    <3>3. SemaphoreCounts' BY <2>1, <3>1
    <3>4. MutexHeld' /\ WorkerHands' /\ LoopsInHeap' BY <2>1, <3>1
    <3> QED BY <3>2, <3>3, <3>4
  <2>2. CASE ~(th = "worker" /\ worker.pc = "interrupted")
    <3>1. /\ handling' \subseteq Thread
          /\ UNCHANGED <<mutex, sem, heap, allocated, at, loop, worker, pending, signals,
                        uncounted>>
      BY <1>18, <2>2 DEF HandlerReturns
    <3> QED BY <3>1
  <2> QED BY <2>1, <2>2
<1>14. CASE UNCHANGED vars
  BY <1>14 DEF vars, signalVars
<1> QED
  BY <1>1, <1>2, <1>3, <1>4, <1>5, <1>6, <1>7, <1>8, <1>9, <1>10, <1>11, <1>12,
     <1>13, <1>14, <1>15, <1>16, <1>17, <1>18, Steps

(* The invariant holds in every behaviour. *)
LEMMA SpecInv == Spec => []Inv
BY InitInv, NextInv, PTL DEF Spec

(* The queue's variables keep their types: in particular the semaphore     *)
(* never goes below zero and both loops stay inside the entries.           *)
THEOREM TypeCorrect == Spec => []TypeOK
<1>1. Inv => TypeOK BY DEF Inv
<1> QED BY <1>1, SpecInv, PTL

(* pthread_mutex_lock keeps the event loop and the worker apart: never are *)
(* both between the lock and the unlock of queue.c.                        *)
THEOREM Exclusion == Spec => []MutualExclusion
<1>1. Inv => MutualExclusion BY DEF Inv, MutexHeld, MutualExclusion
<1> QED BY <1>1, SpecInv, PTL

(* pop_queue returns NULL to transaction_queue_worker only after a         *)
(* sem_wait that a signal has interrupted: behind a sem_wait that counts   *)
(* there always is an entry, as long as none was interrupted.              *)
THEOREM PopNeverEmpty == Spec => []PopFindsTransaction
<1>1. Inv => PopFindsTransaction
  BY DEF Inv, TypeOK, SemaphoreCounts, Claimed, Empty, Unposted, WorkerHands,
     PopFindsTransaction
<1> QED BY <1>1, SpecInv, PTL
-----------------------------------------------------------------------------
(* heap_insert adds a page in time for one more entry. *)
LEMMA PageAdded ==
    ASSUME TypeOK, NEW n \in Nat, n <= allocated * ENTRIES_PER_PAGE
    PROVE  n + 1 <= PagesFor(n + 1) * ENTRIES_PER_PAGE
<1> DEFINE E == ENTRIES_PER_PAGE
<1>1. E \in Nat /\ E >= 1 /\ allocated \in Nat /\ allocated * E \in Nat
  BY QueueAssumption DEF TypeOK
<1>2. (allocated + 1) * E = allocated * E + E
  BY <1>1
<1> HIDE DEF E
<1>3. n + 1 <= (allocated + 1) * E
  BY <1>1, <1>2 DEF E
<1> QED BY <1>1, <1>3 DEF PagesFor, E

(* heap_delmin releases a page only when the others hold all the entries. *)
LEMMA PageReleased ==
    ASSUME TypeOK, NEW n \in Nat, n <= allocated * ENTRIES_PER_PAGE
    PROVE  n <= PagesAfter(n) * ENTRIES_PER_PAGE
<1> DEFINE E == ENTRIES_PER_PAGE
           q == n \div E
           r == n % E
           used == q + (IF r > 0 THEN 1 ELSE 0)
<1>1. E \in Nat /\ E >= 1 /\ allocated \in Nat /\ MinimumPages \in Nat
  BY QueueAssumption DEF TypeOK
<1>2. q \in Nat /\ r \in 0 .. (E - 1) /\ n = q * E + r
  BY <1>1
<1> HIDE DEF E, q, r
<1>3. (q + 1) * E = q * E + E /\ q * E \in Nat
  BY <1>1, <1>2
<1>4. n <= used * E
  BY <1>1, <1>2, <1>3
<1>5. ASSUME allocated > used + 1 PROVE n <= (allocated - 1) * E
  <2>1. used \in Nat /\ allocated - 1 \in Nat /\ used <= allocated - 1
    BY <1>1, <1>2, <1>5
  <2> HIDE DEF used
  <2>2. used * E <= (allocated - 1) * E
    BY <1>1, <2>1
  <2> QED BY <1>1, <1>4, <2>1, <2>2
<1> QED BY <1>1, <1>5 DEF PagesAfter, E, q, r

(* Every entry of the heap lies in an allocated page, for every size of a  *)
(* page: heap_insert and heap_delmin never index page_table behind its     *)
(* last page.                                                              *)
THEOREM PagesSuffice == Spec => []EntriesInPages
<1>1. Init => EntriesInPages
  BY QueueAssumption DEF Init, EntriesInPages
<1>2. Inv /\ EntriesInPages /\ [Next]_vars => EntriesInPages'
  <2> SUFFICES ASSUME Inv, EntriesInPages, [Next]_vars PROVE EntriesInPages'
    OBVIOUS
  <2>0. TypeOK /\ Len(heap) \in Nat BY DEF Inv, TypeOK
  <2>1. CASE push_lock
    <3>1. Len(heap') = Len(heap) + 1
      BY <2>1, <2>0 DEF push_lock, Inv, LoopsInHeap, TypeOK
    <3>2. allocated' = PagesFor(Len(heap) + 1) BY <2>1 DEF push_lock
    <3>3. Len(heap) + 1 <= PagesFor(Len(heap) + 1) * ENTRIES_PER_PAGE
      BY <2>0, PageAdded DEF EntriesInPages
    <3> QED BY <3>1, <3>2, <3>3 DEF EntriesInPages
  <2>2. CASE DelMinDone
    <3>1. Len(heap) <= PagesAfter(Len(heap)) * ENTRIES_PER_PAGE
      BY <2>0, PageReleased DEF EntriesInPages
    <3> QED BY <2>2, <3>1 DEF DelMinDone, EntriesInPages
  <2>3. CASE DelMin
    <3>1. Len(heap') = Len(heap) - 1 /\ allocated' = allocated
      BY <2>3, <2>0 DEF DelMin, TypeOK
    <3>2. allocated * ENTRIES_PER_PAGE \in Nat
      BY <2>0, QueueAssumption DEF TypeOK
    <3> QED BY <2>0, <3>1, <3>2 DEF EntriesInPages
  <2>4. CASE SiftUp \/ InsertEntry \/ SiftDown
    <3>1. Len(heap') = Len(heap) /\ allocated' = allocated
      BY <2>4, <2>0 DEF SiftUp, InsertEntry, SiftDown, TypeOK
    <3> QED BY <3>1 DEF EntriesInPages
  <2>5. CASE UNCHANGED <<heap, allocated>>
    BY <2>5 DEF EntriesInPages
  <2> QED
    BY <2>1, <2>2, <2>3, <2>4, <2>5, Steps, SignalSteps DEF on_request, push_post,
        push_unlock, pop_wait, pop_lock, DelMinNothing, pop_unlock, execute,
        DereferenceNull, vars
<1> QED BY <1>1, <1>2, SpecInv, PTL DEF Spec
-----------------------------------------------------------------------------
(***************************************************************************)
(* The heap of the transaction queue is a priority queue, for any number   *)
(* of transactions and any keys.                                           *)
(*                                                                         *)
(* Two invariants carry the argument.  HeapShape says how far the entries  *)
(* are in order at every moment of the two loops: heap_insert leaves the   *)
(* array in order but for the new last entry, and the entry it carries is  *)
(* before the one it will overwrite; heap_delmin leaves one entry that may *)
(* be after its children, which are not before its parent.  HeapContents   *)
(* says that the entries outside of the hole of heap_insert are those of   *)
(* the transactions that are pending, each once.                           *)
(***************************************************************************)
Key(i) == heap[i].key

(* heap_insert: the new entry may be before its parent as long as it is    *)
(* the last; later the entry at the hole is a copy that is after it.       *)
InsertShape ==
    loop.pc = "insert" =>
        /\ \A i \in 2 .. Len(heap) :
              (i < Len(heap) \/ at < Len(heap)) => Key(i \div 2) <= Key(i)
        /\ at < Len(heap) => loop.entry.key < Key(at)

(* heap_delmin: only the children of the current entry may be before it. *)
SiftShape ==
    worker.pc = "sift" =>
        /\ \A i \in 2 .. Len(heap) : i \div 2 # at => Key(i \div 2) <= Key(i)
        /\ at > 1 => \A i \in 2 .. Len(heap) : i \div 2 = at => Key(at \div 2) <= Key(i)

AllInOrder == \A i \in 2 .. Len(heap) : Key(i \div 2) <= Key(i)

HeapShape ==
    /\ InsertShape
    /\ SiftShape
    /\ loop.pc # "insert" /\ worker.pc # "sift" => AllInOrder

Active == {i \in DOMAIN heap : loop.pc = "insert" => i # at}
InHand == IF loop.pc \in {"lock", "insert"} THEN {loop.entry.trans} ELSE {}

(* What is pending is in the hands of the event loop or in the heap, once, *)
(* with a key that on_request gave it.                                     *)
HeapContents ==
    /\ pending = InHand \cup {heap[i].trans : i \in Active}
    /\ \A i, j \in Active : heap[i].trans = heap[j].trans => i = j
    /\ \A i \in Active : heap[i].trans \notin InHand
    /\ worker.trans \notin pending
    /\ \A i \in Active : heap[i] \in PossibleEntry
    /\ loop.pc \in {"lock", "insert"} => loop.entry \in PossibleEntry
-----------------------------------------------------------------------------
(* A half of an index is an index before it. *)
LEMMA ParentIndex ==
    ASSUME NEW i \in Nat, i >= 2
    PROVE  i \div 2 \in Nat /\ i \div 2 >= 1 /\ i \div 2 < i
OBVIOUS

(* The children of an index are the two that follow its double. *)
LEMMA ChildIndex ==
    ASSUME NEW i \in Nat, NEW p \in Nat
    PROVE  i \div 2 = p <=> (i = 2 * p \/ i = 2 * p + 1)
OBVIOUS

(* Keys are integers. *)
LEMMA KeyInt == ASSUME TypeOK, NEW i \in 1 .. Len(heap) PROVE Key(i) \in Int
<1>1. heap[i] \in Entry BY DEF TypeOK
<1> QED BY <1>1 DEF Entry, Key

(* The heap that init_queue makes has no entries. *)
LEMMA InitShape == Init => HeapShape
BY DEF Init, HeapShape, InsertShape, SiftShape, AllInOrder

(* Every step of either thread keeps the heap as much in order as its loop *)
(* needs.                                                                  *)
LEMMA NextShape == Inv /\ HeapShape /\ [Next]_vars => HeapShape'
<1> SUFFICES ASSUME Inv, HeapShape, [Next]_vars PROVE HeapShape'
    OBVIOUS
<1>0. TypeOK /\ Len(heap) \in Nat /\ heap \in Seq(Entry) /\ at \in Nat
  BY DEF Inv, TypeOK
<1>k. \A i \in 1 .. Len(heap) : Key(i) \in Int
  BY <1>0, KeyInt
<1>h. \A i \in 2 .. Len(heap) : i \div 2 \in 1 .. Len(heap) /\ i \div 2 < i
  BY <1>0, ParentIndex
<1>x. loop.pc = "insert" => worker.pc # "sift"
  BY DEF Inv, MutexHeld, LoopInside, WorkerInside
<1>2. CASE push_lock
  <2>1. /\ loop.pc = "lock" /\ loop'.pc = "insert" /\ worker'.pc # "sift"
        /\ heap' = Append(heap, loop.entry) /\ at' = Len(heap) + 1
        /\ loop.entry \in Entry
        /\ worker.pc # "sift"
    BY <1>2 DEF push_lock, Inv, LoopsInHeap, MutexHeld, WorkerInside, TypeOK
  <2>2. /\ Len(heap') = Len(heap) + 1
        /\ \A i \in 1 .. Len(heap) : heap'[i] = heap[i]
    BY <2>1, <1>0
  <2>3. AllInOrder BY <2>1 DEF HeapShape
  <2>4. ASSUME NEW i \in 2 .. Len(heap'), i < Len(heap') PROVE Key(i \div 2)' <= Key(i)'
    BY <2>2, <2>3, <2>4, <1>h, <1>0 DEF AllInOrder, Key
  <2> QED BY <2>1, <2>2, <2>4, <1>0 DEF HeapShape, InsertShape, SiftShape
<1>3. CASE SiftUp
  <2>1. /\ loop.pc = "insert" /\ loop' = loop /\ worker' = worker /\ worker.pc # "sift"
        /\ at > 1 /\ at <= Len(heap) /\ loop.entry.key < Key(at \div 2)
        /\ heap' = [heap EXCEPT ![at] = heap[at \div 2]]
        /\ at' = at \div 2
    BY <1>3, <1>x DEF SiftUp, Before, Key, Inv, LoopsInHeap
  <2> DEFINE p == at \div 2
  <2>2. p \in 1 .. Len(heap) /\ p < at /\ heap[p] \in Entry
    BY <2>1, <1>0, ParentIndex
  <2>3. /\ Len(heap') = Len(heap)
        /\ \A i \in 1 .. Len(heap) : heap'[i] = IF i = at THEN heap[p] ELSE heap[i]
    BY <2>1, <2>2, <1>0
  <2>4. \A i \in 1 .. Len(heap) : Key(i)' = IF i = at THEN Key(p) ELSE Key(i)
    BY <2>3 DEF Key
  <2>5. loop'.entry.key < Key(at)'
    <3>1. Key(at)' = heap'[p].key BY <2>1 DEF Key
    <3> QED BY <3>1, <2>1, <2>2, <2>3 DEF Key
  <2>6. ASSUME NEW i \in 2 .. Len(heap) PROVE Key(i \div 2)' <= Key(i)'
    <3> DEFINE q == i \div 2
    <3>1. q \in 1 .. Len(heap) /\ q < i /\ i \in 1 .. Len(heap) BY <1>h
    <3>2. CASE i = at
      BY <3>1, <3>2, <2>4, <2>2, <1>k
    <3>3. CASE i # at /\ q = at
      <4>1. at < Len(heap) BY <3>1, <3>3, <1>0
      <4>2. Key(p) <= Key(at) /\ Key(at) <= Key(i)
        BY <4>1, <3>3, <2>1, <2>2, <1>0 DEF HeapShape, InsertShape
      <4> QED BY <4>2, <3>1, <3>3, <2>2, <2>4, <1>k
    <3>4. CASE i # at /\ q # at
      <4>1. i < Len(heap) \/ at < Len(heap) BY <2>1, <3>4, <1>0
      <4>2. Key(q) <= Key(i) BY <4>1, <2>1 DEF HeapShape, InsertShape
      <4> QED BY <4>2, <3>1, <3>4, <2>4
    <3> QED BY <3>2, <3>3, <3>4
  <2> QED BY <2>1, <2>3, <2>5, <2>6 DEF HeapShape, InsertShape, SiftShape
<1>4. CASE InsertEntry
  <2>1. /\ loop.pc = "insert" /\ loop'.pc = "post" /\ worker' = worker /\ worker.pc # "sift"
        /\ at \in 1 .. Len(heap)
        /\ at = 1 \/ (at > 1 /\ ~(loop.entry.key < Key(at \div 2)))
        /\ heap' = [heap EXCEPT ![at] = loop.entry]
        /\ loop.entry \in Entry
    BY <1>4, <1>x DEF InsertEntry, Before, Key, Inv, LoopsInHeap
  <2> DEFINE k == loop.entry.key
  <2>2. k \in Int BY <2>1 DEF Entry
  <2>3. /\ Len(heap') = Len(heap)
        /\ \A i \in 1 .. Len(heap) : heap'[i] = IF i = at THEN loop.entry ELSE heap[i]
    BY <2>1, <1>0
  <2>4. \A i \in 1 .. Len(heap) : Key(i)' = IF i = at THEN k ELSE Key(i)
    BY <2>3 DEF Key
  <2> HIDE DEF k
  <2>6. ASSUME NEW i \in 2 .. Len(heap) PROVE Key(i \div 2)' <= Key(i)'
    <3> DEFINE q == i \div 2
    <3>1. q \in 1 .. Len(heap) /\ q < i /\ i \in 1 .. Len(heap) BY <1>h
    <3>2. CASE i = at
      <4>1. ~(k < Key(q)) BY <2>1, <3>2 DEF k
      <4>2. Key(i)' = k /\ Key(q)' = Key(q) BY <2>4, <3>1, <3>2
      <4>3. Key(q) \in Int BY <3>1, <1>k
      <4> QED BY <4>1, <4>2, <4>3, <2>2
    <3>3. CASE i # at /\ q = at
      <4>1. at < Len(heap) BY <3>1, <3>3, <1>0
      <4>2. k < Key(at) /\ Key(at) <= Key(i)
        BY <4>1, <3>3, <2>1, <1>0 DEF HeapShape, InsertShape, k
      <4> QED BY <4>2, <3>1, <3>3, <2>2, <2>1, <2>4, <1>k
    <3>4. CASE i # at /\ q # at
      <4>1. i < Len(heap) \/ at < Len(heap) BY <2>1, <3>4, <1>0
      <4>2. Key(q) <= Key(i) BY <4>1, <2>1 DEF HeapShape, InsertShape
      <4> QED BY <4>2, <3>1, <3>4, <2>4
    <3> QED BY <3>2, <3>3, <3>4
  <2> QED BY <2>1, <2>3, <2>6 DEF HeapShape, InsertShape, SiftShape, AllInOrder
<1>9. CASE DelMin
  <2>1. /\ worker.pc = "delmin" /\ worker'.pc = "sift" /\ loop' = loop /\ Len(heap) > 0
        /\ heap' = [i \in 1 .. (Len(heap) - 1) |->
                        IF i = 1 THEN heap[Len(heap)] ELSE heap[i]]
        /\ at' = 1
        /\ loop.pc # "insert"
    BY <1>9 DEF DelMin, Inv, MutexHeld, LoopInside, WorkerInside
  <2>2. /\ Len(heap') = Len(heap) - 1
        /\ \A i \in 2 .. (Len(heap) - 1) : heap'[i] = heap[i]
    BY <2>1, <1>0
  <2>3. AllInOrder BY <2>1 DEF HeapShape
  <2>4. ASSUME NEW i \in 2 .. Len(heap'), i \div 2 # 1 PROVE Key(i \div 2)' <= Key(i)'
    <3>1. i \in 2 .. (Len(heap) - 1) /\ i \div 2 \in 2 .. (Len(heap) - 1)
      BY <2>2, <2>4, <1>h, <1>0
    <3>2. Key(i)' = Key(i) /\ Key(i \div 2)' = Key(i \div 2)
      BY <3>1, <2>2 DEF Key
    <3>3. i \in 2 .. Len(heap) BY <3>1, <1>0
    <3> QED BY <3>2, <3>3, <2>3 DEF AllInOrder
  <2> QED BY <2>1, <2>2, <2>4 DEF HeapShape, InsertShape, SiftShape
<1>10. CASE SiftDown
  <2>1. PICK c \in 2 * at .. 2 * at + 1 :
            /\ SmallerChild(c)
            /\ heap[at].key > heap[c].key
            /\ heap' = [heap EXCEPT ![at] = heap[c], ![c] = heap[at]]
            /\ at' = c
    BY <1>10 DEF SiftDown
  <2>2. /\ worker.pc = "sift" /\ worker' = worker /\ loop' = loop /\ loop.pc # "insert"
        /\ at >= 1
    BY <1>10, <1>x, <1>0 DEF SiftDown, Inv, LoopsInHeap
  <2>3. c \in 1 .. Len(heap) /\ at \in 1 .. Len(heap) /\ at < c /\ c \div 2 = at
    <3>1. c \in Nat /\ (c = 2 * at \/ c = 2 * at + 1) BY <1>0
    <3>2. c <= Len(heap) BY <2>1, <3>1, <1>0 DEF SmallerChild
    <3>3. c \div 2 = at BY <3>1, <1>0, ChildIndex
    <3> QED BY <3>1, <3>2, <3>3, <2>2, <1>0
  <2>4. /\ Len(heap') = Len(heap)
        /\ \A i \in 1 .. Len(heap) :
              heap'[i] = IF i = c THEN heap[at] ELSE IF i = at THEN heap[c] ELSE heap[i]
    BY <2>1, <2>3, <1>0
  <2>5. \A i \in 1 .. Len(heap) :
              Key(i)' = IF i = c THEN Key(at) ELSE IF i = at THEN Key(c) ELSE Key(i)
    BY <2>4 DEF Key
  <2>6. ASSUME NEW s \in 2 .. Len(heap), s \div 2 = at PROVE Key(c) <= Key(s)
    <3>1. s = 2 * at \/ s = 2 * at + 1 BY <2>6, <1>0, ChildIndex
    <3>2. Key(2 * at) \in Int /\ Key(s) \in Int BY <3>1, <2>2, <1>0, <1>k
    <3>3. CASE 2 * at + 1 <= Len(heap) /\ Key(2 * at) > Key(2 * at + 1)
      <4>1. c = 2 * at + 1 BY <3>3, <2>1 DEF SmallerChild, Key
      <4> QED BY <4>1, <3>1, <3>2, <3>3, <2>3, <1>k
    <3>4. CASE ~(2 * at + 1 <= Len(heap) /\ Key(2 * at) > Key(2 * at + 1))
      <4>1. c = 2 * at BY <3>4, <2>1 DEF SmallerChild, Key
      <4> QED BY <4>1, <3>1, <3>2, <3>4
    <3> QED BY <3>3, <3>4
  <2>7. Key(at) > Key(c) BY <2>1 DEF Key
  <2>8. ASSUME NEW i \in 2 .. Len(heap), i \div 2 # c PROVE Key(i \div 2)' <= Key(i)'
    <3> DEFINE q == i \div 2
    <3>1. q \in 1 .. Len(heap) /\ q < i /\ i \in 1 .. Len(heap) BY <1>h
    <3>2. CASE i = c
      BY <3>1, <3>2, <2>3, <2>5, <2>7, <1>k
    <3>3. CASE i # c /\ q = at
      <4>1. Key(c) <= Key(i) BY <3>3, <2>6
      <4> QED BY <4>1, <3>1, <3>3, <2>3, <2>5
    <3>4. CASE i = at
      <4>1. Key(q) <= Key(c)
        BY <3>1, <3>4, <2>2, <2>3, <1>0 DEF HeapShape, SiftShape
      <4> QED BY <4>1, <3>1, <3>4, <2>3, <2>5, <2>8
    <3>5. CASE i # c /\ i # at /\ q # at
      <4>1. Key(q) <= Key(i) BY <3>5, <2>2 DEF HeapShape, SiftShape
      <4> QED BY <4>1, <3>1, <3>5, <2>5, <2>8
    <3> QED BY <3>2, <3>3, <3>4, <3>5
  <2>9. ASSUME NEW i \in 2 .. Len(heap), i \div 2 = c PROVE Key(c \div 2)' <= Key(i)'
    <3>1. i # c /\ i # at /\ c # at /\ i \in 1 .. Len(heap) BY <2>9, <2>3, <1>h, <1>0
    <3>2. Key(c) <= Key(i) BY <2>9, <2>2, <3>1 DEF HeapShape, SiftShape
    <3>3. Key(c \div 2)' = Key(c) BY <2>3, <2>5, <3>1
    <3>4. Key(i)' = Key(i) BY <2>5, <3>1
    <3> QED BY <3>2, <3>3, <3>4
  <2>10. Key(at \div 2)' = Key(c \div 2)' BY <2>1 DEF Key
  <2> QED BY <2>1, <2>2, <2>4, <2>8, <2>9, <2>10 DEF HeapShape, InsertShape, SiftShape
<1>11. CASE DelMinDone
  <2>1. /\ worker.pc = "sift" /\ worker'.pc = "unlock" /\ loop' = loop /\ heap' = heap
        /\ loop.pc # "insert" /\ at >= 1
        /\ \A c \in 2 * at .. 2 * at + 1 : SmallerChild(c) => Key(at) <= Key(c)
    BY <1>11, <1>x, <1>0 DEF DelMinDone, Inv, LoopsInHeap, Key, TypeOK
  <2>2. ASSUME NEW i \in 2 .. Len(heap) PROVE Key(i \div 2) <= Key(i)
    <3>1. CASE i \div 2 = at
      <4>1. i = 2 * at \/ i = 2 * at + 1 BY <3>1, <1>0, ChildIndex
      <4>2. 2 * at \in 1 .. Len(heap) /\ at \in 1 .. Len(heap) BY <4>1, <2>1, <1>0
      <4>3. PICK c \in 2 * at .. 2 * at + 1 : SmallerChild(c)
        BY <4>2, <1>0 DEF SmallerChild
      <4>4. Key(at) <= Key(c) /\ c \in 1 .. Len(heap)
        BY <4>3, <2>1, <4>2, <1>0 DEF SmallerChild
      <4>5. Key(c) <= Key(i)
        BY <4>1, <4>2, <4>3, <4>4, <1>0, <1>k DEF SmallerChild, Key
      <4> QED BY <4>2, <4>4, <4>5, <3>1, <1>k
    <3>2. CASE i \div 2 # at
      BY <3>2, <2>1 DEF HeapShape, SiftShape
    <3> QED BY <3>1, <3>2
  <2> QED BY <2>1, <2>2 DEF HeapShape, InsertShape, SiftShape, AllInOrder, Key
<1>12. CASE /\ UNCHANGED <<heap, at>>
            /\ loop.pc # "insert" /\ loop'.pc # "insert"
            /\ (worker.pc = "sift") = (worker'.pc = "sift")
  BY <1>12 DEF HeapShape, InsertShape, SiftShape, AllInOrder, Key
<1>13. CASE UNCHANGED <<heap, at, loop>> /\ worker.pc # "sift" /\ worker'.pc # "sift"
  BY <1>13 DEF HeapShape, InsertShape, SiftShape, AllInOrder, Key
<1>14. CASE UNCHANGED vars
  BY <1>14 DEF vars, HeapShape, InsertShape, SiftShape, AllInOrder, Key
<1>15. CASE on_request \/ push_post \/ push_unlock
  <2>1. loop.pc # "insert" /\ loop'.pc # "insert" /\ UNCHANGED <<heap, at, worker>>
    BY <1>15 DEF on_request, push_post, push_unlock, Inv, TypeOK
  <2> QED BY <2>1, <1>12
<1>16. CASE \/ pop_wait \/ pop_lock \/ DelMinNothing \/ pop_unlock \/ execute
            \/ DereferenceNull
  <2>1. worker.pc # "sift" /\ worker'.pc # "sift" /\ UNCHANGED <<heap, at, loop>>
    BY <1>16 DEF pop_wait, pop_lock, DelMinNothing, pop_unlock, execute,
        DereferenceNull, Inv, TypeOK
  <2> QED BY <2>1, <1>13
<1>17. CASE SIGUSR1 \/ \E th \in Thread : HandlerReturns(th)
  <2>1. /\ UNCHANGED <<heap, at, loop>>
        /\ worker' = worker \/ (worker.pc # "sift" /\ worker'.pc # "sift")
    BY <1>17, SignalSteps DEF Inv, TypeOK
  <2>2. CASE worker' = worker
    BY <2>1, <2>2 DEF HeapShape, InsertShape, SiftShape, AllInOrder, Key
  <2> QED BY <2>1, <2>2, <1>13
<1> QED
  BY <1>2, <1>3, <1>4, <1>9, <1>10, <1>11, <1>14, <1>15, <1>16, <1>17, Steps
-----------------------------------------------------------------------------
(* An entry that on_request makes is a possible entry, and an entry. *)
LEMMA PossibleEntryType ==
    /\ \A t \in Trans, pad \in Padding :
          [key |-> Command[t] + 256 * pad, trans |-> t] \in PossibleEntry
    /\ PossibleEntry \subseteq Entry
<1>1. \A t \in Trans, pad \in Padding :
          [key |-> Command[t] + 256 * pad, trans |-> t] \in PossibleEntry
  BY DEF PossibleEntry
<1>2. ASSUME NEW e \in PossibleEntry PROVE e \in Entry
  <2>1. PICK t \in Trans, pad \in Padding : e = [key |-> Command[t] + 256 * pad, trans |-> t]
    BY <1>2 DEF PossibleEntry
  <2>2. Command[t] \in Int /\ pad \in Int BY QueueAssumption
  <2>3. Command[t] + 256 * pad \in Int BY <2>2
  <2> QED BY <2>1, <2>3, Zenon DEF Entry
<1> QED BY <1>1, <1>2

(* Nothing is pending in the beginning. *)
LEMMA InitContents == Init => HeapContents
BY QueueAssumption DEF Init, HeapContents, Active, InHand, NoEntry

(* No step of either thread loses, doubles or alters an entry. *)
LEMMA NextContents == Inv /\ HeapContents /\ [Next]_vars => HeapContents'
<1> SUFFICES ASSUME Inv, HeapContents, [Next]_vars PROVE HeapContents'
    OBVIOUS
<1>0. /\ TypeOK /\ Len(heap) \in Nat /\ heap \in Seq(Entry) /\ at \in Nat
      /\ DOMAIN heap = 1 .. Len(heap)
  BY DEF Inv, TypeOK
<1>1. CASE on_request
  <2>1. PICK t \in Trans \ UnderWay, pad \in Padding :
            /\ loop' = [pc |-> "lock", entry |-> [key |-> Command[t] + 256 * pad, trans |-> t]]
            /\ pending' = pending \cup {t}
    BY <1>1 DEF on_request
  <2>2. /\ loop.pc = "idle" /\ UNCHANGED <<heap, at, worker>>
        /\ loop'.pc = "lock" /\ loop'.entry.trans = t
    BY <1>1, <2>1 DEF on_request
  <2>3. loop'.entry \in PossibleEntry
    BY <2>1, PossibleEntryType
  <2>4. t # worker.trans /\ \A i \in DOMAIN heap : heap[i].trans # t
    BY DEF UnderWay
  <2>5. Active' = DOMAIN heap /\ Active = DOMAIN heap /\ InHand' = {t} /\ InHand = {}
    BY <2>2 DEF Active, InHand
  <2> QED BY <2>1, <2>2, <2>3, <2>4, <2>5 DEF HeapContents
<1>2. CASE push_lock
  <2>1. /\ loop.pc = "lock" /\ loop'.pc = "insert" /\ loop'.entry = loop.entry
        /\ heap' = Append(heap, loop.entry) /\ at' = Len(heap) + 1
        /\ UNCHANGED <<worker, pending>>
        /\ loop.entry \in Entry
    BY <1>2 DEF push_lock, Inv, LoopsInHeap, TypeOK
  <2>2. Active' = DOMAIN heap /\ Active = DOMAIN heap /\ InHand' = InHand
    BY <2>1, <1>0 DEF Active, InHand
  <2>3. \A i \in Active : heap'[i] = heap[i]
    BY <2>1, <2>2, <1>0
  <2> QED BY <2>1, <2>2, <2>3 DEF HeapContents
<1>3. CASE SiftUp
  <2>1. /\ loop.pc = "insert" /\ UNCHANGED <<loop, worker, pending>>
        /\ at > 1 /\ at <= Len(heap)
        /\ heap' = [heap EXCEPT ![at] = heap[at \div 2]]
        /\ at' = at \div 2
    BY <1>3 DEF SiftUp, Inv, LoopsInHeap
  <2> DEFINE p == at \div 2
  <2>2. p \in 1 .. Len(heap) /\ p < at /\ heap[p] \in Entry
    BY <2>1, <1>0, ParentIndex
  <2>3. DOMAIN heap' = DOMAIN heap
    BY <2>1, <1>0
  <2>4. Active = DOMAIN heap \ {at} /\ Active' = DOMAIN heap \ {p} /\ InHand' = InHand
    BY <2>1, <2>3, <1>0 DEF Active, InHand
  <2>5. heap'[at] = heap[p] /\ \A i \in Active \ {p} : heap'[i] = heap[i]
    BY <2>1, <2>2, <2>4, <1>0
  <2>6. p \in Active /\ Active' = (Active \ {p}) \cup {at} /\ at \notin Active
    BY <2>1, <2>2, <2>4, <1>0
  <2> QED BY <2>1, <2>4, <2>5, <2>6 DEF HeapContents
<1>4. CASE InsertEntry
  <2>1. /\ loop.pc = "insert" /\ loop'.pc = "post" /\ UNCHANGED <<worker, pending>>
        /\ at \in 1 .. Len(heap)
        /\ heap' = [heap EXCEPT ![at] = loop.entry]
    BY <1>4 DEF InsertEntry, Inv, LoopsInHeap
  <2>2. DOMAIN heap' = DOMAIN heap BY <2>1, <1>0
  <2>3. at \notin Active /\ Active' = Active \cup {at}
    BY <2>1, <2>2, <1>0 DEF Active
  <2>4. InHand = {loop.entry.trans} /\ InHand' = {} BY <2>1 DEF InHand
  <2>5. heap'[at] = loop.entry /\ \A i \in Active : heap'[i] = heap[i]
    BY <2>1, <2>3, <1>0 DEF Active
  <2> QED BY <2>1, <2>3, <2>4, <2>5 DEF HeapContents
<1>5. CASE push_post \/ push_unlock
  <2>1. /\ UNCHANGED <<heap, worker, pending>>
        /\ loop.pc \in {"post", "unlock"} /\ loop'.pc \in {"idle", "unlock"}
    BY <1>5 DEF push_post, push_unlock, Inv, TypeOK
  <2>2. Active' = Active /\ InHand' = InHand BY <2>1 DEF Active, InHand
  <2> QED BY <2>1, <2>2 DEF HeapContents
<1>9. CASE DelMin
  <2>1. /\ worker'.trans = heap[1].trans /\ loop' = loop /\ Len(heap) > 0
        /\ heap' = [i \in 1 .. (Len(heap) - 1) |->
                        IF i = 1 THEN heap[Len(heap)] ELSE heap[i]]
        /\ pending' = pending \ {heap[1].trans}
        /\ loop.pc # "insert"
    BY <1>9 DEF DelMin, Inv, MutexHeld, LoopInside, WorkerInside
  <2> DEFINE n == Len(heap)
  <2>2. DOMAIN heap' = 1 .. (n - 1) BY <2>1
  <2>3. Active = 1 .. n /\ Active' = 1 .. (n - 1) /\ InHand' = InHand
    BY <2>1, <2>2, <1>0 DEF Active, InHand
  <2>4. \A i \in Active' : heap'[i] = IF i = 1 THEN heap[n] ELSE heap[i]
    BY <2>1, <2>3
  <2>5. {heap'[i].trans : i \in Active'} = {heap[i].trans : i \in Active} \ {heap[1].trans}
    <3>1. \A i \in Active' : \E j \in Active : j # 1 /\ heap'[i] = heap[j]
      BY <2>3, <2>4, <1>0
    <3>2. \A j \in Active : j # 1 => \E i \in Active' : heap'[i] = heap[j]
      <4>1. TAKE j \in Active
      <4>2. HAVE j # 1
      <4>3. CASE j = n BY <4>2, <4>3, <2>3, <2>4, <2>1, <1>0
      <4>4. CASE j # n
        <5>1. j \in 1 .. n BY <2>3
        <5>2. n \in Nat BY <1>0
        <5>3. j \in 1 .. (n - 1)
          <6> HIDE DEF n
          <6> QED BY <5>1, <5>2, <4>4
        <5>4. j \in Active' BY <5>3, <2>3
        <5> QED BY <5>4, <4>2, <2>4
      <4> QED BY <4>3, <4>4
    <3>3. 1 \in Active BY <2>1, <2>3, <1>0
    <3>4. \A j \in Active : heap[j].trans = heap[1].trans <=> j = 1
      BY <3>3 DEF HeapContents
    <3> HIDE DEF n
    <3> DEFINE A == Active
               B == Active'
               g == heap'
    <3>5. /\ \A i \in B : \E j \in A : j # 1 /\ g[i] = heap[j]
          /\ \A j \in A : j # 1 => \E i \in B : g[i] = heap[j]
          /\ \A j \in A : heap[j].trans = heap[1].trans <=> j = 1
      BY <3>1, <3>2, <3>4
    <3> HIDE DEF A, B, g
    <3>6. {g[i].trans : i \in B} = {heap[i].trans : i \in A} \ {heap[1].trans}
      BY <3>5
    <3> QED BY <3>6 DEF A, B, g
  <2>6. heap[1].trans \notin InHand
    BY <2>1, <2>3, <1>0 DEF HeapContents
  <2>7. \A i \in Active' : heap'[i] \in PossibleEntry /\ heap'[i].trans \notin InHand
    BY <2>1, <2>3, <2>4, <1>0 DEF HeapContents
  <2>8. ASSUME NEW i \in Active', NEW j \in Active', heap'[i].trans = heap'[j].trans
        PROVE  i = j
    <3> DEFINE f(k) == IF k = 1 THEN n ELSE k
    <3>1. f(i) \in Active /\ f(j) \in Active BY <2>3, <1>0
    <3>2. heap'[i] = heap[f(i)] /\ heap'[j] = heap[f(j)] BY <2>4
    <3>3. f(i) = f(j) BY <3>1, <3>2, <2>8 DEF HeapContents
    <3> QED BY <3>3, <2>3, <1>0
  <2>9. pending' = InHand' \cup {heap'[i].trans : i \in Active'}
    BY <2>1, <2>3, <2>5, <2>6 DEF HeapContents
  <2> QED BY <2>1, <2>3, <2>7, <2>8, <2>9 DEF HeapContents
<1>10. CASE SiftDown
  <2>1. PICK c \in 2 * at .. 2 * at + 1 :
            /\ SmallerChild(c)
            /\ heap' = [heap EXCEPT ![at] = heap[c], ![c] = heap[at]]
            /\ at' = c
    BY <1>10 DEF SiftDown
  <2>2. /\ UNCHANGED <<loop, worker, pending>> /\ loop.pc # "insert"
        /\ at >= 1
    BY <1>10, <1>0 DEF SiftDown, Inv, LoopsInHeap, MutexHeld, LoopInside, WorkerInside
  <2>3. c \in 1 .. Len(heap) /\ at \in 1 .. Len(heap) /\ at # c
    BY <2>1, <2>2, <1>0 DEF SmallerChild
  <2>4. Active' = DOMAIN heap /\ Active = DOMAIN heap /\ InHand' = InHand
    BY <2>1, <2>2, <1>0 DEF Active, InHand
  <2>5. \A i \in Active :
              heap'[i] = IF i = c THEN heap[at] ELSE IF i = at THEN heap[c] ELSE heap[i]
    BY <2>1, <2>3, <2>4, <1>0
  <2>6. at \in Active /\ c \in Active BY <2>3, <2>4, <1>0
  <2>7. {heap'[i].trans : i \in Active} = {heap[i].trans : i \in Active}
    BY <2>5, <2>6
  <2> QED BY <2>2, <2>4, <2>5, <2>6, <2>7 DEF HeapContents
<1>11. CASE \/ DelMinDone \/ pop_wait \/ pop_lock \/ DelMinNothing \/ pop_unlock
            \/ execute \/ DereferenceNull
  <2>1. /\ UNCHANGED <<heap, loop, pending>> /\ worker'.trans \in {worker.trans, NULL}
        /\ at' = at \/ loop.pc # "insert"
    BY <1>11 DEF DelMinDone, pop_wait, pop_lock, DelMinNothing, pop_unlock, execute,
        DereferenceNull, Inv, TypeOK, MutexHeld, LoopInside, WorkerInside
  <2>2. Active' = Active /\ InHand' = InHand BY <2>1 DEF Active, InHand
  <2>3. NULL \notin pending BY <1>0, QueueAssumption DEF TypeOK
  <2> QED BY <2>1, <2>2, <2>3 DEF HeapContents
<1>12. CASE SIGUSR1 \/ \E th \in Thread : HandlerReturns(th)
  <2>1. UNCHANGED <<heap, at, loop, pending>> /\ worker'.trans = worker.trans
    BY <1>0, <1>12, SignalSteps DEF TypeOK
  <2> QED BY <2>1 DEF HeapContents, Active, InHand
<1>14. CASE UNCHANGED vars
  BY <1>14 DEF vars, HeapContents, Active, InHand
<1> QED
  BY <1>1, <1>2, <1>3, <1>4, <1>5, <1>9, <1>10, <1>11, <1>12, <1>14, Steps

(* Both invariants hold in every behaviour. *)
LEMMA SpecShape == Spec => [](Inv /\ HeapShape /\ HeapContents)
BY SpecInv, InitShape, NextShape, InitContents, NextContents, PTL DEF Spec

(* Whenever the mutex is free, no entry of the heap is before its parent:  *)
(* heap_insert and heap_delmin restore the order, also after any sequence  *)
(* of pushes and pops.                                                     *)
THEOREM HeapStaysOrdered == Spec => []HeapOrder
<1>1. Inv /\ HeapShape => HeapOrder
  BY DEF Inv, MutexHeld, LoopInside, WorkerInside, HeapShape, AllInOrder, HeapOrder, Key
<1> QED BY <1>1, SpecShape, PTL

(* No transaction is lost or doubled between on_request and the worker.    *)
THEOREM NoTransactionLost == Spec => []NothingLost
<1>1. HeapContents => NothingLost
  BY DEF HeapContents, NothingLost, Active, InHand
<1> QED BY <1>1, SpecShape, PTL
-----------------------------------------------------------------------------
(* A set of natural numbers that is not empty has a least element. *)
LEMMA LeastIndex ==
    ASSUME NEW T \in SUBSET Nat, T # {}
    PROVE  \E x \in T : \A y \in T : x <= y
<1>1. PICK x \in T : \A y \in T : ~(<<y, x>> \in OpToRel(<, Nat))
  BY WFMin, NatLessThanWellFounded
<1>2. ASSUME NEW y \in T PROVE ~(y < x)
  <2>1. x \in Nat /\ y \in Nat OBVIOUS
  <2>2. <<y, x>> \in Nat \X Nat BY <2>1
  <2>3. <<y, x>>[1] = y /\ <<y, x>>[2] = x OBVIOUS
  <2> QED BY <1>1, <2>2, <2>3, Zenon DEF OpToRel
<1>3. ASSUME NEW y \in T PROVE x <= y
  BY <1>2
<1> QED BY <1>3

(* In a heap that is in order no entry is before the root.  The least      *)
(* index of an entry that were would have a parent that is before the root *)
(* too.                                                                    *)
LEMMA RootIsLeast ==
    ASSUME TypeOK, AllInOrder
    PROVE  \A i \in 1 .. Len(heap) : Key(1) <= Key(i)
<1> DEFINE T == {i \in 1 .. Len(heap) : Key(i) < Key(1)}
<1>0. Len(heap) \in Nat /\ \A i \in 1 .. Len(heap) : Key(i) \in Int
  BY KeyInt DEF TypeOK
<1>1. ASSUME T # {} PROVE FALSE
  <2>1. PICK x \in T : \A y \in T : x <= y
    <3>1. T \in SUBSET Nat OBVIOUS
    <3> HIDE DEF T
    <3> QED BY <3>1, <1>1, LeastIndex
  <2>2. x \in 2 .. Len(heap) BY <1>0
  <2>3. x \div 2 \in 1 .. Len(heap) /\ x \div 2 < x BY <1>0, <2>2, ParentIndex
  <2>4. Key(x \div 2) <= Key(x) BY <2>2 DEF AllInOrder
  <2>5. Key(x \div 2) < Key(1) BY <1>0, <2>2, <2>3, <2>4
  <2>6. x \div 2 \in T BY <2>3, <2>5
  <2> QED BY <2>1, <2>2, <2>3, <2>6, <1>0
<1> QED BY <1>0, <1>1

(* An empty queue is mapped to an empty queue. *)
LEMMA InitPriorityQueue == Init => PQ!Init
BY DEF Init, PQ!Init, Queued

(* Every step of the two threads is a push, a pop of an entry with a least *)
(* key, or leaves the queue as it is.                                      *)
LEMMA NextPriorityQueue ==
    Inv /\ HeapShape /\ HeapContents /\ [Next]_vars => [PQ!Next]_Queued
<1> SUFFICES ASSUME Inv, HeapShape, HeapContents, [Next]_vars
             PROVE  PQ!Next \/ Queued' = Queued
    OBVIOUS
<1>0. /\ TypeOK /\ Len(heap) \in Nat /\ heap \in Seq(Entry) /\ at \in Nat
      /\ DOMAIN heap = 1 .. Len(heap)
  BY DEF Inv, TypeOK
<1>q. Queued = {heap[i] : i \in Active} /\ Queued' = {heap'[i] : i \in Active'}
  BY DEF Queued, Active
<1>1. CASE on_request \/ push_post \/ push_unlock
  <2>1. loop.pc # "insert" /\ loop'.pc # "insert" /\ heap' = heap
    BY <1>1 DEF on_request, push_post, push_unlock, Inv, TypeOK
  <2> QED BY <2>1 DEF Queued
<1>2. CASE push_lock
  <2>1. /\ loop.pc = "lock" /\ loop'.pc = "insert"
        /\ heap' = Append(heap, loop.entry) /\ at' = Len(heap) + 1
        /\ loop.entry \in Entry
    BY <1>2 DEF push_lock, Inv, LoopsInHeap, TypeOK
  <2>2. Active' = DOMAIN heap /\ Active = DOMAIN heap
    BY <2>1, <1>0 DEF Active
  <2>3. \A i \in Active : heap'[i] = heap[i]
    BY <2>1, <2>2, <1>0
  <2> QED BY <1>q, <2>2, <2>3
<1>3. CASE SiftUp
  <2>1. /\ loop.pc = "insert" /\ loop' = loop
        /\ at > 1 /\ at <= Len(heap)
        /\ heap' = [heap EXCEPT ![at] = heap[at \div 2]]
        /\ at' = at \div 2
    BY <1>3 DEF SiftUp, Inv, LoopsInHeap
  <2> DEFINE p == at \div 2
  <2>2. p \in 1 .. Len(heap) /\ p < at /\ heap[p] \in Entry
    BY <2>1, <1>0, ParentIndex
  <2>3. DOMAIN heap' = DOMAIN heap
    BY <2>1, <1>0
  <2>4. Active = DOMAIN heap \ {at} /\ Active' = DOMAIN heap \ {p}
    BY <2>1, <2>3, <1>0 DEF Active
  <2>5. heap'[at] = heap[p] /\ \A i \in Active \ {p} : heap'[i] = heap[i]
    BY <2>1, <2>2, <2>4, <1>0
  <2>6. p \in Active /\ Active' = (Active \ {p}) \cup {at}
    BY <2>1, <2>2, <2>4, <1>0
  <2> QED BY <1>q, <2>5, <2>6
<1>4. CASE InsertEntry
  <2>1. /\ loop.pc = "insert" /\ loop'.pc = "post"
        /\ at \in 1 .. Len(heap)
        /\ heap' = [heap EXCEPT ![at] = loop.entry]
    BY <1>4 DEF InsertEntry, Inv, LoopsInHeap
  <2>2. DOMAIN heap' = DOMAIN heap BY <2>1, <1>0
  <2>3. at \notin Active /\ Active' = Active \cup {at}
    BY <2>1, <2>2, <1>0 DEF Active
  <2>4. heap'[at] = loop.entry /\ \A i \in Active : heap'[i] = heap[i]
    BY <2>1, <2>3, <1>0 DEF Active
  <2>5. loop.entry \in PossibleEntry /\ loop.entry \notin Queued
    BY <1>q, <2>1 DEF HeapContents, InHand
  <2>6. Queued' = Queued \cup {loop.entry}
    BY <1>q, <2>3, <2>4
  <2> QED BY <2>5, <2>6 DEF PQ!Next, PQ!Push
<1>9. CASE DelMin
  <2>1. /\ worker.pc = "delmin" /\ loop' = loop /\ Len(heap) > 0
        /\ heap' = [i \in 1 .. (Len(heap) - 1) |->
                        IF i = 1 THEN heap[Len(heap)] ELSE heap[i]]
        /\ loop.pc # "insert"
    BY <1>9 DEF DelMin, Inv, MutexHeld, LoopInside, WorkerInside
  <2> DEFINE n == Len(heap)
  <2>2. DOMAIN heap' = 1 .. (n - 1) BY <2>1
  <2>3. Active = 1 .. n /\ Active' = 1 .. (n - 1)
    BY <2>1, <2>2, <1>0 DEF Active
  <2>4. \A i \in Active' : heap'[i] = IF i = 1 THEN heap[n] ELSE heap[i]
    BY <2>1, <2>3
  <2>n. n \in Nat /\ n > 0 BY <1>0, <2>1
  <2> HIDE DEF n
  <2>5. 1 \in Active BY <2>3, <2>n
  <2>6. \A i \in Active' : \E j \in Active : j # 1 /\ heap'[i] = heap[j]
    BY <2>3, <2>4, <2>n
  <2>7. ASSUME NEW j \in Active, j # 1 PROVE \E i \in Active' : heap'[i] = heap[j]
    <3>1. j \in 1 .. n BY <2>3
    <3>2. CASE j = n
      <4>1. 1 \in Active' BY <3>1, <3>2, <2>3, <2>7, <2>n
      <4> QED BY <4>1, <3>2, <2>4
    <3>3. CASE j # n
      <4>1. j \in 1 .. (n - 1) BY <3>1, <3>3, <2>n
      <4> QED BY <4>1, <2>3, <2>4, <2>7
    <3> QED BY <3>2, <3>3
  <2>8. \A j \in Active : heap[j] = heap[1] <=> j = 1
    BY <2>5 DEF HeapContents
  <2>9. Queued' = Queued \ {heap[1]}
    <3> DEFINE A == Active
               B == Active'
               g == heap'
    <3>1. /\ \A i \in B : \E j \in A : j # 1 /\ g[i] = heap[j]
          /\ \A j \in A : j # 1 => \E i \in B : g[i] = heap[j]
          /\ \A j \in A : heap[j] = heap[1] <=> j = 1
      BY <2>6, <2>7, <2>8
    <3> HIDE DEF A, B, g
    <3>2. {g[i] : i \in B} = {heap[i] : i \in A} \ {heap[1]}
      BY <3>1
    <3> QED BY <3>2, <1>q DEF A, B, g
  <2>10. heap[1] \in Queued /\ heap[1] \in PossibleEntry
    BY <2>5, <1>q DEF HeapContents
  <2>11. \A other \in Queued : heap[1].key <= other.key
    <3>1. AllInOrder BY <2>1 DEF HeapShape
    <3>2. \A i \in Active : heap[1].key <= heap[i].key
      BY <3>1, <2>3, <1>0, RootIsLeast DEF Key, n
    <3> QED BY <3>2, <1>q
  <2> QED BY <2>9, <2>10, <2>11 DEF PQ!Next, PQ!Pop
<1>10. CASE SiftDown
  <2>1. PICK c \in 2 * at .. 2 * at + 1 :
            /\ SmallerChild(c)
            /\ heap' = [heap EXCEPT ![at] = heap[c], ![c] = heap[at]]
            /\ at' = c
    BY <1>10 DEF SiftDown
  <2>2. loop' = loop /\ loop.pc # "insert" /\ at >= 1
    BY <1>10, <1>0 DEF SiftDown, Inv, LoopsInHeap, MutexHeld, LoopInside, WorkerInside
  <2>3. c \in 1 .. Len(heap) /\ at \in 1 .. Len(heap) /\ at # c
    BY <2>1, <2>2, <1>0 DEF SmallerChild
  <2>4. Active' = DOMAIN heap /\ Active = DOMAIN heap
    BY <2>1, <2>2, <1>0 DEF Active
  <2>5. \A i \in Active :
              heap'[i] = IF i = c THEN heap[at] ELSE IF i = at THEN heap[c] ELSE heap[i]
    BY <2>1, <2>3, <2>4, <1>0
  <2>6. at \in Active /\ c \in Active BY <2>3, <2>4, <1>0
  <2> QED BY <1>q, <2>4, <2>5, <2>6
<1>11. CASE \/ DelMinDone \/ pop_wait \/ pop_lock \/ DelMinNothing \/ pop_unlock
            \/ execute \/ DereferenceNull
  <2>1. UNCHANGED <<heap, loop>> /\ (at' = at \/ loop.pc # "insert")
    BY <1>11 DEF DelMinDone, pop_wait, pop_lock, DelMinNothing, pop_unlock, execute,
        DereferenceNull, Inv, TypeOK, MutexHeld, LoopInside, WorkerInside
  <2> QED BY <2>1 DEF Queued
<1>12. CASE SIGUSR1 \/ \E th \in Thread : HandlerReturns(th)
  BY <1>12, SignalSteps DEF Queued
<1>14. CASE UNCHANGED vars
  BY <1>14 DEF vars, Queued
<1> QED
  BY <1>1, <1>2, <1>3, <1>4, <1>9, <1>10, <1>11, <1>12, <1>14, Steps

(* push_queue and pop_queue implement the abstract priority queue: every   *)
(* behaviour of the two threads is, seen at the entries outside of the     *)
(* hole, a sequence of pushes and of pops of an entry with a least key.    *)
THEOREM QueueImplements == Spec => ImplementsPriorityQueue
BY InitPriorityQueue, NextPriorityQueue, SpecShape, PTL
   DEF Spec, ImplementsPriorityQueue, PQ!Spec
=============================================================================
