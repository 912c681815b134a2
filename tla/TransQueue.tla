----------------------------- MODULE TransQueue -----------------------------
(***************************************************************************)
(* The transaction queue (transactions/queue.c): a binary heap under a     *)
(* mutex, with a semaphore that counts its entries.  The event loop pushes *)
(* a transaction for every request it has parsed (on_request), the worker  *)
(* thread pops and executes them (transaction_queue_worker).               *)
(*                                                                         *)
(* The loops of heap_insert and heap_delmin (lib/heap/heap.c) are one step *)
(* per iteration.  Entries are numbered from 1.  A transaction that was    *)
(* executed may come again: it stands for the next request of its kind.    *)
(*                                                                         *)
(* SIGUSR1 is installed without SA_RESTART, and both threads can take it:  *)
(* the main thread does, and the worker if the main thread is still in the *)
(* handler of the one before.  The snapshot itself is in the module        *)
(* Storage; what matters here is that it stops a thread for a while, and   *)
(* that a sem_wait it interrupts returns without a count.                  *)
(***************************************************************************)
EXTENDS Integers, Sequences

CONSTANTS
    Trans,             \* the transactions that can be under way at a time
    Command,           \* Command[t] is the value of msg->cmd: 1 .. 5
    Padding,           \* what the three bytes behind msg->cmd may hold
    NULL,
    ENTRIES_PER_PAGE,
    MinimumPages,
    MaxSignals         \* bound: how often SIGUSR1 is sent

ASSUME QueueAssumption ==
    /\ Command \in [Trans -> 1 .. 5]
    /\ Padding \subseteq Int /\ Padding # {}
    /\ NULL \notin Trans
    /\ ENTRIES_PER_PAGE \in Nat \ {0}
    /\ MinimumPages \in Nat \ {0}
    /\ MaxSignals \in Nat

VARIABLES
    mutex,     \* "free", "loop" or "worker"
    sem,       \* the value of ntrans_sem
    heap,      \* the active entries, in array order
    allocated, \* heap->allocated_pages
    at,        \* current_index in the loop of heap_insert or heap_delmin
    loop,      \* the event loop: where it is, and the entry it pushes
    worker,    \* the worker: where it is, and the transaction it popped
    handling,  \* the threads that are in the handler of SIGUSR1
    signals,   \* how often SIGUSR1 was sent
    pending,   \* history: the transactions that arrived and were not popped
    uncounted  \* history: how often sem_wait returned without a count

signalVars == <<handling, signals, uncounted>>
vars == <<mutex, sem, heap, allocated, at, loop, worker, pending, signalVars>>

Thread == {"loop", "worker"}

Entry == [key : Int, trans : Trans]
NoEntry == [key |-> 0, trans |-> NULL]

(* init_queue and heap_create. *)
Init ==
    /\ mutex = "free" /\ sem = 0
    /\ heap = <<>> /\ allocated = MinimumPages /\ at = 0
    /\ loop = [pc |-> "idle", entry |-> NoEntry]
    /\ worker = [pc |-> "wait", trans |-> NULL]
    /\ handling = {} /\ signals = 0
    /\ pending = {} /\ uncounted = 0
-----------------------------------------------------------------------------
(* The transactions that are somewhere between on_request and the reply. *)
UnderWay ==
    {loop.entry.trans, worker.trans} \cup {heap[i].trans : i \in DOMAIN heap}

(* on_request and convert_request.  heap_insert gets a pointer to the one  *)
(* byte command, and compare_int_keys reads an int from there.             *)
on_request ==
    /\ loop.pc = "idle"
    /\ \E t \in Trans \ UnderWay : \E pad \in Padding :
         /\ loop' = [pc |-> "lock",
                     entry |-> [key |-> Command[t] + 256 * pad, trans |-> t]]
         /\ pending' = pending \cup {t}
    /\ UNCHANGED <<mutex, sem, heap, allocated, at, worker>>

(* Mutant: a page is added only when the last entry does not fit any more. *)
PagesForOff(entries) ==
    IF entries > allocated * ENTRIES_PER_PAGE + 1 THEN allocated + 1 ELSE allocated

(* heap_insert adds a page when one more entry does not fit. *)
PagesFor(entries) ==
    IF entries > allocated * ENTRIES_PER_PAGE THEN allocated + 1 ELSE allocated

(* push_queue takes the mutex; heap_insert begins at the first free entry. *)
push_lock ==
    /\ loop.pc = "lock" /\ mutex = "free"
    /\ mutex' = "loop"
    /\ allocated' = PagesFor(Len(heap) + 1)
    /\ heap' = Append(heap, loop.entry)
    /\ at' = Len(heap) + 1
    /\ loop' = [loop EXCEPT !.pc = "insert"]
    /\ UNCHANGED <<sem, worker, pending>>

(* cmp_func(k1, k2) < 0 *)
Before(k1, k2) == k1 < k2

(* The parent moves down into the current entry. *)
SiftUp ==
    /\ loop.pc = "insert"
    /\ at > 1 /\ Before(loop.entry.key, heap[at \div 2].key)
    /\ heap' = [heap EXCEPT ![at] = heap[at \div 2]]
    /\ at' = at \div 2
    /\ UNCHANGED <<mutex, sem, allocated, loop, worker, pending>>

(* The new entry is stored where the loop ended. *)
InsertEntry ==
    /\ loop.pc = "insert"
    /\ at = 1 \/ (at > 1 /\ ~Before(loop.entry.key, heap[at \div 2].key))
    /\ heap' = [heap EXCEPT ![at] = loop.entry]
    /\ at' = 0
    /\ loop' = [pc |-> "post", entry |-> NoEntry]
    /\ UNCHANGED <<mutex, sem, allocated, worker, pending>>

push_post ==
    /\ loop.pc = "post"
    /\ sem' = sem + 1
    /\ loop' = [loop EXCEPT !.pc = "unlock"]
    /\ UNCHANGED <<mutex, heap, allocated, at, worker, pending>>

push_unlock ==
    /\ loop.pc = "unlock"
    /\ mutex' = "free"
    /\ loop' = [loop EXCEPT !.pc = "idle"]
    /\ UNCHANGED <<sem, heap, allocated, at, worker, pending>>
-----------------------------------------------------------------------------
(* Mutants: the worker goes on without the semaphore, as a forced pop does; *)
(* it counts down without waiting.                                          *)
PopForced ==
    /\ worker.pc = "wait"
    /\ worker' = [worker EXCEPT !.pc = "lock"]
    /\ UNCHANGED <<mutex, sem, heap, allocated, at, loop, pending>>

PopCountsDown ==
    /\ worker.pc = "wait"
    /\ sem' = sem - 1
    /\ worker' = [worker EXCEPT !.pc = "lock"]
    /\ UNCHANGED <<mutex, heap, allocated, at, loop, pending>>

(* pop_queue: sem_wait, if no signal interrupts it *)
pop_wait ==
    /\ worker.pc = "wait" /\ sem > 0
    /\ sem' = sem - 1
    /\ worker' = [worker EXCEPT !.pc = "lock"]
    /\ UNCHANGED <<mutex, heap, allocated, at, loop, pending>>

(* Mutant: the worker does not take the mutex. *)
PopUnlocked ==
    /\ worker.pc = "lock"
    /\ worker' = [worker EXCEPT !.pc = "delmin"]
    /\ UNCHANGED <<mutex, sem, heap, allocated, at, loop, pending>>

pop_lock ==
    /\ worker.pc = "lock" /\ mutex = "free"
    /\ mutex' = "worker"
    /\ worker' = [worker EXCEPT !.pc = "delmin"]
    /\ UNCHANGED <<sem, heap, allocated, at, loop, pending>>

(* heap_delmin takes the root and moves the last entry there. *)
DelMin ==
    /\ worker.pc = "delmin"
    /\ Len(heap) > 0
    /\ worker' = [pc |-> "sift", trans |-> heap[1].trans]
    /\ heap' = [i \in 1 .. (Len(heap) - 1) |->
                    IF i = 1 THEN heap[Len(heap)] ELSE heap[i]]
    /\ at' = 1
    /\ pending' = pending \ {heap[1].trans}
    /\ UNCHANGED <<mutex, sem, allocated, loop>>

(* On an empty heap heap_delmin returns 0, and pop_queue NULL. *)
DelMinNothing ==
    /\ worker.pc = "delmin"
    /\ heap = <<>>
    /\ worker' = [worker EXCEPT !.pc = "unlock"]
    /\ UNCHANGED <<mutex, sem, heap, allocated, at, loop, pending>>

(* Mutant: the right child is never looked at. *)
LeftChild(c) == c = 2 * at /\ c <= Len(heap)

(* The child that heap_delmin compares with: the left one on a tie. *)
SmallerChild(c) ==
    LET left == 2 * at
    IN  /\ left <= Len(heap)
        /\ c = IF left + 1 <= Len(heap) /\ heap[left].key > heap[left + 1].key
               THEN left + 1 ELSE left

(* Mutant: the child moves up, but the current entry does not move down. *)
SiftDownCopies ==
    /\ worker.pc = "sift"
    /\ \E c \in 2 * at .. 2 * at + 1 :
         /\ SmallerChild(c)
         /\ heap[at].key > heap[c].key
         /\ heap' = [heap EXCEPT ![at] = heap[c]]
         /\ at' = c
    /\ UNCHANGED <<mutex, sem, allocated, loop, worker, pending>>

(* The current entry changes places with the smaller child. *)
SiftDown ==
    /\ worker.pc = "sift"
    /\ \E c \in 2 * at .. 2 * at + 1 :
         /\ SmallerChild(c)
         /\ heap[at].key > heap[c].key
         /\ heap' = [heap EXCEPT ![at] = heap[c], ![c] = heap[at]]
         /\ at' = c
    /\ UNCHANGED <<mutex, sem, allocated, loop, worker, pending>>

(* One empty page may stay, a second one is released. *)
PagesAfter(entries) ==
    LET used == entries \div ENTRIES_PER_PAGE
                    + (IF entries % ENTRIES_PER_PAGE > 0 THEN 1 ELSE 0)
    IN  IF allocated > used + 1 /\ allocated > MinimumPages
        THEN allocated - 1 ELSE allocated

(* The end of the loop, and of heap_delmin. *)
DelMinDone ==
    /\ worker.pc = "sift"
    /\ \A c \in 2 * at .. 2 * at + 1 : SmallerChild(c) => heap[at].key <= heap[c].key
    /\ at' = 0
    /\ allocated' = PagesAfter(Len(heap))
    /\ worker' = [worker EXCEPT !.pc = "unlock"]
    /\ UNCHANGED <<mutex, sem, heap, loop, pending>>

(* Mutant: what was popped is dropped. *)
PopDrops ==
    /\ worker.pc = "unlock"
    /\ mutex' = "free"
    /\ worker' = [pc |-> "wait", trans |-> NULL]
    /\ UNCHANGED <<sem, heap, allocated, at, loop, pending>>

pop_unlock ==
    /\ worker.pc = "unlock"
    /\ mutex' = "free"
    /\ worker' = [worker EXCEPT !.pc = "execute"]
    /\ UNCHANGED <<sem, heap, allocated, at, loop, pending>>

(* The body of transaction_queue_worker after pop_queue: the operation and *)
(* its reply.                                                              *)
execute ==
    /\ worker.pc = "execute" /\ worker.trans # NULL
    /\ worker' = [pc |-> "wait", trans |-> NULL]
    /\ UNCHANGED <<mutex, sem, heap, allocated, at, loop, pending>>

(* trans->ancestor is read before trans is tested: the process ends. *)
DereferenceNull ==
    /\ worker.pc = "execute" /\ worker.trans = NULL
    /\ worker' = [worker EXCEPT !.pc = "SIGSEGV"]
    /\ UNCHANGED <<mutex, sem, heap, allocated, at, loop, pending>>
-----------------------------------------------------------------------------
Alive == worker.pc # "SIGSEGV"

(* Who takes SIGUSR1: it is blocked in a thread that handles one. *)
Takes(th) == th \notin handling /\ (th = "worker" => "loop" \in handling)

(* A worker that takes it in pop_queue without a count to take may be      *)
(* blocked in sem_wait already.                                            *)
SIGUSR1 ==
    /\ Alive /\ signals < MaxSignals
    /\ signals' = signals + 1
    /\ \E th \in Thread :
         /\ Takes(th)
         /\ handling' = handling \cup {th}
         /\ \/ worker' = worker
            \/ /\ th = "worker" /\ worker.pc = "wait" /\ sem = 0
               /\ worker' = [worker EXCEPT !.pc = "interrupted"]
    /\ UNCHANGED <<mutex, sem, heap, allocated, at, loop, pending, uncounted>>

(* The end of snapshot_handler.  sem_wait then fails with EINTR, whatever  *)
(* was posted meanwhile, and pop_queue goes on as if it had a count.       *)
HandlerReturns(th) ==
    /\ Alive /\ th \in handling
    /\ handling' = handling \ {th}
    /\ IF th = "worker" /\ worker.pc = "interrupted"
       THEN /\ worker' = [worker EXCEPT !.pc = "lock"]
            /\ uncounted' = uncounted + 1
       ELSE UNCHANGED <<worker, uncounted>>
    /\ UNCHANGED <<mutex, sem, heap, allocated, at, loop, pending, signals>>
-----------------------------------------------------------------------------
(* A thread runs when it is not in a handler. *)
Runs(th) == Alive /\ th \notin handling /\ UNCHANGED signalVars

Arrives == Runs("loop") /\ on_request

LoopStep ==
    Runs("loop") /\ (push_lock \/ SiftUp \/ InsertEntry \/ push_post \/ push_unlock)

WorkerStep ==
    /\ Runs("worker")
    /\ \/ pop_wait \/ pop_lock \/ DelMin \/ DelMinNothing \/ SiftDown \/ DelMinDone
       \/ pop_unlock \/ execute \/ DereferenceNull

Ended == ~Alive /\ UNCHANGED vars

Next ==
    \/ Arrives \/ LoopStep \/ WorkerStep
    \/ SIGUSR1 \/ \E th \in Thread : HandlerReturns(th)
    \/ Ended

Spec == Init /\ [][Next]_vars

(* Both threads run on while they can, also out of a handler.  Requests    *)
(* and signals come or do not come.                                        *)
Fairness ==
    /\ WF_vars(LoopStep) /\ WF_vars(WorkerStep)
    /\ \A th \in Thread : WF_vars(HandlerReturns(th))

FairSpec == Spec /\ Fairness
-----------------------------------------------------------------------------
(* The values of the heap, the locks and the places of the two threads.    *)
TypeOK ==
    /\ mutex \in {"free", "loop", "worker"}
    /\ sem \in Nat
    /\ heap \in Seq(Entry)
    /\ allocated \in Nat
    /\ at \in Nat
    /\ loop \in [pc : {"idle", "lock", "insert", "post", "unlock"},
                 entry : Entry \cup {NoEntry}]
    /\ worker \in [pc : {"wait", "interrupted", "lock", "delmin", "sift", "unlock",
                         "execute", "SIGSEGV"},
                   trans : Trans \cup {NULL}]
    /\ handling \subseteq Thread /\ signals \in Nat
    /\ pending \subseteq Trans /\ uncounted \in Nat

LoopInside == loop.pc \in {"insert", "post", "unlock"}
WorkerInside == worker.pc \in {"delmin", "sift", "unlock"}

(* Only one thread at a time is inside the heap. *)
MutualExclusion == ~(LoopInside /\ WorkerInside)

(* Only a sem_wait that a signal has interrupted lets the worker come to   *)
(* an empty heap, and get the NULL that transaction_queue_worker           *)
(* dereferences before it tests it.                                        *)
PopFindsTransaction ==
    /\ worker.pc = "delmin" => Len(heap) > 0 \/ uncounted > 0
    /\ worker.pc \in {"unlock", "execute", "SIGSEGV"} =>
          worker.trans # NULL \/ uncounted > 0

(* Every entry the heap touches lies in an allocated page, also after a    *)
(* page was given back.                                                    *)
EntriesInPages == Len(heap) <= allocated * ENTRIES_PER_PAGE

(* Whenever nobody is inside, no entry is before its parent, whatever      *)
(* pushes and pops went before: heap_delmin takes the least key.           *)
HeapOrder ==
    mutex = "free" => \A i \in 2 .. Len(heap) : heap[i \div 2].key <= heap[i].key

(* No transaction is lost or doubled by moving entries: what has arrived   *)
(* and was not popped is in the hands of the event loop or in the heap,    *)
(* once.                                                                   *)
NothingLost ==
    LET inHeap == {i \in DOMAIN heap : loop.pc = "insert" => i # at}
        inHand == IF loop.pc \in {"lock", "insert"} THEN {loop.entry.trans} ELSE {}
    IN  /\ pending = inHand \cup {heap[i].trans : i \in inHeap}
        /\ \A i, j \in inHeap : heap[i].trans = heap[j].trans => i = j
        /\ worker.trans \notin pending

(* Whatever is in the queue, the worker gets on to execute something, or   *)
(* to the NULL that ends the process.                                      *)
WorkerProceeds ==
    (Len(heap) > 0) ~> ((worker.pc = "execute" /\ worker.trans # NULL) \/ ~Alive)
=============================================================================
