------------------------------ MODULE LruQueue ------------------------------
(***************************************************************************)
(* The LRU list of lru/lruq.c.  The list is threaded through the page      *)
(* headers (lru_next, lru_prev); here the two links of every page are      *)
(* functions in one record.  0 stands for NULL.                            *)
(***************************************************************************)
EXTENDS Integers

CONSTANT MaxPages   \* bound: the largest number of page headers

ASSUME LruAssumption == MaxPages \in Nat \ {0}

PageId == 1 .. MaxPages
NULL == 0

LruType == [top    : PageId \cup {NULL},
            bottom : PageId \cup {NULL},
            next   : [PageId -> PageId \cup {NULL}],
            prev   : [PageId -> PageId \cup {NULL}]]

new_lru_queue == [top    |-> NULL,
                  bottom |-> NULL,
                  next   |-> [p \in PageId |-> NULL],
                  prev   |-> [p \in PageId |-> NULL]]

(* Mutant: the first page of an empty list does not become its bottom. *)
TouchLeavesBottom(q, p) ==
    LET cleared == [q.next EXCEPT ![p] = NULL]
    IN  [top    |-> p,
         bottom |-> q.bottom,
         next   |-> IF q.top = NULL THEN cleared
                                    ELSE [cleared EXCEPT ![q.top] = p],
         prev   |-> [q.prev EXCEPT ![p] = q.top]]

(* A page that is already in the list is linked a second time: the code    *)
(* does not unlink it first, and touching the page at the top makes it its *)
(* own successor.                                                          *)
lru_touch_page(q, p) ==
    LET cleared == [q.next EXCEPT ![p] = NULL]
    IN  [top    |-> p,
         bottom |-> IF q.bottom = NULL THEN p ELSE q.bottom,
         next   |-> IF q.top = NULL THEN cleared
                                    ELSE [cleared EXCEPT ![q.top] = p],
         prev   |-> [q.prev EXCEPT ![p] = q.top]]

(* Where the search of least_recent_page stands after n steps: it leaves   *)
(* pages that are being defragmented, and starts again at the bottom when  *)
(* the list ends.                                                          *)
LruWalk(q, processing) ==
    LET walk[n \in 0 .. MaxPages] ==
            IF n = 0 THEN q.bottom
            ELSE IF walk[n - 1] \notin processing THEN walk[n - 1]
            ELSE IF q.next[walk[n - 1]] = NULL THEN q.bottom
            ELSE q.next[walk[n - 1]]
    IN  walk[MaxPages]

(* The page least_recent_page stops at.  While every page it meets is      *)
(* being defragmented it spins, so there is no such page yet.              *)
LruStopsAt(q, processing, p) ==
    /\ q.bottom # NULL
    /\ LruWalk(q, processing) = p
    /\ p \notin processing

(* The unlinking half of least_recent_page. *)
least_recent_page(q, p) ==
    LET top == IF p = q.top THEN NULL ELSE q.top
        n   == q.next[p]
        r   == q.prev[p]
    IN  IF p = q.bottom
        THEN [top    |-> top,
              bottom |-> n,
              next   |-> q.next,
              prev   |-> IF n = NULL THEN q.prev ELSE [q.prev EXCEPT ![n] = NULL]]
        ELSE [top    |-> top,
              bottom |-> q.bottom,
              next   |-> IF r = NULL THEN q.next ELSE [q.next EXCEPT ![r] = n],
              prev   |-> IF n = NULL THEN q.prev ELSE [q.prev EXCEPT ![n] = r]]
=============================================================================
