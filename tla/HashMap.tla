------------------------------ MODULE HashMap ------------------------------
(***************************************************************************)
(* The hash map of the keys (memory/hashmap.c over lib/hashmap): a table   *)
(* of MAX_HASH_NODE buckets, each an AVL tree or, once it has held         *)
(* MAX_HASH_DEP keys, a table of its own.                                  *)
(*                                                                         *)
(* Only the worker thread uses the map, so an operation is one step.  The  *)
(* tree operations work on a heap of nodes with the pointers of the code,  *)
(* since what may go wrong is a pointer that is left behind: a function of *)
(* the code that takes the address of a pointer is an operator that        *)
(* returns the heap, the new value of that pointer, and the events in bad. *)
(* The map is followed up to the first such event.                         *)
(***************************************************************************)
EXTENDS Integers, FiniteSets, Sequences, Functions

CONSTANTS
    Key,           \* sequences of bytes, as the signed char they are
    MAX_HASH_NODE,
    MAX_HASH_DEP,
    NULL

ASSUME HashMapAssumption ==
    /\ \A k \in Key : k \in Seq(-128 .. 127)
    /\ MAX_HASH_NODE \in 1 .. 20024
    /\ MAX_HASH_DEP \in Nat \ {0, 1}
    /\ NULL \notin Key

VARIABLES
    status,  \* "up", "erased", or the event up to which the map is followed
    heap,    \* the avlnodes
    tables,  \* the hm_nodes; the first one is the map
    known    \* history: the keys that were inserted and not deleted

vars == <<status, heap, tables, known>>

(* The events:                                                             *)
(*   SIGSEGV    a rotation follows a NULL pointer                          *)
(*   lost       a rotation below the top of a tree, whose parent keeps     *)
(*              pointing at the node that was turned down                  *)
(*   confused   a new table has a bucket that is full at once, so that its *)
(*              tree is going to be taken for a table                      *)
Event == {"SIGSEGV", "lost", "confused"}

(* Addresses.  Which one malloc gives cannot be told from outside: between *)
(* two operations a node has the name of the key it holds.                 *)
Node == Key
Side == {"left", "right"}

(* avlnode; the meta that a key is inserted with is named like the key. *)
NoNode == [key |-> NULL, meta |-> NULL, left |-> NULL, right |-> NULL,
           parent |-> NULL, hight |-> 0, live |-> FALSE]

avl_new_node(h, k) ==
    [h EXCEPT ![k] = [NoNode EXCEPT !.key = k, !.meta = k, !.hight = 1, !.live = TRUE]]

(* Mutant: the node is freed and its key is not. *)
DeleteKeepsKey(h, n) == [h EXCEPT ![n].live = FALSE]

avl_delete_node(h, n) == [h EXCEPT ![n] = NoNode]
-----------------------------------------------------------------------------
(* memcmp compares unsigned bytes. *)
Precedes(first, second) ==
    \E i \in DOMAIN first :
        /\ \A j \in 1 .. (i - 1) : first[j] = second[j]
        /\ first[i] % 256 < second[i] % 256

(* key_comp(first, second) > 0: second belongs on the right of first. *)
key_comp(first, second) ==
    \/ Len(first) < Len(second)
    \/ Len(first) = Len(second) /\ Precedes(first, second)

SideOf(first, second) == IF key_comp(first, second) THEN "right" ELSE "left"

Multiplier(dep) ==
    CASE dep = 1 -> 57 [] dep = 2 -> 97 [] dep = 3 -> 71 [] dep = 4 -> 107
      [] OTHER -> 89

(* 2^32 modulo the number of buckets: the product of a negative char wraps. *)
UINT32 == ((65536 % MAX_HASH_NODE) * (65536 % MAX_HASH_NODE)) % MAX_HASH_NODE

hash(k, dep) ==
    FoldFunction(LAMBDA c, mid :
                   (mid + Multiplier(dep) * c + (IF c < 0 THEN UINT32 ELSE 0))
                        % MAX_HASH_NODE,
                 0, k)
-----------------------------------------------------------------------------
(***************************************************************************)
(* AVLNode.c                                                               *)
(***************************************************************************)
Tree(h, n, bad) == [heap |-> h, node |-> n, bad |-> bad]

WithBad(tree, bad) == [tree EXCEPT !.bad = @ \cup bad]

Hight(h, n) == IF n = NULL THEN 0 ELSE h[n].hight

avl_calc_hight(h, n) ==
    LET l == Hight(h, h[n].left)
        r == Hight(h, h[n].right)
    IN  IF n = NULL THEN h
        ELSE [h EXCEPT ![n].hight = (IF l > r THEN l ELSE r) + 1]

avl_calc_balance(h, n) ==
    IF n = NULL THEN 0 ELSE Hight(h, h[n].right) - Hight(h, h[n].left)

(* Mutant: the child is not told its new parent. *)
ParentKept(h, n, p) == h

SetParent(h, n, p) == IF n = NULL THEN h ELSE [h EXCEPT ![n].parent = p]

Opposite(side) == IF side = "left" THEN "right" ELSE "left"

(* __avl_right_move lifts the child on the left, __avl_left_move the one   *)
(* on the right.                                                           *)
Lift(h, n, side) ==
    LET mid == h[n][side]
        moved == h[mid][Opposite(side)]
        h1 == SetParent([h EXCEPT ![n][side] = moved], moved, n)
        h2 == [h1 EXCEPT ![mid].parent = h[n].parent, ![mid][Opposite(side)] = n,
                         ![n].parent = mid]
    IN  IF mid = NULL THEN Tree(h, n, {"SIGSEGV"})
        ELSE Tree(avl_calc_hight(avl_calc_hight(h2, n), mid), mid, {})

(* __avl_LR_move and __avl_RL_move *)
LiftOver(below, n, side) ==
    WithBad(Lift([below.heap EXCEPT ![n][side] = below.node], n, side), below.bad)
LiftTwice(h, n, side) == LiftOver(Lift(h, h[n][side], Opposite(side)), n, side)

(* There is no case for a child that is in balance, and the last one looks *)
(* at the child on the left where the one on the right is going to move.   *)
avl_rebalance(h, n) ==
    LET balance == avl_calc_balance(h, n)
        left == avl_calc_balance(h, h[n].left)
        right == avl_calc_balance(h, h[n].right)
    IN  CASE balance = -2 /\ left = -1 -> Lift(h, n, "left")
          [] balance = 2 /\ right = 1  -> Lift(h, n, "right")
          [] balance = -2 /\ left = 1  -> LiftTwice(h, n, "left")
          [] balance = 2 /\ right # 1 /\ left = -1 -> LiftTwice(h, n, "right")
          [] OTHER -> Tree(h, n, {})

(* avl_calc_hight and avl_rebalance, after what happened below. *)
Settle(h, n, bad) == WithBad(avl_rebalance(avl_calc_hight(h, n), n), bad)

RECURSIVE avl_search(_, _, _)
avl_search(h, n, k) ==
    IF n = NULL \/ h[n].key = k THEN n
    ELSE avl_search(h, h[n][SideOf(h[n].key, k)], k)

(* The tree below becomes the child of n. *)
Hung(below, n, side) ==
    Settle([below.heap EXCEPT ![n][side] = below.node, ![below.node].parent = n],
           n, below.bad)

RECURSIVE avl_insert_node(_, _, _)
avl_insert_node(h, n, new) ==
    LET side == SideOf(h[n].key, h[new].key)
    IN  Hung(IF h[n][side] = NULL THEN Tree(h, new, {})
             ELSE avl_insert_node(h, h[n][side], new), n, side)

(* A leaf is unlinked through its parent pointer. *)
RemoveLeaf(h, n) ==
    LET last == h[n].parent
        h1 == IF last = NULL THEN h
              ELSE avl_calc_hight([h EXCEPT
                    ![last].left = IF @ = n THEN NULL ELSE @,
                    ![last].right = IF @ = n /\ h[last].left # n THEN NULL ELSE @], last)
    IN  Tree(avl_delete_node(h1, n), NULL, {})

FreeNode(tree, n) == [tree EXCEPT !.heap = avl_delete_node(@, n)]

(* The only child is copied into the node and freed. *)
RemoveOne(h, n) ==
    LET mid == IF h[n].left # NULL THEN h[n].left ELSE h[n].right
        h1 == [h EXCEPT ![n] = [@ EXCEPT !.key = h[mid].key, !.meta = h[mid].meta,
                                         !.left = h[mid].left, !.right = h[mid].right]]
        h2 == SetParent(SetParent(h1, h[mid].left, n), h[mid].right, n)
    IN  FreeNode(Settle(h2, n, {}), mid)

RECURSIVE Rightmost(_, _)
Rightmost(h, n) == IF h[n].right = NULL THEN n ELSE Rightmost(h, h[n].right)

(* A tree that was turned while its parent was not told. *)
Turned(n, top) == IF top.node \in {n, NULL} THEN top.bad ELSE top.bad \cup {"lost"}

(* The next step up, from the tree below, whose top was at. *)
SettleOver(below, at, n) == Settle(below.heap, n, Turned(at, below))

(* The way up from the parent of the freed node to n. *)
RECURSIVE SettleUp(_, _, _)
SettleUp(mid2, at, n) ==
    LET up == mid2.heap[mid2.node].parent
    IN  IF at = n THEN mid2 ELSE SettleUp(SettleOver(mid2, at, up), up, n)

(* Mutant: the key moves without its meta. *)
RemoveBothKeyOnly(h, n) ==
    LET mid1 == Rightmost(h, h[n].left)
        from == h[mid1].parent
        h1 == [h EXCEPT ![n].key = h[mid1].key,
                        ![from][IF from = n THEN "left" ELSE "right"] = h[mid1].left]
    IN  SettleUp(Settle(avl_delete_node(SetParent(h1, h[mid1].left, from), mid1), from, {}),
                 from, n)

(* The key changes places with the last one of the left subtree. *)
RemoveBoth(h, n) ==
    LET mid1 == Rightmost(h, h[n].left)
        from == h[mid1].parent
        rest == h[mid1].left
        h1 == [h EXCEPT ![n].key = h[mid1].key, ![n].meta = h[mid1].meta]
        h2 == SetParent([h1 EXCEPT ![from][IF from = n THEN "left" ELSE "right"] = rest],
                        rest, from)
    IN  SettleUp(Settle(avl_delete_node(h2, mid1), from, {}), from, n)

RECURSIVE avl_remove_node(_, _, _)
avl_remove_node(h, n, k) ==
    LET mid == h[n][SideOf(h[n].key, k)]
    IN  IF h[n].key # k THEN SettleOver(avl_remove_node(h, mid, k), mid, n)
        ELSE IF h[n].left = NULL /\ h[n].right = NULL THEN RemoveLeaf(h, n)
        ELSE IF h[n].left # NULL /\ h[n].right # NULL THEN RemoveBoth(h, n)
        ELSE RemoveOne(h, n)

(* The nodes in the order in which __hash_insert_avl_in_hash and avl_erase *)
(* come to them.                                                           *)
RECURSIVE PostOrder(_, _)
PostOrder(h, n) ==
    IF n = NULL THEN <<>>
    ELSE PostOrder(h, h[n].left) \o PostOrder(h, h[n].right) \o <<n>>
-----------------------------------------------------------------------------
(***************************************************************************)
(* HashMap.c                                                               *)
(***************************************************************************)
Index == 0 .. (MAX_HASH_NODE - 1)

(* hm_node.  The kind of a bucket is not stored: it is what top really is. *)
hash_new_node(dep) ==
    [dep |-> dep, len_of_list |-> [i \in Index |-> 0], top |-> [i \in Index |-> NULL],
     kind |-> [i \in Index |-> "tree"]]

(* The table in which the walk for k ends, from table t. *)
RECURSIVE Last(_, _)
Last(t, k) ==
    LET i == hash(k, tables[t].dep)
    IN  IF tables[t].len_of_list[i] < MAX_HASH_DEP THEN t ELSE Last(tables[t].top[i], k)

Top(k) == LET t == tables[Last(1, k)] IN t.top[hash(k, t.dep)]

hash_search(k) == avl_search(heap, Top(k), k)

(* A tree is the bucket i of a table, which has got one key more. *)
Filed(new, i, tree) ==
    [heap |-> tree.heap, bad |-> new.bad \cup tree.bad,
     table |-> [new.table EXCEPT !.top[i] = tree.node, !.len_of_list[i] = @ + 1]]

Alone(h, go) ==
    [h EXCEPT ![go] = [@ EXCEPT !.left = NULL, !.right = NULL, !.parent = NULL,
                                !.hight = 1]]

(* __hash_insert_avl_in_hash *)
RECURSIVE InsertAll(_, _)
InsertAll(new, nodes) ==
    LET go == Head(nodes)
        i == hash(new.heap[go].key, new.table.dep)
        top == new.table.top[i]
    IN  IF nodes = <<>> THEN new
        ELSE InsertAll(Filed(new, i, IF top = NULL THEN Tree(Alone(new.heap, go), go, {})
                                     ELSE avl_insert_node(Alone(new.heap, go), top, go)),
                       Tail(nodes))

Full(table) == \E i \in Index : table.len_of_list[i] >= MAX_HASH_DEP

(* The new table is the bucket i of table t. *)
Replaced(t, i, new) ==
    [heap |-> new.heap,
     tables |-> Append([tables EXCEPT ![t].top[i] = Len(tables) + 1,
                                      ![t].kind[i] = "table",
                                      ![t].len_of_list[i] = MAX_HASH_DEP + 1],
                       new.table),
     bad |-> IF Full(new.table) THEN new.bad \cup {"confused"} ELSE new.bad]

(* __hash_remake *)
Remake(t, i, tree) ==
    Replaced(t, i, InsertAll([heap |-> tree.heap, bad |-> tree.bad,
                              table |-> hash_new_node(tables[t].dep + 1)],
                             PostOrder(tree.heap, tree.node)))

(* The bucket i of table t gets the tree and by keys more. *)
Stored(t, i, tree, by) ==
    [heap |-> tree.heap, bad |-> tree.bad,
     tables |-> [tables EXCEPT ![t].top[i] = tree.node, ![t].len_of_list[i] = @ + by]]

(* hash_insert *)
Grown(t, i, tree) ==
    IF tables[t].len_of_list[i] + 1 = MAX_HASH_DEP THEN Remake(t, i, tree)
    ELSE Stored(t, i, tree, 1)

Inserted(k) ==
    LET t == Last(1, k)
        h == avl_new_node(heap, k)
    IN  Grown(t, hash(k, tables[t].dep),
              IF Top(k) = NULL THEN Tree(h, k, {}) ELSE avl_insert_node(h, Top(k), k))

(* hash_delete *)
Deleted(k) ==
    LET t == Last(1, k)
    IN  Stored(t, hash(k, tables[t].dep), avl_remove_node(heap, Top(k), k), -1)

(* Mutant: only the trees of the table itself. *)
ErasedFlat(t) ==
    UNION {IF tables[t].len_of_list[i] \in 1 .. MAX_HASH_DEP
           THEN Range(PostOrder(heap, tables[t].top[i])) ELSE {} : i \in Index}

(* The nodes that hash_erase frees. *)
RECURSIVE Erased(_)
Erased(t) ==
    UNION {IF tables[t].len_of_list[i] > MAX_HASH_DEP THEN Erased(tables[t].top[i])
           ELSE IF tables[t].len_of_list[i] > 0
                THEN Range(PostOrder(heap, tables[t].top[i])) ELSE {} : i \in Index}
-----------------------------------------------------------------------------
(***************************************************************************)
(* memory/hashmap.c                                                        *)
(***************************************************************************)

(* The map before its first key: hashmap_new. *)
Init ==
    /\ status = "up"
    /\ heap = [n \in Node |-> NoNode]
    /\ tables = <<hash_new_node(0)>>
    /\ known = {}

(* A node of the heap h under the name of its key. *)
Named(h, n) == IF n = NULL THEN NULL ELSE h[n].key

Renamed(h) ==
    [k \in Node |->
        IF \A n \in Node : h[n].key # k THEN NoNode
        ELSE LET node == h[CHOOSE n \in Node : h[n].key = k]
             IN  [node EXCEPT !.left = Named(h, @), !.right = Named(h, @),
                              !.parent = Named(h, @)]]

Becomes(new) ==
    /\ heap' = Renamed(new.heap)
    /\ tables' = [t \in DOMAIN new.tables |->
            [new.tables[t] EXCEPT !.top = [i \in Index |->
                IF new.tables[t].kind[i] = "tree" THEN Named(new.heap, @[i]) ELSE @[i]]]]
    /\ status' \in (IF new.bad = {} THEN {"up"} ELSE new.bad)

hashmap_insert_key(k) ==
    /\ status = "up"
    /\ hash_search(k) = NULL
    /\ Becomes(Inserted(k))
    /\ known' = known \cup {k}

hashmap_delete_key(k) ==
    /\ status = "up"
    /\ hash_search(k) # NULL
    /\ Becomes(Deleted(k))
    /\ known' = known \ {k}

(* hashmap_delete, at the shutdown: a bucket that was full at once is      *)
(* taken for the tree it is.                                               *)
hashmap_delete ==
    /\ status \in {"up", "confused"}
    /\ heap' = [n \in Node |-> IF n \in Erased(1) THEN NoNode ELSE heap[n]]
    /\ tables' = <<>>
    /\ known' = {}
    /\ status' = "erased"

Next == hashmap_delete \/ \E k \in Key : hashmap_insert_key(k) \/ hashmap_delete_key(k)

Spec == Init /\ [][Next]_vars
-----------------------------------------------------------------------------
(* A node that is in use has a key, and children are nodes or NULL.        *)
TypeOK ==
    /\ status \in {"up", "erased"} \cup Event
    /\ \A n \in Node :
         /\ heap[n].live <=> heap[n].key # NULL
         /\ \A side \in Side : heap[n][side] \in Node \cup {NULL}
    /\ known \subseteq Key

(* Whatever was inserted and deleted before, and through however many      *)
(* tables: a search finds the node of a key that is there, with the meta   *)
(* the key was inserted with, and nothing for any other key.               *)
FindsExactly ==
    status = "up" =>
        \A k \in Key :
            IF k \in known
            THEN hash_search(k) # NULL /\ heap[hash_search(k)].meta = k
            ELSE hash_search(k) = NULL

Nodes(t, i) == Range(PostOrder(heap, tables[t].top[i]))

(* Parent pointers, heights and the number of keys of a bucket agree with  *)
(* the tree itself; no node is in two places, none has leaked.             *)
TreesConsistent ==
    status = "up" =>
        LET trees == {<<t, i>> \in (DOMAIN tables) \X Index : tables[t].kind[i] = "tree"}
        IN  /\ \A b \in trees :
                 Len(PostOrder(heap, tables[b[1]].top[b[2]])) = tables[b[1]].len_of_list[b[2]]
            /\ \A n \in Node : heap[n].live =>
                 /\ heap[n].hight = avl_calc_hight(heap, n)[n].hight
                 /\ \A side \in Side : heap[n][side] # NULL => heap[heap[n][side]].parent = n
                 /\ Cardinality({b \in trees : n \in Nodes(b[1], b[2])}) = 1

(* hashmap_delete frees every node. *)
EraseFreesAll == status = "erased" => \A n \in Node : ~heap[n].live

(* The test of the map finds a key again after another one was deleted.    *)
(* avl_remove_node rebalances copies of child pointers.                    *)
DeletionKeepsOthers ==
    status \in {"up", "lost"} => \A k \in known : hash_search(k) # NULL
=============================================================================
