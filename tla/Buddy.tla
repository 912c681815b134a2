------------------------------- MODULE Buddy -------------------------------
(***************************************************************************)
(* The buddy allocator (lib/buddy/memory.c) and its user in the server,    *)
(* the arena (new_arena and destroy_arena in arena/arena.c).               *)
(*                                                                         *)
(* The tree is an array: the children of position p are 2p + 1 and 2p + 2. *)
(* Sizes and addresses are in Kb from the start of the memory, except for  *)
(* the bytes of a request.  The memory does not start at a page boundary,  *)
(* so the arena moves its pointer up by a part of a page or a whole one.   *)
(* One thread uses the allocator, an operation is one step.                *)
(***************************************************************************)
EXTENDS Integers, FiniteSets

CONSTANTS
    Level,      \* buddy_info->level, at least 1
    Kb,         \* bytes in a Kb
    ArenaBytes, \* what new_arena asks for
    PageKb,     \* PAGE_SIZE
    NULL

ASSUME BuddyAssumption ==
    /\ Level \in Nat \ {0}
    /\ Kb \in Nat \ {0}
    /\ ArenaBytes \in Nat
    /\ PageKb \in Nat
    /\ NULL \notin Nat

VARIABLES
    tree,   \* buddy_info->tree
    used,   \* buddy_info->used
    arena,  \* arena->pages, the aligned address, or NULL
    blocks  \* history: the positions of the blocks that are in use

vars == <<tree, used, arena, blocks>>

leaves == 2 ^ Level - 1
Position == 0 .. (leaves - 1)

(* The logarithm, rounded up. *)
bsqrt(num) == CHOOSE r \in 0 .. num : 2 ^ r >= num /\ \A q \in 0 .. (r - 1) : 2 ^ q < num

LevelOf(pos) == bsqrt(pos + 2)
Capasity(pos) == 2 ^ (Level - LevelOf(pos))

(* The address of the block at pos. *)
Address(pos) == ((pos + 1) % 2 ^ (LevelOf(pos) - 1)) * Capasity(pos)

Fresh == [p \in Position |-> "FREE"]

(* buddy_new *)
Init ==
    /\ tree = Fresh
    /\ used = 0 /\ arena = NULL /\ blocks = {}
-----------------------------------------------------------------------------
(* _buddy_ack_memory: the position of the block it takes at the root or    *)
(* below it.                                                               *)
Ack(kbytes) ==
    LET ack[pos \in Position] ==
            LET left == ack[2 * pos + 1]
                below == IF left # NULL THEN left ELSE ack[2 * pos + 2]
            IN  IF Capasity(pos) < kbytes \/ tree[pos] = "USED" THEN NULL
                ELSE IF Capasity(pos) \div 2 >= kbytes /\ below # NULL THEN below
                ELSE IF tree[pos] = "FREE" THEN pos ELSE NULL
    IN  ack[0]

(* The nodes that the search comes through on its way to pos. *)
Above(pos) == {q \in Position : \E k \in 1 .. Level : q + 1 = (pos + 1) \div 2 ^ k}

(* Mutant: the nodes above the block stay free. *)
TakeOnly(pos) == [tree EXCEPT ![pos] = "USED"]

(* The block at pos is taken, the ones it was split from are marked. *)
Take(pos) ==
    [p \in Position |-> IF p = pos THEN "USED"
                        ELSE IF p \in Above(pos) THEN "SPLIT" ELSE tree[p]]

(* The size is rounded down to Kb before it is rounded up. *)
AllocSize(bytes) == 2 ^ bsqrt(bytes \div Kb)

(* The arena takes the whole memory or one half of it, and a page is       *)
(* smaller than the memory: db_start makes a memory of 8192 Kb and an      *)
(* arena of 1024 pages of 4 Kb.                                            *)
ASSUME ArenaAssumption ==
    /\ 2 * AllocSize(ArenaBytes) >= 2 ^ (Level - 1)
    /\ PageKb < 2 ^ (Level - 1)

(* A request that finds no block returns NULL and changes nothing. *)
buddy_alloc(bytes) ==
    LET pos == Ack(AllocSize(bytes))
    IN  /\ pos # NULL
        /\ tree' = Take(pos)
        /\ used' = used + Capasity(pos)
        /\ blocks' = blocks \cup {pos}
-----------------------------------------------------------------------------
(* From a free leaf up to the block it belongs to.  pos / 2 is the parent  *)
(* of a left child only.                                                   *)
Climb(pos) ==
    LET Stop(k) == pos \div 2 ^ k = 0 \/ tree[pos \div 2 ^ k] # "FREE"
    IN  pos \div 2 ^ (CHOOSE k \in 0 .. Level : Stop(k) /\ \A j \in 0 .. (k - 1) : ~Stop(j))

(* Mutant: the leaves are counted from one place further on. *)
FoundNext(address) == Climb(2 ^ (Level - 1) + address)

(* The position that buddy_free looks at for an address.  A leaf is never  *)
(* split.                                                                  *)
Found(address) == Climb(2 ^ (Level - 1) + address - 1)

State == {"FREE", "USED", "SPLIT"}
Tree == [Position -> State]

(* _buddy_merge: what the loop makes of a tree, from parent on *)
Merge[parent \in Position] ==
    [t \in Tree |->
        LET merged == [t EXCEPT ![parent] = "FREE"]
        IN  IF ~(t[parent] = "SPLIT" /\ t[2 * parent + 1] = "FREE" /\ t[2 * parent + 2] = "FREE")
            THEN t
            ELSE IF parent = 0 THEN merged ELSE Merge[parent \div 2][merged]]

(* Mutant: the counter is not taken back. *)
FreeKeepsCount(address) ==
    LET pos == Found(address)
    IN  /\ tree[pos] = "USED"
        /\ tree' = Merge[pos \div 2][[tree EXCEPT ![pos] = "FREE"]]
        /\ blocks' = blocks \ {pos}
        /\ UNCHANGED used

(* buddy_free.  Its exit on what it takes for a double free is never       *)
(* taken: that is FreeFindsBlock.                                          *)
buddy_free(address) ==
    LET pos == Found(address)
    IN  /\ tree[pos] = "USED"
        /\ tree' = Merge[pos \div 2][[tree EXCEPT ![pos] = "FREE"]]
        /\ used' = used - Capasity(pos)
        /\ blocks' = blocks \ {pos}
-----------------------------------------------------------------------------
(* The arena is the only block of the server, and the first one. *)
new_arena ==
    /\ arena = NULL /\ tree = Fresh
    /\ buddy_alloc(ArenaBytes)
    /\ \E up \in 0 .. PageKb : arena' = Address(Ack(AllocSize(ArenaBytes))) + up

destroy_arena == arena # NULL /\ buddy_free(arena) /\ arena' = NULL

(* Other requests, as the tests of the allocator make them. *)
Request == 1 .. (Kb * 2 ^ (Level - 1))

Next ==
    \/ new_arena \/ destroy_arena
    \/ /\ arena = NULL
       /\ UNCHANGED arena
       /\ \/ \E bytes \in Request : buddy_alloc(bytes)
          \/ \E b \in blocks : buddy_free(Address(b))

Spec == Init /\ [][Next]_vars
-----------------------------------------------------------------------------
(* Only a node with children is split, and the counter, an unsigned one,   *)
(* stays between zero and the size of the memory.                          *)
TypeOK ==
    /\ tree \in Tree
    /\ \A p \in Position : tree[p] = "SPLIT" => 2 * p + 2 \in Position
    /\ used \in 0 .. 2 ^ (Level - 1)
    /\ blocks \subseteq Position

Extent(pos) == Address(pos) .. (Address(pos) + Capasity(pos) - 1)

(* Blocks in use do not overlap and lie inside the memory, and the counter *)
(* is the number of Kb they cover, whatever was split and merged in        *)
(* between.                                                                *)
BlocksDisjoint ==
    /\ \A b \in blocks : Extent(b) \subseteq 0 .. (2 ^ (Level - 1) - 1)
    /\ \A b, c \in blocks : b # c => Extent(b) \cap Extent(c) = {}
    /\ used = Cardinality(UNION {Extent(b) : b \in blocks})

(* buddy_free finds the block that an address was given out for, although  *)
(* it goes up by pos / 2; also from inside the block of the arena.         *)
FreeFindsBlock ==
    /\ \A b \in blocks : tree[b] = "USED" /\ Found(Address(b)) = b
    /\ arena # NULL => {Found(arena)} = blocks

(* What is free is free all the way down, and a block in use has nothing   *)
(* below it: merging the wrong node never gives memory away twice.         *)
FreeAllTheWay ==
    \A p \in Position \ {0} :
        tree[p] # "FREE" => \A q \in Above(p) : tree[q] = "SPLIT"
=============================================================================
