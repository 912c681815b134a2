------------------------------- MODULE Arena -------------------------------
(***************************************************************************)
(* The arena: one contiguous block of ArenaPages pages of PAGE_SIZE bytes  *)
(* (arena.c, meta.h).  A stored value is a record of a two byte length     *)
(* followed by the bytes of the value.  The memory is abstracted to the    *)
(* set of records that are intact in it: [addr, val] says that the bytes   *)
(* from addr on spell the length of val and then val.  A write removes     *)
(* every record it overlaps, because what is left of such a record is no   *)
(* longer the value.  Addresses are relative to the first page; pages and  *)
(* arena slots are numbered from 1.                                        *)
(***************************************************************************)
EXTENDS Integers, Sequences

CONSTANTS
    Value,      \* the values clients send
    Size,       \* Size[v] is the length of v in bytes (str_t.size)
    Garbage,    \* what a read finds where no intact record begins
    GarbageLen, \* lengths a read of such bytes may find in the length field
    PAGE_SIZE,  \* bytes in a page (4096 in meta.h)
    ArenaPages, \* pages in the arena (1024 in db_start)
    UINT16      \* modulus of the 16 bit offsets and lengths (65536)

ASSUME ArenaAssumption ==
    /\ Size \in [Value -> Nat]
    /\ Garbage \notin Value
    /\ GarbageLen \subseteq Nat
    /\ GarbageLen # {}
    /\ PAGE_SIZE \in Nat \ {0}
    /\ ArenaPages \in Nat \ {0}
    /\ UINT16 \in Nat
    /\ PAGE_SIZE < UINT16

Slot == 1 .. ArenaPages

(* sizeof(value->size): the length field in front of every stored value. *)
LenBytes == 2

(* Bytes that value->size + sizeof(value->size) counts for a length. *)
RecordBytes(size) == size + LenBytes

SlotStart(slot) == (slot - 1) * PAGE_SIZE

(* The record e shares a byte with the n bytes from addr on. *)
Overlaps(e, addr, n) ==
    /\ e.addr < addr + n
    /\ addr < e.addr + RecordBytes(Size[e.val])

(* What is intact in m after n bytes from addr on were overwritten. *)
Clobber(m, addr, n) == {e \in m : ~Overlaps(e, addr, n)}

(* The two writes of page_value_set: the length, then the bytes. *)
Store(m, addr, v) ==
    Clobber(m, addr, RecordBytes(Size[v])) \cup {[addr |-> addr, val |-> v]}

(* The value that the record at addr spells. *)
ReadAt(m, addr) ==
    IF \E e \in m : e.addr = addr
    THEN (CHOOSE e \in m : e.addr = addr).val
    ELSE Garbage

(* The lengths that reading the length field at addr may give. *)
SizesAt(m, addr) ==
    IF ReadAt(m, addr) \in Value THEN {Size[ReadAt(m, addr)]} ELSE GarbageLen

(* memmove of the record found at from, whose length field says size. *)
Move(m, from, to, size) ==
    IF ReadAt(m, from) \in Value
    THEN Store(m, to, ReadAt(m, from))
    ELSE Clobber(m, to, RecordBytes(size))

(* The lengths that the length field at from may give after that move: the *)
(* bytes there are new ones when the record was moved onto them.           *)
SizesAfterMove(from, to, size) ==
    IF from # to /\ from < to + RecordBytes(size) /\ to < from + LenBytes
    THEN GarbageLen ELSE {size}

(* The bytes of a slot as disk_dump_page writes them: the records that lie *)
(* in the slot as a whole, at their offsets inside the page.               *)
PageImage(m, slot) ==
    {[addr |-> e.addr - SlotStart(slot), val |-> e.val] :
        e \in {f \in m : /\ SlotStart(slot) <= f.addr
                         /\ f.addr + RecordBytes(Size[f.val])
                                <= SlotStart(slot) + PAGE_SIZE}}

(* disk_upload_page: the image replaces the bytes of the slot. *)
Upload(m, slot, image) ==
    Clobber(m, SlotStart(slot), PAGE_SIZE)
        \cup {[addr |-> SlotStart(slot) + e.addr, val |-> e.val] : e \in image}

Memory == SUBSET [addr : Nat, val : Value]
=============================================================================
