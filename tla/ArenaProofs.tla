----------------------------- MODULE ArenaProofs -----------------------------
(***************************************************************************)
(* What the operators of the arena and of the LRU list return, for any     *)
(* sizes: the facts that the proofs about the storage engine rest on.      *)
(***************************************************************************)
EXTENDS Arena, LruQueue, TLAPS

(* The bytes of a slot begin at an address of the arena. *)
LEMMA SlotStartType == ASSUME NEW slot \in Slot PROVE SlotStart(slot) \in Nat
<1>1. slot - 1 \in Nat /\ PAGE_SIZE \in Nat
  BY ArenaAssumption DEF Slot
<1> QED BY <1>1 DEF SlotStart

(* A length field adds to the length of a value. *)
LEMMA RecordBytesType == ASSUME NEW n \in Nat PROVE RecordBytes(n) \in Nat \ {0, 1}
BY DEF RecordBytes, LenBytes

(* Overwriting bytes leaves a part of the intact records. *)
LEMMA ClobberType ==
    ASSUME NEW m \in Memory, NEW addr, NEW n PROVE Clobber(m, addr, n) \in Memory
BY DEF Clobber, Memory

(* page_value_set leaves intact records, and the new one is one of them. *)
LEMMA StoreType ==
    ASSUME NEW m \in Memory, NEW addr \in Nat, NEW v \in Value
    PROVE  Store(m, addr, v) \in Memory
<1>1. Clobber(m, addr, RecordBytes(Size[v])) \in Memory BY ClobberType
<1>2. [addr |-> addr, val |-> v] \in [addr : Nat, val : Value] OBVIOUS
<1> QED BY <1>1, <1>2 DEF Store, Memory

(* A read finds a value or what is not one. *)
LEMMA ReadAtType ==
    ASSUME NEW m \in Memory, NEW addr PROVE ReadAt(m, addr) \in Value \cup {Garbage}
<1>1. CASE \E e \in m : e.addr = addr
  <2>1. (CHOOSE e \in m : e.addr = addr) \in m BY <1>1
  <2>2. (CHOOSE e \in m : e.addr = addr) \in [addr : Nat, val : Value]
    BY <2>1 DEF Memory
  <2>3. (CHOOSE e \in m : e.addr = addr).val \in Value BY <2>2
  <2> QED BY <1>1, <2>3 DEF ReadAt
<1>2. CASE ~\E e \in m : e.addr = addr
  BY <1>2 DEF ReadAt
<1> QED BY <1>1, <1>2

(* A length field holds a number. *)
LEMMA SizesAtType ==
    ASSUME NEW m \in Memory, NEW addr PROVE SizesAt(m, addr) \in SUBSET Nat
BY ArenaAssumption DEF SizesAt

(* The length that arena_defragmentate_page may read after a move is a     *)
(* number.                                                                 *)
LEMMA SizesAfterMoveType ==
    ASSUME NEW from, NEW to, NEW size \in Nat
    PROVE  SizesAfterMove(from, to, size) \in SUBSET Nat
BY ArenaAssumption DEF SizesAfterMove

(* memmove leaves intact records. *)
LEMMA MoveType ==
    ASSUME NEW m \in Memory, NEW from, NEW to \in Nat, NEW size
    PROVE  Move(m, from, to, size) \in Memory
BY StoreType, ClobberType DEF Move

(* What disk_dump_page writes is a page of records at offsets in the page. *)
LEMMA PageImageType ==
    ASSUME NEW m \in Memory, NEW slot \in Slot PROVE PageImage(m, slot) \in Memory
<1> SUFFICES ASSUME NEW f \in m, SlotStart(slot) <= f.addr
             PROVE  [addr |-> f.addr - SlotStart(slot), val |-> f.val]
                        \in [addr : Nat, val : Value]
  BY DEF PageImage, Memory
<1>1. f.addr \in Nat /\ f.val \in Value BY DEF Memory
<1>2. SlotStart(slot) \in Nat BY SlotStartType
<1> QED BY <1>1, <1>2

(* What disk_upload_page reads is laid into the slot. *)
LEMMA UploadType ==
    ASSUME NEW m \in Memory, NEW slot \in Slot, NEW image \in Memory
    PROVE  Upload(m, slot, image) \in Memory
<1>1. Clobber(m, SlotStart(slot), PAGE_SIZE) \in Memory BY ClobberType
<1>2. SlotStart(slot) \in Nat BY SlotStartType
<1>3. ASSUME NEW e \in image
      PROVE  [addr |-> SlotStart(slot) + e.addr, val |-> e.val] \in [addr : Nat, val : Value]
  <2>1. e.addr \in Nat /\ e.val \in Value BY DEF Memory
  <2> QED BY <1>2, <2>1
<1> QED BY <1>1, <1>3 DEF Upload, Memory
-----------------------------------------------------------------------------
(***************************************************************************)
(* Where values survive a write.                                           *)
(***************************************************************************)
Bytes(r) == RecordBytes(Size[r.val])

(* A record as it lies in the memory or in a page of the file. *)
Record == [addr : Nat, val : Value]

(* At most one record begins at an address, so that a read is determined. *)
Unique(m) == \A e, f \in m : e.addr = f.addr => e = f

(* No record runs over the end of the page. *)
InPage(m) == \A e \in m : e.addr + Bytes(e) <= PAGE_SIZE

(* A record has at least the two bytes of its length. *)
LEMMA BytesType ==
    ASSUME NEW r \in Record PROVE Bytes(r) \in Nat /\ Bytes(r) >= 2 /\ Size[r.val] \in Nat
<1>1. Size[r.val] \in Nat BY ArenaAssumption DEF Record
<1> QED BY <1>1 DEF Bytes, RecordBytes, LenBytes

(* Bytes of different slots do not meet. *)
LEMMA SlotsApart ==
    ASSUME NEW s \in Slot, NEW t \in Slot, s # t
    PROVE  \/ SlotStart(s) + PAGE_SIZE <= SlotStart(t)
           \/ SlotStart(t) + PAGE_SIZE <= SlotStart(s)
<1>1. PAGE_SIZE \in Nat /\ ArenaPages \in Nat BY ArenaAssumption
<1>2. ASSUME NEW x \in Slot, NEW y \in Slot, x < y
      PROVE  SlotStart(x) + PAGE_SIZE <= SlotStart(y)
  <2>1. PICK d \in Nat : y - 1 = (x - 1) + 1 + d
    <3>1. y - x - 1 \in Nat /\ y - 1 = (x - 1) + 1 + (y - x - 1) BY <1>1, <1>2 DEF Slot
    <3> QED BY <3>1
  <2>2. x - 1 \in Nat BY <1>1 DEF Slot
  <2>3. ASSUME NEW n \in Nat, NEW P \in Nat PROVE (n + 1 + d) * P = n * P + P + d * P /\ d * P \in Nat
    OBVIOUS
  <2>4. (y - 1) * PAGE_SIZE = (x - 1) * PAGE_SIZE + PAGE_SIZE + d * PAGE_SIZE /\ d * PAGE_SIZE \in Nat
    BY <1>1, <2>1, <2>2, <2>3
  <2>5. (x - 1) * PAGE_SIZE \in Nat /\ (y - 1) * PAGE_SIZE \in Nat
    BY SlotStartType DEF SlotStart
  <2> QED BY <1>1, <2>4, <2>5 DEF SlotStart
<1>3. s < t \/ t < s BY <1>1 DEF Slot
<1> QED BY <1>2, <1>3

(* A read finds the record that begins there. *)
LEMMA ReadIntact ==
    ASSUME NEW m, Unique(m), NEW a, NEW v, [addr |-> a, val |-> v] \in m
    PROVE  ReadAt(m, a) = v
<1> DEFINE r == [addr |-> a, val |-> v]
           e == CHOOSE f \in m : f.addr = a
<1>1. r \in m /\ r.addr = a /\ r.val = v OBVIOUS
<1>2. e \in m /\ e.addr = a BY <1>1
<1> HIDE DEF e, r
<1>3. e = r BY <1>1, <1>2 DEF Unique
<1> QED BY <1>1, <1>3 DEF ReadAt, e

(* Bytes that are written elsewhere leave a record as it is. *)
LEMMA ClobberKeeps ==
    ASSUME NEW m, NEW r \in Record, r \in m, NEW a \in Nat, NEW n \in Nat,
           r.addr + Bytes(r) <= a \/ a + n <= r.addr
    PROVE  r \in Clobber(m, a, n)
<1>1. r.addr \in Nat /\ Bytes(r) \in Nat BY BytesType DEF Record
<1>2. ~Overlaps(r, a, n) BY <1>1 DEF Overlaps, Bytes
<1> QED BY <1>2 DEF Clobber

(* What is overwritten nowhere was there before. *)
LEMMA ClobberUnique ==
    ASSUME NEW m, Unique(m), NEW a, NEW n PROVE Unique(Clobber(m, a, n))
BY DEF Unique, Clobber

(* page_value_set leaves every record that it does not touch, *)
LEMMA StoreKeeps ==
    ASSUME NEW m, NEW r \in Record, r \in m, NEW a \in Nat, NEW v \in Value,
           r.addr + Bytes(r) <= a \/ a + RecordBytes(Size[v]) <= r.addr
    PROVE  r \in Store(m, a, v)
<1>1. RecordBytes(Size[v]) \in Nat BY ArenaAssumption, RecordBytesType
<1> QED BY <1>1, ClobberKeeps DEF Store

(* and no other that begins where the new one does. *)
LEMMA StoreUnique ==
    ASSUME NEW m \in Memory, Unique(m), NEW a \in Nat, NEW v \in Value
    PROVE  Unique(Store(m, a, v)) /\ [addr |-> a, val |-> v] \in Store(m, a, v)
<1> DEFINE n == RecordBytes(Size[v])
<1>1. n \in Nat /\ n > 0 BY ArenaAssumption DEF RecordBytes, LenBytes
<1>2. ASSUME NEW e \in Clobber(m, a, n) PROVE e \in m /\ e.addr # a
  <2>1. e \in m /\ ~Overlaps(e, a, n) BY DEF Clobber
  <2>2. e.addr \in Nat /\ RecordBytes(Size[e.val]) \in Nat /\ RecordBytes(Size[e.val]) > 0
    <3>1. e \in Record BY <2>1 DEF Memory, Record
    <3> QED BY <3>1, BytesType DEF Record, Bytes
  <2> QED BY <1>1, <2>1, <2>2 DEF Overlaps
<1>3. Store(m, a, v) = Clobber(m, a, n) \cup {[addr |-> a, val |-> v]} BY DEF Store
<1> HIDE DEF n
<1> QED BY <1>2, <1>3 DEF Unique

(* A record that lies in the slot is in the image of the page. *)
LEMMA ImageHas ==
    ASSUME NEW m, NEW slot \in Slot, NEW r \in Record, r.addr + Bytes(r) <= PAGE_SIZE,
           [addr |-> SlotStart(slot) + r.addr, val |-> r.val] \in m
    PROVE  r \in PageImage(m, slot)
<1> DEFINE f == [addr |-> SlotStart(slot) + r.addr, val |-> r.val]
<1>1. /\ SlotStart(slot) \in Nat /\ r.addr \in Nat /\ Bytes(r) \in Nat
      /\ PAGE_SIZE \in Nat /\ r = [addr |-> r.addr, val |-> r.val]
  BY SlotStartType, BytesType, ArenaAssumption DEF Record
<1>2. f \in m /\ f.addr = SlotStart(slot) + r.addr /\ f.val = r.val OBVIOUS
<1>3. f.addr - SlotStart(slot) = r.addr BY <1>1, <1>2
<1>4. /\ SlotStart(slot) <= f.addr
      /\ f.addr + RecordBytes(Size[f.val]) <= SlotStart(slot) + PAGE_SIZE
  BY <1>1, <1>2 DEF Bytes
<1> HIDE DEF f
<1>5. [addr |-> f.addr - SlotStart(slot), val |-> f.val] \in PageImage(m, slot)
  BY <1>2, <1>4 DEF PageImage
<1> QED BY <1>1, <1>2, <1>3, <1>5

(* The image of a page is one page long. *)
LEMMA ImageInPage ==
    ASSUME NEW m \in Memory, Unique(m), NEW slot \in Slot
    PROVE  Unique(PageImage(m, slot)) /\ InPage(PageImage(m, slot))
<1>1. ASSUME NEW e \in PageImage(m, slot)
      PROVE  \E f \in m : /\ e = [addr |-> f.addr - SlotStart(slot), val |-> f.val]
                          /\ f.addr + RecordBytes(Size[f.val]) <= SlotStart(slot) + PAGE_SIZE
                          /\ f.addr \in Nat /\ RecordBytes(Size[f.val]) \in Nat
  <2>1. PICK f \in m : /\ e = [addr |-> f.addr - SlotStart(slot), val |-> f.val]
                       /\ f.addr + RecordBytes(Size[f.val]) <= SlotStart(slot) + PAGE_SIZE
    BY DEF PageImage
  <2>2. f \in Record BY DEF Memory, Record
  <2>3. f.addr \in Nat /\ RecordBytes(Size[f.val]) \in Nat
    BY <2>2, BytesType DEF Record, Bytes
  <2> QED BY <2>1, <2>3
<1>2. SlotStart(slot) \in Nat /\ PAGE_SIZE \in Nat BY SlotStartType, ArenaAssumption
<1>3. ASSUME NEW e \in PageImage(m, slot), NEW g \in PageImage(m, slot), e.addr = g.addr
      PROVE  e = g
  <2>1. PICK f \in m : e = [addr |-> f.addr - SlotStart(slot), val |-> f.val] /\ f.addr \in Nat
    BY <1>1
  <2>2. PICK h \in m : g = [addr |-> h.addr - SlotStart(slot), val |-> h.val] /\ h.addr \in Nat
    BY <1>1
  <2>3. f.addr - SlotStart(slot) = h.addr - SlotStart(slot) BY <1>3, <2>1, <2>2
  <2>4. f.addr = h.addr BY <1>2, <2>1, <2>2, <2>3
  <2>5. f = h BY <2>4 DEF Unique
  <2> QED BY <2>1, <2>2, <2>5
<1>4. ASSUME NEW e \in PageImage(m, slot) PROVE e.addr + Bytes(e) <= PAGE_SIZE
  <2>1. PICK f \in m : /\ e = [addr |-> f.addr - SlotStart(slot), val |-> f.val]
                       /\ f.addr + RecordBytes(Size[f.val]) <= SlotStart(slot) + PAGE_SIZE
                       /\ f.addr \in Nat /\ RecordBytes(Size[f.val]) \in Nat
    BY <1>1
  <2>2. e.addr = f.addr - SlotStart(slot) /\ Bytes(e) = RecordBytes(Size[f.val])
    BY <2>1 DEF Bytes
  <2> QED BY <1>2, <2>1, <2>2
<1> QED BY <1>3, <1>4 DEF Unique, InPage

(* The values of the image are in the slot after disk_upload_page, *)
LEMMA UploadHas ==
    ASSUME NEW m, NEW slot, NEW image, NEW r \in Record, r \in image
    PROVE  [addr |-> SlotStart(slot) + r.addr, val |-> r.val] \in Upload(m, slot, image)
BY DEF Upload

(* and the records outside of the slot are where they were. *)
LEMMA UploadKeeps ==
    ASSUME NEW m, NEW slot \in Slot, NEW image, NEW r \in Record, r \in m,
           r.addr + Bytes(r) <= SlotStart(slot) \/ SlotStart(slot) + PAGE_SIZE <= r.addr
    PROVE  r \in Upload(m, slot, image)
<1>1. SlotStart(slot) \in Nat /\ PAGE_SIZE \in Nat BY SlotStartType, ArenaAssumption
<1> QED BY <1>1, ClobberKeeps DEF Upload

(* disk_upload_page replaces the slot as a whole. *)
LEMMA UploadUnique ==
    ASSUME NEW m \in Memory, Unique(m), NEW slot \in Slot,
           NEW image \in Memory, Unique(image), InPage(image)
    PROVE  Unique(Upload(m, slot, image))
<1> DEFINE s == SlotStart(slot)
           old == Clobber(m, s, PAGE_SIZE)
           new == {[addr |-> s + e.addr, val |-> e.val] : e \in image}
<1>1. s \in Nat /\ PAGE_SIZE \in Nat BY SlotStartType, ArenaAssumption
<1>2. ASSUME NEW e \in old PROVE e \in m /\ e.addr \in Nat /\ (e.addr < s \/ s + PAGE_SIZE <= e.addr)
  <2>1. e \in m /\ ~Overlaps(e, s, PAGE_SIZE) BY DEF Clobber
  <2>2. e.addr \in Nat /\ RecordBytes(Size[e.val]) \in Nat /\ RecordBytes(Size[e.val]) > 0
    <3>1. e \in Record BY <2>1 DEF Memory, Record
    <3> QED BY <3>1, BytesType DEF Record, Bytes
  <2> QED BY <1>1, <2>1, <2>2 DEF Overlaps
<1>3. ASSUME NEW g \in new
      PROVE  \E e \in image : g = [addr |-> s + e.addr, val |-> e.val] /\ e.addr \in Nat /\ e.addr < PAGE_SIZE
  <2>1. PICK e \in image : g = [addr |-> s + e.addr, val |-> e.val] OBVIOUS
  <2>2. e \in Record BY DEF Memory, Record
  <2>3. e.addr \in Nat /\ Bytes(e) \in Nat /\ Bytes(e) >= 2 BY <2>2, BytesType DEF Record
  <2>4. e.addr + Bytes(e) <= PAGE_SIZE BY DEF InPage
  <2>5. e.addr < PAGE_SIZE BY <1>1, <2>3, <2>4
  <2> QED BY <2>1, <2>3, <2>5
<1> HIDE DEF s, old, new
<1>4. ASSUME NEW e \in old, NEW g \in new PROVE e.addr # g.addr
  <2>1. PICK f \in image : g = [addr |-> s + f.addr, val |-> f.val] /\ f.addr \in Nat /\ f.addr < PAGE_SIZE
    BY <1>3
  <2>2. g.addr = s + f.addr BY <2>1
  <2> QED BY <1>1, <1>2, <2>1, <2>2
<1>5. ASSUME NEW e \in new, NEW g \in new, e.addr = g.addr PROVE e = g
  <2>1. PICK f \in image : e = [addr |-> s + f.addr, val |-> f.val] /\ f.addr \in Nat BY <1>3
  <2>2. PICK h \in image : g = [addr |-> s + h.addr, val |-> h.val] /\ h.addr \in Nat BY <1>3
  <2>3. s + f.addr = s + h.addr BY <1>5, <2>1, <2>2
  <2>4. f.addr = h.addr BY <1>1, <2>1, <2>2, <2>3
  <2>5. f = h BY <2>4 DEF Unique
  <2> QED BY <2>1, <2>2, <2>5
<1>6. ASSUME NEW e \in old, NEW g \in old, e.addr = g.addr PROVE e = g
  BY <1>2, <1>6 DEF Unique
<1>7. Upload(m, slot, image) = old \cup new BY DEF Upload, s, old, new
<1> QED BY <1>4, <1>5, <1>6, <1>7 DEF Unique
-----------------------------------------------------------------------------
(* Both operations of the LRU list keep its links inside the pages. *)
LEMMA NewLruType == new_lru_queue \in LruType
BY DEF new_lru_queue, LruType, NULL

(* lru_touch_page keeps the type of the queue. *)
LEMMA TouchType ==
    ASSUME NEW q \in LruType, NEW p \in PageId PROVE lru_touch_page(q, p) \in LruType
BY DEF lru_touch_page, LruType, NULL

(* least_recent_page keeps the type of the queue. *)
LEMMA LeastRecentType ==
    ASSUME NEW q \in LruType, NEW p \in PageId PROVE least_recent_page(q, p) \in LruType
BY DEF least_recent_page, LruType, NULL, PageId
=============================================================================
