----------------------- MODULE StorageSnapshotProofs ------------------------
(***************************************************************************)
(* The theorems about values, files and replies. The invariant Faithful    *)
(* puts the contents of the pages together with what the files hold: a     *)
(* clean page is in db.snap as its header says (CleanKept), the handler    *)
(* leaves only such pages behind it (Handling), and so a snapshot that     *)
(* nothing disturbed has the contents in both files (SavedGood), which the *)
(* next start makes its pages from. From it follow what a lookup, a reply  *)
(* and a start read, and with them that the storage engine implements      *)
(* KVStore.                                                                *)
(*                                                                         *)
(* EvictionFindsPage rests on counting: there are at least as many pages   *)
(* in memory as slots in use, so that every slot in use is also the number *)
(* of a header; and from the first one on the list is not empty.           *)
(***************************************************************************)
EXTENDS StorageContentsProofs
-----------------------------------------------------------------------------
(* The records of a page after one of its offsets was set. *)
LEMMA MovedRecords ==
    ASSUME Inv, NEW p \in DOMAIN headers, NEW b \in DOMAIN headers[p].keys, NEW o \in Nat,
           headers'[p].keys = [headers[p].keys EXCEPT ![b].offset = o], Kept' = Kept,
           PageRecords(p) \in Seq(Record)
    PROVE  /\ PageRecords(p)' \in Seq(Record)
           /\ Len(PageRecords(p)') = Len(PageRecords(p))
           /\ DOMAIN PageRecords(p)' = DOMAIN PageRecords(p)
           /\ \A i \in DOMAIN PageRecords(p) : i # b => PageRecords(p)'[i] = PageRecords(p)[i]
           /\ PageRecords(p)'[b].addr = o
           /\ PageRecords(p)'[b].val = PageRecords(p)[b].val
<1> DEFINE keys == headers[p].keys
           moved == [keys EXCEPT ![b].offset = o]
           recs == PageRecords(p)
           new == PageRecords(p)'
           n == Len(keys)
           C == Kept
<1>1. /\ keys \in Seq(HeaderKey) /\ n \in Nat /\ DOMAIN keys = 1 .. n /\ b \in 1 .. n
      /\ DOMAIN recs = 1 .. n
      /\ \A i \in 1 .. n : recs[i] = [addr |-> keys[i].offset, val |-> C[keys[i].key]]
  BY PageFacts
<1>2. new = [i \in DOMAIN moved |-> [addr |-> moved[i].offset, val |-> C[moved[i].key]]]
  BY DEF PageRecords, Records
<1>3. Len(recs) = n /\ recs \in Seq(Record) BY <1>1
<1> HIDE DEF keys, recs, new, n, C
<1>4. /\ DOMAIN moved = 1 .. n /\ \A i \in 1 .. n : i # b => moved[i] = keys[i]
      /\ moved[b].offset = o /\ moved[b].key = keys[b].key
  <2>1. keys[b] \in HeaderKey BY <1>1
  <2> QED BY <1>1, <2>1 DEF HeaderKey
<1> HIDE DEF moved
<1>5. /\ DOMAIN new = 1 .. n
      /\ \A i \in 1 .. n : new[i] = [addr |-> moved[i].offset, val |-> C[moved[i].key]]
  BY <1>2, <1>4
<1>6. \A i \in 1 .. n : i # b => new[i] = recs[i] BY <1>1, <1>4, <1>5
<1>7. new[b] = [addr |-> o, val |-> C[keys[b].key]] /\ recs[b].val = C[keys[b].key]
  BY <1>1, <1>4, <1>5
<1>8. \A i \in 1 .. n : new[i] \in Record
  <2>1. \A i \in 1 .. n : recs[i] \in Record BY <1>1, <1>3
  <2>2. recs[b].val \in Value BY <1>1, <2>1 DEF Record
  <2>3. new[b] \in Record BY <1>7, <2>2 DEF Record
  <2> QED BY <1>6, <2>1, <2>3
<1>9. new \in [1 .. n -> Record] BY <1>2, <1>4, <1>5, <1>8
<1>10. new \in Seq(Record) /\ Len(new) = n BY <1>1, <1>9, IsSequence
<1> QED BY <1>1, <1>3, <1>5, <1>6, <1>7, <1>10 DEF recs, new, n

(* A record is copied to the left, over nothing but itself. *)
LEMMA MoveIntact ==
    ASSUME NEW slot \in Slot, NEW recs, NEW new, NEW end \in Nat, NEW b \in DOMAIN recs,
           NEW o \in Nat, Apart(recs, end), end <= PAGE_SIZE, o <= recs[b].addr,
           \A i \in DOMAIN recs : i < b => recs[i].addr + Bytes(recs[i]) <= o,
           \A i \in DOMAIN recs : b < i => o + Bytes(recs[b]) <= recs[i].addr,
           DOMAIN new = DOMAIN recs,
           \A i \in DOMAIN recs : i # b => new[i] = recs[i],
           new[b].addr = o, new[b].val = recs[b].val,
           NEW m, Intact(m, SlotStart(slot), recs),
           NEW a, a = SlotStart(slot) + o
    PROVE  /\ Intact(Store(m, a, recs[b].val), SlotStart(slot), new)
           /\ Outside(slot, m, Store(m, a, recs[b].val))
<1> DEFINE S == SlotStart(slot)
           v == recs[b].val
           B == Bytes(recs[b])
<1>1. S \in Nat /\ PAGE_SIZE \in Nat BY SlotStartType, ArenaAssumption
<1>2. recs \in Seq(Record) BY DEF Apart
<1>3. /\ v \in Value /\ B \in Nat /\ B = RecordBytes(Size[v]) /\ recs[b].addr \in Nat
      /\ recs[b].addr + B <= end
  BY <1>2, RecordAt DEF Bytes, Apart
<1> HIDE DEF S, v, B
<1>4. a \in Nat /\ S <= a /\ a + B <= S + PAGE_SIZE BY <1>1, <1>3 DEF S
<1>5. Outside(slot, m, Store(m, a, v)) BY <1>3, <1>4, StoreOutside DEF S
<1>6. ASSUME NEW i \in DOMAIN new
      PROVE  [addr |-> S + new[i].addr, val |-> new[i].val] \in Store(m, a, v)
  <2>1. CASE i = b
    <3>1. [addr |-> S + new[i].addr, val |-> new[i].val] = [addr |-> a, val |-> v]
      BY <2>1 DEF S, v
    <3> QED BY <3>1 DEF Store
  <2>2. CASE i # b
    <3> DEFINE e == [addr |-> S + recs[i].addr, val |-> recs[i].val]
    <3>1. /\ e \in Record /\ e.addr = S + recs[i].addr /\ Bytes(e) = Bytes(recs[i])
      BY SlotRecord DEF S
    <3>2. e \in m BY DEF Intact, S
    <3>3. /\ i \in Nat /\ b \in Nat /\ recs[i].addr \in Nat /\ Bytes(recs[i]) \in Nat
      BY <1>2, RecordAt
    <3>4. recs[i].addr + Bytes(recs[i]) <= o \/ o + B <= recs[i].addr
      <4>1. i < b \/ b < i BY <2>2, <3>3
      <4> QED BY <4>1 DEF B
    <3> HIDE DEF e
    <3>5. e.addr + Bytes(e) <= a \/ a + B <= e.addr BY <1>1, <1>3, <3>1, <3>3, <3>4 DEF S
    <3>6. e \in Store(m, a, v) BY <1>3, <1>4, <3>1, <3>2, <3>5, StoreKeeps
    <3>7. new[i] = recs[i] BY <2>2
    <3> QED BY <3>6, <3>7 DEF e
  <2> QED BY <2>1, <2>2
<1> QED BY <1>5, <1>6 DEF Intact, S, v

(* What a block does to the bytes, when the length is read right twice. *)
LEMMA BlockBytes ==
    ASSUME Inv, Unharmed', DefragBlock("main"), NEW p \in DOMAIN headers, p = main.page,
           NEW b, b = defrag["main"].block, NEW o, o = defrag["main"].offset,
           NEW a, a = AddrOf(headers[p], headers[p].keys[b].offset),
           NEW v \in Value, ReadAt(mem, a) = v
    PROVE  /\ mem' = Store(mem, AddrOf(headers[p], o), v)
           /\ defrag'["main"].block = b + 1
           /\ defrag'["main"].offset = o + RecordBytes(Size[v])
           /\ damage' = damage
<1>0. TypeOK BY DEF Inv
<1>1. main.pc = "defrag" BY Threads DEF DefragBlock, Defragmenting
<1>2. defrag["main"].page = p BY <1>0, <1>1, Threads, DefragFields DEF Inv, MainOnPage
<1>3. PICK size \in SizesAt(mem, a) :
        /\ mem' = Move(mem, a, AddrOf(headers[p], o), size)
        /\ \E again \in SizesAfterMove(a, AddrOf(headers[p], o), size) :
             defrag' = [defrag EXCEPT !["main"].block = @ + 1,
                                      !["main"].offset = @ + RecordBytes(again)]
        /\ damage' = damage \cup
             (IF SizesAfterMove(a, AddrOf(headers[p], o), size) = {size} THEN {} ELSE {"overlap"})
  BY <1>2 DEF DefragBlock
<1>4. size = Size[v] BY <1>3 DEF SizesAt
<1>5. mem' = Store(mem, AddrOf(headers[p], o), v) BY <1>3 DEF Move
<1>6. SizesAfterMove(a, AddrOf(headers[p], o), size) = {size} /\ damage' = damage
  BY <1>3 DEF Unharmed
<1>7. defrag' = [defrag EXCEPT !["main"].block = @ + 1,
                               !["main"].offset = @ + RecordBytes(size)]
  BY <1>3, <1>6
<1>8. /\ defrag'["main"].block = b + 1 /\ defrag'["main"].offset = o + RecordBytes(size)
  BY <1>0, <1>7, Threads DEF TypeOK
<1> QED BY <1>4, <1>5, <1>6, <1>8

(* One block of the defragmentation that precedes a dump. *)
LEMMA BlockSettled ==
    ASSUME Inv, Inv', BytesOnce, Settled, Unharmed', DefragBlock("main")
    PROVE  Settled' /\ Outside(headers[main.page].arena_id, mem, mem')
<1>0. TypeOK /\ uploaded \in Nat BY ArenaAssumption DEF Inv, TypeOK
<1>1. /\ main.pc = "defrag" /\ worker' = LetGo("main", main.page)
      /\ UNCHANGED <<uploaded, file, main, kv, disk>>
  BY BlockEffect
<1>2. PICK p \in DOMAIN headers, b \in DOMAIN headers[main.page].keys, o \in Nat :
        /\ p = main.page /\ b = defrag["main"].block /\ o = defrag["main"].offset
        /\ b <= Len(headers[p].keys)
        /\ DOMAIN headers' = DOMAIN headers
        /\ headers'[p].keys = [headers[p].keys EXCEPT ![b].offset = o % UINT16]
        /\ headers'[p].arena_id = headers[p].arena_id
        /\ headers'[p].location = headers[p].location
        /\ headers'[p].offset_bytes = headers[p].offset_bytes
        /\ headers'[p].fragmentated_bytes = headers[p].fragmentated_bytes
        /\ headers'[p].state = headers[p].state
        /\ \A q \in DOMAIN headers : q # p => headers'[q] = headers[q]
  BY BlockEffect
<1> DEFINE recs == PageRecords(p)
           new == PageRecords(p)'
           end == headers[p].offset_bytes
           lost == headers[p].fragmentated_bytes
           slot == headers[p].arena_id
<1>3. /\ end \in Nat /\ lost \in Nat /\ slot \in Slot /\ end <= PAGE_SIZE
      /\ DOMAIN recs = DOMAIN headers[p].keys /\ headers[p].keys \in Seq(HeaderKey)
      /\ Compacting(recs, end, lost, b, o) /\ recs \in Seq(Record)
      /\ headers[p].location = "INMEMORY" /\ slot <= uploaded
      /\ Intact(mem, SlotStart(slot), recs)
  <2>1. PageSound(p) BY DEF Settled
  <2>2. headers[p].location = "INMEMORY" BY <1>1, <1>2 DEF Settled, MainAtPage
  <2>3. Compacting(recs, end, lost, b, o) BY <1>1, <1>2 DEF Settled, MainMoves
  <2>4. recs \in Seq(Record) BY <2>3 DEF Compacting, Apart
  <2> QED BY <2>1, <2>2, <2>3, <2>4, PageFacts DEF PageSound
<1>4. b \in DOMAIN headers[p].keys /\ b \in DOMAIN recs /\ Len(recs) = Len(headers[p].keys)
  BY <1>2, <1>3
<1>5. Kept' = Kept /\ worker'.pc = worker.pc
  BY <1>0, <1>1, LetGoFields, KeptStays
<1>6. o <= recs[b].addr /\ recs[b].addr + Bytes(recs[b]) <= end
      /\ recs[b].addr \in Nat /\ Bytes(recs[b]) \in Nat /\ recs[b].val \in Value
  <2>1. PICK acc : Sums(recs, acc) /\ o = acc[b - 1] BY <1>3 DEF Compacting
  <2>2. o <= recs[b].addr BY <1>4, <2>1 DEF Sums
  <2>3. recs[b].addr + Bytes(recs[b]) <= end BY <1>3, <1>4 DEF Compacting, Apart
  <2>4. recs[b].addr \in Nat /\ Bytes(recs[b]) \in Nat /\ recs[b].val \in Value
    BY <1>3, <1>4, RecordAt
  <2> QED BY <2>2, <2>3, <2>4
<1>7. o % UINT16 = o
  <2>1. o <= PAGE_SIZE BY <1>3, <1>6, ArenaAssumption
  <2> QED BY <2>1, NoOverflow
<1>8. /\ new \in Seq(Record) /\ Len(new) = Len(recs) /\ DOMAIN new = DOMAIN recs
      /\ \A i \in DOMAIN recs : i # b => new[i] = recs[i]
      /\ new[b].addr = o /\ new[b].val = recs[b].val
  <2>1. headers'[p].keys = [headers[p].keys EXCEPT ![b].offset = o] BY <1>2, <1>7
  <2> QED BY <1>3, <1>4, <1>5, <2>1, MovedRecords
<1>9. recs[b].addr = headers[p].keys[b].offset
  <2>1. recs[b] = [addr |-> headers[p].keys[b].offset, val |-> Kept[headers[p].keys[b].key]]
    BY <1>4, PageFacts
  <2> QED BY <2>1
<1> DEFINE a == SlotStart(slot) + recs[b].addr
<1>10. ReadAt(mem, a) = recs[b].val
  <2>1. [addr |-> a, val |-> recs[b].val] \in mem BY <1>3, <1>4 DEF Intact
  <2> QED BY <2>1, ReadIntact DEF BytesOnce
<1>11. a = AddrOf(headers[p], headers[p].keys[b].offset) BY <1>9 DEF AddrOf
<1> HIDE DEF a
<1>12. /\ mem' = Store(mem, AddrOf(headers[p], o), recs[b].val)
       /\ defrag'["main"].block = b + 1
       /\ defrag'["main"].offset = o + Bytes(recs[b])
  BY <1>2, <1>6, <1>10, <1>11, BlockBytes DEF Bytes
<1> HIDE DEF recs, new, end, lost, slot
<1>13. /\ Compacting(new, end, lost, b + 1, o + Bytes(recs[b]))
       /\ \A i \in DOMAIN recs : i < b => recs[i].addr + Bytes(recs[i]) <= o
       /\ \A i \in DOMAIN recs : b < i => o + Bytes(recs[b]) <= recs[i].addr
  <2>1. b <= Len(recs) BY <1>2, <1>4
  <2> QED BY <1>3, <1>8, <2>1, CompactBlock
<1>14. Intact(mem', SlotStart(slot), new) /\ Outside(slot, mem, mem')
  <2>1. Apart(recs, end) BY <1>3 DEF Compacting
  <2>2. AddrOf(headers[p], o) = SlotStart(slot) + o BY DEF AddrOf, slot
  <2> QED BY <1>3, <1>4, <1>6, <1>8, <1>12, <1>13, <2>1, <2>2, MoveIntact
<1>15. PageSound(p)'
  <2>1. Laid(new, end, lost) BY <1>13, CompactLaid
  <2> QED BY <1>1, <1>2, <1>3, <1>14, <2>1 DEF PageSound, new, end, lost, slot
<1>16. \A q \in DOMAIN headers : q # p => headers'[q] = headers[q] /\ PageRecords(q)' = PageRecords(q)
  BY <1>2, <1>5, RecordsKept
<1>17. MainMoves'
  <2>1. PageRecords(main.page)' = new BY <1>1, <1>2 DEF new, PageRecords
  <2>2. /\ headers'[main'.page].offset_bytes = end
        /\ headers'[main'.page].fragmentated_bytes = lost
    BY <1>1, <1>2 DEF end, lost
  <2> QED BY <1>12, <1>13, <2>1, <2>2 DEF MainMoves
<1>18. MainAtPage' BY <1>1, <1>2, <1>3 DEF MainAtPage
<1>19. \A q \in DOMAIN headers :
          q # p /\ headers[q].location = "INMEMORY" => headers[q].arena_id # slot
  BY <1>3 DEF Settled, OwnSlots, slot
<1>20. /\ DOMAIN headers' = DOMAIN headers \cup {p} /\ headers'[p].arena_id = slot
       /\ worker'.pc \notin {"defrag", "defragmented"}
  BY <1>2, <1>5 DEF Settled, slot
<1>21. Outside(headers[main.page].arena_id, mem, mem') BY <1>2, <1>14 DEF slot
<1> QED
  BY <1>0, <1>1, <1>3, <1>14, <1>15, <1>16, <1>17, <1>18, <1>19, <1>20, <1>21, OnePageSettled

(* The main thread has moved the last block of its page. *)
LEMMA DoneEffect ==
    ASSUME Inv, DefragDone("main"), status' = "up"
    PROVE  /\ main.pc = "defrag" /\ main' = [main EXCEPT !.pc = "seek"]
           /\ worker' = LetGo("main", main.page)
           /\ \E p \in DOMAIN headers, o \in Nat :
                /\ p = main.page /\ o = defrag["main"].offset /\ o % UINT16 <= PAGE_SIZE
                /\ defrag["main"].block > Len(headers[p].keys)
                /\ mem' = Clobber(mem, AddrOf(headers[p], o), PAGE_SIZE - (o % UINT16))
                /\ DOMAIN headers' = DOMAIN headers
                /\ headers'[p].keys = headers[p].keys
                /\ headers'[p].arena_id = headers[p].arena_id
                /\ headers'[p].location = headers[p].location
                /\ headers'[p].offset_bytes = o % UINT16
                /\ headers'[p].fragmentated_bytes = 0
                /\ headers'[p].state = "DIRTY"
                /\ \A q \in DOMAIN headers : q # p => headers'[q] = headers[q]
           /\ UNCHANGED <<status, uploaded, lru, hashmap, LSN, disk, file, history>>
<1>0. TypeOK BY DEF Inv
<1>1. ~Die("SIGSEGV") BY DEF Die
<1>2. main.pc = "defrag" /\ UNCHANGED <<status, uploaded, lru, hashmap, LSN, disk, file, history>>
  BY <1>1, Threads DEF DefragDone, Defragmenting
<1>3. PICK p \in DOMAIN headers : p = main.page BY <1>2 DEF Inv, MainOnPage
<1>4. defrag["main"].page = p BY <1>2, <1>3 DEF Inv, MainOnPage
<1>5. PICK o \in Nat : o = defrag["main"].offset BY <1>0, Threads, DefragFields
<1> DEFINE h == [headers[p] EXCEPT !.fragmentated_bytes = 0, !.offset_bytes = o % UINT16,
                                   !.state = "DIRTY"]
<1>6. /\ o % UINT16 <= PAGE_SIZE /\ defrag["main"].block > Len(headers[p].keys)
      /\ mem' = Clobber(mem, AddrOf(headers[p], o), PAGE_SIZE - (o % UINT16))
      /\ headers' = [headers EXCEPT ![p] = h]
      /\ worker' = LetGo("main", main.page) /\ main' = [main EXCEPT !.pc = "seek"]
  BY <1>1, <1>3, <1>4, <1>5, Threads DEF DefragDone
<1>7. headers[p] \in Header BY <1>0, HeaderAt
<1>8. /\ h.keys = headers[p].keys /\ h.arena_id = headers[p].arena_id
      /\ h.location = headers[p].location /\ h.offset_bytes = o % UINT16
      /\ h.fragmentated_bytes = 0 /\ h.state = "DIRTY"
  BY <1>7 DEF Header
<1> HIDE DEF h
<1>9. /\ DOMAIN headers' = DOMAIN headers /\ headers'[p] = h
      /\ \A q \in DOMAIN headers : q # p => headers'[q] = headers[q]
  BY <1>0, <1>6, PageReplaced
<1>10. \E x \in DOMAIN headers, z \in Nat :
         /\ x = main.page /\ z = defrag["main"].offset /\ z % UINT16 <= PAGE_SIZE
         /\ defrag["main"].block > Len(headers[x].keys)
         /\ mem' = Clobber(mem, AddrOf(headers[x], z), PAGE_SIZE - (z % UINT16))
         /\ DOMAIN headers' = DOMAIN headers
         /\ headers'[x].keys = headers[x].keys
         /\ headers'[x].arena_id = headers[x].arena_id
         /\ headers'[x].location = headers[x].location
         /\ headers'[x].offset_bytes = z % UINT16
         /\ headers'[x].fragmentated_bytes = 0
         /\ headers'[x].state = "DIRTY"
         /\ \A q \in DOMAIN headers : q # x => headers'[q] = headers[q]
  <2> WITNESS p \in DOMAIN headers, o \in Nat
  <2> QED BY <1>3, <1>5, <1>6, <1>8, <1>9
<1> QED BY <1>2, <1>6, <1>10

(* What is behind the last record is cleared. *)
LEMMA ClearIntact ==
    ASSUME NEW slot \in Slot, NEW recs, NEW o \in Nat, Apart(recs, o), o <= PAGE_SIZE,
           NEW m, Intact(m, SlotStart(slot), recs), NEW a, a = SlotStart(slot) + o
    PROVE  /\ Intact(Clobber(m, a, PAGE_SIZE - o), SlotStart(slot), recs)
           /\ Outside(slot, m, Clobber(m, a, PAGE_SIZE - o))
<1> DEFINE S == SlotStart(slot)
           n == PAGE_SIZE - o
<1>1. S \in Nat /\ PAGE_SIZE \in Nat BY SlotStartType, ArenaAssumption
<1>2. a \in Nat /\ n \in Nat /\ S <= a /\ a + n <= S + PAGE_SIZE BY <1>1
<1> HIDE DEF n
<1>3. Outside(slot, m, Clobber(m, a, n)) BY <1>2, ClobberOutside
<1>4. ASSUME NEW i \in DOMAIN recs
      PROVE  [addr |-> S + recs[i].addr, val |-> recs[i].val] \in Clobber(m, a, n)
  <2> DEFINE e == [addr |-> S + recs[i].addr, val |-> recs[i].val]
  <2>1. e \in Record /\ e.addr + Bytes(e) <= S + o BY SlotRecord
  <2>2. e \in m BY DEF Intact
  <2> HIDE DEF e
  <2>3. e \in Clobber(m, a, n) BY <1>2, <2>1, <2>2, ClobberKeeps
  <2> QED BY <2>3 DEF e
<1> QED BY <1>3, <1>4 DEF Intact, n

(* The page is packed. *)
LEMMA DoneSettled ==
    ASSUME Inv, Inv', Settled, DefragDone("main"), status' = "up"
    PROVE  Settled' /\ Outside(headers[main.page].arena_id, mem, mem')
<1>0. TypeOK /\ uploaded \in Nat /\ main \in Handler BY ArenaAssumption DEF Inv, TypeOK
<1>1. /\ main.pc = "defrag" /\ worker' = LetGo("main", main.page)
      /\ main' = [main EXCEPT !.pc = "seek"] /\ UNCHANGED <<uploaded, file, kv>>
  BY DoneEffect DEF history
<1>2. PICK p \in DOMAIN headers, o \in Nat :
        /\ p = main.page /\ o = defrag["main"].offset /\ o % UINT16 <= PAGE_SIZE
        /\ defrag["main"].block > Len(headers[p].keys)
        /\ mem' = Clobber(mem, AddrOf(headers[p], o), PAGE_SIZE - (o % UINT16))
        /\ DOMAIN headers' = DOMAIN headers
        /\ headers'[p].keys = headers[p].keys
        /\ headers'[p].arena_id = headers[p].arena_id
        /\ headers'[p].location = headers[p].location
        /\ headers'[p].offset_bytes = o % UINT16
        /\ headers'[p].fragmentated_bytes = 0
        /\ headers'[p].state = "DIRTY"
        /\ \A q \in DOMAIN headers : q # p => headers'[q] = headers[q]
  BY DoneEffect
<1> DEFINE recs == PageRecords(p)
           end == headers[p].offset_bytes
           lost == headers[p].fragmentated_bytes
           slot == headers[p].arena_id
<1>3. /\ end \in Nat /\ lost \in Nat /\ slot \in Slot /\ end <= PAGE_SIZE
      /\ DOMAIN recs = DOMAIN headers[p].keys /\ headers[p].keys \in Seq(HeaderKey)
      /\ Compacting(recs, end, lost, defrag["main"].block, o) /\ recs \in Seq(Record)
      /\ headers[p].location = "INMEMORY" /\ slot <= uploaded
      /\ Intact(mem, SlotStart(slot), recs)
  <2>1. PageSound(p) BY DEF Settled
  <2>2. headers[p].location = "INMEMORY" BY <1>1, <1>2 DEF Settled, MainAtPage
  <2>3. Compacting(recs, end, lost, defrag["main"].block, o)
    BY <1>1, <1>2 DEF Settled, MainMoves
  <2>4. recs \in Seq(Record) BY <2>3 DEF Compacting, Apart
  <2> QED BY <2>1, <2>2, <2>3, <2>4, PageFacts DEF PageSound
<1>4. Len(recs) = Len(headers[p].keys) BY <1>3
<1>5. Kept' = Kept /\ worker'.pc = worker.pc
  BY <1>0, <1>1, LetGoFields, KeptStays
<1>6. PageRecords(p)' = recs BY <1>2, <1>5, RecordsKept
<1> HIDE DEF recs, end, lost, slot
<1>7. Laid(recs, o, 0) /\ o <= end
  <2>1. defrag["main"].block > Len(recs) BY <1>2, <1>4
  <2> QED BY <1>3, <2>1, CompactDone
<1>8. o <= PAGE_SIZE /\ o % UINT16 = o
  <2>1. o <= PAGE_SIZE BY <1>3, <1>7, ArenaAssumption
  <2> QED BY <2>1, NoOverflow
<1>9. Intact(mem', SlotStart(slot), recs) /\ Outside(slot, mem, mem')
  <2>1. Apart(recs, o) BY <1>7 DEF Laid
  <2>2. AddrOf(headers[p], o) = SlotStart(slot) + o BY DEF AddrOf, slot
  <2>3. mem' = Clobber(mem, AddrOf(headers[p], o), PAGE_SIZE - o) BY <1>2, <1>8
  <2> QED BY <1>3, <1>8, <2>1, <2>2, <2>3, ClearIntact
<1>10. PageSound(p)'
  BY <1>1, <1>2, <1>3, <1>6, <1>7, <1>8, <1>9 DEF PageSound, slot
<1>11. \A q \in DOMAIN headers : q # p => headers'[q] = headers[q] /\ PageRecords(q)' = PageRecords(q)
  BY <1>2, <1>5, RecordsKept
<1>12. main'.pc = "seek" /\ main'.page = p BY <1>0, <1>1, <1>2 DEF Handler
<1>13. MainMoves' /\ MainAtPage' BY <1>2, <1>3, <1>12 DEF MainMoves, MainAtPage
<1>14. \A q \in DOMAIN headers :
          q # p /\ headers[q].location = "INMEMORY" => headers[q].arena_id # slot
  BY <1>3 DEF Settled, OwnSlots, slot
<1>15. /\ DOMAIN headers' = DOMAIN headers \cup {p} /\ headers'[p].arena_id = slot
       /\ worker'.pc \notin {"defrag", "defragmented"}
  BY <1>2, <1>5 DEF Settled, slot
<1>16. Outside(headers[main.page].arena_id, mem, mem') BY <1>2, <1>9 DEF slot
<1> QED BY <1>0, <1>1, <1>3, <1>9, <1>10, <1>11, <1>13, <1>14, <1>15, <1>16, OnePageSettled

(* The write of a page goes to its own place in the file. *)
LEMMA WriteEffect ==
    ASSUME Inv, MainAtPage, WriteDirtyPage
    PROVE  \E p \in DOMAIN headers :
             /\ p = main.page /\ headers[p].location = "INMEMORY"
             /\ main.pc = "write" /\ main' = [main EXCEPT !.pc = "clean"]
             /\ file'.headers = file.headers /\ file'.state = file.state
             /\ p \in DOMAIN file'.pages
             /\ file'.pages[p] = PageImage(mem, headers[p].arena_id)
             /\ \A q \in DOMAIN file.pages :
                   q \in DOMAIN file'.pages /\ (q # p => file'.pages[q] = file.pages[q])
             /\ UNCHANGED <<status, arenaVars, hashmap, LSN, worker, defrag, kv, quiet,
                            damage, ops>>
             /\ saved' = Unsaved
<1>0. file \in File /\ file.pages \in Seq(Memory) /\ headers \in Seq(Header)
  BY FileFields DEF Inv, TypeOK
<1>1. /\ main.pc = "write" /\ main' = [main EXCEPT !.pc = "clean"]
      /\ file' = [file EXCEPT !.pages = WritePage(file.pages, disk.pos,
                      PageImage(mem, headers[main.page].arena_id))]
      /\ UNCHANGED <<status, arenaVars, hashmap, LSN, worker, defrag, kv, quiet, damage, ops>>
      /\ saved' = Unsaved
  BY DEF WriteDirtyPage
<1>2. PICK p \in DOMAIN headers : p = main.page BY <1>1 DEF Inv, MainOnPage
<1>3. headers[p].location = "INMEMORY" /\ disk.pos = p BY <1>1, <1>2 DEF MainAtPage
<1>4. p \in Nat /\ p # 0 BY <1>0
<1> DEFINE image == PageImage(mem, headers[p].arena_id)
<1>5. /\ file'.pages = WritePage(file.pages, p, image)
      /\ file'.headers = file.headers /\ file'.state = file.state
  BY <1>0, <1>1, <1>2, <1>3 DEF File
<1> HIDE DEF image
<1>6. /\ p \in DOMAIN file'.pages /\ file'.pages[p] = image
      /\ \A q \in DOMAIN file.pages :
            q \in DOMAIN file'.pages /\ (q # p => file'.pages[q] = file.pages[q])
  BY <1>0, <1>4, <1>5, WritePageAt
<1> QED BY <1>1, <1>2, <1>3, <1>5, <1>6 DEF image

(* A dump touches no page that is still in the file only. *)
LEMMA WriteSettled ==
    ASSUME Inv, Inv', Settled, WriteDirtyPage PROVE Settled'
<1>0. TypeOK /\ main \in Handler /\ uploaded \in Nat BY ArenaAssumption DEF Inv, TypeOK
<1>1. PICK p \in DOMAIN headers :
             /\ p = main.page /\ headers[p].location = "INMEMORY"
             /\ main' = [main EXCEPT !.pc = "clean"]
             /\ \A q \in DOMAIN file.pages :
                   q \in DOMAIN file'.pages /\ (q # p => file'.pages[q] = file.pages[q])
             /\ UNCHANGED <<status, arenaVars, worker, kv>>
  BY WriteEffect DEF Settled
<1>2. Kept' = Kept BY <1>1, KeptStays
<1>3. headers' = headers /\ mem' = mem /\ uploaded' = uploaded BY <1>1 DEF arenaVars
<1>4. ASSUME NEW q \in DOMAIN headers PROVE PageSound(q)'
  <2>1. PageRecords(q)' = PageRecords(q) BY <1>2, <1>3, RecordsKept
  <2>2. PageSound(q) BY DEF Settled
  <2>3. headers[q].location = "INDISK" => file'.pages[q] = file.pages[q]
    BY <1>1 DEF Inv, ColdPagesInFile
  <2> QED BY <1>3, <2>1, <2>2, <2>3 DEF PageSound
<1>5. main'.pc = "clean" /\ main'.page = p BY <1>0, <1>1 DEF Handler
<1>6. MainMoves' /\ MainAtPage' BY <1>1, <1>3, <1>5 DEF MainMoves, MainAtPage
<1>7. OwnSlots' BY <1>3 DEF Settled, OwnSlots
<1> QED BY <1>1, <1>3, <1>4, <1>6, <1>7 DEF Settled
-----------------------------------------------------------------------------
(***************************************************************************)
(* Eviction.                                                               *)
(***************************************************************************)

(* The pages whose headers say that they are in memory. *)
Heated == {p \in DOMAIN headers : headers[p].location = "INMEMORY"}

(* Every slot that was taken was taken for a page of its own, and the page *)
(* (or a header looked up by the slot) was touched.                        *)
SlotsUsed ==
    /\ uploaded > 0 => lru.bottom # NULL
    /\ uploaded <= Cardinality(Heated)
    /\ status # "up" => uploaded = 0

(* There are finitely many of them. *)
LEMMA HeatedFinite ==
    ASSUME TypeOK
    PROVE  /\ IsFiniteSet(DOMAIN headers) /\ Cardinality(DOMAIN headers) = Len(headers)
           /\ IsFiniteSet(Heated) /\ Cardinality(Heated) \in Nat
<1>1. Len(headers) \in Nat /\ DOMAIN headers = 1 .. Len(headers) BY DEF TypeOK
<1>2. IsFiniteSet(1 .. Len(headers)) /\ Cardinality(1 .. Len(headers)) = Len(headers)
  <2>1. Cardinality(1 .. Len(headers)) = IF 1 > Len(headers) THEN 0 ELSE Len(headers) - 1 + 1
    BY <1>1, FS_Interval
  <2>2. IsFiniteSet(1 .. Len(headers)) BY <1>1, FS_Interval
  <2> QED BY <1>1, <2>1, <2>2
<1>3. IsFiniteSet(Heated) BY <1>1, <1>2, FS_Subset DEF Heated
<1> QED BY <1>1, <1>2, <1>3, FS_CardinalityType

(* No page is ever taken out of the memory. *)
LEMMA HeatedGrows ==
    ASSUME Inv, Inv', SlotsUsed, Heated \subseteq Heated', status' # "up" => uploaded' = 0,
           \/ uploaded' = uploaded
           \/ uploaded' = uploaded + 1 /\ \E p \in Heated' : p \notin Heated,
           (uploaded' = uploaded /\ lru' = lru) \/ lru'.bottom # NULL
    PROVE  SlotsUsed'
<1>0. TypeOK /\ uploaded \in Nat BY ArenaAssumption DEF Inv, TypeOK
<1>1. IsFiniteSet(Heated) /\ Cardinality(Heated) \in Nat BY <1>0, HeatedFinite
<1>2. /\ IsFiniteSet(Heated') /\ Cardinality(Heated') \in Nat
  <2>1. TypeOK' BY DEF Inv
  <2>2. Len(headers') \in Nat /\ DOMAIN headers' = 1 .. Len(headers') BY <2>1 DEF TypeOK
  <2>3. IsFiniteSet(1 .. Len(headers')) BY <2>2, FS_Interval
  <2>4. IsFiniteSet(Heated') BY <2>2, <2>3, FS_Subset DEF Heated
  <2> QED BY <2>4, FS_CardinalityType
<1>3. uploaded' <= Cardinality(Heated')
  <2>1. uploaded <= Cardinality(Heated) BY DEF SlotsUsed
  <2>2. CASE uploaded' = uploaded
    <3>1. Cardinality(Heated) <= Cardinality(Heated') BY <1>2, FS_Subset
    <3> QED BY <1>0, <1>1, <1>2, <2>1, <2>2, <3>1
  <2>3. ASSUME uploaded' = uploaded + 1, NEW p \in Heated', p \notin Heated
        PROVE  uploaded' <= Cardinality(Heated')
    <3>1. Heated \cup {p} \subseteq Heated' BY <2>3
    <3>2. IsFiniteSet(Heated \cup {p}) /\ Cardinality(Heated \cup {p}) = Cardinality(Heated) + 1
      BY <1>1, <2>3, FS_AddElement
    <3>3. Cardinality(Heated \cup {p}) <= Cardinality(Heated') BY <1>2, <3>1, FS_Subset
    <3> QED BY <1>0, <1>1, <1>2, <2>1, <2>3, <3>2, <3>3
  <2> QED BY <2>2, <2>3
<1>4. uploaded' > 0 => lru'.bottom # NULL BY DEF SlotsUsed
<1> QED BY <1>3, <1>4 DEF SlotsUsed

(* The pages that were in memory still are. *)
LEMMA HeatedKept ==
    ASSUME DOMAIN headers \subseteq DOMAIN headers',
           \A q \in DOMAIN headers :
              headers[q].location = "INMEMORY" => headers'[q].location = "INMEMORY"
    PROVE  Heated \subseteq Heated'
BY DEF Heated

(* A slot is taken for the page p. *)
LEMMA SlotFor ==
    ASSUME Inv, Inv', SlotsUsed, NEW p, p \in DOMAIN headers', headers'[p].location = "INMEMORY",
           DOMAIN headers \subseteq DOMAIN headers', status = "up", status' = status,
           \A q \in DOMAIN headers : q # p => headers'[q] = headers[q],
           \/ UNCHANGED <<uploaded, lru>>
           \/ /\ lru'.bottom # NULL /\ p \notin Heated
              /\ uploaded' = uploaded \/ uploaded' = uploaded + 1
    PROVE  SlotsUsed'
<1>1. Heated \subseteq Heated'
  <2>1. \A q \in DOMAIN headers :
          headers[q].location = "INMEMORY" => headers'[q].location = "INMEMORY"
    OBVIOUS
  <2> QED BY <2>1, HeatedKept
<1>2. p \in Heated' BY DEF Heated
<1> QED BY <1>1, <1>2, HeatedGrows

(* Only the slot that is taken changes the count. *)
LEMMA SlotsStep == ASSUME Inv, Inv', SlotsUsed, [Next]_vars PROVE SlotsUsed'
<1>0. TypeOK /\ uploaded \in Nat BY ArenaAssumption DEF Inv, TypeOK
<1>1. ASSUME UNCHANGED <<uploaded, lru>>, status' = status \/ (status # "up" /\ status' # "up"),
             DOMAIN headers \subseteq DOMAIN headers',
             \A q \in DOMAIN headers : headers'[q].location = headers[q].location
      PROVE  SlotsUsed'
  <2>1. Heated \subseteq Heated' BY <1>1, HeatedKept
  <2> QED BY <1>1, <2>1, HeatedGrows DEF SlotsUsed
<1>2. CASE Ends
  <2>1. uploaded' = 0 /\ headers' = <<>> BY <1>2 DEF Ends, Nothing
  <2>2. Heated' = {} BY <2>1 DEF Heated
  <2>3. Cardinality(Heated') = 0 BY <2>2, FS_EmptySet
  <2> QED BY <2>1, <2>3 DEF SlotsUsed
<1>3. CASE StoredAlike /\ (status' = status \/ (status # "up" /\ status' # "up"))
  BY <1>1, <1>3 DEF StoredAlike, Alike
<1>4. ASSUME NEW p \in DOMAIN headers, NEW slot \in Slot, NEW harm, Warm(p, slot, harm),
             DOMAIN headers' = DOMAIN headers, headers'[p].location = "INMEMORY",
             status = "up", status' = status,
             \A q \in DOMAIN headers : q # p => headers'[q] = headers[q]
      PROVE  SlotsUsed'
  <2>1. CASE UNCHANGED <<uploaded, lru>> BY <1>4, <2>1, SlotFor
  <2>2. CASE /\ headers[p].location = "INDISK" /\ lru'.bottom # NULL
             /\ uploaded' = uploaded \/ uploaded' = uploaded + 1
    <3>1. p \notin Heated BY <2>2 DEF Heated
    <3> QED BY <1>4, <2>2, <3>1, SlotFor
  <2> QED BY <1>0, <1>4, <2>1, <2>2, WarmEffect
<1>5. ASSUME NEW k \in Key, operation_select(k) PROVE SlotsUsed'
  BY <1>4, <1>5, SelectEffect
<1>6. CASE page_value_unset BY <1>4, <1>6, UnsetEffect
<1>7. ASSUME NEW p, NEW h, NEW k \in Key, NEW v \in Value, SetStep(p, h, k, v) PROVE SlotsUsed'
  <2>1. /\ h \in Header /\ page_value_set(p, h, k, v) /\ status = "up" /\ status' = status
        /\ p \in DOMAIN headers \/ p = Len(headers) + 1
    BY <1>7 DEF SetStep
  <2>2. /\ DOMAIN headers' = DOMAIN headers \cup {p} /\ headers'[p].location = "INMEMORY"
        /\ \A q \in DOMAIN headers : q # p => headers'[q] = headers[q]
    BY <1>0, <2>1, SetEffect
  <2>3. CASE UNCHANGED <<uploaded, lru>> BY <2>1, <2>2, <2>3, SlotFor
  <2>4. ASSUME p = Len(headers) + 1, p \in PageId, NEW slot \in Slot, arena_get_next_page(slot, p)
        PROVE  SlotsUsed'
    <3>1. p \notin Heated BY <1>0, <2>4 DEF Heated, TypeOK
    <3>2. lru'.bottom # NULL /\ (uploaded' = uploaded \/ uploaded' = uploaded + 1)
      BY <1>0, <2>4, SlotEffect
    <3> QED BY <2>1, <2>2, <3>1, <3>2, SlotFor
  <2> QED BY <1>7, <2>3, <2>4 DEF SetStep
<1>8. ASSUME NEW p \in DOMAIN headers, NEW h, headers' = [headers EXCEPT ![p] = h],
             h.location = headers[p].location, UNCHANGED <<status, uploaded, lru>>
      PROVE  SlotsUsed'
  <2>1. /\ DOMAIN headers' = DOMAIN headers /\ headers'[p] = h
        /\ \A q \in DOMAIN headers : q # p => headers'[q] = headers[q]
    BY <1>0, <1>8, PageReplaced
  <2> QED BY <1>1, <1>8, <2>1
<1>9. ASSUME NEW k \in Key, NEW v \in Value, insert_defragmentates(k, v) PROVE SlotsUsed'
  <2>1. PICK p \in DOMAIN headers : headers' = [headers EXCEPT ![p].state = "PROCESSING"]
    BY <1>9 DEF insert_defragmentates, BeginDefrag
  <2>2. UNCHANGED <<status, uploaded, lru>> BY <1>9 DEF insert_defragmentates
  <2>3. headers[p] \in Header BY <1>0, HeaderAt
  <2> DEFINE h == [headers[p] EXCEPT !.state = "PROCESSING"]
  <2>4. h.location = headers[p].location /\ headers' = [headers EXCEPT ![p] = h]
    BY <2>1, <2>3 DEF Header
  <2> QED BY <1>8, <2>2, <2>4
<1>10. ASSUME NEW t \in Thread, DefragBlock(t) PROVE SlotsUsed'
  <2>1. PICK p \in DOMAIN headers : p = defrag[t].page
    BY <1>0, <1>10, DefragOnPage DEF DefragBlock
  <2>2. /\ UNCHANGED <<status, uploaded, lru>>
        /\ headers' = [headers EXCEPT ![p].keys[defrag[t].block].offset = defrag[t].offset % UINT16]
    BY <1>10, <2>1 DEF DefragBlock
  <2>3. headers[p] \in Header BY <1>0, HeaderAt
  <2> DEFINE h == [headers[p] EXCEPT !.keys[defrag[t].block].offset = defrag[t].offset % UINT16]
  <2>4. h.location = headers[p].location /\ headers' = [headers EXCEPT ![p] = h]
    BY <2>2, <2>3 DEF Header
  <2> QED BY <1>8, <2>2, <2>4, ZenonT(60)
<1>11. ASSUME NEW t \in Thread, DefragDone(t), status' = "up" PROVE SlotsUsed'
  <2>0. ~Die("SIGSEGV") BY <1>11 DEF Die
  <2>1. PICK p \in DOMAIN headers : p = defrag[t].page
    BY <1>0, <1>11, DefragOnPage DEF DefragDone
  <2> DEFINE h == [headers[p] EXCEPT !.fragmentated_bytes = 0,
                                     !.offset_bytes = defrag[t].offset % UINT16,
                                     !.state = "DIRTY"]
  <2>2. UNCHANGED <<status, uploaded, lru>> /\ headers' = [headers EXCEPT ![p] = h]
    BY <1>11, <2>0, <2>1 DEF DefragDone
  <2>3. headers[p] \in Header BY <1>0, HeaderAt
  <2>4. h.location = headers[p].location BY <2>3 DEF Header
  <2> QED BY <1>8, <2>2, <2>4
<1>12. CASE WriteDirtyPage BY <1>1, <1>12 DEF WriteDirtyPage, arenaVars
<1>13. CASE db_start
  <2>1. uploaded = 0 /\ uploaded' = 0 BY <1>13 DEF db_start, SlotsUsed
  <2>2. Cardinality(Heated') \in Nat
    <3>1. TypeOK' BY DEF Inv
    <3>2. Len(headers') \in Nat /\ DOMAIN headers' = 1 .. Len(headers') BY <3>1 DEF TypeOK
    <3>3. IsFiniteSet(1 .. Len(headers')) BY <3>2, FS_Interval
    <3>4. IsFiniteSet(Heated') BY <3>2, <3>3, FS_Subset DEF Heated
    <3> QED BY <3>4, FS_CardinalityType
  <2> QED BY <2>1, <2>2 DEF SlotsUsed
<1> QED
  BY <1>2, <1>3, <1>5, <1>6, <1>7, <1>9, <1>10, <1>11, <1>12, <1>13, StepCases,
     AnswersAlike, DeleteAlike, InsertKeyAlike, WalksAlike, BeginDumpAlike, EndDumpAlike,
     KeysAlike, NoStepAlike
  DEF Step

(* A page that is not in memory leaves a header for the next slot. *)
LEMMA SlotsSuffice == ASSUME Inv, SlotsUsed PROVE EvictionFindsPage
<1>0. TypeOK /\ uploaded \in Nat /\ uploaded <= ArenaPages /\ ArenaPages \in Nat
  BY ArenaAssumption DEF Inv, TypeOK
<1>1. ASSUME NEW p \in DOMAIN headers, headers[p].location = "INDISK"
      PROVE  uploaded < Len(headers)
  <2>1. p \notin Heated /\ Heated \cup {p} \subseteq DOMAIN headers BY <1>1 DEF Heated
  <2>2. /\ IsFiniteSet(DOMAIN headers) /\ Cardinality(DOMAIN headers) = Len(headers)
        /\ IsFiniteSet(Heated) /\ Cardinality(Heated) \in Nat
    BY <1>0, HeatedFinite
  <2>3. Cardinality(Heated \cup {p}) = Cardinality(Heated) + 1 BY <2>1, <2>2, FS_AddElement
  <2>4. Cardinality(Heated \cup {p}) <= Cardinality(DOMAIN headers) BY <2>1, <2>2, FS_Subset
  <2>5. Len(headers) \in Nat /\ uploaded <= Cardinality(Heated) BY <1>0 DEF TypeOK, SlotsUsed
  <2> QED BY <1>0, <2>2, <2>3, <2>4, <2>5
<1>2. ASSUME NEW p \in DOMAIN headers, headers[p].location = "INDISK", ~(uploaded < ArenaPages),
             NEW q \in DOMAIN headers
      PROVE  headers[q].arena_id <= Len(headers)
  <2>1. uploaded < Len(headers) /\ Len(headers) \in Nat BY <1>0, <1>1, <1>2 DEF TypeOK
  <2>2. headers[q].arena_id \in Slot BY PageFacts
  <2> QED BY <1>0, <1>2, <2>1, <2>2 DEF Slot
<1> QED BY <1>1, <1>2 DEF EvictionFindsPage, SlotsUsed

(* Whatever pages the operations fill and heat, and however often the      *)
(* server dies and starts: least_recent_page finds a page, and heat_page,  *)
(* which looks a header up by the number of a slot, finds one.             *)
THEOREM EvictionAlwaysFindsPage == Spec => []EvictionFindsPage
<1>1. Init => SlotsUsed
  <2> SUFFICES ASSUME Init PROVE SlotsUsed OBVIOUS
  <2>1. uploaded = 0 /\ headers = <<>> /\ status = "up" BY DEF Init
  <2>2. Heated = {} BY <2>1 DEF Heated
  <2> QED BY <2>1, <2>2, FS_EmptySet DEF SlotsUsed
<1>2. Inv /\ Inv' /\ SlotsUsed /\ [Next]_vars => SlotsUsed' BY SlotsStep
<1>3. Inv /\ SlotsUsed => EvictionFindsPage BY SlotsSuffice
<1> QED BY <1>1, <1>2, <1>3, SpecInv, PTL DEF Spec
-----------------------------------------------------------------------------
(***************************************************************************)
(* All steps together.                                                     *)
(***************************************************************************)

(* Harm is undone by a start only. *)
LEMMA DamageGrows == ASSUME Inv, [Next]_vars, ~db_start PROVE damage \subseteq damage'
<1>0. TypeOK BY DEF Inv
<1>1. CASE Ends BY <1>1 DEF Ends, history
<1>2. ASSUME NEW k \in Key, operation_select(k) PROVE damage \subseteq damage'
  BY <1>0, <1>2, SelectEffect, WarmEffect
<1>3. CASE page_value_unset BY <1>0, <1>3, UnsetEffect, WarmEffect
<1>4. ASSUME NEW p, NEW h, NEW k \in Key, NEW v \in Value, SetStep(p, h, k, v)
      PROVE  damage \subseteq damage'
  BY <1>4 DEF SetStep
<1>5. ASSUME NEW t \in Thread, DefragBlock(t) PROVE damage \subseteq damage'
  BY <1>5 DEF DefragBlock
<1>6. ASSUME NEW t \in Thread, DefragDone(t), status' = "up" PROVE damage \subseteq damage'
  <2>1. ~Die("SIGSEGV") BY <1>6 DEF Die
  <2> QED BY <1>6, <2>1 DEF DefragDone, history
<1>7. ASSUME NEW k \in Key, NEW v \in Value, insert_defragmentates(k, v)
      PROVE  damage \subseteq damage'
  BY <1>7 DEF insert_defragmentates
<1>8. CASE WriteDirtyPage BY <1>8 DEF WriteDirtyPage
<1> QED
  BY <1>1, <1>2, <1>3, <1>4, <1>5, <1>6, <1>7, <1>8, StepCases,
     AnswersAlike, DeleteAlike, InsertKeyAlike, WalksAlike, BeginDumpAlike, EndDumpAlike,
     KeysAlike, NoStepAlike
  DEF Step

(* An undamaged worker is not in the middle of a defragmentation. *)
LEMMA WorkerDefragsNot ==
    ASSUME Settled, NEW t \in Thread, Defragmenting(t) PROVE t = "main"
BY DEF Settled, Defragmenting, Thread

(* Every step but a start leaves the values of an unharmed process sound. *)
LEMMA SettledStep ==
    ASSUME Inv, Inv', BytesOnce, BytesOnce', Sound, [Next]_vars, ~db_start PROVE Sound'
<1> SUFFICES ASSUME Unharmed' PROVE Settled'
  BY DEF Sound
<1>1. Unharmed BY DamageGrows, UnharmedBefore
<1>2. Settled BY <1>1 DEF Sound
<1>3. CASE Ends
  <2>1. headers' = <<>> /\ main' = MainIdle /\ worker' = NoOp BY <1>3 DEF Ends, Nothing
  <2>2. main'.pc = "idle" /\ worker'.pc = "idle" BY <2>1 DEF MainIdle, NoOp
  <2> QED BY <2>1, <2>2 DEF Settled, OwnSlots, MainMoves, MainAtPage
<1>4. ASSUME NEW k \in Key, NEW v \in Value, insert_defragmentates(k, v) PROVE FALSE
  BY <1>2, <1>4, WorkerMovesNothing
<1>5. ASSUME NEW t \in Thread, DefragBlock(t) PROVE Settled'
  <2>1. t = "main" BY <1>2, <1>5, WorkerDefragsNot DEF DefragBlock
  <2> QED BY <1>2, <1>5, <2>1, BlockSettled
<1>6. ASSUME NEW t \in Thread, DefragDone(t), status' = "up" PROVE Settled'
  <2>1. t = "main" BY <1>2, <1>6, WorkerDefragsNot DEF DefragDone
  <2> QED BY <1>2, <1>6, <2>1, DoneSettled
<1>7. ASSUME NEW p, NEW h, NEW k \in Key, NEW v \in Value, SetStep(p, h, k, v) PROVE Settled'
  BY <1>2, <1>7, SetSettled
<1>8. ASSUME NEW k \in Key, operation_select(k) PROVE Settled'
  BY <1>2, <1>8, SelectSettled
<1>9. CASE page_value_unset BY <1>2, <1>9, UnsetSettled
<1>10. CASE WriteDirtyPage BY <1>2, <1>10, WriteSettled
<1>11. CASE BeginDump BY <1>2, <1>11, BeginDumpSettled
<1>12. CASE \/ Answers \/ Walks \/ insert_key \/ EndDump
            \/ DumpHeader \/ (DumpKeys /\ status' = "up") \/ EndKeys
            \/ db_start_fails \/ UNCHANGED vars \/ \E k \in Key : operation_delete(k)
  BY <1>2, <1>12, AlikeSettled
<1> QED BY <1>3, <1>4, <1>5, <1>6, <1>7, <1>8, <1>9, <1>10, <1>11, <1>12, StepCases DEF Step
-----------------------------------------------------------------------------
(***************************************************************************)
(* Pages in the file.                                                      *)
(***************************************************************************)

(* A page that the main thread is about to mark clean was written before,  *)
(* with all the values that it lists now.                                  *)
Dumped(p) == headers[p].state = "CLEAN" \/ (main.pc = "clean" /\ main.page = p)

CleanDumped ==
    /\ \A p \in DOMAIN headers : Dumped(p) =>
         p \in DOMAIN file.pages /\ Intact(file.pages[p], 0, PageRecords(p))
    /\ main.pc \in {"defrag", "seek", "write", "clean"} => headers[main.page].state # "CLEAN"

CleanKept == damage = {} => CleanDumped

(* The state of a header and the place of the main thread stay. *)
LEMMA CleanSame ==
    ASSUME CleanDumped, UNCHANGED main, file'.pages = file.pages, NEW p,
           DOMAIN headers' = DOMAIN headers \cup {p},
           \A q \in DOMAIN headers : q # p =>
              headers'[q].state = headers[q].state /\ PageRecords(q)' = PageRecords(q),
           headers'[p].state # "CLEAN" \/ (p \in DOMAIN headers /\ headers[p].state = "CLEAN"),
           Dumped(p)' => Intact(file'.pages[p], 0, PageRecords(p)') /\ p \in DOMAIN file'.pages,
           main.pc \in {"defrag", "seek", "write", "clean"} => main.page \in DOMAIN headers
    PROVE  CleanDumped'
<1>1. ASSUME NEW q \in DOMAIN headers', Dumped(q)'
      PROVE  q \in DOMAIN file'.pages /\ Intact(file'.pages[q], 0, PageRecords(q)')
  <2>1. CASE q = p BY <1>1, <2>1
  <2>2. CASE q # p
    <3>1. q \in DOMAIN headers BY <2>2
    <3>2. Dumped(q) BY <1>1, <2>2, <3>1 DEF Dumped
    <3> QED BY <2>2, <3>1, <3>2 DEF CleanDumped
  <2> QED BY <2>1, <2>2
<1>2. ASSUME main.pc \in {"defrag", "seek", "write", "clean"}
      PROVE  headers'[main.page].state # "CLEAN"
  <2>1. PICK q \in DOMAIN headers : q = main.page BY <1>2
  <2>2. headers[q].state # "CLEAN" BY <1>2, <2>1 DEF CleanDumped
  <2>3. CASE q = p BY <2>1, <2>2, <2>3
  <2>4. CASE q # p BY <2>1, <2>2, <2>4
  <2> QED BY <2>3, <2>4
<1> QED BY <1>1, <1>2 DEF CleanDumped

(* The values in all pages but the one that page_value_set works on. *)
LEMMA SetOthers ==
    ASSUME Inv, Inv', Settled, Unharmed', NEW p, NEW h, NEW k \in Key, NEW v \in Value,
           SetStep(p, h, k, v)
    PROVE  /\ DOMAIN headers' = DOMAIN headers \cup {p} /\ headers'[p].state = h.state
           /\ \A q \in DOMAIN headers : q # p =>
                 headers'[q] = headers[q] /\ PageRecords(q)' = PageRecords(q)
           /\ worker'.pc = "set" /\ Overlap
<1>1. /\ TypeOK /\ page_value_set(p, h, k, v) /\ hashmap[k] = NoMeta
  BY DEF SetStep, Inv
<1>2. /\ worker.pc = "idle" /\ h \in Header /\ (p \in DOMAIN headers \/ p = Len(headers) + 1)
      /\ kv' = kv
  BY SetFacts
<1>3. /\ DOMAIN headers' = DOMAIN headers \cup {p} /\ headers'[p].state = h.state
      /\ \A q \in DOMAIN headers : q # p => headers'[q] = headers[q]
      /\ worker'.pc = "set" /\ worker'.key = k /\ Overlap
  BY <1>1, <1>2, SetEffect, ZenonT(60)
<1>4. \A j \in Key : j # k => Kept'[j] = Kept[j] BY <1>2, <1>3 DEF Kept
<1>5. ASSUME NEW q \in DOMAIN headers, q # p PROVE PageRecords(q)' = PageRecords(q)
  <2>1. ASSUME NEW i \in DOMAIN headers[q].keys
        PROVE  Kept'[headers[q].keys[i].key] = Kept[headers[q].keys[i].key]
    <3>1. headers[q].keys[i].key \in Key BY <1>1, KeyAt
    <3>2. headers[q].keys[i].key # k BY <1>1, <1>2, NotInPage
    <3> QED BY <1>4, <3>1, <3>2
  <2> QED BY <1>3, <1>5, <2>1, RecordsKept
<1> QED BY <1>3, <1>5

(* The values in all pages but the one that page_value_unset works on, and *)
(* what it leaves in that one.                                             *)
LEMMA UnsetOthers ==
    ASSUME Inv, Inv', Settled, Unharmed', page_value_unset
    PROVE  /\ worker.meta.page \in DOMAIN headers /\ DOMAIN headers' = DOMAIN headers
           /\ headers'[worker.meta.page].state = "DIRTY"
           /\ \A q \in DOMAIN headers : q # worker.meta.page =>
                 headers'[q] = headers[q] /\ PageRecords(q)' = PageRecords(q)
           /\ \A m : Intact(m, 0, PageRecords(worker.meta.page)) =>
                        Intact(m, 0, PageRecords(worker.meta.page)')
           /\ file' = file /\ saved' = saved /\ main' = main /\ Overlap
<1>1. worker.pc = "unset" /\ UNCHANGED <<main, defrag, kv>> /\ Overlap BY UnsetEffect
<1>2. PICK p \in DOMAIN headers, id \in DOMAIN headers[worker.meta.page].keys, slot \in Slot :
        /\ p = worker.meta.page /\ id = worker.meta.id
        /\ Warm(p, slot, IF BeingMoved(p) THEN {"race"} ELSE {})
        /\ DOMAIN headers' = DOMAIN headers
        /\ headers'[p].keys = VectorDelete(headers[p].keys, id)
        /\ headers'[p].state = "DIRTY"
        /\ \A q \in DOMAIN headers : q # p => headers'[q] = headers[q]
        /\ worker'.pc = "reply"
  BY UnsetEffect
<1>3. file' = file /\ saved' = saved BY <1>2, WarmFacts
<1>4. ASSUME NEW q \in DOMAIN headers, q # p PROVE PageRecords(q)' = PageRecords(q)
  <2>1. ASSUME NEW i \in DOMAIN headers[q].keys
        PROVE  Kept'[headers[q].keys[i].key] = Kept[headers[q].keys[i].key]
    <3>1. headers[q].keys[i].key \in Key BY KeyAt DEF Inv
    <3>2. headers[q].keys[i].key # worker.key BY <1>1, <1>2, <1>4, OnlyInHand
    <3> QED BY <1>1, <1>2, <3>1, <3>2, UnsetKept
  <2> QED BY <1>2, <1>4, <2>1, RecordsKept
<1> DEFINE recs == PageRecords(p)
           new == PageRecords(p)'
<1>5. recs \in Seq(Record) BY DEF Settled, PageSound, Laid, Apart
<1>6. /\ new \in Seq(Record) /\ Len(new) = Len(recs) - 1
      /\ \A j \in 1 .. Len(recs) - 1 : new[j] = IF j < id THEN recs[j] ELSE recs[j + 1]
  BY <1>1, <1>2, <1>5, UnsetRecords
<1> HIDE DEF recs, new
<1>7. \A j \in DOMAIN new : \E i \in DOMAIN recs : new[j] = recs[i]
  <2>1. Len(recs) \in Nat /\ DOMAIN recs = 1 .. Len(recs) BY <1>5
  <2>2. DOMAIN new = 1 .. Len(recs) - 1 BY <1>6
  <2>3. \A j \in 1 .. Len(recs) - 1 : j \in DOMAIN recs /\ j + 1 \in DOMAIN recs BY <2>1
  <2> QED BY <1>6, <2>2, <2>3
<1>8. \A m : Intact(m, 0, recs) => Intact(m, 0, new) BY <1>7 DEF Intact
<1>9. PageRecords(worker.meta.page)' = new
  <2>1. worker.meta.page = p BY <1>2
  <2>2. PageRecords(worker.meta.page)' = Records(headers'[worker'.meta.page].keys, Kept')
    BY DEF PageRecords
  <2> QED BY <2>1, <2>2, UnsetEffect DEF new, PageRecords
<1> QED BY <1>1, <1>2, <1>3, <1>4, <1>8, <1>9 DEF recs

(* Where the handlers go between two pages, and in disk_dump_keys. *)
LEMMA WalksPc ==
    ASSUME Inv, Walks
    PROVE  \/ main'.pc \in {"scan", "keys"}
           \/ main.pc = "seek" /\ main'.page = main.page /\ main'.pc = "write"
<1>0. main \in Handler BY DEF Inv, TypeOK
<1>1. CASE snapshot_handler \/ shutdown_handler BY <1>1 DEF snapshot_handler, shutdown_handler
<1>2. CASE SkipPage BY <1>0, <1>2 DEF SkipPage, Handler
<1>3. CASE BeginKeys BY <1>0, <1>3 DEF BeginKeys, Handler
<1>4. CASE SeekPage BY <1>0, <1>4 DEF SeekPage, Handler
<1> QED BY <1>1, <1>2, <1>3, <1>4 DEF Walks

(* The handlers in disk_dump_keys. *)
LEMMA KeysPc ==
    ASSUME Inv, DumpHeader \/ (DumpKeys /\ status' = "up") \/ EndKeys
    PROVE  main'.pc \in {"scan", "keys", "list", "idle"}
<1>0. main \in Handler BY DEF Inv, TypeOK
<1>1. CASE DumpKeys /\ status' = "up"
  <2>1. ~Die("SIGSEGV") BY <1>1 DEF Die
  <2>2. main' = [main EXCEPT !.pc = "keys", !.page = @ + 1] BY <1>1, <2>1 DEF DumpKeys
  <2> QED BY <1>0, <2>2 DEF Handler
<1>2. CASE EndKeys BY <1>0, <1>2 DEF EndKeys, Handler, MainIdle
<1>3. CASE DumpHeader BY <1>0, <1>3 DEF DumpHeader, Handler
<1> QED BY <1>1, <1>2, <1>3

(* No page becomes clean. *)
LEMMA CleanAlike ==
    ASSUME CleanDumped, StoredAlike, Kept' = Kept,
           \A q \in DOMAIN headers : Dumped(q)' => Dumped(q),
           main'.pc \in {"defrag", "seek", "write", "clean"} =>
               headers'[main'.page].state # "CLEAN"
    PROVE  CleanDumped'
<1>1. DOMAIN headers' = DOMAIN headers /\ file'.pages = file.pages BY DEF StoredAlike
<1>2. ASSUME NEW q \in DOMAIN headers PROVE PageRecords(q)' = PageRecords(q)
  <2>1. headers'[q].keys = headers[q].keys BY DEF StoredAlike, Alike
  <2> QED BY <2>1, RecordsKept
<1>3. ASSUME NEW q \in DOMAIN headers, Dumped(q)'
      PROVE  q \in DOMAIN file'.pages /\ Intact(file'.pages[q], 0, PageRecords(q)')
  BY <1>1, <1>2, <1>3 DEF CleanDumped
<1> QED BY <1>1, <1>3 DEF CleanDumped

(* The write puts all values of its page into the file. *)
LEMMA WriteClean ==
    ASSUME Inv, Inv', Settled, CleanDumped, WriteDirtyPage PROVE CleanDumped'
<1>0. TypeOK /\ main \in Handler BY DEF Inv, TypeOK
<1>1. PICK p \in DOMAIN headers :
             /\ p = main.page /\ headers[p].location = "INMEMORY" /\ main.pc = "write"
             /\ main' = [main EXCEPT !.pc = "clean"]
             /\ p \in DOMAIN file'.pages
             /\ file'.pages[p] = PageImage(mem, headers[p].arena_id)
             /\ \A q \in DOMAIN file.pages :
                   q \in DOMAIN file'.pages /\ (q # p => file'.pages[q] = file.pages[q])
             /\ UNCHANGED <<arenaVars, worker, kv>>
  BY WriteEffect DEF Settled
<1>2. Kept' = Kept BY <1>1, KeptStays
<1>3. headers' = headers /\ mem' = mem BY <1>1 DEF arenaVars
<1>4. main'.pc = "clean" /\ main'.page = p BY <1>0, <1>1 DEF Handler
<1>5. \A q \in DOMAIN headers : PageRecords(q)' = PageRecords(q) BY <1>2, <1>3, RecordsKept
<1>6. Intact(file'.pages[p], 0, PageRecords(p))
  <2> DEFINE recs == PageRecords(p)
             end == headers[p].offset_bytes
             slot == headers[p].arena_id
  <2>1. PageSound(p) BY DEF Settled
  <2>2. /\ end \in Nat /\ slot \in Slot /\ end <= PAGE_SIZE /\ Apart(recs, end)
        /\ recs \in Seq(Record) /\ Intact(mem, SlotStart(slot), recs)
    BY <1>1, <2>1, PageFacts DEF PageSound, Laid, Apart
  <2> HIDE DEF recs, end, slot
  <2>3. ASSUME NEW i \in DOMAIN recs
        PROVE  [addr |-> 0 + recs[i].addr, val |-> recs[i].val] \in PageImage(mem, slot)
    <3>1. recs[i] \in Record /\ recs[i].addr \in Nat /\ Bytes(recs[i]) \in Nat BY <2>2, RecordAt
    <3>2. recs[i].addr + Bytes(recs[i]) <= PAGE_SIZE
      <4>1. recs[i].addr + Bytes(recs[i]) <= end BY <2>2 DEF Apart
      <4> QED BY <2>2, <3>1, <4>1, ArenaAssumption
    <3>3. [addr |-> SlotStart(slot) + recs[i].addr, val |-> recs[i].val] \in mem
      BY <2>2 DEF Intact
    <3>4. recs[i] \in PageImage(mem, slot) BY <2>2, <3>1, <3>2, <3>3, ImageHas
    <3>5. recs[i] = [addr |-> 0 + recs[i].addr, val |-> recs[i].val] BY <3>1 DEF Record
    <3> QED BY <3>4, <3>5
  <2>4. file'.pages[p] = PageImage(mem, slot) BY <1>1 DEF slot
  <2> QED BY <2>3, <2>4 DEF Intact, recs
<1>7. ASSUME NEW q \in DOMAIN headers, Dumped(q)'
      PROVE  q \in DOMAIN file'.pages /\ Intact(file'.pages[q], 0, PageRecords(q)')
  <2>1. CASE q = p BY <1>1, <1>5, <1>6, <2>1
  <2>2. CASE q # p
    <3>1. Dumped(q) BY <1>3, <1>4, <1>7, <2>2 DEF Dumped
    <3>2. q \in DOMAIN file.pages /\ Intact(file.pages[q], 0, PageRecords(q))
      BY <3>1 DEF CleanDumped
    <3> QED BY <1>1, <1>5, <2>2, <3>2
  <2> QED BY <2>1, <2>2
<1>8. headers[p].state # "CLEAN" BY <1>1 DEF CleanDumped
<1> QED BY <1>3, <1>4, <1>7, <1>8 DEF CleanDumped

(* The steps that leave the stored bytes and the values alone. *)
AlikeStep ==
    \/ Answers \/ Walks \/ insert_key \/ BeginDump \/ EndDump
    \/ DumpHeader \/ (DumpKeys /\ status' = "up") \/ EndKeys
    \/ db_start_fails \/ UNCHANGED vars \/ \E k \in Key : operation_delete(k)

(* Where the worker is before and after an answer. *)
LEMMA AnswersPc ==
    ASSUME Answers
    PROVE  worker.pc \in {"idle", "reply"} /\ worker'.pc \in {"idle", "reply"}
<1>1. CASE request_reply BY <1>1 DEF request_reply, NoOp
<1>2. ASSUME NEW k, NEW cmd, NEW code, Starts(k), Reply(cmd, k, code)
      PROVE  worker.pc = "idle" /\ worker'.pc = "reply"
  BY <1>2 DEF Starts, Reply, NoOp
<1> QED BY <1>1, <1>2
    DEF Answers, operation_peek, operation_select_missing, operation_delete_missing,
        operation_insert_refused

(* They change no record of any page. *)
LEMMA AlikeKept ==
    ASSUME Inv, Inv', AlikeStep PROVE StoredAlike /\ Kept' = Kept
<1>1. CASE Answers
  <2>1. StoredAlike /\ kv' = kv BY <1>1, AnswersAlike
  <2> QED BY <1>1, <2>1, AnswersPc, KeptStays
<1>2. CASE insert_key \/ \E k \in Key : operation_delete(k)
  BY <1>2, KeptMoves, InsertKeyAlike, DeleteAlike
<1>3. CASE Walks BY <1>3, WalksAlike, KeptStays
<1>4. CASE BeginDump \/ EndDump BY <1>4, BeginDumpAlike, EndDumpAlike, KeptStays
<1>5. CASE DumpHeader \/ (DumpKeys /\ status' = "up") \/ EndKeys
  BY <1>5, KeysAlike, KeptStays
<1>6. CASE db_start_fails \/ UNCHANGED vars BY <1>6, NoStepAlike, KeptStays
<1> QED BY <1>1, <1>2, <1>3, <1>4, <1>5, <1>6 DEF AlikeStep

(* A page that is marked clean, or about to be, is in the file. *)
LEMMA AlikeClean ==
    ASSUME Inv, Inv', CleanDumped, AlikeStep PROVE CleanDumped'
<1>0. main \in Handler /\ StoredAlike /\ Kept' = Kept BY AlikeKept DEF Inv, TypeOK
<1>1. CASE UNCHANGED main /\ \A q \in DOMAIN headers : headers'[q].state = headers[q].state
  <2>1. \A q \in DOMAIN headers : Dumped(q)' => Dumped(q) BY <1>1 DEF Dumped
  <2>2. ASSUME main.pc \in {"defrag", "seek", "write", "clean"}
        PROVE  headers'[main.page].state # "CLEAN"
    <3>1. main.page \in DOMAIN headers BY <2>2 DEF Inv, MainOnPage
    <3> QED BY <1>1, <2>2, <3>1 DEF CleanDumped
  <2> QED BY <1>0, <1>1, <2>1, <2>2, CleanAlike
<1>2. CASE UNCHANGED headers /\ main'.pc \in {"scan", "keys", "list", "idle"}
  <2>1. \A q \in DOMAIN headers : Dumped(q)' => Dumped(q) BY <1>2 DEF Dumped
  <2> QED BY <1>0, <1>2, <2>1, CleanAlike
<1>3. CASE UNCHANGED headers /\ main.pc = "seek" /\ main'.page = main.page /\ main'.pc = "write"
  <2>1. \A q \in DOMAIN headers : Dumped(q)' => Dumped(q) BY <1>3 DEF Dumped
  <2>2. headers'[main'.page].state # "CLEAN" BY <1>3 DEF CleanDumped
  <2> QED BY <1>0, <2>1, <2>2, CleanAlike
<1>4. CASE BeginDump
  <2>1. /\ main.page \in DOMAIN headers /\ headers'[main.page].state = "PROCESSING"
        /\ \A q \in DOMAIN headers : q # main.page => headers'[q] = headers[q]
        /\ main' = [main EXCEPT !.pc = "defrag"]
    BY <1>4, BeginDumpAlike
  <2>2. main'.pc = "defrag" /\ main'.page = main.page BY <1>0, <2>1 DEF Handler
  <2>3. \A q \in DOMAIN headers : Dumped(q)' => Dumped(q) BY <2>1, <2>2 DEF Dumped
  <2> QED BY <1>0, <2>1, <2>2, <2>3, CleanAlike
<1>5. CASE EndDump
  <2>1. /\ main.pc = "clean" /\ main' = [main EXCEPT !.pc = "scan", !.page = main.page + 1]
        /\ \A q \in DOMAIN headers : q # main.page => headers'[q] = headers[q]
    BY <1>5, EndDumpAlike DEF EndDump
  <2>2. main'.pc = "scan" BY <1>0, <2>1 DEF Handler
  <2>3. \A q \in DOMAIN headers : Dumped(q)' => Dumped(q) BY <2>1, <2>2 DEF Dumped
  <2> QED BY <1>0, <2>2, <2>3, CleanAlike
<1>6. CASE Answers BY <1>1, <1>6, AnswersAlike
<1>7. CASE insert_key BY <1>1, <1>7, InsertKeyAlike
<1>8. ASSUME NEW k \in Key, operation_delete(k) PROVE CleanDumped' BY <1>1, <1>8, DeleteAlike
<1>9. CASE Walks BY <1>2, <1>3, <1>9, WalksAlike, WalksPc
<1>10. CASE DumpHeader \/ (DumpKeys /\ status' = "up") \/ EndKeys
  BY <1>2, <1>10, KeysAlike, KeysPc
<1>11. CASE db_start_fails \/ UNCHANGED vars BY <1>1, <1>11, NoStepAlike
<1> QED BY <1>4, <1>5, <1>6, <1>7, <1>8, <1>9, <1>10, <1>11 DEF AlikeStep

(* An operation that gives its page no new value. *)
LEMMA CleanStep ==
    ASSUME Inv, Inv', Settled, CleanDumped, damage' = {}, [Next]_vars, ~db_start
    PROVE  CleanDumped'
<1>0. TypeOK /\ main \in Handler BY DEF Inv, TypeOK
<1>1. Unharmed' /\ damage \subseteq {} BY DamageGrows DEF Unharmed
<1>2. main.pc \in {"defrag", "seek", "write", "clean"} => main.page \in DOMAIN headers
  BY DEF Inv, MainOnPage
<1>3. CASE Ends BY <1>3 DEF Ends, Nothing, MainIdle, CleanDumped
<1>4. CASE AlikeStep BY <1>4, AlikeClean
<1>5. ASSUME NEW k \in Key, operation_select(k) PROVE CleanDumped'
  <2>1. worker.pc = "idle" /\ UNCHANGED <<main, kv>> BY <1>5, SelectEffect
  <2>2. PICK p \in DOMAIN headers, slot \in Slot :
          /\ Warm(p, slot, {})
          /\ DOMAIN headers' = DOMAIN headers
          /\ headers'[p].keys = headers[p].keys /\ headers'[p].state = headers[p].state
          /\ \A q \in DOMAIN headers : q # p => headers'[q] = headers[q]
          /\ worker'.pc = "reply"
    BY <1>5, SelectEffect
  <2>3. file' = file BY <1>1, <2>2, WarmFacts
  <2>4. Kept' = Kept BY <2>1, <2>2, KeptStays
  <2>5. \A q \in DOMAIN headers : headers'[q].keys = headers[q].keys /\ headers'[q].state = headers[q].state
    BY <2>2
  <2>6. \A q \in DOMAIN headers : PageRecords(q)' = PageRecords(q) BY <2>4, <2>5, RecordsKept
  <2>7. Dumped(p)' => p \in DOMAIN file'.pages /\ Intact(file'.pages[p], 0, PageRecords(p)')
    <3>1. Dumped(p)' => Dumped(p) BY <2>1, <2>5 DEF Dumped
    <3>2. Dumped(p) => p \in DOMAIN file.pages /\ Intact(file.pages[p], 0, PageRecords(p))
      BY DEF CleanDumped
    <3> QED BY <2>3, <2>6, <3>1, <3>2
  <2> QED BY <1>2, <2>1, <2>2, <2>3, <2>5, <2>6, <2>7, CleanSame
<1>6. CASE page_value_unset
  <2>1. /\ worker.meta.page \in DOMAIN headers /\ DOMAIN headers' = DOMAIN headers
        /\ headers'[worker.meta.page].state = "DIRTY"
        /\ \A q \in DOMAIN headers : q # worker.meta.page =>
              headers'[q] = headers[q] /\ PageRecords(q)' = PageRecords(q)
        /\ file' = file /\ main' = main
    BY <1>1, <1>6, UnsetOthers
  <2>2. PICK p \in DOMAIN headers : p = worker.meta.page BY <2>1
  <2>3. \A m : Intact(m, 0, PageRecords(p)) => Intact(m, 0, PageRecords(p)')
    <3>1. \A m : Intact(m, 0, PageRecords(worker.meta.page)) =>
                   Intact(m, 0, PageRecords(worker.meta.page)')
      BY <1>1, <1>6, UnsetOthers
    <3>2. worker'.meta.page = p BY <1>6, <2>2, UnsetEffect
    <3>3. PageRecords(worker.meta.page)' = PageRecords(p)' BY <3>2 DEF PageRecords
    <3> QED BY <2>2, <3>1, <3>3
  <2>4. Dumped(p)' => p \in DOMAIN file'.pages /\ Intact(file'.pages[p], 0, PageRecords(p)')
    <3>1. Dumped(p)' => Dumped(p) BY <2>1, <2>2 DEF Dumped
    <3>2. Dumped(p) => p \in DOMAIN file.pages /\ Intact(file.pages[p], 0, PageRecords(p))
      BY DEF CleanDumped
    <3> QED BY <2>1, <2>3, <3>1, <3>2
  <2>5. headers'[p].state # "CLEAN" BY <2>1, <2>2
  <2>6. \A q \in DOMAIN headers : q # p =>
           headers'[q].state = headers[q].state /\ PageRecords(q)' = PageRecords(q)
    BY <2>1, <2>2
  <2> QED BY <1>2, <2>1, <2>2, <2>4, <2>5, <2>6, CleanSame
<1>7. ASSUME NEW p, NEW h, NEW k \in Key, NEW v \in Value, SetStep(p, h, k, v)
      PROVE  CleanDumped'
  <2>1. /\ DOMAIN headers' = DOMAIN headers \cup {p} /\ headers'[p].state = h.state
        /\ \A q \in DOMAIN headers : q # p =>
              headers'[q] = headers[q] /\ PageRecords(q)' = PageRecords(q)
    BY <1>1, <1>7, SetOthers
  <2>2. file' = file /\ main' = main BY <1>1, <1>7, SetFacts
  <2>3. "clean" \notin SetDamage(p, h, v) BY <1>7 DEF SetStep
  <2>4. h.state # "CLEAN" /\ ~(main.pc = "clean" /\ main.page = p) BY <2>3 DEF SetDamage
  <2>5. ~Dumped(p)' BY <2>1, <2>2, <2>4 DEF Dumped
  <2> QED BY <1>2, <2>1, <2>2, <2>4, <2>5, CleanSame
<1>8. ASSUME NEW k \in Key, NEW v \in Value, insert_defragmentates(k, v) PROVE FALSE
  BY <1>8, WorkerMovesNothing
<1>9. ASSUME NEW t \in Thread, DefragBlock(t) PROVE CleanDumped'
  <2>1. t = "main" BY <1>9, WorkerDefragsNot DEF DefragBlock
  <2>2. /\ main.pc = "defrag" /\ worker' = LetGo("main", main.page)
        /\ UNCHANGED <<file, main, kv>>
    BY <1>9, <2>1, BlockEffect
  <2>3. PICK p \in DOMAIN headers :
          /\ p = main.page /\ DOMAIN headers' = DOMAIN headers
          /\ headers'[p].state = headers[p].state
          /\ \A q \in DOMAIN headers : q # p => headers'[q] = headers[q]
    BY <1>9, <2>1, BlockEffect
  <2>4. Kept' = Kept BY <1>0, <2>2, LetGoFields, KeptStays
  <2>5. headers[p].state # "CLEAN" BY <2>2, <2>3 DEF CleanDumped
  <2>6. ~Dumped(p)' BY <2>2, <2>3, <2>5 DEF Dumped
  <2>7. \A q \in DOMAIN headers : q # p => PageRecords(q)' = PageRecords(q)
    BY <2>3, <2>4, RecordsKept
  <2> QED BY <1>2, <2>2, <2>3, <2>5, <2>6, <2>7, CleanSame
<1>10. ASSUME NEW t \in Thread, DefragDone(t), status' = "up" PROVE CleanDumped'
  <2>1. t = "main" BY <1>10, WorkerDefragsNot DEF DefragDone
  <2>2. /\ main.pc = "defrag" /\ worker' = LetGo("main", main.page)
        /\ main' = [main EXCEPT !.pc = "seek"] /\ UNCHANGED <<file, kv>>
    BY <1>10, <2>1, DoneEffect DEF history
  <2>3. PICK p \in DOMAIN headers :
          /\ p = main.page /\ DOMAIN headers' = DOMAIN headers
          /\ headers'[p].state = "DIRTY"
          /\ \A q \in DOMAIN headers : q # p => headers'[q] = headers[q]
    BY <1>10, <2>1, DoneEffect
  <2>4. Kept' = Kept BY <1>0, <2>2, LetGoFields, KeptStays
  <2>5. main'.pc = "seek" /\ main'.page = p BY <1>0, <2>2, <2>3 DEF Handler
  <2>6. \A q \in DOMAIN headers : q # p => PageRecords(q)' = PageRecords(q)
    BY <2>3, <2>4, RecordsKept
  <2>7. ASSUME NEW q \in DOMAIN headers, Dumped(q)'
        PROVE  q \in DOMAIN file'.pages /\ Intact(file'.pages[q], 0, PageRecords(q)')
    <3>1. q # p /\ Dumped(q) BY <2>3, <2>5, <2>7 DEF Dumped
    <3> QED BY <2>2, <2>6, <3>1 DEF CleanDumped
  <2> QED BY <2>3, <2>5, <2>7 DEF CleanDumped
<1>11. CASE WriteDirtyPage BY <1>11, WriteClean
<1> QED BY <1>3, <1>4, <1>5, <1>6, <1>7, <1>8, <1>9, <1>10, <1>11, StepCases
        DEF Step, AlikeStep
-----------------------------------------------------------------------------
(***************************************************************************)
(* The handlers.                                                           *)
(***************************************************************************)

(* Between two signals the main thread remembers nothing. *)
MainRests == main.pc = "idle" => main = MainIdle

(* What the header of a page says in the key file. *)
KeysOf(p) == [offset_bytes |-> headers[p].offset_bytes, keys |-> headers[p].keys]

(* Only a dump marks a page as being processed, and only the shutdown that *)
(* interrupts it leaves the page so; that snapshot is no quiet one.        *)
NoneLeftProcessing ==
    \A p \in DOMAIN headers :
        headers[p].state = "PROCESSING" => BeingMoved(p) \/ (main.exiting /\ ~quiet)

(* While no modifying operation disturbs it, a snapshot leaves only clean  *)
(* pages behind, and then writes their headers as they are.                *)
LeftClean ==
    quiet /\ main.phase = "snapshot" =>
        \A p \in DOMAIN headers :
            main.pc \in {"keys", "list"} \/ p < main.page => headers[p].state = "CLEAN"

KeysCopied ==
    /\ quiet /\ main.pc = "keys" => \A p \in 1 .. main.page - 1 : file.headers[p] = KeysOf(p)
    /\ quiet /\ main.pc = "list" => \A p \in 1 .. main.page : file.headers[p] = KeysOf(p)

Handling ==
    /\ main.pc # "idle" => main.phase # "none"
    /\ main.pc = "keys" => main.phase = "snapshot" /\ main.page <= Len(headers) + 1
    /\ main.pc = "list" => main.phase = "snapshot" /\ main.page <= Len(headers)
    /\ quiet /\ main.phase # "none" => BetweenOperations
    /\ NoneLeftProcessing /\ LeftClean /\ KeysCopied

HandlersTidy == MainRests /\ (damage = {} => Handling)

(* The steps of an undamaged worker, and those of nobody. *)
WorkerActs ==
    \/ Answers \/ insert_key \/ db_start_fails \/ UNCHANGED vars
    \/ (\E k \in Key : operation_delete(k)) \/ (\E k \in Key : operation_select(k))
    \/ page_value_unset \/ \E p, h : \E k \in Key, v \in Value : SetStep(p, h, k, v)

(* The worker changes pages, but then the snapshot is no quiet one.        *)
LEMMA WorkerFrame ==
    ASSUME Inv, Inv', Settled, Unharmed', WorkerActs
    PROVE  /\ UNCHANGED <<main, file, saved>> /\ Len(headers) <= Len(headers')
           /\ \A p \in DOMAIN headers' :
                 headers'[p].state = "PROCESSING" =>
                    p \in DOMAIN headers /\ headers[p].state = "PROCESSING"
           /\ \/ Overlap
              \/ /\ quiet' = quiet /\ (BetweenOperations => BetweenOperations')
                 /\ DOMAIN headers' = DOMAIN headers
                 /\ \A p \in DOMAIN headers :
                      headers'[p].state = headers[p].state /\ KeysOf(p)' = KeysOf(p)
<1> DEFINE Same == /\ DOMAIN headers' = DOMAIN headers
                   /\ \A p \in DOMAIN headers :
                        headers'[p].state = headers[p].state /\ KeysOf(p)' = KeysOf(p)
<1>0. /\ headers \in Seq(Header) /\ headers' \in Seq(Header) BY DEF Inv, TypeOK
<1>1. ASSUME DOMAIN headers \subseteq DOMAIN headers' PROVE Len(headers) <= Len(headers')
  <2>1. /\ Len(headers) \in Nat /\ Len(headers') \in Nat
        /\ DOMAIN headers = 1 .. Len(headers) /\ DOMAIN headers' = 1 .. Len(headers')
    BY <1>0
  <2> QED BY <1>1, <2>1
<1>2. CASE Answers
  <2>1. UNCHANGED <<headers, main, file, saved, quiet>> BY <1>2, AnswersAlike
  <2>2. BetweenOperations' BY <1>2, AnswersPc DEF BetweenOperations
  <2> QED BY <1>1, <2>1, <2>2 DEF KeysOf
<1>3. CASE insert_key
  <2>1. /\ DOMAIN headers' = DOMAIN headers /\ UNCHANGED <<main, file, saved>>
        /\ \A q \in DOMAIN headers : headers'[q].state = headers[q].state
    BY <1>3, InsertKeyAlike DEF StoredAlike
  <2>2. Overlap BY <1>3 DEF insert_key
  <2> QED BY <1>1, <2>1, <2>2
<1>4. ASSUME NEW k \in Key, operation_delete(k)
      PROVE  UNCHANGED <<headers, main, file, saved>> /\ Overlap
  BY <1>4, DeleteAlike DEF operation_delete
<1>5. CASE db_start_fails \/ UNCHANGED vars
  <2>1. UNCHANGED <<headers, main, file, saved, quiet, worker>> BY <1>5, NoStepAlike
  <2> QED BY <1>1, <2>1 DEF KeysOf, BetweenOperations
<1>6. ASSUME NEW k \in Key, operation_select(k)
      PROVE  /\ UNCHANGED <<main, file, saved>> /\ Same
             /\ quiet' = quiet /\ BetweenOperations'
  <2>1. UNCHANGED <<main, quiet>> BY <1>6, SelectEffect
  <2>2. PICK p \in DOMAIN headers, slot \in Slot :
          /\ Warm(p, slot, {})
          /\ DOMAIN headers' = DOMAIN headers
          /\ headers'[p].keys = headers[p].keys /\ headers'[p].state = headers[p].state
          /\ headers'[p].offset_bytes = headers[p].offset_bytes
          /\ \A q \in DOMAIN headers : q # p => headers'[q] = headers[q]
          /\ worker'.pc = "reply"
    BY <1>6, SelectEffect
  <2>3. file' = file /\ saved' = saved BY <2>2, WarmFacts
  <2>4. Same BY <2>2 DEF KeysOf
  <2> QED BY <2>1, <2>2, <2>3, <2>4 DEF BetweenOperations
<1>7. CASE page_value_unset
  <2>1. /\ worker.meta.page \in DOMAIN headers /\ DOMAIN headers' = DOMAIN headers
        /\ headers'[worker.meta.page].state = "DIRTY"
        /\ \A q \in DOMAIN headers : q # worker.meta.page => headers'[q] = headers[q]
        /\ UNCHANGED <<main, file, saved>> /\ Overlap
    BY <1>7, UnsetOthers
  <2> QED BY <1>1, <2>1
<1>8. ASSUME NEW p, NEW h, NEW k \in Key, NEW v \in Value, SetStep(p, h, k, v)
      PROVE  /\ UNCHANGED <<main, file, saved>> /\ DOMAIN headers \subseteq DOMAIN headers'
             /\ \A q \in DOMAIN headers' :
                   headers'[q].state = "PROCESSING" =>
                      q \in DOMAIN headers /\ headers[q].state = "PROCESSING"
             /\ Overlap
  <2>1. UNCHANGED <<main, file, saved>> BY <1>8, SetFacts
  <2>2. /\ DOMAIN headers' = DOMAIN headers \cup {p} /\ headers'[p].state = h.state
        /\ \A q \in DOMAIN headers : q # p => headers'[q] = headers[q]
        /\ Overlap
    BY <1>8, SetOthers
  <2>3. (p \in DOMAIN headers /\ h = headers[p]) \/ h.state = "DIRTY"
    BY <1>8 DEF SetStep, NewHeader
  <2> QED BY <2>1, <2>2, <2>3
<1>9. CASE \E k \in Key : operation_delete(k) BY <1>1, <1>4, <1>9
<1>10. CASE \E k \in Key : operation_select(k)
  <2>1. Same /\ UNCHANGED <<main, file, saved>> /\ quiet' = quiet /\ BetweenOperations'
    BY <1>6, <1>10
  <2> QED BY <1>1, <2>1
<1>11. CASE \E p, h : \E k \in Key, v \in Value : SetStep(p, h, k, v)
  BY <1>1, <1>8, <1>11
<1> QED BY <1>2, <1>3, <1>5, <1>7, <1>9, <1>10, <1>11 DEF WorkerActs

(* A snapshot that no modifying operation overlaps stays undisturbed. *)
LEMMA WorkerHandling ==
    ASSUME Inv, Inv', Settled, Unharmed', Handling, WorkerActs PROVE Handling'
<1>0. /\ headers \in Seq(Header) /\ headers' \in Seq(Header)
      /\ Len(headers) \in Nat /\ Len(headers') \in Nat /\ main \in Handler /\ main.page \in Nat
      /\ DOMAIN headers = 1 .. Len(headers) /\ quiet \in BOOLEAN /\ quiet' \in BOOLEAN
  BY DEF Inv, TypeOK, Handler
<1>1. /\ UNCHANGED <<main, file>> /\ Len(headers) <= Len(headers')
      /\ \A p \in DOMAIN headers' :
            headers'[p].state = "PROCESSING" =>
               p \in DOMAIN headers /\ headers[p].state = "PROCESSING"
  BY WorkerFrame
<1>2. /\ main'.pc # "idle" => main'.phase # "none"
      /\ main'.pc = "keys" => main'.phase = "snapshot" /\ main'.page <= Len(headers') + 1
      /\ main'.pc = "list" => main'.phase = "snapshot" /\ main'.page <= Len(headers')
  BY <1>0, <1>1 DEF Handling
<1>3. CASE Overlap
  <2>1. quiet' => main.phase = "none" /\ main.pc = "idle" /\ quiet
    BY <1>3 DEF Overlap, Handling
  <2>2. ~quiet' => ~quiet \/ main.phase # "none" BY <1>3 DEF Overlap
  <2>3. NoneLeftProcessing'
    <3> SUFFICES ASSUME NEW p \in DOMAIN headers', headers'[p].state = "PROCESSING"
                 PROVE  BeingMoved(p)' \/ (main'.exiting /\ ~quiet')
      BY DEF NoneLeftProcessing
    <3>1. BeingMoved(p) \/ (main.exiting /\ ~quiet)
      BY <1>1 DEF Handling, NoneLeftProcessing
    <3> QED BY <1>0, <1>1, <2>1, <3>1 DEF BeingMoved
  <2>4. LeftClean' BY <1>1, <2>1 DEF LeftClean
  <2>5. KeysCopied' BY <1>1, <2>1 DEF KeysCopied
  <2> QED BY <1>1, <1>2, <2>1, <2>3, <2>4, <2>5 DEF Handling
<1>4. CASE /\ quiet' = quiet /\ (BetweenOperations => BetweenOperations')
           /\ DOMAIN headers' = DOMAIN headers
           /\ \A p \in DOMAIN headers :
                headers'[p].state = headers[p].state /\ KeysOf(p)' = KeysOf(p)
  <2>1. NoneLeftProcessing'
    BY <1>1, <1>4 DEF Handling, NoneLeftProcessing, BeingMoved
  <2>2. LeftClean' BY <1>1, <1>4 DEF Handling, LeftClean
  <2>3. KeysCopied'
    <3> SUFFICES ASSUME quiet', NEW p \in 1 .. main.page,
                        \/ main.pc = "keys" /\ p \in 1 .. main.page - 1
                        \/ main.pc = "list"
                 PROVE  file'.headers[p] = KeysOf(p)'
      BY <1>0, <1>1 DEF KeysCopied
    <3>1. p <= Len(headers)
      <4>1. CASE main.pc = "keys"
        <5>1. p \in 1 .. main.page - 1 BY <4>1
        <5> QED BY <1>0, <4>1, <5>1 DEF Handling
      <4>2. CASE main.pc = "list" BY <1>0, <4>2 DEF Handling
      <4> QED BY <4>1, <4>2
    <3>2. p \in DOMAIN headers BY <1>0, <3>1
    <3> QED BY <1>1, <1>4, <3>2 DEF Handling, KeysCopied
  <2> QED BY <1>1, <1>2, <1>4, <2>1, <2>2, <2>3 DEF Handling
<1> QED BY <1>3, <1>4, WorkerFrame

(* A signal arrives. *)
LEMMA SignalHandling ==
    ASSUME Inv, Inv', MainRests, Handling, snapshot_handler \/ shutdown_handler
    PROVE  Handling'
<1>0. main \in Handler /\ headers \in Seq(Header) BY DEF Inv, TypeOK
<1>1. /\ main'.pc = "scan" /\ main'.phase = "snapshot" /\ main'.page = 1
      /\ headers' = headers /\ worker' = worker
  BY DEF snapshot_handler, shutdown_handler, arenaVars
<1>2. NoneLeftProcessing'
  <2> SUFFICES ASSUME NEW p \in DOMAIN headers, headers[p].state = "PROCESSING"
               PROVE  main'.exiting /\ ~quiet'
    BY <1>1 DEF NoneLeftProcessing
  <2>1. (main.pc = "defrag" /\ main.page = p) \/ (main.exiting /\ ~quiet)
    BY DEF Handling, NoneLeftProcessing, BeingMoved
  <2>2. CASE snapshot_handler
    <3>1. main = MainIdle BY <2>2 DEF snapshot_handler, MainRests
    <3> QED BY <2>1, <3>1 DEF MainIdle
  <2>3. CASE shutdown_handler BY <2>1, <2>3 DEF shutdown_handler
  <2> QED BY <2>2, <2>3
<1>3. LeftClean'
  <2>1. \A p \in DOMAIN headers : ~(p < 1) BY <1>0
  <2> QED BY <1>1, <2>1 DEF LeftClean
<1>4. quiet' => BetweenOperations BY Zenon DEF snapshot_handler, shutdown_handler
<1>5. BetweenOperations => BetweenOperations' BY <1>1 DEF BetweenOperations
<1> QED BY <1>1, <1>2, <1>3, <1>4, <1>5 DEF Handling, KeysCopied

(* The walk over the headers. *)
LEMMA WalkHandling ==
    ASSUME Inv, Inv', Handling, SkipPage \/ SeekPage \/ BeginKeys PROVE Handling'
<1>0. /\ main \in Handler /\ headers \in Seq(Header) /\ main.page \in Nat
      /\ DOMAIN headers = 1 .. Len(headers) /\ Len(headers) \in Nat
  BY DEF Inv, TypeOK, Handler
<1>1. UNCHANGED <<headers, worker, quiet, file>>
  BY DEF SkipPage, SeekPage, BeginKeys, arenaVars, history
<1>2. main'.phase = main.phase /\ main'.exiting = main.exiting /\ main.pc # "idle"
  BY <1>0 DEF SkipPage, SeekPage, BeginKeys, Handler
<1>3. NoneLeftProcessing'
  <2>1. \A p : ~BeingMoved(p) BY DEF BeingMoved, SkipPage, SeekPage, BeginKeys
  <2> QED BY <1>1, <1>2, <2>1 DEF Handling, NoneLeftProcessing
<1>4. CASE SkipPage
  <2>1. main.pc = "scan" /\ main.page \in DOMAIN headers /\ headers[main.page].state # "DIRTY"
    BY <1>0, <1>4 DEF SkipPage, Inv, MainOnPage
  <2>2. main'.pc = "scan" /\ main'.page = main.page + 1 BY <1>0, <1>4 DEF SkipPage, Handler
  <2>3. quiet => headers[main.page].state = "CLEAN"
    <3>1. headers[main.page].state \in {"DIRTY", "CLEAN", "PROCESSING"}
      BY <2>1, HeaderAt DEF Header, Inv
    <3>2. quiet => headers[main.page].state # "PROCESSING"
      BY <2>1 DEF Handling, NoneLeftProcessing, BeingMoved
    <3> QED BY <2>1, <3>1, <3>2
  <2>4. \A p \in DOMAIN headers : p < main'.page => p < main.page \/ p = main.page
    BY <1>0, <2>2
  <2>5. LeftClean' BY <1>1, <1>2, <2>1, <2>2, <2>3, <2>4 DEF Handling, LeftClean
  <2> QED BY <1>1, <1>2, <1>3, <2>2, <2>5 DEF Handling, KeysCopied, BetweenOperations
<1>5. CASE SeekPage
  <2>1. main.pc = "seek" /\ main'.pc = "write" /\ main'.page = main.page
    BY <1>0, <1>5 DEF SeekPage, Handler
  <2>2. LeftClean' BY <1>1, <1>2, <2>1 DEF Handling, LeftClean
  <2> QED BY <1>1, <1>2, <1>3, <2>1, <2>2 DEF Handling, KeysCopied, BetweenOperations
<1>6. CASE BeginKeys
  <2>1. /\ main.pc = "scan" /\ main'.pc = "keys" /\ main'.page = 1 /\ main.phase = "snapshot"
        /\ main.page > Len(headers)
    BY <1>0, <1>6 DEF BeginKeys, Handler
  <2>2. \A p \in DOMAIN headers : p < main.page BY <1>0, <2>1
  <2>3. LeftClean' BY <1>1, <1>2, <2>1, <2>2 DEF Handling, LeftClean
  <2>4. main'.page <= Len(headers') + 1 BY <1>0, <1>1, <2>1
  <2>5. KeysCopied' BY <2>1 DEF KeysCopied
  <2> QED BY <1>1, <1>2, <1>3, <2>1, <2>3, <2>4, <2>5 DEF Handling, BetweenOperations
<1> QED BY <1>4, <1>5, <1>6

(* A page is dumped: the pages before it stay as they are. *)
LEMMA DumpHandling ==
    ASSUME Inv, Inv', Handling, main.pc \in {"scan", "defrag", "write", "clean"},
           main'.pc \in {"scan", "defrag", "seek", "clean"},
           main'.phase = main.phase, main'.exiting = main.exiting,
           main.page \in DOMAIN headers, DOMAIN headers' = DOMAIN headers,
           \A q \in DOMAIN headers : q # main.page => headers'[q].state = headers[q].state,
           \/ main'.page = main.page
           \/ main'.page = main.page + 1 /\
                (main.phase = "snapshot" => headers'[main.page].state = "CLEAN"),
           headers'[main.page].state = "PROCESSING" =>
               \/ main'.pc = "defrag" /\ main'.page = main.page
               \/ headers[main.page].state = "PROCESSING" /\ main.pc # "defrag",
           quiet' = quiet, worker'.pc = worker.pc
    PROVE  Handling'
<1>0. /\ main \in Handler /\ headers \in Seq(Header) /\ main.page \in Nat
      /\ DOMAIN headers = 1 .. Len(headers) /\ Len(headers) \in Nat
  BY DEF Inv, TypeOK, Handler
<1>1. NoneLeftProcessing'
  <2> SUFFICES ASSUME NEW p \in DOMAIN headers, headers'[p].state = "PROCESSING"
               PROVE  (main'.pc = "defrag" /\ main'.page = p) \/ (main.exiting /\ ~quiet)
    BY DEF NoneLeftProcessing, BeingMoved
  <2>1. CASE p = main.page BY <2>1 DEF Handling, NoneLeftProcessing, BeingMoved
  <2>2. CASE p # main.page BY <2>2 DEF Handling, NoneLeftProcessing, BeingMoved
  <2> QED BY <2>1, <2>2
<1>2. LeftClean'
  <2> SUFFICES ASSUME quiet, main.phase = "snapshot", NEW p \in DOMAIN headers, p < main'.page
               PROVE  headers'[p].state = "CLEAN"
    BY DEF LeftClean
  <2>1. p < main.page \/ (p = main.page /\ main'.page = main.page + 1) BY <1>0
  <2>2. CASE p < main.page
    <3>1. p # main.page BY <1>0, <2>2
    <3> QED BY <2>2, <3>1 DEF Handling, LeftClean
  <2>3. CASE p = main.page /\ main'.page = main.page + 1
    <3>1. main'.page # main.page BY <1>0, <2>3
    <3> QED BY <2>3, <3>1
  <2> QED BY <2>1, <2>2, <2>3
<1> QED BY <1>1, <1>2 DEF Handling, KeysCopied, BetweenOperations

(* The five steps of a dump. *)
LEMMA DumpStepHandling ==
    ASSUME Inv, Inv', Settled, Handling,
           \/ BeginDump \/ DefragBlock("main") \/ (DefragDone("main") /\ status' = "up")
           \/ WriteDirtyPage \/ EndDump
    PROVE  Handling'
<1>0. TypeOK /\ main \in Handler BY DEF Inv, TypeOK
<1>1. CASE BeginDump
  <2>1. /\ main.page \in DOMAIN headers
        /\ \A q \in DOMAIN headers : q # main.page => headers'[q] = headers[q]
        /\ main' = [main EXCEPT !.pc = "defrag"] /\ worker' = worker /\ quiet' = quiet
        /\ DOMAIN headers' = DOMAIN headers
    BY <1>1, BeginDumpAlike DEF StoredAlike
  <2>2. main.pc = "scan" BY <1>1 DEF BeginDump
  <2>3. /\ main'.pc = "defrag" /\ main'.page = main.page
        /\ main'.phase = main.phase /\ main'.exiting = main.exiting
    BY <1>0, <2>1 DEF Handler
  <2> QED BY <2>1, <2>2, <2>3, DumpHandling
<1>2. CASE DefragBlock("main")
  <2>1. /\ main.pc = "defrag" /\ worker' = LetGo("main", main.page) /\ UNCHANGED <<main, quiet>>
    BY <1>2, BlockEffect
  <2>2. PICK p \in DOMAIN headers :
          /\ p = main.page /\ DOMAIN headers' = DOMAIN headers
          /\ headers'[p].state = headers[p].state
          /\ \A q \in DOMAIN headers : q # p => headers'[q] = headers[q]
    BY <1>2, BlockEffect
  <2>3. worker'.pc = worker.pc BY <1>0, <2>1, LetGoFields
  <2> QED BY <2>1, <2>2, <2>3, DumpHandling
<1>3. CASE DefragDone("main") /\ status' = "up"
  <2>1. /\ main.pc = "defrag" /\ worker' = LetGo("main", main.page)
        /\ main' = [main EXCEPT !.pc = "seek"] /\ quiet' = quiet
    BY <1>3, DoneEffect DEF history
  <2>2. PICK p \in DOMAIN headers :
          /\ p = main.page /\ DOMAIN headers' = DOMAIN headers
          /\ headers'[p].state = "DIRTY"
          /\ \A q \in DOMAIN headers : q # p => headers'[q] = headers[q]
    BY <1>3, DoneEffect
  <2>3. worker'.pc = worker.pc BY <1>0, <2>1, LetGoFields
  <2>4. /\ main'.pc = "seek" /\ main'.page = main.page
        /\ main'.phase = main.phase /\ main'.exiting = main.exiting
    BY <1>0, <2>1 DEF Handler
  <2> QED BY <2>1, <2>2, <2>3, <2>4, DumpHandling
<1>4. CASE WriteDirtyPage
  <2>1. /\ main.pc = "write" /\ main' = [main EXCEPT !.pc = "clean"]
        /\ UNCHANGED <<headers, worker, quiet>>
    BY <1>4 DEF WriteDirtyPage, arenaVars
  <2>2. /\ main'.pc = "clean" /\ main'.page = main.page
        /\ main'.phase = main.phase /\ main'.exiting = main.exiting
    BY <1>0, <2>1 DEF Handler
  <2>3. main.page \in DOMAIN headers BY <2>1 DEF Inv, MainOnPage
  <2> QED BY <2>1, <2>2, <2>3, DumpHandling
<1>5. CASE EndDump
  <2>1. /\ main.page \in DOMAIN headers
        /\ main.phase = "snapshot" => headers'[main.page].state = "CLEAN"
        /\ main.phase # "snapshot" => headers' = headers
        /\ \A q \in DOMAIN headers : q # main.page => headers'[q] = headers[q]
        /\ main' = [main EXCEPT !.pc = "scan", !.page = main.page + 1]
        /\ UNCHANGED <<worker, quiet>> /\ DOMAIN headers' = DOMAIN headers
    BY <1>5, EndDumpAlike DEF StoredAlike
  <2>2. main.pc = "clean" BY <1>5 DEF EndDump
  <2>3. /\ main'.pc = "scan" /\ main'.page = main.page + 1
        /\ main'.phase = main.phase /\ main'.exiting = main.exiting
    BY <1>0, <2>1 DEF Handler
  <2>4. headers'[main.page].state = "PROCESSING" => headers[main.page].state = "PROCESSING"
    BY <2>1
  <2> QED BY <2>1, <2>2, <2>3, <2>4, DumpHandling
<1> QED BY <1>1, <1>2, <1>3, <1>4, <1>5

(* What disk_dump_keys has written after the number of keys of a header. *)
LEMMA DumpHeaderEffect ==
    ASSUME Inv, DumpHeader
    PROVE  /\ main.pc = "keys" /\ main.page \in DOMAIN headers
           /\ main' = [main EXCEPT !.pc = "list"] /\ saved' = Unsaved
           /\ file'.headers = [p \in 1 .. main.page |->
                    IF p < main.page THEN file.headers[p] ELSE KeysOf(main.page)]
<1>1. /\ main.pc = "keys" /\ main.page <= Len(headers) /\ saved' = Unsaved
      /\ main' = [main EXCEPT !.pc = "list"]
  BY DEF DumpHeader
<1>2. main.page \in DOMAIN headers
  <2>1. main.page \in Nat /\ main.page # 0 /\ headers \in Seq(Header)
    BY <1>1 DEF Inv, TypeOK, Handler, KeyFileFits
  <2> QED BY <1>1, <2>1
<1>3. file \in File BY DEF Inv, TypeOK
<1>4. file'.headers = [p \in 1 .. main.page |->
               IF p < main.page THEN file.headers[p] ELSE KeysOf(main.page)]
  BY <1>3 DEF DumpHeader, File, KeysOf
<1> QED BY <1>1, <1>2, <1>4

(* What it has written after the keys. *)
LEMMA DumpKeysEffect ==
    ASSUME Inv, DumpKeys, status' = "up"
    PROVE  /\ main.pc = "list" /\ main.page \in DOMAIN headers
           /\ main' = [main EXCEPT !.pc = "keys", !.page = main.page + 1]
           /\ saved' = Unsaved
           /\ file'.headers =
                  [file.headers EXCEPT ![main.page].keys = headers[main.page].keys]
           /\ main.page \in DOMAIN file.headers
<1>1. ~Die("SIGSEGV") BY DEF Die
<1>2. /\ main.pc = "list" /\ saved' = Unsaved
      /\ main' = [main EXCEPT !.pc = "keys", !.page = main.page + 1]
      /\ (\E s : file' = KeysListed(s))
  BY <1>1 DEF DumpKeys
<1>3. main.page \in DOMAIN headers /\ main.page \in DOMAIN file.headers
  BY <1>2 DEF Inv, MainOnPage, KeyFileFits
<1>4. file'.headers = [file.headers EXCEPT ![main.page].keys = headers[main.page].keys]
  <2>1. file \in File BY DEF Inv, TypeOK
  <2> QED BY <1>2, <2>1 DEF KeysListed, File
<1> QED BY <1>2, <1>3, <1>4

(* disk_dump_keys. *)
LEMMA KeysHandling ==
    ASSUME Inv, Inv', MainRests, Handling, DumpHeader \/ (DumpKeys /\ status' = "up") \/ EndKeys
    PROVE  Handling'
<1>0. /\ main \in Handler /\ headers \in Seq(Header) /\ main.page \in Nat
      /\ DOMAIN headers = 1 .. Len(headers) /\ Len(headers) \in Nat
  BY DEF Inv, TypeOK, Handler
<1>1. UNCHANGED <<headers, worker, quiet>> BY KeysAlike
<1>2. main.pc \in {"keys", "list"} BY DEF DumpHeader, DumpKeys, EndKeys
<1>3. CASE DumpHeader
  <2>1. /\ main.pc = "keys" /\ main.page \in DOMAIN headers
        /\ main' = [main EXCEPT !.pc = "list"]
        /\ file'.headers = [p \in 1 .. main.page |->
                    IF p < main.page THEN file.headers[p] ELSE KeysOf(main.page)]
    BY <1>3, DumpHeaderEffect
  <2>2. /\ main'.pc = "list" /\ main'.page = main.page
        /\ main'.phase = main.phase /\ main'.exiting = main.exiting
    BY <1>0, <2>1 DEF Handler
  <2>3. NoneLeftProcessing'
    BY <1>1, <1>2, <2>2 DEF Handling, NoneLeftProcessing, BeingMoved
  <2>4. LeftClean' BY <1>1, <1>2, <2>2 DEF Handling, LeftClean
  <2>5. KeysCopied'
    <3> SUFFICES ASSUME quiet, NEW p \in 1 .. main.page
                 PROVE  file'.headers[p] = KeysOf(p)'
      BY <1>1, <2>2 DEF KeysCopied
    <3>1. (p < main.page => p \in 1 .. main.page - 1) /\ (~(p < main.page) => p = main.page)
      BY <1>0
    <3>2. KeysOf(p)' = KeysOf(p) BY <1>1 DEF KeysOf
    <3>3. CASE p < main.page
      <4>1. file.headers[p] = KeysOf(p) BY <2>1, <3>1, <3>3 DEF Handling, KeysCopied
      <4> QED BY <2>1, <3>1, <3>2, <3>3, <4>1
    <3>4. CASE ~(p < main.page)
      <4>1. file'.headers[p] = KeysOf(main.page) BY <2>1, <3>1, <3>4
      <4> QED BY <3>1, <3>2, <3>4, <4>1
    <3> QED BY <3>3, <3>4
  <2>6. main'.page <= Len(headers') BY <1>0, <1>1, <2>1, <2>2
  <2>7. main.phase = "snapshot" BY <2>1 DEF Handling
  <2> QED BY <1>1, <1>2, <2>2, <2>3, <2>4, <2>5, <2>6, <2>7 DEF Handling, BetweenOperations
<1>5. CASE DumpKeys /\ status' = "up"
  <2>1. /\ main.pc = "list" /\ main.page \in DOMAIN headers
        /\ main' = [main EXCEPT !.pc = "keys", !.page = main.page + 1]
        /\ file'.headers = [file.headers EXCEPT ![main.page].keys = headers[main.page].keys]
        /\ main.page \in DOMAIN file.headers
    BY <1>5, DumpKeysEffect
  <2>2. /\ main'.pc = "keys" /\ main'.page = main.page + 1
        /\ main'.phase = main.phase /\ main'.exiting = main.exiting
    BY <1>0, <2>1 DEF Handler
  <2>3. NoneLeftProcessing'
    BY <1>1, <1>2, <2>2 DEF Handling, NoneLeftProcessing, BeingMoved
  <2>4. LeftClean' BY <1>1, <1>2, <2>2 DEF Handling, LeftClean
  <2>5. KeysCopied'
    <3> SUFFICES ASSUME quiet, NEW p \in 1 .. main.page
                 PROVE  file'.headers[p] = KeysOf(p)'
      BY <1>0, <1>1, <2>2 DEF KeysCopied
    <3>1. file.headers[p] = KeysOf(p) BY <2>1 DEF Handling, KeysCopied
    <3>2. KeysOf(p)' = KeysOf(p) BY <1>1 DEF KeysOf
    <3>3. CASE p # main.page BY <2>1, <3>1, <3>2, <3>3
    <3>4. CASE p = main.page
      <4>1. file'.headers[p] = [file.headers[p] EXCEPT !.keys = headers[p].keys]
        BY <2>1, <3>4
      <4> QED BY <3>1, <3>2, <4>1 DEF KeysOf
    <3> QED BY <3>3, <3>4
  <2>6. main'.page <= Len(headers') + 1 BY <1>0, <1>1, <2>1, <2>2
  <2>7. main.phase = "snapshot" BY <2>1 DEF Handling
  <2> QED BY <1>1, <1>2, <2>2, <2>3, <2>4, <2>5, <2>6, <2>7 DEF Handling, BetweenOperations
<1>4. CASE EndKeys
  <2>1. /\ main' = IF main.exiting
               THEN [main EXCEPT !.pc = "scan", !.phase = "destroy", !.page = 1]
               ELSE MainIdle
    BY <1>4 DEF EndKeys
  <2>2. \/ main'.pc = "scan" /\ main'.phase = "destroy" /\ main'.exiting /\ main.exiting
        \/ main'.pc = "idle" /\ main'.phase = "none" /\ ~main.exiting
    BY <1>0, <2>1 DEF MainIdle, Handler
  <2>3. NoneLeftProcessing'
    BY <1>1, <1>2, <2>2 DEF Handling, NoneLeftProcessing, BeingMoved
  <2>4. main.phase = "snapshot" BY <1>2 DEF Handling
  <2> QED BY <1>1, <1>2, <2>2, <2>3, <2>4
          DEF Handling, BetweenOperations, LeftClean, KeysCopied
<1> QED BY <1>3, <1>4, <1>5

(* The step of either thread. *)
LEMMA HandlingStep ==
    ASSUME Inv, Inv', Sound, HandlersTidy, [Next]_vars, ~db_start PROVE HandlersTidy'
<1>0. TypeOK /\ main \in Handler BY DEF Inv, TypeOK
<1>1. MainRests'
  <2>1. CASE main' = main \/ main' = MainIdle \/ main'.pc # "idle"
    <3>1. main = MainIdle => main' = MainIdle \/ main'.pc # "idle" BY <2>1
    <3> QED BY <2>1 DEF MainRests, HandlersTidy
  <2>2. CASE Ends BY <2>1, <2>2 DEF Ends, Nothing
  <2>3. CASE WorkerActs \/ \E k \in Key, v \in Value : insert_defragmentates(k, v)
    <3>1. main' = main
      BY <2>3, AnswersAlike, InsertKeyAlike, NoStepAlike, DeleteAlike, SelectEffect, UnsetEffect
         DEF WorkerActs, SetStep, insert_defragmentates
    <3> QED BY <2>1, <3>1
  <2>4. CASE Walks BY <2>1, <2>4, WalksPc
  <2>5. CASE BeginDump \/ EndDump \/ WriteDirtyPage
    BY <1>0, <2>1, <2>5 DEF BeginDump, EndDump, WriteDirtyPage, Handler
  <2>6. CASE DumpHeader \/ (DumpKeys /\ status' = "up")
    <3>1. main'.pc \in {"keys", "list"}
      BY <1>0, <2>6, DumpHeaderEffect, DumpKeysEffect DEF Handler
    <3> QED BY <2>1, <3>1
  <2>7. CASE EndKeys BY <1>0, <2>1, <2>7 DEF EndKeys, Handler
  <2>8. ASSUME NEW t \in Thread, DefragBlock(t) PROVE main' = main BY <2>8 DEF DefragBlock
  <2>9. ASSUME NEW t \in Thread, DefragDone(t), status' = "up"
        PROVE  main' = main \/ main'.pc # "idle"
    <3>1. ~Die("SIGSEGV") BY <2>9 DEF Die
    <3>2. main' = main \/ main' = [main EXCEPT !.pc = "seek"] BY <2>9, <3>1 DEF DefragDone
    <3> QED BY <1>0, <3>2 DEF Handler
  <2> QED BY <2>1, <2>2, <2>3, <2>4, <2>5, <2>6, <2>7, <2>8, <2>9, StepCases
          DEF Step, WorkerActs
<1>2. ASSUME damage' = {} PROVE Handling'
  <2>1. damage = {} /\ Unharmed /\ Unharmed' BY <1>2, DamageGrows DEF Unharmed
  <2>2. Settled /\ Handling /\ MainRests BY <2>1 DEF Sound, HandlersTidy
  <2>3. CASE Ends
    BY <2>3 DEF Ends, Nothing, MainIdle, Handling, NoneLeftProcessing, LeftClean, KeysCopied
  <2>4. CASE WorkerActs BY <2>1, <2>2, <2>4, WorkerHandling
  <2>5. CASE Walks BY <2>2, <2>5, SignalHandling, WalkHandling DEF Walks
  <2>6. ASSUME NEW k \in Key, NEW v \in Value, insert_defragmentates(k, v) PROVE FALSE
    BY <2>2, <2>6, WorkerMovesNothing
  <2>7. ASSUME NEW t \in Thread, DefragBlock(t) \/ (DefragDone(t) /\ status' = "up")
        PROVE  Handling'
    <3>1. t = "main" BY <2>2, <2>7, WorkerDefragsNot DEF DefragBlock, DefragDone
    <3> QED BY <2>2, <2>7, <3>1, DumpStepHandling
  <2>8. CASE BeginDump \/ EndDump \/ WriteDirtyPage BY <2>2, <2>8, DumpStepHandling
  <2>9. CASE DumpHeader \/ (DumpKeys /\ status' = "up") \/ EndKeys
    BY <2>2, <2>9, KeysHandling
  <2> QED BY <2>3, <2>4, <2>5, <2>6, <2>7, <2>8, <2>9, StepCases DEF Step, WorkerActs
<1> QED BY <1>1, <1>2 DEF HandlersTidy
-----------------------------------------------------------------------------
(***************************************************************************)
(* The files of a completed snapshot.                                      *)
(***************************************************************************)

(* Page p of the files holds the contents c, laid out as its header says. *)
FilePageHolds(p, c) ==
    /\ file.headers[p].offset_bytes <= PAGE_SIZE
    /\ Laid(Records(file.headers[p].keys, c), file.headers[p].offset_bytes, 0)
    /\ Intact(file.pages[p], 0, Records(file.headers[p].keys, c))

(* What a start reads back is what the snapshot recorded. *)
SavedGood ==
    saved.ok /\ file.state = "whole" =>
        /\ \A k \in Key : k \notin LoadedKeys => saved.kv[k] = None
        /\ \A p \in 1 .. LoadedPages : FilePageHolds(p, saved.kv)

(* The copy in the files stays, or is given up. *)
LEMMA SavedOrNot ==
    ASSUME Inv, [Next]_vars, ~EndKeys
    PROVE  \/ saved' = Unsaved
           \/ /\ saved' = saved /\ file'.pages = file.pages /\ file'.headers = file.headers
              /\ file'.state = "whole" => file.state = "whole"
<1>0. TypeOK /\ file \in File BY DEF Inv, TypeOK
<1>1. CASE Ends BY <1>1 DEF Ends, history
<1>2. CASE \/ Answers \/ Walks \/ insert_key \/ BeginDump \/ EndDump \/ db_start_fails
           \/ UNCHANGED vars \/ \E k \in Key : operation_delete(k)
  BY <1>2, AnswersAlike, WalksAlike, InsertKeyAlike, BeginDumpAlike, EndDumpAlike, NoStepAlike,
     DeleteAlike
<1>3. CASE DumpHeader \/ (DumpKeys /\ status' = "up")
  BY <1>3, DumpHeaderEffect, DumpKeysEffect
<1>4. ASSUME NEW k \in Key, NEW v \in Value, insert_defragmentates(k, v)
      PROVE  saved' = saved /\ file' = file
  BY <1>4 DEF insert_defragmentates
<1>5. ASSUME NEW p \in DOMAIN headers, NEW slot \in Slot, NEW harm, Warm(p, slot, harm)
      PROVE  saved' = Unsaved \/ (saved' = saved /\ file' = file)
  BY <1>0, <1>5, WarmEffect
<1>6. ASSUME NEW k \in Key, operation_select(k)
      PROVE  saved' = Unsaved \/ (saved' = saved /\ file' = file)
  BY <1>5, <1>6, SelectEffect
<1>7. CASE page_value_unset BY <1>5, <1>7, UnsetEffect
<1>8. ASSUME NEW p, NEW h, NEW k \in Key, NEW v \in Value, SetStep(p, h, k, v)
      PROVE  saved' = Unsaved \/ (saved' = saved /\ file' = file)
  BY <1>0, <1>8, SlotEffect DEF SetStep
<1>9. ASSUME NEW t \in Thread, DefragBlock(t) PROVE saved' = saved /\ file' = file
  BY <1>9 DEF DefragBlock
<1>10. ASSUME NEW t \in Thread, DefragDone(t), status' = "up"
       PROVE  saved' = saved /\ file' = file
  <2>1. ~Die("SIGSEGV") BY <1>10 DEF Die
  <2> QED BY <1>10, <2>1 DEF DefragDone, history
<1>11. CASE WriteDirtyPage BY <1>11 DEF WriteDirtyPage
<1>12. CASE db_start BY <1>12 DEF db_start
<1> QED BY <1>1, <1>2, <1>3, <1>4, <1>6, <1>7, <1>8, <1>9, <1>10, <1>11, <1>12, StepCases
        DEF Step

(* disk_dump_keys of a quiet snapshot of an undamaged process completes    *)
(* the files: every page is clean, so its values are in db.snap where the  *)
(* key file now says.                                                      *)
LEMMA SnapshotComplete ==
    ASSUME Inv, Inv', OnlyIndexed, Settled, CleanDumped, Handling, quiet, EndKeys,
           saved' = Saved(kv)
    PROVE  SavedGood'
<1> DEFINE n == Len(headers)
<1>0. /\ headers \in Seq(Header) /\ n \in Nat /\ DOMAIN headers = 1 .. n
      /\ main \in Handler /\ main.page \in Nat /\ file \in File /\ file.pages \in Seq(Memory)
      /\ Len(file.pages) \in Nat /\ DOMAIN file.pages = 1 .. Len(file.pages)
  BY FileFields DEF Inv, TypeOK, Handler
<1>1. /\ status = "up" /\ main.pc = "keys" /\ main.page > n
      /\ file'.pages = file.pages
      /\ file'.headers = [p \in 1 .. n |-> file.headers[p]]
  BY <1>0 DEF EndKeys, MainLives, File
<1>2. main.page = n + 1 /\ main.phase = "snapshot" BY <1>0, <1>1 DEF Handling
<1>3. Kept = kv
  <2>1. BetweenOperations BY <1>2 DEF Handling
  <2> QED BY <2>1, KeptIdle DEF BetweenOperations
<1>4. \A p \in 1 .. n : file'.headers[p] = KeysOf(p)
  <2>1. \A p \in 1 .. main.page - 1 : file.headers[p] = KeysOf(p)
    BY <1>1 DEF Handling, KeysCopied
  <2> QED BY <1>0, <1>1, <1>2, <2>1
<1>5. \A p \in 1 .. n : p \in DOMAIN file.pages /\ Intact(file.pages[p], 0, PageRecords(p))
  <2>1. \A p \in 1 .. n : headers[p].state = "CLEAN"
    BY <1>0, <1>1, <1>2 DEF Handling, LeftClean
  <2> QED BY <1>0, <2>1 DEF CleanDumped, Dumped
<1>6. LoadedPages' = n
  <2>1. n <= Len(file.pages)
    <3>1. CASE n = 0 BY <1>0, <3>1
    <3>2. CASE n # 0
      <4>1. n \in DOMAIN file.pages BY <1>0, <1>5, <3>2
      <4> QED BY <1>0, <4>1
    <3> QED BY <3>1, <3>2
  <2>2. Len(file'.headers) = n BY <1>0, <1>1
  <2>3. LoadedPages' = IF Len(file.pages) < n THEN Len(file.pages) ELSE n
    BY <1>1, <2>2 DEF LoadedPages
  <2> HIDE DEF n
  <2> QED BY <1>0, <2>1, <2>3
<1>7. saved'.kv = kv BY DEF Saved
<1>8. ASSUME NEW p \in 1 .. n PROVE FilePageHolds(p, saved.kv)'
  <2>1. PageSound(p) BY <1>0 DEF Settled
  <2>2. /\ headers[p].offset_bytes \in Nat /\ headers[p].fragmentated_bytes \in Nat
    BY <1>0, PageFacts
  <2>3. /\ headers[p].offset_bytes <= PAGE_SIZE
        /\ Laid(PageRecords(p), headers[p].offset_bytes, 0)
    BY <2>1, <2>2, LaidLess DEF PageSound
  <2>4. /\ file'.headers[p].offset_bytes = headers[p].offset_bytes
        /\ file'.headers[p].keys = headers[p].keys
    <3>1. file'.headers[p] = KeysOf(p) BY <1>4
    <3> HIDE DEF n
    <3> QED BY <3>1 DEF KeysOf
  <2>5. Records(file'.headers[p].keys, saved'.kv) = PageRecords(p)
    BY <1>3, <1>7, <2>4 DEF PageRecords
  <2> QED BY <1>1, <1>5, <2>3, <2>4, <2>5 DEF FilePageHolds
<1>9. ASSUME NEW k \in Key, k \notin LoadedKeys' PROVE saved'.kv[k] = None
  <2>1. CASE hashmap[k] # NoMeta
    <3>1. PICK p \in 1 .. n, i \in DOMAIN headers[hashmap[k].page].keys :
            p = hashmap[k].page /\ headers[p].keys[i].key = k
      BY <1>0, <2>1, Found
    <3>2. file'.headers[p].keys = headers[p].keys
      <4>1. file'.headers[p] = KeysOf(p) BY <1>4
      <4> HIDE DEF n
      <4> QED BY <4>1 DEF KeysOf
    <3>3. k \in LoadedKeys' BY <1>6, <3>1, <3>2 DEF LoadedKeys
    <3> QED BY <1>9, <3>3
  <2>2. CASE hashmap[k] = NoMeta BY <1>1, <1>7, <2>2 DEF OnlyIndexed
  <2> QED BY <2>1, <2>2
<1> HIDE DEF n
<1> QED BY <1>6, <1>8, <1>9 DEF SavedGood

(* Nothing else than the end of such a snapshot makes a copy. *)
LEMMA SavedStep ==
    ASSUME Inv, Inv', OnlyIndexed, Sound, CleanKept, HandlersTidy, SavedGood, [Next]_vars
    PROVE  SavedGood'
<1>1. CASE saved' = Unsaved BY <1>1 DEF SavedGood, Unsaved
<1>2. CASE /\ saved' = saved /\ file'.pages = file.pages /\ file'.headers = file.headers
           /\ file'.state = "whole" => file.state = "whole"
  <2>1. LoadedPages' = LoadedPages BY <1>2 DEF LoadedPages
  <2>2. LoadedKeys' = LoadedKeys BY <1>2, <2>1 DEF LoadedKeys
  <2>3. \A p : FilePageHolds(p, saved.kv)' <=> FilePageHolds(p, saved.kv)
    BY <1>2 DEF FilePageHolds
  <2> QED BY <1>2, <2>1, <2>2, <2>3 DEF SavedGood
<1>3. CASE EndKeys
  <2>1. CASE quiet /\ damage = {}
    <3>1. saved' = Saved(kv) BY <1>3, <2>1 DEF EndKeys
    <3>2. Settled /\ CleanDumped /\ Handling
      BY <2>1 DEF Sound, Unharmed, CleanKept, HandlersTidy
    <3> QED BY <1>3, <2>1, <3>1, <3>2, SnapshotComplete
  <2>2. CASE ~(quiet /\ damage = {})
    <3>1. saved' = Unsaved BY <1>3, <2>2 DEF EndKeys
    <3> QED BY <1>1, <3>1
  <2> QED BY <2>1, <2>2
<1> QED BY <1>1, <1>2, <1>3, SavedOrNot

(* The copy is read back as it was recorded. *)
LEMMA Recovered ==
    ASSUME Inv, BytesOnce, SavedGood, saved.ok, file.state = "whole", NEW k \in Key
    PROVE  Decoded(k) = saved.kv[k]
<1>1. CASE k \notin LoadedKeys BY <1>1 DEF SavedGood, Decoded
<1>2. CASE k \in LoadedKeys
  <2>1. PICK p \in 1 .. LoadedPages, i \in Nat :
          /\ i \in DOMAIN file.headers[p].keys /\ LoadedMeta(k) = [page |-> p, id |-> i]
          /\ file.headers[p].keys[i].key = k
    BY <1>2, LoadedMetaFound
  <2> DEFINE keys == file.headers[p].keys
             c == saved.kv
  <2>2. Decoded(k) = ReadAt(file.pages[p], keys[i].offset) BY <1>2, <2>1 DEF Decoded
  <2>3. Intact(file.pages[p], 0, Records(keys, c)) BY DEF SavedGood, FilePageHolds
  <2>4. i \in DOMAIN keys /\ keys[i].key = k BY <2>1
  <2>5. p \in DOMAIN file.pages /\ keys[i].offset \in Nat
    <3>1. keys \in Seq(HeaderKey) BY FileHeader
    <3>2. keys[i] \in HeaderKey BY <2>4, <3>1
    <3> QED BY <3>2, LoadedPagesType DEF HeaderKey
  <2> HIDE DEF keys, c
  <2>6. [addr |-> 0 + keys[i].offset, val |-> c[k]] \in file.pages[p]
    BY <2>3, <2>4 DEF Intact, Records
  <2>7. 0 + keys[i].offset = keys[i].offset BY <2>5
  <2>8. Unique(file.pages[p]) BY <2>5 DEF BytesOnce
  <2>9. ReadAt(file.pages[p], keys[i].offset) = c[k] BY <2>6, <2>7, <2>8, ReadIntact
  <2> QED BY <2>2, <2>9 DEF c
<1> QED BY <1>1, <1>2

(* A start from such a copy begins with sound pages. *)
LEMMA StartSound ==
    ASSUME Inv, Inv', BytesOnce, SavedGood, MainRests, db_start
    PROVE  Sound' /\ CleanKept' /\ HandlersTidy'
<1> DEFINE n == LoadedPages
<1>0. TypeOK /\ saved.kv \in Contents BY DEF Inv, TypeOK
<1>1. /\ status # "up" /\ file.state = "whole" /\ kv' = [k \in Key |-> Decoded(k)]
      /\ damage' = IF saved.ok THEN {} ELSE {"torn"}
      /\ headers' = [p \in 1 .. n |->
            [keys |-> file.headers[p].keys,
             offset_bytes |-> file.headers[p].offset_bytes,
             fragmentated_bytes |-> 0, arena_id |-> 1, pLSN |-> file.lsn,
             state |-> "CLEAN", location |-> "INDISK"]]
      /\ UNCHANGED <<file, main, worker, saved>>
  BY DEF db_start
<1>2. worker.pc = "idle" /\ main = MainIdle BY <1>1 DEF Inv, DownIsIdle, MainRests
<1>3. /\ DOMAIN headers' = 1 .. n
      /\ \A p \in 1 .. n :
           /\ headers'[p].keys = file.headers[p].keys
           /\ headers'[p].offset_bytes = file.headers[p].offset_bytes
           /\ headers'[p].fragmentated_bytes = 0
           /\ headers'[p].state = "CLEAN" /\ headers'[p].location = "INDISK"
  BY <1>1
<1>4. HandlersTidy'
  <2>1. main'.pc = "idle" /\ main'.phase = "none" /\ main' = MainIdle BY <1>1, <1>2 DEF MainIdle
  <2>2. NoneLeftProcessing' BY <1>3 DEF NoneLeftProcessing
  <2> QED BY <2>1, <2>2 DEF HandlersTidy, MainRests, Handling, LeftClean, KeysCopied
<1>5. CASE ~saved.ok BY <1>1, <1>4, <1>5 DEF Sound, Unharmed, CleanKept
<1>6. CASE saved.ok
  <2>1. kv' = saved.kv
    <3>1. \A k \in Key : Decoded(k) = saved.kv[k] BY <1>1, <1>6, Recovered
    <3> QED BY <1>0, <1>1, <3>1 DEF Contents
  <2>2. Kept' = saved.kv
    <3>1. kv' \in Contents BY DEF Inv, TypeOK
    <3>2. Kept' = kv' BY <1>1, <1>2, <3>1 DEF Kept, Contents
    <3> QED BY <2>1, <3>2
  <2>3. ASSUME NEW p \in 1 .. n
        PROVE  /\ PageRecords(p)' = Records(file.headers[p].keys, saved.kv)
               /\ FilePageHolds(p, saved.kv) /\ p \in DOMAIN file.pages
    <3>1. PageRecords(p)' = Records(file.headers[p].keys, saved.kv)
      BY <1>3, <2>2 DEF PageRecords
    <3> QED BY <1>1, <1>6, <3>1, LoadedPagesType DEF SavedGood
  <2>4. ASSUME NEW p \in 1 .. n PROVE PageSound(p)'
    BY <1>1, <1>3, <2>3 DEF PageSound, FilePageHolds
  <2>5. OwnSlots' BY <1>3 DEF OwnSlots
  <2>6. MainMoves' /\ MainAtPage' BY <1>1, <1>2 DEF MainMoves, MainAtPage, MainIdle
  <2>7. Settled' BY <1>1, <1>2, <1>3, <2>4, <2>5, <2>6 DEF Settled
  <2>8. CleanDumped'
    <3>1. main'.pc = "idle" BY <1>1, <1>2 DEF MainIdle
    <3>2. \A p \in 1 .. n : p \in DOMAIN file'.pages /\ Intact(file'.pages[p], 0, PageRecords(p)')
      BY <1>1, <2>3 DEF FilePageHolds
    <3> QED BY <1>3, <3>1, <3>2 DEF CleanDumped
  <2> QED BY <1>4, <2>7, <2>8 DEF Sound, CleanKept
<1> QED BY <1>5, <1>6
-----------------------------------------------------------------------------
(***************************************************************************)
(* The invariant as a whole, and what it says about lookups and files.     *)
(***************************************************************************)
Faithful ==
    /\ Inv /\ BytesOnce /\ OnlyIndexed
    /\ Sound /\ CleanKept /\ HandlersTidy /\ SavedGood

(* It holds in an empty directory, *)
LEMMA InitFaithful == Init => Faithful
<1> SUFFICES ASSUME Init PROVE Faithful
  OBVIOUS
<1>0. Inv BY InitInv
<1>1. /\ headers = <<>> /\ mem = {} /\ main = MainIdle /\ worker = NoOp /\ kv = Empty
      /\ saved = Saved(Empty)
      /\ file = [pages |-> <<>>, lsn |-> 0, headers |-> <<>>, nkeys |-> 0, state |-> "whole"]
  BY DEF Init
<1>2. file.pages = <<>> /\ file.headers = <<>> BY <1>1
<1>3. main.pc = "idle" /\ main.phase = "none" /\ worker.pc = "idle" BY <1>1 DEF MainIdle, NoOp
<1>4. BytesOnce BY <1>1, <1>2 DEF BytesOnce, Unique
<1>5. OnlyIndexed BY <1>1 DEF OnlyIndexed, Empty
<1>6. Sound BY <1>1, <1>3 DEF Sound, Settled, OwnSlots, MainMoves, MainAtPage
<1>7. CleanKept BY <1>1, <1>3 DEF CleanKept, CleanDumped
<1>8. HandlersTidy
  BY <1>1, <1>3 DEF HandlersTidy, MainRests, Handling, NoneLeftProcessing, LeftClean, KeysCopied
<1>9. SavedGood
  <2>1. LoadedPages = 0 BY <1>2 DEF LoadedPages
  <2>2. saved.kv = Empty BY <1>1 DEF Saved
  <2> QED BY <2>1, <2>2 DEF SavedGood, Empty
<1> QED BY <1>0, <1>4, <1>5, <1>6, <1>7, <1>8, <1>9 DEF Faithful

(* and every step of either thread, every end and every start keeps it. *)
LEMMA NextFaithful == Faithful /\ [Next]_vars => Faithful'
<1> SUFFICES ASSUME Faithful, [Next]_vars PROVE Faithful'
  OBVIOUS
<1>1. Inv /\ BytesOnce /\ OnlyIndexed /\ Sound /\ CleanKept /\ HandlersTidy /\ SavedGood
  BY DEF Faithful
<1>2. Inv' BY <1>1, NextInv
<1>3. BytesOnce' BY <1>1, <1>2, OnceStep
<1>4. OnlyIndexed' BY <1>1, <1>2, IndexedStep
<1>5. SavedGood' BY <1>1, <1>2, SavedStep
<1>6. CASE db_start BY <1>1, <1>2, <1>3, <1>4, <1>5, <1>6, StartSound DEF Faithful, HandlersTidy
<1>7. CASE ~db_start
  <2>1. Sound' BY <1>1, <1>2, <1>3, <1>7, SettledStep
  <2>2. CleanKept'
    <3> SUFFICES ASSUME damage' = {} PROVE CleanDumped'
      BY DEF CleanKept
    <3>1. damage = {} BY <1>1, <1>7, DamageGrows
    <3>2. Settled /\ CleanDumped BY <1>1, <3>1 DEF Sound, Unharmed, CleanKept
    <3> QED BY <1>1, <1>2, <1>7, <3>2, CleanStep
  <2>3. HandlersTidy' BY <1>1, <1>2, <1>7, HandlingStep
  <2> QED BY <1>2, <1>3, <1>4, <1>5, <2>1, <2>2, <2>3 DEF Faithful
<1> QED BY <1>6, <1>7

LEMMA SpecFaithful == Spec => []Faithful
BY InitFaithful, NextFaithful, PTL DEF Spec

(* The value that a header lists for a key, unless the key is in hand. *)
LEMMA KeptIndexed ==
    ASSUME Inv, NEW k \in Key, hashmap[k] # NoMeta
    PROVE  Kept[k] = kv[k]
<1>1. ~(worker.pc \in {"set", "unset"} /\ worker.key = k) BY DEF Inv, WorkerPoints
<1> QED BY <1>1 DEF Kept

(* A lookup reads the value that was inserted. *)
LEMMA LookupFinds ==
    ASSUME Inv, BytesOnce, OnlyIndexed, Settled, status = "up", NEW k \in Key
    PROVE  Stored(k) = kv[k]
<1>1. CASE hashmap[k] = NoMeta BY <1>1 DEF Stored, OnlyIndexed
<1>2. CASE hashmap[k] # NoMeta
  <2>1. PICK p \in DOMAIN headers, i \in DOMAIN headers[hashmap[k].page].keys :
          /\ p = hashmap[k].page /\ i = hashmap[k].id /\ headers[p].keys[i].key = k
          /\ headers[p].keys[i].offset \in Nat
    BY <1>2, Found
  <2> DEFINE o == headers[p].keys[i].offset
  <2>2. /\ i \in DOMAIN PageRecords(p)
        /\ PageRecords(p)[i] = [addr |-> o, val |-> kv[k]]
    BY <1>2, <2>1, PageFacts, KeptIndexed
  <2>3. PageSound(p) BY DEF Settled
  <2>4. CASE headers[p].location = "INMEMORY"
    <3>1. [addr |-> SlotStart(headers[p].arena_id) + o, val |-> kv[k]] \in mem
      BY <2>2, <2>3, <2>4 DEF PageSound, Intact
    <3>2. ReadAt(mem, AddrOf(headers[p], o)) = kv[k]
      BY <3>1, ReadIntact DEF BytesOnce, AddrOf
    <3> QED BY <1>2, <2>1, <2>4, <3>2 DEF Stored
  <2>5. CASE headers[p].location = "INDISK"
    <3>1. p \in DOMAIN file.pages BY <2>5 DEF Inv, ColdPagesInFile
    <3>2. [addr |-> 0 + o, val |-> kv[k]] \in file.pages[p]
      BY <2>2, <2>3, <2>5 DEF PageSound, Intact
    <3>3. 0 + o = o BY <2>1
    <3>4. ReadAt(file.pages[p], o) = kv[k]
      BY <3>1, <3>2, <3>3, ReadIntact DEF BytesOnce
    <3> QED BY <1>2, <2>1, <2>5, <3>4 DEF Stored
  <2> QED BY <2>4, <2>5, PageFacts
<1> QED BY <1>1, <1>2

(* For any number of keys, values, pages and slots: as long as no event in *)
(* damage but an insertion into a clean page has happened, every key has   *)
(* the value it was inserted with, in the arena or in the file, through    *)
(* the reuse of pages, half a defragmentation in the main thread, heating, *)
(* and a restart from the files.                                           *)
THEOREM ValuesReadBack == Spec => []ReadBack
<1>1. Faithful => ReadBack
  <2> SUFFICES ASSUME Faithful, status = "up", damage \subseteq {"clean"}, NEW k \in Key
               PROVE  Stored(k) = kv[k]
    BY DEF ReadBack
  <2>1. Settled BY DEF Faithful, Sound, Unharmed
  <2> QED BY <2>1, LookupFinds DEF Faithful
<1> QED BY <1>1, SpecFaithful, PTL

(* For any number of keys, values and pages: a page that its header calls  *)
(* clean is in db.snap, with every value where the header says, so that a  *)
(* snapshot that skips it loses nothing.                                   *)
THEOREM CleanPagesOnDisk == Spec => []CleanPageOnDisk
<1>1. Faithful => CleanPageOnDisk
  <2> SUFFICES ASSUME Faithful, damage = {}, NEW p \in DOMAIN headers,
                      headers[p].state = "CLEAN"
               PROVE  /\ p \in DOMAIN file.pages
                      /\ \A i \in DOMAIN headers[p].keys :
                           \/ InFlight([page |-> p, id |-> i])
                           \/ ReadAt(file.pages[p], headers[p].keys[i].offset)
                                  = kv[headers[p].keys[i].key]
    BY DEF CleanPageOnDisk
  <2>1. Inv /\ BytesOnce BY DEF Faithful
  <2>2. p \in DOMAIN file.pages /\ Intact(file.pages[p], 0, PageRecords(p))
    BY DEF Faithful, CleanKept, CleanDumped, Dumped
  <2>3. ASSUME NEW i \in DOMAIN headers[p].keys, ~InFlight([page |-> p, id |-> i])
        PROVE  ReadAt(file.pages[p], headers[p].keys[i].offset) = kv[headers[p].keys[i].key]
    <3> DEFINE k == headers[p].keys[i].key
               o == headers[p].keys[i].offset
    <3>1. k \in Key /\ o \in Nat BY <2>1, KeyAt DEF Inv
    <3>2. Kept[k] = kv[k]
      <4>1. hashmap[k] = [page |-> p, id |-> i]
        BY <2>1, <2>3 DEF Inv, IndexConsistent
      <4>2. hashmap[k] # NoMeta
        <5>1. p \in Nat \ {0} BY <2>1, KeyAt DEF Inv
        <5> QED BY <4>1, <5>1, NotNoMeta
      <4> QED BY <2>1, <3>1, <4>2, KeptIndexed
    <3>3. /\ i \in DOMAIN PageRecords(p)
          /\ PageRecords(p)[i] = [addr |-> o, val |-> kv[k]]
      BY <2>1, <3>2, PageFacts
    <3>4. [addr |-> 0 + o, val |-> kv[k]] \in file.pages[p] BY <2>2, <3>3 DEF Intact
    <3>5. 0 + o = o BY <3>1
    <3> QED BY <2>1, <2>2, <3>4, <3>5, ReadIntact DEF BytesOnce
  <2> QED BY <2>2, <2>3
<1> QED BY <1>1, SpecFaithful, PTL

(* For any number of keys, values and pages, and wherever the process      *)
(* dies: from the end of a snapshot that no modifying operation overlapped *)
(* until the next write to the files, a start reads back exactly the       *)
(* contents that the snapshot recorded.                                    *)
THEOREM SnapshotRecoverable == Spec => []Recoverable
<1>1. Faithful => Recoverable BY Recovered DEF Faithful, Recoverable
<1> QED BY <1>1, SpecFaithful, PTL
-----------------------------------------------------------------------------
(***************************************************************************)
(* Replies.                                                                *)
(***************************************************************************)

(* The reply to SELECT points into the page that the hash map names. *)
PointsAtValue ==
    /\ hashmap[worker.key] # NoMeta /\ worker.meta = hashmap[worker.key]
    /\ headers[worker.meta.page].location = "INMEMORY"
    /\ worker.addr = AddrOf(headers[worker.meta.page],
                            headers[worker.meta.page].keys[worker.meta.id].offset)

(* The value that the reply to DELETE points at. *)
Dead == [addr |-> worker.addr, val |-> worker.expect]

(* It is in no page any more, but still in the slot of the one it was in. *)
PointsAtDead ==
    /\ worker.meta.page \in DOMAIN headers
    /\ headers[worker.meta.page].location = "INMEMORY"
    /\ Dead \in Record /\ Dead \in mem
    /\ SlotStart(headers[worker.meta.page].arena_id) <= worker.addr
    /\ worker.addr + Bytes(Dead) <= SlotStart(headers[worker.meta.page].arena_id) + PAGE_SIZE

ReplyPoints ==
    worker.pc = "reply" =>
        /\ worker.key \in Key
        /\ worker.code = "KEY_NOT_FOUND" => hashmap[worker.key] = NoMeta
        /\ worker.code = "KEY_EXISTS" \/ (worker.cmd = "PEEK" /\ worker.code = "OK") =>
              hashmap[worker.key] # NoMeta
        /\ worker.cmd = "SELECT" /\ worker.held => PointsAtValue
        /\ worker.cmd = "DELETE" /\ worker.held => PointsAtDead

Replies == Unharmed => ReplyPoints /\ (worker.pc = "unset" => worker.cmd = "DELETE")

(* A record in another slot than the one that is written. *)
LEMMA RecordElsewhere ==
    ASSUME NEW slot \in Slot, NEW other \in Slot, slot # other, NEW r \in Record,
           SlotStart(other) <= r.addr, r.addr + Bytes(r) <= SlotStart(other) + PAGE_SIZE,
           NEW m, NEW n, Outside(slot, m, n), r \in m
    PROVE  r \in n
<1>1. /\ SlotStart(slot) \in Nat /\ SlotStart(other) \in Nat /\ PAGE_SIZE \in Nat
      /\ r.addr \in Nat /\ Bytes(r) \in Nat
  BY SlotStartType, ArenaAssumption, BytesType DEF Record
<1>2. \/ SlotStart(slot) + PAGE_SIZE <= SlotStart(other)
      \/ SlotStart(other) + PAGE_SIZE <= SlotStart(slot)
  BY SlotsApart
<1>3. r.addr + Bytes(r) <= SlotStart(slot) \/ SlotStart(slot) + PAGE_SIZE <= r.addr
  BY <1>1, <1>2
<1> QED BY <1>3 DEF Outside

(* While a reply is serialised, its page and its value stay in place. *)
LEMMA ReplyStays ==
    ASSUME Inv, ReplyPoints, worker.pc = "reply", hashmap' = hashmap,
           worker'.pc = worker.pc, worker'.key = worker.key, worker'.expect = worker.expect,
           worker'.meta = worker.meta, worker'.cmd = worker.cmd, worker'.code = worker.code,
           worker'.addr = worker.addr, worker'.held => worker.held,
           DOMAIN headers' = DOMAIN headers,
           \A q \in DOMAIN headers : worker'.held /\ q = worker.meta.page =>
              /\ headers'[q].location = headers[q].location
              /\ headers'[q].arena_id = headers[q].arena_id
              /\ headers'[q].keys = headers[q].keys,
           worker'.held /\ PointsAtDead => Dead \in mem'
    PROVE  ReplyPoints'
<1>1. ASSUME worker'.cmd = "SELECT", worker'.held PROVE PointsAtValue'
  <2>1. PointsAtValue /\ worker.key \in Key BY <1>1 DEF ReplyPoints
  <2>2. PICK q \in DOMAIN headers : q = worker.meta.page BY <2>1, Found DEF PointsAtValue
  <2>3. /\ headers'[q].location = headers[q].location
        /\ headers'[q].arena_id = headers[q].arena_id /\ headers'[q].keys = headers[q].keys
    BY <1>1, <2>2
  <2> QED BY <2>1, <2>2, <2>3 DEF PointsAtValue, AddrOf
<1>2. ASSUME worker'.cmd = "DELETE", worker'.held PROVE PointsAtDead'
  <2>1. PointsAtDead BY <1>2 DEF ReplyPoints
  <2>2. PICK q \in DOMAIN headers : q = worker.meta.page BY <2>1 DEF PointsAtDead
  <2>3. /\ headers'[q].location = headers[q].location
        /\ headers'[q].arena_id = headers[q].arena_id
    BY <1>2, <2>2
  <2>4. Dead' = Dead /\ Dead \in mem' BY <1>2, <2>1 DEF Dead
  <2>5. Bytes(Dead)' = Bytes(Dead) BY DEF Bytes, Dead
  <2> QED BY <2>1, <2>2, <2>3, <2>4, <2>5 DEF PointsAtDead
<1> QED BY <1>1, <1>2 DEF ReplyPoints

(* The operations that only answer. *)
LEMMA AnswersReply ==
    ASSUME Inv, Answers PROVE ReplyPoints' /\ worker'.pc # "unset"
<1>1. worker'.pc # "unset" BY AnswersPc
<1>2. CASE request_reply BY <1>1, <1>2 DEF request_reply, NoOp, ReplyPoints
<1>3. ASSUME NEW cmd, NEW k \in Key, NEW code, Reply(cmd, k, code), hashmap' = hashmap,
             code = "KEY_NOT_FOUND" => hashmap[k] = NoMeta,
             code = "KEY_EXISTS" \/ (cmd = "PEEK" /\ code = "OK") => hashmap[k] # NoMeta
      PROVE  ReplyPoints'
  <2>1. /\ worker'.key = k /\ worker'.code = code /\ worker'.cmd = cmd
        /\ worker'.held = FALSE
    BY <1>3 DEF Reply, NoOp
  <2> QED BY <1>3, <2>1 DEF ReplyPoints
<1>4. hashmap' = hashmap BY AnswersAlike
<1>5. ASSUME NEW k \in Key, operation_peek(k) PROVE ReplyPoints'
  <2>1. Reply("PEEK", k, KeyCode(k)) BY <1>5 DEF operation_peek
  <2>2. /\ KeyCode(k) = "KEY_NOT_FOUND" => hashmap[k] = NoMeta
        /\ KeyCode(k) = "KEY_EXISTS" \/ KeyCode(k) = "OK" => hashmap[k] # NoMeta
    BY DEF KeyCode
  <2> QED BY <1>3, <1>4, <2>1, <2>2
<1>6. ASSUME NEW k \in Key, operation_select_missing(k) \/ operation_delete_missing(k)
      PROVE  ReplyPoints'
  BY <1>3, <1>4, <1>6 DEF operation_select_missing, operation_delete_missing
<1>7. ASSUME NEW k \in Key, NEW v \in Value, operation_insert_refused(k, v)
      PROVE  ReplyPoints'
  BY <1>3, <1>4, <1>7 DEF operation_insert_refused
<1> QED BY <1>1, <1>2, <1>5, <1>6, <1>7 DEF Answers

(* operation_select answers with the place of the value. *)
LEMMA SelectReply ==
    ASSUME Inv, NEW k \in Key, operation_select(k) PROVE ReplyPoints' /\ worker'.pc # "unset"
<1>1. hashmap' = hashmap /\ hashmap[k] # NoMeta BY SelectEffect
<1>2. PICK p \in DOMAIN headers, slot \in Slot :
        /\ p = hashmap[k].page
        /\ headers'[p].arena_id = slot /\ headers'[p].location = "INMEMORY"
        /\ headers'[p].keys = headers[p].keys
        /\ worker'.pc = "reply" /\ worker'.cmd = "SELECT" /\ worker'.key = k
        /\ worker'.code = "OK" /\ worker'.meta = hashmap[k]
        /\ worker'.addr = SlotStart(slot) + headers[p].keys[hashmap[k].id].offset
  BY SelectEffect
<1>3. PointsAtValue' BY <1>1, <1>2 DEF PointsAtValue, AddrOf
<1> QED BY <1>1, <1>2, <1>3 DEF ReplyPoints

(* page_value_unset leaves the bytes of the value where they are. *)
LEMMA UnsetReply ==
    ASSUME Inv, Inv', Settled, Unharmed', Replies, page_value_unset
    PROVE  ReplyPoints' /\ worker'.pc # "unset"
<1>1. worker.pc = "unset" BY UnsetEffect
<1>2. PICK p \in DOMAIN headers, id \in DOMAIN headers[worker.meta.page].keys, slot \in Slot :
        /\ p = worker.meta.page /\ id = worker.meta.id
        /\ headers[p].keys[id].key = worker.key
        /\ Warm(p, slot, IF BeingMoved(p) THEN {"race"} ELSE {})
        /\ DOMAIN headers' = DOMAIN headers
        /\ headers'[p].arena_id = slot /\ headers'[p].location = "INMEMORY"
        /\ worker'.pc = "reply" /\ worker'.cmd = worker.cmd /\ worker'.key = worker.key
        /\ worker'.code = "OK" /\ worker'.meta = worker.meta
        /\ worker'.expect = worker.expect
        /\ worker'.addr = SlotStart(slot) + headers[p].keys[id].offset
  BY UnsetEffect
<1>3. Unharmed /\ Intact(mem', SlotStart(slot), PageRecords(p)) BY <1>2, WarmFacts
<1>4. worker.cmd = "DELETE" /\ worker.key \in Key BY <1>1, <1>3 DEF Replies, Inv, WorkerPoints
<1> DEFINE recs == PageRecords(p)
           end == headers[p].offset_bytes
           r == [addr |-> SlotStart(slot) + recs[id].addr, val |-> recs[id].val]
<1>5. /\ id \in DOMAIN recs /\ recs[id].addr = headers[p].keys[id].offset
      /\ recs[id].val = worker.expect
  <2>1. Kept[worker.key] = worker.expect BY <1>1, <1>4 DEF Kept
  <2>2. /\ id \in DOMAIN recs
        /\ recs[id] = [addr |-> headers[p].keys[id].offset, val |-> Kept[worker.key]]
    BY <1>2, PageFacts
  <2> QED BY <2>1, <2>2
<1>6. end \in Nat /\ end <= PAGE_SIZE /\ Apart(recs, end)
  <2>1. PageSound(p) BY DEF Settled
  <2> QED BY <2>1, PageFacts DEF PageSound, Laid
<1>7. Dead' = r BY <1>2, <1>5 DEF Dead
<1> HIDE DEF recs, end
<1>8. /\ r \in Record /\ SlotStart(slot) <= r.addr /\ r.addr + Bytes(r) <= SlotStart(slot) + PAGE_SIZE
  BY <1>5, <1>6, SlotRecord
<1>9. r \in mem' BY <1>3, <1>5 DEF Intact, recs
<1>10. r.addr = worker'.addr BY <1>2, <1>5
<1>11. Bytes(Dead)' = Bytes(r) BY <1>7 DEF Bytes
<1>12. PointsAtDead'
  <2>1. worker'.meta.page = p BY <1>2
  <2> HIDE DEF r
  <2> QED BY <1>2, <1>7, <1>8, <1>9, <1>10, <1>11, <2>1 DEF PointsAtDead
<1> QED BY <1>2, <1>4, <1>12 DEF ReplyPoints

(* The main thread moves values of its own page only, and a reply into     *)
(* that one is no longer held.                                             *)
LEMMA MoveReply ==
    ASSUME Inv, Settled, ReplyPoints, worker.pc = "reply", hashmap' = hashmap,
           NEW p \in DOMAIN headers, p = main.page, main.pc = "defrag",
           worker' = LetGo("main", p),
           DOMAIN headers' = DOMAIN headers,
           \A q \in DOMAIN headers : q # p => headers'[q] = headers[q],
           Outside(headers[p].arena_id, mem, mem')
    PROVE  ReplyPoints'
<1>0. TypeOK BY DEF Inv
<1>1. worker'.held => worker.meta.page # p BY <1>0, LetGoFields
<1>2. ASSUME worker'.held, PointsAtDead PROVE Dead \in mem'
  <2>1. PICK q \in DOMAIN headers : q = worker.meta.page BY <1>2 DEF PointsAtDead
  <2>2. /\ q # p /\ headers[q].location = "INMEMORY" /\ headers[p].location = "INMEMORY"
    BY <1>1, <1>2, <2>1 DEF PointsAtDead, Settled, MainAtPage
  <2>3. headers[q].arena_id # headers[p].arena_id BY <2>2 DEF Settled, OwnSlots
  <2>4. headers[q].arena_id \in Slot /\ headers[p].arena_id \in Slot BY PageFacts
  <2>5. /\ Dead \in Record /\ Dead \in mem /\ SlotStart(headers[q].arena_id) <= Dead.addr
        /\ Dead.addr + Bytes(Dead) <= SlotStart(headers[q].arena_id) + PAGE_SIZE
    <3>1. Dead.addr = worker.addr BY DEF Dead
    <3> QED BY <1>2, <2>1, <3>1 DEF PointsAtDead
  <2> QED BY <2>3, <2>4, <2>5, RecordElsewhere
<1> QED BY <1>0, <1>1, <1>2, LetGoFields, ReplyStays

(* A reply stays true until it is sent. *)
LEMMA RepliesStep ==
    ASSUME Faithful, Faithful', Replies, [Next]_vars PROVE Replies'
<1> SUFFICES ASSUME Unharmed'
             PROVE  ReplyPoints' /\ (worker'.pc = "unset" => worker'.cmd = "DELETE")
  BY DEF Replies
<1>0. Inv /\ Inv' /\ BytesOnce /\ TypeOK BY DEF Faithful, Inv
<1>1. CASE db_start
  <2>1. worker'.pc = "idle" BY <1>0, <1>1 DEF db_start, Inv, DownIsIdle
  <2> QED BY <2>1 DEF ReplyPoints
<1>2. CASE ~db_start
  <2>1. Unharmed BY <1>0, <1>2, DamageGrows, UnharmedBefore
  <2>2. Settled /\ ReplyPoints /\ (worker.pc = "unset" => worker.cmd = "DELETE")
    BY <2>1 DEF Faithful, Sound, Replies
  <2>3. CASE Ends BY <2>3 DEF Ends, Nothing, NoOp, ReplyPoints
  <2>4. CASE Answers BY <1>0, <2>4, AnswersReply
  <2>5. ASSUME NEW k \in Key, operation_select(k) PROVE ReplyPoints' /\ worker'.pc # "unset"
    BY <1>0, <2>5, SelectReply
  <2>6. CASE page_value_unset BY <1>0, <2>2, <2>6, UnsetReply
  <2>7. CASE insert_key
    <3>1. /\ worker.key \in Key /\ worker.pc = "set" BY <1>0, <2>7 DEF insert_key, Inv, WorkerPoints
    <3>2. /\ worker'.pc = "reply" /\ worker'.cmd = "INSERT" /\ worker'.code = "OK"
          /\ worker'.key = worker.key
      BY <2>7 DEF insert_key, NoOp
    <3> QED BY <3>1, <3>2 DEF ReplyPoints
  <2>8. ASSUME NEW k \in Key, operation_delete(k)
        PROVE  worker'.pc = "unset" /\ worker'.cmd = "DELETE"
    BY <2>8 DEF operation_delete, NoOp
  <2>9. ASSUME NEW p, NEW h, NEW k \in Key, NEW v \in Value, SetStep(p, h, k, v)
        PROVE  worker'.pc = "set"
    BY <1>0, <2>2, <2>9, SetOthers
  <2>10. ASSUME NEW k \in Key, NEW v \in Value, insert_defragmentates(k, v) PROVE FALSE
    BY <1>0, <2>2, <2>10, WorkerMovesNothing
  <2>11. ASSUME worker' = worker, hashmap' = hashmap, mem' = mem, DOMAIN headers' = DOMAIN headers,
                \A q \in DOMAIN headers : Alike(headers[q], headers'[q])
         PROVE  ReplyPoints'
    <3>1. CASE worker.pc = "reply" BY <1>0, <2>2, <2>11, <3>1, ReplyStays DEF Alike, PointsAtDead
    <3> QED BY <2>11, <3>1 DEF ReplyPoints
  <2>12. CASE \/ Walks \/ BeginDump \/ EndDump
              \/ DumpHeader \/ (DumpKeys /\ status' = "up") \/ EndKeys
              \/ db_start_fails \/ UNCHANGED vars
    <3>1. StoredAlike /\ worker' = worker /\ hashmap' = hashmap
      BY <1>0, <2>12, WalksAlike, BeginDumpAlike, EndDumpAlike, KeysAlike, NoStepAlike
    <3> QED BY <2>2, <2>11, <3>1 DEF StoredAlike
  <2>13. CASE WriteDirtyPage
    <3>1. worker' = worker /\ hashmap' = hashmap /\ mem' = mem /\ headers' = headers
      BY <2>13 DEF WriteDirtyPage, arenaVars
    <3> QED BY <2>2, <2>11, <3>1 DEF Alike
  <2>14. ASSUME NEW t \in Thread, DefragBlock(t) \/ (DefragDone(t) /\ status' = "up")
         PROVE  ReplyPoints' /\ worker'.pc = worker.pc /\ worker'.cmd = worker.cmd
    <3>1. t = "main" BY <2>2, <2>14, WorkerDefragsNot DEF DefragBlock, DefragDone
    <3>2. /\ main.pc = "defrag" /\ worker' = LetGo("main", main.page) /\ hashmap' = hashmap
      BY <1>0, <2>14, <3>1, BlockEffect, DoneEffect
    <3>3. PICK p \in DOMAIN headers :
            /\ p = main.page /\ DOMAIN headers' = DOMAIN headers
            /\ \A q \in DOMAIN headers : q # p => headers'[q] = headers[q]
      BY <1>0, <2>14, <3>1, BlockEffect, DoneEffect
    <3>4. Outside(headers[main.page].arena_id, mem, mem')
      BY <1>0, <2>2, <2>14, <3>1, BlockSettled, DoneSettled
    <3>5. worker'.pc = worker.pc /\ worker'.cmd = worker.cmd BY <1>0, <3>2, LetGoFields
    <3>6. CASE worker.pc = "reply"
      BY <1>0, <2>2, <3>2, <3>3, <3>4, <3>5, <3>6, MoveReply
    <3> QED BY <3>5, <3>6 DEF ReplyPoints
  <2>15. worker'.pc \in {"unset", "set"} => ReplyPoints' BY DEF ReplyPoints
  <2> QED BY <1>0, <1>2, <2>2, <2>3, <2>4, <2>5, <2>6, <2>7, <2>8, <2>9, <2>10, <2>12, <2>13,
             <2>14, <2>15, StepCases
          DEF Step
<1> QED BY <1>1, <1>2

(* A key in the hash map has a value. *)
LEMMA IndexedValue ==
    ASSUME Inv, Settled, NEW k \in Key, hashmap[k] # NoMeta PROVE kv[k] \in Value
<1>1. PICK p \in DOMAIN headers, i \in DOMAIN headers[hashmap[k].page].keys :
        p = hashmap[k].page /\ headers[p].keys[i].key = k
  BY Found
<1>2. PageRecords(p) \in Seq(Record)
  BY DEF Settled, PageSound, Laid, Apart
<1>3. /\ i \in DOMAIN PageRecords(p)
      /\ PageRecords(p)[i] = [addr |-> headers[p].keys[i].offset, val |-> kv[k]]
  BY <1>1, PageFacts, KeptIndexed
<1>4. PageRecords(p)[i].val \in Value BY <1>2, <1>3, RecordAt
<1> QED BY <1>3, <1>4

(* For any number of keys, values and pages: a reply says what the         *)
(* database holds, or held when the value was deleted, also while a        *)
(* snapshot in the main thread moves the values of other pages, as long as *)
(* no event in damage but an insertion into a clean page has happened.     *)
THEOREM RepliesCorrect == Spec => []ReplyCorrect
<1>1. Init => Replies BY DEF Init, Replies, ReplyPoints, NoOp
<1>2. Faithful /\ Faithful' /\ Replies /\ [Next]_vars => Replies' BY RepliesStep
<1>3. Faithful /\ Replies => ReplyCorrect
  <2> SUFFICES ASSUME Faithful, Replies, worker.pc = "reply", Unharmed PROVE
        /\ worker.code = "KEY_NOT_FOUND" => kv[worker.key] = None
        /\ worker.code = "KEY_EXISTS" => kv[worker.key] # None
        /\ worker.cmd = "PEEK" /\ worker.code = "OK" => kv[worker.key] # None
        /\ worker.cmd = "SELECT" /\ worker.held => ReadAt(mem, worker.addr) = kv[worker.key]
        /\ worker.cmd = "DELETE" /\ worker.held => ReadAt(mem, worker.addr) = worker.expect
    BY DEF ReplyCorrect, Unharmed
  <2>1. Inv /\ BytesOnce /\ OnlyIndexed /\ Settled BY DEF Faithful, Sound
  <2>2. status = "up" BY <2>1 DEF Inv, DownIsIdle
  <2>3. PICK k \in Key : k = worker.key BY DEF Replies, ReplyPoints
  <2>4. hashmap[k] # NoMeta => kv[k] # None BY <2>1, IndexedValue, StorageAssumption
  <2>5. hashmap[k] = NoMeta => kv[k] = None BY <2>1, <2>2 DEF OnlyIndexed
  <2>6. ASSUME worker.cmd = "SELECT", worker.held PROVE ReadAt(mem, worker.addr) = kv[k]
    <3>1. PointsAtValue BY <2>6 DEF Replies, ReplyPoints
    <3>2. Stored(k) = kv[k] BY <2>1, <2>2, LookupFinds
    <3> QED BY <2>3, <3>1, <3>2 DEF PointsAtValue, Stored
  <2>7. ASSUME worker.cmd = "DELETE", worker.held PROVE ReadAt(mem, worker.addr) = worker.expect
    <3>1. Dead \in mem BY <2>7 DEF Replies, ReplyPoints, PointsAtDead
    <3> QED BY <2>1, <3>1, ReadIntact DEF Dead, BytesOnce
  <2> QED BY <2>3, <2>4, <2>5, <2>6, <2>7 DEF Replies, ReplyPoints
<1> QED BY <1>1, <1>2, <1>3, SpecFaithful, PTL DEF Spec
-----------------------------------------------------------------------------
(***************************************************************************)
(* The storage engine implements KVStore: with the invariant, what a       *)
(* lookup finds and what a start would find are kv and saved.kv.           *)
(***************************************************************************)
View ==
    /\ Visible = (IF status # "up" THEN Down ELSE IF Unharmed THEN kv ELSE Unknown)
    /\ OnFile = (IF saved.ok /\ file.state = "whole" THEN saved.kv ELSE Unknown)

LEMMA FaithfulView == Faithful => View
<1> SUFFICES ASSUME Faithful PROVE View
  OBVIOUS
<1>1. Inv /\ BytesOnce /\ OnlyIndexed /\ SavedGood BY DEF Faithful
<1>2. /\ kv \in Contents /\ saved.kv \in Contents BY <1>1 DEF Inv, TypeOK
<1>3. ASSUME status = "up", Unharmed PROVE [k \in Key |-> Stored(k)] = kv
  <2>1. Settled BY <1>3 DEF Faithful, Sound
  <2>2. \A k \in Key : Stored(k) = kv[k] BY <1>1, <1>3, <2>1, LookupFinds
  <2> QED BY <1>2, <2>2 DEF Contents
<1>4. ASSUME saved.ok, file.state = "whole" PROVE [k \in Key |-> Decoded(k)] = saved.kv
  <2>1. \A k \in Key : Decoded(k) = saved.kv[k] BY <1>1, <1>4, Recovered
  <2> QED BY <1>2, <2>1 DEF Contents
<1> QED BY <1>3, <1>4 DEF View, Visible, OnFile, Unharmed

LEMMA InitKVStore == Init => KV!Init
<1> SUFFICES ASSUME Init PROVE KV!Init
  OBVIOUS
<1>1. View BY InitFaithful, FaithfulView
<1>2. /\ status = "up" /\ Unharmed /\ kv = Empty /\ saved.ok /\ saved.kv = Empty
      /\ file.state = "whole"
  BY DEF Init, Unharmed, Saved
<1> QED BY <1>1, <1>2 DEF View, KV!Init, Empty

(* Only three kinds of steps change the contents. *)
LEMMA ContentsStay ==
    ASSUME Inv, [Next]_vars, ~db_start, ~Ends, ~insert_key, \A k \in Key : ~operation_delete(k)
    PROVE  kv' = kv /\ (status' = "up" <=> status = "up")
<1>0. TypeOK BY DEF Inv
<1>1. ASSUME NEW k \in Key, operation_select(k) PROVE UNCHANGED <<status, kv>>
  BY <1>1 DEF operation_select
<1>2. CASE page_value_unset BY <1>2 DEF page_value_unset
<1>3. ASSUME NEW p, NEW h, NEW k \in Key, NEW v \in Value, SetStep(p, h, k, v)
      PROVE  UNCHANGED <<status, kv>>
  BY <1>3 DEF SetStep
<1>4. ASSUME NEW t \in Thread, DefragBlock(t) PROVE UNCHANGED <<status, kv>>
  BY <1>4 DEF DefragBlock
<1>5. ASSUME NEW t \in Thread, DefragDone(t), status' = "up" PROVE UNCHANGED <<status, kv>>
  <2>1. ~Die("SIGSEGV") BY <1>5 DEF Die
  <2> QED BY <1>5, <2>1 DEF DefragDone, history
<1>6. ASSUME NEW k \in Key, NEW v \in Value, insert_defragmentates(k, v)
      PROVE  UNCHANGED <<status, kv>>
  BY <1>6 DEF insert_defragmentates
<1>7. CASE WriteDirtyPage BY <1>7 DEF WriteDirtyPage
<1>8. CASE db_start_fails BY <1>8 DEF db_start_fails, history
<1>9. CASE UNCHANGED vars BY <1>9 DEF vars
<1> QED
  BY <1>1, <1>2, <1>3, <1>4, <1>5, <1>6, <1>7, <1>8, <1>9, StepCases,
     AnswersAlike, WalksAlike, BeginDumpAlike, EndDumpAlike, KeysAlike
  DEF Step

LEMMA NextKVStore ==
    ASSUME Faithful, Faithful', View, View', [Next]_vars PROVE [KV!Next]_(KV!vars)
<1> SUFFICES ASSUME KV!vars' # KV!vars
             PROVE  \/ \E k \in Key : KV!Delete(k) \/ \E v \in Value : KV!Insert(k, v)
                    \/ KV!BeginCopy \/ KV!EndCopy \/ KV!Harm \/ KV!Stop \/ KV!Start
  BY DEF KV!Next
<1>0. /\ Inv /\ Inv' /\ OnlyIndexed BY DEF Faithful
<1>1. /\ kv \in Contents /\ kv' \in Contents BY <1>0 DEF Inv, TypeOK
<1>2. ~EndKeys => OnFile' \in {OnFile, Unknown}
  <2>1. ~Unsaved.ok BY DEF Unsaved
  <2> QED BY <1>0, <2>1, SavedOrNot DEF View
<1>3. Visible' # Visible \/ OnFile' # OnFile BY DEF KV!vars
<1>4. CASE db_start
  <2>1. /\ status # "up" /\ status' = "up" /\ file.state = "whole" /\ file' = file
        /\ saved' = saved /\ kv' = [k \in Key |-> Decoded(k)]
        /\ damage' = IF saved.ok THEN {} ELSE {"torn"}
    BY <1>4 DEF db_start
  <2>2. Unharmed' <=> saved.ok BY <2>1 DEF Unharmed
  <2>3. Visible = Down /\ Visible' = OnFile BY <2>1, <2>2 DEF View, OnFile
  <2>4. OnFile' = OnFile BY <2>1 DEF View
  <2> QED BY <2>3, <2>4 DEF KV!Start
<1>5. CASE Ends
  <2>1. status = "up" /\ status' # "up" /\ ~EndKeys BY <1>5 DEF Ends, EndKeys
  <2>2. Visible # Down /\ Visible' = Down BY <1>1, <2>1, ViewAssumption DEF View
  <2> QED BY <1>2, <2>1, <2>2 DEF KV!Stop
<1>6. ASSUME NEW k \in Key, operation_delete(k) PROVE KV!Delete(k)
  <2>1. /\ UNCHANGED <<status, damage, saved, file>> /\ status = "up"
        /\ kv' = [kv EXCEPT ![k] = None] /\ hashmap[k] # NoMeta
    BY <1>6 DEF operation_delete, Starts, WorkerLives
  <2>2. OnFile' = OnFile /\ (Unharmed' <=> Unharmed) BY <2>1 DEF View, Unharmed
  <2>3. Unharmed BY <1>3, <2>1, <2>2 DEF View
  <2>4. kv[k] # None BY <1>0, <2>1, <2>3, IndexedValue, StorageAssumption DEF Faithful, Sound
  <2>5. Visible = kv /\ Visible' = kv' BY <2>1, <2>2, <2>3 DEF View
  <2> QED BY <1>1, <2>1, <2>2, <2>4, <2>5, ViewAssumption DEF KV!Delete, KV!Running
<1>7. ASSUME insert_key PROVE \E k \in Key, v \in Value : KV!Insert(k, v)
  <2>1. /\ UNCHANGED <<status, damage, saved, file>> /\ status = "up" /\ worker.pc = "set"
        /\ kv' = [kv EXCEPT ![worker.key] = worker.val]
    BY <1>7 DEF insert_key, WorkerLives
  <2>2. PICK k \in Key, v \in Value : k = worker.key /\ v = worker.val /\ hashmap[k] = NoMeta
    BY <1>0, <2>1 DEF Inv, WorkerPoints, WorkerInserts
  <2>3. OnFile' = OnFile /\ (Unharmed' <=> Unharmed) BY <2>1 DEF View, Unharmed
  <2>4. Unharmed BY <1>3, <2>1, <2>3 DEF View
  <2>5. kv[k] = None BY <1>0, <2>1, <2>2 DEF OnlyIndexed
  <2>6. Visible = kv /\ Visible' = kv' BY <2>1, <2>3, <2>4 DEF View
  <2> QED BY <1>1, <2>1, <2>2, <2>3, <2>5, <2>6, ViewAssumption DEF KV!Insert, KV!Running
<1>8. CASE EndKeys
  <2>1. /\ UNCHANGED <<status, kv, damage>> /\ status = "up"
        /\ saved' = IF quiet /\ damage = {} THEN Saved(kv) ELSE Unsaved
    BY <1>8 DEF EndKeys, MainLives
  <2>2. Visible' = Visible BY <2>1 DEF View, Unharmed
  <2>3. CASE OnFile' = Unknown BY <2>2, <2>3 DEF KV!BeginCopy
  <2>4. CASE OnFile' # Unknown
    <3>1. saved'.ok BY <2>4 DEF View
    <3>2. damage = {} /\ saved' = Saved(kv) BY <2>1, <3>1 DEF Unsaved
    <3>3. Visible = kv BY <2>1, <3>2 DEF View, Unharmed
    <3>4. OnFile' = kv BY <2>4, <3>2 DEF View, Saved
    <3> QED BY <1>1, <2>2, <3>3, <3>4, ViewAssumption DEF KV!EndCopy, KV!Running
  <2> QED BY <2>3, <2>4
<1>9. CASE /\ ~db_start /\ ~Ends /\ ~EndKeys /\ ~insert_key
           /\ \A k \in Key : ~operation_delete(k)
  <2>1. kv' = kv /\ (status' = "up" <=> status = "up") BY <1>0, <1>9, ContentsStay
  <2>2. Unharmed' => Unharmed BY <1>0, <1>9, DamageGrows, UnharmedBefore
  <2>3. CASE Visible' = Visible BY <1>2, <1>3, <1>9, <2>3 DEF KV!BeginCopy
  <2>4. CASE Visible' # Visible
    <3>1. Visible = kv /\ Visible' = Unknown BY <2>1, <2>2, <2>4 DEF View
    <3> QED BY <1>1, <1>2, <1>9, <3>1, ViewAssumption DEF KV!Harm, KV!Running
  <2> QED BY <2>3, <2>4
<1> QED BY <1>4, <1>5, <1>6, <1>7, <1>8, <1>9

(* For any number of keys, values and pages: no step of either thread      *)
(* changes what a lookup finds, except the ones that add a key to the hash *)
(* map or take one out, until one of the events in damage; nothing but a   *)
(* completed snapshot changes what the next start will find, except that   *)
(* the copy may be given up; and a start finds it.                         *)
THEOREM StorageImplements == Spec => ImplementsKVStore
<1>1. Faithful /\ Faithful' /\ View /\ View' /\ [Next]_vars => [KV!Next]_(KV!vars)
  BY NextKVStore
<1> QED BY <1>1, InitKVStore, FaithfulView, SpecFaithful, PTL DEF Spec, ImplementsKVStore, KV!Spec
=============================================================================
