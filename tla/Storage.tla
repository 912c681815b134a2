------------------------------ MODULE Storage ------------------------------
(***************************************************************************)
(* The storage engine of FGDB: the operations that the transaction worker  *)
(* executes (operations.c), the pages they keep their values in            *)
(* (manager.c, arena.c, lruq.c), and the snapshot that the main thread     *)
(* writes on SIGUSR1 and on SIGTERM/SIGINT and reads back at the next      *)
(* start (manager.c, disk.c, main.c).                                      *)
(*                                                                         *)
(* Two threads work on the same headers, arena and files without a lock:   *)
(* the worker, and the main thread while it is in a signal handler.  Each  *)
(* of them is cut into the steps between which the other one can observe   *)
(* or disturb it.  The process may die at any step; only the files remain. *)
(*                                                                         *)
(* The hash map is a function from keys to their key_meta_t and a vector   *)
(* is a sequence.                                                          *)
(***************************************************************************)
EXTENDS Arena, LruQueue, FiniteSets

CONSTANTS
    Key,
    FGDB_FRAGMENTATION_FACTOR,
    None,      \* the contents of a key that is not in the database
    MaxOps,    \* bound: modifying operations in a behaviour
    MaxDumped  \* bound: no new snapshot once keys_dumped has reached this

ASSUME StorageAssumption ==
    /\ IsFiniteSet(Key)
    /\ None \notin Key
    /\ ArenaPages <= MaxPages
    /\ FGDB_FRAGMENTATION_FACTOR \in Nat \ {0}
    /\ None \notin Value
    /\ None # Garbage
    /\ MaxOps \in Nat
    /\ MaxDumped \in Nat

VARIABLES
    status,   \* "up", or how the process ended
    headers,  \* arena->headers: the page headers in the order of their ids
    uploaded, \* arena->uploaded_pages
    mem,      \* arena->pages
    lru,
    hashmap,  \* key -> [page, id] of its key_meta_t
    LSN,      \* wal_logger->LSN
    disk,     \* the fields of disk_t that change: lsn, keys_dumped, file offset
    file,     \* db.snap and key.key
    main,     \* what the signal handlers of the main thread are doing
    worker,   \* the transaction the worker is executing
    defrag,   \* the local variables of arena_defragmentate_page, by thread
    \* History variables, read by the properties only:
    kv,       \* the contents the operations so far should have produced
    saved,    \* the contents the files should hold (if ok)
    quiet,    \* no modifying operation since the last snapshot began
    damage,   \* the events after which stored values may be corrupt
    ops       \* the number of modifying operations so far

arenaVars == <<headers, uploaded, mem, lru>>
history == <<kv, saved, quiet, damage, ops>>
vars == <<status, headers, uploaded, mem, lru, hashmap, LSN, disk, file, main,
          worker, defrag, kv, saved, quiet, damage, ops>>
-----------------------------------------------------------------------------
Thread == {"worker", "main"}

(* page_header_key_t; its key_meta_ptr is identified with the key. *)
HeaderKey == [key : Key, offset : Nat]

(* key_meta_t *)
Meta == [page : Nat, id : Nat]
NoMeta == [page |-> 0, id |-> 0]

(* page_header_t *)
Header == [keys : Seq(HeaderKey), offset_bytes : Nat, fragmentated_bytes : Nat,
           arena_id : Slot, pLSN : Nat,
           state : {"DIRTY", "CLEAN", "PROCESSING"},
           location : {"INMEMORY", "INDISK"}]

Content == Value \cup {None, Garbage}
Contents == [Key -> Content]
Empty == [k \in Key |-> None]
Saved(contents) == [ok |-> TRUE, kv |-> contents]
Unsaved == [ok |-> FALSE, kv |-> Empty]

(* The files: the pages of db.snap and the LSN at its head, the headers and *)
(* keys in key.key and the number at its head.  The key file is partly      *)
(* overwritten until disk_dump_keys returns, and garbled when that met a    *)
(* key it could not read; what a start makes of them is not modelled.       *)
File == [pages : Seq(Memory), lsn : Nat, nkeys : Nat,
         headers : Seq([offset_bytes : Nat, keys : Seq(HeaderKey)]),
         state : {"whole", "part", "garbled"}]

(* The local variables of the signal handlers: phase says which loop over  *)
(* the headers is running, exiting that it is the one of a shutdown.       *)
Handler == [pc : {"idle", "scan", "defrag", "seek", "write", "clean", "keys", "list"},
            phase : {"none", "snapshot", "destroy"}, page : Nat, exiting : BOOLEAN]

(* The local variables of an operation, and its reply.  addr is where the  *)
(* value in the reply lies; expect and held are history: what it should    *)
(* read, and that nothing has moved it since.                              *)
Transaction ==
    [pc : {"idle", "defrag", "defragmented", "set", "unset", "reply"},
     cmd : {"none", "PEEK", "SELECT", "INSERT", "DELETE"},
     key : Key \cup {None}, val : Value \cup {None}, meta : Meta,
     addr : Nat, expect : Content, held : BOOLEAN,
     code : {"none", "OK", "KEY_NOT_FOUND", "KEY_EXISTS", "VALUE_REQUIRED"}]

(* The events after which stored values may be corrupt:                    *)
(*   overflow   a record runs over the end of its page                     *)
(*   cold       a value was put into a page that is still on the disk      *)
(*   clean      a value was put into a page that will not be dumped        *)
(*   evict      a page has lost its slot                                   *)
(*   race       both threads were at work on one page or one file offset   *)
(*   torn       the server was started with the files of an incomplete or  *)
(*              disturbed snapshot                                         *)
(*   overlap    a defragmentation moved a record onto its old length field *)
Damage == {"overflow", "cold", "clean", "evict", "race", "torn", "overlap"}

NoOp == [pc |-> "idle", cmd |-> "none", key |-> None, val |-> None, meta |-> NoMeta,
         addr |-> 0, code |-> "none", expect |-> None, held |-> FALSE]
NoDefrag == [page |-> 0, block |-> 0, offset |-> 0]
MainIdle == [pc |-> "idle", phase |-> "none", page |-> 0, exiting |-> FALSE]

(* What the process holds before db_start: nothing but the files. *)
Nothing ==
    /\ headers' = <<>> /\ uploaded' = 0 /\ mem' = {} /\ lru' = new_lru_queue
    /\ hashmap' = [k \in Key |-> NoMeta]
    /\ LSN' = 0
    /\ disk' = [lsn |-> 0, keys_dumped |-> 0, pos |-> 1]
    /\ main' = MainIdle /\ worker' = NoOp
    /\ defrag' = [t \in Thread |-> NoDefrag]

(* The process ends in the way how says; the files stay as they are. *)
Die(how) ==
    /\ status' = how
    /\ Nothing
    /\ UNCHANGED history

(* The first start of the server, in a directory without files. *)
Init ==
    /\ status = "up"
    /\ headers = <<>> /\ uploaded = 0 /\ mem = {} /\ lru = new_lru_queue
    /\ hashmap = [k \in Key |-> NoMeta]
    /\ LSN = 0
    /\ disk = [lsn |-> 0, keys_dumped |-> 0, pos |-> 1]
    /\ file = [pages |-> <<>>, lsn |-> 0, headers |-> <<>>, nkeys |-> 0,
               state |-> "whole"]
    /\ main = MainIdle /\ worker = NoOp
    /\ defrag = [t \in Thread |-> NoDefrag]
    /\ kv = Empty /\ saved = Saved(Empty) /\ quiet = TRUE /\ damage = {} /\ ops = 0
-----------------------------------------------------------------------------
(***************************************************************************)
(* Pages.                                                                  *)
(***************************************************************************)

(* Once destroy_headers has begun to free the headers the worker only      *)
(* meets freed memory; what is left of its life is then the step Crash.    *)
WorkerLives == status = "up" /\ (main.phase = "destroy" => main.page = 1)
MainLives == status = "up"

MaxOf(m, n) == IF m >= n THEN m ELSE n

AddrOf(h, offset) == SlotStart(h.arena_id) + offset

VectorDelete(s, i) ==
    [j \in 1 .. (Len(s) - 1) |-> IF j < i THEN s[j] ELSE s[j + 1]]

(* Mutant: the search waits for a page that is clean. *)
NotClean == {p \in DOMAIN headers : headers[p].state # "CLEAN"}

Processing == {p \in DOMAIN headers : headers[p].state = "PROCESSING"}

(* Mutant: a page lands one page behind its place. *)
WritePageBehind(pages, pos, image) ==
    [p \in 1 .. MaxOf(pos + 1, Len(pages)) |->
        IF p = pos + 1 THEN image ELSE IF p <= Len(pages) THEN pages[p] ELSE {}]

(* The file offset decides where a write lands; pages past the end of the  *)
(* file are a hole that reads as zeros.                                    *)
WritePage(pages, pos, image) ==
    [p \in 1 .. MaxOf(pos, Len(pages)) |->
        IF p = pos THEN image ELSE IF p <= Len(pages) THEN pages[p] ELSE {}]

(* A modifying operation while a snapshot is being written. *)
Overlap == quiet' = (quiet /\ main.phase = "none")

(* arena_get_next_page, and the lru_touch_page(touched) with which both    *)
(* callers go on.  A page that loses its slot is written to the file as it *)
(* is; its header keeps saying that it is in memory, in that slot.         *)
arena_get_next_page(slot, touched) ==
    \/ /\ uploaded < ArenaPages
       /\ slot = uploaded + 1
       /\ uploaded' = uploaded + 1
       /\ lru' = lru_touch_page(lru, touched)
       /\ UNCHANGED <<disk, file, saved>>
    \/ /\ uploaded = ArenaPages
       /\ \E v \in DOMAIN headers :
            /\ LruStopsAt(lru, Processing, v)
            /\ slot = headers[v].arena_id
            /\ lru' = lru_touch_page(least_recent_page(lru, v), touched)
            /\ file' = [file EXCEPT
                    !.pages = WritePage(file.pages, v, PageImage(mem, slot))]
            /\ disk' = [disk EXCEPT !.lsn = MaxOf(disk.lsn, headers[v].pLSN),
                                    !.pos = v + 1]
       /\ saved' = Unsaved
       /\ UNCHANGED uploaded

(* Mutants: the header behind the slot is touched; the page is read from   *)
(* the place in the file that has the number of the slot.                  *)
HeatTouchesNext(p, slot) ==
    /\ arena_get_next_page(slot, slot + 1)
    /\ mem' = Upload(mem, slot, file'.pages[p])

HeatReadsSlot(p, slot) ==
    /\ arena_get_next_page(slot, slot)
    /\ mem' = Upload(mem, slot,
          IF slot \in DOMAIN file'.pages THEN file'.pages[slot] ELSE {})

(* heat_page touches the header whose index is the arena slot, not the     *)
(* page.  It shares the offset of db.snap with the main thread.            *)
heat_page(p, slot) ==
    /\ arena_get_next_page(slot, slot)
    /\ mem' = Upload(mem, slot, file'.pages[p])

(* The damage done by taking a slot, and by moving the file offset between *)
(* the lseek and the write of a page in the other thread.                  *)
SlotDamage ==
    (IF uploaded = ArenaPages THEN {"evict"} ELSE {})
        \cup (IF main.pc = "write" THEN {"race"} ELSE {})

(* page_value_set on the header h, which becomes page p. *)
page_value_set(p, h, k, v) ==
    /\ headers' = [q \in 1 .. MaxOf(p, Len(headers)) |->
            IF q # p THEN headers[q] ELSE
            [h EXCEPT !.location = "INMEMORY",
                      !.keys = Append(h.keys, [key |-> k, offset |-> h.offset_bytes]),
                      !.offset_bytes =
                          (h.offset_bytes + RecordBytes(Size[v])) % UINT16]]
    /\ mem' = Store(mem, AddrOf(h, h.offset_bytes), v)
    /\ worker' = [NoOp EXCEPT !.pc = "set", !.cmd = "INSERT", !.key = k, !.val = v,
                              !.meta = [page |-> p, id |-> Len(h.keys) + 1]]
    /\ Overlap

(* The main thread is moving the values of page p.  The steps of the       *)
(* worker on that page are not atomic against those of the main thread.    *)
BeingMoved(p) == main.pc = "defrag" /\ main.page = p

SetDamage(p, h, v) ==
    (IF h.offset_bytes + RecordBytes(Size[v]) > PAGE_SIZE THEN {"overflow"} ELSE {})
        \cup (IF h.location = "INDISK" THEN {"cold"} ELSE {})
        \cup (IF BeingMoved(p) THEN {"race"} ELSE {})
        \cup (IF h.state = "CLEAN" \/ (main.pc = "clean" /\ main.page = p)
              THEN {"clean"} ELSE {})

(***************************************************************************)
(* headers_alloc_page walks the headers in order.  It stops at the first   *)
(* one with enough room (not counting the length field, in 16 bit          *)
(* arithmetic) or, dividing by zero, without keys.                         *)
(***************************************************************************)
Fits(h, size) == (PAGE_SIZE - h.offset_bytes) % UINT16 >= size

StopsScan(p, size) == Fits(headers[p], size) \/ Len(headers[p].keys) = 0

FirstStop(p, size) ==
    StopsScan(p, size) /\ \A q \in 1 .. (p - 1) : ~StopsScan(q, size)

NoStop(size) == \A p \in DOMAIN headers : ~StopsScan(p, size)

(* The second condition of the walk.  A negative number of free bytes is   *)
(* a huge size_t; the factor is computed by an integer division.           *)
WorthDefragmentation(h, size) ==
    /\ \/ h.fragmentated_bytes > PAGE_SIZE
       \/ (PAGE_SIZE - h.fragmentated_bytes) \div Len(h.keys) >= size
    /\ (h.fragmentated_bytes \div PAGE_SIZE) * Len(h.keys)
            >= FGDB_FRAGMENTATION_FACTOR

Prefered(p, size) ==
    /\ WorthDefragmentation(headers[p], size)
    /\ \A q \in (p + 1) .. Len(headers) : ~WorthDefragmentation(headers[q], size)

NoPrefered(size) ==
    \A p \in DOMAIN headers : ~WorthDefragmentation(headers[p], size)

NewHeader(slot) ==
    [keys |-> <<>>, offset_bytes |-> 0, fragmentated_bytes |-> 0,
     arena_id |-> slot, pLSN |-> 0, state |-> "DIRTY", location |-> "INMEMORY"]
-----------------------------------------------------------------------------
(***************************************************************************)
(* The worker.  An operation ends in a reply that request_reply, called    *)
(* next, serialises: a reply with a value still points into the arena.     *)
(***************************************************************************)
Starts(k) == WorkerLives /\ worker.pc = "idle" /\ k \in Key

Reply(cmd, k, code) ==
    worker' = [NoOp EXCEPT !.pc = "reply", !.cmd = cmd, !.key = k, !.code = code]

(* The next LSN; the log itself is the subject of another module. *)
write_log == ops < MaxOps /\ ops' = ops + 1 /\ LSN' = LSN + 1

(* Mutant: the branches of the lookup are swapped. *)
KeyCodeSwapped(k) == IF hashmap[k] # NoMeta THEN "KEY_NOT_FOUND" ELSE "OK"

KeyCode(k) == IF hashmap[k] = NoMeta THEN "KEY_NOT_FOUND" ELSE "OK"

operation_peek(k) ==
    /\ Starts(k)
    /\ Reply("PEEK", k, KeyCode(k))
    /\ UNCHANGED <<status, arenaVars, hashmap, LSN, disk, file, main, defrag, history>>

operation_select_missing(k) ==
    /\ Starts(k)
    /\ hashmap[k] = NoMeta
    /\ Reply("SELECT", k, "KEY_NOT_FOUND")
    /\ UNCHANGED <<status, arenaVars, hashmap, LSN, disk, file, main, defrag, history>>

(* Page p is in the arena, in this slot: page_value_get and                *)
(* page_value_unset heat it first when it is on the disk.                  *)
Warm(p, slot, harm) ==
    \/ /\ headers[p].location = "INMEMORY"
       /\ slot = headers[p].arena_id
       /\ damage' = damage \cup harm
       /\ UNCHANGED <<uploaded, mem, lru, disk, file, saved>>
    \/ /\ headers[p].location = "INDISK"
       /\ heat_page(p, slot)
       /\ damage' = damage \cup harm \cup SlotDamage

(* operation_select has no return statement; the caller finds the reply in *)
(* the return register all the same.                                       *)
operation_select(k) ==
    /\ Starts(k)
    /\ hashmap[k] # NoMeta
    /\ LET p == hashmap[k].page
           offset == headers[p].keys[hashmap[k].id].offset
       IN  \E slot \in Slot :
             /\ Warm(p, slot, {})
             /\ headers' = [headers EXCEPT ![p] =
                    [@ EXCEPT !.arena_id = slot, !.location = "INMEMORY"]]
             /\ worker' = [NoOp EXCEPT !.pc = "reply", !.cmd = "SELECT", !.key = k,
                    !.code = "OK", !.meta = hashmap[k], !.expect = kv[k],
                    !.addr = SlotStart(slot) + offset, !.held = ~BeingMoved(p)]
    /\ UNCHANGED <<status, hashmap, LSN, main, defrag, kv, quiet, ops>>

operation_delete_missing(k) ==
    /\ Starts(k)
    /\ hashmap[k] = NoMeta
    /\ Reply("DELETE", k, "KEY_NOT_FOUND")
    /\ UNCHANGED <<status, arenaVars, hashmap, LSN, disk, file, main, defrag, history>>

(* hashmap_delete_key, which frees the key that the page header still      *)
(* points to, and write_log.                                               *)
operation_delete(k) ==
    /\ Starts(k)
    /\ hashmap[k] # NoMeta
    /\ write_log
    /\ hashmap' = [hashmap EXCEPT ![k] = NoMeta]
    /\ worker' = [NoOp EXCEPT !.pc = "unset", !.cmd = "DELETE", !.key = k,
                              !.meta = hashmap[k], !.expect = kv[k]]
    /\ kv' = [kv EXCEPT ![k] = None]
    /\ Overlap
    /\ UNCHANGED <<status, arenaVars, disk, file, main, defrag, saved, damage>>

(* Mutant: the recount begins one key too late. *)
RecountLate(keys, id) ==
    [k \in Key |-> IF \E j \in (id + 1) .. Len(keys) : keys[j].key = k
                   THEN [hashmap[k] EXCEPT !.id = @ - 1]
                   ELSE hashmap[k]]

(* The indices of the keys behind the deleted one, in their key_meta_t. *)
Recount(keys, id) ==
    [k \in Key |-> IF \E j \in id .. Len(keys) : keys[j].key = k
                   THEN [hashmap[k] EXCEPT !.id = @ - 1]
                   ELSE hashmap[k]]

(* page_value_unset and update_lsn; the reply points at the dead record. *)
page_value_unset ==
    /\ WorkerLives /\ worker.pc = "unset"
    /\ LET p    == worker.meta.page
           id   == worker.meta.id
           h    == headers[p]
           keys == VectorDelete(h.keys, id)
       IN  \E slot \in Slot :
             LET addr == SlotStart(slot) + h.keys[id].offset
             IN  /\ Warm(p, slot, IF BeingMoved(p) THEN {"race"} ELSE {})
                 /\ \E size \in SizesAt(mem', addr) :
                      headers' = [headers EXCEPT ![p] =
                        [h EXCEPT !.arena_id = slot, !.location = "INMEMORY",
                                  !.keys = keys, !.state = "DIRTY", !.pLSN = LSN,
                                  !.fragmentated_bytes =
                                      (h.fragmentated_bytes + size) % UINT16]]
                 /\ hashmap' = Recount(keys, id)
                 /\ worker' = [worker EXCEPT !.pc = "reply", !.code = "OK",
                                             !.addr = addr, !.held = TRUE]
    /\ Overlap
    /\ UNCHANGED <<status, LSN, main, defrag, kv, ops>>

operation_insert_refused(k, v) ==
    /\ Starts(k)
    /\ \/ Size[v] = 0 /\ Reply("INSERT", k, "VALUE_REQUIRED")
       \/ Size[v] # 0 /\ hashmap[k] # NoMeta /\ Reply("INSERT", k, "KEY_EXISTS")
    /\ UNCHANGED <<status, arenaVars, hashmap, LSN, disk, file, main, defrag, history>>

(* The guard of an insertion that goes through, and its write_log. *)
LoggedInsert(k, v) ==
    /\ Starts(k)
    /\ Size[v] # 0
    /\ hashmap[k] = NoMeta
    /\ write_log

(* The first page with enough room.  A page of an earlier life is not      *)
(* heated: the value goes to the slot its header holds, which is the first *)
(* one by calloc.                                                          *)
insert_into_page(k, v) ==
    /\ LoggedInsert(k, v)
    /\ \E p \in DOMAIN headers :
         /\ FirstStop(p, Size[v]) /\ Fits(headers[p], Size[v])
         /\ page_value_set(p, headers[p], k, v)
         /\ damage' = damage \cup SetDamage(p, headers[p], v)
    /\ UNCHANGED <<status, uploaded, lru, hashmap, disk, file, main, defrag, kv, saved>>

(* Division by the number of keys of a page that has none. *)
insert_divides_by_zero(k, v) ==
    /\ Starts(k)
    /\ Size[v] # 0
    /\ hashmap[k] = NoMeta
    /\ \E p \in DOMAIN headers :
         FirstStop(p, Size[v]) /\ ~Fits(headers[p], Size[v])
    /\ Die("SIGFPE")
    /\ UNCHANGED file

(* No page has room: headers_new_page, then page_value_set on it. *)
insert_into_new_page(k, v) ==
    /\ LoggedInsert(k, v)
    /\ NoStop(Size[v]) /\ NoPrefered(Size[v])
    /\ Len(headers) < MaxPages
    /\ \E slot \in Slot :
         LET p == Len(headers) + 1
         IN  /\ arena_get_next_page(slot, p)
             /\ page_value_set(p, NewHeader(slot), k, v)
             /\ damage' = damage \cup SlotDamage \cup SetDamage(p, NewHeader(slot), v)
    /\ UNCHANGED <<status, hashmap, main, defrag, kv>>

(* arena_defragmentate_page begins, in thread t, on page p. *)
BeginDefrag(t, p) ==
    /\ defrag' = [defrag EXCEPT ![t] = [page |-> p, block |-> 1, offset |-> 0]]
    /\ headers' = [headers EXCEPT ![p].state = "PROCESSING"]

(* The last page of the walk that is worth a defragmentation. *)
insert_defragmentates(k, v) ==
    /\ LoggedInsert(k, v)
    /\ NoStop(Size[v])
    /\ \E p \in DOMAIN headers :
         /\ Prefered(p, Size[v])
         /\ BeginDefrag("worker", p)
         /\ worker' = [NoOp EXCEPT !.pc = "defrag", !.cmd = "INSERT", !.key = k, !.val = v]
         /\ damage' = damage \cup
                (IF headers[p].state = "PROCESSING" THEN {"race"} ELSE {})
    /\ Overlap
    /\ UNCHANGED <<status, uploaded, mem, lru, hashmap, disk, file, main, kv, saved>>

(* The assertion after the defragmentation asks for a page that is full    *)
(* enough; then page_value_set.                                            *)
insert_after_defrag ==
    /\ WorkerLives /\ worker.pc = "defragmented"
    /\ LET p == defrag["worker"].page
       IN  \/ /\ headers[p].offset_bytes >= Size[worker.val]
              /\ page_value_set(p, headers[p], worker.key, worker.val)
              /\ damage' = damage \cup SetDamage(p, headers[p], worker.val)
              /\ defrag' = [defrag EXCEPT !["worker"] = NoDefrag]
              /\ UNCHANGED <<status, uploaded, lru, hashmap, LSN, disk, file, main,
                             kv, saved, ops>>
           \/ /\ headers[p].offset_bytes < Size[worker.val]
              /\ Die("SIGABRT")
              /\ UNCHANGED file

(* update_lsn, hashmap_insert_key and the reply of operation_insert. *)
insert_key ==
    /\ WorkerLives /\ worker.pc = "set"
    /\ headers' = [headers EXCEPT ![worker.meta.page].pLSN = LSN]
    /\ hashmap' = [hashmap EXCEPT ![worker.key] = worker.meta]
    /\ kv' = [kv EXCEPT ![worker.key] = worker.val]
    /\ worker' = [NoOp EXCEPT !.pc = "reply", !.cmd = "INSERT", !.key = worker.key,
                              !.code = "OK", !.expect = worker.val]
    /\ Overlap
    /\ UNCHANGED <<status, uploaded, mem, lru, LSN, disk, file, main, defrag, saved,
                   damage, ops>>

(* operation_update returns NULL, which request_reply dereferences. *)
operation_update(k) == Starts(k) /\ Die("SIGSEGV") /\ UNCHANGED file

(* Mutant: no reply to an insertion of a key that exists. *)
NoReplyToExisting ==
    /\ WorkerLives /\ worker.pc = "reply" /\ worker.code # "KEY_EXISTS"
    /\ worker' = NoOp
    /\ UNCHANGED <<status, arenaVars, hashmap, LSN, disk, file, main, defrag, history>>

(* serialize_reply copies the value the reply points at. *)
request_reply ==
    /\ WorkerLives /\ worker.pc = "reply"
    /\ worker' = NoOp
    /\ UNCHANGED <<status, arenaVars, hashmap, LSN, disk, file, main, defrag, history>>
-----------------------------------------------------------------------------
(***************************************************************************)
(* arena_defragmentate_page, run by either thread: one step per block.     *)
(***************************************************************************)
Defragmenting(t) ==
    IF t = "worker" THEN WorkerLives /\ worker.pc = "defrag"
                    ELSE MainLives /\ main.pc = "defrag"

(* A reply into page p is no longer protected once its blocks move. *)
LetGo(t, p) ==
    IF t = "main" /\ worker.pc = "reply" /\ worker.meta.page = p
    THEN [worker EXCEPT !.held = FALSE] ELSE worker

(* A record is moved to its place; its length is then read a second time,  *)
(* from where it was, to find the place of the next one.                   *)
DefragBlock(t) ==
    /\ Defragmenting(t)
    /\ LET d == defrag[t]
           h == headers[d.page]
           from == AddrOf(h, h.keys[d.block].offset)
           to == AddrOf(h, d.offset)
       IN  /\ d.block <= Len(h.keys)
           /\ \E size \in SizesAt(mem, from) :
                /\ mem' = Move(mem, from, to, size)
                /\ \E again \in SizesAfterMove(from, to, size) :
                     defrag' = [defrag EXCEPT ![t].block = @ + 1,
                                              ![t].offset = @ + RecordBytes(again)]
                /\ damage' = damage \cup
                     (IF SizesAfterMove(from, to, size) = {size} THEN {} ELSE {"overlap"})
           /\ headers' = [headers EXCEPT
                    ![d.page].keys[d.block].offset = d.offset % UINT16]
           /\ worker' = LetGo(t, d.page)
    /\ UNCHANGED <<status, uploaded, lru, hashmap, LSN, disk, file, main, kv, saved,
                   quiet, ops>>

(* After the last block.  The number of bytes to clear is negative, that   *)
(* is huge, when the records do not fit the page.                          *)
DefragDone(t) ==
    /\ Defragmenting(t)
    /\ LET d == defrag[t]
           h == headers[d.page]
           end == d.offset % UINT16
       IN  /\ d.block > Len(h.keys)
           /\ \/ /\ end <= PAGE_SIZE
                 /\ mem' = Clobber(mem, AddrOf(h, d.offset), PAGE_SIZE - end)
                 /\ headers' = [headers EXCEPT ![d.page] =
                        [@ EXCEPT !.fragmentated_bytes = 0, !.offset_bytes = end,
                                  !.state = "DIRTY"]]
                 /\ IF t = "worker"
                    THEN /\ worker' = [worker EXCEPT !.pc = "defragmented"]
                         /\ UNCHANGED <<main, defrag>>
                    ELSE /\ worker' = LetGo(t, d.page)
                         /\ main' = [main EXCEPT !.pc = "seek"]
                         /\ defrag' = [defrag EXCEPT ![t] = NoDefrag]
                 /\ UNCHANGED <<status, uploaded, lru, hashmap, LSN, disk, file, history>>
              \/ /\ end > PAGE_SIZE
                 /\ Die("SIGSEGV")
                 /\ UNCHANGED file
-----------------------------------------------------------------------------
(***************************************************************************)
(* The main thread in its signal handlers.                                 *)
(***************************************************************************)
BetweenOperations == worker.pc \in {"idle", "reply"}

(* SIGUSR1 *)
snapshot_handler ==
    /\ MainLives /\ main.pc = "idle"
    /\ disk.keys_dumped < MaxDumped
    /\ main' = [pc |-> "scan", phase |-> "snapshot", page |-> 1, exiting |-> FALSE]
    /\ quiet' = BetweenOperations
    /\ UNCHANGED <<status, arenaVars, hashmap, LSN, disk, file, worker, defrag, kv,
                   saved, damage, ops>>

(* SIGTERM or SIGINT, also on top of a snapshot that SIGUSR1 began: that   *)
(* one is never taken up again, and leaves the page it works on as it is.  *)
shutdown_handler ==
    /\ MainLives /\ ~main.exiting
    /\ main' = [pc |-> "scan", phase |-> "snapshot", page |-> 1, exiting |-> TRUE]
    /\ defrag' = [defrag EXCEPT !["main"] = NoDefrag]
    /\ quiet' = (BetweenOperations
                    /\ (main.pc = "idle" \/ (main.pc \in {"scan", "keys", "list"} /\ quiet)))
    /\ UNCHANGED <<status, arenaVars, hashmap, LSN, disk, file, worker, kv, saved,
                   damage, ops>>

(* Mutant: the loop does not advance over a page that needs no dump. *)
SkipPageStuck ==
    /\ MainLives /\ main.pc = "scan" /\ main.page <= Len(headers)
    /\ headers[main.page].state # "DIRTY"
    /\ UNCHANGED vars

(* A page that needs no dump: the loop of snapshot goes on, that of        *)
(* destroy_headers frees the header first.                                 *)
SkipPage ==
    /\ MainLives /\ main.pc = "scan" /\ main.page <= Len(headers)
    /\ headers[main.page].state # "DIRTY"
    /\ main' = [main EXCEPT !.page = @ + 1]
    /\ UNCHANGED <<status, arenaVars, hashmap, LSN, disk, file, worker, defrag, history>>

(* A dirty page, in the loop of snapshot or in destroy_header. *)
BeginDump ==
    /\ MainLives /\ main.pc = "scan" /\ main.page <= Len(headers)
    /\ headers[main.page].state = "DIRTY"
    /\ BeginDefrag("main", main.page)
    /\ main' = [main EXCEPT !.pc = "defrag"]
    /\ UNCHANGED <<status, uploaded, mem, lru, hashmap, LSN, disk, file, worker, history>>

(* disk_dump_page up to its lseek. *)
SeekPage ==
    /\ MainLives /\ main.pc = "seek"
    /\ disk' = [disk EXCEPT !.lsn = MaxOf(disk.lsn, headers[main.page].pLSN),
                            !.pos = main.page]
    /\ main' = [main EXCEPT !.pc = "write"]
    /\ UNCHANGED <<status, arenaVars, hashmap, LSN, file, worker, defrag, history>>

(* The write of disk_dump_page, wherever the file offset now is. *)
WriteDirtyPage ==
    /\ MainLives /\ main.pc = "write"
    /\ file' = [file EXCEPT !.pages = WritePage(file.pages, disk.pos,
                    PageImage(mem, headers[main.page].arena_id))]
    /\ disk' = [disk EXCEPT !.pos = @ + 1]
    /\ main' = [main EXCEPT !.pc = "clean"]
    /\ saved' = Unsaved
    /\ UNCHANGED <<status, arenaVars, hashmap, LSN, worker, defrag, kv, quiet,
                   damage, ops>>

(* snapshot marks the page clean, destroy_header frees its header. *)
EndDump ==
    /\ MainLives /\ main.pc = "clean"
    /\ headers' = IF main.phase = "snapshot"
                  THEN [headers EXCEPT ![main.page].state = "CLEAN"] ELSE headers
    /\ main' = [main EXCEPT !.pc = "scan", !.page = @ + 1]
    /\ UNCHANGED <<status, uploaded, mem, lru, hashmap, LSN, disk, file, worker, defrag,
                   history>>

(* disk_dump_keys begins to overwrite the key file. *)
BeginKeys ==
    /\ MainLives /\ main.pc = "scan" /\ main.phase = "snapshot"
    /\ main.page > Len(headers)
    /\ main' = [main EXCEPT !.pc = "keys", !.page = 1]
    /\ UNCHANGED <<status, arenaVars, hashmap, LSN, disk, file, worker, defrag, history>>

(* The offset of a header and the number of its keys, before the keys.  As *)
(* long as these are not written, those that were there are in their place. *)
DumpHeader ==
    /\ MainLives /\ main.pc = "keys" /\ main.page <= Len(headers)
    /\ file' = [file EXCEPT
            !.state = IF main.page = 1 THEN "part" ELSE file.state,
            !.headers = [p \in 1 .. main.page |->
                IF p < main.page THEN file.headers[p]
                ELSE [offset_bytes |-> headers[main.page].offset_bytes,
                      keys |-> headers[main.page].keys]]]
    /\ main' = [main EXCEPT !.pc = "list"]
    /\ saved' = Unsaved
    /\ UNCHANGED <<status, arenaVars, hashmap, LSN, disk, worker, defrag, kv, quiet,
                   damage, ops>>

(* The keys behind that number. *)
KeysListed(state) ==
    [file EXCEPT !.state = state, !.headers[main.page].keys = headers[main.page].keys]

(* The keys of one header.  When an operation has changed their number     *)
(* since it was written, the file cannot be read.  Between the page and    *)
(* the hash map an operation has a key in hand that the header lists.  Of  *)
(* an insertion, weak_key is not set yet; of a deletion, it was freed, and *)
(* what is read there either ends the process or gets into the file.       *)
DumpKeys ==
    /\ MainLives /\ main.pc = "list"
    /\ LET keys == headers[main.page].keys
           counted == Len(file.headers[main.page].keys) = Len(keys)
           inHand(pc) == worker.pc = pc /\ worker.meta.page = main.page
           dumped(state) ==
               /\ file' = KeysListed(state)
               /\ disk' = [disk EXCEPT !.keys_dumped = @ + Len(keys)]
               /\ main' = [main EXCEPT !.pc = "keys", !.page = @ + 1]
               /\ saved' = Unsaved
               /\ UNCHANGED <<status, arenaVars, hashmap, LSN, worker, defrag, kv,
                              quiet, damage, ops>>
       IN  \/ ~inHand("set") /\ ~inHand("unset")
              /\ dumped(IF counted THEN file.state ELSE "garbled")
           \/ inHand("unset") /\ dumped("garbled")
           \/ /\ inHand("set") \/ inHand("unset")
              /\ file' = [file EXCEPT !.state = "garbled"]
              /\ Die("SIGSEGV")

(* disk_dump_keys truncates the key file behind the last header. *)
EndKeys ==
    /\ MainLives /\ main.pc = "keys" /\ main.page > Len(headers)
    /\ file' = [file EXCEPT
            !.headers = [p \in 1 .. Len(headers) |-> file.headers[p]],
            !.state = IF file.state = "garbled" THEN "garbled" ELSE "whole"]
    /\ main' = IF main.exiting
               THEN [main EXCEPT !.pc = "scan", !.phase = "destroy", !.page = 1]
               ELSE MainIdle
    /\ saved' = IF quiet /\ damage = {} THEN Saved(kv) ELSE Unsaved
    /\ UNCHANGED <<status, arenaVars, hashmap, LSN, disk, worker, defrag, kv, quiet,
                   damage, ops>>

(* The rest of shutdown_handler: destroy_disk writes the heads of the two  *)
(* files, and the process exits.                                           *)
destroy_disk ==
    /\ MainLives /\ main.pc = "scan" /\ main.phase = "destroy"
    /\ main.page > Len(headers)
    /\ file' = [file EXCEPT !.nkeys = disk.keys_dumped, !.lsn = disk.lsn]
    /\ Die("exit")

(* The process is killed. *)
Crash == status = "up" /\ Die("killed") /\ UNCHANGED file
-----------------------------------------------------------------------------
(***************************************************************************)
(* db_start                                                                *)
(***************************************************************************)

(* Mutant: the last page of the file is not counted. *)
LoadedPagesButLast ==
    IF Len(file.pages) <= Len(file.headers)
    THEN MaxOf(Len(file.pages) - 1, 0) ELSE Len(file.headers)

(* Headers are read until the pages or the key file end. *)
LoadedPages ==
    IF Len(file.pages) < Len(file.headers) THEN Len(file.pages) ELSE Len(file.headers)

LoadedKeys ==
    {k \in Key : \E p \in 1 .. LoadedPages : \E i \in DOMAIN file.headers[p].keys :
                    file.headers[p].keys[i].key = k}

(* hashmap_insert_key refuses a key that the key file lists a second time. *)
LoadedOnce ==
    \A p, q \in 1 .. LoadedPages :
        \A i \in DOMAIN file.headers[p].keys : \A j \in DOMAIN file.headers[q].keys :
            file.headers[p].keys[i].key = file.headers[q].keys[j].key => p = q /\ i = j

(* The place of k that headers_push_key records while the keys are read. *)
LoadedMeta(k) ==
    CHOOSE m \in UNION {{[page |-> p, id |-> i] : i \in DOMAIN file.headers[p].keys} :
                        p \in 1 .. LoadedPages} :
        file.headers[m.page].keys[m.id].key = k

(* What the files say about key k. *)
Decoded(k) ==
    LET m == LoadedMeta(k)
    IN  IF k \notin LoadedKeys THEN None
        ELSE ReadAt(file.pages[m.page], file.headers[m.page].keys[m.id].offset)

(* The headers come back clean and on the disk, in no slot yet, which      *)
(* calloc makes the first one.  The log starts again at LSN 0.             *)
db_start ==
    /\ status # "up" /\ file.state = "whole"
    /\ LoadedOnce /\ Cardinality(LoadedKeys) >= file.nkeys
    /\ status' = "up"
    /\ headers' = [p \in 1 .. LoadedPages |->
            [keys |-> file.headers[p].keys,
             offset_bytes |-> file.headers[p].offset_bytes,
             fragmentated_bytes |-> 0, arena_id |-> 1, pLSN |-> file.lsn,
             state |-> "CLEAN", location |-> "INDISK"]]
    /\ hashmap' = [k \in Key |-> IF k \in LoadedKeys THEN LoadedMeta(k) ELSE NoMeta]
    /\ disk' = [lsn |-> file.lsn, keys_dumped |-> 0, pos |-> 1]
    /\ kv' = [k \in Key |-> Decoded(k)]
    /\ damage' = IF saved.ok THEN {} ELSE {"torn"}
    /\ UNCHANGED <<uploaded, mem, lru, LSN, file, main, worker, defrag, saved, quiet,
                   ops>>

(* A start that ends at a key that is listed twice, or at the assertion on *)
(* the number of keys.                                                     *)
db_start_fails ==
    /\ status # "up" /\ file.state = "whole"
    /\ \/ ~LoadedOnce /\ status' = "failure"
       \/ LoadedOnce /\ Cardinality(LoadedKeys) < file.nkeys /\ status' = "SIGABRT"
    /\ UNCHANGED <<arenaVars, hashmap, LSN, disk, file, main, worker, defrag, history>>
-----------------------------------------------------------------------------
(* A new operation taken from the transaction queue. *)
Operation ==
    \E k \in Key :
        \/ operation_peek(k)
        \/ operation_select_missing(k) \/ operation_select(k)
        \/ operation_delete_missing(k) \/ operation_delete(k)
        \/ operation_update(k)
        \/ \E v \in Value :
              \/ operation_insert_refused(k, v)
              \/ insert_into_page(k, v)
              \/ insert_divides_by_zero(k, v)
              \/ insert_into_new_page(k, v)
              \/ insert_defragmentates(k, v)

(* The next step of the operation that the worker is executing. *)
WorkerStep ==
    \/ page_value_unset \/ insert_after_defrag \/ insert_key \/ request_reply
    \/ DefragBlock("worker") \/ DefragDone("worker")

(* The next step of the handler that the main thread is in. *)
MainStep ==
    \/ SkipPage \/ BeginDump \/ DefragBlock("main") \/ DefragDone("main")
    \/ SeekPage \/ WriteDirtyPage \/ EndDump \/ BeginKeys \/ DumpHeader \/ DumpKeys
    \/ EndKeys \/ destroy_disk

Signal == snapshot_handler \/ shutdown_handler

Next == Operation \/ WorkerStep \/ MainStep \/ Signal
            \/ Crash \/ db_start \/ db_start_fails

Spec == Init /\ [][Next]_vars

(* Both threads keep running while they have something to do. *)
FairSpec == Spec /\ WF_vars(WorkerStep) /\ WF_vars(MainStep)
-----------------------------------------------------------------------------
(* The values that the globals, the local variables of the two threads and *)
(* the files can have.                                                     *)
TypeOK ==
    /\ status \in {"up", "exit", "failure", "killed", "SIGFPE", "SIGABRT", "SIGSEGV"}
    /\ headers \in Seq(Header) /\ Len(headers) <= MaxPages
    /\ uploaded \in 0 .. ArenaPages
    /\ mem \in Memory
    /\ lru \in LruType
    /\ hashmap \in [Key -> Meta]
    /\ LSN \in Nat
    /\ disk \in [lsn : Nat, keys_dumped : Nat, pos : Nat]
    /\ file \in File
    /\ main \in Handler
    /\ worker \in Transaction
    /\ defrag \in [Thread -> [page : Nat, block : Nat, offset : Nat]]
    /\ kv \in Contents
    /\ saved \in [ok : BOOLEAN, kv : Contents]
    /\ quiet \in BOOLEAN
    /\ damage \in SUBSET Damage
    /\ ops \in Nat
-----------------------------------------------------------------------------
(* The key that an operation has already put into a page but not yet into  *)
(* the hash map, or taken out of the hash map but not yet out of its page. *)
InFlight(m) == worker.pc \in {"set", "unset"} /\ worker.meta = m

(* The hash map and the key vectors of the headers are inverse to each     *)
(* other, whatever the threads do and wherever the process died before:    *)
(* page_value_unset recounts exactly the right indices, and the keys read  *)
(* at a start come from a vector that was consistent.                      *)
IndexConsistent ==
    /\ \A k \in Key : hashmap[k] # NoMeta =>
         /\ hashmap[k].page \in DOMAIN headers
         /\ hashmap[k].id \in DOMAIN headers[hashmap[k].page].keys
         /\ headers[hashmap[k].page].keys[hashmap[k].id].key = k
    /\ \A p \in DOMAIN headers : \A i \in DOMAIN headers[p].keys :
         LET m == [page |-> p, id |-> i]
         IN  InFlight(m) \/ hashmap[headers[p].keys[i].key] = m

(* The value that a lookup of k would find: in the arena, or in the file   *)
(* for a page that is not heated yet.                                      *)
Stored(k) ==
    LET h == headers[hashmap[k].page]
        offset == h.keys[hashmap[k].id].offset
    IN  IF hashmap[k] = NoMeta THEN None
        ELSE IF h.location = "INMEMORY" THEN ReadAt(mem, AddrOf(h, offset))
        ELSE ReadAt(file.pages[hashmap[k].page], offset)

(* As long as none of the events in damage has happened, every key has the *)
(* value it was inserted with: through first-fit reuse of pages, moves by  *)
(* a defragmentation that is half done in the other thread, heating after  *)
(* a restart.  Inserting into a clean page only endangers the file.        *)
ReadBack ==
    status = "up" /\ damage \subseteq {"clean"} => \A k \in Key : Stored(k) = kv[k]

(* A reply that is being serialised says what the database holds or held,  *)
(* unless a snapshot moved the page under the pointer the reply keeps.     *)
ReplyCorrect ==
    worker.pc = "reply" /\ damage \subseteq {"clean"} =>
        /\ worker.code = "KEY_NOT_FOUND" => kv[worker.key] = None
        /\ worker.code = "KEY_EXISTS" => kv[worker.key] # None
        /\ worker.cmd = "PEEK" /\ worker.code = "OK" => kv[worker.key] # None
        /\ worker.cmd = "SELECT" /\ worker.held => ReadAt(mem, worker.addr) = kv[worker.key]
        /\ worker.cmd = "DELETE" /\ worker.held => ReadAt(mem, worker.addr) = worker.expect

(* A page that the header calls clean, so that no snapshot will write it,  *)
(* is in db.snap with all the values that the header lists, at the offsets *)
(* it lists: clearing the state after the dump loses no deletion or        *)
(* defragmentation that came between.                                      *)
CleanPageOnDisk ==
    damage = {} =>
        \A p \in DOMAIN headers : headers[p].state = "CLEAN" =>
            /\ p \in DOMAIN file.pages
            /\ \A i \in DOMAIN headers[p].keys :
                 \/ InFlight([page |-> p, id |-> i])
                 \/ ReadAt(file.pages[p], headers[p].keys[i].offset)
                        = kv[headers[p].keys[i].key]

(* Once a snapshot was completed without a modifying operation meanwhile,  *)
(* and until the next page is written to db.snap, the files hold exactly   *)
(* the contents of that moment, wherever the process dies.                 *)
Recoverable ==
    saved.ok /\ file.state = "whole" => \A k \in Key : Decoded(k) = saved.kv[k]

(* Eviction finds a page: while the arena is full the LRU list is not      *)
(* empty, so least_recent_page does not follow a NULL bottom; and heating  *)
(* touches a header that exists, although it is looked up by slot.         *)
EvictionFindsPage ==
    /\ uploaded > 0 => lru.bottom # NULL
    /\ (\E p \in DOMAIN headers : headers[p].location = "INDISK") =>
          IF uploaded < ArenaPages THEN uploaded < Len(headers)
          ELSE \A p \in DOMAIN headers : headers[p].arena_id <= Len(headers)

(* The worker finishes every operation, unless the process ends first. *)
OperationsFinish == []<>(worker.pc = "idle")

(* No handler stays on one page for ever: neither the worker that fills    *)
(* the page while its blocks are moved nor a second signal keeps it there. *)
(* (That the worker adds no pages faster than the handler passes them is   *)
(* another matter.)                                                        *)
HandlerMovesOn ==
    []<>(main.pc = "idle") \/ []<><<main'.page # main.page>>_main

(* least_recent_page finds no page that it may take. *)
Spins ==
    /\ uploaded = ArenaPages /\ lru.bottom # NULL
    /\ ~ \E p \in DOMAIN headers : LruStopsAt(lru, Processing, p)

(* Whenever a worker in need of a slot would spin, since every page of the *)
(* LRU list is being defragmentated, one of them becomes free, also when   *)
(* the handler that moves it is itself interrupted for good.               *)
SpinEnds == []<>~Spins
-----------------------------------------------------------------------------
(* TODO.md: access to the data is durable.  After an orderly shutdown that *)
(* no operation overlapped, the files hold the contents of the database.   *)
(* page_value_set does not mark its page dirty.                            *)
DurableShutdown ==
    status = "exit" /\ quiet /\ damage \subseteq {"clean"} =>
        \A k \in Key : Decoded(k) = kv[k]
=============================================================================
