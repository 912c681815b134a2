---------------------------- MODULE StorageProofs ----------------------------
(***************************************************************************)
(* For any keys, values, page size and number of pages: the variables of   *)
(* the storage engine keep their types, and the hash map and the key       *)
(* vectors of the page headers stay inverse to each other, whatever the    *)
(* worker, the signal handlers, crashes and restarts do.                   *)
(*                                                                         *)
(* Neither is inductive alone.  The index of a key behind a deleted one is *)
(* decremented, so that it is a number because the index was consistent;   *)
(* and the index is consistent in the middle of an operation because the   *)
(* worker's key_meta_t points at its key.  After a restart it comes from   *)
(* the key file, in which db_start has found no key twice.                 *)
(***************************************************************************)
EXTENDS Storage, ArenaProofs, FiniteSetTheorems

(* The key that stands at place m in the headers. *)
Holds(m, k) ==
    /\ m.page \in DOMAIN headers
    /\ m.id \in DOMAIN headers[m.page].keys
    /\ headers[m.page].keys[m.id].key = k

(* Between the page and the hash map: the worker knows where its key is.   *)
WorkerPoints ==
    worker.pc \in {"set", "unset"} =>
        /\ worker.key \in Key
        /\ hashmap[worker.key] = NoMeta
        /\ Holds(worker.meta, worker.key)

(* An insertion carries a key that is not in the database, and a value.    *)
WorkerInserts ==
    /\ worker.pc = "set" => worker.val \in Value
    /\ worker.pc \in {"defrag", "defragmented"} =>
          /\ worker.key \in Key
          /\ worker.val \in Value
          /\ hashmap[worker.key] = NoMeta
          /\ defrag["worker"].page \in DOMAIN headers
          /\ defrag["worker"].block # 0

(* The main thread works on a page that exists. *)
MainOnPage ==
    /\ main.pc = "scan" => main.page # 0
    /\ main.pc \in {"defrag", "seek", "write", "clean", "list"} =>
          main.page \in DOMAIN headers
    /\ main.pc = "defrag" => /\ defrag["main"].page = main.page
                             /\ defrag["main"].block # 0

(* A page that is to be heated is in db.snap. *)
ColdPagesInFile ==
    \A p \in DOMAIN headers : headers[p].location = "INDISK" => p \in DOMAIN file.pages

(* The key file has no more headers than there can be pages, and those     *)
(* that disk_dump_keys has gone past are in it.                            *)
KeyFileFits ==
    /\ Len(file.headers) <= MaxPages
    /\ main.pc = "keys" => main.page # 0 /\ main.page - 1 <= Len(file.headers)
    /\ main.pc = "list" => main.page \in DOMAIN file.headers

(* A process that is down does nothing. *)
DownIsIdle == status # "up" => worker.pc = "idle" /\ main.pc = "idle"

Inv ==
    /\ TypeOK
    /\ IndexConsistent
    /\ WorkerPoints
    /\ WorkerInserts
    /\ MainOnPage
    /\ ColdPagesInFile
    /\ KeyFileFits
    /\ DownIsIdle
-----------------------------------------------------------------------------
(***************************************************************************)
(* Facts about the operators.                                              *)
(***************************************************************************)
LEMMA IsSequence ==
    ASSUME NEW S, NEW n \in Nat, NEW f \in [1 .. n -> S]
    PROVE  f \in Seq(S) /\ Len(f) = n
OBVIOUS

(* The fields of a page header. *)
LEMMA HeaderFields ==
    ASSUME NEW h \in Header
    PROVE  /\ h.keys \in Seq(HeaderKey) /\ h.offset_bytes \in Nat
           /\ h.fragmentated_bytes \in Nat /\ h.arena_id \in Slot /\ h.pLSN \in Nat
BY DEF Header

(* Every page of the database has a header. *)
LEMMA HeaderAt ==
    ASSUME TypeOK, NEW p \in DOMAIN headers
    PROVE  headers[p] \in Header /\ p \in PageId
BY LruAssumption DEF TypeOK, PageId

(* Every place in a key vector holds a key and an offset. *)
LEMMA KeyAt ==
    ASSUME TypeOK, NEW p \in DOMAIN headers, NEW i \in DOMAIN headers[p].keys
    PROVE  /\ headers[p].keys[i] \in HeaderKey
           /\ headers[p].keys[i].key \in Key /\ headers[p].keys[i].offset \in Nat
           /\ i \in Nat \ {0} /\ p \in Nat \ {0}
<1>1. headers[p].keys \in Seq(HeaderKey) BY HeaderAt, HeaderFields
<1>2. headers[p].keys[i] \in HeaderKey /\ i \in Nat \ {0} BY <1>1
<1>3. p \in Nat \ {0} BY DEF TypeOK
<1> QED BY <1>2, <1>3 DEF HeaderKey

(* 16 bit arithmetic gives a number. *)
LEMMA Modulus == ASSUME NEW n \in Int PROVE n % UINT16 \in Nat
<1>1. UINT16 \in Nat /\ UINT16 > 0 BY ArenaAssumption
<1> QED BY <1>1

(* An offset in the page of a header is an address of the arena. *)
LEMMA AddrOfType ==
    ASSUME NEW h \in Header, NEW n \in Nat PROVE AddrOf(h, n) \in Nat
<1>1. SlotStart(h.arena_id) \in Nat BY HeaderFields, SlotStartType
<1> QED BY <1>1 DEF AddrOf

(* Writing a page only lets the file grow. *)
LEMMA WritePageType ==
    ASSUME NEW pages \in Seq(Memory), NEW pos \in Nat, NEW image \in Memory
    PROVE  /\ WritePage(pages, pos, image) \in Seq(Memory)
           /\ DOMAIN pages \subseteq DOMAIN WritePage(pages, pos, image)
<1> DEFINE n == MaxOf(pos, Len(pages))
           w == WritePage(pages, pos, image)
<1>1. n \in Nat /\ Len(pages) <= n BY DEF MaxOf
<1>2. {} \in Memory BY DEF Memory
<1> HIDE DEF n
<1>3. w = [p \in 1 .. n |-> IF p = pos THEN image ELSE IF p <= Len(pages) THEN pages[p] ELSE {}]
  BY DEF WritePage, n
<1>4. \A p \in 1 .. n : w[p] \in Memory
  BY <1>2, <1>3
<1> HIDE DEF w
<1>5. w \in Seq(Memory) /\ DOMAIN w = 1 .. n
  BY <1>1, <1>3, <1>4
<1> QED BY <1>1, <1>5 DEF w

(* vector_delete: the elements behind the deleted one move up. *)
LEMMA VectorDeleteType ==
    ASSUME NEW S, NEW s \in Seq(S), NEW i \in DOMAIN s
    PROVE  /\ VectorDelete(s, i) \in Seq(S)
           /\ DOMAIN VectorDelete(s, i) = 1 .. (Len(s) - 1)
           /\ Len(VectorDelete(s, i)) = Len(s) - 1
           /\ \A j \in 1 .. (Len(s) - 1) :
                 VectorDelete(s, i)[j] = IF j < i THEN s[j] ELSE s[j + 1]
<1> DEFINE v == VectorDelete(s, i)
<1>1. v = [j \in 1 .. (Len(s) - 1) |-> IF j < i THEN s[j] ELSE s[j + 1]]
  BY DEF VectorDelete
<1>2. Len(s) \in Nat \ {0} /\ i \in 1 .. Len(s) OBVIOUS
<1>3. \A j \in 1 .. (Len(s) - 1) : v[j] \in S
  BY <1>1, <1>2
<1> HIDE DEF v
<1>4. v \in Seq(S) /\ DOMAIN v = 1 .. (Len(s) - 1) /\ Len(v) = Len(s) - 1
  BY <1>1, <1>2, <1>3
<1> QED BY <1>1, <1>4 DEF v
-----------------------------------------------------------------------------
(***************************************************************************)
(* Steps that leave the key vectors as they are.                           *)
(***************************************************************************)
KeysKept ==
    /\ DOMAIN headers' = DOMAIN headers
    /\ \A p \in DOMAIN headers :
         /\ DOMAIN headers'[p].keys = DOMAIN headers[p].keys
         /\ \A i \in DOMAIN headers[p].keys :
              headers'[p].keys[i].key = headers[p].keys[i].key

(* The worker stays between the page and the hash map, or is not there. *)
WorkerKept ==
    /\ worker.pc \in {"set", "unset"} =>
         worker'.pc \in {"set", "unset"}
    /\ worker'.pc \in {"set", "unset"} =>
         /\ worker.pc \in {"set", "unset"}
         /\ worker'.meta = worker.meta /\ worker'.key = worker.key

(* The index does not depend on anything but keys, hash map and worker. *)
LEMMA IndexKept ==
    ASSUME Inv, KeysKept, WorkerKept, hashmap' = hashmap
    PROVE  IndexConsistent' /\ WorkerPoints'
<1>1. \A m : InFlight(m)' <=> InFlight(m)
  BY DEF WorkerKept, InFlight
<1>2. IndexConsistent'
  <2>1. ASSUME NEW k \in Key, hashmap'[k] # NoMeta
        PROVE  /\ hashmap'[k].page \in DOMAIN headers'
               /\ hashmap'[k].id \in DOMAIN headers'[hashmap'[k].page].keys
               /\ headers'[hashmap'[k].page].keys[hashmap'[k].id].key = k
    BY <2>1 DEF Inv, IndexConsistent, KeysKept
  <2>2. ASSUME NEW p \in DOMAIN headers', NEW i \in DOMAIN headers'[p].keys
        PROVE  LET m == [page |-> p, id |-> i]
               IN  InFlight(m)' \/ hashmap'[headers'[p].keys[i].key] = m
    BY <1>1 DEF Inv, IndexConsistent, KeysKept
  <2> QED BY <2>1, <2>2 DEF IndexConsistent
<1>3. WorkerPoints'
  BY DEF Inv, WorkerPoints, WorkerKept, KeysKept, Holds
<1> QED BY <1>2, <1>3

(* One header is replaced by one with the same keys. *)
LEMMA OnePage ==
    ASSUME TypeOK, NEW p \in DOMAIN headers, NEW h \in Header,
           headers' = [headers EXCEPT ![p] = h],
           DOMAIN h.keys = DOMAIN headers[p].keys,
           \A i \in DOMAIN h.keys : h.keys[i].key = headers[p].keys[i].key
    PROVE  /\ headers' \in Seq(Header) /\ Len(headers') <= MaxPages
           /\ KeysKept
           /\ headers'[p] = h
           /\ \A q \in DOMAIN headers : q # p => headers'[q] = headers[q]
<1>1. /\ headers' \in Seq(Header) /\ Len(headers') = Len(headers)
      /\ DOMAIN headers' = DOMAIN headers
  BY DEF TypeOK
<1>2. /\ headers'[p] = h
      /\ \A q \in DOMAIN headers : q # p => headers'[q] = headers[q]
  BY DEF TypeOK
<1>3. KeysKept BY <1>1, <1>2 DEF KeysKept
<1> QED BY <1>1, <1>2, <1>3 DEF TypeOK
-----------------------------------------------------------------------------
(***************************************************************************)
(* Taking a slot, and heating a page.                                      *)
(***************************************************************************)
LEMMA FileFields ==
    ASSUME NEW f \in File
    PROVE  /\ f.pages \in Seq(Memory) /\ f.lsn \in Nat /\ f.nkeys \in Nat
           /\ f.state \in {"whole", "part", "garbled"}
           /\ f.headers \in Seq([offset_bytes : Nat, keys : Seq(HeaderKey)])
BY DEF File

(* Writing pages to db.snap leaves the headers in the key file alone. *)
LEMMA FilePages ==
    ASSUME NEW f \in File, NEW pages \in Seq(Memory)
    PROVE  /\ [f EXCEPT !.pages = pages] \in File
           /\ [f EXCEPT !.pages = pages].pages = pages
           /\ [f EXCEPT !.pages = pages].headers = f.headers
BY DEF File

(* The contents of an empty database are contents. *)
LEMMA EmptyTypes == Empty \in Contents /\ Unsaved \in [ok : BOOLEAN, kv : Contents]
BY DEF Empty, Contents, Content, Unsaved

(* The pages in the file stay, and the key file is not written. *)
FileGrows ==
    /\ file' \in File
    /\ file'.headers = file.headers
    /\ DOMAIN file.pages \subseteq DOMAIN file'.pages

(* arena_get_next_page keeps the types, and db.snap only grows by it. *)
LEMMA SlotTaken ==
    ASSUME TypeOK, NEW slot \in Slot, NEW touched \in PageId,
           arena_get_next_page(slot, touched)
    PROVE  /\ uploaded' \in 0 .. ArenaPages
           /\ lru' \in LruType
           /\ disk' \in [lsn : Nat, keys_dumped : Nat, pos : Nat]
           /\ saved' \in [ok : BOOLEAN, kv : Contents]
           /\ FileGrows
<1>0. uploaded \in Nat /\ ArenaPages \in Nat /\ disk \in [lsn : Nat, keys_dumped : Nat, pos : Nat]
  BY ArenaAssumption DEF TypeOK
<1>1. CASE uploaded < ArenaPages
  <2>0. ~(uploaded = ArenaPages) BY <1>0, <1>1
  <2>1. /\ uploaded' = uploaded + 1 /\ lru' = lru_touch_page(lru, touched)
        /\ UNCHANGED <<disk, file, saved>>
    BY <2>0 DEF arena_get_next_page
  <2>2. lru' \in LruType BY <2>1, TouchType DEF TypeOK
  <2>3. uploaded' \in 0 .. ArenaPages BY <1>1, <2>1, ArenaAssumption DEF TypeOK
  <2> QED BY <2>1, <2>2, <2>3 DEF TypeOK, FileGrows
<1>2. CASE uploaded = ArenaPages
  <2>0. ~(uploaded < ArenaPages) BY <1>0, <1>2
  <2>1. PICK v \in DOMAIN headers :
            /\ lru' = lru_touch_page(least_recent_page(lru, v), touched)
            /\ file' = [file EXCEPT !.pages = WritePage(file.pages, v, PageImage(mem, slot))]
            /\ disk' = [disk EXCEPT !.lsn = MaxOf(disk.lsn, headers[v].pLSN), !.pos = v + 1]
    BY <2>0 DEF arena_get_next_page
  <2>2. saved' = Unsaved /\ uploaded' = uploaded
    BY <2>0 DEF arena_get_next_page
  <2>3. v \in PageId /\ headers[v] \in Header /\ v \in Nat
    BY HeaderAt DEF PageId
  <2>4. lru' \in LruType
    <3>1. least_recent_page(lru, v) \in LruType BY <2>3, LeastRecentType DEF TypeOK
    <3> QED BY <2>1, <3>1, TouchType
  <2>5. disk' \in [lsn : Nat, keys_dumped : Nat, pos : Nat]
    <3>1. headers[v].pLSN \in Nat BY <2>3, HeaderFields
    <3>2. MaxOf(disk.lsn, headers[v].pLSN) \in Nat BY <1>0, <3>1 DEF MaxOf
    <3>3. v + 1 \in Nat BY <2>3
    <3> QED BY <1>0, <2>1, <3>2, <3>3
  <2>6. FileGrows
    <3>1. file \in File BY DEF TypeOK
    <3>2. PageImage(mem, slot) \in Memory BY PageImageType DEF TypeOK
    <3> DEFINE w == WritePage(file.pages, v, PageImage(mem, slot))
    <3>3. w \in Seq(Memory) /\ DOMAIN file.pages \subseteq DOMAIN w
      BY <2>3, <3>1, <3>2, FileFields, WritePageType
    <3> HIDE DEF w
    <3>4. file' = [file EXCEPT !.pages = w] BY <2>1 DEF w
    <3>5. file' \in File /\ file'.pages = w /\ file'.headers = file.headers
      BY <3>1, <3>3, <3>4, FilePages
    <3> QED BY <3>3, <3>5 DEF FileGrows
  <2> QED BY <2>2, <2>4, <2>5, <2>6, EmptyTypes DEF TypeOK
<1>3. uploaded < ArenaPages \/ uploaded = ArenaPages
  BY ArenaAssumption DEF TypeOK
<1> QED BY <1>1, <1>2, <1>3

(* heat_page touches by the number of a slot, which is a page number too. *)
LEMMA SlotIsPage == ASSUME NEW slot \in Slot PROVE slot \in PageId
BY ArenaAssumption, LruAssumption, StorageAssumption DEF Slot, PageId

(* page_value_get and page_value_unset have their page in memory: heating  *)
(* it keeps the types, and db.snap only grows.                             *)
LEMMA Warmed ==
    ASSUME Inv, NEW p \in DOMAIN headers, NEW slot \in Slot,
           NEW harm \in SUBSET Damage, Warm(p, slot, harm)
    PROVE  /\ uploaded' \in 0 .. ArenaPages
           /\ lru' \in LruType
           /\ mem' \in Memory
           /\ disk' \in [lsn : Nat, keys_dumped : Nat, pos : Nat]
           /\ saved' \in [ok : BOOLEAN, kv : Contents]
           /\ damage' \in SUBSET Damage
           /\ FileGrows
<1>0. TypeOK BY DEF Inv
<1>1. CASE /\ headers[p].location = "INMEMORY"
           /\ damage' = damage \cup harm
           /\ UNCHANGED <<uploaded, mem, lru, disk, file, saved>>
  BY <1>0, <1>1 DEF TypeOK, FileGrows
<1>2. CASE /\ headers[p].location = "INDISK"
           /\ heat_page(p, slot)
           /\ damage' = damage \cup harm \cup SlotDamage
  <2>1. arena_get_next_page(slot, slot) /\ mem' = Upload(mem, slot, file'.pages[p])
    BY <1>2 DEF heat_page
  <2>2. /\ uploaded' \in 0 .. ArenaPages
        /\ lru' \in LruType
        /\ disk' \in [lsn : Nat, keys_dumped : Nat, pos : Nat]
        /\ saved' \in [ok : BOOLEAN, kv : Contents]
        /\ FileGrows
    BY <1>0, <2>1, SlotIsPage, SlotTaken
  <2>3. p \in DOMAIN file'.pages
    BY <1>2, <2>2 DEF Inv, ColdPagesInFile, FileGrows
  <2>4. file'.pages[p] \in Memory
    <3>1. file'.pages \in Seq(Memory) BY <2>2, FileFields DEF FileGrows
    <3> QED BY <2>3, <3>1
  <2>5. mem' \in Memory
    BY <1>0, <2>1, <2>4, UploadType DEF TypeOK
  <2>6. damage' \in SUBSET Damage
    BY <1>0, <1>2 DEF TypeOK, SlotDamage, Damage
  <2> QED BY <2>2, <2>5, <2>6
<1> QED BY <1>1, <1>2 DEF Warm
-----------------------------------------------------------------------------
(***************************************************************************)
(* The beginning, and the end of the process.                              *)
(***************************************************************************)
LEMMA NothingTypes ==
    /\ NoOp \in Transaction /\ MainIdle \in Handler
    /\ [t \in Thread |-> NoDefrag] \in [Thread -> [page : Nat, block : Nat, offset : Nat]]
    /\ [k \in Key |-> NoMeta] \in [Key -> Meta]
    /\ {} \in Memory
BY DEF NoOp, Transaction, MainIdle, Handler, NoDefrag, NoMeta, Meta, Memory, Content

(* The invariant holds at the first start. *)
LEMMA InitInv == Init => Inv
<1> SUFFICES ASSUME Init PROVE Inv
  OBVIOUS
<1>1. file \in File BY DEF Init, File
<1>2. TypeOK
  <2>1. saved \in [ok : BOOLEAN, kv : Contents] /\ kv \in Contents
    BY EmptyTypes DEF Init, Saved
  <2>2. headers \in Seq(Header) /\ Len(headers) <= MaxPages
    BY LruAssumption DEF Init
  <2>3. lru \in LruType BY NewLruType DEF Init
  <2> QED BY <1>1, <2>1, <2>2, <2>3, NothingTypes, ArenaAssumption DEF Init, TypeOK
<1>3. IndexConsistent BY DEF Init, IndexConsistent
<1>4. WorkerPoints /\ WorkerInserts /\ MainOnPage /\ DownIsIdle
  BY DEF Init, WorkerPoints, WorkerInserts, MainOnPage, DownIsIdle, NoOp, MainIdle
<1>5. ColdPagesInFile /\ KeyFileFits
  BY LruAssumption DEF Init, ColdPagesInFile, KeyFileFits, MainIdle
<1> QED BY <1>2, <1>3, <1>4, <1>5 DEF Inv

(* However the process ends, the files stay well-formed. *)
LEMMA DieInv ==
    ASSUME Inv, NEW how \in {"exit", "killed", "SIGFPE", "SIGABRT", "SIGSEGV"}, Die(how),
           file' \in File, file'.headers = file.headers
    PROVE  Inv'
<1>1. TypeOK'
  <2>1. headers' \in Seq(Header) /\ Len(headers') <= MaxPages
    BY LruAssumption DEF Die, Nothing
  <2>2. lru' \in LruType BY NewLruType DEF Die, Nothing
  <2>3. UNCHANGED <<kv, saved, quiet, damage, ops>> BY DEF Die, history
  <2> QED BY <2>1, <2>2, <2>3, NothingTypes, ArenaAssumption DEF Die, Nothing, TypeOK, Inv
<1>2. IndexConsistent' BY DEF Die, Nothing, IndexConsistent
<1>3. WorkerPoints' /\ WorkerInserts' /\ MainOnPage' /\ DownIsIdle'
  BY DEF Die, Nothing, WorkerPoints, WorkerInserts, MainOnPage, DownIsIdle, NoOp, MainIdle
<1>4. ColdPagesInFile' BY DEF Die, Nothing, ColdPagesInFile
<1>5. KeyFileFits' BY DEF Inv, KeyFileFits, Die, Nothing, MainIdle
<1> QED BY <1>1, <1>2, <1>3, <1>4, <1>5 DEF Inv
-----------------------------------------------------------------------------
(***************************************************************************)
(* The steps, one lemma for each.                                          *)
(***************************************************************************)

(* A step that keeps the index: what is left to show about it. *)
LEMMA Frame ==
    ASSUME Inv, TypeOK', KeysKept, WorkerKept, hashmap' = hashmap, status' = "up",
           file'.headers = file.headers, DOMAIN file.pages \subseteq DOMAIN file'.pages,
           \A p \in DOMAIN headers :
              headers'[p].location = "INDISK" => headers[p].location = "INDISK",
           \/ main' = main \/ main'.pc \notin {"keys", "list"}
           \/ main'.pc = "keys" /\ main'.page = 1,
           WorkerInserts', MainOnPage'
    PROVE  Inv'
<1>1. IndexConsistent' /\ WorkerPoints' BY IndexKept
<1>2. ColdPagesInFile' BY DEF Inv, ColdPagesInFile, KeysKept
<1>3. KeyFileFits'
  <2>1. Len(file.headers) \in Nat
    <3>1. file \in File BY DEF Inv, TypeOK
    <3> QED BY <3>1, FileFields
  <2> QED BY <2>1 DEF Inv, KeyFileFits
<1>4. DownIsIdle' BY DEF DownIsIdle
<1> QED BY <1>1, <1>2, <1>3, <1>4 DEF Inv

(* Headers that do not change keep their keys. *)
LEMMA SameHeaders == ASSUME headers' = headers PROVE KeysKept
BY DEF KeysKept

(* The operations that only answer, and request_reply. *)
LEMMA AnswerInv ==
    ASSUME Inv, status = "up", worker.pc \in {"idle", "reply"},
           UNCHANGED <<status, arenaVars, hashmap, LSN, disk, file, main, defrag, history>>,
           worker' \in Transaction, worker'.pc \in {"idle", "reply"}
    PROVE  Inv'
<1>1. TypeOK' BY DEF Inv, TypeOK, arenaVars, history
<1>2. KeysKept BY SameHeaders DEF arenaVars
<1>3. WorkerKept BY DEF WorkerKept
<1>4. WorkerInserts' BY DEF WorkerInserts
<1>5. MainOnPage' BY DEF Inv, MainOnPage, arenaVars
<1>6. /\ file'.headers = file.headers /\ DOMAIN file.pages \subseteq DOMAIN file'.pages
      /\ headers' = headers
  BY DEF arenaVars
<1> QED BY <1>1, <1>2, <1>3, <1>4, <1>5, <1>6, Frame

(* An operation that answers at once leaves the worker in its reply. *)
LEMMA ReplyType ==
    ASSUME NEW cmd \in {"PEEK", "SELECT", "INSERT", "DELETE"}, NEW k \in Key,
           NEW code \in {"OK", "KEY_NOT_FOUND", "KEY_EXISTS", "VALUE_REQUIRED"},
           Reply(cmd, k, code)
    PROVE  worker' \in Transaction /\ worker'.pc = "reply"
BY NothingTypes DEF Reply, NoOp, Transaction, NoMeta, Meta, Content

(* Operations that change nothing, and the end of any operation. *)
LEMMA AnswersInv ==
    ASSUME Inv, NEW k, NEW v,
           \/ operation_peek(k) \/ operation_select_missing(k)
           \/ operation_delete_missing(k) \/ operation_insert_refused(k, v)
           \/ request_reply
    PROVE  Inv'
<1>1. status = "up" /\ worker.pc \in {"idle", "reply"}
  BY DEF operation_peek, operation_select_missing, operation_delete_missing,
         operation_insert_refused, request_reply, Starts, WorkerLives
<1>2. worker' \in Transaction /\ worker'.pc \in {"idle", "reply"}
  <2>1. CASE operation_peek(k)
    BY <2>1, ReplyType DEF operation_peek, KeyCode, Starts
  <2>2. CASE operation_select_missing(k)
    BY <2>2, ReplyType DEF operation_select_missing, Starts
  <2>3. CASE operation_delete_missing(k)
    BY <2>3, ReplyType DEF operation_delete_missing, Starts
  <2>4. CASE operation_insert_refused(k, v)
    BY <2>4, ReplyType DEF operation_insert_refused, Starts
  <2>5. CASE request_reply
    BY <2>5, NothingTypes DEF request_reply, NoOp
  <2> QED BY <2>1, <2>2, <2>3, <2>4, <2>5
<1>3. UNCHANGED <<status, arenaVars, hashmap, LSN, disk, file, main, defrag, history>>
  BY DEF operation_peek, operation_select_missing, operation_delete_missing,
         operation_insert_refused, request_reply
<1> QED BY <1>1, <1>2, <1>3, AnswerInv

(* The place of a key in the database, from the hash map. *)
LEMMA Found ==
    ASSUME Inv, NEW k \in Key, hashmap[k] # NoMeta
    PROVE  /\ hashmap[k] \in Meta
           /\ hashmap[k].page \in DOMAIN headers
           /\ hashmap[k].id \in DOMAIN headers[hashmap[k].page].keys
           /\ headers[hashmap[k].page].keys[hashmap[k].id].key = k
           /\ headers[hashmap[k].page].keys[hashmap[k].id].offset \in Nat
<1>1. TypeOK BY DEF Inv
<1>2. /\ hashmap[k].page \in DOMAIN headers
      /\ hashmap[k].id \in DOMAIN headers[hashmap[k].page].keys
      /\ headers[hashmap[k].page].keys[hashmap[k].id].key = k
  BY DEF Inv, IndexConsistent
<1>3. hashmap[k] \in Meta BY <1>1 DEF TypeOK
<1> QED BY <1>1, <1>2, <1>3, KeyAt

(* operation_select moves its page into memory and no key. *)
LEMMA SelectInv ==
    ASSUME Inv, NEW k \in Key, operation_select(k)
    PROVE  Inv'
<1> DEFINE p == hashmap[k].page
           offset == headers[p].keys[hashmap[k].id].offset
<1>0. TypeOK BY DEF Inv
<1>1. hashmap[k] # NoMeta /\ status = "up" /\ worker.pc = "idle"
  BY DEF operation_select, Starts, WorkerLives
<1>2. hashmap[k] \in Meta /\ p \in DOMAIN headers /\ offset \in Nat
  BY <1>1, Found
<1>3. PICK slot \in Slot :
        /\ Warm(p, slot, {})
        /\ headers' = [headers EXCEPT ![p] =
                [@ EXCEPT !.arena_id = slot, !.location = "INMEMORY"]]
        /\ worker' = [NoOp EXCEPT !.pc = "reply", !.cmd = "SELECT", !.key = k,
                !.code = "OK", !.meta = hashmap[k], !.expect = kv[k],
                !.addr = SlotStart(slot) + offset, !.held = ~BeingMoved(p)]
  BY DEF operation_select
<1>4. UNCHANGED <<status, hashmap, LSN, main, defrag, kv, quiet, ops>>
  BY DEF operation_select
<1> HIDE DEF p, offset
<1> DEFINE h == [headers[p] EXCEPT !.arena_id = slot, !.location = "INMEMORY"]
<1>5. h \in Header /\ h.keys = headers[p].keys /\ h.location = "INMEMORY"
  <2>1. headers[p] \in Header BY <1>0, <1>2, HeaderAt
  <2> QED BY <2>1 DEF Header
<1>6. headers' = [headers EXCEPT ![p] = h] BY <1>3
<1> HIDE DEF h
<1>7. /\ headers' \in Seq(Header) /\ Len(headers') <= MaxPages /\ KeysKept
      /\ headers'[p] = h /\ \A q \in DOMAIN headers : q # p => headers'[q] = headers[q]
  BY <1>0, <1>2, <1>5, <1>6, OnePage
<1>8. worker' \in Transaction /\ worker'.pc = "reply"
  <2>1. SlotStart(slot) + offset \in Nat BY <1>2, SlotStartType
  <2>2. kv[k] \in Content BY <1>0 DEF TypeOK, Contents
  <2>3. (~BeingMoved(p)) \in BOOLEAN BY DEF BeingMoved
  <2> QED BY <1>2, <1>3, <2>1, <2>2, <2>3 DEF NoOp, Transaction
<1>9. /\ uploaded' \in 0 .. ArenaPages /\ lru' \in LruType /\ mem' \in Memory
      /\ disk' \in [lsn : Nat, keys_dumped : Nat, pos : Nat]
      /\ saved' \in [ok : BOOLEAN, kv : Contents] /\ damage' \in SUBSET Damage
      /\ FileGrows
  BY <1>2, <1>3, Warmed
<1>10. TypeOK' BY <1>0, <1>4, <1>7, <1>8, <1>9 DEF TypeOK, FileGrows
<1>11. WorkerKept BY <1>1, <1>8 DEF WorkerKept
<1>12. WorkerInserts' BY <1>8 DEF WorkerInserts
<1>13. MainOnPage' BY <1>4, <1>7 DEF Inv, MainOnPage, KeysKept
<1>14. \A q \in DOMAIN headers :
          headers'[q].location = "INDISK" => headers[q].location = "INDISK"
  BY <1>5, <1>7
<1> QED BY <1>1, <1>4, <1>7, <1>9, <1>10, <1>11, <1>12, <1>13, <1>14, Frame DEF FileGrows
-----------------------------------------------------------------------------
(* A logged operation counts the LSN up. *)
LEMMA WriteLogType == ASSUME TypeOK, write_log PROVE LSN' \in Nat /\ ops' \in Nat
BY DEF TypeOK, write_log

(* A key_meta_t that points at a page is not the empty one. *)
LEMMA NotNoMeta == ASSUME NEW p \in Nat \ {0}, NEW i PROVE [page |-> p, id |-> i] # NoMeta
BY DEF NoMeta

(* hashmap_delete_key takes the key out; the worker remembers its place. *)
LEMMA DeleteInv ==
    ASSUME Inv, NEW k \in Key, operation_delete(k)
    PROVE  Inv'
<1>0. TypeOK BY DEF Inv
<1>1. /\ hashmap[k] # NoMeta /\ status = "up" /\ worker.pc = "idle" /\ write_log
      /\ hashmap' = [hashmap EXCEPT ![k] = NoMeta]
      /\ kv' = [kv EXCEPT ![k] = None] /\ Overlap
      /\ UNCHANGED <<status, arenaVars, disk, file, main, defrag, saved, damage>>
  BY DEF operation_delete, Starts, WorkerLives
<1>2. worker' = [NoOp EXCEPT !.pc = "unset", !.cmd = "DELETE", !.key = k,
                              !.meta = hashmap[k], !.expect = kv[k]]
  BY DEF operation_delete
<1>3. /\ hashmap[k] \in Meta
      /\ hashmap[k].page \in DOMAIN headers
      /\ hashmap[k].id \in DOMAIN headers[hashmap[k].page].keys
      /\ headers[hashmap[k].page].keys[hashmap[k].id].key = k
  BY <1>1, Found
<1>4. /\ worker' \in Transaction /\ worker'.pc = "unset" /\ worker'.meta = hashmap[k]
      /\ worker'.key = k
  <2>1. kv[k] \in Content BY <1>0 DEF TypeOK, Contents
  <2> QED BY <1>2, <1>3, <2>1 DEF NoOp, Transaction
<1>5. TypeOK'
  <2>1. hashmap' \in [Key -> Meta] BY <1>0, <1>1 DEF TypeOK, NoMeta, Meta
  <2>2. kv' \in Contents BY <1>0, <1>1 DEF TypeOK, Contents, Content
  <2>3. quiet' \in BOOLEAN BY <1>1 DEF Overlap
  <2>4. LSN' \in Nat /\ ops' \in Nat BY <1>0, <1>1, WriteLogType
  <2> QED BY <1>0, <1>1, <1>4, <2>1, <2>2, <2>3, <2>4 DEF TypeOK, arenaVars
<1>6. headers' = headers /\ hashmap \in [Key -> Meta]
  BY <1>0, <1>1 DEF arenaVars, TypeOK
<1>7. IndexConsistent'
  <2>1. ASSUME NEW l \in Key, hashmap'[l] # NoMeta
        PROVE  /\ hashmap'[l].page \in DOMAIN headers'
               /\ hashmap'[l].id \in DOMAIN headers'[hashmap'[l].page].keys
               /\ headers'[hashmap'[l].page].keys[hashmap'[l].id].key = l
    <3>1. l # k /\ hashmap'[l] = hashmap[l] BY <1>1, <1>6, <2>1
    <3> QED BY <1>6, <2>1, <3>1 DEF Inv, IndexConsistent
  <2>2. ASSUME NEW p \in DOMAIN headers', NEW i \in DOMAIN headers'[p].keys
        PROVE  LET m == [page |-> p, id |-> i]
               IN  InFlight(m)' \/ hashmap'[headers'[p].keys[i].key] = m
    <3> DEFINE l == headers[p].keys[i].key
               m == [page |-> p, id |-> i]
    <3>1. l \in Key BY <1>0, <1>6, KeyAt
    <3>2. hashmap[l] = m
      BY <1>1, <1>6 DEF Inv, IndexConsistent, InFlight
    <3>3. CASE l = k BY <1>4, <3>2, <3>3 DEF InFlight
    <3>4. CASE l # k BY <1>1, <1>6, <3>1, <3>2, <3>4
    <3> QED BY <3>3, <3>4
  <2> QED BY <2>1, <2>2 DEF IndexConsistent
<1>8. WorkerPoints'
  BY <1>1, <1>3, <1>4, <1>6 DEF WorkerPoints, Holds
<1>9. WorkerInserts' /\ MainOnPage' /\ ColdPagesInFile' /\ KeyFileFits' /\ DownIsIdle'
  BY <1>1, <1>4, <1>6 DEF Inv, WorkerInserts, MainOnPage, ColdPagesInFile, KeyFileFits,
      DownIsIdle
<1> QED BY <1>5, <1>7, <1>8, <1>9 DEF Inv

(* hashmap_insert_key enters the place that page_value_set has filled. *)
LEMMA InsertKeyInv == ASSUME Inv, insert_key PROVE Inv'
<1> DEFINE k == worker.key
           p == worker.meta.page
           h == [headers[p] EXCEPT !.pLSN = LSN]
<1>0. TypeOK BY DEF Inv
<1>1. /\ status = "up" /\ worker.pc = "set"
      /\ headers' = [headers EXCEPT ![p] = h]
      /\ hashmap' = [hashmap EXCEPT ![k] = worker.meta]
      /\ kv' = [kv EXCEPT ![k] = worker.val] /\ Overlap
      /\ UNCHANGED <<status, uploaded, mem, lru, LSN, disk, file, main, defrag, saved, damage,
                      ops>>
  BY DEF insert_key, WorkerLives
<1>2. /\ k \in Key /\ hashmap[k] = NoMeta /\ p \in DOMAIN headers
      /\ worker.meta.id \in DOMAIN headers[p].keys
      /\ headers[p].keys[worker.meta.id].key = k
      /\ worker.val \in Value
  BY <1>1 DEF Inv, WorkerPoints, WorkerInserts, Holds
<1>3. worker.meta \in Meta BY <1>0 DEF TypeOK, Transaction
<1>4. worker' \in Transaction /\ worker'.pc = "reply"
  <2>1. worker' = [NoOp EXCEPT !.pc = "reply", !.cmd = "INSERT", !.key = k,
                              !.code = "OK", !.expect = worker.val]
    BY DEF insert_key
  <2> QED BY <1>2, <2>1 DEF NoOp, Transaction, NoMeta, Meta, Content
<1> HIDE DEF k, p
<1>5. h \in Header /\ h.keys = headers[p].keys /\ h.location = headers[p].location
  <2>1. headers[p] \in Header /\ LSN \in Nat BY <1>0, <1>2, HeaderAt DEF TypeOK
  <2> QED BY <2>1 DEF Header
<1> HIDE DEF h
<1>6. /\ headers' \in Seq(Header) /\ Len(headers') <= MaxPages /\ KeysKept
      /\ headers'[p] = h /\ \A q \in DOMAIN headers : q # p => headers'[q] = headers[q]
  BY <1>0, <1>1, <1>2, <1>5, OnePage
<1>7. TypeOK'
  <2>1. hashmap' \in [Key -> Meta] BY <1>0, <1>1, <1>3 DEF TypeOK
  <2>2. kv' \in Contents BY <1>0, <1>1, <1>2 DEF TypeOK, Contents, Content
  <2>3. quiet' \in BOOLEAN BY <1>1 DEF Overlap
  <2> QED BY <1>0, <1>1, <1>4, <1>6, <2>1, <2>2, <2>3 DEF TypeOK
<1>8. IndexConsistent'
  <2>0. hashmap \in [Key -> Meta] BY <1>0 DEF TypeOK
  <2>1. ASSUME NEW l \in Key, hashmap'[l] # NoMeta
        PROVE  /\ hashmap'[l].page \in DOMAIN headers'
               /\ hashmap'[l].id \in DOMAIN headers'[hashmap'[l].page].keys
               /\ headers'[hashmap'[l].page].keys[hashmap'[l].id].key = l
    <3>1. CASE l = k
      <4>1. hashmap'[l] = worker.meta BY <1>1, <1>2, <2>0, <3>1
      <4> QED BY <1>2, <1>6, <3>1, <4>1 DEF KeysKept, p
    <3>2. CASE l # k
      <4>1. hashmap'[l] = hashmap[l] BY <1>1, <2>0, <3>2
      <4>2. /\ hashmap[l].page \in DOMAIN headers
            /\ hashmap[l].id \in DOMAIN headers[hashmap[l].page].keys
            /\ headers[hashmap[l].page].keys[hashmap[l].id].key = l
        BY <2>1, <4>1 DEF Inv, IndexConsistent
      <4> QED BY <1>6, <4>1, <4>2 DEF KeysKept
    <3> QED BY <3>1, <3>2
  <2>2. ASSUME NEW q \in DOMAIN headers', NEW i \in DOMAIN headers'[q].keys
        PROVE  hashmap'[headers'[q].keys[i].key] = [page |-> q, id |-> i]
    <3> DEFINE l == headers[q].keys[i].key
               m == [page |-> q, id |-> i]
    <3>1. q \in DOMAIN headers /\ i \in DOMAIN headers[q].keys /\ headers'[q].keys[i].key = l
      BY <1>6 DEF KeysKept
    <3>2. l \in Key /\ q \in Nat \ {0} BY <1>0, <3>1, KeyAt
    <3>3. CASE worker.meta = m
      <4>1. l = k BY <1>2, <3>3 DEF p
      <4> QED BY <1>1, <1>2, <2>0, <3>1, <3>3, <4>1
    <3>4. CASE worker.meta # m
      <4>1. hashmap[l] = m BY <3>1, <3>4 DEF Inv, IndexConsistent, InFlight
      <4>2. l # k BY <1>2, <3>2, <4>1, NotNoMeta
      <4> QED BY <1>1, <2>0, <3>1, <3>2, <4>1, <4>2
    <3> QED BY <3>3, <3>4
  <2> QED BY <2>1, <2>2 DEF IndexConsistent
<1>9. WorkerPoints' /\ WorkerInserts' /\ DownIsIdle'
  BY <1>1, <1>4 DEF WorkerPoints, WorkerInserts, DownIsIdle
<1>10. MainOnPage' /\ KeyFileFits'
  BY <1>1, <1>6 DEF Inv, MainOnPage, KeyFileFits, KeysKept
<1>11. ColdPagesInFile'
  BY <1>1, <1>5, <1>6 DEF Inv, ColdPagesInFile, KeysKept
<1> QED BY <1>7, <1>8, <1>9, <1>10, <1>11 DEF Inv
-----------------------------------------------------------------------------
(* page_value_unset: the keys behind the deleted one move up by one, and   *)
(* the recount of their key_meta_t follows them.                           *)
LEMMA UnsetInv == ASSUME Inv, page_value_unset PROVE Inv'
<1> DEFINE p == worker.meta.page
           id == worker.meta.id
           old == headers[p].keys
           keys == VectorDelete(old, id)
<1>0. TypeOK BY DEF Inv
<1>1. /\ status = "up" /\ worker.pc = "unset" /\ Overlap
      /\ UNCHANGED <<status, LSN, main, defrag, kv, ops>>
  BY DEF page_value_unset, WorkerLives
<1>2. /\ worker.key \in Key /\ hashmap[worker.key] = NoMeta
      /\ p \in DOMAIN headers /\ id \in DOMAIN old /\ old[id].key = worker.key
  BY <1>1 DEF Inv, WorkerPoints, Holds
<1>3. PICK slot \in Slot :
        LET addr == SlotStart(slot) + old[id].offset
        IN  /\ Warm(p, slot, IF BeingMoved(p) THEN {"race"} ELSE {})
            /\ \E size \in SizesAt(mem', addr) :
                 headers' = [headers EXCEPT ![p] =
                   [headers[p] EXCEPT !.arena_id = slot, !.location = "INMEMORY",
                             !.keys = keys, !.state = "DIRTY", !.pLSN = LSN,
                             !.fragmentated_bytes =
                                 (headers[p].fragmentated_bytes + size) % UINT16]]
            /\ hashmap' = Recount(keys, id)
            /\ worker' = [worker EXCEPT !.pc = "reply", !.code = "OK",
                                        !.addr = addr, !.held = TRUE]
  BY ZenonT(60) DEF page_value_unset
<1> DEFINE addr == SlotStart(slot) + old[id].offset
<1>4. PICK size \in SizesAt(mem', addr) :
        headers' = [headers EXCEPT ![p] =
                   [headers[p] EXCEPT !.arena_id = slot, !.location = "INMEMORY",
                             !.keys = keys, !.state = "DIRTY", !.pLSN = LSN,
                             !.fragmentated_bytes =
                                 (headers[p].fragmentated_bytes + size) % UINT16]]
  BY <1>3
<1> DEFINE h == [headers[p] EXCEPT !.arena_id = slot, !.location = "INMEMORY",
                             !.keys = keys, !.state = "DIRTY", !.pLSN = LSN,
                             !.fragmentated_bytes = (headers[p].fragmentated_bytes + size) % UINT16]
<1>5. headers[p] \in Header /\ old \in Seq(HeaderKey) /\ old[id].offset \in Nat
      /\ p \in Nat \ {0} /\ id \in Nat \ {0}
  BY <1>0, <1>2, HeaderAt, HeaderFields, KeyAt
<1>6. /\ keys \in Seq(HeaderKey) /\ DOMAIN keys = 1 .. (Len(old) - 1) /\ Len(keys) = Len(old) - 1
      /\ \A j \in 1 .. (Len(old) - 1) : keys[j] = IF j < id THEN old[j] ELSE old[j + 1]
  BY <1>2, <1>5, VectorDeleteType
<1>7. /\ uploaded' \in 0 .. ArenaPages /\ lru' \in LruType /\ mem' \in Memory
      /\ disk' \in [lsn : Nat, keys_dumped : Nat, pos : Nat]
      /\ saved' \in [ok : BOOLEAN, kv : Contents] /\ damage' \in SUBSET Damage
      /\ FileGrows
  <2>1. (IF BeingMoved(p) THEN {"race"} ELSE {}) \in SUBSET Damage BY DEF Damage
  <2> QED BY <1>2, <1>3, <2>1, Warmed
<1>8. addr \in Nat
  <2> DEFINE o == old[id].offset
  <2>1. SlotStart(slot) \in Nat BY SlotStartType
  <2>2. o \in Nat BY <1>5
  <2> HIDE DEF o
  <2>3. SlotStart(slot) + o \in Nat BY <2>1, <2>2
  <2> QED BY <2>3 DEF o
<1>9. worker' \in Transaction /\ worker'.pc = "reply"
  <2>1. worker' = [worker EXCEPT !.pc = "reply", !.code = "OK", !.addr = addr, !.held = TRUE]
    BY <1>3
  <2>2. worker \in Transaction BY <1>0 DEF TypeOK
  <2> HIDE DEF addr
  <2> QED BY <1>8, <2>1, <2>2 DEF Transaction
<1>10. hashmap' = Recount(keys, id) BY <1>3
<1> HIDE DEF keys
<1>11. h \in Header /\ h.keys = keys /\ h.location = "INMEMORY"
  <2>1. size \in Nat BY <1>7, SizesAtType
  <2>2. (headers[p].fragmentated_bytes + size) % UINT16 \in Nat
    <3>1. headers[p].fragmentated_bytes \in Nat BY <1>5, HeaderFields
    <3>2. headers[p].fragmentated_bytes + size \in Int BY <2>1, <3>1
    <3> QED BY <3>2, Modulus
  <2>3. LSN \in Nat BY <1>0 DEF TypeOK
  <2> QED BY <1>5, <1>6, <2>2, <2>3 DEF Header
<1>12. headers' = [headers EXCEPT ![p] = h] BY <1>4
<1> HIDE DEF h, addr
<1>13. /\ headers' \in Seq(Header) /\ Len(headers') <= MaxPages
       /\ DOMAIN headers' = DOMAIN headers /\ headers'[p] = h
       /\ \A q \in DOMAIN headers : q # p => headers'[q] = headers[q]
  BY <1>0, <1>2, <1>11, <1>12 DEF TypeOK
<1> HIDE DEF p, id, old
<1>14. \A q \in DOMAIN headers : \A i \in DOMAIN headers[q].keys :
          /\ headers[q].keys[i].key \in Key
          /\ ~(q = p /\ i = id) => hashmap[headers[q].keys[i].key] = [page |-> q, id |-> i]
  <2> SUFFICES ASSUME NEW q \in DOMAIN headers, NEW i \in DOMAIN headers[q].keys
               PROVE  /\ headers[q].keys[i].key \in Key
                      /\ ~(q = p /\ i = id) =>
                            hashmap[headers[q].keys[i].key] = [page |-> q, id |-> i]
    OBVIOUS
  <2> DEFINE m == [page |-> q, id |-> i]
  <2>1. headers[q].keys[i].key \in Key BY <1>0, KeyAt
  <2>2. InFlight(m) \/ hashmap[headers[q].keys[i].key] = m BY DEF Inv, IndexConsistent
  <2>3. InFlight(m) => q = p /\ i = id BY DEF InFlight, p, id
  <2> QED BY <2>1, <2>2, <2>3
<1>26. /\ Len(old) \in Nat /\ DOMAIN old = 1 .. Len(old) /\ id \in 1 .. Len(old)
       /\ Len(keys) = Len(old) - 1 /\ DOMAIN keys = 1 .. Len(keys)
  BY <1>2, <1>5, <1>6 DEF old
<1>15. \A k \in Key : (\E j \in id .. Len(keys) : keys[j].key = k) =>
          \E j \in id .. Len(keys) : /\ keys[j].key = k
                                     /\ hashmap[k] = [page |-> p, id |-> j + 1]
  <2> SUFFICES ASSUME NEW k \in Key, NEW j \in id .. Len(keys), keys[j].key = k
               PROVE  hashmap[k] = [page |-> p, id |-> j + 1]
    OBVIOUS
  <2>1. j \in 1 .. (Len(old) - 1) /\ ~(j < id) /\ j + 1 \in DOMAIN old /\ j + 1 # id
    BY <1>26
  <2>2. keys[j] = old[j + 1] BY <1>6, <2>1
  <2> QED BY <1>2, <1>14, <2>1, <2>2 DEF old
<1>16. hashmap \in [Key -> Meta] BY <1>0 DEF TypeOK
<1>17. \A k \in Key : \A j \in id .. Len(keys) :
          keys[j].key = k => hashmap'[k] = [page |-> p, id |-> j]
  <2> SUFFICES ASSUME NEW k \in Key, NEW j \in id .. Len(keys), keys[j].key = k
               PROVE  hashmap'[k] = [page |-> p, id |-> j]
    OBVIOUS
  <2>5. j \in 1 .. (Len(old) - 1) /\ ~(j < id) /\ j + 1 \in DOMAIN old /\ j + 1 # id
    BY <1>26
  <2>1. keys[j] = old[j + 1] /\ j \in Nat BY <1>6, <2>5
  <2>2. hashmap[k] = [page |-> p, id |-> j + 1]
    BY <1>2, <1>14, <2>1, <2>5 DEF old
  <2>3. hashmap'[k] = [hashmap[k] EXCEPT !.id = @ - 1]
    BY <1>10 DEF Recount
  <2>4. (j + 1) - 1 = j BY <2>1
  <2> QED BY <2>2, <2>3, <2>4
<1>18. \A k \in Key : (~\E j \in id .. Len(keys) : keys[j].key = k) => hashmap'[k] = hashmap[k]
  BY <1>10 DEF Recount
<1>19. hashmap' \in [Key -> Meta]
  <2>1. \A k \in Key : hashmap'[k] \in Meta
    <3> SUFFICES ASSUME NEW k \in Key PROVE hashmap'[k] \in Meta
      OBVIOUS
    <3>1. CASE \E j \in id .. Len(keys) : keys[j].key = k
      <4>1. PICK j \in id .. Len(keys) : keys[j].key = k BY <3>1
      <4>2. hashmap'[k] = [page |-> p, id |-> j] /\ j \in Nat BY <1>5, <1>17, <4>1
      <4> QED BY <1>5, <4>2 DEF Meta
    <3>2. CASE ~\E j \in id .. Len(keys) : keys[j].key = k
      BY <1>16, <1>18, <3>2
    <3> QED BY <3>1, <3>2
  <2>2. hashmap' = [k \in Key |-> hashmap'[k]] BY <1>10 DEF Recount
  <2> QED BY <2>1, <2>2
<1>20. TypeOK'
  <2>1. quiet' \in BOOLEAN BY <1>1 DEF Overlap
  <2> QED BY <1>0, <1>1, <1>7, <1>9, <1>13, <1>19, <2>1 DEF TypeOK, FileGrows
<1>21. IndexConsistent'
  <2>1. ASSUME NEW k \in Key, hashmap'[k] # NoMeta
        PROVE  /\ hashmap'[k].page \in DOMAIN headers'
               /\ hashmap'[k].id \in DOMAIN headers'[hashmap'[k].page].keys
               /\ headers'[hashmap'[k].page].keys[hashmap'[k].id].key = k
    <3>1. CASE \E j \in id .. Len(keys) : keys[j].key = k
      <4>1. PICK j \in id .. Len(keys) : keys[j].key = k BY <3>1
      <4>5. hashmap'[k] = [page |-> p, id |-> j] BY <1>17, <4>1
      <4>2. hashmap'[k].page = p /\ hashmap'[k].id = j BY <4>5
      <4>3. j \in DOMAIN keys BY <1>5, <1>6
      <4> QED BY <1>2, <1>11, <1>13, <4>1, <4>2, <4>3
    <3>2. CASE ~\E j \in id .. Len(keys) : keys[j].key = k
      <4>1. hashmap'[k] = hashmap[k] BY <1>18, <3>2
      <4>2. /\ hashmap[k].page \in DOMAIN headers
            /\ hashmap[k].id \in DOMAIN headers[hashmap[k].page].keys
            /\ headers[hashmap[k].page].keys[hashmap[k].id].key = k
        BY <2>1, <4>1 DEF Inv, IndexConsistent
      <4>3. CASE hashmap[k].page # p
        BY <1>13, <4>1, <4>2, <4>3
      <4>4. CASE hashmap[k].page = p
        <5> DEFINE i == hashmap[k].id
        <5>1. i \in DOMAIN old /\ old[i].key = k BY <4>2, <4>4 DEF old
        <5>2. i # id BY <1>2, <2>1, <4>1, <5>1 DEF old
        <5>3. ~(i > id)
          <6> SUFFICES ASSUME i > id PROVE FALSE OBVIOUS
          <6>1. i - 1 \in id .. Len(keys) /\ keys[i - 1] = old[i]
            BY <1>5, <1>6, <5>1
          <6> QED BY <3>2, <5>1, <6>1
        <5>4. i \in DOMAIN keys /\ keys[i] = old[i]
          <6> HIDE DEF i
          <6>1. i \in 1 .. (Len(old) - 1) /\ i < id BY <1>26, <5>1, <5>2, <5>3
          <6> QED BY <1>6, <6>1
        <5> QED BY <1>2, <1>11, <1>13, <4>1, <4>4, <5>1, <5>4
      <4> QED BY <4>3, <4>4
    <3> QED BY <3>1, <3>2
  <2>2. ASSUME NEW q \in DOMAIN headers', NEW i \in DOMAIN headers'[q].keys
        PROVE  hashmap'[headers'[q].keys[i].key] = [page |-> q, id |-> i]
    <3>1. CASE q # p
      <4> DEFINE k == headers[q].keys[i].key
      <4>1. q \in DOMAIN headers /\ headers'[q] = headers[q] BY <1>13, <3>1
      <4>2. k \in Key /\ hashmap[k] = [page |-> q, id |-> i]
        BY <1>14, <3>1, <4>1
      <4>3. ~\E j \in id .. Len(keys) : keys[j].key = k
        <5> HIDE DEF k
        <5> SUFFICES ASSUME NEW j \in id .. Len(keys), hashmap[k] = [page |-> p, id |-> j + 1]
                     PROVE  FALSE
          BY <1>15, <4>2
        <5> QED BY <3>1, <4>2
      <4> QED BY <1>18, <4>1, <4>2, <4>3
    <3>2. CASE q = p
      <4>1. i \in DOMAIN keys /\ headers'[q].keys[i] = keys[i] BY <1>11, <1>13, <3>2
      <4>2. CASE i >= id
        <5>3. keys[i] \in HeaderKey BY <1>6, <4>1
        <5>1. keys[i].key \in Key BY <5>3 DEF HeaderKey
        <5>2. i \in id .. Len(keys) BY <1>5, <1>6, <4>1, <4>2
        <5> QED BY <1>17, <3>2, <4>1, <5>1, <5>2
      <4>3. CASE i < id
        <5> DEFINE k == old[i].key
        <5>1. keys[i] = old[i] /\ i \in DOMAIN old
          BY <1>5, <1>6, <4>1, <4>3
        <5>2. k \in Key /\ hashmap[k] = [page |-> p, id |-> i]
          BY <1>2, <1>5, <1>14, <4>3, <5>1 DEF old
        <5>3. ~\E j \in id .. Len(keys) : keys[j].key = k
          <6> HIDE DEF k
          <6> SUFFICES ASSUME NEW j \in id .. Len(keys), hashmap[k] = [page |-> p, id |-> j + 1]
                       PROVE  FALSE
            BY <1>15, <5>2
          <6>1. i = j + 1 BY <5>2
          <6> QED BY <1>5, <4>3, <6>1
        <5> QED BY <1>18, <3>2, <4>1, <5>1, <5>2, <5>3
      <4> QED BY <1>5, <1>6, <4>1, <4>2, <4>3
    <3> QED BY <3>1, <3>2
  <2> QED BY <2>1, <2>2 DEF IndexConsistent
<1>22. WorkerPoints' /\ WorkerInserts' /\ DownIsIdle'
  BY <1>1, <1>9 DEF WorkerPoints, WorkerInserts, DownIsIdle
<1>23. MainOnPage'
  BY <1>1, <1>13 DEF Inv, MainOnPage
<1>24. ColdPagesInFile'
  BY <1>7, <1>11, <1>13 DEF Inv, ColdPagesInFile, FileGrows
<1>25. KeyFileFits'
  BY <1>1, <1>7 DEF Inv, KeyFileFits, FileGrows
<1> QED BY <1>20, <1>21, <1>22, <1>23, <1>24, <1>25 DEF Inv
-----------------------------------------------------------------------------
(* page_value_set puts a key that is not in the database behind the others *)
(* of an existing page, or first on a new one.                             *)
LEMMA SetInv ==
    ASSUME Inv, NEW p, NEW h \in Header, NEW k \in Key, NEW v \in Value,
           \/ p \in DOMAIN headers /\ h = headers[p]
           \/ p = Len(headers) + 1 /\ Len(headers) < MaxPages /\ h.keys = <<>>,
           hashmap[k] = NoMeta, worker.pc \in {"idle", "defragmented"},
           page_value_set(p, h, k, v),
           hashmap' = hashmap, status' = "up", main' = main,
           defrag'["main"] = defrag["main"],
           FileGrows, uploaded' \in 0 .. ArenaPages, lru' \in LruType, LSN' \in Nat,
           disk' \in [lsn : Nat, keys_dumped : Nat, pos : Nat],
           defrag' \in [Thread -> [page : Nat, block : Nat, offset : Nat]],
           kv' \in Contents, saved' \in [ok : BOOLEAN, kv : Contents],
           damage' \in SUBSET Damage, ops' \in Nat
    PROVE  Inv'
<1> DEFINE entry == [key |-> k, offset |-> h.offset_bytes]
           end == (h.offset_bytes + RecordBytes(Size[v])) % UINT16
           g == [h EXCEPT !.location = "INMEMORY", !.keys = Append(h.keys, entry),
                          !.offset_bytes = end]
           n == MaxOf(p, Len(headers))
<1>0. TypeOK BY DEF Inv
<1>1. /\ headers' = [q \in 1 .. n |-> IF q # p THEN headers[q] ELSE g]
      /\ mem' = Store(mem, AddrOf(h, h.offset_bytes), v)
      /\ worker' = [NoOp EXCEPT !.pc = "set", !.cmd = "INSERT", !.key = k, !.val = v,
                                !.meta = [page |-> p, id |-> Len(h.keys) + 1]]
      /\ Overlap
  BY DEF page_value_set
<1>2. /\ h.keys \in Seq(HeaderKey) /\ h.offset_bytes \in Nat /\ Len(h.keys) \in Nat
      /\ DOMAIN h.keys = 1 .. Len(h.keys)
  BY HeaderFields
<1>3. entry \in HeaderKey BY <1>2 DEF HeaderKey
<1>4. Size[v] \in Nat BY ArenaAssumption
<1>5. end \in Nat
  <2>1. RecordBytes(Size[v]) \in Nat BY <1>4, RecordBytesType
  <2>2. h.offset_bytes + RecordBytes(Size[v]) \in Int BY <1>2, <2>1
  <2> QED BY <2>2, Modulus
<1> HIDE DEF entry, end
<1>6. /\ Append(h.keys, entry) \in Seq(HeaderKey)
      /\ DOMAIN Append(h.keys, entry) = 1 .. (Len(h.keys) + 1)
      /\ \A i \in 1 .. Len(h.keys) : Append(h.keys, entry)[i] = h.keys[i]
      /\ Append(h.keys, entry)[Len(h.keys) + 1] = entry
  BY <1>2, <1>3
<1>7. g \in Header /\ g.keys = Append(h.keys, entry) /\ g.location = "INMEMORY"
  BY <1>5, <1>6 DEF Header
<1> HIDE DEF g
<1>8. headers \in Seq(Header) /\ Len(headers) \in Nat /\ DOMAIN headers = 1 .. Len(headers)
      /\ Len(headers) <= MaxPages /\ MaxPages \in Nat
  BY <1>0, LruAssumption DEF TypeOK
<1>9. /\ n \in Nat /\ n <= MaxPages /\ Len(headers) <= n
      /\ p \in 1 .. n /\ \A q \in 1 .. n : q # p => q \in DOMAIN headers
  BY <1>8 DEF MaxOf
<1> HIDE DEF n
<1>10. \A q \in 1 .. n : (IF q # p THEN headers[q] ELSE g) \in Header
  BY <1>7, <1>8, <1>9
<1>11. /\ headers' \in Seq(Header) /\ Len(headers') = n /\ DOMAIN headers' = 1 .. n
       /\ headers'[p] = g
       /\ \A q \in DOMAIN headers' : q # p => q \in DOMAIN headers /\ headers'[q] = headers[q]
       /\ DOMAIN headers \subseteq DOMAIN headers'
  <2>1. DOMAIN headers' = 1 .. n /\ \A q \in 1 .. n : headers'[q] = IF q # p THEN headers[q] ELSE g
    BY <1>1
  <2>2. headers' \in Seq(Header) /\ Len(headers') = n
    <3>1. headers' \in [1 .. n -> Header] BY <1>1, <1>10
    <3> QED BY <1>9, <3>1, IsSequence
  <2>3. DOMAIN headers \subseteq DOMAIN headers' BY <1>8, <1>9, <2>1
  <2> QED BY <1>9, <2>1, <2>2, <2>3
<1>12. /\ worker' \in Transaction /\ worker'.pc = "set" /\ worker'.key = k
       /\ worker'.val = v /\ worker'.meta = [page |-> p, id |-> Len(h.keys) + 1]
  <2>1. [page |-> p, id |-> Len(h.keys) + 1] \in Meta BY <1>2, <1>9 DEF Meta
  <2> QED BY <1>1, <2>1 DEF NoOp, Transaction, Content
<1>13. TypeOK'
  <2>1. mem' \in Memory
    <3>1. AddrOf(h, h.offset_bytes) \in Nat BY <1>2, AddrOfType
    <3> QED BY <1>0, <1>1, <3>1, StoreType DEF TypeOK
  <2>2. quiet' \in BOOLEAN BY <1>1 DEF Overlap
  <2> QED BY <1>0, <1>9, <1>11, <1>12, <2>1, <2>2 DEF TypeOK, FileGrows
<1>14. \A q \in DOMAIN headers : \A i \in DOMAIN headers[q].keys :
          hashmap[headers[q].keys[i].key] = [page |-> q, id |-> i]
  BY DEF Inv, IndexConsistent, InFlight
<1>15. p \in DOMAIN headers => h = headers[p]
  BY <1>8
<1>16. p \notin DOMAIN headers => h.keys = <<>>
  OBVIOUS
<1>17. IndexConsistent'
  <2>1. ASSUME NEW l \in Key, hashmap'[l] # NoMeta
        PROVE  /\ hashmap'[l].page \in DOMAIN headers'
               /\ hashmap'[l].id \in DOMAIN headers'[hashmap'[l].page].keys
               /\ headers'[hashmap'[l].page].keys[hashmap'[l].id].key = l
    <3> DEFINE q == hashmap[l].page
               i == hashmap[l].id
    <3>1. q \in DOMAIN headers /\ i \in DOMAIN headers[q].keys /\ headers[q].keys[i].key = l
      BY <2>1 DEF Inv, IndexConsistent
    <3> HIDE DEF q, i
    <3>2. q \in DOMAIN headers' /\ i \in DOMAIN headers'[q].keys /\ headers'[q].keys[i].key = l
      <4>1. CASE q # p BY <1>11, <3>1, <4>1
      <4>2. CASE q = p
        <5>1. i \in 1 .. Len(h.keys) /\ h.keys[i].key = l BY <1>2, <1>15, <3>1, <4>2
        <5>2. i \in DOMAIN g.keys /\ g.keys[i].key = l BY <1>2, <1>6, <1>7, <5>1
        <5> QED BY <1>11, <3>1, <4>2, <5>2
      <4> QED BY <4>1, <4>2
    <3> QED BY <3>2 DEF q, i
  <2>2. ASSUME NEW q \in DOMAIN headers', NEW i \in DOMAIN headers'[q].keys
        PROVE  LET m == [page |-> q, id |-> i]
               IN  InFlight(m)' \/ hashmap'[headers'[q].keys[i].key] = m
    <3>1. CASE q # p BY <1>11, <1>14, <3>1
    <3>2. CASE q = p /\ i = Len(h.keys) + 1
      BY <1>12, <3>2 DEF InFlight
    <3>3. CASE q = p /\ i # Len(h.keys) + 1
      <4>1. i \in 1 .. Len(h.keys) /\ headers'[q].keys[i] = h.keys[i]
        <5>1. headers'[q].keys = Append(h.keys, entry) BY <1>7, <1>11, <3>3
        <5>2. i \in 1 .. (Len(h.keys) + 1) BY <1>6, <5>1
        <5>3. i \in 1 .. Len(h.keys) BY <1>2, <3>3, <5>2
        <5> QED BY <1>6, <5>1, <5>3
      <4>2. p \in DOMAIN headers
        <5> SUFFICES ASSUME h.keys = <<>> PROVE FALSE BY <1>16
        <5> QED BY <4>1
      <4>3. hashmap[h.keys[i].key] = [page |-> p, id |-> i] BY <1>2, <1>14, <1>15, <4>1, <4>2
      <4> QED BY <3>3, <4>1, <4>3
    <3> QED BY <3>1, <3>2, <3>3
  <2> QED BY <2>1, <2>2 DEF IndexConsistent
<1>18. WorkerPoints'
  <2>1. Len(h.keys) + 1 \in DOMAIN g.keys /\ g.keys[Len(h.keys) + 1].key = k
    BY <1>2, <1>6, <1>7 DEF entry
  <2> QED BY <1>9, <1>11, <1>12, <2>1 DEF WorkerPoints, Holds
<1>19. WorkerInserts' /\ DownIsIdle'
  BY <1>12 DEF WorkerInserts, DownIsIdle
<1>20. MainOnPage' BY <1>11 DEF Inv, MainOnPage
<1>21. ColdPagesInFile' BY <1>7, <1>11 DEF Inv, ColdPagesInFile, FileGrows
<1>22. KeyFileFits' BY DEF Inv, KeyFileFits, FileGrows
<1> QED BY <1>13, <1>17, <1>18, <1>19, <1>20, <1>21, <1>22 DEF Inv

(* The events that page_value_set may cause are among the named ones. *)
LEMMA SetDamageType ==
    ASSUME NEW p, NEW h, NEW v PROVE SetDamage(p, h, v) \in SUBSET Damage
BY DEF SetDamage, Damage

(* An insertion into a page with room. *)
LEMMA IntoPageInv ==
    ASSUME Inv, NEW k \in Key, NEW v \in Value, insert_into_page(k, v)
    PROVE  Inv'
<1>0. TypeOK BY DEF Inv
<1>1. /\ status = "up" /\ worker.pc = "idle" /\ hashmap[k] = NoMeta /\ write_log
      /\ UNCHANGED <<status, uploaded, lru, hashmap, disk, file, main, defrag, kv, saved>>
  BY DEF insert_into_page, LoggedInsert, Starts, WorkerLives
<1>2. PICK p \in DOMAIN headers :
        /\ page_value_set(p, headers[p], k, v)
        /\ damage' = damage \cup SetDamage(p, headers[p], v)
  BY DEF insert_into_page
<1>3. headers[p] \in Header BY <1>0, HeaderAt
<1>4. LSN' \in Nat /\ ops' \in Nat BY <1>0, <1>1, WriteLogType
<1>5. damage' \in SUBSET Damage BY <1>0, <1>2, SetDamageType DEF TypeOK
<1>6. FileGrows /\ uploaded' \in 0 .. ArenaPages /\ lru' \in LruType
      /\ disk' \in [lsn : Nat, keys_dumped : Nat, pos : Nat]
      /\ defrag' \in [Thread -> [page : Nat, block : Nat, offset : Nat]]
      /\ kv' \in Contents /\ saved' \in [ok : BOOLEAN, kv : Contents]
  BY <1>0, <1>1 DEF TypeOK, FileGrows
<1> QED BY <1>1, <1>2, <1>3, <1>4, <1>5, <1>6, SetInv

(* An insertion that makes a new page. *)
LEMMA IntoNewPageInv ==
    ASSUME Inv, NEW k \in Key, NEW v \in Value, insert_into_new_page(k, v)
    PROVE  Inv'
<1> DEFINE p == Len(headers) + 1
<1>0. TypeOK BY DEF Inv
<1>1. /\ status = "up" /\ worker.pc = "idle" /\ hashmap[k] = NoMeta /\ write_log
      /\ Len(headers) < MaxPages
      /\ UNCHANGED <<status, hashmap, main, defrag, kv>>
  BY DEF insert_into_new_page, LoggedInsert, Starts, WorkerLives
<1>2. PICK slot \in Slot :
        /\ arena_get_next_page(slot, p)
        /\ page_value_set(p, NewHeader(slot), k, v)
        /\ damage' = damage \cup SlotDamage \cup SetDamage(p, NewHeader(slot), v)
  BY DEF insert_into_new_page
<1>3. NewHeader(slot) \in Header /\ NewHeader(slot).keys = <<>>
  BY DEF NewHeader, Header
<1>4. LSN' \in Nat /\ ops' \in Nat BY <1>0, <1>1, WriteLogType
<1>5. damage' \in SUBSET Damage
  <2>1. SlotDamage \in SUBSET Damage BY DEF SlotDamage, Damage
  <2> QED BY <1>0, <1>2, <2>1, SetDamageType DEF TypeOK
<1>6. p \in PageId BY <1>0, <1>1, LruAssumption DEF TypeOK, PageId
<1>7. /\ FileGrows /\ uploaded' \in 0 .. ArenaPages /\ lru' \in LruType
      /\ disk' \in [lsn : Nat, keys_dumped : Nat, pos : Nat]
      /\ saved' \in [ok : BOOLEAN, kv : Contents]
  BY <1>0, <1>2, <1>6, SlotTaken
<1>8. /\ defrag' \in [Thread -> [page : Nat, block : Nat, offset : Nat]]
      /\ kv' \in Contents
  BY <1>0, <1>1 DEF TypeOK
<1> QED BY <1>1, <1>2, <1>3, <1>4, <1>5, <1>7, <1>8, SetInv
-----------------------------------------------------------------------------
(* The local variables of a defragmentation. *)
LEMMA DefragFields ==
    ASSUME TypeOK, NEW t \in Thread
    PROVE  /\ defrag[t] \in [page : Nat, block : Nat, offset : Nat]
           /\ defrag[t].page \in Nat /\ defrag[t].block \in Nat /\ defrag[t].offset \in Nat
<1>1. defrag[t] \in [page : Nat, block : Nat, offset : Nat] BY DEF TypeOK
<1> QED BY <1>1

(* arena_defragmentate_page marks its page. *)
LEMMA DefragBegun ==
    ASSUME TypeOK, NEW t \in Thread, NEW p \in DOMAIN headers, BeginDefrag(t, p)
    PROVE  /\ headers' \in Seq(Header) /\ Len(headers') <= MaxPages /\ KeysKept
           /\ \A q \in DOMAIN headers : headers'[q].location = headers[q].location
           /\ defrag' \in [Thread -> [page : Nat, block : Nat, offset : Nat]]
           /\ defrag'[t].page = p /\ defrag'[t].block = 1
           /\ \A u \in Thread : u # t => defrag'[u] = defrag[u]
<1> DEFINE h == [headers[p] EXCEPT !.state = "PROCESSING"]
           d == [page |-> p, block |-> 1, offset |-> 0]
<1>1. headers[p] \in Header /\ p \in Nat BY HeaderAt DEF PageId
<1>2. h \in Header /\ h.keys = headers[p].keys /\ h.location = headers[p].location
  BY <1>1 DEF Header
<1>3. headers' = [headers EXCEPT ![p] = h] /\ defrag' = [defrag EXCEPT ![t] = d]
  BY DEF BeginDefrag
<1>4. d \in [page : Nat, block : Nat, offset : Nat] /\ d.page = p /\ d.block = 1
  BY <1>1
<1> HIDE DEF h, d
<1>5. /\ headers' \in Seq(Header) /\ Len(headers') <= MaxPages /\ KeysKept
      /\ headers'[p] = h /\ \A q \in DOMAIN headers : q # p => headers'[q] = headers[q]
  BY <1>2, <1>3, OnePage
<1>6. defrag \in [Thread -> [page : Nat, block : Nat, offset : Nat]] BY DEF TypeOK
<1>7. /\ defrag' \in [Thread -> [page : Nat, block : Nat, offset : Nat]]
      /\ defrag'[t] = d /\ \A u \in Thread : u # t => defrag'[u] = defrag[u]
  BY <1>3, <1>4, <1>6
<1> QED BY <1>2, <1>4, <1>5, <1>7

(* The two threads are different. *)
LEMMA Threads == "worker" \in Thread /\ "main" \in Thread /\ "worker" # "main"
BY DEF Thread

(* An insertion that defragmentates the preferred page first. *)
LEMMA DefragmentatesInv ==
    ASSUME Inv, NEW k \in Key, NEW v \in Value, insert_defragmentates(k, v)
    PROVE  Inv'
<1>0. TypeOK BY DEF Inv
<1>1. /\ status = "up" /\ worker.pc = "idle" /\ hashmap[k] = NoMeta /\ write_log /\ Overlap
      /\ UNCHANGED <<status, uploaded, mem, lru, hashmap, disk, file, main, kv, saved>>
  BY DEF insert_defragmentates, LoggedInsert, Starts, WorkerLives
<1>2. PICK p \in DOMAIN headers :
        /\ BeginDefrag("worker", p)
        /\ worker' = [NoOp EXCEPT !.pc = "defrag", !.cmd = "INSERT", !.key = k, !.val = v]
        /\ damage' = damage \cup
                (IF headers[p].state = "PROCESSING" THEN {"race"} ELSE {})
  BY DEF insert_defragmentates
<1>3. /\ headers' \in Seq(Header) /\ Len(headers') <= MaxPages /\ KeysKept
      /\ \A q \in DOMAIN headers : headers'[q].location = headers[q].location
      /\ defrag' \in [Thread -> [page : Nat, block : Nat, offset : Nat]]
      /\ defrag'["worker"].page = p /\ defrag'["worker"].block = 1
      /\ defrag'["main"] = defrag["main"]
  BY <1>0, <1>2, DefragBegun, Threads
<1>4. worker' \in Transaction /\ worker'.pc = "defrag" /\ worker'.key = k /\ worker'.val = v
  BY <1>2 DEF NoOp, Transaction, NoMeta, Meta, Content
<1>5. TypeOK'
  <2>1. LSN' \in Nat /\ ops' \in Nat BY <1>0, <1>1, WriteLogType
  <2>2. damage' \in SUBSET Damage BY <1>0, <1>2 DEF TypeOK, Damage
  <2>3. quiet' \in BOOLEAN BY <1>1 DEF Overlap
  <2> QED BY <1>0, <1>1, <1>3, <1>4, <2>1, <2>2, <2>3 DEF TypeOK
<1>6. WorkerKept BY <1>1, <1>4 DEF WorkerKept
<1>7. WorkerInserts' BY <1>1, <1>3, <1>4 DEF WorkerInserts, KeysKept
<1>8. MainOnPage' BY <1>1, <1>3 DEF Inv, MainOnPage, KeysKept
<1> QED BY <1>1, <1>3, <1>5, <1>6, <1>7, <1>8, Frame

(* The insertion into the page that the worker has defragmentated. *)
LEMMA AfterDefragInv == ASSUME Inv, insert_after_defrag PROVE Inv'
<1> DEFINE p == defrag["worker"].page
<1>0. TypeOK BY DEF Inv
<1>1. status = "up" /\ worker.pc = "defragmented"
  BY DEF insert_after_defrag, WorkerLives
<1>2. /\ worker.key \in Key /\ worker.val \in Value /\ hashmap[worker.key] = NoMeta
      /\ p \in DOMAIN headers
  BY <1>1 DEF Inv, WorkerInserts
<1>3. CASE Die("SIGABRT") /\ UNCHANGED file
  BY <1>0, <1>3, DieInv DEF TypeOK
<1>4. CASE /\ page_value_set(p, headers[p], worker.key, worker.val)
           /\ damage' = damage \cup SetDamage(p, headers[p], worker.val)
           /\ defrag' = [defrag EXCEPT !["worker"] = NoDefrag]
           /\ UNCHANGED <<status, uploaded, lru, hashmap, LSN, disk, file, main,
                          kv, saved, ops>>
  <2>1. headers[p] \in Header BY <1>0, <1>2, HeaderAt
  <2>2. damage' \in SUBSET Damage BY <1>0, <1>4, SetDamageType DEF TypeOK
  <2>3. /\ defrag' \in [Thread -> [page : Nat, block : Nat, offset : Nat]]
        /\ defrag'["main"] = defrag["main"]
    <3>1. NoDefrag \in [page : Nat, block : Nat, offset : Nat] BY DEF NoDefrag
    <3>2. defrag \in [Thread -> [page : Nat, block : Nat, offset : Nat]] BY <1>0 DEF TypeOK
    <3> QED BY <1>4, <3>1, <3>2, Threads
  <2>4. FileGrows /\ uploaded' \in 0 .. ArenaPages /\ lru' \in LruType /\ LSN' \in Nat
        /\ disk' \in [lsn : Nat, keys_dumped : Nat, pos : Nat]
        /\ kv' \in Contents /\ saved' \in [ok : BOOLEAN, kv : Contents] /\ ops' \in Nat
    BY <1>0, <1>4 DEF TypeOK, FileGrows
  <2> HIDE DEF p
  <2> QED BY <1>1, <1>2, <1>4, <2>1, <2>2, <2>3, <2>4, SetInv
<1> QED BY <1>3, <1>4 DEF insert_after_defrag

(* What a step of the main thread does to a reply of the worker. *)
LEMMA LetGoKept ==
    ASSUME TypeOK, NEW t, NEW p, worker' = LetGo(t, p)
    PROVE  /\ worker' \in Transaction /\ WorkerKept
           /\ worker'.pc = worker.pc /\ worker'.key = worker.key /\ worker'.val = worker.val
<1>1. worker \in Transaction BY DEF TypeOK
<1>2. /\ worker' \in Transaction /\ worker'.pc = worker.pc /\ worker'.key = worker.key
      /\ worker'.val = worker.val /\ worker'.meta = worker.meta
  BY <1>1 DEF LetGo, Transaction
<1> QED BY <1>2 DEF WorkerKept

(* The page that thread t is defragmentating exists. *)
LEMMA DefragOnPage ==
    ASSUME Inv, NEW t \in Thread, Defragmenting(t)
    PROVE  /\ status = "up" /\ defrag[t].page \in DOMAIN headers /\ defrag[t].block # 0
           /\ t = "worker" => worker.pc = "defrag"
           /\ t = "main" => main.pc = "defrag"
BY DEF Inv, Defragmenting, WorkerLives, MainLives, WorkerInserts, MainOnPage, Thread

(* The next block of a defragmentation is of the same page. *)
LEMMA NextBlock ==
    ASSUME NEW d \in [page : Nat, block : Nat, offset : Nat], NEW m \in Nat, NEW n \in Nat
    PROVE  /\ [d EXCEPT !.block = m, !.offset = n] \in [page : Nat, block : Nat, offset : Nat]
           /\ [d EXCEPT !.block = m, !.offset = n].page = d.page
           /\ [d EXCEPT !.block = m, !.offset = n].block = m
OBVIOUS

(* One value is moved, and its offset in the header with it. *)
LEMMA DefragBlockInv ==
    ASSUME Inv, NEW t \in Thread, DefragBlock(t)
    PROVE  Inv'
<1> DEFINE d == defrag[t]
           p == d.page
           b == d.block
           from == AddrOf(headers[p], headers[p].keys[b].offset)
           to == AddrOf(headers[p], d.offset)
           o == d.offset % UINT16
<1>0. TypeOK BY DEF Inv
<1>1. /\ b <= Len(headers[p].keys)
      /\ headers' = [headers EXCEPT ![p].keys[b].offset = o]
      /\ worker' = LetGo(t, p)
      /\ Defragmenting(t)
      /\ UNCHANGED <<status, uploaded, lru, hashmap, LSN, disk, file, main, kv, saved,
                     quiet, ops>>
  BY ZenonT(60) DEF DefragBlock
<1>2. PICK size \in SizesAt(mem, from) :
        /\ mem' = Move(mem, from, to, size)
        /\ \E again \in SizesAfterMove(from, to, size) :
              defrag' = [defrag EXCEPT ![t].block = @ + 1,
                                       ![t].offset = @ + RecordBytes(again)]
        /\ damage' = damage \cup
              (IF SizesAfterMove(from, to, size) = {size} THEN {} ELSE {"overlap"})
  BY DEF DefragBlock
<1>3. /\ status = "up" /\ p \in DOMAIN headers /\ b # 0
      /\ (t = "worker" => worker.pc = "defrag")
      /\ (t = "main" => main.pc = "defrag")
  BY <1>1, DefragOnPage
<1>4. /\ d \in [page : Nat, block : Nat, offset : Nat] /\ b \in Nat /\ d.offset \in Nat
      /\ headers[p] \in Header /\ headers[p].keys \in Seq(HeaderKey)
  BY <1>0, <1>3, DefragFields, HeaderAt, HeaderFields
<1>5. b \in DOMAIN headers[p].keys /\ headers[p].keys[b] \in HeaderKey
  BY <1>1, <1>3, <1>4
<1>6. o \in Nat
  <2>1. d.offset \in Int BY <1>4
  <2> HIDE DEF d
  <2> QED BY <2>1, Modulus
<1>7. size \in Nat /\ mem' \in Memory
  <2>1. mem \in Memory BY <1>0 DEF TypeOK
  <2>2. to \in Nat BY <1>4, AddrOfType
  <2> QED BY <1>2, <2>1, <2>2, SizesAtType, MoveType
<1>8. /\ defrag' \in [Thread -> [page : Nat, block : Nat, offset : Nat]]
      /\ defrag'[t].page = p /\ defrag'[t].block # 0
      /\ \A u \in Thread : u # t => defrag'[u] = defrag[u]
  <2>1. PICK again \in SizesAfterMove(from, to, size) :
            defrag' = [defrag EXCEPT ![t].block = @ + 1, ![t].offset = @ + RecordBytes(again)]
    BY <1>2
  <2>2. again \in Nat BY <1>7, SizesAfterMoveType
  <2>3. RecordBytes(again) \in Nat BY <2>2, RecordBytesType
  <2>4. defrag \in [Thread -> [page : Nat, block : Nat, offset : Nat]] BY <1>0 DEF TypeOK
  <2> HIDE DEF d, p, b, from, to, o
  <2>5. d.block + 1 \in Nat \ {0} /\ d.offset + RecordBytes(again) \in Nat
    BY <1>4, <2>3 DEF b
  <2> DEFINE e == [d EXCEPT !.block = d.block + 1, !.offset = d.offset + RecordBytes(again)]
  <2>6. defrag' = [defrag EXCEPT ![t] = e] BY <2>1, <2>4 DEF d
  <2>7. e \in [page : Nat, block : Nat, offset : Nat] /\ e.page = p /\ e.block # 0
    <3> DEFINE m == d.block + 1
               n == d.offset + RecordBytes(again)
    <3>1. m \in Nat /\ n \in Nat /\ m # 0 BY <2>5
    <3> HIDE DEF m, n
    <3>2. e = [d EXCEPT !.block = m, !.offset = n] BY DEF m, n
    <3> QED BY <1>4, <3>1, <3>2, NextBlock DEF p
  <2> HIDE DEF e
  <2> QED BY <2>4, <2>6, <2>7
<1> HIDE DEF d, p, b, from, to, o
<1> DEFINE key == [headers[p].keys[b] EXCEPT !.offset = o]
           ks == [headers[p].keys EXCEPT ![b] = key]
           h == [headers[p] EXCEPT !.keys = ks]
<1>9. headers' = [headers EXCEPT ![p] = h] BY <1>1
<1>10. key \in HeaderKey /\ key.key = headers[p].keys[b].key
  BY <1>5, <1>6 DEF HeaderKey
<1> HIDE DEF key
<1>11. /\ ks \in Seq(HeaderKey) /\ DOMAIN ks = DOMAIN headers[p].keys
       /\ \A i \in DOMAIN ks : ks[i].key = headers[p].keys[i].key
  BY <1>4, <1>5, <1>10
<1> HIDE DEF ks
<1>12. h \in Header /\ h.keys = ks /\ h.location = headers[p].location
  BY <1>4, <1>11 DEF Header
<1> HIDE DEF h
<1>13. /\ headers' \in Seq(Header) /\ Len(headers') <= MaxPages /\ KeysKept
       /\ headers'[p] = h /\ \A q \in DOMAIN headers : q # p => headers'[q] = headers[q]
  BY <1>0, <1>3, <1>9, <1>11, <1>12, OnePage
<1>14. /\ worker' \in Transaction /\ WorkerKept
       /\ worker'.pc = worker.pc /\ worker'.key = worker.key /\ worker'.val = worker.val
  BY <1>0, <1>1, LetGoKept
<1>15. TypeOK'
  <2>1. damage' \in SUBSET Damage BY <1>0, <1>2 DEF TypeOK, Damage
  <2> QED BY <1>0, <1>1, <1>7, <1>8, <1>13, <1>14, <2>1 DEF TypeOK
<1>16. \A u \in Thread : defrag'[u].page = defrag[u].page /\ (defrag[u].block # 0 => defrag'[u].block # 0)
  BY <1>8 DEF p, d
<1>17. WorkerInserts'
  BY <1>1, <1>13, <1>14, <1>16, Threads DEF Inv, WorkerInserts, KeysKept
<1>18. MainOnPage'
  BY <1>1, <1>13, <1>16, Threads DEF Inv, MainOnPage, KeysKept
<1>19. \A q \in DOMAIN headers : headers'[q].location = headers[q].location
  BY <1>12, <1>13
<1> QED BY <1>1, <1>3, <1>13, <1>14, <1>15, <1>17, <1>18, <1>19, Frame

(* The end of a defragmentation changes no key and no place in a vector. *)
LEMMA DefragDoneInv ==
    ASSUME Inv, NEW t \in Thread, DefragDone(t)
    PROVE  Inv'
<1> DEFINE d == defrag[t]
           p == d.page
           end == d.offset % UINT16
<1>0. TypeOK BY DEF Inv
<1>1. Defragmenting(t) BY DEF DefragDone
<1>2. /\ status = "up" /\ p \in DOMAIN headers
      /\ (t = "worker" => worker.pc = "defrag")
      /\ (t = "main" => main.pc = "defrag")
  BY <1>1, DefragOnPage
<1>3. CASE Die("SIGSEGV") /\ UNCHANGED file
  BY <1>0, <1>3, DieInv DEF TypeOK
<1>4. CASE /\ mem' = Clobber(mem, AddrOf(headers[p], d.offset), PAGE_SIZE - end)
           /\ headers' = [headers EXCEPT ![p] =
                    [@ EXCEPT !.fragmentated_bytes = 0, !.offset_bytes = end,
                              !.state = "DIRTY"]]
           /\ IF t = "worker"
              THEN /\ worker' = [worker EXCEPT !.pc = "defragmented"]
                   /\ UNCHANGED <<main, defrag>>
              ELSE /\ worker' = LetGo(t, p)
                   /\ main' = [main EXCEPT !.pc = "seek"]
                   /\ defrag' = [defrag EXCEPT ![t] = NoDefrag]
           /\ UNCHANGED <<status, uploaded, lru, hashmap, LSN, disk, file, history>>
  <2>1. end \in Nat /\ headers[p] \in Header
    BY <1>0, <1>2, DefragFields, Modulus, HeaderAt
  <2>2. mem' \in Memory BY <1>0, <1>4, ClobberType DEF TypeOK
  <2> HIDE DEF p, end
  <2> DEFINE h == [headers[p] EXCEPT !.fragmentated_bytes = 0, !.offset_bytes = end,
                                    !.state = "DIRTY"]
  <2>3. headers' = [headers EXCEPT ![p] = h] BY <1>4
  <2>4. h \in Header /\ h.keys = headers[p].keys /\ h.location = headers[p].location
    BY <2>1 DEF Header
  <2> HIDE DEF h
  <2>5. /\ headers' \in Seq(Header) /\ Len(headers') <= MaxPages /\ KeysKept
        /\ headers'[p] = h /\ \A q \in DOMAIN headers : q # p => headers'[q] = headers[q]
    BY <1>0, <1>2, <2>3, <2>4, OnePage
  <2>6. /\ worker' \in Transaction /\ main' \in Handler /\ WorkerKept
        /\ defrag' \in [Thread -> [page : Nat, block : Nat, offset : Nat]]
        /\ WorkerInserts' /\ MainOnPage' /\ (main' = main \/ main'.pc \notin {"keys", "list"})
    <3>0. worker \in Transaction /\ main \in Handler
          /\ defrag \in [Thread -> [page : Nat, block : Nat, offset : Nat]]
      BY <1>0 DEF TypeOK
    <3>1. CASE t = "worker"
      <4>1. /\ worker' = [worker EXCEPT !.pc = "defragmented"] /\ UNCHANGED <<main, defrag>>
            /\ worker.pc = "defrag"
        BY <1>2, <1>4, <3>1
      <4>2. /\ worker' \in Transaction /\ worker'.pc = "defragmented"
            /\ worker'.key = worker.key /\ worker'.val = worker.val
        BY <3>0, <4>1 DEF Transaction
      <4>3. WorkerKept BY <4>1, <4>2 DEF WorkerKept
      <4>4. WorkerInserts'
        BY <1>4, <2>5, <4>1, <4>2 DEF Inv, WorkerInserts, KeysKept
      <4>5. MainOnPage' BY <2>5, <4>1 DEF Inv, MainOnPage, KeysKept
      <4> QED BY <3>0, <4>1, <4>2, <4>3, <4>4, <4>5
    <3>2. CASE t = "main"
      <4>1. /\ worker' = LetGo(t, p) /\ main' = [main EXCEPT !.pc = "seek"]
            /\ defrag' = [defrag EXCEPT ![t] = NoDefrag] /\ main.pc = "defrag"
        BY <1>2, <1>4, <3>2
      <4>2. /\ worker' \in Transaction /\ WorkerKept
            /\ worker'.pc = worker.pc /\ worker'.key = worker.key /\ worker'.val = worker.val
        BY <1>0, <4>1, LetGoKept
      <4>3. main' \in Handler /\ main'.pc = "seek" /\ main'.page = main.page
        BY <3>0, <4>1 DEF Handler
      <4>4. /\ defrag' \in [Thread -> [page : Nat, block : Nat, offset : Nat]]
            /\ defrag'["worker"] = defrag["worker"]
        <5>1. NoDefrag \in [page : Nat, block : Nat, offset : Nat] BY DEF NoDefrag
        <5> QED BY <3>0, <3>2, <4>1, <5>1, Threads
      <4>5. WorkerInserts'
        BY <1>4, <2>5, <4>2, <4>4 DEF Inv, WorkerInserts, KeysKept
      <4>6. MainOnPage' BY <2>5, <4>1, <4>3 DEF Inv, MainOnPage, KeysKept
      <4> QED BY <4>2, <4>3, <4>4, <4>5, <4>6
    <3> QED BY <3>1, <3>2 DEF Thread
  <2>7. TypeOK' BY <1>0, <1>4, <2>2, <2>5, <2>6 DEF TypeOK, history
  <2>8. \A q \in DOMAIN headers : headers'[q].location = headers[q].location
    BY <2>4, <2>5
  <2> QED BY <1>2, <1>4, <2>5, <2>6, <2>7, <2>8, Frame
<1> QED BY <1>3, <1>4 DEF DefragDone
-----------------------------------------------------------------------------
(***************************************************************************)
(* The signal handlers.                                                    *)
(***************************************************************************)
LEMMA SameWorker == ASSUME worker' = worker PROVE WorkerKept
BY DEF WorkerKept

(* A handler that goes to another step or page. *)
LEMMA HandlerFields ==
    ASSUME NEW m \in Handler, 
           NEW pc \in {"idle", "scan", "defrag", "seek", "write", "clean", "keys", "list"},
           NEW n \in Nat
    PROVE  /\ [m EXCEPT !.pc = pc] \in Handler /\ [m EXCEPT !.pc = pc].pc = pc
           /\ [m EXCEPT !.pc = pc].page = m.page
           /\ [m EXCEPT !.page = n] \in Handler /\ [m EXCEPT !.page = n].page = n
           /\ [m EXCEPT !.page = n].pc = m.pc
           /\ [m EXCEPT !.pc = pc, !.page = n] \in Handler
           /\ [m EXCEPT !.pc = pc, !.page = n].page = n
           /\ [m EXCEPT !.pc = pc, !.page = n].pc = pc
           /\ m.page \in Nat
BY DEF Handler

(* A handler that changes nothing but its own variables and the disk_t. *)
LEMMA HandlerInv ==
    ASSUME Inv, status = "up",
           UNCHANGED <<status, arenaVars, hashmap, LSN, file, worker, kv, saved, damage, ops>>,
           main' \in Handler, quiet' \in BOOLEAN,
           disk' \in [lsn : Nat, keys_dumped : Nat, pos : Nat],
           defrag' \in [Thread -> [page : Nat, block : Nat, offset : Nat]],
           defrag'["worker"] = defrag["worker"],
           main'.pc \notin {"keys", "list"} \/ (main'.pc = "keys" /\ main'.page = 1),
           MainOnPage'
    PROVE  Inv'
<1>1. TypeOK' BY DEF Inv, TypeOK, arenaVars
<1>2. KeysKept BY SameHeaders DEF arenaVars
<1>3. WorkerKept BY SameWorker
<1>4. WorkerInserts' BY DEF Inv, WorkerInserts, arenaVars
<1>5. /\ file'.headers = file.headers /\ DOMAIN file.pages \subseteq DOMAIN file'.pages
      /\ headers' = headers
  BY DEF arenaVars
<1> QED BY <1>1, <1>2, <1>3, <1>4, <1>5, Frame

(* A signal starts a handler and touches nothing else. *)
LEMMA SignalInv == ASSUME Inv, Signal PROVE Inv'
<1>0. TypeOK BY DEF Inv
<1>1. CASE snapshot_handler
  <2>1. main' \in Handler /\ main'.pc = "scan" /\ main'.page = 1
    BY <1>1 DEF snapshot_handler, Handler
  <2>2. /\ status = "up" /\ quiet' \in BOOLEAN
        /\ UNCHANGED <<status, arenaVars, hashmap, LSN, disk, file, worker, defrag, kv,
                       saved, damage, ops>>
    BY <1>1 DEF snapshot_handler, MainLives, BetweenOperations
  <2>3. MainOnPage' BY <2>1 DEF MainOnPage
  <2> QED BY <1>0, <2>1, <2>2, <2>3, HandlerInv DEF TypeOK
<1>2. CASE shutdown_handler
  <2>1. main' \in Handler /\ main'.pc = "scan" /\ main'.page = 1
    BY <1>2 DEF shutdown_handler, Handler
  <2>2. /\ status = "up" /\ quiet' \in BOOLEAN
        /\ defrag' = [defrag EXCEPT !["main"] = NoDefrag]
        /\ UNCHANGED <<status, arenaVars, hashmap, LSN, disk, file, worker, kv, saved,
                       damage, ops>>
    BY <1>2 DEF shutdown_handler, MainLives, BetweenOperations
  <2>3. MainOnPage' BY <2>1 DEF MainOnPage
  <2>4. /\ defrag' \in [Thread -> [page : Nat, block : Nat, offset : Nat]]
        /\ defrag'["worker"] = defrag["worker"]
    <3>1. NoDefrag \in [page : Nat, block : Nat, offset : Nat] BY DEF NoDefrag
    <3>2. defrag \in [Thread -> [page : Nat, block : Nat, offset : Nat]] BY <1>0 DEF TypeOK
    <3> QED BY <2>2, <3>1, <3>2, Threads
  <2> QED BY <1>0, <2>1, <2>2, <2>3, <2>4, HandlerInv DEF TypeOK
<1> QED BY <1>1, <1>2 DEF Signal

(* The loop goes over a page, or the file offset is set. *)
LEMMA SkipOrSeekInv == ASSUME Inv, SkipPage \/ SeekPage PROVE Inv'
<1>0. TypeOK /\ main \in Handler /\ main.page \in Nat
  <2>1. TypeOK /\ main \in Handler BY DEF Inv, TypeOK
  <2> QED BY <2>1 DEF Handler
<1>1. CASE SkipPage
  <2>1. /\ status = "up" /\ main.pc = "scan"
        /\ main' = [main EXCEPT !.page = main.page + 1]
        /\ UNCHANGED <<status, arenaVars, hashmap, LSN, disk, file, worker, defrag, history>>
    BY <1>1 DEF SkipPage, MainLives
  <2>2. main.page + 1 \in Nat /\ main.page + 1 # 0 BY <1>0
  <2>3. main' \in Handler /\ main'.pc = "scan" /\ main'.page = main.page + 1
    <3> DEFINE n == main.page + 1
    <3>1. n \in Nat /\ main' = [main EXCEPT !.page = n] BY <2>1, <2>2
    <3> HIDE DEF n
    <3>2. main' \in Handler /\ main'.pc = "scan" /\ main'.page = n
      BY <1>0, <2>1, <3>1 DEF Handler
    <3> QED BY <3>2 DEF n
  <2>4. MainOnPage' BY <2>2, <2>3 DEF MainOnPage
  <2>5. UNCHANGED <<kv, saved, damage, ops, quiet>> BY <2>1 DEF history
  <2> QED BY <1>0, <2>1, <2>3, <2>4, <2>5, HandlerInv DEF TypeOK
<1>2. CASE SeekPage
  <2>1. /\ status = "up" /\ main.pc = "seek"
        /\ main' = [main EXCEPT !.pc = "write"]
        /\ disk' = [disk EXCEPT !.lsn = MaxOf(disk.lsn, headers[main.page].pLSN),
                                !.pos = main.page]
        /\ UNCHANGED <<status, arenaVars, hashmap, LSN, file, worker, defrag, history>>
    BY <1>2 DEF SeekPage, MainLives
  <2>2. main' \in Handler /\ main'.pc = "write" /\ main'.page = main.page
    BY <1>0, <2>1, HandlerFields, ZenonT(60)
  <2>3. main.page \in DOMAIN headers BY <2>1 DEF Inv, MainOnPage
  <2>4. MainOnPage' BY <2>1, <2>2, <2>3 DEF MainOnPage, arenaVars
  <2>5. disk' \in [lsn : Nat, keys_dumped : Nat, pos : Nat]
    <3>1. headers[main.page].pLSN \in Nat BY <1>0, <2>3, HeaderAt, HeaderFields
    <3>2. disk \in [lsn : Nat, keys_dumped : Nat, pos : Nat] BY <1>0 DEF TypeOK
    <3>3. MaxOf(disk.lsn, headers[main.page].pLSN) \in Nat BY <3>1, <3>2 DEF MaxOf
    <3> QED BY <1>0, <2>1, <3>2, <3>3
  <2>6. UNCHANGED <<kv, saved, damage, ops, quiet>> BY <2>1 DEF history
  <2> QED BY <1>0, <2>1, <2>2, <2>4, <2>5, <2>6, HandlerInv DEF TypeOK
<1> QED BY <1>1, <1>2

(* snapshot starts to write a dirty page. *)
LEMMA BeginDumpInv == ASSUME Inv, BeginDump PROVE Inv'
<1>0. TypeOK /\ main \in Handler /\ main.page \in Nat
  <2>1. TypeOK /\ main \in Handler BY DEF Inv, TypeOK
  <2> QED BY <2>1 DEF Handler
<1>1. /\ status = "up" /\ main.pc = "scan" /\ main.page <= Len(headers)
      /\ BeginDefrag("main", main.page)
      /\ main' = [main EXCEPT !.pc = "defrag"]
      /\ UNCHANGED <<status, uploaded, mem, lru, hashmap, LSN, disk, file, worker, history>>
  BY DEF BeginDump, MainLives
<1>2. main.page \in DOMAIN headers
  <2>1. main.page # 0 BY <1>1 DEF Inv, MainOnPage
  <2>2. headers \in Seq(Header) BY <1>0 DEF TypeOK
  <2> QED BY <1>0, <1>1, <2>1, <2>2
<1>3. /\ headers' \in Seq(Header) /\ Len(headers') <= MaxPages /\ KeysKept
      /\ \A q \in DOMAIN headers : headers'[q].location = headers[q].location
      /\ defrag' \in [Thread -> [page : Nat, block : Nat, offset : Nat]]
      /\ defrag'["main"].page = main.page /\ defrag'["main"].block = 1
      /\ defrag'["worker"] = defrag["worker"]
  BY <1>0, <1>1, <1>2, DefragBegun, Threads
<1>4. main' \in Handler /\ main'.pc = "defrag" /\ main'.page = main.page
  BY <1>0, <1>1, HandlerFields, ZenonT(60)
<1>5. TypeOK' BY <1>0, <1>1, <1>3, <1>4 DEF TypeOK, history
<1>6. WorkerKept BY <1>1, SameWorker
<1>7. WorkerInserts' BY <1>1, <1>3 DEF Inv, WorkerInserts, KeysKept
<1>8. MainOnPage' BY <1>2, <1>3, <1>4 DEF MainOnPage, KeysKept
<1> QED BY <1>1, <1>3, <1>5, <1>6, <1>7, <1>8, Frame

(* The write of a dirty page only adds to db.snap. *)
LEMMA WriteInv == ASSUME Inv, WriteDirtyPage PROVE Inv'
<1> DEFINE image == PageImage(mem, headers[main.page].arena_id)
           w == WritePage(file.pages, disk.pos, image)
<1>0. /\ TypeOK /\ main \in Handler /\ file \in File /\ mem \in Memory
      /\ disk \in [lsn : Nat, keys_dumped : Nat, pos : Nat]
  BY DEF Inv, TypeOK
<1>1. /\ status = "up" /\ main.pc = "write" /\ file' = [file EXCEPT !.pages = w]
      /\ disk' = [disk EXCEPT !.pos = disk.pos + 1]
      /\ main' = [main EXCEPT !.pc = "clean"]
      /\ saved' = Unsaved
      /\ UNCHANGED <<status, arenaVars, hashmap, LSN, worker, defrag, kv, quiet, damage, ops>>
  BY DEF WriteDirtyPage, MainLives
<1>2. main.page \in DOMAIN headers BY <1>1 DEF Inv, MainOnPage
<1>3. image \in Memory
  <2>1. headers[main.page].arena_id \in Slot BY <1>0, <1>2, HeaderAt, HeaderFields
  <2> QED BY <1>0, <2>1, PageImageType
<1>4. disk.pos \in Nat /\ disk' \in [lsn : Nat, keys_dumped : Nat, pos : Nat]
  BY <1>0, <1>1
<1> HIDE DEF image
<1>5. w \in Seq(Memory) /\ DOMAIN file.pages \subseteq DOMAIN w
  BY <1>0, <1>3, <1>4, FileFields, WritePageType
<1> HIDE DEF w
<1>6. file' \in File /\ file'.pages = w /\ file'.headers = file.headers
  BY <1>0, <1>1, <1>5, FilePages
<1>7. main' \in Handler /\ main'.pc = "clean" /\ main'.page = main.page
  BY <1>0, <1>1, HandlerFields, ZenonT(60)
<1>8. TypeOK' BY <1>0, <1>1, <1>4, <1>6, <1>7, EmptyTypes DEF TypeOK, arenaVars
<1>9. headers' = headers /\ KeysKept /\ WorkerKept
  BY <1>1, SameHeaders, SameWorker DEF arenaVars
<1>10. WorkerInserts' BY <1>1, <1>9 DEF Inv, WorkerInserts
<1>11. MainOnPage' BY <1>2, <1>7, <1>9 DEF MainOnPage
<1> QED BY <1>1, <1>5, <1>6, <1>8, <1>9, <1>10, <1>11, Frame

(* A page that was written becomes clean, and destroy_headers goes on to   *)
(* the next.                                                               *)
LEMMA EndDumpInv == ASSUME Inv, EndDump PROVE Inv'
<1>0. TypeOK /\ main \in Handler /\ main.page \in Nat
  <2>1. TypeOK /\ main \in Handler BY DEF Inv, TypeOK
  <2> QED BY <2>1 DEF Handler
<1>1. /\ status = "up" /\ main.pc = "clean"
      /\ main' = [main EXCEPT !.pc = "scan", !.page = main.page + 1]
      /\ UNCHANGED <<status, uploaded, mem, lru, hashmap, LSN, disk, file, worker, defrag,
                     history>>
  BY DEF EndDump, MainLives
<1>2. main.page \in DOMAIN headers BY <1>1 DEF Inv, MainOnPage
<1> DEFINE p == main.page
           h == [headers[p] EXCEPT !.state = "CLEAN"]
<1>3. /\ headers' \in Seq(Header) /\ Len(headers') <= MaxPages /\ KeysKept
      /\ \A q \in DOMAIN headers : headers'[q].location = headers[q].location
  <2>1. CASE main.phase = "snapshot"
    <3>1. headers' = [headers EXCEPT ![p] = h] BY <2>1 DEF EndDump
    <3>2. headers[p] \in Header BY <1>0, <1>2, HeaderAt
    <3>3. h \in Header /\ h.keys = headers[p].keys /\ h.location = headers[p].location
      BY <3>2 DEF Header
    <3> HIDE DEF h
    <3>4. /\ headers' \in Seq(Header) /\ Len(headers') <= MaxPages /\ KeysKept
          /\ headers'[p] = h /\ \A q \in DOMAIN headers : q # p => headers'[q] = headers[q]
      BY <1>0, <1>2, <3>1, <3>3, OnePage
    <3> QED BY <3>3, <3>4
  <2>2. CASE main.phase # "snapshot"
    <3>1. headers' = headers BY <2>2 DEF EndDump
    <3> QED BY <1>0, <3>1, SameHeaders DEF TypeOK
  <2> QED BY <2>1, <2>2
<1>4. p + 1 \in Nat /\ p + 1 # 0 BY <1>0
<1>5. main' \in Handler /\ main'.pc = "scan" /\ main'.page = p + 1
  <2> DEFINE n == p + 1
  <2>1. n \in Nat /\ main' = [main EXCEPT !.pc = "scan", !.page = n] BY <1>1, <1>4
  <2> HIDE DEF n
  <2>2. main' \in Handler /\ main'.pc = "scan" /\ main'.page = n
    BY <1>0, <2>1 DEF Handler
  <2> QED BY <2>2 DEF n
<1>6. TypeOK' BY <1>0, <1>1, <1>3, <1>5 DEF TypeOK, history
<1>7. WorkerKept BY <1>1, SameWorker
<1>8. WorkerInserts' BY <1>1, <1>3 DEF Inv, WorkerInserts, KeysKept
<1>9. MainOnPage' BY <1>4, <1>5 DEF MainOnPage
<1> QED BY <1>1, <1>3, <1>6, <1>7, <1>8, <1>9, Frame

(* The steps of disk_dump_keys only write the key file. *)
LEMMA KeysInv ==
    ASSUME Inv, status = "up",
           UNCHANGED <<status, arenaVars, hashmap, LSN, worker, defrag, kv, quiet, damage, ops>>,
           file' \in File, file'.pages = file.pages, KeyFileFits',
           disk' \in [lsn : Nat, keys_dumped : Nat, pos : Nat],
           saved' \in [ok : BOOLEAN, kv : Contents],
           main' \in Handler, MainOnPage'
    PROVE  Inv'
<1>1. TypeOK' BY DEF Inv, TypeOK, arenaVars
<1>2. headers' = headers /\ KeysKept /\ WorkerKept
  BY SameHeaders, SameWorker DEF arenaVars
<1>3. IndexConsistent' /\ WorkerPoints' BY <1>2, IndexKept
<1>4. WorkerInserts' BY <1>2 DEF Inv, WorkerInserts
<1>5. ColdPagesInFile' BY <1>2 DEF Inv, ColdPagesInFile
<1>6. DownIsIdle' BY DEF DownIsIdle
<1> QED BY <1>1, <1>3, <1>4, <1>5, <1>6 DEF Inv

(* Writing the key file leaves db.snap alone. *)
LEMMA FileHeadersKept ==
    ASSUME NEW f \in File, NEW hs \in Seq([offset_bytes : Nat, keys : Seq(HeaderKey)]),
           NEW st \in {"whole", "part", "garbled"}
    PROVE  /\ [f EXCEPT !.headers = hs, !.state = st] \in File
           /\ [f EXCEPT !.headers = hs, !.state = st].headers = hs
           /\ [f EXCEPT !.headers = hs, !.state = st].pages = f.pages
BY DEF File

(* disk_dump_keys starts with the first header. *)
LEMMA BeginKeysInv == ASSUME Inv, BeginKeys PROVE Inv'
<1>0. TypeOK /\ main \in Handler BY DEF Inv, TypeOK
<1>1. /\ status = "up" /\ main' = [main EXCEPT !.pc = "keys", !.page = 1]
      /\ UNCHANGED <<status, arenaVars, hashmap, LSN, disk, file, worker, defrag, history>>
  BY DEF BeginKeys, MainLives
<1>2. main' \in Handler /\ main'.pc = "keys" /\ main'.page = 1
  BY <1>0, <1>1 DEF Handler
<1>3. MainOnPage' BY <1>2 DEF MainOnPage
<1>4. UNCHANGED <<kv, saved, damage, ops, quiet>> BY <1>1 DEF history
<1> QED BY <1>0, <1>1, <1>2, <1>3, <1>4, HandlerInv DEF TypeOK

(* The number of the keys of one header is written. *)
LEMMA DumpHeaderInv == ASSUME Inv, DumpHeader PROVE Inv'
<1> DEFINE Dumped == [offset_bytes : Nat, keys : Seq(HeaderKey)]
           n == main.page
           new == [offset_bytes |-> headers[n].offset_bytes, keys |-> headers[n].keys]
           hs == [p \in 1 .. n |-> IF p < n THEN file.headers[p] ELSE new]
           st == IF n = 1 THEN "part" ELSE file.state
<1>0. /\ TypeOK /\ main \in Handler /\ file \in File /\ headers \in Seq(Header)
      /\ Len(headers) <= MaxPages
  BY DEF Inv, TypeOK
<1>1. /\ status = "up" /\ main.pc = "keys" /\ n <= Len(headers)
      /\ file' = [file EXCEPT !.state = st, !.headers = hs]
      /\ main' = [main EXCEPT !.pc = "list"] /\ saved' = Unsaved
      /\ UNCHANGED <<status, arenaVars, hashmap, LSN, disk, worker, defrag, kv, quiet,
                     damage, ops>>
  BY DEF DumpHeader, MainLives
<1>2. n \in Nat \ {0} /\ n - 1 <= Len(file.headers)
  <2>1. n \in Nat BY <1>0 DEF Handler
  <2> QED BY <1>1, <2>1 DEF Inv, KeyFileFits
<1>3. n \in DOMAIN headers BY <1>0, <1>1, <1>2
<1>4. new \in Dumped
  <2>1. headers[n] \in Header BY <1>0, <1>3
  <2> QED BY <2>1, HeaderFields
<1> HIDE DEF new
<1>5. file.headers \in Seq(Dumped) BY <1>0, FileFields
<1>6. st \in {"whole", "part", "garbled"} BY <1>0, FileFields
<1> HIDE DEF Dumped, st
<1>7. ASSUME NEW p \in 1 .. n
      PROVE  (IF p < n THEN file.headers[p] ELSE new) \in Dumped
  <2>1. CASE p < n
    <3>1. p \in 1 .. Len(file.headers) BY <1>2, <1>5, <2>1
    <3> QED BY <1>5, <2>1, <3>1
  <2>2. CASE ~(p < n) BY <1>4, <2>2
  <2> QED BY <2>1, <2>2
<1>8. hs \in [1 .. n -> Dumped] BY <1>7
<1> HIDE DEF hs
<1>9. hs \in Seq(Dumped) /\ Len(hs) = n BY <1>2, <1>8, IsSequence
<1>10. file' \in File /\ file'.pages = file.pages /\ file'.headers = hs
  <2>1. hs \in Seq([offset_bytes : Nat, keys : Seq(HeaderKey)]) BY <1>9 DEF Dumped
  <2>2. file' = [file EXCEPT !.headers = hs, !.state = st] BY <1>0, <1>1 DEF File
  <2> QED BY <1>0, <1>6, <2>1, <2>2, FileHeadersKept, ZenonT(60)
<1>11. main' \in Handler /\ main'.pc = "list" /\ main'.page = n
  BY <1>0, <1>1, HandlerFields, ZenonT(60)
<1>12. KeyFileFits'
  <2>1. n <= MaxPages BY <1>0, <1>1, <1>2, LruAssumption
  <2>2. n \in DOMAIN hs BY <1>2, <1>9
  <2> HIDE DEF n
  <2> QED BY <1>9, <1>10, <1>11, <2>1, <2>2 DEF KeyFileFits
<1>13. MainOnPage'
  <2>1. headers' = headers BY <1>1 DEF arenaVars
  <2> QED BY <1>3, <1>11, <2>1 DEF MainOnPage
<1>14. disk' \in [lsn : Nat, keys_dumped : Nat, pos : Nat] BY <1>0, <1>1 DEF TypeOK
<1> QED BY <1>1, <1>10, <1>11, <1>12, <1>13, <1>14, EmptyTypes, KeysInv

(* The keys of one header are written. *)
LEMMA KeysListedType ==
    ASSUME Inv, main.pc = "list", NEW st \in {"whole", "part", "garbled"}
    PROVE  /\ KeysListed(st) \in File /\ KeysListed(st).pages = file.pages
           /\ KeysListed(st).headers =
                  [file.headers EXCEPT ![main.page].keys = headers[main.page].keys]
           /\ Len(KeysListed(st).headers) = Len(file.headers)
           /\ main.page \in DOMAIN headers /\ main.page \in DOMAIN file.headers
<1> DEFINE Dumped == [offset_bytes : Nat, keys : Seq(HeaderKey)]
           n == main.page
           hs == [file.headers EXCEPT ![n].keys = headers[n].keys]
<1>0. /\ TypeOK /\ file \in File /\ headers \in Seq(Header)
  BY DEF Inv, TypeOK
<1>1. n \in DOMAIN headers /\ n \in DOMAIN file.headers BY DEF Inv, MainOnPage, KeyFileFits
<1>2. headers[n].keys \in Seq(HeaderKey) BY <1>0, <1>1, HeaderAt, HeaderFields
<1>3. file.headers \in Seq(Dumped) BY <1>0, FileFields
<1>4. [file.headers[n] EXCEPT !.keys = headers[n].keys] \in Dumped
  <2> HIDE DEF Dumped, n
  <2>1. file.headers[n] \in Dumped BY <1>1, <1>3
  <2>2. headers[n].keys \in Seq(HeaderKey) BY <1>2
  <2> QED BY <2>1, <2>2 DEF Dumped
<1> HIDE DEF Dumped, n
<1>5. hs = [file.headers EXCEPT ![n] = [file.headers[n] EXCEPT !.keys = headers[n].keys]]
  BY <1>1
<1>6. hs \in Seq(Dumped) /\ Len(hs) = Len(file.headers) BY <1>1, <1>3, <1>4, <1>5
<1>7. KeysListed(st) = [file EXCEPT !.headers = hs, !.state = st]
  BY <1>0 DEF KeysListed, File, n
<1>8. /\ KeysListed(st) \in File /\ KeysListed(st).pages = file.pages
      /\ KeysListed(st).headers = hs
  <2> HIDE DEF hs
  <2> DEFINE f == [file EXCEPT !.headers = hs, !.state = st]
  <2>0. hs \in Seq([offset_bytes : Nat, keys : Seq(HeaderKey)]) BY <1>6 DEF Dumped
  <2>1. f \in File /\ f.headers = hs /\ f.pages = file.pages
    BY <1>0, <2>0, FileHeadersKept, ZenonT(60)
  <2> QED BY <1>7, <2>1
<1> QED BY <1>1, <1>6, <1>8 DEF n

(* disk_dump_keys writes the keys of one header, or ends the process. *)
LEMMA DumpKeysInv == ASSUME Inv, DumpKeys PROVE Inv'
<1>0. /\ TypeOK /\ main \in Handler /\ file \in File /\ headers \in Seq(Header)
      /\ disk \in [lsn : Nat, keys_dumped : Nat, pos : Nat]
  BY DEF Inv, TypeOK
<1>1. status = "up" /\ main.pc = "list" BY DEF DumpKeys, MainLives
<1>2. CASE file' = [file EXCEPT !.state = "garbled"] /\ Die("SIGSEGV")
  <2>1. file' \in File /\ file'.headers = file.headers BY <1>0, <1>2 DEF File
  <2> QED BY <1>2, <2>1, DieInv
<1>3. ASSUME NEW st \in {"whole", "part", "garbled"},
             /\ file' = KeysListed(st)
             /\ disk' = [disk EXCEPT !.keys_dumped = @ + Len(headers[main.page].keys)]
             /\ main' = [main EXCEPT !.pc = "keys", !.page = @ + 1]
             /\ saved' = Unsaved
             /\ UNCHANGED <<status, arenaVars, hashmap, LSN, worker, defrag, kv,
                            quiet, damage, ops>>
      PROVE  Inv'
  <2>1. /\ file' \in File /\ file'.pages = file.pages
        /\ Len(file'.headers) = Len(file.headers)
        /\ main.page \in DOMAIN headers /\ main.page \in DOMAIN file.headers
    BY <1>1, <1>3, KeysListedType
  <2>2. main.page \in Nat \ {0} BY <1>0, <2>1
  <2>3. main' \in Handler /\ main'.pc = "keys" /\ main'.page = main.page + 1
    <3> DEFINE n == main.page + 1
    <3>1. n \in Nat /\ main' = [main EXCEPT !.pc = "keys", !.page = n] BY <1>3, <2>2
    <3> HIDE DEF n
    <3>2. main' \in Handler /\ main'.pc = "keys" /\ main'.page = n
      BY <1>0, <3>1 DEF Handler
    <3> QED BY <3>2 DEF n
  <2>4. disk' \in [lsn : Nat, keys_dumped : Nat, pos : Nat]
    <3> DEFINE n == disk.keys_dumped + Len(headers[main.page].keys)
    <3>1. headers[main.page].keys \in Seq(HeaderKey) BY <1>0, <2>1, HeaderAt, HeaderFields
    <3>2. n \in Nat
      <4>1. disk.keys_dumped \in Nat BY <1>0
      <4>2. Len(headers[main.page].keys) \in Nat BY <3>1
      <4> QED BY <4>1, <4>2
    <3> HIDE DEF n
    <3>3. disk' = [disk EXCEPT !.keys_dumped = n] BY <1>3 DEF n
    <3> QED BY <1>0, <3>2, <3>3
  <2>5. KeyFileFits'
    <3>1. file.headers \in Seq([offset_bytes : Nat, keys : Seq(HeaderKey)])
      BY <1>0, FileFields
    <3>2. main.page <= Len(file.headers) /\ Len(file.headers) \in Nat BY <2>1, <3>1
    <3>3. Len(file.headers) <= MaxPages BY DEF Inv, KeyFileFits
    <3>4. main'.page # 0 /\ main'.page - 1 <= Len(file'.headers) BY <2>1, <2>2, <2>3, <3>2
    <3> QED BY <2>1, <2>3, <3>3, <3>4 DEF KeyFileFits
  <2>6. MainOnPage' BY <2>3 DEF MainOnPage
  <2> QED BY <1>1, <1>3, <2>1, <2>3, <2>4, <2>5, <2>6, EmptyTypes, KeysInv
<1>4. ASSUME NEW counted
      PROVE  (IF counted THEN file.state ELSE "garbled") \in {"whole", "part", "garbled"}
  BY <1>0, FileFields
<1> QED BY <1>2, <1>3, <1>4 DEF DumpKeys

(* The headers that disk_dump_keys has written stay in the key file. *)
LEMMA EndKeysInv == ASSUME Inv, EndKeys PROVE Inv'
<1> DEFINE Dumped == [offset_bytes : Nat, keys : Seq(HeaderKey)]
           n == Len(headers)
           hs == [p \in 1 .. n |-> file.headers[p]]
           st == IF file.state = "garbled" THEN "garbled" ELSE "whole"
<1>0. /\ TypeOK /\ main \in Handler /\ file \in File /\ headers \in Seq(Header)
      /\ n <= MaxPages
  BY DEF Inv, TypeOK
<1>1. /\ status = "up" /\ main.pc = "keys" /\ main.page > n
      /\ file' = [file EXCEPT !.headers = hs, !.state = st]
      /\ main' = IF main.exiting
                 THEN [main EXCEPT !.pc = "scan", !.phase = "destroy", !.page = 1]
                 ELSE MainIdle
      /\ saved' = IF quiet /\ damage = {} THEN Saved(kv) ELSE Unsaved
      /\ UNCHANGED <<status, arenaVars, hashmap, LSN, disk, worker, defrag, kv, quiet,
                     damage, ops>>
  BY DEF EndKeys, MainLives
<1>2. n \in Nat BY <1>0
<1>3. n <= Len(file.headers)
  <2>1. main.page \in Nat BY <1>0 DEF Handler
  <2>2. main.page - 1 <= Len(file.headers) BY <1>1 DEF Inv, KeyFileFits
  <2>3. Len(file.headers) \in Nat BY <1>0, FileFields
  <2> HIDE DEF n
  <2> QED BY <1>1, <1>2, <2>1, <2>2, <2>3
<1>4. file.headers \in Seq(Dumped) BY <1>0, FileFields
<1>5. hs \in Seq(Dumped) /\ Len(hs) = n
  <2> HIDE DEF Dumped, n
  <2>1. ASSUME NEW p \in 1 .. n PROVE file.headers[p] \in Dumped
    <3>1. p \in 1 .. Len(file.headers) BY <1>2, <1>3, <1>4
    <3> QED BY <1>4, <3>1
  <2>2. hs \in [1 .. n -> Dumped] BY <2>1
  <2> HIDE DEF hs
  <2> QED BY <1>2, <2>2, IsSequence
<1>6. st \in {"whole", "part", "garbled"} OBVIOUS
<1> HIDE DEF hs, st, n
<1>7. file' \in File /\ file'.pages = file.pages /\ file'.headers = hs
  <2>1. hs \in Seq([offset_bytes : Nat, keys : Seq(HeaderKey)]) BY <1>5
  <2>2. file' = [file EXCEPT !.headers = hs, !.state = st] BY <1>1
  <2> HIDE DEF Dumped
  <2> QED BY <1>0, <1>6, <2>1, <2>2, FileHeadersKept, ZenonT(60)
<1>8. main' \in Handler /\ main'.pc \notin {"keys", "list"} /\ MainOnPage'
  <2>1. CASE main.exiting
    <3>1. main' = [main EXCEPT !.pc = "scan", !.phase = "destroy", !.page = 1] BY <1>1, <2>1
    <3>2. main' \in Handler /\ main'.pc = "scan" /\ main'.page = 1
      BY <1>0, <3>1 DEF Handler
    <3> QED BY <3>2 DEF MainOnPage
  <2>2. CASE ~main.exiting
    <3>1. main' = MainIdle BY <1>1, <2>2
    <3>2. main' \in Handler /\ main'.pc = "idle" BY <3>1, NothingTypes DEF MainIdle
    <3> QED BY <3>2 DEF MainOnPage
  <2> QED BY <2>1, <2>2
<1>9. saved' \in [ok : BOOLEAN, kv : Contents]
  <2>1. Saved(kv) \in [ok : BOOLEAN, kv : Contents] BY <1>0 DEF TypeOK, Saved
  <2> QED BY <1>1, <2>1, EmptyTypes
<1>10. KeyFileFits' BY <1>0, <1>5, <1>7, <1>8 DEF KeyFileFits
<1> QED BY <1>0, <1>1, <1>7, <1>8, <1>9, <1>10, KeysInv DEF TypeOK

(* The ends of the process that leave the files, or complete their heads.  *)
LEMMA EndInv ==
    ASSUME Inv, NEW k, NEW v,
           \/ destroy_disk \/ Crash \/ operation_update(k) \/ insert_divides_by_zero(k, v)
    PROVE  Inv'
<1>0. /\ TypeOK /\ file \in File /\ disk \in [lsn : Nat, keys_dumped : Nat, pos : Nat]
  BY DEF Inv, TypeOK
<1>1. CASE destroy_disk
  <2>1. Die("exit") /\ file' = [file EXCEPT !.nkeys = disk.keys_dumped, !.lsn = disk.lsn]
    BY <1>1 DEF destroy_disk
  <2>2. disk.keys_dumped \in Nat /\ disk.lsn \in Nat BY <1>0
  <2>3. file' \in File /\ file'.headers = file.headers BY <1>0, <2>1, <2>2 DEF File
  <2> QED BY <2>1, <2>3, DieInv
<1>2. CASE Crash
  BY <1>0, <1>2, DieInv DEF Crash
<1>3. CASE operation_update(k)
  BY <1>0, <1>3, DieInv DEF operation_update
<1>4. CASE insert_divides_by_zero(k, v)
  BY <1>0, <1>4, DieInv DEF insert_divides_by_zero
<1> QED BY <1>1, <1>2, <1>3, <1>4
-----------------------------------------------------------------------------
(***************************************************************************)
(* db_start.                                                               *)
(***************************************************************************)
LEMMA LoadedPagesType ==
    ASSUME Inv
    PROVE  /\ LoadedPages \in Nat /\ LoadedPages <= MaxPages
           /\ 1 .. LoadedPages \subseteq DOMAIN file.pages
           /\ 1 .. LoadedPages \subseteq DOMAIN file.headers
<1>1. /\ file.pages \in Seq(Memory)
      /\ file.headers \in Seq([offset_bytes : Nat, keys : Seq(HeaderKey)])
  BY FileFields DEF Inv, TypeOK
<1>2. Len(file.headers) <= MaxPages BY DEF Inv, KeyFileFits
<1>3. LoadedPages \in Nat /\ LoadedPages <= Len(file.pages) /\ LoadedPages <= Len(file.headers)
  BY <1>1 DEF LoadedPages
<1> HIDE DEF LoadedPages
<1> QED BY <1>1, <1>2, <1>3, LruAssumption

(* The headers that db_start reads from the key file, and their pages. *)
LEMMA FileHeader ==
    ASSUME Inv, NEW p \in 1 .. LoadedPages
    PROVE  /\ p \in Nat \ {0}
           /\ file.headers[p].keys \in Seq(HeaderKey) /\ file.headers[p].offset_bytes \in Nat
           /\ file.pages[p] \in Memory
           /\ \A i \in DOMAIN file.headers[p].keys :
                 /\ i \in Nat
                 /\ file.headers[p].keys[i].key \in Key
                 /\ file.headers[p].keys[i].offset \in Nat
<1>1. /\ file.pages \in Seq(Memory)
      /\ file.headers \in Seq([offset_bytes : Nat, keys : Seq(HeaderKey)])
  BY FileFields DEF Inv, TypeOK
<1>2. p \in DOMAIN file.pages /\ p \in DOMAIN file.headers /\ p \in Nat \ {0}
  BY LoadedPagesType
<1>3. file.pages[p] \in Memory /\ file.headers[p] \in [offset_bytes : Nat, keys : Seq(HeaderKey)]
  <2>1. ASSUME NEW S, NEW s \in Seq(S), p \in DOMAIN s PROVE s[p] \in S
    BY <2>1
  <2> QED BY <1>1, <1>2, <2>1
<1>4. file.headers[p].keys \in Seq(HeaderKey) /\ file.headers[p].offset_bytes \in Nat
  BY <1>3
<1>5. ASSUME NEW i \in DOMAIN file.headers[p].keys
      PROVE  /\ i \in Nat
             /\ file.headers[p].keys[i].key \in Key /\ file.headers[p].keys[i].offset \in Nat
  <2>1. i \in Nat /\ file.headers[p].keys[i] \in HeaderKey BY <1>4
  <2> QED BY <2>1 DEF HeaderKey
<1> QED BY <1>2, <1>3, <1>4, <1>5

(* A key of the key file is loaded from a place where it stands. *)
LEMMA LoadedMetaFound ==
    ASSUME Inv, NEW k \in LoadedKeys
    PROVE  \E p \in 1 .. LoadedPages, i \in Nat :
              /\ i \in DOMAIN file.headers[p].keys /\ file.headers[p].keys[i].key = k
              /\ LoadedMeta(k) = [page |-> p, id |-> i]
<1> DEFINE places == UNION {{[page |-> p, id |-> i] : i \in DOMAIN file.headers[p].keys} :
                            p \in 1 .. LoadedPages}
<1>1. PICK p \in 1 .. LoadedPages, i \in Nat :
        i \in DOMAIN file.headers[p].keys /\ file.headers[p].keys[i].key = k
  BY FileHeader DEF LoadedKeys
<1>2. [page |-> p, id |-> i] \in places BY <1>1
<1>3. \E m \in places : file.headers[m.page].keys[m.id].key = k
  BY <1>1, <1>2
<1>4. LoadedMeta(k) \in places /\ file.headers[LoadedMeta(k).page].keys[LoadedMeta(k).id].key = k
  <2> HIDE DEF places
  <2>1. LoadedMeta(k) = CHOOSE m \in places : file.headers[m.page].keys[m.id].key = k
    BY DEF LoadedMeta, places
  <2> QED BY <1>3, <2>1
<1>5. PICK q \in 1 .. LoadedPages, j \in Nat :
        j \in DOMAIN file.headers[q].keys /\ LoadedMeta(k) = [page |-> q, id |-> j]
  BY <1>4, FileHeader
<1> QED BY <1>4, <1>5

(* There is only one such place. *)
LEMMA LoadedMetaAt ==
    ASSUME Inv, LoadedOnce,
           NEW p \in 1 .. LoadedPages, NEW i \in DOMAIN file.headers[p].keys
    PROVE  /\ file.headers[p].keys[i].key \in LoadedKeys
           /\ LoadedMeta(file.headers[p].keys[i].key) = [page |-> p, id |-> i]
<1> DEFINE k == file.headers[p].keys[i].key
<1>1. k \in Key BY FileHeader
<1>2. k \in LoadedKeys BY <1>1 DEF LoadedKeys
<1>3. PICK q \in 1 .. LoadedPages, j \in Nat :
        j \in DOMAIN file.headers[q].keys /\ LoadedMeta(k) = [page |-> q, id |-> j] /\ file.headers[q].keys[j].key = k
  BY <1>2, LoadedMetaFound
<1>4. p = q /\ i = j
  BY <1>3 DEF LoadedOnce
<1> QED BY <1>2, <1>3, <1>4

(* What the files say about a key is a content. *)
LEMMA DecodedType == ASSUME Inv, NEW k \in Key PROVE Decoded(k) \in Content
<1>1. CASE k \notin LoadedKeys BY <1>1 DEF Decoded, Content
<1>2. CASE k \in LoadedKeys
  <2>1. PICK p \in 1 .. LoadedPages, i \in Nat :
          i \in DOMAIN file.headers[p].keys /\ LoadedMeta(k) = [page |-> p, id |-> i]
    BY <1>2, LoadedMetaFound
  <2>2. Decoded(k) = ReadAt(file.pages[p], file.headers[p].keys[i].offset)
    BY <1>2, <2>1 DEF Decoded
  <2>3. file.pages[p] \in Memory BY FileHeader
  <2> QED BY <2>2, <2>3, ReadAtType DEF Content
<1> QED BY <1>1, <1>2

(* db_start builds a consistent index: LoadedOnce makes the place of a key *)
(* unique, and LoadedPages keeps every page inside db.snap.                *)
LEMMA StartInv == ASSUME Inv, db_start PROVE Inv'
<1> DEFINE n == LoadedPages
           H(p) == [keys |-> file.headers[p].keys,
                    offset_bytes |-> file.headers[p].offset_bytes,
                    fragmentated_bytes |-> 0, arena_id |-> 1, pLSN |-> file.lsn,
                    state |-> "CLEAN", location |-> "INDISK"]
<1>0. TypeOK /\ file \in File BY DEF Inv, TypeOK
<1>1. /\ status # "up" /\ status' = "up" /\ LoadedOnce /\ headers' = [p \in 1 .. n |-> H(p)]
      /\ hashmap' = [k \in Key |-> IF k \in LoadedKeys THEN LoadedMeta(k) ELSE NoMeta]
      /\ disk' = [lsn |-> file.lsn, keys_dumped |-> 0, pos |-> 1]
      /\ kv' = [k \in Key |-> Decoded(k)]
      /\ damage' = IF saved.ok THEN {} ELSE {"torn"}
      /\ UNCHANGED <<uploaded, mem, lru, LSN, file, main, worker, defrag, saved, quiet, ops>>
  BY DEF db_start
<1>2. worker.pc = "idle" /\ main.pc = "idle" BY <1>1 DEF Inv, DownIsIdle
<1>3. n \in Nat /\ n <= MaxPages BY LoadedPagesType
<1>4. ASSUME NEW p \in 1 .. n PROVE H(p) \in Header /\ H(p).keys = file.headers[p].keys
  <2>1. file.headers[p].keys \in Seq(HeaderKey) /\ file.headers[p].offset_bytes \in Nat
    BY FileHeader
  <2>2. file.lsn \in Nat BY <1>0, FileFields
  <2>3. 1 \in Slot BY ArenaAssumption DEF Slot
  <2> QED BY <2>1, <2>2, <2>3 DEF Header
<1> HIDE DEF H, n
<1>5. headers' \in Seq(Header) /\ Len(headers') = n /\ DOMAIN headers' = 1 .. n
  <2>1. headers' \in [1 .. n -> Header] BY <1>1, <1>4
  <2> QED BY <1>3, <2>1, IsSequence
<1>6. \A p \in 1 .. n : headers'[p].keys = file.headers[p].keys BY <1>1, <1>4
<1>7. \A k \in LoadedKeys : k \in Key BY DEF LoadedKeys
<1>8. hashmap' \in [Key -> Meta]
  <2>1. ASSUME NEW k \in LoadedKeys PROVE LoadedMeta(k) \in Meta
    <3>1. PICK p \in 1 .. LoadedPages, i \in Nat :
            i \in DOMAIN file.headers[p].keys /\ LoadedMeta(k) = [page |-> p, id |-> i]
      BY LoadedMetaFound
    <3>2. p \in Nat /\ i \in Nat BY FileHeader
    <3> QED BY <3>1, <3>2 DEF Meta
  <2>2. NoMeta \in Meta BY DEF NoMeta, Meta
  <2> QED BY <1>1, <2>1, <2>2
<1>9. TypeOK'
  <2>1. disk' \in [lsn : Nat, keys_dumped : Nat, pos : Nat]
    <3>1. file.lsn \in Nat BY <1>0, FileFields
    <3> QED BY <1>1, <3>1
  <2>2. kv' \in Contents BY <1>1, DecodedType DEF Contents
  <2>3. damage' \in SUBSET Damage BY <1>1 DEF Damage
  <2>4. Len(headers') <= MaxPages BY <1>3, <1>5
  <2> QED BY <1>0, <1>1, <1>5, <1>8, <2>1, <2>2, <2>3, <2>4 DEF TypeOK
<1>10. IndexConsistent'
  <2>1. ASSUME NEW k \in Key, hashmap'[k] # NoMeta
        PROVE  /\ hashmap'[k].page \in DOMAIN headers'
               /\ hashmap'[k].id \in DOMAIN headers'[hashmap'[k].page].keys
               /\ headers'[hashmap'[k].page].keys[hashmap'[k].id].key = k
    <3>1. k \in LoadedKeys /\ hashmap'[k] = LoadedMeta(k) BY <1>1, <2>1
    <3>2. PICK p \in 1 .. n, i \in Nat :
            i \in DOMAIN file.headers[p].keys /\ LoadedMeta(k) = [page |-> p, id |-> i] /\ file.headers[p].keys[i].key = k
      BY <3>1, LoadedMetaFound DEF n
    <3> QED BY <1>5, <1>6, <3>1, <3>2
  <2>2. ASSUME NEW p \in DOMAIN headers', NEW i \in DOMAIN headers'[p].keys
        PROVE  hashmap'[headers'[p].keys[i].key] = [page |-> p, id |-> i]
    <3>1. p \in 1 .. n /\ headers'[p].keys = file.headers[p].keys BY <1>5, <1>6
    <3>2. /\ file.headers[p].keys[i].key \in LoadedKeys
          /\ LoadedMeta(file.headers[p].keys[i].key) = [page |-> p, id |-> i]
      BY <1>1, <3>1, LoadedMetaAt DEF n
    <3> QED BY <1>1, <1>7, <3>1, <3>2
  <2> QED BY <2>1, <2>2 DEF IndexConsistent
<1>11. WorkerPoints' /\ WorkerInserts' /\ MainOnPage' /\ DownIsIdle'
  BY <1>1, <1>2 DEF WorkerPoints, WorkerInserts, MainOnPage, DownIsIdle
<1>12. ColdPagesInFile'
  BY <1>1, <1>5, LoadedPagesType DEF ColdPagesInFile, n
<1>13. KeyFileFits' BY <1>1, <1>2 DEF Inv, KeyFileFits
<1> QED BY <1>9, <1>10, <1>11, <1>12, <1>13 DEF Inv

(* A step that leaves everything, or only says how the process ended. *)
LEMMA SameInv ==
    ASSUME Inv,
           UNCHANGED <<arenaVars, hashmap, LSN, disk, file, main, worker, defrag, history>>,
           status' = status \/ (status # "up" /\ status' \in {"SIGABRT", "failure"})
    PROVE  Inv'
<1>1. UNCHANGED <<headers, uploaded, mem, lru, kv, saved, quiet, damage, ops>>
  BY DEF arenaVars, history
<1>2. TypeOK' BY <1>1 DEF Inv, TypeOK
<1>3. IndexConsistent' BY <1>1 DEF Inv, IndexConsistent, InFlight
<1>4. WorkerPoints' /\ WorkerInserts' /\ MainOnPage'
  BY <1>1 DEF Inv, WorkerPoints, WorkerInserts, MainOnPage, Holds
<1>5. ColdPagesInFile' /\ KeyFileFits' /\ DownIsIdle'
  BY <1>1 DEF Inv, ColdPagesInFile, KeyFileFits, DownIsIdle
<1> QED BY <1>2, <1>3, <1>4, <1>5 DEF Inv
-----------------------------------------------------------------------------
(* Every new operation keeps the invariant. *)
LEMMA OperationInv == ASSUME Inv, Operation PROVE Inv'
<1>1. PICK k \in Key :
        \/ operation_peek(k)
        \/ operation_select_missing(k) \/ operation_select(k)
        \/ operation_delete_missing(k) \/ operation_delete(k)
        \/ operation_update(k)
        \/ \E v \in Value :
              \/ operation_insert_refused(k, v)
              \/ insert_into_page(k, v)
              \/ insert_divides_by_zero(k, v)
              \/ insert_into_new_page(k, v)
              \/ insert_defragmentates(k, v)
  BY DEF Operation
<1>2. CASE operation_peek(k) \/ operation_select_missing(k) \/ operation_delete_missing(k)
  BY <1>2, AnswersInv
<1>3. CASE operation_select(k) BY <1>3, SelectInv
<1>4. CASE operation_delete(k) BY <1>4, DeleteInv
<1>5. CASE operation_update(k) BY <1>5, EndInv
<1>6. ASSUME NEW v \in Value, operation_insert_refused(k, v) PROVE Inv'
  BY <1>6, AnswersInv
<1>7. ASSUME NEW v \in Value, insert_into_page(k, v) PROVE Inv'
  BY <1>7, IntoPageInv
<1>8. ASSUME NEW v \in Value, insert_divides_by_zero(k, v) PROVE Inv'
  BY <1>8, EndInv
<1>9. ASSUME NEW v \in Value, insert_into_new_page(k, v) PROVE Inv'
  BY <1>9, IntoNewPageInv
<1>10. ASSUME NEW v \in Value, insert_defragmentates(k, v) PROVE Inv'
  BY <1>10, DefragmentatesInv
<1> QED BY <1>1, <1>2, <1>3, <1>4, <1>5, <1>6, <1>7, <1>8, <1>9, <1>10

(* Every later step of an operation keeps the invariant. *)
LEMMA WorkerStepInv == ASSUME Inv, WorkerStep PROVE Inv'
<1>1. CASE page_value_unset BY <1>1, UnsetInv
<1>2. CASE insert_after_defrag BY <1>2, AfterDefragInv
<1>3. CASE insert_key BY <1>3, InsertKeyInv
<1>4. CASE request_reply BY <1>4, AnswersInv
<1>5. CASE DefragBlock("worker") BY <1>5, DefragBlockInv, Threads
<1>6. CASE DefragDone("worker") BY <1>6, DefragDoneInv, Threads
<1> QED BY <1>1, <1>2, <1>3, <1>4, <1>5, <1>6 DEF WorkerStep

(* Every step of a signal handler keeps the invariant. *)
LEMMA MainStepInv == ASSUME Inv, MainStep PROVE Inv'
<1>1. CASE SkipPage \/ SeekPage BY <1>1, SkipOrSeekInv
<1>2. CASE BeginDump BY <1>2, BeginDumpInv
<1>3. CASE DefragBlock("main") BY <1>3, DefragBlockInv, Threads
<1>4. CASE DefragDone("main") BY <1>4, DefragDoneInv, Threads
<1>5. CASE WriteDirtyPage BY <1>5, WriteInv
<1>6. CASE EndDump BY <1>6, EndDumpInv
<1>7. CASE BeginKeys BY <1>7, BeginKeysInv
<1>8. CASE DumpKeys BY <1>8, DumpKeysInv
<1>9. CASE EndKeys BY <1>9, EndKeysInv
<1>10. CASE destroy_disk BY <1>10, EndInv
<1>11. CASE DumpHeader BY <1>11, DumpHeaderInv
<1> QED BY <1>1, <1>2, <1>3, <1>4, <1>5, <1>6, <1>7, <1>8, <1>9, <1>10, <1>11 DEF MainStep

(* The invariant is inductive. *)
LEMMA NextInv == Inv /\ [Next]_vars => Inv'
<1> SUFFICES ASSUME Inv, [Next]_vars PROVE Inv'
  OBVIOUS
<1>1. CASE Operation BY <1>1, OperationInv
<1>2. CASE WorkerStep BY <1>2, WorkerStepInv
<1>3. CASE MainStep BY <1>3, MainStepInv
<1>4. CASE Signal BY <1>4, SignalInv
<1>5. CASE Crash BY <1>5, EndInv
<1>6. CASE db_start BY <1>6, StartInv
<1>7. CASE db_start_fails BY <1>7, SameInv DEF db_start_fails
<1>8. CASE UNCHANGED vars BY <1>8, SameInv DEF vars, arenaVars, history
<1> QED BY <1>1, <1>2, <1>3, <1>4, <1>5, <1>6, <1>7, <1>8 DEF Next

(* The invariant holds in every behaviour. *)
LEMMA SpecInv == Spec => []Inv
BY InitInv, NextInv, PTL DEF Spec

(* Whatever the two threads do and wherever the process dies, the variables *)
(* of the storage engine keep their types: every index the code uses is a   *)
(* number, every page it reads back exists.                                 *)
THEOREM TypeCorrect == Spec => []TypeOK
<1>1. Inv => TypeOK BY DEF Inv
<1> QED BY <1>1, SpecInv, PTL

(* For any number of keys, values and pages: the hash map and the key       *)
(* vectors of the page headers are inverse to each other in every state,    *)
(* except for the one key that an operation has in hand.                    *)
THEOREM IndexStaysConsistent == Spec => []IndexConsistent
<1>1. Inv => IndexConsistent BY DEF Inv
<1> QED BY <1>1, SpecInv, PTL
=============================================================================
