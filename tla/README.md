# FGDB: specification and verification

FGDB is a key-value server in C. One thread runs a libev event loop that reads
requests and writes replies; a second thread, the transaction worker, takes
requests from a priority queue and executes them on pages kept in an arena. The
main thread also takes the signals: `SIGUSR1` writes a snapshot of the pages and
keys to two files, `SIGTERM` and `SIGINT` write one and end the server. The next
start reads the files back. Every modification is written to a log first, which
nothing reads back yet.

This directory holds TLA+ modules for that system, TLC configurations for small
instances, and theorems with proofs checked by TLAPS. Every definition is taken
from the C code; `PROJECT.json` maps each one to its lines.

## Inventory

| Component | State | Operations | Talks to | What makes it correct | Module |
|---|---|---|---|---|---|
| Transaction queue (`transactions/queue.c`) and heap (`lib/heap/heap.c`) | mutex, semaphore, array of entries, mapped pages | `push_queue`, `pop_queue`, `heap_insert`, `heap_delmin` | event loop pushes, worker pops | exclusion; the semaphore never exceeds the entries; heap order; nothing lost; the worker goes on | `TransQueue` |
| Operations (`operations/operations.c`) | none of their own | `operation_peek`, `_select`, `_insert`, `_delete`, `_update` | hash map, pages, log, reply | replies say what the database holds | `Storage` |
| Page manager and arena (`arena/manager.c`, `arena/arena.c`) | headers with key vectors, page bytes, slots in use | allocation of a page for a value, set, get, unset, heating, defragmentation, snapshot | LRU queue, disk, both threads | index and vectors agree; values stay readable while they are moved | `Storage`, `Arena` |
| LRU queue (`lru/lruq.c`) | list through the headers, top, bottom | `lru_touch_page`, `least_recent_page` | arena | a page is found when the arena is full | `LruQueue` |
| Disk (`arena/disk.c`) | `db.snap`, `key.key`, file offsets, `keys_dumped`, `lsn` | dump and upload of pages, keys and headers | snapshot, heating, start | a completed snapshot is what the next start reads | `Storage` |
| Start and signals (`main.c`) | the globals | `db_start`, the handlers, the worker loop | everything | restart and nested signals keep the index | `Storage` |
| Write-ahead log (`wal/wal.c`) | file, LSN | `write_log` | operations | acknowledged records stay, in order | `Wal` |
| Hash map and AVL tree (`memory/hashmap.c`, `lib/hashmap`) | tables of trees, pointers, heights, counters | search, insert, delete, remaking a bucket into a table, erase | operations, start | finds what was inserted and not deleted | `HashMap`; a function in `Storage` |
| Vector (`lib/vector`) | array, capacity, total | add, get, delete | headers | stays inside its allocation | a sequence in `Storage` |
| Buddy allocator (`lib/buddy`) | array of block states, counter | `buddy_alloc`, `buddy_free` | arena | blocks are disjoint, a free finds its block | `Buddy` |
| Request, buffer, message, protocol (`server/`, `main.c`) | state, buffer and watcher of a connection | `accept_cb`, `parse_request`, `on_request`, `request_reply`, `write_reply`, `destroy_request` | event loop, queue, worker, client | one owner at a time, the reply to one's own command, every request ends | `Request` |
| Creating the socket, log, configuration, Perl client | | | | | not modelled |

What is hard here: the main thread walks and moves the same pages as the worker
without a lock; a signal may interrupt a handler; the files are overwritten in
place, so a crash leaves a mixture; counters and offsets have 16 bits; the queue
changes three objects one after the other; a log record takes several system
calls; a request goes from the event loop to the worker and back, over a library
that is not made for two threads; messages come in pieces; trees are rebalanced
through pointers that may be copies. The list under "hazards" in `PROJECT.json`
names the lines.

## Modules

* `Arena`: what the bytes of the arena hold, as a set of records `[addr, val]`. A
  write removes the records it overlaps; a read gives the value that lies at the
  address or `Garbage`, whose length may be anything in `GarbageLen`. `Size[v]` is
  the length of value `v`; a record is two bytes longer.
* `LruQueue`: the doubly linked list exactly as the code links it: a page that is
  touched again is not taken out first, `top` and `bottom` may disagree.
* `Storage`: composes the two with the headers, the hash map, the files, the
  worker and the main thread.
* `TransQueue`: the queue and its two threads.
* `Wal`: the log file across lives of the process.
* `KVStore`: what the storage engine promises. `StorageImpl` maps `Storage` to it.
* `PriorityQueue`: what the transaction queue promises, in the order of the keys
  that `heap.c` compares. `TransQueueImpl` maps `TransQueue` to it; `Request` is
  built on it.
* `TransQueueOrder`: the order that the documents promise, which is another one.
  It adds the order of arrival to `TransQueue`.
* `Request`: a connection between client, event loop, queue and worker.
* `HashMap`: the tables and trees of the key index.
* `Buddy`: the allocator under the arena.
* `MC*`: values for the constants. `*Proofs`: theorems.

How they fit together: `Request` puts entries into a `PriorityQueue` and takes the
execution of an operation as one step. `TransQueue` shows that the heap under its
mutex and semaphore is such a queue. `Storage` is what the operations do, with
`Arena` and `LruQueue` inside it, and is such a store as `KVStore` describes. In
`Storage` the hash map is a function and the log is left out; `HashMap` and `Wal`
are these two on their own.

### Storage: state and steps

| Variable | Code |
|---|---|
| `headers` | `arena->headers`, pages numbered from 1 |
| `mem`, `uploaded` | `arena->pages`, `arena->uploaded_pages` |
| `lru`, `hashmap`, `LSN` | the globals; `hashmap[k]` is page and `header_key_id` |
| `disk` | `disk->lsn`, `disk->keys_dumped`, and the offset of `db.snap` |
| `file` | `db.snap` and `key.key` |
| `main`, `worker`, `defrag` | local variables of the handlers, of the operation, and of `arena_defragmentate_page` in either thread |
| `status` | `"up"`, or how the process ended |
| `kv`, `saved`, `quiet`, `damage`, `ops` | history, for properties and bounds; no guard but the bound on `ops` reads them |

An operation is cut where the other thread can see it half done: between page and
hash map (`operation_delete`, then `page_value_unset`; `insert_into_page`, then
`insert_key`), between the operation and its reply, and around every block of a
defragmentation. A handler is cut at every header, every block, between `lseek`
and `write`, between the write and `PAGE_CLEAN`, and in the key file at every
header and between the number of its keys (`DumpHeader`) and the keys (`DumpKeys`).
What is one step: `page_value_set`, the move of one block, the clearing at
the end of a defragmentation, the write of one page, the list of the keys of one
header.
Where the two threads touch one page inside such a step, the step notes the
damage `race`, and the properties about values say nothing from then on; the
index properties still do.

Behaviour of the code that the model takes as it is: `page_value_set` neither
heats a page nor marks it dirty; an evicted page keeps its slot; the length of a
moved record is read at its old place; a page without keys divides by zero;
`operation_update` ends the process; a shutdown may interrupt a snapshot but is
not followed by the rest of it; after the first header is freed the worker only
has the step `Crash`. `operation_select` has no `return`; built with `-O0` the
reply is in the return register, and the model says so.

The events after which stored values may be wrong are collected in `damage`:
`overflow`, `cold`, `clean`, `evict`, `race`, `torn`, `overlap` (their meaning is
at the definition). The properties about values hold until the first of them.
`clean` only endangers the files, so what is read back in memory holds beyond it.

### TransQueue and Wal

In `TransQueue` each loop iteration of `heap_insert` and `heap_delmin` is a step.
The key of an entry is the command plus 256 times what the padding holds, since
the comparison reads an `int` where the message has one byte. A transaction that
was executed may come again, so queue lengths are bounded by `Trans` and the
number of requests is not. `SIGUSR1` stops the thread that takes it until its
handler returns: the main thread, or the worker when the main thread is in the
handler already, since the signal is blocked there and in no other thread. A worker
that waits in `sem_wait` then goes on without a count (`HandlerReturns`), which
`pop_queue` does not notice, to an empty heap (`DelMinNothing`) and to the NULL that
ends the process (`DereferenceNull`), or to an entry that came meanwhile.
`uncounted` counts how often.

In `Wal` a record may be written in parts, and the process may end between any two
calls. A call that is refused with `EAGAIN` or `EINTR` adds -1 to `written`: at
the first call the loop ends with nothing written (`WriteRefused`); behind a part
`written` goes back by a byte, so the record is written from its beginning once
more or with a byte in it twice (`RestRefused`, `WriteBehind`). A record in the
file carries the byte that `to_binary` stores in the place of the operation, which
is the low byte of the length of the key.

### The two refinements

`StorageImpl!ImplementsKVStore`: `contents` (`Visible`) is what a lookup would
read through the hash map, the key vector and the bytes of the arena or of the
file, `Unknown` once `damage` has more than `clean` in it, and `Down` when the
process is not running; `durable` (`OnFile`) is what a start would decode from the
files, while the last snapshot was quiet and is whole. The point of an insertion
is `insert_key`, that of a deletion the removal from the hash map; every other
step of either thread, blocks that move, pages that are heated, halves of
handlers, must be a stutter, the beginning or the end of a copy, or a harm. An
insertion or deletion while a page is moved is therefore compared with what the
whole store would say, key by key. The mapping computes both from the real state
and not from the history variables; of these it reads `damage` and the flag
`saved.ok`.

`TransQueueImpl!ImplementsPriorityQueue`: the entries of the array, without the
hole that `heap_insert` moves up. A push is visible when the entry is stored, a
pop when the root is taken. It says that an entry appears at once
and whole, and that the one that is taken has a least key, whatever the other
thread does meanwhile. The key is the one that `heap.c` compares; that it is not
the one of the documents is the matter of `TransQueueOrder`.

### Request: state and steps

A byte is a cell with the mark it is when MessagePack takes it for the beginning
of an object and the number it is when it is taken for one. The body of a message
is a constant; its length is sent before it, in `LenBytes` digits. `recv` and
`send` may move any number of bytes up to what was asked for, and either may
fail.

| Variable | Code |
|---|---|
| `req[c]` | the `request_t` of a connection: state, `buf` with its `total`, message; `sent`, `got` and `whole` say what the client sent and what of it has come |
| `watch[c]` | its `ev_io`: not started, in the list of changes of the loop (`reading`, `writing`), known to the kernel (`read`, `write`), or lost |
| `queue`, `worker` | the transaction queue; where the worker is and whose request it has |
| `loop`, `async` | in `epoll_wait`, in the callbacks, or in `parse_request` between the cases INIT and READ; `server.trigger` |
| `process`, `out` | whether it runs; what the client has got |

`parse_request` is two steps, cut at its fall through, because the second `recv`
may bring other bytes than the first. The worker has three: `pop_queue`; the
operation with `request_reply` up to `ev_io_start`; `ev_async_send`, before which
the loop may have freed the request. libev is external: a watcher that is started
reaches the kernel when the loop comes to its end (`Poll`), and two threads that
append to its list at the same time may lose one watcher.

As the code has it: the four bytes of the length count as bytes of the message if
the first `recv` does not bring all of it; the bytes copied in their place are
zeros, or whatever lies behind the local buffer; after one more `recv` the message
is taken for complete; `strncpy` stops at a zero byte; the number of a command is
cut down to the byte of its enumeration (`message_command`); data that is neither a
string nor a map makes the process die, or for `nil` perhaps not, in the format of
the log; an unknown command is answered by the event loop
itself, or the process dies at the name of the command; `UPDATE` ends it.

### HashMap and Buddy

`HashMap` keeps the nodes with `left`, `right`, `parent` and `hight`, and every
rotation changes them as `AVLNode.c` does, in the same order and with the same
tests. A C function that gets the address of a pointer is an operator that returns
the new heap, the new pointer and the events that break a tree: `SIGSEGV`, `lost`
and `confused`. The map is followed up to the first of them. Which address a node
has cannot be observed, so after every operation nodes are renamed to their keys;
without that the number of states would be that of the histories.

`Buddy` has the array of the tree and the arithmetic of positions and addresses as
the code has it, `pos / 2` for the parent included. The search and the merging are
recursive functions over the positions, the climb of a free is the least number of
steps that ends at a block. The server makes one
allocation, for the arena, whose pointer it moves up to a page boundary before it
gives it back; the other requests are those of the allocator's tests.

## Runs

Times are for two workers.

| Passing run | Instance | Distinct states, time | Properties |
|---|---|---|---|
| `Storage_threads` | 3 operations, 2 keys, records of 3 and 6 bytes in pages of 9, 2 pages; a snapshot unless a key was dumped before; shutdowns, crashes and restarts at every step | 1 089 052, 95 s | `TypeOK`, `IndexConsistent`, `ReadBack`, `ReplyCorrect`, `CleanPageOnDisk`, `Recoverable`, `ImplementsKVStore` |
| `Storage_edge` | arena of one page, 4 operations, records of 4 and 6 bytes in pages of 8, offsets modulo 10, factor 1, shutdowns and restarts | 1 301 975, 65 s | `IndexConsistent`, `EvictionFindsPage` |
| `Storage_live` | arena of one page, 2 operations, records of 4 and 6 bytes in pages of 8, an empty value | 527 632, 85 s | `OperationsFinish`, `HandlerMovesOn`, `SpinEnds` |
| `TransQueue` | 5 transactions, padding 0 or 1, 2 signals, pages of one entry so that every push and pop may map or unmap one | 277 952, 35 s | `TypeOK`, `MutualExclusion`, `PopFindsTransaction`, `EntriesInPages`, `HeapOrder`, `NothingLost`, `WorkerProceeds`, `ImplementsPriorityQueue` |
| `Wal` | 2 records in each of 2 lives, 2 refused calls | 1 244 257, 15 s | `TypeOK`, `AckedInFile`, `RecordsInOrder`, `HeadCoversLife`, `AppendOnly` |
| `Request` | 2 connections, 9 messages, one `recv` of 13 bytes at most, base 8 | 154 505, 200 s | `TypeOK`, `WorkerOwns`, `OwnReply`, `OnlySplitAlters`, `RequestsEnd` |
| `HashMap` | 9 keys of one bucket out of 5, 8 keys make a table | 20 919, 30 s | `TypeOK`, `FindsExactly`, `TreesConsistent`, `EraseFreesAll` |
| `Buddy` | 8 Kb with Kb = 2 bytes, an arena of 4 Kb | 1 449, 4 s | `TypeOK`, `BlocksDisjoint`, `FreeFindsBlock`, `FreeAllTheWay` |

What they show:

* `Storage_threads`: with every interleaving of the two threads the index stays
  consistent; values, replies and files are right until the first event in
  `damage`; and the whole is a store in the sense of `KVStore`.
* `Storage_edge`: every second page evicts; a shutdown that meets a deletion and
  an insertion of the same key leaves a key file that lists it twice; and the wrap
  of the offset, with a factor that lets a page be defragmentated as soon as
  anything was deleted, is the only way into a defragmentation by the worker. As in
  the program no single value wraps the offset: `request.c:15` refuses messages of
  more than 10 Kb. Records that pass the 16 bit test of `manager.c:106` behind the
  end of a page add up to it; here two do. The index survives what all this does
  to the values, and the LRU list has a page whenever it is asked for one.
* `Storage_live`: an operation is not kept by a handler, nor a handler at a page by
  an operation, an interruption or a corrupted length; and a worker that spins in
  `least_recent_page`, because the only page of the arena is being
  defragmentated, is let go. It does not say that the snapshot loop comes to an
  end: it runs to `headers->total` (`manager.c:38`), and a worker that keeps adding
  pages, which here `MaxOps` stops, keeps it running.
* `TransQueue`: the heap is the priority queue that `Request` is built on. Only
  a `sem_wait` that a signal has interrupted brings the worker to an empty heap.
* `Wal`: what `write_log` has returned for is in the file, unless one of the
  calls for that very record was refused.
* `Request`: up to `ev_io_start` a request has one owner; a client gets the bytes
  of the reply to its own command, in order; only a message in pieces, or one with
  a zero byte, is executed on other strings than were sent, and only a number that
  a byte does not hold as another command; and nothing but a lost watcher keeps a
  request for ever, apart from the queue. There a `DELETE` may wait for ever: as
  long as requests with smaller keys keep coming it is not a least entry, and
  nothing ages. So `RequestsEnd` says nothing of a request while it is in the
  queue.
* `HashMap`: up to a rotation that follows NULL or loses nodes, any sequence of
  insertions and deletions, through the remaking of the bucket, leaves exactly the
  right keys with the right metas. The wrong test of the last case of
  `avl_rebalance` leaves a tree out of balance but in order.
* `Buddy`: although `pos / 2` is not the parent of a right child, a free finds its
  block: the walk passes only free positions of the array, and a merge that starts
  from the wrong node merges only where both children are free. What goes wrong is
  that memory may stay split.

Runs in which a statement of the repository is violated, each with a finding in
`PROJECT.json`:

* `Storage_v_durable`, `DurableShutdown`: insert, snapshot, insert, shutdown; the
  second value is listed in the key file and is not in `db.snap`.
* `HashMap_v_delete`, `DeletionKeepsOthers`: five keys and one deletion, and keys
  that were not deleted are not found.
* `Request_v_split`, `QueuedAsSent`: a message that takes two `recv` is queued with
  another key.
* `TransQueue_v_order`, `ServedInOrder`: two transactions in the queue, of which the
  worker takes the one of the same class that came later, or the one of the lower
  class. The commands of one class have different numbers, and the padding behind a
  command decides before it does (`queue.c:69`, `heap.c:85`, `TODO.md:32-37`;
  `queue_test.c:50` looks for the second, but never sets the value it compares with).

Other places where code and documents differ are behaviour of the model without
a run of their own. Of these the properties say how far the damage goes:

* A refused `write` at the beginning of a record, and `write_log` returns the LSN of
  a record that is not in the file, before the operation is executed (`wal.c:80`,
  `TODO.md:40`). `AckedInFile` excepts these records and no others.
* A crash between the head and its record leaves a head that names a record that is
  not there (`wal.c:74`, `wal.c:60`); `HeadCoversLife` is the other direction. A crash
  inside a record, and the next life appends behind the part (`wal.c:17`): a reader
  is out of step from there on, although `AppendOnly` keeps every complete record.
* `pop_queue` takes an interrupted `sem_wait` for a count (`queue.c:86`, against its
  comment at `queue.c:85`), and the process ends at `main.c:87`.
  `PopFindsTransaction` says that this takes a signal on the worker. Three steps are
  enough to get there: two `SIGUSR1` while the queue is empty, and the second handler
  returns.
* The number of a command is cut down to a byte (`message.c:33`), so that 259 is
  executed as `INSERT` where `main.c:68` has "Command %d not found" for it.
  `OnlySplitAlters` says that a number below 256 is never altered.
* A `DELETE` may wait for ever behind requests with smaller keys (`queue.c:93`,
  `TODO.md:89`).

Further: the start asserts that the head of the key file does not promise more
keys than follow, which fails after a snapshot and a shutdown in one life
(`disk.c:171`); a record that moves by less than its length is followed by one in
the wrong place (`arena.c:62`); a snapshot moves a value that a reply of the
worker still points to (`manager.c:180`); room is tested without the length field
(`manager.c:106` against `TODO.md:23`), insertion does not heat (`manager.c:143`,
`TODO.md:37`), header and slot are not one to one after an eviction (`arena.c:39`,
`lruq.h:11`), `pLSN` is the last LSN and not the first (`manager.c:74`,
`meta.h:44`), the key file is written while keys are in hand or move
(`disk.c:141`, `disk.c:144`, `disk.c:155`), and the operation byte of a log record
(`wal.c:126`, `wal.c:107`).

### Bounds

`MaxOps` bounds the modifying operations, over all lives; `MaxDumped` stops new
snapshots once that many keys were dumped in a life (the count only grows);
`MaxPages` bounds the headers; `MaxLSN`, `MaxLives` and `MaxRefusals` (refused
calls of `write`) bound the log; `MaxSignals` bounds the signals in `TransQueue`,
of which two are the least for one that goes to the worker. Two refusals are the
least for one behind a part and another behind that. Two keys
are needed for a renumbering, two pages for an eviction and for a key that
changes its page, three operations for insert, delete, insert around a snapshot,
four for the key that is listed twice. The page size of 9 makes the interesting
sums happen: a short and a long record fit exactly, two long ones need two pages,
a long record that follows a deleted short one moves by less than its length, and
every other move is by enough. Records that pass the test for room and do not fit
(4 and 6 bytes in a page of 8) are in `Storage_live`: of the values nothing is
claimed from then on, but the lengths that are read afterwards must not keep a
handler at its page.

Two views keep the storage runs small. `Storage_edge` compares states without the
history (`Engine`): its properties read none of it, and no guard reads any but
`ops`. `Storage_threads` leaves the history out only after damage
(`UpToDamage`): from then on no property of values says anything until a start sets
`kv` and `damage` anew, and `quiet` is set anew when the next handler begins. Both
leave out the LSNs, which no guard and only the type invariant reads here; the log
has a module of its own.

Keys are interchangeable,
so the safety runs use their permutations as symmetry; the liveness run does not.
Deadlock is checked for the queue, which never has to stop. The storage engine
and the log do stop at their bounds, a server may end, a hash map breaks or is
erased, and an allocator may be full.

In `Request` two connections are enough for one request to be with the worker
while the other is accepted, read, freed or answered; the memory of a freed
request is taken again, so the number of requests is not bounded. The messages are
a key with a zero byte, a key with a value, one that never comes with one `recv`
and for which the copy reaches behind the local buffer, an `UPDATE`, an unknown
command, a number that is none but has one in its low digit, one that is refused
for its length, and two whose data is neither a string nor a map. The base of 8
makes the length need two of its four bytes, so that a `recv` may end inside it.

In `HashMap` nine keys are the least for a table and a key that joins it later,
deep enough for every rotation and for removals with two subtrees; eight of them
fall into one bucket of the new table and one does not, which gives both the event
`confused` and the tables that work. In `Buddy` four levels have every case of a
walk up by `pos / 2`.

A vector of `vector.c` never grows beyond the first allocation, in which `malloc`
leaves room for three pointers. No run has more than two keys on a page or two
pages, so a sequence is what the code has there.

### Fairness

`Storage!FairSpec` and `TransQueue!FairSpec` ask for weak fairness of the steps
of each thread once it has something to do, which the kernel's scheduler gives a
runnable thread, and nothing of arriving requests, signals or crashes. Waiting
for the mutex is fair only weakly: the worker gets it because the event loop, in
the bounded set of transactions, cannot keep it for ever. A signal handler is a
part of the thread it runs on. It is taken not to wait inside the C library, which
`malloc` and `fprintf` in a handler might (`main.c:233`, `disk.c:159`). The spin of
`least_recent_page` looks at the states of the pages again in every round, which
the build without optimisation does.

`Request!FairSpec` asks for weak fairness of the end of each round of the loop, of
its waking and of the worker. For the callback of a connection it asks for strong
fairness, because the callback is enabled only between two polls: in each round
libev calls every watcher whose socket is ready, and a client that neither sends,
reads nor goes away would keep its own request open, which is not the server's
doing.

## Theorems

The proofs are for any sets of keys and values, any sizes, page size, number of
pages and slots, and for unbounded behaviours (the bounds of the runs are
constants without an upper limit).

* `StorageProofs!TypeCorrect`, `StorageProofs!IndexStaysConsistent`: types, and
  hash map and key vectors inverse to each other up to the key in hand. Neither
  is inductive. `Inv` adds what the threads carry between steps: where the worker
  has a key between page and map it points at that key and the map has none
  (`WorkerPoints`); an insertion in progress is of a key that is not in the map
  (`WorkerInserts`); the handler's page exists and its defragmentation is of that
  page (`MainOnPage`); a page to be heated is in the file (`ColdPagesInFile`); the
  key file has the headers the handler went past (`KeyFileFits`); a process that
  is down does nothing (`DownIsIdle`). The main cases are `UnsetInv`, where the
  renumbering must hit the keys behind the deleted one and no others, and
  `StartInv`, where `LoadedOnce` makes the place of each key unique. Most other
  steps keep every key where it is; `Frame` says that this is enough.
* `StorageContentsProofs` and `StorageSnapshotProofs`: what the values are. None of
  the five properties is inductive, nor is any one without the others, because a
  restart takes the pages from the files and a snapshot takes the files from the
  pages. `Faithful` is the invariant that closes this circle:
  * `Settled`, until the first harm: in every page the records that the key vector
    lists lie apart below `offset_bytes`, and are intact in a slot of the page's
    own or, if it is not heated, in the file. `Laid` also says that the bytes of
    the records and the fragmentated bytes together are not more than
    `offset_bytes`. While the main thread defragmentates, `Compacting` says that
    the blocks it has moved lie one behind the other from 0 on, so that the next
    one never moves up and never onto a block still to be moved. A move onto the
    record's own old length field is the event `overlap`. The sums are a function
    whose existence is part of the invariant, so that no induction is needed.
    A consequence of `Laid` (`WorkerMovesNothing`): with intact pages the worker
    never finds a page worth a defragmentation, since `fragmentated_bytes /
    PAGE_SIZE` is 0.
  * `BytesOnce`: no two records of the arena or of a page in the file are at the
    same address, so that a read has one outcome. This holds after any damage.
  * `OnlyIndexed`: a key that is not in the hash map has no value.
  * `CleanKept`: without damage, a page that is clean or about to be called so is
    in the file with the values its header lists.
  * `HandlersTidy`: in a quiet snapshot the pages behind the handler are clean, and
    the headers in the key file are those of the pages behind it.
  * `SavedGood`: while `saved.ok` and the key file is whole, the two files hold
    `saved.kv`, page by page, in the way `Settled` asks for after a start.

  From `Faithful` follow `ValuesReadBack`, `CleanPagesOnDisk` and
  `SnapshotRecoverable` state by state. `RepliesCorrect` adds `Replies`, where the
  address in a reply points to between the operation and `request_reply`: at the
  value the index lists, or at the dead record, which nothing in its page may
  overwrite while `held`.
* `StorageSnapshotProofs!EvictionAlwaysFindsPage` counts: there are at least as
  many heated pages as slots in use (`SlotsUsed`).
* `StorageSnapshotProofs!StorageImplements` is the refinement of `KVStore`. With
  `Faithful`, the mapped `contents` and `durable` are `kv` and `saved.kv`
  (`View`), and each step of `Storage` is one of the abstract steps or a stutter.
* `TransQueueProofs`: `TypeCorrect`, `Exclusion`, `PopNeverEmpty`, `PagesSuffice`.
  The invariant ties the mutex to the places of the two threads and the semaphore
  to the entries not yet promised to a worker and to the number of waits that were
  interrupted (`SemaphoreCounts`). So `PopNeverEmpty` says that an empty heap, and
  the NULL at `main.c:87`, takes an interrupted `sem_wait`. `HeapStaysOrdered`,
  `NoTransactionLost`, `QueueImplements`: `HeapShape` says how far the order holds
  at each iteration of the two loops, `HeapContents` that the entries outside of
  the hole are those of `pending`, each once. That the root has a least key is not
  an induction over the tree but a choice: of the entries with a smaller key than
  the root take the one with the least index; its parent is another one. For this
  `pending`, the history of what was pushed and not popped, is a set.
* `WalProofs`: `TypeCorrect`, `AckedStaysInFile`, `FileInOrder`, `HeadCovers`,
  `CompleteRecordsStay`. The invariant says what `write_log` has done at each of
  its steps: the current record has the newest LSN, only the last record of the
  file may be the one in progress, records of this life have LSNs up to the
  counter, and `written` is behind the file only after a refused call of the current
  record (`BehindRefused`). `AckedStaysInFile` is for every record none of whose own
  calls of `write` was refused, whatever was refused to others.
* `RequestProofs`: `TypeCorrect`, `RequestOwnership`, `OneReplyInOrder`,
  `CommandUnaltered`, for any connections, messages and lengths. `Inv` relates the
  state of a request to its watcher (`Watching`) and to the queue and the worker
  (`Owned`), and its buffer to `total` (`Sized`). `Unanswered` adds that nothing is
  sent before the reply is there; `ReadInv` says which bytes of the message the
  buffer holds after the first `recv` and what was understood of it.
  `CommandUnaltered` is for the commands whose number fits into their byte, as
  `message_command` leaves it alone then (`SmallCommand`).
* `BuddyProofs`: `TypeCorrect`, `BlocksApart`, `FreeIsFound`, `FreeStaysFree`, for
  any number of levels. With `x = pos + 1` the children of a place `x` are `2x` and
  `2x + 1`; blocks at two places have an address in common only if one place is
  above the other (`UsedApart`). So the invariant `Accounts` says of the tree that
  whatever is above a node that is not free is split, and that `used` counts the
  addresses in use. A free starts at the leaf at the block's address, and the first
  node on its way up that is in use is the block (`FindsBlock`). From there the code
  goes to `pos / 2`, which for a right child is another node than its parent, or the
  block itself: a node is only merged when it is split and both children are free,
  so that nothing in use is lost and `FreeDown` stays true (`MergeSound`).
  The arena gives back a pointer that is not the address of its block, and it is
  found because the block is the memory or its left half, and nothing else is in
  use (`ArenaAlone`). The recursive functions of the model are shown to exist, by
  induction over sets of numbers, before anything is said of their values; and what
  is needed of powers of two is counted as the subsets of a set, so no assumption
  on them is made.
* `ArenaProofs`: the types of the operators of `Arena` and `LruQueue`.

The assumptions are those named in the modules (`ArenaAssumption`,
`LruAssumption`, `StorageAssumption`, `ViewAssumption`, `QueueAssumption`,
`WalAssumption`, `NoRecordAssumption`, `RequestAssumption`, `PowerAssumption`,
`BuddyAssumption`, and an `ArenaAssumption` of `Buddy`); TLC evaluates them in the
runs. Those that say something of the program: a page is
smaller than what 16 bits count (`PAGE_SIZE < UINT16`), the fragmentation factor is
not 0, the length of a message can be written in its digits, and the arena needs at
least half of the allocator's memory, in which a page is not all there is
(`main.c:135`: 8192 Kb for 1024 pages of 4 Kb). In a smaller block the aligned
pointer of the arena may be in the next one. `PowerAssumption`
says what `Base ^ 0` is and that powers are positive numbers, which the provers do
not know.

Only model-checked: the safety of `HashMap`, whose walks are RECURSIVE operators
that the prover does not accept (a walk over pointers ends because the tree is
one, which is itself what would have to be proved), and all liveness
(`OperationsFinish`, `HandlerMovesOn`, `SpinEnds`, `WorkerProceeds`,
`RequestsEnd`), which is out of its reach.

## Not modelled

* The snapshot that a second `SIGUSR1` during a snapshot, or `SIGTERM` during a
  shutdown, takes on the worker thread: the signal is blocked in the main thread and
  goes to the worker. `TransQueue` has that it stops the worker and interrupts its
  `sem_wait`; `Request` takes it that no wait is interrupted; in `Storage` handlers run
  on the main thread.
  `sa_mask` is not initialised in `main`; the model takes it as empty, so that
  `SIGTERM` may come inside the handler of `SIGUSR1`, and leaves out the other
  order.
* A failing or interrupted write of the snapshot, and a page of `db.snap` that is
  written in part when the process dies.
* A start from a key file that was cut off or garbled.
* The locks of the C library, for which a handler that interrupts `malloc` or
  `fprintf` may wait.
* The erasing of the hash map and the lists by `shutdown_handler` while the worker is
  inside an operation (`main.c:222-226`): `Storage` leaves the worker only `Crash` from
  the first freed header on, and `HashMap` erases between operations.
* The error path of `operation_insert` when `hashmap_insert_key` fails after the
  lookup found nothing: the map is a function here.
* Allocation failures, and a connection that cannot be made non-blocking.
* The capacity of a vector (`vector.c:30`): items are stored behind the first
  allocation. What lies there depends on the allocator of the C library.
* `buffer_pop`, `buffer_shift`, `buffer_unshift`, `heap_min`, `heap_foreach`,
  `update_flushed_LSN`: nothing in the server calls them. The readers of the log,
  which it does not call either.
* That a block of the allocator covers the bytes that were asked for: `buddy_alloc`
  divides them by a Kb and rounds down (`memory.c:153`). The arena asks for 4096 Kb
  and the size of its structure, gets 4096 Kb, and moves its pointer up in them; what
  lies behind is the other half of the memory, which nobody else asks for.
* The growth of the table of pages of the heap, at 512 pages (`heap.c:228-250`).
* What two threads may do to the list of changes inside libev beyond the loss of one
  watcher, as when the list is moved by one of them.
* The map after the first event that breaks a tree, and `Storage` over such a map.
* What the queue does to a request while another thread is inside the heap:
  `Request` uses the abstract queue, `TransQueue` the real one.
* Creating the socket, logging, the client. libev and MessagePack are external and
  modelled from how the server uses them.

## Plan

1. Done: `TransQueue`, `Wal`, `Arena`, `LruQueue`, `Storage`, their runs, the
   theorems above.
2. Done: `KVStore` and `PriorityQueue` with the refinements, `Request` composed
   with the queue, `HashMap`, `Buddy`, and the edges of `Storage` (eviction
   together with wrapping offsets) in one run.
3. Done: the safety of `Storage`, `TransQueue`, `Wal`, `Request` and `Buddy`, and
   both refinements, for all constants.
4. `HashMap` with its rotations as operators on one node and its walks as recursive
   functions over the height, so that at least the order of a tree could be proved
   up to the first event.
5. The snapshot of a second signal on the worker thread, in `Storage`; a page
   skipped by a shutdown because an interrupted snapshot left it
   `PAGE_PROCESSING`.
