-------------------------------- MODULE Wal --------------------------------
(***************************************************************************)
(* The write-ahead log (wal/wal.c).  The file begins with the LSN of the   *)
(* latest record and goes on with the records.  write_log overwrites the   *)
(* head, seeks to the end and writes the record, which may take several    *)
(* calls of write; the process may die between any two of them, and a call *)
(* may be refused.  The server opens the same file at every start and      *)
(* counts its LSNs from 0 again.                                           *)
(***************************************************************************)
EXTENDS Integers, Sequences

CONSTANTS
    Key,
    KeySize,   \* KeySize[k] is the length of k, a 16 bit number
    Value,
    NoRecord,  \* no record is being written
    MaxLSN,    \* bound: records logged in one life of the process
    MaxRefusals, \* bound: calls of write that end with EINTR or EAGAIN
    MaxLives   \* bound: starts of the process

PEEK == 1
SELECT == 2
INSERT == 3
UPDATE == 4
DELETE == 5
Command == PEEK .. DELETE

ASSUME WalAssumption ==
    /\ KeySize \in [Key -> Nat]
    /\ MaxLSN \in Nat
    /\ MaxRefusals \in Nat
    /\ MaxLives \in Nat

VARIABLES
    head,    \* the first 8 bytes of the file
    records, \* what follows, the last record perhaps only in part
    LSN,     \* wal_logger->LSN
    pc,      \* where write_log is, or "down"
    current, \* the record that write_log is writing
    life,    \* the number of starts
    acked,   \* history: the records whose write_log has returned
    refused  \* history: the record at each call of write that was refused

vars == <<head, records, LSN, pc, current, life, acked, refused>>

(* A wal_log_record_t; life tells the records of two starts apart. *)
Record == [lsn : Nat, operation : {INSERT, UPDATE, DELETE}, key : Key, val : Value,
           life : Nat]

ASSUME NoRecordAssumption == NoRecord \notin Record

(* What a run of the loop of write_log has put into the file.  code is the *)
(* byte in the place of the operation; whole says that these are all the   *)
(* bytes of the record, in their order.                                    *)
Stored == [rec : Record, code : 0 .. 255, whole : BOOLEAN]

Init ==
    /\ head = 0 /\ records = <<>> /\ LSN = 0 /\ pc = "idle" /\ current = NoRecord
    /\ life = 1 /\ acked = {} /\ refused = <<>>
-----------------------------------------------------------------------------
(* Mutant: a SELECT is logged as well. *)
LoggedFromSelect(cmd) == cmd >= SELECT

(* to_wal_record returns NULL for the operations that change nothing. *)
Logged(cmd) == cmd > SELECT

(* Mutant: the counter is not advanced. *)
LSNStuck == IF LSN = 0 THEN 1 ELSE LSN

give_new_LSN == LSN + 1

(* write_log begins: to_wal_record takes the next LSN. *)
write_log(cmd, k, v) ==
    /\ pc = "idle" /\ LSN < MaxLSN
    /\ Logged(cmd)
    /\ LSN' = give_new_LSN
    /\ current' = [lsn |-> give_new_LSN, operation |-> cmd, key |-> k, val |-> v,
                   life |-> life]
    /\ pc' = "head"
    /\ UNCHANGED <<head, records, life, acked, refused>>

(* Mutant: the head gets the LSN of the record before. *)
HeadLate ==
    /\ pc = "head"
    /\ head' = current.lsn - 1
    /\ pc' = "record"
    /\ UNCHANGED <<records, LSN, current, life, acked, refused>>

update_heading_lsn ==
    /\ pc = "head"
    /\ head' = current.lsn
    /\ pc' = "record"
    /\ UNCHANGED <<records, LSN, current, life, acked, refused>>

(* to_binary copies sizeof(LSN) + 1 bytes from the beginning of the        *)
(* wal_log_record_t.  The byte behind the LSN there is the low byte of     *)
(* key.size, not the operation.                                            *)
to_binary(r, whole) == [rec |-> r, code |-> KeySize[r.key] % 256, whole |-> whole]

(* A call of write that takes only some of the bytes. *)
WritePart ==
    /\ pc = "record"
    /\ records' = Append(records, to_binary(current, FALSE))
    /\ pc' = "rest"
    /\ UNCHANGED <<head, LSN, current, life, acked, refused>>

(* What write_log leaves behind when it returns. *)
Returns ==
    /\ pc' = "idle" /\ current' = NoRecord
    /\ acked' = acked \cup {current}
    /\ UNCHANGED <<head, LSN, life>>

(* Mutant: write_log returns after a short write. *)
WriteRestForgotten == pc = "rest" /\ Returns /\ UNCHANGED <<records, refused>>

(* The call of write that takes the rest, after a short one or at once. *)
WriteRest ==
    /\ pc = "rest"
    /\ records' = [records EXCEPT ![Len(records)] = to_binary(current, TRUE)]
    /\ Returns /\ UNCHANGED refused

WriteWhole ==
    /\ pc = "record"
    /\ records' = Append(records, to_binary(current, TRUE))
    /\ Returns /\ UNCHANGED refused

(***************************************************************************)
(* A call of write that ends with EAGAIN or EINTR: its -1 is added to      *)
(* written, which is unsigned.  If nothing was written yet, written        *)
(* becomes the largest size_t, the loop ends and write_log returns.        *)
(***************************************************************************)
Refused ==
    /\ Len(refused) < MaxRefusals
    /\ refused' = Append(refused, current)
    /\ UNCHANGED records

WriteRefused == pc = "record" /\ Refused /\ Returns

(* Behind a part of the record, written goes back by one: to 0 behind a    *)
(* single byte, after which the record is written from its beginning, or   *)
(* to a byte that is in the file already and will follow once more.        *)
RestRefused ==
    /\ pc \in {"rest", "behind"}
    /\ Refused
    /\ pc' \in {"record", "behind"}
    /\ UNCHANGED <<head, LSN, current, life, acked>>

(* The calls that take the rest when written is behind the file: what then *)
(* stands there is longer than the record and not whole.                   *)
WriteBehind == pc = "behind" /\ Returns /\ UNCHANGED <<records, refused>>

(* The process dies, or exits because a system call failed. *)
Crash ==
    /\ pc # "down"
    /\ pc' = "down" /\ current' = NoRecord /\ LSN' = 0
    /\ UNCHANGED <<head, records, life, acked, refused>>

(* Mutant: the file is truncated when it is opened. *)
LoggerTruncates ==
    /\ pc = "down" /\ life < MaxLives
    /\ pc' = "idle" /\ life' = life + 1
    /\ head' = 0 /\ records' = <<>>
    /\ UNCHANGED <<LSN, current, acked, refused>>

(* new_wal_logger(0, 0, 1), from db_start. *)
new_wal_logger ==
    /\ pc = "down" /\ life < MaxLives
    /\ pc' = "idle" /\ life' = life + 1
    /\ UNCHANGED <<head, records, LSN, current, acked, refused>>

Next ==
    \/ \E cmd \in Command, k \in Key, v \in Value : write_log(cmd, k, v)
    \/ update_heading_lsn \/ WritePart \/ WriteRest \/ WriteWhole
    \/ WriteRefused \/ RestRefused \/ WriteBehind
    \/ Crash \/ new_wal_logger

Spec == Init /\ [][Next]_vars
-----------------------------------------------------------------------------
(* The values of the log file and of the local variables of write_log.     *)
TypeOK ==
    /\ head \in Nat
    /\ records \in Seq(Stored)
    /\ LSN \in Nat
    /\ pc \in {"idle", "head", "record", "rest", "behind", "down"}
    /\ current \in Record \cup {NoRecord}
    /\ life \in Nat
    /\ acked \subseteq Record
    /\ refused \in Seq(Record)

WholeInFile(r) == \E i \in DOMAIN records : records[i].rec = r /\ records[i].whole

(* What write_log has returned for is in the file, as a whole, through     *)
(* short writes, crashes and new starts on the same file, unless one of    *)
(* its own calls of write was refused.                                     *)
AckedInFile ==
    \A r \in acked : WholeInFile(r) \/ \E i \in DOMAIN refused : refused[i] = r

(* The records of one life stand in the file in the order of their LSNs,   *)
(* which name them, and those of an earlier life before them.  Only the    *)
(* part that a refused call left behind may come before its own record.    *)
RecordsInOrder ==
    \A i, j \in DOMAIN records : i < j =>
        \/ records[i].rec.life < records[j].rec.life
        \/ /\ records[i].rec.life = records[j].rec.life
           /\ records[i].rec.lsn < records[j].rec.lsn
        \/ records[i].rec = records[j].rec /\ ~records[i].whole

(* While the server runs, the head is not behind any record of this life.  *)
HeadCoversLife ==
    pc # "down" => \A i \in DOMAIN records :
        records[i].rec.life = life => records[i].rec.lsn <= head

(* No record leaves the file, and a complete one never changes, through    *)
(* the later writes, overwritten heads and starts of the server.           *)
AppendOnly ==
    [][\A i \in DOMAIN records :
            /\ i \in DOMAIN records'
            /\ records[i].whole => records'[i] = records[i]]_vars
=============================================================================
