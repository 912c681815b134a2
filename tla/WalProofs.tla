------------------------------ MODULE WalProofs ------------------------------
(***************************************************************************)
(* The safety of the log across short writes, crashes and restarts, for    *)
(* any keys and values and any number of records and of starts.            *)
(*                                                                         *)
(* AckedInFile and RecordsInOrder are not inductive: they rest on where    *)
(* the record that write_log is writing stands in the file (BeingWritten), *)
(* and on its LSN being larger than all those of this life (PastRecords),  *)
(* those of its own parts excepted, which refused calls of write left.     *)
(***************************************************************************)
EXTENDS Wal, TLAPS

Writing == pc \in {"head", "record", "rest", "behind"}

(* What write_log is writing carries the latest LSN of this life. *)
CurrentRecord ==
    Writing => current \in Record /\ current.lsn = LSN /\ current.life = life

(* After a short write the incomplete record is the last one of the file. *)
BeingWritten ==
    pc \in {"rest", "behind"} => /\ Len(records) > 0
                               /\ records[Len(records)].rec = current
                               /\ ~records[Len(records)].whole

(* Every record in the file is older than the one about to be appended,    *)
(* or is a part of it.                                                     *)
PastRecords ==
    \A i \in DOMAIN records :
        /\ records[i].rec.life <= life
        /\ pc # "down" /\ records[i].rec.life = life => records[i].rec.lsn <= LSN
        /\ pc = "head" /\ records[i].rec.life = life => records[i].rec.lsn < LSN
        /\ pc = "record" /\ records[i].rec.life = life
              => \/ records[i].rec.lsn < LSN
                 \/ records[i].rec = current /\ ~records[i].whole

(* The head is written before the record it belongs to. *)
HeadWritten == pc \in {"record", "rest", "behind"} => head = LSN

(* While write_log writes behind the file, a call of it has been refused. *)
BehindRefused == pc = "behind" => \E i \in DOMAIN refused : refused[i] = current

Inv ==
    /\ TypeOK
    /\ CurrentRecord
    /\ BeingWritten
    /\ PastRecords
    /\ HeadWritten
    /\ BehindRefused
    /\ AckedInFile
    /\ RecordsInOrder
    /\ HeadCoversLife
-----------------------------------------------------------------------------
(* What to_binary makes of a record fits the format of the file. *)
LEMMA StoredRecord ==
    ASSUME NEW r \in Record, NEW b \in BOOLEAN
    PROVE  /\ to_binary(r, b) \in Stored
           /\ to_binary(r, b).rec = r
           /\ to_binary(r, b).whole = b
<1>1. r.key \in Key BY DEF Record
<1>2. KeySize[r.key] \in Nat BY <1>1, WalAssumption
<1>3. KeySize[r.key] % 256 \in 0 .. 255 BY <1>2
<1> QED BY <1>3 DEF to_binary, Stored

(* The numbers in a record. *)
LEMMA RecordFields ==
    ASSUME NEW r \in Record
    PROVE  r.lsn \in Nat /\ r.life \in Nat
BY DEF Record

(* The fields of a record in the file. *)
LEMMA StoredFields ==
    ASSUME TypeOK, NEW i \in DOMAIN records
    PROVE  /\ records[i] \in Stored
           /\ records[i].rec \in Record
           /\ records[i].rec.lsn \in Nat /\ records[i].rec.life \in Nat
           /\ records[i].whole \in BOOLEAN
<1>1. records[i] \in Stored BY DEF TypeOK
<1>2. records[i].rec \in Record /\ records[i].whole \in BOOLEAN BY <1>1 DEF Stored
<1> QED BY <1>1, <1>2, RecordFields

(* The invariant holds for a new log file. *)
LEMMA InitInv == Init => Inv
BY DEF Init, Inv, TypeOK, CurrentRecord, Writing, BeingWritten, PastRecords,
    HeadWritten, BehindRefused, AckedInFile, WholeInFile, RecordsInOrder, HeadCoversLife

(* A record appended behind the others: the step of WritePart and of       *)
(* WriteWhole.                                                             *)
LEMMA Appended ==
    ASSUME Inv, pc = "record", NEW b \in BOOLEAN,
           records' = Append(records, to_binary(current, b)),
           LSN' = LSN, life' = life, head' = head, pc' \in {"rest", "idle"}
    PROVE  /\ records' \in Seq(Stored)
           /\ Len(records') = Len(records) + 1
           /\ \A i \in DOMAIN records : i \in DOMAIN records' /\ records'[i] = records[i]
           /\ records'[Len(records')].rec = current
           /\ records'[Len(records')].whole = b
           /\ PastRecords' /\ RecordsInOrder' /\ HeadCoversLife'
<1>0. TypeOK BY DEF Inv
<1>1. /\ current \in Record /\ current.lsn = LSN /\ current.life = life
      /\ head = LSN /\ LSN \in Nat /\ life \in Nat
  BY DEF Inv, CurrentRecord, Writing, HeadWritten, TypeOK
<1>2. /\ to_binary(current, b) \in Stored
      /\ to_binary(current, b).rec = current
      /\ to_binary(current, b).whole = b
  BY <1>1, StoredRecord
<1>3. /\ records' \in Seq(Stored)
      /\ Len(records') = Len(records) + 1
      /\ DOMAIN records' = 1 .. (Len(records) + 1)
      /\ DOMAIN records = 1 .. Len(records) /\ Len(records) \in Nat
      /\ \A i \in DOMAIN records : i \in DOMAIN records' /\ records'[i] = records[i]
      /\ records'[Len(records) + 1] = to_binary(current, b)
  BY <1>0, <1>2 DEF TypeOK
<1>4. \A i \in DOMAIN records' :
        \/ i \in DOMAIN records /\ records'[i] = records[i]
        \/ i = Len(records) + 1 /\ records'[i].rec = current
  BY <1>2, <1>3
<1>5. \A i \in DOMAIN records :
        /\ records[i].rec.lsn \in Nat /\ records[i].rec.life \in Nat
        /\ records[i].rec.life <= life
        /\ records[i].rec.life = life =>
              \/ records[i].rec.lsn < LSN
              \/ records[i].rec = current /\ ~records[i].whole
  BY <1>0, StoredFields DEF Inv, PastRecords
<1>6. PastRecords'
  BY <1>1, <1>4, <1>5 DEF PastRecords
<1>7. RecordsInOrder'
  <2> SUFFICES ASSUME NEW i \in DOMAIN records', NEW j \in DOMAIN records', i < j
               PROVE  \/ records'[i].rec.life < records'[j].rec.life
                      \/ /\ records'[i].rec.life = records'[j].rec.life
                         /\ records'[i].rec.lsn < records'[j].rec.lsn
                      \/ records'[i].rec = records'[j].rec /\ ~records'[i].whole
    BY DEF RecordsInOrder
  <2>1. i \in DOMAIN records /\ records'[i] = records[i]
    BY <1>3
  <2>2. CASE j \in DOMAIN records
    BY <1>3, <2>1, <2>2 DEF Inv, RecordsInOrder
  <2>3. CASE j = Len(records) + 1
    <3>1. records'[j].rec = current BY <1>2, <1>3, <2>3
    <3> QED BY <1>1, <1>5, <2>1, <3>1
  <2> QED BY <1>3, <2>2, <2>3
<1>8. HeadCoversLife'
  BY <1>1, <1>4, <1>5 DEF HeadCoversLife
<1> QED BY <1>2, <1>3, <1>6, <1>7, <1>8

(* What was in the file stays in it, so the acknowledged records do. *)
LEMMA AckedStay ==
    ASSUME AckedInFile, acked' = acked, refused' = refused,
           \A i \in DOMAIN records : i \in DOMAIN records' /\ records'[i] = records[i]
    PROVE  AckedInFile'
BY DEF AckedInFile, WholeInFile

(* Appending adds one member to those of a sequence. *)
LEMMA AppendedMembers ==
    ASSUME NEW S, NEW q \in Seq(S), NEW e \in S
    PROVE  \A x : (\E i \in DOMAIN Append(q, e) : Append(q, e)[i] = x)
                    <=> x = e \/ \E i \in DOMAIN q : q[i] = x
<1> DEFINE a == Append(q, e)
<1>1. /\ DOMAIN a = 1 .. Len(q) + 1 /\ DOMAIN q = 1 .. Len(q) /\ Len(q) \in Nat
      /\ a[Len(q) + 1] = e
      /\ \A i \in 1 .. Len(q) : a[i] = q[i]
  OBVIOUS
<1> HIDE DEF a
<1>2. \A i \in DOMAIN a : i \in DOMAIN q \/ i = Len(q) + 1
  BY <1>1
<1>3. DOMAIN q \subseteq DOMAIN a /\ Len(q) + 1 \in DOMAIN a
  BY <1>1
<1>4. \A x : (\E i \in DOMAIN a : a[i] = x) <=> x = e \/ \E i \in DOMAIN q : q[i] = x
  BY <1>1, <1>2, <1>3
<1> QED BY <1>4 DEF a

(* The invariant is inductive. *)
LEMMA NextInv == Inv /\ [Next]_vars => Inv'
<1> SUFFICES ASSUME Inv, [Next]_vars PROVE Inv'
    OBVIOUS
<1> USE DEF Inv
<1>0. TypeOK OBVIOUS
<1>1. ASSUME NEW cmd \in Command, NEW k \in Key, NEW v \in Value, write_log(cmd, k, v)
      PROVE  Inv'
  <2> DEFINE r == [lsn |-> LSN + 1, operation |-> cmd, key |-> k, val |-> v, life |-> life]
  <2>1. r \in Record /\ r.lsn = LSN + 1 /\ r.life = life
    <3>1. cmd \in {INSERT, UPDATE, DELETE}
      BY <1>1 DEF write_log, Logged, Command, PEEK, SELECT, INSERT, UPDATE, DELETE
    <3>2. LSN + 1 \in Nat /\ life \in Nat BY DEF TypeOK
    <3> QED BY <3>1, <3>2 DEF Record
  <2>2. current' = r /\ LSN' = LSN + 1
    BY <1>1 DEF write_log, give_new_LSN
  <2> HIDE DEF r
  <2>3. TypeOK'
    BY <1>1, <2>1, <2>2 DEF write_log, TypeOK
  <2>4. CurrentRecord' /\ BeingWritten' /\ HeadWritten'
    BY <1>1, <2>1, <2>2 DEF write_log, CurrentRecord, Writing, BeingWritten, HeadWritten
  <2>7. BehindRefused'
    BY <1>1 DEF write_log, BehindRefused
  <2>5. PastRecords'
    BY <1>0, <1>1, <2>2, StoredFields DEF write_log, PastRecords, TypeOK
  <2>6. AckedInFile' /\ RecordsInOrder' /\ HeadCoversLife'
    BY <1>1 DEF write_log, AckedInFile, WholeInFile, RecordsInOrder, HeadCoversLife
  <2> QED BY <2>3, <2>4, <2>5, <2>6, <2>7
<1>2. CASE update_heading_lsn
  <2>1. current \in Record /\ current.lsn = LSN
    BY <1>2 DEF update_heading_lsn, CurrentRecord, Writing
  <2>2. /\ TypeOK' /\ CurrentRecord' /\ BeingWritten' /\ PastRecords' /\ HeadWritten'
        /\ BehindRefused'
    BY <1>2, <2>1 DEF update_heading_lsn, TypeOK, CurrentRecord, Writing,
        BeingWritten, PastRecords, HeadWritten, BehindRefused
  <2>3. AckedInFile' /\ RecordsInOrder'
    BY <1>2 DEF update_heading_lsn, AckedInFile, WholeInFile, RecordsInOrder
  <2>4. HeadCoversLife'
    BY <1>2, <2>1 DEF update_heading_lsn, HeadCoversLife, PastRecords
  <2> QED BY <2>2, <2>3, <2>4
<1>3. CASE WritePart
  <2>1. /\ records' \in Seq(Stored) /\ Len(records') = Len(records) + 1
        /\ \A i \in DOMAIN records : i \in DOMAIN records' /\ records'[i] = records[i]
        /\ records'[Len(records')].rec = current
        /\ records'[Len(records')].whole = FALSE
        /\ PastRecords' /\ RecordsInOrder' /\ HeadCoversLife'
    BY <1>3, Appended DEF WritePart
  <2>2. TypeOK' /\ CurrentRecord' /\ HeadWritten' /\ BehindRefused'
    BY <1>3, <2>1 DEF WritePart, TypeOK, CurrentRecord, Writing, HeadWritten, BehindRefused
  <2>4. BeingWritten'
    <3>1. Len(records') > 0 BY <2>1 DEF TypeOK
    <3>2. current' = current BY <1>3 DEF WritePart
    <3> QED BY <2>1, <3>1, <3>2 DEF BeingWritten
  <2>3. AckedInFile'
    BY <1>3, <2>1, AckedStay DEF WritePart
  <2> QED BY <2>1, <2>2, <2>3, <2>4
<1>4. CASE WriteWhole
  <2>1. /\ records' \in Seq(Stored) /\ Len(records') = Len(records) + 1
        /\ \A i \in DOMAIN records : i \in DOMAIN records' /\ records'[i] = records[i]
        /\ records'[Len(records')].rec = current
        /\ records'[Len(records')].whole = TRUE
        /\ PastRecords' /\ RecordsInOrder' /\ HeadCoversLife'
    BY <1>4, Appended DEF WriteWhole, Returns
  <2>2. current \in Record
    BY <1>4 DEF WriteWhole, CurrentRecord, Writing
  <2>3. TypeOK' /\ CurrentRecord' /\ HeadWritten' /\ BeingWritten' /\ BehindRefused'
    BY <1>4, <2>1, <2>2 DEF WriteWhole, Returns, TypeOK, CurrentRecord, Writing,
        HeadWritten, BeingWritten, BehindRefused
  <2>4. AckedInFile'
    <3>1. Len(records') \in DOMAIN records' BY <2>1, <1>0 DEF TypeOK
    <3>2. acked' = acked \cup {current} /\ refused' = refused
      BY <1>4 DEF WriteWhole, Returns
    <3> QED BY <2>1, <3>1, <3>2 DEF AckedInFile, WholeInFile
  <2> QED BY <2>1, <2>3, <2>4
<1>5. CASE WriteRest
  <2> DEFINE n == Len(records)
  <2>1. /\ current \in Record /\ n \in DOMAIN records
        /\ records[n].rec = current /\ ~records[n].whole
    BY <1>5 DEF WriteRest, CurrentRecord, Writing, BeingWritten, TypeOK
  <2>9. \A i, j \in DOMAIN records : i < j => i # n
    BY <1>0 DEF TypeOK
  <2> DEFINE done == to_binary(current, TRUE)
  <2>2. done \in Stored /\ done.rec = current /\ done.whole = TRUE
    BY <2>1, StoredRecord
  <2>8. records' = [records EXCEPT ![n] = done]
    BY <1>5 DEF WriteRest
  <2> HIDE DEF n, done
  <2>3. /\ records' \in Seq(Stored) /\ DOMAIN records' = DOMAIN records
        /\ records'[n] = done
        /\ \A i \in DOMAIN records : i # n => records'[i] = records[i]
    BY <2>1, <2>2, <2>8 DEF TypeOK
  <2>4. \A i \in DOMAIN records : records'[i].rec = records[i].rec
    BY <2>1, <2>2, <2>3
  <2>5. TypeOK' /\ CurrentRecord' /\ BeingWritten' /\ HeadWritten' /\ BehindRefused'
    BY <1>5, <2>1, <2>3 DEF WriteRest, Returns, TypeOK, CurrentRecord, Writing,
        BeingWritten, HeadWritten, BehindRefused
  <2>6. PastRecords' /\ RecordsInOrder' /\ HeadCoversLife'
    <3>1. life' = life /\ LSN' = LSN /\ head' = head /\ pc' = "idle" /\ pc = "rest"
      BY <1>5 DEF WriteRest, Returns
    <3>2. PastRecords' BY <2>3, <2>4, <3>1 DEF PastRecords
    <3>3. RecordsInOrder' BY <2>3, <2>4, <2>9 DEF RecordsInOrder
    <3>4. HeadCoversLife' BY <2>3, <2>4, <3>1 DEF HeadCoversLife
    <3> QED BY <3>2, <3>3, <3>4
  <2>7. AckedInFile'
    <3>1. \A r \in Record : WholeInFile(r) =>
             \E i \in DOMAIN records : i # n /\ records[i].rec = r /\ records[i].whole
      BY <2>1 DEF WholeInFile
    <3>2. \A r \in Record : WholeInFile(r) => WholeInFile(r)'
      BY <2>3, <3>1 DEF WholeInFile
    <3>3. \A r : r = current => WholeInFile(r)'
      <4>1. \E i \in DOMAIN records' : records'[i].rec = current /\ records'[i].whole
        BY <2>1, <2>2, <2>3
      <4> QED BY <4>1 DEF WholeInFile
    <3>4. acked' = acked \cup {current} /\ refused' = refused /\ acked \subseteq Record
      BY <1>0, <1>5 DEF WriteRest, Returns, TypeOK
    <3> QED BY <3>2, <3>3, <3>4 DEF AckedInFile
  <2> QED BY <2>5, <2>6, <2>7
<1>6. CASE Crash
  BY <1>6 DEF Crash, TypeOK, CurrentRecord, Writing, BeingWritten, PastRecords, HeadWritten,
     BehindRefused, AckedInFile, WholeInFile, RecordsInOrder, HeadCoversLife
<1>7. CASE new_wal_logger
  <2>1. \A i \in DOMAIN records : records[i].rec.life \in Nat /\ records[i].rec.life < life'
    BY <1>0, <1>7, StoredFields DEF new_wal_logger, PastRecords, TypeOK
  <2>2. TypeOK' /\ CurrentRecord' /\ BeingWritten' /\ HeadWritten' /\ BehindRefused'
    BY <1>7 DEF new_wal_logger, TypeOK, CurrentRecord, Writing, BeingWritten, HeadWritten,
        BehindRefused
  <2>3. PastRecords' /\ HeadCoversLife'
    BY <1>7, <2>1, <2>2 DEF new_wal_logger, PastRecords, HeadCoversLife, TypeOK
  <2>4. AckedInFile' /\ RecordsInOrder'
    BY <1>7 DEF new_wal_logger, AckedInFile, WholeInFile, RecordsInOrder
  <2> QED BY <2>2, <2>3, <2>4
<1>9. CASE WriteRefused
  <2>1. /\ current \in Record /\ acked' = acked \cup {current} /\ pc' = "idle"
        /\ refused' = Append(refused, current) /\ refused \in Seq(Record)
        /\ UNCHANGED <<records, head, LSN, life>> /\ pc = "record"
    BY <1>0, <1>9 DEF WriteRefused, Refused, Returns, CurrentRecord, Writing, TypeOK
  <2>2. \A r \in Record : (\E i \in DOMAIN refused' : refused'[i] = r)
            <=> r = current \/ \E i \in DOMAIN refused : refused[i] = r
    BY <2>1, AppendedMembers
  <2>3. TypeOK'
    BY <1>9, <2>1 DEF WriteRefused, Returns, TypeOK
  <2>4. CurrentRecord' /\ BeingWritten' /\ HeadWritten' /\ BehindRefused'
    BY <2>1 DEF CurrentRecord, Writing, BeingWritten, HeadWritten, BehindRefused
  <2>5. PastRecords'
    BY <1>0, <2>1, StoredFields DEF PastRecords, CurrentRecord, Writing, TypeOK
  <2>6. AckedInFile'
    <3>1. \A r : WholeInFile(r)' <=> WholeInFile(r) BY <2>1 DEF WholeInFile
    <3> QED BY <2>1, <2>2, <3>1 DEF AckedInFile, TypeOK
  <2>7. RecordsInOrder' /\ HeadCoversLife'
    BY <2>1 DEF RecordsInOrder, HeadCoversLife
  <2> QED BY <2>3, <2>4, <2>5, <2>6, <2>7
<1>10. CASE RestRefused
  <2>1. /\ current \in Record /\ current.lsn = LSN /\ current.life = life
        /\ refused' = Append(refused, current) /\ refused \in Seq(Record)
        /\ UNCHANGED <<records, head, LSN, life, current, acked>>
        /\ pc \in {"rest", "behind"} /\ pc' \in {"record", "behind"}
        /\ LSN \in Nat /\ life \in Nat /\ acked \subseteq Record
    BY <1>0, <1>10 DEF RestRefused, Refused, CurrentRecord, Writing, TypeOK
  <2>2. \A r \in Record : (\E i \in DOMAIN refused' : refused'[i] = r)
            <=> r = current \/ \E i \in DOMAIN refused : refused[i] = r
    BY <2>1, AppendedMembers
  <2>3. TypeOK'
    BY <2>1 DEF TypeOK
  <2>4. CurrentRecord' /\ BeingWritten' /\ HeadWritten'
    BY <2>1 DEF CurrentRecord, Writing, BeingWritten, HeadWritten
  <2>5. BehindRefused'
    BY <2>1, <2>2 DEF BehindRefused
  <2>6. PastRecords'
    <3> SUFFICES ASSUME NEW i \in DOMAIN records
                 PROVE  /\ records[i].rec.life <= life
                        /\ records[i].rec.life = life => records[i].rec.lsn <= LSN
                        /\ records[i].rec.life = life =>
                             \/ records[i].rec.lsn < LSN
                             \/ records[i].rec = current /\ ~records[i].whole
      BY <2>1 DEF PastRecords
    <3>1. /\ records[i].rec.life <= life
          /\ records[i].rec.life = life => records[i].rec.lsn <= LSN
      BY <2>1 DEF PastRecords
    <3>2. CASE i = Len(records)
      BY <2>1, <3>1, <3>2 DEF BeingWritten
    <3>3. CASE i # Len(records)
      <4>1. Len(records) \in DOMAIN records /\ i < Len(records)
        BY <1>0, <3>3 DEF TypeOK
      <4>2. \/ records[i].rec.life < life
            \/ records[i].rec.lsn < LSN
            \/ records[i].rec = current /\ ~records[i].whole
        BY <2>1, <4>1 DEF RecordsInOrder, BeingWritten
      <4>3. records[i].rec.life \in Nat BY <1>0, StoredFields
      <4> QED BY <2>1, <3>1, <4>2, <4>3
    <3> QED BY <3>2, <3>3
  <2>7. AckedInFile'
    <3>1. \A r : WholeInFile(r)' <=> WholeInFile(r) BY <2>1 DEF WholeInFile
    <3> QED BY <2>1, <2>2, <3>1 DEF AckedInFile
  <2>8. RecordsInOrder' /\ HeadCoversLife'
    BY <2>1 DEF RecordsInOrder, HeadCoversLife
  <2> QED BY <2>3, <2>4, <2>5, <2>6, <2>7, <2>8
<1>11. CASE WriteBehind
  <2>1. /\ current \in Record /\ acked' = acked \cup {current} /\ pc' = "idle"
        /\ UNCHANGED <<records, head, LSN, life, refused>> /\ pc = "behind"
    BY <1>11 DEF WriteBehind, Returns, CurrentRecord, Writing
  <2>2. TypeOK'
    BY <1>11, <2>1 DEF WriteBehind, Returns, TypeOK
  <2>3. CurrentRecord' /\ BeingWritten' /\ HeadWritten' /\ BehindRefused' /\ PastRecords'
    BY <2>1 DEF CurrentRecord, Writing, BeingWritten, HeadWritten, BehindRefused, PastRecords
  <2>4. AckedInFile'
    <3>1. \A r : WholeInFile(r)' <=> WholeInFile(r) BY <2>1 DEF WholeInFile
    <3> QED BY <2>1, <3>1 DEF AckedInFile, BehindRefused
  <2>5. RecordsInOrder' /\ HeadCoversLife'
    BY <2>1 DEF RecordsInOrder, HeadCoversLife
  <2> QED BY <2>2, <2>3, <2>4, <2>5
<1>8. CASE UNCHANGED vars
  BY <1>8 DEF vars, TypeOK, CurrentRecord, Writing, BeingWritten, PastRecords, HeadWritten,
     BehindRefused, AckedInFile, WholeInFile, RecordsInOrder, HeadCoversLife
<1> QED BY <1>1, <1>2, <1>3, <1>4, <1>5, <1>6, <1>7, <1>8, <1>9, <1>10, <1>11 DEF Next

(* The invariant holds in every behaviour. *)
LEMMA SpecInv == Spec => []Inv
BY InitInv, NextInv, PTL DEF Spec
-----------------------------------------------------------------------------
(* The head, the LSN and the record in progress keep their types, and      *)
(* through short writes, crashes and new starts on the same file the log   *)
(* is a sequence of whole and partial records.                             *)
THEOREM TypeCorrect == Spec => []TypeOK
<1>1. Inv => TypeOK BY DEF Inv
<1> QED BY <1>1, SpecInv, PTL

(* What write_log has returned for is in the file as a whole, wherever the *)
(* process dies and however often it starts again, unless a call of write  *)
(* for that very record ended with EINTR or EAGAIN.                        *)
THEOREM AckedStaysInFile == Spec => []AckedInFile
<1>1. Inv => AckedInFile BY DEF Inv
<1> QED BY <1>1, SpecInv, PTL

(* The LSNs that give_new_LSN hands out order the records of each life,    *)
(* and the lives follow each other.                                        *)
THEOREM FileInOrder == Spec => []RecordsInOrder
<1>1. Inv => RecordsInOrder BY DEF Inv
<1> QED BY <1>1, SpecInv, PTL

(* update_heading_lsn comes before every record it has to cover. *)
THEOREM HeadCovers == Spec => []HeadCoversLife
<1>1. Inv => HeadCoversLife BY DEF Inv
<1> QED BY <1>1, SpecInv, PTL

(* No step changes or removes a record that is complete: the only one that *)
(* is overwritten is the one a short write has left incomplete.            *)
THEOREM CompleteRecordsStay == Spec => AppendOnly
<1> DEFINE Keeps == \A i \in DOMAIN records :
                        /\ i \in DOMAIN records'
                        /\ records[i].whole => records'[i] = records[i]
<1>1. Inv /\ [Next]_vars => [Keeps]_vars
  <2> SUFFICES ASSUME Inv, Next PROVE Keeps
    OBVIOUS
  <2>1. CASE WriteRest
    <3>1. Len(records) \in DOMAIN records /\ ~records[Len(records)].whole
      BY <2>1 DEF WriteRest, Inv, BeingWritten, TypeOK
    <3> QED BY <2>1, <3>1 DEF WriteRest
  <2>2. CASE WritePart \/ WriteWhole
    BY <2>2, Appended DEF WritePart, WriteWhole, Returns
  <2>3. CASE UNCHANGED records
    BY <2>3
  <2> QED BY <2>1, <2>2, <2>3 DEF Next, write_log, update_heading_lsn, Crash, new_wal_logger,
            WriteRefused, RestRefused, WriteBehind, Refused
<1> QED BY <1>1, SpecInv, PTL DEF Spec, AppendOnly
=============================================================================
