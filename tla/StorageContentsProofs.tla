----------------------- MODULE StorageContentsProofs ------------------------
(***************************************************************************)
(* What the pages hold, for any keys, values and sizes. The invariant      *)
(* Settled says of every page that the records its key vector lists lie    *)
(* apart from each other below offset_bytes (Laid) and are intact in its   *)
(* slot or, when it is not heated, in the file; and of the main thread     *)
(* which part of its page it has already moved. The lemmas show, for one   *)
(* kind of step after the other, that it is kept until one of the events   *)
(* in damage.                                                              *)
(*                                                                         *)
(* The argument for a defragmentation is a sum: the offset at which the    *)
(* next block goes is the number of bytes of the blocks before it, so it   *)
(* is never above the place the block comes from, and what it overwrites   *)
(* is either dead or a block that has already gone. The same sum bounds    *)
(* the fragmentated_bytes of a page by its size, so that without a wrapped *)
(* offset headers_alloc_page finds no page worth a defragmentation and     *)
(* only the main thread moves values.                                      *)
(***************************************************************************)
EXTENDS StorageImpl, StorageProofs
-----------------------------------------------------------------------------
(***************************************************************************)
(* The records of a page.                                                  *)
(***************************************************************************)

(* The values that a key vector lists, at the offsets it lists. *)
Records(keys, contents) ==
    [i \in DOMAIN keys |-> [addr |-> keys[i].offset, val |-> contents[keys[i].key]]]

(* The records begin one behind the other and end before end. *)
Apart(recs, end) ==
    /\ recs \in Seq(Record)
    /\ \A i \in DOMAIN recs : recs[i].addr + Bytes(recs[i]) <= end
    /\ \A i, j \in DOMAIN recs : i < j => recs[i].addr + Bytes(recs[i]) <= recs[j].addr

(* acc[i] is the number of bytes of the first i records.  A record never   *)
(* lies before the place that a defragmentation will move it to.           *)
Sums(recs, acc) ==
    /\ acc \in [0 .. Len(recs) -> Nat]
    /\ acc[0] = 0
    /\ \A i \in DOMAIN recs :
         acc[i] = acc[i - 1] + Bytes(recs[i]) /\ acc[i - 1] <= recs[i].addr
    /\ \A i, j \in 0 .. Len(recs) : i <= j => acc[i] <= acc[j]

(* The records, and the bytes that deletions have given up, fit below end. *)
Laid(recs, end, lost) ==
    /\ Apart(recs, end)
    /\ \E acc : Sums(recs, acc) /\ lost + acc[Len(recs)] <= end

(* The same when the records before block were moved to their places, which *)
(* end at offset.                                                           *)
Compacting(recs, end, lost, block, offset) ==
    /\ Apart(recs, end)
    /\ block \in 1 .. Len(recs) + 1
    /\ \E acc : /\ Sums(recs, acc) /\ lost + acc[Len(recs)] <= end
                /\ offset = acc[block - 1]
                /\ \A i \in 1 .. block - 1 : recs[i].addr = acc[i - 1]

(* The records are in the memory m, from base on. *)
Intact(m, base, recs) ==
    \A i \in DOMAIN recs : [addr |-> base + recs[i].addr, val |-> recs[i].val] \in m
-----------------------------------------------------------------------------
(* The place of a record, its length and its end. *)
LEMMA RecordAt ==
    ASSUME NEW recs \in Seq(Record), NEW i \in DOMAIN recs
    PROVE  /\ recs[i] \in Record /\ recs[i].addr \in Nat /\ recs[i].val \in Value
           /\ Bytes(recs[i]) \in Nat /\ Bytes(recs[i]) >= 2 /\ Size[recs[i].val] \in Nat
           /\ Bytes(recs[i]) = Size[recs[i].val] + 2
           /\ i \in Nat /\ i >= 1 /\ i <= Len(recs) /\ Len(recs) \in Nat
           /\ i - 1 \in 0 .. Len(recs) /\ i \in 0 .. Len(recs)
<1>1. recs[i] \in Record OBVIOUS
<1>2. recs[i].addr \in Nat /\ recs[i].val \in Value BY <1>1 DEF Record
<1>3. Bytes(recs[i]) = Size[recs[i].val] + 2 BY DEF Bytes, RecordBytes, LenBytes
<1>4. i \in Nat /\ i >= 1 /\ i <= Len(recs) /\ Len(recs) \in Nat OBVIOUS
<1>5. i - 1 \in 0 .. Len(recs) /\ i \in 0 .. Len(recs) BY <1>4
<1> QED BY <1>1, <1>2, <1>3, <1>4, <1>5, BytesType

(* page_value_set puts its record behind all others. *)
LEMMA LaidAppend ==
    ASSUME NEW recs, NEW end \in Nat, NEW lost \in Nat, Laid(recs, end, lost),
           NEW r \in Record, r.addr = end,
           NEW new \in Seq(Record), Len(new) = Len(recs) + 1,
           \A i \in DOMAIN recs : new[i] = recs[i], new[Len(recs) + 1] = r
    PROVE  Laid(new, end + Bytes(r), lost)
<1> DEFINE n == Len(recs)
<1>1. recs \in Seq(Record) /\ n \in Nat /\ DOMAIN recs = 1 .. n /\ DOMAIN new = 1 .. n + 1
      /\ Len(new) = n + 1
  BY DEF Laid, Apart
<1>2. Bytes(r) \in Nat /\ Bytes(r) >= 2 /\ r.addr \in Nat BY BytesType DEF Record
<1>3. PICK acc : Sums(recs, acc) /\ lost + acc[n] <= end BY DEF Laid
<1>4. /\ acc \in [0 .. n -> Nat] /\ acc[0] = 0
      /\ \A i \in DOMAIN recs : acc[i] = acc[i - 1] + Bytes(recs[i]) /\ acc[i - 1] <= recs[i].addr
      /\ \A i, j \in 0 .. n : i <= j => acc[i] <= acc[j]
  BY <1>3 DEF Sums
<1> HIDE DEF n
<1>5. \A i \in 1 .. n : /\ new[i] = recs[i] /\ Bytes(recs[i]) \in Nat /\ recs[i].addr \in Nat
                        /\ recs[i].addr + Bytes(recs[i]) <= end
  BY <1>1, RecordAt DEF Laid, Apart
<1>6. \A i \in DOMAIN new : i \in 1 .. n \/ i = n + 1 BY <1>1
<1>7. Apart(new, end + Bytes(r))
  <2>1. \A i \in DOMAIN new : new[i].addr + Bytes(new[i]) <= end + Bytes(r)
    BY <1>2, <1>5, <1>6, SMTT(30) DEF n
  <2>2. ASSUME NEW i \in DOMAIN new, NEW j \in DOMAIN new, i < j
        PROVE  new[i].addr + Bytes(new[i]) <= new[j].addr
    <3>1. i \in 1 .. n BY <1>1, <2>2
    <3>2. CASE j \in 1 .. n BY <1>1, <1>5, <2>2, <3>1, <3>2 DEF Laid, Apart
    <3>3. CASE j = n + 1 BY <1>5, <3>1, <3>3 DEF n
    <3> QED BY <1>6, <3>2, <3>3
  <2> QED BY <2>1, <2>2 DEF Apart
<1> DEFINE top == acc[n] + Bytes(r)
           sum == [i \in 0 .. n + 1 |-> IF i <= n THEN acc[i] ELSE top]
<1>8. acc[n] \in Nat /\ top \in Nat /\ acc[n] <= top /\ acc[n] <= end BY <1>1, <1>2, <1>3, <1>4
<1>9. \A i \in 0 .. n : sum[i] = acc[i] /\ acc[i] \in Nat /\ acc[i] <= top
  <2> SUFFICES ASSUME NEW i \in 0 .. n
               PROVE  sum[i] = acc[i] /\ acc[i] \in Nat /\ acc[i] <= top
    OBVIOUS
  <2>1. i \in 0 .. n + 1 /\ i <= n /\ n \in 0 .. n BY <1>1
  <2>2. sum[i] = acc[i] BY <2>1
  <2> HIDE DEF sum, top
  <2>3. acc[i] \in Nat /\ acc[i] <= acc[n] BY <1>4, <2>1
  <2> DEFINE x == acc[i]
             y == acc[n]
  <2>4. x \in Nat /\ y \in Nat /\ top \in Nat /\ x <= y /\ y <= top BY <1>8, <2>3
  <2> HIDE DEF x, y
  <2>5. x <= top BY <2>4
  <2> QED BY <2>2, <2>3, <2>5 DEF x
<1>10. sum[n + 1] = top BY <1>1
<1>13. \A i \in 0 .. n + 1 : i \in 0 .. n \/ i = n + 1 BY <1>1
<1>11. sum \in [0 .. n + 1 -> Nat]
  <2>1. \A i \in 0 .. n + 1 : (IF i <= n THEN acc[i] ELSE top) \in Nat
    BY <1>1, <1>4, <1>8, <1>13
  <2> QED BY <2>1
<1>12. Sums(new, sum)
  <2> HIDE DEF sum
  <2>1. sum[0] = 0 BY <1>1, <1>4, <1>9
  <2>2. ASSUME NEW i \in DOMAIN new
        PROVE  sum[i] = sum[i - 1] + Bytes(new[i]) /\ sum[i - 1] <= new[i].addr
    <3>1. CASE i \in 1 .. n
      <4>1. i - 1 \in 0 .. n /\ i \in 0 .. n BY <1>1, <3>1
      <4> QED BY <1>1, <1>4, <1>5, <1>9, <3>1, <4>1
    <3>2. CASE i = n + 1
      <4>1. i - 1 = n /\ n \in 0 .. n BY <1>1, <3>2
      <4> QED BY <1>8, <1>9, <1>10, <3>2, <4>1 DEF n
    <3> QED BY <1>6, <3>1, <3>2
  <2>3. ASSUME NEW i \in 0 .. n + 1, NEW j \in 0 .. n + 1, i <= j
        PROVE  sum[i] <= sum[j]
    <3>1. CASE j \in 0 .. n
      <4>1. i \in 0 .. n BY <1>1, <2>3, <3>1
      <4> QED BY <1>4, <1>9, <2>3, <3>1, <4>1
    <3>2. CASE j = n + 1
      BY <1>8, <1>9, <1>10, <1>13, <3>2
    <3> QED BY <1>13, <3>1, <3>2
  <2> QED BY <1>1, <1>11, <2>1, <2>2, <2>3 DEF Sums
<1>14. lost + sum[Len(new)] <= end + Bytes(r)
  BY <1>1, <1>2, <1>3, <1>8, <1>10
<1> QED BY <1>7, <1>12, <1>14 DEF Laid

(* vector_delete leaves the records that are not deleted where they are,   *)
(* and page_value_unset counts the deleted one as lost.                    *)
LEMMA LaidDelete ==
    ASSUME NEW recs, NEW end \in Nat, NEW lost \in Nat, Laid(recs, end, lost),
           NEW id \in DOMAIN recs,
           NEW new \in Seq(Record), Len(new) = Len(recs) - 1,
           \A j \in 1 .. Len(recs) - 1 : new[j] = IF j < id THEN recs[j] ELSE recs[j + 1]
    PROVE  Laid(new, end, lost + Size[recs[id].val])
<1> DEFINE n == Len(recs)
           B == Bytes(recs[id])
           S == Size[recs[id].val]
<1>1. /\ recs \in Seq(Record) /\ n \in Nat /\ DOMAIN recs = 1 .. n /\ DOMAIN new = 1 .. n - 1
      /\ Len(new) = n - 1 /\ id \in Nat /\ id >= 1 /\ id <= n
  BY DEF Laid, Apart
<1>2. B \in Nat /\ S \in Nat /\ B = S + 2 BY <1>1, RecordAt
<1>3. PICK acc : Sums(recs, acc) /\ lost + acc[n] <= end BY DEF Laid
<1>4. /\ acc \in [0 .. n -> Nat] /\ acc[0] = 0
      /\ \A i \in 1 .. n : acc[i] = acc[i - 1] + Bytes(recs[i]) /\ acc[i - 1] <= recs[i].addr
      /\ \A i, j \in 0 .. n : i <= j => acc[i] <= acc[j]
  BY <1>1, <1>3 DEF Sums
<1>5. /\ \A i \in 1 .. n : /\ Bytes(recs[i]) \in Nat /\ recs[i].addr \in Nat
                           /\ recs[i].addr + Bytes(recs[i]) <= end
      /\ \A i, j \in 1 .. n : i < j => recs[i].addr + Bytes(recs[i]) <= recs[j].addr
  BY <1>1, RecordAt DEF Laid, Apart
<1>6. /\ acc[id] = acc[id - 1] + B /\ acc[id] \in Nat /\ acc[id - 1] \in Nat
      /\ id - 1 \in 0 .. n /\ id \in 0 .. n /\ acc[n] \in Nat
  BY <1>1, <1>4
<1>7. \A j \in 1 .. n - 1 : /\ j \in 1 .. n /\ j + 1 \in 1 .. n
                            /\ new[j] = IF j < id THEN recs[j] ELSE recs[j + 1]
  BY <1>1
<1> HIDE DEF n, B, S
<1>8. Apart(new, end)
  <2>1. \A j \in DOMAIN new : new[j].addr + Bytes(new[j]) <= end
    BY <1>1, <1>5, <1>7
  <2>2. ASSUME NEW i \in DOMAIN new, NEW j \in DOMAIN new, i < j
        PROVE  new[i].addr + Bytes(new[i]) <= new[j].addr
    <3> DEFINE x == IF i < id THEN i ELSE i + 1
               y == IF j < id THEN j ELSE j + 1
    <3>1. x \in 1 .. n /\ y \in 1 .. n /\ x < y BY <1>1, <1>7, <2>2
    <3>2. new[i] = recs[x] /\ new[j] = recs[y] BY <1>1, <1>7
    <3> HIDE DEF x, y
    <3> QED BY <1>5, <3>1, <3>2
  <2> QED BY <2>1, <2>2 DEF Apart
<1> DEFINE sum == [j \in 0 .. n - 1 |-> IF j < id THEN acc[j] ELSE acc[j + 1] - B]
<1>9. ASSUME NEW j \in 0 .. n - 1
      PROVE  /\ j < id => sum[j] = acc[j] /\ acc[j] <= acc[id - 1]
             /\ j >= id => sum[j] = acc[j + 1] - B /\ acc[id] <= acc[j + 1]
             /\ acc[j] \in Nat /\ acc[j + 1] \in Nat /\ j \in Nat /\ sum[j] \in Nat
  <2>1. j \in 0 .. n /\ j + 1 \in 0 .. n /\ j \in Nat BY <1>1
  <2>2. acc[j] \in Nat /\ acc[j + 1] \in Nat BY <1>4, <2>1
  <2>3. j < id => j <= id - 1 BY <1>1, <2>1
  <2>4. j < id => acc[j] <= acc[id - 1] BY <1>4, <1>6, <2>1, <2>3
  <2>5. j >= id => id <= j + 1 BY <1>1, <2>1
  <2>6. j >= id => acc[id] <= acc[j + 1] BY <1>4, <1>6, <2>1, <2>5
  <2>7. j < id \/ j >= id BY <1>1, <2>1
  <2>8. j < id => sum[j] = acc[j] OBVIOUS
  <2>9. j >= id => ~(j < id) BY <1>1, <2>1
  <2>10. j >= id => sum[j] = acc[j + 1] - B BY <2>9
  <2> HIDE DEF sum
  <2>11. ASSUME j >= id PROVE sum[j] \in Nat
    <3> DEFINE x == acc[id - 1]
               y == acc[id]
               z == acc[j + 1]
    <3>1. x \in Nat /\ y = x + B /\ y <= z /\ z \in Nat BY <1>6, <2>2, <2>6, <2>11
    <3> HIDE DEF x, y, z
    <3>2. z - B \in Nat BY <1>2, <3>1
    <3> QED BY <2>10, <2>11, <3>2 DEF z
  <2>12. sum[j] \in Nat BY <2>2, <2>7, <2>8, <2>11
  <2> QED BY <2>1, <2>2, <2>4, <2>6, <2>8, <2>10, <2>12
<1>10. sum \in [0 .. n - 1 -> Nat] BY <1>9
<1> HIDE DEF sum
<1>11. Sums(new, sum)
  <2>1. sum[0] = 0
    <3>1. 0 \in 0 .. n - 1 /\ 0 < id BY <1>1
    <3> QED BY <1>4, <1>9, <3>1
  <2>2. ASSUME NEW j \in DOMAIN new
        PROVE  sum[j] = sum[j - 1] + Bytes(new[j]) /\ sum[j - 1] <= new[j].addr
    <3>1. j \in 0 .. n - 1 /\ j - 1 \in 0 .. n - 1 /\ j \in 1 .. n /\ j + 1 \in 1 .. n
          /\ (j - 1) + 1 = j /\ (j + 1) - 1 = j /\ j \in Nat /\ j >= 1
      BY <1>1
    <3>2. CASE j < id
      <4>1. j - 1 < id BY <1>1, <3>1, <3>2, SMTT(30)
      <4> QED BY <1>1, <1>4, <1>7, <1>9, <3>1, <3>2, <4>1
    <3>3. CASE j = id
      <4>0. j >= id /\ ~(j < id) /\ j - 1 < id BY <3>1, <3>3, SMTT(30)
      <4>1. sum[j] = acc[j + 1] - B /\ acc[j + 1] \in Nat BY <1>9, <3>1, <4>0
      <4>2. sum[j - 1] = acc[j - 1] BY <1>9, <3>1, <4>0
      <4>3. new[j] = recs[j + 1] BY <1>1, <1>7, <4>0
      <4>4. acc[j + 1] = acc[j] + Bytes(recs[j + 1]) /\ acc[j] <= recs[j + 1].addr
        <5>1. acc[j + 1] = acc[(j + 1) - 1] + Bytes(recs[j + 1]) /\ acc[(j + 1) - 1] <= recs[j + 1].addr
          BY <1>4, <3>1
        <5> QED BY <3>1, <5>1
      <4>5. Bytes(recs[j + 1]) \in Nat /\ recs[j + 1].addr \in Nat BY <1>5, <3>1
      <4>6. acc[j] = acc[j - 1] + B /\ acc[j] \in Nat /\ acc[j - 1] \in Nat BY <1>6, <3>3
      <4>7. sum[j] = sum[j - 1] + Bytes(recs[j + 1])
        <5> DEFINE x == acc[j - 1]
                   y == acc[j]
                   z == acc[j + 1]
                   c == Bytes(recs[j + 1])
                   f == sum[j]
                   g == sum[j - 1]
        <5>1. f = z - B /\ g = x /\ z = y + c /\ y = x + B /\ c \in Nat /\ x \in Nat
          BY <4>1, <4>2, <4>4, <4>5, <4>6
        <5> HIDE DEF x, y, z, c, f, g
        <5>2. f = g + c BY <1>2, <5>1
        <5> QED BY <5>2 DEF f, g, c
      <4>8. sum[j - 1] <= recs[j + 1].addr
        <5> DEFINE x == acc[j - 1]
                   y == acc[j]
                   a == recs[j + 1].addr
        <5>1. y = x + B /\ y <= a /\ x \in Nat /\ a \in Nat BY <4>4, <4>5, <4>6
        <5> HIDE DEF x, y, a
        <5>2. x <= a BY <1>2, <5>1
        <5> QED BY <4>2, <5>2 DEF x, a
      <4> QED BY <4>3, <4>7, <4>8
    <3>4. CASE j > id
      <4>1. j - 1 >= id BY <1>1, <3>1, <3>4, SMTT(30)
      <4>0. j >= id /\ ~(j < id) BY <1>1, <3>1, <3>4, SMTT(30)
      <4>2. sum[j] = acc[j + 1] - B /\ acc[j + 1] \in Nat /\ acc[j] \in Nat BY <1>9, <3>1, <4>0
      <4>3. sum[j - 1] = acc[j] - B
        <5>1. sum[j - 1] = acc[(j - 1) + 1] - B BY <1>9, <3>1, <4>1
        <5> QED BY <3>1, <5>1
      <4>4. new[j] = recs[j + 1] BY <1>1, <1>7, <4>0
      <4>5. acc[j + 1] = acc[j] + Bytes(recs[j + 1]) /\ acc[j] <= recs[j + 1].addr
        <5>1. acc[j + 1] = acc[(j + 1) - 1] + Bytes(recs[j + 1]) /\ acc[(j + 1) - 1] <= recs[j + 1].addr
          BY <1>4, <3>1
        <5> QED BY <3>1, <5>1
      <4>6. Bytes(recs[j + 1]) \in Nat /\ recs[j + 1].addr \in Nat BY <1>5, <3>1
      <4>7. sum[j] = sum[j - 1] + Bytes(recs[j + 1]) BY <1>2, <4>2, <4>3, <4>5, <4>6, SMTT(30)
      <4>8. sum[j - 1] <= recs[j + 1].addr
        <5> DEFINE y == acc[j]
                   g == sum[j - 1]
                   a == recs[j + 1].addr
        <5>1. g = y - B /\ y <= a /\ y \in Nat /\ a \in Nat BY <4>2, <4>3, <4>5, <4>6
        <5> HIDE DEF y, g, a
        <5>2. g <= a BY <1>2, <5>1
        <5> QED BY <5>2 DEF g, a
      <4> QED BY <4>4, <4>7, <4>8
    <3> QED BY <1>1, <3>1, <3>2, <3>3, <3>4
  <2>3. ASSUME NEW i \in 0 .. n - 1, NEW j \in 0 .. n - 1, i <= j
        PROVE  sum[i] <= sum[j]
    <3>0. /\ i \in 0 .. n /\ j \in 0 .. n /\ i + 1 \in 0 .. n /\ j + 1 \in 0 .. n
          /\ i \in Nat /\ j \in Nat
      BY <1>1
    <3>1. CASE j < id
      <4>1. i < id BY <1>1, <2>3, <3>0, <3>1, SMTT(30)
      <4> QED BY <1>4, <1>9, <2>3, <3>0, <3>1, <4>1
    <3>2. CASE i >= id
      <4>1. j >= id BY <1>1, <2>3, <3>0, <3>2
      <4>2. acc[i + 1] <= acc[j + 1] BY <1>4, <2>3, <3>0
      <4> QED BY <1>2, <1>9, <3>2, <4>1, <4>2, SMTT(30)
    <3>3. CASE i < id /\ j >= id
      <4>1. sum[i] = acc[i] /\ acc[i] <= acc[id - 1] /\ sum[j] = acc[j + 1] - B
            /\ acc[id] <= acc[j + 1] /\ acc[i] \in Nat /\ acc[j + 1] \in Nat
        BY <1>9, <3>3
      <4> DEFINE x == acc[i]
                 y == acc[id - 1]
                 z == acc[j + 1]
                 u == acc[id]
      <4>2. x <= y /\ u = y + B /\ u <= z /\ x \in Nat /\ y \in Nat /\ z \in Nat BY <1>6, <4>1
      <4> HIDE DEF x, y, z, u
      <4>3. x <= z - B BY <1>2, <4>2
      <4> QED BY <4>1, <4>3 DEF x, z
    <3> QED BY <1>1, <3>0, <3>1, <3>2, <3>3
  <2> QED BY <1>1, <1>10, <2>1, <2>2, <2>3 DEF Sums
<1>12. lost + S + sum[n - 1] <= end
  <2>1. n - 1 \in 0 .. n - 1 /\ (n - 1) + 1 = n BY <1>1
  <2>2. CASE id = n
    <3>1. sum[n - 1] = acc[id - 1] /\ acc[n] = acc[id - 1] + B
      BY <1>1, <1>6, <1>9, <2>1, <2>2
    <3> DEFINE x == acc[id - 1]
               y == acc[n]
    <3>2. y = x + B /\ x \in Nat /\ lost + y <= end BY <1>3, <1>6, <3>1
    <3> HIDE DEF x, y
    <3>3. lost + S + x <= end BY <1>2, <3>2
    <3> QED BY <3>1, <3>3 DEF x
  <2>3. CASE id # n
    <3>1. sum[n - 1] = acc[n] - B BY <1>1, <1>9, <2>1, <2>3
    <3> DEFINE y == acc[n]
    <3>2. y \in Nat /\ lost + y <= end BY <1>3, <1>6
    <3> HIDE DEF y
    <3>3. lost + S + (y - B) <= end BY <1>2, <3>2
    <3> QED BY <3>1, <3>3 DEF y
  <2> QED BY <2>2, <2>3
<1>13. lost + S + sum[Len(new)] <= end BY <1>1, <1>12
<1> QED BY <1>8, <1>11, <1>13 DEF Laid, S

(* What is left of a page with a value is more than what was lost. *)
LEMMA LaidLost ==
    ASSUME NEW recs, NEW end \in Nat, NEW lost \in Nat, Laid(recs, end, lost), Len(recs) # 0
    PROVE  lost < end
<1>1. recs \in Seq(Record) /\ Len(recs) \in Nat BY DEF Laid, Apart
<1>2. PICK acc : Sums(recs, acc) /\ lost + acc[Len(recs)] <= end BY DEF Laid
<1>3. 1 \in DOMAIN recs /\ 1 \in 0 .. Len(recs) /\ 0 \in 0 .. Len(recs) /\ Len(recs) \in 0 .. Len(recs) /\ 1 <= Len(recs)
  BY <1>1
<1>4. acc[1] = acc[1 - 1] + Bytes(recs[1]) /\ acc[0] \in Nat /\ acc[1] \in Nat /\ acc[Len(recs)] \in Nat
      /\ acc[1] <= acc[Len(recs)]
  BY <1>2, <1>3 DEF Sums
<1>5. Bytes(recs[1]) \in Nat /\ Bytes(recs[1]) >= 2 BY <1>1, <1>3, RecordAt
<1> QED BY <1>2, <1>4, <1>5

(* Fewer lost bytes are no harm. *)
LEMMA LaidLess ==
    ASSUME NEW recs, NEW end \in Nat, NEW lost \in Nat, Laid(recs, end, lost)
    PROVE  Laid(recs, end, 0)
<1>1. PICK acc : Sums(recs, acc) /\ lost + acc[Len(recs)] <= end BY DEF Laid
<1>2. Len(recs) \in Nat BY DEF Laid, Apart
<1>3. acc[Len(recs)] \in Nat BY <1>1, <1>2 DEF Sums
<1>4. 0 + acc[Len(recs)] <= end BY <1>1, <1>3
<1> QED BY <1>1, <1>4 DEF Laid
-----------------------------------------------------------------------------
(* A defragmentation begins at the first record. *)
LEMMA CompactBegin ==
    ASSUME NEW recs, NEW end, NEW lost, Laid(recs, end, lost)
    PROVE  Compacting(recs, end, lost, 1, 0)
<1>1. Apart(recs, end) /\ Len(recs) \in Nat BY DEF Laid, Apart
<1>2. PICK acc : Sums(recs, acc) /\ lost + acc[Len(recs)] <= end BY DEF Laid
<1>3. acc[1 - 1] = 0 BY <1>2 DEF Sums
<1>4. 1 \in 1 .. Len(recs) + 1 BY <1>1
<1>5. \A i \in 1 .. 1 - 1 : recs[i].addr = acc[i - 1] OBVIOUS
<1> QED BY <1>1, <1>2, <1>3, <1>4, <1>5 DEF Compacting

(* A page in the middle of a defragmentation is laid out like any other. *)
LEMMA CompactLaid ==
    ASSUME NEW recs, NEW end, NEW lost, NEW b, NEW o, Compacting(recs, end, lost, b, o)
    PROVE  Laid(recs, end, lost)
BY DEF Compacting, Laid

(* One record is moved: never to the right, and onto no other record. *)
LEMMA CompactBlock ==
    ASSUME NEW recs, NEW end \in Nat, NEW lost \in Nat, NEW b, NEW o,
           Compacting(recs, end, lost, b, o), b <= Len(recs),
           NEW new \in Seq(Record), Len(new) = Len(recs),
           \A i \in DOMAIN recs : i # b => new[i] = recs[i],
           new[b].addr = o, new[b].val = recs[b].val
    PROVE  /\ Compacting(new, end, lost, b + 1, o + Bytes(recs[b]))
           /\ b \in DOMAIN recs /\ o \in Nat /\ o <= recs[b].addr
           /\ \A i \in DOMAIN recs : i < b => recs[i].addr + Bytes(recs[i]) <= o
           /\ \A i \in DOMAIN recs : b < i => o + Bytes(recs[b]) <= recs[i].addr
<1> DEFINE n == Len(recs)
           B == Bytes(recs[b])
<1>1. /\ recs \in Seq(Record) /\ n \in Nat /\ DOMAIN recs = 1 .. n /\ DOMAIN new = 1 .. n
      /\ Len(new) = n /\ b \in 1 .. n /\ b \in Nat
  BY DEF Compacting, Apart
<1>2. PICK acc : /\ Sums(recs, acc) /\ lost + acc[n] <= end /\ o = acc[b - 1]
                 /\ \A i \in 1 .. b - 1 : recs[i].addr = acc[i - 1]
  BY DEF Compacting
<1>3. /\ acc \in [0 .. n -> Nat] /\ acc[0] = 0
      /\ \A i \in 1 .. n : acc[i] = acc[i - 1] + Bytes(recs[i]) /\ acc[i - 1] <= recs[i].addr
      /\ \A i, j \in 0 .. n : i <= j => acc[i] <= acc[j]
  BY <1>1, <1>2 DEF Sums
<1>4. /\ \A i \in 1 .. n : /\ Bytes(recs[i]) \in Nat /\ recs[i].addr \in Nat
                           /\ recs[i].addr + Bytes(recs[i]) <= end
      /\ \A i, j \in 1 .. n : i < j => recs[i].addr + Bytes(recs[i]) <= recs[j].addr
  BY <1>1, RecordAt DEF Compacting, Apart
<1>5. B \in Nat /\ Bytes(new[b]) = B /\ \A i \in 1 .. n : Bytes(new[i]) = Bytes(recs[i])
  BY <1>1, <1>4 DEF Bytes
<1> HIDE DEF n, B
<1>6. b - 1 \in 0 .. n /\ b \in 0 .. n /\ o \in Nat /\ acc[b] = o + B /\ o <= recs[b].addr
  BY <1>1, <1>2, <1>3 DEF B
<1>7. ASSUME NEW i \in 1 .. n, i < b
      PROVE  /\ recs[i].addr = acc[i - 1] /\ acc[i] <= o /\ recs[i].addr + Bytes(recs[i]) <= o
  <2>1. i \in 1 .. b - 1 /\ i \in 0 .. n /\ i <= b - 1 BY <1>1, <1>7
  <2>2. acc[i] <= acc[b - 1] BY <1>3, <1>6, <2>1
  <2> QED BY <1>2, <1>3, <2>1, <2>2
<1>8. ASSUME NEW i \in 1 .. n, b < i
      PROVE  o + B <= recs[i].addr
  <2> DEFINE x == recs[b].addr
             y == recs[i].addr
  <2>1. x \in Nat /\ y \in Nat /\ x + B <= y /\ o <= x BY <1>1, <1>4, <1>6, <1>8 DEF B
  <2> HIDE DEF x, y
  <2>2. o + B <= y BY <1>5, <1>6, <2>1
  <2> QED BY <2>2 DEF y
<1>9. Apart(new, end)
  <2>1. \A i \in DOMAIN new : new[i].addr + Bytes(new[i]) <= end
    <3> SUFFICES ASSUME NEW i \in 1 .. n PROVE new[i].addr + Bytes(new[i]) <= end
      BY <1>1
    <3>1. CASE i = b BY <1>4, <1>5, <1>6, <3>1 DEF B
    <3>2. CASE i # b BY <1>1, <1>4, <3>2
    <3> QED BY <3>1, <3>2
  <2>2. ASSUME NEW i \in DOMAIN new, NEW j \in DOMAIN new, i < j
        PROVE  new[i].addr + Bytes(new[i]) <= new[j].addr
    <3>1. CASE i = b BY <1>1, <1>5, <1>8, <2>2, <3>1
    <3>2. CASE j = b
      <4>1. i \in 1 .. n /\ i < b /\ i # b BY <1>1, <2>2, <3>2
      <4>2. new[i] = recs[i] /\ recs[i].addr + Bytes(recs[i]) <= o BY <1>1, <1>7, <4>1
      <4> QED BY <3>2, <4>2
    <3>3. CASE i # b /\ j # b BY <1>1, <1>4, <2>2, <3>3
    <3> QED BY <3>1, <3>2, <3>3
  <2> QED BY <2>1, <2>2 DEF Apart
<1>10. \A i \in 1 .. n : i # b => new[i] = recs[i] BY <1>1
<1>11. Sums(new, acc)
  <2>1. \A i \in DOMAIN new : acc[i] = acc[i - 1] + Bytes(new[i]) /\ acc[i - 1] <= new[i].addr
    <3> SUFFICES ASSUME NEW i \in 1 .. n
                 PROVE  acc[i] = acc[i - 1] + Bytes(new[i]) /\ acc[i - 1] <= new[i].addr
      BY <1>1
    <3>1. acc[i] = acc[i - 1] + Bytes(new[i]) BY <1>3, <1>5
    <3>2. CASE i = b BY <1>2, <1>6, <3>1, <3>2
    <3>3. CASE i # b BY <1>3, <1>10, <3>1, <3>3
    <3> QED BY <3>2, <3>3
  <2> QED BY <1>1, <1>3, <2>1 DEF Sums
<1>12. \A i \in 1 .. (b + 1) - 1 : new[i].addr = acc[i - 1]
  <2> SUFFICES ASSUME NEW i \in 1 .. b PROVE new[i].addr = acc[i - 1]
    BY <1>1
  <2>1. CASE i = b BY <1>2, <2>1
  <2>2. CASE i # b
    <3>1. i \in 1 .. n /\ i < b BY <1>1, <2>2
    <3> QED BY <1>7, <1>10, <2>2, <3>1
  <2> QED BY <2>1, <2>2
<1>13. b + 1 \in 1 .. n + 1 /\ (b + 1) - 1 = b BY <1>1
<1>14. Compacting(new, end, lost, b + 1, o + B)
  BY <1>1, <1>2, <1>6, <1>9, <1>11, <1>12, <1>13 DEF Compacting
<1> QED BY <1>1, <1>6, <1>7, <1>8, <1>14 DEF B

(* Behind the last record, the page ends where the records do. *)
LEMMA CompactDone ==
    ASSUME NEW recs, NEW end \in Nat, NEW lost \in Nat, NEW b, NEW o,
           Compacting(recs, end, lost, b, o), b > Len(recs)
    PROVE  Laid(recs, o, 0) /\ o \in Nat /\ o <= end
<1> DEFINE n == Len(recs)
<1>1. recs \in Seq(Record) /\ n \in Nat /\ DOMAIN recs = 1 .. n /\ b = n + 1
  BY DEF Compacting, Apart
<1>2. PICK acc : /\ Sums(recs, acc) /\ lost + acc[n] <= end /\ o = acc[b - 1]
                 /\ \A i \in 1 .. b - 1 : recs[i].addr = acc[i - 1]
  BY DEF Compacting
<1>3. b - 1 = n /\ n \in 0 .. n BY <1>1
<1>4. /\ acc \in [0 .. n -> Nat]
      /\ \A i \in 1 .. n : acc[i] = acc[i - 1] + Bytes(recs[i])
      /\ \A i, j \in 0 .. n : i <= j => acc[i] <= acc[j]
  BY <1>1, <1>2 DEF Sums
<1>5. o = acc[n] /\ o \in Nat /\ o <= end BY <1>2, <1>3, <1>4
<1>6. \A i \in DOMAIN recs : recs[i].addr + Bytes(recs[i]) <= o
  <2> SUFFICES ASSUME NEW i \in 1 .. n PROVE recs[i].addr + Bytes(recs[i]) <= o
    BY <1>1
  <2>1. recs[i].addr = acc[i - 1] /\ acc[i] = acc[i - 1] + Bytes(recs[i]) BY <1>2, <1>3, <1>4
  <2>2. i \in 0 .. n /\ i <= n BY <1>1
  <2>3. acc[i] <= acc[n] BY <1>3, <1>4, <2>2
  <2> QED BY <1>5, <2>1, <2>3
<1>7. Apart(recs, o) BY <1>6 DEF Compacting, Apart
<1>8. 0 + acc[n] <= o BY <1>5
<1> QED BY <1>2, <1>5, <1>7, <1>8 DEF Laid
-----------------------------------------------------------------------------
(***************************************************************************)
(* The invariant.                                                          *)
(***************************************************************************)

(* Nothing has happened that may corrupt a value in the arena. *)
Unharmed == damage \subseteq {"clean"}

(* The value of every key that a header lists: of the key that an          *)
(* operation has in hand, the one it puts in or takes out.                 *)
Kept ==
    [k \in Key |-> IF worker.pc = "set" /\ worker.key = k THEN worker.val
                   ELSE IF worker.pc = "unset" /\ worker.key = k THEN worker.expect
                   ELSE kv[k]]

PageRecords(p) == Records(headers[p].keys, Kept)

(* The values of page p lie apart from each other, below the offset where  *)
(* the next one will go, and are intact where a lookup will read them.     *)
PageSound(p) ==
    /\ headers[p].offset_bytes <= PAGE_SIZE
    /\ Laid(PageRecords(p), headers[p].offset_bytes, headers[p].fragmentated_bytes)
    /\ headers[p].location = "INMEMORY" =>
         /\ headers[p].arena_id <= uploaded
         /\ Intact(mem, SlotStart(headers[p].arena_id), PageRecords(p))
    /\ headers[p].location = "INDISK" =>
         /\ Intact(file.pages[p], 0, PageRecords(p))
         /\ headers[p].state = "CLEAN"

(* No two pages are in the same slot. *)
OwnSlots ==
    \A p, q \in DOMAIN headers :
        /\ headers[p].location = "INMEMORY" /\ headers[q].location = "INMEMORY"
        /\ headers[p].arena_id = headers[q].arena_id
        => p = q

(* The main thread has moved the values before its block to their places. *)
MainMoves ==
    main.pc = "defrag" =>
        Compacting(PageRecords(main.page), headers[main.page].offset_bytes,
                   headers[main.page].fragmentated_bytes,
                   defrag["main"].block, defrag["main"].offset)

(* It dumps pages that are in memory, to their places in the file. *)
MainAtPage ==
    /\ main.pc \in {"defrag", "seek", "write", "clean"} =>
          headers[main.page].location = "INMEMORY"
    /\ main.pc = "write" => disk.pos = main.page

(* The fragmentated bytes of a page stay below PAGE_SIZE, so that the      *)
(* worker never defragmentates.                                            *)
Settled ==
    /\ \A p \in DOMAIN headers : PageSound(p)
    /\ OwnSlots /\ MainMoves /\ MainAtPage
    /\ worker.pc \notin {"defrag", "defragmented"}

Sound == Unharmed => Settled

(* A read of the arena or of a page of the file is determined. *)
BytesOnce ==
    /\ Unique(mem)
    /\ \A p \in DOMAIN file.pages : Unique(file.pages[p]) /\ InPage(file.pages[p])

(* A key that is not in the hash map has no value. *)
OnlyIndexed ==
    status = "up" => \A k \in Key : hashmap[k] = NoMeta => kv[k] = None
-----------------------------------------------------------------------------
(***************************************************************************)
(* Steps that leave the stored bytes as they are.                          *)
(***************************************************************************)
Alike(h, g) ==
    /\ g.keys = h.keys /\ g.offset_bytes = h.offset_bytes
    /\ g.fragmentated_bytes = h.fragmentated_bytes
    /\ g.arena_id = h.arena_id /\ g.location = h.location

StoredAlike ==
    /\ DOMAIN headers' = DOMAIN headers
    /\ \A p \in DOMAIN headers : Alike(headers[p], headers'[p])
    /\ mem' = mem /\ uploaded' = uploaded /\ lru' = lru
    /\ file'.pages = file.pages

(* One header is replaced. *)
LEMMA PageReplaced ==
    ASSUME TypeOK, NEW p \in DOMAIN headers, NEW h, headers' = [headers EXCEPT ![p] = h]
    PROVE  /\ DOMAIN headers' = DOMAIN headers /\ headers'[p] = h
           /\ \A q \in DOMAIN headers : q # p => headers'[q] = headers[q]
BY DEF TypeOK

(* Only the state of a page changes. *)
LEMMA StateReplaced ==
    ASSUME TypeOK, NEW p \in DOMAIN headers, NEW s,
           headers' = [headers EXCEPT ![p].state = s]
    PROVE  /\ DOMAIN headers' = DOMAIN headers
           /\ \A q \in DOMAIN headers : Alike(headers[q], headers'[q])
           /\ headers'[p].state = s
           /\ \A q \in DOMAIN headers : q # p => headers'[q] = headers[q]
<1> DEFINE h == [headers[p] EXCEPT !.state = s]
<1>1. headers[p] \in Header BY HeaderAt
<1>2. Alike(headers[p], h) /\ h.state = s BY <1>1 DEF Alike, Header
<1>3. headers' = [headers EXCEPT ![p] = h] OBVIOUS
<1> HIDE DEF h
<1>4. /\ DOMAIN headers' = DOMAIN headers /\ headers'[p] = h
      /\ \A q \in DOMAIN headers : q # p => headers'[q] = headers[q]
  BY <1>3, PageReplaced
<1> QED BY <1>2, <1>4 DEF Alike

(* The LSN of a page is no part of its layout. *)
LEMMA PLSNReplaced ==
    ASSUME TypeOK, NEW p \in DOMAIN headers, NEW n,
           headers' = [headers EXCEPT ![p].pLSN = n]
    PROVE  /\ DOMAIN headers' = DOMAIN headers
           /\ \A q \in DOMAIN headers : Alike(headers[q], headers'[q])
           /\ \A q \in DOMAIN headers : headers'[q].state = headers[q].state
<1> DEFINE h == [headers[p] EXCEPT !.pLSN = n]
<1>1. headers[p] \in Header BY HeaderAt
<1>2. Alike(headers[p], h) /\ h.state = headers[p].state BY <1>1 DEF Alike, Header
<1>3. headers' = [headers EXCEPT ![p] = h] OBVIOUS
<1> HIDE DEF h
<1>4. /\ DOMAIN headers' = DOMAIN headers /\ headers'[p] = h
      /\ \A q \in DOMAIN headers : q # p => headers'[q] = headers[q]
  BY <1>3, PageReplaced
<1> QED BY <1>2, <1>4 DEF Alike

(* The same headers and files. *)
LEMMA SameStored ==
    ASSUME headers' = headers, mem' = mem, uploaded' = uploaded, lru' = lru,
           file'.pages = file.pages
    PROVE  StoredAlike
BY DEF StoredAlike, Alike

(* A step that only answers. *)
Answers ==
    \/ request_reply
    \/ \E k \in Key :
         \/ operation_peek(k) \/ operation_select_missing(k) \/ operation_delete_missing(k)
         \/ \E v \in Value : operation_insert_refused(k, v)

(* What the steps that do not work on values leave alone. *)
LEMMA AnswersAlike ==
    ASSUME Answers
    PROVE  /\ StoredAlike
           /\ UNCHANGED <<status, headers, hashmap, disk, file, main, defrag, kv, saved,
                          quiet, damage, ops>>
<1>1. UNCHANGED <<status, arenaVars, hashmap, disk, file, main, defrag, history>>
  BY DEF Answers, request_reply, operation_peek, operation_select_missing,
         operation_delete_missing, operation_insert_refused
<1> QED BY <1>1, SameStored DEF arenaVars, history

(* operation_delete up to write_log only takes the key out of the map. *)
LEMMA DeleteAlike ==
    ASSUME NEW k \in Key, operation_delete(k)
    PROVE  /\ StoredAlike
           /\ UNCHANGED <<status, headers, disk, file, main, defrag, saved, damage>>
<1>1. UNCHANGED <<status, arenaVars, disk, file, main, defrag, saved, damage>>
  BY DEF operation_delete
<1> QED BY <1>1, SameStored DEF arenaVars

(* insert_key only puts the key into the map. *)
LEMMA InsertKeyAlike ==
    ASSUME Inv, insert_key
    PROVE  /\ StoredAlike
           /\ \A q \in DOMAIN headers : headers'[q].state = headers[q].state
           /\ UNCHANGED <<status, disk, file, main, defrag, saved, damage>>
<1>1. /\ worker.pc = "set" /\ headers' = [headers EXCEPT ![worker.meta.page].pLSN = LSN]
      /\ UNCHANGED <<status, uploaded, mem, lru, disk, file, main, defrag, saved, damage>>
  BY DEF insert_key
<1>2. TypeOK /\ worker.meta.page \in DOMAIN headers
  BY <1>1 DEF Inv, WorkerPoints, Holds
<1>3. PICK p \in DOMAIN headers : p = worker.meta.page BY <1>2
<1> QED BY <1>1, <1>2, <1>3, PLSNReplaced DEF StoredAlike

(* The handlers between two pages. *)
Walks == snapshot_handler \/ shutdown_handler \/ SkipPage \/ SeekPage \/ BeginKeys

(* They work on no page. *)
LEMMA WalksAlike ==
    ASSUME Walks
    PROVE  /\ StoredAlike
           /\ UNCHANGED <<status, headers, hashmap, file, worker, kv, saved, damage>>
<1>1. UNCHANGED <<status, arenaVars, hashmap, file, worker, kv, saved, damage>>
  BY DEF Walks, snapshot_handler, shutdown_handler, SkipPage, SeekPage, BeginKeys, history
<1> QED BY <1>1, SameStored DEF arenaVars

(* BeginDump marks its page. *)
LEMMA BeginDumpAlike ==
    ASSUME Inv, BeginDump
    PROVE  /\ StoredAlike /\ main.page \in DOMAIN headers
           /\ headers'[main.page].state = "PROCESSING" /\ headers[main.page].state = "DIRTY"
           /\ \A q \in DOMAIN headers : q # main.page => headers'[q] = headers[q]
           /\ main' = [main EXCEPT !.pc = "defrag"]
           /\ defrag' = [defrag EXCEPT !["main"] = [page |-> main.page, block |-> 1, offset |-> 0]]
           /\ UNCHANGED <<status, hashmap, disk, file, worker, kv, saved, quiet, damage>>
<1>0. TypeOK /\ headers \in Seq(Header) /\ main.page \in Nat
  BY DEF Inv, TypeOK, Handler
<1>1. /\ main.pc = "scan" /\ main.page <= Len(headers) /\ headers[main.page].state = "DIRTY"
      /\ headers' = [headers EXCEPT ![main.page].state = "PROCESSING"]
      /\ main' = [main EXCEPT !.pc = "defrag"]
      /\ defrag' = [defrag EXCEPT !["main"] = [page |-> main.page, block |-> 1, offset |-> 0]]
      /\ UNCHANGED <<status, uploaded, mem, lru, hashmap, disk, file, worker, history>>
  BY DEF BeginDump, BeginDefrag
<1>2. main.page \in DOMAIN headers
  <2>1. main.page # 0 BY <1>1 DEF Inv, MainOnPage
  <2> QED BY <1>0, <1>1, <2>1
<1>3. PICK p \in DOMAIN headers : p = main.page BY <1>2
<1>4. /\ DOMAIN headers' = DOMAIN headers
      /\ \A q \in DOMAIN headers : Alike(headers[q], headers'[q])
      /\ headers'[p].state = "PROCESSING"
      /\ \A q \in DOMAIN headers : q # p => headers'[q] = headers[q]
  BY <1>0, <1>1, <1>3, StateReplaced
<1> QED BY <1>1, <1>3, <1>4 DEF StoredAlike, history

(* EndDump marks its page again, unless destroy_headers frees it. *)
LEMMA EndDumpAlike ==
    ASSUME Inv, EndDump
    PROVE  /\ StoredAlike /\ main.page \in DOMAIN headers
           /\ main.phase = "snapshot" => headers'[main.page].state = "CLEAN"
           /\ main.phase # "snapshot" => headers' = headers
           /\ \A q \in DOMAIN headers : q # main.page => headers'[q] = headers[q]
           /\ main' = [main EXCEPT !.pc = "scan", !.page = main.page + 1]
           /\ UNCHANGED <<status, hashmap, disk, file, worker, defrag, kv, saved, quiet, damage>>
<1>0. TypeOK BY DEF Inv
<1>1. /\ main.pc = "clean" /\ main' = [main EXCEPT !.pc = "scan", !.page = main.page + 1]
      /\ UNCHANGED <<status, uploaded, mem, lru, hashmap, disk, file, worker, defrag, history>>
  BY DEF EndDump
<1>2. PICK p \in DOMAIN headers : p = main.page BY <1>1 DEF Inv, MainOnPage
<1>3. CASE main.phase = "snapshot"
  <2>1. headers' = [headers EXCEPT ![p].state = "CLEAN"] BY <1>2, <1>3 DEF EndDump
  <2>2. /\ DOMAIN headers' = DOMAIN headers
        /\ \A q \in DOMAIN headers : Alike(headers[q], headers'[q])
        /\ headers'[p].state = "CLEAN"
        /\ \A q \in DOMAIN headers : q # p => headers'[q] = headers[q]
    BY <1>0, <2>1, StateReplaced
  <2> QED BY <1>1, <1>2, <1>3, <2>2 DEF StoredAlike, history
<1>4. CASE main.phase # "snapshot"
  <2>1. headers' = headers BY <1>4 DEF EndDump
  <2> QED BY <1>1, <1>2, <1>4, <2>1, SameStored DEF history
<1> QED BY <1>3, <1>4

(* A step of disk_dump_keys that does not end the process. *)
LEMMA KeysAlike ==
    ASSUME Inv, DumpHeader \/ (DumpKeys /\ status' = "up") \/ EndKeys
    PROVE  /\ StoredAlike
           /\ UNCHANGED <<status, headers, hashmap, worker, defrag, kv, quiet, damage>>
           /\ disk'.pos = disk.pos
<1>0. file \in File /\ disk \in [lsn : Nat, keys_dumped : Nat, pos : Nat] BY DEF Inv, TypeOK
<1>1. CASE DumpKeys /\ status' = "up"
  <2>1. ~Die("SIGSEGV") BY <1>1 DEF Die
  <2>2. PICK st : file' = KeysListed(st)
    BY <1>1, <2>1 DEF DumpKeys
  <2>3. /\ disk' = [disk EXCEPT !.keys_dumped = @ + Len(headers[main.page].keys)]
        /\ UNCHANGED <<status, arenaVars, hashmap, LSN, worker, defrag, kv, quiet, damage, ops>>
    BY <1>1, <2>1 DEF DumpKeys
  <2>4. file'.pages = file.pages BY <1>0, <2>2 DEF KeysListed, File
  <2>5. disk'.pos = disk.pos BY <1>0, <2>3
  <2> QED BY <2>3, <2>4, <2>5, SameStored DEF arenaVars
<1>2. CASE EndKeys
  <2>1. UNCHANGED <<status, arenaVars, hashmap, LSN, disk, worker, defrag, kv, quiet, damage, ops>>
    BY <1>2 DEF EndKeys
  <2>2. file'.pages = file.pages BY <1>0, <1>2 DEF EndKeys, File
  <2> QED BY <2>1, <2>2, SameStored DEF arenaVars
<1>3. CASE DumpHeader
  <2>1. UNCHANGED <<status, arenaVars, hashmap, LSN, disk, worker, defrag, kv, quiet, damage, ops>>
    BY <1>3 DEF DumpHeader
  <2>2. file'.pages = file.pages BY <1>0, <1>3 DEF DumpHeader, File
  <2> QED BY <2>1, <2>2, SameStored DEF arenaVars
<1> QED BY <1>1, <1>2, <1>3

(* A start that fails, or no step at all. *)
LEMMA NoStepAlike ==
    ASSUME db_start_fails \/ UNCHANGED vars
    PROVE  /\ StoredAlike
           /\ UNCHANGED <<headers, hashmap, disk, file, main, worker, defrag, kv, saved,
                          quiet, damage>>
           /\ status' = status \/ (status # "up" /\ status' # "up")
<1>1. UNCHANGED <<arenaVars, hashmap, LSN, disk, file, main, worker, defrag, history>>
  BY DEF db_start_fails, vars, arenaVars, history
<1> QED BY <1>1, SameStored DEF arenaVars, history, db_start_fails, vars
-----------------------------------------------------------------------------
(***************************************************************************)
(* Steps that change the stored bytes.                                     *)
(***************************************************************************)

(* A free slot is taken, or a page loses its slot, which is a damage. *)
LEMMA SlotEffect ==
    ASSUME TypeOK, NEW slot \in Slot, NEW touched \in PageId,
           arena_get_next_page(slot, touched)
    PROVE  /\ lru'.bottom # NULL
           /\ \/ /\ uploaded < ArenaPages /\ slot = uploaded + 1 /\ uploaded' = uploaded + 1
                 /\ UNCHANGED <<disk, file, saved>>
              \/ /\ uploaded' = uploaded /\ "evict" \in SlotDamage /\ saved' = Unsaved
                 /\ \E v \in DOMAIN headers :
                      file' = [file EXCEPT !.pages = WritePage(file.pages, v, PageImage(mem, slot))]
<1>1. ASSUME NEW q \in LruType PROVE lru_touch_page(q, touched).bottom # NULL
  BY LruAssumption DEF lru_touch_page, NULL, PageId
<1>2. CASE uploaded < ArenaPages /\ slot = uploaded + 1 /\ uploaded' = uploaded + 1
           /\ lru' = lru_touch_page(lru, touched) /\ UNCHANGED <<disk, file, saved>>
  BY <1>1, <1>2 DEF TypeOK
<1>3. ASSUME uploaded = ArenaPages, saved' = Unsaved, UNCHANGED uploaded,
             NEW v \in DOMAIN headers, 
             lru' = lru_touch_page(least_recent_page(lru, v), touched),
             file' = [file EXCEPT !.pages = WritePage(file.pages, v, PageImage(mem, slot))]
      PROVE  /\ lru'.bottom # NULL /\ uploaded' = uploaded /\ "evict" \in SlotDamage
             /\ saved' = Unsaved
  <2>1. v \in PageId BY HeaderAt
  <2>2. least_recent_page(lru, v) \in LruType BY <2>1, LeastRecentType DEF TypeOK
  <2> QED BY <1>1, <1>3, <2>2 DEF SlotDamage
<1> QED BY <1>2, <1>3 DEF arena_get_next_page

(* A page is in memory, or is heated into a free slot, or into the one of  *)
(* another page.                                                           *)
LEMMA WarmEffect ==
    ASSUME TypeOK, NEW p \in DOMAIN headers, NEW slot \in Slot, NEW harm, Warm(p, slot, harm)
    PROVE  /\ damage \cup harm \subseteq damage'
           /\ \/ /\ headers[p].location = "INMEMORY" /\ slot = headers[p].arena_id
                 /\ UNCHANGED <<uploaded, mem, lru, disk, file, saved>>
                 /\ damage' = damage \cup harm
              \/ /\ headers[p].location = "INDISK" /\ lru'.bottom # NULL
                 /\ mem' = Upload(mem, slot, file'.pages[p])
                 /\ main.pc = "write" => "race" \in damage'
                 /\ \/ /\ slot = uploaded + 1 /\ uploaded' = uploaded + 1
                       /\ UNCHANGED <<disk, file, saved>>
                    \/ /\ uploaded' = uploaded /\ "evict" \in damage' /\ saved' = Unsaved
                       /\ \E v \in DOMAIN headers :
                            file' = [file EXCEPT !.pages =
                                        WritePage(file.pages, v, PageImage(mem, slot))]
<1>1. CASE /\ headers[p].location = "INMEMORY" /\ slot = headers[p].arena_id
           /\ damage' = damage \cup harm
           /\ UNCHANGED <<uploaded, mem, lru, disk, file, saved>>
  BY <1>1
<1>2. CASE /\ headers[p].location = "INDISK" /\ heat_page(p, slot)
           /\ damage' = damage \cup harm \cup SlotDamage
  <2>1. /\ arena_get_next_page(slot, slot) /\ mem' = Upload(mem, slot, file'.pages[p])
    BY <1>2 DEF heat_page
  <2>2. slot \in PageId BY SlotIsPage
  <2>3. main.pc = "write" => "race" \in damage' BY <1>2 DEF SlotDamage
  <2>4. /\ lru'.bottom # NULL
        /\ \/ /\ slot = uploaded + 1 /\ uploaded' = uploaded + 1
              /\ UNCHANGED <<disk, file, saved>>
           \/ /\ uploaded' = uploaded /\ "evict" \in SlotDamage /\ saved' = Unsaved
              /\ \E v \in DOMAIN headers :
                   file' = [file EXCEPT !.pages = WritePage(file.pages, v, PageImage(mem, slot))]
    BY <2>1, <2>2, SlotEffect
  <2>5. "evict" \in SlotDamage => "evict" \in damage' BY <1>2
  <2>6. damage \cup harm \subseteq damage' BY <1>2
  <2> QED BY <1>2, <2>1, <2>3, <2>4, <2>5, <2>6
<1> QED BY <1>1, <1>2 DEF Warm

(* The header of a page that operation_select has read. *)
LEMMA SelectEffect ==
    ASSUME Inv, NEW k \in Key, operation_select(k)
    PROVE  /\ status = "up" /\ worker.pc = "idle" /\ hashmap[k] # NoMeta
           /\ UNCHANGED <<status, hashmap, LSN, main, defrag, kv, quiet, ops>>
           /\ \E p \in DOMAIN headers, slot \in Slot :
                /\ p = hashmap[k].page /\ hashmap[k].id \in DOMAIN headers[p].keys
                /\ headers[p].keys[hashmap[k].id].key = k
                /\ Warm(p, slot, {})
                /\ DOMAIN headers' = DOMAIN headers
                /\ headers'[p].arena_id = slot /\ headers'[p].location = "INMEMORY"
                /\ headers'[p].keys = headers[p].keys
                /\ headers'[p].offset_bytes = headers[p].offset_bytes
                /\ headers'[p].fragmentated_bytes = headers[p].fragmentated_bytes
                /\ headers'[p].state = headers[p].state
                /\ \A q \in DOMAIN headers : q # p => headers'[q] = headers[q]
                /\ worker'.pc = "reply" /\ worker'.cmd = "SELECT" /\ worker'.key = k
                /\ worker'.code = "OK" /\ worker'.meta = hashmap[k]
                /\ worker'.addr = SlotStart(slot) + headers[p].keys[hashmap[k].id].offset
                /\ worker'.held = ~BeingMoved(p)
<1>0. TypeOK BY DEF Inv
<1>1. /\ status = "up" /\ worker.pc = "idle" /\ hashmap[k] # NoMeta
      /\ UNCHANGED <<status, hashmap, LSN, main, defrag, kv, quiet, ops>>
  BY DEF operation_select, Starts, WorkerLives
<1>2. /\ hashmap[k].page \in DOMAIN headers
      /\ hashmap[k].id \in DOMAIN headers[hashmap[k].page].keys
      /\ headers[hashmap[k].page].keys[hashmap[k].id].key = k
  BY <1>1, Found
<1>3. PICK p \in DOMAIN headers : p = hashmap[k].page BY <1>2
<1>4. PICK slot \in Slot :
        /\ Warm(p, slot, {})
        /\ headers' = [headers EXCEPT ![p] =
                [@ EXCEPT !.arena_id = slot, !.location = "INMEMORY"]]
        /\ worker' = [NoOp EXCEPT !.pc = "reply", !.cmd = "SELECT", !.key = k,
                !.code = "OK", !.meta = hashmap[k], !.expect = kv[k],
                !.addr = SlotStart(slot) + headers[p].keys[hashmap[k].id].offset,
                !.held = ~BeingMoved(p)]
  BY <1>3 DEF operation_select
<1> DEFINE h == [headers[p] EXCEPT !.arena_id = slot, !.location = "INMEMORY"]
<1>5. headers[p] \in Header BY <1>0, HeaderAt
<1>6. /\ h.arena_id = slot /\ h.location = "INMEMORY" /\ h.keys = headers[p].keys
      /\ h.offset_bytes = headers[p].offset_bytes /\ h.state = headers[p].state
      /\ h.fragmentated_bytes = headers[p].fragmentated_bytes
  BY <1>5 DEF Header
<1>7. headers' = [headers EXCEPT ![p] = h] BY <1>4
<1> HIDE DEF h
<1>8. /\ DOMAIN headers' = DOMAIN headers /\ headers'[p] = h
      /\ \A q \in DOMAIN headers : q # p => headers'[q] = headers[q]
  BY <1>0, <1>7, PageReplaced
<1>9. /\ worker'.pc = "reply" /\ worker'.cmd = "SELECT" /\ worker'.key = k
      /\ worker'.code = "OK" /\ worker'.meta = hashmap[k]
      /\ worker'.addr = SlotStart(slot) + headers[p].keys[hashmap[k].id].offset
      /\ worker'.held = ~BeingMoved(p)
  BY <1>4 DEF NoOp
<1> QED BY <1>1, <1>2, <1>3, <1>4, <1>6, <1>8, <1>9

(* The header of a page from which page_value_unset has taken a key. *)
LEMMA UnsetEffect ==
    ASSUME Inv, page_value_unset
    PROVE  /\ status = "up" /\ worker.pc = "unset" /\ Overlap
           /\ UNCHANGED <<status, LSN, main, defrag, kv, ops>>
           /\ \E p \in DOMAIN headers, id \in DOMAIN headers[worker.meta.page].keys, slot \in Slot :
                /\ p = worker.meta.page /\ id = worker.meta.id
                /\ headers[p].keys[id].key = worker.key
                /\ Warm(p, slot, IF BeingMoved(p) THEN {"race"} ELSE {})
                /\ \E size \in SizesAt(mem', SlotStart(slot) + headers[p].keys[id].offset) :
                     headers'[p].fragmentated_bytes =
                        (headers[p].fragmentated_bytes + size) % UINT16
                /\ DOMAIN headers' = DOMAIN headers
                /\ headers'[p].arena_id = slot /\ headers'[p].location = "INMEMORY"
                /\ headers'[p].keys = VectorDelete(headers[p].keys, id)
                /\ headers'[p].offset_bytes = headers[p].offset_bytes
                /\ headers'[p].state = "DIRTY"
                /\ \A q \in DOMAIN headers : q # p => headers'[q] = headers[q]
                /\ worker'.pc = "reply" /\ worker'.cmd = worker.cmd /\ worker'.key = worker.key
                /\ worker'.code = "OK" /\ worker'.meta = worker.meta
                /\ worker'.expect = worker.expect
                /\ worker'.addr = SlotStart(slot) + headers[p].keys[id].offset
<1>0. TypeOK /\ worker \in Transaction BY DEF Inv, TypeOK
<1>1. /\ status = "up" /\ worker.pc = "unset" /\ Overlap
      /\ UNCHANGED <<status, LSN, main, defrag, kv, ops>>
  BY DEF page_value_unset, WorkerLives
<1>2. /\ worker.meta.page \in DOMAIN headers
      /\ worker.meta.id \in DOMAIN headers[worker.meta.page].keys
      /\ headers[worker.meta.page].keys[worker.meta.id].key = worker.key
  BY <1>1 DEF Inv, WorkerPoints, Holds
<1>3. PICK p \in DOMAIN headers, id \in DOMAIN headers[worker.meta.page].keys :
        p = worker.meta.page /\ id = worker.meta.id
  BY <1>2
<1>4. PICK slot \in Slot :
        LET addr == SlotStart(slot) + headers[p].keys[id].offset
        IN  /\ Warm(p, slot, IF BeingMoved(p) THEN {"race"} ELSE {})
            /\ \E size \in SizesAt(mem', addr) :
                 headers' = [headers EXCEPT ![p] =
                   [headers[p] EXCEPT !.arena_id = slot, !.location = "INMEMORY",
                             !.keys = VectorDelete(headers[p].keys, id),
                             !.state = "DIRTY", !.pLSN = LSN,
                             !.fragmentated_bytes =
                                 (headers[p].fragmentated_bytes + size) % UINT16]]
            /\ worker' = [worker EXCEPT !.pc = "reply", !.code = "OK",
                                        !.addr = addr, !.held = TRUE]
  BY <1>3 DEF page_value_unset
<1> DEFINE addr == SlotStart(slot) + headers[p].keys[id].offset
           keys == VectorDelete(headers[p].keys, id)
<1>5. PICK size \in SizesAt(mem', addr) :
        headers' = [headers EXCEPT ![p] =
                   [headers[p] EXCEPT !.arena_id = slot, !.location = "INMEMORY",
                             !.keys = keys, !.state = "DIRTY", !.pLSN = LSN,
                             !.fragmentated_bytes =
                                 (headers[p].fragmentated_bytes + size) % UINT16]]
  BY <1>4
<1> DEFINE lost == (headers[p].fragmentated_bytes + size) % UINT16
           h == [headers[p] EXCEPT !.arena_id = slot, !.location = "INMEMORY",
                             !.keys = keys, !.state = "DIRTY", !.pLSN = LSN,
                             !.fragmentated_bytes = lost]
<1>6. headers[p] \in Header BY <1>0, HeaderAt
<1> HIDE DEF addr, keys, lost
<1>7. /\ h.arena_id = slot /\ h.location = "INMEMORY" /\ h.keys = keys
      /\ h.offset_bytes = headers[p].offset_bytes /\ h.state = "DIRTY"
      /\ h.fragmentated_bytes = lost
  BY <1>6 DEF Header
<1>8. headers' = [headers EXCEPT ![p] = h] BY <1>5 DEF lost
<1> HIDE DEF h
<1>9. /\ DOMAIN headers' = DOMAIN headers /\ headers'[p] = h
      /\ \A q \in DOMAIN headers : q # p => headers'[q] = headers[q]
  BY <1>0, <1>8, PageReplaced
<1>10. /\ worker'.pc = "reply" /\ worker'.cmd = worker.cmd /\ worker'.key = worker.key
       /\ worker'.code = "OK" /\ worker'.meta = worker.meta
       /\ worker'.expect = worker.expect
       /\ worker'.addr = addr
  <2>1. worker' = [worker EXCEPT !.pc = "reply", !.code = "OK", !.addr = addr, !.held = TRUE]
    BY <1>4 DEF addr
  <2> QED BY <1>0, <2>1 DEF Transaction
<1>11. Warm(p, slot, IF BeingMoved(p) THEN {"race"} ELSE {}) BY <1>4
<1>12. headers[p].keys[id].key = worker.key BY <1>2, <1>3
<1>13. \E n \in SizesAt(mem', SlotStart(slot) + headers[p].keys[id].offset) :
         headers'[p].fragmentated_bytes = (headers[p].fragmentated_bytes + n) % UINT16
  BY <1>5, <1>7, <1>9 DEF addr, lost
<1>14. /\ DOMAIN headers' = DOMAIN headers
       /\ headers'[p].arena_id = slot /\ headers'[p].location = "INMEMORY"
       /\ headers'[p].keys = VectorDelete(headers[p].keys, id)
       /\ headers'[p].offset_bytes = headers[p].offset_bytes
       /\ headers'[p].state = "DIRTY"
       /\ \A q \in DOMAIN headers : q # p => headers'[q] = headers[q]
  BY <1>7, <1>9 DEF keys
<1>15. worker'.addr = SlotStart(slot) + headers[p].keys[id].offset BY <1>10 DEF addr
<1> HIDE DEF addr, keys, lost, h
<1> QED BY <1>1, <1>3, <1>10, <1>11, <1>12, <1>13, <1>14, <1>15

(* The header of the page that page_value_set has put a key into. *)
LEMMA SetEffect ==
    ASSUME TypeOK, NEW p, NEW h \in Header, NEW k \in Key, NEW v \in Value,
           p \in DOMAIN headers \/ p = Len(headers) + 1,
           page_value_set(p, h, k, v)
    PROVE  /\ DOMAIN headers' = DOMAIN headers \cup {p}
           /\ headers'[p].arena_id = h.arena_id /\ headers'[p].location = "INMEMORY"
           /\ headers'[p].keys = Append(h.keys, [key |-> k, offset |-> h.offset_bytes])
           /\ headers'[p].offset_bytes = (h.offset_bytes + RecordBytes(Size[v])) % UINT16
           /\ headers'[p].fragmentated_bytes = h.fragmentated_bytes
           /\ headers'[p].state = h.state
           /\ \A q \in DOMAIN headers : q # p => headers'[q] = headers[q]
           /\ worker'.pc = "set" /\ worker'.key = k /\ worker'.val = v
           /\ Overlap
<1> DEFINE g == [h EXCEPT !.location = "INMEMORY",
                      !.keys = Append(h.keys, [key |-> k, offset |-> h.offset_bytes]),
                      !.offset_bytes = (h.offset_bytes + RecordBytes(Size[v])) % UINT16]
           n == MaxOf(p, Len(headers))
<1>1. /\ headers' = [q \in 1 .. n |-> IF q # p THEN headers[q] ELSE g]
      /\ mem' = Store(mem, AddrOf(h, h.offset_bytes), v)
      /\ worker' = [NoOp EXCEPT !.pc = "set", !.cmd = "INSERT", !.key = k, !.val = v,
                                !.meta = [page |-> p, id |-> Len(h.keys) + 1]]
      /\ Overlap
  BY DEF page_value_set
<1>2. /\ g.arena_id = h.arena_id /\ g.location = "INMEMORY"
      /\ g.keys = Append(h.keys, [key |-> k, offset |-> h.offset_bytes])
      /\ g.offset_bytes = (h.offset_bytes + RecordBytes(Size[v])) % UINT16
      /\ g.fragmentated_bytes = h.fragmentated_bytes /\ g.state = h.state
  BY DEF Header
<1>3. Len(headers) \in Nat /\ DOMAIN headers = 1 .. Len(headers) BY DEF TypeOK
<1>4. 1 .. n = DOMAIN headers \cup {p} /\ p \in 1 .. n BY <1>3 DEF MaxOf
<1> HIDE DEF g, n
<1>5. DOMAIN headers' = DOMAIN headers \cup {p} /\ headers'[p] = g
      /\ \A q \in DOMAIN headers : q # p => headers'[q] = headers[q]
  BY <1>1, <1>4
<1>6. worker'.pc = "set" /\ worker'.key = k /\ worker'.val = v BY <1>1 DEF NoOp
<1> QED BY <1>1, <1>2, <1>5, <1>6
-----------------------------------------------------------------------------
(***************************************************************************)
(* The steps of the engine, by what they do to the stored bytes.           *)
(***************************************************************************)

(* The process ends; of the files, disk_dump_keys may leave the key file   *)
(* garbled.                                                                *)
Ends ==
    /\ status = "up" /\ status' # "up" /\ Nothing /\ UNCHANGED history
    /\ file'.pages = file.pages /\ file'.headers = file.headers
    /\ file'.state = file.state \/ file'.state = "garbled"

(* page_value_set in any of its three uses. *)
SetStep(p, h, k, v) ==
    /\ h \in Header /\ page_value_set(p, h, k, v)
    /\ status = "up" /\ worker.pc \in {"idle", "defragmented"} /\ hashmap[k] = NoMeta
    /\ damage \cup SetDamage(p, h, v) \subseteq damage'
    /\ \/ /\ p \in DOMAIN headers /\ h = headers[p]
          /\ UNCHANGED <<uploaded, lru, disk, file, saved>>
       \/ /\ p = Len(headers) + 1 /\ p \in PageId /\ SlotDamage \subseteq damage'
          /\ \E slot \in Slot : h = NewHeader(slot) /\ arena_get_next_page(slot, p)
    /\ UNCHANGED <<status, hashmap, main, kv>>
    /\ defrag'["main"] = defrag["main"]

Step ==
    \/ Ends
    \/ Answers \/ Walks \/ insert_key \/ BeginDump \/ EndDump
    \/ DumpHeader \/ (DumpKeys /\ status' = "up") \/ EndKeys
    \/ db_start_fails \/ UNCHANGED vars
    \/ \E k \in Key : operation_delete(k) \/ \E v \in Value : insert_defragmentates(k, v)
    \/ (\E k \in Key : operation_select(k)) \/ page_value_unset
    \/ \E p, h : \E k \in Key, v \in Value : SetStep(p, h, k, v)
    \/ \E t \in Thread : DefragBlock(t) \/ (DefragDone(t) /\ status' = "up")
    \/ WriteDirtyPage \/ db_start

(* An insertion that the worker begins. *)
LEMMA InsertCases ==
    ASSUME Inv, NEW k \in Key, NEW v \in Value,
           insert_into_page(k, v) \/ insert_into_new_page(k, v)
    PROVE  \E p, h : SetStep(p, h, k, v)
<1>0. TypeOK BY DEF Inv
<1>1. CASE insert_into_page(k, v)
  <2>1. /\ status = "up" /\ worker.pc = "idle" /\ hashmap[k] = NoMeta
        /\ UNCHANGED <<status, uploaded, lru, hashmap, disk, file, main, defrag, kv, saved>>
    BY <1>1 DEF insert_into_page, LoggedInsert, Starts, WorkerLives
  <2>2. PICK p \in DOMAIN headers :
          /\ page_value_set(p, headers[p], k, v)
          /\ damage' = damage \cup SetDamage(p, headers[p], v)
    BY <1>1 DEF insert_into_page
  <2>3. headers[p] \in Header BY <1>0, HeaderAt
  <2>4. SetStep(p, headers[p], k, v) BY <2>1, <2>2, <2>3 DEF SetStep
  <2> QED BY <2>4
<1>2. CASE insert_into_new_page(k, v)
  <2> DEFINE p == Len(headers) + 1
  <2>1. /\ status = "up" /\ worker.pc = "idle" /\ hashmap[k] = NoMeta
        /\ Len(headers) < MaxPages /\ UNCHANGED <<status, hashmap, main, defrag, kv>>
    BY <1>2 DEF insert_into_new_page, LoggedInsert, Starts, WorkerLives
  <2>2. PICK slot \in Slot :
          /\ arena_get_next_page(slot, p)
          /\ page_value_set(p, NewHeader(slot), k, v)
          /\ damage' = damage \cup SlotDamage \cup SetDamage(p, NewHeader(slot), v)
    BY <1>2 DEF insert_into_new_page
  <2>3. NewHeader(slot) \in Header BY DEF NewHeader, Header
  <2>4. p \in PageId BY <1>0, <2>1, LruAssumption DEF TypeOK, PageId
  <2>5. SetStep(p, NewHeader(slot), k, v) BY <2>1, <2>2, <2>3, <2>4 DEF SetStep
  <2> QED BY <2>5
<1> QED BY <1>1, <1>2

(* The rest of an insertion after a defragmentation. *)
LEMMA AfterDefragCases ==
    ASSUME Inv, insert_after_defrag
    PROVE  Ends \/ \E p, h : \E k \in Key, v \in Value : SetStep(p, h, k, v)
<1>0. TypeOK BY DEF Inv
<1>1. status = "up" /\ worker.pc = "defragmented" BY DEF insert_after_defrag, WorkerLives
<1>2. /\ defrag["worker"].page \in DOMAIN headers /\ worker.key \in Key /\ worker.val \in Value
      /\ hashmap[worker.key] = NoMeta
  BY <1>1 DEF Inv, WorkerInserts
<1>3. PICK p \in DOMAIN headers : p = defrag["worker"].page BY <1>2
<1>4. CASE Die("SIGABRT") /\ UNCHANGED file BY <1>1, <1>4 DEF Die, Ends
<1>5. CASE /\ page_value_set(p, headers[p], worker.key, worker.val)
           /\ damage' = damage \cup SetDamage(p, headers[p], worker.val)
           /\ defrag' = [defrag EXCEPT !["worker"] = NoDefrag]
           /\ UNCHANGED <<status, uploaded, lru, hashmap, LSN, disk, file, main, kv, saved, ops>>
  <2>1. headers[p] \in Header BY <1>0, HeaderAt
  <2>2. defrag'["main"] = defrag["main"] BY <1>0, <1>5, Threads DEF TypeOK
  <2>3. SetStep(p, headers[p], worker.key, worker.val) BY <1>1, <1>2, <1>5, <2>1, <2>2 DEF SetStep
  <2> QED BY <1>2, <2>3
<1> QED BY <1>3, <1>4, <1>5 DEF insert_after_defrag

(* Every step is of one of these kinds. *)
LEMMA StepCases == ASSUME Inv, [Next]_vars PROVE Step
<1>0. file \in File /\ disk \in [lsn : Nat, keys_dumped : Nat, pos : Nat] BY DEF Inv, TypeOK
<1>1. CASE Operation
  <2>1. PICK k \in Key :
          \/ operation_peek(k) \/ operation_select_missing(k) \/ operation_select(k)
          \/ operation_delete_missing(k) \/ operation_delete(k) \/ operation_update(k)
          \/ \E v \in Value :
              \/ operation_insert_refused(k, v) \/ insert_into_page(k, v)
              \/ insert_divides_by_zero(k, v) \/ insert_into_new_page(k, v)
              \/ insert_defragmentates(k, v)
    BY <1>1 DEF Operation
  <2>2. CASE operation_peek(k) \/ operation_select_missing(k) \/ operation_delete_missing(k)
    BY <2>2 DEF Step, Answers
  <2>3. CASE operation_select(k) \/ operation_delete(k) BY <2>3 DEF Step
  <2>4. CASE operation_update(k)
    BY <2>4 DEF operation_update, Starts, WorkerLives, Die, Ends, Step
  <2>5. ASSUME NEW v \in Value, operation_insert_refused(k, v) PROVE Step
    BY <2>5 DEF Step, Answers
  <2>6. ASSUME NEW v \in Value, insert_into_page(k, v) \/ insert_into_new_page(k, v) PROVE Step
    BY <2>6, InsertCases DEF Step
  <2>7. ASSUME NEW v \in Value, insert_divides_by_zero(k, v) PROVE Step
    BY <2>7 DEF insert_divides_by_zero, Starts, WorkerLives, Die, Ends, Step
  <2>8. ASSUME NEW v \in Value, insert_defragmentates(k, v) PROVE Step
    BY <2>8 DEF Step
  <2> QED BY <2>1, <2>2, <2>3, <2>4, <2>5, <2>6, <2>7, <2>8
<1>2. CASE \E t \in Thread : DefragBlock(t) \/ DefragDone(t)
  <2>1. PICK t \in Thread : DefragBlock(t) \/ DefragDone(t) BY <1>2
  <2>2. CASE DefragBlock(t) BY <2>2 DEF Step
  <2>3. CASE DefragDone(t)
    <3>1. status = "up" BY <2>3, DefragOnPage DEF DefragDone
    <3>2. CASE Die("SIGSEGV") /\ UNCHANGED file BY <3>1, <3>2 DEF Die, Ends, Step
    <3>3. CASE UNCHANGED status BY <2>3, <3>1, <3>3 DEF Step
    <3> QED BY <2>3, <3>2, <3>3 DEF DefragDone
  <2> QED BY <2>1, <2>2, <2>3
<1>3. CASE WorkerStep
  <2>1. CASE request_reply BY <2>1 DEF Step, Answers
  <2>2. CASE insert_after_defrag BY <2>2, AfterDefragCases DEF Step
  <2>3. CASE page_value_unset \/ insert_key BY <2>3 DEF Step
  <2> QED BY <1>2, <1>3, <2>1, <2>2, <2>3, Threads DEF WorkerStep
<1>4. CASE MainStep
  <2>1. CASE destroy_disk
    <3>1. status = "up" /\ Die("exit")
          /\ file' = [file EXCEPT !.nkeys = disk.keys_dumped, !.lsn = disk.lsn]
      BY <2>1 DEF destroy_disk, MainLives
    <3>2. file'.pages = file.pages /\ file'.headers = file.headers /\ file'.state = file.state
      BY <1>0, <3>1 DEF File
    <3> QED BY <3>1, <3>2 DEF Die, Ends, Step
  <2>2. CASE DumpKeys
    <3>1. status = "up" BY <2>2 DEF DumpKeys, MainLives
    <3>2. CASE file' = [file EXCEPT !.state = "garbled"] /\ Die("SIGSEGV")
      <4>1. file'.pages = file.pages /\ file'.headers = file.headers /\ file'.state = "garbled"
        BY <1>0, <3>2 DEF File
      <4> QED BY <3>1, <3>2, <4>1 DEF Die, Ends, Step
    <3>3. CASE status' = status BY <2>2, <3>1, <3>3 DEF Step
    <3> QED BY <2>2, <3>2, <3>3 DEF DumpKeys
  <2>3. CASE SkipPage \/ SeekPage \/ BeginKeys BY <2>3 DEF Walks, Step
  <2>4. CASE BeginDump \/ EndDump \/ DumpHeader \/ EndKeys \/ WriteDirtyPage
    BY <2>4 DEF Step
  <2> QED BY <1>2, <1>4, <2>1, <2>2, <2>3, <2>4, Threads DEF MainStep
<1>5. CASE Signal BY <1>5 DEF Signal, Walks, Step
<1>6. CASE Crash BY <1>6 DEF Crash, Die, Ends, Step
<1>7. CASE db_start \/ db_start_fails \/ UNCHANGED vars BY <1>7 DEF Step
<1> QED BY <1>1, <1>3, <1>4, <1>5, <1>6, <1>7 DEF Next
-----------------------------------------------------------------------------
(***************************************************************************)
(* Reads are determined.                                                   *)
(***************************************************************************)

(* A page of the file after a write. *)
LEMMA WritePageAt ==
    ASSUME NEW pages \in Seq(Memory), NEW pos \in Nat, NEW image
    PROVE  /\ \A q \in DOMAIN WritePage(pages, pos, image) :
                 \/ q = pos /\ WritePage(pages, pos, image)[q] = image
                 \/ q \in DOMAIN pages /\ WritePage(pages, pos, image)[q] = pages[q]
                 \/ WritePage(pages, pos, image)[q] = {}
           /\ \A q \in DOMAIN pages :
                 /\ q \in DOMAIN WritePage(pages, pos, image)
                 /\ q # pos => WritePage(pages, pos, image)[q] = pages[q]
           /\ pos # 0 => /\ pos \in DOMAIN WritePage(pages, pos, image)
                         /\ WritePage(pages, pos, image)[pos] = image
<1> DEFINE n == MaxOf(pos, Len(pages))
           w == WritePage(pages, pos, image)
<1>1. n \in Nat /\ Len(pages) <= n /\ pos <= n BY DEF MaxOf
<1>2. w = [p \in 1 .. n |-> IF p = pos THEN image ELSE IF p <= Len(pages) THEN pages[p] ELSE {}]
  BY DEF WritePage, n
<1> HIDE DEF n, w
<1>3. DOMAIN w = 1 .. n /\ DOMAIN pages = 1 .. Len(pages) /\ Len(pages) \in Nat BY <1>2
<1>4. ASSUME NEW q \in 1 .. n
      PROVE  /\ q = pos => w[q] = image
             /\ q # pos /\ q <= Len(pages) => w[q] = pages[q] /\ q \in DOMAIN pages
             /\ q # pos /\ ~(q <= Len(pages)) => w[q] = {}
  BY <1>2, <1>3
<1>5. \A q \in DOMAIN pages : q \in 1 .. n /\ q <= Len(pages) BY <1>1, <1>3
<1>6. pos # 0 => pos \in 1 .. n BY <1>1
<1> QED BY <1>3, <1>4, <1>5, <1>6 DEF w

(* A page is written over one that is determined, too. *)
LEMMA WriteOnce ==
    ASSUME Inv, BytesOnce, NEW pos \in Nat, NEW slot \in Slot, mem' = mem,
           file'.pages = WritePage(file.pages, pos, PageImage(mem, slot))
    PROVE  BytesOnce'
<1> DEFINE image == PageImage(mem, slot)
<1>1. mem \in Memory /\ file \in File BY DEF Inv, TypeOK
<1>2. file.pages \in Seq(Memory) BY <1>1, FileFields
<1>3. Unique(image) /\ InPage(image) BY <1>1, ImageInPage DEF BytesOnce
<1>4. Unique({}) /\ InPage({}) BY DEF Unique, InPage
<1> HIDE DEF image
<1>5. ASSUME NEW q \in DOMAIN file'.pages
      PROVE  Unique(file'.pages[q]) /\ InPage(file'.pages[q])
  <2>1. \/ file'.pages[q] = image
        \/ q \in DOMAIN file.pages /\ file'.pages[q] = file.pages[q]
        \/ file'.pages[q] = {}
    BY <1>2, WritePageAt DEF image
  <2> QED BY <1>3, <1>4, <2>1 DEF BytesOnce
<1> QED BY <1>5 DEF BytesOnce

(* The file after a slot was taken. *)
LEMMA SlotOnce ==
    ASSUME Inv, BytesOnce, NEW slot \in Slot,
           \/ file' = file
           \/ \E v \in DOMAIN headers :
                file' = [file EXCEPT !.pages = WritePage(file.pages, v, PageImage(mem, slot))]
    PROVE  \A q \in DOMAIN file'.pages : Unique(file'.pages[q]) /\ InPage(file'.pages[q])
<1>1. CASE file' = file BY <1>1 DEF BytesOnce
<1>2. ASSUME NEW v \in DOMAIN headers,
             file' = [file EXCEPT !.pages = WritePage(file.pages, v, PageImage(mem, slot))]
      PROVE  \A q \in DOMAIN file'.pages : Unique(file'.pages[q]) /\ InPage(file'.pages[q])
  <2> DEFINE image == PageImage(mem, slot)
             w == WritePage(file.pages, v, image)
  <2>1. mem \in Memory /\ file \in File /\ v \in Nat BY KeyAt, HeaderAt DEF Inv, TypeOK
  <2>2. file.pages \in Seq(Memory) BY <2>1, FileFields
  <2>3. Unique(image) /\ InPage(image) BY <2>1, ImageInPage DEF BytesOnce
  <2>4. Unique({}) /\ InPage({}) BY DEF Unique, InPage
  <2> HIDE DEF image
  <2>5. \A q \in DOMAIN w : \/ w[q] = image
                            \/ q \in DOMAIN file.pages /\ w[q] = file.pages[q]
                            \/ w[q] = {}
    BY <2>1, <2>2, WritePageAt
  <2> HIDE DEF w
  <2>6. file'.pages = w BY <1>2, <2>1 DEF w, image, File
  <2> QED BY <2>3, <2>4, <2>5, <2>6 DEF BytesOnce
<1> QED BY <1>1, <1>2

(* Heating reads a page of the file that is determined. *)
LEMMA WarmOnce ==
    ASSUME Inv, BytesOnce, NEW p \in DOMAIN headers, NEW slot \in Slot,
           NEW harm, Warm(p, slot, harm), file' \in File
    PROVE  BytesOnce'
<1>0. TypeOK /\ mem \in Memory BY DEF Inv, TypeOK
<1>1. CASE mem' = mem /\ file' = file BY <1>1 DEF BytesOnce
<1>2. CASE heat_page(p, slot) /\ headers[p].location = "INDISK"
  <2>1. arena_get_next_page(slot, slot) /\ mem' = Upload(mem, slot, file'.pages[p])
    BY <1>2 DEF heat_page
  <2>2. /\ FileGrows
        /\ \A q \in DOMAIN file'.pages : Unique(file'.pages[q]) /\ InPage(file'.pages[q])
    <3>1. slot \in PageId BY SlotIsPage
    <3>2. FileGrows BY <1>0, <2>1, <3>1, SlotTaken
    <3> QED BY <1>0, <2>1, <3>1, <3>2, SlotEffect, SlotOnce
  <2>3. p \in DOMAIN file'.pages BY <1>2, <2>2 DEF Inv, ColdPagesInFile, FileGrows
  <2>4. file'.pages[p] \in Memory
    <3>1. file'.pages \in Seq(Memory) BY FileFields
    <3> QED BY <2>3, <3>1
  <2>5. Unique(mem') BY <1>0, <2>1, <2>2, <2>3, <2>4, UploadUnique DEF BytesOnce
  <2> QED BY <2>2, <2>5 DEF BytesOnce
<1> QED BY <1>1, <1>2 DEF Warm

(* No step makes a read ambiguous. *)
LEMMA OnceStep == ASSUME Inv, Inv', BytesOnce, [Next]_vars PROVE BytesOnce'
<1>0. TypeOK /\ mem \in Memory /\ file \in File BY DEF Inv, TypeOK
<1>1. file' \in File BY DEF Inv, TypeOK
<1>2. CASE Ends BY <1>2 DEF Ends, Nothing, BytesOnce, Unique
<1>3. CASE StoredAlike BY <1>3 DEF StoredAlike, BytesOnce
<1>4. ASSUME NEW k \in Key, operation_select(k) PROVE BytesOnce'
  BY <1>1, <1>4, SelectEffect, WarmOnce
<1>5. CASE page_value_unset
  BY <1>1, <1>5, UnsetEffect, WarmOnce
<1>6. ASSUME NEW p, NEW h, NEW k \in Key, NEW v \in Value, SetStep(p, h, k, v) PROVE BytesOnce'
  <2>1. mem' = Store(mem, AddrOf(h, h.offset_bytes), v) BY <1>6 DEF SetStep, page_value_set
  <2>2. AddrOf(h, h.offset_bytes) \in Nat BY <1>6, AddrOfType, HeaderFields DEF SetStep
  <2>3. Unique(mem') BY <1>0, <2>1, <2>2, StoreUnique DEF BytesOnce
  <2>4. CASE file' = file BY <2>3, <2>4 DEF BytesOnce
  <2>5. ASSUME NEW slot \in Slot, arena_get_next_page(slot, p), p \in PageId PROVE BytesOnce'
    BY <1>0, <2>3, <2>5, SlotEffect, SlotOnce DEF BytesOnce
  <2> QED BY <1>6, <2>4, <2>5 DEF SetStep
<1>7. ASSUME NEW t \in Thread, DefragBlock(t) PROVE BytesOnce'
  <2>1. defrag[t].page \in DOMAIN headers /\ defrag[t].offset \in Nat /\ defrag[t].block # 0
    BY <1>0, <1>7, DefragOnPage, DefragFields DEF DefragBlock
  <2>2. PICK p \in DOMAIN headers : p = defrag[t].page BY <2>1
  <2> DEFINE h == headers[p]
             from == AddrOf(h, h.keys[defrag[t].block].offset)
             to == AddrOf(h, defrag[t].offset)
  <2>3. PICK size \in SizesAt(mem, from) : mem' = Move(mem, from, to, size)
    BY <1>7, <2>2 DEF DefragBlock
  <2>4. to \in Nat BY <1>0, <2>1, HeaderAt, AddrOfType
  <2> HIDE DEF from, to
  <2>5. Unique(mem')
    <3>1. CASE ReadAt(mem, from) \in Value
      BY <1>0, <2>3, <2>4, <3>1, StoreUnique DEF Move, BytesOnce
    <3>2. CASE ReadAt(mem, from) \notin Value
      BY <2>3, <3>2, ClobberUnique DEF Move, BytesOnce
    <3> QED BY <3>1, <3>2
  <2>6. file' = file BY <1>7 DEF DefragBlock
  <2> QED BY <2>5, <2>6 DEF BytesOnce
<1>8. ASSUME NEW t \in Thread, DefragDone(t), status' = "up" PROVE BytesOnce'
  <2>1. ~Die("SIGSEGV") BY <1>8 DEF Die
  <2>2. PICK a, n : mem' = Clobber(mem, a, n) BY <1>8, <2>1 DEF DefragDone
  <2>3. file' = file BY <1>8, <2>1 DEF DefragDone
  <2> QED BY <2>2, <2>3, ClobberUnique DEF BytesOnce
<1>9. CASE WriteDirtyPage
  <2>1. /\ main.pc = "write" /\ mem' = mem
        /\ file' = [file EXCEPT !.pages = WritePage(file.pages, disk.pos,
                        PageImage(mem, headers[main.page].arena_id))]
    BY <1>9 DEF WriteDirtyPage, arenaVars
  <2>2. disk.pos \in Nat BY <1>0 DEF TypeOK
  <2>3. headers[main.page].arena_id \in Slot
    <3>1. main.page \in DOMAIN headers BY <2>1 DEF Inv, MainOnPage
    <3> QED BY <1>0, <3>1, HeaderAt, HeaderFields
  <2>4. file'.pages = WritePage(file.pages, disk.pos, PageImage(mem, headers[main.page].arena_id))
    BY <1>0, <2>1 DEF File
  <2> QED BY <2>1, <2>2, <2>3, <2>4, WriteOnce
<1>10. CASE db_start BY <1>10 DEF db_start, BytesOnce
<1>11. ASSUME NEW k \in Key, NEW v \in Value, insert_defragmentates(k, v) PROVE BytesOnce'
  BY <1>11 DEF insert_defragmentates, BytesOnce
<1> QED
  BY <1>2, <1>3, <1>4, <1>5, <1>6, <1>7, <1>8, <1>9, <1>10, <1>11, StepCases,
     AnswersAlike, DeleteAlike, InsertKeyAlike, WalksAlike, BeginDumpAlike, EndDumpAlike,
     KeysAlike, NoStepAlike
  DEF Step
-----------------------------------------------------------------------------
(***************************************************************************)
(* Keys without a value.                                                   *)
(***************************************************************************)

(* Steps that change neither the hash map nor what it should mean. *)
LEMMA IndexedSame ==
    ASSUME OnlyIndexed, UNCHANGED <<hashmap, kv>>, status = "up" \/ status' # "up"
    PROVE  OnlyIndexed'
BY DEF OnlyIndexed

(* A key gets its value when it gets into the hash map. *)
LEMMA IndexedStep == ASSUME Inv, Inv', OnlyIndexed, [Next]_vars PROVE OnlyIndexed'
<1>0. TypeOK /\ hashmap \in [Key -> Meta] /\ kv \in Contents BY DEF Inv, TypeOK
<1>1. CASE Ends BY <1>1 DEF Ends, OnlyIndexed
<1>2. CASE \/ Answers \/ Walks \/ BeginDump \/ EndDump
           \/ DumpHeader \/ (DumpKeys /\ status' = "up") \/ EndKeys
  <2>1. UNCHANGED <<status, hashmap, kv>>
    BY <1>2, AnswersAlike, WalksAlike, BeginDumpAlike, EndDumpAlike, KeysAlike
  <2> QED BY <2>1, IndexedSame
<1>3. CASE db_start_fails \/ UNCHANGED vars BY <1>3, NoStepAlike, IndexedSame
<1>4. ASSUME NEW k \in Key, operation_delete(k) PROVE OnlyIndexed'
  <2>1. status' = status /\ hashmap' = [hashmap EXCEPT ![k] = NoMeta] /\ kv' = [kv EXCEPT ![k] = None]
    BY <1>4 DEF operation_delete
  <2> QED BY <1>0, <2>1 DEF OnlyIndexed, Contents
<1>5. CASE insert_key
  <2>1. /\ status' = status /\ hashmap' = [hashmap EXCEPT ![worker.key] = worker.meta]
        /\ kv' = [kv EXCEPT ![worker.key] = worker.val] /\ worker.pc = "set"
    BY <1>5 DEF insert_key
  <2>2. worker.meta # NoMeta
    <3>1. worker.meta.page \in DOMAIN headers BY <2>1 DEF Inv, WorkerPoints, Holds
    <3>2. worker.meta.page # 0 BY <1>0, <3>1, HeaderAt DEF TypeOK
    <3> QED BY <3>2 DEF NoMeta
  <2> QED BY <1>0, <2>1, <2>2 DEF OnlyIndexed, Contents
<1>6. CASE page_value_unset
  <2>1. PICK keys, id : hashmap' = Recount(keys, id) BY <1>6 DEF page_value_unset
  <2>2. kv' = kv /\ status' = status BY <1>6 DEF page_value_unset
  <2>3. ASSUME NEW k \in Key, hashmap[k] # NoMeta PROVE hashmap'[k] # NoMeta
    <3>1. hashmap[k].page \in DOMAIN headers BY <2>3, Found
    <3>2. hashmap[k].page # 0 BY <1>0, <3>1, HeaderAt DEF TypeOK
    <3>3. hashmap[k] \in Meta BY <1>0
    <3>4. hashmap'[k].page = hashmap[k].page BY <2>1, <3>3 DEF Recount, Meta
    <3> QED BY <3>2, <3>4 DEF NoMeta
  <2> QED BY <2>2, <2>3 DEF OnlyIndexed
<1>7. ASSUME NEW k \in Key, operation_select(k) PROVE OnlyIndexed'
  BY <1>7, SelectEffect, IndexedSame
<1>8. ASSUME NEW p, NEW h, NEW k \in Key, NEW v \in Value, SetStep(p, h, k, v) PROVE OnlyIndexed'
  BY <1>8, IndexedSame DEF SetStep
<1>9. ASSUME NEW t \in Thread, DefragBlock(t) PROVE OnlyIndexed'
  <2>1. status = "up" BY <1>9, DefragOnPage DEF DefragBlock
  <2> QED BY <1>9, <2>1, IndexedSame, ZenonT(60) DEF DefragBlock
<1>10. ASSUME NEW t \in Thread, DefragDone(t), status' = "up" PROVE OnlyIndexed'
  <2>1. status = "up" BY <1>10, DefragOnPage DEF DefragDone
  <2>2. ~Die("SIGSEGV") BY <1>10 DEF Die
  <2>3. UNCHANGED <<hashmap, kv>> BY <1>10, <2>2 DEF DefragDone, history
  <2> QED BY <2>1, <2>3, IndexedSame
<1>11. CASE WriteDirtyPage BY <1>11, IndexedSame DEF WriteDirtyPage, MainLives
<1>12. CASE db_start
  <2>1. /\ hashmap' = [k \in Key |-> IF k \in LoadedKeys THEN LoadedMeta(k) ELSE NoMeta]
        /\ kv' = [k \in Key |-> Decoded(k)]
    BY <1>12 DEF db_start
  <2>2. ASSUME NEW k \in LoadedKeys PROVE LoadedMeta(k) # NoMeta
    BY LoadedMetaFound, FileHeader, NotNoMeta
  <2>3. ASSUME NEW k \in Key, k \notin LoadedKeys PROVE Decoded(k) = None
    BY <2>3 DEF Decoded
  <2> QED BY <2>1, <2>2, <2>3 DEF OnlyIndexed
<1>13. ASSUME NEW k \in Key, NEW v \in Value, insert_defragmentates(k, v) PROVE OnlyIndexed'
  BY <1>13, IndexedSame DEF insert_defragmentates, LoggedInsert, Starts, WorkerLives
<1> QED BY <1>1, <1>2, <1>3, <1>4, <1>5, <1>6, <1>7, <1>8, <1>9, <1>10, <1>11, <1>12, <1>13,
           StepCases DEF Step
-----------------------------------------------------------------------------
(***************************************************************************)
(* What a key's value is while an operation has it in hand.                *)
(***************************************************************************)
LEMMA KeptType == ASSUME Inv PROVE Kept \in Contents
<1>1. kv \in Contents /\ worker \in Transaction BY DEF Inv, TypeOK
<1>2. worker.pc = "set" => worker.val \in Content BY DEF Inv, WorkerInserts, Content
<1>3. worker.expect \in Content BY <1>1 DEF Transaction
<1> QED BY <1>1, <1>2, <1>3 DEF Kept, Contents

(* Between the page and the hash map it is not the one in kv. *)
LEMMA KeptIdle ==
    ASSUME Inv, worker.pc \notin {"set", "unset"}
    PROVE  Kept = kv
<1>1. kv \in Contents BY DEF Inv, TypeOK
<1>2. Kept = [k \in Key |-> kv[k]] BY DEF Kept
<1> QED BY <1>1, <1>2 DEF Contents

(* A key that is neither in the hash map nor in hand stands in no page, *)
LEMMA NotInPage ==
    ASSUME Inv, NEW k \in Key, hashmap[k] = NoMeta, worker.pc \notin {"set", "unset"},
           NEW p \in DOMAIN headers, NEW i \in DOMAIN headers[p].keys
    PROVE  headers[p].keys[i].key # k
<1>1. hashmap[headers[p].keys[i].key] = [page |-> p, id |-> i]
  BY DEF Inv, IndexConsistent, InFlight
<1>2. [page |-> p, id |-> i] # NoMeta BY KeyAt, NotNoMeta DEF Inv
<1> QED BY <1>1, <1>2

(* and one in hand only at its place. *)
LEMMA OnlyInHand ==
    ASSUME Inv, worker.pc \in {"set", "unset"},
           NEW p \in DOMAIN headers, NEW i \in DOMAIN headers[p].keys,
           headers[p].keys[i].key = worker.key
    PROVE  p = worker.meta.page /\ i = worker.meta.id
<1>1. hashmap[worker.key] = NoMeta BY DEF Inv, WorkerPoints
<1>2. [page |-> p, id |-> i] # NoMeta BY KeyAt, NotNoMeta DEF Inv
<1>3. worker.meta = [page |-> p, id |-> i]
  BY <1>1, <1>2 DEF Inv, IndexConsistent, InFlight
<1> QED BY <1>3

(* operation_delete and insert_key move a value between kv and the hand. *)
LEMMA KeptMoves ==
    ASSUME Inv, Inv', insert_key \/ \E k \in Key : operation_delete(k)
    PROVE  Kept' = Kept /\ worker'.pc \in {"reply", "unset"}
<1>0. kv \in Contents BY DEF Inv, TypeOK
<1>1. CASE insert_key
  <2>1. /\ worker.pc = "set" /\ kv' = [kv EXCEPT ![worker.key] = worker.val]
        /\ worker'.pc = "reply"
    BY <1>1 DEF insert_key, NoOp
  <2>2. Kept' = kv'
    <3>1. kv' \in Contents BY DEF Inv, TypeOK
    <3> QED BY <2>1, <3>1 DEF Kept, Contents
  <2>3. Kept = kv' BY <1>0, <2>1 DEF Kept, Contents
  <2> QED BY <2>1, <2>2, <2>3
<1>2. ASSUME NEW k \in Key, operation_delete(k) PROVE Kept' = Kept /\ worker'.pc = "unset"
  <2>1. /\ worker.pc = "idle" /\ kv' = [kv EXCEPT ![k] = None] /\ worker'.pc = "unset"
        /\ worker'.key = k /\ worker'.expect = kv[k]
    BY <1>2 DEF operation_delete, NoOp, Starts
  <2>2. Kept = kv BY <2>1, KeptIdle
  <2>3. Kept' = kv BY <1>0, <2>1 DEF Kept, Contents
  <2> QED BY <2>1, <2>2, <2>3
<1> QED BY <1>1, <1>2

(* A step that leaves the hands of the worker empty changes no value. *)
LEMMA KeptStays ==
    ASSUME Inv, Inv', kv' = kv, 
           \/ worker' = worker
           \/ worker.pc \notin {"set", "unset"} /\ worker'.pc \notin {"set", "unset"}
           \/ /\ worker'.pc = worker.pc /\ worker'.key = worker.key
              /\ worker'.val = worker.val /\ worker'.expect = worker.expect
    PROVE  Kept' = Kept
<1>1. CASE worker.pc \notin {"set", "unset"} /\ worker'.pc \notin {"set", "unset"}
  <2>1. Kept = kv BY <1>1, KeptIdle
  <2>2. Kept' = kv'
    <3>1. kv' \in Contents BY DEF Inv, TypeOK
    <3> QED BY <1>1, <3>1 DEF Kept, Contents
  <2> QED BY <2>1, <2>2
<1>2. CASE /\ worker'.pc = worker.pc /\ worker'.key = worker.key
           /\ worker'.val = worker.val /\ worker'.expect = worker.expect
  BY <1>2 DEF Kept
<1> QED BY <1>1, <1>2

(* The records of a page change with its key vector or its values only. *)
LEMMA RecordsKept ==
    ASSUME NEW p, headers'[p].keys = headers[p].keys,
           \A i \in DOMAIN headers[p].keys :
               Kept'[headers[p].keys[i].key] = Kept[headers[p].keys[i].key]
    PROVE  PageRecords(p)' = PageRecords(p)
<1> DEFINE keys == headers[p].keys
           C == Kept
           D == Kept'
<1>1. \A i \in DOMAIN keys : D[keys[i].key] = C[keys[i].key] OBVIOUS
<1>2. PageRecords(p) = Records(keys, C) BY DEF PageRecords
<1>3. PageRecords(p)' = Records(keys, D) BY DEF PageRecords
<1> HIDE DEF keys, C, D
<1> QED BY <1>1, <1>2, <1>3 DEF Records
-----------------------------------------------------------------------------
(***************************************************************************)
(* Bytes that are written in one slot.                                     *)
(***************************************************************************)

(* The records of m that lie outside of the slot are in n. *)
Outside(slot, m, n) ==
    \A r \in Record :
        /\ r \in m
        /\ r.addr + Bytes(r) <= SlotStart(slot) \/ SlotStart(slot) + PAGE_SIZE <= r.addr
        => r \in n

(* A write inside of a slot. *)
LEMMA ClobberOutside ==
    ASSUME NEW slot \in Slot, NEW m, NEW a \in Nat, NEW n \in Nat,
           SlotStart(slot) <= a, a + n <= SlotStart(slot) + PAGE_SIZE
    PROVE  Outside(slot, m, Clobber(m, a, n))
<1>1. SlotStart(slot) \in Nat /\ PAGE_SIZE \in Nat BY SlotStartType, ArenaAssumption
<1> SUFFICES ASSUME NEW r \in Record, r \in m,
                    r.addr + Bytes(r) <= SlotStart(slot) \/ SlotStart(slot) + PAGE_SIZE <= r.addr
             PROVE  r \in Clobber(m, a, n)
  BY DEF Outside
<1>2. r.addr \in Nat /\ Bytes(r) \in Nat BY BytesType DEF Record
<1>3. r.addr + Bytes(r) <= a \/ a + n <= r.addr BY <1>1, <1>2
<1> QED BY <1>3, ClobberKeeps

(* page_value_set in a slot. *)
LEMMA StoreOutside ==
    ASSUME NEW slot \in Slot, NEW m, NEW a \in Nat, NEW v \in Value,
           SlotStart(slot) <= a, a + RecordBytes(Size[v]) <= SlotStart(slot) + PAGE_SIZE
    PROVE  Outside(slot, m, Store(m, a, v))
<1>1. RecordBytes(Size[v]) \in Nat BY ArenaAssumption, RecordBytesType
<1>2. Outside(slot, m, Clobber(m, a, RecordBytes(Size[v]))) BY <1>1, ClobberOutside
<1> QED BY <1>2 DEF Outside, Store

(* disk_upload_page into a slot. *)
LEMMA UploadOutside ==
    ASSUME NEW slot \in Slot, NEW m, NEW image
    PROVE  Outside(slot, m, Upload(m, slot, image))
BY UploadKeeps DEF Outside

(* A record of a page at its place in the arena. *)
LEMMA SlotRecord ==
    ASSUME NEW slot \in Slot, NEW recs, NEW end \in Nat, Apart(recs, end), end <= PAGE_SIZE,
           NEW i \in DOMAIN recs, NEW r,
           r = [addr |-> SlotStart(slot) + recs[i].addr, val |-> recs[i].val]
    PROVE  /\ r \in Record /\ r.addr = SlotStart(slot) + recs[i].addr /\ r.val = recs[i].val
           /\ Bytes(r) = Bytes(recs[i])
           /\ SlotStart(slot) <= r.addr /\ r.addr + Bytes(r) <= SlotStart(slot) + end
           /\ r.addr + Bytes(r) <= SlotStart(slot) + PAGE_SIZE
<1>1. SlotStart(slot) \in Nat /\ PAGE_SIZE \in Nat BY SlotStartType, ArenaAssumption
<1>2. recs[i].addr \in Nat /\ recs[i].val \in Value /\ Bytes(recs[i]) \in Nat
  BY RecordAt DEF Apart
<1>3. recs[i].addr + Bytes(recs[i]) <= end BY DEF Apart
<1>4. r.addr = SlotStart(slot) + recs[i].addr /\ r.val = recs[i].val OBVIOUS
<1>5. Bytes(r) = Bytes(recs[i]) BY <1>4 DEF Bytes
<1>6. r \in Record BY <1>1, <1>2, <1>4 DEF Record
<1> QED BY <1>1, <1>2, <1>3, <1>4, <1>5, <1>6

(* The values of the pages in other slots stay. *)
LEMMA IntactElsewhere ==
    ASSUME NEW slot \in Slot, NEW other \in Slot, slot # other, NEW recs, NEW end \in Nat,
           Apart(recs, end), end <= PAGE_SIZE,
           NEW m, NEW n, Outside(slot, m, n), Intact(m, SlotStart(other), recs)
    PROVE  Intact(n, SlotStart(other), recs)
<1> SUFFICES ASSUME NEW i \in DOMAIN recs
             PROVE  [addr |-> SlotStart(other) + recs[i].addr, val |-> recs[i].val] \in n
  BY DEF Intact
<1> DEFINE r == [addr |-> SlotStart(other) + recs[i].addr, val |-> recs[i].val]
<1>1. /\ r \in Record /\ SlotStart(other) <= r.addr
      /\ r.addr + Bytes(r) <= SlotStart(other) + PAGE_SIZE
  BY SlotRecord
<1>2. r \in m BY DEF Intact
<1>3. /\ SlotStart(slot) \in Nat /\ SlotStart(other) \in Nat /\ PAGE_SIZE \in Nat
      /\ r.addr \in Nat /\ Bytes(r) \in Nat
  BY <1>1, SlotStartType, ArenaAssumption, BytesType DEF Record
<1>4. r.addr + Bytes(r) <= SlotStart(slot) \/ SlotStart(slot) + PAGE_SIZE <= r.addr
  <2>1. \/ SlotStart(slot) + PAGE_SIZE <= SlotStart(other)
        \/ SlotStart(other) + PAGE_SIZE <= SlotStart(slot)
    BY SlotsApart
  <2> HIDE DEF r
  <2> QED BY <1>1, <1>3, <2>1
<1> HIDE DEF r
<1>5. r \in n BY <1>1, <1>2, <1>4 DEF Outside
<1> QED BY <1>5 DEF r
-----------------------------------------------------------------------------
(***************************************************************************)
(* The pages that a step does not work on.                                 *)
(***************************************************************************)

(* What PageSound says, with the types of the fields. *)
LEMMA PageFacts ==
    ASSUME Inv, NEW p \in DOMAIN headers
    PROVE  /\ headers[p] \in Header /\ headers[p].arena_id \in Slot
           /\ headers[p].keys \in Seq(HeaderKey) /\ headers[p].offset_bytes \in Nat
           /\ headers[p].fragmentated_bytes \in Nat
           /\ headers[p].location \in {"INMEMORY", "INDISK"}
           /\ DOMAIN PageRecords(p) = DOMAIN headers[p].keys
           /\ \A i \in DOMAIN headers[p].keys :
                 PageRecords(p)[i] = [addr |-> headers[p].keys[i].offset,
                                      val |-> Kept[headers[p].keys[i].key]]
<1>1. headers[p] \in Header BY HeaderAt DEF Inv
<1>2. headers[p].location \in {"INMEMORY", "INDISK"} BY <1>1 DEF Header
<1>3. /\ DOMAIN PageRecords(p) = DOMAIN headers[p].keys
      /\ \A i \in DOMAIN headers[p].keys :
            PageRecords(p)[i] = [addr |-> headers[p].keys[i].offset,
                                 val |-> Kept[headers[p].keys[i].key]]
  BY DEF PageRecords, Records
<1> QED BY <1>1, <1>2, <1>3, HeaderFields

(* A page whose header stays, while bytes are written in another slot. *)
LEMMA OtherPage ==
    ASSUME Inv, Settled, NEW slot \in Slot, Outside(slot, mem, mem'),
           NEW q \in DOMAIN headers, headers'[q] = headers[q],
           headers[q].location = "INMEMORY" => headers[q].arena_id # slot /\ uploaded <= uploaded',
           headers[q].location = "INDISK" => file'.pages[q] = file.pages[q],
           PageRecords(q)' = PageRecords(q), uploaded \in Nat, uploaded' \in Nat
    PROVE  PageSound(q)'
<1> DEFINE recs == PageRecords(q)
           end == headers[q].offset_bytes
<1>1. /\ headers[q].arena_id \in Slot /\ end \in Nat /\ headers[q].arena_id \in Nat
  BY PageFacts, ArenaAssumption DEF Slot
<1>2. PageSound(q) BY DEF Settled
<1>3. end <= PAGE_SIZE /\ Apart(recs, end) BY <1>2 DEF PageSound, Laid
<1>4. PageRecords(q)' = recs OBVIOUS
<1> HIDE DEF recs
<1>5. CASE headers[q].location = "INMEMORY"
  <2>1. headers[q].arena_id <= uploaded' BY <1>1, <1>2, <1>5 DEF PageSound
  <2>2. Intact(mem, SlotStart(headers[q].arena_id), recs) BY <1>2, <1>5 DEF PageSound, recs
  <2>3. Intact(mem', SlotStart(headers[q].arena_id), recs)
    BY <1>1, <1>3, <1>5, <2>2, IntactElsewhere
  <2> QED BY <1>2, <1>4, <1>5, <2>1, <2>3 DEF PageSound, recs
<1>6. CASE headers[q].location = "INDISK"
  BY <1>2, <1>4, <1>6 DEF PageSound, recs
<1> QED BY <1>5, <1>6, PageFacts

(* A page that nothing is done to. *)
LEMMA AlikePage ==
    ASSUME Settled, StoredAlike, NEW q \in DOMAIN headers, PageRecords(q)' = PageRecords(q),
           headers[q].location = "INDISK" => headers'[q].state = headers[q].state
    PROVE  PageSound(q)'
<1>1. PageSound(q) BY DEF Settled
<1>2. Alike(headers[q], headers'[q]) BY DEF StoredAlike
<1> QED BY <1>1, <1>2 DEF PageSound, Alike, StoredAlike

(* The main thread stays where it is, on a page that is laid out as before. *)
LEMMA MainStays ==
    ASSUME Inv, Settled, UNCHANGED main, defrag'["main"] = defrag["main"],
           main.pc = "write" => disk'.pos = disk.pos,
           \A p \in DOMAIN headers :
              /\ headers[p].location = "INMEMORY" => headers'[p].location = "INMEMORY"
              /\ BeingMoved(p) =>
                    /\ headers'[p].offset_bytes = headers[p].offset_bytes
                    /\ headers'[p].fragmentated_bytes = headers[p].fragmentated_bytes
                    /\ PageRecords(p)' = PageRecords(p)
    PROVE  MainMoves' /\ MainAtPage'
<1>1. CASE main.pc \in {"defrag", "seek", "write", "clean"}
  <2>1. PICK p \in DOMAIN headers : p = main.page BY <1>1 DEF Inv, MainOnPage
  <2>2. MainAtPage' BY <2>1 DEF Settled, MainAtPage
  <2>3. CASE main.pc = "defrag"
    <3>1. BeingMoved(p) BY <2>1, <2>3 DEF BeingMoved
    <3>2. Compacting(PageRecords(p), headers[p].offset_bytes, headers[p].fragmentated_bytes,
                     defrag["main"].block, defrag["main"].offset)
      BY <2>1, <2>3 DEF Settled, MainMoves
    <3>3. Compacting(PageRecords(p)', headers'[p].offset_bytes, headers'[p].fragmentated_bytes,
                     defrag'["main"].block, defrag'["main"].offset)
      BY <3>1, <3>2
    <3>4. p = main'.page BY <2>1
    <3>5. MainMoves'
      <4>1. PageRecords(p)' = PageRecords(main.page)' BY <3>4 DEF PageRecords
      <4> QED BY <3>3, <3>4, <4>1 DEF MainMoves
    <3> QED BY <2>2, <3>5
  <2>4. CASE main.pc # "defrag" BY <2>2, <2>4 DEF MainMoves
  <2> QED BY <2>3, <2>4
<1>2. CASE main.pc \notin {"defrag", "seek", "write", "clean"}
  BY <1>2 DEF MainMoves, MainAtPage
<1> QED BY <1>1, <1>2
-----------------------------------------------------------------------------
(***************************************************************************)
(* The invariant, step by step: steps that leave the stored bytes alone.   *)
(***************************************************************************)
LEMMA SettledAlike ==
    ASSUME Inv, Settled, StoredAlike, Kept' = Kept, MainMoves', MainAtPage',
           \A q \in DOMAIN headers :
              headers[q].location = "INDISK" => headers'[q].state = headers[q].state,
           worker'.pc \notin {"defrag", "defragmented"}
    PROVE  Settled'
<1>1. DOMAIN headers' = DOMAIN headers BY DEF StoredAlike
<1>2. ASSUME NEW q \in DOMAIN headers PROVE PageSound(q)'
  <2>1. headers'[q].keys = headers[q].keys BY DEF StoredAlike, Alike
  <2>2. PageRecords(q)' = PageRecords(q) BY <2>1, RecordsKept
  <2> QED BY <2>2, AlikePage
<1>3. OwnSlots'
  <2>1. \A q \in DOMAIN headers : /\ headers'[q].location = headers[q].location
                                  /\ headers'[q].arena_id = headers[q].arena_id
    BY DEF StoredAlike, Alike
  <2> QED BY <1>1, <2>1 DEF Settled, OwnSlots
<1> QED BY <1>1, <1>2, <1>3 DEF Settled

(* The same, when the main thread does nothing. *)
LEMMA WorkerAlike ==
    ASSUME Inv, Settled, StoredAlike, Kept' = Kept, UNCHANGED main,
           defrag'["main"] = defrag["main"], disk' = disk,
           \A q \in DOMAIN headers : headers'[q].state = headers[q].state,
           worker'.pc \notin {"defrag", "defragmented"}
    PROVE  Settled'
<1>1. \A p \in DOMAIN headers :
         /\ headers'[p].location = headers[p].location
         /\ headers'[p].offset_bytes = headers[p].offset_bytes
         /\ headers'[p].fragmentated_bytes = headers[p].fragmentated_bytes
         /\ headers'[p].keys = headers[p].keys
  BY DEF StoredAlike, Alike
<1>2. \A p \in DOMAIN headers : PageRecords(p)' = PageRecords(p) BY <1>1, RecordsKept
<1>3. MainMoves' /\ MainAtPage' BY <1>1, <1>2, MainStays
<1> QED BY <1>3, SettledAlike

(* The main thread has just begun to move the values of a page. *)
LEMMA BeginDumpSettled == ASSUME Inv, Inv', Settled, BeginDump PROVE Settled'
<1>0. main \in Handler /\ TypeOK BY DEF Inv, TypeOK
<1>1. /\ StoredAlike /\ main.page \in DOMAIN headers /\ headers[main.page].state = "DIRTY"
      /\ \A q \in DOMAIN headers : q # main.page => headers'[q] = headers[q]
      /\ main' = [main EXCEPT !.pc = "defrag"]
      /\ defrag' = [defrag EXCEPT !["main"] = [page |-> main.page, block |-> 1, offset |-> 0]]
      /\ worker' = worker /\ kv' = kv
  BY BeginDumpAlike
<1>2. Kept' = Kept BY <1>1, KeptStays
<1>3. PICK p \in DOMAIN headers : p = main.page BY <1>1
<1>4. main'.page = p /\ main'.pc = "defrag" BY <1>0, <1>1, <1>3 DEF Handler
<1>5. headers[p].location = "INMEMORY"
  <2>1. PageSound(p) BY DEF Settled
  <2> QED BY <1>1, <1>3, <2>1, PageFacts DEF PageSound
<1>6. Alike(headers[p], headers'[p]) BY <1>1 DEF StoredAlike
<1>7. MainAtPage' BY <1>4, <1>5, <1>6 DEF MainAtPage, Alike
<1>8. MainMoves'
  <2>1. PageRecords(p)' = PageRecords(p) BY <1>2, <1>6, RecordsKept DEF Alike
  <2>2. Laid(PageRecords(p), headers[p].offset_bytes, headers[p].fragmentated_bytes)
    BY DEF Settled, PageSound
  <2>3. Compacting(PageRecords(p), headers[p].offset_bytes, headers[p].fragmentated_bytes, 1, 0)
    BY <2>2, CompactBegin
  <2>4. defrag'["main"] = [page |-> main.page, block |-> 1, offset |-> 0]
    BY <1>0, <1>1, Threads DEF TypeOK
  <2>5. defrag'["main"].block = 1 /\ defrag'["main"].offset = 0 BY <2>4
  <2>6. PageRecords(main.page)' = PageRecords(p) BY <1>4, <2>1 DEF PageRecords
  <2>7. /\ headers'[p].offset_bytes = headers[p].offset_bytes
        /\ headers'[p].fragmentated_bytes = headers[p].fragmentated_bytes
    BY <1>6 DEF Alike
  <2> QED BY <1>4, <2>3, <2>5, <2>6, <2>7 DEF MainMoves
<1> QED BY <1>1, <1>2, <1>3, <1>5, <1>7, <1>8, SettledAlike DEF Settled

(* None of these steps disturbs a value. *)
LEMMA AlikeSettled ==
    ASSUME Inv, Inv', Settled,
           \/ Answers \/ Walks \/ insert_key \/ EndDump
           \/ DumpHeader \/ (DumpKeys /\ status' = "up") \/ EndKeys
           \/ db_start_fails \/ UNCHANGED vars \/ \E k \in Key : operation_delete(k)
    PROVE  Settled'
<1>0. main \in Handler /\ TypeOK /\ disk \in [lsn : Nat, keys_dumped : Nat, pos : Nat]
  BY DEF Inv, TypeOK
<1>1. CASE Answers
  <2>1. StoredAlike /\ UNCHANGED <<headers, main, defrag, disk, kv>>
    BY <1>1, AnswersAlike
  <2>2. worker.pc \in {"idle", "reply"} /\ worker'.pc \in {"idle", "reply"}
    <3>1. CASE request_reply BY <3>1 DEF request_reply, NoOp
    <3>2. ASSUME NEW k, NEW cmd, NEW code, Starts(k), Reply(cmd, k, code)
          PROVE  worker.pc = "idle" /\ worker'.pc = "reply"
      BY <3>2 DEF Starts, Reply, NoOp
    <3> QED BY <1>1, <3>1, <3>2
        DEF Answers, operation_peek, operation_select_missing, operation_delete_missing,
            operation_insert_refused
  <2>3. Kept' = Kept BY <2>1, <2>2, KeptStays
  <2> QED BY <2>1, <2>2, <2>3, WorkerAlike
<1>2. CASE insert_key \/ \E k \in Key : operation_delete(k)
  <2>1. Kept' = Kept /\ worker'.pc \in {"reply", "unset"} BY <1>2, KeptMoves
  <2>2. /\ StoredAlike /\ UNCHANGED <<main, defrag, disk>>
        /\ \A q \in DOMAIN headers : headers'[q].state = headers[q].state
    BY <1>2, InsertKeyAlike, DeleteAlike
  <2> QED BY <2>1, <2>2, WorkerAlike
<1>3. CASE db_start_fails \/ UNCHANGED vars
  <2>1. StoredAlike /\ UNCHANGED <<headers, main, defrag, disk, kv, worker>>
    BY <1>3, NoStepAlike
  <2>2. Kept' = Kept BY <2>1, KeptStays
  <2> QED BY <2>1, <2>2, WorkerAlike DEF Settled
<1>4. CASE Walks
  <2>1. StoredAlike /\ UNCHANGED <<headers, worker, kv>> BY <1>4, WalksAlike
  <2>2. Kept' = Kept BY <2>1, KeptStays
  <2>3. \/ main'.pc \in {"scan", "keys"}
        \/ /\ main.pc = "seek" /\ main'.page = main.page /\ main'.pc = "write"
           /\ disk'.pos = main.page
    <3>1. CASE snapshot_handler \/ shutdown_handler
      BY <3>1 DEF snapshot_handler, shutdown_handler
    <3>2. CASE SkipPage BY <1>0, <3>2 DEF SkipPage, Handler
    <3>3. CASE BeginKeys BY <1>0, <3>3 DEF BeginKeys, Handler
    <3>4. CASE SeekPage
      <4>1. /\ main.pc = "seek" /\ main' = [main EXCEPT !.pc = "write"]
            /\ disk' = [disk EXCEPT !.lsn = MaxOf(disk.lsn, headers[main.page].pLSN), !.pos = main.page]
        BY <3>4 DEF SeekPage
      <4>2. disk'.pos = main.page BY <1>0, <4>1
      <4> QED BY <1>0, <4>1, <4>2 DEF Handler
    <3> QED BY <1>4, <3>1, <3>2, <3>3, <3>4 DEF Walks
  <2>4. MainMoves' /\ MainAtPage' BY <2>1, <2>3 DEF MainMoves, MainAtPage, Settled
  <2> QED BY <2>1, <2>2, <2>4, SettledAlike DEF Settled
<1>5. CASE EndDump
  <2>1. /\ StoredAlike /\ UNCHANGED <<worker, kv>> /\ main' = [main EXCEPT !.pc = "scan", !.page = main.page + 1]
        /\ \A q \in DOMAIN headers : q # main.page => headers'[q] = headers[q]
    BY <1>5, EndDumpAlike
  <2>2. Kept' = Kept BY <2>1, KeptStays
  <2>3. main'.pc = "scan" BY <1>0, <2>1 DEF Handler
  <2>4. MainMoves' /\ MainAtPage' BY <2>3 DEF MainMoves, MainAtPage
  <2>5. main.pc = "clean" BY <1>5 DEF EndDump
  <2>6. headers[main.page].location = "INMEMORY" BY <2>5 DEF Settled, MainAtPage
  <2> QED BY <2>1, <2>2, <2>4, <2>6, SettledAlike DEF Settled
<1>6. CASE DumpHeader \/ (DumpKeys /\ status' = "up") \/ EndKeys
  <2>1. StoredAlike /\ UNCHANGED <<headers, worker, kv>> BY <1>6, KeysAlike
  <2>2. Kept' = Kept BY <2>1, KeptStays
  <2>3. main'.pc \in {"scan", "keys", "list", "idle"}
    <3>1. CASE DumpKeys /\ status' = "up"
      <4>1. ~Die("SIGSEGV") BY <3>1 DEF Die
      <4>2. main' = [main EXCEPT !.pc = "keys", !.page = @ + 1]
        BY <3>1, <4>1 DEF DumpKeys
      <4> QED BY <1>0, <4>2 DEF Handler
    <3>2. CASE EndKeys BY <1>0, <3>2 DEF EndKeys, Handler, MainIdle
    <3>3. CASE DumpHeader BY <1>0, <3>3 DEF DumpHeader, Handler
    <3> QED BY <1>6, <3>1, <3>2, <3>3
  <2>4. MainMoves' /\ MainAtPage' BY <2>3 DEF MainMoves, MainAtPage
  <2> QED BY <2>1, <2>2, <2>4, SettledAlike DEF Settled
<1> QED BY <1>1, <1>2, <1>3, <1>4, <1>5, <1>6
-----------------------------------------------------------------------------
(***************************************************************************)
(* The invariant, step by step: operations on one page.                    *)
(***************************************************************************)

(* Before a step that harms nothing, nothing was harmed. *)
LEMMA UnharmedBefore ==
    ASSUME Unharmed', damage \subseteq damage' PROVE Unharmed
BY DEF Unharmed

(* A page is in memory undamaged, in a slot of its own. *)
LEMMA WarmFacts ==
    ASSUME Inv, Inv', Settled, Unharmed', NEW p \in DOMAIN headers, NEW slot \in Slot,
           NEW harm, Warm(p, slot, harm)
    PROVE  /\ Unharmed /\ harm \subseteq {"clean"}
           /\ Outside(slot, mem, mem') /\ Intact(mem', SlotStart(slot), PageRecords(p))
           /\ slot <= uploaded' /\ uploaded <= uploaded'
           /\ uploaded \in Nat /\ uploaded' \in Nat
           /\ file' = file /\ saved' = saved /\ (main.pc = "write" => disk' = disk)
           /\ \A q \in DOMAIN headers :
                 q # p /\ headers[q].location = "INMEMORY" => headers[q].arena_id # slot
<1>0. TypeOK /\ uploaded \in Nat /\ uploaded' \in Nat /\ slot \in Nat
  BY ArenaAssumption DEF Inv, TypeOK, Slot
<1>1. Unharmed /\ harm \subseteq {"clean"} /\ "evict" \notin damage' /\ "race" \notin damage'
  <2>1. damage \cup harm \subseteq damage' BY <1>0, WarmEffect
  <2>2. Unharmed BY <2>1, UnharmedBefore
  <2> QED BY <2>1, <2>2 DEF Unharmed
<1>2. PageSound(p) BY DEF Settled
<1>3. CASE /\ headers[p].location = "INMEMORY" /\ slot = headers[p].arena_id
           /\ UNCHANGED <<uploaded, mem, lru, disk, file, saved>>
  <2>1. slot <= uploaded /\ Intact(mem, SlotStart(slot), PageRecords(p))
    BY <1>2, <1>3 DEF PageSound
  <2>2. \A q \in DOMAIN headers :
           q # p /\ headers[q].location = "INMEMORY" => headers[q].arena_id # slot
    BY <1>3 DEF Settled, OwnSlots
  <2> QED BY <1>0, <1>1, <1>3, <2>1, <2>2 DEF Outside
<1>4. CASE /\ headers[p].location = "INDISK" /\ mem' = Upload(mem, slot, file'.pages[p])
           /\ main.pc = "write" => "race" \in damage'
           /\ slot = uploaded + 1 /\ uploaded' = uploaded + 1 /\ UNCHANGED <<disk, file, saved>>
  <2>1. Intact(file.pages[p], 0, PageRecords(p)) BY <1>2, <1>4 DEF PageSound
  <2>2. Outside(slot, mem, mem') BY <1>4, UploadOutside
  <2>3. Intact(mem', SlotStart(slot), PageRecords(p))
    <3> DEFINE recs == PageRecords(p)
    <3>1. recs \in Seq(Record) BY <1>2 DEF PageSound, Laid, Apart
    <3> HIDE DEF recs
    <3>2. ASSUME NEW i \in DOMAIN recs
          PROVE  [addr |-> SlotStart(slot) + recs[i].addr, val |-> recs[i].val] \in mem'
      <4>1. recs[i] \in Record /\ recs[i].addr \in Nat BY <3>1, RecordAt
      <4>2. [addr |-> 0 + recs[i].addr, val |-> recs[i].val] \in file.pages[p]
        BY <2>1 DEF Intact, recs
      <4>3. recs[i] = [addr |-> 0 + recs[i].addr, val |-> recs[i].val]
        BY <4>1 DEF Record
      <4> QED BY <1>4, <4>1, <4>2, <4>3, UploadHas
    <3> QED BY <3>2 DEF Intact, recs
  <2>4. ASSUME NEW q \in DOMAIN headers, headers[q].location = "INMEMORY"
        PROVE  headers[q].arena_id # slot
    <3>1. headers[q].arena_id <= uploaded BY <2>4 DEF Settled, PageSound
    <3> QED BY <1>0, <1>4, <3>1
  <2> QED BY <1>0, <1>1, <1>4, <2>2, <2>3, <2>4
<1> QED BY <1>0, <1>1, <1>3, <1>4, WarmEffect

(* One page is replaced, or one is new. *)
LEMMA OnePageSettled ==
    ASSUME Inv, Settled, NEW p, NEW slot \in Slot, Outside(slot, mem, mem'),
           uploaded <= uploaded', uploaded \in Nat, uploaded' \in Nat,
           file'.pages = file.pages,
           DOMAIN headers' = DOMAIN headers \cup {p},
           \A q \in DOMAIN headers : q # p =>
              headers'[q] = headers[q] /\ PageRecords(q)' = PageRecords(q),
           \A q \in DOMAIN headers :
              q # p /\ headers[q].location = "INMEMORY" => headers[q].arena_id # slot,
           headers'[p].arena_id = slot, PageSound(p)', MainMoves', MainAtPage',
           worker'.pc \notin {"defrag", "defragmented"}
    PROVE  Settled'
<1>1. ASSUME NEW q \in DOMAIN headers, q # p PROVE PageSound(q)'
  BY <1>1, OtherPage
<1>2. ASSUME NEW q \in DOMAIN headers' PROVE PageSound(q)'
  <2>1. CASE q = p BY <2>1
  <2>2. CASE q # p BY <1>1, <2>2
  <2> QED BY <2>1, <2>2
<1>3. OwnSlots' BY DEF Settled, OwnSlots
<1> QED BY <1>2, <1>3 DEF Settled

(* A lookup. *)
LEMMA SelectSettled ==
    ASSUME Inv, Inv', Settled, Unharmed', NEW k \in Key, operation_select(k)
    PROVE  Settled'
<1>1. worker.pc = "idle" /\ UNCHANGED <<main, defrag, kv>> BY SelectEffect
<1>2. PICK p \in DOMAIN headers, slot \in Slot :
        /\ Warm(p, slot, {})
        /\ DOMAIN headers' = DOMAIN headers
        /\ headers'[p].arena_id = slot /\ headers'[p].location = "INMEMORY"
        /\ headers'[p].keys = headers[p].keys
        /\ headers'[p].offset_bytes = headers[p].offset_bytes
        /\ headers'[p].fragmentated_bytes = headers[p].fragmentated_bytes
        /\ \A q \in DOMAIN headers : q # p => headers'[q] = headers[q]
        /\ worker'.pc = "reply"
  BY SelectEffect
<1>3. /\ Outside(slot, mem, mem') /\ Intact(mem', SlotStart(slot), PageRecords(p))
      /\ slot <= uploaded' /\ uploaded <= uploaded' /\ uploaded \in Nat /\ uploaded' \in Nat
      /\ file' = file /\ (main.pc = "write" => disk' = disk)
      /\ \A q \in DOMAIN headers :
            q # p /\ headers[q].location = "INMEMORY" => headers[q].arena_id # slot
  BY <1>2, WarmFacts
<1>4. Kept' = Kept BY <1>1, <1>2, KeptStays
<1>5. \A q \in DOMAIN headers : headers'[q].keys = headers[q].keys BY <1>2
<1>6. \A q \in DOMAIN headers : PageRecords(q)' = PageRecords(q) BY <1>4, <1>5, RecordsKept
<1>7. PageSound(p)'
  <2>1. PageSound(p) BY DEF Settled
  <2>2. PageRecords(p)' = PageRecords(p) BY <1>6
  <2> QED BY <1>2, <1>3, <2>1, <2>2 DEF PageSound
<1>8. MainMoves' /\ MainAtPage' BY <1>1, <1>2, <1>3, <1>6, MainStays
<1> QED BY <1>2, <1>3, <1>6, <1>7, <1>8, OnePageSettled

(* What was lost and what is there is not more than the page. *)
LEMMA LaidBound ==
    ASSUME NEW recs, NEW end \in Nat, NEW lost \in Nat, Laid(recs, end, lost)
    PROVE  lost <= end
<1>1. Len(recs) \in Nat BY DEF Laid, Apart
<1>2. PICK acc : Sums(recs, acc) /\ lost + acc[Len(recs)] <= end BY DEF Laid
<1>3. acc[Len(recs)] \in Nat BY <1>1, <1>2 DEF Sums
<1> QED BY <1>2, <1>3

(* A number below the modulus. *)
LEMMA NoOverflow == ASSUME NEW n \in Nat, n <= PAGE_SIZE PROVE n % UINT16 = n
<1>1. UINT16 \in Nat /\ PAGE_SIZE \in Nat /\ PAGE_SIZE < UINT16 BY ArenaAssumption
<1> QED BY <1>1

(* The values of all keys but the one that page_value_unset takes out. *)
LEMMA UnsetKept ==
    ASSUME Inv, Inv', worker.pc = "unset", worker'.pc = "reply", kv' = kv,
           NEW k \in Key, k # worker.key
    PROVE  Kept'[k] = Kept[k]
BY DEF Kept

(* The records of a page without the key that was taken out. *)
LEMMA UnsetRecords ==
    ASSUME Inv, Inv', worker.pc = "unset", worker'.pc = "reply", kv' = kv,
           NEW p \in DOMAIN headers, NEW id \in DOMAIN headers[p].keys,
           p = worker.meta.page, id = worker.meta.id,
           headers'[p].keys = VectorDelete(headers[p].keys, id),
           PageRecords(p) \in Seq(Record)
    PROVE  /\ PageRecords(p)' \in Seq(Record)
           /\ Len(PageRecords(p)') = Len(PageRecords(p)) - 1
           /\ \A j \in 1 .. Len(PageRecords(p)) - 1 :
                PageRecords(p)'[j] =
                    IF j < id THEN PageRecords(p)[j] ELSE PageRecords(p)[j + 1]
<1> DEFINE keys == headers[p].keys
           del == VectorDelete(keys, id)
           recs == PageRecords(p)
           new == PageRecords(p)'
           n == Len(keys)
<1>1. /\ keys \in Seq(HeaderKey) /\ n \in Nat /\ DOMAIN keys = 1 .. n /\ id \in 1 .. n
      /\ DOMAIN recs = 1 .. n
      /\ \A i \in 1 .. n : recs[i] = [addr |-> keys[i].offset, val |-> Kept[keys[i].key]]
  BY PageFacts
<1>2. Len(recs) = n BY <1>1
<1>3. /\ DOMAIN del = 1 .. n - 1
      /\ \A j \in 1 .. n - 1 : del[j] = IF j < id THEN keys[j] ELSE keys[j + 1]
  <2>1. keys \in Seq(HeaderKey) /\ id \in DOMAIN keys BY <1>1
  <2> HIDE DEF keys
  <2> QED BY <2>1, VectorDeleteType
<1>4. /\ DOMAIN new = 1 .. n - 1
      /\ \A j \in 1 .. n - 1 : new[j] = [addr |-> del[j].offset, val |-> Kept'[del[j].key]]
      /\ new = [j \in 1 .. n - 1 |-> [addr |-> del[j].offset, val |-> Kept'[del[j].key]]]
  BY <1>3 DEF PageRecords, Records
<1>5. ASSUME NEW i \in 1 .. n, i # id PROVE Kept'[keys[i].key] = Kept[keys[i].key]
  <2>1. keys[i].key \in Key BY <1>1, KeyAt DEF Inv
  <2>2. keys[i].key # worker.key BY <1>1, <1>5, OnlyInHand
  <2> QED BY <2>1, <2>2, UnsetKept
<1> HIDE DEF keys, recs, new, del, n
<1>6. ASSUME NEW j \in 1 .. n - 1
      PROVE  new[j] = IF j < id THEN recs[j] ELSE recs[j + 1]
  <2>1. j \in 1 .. n /\ j + 1 \in 1 .. n /\ (j < id => j # id) /\ (~(j < id) => j + 1 # id)
    BY <1>1
  <2>2. new[j] = [addr |-> del[j].offset, val |-> Kept'[del[j].key]] BY <1>4
  <2>3. ASSUME NEW i \in 1 .. n, i # id, del[j] = keys[i] PROVE new[j] = recs[i]
    <3>1. Kept'[keys[i].key] = Kept[keys[i].key] BY <1>5, <2>3
    <3>2. recs[i] = [addr |-> keys[i].offset, val |-> Kept[keys[i].key]] BY <1>1
    <3> QED BY <2>2, <2>3, <3>1, <3>2
  <2>4. del[j] = IF j < id THEN keys[j] ELSE keys[j + 1] BY <1>3
  <2> QED BY <2>1, <2>3, <2>4
<1>7. \A j \in 1 .. n - 1 : new[j] \in Record
  <2>1. recs \in Seq(Record) BY DEF recs
  <2>2. \A i \in 1 .. n : recs[i] \in Record BY <1>1, <2>1
  <2>3. \A j \in 1 .. n - 1 : j \in 1 .. n /\ j + 1 \in 1 .. n BY <1>1
  <2> QED BY <1>6, <2>2, <2>3
<1>8. n - 1 \in Nat BY <1>1
<1>9. new \in [1 .. n - 1 -> Record] BY <1>4, <1>7
<1>10. new \in Seq(Record) /\ Len(new) = n - 1 BY <1>8, <1>9, IsSequence
<1> QED BY <1>2, <1>6, <1>10 DEF recs, new

(* The length that page_value_unset counts as lost is that of the value. *)
LEMMA UnsetSettled ==
    ASSUME Inv, Inv', BytesOnce', Settled, Unharmed', page_value_unset
    PROVE  Settled'
<1>1. worker.pc = "unset" /\ UNCHANGED <<main, defrag, kv>> BY UnsetEffect
<1>2. PICK p \in DOMAIN headers, id \in DOMAIN headers[worker.meta.page].keys, slot \in Slot :
        /\ p = worker.meta.page /\ id = worker.meta.id
        /\ Warm(p, slot, IF BeingMoved(p) THEN {"race"} ELSE {})
        /\ \E size \in SizesAt(mem', SlotStart(slot) + headers[p].keys[id].offset) :
             headers'[p].fragmentated_bytes = (headers[p].fragmentated_bytes + size) % UINT16
        /\ DOMAIN headers' = DOMAIN headers
        /\ headers'[p].arena_id = slot /\ headers'[p].location = "INMEMORY"
        /\ headers'[p].keys = VectorDelete(headers[p].keys, id)
        /\ headers'[p].offset_bytes = headers[p].offset_bytes
        /\ \A q \in DOMAIN headers : q # p => headers'[q] = headers[q]
        /\ worker'.pc = "reply"
  BY UnsetEffect
<1>3. /\ Outside(slot, mem, mem') /\ Intact(mem', SlotStart(slot), PageRecords(p))
      /\ slot <= uploaded' /\ uploaded <= uploaded' /\ uploaded \in Nat /\ uploaded' \in Nat
      /\ file' = file /\ (main.pc = "write" => disk' = disk) /\ ~BeingMoved(p)
      /\ \A q \in DOMAIN headers :
            q # p /\ headers[q].location = "INMEMORY" => headers[q].arena_id # slot
  BY <1>2, WarmFacts
<1> DEFINE recs == PageRecords(p)
           new == PageRecords(p)'
           end == headers[p].offset_bytes
           lost == headers[p].fragmentated_bytes
<1>4. /\ end \in Nat /\ lost \in Nat /\ end <= PAGE_SIZE /\ Laid(recs, end, lost)
      /\ recs \in Seq(Record) /\ DOMAIN recs = DOMAIN headers[p].keys
  BY PageFacts DEF Settled, PageSound, Laid, Apart
<1>5. /\ new \in Seq(Record) /\ Len(new) = Len(recs) - 1
      /\ \A j \in 1 .. Len(recs) - 1 : new[j] = IF j < id THEN recs[j] ELSE recs[j + 1]
  BY <1>1, <1>2, <1>4, UnsetRecords
<1>6. id \in DOMAIN recs /\ recs[id].addr = headers[p].keys[id].offset /\ recs[id].val \in Value
  <2>1. id \in DOMAIN headers[p].keys BY <1>2
  <2>2. recs[id] = [addr |-> headers[p].keys[id].offset, val |-> Kept[headers[p].keys[id].key]]
    BY <2>1, PageFacts
  <2>3. id \in DOMAIN recs BY <1>4, <2>1
  <2> HIDE DEF recs
  <2>4. recs[id].val \in Value BY <1>4, <2>3, RecordAt
  <2> QED BY <2>2, <2>3, <2>4
<1> HIDE DEF recs, new
<1>7. Laid(new, end, lost + Size[recs[id].val]) BY <1>4, <1>5, <1>6, LaidDelete
<1>8. headers'[p].fragmentated_bytes = lost + Size[recs[id].val]
  <2>1. [addr |-> SlotStart(slot) + recs[id].addr, val |-> recs[id].val] \in mem'
    BY <1>3, <1>6 DEF Intact, recs
  <2>2. ReadAt(mem', SlotStart(slot) + recs[id].addr) = recs[id].val
    BY <2>1, ReadIntact DEF BytesOnce
  <2>3. SizesAt(mem', SlotStart(slot) + headers[p].keys[id].offset) = {Size[recs[id].val]}
    BY <1>6, <2>2 DEF SizesAt
  <2>4. headers'[p].fragmentated_bytes = (lost + Size[recs[id].val]) % UINT16
    BY <1>2, <2>3
  <2>5. Size[recs[id].val] \in Nat BY <1>6, ArenaAssumption
  <2>6. lost + Size[recs[id].val] <= end BY <1>4, <1>7, <2>5, LaidBound
  <2>7. lost + Size[recs[id].val] \in Nat /\ lost + Size[recs[id].val] <= PAGE_SIZE
    BY <1>4, <2>5, <2>6, ArenaAssumption
  <2> QED BY <2>4, <2>7, NoOverflow
<1>9. Intact(mem', SlotStart(slot), new)
  <2>1. \A i \in DOMAIN recs : [addr |-> SlotStart(slot) + recs[i].addr, val |-> recs[i].val] \in mem'
    BY <1>3 DEF Intact, recs
  <2>2. \A j \in DOMAIN new : \E i \in DOMAIN recs : new[j] = recs[i]
    <3>1. Len(recs) \in Nat /\ DOMAIN recs = 1 .. Len(recs) BY <1>4
    <3>2. DOMAIN new = 1 .. Len(recs) - 1 BY <1>5
    <3>3. \A j \in 1 .. Len(recs) - 1 : j \in DOMAIN recs /\ j + 1 \in DOMAIN recs BY <3>1
    <3> QED BY <1>5, <3>2, <3>3
  <2> QED BY <2>1, <2>2 DEF Intact
<1>10. PageSound(p)' BY <1>2, <1>3, <1>4, <1>7, <1>8, <1>9 DEF PageSound, new
<1>11. ASSUME NEW q \in DOMAIN headers, q # p PROVE PageRecords(q)' = PageRecords(q)
  <2>1. ASSUME NEW i \in DOMAIN headers[q].keys
        PROVE  Kept'[headers[q].keys[i].key] = Kept[headers[q].keys[i].key]
    <3>1. headers[q].keys[i].key \in Key BY KeyAt DEF Inv
    <3>2. headers[q].keys[i].key # worker.key BY <1>1, <1>2, <1>11, OnlyInHand
    <3> QED BY <1>1, <1>2, <3>1, <3>2, UnsetKept
  <2> QED BY <1>2, <1>11, <2>1, RecordsKept
<1>12. MainMoves' /\ MainAtPage'
  <2>1. \A q \in DOMAIN headers : BeingMoved(q) =>
           headers'[q] = headers[q] /\ PageRecords(q)' = PageRecords(q)
    BY <1>2, <1>3, <1>11
  <2>2. \A q \in DOMAIN headers :
           headers[q].location = "INMEMORY" => headers'[q].location = "INMEMORY"
    BY <1>2
  <2> QED BY <1>1, <1>3, <2>1, <2>2, MainStays
<1> QED BY <1>2, <1>3, <1>10, <1>11, <1>12, OnePageSettled
-----------------------------------------------------------------------------
(* A page without values. *)
LEMMA LaidEmpty == Laid(<<>>, 0, 0)
<1> DEFINE acc == [i \in 0 .. 0 |-> 0]
<1>1. Len(<<>>) = 0 /\ DOMAIN <<>> = {} /\ <<>> \in Seq(Record) OBVIOUS
<1>2. Apart(<<>>, 0) BY <1>1 DEF Apart
<1>3. acc \in [0 .. 0 -> Nat] /\ acc[0] = 0 /\ \A i \in 0 .. 0 : acc[i] = 0 OBVIOUS
<1> HIDE DEF acc
<1>4. \A i, j \in 0 .. 0 : acc[i] <= acc[j] BY <1>3
<1>5. Sums(<<>>, acc)
  <2>1. acc \in [0 .. Len(<<>>) -> Nat] BY <1>1, <1>3
  <2>2. \A i, j \in 0 .. Len(<<>>) : i <= j => acc[i] <= acc[j] BY <1>1, <1>4
  <2> QED BY <1>1, <1>3, <2>1, <2>2 DEF Sums
<1>6. 0 + acc[Len(<<>>)] <= 0 BY <1>1, <1>3
<1> QED BY <1>2, <1>5, <1>6 DEF Laid

(* The page that page_value_set works on, when it does no harm. *)
LEMMA SetFacts ==
    ASSUME Inv, Inv', Settled, Unharmed', NEW p, NEW h, NEW k \in Key, NEW v \in Value,
           SetStep(p, h, k, v)
    PROVE  /\ Unharmed /\ worker.pc = "idle" /\ ~BeingMoved(p) /\ status = "up"
           /\ h \in Header /\ (p \in DOMAIN headers \/ p = Len(headers) + 1)
           /\ h.offset_bytes + RecordBytes(Size[v]) <= PAGE_SIZE
           /\ h.arena_id <= uploaded' /\ uploaded <= uploaded'
           /\ uploaded \in Nat /\ uploaded' \in Nat
           /\ Laid(Records(h.keys, Kept), h.offset_bytes, h.fragmentated_bytes)
           /\ Intact(mem, SlotStart(h.arena_id), Records(h.keys, Kept))
           /\ \A q \in DOMAIN headers :
                 q # p /\ headers[q].location = "INMEMORY" => headers[q].arena_id # h.arena_id
           /\ file' = file /\ saved' = saved /\ (main.pc = "write" => disk' = disk)
           /\ \A i \in DOMAIN h.keys : h.keys[i].key # k
           /\ UNCHANGED <<status, hashmap, main, kv>> /\ defrag'["main"] = defrag["main"]
<1>0. TypeOK /\ uploaded \in Nat /\ uploaded' \in Nat BY ArenaAssumption DEF Inv, TypeOK
<1>1. /\ h \in Header /\ worker.pc \in {"idle", "defragmented"} /\ hashmap[k] = NoMeta
      /\ status = "up" /\ damage \cup SetDamage(p, h, v) \subseteq damage'
      /\ UNCHANGED <<status, hashmap, main, kv>> /\ defrag'["main"] = defrag["main"]
  BY DEF SetStep
<1>2. Unharmed /\ worker.pc = "idle"
  <2>1. damage \subseteq damage' BY <1>1
  <2> QED BY <1>1, <2>1, UnharmedBefore DEF Settled
<1>3. /\ "overflow" \notin SetDamage(p, h, v) /\ "cold" \notin SetDamage(p, h, v)
      /\ "race" \notin SetDamage(p, h, v)
  BY <1>1 DEF Unharmed
<1>4. ~BeingMoved(p) /\ h.location # "INDISK" BY <1>3 DEF SetDamage
<1>5. h.offset_bytes + RecordBytes(Size[v]) <= PAGE_SIZE
  <2>1. h.offset_bytes \in Nat /\ RecordBytes(Size[v]) \in Nat /\ PAGE_SIZE \in Nat
    BY <1>1, HeaderFields, RecordBytesType, ArenaAssumption
  <2>2. ~(h.offset_bytes + RecordBytes(Size[v]) > PAGE_SIZE) BY <1>3 DEF SetDamage
  <2> QED BY <2>1, <2>2
<1>6. CASE p \in DOMAIN headers /\ h = headers[p] /\ UNCHANGED <<uploaded, lru, disk, file, saved>>
  <2>1. PageSound(p) BY <1>6 DEF Settled
  <2>2. headers[p].location = "INMEMORY" BY <1>4, <1>6, PageFacts
  <2>3. PageRecords(p) = Records(h.keys, Kept) BY <1>6 DEF PageRecords
  <2>4. \A i \in DOMAIN h.keys : h.keys[i].key # k BY <1>1, <1>2, <1>6, NotInPage
  <2>5. \A q \in DOMAIN headers :
           q # p /\ headers[q].location = "INMEMORY" => headers[q].arena_id # h.arena_id
    BY <1>6, <2>2 DEF Settled, OwnSlots
  <2>6. /\ h.arena_id <= uploaded' /\ uploaded <= uploaded'
        /\ Laid(Records(h.keys, Kept), h.offset_bytes, h.fragmentated_bytes)
        /\ Intact(mem, SlotStart(h.arena_id), Records(h.keys, Kept))
    BY <1>0, <1>6, <2>1, <2>2, <2>3 DEF PageSound
  <2> QED BY <1>0, <1>1, <1>2, <1>4, <1>5, <1>6, <2>4, <2>5, <2>6
<1>7. ASSUME p = Len(headers) + 1, p \in PageId, SlotDamage \subseteq damage',
             NEW slot \in Slot, h = NewHeader(slot), arena_get_next_page(slot, p)
      PROVE  /\ p = Len(headers) + 1 /\ h.arena_id <= uploaded' /\ uploaded <= uploaded'
             /\ Laid(Records(h.keys, Kept), h.offset_bytes, h.fragmentated_bytes)
             /\ Intact(mem, SlotStart(h.arena_id), Records(h.keys, Kept))
             /\ \A q \in DOMAIN headers :
                   q # p /\ headers[q].location = "INMEMORY" => headers[q].arena_id # h.arena_id
             /\ file' = file /\ saved' = saved /\ (main.pc = "write" => disk' = disk)
             /\ \A i \in DOMAIN h.keys : h.keys[i].key # k
  <2>1. "evict" \notin SlotDamage /\ "race" \notin SlotDamage BY <1>7 DEF Unharmed
  <2>2. slot = uploaded + 1 /\ uploaded' = uploaded + 1 /\ UNCHANGED <<disk, file, saved>>
    BY <1>0, <1>7, <2>1, SlotEffect
  <2>3. h.keys = <<>> /\ h.offset_bytes = 0 /\ h.fragmentated_bytes = 0 /\ h.arena_id = slot
    BY <1>7 DEF NewHeader
  <2>4. Records(h.keys, Kept) = <<>> BY <2>3 DEF Records
  <2>5. Laid(Records(h.keys, Kept), h.offset_bytes, h.fragmentated_bytes)
    BY <2>3, <2>4, LaidEmpty
  <2>6. Intact(mem, SlotStart(h.arena_id), Records(h.keys, Kept)) BY <2>4 DEF Intact
  <2>7. ASSUME NEW q \in DOMAIN headers, headers[q].location = "INMEMORY"
        PROVE  headers[q].arena_id # h.arena_id
    <3>1. headers[q].arena_id <= uploaded BY <2>7 DEF Settled, PageSound
    <3> QED BY <1>0, <2>2, <2>3, <3>1
  <2>8. h.arena_id <= uploaded' /\ uploaded <= uploaded' BY <1>0, <2>2, <2>3
  <2>9. \A i \in DOMAIN h.keys : h.keys[i].key # k BY <2>3
  <2> QED BY <1>7, <2>2, <2>5, <2>6, <2>7, <2>8, <2>9
<1>8. CASE \E slot \in Slot : p = Len(headers) + 1 /\ p \in PageId /\ SlotDamage \subseteq damage'
                              /\ h = NewHeader(slot) /\ arena_get_next_page(slot, p)
  BY <1>0, <1>1, <1>2, <1>4, <1>5, <1>7, <1>8
<1> QED BY <1>6, <1>8 DEF SetStep

(* A value that is put into a page has its own bytes there. *)
LEMMA SetSettled ==
    ASSUME Inv, Inv', Settled, Unharmed', NEW p, NEW h, NEW k \in Key, NEW v \in Value,
           SetStep(p, h, k, v)
    PROVE  Settled'
<1> DEFINE slot == h.arena_id
           end == h.offset_bytes
           lost == h.fragmentated_bytes
           n == RecordBytes(Size[v])
           r == [addr |-> end, val |-> v]
           old == Records(h.keys, Kept)
           new == PageRecords(p)'
<1>1. /\ worker.pc = "idle" /\ ~BeingMoved(p) /\ h \in Header
      /\ (p \in DOMAIN headers \/ p = Len(headers) + 1)
      /\ end + n <= PAGE_SIZE /\ slot <= uploaded' /\ uploaded <= uploaded'
      /\ uploaded \in Nat /\ uploaded' \in Nat
      /\ Laid(old, end, lost) /\ Intact(mem, SlotStart(slot), old)
      /\ \A q \in DOMAIN headers :
            q # p /\ headers[q].location = "INMEMORY" => headers[q].arena_id # slot
      /\ file' = file /\ (main.pc = "write" => disk' = disk)
      /\ \A i \in DOMAIN h.keys : h.keys[i].key # k
      /\ UNCHANGED <<main, kv>> /\ defrag'["main"] = defrag["main"]
  BY SetFacts, ZenonT(60)
<1>2. TypeOK /\ page_value_set(p, h, k, v) /\ hashmap[k] = NoMeta BY DEF SetStep, Inv
<1>3. /\ DOMAIN headers' = DOMAIN headers \cup {p}
      /\ headers'[p].arena_id = slot /\ headers'[p].location = "INMEMORY"
      /\ headers'[p].keys = Append(h.keys, [key |-> k, offset |-> end])
      /\ headers'[p].offset_bytes = (end + n) % UINT16
      /\ headers'[p].fragmentated_bytes = lost
      /\ \A q \in DOMAIN headers : q # p => headers'[q] = headers[q]
      /\ mem' = Store(mem, SlotStart(slot) + end, v)
      /\ worker'.pc = "set" /\ worker'.key = k /\ worker'.val = v
  <2>1. h \in Header /\ (p \in DOMAIN headers \/ p = Len(headers) + 1) BY <1>1
  <2>2. DOMAIN headers' = DOMAIN headers \cup {p} BY <1>2, <2>1, SetEffect
  <2>3. headers'[p].arena_id = slot /\ headers'[p].location = "INMEMORY" BY <1>2, <2>1, SetEffect
  <2>4. headers'[p].keys = Append(h.keys, [key |-> k, offset |-> end]) BY <1>2, <2>1, SetEffect, ZenonT(60)
  <2>5. headers'[p].offset_bytes = (end + n) % UINT16 /\ headers'[p].fragmentated_bytes = lost
    BY <1>2, <2>1, SetEffect, ZenonT(60)
  <2>6. \A q \in DOMAIN headers : q # p => headers'[q] = headers[q] BY <1>2, <2>1, SetEffect
  <2>7. worker'.pc = "set" /\ worker'.key = k /\ worker'.val = v BY <1>2, <2>1, SetEffect
  <2>8. mem' = Store(mem, SlotStart(slot) + end, v) BY <1>2 DEF page_value_set, AddrOf
  <2> QED BY <2>2, <2>3, <2>4, <2>5, <2>6, <2>7, <2>8
<1>4. /\ slot \in Slot /\ end \in Nat /\ lost \in Nat /\ h.keys \in Seq(HeaderKey)
      /\ SlotStart(slot) \in Nat /\ n \in Nat /\ PAGE_SIZE \in Nat
  BY <1>1, HeaderFields, SlotStartType, RecordBytesType, ArenaAssumption
<1>5. Kept = kv BY <1>1, KeptIdle
<1>6. Kept'[k] = v /\ \A j \in Key : j # k => Kept'[j] = Kept[j]
  BY <1>1, <1>3, <1>5 DEF Kept
<1>7. \A i \in DOMAIN h.keys : Kept'[h.keys[i].key] = Kept[h.keys[i].key]
  <2>1. \A i \in DOMAIN h.keys : h.keys[i].key \in Key
    <3>1. \A i \in DOMAIN h.keys : h.keys[i] \in HeaderKey BY <1>4
    <3> QED BY <3>1 DEF HeaderKey
  <2> QED BY <1>1, <1>6, <2>1
<1>8. old \in Seq(Record) BY <1>1 DEF Laid, Apart
<1>9. new = Records(Append(h.keys, [key |-> k, offset |-> end]), Kept')
  BY <1>3 DEF PageRecords
<1>10. /\ new \in Seq(Record) /\ Len(new) = Len(old) + 1
       /\ new[Len(old) + 1] = r /\ \A i \in DOMAIN old : new[i] = old[i]
  <2> DEFINE keys == h.keys
             m == Len(keys)
             more == Append(keys, [key |-> k, offset |-> end])
  <2>1. m \in Nat /\ DOMAIN keys = 1 .. m BY <1>4
  <2>2. /\ DOMAIN old = 1 .. m
        /\ \A i \in 1 .. m : old[i] = [addr |-> keys[i].offset, val |-> Kept[keys[i].key]]
    BY <2>1 DEF Records
  <2>3. Len(old) = m BY <2>1, <2>2
  <2>4. /\ DOMAIN more = 1 .. m + 1 /\ more[m + 1] = [key |-> k, offset |-> end]
        /\ \A i \in 1 .. m : more[i] = keys[i]
    BY <1>4, <2>1
  <2> HIDE DEF more
  <2>5. /\ new = [i \in 1 .. m + 1 |-> [addr |-> more[i].offset, val |-> Kept'[more[i].key]]]
        /\ DOMAIN new = 1 .. m + 1
    BY <1>9, <2>4 DEF Records, more
  <2>6. ASSUME NEW i \in 1 .. m PROVE new[i] = old[i]
    <3>1. i \in 1 .. m + 1 BY <2>1
    <3>2. new[i] = [addr |-> more[i].offset, val |-> Kept'[more[i].key]] BY <2>5, <3>1
    <3>3. Kept'[keys[i].key] = Kept[keys[i].key] BY <1>7, <2>1
    <3> QED BY <2>2, <2>4, <3>2, <3>3
  <2>7. new[m + 1] = r
    <3>1. m + 1 \in 1 .. m + 1 BY <2>1
    <3>2. new[m + 1] = [addr |-> more[m + 1].offset, val |-> Kept'[more[m + 1].key]]
      BY <2>5, <3>1
    <3> QED BY <1>6, <2>4, <3>2
  <2>8. new \in Seq(Record) /\ Len(new) = m + 1
    <3>1. \A i \in 1 .. m : old[i] \in Record BY <1>8, <2>2
    <3>2. r \in Record BY <1>4 DEF Record
    <3> HIDE DEF old, new, r
    <3>3. \A i \in 1 .. m + 1 : i \in 1 .. m \/ i = m + 1 BY <2>1
    <3>4. \A i \in 1 .. m + 1 : new[i] \in Record BY <2>6, <2>7, <3>1, <3>2, <3>3
    <3>5. new \in [1 .. m + 1 -> Record] BY <2>5, <3>4
    <3>6. m + 1 \in Nat BY <2>1
    <3> QED BY <3>5, <3>6, IsSequence
  <2> HIDE DEF old, new, r, m
  <2> QED BY <2>2, <2>3, <2>6, <2>7, <2>8
<1>11. r \in Record /\ r.addr = end /\ Bytes(r) = n BY <1>4 DEF Record, Bytes
<1> HIDE DEF new, old, r, n
<1>12. Laid(new, end + n, lost) BY <1>1, <1>4, <1>10, <1>11, LaidAppend
<1>13. headers'[p].offset_bytes = end + n
  <2>1. end + n \in Nat BY <1>4
  <2> QED BY <1>1, <1>3, <2>1, NoOverflow
<1>14. Outside(slot, mem, mem')
  <2>1. /\ SlotStart(slot) + end \in Nat /\ SlotStart(slot) <= SlotStart(slot) + end
        /\ SlotStart(slot) + end + n <= SlotStart(slot) + PAGE_SIZE
    BY <1>1, <1>4
  <2> QED BY <1>3, <1>4, <2>1, StoreOutside DEF n
<1>15. Intact(mem', SlotStart(slot), new)
  <2> SUFFICES ASSUME NEW i \in DOMAIN new
               PROVE  [addr |-> SlotStart(slot) + new[i].addr, val |-> new[i].val] \in mem'
    BY DEF Intact
  <2>1. CASE i \in DOMAIN old
    <3> DEFINE e == [addr |-> SlotStart(slot) + old[i].addr, val |-> old[i].val]
    <3>1. e \in mem BY <1>1, <2>1 DEF Intact
    <3>2. e \in Record /\ e.addr + Bytes(e) <= SlotStart(slot) + end
      <4>1. Apart(old, end) /\ end <= PAGE_SIZE BY <1>1, <1>4 DEF Laid
      <4> QED BY <1>4, <2>1, <4>1, SlotRecord
    <3> HIDE DEF e
    <3>3. e \in mem' 
      <4>1. SlotStart(slot) + end \in Nat BY <1>4
      <4> QED BY <1>3, <3>1, <3>2, <4>1, StoreKeeps
    <3>4. new[i] = old[i] BY <1>10, <2>1
    <3> QED BY <3>3, <3>4 DEF e
  <2>2. CASE i \notin DOMAIN old
    <3>1. i = Len(old) + 1
      <4>1. Len(old) \in Nat /\ DOMAIN old = 1 .. Len(old) /\ DOMAIN new = 1 .. Len(old) + 1
        BY <1>8, <1>10 DEF old
      <4> QED BY <2>2, <4>1
    <3>2. new[i] = r BY <1>10, <3>1
    <3>3. new[i].addr = end /\ new[i].val = v BY <3>2 DEF r
    <3> QED BY <1>3, <3>3 DEF Store
  <2> QED BY <2>1, <2>2
<1>16. PageSound(p)'
  BY <1>1, <1>3, <1>12, <1>13, <1>15 DEF PageSound, new
<1>17. ASSUME NEW q \in DOMAIN headers, q # p PROVE PageRecords(q)' = PageRecords(q)
  <2>1. ASSUME NEW i \in DOMAIN headers[q].keys
        PROVE  Kept'[headers[q].keys[i].key] = Kept[headers[q].keys[i].key]
    <3>1. headers[q].keys[i].key \in Key BY <1>2, KeyAt
    <3>2. headers[q].keys[i].key # k BY <1>1, <1>2, NotInPage
    <3> QED BY <1>6, <3>1, <3>2
  <2> QED BY <1>3, <1>17, <2>1, RecordsKept
<1>18. MainMoves' /\ MainAtPage'
  <2>1. \A q \in DOMAIN headers : BeingMoved(q) =>
           headers'[q] = headers[q] /\ PageRecords(q)' = PageRecords(q)
    BY <1>1, <1>3, <1>17
  <2>2. \A q \in DOMAIN headers :
           headers[q].location = "INMEMORY" => headers'[q].location = "INMEMORY"
    BY <1>3
  <2> QED BY <1>1, <2>1, <2>2, MainStays
<1> QED BY <1>1, <1>3, <1>4, <1>14, <1>16, <1>17, <1>18, OnePageSettled
-----------------------------------------------------------------------------
(***************************************************************************)
(* The invariant, step by step: defragmentation.                           *)
(***************************************************************************)

(* Fewer bytes are lost in a page than it has, so the integer division in  *)
(* the factor of headers_alloc_page gives 0, and no page is worth it.      *)
LEMMA NeverWorth ==
    ASSUME Inv, Settled, NEW p \in DOMAIN headers, NEW size, Len(headers[p].keys) # 0
    PROVE  ~WorthDefragmentation(headers[p], size)
<1> DEFINE lost == headers[p].fragmentated_bytes
           end == headers[p].offset_bytes
           n == Len(headers[p].keys)
<1>1. /\ lost \in Nat /\ end \in Nat /\ headers[p].keys \in Seq(HeaderKey) /\ n \in Nat
      /\ DOMAIN PageRecords(p) = DOMAIN headers[p].keys
  BY PageFacts
<1>2. Laid(PageRecords(p), end, lost) /\ end <= PAGE_SIZE BY DEF Settled, PageSound
<1>3. Len(PageRecords(p)) = n
  <2>1. PageRecords(p) \in Seq(Record) BY <1>2 DEF Laid, Apart
  <2> HIDE DEF PageRecords
  <2> QED BY <1>1, <2>1
<1>4. lost < end BY <1>1, <1>2, <1>3, LaidLost
<1>5. PAGE_SIZE \in Nat \ {0} /\ FGDB_FRAGMENTATION_FACTOR \in Nat \ {0}
  BY ArenaAssumption, StorageAssumption
<1> HIDE DEF lost, end, n
<1>6. lost \div PAGE_SIZE = 0
  <2>1. lost < PAGE_SIZE BY <1>1, <1>2, <1>4, <1>5
  <2> QED BY <1>1, <1>5, <2>1
<1>7. (lost \div PAGE_SIZE) * n = 0 BY <1>1, <1>6
<1>8. ~((lost \div PAGE_SIZE) * n >= FGDB_FRAGMENTATION_FACTOR) BY <1>5, <1>7
<1> QED BY <1>8 DEF WorthDefragmentation, lost, n

(* The worker never begins a defragmentation. *)
LEMMA WorkerMovesNothing ==
    ASSUME Inv, Settled, NEW k \in Key, NEW v \in Value, insert_defragmentates(k, v)
    PROVE  FALSE
<1>1. PICK p \in DOMAIN headers : Prefered(p, Size[v]) BY DEF insert_defragmentates
<1>2. WorthDefragmentation(headers[p], Size[v]) BY <1>1 DEF Prefered
<1>3. Len(headers[p].keys) # 0 BY DEF insert_defragmentates, NoStop, StopsScan
<1> QED BY <1>2, <1>3, NeverWorth

(* A block of the main thread: the header, and where the thread is. *)
LEMMA BlockEffect ==
    ASSUME Inv, DefragBlock("main")
    PROVE  /\ main.pc = "defrag"
           /\ \E p \in DOMAIN headers, b \in DOMAIN headers[main.page].keys, o \in Nat :
                /\ p = main.page /\ b = defrag["main"].block /\ o = defrag["main"].offset
                /\ b <= Len(headers[p].keys)
                /\ DOMAIN headers' = DOMAIN headers
                /\ headers'[p].keys = [headers[p].keys EXCEPT ![b].offset = o % UINT16]
                /\ headers'[p].arena_id = headers[p].arena_id
                /\ headers'[p].location = headers[p].location
                /\ headers'[p].offset_bytes = headers[p].offset_bytes
                /\ headers'[p].fragmentated_bytes = headers[p].fragmentated_bytes
                /\ headers'[p].state = headers[p].state
                /\ \A q \in DOMAIN headers : q # p => headers'[q] = headers[q]
           /\ worker' = LetGo("main", main.page)
           /\ UNCHANGED <<status, uploaded, lru, hashmap, LSN, disk, file, main, kv, saved, quiet, ops>>
<1>0. TypeOK BY DEF Inv
<1>1. /\ main.pc = "defrag"
      /\ UNCHANGED <<status, uploaded, lru, hashmap, LSN, disk, file, main, kv, saved, quiet, ops>>
  BY Threads DEF DefragBlock, Defragmenting
<1>2. /\ defrag["main"].page = main.page /\ main.page \in DOMAIN headers
      /\ defrag["main"].block # 0 /\ defrag["main"].block \in Nat /\ defrag["main"].offset \in Nat
  BY <1>0, <1>1, Threads, DefragFields DEF Inv, MainOnPage
<1>3. PICK p \in DOMAIN headers : p = main.page BY <1>2
<1>4. PICK o \in Nat : o = defrag["main"].offset BY <1>2
<1>5. /\ defrag["main"].block <= Len(headers[p].keys) /\ worker' = LetGo("main", main.page)
      /\ headers' = [headers EXCEPT ![p].keys[defrag["main"].block].offset = o % UINT16]
  BY <1>2, <1>3, <1>4 DEF DefragBlock
<1>6. headers[p] \in Header /\ headers[p].keys \in Seq(HeaderKey)
  BY <1>0, HeaderAt, HeaderFields
<1>7. PICK b \in DOMAIN headers[main.page].keys : b = defrag["main"].block
  <2>1. defrag["main"].block \in DOMAIN headers[p].keys BY <1>2, <1>5, <1>6
  <2> QED BY <1>3, <2>1
<1> DEFINE keys == [headers[p].keys EXCEPT ![b].offset = o % UINT16]
           h == [headers[p] EXCEPT !.keys = keys]
<1>8. headers' = [headers EXCEPT ![p] = h] BY <1>5, <1>7
<1> HIDE DEF keys
<1>9. /\ h.keys = keys /\ h.arena_id = headers[p].arena_id /\ h.location = headers[p].location
      /\ h.offset_bytes = headers[p].offset_bytes /\ h.state = headers[p].state
      /\ h.fragmentated_bytes = headers[p].fragmentated_bytes
  BY <1>6 DEF Header
<1> HIDE DEF h
<1>10. /\ DOMAIN headers' = DOMAIN headers /\ headers'[p] = h
       /\ \A q \in DOMAIN headers : q # p => headers'[q] = headers[q]
  BY <1>0, <1>8, PageReplaced
<1>11. headers'[p].keys = [headers[p].keys EXCEPT ![b].offset = o % UINT16]
  BY <1>9, <1>10 DEF keys
<1>12. /\ headers'[p].arena_id = headers[p].arena_id
       /\ headers'[p].location = headers[p].location
       /\ headers'[p].offset_bytes = headers[p].offset_bytes
       /\ headers'[p].fragmentated_bytes = headers[p].fragmentated_bytes
       /\ headers'[p].state = headers[p].state
  BY <1>9, <1>10
<1>13. b <= Len(headers[p].keys) BY <1>5, <1>7
<1>14. /\ p = main.page /\ b = defrag["main"].block /\ o = defrag["main"].offset
  BY <1>3, <1>4, <1>7
<1>15. \E x \in DOMAIN headers, y \in DOMAIN headers[main.page].keys, z \in Nat :
         /\ x = main.page /\ y = defrag["main"].block /\ z = defrag["main"].offset
         /\ y <= Len(headers[x].keys)
         /\ DOMAIN headers' = DOMAIN headers
         /\ headers'[x].keys = [headers[x].keys EXCEPT ![y].offset = z % UINT16]
         /\ headers'[x].arena_id = headers[x].arena_id
         /\ headers'[x].location = headers[x].location
         /\ headers'[x].offset_bytes = headers[x].offset_bytes
         /\ headers'[x].fragmentated_bytes = headers[x].fragmentated_bytes
         /\ headers'[x].state = headers[x].state
         /\ \A q \in DOMAIN headers : q # x => headers'[q] = headers[q]
  <2> WITNESS p \in DOMAIN headers, b \in DOMAIN headers[main.page].keys, o \in Nat
  <2> QED BY <1>10, <1>11, <1>12, <1>13, <1>14
<1> QED BY <1>1, <1>5, <1>15

(* What LetGo leaves as it is. *)
LEMMA LetGoFields ==
    ASSUME TypeOK, NEW t, NEW p, worker' = LetGo(t, p)
    PROVE  /\ worker'.pc = worker.pc /\ worker'.key = worker.key /\ worker'.val = worker.val
           /\ worker'.expect = worker.expect /\ worker'.meta = worker.meta
           /\ worker'.cmd = worker.cmd /\ worker'.code = worker.code
           /\ worker'.addr = worker.addr
           /\ worker'.held => worker.held
           /\ t = "main" /\ worker.pc = "reply" /\ worker.meta.page = p => ~worker'.held
<1>1. worker \in Transaction BY DEF TypeOK
<1>2. CASE t = "main" /\ worker.pc = "reply" /\ worker.meta.page = p
  <2>1. worker' = [worker EXCEPT !.held = FALSE] BY <1>2 DEF LetGo
  <2> QED BY <1>1, <2>1 DEF Transaction
<1>3. CASE ~(t = "main" /\ worker.pc = "reply" /\ worker.meta.page = p)
  <2>1. worker' = worker BY <1>3 DEF LetGo
  <2> QED BY <1>3, <2>1
<1> QED BY <1>2, <1>3
=============================================================================
