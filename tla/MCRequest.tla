----------------------------- MODULE MCRequest -----------------------------
EXTENDS Request

CONSTANTS c1, c2, select, insert, long, update, unknown, huge, wrapped, nil, number

Byte == Cell("byte", 7)
Header(cmd) == <<Cell("array", 1), Cell("int", cmd)>>
Text(bytes) == <<Cell("str", 7), Cell("int", Len(bytes))>> \o bytes
Map == <<Cell("map", 7)>>

TwoConns == {c1, c2}
Messages == {select, insert, long, update, unknown, huge, wrapped, nil, number}

(* With 13 bytes for a recv, long never comes with one.  select has a zero *)
(* byte in its key, insert a key and a value, and huge is refused.  The    *)
(* number of wrapped is 3, INSERT, in a byte of 8 values; nil and number   *)
(* have no string or map.                                                  *)
Bodies == [m \in Messages |->
    CASE m = select -> Header(2) \o Text(<<Byte, Zero, Byte>>)
      [] m = insert -> Header(3) \o Map \o Text(<<Byte>>) \o Text(<<Byte>>)
      [] m = long -> Header(5) \o Text([i \in 1 .. 7 |-> Byte])
      [] m = update -> Header(4) \o Text(<<Byte>>)
      [] m = unknown -> Header(6) \o Text(<<Byte>>)
      [] m = huge -> Header(1) \o Text([i \in 1 .. 8 |-> Byte])
      [] m = wrapped -> Header(11) \o Text(<<Byte>>)
      [] m = nil -> Header(2) \o <<Cell("nil", 0)>>
      [] m = number -> Header(2) \o <<Cell("int", 1)>>]

Offers == [c \in TwoConns |-> IF c = c1 THEN {select, insert, long}
                               ELSE {update, unknown, huge, wrapped, nil, number}]
(* Only messages that do not come with one recv, and have no zero byte. *)
LongOffers == [c \in TwoConns |-> {long}]
=============================================================================
