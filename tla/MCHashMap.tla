----------------------------- MODULE MCHashMap -----------------------------
EXTENDS HashMap

(* With five buckets all of these fall into one.  A table at depth 1 keeps *)
(* the keys of plain characters together and the others apart from them.   *)
Plain == {<<2>>, <<7>>, <<12>>, <<17>>, <<22>>, <<27>>, <<32>>, <<1, 1>>}
Other == {<<-2>>}
NineKeys == Plain \cup Other
=============================================================================
