--------------------------- MODULE MCPppCandidates ---------------------------
(* One root with its four tables, or two, and one section, which may be       *)
(* listed twice: two programs with up to one slot each, or with links  *)
(* and counts of every bad kind, a counted table and room for a record.  The  *)
(* first slot's record is at every offset of the section; the third table may *)
(* lie on it.                                                                 *)
EXTENDS PppCandidates, TLC

MCOffsets == 0 .. 63
Minus == 63

\* Offsets in the root: tables at 8, 10, 14 and 16, the section at 18.
\* Offsets in the section: programs at 4 and 12, a table at 20.
Cells(v) ==
    (0 :> v.sections @@ 1 :> v.entries @@ 2 :> 1 @@ 3 :> 1
     @@ 4 :> 8 @@ 5 :> 10 @@ 6 :> 14 @@ 7 :> v.last
     @@ 8 :> 18 @@ 9 :> 18 @@ 13 :> v.entry
     @@ 18 :> v.size @@ 20 :> 20 @@ 21 :> 20
     @@ 22 :> v.next1 @@ 25 :> v.count1 @@ 26 :> 5 @@ 28 :> v.record1
     @@ 30 :> v.next2 @@ 33 :> v.count2 @@ 34 :> v.handler2 @@ 36 :> v.record2
     @@ 38 :> v.table)

Laid(lead, v) ==
    lead \o [i \in 1 .. 44 |-> IF i - 1 \in DOMAIN Cells(v) THEN Cells(v)[i - 1] ELSE 0]

\* Another root, ten cells ahead, with the same section.
Other == <<1, 0, 0, 0, 8, 10, 10, 10, 28, 0>>

Usual == [sections |-> 1, entries |-> 0, entry |-> 0, last |-> 16, size |-> 26,
          next1 |-> 12, count1 |-> 1, record1 |-> 21, next2 |-> 0, count2 |-> 1,
          handler2 |-> 5, record2 |-> 23, table |-> 0]

Records ==
    [record1 : 0 .. 26, record2 : {7, 12, 23}, last : {16, 40},
     count1 : {0, 1}, count2 : {0, 1}, handler2 : {4, 5}]

Chains ==
    [next1 : {0, 4, 12, 13, 40}, count1 : {0, 1, 3, Minus},
     next2 : {0, 4}, count2 : {0, 1, 2}, size : {6, 22, 26, 60}, record2 : {21}]

Heads ==
    [sections : 0 .. 3, entries : {0, 1, 3}, entry : {0, 50},
     last : {15, 16, 44}, handler2 : {5, 8}, table : {0, 1, 9}]

MCSources ==
    {Laid(<<>>, v @@ Usual) : v \in Chains \cup Heads} \cup {Laid(lead, v @@ Usual) : lead \in {<<0, 0>>, Other}, v \in Records}
=============================================================================
