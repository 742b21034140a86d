---------------------------- MODULE MCColorWriter ----------------------------
(* A DLL of five cells.  The records of sites A and B overlap, so that A's   *)
(* hash covers B's payload; the payload of C lies on the slot table, so that *)
(* an edit of C takes every record's owner away; D has no owner.             *)
EXTENDS ColorWriter, Naturals, TLC

CONSTANTS p1, p2, A, B, C, D

MCCells == 1..4
MCSites == {A, B, C, D}
SlotTable == 4

MCRecord == A :> {1, 2} @@ B :> {2, 3} @@ C :> {4} @@ D :> {3}
MCPayload == A :> {1} @@ B :> {2} @@ C :> {4} @@ D :> {3}
MCOriginal == [c \in MCCells |-> 0]
MCOwned(d, s) == s # D /\ d[SlotTable] = 0

Perms == Permutations({p1, p2})
=============================================================================
