---------------------------- MODULE MCTwoWriters -----------------------------
(* One colour record (site A, payload cell 1) and one vector record (site B,  *)
(* window cell 2); A's record covers B's window and cell 3, which other tools *)
(* change, so the colour hash sees every edit.                                *)
EXTENDS TwoWriters, TLC

CONSTANTS c1, v1, v2, A, B

MCCells == 1..3
MCCRecord == A :> {1, 2, 3}
MCCPayload == A :> {1}
MCVRecord == B :> {2}
MCVPayload == B :> {2}
MCOriginal == [c \in MCCells |-> 0]
MCOwned(d, s) == TRUE

Perms == Permutations({v1, v2})

\* No guard reads how calls ended or what temporary files were left behind,
\* and the invariants of the race do not either.
FilesAndCalls ==
    <<target, cBackup, cPc, cSite, cSnap, cOut, cDest, cTmp,
      vBackup, vPc, vSite, vSnap, vOut, vDest, vTmp>>
=============================================================================
