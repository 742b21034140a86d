----------------------------- MODULE TwoWriters ------------------------------
(***************************************************************************)
(* The colour writer and the vector writer on the same DLL.  They share    *)
(* the target and nothing else: each has a backup of its own beside it     *)
(* (.dll.c2b.bak and .dll.sclmove.bak), and neither looks at the other's.  *)
(* Other tools may change the target too, between calls.                   *)
(***************************************************************************)
EXTENDS FiniteSets, Naturals

CONSTANTS Cells, Values, Original, NoFile, Torn,
          CProcs, CSites, CRecord, CPayload, Owned(_, _),
          VProcs, VSites, VRecord, VPayload,
          OtherCells   \* the cells that other tools change

VARIABLES target,
          cBackup, cPc, cSite, cSnap, cOut, cDest, cTmp, cLitter, cResult,
          vBackup, vPc, vSite, vSnap, vOut, vDest, vTmp, vLitter, vResult

C == INSTANCE ColorWriter
         WITH Procs <- CProcs, Sites <- CSites,
              Record <- CRecord, Payload <- CPayload,
              backup <- cBackup, pc <- cPc, site <- cSite, snap <- cSnap,
              out <- cOut, dest <- cDest, tmp <- cTmp, litter <- cLitter,
              result <- cResult

V == INSTANCE VectorWriter
         WITH Procs <- VProcs, Sites <- VSites,
              Record <- VRecord, Payload <- VPayload,
              backup <- vBackup, pc <- vPc, site <- vSite, snap <- vSnap,
              out <- vOut, dest <- vDest, tmp <- vTmp, litter <- vLitter,
              result <- vResult

ASSUME TwoWritersAssumption ==
    /\ Original \in C!Dlls
    /\ CRecord \in [CSites -> SUBSET Cells] /\ VRecord \in [VSites -> SUBSET Cells]
    /\ CPayload \in [CSites -> SUBSET Cells] /\ VPayload \in [VSites -> SUBSET Cells]
    /\ NoFile \notin C!Dlls
    /\ Torn \notin C!Dlls \cup {NoFile}
    /\ IsFiniteSet(CProcs) /\ IsFiniteSet(VProcs)

cVars == <<cBackup, cPc, cSite, cSnap, cOut, cDest, cTmp, cLitter, cResult>>
vVars == <<vBackup, vPc, vSite, vSnap, vOut, vDest, vTmp, vLitter, vResult>>
vars == <<target, cVars, vVars>>

Init == C!Init /\ V!Init

Color == C!Next /\ UNCHANGED vVars

Vector == V!Next /\ UNCHANGED cVars

AtMostOneBusy ==
    Cardinality({p \in CProcs : cPc[p] # "idle"})
      + Cardinality({p \in VProcs : vPc[p] # "idle"}) <= 1

\* A patcher, an editor or the game's own updater rewrites a cell.
OtherTool ==
    /\ \A p \in CProcs : cPc[p] = "idle"
    /\ \A p \in VProcs : vPc[p] = "idle"
    /\ \E c \in OtherCells, v \in Values : target' = [target EXCEPT ![c] = v]
    /\ UNCHANGED <<cVars, vVars>>

Next == Color \/ Vector

\* Calls in any interleaving.
Spec == Init /\ [][Next]_vars

SerialNext ==
    \/ Color /\ AtMostOneBusy'
    \/ Vector /\ AtMostOneBusy'
    \/ OtherTool

\* Calls one after the other, as one careful user makes them, and other tools
\* in between.
SerialSpec == Init /\ [][SerialNext]_vars

\* A call that the system runs takes its next step; calls and kills are not
\* owed to anyone.
FairSerialSpec ==
    /\ SerialSpec
    /\ \A p \in CProcs : WF_vars((C!Step(p) \/ C!WriteFailure(p)) /\ UNCHANGED vVars)
    /\ \A p \in VProcs : WF_vars((V!Step(p) \/ V!WriteFailure(p)) /\ UNCHANGED cVars)
-----------------------------------------------------------------------------
(* Properties *)

Edited == UNION ({CPayload[s] : s \in CSites} \cup {VPayload[s] : s \in VSites})

\* The two backups are taken at different times, of a file both writers
\* edit, and either may hold the other's edit.  However the calls race, one
\* of them is the original, so the original is never lost.
SomeBackupPristine ==
    target # Original \/ cBackup # NoFile \/ vBackup # NoFile
        => Original \in {cBackup, vBackup}

\* Nothing outside the payloads and windows of the sites ever differs from
\* the original, in the target or in a backup.
OnlyWindowsChange ==
    \A d \in {target, cBackup, vBackup} \ {NoFile} :
        C!Changed(Original, d) \subseteq Edited

\* As long as the colour writer has not saved anything, and so not edited
\* anything, the vector writer's backup is the original and undoes every
\* edit, however its own calls race: although apply_vector takes the backup
\* from the first of its two reads and looks for it twice.
VectorRecoverable == cBackup = NoFile => V!BackupPristine /\ V!Recoverable

\* Together the writers keep the promise of one: the original is saved, by
\* one of them, before anything is edited, and stays saved.
Promise == INSTANCE EditableTarget
               WITH file <- target,
                    saved <- IF Original \in {cBackup, vBackup}
                             THEN Original ELSE NoFile,
                    Contents <- {d \in [Cells -> Values] :
                                    C!Changed(Original, d) \subseteq Edited}

ImplementPromise == Promise!Spec

\* Called one at a time, an apply that lands has left a backup of exactly the
\* bytes it replaces, whatever the other writer or other tools did before.
NothingLost ==
    [][/\ \A p \in CProcs :
              C!MoveToTarget(p) /\ cResult[p] = "applying" => cBackup = target
       /\ \A p \in VProcs :
              V!MoveToTarget(p) /\ vResult[p] = "applying" => vBackup = target
      ]_vars

\* Called one at a time, the colour writer changes one payload only, even in
\* a restore from a backup that is older than edits made elsewhere; and so
\* does a vector apply, although its backup is of the whole file.
WritesConfined ==
    [][/\ \A p \in CProcs : C!MoveToTarget(p) =>
              \E s \in CSites : C!Changed(target, target') \subseteq CPayload[s]
       /\ \A p \in VProcs : V!MoveToTarget(p) /\ vResult[p] = "applying" =>
              \E s \in VSites : C!Changed(target, target') \subseteq VPayload[s]
      ]_vars

\* Called one at a time, every call comes to an end, however the files have
\* been changed in between.
CallsFinish ==
    /\ \A p \in CProcs : cPc[p] # "idle" ~> cPc[p] = "idle"
    /\ \A p \in VProcs : vPc[p] # "idle" ~> vPc[p] = "idle"

\* Called one at a time, the vector writer changes one 16-byte window only
\* (CHANGELOG.md, 0.4.0: "limited to a proven 16-byte operand window").
VectorWritesConfined ==
    [][\A p \in VProcs : V!MoveToTarget(p) =>
           \E s \in VSites : C!Changed(target, target') \subseteq VPayload[s]]_vars
-----------------------------------------------------------------------------
(* The inductive invariants *)

\* From these labels on, a call holds the bytes it means to write.
CArmed == {"probe", "compare", "create", "fill", "move"}
VArmed == CArmed \cup {"reprobe"}

\* The labels at which a vector call holds no bytes yet.
VBlank == {"idle", "lookup"}

\* What a call of each writer holds at each of its steps, whoever else edits
\* the target: in particular it goes for the target only behind a backup.
CHolds(p) ==
    /\ cPc[p] # "idle" => cSite[p] \in CSites /\ cSnap[p] \in C!Dlls
    /\ cPc[p] \in CArmed => cOut[p] \in C!Dlls
    /\ cPc[p] = "move" => cTmp[p] = "full"
    /\ cPc[p] \in {"compare", "fetch"} \/ C!Writing(p, "target") => cBackup # NoFile

VHolds(p) ==
    /\ vPc[p] # "idle" => vSite[p] \in VSites
    /\ vPc[p] \notin VBlank => vSnap[p] \in C!Dlls
    /\ vPc[p] \in VArmed => vOut[p] \in C!Dlls
    /\ vPc[p] = "move" => vTmp[p] = "full"
    /\ vPc[p] \in {"lookup", "compare", "fetch"} \/ V!Writing(p, "target")
           => vBackup # NoFile

CallsInOrder ==
    /\ C!TypeOK /\ \A p \in CProcs : CHolds(p)
    /\ V!TypeOK /\ \A p \in VProcs : VHolds(p)

\* The DLLs that differ from the original in the cells w only.
Near(w) == {d \in C!Dlls : C!Changed(Original, d) \subseteq w}

Windows == UNION {VPayload[s] : s \in VSites}

\* What the target and the vector writer's calls may hold.
Reach == IF cBackup = NoFile THEN Near(Windows) ELSE Near(Edited)

BytesNear ==
    /\ target \in Reach
    /\ cBackup \in Near(Edited) \cup {NoFile}
    /\ vBackup \in Reach \cup {NoFile}
    /\ \A p \in CProcs :
           /\ cPc[p] # "idle" => cSnap[p] \in Near(Edited)
           /\ cPc[p] \in CArmed => cOut[p] \in Near(Edited)
    /\ \A p \in VProcs :
           /\ vPc[p] \notin VBlank => vSnap[p] \in Reach
           /\ vPc[p] \in VArmed => vOut[p] \in Reach

\* Nothing has been saved: every call has read the original.
Fresh ==
    /\ target = Original /\ cBackup = NoFile /\ vBackup = NoFile
    /\ \A p \in CProcs : cPc[p] # "idle" => cSnap[p] = Original
    /\ \A p \in VProcs : vPc[p] \notin VBlank => vSnap[p] = Original

\* The original is in one writer's backup, and every call of that writer which
\* is about to put another one in its place has read the original too.
CSafe ==
    /\ cBackup = Original
    /\ \A p \in CProcs : C!Writing(p, "backup") => cSnap[p] = Original

VSafe ==
    /\ vBackup = Original
    /\ \A p \in VProcs : V!Writing(p, "backup") => vSnap[p] = Original

\* The writer that saves first saves the original, and its backup stays that.
RaceInv == CallsInOrder /\ BytesNear /\ (Fresh \/ CSafe \/ VSafe)

\* Called one at a time, what a call has read is still what the target holds,
\* what it means to write is one patch of that, and the backup it has made
\* sure of is a copy of it.
CTurn(p) ==
    /\ cPc[p] # "idle" => cSnap[p] = target
    /\ cPc[p] \in {"lookup", "fetch"} => cResult[p] = "restoring"
    /\ cPc[p] \in CArmed => C!Changed(target, cOut[p]) \subseteq CPayload[cSite[p]]
    /\ C!Writing(p, "target") /\ cResult[p] = "applying" => cBackup = target

VTurn(p) ==
    /\ vPc[p] \notin VBlank => vSnap[p] = target
    /\ vPc[p] \in {"lookup", "fetch"} => vResult[p] = "restoring"
    /\ vPc[p] \in VArmed /\ vResult[p] = "applying" =>
           C!Changed(target, vOut[p]) \subseteq VPayload[vSite[p]]
    /\ vPc[p] = "reprobe" => vBackup \in {NoFile, target}
    /\ V!Writing(p, "target") /\ vResult[p] = "applying" => vBackup = target

SerialInv ==
    /\ CallsInOrder /\ AtMostOneBusy
    /\ \A p \in CProcs : CTurn(p)
    /\ \A p \in VProcs : VTurn(p)
=============================================================================
