-------------------------- MODULE TwoWritersProofs ---------------------------
(***************************************************************************)
(* That the two writers together never lose the original, for every number *)
(* of processes of each, every DLL, every set of sites and every ownership *)
(* of records.                                                             *)
(*                                                                         *)
(* The proofs go in two stages.  First each action of each writer is shown *)
(* to be, for the call that takes it, one of a few moves; then the         *)
(* invariants are shown to survive the moves.                              *)
(***************************************************************************)
EXTENDS TwoWriters, FiniteSetTheorems, TLAPS

-----------------------------------------------------------------------------
(* The moves of a colour call *)

CFilesKept == target' = target /\ cBackup' = cBackup

\* The call is over and has changed nothing.
CQuits(p) == cPc'[p] = "idle" /\ CFilesKept

\* A call starts with what the target holds.
CReads(p) ==
    /\ cPc[p] = "idle" /\ CFilesKept
    /\ cSnap'[p] = target /\ cSite'[p] \in CSites
    /\ \/ /\ cPc'[p] = "probe" /\ cResult'[p] = "applying"
          /\ \E w \in [CPayload[cSite'[p]] -> Values] :
                 cOut'[p] = C!Patched(target, cSite'[p], w)
       \/ cPc'[p] = "lookup" /\ cResult'[p] = "restoring"

\* A call goes on with what it holds.
CHeld(p) ==
    /\ cSnap'[p] = cSnap[p] /\ cSite'[p] = cSite[p] /\ cResult'[p] = cResult[p]

CGoes(p) ==
    /\ CFilesKept /\ CHeld(p) /\ cOut'[p] = cOut[p]
    /\ \/ cPc[p] = "probe" /\ cPc'[p] = "compare" /\ cBackup # NoFile
       \/ /\ cPc[p] = "probe" /\ cPc'[p] = "create" /\ cDest'[p] = "backup"
          /\ cBackup = NoFile
       \/ /\ cPc[p] = "compare" /\ cPc'[p] = "create" /\ cDest'[p] = "target"
          /\ cBackup = cSnap[p]
       \/ cPc[p] = "lookup" /\ cPc'[p] = "fetch" /\ cBackup # NoFile
       \/ /\ cPc[p] \in {"create", "fill"} /\ cDest'[p] = cDest[p]
          /\ cPc'[p] \in {"fill", "move"} /\ (cPc'[p] = "move" => cTmp'[p] = "full")

\* A restore takes one payload from the backup.
CFetches(p) ==
    /\ CFilesKept /\ CHeld(p)
    /\ cPc[p] = "fetch" /\ cPc'[p] = "create" /\ cDest'[p] = "target"
    /\ cOut'[p] = C!Patched(cSnap[p], cSite[p], cBackup)

\* The backup becomes what the call has read.
CSaves(p) ==
    /\ C!Writing(p, "backup") /\ target' = target /\ cBackup' = cSnap[p]
    /\ CHeld(p) /\ cOut'[p] = cOut[p]
    /\ cPc'[p] = "create" /\ cDest'[p] = "target"

\* The target becomes what the call means to put there.
CLands(p) ==
    /\ cPc[p] = "move" /\ cDest[p] = "target"
    /\ target' = cOut[p] /\ cBackup' = cBackup /\ cPc'[p] = "idle"

COthers(p) ==
    \A q \in CProcs \ {p} :
        /\ cPc'[q] = cPc[q] /\ cDest'[q] = cDest[q] /\ cTmp'[q] = cTmp[q]
        /\ cSite'[q] = cSite[q] /\ cSnap'[q] = cSnap[q] /\ cOut'[q] = cOut[q]
        /\ cResult'[q] = cResult[q]

CMoves(p) ==
    /\ C!TypeOK' /\ COthers(p)
    /\ \/ CQuits(p) \/ CReads(p) \/ CGoes(p) \/ CFetches(p)
       \/ CSaves(p) \/ CLands(p)

-----------------------------------------------------------------------------

\* A DLL with a payload taken from values is a DLL.
LEMMA PatchedType ==
    ASSUME NEW d \in C!Dlls, NEW s \in CSites, NEW w,
           \A c \in CPayload[s] : w[c] \in Values
    PROVE  C!Patched(d, s, w) \in C!Dlls
BY DEF C!Patched, C!Dlls

\* A colour call that ends without a write.
LEMMA CReturnMoves ==
    ASSUME NEW p \in CProcs, NEW how \in C!Results, CallsInOrder,
           C!Return(p, how), CFilesKept,
           cTmp' = cTmp \/ cTmp' = [cTmp EXCEPT ![p] = "none"],
           cLitter' \in SUBSET CProcs
    PROVE  CMoves(p)
<1> USE DEF CallsInOrder, C!TypeOK, C!DllFilesTypeOK
<1>1. C!TypeOK'
  BY DEF C!Return, CFilesKept, C!Labels
<1>2. CQuits(p) /\ COthers(p)
  BY DEF C!Return, CQuits, COthers
<1>3. QED BY <1>1, <1>2 DEF CMoves

LEMMA CAnswerMoves ==
    ASSUME NEW p \in CProcs, NEW how \in C!Results, CallsInOrder, C!Answer(p, how)
    PROVE  CMoves(p)
BY CReturnMoves DEF C!Answer, CallsInOrder, C!TypeOK, C!DllFilesTypeOK,
   CFilesKept, C!fileVars

LEMMA CApplyReadMoves ==
    ASSUME NEW p \in CProcs, CallsInOrder, C!ApplyRead(p)
    PROVE  CMoves(p)
<1> USE DEF CallsInOrder, C!TypeOK, C!DllFilesTypeOK
<1>1. PICK s \in CSites : \E w \in [CPayload[s] -> Values] :
          /\ cSite' = [cSite EXCEPT ![p] = s]
          /\ cSnap' = [cSnap EXCEPT ![p] = target]
          /\ cOut' = [cOut EXCEPT ![p] = C!Patched(target, s, w)]
  BY DEF C!ApplyRead
<1>2. PICK w \in [CPayload[s] -> Values] :
          /\ cSite' = [cSite EXCEPT ![p] = s]
          /\ cSnap' = [cSnap EXCEPT ![p] = target]
          /\ cOut' = [cOut EXCEPT ![p] = C!Patched(target, s, w)]
  BY <1>1
<1>3. /\ cPc[p] = "idle"
      /\ cPc' = [cPc EXCEPT ![p] = "probe"]
      /\ cResult' = [cResult EXCEPT ![p] = "applying"]
      /\ UNCHANGED <<target, cBackup, cDest, cTmp, cLitter>>
  BY DEF C!ApplyRead, C!fileVars
<1>4. C!Patched(target, s, w) \in C!Dlls
  <2>1. \A c \in CPayload[s] : w[c] \in Values
    OBVIOUS
  <2>2. QED BY <2>1, PatchedType
<1>5. C!TypeOK' /\ COthers(p)
  BY <1>2, <1>3, <1>4 DEF C!Labels, C!Results, COthers
<1>6. CReads(p)
  BY <1>2, <1>3 DEF CReads, CFilesKept
<1>7. QED BY <1>5, <1>6 DEF CMoves

LEMMA CRestoreReadMoves ==
    ASSUME NEW p \in CProcs, CallsInOrder, C!RestoreRead(p)
    PROVE  CMoves(p)
<1> USE DEF CallsInOrder, C!TypeOK, C!DllFilesTypeOK
<1>1. PICK s \in CSites : cSite' = [cSite EXCEPT ![p] = s]
  BY DEF C!RestoreRead
<1>2. /\ cPc[p] = "idle"
      /\ cSnap' = [cSnap EXCEPT ![p] = target]
      /\ cPc' = [cPc EXCEPT ![p] = "lookup"]
      /\ cResult' = [cResult EXCEPT ![p] = "restoring"]
      /\ UNCHANGED <<target, cBackup, cOut, cDest, cTmp, cLitter>>
  BY DEF C!RestoreRead, C!fileVars
<1>3. C!TypeOK' /\ COthers(p)
  BY <1>1, <1>2 DEF C!Labels, C!Results, COthers
<1>4. CReads(p)
  BY <1>1, <1>2 DEF CReads, CFilesKept
<1>5. QED BY <1>3, <1>4 DEF CMoves

\* The steps that look at the backup, and those on the temporary file.
LEMMA CGoesMoves ==
    ASSUME NEW p \in CProcs, CallsInOrder,
           \/ C!ProbeBackup(p) \/ C!CompareBackup(p) \/ C!LookupBackup(p)
           \/ C!CreateTemp(p) \/ C!FillTemp(p)
    PROVE  CMoves(p)
<1> USE DEF CallsInOrder, C!TypeOK, C!DllFilesTypeOK, C!Goto, C!BeginWrite,
            C!fileVars, C!callVars, C!Labels
<1>1. CASE C!ProbeBackup(p)
  <2>1. C!TypeOK' BY <1>1 DEF C!ProbeBackup
  <2>2. COthers(p) BY <1>1 DEF C!ProbeBackup, COthers
  <2>3. CGoes(p) BY <1>1 DEF C!ProbeBackup, CGoes, CFilesKept, CHeld
  <2>4. QED BY <2>1, <2>2, <2>3 DEF CMoves
<1>2. CASE C!CompareBackup(p)
  <2>1. CASE C!Answer(p, "refused")
    BY <2>1, CAnswerMoves DEF C!Results
  <2>2. CASE /\ cBackup = cSnap[p] /\ C!BeginWrite(p, "target")
             /\ UNCHANGED <<C!fileVars, C!callVars, cTmp, cLitter, cResult>>
    <3>0. cPc[p] = "compare" BY <1>2 DEF C!CompareBackup
    <3>1. C!TypeOK' BY <2>2
    <3>2. COthers(p) BY <2>2 DEF COthers
    <3>3. CGoes(p) BY <2>2, <3>0 DEF CGoes, CFilesKept, CHeld
    <3>4. QED BY <3>1, <3>2, <3>3 DEF CMoves
  <2>3. QED BY <1>2, <2>1, <2>2 DEF C!CompareBackup
<1>3. CASE C!LookupBackup(p)
  <2>1. CASE C!Answer(p, "refused")
    BY <2>1, CAnswerMoves DEF C!Results
  <2>2. CASE cBackup # NoFile /\ C!Goto(p, "fetch")
    <3>0. cPc[p] = "lookup" BY <1>3 DEF C!LookupBackup
    <3>1. C!TypeOK' BY <2>2
    <3>2. COthers(p) BY <2>2 DEF COthers
    <3>3. CGoes(p) BY <2>2, <3>0 DEF CGoes, CFilesKept, CHeld
    <3>4. QED BY <3>1, <3>2, <3>3 DEF CMoves
  <2>3. QED BY <1>3, <2>1, <2>2 DEF C!LookupBackup
<1>4. CASE C!CreateTemp(p) \/ C!FillTemp(p)
  <2> USE DEF C!CreateTemp, C!FillTemp
  <2>1. C!TypeOK' BY <1>4
  <2>2. COthers(p) BY <1>4 DEF COthers
  <2>3. CGoes(p) BY <1>4 DEF CGoes, CFilesKept, CHeld
  <2>4. QED BY <2>1, <2>2, <2>3 DEF CMoves
<1>5. QED BY <1>1, <1>2, <1>3, <1>4

LEMMA CFetchBackupMoves ==
    ASSUME NEW p \in CProcs, CallsInOrder, C!FetchBackup(p)
    PROVE  CMoves(p)
<1>1. CASE C!Answer(p, "refused")
  BY <1>1, CAnswerMoves DEF C!Results
<1>2. CASE /\ cOut' = [cOut EXCEPT ![p] = C!Patched(cSnap[p], cSite[p], cBackup)]
           /\ C!BeginWrite(p, "target")
           /\ UNCHANGED <<C!fileVars, cSite, cSnap, cTmp, cLitter, cResult>>
  <2> USE <1>2 DEF CallsInOrder, C!TypeOK, C!DllFilesTypeOK, C!BeginWrite, C!fileVars
  <2>1. /\ cPc[p] = "fetch" /\ cBackup \in C!Dlls
        /\ cSite[p] \in CSites /\ cSnap[p] \in C!Dlls
    BY DEF C!FetchBackup, CHolds
  <2>2. C!Patched(cSnap[p], cSite[p], cBackup) \in C!Dlls
    <3>1. \A c \in CPayload[cSite[p]] : cBackup[c] \in Values
      BY <2>1, TwoWritersAssumption DEF C!Dlls
    <3>2. QED BY <2>1, <3>1, PatchedType
  <2>3. C!TypeOK' BY <2>2 DEF C!Labels
  <2>4. COthers(p) BY DEF COthers
  <2>5. CFetches(p) BY <2>1 DEF CFetches, CFilesKept, CHeld
  <2>6. QED BY <2>3, <2>4, <2>5 DEF CMoves
<1>3. QED BY <1>1, <1>2 DEF C!FetchBackup

LEMMA CMoveMoves ==
    ASSUME NEW p \in CProcs, CallsInOrder, C!MoveToBackup(p) \/ C!MoveToTarget(p)
    PROVE  CMoves(p)
<1> USE DEF CallsInOrder, C!TypeOK, C!DllFilesTypeOK, C!BeginWrite, C!Return,
            C!callVars
<1>1. CASE C!MoveToBackup(p)
  <2> USE <1>1 DEF C!MoveToBackup
  <2>1. cSnap[p] \in C!Dlls /\ cBackup' = cSnap[p]
    BY DEF CHolds, C!Moved
  <2>2. C!TypeOK' BY <2>1 DEF C!Labels
  <2>3. COthers(p) BY DEF COthers
  <2>4. CSaves(p) BY <2>1 DEF CSaves, C!Writing, CHeld
  <2>5. QED BY <2>2, <2>3, <2>4 DEF CMoves
<1>2. CASE C!MoveToTarget(p)
  <2> USE <1>2 DEF C!MoveToTarget
  <2>1. cOut[p] \in C!Dlls /\ target' = cOut[p]
    BY DEF CHolds, C!Moved, CArmed
  <2>2. C!TypeOK' BY <2>1 DEF C!Labels, C!Results
  <2>3. COthers(p) BY DEF COthers
  <2>4. CLands(p) BY <2>1 DEF CLands
  <2>5. QED BY <2>2, <2>3, <2>4 DEF CMoves
<1>3. QED BY <1>1, <1>2

\* Failures and kills end the call and touch no file but the temporary one.
LEMMA CFaultMoves ==
    ASSUME NEW p \in CProcs, CallsInOrder, C!Fault(p)
    PROVE  CMoves(p)
<1> USE DEF C!Results, CFilesKept, C!fileVars
<1>0. cLitter \in SUBSET CProcs
  BY DEF CallsInOrder, C!TypeOK, C!DllFilesTypeOK
<1>1. CASE C!CreateFails(p)
  BY <1>1, CAnswerMoves DEF C!CreateFails
<1>2. CASE C!WriteFails(p)
  BY <1>0, <1>2, CReturnMoves DEF C!WriteFails
<1>3. CASE C!ReplaceFails(p)
  BY <1>0, <1>3, CReturnMoves DEF C!ReplaceFails
<1>4. CASE C!Kill(p)
  <2>1. cLitter' \in SUBSET CProcs
    BY <1>0, <1>4 DEF C!Kill
  <2>2. QED BY <1>4, <2>1, CReturnMoves DEF C!Kill
<1>5. QED BY <1>1, <1>2, <1>3, <1>4 DEF C!Fault, C!WriteFailure

\* Every step of the colour writer is a move of one of its calls.
LEMMA CNextMoves ==
    ASSUME CallsInOrder, C!Next
    PROVE  \E p \in CProcs : CMoves(p)
<1>1. PICK p \in CProcs : C!Call(p) \/ C!Step(p) \/ C!Fault(p)
  BY DEF C!Next
<1>2. CASE C!Check(p)
  <2>1. C!Answer(p, "checked") \/ C!Answer(p, "refused")
    BY <1>2 DEF C!Check
  <2>2. QED BY <2>1, CAnswerMoves DEF C!Results
<1>3. CASE C!Call(p)
  BY <1>2, <1>3, CApplyReadMoves, CRestoreReadMoves DEF C!Call
<1>4. CASE C!Step(p)
  BY <1>4, CGoesMoves, CFetchBackupMoves, CMoveMoves DEF C!Step, C!WriteStep
<1>5. CASE C!Fault(p)
  BY <1>5, CFaultMoves
<1>6. QED BY <1>1, <1>3, <1>4, <1>5

-----------------------------------------------------------------------------
(* The moves of a vector call *)

VFilesKept == target' = target /\ vBackup' = vBackup

VHeld(p) == vSite'[p] = vSite[p] /\ vResult'[p] = vResult[p]

VQuits(p) == vPc'[p] = "idle" /\ VFilesKept

\* apply_vector's first read.
VReads(p) ==
    /\ vPc[p] = "idle" /\ vPc'[p] = "reread" /\ VFilesKept
    /\ vSite'[p] \in VSites /\ vSnap'[p] = target /\ vResult'[p] = "applying"

\* Its second, which is what it patches.
VPatches(p) ==
    /\ vPc[p] = "reread" /\ vPc'[p] = "probe" /\ VFilesKept /\ VHeld(p)
    /\ vSnap'[p] = vSnap[p]
    /\ \E w \in [VPayload[vSite[p]] -> Values] :
           vOut'[p] = V!Patched(target, vSite[p], w)

\* restore_vector finds a backup, then reads the target.
VFinds(p) ==
    /\ vPc[p] = "idle" /\ vPc'[p] = "lookup" /\ VFilesKept
    /\ vBackup # NoFile /\ vSite'[p] \in VSites /\ vResult'[p] = "restoring"

VRereads(p) ==
    /\ vPc[p] = "lookup" /\ vPc'[p] = "fetch" /\ VFilesKept /\ VHeld(p)
    /\ vSnap'[p] = target

VGoes(p) ==
    /\ VFilesKept /\ VHeld(p) /\ vSnap'[p] = vSnap[p] /\ vOut'[p] = vOut[p]
    /\ \/ vPc[p] = "probe" /\ vPc'[p] = "reprobe" /\ vBackup = NoFile
       \/ vPc[p] = "probe" /\ vPc'[p] = "compare" /\ vBackup # NoFile
       \/ vPc[p] = "compare" /\ vPc'[p] = "reprobe" /\ vBackup = vSnap[p]
       \/ /\ vPc[p] = "reprobe" /\ vPc'[p] = "create" /\ vDest'[p] = "backup"
          /\ vBackup = NoFile
       \/ /\ vPc[p] = "reprobe" /\ vPc'[p] = "create" /\ vDest'[p] = "target"
          /\ vBackup # NoFile
       \/ /\ vPc[p] \in {"create", "fill"} /\ vDest'[p] = vDest[p]
          /\ vPc'[p] \in {"fill", "move"} /\ (vPc'[p] = "move" => vTmp'[p] = "full")

\* A restore takes the whole backup.
VFetches(p) ==
    /\ VFilesKept /\ VHeld(p) /\ vSnap'[p] = vSnap[p] /\ vOut'[p] = vBackup
    /\ vPc[p] = "fetch" /\ vPc'[p] = "create" /\ vDest'[p] = "target"

VSaves(p) ==
    /\ V!Writing(p, "backup") /\ target' = target /\ vBackup' = vSnap[p]
    /\ VHeld(p) /\ vSnap'[p] = vSnap[p] /\ vOut'[p] = vOut[p]
    /\ vPc'[p] = "create" /\ vDest'[p] = "target"

VLands(p) ==
    /\ vPc[p] = "move" /\ vDest[p] = "target"
    /\ target' = vOut[p] /\ vBackup' = vBackup /\ vPc'[p] = "idle"

VOthers(p) ==
    \A q \in VProcs \ {p} :
        /\ vPc'[q] = vPc[q] /\ vDest'[q] = vDest[q] /\ vTmp'[q] = vTmp[q]
        /\ vSite'[q] = vSite[q] /\ vSnap'[q] = vSnap[q] /\ vOut'[q] = vOut[q]
        /\ vResult'[q] = vResult[q]

VMoves(p) ==
    /\ V!TypeOK' /\ VOthers(p)
    /\ \/ VQuits(p) \/ VReads(p) \/ VPatches(p) \/ VFinds(p) \/ VRereads(p)
       \/ VGoes(p) \/ VFetches(p) \/ VSaves(p) \/ VLands(p)

-----------------------------------------------------------------------------

LEMMA VPatchedType ==
    ASSUME NEW d \in C!Dlls, NEW s \in VSites, NEW w,
           \A c \in VPayload[s] : w[c] \in Values
    PROVE  V!Patched(d, s, w) \in C!Dlls
BY DEF V!Patched, C!Dlls

\* A vector call that ends without a write.
LEMMA VReturnMoves ==
    ASSUME NEW p \in VProcs, NEW how \in V!Results, CallsInOrder,
           V!Return(p, how), VFilesKept,
           vTmp' = vTmp \/ vTmp' = [vTmp EXCEPT ![p] = "none"],
           vLitter' \in SUBSET VProcs
    PROVE  VMoves(p)
<1> USE DEF CallsInOrder, V!TypeOK, V!DllFilesTypeOK
<1>1. V!TypeOK'
  BY DEF V!Return, VFilesKept, V!Labels
<1>2. VQuits(p) /\ VOthers(p)
  BY DEF V!Return, VQuits, VOthers
<1>3. QED BY <1>1, <1>2 DEF VMoves

LEMMA VAnswerMoves ==
    ASSUME NEW p \in VProcs, NEW how \in V!Results, CallsInOrder, V!Answer(p, how)
    PROVE  VMoves(p)
BY VReturnMoves DEF V!Answer, CallsInOrder, V!TypeOK, V!DllFilesTypeOK,
   VFilesKept, V!fileVars

LEMMA VApplyReadMoves ==
    ASSUME NEW p \in VProcs, CallsInOrder, V!ApplyRead(p)
    PROVE  VMoves(p)
<1> USE DEF CallsInOrder, V!TypeOK, V!DllFilesTypeOK
<1>1. PICK s \in VSites : vSite' = [vSite EXCEPT ![p] = s]
  BY DEF V!ApplyRead
<1>2. /\ vPc[p] = "idle"
      /\ vSnap' = [vSnap EXCEPT ![p] = target]
      /\ vPc' = [vPc EXCEPT ![p] = "reread"]
      /\ vResult' = [vResult EXCEPT ![p] = "applying"]
      /\ UNCHANGED <<target, vBackup, vOut, vDest, vTmp, vLitter>>
  BY DEF V!ApplyRead, V!fileVars
<1>3. V!TypeOK' /\ VOthers(p)
  BY <1>1, <1>2 DEF V!Labels, V!Results, VOthers
<1>4. VReads(p)
  BY <1>1, <1>2 DEF VReads, VFilesKept
<1>5. QED BY <1>3, <1>4 DEF VMoves

LEMMA VApplyRereadMoves ==
    ASSUME NEW p \in VProcs, CallsInOrder, V!ApplyReread(p)
    PROVE  VMoves(p)
<1>1. CASE V!Answer(p, "refused")
  BY <1>1, VAnswerMoves DEF V!Results
<1>2. CASE ~V!Answer(p, "refused")
  <2> USE DEF CallsInOrder, V!TypeOK, V!DllFilesTypeOK
  <2>1. PICK w \in [VPayload[vSite[p]] -> Values] :
            vOut' = [vOut EXCEPT ![p] = V!Patched(target, vSite[p], w)]
    BY <1>2 DEF V!ApplyReread
  <2>2. /\ vPc[p] = "reread"
        /\ vPc' = [vPc EXCEPT ![p] = "probe"]
        /\ UNCHANGED <<target, vBackup, vSite, vSnap, vDest, vTmp, vLitter, vResult>>
    BY <1>2 DEF V!ApplyReread, V!fileVars
  <2>3. V!Patched(target, vSite[p], w) \in C!Dlls
    <3>1. vSite[p] \in VSites
      BY <2>2 DEF VHolds
    <3>2. \A c \in VPayload[vSite[p]] : w[c] \in Values
      OBVIOUS
    <3>3. QED BY <3>1, <3>2, VPatchedType DEF C!TypeOK, C!DllFilesTypeOK
  <2>4. C!Dlls = V!Dlls
    BY DEF C!Dlls, V!Dlls
  <2>5. V!TypeOK' /\ VOthers(p)
    BY <2>1, <2>2, <2>3, <2>4 DEF V!Labels, VOthers
  <2>6. VPatches(p)
    BY <2>1, <2>2 DEF VPatches, VFilesKept, VHeld
  <2>7. QED BY <2>5, <2>6 DEF VMoves
<1>3. QED BY <1>1, <1>2

\* The steps that look at the backup, and those on the temporary file.
LEMMA VGoesMoves ==
    ASSUME NEW p \in VProcs, CallsInOrder,
           \/ V!ProbeBackup(p) \/ V!CompareBackup(p) \/ V!ReprobeBackup(p)
           \/ V!CreateTemp(p) \/ V!FillTemp(p)
    PROVE  VMoves(p)
<1> USE DEF CallsInOrder, V!TypeOK, V!DllFilesTypeOK, V!Goto, V!BeginWrite,
            V!fileVars, V!callVars, V!Labels
<1>1. CASE V!ProbeBackup(p)
  <2>1. V!TypeOK' BY <1>1 DEF V!ProbeBackup
  <2>2. VOthers(p) BY <1>1 DEF V!ProbeBackup, VOthers
  <2>3. VGoes(p) BY <1>1 DEF V!ProbeBackup, VGoes, VFilesKept, VHeld
  <2>4. QED BY <2>1, <2>2, <2>3 DEF VMoves
<1>2. CASE V!CompareBackup(p)
  <2>1. CASE V!Answer(p, "refused")
    BY <2>1, VAnswerMoves DEF V!Results
  <2>2. CASE vBackup = vSnap[p] /\ V!Goto(p, "reprobe")
    <3>0. vPc[p] = "compare" BY <1>2 DEF V!CompareBackup
    <3>1. V!TypeOK' BY <2>2
    <3>2. VOthers(p) BY <2>2 DEF VOthers
    <3>3. VGoes(p) BY <2>2, <3>0 DEF VGoes, VFilesKept, VHeld
    <3>4. QED BY <3>1, <3>2, <3>3 DEF VMoves
  <2>3. QED BY <1>2, <2>1, <2>2 DEF V!CompareBackup
<1>3. CASE V!ReprobeBackup(p)
  <2>1. V!TypeOK' BY <1>3 DEF V!ReprobeBackup
  <2>2. VOthers(p) BY <1>3 DEF V!ReprobeBackup, VOthers
  <2>3. VGoes(p) BY <1>3 DEF V!ReprobeBackup, VGoes, VFilesKept, VHeld
  <2>4. QED BY <2>1, <2>2, <2>3 DEF VMoves
<1>4. CASE V!CreateTemp(p) \/ V!FillTemp(p)
  <2> USE DEF V!CreateTemp, V!FillTemp
  <2>1. V!TypeOK' BY <1>4
  <2>2. VOthers(p) BY <1>4 DEF VOthers
  <2>3. VGoes(p) BY <1>4 DEF VGoes, VFilesKept, VHeld
  <2>4. QED BY <2>1, <2>2, <2>3 DEF VMoves
<1>5. QED BY <1>1, <1>2, <1>3, <1>4

\* The three steps of a restore before it writes.
LEMMA VRestoreMoves ==
    ASSUME NEW p \in VProcs, CallsInOrder,
           V!LookupBackup(p) \/ V!RestoreRead(p) \/ V!FetchBackup(p)
    PROVE  VMoves(p)
<1> USE DEF CallsInOrder, V!TypeOK, V!DllFilesTypeOK, V!BeginWrite, V!fileVars
<1>1. CASE V!Answer(p, "refused")
  BY <1>1, VAnswerMoves DEF V!Results
<1>2. CASE V!LookupBackup(p) /\ ~V!Answer(p, "refused")
  <2>1. PICK s \in VSites : vSite' = [vSite EXCEPT ![p] = s]
    BY <1>2 DEF V!LookupBackup
  <2>2. /\ vPc[p] = "idle" /\ vBackup # NoFile
        /\ vPc' = [vPc EXCEPT ![p] = "lookup"]
        /\ vResult' = [vResult EXCEPT ![p] = "restoring"]
        /\ UNCHANGED <<target, vBackup, vSnap, vOut, vDest, vTmp, vLitter>>
    BY <1>2 DEF V!LookupBackup
  <2>3. V!TypeOK' /\ VOthers(p)
    BY <2>1, <2>2 DEF V!Labels, V!Results, VOthers
  <2>4. VFinds(p)
    BY <2>1, <2>2 DEF VFinds, VFilesKept
  <2>5. QED BY <2>3, <2>4 DEF VMoves
<1>3. CASE V!RestoreRead(p)
  <2>1. V!TypeOK' BY <1>3 DEF V!RestoreRead, V!Labels
  <2>2. VOthers(p) BY <1>3 DEF V!RestoreRead, VOthers
  <2>3. VRereads(p) BY <1>3 DEF V!RestoreRead, VRereads, VFilesKept, VHeld
  <2>4. QED BY <2>1, <2>2, <2>3 DEF VMoves
<1>4. CASE V!FetchBackup(p) /\ ~V!Answer(p, "refused")
  <2>1. /\ vPc[p] = "fetch"
        /\ vOut' = [vOut EXCEPT ![p] = vBackup]
        /\ V!BeginWrite(p, "target")
        /\ UNCHANGED <<target, vBackup, vSite, vSnap, vTmp, vLitter, vResult>>
    BY <1>4 DEF V!FetchBackup
  <2>2. V!TypeOK' BY <2>1 DEF V!Labels
  <2>3. VOthers(p) BY <2>1 DEF VOthers
  <2>4. VFetches(p) BY <2>1 DEF VFetches, VFilesKept, VHeld
  <2>5. QED BY <2>2, <2>3, <2>4 DEF VMoves
<1>5. QED BY <1>1, <1>2, <1>3, <1>4

LEMMA VMoveMoves ==
    ASSUME NEW p \in VProcs, CallsInOrder, V!MoveToBackup(p) \/ V!MoveToTarget(p)
    PROVE  VMoves(p)
<1> USE DEF CallsInOrder, V!TypeOK, V!DllFilesTypeOK, V!BeginWrite, V!Return,
            V!callVars, C!Dlls, V!Dlls
<1>1. CASE V!MoveToBackup(p)
  <2> USE <1>1 DEF V!MoveToBackup
  <2>1. vSnap[p] \in V!Dlls /\ vBackup' = vSnap[p]
    BY DEF VHolds, V!Moved, VBlank
  <2>2. V!TypeOK' BY <2>1 DEF V!Labels
  <2>3. VOthers(p) BY DEF VOthers
  <2>4. VSaves(p) BY <2>1 DEF VSaves, V!Writing, VHeld
  <2>5. QED BY <2>2, <2>3, <2>4 DEF VMoves
<1>2. CASE V!MoveToTarget(p)
  <2> USE <1>2 DEF V!MoveToTarget
  <2>1. vOut[p] \in V!Dlls /\ target' = vOut[p]
    BY DEF VHolds, V!Moved, VArmed, CArmed
  <2>2. V!TypeOK' BY <2>1 DEF V!Labels, V!Results
  <2>3. VOthers(p) BY DEF VOthers
  <2>4. VLands(p) BY <2>1 DEF VLands
  <2>5. QED BY <2>2, <2>3, <2>4 DEF VMoves
<1>3. QED BY <1>1, <1>2

LEMMA VFaultMoves ==
    ASSUME NEW p \in VProcs, CallsInOrder, V!Fault(p)
    PROVE  VMoves(p)
<1> USE DEF V!Results, VFilesKept, V!fileVars
<1>0. vLitter \in SUBSET VProcs
  BY DEF CallsInOrder, V!TypeOK, V!DllFilesTypeOK
<1>1. CASE V!CreateFails(p)
  BY <1>1, VAnswerMoves DEF V!CreateFails
<1>2. CASE V!WriteFails(p)
  BY <1>0, <1>2, VReturnMoves DEF V!WriteFails
<1>3. CASE V!ReplaceFails(p)
  BY <1>0, <1>3, VReturnMoves DEF V!ReplaceFails
<1>4. CASE V!Kill(p)
  <2>1. vLitter' \in SUBSET VProcs
    BY <1>0, <1>4 DEF V!Kill
  <2>2. QED BY <1>4, <2>1, VReturnMoves DEF V!Kill
<1>5. QED BY <1>1, <1>2, <1>3, <1>4 DEF V!Fault, V!WriteFailure

\* Every step of the vector writer is a move of one of its calls.
LEMMA VNextMoves ==
    ASSUME CallsInOrder, V!Next
    PROVE  \E p \in VProcs : VMoves(p)
<1>1. PICK p \in VProcs : V!Call(p) \/ V!Step(p) \/ V!Fault(p)
  BY DEF V!Next
<1>2. CASE V!Check(p)
  <2>1. V!Answer(p, "checked") \/ V!Answer(p, "refused")
    BY <1>2 DEF V!Check
  <2>2. QED BY <2>1, VAnswerMoves DEF V!Results
<1>3. CASE V!Call(p)
  BY <1>2, <1>3, VApplyReadMoves, VRestoreMoves DEF V!Call
<1>4. CASE V!Step(p)
  BY <1>4, VApplyRereadMoves, VGoesMoves, VRestoreMoves, VMoveMoves
  DEF V!Step, V!WriteStep
<1>5. CASE V!Fault(p)
  BY <1>5, VFaultMoves
<1>6. QED BY <1>1, <1>3, <1>4, <1>5

-----------------------------------------------------------------------------
(* What calls hold at each step, whoever edits the target *)

LEMMA SameDlls == C!Dlls = V!Dlls
BY DEF C!Dlls, V!Dlls

LEMMA CMoveInOrder ==
    ASSUME NEW p \in CProcs, CallsInOrder, CMoves(p), UNCHANGED vVars
    PROVE  CallsInOrder'
<1>1. C!TypeOK'
  BY DEF CMoves
<1>2. V!TypeOK'
  BY <1>1, SameDlls DEF CallsInOrder, C!TypeOK, C!DllFilesTypeOK,
     V!TypeOK, V!DllFilesTypeOK, vVars
<1>3. ASSUME NEW q \in VProcs PROVE VHolds(q)'
  BY DEF CallsInOrder, VHolds, V!Writing, vVars
<1>4. cBackup # NoFile => cBackup' # NoFile
  <2>1. CASE CSaves(p)
    <3>1. cSnap[p] \in C!Dlls
      BY <2>1 DEF CSaves, C!Writing, CallsInOrder, CHolds
    <3>2. QED BY <2>1, <3>1, TwoWritersAssumption DEF CSaves
  <2>2. CASE cBackup' = cBackup
    BY <2>2
  <2>3. QED BY <2>1, <2>2
    DEF CMoves, CQuits, CReads, CGoes, CFetches, CLands, CFilesKept
<1>5. ASSUME NEW q \in CProcs \ {p} PROVE CHolds(q)'
  <2>1. CHolds(q)
    BY DEF CallsInOrder
  <2>2. /\ cPc'[q] = cPc[q] /\ cDest'[q] = cDest[q] /\ cTmp'[q] = cTmp[q]
        /\ cSite'[q] = cSite[q] /\ cSnap'[q] = cSnap[q] /\ cOut'[q] = cOut[q]
    BY DEF CMoves, COthers
  <2>3. QED BY <1>4, <2>1, <2>2 DEF CHolds, C!Writing
<1>6. CHolds(p)'
  <2>0. CHolds(p) /\ target \in C!Dlls /\ cBackup \in C!Dlls \cup {NoFile}
    BY DEF CallsInOrder, C!TypeOK, C!DllFilesTypeOK
  <2>1. CASE CQuits(p) \/ CLands(p)
    BY <2>1 DEF CQuits, CLands, CHolds, C!Writing, CArmed
  <2>2. CASE CReads(p)
    <3>1. cPc'[p] = "probe" => cOut'[p] \in C!Dlls
      <4>1. ASSUME NEW w \in [CPayload[cSite'[p]] -> Values]
            PROVE  C!Patched(target, cSite'[p], w) \in C!Dlls
        <5>1. cSite'[p] \in CSites
          BY <2>2 DEF CReads
        <5>2. \A c \in CPayload[cSite'[p]] : w[c] \in Values
          OBVIOUS
        <5>3. QED BY <2>0, <5>1, <5>2, PatchedType
      <4>2. QED BY <2>2, <4>1 DEF CReads
    <3>2. QED BY <2>0, <2>2, <3>1 DEF CReads, CHolds, C!Writing, CArmed
  <2>3. CASE CGoes(p)
    BY <2>0, <2>3, TwoWritersAssumption
    DEF CGoes, CHeld, CFilesKept, CHolds, C!Writing, CArmed
  <2>4. CASE CFetches(p)
    <3>1. cOut'[p] \in C!Dlls
      BY <1>1, <2>4, TwoWritersAssumption, PatchedType, <2>0
      DEF CFetches, CHolds, C!Dlls
    <3>2. QED BY <2>0, <2>4, <3>1
      DEF CFetches, CHeld, CFilesKept, CHolds, C!Writing, CArmed
  <2>5. CASE CSaves(p)
    <3>1. cSnap[p] # NoFile
      BY <2>0, <2>5, TwoWritersAssumption DEF CSaves, C!Writing, CHolds
    <3>2. QED BY <2>0, <2>5, <3>1 DEF CSaves, CHeld, CHolds, C!Writing, CArmed
  <2>6. QED BY <2>1, <2>2, <2>3, <2>4, <2>5 DEF CMoves
<1>7. QED BY <1>1, <1>2, <1>3, <1>5, <1>6 DEF CallsInOrder

LEMMA VMoveInOrder ==
    ASSUME NEW p \in VProcs, CallsInOrder, VMoves(p), UNCHANGED cVars
    PROVE  CallsInOrder'
<1>1. V!TypeOK'
  BY DEF VMoves
<1>2. C!TypeOK'
  BY <1>1, SameDlls DEF CallsInOrder, C!TypeOK, C!DllFilesTypeOK,
     V!TypeOK, V!DllFilesTypeOK, cVars
<1>3. ASSUME NEW q \in CProcs PROVE CHolds(q)'
  BY DEF CallsInOrder, CHolds, C!Writing, cVars
<1>4. vBackup # NoFile => vBackup' # NoFile
  <2>1. CASE VSaves(p)
    <3>1. vSnap[p] \in C!Dlls
      BY <2>1 DEF VSaves, V!Writing, CallsInOrder, VHolds, VBlank
    <3>2. QED BY <2>1, <3>1, TwoWritersAssumption DEF VSaves
  <2>2. CASE vBackup' = vBackup
    BY <2>2
  <2>3. QED BY <2>1, <2>2
    DEF VMoves, VQuits, VReads, VPatches, VFinds, VRereads, VGoes, VFetches,
        VLands, VFilesKept
<1>5. ASSUME NEW q \in VProcs \ {p} PROVE VHolds(q)'
  <2>1. VHolds(q)
    BY DEF CallsInOrder
  <2>2. /\ vPc'[q] = vPc[q] /\ vDest'[q] = vDest[q] /\ vTmp'[q] = vTmp[q]
        /\ vSite'[q] = vSite[q] /\ vSnap'[q] = vSnap[q] /\ vOut'[q] = vOut[q]
    BY DEF VMoves, VOthers
  <2>3. QED BY <1>4, <2>1, <2>2 DEF VHolds, V!Writing, VBlank, VArmed, CArmed
<1>6. VHolds(p)'
  <2>0. VHolds(p) /\ target \in C!Dlls /\ vBackup \in C!Dlls \cup {NoFile}
    BY SameDlls DEF CallsInOrder, V!TypeOK, V!DllFilesTypeOK
  <2> USE DEF VHolds, V!Writing, VBlank, VArmed, CArmed
  <2>1. CASE VQuits(p) \/ VLands(p)
    BY <2>1 DEF VQuits, VLands
  <2>2. CASE VReads(p)
    BY <2>0, <2>2 DEF VReads
  <2>3. CASE VPatches(p)
    <3>1. vOut'[p] \in C!Dlls
      <4>1. ASSUME NEW w \in [VPayload[vSite[p]] -> Values]
            PROVE  V!Patched(target, vSite[p], w) \in C!Dlls
        <5>1. vSite[p] \in VSites
          BY <2>0, <2>3 DEF VPatches
        <5>2. \A c \in VPayload[vSite[p]] : w[c] \in Values
          OBVIOUS
        <5>3. QED BY <2>0, <5>1, <5>2, VPatchedType
      <4>2. QED BY <2>3, <4>1 DEF VPatches
    <3>2. QED BY <2>0, <2>3, <3>1 DEF VPatches, VHeld
  <2>4. CASE VFinds(p) \/ VRereads(p)
    BY <2>0, <2>4 DEF VFinds, VRereads, VFilesKept, VHeld
  <2>5. CASE VGoes(p)
    BY <2>0, <2>5, TwoWritersAssumption DEF VGoes, VHeld, VFilesKept
  <2>6. CASE VFetches(p)
    BY <2>0, <2>6, TwoWritersAssumption DEF VFetches, VHeld, VFilesKept
  <2>7. CASE VSaves(p)
    BY <2>0, <2>7, TwoWritersAssumption DEF VSaves, VHeld
  <2>8. QED BY <2>1, <2>2, <2>3, <2>4, <2>5, <2>6, <2>7 DEF VMoves
<1>7. QED BY <1>1, <1>2, <1>3, <1>5, <1>6 DEF CallsInOrder

LEMMA OtherToolInOrder ==
    ASSUME CallsInOrder, OtherTool
    PROVE  CallsInOrder'
<1>1. PICK c \in OtherCells, v \in Values : target' = [target EXCEPT ![c] = v]
  BY DEF OtherTool
<1>2. target \in C!Dlls
  BY DEF CallsInOrder, C!TypeOK, C!DllFilesTypeOK
<1>3. target' \in C!Dlls
  BY <1>1, <1>2 DEF C!Dlls
<1>4. UNCHANGED <<cVars, vVars>>
  BY DEF OtherTool
<1>5. C!TypeOK' /\ V!TypeOK'
  BY <1>3, <1>4, SameDlls DEF CallsInOrder, cVars, vVars, C!TypeOK,
     C!DllFilesTypeOK, V!TypeOK, V!DllFilesTypeOK
<1>6. /\ \A q \in CProcs : CHolds(q)'
      /\ \A q \in VProcs : VHolds(q)'
  BY <1>4 DEF CallsInOrder, cVars, vVars, CHolds, VHolds, C!Writing, V!Writing
<1>7. QED BY <1>5, <1>6 DEF CallsInOrder

LEMMA StutterInOrder ==
    ASSUME CallsInOrder, UNCHANGED vars
    PROVE  CallsInOrder'
BY DEF CallsInOrder, vars, cVars, vVars, C!TypeOK, C!DllFilesTypeOK,
   V!TypeOK, V!DllFilesTypeOK, CHolds, VHolds, C!Writing, V!Writing

LEMMA InitInOrder ==
    ASSUME Init
    PROVE  CallsInOrder
<1> USE DEF Init, C!Init, C!DllFilesInit, V!Init, V!DllFilesInit
<1>1. C!TypeOK
  BY TwoWritersAssumption DEF C!TypeOK, C!DllFilesTypeOK, C!Labels, C!Results
<1>2. V!TypeOK
  BY TwoWritersAssumption, SameDlls
  DEF V!TypeOK, V!DllFilesTypeOK, V!Labels, V!Results
<1>3. /\ \A q \in CProcs : CHolds(q)
      /\ \A q \in VProcs : VHolds(q)
  BY DEF CHolds, VHolds, C!Writing, V!Writing, CArmed, VArmed, VBlank
<1>4. QED BY <1>1, <1>2, <1>3 DEF CallsInOrder

-----------------------------------------------------------------------------
(* Calls in any interleaving: the bytes stay near the original *)

\* A patch inside w leaves a DLL near the original.
LEMMA CPatchedNear ==
    ASSUME NEW w, NEW d \in Near(w), NEW s \in CSites, NEW b,
           CPayload[s] \subseteq w, \A c \in CPayload[s] : b[c] \in Values
    PROVE  C!Patched(d, s, b) \in Near(w)
BY PatchedType DEF Near, C!Changed, C!Patched

LEMMA VPatchedNear ==
    ASSUME NEW w, NEW d \in Near(w), NEW s \in VSites, NEW b,
           VPayload[s] \subseteq w, \A c \in VPayload[s] : b[c] \in Values
    PROVE  V!Patched(d, s, b) \in Near(w)
BY VPatchedType DEF Near, C!Changed, V!Patched

LEMMA PayloadsEdited ==
    /\ \A s \in CSites : CPayload[s] \subseteq Edited
    /\ \A s \in VSites : VPayload[s] \subseteq Windows
    /\ Windows \subseteq Edited
BY DEF Edited, Windows

\* What may be reached only grows.
LEMMA ReachGrows ==
    /\ Reach \subseteq Near(Edited)
    /\ Near(Windows) \subseteq Reach
    /\ cBackup # NoFile => Reach = Near(Edited)
BY PayloadsEdited DEF Reach, Near

\* The original is near itself, and no stand-in for a missing file is.
LEMMA OriginalNear ==
    /\ Original \in Near(Windows)
    /\ NoFile \notin Near(Edited)
    /\ \A w : Near(w) \subseteq C!Dlls
BY TwoWritersAssumption DEF Near, C!Changed

LEMMA CMoveNear ==
    ASSUME NEW p \in CProcs, CallsInOrder, BytesNear, CMoves(p), UNCHANGED vVars
    PROVE  BytesNear' /\ (cBackup # NoFile => cBackup' # NoFile)
<1>0. /\ CHolds(p) /\ target \in Reach /\ target \in Near(Edited)
      /\ cBackup \in Near(Edited) \cup {NoFile}
      /\ cPc[p] # "idle" => cSnap[p] \in Near(Edited)
      /\ cPc[p] \in CArmed => cOut[p] \in Near(Edited)
  BY ReachGrows DEF CallsInOrder, BytesNear
<1>1. cBackup' = cBackup \/ cBackup' \in Near(Edited)
  BY <1>0 DEF CMoves, CQuits, CReads, CGoes, CFetches, CSaves, CLands,
     CFilesKept, C!Writing
<1>2. Reach' = Reach \/ Reach' = Near(Edited)
  BY <1>1, OriginalNear DEF Reach
<1>3. target' = target \/ (target' \in Near(Edited) /\ Reach' = Near(Edited))
  <2>1. CASE CLands(p)
    <3>1. cBackup' # NoFile
      BY <1>0, <2>1 DEF CLands, CHolds, C!Writing
    <3>2. QED BY <1>0, <2>1, <3>1 DEF CLands, CArmed, Reach
  <2>2. QED BY <2>1 DEF CMoves, CQuits, CReads, CGoes, CFetches, CSaves,
     CFilesKept
<1>4. target' \in Reach'
  BY <1>0, <1>2, <1>3
<1>5. vBackup' \in Reach' \cup {NoFile}
  BY <1>2, ReachGrows DEF BytesNear, vVars
<1>6. ASSUME NEW q \in VProcs
      PROVE  /\ vPc'[q] \notin VBlank => vSnap'[q] \in Reach'
             /\ vPc'[q] \in VArmed => vOut'[q] \in Reach'
  BY <1>2, ReachGrows DEF BytesNear, vVars
<1>7. ASSUME NEW q \in CProcs
      PROVE  /\ cPc'[q] # "idle" => cSnap'[q] \in Near(Edited)
             /\ cPc'[q] \in CArmed => cOut'[q] \in Near(Edited)
  <2>1. CASE q # p
    BY <2>1 DEF CMoves, COthers, BytesNear
  <2>2. CASE q = p
    <3> USE <2>2
    <3>1. CASE CQuits(p) \/ CLands(p)
      BY <3>1 DEF CQuits, CLands, CArmed
    <3>2. CASE CReads(p)
      <4>1. ASSUME NEW w \in [CPayload[cSite'[p]] -> Values]
            PROVE  C!Patched(target, cSite'[p], w) \in Near(Edited)
        <5>1. cSite'[p] \in CSites
          BY <3>2 DEF CReads
        <5>2. \A c \in CPayload[cSite'[p]] : w[c] \in Values
          OBVIOUS
        <5>3. QED BY <1>0, <5>1, <5>2, CPatchedNear, PayloadsEdited
      <4>2. QED BY <1>0, <3>2, <4>1 DEF CReads, CArmed
    <3>3. CASE CGoes(p)
      BY <1>0, <3>3 DEF CGoes, CHeld, CArmed
    <3>4. CASE CFetches(p)
      <4>1. cBackup \in Near(Edited) /\ cSnap[p] \in Near(Edited) /\ cSite[p] \in CSites
        BY <1>0, <3>4 DEF CFetches, CHolds
      <4>2. \A c \in CPayload[cSite[p]] : cBackup[c] \in Values
        BY <4>1, TwoWritersAssumption DEF Near, C!Dlls
      <4>3. C!Patched(cSnap[p], cSite[p], cBackup) \in Near(Edited)
        BY <4>1, <4>2, CPatchedNear, PayloadsEdited
      <4>4. QED BY <3>4, <4>1, <4>3 DEF CFetches, CHeld
    <3>5. CASE CSaves(p)
      BY <1>0, <3>5 DEF CSaves, CHeld, C!Writing, CArmed
    <3>6. QED BY <3>1, <3>2, <3>3, <3>4, <3>5 DEF CMoves
  <2>3. QED BY <2>1, <2>2
<1>8. cBackup' \in Near(Edited) \cup {NoFile}
  BY <1>0, <1>1
<1>9. cBackup # NoFile => cBackup' # NoFile
  BY <1>1, OriginalNear
<1>10. QED BY <1>4, <1>5, <1>6, <1>7, <1>8, <1>9 DEF BytesNear

LEMMA VMoveNear ==
    ASSUME NEW p \in VProcs, CallsInOrder, BytesNear, VMoves(p), UNCHANGED cVars
    PROVE  BytesNear' /\ (vBackup # NoFile => vBackup' # NoFile)
<1>0. /\ VHolds(p) /\ target \in Reach
      /\ vBackup \in Reach \cup {NoFile}
      /\ vPc[p] \notin VBlank => vSnap[p] \in Reach
      /\ vPc[p] \in VArmed => vOut[p] \in Reach
  BY DEF CallsInOrder, BytesNear
<1>1. vBackup' = vBackup \/ vBackup' \in Reach
  BY <1>0 DEF VMoves, VQuits, VReads, VPatches, VFinds, VRereads, VGoes,
     VFetches, VSaves, VLands, VFilesKept, V!Writing, VBlank
<1>2. target' = target \/ target' \in Reach
  BY <1>0 DEF VMoves, VQuits, VReads, VPatches, VFinds, VRereads, VGoes,
     VFetches, VSaves, VLands, VFilesKept, VArmed, CArmed
<1>3. Reach' = Reach
  BY DEF Reach, cVars
<1>4. \A s \in VSites : \A b : \A d \in Reach :
          (\A c \in VPayload[s] : b[c] \in Values) => V!Patched(d, s, b) \in Reach
  <2>1. CASE cBackup = NoFile
    BY <2>1, VPatchedNear, PayloadsEdited DEF Reach
  <2>2. CASE cBackup # NoFile
    BY <2>2, VPatchedNear, PayloadsEdited DEF Reach
  <2>3. QED BY <2>1, <2>2
<1>5. ASSUME NEW q \in VProcs
      PROVE  /\ vPc'[q] \notin VBlank => vSnap'[q] \in Reach
             /\ vPc'[q] \in VArmed => vOut'[q] \in Reach
  <2>1. CASE q # p
    BY <2>1 DEF VMoves, VOthers, BytesNear
  <2>2. CASE q = p
    <3> USE <2>2 DEF VBlank, VArmed, CArmed
    <3>1. CASE VQuits(p) \/ VLands(p) \/ VFinds(p)
      BY <3>1 DEF VQuits, VLands, VFinds
    <3>2. CASE VReads(p) \/ VRereads(p)
      BY <1>0, <3>2 DEF VReads, VRereads
    <3>3. CASE VPatches(p)
      <4>1. PICK w \in [VPayload[vSite[p]] -> Values] :
                vOut'[p] = V!Patched(target, vSite[p], w)
        BY <3>3 DEF VPatches
      <4>2. vSite[p] \in VSites
        BY <1>0, <3>3 DEF VPatches, VHolds
      <4>3. \A c \in VPayload[vSite[p]] : w[c] \in Values
        OBVIOUS
      <4>4. vOut'[p] \in Reach
        BY <1>0, <1>4, <4>1, <4>2, <4>3
      <4>5. QED BY <1>0, <3>3, <4>4 DEF VPatches
    <3>4. CASE VGoes(p)
      BY <1>0, <3>4 DEF VGoes
    <3>5. CASE VFetches(p)
      BY <1>0, <3>5 DEF VFetches, VHolds
    <3>6. CASE VSaves(p)
      BY <1>0, <3>6 DEF VSaves, V!Writing
    <3>7. QED BY <3>1, <3>2, <3>3, <3>4, <3>5, <3>6 DEF VMoves
  <2>3. QED BY <2>1, <2>2
<1>6. \A q \in CProcs :
          /\ cPc'[q] # "idle" => cSnap'[q] \in Near(Edited)
          /\ cPc'[q] \in CArmed => cOut'[q] \in Near(Edited)
  BY DEF BytesNear, cVars
<1>7. cBackup' \in Near(Edited) \cup {NoFile}
  BY DEF BytesNear, cVars
<1>8. vBackup # NoFile => vBackup' # NoFile
  BY <1>1, ReachGrows, OriginalNear
<1>9. QED BY <1>0, <1>1, <1>2, <1>3, <1>5, <1>6, <1>7, <1>8 DEF BytesNear

-----------------------------------------------------------------------------
(* Calls in any interleaving: the original is never lost *)

\* A colour step from a state where nothing is saved.
LEMMA CMoveFresh ==
    ASSUME NEW p \in CProcs, CallsInOrder, Fresh, CMoves(p), UNCHANGED vVars
    PROVE  (Fresh' \/ CSafe') /\ target' = target
<1>0. CHolds(p)
  BY DEF CallsInOrder
<1>1. CASE CSaves(p)
  <2>1. cBackup' = Original
    BY <1>1 DEF CSaves, C!Writing, Fresh
  <2>2. ASSUME NEW q \in CProcs, C!Writing(q, "backup")' PROVE cSnap'[q] = Original
    BY <1>1, <2>2 DEF CSaves, CHeld, C!Writing, Fresh, CMoves, COthers
  <2>3. QED BY <1>1, <2>1, <2>2 DEF CSafe, CSaves
<1>2. CASE CQuits(p) \/ CReads(p) \/ CGoes(p)
  <2>1. \A q \in CProcs : cPc'[q] # "idle" => cSnap'[q] = Original
    BY <1>2 DEF CQuits, CReads, CGoes, CHeld, Fresh, CMoves, COthers
  <2>2. QED BY <1>2, <2>1 DEF CQuits, CReads, CGoes, CFilesKept, Fresh, vVars
<1>3. ~CFetches(p) /\ ~CLands(p)
  BY <1>0 DEF CFetches, CLands, CHolds, C!Writing, Fresh
<1>4. QED BY <1>1, <1>2, <1>3 DEF CMoves

\* The colour writer's original is overwritten with the original only.
LEMMA CMoveSafe ==
    ASSUME NEW p \in CProcs, CSafe, CMoves(p)
    PROVE  CSafe'
<1>1. cBackup' = Original
  BY DEF CSafe, CMoves, CQuits, CReads, CGoes, CFetches, CSaves, CLands, CFilesKept
<1>2. ASSUME NEW q \in CProcs, C!Writing(q, "backup")' PROVE cSnap'[q] = Original
  <2>1. CASE q # p
    BY <1>2, <2>1 DEF CSafe, CMoves, COthers, C!Writing
  <2>2. CASE q = p
    BY <1>2, <2>2, TwoWritersAssumption
    DEF CSafe, CMoves, CQuits, CReads, CGoes, CFetches, CSaves, CLands,
        CHeld, C!Writing
  <2>3. QED BY <2>1, <2>2
<1>3. QED BY <1>1, <1>2 DEF CSafe

LEMMA VMoveFresh ==
    ASSUME NEW p \in VProcs, CallsInOrder, Fresh, VMoves(p), UNCHANGED cVars
    PROVE  (Fresh' \/ VSafe') /\ target' = target
<1>0. VHolds(p)
  BY DEF CallsInOrder
<1> USE DEF VBlank
<1>1. CASE VSaves(p)
  <2>1. vBackup' = Original
    BY <1>1 DEF VSaves, V!Writing, Fresh
  <2>2. ASSUME NEW q \in VProcs, V!Writing(q, "backup")' PROVE vSnap'[q] = Original
    BY <1>1, <2>2 DEF VSaves, V!Writing, Fresh, VMoves, VOthers
  <2>3. QED BY <1>1, <2>1, <2>2 DEF VSafe, VSaves
<1>2. CASE VQuits(p) \/ VReads(p) \/ VPatches(p) \/ VGoes(p)
  <2>1. \A q \in VProcs : vPc'[q] \notin VBlank => vSnap'[q] = Original
    <3>1. ASSUME NEW q \in VProcs \ {p}, vPc'[q] \notin VBlank
          PROVE  vSnap'[q] = Original
      BY <3>1 DEF Fresh, VMoves, VOthers
    <3>2. vPc'[p] \notin VBlank => vSnap'[p] = Original
      BY <1>2 DEF VQuits, VReads, VPatches, VGoes, Fresh
    <3>3. QED BY <3>1, <3>2
  <2>2. QED BY <1>2, <2>1
    DEF VQuits, VReads, VPatches, VGoes, VFilesKept, Fresh, cVars
<1>3. ~VFinds(p) /\ ~VRereads(p) /\ ~VFetches(p) /\ ~VLands(p)
  BY <1>0 DEF VFinds, VRereads, VFetches, VLands, VHolds, V!Writing, Fresh
<1>4. QED BY <1>1, <1>2, <1>3 DEF VMoves

LEMMA VMoveSafe ==
    ASSUME NEW p \in VProcs, VSafe, VMoves(p)
    PROVE  VSafe'
<1>1. vBackup' = Original
  BY DEF VSafe, VMoves, VQuits, VReads, VPatches, VFinds, VRereads, VGoes,
     VFetches, VSaves, VLands, VFilesKept
<1>2. ASSUME NEW q \in VProcs, V!Writing(q, "backup")' PROVE vSnap'[q] = Original
  <2>1. CASE q # p
    BY <1>2, <2>1 DEF VSafe, VMoves, VOthers, V!Writing
  <2>2. CASE q = p
    BY <1>2, <2>2, TwoWritersAssumption
    DEF VSafe, VMoves, VQuits, VReads, VPatches, VFinds, VRereads, VGoes,
        VFetches, VSaves, VLands, V!Writing
  <2>3. QED BY <2>1, <2>2
<1>3. QED BY <1>1, <1>2 DEF VSafe

LEMMA InitRace ==
    ASSUME Init
    PROVE  RaceInv
<1>1. BytesNear
  BY OriginalNear, ReachGrows
  DEF Init, C!Init, C!DllFilesInit, V!Init, V!DllFilesInit, BytesNear,
      CArmed, VArmed, VBlank, Reach
<1>2. Fresh
  BY DEF Init, C!Init, C!DllFilesInit, V!Init, V!DllFilesInit, Fresh, VBlank
<1>3. QED BY <1>1, <1>2, InitInOrder DEF RaceInv

\* One step of the race: from nothing saved to something saved the target
\* stays, and what is safe stays safe.
LEMMA NextRace ==
    ASSUME RaceInv, [Next]_vars
    PROVE  /\ RaceInv'
           /\ Fresh => target' = target
           /\ CSafe \/ VSafe => CSafe' \/ VSafe'
<1> USE DEF RaceInv
<1>1. CASE Color
  <2>1. PICK p \in CProcs : CMoves(p)
    BY <1>1, CNextMoves DEF Color
  <2>2. UNCHANGED vVars
    BY <1>1 DEF Color
  <2>3. CallsInOrder' /\ BytesNear'
    BY <2>1, <2>2, CMoveInOrder, CMoveNear
  <2>4. VSafe => VSafe'
    BY <2>2 DEF VSafe, V!Writing, vVars
  <2>5. QED BY <2>1, <2>2, <2>3, <2>4, CMoveFresh, CMoveSafe
<1>2. CASE Vector
  <2>1. PICK p \in VProcs : VMoves(p)
    BY <1>2, VNextMoves DEF Vector
  <2>2. UNCHANGED cVars
    BY <1>2 DEF Vector
  <2>3. CallsInOrder' /\ BytesNear'
    BY <2>1, <2>2, VMoveInOrder, VMoveNear
  <2>4. CSafe => CSafe'
    BY <2>2 DEF CSafe, C!Writing, cVars
  <2>5. QED BY <2>1, <2>2, <2>3, <2>4, VMoveFresh, VMoveSafe
<1>3. CASE UNCHANGED vars
  <2>1. CallsInOrder'
    BY <1>3, StutterInOrder
  <2>2. BytesNear'
    BY <1>3 DEF vars, cVars, vVars, BytesNear, Reach
  <2>3. (Fresh => Fresh') /\ (CSafe => CSafe') /\ (VSafe => VSafe')
    BY <1>3 DEF vars, cVars, vVars, Fresh, CSafe, VSafe, C!Writing, V!Writing
  <2>4. QED BY <1>3, <2>1, <2>2, <2>3 DEF vars
<1>4. QED BY <1>1, <1>2, <1>3 DEF Next

\* The invariant of the race, for any number of processes of either writer.
THEOREM RaceInvHolds == Spec => []RaceInv
<1>1. Init => RaceInv
  BY InitRace
<1>2. RaceInv /\ [Next]_vars => RaceInv'
  BY NextRace
<1>3. QED BY <1>1, <1>2, PTL DEF Spec

\* The original is never lost: once anything is saved or edited, one of the
\* two backups is the original, whichever writer came first and whoever raced.
THEOREM OriginalNeverLost == Spec => []SomeBackupPristine
<1>1. RaceInv => SomeBackupPristine
  BY DEF RaceInv, SomeBackupPristine, Fresh, CSafe, VSafe
<1>2. QED BY <1>1, RaceInvHolds, PTL

\* Outside the payloads and windows of the sites nothing ever changes, in the
\* target or in a backup.
THEOREM NothingElseChanges == Spec => []OnlyWindowsChange
<1>1. RaceInv => OnlyWindowsChange
  <2> SUFFICES ASSUME RaceInv PROVE OnlyWindowsChange
    OBVIOUS
  <2>1. \A d \in {target, cBackup, vBackup} \ {NoFile} : d \in Near(Edited)
    BY ReachGrows DEF RaceInv, BytesNear
  <2>2. QED BY <2>1 DEF OnlyWindowsChange, Near
<1>2. QED BY <1>1, RaceInvHolds, PTL

\* Until the colour writer saves something, the vector writer's backup is the
\* original and undoes every edit, although it is taken from one read and the
\* edit from another.
THEOREM VectorAloneRecoverable == Spec => []VectorRecoverable
<1>1. RaceInv => VectorRecoverable
  <2> SUFFICES ASSUME RaceInv, cBackup = NoFile
               PROVE  V!BackupPristine /\ V!Recoverable
    BY DEF VectorRecoverable
  <2>1. Fresh \/ VSafe
    BY TwoWritersAssumption DEF RaceInv, CSafe
  <2>2. target \in Near(Windows)
    BY DEF RaceInv, BytesNear, Reach
  <2>3. V!WindowEdit(target)
    BY <2>2 DEF Near, V!WindowEdit, V!Changed, C!Changed, Windows
  <2>4. target # Original => vBackup = Original
    BY <2>1 DEF Fresh, VSafe
  <2>5. V!BackupPristine
    BY <2>1 DEF Fresh, VSafe, V!BackupPristine
  <2>6. QED BY <2>3, <2>4, <2>5 DEF V!Recoverable
<1>2. QED BY <1>1, RaceInvHolds, PTL

\* Together the writers keep the promise of one: the first thing that happens
\* is that the original is saved, it stays saved, and whatever the target
\* becomes after that is the original but for payloads and windows.
THEOREM WritersImplementPromise == Spec => ImplementPromise
<1> DEFINE saved == IF Original \in {cBackup, vBackup} THEN Original ELSE NoFile
<1>1. Init => Promise!Init
  BY TwoWritersAssumption
  DEF Init, C!Init, C!DllFilesInit, V!Init, V!DllFilesInit, Promise!Init
<1>2. ASSUME RaceInv, [Next]_vars
      PROVE  [Promise!Save \/ Promise!Rewrite]_<<target, saved>>
  <2>1. /\ RaceInv'
        /\ Fresh => target' = target
        /\ CSafe \/ VSafe => CSafe' \/ VSafe'
    BY <1>2, NextRace
  <2>2. CASE Fresh /\ Fresh'
    BY <2>2 DEF Fresh
  <2>3. CASE Fresh /\ (CSafe' \/ VSafe')
    <3>1. saved = NoFile /\ saved' = Original /\ target' = target
      BY <2>1, <2>3, TwoWritersAssumption DEF Fresh, CSafe, VSafe
    <3>2. QED BY <3>1 DEF Promise!Save
  <2>4. CASE CSafe \/ VSafe
    <3>1. saved = Original /\ saved' = Original
      BY <2>1, <2>4 DEF CSafe, VSafe
    <3>2. target' \in Near(Edited)
      <4>1. Reach' \subseteq Near(Edited)
        BY PayloadsEdited DEF Reach, Near
      <4>2. QED BY <2>1, <4>1 DEF RaceInv, BytesNear
    <3>3. target' \in {d \in [Cells -> Values] : C!Changed(Original, d) \subseteq Edited}
      BY <3>2 DEF Near, C!Dlls
    <3>4. QED BY <3>1, <3>3 DEF Promise!Rewrite
  <2>5. QED BY <1>2, <2>1, <2>2, <2>3, <2>4 DEF RaceInv
<1>3. QED
  BY <1>1, <1>2, RaceInvHolds, PTL DEF Spec, ImplementPromise, Promise!Spec

-----------------------------------------------------------------------------
(* Calls one after the other *)

\* At most one call is under way.
Alone ==
    /\ \A p, q \in CProcs : cPc[p] # "idle" /\ cPc[q] # "idle" => p = q
    /\ \A p, q \in VProcs : vPc[p] # "idle" /\ vPc[q] # "idle" => p = q
    /\ \A p \in CProcs, q \in VProcs : cPc[p] = "idle" \/ vPc[q] = "idle"

\* A finite set of at most one element has no two.
LEMMA AtMostOneElement ==
    ASSUME NEW S, IsFiniteSet(S), Cardinality(S) <= 1
    PROVE  \A x, y \in S : x = y
<1>1. Cardinality(S) \in Nat
  BY FS_CardinalityType
<1>2. CASE Cardinality(S) = 0
  BY <1>2, FS_EmptySet
<1>3. CASE Cardinality(S) = 1
  BY <1>3, FS_Singleton
<1>4. QED BY <1>1, <1>2, <1>3

LEMMA BusyAlone ==
    ASSUME AtMostOneBusy
    PROVE  Alone
<1> DEFINE CBusy == {p \in CProcs : cPc[p] # "idle"}
           VBusy == {p \in VProcs : vPc[p] # "idle"}
<1>1. IsFiniteSet(CBusy) /\ IsFiniteSet(VBusy)
  BY TwoWritersAssumption, FS_Subset
<1>2. Cardinality(CBusy) + Cardinality(VBusy) <= 1
  BY DEF AtMostOneBusy
<1>3. Cardinality(CBusy) \in Nat /\ Cardinality(VBusy) \in Nat
  BY <1>1, FS_CardinalityType
<1> HIDE DEF CBusy, VBusy
<1>4. Cardinality(CBusy) <= 1 /\ Cardinality(VBusy) <= 1
  BY <1>2, <1>3
<1>5. (\A x, y \in CBusy : x = y) /\ (\A x, y \in VBusy : x = y)
  BY <1>1, <1>4, AtMostOneElement
<1>6. Cardinality(CBusy) = 0 \/ Cardinality(VBusy) = 0
  BY <1>2, <1>3
<1>7. CBusy = {} \/ VBusy = {}
  BY <1>1, <1>6, FS_EmptySet
<1>8. QED BY <1>5, <1>7 DEF Alone, CBusy, VBusy

\* A patch of d differs from d inside the payload only.
LEMMA CPatchConfined ==
    ASSUME NEW d \in C!Dlls, NEW s \in CSites, NEW w
    PROVE  C!Changed(d, C!Patched(d, s, w)) \subseteq CPayload[s]
BY DEF C!Changed, C!Patched

LEMMA VPatchConfined ==
    ASSUME NEW d \in C!Dlls, NEW s \in VSites, NEW w
    PROVE  C!Changed(d, V!Patched(d, s, w)) \subseteq VPayload[s]
BY DEF C!Changed, V!Patched

LEMMA CMoveTurns ==
    ASSUME NEW p \in CProcs, SerialInv, AtMostOneBusy', CMoves(p), UNCHANGED vVars
    PROVE  SerialInv'
<1>0. Alone /\ Alone'
  BY BusyAlone, PTL DEF SerialInv
<1>1. CallsInOrder'
  BY CMoveInOrder DEF SerialInv
<1>2. CHolds(p) /\ CTurn(p) /\ target \in C!Dlls
  BY DEF SerialInv, CallsInOrder, C!TypeOK, C!DllFilesTypeOK
<1>3. cPc[p] = "idle" => CFilesKept
  BY DEF CMoves, CQuits, CReads, CGoes, CFetches, CSaves, CLands, C!Writing
<1>4. ASSUME NEW q \in VProcs PROVE VTurn(q)'
  <2>1. VTurn(q)
    BY DEF SerialInv
  <2>2. CASE cPc[p] = "idle"
    BY <1>3, <2>1, <2>2 DEF VTurn, CFilesKept, V!Writing, vVars
  <2>3. CASE cPc[p] # "idle"
    <3>1. vPc'[q] = "idle"
      BY <1>0, <2>3 DEF Alone, vVars
    <3>2. QED BY <3>1 DEF VTurn, VBlank, VArmed, CArmed, V!Writing
  <2>4. QED BY <2>2, <2>3
<1>5. ASSUME NEW q \in CProcs \ {p} PROVE CTurn(q)'
  <2>1. CTurn(q)
    BY DEF SerialInv
  <2>2. /\ cPc'[q] = cPc[q] /\ cDest'[q] = cDest[q] /\ cSite'[q] = cSite[q]
        /\ cSnap'[q] = cSnap[q] /\ cOut'[q] = cOut[q] /\ cResult'[q] = cResult[q]
    BY DEF CMoves, COthers
  <2>3. CASE cPc[p] = "idle"
    BY <1>3, <2>1, <2>2, <2>3 DEF CTurn, CFilesKept, C!Writing
  <2>4. CASE cPc[p] # "idle"
    <3>1. cPc'[q] = "idle"
      BY <1>0, <2>2, <2>4 DEF Alone
    <3>2. QED BY <3>1 DEF CTurn, CArmed, C!Writing
  <2>5. QED BY <2>3, <2>4
<1>6. CTurn(p)'
  <2>1. CASE CQuits(p) \/ CLands(p)
    BY <2>1 DEF CQuits, CLands, CTurn, C!Writing, CArmed
  <2>2. CASE CReads(p)
    <3>1. cPc'[p] = "probe" => C!Changed(target, cOut'[p]) \subseteq CPayload[cSite'[p]]
      BY <1>2, <2>2, CPatchConfined DEF CReads
    <3>2. QED BY <2>2, <3>1 DEF CReads, CFilesKept, CTurn, C!Writing, CArmed
  <2>3. CASE CGoes(p)
    BY <1>2, <2>3 DEF CGoes, CHeld, CFilesKept, CTurn, C!Writing, CArmed
  <2>4. CASE CFetches(p)
    <3>1. C!Changed(target, cOut'[p]) \subseteq CPayload[cSite[p]]
      BY <1>2, <2>4, CPatchConfined DEF CFetches, CTurn, CHolds
    <3>2. QED BY <1>2, <2>4, <3>1 DEF CFetches, CHeld, CFilesKept, CTurn, C!Writing
  <2>5. CASE CSaves(p)
    BY <1>2, <2>5 DEF CSaves, CHeld, CTurn, C!Writing, CArmed
  <2>6. QED BY <2>1, <2>2, <2>3, <2>4, <2>5 DEF CMoves
<1>7. QED BY <1>1, <1>4, <1>5, <1>6 DEF SerialInv

LEMMA VMoveTurns ==
    ASSUME NEW p \in VProcs, SerialInv, AtMostOneBusy', VMoves(p), UNCHANGED cVars
    PROVE  SerialInv'
<1>0. Alone /\ Alone'
  BY BusyAlone, PTL DEF SerialInv
<1>1. CallsInOrder'
  BY VMoveInOrder DEF SerialInv
<1>2. VHolds(p) /\ VTurn(p) /\ target \in C!Dlls
  BY DEF SerialInv, CallsInOrder, C!TypeOK, C!DllFilesTypeOK
<1>3. vPc[p] = "idle" => VFilesKept
  BY DEF VMoves, VQuits, VReads, VPatches, VFinds, VRereads, VGoes, VFetches,
     VSaves, VLands, V!Writing
<1>4. ASSUME NEW q \in CProcs PROVE CTurn(q)'
  <2>1. CTurn(q)
    BY DEF SerialInv
  <2>2. CASE vPc[p] = "idle"
    BY <1>3, <2>1, <2>2 DEF CTurn, VFilesKept, C!Writing, cVars
  <2>3. CASE vPc[p] # "idle"
    <3>1. cPc'[q] = "idle"
      BY <1>0, <2>3 DEF Alone, cVars
    <3>2. QED BY <3>1 DEF CTurn, CArmed, C!Writing
  <2>4. QED BY <2>2, <2>3
<1>5. ASSUME NEW q \in VProcs \ {p} PROVE VTurn(q)'
  <2>1. VTurn(q)
    BY DEF SerialInv
  <2>2. /\ vPc'[q] = vPc[q] /\ vDest'[q] = vDest[q] /\ vSite'[q] = vSite[q]
        /\ vSnap'[q] = vSnap[q] /\ vOut'[q] = vOut[q] /\ vResult'[q] = vResult[q]
    BY DEF VMoves, VOthers
  <2>3. CASE vPc[p] = "idle"
    BY <1>3, <2>1, <2>2, <2>3 DEF VTurn, VFilesKept, V!Writing
  <2>4. CASE vPc[p] # "idle"
    <3>1. vPc'[q] = "idle"
      BY <1>0, <2>2, <2>4 DEF Alone
    <3>2. QED BY <3>1 DEF VTurn, VBlank, VArmed, CArmed, V!Writing
  <2>5. QED BY <2>3, <2>4
<1>6. VTurn(p)'
  <2> USE DEF VTurn, V!Writing, VBlank, VArmed, CArmed
  <2>1. CASE VQuits(p) \/ VLands(p)
    BY <2>1 DEF VQuits, VLands
  <2>2. CASE VReads(p) \/ VFinds(p)
    BY <2>2 DEF VReads, VFinds, VFilesKept
  <2>3. CASE VPatches(p)
    <3>1. C!Changed(target, vOut'[p]) \subseteq VPayload[vSite[p]]
      BY <1>2, <2>3, VPatchConfined DEF VPatches, VHolds
    <3>2. QED BY <1>2, <2>3, <3>1 DEF VPatches, VHeld, VFilesKept
  <2>4. CASE VRereads(p)
    BY <1>2, <2>4 DEF VRereads, VHeld, VFilesKept
  <2>5. CASE VGoes(p)
    BY <1>2, <2>5 DEF VGoes, VHeld, VFilesKept
  <2>6. CASE VFetches(p)
    BY <1>2, <2>6 DEF VFetches, VHeld, VFilesKept
  <2>7. CASE VSaves(p)
    BY <1>2, <2>7 DEF VSaves, VHeld
  <2>8. QED BY <2>1, <2>2, <2>3, <2>4, <2>5, <2>6, <2>7 DEF VMoves
<1>7. QED BY <1>1, <1>4, <1>5, <1>6 DEF SerialInv

\* Between calls other tools do what they like.
LEMMA OtherToolTurns ==
    ASSUME SerialInv, OtherTool
    PROVE  SerialInv'
<1>1. CallsInOrder'
  BY OtherToolInOrder DEF SerialInv
<1>2. AtMostOneBusy'
  BY DEF SerialInv, AtMostOneBusy, OtherTool, cVars, vVars
<1>3. (\A p \in CProcs : cPc'[p] = "idle") /\ (\A p \in VProcs : vPc'[p] = "idle")
  BY DEF OtherTool, cVars, vVars
<1>4. (\A p \in CProcs : CTurn(p)') /\ (\A p \in VProcs : VTurn(p)')
  BY <1>3 DEF CTurn, VTurn, C!Writing, V!Writing, VBlank, VArmed, CArmed
<1>5. QED BY <1>1, <1>2, <1>4 DEF SerialInv

LEMMA InitTurns ==
    ASSUME Init
    PROVE  SerialInv
<1>1. (\A p \in CProcs : cPc[p] = "idle") /\ (\A p \in VProcs : vPc[p] = "idle")
  BY DEF Init, C!Init, C!DllFilesInit, V!Init, V!DllFilesInit
<1>2. AtMostOneBusy
  <2>1. /\ {p \in CProcs : cPc[p] # "idle"} = {}
        /\ {p \in VProcs : vPc[p] # "idle"} = {}
    BY <1>1
  <2>2. QED BY <2>1, FS_EmptySet DEF AtMostOneBusy
<1>3. (\A p \in CProcs : CTurn(p)) /\ (\A p \in VProcs : VTurn(p))
  BY <1>1 DEF CTurn, VTurn, C!Writing, V!Writing, VBlank, VArmed, CArmed
<1>4. QED BY <1>2, <1>3, InitInOrder DEF SerialInv

\* The invariant of calls made one after the other.
THEOREM SerialInvHolds == SerialSpec => []SerialInv
<1>1. Init => SerialInv
  BY InitTurns
<1>2. ASSUME SerialInv, [SerialNext]_vars
      PROVE  SerialInv'
  <2>1. CASE Color /\ AtMostOneBusy'
    <3>1. PICK p \in CProcs : CMoves(p)
      BY <1>2, <2>1, CNextMoves DEF Color, SerialInv
    <3>2. QED BY <1>2, <2>1, <3>1, CMoveTurns DEF Color
  <2>2. CASE Vector /\ AtMostOneBusy'
    <3>1. PICK p \in VProcs : VMoves(p)
      BY <1>2, <2>2, VNextMoves DEF Vector, SerialInv
    <3>2. QED BY <1>2, <2>2, <3>1, VMoveTurns DEF Vector
  <2>3. CASE OtherTool
    BY <1>2, <2>3, OtherToolTurns
  <2>4. CASE UNCHANGED vars
    <3>1. CallsInOrder'
      BY <1>2, <2>4, StutterInOrder DEF SerialInv
    <3>2. AtMostOneBusy'
      BY <1>2, <2>4 DEF SerialInv, AtMostOneBusy, vars, cVars, vVars
    <3>3. (\A p \in CProcs : CTurn(p)') /\ (\A p \in VProcs : VTurn(p)')
      BY <1>2, <2>4 DEF SerialInv, CTurn, VTurn, C!Writing, V!Writing,
         vars, cVars, vVars
    <3>4. QED BY <3>1, <3>2, <3>3 DEF SerialInv
  <2>5. QED BY <1>2, <2>1, <2>2, <2>3, <2>4 DEF SerialNext
<1>3. QED BY <1>1, <1>2, PTL DEF SerialSpec

\* What os.replace puts over the target is what the call has made.
LEMMA MovedIsOut ==
    ASSUME SerialInv
    PROVE  /\ \A p \in CProcs : C!MoveToTarget(p) =>
                  /\ target' = cOut[p] /\ cPc[p] \in CArmed
                  /\ cSite[p] \in CSites /\ C!Writing(p, "target")
           /\ \A p \in VProcs : V!MoveToTarget(p) =>
                  /\ target' = vOut[p] /\ vPc[p] \in VArmed
                  /\ vSite[p] \in VSites /\ V!Writing(p, "target")
BY DEF SerialInv, CallsInOrder, CHolds, VHolds, C!MoveToTarget, V!MoveToTarget,
   C!Moved, V!Moved, C!Writing, V!Writing, CArmed, VArmed

\* Called one at a time, an apply that lands leaves a backup of exactly the
\* bytes it replaces, whatever else was done to the files before the call.
THEOREM NothingIsLost == SerialSpec => NothingLost
<1>1. ASSUME SerialInv
      PROVE  /\ \A p \in CProcs :
                    C!MoveToTarget(p) /\ cResult[p] = "applying" => cBackup = target
             /\ \A p \in VProcs :
                    V!MoveToTarget(p) /\ vResult[p] = "applying" => vBackup = target
  BY <1>1, MovedIsOut DEF SerialInv, CTurn, VTurn
<1>2. QED BY <1>1, SerialInvHolds, PTL DEF NothingLost

\* Called one at a time, the colour writer and a vector apply change one
\* payload or window only.
THEOREM WritesStayConfined == SerialSpec => WritesConfined
<1>1. ASSUME SerialInv
      PROVE  /\ \A p \in CProcs : C!MoveToTarget(p) =>
                    \E s \in CSites : C!Changed(target, target') \subseteq CPayload[s]
             /\ \A p \in VProcs : V!MoveToTarget(p) /\ vResult[p] = "applying" =>
                    \E s \in VSites : C!Changed(target, target') \subseteq VPayload[s]
  <2>1. ASSUME NEW p \in CProcs, C!MoveToTarget(p)
        PROVE  C!Changed(target, target') \subseteq CPayload[cSite[p]]
    BY <1>1, <2>1, MovedIsOut DEF SerialInv, CTurn
  <2>2. ASSUME NEW p \in VProcs, V!MoveToTarget(p), vResult[p] = "applying"
        PROVE  C!Changed(target, target') \subseteq VPayload[vSite[p]]
    BY <1>1, <2>2, MovedIsOut DEF SerialInv, VTurn
  <2>3. QED BY <1>1, <2>1, <2>2, MovedIsOut
<1>2. QED BY <1>1, SerialInvHolds, PTL DEF WritesConfined
=============================================================================
