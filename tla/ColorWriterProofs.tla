-------------------------- MODULE ColorWriterProofs --------------------------
(***************************************************************************)
(* That the colour writer keeps its backup and its target recoverable for  *)
(* every number of processes, every DLL, every set of sites and every      *)
(* ownership of records.                                                   *)
(***************************************************************************)
EXTENDS ColorWriter, TLAPS

\* Patching a DLL with values for the payload gives a DLL.
LEMMA PatchedType ==
    ASSUME NEW d \in Dlls, NEW s \in Sites, NEW w,
           \A c \in Payload[s] : w[c] \in Values
    PROVE  Patched(d, s, w) \in Dlls
BY DEF Patched, Dlls

\* Patching the original at an owned site gives something undoable: the
\* same site takes it back.
LEMMA PatchedUndoable ==
    ASSUME NEW s \in Sites, NEW w, Owned(Original, s)
    PROVE  Undoable(Patched(Original, s, w))
<1>1. Patched(Patched(Original, s, w), s, Original) = Original
  BY DllAssumption DEF Patched, Dlls
<1>2. QED BY <1>1 DEF Undoable

\* Taking a payload from the original leaves an undoable DLL undoable.
LEMMA RestoredUndoable ==
    ASSUME NEW d \in Dlls, NEW s \in Sites, Undoable(d)
    PROVE  Undoable(Patched(d, s, Original))
<1>1. CASE d = Original
  <2>1. Patched(d, s, Original) = Original
    BY <1>1, DllAssumption DEF Patched, Dlls
  <2>2. QED BY <2>1 DEF Undoable
<1>2. CASE d # Original
  <2>1. PICK t \in Sites : Owned(Original, t) /\ Patched(d, t, Original) = Original
    BY <1>2 DEF Undoable
  <2>2. \A c \in Cells : c \notin Payload[t] => d[c] = Original[c]
    BY <2>1 DEF Patched
  <2>3. Patched(Patched(d, s, Original), t, Original) = [c \in Cells |-> Original[c]]
    BY <2>2 DEF Patched
  <2>4. Patched(Patched(d, s, Original), t, Original) = Original
    BY <2>3, DllAssumption DEF Dlls
  <2>5. QED BY <2>1, <2>4 DEF Undoable
<1>3. QED BY <1>1, <1>2

\* An undoable DLL is at most one edit away from the original.
LEMMA UndoableIsOneEdit ==
    ASSUME NEW d \in Dlls, Undoable(d)
    PROVE  OneEdit(d)
<1>1. CASE d = Original BY <1>1 DEF OneEdit
<1>2. CASE d # Original
  <2>1. PICK t \in Sites : Patched(d, t, Original) = Original
    BY <1>2 DEF Undoable
  <2>2. Changed(Original, d) \subseteq Payload[t]
    BY <2>1 DEF Patched, Changed
  <2>3. QED BY <2>2 DEF OneEdit
<1>3. QED BY <1>1, <1>2

-----------------------------------------------------------------------------
(* One step of one process *)

\* A step of p leaves the calls of the others where they are.
OthersKept(p) ==
    \A q \in Procs \ {p} :
        /\ pc'[q] = pc[q] /\ dest'[q] = dest[q] /\ tmp'[q] = tmp[q]
        /\ site'[q] = site[q] /\ snap'[q] = snap[q] /\ out'[q] = out[q]

\* What every step of p has to keep.
Kept(p) ==
    /\ TypeOK' /\ FileInv' /\ CallInv(p)'
    /\ OthersKept(p)
    /\ backup' = backup \/ backup' = Original

\* The calls of the others survive a step of p.
LEMMA OthersSurvive ==
    ASSUME NEW p \in Procs, NEW q \in Procs \ {p}, CallInv(q), Kept(p)
    PROVE  CallInv(q)'
<1>1. /\ pc'[q] = pc[q] /\ dest'[q] = dest[q] /\ tmp'[q] = tmp[q]
      /\ site'[q] = site[q] /\ snap'[q] = snap[q] /\ out'[q] = out[q]
  BY DEF Kept, OthersKept
<1>2. /\ backup' = NoFile => backup = NoFile
      /\ backup = Original => backup' = Original
  BY DllAssumption DEF Kept
<1>3. \A f : Writing(q, f)' <=> Writing(q, f)
  BY <1>1 DEF Writing
<1>4. Undoable(out[q])' = Undoable(out[q]) /\ Undoable(snap[q])' = Undoable(snap[q])
  BY <1>1 DEF Undoable
<1>5. QED BY <1>1, <1>2, <1>3, <1>4 DEF CallInv

\* A call that ends and leaves the files alone keeps everything.
LEMMA ReturnKept ==
    ASSUME NEW p \in Procs, NEW how \in Results, Inductive, Return(p, how),
           UNCHANGED fileVars,
           tmp' = tmp \/ tmp' = [tmp EXCEPT ![p] = "none"],
           litter' \in SUBSET Procs
    PROVE  Kept(p)
<1> USE DEF Inductive
<1>1. TypeOK'
  BY DEF TypeOK, DllFilesTypeOK, Return, fileVars, Labels
<1>2. pc'[p] = "idle"
  BY DEF TypeOK, DllFilesTypeOK, Return
<1>3. CallInv(p)'
  BY <1>2 DEF CallInv, Writing
<1>4. FileInv'
  BY DEF FileInv, BackupPristine, Undoable, fileVars
<1>5. OthersKept(p)
  BY DEF OthersKept, Return, TypeOK, DllFilesTypeOK
<1>6. QED BY <1>1, <1>3, <1>4, <1>5 DEF Kept, fileVars

LEMMA AnswerKept ==
    ASSUME NEW p \in Procs, NEW how \in Results, Inductive, Answer(p, how)
    PROVE  Kept(p)
BY ReturnKept DEF Answer, Inductive, TypeOK, DllFilesTypeOK

\* Reading an apply's bytes: the backup is missing only while the target is
\* the original, so a patch of the original is what may follow.
LEMMA ApplyReadKept ==
    ASSUME NEW p \in Procs, Inductive, ApplyRead(p)
    PROVE  Kept(p)
<1> USE DEF Inductive
<1>0. PICK s \in Sites : \E h \in Digests(s), w \in [Payload[s] -> Values] :
          /\ Accepts(target, s, h)
          /\ site' = [site EXCEPT ![p] = s]
          /\ snap' = [snap EXCEPT ![p] = target]
          /\ out' = [out EXCEPT ![p] = Patched(target, s, w)]
  BY DEF ApplyRead
<1>1. PICK w \in [Payload[s] -> Values] :
          /\ Owned(target, s)
          /\ site' = [site EXCEPT ![p] = s]
          /\ snap' = [snap EXCEPT ![p] = target]
          /\ out' = [out EXCEPT ![p] = Patched(target, s, w)]
  BY <1>0 DEF Accepts
<1>2. /\ pc' = [pc EXCEPT ![p] = "probe"]
      /\ result' = [result EXCEPT ![p] = "applying"]
      /\ UNCHANGED <<target, backup, dest, tmp, litter>>
  BY DEF ApplyRead, fileVars
<1>3. Patched(target, s, w) \in Dlls
  <2>1. \A c \in Payload[s] : w[c] \in Values
    OBVIOUS
  <2>2. target \in Dlls
    BY DEF TypeOK, DllFilesTypeOK
  <2>3. QED BY <2>1, <2>2, PatchedType
<1>4. TypeOK'
  BY <1>1, <1>2, <1>3 DEF TypeOK, DllFilesTypeOK, Labels, Results
<1>5. FileInv'
  BY <1>2 DEF FileInv, BackupPristine, Undoable
<1>6. /\ pc'[p] = "probe" /\ site'[p] = s /\ snap'[p] = target
      /\ out'[p] = Patched(target, s, w)
  BY <1>1, <1>2 DEF TypeOK, DllFilesTypeOK
<1>7. backup' = NoFile => snap'[p] = Original
  BY <1>2, <1>6, DllAssumption DEF FileInv
<1>8. snap'[p] = Original => Undoable(out'[p])
  BY <1>1, <1>6, PatchedUndoable
<1>9. CallInv(p)'
  <2>1. Undoable(out[p])' = Undoable(out'[p])
    BY DEF Undoable
  <2>2. target \in Dlls
    BY DEF TypeOK, DllFilesTypeOK
  <2>3. QED BY <1>3, <1>6, <1>7, <1>8, <2>1, <2>2 DEF CallInv, Writing
<1>10. OthersKept(p)
  BY <1>1, <1>2 DEF OthersKept, TypeOK, DllFilesTypeOK
<1>11. QED BY <1>2, <1>4, <1>5, <1>9, <1>10 DEF Kept

\* Steps that only look at the backup and go on.
LEMMA ProbeBackupKept ==
    ASSUME NEW p \in Procs, Inductive, ProbeBackup(p)
    PROVE  Kept(p)
<1> USE DEF Inductive
<1>1. CASE backup # NoFile /\ Goto(p, "compare")
  <2> USE <1>1 DEF Goto, fileVars, callVars
  <2>1. TypeOK'
    BY DEF TypeOK, DllFilesTypeOK, Labels
  <2>2. FileInv'
    BY DEF FileInv, BackupPristine, Undoable
  <2>3. pc'[p] = "compare" /\ pc[p] = "probe"
    BY DEF ProbeBackup, TypeOK, DllFilesTypeOK
  <2>4. CallInv(p)'
    BY <2>3 DEF CallInv, Writing, FileInv, BackupPristine, Undoable
  <2>5. OthersKept(p)
    BY DEF OthersKept, TypeOK, DllFilesTypeOK
  <2>6. QED BY <2>1, <2>2, <2>4, <2>5 DEF Kept
<1>2. CASE /\ backup = NoFile /\ BeginWrite(p, "backup")
           /\ UNCHANGED <<fileVars, callVars, tmp, litter, result>>
  <2> USE <1>2 DEF BeginWrite, fileVars, callVars
  <2>1. TypeOK'
    BY DEF TypeOK, DllFilesTypeOK, Labels
  <2>2. FileInv'
    BY DEF FileInv, BackupPristine, Undoable
  <2>3. pc'[p] = "create" /\ pc[p] = "probe" /\ dest'[p] = "backup"
    BY DEF ProbeBackup, TypeOK, DllFilesTypeOK
  <2>4. CallInv(p)'
    BY <2>3 DEF CallInv, Writing, FileInv, BackupPristine, Undoable
  <2>5. OthersKept(p)
    BY DEF OthersKept, TypeOK, DllFilesTypeOK
  <2>6. QED BY <2>1, <2>2, <2>4, <2>5 DEF Kept
<1>3. QED BY <1>1, <1>2 DEF ProbeBackup

\* An equal backup is the original, so what was read is, and its patch may go
\* over the target.
LEMMA CompareBackupKept ==
    ASSUME NEW p \in Procs, Inductive, CompareBackup(p)
    PROVE  Kept(p)
<1> USE DEF Inductive
<1>1. CASE /\ backup = snap[p] /\ BeginWrite(p, "target")
           /\ UNCHANGED <<fileVars, callVars, tmp, litter, result>>
  <2> USE <1>1 DEF BeginWrite, fileVars, callVars
  <2>1. TypeOK'
    BY DEF TypeOK, DllFilesTypeOK, Labels
  <2>2. FileInv'
    BY DEF FileInv, BackupPristine, Undoable
  <2>3. pc'[p] = "create" /\ pc[p] = "compare" /\ dest'[p] = "target"
    BY DEF CompareBackup, TypeOK, DllFilesTypeOK
  <2>4. CallInv(p)'
    BY <2>3 DEF CallInv, Writing, Undoable
  <2>5. OthersKept(p)
    BY DEF OthersKept, TypeOK, DllFilesTypeOK
  <2>6. QED BY <2>1, <2>2, <2>4, <2>5 DEF Kept
<1>2. CASE Answer(p, "refused")
  BY <1>2, AnswerKept DEF Results
<1>3. QED BY <1>1, <1>2 DEF CompareBackup

LEMMA RestoreReadKept ==
    ASSUME NEW p \in Procs, Inductive, RestoreRead(p)
    PROVE  Kept(p)
<1> USE DEF Inductive
<1>1. PICK s \in Sites : site' = [site EXCEPT ![p] = s]
  BY DEF RestoreRead
<1>2. /\ snap' = [snap EXCEPT ![p] = target]
      /\ pc' = [pc EXCEPT ![p] = "lookup"]
      /\ result' = [result EXCEPT ![p] = "restoring"]
      /\ UNCHANGED <<target, backup, out, dest, tmp, litter>>
  BY DEF RestoreRead, fileVars
<1>3. TypeOK'
  BY <1>1, <1>2 DEF TypeOK, DllFilesTypeOK, Labels, Results
<1>4. FileInv'
  BY <1>2 DEF FileInv, BackupPristine, Undoable
<1>5. pc'[p] = "lookup" /\ site'[p] = s /\ snap'[p] = target /\ target \in Dlls
  BY <1>1, <1>2 DEF TypeOK, DllFilesTypeOK
<1>6. CallInv(p)'
  BY <1>5 DEF CallInv, Writing, FileInv, Undoable
<1>7. OthersKept(p)
  BY <1>1, <1>2 DEF OthersKept, TypeOK, DllFilesTypeOK
<1>8. QED BY <1>2, <1>3, <1>4, <1>6, <1>7 DEF Kept

LEMMA LookupBackupKept ==
    ASSUME NEW p \in Procs, Inductive, LookupBackup(p)
    PROVE  Kept(p)
<1> USE DEF Inductive
<1>1. CASE backup # NoFile /\ Goto(p, "fetch")
  <2> USE <1>1 DEF Goto, fileVars, callVars
  <2>1. TypeOK'
    BY DEF TypeOK, DllFilesTypeOK, Labels
  <2>2. FileInv'
    BY DEF FileInv, BackupPristine, Undoable
  <2>3. pc'[p] = "fetch" /\ pc[p] = "lookup"
    BY DEF LookupBackup, TypeOK, DllFilesTypeOK
  <2>4. CallInv(p)'
    BY <2>3 DEF CallInv, Writing, FileInv, BackupPristine, Undoable
  <2>5. OthersKept(p)
    BY DEF OthersKept, TypeOK, DllFilesTypeOK
  <2>6. QED BY <2>1, <2>2, <2>4, <2>5 DEF Kept
<1>2. CASE Answer(p, "refused")
  BY <1>2, AnswerKept DEF Results
<1>3. QED BY <1>1, <1>2 DEF LookupBackup

\* What a restore writes is undoable because what it read was.
LEMMA FetchBackupKept ==
    ASSUME NEW p \in Procs, Inductive, FetchBackup(p)
    PROVE  Kept(p)
<1> USE DEF Inductive
<1>1. CASE /\ out' = [out EXCEPT ![p] = Patched(snap[p], site[p], backup)]
           /\ BeginWrite(p, "target")
           /\ UNCHANGED <<fileVars, site, snap, tmp, litter, result>>
  <2> USE <1>1 DEF BeginWrite, fileVars
  <2>1. /\ pc[p] = "fetch" /\ backup = Original
        /\ site[p] \in Sites /\ snap[p] \in Dlls /\ Undoable(snap[p])
    BY DEF FetchBackup, CallInv
  <2>2. Patched(snap[p], site[p], backup) \in Dlls
    <3>1. \A c \in Payload[site[p]] : Original[c] \in Values
      BY <2>1, DllAssumption DEF Dlls
    <3>2. QED BY <2>1, <3>1, PatchedType
  <2>3. TypeOK'
    BY <2>2 DEF TypeOK, DllFilesTypeOK, Labels
  <2>4. FileInv'
    BY DEF FileInv, BackupPristine, Undoable
  <2>5. /\ pc'[p] = "create" /\ dest'[p] = "target"
        /\ out'[p] = Patched(snap[p], site[p], backup)
    BY DEF TypeOK, DllFilesTypeOK
  <2>6. Undoable(out[p])'
    <3>1. Undoable(Patched(snap[p], site[p], backup))
      BY <2>1, RestoredUndoable
    <3>2. QED BY <2>5, <3>1 DEF Undoable
  <2>7. CallInv(p)'
    BY <2>1, <2>2, <2>5, <2>6 DEF CallInv, Writing
  <2>8. OthersKept(p)
    BY DEF OthersKept, TypeOK, DllFilesTypeOK
  <2>9. QED BY <2>3, <2>4, <2>7, <2>8 DEF Kept
<1>2. CASE Answer(p, "refused")
  BY <1>2, AnswerKept DEF Results
<1>3. QED BY <1>1, <1>2 DEF FetchBackup

\* Steps on the temporary file.
LEMMA TempKept ==
    ASSUME NEW p \in Procs, Inductive, CreateTemp(p) \/ FillTemp(p)
    PROVE  Kept(p)
<1> USE DEF Inductive, CreateTemp, FillTemp, fileVars, callVars
<1>1. TypeOK'
  BY DEF TypeOK, DllFilesTypeOK, Labels
<1>2. FileInv'
  BY DEF FileInv, BackupPristine, Undoable
<1>3. CallInv(p)'
  <2>1. /\ pc[p] \in {"create", "fill"}
        /\ pc'[p] \in {"fill", "move"}
        /\ pc'[p] = "move" => tmp'[p] = "full"
    BY DEF TypeOK, DllFilesTypeOK
  <2>2. /\ site' = site /\ snap' = snap /\ out' = out
        /\ dest' = dest /\ backup' = backup
    OBVIOUS
  <2>3. Undoable(out[p])' = Undoable(out[p])
    BY <2>2 DEF Undoable
  <2>4. QED BY <2>1, <2>2, <2>3 DEF CallInv, Writing
<1>4. OthersKept(p)
  BY DEF OthersKept, TypeOK, DllFilesTypeOK
<1>5. QED BY <1>1, <1>2, <1>3, <1>4 DEF Kept

\* A backup is only ever written by a call that read the original.
LEMMA MoveToBackupKept ==
    ASSUME NEW p \in Procs, Inductive, MoveToBackup(p)
    PROVE  Kept(p)
<1> USE DEF Inductive, MoveToBackup, BeginWrite, callVars
<1>1. /\ snap[p] = Original /\ tmp[p] = "full"
      /\ site[p] \in Sites /\ out[p] \in Dlls /\ Undoable(out[p])
  BY DEF CallInv, Writing
<1>2. backup' = Original
  BY <1>1 DEF Moved
<1>3. TypeOK'
  BY <1>2, DllAssumption DEF TypeOK, DllFilesTypeOK, Labels
<1>4. FileInv'
  BY <1>2 DEF FileInv, BackupPristine, Undoable
<1>5. pc'[p] = "create" /\ dest'[p] = "target"
  BY DEF TypeOK, DllFilesTypeOK
<1>6. CallInv(p)'
  BY <1>1, <1>2, <1>5, DllAssumption DEF CallInv, Writing, Undoable
<1>7. OthersKept(p)
  BY DEF OthersKept, TypeOK, DllFilesTypeOK
<1>8. QED BY <1>2, <1>3, <1>4, <1>6, <1>7 DEF Kept

\* The target only ever becomes something undoable, with a backup in place.
LEMMA MoveToTargetKept ==
    ASSUME NEW p \in Procs, Inductive, MoveToTarget(p)
    PROVE  Kept(p)
<1> USE DEF Inductive, MoveToTarget, Return
<1>1. /\ tmp[p] = "full" /\ out[p] \in Dlls
      /\ Undoable(out[p]) /\ backup = Original
  BY DEF CallInv, Writing
<1>2. target' = out[p]
  BY <1>1 DEF Moved
<1>3. TypeOK'
  BY <1>1, <1>2 DEF TypeOK, DllFilesTypeOK, Labels, Results
<1>4. FileInv'
  BY <1>1, <1>2 DEF FileInv, BackupPristine, Undoable
<1>5. pc'[p] = "idle"
  BY DEF TypeOK, DllFilesTypeOK
<1>6. CallInv(p)'
  BY <1>5 DEF CallInv, Writing
<1>7. OthersKept(p)
  BY DEF OthersKept, TypeOK, DllFilesTypeOK
<1>8. QED BY <1>3, <1>4, <1>6, <1>7 DEF Kept

\* Failures and kills end the call and touch no file but the temporary one.
LEMMA FaultKept ==
    ASSUME NEW p \in Procs, Inductive, Fault(p)
    PROVE  Kept(p)
<1> USE DEF Results
<1>0. litter \in SUBSET Procs
  BY DEF Inductive, TypeOK, DllFilesTypeOK
<1>1. CASE CreateFails(p)
  BY <1>1, AnswerKept DEF CreateFails
<1>2. CASE WriteFails(p)
  BY <1>0, <1>2, ReturnKept DEF WriteFails
<1>3. CASE ReplaceFails(p)
  BY <1>0, <1>3, ReturnKept DEF ReplaceFails
<1>4. CASE Kill(p)
  <2>1. litter' \in SUBSET Procs
    BY <1>0, <1>4 DEF Kill
  <2>2. QED BY <1>4, <2>1, ReturnKept DEF Kill
<1>5. QED BY <1>1, <1>2, <1>3, <1>4 DEF Fault, WriteFailure

LEMMA CheckKept ==
    ASSUME NEW p \in Procs, Inductive, Check(p)
    PROVE  Kept(p)
<1>1. Answer(p, "checked") \/ Answer(p, "refused")
  BY DEF Check
<1>2. QED BY <1>1, AnswerKept DEF Results

-----------------------------------------------------------------------------
(* Theorems *)

LEMMA StepKept ==
    ASSUME NEW p \in Procs, Inductive, Call(p) \/ Step(p) \/ Fault(p)
    PROVE  Kept(p)
<1>1. CASE Call(p)
  BY <1>1, CheckKept, ApplyReadKept, RestoreReadKept DEF Call
<1>2. CASE Step(p)
  BY <1>2, ProbeBackupKept, CompareBackupKept, LookupBackupKept,
     FetchBackupKept, TempKept, MoveToBackupKept, MoveToTargetKept
  DEF Step, WriteStep
<1>3. CASE Fault(p)
  BY <1>3, FaultKept
<1>4. QED BY <1>1, <1>2, <1>3

LEMMA InitInductive == Init => Inductive
<1> SUFFICES ASSUME Init PROVE Inductive
  OBVIOUS
<1> USE DEF Init, DllFilesInit
<1>1. TypeOK
  BY DllAssumption DEF TypeOK, DllFilesTypeOK, Labels, Results
<1>2. FileInv
  BY DEF FileInv, BackupPristine, Undoable
<1>3. ASSUME NEW p \in Procs PROVE CallInv(p)
  BY DEF CallInv, Writing
<1>4. QED BY <1>1, <1>2, <1>3 DEF Inductive

LEMMA NextInductive == Inductive /\ [Next]_vars => Inductive'
<1> SUFFICES ASSUME Inductive, [Next]_vars PROVE Inductive'
  OBVIOUS
<1>1. CASE Next
  <2>1. PICK p \in Procs : Call(p) \/ Step(p) \/ Fault(p)
    BY <1>1 DEF Next
  <2>2. Kept(p)
    BY <2>1, StepKept
  <2>3. ASSUME NEW q \in Procs PROVE CallInv(q)'
    <3>1. CASE q = p BY <2>2, <3>1 DEF Kept
    <3>2. CASE q # p
      <4>1. CallInv(q)
        BY DEF Inductive
      <4>2. QED BY <2>2, <3>2, <4>1, OthersSurvive
    <3>3. QED BY <3>1, <3>2
  <2>4. QED BY <2>2, <2>3 DEF Kept, Inductive
<1>2. CASE UNCHANGED vars
  BY <1>2 DEF vars, fileVars, callVars, Inductive, TypeOK, DllFilesTypeOK,
     FileInv, BackupPristine, Undoable, CallInv, Writing
<1>3. QED BY <1>1, <1>2

\* The invariant the rest follows from, for any number of processes.
THEOREM InductiveHolds == Spec => []Inductive
BY InitInductive, NextInductive, PTL DEF Spec

\* No file is ever seen torn, and every variable has its type.
THEOREM TypeCorrect == Spec => []TypeOK
<1>1. Inductive => TypeOK BY DEF Inductive
<1>2. QED BY <1>1, InductiveHolds, PTL

\* However many applies race and whatever fails, the backup is the original.
THEOREM BackupStaysPristine == Spec => []BackupPristine
<1>1. Inductive => BackupPristine BY DEF Inductive, FileInv
<1>2. QED BY <1>1, InductiveHolds, PTL

\* Edits never pile up, although nothing is locked.
THEOREM EditsNeverPileUp == Spec => []AtMostOneEdit
<1>1. Inductive => AtMostOneEdit
  BY UndoableIsOneEdit
  DEF Inductive, FileInv, AtMostOneEdit, TypeOK, DllFilesTypeOK
<1>2. QED BY <1>1, InductiveHolds, PTL

\* An edited target can always be brought back by one restore.
THEOREM AlwaysRecoverable == Spec => []Recoverable
<1>1. Inductive => Recoverable
  BY DllAssumption DEF Inductive, FileInv, Recoverable, Undoable
<1>2. QED BY <1>1, InductiveHolds, PTL

\* Only the two os.replace steps change a file that is there to stay.
LEMMA FilesChangeByMove ==
    ASSUME NEW p \in Procs, Call(p) \/ Step(p) \/ Fault(p)
    PROVE  MoveToBackup(p) \/ MoveToTarget(p) \/ UNCHANGED fileVars
<1>1. CASE Call(p)
  BY <1>1 DEF Call, Check, ApplyRead, RestoreRead, Answer, fileVars
<1>2. CASE Step(p)
  BY <1>2 DEF Step, ProbeBackup, CompareBackup, LookupBackup, FetchBackup,
     WriteStep, CreateTemp, FillTemp, Answer, Goto, fileVars
<1>3. CASE Fault(p)
  BY <1>3 DEF Fault, WriteFailure, CreateFails, WriteFails, ReplaceFails,
     Kill, Answer, fileVars
<1>4. QED BY <1>1, <1>2, <1>3

\* The writer keeps its promise: it saves the original before anything else
\* and then only moves the target among single edits of the original.
THEOREM ColorImplementsPromise == Spec => ImplementsPromise
<1>1. Init => Promise!Init
  BY DEF Init, DllFilesInit, Promise!Init
<1>2. Inductive /\ Inductive' /\ [Next]_vars
        => [Promise!Save \/ Promise!Rewrite]_<<target, backup>>
  <2> SUFFICES ASSUME Inductive, Inductive', [Next]_vars,
                      ~UNCHANGED fileVars
               PROVE  Promise!Save \/ Promise!Rewrite
    BY DEF fileVars
  <2>1. PICK p \in Procs : Call(p) \/ Step(p) \/ Fault(p)
    BY DEF Next, vars, fileVars
  <2>2. CASE MoveToBackup(p)
    <3>1. backup' = Original
      BY <2>2 DEF MoveToBackup, Moved, Inductive, CallInv, Writing
    <3>2. backup = NoFile
      BY <2>2, <3>1 DEF MoveToBackup, Inductive, FileInv, BackupPristine, fileVars
    <3>3. QED BY <2>2, <3>1, <3>2 DEF MoveToBackup, Promise!Save
  <2>3. CASE MoveToTarget(p)
    <3>1. backup = Original /\ backup' = backup
      BY <2>3 DEF MoveToTarget, Inductive, CallInv, Writing
    <3>2. target' \in Dlls /\ Undoable(target')
      BY DEF Inductive, TypeOK, DllFilesTypeOK, FileInv, Undoable
    <3>3. target' \in {d \in Dlls : OneEdit(d)}
      BY <3>2, UndoableIsOneEdit
    <3>4. QED BY <3>1, <3>3 DEF Promise!Rewrite
  <2>4. QED BY <2>1, <2>2, <2>3, FilesChangeByMove
<1>3. QED
  BY <1>1, <1>2, InductiveHolds, PTL DEF Spec, ImplementsPromise, Promise!Spec

\* A call that ends with a result has that result.
LEMMA ReturnHasResult ==
    ASSUME TypeOK, NEW p \in Procs, NEW how, Return(p, how)
    PROVE  result'[p] = how
BY DEF TypeOK, DllFilesTypeOK, Return

\* A temporary file is left behind by a killed process or a failed write of
\* _write_atomically only; its finally clause removes the file when os.replace
\* fails.
THEOREM LitterIsExplained == Spec => LitterOnlyWhenAborted
<1>1. ASSUME TypeOK, [Next]_vars, NEW p \in litter' \ litter
      PROVE  result'[p] \in {"killed", "writeFailed"}
  <2>1. ~UNCHANGED litter
    BY <1>1
  <2>2. PICK q \in Procs : Call(q) \/ Step(q) \/ Fault(q)
    BY <1>1, <2>1 DEF Next, vars
  <2>3. ~Call(q)
    BY <2>1 DEF Call, Check, ApplyRead, RestoreRead, Answer
  <2>4. ~Step(q)
    BY <2>1 DEF Step, ProbeBackup, CompareBackup, LookupBackup, FetchBackup,
       WriteStep, CreateTemp, FillTemp, MoveToBackup, MoveToTarget, Answer, Goto
  <2>5. WriteFails(q) \/ Kill(q)
    BY <2>1, <2>2, <2>3, <2>4 DEF Fault, WriteFailure, CreateFails, ReplaceFails, Answer
  <2>6. CASE WriteFails(q)
    BY <1>1, <2>6, ReturnHasResult DEF WriteFails
  <2>7. CASE Kill(q)
    BY <1>1, <2>7, ReturnHasResult DEF Kill
  <2>8. QED BY <2>5, <2>6, <2>7
<1>2. TypeOK /\ [Next]_vars
        => \A p \in litter' \ litter : result'[p] \in {"killed", "writeFailed"}
  BY <1>1
<1>3. QED BY <1>2, TypeCorrect, PTL DEF Spec, LitterOnlyWhenAborted
=============================================================================
