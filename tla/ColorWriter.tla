----------------------------- MODULE ColorWriter -----------------------------
(***************************************************************************)
(* c2_b_writer.py: dry_run_callback_color, apply_callback_color,           *)
(* restore_callback_color and verify_callback_record on one DLL, one       *)
(* action per access to a file.  Any number of processes call them at      *)
(* once, and each may be killed, or see the file system fail, at any step. *)
(***************************************************************************)
EXTENDS DllFiles

CONSTANT Owned(_, _)  \* Owned(d, s): in d the record s is inside .data and
                      \* exactly one PPP slot owns it, of handler index 11

\* Faulty variant: the owner of the record is not looked up.
AcceptsUnowned(d, s, h) == Digest(d, s) = h

\* The checks at the top of _patched_dll: the hash the caller expects, then
\* the owner.
Accepts(d, s, h) == Digest(d, s) = h /\ Owned(d, s)

\* verify_callback_record and dry_run_callback_color read the target and
\* write nothing; they raise or report.  So do the two other calls when they
\* raise on what they read first.
Check(p) ==
    /\ pc[p] = "idle"
    /\ \E s \in Sites : \E h \in Digests(s) :
           Answer(p, IF Accepts(target, s, h) THEN "checked" ELSE "refused")

\* apply_callback_color: read_bytes, then _patched_dll on what was read.
ApplyRead(p) ==
    /\ pc[p] = "idle"
    /\ \E s \in Sites : \E h \in Digests(s), w \in [Payload[s] -> Values] :
           /\ Accepts(target, s, h)
           /\ site' = [site EXCEPT ![p] = s]
           /\ snap' = [snap EXCEPT ![p] = target]
           /\ out' = [out EXCEPT ![p] = Patched(target, s, w)]
    /\ pc' = [pc EXCEPT ![p] = "probe"]
    /\ result' = [result EXCEPT ![p] = "applying"]
    /\ UNCHANGED <<fileVars, dest, tmp, litter>>

\* Faulty variant: every apply takes a backup of what it read.
ProbeBackupAlways(p) ==
    /\ pc[p] = "probe"
    /\ BeginWrite(p, "backup")
    /\ UNCHANGED <<fileVars, callVars, tmp, litter, result>>

\* Faulty variant: the target is written without a backup.
ProbeBackupSkip(p) ==
    /\ pc[p] = "probe"
    /\ BeginWrite(p, "target")
    /\ UNCHANGED <<fileVars, callVars, tmp, litter, result>>

\* _ensure_backup: backup_path.exists().
ProbeBackup(p) ==
    /\ pc[p] = "probe"
    /\ \/ /\ backup # NoFile
          /\ Goto(p, "compare")
       \/ /\ backup = NoFile
          /\ BeginWrite(p, "backup")
          /\ UNCHANGED <<fileVars, callVars, tmp, litter, result>>

\* Faulty variant: any backup will do.
CompareBackupAny(p) ==
    /\ pc[p] = "compare"
    /\ BeginWrite(p, "target")
    /\ UNCHANGED <<fileVars, callVars, tmp, litter, result>>

\* Faulty variant: a different backup is waited for instead of refused.
CompareBackupRetry(p) ==
    /\ pc[p] = "compare"
    /\ \/ /\ backup = snap[p]
          /\ BeginWrite(p, "target")
          /\ UNCHANGED <<fileVars, callVars, tmp, litter, result>>
       \/ /\ backup # snap[p]
          /\ Goto(p, "probe")

\* _ensure_backup: an existing backup must hold what this call has read.
CompareBackup(p) ==
    /\ pc[p] = "compare"
    /\ \/ /\ backup = snap[p]
          /\ BeginWrite(p, "target")
          /\ UNCHANGED <<fileVars, callVars, tmp, litter, result>>
       \/ /\ backup # snap[p]
          /\ Answer(p, "refused")

\* restore_callback_color: read_bytes and the hash of the patched record.
RestoreRead(p) ==
    /\ pc[p] = "idle"
    /\ \E s \in Sites : \E h \in Digests(s) :
           /\ Digest(target, s) = h
           /\ site' = [site EXCEPT ![p] = s]
    /\ snap' = [snap EXCEPT ![p] = target]
    /\ pc' = [pc EXCEPT ![p] = "lookup"]
    /\ result' = [result EXCEPT ![p] = "restoring"]
    /\ UNCHANGED <<fileVars, out, dest, tmp, litter>>

\* restore_callback_color: backup_path.exists(), or FileNotFoundError.
LookupBackup(p) ==
    /\ pc[p] = "lookup"
    /\ \/ backup # NoFile /\ Goto(p, "fetch")
       \/ backup = NoFile /\ Answer(p, "refused")

\* Faulty variant: the whole backup is written back.
FetchBackupWhole(p) ==
    /\ pc[p] = "fetch"
    /\ \E h \in Digests(site[p]) :
           /\ Accepts(backup, site[p], h)
           /\ out' = [out EXCEPT ![p] = backup]
           /\ BeginWrite(p, "target")
           /\ UNCHANGED <<fileVars, site, snap, tmp, litter, result>>

\* restore_callback_color: the backup is read, its record must have its owner
\* and the original hash, and only the payload bytes are taken from it.
FetchBackup(p) ==
    /\ pc[p] = "fetch"
    /\ \E h \in Digests(site[p]) :
           \/ /\ Accepts(backup, site[p], h)
              /\ out' = [out EXCEPT ![p] = Patched(snap[p], site[p], backup)]
              /\ BeginWrite(p, "target")
              /\ UNCHANGED <<fileVars, site, snap, tmp, litter, result>>
           \/ /\ ~Accepts(backup, site[p], h)
              /\ Answer(p, "refused")

Call(p) == Check(p) \/ ApplyRead(p) \/ RestoreRead(p)

Step(p) ==
    \/ ProbeBackup(p) \/ CompareBackup(p)
    \/ LookupBackup(p) \/ FetchBackup(p)
    \/ WriteStep(p)

Fault(p) == WriteFailure(p) \/ Kill(p)

Init == DllFilesInit

Next == \E p \in Procs : Call(p) \/ Step(p) \/ Fault(p)

Spec == Init /\ [][Next]_vars
-----------------------------------------------------------------------------
(* Properties *)

\* Every variable has its type; in particular no file is ever seen torn.
TypeOK == DllFilesTypeOK

\* d differs from the original inside the payload of one site at most.
OneEdit(d) ==
    d = Original \/ \E s \in Sites : Changed(Original, d) \subseteq Payload[s]

\* The backup is written from a snapshot that may be old by then, and more
\* than once when calls race; it never holds anything but the original.
BackupPristine == backup \in {NoFile, Original}

\* A second edit is refused while the first stands, since the backup differs
\* from what is read: however calls interleave, edits never pile up.
AtMostOneEdit == OneEdit(target)

\* Whatever raced, failed or was killed, an edited target has its backup, and
\* one restore that passes every check of restore_callback_color brings the
\* original back.
Recoverable ==
    target # Original =>
        /\ backup # NoFile
        /\ \E s \in Sites : Owned(backup, s) /\ Patched(target, s, backup) = Original

\* Only a killed process or a failed write leaves a temporary file behind: a
\* failed os.replace does not, as its clean-up can remove what the call made.
LitterOnlyWhenAborted ==
    [][\A p \in litter' \ litter : result'[p] \in {"killed", "writeFailed"}]_vars

\* The writer implements its promise.
Promise == INSTANCE EditableTarget
               WITH file <- target, saved <- backup,
                    Contents <- {d \in Dlls : OneEdit(d)}

ImplementsPromise == Promise!Spec
-----------------------------------------------------------------------------
(* The inductive invariant *)

\* d is the original, or one restore makes it so.
Undoable(d) ==
    \/ d = Original
    \/ \E s \in Sites : Owned(Original, s) /\ Patched(d, s, Original) = Original

FileInv ==
    /\ BackupPristine
    /\ Undoable(target)
    /\ target # Original => backup = Original

\* What a call holds at each of its steps.  The heart is the fourth conjunct:
\* nothing edits the target before there is a backup, so a call that still
\* finds no backup has read the original.
CallInv(p) ==
    /\ pc[p] # "idle" => site[p] \in Sites /\ snap[p] \in Dlls
    /\ pc[p] \in {"probe", "compare", "create", "fill", "move"} => out[p] \in Dlls
    /\ pc[p] = "move" => tmp[p] = "full"
    /\ pc[p] = "probe" /\ backup = NoFile => snap[p] = Original
    /\ pc[p] \in {"probe", "compare"} \/ Writing(p, "backup") =>
           (snap[p] = Original => Undoable(out[p]))
    /\ Writing(p, "backup") => snap[p] = Original
    /\ Writing(p, "target") => backup = Original /\ Undoable(out[p])
    /\ pc[p] \in {"compare", "fetch"} => backup = Original
    /\ pc[p] \in {"lookup", "fetch"} => Undoable(snap[p])

\* However many processes run, every file and every call in progress is as
\* it should be; this is what the proofs are built on.
Inductive == TypeOK /\ FileInv /\ \A p \in Procs : CallInv(p)
=============================================================================
