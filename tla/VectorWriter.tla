----------------------------- MODULE VectorWriter ----------------------------
(***************************************************************************)
(* useful_ppp_writer.py: dry_run_vector, apply_vector and restore_vector   *)
(* (with their scl_move aliases) on one DLL, one action per access to a    *)
(* file.  The sites are the candidates of the supported families, whose    *)
(* 16-byte windows lie in their records.  Unlike the colour writer,        *)
(* apply_vector reads the target twice and looks for the backup twice, and *)
(* restore_vector writes the whole backup back.                            *)
(***************************************************************************)
EXTENDS DllFiles

\* dry_run_vector reads the target and reports, or raises when the hash is
\* not the expected one.
Check(p) ==
    /\ pc[p] = "idle"
    /\ \E s \in Sites : \E h \in Digests(s) :
           Answer(p, IF Digest(target, s) = h THEN "checked" ELSE "refused")

\* apply_vector: `original`, the bytes a new backup will hold.
ApplyRead(p) ==
    /\ pc[p] = "idle"
    /\ \E s \in Sites : site' = [site EXCEPT ![p] = s]
    /\ snap' = [snap EXCEPT ![p] = target]
    /\ pc' = [pc EXCEPT ![p] = "reread"]
    /\ result' = [result EXCEPT ![p] = "applying"]
    /\ UNCHANGED <<fileVars, out, dest, tmp, litter>>

\* apply_vector: _patched_bytes reads the target again (in _validate_target),
\* and it is these bytes that are checked and patched.
ApplyReread(p) ==
    /\ pc[p] = "reread"
    /\ \E h \in Digests(site[p]) :
           \/ /\ Digest(target, site[p]) = h
              /\ \E w \in [Payload[site[p]] -> Values] :
                     out' = [out EXCEPT ![p] = Patched(target, site[p], w)]
              /\ pc' = [pc EXCEPT ![p] = "probe"]
              /\ UNCHANGED <<fileVars, site, snap, dest, tmp, litter, result>>
           \/ /\ Digest(target, site[p]) # h
              /\ Answer(p, "refused")

\* apply_vector: the first backup.exists().
ProbeBackup(p) ==
    /\ pc[p] = "probe"
    /\ Goto(p, IF backup = NoFile THEN "reprobe" ELSE "compare")

\* apply_vector: backup.read_bytes() != original.
CompareBackup(p) ==
    /\ pc[p] = "compare"
    /\ \/ backup = snap[p] /\ Goto(p, "reprobe")
       \/ backup # snap[p] /\ Answer(p, "refused")

\* Faulty variant: the backup is taken of the bytes as they are by now.
ReprobeBackupLate(p) ==
    /\ pc[p] = "reprobe"
    /\ BeginWrite(p, "backup")
    /\ snap' = [snap EXCEPT ![p] = target]
    /\ UNCHANGED <<fileVars, site, out, tmp, litter, result>>

\* Faulty variant: the backup is not written when it is missing.
ReprobeBackupSkip(p) ==
    /\ pc[p] = "reprobe"
    /\ BeginWrite(p, "target")
    /\ UNCHANGED <<fileVars, callVars, tmp, litter, result>>

\* apply_vector: the second backup.exists() decides whether to write one.
ReprobeBackup(p) ==
    /\ pc[p] = "reprobe"
    /\ BeginWrite(p, IF backup = NoFile THEN "backup" ELSE "target")
    /\ UNCHANGED <<fileVars, callVars, tmp, litter, result>>

\* restore_vector: result.backup_path.exists(), or ValueError.
LookupBackup(p) ==
    /\ pc[p] = "idle"
    /\ \E s \in Sites :
           \/ /\ backup # NoFile
              /\ site' = [site EXCEPT ![p] = s]
              /\ pc' = [pc EXCEPT ![p] = "lookup"]
              /\ result' = [result EXCEPT ![p] = "restoring"]
              /\ UNCHANGED <<fileVars, snap, out, dest, tmp, litter>>
           \/ /\ backup = NoFile
              /\ Answer(p, "refused")

\* restore_vector: `current`, read whole before anything is checked.
RestoreRead(p) ==
    /\ pc[p] = "lookup"
    /\ snap' = [snap EXCEPT ![p] = target]
    /\ pc' = [pc EXCEPT ![p] = "fetch"]
    /\ UNCHANGED <<fileVars, site, out, dest, tmp, litter, result>>

\* restore_vector: the backup is read, both records are checked, and the
\* bytes to write are the whole backup.  hr stands for result.record_sha256,
\* ho for expected_original_record_sha256.
FetchBackup(p) ==
    /\ pc[p] = "fetch"
    /\ \E hr, ho \in Digests(site[p]) :
           \/ /\ Digest(snap[p], site[p]) = hr
              /\ Digest(backup, site[p]) = ho
              /\ out' = [out EXCEPT ![p] = backup]
              /\ BeginWrite(p, "target")
              /\ UNCHANGED <<fileVars, site, snap, tmp, litter, result>>
           \/ /\ Digest(snap[p], site[p]) # hr \/ Digest(backup, site[p]) # ho
              /\ Answer(p, "refused")

Call(p) == Check(p) \/ ApplyRead(p) \/ LookupBackup(p)

Step(p) ==
    \/ ApplyReread(p) \/ ProbeBackup(p) \/ CompareBackup(p) \/ ReprobeBackup(p)
    \/ RestoreRead(p) \/ FetchBackup(p)
    \/ WriteStep(p)

Fault(p) == WriteFailure(p) \/ Kill(p)

Init == DllFilesInit

Next == \E p \in Procs : Call(p) \/ Step(p) \/ Fault(p)

Spec == Init /\ [][Next]_vars
-----------------------------------------------------------------------------
(* Properties *)

\* Every variable has its type; in particular no file is ever seen torn.
TypeOK == DllFilesTypeOK

\* The backup holds the original although apply_vector takes it from the
\* first of its two reads and looks for it twice.
BackupPristine == backup \in {NoFile, Original}

\* d differs from the original inside the windows of the sites only.
WindowEdit(d) ==
    Changed(Original, d) \subseteq UNION {Payload[s] : s \in Sites}

\* Whatever raced or was killed, nothing outside the windows of the sites has
\* changed, and an edited target has the backup that undoes all of it.  Edits
\* may pile up: a call reads `original` before another's edit and the bytes it
\* patches after it.
Recoverable ==
    /\ WindowEdit(target)
    /\ target # Original => backup = Original

\* The writer implements its promise, with any number of edits.
Promise == INSTANCE EditableTarget
               WITH file <- target, saved <- backup,
                    Contents <- {d \in Dlls : WindowEdit(d)}

ImplementsPromise == Promise!Spec
=============================================================================
