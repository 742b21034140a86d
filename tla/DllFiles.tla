------------------------------ MODULE DllFiles ------------------------------
(***************************************************************************)
(* The files a DLL writer works on, and the one routine that both writers  *)
(* of the repository change them with.  c2_b_writer.py and                 *)
(* useful_ppp_writer.py each hold the same _write_atomically: create a     *)
(* temporary file in the directory of the destination, write and close     *)
(* it, os.replace it over the destination.  Nothing is locked, so several  *)
(* processes may be anywhere inside it at once.                            *)
(*                                                                         *)
(* A DLL is a function from Cells (disjoint runs of bytes) to Values.  A   *)
(* site is a callback record a writer may edit: Record[s] is what the      *)
(* caller's SHA-256 covers, Payload[s] the operand window inside it.  Two  *)
(* records may overlap.  A digest is the record's contents: collisions are *)
(* left out.                                                               *)
(***************************************************************************)

CONSTANTS Procs,     \* processes that call a writer, one call at a time each
          Cells,
          Values,
          Sites,
          Record,    \* [Sites -> SUBSET Cells]
          Payload,   \* [Sites -> SUBSET Cells]
          Original,  \* the DLL before any call
          NoFile,    \* in place of the contents of a file that does not exist
          Torn       \* the contents of a file that was only partly written

Dlls == [Cells -> Values]

ASSUME DllAssumption ==
    /\ Original \in Dlls
    /\ Record \in [Sites -> SUBSET Cells]
    /\ Payload \in [Sites -> SUBSET Cells]
    /\ \A s \in Sites : Payload[s] \subseteq Record[s]
    /\ NoFile \notin Dlls
    /\ Torn \notin Dlls \cup {NoFile}

\* What the caller's record hash stands for.
Digest(d, s) == [c \in Record[s] |-> d[c]]
Digests(s) == [Record[s] -> Values]

\* Faulty variant: the payload's first cell spills over the whole record.
PatchedWide(d, s, w) ==
    [c \in Cells |-> IF c \in Payload[s] THEN w[c]
                     ELSE IF c \in Record[s] THEN w[CHOOSE x \in Payload[s] : TRUE]
                     ELSE d[c]]

\* d with the payload of s taken from w.
Patched(d, s, w) == [c \in Cells |-> IF c \in Payload[s] THEN w[c] ELSE d[c]]

\* The cells where two DLLs differ: the `changed` tuple of the writers.
Changed(d, e) == {c \in Cells : d[c] # e[c]}

VARIABLES target,   \* the DLL on disk
          backup,   \* its backup on disk, or NoFile
          pc,       \* pc[p]: where p is in its call
          site,     \* site[p]: the record the call is about
          snap,     \* snap[p]: the target as p read it
          out,      \* out[p]: the bytes p means to put into the target
          dest,     \* dest[p]: the file _write_atomically is writing
          tmp,      \* tmp[p]: p's temporary file
          litter,   \* processes that have left a temporary file behind
          result    \* result[p]: the call p is in, or how its last call ended

fileVars == <<target, backup>>
callVars == <<site, snap, out>>
vars == <<target, backup, pc, site, snap, out, dest, tmp, litter, result>>

Labels == {"idle", "probe", "compare", "reread", "lookup", "fetch", "reprobe",
           "create", "fill", "move"}
Results == {"none", "applying", "restoring", "done", "checked", "refused",
            "writeFailed", "replaceFailed", "killed"}

DllFilesInit ==
    /\ target = Original
    /\ backup = NoFile
    /\ pc = [p \in Procs |-> "idle"]
    /\ site = [p \in Procs |-> NoFile]
    /\ snap = [p \in Procs |-> NoFile]
    /\ out = [p \in Procs |-> NoFile]
    /\ dest = [p \in Procs |-> "target"]
    /\ tmp = [p \in Procs |-> "none"]
    /\ litter = {}
    /\ result = [p \in Procs |-> "none"]

\* The call of p is over, by a return, an exception or the end of the process.
Return(p, how) ==
    /\ pc' = [pc EXCEPT ![p] = "idle"]
    /\ site' = [site EXCEPT ![p] = NoFile]
    /\ snap' = [snap EXCEPT ![p] = NoFile]
    /\ out' = [out EXCEPT ![p] = NoFile]
    /\ dest' = [dest EXCEPT ![p] = "target"]
    /\ result' = [result EXCEPT ![p] = how]

\* The call of p is over and _write_atomically was not entered.
Answer(p, how) ==
    /\ Return(p, how)
    /\ UNCHANGED <<fileVars, tmp, litter>>

\* The call of p goes on at label l and nothing else changes.
Goto(p, l) ==
    /\ pc' = [pc EXCEPT ![p] = l]
    /\ UNCHANGED <<fileVars, callVars, dest, tmp, litter, result>>

\* The call of p enters _write_atomically for the file f.
BeginWrite(p, f) ==
    /\ pc' = [pc EXCEPT ![p] = "create"]
    /\ dest' = [dest EXCEPT ![p] = f]

(***************************************************************************)
(* _write_atomically                                                       *)
(***************************************************************************)

\* Faulty variant: the temporary file is moved before it is written.
CreateTempUnwritten(p) ==
    /\ pc[p] = "create"
    /\ pc' = [pc EXCEPT ![p] = "move"]
    /\ tmp' = [tmp EXCEPT ![p] = "empty"]
    /\ UNCHANGED <<fileVars, callVars, dest, litter, result>>

\* NamedTemporaryFile(dir=path.parent, delete=False).
CreateTemp(p) ==
    /\ pc[p] = "create"
    /\ pc' = [pc EXCEPT ![p] = "fill"]
    /\ tmp' = [tmp EXCEPT ![p] = "empty"]
    /\ UNCHANGED <<fileVars, callVars, dest, litter, result>>

\* The directory admits no new file: the call raises.
CreateFails(p) ==
    /\ pc[p] = "create"
    /\ Answer(p, "writeFailed")

\* temporary.write(data), and the close at the end of the with block.
FillTemp(p) ==
    /\ pc[p] = "fill"
    /\ pc' = [pc EXCEPT ![p] = "move"]
    /\ tmp' = [tmp EXCEPT ![p] = "full"]
    /\ UNCHANGED <<fileVars, callVars, dest, litter, result>>

\* The write or the close raises.  That is before the try, and the file was
\* opened with delete=False, so nothing removes it.
WriteFails(p) ==
    /\ pc[p] = "fill"
    /\ tmp' = [tmp EXCEPT ![p] = "none"]
    /\ litter' = litter \cup {p}
    /\ Return(p, "writeFailed")
    /\ UNCHANGED fileVars

\* What os.replace puts in place when the bytes to write are d.
Moved(p, d) == IF tmp[p] = "full" THEN d ELSE Torn

\* os.replace(temporary, backup): the writer goes on to the target.
MoveToBackup(p) ==
    /\ pc[p] = "move" /\ dest[p] = "backup"
    /\ backup' = Moved(p, snap[p])
    /\ tmp' = [tmp EXCEPT ![p] = "none"]
    /\ BeginWrite(p, "target")
    /\ UNCHANGED <<target, callVars, litter, result>>

\* os.replace(temporary, target), the last step of a call.
MoveToTarget(p) ==
    /\ pc[p] = "move" /\ dest[p] = "target"
    /\ target' = Moved(p, out[p])
    /\ tmp' = [tmp EXCEPT ![p] = "none"]
    /\ Return(p, "done")
    /\ UNCHANGED <<backup, litter>>

\* Faulty variant: no finally clause.
ReplaceFailsNoUnlink(p) ==
    /\ pc[p] = "move"
    /\ tmp' = [tmp EXCEPT ![p] = "none"]
    /\ litter' = litter \cup {p}
    /\ Return(p, "replaceFailed")
    /\ UNCHANGED fileVars

\* os.replace raises; the finally clause unlinks the temporary file.  That the
\* unlink succeeds is assumed: it removes a file this call has just made.
ReplaceFails(p) ==
    /\ pc[p] = "move"
    /\ tmp' = [tmp EXCEPT ![p] = "none"]
    /\ Return(p, "replaceFailed")
    /\ UNCHANGED <<fileVars, litter>>

\* The process is killed: no exception handler runs.
Kill(p) ==
    /\ pc[p] # "idle"
    /\ litter' = IF tmp[p] = "none" THEN litter ELSE litter \cup {p}
    /\ tmp' = [tmp EXCEPT ![p] = "none"]
    /\ Return(p, "killed")
    /\ UNCHANGED fileVars

WriteStep(p) ==
    \/ CreateTemp(p) \/ FillTemp(p)
    \/ MoveToBackup(p) \/ MoveToTarget(p)

WriteFailure(p) == CreateFails(p) \/ WriteFails(p) \/ ReplaceFails(p)

\* p is inside _write_atomically for the file f.
Writing(p, f) == pc[p] \in {"create", "fill", "move"} /\ dest[p] = f

DllFilesTypeOK ==
    /\ target \in Dlls
    /\ backup \in Dlls \cup {NoFile}
    /\ pc \in [Procs -> Labels]
    /\ site \in [Procs -> Sites \cup {NoFile}]
    /\ snap \in [Procs -> Dlls \cup {NoFile}]
    /\ out \in [Procs -> Dlls \cup {NoFile}]
    /\ dest \in [Procs -> {"target", "backup"}]
    /\ tmp \in [Procs -> {"none", "empty", "full"}]
    /\ litter \in SUBSET Procs
    /\ result \in [Procs -> Results]
=============================================================================
