----------------------------- MODULE PublicGuard -----------------------------
(***************************************************************************)
(* guard.py: scan_tree over a directory, one action per access to the file *)
(* system, while an editor may change, add, remove or move files.          *)
(*                                                                         *)
(* A path is a number, in the order `sorted` gives them, and belongs to    *)
(* some of the classes the policy tells apart.  The contents of a file     *)
(* are what the checks see of it: whether it is too large, which of the    *)
(* three kinds of text it has, and whether it can be read.                 *)
(***************************************************************************)
EXTENDS Naturals

CONSTANTS Paths,
          Skipped,       \* with a part in _SKIP_DIRS or _SKIP_DIR_SUFFIXES
          Banned,        \* with a forbidden extension
          Inside,        \* in a forbidden directory
          Allowlisted,   \* in text_marker_allowlist
          Contents,      \* the contents a file may have
          Gone,          \* in place of contents: no file of that path
          Trees,         \* the trees a scan may begin on
          MaxEdits       \* bound: changes made while the scan runs

Texts == {"FORBIDDEN_TEXT_MARKER", "WINDOWS_PRIVATE_PATH", "LIKELY_CREDENTIAL"}

ASSUME GuardAssumption ==
    /\ Paths \subseteq Nat
    /\ Skipped \cup Banned \cup Inside \cup Allowlisted \subseteq Paths
    /\ Contents \subseteq [big : BOOLEAN, texts : SUBSET Texts, readable : BOOLEAN]
    /\ Gone \notin Contents
    /\ Trees \subseteq [Paths -> Contents \cup {Gone}]
    /\ MaxEdits \in Nat

VARIABLES tree,      \* the files as they are now
          phase,     \* "listing", "looking", "sizing", "reading" or "done"
          unlisted,  \* paths rglob has not come to
          todo,      \* paths listed and not judged, the current one included
          found,     \* the violations
          edits,     \* number of changes so far
          past       \* past[p]: what has been at p since the scan began

vars == <<tree, phase, unlisted, todo, found, edits, past>>

Exists(p) == tree[p] # Gone

\* The path the loop is at.
First(p) == p \in todo /\ \A q \in todo : p <= q

Violation(kinds, p) == {[kind |-> k, path |-> p] : k \in kinds}

\* Faulty variant: the allowlist covers every text.
TextViolationsNone(p, v) == IF p \in Allowlisted THEN {} ELSE v.texts

\* _scan_text_content: an allowlisted file is let off the markers only.
TextViolations(p, v) ==
    IF p \in Allowlisted THEN v.texts \ {"FORBIDDEN_TEXT_MARKER"} ELSE v.texts

Init ==
    /\ tree \in Trees
    /\ phase = "listing"
    /\ unlisted = Paths
    /\ todo = {}
    /\ found = {}
    /\ edits = 0
    /\ past = [p \in Paths |-> {tree[p]}]

\* root.rglob("*"), which sorted() runs to its end before the loop starts; a
\* directory gives its entries in any order.
List ==
    /\ phase = "listing"
    /\ \/ \E p \in unlisted :
              /\ unlisted' = unlisted \ {p}
              /\ todo' = IF Exists(p) THEN todo \cup {p} ELSE todo
              /\ UNCHANGED phase
       \/ /\ unlisted = {}
          /\ phase' = "looking"
          /\ UNCHANGED <<unlisted, todo>>
    /\ UNCHANGED <<tree, found, edits, past>>

\* The loop goes on behind p.
GoOn(p) ==
    /\ todo' = todo \ {p}
    /\ phase' = "looking"

\* is_file, then the checks on the path alone.  A forbidden extension ends
\* the turn, a forbidden directory does not.
Look ==
    /\ phase = "looking"
    /\ \E p \in todo :
           /\ First(p)
           /\ \/ /\ ~Exists(p) \/ p \in Skipped
                 /\ GoOn(p)
                 /\ UNCHANGED found
              \/ /\ Exists(p) /\ p \notin Skipped /\ p \in Banned
                 /\ found' = found \cup Violation({"FORBIDDEN_EXTENSION"}, p)
                 /\ GoOn(p)
              \/ /\ Exists(p) /\ p \notin Skipped \cup Banned
                 /\ found' = IF p \in Inside
                             THEN found \cup Violation({"FORBIDDEN_DIRECTORY"}, p)
                             ELSE found
                 /\ phase' = "sizing"
                 /\ UNCHANGED todo
    /\ UNCHANGED <<tree, unlisted, edits, past>>

\* Faulty variant: a file that cannot be sized is called too large.
OversizedUnknown(v) == v = Gone \/ v.big

\* What path.stat says; a file that is gone has size 0.
Oversized(v) == v # Gone /\ v.big

Size ==
    /\ phase = "sizing"
    /\ \E p \in todo :
           /\ First(p)
           /\ found' = IF Oversized(tree[p])
                       THEN found \cup Violation({"OVERSIZED_FILE"}, p)
                       ELSE found
    /\ phase' = "reading"
    /\ UNCHANGED <<tree, unlisted, todo, edits, past>>

\* path.read_bytes and the checks on the text; a file that cannot be read is
\* passed over.
Read ==
    /\ phase = "reading"
    /\ \E p \in todo :
           /\ First(p)
           /\ found' = IF Exists(p) /\ tree[p].readable
                       THEN found \cup Violation(TextViolations(p, tree[p]), p)
                       ELSE found
           /\ GoOn(p)
    /\ UNCHANGED <<tree, unlisted, edits, past>>

\* The loop is through; main exits with 0 if nothing was found, else with 1.
Finish ==
    /\ phase = "looking" /\ todo = {}
    /\ phase' = "done"
    /\ UNCHANGED <<tree, unlisted, todo, found, edits, past>>

\* Somebody writes, creates or removes a file, or moves one.
Edit ==
    /\ phase # "done" /\ edits < MaxEdits
    /\ \/ \E p \in Paths, v \in Contents \cup {Gone} : tree' = [tree EXCEPT ![p] = v]
       \/ \E p, q \in Paths :
              /\ p # q /\ Exists(p)
              /\ tree' = [tree EXCEPT ![q] = tree[p], ![p] = Gone]
    /\ tree' # tree
    /\ edits' = edits + 1
    /\ past' = [p \in Paths |-> past[p] \cup {tree'[p]}]
    /\ UNCHANGED <<phase, unlisted, todo, found>>

Scan == List \/ Look \/ Size \/ Read \/ Finish

Next == Scan \/ Edit

Spec == Init /\ [][Next]_vars
-----------------------------------------------------------------------------
(* Properties *)

\* The violations of a file at p with contents v: the policy, check by check.
Deserved(p, v) ==
    IF p \in Banned THEN {"FORBIDDEN_EXTENSION"}
    ELSE (IF p \in Inside THEN {"FORBIDDEN_DIRECTORY"} ELSE {})
         \cup (IF v.big THEN {"OVERSIZED_FILE"} ELSE {})
         \cup (v.texts \ (IF p \in Allowlisted THEN {"FORBIDDEN_TEXT_MARKER"} ELSE {}))

Reported(p) == {f.kind : f \in {g \in found : g.path = p}}

\* Whatever is done to other files meanwhile, a file that nobody touches while
\* the scan runs is reported for exactly what is wrong with it.  One that cannot
\* be read is still reported for its name, its place and its size; what it says
\* stays unknown, although the exit code does not tell.
ReportExact ==
    phase = "done" =>
        \A p \in Paths \ Skipped : \A v \in Contents :
            past[p] = {v} =>
                Reported(p) = Deserved(p, IF v.readable THEN v ELSE [v EXCEPT !.texts = {}])

\* However files change between the listing, the stat and the read, every
\* violation was true of its file at some moment of the scan; in particular a
\* file that has just been removed causes none.
AlarmIsReal ==
    \A f \in found :
        \E v \in past[f.path] \ {Gone} : f.kind \in Deserved(f.path, v)
-----------------------------------------------------------------------------
(* The inductive invariant *)

Kinds == Texts \cup {"FORBIDDEN_EXTENSION", "FORBIDDEN_DIRECTORY", "OVERSIZED_FILE"}

\* Every variable has its type.
TypeOK ==
    /\ tree \in [Paths -> Contents \cup {Gone}]
    /\ phase \in {"listing", "looking", "sizing", "reading", "done"}
    /\ unlisted \subseteq Paths /\ todo \subseteq Paths
    /\ found \subseteq [kind : Kinds, path : Paths]
    /\ edits \in Nat
    /\ past \in [Paths -> SUBSET (Contents \cup {Gone})]

\* What is reported of a file for its place, and for its size.
ForPlace(p) == IF p \in Inside THEN {"FORBIDDEN_DIRECTORY"} ELSE {}
ForSize(v) == IF v.big THEN {"OVERSIZED_FILE"} ELSE {}

\* What a scan can see of contents.
Legible(v) == IF v.readable THEN v ELSE [v EXCEPT !.texts = {}]

\* What is reported by now of a file at p that has been v all along.
Due(p, v) ==
    IF p \notin unlisted \cup todo THEN Deserved(p, Legible(v))
    ELSE IF phase = "sizing" /\ First(p) THEN ForPlace(p)
    ELSE IF phase = "reading" /\ First(p) THEN ForPlace(p) \cup ForSize(v)
    ELSE {}

GuardInv ==
    /\ TypeOK
    /\ phase # "listing" => unlisted = {}
    /\ phase = "done" => todo = {}
    /\ phase \in {"sizing", "reading"} =>
           \A p \in todo : First(p) => p \notin Skipped \cup Banned
    /\ \A p \in Paths : tree[p] \in past[p]
    /\ AlarmIsReal
    /\ \A p \in Paths \ Skipped : \A v \in Contents :
           past[p] = {v} => Reported(p) = Due(p, v)
=============================================================================
