-------------------------- MODULE PublicGuardProofs --------------------------
(***************************************************************************)
(* That the public tree guard raises no false alarm and misses nothing in  *)
(* a file that nobody touches, for every tree, every policy and any number *)
(* of edits between its listing, its stat and its read.                    *)
(***************************************************************************)
EXTENDS PublicGuard, TLAPS

-----------------------------------------------------------------------------
(* The operators *)

\* Reporting violations of one file adds to what is reported of that file.
LEMMA ReportedAdds ==
    ASSUME NEW K, NEW q, found' = found \cup Violation(K, q)
    PROVE  /\ Reported(q)' = Reported(q) \cup K
           /\ \A p : p # q => Reported(p)' = Reported(p)
<1>1. \A f : f \in found' <=> f \in found \/ (\E k \in K : f = [kind |-> k, path |-> q])
  BY DEF Violation
<1>2. ASSUME NEW p, NEW k
      PROVE  k \in Reported(p)' <=> k \in Reported(p) \/ (p = q /\ k \in K)
  <2>1. k \in Reported(p) <=> \E f \in found : f.path = p /\ f.kind = k
    BY DEF Reported
  <2>2. k \in Reported(p)' <=> \E f \in found' : f.path = p /\ f.kind = k
    BY DEF Reported
  <2>3. (\E f \in found' : f.path = p /\ f.kind = k)
          <=> (\E f \in found : f.path = p /\ f.kind = k) \/ (p = q /\ k \in K)
    <3>1. \A j : LET f == [kind |-> j, path |-> q] IN f.kind = j /\ f.path = q
      OBVIOUS
    <3>2. ASSUME p = q, k \in K
          PROVE  \E f \in found' : f.path = p /\ f.kind = k
      BY <1>1, <3>1, <3>2
    <3>3. ASSUME NEW f \in found', f.path = p, f.kind = k, f \notin found
          PROVE  p = q /\ k \in K
      <4>1. PICK j \in K : f = [kind |-> j, path |-> q]
        BY <1>1, <3>3
      <4>2. QED BY <3>1, <3>3, <4>1
    <3>4. \A f \in found : f \in found'
      BY <1>1
    <3>5. QED BY <3>2, <3>3, <3>4
  <2>4. QED BY <2>1, <2>2, <2>3
<1>3. Reported(q)' = Reported(q) \cup K
  <2>1. \A k : k \in Reported(q)' <=> k \in Reported(q) \/ k \in K
    BY <1>2
  <2>2. QED BY <2>1
<1>4. ASSUME NEW p, p # q PROVE Reported(p)' = Reported(p)
  BY <1>2, <1>4
<1>5. QED BY <1>3, <1>4

LEMMA ReportedStays ==
    ASSUME found' = found
    PROVE  \A p : Reported(p)' = Reported(p)
BY DEF Reported

\* A violation that is true of the file now is no false alarm.
LEMMA AlarmAdds ==
    ASSUME TypeOK, AlarmIsReal, past' = past, NEW q \in Paths, tree[q] \in past[q],
           NEW K, K = {} \/ Exists(q), K \subseteq Deserved(q, tree[q]),
           found' = found \cup Violation(K, q)
    PROVE  AlarmIsReal'
<1> SUFFICES ASSUME NEW f \in found'
             PROVE  \E v \in past[f.path] \ {Gone} : f.kind \in Deserved(f.path, v)
  BY DEF AlarmIsReal
<1>1. CASE f \in found
  BY <1>1 DEF AlarmIsReal
<1>2. CASE f \in Violation(K, q)
  <2>1. PICK k \in K : f = [kind |-> k, path |-> q]
    BY <1>2 DEF Violation
  <2>2. f.kind = k /\ f.path = q
    BY <2>1
  <2>3. tree[q] \in past[q] \ {Gone}
    BY <2>1 DEF Exists
  <2>4. QED BY <2>2, <2>3
<1>3. QED BY <1>1, <1>2

LEMMA FoundType ==
    ASSUME TypeOK, NEW q \in Paths, NEW K \in SUBSET Kinds,
           found' = found \cup Violation(K, q)
    PROVE  found' \subseteq [kind : Kinds, path : Paths]
BY DEF TypeOK, Violation

\* The loop is at one path.
LEMMA OneFirst ==
    ASSUME TypeOK, NEW p, NEW q, First(p), First(q)
    PROVE  p = q
BY GuardAssumption DEF TypeOK, First

\* A file that was the same all along is that now.
LEMMA SameAllAlong ==
    ASSUME TypeOK, NEW p \in Paths, tree[p] \in past[p], NEW v \in Contents, past[p] = {v}
    PROVE  tree[p] = v /\ Exists(p) /\ v.big \in BOOLEAN /\ v.texts \subseteq Texts
           /\ v.readable \in BOOLEAN
BY GuardAssumption DEF Exists

\* The policy, put together from the three checks.
LEMMA DeservedParts ==
    ASSUME NEW p \in Paths, NEW v \in Contents, p \notin Banned
    PROVE  /\ Deserved(p, v) = ForPlace(p) \cup ForSize(v) \cup TextViolations(p, v)
           /\ Deserved(p, Legible(v)) =
                  ForPlace(p) \cup ForSize(v)
                  \cup (IF v.readable THEN TextViolations(p, v) ELSE {})
           /\ TextViolations(p, v) \subseteq Kinds
<1>1. v \in [big : BOOLEAN, texts : SUBSET Texts, readable : BOOLEAN]
  BY GuardAssumption
<1>2. [v EXCEPT !.texts = {}].big = v.big /\ [v EXCEPT !.texts = {}].texts = {}
  BY <1>1
<1>3. TextViolations(p, v) = v.texts \ (IF p \in Allowlisted THEN {"FORBIDDEN_TEXT_MARKER"} ELSE {})
  BY DEF TextViolations
<1>4. QED BY <1>1, <1>2, <1>3 DEF Deserved, ForPlace, ForSize, Legible, Kinds

-----------------------------------------------------------------------------
(* The actions *)

LEMMA InitGuard ==
    ASSUME Init
    PROVE  GuardInv
<1>1. TypeOK
  BY GuardAssumption DEF Init, TypeOK
<1>2. /\ \A p \in Paths : tree[p] \in past[p]
      /\ AlarmIsReal
      /\ \A p : Reported(p) = {}
  BY DEF Init, AlarmIsReal, Reported
<1>3. \A p \in Paths : \A v \in Contents : Due(p, v) = {}
  BY DEF Init, Due
<1>4. QED BY <1>1, <1>2, <1>3 DEF GuardInv, Init

LEMMA ListGuard ==
    ASSUME GuardInv, List
    PROVE  GuardInv'
<1>0. TypeOK /\ phase = "listing" /\ UNCHANGED <<tree, found, edits, past>>
  BY DEF GuardInv, List
<1>1. AlarmIsReal' /\ \A p \in Paths : tree'[p] \in past'[p]
  BY <1>0 DEF GuardInv, AlarmIsReal
<1>2. \A p : Reported(p)' = Reported(p)
  BY <1>0, ReportedStays
<1>3. CASE unlisted = {} /\ phase' = "looking" /\ UNCHANGED <<unlisted, todo>>
  <2>1. TypeOK'
    BY <1>0, <1>3 DEF TypeOK
  <2>2. \A p, v : Due(p, v)' = Due(p, v)
    BY <1>0, <1>3 DEF Due
  <2>3. QED BY <1>0, <1>1, <1>2, <1>3, <2>1, <2>2 DEF GuardInv
<1>4. CASE \E p \in unlisted :
              /\ unlisted' = unlisted \ {p}
              /\ todo' = IF Exists(p) THEN todo \cup {p} ELSE todo
              /\ UNCHANGED phase
  <2>1. PICK q \in unlisted :
              /\ unlisted' = unlisted \ {q}
              /\ todo' = IF Exists(q) THEN todo \cup {q} ELSE todo
              /\ UNCHANGED phase
    BY <1>4
  <2>2. TypeOK'
    BY <1>0, <2>1 DEF TypeOK
  <2>3. ASSUME NEW p \in Paths, NEW v \in Contents, past[p] = {v}
        PROVE  Due(p, v)' = Due(p, v)
    <3>1. Exists(p)
      BY <1>0, <2>3, SameAllAlong DEF GuardInv
    <3>2. p \in unlisted' \cup todo' <=> p \in unlisted \cup todo
      BY <2>1, <3>1
    <3>3. QED BY <1>0, <2>1, <3>2 DEF Due
  <2>4. QED BY <1>0, <1>1, <1>2, <2>1, <2>2, <2>3 DEF GuardInv
<1>5. QED BY <1>3, <1>4 DEF List

\* The part of the invariant that a turn of the loop has to keep: what is due
\* of files other than the one the loop is at does not change.
LEMMA OthersDue ==
    ASSUME GuardInv, NEW q \in todo, First(q),
           phase \in {"looking", "sizing", "reading"},
           UNCHANGED <<tree, unlisted, past>>,
           \/ todo' = todo /\ phase' \in {"sizing", "reading"}
           \/ todo' = todo \ {q} /\ phase' = "looking"
    PROVE  \A p \in Paths \ {q} : \A v \in Contents : Due(p, v)' = Due(p, v)
<1>1. ASSUME NEW p \in Paths \ {q}, NEW v \in Contents
      PROVE  Due(p, v)' = Due(p, v)
  <2>1. ~First(p)
    BY OneFirst DEF GuardInv
  <2>2. CASE todo' = todo
    BY <2>1, <2>2 DEF Due, First
  <2>3. CASE todo' = todo \ {q} /\ phase' = "looking"
    BY <2>1, <2>3 DEF Due
  <2>4. QED BY <2>2, <2>3
<1>2. QED BY <1>1

\* One step of the loop at q that reports K, if that is what is due.
LEMMA TurnGuard ==
    ASSUME GuardInv, NEW q \in todo, First(q), NEW K \in SUBSET Kinds,
           phase \in {"looking", "sizing", "reading"},
           UNCHANGED <<tree, unlisted, edits, past>>,
           \/ /\ todo' = todo /\ phase' \in {"sizing", "reading"}
              /\ q \notin Skipped \cup Banned
           \/ todo' = todo \ {q} /\ phase' = "looking",
           found' = found \cup Violation(K, q),
           K = {} \/ Exists(q),
           K \subseteq Deserved(q, tree[q]),
           q \notin Skipped => \A v \in Contents :
               past[q] = {v} => Due(q, v)' = Due(q, v) \cup K
    PROVE  GuardInv'
<1>0. TypeOK /\ q \in Paths
  BY DEF GuardInv, TypeOK
<1>1. TypeOK'
  BY <1>0, FoundType DEF TypeOK
<1>2. AlarmIsReal' /\ \A p \in Paths : tree'[p] \in past'[p]
  BY <1>0, AlarmAdds DEF GuardInv
<1>3. /\ Reported(q)' = Reported(q) \cup K
      /\ \A p : p # q => Reported(p)' = Reported(p)
  BY ReportedAdds
<1>4. \A p \in Paths \ {q} : \A v \in Contents : Due(p, v)' = Due(p, v)
  BY OthersDue
<1>5. ASSUME NEW p \in Paths \ Skipped, NEW v \in Contents, past'[p] = {v}
      PROVE  Reported(p)' = Due(p, v)'
  <2>1. Reported(p) = Due(p, v)
    BY <1>5 DEF GuardInv
  <2>2. CASE p = q
    BY <1>3, <1>5, <2>1, <2>2
  <2>3. CASE p # q
    BY <1>3, <1>4, <2>1, <2>3
  <2>4. QED BY <2>2, <2>3
<1>6. phase' \in {"sizing", "reading"} =>
          \A p \in todo' : First(p)' => p \notin Skipped \cup Banned
  <2> SUFFICES ASSUME phase' \in {"sizing", "reading"}, NEW p \in todo', First(p)'
               PROVE  p \notin Skipped \cup Banned
    OBVIOUS
  <2>1. todo' = todo
    OBVIOUS
  <2>2. First(p)
    BY <2>1 DEF First
  <2>3. p = q
    BY <1>0, <2>2, OneFirst
  <2>4. QED BY <2>1, <2>3
<1>7. unlisted' = {} /\ phase' # "done"
  BY DEF GuardInv
<1>8. QED BY <1>1, <1>2, <1>5, <1>6, <1>7 DEF GuardInv

LEMMA LookGuard ==
    ASSUME GuardInv, Look
    PROVE  GuardInv'
<1>0. TypeOK /\ phase = "looking" /\ UNCHANGED <<tree, unlisted, edits, past>>
  BY DEF GuardInv, Look
<1>1. PICK q \in todo :
          /\ First(q)
          /\ \/ /\ ~Exists(q) \/ q \in Skipped
                /\ GoOn(q)
                /\ UNCHANGED found
             \/ /\ Exists(q) /\ q \notin Skipped /\ q \in Banned
                /\ found' = found \cup Violation({"FORBIDDEN_EXTENSION"}, q)
                /\ GoOn(q)
             \/ /\ Exists(q) /\ q \notin Skipped \cup Banned
                /\ found' = IF q \in Inside
                            THEN found \cup Violation({"FORBIDDEN_DIRECTORY"}, q)
                            ELSE found
                /\ phase' = "sizing"
                /\ UNCHANGED todo
  BY DEF Look
<1>2. q \in Paths /\ \A v : Due(q, v) = {}
  BY <1>0, <1>1 DEF TypeOK, Due, GuardInv
<1>3. Violation({}, q) = {}
  BY DEF Violation
<1>4. CASE (~Exists(q) \/ q \in Skipped) /\ GoOn(q) /\ UNCHANGED found
  <2>1. q \notin Skipped => \A v \in Contents : past[q] # {v}
    BY <1>0, <1>2, <1>4, SameAllAlong DEF GuardInv
  <2>2. found' = found \cup Violation({}, q)
    BY <1>3, <1>4
  <2>3. todo' = todo \ {q} /\ phase' = "looking"
    BY <1>4 DEF GoOn
  <2>4. QED BY <1>0, <1>1, <2>1, <2>2, <2>3, TurnGuard
<1>5. CASE /\ Exists(q) /\ q \notin Skipped /\ q \in Banned
           /\ found' = found \cup Violation({"FORBIDDEN_EXTENSION"}, q)
           /\ GoOn(q)
  <2>1. \A v : Deserved(q, v) = {"FORBIDDEN_EXTENSION"}
    BY <1>5 DEF Deserved
  <2>2. todo' = todo \ {q} /\ phase' = "looking" /\ unlisted' = {}
    BY <1>0, <1>5 DEF GoOn, GuardInv
  <2>3. \A v : Due(q, v)' = {"FORBIDDEN_EXTENSION"}
    BY <2>1, <2>2 DEF Due, Deserved
  <2>4. {"FORBIDDEN_EXTENSION"} \in SUBSET Kinds
    BY DEF Kinds
  <2>5. QED BY <1>0, <1>1, <1>2, <1>5, <2>1, <2>2, <2>3, <2>4, TurnGuard
<1>6. CASE /\ Exists(q) /\ q \notin Skipped \cup Banned
           /\ found' = IF q \in Inside
                       THEN found \cup Violation({"FORBIDDEN_DIRECTORY"}, q)
                       ELSE found
           /\ phase' = "sizing"
           /\ UNCHANGED todo
  <2>1. found' = found \cup Violation(ForPlace(q), q)
    BY <1>3, <1>6 DEF ForPlace
  <2>2. ForPlace(q) \in SUBSET Kinds /\ ForPlace(q) \subseteq Deserved(q, tree[q])
    BY <1>6 DEF ForPlace, Kinds, Deserved
  <2>3. First(q)'
    BY <1>1, <1>6 DEF First
  <2>4. \A v : Due(q, v)' = ForPlace(q)
    BY <1>1, <1>6, <2>3 DEF Due, ForPlace
  <2>5. QED BY <1>0, <1>1, <1>2, <1>6, <2>1, <2>2, <2>4, TurnGuard
<1>7. QED BY <1>1, <1>4, <1>5, <1>6

LEMMA SizeGuard ==
    ASSUME GuardInv, Size
    PROVE  GuardInv'
<1>0. /\ TypeOK /\ phase = "sizing" /\ phase' = "reading"
      /\ UNCHANGED <<tree, unlisted, todo, edits, past>>
  BY DEF GuardInv, Size
<1>1. PICK q \in todo :
          /\ First(q)
          /\ found' = IF Oversized(tree[q])
                      THEN found \cup Violation({"OVERSIZED_FILE"}, q)
                      ELSE found
  BY DEF Size
<1>2. q \in Paths /\ q \notin Skipped \cup Banned
  BY <1>0, <1>1 DEF TypeOK, GuardInv
<1>3. First(q)'
  BY <1>0, <1>1 DEF First
<1> DEFINE K == IF Oversized(tree[q]) THEN {"OVERSIZED_FILE"} ELSE {}
<1>4. found' = found \cup Violation(K, q)
  BY <1>1 DEF Violation
<1>5. K \in SUBSET Kinds /\ (K = {} \/ Exists(q)) /\ K \subseteq Deserved(q, tree[q])
  BY <1>2 DEF Kinds, Oversized, Exists, Deserved
<1>6. ASSUME NEW v \in Contents, past[q] = {v}
      PROVE  Due(q, v)' = Due(q, v) \cup K
  <2>1. tree[q] = v /\ Exists(q)
    BY <1>0, <1>2, <1>6, SameAllAlong DEF GuardInv
  <2>2. K = ForSize(v)
    BY <2>1 DEF Oversized, Exists, ForSize
  <2>3. Due(q, v) = ForPlace(q)
    BY <1>0, <1>1 DEF Due
  <2>4. Due(q, v)' = ForPlace(q) \cup ForSize(v)
    BY <1>0, <1>1, <1>3 DEF Due, ForPlace, ForSize
  <2>5. QED BY <2>2, <2>3, <2>4
<1> HIDE DEF K
<1>7. QED BY <1>0, <1>1, <1>2, <1>4, <1>5, <1>6, TurnGuard

LEMMA ReadGuard ==
    ASSUME GuardInv, Read
    PROVE  GuardInv'
<1>0. TypeOK /\ phase = "reading" /\ UNCHANGED <<tree, unlisted, edits, past>>
  BY DEF GuardInv, Read
<1>1. PICK q \in todo :
          /\ First(q)
          /\ found' = IF Exists(q) /\ tree[q].readable
                      THEN found \cup Violation(TextViolations(q, tree[q]), q)
                      ELSE found
          /\ GoOn(q)
  BY DEF Read
<1>2. q \in Paths /\ q \notin Skipped \cup Banned /\ unlisted = {}
  BY <1>0, <1>1 DEF TypeOK, GuardInv
<1>3. todo' = todo \ {q} /\ phase' = "looking"
  BY <1>1 DEF GoOn
<1> DEFINE K == IF Exists(q) /\ tree[q].readable THEN TextViolations(q, tree[q]) ELSE {}
<1>4. found' = found \cup Violation(K, q)
  BY <1>1 DEF Violation
<1>5. K \in SUBSET Kinds /\ (K = {} \/ Exists(q)) /\ K \subseteq Deserved(q, tree[q])
  <2>1. CASE ~Exists(q)
    BY <2>1
  <2>2. CASE Exists(q)
    <3>1. tree[q] \in Contents
      BY <1>0, <1>2, <2>2 DEF TypeOK, Exists
    <3>2. QED BY <1>2, <2>2, <3>1, DeservedParts
  <2>3. QED BY <2>1, <2>2
<1>6. ASSUME NEW v \in Contents, past[q] = {v}
      PROVE  Due(q, v)' = Due(q, v) \cup K
  <2>1. tree[q] = v /\ Exists(q)
    BY <1>0, <1>2, <1>6, SameAllAlong DEF GuardInv
  <2>2. K = IF v.readable THEN TextViolations(q, v) ELSE {}
    BY <2>1
  <2>3. Due(q, v) = ForPlace(q) \cup ForSize(v)
    BY <1>0, <1>1 DEF Due
  <2>4. Due(q, v)' = Deserved(q, Legible(v))
    BY <1>0, <1>2, <1>3 DEF Due, Deserved, Legible
  <2>5. QED BY <1>2, <2>2, <2>3, <2>4, DeservedParts
<1> HIDE DEF K
<1>7. QED BY <1>0, <1>1, <1>2, <1>3, <1>4, <1>5, <1>6, TurnGuard

LEMMA FinishGuard ==
    ASSUME GuardInv, Finish
    PROVE  GuardInv'
<1>1. /\ phase = "looking" /\ phase' = "done" /\ todo' = {} /\ todo = {}
      /\ UNCHANGED <<tree, unlisted, todo, found, edits, past>>
  BY DEF Finish
<1>2. TypeOK'
  BY <1>1 DEF GuardInv, TypeOK
<1>3. AlarmIsReal' /\ \A p \in Paths : tree'[p] \in past'[p]
  BY <1>1 DEF GuardInv, AlarmIsReal
<1>4. \A p : Reported(p)' = Reported(p)
  BY <1>1, ReportedStays
<1>5. \A p, v : Due(p, v)' = Due(p, v)
  BY <1>1 DEF Due, Deserved, Legible
<1>6. QED BY <1>1, <1>2, <1>3, <1>4, <1>5 DEF GuardInv

\* An edit adds to the past of the files it touches: they are no longer files
\* that were the same all along, and what was true of them once stays so.
LEMMA EditGuard ==
    ASSUME GuardInv, Edit
    PROVE  GuardInv'
<1>0. /\ TypeOK /\ phase' = phase /\ unlisted' = unlisted /\ todo' = todo
      /\ found' = found /\ edits' = edits + 1
      /\ past' = [p \in Paths |-> past[p] \cup {tree'[p]}]
  BY DEF GuardInv, Edit
<1>1. tree' \in [Paths -> Contents \cup {Gone}]
  <2>1. CASE \E p \in Paths, v \in Contents \cup {Gone} : tree' = [tree EXCEPT ![p] = v]
    BY <1>0, <2>1 DEF TypeOK
  <2>2. CASE \E p, q \in Paths :
              /\ p # q /\ Exists(p)
              /\ tree' = [tree EXCEPT ![q] = tree[p], ![p] = Gone]
    BY <1>0, <2>2 DEF TypeOK
  <2>3. QED BY <2>1, <2>2 DEF Edit
<1>2. TypeOK'
  BY <1>0, <1>1 DEF TypeOK
<1>3. \A p \in Paths : tree'[p] \in past'[p] /\ past[p] \subseteq past'[p]
  BY <1>0
<1>4. AlarmIsReal'
  <2>1. \A f \in found : f.path \in Paths
    BY <1>0 DEF TypeOK
  <2>2. QED BY <1>0, <1>3, <2>1 DEF GuardInv, AlarmIsReal, Deserved
<1>5. \A p \in Paths : \A v \in Contents : past'[p] = {v} => past[p] = {v}
  <2>1. \A p \in Paths : tree[p] \in past[p]
    BY DEF GuardInv
  <2>2. QED BY <1>3, <2>1
<1>6. \A p : Reported(p)' = Reported(p)
  BY <1>0, ReportedStays
<1>7. \A p, v : Due(p, v)' = Due(p, v)
  BY <1>0 DEF Due, First, Deserved, Legible, ForPlace, ForSize
<1>8. \A p \in todo' : First(p)' <=> First(p)
  BY <1>0 DEF First
<1>9. QED BY <1>0, <1>2, <1>3, <1>4, <1>5, <1>6, <1>7, <1>8 DEF GuardInv

-----------------------------------------------------------------------------
(* Theorems *)

LEMMA NextGuard ==
    ASSUME GuardInv, [Next]_vars
    PROVE  GuardInv'
<1>1. CASE UNCHANGED vars
  <2>1. /\ tree' = tree /\ phase' = phase /\ unlisted' = unlisted
        /\ todo' = todo /\ found' = found /\ edits' = edits /\ past' = past
    BY <1>1 DEF vars
  <2>2. TypeOK' /\ AlarmIsReal'
    BY <2>1 DEF GuardInv, TypeOK, AlarmIsReal
  <2>3. \A p : Reported(p)' = Reported(p)
    BY <2>1, ReportedStays
  <2>4. \A p, v : Due(p, v)' = Due(p, v)
    BY <2>1 DEF Due, First, Deserved, Legible, ForPlace, ForSize
  <2>5. \A p \in todo' : First(p)' <=> First(p)
    BY <2>1 DEF First
  <2>6. QED BY <2>1, <2>2, <2>3, <2>4, <2>5 DEF GuardInv
<1>2. CASE Next
  BY <1>2, ListGuard, LookGuard, SizeGuard, ReadGuard, FinishGuard, EditGuard
  DEF Next, Scan
<1>3. QED BY <1>1, <1>2

\* The invariant of the scan, for every tree and any number of edits.
THEOREM GuardInvHolds == Spec => []GuardInv
<1>1. Init => GuardInv
  BY InitGuard
<1>2. GuardInv /\ [Next]_vars => GuardInv'
  BY NextGuard
<1>3. QED BY <1>1, <1>2, PTL DEF Spec

\* No false alarm: each violation was true of its file at some moment of the
\* scan, however files change between listing, stat and read.
THEOREM NoFalseAlarm == Spec => []AlarmIsReal
<1>1. GuardInv => AlarmIsReal
  BY DEF GuardInv
<1>2. QED BY <1>1, GuardInvHolds, PTL

\* Nothing is missed: a file that nobody touches is reported for exactly what
\* is wrong with it, whatever is done to others meanwhile.
THEOREM NothingMissed == Spec => []ReportExact
<1>1. ASSUME GuardInv PROVE ReportExact
  <2> SUFFICES ASSUME phase = "done", NEW p \in Paths \ Skipped, NEW v \in Contents,
                      past[p] = {v}
               PROVE  Reported(p) = Deserved(p, Legible(v))
    BY DEF ReportExact, Legible
  <2>1. Reported(p) = Due(p, v) /\ unlisted = {} /\ todo = {}
    BY <1>1 DEF GuardInv
  <2>2. QED BY <2>1 DEF Due
<1>2. QED BY <1>1, GuardInvHolds, PTL
=============================================================================
