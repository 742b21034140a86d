------------------------------ MODULE PppProofs ------------------------------
(***************************************************************************)
(* That the unchecked second walk over the programs of a section stays     *)
(* where the checked first walk has been, for any section; and that the    *)
(* inventory of editable records survives the edits, for any .data section *)
(* and any number of roots, sections and edits.                            *)
(***************************************************************************)
EXTENDS PppCandidates, WellFoundedInduction, TLAPS

\* No visited program lies between a visited one and the one it links to.
Gapless(p) == \A q \in visited : ~(p < q /\ q < sec.next[p])

\* The chain while it is being built: it ends at prog.
Growing ==
    /\ visited = {} => prog = SecHead
    /\ visited # {} => SecHead \in visited
    /\ \A p \in visited :
           /\ p < prog /\ sec.next[p] # 0
           /\ p < sec.next[p] /\ Gapless(p)
           /\ sec.next[p] \in visited \cup {prog} /\ sec.next[p] <= prog

\* The chain once it is accepted: it closes on itself at a last program.
Closed ==
    /\ SecHead \in visited
    /\ \A p \in visited :
           \/ sec.next[p] = 0 /\ \A q \in visited : q <= p
           \/ /\ sec.next[p] # 0 /\ p < sec.next[p]
              /\ sec.next[p] \in visited /\ Gapless(p)

Before(b) == UNION {Slots(sec, p) : p \in {q \in visited : q < b}}

\* Every visited program has passed the checks, and found_slot is honest.
Checked ==
    /\ \A p \in visited : ProgramHolds(sec, p) /\ SecHead <= p
    /\ SecHead <= prog
    /\ found => \E p \in visited : sec.count[p] > 0

\* Where each loop stands.
Progress ==
    /\ phase = "called" => visited = {} /\ prog = SecHead
    /\ phase = "validating" => Growing
    /\ phase \in {"accepted", "iterating", "iterated"} => Closed /\ found
    /\ phase \in {"called", "validating", "accepted", "rejected"} => yielded = {}
    /\ phase = "iterating" => prog \in visited /\ yielded = Before(prog)
    /\ phase = "iterated" => yielded = UNION {Slots(sec, p) : p \in visited}
    /\ phase # "astray"

Inductive == TypeOK /\ Checked /\ Progress

LEMMA SectionType ==
    ASSUME NEW s, IsSection(s)
    PROVE  /\ s.size \in Nat /\ s.tables \in BOOLEAN
           /\ s.next \in [Offsets -> Nat] /\ s.count \in [Offsets -> Int]
           /\ s.slotsOk \in [Offsets -> BOOLEAN]
           /\ 0 .. s.size \subseteq Offsets
BY DEF IsSection, Section

\* A program whose header fits is at an offset the section knows.
LEMMA ProgramType ==
    ASSUME NEW s, IsSection(s), NEW p \in Nat, p + ProgHead <= s.size
    PROVE  p \in Offsets /\ s.next[p] \in Nat /\ s.count[p] \in Int
<1>1. p \in 0 .. s.size
  BY SectionType, ResourceAssumption
<1>2. QED BY <1>1, SectionType

LEMMA Multiply ==
    ASSUME NEW m \in Nat, NEW k \in Nat, NEW c \in Nat, k <= c - 1
    PROVE  m * k + m <= m * c /\ m * k \in Nat
<1>1. m * k + m = m * (k + 1)
  OBVIOUS
<1>2. \A d \in Nat : m * (k + 1 + d) = m * (k + 1) + m * d /\ m * d \in Nat
  OBVIOUS
<1>3. c = k + 1 + (c - k - 1) /\ c - k - 1 \in Nat
  OBVIOUS
<1>4. QED BY <1>1, <1>2, <1>3

\* The slots of a program that holds are inside the section.
LEMMA SlotsInside ==
    ASSUME NEW s, IsSection(s), NEW p \in Nat, ProgramHolds(s, p),
           NEW o \in Slots(s, p)
    PROVE  o \in Nat /\ o + SlotSize <= s.size
<1>1. PICK k \in 0 .. s.count[p] - 1 : o = p + ProgHead + SlotSize * k
  BY DEF Slots
<1>2. s.count[p] \in Nat
  BY ResourceAssumption DEF ProgramHolds
<1>3. SlotSize * k + SlotSize <= SlotSize * s.count[p] /\ SlotSize * k \in Nat
  BY <1>1, <1>2, Multiply, ResourceAssumption
<1>4. SlotsEnd(s, p) <= s.size
  BY DEF ProgramHolds
<1>5. s.size \in Nat /\ SlotSize * s.count[p] \in Int
  BY <1>2, SectionType, ResourceAssumption
<1>6. QED BY <1>1, <1>3, <1>4, <1>5, ResourceAssumption DEF SlotsEnd

\* A program with a slot has one to hand out.
LEMMA SlotsNonempty ==
    ASSUME NEW s, IsSection(s), NEW p, s.count[p] \in Int, s.count[p] > 0
    PROVE  Slots(s, p) # {}
<1>1. 0 \in 0 .. s.count[p] - 1
  OBVIOUS
<1>2. QED BY <1>1 DEF Slots

LEMMA ValidateKeeps ==
    ASSUME Inductive, Validate
    PROVE  Inductive'
<1>1. /\ phase = "validating" /\ Growing /\ yielded = {}
      /\ sec' = sec /\ yielded' = {} /\ IsSection(sec)
      /\ prog \in Nat /\ visited \subseteq Nat /\ found \in BOOLEAN
  BY DEF Validate, TypeOK, Inductive, Progress
<1>a. /\ \A p \in visited : ProgramHolds(sec, p) /\ SecHead <= p
      /\ SecHead <= prog
      /\ found => \E p \in visited : sec.count[p] > 0
  BY DEF Inductive, Checked
<1>2. CASE phase' = "rejected" /\ UNCHANGED <<prog, visited, found>>
  <2>1. TypeOK' BY <1>1, <1>2 DEF TypeOK
  <2>2. Checked' BY <1>1, <1>a, <1>2 DEF Checked
  <2>3. Progress' BY <1>1, <1>2 DEF Progress
  <2>4. QED BY <2>1, <2>2, <2>3 DEF Inductive
<1>3. ASSUME prog \notin visited, ProgramHolds(sec, prog),
             visited' = visited \cup {prog},
             found' = (found \/ sec.count[prog] > 0)
      PROVE  /\ sec.next[prog] \in Nat
             /\ visited' \subseteq Nat /\ found' \in BOOLEAN
             /\ \A p \in visited' : ProgramHolds(sec', p) /\ SecHead <= p
             /\ found' => \E p \in visited' : sec'.count[p] > 0
             /\ SecHead \in visited'
  <2>1. sec.next[prog] \in Nat /\ sec.count[prog] \in Int
    BY <1>1, <1>3, ProgramType DEF ProgramHolds
  <2>2. SecHead \in visited'
    BY <1>1, <1>3 DEF Growing
  <2>3. found' \in BOOLEAN
    BY <1>3, <2>1
  <2>4. found' => \E p \in visited' : sec'.count[p] > 0
    BY <1>1, <1>a, <1>3
  <2>5. \A p \in visited' : ProgramHolds(sec', p) /\ SecHead <= p
    BY <1>1, <1>a, <1>3
  <2>6. QED BY <1>1, <1>3, <2>1, <2>2, <2>3, <2>4, <2>5
\* What Growing says of a visited program, with prog added to the set.
<1>4. ASSUME NEW p \in visited, ProgramHolds(sec, prog),
             visited' = visited \cup {prog}
      PROVE  /\ p < prog /\ sec.next[p] # 0 /\ p < sec.next[p]
             /\ sec.next[p] \in visited' /\ sec.next[p] <= prog
             /\ sec.next[p] \in Nat
             /\ \A q \in visited' : ~(p < q /\ q < sec.next[p])
  <2>1. /\ p < prog /\ sec.next[p] # 0 /\ p < sec.next[p]
        /\ sec.next[p] \in visited' /\ sec.next[p] <= prog
    BY <1>1, <1>4 DEF Growing
  <2>2. \A q \in visited : ~(p < q /\ q < sec.next[p])
    BY <1>1, <1>4 DEF Growing, Gapless
  <2>3. sec.next[p] \in Nat
    BY <1>1, <1>a, <1>4, ProgramType DEF ProgramHolds
  <2>4. ~(p < prog /\ prog < sec.next[p])
    BY <1>1, <2>1, <2>3
  <2>5. QED BY <1>4, <2>1, <2>2, <2>3, <2>4
<1>5. CASE /\ prog \notin visited /\ ProgramHolds(sec, prog)
           /\ visited' = visited \cup {prog}
           /\ found' = (found \/ sec.count[prog] > 0)
           /\ sec.next[prog] = 0
           /\ phase' = Verdict(found')
           /\ prog' = prog
  <2>1. TypeOK'
    BY <1>1, <1>3, <1>5 DEF TypeOK, Verdict
  <2>2. Checked'
    BY <1>1, <1>a, <1>3, <1>5 DEF Checked
  <2>3. Closed'
    <3>1. ASSUME NEW p \in visited'
          PROVE  \/ sec.next[p] = 0 /\ \A q \in visited' : q <= p
                 \/ /\ sec.next[p] # 0 /\ p < sec.next[p]
                    /\ sec.next[p] \in visited'
                    /\ \A q \in visited' : ~(p < q /\ q < sec.next[p])
      <4>1. CASE p = prog
        <5>1. \A q \in visited' : q <= p
          BY <1>1, <1>4, <1>5, <4>1
        <5>2. QED BY <1>5, <4>1, <5>1
      <4>2. CASE p \in visited
        BY <1>4, <1>5, <4>2
      <4>3. QED BY <1>5, <4>1, <4>2
    <3>2. QED BY <1>1, <1>3, <1>5, <3>1 DEF Closed, Gapless
  <2>4. Progress'
    BY <1>1, <1>5, <2>3 DEF Progress, Verdict
  <2>5. QED BY <2>1, <2>2, <2>4 DEF Inductive
<1>6. CASE /\ prog \notin visited /\ ProgramHolds(sec, prog)
           /\ visited' = visited \cup {prog}
           /\ found' = (found \/ sec.count[prog] > 0)
           /\ sec.next[prog] # 0 /\ LinkHolds(sec, prog)
           /\ prog' = sec.next[prog]
           /\ phase' = phase
  <2>1. prog < prog' /\ prog' \in Nat
    BY <1>1, <1>3, <1>6 DEF LinkHolds
  <2>2. TypeOK'
    BY <1>1, <1>3, <1>6, <2>1 DEF TypeOK
  <2>3. SecHead <= prog'
    BY <1>1, <1>a, <2>1, ResourceAssumption
  <2>4. Checked'
    BY <1>1, <1>3, <1>6, <2>3 DEF Checked
  <2>5. Growing'
    <3>1. ASSUME NEW p \in visited'
          PROVE  /\ p < prog' /\ sec.next[p] # 0 /\ p < sec.next[p]
                 /\ \A q \in visited' : ~(p < q /\ q < sec.next[p])
                 /\ sec.next[p] \in visited' \cup {prog'}
                 /\ sec.next[p] <= prog'
      <4>1. CASE p = prog
        <5>1. \A q \in visited : q < prog
          BY <1>4, <1>6
        <5>a. \A q \in visited' : q \in Nat /\ prog \in Nat /\ (q < prog \/ q = prog)
          BY <1>1, <1>6, <5>1
        <5>b. \A q \in visited' : ~(prog < q)
          BY <5>a
        <5>2. \A q \in visited' : ~(p < q /\ q < sec.next[p])
          BY <4>1, <5>b
        <5>3. QED BY <1>6, <2>1, <4>1, <5>2
      <4>2. CASE p \in visited
        <5>a. p < prog /\ sec.next[p] <= prog /\ sec.next[p] \in Nat
          BY <1>4, <1>6, <4>2
        <5>b. p \in Nat /\ prog \in Nat /\ prog' \in Nat /\ prog < prog'
          BY <1>1, <2>1, <4>2
        <5>1. p < prog' /\ sec.next[p] <= prog'
          BY <5>a, <5>b
        <5>2. QED BY <1>4, <1>6, <4>2, <5>1
      <4>3. QED BY <1>6, <4>1, <4>2
    <3>2. QED BY <1>1, <1>3, <1>6, <3>1 DEF Growing, Gapless
  <2>6. Progress'
    BY <1>1, <1>6, <2>5 DEF Progress
  <2>7. QED BY <2>2, <2>4, <2>6 DEF Inductive
<1>7. CASE /\ prog \notin visited /\ ProgramHolds(sec, prog)
           /\ visited' = visited \cup {prog}
           /\ found' = (found \/ sec.count[prog] > 0)
           /\ phase' = "rejected"
           /\ prog' = prog
  <2>1. TypeOK' BY <1>1, <1>3, <1>7 DEF TypeOK
  <2>2. Checked' BY <1>1, <1>a, <1>3, <1>7 DEF Checked
  <2>3. Progress' BY <1>1, <1>7 DEF Progress
  <2>4. QED BY <2>1, <2>2, <2>3 DEF Inductive
<1>8. QED BY <1>2, <1>5, <1>6, <1>7 DEF Validate

LEMMA YieldKeeps ==
    ASSUME Inductive, YieldSlots
    PROVE  Inductive'
<1>1. /\ phase = "iterating" /\ Closed /\ found
      /\ prog \in visited /\ yielded = Before(prog)
      /\ sec' = sec /\ visited' = visited /\ found' = found
      /\ IsSection(sec) /\ visited \subseteq Nat /\ prog \in Nat
      /\ yielded \subseteq Nat
  BY DEF YieldSlots, TypeOK, Inductive, Progress
<1>a. /\ \A p \in visited : ProgramHolds(sec, p) /\ SecHead <= p
      /\ \E p \in visited : sec.count[p] > 0
  BY <1>1 DEF Inductive, Checked
<1>2. ProgramHolds(sec, prog) /\ Inside(sec, prog)
  BY <1>1, <1>a DEF ProgramHolds, Inside
<1>3. sec.next[prog] \in Nat
  BY <1>1, <1>2, ProgramType DEF Inside
<1>4. yielded' = yielded \cup Slots(sec, prog)
  BY <1>2 DEF YieldSlots
<1>5. yielded' \subseteq Nat
  BY <1>1, <1>2, <1>4, SlotsInside
<1>b. Closed'
  BY <1>1 DEF Closed, Gapless
<1>6. CASE sec.next[prog] = 0
  <2>1. phase' = "iterated" /\ prog' = prog
    BY <1>2, <1>6 DEF YieldSlots
  <2>2. \A q \in visited : q <= prog
    BY <1>1, <1>6 DEF Closed
  <2>3. \A q \in visited : q < prog \/ q = prog
    BY <1>1, <2>2
  <2>4. yielded' = UNION {Slots(sec, p) : p \in visited}
    BY <1>1, <1>4, <2>3, Zenon DEF Before
  <2>5. TypeOK'
    BY <1>1, <1>5, <2>1 DEF TypeOK
  <2>6. Checked'
    BY <1>1, <1>a, <2>1 DEF Checked
  <2>7. Progress'
    BY <1>1, <1>b, <2>1, <2>4 DEF Progress
  <2>8. QED BY <2>5, <2>6, <2>7 DEF Inductive
<1>7. CASE sec.next[prog] # 0
  <2>1. phase' = "iterating" /\ prog' = sec.next[prog]
    BY <1>2, <1>7 DEF YieldSlots, NextProgram
  <2>2. prog < prog' /\ prog' \in visited /\ Gapless(prog)
    BY <1>1, <1>7, <2>1 DEF Closed
  <2>3. ASSUME NEW q \in visited
        PROVE  q < prog' <=> q < prog \/ q = prog
    <3>1. ~(prog < q /\ q < prog')
      BY <2>1, <2>2 DEF Gapless
    <3>2. q \in Nat /\ prog \in Nat /\ prog' \in Nat /\ prog < prog'
      BY <1>1, <1>3, <2>1, <2>2
    <3>3. QED BY <3>1, <3>2
  <2>4. yielded' = UNION {Slots(sec, p) : p \in {q \in visited : q < prog'}}
    BY <1>1, <1>4, <2>3, Zenon DEF Before
  <2>5. TypeOK'
    BY <1>1, <1>3, <1>5, <2>1 DEF TypeOK
  <2>6. Checked'
    BY <1>1, <1>a, <2>1, <2>2 DEF Checked
  <2>7. Progress'
    BY <1>1, <1>b, <2>1, <2>2, <2>4 DEF Progress, Before
  <2>8. QED BY <2>5, <2>6, <2>7 DEF Inductive
<1>8. QED BY <1>6, <1>7

LEMMA InductiveStep ==
    ASSUME Inductive, [Next]_vars
    PROVE  Inductive'
<1>1. CASE Enter
  BY <1>1 DEF Enter, Inductive, TypeOK, Checked, Progress, Growing
<1>2. CASE Iterate
  <2>1. SecHead \in visited /\ visited \subseteq Nat
    BY <1>2 DEF Iterate, Inductive, Checked, Progress, Closed, TypeOK
  <2>2. {q \in visited : q < SecHead} = {}
    <3>1. \A q \in visited : q \in Nat /\ SecHead \in Nat /\ SecHead <= q
      BY <2>1, ResourceAssumption DEF Inductive, Checked
    <3>2. \A q \in visited : ~(q < SecHead)
      BY <3>1
    <3>3. QED BY <3>2
  <2>3. Before(SecHead) = {}
    BY <2>2 DEF Before
  <2>4. SecHead <= SecHead
    BY ResourceAssumption
  <2>5. Closed'
    BY <1>2 DEF Iterate, Inductive, Checked, Progress, Closed, Gapless
  <2>6. TypeOK'
    BY <1>2, <2>1 DEF Iterate, Inductive, Checked, Progress, TypeOK
  <2>7. yielded' = Before(prog)'
    BY <1>2, <2>3 DEF Iterate, Inductive, Checked, Progress, Before
  <2>8. QED BY <1>2, <2>1, <2>4, <2>5, <2>6, <2>7 DEF Iterate, Inductive, Checked, Progress
<1>3. CASE UNCHANGED vars
  BY <1>3 DEF vars, Inductive, TypeOK, Checked, Progress, Growing, Closed, Gapless, Before
<1>4. QED BY <1>1, <1>2, <1>3, ValidateKeeps, YieldKeeps DEF Next

\* The invariant the rest follows from, for any section.
THEOREM InductiveHolds == Spec => []Inductive
<1>1. Init => Inductive
  <2> SUFFICES ASSUME Init PROVE Inductive
    OBVIOUS
  <2>1. SecHead \in Nat /\ SecHead <= SecHead
    BY ResourceAssumption
  <2>2. TypeOK
    BY <2>1 DEF Init, Outset, TypeOK
  <2>3. Checked
    BY <2>1 DEF Init, Outset, Checked
  <2>4. Progress
    BY DEF Init, Outset, Progress
  <2>5. QED BY <2>2, <2>3, <2>4 DEF Inductive
<1>2. QED BY <1>1, InductiveStep, PTL DEF Spec

LEMMA StaysInside ==
    ASSUME Inductive
    PROVE  NeverAstray
BY DEF Inductive, Checked, Progress, NeverAstray

\* The iterator never leaves the programs the validator accepted.
THEOREM IteratorStaysInside == Spec => []NeverAstray
<1>1. Inductive => NeverAstray BY StaysInside
<1>2. QED BY <1>1, InductiveHolds, PTL

LEMMA CompleteAtLast ==
    ASSUME Inductive
    PROVE  YieldsAll
<1> SUFFICES ASSUME phase = "iterated" PROVE yielded # {}
  BY DEF Inductive, Checked, Progress, YieldsAll
<1>1. PICK p \in visited : sec.count[p] > 0
  BY DEF Inductive, Checked, Progress
<1>2. sec.count[p] \in Int
  BY <1>1, ProgramType DEF Inductive, Checked, Progress, TypeOK, ProgramHolds
<1>3. Slots(sec, p) # {}
  BY <1>1, <1>2, SlotsNonempty DEF Inductive, Checked, Progress, TypeOK
<1>4. QED BY <1>1, <1>3 DEF Inductive, Checked, Progress

\* A finished iteration has handed out every slot the validator checked.
THEOREM IterationIsComplete == Spec => []YieldsAll
<1>1. Inductive => YieldsAll BY CompleteAtLast
<1>2. QED BY <1>1, InductiveHolds, PTL

LEMMA CheckedAlways ==
    ASSUME Inductive
    PROVE  YieldsChecked
<1> SUFFICES ASSUME NEW o \in yielded
             PROVE  /\ o + SlotSize <= sec.size
                    /\ \E p \in visited : o \in Slots(sec, p) /\ sec.slotsOk[p]
  BY DEF YieldsChecked
<1>1. PICK p \in visited : o \in Slots(sec, p)
  <2>1. \/ yielded = Before(prog)
        \/ yielded = UNION {Slots(sec, p) : p \in visited}
    BY DEF Inductive, Progress, TypeOK
  <2>2. Before(prog) \subseteq UNION {Slots(sec, p) : p \in visited}
    BY Zenon DEF Before
  <2>3. o \in UNION {Slots(sec, p) : p \in visited}
    BY <2>1, <2>2
  <2>4. QED BY <2>3
<1>2. ProgramHolds(sec, p) /\ IsSection(sec) /\ p \in Nat
  BY <1>1 DEF Inductive, Checked, Progress, TypeOK
<1>3. QED BY <1>1, <1>2, SlotsInside DEF ProgramHolds

\* Every slot handed out was checked and lies in the section.
THEOREM YieldedSlotsAreChecked == Spec => []YieldsChecked
<1>1. Inductive => YieldsChecked BY CheckedAlways
<1>2. QED BY <1>1, InductiveHolds, PTL
-----------------------------------------------------------------------------
(* What the validator accepts                                              *)

\* p ends the chain of the programs P, or links to the next of them.
Chained(s, P, p) ==
    \/ s.next[p] = 0 /\ \A q \in P : q <= p
    \/ /\ s.next[p] # 0 /\ LinkHolds(s, p)
       /\ s.next[p] \in P
       /\ \A q \in P : ~(p < q /\ q < s.next[p])

\* _valid_primary_section accepts s, and has then visited P.
Accepted(s, P) ==
    /\ s.size >= SecHead + ProgHead /\ s.tables
    /\ P \subseteq Nat /\ SecHead \in P
    /\ \A p \in P : ProgramHolds(s, p) /\ SecHead <= p /\ Chained(s, P, p)
    /\ \E p \in P : s.count[p] > 0

\* What the validator knows besides: it has checked the links it followed,
\* and it does not refuse a section it should accept.
Walked ==
    /\ phase \in {"validating", "accepted"} =>
           /\ sec.size >= SecHead + ProgHead /\ sec.tables
           /\ \A p \in visited : sec.next[p] # 0 => LinkHolds(sec, p)
    /\ phase = "validating" => ((\E p \in visited : sec.count[p] > 0) => found)
    /\ \A P \in SUBSET Nat : Accepted(sec, P) =>
           /\ phase # "rejected"
           /\ phase = "validating" => prog \in P /\ visited = {q \in P : q < prog}

LEMMA EnterWalks ==
    ASSUME Inductive, Walked, Enter
    PROVE  Walked'
<1>1. /\ sec' = sec /\ prog' = SecHead /\ visited' = {}
      /\ phase' = IF sec.size >= SecHead + ProgHead /\ sec.tables
                  THEN "validating" ELSE "rejected"
  BY DEF Inductive, Progress, Enter
<1>2. ASSUME NEW P \in SUBSET Nat, Accepted(sec, P)
      PROVE  phase' = "validating" /\ SecHead \in P /\ {q \in P : q < SecHead} = {}
  <2>1. \A q \in P : SecHead <= q /\ q \in Nat /\ SecHead \in Nat
    BY <1>2, ResourceAssumption DEF Accepted
  <2>2. \A q \in P : ~(q < SecHead)
    BY <2>1
  <2>3. {q \in P : q < SecHead} = {}
    BY <2>2
  <2>4. QED BY <1>1, <1>2, <2>3 DEF Accepted
<1>3. QED BY <1>1, <1>2 DEF Walked

LEMMA ValidateWalks ==
    ASSUME Inductive, Walked, Validate
    PROVE  Walked'
<1>1. /\ phase = "validating" /\ Growing /\ sec' = sec /\ IsSection(sec)
      /\ prog \in Nat /\ visited \subseteq Nat
      /\ sec.size >= SecHead + ProgHead /\ sec.tables
      /\ \A p \in visited : sec.next[p] # 0 => LinkHolds(sec, p)
      /\ (\E p \in visited : sec.count[p] > 0) => found
  BY DEF Validate, Inductive, TypeOK, Progress, Walked
<1>2. ASSUME NEW P \in SUBSET Nat, Accepted(sec, P)
      PROVE  /\ prog \in P /\ visited = {q \in P : q < prog}
             /\ prog \notin visited /\ ProgramHolds(sec, prog)
             /\ Chained(sec, P, prog)
  <2>1. prog \in P /\ visited = {q \in P : q < prog}
    BY <1>1, <1>2 DEF Walked
  <2>2. QED BY <1>1, <1>2, <2>1 DEF Accepted
<1>3. CASE /\ prog \in visited \/ ~ProgramHolds(sec, prog)
           /\ phase' = "rejected"
  BY <1>1, <1>2, <1>3 DEF Walked
<1>4. CASE /\ prog \notin visited /\ ProgramHolds(sec, prog)
           /\ visited' = visited \cup {prog}
           /\ found' = (found \/ sec.count[prog] > 0)
           /\ sec.next[prog] = 0
           /\ phase' = Verdict(found')
  <2>1. ASSUME NEW P \in SUBSET Nat, Accepted(sec, P)
        PROVE  found'
    <3>1. PICK p \in P : sec.count[p] > 0
      BY <2>1 DEF Accepted
    <3>2. p <= prog /\ p \in Nat /\ prog \in Nat
      BY <1>1, <1>2, <1>4, <2>1 DEF Chained
    <3>3. p = prog \/ p < prog
      BY <3>2
    <3>4. p = prog \/ p \in visited
      BY <1>2, <2>1, <3>3
    <3>5. QED BY <1>1, <1>4, <3>1, <3>4
  <2>2. \A p \in visited' : sec.next[p] # 0 => LinkHolds(sec, p)
    BY <1>1, <1>4
  <2>3. QED BY <1>1, <1>4, <2>1, <2>2 DEF Walked, Verdict
<1>5. CASE /\ prog \notin visited /\ ProgramHolds(sec, prog)
           /\ visited' = visited \cup {prog}
           /\ found' = (found \/ sec.count[prog] > 0)
           /\ sec.next[prog] # 0 /\ LinkHolds(sec, prog)
           /\ prog' = sec.next[prog] /\ phase' = phase
  <2>1. \A p \in visited' : sec.next[p] # 0 => LinkHolds(sec, p)
    BY <1>1, <1>5
  <2>2. (\E p \in visited' : sec.count[p] > 0) => found'
    BY <1>1, <1>5
  <2>3. ASSUME NEW P \in SUBSET Nat, Accepted(sec, P)
        PROVE  prog' \in P /\ visited' = {q \in P : q < prog'}
    <3>1. /\ prog' \in P /\ prog < prog'
          /\ \A q \in P : ~(prog < q /\ q < prog')
      BY <1>2, <1>5, <2>3 DEF Chained, LinkHolds
    <3>2. ASSUME NEW q \in P
          PROVE  q < prog' <=> q < prog \/ q = prog
      <4>1. q \in Nat /\ prog \in Nat /\ prog' \in Nat
        BY <1>1, <3>1
      <4>2. QED BY <3>1, <4>1
    <3>3. visited' = {q \in P : q < prog} \cup {prog} /\ prog \in P
      BY <1>2, <1>5, <2>3
    <3>4. QED BY <3>1, <3>2, <3>3
  <2>4. QED BY <1>1, <1>5, <2>1, <2>2, <2>3 DEF Walked
<1>6. CASE /\ prog \notin visited /\ ProgramHolds(sec, prog)
           /\ sec.next[prog] # 0 /\ ~LinkHolds(sec, prog)
           /\ phase' = "rejected"
  <2>1. \A P \in SUBSET Nat : ~Accepted(sec, P)
    BY <1>2, <1>6 DEF Chained
  <2>2. QED BY <1>1, <1>6, <2>1 DEF Walked
<1>7. QED BY <1>3, <1>4, <1>5, <1>6 DEF Validate

LEMMA WalkStep ==
    ASSUME Inductive, Walked, Next
    PROVE  Inductive' /\ Walked' /\ sec' = sec
<1>1. Inductive' /\ sec' = sec
  BY InductiveStep DEF Next, Enter, Validate, Iterate, YieldSlots
<1>2. CASE Iterate \/ YieldSlots
  <2>1. phase' \notin {"validating", "accepted", "rejected"}
    BY <1>2 DEF Iterate, YieldSlots
  <2>2. QED BY <1>1, <2>1 DEF Walked
<1>3. QED BY <1>1, <1>2, EnterWalks, ValidateWalks DEF Next

\* What the validator has visited when it accepts.
LEMMA VisitedAccepted ==
    ASSUME Inductive, Walked, phase = "accepted"
    PROVE  Accepted(sec, visited)
<1>1. ASSUME NEW p \in visited
      PROVE  ProgramHolds(sec, p) /\ SecHead <= p /\ Chained(sec, visited, p)
  <2>1. ProgramHolds(sec, p) /\ SecHead <= p
    BY DEF Inductive, Checked
  <2>2. sec.next[p] # 0 => LinkHolds(sec, p)
    BY DEF Walked
  <2>3. \/ sec.next[p] = 0 /\ \A q \in visited : q <= p
        \/ /\ sec.next[p] # 0 /\ p < sec.next[p]
           /\ sec.next[p] \in visited /\ Gapless(p)
    BY DEF Inductive, Progress, Closed
  <2>4. QED BY <2>1, <2>2, <2>3 DEF Chained, Gapless
<1>2. \E p \in visited : sec.count[p] > 0
  BY DEF Inductive, Checked, Progress
<1>3. SecHead \in visited /\ visited \subseteq Nat
  BY DEF Inductive, TypeOK, Progress, Closed
<1>4. QED BY <1>1, <1>2, <1>3 DEF Accepted, Walked

\* A walk over an accepted section, as iter_ppp_slots begins it.
LEMMA AcceptedWalks ==
    ASSUME NEW b, NEW P, IsSection(SectionAt(data, b)),
           Accepted(SectionAt(data, b), P), Begin(b, "accepted", P)
    PROVE  Inductive' /\ Walked'
<1> DEFINE s == SectionAt(data, b)
<1>1. /\ sec' = s /\ phase' = "accepted" /\ prog' = SecHead
      /\ visited' = P /\ found' = (P # {}) /\ yielded' = {}
  BY DEF Begin
<1>2. IsSection(s) /\ Accepted(s, P)
  OBVIOUS
<1> HIDE DEF s
<1>3. SecHead \in Nat /\ SecHead <= SecHead
  BY ResourceAssumption
<1>4. TypeOK'
  BY <1>1, <1>2, <1>3 DEF TypeOK, Accepted
<1>5. Checked'
  BY <1>1, <1>2, <1>3 DEF Checked, Accepted
<1>6. Closed'
  BY <1>1, <1>2 DEF Closed, Accepted, Chained, LinkHolds, Gapless
<1>7. Progress'
  BY <1>1, <1>2, <1>6 DEF Progress, Accepted
<1>8. Walked'
  BY <1>1, <1>2 DEF Walked, Accepted, Chained
<1>9. QED BY <1>4, <1>5, <1>7, <1>8 DEF Inductive

\* A walk over any section, as the validator begins it.
LEMMA CalledWalks ==
    ASSUME NEW b, IsSection(SectionAt(data, b)), Begin(b, "called", {})
    PROVE  Inductive' /\ Walked'
<1> DEFINE s == SectionAt(data, b)
<1>1. /\ sec' = s /\ phase' = "called" /\ prog' = SecHead
      /\ visited' = {} /\ found' = FALSE /\ yielded' = {}
  BY DEF Begin
<1>2. IsSection(s)
  OBVIOUS
<1> HIDE DEF s
<1>3. SecHead \in Nat /\ SecHead <= SecHead
  BY ResourceAssumption
<1>4. TypeOK' /\ Checked' /\ Progress'
  BY <1>1, <1>2, <1>3 DEF TypeOK, Checked, Progress
<1>5. QED BY <1>1, <1>4 DEF Inductive, Walked

LEMMA LeastIs ==
    ASSUME NEW S, S \subseteq Nat, S # {}
    PROVE  \E m \in S : \A x \in S : m <= x
<1> DEFINE Less == {ss \in Nat \X Nat : ss[1] < ss[2]}
<1>1. IsWellFoundedOn(Less, Nat)
  BY NatLessThanWellFounded, Zenon DEF OpToRel
<1>2. PICK m \in S : \A x \in S : <<x, m>> \notin Less
  <2> HIDE DEF Less
  <2>1. QED BY <1>1, WFMin, Zenon
<1>3. ASSUME NEW x \in S PROVE m <= x
  <2>1. x \in Nat /\ m \in Nat
    OBVIOUS
  <2>2. <<x, m>> \in Less <=> x < m
    BY <2>1
  <2>3. QED BY <1>2, <2>1, <2>2
<1>4. QED BY <1>3

LEMMA GreatestIs ==
    ASSUME NEW S, S \subseteq Nat, S # {}, NEW b \in Nat, \A x \in S : x <= b
    PROVE  \E m \in S : \A x \in S : x <= m
<1> DEFINE T == {b - x : x \in S}
<1>1. T \subseteq Nat /\ T # {}
  <2>1. \A x \in S : b - x \in Nat
    OBVIOUS
  <2>2. QED BY <2>1
<1>2. PICK m \in T : \A y \in T : m <= y
  <2> HIDE DEF T
  <2>1. QED BY <1>1, LeastIs
<1>3. PICK x \in S : m = b - x
  OBVIOUS
<1>4. \A y \in S : y <= x
  BY <1>2, <1>3
<1>5. QED BY <1>4

\* A program of one chain is a program of every chain from the same start.
LEMMA ChainsMeet ==
    ASSUME NEW s, IsSection(s), NEW P, NEW Q, Accepted(s, P), Accepted(s, Q)
    PROVE  P \subseteq Q
<1> SUFFICES ASSUME P \ Q # {} PROVE FALSE
  OBVIOUS
<1>1. P \subseteq Nat /\ Q \subseteq Nat /\ SecHead \in P /\ SecHead \in Q
  BY DEF Accepted
<1>2. PICK x \in P \ Q : \A y \in P \ Q : x <= y
  BY <1>1, LeastIs
<1> DEFINE S == {y \in P : y < x}
<1>3. S \subseteq Nat /\ x \in Nat /\ \A y \in S : y <= x
  <2>1. S \subseteq Nat /\ x \in Nat
    BY <1>1
  <2>2. \A y \in Nat : y < x => y <= x
    BY <2>1
  <2>3. QED BY <1>1, <2>1, <2>2
<1>4. SecHead \in S
  <2>1. SecHead <= x /\ SecHead # x /\ SecHead \in Nat
    BY <1>1, <1>2 DEF Accepted
  <2>2. QED BY <1>1, <1>3, <2>1
<1>5. PICK y \in S : \A z \in S : z <= y
  <2> HIDE DEF S
  <2>1. QED BY <1>3, <1>4, GreatestIs
<1>6. y \in P /\ y < x /\ y \in Nat
  BY <1>1
<1>7. y \in Q
  <2>1. y \in P \ Q => x <= y
    BY <1>2
  <2>2. QED BY <1>3, <1>6, <2>1
<1>8. s.next[y] # 0 /\ y < s.next[y] /\ s.next[y] \in P /\ ~(y < x /\ x < s.next[y])
  <2>1. Chained(s, P, y) /\ ~(x <= y)
    BY <1>3, <1>6 DEF Accepted
  <2>2. QED BY <1>2, <2>1 DEF Chained, LinkHolds
<1>9. s.next[y] = x
  <2>1. s.next[y] \in Nat /\ s.next[y] <= x
    <3>1. s.next[y] \in Nat
      BY <1>1, <1>8
    <3>2. QED BY <1>3, <1>6, <1>8, <3>1
  <2>2. s.next[y] < x => s.next[y] <= y
    BY <1>5, <1>8
  <2>3. QED BY <1>3, <1>6, <1>8, <2>1, <2>2
<1>10. x \in Q
  BY <1>7, <1>8, <1>9 DEF Accepted, Chained
<1>11. QED BY <1>2, <1>10
-----------------------------------------------------------------------------
(* What the search finds in some data d                                    *)

Cell == 0 .. Radix - 1
Data == Seq(Cell)

\* The programs of each section of a root.
Programs == Seq(SUBSET Nat)

SectionOf(d, o, k) == SectionAt(d, Base(d, o, k))

HasHead(d, o) ==
    /\ \E n \in Nat : o = Align * n
    /\ o + RootHead < Len(d)
    /\ HeadHolds(d, o)

\* What _parse_resource_root_candidate asks of section k before it is walked.
Taken(d, o, k) ==
    /\ Relative(d, o, k) >= RootHead /\ Relative(d, o, k) % Align = 0
    /\ Fits(d, o + Relative(d, o, k))

SectionsHold(d, o, P) ==
    \A k \in 1 .. Len(P) : Taken(d, o, k) /\ Accepted(SectionOf(d, o, k), P[k])

\* There is a root at o, and P are the programs of its sections.
Whole(d, o, P) ==
    /\ HasHead(d, o)
    /\ Len(P) = Count(d, o, 1) /\ SectionsHold(d, o, P)
    /\ AuxiliaryHolds(d, o)

SlotsOf(d, o, P, k) == UNION {Slots(SectionOf(d, o, k), p) : p \in P[k]}

\* The place of the record that the slot s of section k names.
PlaceAt(d, o, k, s) ==
    [root |-> o, section |-> Base(d, o, k), slot |-> Base(d, o, k) + s,
     record |-> Base(d, o, k) + SlotAt(d, Base(d, o, k) + s).primary]

Clear(d, o, P, q) ==
    /\ Record(q.record).end <= q.section + U(d, q.section)
    /\ \A t \in StructuralSpans(d, Root(o, P)) : ~Overlaps(t, Record(q.record))

FamilySlots(d, o, P, k) ==
    {s \in SlotsOf(d, o, P, k) : SlotAt(d, Base(d, o, k) + s).handler = Family}

\* What an inventory of d has to offer of the root at o.
Offers(d, o, P) ==
    {q \in UNION {{PlaceAt(d, o, k, s) : s \in FamilySlots(d, o, P, k)} : k \in 1 .. Len(P)} :
        Clear(d, o, P, q)}

\* Solid, said of the data alone.
Firm(d, o, P) ==
    /\ \A k \in 1 .. Len(P) : Named(d, Base(d, o, k), P[k]) = P[k]
    /\ \A q \in Offers(d, o, P), t \in Tables(d, Root(o, P)) :
           ~Overlaps(t, Record(q.record))

LEMMA CellType ==
    ASSUME NEW d \in Data, NEW x \in Nat
    PROVE  U(d, x) \in 0 .. Radix - 1 /\ U(d, x) \in Nat /\ I(d, x) \in Int
<1>1. Radix \in Nat \ {0}
  BY CandidatesAssumption
<1>2. U(d, x) \in 0 .. Radix - 1
  <2>1. x < Len(d) => x + 1 \in 1 .. Len(d)
    BY DEF Data
  <2>2. 0 \in Cell
    BY <1>1 DEF Cell
  <2>3. U(d, x) \in Cell
    BY <2>1, <2>2 DEF U, Data
  <2>4. QED BY <2>3 DEF Cell
<1>3. QED BY <1>1, <1>2 DEF I

\* The sizes of the structures.
LEMMA SizesFit ==
    /\ RootHead \in Nat /\ RootHead >= 8
    /\ SecHead \in Nat /\ SecHead >= 3
    /\ ProgHead \in Nat /\ ProgHead >= 2
    /\ SlotSize \in Nat /\ SlotSize >= 4
    /\ EntrySize \in Nat /\ EntrySize >= 3
    /\ RecHead \in Nat /\ Width \in Nat /\ Width > 0
    /\ Align \in Nat \ {0}
BY CandidatesAssumption, ResourceAssumption DEF SpecHolds

LEMMA SectionAtType ==
    ASSUME NEW d \in Data, NEW b \in Nat
    PROVE  IsSection(SectionAt(d, b))
<1>1. \A p \in Offsets : p \in Nat /\ b + p \in Nat /\ b + p + ProgHead - 1 \in Nat
  BY SizesFit, ResourceAssumption
<1>2. \A p \in Offsets : U(d, b + p) \in Nat /\ I(d, b + p + ProgHead - 1) \in Int
  BY <1>1, CellType
<1>3. SectionAt(d, b).size = U(d, b) /\ U(d, b) \in 0 .. Radix - 1 /\ U(d, b) \in Nat
  BY CellType DEF SectionAt
<1>4. 0 .. U(d, b) \subseteq Offsets
  <2>1. 0 .. U(d, b) \subseteq 0 .. Radix - 1 /\ Radix \in Nat
    BY <1>3, CandidatesAssumption
  <2>2. QED BY <2>1, CandidatesAssumption
<1>5. SectionAt(d, b) \in Section
  BY <1>2, <1>3 DEF SectionAt, Section
<1>6. QED BY <1>3, <1>4, <1>5 DEF IsSection

\* What SectionAt says of a program.
LEMMA SectionAtFields ==
    ASSUME NEW d, NEW b
    PROVE  /\ SectionAt(d, b).size = U(d, b)
           /\ SectionAt(d, b).tables =
                  \A rel \in CountedTables(d, b) : CountedHolds(d, b, rel)
           /\ \A p \in Offsets :
                  /\ SectionAt(d, b).next[p] = U(d, b + p)
                  /\ SectionAt(d, b).count[p] = I(d, b + p + ProgHead - 1)
                  /\ SectionAt(d, b).slotsOk[p] =
                         \A k \in 1 .. I(d, b + p + ProgHead - 1) :
                             SlotHolds(SlotAt(d, b + p + ProgHead + SlotSize * (k - 1)), U(d, b))
BY DEF SectionAt

LEMMA RootType ==
    ASSUME NEW d \in Data, NEW o \in Nat, HasHead(d, o)
    PROVE  \A i \in 1 .. 4 : Count(d, o, i) \in Nat /\ Table(d, o, i) \in Nat
<1>1. ASSUME NEW i \in 1 .. 4
      PROVE  o + i - 1 \in Nat /\ o + RootHead - 5 + i \in Nat
  BY SizesFit
<1>2. QED BY <1>1, CellType DEF Count, Table

LEMMA BaseType ==
    ASSUME NEW d \in Data, NEW o \in Nat, HasHead(d, o),
           NEW k \in Nat, k >= 1
    PROVE  Relative(d, o, k) \in Nat /\ Base(d, o, k) \in Nat
<1>1. Table(d, o, 1) \in Nat
  BY RootType
<1>2. o + Table(d, o, 1) + k - 1 \in Nat
  BY <1>1
<1>3. QED BY <1>2, CellType DEF Relative, Base

\* A root has one list of programs.
LEMMA WholeUnique ==
    ASSUME NEW d \in Data, NEW o \in Nat, NEW P \in Programs, NEW Q \in Programs,
           HasHead(d, o), SectionsHold(d, o, P), SectionsHold(d, o, Q),
           Len(P) = Len(Q)
    PROVE  P = Q
<1>1. ASSUME NEW k \in 1 .. Len(P)
      PROVE  P[k] = Q[k]
  <2>1. IsSection(SectionOf(d, o, k))
    BY BaseType, SectionAtType DEF SectionOf, Programs
  <2>2. Accepted(SectionOf(d, o, k), P[k]) /\ Accepted(SectionOf(d, o, k), Q[k])
    BY DEF SectionsHold
  <2>3. QED BY <2>1, <2>2, ChainsMeet
<1>2. QED BY <1>1 DEF Programs

LEMMA OffersAre ==
    ASSUME NEW d, NEW o, NEW P, NEW q
    PROVE  q \in Offers(d, o, P) <=>
               \E k \in 1 .. Len(P) : \E s \in FamilySlots(d, o, P, k) :
                   q = PlaceAt(d, o, k, s) /\ Clear(d, o, P, q)
<1> DEFINE Of(k) == {PlaceAt(d, o, k, s) : s \in FamilySlots(d, o, P, k)}
           All == UNION {Of(k) : k \in 1 .. Len(P)}
<1>1. q \in Offers(d, o, P) <=> q \in All /\ Clear(d, o, P, q)
  BY Zenon DEF Offers
<1>2. q \in All <=> \E k \in 1 .. Len(P) : q \in Of(k)
  <2> HIDE DEF Of
  <2>1. QED OBVIOUS
<1>3. QED BY <1>1, <1>2

\* The cells of section k and its programs are of these types.
LEMMA ProgramAt ==
    ASSUME NEW d \in Data, NEW o \in Nat, NEW P \in Programs, HasHead(d, o),
           SectionsHold(d, o, P), NEW k \in 1 .. Len(P), NEW p \in P[k]
    PROVE  /\ Base(d, o, k) \in Nat /\ p \in Nat /\ p \in Offsets
           /\ I(d, Base(d, o, k) + p + ProgHead - 1) \in Int
           /\ U(d, Base(d, o, k) + p) \in Nat
           /\ ProgramHolds(SectionOf(d, o, k), p)
<1>1. Base(d, o, k) \in Nat /\ P[k] \subseteq Nat
  BY BaseType DEF Programs
<1>2. IsSection(SectionOf(d, o, k)) /\ ProgramHolds(SectionOf(d, o, k), p)
  BY <1>1, SectionAtType DEF SectionOf, SectionsHold, Accepted
<1>3. p \in Offsets
  BY <1>1, <1>2, ProgramType DEF ProgramHolds
<1>4. Base(d, o, k) + p + ProgHead - 1 \in Nat /\ Base(d, o, k) + p \in Nat
  BY <1>1, SizesFit
<1>5. QED BY <1>1, <1>2, <1>3, <1>4, CellType

LEMMA SlotsAre ==
    ASSUME NEW d \in Data, NEW o \in Nat, NEW P \in Programs, HasHead(d, o),
           SectionsHold(d, o, P), NEW k \in 1 .. Len(P), NEW s \in SlotsOf(d, o, P, k)
    PROVE  /\ s \in Nat
           /\ \E p \in P[k] : \E j \in 0 .. I(d, Base(d, o, k) + p + ProgHead - 1) - 1 :
                  s = p + ProgHead + SlotSize * j
<1>1. PICK p \in P[k] : s \in Slots(SectionOf(d, o, k), p)
  BY DEF SlotsOf
<1>2. SectionOf(d, o, k).count[p] = I(d, Base(d, o, k) + p + ProgHead - 1)
  <2>1. p \in Offsets
    BY ProgramAt
  <2>2. QED BY <2>1, SectionAtFields DEF SectionOf
<1>3. PICK j \in 0 .. SectionOf(d, o, k).count[p] - 1 : s = p + ProgHead + SlotSize * j
  BY <1>1 DEF Slots
<1>4. IsSection(SectionOf(d, o, k))
  BY BaseType, SectionAtType DEF SectionOf, Programs
<1>5. s \in Nat
  BY <1>1, <1>4, ProgramAt, SlotsInside
<1>6. QED BY <1>2, <1>3, <1>5

LEMMA OfferType ==
    ASSUME NEW d \in Data, NEW o \in Nat, NEW P \in Programs, HasHead(d, o),
           SectionsHold(d, o, P), NEW q \in Offers(d, o, P)
    PROVE  q.root = o /\ q.record \in Nat
<1>1. PICK k \in 1 .. Len(P) : \E s \in FamilySlots(d, o, P, k) : q = PlaceAt(d, o, k, s)
  BY OffersAre
<1>2. PICK s \in FamilySlots(d, o, P, k) : q = PlaceAt(d, o, k, s)
  BY <1>1
<1>3. s \in Nat /\ Base(d, o, k) \in Nat
  BY SlotsAre, BaseType DEF FamilySlots, Programs
<1>4. SlotAt(d, Base(d, o, k) + s).primary \in Nat
  <2>1. Base(d, o, k) + s + 2 \in Nat
    BY <1>3
  <2>2. U(d, Base(d, o, k) + s + 2) \in Nat
    BY <2>1, CellType
  <2>3. QED BY <2>2 DEF SlotAt
<1>5. QED BY <1>2, <1>3, <1>4 DEF PlaceAt
-----------------------------------------------------------------------------
(* What an edit leaves alone                                               *)

ProgramSpan(d, b, p) == Span(b + p, ProgHead + SlotSize * I(d, b + p + ProgHead - 1))
TableSpan(d, b, rel) == Span(b + rel, 1 + U(d, b + rel))

SectionSpans(d, o, P, k) ==
    LET b == Base(d, o, k)
    IN  {Span(b, SecHead)}
        \cup {TableSpan(d, b, rel) : rel \in CountedTables(d, b)}
        \cup {ProgramSpan(d, b, p) : p \in Named(d, b, P[k])}

Protected(d, o, P) == StructuralSpans(d, Root(o, P)) \cup Tables(d, Root(o, P))

\* d and e agree on the cells of t.
Agree(d, e, t) == \A x \in Nat : t.start <= x /\ x < t.end => U(d, x) = U(e, x)

\* e is d but for cells no structure of the root at o lies on.
Framed(d, e, o, P) ==
    /\ Len(d) = Len(e)
    /\ \A t \in Protected(d, o, P) : Agree(d, e, t)

LEMMA SpansAre ==
    ASSUME NEW d, NEW o, NEW P
    PROVE  StructuralSpans(d, Root(o, P)) =
               {Span(o, RootHead)} \cup UNION {SectionSpans(d, o, P, k) : k \in DOMAIN P}
BY DEF StructuralSpans, SectionSpans, Root, TableSpan, ProgramSpan

\* The spans that the reads of section k rest on.
LEMMA SpansHave ==
    ASSUME NEW d, NEW o, NEW P \in Programs
    PROVE  /\ Span(o, RootHead) \in Protected(d, o, P)
           /\ \A k \in 1 .. Len(P) :
                  /\ Span(Base(d, o, k), SecHead) \in Protected(d, o, P)
                  /\ \A rel \in CountedTables(d, Base(d, o, k)) :
                         TableSpan(d, Base(d, o, k), rel) \in Protected(d, o, P)
                  /\ \A p \in Named(d, Base(d, o, k), P[k]) :
                         ProgramSpan(d, Base(d, o, k), p) \in Protected(d, o, P)
<1>1. Span(o, RootHead) \in Protected(d, o, P)
  BY SpansAre DEF Protected
<1>2. ASSUME NEW k \in 1 .. Len(P)
      PROVE  SectionSpans(d, o, P, k) \subseteq Protected(d, o, P)
  <2>1. k \in DOMAIN P
    BY DEF Programs
  <2>2. QED BY <2>1, SpansAre DEF Protected
<1>3. QED BY <1>1, <1>2 DEF SectionSpans

LEMMA TablesHave ==
    ASSUME NEW d, NEW o, NEW P
    PROVE  /\ Span(o + Table(d, o, 1), 1 * Count(d, o, 1)) \in Protected(d, o, P)
           /\ Span(o + Table(d, o, 2), EntrySize * Count(d, o, 2)) \in Protected(d, o, P)
           /\ Span(o + Table(d, o, 3), 1 * Count(d, o, 3)) \in Protected(d, o, P)
           /\ Span(o + Table(d, o, 4), 2 * Count(d, o, 4)) \in Protected(d, o, P)
<1> DEFINE size == <<1, EntrySize, 1, 2>>
           Of(i) == Span(o + Table(d, o, i), size[i] * Count(d, o, i))
<1>1. Tables(d, Root(o, P)) = {Of(i) : i \in 1 .. 4}
  BY DEF Tables, Root
<1>2. Of(1) \in Tables(d, Root(o, P)) /\ Of(2) \in Tables(d, Root(o, P))
      /\ Of(3) \in Tables(d, Root(o, P)) /\ Of(4) \in Tables(d, Root(o, P))
  <2> HIDE DEF Of
  <2>1. QED BY <1>1
<1>3. size[1] = 1 /\ size[2] = EntrySize /\ size[3] = 1 /\ size[4] = 2
  OBVIOUS
<1>4. QED BY <1>2, <1>3 DEF Protected

\* A cell of a protected span is the same in both.
LEMMA AgreesAt ==
    ASSUME NEW d, NEW e, NEW a \in Int, NEW n \in Int, Agree(d, e, Span(a, n)),
           NEW x \in Nat, a <= x, x < a + n
    PROVE  U(e, x) = U(d, x)
BY DEF Agree, Span

LEMMA FrameHead ==
    ASSUME NEW d \in Data, NEW e \in Data, NEW o \in Nat, NEW P \in Programs,
           HasHead(d, o), Framed(d, e, o, P)
    PROVE  /\ \A i \in 1 .. 4 :
                  Count(e, o, i) = Count(d, o, i) /\ Table(e, o, i) = Table(d, o, i)
           /\ HasHead(e, o)
<1>1. Agree(d, e, Span(o, RootHead))
  BY SpansHave DEF Framed
<1>2. ASSUME NEW i \in 1 .. 4
      PROVE  Count(e, o, i) = Count(d, o, i) /\ Table(e, o, i) = Table(d, o, i)
  <2>1. /\ o + i - 1 \in Nat /\ o <= o + i - 1 /\ o + i - 1 < o + RootHead
        /\ o + RootHead - 5 + i \in Nat /\ o <= o + RootHead - 5 + i
        /\ o + RootHead - 5 + i < o + RootHead
        /\ o \in Int /\ RootHead \in Int
    BY SizesFit
  <2>2. U(e, o + i - 1) = U(d, o + i - 1)
        /\ U(e, o + RootHead - 5 + i) = U(d, o + RootHead - 5 + i)
    BY <1>1, <2>1, AgreesAt
  <2>3. QED BY <2>2 DEF Count, Table
<1>3. Len(e) = Len(d)
  BY DEF Framed
<1>4. HeadHolds(e, o)
  <2>1. \A i \in 1 .. 4 : i < 4 => i + 1 \in 1 .. 4
    OBVIOUS
  <2>2. QED BY <1>2, <1>3, <2>1 DEF HasHead, HeadHolds
<1>5. QED BY <1>2, <1>3, <1>4 DEF HasHead

LEMMA FrameBase ==
    ASSUME NEW d \in Data, NEW e \in Data, NEW o \in Nat, NEW P \in Programs,
           HasHead(d, o), Framed(d, e, o, P), NEW k \in 1 .. Count(d, o, 1)
    PROVE  Relative(e, o, k) = Relative(d, o, k) /\ Base(e, o, k) = Base(d, o, k)
<1>1. Table(d, o, 1) \in Nat /\ Count(d, o, 1) \in Nat
      /\ Table(e, o, 1) = Table(d, o, 1)
  BY RootType, FrameHead
<1>2. Agree(d, e, Span(o + Table(d, o, 1), 1 * Count(d, o, 1)))
  BY TablesHave DEF Framed
<1>3. /\ o + Table(d, o, 1) + k - 1 \in Nat
      /\ o + Table(d, o, 1) <= o + Table(d, o, 1) + k - 1
      /\ o + Table(d, o, 1) + k - 1 < o + Table(d, o, 1) + 1 * Count(d, o, 1)
      /\ o + Table(d, o, 1) \in Int /\ 1 * Count(d, o, 1) \in Int
  BY <1>1
<1>4. U(e, o + Table(d, o, 1) + k - 1) = U(d, o + Table(d, o, 1) + k - 1)
  BY <1>2, <1>3, AgreesAt
<1>5. QED BY <1>1, <1>4 DEF Relative, Base

LEMMA FrameSection ==
    ASSUME NEW d \in Data, NEW e \in Data, NEW b \in Nat,
           Agree(d, e, Span(b, SecHead))
    PROVE  /\ U(e, b) = U(d, b)
           /\ CountedTables(e, b) = CountedTables(d, b)
           /\ CountedTables(d, b) \subseteq Nat
           /\ Len(e) = Len(d) /\ Fits(d, b) => Fits(e, b)
<1>1. /\ b <= b /\ b < b + SecHead
      /\ b + SecHead - 2 \in Nat /\ b <= b + SecHead - 2 /\ b + SecHead - 2 < b + SecHead
      /\ b + SecHead - 1 \in Nat /\ b <= b + SecHead - 1 /\ b + SecHead - 1 < b + SecHead
      /\ b \in Int /\ SecHead \in Int
  BY SizesFit
<1>2. U(e, b) = U(d, b) /\ U(e, b + SecHead - 2) = U(d, b + SecHead - 2)
      /\ U(e, b + SecHead - 1) = U(d, b + SecHead - 1)
  BY <1>1, AgreesAt
<1>3. CountedTables(d, b) \subseteq Nat
  BY <1>1, CellType DEF CountedTables
<1>4. QED BY <1>2, <1>3 DEF CountedTables, Fits

LEMMA FrameTable ==
    ASSUME NEW d \in Data, NEW e \in Data, NEW b \in Nat, NEW rel \in Nat,
           U(e, b) = U(d, b), Agree(d, e, TableSpan(d, b, rel)), CountedHolds(d, b, rel)
    PROVE  CountedHolds(e, b, rel) /\ U(e, b + rel) = U(d, b + rel)
<1>1. U(d, b + rel) \in Nat /\ b + rel \in Nat
  BY CellType
<1>2. ASSUME NEW i \in 0 .. U(d, b + rel)
      PROVE  U(e, b + rel + i) = U(d, b + rel + i)
  <2>1. /\ b + rel + i \in Nat /\ b + rel <= b + rel + i
        /\ b + rel + i < b + rel + (1 + U(d, b + rel))
        /\ b + rel \in Int /\ 1 + U(d, b + rel) \in Int
    BY <1>1
  <2>2. QED BY <2>1, AgreesAt DEF TableSpan
<1>3. U(e, b + rel) = U(d, b + rel)
  <2>1. 0 \in 0 .. U(d, b + rel) /\ b + rel + 0 = b + rel
    BY <1>1
  <2>2. QED BY <1>2, <2>1
<1>4. \A i \in 1 .. U(d, b + rel) : U(e, b + rel + i) = U(d, b + rel + i)
  <2>1. \A i \in 1 .. U(d, b + rel) : i \in 0 .. U(d, b + rel)
    BY <1>1
  <2>2. QED BY <1>2, <2>1
<1>5. QED BY <1>3, <1>4 DEF CountedHolds

LEMMA FrameProgram ==
    ASSUME NEW d \in Data, NEW e \in Data, NEW b \in Nat, NEW p \in Nat,
           I(d, b + p + ProgHead - 1) > 0, Agree(d, e, ProgramSpan(d, b, p))
    PROVE  /\ U(e, b + p) = U(d, b + p)
           /\ I(e, b + p + ProgHead - 1) = I(d, b + p + ProgHead - 1)
           /\ \A j \in 0 .. I(d, b + p + ProgHead - 1) - 1 :
                  SlotAt(e, b + p + ProgHead + SlotSize * j)
                      = SlotAt(d, b + p + ProgHead + SlotSize * j)
<1> DEFINE n == I(d, b + p + ProgHead - 1)
           m == SlotSize * n
<1>1. b + p \in Nat /\ b + p + ProgHead - 1 \in Nat
  BY SizesFit
<1>2. n \in Nat /\ n > 0
  BY <1>1, CellType
<1>3. m \in Nat
  <2> HIDE DEF n
  <2>1. QED BY <1>2, SizesFit
<1>a. Agree(d, e, Span(b + p, ProgHead + m))
  BY DEF ProgramSpan
<1>4. ASSUME NEW x \in Nat, b + p <= x, x < b + p + (ProgHead + m)
      PROVE  U(e, x) = U(d, x)
  <2> HIDE DEF m
  <2>1. b + p \in Int /\ ProgHead + m \in Int
    BY <1>1, <1>3, SizesFit
  <2>2. QED BY <1>a, <1>4, <2>1, AgreesAt
<1>5. U(e, b + p) = U(d, b + p) /\ U(e, b + p + ProgHead - 1) = U(d, b + p + ProgHead - 1)
  <2> HIDE DEF m, n
  <2>1. /\ b + p <= b + p /\ b + p < b + p + (ProgHead + m)
        /\ b + p <= b + p + ProgHead - 1
        /\ b + p + ProgHead - 1 < b + p + (ProgHead + m)
    BY <1>1, <1>3, SizesFit
  <2>2. QED BY <1>1, <1>4, <2>1
<1>6. ASSUME NEW j \in 0 .. n - 1
      PROVE  SlotAt(e, b + p + ProgHead + SlotSize * j)
                 = SlotAt(d, b + p + ProgHead + SlotSize * j)
  <2> DEFINE y == SlotSize * j
             x == b + p + ProgHead + y
  <2>1. y + SlotSize <= m /\ y \in Nat
    <3>1. SlotSize \in Nat /\ j \in Nat /\ n \in Nat /\ j <= n - 1
      BY <1>2, SizesFit
    <3> HIDE DEF n
    <3>2. QED BY <3>1, Multiply
  <2>2. \A i \in 0 .. 3 : x + i \in Nat /\ b + p <= x + i /\ x + i < b + p + (ProgHead + m)
    <3> HIDE DEF m, n, y
    <3>1. QED BY <1>1, <1>3, <2>1, SizesFit
  <2>3. \A i \in 0 .. 3 : U(e, x + i) = U(d, x + i)
    <3> HIDE DEF m, n, x
    <3>1. QED BY <1>4, <2>2
  <2>4. U(e, x + 0) = U(d, x + 0) /\ U(e, x + 2) = U(d, x + 2) /\ U(e, x + 3) = U(d, x + 3)
    <3> HIDE DEF x
    <3>1. QED BY <2>3
  <2>5. x + 0 = x
    <3> HIDE DEF y
    <3>1. QED BY <1>1, <2>1, SizesFit
  <2>6. QED BY <2>4, <2>5 DEF SlotAt
<1>7. QED BY <1>5, <1>6 DEF I

LEMMA SlotsOkIs ==
    ASSUME NEW d, NEW b, NEW p \in Offsets
    PROVE  SectionAt(d, b).slotsOk[p] <=>
               \A k \in 1 .. I(d, b + p + ProgHead - 1) :
                   SlotHolds(SlotAt(d, b + p + ProgHead + SlotSize * (k - 1)), U(d, b))
BY SectionAtFields

\* The programs of Q are the same in both.
SamePrograms(d, e, b, Q) ==
    \A p \in Q :
        /\ U(e, b + p) = U(d, b + p)
        /\ I(e, b + p + ProgHead - 1) = I(d, b + p + ProgHead - 1)
        /\ \A j \in 0 .. I(d, b + p + ProgHead - 1) - 1 :
               SlotAt(e, b + p + ProgHead + SlotSize * j)
                   = SlotAt(d, b + p + ProgHead + SlotSize * j)

LEMMA AcceptedSame ==
    ASSUME NEW d \in Data, NEW e \in Data, NEW b \in Nat, NEW Q,
           U(e, b) = U(d, b), SectionAt(e, b).tables, SamePrograms(d, e, b, Q),
           Accepted(SectionAt(d, b), Q)
    PROVE  /\ Accepted(SectionAt(e, b), Q)
           /\ \A p \in Q : Slots(SectionAt(e, b), p) = Slots(SectionAt(d, b), p)
<1> DEFINE s == SectionAt(d, b)
           t == SectionAt(e, b)
<1>a. s.size = U(d, b) /\ t.size = U(e, b)
  BY SectionAtFields
<1>b. IsSection(s)
  BY SectionAtType
<1>1. IsSection(s) /\ Accepted(s, Q) /\ t.tables /\ t.size = s.size
      /\ s.size = U(d, b) /\ U(e, b) = U(d, b)
  BY <1>a, <1>b
<1>2. \A p \in Q : p \in Nat /\ p \in Offsets
  <2>1. \A p \in Q : p \in Nat /\ ProgramHolds(s, p)
    <3> HIDE DEF s
    <3>1. QED BY <1>1 DEF Accepted
  <2>2. QED
    <3> HIDE DEF s
    <3>1. QED BY <1>1, <2>1, ProgramType DEF ProgramHolds
<1>3. ASSUME NEW p \in Q
      PROVE  t.next[p] = s.next[p] /\ t.count[p] = s.count[p]
             /\ (s.slotsOk[p] => t.slotsOk[p])
  <2> DEFINE n == I(d, b + p + ProgHead - 1)
             x(k) == b + p + ProgHead + SlotSize * (k - 1)
  <2>1. /\ s.next[p] = U(d, b + p) /\ t.next[p] = U(e, b + p)
        /\ s.count[p] = n /\ t.count[p] = I(e, b + p + ProgHead - 1)
    BY <1>2, SectionAtFields
  <2>2. s.slotsOk[p] <=> \A k \in 1 .. n : SlotHolds(SlotAt(d, x(k)), U(d, b))
    BY <1>2, SlotsOkIs, Zenon
  <2>3. t.slotsOk[p] <=> \A k \in 1 .. I(e, b + p + ProgHead - 1) :
                           SlotHolds(SlotAt(e, x(k)), U(e, b))
    BY <1>2, SlotsOkIs, Zenon
  <2>4. U(e, b + p) = U(d, b + p) /\ I(e, b + p + ProgHead - 1) = n
    BY DEF SamePrograms
  <2>5. ASSUME NEW k \in 1 .. n
        PROVE  SlotAt(e, x(k)) = SlotAt(d, x(k))
    <3>1. n \in Int
      <4>1. b + p + ProgHead - 1 \in Nat
        BY <1>2, SizesFit
      <4>2. QED BY <4>1, CellType
    <3>2. k - 1 \in 0 .. n - 1
      <4> HIDE DEF n
      <4>1. QED BY <3>1
    <3>3. QED BY <3>2 DEF SamePrograms
  <2>6. s.slotsOk[p] => t.slotsOk[p]
    <3> HIDE DEF n, x, s, t
    <3>1. QED BY <1>1, <2>2, <2>3, <2>4, <2>5
  <2>7. QED BY <2>1, <2>4, <2>6
<1> HIDE DEF s, t
<1>4. \A p \in Q : SlotsEnd(t, p) = SlotsEnd(s, p) /\ Slots(t, p) = Slots(s, p)
  BY <1>3 DEF SlotsEnd, Slots
<1>5. ASSUME NEW p \in Q
      PROVE  ProgramHolds(t, p) /\ SecHead <= p /\ Chained(t, Q, p)
  <2>1. ProgramHolds(s, p) /\ SecHead <= p /\ Chained(s, Q, p)
    BY <1>1 DEF Accepted
  <2>2. ProgramHolds(t, p)
    BY <1>1, <1>3, <1>4, <2>1 DEF ProgramHolds
  <2>3. Chained(t, Q, p)
    BY <1>3, <2>1 DEF Chained, LinkHolds
  <2>4. QED BY <2>1, <2>2, <2>3
<1>6. Accepted(t, Q)
  BY <1>1, <1>3, <1>5 DEF Accepted
<1>7. QED BY <1>4, <1>6 DEF s, t

\* Section k is the same in both, as far as the walks and the spans read it.
SameSection(d, e, o, P, k) ==
    LET b == Base(d, o, k)
    IN  /\ b \in Nat
        /\ Relative(e, o, k) = Relative(d, o, k) /\ Base(e, o, k) = b
        /\ U(e, b) = U(d, b)
        /\ CountedTables(e, b) = CountedTables(d, b)
        /\ \A rel \in CountedTables(d, b) :
               CountedHolds(e, b, rel) /\ U(e, b + rel) = U(d, b + rel)
        /\ SamePrograms(d, e, b, P[k])
        /\ Fits(d, b) => Fits(e, b)

\* The root at o whose programs all have slots.
Rooted(d, e, o, P) ==
    /\ HasHead(d, o) /\ SectionsHold(d, o, P) /\ Len(P) = Count(d, o, 1)
    /\ \A k \in 1 .. Len(P) : Named(d, Base(d, o, k), P[k]) = P[k]
    /\ Framed(d, e, o, P)

LEMMA FrameSections ==
    ASSUME NEW d \in Data, NEW e \in Data, NEW o \in Nat, NEW P \in Programs,
           Rooted(d, e, o, P), NEW k \in 1 .. Len(P)
    PROVE  SameSection(d, e, o, P, k)
<1> DEFINE b == Base(d, o, k)
<1>1. HasHead(d, o) /\ SectionsHold(d, o, P) /\ Framed(d, e, o, P)
      /\ k \in 1 .. Count(d, o, 1) /\ k \in Nat /\ k >= 1 /\ P[k] \subseteq Nat
  BY DEF Rooted, Programs
<1>2. b \in Nat /\ Relative(e, o, k) = Relative(d, o, k) /\ Base(e, o, k) = b
  BY <1>1, BaseType, FrameBase
<1>3. /\ Agree(d, e, Span(b, SecHead))
      /\ \A rel \in CountedTables(d, b) : Agree(d, e, TableSpan(d, b, rel))
      /\ \A p \in Named(d, b, P[k]) : Agree(d, e, ProgramSpan(d, b, p))
  BY <1>1, SpansHave DEF Framed
<1>a. Named(d, b, P[k]) = P[k] /\ Len(e) = Len(d)
  BY <1>1 DEF Rooted, Framed
<1>b. SectionAt(d, b).tables
  BY <1>1 DEF SectionsHold, SectionOf, Accepted
<1> HIDE DEF b
<1>4. /\ U(e, b) = U(d, b)
      /\ CountedTables(e, b) = CountedTables(d, b)
      /\ CountedTables(d, b) \subseteq Nat
      /\ Fits(d, b) => Fits(e, b)
  BY <1>2, <1>3, <1>a, FrameSection
<1>5. ASSUME NEW rel \in CountedTables(d, b)
      PROVE  CountedHolds(e, b, rel) /\ U(e, b + rel) = U(d, b + rel)
  <2>1. CountedHolds(d, b, rel)
    BY <1>b, SectionAtFields
  <2>2. QED BY <1>2, <1>3, <1>4, <2>1, FrameTable
<1>6. SamePrograms(d, e, b, P[k])
  <2> SUFFICES ASSUME NEW p \in P[k]
               PROVE  /\ U(e, b + p) = U(d, b + p)
                      /\ I(e, b + p + ProgHead - 1) = I(d, b + p + ProgHead - 1)
                      /\ \A j \in 0 .. I(d, b + p + ProgHead - 1) - 1 :
                             SlotAt(e, b + p + ProgHead + SlotSize * j)
                                 = SlotAt(d, b + p + ProgHead + SlotSize * j)
    BY DEF SamePrograms
  <2>1. p \in Nat /\ I(d, b + p + ProgHead - 1) > 0 /\ Agree(d, e, ProgramSpan(d, b, p))
    BY <1>1, <1>3, <1>a DEF Named
  <2>2. QED BY <1>2, <2>1, FrameProgram
<1>7. QED BY <1>2, <1>4, <1>5, <1>6 DEF SameSection, b

LEMMA FrameSectionsHold ==
    ASSUME NEW d \in Data, NEW e \in Data, NEW o \in Nat, NEW P \in Programs,
           Rooted(d, e, o, P)
    PROVE  /\ SectionsHold(e, o, P)
           /\ \A k \in 1 .. Len(P) : SlotsOf(e, o, P, k) = SlotsOf(d, o, P, k)
<1> SUFFICES ASSUME NEW k \in 1 .. Len(P)
             PROVE  /\ Taken(e, o, k) /\ Accepted(SectionOf(e, o, k), P[k])
                    /\ SlotsOf(e, o, P, k) = SlotsOf(d, o, P, k)
  BY DEF SectionsHold
<1> DEFINE b == Base(d, o, k)
<1>1. SameSection(d, e, o, P, k) /\ Taken(d, o, k) /\ Accepted(SectionAt(d, b), P[k])
  BY FrameSections DEF Rooted, SectionsHold, SectionOf
<1>2. /\ b \in Nat /\ Base(e, o, k) = b /\ U(e, b) = U(d, b)
      /\ SamePrograms(d, e, b, P[k]) /\ Relative(e, o, k) = Relative(d, o, k)
      /\ Fits(d, b) => Fits(e, b)
      /\ \A rel \in CountedTables(e, b) : CountedHolds(e, b, rel)
  BY <1>1 DEF SameSection
<1>3. SectionAt(e, b).tables
  BY <1>2, SectionAtFields
<1>4. Taken(e, o, k)
  BY <1>1, <1>2 DEF Taken, Base
<1> HIDE DEF b
<1>5. /\ Accepted(SectionAt(e, b), P[k])
      /\ \A p \in P[k] : Slots(SectionAt(e, b), p) = Slots(SectionAt(d, b), p)
  BY <1>1, <1>2, <1>3, AcceptedSame
<1>6. SectionOf(e, o, k) = SectionAt(e, b) /\ SectionOf(d, o, k) = SectionAt(d, b)
  BY <1>2 DEF SectionOf, b
<1>7. SlotsOf(e, o, P, k) = SlotsOf(d, o, P, k)
  BY <1>5, <1>6 DEF SlotsOf
<1>8. QED BY <1>4, <1>5, <1>6, <1>7

LEMMA FrameAuxiliary ==
    ASSUME NEW d \in Data, NEW e \in Data, NEW o \in Nat, NEW P \in Programs,
           HasHead(d, o), Framed(d, e, o, P), AuxiliaryHolds(d, o)
    PROVE  AuxiliaryHolds(e, o)
<1> DEFINE at2 == o + Table(d, o, 2)
           at3 == o + Table(d, o, 3)
           at4 == o + Table(d, o, 4)
           c2 == Count(d, o, 2)
           c3 == Count(d, o, 3)
           c4 == Count(d, o, 4)
<1>1. /\ at2 \in Nat /\ at3 \in Nat /\ at4 \in Nat
      /\ c2 \in Nat /\ c3 \in Nat /\ c4 \in Nat
  BY RootType
<1>2. /\ Agree(d, e, Span(at2, EntrySize * c2))
      /\ Agree(d, e, Span(at3, 1 * c3)) /\ Agree(d, e, Span(at4, 2 * c4))
  BY TablesHave DEF Framed
<1>3. /\ Table(e, o, 2) = Table(d, o, 2) /\ Table(e, o, 3) = Table(d, o, 3)
      /\ Table(e, o, 4) = Table(d, o, 4) /\ Count(e, o, 2) = Count(d, o, 2)
      /\ Count(e, o, 3) = Count(d, o, 3) /\ Count(e, o, 4) = Count(d, o, 4)
      /\ Len(e) = Len(d)
  BY FrameHead DEF Framed
<1>4. ASSUME NEW i \in 1 .. c2, NEW part \in 1 .. 3
      PROVE  U(e, at2 + EntrySize * i - part) = U(d, at2 + EntrySize * i - part)
  <2> DEFINE y == EntrySize * i - part
             m == EntrySize * c2
  <2> HIDE DEF at2, c2
  <2>1. EntrySize * (i - 1) + EntrySize <= m /\ EntrySize * (i - 1) \in Nat
    BY <1>1, SizesFit, Multiply
  <2>2. EntrySize * i = EntrySize * (i - 1) + EntrySize
    BY <1>1, SizesFit
  <2>3. y \in Nat /\ y < m /\ m \in Nat
    BY <1>1, <2>1, <2>2, SizesFit
  <2>4. at2 + y = at2 + EntrySize * i - part
    BY <1>1, <2>1, <2>2, SizesFit
  <2>5. U(e, at2 + y) = U(d, at2 + y)
    <3> HIDE DEF y, m
    <3>1. Agree(d, e, Span(at2, m))
      BY <1>2 DEF m
    <3>2. /\ at2 + y \in Nat /\ at2 <= at2 + y /\ at2 + y < at2 + m
          /\ at2 \in Int /\ m \in Int
      BY <1>1, <2>3
    <3>3. QED BY <3>1, <3>2, AgreesAt
  <2>6. QED BY <2>4, <2>5
<1>5. ASSUME NEW i \in 1 .. c3
      PROVE  U(e, at3 + i - 1) = U(d, at3 + i - 1)
  <2> HIDE DEF at3, c3
  <2>1. /\ at3 + i - 1 \in Nat /\ at3 <= at3 + i - 1 /\ at3 + i - 1 < at3 + 1 * c3
        /\ at3 \in Int /\ 1 * c3 \in Int
    BY <1>1
  <2>2. QED BY <1>2, <2>1, AgreesAt
<1>6. ASSUME NEW i \in 1 .. c4
      PROVE  U(e, at4 + 2 * i - 1) = U(d, at4 + 2 * i - 1)
  <2> HIDE DEF at4, c4
  <2>1. /\ at4 + 2 * i - 1 \in Nat /\ at4 <= at4 + 2 * i - 1
        /\ at4 + 2 * i - 1 < at4 + 2 * c4
        /\ at4 \in Int /\ 2 * c4 \in Int
    BY <1>1
  <2>2. QED BY <1>2, <2>1, AgreesAt
<1>7. /\ at2 + EntrySize * c2 <= Len(d)
      /\ \A i \in 1 .. c2, part \in 1 .. 3 : U(d, at2 + EntrySize * i - part) < Len(d) - o
      /\ at3 + c3 <= Len(d)
      /\ \A i \in 1 .. c3 : U(d, at3 + i - 1) < Len(d) - o
      /\ at4 + 2 * c4 <= Len(d)
      /\ \A i \in 1 .. c4 : U(d, at4 + 2 * i - 1) < Len(d) - o
  BY DEF AuxiliaryHolds
<1>8. /\ at2 + EntrySize * c2 <= Len(e)
      /\ \A i \in 1 .. c2, part \in 1 .. 3 : U(e, at2 + EntrySize * i - part) < Len(e) - o
      /\ at3 + c3 <= Len(e)
      /\ \A i \in 1 .. c3 : U(e, at3 + i - 1) < Len(e) - o
      /\ at4 + 2 * c4 <= Len(e)
      /\ \A i \in 1 .. c4 : U(e, at4 + 2 * i - 1) < Len(e) - o
  <2> HIDE DEF at2, at3, at4, c2, c3, c4
  <2>1. QED BY <1>3, <1>4, <1>5, <1>6, <1>7
<1>9. QED BY <1>3, <1>8 DEF AuxiliaryHolds

LEMMA FrameSpans ==
    ASSUME NEW d \in Data, NEW e \in Data, NEW o \in Nat, NEW P \in Programs,
           Rooted(d, e, o, P)
    PROVE  StructuralSpans(e, Root(o, P)) = StructuralSpans(d, Root(o, P))
<1>1. ASSUME NEW k \in 1 .. Len(P)
      PROVE  SectionSpans(e, o, P, k) = SectionSpans(d, o, P, k)
  <2> DEFINE b == Base(d, o, k)
  <2>1. /\ Base(e, o, k) = b /\ CountedTables(e, b) = CountedTables(d, b)
        /\ \A rel \in CountedTables(d, b) : U(e, b + rel) = U(d, b + rel)
        /\ SamePrograms(d, e, b, P[k])
    BY FrameSections DEF SameSection
  <2> HIDE DEF b
  <2>2. \A p \in P[k] : I(e, b + p + ProgHead - 1) = I(d, b + p + ProgHead - 1)
    BY <2>1 DEF SamePrograms
  <2>3. Named(e, b, P[k]) = Named(d, b, P[k])
    BY <2>2 DEF Named
  <2>4. \A p \in Named(d, b, P[k]) : ProgramSpan(e, b, p) = ProgramSpan(d, b, p)
    BY <2>2 DEF Named, ProgramSpan
  <2>5. \A rel \in CountedTables(d, b) : TableSpan(e, b, rel) = TableSpan(d, b, rel)
    BY <2>1 DEF TableSpan
  <2>6. {ProgramSpan(e, b, p) : p \in Named(e, b, P[k])}
            = {ProgramSpan(d, b, p) : p \in Named(d, b, P[k])}
    BY <2>3, <2>4
  <2>7. {TableSpan(e, b, rel) : rel \in CountedTables(e, b)}
            = {TableSpan(d, b, rel) : rel \in CountedTables(d, b)}
    BY <2>1, <2>5
  <2>8. SectionSpans(d, o, P, k) =
            {Span(b, SecHead)} \cup {TableSpan(d, b, rel) : rel \in CountedTables(d, b)}
            \cup {ProgramSpan(d, b, p) : p \in Named(d, b, P[k])}
    BY DEF SectionSpans, b
  <2>9. SectionSpans(e, o, P, k) =
            {Span(b, SecHead)} \cup {TableSpan(e, b, rel) : rel \in CountedTables(e, b)}
            \cup {ProgramSpan(e, b, p) : p \in Named(e, b, P[k])}
    BY <2>1 DEF SectionSpans
  <2>10. QED BY <2>6, <2>7, <2>8, <2>9
<1>2. DOMAIN P = 1 .. Len(P)
  BY DEF Programs
<1>3. UNION {SectionSpans(e, o, P, k) : k \in DOMAIN P}
          = UNION {SectionSpans(d, o, P, k) : k \in DOMAIN P}
  BY <1>1, <1>2
<1>4. QED BY <1>3, SpansAre

LEMMA FrameOffers ==
    ASSUME NEW d \in Data, NEW e \in Data, NEW o \in Nat, NEW P \in Programs,
           Rooted(d, e, o, P)
    PROVE  Offers(e, o, P) = Offers(d, o, P)
<1>1. HasHead(d, o) /\ SectionsHold(d, o, P)
  BY DEF Rooted
<1>2. ASSUME NEW k \in 1 .. Len(P)
      PROVE  /\ FamilySlots(e, o, P, k) = FamilySlots(d, o, P, k)
             /\ \A s \in FamilySlots(d, o, P, k) :
                    /\ PlaceAt(e, o, k, s) = PlaceAt(d, o, k, s)
                    /\ Clear(e, o, P, PlaceAt(d, o, k, s)) <=> Clear(d, o, P, PlaceAt(d, o, k, s))
  <2> DEFINE b == Base(d, o, k)
  <2>1. /\ b \in Nat /\ Base(e, o, k) = b /\ U(e, b) = U(d, b)
        /\ SamePrograms(d, e, b, P[k])
    BY FrameSections DEF SameSection
  <2>2. SlotsOf(e, o, P, k) = SlotsOf(d, o, P, k)
    BY FrameSectionsHold
  <2>3. ASSUME NEW s \in SlotsOf(d, o, P, k)
        PROVE  SlotAt(e, b + s) = SlotAt(d, b + s)
    <3>1. PICK p \in P[k] : \E j \in 0 .. I(d, b + p + ProgHead - 1) - 1 :
                                s = p + ProgHead + SlotSize * j
      BY <1>1, SlotsAre
    <3>2. PICK j \in 0 .. I(d, b + p + ProgHead - 1) - 1 : s = p + ProgHead + SlotSize * j
      BY <3>1
    <3> DEFINE y == SlotSize * j
    <3>3. SlotAt(e, b + p + ProgHead + y) = SlotAt(d, b + p + ProgHead + y)
      BY <2>1, <3>2 DEF SamePrograms
    <3>4. y \in Nat /\ p \in Nat /\ s \in Nat
      <4>1. p \in Nat /\ I(d, b + p + ProgHead - 1) \in Int
        BY <1>1, ProgramAt
      <4>2. s \in Nat
        BY <1>1, SlotsAre
      <4>a. j \in Nat
        <5> HIDE DEF b
        <5>1. QED BY <4>1, <3>2
      <4>3. y \in Nat
        BY <4>a, SizesFit
      <4>4. QED BY <4>1, <4>2, <4>3
    <3>5. b + p + ProgHead + y = b + s
      <4> HIDE DEF b
      <4>1. s = p + ProgHead + y
        BY <3>2
      <4> HIDE DEF y
      <4>2. QED BY <2>1, <3>4, <4>1, SizesFit
    <3>6. QED
      <4> HIDE DEF b, y
      <4>1. QED BY <3>3, <3>5
  <2>4. FamilySlots(e, o, P, k) = FamilySlots(d, o, P, k)
    <3> HIDE DEF b
    <3>1. Base(d, o, k) = b
      BY DEF b
    <3>2. QED BY <2>1, <2>2, <2>3, <3>1 DEF FamilySlots
  <2>5. ASSUME NEW s \in FamilySlots(d, o, P, k)
        PROVE  /\ PlaceAt(e, o, k, s) = PlaceAt(d, o, k, s)
               /\ Clear(e, o, P, PlaceAt(d, o, k, s)) <=> Clear(d, o, P, PlaceAt(d, o, k, s))
    <3> DEFINE q == PlaceAt(d, o, k, s)
    <3>1. SlotAt(e, b + s) = SlotAt(d, b + s)
      BY <2>3 DEF FamilySlots
    <3>2. PlaceAt(e, o, k, s) = q
      BY <2>1, <3>1 DEF PlaceAt
    <3>3. q.section = b
      BY DEF PlaceAt
    <3> HIDE DEF q, b
    <3>4. Clear(e, o, P, q) <=> Clear(d, o, P, q)
      BY <2>1, <3>3, FrameSpans DEF Clear
    <3>5. QED BY <3>2, <3>4 DEF q
  <2>6. QED BY <2>4, <2>5
<1>3. ASSUME NEW q
      PROVE  q \in Offers(e, o, P) <=> q \in Offers(d, o, P)
  <2>1. q \in Offers(e, o, P) <=>
            \E k \in 1 .. Len(P) : \E s \in FamilySlots(e, o, P, k) :
                q = PlaceAt(e, o, k, s) /\ Clear(e, o, P, q)
    BY OffersAre
  <2>2. q \in Offers(d, o, P) <=>
            \E k \in 1 .. Len(P) : \E s \in FamilySlots(d, o, P, k) :
                q = PlaceAt(d, o, k, s) /\ Clear(d, o, P, q)
    BY OffersAre
  <2>3. QED BY <1>2, <2>1, <2>2, Zenon
<1>4. QED BY <1>3

\* A root that is whole in d is whole in e, with the same offers.
LEMMA FrameWhole ==
    ASSUME NEW d \in Data, NEW e \in Data, NEW o \in Nat, NEW P \in Programs,
           Whole(d, o, P), Firm(d, o, P), Framed(d, e, o, P)
    PROVE  Whole(e, o, P) /\ Offers(e, o, P) = Offers(d, o, P)
<1>1. Rooted(d, e, o, P) /\ HasHead(d, o) /\ AuxiliaryHolds(d, o)
      /\ Len(P) = Count(d, o, 1)
  BY DEF Whole, Firm, Rooted
<1>2. HasHead(e, o) /\ Count(e, o, 1) = Count(d, o, 1)
  <2>1. 1 \in 1 .. 4
    OBVIOUS
  <2>2. QED BY <1>1, <2>1, FrameHead
<1>3. SectionsHold(e, o, P) /\ AuxiliaryHolds(e, o)
  BY <1>1, FrameSectionsHold, FrameAuxiliary
<1>4. QED BY <1>1, <1>2, <1>3, FrameOffers DEF Whole

LEMMA SpanType ==
    ASSUME NEW a \in Int, NEW n \in Int
    PROVE  Span(a, n).start \in Int /\ Span(a, n).end \in Int
BY DEF Span

LEMMA ProtectedType ==
    ASSUME NEW d \in Data, NEW o \in Nat, NEW P \in Programs,
           HasHead(d, o), SectionsHold(d, o, P), NEW t \in Protected(d, o, P)
    PROVE  t.start \in Int /\ t.end \in Int
<1>1. CASE t \in Tables(d, Root(o, P))
  <2> DEFINE size == <<1, EntrySize, 1, 2>>
  <2>1. PICK i \in 1 .. 4 : t = Span(o + Table(d, o, i), size[i] * Count(d, o, i))
    BY <1>1 DEF Tables, Root
  <2>2. Table(d, o, i) \in Nat /\ Count(d, o, i) \in Nat
    BY RootType
  <2>3. size[i] \in Nat
    <3>1. size[1] = 1 /\ size[2] = EntrySize /\ size[3] = 1 /\ size[4] = 2
      OBVIOUS
    <3>2. i = 1 \/ i = 2 \/ i = 3 \/ i = 4
      OBVIOUS
    <3> HIDE DEF size
    <3>3. QED BY <3>1, <3>2, SizesFit
  <2> HIDE DEF size
  <2>4. o + Table(d, o, i) \in Int /\ size[i] * Count(d, o, i) \in Int
    BY <2>2, <2>3
  <2>5. QED BY <2>1, <2>4, SpanType
<1>2. CASE t = Span(o, RootHead)
  BY <1>2, SizesFit, SpanType
<1>3. ASSUME NEW k \in 1 .. Len(P), t \in SectionSpans(d, o, P, k)
      PROVE  t.start \in Int /\ t.end \in Int
  <2> DEFINE b == Base(d, o, k)
  <2>1. b \in Nat
    BY BaseType DEF Programs
  <2>2. CASE t = Span(b, SecHead)
    BY <2>1, <2>2, SizesFit, SpanType
  <2>3. ASSUME NEW rel \in CountedTables(d, b), t = TableSpan(d, b, rel)
        PROVE  t.start \in Int /\ t.end \in Int
    <3>1. b + SecHead - 2 \in Nat /\ b + SecHead - 1 \in Nat
      BY <2>1, SizesFit
    <3>2. rel \in Nat
      BY <3>1, CellType DEF CountedTables
    <3>3. b + rel \in Nat
      BY <2>1, <3>2
    <3>4. U(d, b + rel) \in Nat
      BY <3>3, CellType
    <3>5. b + rel \in Int /\ 1 + U(d, b + rel) \in Int
      BY <3>3, <3>4
    <3>6. QED BY <2>3, <3>5, SpanType DEF TableSpan
  <2>4. ASSUME NEW p \in P[k], t = ProgramSpan(d, b, p)
        PROVE  t.start \in Int /\ t.end \in Int
    <3> DEFINE n == I(d, b + p + ProgHead - 1)
    <3>1. p \in Nat /\ n \in Int
      BY ProgramAt
    <3>2. t = Span(b + p, ProgHead + SlotSize * n)
      BY <2>4 DEF ProgramSpan
    <3> HIDE DEF n
    <3>3. b + p \in Int /\ ProgHead + SlotSize * n \in Int
      BY <2>1, <3>1, SizesFit
    <3>4. QED BY <3>2, <3>3, SpanType
  <2>5. QED BY <1>3, <2>2, <2>3, <2>4 DEF SectionSpans, Named
<1>4. QED BY <1>1, <1>2, <1>3, SpansAre DEF Protected, Programs

\* Where d and e differ only in records that are offered, no structure is.
LEMMA OffersFrame ==
    ASSUME NEW d \in Data, NEW e \in Data, NEW o \in Nat, NEW P \in Programs,
           HasHead(d, o), SectionsHold(d, o, P), Firm(d, o, P), Len(d) = Len(e),
           \A x \in Nat : \/ U(d, x) = U(e, x)
                          \/ \E q \in Offers(d, o, P) :
                                 q.record <= x /\ x < q.record + (RecHead + Width)
    PROVE  Framed(d, e, o, P)
<1> SUFFICES ASSUME NEW t \in Protected(d, o, P), NEW x \in Nat,
                    t.start <= x, x < t.end, U(d, x) # U(e, x)
             PROVE  FALSE
  BY DEF Framed, Agree
<1>1. PICK q \in Offers(d, o, P) : q.record <= x /\ x < q.record + (RecHead + Width)
  OBVIOUS
<1>2. t.start \in Int /\ t.end \in Int /\ q.record \in Nat
  BY ProtectedType, OfferType
<1>3. Record(q.record).start = q.record
      /\ Record(q.record).end = q.record + (RecHead + Width)
  BY DEF Record, Span
<1>4. Overlaps(t, Record(q.record))
  <2>1. t.start < q.record + (RecHead + Width) /\ q.record < t.end
    BY <1>1, <1>2, SizesFit
  <2>2. QED BY <1>3, <2>1 DEF Overlaps
<1>5. \A r \in StructuralSpans(d, Root(o, P)) : ~Overlaps(r, Record(q.record))
  BY OffersAre DEF Clear
<1>6. QED BY <1>4, <1>5 DEF Firm, Protected

-----------------------------------------------------------------------------
(* What Select chooses                                                     *)

ChosenAt(d, o, k, s) ==
    [root |-> o, section |-> Base(d, o, k), slot |-> Base(d, o, k) + s,
     record |-> Base(d, o, k) + SlotAt(d, Base(d, o, k) + s).primary,
     hash |-> Digest(d, Base(d, o, k) + SlotAt(d, Base(d, o, k) + s).primary)]

LEMMA PlaceOfChosen ==
    ASSUME NEW d, NEW o, NEW k, NEW s
    PROVE  /\ Place(ChosenAt(d, o, k, s)) = PlaceAt(d, o, k, s)
           /\ ChosenAt(d, o, k, s).record = PlaceAt(d, o, k, s).record
           /\ ChosenAt(d, o, k, s).section = PlaceAt(d, o, k, s).section
BY DEF Place, ChosenAt, PlaceAt

\* The loop has the slots of every section of r.
AllSlots(d, o, P) == \A k \in 1 .. Len(P) : slots[k] = SlotsOf(d, o, P, k)

LEMMA ChosenAre ==
    ASSUME NEW d \in Data, NEW o \in Nat, NEW P \in Programs, AllSlots(d, o, P), NEW c
    PROVE  c \in Chosen(d, Root(o, P)) <=>
               \E k \in 1 .. Len(P) : \E s \in FamilySlots(d, o, P, k) :
                   c = ChosenAt(d, o, k, s) /\ Clear(d, o, P, PlaceAt(d, o, k, s))
<1> DEFINE r == Root(o, P)
           Family1(k) == {s \in slots[k] : SlotAt(d, Base(d, o, k) + s).handler = Family}
           Of(k) == {ChosenAt(d, o, k, s) : s \in Family1(k)}
           All == UNION {Of(k) : k \in DOMAIN P}
           Fine(x) == /\ Record(x.record).end <= x.section + U(d, x.section)
                      /\ \A t \in StructuralSpans(d, r) : ~Overlaps(t, Record(x.record))
<1>1. Chosen(d, r) = {x \in All : Fine(x)}
  BY DEF Chosen, ChosenAt, Root
<1>2. c \in All <=> \E k \in DOMAIN P : c \in Of(k)
  <2> HIDE DEF Of
  <2>1. QED OBVIOUS
<1>3. DOMAIN P = 1 .. Len(P)
  BY DEF Programs
<1>4. ASSUME NEW k \in 1 .. Len(P)
      PROVE  Family1(k) = FamilySlots(d, o, P, k)
  BY DEF AllSlots, FamilySlots
<1>5. ASSUME NEW k, NEW s
      PROVE  Fine(ChosenAt(d, o, k, s)) <=> Clear(d, o, P, PlaceAt(d, o, k, s))
  <2> DEFINE x == ChosenAt(d, o, k, s)
             q == PlaceAt(d, o, k, s)
  <2>1. x.record = q.record /\ x.section = q.section
    BY PlaceOfChosen
  <2> HIDE DEF x, q
  <2>2. Fine(x) <=> Clear(d, o, P, q)
    BY <2>1 DEF Clear
  <2>3. QED BY <2>2 DEF x, q
<1>6. c \in Chosen(d, r) <=> c \in All /\ Fine(c)
  <2> HIDE DEF All, Fine
  <2>1. QED BY <1>1
<1>7. c \in All <=> \E k \in 1 .. Len(P) : \E s \in FamilySlots(d, o, P, k) :
                        c = ChosenAt(d, o, k, s)
  <2> HIDE DEF All
  <2>1. \A k \in 1 .. Len(P) :
            c \in Of(k) <=> \E s \in FamilySlots(d, o, P, k) : c = ChosenAt(d, o, k, s)
    BY <1>4
  <2> HIDE DEF Of
  <2>2. QED BY <1>2, <1>3, <2>1
<1> HIDE DEF All, Fine, r
<1>8. QED BY <1>5, <1>6, <1>7 DEF r

\* Select chooses what there is to offer.
LEMMA ChosenOffers ==
    ASSUME NEW d \in Data, NEW o \in Nat, NEW P \in Programs, AllSlots(d, o, P)
    PROVE  /\ \A c \in Chosen(d, Root(o, P)) : Place(c) \in Offers(d, o, P)
           /\ \A q \in Offers(d, o, P) : \E c \in Chosen(d, Root(o, P)) :
                  q = Place(c) /\ q.record = c.record
<1>1. ASSUME NEW c \in Chosen(d, Root(o, P))
      PROVE  Place(c) \in Offers(d, o, P)
  <2>1. PICK k \in 1 .. Len(P) : \E s \in FamilySlots(d, o, P, k) :
             c = ChosenAt(d, o, k, s) /\ Clear(d, o, P, PlaceAt(d, o, k, s))
    BY ChosenAre
  <2>2. PICK s \in FamilySlots(d, o, P, k) :
             c = ChosenAt(d, o, k, s) /\ Clear(d, o, P, PlaceAt(d, o, k, s))
    BY <2>1
  <2>3. Place(c) = PlaceAt(d, o, k, s)
    BY <2>2, PlaceOfChosen
  <2>4. QED BY <2>2, <2>3, OffersAre
<1>2. ASSUME NEW q \in Offers(d, o, P)
      PROVE  \E c \in Chosen(d, Root(o, P)) : q = Place(c) /\ q.record = c.record
  <2>1. PICK k \in 1 .. Len(P) : \E s \in FamilySlots(d, o, P, k) :
             q = PlaceAt(d, o, k, s) /\ Clear(d, o, P, q)
    BY OffersAre
  <2>2. PICK s \in FamilySlots(d, o, P, k) :
             q = PlaceAt(d, o, k, s) /\ Clear(d, o, P, q)
    BY <2>1
  <2>3. ChosenAt(d, o, k, s) \in Chosen(d, Root(o, P))
    BY <2>2, ChosenAre
  <2>4. QED BY <2>2, <2>3, PlaceOfChosen
<1>3. QED BY <1>1, <1>2

LEMMA SolidFirm ==
    ASSUME NEW d \in Data, NEW o \in Nat, NEW P \in Programs, AllSlots(d, o, P),
           Solid(d, Root(o, P))
    PROVE  Firm(d, o, P)
<1>1. DOMAIN P = 1 .. Len(P) /\ Root(o, P).offset = o /\ Root(o, P).programs = P
  BY DEF Root, Programs
<1>2. \A k \in 1 .. Len(P) : Named(d, Base(d, o, k), P[k]) = P[k]
  BY <1>1 DEF Solid
<1>3. ASSUME NEW q \in Offers(d, o, P), NEW t \in Tables(d, Root(o, P))
      PROVE  ~Overlaps(t, Record(q.record))
  <2>1. PICK c \in Chosen(d, Root(o, P)) : q.record = c.record
    BY ChosenOffers
  <2>2. QED BY <2>1 DEF Solid
<1>4. QED BY <1>2, <1>3 DEF Firm

-----------------------------------------------------------------------------
(* The inventory                                                           *)

Searching == {"search", "section", "walk", "tables"}

\* The data is d but for records of the candidates edited since d was listed.
Differs(d) ==
    /\ data \in Data /\ Len(d) = Len(data)
    /\ edited \subseteq candidates
    /\ stage # "done" => edited = {}
    /\ edited = {} => d = data
    /\ \A x \in Nat : \/ U(d, x) = U(data, x)
                      \/ \E c \in edited : c.record <= x /\ x < c.record + (RecHead + Width)

\* Where the search is, and what it has checked of the candidate at hand.
Position(d) ==
    /\ \E n \in Nat : at = Align * n
    /\ seen \in Programs
    /\ stage \in {"section", "walk", "tables"} =>
           HasHead(d, at) /\ Len(seen) <= Count(d, at, 1) /\ SectionsHold(d, at, seen)
    /\ stage = "walk" =>
           /\ Len(seen) < Count(d, at, 1) /\ Taken(d, at, Len(seen) + 1)
           /\ sec = SectionOf(d, at, Len(seen) + 1)
           /\ phase \in {"called", "validating", "accepted", "rejected"}
    /\ stage = "tables" => Len(seen) = Count(d, at, 1)

IsRoot(d, r) == \E o \in Nat, P \in Programs : r = Root(o, P) /\ Whole(d, o, P)

\* The roots are whole, and the search has passed over no other.
Found(d) ==
    /\ \A r \in roots : IsRoot(d, r)
    /\ stage \in Searching =>
           /\ slots = <<>> /\ candidates = {} /\ solid = {}
           /\ \A o \in Nat, P \in Programs : Whole(d, o, P) /\ o < at => Root(o, P) \in roots

\* What a root has to offer is a candidate, or the root is still to come; and
\* nothing else is a candidate.
Listed(d) ==
    stage \notin Searching =>
        /\ \A o \in Nat, P \in Programs : Whole(d, o, P) =>
               \/ Root(o, P) \in roots
               \/ \A q \in Offers(d, o, P) : \E c \in candidates : q = Place(c)
        /\ \A c \in candidates : \E o \in Nat, P \in Programs :
               Whole(d, o, P) /\ Place(c) \in Offers(d, o, P)
        /\ \A o \in solid : o \in Nat /\ \E P \in Programs : Whole(d, o, P) /\ Firm(d, o, P)

\* Where the loop over the sections of the first root is.
Looping(d) ==
    /\ slots \in Programs
    /\ roots = {} => slots = <<>>
    /\ stage = "done" => roots = {}
    /\ stage \notin Searching =>
           \A r \in roots : First(r) =>
               /\ Len(slots) <= Len(r.programs)
               /\ \A k \in 1 .. Len(slots) : slots[k] = SlotsOf(d, r.offset, r.programs, k)
    /\ stage = "iterate" =>
           /\ phase \in {"accepted", "iterating", "iterated"}
           /\ \E r \in roots :
                  /\ First(r) /\ Len(slots) < Len(r.programs)
                  /\ sec = SectionOf(d, r.offset, Len(slots) + 1)
                  /\ visited = r.programs[Len(slots) + 1]
    /\ stage = "select" => \A r \in roots : First(r) => Len(slots) = Len(r.programs)

\* What must be found again is what one root of d has to offer.
KeptOf(d) ==
    \/ kept = {}
    \/ \E o \in Nat, P \in Programs : Whole(d, o, P) /\ kept = Offers(d, o, P)

Walking == Inductive /\ Walked

Steady(d) ==
    /\ Walking /\ Differs(d) /\ Position(d) /\ Found(d)
    /\ Listed(d) /\ Looping(d) /\ KeptOf(d)

InventoryInv == \E d \in Data : Steady(d)

LEMMA WalkStill ==
    ASSUME Walking, UNCHANGED vars
    PROVE  Walking'
BY InductiveStep DEF vars, Walking, Walked

LEMMA Multiples ==
    ASSUME NEW n \in Nat, NEW m \in Nat, Align * m < Align * n + Align
    PROVE  Align * m < Align * n \/ Align * m = Align * n
<1>1. CASE m = n
  BY <1>1
<1>2. CASE m < n
  <2>1. m <= n - 1 /\ Align \in Nat \ {0} /\ Align \in Nat
    BY <1>2, SizesFit
  <2>2. Align * m + Align <= Align * n /\ Align * m \in Nat
    BY <2>1, Multiply
  <2>3. Align * n \in Nat
    BY <2>1
  <2>4. QED BY <2>1, <2>2, <2>3
<1>3. CASE n < m
  <2>1. n <= m - 1 /\ Align \in Nat
    BY <1>3, SizesFit
  <2>2. Align * n + Align <= Align * m /\ Align * n \in Nat
    BY <2>1, Multiply
  <2>3. Align * m \in Nat
    BY <2>1
  <2>4. QED BY <2>1, <2>2, <2>3
<1>4. QED BY <1>1, <1>2, <1>3

LEMMA AtNat ==
    ASSUME NEW n \in Nat, NEW a, a = Align * n
    PROVE  a \in Nat /\ \E m \in Nat : a + Align = Align * m
<1>1. Align \in Nat
  BY SizesFit
<1>2. a \in Nat /\ a + Align = Align * (n + 1)
  BY <1>1
<1>3. QED BY <1>2

\* The search goes on: the root at hand, if it is one, is among the roots.
LEMMA GoesOn ==
    ASSUME NEW d \in Data, Steady(d), stage \in Searching, GoOn,
           Walking', UNCHANGED <<data, slots, candidates, edited, solid, kept>>,
           seen' \in Programs,
           roots \subseteq roots', \A r \in roots' : IsRoot(d, r),
           \A P \in Programs : Whole(d, at, P) => Root(at, P) \in roots'
    PROVE  Steady(d)'
<1>1. PICK n \in Nat : at = Align * n
  BY DEF Steady, Position
<1>2. at \in Nat /\ \E m \in Nat : at' = Align * m
  BY <1>1, AtNat DEF GoOn
<1>a. stage' = "search" /\ at' = at + Align
  BY DEF GoOn
<1>3. ASSUME NEW o \in Nat, NEW P \in Programs, Whole(d, o, P), o < at'
      PROVE  Root(o, P) \in roots'
  <2>1. PICK m \in Nat : o = Align * m
    BY <1>3 DEF Whole, HasHead
  <2>2. o < at \/ o = at
    BY <1>1, <1>3, <1>a, <2>1, Multiples
  <2>3. o < at => Root(o, P) \in roots
    BY <1>3 DEF Steady, Found
  <2>4. QED BY <1>3, <2>2, <2>3
<1>4. Differs(d)'
  BY <1>a DEF Steady, Differs, Searching
<1>5. Position(d)'
  BY <1>2, <1>a DEF Position
<1>6. Found(d)'
  BY <1>3, <1>a DEF Steady, Found, IsRoot
<1>7. Listed(d)' /\ Looping(d)' /\ KeptOf(d)'
  <2>1. slots' = <<>> /\ slots' \in Programs
    BY DEF Steady, Found, Looping
  <2>2. Listed(d)'
    BY <1>a DEF Listed, Searching
  <2>3. Looping(d)'
    BY <1>a, <2>1 DEF Looping, Searching
  <2>4. KeptOf(d)'
    BY DEF Steady, KeptOf
  <2>5. QED BY <2>2, <2>3, <2>4
<1>8. QED BY <1>4, <1>5, <1>6, <1>7 DEF Steady

\* The search stays with the root at hand.
LEMMA StaysOn ==
    ASSUME NEW d \in Data, Steady(d), stage \in Searching, stage' \in Searching,
           Walking', Position(d)',
           UNCHANGED <<data, at, roots, slots, candidates, edited, solid, kept>>
    PROVE  Steady(d)'
<1>1. Differs(d)'
  BY DEF Steady, Differs, Searching
<1>2. Found(d)'
  BY DEF Steady, Found, IsRoot
<1>3. Listed(d)'
  BY DEF Listed
<1>4. Looping(d)'
  <2>1. slots' = <<>> /\ slots' \in Programs
    BY DEF Steady, Found, Looping
  <2>2. QED BY <2>1 DEF Looping, Searching
<1>5. KeptOf(d)'
  BY DEF Steady, KeptOf
<1>6. QED BY <1>1, <1>2, <1>3, <1>4, <1>5 DEF Steady

\* Outside the search for edits, d is the data.
LEMMA SameData ==
    ASSUME NEW d \in Data, Steady(d), stage # "done"
    PROVE  d = data
BY DEF Steady, Differs

LEMMA TryKeeps ==
    ASSUME NEW d \in Data, Steady(d), Try
    PROVE  Steady(d)'
<1>1. /\ d = data /\ Walking' /\ stage = "search" /\ stage \in Searching
      /\ UNCHANGED <<vars, data, roots, slots, candidates, edits, edited, solid, kept>>
  BY SameData, WalkStill DEF Try, Steady, Searching
<1>2. PICK n \in Nat : at = Align * n
  BY DEF Steady, Position
<1>3. at \in Nat
  BY <1>2, AtNat
<1>4. CASE /\ at + RootHead < Len(data) /\ HeadHolds(data, at)
           /\ stage' = "section" /\ seen' = <<>> /\ at' = at
  <2>1. HasHead(d, at)
    BY <1>1, <1>2, <1>4 DEF HasHead
  <2>2. Count(d, at, 1) \in Nat
    BY <1>3, <2>1, RootType
  <2>3. seen' \in Programs /\ Len(seen') = 0 /\ Len(seen') <= Count(d, at, 1)
    BY <1>4, <2>2 DEF Programs
  <2>4. SectionsHold(d, at, seen')
    BY <2>3 DEF SectionsHold
  <2>5. Position(d)'
    BY <1>2, <1>4, <2>1, <2>3, <2>4 DEF Position
  <2>6. stage' \in Searching
    BY <1>4 DEF Searching
  <2>7. QED BY <1>1, <1>4, <2>5, <2>6, StaysOn
<1>5. CASE at + RootHead < Len(data) /\ ~HeadHolds(data, at) /\ GoOn /\ seen' = seen
  <2>1. \A P \in Programs : ~Whole(d, at, P)
    BY <1>1, <1>5 DEF Whole, HasHead
  <2>2. seen' \in Programs /\ \A r \in roots' : IsRoot(d, r)
    BY <1>1, <1>5 DEF Steady, Position, Found
  <2>3. QED BY <1>1, <1>5, <2>1, <2>2, GoesOn
<1>6. CASE at + RootHead >= Len(data) /\ stage' = "yield" /\ UNCHANGED <<at, seen>>
  <2>1. ASSUME NEW o \in Nat, NEW P \in Programs, Whole(d, o, P)
        PROVE  Root(o, P) \in roots'
    <3>1. o + RootHead < Len(d)
      BY <2>1 DEF Whole, HasHead
    <3>2. Len(d) \in Nat
      BY DEF Data
    <3>3. o < at
      BY <1>1, <1>3, <1>6, <3>1, <3>2, SizesFit
    <3>4. QED BY <1>1, <2>1, <3>3 DEF Steady, Found
  <2>2. slots' = <<>> /\ candidates' = {} /\ solid' = {} /\ slots' \in Programs
        /\ Len(slots') = 0
    BY <1>1 DEF Steady, Found, Looping
  <2>a. \A r \in roots' : Len(r.programs) \in Nat
    BY <1>1 DEF Steady, Found, IsRoot, Root, Programs
  <2>3. Differs(d)'
    BY <1>1, <1>6 DEF Steady, Differs
  <2>4. Position(d)'
    BY <1>6 DEF Steady, Position
  <2>5. Found(d)'
    BY <1>1, <1>6 DEF Steady, Found, IsRoot, Searching
  <2>6. Listed(d)'
    BY <2>1, <2>2 DEF Listed
  <2>7. Looping(d)'
    BY <1>6, <2>2, <2>a DEF Looping
  <2>8. KeptOf(d)'
    BY <1>1 DEF Steady, KeptOf
  <2>9. QED BY <1>1, <2>3, <2>4, <2>5, <2>6, <2>7, <2>8 DEF Steady
<1>7. QED BY <1>4, <1>5, <1>6 DEF Try

LEMMA TakeSectionKeeps ==
    ASSUME NEW d \in Data, Steady(d), TakeSection
    PROVE  Steady(d)'
<1> DEFINE k == Len(seen) + 1
           rel == Relative(data, at, k)
           sound == rel >= RootHead /\ rel % Align = 0 /\ Fits(data, at + rel)
<1>1. /\ d = data /\ stage = "section" /\ stage \in Searching /\ Walking
      /\ UNCHANGED <<data, seen, roots, slots, candidates, edits, edited, solid, kept>>
  BY SameData DEF TakeSection, Steady, Searching
<1>2. PICK n \in Nat : at = Align * n
  BY DEF Steady, Position
<1>3. /\ HasHead(d, at) /\ Len(seen) <= Count(d, at, 1) /\ SectionsHold(d, at, seen)
      /\ seen \in Programs /\ Len(seen) \in Nat
      /\ k \in Nat /\ k >= 1 /\ at \in Nat /\ Count(d, at, 1) \in Nat
  <2>1. HasHead(d, at) /\ Len(seen) <= Count(d, at, 1) /\ SectionsHold(d, at, seen)
        /\ seen \in Programs
    BY <1>1 DEF Steady, Position
  <2>2. at \in Nat
    BY <1>2, AtNat
  <2>3. Count(d, at, 1) \in Nat
    BY <2>1, <2>2, RootType
  <2>4. QED BY <2>1, <2>2, <2>3 DEF Programs
<1>4. sound <=> Taken(d, at, k)
  BY <1>1 DEF Taken
<1>5. CASE /\ k <= Count(data, at, 1) /\ sound
           /\ Begin(at + rel, "called", {}) /\ stage' = "walk" /\ at' = at
  <2>1. at + rel = Base(d, at, k) /\ Base(d, at, k) \in Nat
    BY <1>1, <1>3, BaseType DEF Base
  <2>2. IsSection(SectionAt(data, at + rel))
    BY <1>1, <2>1, SectionAtType
  <2>3. Walking'
    BY <1>5, <2>2, CalledWalks DEF Walking
  <2>4. sec' = SectionOf(d, at, k) /\ phase' = "called"
    BY <1>1, <1>5, <2>1 DEF Begin, SectionOf
  <2>5. Len(seen) < Count(d, at, 1)
    BY <1>1, <1>3, <1>5
  <2>6. Position(d)'
    <3> HIDE DEF rel, sound
    <3>1. QED BY <1>1, <1>2, <1>3, <1>4, <1>5, <2>4, <2>5 DEF Position
  <2>7. stage' \in Searching
    BY <1>5 DEF Searching
  <2>8. QED BY <1>1, <1>5, <2>3, <2>6, <2>7, StaysOn
<1>6. CASE k <= Count(data, at, 1) /\ ~sound /\ GoOn /\ UNCHANGED vars
  <2>1. \A P \in Programs : ~Whole(d, at, P)
    <3> HIDE DEF rel, sound
    <3>1. QED BY <1>1, <1>3, <1>4, <1>6 DEF Whole, SectionsHold
  <2>2. seen' \in Programs /\ \A r \in roots' : IsRoot(d, r)
    BY <1>1 DEF Steady, Position, Found
  <2>3. Walking'
    BY <1>1, <1>6, WalkStill
  <2>4. QED BY <1>1, <1>6, <2>1, <2>2, <2>3, GoesOn
<1>7. CASE k > Count(data, at, 1) /\ stage' = "tables" /\ UNCHANGED <<vars, at>>
  <2>1. Len(seen) = Count(d, at, 1)
    BY <1>1, <1>3, <1>7
  <2>2. Position(d)'
    BY <1>1, <1>2, <1>3, <1>7, <2>1 DEF Position
  <2>3. Walking' /\ stage' \in Searching
    BY <1>1, <1>7, WalkStill DEF Searching
  <2>4. QED BY <1>1, <1>7, <2>2, <2>3, StaysOn
<1>8. QED BY <1>5, <1>6, <1>7 DEF TakeSection

\* A step of the validator, in the search.
LEMMA ValidatorKeeps ==
    ASSUME NEW d \in Data, Steady(d), EnterSection \/ ValidateProgram
    PROVE  Steady(d)'
<1>1. /\ stage = "walk" /\ stage \in Searching /\ stage' \in Searching
      /\ (Enter \/ Validate) /\ UNCHANGED search
  BY DEF EnterSection, ValidateProgram, Searching, search
<1>2. Walking' /\ sec' = sec
  BY <1>1, WalkStep DEF Steady, Walking, Next
<1>3. phase' \in {"validating", "accepted", "rejected"}
  BY <1>1 DEF Enter, Validate, Verdict
<1>4. Position(d)'
  BY <1>1, <1>2, <1>3 DEF Steady, Position, search
<1>5. QED BY <1>1, <1>2, <1>4, StaysOn DEF search

LEMMA JudgeKeeps ==
    ASSUME NEW d \in Data, Steady(d), Judge
    PROVE  Steady(d)'
<1> DEFINE k == Len(seen) + 1
<1>1. /\ d = data /\ stage = "walk" /\ stage \in Searching /\ Walking /\ Walking'
      /\ UNCHANGED <<vars, data, roots, slots, candidates, edits, edited, solid, kept>>
  BY SameData, WalkStill DEF Judge, Steady, Searching
<1>2. PICK n \in Nat : at = Align * n
  BY DEF Steady, Position
<1>3. /\ HasHead(d, at) /\ SectionsHold(d, at, seen) /\ seen \in Programs
      /\ Len(seen) < Count(d, at, 1) /\ Taken(d, at, k) /\ sec = SectionOf(d, at, k)
      /\ Len(seen) \in Nat
  BY <1>1 DEF Steady, Position, Programs
<1>4. at \in Nat /\ Count(d, at, 1) \in Nat
  BY <1>2, <1>3, AtNat, RootType
<1>5. CASE /\ phase = "accepted" /\ seen' = Append(seen, visited)
           /\ stage' = "section" /\ at' = at
  <2>1. Accepted(SectionOf(d, at, k), visited) /\ visited \in SUBSET Nat
    BY <1>1, <1>3, <1>5, VisitedAccepted DEF Walking, Inductive, TypeOK
  <2>2. seen' \in Programs /\ Len(seen') = k
        /\ \A i \in 1 .. Len(seen) : seen'[i] = seen[i]
    BY <1>3, <1>5, <2>1 DEF Programs
  <2>a. visited = seen'[k]
    BY <1>3, <1>5, <2>1 DEF Programs
  <2>3. ASSUME NEW i \in 1 .. Len(seen')
        PROVE  Taken(d, at, i) /\ Accepted(SectionOf(d, at, i), seen'[i])
    <3>a. Taken(d, at, k) /\ Accepted(SectionOf(d, at, k), seen'[k])
      <4>1. Taken(d, at, k)
        BY <1>3
      <4>2. Accepted(SectionOf(d, at, k), visited)
        BY <2>1
      <4> HIDE DEF k
      <4>3. QED BY <2>a, <4>1, <4>2, Zenon
    <3>1. CASE i = k
      <4> HIDE DEF k
      <4>1. QED BY <3>1, <3>a
    <3>2. CASE i \in 1 .. Len(seen)
      BY <1>3, <2>2, <3>2 DEF SectionsHold
    <3>3. i = k \/ i \in 1 .. Len(seen)
      BY <1>3, <2>2
    <3>4. QED BY <3>1, <3>2, <3>3
  <2>4. SectionsHold(d, at, seen')
    BY <2>3 DEF SectionsHold
  <2>5. Len(seen') <= Count(d, at, 1)
    BY <1>3, <1>4, <2>2
  <2>6. Position(d)'
    BY <1>2, <1>3, <1>5, <2>2, <2>4, <2>5 DEF Position
  <2>7. stage' \in Searching
    BY <1>5 DEF Searching
  <2>8. QED BY <1>1, <1>5, <2>6, <2>7, StaysOn
<1>6. CASE phase = "rejected" /\ GoOn /\ seen' = seen
  <2>1. ASSUME NEW P \in Programs, Whole(d, at, P)
        PROVE  FALSE
    <3>1. k \in 1 .. Len(P) /\ P[k] \in SUBSET Nat
      BY <1>3, <1>4, <2>1 DEF Whole, Programs
    <3>2. Accepted(sec, P[k])
      BY <1>3, <2>1, <3>1 DEF Whole, SectionsHold
    <3>3. QED BY <1>1, <1>6, <3>1, <3>2 DEF Walking, Walked
  <2>2. seen' \in Programs /\ \A r \in roots' : IsRoot(d, r)
    BY <1>1, <1>3, <1>6 DEF Steady, Found
  <2>3. QED BY <1>1, <1>6, <2>1, <2>2, GoesOn
<1>7. QED BY <1>5, <1>6 DEF Judge

LEMMA CheckTablesKeeps ==
    ASSUME NEW d \in Data, Steady(d), CheckTables
    PROVE  Steady(d)'
<1>1. /\ d = data /\ stage = "tables" /\ stage \in Searching /\ Walking' /\ GoOn
      /\ UNCHANGED <<vars, data, seen, slots, candidates, edits, edited, solid, kept>>
      /\ roots' = IF AuxiliaryHolds(d, at) THEN roots \cup {Root(at, seen)} ELSE roots
  BY SameData, WalkStill DEF CheckTables, Steady, Searching
<1>2. PICK n \in Nat : at = Align * n
  BY DEF Steady, Position
<1>3. /\ HasHead(d, at) /\ SectionsHold(d, at, seen) /\ seen \in Programs
      /\ Len(seen) = Count(d, at, 1) /\ at \in Nat
  BY <1>1, <1>2, AtNat DEF Steady, Position
<1>4. \A r \in roots' : IsRoot(d, r)
  <2>1. AuxiliaryHolds(d, at) => IsRoot(d, Root(at, seen))
    BY <1>3 DEF IsRoot, Whole
  <2>2. QED BY <1>1, <2>1 DEF Steady, Found
<1>5. ASSUME NEW P \in Programs, Whole(d, at, P)
      PROVE  Root(at, P) \in roots'
  <2>1. P = seen
    BY <1>3, <1>5, WholeUnique DEF Whole
  <2>2. QED BY <1>1, <1>5, <2>1 DEF Whole
<1>6. QED BY <1>1, <1>3, <1>4, <1>5, GoesOn

LEMMA FirstIs ==
    ASSUME NEW d \in Data, Found(d), NEW r \in roots, First(r)
    PROVE  /\ \E o \in Nat, P \in Programs : r = Root(o, P) /\ Whole(d, o, P)
           /\ \A q \in roots : First(q) => q = r
<1>1. PICK o \in Nat, P \in Programs : r = Root(o, P) /\ Whole(d, o, P)
  BY DEF Found, IsRoot
<1>2. ASSUME NEW q \in roots, First(q)
      PROVE  q = r
  <2>1. PICK a \in Nat, Q \in Programs : q = Root(a, Q) /\ Whole(d, a, Q)
    BY DEF Found, IsRoot
  <2>2. r.offset = o /\ q.offset = a
    BY <1>1, <2>1 DEF Root
  <2>3. o <= a /\ a <= o
    BY <1>2, <2>2 DEF First
  <2>4. a = o
    BY <2>3
  <2>5. Q = P
    BY <1>1, <2>1, <2>4, WholeUnique DEF Whole
  <2>6. QED BY <1>1, <2>1, <2>4, <2>5
<1>3. QED BY <1>1, <1>2

\* A step after the search that changes neither the data, the roots nor the
\* candidates.
LEMMA StaysListed ==
    ASSUME NEW d \in Data, Steady(d), stage \notin Searching, stage' \notin Searching,
           stage # "done", Walking', Looping(d)',
           UNCHANGED <<data, at, seen, roots, candidates, edited, solid, kept>>
    PROVE  Steady(d)'
<1>1. Differs(d)'
  BY DEF Steady, Differs
<1>2. Position(d)'
  <2>1. stage' \notin {"section", "walk", "tables"}
    BY DEF Searching
  <2>2. QED BY <2>1 DEF Steady, Position
<1>3. Found(d)' /\ Listed(d)'
  BY DEF Steady, Found, Listed, IsRoot
<1>4. KeptOf(d)'
  BY DEF Steady, KeptOf
<1>5. QED BY <1>1, <1>2, <1>3, <1>4 DEF Steady

LEMMA YieldSectionKeeps ==
    ASSUME NEW d \in Data, Steady(d), YieldSection
    PROVE  Steady(d)'
<1> DEFINE k == Len(slots) + 1
<1>1. /\ d = data /\ stage = "yield" /\ stage \notin Searching /\ stage # "done"
      /\ Walking /\ Found(d) /\ Looping(d)
      /\ UNCHANGED <<data, at, seen, roots, slots, candidates, edits, edited, solid, kept>>
  BY SameData DEF YieldSection, Steady, Searching
<1>2. slots \in Programs /\ Len(slots) \in Nat
  BY <1>1 DEF Looping, Programs
<1>3. CASE roots = {} /\ stage' = "done" /\ UNCHANGED vars
  <2>1. Walking' /\ stage' \notin Searching
    BY <1>1, <1>3, WalkStill DEF Searching
  <2>2. Looping(d)'
    BY <1>1, <1>3 DEF Looping
  <2>3. QED BY <1>1, <2>1, <2>2, StaysListed
<1>4. ASSUME NEW r \in roots, First(r), k <= Len(r.programs),
             Begin(Base(data, r.offset, k), "accepted", r.programs[k]),
             stage' = "iterate"
      PROVE  Steady(d)'
  <2>1. PICK o \in Nat, P \in Programs : r = Root(o, P) /\ Whole(d, o, P)
    BY <1>1, <1>4, FirstIs
  <2>2. r.offset = o /\ r.programs = P
    BY <2>1 DEF Root
  <2>3. k \in 1 .. Len(P) /\ k \in Nat /\ k >= 1
    BY <1>2, <1>4, <2>2 DEF Programs
  <2>4. HasHead(d, o) /\ Accepted(SectionOf(d, o, k), P[k])
    BY <2>1, <2>3 DEF Whole, SectionsHold
  <2>5. IsSection(SectionOf(d, o, k))
    BY <2>3, <2>4, BaseType, SectionAtType DEF SectionOf
  <2>6. Begin(Base(data, o, k), "accepted", P[k])
        /\ SectionOf(d, o, k) = SectionAt(data, Base(data, o, k))
    BY <1>1, <1>4, <2>2 DEF SectionOf
  <2>7. Walking'
    BY <2>4, <2>5, <2>6, AcceptedWalks DEF Walking
  <2>8. sec' = SectionOf(d, o, k) /\ visited' = P[k] /\ phase' = "accepted"
    BY <2>6 DEF Begin
  <2>9. Looping(d)'
    <3>1. Len(slots') < Len(r.programs)
      BY <1>1, <1>2, <2>2, <2>3
    <3>2. \E q \in roots' : /\ First(q)' /\ Len(slots') < Len(q.programs)
                            /\ sec' = SectionOf(d, q.offset, Len(slots') + 1)
                            /\ visited' = q.programs[Len(slots') + 1]
      BY <1>1, <1>4, <2>2, <2>8, <3>1 DEF First
    <3>3. \A q \in roots' : First(q)' <=> First(q)
      BY <1>1 DEF First
    <3>4. stage \notin Searching /\ stage' = "iterate"
      BY <1>1, <1>4
    <3>5. QED BY <1>1, <2>8, <3>2, <3>3, <3>4 DEF Looping
  <2>10. stage' \notin Searching
    BY <1>4 DEF Searching
  <2>11. QED BY <1>1, <2>7, <2>9, <2>10, StaysListed
<1>5. ASSUME NEW r \in roots, First(r), k > Len(r.programs),
             stage' = "select", UNCHANGED vars
      PROVE  Steady(d)'
  <2>1. PICK o \in Nat, P \in Programs : r = Root(o, P) /\ Whole(d, o, P)
    BY <1>1, <1>5, FirstIs
  <2>2. r.programs = P /\ Len(P) \in Nat
    BY <2>1 DEF Root, Programs
  <2>3. Len(slots) <= Len(r.programs)
    BY <1>1, <1>5 DEF Looping
  <2>4. Len(slots) = Len(r.programs)
    BY <1>2, <1>5, <2>2, <2>3
  <2>5. \A q \in roots : First(q) => Len(slots) = Len(q.programs)
    BY <1>1, <1>5, <2>4, FirstIs
  <2>6. \A q \in roots' : First(q)' <=> First(q)
    BY <1>1 DEF First
  <2>7. Looping(d)'
    BY <1>1, <1>5, <2>5, <2>6 DEF Looping
  <2>8. Walking' /\ stage' \notin Searching
    BY <1>1, <1>5, WalkStill DEF Searching
  <2>9. QED BY <1>1, <2>7, <2>8, StaysListed
<1>6. QED BY <1>3, <1>4, <1>5 DEF YieldSection

\* A step of the iterator.
LEMMA IteratorKeeps ==
    ASSUME NEW d \in Data, Steady(d), IterateSection \/ YieldProgram
    PROVE  Steady(d)'
<1>1. /\ stage = "iterate" /\ stage \notin Searching /\ stage' = stage
      /\ (Iterate \/ YieldSlots) /\ UNCHANGED search
  BY DEF IterateSection, YieldProgram, Searching, search
<1>2. Walking' /\ sec' = sec
  BY <1>1, WalkStep DEF Steady, Walking, Next
<1>3. visited' = visited /\ phase' \in {"iterating", "iterated", "astray"}
  BY <1>1 DEF Iterate, YieldSlots
<1>4. phase' # "astray"
  BY <1>2 DEF Walking, Inductive, Progress
<1>5. \A q \in roots' : First(q)' <=> First(q)
  BY <1>1 DEF First, search
<1>6. Looping(d)'
  BY <1>1, <1>2, <1>3, <1>4, <1>5 DEF Steady, Looping, search
<1>7. QED BY <1>1, <1>2, <1>6, StaysListed DEF search

LEMMA EndSectionKeeps ==
    ASSUME NEW d \in Data, Steady(d), EndSection
    PROVE  Steady(d)'
<1> DEFINE k == Len(slots) + 1
<1>1. /\ stage = "iterate" /\ stage \notin Searching /\ stage # "done"
      /\ phase = "iterated" /\ Walking /\ Found(d) /\ Looping(d)
      /\ slots' = Append(slots, yielded) /\ stage' = "yield"
      /\ UNCHANGED <<vars, data, at, seen, roots, candidates, edits, edited, solid, kept>>
  BY DEF EndSection, Steady, Searching
<1>2. PICK r \in roots : /\ First(r) /\ Len(slots) < Len(r.programs)
                         /\ sec = SectionOf(d, r.offset, k) /\ visited = r.programs[k]
  BY <1>1 DEF Looping
<1>3. PICK o \in Nat, P \in Programs : r = Root(o, P) /\ Whole(d, o, P)
  BY <1>1, <1>2, FirstIs
<1>4. r.offset = o /\ r.programs = P /\ Len(P) \in Nat
  BY <1>3 DEF Root, Programs
<1>5. yielded = SlotsOf(d, o, P, k) /\ yielded \in SUBSET Nat
  BY <1>1, <1>2, <1>4 DEF Walking, Inductive, Progress, TypeOK, SlotsOf
<1>6. slots \in Programs /\ Len(slots) \in Nat
      /\ \A i \in 1 .. Len(slots) : slots[i] = SlotsOf(d, o, P, i)
  BY <1>1, <1>2, <1>4 DEF Looping, Programs
<1>7. slots' \in Programs /\ Len(slots') = k /\ slots'[k] = yielded
      /\ \A i \in 1 .. Len(slots) : slots'[i] = slots[i]
  BY <1>1, <1>5, <1>6 DEF Programs
<1>8. ASSUME NEW i \in 1 .. Len(slots')
      PROVE  slots'[i] = SlotsOf(d, o, P, i)
  <2>1. i \in 1 .. Len(slots) \/ i = k
    BY <1>6, <1>7
  <2>2. slots'[k] = SlotsOf(d, o, P, k)
    BY <1>5, <1>7
  <2> HIDE DEF k
  <2>3. QED BY <1>6, <1>7, <2>1, <2>2
<1>9. Len(slots') <= Len(r.programs)
  BY <1>2, <1>4, <1>6, <1>7
<1>10. ASSUME NEW q \in roots', First(q)'
       PROVE  /\ Len(slots') <= Len(q.programs)
              /\ \A i \in 1 .. Len(slots') : slots'[i] = SlotsOf(d, q.offset, q.programs, i)
  <2>1. q \in roots /\ First(q)
    BY <1>1, <1>10 DEF First
  <2>2. q = r
    BY <1>1, <1>2, <2>1, FirstIs
  <2>3. QED BY <1>4, <1>8, <1>9, <2>2
<1>11. Looping(d)'
  BY <1>1, <1>2, <1>7, <1>10 DEF Looping
<1>12. Walking' /\ stage' \notin Searching
  BY <1>1, WalkStill DEF Searching
<1>13. QED BY <1>1, <1>11, <1>12, StaysListed

LEMMA SelectKeeps ==
    ASSUME NEW d \in Data, Steady(d), Select
    PROVE  Steady(d)'
<1>1. /\ d = data /\ stage = "select" /\ stage \notin Searching /\ stage # "done"
      /\ Walking /\ Found(d) /\ Looping(d) /\ Listed(d)
      /\ slots' = <<>> /\ stage' = "yield" /\ stage' \notin Searching
      /\ UNCHANGED <<vars, data, at, seen, edits, edited, kept>>
  BY SameData DEF Select, Steady, Searching
<1>2. PICK r \in roots :
          /\ First(r)
          /\ candidates' = candidates \cup Chosen(data, r)
          /\ solid' = IF Solid(data, r) THEN solid \cup {r.offset} ELSE solid
          /\ roots' = roots \ {r}
  BY DEF Select
<1>3. PICK o \in Nat, P \in Programs : r = Root(o, P) /\ Whole(d, o, P)
  BY <1>1, <1>2, FirstIs
<1>4. r.offset = o /\ r.programs = P
  BY <1>3 DEF Root
<1>5. AllSlots(d, o, P)
  BY <1>1, <1>2, <1>4 DEF Looping, AllSlots
<1>6. Walking'
  BY <1>1, WalkStill DEF Steady
<1>7. Differs(d)'
  BY <1>1, <1>2 DEF Steady, Differs
<1>8. Position(d)'
  <2>1. stage' \notin {"section", "walk", "tables"}
    BY <1>1
  <2>2. QED BY <1>1, <2>1 DEF Steady, Position
<1>9. Found(d)'
  BY <1>1, <1>2 DEF Found, IsRoot
<1>10. Listed(d)'
  <2>1. ASSUME NEW a \in Nat, NEW Q \in Programs, Whole(d, a, Q)
        PROVE  \/ Root(a, Q) \in roots'
               \/ \A q \in Offers(d, a, Q) : \E c \in candidates' : q = Place(c)
    <3>1. CASE Root(a, Q) = r
      <4>1. a = o /\ Q = P
        BY <1>3, <3>1 DEF Root
      <4>2. \A q \in Offers(d, o, P) : \E c \in Chosen(data, r) : q = Place(c)
        BY <1>1, <1>3, <1>5, ChosenOffers
      <4>3. QED BY <1>2, <4>1, <4>2
    <3>2. CASE Root(a, Q) \in roots /\ Root(a, Q) # r
      BY <1>2, <3>2
    <3>3. CASE \A q \in Offers(d, a, Q) : \E c \in candidates : q = Place(c)
      BY <1>2, <3>3
    <3>4. QED BY <1>1, <2>1, <3>1, <3>2, <3>3 DEF Listed
  <2>2. ASSUME NEW c \in candidates'
        PROVE  \E a \in Nat, Q \in Programs : Whole(d, a, Q) /\ Place(c) \in Offers(d, a, Q)
    <3>1. CASE c \in candidates
      BY <1>1, <3>1 DEF Listed
    <3>2. CASE c \in Chosen(data, r)
      BY <1>1, <1>3, <1>5, <3>2, ChosenOffers
    <3>3. QED BY <1>2, <3>1, <3>2
  <2>3. ASSUME NEW a \in solid'
        PROVE  a \in Nat /\ \E Q \in Programs : Whole(d, a, Q) /\ Firm(d, a, Q)
    <3>1. CASE a \in solid
      BY <1>1, <3>1 DEF Listed
    <3>2. CASE a = o /\ Solid(d, r)
      BY <1>3, <1>5, <3>2, SolidFirm
    <3>3. QED BY <1>1, <1>2, <1>4, <3>1, <3>2
  <2>4. QED BY <2>1, <2>2, <2>3 DEF Listed
<1>11. Looping(d)'
  <2>1. slots' \in Programs /\ Len(slots') = 0
    BY <1>1 DEF Programs
  <2>2. \A q \in roots' : Len(q.programs) \in Nat
    BY <1>9 DEF Found, IsRoot, Root, Programs
  <2>3. QED BY <1>1, <2>1, <2>2 DEF Looping
<1>12. KeptOf(d)'
  BY <1>1 DEF Steady, KeptOf
<1>13. QED BY <1>6, <1>7, <1>8, <1>9, <1>10, <1>11, <1>12 DEF Steady

\* The candidates of a root that is not to come are what it has to offer.
LEMMA CandidatesOf ==
    ASSUME NEW d \in Data, Listed(d), stage \notin Searching, roots = {},
           NEW o \in Nat, NEW P \in Programs, Whole(d, o, P)
    PROVE  /\ \A c \in candidates : c.root = o => Place(c) \in Offers(d, o, P)
           /\ \A q \in Offers(d, o, P) : q.root = o /\ \E c \in candidates :
                  q = Place(c) /\ c.root = o
<1>1. ASSUME NEW c \in candidates, c.root = o
      PROVE  Place(c) \in Offers(d, o, P)
  <2>1. PICK a \in Nat, Q \in Programs : Whole(d, a, Q) /\ Place(c) \in Offers(d, a, Q)
    BY DEF Listed
  <2>2. Place(c).root = a
    BY <2>1, OfferType DEF Whole
  <2>3. a = o
    BY <1>1, <2>2 DEF Place
  <2>4. Q = P
    BY <2>1, <2>3, WholeUnique DEF Whole
  <2>5. QED BY <2>1, <2>3, <2>4
<1>2. ASSUME NEW q \in Offers(d, o, P)
      PROVE  q.root = o /\ \E c \in candidates : q = Place(c) /\ c.root = o
  <2>1. q.root = o
    BY OfferType DEF Whole
  <2>2. PICK c \in candidates : q = Place(c)
    BY DEF Listed
  <2>3. c.root = o
    BY <2>1, <2>2 DEF Place
  <2>4. QED BY <2>1, <2>2, <2>3
<1>3. QED BY <1>1, <1>2

LEMMA EditKeeps ==
    ASSUME NEW d \in Data, Steady(d), Edit
    PROVE  Steady(d)'
<1>1. /\ stage = "done" /\ Walking /\ Differs(d) /\ data \in Data
      /\ UNCHANGED <<vars, stage, at, seen, roots, slots, candidates, solid, kept>>
  BY DEF Edit, Steady, Differs
<1>2. PICK c \in candidates, new \in [Window -> Written] :
          /\ data' = [i \in DOMAIN data |->
                         LET w == i - 1 - c.record - RecHead
                         IN  IF w \in Window THEN new[w] ELSE data[i]]
          /\ edited' = edited \cup {c}
  BY DEF Edit
<1>3. c.record \in Nat
  <2>1. stage \notin Searching
    BY <1>1 DEF Searching
  <2>2. PICK o \in Nat, P \in Programs : Whole(d, o, P) /\ Place(c) \in Offers(d, o, P)
    BY <2>1 DEF Steady, Listed
  <2>3. Place(c).record \in Nat
    BY <2>2, OfferType DEF Whole
  <2>4. QED BY <2>3 DEF Place
<1>4. data \in Data
  BY <1>1
<1>a. /\ DOMAIN data = 1 .. Len(data) /\ Len(data) \in Nat
      /\ \A i \in 1 .. Len(data) : data[i] \in Cell
  BY <1>4 DEF Data
<1> DEFINE W(i) == i - 1 - c.record - RecHead
<1>b. data' = [i \in 1 .. Len(data) |-> IF W(i) \in Window THEN new[W(i)] ELSE data[i]]
  BY <1>2, <1>a
<1>c. \A w \in Window : new[w] \in Cell
  BY CandidatesAssumption DEF Cell
<1>5. data' \in Data /\ Len(data') = Len(data)
  <2>1. data' \in [1 .. Len(data) -> Cell]
    <3> HIDE DEF W
    <3>1. QED BY <1>a, <1>b, <1>c
  <2>2. data' \in Seq(Cell)
    BY <1>a, <2>1
  <2>3. DOMAIN data' = 1 .. Len(data)
    BY <2>1
  <2>4. Len(data') = Len(data)
    BY <1>a, <2>2, <2>3
  <2>5. QED BY <2>2, <2>4 DEF Data
<1>6. ASSUME NEW x \in Nat, U(data, x) # U(data', x)
      PROVE  c.record <= x /\ x < c.record + (RecHead + Width)
  <2>1. x < Len(data) /\ data'[x + 1] # data[x + 1]
    BY <1>5, <1>6 DEF U
  <2>a. x + 1 \in 1 .. Len(data)
    BY <1>a, <2>1
  <2>2. W(x + 1) \in Window
    <3> HIDE DEF W
    <3>1. QED BY <1>b, <2>1, <2>a
  <2>3. /\ OperandOffset \in Nat /\ OperandWidth \in Nat /\ RecHead \in Nat /\ Width \in Nat
        /\ OperandOffset + OperandWidth <= Width
    BY CandidatesAssumption DEF SpecHolds
  <2>4. /\ OperandOffset <= x + 1 - 1 - c.record - RecHead
        /\ x + 1 - 1 - c.record - RecHead <= OperandOffset + OperandWidth - 1
    BY <1>3, <2>2, <2>3 DEF Window
  <2>5. QED BY <1>3, <2>3, <2>4
<1>7. Differs(d)'
  <2>1. ASSUME NEW x \in Nat
        PROVE  \/ U(d, x) = U(data', x)
               \/ \E e \in edited' : e.record <= x /\ x < e.record + (RecHead + Width)
    <3>1. CASE U(data, x) = U(data', x)
      BY <1>1, <1>2, <3>1 DEF Differs
    <3>2. CASE U(data, x) # U(data', x)
      BY <1>2, <1>6, <3>2
    <3>3. QED BY <3>1, <3>2
  <2>2. edited' \subseteq candidates' /\ edited' # {}
    BY <1>1, <1>2 DEF Differs
  <2>3. Len(d) = Len(data)
    BY <1>1 DEF Differs
  <2>4. QED BY <1>1, <1>5, <2>1, <2>2, <2>3 DEF Differs
<1>8. Walking'
  BY <1>1, WalkStill
<1>9. Position(d)'
  BY <1>1 DEF Steady, Position, vars
<1>10. Found(d)' /\ Listed(d)' /\ KeptOf(d)'
  BY <1>1 DEF Steady, Found, Listed, KeptOf, IsRoot
<1>11. Looping(d)'
  BY <1>1 DEF Steady, Looping, First, vars
<1>12. QED BY <1>7, <1>8, <1>9, <1>10, <1>11 DEF Steady

\* What Again keeps is what one root offers, and offers still.
LEMMA KeptStill ==
    ASSUME NEW d \in Data, Steady(d), Again
    PROVE  KeptOf(data)'
<1>1. /\ stage = "done" /\ stage \notin Searching /\ roots = {} /\ Listed(d) /\ Differs(d)
      /\ edited # {} /\ data' = data /\ data \in Data
  BY DEF Again, Steady, Looping, Searching, Differs
<1>2. kept' = {Place(c) : c \in {c \in candidates :
                  c.root \in solid /\ \A e \in edited : e.root = c.root}}
  BY DEF Again
<1> DEFINE Stays(c) == c.root \in solid /\ \A e \in edited : e.root = c.root
<1>3. CASE \A c \in candidates : ~Stays(c)
  <2>1. kept' = {}
    BY <1>2, <1>3
  <2>2. QED BY <2>1 DEF KeptOf
<1>4. ASSUME NEW a \in candidates, Stays(a)
      PROVE  KeptOf(data)'
  <2> DEFINE o == a.root
  <2>1. o \in Nat /\ \A e \in edited : e.root = o
    BY <1>1, <1>4 DEF Listed
  <2>2. PICK P \in Programs : Whole(d, o, P) /\ Firm(d, o, P)
    BY <1>1, <1>4 DEF Listed
  <2>3. \A c \in candidates : Stays(c) <=> c.root = o
    BY <1>1, <1>4, <2>1
  <2> HIDE DEF o
  <2>4. /\ \A c \in candidates : c.root = o => Place(c) \in Offers(d, o, P)
        /\ \A q \in Offers(d, o, P) : \E c \in candidates : q = Place(c) /\ c.root = o
    BY <1>1, <2>1, <2>2, CandidatesOf
  <2>5. kept' = Offers(d, o, P)
    <3> DEFINE K == {c \in candidates : Stays(c)}
    <3>1. \A c : c \in K <=> c \in candidates /\ c.root = o
      BY <2>3
    <3>2. kept' = {Place(c) : c \in K}
      BY <1>2
    <3> HIDE DEF K
    <3>3. QED BY <2>4, <3>1, <3>2
  <2>6. Framed(d, data, o, P)
    <3>1. ASSUME NEW x \in Nat, U(d, x) # U(data, x)
          PROVE  \E q \in Offers(d, o, P) : q.record <= x /\ x < q.record + (RecHead + Width)
      <4>1. PICK c \in edited : c.record <= x /\ x < c.record + (RecHead + Width)
        BY <1>1, <3>1 DEF Differs
      <4>2. Place(c) \in Offers(d, o, P) /\ Place(c).record = c.record
        BY <1>1, <2>1, <2>4, <4>1 DEF Differs, Place
      <4>3. QED BY <4>1, <4>2
    <3>2. Len(d) = Len(data) /\ HasHead(d, o) /\ SectionsHold(d, o, P)
      BY <1>1, <2>2 DEF Differs, Whole
    <3>3. QED BY <1>1, <2>1, <2>2, <3>1, <3>2, OffersFrame
  <2>7. Whole(data, o, P) /\ Offers(data, o, P) = Offers(d, o, P)
    BY <1>1, <2>1, <2>2, <2>6, FrameWhole
  <2>8. QED BY <1>1, <2>1, <2>5, <2>7 DEF KeptOf
<1>5. QED BY <1>3, <1>4

LEMMA AgainKeeps ==
    ASSUME NEW d \in Data, Steady(d), Again, NEW e \in Data, e = data
    PROVE  Steady(e)'
<1>1. /\ stage = "done" /\ roots = {} /\ slots = <<>> /\ slots \in Programs /\ seen \in Programs
      /\ stage' = "search" /\ at' = 0 /\ candidates' = {} /\ edited' = {} /\ solid' = {}
      /\ UNCHANGED <<vars, data, seen, roots, slots, edits>>
  BY DEF Again, Steady, Looping, Position
<1>2. Walking'
  BY <1>1, WalkStill DEF Steady
<1>3. Differs(e)'
  BY <1>1 DEF Differs
<1>4. Position(e)'
  <2>1. at' = Align * 0 /\ 0 \in Nat
    BY <1>1, SizesFit
  <2>2. QED BY <1>1, <2>1 DEF Position
<1>5. Found(e)'
  <2>1. \A o \in Nat : ~(o < at')
    BY <1>1
  <2>2. QED BY <1>1, <2>1 DEF Found
<1>6. Listed(e)'
  BY <1>1 DEF Listed, Searching
<1>7. Looping(e)'
  BY <1>1 DEF Looping, Searching
<1>8. KeptOf(e)'
  BY <1>1, KeptStill DEF KeptOf
<1>9. QED BY <1>2, <1>3, <1>4, <1>5, <1>6, <1>7, <1>8 DEF Steady

LEMMA InventoryBegins ==
    ASSUME InventoryInit
    PROVE  InventoryInv
<1>1. data \in Data
  BY CandidatesAssumption DEF InventoryInit, Data, Cell
<1>2. /\ stage = "search" /\ at = 0 /\ seen = <<>> /\ roots = {} /\ slots = <<>>
      /\ candidates = {} /\ edited = {} /\ solid = {} /\ kept = {}
  BY DEF InventoryInit
<1>3. seen \in Programs /\ slots \in Programs
  BY <1>2 DEF Programs
<1>4. Inductive
  <2>1. IsSection(sec)
    <3>1. 0 .. 0 \subseteq Offsets
      <4>1. 0 \in 0 .. Radix - 1
        BY CandidatesAssumption
      <4>2. 0 \in Offsets
        BY <4>1, CandidatesAssumption
      <4>3. QED BY <4>2
    <3>2. sec.size = 0 /\ sec \in Section
      BY DEF InventoryInit, Section
    <3>3. QED BY <3>1, <3>2 DEF IsSection
  <2>2. SecHead \in Nat /\ SecHead <= SecHead
    BY SizesFit
  <2>3. TypeOK /\ Checked /\ Progress
    BY <2>1, <2>2 DEF InventoryInit, Outset, TypeOK, Checked, Progress
  <2>4. QED BY <2>3 DEF Inductive
<1>5. Walked
  BY DEF InventoryInit, Outset, Walked
<1>6. Differs(data)
  BY <1>1, <1>2 DEF Differs
<1>7. Position(data)
  <2>1. at = Align * 0 /\ 0 \in Nat
    BY <1>2, SizesFit
  <2>2. QED BY <1>2, <1>3, <2>1 DEF Position
<1>8. Found(data)
  <2>1. \A o \in Nat : ~(o < at)
    BY <1>2
  <2>2. QED BY <1>2, <2>1 DEF Found
<1>9. Listed(data) /\ Looping(data) /\ KeptOf(data)
  BY <1>2, <1>3 DEF Listed, Looping, KeptOf, Searching
<1>10. QED BY <1>1, <1>4, <1>5, <1>6, <1>7, <1>8, <1>9 DEF Steady, Walking, InventoryInv

LEMMA InventoryGoesOn ==
    ASSUME InventoryInv, [InventoryNext]_<<vars, search>>
    PROVE  InventoryInv'
<1>1. PICK d \in Data : Steady(d)
  BY DEF InventoryInv
<1>2. CASE Try
  BY <1>1, <1>2, TryKeeps DEF InventoryInv
<1>3. CASE TakeSection
  BY <1>1, <1>3, TakeSectionKeeps DEF InventoryInv
<1>4. CASE EnterSection \/ ValidateProgram
  BY <1>1, <1>4, ValidatorKeeps DEF InventoryInv
<1>5. CASE Judge
  BY <1>1, <1>5, JudgeKeeps DEF InventoryInv
<1>6. CASE CheckTables
  BY <1>1, <1>6, CheckTablesKeeps DEF InventoryInv
<1>7. CASE YieldSection
  BY <1>1, <1>7, YieldSectionKeeps DEF InventoryInv
<1>8. CASE IterateSection \/ YieldProgram
  BY <1>1, <1>8, IteratorKeeps DEF InventoryInv
<1>9. CASE EndSection
  BY <1>1, <1>9, EndSectionKeeps DEF InventoryInv
<1>10. CASE Select
  BY <1>1, <1>10, SelectKeeps DEF InventoryInv
<1>11. CASE Edit
  BY <1>1, <1>11, EditKeeps DEF InventoryInv
<1>12. CASE Again
  <2>1. data \in Data
    BY <1>1 DEF Steady, Differs
  <2>2. PICK e \in Data : e = data
    BY <2>1
  <2>3. Steady(e)'
    BY <1>1, <1>12, <2>2, AgainKeeps
  <2>4. QED BY <2>3 DEF InventoryInv
<1>13. CASE UNCHANGED <<vars, search>>
  <2>1. UNCHANGED vars /\ UNCHANGED search
    BY <1>13
  <2>2. Walking'
    BY <1>1, <2>1, WalkStill DEF Steady
  <2>3. Steady(d)'
    BY <1>1, <2>1, <2>2 DEF Steady, Differs, Position, Found, Listed, Looping, KeptOf,
       IsRoot, First, vars, search
  <2>4. QED BY <2>3 DEF InventoryInv
<1>14. QED BY <1>2, <1>3, <1>4, <1>5, <1>6, <1>7, <1>8, <1>9, <1>10, <1>11, <1>12, <1>13
         DEF InventoryNext

\* The inventory lists exactly what the data it was taken of has to offer, and
\* the data has changed since in records of the listed candidates only.
THEOREM InventoryInvHolds == InventorySpec => []InventoryInv
<1>1. QED BY InventoryBegins, InventoryGoesOn, PTL DEF InventorySpec

LEMMA KeptAtLast ==
    ASSUME InventoryInv
    PROVE  InventoryKept
<1> SUFFICES ASSUME stage = "done", edited = {}, NEW k \in kept
             PROVE  {Place(c) : c \in {c \in candidates : c.root = k.root}}
                        = {q \in kept : q.root = k.root}
  BY DEF InventoryKept
<1>1. PICK d \in Data : Steady(d)
  BY DEF InventoryInv
<1>2. stage \notin Searching /\ roots = {} /\ Listed(d) /\ KeptOf(d)
  BY <1>1 DEF Steady, Looping, Searching
<1>3. PICK o \in Nat, P \in Programs : Whole(d, o, P) /\ kept = Offers(d, o, P)
  BY <1>2 DEF KeptOf
<1>4. /\ \A c \in candidates : c.root = o => Place(c) \in kept
      /\ \A q \in kept : q.root = o /\ \E c \in candidates : q = Place(c) /\ c.root = o
  BY <1>2, <1>3, CandidatesOf
<1>5. k.root = o
  BY <1>4
<1>6. {q \in kept : q.root = k.root} = kept
  BY <1>4, <1>5
<1> DEFINE K == {c \in candidates : c.root = k.root}
<1>7. \A c : c \in K <=> c \in candidates /\ c.root = o
  BY <1>5
<1>8. {Place(c) : c \in K} = kept
  <2> HIDE DEF K
  <2>1. QED BY <1>4, <1>7
<1>9. QED BY <1>6, <1>8

\* However the records of a root are edited, the next inventory finds the
\* same places in it: no edit reaches what the search and the walks read.
THEOREM InventoryIsKept == InventorySpec => []InventoryKept
<1>1. InventoryInv => InventoryKept BY KeptAtLast
<1>2. QED BY <1>1, InventoryInvHolds, PTL

LEMMA InventoryWalks ==
    ASSUME InventoryInv
    PROVE  NeverAstray /\ YieldsAll /\ YieldsChecked
<1>1. Inductive
  BY DEF InventoryInv, Steady, Walking
<1>2. QED BY <1>1, StaysInside, CompleteAtLast, CheckedAlways

\* The walks of an inventory, over sections that edits have been made to,
\* stay inside, yield what was checked, and all of it.
THEOREM WalksOfInventory == InventorySpec => [](NeverAstray /\ YieldsAll /\ YieldsChecked)
<1>1. InventoryInv => NeverAstray /\ YieldsAll /\ YieldsChecked BY InventoryWalks
<1>2. QED BY <1>1, InventoryInvHolds, PTL
=============================================================================
