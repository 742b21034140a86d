---------------------------- MODULE PppCandidates ----------------------------
(***************************************************************************)
(* The inventory of useful_ppp_candidates.py and what it rests on: the     *)
(* search of layer_c_resource.py for resource roots in a .data section,    *)
(* the walks of ResourceWalk over the sections of each root, and the       *)
(* choice of callback records whose window may be edited.  A window is     *)
(* then overwritten, as useful_ppp_writer.py does, and the inventory taken *)
(* again: nothing but the choice of records keeps an edit from changing    *)
(* the links and counts the walks follow.                                  *)
(*                                                                         *)
(* The data is a sequence of cells, each a field of a structure, which may *)
(* overlap.  RootHead cells are n1 .. n4 and the offsets of four tables;   *)
(* SecHead cells begin with the size and end with two table offsets;       *)
(* ProgHead cells begin with the link and end with the slot count; the     *)
(* SlotSize cells of a slot hold a handler index, the parameter, and two   *)
(* callback offsets.                                                       *)
(***************************************************************************)
EXTENDS ResourceWalk, Sequences

CONSTANTS RootHead,     \* bytes of a root's head: 32
          Radix,        \* a cell holds 0 .. Radix - 1; 2^16 or 2^32
          Sources,      \* the .data sections to begin with
          MaxPrimary,   \* 64
          MaxAux,       \* 256
          MaxTable,     \* 4096
          MaxHandler,   \* 255
          Family,       \* the handler index of the spec
          RecHead,      \* bytes of a record before its payload: 8
          Width,        \* raw_payload_width
          OperandOffset, OperandWidth, \* runtime_operand_offset and _width
          EntrySize,    \* bytes of an entry of the second table: 32
          Written,      \* what an edit may write into a cell
          MaxEdits      \* bound: edits

\* The checks of UsefulPppFamilySpec.
SpecHolds ==
    /\ Family >= 0 /\ Width > 0
    /\ OperandOffset >= 0 /\ OperandWidth > 0
    /\ OperandOffset + OperandWidth <= Width

\* A cell has room for no more than an offset; the heads, slots and entries
\* have room for the cells that are read of them.
ASSUME CandidatesAssumption ==
    /\ SpecHolds
    /\ Width \in Nat /\ RecHead \in Nat
    /\ OperandOffset \in Nat /\ OperandWidth \in Nat
    /\ Radix \in Nat \ {0} /\ 0 .. Radix - 1 \subseteq Offsets
    /\ Sources \subseteq Seq(0 .. Radix - 1)
    /\ Written \subseteq 0 .. Radix - 1
    /\ RootHead \in Nat /\ RootHead >= 8
    /\ SecHead >= 3 /\ ProgHead >= 2 /\ SlotSize >= 4
    /\ EntrySize \in Nat /\ EntrySize >= 3
    /\ MaxEdits \in Nat

VARIABLES data,       \* the .data section
          stage,      \* "search", "section", "walk", "tables", "yield",
                      \* "iterate", "select" or "done"
          at,         \* the offset the search is at
          seen,       \* the programs of the sections of this root so far
          roots,      \* the roots found and not yet gone through
          slots,      \* the slots yielded of each section of this root so far
          candidates, \* the candidates so far
          edits,      \* number of edits so far
          edited,     \* the candidates edited since the inventory was taken
          solid,      \* the roots that are Solid, for the properties only
          kept        \* what must be found again, for the properties only

\* ResourceWalk's variables are vars.
search == <<data, stage, at, seen, roots, slots, candidates, edits, edited, solid, kept>>

\* _u16 and _u32, which read zeros behind the end, and _i16.
U(d, x) == IF x < Len(d) THEN d[x + 1] ELSE 0
I(d, x) == IF U(d, x) < Radix \div 2 THEN U(d, x) ELSE U(d, x) - Radix

\* The four table offsets of the root at o, and its counts.
Count(d, o, i) == U(d, o + i - 1)
Table(d, o, i) == U(d, o + RootHead - 5 + i)

\* The checks of _parse_resource_root_candidate on the head.
HeadHolds(d, o) ==
    /\ Count(d, o, 1) \in 1 .. MaxPrimary
    /\ \A i \in 2 .. 4 : Count(d, o, i) <= MaxAux
    /\ \A i \in 1 .. 4 :
           /\ Table(d, o, i) >= RootHead /\ Table(d, o, i) % Align = 0
           /\ o + Table(d, o, i) < Len(d)
           /\ i < 4 => Table(d, o, i) <= Table(d, o, i + 1)

\* primary_sections[k] and where that section begins.
Relative(d, o, k) == U(d, o + Table(d, o, 1) + k - 1)
Base(d, o, k) == o + Relative(d, o, k)

\* _valid_auxiliary_tables.
AuxiliaryHolds(d, o) ==
    LET size == Len(d) - o
        at2 == o + Table(d, o, 2)
        at3 == o + Table(d, o, 3)
        at4 == o + Table(d, o, 4)
    IN  /\ at2 + EntrySize * Count(d, o, 2) <= Len(d)
        /\ \A i \in 1 .. Count(d, o, 2), part \in 1 .. 3 : U(d, at2 + EntrySize * i - part) < size
        /\ at3 + Count(d, o, 3) <= Len(d)
        /\ \A i \in 1 .. Count(d, o, 3) : U(d, at3 + i - 1) < size
        /\ at4 + 2 * Count(d, o, 4) <= Len(d)
        /\ \A i \in 1 .. Count(d, o, 4) : U(d, at4 + 2 * i - 1) < size

\* _valid_counted_u32_table for the table at rel in the section at b.
CountedHolds(d, b, rel) ==
    LET size == U(d, b)
        count == U(d, b + rel)
    IN  /\ rel >= SecHead /\ rel + 1 <= size
        /\ count <= MaxTable /\ rel + 1 + count <= size
        /\ \A i \in 1 .. count : U(d, b + rel + i) < size

\* The two table offsets in the head of the section at b.
CountedTables(d, b) == {U(d, b + SecHead - 2), U(d, b + SecHead - 1)}

\* The bounds of a section: its head, and the size it claims.
Fits(d, b) == b + SecHead + ProgHead <= Len(d) /\ b + U(d, b) <= Len(d)

\* parse_ppp_slot, but for the parameter and the flags.
SlotAt(d, x) ==
    [handler |-> U(d, x), primary |-> U(d, x + 2), secondary |-> U(d, x + 3)]

\* The checks on a slot of a section of that size.
SlotHolds(slot, size) ==
    /\ slot.handler <= MaxHandler
    /\ slot.primary < size
    /\ slot.secondary < size

\* What ResourceWalk sees of the section at b.
SectionAt(d, b) ==
    LET count == [p \in Offsets |-> I(d, b + p + ProgHead - 1)]
    IN  [size |-> U(d, b),
         tables |-> \A rel \in CountedTables(d, b) : CountedHolds(d, b, rel),
         next |-> [p \in Offsets |-> U(d, b + p)],
         count |-> count,
         slotsOk |-> [p \in Offsets |->
                         \A k \in 1 .. count[p] :
                             SlotHolds(SlotAt(d, b + p + ProgHead + SlotSize * (k - 1)), U(d, b))]]

InventoryInit ==
    /\ data \in Sources
    /\ stage = "search" /\ at = 0 /\ seen = <<>>
    /\ roots = {} /\ slots = <<>> /\ candidates = {}
    /\ edits = 0 /\ edited = {} /\ solid = {} /\ kept = {}
    /\ sec = [size |-> 0, tables |-> FALSE, next |-> [p \in Offsets |-> 0],
              count |-> [p \in Offsets |-> 0], slotsOk |-> [p \in Offsets |-> FALSE]]
    /\ Outset

\* The search goes on at the next offset.
GoOn == stage' = "search" /\ at' = at + Align

\* One turn of find_ppp_resource_roots, up to the head of the candidate.
Try ==
    /\ stage = "search"
    /\ \/ /\ at + RootHead < Len(data) /\ HeadHolds(data, at)
          /\ stage' = "section" /\ seen' = <<>>
          /\ UNCHANGED at
       \/ /\ at + RootHead < Len(data) /\ ~HeadHolds(data, at)
          /\ GoOn
          /\ UNCHANGED seen
       \/ /\ at + RootHead >= Len(data)
          /\ stage' = "yield"
          /\ UNCHANGED <<at, seen>>
    /\ UNCHANGED <<vars, data, roots, slots, candidates, edits, edited, solid, kept>>

\* A walk over the section at b begins.
Begin(b, ph, programs) ==
    /\ sec' = SectionAt(data, b)
    /\ phase' = ph
    /\ prog' = SecHead
    /\ visited' = programs
    /\ found' = (programs # {})
    /\ yielded' = {}

\* The next section of the candidate, if there is one.
TakeSection ==
    /\ stage = "section"
    /\ LET k == Len(seen) + 1
           rel == Relative(data, at, k)
           sound == rel >= RootHead /\ rel % Align = 0 /\ Fits(data, at + rel)
       IN  \/ /\ k <= Count(data, at, 1) /\ sound
              /\ Begin(at + rel, "called", {})
              /\ stage' = "walk"
              /\ UNCHANGED at
           \/ /\ k <= Count(data, at, 1) /\ ~sound
              /\ GoOn
              /\ UNCHANGED vars
           \/ /\ k > Count(data, at, 1)
              /\ stage' = "tables"
              /\ UNCHANGED <<vars, at>>
    /\ UNCHANGED <<data, seen, roots, slots, candidates, edits, edited, solid, kept>>

\* _valid_primary_section runs.
EnterSection == stage = "walk" /\ Enter /\ UNCHANGED search
ValidateProgram == stage = "walk" /\ Validate /\ UNCHANGED search

\* It returns: one bad section, and the candidate is no root.
Judge ==
    /\ stage = "walk"
    /\ \/ /\ phase = "accepted"
          /\ seen' = Append(seen, visited)
          /\ stage' = "section"
          /\ UNCHANGED at
       \/ /\ phase = "rejected"
          /\ GoOn
          /\ UNCHANGED seen
    /\ UNCHANGED <<vars, data, roots, slots, candidates, edits, edited, solid, kept>>

\* A root, with the programs of each section.
Root(offset, programs) == [offset |-> offset, programs |-> programs]

\* The auxiliary tables decide; the search goes on either way.
CheckTables ==
    /\ stage = "tables"
    /\ roots' = IF AuxiliaryHolds(data, at)
                THEN roots \cup {Root(at, seen)}
                ELSE roots
    /\ GoOn
    /\ UNCHANGED <<vars, data, seen, slots, candidates, edits, edited, solid, kept>>

\* The root the loop of select_useful_ppp_candidates is at.
First(r) == r \in roots /\ \A q \in roots : r.offset <= q.offset

\* iter_ppp_slots comes to the next section of the root.
YieldSection ==
    /\ stage = "yield"
    /\ \/ /\ roots = {}
          /\ stage' = "done"
          /\ UNCHANGED vars
       \/ \E r \in roots :
              LET k == Len(slots) + 1
              IN  /\ First(r)
                  /\ \/ /\ k <= Len(r.programs)
                        /\ Begin(Base(data, r.offset, k), "accepted", r.programs[k])
                        /\ stage' = "iterate"
                     \/ /\ k > Len(r.programs)
                        /\ stage' = "select"
                        /\ UNCHANGED vars
    /\ UNCHANGED <<data, at, seen, roots, slots, candidates, edits, edited, solid, kept>>

IterateSection == stage = "iterate" /\ Iterate /\ UNCHANGED search
YieldProgram == stage = "iterate" /\ YieldSlots /\ UNCHANGED search

EndSection ==
    /\ stage = "iterate" /\ phase = "iterated"
    /\ slots' = Append(slots, yielded)
    /\ stage' = "yield"
    /\ UNCHANGED <<vars, data, at, seen, roots, candidates, edits, edited, solid, kept>>

Span(start, size) == [start |-> start, end |-> start + size]

\* _Span.overlaps.
Overlaps(s, t) == s.start < t.end /\ t.start < s.end

\* The programs that the records of iter_ppp_slots name.
Named(d, b, programs) == {p \in programs : I(d, b + p + ProgHead - 1) > 0}

\* Faulty variant: the slots behind a program's head are left out.
StructuralSpansHeads(d, r) ==
    {Span(r.offset, RootHead)}
    \cup UNION {
        LET b == Base(d, r.offset, k)
        IN  {Span(b, SecHead)}
            \cup {Span(b + rel, 1 + U(d, b + rel)) : rel \in CountedTables(d, b)}
            \cup {Span(b + p, ProgHead) : p \in Named(d, b, r.programs[k])} :
        k \in DOMAIN r.programs}

\* _structural_spans.
StructuralSpans(d, r) ==
    {Span(r.offset, RootHead)}
    \cup UNION {
        LET b == Base(d, r.offset, k)
        IN  {Span(b, SecHead)}
            \cup {Span(b + rel, 1 + U(d, b + rel)) : rel \in CountedTables(d, b)}
            \cup {Span(b + p, ProgHead + SlotSize * I(d, b + p + ProgHead - 1)) :
                     p \in Named(d, b, r.programs[k])} :
        k \in DOMAIN r.programs}

Record(start) == Span(start, RecHead + Width)

\* The bytes of a record; its hash.  useful_ppp_writer.py:63 hashes 32 bytes of
\* either family, which is RecHead + Width for the width of 24 that both have.
Digest(d, start) == [i \in 0 .. RecHead + Width - 1 |-> U(d, start + i)]

\* The candidates of a root: the records of the family's slots that end in
\* their section and are clear of all spans.
Chosen(d, r) ==
    LET Of(k) ==
            LET b == Base(d, r.offset, k)
            IN  {[root |-> r.offset, section |-> b, slot |-> b + o,
                  record |-> b + SlotAt(d, b + o).primary,
                  hash |-> Digest(d, b + SlotAt(d, b + o).primary)] :
                     o \in {s \in slots[k] : SlotAt(d, b + s).handler = Family}}
    IN  {c \in UNION {Of(k) : k \in DOMAIN r.programs} :
            /\ Record(c.record).end <= c.section + U(d, c.section)
            /\ \A s \in StructuralSpans(d, r) : ~Overlaps(s, Record(c.record))}

\* The tables of a root that are not among its spans.
Tables(d, r) ==
    LET size == <<1, EntrySize, 1, 2>>
    IN  {Span(r.offset + Table(d, r.offset, i), size[i] * Count(d, r.offset, i)) : i \in 1 .. 4}

\* Each program of the root has a slot, and no record lies on its tables.
Solid(d, r) ==
    /\ \A k \in DOMAIN r.programs :
           Named(d, Base(d, r.offset, k), r.programs[k]) = r.programs[k]
    /\ \A c \in Chosen(d, r), t \in Tables(d, r) : ~Overlaps(t, Record(c.record))

\* One turn of the loop over roots, once its slots are known.
Select ==
    /\ stage = "select"
    /\ \E r \in roots :
           /\ First(r)
           /\ candidates' = candidates \cup Chosen(data, r)
           /\ solid' = IF Solid(data, r) THEN solid \cup {r.offset} ELSE solid
           /\ roots' = roots \ {r}
    /\ slots' = <<>>
    /\ stage' = "yield"
    /\ UNCHANGED <<vars, data, at, seen, edits, edited, kept>>

\* _window, as offsets in the payload.
Window == OperandOffset .. OperandOffset + OperandWidth - 1

\* apply_vector on a candidate whose record has not changed since.
Edit ==
    /\ stage = "done" /\ edits < MaxEdits
    /\ \E c \in candidates, new \in [Window -> Written] :
           /\ Digest(data, c.record) = c.hash
           /\ data' = [i \in DOMAIN data |->
                          LET w == i - 1 - c.record - RecHead
                          IN  IF w \in Window THEN new[w] ELSE data[i]]
           /\ edited' = edited \cup {c}
    /\ edits' = edits + 1
    /\ UNCHANGED <<vars, stage, at, seen, roots, slots, candidates, solid, kept>>

\* A candidate but for its hash.
Place(c) == [root |-> c.root, section |-> c.section, slot |-> c.slot, record |-> c.record]

\* A new inventory is taken after edits.
Again ==
    /\ stage = "done" /\ edited # {}
    /\ stage' = "search" /\ at' = 0
    /\ candidates' = {} /\ edited' = {} /\ solid' = {}
    /\ kept' = {Place(c) : c \in {c \in candidates :
                   c.root \in solid /\ \A e \in edited : e.root = c.root}}
    /\ UNCHANGED <<vars, data, seen, roots, slots, edits>>

Inventory ==
    \/ Try \/ TakeSection \/ EnterSection \/ ValidateProgram \/ Judge \/ CheckTables
    \/ YieldSection \/ IterateSection \/ YieldProgram \/ EndSection \/ Select

InventoryNext ==
    \/ Try \/ TakeSection \/ EnterSection \/ ValidateProgram \/ Judge \/ CheckTables
    \/ YieldSection \/ IterateSection \/ YieldProgram \/ EndSection \/ Select
    \/ Edit \/ Again

\* An inventory that was begun goes on; nobody need edit or begin another.
InventorySpec == InventoryInit /\ [][InventoryNext]_<<vars, search>> /\ WF_<<vars, search>>(Inventory)
-----------------------------------------------------------------------------
(* Properties *)

\* However candidates are edited, the next inventory of their root is the same
\* as the last but for hashes: no edit of a window reaches a link, a count or
\* a slot that the search or the walks read, nor makes the root disappear.
\* This takes what the spans of select_useful_ppp_candidates leave out: each
\* program has a slot, and no record lies on a table of the root.
InventoryKept ==
    stage = "done" /\ edited = {} =>
        \A k \in kept : {Place(c) : c \in {c \in candidates : c.root = k.root}}
                            = {q \in kept : q.root = k.root}

\* Every inventory ends, whatever the data and the edits before.
InventoryEnds == stage # "done" ~> stage = "done"
=============================================================================
