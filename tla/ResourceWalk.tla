---------------------------- MODULE ResourceWalk -----------------------------
(***************************************************************************)
(* layer_c_resource.py on one primary section of a PPP resource.           *)
(* _valid_primary_section follows the chain of programs and checks every   *)
(* one; iter_ppp_slots follows it again and checks nothing, so that its    *)
(* end and its bounds rest on the first walk.                              *)
(*                                                                         *)
(* A section is what the two loops read of it: its size, and at each       *)
(* program offset the relative offset of the next program, the slot count  *)
(* (signed) and whether the handler index and callback offsets of all of   *)
(* its slots are in range.                                                 *)
(***************************************************************************)
EXTENDS Integers

CONSTANTS Offsets,    \* the section-relative offsets
          SecHead,    \* bytes before the first program: 16
          ProgHead,   \* bytes of a program header: 40
          SlotSize,   \* PPP_SLOT_SIZE: 16
          MaxSlots,   \* 256
          Align       \* 4

Section == [size : Nat, tables : BOOLEAN,
            next : [Offsets -> Nat], count : [Offsets -> Int],
            slotsOk : [Offsets -> BOOLEAN]]

\* A section, of which every offset within is an offset.
IsSection(s) == s \in Section /\ 0 .. s.size \subseteq Offsets

ASSUME ResourceAssumption ==
    /\ Offsets \subseteq Nat
    /\ SecHead \in Nat \ {0} /\ ProgHead \in Nat \ {0}
    /\ SlotSize \in Nat \ {0} /\ MaxSlots \in Nat /\ Align \in Nat \ {0}

VARIABLES sec,      \* the section
          phase,    \* "called", "validating", "rejected", "accepted",
                    \* "iterating", "iterated", or "astray" once the iterator
                    \* reads outside the section
          prog,     \* program of the loop that is running
          visited,  \* the `visited` set of the validator
          found,    \* found_slot
          yielded   \* the slot offsets iter_ppp_slots has yielded

vars == <<sec, phase, prog, visited, found, yielded>>

\* The end of the slot table of the program at p.
SlotsEnd(s, p) == p + ProgHead + SlotSize * s.count[p]

\* The slot offsets of range(slot_count); none when the count is negative.
Slots(s, p) == {p + ProgHead + SlotSize * k : k \in 0 .. s.count[p] - 1}

\* Faulty variant: the slot table may run past the section.
ProgramHoldsLoose(s, p) ==
    /\ p + ProgHead <= s.size
    /\ s.count[p] \in 0 .. MaxSlots
    /\ s.slotsOk[p]

\* Faulty variant: the slots' own offsets are not checked.
ProgramHoldsUnread(s, p) ==
    /\ p + ProgHead <= s.size
    /\ s.count[p] \in 0 .. MaxSlots
    /\ SlotsEnd(s, p) <= s.size

\* The checks on one program, the header's bound before anything is read.
ProgramHolds(s, p) ==
    /\ p + ProgHead <= s.size
    /\ s.count[p] \in 0 .. MaxSlots
    /\ SlotsEnd(s, p) <= s.size
    /\ s.slotsOk[p]

\* The check on the link to the next program.
LinkHolds(s, p) == s.next[p] > p /\ s.next[p] % Align = 0

\* Faulty variant: a section without any slot is accepted.
VerdictLenient(some) == "accepted"

\* The end of the chain: a section without any slot is refused.
Verdict(some) == IF some THEN "accepted" ELSE "rejected"

\* Faulty variant: the iterator stays where it is.
NextProgramSame(s, p) == p

\* The program the iterator goes to next.
NextProgram(s, p) == s.next[p]

\* What _valid_primary_section starts with.
Outset ==
    /\ phase = "called"
    /\ prog = SecHead
    /\ visited = {}
    /\ found = FALSE
    /\ yielded = {}

Init == IsSection(sec) /\ Outset

\* The checks before the loop: the size, and the two counted tables.
Enter ==
    /\ phase = "called"
    /\ phase' = IF sec.size >= SecHead + ProgHead /\ sec.tables
                THEN "validating" ELSE "rejected"
    /\ UNCHANGED <<sec, prog, visited, found, yielded>>

\* One turn of the validator's loop.
Validate ==
    /\ phase = "validating"
    /\ \/ /\ prog \notin visited /\ ProgramHolds(sec, prog)
          /\ visited' = visited \cup {prog}
          /\ found' = (found \/ sec.count[prog] > 0)
          /\ \/ /\ sec.next[prog] = 0
                /\ phase' = Verdict(found')
                /\ UNCHANGED prog
             \/ /\ sec.next[prog] # 0 /\ LinkHolds(sec, prog)
                /\ prog' = sec.next[prog]
                /\ UNCHANGED phase
             \/ /\ sec.next[prog] # 0 /\ ~LinkHolds(sec, prog)
                /\ phase' = "rejected"
                /\ UNCHANGED prog
       \/ /\ prog \in visited \/ ~ProgramHolds(sec, prog)
          /\ phase' = "rejected"
          /\ UNCHANGED <<prog, visited, found>>
    /\ UNCHANGED <<sec, yielded>>

\* iter_ppp_slots starts at the first program of an accepted section.
Iterate ==
    /\ phase = "accepted"
    /\ phase' = "iterating"
    /\ prog' = SecHead
    /\ UNCHANGED <<sec, visited, found, yielded>>

\* What iter_ppp_slots reads of the program at p lies in the section.
Inside(s, p) == p + ProgHead <= s.size /\ SlotsEnd(s, p) <= s.size

\* One program of iter_ppp_slots: its slots, then the link, unchecked.
YieldSlots ==
    /\ phase = "iterating"
    /\ LET inside == Inside(sec, prog)
           last == sec.next[prog] = 0
       IN  /\ phase' = IF ~inside THEN "astray"
                       ELSE IF last THEN "iterated" ELSE "iterating"
           /\ prog' = IF last \/ ~inside THEN prog ELSE NextProgram(sec, prog)
           /\ yielded' = IF inside THEN yielded \cup Slots(sec, prog) ELSE yielded
    /\ UNCHANGED <<sec, visited, found>>

Next == Enter \/ Validate \/ Iterate \/ YieldSlots

Spec == Init /\ [][Next]_vars
-----------------------------------------------------------------------------
(* Properties *)

\* Every variable has its type.
TypeOK ==
    /\ IsSection(sec)
    /\ phase \in {"called", "validating", "rejected", "accepted",
                  "iterating", "iterated", "astray"}
    /\ prog \in Nat
    /\ visited \subseteq Nat
    /\ found \in BOOLEAN
    /\ yielded \subseteq Nat

\* Every slot the iterator hands out is one the validator has checked, and
\* lies in the section.
YieldsChecked ==
    \A o \in yielded :
        /\ o + SlotSize <= sec.size
        /\ \E p \in visited : o \in Slots(sec, p) /\ sec.slotsOk[p]

\* The iterator, which has no bounds checks of its own, never leaves the
\* programs of an accepted section.
NeverAstray ==
    /\ phase # "astray"
    /\ phase = "iterating" => prog \in visited

\* A finished iteration has handed out every checked slot, at least one.
YieldsAll ==
    phase = "iterated" =>
        yielded = UNION {Slots(sec, p) : p \in visited} /\ yielded # {}
=============================================================================
