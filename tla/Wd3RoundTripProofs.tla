------------------------- MODULE Wd3RoundTripProofs --------------------------
(***************************************************************************)
(* That the ownership map counts every byte once and names exactly the     *)
(* streams that cover it, and that a container survives being parsed and   *)
(* written: for any source, any number of streams at any offsets.          *)
(***************************************************************************)
EXTENDS Wd3RoundTrip, SequenceTheorems, WellFoundedInduction, TLAPS

\* Where the walk stands: before the layout nothing is there; afterwards it
\* is at a boundary of a container whose layout holds.
Position ==
    /\ verdict \in {"called", "badLayout"} => spans = {} /\ pos = 0 /\ body = 0
    /\ verdict \notin {"called", "badLayout"} =>
           /\ LayoutHolds(box, body)
           /\ pos \in Boundaries(box, body)
           /\ body <= pos /\ pos <= box.total

\* How the walk ends: spans have owners, a finished map is at total_size, and
\* an orphan is where the walk stands.
Outcome ==
    /\ \A sp \in spans : sp.owners # {}
    /\ verdict = "mapped" => pos = box.total
    /\ verdict = "orphan" => pos < box.total /\ Covering(pos) = {}

\* The types, of any container.
Typed ==
    /\ IsContainer(box)
    /\ body \in Nat /\ pos \in Nat
    /\ spans \subseteq Span

MapInv == Typed /\ Position /\ CountedOnce /\ OwnersExact /\ Outcome

\* Every boundary of a container whose layout holds is within its body.
LEMMA BoundariesInBody ==
    ASSUME NEW c, IsContainer(c), NEW b \in Nat, LayoutHolds(c, b),
           NEW x \in Boundaries(c, b)
    PROVE  x \in Nat /\ b <= x /\ x <= c.total
<1> USE DEF IsContainer
<1>1. b < c.total
  <2>1. PICK i \in c.streams : b = c.start[i]
    BY DEF LayoutHolds, Starts
  <2>2. QED BY <2>1 DEF LayoutHolds
<1>2. CASE x \in {b, c.total}
  BY <1>1, <1>2
<1>3. CASE x \in Starts(c)
  <2>1. PICK i \in c.streams : x = c.start[i]
    BY <1>3 DEF Starts
  <2>2. QED BY <1>3, <2>1 DEF LayoutHolds
<1>4. CASE x \in {c.end[i] : i \in c.streams}
  <2>1. PICK i \in c.streams : x = c.end[i]
    BY <1>4
  <2>2. b <= c.start[i]
    BY DEF LayoutHolds, Starts
  <2>3. QED BY <2>1, <2>2 DEF LayoutHolds
<1>5. QED BY <1>2, <1>3, <1>4 DEF Boundaries

\* Between neighbouring boundaries the covering streams do not change: those
\* that cover one byte are those that cover the interval.
LEMMA OwnersCoverBytes ==
    ASSUME NEW c, IsContainer(c), NEW b \in Nat, LayoutHolds(c, b),
           NEW a \in Boundaries(c, b), NEW e, Follows(c, b, a, e),
           NEW x \in a .. e - 1
    PROVE  Owners(c, a, e) = {i \in c.streams : c.start[i] <= x /\ x < c.end[i]}
<1> USE DEF IsContainer
<1>1. a \in Nat /\ e \in Nat /\ a < e
  BY BoundariesInBody DEF Follows
<1>2. ASSUME NEW i \in c.streams
      PROVE  (c.start[i] <= a /\ e <= c.end[i]) <=> (c.start[i] <= x /\ x < c.end[i])
  <2>1. c.start[i] \in Boundaries(c, b) /\ c.end[i] \in Boundaries(c, b)
    BY DEF Boundaries, Starts
  <2>2. ~(a < c.start[i] /\ c.start[i] < e) /\ ~(a < c.end[i] /\ c.end[i] < e)
    BY <2>1 DEF Follows
  <2>3. QED BY <1>1, <2>2
<1>3. QED BY <1>2 DEF Owners

\* A new span begins where the last one ended, so no byte is counted twice,
\* and it leaves none out.
LEMMA AddSpanKeeps ==
    ASSUME MapInv, AddSpan
    PROVE  MapInv'
<1> USE DEF MapInv
<1>1. PICK e \in Boundaries(box, body) :
          /\ Follows(box, body, pos, e)
          /\ \/ /\ Owners(box, pos, e) # {}
                /\ spans' = spans \cup
                       {[start |-> pos, end |-> e, owners |-> Owners(box, pos, e)]}
                /\ pos' = e
                /\ UNCHANGED verdict
             \/ /\ Owners(box, pos, e) = {}
                /\ verdict' = "orphan"
                /\ UNCHANGED <<pos, spans>>
  BY DEF AddSpan
<1>2. verdict = "mapping" /\ box' = box /\ body' = body
  BY DEF AddSpan
<1>3. /\ IsContainer(box) /\ body \in Nat /\ pos \in Nat
      /\ LayoutHolds(box, body) /\ pos \in Boundaries(box, body)
      /\ body <= pos
  BY <1>2 DEF Typed, Position
<1>4. e \in Nat /\ pos < e /\ e <= box.total
  BY <1>1, <1>3, BoundariesInBody DEF Follows
<1>5. CASE verdict' = "orphan" /\ UNCHANGED <<pos, spans>>
  <2>1. CountedOnce' /\ OwnersExact' /\ Typed' /\ Position'
    BY <1>2, <1>5 DEF Typed, Span, Position, CountedOnce, OwnersExact, Covering, Holds
  <2>2. Owners(box, pos, e) = {}
    BY <1>1, <1>2, <1>5
  <2>3. Covering(pos) = {}
    <3>1. pos \in pos .. e - 1
      BY <1>3, <1>4
    <3>2. QED BY <1>1, <1>3, <2>2, <3>1, OwnersCoverBytes DEF Covering
  <2>4. pos < box.total
    BY <1>3, <1>4 DEF Typed, IsContainer
  <2>5. Outcome'
    BY <1>2, <1>5, <2>3, <2>4 DEF Outcome, Covering
  <2>6. QED BY <2>1, <2>5
<1>6. CASE /\ spans' = spans \cup
                  {[start |-> pos, end |-> e, owners |-> Owners(box, pos, e)]}
           /\ pos' = e /\ verdict' = verdict
           /\ Owners(box, pos, e) # {}
  <2> DEFINE new == [start |-> pos, end |-> e, owners |-> Owners(box, pos, e)]
  <2>1. new \in Span
    BY <1>3, <1>4 DEF Span, Owners
  <2>2. Typed'
    <3>1. Span' = Span
      BY <1>2 DEF Span
    <3>2. QED BY <1>2, <1>4, <1>6, <2>1, <3>1 DEF Typed
  <2>3. Position'
    BY <1>1, <1>2, <1>3, <1>4, <1>6 DEF Position
  <2>4. \A sp \in spans : sp.start \in Nat /\ sp.end \in Nat
    BY DEF Typed, Span
  <2>5. CountedOnce'
    <3>1. \A x \in body .. e - 1 : \E sp \in spans' : Holds(sp, x)
      <4>1. SUFFICES ASSUME NEW x \in body .. e - 1
                     PROVE  \E sp \in spans' : Holds(sp, x)
        OBVIOUS
      <4>2. CASE x < pos
        BY <1>3, <1>6, <4>2 DEF CountedOnce
      <4>3. CASE pos <= x
        <5>1. Holds(new, x)
          BY <1>3, <1>4, <4>3 DEF Holds
        <5>2. QED BY <1>6, <5>1
      <4>4. QED BY <1>3, <4>2, <4>3
    <3>2. ASSUME NEW sp \in spans', NEW tp \in spans', NEW x \in sp.start .. sp.end - 1
          PROVE  /\ body <= x /\ x < e
                 /\ Holds(tp, x) => sp = tp
      <4>1. CASE sp \in spans
        <5>1. body <= x /\ x < pos
          BY <4>1 DEF CountedOnce
        <5>2. CASE tp \in spans
          BY <1>3, <1>4, <2>4, <4>1, <5>1, <5>2 DEF CountedOnce
        <5>3. CASE tp = new
          BY <1>3, <1>4, <2>4, <4>1, <5>1, <5>3 DEF Holds
        <5>4. QED BY <1>6, <5>2, <5>3
      <4>2. CASE sp = new
        <5>1. pos <= x /\ x < e /\ x \in Int
          BY <1>3, <1>4, <4>2
        <5>2. CASE tp \in spans
          <6>1. ~Holds(tp, x)
            <7>1. SUFFICES ASSUME Holds(tp, x) PROVE FALSE
              OBVIOUS
            <7>2. x \in tp.start .. tp.end - 1
              BY <2>4, <5>1, <5>2, <7>1 DEF Holds
            <7>3. x < pos
              BY <5>2, <7>2 DEF CountedOnce
            <7>4. QED BY <1>3, <5>1, <7>3
          <6>2. QED BY <1>3, <5>1, <6>1
        <5>3. CASE tp = new
          BY <1>3, <4>2, <5>1, <5>3
        <5>4. QED BY <1>6, <5>2, <5>3
      <4>3. QED BY <1>6, <4>1, <4>2
    <3>3. QED BY <1>2, <1>6, <3>1, <3>2 DEF CountedOnce, Holds
  <2>6. OwnersExact'
    <3>1. ASSUME NEW sp \in spans', NEW x \in sp.start .. sp.end - 1
          PROVE  sp.owners = Covering(x)
      <4>1. CASE sp \in spans
        BY <4>1 DEF OwnersExact
      <4>2. CASE sp = new
        BY <1>1, <1>3, <4>2, OwnersCoverBytes DEF Covering
      <4>3. QED BY <1>6, <4>1, <4>2
    <3>2. QED BY <1>2, <3>1 DEF OwnersExact, Covering
  <2>7. Outcome'
    BY <1>2, <1>6 DEF Outcome
  <2>8. QED BY <2>2, <2>3, <2>5, <2>6, <2>7
<1>7. QED BY <1>1, <1>5, <1>6

LEMMA EmptyInterval == \A a \in Nat : \A x \in a .. a - 1 : FALSE
OBVIOUS

LEMMA LayoutKeeps ==
    ASSUME MapInv, Layout
    PROVE  MapInv'
<1> USE DEF MapInv, Layout
<1>1. spans = {} /\ spans' = {} /\ box' = box /\ IsContainer(box)
  BY DEF Position, Typed
<1>2. CountedOnce' /\ OwnersExact' /\ Outcome'
  <2>1. pos' = body' /\ body' \in Nat
    <3>1. CASE \E b \in Starts(box) : LayoutHolds(box, b) /\ body' = b /\ pos' = b
      BY <1>1, <3>1 DEF Starts, IsContainer
    <3>2. CASE UNCHANGED <<body, pos>>
      BY <3>2 DEF Position
    <3>3. QED BY <3>1, <3>2
  <2>2. \A x \in body' .. pos' - 1 : FALSE
    BY <2>1, EmptyInterval
  <2>3. Outcome'
    BY <1>1 DEF Outcome
  <2>4. QED BY <1>1, <2>2, <2>3 DEF CountedOnce, OwnersExact
<1>3. CASE \E b \in Starts(box) :
               /\ LayoutHolds(box, b) /\ body' = b /\ pos' = b
               /\ verdict' = "mapping"
  <2>1. PICK b \in Starts(box) :
               /\ LayoutHolds(box, b) /\ body' = b /\ pos' = b
               /\ verdict' = "mapping"
    BY <1>3
  <2>2. b \in Nat
    BY <1>1 DEF Starts, IsContainer
  <2>3. Typed'
    BY <1>1, <2>1, <2>2 DEF Typed
  <2>4. b \in Boundaries(box, b)
    BY DEF Boundaries
  <2>5. b <= box.total
    BY <1>1, <2>1, <2>2, <2>4, BoundariesInBody
  <2>6. Position'
    BY <1>1, <2>1, <2>2, <2>4, <2>5 DEF Position
  <2>7. QED BY <1>2, <2>3, <2>6
<1>4. CASE verdict' = "badLayout" /\ UNCHANGED <<body, pos>>
  BY <1>1, <1>2, <1>4 DEF Typed, Position
<1>5. QED BY <1>3, <1>4

LEMMA FinishKeeps ==
    ASSUME MapInv, Finish
    PROVE  MapInv'
<1>1. pos = box.total
  <2>1. box.total \in Boundaries(box, body)
    BY DEF Boundaries
  <2>2. /\ pos <= box.total /\ pos \in Nat /\ box.total \in Nat
    BY DEF Finish, MapInv, Position, Typed, IsContainer
  <2>3. QED BY <2>1, <2>2 DEF Finish
<1>2. Typed' /\ Position' /\ CountedOnce' /\ OwnersExact'
  BY DEF MapInv, Finish, Typed, Span, Position, CountedOnce, OwnersExact,
     Covering, Holds
<1>3. Outcome'
  BY <1>1 DEF MapInv, Finish, Outcome
<1>4. QED BY <1>2, <1>3 DEF MapInv

\* The three steps of the map keep its invariant.
LEMMA MapInvKept ==
    ASSUME MapInv, [Next]_vars
    PROVE  MapInv'
<1>1. CASE UNCHANGED vars
  BY <1>1 DEF vars, MapInv, Typed, Span, Position, CountedOnce, OwnersExact,
     Outcome, Covering, Holds
<1>2. QED BY <1>1, AddSpanKeeps, LayoutKeeps, FinishKeeps DEF Next

LEMMA MapInvComplete ==
    ASSUME MapInv
    PROVE  MapComplete
<1> SUFFICES ASSUME verdict = "mapped", NEW x \in body .. box.total - 1
             PROVE  pos = box.total /\ Covering(x) # {}
  BY DEF MapComplete, MapInv, Outcome
<1>1. pos = box.total
  BY DEF MapInv, Outcome
<1>2. PICK sp \in spans : Holds(sp, x)
  BY <1>1 DEF MapInv, CountedOnce
<1>3. x \in sp.start .. sp.end - 1
  BY <1>2 DEF MapInv, Typed, Span, Holds
<1>4. QED BY <1>1, <1>2, <1>3 DEF MapInv, OwnersExact, Outcome

LEMMA MapInvOrphan ==
    ASSUME MapInv
    PROVE  OrphanIsReal
<1> SUFFICES ASSUME verdict = "orphan"
             PROVE  \E x \in body .. box.total - 1 : Covering(x) = {}
  BY DEF OrphanIsReal
<1>1. /\ Covering(pos) = {} /\ pos < box.total
      /\ body <= pos /\ pos \in Nat /\ body \in Nat /\ box.total \in Nat
  BY DEF MapInv, Outcome, Position, Typed, IsContainer
<1>2. pos \in body .. box.total - 1
  BY <1>1
<1>3. QED BY <1>1, <1>2

\* The map alone, called with any container, has its types and its invariant.
THEOREM InductiveHolds == Spec => [](TypeOK /\ MapInv)
<1>1. Init => TypeOK /\ MapInv
  BY PayloadAssumption
  DEF Init, TypeOK, MapInv, Typed, Position, CountedOnce, OwnersExact, Outcome
<1>2. TypeOK /\ MapInv /\ [Next]_vars => TypeOK' /\ MapInv'
  <2> SUFFICES ASSUME TypeOK, MapInv, [Next]_vars
               PROVE  TypeOK' /\ MapInv'
    OBVIOUS
  <2>1. MapInv'
    BY MapInvKept
  <2>2. box' = box /\ verdict' \in {"called", "mapping", "mapped", "badLayout", "orphan"}
    BY DEF TypeOK, Next, vars, Layout, AddSpan, Finish
  <2>3. QED BY <2>1, <2>2 DEF MapInv, Typed, TypeOK, Span
<1>3. QED BY <1>1, <1>2, PTL DEF Spec

\* Every byte the walk has passed is in one span and in no other.
THEOREM EveryByteCountedOnce == Spec => []CountedOnce
<1>1. MapInv => CountedOnce BY DEF MapInv
<1>2. QED BY <1>1, InductiveHolds, PTL

\* The owners of a span are the streams that cover each of its bytes.
THEOREM OwnersAreExact == Spec => []OwnersExact
<1>1. MapInv => OwnersExact BY DEF MapInv
<1>2. QED BY <1>1, InductiveHolds, PTL

\* A finished map reaches total_size and every byte of it has an owner.
THEOREM FinishedMapIsComplete == Spec => []MapComplete
BY MapInvComplete, InductiveHolds, PTL

\* The orphan error is raised only for a byte that no stream covers.
THEOREM OrphansAreReal == Spec => []OrphanIsReal
BY MapInvOrphan, InductiveHolds, PTL
-----------------------------------------------------------------------------
(* The least and the greatest of a set of numbers                          *)

LEMMA LeastIs ==
    ASSUME NEW S, S \subseteq Nat, S # {}
    PROVE  Min(S) \in S /\ \A x \in S : Min(S) <= x
<1> DEFINE Less == {ss \in Nat \X Nat : ss[1] < ss[2]}
<1>1. IsWellFoundedOn(Less, Nat)
  BY NatLessThanWellFounded, Zenon DEF OpToRel
<1>2. PICK m \in S : \A x \in S : <<x, m>> \notin Less
  <2> HIDE DEF Less
  <2>1. QED BY <1>1, WFMin, Zenon
<1>3. ASSUME NEW x \in S PROVE m <= x
  <2>1. x \in Nat /\ m \in Nat
    OBVIOUS
  <2>2. <<x, m>> \in Less <=> x < m
    BY <2>1
  <2>3. QED BY <1>2, <2>1, <2>2
<1>4. QED BY <1>3 DEF Min

LEMMA GreatestIs ==
    ASSUME NEW S, S \subseteq Nat, S # {}, NEW b \in Nat, \A x \in S : x <= b
    PROVE  Max(S) \in S /\ \A x \in S : x <= Max(S)
<1> DEFINE T == {b - x : x \in S}
<1>1. T \subseteq Nat /\ T # {}
  <2>1. \A x \in S : b - x \in Nat
    OBVIOUS
  <2>2. QED BY <2>1
<1>2. PICK m \in T : \A y \in T : m <= y
  <2> HIDE DEF T
  <2>1. QED BY <1>1, LeastIs
<1>3. PICK x \in S : m = b - x
  OBVIOUS
<1>4. \A y \in S : y <= x
  BY <1>2, <1>3
<1>5. QED BY <1>4 DEF Max
-----------------------------------------------------------------------------
(* What the parser has accepted                                            *)

\* A container that was found at b and that parse_wd3 does not refuse.
Accepted(d, b) ==
    /\ d \in Seq(Nat) /\ b \in Nat
    /\ Blob!At(d, b) = WD3
    /\ Blob!Valid(d, b)
    /\ Blob!At(d, b + SizeCell) < Radix
    /\ Blob!StructureEnd(d, b) <= Blob!BodyStart(d, b)

First(d, b) == Min(Blob!Pointers(d, b))
Last(d, b) == Max(Blob!Pointers(d, b))

LEMMA AcceptedHead ==
    ASSUME NEW d, NEW b, Accepted(d, b)
    PROVE  /\ b \in Nat /\ Blob!Count(d, b) \in 1 .. MaxStreams
           /\ Blob!TotalSize(d, b) \in Nat
           /\ HeadSize + Blob!Count(d, b) <= Blob!TotalSize(d, b)
           /\ b + Blob!TotalSize(d, b) <= Len(d)
           /\ \A x \in 0 .. Blob!TotalSize(d, b) - 1 : Blob!At(d, b + x) \in Nat
<1>1. Len(d) \in Nat /\ b \in Nat /\ b + 7 <= Len(d)
  BY DEF Accepted, Blob!Valid, Blob!HeadSize, HeadSize
<1>2. \A x \in Nat : x < Len(d) => Blob!At(d, x) \in Nat
  BY DEF Accepted, Blob!At
<1>3. Blob!TotalSize(d, b) \in Nat
  BY <1>1, <1>2, RoundTripAssumption DEF Blob!TotalSize, Blob!SizeCell, Blob!HighCell
<1>4. /\ Blob!Count(d, b) \in 1 .. MaxStreams
      /\ HeadSize + Blob!Count(d, b) <= Blob!TotalSize(d, b)
      /\ b + Blob!TotalSize(d, b) <= Len(d)
  BY DEF Accepted, Blob!Valid, Blob!TableEnd, Blob!HeadSize, HeadSize
<1>5. ASSUME NEW x \in 0 .. Blob!TotalSize(d, b) - 1
      PROVE  Blob!At(d, b + x) \in Nat
  <2>1. b + x \in Nat /\ b + x < Len(d)
    BY <1>1, <1>3, <1>4
  <2>2. QED BY <1>2, <2>1
<1>6. QED BY <1>1, <1>3, <1>4, <1>5

LEMMA AcceptedStreams ==
    ASSUME NEW d, NEW b, Accepted(d, b), NEW i \in 1 .. Blob!Count(d, b)
    PROVE  /\ Blob!Pointer(d, b, i) \in Nat
           /\ HeadSize + Blob!Count(d, b) <= Blob!Pointer(d, b, i)
           /\ Blob!Pointer(d, b, i) + StreamHead <= Blob!TotalSize(d, b)
           /\ Blob!StartField(d, b, i) \in Nat
           /\ Blob!StartField(d, b, i) < Blob!TotalSize(d, b)
           /\ Blob!EndField(d, b, i) \in Nat
           /\ \/ Blob!EndField(d, b, i) = 0
              \/ Blob!EndField(d, b, i) \in Blob!StartField(d, b, i) .. Blob!TotalSize(d, b)
           /\ Blob!At(d, b + Blob!Pointer(d, b, i) + 2) \in Nat
<1>1. /\ HeadSize + Blob!Count(d, b) <= Blob!Pointer(d, b, i)
      /\ Blob!Pointer(d, b, i) + StreamHead <= Blob!TotalSize(d, b)
      /\ Blob!StartField(d, b, i) < Blob!TotalSize(d, b)
      /\ \/ Blob!EndField(d, b, i) = 0
         \/ Blob!EndField(d, b, i) \in Blob!StartField(d, b, i) .. Blob!TotalSize(d, b)
  BY DEF Accepted, Blob!Valid, Blob!TableEnd, Blob!HeadSize, HeadSize, Blob!StreamHead, StreamHead
<1>2. Blob!Pointer(d, b, i) \in Nat
  <2>1. HeadSize + i - 1 \in 0 .. Blob!TotalSize(d, b) - 1
    BY AcceptedHead DEF HeadSize
  <2>2. Blob!Pointer(d, b, i) = Blob!At(d, b + (HeadSize + i - 1))
    BY <2>1, AcceptedHead DEF Blob!Pointer, Blob!HeadSize, HeadSize
  <2>3. QED BY <2>1, <2>2, AcceptedHead
<1>3. \A k \in 0 .. 2 : Blob!At(d, b + Blob!Pointer(d, b, i) + k) \in Nat
  <2> DEFINE p == Blob!Pointer(d, b, i)
  <2>1. \A k \in 0 .. 2 : p + k \in 0 .. Blob!TotalSize(d, b) - 1
    BY <1>1, <1>2, AcceptedHead DEF StreamHead
  <2>2. \A k \in 0 .. 2 : b + (p + k) = b + p + k
    BY <1>2, AcceptedHead
  <2> HIDE DEF p
  <2>3. \A k \in 0 .. 2 : Blob!At(d, b + p + k) \in Nat
    BY <2>1, <2>2, AcceptedHead
  <2>4. QED BY <2>3 DEF p
<1>4. Blob!StartField(d, b, i) \in Nat /\ Blob!EndField(d, b, i) \in Nat
  <2>1. Blob!At(d, b + Blob!Pointer(d, b, i) + 0) = Blob!EndField(d, b, i)
    BY <1>2, AcceptedHead DEF Blob!EndField
  <2>2. QED BY <1>3, <2>1 DEF Blob!StartField
<1>5. QED BY <1>1, <1>2, <1>3, <1>4

\* Where the structure and the body begin and end.
LEMMA AcceptedParts ==
    ASSUME NEW d, NEW b, Accepted(d, b)
    PROVE  /\ First(d, b) \in Nat /\ Last(d, b) \in Nat
           /\ HeadSize + Blob!Count(d, b) <= First(d, b)
           /\ First(d, b) <= Last(d, b)
           /\ \A i \in 1 .. Blob!Count(d, b) :
                  First(d, b) <= Blob!Pointer(d, b, i) /\ Blob!Pointer(d, b, i) <= Last(d, b)
           /\ Blob!StructureEnd(d, b) = Last(d, b) + StreamHead
           /\ Blob!BodyStart(d, b) \in Nat
           /\ \A i \in 1 .. Blob!Count(d, b) : Blob!BodyStart(d, b) <= Blob!StartField(d, b, i)
           /\ \E i \in 1 .. Blob!Count(d, b) : Blob!BodyStart(d, b) = Blob!StartField(d, b, i)
           /\ Last(d, b) + StreamHead <= Blob!BodyStart(d, b)
           /\ Blob!BodyStart(d, b) < Blob!TotalSize(d, b)
<1> DEFINE n == Blob!Count(d, b)
<1> DEFINE P == Blob!Pointers(d, b)
<1> DEFINE S == Blob!Starts(d, b)
<1>1. n \in Nat /\ 1 \in 1 .. n
  BY AcceptedHead
<1>2. P \subseteq Nat /\ P # {} /\ \A x \in P : x <= Blob!TotalSize(d, b)
  BY <1>1, AcceptedStreams, AcceptedHead DEF Blob!Pointers, StreamHead
<1>3. S \subseteq Nat /\ S # {}
  BY <1>1, AcceptedStreams DEF Blob!Starts
<1>4. First(d, b) \in P /\ \A x \in P : First(d, b) <= x
  <2> HIDE DEF P
  <2>1. Min(P) \in P /\ \A x \in P : Min(P) <= x
    BY <1>2, LeastIs
  <2>2. QED BY <2>1 DEF First, P
<1>5. Last(d, b) \in P /\ \A x \in P : x <= Last(d, b)
  <2> HIDE DEF P
  <2>1. Max(P) \in P /\ \A x \in P : x <= Max(P)
    BY <1>2, AcceptedHead, GreatestIs
  <2>2. QED BY <2>1 DEF Last, P
<1>6. Blob!BodyStart(d, b) \in S /\ \A x \in S : Blob!BodyStart(d, b) <= x
  <2> HIDE DEF S
  <2>1. Min(S) \in S /\ \A x \in S : Min(S) <= x
    BY <1>3, LeastIs
  <2>2. QED BY <2>1 DEF Blob!BodyStart, S, Blob!Min, Min
<1>7. Blob!StructureEnd(d, b) = Last(d, b) + StreamHead
  BY DEF Blob!StructureEnd, Last, Blob!Max, Max, Blob!StreamHead, StreamHead
<1>8. \A i \in 1 .. n : Blob!Pointer(d, b, i) \in P /\ Blob!StartField(d, b, i) \in S
  BY DEF Blob!Pointers, Blob!Starts
<1>9. PICK i \in 1 .. n : First(d, b) = Blob!Pointer(d, b, i)
  BY <1>4 DEF Blob!Pointers
<1>10. PICK j \in 1 .. n : Blob!BodyStart(d, b) = Blob!StartField(d, b, j)
  BY <1>6 DEF Blob!Starts
<1>11. Last(d, b) + StreamHead <= Blob!BodyStart(d, b)
  BY <1>7 DEF Accepted
<1>12. HeadSize + n <= First(d, b) /\ Blob!BodyStart(d, b) < Blob!TotalSize(d, b)
  BY <1>9, <1>10, AcceptedStreams
<1> HIDE DEF n, P, S
<1>13. QED BY <1>2, <1>3, <1>4, <1>5, <1>6, <1>7, <1>8, <1>10, <1>11, <1>12 DEF n
-----------------------------------------------------------------------------
(* What the writer makes of it                                             *)

Written(c) == Blob!Structure(c) \o c.prefixGap \o c.body

\* The offset x lies behind the first stream header under none of them.
Uncovered(c, x) ==
    /\ x \in Blob!Min(Blob!Range(c.ptrs)) .. Blob!Max(Blob!Range(c.ptrs))
    /\ Blob!HeadersAt(c, x) = {}

\* c is what parse_wd3 makes of the container at b.
ParsedFrom(c, d, b) == Accepted(d, b) /\ c = Blob!Parsed(d, b)

LEMMA ParsedPointers ==
    ASSUME NEW d, NEW b, Accepted(d, b), NEW c, c = Blob!Parsed(d, b)
    PROVE  /\ c.count = Blob!Count(d, b) /\ c.total = Blob!TotalSize(d, b)
           /\ \A i \in 1 .. c.count : c.ptrs[i] = Blob!Pointer(d, b, i)
           /\ Blob!Min(Blob!Range(c.ptrs)) = First(d, b)
           /\ Blob!Max(Blob!Range(c.ptrs)) = Last(d, b)
<1>1. /\ c.count = Blob!Count(d, b) /\ c.total = Blob!TotalSize(d, b)
      /\ c.ptrs = [i \in 1 .. c.count |-> Blob!Pointer(d, b, i)]
  BY DEF Blob!Parsed
<1>2. Blob!Range(c.ptrs) = Blob!Pointers(d, b)
  BY <1>1 DEF Blob!Range, Blob!Pointers
<1>3. QED BY <1>1, <1>2 DEF First, Last, Blob!Min, Blob!Max, Min, Max

LEMMA SliceIs ==
    ASSUME NEW d \in Seq(Nat), NEW a \in Nat, NEW e \in Nat, a <= e, e <= Len(d)
    PROVE  /\ Blob!Slice(d, a, e) \in Seq(Nat)
           /\ Len(Blob!Slice(d, a, e)) = e - a
           /\ \A x \in 0 .. e - a - 1 : Blob!At(Blob!Slice(d, a, e), x) = Blob!At(d, a + x)
<1> DEFINE s == SubSeq(d, a + 1, e)
<1>1. \A i \in a + 1 .. e : d[i] \in Nat
  OBVIOUS
<1>2. a + 1 \in Int /\ e \in Int
  OBVIOUS
<1>3. /\ s \in Seq(Nat) /\ Len(s) = IF a + 1 <= e THEN e - (a + 1) + 1 ELSE 0
      /\ \A i \in 1 .. e - (a + 1) + 1 : s[i] = d[a + 1 + i - 1]
  BY <1>1, <1>2, SubSeqProperties
<1> HIDE DEF s
<1>4. Len(s) = e - a /\ \A i \in 1 .. e - a : s[i] = d[a + i]
  BY <1>3
<1>5. \A x \in 0 .. e - a - 1 : s[x + 1] = d[a + x + 1]
  BY <1>4
<1>6. QED BY <1>3, <1>4, <1>5 DEF Blob!Slice, Blob!At, s

\* The two halves of total_size come back from their sum.
LEMMA HalfWord ==
    ASSUME NEW r \in Nat, 0 < r, NEW a \in Nat, a < r, NEW h \in Nat
    PROVE  (a + r * h) % r = a
<1> DEFINE y == a + r * h
<1> DEFINE q == y \div r
<1> DEFINE m == y % r
<1>1. r * h \in Int /\ y \in Nat
  OBVIOUS
<1>2. y = r * q + m /\ q \in Int /\ m \in Nat /\ m < r
  <2> HIDE DEF y
  <2>1. QED BY <1>1
<1>3. y = a + r * h
  OBVIOUS
<1> HIDE DEF y, q, m
<1>4. r * h - r * q = r * (h - q) /\ r * q \in Int /\ h - q \in Int
  BY <1>2
<1>5. r * (h - q) = m - a
  BY <1>1, <1>2, <1>3, <1>4
<1>6. (1 <= h - q => r <= r * (h - q)) /\ (h - q <= -1 => r * (h - q) <= -r)
  <2> DEFINE k == h - q
  <2>1. k \in Int
    BY <1>4
  <2> HIDE DEF k
  <2>2. (1 <= k => r <= r * k) /\ (k <= -1 => r * k <= -r)
    BY <2>1
  <2>3. QED BY <2>2 DEF k
<1>7. h - q = 0
  BY <1>2, <1>4, <1>5, <1>6
<1>8. m = a
  <2>1. r * 0 = 0
    OBVIOUS
  <2>2. QED BY <1>2, <1>5, <1>7, <2>1
<1>9. QED BY <1>8 DEF m, y

LEMMA StructureLength ==
    ASSUME NEW d, NEW b, Accepted(d, b), NEW c, c = Blob!Parsed(d, b)
    PROVE  DOMAIN Blob!Structure(c) = 1 .. Last(d, b) + StreamHead
BY ParsedPointers, AcceptedParts DEF Blob!Structure, Blob!StreamHead, StreamHead

\* Under a stream header the writer puts the cell that was there, whichever
\* of several headers comes last.
LEMMA CoveredCell ==
    ASSUME NEW d, NEW b, Accepted(d, b), NEW c, c = Blob!Parsed(d, b),
           NEW x \in 0 .. Last(d, b) + StreamHead - 1,
           Blob!HeadersAt(c, x) # {}
    PROVE  Blob!At(Blob!Structure(c), x) = Blob!At(d, b + x)
<1> DEFINE H == Blob!HeadersAt(c, x)
<1> DEFINE i == Blob!Max(H)
<1>1. H \subseteq 1 .. Blob!Count(d, b) /\ H # {} /\ Blob!Count(d, b) \in Nat
  BY ParsedPointers, AcceptedHead DEF Blob!HeadersAt
<1>2. i \in H
  <2> HIDE DEF H
  <2>1. H \subseteq Nat /\ \A k \in H : k <= Blob!Count(d, b)
    BY <1>1
  <2>2. Max(H) \in H
    BY <1>1, <2>1, GreatestIs
  <2>3. QED BY <2>2 DEF Max, Blob!Max
<1>3. i \in 1 .. Blob!Count(d, b) /\ c.ptrs[i] = Blob!Pointer(d, b, i)
  BY <1>1, <1>2, ParsedPointers
<1>4. /\ Blob!Pointer(d, b, i) \in Nat
      /\ x \in Blob!Pointer(d, b, i) .. Blob!Pointer(d, b, i) + 2
  <2>1. x \in c.ptrs[i] .. c.ptrs[i] + 3 - 1
    BY <1>2 DEF Blob!HeadersAt, Blob!StreamHead
  <2> HIDE DEF i
  <2>2. QED BY <1>3, <2>1, AcceptedStreams
<1>5. Blob!At(Blob!Structure(c), x) = Blob!At(Blob!StreamCells(c.streams[i]), x - c.ptrs[i])
  <2>1. x + 1 \in 1 .. Blob!Max(Blob!Range(c.ptrs)) + Blob!StreamHead /\ x + 1 - 1 = x
    BY ParsedPointers, AcceptedParts DEF Blob!StreamHead, StreamHead
  <2>2. QED BY <2>1 DEF Blob!Structure, Blob!At
<1> HIDE DEF i, H
<1>6. c.streams[i] = Blob!Stream(d, b, i)
  BY <1>3 DEF Blob!Parsed
<1> DEFINE p == Blob!Pointer(d, b, i)
<1>7. Blob!StreamCells(c.streams[i])
          = <<Blob!At(d, b + p), Blob!At(d, b + p + 1), Blob!At(d, b + p + 2)>>
  BY <1>6 DEF Blob!StreamCells, Blob!Stream, Blob!EndField, Blob!StartField
<1>8. p \in Nat /\ x \in p .. p + 2 /\ c.ptrs[i] = p /\ b \in Nat
  BY <1>3, <1>4, AcceptedHead
<1> HIDE DEF p
<1>9. CASE x = p
  BY <1>5, <1>7, <1>8, <1>9 DEF Blob!At
<1>10. CASE x = p + 1
  BY <1>5, <1>7, <1>8, <1>10 DEF Blob!At
<1>11. CASE x = p + 2
  BY <1>5, <1>7, <1>8, <1>11 DEF Blob!At
<1>12. QED BY <1>8, <1>9, <1>10, <1>11

\* The three pieces of a container that are kept as they are.
LEMMA ParsedPieces ==
    ASSUME NEW d, NEW b, Accepted(d, b), NEW c, c = Blob!Parsed(d, b)
    PROVE  LET n == Blob!Count(d, b)
               gap == Last(d, b) + StreamHead
               start == Blob!BodyStart(d, b)
           IN  /\ c.tableGap \in Seq(Nat)
               /\ Len(c.tableGap) = First(d, b) - (HeadSize + n)
               /\ \A x \in 0 .. First(d, b) - (HeadSize + n) - 1 :
                      Blob!At(c.tableGap, x) = Blob!At(d, b + (HeadSize + n) + x)
               /\ c.prefixGap \in Seq(Nat)
               /\ Len(c.prefixGap) = start - gap
               /\ \A x \in 0 .. start - gap - 1 :
                      Blob!At(c.prefixGap, x) = Blob!At(d, b + gap + x)
               /\ c.body \in Seq(Nat)
               /\ Len(c.body) = Blob!TotalSize(d, b) - start
               /\ \A x \in 0 .. Blob!TotalSize(d, b) - start - 1 :
                      Blob!At(c.body, x) = Blob!At(d, b + start + x)
<1> DEFINE t == HeadSize + Blob!Count(d, b)
<1> DEFINE f == First(d, b)
<1> DEFINE gap == Last(d, b) + StreamHead
<1> DEFINE start == Blob!BodyStart(d, b)
<1> DEFINE total == Blob!TotalSize(d, b)
<1>1. /\ d \in Seq(Nat) /\ b \in Nat /\ t \in Nat /\ f \in Nat /\ gap \in Nat
      /\ start \in Nat /\ total \in Nat
      /\ t <= f /\ f <= gap /\ gap <= start /\ start <= total /\ b + total <= Len(d)
  <2>1. d \in Seq(Nat) /\ b \in Nat
    BY DEF Accepted
  <2>2. /\ Blob!Count(d, b) \in Nat /\ f \in Nat /\ Last(d, b) \in Nat /\ f <= Last(d, b)
        /\ t <= f /\ start \in Nat /\ gap <= start
    BY AcceptedHead, AcceptedParts
  <2>3. total \in Nat /\ start < total /\ b + total <= Len(d)
    BY AcceptedHead, AcceptedParts
  <2>4. t \in Nat /\ gap \in Nat /\ f <= gap
    BY <2>2 DEF HeadSize, StreamHead
  <2> HIDE DEF t, f, gap, start, total
  <2>5. QED BY <2>1, <2>2, <2>3, <2>4
<1>2. /\ c.tableGap = Blob!Slice(d, b + t, b + f)
      /\ c.prefixGap = Blob!Slice(d, b + gap, b + start)
      /\ c.body = Blob!Slice(d, b + start, b + total)
  <2>1. /\ Blob!TableEnd(Blob!Count(d, b)) = t
        /\ Blob!Min(Blob!Pointers(d, b)) = f
        /\ Blob!StructureEnd(d, b) = gap
    BY AcceptedParts DEF Blob!TableEnd, Blob!HeadSize, HeadSize, First, Blob!Min, Min
  <2> HIDE DEF t, f, gap
  <2>2. QED BY <2>1 DEF Blob!Parsed
<1> HIDE DEF t, f, gap, start, total
<1>3. Len(d) \in Nat
  BY <1>1
<1>4. /\ Blob!Slice(d, b + t, b + f) \in Seq(Nat)
      /\ Len(Blob!Slice(d, b + t, b + f)) = (b + f) - (b + t)
      /\ \A x \in 0 .. (b + f) - (b + t) - 1 :
             Blob!At(Blob!Slice(d, b + t, b + f), x) = Blob!At(d, b + t + x)
  <2>1. b + t \in Nat /\ b + f \in Nat /\ b + t <= b + f /\ b + f <= Len(d)
    BY <1>1, <1>3
  <2>2. QED BY <1>1, <2>1, SliceIs
<1>5. /\ Blob!Slice(d, b + gap, b + start) \in Seq(Nat)
      /\ Len(Blob!Slice(d, b + gap, b + start)) = (b + start) - (b + gap)
      /\ \A x \in 0 .. (b + start) - (b + gap) - 1 :
             Blob!At(Blob!Slice(d, b + gap, b + start), x) = Blob!At(d, b + gap + x)
  <2>1. b + gap \in Nat /\ b + start \in Nat /\ b + gap <= b + start /\ b + start <= Len(d)
    BY <1>1, <1>3
  <2>2. QED BY <1>1, <2>1, SliceIs
<1>6. /\ Blob!Slice(d, b + start, b + total) \in Seq(Nat)
      /\ Len(Blob!Slice(d, b + start, b + total)) = (b + total) - (b + start)
      /\ \A x \in 0 .. (b + total) - (b + start) - 1 :
             Blob!At(Blob!Slice(d, b + start, b + total), x) = Blob!At(d, b + start + x)
  <2>1. b + start \in Nat /\ b + total \in Nat /\ b + start <= b + total /\ b + total <= Len(d)
    BY <1>1, <1>3
  <2>2. QED BY <1>1, <2>1, SliceIs
<1>7. /\ (b + f) - (b + t) = f - t
      /\ (b + start) - (b + gap) = start - gap
      /\ (b + total) - (b + start) = total - start
  BY <1>1
<1>8. QED BY <1>2, <1>4, <1>5, <1>6, <1>7 DEF t, f, gap, start, total

\* Where no stream header lies the writer puts the header, the table or its
\* gap, and between stream headers it puts nothing.
LEMMA OpenCell ==
    ASSUME NEW d, NEW b, Accepted(d, b), NEW c, c = Blob!Parsed(d, b),
           NEW x \in 0 .. Last(d, b) + StreamHead - 1,
           Blob!HeadersAt(c, x) = {}
    PROVE  /\ x <= Last(d, b)
           /\ x = WordCell => Blob!At(Blob!Structure(c), x) = Blob!At(d, b + HighCell)
           /\ First(d, b) <= x => Blob!At(Blob!Structure(c), x) = 0
           /\ x < First(d, b) /\ x # WordCell =>
                  Blob!At(Blob!Structure(c), x) = Blob!At(d, b + x)
<1> DEFINE n == Blob!Count(d, b)
<1> DEFINE f == First(d, b)
<1> DEFINE v == Blob!At(Blob!Structure(c), x)
<1>1. n \in Nat /\ f \in Nat /\ 7 + n <= f /\ b \in Nat /\ Last(d, b) \in Nat /\ x \in Nat
  BY AcceptedHead, AcceptedParts DEF HeadSize, StreamHead
<1>2. x <= Last(d, b)
  <2>1. PICK i \in 1 .. n : Last(d, b) = Blob!Pointer(d, b, i)
    <3>1. Last(d, b) \in Blob!Pointers(d, b)
      <4> DEFINE P == Blob!Pointers(d, b)
      <4>1. P \subseteq Nat /\ P # {} /\ \A y \in P : y <= Blob!TotalSize(d, b)
        BY AcceptedStreams, AcceptedHead DEF Blob!Pointers, StreamHead
      <4> HIDE DEF P
      <4>2. Max(P) \in P
        BY <4>1, AcceptedHead, GreatestIs
      <4>3. QED BY <4>2 DEF Last, P
    <3>2. QED BY <3>1 DEF Blob!Pointers
  <2>2. i \in 1 .. c.count /\ c.ptrs[i] = Last(d, b)
    BY <2>1, ParsedPointers
  <2>3. x \notin Last(d, b) .. Last(d, b) + 3 - 1
    BY <2>2 DEF Blob!HeadersAt, Blob!StreamHead
  <2>4. QED BY <1>1, <2>3 DEF StreamHead
<1>3. v = CASE x < 7 -> Blob!At(Blob!Header(c), x)
            [] ~(x < 7) /\ x \in 7 .. 7 + n - 1 -> c.ptrs[x - 7 + 1]
            [] ~(x < 7) /\ x \in 7 + n .. f - 1 -> Blob!At(c.tableGap, x - (7 + n))
            [] OTHER -> 0
  <2>1. /\ x + 1 \in 1 .. Blob!Max(Blob!Range(c.ptrs)) + Blob!StreamHead /\ x + 1 - 1 = x
        /\ Blob!Min(Blob!Range(c.ptrs)) = f /\ c.count = n
    BY <1>1, ParsedPointers, AcceptedParts DEF Blob!StreamHead, StreamHead
  <2> HIDE DEF n, f
  <2>2. QED
    BY <1>1, <2>1 DEF Blob!Structure, Blob!At, Blob!HeadSize, Blob!TableEnd
<1> HIDE DEF v, f
<1>4. CASE x < 7
  <2>1. v = Blob!At(Blob!Header(c), x)
    BY <1>3, <1>4
  <2>2. Blob!Header(c) = <<Blob!At(d, b), Blob!At(d, b + 1), Blob!At(d, b + 2), n,
                           Blob!At(d, b + 4), Blob!At(d, b + 2), Blob!At(d, b + 6)>>
    <3>1. Blob!TotalSize(d, b) % Radix = Blob!At(d, b + 1)
      <4> DEFINE a == Blob!At(d, b + 1)
      <4> DEFINE h == Blob!At(d, b + 2)
      <4>1. a \in Nat /\ h \in Nat
        <5>1. 1 \in 0 .. Blob!TotalSize(d, b) - 1 /\ 2 \in 0 .. Blob!TotalSize(d, b) - 1
          BY <1>1, AcceptedHead DEF HeadSize
        <5>2. QED BY <5>1, AcceptedHead
      <4>2. Blob!At(d, b + 1) < Radix /\ Radix \in Nat /\ 0 < Radix
        BY RoundTripAssumption DEF Accepted, SizeCell
      <4>3. Blob!TotalSize(d, b) = Blob!At(d, b + 1) + Radix * Blob!At(d, b + 2)
        BY DEF Blob!TotalSize, Blob!SizeCell, Blob!HighCell
      <4> HIDE DEF a, h
      <4>4. (a + Radix * h) % Radix = a
        BY <4>1, <4>2, HalfWord DEF a
      <4>5. QED BY <4>3, <4>4 DEF a, h
    <3>2. QED
      BY <3>1 DEF Blob!Header, Blob!Parsed, Blob!HighCell, Blob!CountsCell, Blob!SectionsCell
  <2>3. n = Blob!At(d, b + 3)
    BY DEF Blob!Count, Blob!CountCell
  <2>4. x # 5 => v = Blob!At(d, b + x)
    <3>1. x \in {0, 1, 2, 3, 4, 5, 6}
      BY <1>1, <1>4
    <3>2. b + 0 = b
      BY <1>1
    <3>3. QED BY <2>1, <2>2, <2>3, <3>1, <3>2 DEF Blob!At
  <2>5. x = 5 => v = Blob!At(d, b + 2)
    BY <2>1, <2>2 DEF Blob!At
  <2>6. QED BY <1>1, <1>2, <1>4, <2>4, <2>5 DEF v, f, WordCell, HighCell
<1>5. CASE ~(x < 7) /\ x <= 7 + n - 1
  <2>1. v = c.ptrs[x - 7 + 1]
    BY <1>1, <1>3, <1>5
  <2>2. x - 6 \in 1 .. n /\ x - 7 + 1 = x - 6
    BY <1>1, <1>5
  <2>3. v = Blob!Pointer(d, b, x - 6)
    BY <2>1, <2>2, ParsedPointers
  <2>4. v = Blob!At(d, b + x)
    <3>1. b + 7 + (x - 6) - 1 = b + x
      BY <1>1
    <3>2. QED BY <2>3, <3>1 DEF Blob!Pointer, Blob!HeadSize
  <2>5. QED BY <1>1, <1>2, <1>5, <2>4 DEF v, f, WordCell
<1>6. CASE ~(x <= 7 + n - 1) /\ x < f
  <2>1. v = Blob!At(c.tableGap, x - (7 + n))
    BY <1>1, <1>3, <1>6
  <2>2. x - (7 + n) \in 0 .. f - (7 + n) - 1
    BY <1>1, <1>6
  <2>3. v = Blob!At(d, b + (7 + n) + (x - (7 + n)))
    BY <2>1, <2>2, ParsedPieces DEF HeadSize, f
  <2>4. b + (7 + n) + (x - (7 + n)) = b + x
    BY <1>1
  <2>5. QED BY <1>1, <1>2, <1>6, <2>3, <2>4 DEF v, f, WordCell
<1>7. CASE f <= x
  <2>1. v = 0
    BY <1>1, <1>3, <1>7
  <2>2. QED BY <1>1, <1>2, <1>7, <2>1 DEF v, f, WordCell
<1>8. QED BY <1>1, <1>4, <1>5, <1>6, <1>7

LEMMA StructureCell ==
    ASSUME NEW d, NEW b, Accepted(d, b), NEW c, c = Blob!Parsed(d, b),
           NEW x \in 0 .. Last(d, b) + StreamHead - 1
    PROVE  /\ x = WordCell => Blob!At(Blob!Structure(c), x) = Blob!At(d, b + HighCell)
           /\ Uncovered(c, x) => Blob!At(Blob!Structure(c), x) = 0
           /\ x # WordCell /\ ~Uncovered(c, x) =>
                  Blob!At(Blob!Structure(c), x) = Blob!At(d, b + x)
<1>1. /\ First(d, b) \in Nat /\ Last(d, b) \in Nat /\ 7 < First(d, b)
      /\ Blob!Min(Blob!Range(c.ptrs)) = First(d, b)
      /\ Blob!Max(Blob!Range(c.ptrs)) = Last(d, b)
  BY AcceptedHead, AcceptedParts, ParsedPointers DEF HeadSize
<1>2. x \in Int
  BY <1>1
<1>3. CASE Blob!HeadersAt(c, x) = {}
  <2>1. Uncovered(c, x) <=> First(d, b) <= x
    BY <1>1, <1>2, <1>3, OpenCell DEF Uncovered
  <2>2. QED BY <1>1, <1>2, <1>3, <2>1, OpenCell DEF WordCell
<1>4. CASE Blob!HeadersAt(c, x) # {}
  <2>1. x # WordCell
    <3>1. PICK i \in 1 .. c.count : x \in c.ptrs[i] .. c.ptrs[i] + Blob!StreamHead - 1
      BY <1>4 DEF Blob!HeadersAt
    <3>2. c.ptrs[i] \in Nat /\ First(d, b) <= c.ptrs[i]
      BY ParsedPointers, AcceptedParts, AcceptedStreams
    <3>3. QED BY <1>1, <3>1, <3>2 DEF WordCell, Blob!StreamHead
  <2>2. QED BY <1>4, <2>1, CoveredCell DEF Uncovered
<1>5. QED BY <1>3, <1>4

LEMMA StructureIs ==
    ASSUME NEW d, NEW b, Accepted(d, b), NEW c, c = Blob!Parsed(d, b)
    PROVE  /\ Blob!Structure(c) \in Seq(Nat)
           /\ Len(Blob!Structure(c)) = Last(d, b) + StreamHead
<1> DEFINE s == Blob!Structure(c)
<1> DEFINE n == Last(d, b) + StreamHead
<1>1. DOMAIN s = 1 .. n /\ n \in Nat /\ n <= Blob!TotalSize(d, b) /\ 7 < n
      /\ Blob!TotalSize(d, b) \in Nat
  BY StructureLength, AcceptedParts, AcceptedHead DEF StreamHead, HeadSize
<1>2. ASSUME NEW k \in 1 .. n PROVE s[k] \in Nat
  <2>1. k - 1 \in 0 .. n - 1 /\ k - 1 \in 0 .. Blob!TotalSize(d, b) - 1
    BY <1>1
  <2>2. Blob!At(d, b + (k - 1)) \in Nat /\ Blob!At(d, b + HighCell) \in Nat
    <3>1. HighCell \in 0 .. Blob!TotalSize(d, b) - 1
      BY <1>1 DEF HighCell
    <3>2. QED BY <2>1, <3>1, AcceptedHead
  <2>3. Blob!At(s, k - 1) \in Nat
    <3> DEFINE x == k - 1
    <3>1. x \in 0 .. Last(d, b) + StreamHead - 1
      BY <1>1, AcceptedParts DEF StreamHead
    <3> HIDE DEF x
    <3>2. /\ x = WordCell => Blob!At(s, x) = Blob!At(d, b + HighCell)
          /\ Uncovered(c, x) => Blob!At(s, x) = 0
          /\ x # WordCell /\ ~Uncovered(c, x) => Blob!At(s, x) = Blob!At(d, b + x)
      BY <3>1, StructureCell
    <3>3. Blob!At(d, b + x) \in Nat
      BY <2>2 DEF x
    <3> HIDE DEF s
    <3>4. Blob!At(s, x) \in Nat
      BY <2>2, <3>2, <3>3
    <3>5. QED BY <3>4 DEF x
  <2>4. Blob!At(s, k - 1) = s[k]
    BY <1>1 DEF Blob!At
  <2>5. QED BY <2>3, <2>4
<1>3. s = [k \in 1 .. n |-> s[k]]
  BY <1>1 DEF Blob!Structure
<1> HIDE DEF s, n
<1>4. s \in [1 .. n -> Nat]
  BY <1>2, <1>3
<1>5. s \in Seq(Nat) /\ Len(s) = n
  BY <1>1, <1>4
<1>6. QED BY <1>5 DEF s, n

\* The blob written has the source's cells, but for the word at +14 and the
\* holes between stream headers.
CellsSame(c, d, b) ==
    \A x \in 0 .. Blob!TotalSize(d, b) - 1 :
        x # WordCell /\ ~Uncovered(c, x) => Blob!At(Written(c), x) = Blob!At(d, b + x)

LEMMA WrittenIs ==
    ASSUME NEW d, NEW b, NEW c, ParsedFrom(c, d, b)
    PROVE  /\ Written(c) \in Seq(Nat)
           /\ Len(Written(c)) = Blob!TotalSize(d, b)
           /\ Len(Blob!Structure(c)) + Len(c.prefixGap) + Len(c.body) = Blob!TotalSize(d, b)
           /\ CellsSame(c, d, b)
<1> USE DEF ParsedFrom
<1> DEFINE s == Blob!Structure(c)
<1> DEFINE p == c.prefixGap
<1> DEFINE y == c.body
<1> DEFINE w == Written(c)
<1> DEFINE gap == Last(d, b) + StreamHead
<1> DEFINE start == Blob!BodyStart(d, b)
<1> DEFINE total == Blob!TotalSize(d, b)
<1>1. /\ gap \in Nat /\ start \in Nat /\ total \in Nat /\ b \in Nat
      /\ gap <= start /\ start < total
  BY AcceptedParts, AcceptedHead DEF StreamHead
<1>2. /\ s \in Seq(Nat) /\ Len(s) = gap
      /\ p \in Seq(Nat) /\ Len(p) = start - gap
      /\ y \in Seq(Nat) /\ Len(y) = total - start
  BY StructureIs, ParsedPieces
<1>3. w = s \o p \o y
  BY DEF Written
<1>4. ASSUME NEW x \in 0 .. gap - 1, x # WordCell, ~Uncovered(c, x)
      PROVE  Blob!At(s, x) = Blob!At(d, b + x)
  <2>1. x \in 0 .. Last(d, b) + StreamHead - 1
    BY <1>4, AcceptedParts DEF StreamHead
  <2>2. x # WordCell /\ ~Uncovered(c, x) => Blob!At(s, x) = Blob!At(d, b + x)
    BY <2>1, StructureCell
  <2>3. QED BY <1>4, <2>2
<1>5. ASSUME NEW x \in 0 .. start - gap - 1
      PROVE  Blob!At(p, x) = Blob!At(d, b + gap + x)
  BY ParsedPieces
<1>6. ASSUME NEW x \in 0 .. total - start - 1
      PROVE  Blob!At(y, x) = Blob!At(d, b + start + x)
  BY ParsedPieces
<1> HIDE DEF s, p, y, w, gap, start, total
<1>7. /\ s \o p \in Seq(Nat) /\ Len(s \o p) = start
      /\ \A k \in 1 .. start : (s \o p)[k] = IF k <= gap THEN s[k] ELSE p[k - gap]
  <2>1. /\ s \o p \in Seq(Nat)
        /\ Len(s \o p) = Len(s) + Len(p)
        /\ \A k \in 1 .. Len(s) + Len(p) :
               (s \o p)[k] = IF k <= Len(s) THEN s[k] ELSE p[k - Len(s)]
    BY <1>2, ConcatProperties
  <2>2. Len(s) = gap /\ Len(s) + Len(p) = start
    BY <1>1, <1>2
  <2>3. QED BY <2>1, <2>2
<1>8. /\ w \in Seq(Nat) /\ Len(w) = total
      /\ \A k \in 1 .. total : w[k] = IF k <= start THEN (s \o p)[k] ELSE y[k - start]
  <2> DEFINE sp == s \o p
  <2>0. sp \in Seq(Nat) /\ w = sp \o y /\ Len(sp) = start
    BY <1>3, <1>7
  <2> HIDE DEF sp
  <2>1. /\ sp \o y \in Seq(Nat)
        /\ Len(sp \o y) = Len(sp) + Len(y)
        /\ \A k \in 1 .. Len(sp) + Len(y) :
               (sp \o y)[k] = IF k <= Len(sp) THEN sp[k] ELSE y[k - Len(sp)]
    BY <1>2, <2>0, ConcatProperties
  <2>2. Len(sp) = start /\ Len(sp) + Len(y) = total
    BY <1>1, <1>2, <2>0
  <2>3. /\ w \in Seq(Nat) /\ Len(w) = total
        /\ \A k \in 1 .. total : w[k] = IF k <= start THEN sp[k] ELSE y[k - start]
    BY <2>0, <2>1, <2>2
  <2>4. QED BY <2>3 DEF sp
<1>9. ASSUME NEW x \in 0 .. total - 1, x # WordCell, ~Uncovered(c, x)
      PROVE  Blob!At(w, x) = Blob!At(d, b + x)
  <2>1. x \in Nat /\ x + 1 \in 1 .. total
    BY <1>1
  <2>2. CASE x < gap
    <3>1. w[x + 1] = s[x + 1]
      <4>1. x + 1 <= start /\ x + 1 <= gap /\ x + 1 \in 1 .. start
        BY <1>1, <2>1, <2>2
      <4>2. w[x + 1] = (s \o p)[x + 1]
        BY <1>8, <2>1, <4>1
      <4>3. (s \o p)[x + 1] = s[x + 1]
        BY <1>7, <4>1
      <4>4. QED BY <4>2, <4>3
    <3>2. QED BY <1>4, <1>9, <2>1, <2>2, <3>1, <1>1 DEF Blob!At
  <2>3. CASE gap <= x /\ x < start
    <3>1. w[x + 1] = p[x + 1 - gap]
      <4>1. x + 1 <= start /\ ~(x + 1 <= gap) /\ x + 1 \in 1 .. start
        BY <1>1, <2>1, <2>3
      <4>2. w[x + 1] = (s \o p)[x + 1]
        BY <1>8, <2>1, <4>1
      <4> DEFINE k == x + 1
      <4>3. k \in 1 .. start /\ ~(k <= gap)
        BY <4>1
      <4> HIDE DEF k
      <4>4. (s \o p)[k] = p[k - gap]
        BY <1>7, <4>3
      <4>5. QED BY <1>1, <2>1, <4>2, <4>4 DEF k
    <3>2. x - gap \in 0 .. start - gap - 1 /\ x - gap + 1 = x + 1 - gap
          /\ b + gap + (x - gap) = b + x
      BY <1>1, <2>1, <2>3
    <3>3. Blob!At(p, x - gap) = Blob!At(d, b + x)
      BY <1>5, <3>2
    <3>4. Blob!At(p, x - gap) = p[x + 1 - gap] /\ Blob!At(w, x) = w[x + 1]
      BY <3>2 DEF Blob!At
    <3>5. QED BY <3>1, <3>3, <3>4
  <2>4. CASE start <= x
    <3>1. w[x + 1] = y[x + 1 - start]
      BY <1>1, <1>8, <2>1, <2>4
    <3>2. x - start \in 0 .. total - start - 1 /\ x - start + 1 = x + 1 - start
          /\ b + start + (x - start) = b + x
      BY <1>1, <2>1, <2>4
    <3>3. Blob!At(y, x - start) = Blob!At(d, b + x)
      BY <1>6, <3>2
    <3>4. Blob!At(y, x - start) = y[x + 1 - start] /\ Blob!At(w, x) = w[x + 1]
      BY <3>2 DEF Blob!At
    <3>5. QED BY <3>1, <3>3, <3>4
  <2>5. QED BY <1>1, <2>1, <2>2, <2>3, <2>4
<1>10. Len(s) + Len(p) + Len(y) = total
  BY <1>1, <1>2
<1>11. CellsSame(c, d, b)
  BY <1>9 DEF CellsSame, w, total
<1>12. QED BY <1>8, <1>10, <1>11 DEF s, p, y, w, total

\* No check of the writer fails on what the parser has kept.
LEMMA WriterAccepts ==
    ASSUME NEW d, NEW b, NEW c, ParsedFrom(c, d, b)
    PROVE  Blob!StructureHolds(c)
<1> USE DEF ParsedFrom
<1>1. /\ c.count = Blob!Count(d, b) /\ c.total = Blob!TotalSize(d, b)
      /\ Blob!Min(Blob!Range(c.ptrs)) = First(d, b)
  BY ParsedPointers
<1>2. HeadSize + Blob!Count(d, b) <= First(d, b)
  BY AcceptedParts
<1>3. Len(c.tableGap) = First(d, b) - (HeadSize + Blob!Count(d, b))
  BY ParsedPieces
<1>4. Len(Blob!Structure(c)) + Len(c.prefixGap) + Len(c.body) = c.total
  BY <1>1, WrittenIs
<1>5. QED
  BY <1>1, <1>2, <1>3, <1>4 DEF Blob!StructureHolds, Blob!TableEnd, Blob!HeadSize, HeadSize
-----------------------------------------------------------------------------
(* What was written, read again                                            *)

CellsEqual(d, a, w, k, n) == \A x \in 0 .. n - 1 : Blob!At(d, a + x) = Blob!At(w, k + x)

LEMMA SameSlice ==
    ASSUME NEW d \in Seq(Nat), NEW w \in Seq(Nat), NEW a \in Nat, NEW k \in Nat,
           NEW n \in Nat, a + n <= Len(d), k + n <= Len(w), CellsEqual(d, a, w, k, n)
    PROVE  Blob!Slice(w, k, k + n) = Blob!Slice(d, a, a + n)
<1> DEFINE s == Blob!Slice(d, a, a + n)
<1> DEFINE t == Blob!Slice(w, k, k + n)
<1>1. a + n \in Nat /\ k + n \in Nat /\ a <= a + n /\ k <= k + n
      /\ (a + n) - a = n /\ (k + n) - k = n
  OBVIOUS
<1>2. /\ s \in Seq(Nat) /\ Len(s) = (a + n) - a
      /\ \A x \in 0 .. (a + n) - a - 1 : Blob!At(s, x) = Blob!At(d, a + x)
  BY <1>1, SliceIs
<1>3. /\ t \in Seq(Nat) /\ Len(t) = (k + n) - k
      /\ \A x \in 0 .. (k + n) - k - 1 : Blob!At(t, x) = Blob!At(w, k + x)
  BY <1>1, SliceIs
<1> HIDE DEF s, t
<1>4. ASSUME NEW i \in 1 .. Len(s) PROVE s[i] = t[i]
  <2>1. i - 1 \in 0 .. n - 1 /\ i - 1 + 1 = i
    BY <1>1, <1>2
  <2>2. Blob!At(s, i - 1) = Blob!At(t, i - 1)
    BY <1>1, <1>2, <1>3, <2>1 DEF CellsEqual
  <2>3. QED BY <2>1, <2>2 DEF Blob!At
<1>5. s = t
  BY <1>1, <1>2, <1>3, <1>4, SeqEqual
<1>6. QED BY <1>5 DEF s, t

\* The cells a reader looks at are in their place in what was written.
LEMMA CellsAgree ==
    ASSUME NEW d, NEW b, NEW c, ParsedFrom(c, d, b)
    PROVE  /\ \A x \in {0, 1, 2, 3, 4, 6} : Blob!At(Written(c), x) = Blob!At(d, b + x)
           /\ \A x \in 7 .. First(d, b) - 1 : Blob!At(Written(c), x) = Blob!At(d, b + x)
           /\ \A i \in 1 .. Blob!Count(d, b) : \A k \in 0 .. 2 :
                  Blob!At(Written(c), Blob!Pointer(d, b, i) + k)
                      = Blob!At(d, b + (Blob!Pointer(d, b, i) + k))
           /\ \A x \in Last(d, b) + StreamHead .. Blob!TotalSize(d, b) - 1 :
                  Blob!At(Written(c), x) = Blob!At(d, b + x)
<1> DEFINE f == First(d, b)
<1> DEFINE l == Last(d, b)
<1> DEFINE total == Blob!TotalSize(d, b)
<1>1. /\ f \in Nat /\ l \in Nat /\ total \in Nat /\ 7 < f /\ f <= l /\ l + 3 < total
      /\ Blob!Min(Blob!Range(c.ptrs)) = f /\ Blob!Max(Blob!Range(c.ptrs)) = l
  <2>1. Blob!BodyStart(d, b) \in Nat
    BY AcceptedParts DEF ParsedFrom
  <2>2. QED
    BY <2>1, AcceptedHead, AcceptedParts, ParsedPointers DEF HeadSize, StreamHead, ParsedFrom
<1> HIDE DEF f, l, total
<1>2. ASSUME NEW x \in 0 .. total - 1, x # 5, ~Uncovered(c, x)
      PROVE  Blob!At(Written(c), x) = Blob!At(d, b + x)
  <2>1. \A y \in 0 .. total - 1 :
            y # WordCell /\ ~Uncovered(c, y) => Blob!At(Written(c), y) = Blob!At(d, b + y)
    <3>1. CellsSame(c, d, b)
      BY WrittenIs
    <3>2. QED BY <3>1 DEF CellsSame, total
  <2>2. QED BY <1>2, <2>1 DEF WordCell
<1>3. ASSUME NEW x \in Nat, x < f \/ l < x PROVE ~Uncovered(c, x)
  BY <1>1, <1>3 DEF Uncovered
<1>4. ASSUME NEW x \in {0, 1, 2, 3, 4, 6}
      PROVE  Blob!At(Written(c), x) = Blob!At(d, b + x)
  BY <1>1, <1>2, <1>3
<1>5. ASSUME NEW x \in 7 .. f - 1
      PROVE  Blob!At(Written(c), x) = Blob!At(d, b + x)
  BY <1>1, <1>2, <1>3
<1>6. ASSUME NEW i \in 1 .. Blob!Count(d, b), NEW k \in 0 .. 2
      PROVE  Blob!At(Written(c), Blob!Pointer(d, b, i) + k)
                 = Blob!At(d, b + (Blob!Pointer(d, b, i) + k))
  <2> DEFINE p == Blob!Pointer(d, b, i)
  <2> DEFINE x == p + k
  <2>1. p \in Nat /\ f <= p /\ p + 3 <= total /\ c.ptrs[i] = p /\ i \in 1 .. c.count
    BY AcceptedStreams, AcceptedParts, ParsedPointers DEF f, total, StreamHead, ParsedFrom
  <2> HIDE DEF p
  <2>2. x \in 0 .. total - 1 /\ x # 5 /\ x \in c.ptrs[i] .. c.ptrs[i] + 3 - 1
    BY <1>1, <2>1
  <2> HIDE DEF x
  <2>3. i \in Blob!HeadersAt(c, x)
    BY <2>1, <2>2 DEF Blob!HeadersAt, Blob!StreamHead
  <2>4. Blob!At(Written(c), x) = Blob!At(d, b + x)
    BY <1>2, <2>2, <2>3 DEF Uncovered
  <2>5. QED BY <2>4 DEF x, p
<1>7. ASSUME NEW x \in l + 3 .. total - 1
      PROVE  Blob!At(Written(c), x) = Blob!At(d, b + x)
  BY <1>1, <1>2, <1>3
<1>8. QED BY <1>4, <1>5, <1>6, <1>7 DEF f, l, total, StreamHead

\* The fields of the two are the same.
FieldsSame(w, d, b) ==
    /\ Blob!Count(w, 0) = Blob!Count(d, b)
    /\ Blob!TotalSize(w, 0) = Blob!TotalSize(d, b)
    /\ \A x \in {0, 1, 2, 4, 6} : Blob!At(w, 0 + x) = Blob!At(d, b + x)
    /\ \A i \in 1 .. Blob!Count(d, b) :
           /\ Blob!Pointer(w, 0, i) = Blob!Pointer(d, b, i)
           /\ Blob!EndField(w, 0, i) = Blob!EndField(d, b, i)
           /\ Blob!StartField(w, 0, i) = Blob!StartField(d, b, i)
           /\ Blob!At(w, 0 + Blob!Pointer(w, 0, i) + 2) = Blob!At(d, b + Blob!Pointer(d, b, i) + 2)

LEMMA FieldsAgree ==
    ASSUME NEW d, NEW b, NEW c, ParsedFrom(c, d, b)
    PROVE  FieldsSame(Written(c), d, b)
<1> DEFINE w == Written(c)
<1> DEFINE n == Blob!Count(d, b)
<1>1. /\ b \in Nat /\ n \in Nat /\ 7 + n <= First(d, b) /\ First(d, b) \in Nat
      /\ \A i \in 1 .. n : Blob!Pointer(d, b, i) \in Nat
  <2>1. Accepted(d, b)
    BY DEF ParsedFrom
  <2>2. b \in Nat /\ n \in 1 .. MaxStreams
    BY <2>1, AcceptedHead
  <2>3. HeadSize + n <= First(d, b) /\ First(d, b) \in Nat
    BY <2>1, AcceptedParts
  <2>4. \A i \in 1 .. n : Blob!Pointer(d, b, i) \in Nat
    BY <2>1, AcceptedStreams
  <2>5. QED BY <2>2, <2>3, <2>4 DEF HeadSize
<1>2. \A x \in {0, 1, 2, 3, 4, 6} : Blob!At(w, x) = Blob!At(d, b + x)
  BY CellsAgree
<1>3. \A x \in 7 .. First(d, b) - 1 : Blob!At(w, x) = Blob!At(d, b + x)
  BY CellsAgree
<1>4. \A i \in 1 .. n : \A k \in 0 .. 2 :
          Blob!At(w, Blob!Pointer(d, b, i) + k) = Blob!At(d, b + (Blob!Pointer(d, b, i) + k))
  BY CellsAgree
<1> HIDE DEF w, n
<1>5. /\ Blob!Count(w, 0) = n
      /\ Blob!TotalSize(w, 0) = Blob!TotalSize(d, b)
      /\ \A x \in {0, 1, 2, 4, 6} : Blob!At(w, 0 + x) = Blob!At(d, b + x)
  <2>1. \A x \in {0, 1, 2, 3, 4, 6} : Blob!At(w, 0 + x) = Blob!At(d, b + x)
    BY <1>2
  <2>2. /\ Blob!At(w, 0 + 3) = Blob!At(d, b + 3)
        /\ Blob!At(w, 0 + 1) = Blob!At(d, b + 1)
        /\ Blob!At(w, 0 + 2) = Blob!At(d, b + 2)
    BY <2>1
  <2>3. Blob!Count(w, 0) = n
    BY <2>2 DEF Blob!Count, Blob!CountCell, n
  <2>4. Blob!TotalSize(w, 0) = Blob!TotalSize(d, b)
    BY <2>2 DEF Blob!TotalSize, Blob!SizeCell, Blob!HighCell
  <2>5. QED BY <2>1, <2>3, <2>4
<1>6. ASSUME NEW i \in 1 .. n
      PROVE  Blob!Pointer(w, 0, i) = Blob!Pointer(d, b, i)
  <2> DEFINE x == HeadSize + i - 1
  <2>1. x \in 7 .. First(d, b) - 1 /\ 0 + HeadSize + i - 1 = x /\ b + HeadSize + i - 1 = b + x
    BY <1>1 DEF HeadSize
  <2> HIDE DEF x
  <2>2. Blob!At(w, x) = Blob!At(d, b + x)
    BY <1>3, <2>1
  <2>3. Blob!Pointer(w, 0, i) = Blob!At(w, x) /\ Blob!Pointer(d, b, i) = Blob!At(d, b + x)
    BY <2>1 DEF Blob!Pointer, Blob!HeadSize, HeadSize
  <2>4. QED BY <2>2, <2>3
<1>7. ASSUME NEW i \in 1 .. n
      PROVE  /\ Blob!EndField(w, 0, i) = Blob!EndField(d, b, i)
             /\ Blob!StartField(w, 0, i) = Blob!StartField(d, b, i)
             /\ Blob!At(w, 0 + Blob!Pointer(w, 0, i) + 2)
                    = Blob!At(d, b + Blob!Pointer(d, b, i) + 2)
  <2> DEFINE p == Blob!Pointer(d, b, i)
  <2>1. p \in Nat /\ Blob!Pointer(w, 0, i) = p
    BY <1>1, <1>6
  <2>2. \A k \in 0 .. 2 : Blob!At(w, p + k) = Blob!At(d, b + (p + k))
    BY <1>4
  <2> HIDE DEF p
  <2>3. /\ 0 + p = p + 0 /\ 0 + p + 1 = p + 1 /\ 0 + p + 2 = p + 2
        /\ b + p = b + (p + 0) /\ b + p + 1 = b + (p + 1) /\ b + p + 2 = b + (p + 2)
    BY <1>1, <2>1
  <2>4. /\ Blob!At(w, 0 + p) = Blob!At(d, b + p)
        /\ Blob!At(w, 0 + p + 1) = Blob!At(d, b + p + 1)
        /\ Blob!At(w, 0 + p + 2) = Blob!At(d, b + p + 2)
    BY <2>2, <2>3
  <2>5. QED BY <2>1, <2>4 DEF Blob!EndField, Blob!StartField, p
<1>8. QED BY <1>5, <1>6, <1>7 DEF FieldsSame, w, n

\* A blob that was written is accepted at its beginning, and parsed to what
\* it was written from.
LEMMA ReadAgain ==
    ASSUME NEW d, NEW b, NEW c, ParsedFrom(c, d, b)
    PROVE  ParsedFrom(c, Written(c), 0)
<1> DEFINE w == Written(c)
<1> DEFINE n == Blob!Count(d, b)
<1> DEFINE total == Blob!TotalSize(d, b)
<1>1. Accepted(d, b) /\ d \in Seq(Nat) /\ b \in Nat /\ c = Blob!Parsed(d, b)
  BY DEF ParsedFrom, Accepted
<1>2. w \in Seq(Nat) /\ Len(w) = total
  BY WrittenIs
<1>3. FieldsSame(w, d, b)
  BY FieldsAgree
<1>4. /\ n \in 1 .. MaxStreams /\ total \in Nat /\ HeadSize + n <= total
      /\ b + total <= Len(d)
  BY <1>1, AcceptedHead
<1> HIDE DEF w, n, total
<1>5. /\ Blob!Count(w, 0) = n /\ Blob!TotalSize(w, 0) = total
      /\ \A i \in 1 .. n :
             /\ Blob!Pointer(w, 0, i) = Blob!Pointer(d, b, i)
             /\ Blob!EndField(w, 0, i) = Blob!EndField(d, b, i)
             /\ Blob!StartField(w, 0, i) = Blob!StartField(d, b, i)
  BY <1>3 DEF FieldsSame, n, total
<1>6. Blob!Valid(w, 0)
  <2>1. 0 + HeadSize <= Len(w) /\ HeadSize + n <= total /\ 0 + total <= Len(w)
    BY <1>2, <1>4 DEF HeadSize
  <2>2. ASSUME NEW i \in 1 .. n
        PROVE  /\ HeadSize + n <= Blob!Pointer(w, 0, i)
               /\ Blob!Pointer(w, 0, i) + StreamHead <= total
               /\ Blob!StartField(w, 0, i) < total
               /\ \/ Blob!EndField(w, 0, i) = 0
                  \/ Blob!EndField(w, 0, i) \in Blob!StartField(w, 0, i) .. total
    <3>1. i \in 1 .. Blob!Count(d, b)
      BY DEF n
    <3>2. QED BY <1>1, <1>5, <3>1, AcceptedStreams DEF n, total
  <2>3. QED
    BY <1>4, <1>5, <2>1, <2>2
    DEF Blob!Valid, Blob!TableEnd, Blob!HeadSize, HeadSize, Blob!StreamHead, StreamHead
<1>7. /\ Blob!Pointers(w, 0) = Blob!Pointers(d, b)
      /\ Blob!Starts(w, 0) = Blob!Starts(d, b)
  BY <1>5 DEF Blob!Pointers, Blob!Starts, n
<1>8. /\ Blob!StructureEnd(w, 0) = Blob!StructureEnd(d, b)
      /\ Blob!BodyStart(w, 0) = Blob!BodyStart(d, b)
  BY <1>7 DEF Blob!StructureEnd, Blob!BodyStart
<1>9. Accepted(w, 0)
  <2>1. Blob!At(w, 0) = WD3
    <3>1. Blob!At(w, 0 + 0) = Blob!At(d, b + 0)
      BY <1>3 DEF FieldsSame
    <3>2. 0 + 0 = 0 /\ b + 0 = b
      BY <1>1
    <3>3. QED BY <1>1, <3>1, <3>2 DEF Accepted
  <2>2. Blob!At(w, 0 + SizeCell) < Radix
    BY <1>1, <1>3 DEF FieldsSame, Accepted, SizeCell
  <2>3. Blob!StructureEnd(w, 0) <= Blob!BodyStart(w, 0)
    BY <1>1, <1>8 DEF Accepted
  <2>4. QED BY <1>2, <1>6, <2>1, <2>2, <2>3 DEF Accepted
<1>10. Blob!Parsed(w, 0) = Blob!Parsed(d, b)
  <2> DEFINE t == HeadSize + n
  <2> DEFINE f == First(d, b)
  <2> DEFINE gap == Last(d, b) + StreamHead
  <2> DEFINE start == Blob!BodyStart(d, b)
  <2>1. /\ t \in Nat /\ f \in Nat /\ gap \in Nat /\ start \in Nat
        /\ 7 <= t /\ t <= f /\ f <= gap /\ gap <= start /\ start <= total
    <3>1. /\ f \in Nat /\ Last(d, b) \in Nat /\ start \in Nat
          /\ t <= f /\ f <= Last(d, b) /\ gap <= start /\ start <= total
      BY <1>1, <1>4, AcceptedParts DEF n, total
    <3> HIDE DEF f, start
    <3>2. QED BY <1>4, <3>1 DEF HeadSize, StreamHead
  <2>2. \A x \in 7 .. f - 1 : Blob!At(w, x) = Blob!At(d, b + x)
    BY CellsAgree DEF w
  <2>3. \A x \in gap .. total - 1 : Blob!At(w, x) = Blob!At(d, b + x)
    BY CellsAgree DEF w, total
  <2>4. /\ Blob!StructureEnd(d, b) = gap
        /\ Blob!TableEnd(n) = t
        /\ Blob!Min(Blob!Pointers(d, b)) = f
    BY <1>1, AcceptedParts DEF Blob!TableEnd, Blob!HeadSize, HeadSize, First, Blob!Min, Min
  <2> HIDE DEF t, f, gap, start
  <2>5. Blob!Slice(w, 0 + t, 0 + f) = Blob!Slice(d, b + t, b + f)
    <3> DEFINE k == f - t
    <3> DEFINE a == b + t
    <3>1. k \in Nat /\ t + k = f /\ a \in Nat /\ a + k = b + f /\ 0 + t = t /\ 0 + f = f
          /\ b + f <= Len(d) /\ f <= Len(w) /\ Len(d) \in Nat
      BY <1>1, <1>2, <1>4, <2>1
    <3>2. \A x \in 0 .. k - 1 : Blob!At(d, a + x) = Blob!At(w, t + x)
      <4>1. ASSUME NEW x \in 0 .. k - 1
            PROVE  t + x \in 7 .. f - 1 /\ a + x = b + (t + x)
        BY <1>1, <2>1
      <4>2. QED BY <2>2, <4>1
    <3> HIDE DEF k, a
    <3>3. Blob!Slice(w, t, t + k) = Blob!Slice(d, a, a + k)
      <4>1. a + k <= Len(d) /\ t + k <= Len(w)
        BY <1>2, <1>4, <3>1
      <4>2. CellsEqual(d, a, w, t, k)
        BY <3>2 DEF CellsEqual
      <4>3. QED BY <1>1, <1>2, <2>1, <3>1, <4>1, <4>2, SameSlice
    <3>4. QED BY <3>1, <3>3 DEF a
  <2>6. Blob!Slice(w, 0 + gap, 0 + start) = Blob!Slice(d, b + gap, b + start)
    <3> DEFINE k == start - gap
    <3> DEFINE a == b + gap
    <3>1. k \in Nat /\ gap + k = start /\ a \in Nat /\ a + k = b + start
          /\ 0 + gap = gap /\ 0 + start = start
          /\ b + start <= Len(d) /\ start <= Len(w) /\ Len(d) \in Nat
      BY <1>1, <1>2, <1>4, <2>1
    <3>2. \A x \in 0 .. k - 1 : Blob!At(d, a + x) = Blob!At(w, gap + x)
      <4>1. ASSUME NEW x \in 0 .. k - 1
            PROVE  gap + x \in gap .. total - 1 /\ a + x = b + (gap + x)
        BY <1>1, <1>4, <2>1
      <4>2. QED BY <2>3, <4>1
    <3> HIDE DEF k, a
    <3>3. Blob!Slice(w, gap, gap + k) = Blob!Slice(d, a, a + k)
      <4>1. a + k <= Len(d) /\ gap + k <= Len(w)
        BY <1>2, <1>4, <3>1
      <4>2. CellsEqual(d, a, w, gap, k)
        BY <3>2 DEF CellsEqual
      <4>3. QED BY <1>1, <1>2, <2>1, <3>1, <4>1, <4>2, SameSlice
    <3>4. QED BY <3>1, <3>3 DEF a
  <2>7. Blob!Slice(w, 0 + start, 0 + total) = Blob!Slice(d, b + start, b + total)
    <3> DEFINE k == total - start
    <3> DEFINE a == b + start
    <3>1. k \in Nat /\ start + k = total /\ a \in Nat /\ a + k = b + total
          /\ 0 + start = start /\ 0 + total = total /\ total <= Len(w) /\ Len(d) \in Nat
      BY <1>1, <1>2, <1>4, <2>1
    <3>2. \A x \in 0 .. k - 1 : Blob!At(d, a + x) = Blob!At(w, start + x)
      <4>1. ASSUME NEW x \in 0 .. k - 1
            PROVE  start + x \in gap .. total - 1 /\ a + x = b + (start + x)
        BY <1>1, <1>4, <2>1
      <4>2. QED BY <2>3, <4>1
    <3> HIDE DEF k, a
    <3>3. Blob!Slice(w, start, start + k) = Blob!Slice(d, a, a + k)
      <4>1. a + k <= Len(d) /\ start + k <= Len(w)
        BY <1>2, <1>4, <3>1
      <4>2. CellsEqual(d, a, w, start, k)
        BY <3>2 DEF CellsEqual
      <4>3. QED BY <1>1, <1>2, <2>1, <3>1, <4>1, <4>2, SameSlice
    <3>4. QED BY <3>1, <3>3 DEF a
  <2>8. \A i \in 1 .. n : Blob!Stream(w, 0, i) = Blob!Stream(d, b, i)
    BY <1>3, <1>5 DEF Blob!Stream, FieldsSame, n, total
  <2>9. /\ Blob!At(w, 0) = Blob!At(d, b)
        /\ Blob!At(w, 0 + 2) = Blob!At(d, b + 2)
        /\ Blob!At(w, 0 + 4) = Blob!At(d, b + 4)
        /\ Blob!At(w, 0 + 6) = Blob!At(d, b + 6)
    BY <1>1, <1>3, <1>9 DEF FieldsSame, Accepted
  <2>10. /\ [i \in 1 .. n |-> Blob!Stream(w, 0, i)] = [i \in 1 .. n |-> Blob!Stream(d, b, i)]
         /\ [i \in 1 .. n |-> Blob!Pointer(w, 0, i)] = [i \in 1 .. n |-> Blob!Pointer(d, b, i)]
    BY <1>5, <2>8
  <2>11. Blob!Count(d, b) = n /\ Blob!TotalSize(d, b) = total /\ Blob!BodyStart(d, b) = start
    BY DEF n, total, start
  <2>12. QED
    BY <1>5, <1>7, <1>8, <2>4, <2>5, <2>6, <2>7, <2>9, <2>10, <2>11
    DEF Blob!Parsed, Blob!HighCell, Blob!CountsCell, Blob!SectionsCell
<1>11. QED BY <1>1, <1>9, <1>10 DEF ParsedFrom, w
-----------------------------------------------------------------------------
(* The trips                                                               *)

\* The source is one of the given, or what the first trip has written.
SourceInv ==
    /\ trip \in {1, 2} /\ base \in Nat
    /\ trip = 1 => data \in Sources
    /\ trip = 2 => base = 0 /\ ParsedFrom(prior, data, base) /\ data = Written(prior)

\* How far the container has come.
PhaseInv ==
    /\ phase \in {"scanning", "found", "parsed", "serialized"}
                 \cup (IF trip = 1 THEN {"notFound", "overlapping"} ELSE {})
    /\ phase = "found" => Blob!At(data, base) = WD3 /\ Blob!Valid(data, base)
    /\ phase \in {"parsed", "serialized"} => verdict # "none"
    /\ phase = "serialized" => out = Written(parsed)

\* What the map has been called with: the container at base, on the second
\* trip also before it is found there again.
CalledInv ==
    /\ trip = 1 /\ phase \notin {"parsed", "serialized"} => verdict = "none"
    /\ verdict = "none" => body = 0 /\ pos = 0 /\ spans = {}
    /\ verdict # "none" =>
           /\ ParsedFrom(parsed, data, base)
           /\ box = Called(parsed)
           /\ MapInv
    /\ verdict = "badLayout" => \A b \in Starts(box) : ~LayoutHolds(box, b)

TripInv == SourceInv /\ PhaseInv /\ CalledInv

\* What the map reads of a parsed container is of its type.
LEMMA CalledIs ==
    ASSUME NEW d, NEW b, NEW c, ParsedFrom(c, d, b)
    PROVE  /\ IsContainer(Called(c))
           /\ Called(c).streams = 1 .. Blob!Count(d, b)
           /\ Called(c).total = Blob!TotalSize(d, b)
           /\ Called(c).prefixEnd = Last(d, b) + StreamHead
           /\ \A i \in 1 .. Blob!Count(d, b) :
                  /\ Called(c).start[i] = Blob!StartField(d, b, i)
                  /\ Called(c).end[i] = IF Blob!EndField(d, b, i) = 0
                                        THEN Blob!TotalSize(d, b)
                                        ELSE Blob!EndField(d, b, i)
                  /\ c.streams[i].start = Called(c).start[i]
                  /\ c.streams[i].end = Called(c).end[i]
<1> DEFINE n == Blob!Count(d, b)
<1> DEFINE total == Blob!TotalSize(d, b)
<1>1. Accepted(d, b) /\ c = Blob!Parsed(d, b)
  BY DEF ParsedFrom
<1>2. /\ c.count = n /\ c.total = total
      /\ \A i \in 1 .. n : c.ptrs[i] = Blob!Pointer(d, b, i)
  BY <1>1, ParsedPointers
<1>3. \A i \in 1 .. n :
          /\ c.streams[i].start = Blob!StartField(d, b, i)
          /\ c.streams[i].end = IF Blob!EndField(d, b, i) = 0 THEN total ELSE Blob!EndField(d, b, i)
  BY <1>1 DEF Blob!Parsed, Blob!Stream
<1>4. Max({c.ptrs[i] : i \in 1 .. c.count}) = Last(d, b)
  BY <1>2 DEF Last, Blob!Pointers
<1> HIDE DEF n, total
<1>5. /\ Called(c).streams = 1 .. n
      /\ Called(c).total = total
      /\ Called(c).prefixEnd = Last(d, b) + StreamHead
      /\ \A i \in 1 .. n : /\ Called(c).start[i] = c.streams[i].start
                           /\ Called(c).end[i] = c.streams[i].end
  BY <1>2, <1>4 DEF Called
<1>6. total \in Nat /\ Last(d, b) \in Nat
  BY <1>1, AcceptedHead, AcceptedParts DEF total
<1>7. \A i \in 1 .. n : Blob!StartField(d, b, i) \in Nat /\ Blob!EndField(d, b, i) \in Nat
  BY <1>1, AcceptedStreams DEF n
<1>8. \A i \in 1 .. n : Called(c).start[i] \in Nat /\ Called(c).end[i] \in Nat
  BY <1>3, <1>5, <1>6, <1>7
<1>9. IsContainer(Called(c))
  BY <1>5, <1>6, <1>8 DEF IsContainer, StreamHead
<1>10. QED BY <1>3, <1>5, <1>9 DEF n, total

\* The map is called: nothing is mapped yet.
LEMMA MapCalled ==
    ASSUME NEW d, NEW b, ParsedFrom(parsed', d, b), box' = Called(parsed'),
           verdict' = "called", body' = 0, pos' = 0, spans' = {}
    PROVE  MapInv'
<1>1. IsContainer(box')
  BY CalledIs
<1>2. QED
  BY <1>1 DEF MapInv, Typed, Position, CountedOnce, OwnersExact, Outcome

LEMMA SourceIsAccepted ==
    ASSUME TripInv, phase = "found",
           Blob!StructureEnd(data, base) <= Blob!BodyStart(data, base)
    PROVE  Accepted(data, base)
<1>1. CASE trip = 1
  <2>1. data \in Sources /\ data \in Seq(Nat) /\ base \in Nat
    BY <1>1, RoundTripAssumption DEF TripInv, SourceInv
  <2>2. Blob!At(data, base) = WD3 /\ Blob!Valid(data, base)
    BY DEF TripInv, PhaseInv
  <2>3. base \in 0 .. Len(data) - HeadSize
    <3>1. base + HeadSize <= Len(data)
      BY <2>2 DEF Blob!Valid, Blob!HeadSize, HeadSize
    <3>2. QED BY <2>1, <3>1 DEF HeadSize
  <2>4. Blob!At(data, base + SizeCell) < Radix
    BY <2>1, <2>2, <2>3, RoundTripAssumption
  <2>5. QED BY <2>1, <2>2, <2>4 DEF Accepted
<1>2. CASE trip = 2
  BY <1>2 DEF TripInv, SourceInv, ParsedFrom
<1>3. QED BY <1>1, <1>2 DEF TripInv, SourceInv

LEMMA FindKeeps ==
    ASSUME TripInv, Find
    PROVE  TripInv'
<1>1. /\ phase = "scanning"
      /\ UNCHANGED <<data, parsed, out, trip, prior, box, verdict, body, pos, spans>>
  BY DEF Find, Blob!Scan, mapVars, vars
<1>2. /\ phase' \in {"notFound", "found", "scanning"}
      /\ phase' = "found" => Blob!At(data, base) = WD3 /\ Blob!Valid(data, base) /\ base' = base
      /\ base' = base \/ base' = base + 1
  BY DEF Find, Blob!Scan
<1>3. CASE trip = 1
  <2>1. verdict = "none" /\ base' \in Nat
    BY <1>1, <1>2, <1>3 DEF TripInv, CalledInv, SourceInv
  <2>2. SourceInv'
    BY <1>1, <1>3, <2>1 DEF TripInv, SourceInv
  <2>3. PhaseInv'
    BY <1>1, <1>2, <1>3 DEF TripInv, PhaseInv
  <2>4. CalledInv'
    BY <1>1, <2>1 DEF TripInv, CalledInv
  <2>5. QED BY <2>2, <2>3, <2>4 DEF TripInv
<1>4. CASE trip = 2
  <2>1. base = 0 /\ Accepted(data, base)
    BY <1>4 DEF TripInv, SourceInv, ParsedFrom
  <2>2. Blob!At(data, base) = WD3 /\ Blob!Valid(data, base) /\ base < Len(data)
    <3>1. Len(data) \in Nat /\ base + 7 <= Len(data)
      BY <2>1 DEF Accepted, Blob!Valid, Blob!HeadSize, HeadSize
    <3>2. QED BY <2>1, <3>1 DEF Accepted
  <2>3. phase' = "found" /\ base' = base
    BY <2>2 DEF Find, Blob!Scan
  <2>4. SourceInv'
    BY <1>1, <2>3 DEF TripInv, SourceInv
  <2>5. PhaseInv'
    BY <1>1, <2>2, <2>3 DEF TripInv, PhaseInv
  <2>6. CalledInv'
    <3>1. MapInv => MapInv'
      BY <1>1 DEF MapInv, Typed, Span, Position, CountedOnce, OwnersExact, Outcome,
         Covering, Holds
    <3>2. QED BY <1>1, <1>4, <2>3, <3>1 DEF TripInv, CalledInv
  <2>7. QED BY <2>4, <2>5, <2>6 DEF TripInv
<1>5. QED BY <1>3, <1>4 DEF TripInv, SourceInv

LEMMA ParseKeeps ==
    ASSUME TripInv, Parse
    PROVE  TripInv'
<1>1. phase = "found" /\ UNCHANGED <<data, base, out, trip, prior>>
  BY DEF Parse, Blob!Parse
<1>2. CASE Blob!StructureEnd(data, base) <= Blob!BodyStart(data, base)
  <2>1. /\ parsed' = Blob!Parsed(data, base) /\ phase' = "parsed"
        /\ box' = Called(parsed') /\ verdict' = "called"
        /\ body' = 0 /\ pos' = 0 /\ spans' = {}
    <3>1. Blob!StructureEnd(data, base) \in Int /\ Blob!BodyStart(data, base) \in Int
      BY <1>1, <1>2, SourceIsAccepted, AcceptedParts DEF StreamHead
    <3>2. ~(Blob!StructureEnd(data, base) > Blob!BodyStart(data, base))
      BY <1>2, <3>1
    <3>3. parsed' = Blob!Parsed(data, base) /\ phase' = "parsed"
      BY <3>2 DEF Parse, Blob!Parse
    <3>4. QED BY <3>3 DEF Parse
  <2>2. ParsedFrom(parsed', data, base)
    BY <1>1, <1>2, <2>1, SourceIsAccepted DEF ParsedFrom
  <2>3. MapInv'
    BY <2>1, <2>2, MapCalled
  <2>4. SourceInv'
    BY <1>1 DEF TripInv, SourceInv
  <2>5. PhaseInv'
    BY <1>1, <2>1 DEF TripInv, PhaseInv
  <2>6. CalledInv'
    BY <1>1, <2>1, <2>2, <2>3 DEF CalledInv
  <2>7. QED BY <2>4, <2>5, <2>6 DEF TripInv
<1>3. CASE ~(Blob!StructureEnd(data, base) <= Blob!BodyStart(data, base))
  <2>1. trip = 1
    BY <1>3 DEF TripInv, SourceInv, ParsedFrom, Accepted
  <2>2. phase' = "overlapping" /\ parsed' = parsed
    BY <1>3 DEF Parse, Blob!Parse
  <2>3. UNCHANGED <<box, verdict, body, pos, spans>>
    BY <2>2 DEF Parse, mapVars, vars
  <2>4. verdict = "none"
    BY <1>1, <2>1 DEF TripInv, CalledInv
  <2>5. SourceInv'
    BY <1>1 DEF TripInv, SourceInv
  <2>6. PhaseInv'
    BY <1>1, <2>1, <2>2 DEF TripInv, PhaseInv
  <2>7. CalledInv'
    BY <2>3, <2>4 DEF TripInv, CalledInv
  <2>8. QED BY <2>5, <2>6, <2>7 DEF TripInv
<1>4. QED BY <1>2, <1>3

LEMMA MapKeeps ==
    ASSUME TripInv, MapLayout \/ MapSpan \/ MapFinish
    PROVE  TripInv'
<1>1. /\ phase = "parsed"
      /\ UNCHANGED <<data, phase, base, parsed, out, trip, prior>>
      /\ Layout \/ AddSpan \/ Finish
  BY DEF MapLayout, MapSpan, MapFinish, blobVars
<1>2. verdict # "none" /\ ParsedFrom(parsed, data, base) /\ box = Called(parsed) /\ MapInv
  BY <1>1 DEF TripInv, PhaseInv, CalledInv
<1>3. MapInv'
  BY <1>1, <1>2, MapInvKept DEF Next
<1>4. box' = box /\ verdict' # "none"
  BY <1>1 DEF Layout, AddSpan, Finish
<1>5. verdict' = "badLayout" => \A b \in Starts(box) : ~LayoutHolds(box, b)
  BY <1>1 DEF Layout, AddSpan, Finish
<1>6. SourceInv' /\ PhaseInv'
  BY <1>1, <1>4 DEF TripInv, SourceInv, PhaseInv
<1>7. CalledInv'
  BY <1>1, <1>2, <1>3, <1>4, <1>5 DEF CalledInv
<1>8. QED BY <1>6, <1>7 DEF TripInv

LEMMA WriteKeeps ==
    ASSUME TripInv, Write
    PROVE  TripInv'
<1>1. /\ phase = "parsed"
      /\ UNCHANGED <<data, base, parsed, trip, prior, box, verdict, body, pos, spans>>
  BY DEF Write, Blob!Serialize, mapVars, vars
<1>2. verdict # "none" /\ ParsedFrom(parsed, data, base)
  BY <1>1 DEF TripInv, PhaseInv, CalledInv
<1>3. phase' = "serialized" /\ out' = Written(parsed)
  BY <1>2, WriterAccepts DEF Write, Blob!Serialize, Written
<1>4. SourceInv' /\ PhaseInv'
  BY <1>1, <1>2, <1>3 DEF TripInv, SourceInv, PhaseInv
<1>5. CalledInv'
  <2>1. MapInv => MapInv'
    BY <1>1 DEF MapInv, Typed, Span, Position, CountedOnce, OwnersExact, Outcome,
       Covering, Holds
  <2>2. QED BY <1>1, <1>2, <1>3, <2>1 DEF TripInv, CalledInv
<1>6. QED BY <1>4, <1>5 DEF TripInv

LEMMA RereadKeeps ==
    ASSUME TripInv, Reread
    PROVE  TripInv'
<1>1. /\ phase = "serialized" /\ phase' = "scanning" /\ data' = out /\ base' = 0
      /\ trip' = 2 /\ prior' = parsed
      /\ UNCHANGED <<parsed, out, box, verdict, body, pos, spans>>
  BY DEF Reread, Blob!Reread, mapVars, vars
<1>2. /\ verdict # "none" /\ ParsedFrom(parsed, data, base)
      /\ data' = Written(parsed)
  BY <1>1 DEF TripInv, PhaseInv, CalledInv
<1>3. ParsedFrom(parsed, Written(parsed), 0)
  BY <1>2, ReadAgain
<1>4. SourceInv' /\ PhaseInv'
  BY <1>1, <1>2, <1>3 DEF SourceInv, PhaseInv
<1>5. CalledInv'
  <2>1. MapInv => MapInv'
    BY <1>1 DEF MapInv, Typed, Span, Position, CountedOnce, OwnersExact, Outcome,
       Covering, Holds
  <2>2. QED BY <1>1, <1>2, <1>3, <2>1 DEF TripInv, CalledInv
<1>6. QED BY <1>4, <1>5 DEF TripInv

\* The invariant of the trips, for any sources: what is parsed comes from a
\* container that was accepted, the second trip reads what the first has
\* written, and the map keeps its own invariant all the way.
THEOREM TripInvHolds == TripSpec => []TripInv
<1>1. TripInit => TripInv
  BY DEF TripInit, Blob!Init, TripInv, SourceInv, PhaseInv, CalledInv
<1>2. TripInv /\ [TripNext]_<<blobVars, mapVars>> => TripInv'
  <2> SUFFICES ASSUME TripInv, [TripNext]_<<blobVars, mapVars>> PROVE TripInv'
    OBVIOUS
  <2>1. CASE UNCHANGED <<blobVars, mapVars>>
    <3>1. UNCHANGED <<data, phase, base, parsed, out, trip, prior, box, verdict, body, pos, spans>>
      BY <2>1 DEF blobVars, mapVars, vars
    <3>2. MapInv => MapInv'
      BY <3>1 DEF MapInv, Typed, Span, Position, CountedOnce, OwnersExact, Outcome,
         Covering, Holds
    <3>3. QED BY <3>1, <3>2 DEF TripInv, SourceInv, PhaseInv, CalledInv
  <2>2. QED
    BY <2>1, FindKeeps, ParseKeeps, MapKeeps, WriteKeeps, RereadKeeps DEF TripNext
<1>3. QED BY <1>1, <1>2, PTL DEF TripSpec

\* A container that was accepted and parsed can always be written.
THEOREM AlwaysSerializable == TripSpec => []Serializable
<1>1. TripInv => Serializable
  BY DEF TripInv, PhaseInv, Serializable, Blob!Serializable
<1>2. QED BY <1>1, TripInvHolds, PTL

\* What is written has every cell of the source but for the word at +14 and
\* the holes between stream headers, whatever headers share or overlap.
THEOREM CellsAreKept == TripSpec => []CellsKept
<1>1. TripInv => CellsKept
  <2> SUFFICES ASSUME TripInv, phase = "serialized"
               PROVE  /\ Len(out) = parsed.total
                      /\ \A x \in 0 .. parsed.total - 1 :
                             x # WordCell /\ ~Blob!Hole(x) =>
                                 Blob!At(out, x) = Blob!At(data, base + x)
    BY DEF CellsKept, Blob!CellsKept, Blob!WordCell, WordCell
  <2>1. out = Written(parsed) /\ ParsedFrom(parsed, data, base)
    BY DEF TripInv, PhaseInv, CalledInv
  <2>2. parsed.total = Blob!TotalSize(data, base)
    BY <2>1, ParsedPointers DEF ParsedFrom
  <2>3. Len(out) = parsed.total /\ CellsSame(parsed, data, base)
    BY <2>1, <2>2, WrittenIs
  <2>4. \A x : Blob!Hole(x) <=> Uncovered(parsed, x)
    BY DEF Blob!Hole, Uncovered
  <2>5. QED BY <2>1, <2>2, <2>3, <2>4 DEF CellsSame
<1>2. QED BY <1>1, TripInvHolds, PTL

\* The second trip is accepted and is the identity.
THEOREM SecondTripIsSame == TripSpec => []SecondTripSame
<1>1. TripInv => SecondTripSame
  <2> SUFFICES ASSUME TripInv, trip = 2
               PROVE  /\ phase \notin {"notFound", "overlapping"} /\ base = 0
                      /\ phase \in {"parsed", "serialized"} => parsed = prior
                      /\ phase = "serialized" => out = data
    BY DEF SecondTripSame, Blob!SecondTripSame
  <2>1. /\ phase \notin {"notFound", "overlapping"} /\ base = 0
        /\ ParsedFrom(prior, data, base) /\ data = Written(prior)
    BY DEF TripInv, SourceInv, PhaseInv
  <2>2. phase \in {"parsed", "serialized"} => parsed = prior
    BY <2>1 DEF TripInv, PhaseInv, CalledInv, ParsedFrom
  <2>3. phase = "serialized" => out = Written(parsed)
    BY DEF TripInv, PhaseInv
  <2>4. QED BY <2>1, <2>2, <2>3
<1>2. QED BY <1>1, TripInvHolds, PTL

\* A map that is refused has a stream without a byte, and a finished one has
\* none.
THEOREM RefusedOnlyForCause == TripSpec => []RefusedForCause
<1>1. TripInv => RefusedForCause
  <2> SUFFICES ASSUME TripInv, verdict # "none"
               PROVE  /\ verdict = "badLayout" =>
                             \E i \in 1 .. parsed.count :
                                 parsed.streams[i].start = parsed.streams[i].end
                      /\ verdict = "mapped" =>
                             \A i \in 1 .. parsed.count :
                                 parsed.streams[i].start < parsed.streams[i].end
    BY DEF RefusedForCause
  <2> DEFINE n == Blob!Count(data, base)
  <2> DEFINE b == Blob!BodyStart(data, base)
  <2>1. ParsedFrom(parsed, data, base) /\ Accepted(data, base) /\ box = Called(parsed) /\ MapInv
    BY DEF TripInv, CalledInv, ParsedFrom
  <2>2. /\ box.streams = 1 .. n /\ box.total = Blob!TotalSize(data, base)
        /\ box.prefixEnd = Last(data, base) + StreamHead
        /\ \A i \in 1 .. n :
               /\ box.start[i] = Blob!StartField(data, base, i)
               /\ box.end[i] = IF Blob!EndField(data, base, i) = 0
                               THEN Blob!TotalSize(data, base) ELSE Blob!EndField(data, base, i)
               /\ parsed.streams[i].start = box.start[i]
               /\ parsed.streams[i].end = box.end[i]
    BY <2>1, CalledIs
  <2>3. parsed.count = n
    BY <2>1, ParsedPointers DEF ParsedFrom
  <2>4. ASSUME verdict = "badLayout", \A i \in 1 .. n : box.start[i] # box.end[i]
        PROVE  FALSE
    <3>1. b \in Starts(box) /\ \A s \in Starts(box) : b <= s
      BY <2>1, <2>2, AcceptedParts DEF Starts
    <3>2. box.prefixEnd <= b
      BY <2>1, <2>2, AcceptedParts
    <3>3. ASSUME NEW i \in 1 .. n
          PROVE  /\ box.start[i] < box.total /\ box.start[i] < box.end[i]
                 /\ box.end[i] <= box.total
      <4>1. /\ Blob!StartField(data, base, i) \in Nat
            /\ Blob!EndField(data, base, i) \in Nat
            /\ Blob!StartField(data, base, i) < Blob!TotalSize(data, base)
            /\ \/ Blob!EndField(data, base, i) = 0
               \/ Blob!EndField(data, base, i)
                      \in Blob!StartField(data, base, i) .. Blob!TotalSize(data, base)
        BY <2>1, AcceptedStreams
      <4>2. Blob!TotalSize(data, base) \in Nat
        BY <2>1, AcceptedHead
      <4>3. box.start[i] # box.end[i]
        BY <2>4
      <4> HIDE DEF n
      <4>4. QED BY <2>2, <4>1, <4>2, <4>3
    <3>4. LayoutHolds(box, b)
      BY <2>2, <3>1, <3>2, <3>3 DEF LayoutHolds
    <3>5. QED BY <2>4, <3>1, <3>4 DEF TripInv, CalledInv
  <2>5. ASSUME verdict = "mapped", NEW i \in 1 .. n
        PROVE  box.start[i] < box.end[i]
    BY <2>1, <2>2, <2>5 DEF MapInv, Position, LayoutHolds
  <2> HIDE DEF n
  <2>6. QED BY <2>2, <2>3, <2>4, <2>5
<1>2. QED BY <1>1, TripInvHolds, PTL

\* The map and the writer cut the blob at the same places.
THEOREM MapAlwaysFits == TripSpec => []MapFitsBlob
<1>1. TripInv => MapFitsBlob
  <2> SUFFICES ASSUME TripInv, phase = "serialized", verdict = "mapped"
               PROVE  /\ Len(Blob!Structure(parsed)) = box.prefixEnd
                      /\ Len(Blob!Structure(parsed)) + Len(parsed.prefixGap) = body
                      /\ pos = Len(out)
                      /\ \A x \in body .. Len(out) - 1 : \E sp \in spans : Holds(sp, x)
    BY DEF MapFitsBlob
  <2> DEFINE n == Blob!Count(data, base)
  <2> DEFINE b == Blob!BodyStart(data, base)
  <2>1. /\ ParsedFrom(parsed, data, base) /\ Accepted(data, base)
        /\ parsed = Blob!Parsed(data, base)
        /\ box = Called(parsed) /\ MapInv /\ out = Written(parsed)
    BY DEF TripInv, CalledInv, PhaseInv, ParsedFrom
  <2>2. /\ box.streams = 1 .. n /\ box.total = Blob!TotalSize(data, base)
        /\ box.prefixEnd = Last(data, base) + StreamHead
        /\ \A i \in 1 .. n : box.start[i] = Blob!StartField(data, base, i)
    BY <2>1, CalledIs
  <2>3. Len(Blob!Structure(parsed)) = Last(data, base) + StreamHead
    BY <2>1, StructureIs
  <2>4. Len(parsed.prefixGap) = b - (Last(data, base) + StreamHead)
    BY <2>1, ParsedPieces
  <2>5. body = b
    <3>1. body \in Starts(box) /\ \A s \in Starts(box) : body <= s
      BY <2>1 DEF MapInv, Position, LayoutHolds
    <3>2. b \in Starts(box) /\ \A s \in Starts(box) : b <= s
      BY <2>1, <2>2, AcceptedParts DEF Starts
    <3>3. body \in Nat /\ b \in Nat
      BY <2>1, AcceptedParts DEF MapInv, Typed
    <3>4. QED BY <3>1, <3>2, <3>3
  <2>6. pos = box.total /\ Len(out) = box.total
    <3>1. Len(out) = Blob!TotalSize(data, base)
      BY <2>1, WrittenIs
    <3>2. QED BY <2>1, <2>2, <3>1 DEF MapInv, Outcome
  <2>7. b \in Nat /\ Last(data, base) \in Nat
    BY <2>1, AcceptedParts
  <2>8. \A x \in body .. Len(out) - 1 : \E sp \in spans : Holds(sp, x)
    BY <2>1, <2>6 DEF MapInv, CountedOnce
  <2> HIDE DEF b, n
  <2>9. QED BY <2>2, <2>3, <2>4, <2>5, <2>6, <2>7, <2>8 DEF StreamHead
<1>2. QED BY <1>1, TripInvHolds, PTL

\* The map keeps its promises on every container that a trip hands to it:
\* bytes counted once, owners exact, orphans real.
THEOREM MapHoldsOnTrips == TripSpec => [](CountedOnce /\ OwnersExact /\ OrphanIsReal)
<1>1. TripInv => CountedOnce /\ OwnersExact /\ OrphanIsReal
  <2> SUFFICES ASSUME TripInv PROVE CountedOnce /\ OwnersExact /\ OrphanIsReal
    OBVIOUS
  <2>1. CASE verdict = "none"
    <3>1. body = 0 /\ pos = 0 /\ spans = {}
      BY <2>1 DEF TripInv, CalledInv
    <3>2. \A x \in body .. pos - 1 : FALSE
      BY <3>1, EmptyInterval
    <3>3. QED BY <2>1, <3>1, <3>2 DEF CountedOnce, OwnersExact, OrphanIsReal
  <2>2. CASE verdict # "none"
    <3>1. MapInv
      BY <2>2 DEF TripInv, CalledInv
    <3>2. QED BY <3>1, MapInvOrphan DEF MapInv
  <2>3. QED BY <2>1, <2>2
<1>2. QED BY <1>1, TripInvHolds, PTL
=============================================================================
