----------------------------- MODULE PayloadMap ------------------------------
(***************************************************************************)
(* payload_map.py on a parsed WD3 container: compute_payload_layout cuts   *)
(* the blob into prefix, gap and body, and compute_ownership_spans walks   *)
(* the sorted stream boundaries of the body, one span per neighbouring     *)
(* pair, each with the streams that cover it.  Offsets count any unit.     *)
(***************************************************************************)
EXTENDS Integers

CONSTANT Containers   \* the containers it may be called with

\* A container has the index set of its streams; total_size; the greatest
\* offset + 32 of a stream header; the start and the end of each stream.
IsContainer(c) ==
    /\ c.total \in Nat /\ c.prefixEnd \in Nat
    /\ \A i \in c.streams : c.start[i] \in Nat /\ c.end[i] \in Nat

ASSUME PayloadAssumption == \A c \in Containers : IsContainer(c)

VARIABLES box,      \* the container
          verdict,  \* "called", "mapping", "mapped", or the error raised
          body,     \* body_start once the layout is computed
          pos,      \* the end of the last span
          spans     \* the spans made so far

vars == <<box, verdict, body, pos, spans>>

Starts(c) == {c.start[i] : i \in c.streams}

\* Faulty variant: a stream may be empty.
LayoutHoldsEmpty(c, b) ==
    /\ b \in Starts(c) /\ \A s \in Starts(c) : b <= s
    /\ c.prefixEnd <= b
    /\ \A i \in c.streams : c.start[i] < c.total /\ c.end[i] \in c.start[i] .. c.total

\* The checks of compute_payload_layout for body_start = b; a container without
\* streams has none and fails.
LayoutHolds(c, b) ==
    /\ b \in Starts(c) /\ \A s \in Starts(c) : b <= s      \* min(stream_starts)
    /\ c.prefixEnd <= b
    /\ \A i \in c.streams : /\ c.start[i] < c.total
                          /\ c.start[i] < c.end[i]
                          /\ c.end[i] <= c.total

\* Faulty variant: the end of the body is not among the boundaries.
BoundariesOpen(c, b) == {b} \cup Starts(c) \cup {c.end[i] : i \in c.streams}

\* The boundaries set of compute_ownership_spans.
Boundaries(c, b) ==
    {b, c.total} \cup Starts(c) \cup {c.end[i] : i \in c.streams}

\* Faulty variant: a stream that only touches the interval owns it.
OwnersTouching(c, a, e) == {i \in c.streams : c.start[i] <= e /\ a <= c.end[i]}

\* Faulty variant: a stream does not own the interval it ends with.
OwnersShort(c, a, e) == {i \in c.streams : c.start[i] <= a /\ e < c.end[i]}

\* The streams that cover the interval from a to e.
Owners(c, a, e) == {i \in c.streams : c.start[i] <= a /\ e <= c.end[i]}

\* e follows a in the sorted boundaries.
Follows(c, b, a, e) ==
    /\ e \in Boundaries(c, b) /\ a < e
    /\ \A x \in Boundaries(c, b) : ~(a < x /\ x < e)

Init ==
    /\ box \in Containers
    /\ verdict = "called"
    /\ body = 0
    /\ pos = 0
    /\ spans = {}

\* compute_payload_layout, then the walk starts at the first boundary.
Layout ==
    /\ verdict = "called"
    /\ \/ \E b \in Starts(box) :
              /\ LayoutHolds(box, b)
              /\ body' = b
              /\ pos' = b
              /\ verdict' = "mapping"
       \/ /\ \A b \in Starts(box) : ~LayoutHolds(box, b)
          /\ verdict' = "badLayout"
          /\ UNCHANGED <<body, pos>>
    /\ UNCHANGED <<box, spans>>

\* Faulty variant: an interval without an owner is passed over.
AddSpanSkipping ==
    /\ verdict = "mapping"
    /\ \E e \in Boundaries(box, body) :
           /\ Follows(box, body, pos, e)
           /\ pos' = e
           /\ spans' = IF Owners(box, pos, e) = {} THEN spans
                       ELSE spans \cup
                        {[start |-> pos, end |-> e, owners |-> Owners(box, pos, e)]}
    /\ UNCHANGED <<box, body, verdict>>

\* One turn of the loop over neighbouring boundaries: a span, or the error
\* for an interval no stream covers.
AddSpan ==
    /\ verdict = "mapping"
    /\ \E e \in Boundaries(box, body) :
           /\ Follows(box, body, pos, e)
           /\ \/ /\ Owners(box, pos, e) # {}
                 /\ spans' = spans \cup
                        {[start |-> pos, end |-> e, owners |-> Owners(box, pos, e)]}
                 /\ pos' = e
                 /\ UNCHANGED verdict
              \/ /\ Owners(box, pos, e) = {}
                 /\ verdict' = "orphan"
                 /\ UNCHANGED <<pos, spans>>
    /\ UNCHANGED <<box, body>>

\* The loop is through.
Finish ==
    /\ verdict = "mapping"
    /\ \A e \in Boundaries(box, body) : e <= pos
    /\ verdict' = "mapped"
    /\ UNCHANGED <<box, body, pos, spans>>

Next == Layout \/ AddSpan \/ Finish

Spec == Init /\ [][Next]_vars
-----------------------------------------------------------------------------
(* Properties *)

Span == [start : Nat, end : Nat, owners : SUBSET box.streams]

\* Every variable has its type.
TypeOK ==
    /\ box \in Containers
    /\ verdict \in {"called", "mapping", "mapped", "badLayout", "orphan"}
    /\ body \in Nat /\ pos \in Nat
    /\ spans \subseteq Span

Holds(sp, x) == sp.start <= x /\ x < sp.end

\* The streams whose offset range covers the byte at x.
Covering(x) == {i \in box.streams : box.start[i] <= x /\ x < box.end[i]}

\* Every byte of the body that the walk has passed lies in exactly one span,
\* and no span reaches outside them (docs/status.md: "Every byte of the
\* container body accounted for exactly once").
CountedOnce ==
    /\ \A x \in body .. pos - 1 : \E sp \in spans : Holds(sp, x)
    /\ \A sp, tp \in spans : \A x \in sp.start .. sp.end - 1 :
           /\ body <= x /\ x < pos
           /\ Holds(tp, x) => sp = tp

\* A span's owners are the streams that cover each of its bytes, one by one:
\* no stream begins or ends inside a span.
OwnersExact ==
    \A sp \in spans : \A x \in sp.start .. sp.end - 1 : sp.owners = Covering(x)

\* A finished map covers the body up to total_size, every byte with an owner.
MapComplete ==
    verdict = "mapped" =>
        pos = box.total /\ \A x \in body .. box.total - 1 : Covering(x) # {}

\* An orphan is reported only where a byte really has no stream.
OrphanIsReal ==
    verdict = "orphan" => \E x \in body .. box.total - 1 : Covering(x) = {}
=============================================================================
