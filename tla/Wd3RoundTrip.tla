----------------------------- MODULE Wd3RoundTrip ----------------------------
(***************************************************************************)
(* A container through all that README.md does with one: it is found and   *)
(* parsed, compute_payload_layout and compute_ownership_spans map its body *)
(* (PayloadMap), serialize_wd3_blob writes it (Wd3Blob), and what was      *)
(* written goes the same way again.  find_wd3_container, parse_wd3, the    *)
(* map and the writer each check the same offsets for themselves, and not  *)
(* for the same things.                                                    *)
(***************************************************************************)
EXTENDS PayloadMap, Wd3Cells, Sequences, FiniteSetsExt

CONSTANTS Sources, WD3, Radix, MaxStreams

VARIABLES data, phase, base, parsed, out, trip, prior

Blob == INSTANCE Wd3Blob WITH box <- parsed

\* The first half of a container's total_size is a half word.
ASSUME RoundTripAssumption ==
    /\ Sources \subseteq Seq(Nat)
    /\ WD3 \in Nat /\ Radix \in Nat \ {0} /\ MaxStreams \in Nat
    /\ \A d \in Sources : \A b \in 0 .. Len(d) - HeadSize :
           Blob!Valid(d, b) => Blob!At(d, b + SizeCell) < Radix

blobVars == <<data, phase, base, parsed, out, trip, prior>>
mapVars == vars

\* What the map reads of a parsed container: the prefix_end of
\* compute_payload_layout, and the streams with the ends that parse_wd3 has
\* put in the place of 0.
Called(c) ==
    [streams |-> 1 .. c.count,
     total |-> c.total,
     prefixEnd |-> Max({c.ptrs[i] : i \in 1 .. c.count}) + StreamHead,
     start |-> [i \in 1 .. c.count |-> c.streams[i].start],
     end |-> [i \in 1 .. c.count |-> c.streams[i].end]]

Nothing == [streams |-> {}, total |-> 0, prefixEnd |-> 0]

TripInit ==
    /\ Blob!Init
    /\ box = Nothing
    /\ verdict = "none"
    /\ body = 0
    /\ pos = 0
    /\ spans = {}

Find == Blob!Scan /\ UNCHANGED mapVars

\* A container that was parsed is handed to the map.
Parse ==
    /\ Blob!Parse
    /\ \/ /\ phase' = "parsed"
          /\ box' = Called(parsed')
          /\ verdict' = "called"
          /\ body' = 0 /\ pos' = 0 /\ spans' = {}
       \/ /\ phase' # "parsed"
          /\ UNCHANGED mapVars

MapLayout == phase = "parsed" /\ Layout /\ UNCHANGED blobVars

MapSpan == phase = "parsed" /\ AddSpan /\ UNCHANGED blobVars

MapFinish == phase = "parsed" /\ Finish /\ UNCHANGED blobVars

\* The writer does not ask what came of the map.
Write ==
    /\ verdict \in {"mapped", "badLayout", "orphan"}
    /\ Blob!Serialize
    /\ UNCHANGED mapVars

Reread == Blob!Reread /\ UNCHANGED mapVars

TripNext ==
    \/ Find \/ Parse
    \/ MapLayout \/ MapSpan \/ MapFinish
    \/ Write \/ Reread

TripSpec == TripInit /\ [][TripNext]_<<blobVars, mapVars>>
-----------------------------------------------------------------------------
(* Properties *)

\* A container that was accepted and parsed can always be written.
Serializable == Blob!Serializable

\* What is written has every cell of the source but for the two kinds that
\* the writer does not keep.
CellsKept == Blob!CellsKept

\* The second trip is accepted and is the identity.
SecondTripSame == Blob!SecondTripSame

\* The writer's own idea of the parts of a blob: see Wd3Blob.
StructurePreserved == Blob!StructurePreserved

\* The map is refused for two reasons only, once the parser has accepted the
\* container: a stream without a byte, which core.py:94 lets through, or a
\* byte of the body that no stream covers.
RefusedForCause ==
    /\ verdict = "badLayout" =>
           \E i \in 1 .. parsed.count : parsed.streams[i].start = parsed.streams[i].end
    /\ verdict = "mapped" =>
           \A i \in 1 .. parsed.count : parsed.streams[i].start < parsed.streams[i].end

\* The map and the writer cut the blob at the same places: the prefix of the
\* one is the structure of the other, the spans begin where its body begins
\* and end where it ends.
MapFitsBlob ==
    phase = "serialized" /\ verdict = "mapped" =>
        LET structure == Len(Blob!Structure(parsed))
        IN  /\ structure = box.prefixEnd
            /\ structure + Len(parsed.prefixGap) = body
            /\ pos = Len(out)
            /\ \A x \in body .. Len(out) - 1 : \E sp \in spans : Holds(sp, x)
=============================================================================
