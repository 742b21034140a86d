------------------------------- MODULE Wd3Blob -------------------------------
(***************************************************************************)
(* A WD3 container from bytes to fields and back: find_wd3_container and   *)
(* parse_wd3 of core.py, serialize_wd3_structure of wd3_writer.py and      *)
(* serialize_wd3_blob of wd3_blob_writer.py, then all of it once more on   *)
(* what was written, as the round-trip checks of the repository do.        *)
(*                                                                         *)
(* A source is a sequence of cells, addressed from 0 as the code does.  A  *)
(* cell stands for one field: a half word in the first part of the         *)
(* header, where total_size (+4) spans two cells and its high half (+6) is *)
(* read a second time as count_entries and header_reserved; otherwise a    *)
(* pointer, a field of a stream header or a piece of payload.  The records *)
(* parse_wd3 collects are not written back and are left out.               *)
(***************************************************************************)
EXTENDS Wd3Cells, Integers, Sequences, FiniteSetsExt

CONSTANTS Sources,      \* the sources it may be called with
          WD3,          \* the cell of the magic and the version
          Radix,        \* 2^16
          MaxStreams    \* 64

VARIABLES data,    \* the source
          phase,   \* "scanning", "found", "parsed", "serialized", or how it ended
          base,    \* the offset looked at, then that of the container
          box,     \* the parsed container
          out,     \* what serialize_wd3_blob returned
          trip,    \* 1, or 2 when the source is what trip 1 has written
          prior    \* the container of trip 1

vars == <<data, phase, base, box, out, trip, prior>>

\* d[x] and d[a:e] of the code.
At(d, x) == d[x + 1]
Slice(d, a, e) == SubSeq(d, a + 1, e)

TotalSize(d, b) == At(d, b + SizeCell) + Radix * At(d, b + HighCell)
Count(d, b) == At(d, b + CountCell)
TableEnd(n) == HeadSize + n
Pointer(d, b, i) == At(d, b + HeadSize + i - 1)
EndField(d, b, i) == At(d, b + Pointer(d, b, i))
StartField(d, b, i) == At(d, b + Pointer(d, b, i) + 1)

\* Faulty variant: a stream header may lie over the pointer table.
ValidLoose(d, b) ==
    LET n == Count(d, b)
        total == TotalSize(d, b)
    IN  /\ b + HeadSize <= Len(d)
        /\ TableEnd(n) <= total /\ b + total <= Len(d)
        /\ n \in 1 .. MaxStreams
        /\ \A i \in 1 .. n :
              /\ Pointer(d, b, i) + StreamHead <= total
              /\ StartField(d, b, i) < total
              /\ \/ EndField(d, b, i) = 0
                 \/ EndField(d, b, i) \in StartField(d, b, i) .. total

\* _is_valid_wd3_container.
Valid(d, b) ==
    LET n == Count(d, b)
        total == TotalSize(d, b)
    IN  /\ b + HeadSize <= Len(d)
        /\ TableEnd(n) <= total /\ b + total <= Len(d)
        /\ n \in 1 .. MaxStreams
        /\ \A i \in 1 .. n :
              /\ TableEnd(n) <= Pointer(d, b, i)
              /\ Pointer(d, b, i) + StreamHead <= total
              /\ StartField(d, b, i) < total
              /\ \/ EndField(d, b, i) = 0
                 \/ EndField(d, b, i) \in StartField(d, b, i) .. total

Pointers(d, b) == {Pointer(d, b, i) : i \in 1 .. Count(d, b)}
Starts(d, b) == {StartField(d, b, i) : i \in 1 .. Count(d, b)}

\* structure_end and body_start of parse_wd3.
StructureEnd(d, b) == Max(Pointers(d, b)) + StreamHead
BodyStart(d, b) == Min(Starts(d, b))

\* The stream whose header is the i-th.
Stream(d, b, i) ==
    LET end == EndField(d, b, i)
    IN  [start |-> StartField(d, b, i),
         rawEnd |-> end,
         end |-> IF end = 0 THEN TotalSize(d, b) ELSE end,
         other |-> At(d, b + Pointer(d, b, i) + 2)]

\* The fields parse_wd3 keeps of a container.
Parsed(d, b) ==
    LET n == Count(d, b)
    IN  [version |-> At(d, b),
         total |-> TotalSize(d, b),
         high |-> At(d, b + HighCell),         \* count_entries, header_reserved
         count |-> n,
         counts |-> At(d, b + CountsCell),
         sections |-> At(d, b + SectionsCell),
         ptrs |-> [i \in 1 .. n |-> Pointer(d, b, i)],
         tableGap |-> Slice(d, b + TableEnd(n), b + Min(Pointers(d, b))),
         streams |-> [i \in 1 .. n |-> Stream(d, b, i)],
         prefixGap |-> Slice(d, b + StructureEnd(d, b), b + BodyStart(d, b)),
         body |-> Slice(d, b + BodyStart(d, b), b + TotalSize(d, b))]

\* Faulty variant: total_size is packed as one half word.
HeaderLow(c) ==
    <<c.version, c.total % Radix, 0, c.count, c.counts, c.high, c.sections>>

\* The header the writer packs: count_entries over the high half of
\* total_size, and header_reserved into the word at +14.
Header(c) ==
    <<c.version, c.total % Radix, c.high, c.count, c.counts, c.high, c.sections>>

\* Faulty variant: the end that parse_wd3 made up for 0 is written.
StreamCellsResolved(s) == <<s.end, s.start, s.other>>

\* The header of a stream as it is packed.
StreamCells(s) == <<s.rawEnd, s.start, s.other>>

\* The streams whose header covers offset x.
HeadersAt(c, x) == {i \in 1 .. c.count : x \in c.ptrs[i] .. c.ptrs[i] + StreamHead - 1}

\* serialize_wd3_structure: into a buffer of zeros, the header, the table and
\* its gap, then the stream headers, a later one over an earlier.
Structure(c) ==
    LET first == Min(Range(c.ptrs))
        CellAt(x) ==
            CASE HeadersAt(c, x) # {} ->
                     LET i == Max(HeadersAt(c, x))
                     IN  At(StreamCells(c.streams[i]), x - c.ptrs[i])
              [] HeadersAt(c, x) = {} /\ x < HeadSize -> At(Header(c), x)
              [] HeadersAt(c, x) = {} /\ x \in HeadSize .. TableEnd(c.count) - 1 ->
                     c.ptrs[x - HeadSize + 1]
              [] HeadersAt(c, x) = {} /\ x \in TableEnd(c.count) .. first - 1 ->
                     At(c.tableGap, x - TableEnd(c.count))
              [] OTHER -> 0
    IN  [k \in 1 .. Max(Range(c.ptrs)) + StreamHead |-> CellAt(k - 1)]

\* The checks of serialize_wd3_structure that the fields of a container can
\* fail, and serialize_wd3_blob's on the size.
StructureHolds(c) ==
    /\ TableEnd(c.count) <= Min(Range(c.ptrs))
    /\ Len(c.tableGap) = Min(Range(c.ptrs)) - TableEnd(c.count)
    /\ Len(Structure(c)) + Len(c.prefixGap) + Len(c.body) = c.total

None == [total |-> 0]

Init ==
    /\ data \in Sources
    /\ phase = "scanning"
    /\ base = 0
    /\ box = None
    /\ out = <<>>
    /\ trip = 1
    /\ prior = None

\* find_wd3_container, one offset at a time.
Scan ==
    /\ phase = "scanning"
    /\ \/ /\ base = Len(data)
          /\ phase' = "notFound"
          /\ UNCHANGED base
       \/ /\ base < Len(data)
          /\ At(data, base) = WD3 /\ Valid(data, base)
          /\ phase' = "found"
          /\ UNCHANGED base
       \/ /\ base < Len(data)
          /\ ~(At(data, base) = WD3 /\ Valid(data, base))
          /\ base' = base + 1
          /\ UNCHANGED phase
    /\ UNCHANGED <<data, box, out, trip, prior>>

\* parse_wd3, which refuses a body that begins inside the structure.
Parse ==
    /\ phase = "found"
    /\ \/ /\ StructureEnd(data, base) <= BodyStart(data, base)
          /\ box' = Parsed(data, base)
          /\ phase' = "parsed"
       \/ /\ StructureEnd(data, base) > BodyStart(data, base)
          /\ phase' = "overlapping"
          /\ UNCHANGED box
    /\ UNCHANGED <<data, base, out, trip, prior>>

\* serialize_wd3_blob.
Serialize ==
    /\ phase = "parsed"
    /\ \/ /\ StructureHolds(box)
          /\ out' = Structure(box) \o box.prefixGap \o box.body
          /\ phase' = "serialized"
       \/ /\ ~StructureHolds(box)
          /\ phase' = "structureError"
          /\ UNCHANGED out
    /\ UNCHANGED <<data, base, box, trip, prior>>

\* What was written is read again.
Reread ==
    /\ phase = "serialized" /\ trip = 1
    /\ data' = out
    /\ phase' = "scanning"
    /\ base' = 0
    /\ trip' = 2
    /\ prior' = box
    /\ UNCHANGED <<box, out>>

Next == Scan \/ Parse \/ Serialize \/ Reread

Spec == Init /\ [][Next]_vars
-----------------------------------------------------------------------------
(* Properties *)

\* A container that was accepted and parsed can always be written: no check
\* of the writer fails on what the parser has kept, and the three parts of
\* the blob add up to total_size.
Serializable == phase # "structureError"

\* The offset x lies in the structure behind the first stream header, and no
\* stream header covers it.
Hole(x) ==
    /\ x \in Min(Range(box.ptrs)) .. Max(Range(box.ptrs))
    /\ HeadersAt(box, x) = {}

\* The blob written has every cell of the source at its place, through gaps,
\* shared and overlapping stream headers and the payload, but for the two
\* that the writer does not keep: the word at +14 and the holes between
\* stream headers.
CellsKept ==
    phase = "serialized" =>
        /\ Len(out) = box.total
        /\ \A x \in 0 .. box.total - 1 :
              x # WordCell /\ ~Hole(x) => At(out, x) = At(data, base + x)

\* What was written is accepted at offset 0, parsed and written again; the
\* second trip finds the fields of the first, all of them, and writes what it
\* was given: writing loses nothing twice.
SecondTripSame ==
    trip = 2 => /\ phase \notin {"notFound", "overlapping"} /\ base = 0
                /\ phase \in {"parsed", "serialized"} => box = prior
                /\ phase = "serialized" => out = data

\* docs/status.md, layer A: "Structural gaps and reserved fields preserved
\* through reconstruction".
StructurePreserved ==
    phase = "serialized" => out = Slice(data, base, base + box.total)
=============================================================================
