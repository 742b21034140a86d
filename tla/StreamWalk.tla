----------------------------- MODULE StreamWalk ------------------------------
(***************************************************************************)
(* The two walks over the entries of one stream of a valid container.      *)
(* parse_wd3 (core.py) collects StreamRecords with _parse_record, and      *)
(* later disassemble_stream (decoder.py) collects Instructions with        *)
(* decode_instruction, from the same bytes.  Each walk works out by itself *)
(* where an entry ends and so where the next one is read.                  *)
(*                                                                         *)
(* A stream is what the walks read of it: where it starts and ends, the    *)
(* length of the data, and at each offset the entry a walk would find      *)
(* there: the class of its opcode byte, whether its type_tag is 3, and its *)
(* count.  In a valid container the stream ends inside the data, so that   *)
(* neither walk meets the end of the data before that of the stream.       *)
(***************************************************************************)
EXTENDS Integers

CONSTANTS Offsets,      \* the offsets of the data
          Streams,      \* the streams it may be called with
          Entry,        \* bytes of an entry header: 16
          Sprite,       \* SPRITE_STRIDE: 40
          SpriteCap     \* sprites parsed of one record at most: 100

Stream == [start : Nat, end : Nat, length : Nat,
           opcode : [Offsets -> {"known", "alpha", "unknown"}],
           sprite : [Offsets -> BOOLEAN],
           count : [Offsets -> Nat]]

ASSUME StreamAssumption ==
    /\ Entry \in Nat \ {0} /\ Sprite \in Nat \ {0} /\ SpriteCap \in Nat
    /\ Streams \subseteq Stream
    /\ \A s \in Streams : /\ s.start <= s.end /\ s.end <= s.length
                          /\ 0 .. s.length \subseteq Offsets

VARIABLES stream,
          phase,     \* "parsing", "parsed", "disassembling" or "disassembled"
          offset,    \* `offset` of the loop that is running
          records,   \* the StreamRecords collected
          stop,      \* where the record loop stopped
          instrs     \* the Instructions collected

vars == <<stream, phase, offset, records, stop, instrs>>

\* Faulty variant: the header of a sprite entry is not counted.
RecordSizeBody(s, o) == IF s.sprite[o] THEN Sprite * s.count[o] ELSE Entry

\* total_size of _parse_record.
RecordSize(s, o) == Entry + (IF s.sprite[o] THEN Sprite * s.count[o] ELSE 0)

\* Faulty variant: sprites are never skipped.
InstrSizeNone(s, o) == Entry

\* total_size of decode_instruction: an alpha selector or an unknown opcode
\* ends after the header whatever its type_tag.
InstrSize(s, o) ==
    Entry + (IF s.opcode[o] = "known" /\ s.sprite[o] THEN Sprite * s.count[o] ELSE 0)

\* The sprites _parse_record takes of the record at o: the first hundred, as
\* far as the data goes.
Sprites(s, o) ==
    {i \in 0 .. SpriteCap - 1 :
        /\ s.sprite[o] /\ i < s.count[o]
        /\ o + Entry + Sprite * i + Sprite <= s.length}

\* Faulty variant: a record may end outside its stream.
RecordFitsAny(s, o) == TRUE

\* The record loop's check that the record at o ends inside the stream.
RecordFits(s, o) == o + RecordSize(s, o) <= s.end

\* Both loops leave the last header's worth of bytes alone.
MoreAt(s, o) == o < s.end - Entry

Init ==
    /\ stream \in Streams
    /\ phase = "parsing"
    /\ offset = stream.start
    /\ records = {}
    /\ stop = stream.start
    /\ instrs = {}

\* One turn of the record loop of parse_wd3.
ParseRecord ==
    /\ phase = "parsing" /\ MoreAt(stream, offset)
    /\ RecordFits(stream, offset)
    /\ records' = records \cup {[offset |-> offset,
                                 size |-> RecordSize(stream, offset),
                                 sprites |-> Sprites(stream, offset)]}
    /\ offset' = offset + RecordSize(stream, offset)
    /\ UNCHANGED <<stream, phase, stop, instrs>>

\* The record loop ends, or breaks at a record that does not fit.
ParseEnds ==
    /\ phase = "parsing"
    /\ ~MoreAt(stream, offset) \/ ~RecordFits(stream, offset)
    /\ phase' = "parsed"
    /\ stop' = offset
    /\ UNCHANGED <<stream, offset, records, instrs>>

\* disassemble_wd3 comes to this stream.
Disassemble ==
    /\ phase = "parsed"
    /\ phase' = "disassembling"
    /\ offset' = stream.start
    /\ UNCHANGED <<stream, records, stop, instrs>>

\* One turn of the loop of disassemble_stream.
DecodeOne ==
    /\ phase = "disassembling" /\ MoreAt(stream, offset)
    /\ instrs' = instrs \cup {[offset |-> offset, size |-> InstrSize(stream, offset)]}
    /\ offset' = offset + InstrSize(stream, offset)
    /\ UNCHANGED <<stream, phase, records, stop>>

\* Its end.
DisassembleEnds ==
    /\ phase = "disassembling" /\ ~MoreAt(stream, offset)
    /\ phase' = "disassembled"
    /\ UNCHANGED <<stream, offset, records, stop, instrs>>

Next ==
    \/ ParseRecord \/ ParseEnds
    \/ Disassemble \/ DecodeOne \/ DisassembleEnds

Spec == Init /\ [][Next]_vars /\ WF_vars(Next)
-----------------------------------------------------------------------------
(* Properties *)

\* Every variable has its type.
TypeOK ==
    /\ stream \in Streams
    /\ phase \in {"parsing", "parsed", "disassembling", "disassembled"}
    /\ offset \in Nat /\ stop \in Nat
    /\ records \subseteq [offset : Nat, size : Nat, sprites : SUBSET Nat]
    /\ instrs \subseteq [offset : Nat, size : Nat]

Within(r, x) == r.offset <= x /\ x < r.offset + r.size

\* Where the record loop has come to.
Reached == IF phase = "parsing" THEN offset ELSE stop

\* The records lie end to end from the start of the stream to where the loop
\* has come, and inside the stream: every byte belongs to exactly one.
RecordsTile ==
    /\ stream.start <= Reached /\ Reached <= stream.end
    /\ \A x \in stream.start .. Reached - 1 : \E r \in records : Within(r, x)
    /\ \A r, q \in records : \A x \in r.offset .. r.offset + r.size - 1 :
           /\ stream.start <= x /\ x < Reached
           /\ Within(q, x) => q = r

\* A record that was kept has all of its sprites, up to the hundred the
\* parser takes, although these are read before the record is known to fit.
SpritesWhole ==
    \A r \in records :
        stream.sprite[r.offset] =>
            \A i \in 0 .. SpriteCap - 1 : i < stream.count[r.offset] => i \in r.sprites

\* An entry whose sprites the disassembler does not skip.
Short(o) == stream.sprite[o] /\ stream.opcode[o] # "known" /\ stream.count[o] > 0

\* Up to the first short entry the two walks agree: while no record is one,
\* every instruction made so far is a record, or lies behind the last; and a
\* finished disassembly has an instruction for every record.
WalksAgree ==
    (\A r \in records : ~Short(r.offset)) =>
        /\ \A i \in instrs :
               \/ i.offset >= stop
               \/ \E r \in records : r.offset = i.offset /\ r.size = i.size
        /\ phase = "disassembled" =>
               \A r \in records : \E i \in instrs : i.offset = r.offset

\* Both walks end, whatever the counts say.
Terminates == <>(phase = "disassembled")

\* An entry with type_tag 3 is 16 bytes and 40 for each sprite, any other 16
\* (stream.py, EntryTypeEnum and SubSectionEntry.total_size): so what is one
\* record to the parser is one instruction to the disassembler.
InstructionsAreRecords ==
    \A i \in instrs :
        \A r \in records : i.offset = r.offset => i.size = r.size
-----------------------------------------------------------------------------
(* The inductive invariant *)

End(r) == r.offset + r.size

\* Every record is what _parse_record makes of its offset, and lies inside
\* what the loop has passed.
RecordsExact ==
    \A r \in records :
        /\ stream.start <= r.offset /\ End(r) <= Reached
        /\ MoreAt(stream, r.offset)
        /\ r.size = RecordSize(stream, r.offset)
        /\ r.sprites = Sprites(stream, r.offset)

\* Different records do not overlap.
RecordsApart ==
    \A r, q \in records : r # q => End(r) <= q.offset \/ End(q) <= r.offset

\* Nothing up to where the record loop has come is left out.
RecordsCover ==
    /\ stream.start <= Reached /\ Reached <= stream.end
    /\ \A x \in stream.start .. Reached - 1 : \E r \in records : Within(r, x)

\* While no record is short, the disassembler is at a record or behind the
\* last one, and has been at every record it has passed.
InStep ==
    (\A r \in records : ~Short(r.offset)) =>
        /\ \A i \in instrs :
               \/ i.offset >= stop
               \/ \E r \in records : r.offset = i.offset /\ r.size = i.size
        /\ \A r \in records : r.offset < offset =>
               \E i \in instrs : i.offset = r.offset
        /\ offset < stop => \E r \in records : r.offset = offset

WalkInv ==
    /\ TypeOK /\ RecordsExact /\ RecordsApart /\ RecordsCover
    /\ phase \in {"parsing", "parsed"} => instrs = {}
    /\ phase \in {"disassembling", "disassembled"} => InStep
    /\ phase = "disassembled" => ~MoreAt(stream, offset)
=============================================================================
