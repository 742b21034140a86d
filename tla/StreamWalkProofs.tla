-------------------------- MODULE StreamWalkProofs ---------------------------
(***************************************************************************)
(* That the records of a stream tile it, that a kept record has all of its *)
(* sprites, and that the two walks agree up to the first short entry: for  *)
(* every stream, every header and sprite size and every number of sprites. *)
(***************************************************************************)
EXTENDS StreamWalk, TLAPS

-----------------------------------------------------------------------------
(* Arithmetic of entries *)

LEMMA ProductType ==
    ASSUME NEW m \in Nat, NEW n \in Nat
    PROVE  m * n \in Nat
OBVIOUS

LEMMA ProductGrows ==
    ASSUME NEW k \in Nat, NEW m \in Nat, NEW n \in Nat, m <= n
    PROVE  k * m <= k * n
<1> DEFINE d == n - m
<1>1. d \in Nat /\ n = m + d
  OBVIOUS
<1> HIDE DEF d
<1>2. k * (m + d) = k * m + k * d
  BY <1>1
<1>3. k * d \in Nat /\ k * m \in Nat
  BY <1>1, ProductType
<1>4. QED BY <1>1, <1>2, <1>3

\* Wherever a walk reads an entry, its class and its count have their types.
LEMMA OffsetIsRead ==
    ASSUME NEW s \in Streams, NEW o \in Nat, MoreAt(s, o)
    PROVE  /\ o \in Offsets /\ s.sprite[o] \in BOOLEAN
           /\ s.opcode[o] \in {"known", "alpha", "unknown"}
           /\ s.count[o] \in Nat
           /\ s.start \in Nat /\ s.end \in Nat /\ s.length \in Nat
           /\ Sprite * s.count[o] \in Nat
<1>1. s \in Stream
  BY StreamAssumption
<1>2. s.start \in Nat /\ s.end \in Nat /\ s.length \in Nat
  BY <1>1 DEF Stream
<1>3. o \in 0 .. s.length
  BY <1>2, StreamAssumption DEF MoreAt
<1>4. o \in Offsets
  BY <1>3, StreamAssumption
<1>5. s.count[o] \in Nat /\ s.sprite[o] \in BOOLEAN
      /\ s.opcode[o] \in {"known", "alpha", "unknown"}
  BY <1>1, <1>4 DEF Stream
<1>6. Sprite * s.count[o] \in Nat
  BY <1>5, ProductType, StreamAssumption
<1>7. QED BY <1>2, <1>4, <1>5, <1>6

\* An entry is never empty, whichever walk sizes it.
LEMMA SizesPositive ==
    ASSUME NEW s \in Streams, NEW o \in Nat, MoreAt(s, o)
    PROVE  /\ RecordSize(s, o) \in Nat \ {0}
           /\ InstrSize(s, o) \in Nat \ {0}
BY OffsetIsRead, StreamAssumption DEF RecordSize, InstrSize

\* The two sizes differ for a short entry only.
LEMMA SizesAgree ==
    ASSUME NEW o \in Nat, stream \in Streams, MoreAt(stream, o), ~Short(o)
    PROVE  InstrSize(stream, o) = RecordSize(stream, o)
<1>1. stream.count[o] \in Nat /\ Sprite \in Nat
  BY OffsetIsRead, StreamAssumption
<1>2. stream.count[o] = 0 => Sprite * stream.count[o] = 0
  BY <1>1
<1>3. QED BY <1>1, <1>2 DEF InstrSize, RecordSize, Short

\* A record that fits has room for each of its sprites.
LEMMA SpritesFit ==
    ASSUME NEW s \in Streams, NEW o \in Nat, MoreAt(s, o), RecordFits(s, o),
           s.sprite[o], NEW i \in Nat, i < SpriteCap, i < s.count[o]
    PROVE  i \in Sprites(s, o)
<1>1. /\ s.count[o] \in Nat /\ Sprite \in Nat /\ Entry \in Nat /\ SpriteCap \in Nat
      /\ s.end \in Nat /\ s.length \in Nat /\ s.end <= s.length
  BY OffsetIsRead, StreamAssumption
<1>2. Sprite * (i + 1) <= Sprite * s.count[o]
  BY <1>1, ProductGrows
<1>3. Sprite * (i + 1) = Sprite * i + Sprite
  BY <1>1
<1>4. Sprite * i \in Nat /\ Sprite * s.count[o] \in Nat
  BY <1>1, ProductType
<1>5. o + Entry + Sprite * s.count[o] <= s.end
  BY <1>1, <1>4 DEF RecordFits, RecordSize
<1>6. o + Entry + Sprite * i + Sprite <= s.length
  BY <1>1, <1>2, <1>3, <1>4, <1>5
<1>7. i \in 0 .. SpriteCap - 1
  BY <1>1
<1>8. QED BY <1>6, <1>7 DEF Sprites

-----------------------------------------------------------------------------
(* The places where records begin *)

\* What the records have to do with each other, apart from the steps.
Tiles == TypeOK /\ RecordsExact /\ RecordsApart /\ RecordsCover

LEMMA RecordPlaced ==
    ASSUME Tiles, NEW r \in records
    PROVE  /\ r.offset \in Nat /\ r.size \in Nat \ {0}
           /\ stream.start \in Nat /\ stream.end \in Nat /\ Reached \in Nat
           /\ stream.start <= r.offset /\ r.offset + r.size <= Reached
           /\ MoreAt(stream, r.offset)
<1>1. stream \in Streams /\ r.offset \in Nat /\ r.size \in Nat /\ Reached \in Nat
  BY DEF Tiles, TypeOK, Reached
<1>2. MoreAt(stream, r.offset) /\ r.size = RecordSize(stream, r.offset)
  BY DEF Tiles, RecordsExact
<1>3. r.size \in Nat \ {0} /\ stream.start \in Nat /\ stream.end \in Nat
  BY <1>1, <1>2, SizesPositive, OffsetIsRead
<1>4. QED BY <1>1, <1>2, <1>3 DEF Tiles, RecordsExact, End

\* A record begins at the start of the stream, unless nothing was kept.
LEMMA FirstRecord ==
    ASSUME Tiles, stream.start < Reached
    PROVE  \E r \in records : r.offset = stream.start
<1>1. stream.start \in Nat /\ Reached \in Nat
  BY StreamAssumption DEF Tiles, TypeOK, Reached, Stream
<1>2. stream.start \in stream.start .. Reached - 1
  BY <1>1
<1>3. PICK r \in records : Within(r, stream.start)
  BY <1>2 DEF Tiles, RecordsCover
<1>4. r.offset = stream.start
  BY <1>1, <1>3, RecordPlaced DEF Within
<1>5. QED BY <1>4

\* Behind a record the next one begins, unless it was the last.
LEMMA NextRecord ==
    ASSUME Tiles, NEW r \in records, r.offset + r.size < Reached
    PROVE  \E q \in records : q.offset = r.offset + r.size
<1> DEFINE x == r.offset + r.size
<1>1. /\ stream.start \in Nat /\ Reached \in Nat /\ r.offset \in Nat
      /\ r.size \in Nat \ {0} /\ stream.start <= r.offset
  BY RecordPlaced
<1>2. x \in stream.start .. Reached - 1
  BY <1>1
<1>3. PICK q \in records : Within(q, x)
  BY <1>2 DEF Tiles, RecordsCover
<1>4. q.offset \in Nat /\ q.size \in Nat
  BY RecordPlaced
<1>5. q # r
  BY <1>1, <1>3 DEF Within
<1>6. r.offset + r.size <= q.offset \/ q.offset + q.size <= r.offset
  BY <1>5 DEF Tiles, RecordsApart, End
<1>7. q.offset = x
  BY <1>1, <1>3, <1>4, <1>6 DEF Within
<1>8. QED BY <1>7

\* No record begins inside another.
LEMMA NoRecordInside ==
    ASSUME Tiles, NEW r \in records, NEW q \in records,
           r.offset < q.offset
    PROVE  r.offset + r.size <= q.offset
<1>1. /\ r.offset \in Nat /\ r.size \in Nat \ {0}
      /\ q.offset \in Nat /\ q.size \in Nat \ {0}
  BY RecordPlaced
<1>2. r # q
  BY <1>1
<1>3. r.offset + r.size <= q.offset \/ q.offset + q.size <= r.offset
  BY <1>2 DEF Tiles, RecordsApart, End
<1>4. QED BY <1>1, <1>3

-----------------------------------------------------------------------------
(* The record loop *)

LEMMA ParseRecordTiles ==
    ASSUME Tiles, ParseRecord
    PROVE  Tiles'
<1> DEFINE r0 == [offset |-> offset, size |-> RecordSize(stream, offset),
                  sprites |-> Sprites(stream, offset)]
<1>1. /\ stream \in Streams /\ offset \in Nat /\ stop \in Nat
      /\ MoreAt(stream, offset) /\ RecordFits(stream, offset)
      /\ phase = "parsing" /\ phase' = "parsing" /\ stream' = stream
      /\ instrs' = instrs /\ stop' = stop
      /\ records' = records \cup {r0}
      /\ offset' = offset + RecordSize(stream, offset)
  BY DEF ParseRecord, Tiles, TypeOK
<1>2. RecordSize(stream, offset) \in Nat \ {0} /\ stream.start \in Nat
      /\ stream.end \in Nat
  BY <1>1, SizesPositive, OffsetIsRead
<1>3. Reached = offset /\ Reached' = offset + RecordSize(stream, offset)
  BY <1>1 DEF Reached
<1>4. /\ r0.offset = offset /\ r0.size = RecordSize(stream, offset)
      /\ r0.sprites = Sprites(stream, offset)
  OBVIOUS
<1>5. r0 \in [offset : Nat, size : Nat, sprites : SUBSET Nat]
  <2>1. Sprites(stream, offset) \subseteq Nat
    BY StreamAssumption DEF Sprites
  <2>2. QED BY <1>1, <1>2, <2>1
<1> HIDE DEF r0
<1>6. TypeOK'
  BY <1>1, <1>2, <1>5 DEF Tiles, TypeOK
<1>7. ASSUME NEW r \in records
      PROVE  /\ r.offset \in Nat /\ r.size \in Nat \ {0}
             /\ stream.start <= r.offset /\ r.offset + r.size <= offset
  BY <1>3, RecordPlaced
<1>8. stream.start <= offset
  BY <1>3 DEF Tiles, RecordsCover
<1>9. RecordsExact'
  <2> SUFFICES ASSUME NEW r \in records'
               PROVE  /\ stream.start <= r.offset /\ r.offset + r.size <= Reached'
                      /\ MoreAt(stream, r.offset)
                      /\ r.size = RecordSize(stream, r.offset)
                      /\ r.sprites = Sprites(stream, r.offset)
    BY <1>1 DEF RecordsExact, End
  <2>1. CASE r = r0
    BY <1>1, <1>2, <1>3, <1>4, <1>8, <2>1
  <2>2. CASE r \in records
    <3>1. /\ MoreAt(stream, r.offset)
          /\ r.size = RecordSize(stream, r.offset)
          /\ r.sprites = Sprites(stream, r.offset)
      BY <2>2 DEF Tiles, RecordsExact
    <3>2. r.offset + r.size <= Reached'
      BY <1>1, <1>2, <1>3, <1>7, <2>2
    <3>3. QED BY <1>7, <2>2, <3>1, <3>2
  <2>3. QED BY <1>1, <2>1, <2>2
<1>10. RecordsApart'
  BY <1>1, <1>4, <1>7 DEF Tiles, RecordsApart, End
<1>11. RecordsCover'
  <2>1. stream.start <= Reached' /\ Reached' <= stream.end
    BY <1>1, <1>2, <1>3, <1>8 DEF RecordFits
  <2>2. ASSUME NEW x \in stream.start .. Reached' - 1
        PROVE  \E r \in records' : Within(r, x)
    <3>1. CASE x < offset
      <4>1. x \in stream.start .. Reached - 1
        BY <1>1, <1>2, <1>3, <3>1
      <4>2. QED BY <1>1, <4>1 DEF Tiles, RecordsCover
    <3>2. CASE offset <= x
      <4>1. Within(r0, x)
        BY <1>1, <1>2, <1>3, <1>4, <3>2 DEF Within
      <4>2. QED BY <1>1, <4>1
    <3>3. QED BY <1>1, <1>2, <3>1, <3>2
  <2>3. QED BY <1>1, <2>1, <2>2 DEF RecordsCover
<1>12. QED BY <1>6, <1>9, <1>10, <1>11 DEF Tiles

\* A step that keeps the records and how far they reach keeps the tiling.
LEMMA OtherStepsTile ==
    ASSUME Tiles, TypeOK', stream' = stream, records' = records, Reached' = Reached
    PROVE  Tiles'
BY DEF Tiles, RecordsExact, RecordsApart, RecordsCover, MoreAt, RecordSize, Sprites

-----------------------------------------------------------------------------
(* The disassembler's loop *)

\* It starts at the first record.
LEMMA DisassembleInStep ==
    ASSUME Tiles, phase = "parsed", instrs = {}, Disassemble
    PROVE  InStep'
<1>1. /\ stream' = stream /\ records' = records /\ stop' = stop
      /\ instrs' = {} /\ offset' = stream.start /\ Reached = stop
  BY DEF Disassemble, Reached
<1>2. \A r \in records : ~(r.offset < stream.start)
  BY RecordPlaced
<1>3. stream.start < stop => \E r \in records : r.offset = stream.start
  BY <1>1, FirstRecord
<1>4. QED BY <1>1, <1>2, <1>3 DEF InStep

\* One instruction takes it from one record to the next, if it is at one.
LEMMA DecodeOneInStep ==
    ASSUME Tiles, phase = "disassembling", InStep, DecodeOne
    PROVE  InStep'
<1> DEFINE i0 == [offset |-> offset, size |-> InstrSize(stream, offset)]
<1>1. /\ stream \in Streams /\ offset \in Nat /\ stop \in Nat
      /\ MoreAt(stream, offset) /\ Reached = stop
      /\ stream' = stream /\ records' = records /\ stop' = stop
      /\ instrs' = instrs \cup {i0}
      /\ offset' = offset + InstrSize(stream, offset)
  BY DEF DecodeOne, Tiles, TypeOK, Reached
<1>2. InstrSize(stream, offset) \in Nat \ {0}
  BY <1>1, SizesPositive
<1>3. i0.offset = offset /\ i0.size = InstrSize(stream, offset)
  OBVIOUS
<1> HIDE DEF i0
<1>4. ASSUME NEW r \in records
      PROVE  r.offset \in Nat /\ r.size \in Nat \ {0} /\ r.offset + r.size <= stop
  BY <1>1, RecordPlaced
<1> SUFFICES ASSUME \A r \in records : ~Short(r.offset)
             PROVE  /\ \A i \in instrs' :
                           \/ i.offset >= stop
                           \/ \E r \in records : r.offset = i.offset /\ r.size = i.size
                    /\ \A r \in records : r.offset < offset' =>
                           \E i \in instrs' : i.offset = r.offset
                    /\ offset' < stop => \E r \in records : r.offset = offset'
  BY <1>1 DEF InStep, Short
<1>5. /\ \A i \in instrs :
             \/ i.offset >= stop
             \/ \E r \in records : r.offset = i.offset /\ r.size = i.size
      /\ \A r \in records : r.offset < offset => \E i \in instrs : i.offset = r.offset
      /\ offset < stop => \E r \in records : r.offset = offset
  BY DEF InStep
<1>6. CASE offset < stop
  <2>1. PICK r0 \in records : r0.offset = offset
    BY <1>5, <1>6
  <2>2. r0.size = InstrSize(stream, offset)
    <3>1. r0.size = RecordSize(stream, offset)
      BY <2>1 DEF Tiles, RecordsExact
    <3>2. ~Short(offset)
      BY <2>1
    <3>3. QED BY <1>1, <3>1, <3>2, SizesAgree
  <2>3. \A i \in instrs' :
            \/ i.offset >= stop
            \/ \E r \in records : r.offset = i.offset /\ r.size = i.size
    BY <1>1, <1>3, <1>5, <2>1, <2>2
  <2>4. ASSUME NEW r \in records, r.offset < offset'
        PROVE  \E i \in instrs' : i.offset = r.offset
    <3>1. CASE r.offset < offset
      BY <1>1, <1>5, <3>1
    <3>2. CASE r.offset = offset
      BY <1>1, <1>3, <3>2
    <3>3. ~(offset < r.offset)
      <4>1. offset < r.offset => offset' <= r.offset
        BY <1>1, <2>1, <2>2, NoRecordInside
      <4>2. QED BY <1>1, <1>2, <1>4, <2>4, <4>1
    <3>4. QED BY <1>1, <1>4, <3>1, <3>2, <3>3
  <2>5. offset' < stop => \E r \in records : r.offset = offset'
    BY <1>1, <2>1, <2>2, NextRecord
  <2>6. QED BY <2>3, <2>4, <2>5
<1>7. CASE stop <= offset
  <2>1. \A i \in instrs' :
            \/ i.offset >= stop
            \/ \E r \in records : r.offset = i.offset /\ r.size = i.size
    BY <1>1, <1>3, <1>5, <1>7
  <2>2. \A r \in records : r.offset < offset
    BY <1>1, <1>4, <1>7
  <2>3. ~(offset' < stop)
    BY <1>1, <1>2, <1>7
  <2>4. QED BY <1>1, <1>5, <2>1, <2>2, <2>3
<1>8. QED BY <1>1, <1>6, <1>7

-----------------------------------------------------------------------------
(* Theorems *)

LEMMA InitWalk ==
    ASSUME Init
    PROVE  WalkInv
<1>1. stream.start \in Nat /\ stream.end \in Nat /\ stream.start <= stream.end
  BY StreamAssumption DEF Init, Stream
<1>2. TypeOK
  BY <1>1 DEF Init, TypeOK
<1>3. Reached = stream.start /\ stream.start .. Reached - 1 = {}
  BY <1>1 DEF Init, Reached
<1>4. RecordsExact /\ RecordsApart /\ RecordsCover
  BY <1>1, <1>3 DEF Init, RecordsExact, RecordsApart, RecordsCover
<1>5. QED BY <1>2, <1>4 DEF WalkInv, Init

LEMMA NextWalk ==
    ASSUME WalkInv, [Next]_vars
    PROVE  WalkInv'
<1>0. Tiles
  BY DEF WalkInv, Tiles
<1>1. CASE ParseRecord
  <2>1. Tiles'
    BY <1>0, <1>1, ParseRecordTiles
  <2>2. phase' = "parsing" /\ instrs' = {}
    BY <1>1 DEF ParseRecord, WalkInv
  <2>3. QED BY <2>1, <2>2 DEF WalkInv, Tiles
<1>2. CASE ParseEnds
  <2>1. TypeOK' /\ Reached' = Reached /\ stream' = stream /\ records' = records
    BY <1>0, <1>2 DEF ParseEnds, Reached, Tiles, TypeOK
  <2>2. Tiles'
    BY <1>0, <2>1, OtherStepsTile
  <2>3. phase' = "parsed" /\ instrs' = {}
    BY <1>2 DEF ParseEnds, WalkInv
  <2>4. QED BY <2>2, <2>3 DEF WalkInv, Tiles
<1>3. CASE Disassemble
  <2>1. TypeOK' /\ Reached' = Reached /\ stream' = stream /\ records' = records
    BY <1>0, <1>3, StreamAssumption DEF Disassemble, Reached, Tiles, TypeOK, Stream
  <2>2. Tiles'
    BY <1>0, <2>1, OtherStepsTile
  <2>3. InStep'
    BY <1>0, <1>3, DisassembleInStep DEF WalkInv, Disassemble
  <2>4. phase' = "disassembling"
    BY <1>3 DEF Disassemble
  <2>5. QED BY <2>2, <2>3, <2>4 DEF WalkInv, Tiles
<1>4. CASE DecodeOne
  <2>1. InstrSize(stream, offset) \in Nat
    BY <1>0, <1>4, SizesPositive DEF DecodeOne, Tiles, TypeOK
  <2>2. TypeOK' /\ Reached' = Reached /\ stream' = stream /\ records' = records
    BY <1>0, <1>4, <2>1 DEF DecodeOne, Reached, Tiles, TypeOK
  <2>3. Tiles'
    BY <1>0, <2>2, OtherStepsTile
  <2>4. InStep'
    BY <1>0, <1>4, DecodeOneInStep DEF WalkInv, DecodeOne
  <2>5. phase' = "disassembling"
    BY <1>4 DEF DecodeOne
  <2>6. QED BY <2>3, <2>4, <2>5 DEF WalkInv, Tiles
<1>5. CASE DisassembleEnds \/ UNCHANGED vars
  <2>1. /\ stream' = stream /\ records' = records /\ instrs' = instrs
        /\ stop' = stop /\ offset' = offset
        /\ phase' = phase \/ (phase = "disassembling" /\ phase' = "disassembled"
                              /\ ~MoreAt(stream, offset))
    BY <1>5 DEF DisassembleEnds, vars
  <2>2. TypeOK' /\ Reached' = Reached
    BY <1>0, <2>1 DEF Reached, Tiles, TypeOK
  <2>3. Tiles'
    BY <1>0, <2>1, <2>2, OtherStepsTile
  <2>4. InStep' <=> InStep
    BY <2>1 DEF InStep, Short
  <2>5. MoreAt(stream, offset)' <=> MoreAt(stream, offset)
    BY <2>1 DEF MoreAt
  <2>6. QED BY <2>1, <2>3, <2>4, <2>5 DEF WalkInv, Tiles
<1>6. QED BY <1>1, <1>2, <1>3, <1>4, <1>5 DEF Next

\* The invariant of both walks, for every stream.
THEOREM WalkInvHolds == Spec => []WalkInv
<1>1. Init => WalkInv
  BY InitWalk
<1>2. WalkInv /\ [Next]_vars => WalkInv'
  BY NextWalk
<1>3. QED BY <1>1, <1>2, PTL DEF Spec

\* The records lie end to end inside the stream: every byte up to where the
\* loop has come belongs to exactly one.
THEOREM RecordsAlwaysTile == Spec => []RecordsTile
<1>1. ASSUME WalkInv PROVE RecordsTile
  <2>0. Tiles
    BY <1>1 DEF WalkInv, Tiles
  <2>1. ASSUME NEW r \in records, NEW q \in records,
               NEW x \in r.offset .. r.offset + r.size - 1
        PROVE  /\ stream.start <= x /\ x < Reached
               /\ Within(q, x) => q = r
    <3>1. /\ r.offset \in Nat /\ r.size \in Nat /\ q.offset \in Nat /\ q.size \in Nat
          /\ stream.start \in Nat /\ Reached \in Nat
          /\ stream.start <= r.offset /\ r.offset + r.size <= Reached
      BY <2>0, RecordPlaced
    <3>2. r # q => r.offset + r.size <= q.offset \/ q.offset + q.size <= r.offset
      BY <2>0 DEF Tiles, RecordsApart, End
    <3>3. QED BY <3>1, <3>2 DEF Within
  <2>2. QED BY <2>0, <2>1 DEF RecordsTile, Tiles, RecordsCover
<1>2. QED BY <1>1, WalkInvHolds, PTL

\* A record that was kept has all of its sprites, up to the cap, although they
\* are read before the record is known to fit.
THEOREM SpritesAlwaysWhole == Spec => []SpritesWhole
<1>1. ASSUME WalkInv PROVE SpritesWhole
  <2>0. Tiles
    BY <1>1 DEF WalkInv, Tiles
  <2> SUFFICES ASSUME NEW r \in records, stream.sprite[r.offset],
                      NEW i \in 0 .. SpriteCap - 1, i < stream.count[r.offset]
               PROVE  i \in r.sprites
    BY DEF SpritesWhole
  <2>1. /\ r.offset \in Nat /\ MoreAt(stream, r.offset)
        /\ r.offset + r.size <= Reached /\ Reached \in Nat /\ r.size \in Nat
        /\ stream.end \in Nat
    BY <2>0, RecordPlaced
  <2>2. Reached <= stream.end
    BY <2>0 DEF Tiles, RecordsCover
  <2>3. /\ r.size = RecordSize(stream, r.offset)
        /\ r.sprites = Sprites(stream, r.offset)
        /\ stream \in Streams
    BY <2>0 DEF Tiles, RecordsExact, TypeOK
  <2>4. RecordFits(stream, r.offset)
    BY <2>1, <2>2, <2>3 DEF RecordFits
  <2>5. i \in Nat /\ i < SpriteCap
    BY StreamAssumption
  <2>6. QED BY <2>1, <2>3, <2>4, <2>5, SpritesFit
<1>2. QED BY <1>1, WalkInvHolds, PTL

\* Up to the first short entry what is one record to the parser is one
\* instruction to the disassembler, and none is skipped.
THEOREM WalksAlwaysAgree == Spec => []WalksAgree
<1>1. ASSUME WalkInv PROVE WalksAgree
  <2>0. Tiles
    BY <1>1 DEF WalkInv, Tiles
  <2>1. CASE phase \in {"parsing", "parsed"}
    BY <1>1, <2>1 DEF WalkInv, WalksAgree
  <2>2. CASE phase \in {"disassembling", "disassembled"}
    <3> SUFFICES ASSUME \A r \in records : ~Short(r.offset), phase = "disassembled",
                        NEW r \in records
                 PROVE  \E i \in instrs : i.offset = r.offset
      BY <1>1, <2>2 DEF WalkInv, InStep, WalksAgree
    <3>1. MoreAt(stream, r.offset) /\ ~MoreAt(stream, offset)
      BY <1>1, <2>0, RecordPlaced DEF WalkInv
    <3>2. r.offset \in Nat /\ offset \in Nat /\ stream.end \in Nat /\ Entry \in Nat
      BY <2>0, RecordPlaced, StreamAssumption DEF Tiles, TypeOK
    <3>3. r.offset < offset
      BY <3>1, <3>2 DEF MoreAt
    <3>4. QED BY <1>1, <2>2, <3>3 DEF WalkInv, InStep
  <2>3. QED BY <2>0, <2>1, <2>2 DEF Tiles, TypeOK
<1>2. QED BY <1>1, WalkInvHolds, PTL
=============================================================================
