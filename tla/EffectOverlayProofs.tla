-------------------------- MODULE EffectOverlayProofs -------------------------
(***************************************************************************)
(* That replaced effects can always be restored, whatever their number and *)
(* however they overlap.                                                   *)
(***************************************************************************)
EXTENDS EffectOverlay, SequenceTheorems, WellFoundedInduction, TLAPS

\* What the phases have established: a section that was parsed from the file,
\* and mappings of effects that lie in the DLL as it is on disk.
Sited ==
    /\ phase # "overlay" => Mapped = {}
    /\ phase # "parse" => section # None /\ section = DataSection(file)
    /\ \A e \in Mapped :
           /\ Start(e) \in Nat /\ End(e) <= Len(file.bytes)
           /\ Len(blob[e]) = mapping[e].size
           /\ \A i \in Place(e) : blob[e][i - Start(e)] = file.bytes[i]

\* What the caller's knowledge is worth: an effect that is not open is as the
\* eff file has it.
Known ==
    /\ \A e \in Effects \ open : held[e] = blob[e]
    /\ Len(dll) = Len(file.bytes)

Inductive == TypeOK /\ Sited /\ Known /\ Layered

\* A DLL of Files has a sequence of bytes, and its headers have numbers.
LEMMA FileType ==
    ASSUME NEW f \in Files
    PROVE  /\ f.bytes \in Seq(Bytes) /\ Len(f.bytes) \in Nat
           /\ \A i \in 1 .. Len(f.headers) : f.headers[i].ptr \in Nat /\ f.headers[i].size \in Nat
<1>1. f \in File
  BY OverlayAssumption
<1>2. f.bytes \in Seq(Bytes) /\ f.headers \in Seq([name : STRING, ptr : Nat, size : Nat])
  BY <1>1 DEF File
<1>3. \A i \in 1 .. Len(f.headers) : f.headers[i] \in [name : STRING, ptr : Nat, size : Nat]
  BY <1>2, ElementOfSeq
<1>4. QED BY <1>2, <1>3

\* A slice has the bytes of the sequence from start on, and is complete when
\* it ends within.
LEMMA SliceFacts ==
    ASSUME NEW S, NEW s \in Seq(S), NEW start \in Nat, NEW end \in Nat, start <= end
    PROVE  /\ Slice(s, start, end) \in Seq(S)
           /\ Len(Slice(s, start, end)) =
                 IF end <= Len(s) THEN end - start
                 ELSE IF start <= Len(s) THEN Len(s) - start ELSE 0
           /\ \A i \in 1 .. Len(Slice(s, start, end)) : Slice(s, start, end)[i] = s[start + i]
<1> DEFINE stop == IF end < Len(s) THEN end ELSE Len(s)
<1>1. Len(s) \in Nat /\ start + 1 \in Int /\ stop \in Int /\ stop <= Len(s)
  OBVIOUS
<1>2. \A i \in start + 1 .. stop : s[i] \in S
  BY <1>1
<1>3. Slice(s, start, end) = SubSeq(s, start + 1, stop)
  BY DEF Slice
<1> HIDE DEF stop
<1>4. /\ SubSeq(s, start + 1, stop) \in Seq(S)
      /\ Len(SubSeq(s, start + 1, stop)) =
            IF start + 1 <= stop THEN stop - (start + 1) + 1 ELSE 0
      /\ \A i \in 1 .. stop - (start + 1) + 1 :
            SubSeq(s, start + 1, stop)[i] = s[start + 1 + i - 1]
  BY <1>1, <1>2, SubSeqProperties
<1>5. Len(Slice(s, start, end)) = IF start + 1 <= stop THEN stop - start ELSE 0
  BY <1>1, <1>3, <1>4
<1>6. \A i \in 1 .. Len(Slice(s, start, end)) : Slice(s, start, end)[i] = s[start + i]
  <2> SUFFICES ASSUME NEW i \in 1 .. Len(Slice(s, start, end))
               PROVE  Slice(s, start, end)[i] = s[start + i]
    OBVIOUS
  <2>1. i \in 1 .. stop - (start + 1) + 1 /\ start + 1 + i - 1 = start + i
    BY <1>1, <1>5
  <2>2. QED BY <2>1, <1>3, <1>4
<1>7. QED BY <1>1, <1>3, <1>4, <1>5, <1>6 DEF stop

\* A slice that lies within is replaced byte for byte by as many others.
LEMMA SpliceFacts ==
    ASSUME NEW S, NEW s \in Seq(S), NEW start \in Nat, NEW end \in Nat,
           start <= end, end <= Len(s),
           NEW new \in Seq(S), Len(new) = end - start
    PROVE  /\ Splice(s, start, end, new) \in Seq(S)
           /\ Len(Splice(s, start, end, new)) = Len(s)
           /\ \A i \in 1 .. Len(s) : Splice(s, start, end, new)[i] =
                 IF start < i /\ i <= end THEN new[i - start] ELSE s[i]
<1>1. Len(Slice(s, start, end)) = end - start
  BY SliceFacts
<1> DEFINE f == [i \in 1 .. Len(s) |-> IF start < i /\ i <= end THEN new[i - start] ELSE s[i]]
<1>2. Splice(s, start, end, new) = f
  <2>1. Len(s) - Len(Slice(s, start, end)) + Len(new) = Len(s)
    BY <1>1
  <2>2. (IF start < Len(s) THEN start ELSE Len(s)) = start
    OBVIOUS
  <2>3. \A i \in 1 .. Len(s) :
           (IF i <= start THEN s[i]
            ELSE IF i <= start + Len(new) THEN new[i - start]
            ELSE s[i - Len(new) + Len(Slice(s, start, end))]) = f[i]
    <3> SUFFICES ASSUME NEW i \in 1 .. Len(s)
                 PROVE  (IF i <= start THEN s[i]
                         ELSE IF i <= start + Len(new) THEN new[i - start]
                         ELSE s[i - Len(new) + Len(Slice(s, start, end))]) = f[i]
      OBVIOUS
    <3>1. i - Len(new) + Len(Slice(s, start, end)) = i /\ start + Len(new) = end
      BY <1>1
    <3>2. CASE i <= start
      BY <3>2
    <3>3. CASE ~(i <= start) /\ i <= start + Len(new)
      BY <3>1, <3>3
    <3>4. CASE ~(i <= start + Len(new))
      BY <3>1, <3>4
    <3>5. QED BY <3>2, <3>3, <3>4
  <2>4. QED BY <2>1, <2>2, <2>3 DEF Splice
<1>3. \A i \in 1 .. Len(s) : f[i] \in S
  <2> SUFFICES ASSUME NEW i \in 1 .. Len(s) PROVE f[i] \in S
    OBVIOUS
  <2>1. CASE start < i /\ i <= end
    <3>1. i - start \in 1 .. Len(new)
      BY <2>1
    <3>2. QED BY <2>1, <3>1
  <2>2. CASE ~(start < i /\ i <= end)
    BY <2>2
  <2>3. QED BY <2>1, <2>2
<1>4. f \in Seq(S) /\ Len(f) = Len(s)
  <2> HIDE DEF f
  <2>1. DOMAIN f = 1 .. Len(s) /\ f = [i \in 1 .. Len(s) |-> f[i]]
    BY DEF f
  <2>2. QED BY <2>1, <1>3
<1>5. QED BY <1>2, <1>4

\* A set of numbers that is not empty has a least one.
LEMMA FirstOfNumbers ==
    ASSUME NEW T \in SUBSET Nat, T # {}
    PROVE  \E i \in T : \A j \in T : i <= j
<1> DEFINE Less == {ss \in Nat \X Nat : ss[1] < ss[2]}
<1>1. IsWellFoundedOn(Less, Nat)
  BY NatLessThanWellFounded DEF OpToRel
<1>2. PICK i \in T : \A j \in T : ~(<<j, i>> \in Less)
  BY <1>1, WFMin
<1>3. ASSUME NEW j \in T PROVE i <= j
  <2>1. i \in Nat /\ j \in Nat /\ ~(<<j, i>> \in Less)
    BY <1>2
  <2>2. <<j, i>> \in Nat \X Nat /\ <<j, i>>[1] = j /\ <<j, i>>[2] = i
    BY <2>1
  <2>3. ~(j < i)
    BY <2>1, <2>2
  <2>4. QED BY <2>1, <2>3
<1>4. QED BY <1>3

\* A section that was found begins somewhere, and has the bytes of the file
\* from there on.
LEMMA SectionFacts ==
    ASSUME NEW f \in Files, DataSection(f) # None
    PROVE  /\ DataSection(f) \in [ptr : Nat, size : Int, bytes : Seq(Bytes)]
           /\ \E n \in Nat : DataSection(f).bytes =
                  Slice(f.bytes, DataSection(f).ptr, DataSection(f).ptr + n)
<1> DEFINE Stops == {i \in 1 .. Len(f.headers) : i > f.whole \/ f.headers[i].name = ".data"}
           first == CHOOSE i \in Stops : \A j \in Stops : i <= j
           hdr == f.headers[first]
<1>1. f.bytes \in Seq(Bytes) /\ Len(f.bytes) \in Nat
  BY FileType
<1>2. Stops # {}
  BY DEF DataSection
<1>3. \E i \in Stops : \A j \in Stops : i <= j
  <2>1. Stops \in SUBSET Nat
    OBVIOUS
  <2>2. QED BY <1>2, <2>1, FirstOfNumbers
<1>4. first \in 1 .. Len(f.headers)
  BY <1>3
<1>5. hdr.ptr \in Nat /\ hdr.size \in Nat
  BY <1>4, FileType
<1>6. DataSection(f) =
         [ptr |-> hdr.ptr,
          size |-> IF hdr.ptr + hdr.size > Len(f.bytes) THEN Len(f.bytes) - hdr.ptr ELSE hdr.size,
          bytes |-> Slice(f.bytes, hdr.ptr, hdr.ptr + hdr.size)]
  BY DEF DataSection
<1> HIDE DEF hdr
<1>7. Slice(f.bytes, hdr.ptr, hdr.ptr + hdr.size) \in Seq(Bytes)
  BY <1>1, <1>5, SliceFacts
<1>8. QED BY <1>1, <1>5, <1>6, <1>7

\* A mapping the probe gives is the place of its needle in the section.
LEMMA ProbeFacts ==
    ASSUME NEW needle \in Seq(Bytes), NEW sec, sec.bytes \in Seq(Bytes),
           ProbeResult(needle, sec) # None
    PROVE  /\ ProbeResult(needle, sec).size = Len(needle) /\ Len(needle) > 0
           /\ ProbeResult(needle, sec) \in [at : Nat, size : Nat \ {0}]
           /\ ProbeResult(needle, sec).at + Len(needle) <= Len(sec.bytes)
           /\ \A i \in 1 .. Len(needle) : sec.bytes[ProbeResult(needle, sec).at + i] = needle[i]
<1> DEFINE found == Offsets(needle, sec.bytes)
           at == CHOOSE i \in found : TRUE
<1>1. Len(needle) \in Nat /\ Len(sec.bytes) \in Nat
  OBVIOUS
<1>2. Len(needle) # 0 /\ found # {} /\ ProbeResult(needle, sec) = [at |-> at, size |-> Len(needle)]
  BY DEF ProbeResult
<1>3. at \in found
  BY <1>2
<1> HIDE DEF at
<1>4. /\ at \in 0 .. (Len(sec.bytes) - Len(needle))
      /\ Slice(sec.bytes, at, at + Len(needle)) = needle
  BY <1>3 DEF Offsets
<1>5. at \in Nat /\ at + Len(needle) \in Nat /\ at + Len(needle) <= Len(sec.bytes)
  BY <1>1, <1>4
<1>6. \A i \in 1 .. Len(Slice(sec.bytes, at, at + Len(needle))) :
         Slice(sec.bytes, at, at + Len(needle))[i] = sec.bytes[at + i]
  <2>1. at <= at + Len(needle)
    BY <1>1, <1>5
  <2>2. QED BY <2>1, <1>5, SliceFacts
<1>7. QED BY <1>1, <1>2, <1>4, <1>5, <1>6
-----------------------------------------------------------------------------
LEMMA InitInductive == Init => Inductive
<1> SUFFICES ASSUME Init PROVE Inductive
  OBVIOUS
<1>1. Mapped = {}
  BY DEF Init, Mapped
<1>2. dll \in Seq(Bytes) /\ dll = file.bytes /\ Len(dll) \in Nat
  BY FileType DEF Init
<1>3. held \in [Effects -> Seq(Bytes)]
  BY OverlayAssumption DEF Init
<1>4. TypeOK
  BY <1>1, <1>2, <1>3 DEF Init, TypeOK
<1>5. Sited /\ Known
  BY <1>1, <1>2 DEF Init, Sited, Known
<1>6. \A e, i : ~Writes(e, i)
  BY <1>1 DEF Writes
<1>7. Layered
  BY <1>1, <1>2, <1>6 DEF Layered, Composed, Apart, NoRing
<1>8. QED BY <1>4, <1>5, <1>7 DEF Inductive

\* While nothing is mapped, nothing is written.
LEMMA NothingMapped ==
    ASSUME Inductive, phase # "overlay"
    PROVE  /\ Mapped = {} /\ open = {} /\ held = blob
           /\ dll = file.bytes
<1>1. Mapped = {} /\ open = {}
  BY DEF Inductive, Sited, TypeOK
<1>2. blob \in [Effects -> Seq(Bytes)] /\ held \in [Effects -> Seq(Bytes)]
  BY OverlayAssumption DEF Inductive, TypeOK
<1>3. held = blob
  BY <1>1, <1>2 DEF Inductive, Known
<1>4. file.bytes \in Seq(Bytes) /\ dll \in Seq(Bytes) /\ Len(dll) = Len(file.bytes)
  BY FileType DEF Inductive, TypeOK, Known
<1>5. \A e, i : ~Writes(e, i)
  BY <1>1 DEF Writes
<1>6. \A i \in 1 .. Len(dll) : dll[i] = file.bytes[i]
  BY <1>5 DEF Inductive, Layered, Composed
<1>7. dll = file.bytes
  BY <1>4, <1>6, SeqEqual
<1>8. QED BY <1>1, <1>3, <1>7

LEMMA ParseStep ==
    ASSUME Inductive, Parse
    PROVE  Inductive'
<1>1. Mapped = {} /\ open = {} /\ held = blob /\ dll = file.bytes
  BY NothingMapped DEF Parse
<1>2. Mapped' = {} /\ open' = {} /\ held' = blob' /\ dll' = file'.bytes /\ file' = file
  BY <1>1 DEF Parse, Mapped
<1>3. section' # None => section' \in [ptr : Nat, size : Int, bytes : Seq(Bytes)]
  BY SectionFacts DEF Parse, Inductive, TypeOK
<1>4. TypeOK'
  BY <1>2, <1>3 DEF Inductive, TypeOK, Parse
<1>5. Sited' /\ Known'
  BY <1>2 DEF Parse, Sited, Known
<1>6. \A e, i : ~Writes(e, i)'
  BY <1>2 DEF Writes
<1>7. Layered'
  BY <1>2, <1>6 DEF Layered, Composed, Apart, NoRing
<1>8. QED BY <1>4, <1>5, <1>7 DEF Inductive

LEMMA ProbeStep ==
    ASSUME Inductive, Probe
    PROVE  Inductive'
<1>1. Mapped = {} /\ open = {} /\ held = blob /\ dll = file.bytes
  BY NothingMapped DEF Probe
<1>2. /\ open' = {} /\ held' = blob' /\ dll' = file'.bytes
      /\ file' = file /\ blob' = blob /\ section' = section /\ phase' = "overlay"
      /\ mapping' = [e \in Effects |-> ProbeResult(blob[e], section)]
  BY <1>1 DEF Probe
<1>3. /\ file \in Files /\ blob \in [Effects -> Seq(Bytes)]
      /\ section # None /\ section = DataSection(file)
  BY OverlayAssumption DEF Inductive, TypeOK, Sited, Probe
<1>4. section \in [ptr : Nat, size : Int, bytes : Seq(Bytes)]
  BY <1>3, SectionFacts
<1>5. file.bytes \in Seq(Bytes) /\ Len(file.bytes) \in Nat
  BY <1>3, FileType
<1>6. PICK n \in Nat : section.bytes = Slice(file.bytes, section.ptr, section.ptr + n)
  BY <1>3, SectionFacts
<1>7. /\ Len(section.bytes) \in Nat
      /\ Len(section.bytes) > 0 => section.ptr + Len(section.bytes) <= Len(file.bytes)
      /\ \A i \in 1 .. Len(section.bytes) : section.bytes[i] = file.bytes[section.ptr + i]
  <2>1. section.ptr \in Nat /\ section.ptr + n \in Nat /\ section.ptr <= section.ptr + n
    BY <1>4, <1>6
  <2>2. Len(section.bytes) =
           IF section.ptr + n <= Len(file.bytes) THEN (section.ptr + n) - section.ptr
           ELSE IF section.ptr <= Len(file.bytes) THEN Len(file.bytes) - section.ptr ELSE 0
    <3>1. Len(Slice(file.bytes, section.ptr, section.ptr + n)) =
             IF section.ptr + n <= Len(file.bytes) THEN (section.ptr + n) - section.ptr
             ELSE IF section.ptr <= Len(file.bytes) THEN Len(file.bytes) - section.ptr ELSE 0
      <4> DEFINE lo == section.ptr
                 hi == section.ptr + n
      <4>1. lo \in Nat /\ hi \in Nat /\ lo <= hi
        BY <2>1
      <4> HIDE DEF lo, hi
      <4>2. Len(Slice(file.bytes, lo, hi)) =
               IF hi <= Len(file.bytes) THEN hi - lo
               ELSE IF lo <= Len(file.bytes) THEN Len(file.bytes) - lo ELSE 0
        BY <1>5, <4>1, SliceFacts
      <4>3. QED BY <4>2 DEF lo, hi
    <3>2. QED BY <1>6, <3>1
  <2>3. \A i \in 1 .. Len(section.bytes) : section.bytes[i] = file.bytes[section.ptr + i]
    <3>1. \A i \in 1 .. Len(Slice(file.bytes, section.ptr, section.ptr + n)) :
             Slice(file.bytes, section.ptr, section.ptr + n)[i] = file.bytes[section.ptr + i]
      BY <1>5, <2>1, SliceFacts
    <3>2. QED BY <1>6, <3>1
  <2> DEFINE len == Len(file.bytes)
             ptr == section.ptr
             m == Len(section.bytes)
  <2>4. len \in Nat /\ ptr \in Nat /\ n \in Nat
        /\ m = IF ptr + n <= len THEN (ptr + n) - ptr ELSE IF ptr <= len THEN len - ptr ELSE 0
    BY <1>5, <1>6, <2>1, <2>2
  <2> HIDE DEF len, ptr, m
  <2>5. m \in Nat /\ (m > 0 => ptr + m <= len)
    BY <2>4
  <2>6. QED BY <2>3, <2>5 DEF len, ptr, m
<1>8. ASSUME NEW e \in Mapped'
      PROVE  /\ mapping'[e] \in [at : Nat, size : Nat \ {0}]
             /\ Start(e)' \in Nat /\ End(e)' <= Len(file'.bytes)
             /\ Len(blob'[e]) = mapping'[e].size
             /\ \A i \in Place(e)' : blob'[e][i - Start(e)'] = file'.bytes[i]
  <2> DEFINE at == mapping'[e].at
  <2>1. e \in Effects /\ mapping'[e] = ProbeResult(blob[e], section) /\ mapping'[e] # None
    BY <1>2 DEF Mapped
  <2>2. /\ blob[e] \in Seq(Bytes) /\ Len(blob[e]) \in Nat
        /\ section.bytes \in Seq(Bytes)
    BY <1>3, <1>4, <2>1
  <2>3. /\ mapping'[e].size = Len(blob[e]) /\ Len(blob[e]) > 0
        /\ mapping'[e] \in [at : Nat, size : Nat \ {0}]
        /\ at + Len(blob[e]) <= Len(section.bytes)
        /\ \A i \in 1 .. Len(blob[e]) : section.bytes[at + i] = blob[e][i]
    BY <2>1, <2>2, ProbeFacts
  <2>4. at \in Nat /\ section.ptr \in Nat
    BY <1>4, <2>3
  <2> HIDE DEF at
  <2>5. Start(e)' = section.ptr + at /\ End(e)' = section.ptr + at + Len(blob[e])
    BY <1>2, <2>3 DEF Start, End, at
  <2>6. End(e)' <= Len(file.bytes)
    BY <1>5, <1>7, <2>2, <2>3, <2>4, <2>5
  <2>7. ASSUME NEW i \in Place(e)' PROVE blob'[e][i - Start(e)'] = file'.bytes[i]
    <3>1. i \in 1 .. Len(file.bytes) /\ section.ptr + at < i /\ i <= section.ptr + at + Len(blob[e])
      <4>1. Place(e)' = {j \in 1 .. Len(file'.bytes) : Start(e)' < j /\ j <= End(e)'}
        BY DEF Place
      <4>2. i \in 1 .. Len(file'.bytes) /\ Start(e)' < i /\ i <= End(e)'
        BY <4>1
      <4>3. QED BY <1>2, <2>5, <4>2
    <3> DEFINE k == i - (section.ptr + at)
    <3>2. k \in 1 .. Len(blob[e]) /\ at + k \in 1 .. Len(section.bytes) /\ section.ptr + (at + k) = i
      <4>1. /\ section.ptr \in Nat /\ at \in Nat /\ i \in Nat /\ Len(blob[e]) \in Nat
            /\ Len(section.bytes) \in Nat
            /\ section.ptr + at < i /\ i <= section.ptr + at + Len(blob[e])
            /\ at + Len(blob[e]) <= Len(section.bytes)
        BY <1>5, <1>7, <2>2, <2>3, <2>4, <3>1
      <4>2. k \in Nat /\ 1 <= k /\ k <= Len(blob[e])
        BY <4>1
      <4> HIDE DEF k
      <4>3. k \in 1 .. Len(blob[e]) /\ at + k \in 1 .. Len(section.bytes)
        BY <4>1, <4>2
      <4>4. section.ptr + (at + k) = i
        BY <4>1 DEF k
      <4>5. QED BY <4>3, <4>4
    <3> HIDE DEF k
    <3>3. blob[e][k] = section.bytes[at + k]
      BY <2>3, <3>2
    <3>4. section.bytes[at + k] = file.bytes[i]
      BY <1>7, <3>2
    <3>5. blob'[e][i - Start(e)'] = blob[e][k]
      BY <1>2, <2>5 DEF k
    <3>6. QED BY <1>2, <3>3, <3>4, <3>5
  <2>8. QED BY <1>2, <2>3, <2>4, <2>5, <2>6, <2>7
<1>9. Sited'
  <2>1. section' # None /\ section' = DataSection(file')
    BY <1>2, <1>3
  <2>2. QED BY <1>2, <1>8, <2>1 DEF Sited
<1>10. Known'
  BY <1>2 DEF Known
<1>11. mapping' \in [Effects -> [at : Nat, size : Nat \ {0}] \cup {None}]
  <2>1. \A e \in Effects : mapping'[e] \in [at : Nat, size : Nat \ {0}] \cup {None}
    BY <1>8 DEF Mapped
  <2>2. QED BY <1>2, <2>1
<1>12. TypeOK'
  BY <1>1, <1>2, <1>3, <1>4, <1>5, <1>8, <1>11 DEF Inductive, TypeOK
<1>13. \A e, i : ~Writes(e, i)'
  <2> SUFFICES ASSUME NEW e, NEW i, Writes(e, i)' PROVE FALSE
    OBVIOUS
  <2>1. e \in Mapped' /\ i \in Place(e)' /\ held'[e][i - Start(e)'] # file'.bytes[i]
    BY DEF Writes
  <2>2. blob'[e][i - Start(e)'] = file'.bytes[i]
    BY <1>8, <2>1
  <2>3. QED BY <1>2, <2>1, <2>2
<1>14. Layered'
  <2>1. Composed' /\ Apart'
    BY <1>2, <1>13 DEF Composed, Apart
  <2>2. \A d, e : ~Covers(d, e)'
    BY <1>13 DEF Covers
  <2>3. NoRing'
    BY <2>2 DEF NoRing
  <2>4. QED BY <2>1, <2>3 DEF Layered
<1>15. QED BY <1>9, <1>10, <1>12, <1>14 DEF Inductive
\* A mapped effect is a stretch of the DLL, and the caller holds as much.
LEMMA Stretch ==
    ASSUME Inductive, NEW e \in Mapped
    PROVE  /\ e \in Effects /\ Start(e) \in Nat /\ End(e) \in Nat
           /\ mapping[e].size \in Nat \ {0} /\ End(e) = Start(e) + mapping[e].size
           /\ End(e) <= Len(dll)
           /\ dll \in Seq(Bytes) /\ Len(dll) \in Nat /\ Len(dll) = Len(file.bytes)
           /\ held[e] \in Seq(Bytes) /\ Len(held[e]) = mapping[e].size
           /\ Place(e) = {i \in 1 .. Len(dll) : Start(e) < i /\ i <= End(e)}
<1>1. e \in Effects /\ mapping[e] # None
  BY DEF Mapped
<1>2. mapping[e] \in [at : Nat, size : Nat \ {0}]
  BY <1>1 DEF Inductive, TypeOK
<1>3. Start(e) \in Nat /\ End(e) <= Len(file.bytes)
  BY DEF Inductive, Sited
<1>4. End(e) = Start(e) + mapping[e].size
  BY DEF End
<1>5. dll \in Seq(Bytes) /\ Len(dll) = Len(file.bytes) /\ Len(dll) \in Nat
  BY DEF Inductive, TypeOK, Known
<1>6. held[e] \in Seq(Bytes) /\ Len(held[e]) = mapping[e].size
  BY <1>1 DEF Inductive, TypeOK
<1>7. Place(e) = {i \in 1 .. Len(dll) : Start(e) < i /\ i <= End(e)}
  BY <1>5 DEF Place
<1>8. QED BY <1>1, <1>2, <1>3, <1>4, <1>5, <1>6, <1>7

\* An effect verifies when each of its bytes is the one the caller holds.
LEMMA VerifyByBytes ==
    ASSUME Inductive, NEW e \in Mapped
    PROVE  Current(e) <=> \A i \in Place(e) : dll[i] = held[e][i - Start(e)]
<1> DEFINE lo == Start(e)
           hi == End(e)
           there == Slice(dll, lo, hi)
<1>1. /\ lo \in Nat /\ hi \in Nat /\ lo <= hi /\ hi <= Len(dll)
      /\ dll \in Seq(Bytes) /\ Len(dll) \in Nat
      /\ held[e] \in Seq(Bytes) /\ Len(held[e]) = hi - lo
  BY Stretch
<1>2. Place(e) = {i \in 1 .. Len(dll) : lo < i /\ i <= hi}
  BY Stretch
<1>3. Current(e) <=> there = held[e]
  BY DEF Current, Verify
<1> HIDE DEF lo, hi
<1>4. there \in Seq(Bytes) /\ Len(there) = hi - lo
  BY <1>1, SliceFacts
<1>5. \A k \in 1 .. Len(there) : there[k] = dll[lo + k]
  BY <1>1, SliceFacts
<1> HIDE DEF there
<1>6. ASSUME there = held[e], NEW i \in Place(e) PROVE dll[i] = held[e][i - lo]
  <2>1. i \in Nat /\ i - lo \in 1 .. Len(there) /\ lo + (i - lo) = i
    BY <1>1, <1>2, <1>4
  <2>2. QED BY <1>5, <1>6, <2>1
<1>7. ASSUME \A i \in Place(e) : dll[i] = held[e][i - lo] PROVE there = held[e]
  <2>1. ASSUME NEW k \in 1 .. Len(there) PROVE there[k] = held[e][k]
    <3>1. lo + k \in Place(e) /\ (lo + k) - lo = k
      BY <1>1, <1>2, <1>4
    <3>2. QED BY <1>5, <1>7, <3>1
  <2>2. QED BY <1>1, <1>4, <2>1, SeqEqual
<1>8. QED BY <1>3, <1>6, <1>7 DEF lo

\* What a write changes and what it does not.
LEMMA WriteFacts ==
    ASSUME Inductive, NEW e \in Effects, NEW new \in Payloads, Write(e, new)
    PROVE  /\ e \in Mapped /\ Mapped' = Mapped
           /\ file' = file /\ blob' = blob /\ section' = section
           /\ phase' = phase /\ phase = "overlay" /\ mapping' = mapping
           /\ \A d \in Effects : Start(d)' = Start(d) /\ End(d)' = End(d) /\ Place(d)' = Place(d)
           /\ new \in Seq(Bytes) /\ Len(new) = mapping[e].size
           /\ dll' \in Seq(Bytes) /\ Len(dll') = Len(dll)
           /\ \A i \in 1 .. Len(dll) :
                 dll'[i] = IF i \in Place(e) THEN new[i - Start(e)] ELSE dll[i]
           /\ held' \in [Effects -> Seq(Bytes)] /\ held'[e] = new
           /\ \A d \in Effects \ {e} : held'[d] = held[d]
           /\ \A i \in Place(e) : dll[i] = held[e][i - Start(e)]
<1>1. /\ phase = "overlay" /\ mapping[e] # None /\ SizeHolds(e, new) /\ Current(e)
      /\ dll' = Splice(dll, Start(e), End(e), new)
      /\ held' = [held EXCEPT ![e] = new]
      /\ file' = file /\ blob' = blob /\ section' = section
      /\ phase' = phase /\ mapping' = mapping
  BY DEF Write
<1>2. e \in Mapped /\ Mapped' = Mapped
  BY <1>1 DEF Mapped
<1>3. ASSUME NEW d \in Effects
      PROVE  Start(d)' = Start(d) /\ End(d)' = End(d) /\ Place(d)' = Place(d)
  BY <1>1 DEF Start, End, Place
<1>4. new \in Seq(Bytes) /\ Len(new) = mapping[e].size
  BY <1>1, OverlayAssumption DEF SizeHolds
<1>5. /\ dll' \in Seq(Bytes) /\ Len(dll') = Len(dll)
      /\ \A i \in 1 .. Len(dll) :
            dll'[i] = IF i \in Place(e) THEN new[i - Start(e)] ELSE dll[i]
  <2> DEFINE lo == Start(e)
             hi == End(e)
  <2>1. /\ lo \in Nat /\ hi \in Nat /\ lo <= hi /\ hi <= Len(dll) /\ dll \in Seq(Bytes)
        /\ Len(new) = hi - lo
    BY <1>2, <1>4, Stretch
  <2>2. Place(e) = {i \in 1 .. Len(dll) : lo < i /\ i <= hi}
    BY <1>2, Stretch
  <2>3. dll' = Splice(dll, lo, hi, new)
    BY <1>1
  <2> HIDE DEF lo, hi
  <2>4. /\ dll' \in Seq(Bytes) /\ Len(dll') = Len(dll)
        /\ \A i \in 1 .. Len(dll) :
              dll'[i] = IF lo < i /\ i <= hi THEN new[i - lo] ELSE dll[i]
    <3> DEFINE spliced == Splice(dll, lo, hi, new)
    <3>1. /\ spliced \in Seq(Bytes)
          /\ Len(spliced) = Len(dll)
          /\ \A i \in 1 .. Len(dll) :
                spliced[i] = IF lo < i /\ i <= hi THEN new[i - lo] ELSE dll[i]
      BY <1>4, <2>1, SpliceFacts
    <3>2. dll' = spliced
      BY <2>3
    <3> HIDE DEF spliced
    <3>3. QED BY <3>1, <3>2
  <2>5. \A i \in 1 .. Len(dll) : dll'[i] = IF i \in Place(e) THEN new[i - lo] ELSE dll[i]
    BY <2>2, <2>4
  <2>6. QED BY <2>4, <2>5 DEF lo
<1>6. held \in [Effects -> Seq(Bytes)]
  BY DEF Inductive, TypeOK
<1>7. /\ held' \in [Effects -> Seq(Bytes)] /\ held'[e] = new
      /\ \A d \in Effects \ {e} : held'[d] = held[d]
  BY <1>1, <1>4, <1>6
<1>8. \A i \in Place(e) : dll[i] = held[e][i - Start(e)]
  BY <1>1, <1>2, VerifyByBytes
<1>9. QED BY <1>1, <1>2, <1>3, <1>4, <1>5, <1>7, <1>8

\* A write is possible only on top: no other effect has changed a byte there.
\* Hence the writer is on top afterwards, and covers others but none covers it.
LEMMA WriteLayered ==
    ASSUME Inductive, NEW e \in Effects, NEW new \in Payloads, Write(e, new)
    PROVE  Layered'
<1>1. /\ e \in Mapped /\ Mapped' = Mapped /\ Mapped \subseteq Effects /\ file' = file
      /\ \A d \in Effects : Start(d)' = Start(d) /\ Place(d)' = Place(d)
      /\ Len(dll') = Len(dll)
      /\ held'[e] = new /\ \A d \in Effects \ {e} : held'[d] = held[d]
  BY WriteFacts DEF Mapped
<1>2. \A i \in 1 .. Len(dll) : dll'[i] = IF i \in Place(e) THEN new[i - Start(e)] ELSE dll[i]
  BY WriteFacts
<1>3. \A i \in Place(e) : dll[i] = held[e][i - Start(e)]
  BY WriteFacts
<1>4. Composed /\ Apart /\ NoRing
  BY DEF Inductive, Layered
<1>5. \A d \in Mapped : Place(d) \subseteq 1 .. Len(dll)
  BY Stretch
<1>6. \A d \in Effects \ {e} : \A i : Writes(d, i)' <=> Writes(d, i)
  BY <1>1 DEF Writes
<1>7. \A i : Writes(e, i)' <=> i \in Place(e) /\ new[i - Start(e)] # file.bytes[i]
  BY <1>1 DEF Writes
<1>8. ASSUME NEW d \in Effects \ {e}, NEW i \in Place(e) PROVE ~Writes(d, i)
  <2> SUFFICES ASSUME Writes(d, i) PROVE FALSE
    OBVIOUS
  <2>1. i \in 1 .. Len(dll)
    BY <1>1, <1>5
  <2>2. dll[i] = held[d][i - Start(d)] /\ dll[i] # file.bytes[i]
    BY <1>4, <2>1 DEF Composed, Writes
  <2>3. Writes(e, i)
    BY <1>1, <1>3, <2>2 DEF Writes
  <2>4. QED BY <1>4, <2>1, <2>3 DEF Apart
<1>9. Composed'
  <2> SUFFICES ASSUME NEW i \in 1 .. Len(dll)
               PROVE  /\ \A d \in Effects : Writes(d, i)' => dll'[i] = held'[d][i - Start(d)]
                      /\ (\A d \in Effects : ~Writes(d, i)') => dll'[i] = file.bytes[i]
    BY <1>1 DEF Composed
  <2>1. ASSUME NEW d \in Effects, Writes(d, i)' PROVE dll'[i] = held'[d][i - Start(d)]
    <3>1. CASE d = e
      BY <1>1, <1>2, <1>7, <2>1, <3>1
    <3>2. CASE d # e
      <4>1. Writes(d, i) /\ i \notin Place(e)
        BY <1>6, <1>8, <2>1, <3>2
      <4>2. dll[i] = held[d][i - Start(d)]
        BY <1>4, <4>1 DEF Composed
      <4>3. QED BY <1>1, <1>2, <3>2, <4>1, <4>2
    <3>3. QED BY <3>1, <3>2
  <2>2. ASSUME \A d \in Effects : ~Writes(d, i)' PROVE dll'[i] = file.bytes[i]
    <3>1. CASE i \in Place(e)
      BY <1>2, <1>7, <2>2, <3>1
    <3>2. CASE i \notin Place(e)
      <4>1. \A d \in Effects : ~Writes(d, i)
        BY <1>6, <2>2, <3>2 DEF Writes
      <4>2. dll[i] = file.bytes[i]
        BY <1>4, <4>1 DEF Composed
      <4>3. QED BY <1>2, <3>2, <4>2
    <3>3. QED BY <3>1, <3>2
  <2>3. QED BY <2>1, <2>2
<1>10. Apart'
  <2> SUFFICES ASSUME NEW d \in Effects, NEW f \in Effects, NEW i \in 1 .. Len(dll),
                      Writes(d, i)', Writes(f, i)', d # f
               PROVE  FALSE
    BY <1>1 DEF Apart
  <2>1. CASE d = e
    BY <1>6, <1>7, <1>8, <2>1
  <2>2. CASE f = e
    BY <1>6, <1>7, <1>8, <2>2
  <2>3. CASE d # e /\ f # e
    BY <1>4, <1>6, <2>3 DEF Apart
  <2>4. QED BY <2>1, <2>2, <2>3
<1>11. NoRing'
  <2> SUFFICES ASSUME NEW T \in SUBSET Mapped, T # {}
               PROVE  \E f \in T : \A d \in T : ~Covers(d, f)'
    BY <1>1 DEF NoRing
  <2>1. CASE e \in T
    <3>1. \A d \in T : ~Covers(d, e)'
      BY <1>1, <1>6, <1>8 DEF Covers
    <3>2. QED BY <2>1, <3>1
  <2>2. CASE e \notin T
    <3>1. PICK f \in T : \A d \in T : ~Covers(d, f)
      BY <1>4 DEF NoRing
    <3>2. \A d \in T : ~Covers(d, f)'
      BY <1>1, <1>6, <2>2, <3>1 DEF Covers
    <3>3. QED BY <3>2
  <2>3. QED BY <2>1, <2>2
<1>12. QED BY <1>9, <1>10, <1>11 DEF Layered

\* A write keeps types, places and lengths, if open is kept right.
LEMMA WriteStep ==
    ASSUME Inductive, NEW e \in Effects, NEW new \in Payloads, Write(e, new),
           open' \subseteq Mapped, open \subseteq open' \cup {e},
           e \notin open' => new = blob[e]
    PROVE  Inductive'
<1>1. /\ e \in Mapped /\ Mapped' = Mapped
      /\ file' = file /\ blob' = blob /\ section' = section
      /\ phase' = phase /\ phase = "overlay" /\ mapping' = mapping
      /\ \A d \in Effects : Start(d)' = Start(d) /\ End(d)' = End(d) /\ Place(d)' = Place(d)
      /\ Len(new) = mapping[e].size
      /\ dll' \in Seq(Bytes) /\ Len(dll') = Len(dll)
      /\ held' \in [Effects -> Seq(Bytes)] /\ held'[e] = new
      /\ \A d \in Effects \ {e} : held'[d] = held[d]
  BY WriteFacts
<1>2. Mapped \subseteq Effects
  BY DEF Mapped
<1>3. TypeOK'
  <2>1. \A d \in Mapped : Len(held'[d]) = mapping[d].size
    BY <1>1, <1>2 DEF Inductive, TypeOK
  <2>2. QED BY <1>1, <2>1 DEF Inductive, TypeOK
<1>4. Sited'
  BY <1>1, <1>2 DEF Inductive, Sited
<1>5. Known'
  <2>1. \A d \in Effects \ open' : held'[d] = blob[d]
    BY <1>1 DEF Inductive, Known
  <2>2. QED BY <1>1, <2>1 DEF Inductive, Known
<1>6. Layered'
  BY WriteLayered
<1>7. QED BY <1>3, <1>4, <1>5, <1>6 DEF Inductive

THEOREM InductiveHolds == Spec => []Inductive
<1>1. Inductive /\ [Next]_vars => Inductive'
  <2> SUFFICES ASSUME Inductive, [Next]_vars PROVE Inductive'
    OBVIOUS
  <2>1. CASE Parse
    BY <2>1, ParseStep
  <2>2. CASE Probe
    BY <2>2, ProbeStep
  <2>3. ASSUME NEW e \in Effects, NEW new \in Payloads, Apply(e, new) PROVE Inductive'
    <3>1. Write(e, new) /\ open' = open \cup {e}
      BY <2>3 DEF Apply
    <3>2. open \subseteq Mapped /\ e \in Mapped
      BY <3>1, WriteFacts DEF Inductive, TypeOK
    <3>3. QED BY <3>1, <3>2, WriteStep
  <2>4. ASSUME NEW e \in Effects, NEW original \in Payloads, Restore(e, original)
        PROVE  Inductive'
    <3>1. Write(e, original) /\ open' = open \ {e} /\ original = blob[e]
      BY <2>4 DEF Restore
    <3>2. open \subseteq Mapped
      BY DEF Inductive, TypeOK
    <3>3. QED BY <3>1, <3>2, WriteStep
  <2>5. CASE UNCHANGED vars
    <3>1. /\ file' = file /\ blob' = blob /\ section' = section /\ phase' = phase
          /\ mapping' = mapping /\ dll' = dll /\ held' = held /\ open' = open
      BY <2>5 DEF vars
    <3>2. Mapped' = Mapped
      BY <3>1 DEF Mapped
    <3>3. \A d : Start(d)' = Start(d) /\ End(d)' = End(d) /\ Place(d)' = Place(d)
      BY <3>1 DEF Start, End, Place
    <3>4. TypeOK' /\ Sited' /\ Known'
      BY <3>1, <3>2, <3>3 DEF Inductive, TypeOK, Sited, Known
    <3>5. \A d, i : Writes(d, i)' <=> Writes(d, i)
      BY <3>1, <3>2, <3>3 DEF Writes
    <3>6. Composed' /\ Apart'
      BY <3>1, <3>3, <3>5 DEF Inductive, Layered, Composed, Apart
    <3>7. \A d, f : Covers(d, f)' <=> Covers(d, f)
      BY <3>3, <3>5 DEF Covers
    <3>8. NoRing'
      BY <3>2, <3>7 DEF Inductive, Layered, NoRing
    <3>9. QED BY <3>4, <3>6, <3>8 DEF Inductive, Layered
  <2>6. QED BY <2>1, <2>2, <2>3, <2>4, <2>5 DEF Next
<1>2. QED BY <1>1, InitInductive, PTL DEF Spec

\* Whatever effects overlap, each changed byte is the work of one of them, and
\* among any of them one is on top.
THEOREM EffectsAreLayered == Spec => []Layered
<1>1. Inductive => Layered BY DEF Inductive
<1>2. QED BY <1>1, InductiveHolds, PTL

\* The caller can always restore one more effect until none is left, and then
\* the DLL is the one on disk.
THEOREM AlwaysUndoable == Spec => []Undoable
<1>1. Inductive => Undoable
  <2> SUFFICES ASSUME Inductive PROVE Undoable
    OBVIOUS
  <2>1. ASSUME NEW d \in Effects \ open, NEW i PROVE ~Writes(d, i)
    <3>1. held[d] = blob[d]
      BY DEF Inductive, Known
    <3>2. QED BY <3>1 DEF Writes, Inductive, Sited
  <2>2. file.bytes \in Seq(Bytes) /\ dll \in Seq(Bytes) /\ Len(dll) = Len(file.bytes)
    BY FileType DEF Inductive, TypeOK, Known
  <2>3. Composed /\ NoRing
    BY DEF Inductive, Layered
  <2>4. CASE open = {}
    <3>1. \A i \in 1 .. Len(dll) : dll[i] = file.bytes[i]
      BY <2>1, <2>3, <2>4 DEF Composed
    <3>2. dll = file.bytes
      BY <2>2, <3>1, SeqEqual
    <3>3. QED BY <2>4, <3>2 DEF Undoable
  <2>5. CASE open # {}
    <3>1. open \subseteq Mapped
      BY DEF Inductive, TypeOK
    <3>2. PICK e \in open : \A d \in open : ~Covers(d, e)
      BY <2>3, <2>5, <3>1 DEF NoRing
    <3>3. e \in Mapped /\ e \in Effects /\ Place(e) \subseteq 1 .. Len(dll)
      BY <3>1, Stretch
    <3>4. ASSUME NEW i \in Place(e) PROVE dll[i] = held[e][i - Start(e)]
      <4>1. \A d \in Effects \ {e} : ~Writes(d, i)
        BY <2>1, <3>2 DEF Covers
      <4>2. CASE Writes(e, i)
        BY <2>3, <3>3, <4>2 DEF Composed
      <4>3. CASE ~Writes(e, i)
        <5>1. held[e][i - Start(e)] = file.bytes[i]
          BY <3>3, <4>3 DEF Writes
        <5>2. dll[i] = file.bytes[i]
          BY <2>3, <3>3, <4>1, <4>3 DEF Composed
        <5>3. QED BY <5>1, <5>2
      <4>4. QED BY <4>2, <4>3
    <3>5. Current(e)
      BY <3>3, <3>4, VerifyByBytes
    <3>6. QED BY <2>5, <3>5 DEF Undoable, Current
  <2>6. QED BY <2>4, <2>5
<1>2. QED BY <1>1, InductiveHolds, PTL

\* The DLL keeps its length, and only bytes of open effects differ.
THEOREM OverlaysAreConfined == Spec => []Confined
<1>1. Inductive => Confined
  <2> SUFFICES ASSUME Inductive, NEW i \in 1 .. Len(dll), dll[i] # file.bytes[i]
               PROVE  \E e \in open : i \in Place(e)
    BY DEF Confined, Inductive, Known
  <2>1. PICK e \in Effects : Writes(e, i)
    BY DEF Inductive, Layered, Composed
  <2>2. held[e] # blob[e]
    BY <2>1 DEF Writes, Inductive, Sited
  <2>3. QED BY <2>1, <2>2 DEF Inductive, Known, Writes
<1>2. QED BY <1>1, InductiveHolds, PTL

\* An effect that shares no byte with another always verifies.
THEOREM LoneEffectsVerify == Spec => []LoneVerifies
<1>1. Inductive => LoneVerifies
  <2> SUFFICES ASSUME Inductive, NEW e \in Mapped,
                      \A d \in Mapped \ {e} : Place(d) \cap Place(e) = {}
               PROVE  Current(e)
    BY DEF LoneVerifies, Current
  <2>1. e \in Effects /\ Place(e) \subseteq 1 .. Len(dll)
    BY Stretch
  <2>2. ASSUME NEW i \in Place(e) PROVE dll[i] = held[e][i - Start(e)]
    <3>1. \A d \in Effects \ {e} : ~Writes(d, i)
      BY DEF Writes
    <3>2. CASE Writes(e, i)
      BY <2>1, <3>2 DEF Inductive, Layered, Composed
    <3>3. CASE ~Writes(e, i)
      <4>1. held[e][i - Start(e)] = file.bytes[i]
        BY <3>3 DEF Writes
      <4>2. dll[i] = file.bytes[i]
        BY <2>1, <3>1, <3>3 DEF Inductive, Layered, Composed
      <4>3. QED BY <4>1, <4>2
    <3>4. QED BY <3>2, <3>3
  <2>3. QED BY <2>2, VerifyByBytes
<1>2. QED BY <1>1, InductiveHolds, PTL
=============================================================================
