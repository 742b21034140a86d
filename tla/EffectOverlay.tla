---------------------------- MODULE EffectOverlay ----------------------------
(***************************************************************************)
(* c2_effect_overlay.py: effects are found in the .data section of a DLL   *)
(* held in memory, replaced by others of the same length, and put back.    *)
(* Effects may overlap.  Nothing is remembered between calls but what the  *)
(* caller carries: the bytes, the mappings, and for each effect the hash   *)
(* of what it wrote there last.                                            *)
(*                                                                         *)
(* A hash is the sequence it is taken of.  A call that raises leaves all   *)
(* of this as it was, so it is a step that changes nothing, and is left    *)
(* out.                                                                    *)
(***************************************************************************)
EXTENDS Integers, Sequences

CONSTANTS Effects,
          Bytes,      \* what a byte may be
          Files,      \* the DLLs: how parse_pe_data_section sees them
          Blobs,      \* the eff files: for each effect, its bytes
          Payloads,   \* what a caller may offer to write
          None        \* the None of the code

\* A DLL has an intact PE signature or not; section headers, of which so many
\* lie within the file; and its bytes, among them those of the section.
File == [signed : BOOLEAN,
         headers : Seq([name : STRING, ptr : Nat, size : Nat]),
         whole : Nat,
         bytes : Seq(Bytes)]

ASSUME OverlayAssumption ==
    /\ Files \subseteq File
    /\ Blobs \subseteq [Effects -> Seq(Bytes)]
    /\ Payloads \subseteq Seq(Bytes)
    /\ None \notin [ptr : Int, size : Int, bytes : Seq(Bytes)] \cup [at : Int, size : Int]

VARIABLES file,     \* the DLL on disk
          blob,     \* the eff file of each effect
          section,  \* what the section parser returned, or None
          phase,    \* "parse", "probe" or "overlay"
          mapping,  \* mapping[e]: offset in the section and size, or None
          dll,      \* the bytes in memory
          held,     \* held[e]: what the caller last knew to be there
          open      \* the effects the caller has replaced and not restored

vars == <<file, blob, section, phase, mapping, dll, held, open>>

\* data[start:end], the ends counted from 0 and cut to the length.
Slice(s, start, end) == SubSeq(s, start + 1, IF end < Len(s) THEN end ELSE Len(s))

\* out[start:end] = new, which makes room if new is longer than the slice.
Splice(s, start, end, new) ==
    LET cut == IF start < Len(s) THEN start ELSE Len(s)
        old == Len(Slice(s, start, end))
    IN [i \in 1 .. (Len(s) - old + Len(new)) |->
            IF i <= cut THEN s[i]
            ELSE IF i <= cut + Len(new) THEN new[i - cut]
            ELSE s[i - Len(new) + old]]

\* parse_pe_data_section: the first header named .data, unless one before it
\* lies beyond the file.  A section that reaches past the end is cut.
DataSection(f) ==
    LET Stops == {i \in 1 .. Len(f.headers) : i > f.whole \/ f.headers[i].name = ".data"}
        first == CHOOSE i \in Stops : \A j \in Stops : i <= j
        hdr == f.headers[first]
    IN IF ~f.signed \/ Stops = {} \/ first > f.whole THEN None
       ELSE [ptr |-> hdr.ptr,
             size |-> IF hdr.ptr + hdr.size > Len(f.bytes) THEN Len(f.bytes) - hdr.ptr ELSE hdr.size,
             bytes |-> Slice(f.bytes, hdr.ptr, hdr.ptr + hdr.size)]

\* _find_whole_blob_offsets.
Offsets(needle, hay) ==
    {i \in 0 .. (Len(hay) - Len(needle)) : Slice(hay, i, i + Len(needle)) = needle}

\* probe_overlay: a mapping only for the one whole occurrence of a needle.
ProbeResult(needle, sec) ==
    LET found == Offsets(needle, sec.bytes)
    IN IF Len(needle) = 0 \/ (\A i \in found : \E j \in found : i # j) THEN None
       ELSE [at |-> CHOOSE i \in found : TRUE, size |-> Len(needle)]

Init ==
    /\ file \in Files /\ blob \in Blobs
    /\ section = None /\ phase = "parse"
    /\ mapping = [e \in Effects |-> None]
    /\ dll = file.bytes
    /\ held = blob
    /\ open = {}

\* parse_pe_data_section on the whole file; without a section nothing follows.
Parse ==
    /\ phase = "parse"
    /\ section' = DataSection(file)
    /\ phase' = IF section' = None THEN "parse" ELSE "probe"
    /\ UNCHANGED <<file, blob, mapping, dll, held, open>>

\* The caller probes each effect on the DLL as it found it.
Probe ==
    /\ phase = "probe"
    /\ mapping' = [e \in Effects |-> ProbeResult(blob[e], section)]
    /\ phase' = "overlay"
    /\ UNCHANGED <<file, blob, section, dll, held, open>>

\* Faulty variant: the pointer to the section is forgotten.
StartUnbased(e) == mapping[e].at

Start(e) == section.ptr + mapping[e].at
End(e) == Start(e) + mapping[e].size

\* verify_overlay: what is there now has the hash expected.
Verify(e, expected) == Slice(dll, Start(e), End(e)) = expected

\* Faulty variant: any size will do.
SizeHoldsAny(e, new) == mapping[e].size >= 0

\* _check_size.
SizeHolds(e, new) == Len(new) = mapping[e].size

\* Faulty variant: what is there now is not looked at.
CurrentAny(e) == mapping[e] # None

\* _check_current_hash, with the hash the caller carries.
Current(e) == Verify(e, held[e])

\* The part that apply_overlay and restore_overlay share.
Write(e, new) ==
    /\ phase = "overlay" /\ mapping[e] # None
    /\ SizeHolds(e, new)
    /\ Current(e)
    /\ dll' = Splice(dll, Start(e), End(e), new)
    /\ held' = [held EXCEPT ![e] = new]
    /\ UNCHANGED <<file, blob, section, phase, mapping>>

Apply(e, new) ==
    /\ Write(e, new)
    /\ open' = open \cup {e}

\* restore_overlay takes only what hashes to source_sha256, the hash of the
\* eff file.
Restore(e, original) ==
    /\ original = blob[e]
    /\ Write(e, original)
    /\ open' = open \ {e}

Next ==
    \/ Parse
    \/ Probe
    \/ \E e \in Effects, new \in Payloads : Apply(e, new)
    \/ \E e \in Effects, original \in Payloads : Restore(e, original)

Spec == Init /\ [][Next]_vars
-----------------------------------------------------------------------------
(* Properties *)

Mapped == {e \in Effects : mapping[e] # None}

\* The bytes of the DLL an effect lies on, counted from 1.
Place(e) == {i \in 1 .. Len(file.bytes) : Start(e) < i /\ i <= End(e)}

\* Every variable has its type; what the caller knows of a mapped effect has
\* the effect's size.
TypeOK ==
    /\ file \in Files /\ blob \in Blobs
    /\ section = None \/ section \in [ptr : Nat, size : Int, bytes : Seq(Bytes)]
    /\ phase \in {"parse", "probe", "overlay"}
    /\ mapping \in [Effects -> [at : Nat, size : Nat \ {0}] \cup {None}]
    /\ dll \in Seq(Bytes)
    /\ held \in [Effects -> Seq(Bytes)]
    /\ open \subseteq Mapped
    /\ \A e \in Mapped : Len(held[e]) = mapping[e].size

\* Effect e is what makes byte i differ from the DLL on disk.
Writes(e, i) ==
    e \in Mapped /\ i \in Place(e) /\ held[e][i - Start(e)] # file.bytes[i]

\* Effect d has changed a byte on which e lies too.
Covers(d, e) == d # e /\ \E i \in Place(e) : Writes(d, i)

\* A byte is what the effect that writes it holds, or as on disk if none does.
Composed ==
    \A i \in 1 .. Len(dll) :
        /\ \A e \in Effects : Writes(e, i) => dll[i] = held[e][i - Start(e)]
        /\ (\A e \in Effects : ~Writes(e, i)) => dll[i] = file.bytes[i]

\* No byte is written by two effects.
Apart ==
    \A d, e \in Effects, i \in 1 .. Len(dll) : Writes(d, i) /\ Writes(e, i) => d = e

\* Effects do not cover one another in a ring.
NoRing ==
    \A T \in SUBSET Mapped : T # {} => \E e \in T : \A d \in T : ~Covers(d, e)

\* The replaced effects lie on the DLL like sheets of paper, although no call
\* knows of any effect but its own: each changed byte is the work of one of
\* them, and some sheet is on top.
Layered == Composed /\ Apart /\ NoRing

\* Whatever order effects that overlap were replaced in, and some of them
\* again, the caller is never stuck: of the effects still replaced there is
\* one whose hash is good, so that it can be restored; and once all are
\* restored, the DLL is the one on disk, byte for byte.
Undoable ==
    IF open = {} THEN dll = file.bytes
    ELSE \E e \in open : Verify(e, held[e])

\* A DLL keeps its length, and no byte outside the effects ever changes.
Confined ==
    /\ Len(dll) = Len(file.bytes)
    /\ \A i \in 1 .. Len(dll) : dll[i] # file.bytes[i] => \E e \in open : i \in Place(e)

\* An effect that shares no byte with another is where its mapping says, and
\* verifies, whatever is done to the others.
LoneVerifies ==
    \A e \in Mapped :
        (\A d \in Mapped \ {e} : Place(d) \cap Place(e) = {}) => Verify(e, held[e])
=============================================================================
