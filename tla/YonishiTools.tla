----------------------------- MODULE YonishiTools ------------------------------
(***************************************************************************)
(* The tools that read the Yonishi corpus while it may be edited:          *)
(*                                                                         *)
(*   yonishi_par.py       parse_par on each .par file, compute_corpus_stats*)
(*   yonishi_manifest.py  main: hashes and counts the .par files in two    *)
(*                        passes and rewrites the manifest in place        *)
(*   yonishi_dispatch.py  build_catalog: reads each .h file three times    *)
(*                                                                         *)
(* The manifest has a second author: its par_fixtures are recorded by      *)
(* another tool and carried over by each rebuild.  A hash is as good as    *)
(* the content it is of.                                                   *)
(***************************************************************************)
EXTENDS ParText, HText, SequencesExt

CONSTANTS
    Scenes,     \* where behaviours begin: [par, headers, inputs, programs]
    Rebuilds,   \* the rebuilds of the manifest, each is run once
    ParDrafts,  \* what an editor may save as a .par file
    HDrafts,    \* what an editor may save as a .h file
    Gone,       \* no such file
    MaxEdits,   \* bound on the edits
    MaxRecords  \* bound on the recordings of fixtures

Sequence(s) == s \in Seq(Range(s))

\* The lines of a .par text have a number of hex pairs each.
IsParText(t) == Sequence(t) /\ \A k \in DOMAIN t : t[k].pairs \in Nat

\* Every file there is or will be is a text.
ASSUME TextsAssumption ==
    /\ \A s \in Scenes :
          /\ Sequence(s.par) /\ Sequence(s.headers)
          /\ \A t \in Range(s.par) : t = Gone \/ IsParText(t)
          /\ \A t \in Range(s.headers) : t = Gone \/ Sequence(t)
    /\ \A d \in ParDrafts : IsParText(d)
    /\ \A d \in HDrafts : Sequence(d)

VARIABLES
    par,       \* the .par files by their place in the sorted listing
    headers,   \* the .h files in the order of h_catalog.json
    parHeld,   \* what each .par file has held so far, at last what it holds now
    headersHeld, \* the same of each .h file
    inputs,    \* the JSON files a rebuild loads: "whole", "missing", "garbled"
               \* (no JSON; the map also: not what is expected), "incomplete"
    programs,  \* which programs are run
    reader,    \* the caller of parse_par
    rebuild,   \* for each rebuild where it is and what it holds
    catalog,   \* the caller of build_catalog
    output,    \* the manifest file
    recorded,  \* the fixtures that were recorded last, 0 for none
    hurt,      \* a writer was cut short, or two of them met
    edits

corpus == <<par, headers, parHeld, headersHeld, inputs, programs, edits>>
manifest == <<output, recorded, hurt>>
vars == <<corpus, reader, rebuild, catalog, manifest>>

\* The output file: there is none, it is no JSON, or what it holds.
NoFile == [state |-> "none"]
Torn == [state |-> "torn"]

Init ==
    /\ \E s \in Scenes : /\ par = s.par
                         /\ headers = s.headers
                         /\ inputs = s.inputs
                         /\ programs = s.programs
    /\ parHeld = [f \in DOMAIN par |-> <<par[f]>>]
    /\ headersHeld = [n \in DOMAIN headers |-> <<headers[n]>>]
    /\ reader = [pc |-> "start"]
    /\ rebuild = [r \in Rebuilds |->
                    [pc |-> "list", paths |-> <<>>, since |-> <<>>, shas |-> <<>>,
                     counted |-> <<>>, fixtures |-> 0]]
    /\ catalog = [pc |-> "parse", files |-> <<>>]
    /\ output = NoFile /\ recorded = 0 /\ hurt = FALSE
    /\ edits = 0

\* The .par files that are there, sorted.
ScanParFiles == InOrder({f \in DOMAIN par : par[f] # Gone})
-----------------------------------------------------------------------------
(* parse_par and compute_corpus_stats *)

\* The totals over all files.
Totals(times, widths, spellings) ==
    [time_blocks |-> times, histogram |-> ToBag(widths), spellings |-> ToSet(spellings)]

\* compute_corpus_stats of documents, each given by its opcode blocks.
CorpusStats(docs) ==
    LET blocks == FlattenSeq(docs)
        times == FlattenSeq([i \in DOMAIN blocks |-> blocks[i].times])
    IN  Totals(Len(times), [i \in DOMAIN times |-> times[i].width],
               [i \in DOMAIN blocks |-> blocks[i].spelling])

\* A caller parses every file that is there.
ReadDocuments ==
    /\ "reader" \in programs /\ reader.pc = "start"
    /\ LET texts == [i \in DOMAIN ScanParFiles |-> par[ScanParFiles[i]]]
           docs == [i \in DOMAIN texts |-> OpcodeBlocks(texts[i])]
       IN  reader' = [pc |-> "done", texts |-> texts, docs |-> docs,
                      totals |-> CorpusStats(docs)]
    /\ UNCHANGED <<corpus, rebuild, catalog, manifest>>
-----------------------------------------------------------------------------
(* yonishi_manifest.main *)

At(r, pc) == "rebuild" \in programs /\ rebuild[r].pc = pc

\* scan_par_files.  What each file holds by then is noted for the properties.
List(r) ==
    /\ At(r, "list")
    /\ rebuild' = [rebuild EXCEPT
          ![r].pc = "hash",
          ![r].paths = ScanParFiles,
          ![r].since = [i \in DOMAIN ScanParFiles |-> Len(parHeld[ScanParFiles[i]])]]
    /\ UNCHANGED <<corpus, reader, catalog, manifest>>

\* Going over the paths ends behind the last one; a file that is gone by then
\* raises FileNotFoundError.
GoOver(r, done, next) ==
    IF Len(done) = Len(rebuild[r].paths) THEN next
    ELSE IF par[rebuild[r].paths[Len(done) + 1]] = Gone THEN "raised"
    ELSE rebuild[r].pc

\* _sha_list: the hash of the next file.
Hash(r) ==
    LET done == rebuild[r].shas
        next == GoOver(r, done, "count")
    IN  /\ At(r, "hash")
        /\ rebuild' = [rebuild EXCEPT
              ![r].pc = next,
              ![r].shas = IF next # "hash" THEN @
                          ELSE Append(@, par[rebuild[r].paths[Len(done) + 1]])]
        /\ UNCHANGED <<corpus, reader, catalog, manifest>>

\* Faulty variant: the files to count are listed anew.
CountListing(r) ==
    LET done == rebuild[r].counted
        n == Len(done) + 1
    IN  /\ At(r, "count")
        /\ rebuild' = [rebuild EXCEPT
              ![r].pc = IF n > Len(ScanParFiles) THEN "load" ELSE "count",
              ![r].counted = IF n > Len(ScanParFiles) THEN @
                             ELSE Append(@, ParFileStats(par[ScanParFiles[n]]))]
        /\ UNCHANGED <<corpus, reader, catalog, manifest>>

\* _aggregate_corpus: the statistics of the next file, which is read again.
Count(r) ==
    LET done == rebuild[r].counted
        next == GoOver(r, done, "load")
    IN  /\ At(r, "count")
        /\ rebuild' = [rebuild EXCEPT
              ![r].pc = next,
              ![r].counted = IF next # "count" THEN @
                  ELSE Append(@, ParFileStats(par[rebuild[r].paths[Len(done) + 1]]))]
        /\ UNCHANGED <<corpus, reader, catalog, manifest>>

\* The totals it comes to.
AggregateCorpus(counted) ==
    Totals(SumFunction([i \in DOMAIN counted |-> counted[i].timeBlocks]),
           FlattenSeq([i \in DOMAIN counted |-> counted[i].widths]),
           FlattenSeq([i \in DOMAIN counted |-> counted[i].spellings]))

\* What comes of loading h_catalog.json and relocation_map_0148.json: a file
\* that is missing is an error of the tool, most of what is wrong in one is not.
\* What h_catalog.json lacks is missed last.
LoadOutcomes ==
    CASE inputs.h_catalog = "missing" -> {"returned 1"}
      [] inputs.h_catalog = "garbled" -> {"raised"}
      [] inputs.relocation_map = "missing" -> {"returned 1"}
      [] inputs.relocation_map = "garbled" -> {"returned 1", "raised"}
      [] inputs.h_catalog = "incomplete" -> {"raised"}
      [] OTHER -> {"merge"}

Load(r) ==
    /\ At(r, "load")
    /\ \E next \in LoadOutcomes : rebuild' = [rebuild EXCEPT ![r].pc = next]
    /\ UNCHANGED <<corpus, reader, catalog, manifest>>

Opened(q) == rebuild[q].pc = "write"

\* Faulty variant: the old manifest is read from the file opened for writing.
MergeTruncated(r) ==
    /\ At(r, "merge")
    /\ rebuild' = [rebuild EXCEPT ![r].pc = "open", ![r].fixtures = 0]
    /\ output' = Torn
    /\ hurt' = (hurt \/ \E q \in Rebuilds : Opened(q))
    /\ UNCHANGED <<corpus, reader, catalog, recorded>>

\* _merge_par_fixtures: the fixtures of the manifest that is there, if it is one.
Merge(r) ==
    /\ At(r, "merge")
    /\ rebuild' = [rebuild EXCEPT
          ![r].pc = "open",
          ![r].fixtures = IF output.state = "whole" THEN output.fixtures ELSE 0]
    /\ hurt' = (hurt \/ \E q \in Rebuilds : Opened(q))
    /\ UNCHANGED <<corpus, reader, catalog, output, recorded>>

\* output.write_text opens the file, which empties it, ...
Open(r) ==
    /\ At(r, "open")
    /\ rebuild' = [rebuild EXCEPT ![r].pc = "write"]
    /\ output' = Torn
    /\ hurt' = (hurt \/ \E q \in Rebuilds : Opened(q))
    /\ UNCHANGED <<corpus, reader, catalog, recorded>>

\* ... and writes it.  Over what another has written since, a shorter text
\* leaves a tail.
Write(r) ==
    /\ At(r, "write")
    /\ \/ output' = [state |-> "whole", by |-> r, fixtures |-> rebuild[r].fixtures,
                     shas |-> rebuild[r].shas,
                     totals |-> AggregateCorpus(rebuild[r].counted)]
       \/ output.state = "whole" /\ output' = Torn
    /\ rebuild' = [rebuild EXCEPT ![r].pc = "returned 0"]
    /\ UNCHANGED <<corpus, reader, catalog, recorded, hurt>>

\* A rebuild is killed, or its write fails.
Die(r) ==
    /\ "kill" \in programs
    /\ \E pc \in {"list", "hash", "count", "load", "merge", "open", "write"} : At(r, pc)
    /\ rebuild' = [rebuild EXCEPT ![r].pc = "killed"]
    /\ output' \in IF Opened(r) THEN {output, Torn} ELSE {output}
    /\ hurt' = (hurt \/ Opened(r))
    /\ UNCHANGED <<corpus, reader, catalog, recorded>>
-----------------------------------------------------------------------------
(* build_catalog *)

\* The file build_catalog is at.
Reached == Len(catalog.files)
Current == headers[IF catalog.pc = "parse" THEN Reached + 1 ELSE Reached]

\* parse_h_file on the next file, from a reading of its own.  What the file
\* holds by then is noted for the properties.
ParseHFile ==
    /\ "catalog" \in programs /\ catalog.pc = "parse" /\ Reached < Len(headers)
    /\ LET parsed == ParseHText(ReadText(Current))
       IN  catalog' =
             IF Current = Gone \/ parsed.error THEN [catalog EXCEPT !.pc = "raised"]
             ELSE [catalog EXCEPT !.pc = "hash",
                     !.files = Append(@, [entries |-> parsed.entries, sha256 |-> Gone, size |-> 0,
                                          since |-> Len(headersHeld[Reached + 1])])]
    /\ UNCHANGED <<corpus, reader, rebuild, manifest>>

\* Its hash, from a second reading.
HashHFile ==
    /\ "catalog" \in programs /\ catalog.pc = "hash"
    /\ catalog' = IF Current = Gone THEN [catalog EXCEPT !.pc = "raised"]
                  ELSE [catalog EXCEPT !.pc = "stat", !.files[Reached].sha256 = Current]
    /\ UNCHANGED <<corpus, reader, rebuild, manifest>>

\* Its size, from the file system.
StatHFile ==
    /\ "catalog" \in programs /\ catalog.pc = "stat"
    /\ catalog' = IF Current = Gone THEN [catalog EXCEPT !.pc = "raised"]
                  ELSE [catalog EXCEPT !.pc = "parse", !.files[Reached].size = Len(Current)]
    /\ UNCHANGED <<corpus, reader, rebuild, manifest>>
-----------------------------------------------------------------------------
(* Others *)

\* Someone saves or removes a file.
Edit ==
    /\ "editor" \in programs /\ edits < MaxEdits
    /\ edits' = edits + 1
    /\ UNCHANGED <<inputs, programs, reader, rebuild, catalog, manifest>>

EditPar ==
    /\ Edit
    /\ \E f \in DOMAIN par, d \in ParDrafts \cup {Gone} :
          /\ d # par[f]
          /\ par' = [par EXCEPT ![f] = d]
          /\ parHeld' = [parHeld EXCEPT ![f] = Append(@, d)]
    /\ UNCHANGED <<headers, headersHeld>>

EditHeader ==
    /\ Edit
    /\ \E f \in DOMAIN headers, d \in HDrafts \cup {Gone} :
          /\ d # headers[f]
          /\ headers' = [headers EXCEPT ![f] = d]
          /\ headersHeld' = [headersHeld EXCEPT ![f] = Append(@, d)]
    /\ UNCHANGED <<par, parHeld>>

\* The fixture tool records what it found in the manifest.
RecordFixtures ==
    /\ "recorder" \in programs
    /\ output.state = "whole" /\ recorded < MaxRecords
    /\ recorded' = recorded + 1
    /\ output' = [output EXCEPT !.fixtures = recorded']
    /\ hurt' = (hurt \/ \E r \in Rebuilds : rebuild[r].pc \in {"open", "write"})
    /\ UNCHANGED <<corpus, reader, rebuild, catalog>>

Next ==
    \/ ReadDocuments
    \/ \E r \in Rebuilds : List(r)
    \/ \E r \in Rebuilds : Hash(r)
    \/ \E r \in Rebuilds : Count(r)
    \/ \E r \in Rebuilds : Load(r)
    \/ \E r \in Rebuilds : Merge(r)
    \/ \E r \in Rebuilds : Open(r)
    \/ \E r \in Rebuilds : Write(r)
    \/ \E r \in Rebuilds : Die(r)
    \/ ParseHFile \/ HashHFile \/ StatHFile
    \/ EditPar \/ EditHeader \/ RecordFixtures

Spec == Init /\ [][Next]_vars
-----------------------------------------------------------------------------
(* Properties *)

\* Both readers find what stands where: parse_par a block for each directive,
\* with the TIME lines up to the next directive or edge and the hex pairs right
\* below each; parse_par_file every directive and every TIME line, whatever
\* they stand under.  The two totals differ by the TIME lines under no
\* directive, and only by them; count_time_blocks and collect_spellings, which
\* look for themselves, agree with the manifest.
ReadersExact ==
    /\ reader.pc = "done" =>
         \A i \in DOMAIN reader.texts :
            LET t == reader.texts[i]
                at == InOrder(LinesOf(t, "at"))
                under(k) == InOrder({j \in LinesOf(t, "time") : Under(t, k, j)})
            IN  reader.docs[i] =
                  [b \in DOMAIN at |->
                     [line |-> at[b], spelling |-> t[at[b]].spelling,
                      times |-> [n \in DOMAIN under(at[b]) |->
                                   [line |-> under(at[b])[n],
                                    width |-> WidthOf(t, under(at[b])[n])]]]]
    /\ reader.pc = "done" =>
         LET all == AggregateCorpus([i \in DOMAIN reader.texts |->
                                        ParFileStats(reader.texts[i])])
             stray == FlattenSeq([i \in DOMAIN reader.texts |-> Stray(reader.texts[i])])
         IN  /\ all.histogram = reader.totals.histogram (+) ToBag(stray)
             /\ all.time_blocks = reader.totals.time_blocks + Len(stray)
             /\ all.time_blocks = SumFunction([i \in DOMAIN reader.texts |->
                                                 CountTimeBlocks(reader.texts[i])])
             /\ all.spellings = reader.totals.spellings
             /\ all.spellings = CollectSpellings(reader.texts)

\* Where each block comment has an end, and none closes on a line behind a
\* `//`, the reader finds in the decoded text the rows that C sees, each at its
\* place there, and fails only on a row that is short in C too.  The place in
\* the file, which raw_offset_in_file is said to be, lies further back by one
\* for each CR before an LF and each further byte of a character on the way.
RowsExact ==
    \A n \in DOMAIN headers : headers[n] # Gone =>
        LET file == headers[n]
            text == ReadText(file)
            at == CharsAt(file)
        IN  /\ Tame(text) => ParseHText(text) = ParseRows(CText(text))
            /\ \A row \in ParseHText(text).entries :
                  /\ file[at[row.at]] = "name"
                  /\ at[row.at] =
                        row.at + Cardinality({k \in 1 .. at[row.at] : k \notin Kept(file)})

\* What a rebuild has read of its files so far: the hash of a file is of a
\* content it has had since the listing, and what was counted in it is of that
\* content or a later one.
InTime(run, held) ==
    \A i \in DOMAIN run.shas :
        LET past == held[run.paths[i]]
        IN  \E v \in run.since[i] .. Len(past) :
               /\ run.shas[i] = past[v]
               /\ i \in DOMAIN run.counted =>
                     \E w \in v .. Len(past) :
                        past[w] # Gone /\ run.counted[i] = ParFileStats(past[w])

\* The same of a file of the catalog, which gets its rows, its hash and its
\* size one after the other.
FileInTime(file, past, hashed, sized) ==
    /\ file.entries = ParseHText(ReadText(past[file.since])).entries
    /\ hashed =>
         \E v \in file.since .. Len(past) :
            /\ file.sha256 = past[v]
            /\ sized => \E w \in v .. Len(past) :
                           past[w] # Gone /\ file.size = Len(past[w])

\* However the directory and the files change meanwhile, each manifest covers
\* the files of one listing, every one of them with its hash and with its
\* counts, in this order: no reading is of an older content than the one before
\* it, none is of a content from before the listing, and none is of another
\* file.  So hashes and totals differ by no more than what was saved between
\* the two readings of the same file, which nothing in the code notices.  The
\* catalog has of each header the rows, the hash and the size in the same way.
RecordsTrue ==
    /\ \A r \in Rebuilds : InTime(rebuild[r], parHeld)
    /\ output.state = "whole" =>
         LET run == rebuild[output.by]
         IN  /\ output.shas = run.shas /\ output.totals = AggregateCorpus(run.counted)
             /\ DOMAIN run.shas = DOMAIN run.paths /\ DOMAIN run.counted = DOMAIN run.paths
    /\ \A n \in DOMAIN catalog.files :
          FileInTime(catalog.files[n], headersHeld[n],
                     n < Reached \/ catalog.pc \in {"stat", "parse"},
                     n < Reached \/ catalog.pc = "parse")

\* As long as no writer was cut short and no two of them met, the manifest has
\* the fixtures recorded last, and is whole but while a rebuild writes it: a
\* rebuild that fails or is killed before it opens the file changes nothing.
ManifestKept ==
    ~hurt => \/ output.state = "whole" /\ output.fixtures = recorded
             \/ output.state = "none" /\ recorded = 0
             \/ \E r \in Rebuilds : Opened(r) /\ rebuild[r].fixtures = recorded
-----------------------------------------------------------------------------
(* The inductive invariants *)

\* A rebuild, a manifest and a catalog have their fields.
Shapes ==
    /\ rebuild = [r \in Rebuilds |->
                    [pc |-> rebuild[r].pc, paths |-> rebuild[r].paths,
                     since |-> rebuild[r].since, shas |-> rebuild[r].shas,
                     counted |-> rebuild[r].counted, fixtures |-> rebuild[r].fixtures]]
    /\ output \in {NoFile, Torn} \/
          output = [state |-> "whole", by |-> output.by, fixtures |-> output.fixtures,
                    shas |-> output.shas, totals |-> output.totals]
    /\ catalog = [pc |-> catalog.pc, files |-> catalog.files]
    /\ \A r \in Rebuilds : /\ Sequence(rebuild[r].paths)
                           /\ Sequence(rebuild[r].shas) /\ Sequence(rebuild[r].counted)
    /\ Sequence(catalog.files)

\* What a file has held ends with what it holds.
Remembers(files, held) ==
    /\ Sequence(files)
    /\ held = [f \in DOMAIN files |-> held[f]]
    /\ \A f \in DOMAIN files : /\ Sequence(held[f]) /\ Len(held[f]) > 0
                               /\ held[f][Len(held[f])] = files[f]

\* How far a rebuild is with its two passes.
Passes(run) ==
    /\ run.pc = "list" => run.shas = <<>>
    /\ run.pc \in {"list", "hash"} => run.counted = <<>>
    /\ run.pc \in {"count", "load", "merge", "open", "write", "returned 0"} =>
          Len(run.shas) = Len(run.paths)
    /\ run.pc \in {"load", "merge", "open", "write", "returned 0"} =>
          Len(run.counted) = Len(run.paths)
    /\ Len(run.counted) <= Len(run.shas) /\ Len(run.shas) <= Len(run.paths)

\* Its files were there when it listed them.
Listed(run, held) ==
    \A i \in 1 .. Len(run.paths) :
        run.paths[i] \in DOMAIN held /\ run.since[i] \in 1 .. Len(held[run.paths[i]])

\* A manifest is the work of one rebuild, which is over.
Made ==
    output.state = "whole" =>
        /\ output.by \in Rebuilds
        /\ rebuild[output.by].pc = "returned 0"
        /\ output.shas = rebuild[output.by].shas
        /\ output.totals = AggregateCorpus(rebuild[output.by].counted)

\* The parts of a file of the catalog are read in order, as far as it is.
Catalogued ==
    /\ catalog.pc \in {"hash", "stat"} => Reached > 0
    /\ \A n \in 1 .. Reached :
          /\ n \in DOMAIN headersHeld
          /\ DOMAIN catalog.files[n] = {"entries", "sha256", "size", "since"}
          /\ catalog.files[n].since \in 1 .. Len(headersHeld[n])
          /\ FileInTime(catalog.files[n], headersHeld[n],
                        n < Reached \/ catalog.pc \in {"stat", "parse"},
                        n < Reached \/ catalog.pc = "parse")

TrueInv ==
    /\ Shapes /\ Made /\ Catalogued
    /\ Remembers(par, parHeld) /\ Remembers(headers, headersHeld)
    /\ \A r \in Rebuilds :
          Passes(rebuild[r]) /\ Listed(rebuild[r], parHeld) /\ InTime(rebuild[r], parHeld)

\* No two writers met: a rebuild that is about to write, or writes, holds the
\* fixtures recorded last, and the file that one writes is empty.
Alone ==
    ~hurt =>
        /\ \A r \in Rebuilds :
              rebuild[r].pc \in {"open", "write"} => rebuild[r].fixtures = recorded
        /\ \A r \in Rebuilds : Opened(r) => output = Torn
        /\ \A q, r \in Rebuilds : Opened(q) /\ Opened(r) => q = r

KeptInv == Alone /\ ManifestKept
=============================================================================
