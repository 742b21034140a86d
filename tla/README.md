# A TLA+ development of ffx-magic-re

The repository takes apart the magic-effect data of Final Fantasy X and edits
it: WD3 containers, PPP resources inside effect DLLs, and the DLLs themselves.
This directory holds TLA+ modules of its core logic, TLC configurations that
check them on small instances, and TLAPS proofs of what matters most for every
instance.  Source paths below leave out the leading `src/`; `ppp_disassembler`
stands for `src/ppp_disassembler`.

To run: `tlc -config X.cfg M` for a pair below, `tlapm M.tla` for a proof
module.

## The system and its parts

| Part | State | Operations | Interacts with |
|---|---|---|---|
| Colour writer, `c2_b_writer.py` | the DLL on disk, its backup `.dll.c2b.bak`, temporary files | verify, dry run, apply, restore | other processes and the vector writer, through the files |
| Vector writer, `useful_ppp_writer.py` | the DLL, its backup `.dll.sclmove.bak`, temporary files | dry run, apply, restore (and the `scl_move` aliases) | the same |
| WD3 container, `core.py`, `wd3_writer.py`, `wd3_blob_writer.py` | a byte string, a parsed container | scan, validate, parse, serialize | payload map, stream walks |
| Stream walks, `core.py`, `decoder.py`, `stream.py` | the offset in a stream, the entries collected | parse records; disassemble instructions | read the same bytes one after the other |
| Payload map, `payload_map.py` | the layout, the spans so far | layout, ownership spans | takes a parsed container |
| PPP resources, `layer_c_resource.py` | the program chain of each section | search for roots, validate, iterate slots | the candidate search and the colour writer use what it yields |
| Candidates, `useful_ppp_candidates.py` | list of records with hashes | inventory of a DLL | gives the vector writer its windows |
| Effect overlay, `c2_effect_overlay.py` | a DLL held in memory, a mapping for each effect | parse section, probe, apply, verify, restore | the caller carries bytes, mappings and hashes from call to call |
| Codecs, `layer_c_slot.py`, `c2_color_codec.py`, `c2_scale_codec.py` | none | pack, unpack | called by the writers |
| Public tree guard, `ffx_magic_re/guard.py` | findings, verdict | list the tree, read and judge each file | editors of the tree |
| Sync dry run, `ffx_magic_re/sync.py` | a plan | validate a manifest, plan | the private tree, read only |
| Yonishi tools, `yonishi_par.py`, `yonishi_dispatch.py`, `yonishi_manifest.py` | the manifest file | read `.par` texts and dispatch tables, rebuild the manifest, build the catalog | editors of the corpus, and the tool that records fixtures in the manifest |
| Tables and rendering, `opcodes.py`, `operands.py`, `render.py`, `c2_b_cli.py` | none | look up, format, parse arguments | everywhere |

Where it is hard, and what makes each part correct:

* **The two writers** lock nothing.  A call reads the DLL, checks a hash, looks
  for a backup, perhaps writes one, and replaces the DLL; another process, or
  the other writer, may act between any two of these, and the process may die
  or the disk fill at each.  Correct means: no file is ever seen half written;
  the original is saved before anything is edited and is never lost; an edit
  can be undone; edits touch their window only; every call ends.
* **WD3 reading and writing**: find, parse and serialize check different things
  about the same bytes.  Correct means that what one stage accepts the next can
  handle, and that a round trip keeps the bytes.
* **The stream walks** compute the end of each entry from the entry, twice, in
  different code.  Correct means that they tile the stream, agree, and end.
* **The payload map** decides the owners of an interval by its two ends.
  Correct means that this is right for each byte inside, and that each byte of
  the body is in exactly one span.
* **The resource iterator** is a `while True` over links found in the file, with
  no check of its own.  Correct means that what the validator accepted keeps it
  inside and brings it to an end.
* **The candidates** are windows inside the very data the search and the
  iterator follow.  Correct means that an edit of a window is never an edit of
  the structure.
* **The effect overlay** remembers nothing: a caller replaces effects that may
  overlap, and each call checks its own effect's hash only.  Correct means that
  no order of calls leaves the caller stuck, and that what is restored is the
  DLL it began with.
* **The public tree guard** lists a tree and reads it file by file while others
  work in it.  Correct means that each file left alone is judged exactly, and
  that no alarm is false.
* **The Yonishi tools** find the structure of a text with loops and regular
  expressions of their own, read each file two or three times, and rewrite in
  place a manifest that another tool adds to.  Correct means that the structure
  found is the one that is there, that a hash and what stands beside it are of
  the same content, and that what others recorded survives.

The hazards behind these, each at its line, are listed in `PROJECT.json`.

## Modules

### The DLL writers: `DllFiles`, `ColorWriter`, `VectorWriter`, `TwoWriters`, `EditableTarget`

`DllFiles` has the state and the routine both writers share.  A DLL is a
function from cells (disjoint runs of bytes) to values; a *site* is a callback
record, with the cells its SHA-256 covers (`Record`) and the operand window
(`Payload`).  A digest is the contents it is taken of.  Variables: `target`
and `backup` are the files; `pc[p]` says where process `p` is in its call,
`site`, `snap`, `out` and `dest` are the local variables that survive a file
access (the record, the bytes read, the bytes to write, the file being
written); `tmp` and `litter` are temporary files in use and left behind;
`result` says how the last call ended.  `CreateTemp`, `FillTemp`,
`MoveToBackup`, `MoveToTarget` are the file accesses of `_write_atomically`;
`CreateFails`, `WriteFails`, `ReplaceFails` the places where it can raise;
`Kill` ends a process anywhere.

`ColorWriter` and `VectorWriter` add the calls, one action per file access:
`Check` is verify and dry run (one read, nothing written); `ApplyRead`,
`ProbeBackup`, `CompareBackup` and so on are the lines of the two `apply` and
`restore` functions.  The hash a caller expects is any hash: a check that
fails is a branch of the same action.  Whether a record has its slot owner is
the constant operator `Owned(dll, site)`, which may depend on the DLL, as it
does in `owner_for_callback`.

`TwoWriters` instantiates both over one `target` with two backups, and adds
`OtherTool`, any other program that edits the file while no call is running.

`EditableTarget` is the abstract promise of four lines: the original is saved
first, whole; it stays saved; the target is always one of the allowed
contents.  Both writers are checked to implement it.

### `Wd3Cells`, `Wd3Blob`, `Wd3RoundTrip`

A byte string, as a sequence of cells, is scanned (`Scan`, one offset a step),
parsed (`Parse`) and serialized (`Serialize`), and what was written is scanned,
parsed and serialized once more (`Reread`).  A cell is a half word where width
matters: `total_size` spans two cells, and its high half is also read as
`count_entries` and `reserved` (core.py:121,128), which the writer packs twice
more (wd3_writer.py:73-78).  Elsewhere a cell is one field.  A stream header
has three cells: the end, the start, and everything else, which the code
carries unread; a NaN in `scale`, whose bits a float conversion may change, is
left out.  `Wd3Cells` says where the cells are.

`Wd3RoundTrip` joins `Wd3Blob` with `PayloadMap`, whose functions are called
with the container that has been parsed, between parsing and writing: `Parse`
hands over (`Called`), `MapLayout`, `MapSpan` and `MapFinish` are the steps of
the map, `Write` follows.

### `StreamWalk`

A stream is given by what the walks read: start, end, and, at each offset, the
class of the opcode, whether the type tag is 3, and the count.  `ParseRecord`
and `ParseEnds` are the record loop of `parse_wd3`, `DecodeOne` and
`DisassembleEnds` the loop of `disassemble_stream`.

### `PayloadMap`

`Layout` is `compute_payload_layout` with its checks; `AddSpan` is one turn of
the loop of `compute_ownership_spans`; `Finish` its end.  By itself it takes
any container, accepted or not, with any set of streams.

### `ResourceWalk`, `PppCandidates`

`ResourceWalk` is one section.  `Enter` and `Validate` are
`_valid_primary_section`, one program a step; `Iterate` and `YieldSlots` are
`iter_ppp_slots` on a section that was accepted.  A read outside the section is
the phase `astray`.

`PppCandidates` extends it to a whole `.data` section, a sequence of cells that
structures may share.  `Try`, `TakeSection`, `Judge` and `CheckTables` are
`find_ppp_resource_roots` at one offset after the other; the walks over a section
are those of `ResourceWalk`, on what `SectionAt` reads.  `YieldSection`,
`EndSection` and `Select` are the loop of `select_useful_ppp_candidates`; both
calls of `iter_ppp_slots` for a root, which do the same, are one.  `Edit`
overwrites the window of a candidate whose hash is still good, as the vector
writer does; `Again` takes a new inventory.

### `EffectOverlay`

`file` is the DLL on disk, `blob` the eff file of each effect; `Parse` is
`parse_pe_data_section`, `Probe` is `probe_overlay` for each effect, on the DLL
as on disk.  `dll` holds the bytes in memory, `mapping[e]` what the probe
returned.  `Apply` and `Restore` are the calls that write; they share
`_check_size`, `_check_current_hash` and `_replace_range`, and so does the model
(`Write`).  The caller carries for each effect the hash of what it last wrote
there, `held[e]`; at first that is the hash of the eff file.  `open` remembers
which effects it has replaced and not restored.  A call that raises changes
nothing and is left out.  Slices are Python's, cut at the length, and the
assignment to a slice makes room when the new bytes are longer, so that the
size check has something to prevent.

### `PublicGuard`

`List`, `Look`, `Size` and `Read` are the accesses of `scan_tree` to the file
system: the listing, which `sorted` runs to its end first, then for each path
`is_file`, `stat` and `read_bytes`.  `Edit` is anybody who writes, creates,
removes or moves a file in between.  `past[p]` records what has been at a path
since the scan began; only properties read it.  The policy is given by classes
of paths and by the kinds of text a content has, not by its regular expressions.

### `ParText`, `HText`, `YonishiTools`

`ParText` has the two readers of a `.par` text, over lines that the regular
expressions have classified: `OpcodeBlocks` is `parse_par`, with its loop in a
loop in a loop, `ParFileStats` is `parse_par_file`, which goes over the lines
once.  Its last part says by position what each should find.

`HText` has the reader of a dispatch table, over tokens.  A file has bytes and
the text it is read as has characters: `ReadText` drops the CR before an LF and
makes one character of the bytes of one, and `CharsAt` says where each character
of the text stands in the file.  `StripComments` blanks out comments in two
passes over the text, `ParseRows` finds arrays, names and slots as the
three regular expressions do, down to what they make of a stray mark behind a
slot.  `CText` is the text as a C compiler sees it.

`YonishiTools` runs the tools.  A rebuild of the manifest lists the files
(`List`), hashes them (`Hash`), reads them again (`Count`), loads two other
files (`Load`), takes the fixtures from the old manifest (`Merge`), and
rewrites it, which first empties it (`Open`, `Write`).  `ParseHFile`,
`HashHFile`, `StatHFile` are the three readings of `build_catalog`.  `Die`,
`EditPar`, `EditHeader` and `RecordFixtures` are what may happen around them.
A hash is the content it is of.  `parHeld` and `headersHeld` remember what each
file has held so far, and `since` which of these a file held when it was listed
or first read; `hurt` remembers that a writer was cut short or met another.  Only
properties read these four.

## Runs

| Run | Model | Shows |
|---|---|---|
| `color_race` | two processes, four sites, four cells, two values | the backup is the original however calls race, fail or die; edits do not pile up; one accepted restore always brings the original back; only a kill or a failed write leaves a temporary file; `EditableTarget` |
| `writers_race` | two vector processes, one colour process | of the two backups one is always the original, saved before anything is edited; nothing outside payloads and windows changes, in the DLL or a backup; with the vector writer alone its backup is the original and undoes every edit, although `apply_vector` takes it from one read and patches another |
| `writers_serial` | both writers and another tool, one call at a time | an apply has saved exactly what it replaces; all but a vector restore stay in one window; every call ends |
| `vector_restore_window` | the same | *finding*: a vector restore writes back the whole file and with it undoes others' edits |
| `wd3_round_trip` | about 23000 sources, up to three streams, well or badly laid out, behind a stray magic or not | what is accepted can be written; every byte is kept except the word at +14 and the bytes between stream headers; the second trip succeeds and is the identity; the map of what was parsed counts each body byte once, with exactly the right owners, is refused only for an empty stream or a hole, and cuts the blob where the writer puts the body |
| `wd3_structure` | the same | *finding*: the container is not byte-identical |
| `stream_walk` | streams of up to nine bytes, every choice of entries | records tile the stream and have their sprites; the walks agree up to the first short entry; both end |
| `stream_sizes` | the same | *finding*: an alpha or unknown entry with sprites has two sizes |
| `ppp_candidates` | one root, or two that share a section; links, counts and tables of every bad kind; a callback record at every offset | the iterator never reads what the validator has not; it yields every slot; edits of candidates leave the inventory as it was, when each program has a slot and no record lies on a table; every inventory ends |
| `public_guard` | one path of each class, an edit at any moment of the scan | a file left alone is reported for exactly what is wrong with it; every alarm was true of its file at some moment of the scan |
| `effect_overlay` | three effects that nest, overlap in a chain, lie apart, occur twice or not at all, on DLLs with good and bad headers | some replaced effect can always be restored; restoring the last brings back the DLL; nothing else ever changes |
| `yonishi` | every `.par` text of up to five lines, every row with comment marks in five places, every array body that begins with up to four tokens, some with CRs and characters of several bytes; two rebuilds with a fixture tool, an editor, kills and bad inputs | both readers find what stands where, and their totals differ by the stray TIME lines alone; the rows are those of C, in the decoded text, where every block comment has an end and none closes behind a `//`, and in the file they stand further back by the bytes that decoding drops; a manifest has each file of one listing with a hash and counts, read of that file in this order and since the listing, whatever is edited; the same of rows, hash and size of a header; the manifest keeps the recorded fixtures, and is whole, until a writer is cut short or meets another |

### Bounds

* Writers: two processes are what every race here needs (one acts between two
  accesses of the other); the proofs cover any number.  The four sites of
  `MCColorWriter` are chosen for what sites can be to each other: overlapping
  records, a payload that lies on the slot table so that editing it takes away
  every owner, and a record without an owner.  Two values are one edit and its
  undoing.  `writers_race` uses a view without `litter` and `result`, which no
  guard and no property there reads.  The calls of a process repeat without
  bound.
* `Wd3RoundTrip`: `Radix` 16 instead of 65536 so that containers above it exist;
  `MaxStreams` 3 instead of 64 so that one above the limit exists.  Three streams
  can nest, overlap, touch, coincide and leave a hole, and `PayloadMap` is proved
  for any number.
* `StreamWalk`: headers of 2 instead of 16 bytes, sprites of 3 instead of 40,
  `SpriteCap` 1 instead of 100.
* `PppCandidates`: a cell stands for a field of a structure, so that heads have 4
  or 8 cells; at most 2 sections, 2 slots and 8 table entries instead of 64, 256
  and 4096; cells of `Radix` 64, where 63 is a count of -1.  The search goes two
  cells at a time, so that an offset can be out of alignment.  `MaxEdits` 2: two
  edits from one inventory, or one and another after it was taken again.
  `Written` has a link into the section and a number that is out of range as
  whatever it is read.  The algorithms use all these numbers only in sums and
  comparisons, and `ResourceWalk` is proved for any.
* `EffectOverlay`: three effects are needed for a chain in which a replaced
  effect covers one that covers a third; six bytes over two values, and every
  payload of up to four bytes, among them those of the wrong size.  It is proved
  for any number.
* `PublicGuard`: five paths, one of each class, the plain ones first and last;
  trees that are in order but for two paths; `MaxEdits` 1.  The loop carries
  nothing from one file to the next but the list of findings, so one change,
  which may be a move of a file from behind the loop to before it, shows each
  kind of interference.
* `YonishiTools`: rows have two slots instead of nine, which are read by a loop.
  Five lines are a directive, a TIME line and an operand, twice over but for
  one; a loop that ends early or late shows by then.  Every text is read by one
  program alone, since nothing the programs share tells texts apart; they meet
  over three texts and `Gone`.  Two rebuilds, `MaxEdits` 2 and `MaxRecords` 2:
  every pair of writers can meet, and an edit can fall on either file between
  any two readings, or undo another.

### Fairness

* `writers_serial`: weak fairness of the next file access of a running call,
  where an access may fail instead of succeeding.  The system schedules running
  processes and file operations return; nothing is assumed of calls being made,
  of faults or of kills.
* `ppp_candidates`: weak fairness of the inventory's own next step; nothing is
  assumed of edits or of another inventory.
* `stream_walk`: weak fairness of `Next`, as a loop that runs goes on.

Deadlock is not checked in the runs of functions and programs that end.

## Findings

1. `useful_ppp_writer.py:123`: restore writes back the whole backup; the
   changelog says mutation is limited to a 16-byte window.
2. `wd3_writer.py:77`: the reserved word at +14 of a header is lost; the status
   page says reserved fields and gaps are preserved.  Bytes between two stream
   headers are lost as well (`CellsKept` says that nothing else is).  For the
   same reason, and because a container need not begin at offset 0, the
   assertion `blob == data[: container.total_size]` of the repository's README
   does not hold in general.
3. `decoder.py:114`: the disassembler does not skip the sprites of an alpha
   selector or unknown opcode with type tag 3, which the record parser does.

## Proofs

Eight modules of proofs, checked by TLAPS.  Every theorem holds for all values
of the constants that satisfy the named assumptions, and these only give the
constants their types (`DllAssumption`, `TwoWritersAssumption`,
`PayloadAssumption`, `StreamAssumption`, `OverlayAssumption`,
`GuardAssumption`, `TextsAssumption`), with two exceptions: `RoundTripAssumption` says besides that
the low half of `total_size` is a half word, `CandidatesAssumption` that a cell
holds no more than an offset and that heads, slots and entries have room for the
cells read of them.  TLC evaluates each on the runs.  Each inductive invariant
stands at the end of the module it is about or in the proofs, and TLC checked it
on the run of that module before it was proved; `InventoryInv` it checked only on
fewer sources, with bounds on what it quantifies over, and where no edit has been
made since the inventory was taken.

| Module | States of its runs' properties | Not by itself inductive because |
|---|---|---|
| `ColorWriterProofs` | `TypeOK`, `BackupPristine`, `AtMostOneEdit`, `Recoverable`, `LitterOnlyWhenAborted`, `ImplementsPromise` | the backup is written from an old snapshot |
| `TwoWritersProofs` | `SomeBackupPristine`, `OnlyWindowsChange`, `VectorRecoverable`, `ImplementPromise`, `NothingLost`, `WritesConfined` | a call of either writer may hold bytes from before the other's edit |
| `Wd3RoundTripProofs` | `Serializable`, `CellsKept`, `SecondTripSame`, `RefusedForCause`, `MapFitsBlob`, `CountedOnce`, `OwnersExact`, `OrphanIsReal` | the second trip's source must be the blob of an accepted container; spans must end at boundaries |
| `PppProofs` | `YieldsChecked`, `NeverAstray`, `YieldsAll`, `InventoryKept` | the second walk follows links only the first has checked; what must be found again has to be said of the data alone |
| `StreamWalkProofs` | `RecordsTile`, `SpritesWhole`, `WalksAgree` | the second walk's offset must be a record's |
| `EffectOverlayProofs` | `Layered`, `Undoable`, `Confined`, `LoneVerifies` | a hash is good only of what is on top |
| `PublicGuardProofs` | `ReportExact`, `AlarmIsReal` | a report is complete only behind the loop |
| `YonishiProofs` | `RecordsTrue`, `ManifestKept`, `RowsExact`, `ReadersExact` | a manifest is of what its rebuild still holds; what was read must be texts |

`ColorWriterProofs`, for any processes, sites, cells, values, records and
`Owned`: `Inductive` (type, `FileInv`, `CallInv` for each process) holds in
every reachable state.  `BackupPristine` alone is not inductive: the backup is
written from `snap`, taken earlier.  What saves it is the fourth conjunct of
`CallInv`: while there is no backup nobody has edited the target, so a call
that still finds none has read the original; a call that finds one compares it
with what it has read, so that an edit is always one step away from the
original.

`TwoWritersProofs`, for any finite number of processes of either writer and any
sites, is in two stages.  First every action of each writer is shown to be a
*move* of one call, which says what it does to that call, to the two files it
may touch, and that it leaves the rest alone (`CMoves`, `VMoves`); then each
part of the invariant is shown to survive moves, without a look at the actions.
Racing (`Spec`), the heart of `RaceInv` is `Fresh \/ CSafe \/ VSafe`: either
nothing has been saved, and then every call has read the original; or one
writer's backup is the original, and every call of that writer that is about
to write a backup holds the original too, so that it stays.  The writer that
saves first leaves `Fresh`, and goes to its own side.  Which writer that is
cannot be told from a state alone, and neither side is an invariant by itself.
`BytesNear` carries `OnlyWindowsChange` through the snapshots: what the calls
hold never differs from the original outside payloads and windows, and while
the colour writer has saved nothing, outside windows (`Reach`), from which
`VectorRecoverable` follows.  The refinement maps `saved` to the original as
soon as one backup is it.  One at a time (`SerialSpec`), `SerialInv` says that
what a running call has read is still what the target holds; its parts are
vacuous for idle calls, and `AtMostOneBusy` lets another tool edit only when
all are.

`Wd3RoundTripProofs` has two parts.  The map, for any set of streams and any
container, alone and on trips: the strengthening says that the spans end at
`pos`, which is a boundary, and that no boundary lies inside a span; a stream
covers either all or nothing of such a span, and a finished map reaches
`total_size` without a hole.  The trips, for any sources and any number of
streams with headers anywhere: the lemmas go cell by cell through what
`Structure` lays out, `CoveredCell` under a stream header (whichever of several
comes last, each has the source's cell there) and `OpenCell` elsewhere, then
through the whole blob (`WrittenIs`).  The cells the parser reads are among
those that are kept, so that the blob is accepted at offset 0 and parsed to the
container it was written from (`ReadAgain`).  With that, `TripInv` is inductive:
the second trip's source is the blob of an accepted container, so it cannot be
refused, and its container cannot be another.  `RefusedForCause` and
`MapFitsBlob` compare what `Valid` has let through with what the layout asks
for.  The minima and maxima of the code are `CHOOSE` of a least and a greatest
element; that there is one is `WFMin` of the library, applied to the order of
the naturals.

`PppProofs` has two parts.  The walks, for any section and any sizes: the
strengthening says that `visited` is closed under `next`, up to the program at
hand, and that each visited program passed `ProgramHolds`; the iterator, which
starts where the validator did, walks inside it.  `InductiveStep` is stated of
any section, so that it serves the walks of an inventory as well, over data that
has been edited (`WalksOfInventory`).

The inventory, for any data, any number of roots and sections, and any edits:
`InventoryKept` is about two inventories, with edits between them, and the first
is gone when the second ends.  So the proof first says of the data alone what an
inventory comes to.  `Accepted(s, P)` says that `P` is the chain of programs of a
section that holds, and no section has two of them (`ChainsMeet`); `Whole(d, o, P)`
says that `o` is a root with the programs `P`, and `Offers(d, o, P)` names the
places `Select` chooses there.  `InventoryInv` then says that there is data `d`, the
data as it was when the inventory began, such that whatever the search and the
loop have found so far is what `d` has (`Position`, `Found`, `Listed`, `Looping`),
and the data as it is differs from `d` only in records of candidates edited since
(`Differs`).  That is enough to take the next inventory from: by the frame lemmas
up to `OffersFrame`, data that differ only in offered records have the same roots
with the same offers, since no cell that the search, a walk or the choice reads
lies in an offered record, by `Clear` where it belongs to a span of
`_structural_spans` and by `Solid` where it does not.

`StreamWalkProofs`: for streams of any length with any entries.  `WalkInv` says
that each record is what `_parse_record` makes of its offset, that different
records do not overlap, and that they leave nothing out (`RecordsExact`,
`RecordsApart`, `RecordsCover`); the tiling follows.  `InStep` relates the
second walk to the first: while no record is short, its offset is a record's or
lies behind the last.  It is inductive because records lie end to end: an
instruction of the size of its record ends where the next record begins.

`EffectOverlayProofs`: for any DLLs, effects and payloads.  The inductive
invariant has, besides the types, three parts: every mapped effect lies inside
the DLL and on its own bytes (`Sited`); what the caller holds is what the eff
file says unless the effect is open (`Known`); and `Layered`.  The last is what
makes the others worth having.  An effect whose hash is good is covered by none,
so a write happens on top only: it can neither make a byte the work of two
effects nor close a ring of effects that cover one another.  Without a ring
some open effect is on top, and its hash is good; that is `Undoable`.  It rests
on two things the model says of the caller: it probes the DLL as on disk, and it
hands back the hash of what it last wrote.

`PublicGuardProofs`: for any tree, policy and number of edits.  `Due(p, v)` is
what is reported of a file by now if it has been `v` since the scan began; it
depends on whether the loop is before, at or behind `p`, and at `p` on which of
its accesses are done.  `GuardInv` says that a file with one past has been
reported for exactly what is due, which at the end is everything.

`YonishiProofs`: for any texts, any number of rebuilds and any edits. `TrueInv`
follows a rebuild through its two passes. What a file has held only grows and
ends with what it holds (`Remembers`), so that what is read of it is among it,
and behind what was read before (`InTime`, `FileInTime`); as many files are
hashed and counted as were listed (`Passes`), which were all there then
(`Listed`); a manifest is the work of a rebuild that is over, so that its fields
stay what was written (`Made`). That a hash and the counts next to it are of one
content is not a theorem, since it is not so: an edit between the two readings
goes unnoticed, and `RecordsTrue` says how far they can be apart. `KeptInv` says
that until two writers meet, the rebuild that writes is alone, and any that is
about to write holds the fixtures recorded last. Where two writers meet, or one
is cut short within `write_text`, fixtures are lost, and `ManifestKept` says
nothing. For these two, what the readers make of a text is an operator the
proofs never open: they need only that the same text is read as the same.

For the other two they open it, in the first part of the module. A recursive
function is a `CHOOSE`, and has its recursion only if a function with it exists;
that, and everything said of each line, is shown by induction, as a lemma over
sets (`Induction`, from the least counterexample of `WFMin`) since the library's
theorems take predicates.

* `RowsExact`: `CharsAt` lists the kept positions of a file in order, each as far
  behind its number as positions were dropped before it (`CharsList`,
  `CharsShift`).  What the first pass of `_strip_comments` blanks out is, in a
  `Tame` text, in a line comment of C or `Buried` in a block comment
  (`LinesStripped`).  So the second pass sees the end of every block comment, and
  the comment that it finds open at a character ends where that of `CMode` does
  (`MatchOf`).  Both passes leave what C does (`CommentsExact`), and the rows are
  read by the same function.
* `ReadersExact`: `Lists(q, S)` says that `q` goes through the lines `S` in
  order, which only `InOrder(S)` does.  From the last line back, the middle loop
  of `_build_opcode_blocks` collects the TIME lines up to the next directive or
  edge (`TimesCollect`), and the outer loop a block for each directive
  (`OpcodeBlocksAre`).  From the first line on, `parse_par_file` is `Idle` or
  `Busy` with one TIME line and has the widths of all before it
  (`StatisticsAre`).  Over several files, `Tells(s, X, v)` says that the sequence
  `s` has one entry for each place of `X`, which is `v` of it; it is kept by
  joining (`FlatTells`), and it settles the length, the set and the bag of `s`
  (`TellsOf`).  The totals agree as the TIME lines are those under a directive
  and the others (`Parted`, `BagsAdd`, `TotalsAgree`).  `ReaderInv` adds that
  whatever an editor saves, a caller has read texts.

Only model-checked:

* liveness (`CallsFinish`, `Terminates`, `InventoryEnds`), which is out of the
  prover's reach.

## Not modelled

* Text and layout: rendering, opcode names, reports, the command line, the
  regular expressions of the guard's policy.
* The fixed-layout codecs, which unit tests exhaust.
* What a file system keeps after a power loss.
* A temporary file that cannot be removed after a failed `os.replace`
  (c2_b_writer.py:55): the unlink is taken to succeed, and `LitterOnlyWhenAborted`
  rests on that.
* A family of candidates whose window and record head do not make 32 bytes, the
  number useful_ppp_writer.py:63 hard-codes; the two that are supported do.
* Callers that change a parsed container's fields before writing it, or that
  hash afresh what lies under an overlay before they write: the hash check then
  always passes, and `Undoable` is theirs to keep.
* `sync.py`: it validates one JSON object field by field and prints a plan; it
  keeps nothing, copies nothing and reads its file once, so that there is nothing
  between two of its steps.
* In the Yonishi tools: line classification and line ends of `.par` texts and
  `serialize_par`, which
  joins the lines it was given; opcode names and what is counted of them; the
  `.pdt` files, which are only hashed; the values a rebuild copies from two JSON
  files.  `par_fixture_snapshot`, which `yonishi_manifest.py:28` imports, is not in
  the repository: its `compute_sha256` is taken to be a hash, and the tool that
  records `par_fixtures` to change nothing else in the manifest.

## Noticed on the way

Small things no run is about.

* The guard's exit code 0 is read as "the tree is safe" (README.md:56) and said
  to cover all tracked and untracked files (PUBLIC_UPSTREAM.md:52).  A file that
  cannot be read, and one under a directory of `_SKIP_DIRS`, is not looked into.
* `parse_pe_data_section` raises `struct.error` on a file cut inside the PE
  header, where its docstring promises None.
* `_structural_spans` takes the programs from the slots they have, and leaves out
  the primary and the auxiliary tables.  A record that lies on the head of a
  program without slots, or on a table, is selected, although a test is named
  `test_select_rejects_callback_overlapping_program_structure`
  (tests/test_useful_ppp_candidates.py:64).  `InventoryKept` excludes the two
  cases by `Solid`; without either half of it TLC finds an edit that changes the
  next inventory.
* No function compares the `dll_sha256` of an overlay mapping with the DLL it is
  applied to; the hash of the bytes to be replaced is the only check.
* `yonishi_dispatch.py` strips line comments before block comments, so a `//`
  inside a block comment takes a closing `*/` on the same line with it; the rows
  up to the next `*/` are lost, or rows of the comment are read.  `Tame` excludes
  this from `RowsExact`, and a block comment without an end besides, which the
  reader leaves in the text and C does not.
* `raw_offset_in_file` is documented as the byte offset of a row in the file
  (yonishi_dispatch.py:134, 196-198), and comments are blanked out so as to keep
  offsets valid (282-285).  `parse_h_file` takes it in the text of
  `path.read_text`, which has one LF for CR LF and one character for several
  bytes: in a file with either before the row it is too low, by the number
  `RowsExact` gives.
* Nothing compares the content a `.par` file is hashed of with the one it is
  counted of, nor the three readings of a header: a record made during an edit is
  of two contents, and no error says so.
* A rebuild that is killed while it writes leaves a manifest that is no JSON.  The
  next one takes it for none (yonishi_manifest.py:305) and drops the fixtures;
  the DLL writers of the same package would have replaced the file as a whole.
* The manifest counts TIME lines outside any opcode block, which `parse_par`
  leaves out: `time_blocks_total` and `CorpusStats` differ by them.

## Plan

The system is modelled as far as it has state, order or structure to get wrong.
Every safety invariant and every action property of the passing runs is proved
for all values of the constants.

New behaviour joins an existing run where it asks the same question of the same
state.
