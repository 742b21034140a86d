------------------------------- MODULE ParText -------------------------------
(***************************************************************************)
(* The two readers of a .par file: parse_par of yonishi_par.py, which      *)
(* nests TIME blocks in opcode blocks, and parse_par_file of               *)
(* yonishi_manifest.py, which goes over the lines once.                    *)
(*                                                                         *)
(* A text is a sequence of lines, and a line is what both make of it with  *)
(* the same regular expressions: its kind, the hex pairs on it, and the    *)
(* spelling when it is an @OPCODE directive.  "edge" stands for            *)
(* section_open, section_close and eq_header, "other" for the kinds that   *)
(* no reader looks at: blank, directive and text.                          *)
(***************************************************************************)
EXTENDS Integers, Sequences, FiniteSetsExt, Functions

Kind(lines, k) == lines[k].kind

\* The hex pairs on the lines of S.
Pairs(lines, S) == SumFunctionOnSet([k \in DOMAIN lines |-> lines[k].pairs], S)

\* Where the inner loop of _build_time_block stops that begins at line k.
HexEnd(lines, k) ==
    Min({j \in k .. Len(lines) + 1 : j \in 1 .. Len(lines) => Kind(lines, j) # "hex"})

\* Faulty variant: an edge does not end an opcode block.
EndsBlockAt(lines, k) == Kind(lines, k) = "at"

\* The kinds at which the middle loop of _build_opcode_blocks breaks off.
EndsBlock(lines, k) == Kind(lines, k) \in {"at", "edge"}

\* The middle loop from line j on: the TIME blocks it collects, and where it
\* stops.  After a TIME block it goes on behind the block's hex lines.
TimeBlocks(lines, first) ==
    LET from[j \in first .. Len(lines) + 1] ==
            IF j > Len(lines) \/ EndsBlock(lines, j)
            THEN [times |-> <<>>, next |-> j]
            ELSE IF Kind(lines, j) = "time"
            THEN LET e == HexEnd(lines, j + 1)
                     rest == from[e]
                 IN  [rest EXCEPT !.times =
                        <<[line |-> j, width |-> Pairs(lines, j + 1 .. e - 1)]>> \o @]
            ELSE from[j + 1]
    IN  from[first]

\* _build_opcode_blocks.
OpcodeBlocks(lines) ==
    LET from[i \in 1 .. Len(lines) + 1] ==
            IF i > Len(lines) THEN <<>>
            ELSE IF Kind(lines, i) # "at" THEN from[i + 1]
            ELSE LET inner == TimeBlocks(lines, i + 1)
                 IN  <<[line |-> i, spelling |-> lines[i].spelling,
                        times |-> inner.times]>> \o from[inner.next]
    IN  from[1]

\* _flush_operand.
Flush(s) ==
    IF s.inOperand
    THEN [s EXCEPT !.inOperand = FALSE, !.operandBytes = 0,
                   !.widths = Append(@, s.operandBytes)]
    ELSE s

\* The body of the loop of parse_par_file.
ReadLine(s, line) ==
    CASE line.kind = "time" ->
            [Flush(s) EXCEPT !.inOperand = TRUE, !.timeBlocks = @ + 1]
      [] line.kind = "hex" /\ s.inOperand ->
            [s EXCEPT !.operandBytes = @ + line.pairs]
      [] line.kind = "at" ->
            [Flush(s) EXCEPT !.spellings = Append(@, line.spelling)]
      [] OTHER -> Flush(s)

\* parse_par_file.
ParFileStats(lines) ==
    LET s[k \in 0 .. Len(lines)] ==
            IF k = 0
            THEN [timeBlocks |-> 0, widths |-> <<>>, spellings |-> <<>>,
                  inOperand |-> FALSE, operandBytes |-> 0]
            ELSE ReadLine(s[k - 1], lines[k])
        end == Flush(s[Len(lines)])
    IN  [timeBlocks |-> end.timeBlocks, widths |-> end.widths,
         spellings |-> end.spellings]

\* count_time_blocks and collect_spellings, which read a file for themselves.
CountTimeBlocks(lines) == Cardinality({k \in DOMAIN lines : Kind(lines, k) = "time"})
CollectSpellings(texts) ==
    UNION {{t[k].spelling : k \in {j \in DOMAIN t : Kind(t, j) = "at"}} : t \in Range(texts)}
-----------------------------------------------------------------------------
(* What the readers should find, by position *)

\* The numbers of S in increasing order.
InOrder(S) == CHOOSE q \in [1 .. Cardinality(S) -> S] :
                  \A m, n \in DOMAIN q : m < n => q[m] < q[n]

LinesOf(lines, kind) == {k \in DOMAIN lines : Kind(lines, k) = kind}

\* The hex pairs of the lines that follow line k with nothing in between.
WidthOf(lines, k) ==
    Pairs(lines, {j \in k + 1 .. Len(lines) :
                     \A i \in k + 1 .. j : Kind(lines, i) = "hex"})

\* Line k belongs to the directive on line i: there is neither a directive
\* nor an edge between them.
Under(lines, i, k) ==
    /\ i < k /\ Kind(lines, i) = "at"
    /\ \A j \in i + 1 .. k - 1 : Kind(lines, j) \notin {"at", "edge"}
\* The widths at the TIME lines under no directive.
Stray(lines) ==
    LET at == InOrder({k \in LinesOf(lines, "time") :
                          ~\E i \in DOMAIN lines : Under(lines, i, k)})
    IN  [n \in DOMAIN at |-> WidthOf(lines, at[n])]
=============================================================================
