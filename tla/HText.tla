-------------------------------- MODULE HText --------------------------------
(***************************************************************************)
(* The dispatch-table reader of yonishi_dispatch.py: a file is decoded,    *)
(* comments are blanked out in two passes over the whole text, then the    *)
(* rows are looked for in each pppProg array.                              *)
(*                                                                         *)
(* A text is a sequence of tokens, with space between them: the comment    *)
(* marks, the line end, "array" for `pppProg NAME[]={`, "end" for `};`,    *)
(* "name" for `{ PPMPN("NAME")`, "0" and "fn" for a comma and a slot       *)
(* without or with a function, "}" for the brace that closes a row, and    *)
(* " " for anything blank, "wide" for a character of several bytes.  A row *)
(* has Slots slots.                                                        *)
(*                                                                         *)
(* A file is such a sequence by bytes: "cr" is a carriage return, and each *)
(* "more" behind a "wide" a further byte of that character.  Every other   *)
(* token counts for one byte and one character.                            *)
(***************************************************************************)
EXTENDS Integers, Sequences, FiniteSetsExt

CONSTANT Slots   \* FUNCTION_SLOT_COUNT: 9

\* The bytes of a file that begin a character of the text it is read as: UTF-8
\* makes one character of several bytes, universal newlines one of CR and LF.
Kept(file) ==
    {k \in DOMAIN file : /\ file[k] # "more"
                         /\ file[k] = "cr" => k = Len(file) \/ file[k + 1] # "nl"}

\* They in order: where the n-th character of the text stands in the file.
CharsAt(file) ==
    LET at[k \in 0 .. Len(file)] ==
            IF k = 0 THEN <<>>
            ELSE IF k \in Kept(file) THEN Append(at[k - 1], k)
            ELSE at[k - 1]
    IN  at[Len(file)]

\* path.read_text: a CR that stays is a line end.
ReadText(file) ==
    LET at == CharsAt(file)
    IN  [n \in DOMAIN at |-> IF file[at[n]] = "cr" THEN "nl" ELSE file[at[n]]]

\* The position of the first token x behind k, or 0 if there is none.
After(t, k, x) ==
    LET at == {j \in k + 1 .. Len(t) : t[j] = x}
    IN  IF at = {} THEN 0 ELSE Min(at)

\* What a non-greedy pattern from `open` to `close` matches, left to right:
\* for each position the end of the match that covers it, or 0.
Matches(t, open, close) ==
    LET end[k \in 0 .. Len(t)] ==
            IF k = 0 THEN 0
            ELSE LET last == end[k - 1]
                 IN  IF last >= k THEN last
                     ELSE IF t[k] = open THEN After(t, k, close)
                     ELSE 0
    IN  [k \in 1 .. Len(t) |-> end[k]]

\* _LINE_COMMENT_RE.sub: from `//` up to the end of the line.
StripLineComments(t) ==
    [k \in DOMAIN t |->
        IF \E i \in 1 .. k : t[i] = "//" /\ \A j \in i .. k : t[j] # "nl"
        THEN " " ELSE t[k]]

\* _BLOCK_COMMENT_RE.sub: from `/*` up to the first `*/`; one without an end
\* stays.
StripBlockComments(t) ==
    LET covered == Matches(t, "/*", "*/")
    IN  [k \in DOMAIN t |-> IF covered[k] > 0 THEN " " ELSE t[k]]

\* Faulty variant: the two passes in the other order.
StripBlocksFirst(t) == StripLineComments(StripBlockComments(t))

\* _strip_comments_preserving_offsets.
StripComments(t) == StripBlockComments(StripLineComments(t))

\* The slots of the row with the name at k, in an array body that ends at
\* `end`: the first is next to the name; a slot is recognized by the comma or
\* brace that follows, and what stands before that belongs to its token.
RowSlots(t, k, end) ==
    LET body == k + 1 .. end - 1
        rim == {j \in body : t[j] \in {"name", "}"}}
        row == {j \in body : \A b \in rim : j < b}
        solid == {j \in row : t[j] \notin {" ", "nl"}}
        slots == {j \in row : t[j] \in {"0", "fn"}}
        closed == rim # {} /\ t[Min(rim)] = "}"
        matched == IF slots = {} \/ Min(solid) # Min(slots) THEN {}
                   ELSE IF closed THEN slots ELSE slots \ {Max(slots)}
    IN  {j \in matched : Cardinality({i \in matched : i < j}) < Slots}

\* The slot at j holds something else than 0: what follows it there is part
\* of it.
NonZero(t, j) ==
    \/ t[j] = "fn"
    \/ \E m \in j + 1 .. Len(t) :
          /\ t[m] \in {"/*", "*/", "array", "wide"}
          /\ \A i \in j + 1 .. m - 1 : t[i] \in {" ", "nl"}

\* The names in the bodies of the arrays.
Names(t) ==
    LET end == Matches(t, "array", "end")
    IN  {k \in DOMAIN t : t[k] = "name" /\ end[k] > k}

\* parse_h_text on a text without comments: an entry for each row, by its
\* raw_offset_in_file, a place in the text, or the error that a row is short.
ParseRows(t) ==
    LET end == Matches(t, "array", "end")
        slots(k) == RowSlots(t, k, end[k])
    IN  IF \E k \in Names(t) : Cardinality(slots(k)) < Slots
        THEN [error |-> TRUE, entries |-> {}]
        ELSE [error |-> FALSE,
              entries |-> {[at |-> k, nonzero |-> {j \in slots(k) : NonZero(t, j)}] :
                              k \in Names(t)}]

ParseHText(t) == ParseRows(StripComments(t))
-----------------------------------------------------------------------------
(* What C makes of the text *)

\* How the text stands behind its k-th token: a comment mark inside a comment
\* is no mark.
CMode(t) ==
    LET mode[k \in 0 .. Len(t)] ==
            IF k = 0 THEN "code"
            ELSE LET last == mode[k - 1]
                 IN  CASE last = "code" /\ t[k] = "//" -> "line"
                       [] last = "code" /\ t[k] = "/*" -> "block"
                       [] last = "line" /\ t[k] = "nl" -> "code"
                       [] last = "block" /\ t[k] = "*/" -> "code"
                       [] OTHER -> last
    IN  mode

\* The text as C sees it: each comment is blank space.
CText(t) ==
    LET mode == CMode(t)
    IN  [k \in DOMAIN t |->
            IF mode[k - 1] = "code" /\ mode[k] = "code" THEN t[k]
            ELSE IF mode[k - 1] = "line" /\ t[k] = "nl" THEN "nl" ELSE " "]

\* Each block comment has an end, and no `//` before it on the same line.
Tame(t) ==
    LET mode == CMode(t)
    IN  /\ mode[Len(t)] # "block"
        /\ \A e \in DOMAIN t : mode[e - 1] = "block" /\ t[e] = "*/" =>
              \A k \in 1 .. e : t[k] = "//" /\ (\A j \in k .. e : t[j] # "nl") =>
                  mode[k - 1] # "block" \/ \E j \in k .. e - 1 : mode[j] = "code"
=============================================================================
