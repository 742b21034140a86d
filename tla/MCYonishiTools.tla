---------------------------- MODULE MCYonishiTools -----------------------------
(* Every short text is read by one program alone; the programs meet over a few *)
(* texts.  A header row has two slots, and comment marks stand anywhere in it. *)
EXTENDS YonishiTools

Line(kind, pairs, spelling) == [kind |-> kind, pairs |-> pairs, spelling |-> spelling]
Lines == {Line("time", 0, ""), Line("hex", 1, ""), Line("hex", 2, ""),
          Line("at", 0, "a"), Line("at", 0, "b"), Line("edge", 0, ""),
          Line("other", 0, "")}

\* One block under a directive, the same with wider operands, and one without
\* its directive.
Plain == <<Line("at", 0, "a"), Line("time", 0, ""), Line("hex", 1, "")>>
Wider == <<Line("at", 0, "b"), Line("time", 0, ""), Line("hex", 2, "")>>
Loose == <<Line("time", 0, ""), Line("hex", 2, ""), Line("at", 0, "a")>>

\* A row with marks in between, in an array, behind and before a comment.
Marks == {<<>>, <<"//">>, <<"/*">>, <<"*/">>, <<"nl">>}
Rows ==
    {<<"array">> \o a \o <<"name">> \o b \o <<"fn">> \o c \o <<"0">> \o d \o <<"}">> \o e \o <<"end">> :
        a \in Marks, b \in Marks, c \in Marks, d \in Marks, e \in Marks}
Bodies == BoundedSeq({"//", "/*", "*/", "nl", "name", "0", "fn", "}"}, 4)
Rest == <<"nl", "name", "fn", "0", "}", "end">>
Row(a, b) == <<"array", "name", a, b, "}", "end">>

\* The same with CRs and characters of two bytes, in front of an array, of a row
\* and of a slot.
Bytes == Marks \cup {<<"cr">>, <<"cr", "nl">>, <<"wide", "more">>, <<"//", "wide", "more", "cr", "nl">>}
Encoded ==
    {a \o <<"array">> \o b \o <<"name", "fn">> \o c \o <<"0", "}", "end">> :
        a \in Bytes, b \in Bytes, c \in Bytes}
Texts ==
    Rows \cup Encoded \cup {<<"array">> \o b \o Rest : b \in Bodies}
    \cup {b \o Row("fn", "0") \o <<"*/", "nl">> \o Row("0", "0") : b \in {<<"//", "/*", "nl">>, <<"/*">>, <<>>}}

Whole == [h_catalog |-> "whole", relocation_map |-> "whole"]
Scene(p, h, in, progs) == [par |-> p, headers |-> h, inputs |-> in, programs |-> progs]

MCScenes ==
    {Scene(<<t>>, <<>>, Whole, {"reader"}) : t \in BoundedSeq(Lines, 5)}
    \cup {Scene(<<t, u>>, <<>>, Whole, {"reader"}) :
             t \in BoundedSeq(Lines, 2), u \in {Gone, Plain, Wider, Loose}}
    \cup {Scene(<<>>, <<t>>, Whole, {"catalog"}) : t \in Texts}
    \cup {Scene(<<>>, <<Row("fn", "0"), t>>, Whole, {"catalog", "editor"}) :
             t \in {Row("fn", "fn"), Gone}}
    \cup {Scene(<<Plain, u>>, <<>>, Whole, {"rebuild", "editor", "recorder", "kill"}) :
             u \in {Gone, Loose}}
    \cup {Scene(<<Plain>>, <<>>, [h_catalog |-> c, relocation_map |-> m],
                {"rebuild", "recorder", "kill"}) :
             c \in {"whole", "missing", "garbled", "incomplete"},
             m \in {"whole", "missing", "garbled"}}
MCParDrafts == {Plain, Wider}
MCHDrafts == {<<"cr", "nl">> \o Row("0", "fn"), <<"array", "name", "0", "}", "end">>}
=============================================================================
