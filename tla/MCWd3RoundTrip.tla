------------------------------ MODULE MCWd3RoundTrip --------------------------
(* Sources of one container with up to four streams (the limit is three),     *)
(* behind nothing, a stray magic or a stray cell, and with or without a cell   *)
(* after it.  Stream headers may touch, overlap, coincide or leave holes;      *)
(* starts and ends may be out of place.  A cell that nothing sets has a value  *)
(* of its own, so that a moved cell is seen.  Sizes from 16 on need two halves.*)
EXTENDS Wd3RoundTrip

Filled(n, total, word, ptrs, starts, ends) ==
    [k \in 1 .. total |->
        LET x == k - 1
            over == {i \in 1 .. n : x \in ptrs[i] .. ptrs[i] + 2}
        IN  IF x \in HeadSize .. HeadSize + n - 1
            THEN ptrs[x - HeadSize + 1]
            ELSE IF over # {}
            THEN LET i == Max(over)
                 IN  <<ends[i], starts[i], 200 + i>>[x - ptrs[i] + 1]
            ELSE CASE x = 0 -> 99
                   [] x = SizeCell -> total % 16
                   [] x = HighCell -> total \div 16
                   [] x = CountCell -> n
                   [] x = WordCell -> word
                   [] OTHER -> 100 + x]

Blobs(n, totals, words, ptrs, starts, ends) ==
    {Filled(n, t, w, p, s, e) :
        t \in totals, w \in words,
        p \in [1 .. n -> ptrs], s \in [1 .. n -> starts], e \in [1 .. n -> ends]}

Candidates ==
    Blobs(0, {12}, {0}, {8}, {11}, {0})
    \cup Blobs(1, {12, 15, 17}, {0, 1}, {5} \cup 7 .. 12, {10, 11, 13, 14, 17}, {0, 11, 14, 17})
    \cup Blobs(2, {17}, {0, 1}, {8, 9, 10, 12, 13}, {12, 13, 15, 16}, {0, 15, 17})
    \cup {Filled(3, 23, 0, <<10, 13, 16>>, s, e) :
             s \in [1 .. 3 -> {19, 20, 21}], e \in [1 .. 3 -> {0, 20, 21, 22}]}
    \cup Blobs(4, {17}, {0}, {11}, {14}, {0})

\* The containers as they are, and the small ones between stray cells too.
MCSources ==
    {before \o c \o after :
        before \in {<<>>, <<99>>, <<5>>}, c \in {d \in Candidates : Len(d) < 20}, after \in {<<>>, <<6>>}}
    \cup Candidates

\* The containers the map is called with.
MCContainers ==
    {Called(Blob!Parsed(c, 0)) : c \in {d \in Candidates : Blob!Valid(d, 0)}}
=============================================================================
