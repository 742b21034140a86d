------------------------------ MODULE Wd3Cells -------------------------------
(* Where the fields of a WD3 container lie, counted in cells (see Wd3Blob).   *)

\* The header: magic, total_size in two halves, the stream count, count3 and
\* count4, the word at +14 and the four section offsets.
SizeCell == 1
HighCell == 2
CountCell == 3
CountsCell == 4
WordCell == 5
SectionsCell == 6
HeadSize == 7

\* A stream header: the end, the start, and all the other fields.
StreamHead == 3
=============================================================================
