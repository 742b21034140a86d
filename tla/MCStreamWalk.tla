----------------------------- MODULE MCStreamWalk ----------------------------
(* Streams of eight or nine bytes from offset 0 or 1, with headers of two      *)
(* bytes and sprites of three: every choice of entries at the offsets a walk   *)
(* can come to, parameters, entries with no, one or two sprites, which may     *)
(* reach past the end, under known opcodes, alpha selectors and unknown ones.  *)
EXTENDS StreamWalk

MCOffsets == 0 .. 12
Reachable == {0, 2, 4, 5, 6}

Plain == [opcode |-> "known", sprite |-> FALSE, count |-> 1]
Entries ==
    {Plain}
    \cup [opcode : {"known"}, sprite : {TRUE}, count : {0, 1, 2}]
    \cup [opcode : {"alpha", "unknown"}, sprite : {TRUE}, count : {1}]

StreamOf(first, size, extra, e) ==
    LET at == [o \in MCOffsets |->
                  IF o - first \in Reachable THEN e[o - first] ELSE Plain]
    IN  [start |-> first, end |-> first + size, length |-> first + size + extra,
         opcode |-> [o \in MCOffsets |-> at[o].opcode],
         sprite |-> [o \in MCOffsets |-> at[o].sprite],
         count |-> [o \in MCOffsets |-> at[o].count]]

MCStreams ==
    {StreamOf(0, 9, 1, e) : e \in [Reachable -> Entries]}
    \cup {StreamOf(first, size, 0, e) :
             first \in {0, 1}, size \in {1, 8}, e \in [Reachable -> {Plain} \cup
                 [opcode : {"known"}, sprite : {TRUE}, count : {0, 2}]]}
=============================================================================
