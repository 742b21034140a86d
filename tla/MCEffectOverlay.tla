--------------------------- MODULE MCEffectOverlay ---------------------------
(* DLLs of a few bytes with well and badly formed headers, and three effects *)
(* that nest, overlap in a chain, lie apart, occur twice or not at all.      *)
EXTENDS EffectOverlay, TLC

CONSTANTS a, b, c

Header(name, ptr, size) == [name |-> name, ptr |-> ptr, size |-> size]
Dll(signed, headers, whole, bytes) ==
    [signed |-> signed, headers |-> headers, whole |-> whole, bytes |-> bytes]

Text == Header(".text", 0, 1)
MCFiles ==
    {Dll(s, h, w, <<0, 0, 1, 1, 0, 0>>) :
        s \in BOOLEAN, w \in 1 .. 2,
        h \in {<<Text, Header(".data", 1, 5)>>, <<Text, Header(".data", 1, 9)>>,
               <<Header(".data", 1, 5), Header(".data", 0, 6)>>,
               <<Text, Header(".data", 7, 2)>>, <<Text>>}}

MCBlobs ==
    {(a :> x @@ b :> y @@ c :> z) :
        x \in {<<0, 1>>, <<0, 1, 1, 0>>, <<0, 1, 1, 0, 0, 0>>},
        y \in {<<1, 1>>, <<1, 1, 0>>, <<0>>, <<1, 0>>},
        z \in {<<1, 0>>, <<1, 0, 0>>, <<0, 0>>, <<>>}}

MCPayloads == UNION {[1 .. n -> {0, 1}] : n \in 0 .. 4}
=============================================================================
