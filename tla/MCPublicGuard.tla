---------------------------- MODULE MCPublicGuard ----------------------------
(* One path of each class, the plain ones first and last.  Contents are clean, *)
(* too large with a marker, two kinds of leak, or too large and unreadable.  A *)
(* scan begins on a tree that is in order but for two paths at most.           *)
EXTENDS PublicGuard, FiniteSets

CONSTANT None

File(big, texts, readable) == [big |-> big, texts |-> texts, readable |-> readable]
Clean == File(FALSE, {}, TRUE)
MCContents ==
    {Clean,
     File(TRUE, {"FORBIDDEN_TEXT_MARKER"}, TRUE),
     File(FALSE, {"WINDOWS_PRIVATE_PATH", "LIKELY_CREDENTIAL"}, TRUE),
     File(TRUE, {"LIKELY_CREDENTIAL"}, FALSE)}

\* A tree that is in order.
Base == [p \in Paths |-> IF p \in Banned \cup Inside THEN None ELSE Clean]

MCTrees ==
    {t \in [Paths -> MCContents \cup {None}] :
        Cardinality({p \in Paths : t[p] # Base[p]}) <= 2}
=============================================================================
