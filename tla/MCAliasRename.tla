---------------------------- MODULE MCAliasRename ----------------------------
EXTENDS AliasRename, TLC

\* "a" and "A" are one alias in two spellings.
MCKeyOf == [a \in Aliases |-> IF a = "A" THEN "a" ELSE a]
\* Three names, or two of them with one in two spellings.
MCSpellings == {{"a", "b", "c"} \cap Aliases, {"a", "A", "b"} \cap Aliases}
Symmetry == Permutations(Accounts) \cup Permutations(Clients)
=============================================================================
