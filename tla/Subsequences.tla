----------------------------- MODULE Subsequences -----------------------------
(* Filtered lists: what iter().filter(..).collect() leaves of a sequence, by  *)
(* the positions it keeps.  Written without recursion, so that what it        *)
(* returns can be proved.                                                     *)
EXTENDS Naturals, FiniteSets, Sequences

\* The elements of s at these positions, in their order.
ElementsAt(s, positions) ==
    LET nth(n) == CHOOSE i \in positions : Cardinality(positions \cap 1 .. i) = n
    IN  [n \in 1 .. Cardinality(positions) |-> s[nth(n)]]
=============================================================================
