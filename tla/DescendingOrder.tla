--------------------------- MODULE DescendingOrder ---------------------------
(***************************************************************************)
(* What quick_sort_indice_inverse promises about the index array it        *)
(* permutes along with the values.                                         *)
(***************************************************************************)
EXTENDS Integers, Sequences

(* Every position of s occurs in p once.                                   *)
IsPermutation(p, s) ==
    /\ p \in [1..Len(s) -> 1..Len(s)]
    /\ \A i, j \in 1..Len(s) : p[i] = p[j] => i = j

(* The values of s, read in the order of p, do not rise.                   *)
Descends(p, s) == \A i, j \in 1..Len(s) : i < j => s[p[i]] >= s[p[j]]

DescendingOrders(s) ==
    {p \in [1..Len(s) -> 1..Len(s)] : IsPermutation(p, s) /\ Descends(p, s)}
=============================================================================
