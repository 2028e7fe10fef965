------------------------------- MODULE Listing -------------------------------
(***************************************************************************)
(* How a directory becomes a listing: readdir gives its entries one by one *)
(* and the loops of e820ReadMap and pciListSysfs keep those that are good  *)
(* until there are max of them, and qsort then orders what was kept.       *)
(* Entries are named by their places in the directory.                     *)
(***************************************************************************)
EXTENDS Naturals, Sequences, SequencesExt

\* Of the good places, those kept: the ones with fewer than max before them.
FirstOf(good, max) == {i \in good : Cardinality({j \in good : j < i}) < max}

\* What qsort may make of the places in S.  It is not stable: places with equal
\* keys come in any order.
Sorted(S, key) == {q \in SetToSeqs(S) : \A i, j \in DOMAIN q : i < j => key[q[i]] <= key[q[j]]}

=============================================================================
