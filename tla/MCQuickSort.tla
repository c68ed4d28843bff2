---------------------------- MODULE MCQuickSort ----------------------------
(* QuickSort on every short sequence of small values.                      *)
EXTENDS QuickSort
=============================================================================
