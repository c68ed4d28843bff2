--------------------------- MODULE DescendingSort ---------------------------
(***************************************************************************)
(* The abstract sort: in one step the sequence `given' gets one of its     *)
(* descending orders.                                                      *)
(***************************************************************************)
EXTENDS DescendingOrder

VARIABLES given, order

NotYet == <<>>

Init == given \in Seq(Nat) /\ order = NotYet

Sort ==
    /\ order = NotYet
    /\ order' \in DescendingOrders(given)
    /\ UNCHANGED given

Spec == Init /\ [][Sort]_<<given, order>>
=============================================================================
