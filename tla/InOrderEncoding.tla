-------------------------- MODULE InOrderEncoding --------------------------
(***************************************************************************)
(* What the frame pipeline promises to its consumer, without inferences,   *)
(* queues or threads: pictures are numbered as they arrive and each is     *)
(* handled once, in that order.  Handling one either appends it to the     *)
(* output or loses it (its copy could not be allocated).                   *)
(***************************************************************************)
EXTENDS Naturals, Sequences

VARIABLES accepted, handled, output

vars == <<accepted, handled, output>>

Init == accepted = 0 /\ handled = 0 /\ output = <<>>

Accept ==
    /\ accepted' = accepted + 1
    /\ UNCHANGED <<handled, output>>

Encode ==
    /\ handled < accepted
    /\ handled' = handled + 1
    /\ output' = Append(output, handled)
    /\ UNCHANGED accepted

Lose ==
    /\ handled < accepted
    /\ handled' = handled + 1
    /\ UNCHANGED <<accepted, output>>

Next == Accept \/ Encode \/ Lose

Spec == Init /\ [][Next]_vars
=============================================================================
