---------------------------- MODULE QuickSortInv ----------------------------
(***************************************************************************)
(* The inductive invariant of QuickSort.  It speaks of the two arrays with *)
(* the key put back where the hole is: what the scans do is then to        *)
(* exchange two rows of the range being sorted, or nothing.                *)
(***************************************************************************)
EXTENDS QuickSort

(* The arrays with the key put back.                                      *)
Rows == [i \in Positions |-> IF i = Hole THEN key_index ELSE indices[i]]
Scores == [i \in Positions |-> IF i = Hole THEN key ELSE input[i]]

Partitioning == pc \in {"high", "low", "place"}

Ranges == (1..(Len(given) + 1)) \X (0..Len(given))
Typed ==
    /\ given \in Seq(Nat) /\ Len(given) > 0
    /\ input \in [Positions -> Nat] /\ indices \in [Positions -> Positions]
    /\ key \in Nat /\ key_index \in Positions
    /\ left \in Int /\ right \in Int /\ low \in Int /\ high \in Int
    /\ calls \in Seq(Ranges)
    /\ pc \in {"call", "high", "low", "place", "done"}

ScansInside ==
    /\ Partitioning => 1 <= left /\ left <= low /\ low <= high /\ high <= right
                       /\ right <= Len(given)
    /\ pc = "place" => low = high
    /\ pc = "done" => calls = <<>>

(* The ranges follow each other, the one being sorted first.               *)
RangesApart ==
    /\ \A k, m \in DOMAIN calls : k < m => calls[k][2] < calls[m][1]
    /\ Partitioning => \A k \in DOMAIN calls : right < calls[k][1]

(* Left of the scans nothing is below the key, right of them none above.  *)
KeyDivides ==
    Partitioning =>
        /\ \A i \in Positions : left <= i /\ i < low => Scores[i] >= key
        /\ \A i \in Positions : high < i /\ i <= right => Scores[i] <= key

RowsMatch ==
    /\ \A i, j \in Positions : Rows[i] = Rows[j] => i = j
    /\ \A i \in Positions : Scores[i] = given[Rows[i]]

(* Two rows are in order, or a range still to be sorted has both.          *)
Together(i, j) ==
    \/ Partitioning /\ left <= i /\ j <= right
    \/ \E k \in DOMAIN calls : calls[k][1] <= i /\ j <= calls[k][2]
OrderedOrTogether ==
    \A i, j \in Positions : i < j => Scores[i] >= Scores[j] \/ Together(i, j)

SortInv == /\ Typed /\ ScansInside /\ RangesApart
           /\ KeyDivides /\ RowsMatch /\ OrderedOrTogether

(* The positions whose score is not in its place yet: they are in a range  *)
(* that is being sorted or is still to be.                                 *)
Unplaced ==
    {i \in Positions : \/ Partitioning /\ left <= i /\ i <= right
                       \/ \E k \in DOMAIN calls : calls[k][1] <= i /\ i <= calls[k][2]}

(* What the two scans still have to do.  A scan that stops copies a score  *)
(* at which the other one does not stop: one turn without getting closer   *)
(* is followed by one that does.                                           *)
ScanWork ==
    IF pc = "high" THEN 3 * (high - low) + (IF low = high THEN 2
                                            ELSE IF input[high] <= key THEN 0 ELSE 1)
    ELSE IF pc = "low" THEN 3 * (high - low) + (IF low = high THEN 1
                                                ELSE IF input[low] >= key THEN 0 ELSE 1)
    ELSE 0

(* A step places a score, or takes a range off the stack, or brings the    *)
(* scans closer to their end, or is the last one, and undoes none of these.*)
Shrinks ==
    /\ Unplaced' \subseteq Unplaced
    /\ \/ Unplaced' # Unplaced
       \/ Len(calls') < Len(calls)
       \/ calls' = calls /\ ScanWork' < ScanWork
       \/ calls' = calls /\ ScanWork' = ScanWork /\ pc' = "done" /\ pc # "done"

(* No step is taken in vain, also on equal scores: each makes the sort     *)
(* smaller in an order in which nothing gets smaller for ever.             *)
EveryStepShrinks == [][Shrinks /\ ScanWork' \in Nat /\ Len(calls') \in Nat]_vars
=============================================================================
