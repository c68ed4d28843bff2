--------------------------- MODULE PostProcessInv ---------------------------
(***************************************************************************)
(* The inductive invariant of post_process: where a candidate comes from;  *)
(* what holds between two turns of the outer loop of nms, for the classes  *)
(* it has finished and the rows it has passed; and what the loop over the  *)
(* results has made of the rows it has passed.                             *)
(***************************************************************************)
EXTENDS PostProcess

ScoresOf == [n \in DOMAIN cands |-> cands[n].score]
ClassAt(i) == cands[sorted[i]].class

(* Row i has had its turn.                                                 *)
Passed(i) == ClassAt(i) \notin todo /\ (ClassAt(i) # cls \/ i < row)

(* Each loop works on what the one before it has completed.                *)
Phases ==
    /\ phase = "collect" => order = <<>> /\ sorted = <<>>
    /\ phase = "nms" => cands # <<>> /\ out < Len(cands)
    /\ phase = "done" /\ cands = <<>> => order = <<>> /\ sorted = <<>>
    /\ phase = "done" => out = Len(cands)
    /\ last # None => phase = "collect"
    /\ out > 0 => NmsDone \/ phase = "done"
    /\ out = 0 => results = <<>>

(* A candidate is of a cell that has been looked at, its box around it.    *)
FromCells ==
    \A n \in DOMAIN cands :
        /\ cands[n].cell \in 1..cell
        /\ \E d \in Distances : cands[n].box = BoxAround(Cells[cands[n].cell], d)

(* The rows are the sorted ones or gone.                                   *)
RowsSorted ==
    /\ sorted \in [1..Len(cands) -> 1..Len(cands)]
    /\ Descends(sorted, ScoresOf)
    /\ order \in [1..Len(cands) -> Gone..Len(cands)]
    /\ \A j \in 1..Len(cands) : order[j] \in {Gone, sorted[j]}

LoopPosition ==
    /\ row <= Len(cands) => cls \notin todo
    /\ phase = "done" => todo = {} /\ row > Len(cands)

(* Row i stays, and excludes row j.                                        *)
Excludes(i, j) == ClassAt(i) = ClassAt(j) /\ Overlaps(sorted[i], sorted[j])

GoneForReason ==
    \A j \in 1..Len(cands) : order[j] = Gone =>
        \E i \in 1..(j - 1) : Passed(i) /\ order[i] # Gone /\ Excludes(i, j)

PassedRowsApart ==
    \A i, j \in 1..Len(cands) :
        i < j /\ Passed(i) /\ order[i] # Gone /\ order[j] # Gone => ~ Excludes(i, j)

(* Once there are rows, what nms has achieved so far.                      *)
NmsInv ==
    phase # "collect" /\ cands # <<>> =>
        RowsSorted /\ LoopPosition /\ GoneForReason /\ PassedRowsApart

(* The results are the rows left among those passed, in the order of the   *)
(* rows and without a gap, and all of them while there is room.            *)
ResultsInv ==
    /\ \A k \in 1..Len(results) :
          /\ results[k].row \in 1..out /\ order[results[k].row] # Gone
          /\ results[k].det = Detection(results[k].row)
          /\ results[k].rect = Rect(results[k].det)
          /\ \A i \in 1..(results[k].row - 1) : order[i] # Gone =>
                \E m \in 1..(k - 1) : results[m].row = i
    /\ Len(results) < MaxResults =>
          \A i \in 1..out : order[i] # Gone =>
             \E k \in 1..Len(results) : results[k].row = i

(* The invariant of post_process (postprocess.cpp:101-137, 292-360,        *)
(* 600-647).                                                               *)
PostInv == TypeOK /\ Phases /\ FromCells /\ BestOfCell /\ NmsInv /\ ResultsInv

(* post_process can always go on: the scores it sorts have a descending    *)
(* order, nms has a next row or a next class, the least one left, and the  *)
(* loop over the results a row it has not passed.                          *)
NeverStuck ==
    \/ phase = "collect" /\ cell < Len(Cells)
    \/ phase = "collect" /\ cell = Len(Cells) /\ DescendingOrders(ScoresOf) # {}
    \/ phase = "nms" /\ row <= Len(cands)
    \/ phase = "nms" /\ \E c \in todo : \A d \in todo : c <= d
    \/ NmsDone /\ out < Len(cands)
    \/ phase = "done"
=============================================================================
