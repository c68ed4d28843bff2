----------------------------- MODULE PostProcess -----------------------------
(***************************************************************************)
(* post_process for one picture: the cells of the network's quantised      *)
(* output are filtered (process_i8), the candidates sorted by score        *)
(* (quick_sort_indice_inverse, see QuickSort), overlapping candidates of   *)
(* a class suppressed (nms), and the rest mapped back to the picture and   *)
(* drawn.  Rows and candidates are numbered from 1, so 0 is the code's -1. *)
(*                                                                         *)
(* Coordinates are integers (the code's are floats), an overlap is a       *)
(* fraction, compared without dividing.                                    *)
(***************************************************************************)
EXTENDS DescendingOrder

CONSTANTS
    Cells,      \* the cells of the three branches in order: [i, j, stride]
    Distances,  \* what compute_dfl may return for a cell: [left, top, right, bottom]
    Pictures,   \* sizes of the decoded picture: [w, h]
    ModelW, ModelH,
    Classes,    \* OBJ_CLASS_NUM, 80 in the code
    Bits,       \* the width of a score, 8 in the code
    Quants,     \* of a model's score tensor: [zp, thres], its zero point and BOX_THRESH
    Percent,    \* NMS_THRESH * 100
    MaxResults  \* OBJ_NUMB_MAX_SIZE, 128 in the code

Scores == (-(2 ^ (Bits - 1)))..(2 ^ (Bits - 1) - 1)
ClassIds == 0..(Classes - 1)
FoundIds == ClassIds \cup {-1}

(* Conversion to the signed integer type of a score.                       *)
Wrap(x) == ((x + 2 ^ (Bits - 1)) % 2 ^ Bits) - 2 ^ (Bits - 1)

ASSUME QuantAssumption ==
    \A q \in Quants : Wrap(- q.zp) \in Scores /\ q.thres \in Scores
ASSUME CellsAssumption == Cells \in Seq([i : Nat, j : Nat, stride : Nat])
ASSUME BoundAssumption == MaxResults \in Nat /\ Classes \in Nat \ {0}

(* A distance is an expectation over 0..dfl_len-1 (compute_dfl); pictures  *)
(* and the network's input are not empty.                                  *)
ASSUME SizesAssumption ==
    /\ Distances \subseteq [left : Nat, top : Nat, right : Nat, bottom : Nat]
    /\ Pictures \subseteq [w : Nat \ {0}, h : Nat \ {0}]
    /\ ModelW \in Nat \ {0} /\ ModelH \in Nat \ {0}

None == <<>>
Gone == 0

VARIABLES
    picture,   \* the picture the letterbox was made for
    quant,     \* the quantisation of the scores
    phase,
    cell,      \* cells looked at so far
    last,      \* the scores of the last cell, None when it was passed over
    cands,     \* filterBoxes, objProbs and classId, by candidate
    sorted,    \* the index array as the sort left it
    order,     \* the index array nms works on
    todo, cls, row,  \* classes still to come, the class and the row nms is at
    out,       \* rows the loop over the results has passed
    results    \* od_results, with the row and the rectangle drawn for each

nmsVars == <<order, todo, cls, row>>
vars == <<picture, quant, phase, cell, last, cands, sorted, nmsVars, out, results>>

Least(x, y) == IF x < y THEN x ELSE y
Most(x, y) == IF x < y THEN y ELSE x

-----------------------------------------------------------------------------
(* The letterbox of inference_model: the scale as a fraction, the padding. *)
Scale == IF ModelW * picture.h <= ModelH * picture.w
            THEN [num |-> ModelW, den |-> picture.w]
            ELSE [num |-> ModelH, den |-> picture.h]
XPad == (ModelW - (picture.w * Scale.num) \div Scale.den) \div 2
YPad == (ModelH - (picture.h * Scale.num) \div Scale.den) \div 2

(* The centre of a cell, and the box compute_dfl's distances put around it.*)
Centre(at) == [x |-> at.j * at.stride + at.stride \div 2,
               y |-> at.i * at.stride + at.stride \div 2]
BoxAround(at, d) ==
    [x |-> Centre(at).x - d.left, y |-> Centre(at).y - d.top,
     w |-> d.left + d.right, h |-> d.top + d.bottom]

(* The threshold, and the score the loop over the classes starts from:     *)
(* (int8_t)-score_zp, which may lie above the threshold.                   *)
Thres == quant.thres
Start == Wrap(- quant.zp)

(* Mutant: the last of several classes with the best score is taken.       *)
BestClassLast(scores) ==
    LET best[c \in 0..Classes] ==
          IF c = 0 THEN [score |-> Start, class |-> -1]
          ELSE IF scores[c - 1] > Thres /\ scores[c - 1] >= best[c - 1].score
               THEN [score |-> scores[c - 1], class |-> c - 1]
               ELSE best[c - 1]
    IN  best[Classes]

(* The loop over the classes of a cell.                                    *)
BestClass(scores) ==
    LET best[c \in 0..Classes] ==
          IF c = 0 THEN [score |-> Start, class |-> -1]
          ELSE IF scores[c - 1] > Thres /\ scores[c - 1] > best[c - 1].score
               THEN [score |-> scores[c - 1], class |-> c - 1]
               ELSE best[c - 1]
    IN  best[Classes]

(* CalculateOverlap of two boxes, as the fraction Shared / Joint; widths   *)
(* and heights count both edges.                                           *)
Extent(a, lenA, b, lenB) == Most(0, Least(a + lenA, b + lenB) - Most(a, b) + 1)
Shared(p, q) == Extent(p.x, p.w, q.x, q.w) * Extent(p.y, p.h, q.y, q.h)
Joint(p, q) == (p.w + 1) * (p.h + 1) + (q.w + 1) * (q.h + 1) - Shared(p, q)

Overlaps(m, n) ==
    LET p == cands[m].box  q == cands[n].box
    IN  Joint(p, q) > 0 /\ 100 * Shared(p, q) > Percent * Joint(p, q)

-----------------------------------------------------------------------------
Init ==
    /\ picture \in Pictures /\ quant \in Quants
    /\ phase = "collect" /\ cell = 0 /\ last = None
    /\ cands = <<>> /\ sorted = <<>> /\ order = <<>>
    /\ todo = {} /\ cls = 0 /\ row = 1
    /\ out = 0 /\ results = <<>>

(* One cell: passed over by its score sum, or a candidate when its best    *)
(* score is above the threshold.                                           *)
ProcessCell ==
    /\ phase = "collect" /\ cell < Len(Cells)
    /\ cell' = cell + 1
    /\ \/ last' = None /\ UNCHANGED cands
       \/ \E scores \in [ClassIds -> Scores], d \in Distances :
             LET best == BestClass(scores)
                 cand == [box |-> BoxAround(Cells[cell'], d), cell |-> cell',
                          score |-> best.score, class |-> best.class]
             IN  /\ cands' = IF best.score > Thres THEN Append(cands, cand) ELSE cands
                 /\ last' = scores
    /\ UNCHANGED <<picture, quant, phase, sorted, nmsVars, out, results>>

(* No candidate: no result.  Otherwise the rows are sorted by score, and   *)
(* nms is about to go through the classes that occur.                      *)
Sort ==
    /\ phase = "collect" /\ cell = Len(Cells)
    /\ last' = None
    /\ IF cands = <<>>
          THEN phase' = "done" /\ UNCHANGED <<sorted, nmsVars>>
          ELSE /\ phase' = "nms"
               /\ sorted' \in DescendingOrders([n \in DOMAIN cands |-> cands[n].score])
               /\ order' = sorted'
               /\ todo' = {cands[n].class : n \in DOMAIN cands}
               /\ row' = Len(cands) + 1
               /\ UNCHANGED cls
    /\ UNCHANGED <<picture, quant, cell, cands, out, results>>

(* nms for the next class, the least one left.                             *)
NextClass ==
    /\ phase = "nms" /\ row > Len(cands)
    /\ \E c \in todo :
          /\ \A d \in todo : c <= d
          /\ cls' = c /\ todo' = todo \ {c}
    /\ row' = 1
    /\ UNCHANGED <<picture, quant, phase, cell, last, cands, sorted, order, out, results>>

(* Mutant: boxes of every class are suppressed.                            *)
SuppressRowAnyClass ==
    /\ phase = "nms" /\ row <= Len(cands)
    /\ LET n == order[row]
       IN  order' = [j \in DOMAIN order |->
                        IF /\ n # Gone /\ cands[n].class = cls
                           /\ j > row /\ order[j] # Gone
                           /\ Overlaps(n, order[j])
                        THEN Gone ELSE order[j]]
    /\ row' = row + 1
    /\ UNCHANGED <<picture, quant, phase, cell, last, cands, sorted, todo, cls, out, results>>

(* Mutant: the inner loop starts two rows further down.                    *)
SuppressRowSkipsOne ==
    /\ phase = "nms" /\ row <= Len(cands)
    /\ LET n == order[row]
       IN  order' = [j \in DOMAIN order |->
                        IF /\ n # Gone /\ cands[n].class = cls
                           /\ j > row + 1 /\ order[j] # Gone
                           /\ cands[order[j]].class = cls
                           /\ Overlaps(n, order[j])
                        THEN Gone ELSE order[j]]
    /\ row' = row + 1
    /\ UNCHANGED <<picture, quant, phase, cell, last, cands, sorted, todo, cls, out, results>>

(* One turn of the outer loop of nms: a row of this class that is still    *)
(* there suppresses the later rows of the class that overlap it.           *)
SuppressRow ==
    /\ phase = "nms" /\ row <= Len(cands)
    /\ LET n == order[row]
       IN  order' = [j \in DOMAIN order |->
                        IF /\ n # Gone /\ cands[n].class = cls
                           /\ j > row /\ order[j] # Gone
                           /\ cands[order[j]].class = cls
                           /\ Overlaps(n, order[j])
                        THEN Gone ELSE order[j]]
    /\ row' = row + 1
    /\ UNCHANGED <<picture, quant, phase, cell, last, cands, sorted, todo, cls, out, results>>

-----------------------------------------------------------------------------
(* A coordinate in the network's picture, back in the decoded one.         *)
Unscaled(v, limit) == (Least(Most(v, 0), limit) * Scale.den) \div Scale.num

(* Mutant: the sorted scores are read at the candidate's index.            *)
DetectionScoreByCandidate(i) ==
    LET c == cands[order[i]]
        x == c.box.x - XPad   y == c.box.y - YPad
    IN  [left |-> Unscaled(x, ModelW), top |-> Unscaled(y, ModelH),
         right |-> Unscaled(x + c.box.w, ModelW),
         bottom |-> Unscaled(y + c.box.h, ModelH),
         prop |-> cands[sorted[order[i]]].score, cls_id |-> c.class]

(* The detection of row i: clamped to the network's input, unpadded and    *)
(* scaled back; its score from the sorted scores.                          *)
Detection(i) ==
    LET c == cands[order[i]]
        x == c.box.x - XPad   y == c.box.y - YPad
    IN  [left |-> Unscaled(x, ModelW), top |-> Unscaled(y, ModelH),
         right |-> Unscaled(x + c.box.w, ModelW),
         bottom |-> Unscaled(y + c.box.h, ModelH),
         prop |-> cands[sorted[i]].score, cls_id |-> c.class]

(* Mutant: clamped to the size instead of the last column and row.         *)
RectOnePast(d) ==
    [x |-> Most(0, d.left), y |-> Most(0, d.top),
     w |-> Least(d.right, picture.w) - Most(0, d.left) + 1,
     h |-> Least(d.bottom, picture.h) - Most(0, d.top) + 1]

(* The rectangle inference_model draws for a detection.                    *)
Rect(d) ==
    [x |-> Most(0, d.left), y |-> Most(0, d.top),
     w |-> Least(d.right, picture.w - 1) - Most(0, d.left) + 1,
     h |-> Least(d.bottom, picture.h - 1) - Most(0, d.top) + 1]

NmsDone == phase = "nms" /\ row > Len(cands) /\ todo = {}

(* One turn of the loop over the rows: a row that is left becomes a result *)
(* while there is room.                                                    *)
EmitRow ==
    /\ NmsDone
    /\ out' = out + 1
    /\ phase' = IF out' = Len(cands) THEN "done" ELSE phase
    /\ IF order[out'] # Gone /\ Len(results) < MaxResults
          THEN results' = Append(results, [row |-> out', det |-> Detection(out'),
                                           rect |-> Rect(Detection(out'))])
          ELSE UNCHANGED results
    /\ UNCHANGED <<picture, quant, cell, last, cands, sorted, nmsVars>>

Next == ProcessCell \/ Sort \/ NextClass \/ SuppressRow \/ EmitRow

Spec == Init /\ [][Next]_vars

-----------------------------------------------------------------------------
Box == [x : Int, y : Int, w : Int, h : Int]
Candidate == [box : Box, cell : 1..Len(Cells), score : Scores, class : FoundIds]
Result == [row : Nat, rect : Box,
           det : [left : Int, top : Int, right : Int, bottom : Int,
                  prop : Scores, cls_id : FoundIds]]

(* Every variable has its type; there are never more results than the      *)
(* array has places (postprocess.cpp:625).                                 *)
TypeOK ==
    /\ picture \in Pictures /\ quant \in Quants
    /\ phase \in {"collect", "nms", "done"}
    /\ cell \in 0..Len(Cells)
    /\ last \in [ClassIds -> Scores] \cup {None}
    /\ cands \in Seq(Candidate) /\ Len(cands) <= cell
    /\ sorted \in Seq(1..Len(cands)) /\ order \in Seq(Gone..Len(cands))
    /\ todo \subseteq FoundIds /\ cls \in FoundIds
    /\ row \in 1..(Len(cands) + 1)
    /\ out \in 0..Len(cands)
    /\ results \in Seq(Result) /\ Len(results) <= MaxResults

(* A cell becomes a candidate when some class scores above the threshold   *)
(* and the start, of the first class with the best score.  With a start    *)
(* above the threshold every other cell becomes one too, of no class; with *)
(* a start below it no other cell does (postprocess.cpp:313-355).          *)
BestOfCell ==
    last # None =>
        LET above == {c \in ClassIds : last[c] > Thres /\ last[c] > Start}
            mine  == {n \in DOMAIN cands : cands[n].cell = cell}
        IN  /\ (mine = {}) <=> (above = {} /\ Start <= Thres)
            /\ \A n \in mine :
                  IF above = {}
                  THEN cands[n].class = -1 /\ cands[n].score = Start
                  ELSE /\ cands[n].class \in above
                       /\ cands[n].score = last[cands[n].class]
                       /\ \A c \in ClassIds :
                             /\ last[c] <= cands[n].score
                             /\ last[c] = cands[n].score => cands[n].class <= c

(* After nms no two rows of a class that are left overlap                  *)
(* (postprocess.cpp:101-137).                                              *)
KeptApart ==
    NmsDone \/ phase = "done" =>
        \A i, j \in DOMAIN order :
            /\ i < j /\ order[i] # Gone /\ order[j] # Gone
            /\ cands[order[i]].class = cands[order[j]].class
            => ~ Overlaps(order[i], order[j])

(* No row is suppressed but by a row that stays, of its own class, at      *)
(* least as sure as it is, that it overlaps: a suppressed row suppresses   *)
(* nothing itself (postprocess.cpp:106-132).                               *)
SuppressedByBetter ==
    \A j \in DOMAIN order : order[j] = Gone =>
        \E i \in 1..(j - 1) :
            /\ order[i] = sorted[i]
            /\ cands[sorted[i]].class = cands[sorted[j]].class
            /\ cands[sorted[i]].score >= cands[sorted[j]].score
            /\ Overlaps(sorted[i], sorted[j])

(* The results are the surest rows left: each has the score its box and    *)
(* class came with, a row left with a greater score is among the results   *)
(* before it, and none is left out while there is room                     *)
(* (postprocess.cpp:619-646).                                              *)
SurestFirst ==
    phase = "done" =>
        LET left == {i \in DOMAIN order : order[i] # Gone}
            score(i) == cands[order[i]].score
        IN  /\ \A k \in DOMAIN results :
                  /\ results[k].row \in left
                  /\ results[k].det.prop = score(results[k].row)
                  /\ \A i \in left : score(i) > results[k].det.prop
                        => \E m \in 1..(k - 1) : results[m].row = i
            /\ Len(results) < MaxResults =>
                  \A i \in left : \E k \in DOMAIN results : results[k].row = i

(* The part of the network's input that the picture covers.                *)
InPicture(c) ==
    /\ c.x \in XPad..(XPad + (picture.w * Scale.num) \div Scale.den - 1)
    /\ c.y \in YPad..(YPad + (picture.h * Scale.num) \div Scale.den - 1)

(* For a detection whose cell lies in the picture the rectangle drawn is   *)
(* not empty and lies inside the picture, for every letterbox and however  *)
(* far the box reaches into the padding (inference.cpp:226-241, 329-348).  *)
RectInPicture ==
    \A k \in DOMAIN results :
        LET r == results[k].rect
            n == order[results[k].row]
        IN  InPicture(Centre(Cells[cands[n].cell])) =>
                /\ r.w >= 1 /\ r.x + r.w <= picture.w
                /\ r.h >= 1 /\ r.y + r.h <= picture.h
=============================================================================
