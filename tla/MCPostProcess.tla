---------------------------- MODULE MCPostProcess ----------------------------
(* PostProcess on a few cells and small scores.                            *)
EXTENDS PostProcessInv

(* Two cells of a fine branch, one of a coarse one that covers them; the   *)
(* last cell's centre lies in the padding of a flat picture.               *)
MCCells == <<[i |-> 2, j |-> 0, stride |-> 2], [i |-> 2, j |-> 1, stride |-> 2],
             [i |-> 1, j |-> 0, stride |-> 4], [i |-> 0, j |-> 1, stride |-> 2]>>

(* A close box, of which the third cell's overlaps those of the first two  *)
(* while these do not overlap each other enough; one beyond the input.     *)
MCDistances == {[left |-> 1, top |-> 2, right |-> 3, bottom |-> 2],
                [left |-> 9, top |-> 9, right |-> 9, bottom |-> 9]}

(* As large as the network's input and flat; larger and tall.              *)
MCPictures == {[w |-> 8, h |-> 4], [w |-> 13, h |-> 16]}

(* Scores are -2..1.  With the lowest as the zero point, as sigmoid        *)
(* outputs are quantised, -(-2) wraps to -2 and two scores are above the   *)
(* threshold; with -1 the start, 1, is above it.                           *)
MCQuants == {[zp |-> -2, thres |-> -1], [zp |-> -1, thres |-> 0]}
=============================================================================
