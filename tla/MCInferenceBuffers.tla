------------------------- MODULE MCInferenceBuffers -------------------------
(* Three pictures: the first two share their strides, not their width.     *)
EXTENDS InferenceBuffers

Picture(w, h, ws, hs) == [w |-> w, h |-> h, ws |-> ws, hs |-> hs]
MCGeometries == {Picture(16, 16, 16, 16), Picture(12, 16, 16, 16), Picture(20, 14, 32, 16)}

(* Labels at the corners, at odd places and with no room above the box.    *)
MCDetections == {<<<<4, 3>>, <<3, 4>>, x, y>> : x \in {0, 1, 13}, y \in {0, 9, 15}}
MCFPSImage == <<5, 4>>
=============================================================================
