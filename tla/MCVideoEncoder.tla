--------------------------- MODULE MCVideoEncoder ---------------------------
(* VideoEncoder on small instances.                                        *)
EXTENDS VideoEncoderInv

(* Pictures with and without padding, one smaller than the others.         *)
MCPictures == {[width |-> 1918, height |-> 1080, hor_stride |-> 1920, ver_stride |-> 1088],
               [width |-> 640, height |-> 480, hor_stride |-> 640, ver_stride |-> 480]}
=============================================================================
