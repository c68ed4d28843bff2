---------------------------- MODULE MCMppDecoder ----------------------------
(* MppDecoder on small instances.                                          *)
EXTENDS MppDecoderInv
=============================================================================
