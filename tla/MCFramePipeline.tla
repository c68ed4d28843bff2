-------------------------- MODULE MCFramePipeline --------------------------
(* FramePipeline on small instances.                                       *)
EXTENDS FramePipelineInv, TLC

(* The pictures of a run may change their geometry; the geometries are     *)
(* interchangeable.                                                        *)
GeomSymmetry == Permutations(Geoms)
=============================================================================
