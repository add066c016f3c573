---------------------------- MODULE MCEventStream ----------------------------
(* EventStream and its refinement with the inputs of MCMessageBuilder, for TLC. *)
EXTENDS StreamRefinement, MCMessageBuilder, TLC

MCSymmetry == Permutations(MessageId)
==============================================================================
