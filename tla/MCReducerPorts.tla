---------------------------- MODULE MCReducerPorts ----------------------------
(* ReducerPorts with the inputs of MCMessageBuilder, for TLC. *)
EXTENDS ReducerPorts, MCMessageBuilder
==============================================================================
