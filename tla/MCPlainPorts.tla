----------------------------- MODULE MCPlainPorts -----------------------------
(* MCReducerPorts, for the inputs on which the reducers agree. *)
EXTENDS MCReducerPorts

ASSUME PlainTexts
==============================================================================
