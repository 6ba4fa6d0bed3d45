------------------------------- MODULE MCClient -------------------------------
(* The instances of ClientSession for TLC: every constant is a number or a *)
(* model value of the configuration.                                       *)
EXTENDS ClientSession
==============================================================================
