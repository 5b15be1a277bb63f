------------------------- MODULE MCIsolatedValidator -------------------------
(* IsolatedValidator, for TLC: validator.cfg gives the constants. *)
EXTENDS IsolatedValidator
==============================================================================
