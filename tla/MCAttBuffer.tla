----------------------------- MODULE MCAttBuffer -----------------------------
(* AttBuffer with a buffer of a few cells: long enough for a value to be     *)
(* shortened, grown over its old bytes, and pushed past the end.             *)
EXTENDS AttBuffer
==============================================================================
