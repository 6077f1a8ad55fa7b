------------------------------ MODULE MCOneTime ------------------------------
(* OneTime with the values of the .cfg files: a model value for Option::None *)
(* and two values to carry.                                                  *)
EXTENDS OneTime
==============================================================================
