--------------------------- MODULE MCAdvertising ----------------------------
(* Two advertisements at one path.                                          *)
EXTENDS Advertising
=============================================================================
