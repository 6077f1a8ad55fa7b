---------------------------- MODULE MCChrcWorker ----------------------------
(* ChrcWorker with values of at most MaxLen bytes.                          *)
EXTENDS ChrcWorker

MCValue == UNION {[1 .. n -> Byte] : n \in 0 .. MaxLen}
==============================================================================
