----------------------------- MODULE MCGattApp -----------------------------
\* GattApp on small applications.  Which attributes exist, and which of them
\* are faulty, is for the .cfg; their kinds are fixed by name here.
EXTENDS GattApp

MCKind == [a \in Attr |-> CASE a = "s" -> "serv" [] a = "c" -> "chrc" [] a = "d" -> "desc"]
=============================================================================
