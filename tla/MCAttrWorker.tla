---------------------------- MODULE MCAttrWorker ----------------------------
(* AttrWorker with values of at most MaxLen bytes, and one call for every    *)
(* way through the code.                                                     *)
EXTENDS AttrWorker

MCValue == UNION {[1 .. n -> Byte] : n \in 0 .. MaxLen}

\* What Bluez calls: the interface another worker has, a property that cannot
\* be set, arguments of the wrong type, and offsets that do not fit included.
OfBluez(c) ==
  CASE c.m = "Get" -> c.prop # "UUID" /\ (c.iface = "own" \/ (c.iface = "chrc" /\ c.prop = "Handle"))
    [] c.m = "Set" -> IF c.prop = "Handle" THEN c.iface # "other"
                      ELSE c.prop = "Value" /\ c.iface = "own" /\ c.val = 0
    [] c.m = "GetAll" -> c.iface # "other"
    [] c.m = "ReadValue" -> c.ok \/ c.off = 0
    [] c.m = "WriteValue" -> c.ok \/ (c.off = 0 /\ c.val = <<>>)
    [] OTHER -> TRUE

\* What another caller tries.
OfStranger(c) ==
  \/ c.m = "Set" /\ c.prop = "Handle" /\ c.iface = "own" /\ c.val = 1
  \/ c.m = "WriteValue" /\ c.ok /\ c.off = 0 /\ c.val = <<1>>

MCCalls == {c \in Call : IF c.from = "bluez" THEN OfBluez(c) ELSE OfStranger(c)}
==============================================================================
