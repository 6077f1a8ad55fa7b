------------------------------ MODULE MCClient ------------------------------
(* An adapter and two devices, one of them with two services, the second of *)
(* which includes the first, and an object of another kind, which the first *)
(* includes; a characteristic with a descriptor, and one without a UUID.    *)
(* Of the adapter, the second device and the first service BlueZ may tell   *)
(* what it should not.                                                      *)
EXTENDS Client

MCParent ==
  [bluez |-> None, hci0 |-> "bluez", dev1 |-> "hci0", dev2 |-> "hci0",
   s1 |-> "dev1", s2 |-> "dev1", player |-> "dev1",
   c1 |-> "s1", c2 |-> "s1", d1 |-> "c1"]
MCObject == DOMAIN MCParent
MCKind ==
  [bluez |-> "root", hci0 |-> "adapter", dev1 |-> "device", dev2 |-> "device",
   s1 |-> "service", s2 |-> "service", player |-> "other",
   c1 |-> "char", c2 |-> "char", d1 |-> "desc"]
MCId ==
  [bluez |-> 0, hci0 |-> 1, dev1 |-> 1, dev2 |-> 2,
   s1 |-> 1, s2 |-> 2, player |-> 1, c1 |-> 1, c2 |-> 0, d1 |-> 2]
MCIncluded ==
  [o \in MCObject |-> IF o = "s2" THEN {"s1"} ELSE IF o = "s1" THEN {"player"} ELSE {}]
MCTells ==
  [o \in MCObject |->
     CASE o = "hci0" -> {1, 0} [] o = "dev1" -> {1} [] o = "dev2" -> {1, 2} [] OTHER -> {}]
=============================================================================
