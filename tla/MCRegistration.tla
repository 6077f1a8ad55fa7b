--------------------------- MODULE MCRegistration ---------------------------
(* Small applications: the usual one with a service that includes another;  *)
(* UUIDs of 0 for a characteristic with a descriptor, and for a service and *)
(* a descriptor; and an include of a service that is not there.             *)
EXTENDS Registration

Desc(d) == [id |-> d]
Chrc(c, ds) == [id |-> c, descs |-> ds]
Serv(s, inc, cs) == [id |-> s, includes |-> inc, chars |-> cs]

MCApps ==
  { <<Serv(1, {}, <<>>), Serv(4, {1, 4}, <<Chrc(2, <<>>)>>)>>,
    <<Serv(1, {1}, <<Chrc(0, <<Desc(3)>>)>>)>>,
    <<Serv(0, {}, <<Chrc(2, <<Desc(0)>>)>>)>>,
    <<Serv(1, {9}, <<Chrc(2, <<>>)>>)>> }
=============================================================================
