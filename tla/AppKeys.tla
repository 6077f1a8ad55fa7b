------------------------------ MODULE AppKeys ------------------------------
(***************************************************************************)
(* The places of the attributes in an Application, and the keys (service,  *)
(* characteristic, descriptor) under which register files their workers.   *)
(* An application is a sequence of services [id, chars], chars one of      *)
(* characteristics [id, descs], descs one of descriptors [id].             *)
(***************************************************************************)
EXTENDS Naturals, Sequences

\* A bug of the kind the module must exclude: the service is left out of the key.
KeyOfChild(s, c, d) == IF c = 0 THEN <<s, 0, 0>> ELSE <<0, c, d>>

Key(s, c, d) == <<s, c, d>>

\* Every attribute register comes by, as the path of indices of its object.
Places(a) ==
  {<<i, 0, 0>> : i \in DOMAIN a}
  \cup (UNION {{<<i, j, 0>> : j \in DOMAIN a[i].chars} : i \in DOMAIN a})
  \cup (UNION {UNION {{<<i, j, k>> : k \in DOMAIN a[i].chars[j].descs}
                        : j \in DOMAIN a[i].chars} : i \in DOMAIN a})
KeyAt(a, p) ==
  LET s == a[p[1]] IN
  IF p[2] = 0 THEN Key(s.id, 0, 0)
  ELSE LET c == s.chars[p[2]] IN
       IF p[3] = 0 THEN Key(s.id, c.id, 0) ELSE Key(s.id, c.id, c.descs[p[3]].id)

\* The order in which register starts the workers: an attribute after those
\* below it, whose places go on where its own has a 0.
Earlier(m, n) == m # 0 /\ (n = 0 \/ m < n)
StartsBefore(p, q) ==
  \/ Earlier(p[1], q[1])
  \/ p[1] = q[1] /\ Earlier(p[2], q[2])
  \/ p[1] = q[1] /\ p[2] = q[2] /\ Earlier(p[3], q[3])

Less(k, l) ==
  \/ k[1] < l[1]
  \/ k[1] = l[1] /\ k[2] < l[2]
  \/ k[1] = l[1] /\ k[2] = l[2] /\ k[3] < l[3]
=============================================================================
