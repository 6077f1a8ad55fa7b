---------------------------- MODULE ClientProofs ----------------------------
(***************************************************************************)
(* Proofs about Client, for every finite tree of objects: what get_children*)
(* reads out of BlueZ's XML, the inductive invariant of a search while     *)
(* objects come and go, and from it the safety properties of the run.      *)
(***************************************************************************)
EXTENDS Client, FiniteSetTheorems, FunctionTheorems, SequenceTheorems,
        WellFoundedInduction, Integers, TLAPS

Event ==
  {Start("interface", None), Start("property", None), Start("node", None),
   Stop("property"), Stop("interface"), Stop("node")}
  \cup {Start("node", c) : c \in Object}

(* The elements of a sequence of children are pairs of events.              *)
LEMMA NodesAreEvents ==
  ASSUME NEW cs \in Seq(Object), NEW n \in Nat, n = Len(cs)
  PROVE  /\ Nodes(cs) \in Seq(Event) /\ Len(Nodes(cs)) = 2 * n
         /\ \A k \in 1 .. n :
              /\ Nodes(cs)[2 * k - 1] = Start("node", cs[k])
              /\ Nodes(cs)[2 * k] = Stop("node")
<1>1. ASSUME NEW i \in 1 .. 2 * n
      PROVE  \/ i % 2 = 1 /\ (i + 1) \div 2 \in 1 .. n
             \/ i % 2 = 0
  OBVIOUS
<1>2. ASSUME NEW k \in 1 .. n
      PROVE  /\ (2 * k - 1) % 2 = 1 /\ (2 * k - 1 + 1) \div 2 = k /\ (2 * k) % 2 # 1
             /\ 2 * k - 1 \in 1 .. 2 * n /\ 2 * k \in 1 .. 2 * n
  OBVIOUS
<1>3. \A k \in 1 .. n : cs[k] \in Object
  OBVIOUS
<1>4. ASSUME NEW i \in 1 .. 2 * n
      PROVE  (IF i % 2 = 1 THEN Start("node", cs[(i + 1) \div 2]) ELSE Stop("node")) \in Event
  BY <1>1, <1>3 DEF Event
<1>5. 2 * n \in Nat
  OBVIOUS
<1>6. Nodes(cs) = [i \in 1 .. 2 * n |->
                     IF i % 2 = 1 THEN Start("node", cs[(i + 1) \div 2]) ELSE Stop("node")]
  BY DEF Nodes
<1>7. Nodes(cs) \in [1 .. 2 * n -> Event]
  BY <1>4, <1>6
<1>8. Nodes(cs) \in Seq(Event) /\ Len(Nodes(cs)) = 2 * n
  BY <1>5, <1>7
<1>9. ASSUME NEW k \in 1 .. n
      PROVE  Nodes(cs)[2 * k - 1] = Start("node", cs[k]) /\ Nodes(cs)[2 * k] = Stop("node")
  BY <1>2, <1>6
<1>10. QED
  BY <1>8, <1>9

(* What a concatenation has where.                                          *)
LEMMA Concat ==
  ASSUME NEW S, NEW s \in Seq(S), NEW t \in Seq(S)
  PROVE  /\ s \o t \in Seq(S) /\ Len(s \o t) = Len(s) + Len(t)
         /\ \A i \in 1 .. Len(s) : (s \o t)[i] = s[i]
         /\ \A j \in 1 .. Len(t) : (s \o t)[Len(s) + j] = t[j]
<1>0. PICK m \in Nat, n \in Nat : m = Len(s) /\ n = Len(t)
  BY LenProperties
<1>1. /\ s \o t \in Seq(S) /\ Len(s \o t) = m + n
      /\ \A i \in 1 .. m + n : (s \o t)[i] = IF i <= m THEN s[i] ELSE t[i - m]
  BY <1>0, ConcatProperties
<1>2. ASSUME NEW j \in 1 .. n
      PROVE  (s \o t)[m + j] = t[j]
  <2>1. m + j \in 1 .. m + n /\ ~(m + j <= m) /\ m + j - m = j
    OBVIOUS
  <2>2. QED
    BY <1>1, <2>1
<1>3. ASSUME NEW i \in 1 .. m
      PROVE  (s \o t)[i] = s[i]
  <2>1. i \in 1 .. m + n /\ i <= m
    OBVIOUS
  <2>2. QED
    BY <1>1, <2>1
<1>4. QED
  BY <1>0, <1>1, <1>2, <1>3

(* The first children, and the others.                                      *)
LEMMA Halves ==
  ASSUME NEW cs \in Seq(Object), NEW n \in Nat, n = Len(cs), NEW p \in 0 .. n
  PROVE  /\ SubSeq(cs, 1, p) \in Seq(Object) /\ Len(SubSeq(cs, 1, p)) = p
         /\ \A k \in 1 .. p : SubSeq(cs, 1, p)[k] = cs[k]
         /\ SubSeq(cs, p + 1, n) \in Seq(Object) /\ Len(SubSeq(cs, p + 1, n)) = n - p
         /\ \A j \in 1 .. n - p : SubSeq(cs, p + 1, n)[j] = cs[p + j]
<1>1. /\ SubSeq(cs, 1, p) \in Seq(Object) /\ Len(SubSeq(cs, 1, p)) = p
      /\ \A k \in 1 .. p : SubSeq(cs, 1, p)[k] = cs[k]
  <2>1. \A i \in 1 .. p : cs[i] \in Object
    OBVIOUS
  <2>2. /\ SubSeq(cs, 1, p) \in Seq(Object)
        /\ Len(SubSeq(cs, 1, p)) = IF 1 <= p THEN p - 1 + 1 ELSE 0
        /\ \A i \in 1 .. p - 1 + 1 : SubSeq(cs, 1, p)[i] = cs[1 + i - 1]
    BY <2>1, SubSeqProperties
  <2>3. Len(SubSeq(cs, 1, p)) = p
    BY <2>2
  <2>4. ASSUME NEW k \in 1 .. p
        PROVE  SubSeq(cs, 1, p)[k] = cs[k]
    <3>1. k \in 1 .. p - 1 + 1 /\ 1 + k - 1 = k
      OBVIOUS
    <3>2. QED
      BY <2>2, <3>1
  <2>5. QED
    BY <2>2, <2>3, <2>4
<1>2. /\ SubSeq(cs, p + 1, n) \in Seq(Object) /\ Len(SubSeq(cs, p + 1, n)) = n - p
      /\ \A j \in 1 .. n - p : SubSeq(cs, p + 1, n)[j] = cs[p + j]
  <2>1. \A i \in p + 1 .. n : cs[i] \in Object
    OBVIOUS
  <2>2. /\ SubSeq(cs, p + 1, n) \in Seq(Object)
        /\ Len(SubSeq(cs, p + 1, n)) = IF p + 1 <= n THEN n - (p + 1) + 1 ELSE 0
        /\ \A i \in 1 .. n - (p + 1) + 1 : SubSeq(cs, p + 1, n)[i] = cs[p + 1 + i - 1]
    <3>1. p + 1 \in Int /\ n \in Int
      OBVIOUS
    <3>2. QED
      BY <2>1, <3>1, SubSeqProperties
  <2>3. Len(SubSeq(cs, p + 1, n)) = n - p
    <3>1. CASE p + 1 <= n
      BY <2>2, <3>1
    <3>2. CASE ~(p + 1 <= n)
      BY <2>2, <3>2
    <3>3. QED
      BY <3>1, <3>2
  <2>4. ASSUME NEW j \in 1 .. n - p
        PROVE  SubSeq(cs, p + 1, n)[j] = cs[p + j]
    <3>1. j \in 1 .. n - (p + 1) + 1 /\ p + 1 + j - 1 = p + j
      OBVIOUS
    <3>2. QED
      BY <2>2, <3>1
  <2>5. QED
    BY <2>2, <2>3, <2>4
<1>3. QED
  BY <1>1, <1>2

(* What the reader sees: the root, the elements of the first children, the  *)
(* four events of the interface, the elements of the others.                *)
LEMMA DocumentShape ==
  ASSUME NEW cs \in Seq(Object), NEW n \in Nat, n = Len(cs), NEW p \in 0 .. n
  PROVE  /\ Len(Document(cs, p)) = 2 * n + 6
         /\ \A k \in 1 .. p : /\ Document(cs, p)[2 * k] = Start("node", cs[k])
                              /\ Document(cs, p)[2 * k + 1] = Stop("node")
         /\ Document(cs, p)[2 * p + 2] = Start("interface", None)
         /\ Document(cs, p)[2 * p + 3] = Start("property", None)
         /\ Document(cs, p)[2 * p + 4] = Stop("property")
         /\ Document(cs, p)[2 * p + 5] = Stop("interface")
         /\ \A k \in p + 1 .. n : /\ Document(cs, p)[2 * k + 4] = Start("node", cs[k])
                                  /\ Document(cs, p)[2 * k + 5] = Stop("node")
         /\ Document(cs, p)[2 * n + 6] = Stop("node")
<1> DEFINE before == SubSeq(cs, 1, p)
           behind == SubSeq(cs, p + 1, n)
           b == Nodes(before)
           e == Nodes(behind)
           r == <<Start("node", None)>>
           s == <<Stop("node")>>
           f == Interface
           d1 == r \o b
           d2 == d1 \o f
           d3 == d2 \o e
           d == d3 \o s
<1>0. p \in Nat /\ n - p \in Nat
  OBVIOUS
<1>1. /\ b \in Seq(Event) /\ Len(b) = 2 * p
      /\ \A k \in 1 .. p : b[2 * k - 1] = Start("node", cs[k]) /\ b[2 * k] = Stop("node")
  <2>1. before \in Seq(Object) /\ p = Len(before) /\ \A k \in 1 .. p : before[k] = cs[k]
    BY Halves
  <2> HIDE DEF before
  <2>2. /\ b \in Seq(Event) /\ Len(b) = 2 * p
        /\ \A k \in 1 .. p : b[2 * k - 1] = Start("node", before[k]) /\ b[2 * k] = Stop("node")
    BY <1>0, <2>1, NodesAreEvents
  <2> HIDE DEF b
  <2>3. QED
    BY <2>1, <2>2
<1>2. /\ e \in Seq(Event) /\ Len(e) = 2 * (n - p)
      /\ \A j \in 1 .. n - p : e[2 * j - 1] = Start("node", cs[p + j]) /\ e[2 * j] = Stop("node")
  <2>1. /\ behind \in Seq(Object) /\ n - p = Len(behind)
        /\ \A j \in 1 .. n - p : behind[j] = cs[p + j]
    BY Halves
  <2> HIDE DEF behind
  <2>2. /\ e \in Seq(Event) /\ Len(e) = 2 * (n - p)
        /\ \A j \in 1 .. n - p : e[2 * j - 1] = Start("node", behind[j]) /\ e[2 * j] = Stop("node")
    BY <1>0, <2>1, NodesAreEvents
  <2> HIDE DEF e
  <2>3. QED
    BY <2>1, <2>2
<1>3. r \in Seq(Event) /\ Len(r) = 1
  <2>1. Start("node", None) \in Event
    BY DEF Event
  <2>2. QED
    BY <2>1
<1>4. s \in Seq(Event) /\ Len(s) = 1 /\ s[1] = Stop("node")
  <2>1. Stop("node") \in Event
    BY DEF Event
  <2>2. QED
    BY <2>1
<1>5. /\ f \in Seq(Event) /\ Len(f) = 4
      /\ f[1] = Start("interface", None) /\ f[2] = Start("property", None)
      /\ f[3] = Stop("property") /\ f[4] = Stop("interface")
  <2>1. /\ Start("interface", None) \in Event /\ Start("property", None) \in Event
        /\ Stop("property") \in Event /\ Stop("interface") \in Event
    BY DEF Event
  <2>2. f \in Seq(Event)
    BY <2>1 DEF Interface
  <2>3. QED
    BY <2>2 DEF Interface
<1>6. Document(cs, p) = d
  BY DEF Document
<1> HIDE DEF b, e, r, s, f
<1>7. /\ d1 \in Seq(Event) /\ Len(d1) = 2 * p + 1
      /\ \A j \in 1 .. 2 * p : d1[1 + j] = b[j]
  <2>1. /\ d1 \in Seq(Event) /\ Len(d1) = 1 + 2 * p
        /\ \A j \in 1 .. 2 * p : d1[1 + j] = b[j]
    <3>0. r \in Seq(Event) /\ b \in Seq(Event)
      BY <1>1, <1>3
    <3>1. /\ d1 \in Seq(Event) /\ Len(d1) = Len(r) + Len(b)
          /\ \A i \in 1 .. Len(r) : d1[i] = r[i]
          /\ \A j \in 1 .. Len(b) : d1[Len(r) + j] = b[j]
      BY <3>0, Concat
    <3> HIDE DEF d1
    <3>2. QED
      BY <1>1, <1>3, <3>1
  <2> HIDE DEF d1
  <2>2. QED
    BY <2>1
<1> HIDE DEF d1
<1>8. /\ d2 \in Seq(Event) /\ Len(d2) = 2 * p + 5
      /\ \A i \in 1 .. 2 * p + 1 : d2[i] = d1[i]
      /\ \A j \in 1 .. 4 : d2[2 * p + 1 + j] = f[j]
  <2>1. /\ d2 \in Seq(Event) /\ Len(d2) = 2 * p + 1 + 4
        /\ \A i \in 1 .. 2 * p + 1 : d2[i] = d1[i]
        /\ \A j \in 1 .. 4 : d2[2 * p + 1 + j] = f[j]
    <3>0. d1 \in Seq(Event) /\ f \in Seq(Event)
      BY <1>5, <1>7
    <3>1. /\ d2 \in Seq(Event) /\ Len(d2) = Len(d1) + Len(f)
          /\ \A i \in 1 .. Len(d1) : d2[i] = d1[i]
          /\ \A j \in 1 .. Len(f) : d2[Len(d1) + j] = f[j]
      BY <3>0, Concat
    <3> HIDE DEF d2
    <3>2. QED
      BY <1>5, <1>7, <3>1
  <2> HIDE DEF d2
  <2>2. QED
    BY <2>1
<1> HIDE DEF d2
<1>9. /\ d3 \in Seq(Event) /\ Len(d3) = 2 * n + 5
      /\ \A i \in 1 .. 2 * p + 5 : d3[i] = d2[i]
      /\ \A j \in 1 .. 2 * (n - p) : d3[2 * p + 5 + j] = e[j]
  <2>1. /\ d3 \in Seq(Event) /\ Len(d3) = 2 * p + 5 + 2 * (n - p)
        /\ \A i \in 1 .. 2 * p + 5 : d3[i] = d2[i]
        /\ \A j \in 1 .. 2 * (n - p) : d3[2 * p + 5 + j] = e[j]
    <3>0. d2 \in Seq(Event) /\ e \in Seq(Event)
      BY <1>2, <1>8
    <3>1. /\ d3 \in Seq(Event) /\ Len(d3) = Len(d2) + Len(e)
          /\ \A i \in 1 .. Len(d2) : d3[i] = d2[i]
          /\ \A j \in 1 .. Len(e) : d3[Len(d2) + j] = e[j]
      BY <3>0, Concat
    <3> HIDE DEF d3
    <3>2. QED
      BY <1>2, <1>8, <3>1
  <2> HIDE DEF d3
  <2>2. QED
    BY <2>1
<1> HIDE DEF d3
<1>10. /\ Len(d) = 2 * n + 6
       /\ \A i \in 1 .. 2 * n + 5 : d[i] = d3[i]
       /\ d[2 * n + 6] = Stop("node")
  <2>1. /\ Len(d) = 2 * n + 5 + 1
        /\ \A i \in 1 .. 2 * n + 5 : d[i] = d3[i]
        /\ \A j \in 1 .. 1 : d[2 * n + 5 + j] = s[j]
    <3>0. d3 \in Seq(Event) /\ s \in Seq(Event)
      BY <1>4, <1>9
    <3>1. /\ d \in Seq(Event) /\ Len(d) = Len(d3) + Len(s)
          /\ \A i \in 1 .. Len(d3) : d[i] = d3[i]
          /\ \A j \in 1 .. Len(s) : d[Len(d3) + j] = s[j]
      BY <3>0, Concat
    <3> HIDE DEF d
    <3>2. QED
      BY <1>4, <1>9, <3>1
  <2> HIDE DEF d
  <2>2. QED
    BY <1>4, <2>1
<1> HIDE DEF d
<1>11. ASSUME NEW k \in 1 .. p
       PROVE  d[2 * k] = Start("node", cs[k]) /\ d[2 * k + 1] = Stop("node")
  <2>1. /\ 2 * k - 1 \in 1 .. 2 * p /\ 2 * k \in 1 .. 2 * p
        /\ 1 + (2 * k - 1) = 2 * k /\ 1 + 2 * k = 2 * k + 1
    OBVIOUS
  <2>2. d1[2 * k] = b[2 * k - 1] /\ d1[2 * k + 1] = b[2 * k]
    BY <1>7, <2>1
  <2>3. \A i \in {2 * k, 2 * k + 1} :
          i \in 1 .. 2 * p + 1 /\ i \in 1 .. 2 * p + 5 /\ i \in 1 .. 2 * n + 5
    OBVIOUS
  <2>4. d[2 * k] = d1[2 * k] /\ d[2 * k + 1] = d1[2 * k + 1]
    BY <1>8, <1>9, <1>10, <2>3
  <2>5. QED
    BY <1>1, <2>2, <2>4
<1>12. ASSUME NEW j \in 1 .. 4
       PROVE  d[2 * p + 1 + j] = f[j]
  <2>1. 2 * p + 1 + j \in 1 .. 2 * p + 5 /\ 2 * p + 1 + j \in 1 .. 2 * n + 5
    OBVIOUS
  <2>2. QED
    BY <1>8, <1>9, <1>10, <2>1
<1>13. /\ d[2 * p + 2] = f[1] /\ d[2 * p + 3] = f[2]
       /\ d[2 * p + 4] = f[3] /\ d[2 * p + 5] = f[4]
  <2>1. /\ 2 * p + 1 + 1 = 2 * p + 2 /\ 2 * p + 1 + 2 = 2 * p + 3
        /\ 2 * p + 1 + 3 = 2 * p + 4 /\ 2 * p + 1 + 4 = 2 * p + 5
    OBVIOUS
  <2>2. QED
    BY <1>12, <2>1
<1>14. ASSUME NEW k \in p + 1 .. n
       PROVE  d[2 * k + 4] = Start("node", cs[k]) /\ d[2 * k + 5] = Stop("node")
  <2>1. PICK j \in 1 .. n - p : k = p + j
    <3>1. k - p \in 1 .. n - p /\ k = p + (k - p)
      OBVIOUS
    <3>2. QED
      BY <3>1
  <2>2. /\ 2 * j - 1 \in 1 .. 2 * (n - p) /\ 2 * j \in 1 .. 2 * (n - p)
        /\ 2 * p + 5 + (2 * j - 1) = 2 * k + 4 /\ 2 * p + 5 + 2 * j = 2 * k + 5
        /\ 2 * k + 4 \in 1 .. 2 * n + 5 /\ 2 * k + 5 \in 1 .. 2 * n + 5
    BY <2>1
  <2>3. d3[2 * k + 4] = e[2 * j - 1] /\ d3[2 * k + 5] = e[2 * j]
    BY <1>9, <2>2
  <2>4. QED
    BY <1>2, <1>10, <2>1, <2>2, <2>3
<1>15. QED
  BY <1>5, <1>6, <1>10, <1>11, <1>13, <1>14

------------------------------------------------------------------------------
(* ignore_xml_tree: the end of an element, by counting.                     *)
LEMMA CountFirst ==
  ASSUME NEW doc, NEW ev, NEW i \in Nat
  PROVE  Count(doc, ev, i, i) = IF doc[i].ev = ev THEN 1 ELSE 0
<1>1. {k \in i .. i : doc[k].ev = ev} = IF doc[i].ev = ev THEN {i} ELSE {}
  OBVIOUS
<1>2. QED
  BY <1>1, FS_Singleton, FS_EmptySet DEF Count

LEMMA CountNext ==
  ASSUME NEW doc, NEW ev, NEW i \in Nat, NEW j \in Nat, i <= j, NEW l \in Nat, l = j + 1
  PROVE  /\ Count(doc, ev, i, j) \in Nat
         /\ Count(doc, ev, i, l) = Count(doc, ev, i, j) + (IF doc[l].ev = ev THEN 1 ELSE 0)
<1> DEFINE A == {k \in i .. j : doc[k].ev = ev}
           B == {k \in i .. l : doc[k].ev = ev}
<1>1. IsFiniteSet(A) /\ Cardinality(A) \in Nat
  <2>1. IsFiniteSet(i .. j)
    BY FS_Interval
  <2>2. A \in SUBSET (i .. j)
    OBVIOUS
  <2> HIDE DEF A
  <2>3. QED
    BY <2>1, <2>2, FS_Subset, FS_CardinalityType
<1>2. l \notin A /\ B = IF doc[l].ev = ev THEN A \cup {l} ELSE A
  OBVIOUS
<1> HIDE DEF A, B
<1>3. Cardinality(B) = Cardinality(A) + (IF doc[l].ev = ev THEN 1 ELSE 0)
  <2>1. CASE doc[l].ev = ev
    <3>1. B = A \cup {l}
      BY <1>2, <2>1
    <3>2. Cardinality(B) = Cardinality(A) + 1
      BY <1>1, <1>2, <3>1, FS_AddElement
    <3>3. QED
      BY <2>1, <3>2
  <2>2. CASE doc[l].ev # ev
    BY <1>1, <1>2, <2>2
  <2>3. QED
    BY <2>1, <2>2
<1>4. Count(doc, ev, i, j) = Cardinality(A) /\ Count(doc, ev, i, l) = Cardinality(B)
  BY DEF Count, A, B
<1>5. QED
  BY <1>1, <1>3, <1>4

LEMMA AfterIs ==
  ASSUME NEW doc, NEW n \in Nat, n = Len(doc), NEW i \in Nat, NEW m \in i .. n,
         Count(doc, "start", i, m) = Count(doc, "end", i, m),
         \A j \in i .. m - 1 : Count(doc, "start", i, j) # Count(doc, "end", i, j)
  PROVE  After(doc, i) = m + 1
<1> DEFINE S == {j \in i .. Len(doc) : Count(doc, "start", i, j) = Count(doc, "end", i, j)}
<1>1. m \in S /\ S \subseteq Nat
  OBVIOUS
<1>2. ASSUME NEW j \in S
      PROVE  m <= j
  <2>1. j \in i .. n /\ ~(j \in i .. m - 1)
    OBVIOUS
  <2>2. QED
    BY <2>1
<1>3. After(doc, i) = 1 + Min(S)
  BY DEF After
<1> HIDE DEF S
<1>4. Min(S) = m
  <2>1. \E x \in S : \A y \in S : x =< y
    BY <1>1, <1>2
  <2>2. Min(S) \in S /\ \A y \in S : Min(S) =< y
    BY <2>1 DEF Min
  <2>3. Min(S) \in Nat /\ Min(S) <= m /\ m <= Min(S)
    BY <1>1, <1>2, <2>2
  <2>4. QED
    BY <2>3
<1>5. QED
  BY <1>3, <1>4

(* An element without anything in it, and one with another in it.           *)
LEMMA AfterLeaf ==
  ASSUME NEW doc, NEW n \in Nat, n = Len(doc), NEW i \in 1 .. n, i + 1 <= n,
         doc[i].ev = "start", doc[i + 1].ev = "end"
  PROVE  After(doc, i) = i + 2
<1>1. Count(doc, "start", i, i) = 1 /\ Count(doc, "end", i, i) = 0
  BY CountFirst
<1>2. Count(doc, "start", i, i + 1) = 1 /\ Count(doc, "end", i, i + 1) = 1
  <2>1. /\ Count(doc, "start", i, i + 1) =
             Count(doc, "start", i, i) + (IF doc[i + 1].ev = "start" THEN 1 ELSE 0)
        /\ Count(doc, "end", i, i + 1) =
             Count(doc, "end", i, i) + (IF doc[i + 1].ev = "end" THEN 1 ELSE 0)
    <3>1. i \in Nat /\ i <= i /\ i + 1 \in Nat
      OBVIOUS
    <3>2. QED
      BY <3>1, CountNext
  <2>2. QED
    BY <1>1, <2>1
<1>3. \A j \in i .. i + 1 - 1 : j = i
  OBVIOUS
<1>4. i + 1 \in i .. n /\ i + 1 + 1 = i + 2 /\ i \in Nat
  OBVIOUS
<1>5. After(doc, i) = i + 1 + 1
  BY <1>1, <1>2, <1>3, <1>4, AfterIs
<1>6. QED
  BY <1>4, <1>5

LEMMA AfterNested ==
  ASSUME NEW doc, NEW n \in Nat, n = Len(doc), NEW i \in 1 .. n, i + 3 <= n,
         doc[i].ev = "start", doc[i + 1].ev = "start",
         doc[i + 2].ev = "end", doc[i + 3].ev = "end"
  PROVE  After(doc, i) = i + 4
<1>0. /\ i + 1 + 1 = i + 2 /\ i + 2 + 1 = i + 3 /\ i + 3 + 1 = i + 4
      /\ i \in Nat /\ i + 1 \in Nat /\ i + 2 \in Nat /\ i + 3 \in i .. n
      /\ i <= i + 1 /\ i <= i + 2
  OBVIOUS
<1>1. Count(doc, "start", i, i) = 1 /\ Count(doc, "end", i, i) = 0
  BY CountFirst
<1>2. Count(doc, "start", i, i + 1) = 2 /\ Count(doc, "end", i, i + 1) = 0
  <2>1. /\ Count(doc, "start", i, i + 1) =
             Count(doc, "start", i, i) + (IF doc[i + 1].ev = "start" THEN 1 ELSE 0)
        /\ Count(doc, "end", i, i + 1) =
             Count(doc, "end", i, i) + (IF doc[i + 1].ev = "end" THEN 1 ELSE 0)
    <3>1. i \in Nat /\ i <= i /\ i + 1 \in Nat
      OBVIOUS
    <3>2. QED
      BY <3>1, CountNext
  <2>2. QED
    BY <1>1, <2>1
<1>3. Count(doc, "start", i, i + 2) = 2 /\ Count(doc, "end", i, i + 2) = 1
  <2>1. /\ Count(doc, "start", i, i + 2) =
             Count(doc, "start", i, i + 1) + (IF doc[i + 2].ev = "start" THEN 1 ELSE 0)
        /\ Count(doc, "end", i, i + 2) =
             Count(doc, "end", i, i + 1) + (IF doc[i + 2].ev = "end" THEN 1 ELSE 0)
    BY <1>0, CountNext
  <2>2. QED
    BY <1>2, <2>1
<1>4. Count(doc, "start", i, i + 3) = 2 /\ Count(doc, "end", i, i + 3) = 2
  <2>1. /\ Count(doc, "start", i, i + 3) =
             Count(doc, "start", i, i + 2) + (IF doc[i + 3].ev = "start" THEN 1 ELSE 0)
        /\ Count(doc, "end", i, i + 3) =
             Count(doc, "end", i, i + 2) + (IF doc[i + 3].ev = "end" THEN 1 ELSE 0)
    BY <1>0, CountNext
  <2>2. QED
    BY <1>0, <1>3, <2>1
<1>5. PICK m \in i .. n : m = i + 3
  BY <1>0
<1>6. Count(doc, "start", i, m) = Count(doc, "end", i, m)
  BY <1>4, <1>5
<1>7. ASSUME NEW j \in i .. m - 1
      PROVE  Count(doc, "start", i, j) # Count(doc, "end", i, j)
  <2>1. j = i \/ j = i + 1 \/ j = i + 2
    BY <1>5
  <2>2. QED
    BY <1>1, <1>2, <1>3, <2>1
<1>8. After(doc, i) = m + 1
  BY <1>0, <1>6, <1>7, AfterIs
<1>9. QED
  BY <1>5, <1>8

------------------------------------------------------------------------------
(* get_children: which names it finds.                                      *)
LEMMA Smallest ==
  ASSUME NEW S \in SUBSET Nat, S # {}
  PROVE  \E m \in S : \A l \in S : m <= l
<1>1. PICK m \in S : \A l \in S : ~(<<l, m>> \in OpToRel(<, Nat))
  BY NatLessThanWellFounded, WFMin
<1>2. ASSUME NEW l \in S
      PROVE  m <= l
  <2>1. ~(l < m)
    BY <1>1 DEF OpToRel
  <2>2. QED
    BY <2>1
<1>3. QED
  BY <1>2

(* Where the loop of get_children comes by: the elements of the children,   *)
(* at At(k), that of the interface, and the end of the root.                *)
At(p, k) == IF k <= p THEN 2 * k ELSE 2 * k + 4
Tops(n, p) == {At(p, k) : k \in 1 .. n} \cup {2 * p + 2, 2 * n + 6}

LEMMA TopsFollow ==
  ASSUME NEW n \in Nat, NEW p \in 0 .. n
  PROVE  /\ \A k \in 1 .. n : At(p, k) + 2 \in Tops(n, p) /\ At(p, k) + 2 <= 2 * n + 6
         /\ 2 * p + 6 \in Tops(n, p) /\ 2 \in Tops(n, p)
         /\ 2 * p + 3 \notin Tops(n, p) /\ 2 * p + 5 \notin Tops(n, p)
         /\ \A k \in 1 .. n : At(p, k) \in 2 .. 2 * n + 4
<1>1. ASSUME NEW k \in 1 .. n
      PROVE  /\ At(p, k) + 2 \in Tops(n, p) /\ At(p, k) + 2 <= 2 * n + 6
             /\ At(p, k) \in 2 .. 2 * n + 4
  <2>1. CASE k < p
    <3>1. k + 1 \in 1 .. n /\ At(p, k) + 2 = At(p, k + 1)
      BY <2>1 DEF At
    <3>2. At(p, k) + 2 \in Tops(n, p)
      BY <3>1 DEF Tops
    <3>3. QED
      BY <2>1, <3>2 DEF At
  <2>2. CASE k = p
    BY <2>2 DEF At, Tops
  <2>3. CASE k > p /\ k < n
    <3>1. k + 1 \in 1 .. n /\ At(p, k) + 2 = At(p, k + 1)
      BY <2>3 DEF At
    <3>2. At(p, k) + 2 \in Tops(n, p)
      BY <3>1 DEF Tops
    <3>3. QED
      BY <2>3, <3>2 DEF At
  <2>4. CASE k > p /\ k = n
    BY <2>4 DEF At, Tops
  <2>5. QED
    BY <2>1, <2>2, <2>3, <2>4
<1>2. 2 * p + 6 \in Tops(n, p)
  <2>1. CASE p < n
    <3>1. p + 1 \in 1 .. n /\ 2 * p + 6 = At(p, p + 1)
      BY <2>1 DEF At
    <3>2. QED
      BY <3>1 DEF Tops
  <2>2. CASE p = n
    BY <2>2 DEF Tops
  <2>3. QED
    BY <2>1, <2>2
<1>3. 2 \in Tops(n, p)
  <2>1. CASE p > 0
    <3>1. 1 \in 1 .. n /\ 2 = At(p, 1)
      BY <2>1 DEF At
    <3>2. QED
      BY <3>1 DEF Tops
  <2>2. CASE p = 0
    BY <2>2 DEF Tops
  <2>3. QED
    BY <2>1, <2>2
<1>4. 2 * p + 3 \notin Tops(n, p) /\ 2 * p + 5 \notin Tops(n, p)
  BY DEF Tops, At
<1>5. QED
  BY <1>1, <1>2, <1>3, <1>4

(* What the children from such a place on are.                              *)
Rest(cs, n, p, i) == {cs[k] : k \in {l \in 1 .. n : i <= At(p, l)}}

LEMMA RestShrinks ==
  ASSUME NEW cs, NEW n \in Nat, NEW p \in 0 .. n
  PROVE  /\ \A k \in 1 .. n : Rest(cs, n, p, At(p, k)) = {cs[k]} \cup Rest(cs, n, p, At(p, k) + 2)
         /\ Rest(cs, n, p, 2 * p + 2) = Rest(cs, n, p, 2 * p + 6)
         /\ Rest(cs, n, p, 2 * n + 6) = {}
<1>1. ASSUME NEW k \in 1 .. n
      PROVE  Rest(cs, n, p, At(p, k)) = {cs[k]} \cup Rest(cs, n, p, At(p, k) + 2)
  <2>1. {l \in 1 .. n : At(p, k) <= At(p, l)} = {k} \cup {l \in 1 .. n : At(p, k) + 2 <= At(p, l)}
    BY DEF At
  <2>2. QED
    BY <2>1 DEF Rest
<1>2. {l \in 1 .. n : 2 * p + 2 <= At(p, l)} = {l \in 1 .. n : 2 * p + 6 <= At(p, l)}
  BY DEF At
<1>3. {l \in 1 .. n : 2 * n + 6 <= At(p, l)} = {}
  BY DEF At
<1>4. QED
  BY <1>1, <1>2, <1>3 DEF Rest

(* Every event the reader comes by is an end, or the start of an element    *)
(* that ends within the document.                                           *)
ComesBy(doc, cs, n, p, i) ==
  \/ doc[i].ev = "end" /\ (i \in Tops(n, p) => i = 2 * n + 6)
  \/ \E k \in 1 .. n :
       /\ i = At(p, k) /\ doc[i] = Start("node", cs[k])
       /\ After(doc, i) = At(p, k) + 2
  \/ /\ i = 2 * p + 2 /\ doc[i] = Start("interface", None)
     /\ After(doc, i) = 2 * p + 6
  \/ /\ i = 2 * p + 3 /\ doc[i] = Start("property", None)
     /\ After(doc, i) = 2 * p + 5

LEMMA DocumentEvents ==
  ASSUME NEW cs \in Seq(Object), NEW n \in Nat, n = Len(cs), NEW p \in 0 .. n,
         NEW doc, doc = Document(cs, p), NEW i \in 2 .. 2 * n + 6
  PROVE  ComesBy(doc, cs, n, p, i)
<1> USE DEF ComesBy
<1> DEFINE len == 2 * n + 6
<1>1. /\ len = Len(doc) /\ len \in Nat
      /\ \A k \in 1 .. p : doc[2 * k] = Start("node", cs[k]) /\ doc[2 * k + 1] = Stop("node")
      /\ doc[2 * p + 2] = Start("interface", None) /\ doc[2 * p + 3] = Start("property", None)
      /\ doc[2 * p + 4] = Stop("property") /\ doc[2 * p + 5] = Stop("interface")
      /\ \A k \in p + 1 .. n : doc[2 * k + 4] = Start("node", cs[k]) /\ doc[2 * k + 5] = Stop("node")
      /\ doc[len] = Stop("node")
  <2>1. len \in Nat
    OBVIOUS
  <2>2. QED
    BY <2>1, DocumentShape
<1>2. \A el, of : Start(el, of).ev = "start" /\ Stop(el).ev = "end"
  BY DEF Start, Stop
<1>3. PICK h \in 1 .. n + 3 : i = 2 * h \/ i = 2 * h + 1
  <2>1. i \div 2 \in 1 .. n + 3 /\ (i = 2 * (i \div 2) \/ i = 2 * (i \div 2) + 1)
    OBVIOUS
  <2>2. QED
    BY <2>1
<1> HIDE DEF len
<1>4. CASE h <= p /\ i = 2 * h
  <2>1. h \in 1 .. p /\ h \in 1 .. n /\ i \in 1 .. len /\ i + 1 <= len /\ i + 1 = 2 * h + 1
    BY <1>4 DEF len
  <2>2. doc[i] = Start("node", cs[h]) /\ doc[i + 1] = Stop("node")
    BY <1>1, <1>4, <2>1
  <2>3. After(doc, i) = i + 2
    <3>1. doc[i].ev = "start" /\ doc[i + 1].ev = "end" /\ len = Len(doc) /\ len \in Nat
      BY <1>1, <1>2, <2>2
    <3>2. QED
      BY <2>1, <3>1, AfterLeaf
  <2>4. i = At(p, h)
    BY <1>4 DEF At
  <2>5. QED
    BY <2>1, <2>2, <2>3, <2>4
<1>5. CASE h > p + 2 /\ h < n + 3 /\ i = 2 * h
  <2>1. PICK k \in p + 1 .. n : k = h - 2
    BY <1>5
  <2>2. k \in 1 .. n /\ i = 2 * k + 4 /\ i + 1 = 2 * k + 5 /\ i \in 1 .. len /\ i + 1 <= len
    BY <1>5, <2>1 DEF len
  <2>3. doc[i] = Start("node", cs[k]) /\ doc[i + 1] = Stop("node")
    BY <1>1, <2>1, <2>2
  <2>4. After(doc, i) = i + 2
    <3>1. doc[i].ev = "start" /\ doc[i + 1].ev = "end" /\ len = Len(doc) /\ len \in Nat
      BY <1>1, <1>2, <2>3
    <3>2. QED
      BY <2>2, <3>1, AfterLeaf
  <2>5. i = At(p, k)
    BY <2>1, <2>2 DEF At
  <2>6. QED
    BY <2>2, <2>3, <2>4, <2>5
<1>6. CASE h = p + 1 /\ i = 2 * h
  <2>1. /\ i = 2 * p + 2 /\ i + 1 = 2 * p + 3 /\ i + 2 = 2 * p + 4 /\ i + 3 = 2 * p + 5
        /\ i + 4 = 2 * p + 6 /\ i \in 1 .. len /\ i + 3 <= len
    BY <1>6 DEF len
  <2>2. /\ doc[i] = Start("interface", None) /\ doc[i + 1] = Start("property", None)
        /\ doc[i + 2] = Stop("property") /\ doc[i + 3] = Stop("interface")
    BY <1>1, <2>1
  <2>3. After(doc, i) = i + 4
    <3>1. /\ doc[i].ev = "start" /\ doc[i + 1].ev = "start" /\ doc[i + 2].ev = "end"
          /\ doc[i + 3].ev = "end" /\ len = Len(doc) /\ len \in Nat
      BY <1>1, <1>2, <2>2
    <3>2. QED
      BY <2>1, <3>1, AfterNested
  <2>4. QED
    BY <2>1, <2>2, <2>3
<1>7. CASE h = p + 1 /\ i = 2 * h + 1
  <2>1. /\ i = 2 * p + 3 /\ i + 1 = 2 * p + 4 /\ i + 2 = 2 * p + 5
        /\ i \in 1 .. len /\ i + 1 <= len
    BY <1>7 DEF len
  <2>2. doc[i] = Start("property", None) /\ doc[i + 1] = Stop("property")
    BY <1>1, <2>1
  <2>3. After(doc, i) = i + 2
    <3>1. doc[i].ev = "start" /\ doc[i + 1].ev = "end" /\ len = Len(doc) /\ len \in Nat
      BY <1>1, <1>2, <2>2
    <3>2. QED
      BY <2>1, <3>1, AfterLeaf
  <2>4. QED
    BY <2>1, <2>2, <2>3
<1>8. CASE i = 2 * h + 1 /\ h # p + 1
  <2>1. i \notin Tops(n, p)
    BY <1>8 DEF Tops, At
  <2>2. doc[i].ev = "end"
    <3>1. CASE h <= p
      <4>1. h \in 1 .. p
        BY <3>1
      <4>2. QED
        BY <1>1, <1>2, <1>8, <4>1
    <3>2. CASE h = p + 2
      <4>1. i = 2 * p + 5
        BY <1>8, <3>2
      <4>2. QED
        BY <1>1, <1>2, <4>1
    <3>3. CASE h > p + 2
      <4>1. PICK k \in p + 1 .. n : k = h - 2
        BY <1>8, <3>3
      <4>2. i = 2 * k + 5
        BY <1>8, <4>1
      <4>3. QED
        BY <1>1, <1>2, <4>1, <4>2
    <3>4. QED
      BY <1>8, <3>1, <3>2, <3>3
  <2>3. QED
    BY <2>1, <2>2
<1>9. CASE h = p + 2 /\ i = 2 * h
  <2>1. i = 2 * p + 4 /\ (i \in Tops(n, p) => i = 2 * n + 6)
    BY <1>9 DEF Tops, At
  <2>2. QED
    BY <1>1, <1>2, <2>1
<1>10. CASE h = n + 3 /\ i = 2 * h
  <2>1. i = len /\ i = 2 * n + 6
    BY <1>10 DEF len
  <2>2. QED
    BY <1>1, <1>2, <2>1
<1>11. QED
  BY <1>3, <1>4, <1>5, <1>6, <1>7, <1>8, <1>9, <1>10

All(cs, n) == {cs[k] : k \in 1 .. n}

(* Of such a document the loop of get_children is a function of the place   *)
(* it has come to, and takes the names from there on.                       *)
LEMMA LoopTakesNames ==
  ASSUME NEW doc, NEW cs, NEW n \in Nat, NEW p \in 0 .. n, Len(doc) = 2 * n + 6,
         \A i \in 2 .. 2 * n + 6 : ComesBy(doc, cs, n, p, i)
  PROVE  NamesIn(doc) = All(cs, n)
<1> DEFINE Step(g, i) ==
             IF doc[i].ev = "end" THEN {}
             ELSE (IF doc[i].el = "node" THEN {doc[i].of} ELSE {}) \cup g[After(doc, i)]
           Want(i) == IF i \in Tops(n, p) THEN Rest(cs, n, p, i) ELSE {}
           want == [i \in 2 .. Len(doc) |-> Want(i)]
           from == CHOOSE g : g = [i \in 2 .. Len(doc) |-> Step(g, i)]
<1>3. NamesIn(doc) = from[2]
  BY DEF NamesIn
<1>r. /\ \A k \in 1 .. n : Rest(cs, n, p, At(p, k)) = {cs[k]} \cup Rest(cs, n, p, At(p, k) + 2)
      /\ Rest(cs, n, p, 2 * p + 2) = Rest(cs, n, p, 2 * p + 6)
      /\ Rest(cs, n, p, 2 * n + 6) = {}
  BY RestShrinks
<1>4. ASSUME NEW i \in 2 .. 2 * n + 6
      PROVE  \/ \A g : Step(g, i) = {} /\ Want(i) = {}
             \/ /\ After(doc, i) \in i + 1 .. 2 * n + 6
                /\ \A g : g[After(doc, i)] = Want(After(doc, i)) => Step(g, i) = Want(i)
  <2> DEFINE ends == doc[i].ev = "end" /\ (i \in Tops(n, p) => i = 2 * n + 6)
             node(k) == /\ i = At(p, k) /\ doc[i] = Start("node", cs[k])
                        /\ After(doc, i) = At(p, k) + 2
             interface == /\ i = 2 * p + 2 /\ doc[i] = Start("interface", None)
                          /\ After(doc, i) = 2 * p + 6
             property == /\ i = 2 * p + 3 /\ doc[i] = Start("property", None)
                         /\ After(doc, i) = 2 * p + 5
  <2>1. ends \/ (\E k \in 1 .. n : node(k)) \/ interface \/ property
    BY DEF ComesBy
  <2>2. CASE ends
    <3>1. Rest(cs, n, p, 2 * n + 6) = {}
      BY <1>r
    <3>2. QED
      BY <2>2, <3>1
  <2>3. ASSUME NEW k \in 1 .. n, node(k)
        PROVE  /\ After(doc, i) \in i + 1 .. 2 * n + 6
               /\ \A g : g[After(doc, i)] = Want(After(doc, i)) => Step(g, i) = Want(i)
    <3>1. /\ At(p, k) \in Tops(n, p) /\ At(p, k) + 2 \in Tops(n, p)
          /\ At(p, k) + 2 <= 2 * n + 6 /\ At(p, k) \in 2 .. 2 * n + 4
      BY TopsFollow DEF Tops
    <3>2. Rest(cs, n, p, i) = {cs[k]} \cup Rest(cs, n, p, After(doc, i))
      BY <2>3, <1>r
    <3>3. doc[i].ev = "start" /\ doc[i].el = "node" /\ doc[i].of = cs[k]
      BY <2>3 DEF Start
    <3>4. After(doc, i) \in i + 1 .. 2 * n + 6
      BY <2>3, <3>1
    <3>5. Want(i) = {cs[k]} \cup Want(After(doc, i))
      BY <2>3, <3>1, <3>2
    <3> HIDE DEF Want
    <3>6. QED
      BY <3>3, <3>4, <3>5
  <2>4. CASE interface
    <3>1. 2 * p + 2 \in Tops(n, p) /\ 2 * p + 6 \in Tops(n, p)
      BY TopsFollow DEF Tops
    <3>2. Rest(cs, n, p, 2 * p + 2) = Rest(cs, n, p, 2 * p + 6)
      BY <1>r
    <3>3. doc[i].ev = "start" /\ doc[i].el = "interface"
      BY <2>4 DEF Start
    <3>4. After(doc, i) \in i + 1 .. 2 * n + 6
      BY <2>4
    <3>5. Want(i) = Want(After(doc, i))
      BY <2>4, <3>1, <3>2
    <3> HIDE DEF Want
    <3>6. QED
      BY <3>3, <3>4, <3>5
  <2>5. CASE property
    <3>1. 2 * p + 3 \notin Tops(n, p) /\ 2 * p + 5 \notin Tops(n, p)
      BY TopsFollow
    <3>3. doc[i].ev = "start" /\ doc[i].el = "property"
      BY <2>5 DEF Start
    <3>4. After(doc, i) \in i + 1 .. 2 * n + 6
      BY <2>5
    <3>5. Want(i) = {} /\ Want(After(doc, i)) = {}
      BY <2>5, <3>1
    <3> HIDE DEF Want
    <3>6. QED
      BY <3>3, <3>4, <3>5
  <2>6. QED
    BY <2>1, <2>2, <2>3, <2>4, <2>5
<1> HIDE DEF Step, Want
<1>5. want = [i \in 2 .. Len(doc) |-> Step(want, i)]
  <2>1. ASSUME NEW i \in 2 .. Len(doc)
        PROVE  Want(i) = Step(want, i)
    <3>1. CASE \A g : Step(g, i) = {} /\ Want(i) = {}
      BY <3>1
    <3>2. CASE /\ After(doc, i) \in i + 1 .. 2 * n + 6
               /\ \A g : g[After(doc, i)] = Want(After(doc, i)) => Step(g, i) = Want(i)
      <4>1. After(doc, i) \in 2 .. Len(doc)
        BY <3>2
      <4>2. want[After(doc, i)] = Want(After(doc, i))
        BY <4>1
      <4>3. QED
        BY <3>2, <4>2
    <3>3. QED
      BY <1>4, <3>1, <3>2
  <2>2. QED
    BY <2>1
<1> HIDE DEF want
<1>6. from = [i \in 2 .. Len(doc) |-> Step(from, i)]
  BY <1>5, Zenon
<1> HIDE DEF from
<1>7. ASSUME NEW i \in 2 .. 2 * n + 6
      PROVE  from[i] = Want(i)
  <2> DEFINE Bad == {m \in Nat : \E j \in 2 .. 2 * n + 6 : m = 2 * n + 6 - j /\ from[j] # Want(j)}
  <2>1. SUFFICES Bad = {}
    <3>1. 2 * n + 6 - i \in Nat
      OBVIOUS
    <3>2. QED
      BY <2>1, <3>1
  <2>2. SUFFICES ASSUME Bad # {} PROVE FALSE
    OBVIOUS
  <2>3. PICK m \in Bad : \A l \in Bad : m <= l
    BY <2>2, Smallest
  <2>4. PICK j \in 2 .. 2 * n + 6 : m = 2 * n + 6 - j /\ from[j] # Want(j)
    BY <2>3
  <2>5. from[j] = Step(from, j)
    BY <1>6
  <2>6. /\ After(doc, j) \in j + 1 .. 2 * n + 6
        /\ \A g : g[After(doc, j)] = Want(After(doc, j)) => Step(g, j) = Want(j)
    BY <1>4, <2>4, <2>5
  <2>7. from[After(doc, j)] # Want(After(doc, j))
    BY <2>4, <2>5, <2>6
  <2>8. PICK a \in 2 .. 2 * n + 6 : a = After(doc, j) /\ a > j /\ from[a] # Want(a)
    BY <2>6, <2>7
  <2>9. 2 * n + 6 - a \in Bad
    <3>1. 2 * n + 6 - a \in Nat
      OBVIOUS
    <3>2. QED
      BY <2>8, <3>1
  <2>10. m <= 2 * n + 6 - a
    BY <2>3, <2>9
  <2>11. QED
    BY <2>4, <2>8, <2>10
<1>8. from[2] = Rest(cs, n, p, 2)
  <2>1. 2 \in 2 .. 2 * n + 6 /\ 2 \in Tops(n, p)
    BY TopsFollow
  <2>2. QED
    BY <1>7, <2>1 DEF Want
<1>9. {l \in 1 .. n : 2 <= At(p, l)} = 1 .. n
  BY DEF At
<1>10. QED
  BY <1>3, <1>8, <1>9 DEF Rest, All

(* get_children finds all children BlueZ named and no other, wherever the   *)
(* interface stands among them.                                             *)
LEMMA NamesOfDocument ==
  ASSUME NEW cs \in Seq(Object), NEW n \in Nat, n = Len(cs), NEW p \in 0 .. n
  PROVE  NamesIn(Document(cs, p)) = All(cs, n)
<1>1. PICK doc : doc = Document(cs, p)
  OBVIOUS
<1>2. Len(doc) = 2 * n + 6
  BY <1>1, DocumentShape
<1>3. \A i \in 2 .. 2 * n + 6 : ComesBy(doc, cs, n, p, i)
  BY <1>1, DocumentEvents
<1>4. QED
  BY <1>1, <1>2, <1>3, LoopTakesNames

(* BlueZ names the children it has, each once.                              *)
LEMMA NamesAreChildren ==
  ASSUME present \subseteq Object, NEW o, NEW doc \in Documents(o)
  PROVE  NamesIn(doc) = Children(o) \cap present
<1> DEFINE there == {c \in Children(o) : c \in present}
<1>1. there \subseteq Object /\ IsFiniteSet(there) /\ there = Children(o) \cap present
  BY RootType, FS_Subset
<1>2. PICK cs \in SetToSeqs(there), p \in 0 .. Cardinality(there) : doc = Document(cs, p)
  BY DEF Documents
<1> HIDE DEF there
<1>3. PICK n \in Nat : n = Cardinality(there)
  BY <1>1, FS_CardinalityType
<1>4. cs \in [1 .. n -> there] /\ \A i, j \in 1 .. n : i # j => cs[i] # cs[j]
  BY <1>2, <1>3 DEF SetToSeqs
<1>5. cs \in Seq(Object) /\ n = Len(cs)
  BY <1>1, <1>4
<1>6. NamesIn(doc) = All(cs, n)
  BY <1>2, <1>3, <1>5, NamesOfDocument
<1>7. cs \in Surjection(1 .. n, there)
  <2>1. cs \in Injection(1 .. n, there)
    BY <1>4 DEF Injection, IsInjective
  <2>2. IsFiniteSet(1 .. n) /\ Cardinality(1 .. n) = n
    <3>1. 1 \in Int /\ n \in Int
      OBVIOUS
    <3>2. IsFiniteSet(1 .. n) /\ Cardinality(1 .. n) = IF 1 > n THEN 0 ELSE n - 1 + 1
      BY <3>1, FS_Interval
    <3>3. QED
      BY <3>2
  <2>3. QED
    BY <1>1, <1>3, <2>1, <2>2, FS_Injection
<1>8. All(cs, n) = there
  BY <1>4, <1>7 DEF Surjection, All
<1>9. QED
  BY <1>1, <1>6, <1>8

------------------------------------------------------------------------------
(* The invariant holds in the beginning, and every step keeps it.           *)
LEMMA TargetsAreObjects ==
  ASSUME NEW o, o.do # "none" => o.at \in Object
  PROVE  Targets(o) \subseteq Object
BY IncludedType DEF Targets, Children

LEMMA IdleHasNoTargets == Targets(Idle) = {} /\ Idle.do = "none"
BY DEF Targets, Idle

LEMMA OpOfObject ==
  ASSUME IInv
  PROVE  /\ op.do # "none" => op.at \in held /\ op.at \in Object
         /\ Targets(op) \subseteq Object
<1>1. op.do # "none" => op.at \in held /\ op.at \in Object
  BY RootType DEF IInv, TypeOK, OpInv
<1>2. QED
  BY <1>1, TargetsAreObjects

LEMMA InitIInv == Init => IInv
<1> SUFFICES ASSUME Init PROVE IInv
  OBVIOUS
<1> USE DEF Init
<1>1. TypeOK
  <2>1. \A o \in present : Parent[o] # None => Parent[o] \in present
    BY ParentType
  <2>2. op \in [do : Doing, at : held \cup {None}, want : Wanted \cup {NoId}, stage : {"ask", "get"},
                left : SUBSET Targets(op), found : SUBSET Targets(op)]
    BY DEF Idle, Doing
  <2>3. result \in [how : Endings, set : SUBSET Object]
    BY DEF Nothing, Endings
  <2>4. queue \in Seq(Datagram) /\ Len(queue) <= SockCap /\ unread \in Seq(Datagram)
    BY SockCapType
  <2>5. QED
    BY <2>1, <2>2, <2>3, <2>4, RootType DEF TypeOK
<1>2. OpInv /\ FoundInv
  BY IdleHasNoTargets DEF OpInv, FoundInv, Idle
<1>3. HistoryInv
  BY IdleHasNoTargets DEF HistoryInv
<1>4. QueueInv
  BY DEF QueueInv
<1>5. QED
  BY <1>1, <1>2, <1>3, <1>4 DEF IInv

(* When an operation ends, with whatever is found, nothing is left of it.   *)
LEMMA EndsKeepsIInv ==
  ASSUME IInv, NEW how \in Endings, NEW set \in SUBSET Object,
         Ends(how, set), UNCHANGED <<present, socket, conn>>
  PROVE  IInv'
<1> USE DEF Ends
<1>1. op' = Idle /\ Targets(op') = {} /\ op'.do = "none"
  BY IdleHasNoTargets
<1>2. TypeOK'
  <2>1. op' \in [do : Doing, at : held' \cup {None}, want : Wanted \cup {NoId}, stage : {"ask", "get"},
                 left : SUBSET Targets(op'), found : SUBSET Targets(op')]
    BY <1>1 DEF Idle, Doing
  <2>2. result' \in [how : Endings, set : SUBSET Object]
    OBVIOUS
  <2>3. QED
    BY <2>1, <2>2 DEF IInv, TypeOK, socket
<1>3. OpInv' /\ FoundInv' /\ HistoryInv'
  BY <1>1 DEF OpInv, FoundInv, HistoryInv, Idle
<1>4. QueueInv'
  BY DEF IInv, QueueInv, socket
<1>5. QED
  BY <1>2, <1>3, <1>4 DEF IInv

(* A search under way keeps it, if it loses nothing that stays and adds     *)
(* only what is there and fits.                                             *)
LEMMA SearchKeepsIInv ==
  ASSUME IInv, UNCHANGED <<present, held, history, result, socket, conn>>,
         NEW left \in SUBSET Targets(op), NEW found \in SUBSET Targets(op),
         op.do \in {"all", "one", "includes"},
         op' = [op EXCEPT !.stage = "get", !.left = left, !.found = found],
         found \subseteq {c \in seen : Suits(c)},
         {c \in steady : Suits(c)} \subseteq left \cup found,
         op.do = "one" => \A c \in found : Id[c] # op.want
  PROVE  IInv'
<1>1. op \in [do : Doing, at : held \cup {None}, want : Wanted \cup {NoId}, stage : {"ask", "get"},
              left : SUBSET Targets(op), found : SUBSET Targets(op)]
  BY DEF IInv, TypeOK
<1>2. /\ op' \in [do : Doing, at : held \cup {None}, want : Wanted \cup {NoId}, stage : {"ask", "get"},
                  left : SUBSET Targets(op), found : SUBSET Targets(op)]
      /\ op'.do = op.do /\ op'.at = op.at /\ op'.want = op.want /\ op'.stage = "get"
      /\ op'.left = left /\ op'.found = found
  BY <1>1
<1>3. Targets(op') = Targets(op)
  BY <1>2 DEF Targets
<1>4. TypeOK'
  BY <1>2, <1>3 DEF IInv, TypeOK, socket, history
<1>5. OpInv'
  BY <1>2 DEF IInv, OpInv
<1>6. HistoryInv'
  BY <1>3 DEF IInv, HistoryInv, history
<1>7. FoundInv'
  BY <1>2 DEF FoundInv, history, Suits
<1>8. QueueInv'
  BY DEF IInv, QueueInv, socket
<1>9. QED
  BY <1>4, <1>5, <1>6, <1>7, <1>8 DEF IInv

LEMMA BeginKeepsIInv ==
  ASSUME IInv, NEW o \in Object, NEW want \in Wanted \cup {NoId}, NEW do \in Offers(o),
         Begin(o, do, want)
  PROVE  IInv'
<1>1. /\ op' = [do |-> do, at |-> o, want |-> want, stage |-> "ask", left |-> {}, found |-> {}]
      /\ o \in held /\ (do \in {"one", "direct"} => want \in Wanted)
      /\ steady' = Targets(op') \cap present /\ seen' = steady'
      /\ result' = Nothing /\ UNCHANGED <<tree, socket, conn>>
  BY DEF Begin, Idle
<1>2. do \in {"all", "one", "includes", "names", "direct"}
  BY DEF Offers
<1>3. o # None
  BY RootType
<1>4. Targets(op') \subseteq Object
  BY <1>1, TargetsAreObjects
<1>5. TypeOK'
  <2>1. op' \in [do : Doing, at : held' \cup {None}, want : Wanted \cup {NoId}, stage : {"ask", "get"},
                 left : SUBSET Targets(op'), found : SUBSET Targets(op')]
    BY <1>1, <1>2 DEF Doing, tree
  <2>2. result' \in [how : Endings, set : SUBSET Object]
    BY <1>1 DEF Nothing, Endings
  <2>3. QED
    BY <1>1, <1>4, <2>1, <2>2 DEF IInv, TypeOK, tree, socket
<1>6. OpInv'
  BY <1>1, <1>2, <1>3 DEF OpInv
<1>7. HistoryInv'
  BY <1>1 DEF HistoryInv, tree
<1>8. FoundInv'
  BY <1>1 DEF FoundInv
<1>9. QueueInv'
  BY <1>1 DEF IInv, QueueInv, socket
<1>10. QED
  BY <1>5, <1>6, <1>7, <1>8, <1>9 DEF IInv

(* The children with the right prefix are the targets that are there.       *)
LEMMA FittingAreTargets ==
  ASSUME IInv, op.do \in {"all", "one", "names"}, NEW doc \in Documents(op.at)
  PROVE  {c \in NamesIn(doc) : Fits(c)} = Targets(op) \cap present
<1>1. NamesIn(doc) = Children(op.at) \cap present
  BY NamesAreChildren DEF IInv, TypeOK
<1>2. QED
  BY <1>1 DEF Fits, Targets

LEMMA IntrospectedKeepsIInv ==
  ASSUME IInv, Introspected
  PROVE  IInv'
<1>1. UNCHANGED <<present, socket, conn>> /\ op.do \in {"all", "one", "names"} /\ op.stage = "ask"
  BY DEF Introspected
<1>2. CASE op.at \notin present
  <2>1. Ends("panic", {})
    BY <1>2 DEF Introspected
  <2>2. QED
    BY <1>1, <2>1, EndsKeepsIInv DEF Endings
<1>3. CASE op.at \in present
  <2>1. PICK doc \in Documents(op.at) :
          IF op.do = "names" THEN Ends("ok", {c \in {d \in NamesIn(doc) : Fits(d)} : Id[c] # NoId})
          ELSE Tell({c \in NamesIn(doc) : Fits(c)})
    BY <1>3 DEF Introspected
  <2>2. PICK fitting \in SUBSET Object :
          /\ fitting = {c \in NamesIn(doc) : Fits(c)} /\ fitting = Targets(op) \cap present
    BY <1>1, FittingAreTargets, OpOfObject
  <2>3. CASE op.do = "names"
    <3>1. PICK set \in SUBSET Object : set = {c \in fitting : Id[c] # NoId}
      OBVIOUS
    <3>2. Ends("ok", set)
      BY <2>1, <2>2, <2>3, <3>1
    <3>3. QED
      BY <1>1, <3>2, EndsKeepsIInv DEF Endings
  <2>4. CASE op.do # "names"
    <3>1. Tell(fitting)
      BY <2>1, <2>2, <2>4
    <3>2. op.found = {} /\ op \in [do : Doing, at : held \cup {None}, want : Wanted \cup {NoId},
                                   stage : {"ask", "get"}, left : SUBSET Targets(op),
                                   found : SUBSET Targets(op)]
      BY <1>1 DEF IInv, OpInv, TypeOK
    <3>3. op' = [op EXCEPT !.stage = "get", !.left = fitting, !.found = {}]
      BY <3>1, <3>2 DEF Tell
    <3>4. steady \subseteq fitting
      BY <2>2 DEF IInv, HistoryInv
    <3>5. QED
      BY <1>1, <2>2, <2>4, <3>1, <3>3, <3>4, SearchKeepsIInv DEF Tell
  <2>5. QED
    BY <2>3, <2>4
<1>4. QED
  BY <1>2, <1>3

LEMMA IncludesToldKeepsIInv ==
  ASSUME IInv, IncludesTold
  PROVE  IInv'
<1>1. UNCHANGED <<present, socket, conn>> /\ op.do = "includes" /\ op.stage = "ask"
  BY DEF IncludesTold
<1>2. CASE Ends("err", {})
  BY <1>1, <1>2, EndsKeepsIInv DEF Endings
<1>3. CASE Tell(Included[op.at])
  <2>1. Targets(op) = Included[op.at] /\ Targets(op) \in SUBSET Targets(op)
    BY <1>1 DEF Targets
  <2>2. op.found = {} /\ op \in [do : Doing, at : held \cup {None}, want : Wanted \cup {NoId},
                                 stage : {"ask", "get"}, left : SUBSET Targets(op),
                                 found : SUBSET Targets(op)]
    BY <1>1 DEF IInv, OpInv, TypeOK
  <2>3. op' = [op EXCEPT !.stage = "get", !.left = Targets(op), !.found = {}]
    BY <1>3, <2>1, <2>2 DEF Tell
  <2>4. steady \subseteq Targets(op)
    BY DEF IInv, HistoryInv
  <2>5. QED
    BY <1>1, <1>3, <2>1, <2>3, <2>4, SearchKeepsIInv DEF Tell
<1>4. QED
  BY <1>2, <1>3 DEF IncludesTold

LEMMA AddressToldKeepsIInv ==
  ASSUME IInv, AddressTold
  PROVE  IInv'
<1>1. UNCHANGED <<present, socket, conn>>
  BY DEF AddressTold
<1>2. \/ \E c \in present \cap Targets(op) : Ends("ok", {c})
      \/ Ends("err", {}) \/ Ends("unknown", {})
  BY DEF AddressTold
<1>3. ASSUME NEW c \in present \cap Targets(op), Ends("ok", {c})
      PROVE  IInv'
  <2>1. {c} \in SUBSET Object
    BY OpOfObject
  <2>2. QED
    BY <1>1, <1>3, <2>1, EndsKeepsIInv DEF Endings
<1>4. QED
  BY <1>1, <1>2, <1>3, EndsKeepsIInv DEF Endings

LEMMA LookedUpKeepsIInv ==
  ASSUME IInv, LookedUp
  PROVE  IInv'
<1>1. UNCHANGED <<present, socket, conn>> /\ op.do \in {"all", "one", "includes"}
  BY DEF LookedUp, IInv, OpInv
<1>2. PICK c \in op.left : Missing(c) \/ Found(c)
  BY DEF LookedUp
<1>3. op \in [do : Doing, at : held \cup {None}, want : Wanted \cup {NoId}, stage : {"ask", "get"},
              left : SUBSET Targets(op), found : SUBSET Targets(op)]
  BY DEF IInv, TypeOK
<1>4. c \in Targets(op) /\ c \in Object
  BY <1>2, <1>3, OpOfObject
<1>5. /\ op.found \subseteq {d \in seen : Suits(d)}
      /\ {d \in steady : Suits(d)} \subseteq op.left \cup op.found
      /\ op.do = "one" => \A d \in op.found : Id[d] # op.want
      /\ op.stage = "get"
  BY DEF IInv, FoundInv, LookedUp
<1>6. steady \subseteq present /\ present \cap Targets(op) \subseteq seen
  BY DEF IInv, HistoryInv
<1>7. PICK left \in SUBSET Targets(op) : left = op.left \ {c}
  BY <1>3
<1>8. CASE Missing(c)
  <2>1. CASE op.do = "includes"
    <3>1. Ends("err", {})
      BY <1>8, <2>1 DEF Missing
    <3>2. QED
      BY <1>1, <3>1, EndsKeepsIInv DEF Endings
  <2>2. CASE op.do # "includes"
    <3>1. /\ op' = [op EXCEPT !.left = op.left \ {c}] /\ UNCHANGED <<held, history, result>>
          /\ c \notin present \/ Id[c] = NoId
      BY <1>8, <2>2 DEF Missing, Answers
    <3>2. op' = [op EXCEPT !.stage = "get", !.left = left, !.found = op.found]
      BY <1>3, <1>5, <1>7, <3>1
    <3>3. {d \in steady : Suits(d)} \subseteq left \cup op.found
      BY <1>5, <1>6, <1>7, <3>1 DEF Suits
    <3>4. op.found \in SUBSET Targets(op)
      BY <1>3
    <3>5. QED
      BY <1>1, <1>5, <3>1, <3>2, <3>3, <3>4, SearchKeepsIInv
  <2>3. QED
    BY <2>1, <2>2
<1>9. CASE Found(c)
  <2>1. CASE op.do = "one" /\ Id[c] = op.want
    <3>1. Ends("ok", {c})
      BY <1>9, <2>1 DEF Found
    <3>2. QED
      BY <1>1, <1>4, <3>1, EndsKeepsIInv DEF Endings
  <2>2. CASE ~(op.do = "one" /\ Id[c] = op.want)
    <3>1. /\ op' = [op EXCEPT !.left = op.left \ {c}, !.found = op.found \cup {c}]
          /\ UNCHANGED <<held, history, result>> /\ c \in present /\ Id[c] # NoId
      BY <1>9, <2>2 DEF Found, Answers
    <3>2. PICK found \in SUBSET Targets(op) : found = op.found \cup {c}
      BY <1>3, <1>4
    <3>3. op' = [op EXCEPT !.stage = "get", !.left = left, !.found = found]
      BY <1>3, <1>5, <1>7, <3>1, <3>2
    <3>4. {d \in steady : Suits(d)} \subseteq left \cup found
      BY <1>5, <1>7, <3>2
    <3>5. found \subseteq {d \in seen : Suits(d)}
      BY <1>4, <1>5, <1>6, <3>1, <3>2 DEF Suits
    <3>6. op.do = "one" => \A d \in found : Id[d] # op.want
      BY <1>5, <2>2, <3>2
    <3>7. QED
      BY <1>1, <3>1, <3>3, <3>4, <3>5, <3>6, SearchKeepsIInv
  <2>3. QED
    BY <2>1, <2>2
<1>10. QED
  BY <1>2, <1>8, <1>9

LEMMA CollectedKeepsIInv ==
  ASSUME IInv, Collected
  PROVE  IInv'
<1>1. UNCHANGED <<present, socket, conn>> /\ (Ends("unknown", {}) \/ Ends("ok", op.found))
  BY DEF Collected
<1>2. op.found \in SUBSET Object
  BY OpOfObject DEF IInv, TypeOK
<1>3. QED
  BY <1>1, <1>2, EndsKeepsIInv DEF Endings

LEMMA LossKeepsIInv ==
  ASSUME IInv, CallLost \/ GiveUp
  PROVE  IInv'
<1>1. UNCHANGED <<present, socket, conn>> /\ (Ends("err", {}) \/ Ends("none", {}))
  BY DEF CallLost, GiveUp
<1>2. QED
  BY <1>1, EndsKeepsIInv DEF Endings

(* The notify socket and the connection touch nothing of a search.          *)
LEMMA SocketKeepsIInv ==
  ASSUME IInv, UNCHANGED <<tree, op, history>>,
         result' \in [how : Endings, set : SUBSET Object],
         sock' \in {"none", "open", "closed"}, reading' \in BOOLEAN, conn' \in BOOLEAN,
         queue' \in Seq(Datagram), Len(queue') <= SockCap, unread' \in Seq(Datagram), QueueInv'
  PROVE  IInv'
<1>1. Targets(op') = Targets(op)
  BY DEF Targets
<1>2. TypeOK'
  BY <1>1 DEF IInv, TypeOK, tree, history
<1>3. OpInv'
  BY DEF IInv, OpInv
<1>4. HistoryInv'
  BY <1>1 DEF IInv, HistoryInv, tree, history
<1>5. FoundInv'
  BY DEF IInv, FoundInv, tree, history
<1>6. QED
  BY <1>2, <1>3, <1>4, <1>5 DEF IInv

(* What is appended to a queue changes neither its head nor what comes next.*)
LEMMA AppendBehindHead ==
  ASSUME NEW S, NEW q \in Seq(S), q # <<>>, NEW x \in S
  PROVE  /\ Append(q, x) # <<>> /\ Head(Append(q, x)) = Head(q)
         /\ Tail(Append(q, x)) = Append(Tail(q), x)
OBVIOUS

(* A recv that reads, and the look at a hang-up after one that reads nothing*)
LEMMA ReadKeepsIInv ==
  ASSUME IInv, Notified \/ ReadNothing \/ NotifiedEmpty
  PROVE  IInv'
<1>1. /\ result \in [how : Endings, set : SUBSET Object] /\ sock \in {"none", "open", "closed"}
      /\ reading \in BOOLEAN /\ conn \in BOOLEAN
      /\ queue \in Seq(Datagram) /\ Len(queue) <= SockCap /\ unread \in Seq(Datagram)
      /\ QueueInv
  BY DEF IInv, TypeOK
<1>2. UNCHANGED <<tree, op, history, result, sock, conn>>
  BY DEF Notified, ReadNothing, NotifiedEmpty
<1>3. ASSUME NEW q \in Seq(Datagram), q # <<>>
      PROVE  Tail(q) \in Seq(Datagram) /\ (Len(q) <= SockCap => Len(Tail(q)) <= SockCap)
  <2>1. PICK n \in Nat, l \in Nat : n = Len(q) /\ Tail(q) \in Seq(Datagram) /\ l = Len(Tail(q)) /\ l = n - 1
    BY <1>3, HeadTailProperties
  <2>2. QED
    BY <2>1, SockCapType
<1>4. CASE Notified
  <2>1. /\ queue # <<>> /\ ~reading /\ UNCHANGED reading
        /\ queue' = Tail(queue) /\ unread' = Tail(unread) /\ unread = queue
    BY <1>1, <1>4 DEF Notified, QueueInv
  <2>2. queue' \in Seq(Datagram) /\ Len(queue') <= SockCap /\ unread' \in Seq(Datagram)
    BY <1>1, <1>3, <2>1
  <2>3. QueueInv'
    BY <2>1 DEF QueueInv
  <2>4. QED
    BY <1>1, <1>2, <2>1, <2>2, <2>3, SocketKeepsIInv
<1>5. CASE ReadNothing
  <2>1. /\ sock # "none" /\ ReadsNothing /\ reading' = TRUE /\ unread = queue /\ UNCHANGED unread
        /\ queue' = IF queue = <<>> THEN <<>> ELSE Tail(queue)
    BY <1>1, <1>5 DEF ReadNothing, QueueInv
  <2>2. queue' \in Seq(Datagram) /\ Len(queue') <= SockCap
    BY <1>1, <1>3, <2>1, SockCapType
  <2>3. QueueInv'
    BY <1>2, <2>1 DEF QueueInv, ReadsNothing
  <2>4. QED
    BY <1>1, <1>2, <2>1, <2>2, <2>3, SocketKeepsIInv
<1>6. CASE NotifiedEmpty
  <2>1. /\ reading /\ sock = "open" /\ reading' = FALSE /\ unread' = Tail(unread) /\ UNCHANGED queue
        /\ unread # <<>> /\ queue = Tail(unread)
    BY <1>1, <1>6 DEF NotifiedEmpty, QueueInv
  <2>2. unread' \in Seq(Datagram)
    BY <1>1, <1>3, <2>1
  <2>3. QueueInv'
    BY <2>1 DEF QueueInv
  <2>4. QED
    BY <1>1, <1>2, <2>1, <2>2, <2>3, SocketKeepsIInv
<1>7. QED
  BY <1>4, <1>5, <1>6

LEMMA ReceiveKeepsIInv ==
  ASSUME IInv,
         \/ AcquireNotify \/ DropSocket \/ Closes \/ LoseConn
         \/ Notified \/ ReadNothing \/ NotifiedEmpty \/ NotConnected \/ RecvFails
  PROVE  IInv'
<1>1. /\ result \in [how : Endings, set : SUBSET Object] /\ sock \in {"none", "open", "closed"}
      /\ reading \in BOOLEAN /\ conn \in BOOLEAN
      /\ queue \in Seq(Datagram) /\ Len(queue) <= SockCap /\ unread \in Seq(Datagram)
      /\ QueueInv
  BY DEF IInv, TypeOK
<1>2. <<>> \in Seq(Datagram) /\ Len(<<>>) <= SockCap
  BY SockCapType
<1>3. ASSUME NEW to \in {"none", "open"}, Take(to), UNCHANGED <<tree, op, history, conn>>,
             result' \in [how : Endings, set : SUBSET Object]
      PROVE  IInv'
  <2>1. QueueInv'
    BY <1>3 DEF QueueInv, Take
  <2>2. QED
    BY <1>1, <1>2, <1>3, <2>1, SocketKeepsIInv DEF Take
<1>4. CASE AcquireNotify
  <2>1. result' \in [how : Endings, set : SUBSET Object]
    BY <1>4 DEF AcquireNotify, Nothing, Endings
  <2>2. QED
    BY <1>3, <1>4, <2>1 DEF AcquireNotify
<1>5. CASE DropSocket
  BY <1>1, <1>3, <1>5 DEF DropSocket
<1>6. CASE NotConnected \/ RecvFails
  <2>1. result' \in [how : Endings, set : SUBSET Object]
    BY <1>6 DEF NotConnected, RecvFails, Endings
  <2>2. QED
    BY <1>3, <1>6, <2>1 DEF NotConnected, RecvFails
<1>7. CASE Notified \/ ReadNothing \/ NotifiedEmpty
  BY <1>1, <1>7, ReadKeepsIInv
<1>8. CASE Closes
  <2>1. QueueInv'
    BY <1>1, <1>8 DEF Closes, QueueInv
  <2>2. QED
    BY <1>1, <1>8, <2>1, SocketKeepsIInv DEF Closes
<1>9. CASE LoseConn
  <2>1. QueueInv'
    BY <1>1, <1>9 DEF LoseConn, QueueInv, socket
  <2>2. QED
    BY <1>1, <1>9, <2>1, SocketKeepsIInv DEF LoseConn, socket
<1>10. QED
  BY <1>4, <1>5, <1>6, <1>7, <1>8, <1>9

LEMMA NotifiesKeepsIInv ==
  ASSUME IInv, NEW datagram \in Datagram, Notifies(datagram)
  PROVE  IInv'
<1>1. /\ result \in [how : Endings, set : SUBSET Object] /\ sock \in {"none", "open", "closed"}
      /\ reading \in BOOLEAN /\ conn \in BOOLEAN
      /\ queue \in Seq(Datagram) /\ Len(queue) <= SockCap /\ unread \in Seq(Datagram)
      /\ QueueInv
  BY DEF IInv, TypeOK
<1>2. /\ sock = "open" /\ Len(queue) < SockCap
      /\ queue' = Append(queue, datagram) /\ unread' = Append(unread, datagram)
      /\ UNCHANGED <<tree, op, history, result, sock, reading, conn>>
  BY DEF Notifies
<1>3. PICK n \in Nat : n = Len(queue)
  BY <1>1
<1>4. queue' \in Seq(Datagram) /\ Len(queue') = n + 1 /\ unread' \in Seq(Datagram)
  BY <1>1, <1>2, <1>3, AppendProperties
<1>5. Len(queue') <= SockCap
  BY <1>2, <1>3, <1>4, SockCapType
<1>6. QueueInv'
  <2>1. CASE ~reading
    BY <1>1, <1>2, <2>1 DEF QueueInv
  <2>2. CASE reading
    <3>1. unread # <<>> /\ Head(unread) = "empty" /\ queue = Tail(unread)
      BY <1>1, <1>2, <2>2 DEF QueueInv
    <3>2. /\ Append(unread, datagram) # <<>> /\ Head(Append(unread, datagram)) = Head(unread)
          /\ Tail(Append(unread, datagram)) = Append(Tail(unread), datagram)
      BY <1>1, <3>1, AppendBehindHead
    <3>3. QED
      BY <1>2, <2>2, <3>1, <3>2 DEF QueueInv
  <2>3. QED
    BY <1>1, <2>1, <2>2
<1>7. QED
  BY <1>1, <1>2, <1>4, <1>5, <1>6, SocketKeepsIInv

(* Objects that come and go under a search change only what it may find.    *)
LEMMA ObjectsKeepIInv ==
  ASSUME IInv, NEW o \in Object, Appears(o) \/ Goes(o)
  PROVE  IInv'
<1>1. UNCHANGED <<held, op, result, socket, conn>> /\ Targets(op') = Targets(op)
  BY DEF Appears, Goes, Targets
<1>2. CASE Appears(o)
  <2>1. /\ present' = present \cup {o} /\ Parent[o] \in present
        /\ seen' = seen \cup ({o} \cap Targets(op)) /\ UNCHANGED steady
    BY <1>2 DEF Appears
  <2>2. TypeOK'
    <3>1. seen' \subseteq Object /\ present' \subseteq Object
      BY <2>1 DEF IInv, TypeOK
    <3>2. \A c \in present' : Parent[c] # None => Parent[c] \in present'
      BY <2>1 DEF IInv, TypeOK
    <3>3. QED
      BY <1>1, <2>1, <3>1, <3>2 DEF IInv, TypeOK, socket
  <2>3. HistoryInv'
    BY <1>1, <2>1 DEF IInv, HistoryInv
  <2>4. FoundInv'
    BY <1>1, <2>1 DEF IInv, FoundInv
  <2>5. OpInv' /\ QueueInv'
    BY <1>1 DEF IInv, OpInv, QueueInv, socket
  <2>6. QED
    BY <2>2, <2>3, <2>4, <2>5 DEF IInv
<1>3. CASE Goes(o)
  <2>1. /\ present' = present \ {o} /\ Children(o) \cap present = {}
        /\ steady' = steady \ {o} /\ UNCHANGED seen
    BY <1>3 DEF Goes
  <2>2. TypeOK'
    <3>1. \A c \in present' : Parent[c] # None => Parent[c] \in present'
      BY <2>1 DEF IInv, TypeOK, Children
    <3>2. QED
      BY <1>1, <2>1, <3>1 DEF IInv, TypeOK, socket
  <2>3. HistoryInv'
    BY <1>1, <2>1 DEF IInv, HistoryInv
  <2>4. FoundInv'
    BY <1>1, <2>1 DEF IInv, FoundInv
  <2>5. OpInv' /\ QueueInv'
    BY <1>1 DEF IInv, OpInv, QueueInv, socket
  <2>6. QED
    BY <2>2, <2>3, <2>4, <2>5 DEF IInv
<1>4. QED
  BY <1>2, <1>3

LEMMA NextIInv == IInv /\ [Next]_vars => IInv'
<1> SUFFICES ASSUME IInv, [Next]_vars PROVE IInv'
  OBVIOUS
<1>1. CASE Search
  BY <1>1, IntrospectedKeepsIInv, IncludesToldKeepsIInv, AddressToldKeepsIInv, LookedUpKeepsIInv,
     CollectedKeepsIInv, LossKeepsIInv DEF Search
<1>2. CASE User
  BY <1>2, BeginKeepsIInv, LossKeepsIInv, ReceiveKeepsIInv DEF User
<1>3. CASE Receive
  BY <1>3, ReceiveKeepsIInv DEF Receive
<1>4. CASE Bluez
  BY <1>4, ObjectsKeepIInv, NotifiesKeepsIInv, ReceiveKeepsIInv DEF Bluez
<1>5. CASE UNCHANGED vars
  <2>1. /\ UNCHANGED <<tree, op, history>> /\ UNCHANGED <<result, sock, queue, reading, unread, conn>>
    BY <1>5 DEF vars, socket
  <2>2. QueueInv'
    BY <2>1 DEF IInv, QueueInv
  <2>3. /\ result' \in [how : Endings, set : SUBSET Object] /\ sock' \in {"none", "open", "closed"}
        /\ reading' \in BOOLEAN /\ conn' \in BOOLEAN
        /\ queue' \in Seq(Datagram) /\ Len(queue') <= SockCap /\ unread' \in Seq(Datagram)
    BY <2>1 DEF IInv, TypeOK
  <2>4. QED
    BY <2>1, <2>2, <2>3, SocketKeepsIInv
<1>6. QED
  BY <1>1, <1>2, <1>3, <1>4, <1>5 DEF Next

(* In every reachable state the search under way loses nothing that stays   *)
(* and has collected only what was there, whatever BlueZ does meanwhile.    *)
THEOREM SearchKeepsTrack == Spec => []IInv
BY InitIInv, NextIInv, PTL DEF Spec

------------------------------------------------------------------------------
(* An operation ends in a step of the search or by the user's giving up.    *)
LEMMA TellGoesOn ==
  ASSUME IInv, NEW targets, Tell(targets)
  PROVE  op' # Idle
<1>1. op'.stage = "get"
  BY DEF Tell, IInv, TypeOK
<1>2. QED
  BY <1>1 DEF Idle

LEMMA OthersReturnNothing ==
  ASSUME IInv, [Next]_vars, ~Search, ~GiveUp, op # Idle
  PROVE  op' # Idle
BY DEF Next, Search, User, Receive, Bluez, Begin, AcquireNotify, DropSocket, Notified, ReadNothing,
       NotifiedEmpty, NotConnected, RecvFails, Appears, Goes, Notifies, Closes, LoseConn, vars

(* A search is exact for what stays, in whatever order the answers come:    *)
(* get_children, get_services, get_service, get_includes, get_devices,      *)
(* get_device, get_adapter.                                                 *)
THEOREM SearchesAreExact == Spec => SearchIsExact
<1> DEFINE Exact ==
      Returns =>
       /\ result'.set \subseteq {c \in seen : Suits(c)}
       /\ op.do \notin {"one", "direct"} /\ result'.how = "ok" => {c \in steady : Suits(c)} \subseteq result'.set
       /\ op.do \in {"one", "direct"} /\ result'.how = "ok" => \A c \in result'.set : Id[c] = op.want
       /\ result'.how = "unknown" => \A c \in steady : Id[c] # op.want
<1>1. ASSUME IInv, [Next]_vars
      PROVE  [Exact]_vars
  <2>1. SUFFICES ASSUME Returns PROVE Exact
    OBVIOUS
  <2>2. op # Idle /\ op' = Idle /\ result'.how # "none"
    BY <2>1 DEF Returns
  <2>3. /\ steady \subseteq present \cap Targets(op) /\ present \cap Targets(op) \subseteq seen
        /\ op.found \subseteq {c \in seen : Suits(c)}
        /\ op.stage = "get" => {c \in steady : Suits(c)} \subseteq op.left \cup op.found
        /\ op.do = "one" => \A c \in op.found : Id[c] # op.want
        /\ op.do \in {"one", "direct"} => op.want \in Wanted
    BY <1>1 DEF IInv, OpInv, HistoryInv, FoundInv
  <2>4. ASSUME NEW how, Ends(how, {}), how # "ok", how # "unknown"
        PROVE  Exact
    BY <2>4 DEF Ends
  <2>5. CASE Introspected
    <3>1. CASE op.at \notin present
      BY <2>4, <2>5, <3>1 DEF Introspected
    <3>2. CASE op.at \in present
      <4>1. PICK doc \in Documents(op.at) :
              IF op.do = "names" THEN Ends("ok", {c \in {d \in NamesIn(doc) : Fits(d)} : Id[c] # NoId})
              ELSE Tell({c \in NamesIn(doc) : Fits(c)})
        BY <2>5, <3>2 DEF Introspected
      <4>2. op.do \in {"all", "one", "names"}
        BY <2>5 DEF Introspected
      <4>3. {c \in NamesIn(doc) : Fits(c)} = Targets(op) \cap present
        BY <1>1, <4>2, FittingAreTargets
      <4>4. op.do = "names"
        BY <1>1, <2>2, <4>1, TellGoesOn
      <4>5. result' = [how |-> "ok", set |-> {c \in Targets(op) \cap present : Id[c] # NoId}]
        BY <4>1, <4>3, <4>4 DEF Ends
      <4>6. QED
        BY <2>3, <4>4, <4>5 DEF Suits
    <3>3. QED
      BY <3>1, <3>2
  <2>6. CASE IncludesTold
    <3>1. Ends("err", {})
      BY <1>1, <2>2, <2>6, TellGoesOn DEF IncludesTold
    <3>2. QED
      BY <2>4, <3>1
  <2>7. CASE AddressTold
    <3>1. \/ \E c \in present \cap Targets(op) : Id[c] = op.want /\ Ends("ok", {c})
          \/ Ends("err", {})
          \/ Ends("unknown", {}) /\ ~\E c \in present \cap Targets(op) : Id[c] = op.want
      BY <2>7 DEF AddressTold
    <3>2. op.do = "direct" /\ op.want # NoId
      BY <2>3, <2>7, IdType DEF AddressTold
    <3>3. ASSUME NEW c \in present \cap Targets(op), Id[c] = op.want, Ends("ok", {c})
          PROVE  Exact
      BY <2>3, <3>2, <3>3 DEF Ends, Suits
    <3>4. CASE Ends("unknown", {}) /\ ~\E c \in present \cap Targets(op) : Id[c] = op.want
      BY <2>3, <3>4 DEF Ends
    <3>5. QED
      BY <2>4, <3>1, <3>3, <3>4
  <2>8. CASE LookedUp
    <3>1. PICK c \in op.left : Missing(c) \/ Found(c)
      BY <2>8 DEF LookedUp
    <3>2. op.stage = "get" /\ op.stage # Idle.stage /\ c \in Targets(op)
      BY <1>1, <2>8 DEF LookedUp, Idle, IInv, TypeOK
    <3>3. \/ Ends("err", {})
          \/ op.do = "one" /\ Id[c] = op.want /\ c \in present /\ Id[c] # NoId /\ Ends("ok", {c})
          \/ op' = [op EXCEPT !.left = @ \ {c}]
          \/ op' = [op EXCEPT !.left = @ \ {c}, !.found = @ \cup {c}]
      BY <3>1 DEF Missing, Found, Answers
    <3>4. op'.stage # op.stage
      BY <2>2, <3>2
    <3>5. \/ Ends("err", {})
          \/ op.do = "one" /\ Id[c] = op.want /\ c \in present /\ Id[c] # NoId /\ Ends("ok", {c})
      BY <1>1, <3>3, <3>4 DEF IInv, TypeOK
    <3>6. QED
      BY <2>3, <2>4, <3>2, <3>5 DEF Ends, Suits
  <2>9. CASE Collected
    <3>1. op.stage = "get" /\ op.left = {}
      BY <2>9 DEF Collected
    <3>2. CASE op.do = "one"
      <4>1. Ends("unknown", {})
        BY <2>9, <3>2 DEF Collected
      <4>2. \A c \in steady : Id[c] # op.want
        BY <2>3, <3>1, <3>2, IdType DEF Suits
      <4>3. QED
        BY <3>2, <4>1, <4>2 DEF Ends
    <3>3. CASE op.do # "one"
      <4>1. Ends("ok", op.found)
        BY <2>9, <3>3 DEF Collected
      <4>2. op.do # "direct"
        BY <1>1, <3>1 DEF IInv, OpInv
      <4>3. QED
        BY <2>3, <3>1, <3>3, <4>1, <4>2 DEF Ends
    <3>4. QED
      BY <3>2, <3>3
  <2>10. CASE CallLost
    BY <2>4, <2>10 DEF CallLost
  <2>11. CASE GiveUp
    BY <2>4, <2>11 DEF GiveUp
  <2>12. CASE ~Search /\ ~GiveUp
    BY <1>1, <2>2, <2>12, OthersReturnNothing
  <2>13. QED
    BY <2>5, <2>6, <2>7, <2>8, <2>9, <2>10, <2>11, <2>12 DEF Search
<1>2. QED
  BY <1>1, SearchKeepsTrack, PTL DEF Spec, SearchIsExact

(* A search fails only because the connection is lost, the object searched  *)
(* or the adapter asked for is not there, BlueZ tells a wrong address or a  *)
(* wrong type for Includes, or a service includes what is gone or is no     *)
(* service: never because objects below it come and go.                     *)
THEOREM SearchFailsForACause == Spec => FailNeedsCause
<1> DEFINE Cause ==
      Returns /\ result'.how \in {"err", "panic"} =>
       \/ ~conn \/ op.at \notin present
       \/ Kind[op.at] = "root" /\ ~\E c \in present \cap Targets(op) : Id[c] = op.want
       \/ op.do = "direct" /\ \E c \in present \cap Targets(op) :
            Id[c] = op.want /\ \E address \in Tells[c] : ~Right(c, address)
       \/ op.do = "includes" /\ (op.at \in Garbled \/ \E c \in Included[op.at] : ~Answers(c))
<1>1. ASSUME IInv, [Next]_vars
      PROVE  [Cause]_vars
  <2>1. SUFFICES ASSUME Returns, result'.how \in {"err", "panic"} PROVE Cause
    OBVIOUS
  <2>2. op # Idle /\ op' = Idle
    BY <2>1 DEF Returns
  <2>3. ASSUME NEW how, NEW set, Ends(how, set)
        PROVE  how \in {"err", "panic"}
    BY <2>1, <2>3 DEF Ends
  <2>4. CASE Introspected
    <3>1. CASE op.at \notin present
      BY <3>1
    <3>2. CASE op.at \in present
      <4>1. PICK doc \in Documents(op.at) :
              IF op.do = "names" THEN Ends("ok", {c \in {d \in NamesIn(doc) : Fits(d)} : Id[c] # NoId})
              ELSE Tell({c \in NamesIn(doc) : Fits(c)})
        BY <2>4, <3>2 DEF Introspected
      <4>2. QED
        BY <1>1, <2>2, <2>3, <4>1, TellGoesOn
    <3>3. QED
      BY <3>1, <3>2
  <2>5. CASE IncludesTold
    BY <1>1, <2>2, <2>5, TellGoesOn DEF IncludesTold
  <2>6. CASE AddressTold
    <3>1. \/ \E c \in present \cap Targets(op) : \E address \in Tells[c] :
               /\ Id[c] = op.want
               /\ IF Right(c, address) THEN Ends("ok", {c}) ELSE Ends("err", {})
          \/ /\ ~\E c \in present \cap Targets(op) : Id[c] = op.want
             /\ Ends(IF Kind[op.at] = "root" THEN "err" ELSE "unknown", {})
      BY <2>6 DEF AddressTold
    <3>2. op.do = "direct"
      BY <2>6 DEF AddressTold
    <3>3. ASSUME NEW c \in present \cap Targets(op), NEW address \in Tells[c], Id[c] = op.want,
                 IF Right(c, address) THEN Ends("ok", {c}) ELSE Ends("err", {})
          PROVE  Cause
      <4>1. ~Right(c, address)
        BY <2>3, <3>3
      <4>2. QED
        BY <3>2, <3>3, <4>1
    <3>4. CASE /\ ~\E c \in present \cap Targets(op) : Id[c] = op.want
               /\ Ends(IF Kind[op.at] = "root" THEN "err" ELSE "unknown", {})
      <4>1. Kind[op.at] = "root"
        BY <2>3, <3>4
      <4>2. QED
        BY <3>4, <4>1
    <3>5. QED
      BY <3>1, <3>3, <3>4
  <2>7. CASE LookedUp
    <3>1. PICK c \in op.left : Missing(c) \/ Found(c)
      BY <2>7 DEF LookedUp
    <3>2. \/ op.do = "includes" /\ ~Answers(c)
          \/ Ends("ok", {c})
          \/ op' = [op EXCEPT !.left = @ \ {c}]
          \/ op' = [op EXCEPT !.left = @ \ {c}, !.found = @ \cup {c}]
      BY <3>1 DEF Missing, Found
    <3>3. op.stage = "get" /\ op'.stage # op.stage
      BY <2>2, <2>7 DEF LookedUp, Idle
    <3>4. \/ op.do = "includes" /\ ~Answers(c)
          \/ Ends("ok", {c})
      BY <1>1, <3>2, <3>3 DEF IInv, TypeOK
    <3>5. ~Ends("ok", {c})
      BY <2>3
    <3>6. op.do = "includes" /\ ~Answers(c)
      BY <3>4, <3>5
    <3>7. c \in Targets(op)
      BY <1>1, <3>1 DEF IInv, TypeOK
    <3>8. c \in Included[op.at]
      BY <3>6, <3>7 DEF Targets
    <3>9. QED
      BY <3>6, <3>8
  <2>8. CASE Collected
    BY <2>3, <2>8 DEF Collected
  <2>9. CASE CallLost
    BY <2>9 DEF CallLost
  <2>10. CASE GiveUp
    BY <2>3, <2>10 DEF GiveUp
  <2>11. CASE ~Search /\ ~GiveUp
    BY <1>1, <2>2, <2>11, OthersReturnNothing
  <2>12. QED
    BY <2>4, <2>5, <2>6, <2>7, <2>8, <2>9, <2>10, <2>11 DEF Search
<1>2. QED
  BY <1>1, SearchKeepsTrack, PTL DEF Spec, FailNeedsCause

(* recv_notification tells of the end only when it has returned all that    *)
(* BlueZ sent, but for an empty value and what BlueZ sent behind it.        *)
THEOREM NotificationsAllArrive == Spec => NoNotificationLost
<1> DEFINE Kept == result.how # "hungup" /\ result'.how = "hungup" => unread = <<>> \/ Head(unread) = "empty"
<1>1. ASSUME IInv, [Next]_vars
      PROVE  [Kept]_vars
  <2>1. SUFFICES ASSUME result.how # "hungup", result'.how = "hungup"
                 PROVE  unread = <<>> \/ Head(unread) = "empty"
    OBVIOUS
  <2>2. ASSUME NEW how, NEW set, Ends(how, set)
        PROVE  how = "hungup"
    BY <2>1, <2>2 DEF Ends
  <2>3. NotConnected
    <3>1. ~Search
      <4>1. ~Introspected /\ ~IncludesTold /\ ~AddressTold
        BY <2>1, <2>2 DEF Introspected, IncludesTold, AddressTold, Tell
      <4>2. ~LookedUp
        BY <2>1, <2>2 DEF LookedUp, Missing, Found
      <4>3. ~Collected /\ ~CallLost
        BY <2>2 DEF Collected, CallLost
      <4>4. QED
        BY <4>1, <4>2, <4>3 DEF Search
    <3>2. ~User
      <4>1. ~GiveUp
        BY <2>2 DEF GiveUp
      <4>2. result' # Nothing
        BY <2>1 DEF Nothing
      <4>3. ~AcquireNotify
        BY <4>2 DEF AcquireNotify
      <4>4. ASSUME NEW o, NEW do, NEW want, Begin(o, do, want)
            PROVE  FALSE
        BY <4>2, <4>4 DEF Begin
      <4>5. ~DropSocket
        BY <2>1 DEF DropSocket
      <4>6. QED
        BY <4>1, <4>3, <4>4, <4>5 DEF User
    <3>3. ~Bluez /\ ~UNCHANGED vars
      BY <2>1 DEF Bluez, Appears, Goes, Notifies, Closes, LoseConn, vars
    <3>4. ~Notified /\ ~ReadNothing /\ ~NotifiedEmpty /\ ~RecvFails
      BY <2>1 DEF Notified, ReadNothing, NotifiedEmpty, RecvFails
    <3>5. QED
      BY <1>1, <3>1, <3>2, <3>3, <3>4 DEF Next, Receive
  <2>4. QED
    BY <1>1, <2>3 DEF NotConnected, IInv, QueueInv
<1>2. QED
  BY <1>1, SearchKeepsTrack, PTL DEF Spec, NoNotificationLost
=============================================================================
