---------------------------- MODULE AppTreeProofs ----------------------------
(***************************************************************************)
(* Proofs about AppTree, for any UUIDs and any number of attributes: the   *)
(* tree stays well formed in the user's and in unregister's hands, and     *)
(* register loses just the attributes whose own UUID is 0.                 *)
(***************************************************************************)
EXTENDS AppTree, SequenceTheorems, FunctionTheorems, FiniteSetTheorems, TLAPS

------------------------------------------------------------------------------
(* The vectors of attributes. *)

\* In a vector without equal UUIDs, First finds the only attribute with a UUID.
LEMMA FirstIsTheOne ==
  ASSUME NEW S, NEW seq \in Seq(S), NEW id, Distinct(seq), Hits(seq, id) # {}
  PROVE  /\ First(seq, id) \in 1 .. Len(seq)
         /\ \A i \in DOMAIN seq : seq[i].id = id <=> i = First(seq, id)
<1>1. PICK i \in Hits(seq, id) : TRUE
  OBVIOUS
<1>2. i \in 1 .. Len(seq) /\ seq[i].id = id /\ DOMAIN seq = 1 .. Len(seq)
  BY <1>1, LenProperties DEF Hits
<1>3. \A j \in Hits(seq, id) : j = i
  BY <1>2 DEF Distinct, Hits
<1>4. First(seq, id) = i
  <2>1. i <= i
    BY <1>2
  <2>2. i \in Hits(seq, id) /\ \A j \in Hits(seq, id) : i <= j
    BY <1>1, <1>3, <2>1
  <2>3. First(seq, id) \in Hits(seq, id)
    BY <2>2 DEF First
  <2>4. QED
    BY <1>3, <2>3
<1>5. QED
  BY <1>2, <1>3, <1>4 DEF Hits

\* Put gives a vector that holds the new attribute and of the others only
\* those with another UUID: it adds no duplicate.
LEMMA PutProperties ==
  ASSUME NEW S, NEW seq \in Seq(S), NEW x \in S, Distinct(seq)
  PROVE  /\ Put(seq, x) \in Seq(S)
         /\ Distinct(Put(seq, x))
         /\ \A i \in DOMAIN Put(seq, x) :
              Put(seq, x)[i] = x \/ \E j \in DOMAIN seq : Put(seq, x)[i] = seq[j]
<1>0. DOMAIN seq = 1 .. Len(seq) /\ Len(seq) \in Nat
  BY LenProperties
<1>1. CASE Hits(seq, x.id) = {}
  <2>1. Put(seq, x) = Append(seq, x)
    BY <1>1 DEF Put
  <2>2. /\ Append(seq, x) \in Seq(S) /\ DOMAIN Append(seq, x) = 1 .. Len(seq) + 1
        /\ \A i \in 1 .. Len(seq) : Append(seq, x)[i] = seq[i]
        /\ Append(seq, x)[Len(seq) + 1] = x
    BY AppendProperties, LenProperties
  <2>3. \A i \in 1 .. Len(seq) : seq[i].id # x.id
    BY <1>0, <1>1 DEF Hits
  <2>4. ASSUME NEW i \in 1 .. Len(seq) + 1
        PROVE  i = Len(seq) + 1 \/ i \in 1 .. Len(seq)
    BY <1>0
  <2>5. Distinct(Append(seq, x))
    BY <1>0, <2>2, <2>3, <2>4 DEF Distinct
  <2>6. QED
    BY <1>0, <2>1, <2>2, <2>4, <2>5
<1>2. CASE Hits(seq, x.id) # {}
  <2> DEFINE f == First(seq, x.id)
             new == [seq EXCEPT ![f] = x]
  <2>1. Put(seq, x) = new
    BY <1>2 DEF Put
  <2>2. f \in 1 .. Len(seq) /\ \A i \in DOMAIN seq : seq[i].id = x.id <=> i = f
    BY <1>2, FirstIsTheOne
  <2> HIDE DEF f
  <2>3. /\ new \in Seq(S) /\ DOMAIN new = 1 .. Len(seq)
        /\ \A j \in 1 .. Len(seq) : new[j] = IF j = f THEN x ELSE seq[j]
    BY <1>0, <2>2, ExceptSeq
  <2> HIDE DEF new
  <2>4. Distinct(new)
    BY <1>0, <2>2, <2>3 DEF Distinct
  <2>5. QED
    BY <1>0, <2>1, <2>3, <2>4
<1>3. QED
  BY <1>1, <1>2

\* Remove gives a vector of some of the attributes, and no duplicate.
LEMMA RemoveProperties ==
  ASSUME NEW S, NEW seq \in Seq(S), NEW id, Distinct(seq)
  PROVE  /\ Remove(seq, id) \in Seq(S)
         /\ Distinct(Remove(seq, id))
         /\ \A i \in DOMAIN Remove(seq, id) : \E j \in DOMAIN seq : Remove(seq, id)[i] = seq[j]
<1>0. DOMAIN seq = 1 .. Len(seq) /\ Len(seq) \in Nat /\ \A i \in 1 .. Len(seq) : seq[i] \in S
  BY LenProperties, ElementOfSeq
<1>1. CASE Hits(seq, id) = {}
  BY <1>1 DEF Remove
<1>2. CASE Hits(seq, id) # {}
  <2>n. PICK n \in Nat : n = Len(seq)
    BY <1>0
  <2>0. PICK f \in 1 .. n : f = First(seq, id)
    BY <1>2, <2>n, FirstIsTheOne
  <2> DEFINE front == SubSeq(seq, 1, f - 1)
             back == SubSeq(seq, f + 1, n)
  <2>1. Remove(seq, id) = front \o back
    BY <1>2, <2>n, <2>0 DEF Remove
  <2>2. f \in 1 .. n /\ n \in Nat /\ DOMAIN seq = 1 .. n
    BY <1>0, <2>n
  <2>3. /\ front \in Seq(S) /\ Len(front) = f - 1
        /\ \A i \in 1 .. f - 1 : front[i] = seq[i]
    <3>1. f - 1 \in Int /\ \A i \in 1 .. f - 1 : seq[i] \in S
      BY <1>0, <2>n, <2>2
    <3>2. /\ front \in Seq(S) /\ Len(front) = IF 1 <= f - 1 THEN f - 1 - 1 + 1 ELSE 0
          /\ \A i \in 1 .. f - 1 - 1 + 1 : front[i] = seq[1 + i - 1]
      BY <3>1, SubSeqProperties
    <3>3. QED
      BY <2>2, <3>2
  <2>4. /\ back \in Seq(S) /\ Len(back) = n - f
        /\ \A i \in 1 .. n - f : back[i] = seq[f + i]
    <3>1. f + 1 \in Int /\ n \in Int /\ \A i \in f + 1 .. n : seq[i] \in S
      BY <1>0, <2>n, <2>2
    <3>2. /\ back \in Seq(S) /\ Len(back) = IF f + 1 <= n THEN n - (f + 1) + 1 ELSE 0
          /\ \A i \in 1 .. n - (f + 1) + 1 : back[i] = seq[f + 1 + i - 1]
      BY <3>1, SubSeqProperties
    <3>3. n - (f + 1) + 1 = n - f /\ \A i \in 1 .. n - f : f + 1 + i - 1 = f + i
      BY <2>2
    <3> HIDE DEF back
    <3>4. Len(back) = n - f
      <4>1. CASE f + 1 <= n
        BY <3>2, <3>3, <4>1
      <4>2. CASE ~(f + 1 <= n)
        <5>1. n - f = 0
          BY <2>2, <4>2
        <5>2. QED
          BY <3>2, <4>2, <5>1
      <4>3. QED
        BY <4>1, <4>2
    <3>5. QED
      BY <3>2, <3>3, <3>4
  <2> HIDE DEF front, back
  <2>5. /\ front \o back \in Seq(S) /\ Len(front \o back) = n - 1
        /\ \A i \in 1 .. n - 1 : (front \o back)[i] = seq[IF i < f THEN i ELSE i + 1]
    <3>1. /\ front \o back \in Seq(S) /\ Len(front \o back) = f - 1 + (n - f)
          /\ \A i \in 1 .. f - 1 + (n - f) :
               (front \o back)[i] = IF i <= f - 1 THEN front[i] ELSE back[i - (f - 1)]
      <4>1. /\ front \o back \in Seq(S) /\ Len(front \o back) = Len(front) + Len(back)
            /\ \A i \in 1 .. Len(front) + Len(back) :
                 (front \o back)[i] = IF i <= Len(front) THEN front[i] ELSE back[i - Len(front)]
        BY <2>3, <2>4, ConcatProperties
      <4>2. QED
        BY <2>3, <2>4, <4>1
    <3>2. ASSUME NEW i \in 1 .. n - 1
          PROVE  (front \o back)[i] = seq[IF i < f THEN i ELSE i + 1]
      <4>1. i \in 1 .. f - 1 + (n - f)
        BY <2>2
      <4>2. CASE i < f
        BY <2>2, <2>3, <3>1, <4>1, <4>2
      <4>3. CASE ~(i < f)
        <5>1. i - (f - 1) \in 1 .. n - f /\ f + (i - (f - 1)) = i + 1 /\ ~(i <= f - 1)
          BY <2>2, <4>3
        <5>2. QED
          BY <2>4, <3>1, <4>1, <4>3, <5>1
      <4>4. QED
        BY <4>2, <4>3
    <3>3. QED
      BY <2>2, <3>1, <3>2
  <2>6. DOMAIN (front \o back) = 1 .. n - 1
    BY <2>5, LenProperties
  <2>7. ASSUME NEW i \in 1 .. n - 1
        PROVE  (IF i < f THEN i ELSE i + 1) \in 1 .. n
    BY <2>2
  <2>8. Distinct(front \o back)
    <3>1. SUFFICES ASSUME NEW i \in 1 .. n - 1, NEW j \in 1 .. n - 1,
                          (front \o back)[i].id = (front \o back)[j].id
                   PROVE  i = j
      BY <2>6 DEF Distinct
    <3>2. PICK k \in 1 .. n, l \in 1 .. n :
            k = (IF i < f THEN i ELSE i + 1) /\ l = (IF j < f THEN j ELSE j + 1)
      BY <2>7
    <3>3. seq[k].id = seq[l].id
      BY <2>5, <3>1, <3>2
    <3>4. k = l
      BY <2>2, <3>3 DEF Distinct
    <3>5. QED
      BY <2>2, <3>2, <3>4
  <2>9. QED
    BY <2>1, <2>2, <2>5, <2>6, <2>7, <2>8
<1>3. QED
  BY <1>1, <1>2

------------------------------------------------------------------------------
(* The tree: an attribute without equal children takes or loses a child.   *)

Taken(c) == c \in ChrcType /\ Distinct(c.descs)
TakenServ(s) == s \in ServType /\ WellFormedServ(s)

\* add_desc and remove_desc leave a characteristic without equal descriptors.
LEMMA ChrcKeeps ==
  ASSUME NEW c, Taken(c)
  PROVE  /\ \A d \in DescType : Taken([c EXCEPT !.descs = Put(@, d)])
         /\ \A d : Taken([c EXCEPT !.descs = Remove(@, d)])
<1>1. c.descs \in Seq(DescType) /\ Distinct(c.descs) /\ c.id \in ChrcId
  BY DEF Taken, ChrcType
<1>2. ASSUME NEW ds \in Seq(DescType), Distinct(ds)
      PROVE  Taken([c EXCEPT !.descs = ds])
  BY <1>2 DEF Taken, ChrcType
<1>3. ASSUME NEW d \in DescType
      PROVE  Taken([c EXCEPT !.descs = Put(c.descs, d)])
  <2>1. Put(c.descs, d) \in Seq(DescType) /\ Distinct(Put(c.descs, d))
    BY <1>1, PutProperties
  <2>2. QED
    BY <1>2, <2>1
<1>4. ASSUME NEW d
      PROVE  Taken([c EXCEPT !.descs = Remove(c.descs, d)])
  <2>1. Remove(c.descs, d) \in Seq(DescType) /\ Distinct(Remove(c.descs, d))
    BY <1>1, RemoveProperties
  <2>2. QED
    BY <1>2, <2>1
<1>5. QED
  BY <1>3, <1>4

\* add_char and remove_char leave a service without equal characteristics.
LEMMA ServKeeps ==
  ASSUME NEW s, TakenServ(s)
  PROVE  /\ \A c : Taken(c) => TakenServ([s EXCEPT !.chars = Put(@, c)])
         /\ \A c : TakenServ([s EXCEPT !.chars = Remove(@, c)])
<1>1. /\ s.chars \in Seq(ChrcType) /\ Distinct(s.chars) /\ s.id \in ServId
      /\ \A i \in DOMAIN s.chars : Distinct(s.chars[i].descs)
  BY DEF TakenServ, ServType, WellFormedServ
<1>2. ASSUME NEW cs \in Seq(ChrcType), Distinct(cs), \A i \in DOMAIN cs : Distinct(cs[i].descs)
      PROVE  TakenServ([s EXCEPT !.chars = cs])
  BY <1>2 DEF TakenServ, ServType, WellFormedServ
<1>3. ASSUME NEW c, Taken(c)
      PROVE  TakenServ([s EXCEPT !.chars = Put(s.chars, c)])
  <2>1. c \in ChrcType /\ Distinct(c.descs)
    BY <1>3 DEF Taken
  <2>2. /\ Put(s.chars, c) \in Seq(ChrcType) /\ Distinct(Put(s.chars, c))
        /\ \A i \in DOMAIN Put(s.chars, c) :
             Put(s.chars, c)[i] = c \/ \E j \in DOMAIN s.chars : Put(s.chars, c)[i] = s.chars[j]
    BY <1>1, <2>1, PutProperties
  <2>3. QED
    BY <1>1, <1>2, <2>1, <2>2
<1>4. ASSUME NEW c
      PROVE  TakenServ([s EXCEPT !.chars = Remove(s.chars, c)])
  <2>1. /\ Remove(s.chars, c) \in Seq(ChrcType) /\ Distinct(Remove(s.chars, c))
        /\ \A i \in DOMAIN Remove(s.chars, c) :
             \E j \in DOMAIN s.chars : Remove(s.chars, c)[i] = s.chars[j]
    BY <1>1, RemoveProperties
  <2>2. QED
    BY <1>1, <1>2, <2>1
<1>5. QED
  BY <1>3, <1>4

\* add_service and remove_service leave an application without equal services.
LEMMA AppKeeps ==
  ASSUME NEW a \in Seq(ServType), WellFormed(a)
  PROVE  /\ \A s : TakenServ(s) => Put(a, s) \in Seq(ServType) /\ WellFormed(Put(a, s))
         /\ \A s : Remove(a, s) \in Seq(ServType) /\ WellFormed(Remove(a, s))
<1>1. Distinct(a) /\ \A i \in DOMAIN a : WellFormedServ(a[i])
  BY DEF WellFormed
<1>2. ASSUME NEW s, TakenServ(s)
      PROVE  Put(a, s) \in Seq(ServType) /\ WellFormed(Put(a, s))
  <2>1. s \in ServType /\ WellFormedServ(s)
    BY <1>2 DEF TakenServ
  <2>2. /\ Put(a, s) \in Seq(ServType) /\ Distinct(Put(a, s))
        /\ \A i \in DOMAIN Put(a, s) :
             Put(a, s)[i] = s \/ \E j \in DOMAIN a : Put(a, s)[i] = a[j]
    BY <1>1, <2>1, PutProperties
  <2>3. QED
    BY <1>1, <2>1, <2>2 DEF WellFormed
<1>3. ASSUME NEW s
      PROVE  Remove(a, s) \in Seq(ServType) /\ WellFormed(Remove(a, s))
  <2>1. /\ Remove(a, s) \in Seq(ServType) /\ Distinct(Remove(a, s))
        /\ \A i \in DOMAIN Remove(a, s) : \E j \in DOMAIN a : Remove(a, s)[i] = a[j]
    BY <1>1, RemoveProperties
  <2>2. QED
    BY <1>1, <2>1 DEF WellFormed
<1>4. QED
  BY <1>2, <1>3

\* What new makes of a UUID has no children.
LEMMA EmptyTaken ==
  /\ \A c \in ChrcId : Taken(EmptyChrc(c))
  /\ \A s \in ServId : TakenServ(EmptyServ(s))
<1>1. \A S : <<>> \in Seq(S) /\ DOMAIN <<>> = {}
  BY EmptySeq
<1>2. ASSUME NEW c \in ChrcId
      PROVE  Taken(EmptyChrc(c))
  <2>1. EmptyChrc(c) \in ChrcType
    BY <1>1 DEF EmptyChrc, ChrcType
  <2>2. Distinct(EmptyChrc(c).descs)
    BY <1>1 DEF EmptyChrc, Distinct
  <2>3. QED
    BY <2>1, <2>2 DEF Taken
<1>3. ASSUME NEW s \in ServId
      PROVE  TakenServ(EmptyServ(s))
  <2>1. EmptyServ(s) \in ServType
    BY <1>1 DEF EmptyServ, ServType
  <2>2. WellFormedServ(EmptyServ(s))
    BY <1>1 DEF EmptyServ, WellFormedServ, Distinct
  <2>3. QED
    BY <2>1, <2>2 DEF TakenServ
<1>4. QED
  BY <1>2, <1>3

------------------------------------------------------------------------------
(* The places of attributes and their keys. *)

\* The set of the values of an expression over a finite set is finite.
LEMMA ImageIsFinite ==
  ASSUME NEW D, IsFiniteSet(D), NEW f, DOMAIN f = D
  PROVE  IsFiniteSet({f[x] : x \in D})
<1> DEFINE T == {f[x] : x \in D}
           g == [x \in D |-> f[x]]
<1>1. g \in [D -> T] /\ \A t \in T : \E x \in D : g[x] = t
  OBVIOUS
<1>2. g \in Surjection(D, T)
  BY <1>1, Fun_IsSurj
<1>3. QED
  BY <1>2, FS_Surjection

\* The indices of a vector.
LEMMA IndicesAreFinite ==
  ASSUME NEW S, NEW seq \in Seq(S)
  PROVE  /\ IsFiniteSet(DOMAIN seq) /\ DOMAIN seq \subseteq Nat \ {0}
         /\ \A i \in DOMAIN seq : seq[i] \in S
<1>1. Len(seq) \in Nat /\ DOMAIN seq = 1 .. Len(seq)
  BY LenProperties
<1>2. IsFiniteSet(1 .. Len(seq))
  BY <1>1, FS_Interval
<1>3. \A i \in 1 .. Len(seq) : seq[i] \in S
  BY ElementOfSeq
<1>4. QED
  BY <1>1, <1>2, <1>3

\* What a place is: the indices of a service, a characteristic or a descriptor.
LEMMA PlaceShape ==
  ASSUME NEW a \in Seq(ServType), NEW p \in Places(a)
  PROVE  \E i \in DOMAIN a :
           \/ p = <<i, 0, 0>>
           \/ \E j \in DOMAIN a[i].chars :
                \/ p = <<i, j, 0>>
                \/ \E k \in DOMAIN a[i].chars[j].descs : p = <<i, j, k>>
<1>1. CASE p \in {<<i, 0, 0>> : i \in DOMAIN a}
  BY <1>1
<1>2. CASE p \in UNION {{<<i, j, 0>> : j \in DOMAIN a[i].chars} : i \in DOMAIN a}
  <2>1. PICK i \in DOMAIN a : p \in {<<i, j, 0>> : j \in DOMAIN a[i].chars}
    BY <1>2
  <2>2. QED
    BY <2>1
<1>3. CASE p \in UNION {UNION {{<<i, j, k>> : k \in DOMAIN a[i].chars[j].descs}
                                 : j \in DOMAIN a[i].chars} : i \in DOMAIN a}
  <2>1. PICK i \in DOMAIN a :
          p \in UNION {{<<i, j, k>> : k \in DOMAIN a[i].chars[j].descs} : j \in DOMAIN a[i].chars}
    BY <1>3
  <2>2. PICK j \in DOMAIN a[i].chars : p \in {<<i, j, k>> : k \in DOMAIN a[i].chars[j].descs}
    BY <2>1
  <2>3. QED
    BY <2>2
<1>4. \/ p \in {<<i, 0, 0>> : i \in DOMAIN a}
      \/ p \in UNION {{<<i, j, 0>> : j \in DOMAIN a[i].chars} : i \in DOMAIN a}
      \/ p \in UNION {UNION {{<<i, j, k>> : k \in DOMAIN a[i].chars[j].descs}
                               : j \in DOMAIN a[i].chars} : i \in DOMAIN a}
  BY DEF Places
<1>5. QED
  BY <1>1, <1>2, <1>3, <1>4

\* What is at the indices of a service, characteristic and descriptor.
LEMMA AtPlace ==
  ASSUME NEW a \in Seq(ServType), NEW i \in DOMAIN a
  PROVE  /\ i \in Nat \ {0} /\ a[i].id \in ServId
         /\ \A j \in DOMAIN a[i].chars :
              /\ j \in Nat \ {0} /\ a[i].chars[j].id \in ChrcId
              /\ \A k \in DOMAIN a[i].chars[j].descs :
                   k \in Nat \ {0} /\ a[i].chars[j].descs[k].id \in DescId
<1>1. i \in Nat \ {0} /\ a[i] \in ServType
  BY IndicesAreFinite
<1>2. a[i].id \in ServId /\ a[i].chars \in Seq(ChrcType)
  BY <1>1 DEF ServType
<1>3. ASSUME NEW j \in DOMAIN a[i].chars
      PROVE  /\ j \in Nat \ {0} /\ a[i].chars[j].id \in ChrcId
             /\ a[i].chars[j].descs \in Seq(DescType)
  <2>1. j \in Nat \ {0} /\ a[i].chars[j] \in ChrcType
    BY <1>2, IndicesAreFinite
  <2>2. QED
    BY <2>1 DEF ChrcType
<1>4. ASSUME NEW j \in DOMAIN a[i].chars, NEW k \in DOMAIN a[i].chars[j].descs
      PROVE  k \in Nat \ {0} /\ a[i].chars[j].descs[k].id \in DescId
  <2>1. k \in Nat \ {0} /\ a[i].chars[j].descs[k] \in DescType
    BY <1>3, IndicesAreFinite
  <2>2. QED
    BY <2>1 DEF DescType
<1>5. QED
  BY <1>1, <1>2, <1>3, <1>4

\* There are finitely many attributes.
LEMMA PlacesAreFinite ==
  ASSUME NEW a \in Seq(ServType)
  PROVE  IsFiniteSet(Places(a))
<1> DEFINE D == DOMAIN a
           Servs == {<<i, 0, 0>> : i \in D}
           ChrcsOf(i) == {<<i, j, 0>> : j \in DOMAIN a[i].chars}
           DescsOf(i, j) == {<<i, j, k>> : k \in DOMAIN a[i].chars[j].descs}
           AllDescsOf(i) == UNION {DescsOf(i, j) : j \in DOMAIN a[i].chars}
<1>1. IsFiniteSet(D) /\ \A i \in D : a[i].chars \in Seq(ChrcType)
  <2>1. IsFiniteSet(D) /\ \A i \in D : a[i] \in ServType
    BY IndicesAreFinite
  <2>2. QED
    BY <2>1 DEF ServType
<1>2. IsFiniteSet(Servs)
  <2> DEFINE f == [i \in D |-> <<i, 0, 0>>]
  <2>1. IsFiniteSet({f[i] : i \in D})
    BY <1>1, ImageIsFinite
  <2>2. QED
    BY <2>1
<1>3. ASSUME NEW i \in D
      PROVE  IsFiniteSet(ChrcsOf(i)) /\ IsFiniteSet(AllDescsOf(i))
  <2> DEFINE C == DOMAIN a[i].chars
  <2>1. IsFiniteSet(C) /\ \A j \in C : a[i].chars[j].descs \in Seq(DescType)
    <3>1. IsFiniteSet(C) /\ \A j \in C : a[i].chars[j] \in ChrcType
      BY <1>1, IndicesAreFinite
    <3>2. QED
      BY <3>1 DEF ChrcType
  <2>2. IsFiniteSet(ChrcsOf(i))
    <3> DEFINE f == [j \in C |-> <<i, j, 0>>]
    <3>1. IsFiniteSet({f[j] : j \in C})
      BY <2>1, ImageIsFinite
    <3>2. QED
      BY <3>1
  <2>3. ASSUME NEW j \in C
        PROVE  IsFiniteSet(DescsOf(i, j))
    <3> DEFINE E == DOMAIN a[i].chars[j].descs
               f == [k \in E |-> <<i, j, k>>]
    <3>1. IsFiniteSet(E)
      BY <2>1, IndicesAreFinite
    <3>2. IsFiniteSet({f[k] : k \in E})
      BY <3>1, ImageIsFinite
    <3>3. QED
      BY <3>2
  <2> HIDE DEF C
  <2>4. IsFiniteSet({DescsOf(i, j) : j \in C})
    <3> DEFINE f == [j \in C |-> DescsOf(i, j)]
    <3> HIDE DEF DescsOf
    <3>1. IsFiniteSet({f[j] : j \in C})
      BY <2>1, ImageIsFinite
    <3>2. QED
      BY <3>1
  <2>5. IsFiniteSet(UNION {DescsOf(i, j) : j \in C})
    <3> HIDE DEF DescsOf
    <3>1. QED
      BY <2>3, <2>4, FS_UNION
  <2>6. QED
    BY <2>2, <2>5 DEF C
<1>4. IsFiniteSet({ChrcsOf(i) : i \in D}) /\ IsFiniteSet({AllDescsOf(i) : i \in D})
  <2> DEFINE f == [i \in D |-> ChrcsOf(i)]
             g == [i \in D |-> AllDescsOf(i)]
  <2> HIDE DEF ChrcsOf, AllDescsOf
  <2>1. IsFiniteSet({f[i] : i \in D}) /\ IsFiniteSet({g[i] : i \in D})
    BY <1>1, ImageIsFinite
  <2>2. QED
    BY <2>1
<1>5. IsFiniteSet(UNION {ChrcsOf(i) : i \in D}) /\ IsFiniteSet(UNION {AllDescsOf(i) : i \in D})
  <2> HIDE DEF ChrcsOf, AllDescsOf
  <2>1. QED
    BY <1>3, <1>4, FS_UNION
<1>6. Places(a) = Servs \cup (UNION {ChrcsOf(i) : i \in D}) \cup (UNION {AllDescsOf(i) : i \in D})
  BY DEF Places
<1> HIDE DEF Servs, ChrcsOf, AllDescsOf
<1>7. IsFiniteSet(Servs \cup (UNION {ChrcsOf(i) : i \in D}))
  BY <1>2, <1>5, FS_Union
<1>8. IsFiniteSet(Servs \cup (UNION {ChrcsOf(i) : i \in D}) \cup (UNION {AllDescsOf(i) : i \in D}))
  <2> HIDE DEF D
  <2>1. QED
    BY <1>5, <1>7, FS_Union
<1>9. QED
  BY <1>6, <1>8

\* The three kinds of places, with what there is at them.
IsServ(p, i) == p = <<i, 0, 0>>
IsChrc(a, p, i, j) == j \in DOMAIN a[i].chars /\ p = <<i, j, 0>>
IsDesc(a, p, i, j, k) ==
  j \in DOMAIN a[i].chars /\ k \in DOMAIN a[i].chars[j].descs /\ p = <<i, j, k>>
LEMMA KindOfPlace ==
  ASSUME NEW a \in Seq(ServType), NEW p \in Places(a)
  PROVE  \E i \in DOMAIN a :
           IsServ(p, i) \/ \E j : IsChrc(a, p, i, j) \/ \E k : IsDesc(a, p, i, j, k)
BY PlaceShape DEF IsServ, IsChrc, IsDesc

\* A service is there for all that is below it, a characteristic likewise.
LEMMA AbovePlace ==
  ASSUME NEW a \in Seq(ServType), NEW i \in DOMAIN a
  PROVE  /\ <<i, 0, 0>> \in Places(a)
         /\ \A j \in DOMAIN a[i].chars : <<i, j, 0>> \in Places(a)
<1>1. <<i, 0, 0>> \in Places(a)
  BY DEF Places
<1>2. ASSUME NEW j \in DOMAIN a[i].chars
      PROVE  <<i, j, 0>> \in Places(a)
  <2>1. <<i, j, 0>> \in UNION {{<<m, n, 0>> : n \in DOMAIN a[m].chars} : m \in DOMAIN a}
    OBVIOUS
  <2>2. QED
    BY <2>1 DEF Places
<1>3. QED
  BY <1>1, <1>2

\* The key of an attribute is made of the UUIDs on the way to it, with a 0 for
\* what is not on the way; its own UUID is the last of them.
LEMMA AtServ ==
  ASSUME NEW a \in Seq(ServType), NEW i \in DOMAIN a, NEW p, IsServ(p, i)
  PROVE  /\ p[1] = i /\ p[2] = 0 /\ p[3] = 0
         /\ KeyAt(a, p) = <<a[i].id, 0, 0>> /\ IdAt(a, p) = a[i].id
         /\ KeyAt(a, p)[1] = a[i].id /\ KeyAt(a, p)[2] = 0 /\ KeyAt(a, p)[3] = 0
<1>1. p[1] = i /\ p[2] = 0 /\ p[3] = 0
  BY DEF IsServ
<1>2. KeyAt(a, p) = <<a[i].id, 0, 0>> /\ IdAt(a, p) = a[i].id
  BY <1>1 DEF KeyAt, Key, IdAt
<1>3. QED
  BY <1>1, <1>2

LEMMA AtChrc ==
  ASSUME NEW a \in Seq(ServType), NEW i \in DOMAIN a, NEW j, NEW p, IsChrc(a, p, i, j)
  PROVE  /\ p[1] = i /\ p[2] = j /\ j # 0 /\ p[3] = 0
         /\ KeyAt(a, p) = <<a[i].id, a[i].chars[j].id, 0>> /\ IdAt(a, p) = a[i].chars[j].id
         /\ KeyAt(a, p)[1] = a[i].id /\ KeyAt(a, p)[2] = a[i].chars[j].id /\ KeyAt(a, p)[3] = 0
<1>1. p[1] = i /\ p[2] = j /\ p[3] = 0
  BY DEF IsChrc
<1>2. j # 0
  BY AtPlace DEF IsChrc
<1>3. KeyAt(a, p) = <<a[i].id, a[i].chars[j].id, 0>> /\ IdAt(a, p) = a[i].chars[j].id
  BY <1>1, <1>2 DEF KeyAt, Key, IdAt
<1>4. QED
  BY <1>1, <1>2, <1>3

LEMMA AtDesc ==
  ASSUME NEW a \in Seq(ServType), NEW i \in DOMAIN a, NEW j, NEW k, NEW p, IsDesc(a, p, i, j, k)
  PROVE  /\ p[1] = i /\ p[2] = j /\ j # 0 /\ p[3] = k /\ k # 0
         /\ KeyAt(a, p) = <<a[i].id, a[i].chars[j].id, a[i].chars[j].descs[k].id>>
         /\ IdAt(a, p) = a[i].chars[j].descs[k].id
         /\ KeyAt(a, p)[1] = a[i].id /\ KeyAt(a, p)[2] = a[i].chars[j].id
         /\ KeyAt(a, p)[3] = a[i].chars[j].descs[k].id
<1>1. p[1] = i /\ p[2] = j /\ p[3] = k
  BY DEF IsDesc
<1>2. j # 0 /\ k # 0
  BY AtPlace DEF IsDesc
<1>3. /\ KeyAt(a, p) = <<a[i].id, a[i].chars[j].id, a[i].chars[j].descs[k].id>>
      /\ IdAt(a, p) = a[i].chars[j].descs[k].id
  BY <1>1, <1>2 DEF KeyAt, Key, IdAt
<1>4. QED
  BY <1>1, <1>2, <1>3

\* The UUID of an attribute is one of those in use.
LEMMA IdHasType ==
  ASSUME NEW a \in Seq(ServType), NEW p \in Places(a)
  PROVE  /\ p[2] = 0 => IdAt(a, p) \in ServId
         /\ p[2] # 0 /\ p[3] = 0 => IdAt(a, p) \in ChrcId
         /\ p[3] # 0 => IdAt(a, p) \in DescId
<1>1. PICK i \in DOMAIN a :
        IsServ(p, i) \/ \E j : IsChrc(a, p, i, j) \/ \E k : IsDesc(a, p, i, j, k)
  BY KindOfPlace
<1>2. CASE IsServ(p, i)
  BY <1>2, AtServ, AtPlace
<1>3. ASSUME NEW j, IsChrc(a, p, i, j)
      PROVE  p[2] # 0 /\ p[3] = 0 /\ IdAt(a, p) \in ChrcId
  BY SMTT(30), <1>3, AtChrc, AtPlace DEF IsChrc
<1>4. ASSUME NEW j, NEW k, IsDesc(a, p, i, j, k)
      PROVE  p[2] # 0 /\ p[3] # 0 /\ IdAt(a, p) \in DescId
  BY SMTT(30), <1>4, AtDesc, AtPlace DEF IsDesc
<1>5. QED
  BY <1>1, <1>2, <1>3, <1>4

\* Siblings have different UUIDs, so a key tells the way down to an attribute
\* as long as there is no 0 in it: what shares the key of an attribute whose
\* own UUID is not 0 is below it, and was started before it.
LEMMA SharersAreBelow ==
  ASSUME NEW a \in Seq(ServType), WellFormed(a), NEW p \in Places(a), NEW q \in Places(a),
         p # q, KeyAt(a, p) = KeyAt(a, q), IdAt(a, p) # 0
  PROVE  StartsBefore(q, p)
<1> DEFINE C(m) == a[m].chars
           E(m, j) == a[m].chars[j].descs
<1>1. PICK i \in DOMAIN a :
        IsServ(p, i) \/ \E j : IsChrc(a, p, i, j) \/ \E k : IsDesc(a, p, i, j, k)
  BY KindOfPlace
<1>2. PICK l \in DOMAIN a :
        IsServ(q, l) \/ \E j : IsChrc(a, q, l, j) \/ \E k : IsDesc(a, q, l, j, k)
  BY KindOfPlace
<1>3. \A m, n \in DOMAIN a : a[m].id = a[n].id => m = n
  BY DEF WellFormed, Distinct
<1>4. /\ \A j, n \in DOMAIN C(i) : C(i)[j].id = C(i)[n].id => j = n
      /\ \A j \in DOMAIN C(i) : \A k, n \in DOMAIN E(i, j) : E(i, j)[k].id = E(i, j)[n].id => k = n
  <2>1. WellFormedServ(a[i])
    BY DEF WellFormed
  <2>2. QED
    BY <2>1 DEF WellFormedServ, Distinct
<1>5. i = l /\ p[1] = q[1]
  <2>1. KeyAt(a, p)[1] = a[i].id /\ p[1] = i
    BY <1>1, AtServ, AtChrc, AtDesc
  <2>2. KeyAt(a, q)[1] = a[l].id /\ q[1] = l
    BY <1>2, AtServ, AtChrc, AtDesc
  <2>3. QED
    BY <1>3, <2>1, <2>2
<1>6. CASE IsServ(p, i)
  <2>1. p[2] = 0 /\ ~IsServ(q, i)
    BY <1>6, AtServ DEF IsServ
  <2>2. q[2] # 0
    BY <1>2, <1>5, <2>1, AtChrc, AtDesc
  <2>3. QED
    BY <1>5, <2>1, <2>2 DEF StartsBefore, Earlier
<1>7. ASSUME NEW j, IsChrc(a, p, i, j)
      PROVE  StartsBefore(q, p)
  <2>1. /\ KeyAt(a, p)[2] = C(i)[j].id /\ C(i)[j].id # 0
        /\ p[2] = j /\ p[3] = 0 /\ j \in DOMAIN C(i)
    BY <1>7, AtChrc DEF IsChrc
  <2>s. ~IsServ(q, l)
    BY <2>1, AtServ
  <2>2. PICK m : IsChrc(a, q, i, m) \/ \E k : IsDesc(a, q, i, m, k)
    BY <1>2, <1>5, <2>s
  <2>3. KeyAt(a, q)[2] = C(i)[m].id /\ q[2] = m /\ m \in DOMAIN C(i)
    BY <2>2, AtChrc, AtDesc DEF IsChrc, IsDesc
  <2>4. m = j
    BY <1>4, <2>1, <2>3
  <2>5. ~IsChrc(a, q, i, j)
    BY <1>7 DEF IsChrc
  <2>6. q[3] # 0
    BY <2>2, <2>4, <2>5, AtDesc
  <2>7. QED
    BY <1>5, <2>1, <2>3, <2>4, <2>6 DEF StartsBefore, Earlier
<1>8. ASSUME NEW j, NEW k, IsDesc(a, p, i, j, k)
      PROVE  FALSE
  <2>1. /\ KeyAt(a, p)[2] = C(i)[j].id /\ KeyAt(a, p)[3] = E(i, j)[k].id /\ E(i, j)[k].id # 0
        /\ j \in DOMAIN C(i) /\ k \in DOMAIN E(i, j)
    BY <1>8, AtDesc DEF IsDesc
  <2>2. PICK m, n : IsDesc(a, q, i, m, n)
    BY <1>2, <1>5, <2>1, AtServ, AtChrc
  <2>3. /\ KeyAt(a, q)[2] = C(i)[m].id /\ KeyAt(a, q)[3] = E(i, m)[n].id
        /\ m \in DOMAIN C(i) /\ n \in DOMAIN E(i, m)
    BY <2>2, AtDesc DEF IsDesc
  <2>4. m = j
    BY <1>4, <2>1, <2>3
  <2>5. n = k
    BY <1>4, <2>1, <2>3, <2>4
  <2>6. QED
    BY <1>8, <2>2, <2>4, <2>5 DEF IsDesc
<1>9. QED
  BY <1>1, <1>6, <1>7, <1>8

\* An attribute below another whose own UUID is 0 has the key of that other,
\* which is started after it.
LEMMA ZeroIsReplaced ==
  ASSUME NEW a \in Seq(ServType), NEW p \in Places(a), IdAt(a, p) = 0, p[2] # 0
  PROVE  \E q \in Places(a) \ {p} : KeyAt(a, p) = KeyAt(a, q) /\ ~StartsBefore(q, p)
<1>1. PICK i \in DOMAIN a :
        IsServ(p, i) \/ \E j : IsChrc(a, p, i, j) \/ \E k : IsDesc(a, p, i, j, k)
  BY KindOfPlace
<1>2. i \in Nat
  BY AtPlace
<1>3. ASSUME NEW j, IsChrc(a, p, i, j)
      PROVE  \E q \in Places(a) \ {p} : KeyAt(a, p) = KeyAt(a, q) /\ ~StartsBefore(q, p)
  <2> DEFINE q == <<i, 0, 0>>
  <2>1. IsServ(q, i) /\ q \in Places(a)
    BY AbovePlace DEF IsServ
  <2>2. KeyAt(a, p) = <<a[i].id, 0, 0>> /\ p[1] = i /\ p[2] # 0
    BY <1>3, AtChrc
  <2>3. KeyAt(a, q) = <<a[i].id, 0, 0>> /\ q[1] = i /\ q[2] = 0
    BY <2>1, AtServ
  <2> HIDE DEF q
  <2>4. ~StartsBefore(q, p)
    BY <1>2, <2>2, <2>3 DEF StartsBefore, Earlier
  <2>5. QED
    BY <2>1, <2>2, <2>3, <2>4
<1>4. ASSUME NEW j, NEW k, IsDesc(a, p, i, j, k)
      PROVE  \E q \in Places(a) \ {p} : KeyAt(a, p) = KeyAt(a, q) /\ ~StartsBefore(q, p)
  <2> DEFINE q == <<i, j, 0>>
  <2>1. IsChrc(a, q, i, j) /\ q \in Places(a) /\ j \in Nat
    BY <1>4, AbovePlace, AtPlace DEF IsChrc, IsDesc
  <2>2. KeyAt(a, p) = <<a[i].id, a[i].chars[j].id, 0>> /\ p[1] = i /\ p[2] = j /\ p[3] # 0
    BY <1>4, AtDesc
  <2>3. KeyAt(a, q) = <<a[i].id, a[i].chars[j].id, 0>> /\ q[1] = i /\ q[2] = j /\ q[3] = 0
    BY <2>1, AtChrc
  <2> HIDE DEF q
  <2>4. ~StartsBefore(q, p)
    BY <1>2, <2>1, <2>2, <2>3 DEF StartsBefore, Earlier
  <2>5. QED
    BY <2>1, <2>2, <2>3, <2>4
<1>5. QED
  BY <1>1, <1>3, <1>4, AtServ

\* So the attributes that keep their worker are those with another UUID.
LEMMA WorkersAreNonZero ==
  ASSUME NEW a \in Seq(ServType), WellFormed(a)
  PROVE  Workers(a) = {p \in Places(a) : IdAt(a, p) # 0}
<1>0. Key(0, 0, 0)[1] = 0 /\ Key(0, 0, 0)[2] = 0 /\ Key(0, 0, 0)[3] = 0
  BY DEF Key
<1>1. ASSUME NEW p \in Places(a), IdAt(a, p) # 0
      PROVE  KeyAt(a, p) # Key(0, 0, 0)
  <2>1. PICK i \in DOMAIN a :
          IsServ(p, i) \/ \E j : IsChrc(a, p, i, j) \/ \E k : IsDesc(a, p, i, j, k)
    BY KindOfPlace
  <2>2. IdAt(a, p) \in {KeyAt(a, p)[1], KeyAt(a, p)[2], KeyAt(a, p)[3]}
    BY <2>1, AtServ, AtChrc, AtDesc
  <2>3. QED
    BY <1>0, <1>1, <2>2
<1>2. ASSUME NEW p \in Places(a), IdAt(a, p) = 0
      PROVE  p \notin Workers(a)
  <2>1. CASE p[2] = 0
    <3>1. PICK i \in DOMAIN a : IsServ(p, i)
      BY <2>1, KindOfPlace, AtChrc, AtDesc
    <3>2. KeyAt(a, p) = Key(0, 0, 0)
      BY <1>2, <3>1, AtServ DEF Key
    <3>3. QED
      BY <3>2 DEF Workers
  <2>2. CASE p[2] # 0
    BY <1>2, <2>2, ZeroIsReplaced DEF Workers
  <2>3. QED
    BY <2>1, <2>2
<1>3. QED
  BY <1>1, <1>2, SharersAreBelow DEF Workers

\* The order in which unregister sees the parts is a sequence of places.
LEMMA HeapHasType ==
  ASSUME NEW a \in Seq(ServType), NEW h \in HeapOrders(a)
  PROVE  h \in Seq(Places(a))
<1>1. Workers(a) \subseteq Places(a)
  BY DEF Workers
<1>2. Cardinality(Workers(a)) \in Nat
  BY <1>1, PlacesAreFinite, FS_Subset, FS_CardinalityType
<1>3. h \in [1 .. Cardinality(Workers(a)) -> Places(a)]
  BY <1>1 DEF HeapOrders
<1>4. QED
  BY <1>2, <1>3, SeqDef

------------------------------------------------------------------------------
(* The theorems. *)

LEMMA InitTree == Init => TreeInv
<1> SUFFICES ASSUME Init PROVE TreeInv
  OBVIOUS
<1>1. \A S : <<>> \in Seq(S) /\ DOMAIN <<>> = {}
  BY EmptySeq
<1>2. WellFormed(<<>>)
  BY <1>1 DEF WellFormed, Distinct
<1>3. QED
  BY <1>1, <1>2 DEF Init, TreeInv, TypeOK, UniqueIds

\* What the user does with what he builds.
LEMMA BuildKeepsTree ==
  ASSUME TreeInv,
         \/ \E s \in ServId : NewServ(s) \/ RemoveService(s)
         \/ \E c \in ChrcId : NewChrc(c) \/ RemoveChar(c)
         \/ \E d \in DescId : AddDesc(d) \/ RemoveDesc(d)
         \/ AddChar \/ AddService
  PROVE  TreeInv'
<1> USE DEF TreeInv, TypeOK, UniqueIds, draft, cursors
<1>1. newServ # None => TakenServ(newServ)
  BY DEF TakenServ
<1>2. newChrc # None => Taken(newChrc)
  BY DEF Taken
<1>3. ASSUME NEW s \in ServId, NewServ(s)
      PROVE  TreeInv'
  BY <1>3, EmptyTaken DEF NewServ, TakenServ
<1>4. ASSUME NEW s \in ServId, RemoveService(s)
      PROVE  TreeInv'
  BY <1>4, AppKeeps DEF RemoveService
<1>5. ASSUME NEW c \in ChrcId, NewChrc(c)
      PROVE  TreeInv'
  BY <1>5, EmptyTaken DEF NewChrc, Taken
<1>6. ASSUME NEW c \in ChrcId, RemoveChar(c)
      PROVE  TreeInv'
  <2>1. TakenServ(newServ')
    BY <1>1, <1>6, ServKeeps DEF RemoveChar
  <2>2. QED
    BY <1>6, <2>1 DEF RemoveChar, TakenServ
<1>7. ASSUME NEW d \in DescId, AddDesc(d)
      PROVE  TreeInv'
  <2>1. Desc(d) \in DescType
    BY DEF Desc, DescType
  <2>2. Taken(newChrc')
    BY <1>2, <1>7, <2>1, ChrcKeeps DEF AddDesc
  <2>3. QED
    BY <1>7, <2>2 DEF AddDesc, Taken
<1>8. ASSUME NEW d \in DescId, RemoveDesc(d)
      PROVE  TreeInv'
  <2>1. Taken(newChrc')
    BY <1>2, <1>8, ChrcKeeps DEF RemoveDesc
  <2>2. QED
    BY <1>8, <2>1 DEF RemoveDesc, Taken
<1>9. CASE AddChar
  <2>1. TakenServ(newServ')
    BY <1>1, <1>2, <1>9, ServKeeps DEF AddChar
  <2>2. QED
    BY <1>9, <2>1 DEF AddChar, TakenServ
<1>10. CASE AddService
  <2>1. app' \in Seq(ServType) /\ WellFormed(app')
    BY <1>1, <1>10, AppKeeps DEF AddService
  <2>2. QED
    BY <1>10, <2>1 DEF AddService
<1>11. QED
  BY <1>3, <1>4, <1>5, <1>6, <1>7, <1>8, <1>9, <1>10

\* The loop of unregister.
LEMMA RebuildKeepsTree ==
  ASSUME TreeInv, PutServ \/ PutChrc \/ PutDesc \/ Return
  PROVE  TreeInv'
<1> USE DEF TreeInv, TypeOK, UniqueIds, draft
<1>1. serv # None => TakenServ(serv)
  BY DEF TakenServ
<1>2. chrc # None => Taken(chrc)
  BY DEF Taken
<1>3. ASSUME left # <<>>, orig' = orig
      PROVE  /\ Tail(left) \in Seq(Places(orig')) /\ Places(orig') = Places(orig)
             /\ Head(left)[2] = 0 => Part \in ServId
             /\ Head(left)[2] # 0 /\ Head(left)[3] = 0 => Part \in ChrcId
             /\ Head(left)[3] # 0 => Part \in DescId
  <2>1. Head(left) \in Places(orig) /\ Tail(left) \in Seq(Places(orig))
    BY <1>3, HeadTailProperties
  <2>2. QED
    BY <1>3, <2>1, IdHasType DEF Part
<1>4. CASE PutServ
  <2>1. TakenServ(serv')
    BY <1>3, <1>4, EmptyTaken DEF PutServ
  <2>2. app' \in Seq(ServType) /\ WellFormed(app')
    BY <1>1, <1>4, AppKeeps DEF PutServ
  <2>3. phase' \in {"build", "serving", "rebuild", "done", "panic"}
    BY <1>4 DEF PutServ
  <2>4. QED
    BY <1>3, <1>4, <2>1, <2>2, <2>3 DEF PutServ, TakenServ
<1>5. CASE PutChrc
  <2>1. Taken(chrc')
    BY <1>3, <1>5, EmptyTaken DEF PutChrc
  <2>2. serv' = serv \/ TakenServ(serv')
    BY <1>1, <1>2, <1>5, ServKeeps DEF PutChrc
  <2>3. phase' \in {"build", "serving", "rebuild", "done", "panic"}
    BY <1>5 DEF PutChrc
  <2>4. QED
    BY <1>3, <1>5, <2>1, <2>2, <2>3 DEF PutChrc, Taken, TakenServ
<1>6. CASE PutDesc
  <2>1. desc' \in DescType
    BY <1>3, <1>6 DEF PutDesc, Desc, DescType
  <2>2. chrc' = chrc \/ Taken(chrc')
    BY <1>2, <1>6, ChrcKeeps DEF PutDesc
  <2>3. phase' \in {"build", "serving", "rebuild", "done", "panic"}
    BY <1>6 DEF PutDesc
  <2>4. QED
    BY <1>3, <1>6, <2>1, <2>2, <2>3 DEF PutDesc, Taken
<1>7. CASE Return
  BY <1>7 DEF Return
<1>8. QED
  BY <1>4, <1>5, <1>6, <1>7

\* The application stays well formed under every operation, in the hands of
\* the user and of unregister: no two siblings have the same UUID, although
\* unregister may put an attribute below another parent (mod.rs:425-449).
THEOREM TreeStaysWellFormed == Spec => []TreeInv
<1>1. TreeInv /\ [Next]_vars => TreeInv'
  <2> SUFFICES ASSUME TreeInv, [Next]_vars
               PROVE  TreeInv'
    OBVIOUS
  <2>1. CASE \/ \E s \in ServId : NewServ(s) \/ RemoveService(s)
             \/ \E c \in ChrcId : NewChrc(c) \/ RemoveChar(c)
             \/ \E d \in DescId : AddDesc(d) \/ RemoveDesc(d)
             \/ AddChar \/ AddService
    BY <2>1, BuildKeepsTree
  <2>2. CASE Register
    <3>1. <<>> \in Seq(ServType) /\ WellFormed(<<>>)
      BY EmptySeq DEF WellFormed, Distinct
    <3>2. left = <<>> /\ left' = left /\ \A S : <<>> \in Seq(S)
      BY <2>2, EmptySeq DEF Register, TreeInv, TypeOK
    <3>3. left' \in Seq(Places(orig)') /\ (phase' = "build" => left' = <<>>)
      BY <3>2
    <3>4. QED
      BY <2>2, <3>1, <3>3 DEF Register, TreeInv, TypeOK, UniqueIds, cursors
  <2>3. CASE Unregister
    <3>1. left' \in Seq(Places(orig'))
      BY <2>3, HeapHasType DEF Unregister, TreeInv, TypeOK, UniqueIds
    <3>2. QED
      BY <2>3, <3>1 DEF Unregister, TreeInv, TypeOK, UniqueIds, draft, cursors
  <2>4. CASE PutServ \/ PutChrc \/ PutDesc \/ Return
    BY <2>4, RebuildKeepsTree
  <2>5. CASE UNCHANGED vars
    BY <2>5 DEF vars, TreeInv, TypeOK, UniqueIds
  <2>6. QED
    BY <2>1, <2>2, <2>3, <2>4, <2>5 DEF Next
<1>2. QED
  BY InitTree, <1>1, PTL DEF Spec

\* Of whatever application the builder lets through, register loses just the
\* attributes whose own UUID is 0, replaced under their key in the HashMap of
\* workers (mod.rs:291-297, 365); the AppWorker reaches all the others.
THEOREM OnlyZeroIsLost == Spec => []AppWorkerReaches
<1>1. TreeInv => AppWorkerReaches
  BY WorkersAreNonZero DEF TreeInv, TypeOK, UniqueIds, AppWorkerReaches
<1>2. QED
  BY TreeStaysWellFormed, <1>1, PTL
==============================================================================
