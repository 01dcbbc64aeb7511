--------------------------- MODULE RoutingProofs ---------------------------
(***************************************************************************)
(* The routing table stays well formed under every interleaving of         *)
(* insertions, pings, lookups and removals, implements KnownPeers, evicts  *)
(* the right peers as long as no bucket changes under a ping, and lookups  *)
(* return the nearest peers: for every set of ids, bucket size, number of  *)
(* tasks and set of answers.                                               *)
(***************************************************************************)
EXTENDS RoutingTable, FiniteSetTheorems, SequenceTheorems, TLAPS

(* A set of naturals that is not empty has a least element, and one that   *)
(* is bounded has a greatest.                                              *)
LEMMA LeastElement ==
    ASSUME NEW S \in SUBSET Nat, S # {}
    PROVE  \E m \in S : \A n \in S : m <= n
<1> DEFINE R == {p \in Nat \X Nat : p[1] < p[2]}
<1>1. IsWellFoundedOn(R, Nat)
    BY NatLessThanWellFounded DEF OpToRel
<1>2. PICK m \in S : \A n \in S : ~(<<n, m>> \in R)
  <2> HIDE DEF R
  <2> QED BY <1>1, WFMin
<1>3. ASSUME NEW n \in S PROVE m <= n
  <2>1. m \in Nat /\ n \in Nat
      BY <1>2
  <2>2. ~(n < m)
      BY <1>2, <2>1
  <2> QED BY <2>1, <2>2
<1> QED BY <1>2, <1>3

LEMMA GreatestElement ==
    ASSUME NEW S \in SUBSET Nat, S # {}, NEW top \in Nat, \A n \in S : n <= top
    PROVE  \E m \in S : \A n \in S : n <= m
<1> DEFINE B == {u \in Nat : \A n \in S : n <= u}
<1>1. PICK u \in B : \A v \in B : u <= v
  <2>1. B \in SUBSET Nat /\ B # {}
      OBVIOUS
  <2> HIDE DEF B
  <2> QED BY <2>1, LeastElement
<1>2. u \in S
  <2> SUFFICES ASSUME u \notin S PROVE FALSE
      OBVIOUS
  <2>1. \A n \in S : n < u
      BY <1>1
  <2>2. u - 1 \in B
    <3>1. PICK n \in S : TRUE
        OBVIOUS
    <3>2. u \in Nat /\ n < u
        BY <1>1, <2>1, <3>1
    <3> QED BY <2>1, <3>1, <3>2
  <2> QED BY <1>1, <2>2
<1> QED BY <1>1, <1>2

-----------------------------------------------------------------------------
(* Nth numbers the elements of a finite set of naturals in their order. *)
UpTo(S, i) == {h \in S : h <= i}

LEMMA Ranks ==
    ASSUME NEW S \in SUBSET Nat, IsFiniteSet(S), NEW top \in Nat, \A n \in S : n <= top
    PROVE  /\ \A i \in S : Cardinality(UpTo(S, i)) \in 1..Cardinality(S)
           /\ \A i, j \in S : i < j => Cardinality(UpTo(S, i)) < Cardinality(UpTo(S, j))
           /\ \A n \in 1..Cardinality(S) : \E i \in S : Cardinality(UpTo(S, i)) = n
<1> DEFINE C(i) == Cardinality(UpTo(S, i))
<1>1. \A i \in S : /\ IsFiniteSet(UpTo(S, i)) /\ C(i) \in Nat /\ C(i) <= Cardinality(S)
                   /\ Cardinality(S) \in Nat
    BY FS_Subset, FS_CardinalityType DEF UpTo
<1>2. ASSUME NEW i \in S PROVE C(i) >= 1
  <2>1. UpTo(S, i) # {}
      BY DEF UpTo
  <2> QED BY <1>1, <2>1, FS_EmptySet
<1>3. ASSUME NEW i \in S, NEW j \in S, i < j PROVE C(i) < C(j)
  <2>1. UpTo(S, i) \in SUBSET UpTo(S, j) /\ j \in UpTo(S, j) /\ j \notin UpTo(S, i)
    <3>1. i \in Nat /\ j \in Nat /\ \A h \in S : h \in Nat
        OBVIOUS
    <3>2. ASSUME NEW h \in S PROVE h <= i => h <= j
        BY <1>3, <3>1
    <3>3. j <= j /\ ~(j <= i)
        BY <1>3, <3>1
    <3> QED BY <3>2, <3>3 DEF UpTo
  <2>2. C(i) <= C(j) /\ C(i) # C(j)
    <3> HIDE DEF C
    <3> QED BY <1>1, <2>1, FS_Subset DEF C
  <2> QED BY <1>1, <2>2
<1>4. ASSUME NEW n \in 1..Cardinality(S) PROVE \E i \in S : C(i) = n
  <2> DEFINE High == {i \in S : C(i) >= n}
  <2>1. S # {}
      BY FS_EmptySet, FS_CardinalityType
  <2>2. PICK m \in S : \A x \in S : x <= m
      BY <2>1, GreatestElement
  <2>3. UpTo(S, m) = S
      BY <2>2 DEF UpTo
  <2>4. m \in High
      BY <2>2, <2>3, FS_CardinalityType
  <2>5. PICK i \in High : \A j \in High : i <= j
    <3>1. High \in SUBSET Nat /\ High # {}
        BY <2>4
    <3> HIDE DEF High
    <3> QED BY <3>1, LeastElement
  <2>6. ASSUME C(i) > n PROVE FALSE
    <3> DEFINE Below == UpTo(S, i) \ {i}
    <3>1. /\ IsFiniteSet(Below) /\ Cardinality(Below) = C(i) - 1
        BY <1>1, FS_RemoveElement DEF UpTo
    <3>2. Cardinality(Below) >= n /\ Cardinality(Below) # 0
        BY <1>1, <2>6, <3>1
    <3>3. Below # {} /\ Below \in SUBSET Nat /\ \A x \in Below : x <= i
        BY <3>2, FS_EmptySet DEF UpTo
    <3>4. PICK j \in Below : \A x \in Below : x <= j
      <4> HIDE DEF Below
      <4>1. i \in Nat
          OBVIOUS
      <4> QED BY <3>3, <4>1, GreatestElement
    <3>5. j \in S /\ j < i
        BY <3>4 DEF UpTo
    <3>6. UpTo(S, j) = Below
      <4>1. i \in Nat /\ j \in Nat /\ \A h \in S : h \in Nat
          BY <3>5
      <4>2. ASSUME NEW h \in S PROVE h <= j <=> (h <= i /\ h # i)
          BY <3>4, <3>5, <4>1 DEF UpTo
      <4> QED BY <4>2 DEF UpTo
    <3>7. j \in High
        BY <3>2, <3>5, <3>6
    <3> QED BY <2>5, <3>5, <3>7
  <2> QED BY <1>1, <2>5, <2>6
<1> QED BY <1>1, <1>2, <1>3, <1>4

LEMMA NthElement ==
    ASSUME NEW S \in SUBSET Nat, IsFiniteSet(S), NEW top \in Nat, \A n \in S : n <= top
    PROVE  /\ \A n \in 1..Cardinality(S) : Nth(S, n) \in S
           /\ \A i \in S : \E n \in 1..Cardinality(S) : Nth(S, n) = i
           /\ \A m, n \in 1..Cardinality(S) : Nth(S, m) = Nth(S, n) => m = n
<1>1. /\ \A i \in S : Cardinality(UpTo(S, i)) \in 1..Cardinality(S)
      /\ \A i, j \in S : i < j => Cardinality(UpTo(S, i)) < Cardinality(UpTo(S, j))
      /\ \A n \in 1..Cardinality(S) : \E i \in S : Cardinality(UpTo(S, i)) = n
    BY Ranks
<1>2. ASSUME NEW n \in 1..Cardinality(S)
      PROVE  Nth(S, n) \in S /\ Cardinality(UpTo(S, Nth(S, n))) = n
    BY <1>1 DEF Nth, UpTo
<1>3. ASSUME NEW i \in S PROVE \E n \in 1..Cardinality(S) : Nth(S, n) = i
  <2> DEFINE n == Cardinality(UpTo(S, i))
             j == Nth(S, n)
  <2>1. n \in 1..Cardinality(S)
      BY <1>1
  <2>2. j \in S /\ Cardinality(UpTo(S, j)) = n
      BY <1>2, <2>1
  <2> HIDE DEF j
  <2>3. i \in Nat /\ j \in Nat /\ n \in Int
      BY <2>1, <2>2
  <2>4. ~(i < j) /\ ~(j < i)
      BY <1>1, <2>2, <2>3
  <2>5. i = j
      BY <2>3, <2>4
  <2> QED BY <2>1, <2>5 DEF j
<1>4. ASSUME NEW m \in 1..Cardinality(S), NEW n \in 1..Cardinality(S), Nth(S, m) = Nth(S, n)
      PROVE  m = n
    BY <1>2, <1>4
<1> QED BY <1>2, <1>3, <1>4

(* The entries at some positions of a sequence: as many as positions, and  *)
(* none of them twice if the sequence had none twice.                      *)
LEMMA SubsequenceProperties ==
    ASSUME NEW A, NEW s \in Seq(A), NEW S \in SUBSET (DOMAIN s)
    PROVE  /\ Subsequence(s, S) \in Seq(A)
           /\ Len(Subsequence(s, S)) <= Len(s)
           /\ \A x : x \in Range(Subsequence(s, S)) <=> \E i \in S : s[i] = x
           /\ Distinct(s) => Distinct(Subsequence(s, S))
<1> DEFINE c == Cardinality(S)
           r == Subsequence(s, S)
<1>1. /\ S \in SUBSET (1..Len(s)) /\ Len(s) \in Nat /\ \A i \in S : i \in Nat /\ i <= Len(s)
    OBVIOUS
<1>2. IsFiniteSet(1..Len(s)) /\ Cardinality(1..Len(s)) = Len(s)
  <2> DEFINE n == Len(s)
  <2>1. n \in Nat
      BY <1>1
  <2> HIDE DEF n
  <2>2. IsFiniteSet(1..n) /\ Cardinality(1..n) = n
      BY <2>1, FS_Interval
  <2> QED BY <2>2 DEF n
<1>3. IsFiniteSet(S) /\ c \in Nat /\ c <= Len(s)
    BY <1>1, <1>2, FS_Subset, FS_CardinalityType
<1>4. /\ \A n \in 1..c : Nth(S, n) \in S
      /\ \A i \in S : \E n \in 1..c : Nth(S, n) = i
      /\ \A m, n \in 1..c : Nth(S, m) = Nth(S, n) => m = n
  <2>1. S \in SUBSET Nat
      BY <1>1
  <2> QED BY <1>1, <1>3, <2>1, NthElement
<1>5. r = [n \in 1..c |-> s[Nth(S, n)]]
    BY DEF Subsequence
<1> HIDE DEF c, r
<1>6. r \in Seq(A) /\ Len(r) = c
  <2>1. \A n \in 1..c : s[Nth(S, n)] \in A
    <3>1. \A i \in S : s[i] \in A
        OBVIOUS
    <3> QED BY <1>4, <3>1
  <2> QED BY <1>3, <1>5, <2>1
<1>7. ASSUME NEW i \in S PROVE s[i] \in Range(r)
  <2>1. PICK n \in 1..c : Nth(S, n) = i
      BY <1>4
  <2>2. n \in DOMAIN r /\ r[n] = s[i]
      BY <1>5, <2>1
  <2> QED BY <2>2 DEF Range
<1>8. ASSUME NEW x \in Range(r) PROVE \E i \in S : s[i] = x
  <2>1. PICK n \in 1..c : r[n] = x
      BY <1>5 DEF Range
  <2> QED BY <1>4, <1>5, <2>1
<1>9. ASSUME Distinct(s), NEW m \in 1..c, NEW n \in 1..c, r[m] = r[n] PROVE m = n
  <2>1. s[Nth(S, m)] = s[Nth(S, n)] /\ Nth(S, m) \in DOMAIN s /\ Nth(S, n) \in DOMAIN s
      BY <1>4, <1>5, <1>9
  <2>2. Nth(S, m) = Nth(S, n)
      BY <1>9, <2>1 DEF Distinct
  <2> QED BY <1>4, <2>2
<1>10. Distinct(s) => Distinct(r)
    BY <1>5, <1>9 DEF Distinct
<1> QED BY <1>3, <1>6, <1>7, <1>8, <1>10 DEF r

(* retain: the bucket loses the node, however often it is listed. *)
LEMMA WithoutProperties ==
    ASSUME NEW A, NEW s \in Seq(A), NEW id
    PROVE  /\ Without(s, id) \in Seq(A)
           /\ Len(Without(s, id)) <= Len(s)
           /\ Range(Without(s, id)) = Range(s) \ {id}
           /\ Distinct(s) => Distinct(Without(s, id))
<1> DEFINE S == {i \in DOMAIN s : s[i] # id}
<1>1. S \in SUBSET (DOMAIN s) /\ Without(s, id) = Subsequence(s, S)
    BY DEF Without
<1>2. \A x : x \in Range(s) \ {id} <=> \E i \in S : s[i] = x
    BY DEF Range
<1> HIDE DEF S
<1> QED BY <1>1, <1>2, SubsequenceProperties

(* KBucket::insert puts a new node in front ... *)
LEMMA PrependProperties ==
    ASSUME NEW A, NEW s \in Seq(A), NEW id \in A
    PROVE  /\ <<id>> \o s \in Seq(A)
           /\ Len(<<id>> \o s) = Len(s) + 1
           /\ Range(<<id>> \o s) = Range(s) \cup {id}
           /\ Distinct(s) /\ id \notin Range(s) => Distinct(<<id>> \o s)
<1> DEFINE r == <<id>> \o s
<1>1. /\ r \in Seq(A) /\ Len(r) = Len(s) + 1 /\ r[1] = id
      /\ \A i \in DOMAIN s : i + 1 \in DOMAIN r /\ r[i + 1] = s[i]
      /\ \A i \in DOMAIN r : i = 1 \/ (i - 1 \in DOMAIN s /\ r[i] = s[i - 1])
    OBVIOUS
<1> HIDE DEF r
<1>2. ASSUME NEW x \in Range(r) PROVE x \in Range(s) \cup {id}
    BY <1>1 DEF Range
<1>3. ASSUME NEW x \in Range(s) \cup {id} PROVE x \in Range(r)
  <2>1. CASE x = id
      BY <1>1, <2>1 DEF Range
  <2>2. CASE x \in Range(s)
    <3>1. PICK i \in DOMAIN s : s[i] = x
        BY <2>2 DEF Range
    <3> QED BY <1>1, <3>1 DEF Range
  <2> QED BY <2>1, <2>2
<1>4. ASSUME Distinct(s), id \notin Range(s), NEW i \in DOMAIN r, NEW j \in DOMAIN r, r[i] = r[j]
      PROVE  i = j
  <2>1. \A k \in DOMAIN s : s[k] # id
      BY <1>4 DEF Range
  <2>2. i \in Int /\ j \in Int /\ DOMAIN s \subseteq Int
      BY <1>1
  <2>3. i = 1 <=> j = 1
      BY <1>1, <1>4, <2>1
  <2>4. CASE i # 1
    <3>1. i - 1 \in DOMAIN s /\ j - 1 \in DOMAIN s /\ s[i - 1] = s[j - 1]
        BY <1>1, <1>4, <2>3, <2>4
    <3>2. i - 1 = j - 1
        BY <1>4, <3>1 DEF Distinct
    <3> QED BY <2>2, <3>2
  <2> QED BY <2>3, <2>4
<1>5. Distinct(s) /\ id \notin Range(s) => Distinct(r)
    BY <1>4 DEF Distinct
<1> QED BY <1>1, <1>2, <1>3, <1>5 DEF r

(* ... and one that is known moves there. *)
LEMMA MoveToHeadProperties ==
    ASSUME NEW A, NEW s \in Seq(A), NEW id \in A, id \in Range(s)
    PROVE  /\ MoveToHead(s, id) \in Seq(A)
           /\ Len(MoveToHead(s, id)) = Len(s)
           /\ Range(MoveToHead(s, id)) = Range(s)
           /\ Distinct(s) => Distinct(MoveToHead(s, id))
<1> DEFINE p == Position(s, id)
           r == MoveToHead(s, id)
<1>1. p \in DOMAIN s /\ s[p] = id
  <2> DEFINE S == {i \in DOMAIN s : s[i] = id}
  <2>1. S \in SUBSET Nat /\ S # {}
      BY DEF Range
  <2>2. PICK m \in S : \A n \in S : m <= n
    <3> HIDE DEF S
    <3> QED BY <2>1, LeastElement
  <2> QED BY <2>2 DEF Position
<1>2. r = <<id>> \o (SubSeq(s, 1, p - 1) \o SubSeq(s, p + 1, Len(s)))
    BY DEF MoveToHead, RemoveAt
<1> HIDE DEF p, r
<1>3. /\ r \in Seq(A) /\ Len(r) = Len(s) /\ r[1] = id
      /\ \A i \in 2..p : r[i] = s[i - 1]
      /\ \A i \in (p + 1)..Len(s) : r[i] = s[i]
  <2> DEFINE a == SubSeq(s, 1, p - 1)
             b == SubSeq(s, p + 1, Len(s))
  <2>1. p \in 1..Len(s) /\ Len(s) \in Nat
      BY <1>1
  <2>2. a \in Seq(A) /\ Len(a) = p - 1 /\ \A i \in 1..(p - 1) : a[i] = s[i]
      BY <2>1
  <2>3. b \in Seq(A) /\ Len(b) = Len(s) - p /\ \A i \in 1..(Len(s) - p) : b[i] = s[p + i]
      BY <2>1
  <2> HIDE DEF a, b
  <2>4. /\ a \o b \in Seq(A) /\ Len(a \o b) = Len(s) - 1
        /\ \A i \in 1..(p - 1) : (a \o b)[i] = s[i]
        /\ \A i \in p..(Len(s) - 1) : (a \o b)[i] = s[i + 1]
    <3>1. a \o b \in Seq(A) /\ Len(a \o b) = Len(s) - 1
      <4>1. a \o b \in Seq(A) /\ Len(a \o b) = Len(a) + Len(b)
          BY <2>2, <2>3, ConcatProperties
      <4> QED BY <2>1, <2>2, <2>3, <4>1
    <3>2. ASSUME NEW i \in 1..(p - 1) PROVE (a \o b)[i] = s[i]
        BY <2>1, <2>2, <2>3
    <3>3. ASSUME NEW i \in p..(Len(s) - 1) PROVE (a \o b)[i] = s[i + 1]
      <4>1. i \in (Len(a) + 1)..(Len(a) + Len(b)) /\ i - Len(a) \in 1..(Len(s) - p)
          BY <2>1, <2>2, <2>3
      <4>2. (a \o b)[i] = b[i - Len(a)]
          BY <2>2, <2>3, <4>1
      <4>3. b[i - Len(a)] = s[p + (i - Len(a))]
          BY <2>3, <4>1
      <4> QED BY <2>1, <2>2, <4>2, <4>3
    <3> QED BY <3>1, <3>2, <3>3
  <2> DEFINE ab == a \o b
  <2>5. r = <<id>> \o ab
      BY <1>2 DEF a, b
  <2>6. ab \in Seq(A) /\ Len(ab) = Len(s) - 1
      BY <2>4
  <2> HIDE DEF ab
  <2>7. r \in Seq(A) /\ Len(r) = Len(s) /\ r[1] = id
      BY <2>1, <2>5, <2>6
  <2>8. \A i \in 2..Len(s) : r[i] = ab[i - 1]
      BY <2>1, <2>5, <2>6
  <2>9. ASSUME NEW i \in 2..p PROVE r[i] = s[i - 1]
    <3>1. i - 1 \in 1..(p - 1) /\ i \in 2..Len(s)
        BY <2>1
    <3> QED BY <2>4, <2>8, <3>1 DEF ab
  <2>10. ASSUME NEW i \in (p + 1)..Len(s) PROVE r[i] = s[i]
    <3>1. i - 1 \in p..(Len(s) - 1) /\ i \in 2..Len(s) /\ (i - 1) + 1 = i
        BY <2>1
    <3> QED BY <2>4, <2>8, <3>1 DEF ab
  <2> QED BY <2>7, <2>9, <2>10
<1>4. ASSUME NEW x \in Range(r) PROVE x \in Range(s)
  <2>1. PICK i \in DOMAIN r : r[i] = x
      BY DEF Range
  <2>2. i = 1 \/ i \in 2..p \/ i \in (p + 1)..Len(s)
      BY <1>1, <1>3, <2>1
  <2>3. CASE i = 1
      BY <1>3, <2>1, <2>3
  <2>4. CASE i \in 2..p
      BY <1>1, <1>3, <2>1, <2>4 DEF Range
  <2>5. CASE i \in (p + 1)..Len(s)
      BY <1>1, <1>3, <2>1, <2>5 DEF Range
  <2> QED BY <2>2, <2>3, <2>4, <2>5
<1>5. ASSUME NEW x \in Range(s) PROVE x \in Range(r)
  <2>1. PICK i \in DOMAIN s : s[i] = x
      BY DEF Range
  <2>2. CASE i = p
      BY <1>1, <1>3, <2>1, <2>2 DEF Range
  <2>3. CASE i < p
    <3>1. i + 1 \in 2..p /\ i + 1 \in DOMAIN r
        BY <1>1, <1>3, <2>1, <2>3
    <3>2. r[i + 1] = x
        BY <1>3, <2>1, <3>1
    <3> QED BY <3>1, <3>2 DEF Range
  <2>4. CASE i > p
      BY <1>1, <1>3, <2>1, <2>4 DEF Range
  <2> QED BY <1>1, <2>1, <2>2, <2>3, <2>4
<1>6. Distinct(s) => Distinct(r)
  <2> DEFINE from(i) == IF i = 1 THEN p ELSE IF i <= p THEN i - 1 ELSE i
  <2>1. p \in 1..Len(s) /\ Len(s) \in Nat /\ DOMAIN s = 1..Len(s) /\ DOMAIN r = 1..Len(s)
      BY <1>1, <1>3
  <2>2. ASSUME NEW i \in DOMAIN r PROVE from(i) \in DOMAIN s /\ r[i] = s[from(i)]
    <3>1. i = 1 \/ i \in 2..p \/ i \in (p + 1)..Len(s)
        BY <2>1
    <3> QED BY <1>1, <1>3, <2>1, <3>1
  <2>3. ASSUME NEW i \in DOMAIN r, NEW j \in DOMAIN r, from(i) = from(j) PROVE i = j
      BY <2>1, <2>3
  <2> HIDE DEF from
  <2> QED BY <2>2, <2>3 DEF Distinct
<1> QED BY <1>3, <1>4, <1>5, <1>6 DEF r

(* replace_tail: the new node comes in front, the last entry goes; the     *)
(* node it named is gone unless it was listed before as well.              *)
TailReplaced(r, s, id) ==
    \/ Range(r) = Range(s) \cup {id}
    \/ Range(r) = (Range(s) \ {s[Len(s)]}) \cup {id}

LEMMA ReplaceTailProperties ==
    ASSUME NEW A, NEW s \in Seq(A), NEW id \in A, s # <<>>
    PROVE  /\ ReplaceTail(s, id) \in Seq(A)
           /\ Len(ReplaceTail(s, id)) = Len(s)
           /\ s[Len(s)] \in Range(s)
           /\ TailReplaced(ReplaceTail(s, id), s, id)
           /\ Distinct(s) /\ id \notin Range(s) => Distinct(ReplaceTail(s, id))
<1> DEFINE f == SubSeq(s, 1, Len(s) - 1)
           last == s[Len(s)]
<1>1. /\ Len(s) \in Nat \ {0} /\ f \in Seq(A) /\ Len(f) = Len(s) - 1
      /\ \A i \in 1..(Len(s) - 1) : f[i] = s[i]
  <2>1. Len(s) \in Nat \ {0} /\ 1 \in Int /\ Len(s) - 1 \in Int
      BY EmptySeq
  <2>2. \A i \in 1..(Len(s) - 1) : s[i] \in A
      BY <2>1
  <2> DEFINE n == Len(s) - 1
  <2> HIDE DEF n
  <2>3. /\ SubSeq(s, 1, n) \in Seq(A)
        /\ Len(SubSeq(s, 1, n)) = IF 1 <= n THEN n - 1 + 1 ELSE 0
        /\ \A i \in 1..(n - 1 + 1) : SubSeq(s, 1, n)[i] = s[1 + i - 1]
      BY <2>1, <2>2, SubSeqProperties DEF n
  <2>4. n \in Nat /\ f = SubSeq(s, 1, n) /\ n = Len(s) - 1
      BY <2>1 DEF n
  <2> HIDE DEF f
  <2>5. f \in Seq(A) /\ Len(f) = n
      BY <2>3, <2>4
  <2>6. ASSUME NEW i \in 1..n PROVE f[i] = s[i]
      BY <2>3, <2>4
  <2> QED BY <2>1, <2>4, <2>5, <2>6
<1>2. last \in Range(s)
    BY <1>1 DEF Range
<1> HIDE DEF f
<1>3. \A x : x \in Range(s) <=> x \in Range(f) \/ x = last
  <2>1. ASSUME NEW x \in Range(s), x # last PROVE x \in Range(f)
    <3>1. PICK i \in DOMAIN s : s[i] = x
        BY DEF Range
    <3>2. i \in 1..(Len(s) - 1)
        BY <1>1, <2>1, <3>1
    <3> QED BY <1>1, <3>1, <3>2 DEF Range
  <2>2. ASSUME NEW x \in Range(f) PROVE x \in Range(s)
    <3>1. PICK i \in DOMAIN f : f[i] = x
        BY DEF Range
    <3> QED BY <1>1, <3>1 DEF Range
  <2> QED BY <1>2, <2>1, <2>2
<1>4. ReplaceTail(s, id) = <<id>> \o f
    BY DEF ReplaceTail, f
<1>5. /\ <<id>> \o f \in Seq(A) /\ Len(<<id>> \o f) = Len(s)
      /\ Range(<<id>> \o f) = Range(f) \cup {id}
      /\ Distinct(f) /\ id \notin Range(f) => Distinct(<<id>> \o f)
    BY <1>1, PrependProperties
<1> HIDE DEF last
<1>6. Range(f) = Range(s) \/ Range(f) = Range(s) \ {last}
    BY <1>3
<1>7. Distinct(s) => Distinct(f)
    BY <1>1 DEF Distinct
<1> QED BY <1>2, <1>3, <1>4, <1>5, <1>6, <1>7 DEF last, TailReplaced

(* bucket_index is an index of a bucket, whatever the id. *)
LEMMA BucketOfType == \A id : BucketOf(id) \in 0..(NBUCKETS - 1)
<1> SUFFICES ASSUME NEW id PROVE BucketOf(id) \in 0..(NBUCKETS - 1)
    OBVIOUS
<1> DEFINE d == XorDistance(LocalId, id)
           S == {i \in 1..NBUCKETS : d[i] = 1}
<1> USE RoutingAssumption
<1>0. \A i \in 1..NBUCKETS : d[i] \in {0, 1}
    BY DEF XorDistance
<1> HIDE DEF d
<1>1. CASE S = {}
    BY <1>1 DEF BucketOf, BucketIndex, d
<1>2. CASE S # {}
  <2>1. PICK m \in S : \A n \in S : m <= n
    <3>1. S \in SUBSET Nat
        OBVIOUS
    <3> HIDE DEF S
    <3> QED BY <1>2, <3>1, LeastElement
  <2>2. \A j \in 1..NBUCKETS : j < m => d[j] = 0
      BY <1>0, <2>1
  <2> DEFINE first == CHOOSE i \in 1..NBUCKETS :
                          d[i] = 1 /\ \A j \in 1..NBUCKETS : j < i => d[j] = 0
  <2>3. first \in 1..NBUCKETS
      BY <2>1, <2>2
  <2>4. BucketIndex(d) = first - 1
      BY <2>1 DEF BucketIndex
  <2> HIDE DEF first
  <2> QED BY <2>3, <2>4 DEF BucketOf, d
<1> QED BY <1>1, <1>2

-----------------------------------------------------------------------------
(* The parts of TableInv, and what the answers of a running lookup are,    *)
(* which find_node inserts into the table.                                 *)
TasksOK ==
    /\ task \in [Callers -> [at : {"idle", "pinging"}, id : Ids, tail : Ids]]
    /\ disturbed \in BOOLEAN
    /\ \A t \in Callers : task[t].at = "pinging" => Accepts(task[t].id)

Sound(s, b) ==
    s \in Seq(Ids) /\ Len(s) <= K /\ \A x \in Range(s) : Accepts(x) /\ BucketOf(x) = b

BucketsOK ==
    /\ DOMAIN buckets = 0..(NBUCKETS - 1)
    /\ buckets = [b \in 0..(NBUCKETS - 1) |-> buckets[b]]
    /\ \A b \in 0..(NBUCKETS - 1) : Sound(buckets[b], b)

AnswersOK ==
    /\ "answers" \in DOMAIN lookup
    /\ \A i \in DOMAIN lookup.answers : lookup.answers[i] \in Seq(Ids)

LEMMA TableInvParts == TableInv <=> TasksOK /\ BucketsOK
<1>1. ASSUME TableInv PROVE TasksOK /\ BucketsOK
  <2>1. TasksOK
      BY <1>1 DEF TableInv, RoutingTypeOK, BucketsSound, TasksOK
  <2>2. \A b \in 0..(NBUCKETS - 1) : Sound(buckets[b], b)
      BY <1>1 DEF TableInv, RoutingTypeOK, BucketsSound, Sound, Range
  <2>3. DOMAIN buckets = 0..(NBUCKETS - 1) /\ buckets = [b \in 0..(NBUCKETS - 1) |-> buckets[b]]
      BY <1>1 DEF TableInv, RoutingTypeOK
  <2> QED BY <2>1, <2>2, <2>3 DEF BucketsOK
<1>2. ASSUME TasksOK, BucketsOK PROVE TableInv
  <2>1. buckets \in [0..(NBUCKETS - 1) -> Seq(Ids)]
      BY <1>2 DEF BucketsOK, Sound
  <2>2. ASSUME NEW b \in DOMAIN buckets
        PROVE  /\ Len(buckets[b]) <= K
               /\ \A i \in DOMAIN buckets[b] :
                     Accepts(buckets[b][i]) /\ BucketOf(buckets[b][i]) = b
      BY <1>2, <2>2 DEF BucketsOK, Sound, Range
  <2> QED BY <1>2, <2>1, <2>2 DEF TableInv, RoutingTypeOK, BucketsSound, TasksOK
<1> QED BY <1>1, <1>2

(* What a step may do to the table: nothing, or to one bucket, what        *)
(* KnownPeers allows.                                                      *)
BucketBecomes(b, s) ==
    LET R == Range(buckets[b]) IN
    /\ buckets' = [buckets EXCEPT ![b] = s]
    /\ Sound(s, b)
    /\ \/ Range(s) = R
       \/ \E p : BucketOf(p) = b /\ Range(s) = R \ {p}
       \/ \E p \in Ids : Accepts(p) /\ Range(s) = R \cup {p}
       \/ \E p \in Ids : \E q \in R : Accepts(p) /\ Range(s) = (R \ {q}) \cup {p}

TableStep ==
    \/ UNCHANGED buckets
    \/ \E b \in 0..(NBUCKETS - 1), s \in Seq(Ids) : BucketBecomes(b, s)

LEMMA InsertStep ==
    ASSUME TasksOK, BucketsOK, NEW t \in Callers, NEW id \in Ids, Insert(t, id)
    PROVE  TableStep /\ TasksOK'
<1> USE RoutingAssumption
<1> DEFINE b == BucketOf(id)
           s == buckets[b]
<1>0. b \in 0..(NBUCKETS - 1)
    BY BucketOfType
<1> HIDE DEF b
<1>1. s \in Seq(Ids) /\ Len(s) <= K /\ \A x \in Range(s) : Accepts(x) /\ BucketOf(x) = b
    BY <1>0 DEF BucketsOK, Sound
<1>2. CASE ~Accepts(id) /\ UNCHANGED <<buckets, task, disturbed>>
    BY <1>2 DEF TableStep, TasksOK
<1>3. CASE /\ Accepts(id) /\ id \in Range(s)
           /\ buckets' = [buckets EXCEPT ![b] = MoveToHead(@, id)]
           /\ disturbed' = (disturbed \/ Disturbs(t, b)) /\ UNCHANGED task
  <2>1. TasksOK'
      BY <1>3 DEF TasksOK
  <2> DEFINE r == MoveToHead(s, id)
  <2>2. r \in Seq(Ids) /\ Len(r) = Len(s) /\ Range(r) = Range(s)
      BY <1>1, <1>3, MoveToHeadProperties
  <2>3. buckets' = [buckets EXCEPT ![b] = r]
      BY <1>3
  <2> HIDE DEF r
  <2>4. BucketBecomes(b, r)
      BY <1>1, <2>2, <2>3 DEF BucketBecomes, Sound
  <2> QED BY <1>0, <2>1, <2>2, <2>4 DEF TableStep
<1>4. CASE /\ Accepts(id) /\ id \notin Range(s) /\ Len(s) < K
           /\ buckets' = [buckets EXCEPT ![b] = <<id>> \o @]
           /\ disturbed' = (disturbed \/ Disturbs(t, b)) /\ UNCHANGED task
  <2>1. TasksOK'
      BY <1>4 DEF TasksOK
  <2> DEFINE r == <<id>> \o s
  <2>2. r \in Seq(Ids) /\ Len(r) = Len(s) + 1 /\ Range(r) = Range(s) \cup {id}
      BY <1>1, PrependProperties
  <2>3. buckets' = [buckets EXCEPT ![b] = r]
      BY <1>4
  <2> HIDE DEF r
  <2>4. Len(r) <= K
      BY <1>1, <1>4, <2>2
  <2>5. Sound(r, b)
      BY <1>1, <1>4, <2>2, <2>4 DEF Sound, b
  <2>6. BucketBecomes(b, r)
      BY <1>4, <2>2, <2>3, <2>5 DEF BucketBecomes
  <2> QED BY <1>0, <2>1, <2>2, <2>6 DEF TableStep
<1>5. CASE /\ Accepts(id) /\ id \notin Range(s) /\ Len(s) >= K
           /\ task' = [task EXCEPT ![t] = [at |-> "pinging", id |-> id, tail |-> s[Len(s)]]]
           /\ UNCHANGED <<buckets, disturbed>>
  <2>1. s[Len(s)] \in Ids
    <3>1. Len(s) \in Nat /\ K \in Nat \ {0}
        BY <1>1
    <3> QED BY <1>1, <1>5, <3>1
  <2>2. TasksOK'
      BY <1>5, <2>1 DEF TasksOK
  <2> QED BY <1>5, <2>2 DEF TableStep
<1> QED BY <1>2, <1>3, <1>4, <1>5 DEF Insert, b

LEMMA PingFailedStep ==
    ASSUME TasksOK, BucketsOK, NEW t \in Callers, PingFailed(t)
    PROVE  TableStep /\ TasksOK'
<1> USE RoutingAssumption
<1> DEFINE id == task[t].id
           b == BucketOf(id)
           s == buckets[b]
           r == ReplaceTail(s, id)
<1>0. b \in 0..(NBUCKETS - 1) /\ id \in Ids /\ Accepts(id)
    BY BucketOfType DEF TasksOK, PingFailed
<1>1. s \in Seq(Ids) /\ Len(s) <= K /\ \A x \in Range(s) : Accepts(x) /\ BucketOf(x) = b
    BY <1>0 DEF BucketsOK, Sound
<1>2. buckets' = [buckets EXCEPT ![b] = r]
    BY DEF PingFailed
<1>3. TasksOK'
  <2>1. task' = [task EXCEPT ![t] = Quiet] /\ disturbed' = (disturbed \/ Disturbs(t, b))
      BY DEF PingFailed
  <2> QED BY <2>1 DEF TasksOK, Quiet
<1>4. CASE s = <<>>
  <2>1. r = s
      BY <1>4 DEF ReplaceTail
  <2>2. BucketBecomes(b, s)
      BY <1>1, <1>2, <2>1 DEF BucketBecomes, Sound
  <2> QED BY <1>0, <1>1, <1>3, <2>2 DEF TableStep
<1>5. CASE s # <<>>
  <2>1. /\ r \in Seq(Ids) /\ Len(r) = Len(s) /\ s[Len(s)] \in Range(s)
        /\ TailReplaced(r, s, id)
    <3>1. s \in Seq(Ids) /\ id \in Ids /\ s # <<>>
        BY <1>0, <1>1, <1>5
    <3> HIDE DEF id, s, b
    <3> QED BY <3>1, ReplaceTailProperties
  <2> HIDE DEF r
  <2>2. \A x \in Range(r) : Accepts(x) /\ BucketOf(x) = b
      BY <1>0, <1>1, <2>1 DEF TailReplaced
  <2>3. Sound(r, b)
      BY <1>1, <2>1, <2>2 DEF Sound
  <2>4. BucketBecomes(b, r)
      BY <1>0, <1>2, <2>1, <2>3 DEF BucketBecomes, TailReplaced
  <2> QED BY <1>0, <1>3, <2>1, <2>4 DEF TableStep
<1> QED BY <1>4, <1>5

(* mark_failed: the peer is taken out of its bucket. *)
LEMMA NotAnsweredStep ==
    ASSUME TasksOK, BucketsOK, NEW i, NotAnswered(i)
    PROVE  TableStep /\ TasksOK'
<1> DEFINE id == lookup.batch[i]
           b == BucketOf(id)
           s == buckets[b]
           r == Without(s, id)
<1>0. b \in 0..(NBUCKETS - 1)
    BY BucketOfType
<1>1. s \in Seq(Ids) /\ Len(s) <= K /\ \A x \in Range(s) : Accepts(x) /\ BucketOf(x) = b
    BY <1>0 DEF BucketsOK, Sound
<1>2. /\ buckets' = [buckets EXCEPT ![b] = r]
      /\ disturbed' = (disturbed \/ Disturbs(Lookup, b)) /\ task' = task
    BY DEF NotAnswered
<1>3. TasksOK'
    BY <1>2 DEF TasksOK
<1>4. r \in Seq(Ids) /\ Len(r) <= Len(s) /\ Range(r) = Range(s) \ {id}
  <2> HIDE DEF id, s
  <2> QED BY <1>1, WithoutProperties
<1> HIDE DEF r
<1>5. Len(r) <= K
    BY <1>1, <1>4, RoutingAssumption
<1>6. BucketBecomes(b, r)
    BY <1>1, <1>2, <1>4, <1>5 DEF BucketBecomes, Sound
<1> QED BY <1>0, <1>3, <1>4, <1>6 DEF TableStep

(* Every step changes the table in one of those ways.  Only the answers of *)
(* peers and the ids of handshakes are inserted, and both are ids.         *)
LEMMA EveryStep ==
    ASSUME TasksOK, BucketsOK, AnswersOK, [Next]_vars
    PROVE  TableStep /\ TasksOK' /\ AnswersOK'
<1> USE RoutingAssumption
<1>1. ASSUME NEW t \in Tasks, InsertPeer(t) PROVE TableStep /\ TasksOK' /\ AnswersOK'
  <2>1. PICK id \in Ids : Insert(t, id)
      BY <1>1 DEF InsertPeer
  <2>2. AnswersOK'
      BY <1>1 DEF InsertPeer, AnswersOK
  <2> QED BY <2>1, <2>2, InsertStep DEF Callers
<1>2. ASSUME NEW t \in Callers, PingAnswered(t) PROVE TableStep /\ TasksOK' /\ AnswersOK'
    BY <1>2 DEF PingAnswered, TableStep, TasksOK, AnswersOK, Quiet
<1>3. ASSUME NEW t \in Callers, PingFailed(t) PROVE TableStep /\ TasksOK' /\ AnswersOK'
    BY <1>3, PingFailedStep DEF PingFailed, AnswersOK
<1>4. CASE StartLookup
    BY <1>4 DEF StartLookup, NoLookup, TableStep, TasksOK, AnswersOK
<1>5. CASE AskBatch
  <2>1. CASE Batch = <<>>
      BY <1>5, <2>1 DEF AskBatch, Returned, NoLookup, TableStep, TasksOK, AnswersOK
  <2>2. CASE Batch # <<>>
      BY <1>5, <2>2 DEF AskBatch, TableStep, TasksOK, AnswersOK
  <2> QED BY <2>1, <2>2
<1>6. CASE EndRound
    BY <1>6 DEF EndRound, Returned, NoLookup, TableStep, TasksOK, AnswersOK
<1>7. ASSUME NEW i \in 1..ALPHA, Answered(i) PROVE TableStep /\ TasksOK' /\ AnswersOK'
    BY <1>7 DEF Answered, TableStep, TasksOK, AnswersOK
<1>8. ASSUME NEW i \in 1..ALPHA, NotAnswered(i) PROVE TableStep /\ TasksOK' /\ AnswersOK'
  <2>1. AnswersOK'
      BY <1>8 DEF NotAnswered, AnswersOK
  <2> QED BY <1>8, <2>1, NotAnsweredStep
<1>9. ASSUME NEW i \in 1..ALPHA, MergeOne(i) PROVE TableStep /\ TasksOK' /\ AnswersOK'
  <2>1. lookup.answers[i] \in Seq(Ids) /\ lookup.answers[i] # <<>>
      BY <1>9 DEF MergeOne, NextAnswer, AnswersOK
  <2>2. Head(lookup.answers[i]) \in Ids /\ Tail(lookup.answers[i]) \in Seq(Ids)
      BY <2>1, HeadTailProperties
  <2>3. Insert(Lookup, Head(lookup.answers[i]))
      BY <1>9 DEF MergeOne
  <2>4. AnswersOK'
      BY <1>9, <2>2 DEF MergeOne, AnswersOK
  <2> QED BY <2>2, <2>3, <2>4, InsertStep DEF Callers
<1>10. CASE UNCHANGED vars
    BY <1>10 DEF vars, TableStep, TasksOK, AnswersOK
<1> QED BY <1>1, <1>2, <1>3, <1>4, <1>5, <1>6, <1>7, <1>8, <1>9, <1>10 DEF Next, FindNode

LEMMA BucketsStep ==
    ASSUME BucketsOK, TableStep
    PROVE  BucketsOK'
<1>1. CASE UNCHANGED buckets
    BY <1>1 DEF BucketsOK, Sound
<1>2. ASSUME NEW b \in 0..(NBUCKETS - 1), NEW s \in Seq(Ids), BucketBecomes(b, s)
      PROVE  BucketsOK'
    BY <1>2 DEF BucketBecomes, BucketsOK
<1> QED BY <1>1, <1>2 DEF TableStep

LEMMA RoutingInit == Init => TasksOK /\ BucketsOK /\ AnswersOK
<1> SUFFICES ASSUME Init PROVE TasksOK /\ BucketsOK /\ AnswersOK
    OBVIOUS
<1> USE RoutingAssumption DEF Init
<1>1. TasksOK
    BY DEF TasksOK, Quiet
<1>2. Sound(<<>>, 0) /\ \A b \in 0..(NBUCKETS - 1) : Sound(<<>>, b)
    BY DEF Sound, Range
<1>3. BucketsOK
    BY <1>2 DEF BucketsOK
<1>4. AnswersOK
    BY DEF AnswersOK, NoLookup
<1> QED BY <1>1, <1>3, <1>4

(* A bucket never exceeds K entries, holds authentic peers of its own      *)
(* distance only, and never the node itself, although its lock is given    *)
(* back while its tail is pinged.                                          *)
THEOREM TableCorrect == Spec => []TableInv
<1>1. Init => TasksOK /\ BucketsOK /\ AnswersOK
    BY RoutingInit
<1>2. TasksOK /\ BucketsOK /\ AnswersOK /\ [Next]_vars => (TasksOK /\ BucketsOK /\ AnswersOK)'
    BY EveryStep, BucketsStep
<1>3. TasksOK /\ BucketsOK => TableInv
    BY TableInvParts
<1> QED BY <1>1, <1>2, <1>3, PTL DEF Spec

-----------------------------------------------------------------------------
(* A sequence has no more elements than entries. *)
LEMMA RangeBound ==
    ASSUME NEW A, NEW s \in Seq(A)
    PROVE  IsFiniteSet(Range(s)) /\ Cardinality(Range(s)) <= Len(s)
<1>1. Len(s) \in Nat /\ s \in Surjection(1..Len(s), Range(s))
    BY DEF Surjection, Range
<1>2. IsFiniteSet(1..Len(s)) /\ Cardinality(1..Len(s)) = Len(s)
  <2> DEFINE n == Len(s)
  <2>1. n \in Nat
      BY <1>1
  <2> HIDE DEF n
  <2>2. IsFiniteSet(1..n) /\ Cardinality(1..n) = n
      BY <2>1, FS_Interval
  <2> QED BY <2>2 DEF n
<1> QED BY <1>1, <1>2, FS_Surjection

(* The peers of one region are those of one bucket, which has K entries. *)
LEMMA RegionsFit == BucketsOK => Abstract!Fits(Known)
<1> USE RoutingAssumption
<1>0. \A S : Abstract!Cardinality(S) = Cardinality(S)
    BY Zenon DEF Abstract!Cardinality, Cardinality
<1> SUFFICES ASSUME BucketsOK, NEW p \in Known
             PROVE  Cardinality(Abstract!Crowd(Known, p)) <= K
    BY <1>0 DEF Abstract!Fits
<1> DEFINE b == BucketOf(p)
           s == buckets[b]
           C == Abstract!Crowd(Known, p)
<1>1. b \in 0..(NBUCKETS - 1)
    BY BucketOfType
<1>2. s \in Seq(Ids) /\ Len(s) <= K
    BY <1>1 DEF BucketsOK, Sound
<1>3. C \in SUBSET Range(s)
  <2> SUFFICES ASSUME NEW q \in C PROVE q \in Range(s)
      OBVIOUS
  <2>1. q \in Known /\ BucketOf(q) = b
      BY DEF Abstract!Crowd
  <2>2. PICK a \in 0..(NBUCKETS - 1) : q \in Range(buckets[a])
      BY <2>1 DEF Known, BucketsOK
  <2>3. BucketOf(q) = a
      BY <2>2 DEF BucketsOK, Sound
  <2> QED BY <2>1, <2>2, <2>3
<1> HIDE DEF C, s, b
<1>4. IsFiniteSet(Range(s)) /\ Cardinality(Range(s)) <= Len(s) /\ Len(s) \in Nat
    BY <1>2, RangeBound
<1>5. Cardinality(C) <= Cardinality(Range(s)) /\ Cardinality(C) \in Nat /\ Cardinality(Range(s)) \in Nat
    BY <1>3, <1>4, FS_Subset, FS_CardinalityType
<1> QED BY <1>2, <1>4, <1>5 DEF C

(* The step of one bucket, seen as a change of the set of known peers. *)
LEMMA KnownStep ==
    ASSUME BucketsOK, TableStep
    PROVE  [Abstract!Next]_Known
<1>0. Abstract!Fits(Known')
  <2>1. BucketsOK'
      BY BucketsStep
  <2>2. BucketsOK' => Abstract!Fits(Known)'
      BY RegionsFit, PTL
  <2> QED BY <2>1, <2>2
<1>1. CASE UNCHANGED buckets
    BY <1>1 DEF Known
<1>2. ASSUME NEW b \in 0..(NBUCKETS - 1), NEW s \in Seq(Ids), BucketBecomes(b, s)
      PROVE  [Abstract!Next]_Known
  <2> DEFINE R == Range(buckets[b])
  <2>1. /\ buckets' = [buckets EXCEPT ![b] = s]
        /\ \A x \in Range(s) : Accepts(x) /\ BucketOf(x) = b
      BY <1>2 DEF BucketBecomes, Sound
  <2>2. \A a \in 0..(NBUCKETS - 1) : \A x \in Range(buckets[a]) :
            x \in Ids /\ Accepts(x) /\ BucketOf(x) = a
      BY DEF BucketsOK, Sound, Range
  <2>3. \A x : x \in Known <=> \E a \in 0..(NBUCKETS - 1) : x \in Range(buckets[a])
      BY DEF Known, BucketsOK
  <2>4. \A x : x \in Known' <=> \E a \in 0..(NBUCKETS - 1) : x \in Range(buckets'[a])
      BY <2>1 DEF Known, BucketsOK
  <2>5. buckets'[b] = s /\ \A a \in 0..(NBUCKETS - 1) : a # b => buckets'[a] = buckets[a]
      BY <2>1 DEF BucketsOK
  <2>6. \A x : x \in R <=> x \in Known /\ BucketOf(x) = b
      BY <2>2, <2>3
  <2>7. \A x : x \in Known' <=> x \in Range(s) \/ (x \in Known /\ BucketOf(x) # b)
      BY <2>2, <2>3, <2>4, <2>5
  <2>8. \A x \in Known : x \in AcceptablePeers
      BY <2>2, <2>3 DEF AcceptablePeers
  <2> HIDE DEF R
  <2>9. CASE Range(s) = R
    <3>1. Known' = Known
        BY <2>6, <2>7, <2>9
    <3> QED BY <3>1
  <2>10. ASSUME NEW p, BucketOf(p) = b, Range(s) = R \ {p} PROVE [Abstract!Next]_Known
    <3>1. Known' = Known \ {p}
        BY <2>6, <2>7, <2>10
    <3>2. CASE p \in Known
        BY <1>0, <2>8, <3>1, <3>2 DEF Abstract!Next, Abstract!Forget
    <3>3. CASE p \notin Known
        BY <3>1, <3>3
    <3> QED BY <3>2, <3>3
  <2>11. ASSUME NEW p \in Ids, Accepts(p), Range(s) = R \cup {p} PROVE [Abstract!Next]_Known
    <3>1. Known' = Known \cup {p}
        BY <2>1, <2>6, <2>7, <2>11
    <3>2. p \in AcceptablePeers
        BY <2>11 DEF AcceptablePeers
    <3> QED BY <1>0, <3>1, <3>2 DEF Abstract!Next, Abstract!Learn
  <2>12. ASSUME NEW p \in Ids, Accepts(p), NEW q \in R, Range(s) = (R \ {q}) \cup {p}
         PROVE  [Abstract!Next]_Known
    <3>1. BucketOf(p) = b /\ BucketOf(q) = b /\ q \in Known
        BY <2>1, <2>6, <2>12
    <3>2. Known' = (Known \ {q}) \cup {p}
        BY <2>1, <2>6, <2>7, <2>12, <3>1
    <3>3. p \in AcceptablePeers /\ q \in AcceptablePeers
        BY <2>8, <2>12, <3>1 DEF AcceptablePeers
    <3> QED BY <1>0, <3>1, <3>2, <3>3 DEF Abstract!Next, Abstract!Exchange
  <2> QED BY <1>2, <2>9, <2>10, <2>11, <2>12 DEF BucketBecomes, R
<1> QED BY <1>1, <1>2 DEF TableStep

(* The table implements KnownPeers: whatever interleaves with a ping, the  *)
(* set of peers changes one peer at a time and never outgrows a bucket.    *)
THEOREM TableRefines == Spec => ImplementsKnownPeers
<1>1. Init => TasksOK /\ BucketsOK /\ AnswersOK
    BY RoutingInit
<1>2. Init => Abstract!Init
    BY RoutingAssumption DEF Init, Abstract!Init, Known, Range
<1>3. TasksOK /\ BucketsOK /\ AnswersOK /\ [Next]_vars
          => (TasksOK /\ BucketsOK /\ AnswersOK)' /\ [Abstract!Next]_Known
    BY EveryStep, BucketsStep, KnownStep
<1> QED BY <1>1, <1>2, <1>3, PTL DEF Spec, ImplementsKnownPeers, Abstract!Spec

-----------------------------------------------------------------------------
(* Orders.  A strict order is a set of pairs; an element's rank is the     *)
(* number of those below it.                                               *)
Below(S, R, x) == {y \in S : <<y, x>> \in R}
Rank(S, R, x) == Cardinality(Below(S, R, x))

StrictOrder(S, R) ==
    /\ \A x \in S : <<x, x>> \notin R
    /\ \A x, y, z \in S : <<x, y>> \in R /\ <<y, z>> \in R => <<x, z>> \in R
    /\ \A x, y \in S : x = y \/ <<x, y>> \in R \/ <<y, x>> \in R

(* The ranks of a finite set are the numbers below its cardinality, each   *)
(* of them once: an injection between sets of one size is onto.            *)
LEMMA RanksOfOrder ==
    ASSUME NEW S, IsFiniteSet(S), NEW R, StrictOrder(S, R)
    PROVE  /\ Cardinality(S) \in Nat
           /\ \A x \in S : Rank(S, R, x) \in 0..(Cardinality(S) - 1)
           /\ \A x, y \in S : <<x, y>> \in R => Rank(S, R, x) < Rank(S, R, y)
           /\ \A x, y \in S : Rank(S, R, x) = Rank(S, R, y) => x = y
           /\ \A n \in 0..(Cardinality(S) - 1) : \E x \in S : Rank(S, R, x) = n
<1> DEFINE c == Cardinality(S)
           r(x) == Rank(S, R, x)
           f == [x \in S |-> r(x)]
<1>1. c \in Nat
    BY FS_CardinalityType
<1>2. ASSUME NEW x \in S PROVE IsFiniteSet(Below(S, R, x)) /\ r(x) \in Nat /\ r(x) < c
  <2>1. Below(S, R, x) \in SUBSET S /\ x \notin Below(S, R, x)
      BY DEF Below, StrictOrder
  <2>2. Below(S, R, x) # S
      BY <2>1
  <2>3. IsFiniteSet(Below(S, R, x)) /\ r(x) <= c /\ r(x) # c
      BY <2>1, <2>2, FS_Subset DEF Rank
  <2>4. r(x) \in Nat
      BY <2>3, FS_CardinalityType DEF Rank
  <2> QED BY <1>1, <2>3, <2>4
<1>3. ASSUME NEW x \in S, NEW y \in S, <<x, y>> \in R PROVE r(x) < r(y)
  <2>1. Below(S, R, x) \in SUBSET Below(S, R, y)
      BY <1>3 DEF Below, StrictOrder
  <2>2. x \in Below(S, R, y) /\ x \notin Below(S, R, x)
      BY <1>3 DEF Below, StrictOrder
  <2>3. r(x) <= r(y) /\ r(x) # r(y)
      BY <1>2, <2>1, <2>2, FS_Subset DEF Rank
  <2> QED BY <1>2, <2>3
<1>4. ASSUME NEW x \in S, NEW y \in S, r(x) = r(y) PROVE x = y
  <2>1. <<x, y>> \notin R /\ <<y, x>> \notin R
      BY <1>2, <1>3, <1>4
  <2> QED BY <2>1 DEF StrictOrder
<1>5. \A n \in 0..(c - 1) : \E x \in S : r(x) = n
  <2> HIDE DEF r, c
  <2>1. IsFiniteSet(0..(c - 1)) /\ Cardinality(0..(c - 1)) = c
    <3>1. 0 \in Int /\ c - 1 \in Int
        BY <1>1
    <3>2. IsFiniteSet(0..(c - 1)) /\ Cardinality(0..(c - 1)) = IF 0 > c - 1 THEN 0 ELSE (c - 1) - 0 + 1
        BY <3>1, FS_Interval
    <3> QED BY <1>1, <3>2
  <2>2. f \in Injection(S, 0..(c - 1))
      BY <1>1, <1>2, <1>4 DEF Injection, IsInjective
  <2>3. f \in Surjection(S, 0..(c - 1))
      BY <2>1, <2>2, FS_Injection DEF c
  <2> QED BY <2>3 DEF Surjection
<1> QED BY <1>1, <1>2, <1>3, <1>4, <1>5

(* So a finite set can be listed in its order. *)
LEMMA SortedListExists ==
    ASSUME NEW S, IsFiniteSet(S), NEW R, StrictOrder(S, R)
    PROVE  \E s \in [1..Cardinality(S) -> S] :
              /\ Range(s) = S
              /\ \A i, j \in DOMAIN s : i < j => <<s[j], s[i]>> \notin R
<1> DEFINE c == Cardinality(S)
           r(x) == Rank(S, R, x)
           s == [i \in 1..c |-> CHOOSE x \in S : r(x) = i - 1]
<1>1. /\ c \in Nat
      /\ \A x \in S : r(x) \in 0..(c - 1)
      /\ \A x, y \in S : <<x, y>> \in R => r(x) < r(y)
      /\ \A x, y \in S : r(x) = r(y) => x = y
      /\ \A n \in 0..(c - 1) : \E x \in S : r(x) = n
    BY RanksOfOrder
<1> HIDE DEF c, r
<1>2. \A i \in 1..c : s[i] \in S /\ r(s[i]) = i - 1
    BY <1>1
<1>3. s \in [1..c -> S]
    BY <1>2
<1> HIDE DEF s
<1>4. ASSUME NEW x \in S PROVE x \in Range(s)
  <2>1. r(x) + 1 \in 1..c
      BY <1>1
  <2>2. s[r(x) + 1] = x
      BY <1>1, <1>2, <2>1
  <2> QED BY <1>3, <2>1, <2>2 DEF Range
<1>5. Range(s) = S
    BY <1>3, <1>4 DEF Range
<1>6. ASSUME NEW i \in 1..c, NEW j \in 1..c, i < j PROVE <<s[j], s[i]>> \notin R
    BY <1>1, <1>2, <1>6
<1> QED BY <1>3, <1>5, <1>6 DEF c

(* A list as long as the set of its entries has no entry twice. *)
LEMMA ListOfAllIsDistinct ==
    ASSUME NEW S, IsFiniteSet(S), NEW s \in [1..Cardinality(S) -> S], Range(s) = S
    PROVE  s \in Seq(S) /\ Len(s) = Cardinality(S) /\ Distinct(s)
<1> DEFINE c == Cardinality(S)
<1>1. c \in Nat
    BY FS_CardinalityType
<1>2. IsFiniteSet(1..c) /\ Cardinality(1..c) = c
    BY <1>1, FS_Interval
<1>3. s \in Surjection(1..c, S)
    BY DEF Surjection, Range
<1>4. s \in Injection(1..c, S)
    BY <1>2, <1>3, FS_Surjection
<1>5. s \in Seq(S) /\ Len(s) = c
    BY <1>1
<1> QED BY <1>4, <1>5 DEF Injection, IsInjective, Distinct

-----------------------------------------------------------------------------
(* Being closer to a target is a strict order of the ids: the xor metric   *)
(* puts no two of them at the same distance.                               *)
CloserPairs(target) == {p \in Ids \X Ids : Closer(p[1], p[2], target)}

LEMMA CloserIsOrder ==
    ASSUME NEW target \in Ids
    PROVE  StrictOrder(Ids, CloserPairs(target))
<1> USE RoutingAssumption
<1> DEFINE D(x) == XorDistance(x, target)
           N == 1..NBUCKETS
<1>1. \A x : \A i \in N : D(x)[i] \in {0, 1}
    BY DEF XorDistance
<1>2. \A x, y \in Ids : \A i \in N : x[i] = y[i] <=> D(x)[i] = D(y)[i]
  <2>1. \A x \in Ids : \A i \in N : x[i] \in {0, 1}
      OBVIOUS
  <2> QED BY <2>1 DEF XorDistance
<1> HIDE DEF D
<1>3. \A x, y \in Ids : <<x, y>> \in CloserPairs(target)
          <=> \E i \in N : D(x)[i] < D(y)[i] /\ \A j \in N : j < i => D(x)[j] = D(y)[j]
    BY DEF CloserPairs, Closer, D
<1>4. ASSUME NEW x \in Ids PROVE <<x, x>> \notin CloserPairs(target)
  <2>1. \A i \in N : D(x)[i] \in Int
      BY <1>1
  <2> QED BY <1>3, <2>1
<1>5. ASSUME NEW x \in Ids, NEW y \in Ids, NEW z \in Ids,
             <<x, y>> \in CloserPairs(target), <<y, z>> \in CloserPairs(target)
      PROVE  <<x, z>> \in CloserPairs(target)
  <2>1. PICK i \in N : D(x)[i] < D(y)[i] /\ \A j \in N : j < i => D(x)[j] = D(y)[j]
      BY <1>3, <1>5
  <2>2. PICK k \in N : D(y)[k] < D(z)[k] /\ \A j \in N : j < k => D(y)[j] = D(z)[j]
      BY <1>3, <1>5
  <2>3. PICK m \in N : m = (IF i < k THEN i ELSE k)
      OBVIOUS
  <2>4. \A j \in N : j < m => D(x)[j] = D(z)[j]
      BY <2>1, <2>2, <2>3
  <2>5. D(x)[m] < D(z)[m]
    <3>1. /\ D(x)[i] \in Int /\ D(y)[i] \in Int /\ D(z)[i] \in Int
          /\ D(x)[k] \in Int /\ D(y)[k] \in Int /\ D(z)[k] \in Int
        BY <1>1
    <3>2. CASE i < k
        BY <2>1, <2>2, <2>3, <3>1, <3>2
    <3>3. CASE k < i
        BY <2>1, <2>2, <2>3, <3>1, <3>3
    <3>4. CASE i = k
        BY <2>1, <2>2, <2>3, <3>1, <3>4
    <3> QED BY <3>2, <3>3, <3>4
  <2>6. \E j \in N : D(x)[j] < D(z)[j] /\ \A l \in N : l < j => D(x)[l] = D(z)[l]
      BY ONLY <2>4, <2>5, m \in N, Zenon
  <2> QED BY <1>3, <2>6
<1>6. ASSUME NEW x \in Ids, NEW y \in Ids, x # y
      PROVE  <<x, y>> \in CloserPairs(target) \/ <<y, x>> \in CloserPairs(target)
  <2> DEFINE S == {i \in N : x[i] # y[i]}
  <2>1. S \in SUBSET Nat /\ S # {}
    <3>1. x \in [N -> {0, 1}] /\ y \in [N -> {0, 1}]
        OBVIOUS
    <3> QED BY <1>6, <3>1
  <2>2. PICK m \in S : \A n \in S : m <= n
    <3> HIDE DEF S
    <3> QED BY <2>1, LeastElement
  <2>3. \A j \in N : j < m => x[j] = y[j]
      BY <2>2
  <2>4. m \in N /\ \A j \in N : j < m => D(x)[j] = D(y)[j]
      BY <1>2, <2>2, <2>3
  <2>5. D(x)[m] # D(y)[m]
      BY <1>2, <2>2
  <2>6. D(x)[m] < D(y)[m] \/ D(y)[m] < D(x)[m]
      BY <1>1, <2>2, <2>5
  <2> QED BY <1>3, <2>4, <2>6
<1> QED BY <1>4, <1>5, <1>6 DEF StrictOrder

LEMMA NearestByRank ==
    ASSUME NEW target \in Ids, NEW H \in SUBSET Ids
    PROVE  /\ StrictOrder(H, CloserPairs(target))
           /\ Nearest(H, K, target) = {a \in H : Rank(H, CloserPairs(target), a) < K}
<1>1. StrictOrder(H, CloserPairs(target))
    BY CloserIsOrder DEF StrictOrder
<1>2. ASSUME NEW a \in H
      PROVE  Below(H, CloserPairs(target), a) = {c \in H : Closer(c, a, target)}
    BY DEF Below, CloserPairs
<1> QED BY <1>1, <1>2 DEF Nearest, Rank

(* The K nearest of a finite set are at most K, and K exactly when others  *)
(* were left out; these are all further away.                              *)
LEMMA NearestFacts ==
    ASSUME NEW target \in Ids, NEW H \in SUBSET Ids, IsFiniteSet(H)
    PROVE  /\ Nearest(H, K, target) \in SUBSET H
           /\ IsFiniteSet(Nearest(H, K, target))
           /\ Cardinality(Nearest(H, K, target)) \in Nat
           /\ Cardinality(Nearest(H, K, target)) <= K
           /\ \A a \in H \ Nearest(H, K, target) :
                /\ Cardinality(Nearest(H, K, target)) = K
                /\ \A x \in Nearest(H, K, target) : Closer(x, a, target)
<1> USE RoutingAssumption
<1> DEFINE R == CloserPairs(target)
           r(x) == Rank(H, R, x)
           N == Nearest(H, K, target)
           c == Cardinality(H)
           f == [x \in N |-> r(x)]
<1>1. StrictOrder(H, R) /\ N = {a \in H : r(a) < K}
    BY NearestByRank
<1>2. /\ c \in Nat
      /\ \A x \in H : r(x) \in 0..(c - 1)
      /\ \A x, y \in H : <<x, y>> \in R => r(x) < r(y)
      /\ \A x, y \in H : r(x) = r(y) => x = y
      /\ \A n \in 0..(c - 1) : \E x \in H : r(x) = n
  <2> HIDE DEF R
  <2> QED BY <1>1, RanksOfOrder
<1>3. \A x, y \in H : <<x, y>> \in R => Closer(x, y, target)
    BY DEF CloserPairs
<1> HIDE DEF R, r, N, c
<1>4. N \in SUBSET H /\ IsFiniteSet(N)
    BY <1>1, FS_Subset
<1>5. Cardinality(N) \in Nat
    BY <1>4, FS_CardinalityType
<1>6. IsFiniteSet(0..(K - 1)) /\ Cardinality(0..(K - 1)) = K
  <2>1. IsFiniteSet(0..(K - 1)) /\ Cardinality(0..(K - 1)) = IF 0 > K - 1 THEN 0 ELSE (K - 1) - 0 + 1
    <3>1. 0 \in Int /\ K - 1 \in Int
        OBVIOUS
    <3> QED BY <3>1, FS_Interval
  <2> QED BY <2>1
<1>7. f \in Injection(N, 0..(K - 1))
  <2>1. \A x \in N : r(x) \in 0..(K - 1)
      BY <1>1, <1>2
  <2>2. \A x, y \in N : r(x) = r(y) => x = y
      BY <1>2, <1>4
  <2> QED BY <2>1, <2>2 DEF Injection, IsInjective
<1>8. Cardinality(N) <= K /\ (Cardinality(N) = K <=> f \in Surjection(N, 0..(K - 1)))
  <2> HIDE DEF f
  <2> QED BY <1>6, <1>7, FS_Injection
<1>9. ASSUME NEW a \in H \ N PROVE Cardinality(N) = K
  <2>1. r(a) >= K /\ r(a) \in 0..(c - 1)
      BY <1>1, <1>2
  <2>2. ASSUME NEW n \in 0..(K - 1) PROVE \E x \in N : f[x] = n
    <3>1. n \in 0..(c - 1)
        BY <1>2, <2>1
    <3>2. PICK x \in H : r(x) = n
        BY <1>2, <3>1
    <3> QED BY <1>1, <3>2
  <2>3. f \in Surjection(N, 0..(K - 1))
      BY <1>7, <2>2 DEF Surjection, Injection
  <2> QED BY <1>8, <2>3
<1>10. ASSUME NEW a \in H \ N, NEW x \in N PROVE Closer(x, a, target)
  <2>1. r(x) < r(a) /\ r(x) \in Int /\ r(a) \in Int /\ x \in H /\ a \in H
      BY <1>1, <1>2
  <2>2. ~(<<a, x>> \in R) /\ a # x
      BY <1>2, <2>1
  <2>3. <<x, a>> \in R
      BY <1>1, <2>1, <2>2 DEF StrictOrder
  <2> QED BY <1>3, <2>1, <2>3
<1> QED BY <1>4, <1>5, <1>8, <1>9, <1>10 DEF N

(* Of a set, the K nearest alone need be kept to know them. *)
LEMMA NearestOfCover ==
    ASSUME NEW target \in Ids, NEW H \in SUBSET Ids, IsFiniteSet(H),
           NEW C \in SUBSET H, Nearest(H, K, target) \subseteq C
    PROVE  Nearest(C, K, target) = Nearest(H, K, target)
<1> USE RoutingAssumption
<1> DEFINE N == Nearest(H, K, target)
           A(S, a) == {c \in S : Closer(c, a, target)}
<1>0. IsFiniteSet(C)
    BY FS_Subset
<1>1. \A a : /\ A(C, a) \in SUBSET A(H, a) /\ IsFiniteSet(A(C, a)) /\ IsFiniteSet(A(H, a))
    <2>1. \A a : A(C, a) \in SUBSET A(H, a) /\ A(C, a) \in SUBSET C /\ A(H, a) \in SUBSET H
        OBVIOUS
    <2> HIDE DEF A
    <2> QED BY <1>0, <2>1, FS_Subset
<1>2. \A a : /\ Cardinality(A(C, a)) \in Nat /\ Cardinality(A(H, a)) \in Nat
             /\ Cardinality(A(C, a)) <= Cardinality(A(H, a))
  <2> HIDE DEF A
  <2> QED BY <1>1, FS_Subset, FS_CardinalityType
<1>3. /\ \A a : a \in N <=> a \in H /\ Cardinality(A(H, a)) < K
      /\ \A a : a \in Nearest(C, K, target) <=> a \in C /\ Cardinality(A(C, a)) < K
    BY DEF Nearest
<1>4. ASSUME NEW a \in N PROVE a \in Nearest(C, K, target)
  <2>1. a \in C /\ Cardinality(A(H, a)) < K
      BY <1>3
  <2> HIDE DEF A, N
  <2> QED BY <1>2, <1>3, <2>1
<1>5. ASSUME NEW a \in Nearest(C, K, target), a \notin N PROVE FALSE
  <2>1. a \in C /\ Cardinality(A(C, a)) < K
      BY <1>3, <1>5
  <2>2. Cardinality(N) = K /\ \A x \in N : Closer(x, a, target)
      BY <1>5, <2>1, NearestFacts
  <2>3. N \in SUBSET A(C, a)
      BY <2>2
  <2> HIDE DEF A, N
  <2>4. K <= Cardinality(A(C, a))
      BY <1>1, <2>2, <2>3, FS_Subset
  <2> QED BY <1>2, <2>1, <2>4
<1> QED BY <1>4, <1>5

(* Another id pushes none of the others in. *)
LEMMA NearestGrows ==
    ASSUME NEW target \in Ids, NEW H \in SUBSET Ids, IsFiniteSet(H), NEW x \in Ids
    PROVE  Nearest(H \cup {x}, K, target) \subseteq Nearest(H, K, target) \cup {x}
<1> USE RoutingAssumption
<1> DEFINE A(S, a) == {c \in S : Closer(c, a, target)}
           G == H \cup {x}
<1>0. IsFiniteSet(G)
    BY FS_AddElement
<1>1. \A a : A(H, a) \in SUBSET A(G, a) /\ A(G, a) \in SUBSET G
    OBVIOUS
<1>2. \A a : Cardinality(A(H, a)) \in Nat /\ Cardinality(A(G, a)) \in Nat
             /\ Cardinality(A(H, a)) <= Cardinality(A(G, a))
  <2> HIDE DEF A, G
  <2> QED BY <1>0, <1>1, FS_Subset, FS_CardinalityType
<1>3. /\ \A a : a \in Nearest(G, K, target) <=> a \in G /\ Cardinality(A(G, a)) < K
      /\ \A a : a \in Nearest(H, K, target) <=> a \in H /\ Cardinality(A(H, a)) < K
    BY DEF Nearest
<1> SUFFICES ASSUME NEW a \in Nearest(G, K, target), a # x PROVE a \in Nearest(H, K, target)
    OBVIOUS
<1> HIDE DEF A, G
<1>4. a \in G /\ Cardinality(A(G, a)) < K
    BY <1>3
<1>5. a \in H
    BY <1>4 DEF G
<1> QED BY <1>2, <1>3, <1>4, <1>5

(* A finite set of ids in order of distance: each of them once. *)
LEMMA InOrderProperties ==
    ASSUME NEW target \in Ids, NEW S \in SUBSET Ids, IsFiniteSet(S)
    PROVE  /\ InOrder(S, target) \in Seq(Ids)
           /\ Len(InOrder(S, target)) = Cardinality(S)
           /\ Range(InOrder(S, target)) = S
           /\ Distinct(InOrder(S, target))
<1> DEFINE R == CloserPairs(target)
           q == InOrder(S, target)
<1>1. StrictOrder(S, R)
    BY NearestByRank
<1>2. PICK s \in [1..Cardinality(S) -> S] :
          /\ Range(s) = S
          /\ \A i, j \in DOMAIN s : i < j => <<s[j], s[i]>> \notin R
  <2> HIDE DEF R
  <2> QED BY <1>1, SortedListExists
<1>3. \A i, j \in DOMAIN s : i < j => ~Closer(s[j], s[i], target)
  <2>1. \A i \in DOMAIN s : s[i] \in Ids
      BY <1>2
  <2> QED BY <1>2, <2>1 DEF CloserPairs
<1>4. q \in [1..Cardinality(S) -> S] /\ Range(q) = S
    BY <1>2, <1>3 DEF InOrder
<1> HIDE DEF q
<1>5. q \in Seq(S) /\ Len(q) = Cardinality(S) /\ Distinct(q)
    BY <1>4, ListOfAllIsDistinct
<1>6. q \in Seq(Ids)
    BY <1>5
<1> QED BY <1>4, <1>5, <1>6 DEF q

LEMMA TruncateProperties ==
    ASSUME NEW A, NEW s \in Seq(A), NEW n \in Nat
    PROVE  /\ Truncate(s, n) \in Seq(A)
           /\ Len(Truncate(s, n)) <= n
           /\ Range(Truncate(s, n)) \subseteq Range(s)
           /\ Distinct(s) => Distinct(Truncate(s, n))
<1>1. Len(s) \in Nat
    OBVIOUS
<1>2. CASE Len(s) <= n
    BY <1>2 DEF Truncate
<1>3. CASE ~(Len(s) <= n)
  <2> DEFINE r == SubSeq(s, 1, n)
  <2>1. r \in Seq(A) /\ Len(r) = n /\ \A i \in 1..n : r[i] = s[i]
      BY <1>1, <1>3
  <2>2. Truncate(s, n) = r
      BY <1>3 DEF Truncate
  <2> HIDE DEF r
  <2>3. DOMAIN r = 1..n /\ \A i \in DOMAIN r : i \in DOMAIN s /\ r[i] = s[i]
      BY <1>1, <1>3, <2>1
  <2>4. Range(r) \subseteq Range(s)
      BY <2>3 DEF Range
  <2>5. Distinct(s) => Distinct(r)
      BY <2>3 DEF Distinct
  <2> QED BY <2>1, <2>2, <2>4, <2>5
<1> QED BY <1>2, <1>3

(* get_closest_arc sorts the entries of the table; those of a bucket that  *)
(* lists a peer twice keep their order.  Where no bucket does, no peer is  *)
(* returned twice.                                                         *)
LEMMA GetClosestProperties ==
    ASSUME BucketsOK, NEW target \in Ids
    PROVE  /\ GetClosest(target) \in Seq(Ids)
           /\ Len(GetClosest(target)) <= K
           /\ (\A b \in DOMAIN buckets : Distinct(buckets[b])) => Distinct(GetClosest(target))
<1> USE RoutingAssumption
<1> DEFINE B == 0..(NBUCKETS - 1)
           q == SortedEntries(target)
           g == [i \in DOMAIN q |-> IdAt(q[i])]
           C == CloserPairs(target)
           R == {p \in Entries \X Entries :
                    \/ <<IdAt(p[1]), IdAt(p[2])>> \in C
                    \/ IdAt(p[1]) = IdAt(p[2]) /\ p[1][2] < p[2][2]}
<1>1. \A b \in B : /\ buckets[b] \in Seq(Ids) /\ Len(buckets[b]) <= K
                   /\ \A i \in DOMAIN buckets[b] : BucketOf(buckets[b][i]) = b
    BY DEF BucketsOK, Sound, Range
<1>2. \A e : e \in Entries <=> \E b \in B : \E i \in DOMAIN buckets[b] : e = <<b, i>>
    BY DEF Entries, BucketsOK
<1>3. ASSUME NEW e \in Entries
      PROVE  /\ e[1] \in B /\ e[2] \in DOMAIN buckets[e[1]] /\ e[2] \in 1..K /\ e = <<e[1], e[2]>>
             /\ IdAt(e) \in Ids /\ BucketOf(IdAt(e)) = e[1]
  <2>1. PICK b \in B : \E i \in DOMAIN buckets[b] : e = <<b, i>>
      BY <1>2
  <2>2. PICK i \in DOMAIN buckets[b] : e = <<b, i>>
      BY <2>1
  <2>3. buckets[b] \in Seq(Ids) /\ Len(buckets[b]) <= K /\ BucketOf(buckets[b][i]) = b
      BY <1>1, <2>2
  <2>4. i \in 1..K
      BY <2>2, <2>3
  <2>5. buckets[b][i] \in Ids
      BY <2>2, <2>3
  <2> QED BY <2>1, <2>2, <2>3, <2>4, <2>5 DEF IdAt
<1>4. IsFiniteSet(Entries)
  <2>1. IsFiniteSet(B) /\ IsFiniteSet(1..K)
      BY FS_Interval
  <2>2. IsFiniteSet(B \X (1..K))
    <3> HIDE DEF B
    <3> QED BY <2>1, FS_Product
  <2>3. Entries \in SUBSET (B \X (1..K))
    <3> SUFFICES ASSUME NEW e \in Entries PROVE e \in B \X (1..K)
        OBVIOUS
    <3> QED BY <1>3
  <2> QED BY <2>2, <2>3, FS_Subset
<1>5. StrictOrder(Ids, C)
    BY CloserIsOrder
<1>6. \A e, f \in Entries :
          <<e, f>> \in R <=> \/ <<IdAt(e), IdAt(f)>> \in C
                             \/ IdAt(e) = IdAt(f) /\ e[2] < f[2]
    OBVIOUS
<1> HIDE DEF R, C
<1>7. StrictOrder(Entries, R)
  <2>1. ASSUME NEW e \in Entries PROVE <<e, e>> \notin R
    <3>1. IdAt(e) \in Ids /\ e[2] \in 1..K
        BY <1>3
    <3>2. <<IdAt(e), IdAt(e)>> \notin C /\ ~(e[2] < e[2])
        BY <1>5, <3>1 DEF StrictOrder
    <3> QED BY <1>6, <3>2
  <2>2. ASSUME NEW e \in Entries, NEW f \in Entries, NEW h \in Entries,
               <<e, f>> \in R, <<f, h>> \in R
        PROVE  <<e, h>> \in R
    <3>1. /\ IdAt(e) \in Ids /\ IdAt(f) \in Ids /\ IdAt(h) \in Ids
          /\ e[2] \in Int /\ f[2] \in Int /\ h[2] \in Int
        BY <1>3
    <3>2. /\ <<IdAt(e), IdAt(f)>> \in C \/ (IdAt(e) = IdAt(f) /\ e[2] < f[2])
          /\ <<IdAt(f), IdAt(h)>> \in C \/ (IdAt(f) = IdAt(h) /\ f[2] < h[2])
        BY <1>6, <2>2
    <3>3. <<IdAt(e), IdAt(h)>> \in C \/ (IdAt(e) = IdAt(h) /\ e[2] < h[2])
      <4>1. <<IdAt(e), IdAt(f)>> \in C /\ <<IdAt(f), IdAt(h)>> \in C => <<IdAt(e), IdAt(h)>> \in C
          BY <1>5, <3>1 DEF StrictOrder
      <4>2. e[2] < f[2] /\ f[2] < h[2] => e[2] < h[2]
          BY <3>1
      <4> QED BY <3>2, <4>1, <4>2
    <3> QED BY <1>6, <3>3
  <2>3. ASSUME NEW e \in Entries, NEW f \in Entries, e # f
        PROVE  <<e, f>> \in R \/ <<f, e>> \in R
    <3>1. /\ IdAt(e) \in Ids /\ IdAt(f) \in Ids /\ e[2] \in Int /\ f[2] \in Int
          /\ e = <<e[1], e[2]>> /\ f = <<f[1], f[2]>>
          /\ BucketOf(IdAt(e)) = e[1] /\ BucketOf(IdAt(f)) = f[1]
        BY <1>3
    <3>2. CASE IdAt(e) = IdAt(f)
      <4>1. e[2] # f[2]
          BY <2>3, <3>1, <3>2
      <4>2. e[2] < f[2] \/ f[2] < e[2]
          BY <3>1, <4>1
      <4> QED BY <1>6, <3>2, <4>2
    <3>3. CASE IdAt(e) # IdAt(f)
        BY <1>5, <1>6, <3>1, <3>3 DEF StrictOrder
    <3> QED BY <3>2, <3>3
  <2> QED BY <2>1, <2>2, <2>3 DEF StrictOrder
<1>8. PICK s \in [1..Cardinality(Entries) -> Entries] :
          /\ Range(s) = Entries
          /\ \A i, j \in DOMAIN s : i < j => <<s[j], s[i]>> \notin R
    BY <1>4, <1>7, SortedListExists
<1>9. \A i, j \in DOMAIN s : i < j => ~Closer(IdAt(s[j]), IdAt(s[i]), target)
  <2> SUFFICES ASSUME NEW i \in DOMAIN s, NEW j \in DOMAIN s, i < j,
                      Closer(IdAt(s[j]), IdAt(s[i]), target)
               PROVE  FALSE
      OBVIOUS
  <2>1. s[i] \in Entries /\ s[j] \in Entries
      BY <1>8
  <2>2. IdAt(s[i]) \in Ids /\ IdAt(s[j]) \in Ids
      BY <1>3, <2>1
  <2>3. <<IdAt(s[j]), IdAt(s[i])>> \in C
      BY <2>2 DEF C, CloserPairs
  <2> QED BY <1>6, <1>8, <2>1, <2>3
<1>10. q \in [1..Cardinality(Entries) -> Entries] /\ Range(q) = Entries
    BY <1>8, <1>9 DEF SortedEntries
<1> HIDE DEF q
<1>11. q \in Seq(Entries) /\ Distinct(q)
    BY <1>4, <1>10, ListOfAllIsDistinct
<1>12. \A i \in DOMAIN q : q[i] \in Entries /\ IdAt(q[i]) \in Ids
  <2>1. \A i \in DOMAIN q : q[i] \in Entries
      BY <1>10
  <2> QED BY <1>3, <2>1
<1>13. g \in Seq(Ids)
    BY <1>11, <1>12
<1>14. ASSUME \A b \in DOMAIN buckets : Distinct(buckets[b]) PROVE Distinct(g)
  <2> SUFFICES ASSUME NEW i \in DOMAIN q, NEW j \in DOMAIN q, IdAt(q[i]) = IdAt(q[j])
               PROVE  i = j
      BY DEF Distinct
  <2>1. PICK e \in Entries : e = q[i]
      BY <1>12
  <2>2. PICK f \in Entries : f = q[j]
      BY <1>12
  <2>3. e[1] = f[1] /\ e[1] \in DOMAIN buckets
      BY <1>3, <2>1, <2>2 DEF BucketsOK
  <2>4. e[2] = f[2]
      BY <1>3, <1>14, <2>1, <2>2, <2>3 DEF Distinct, IdAt
  <2>5. e = f
      BY <1>3, <2>3, <2>4
  <2> QED BY <1>11, <2>1, <2>2, <2>5 DEF Distinct
<1>15. GetClosest(target) = Truncate(g, K)
    BY DEF GetClosest, q
<1> HIDE DEF g
<1> QED BY <1>13, <1>14, <1>15, TruncateProperties

(* The next batch: entries of the queue that were not asked. *)
LEMMA BatchProperties ==
    ASSUME NEW A, lookup.queue \in Seq(A)
    PROVE  /\ Batch \in Seq(A)
           /\ Len(Batch) <= ALPHA
           /\ Range(Batch) \subseteq Range(lookup.queue)
           /\ Distinct(lookup.queue) => Distinct(Batch)
<1> DEFINE q == lookup.queue
           S == {i \in DOMAIN q : q[i] \notin lookup.visited}
           r == Subsequence(q, S)
<1>1. S \in SUBSET (DOMAIN q) /\ Batch = Truncate(r, ALPHA)
    BY DEF Batch
<1> HIDE DEF S
<1>2. /\ r \in Seq(A) /\ \A x : x \in Range(r) <=> \E i \in S : q[i] = x
      /\ Distinct(q) => Distinct(r)
  <2> HIDE DEF q
  <2> QED BY <1>1, SubsequenceProperties DEF q
<1>3. Range(r) \subseteq Range(q)
    BY <1>1, <1>2 DEF Range
<1> HIDE DEF r
<1>4. /\ Truncate(r, ALPHA) \in Seq(A) /\ Len(Truncate(r, ALPHA)) <= ALPHA
      /\ Range(Truncate(r, ALPHA)) \subseteq Range(r)
      /\ Distinct(r) => Distinct(Truncate(r, ALPHA))
    BY <1>2, RoutingAssumption, TruncateProperties
<1> QED BY <1>1, <1>2, <1>3, <1>4

-----------------------------------------------------------------------------
(* The lookup.  What find_node holds is well formed ...                    *)
LookupRecords ==
    [at : {"idle", "asking", "waiting"}, target : Ids, queue : Seq(Ids),
     closest : SUBSET Ids, visited : SUBSET Ids, batch : Seq(Ids),
     pending : SUBSET Nat, answers : Seq(Seq(Ids)), found : BOOLEAN]

LookupOK ==
    /\ lookup \in LookupRecords
    /\ lookup.at = "asking" => Len(lookup.queue) <= K
    /\ Len(lookup.batch) <= ALPHA /\ lookup.pending \subseteq DOMAIN lookup.batch

(* ... and the peers it still holds, the closest and the queue, include    *)
(* the K nearest of all it has heard of.  Those it has asked it had heard  *)
(* of, so that a known peer in an answer adds nothing.  Between rounds,    *)
(* and as long as a round has brought nothing new, closest is either       *)
(* empty, in the first round, or what a lookup ought to return.            *)
Held == lookup.closest \cup Range(lookup.queue)
Wanted == Nearest(heard, K, lookup.target)

HeardOK ==
    /\ heard \subseteq Ids /\ IsFiniteSet(heard)
    /\ lookup.at # "waiting" => ~lookup.found
    /\ ~lookup.found => lookup.closest = {} \/ lookup.closest = Wanted
    /\ lookup.at # "idle" =>
          /\ LocalId \in lookup.visited /\ lookup.visited \ {LocalId} \subseteq heard
          /\ Held \subseteq heard
          /\ Wanted \subseteq Held


LEMMA ReturnedFields ==
    ASSUME LookupOK, NEW closest \in SUBSET Ids, lookup' = Returned(closest)
    PROVE  /\ lookup' \in LookupRecords
           /\ lookup'.at = "idle" /\ lookup'.target = lookup.target /\ lookup'.closest = closest
           /\ lookup'.queue = <<>> /\ lookup'.batch = <<>> /\ lookup'.pending = {}
           /\ lookup'.found = FALSE
<1>1. lookup.target \in Ids
    BY DEF LookupOK, LookupRecords
<1>2. lookup' = [at |-> "idle", target |-> lookup.target, queue |-> <<>>, closest |-> closest,
                 visited |-> {}, batch |-> <<>>, pending |-> {}, answers |-> <<>>, found |-> FALSE]
    BY DEF Returned, NoLookup
<1> QED BY <1>1, <1>2 DEF LookupRecords

LEMMA StartFields ==
    ASSUME NEW target \in Ids, NEW q \in Seq(Ids), NEW l,
           l = [at |-> "asking", target |-> target, queue |-> q, closest |-> {},
                visited |-> {LocalId}, batch |-> <<>>, pending |-> {}, answers |-> <<>>,
                found |-> FALSE]
    PROVE  /\ l \in LookupRecords
           /\ l.at = "asking" /\ l.target = target /\ l.closest = {}
           /\ l.queue = q /\ l.visited = {LocalId} /\ l.batch = <<>>
           /\ l.pending = {} /\ l.found = FALSE
    BY RoutingAssumption DEF LookupRecords

LEMMA AskFields ==
    ASSUME LookupOK, NEW b \in Seq(Ids),
           lookup' = [lookup EXCEPT !.at = "waiting", !.batch = b, !.pending = DOMAIN b,
                         !.answers = [i \in DOMAIN b |-> <<>>],
                         !.visited = @ \cup Range(b), !.found = FALSE]
    PROVE  /\ lookup' \in LookupRecords
           /\ lookup'.at = "waiting" /\ lookup'.target = lookup.target
           /\ lookup'.closest = lookup.closest /\ lookup'.queue = lookup.queue
           /\ lookup'.visited = lookup.visited \cup Range(b) /\ lookup'.batch = b
           /\ lookup'.pending = DOMAIN b /\ lookup'.found = FALSE
<1>1. lookup \in LookupRecords
    BY DEF LookupOK
<1>2. Range(b) \subseteq Ids /\ DOMAIN b \subseteq Nat
    BY DEF Range
<1>3. [i \in DOMAIN b |-> <<>>] \in Seq(Seq(Ids))
  <2>1. <<>> \in Seq(Ids) /\ DOMAIN b = 1..Len(b) /\ Len(b) \in Nat
      OBVIOUS
  <2>2. [i \in 1..Len(b) |-> <<>>] \in [1..Len(b) -> Seq(Ids)]
      BY <2>1
  <2> QED BY <2>1, <2>2
<1> QED BY <1>1, <1>2, <1>3 DEF LookupRecords

LEMMA AnsweredFields ==
    ASSUME LookupOK, NEW i \in lookup.pending, NEW ids \in Seq(Ids),
           lookup' = [lookup EXCEPT !.pending = @ \ {i}, !.answers[i] = ids]
    PROVE  /\ lookup' \in LookupRecords
           /\ lookup'.at = lookup.at /\ lookup'.target = lookup.target
           /\ lookup'.closest = lookup.closest /\ lookup'.queue = lookup.queue
           /\ lookup'.visited = lookup.visited /\ lookup'.batch = lookup.batch
           /\ lookup'.pending = lookup.pending \ {i} /\ lookup'.found = lookup.found
<1>1. lookup \in LookupRecords
    BY DEF LookupOK
<1>2. [lookup.answers EXCEPT ![i] = ids] \in Seq(Seq(Ids))
  <2> DEFINE w == lookup.answers
  <2>1. w \in Seq(Seq(Ids))
      BY <1>1 DEF LookupRecords
  <2> HIDE DEF w
  <2>2. [w EXCEPT ![i] = ids] \in Seq(Seq(Ids))
    <3>1. CASE i \in 1..Len(w)
        BY <2>1, <3>1, ExceptSeq
    <3>2. CASE i \notin 1..Len(w)
      <4>1. [w EXCEPT ![i] = ids] = w
          BY <2>1, <3>2
      <4> QED BY <2>1, <4>1
    <3> QED BY <3>1, <3>2
  <2> QED BY <2>2 DEF w
<1> QED BY <1>1, <1>2 DEF LookupRecords

LEMMA NotAnsweredFields ==
    ASSUME LookupOK, NEW i \in lookup.pending,
           lookup' = [lookup EXCEPT !.pending = @ \ {i}]
    PROVE  /\ lookup' \in LookupRecords
           /\ lookup'.at = lookup.at /\ lookup'.target = lookup.target
           /\ lookup'.closest = lookup.closest /\ lookup'.queue = lookup.queue
           /\ lookup'.visited = lookup.visited /\ lookup'.batch = lookup.batch
           /\ lookup'.pending = lookup.pending \ {i} /\ lookup'.found = lookup.found
<1>1. lookup \in LookupRecords
    BY DEF LookupOK
<1> QED BY <1>1 DEF LookupRecords

LEMMA MergeFields ==
    ASSUME LookupOK, NEW i \in DOMAIN lookup.answers, lookup.answers[i] # <<>>,
           NEW q \in Seq(Ids), NEW found \in BOOLEAN,
           lookup' = [lookup EXCEPT !.answers[i] = Tail(@), !.queue = q, !.found = found]
    PROVE  /\ lookup' \in LookupRecords
           /\ lookup'.at = lookup.at /\ lookup'.target = lookup.target
           /\ lookup'.closest = lookup.closest /\ lookup'.queue = q
           /\ lookup'.visited = lookup.visited /\ lookup'.batch = lookup.batch
           /\ lookup'.pending = lookup.pending /\ lookup'.found = found
<1>1. lookup \in LookupRecords
    BY DEF LookupOK
<1>2. [lookup.answers EXCEPT ![i] = Tail(@)] \in Seq(Seq(Ids))
  <2>1. lookup.answers \in Seq(Seq(Ids)) /\ lookup.answers[i] \in Seq(Ids)
      BY <1>1 DEF LookupRecords
  <2>2. Tail(lookup.answers[i]) \in Seq(Ids)
      BY <2>1, HeadTailProperties
  <2> QED BY <2>1, <2>2
<1> QED BY <1>1, <1>2 DEF LookupRecords

LEMMA RoundFields ==
    ASSUME LookupOK, NEW closest \in SUBSET Ids, NEW q \in Seq(Ids),
           lookup' = [lookup EXCEPT !.at = "asking", !.closest = closest, !.queue = q,
                         !.batch = <<>>, !.answers = <<>>, !.found = FALSE]
    PROVE  /\ lookup' \in LookupRecords
           /\ lookup'.at = "asking" /\ lookup'.target = lookup.target
           /\ lookup'.closest = closest /\ lookup'.queue = q
           /\ lookup'.visited = lookup.visited /\ lookup'.batch = <<>>
           /\ lookup'.pending = lookup.pending /\ lookup'.found = FALSE
<1>1. lookup \in LookupRecords
    BY DEF LookupOK
<1>2. <<>> \in Seq(Ids) /\ <<>> \in Seq(Seq(Ids))
    OBVIOUS
<1>3. lookup' = [at |-> "asking", target |-> lookup.target, queue |-> q, closest |-> closest,
                 visited |-> lookup.visited, batch |-> <<>>, pending |-> lookup.pending,
                 answers |-> <<>>, found |-> FALSE]
    BY <1>1 DEF LookupRecords
<1>4. lookup' \in LookupRecords
    BY <1>1, <1>2, <1>3 DEF LookupRecords
<1> QED BY <1>3, <1>4

LEMMA AppendRange ==
    ASSUME NEW A, NEW s \in Seq(A), NEW x
    PROVE  Range(Append(s, x)) = Range(s) \cup {x}
<1> DEFINE r == Append(s, x)
<1>1. /\ Len(s) \in Nat /\ DOMAIN s = 1..Len(s) /\ DOMAIN r = 1..(Len(s) + 1)
      /\ \A i \in 1..Len(s) : r[i] = s[i]
      /\ r[Len(s) + 1] = x
    OBVIOUS
<1> HIDE DEF r
<1>2. ASSUME NEW y \in Range(r) PROVE y \in Range(s) \cup {x}
  <2>1. PICK i \in 1..(Len(s) + 1) : y = r[i]
      BY <1>1 DEF Range
  <2> QED BY <1>1, <2>1 DEF Range
<1>3. ASSUME NEW y \in Range(s) PROVE y \in Range(r)
  <2>1. PICK i \in 1..Len(s) : y = s[i]
      BY <1>1 DEF Range
  <2>2. i \in DOMAIN r /\ r[i] = y
      BY <1>1, <2>1
  <2> QED BY <2>2 DEF Range
<1>4. x \in Range(r)
    BY <1>1 DEF Range
<1> QED BY <1>2, <1>3, <1>4 DEF r

LookupInd == LookupOK /\ HeardOK

LEMMA SameLookup ==
    ASSUME LookupInd, UNCHANGED <<lookup, heard>>
    PROVE  LookupInd'
    BY DEF LookupInd, LookupOK, HeardOK, Held, Wanted

LEMMA StartStep ==
    ASSUME BucketsOK, LookupInd, StartLookup
    PROVE  LookupInd'
<1> USE RoutingAssumption
<1>1. PICK target \in Targets :
          /\ lookup' = [NoLookup EXCEPT !.at = "asking", !.target = target,
                           !.queue = GetClosest(target), !.visited = {LocalId}]
          /\ heard' = Range(GetClosest(target))
    BY DEF StartLookup
<1> DEFINE q == GetClosest(target)
<1>2. target \in Ids /\ q \in Seq(Ids) /\ Len(q) <= K
  <2>1. target \in Ids
      OBVIOUS
  <2> QED BY <2>1, GetClosestProperties
<1>3. IsFiniteSet(Range(q)) /\ Range(q) \subseteq Ids
  <2> HIDE DEF q
  <2>1. IsFiniteSet(Range(q))
      BY <1>2, RangeBound
  <2>2. Range(q) \subseteq Ids
      BY <1>2 DEF Range
  <2> QED BY <2>1, <2>2
<1>4. /\ lookup' \in LookupRecords
      /\ lookup'.at = "asking" /\ lookup'.target = target /\ lookup'.closest = {}
      /\ lookup'.queue = q /\ lookup'.visited = {LocalId} /\ lookup'.batch = <<>>
      /\ lookup'.pending = {} /\ lookup'.found = FALSE
  <2>1. lookup' = [at |-> "asking", target |-> target, queue |-> q, closest |-> {},
                   visited |-> {LocalId}, batch |-> <<>>, pending |-> {}, answers |-> <<>>,
                   found |-> FALSE]
      BY <1>1 DEF NoLookup
  <2> HIDE DEF q
  <2>2. target \in Ids /\ q \in Seq(Ids)
      BY <1>2
  <2> QED BY ONLY <2>1, <2>2, StartFields, Zenon
<1>5. heard' = Range(q)
    BY <1>1
<1> HIDE DEF q
<1>6. LookupOK'
    BY <1>2, <1>4 DEF LookupOK
<1>7. Nearest(heard', K, target) \subseteq heard'
    BY <1>2, <1>3, <1>5, NearestFacts
<1>8. HeardOK'
    BY <1>3, <1>4, <1>5, <1>7 DEF HeardOK, Held, Wanted
<1> QED BY <1>6, <1>8 DEF LookupInd

LEMMA AskStep ==
    ASSUME LookupInd, AskBatch
    PROVE  LookupInd'
<1>0. LookupOK /\ HeardOK /\ heard' = heard /\ lookup.at = "asking" /\ lookup \in LookupRecords
    BY DEF LookupInd, AskBatch, LookupOK
<1>1. lookup.queue \in Seq(Ids) /\ lookup.closest \in SUBSET Ids
    BY <1>0 DEF LookupRecords
<1>2. CASE Batch = <<>>
  <2>1. lookup' = Returned(lookup.closest)
      BY <1>2 DEF AskBatch
  <2>2. /\ lookup' \in LookupRecords
        /\ lookup'.at = "idle" /\ lookup'.target = lookup.target /\ lookup'.closest = lookup.closest
        /\ lookup'.batch = <<>> /\ lookup'.pending = {} /\ lookup'.found = FALSE
      BY <1>0, <1>1, <2>1, ReturnedFields
  <2>3. LookupOK'
      BY <2>2, RoutingAssumption DEF LookupOK
  <2>4. HeardOK'
      BY <1>0, <2>2 DEF HeardOK, Wanted
  <2> QED BY <2>3, <2>4 DEF LookupInd
<1>3. CASE Batch # <<>>
  <2> DEFINE b == Batch
  <2>1. lookup' = [lookup EXCEPT !.at = "waiting", !.batch = b, !.pending = DOMAIN b,
                      !.answers = [i \in DOMAIN b |-> <<>>],
                      !.visited = @ \cup Range(b), !.found = FALSE]
      BY <1>3 DEF AskBatch
  <2>2. b \in Seq(Ids) /\ Len(b) <= ALPHA /\ Range(b) \subseteq Range(lookup.queue)
      BY <1>1, BatchProperties
  <2> HIDE DEF b
  <2>3. /\ lookup' \in LookupRecords
        /\ lookup'.at = "waiting" /\ lookup'.target = lookup.target
        /\ lookup'.closest = lookup.closest /\ lookup'.queue = lookup.queue
        /\ lookup'.visited = lookup.visited \cup Range(b) /\ lookup'.batch = b
        /\ lookup'.pending = DOMAIN b /\ lookup'.found = FALSE
      BY <1>0, <2>1, <2>2, AskFields
  <2>4. LookupOK'
      BY <2>2, <2>3 DEF LookupOK
  <2>5. HeardOK'
      BY <1>0, <2>2, <2>3 DEF HeardOK, Held, Wanted
  <2> QED BY <2>4, <2>5 DEF LookupInd
<1> QED BY <1>2, <1>3

(* An answer, or none: the lookup only waits for one peer less. *)
LEMMA AnswerStep ==
    ASSUME LookupInd, NEW i, Answered(i) \/ NotAnswered(i)
    PROVE  LookupInd'
<1>0. LookupOK /\ HeardOK /\ heard' = heard /\ lookup \in LookupRecords /\ i \in lookup.pending
    BY DEF LookupInd, Answered, NotAnswered, LookupOK
<1>1. /\ lookup' \in LookupRecords
      /\ lookup'.at = lookup.at /\ lookup'.target = lookup.target
      /\ lookup'.closest = lookup.closest /\ lookup'.queue = lookup.queue
      /\ lookup'.visited = lookup.visited /\ lookup'.batch = lookup.batch
      /\ lookup'.pending = lookup.pending \ {i} /\ lookup'.found = lookup.found
  <2>1. CASE Answered(i)
    <3>1. PICK ids \in Answers : lookup' = [lookup EXCEPT !.pending = @ \ {i}, !.answers[i] = ids]
        BY <2>1 DEF Answered
    <3>2. ids \in Seq(Ids)
        BY RoutingAssumption
    <3> QED BY <1>0, <3>1, <3>2, AnsweredFields
  <2>2. CASE NotAnswered(i)
    <3>1. lookup' = [lookup EXCEPT !.pending = @ \ {i}]
        BY <2>2 DEF NotAnswered
    <3> QED BY <1>0, <3>1, NotAnsweredFields
  <2> QED BY <2>1, <2>2
<1>2. LookupOK'
    BY <1>0, <1>1 DEF LookupOK
<1>3. HeardOK'
    BY <1>0, <1>1 DEF HeardOK, Held, Wanted
<1> QED BY <1>2, <1>3 DEF LookupInd

LEMMA MergeStep ==
    ASSUME LookupInd, NEW i, MergeOne(i)
    PROVE  LookupInd'
<1> USE RoutingAssumption
<1> DEFINE id == Head(lookup.answers[i])
           fresh == id \notin lookup.visited
           q == IF fresh THEN Append(lookup.queue, id) ELSE lookup.queue
           found == lookup.found \/ fresh
<1>0. /\ LookupOK /\ HeardOK /\ lookup \in LookupRecords /\ lookup.at = "waiting"
      /\ i \in DOMAIN lookup.answers /\ lookup.answers[i] # <<>>
      /\ heard' = heard \cup ({id} \ {LocalId})
    BY DEF LookupInd, MergeOne, NextAnswer, LookupOK
<1>1. lookup.queue \in Seq(Ids) /\ lookup.target \in Ids /\ id \in Ids
  <2>1. lookup.queue \in Seq(Ids) /\ lookup.target \in Ids /\ lookup.answers[i] \in Seq(Ids)
      BY <1>0 DEF LookupRecords
  <2> QED BY <1>0, <2>1, HeadTailProperties
<1>2. lookup' = [lookup EXCEPT !.answers[i] = Tail(@), !.queue = q, !.found = found]
  <2>1. lookup' = [lookup EXCEPT !.answers[i] = Tail(@),
                     !.queue = IF fresh THEN Append(@, id) ELSE @,
                     !.found = @ \/ fresh]
      BY DEF MergeOne
  <2> HIDE DEF fresh, id
  <2> QED BY <1>0, <2>1 DEF LookupRecords
<1> HIDE DEF id
<1>3. q \in Seq(Ids) /\ found \in BOOLEAN
    BY <1>1
<1>4. Range(q) = IF fresh THEN Range(lookup.queue) \cup {id} ELSE Range(lookup.queue)
    BY <1>1, AppendRange
<1>5. LocalId \in lookup.visited /\ lookup.visited \ {LocalId} \subseteq heard
    BY <1>0 DEF HeardOK
<1>6. heard' = IF fresh THEN heard \cup {id} ELSE heard
    BY <1>0, <1>5
<1>7. found <=> lookup.found \/ fresh
    OBVIOUS
<1> HIDE DEF q, found
<1>8. /\ lookup' \in LookupRecords
      /\ lookup'.at = lookup.at /\ lookup'.target = lookup.target
      /\ lookup'.closest = lookup.closest /\ lookup'.queue = q
      /\ lookup'.visited = lookup.visited /\ lookup'.batch = lookup.batch
      /\ lookup'.pending = lookup.pending /\ lookup'.found = found
    BY <1>0, <1>2, <1>3, MergeFields
<1> HIDE DEF fresh
<1>9. LookupOK'
    BY <1>0, <1>8 DEF LookupOK
<1>10. HeardOK'
  <2>1. CASE fresh
    <3>1. /\ heard' = heard \cup {id} /\ Held' = Held \cup {id} /\ lookup'.found
          /\ heard \in SUBSET Ids /\ IsFiniteSet(heard) /\ Held \subseteq heard /\ Wanted \subseteq Held
        BY <1>0, <1>4, <1>6, <1>7, <1>8, <2>1 DEF Held, HeardOK
    <3>2. Nearest(heard \cup {id}, K, lookup.target) \subseteq Nearest(heard, K, lookup.target) \cup {id}
        BY <1>1, <3>1, NearestGrows
    <3>3. Wanted' \subseteq Wanted \cup {id}
        BY <1>8, <3>1, <3>2 DEF Wanted
    <3>4. heard' \subseteq Ids /\ IsFiniteSet(heard')
        BY <1>1, <3>1, FS_AddElement
    <3>5. LocalId \in lookup'.visited /\ lookup'.visited \ {LocalId} \subseteq heard'
        BY <1>5, <1>8, <3>1
    <3>6. Held' \subseteq heard' /\ Wanted' \subseteq Held' /\ lookup'.at = "waiting"
        BY <1>0, <1>8, <3>1, <3>3
    <3> QED BY <3>1, <3>4, <3>5, <3>6 DEF HeardOK
  <2>2. CASE ~fresh
    <3>1. heard' = heard /\ Held' = Held /\ Wanted' = Wanted
        BY <1>4, <1>6, <1>8, <2>2 DEF Held, Wanted
    <3>2. lookup'.found <=> lookup.found
        BY <1>7, <1>8, <2>2
    <3> QED BY <1>0, <1>8, <3>1, <3>2 DEF HeardOK
  <2> QED BY <2>1, <2>2
<1> QED BY <1>9, <1>10 DEF LookupInd

LEMMA RoundStep ==
    ASSUME LookupInd, EndRound
    PROVE  LookupInd'
<1> USE RoutingAssumption
<1> DEFINE left == Closest \ lookup.visited
<1>0. /\ LookupOK /\ HeardOK /\ lookup \in LookupRecords /\ lookup.at = "waiting"
      /\ lookup.pending = {} /\ heard' = heard
    BY DEF LookupInd, EndRound, LookupOK
<1>1. /\ lookup.target \in Ids /\ lookup.closest \in SUBSET Ids /\ lookup.queue \in Seq(Ids)
      /\ heard \in SUBSET Ids /\ IsFiniteSet(heard)
    BY <1>0 DEF LookupRecords, HeardOK
<1>2. Held \in SUBSET heard /\ Wanted \subseteq Held
    BY <1>0 DEF HeardOK
<1>3. Closest = Wanted
    BY <1>1, <1>2, NearestOfCover DEF Closest, Held, Wanted
<1>4. /\ Wanted \in SUBSET heard /\ IsFiniteSet(Wanted)
      /\ Cardinality(Wanted) \in Nat /\ Cardinality(Wanted) <= K
    BY <1>1, NearestFacts DEF Wanted
<1>5. CASE ~lookup.found
  <2>1. lookup' = Returned(lookup.closest)
      BY <1>5 DEF EndRound
  <2>2. /\ lookup' \in LookupRecords
        /\ lookup'.at = "idle" /\ lookup'.target = lookup.target /\ lookup'.closest = lookup.closest
        /\ lookup'.batch = <<>> /\ lookup'.pending = {} /\ lookup'.found = FALSE
      BY <1>0, <1>1, <2>1, ReturnedFields
  <2>3. LookupOK'
      BY <2>2 DEF LookupOK
  <2>4. HeardOK'
      BY <1>0, <1>5, <2>2 DEF HeardOK, Wanted
  <2> QED BY <2>3, <2>4 DEF LookupInd
<1>6. CASE lookup.found /\ left = {}
  <2>1. lookup' = Returned(Wanted)
      BY <1>3, <1>6 DEF EndRound
  <2>2. /\ lookup' \in LookupRecords
        /\ lookup'.at = "idle" /\ lookup'.target = lookup.target /\ lookup'.closest = Wanted
        /\ lookup'.batch = <<>> /\ lookup'.pending = {} /\ lookup'.found = FALSE
    <3>1. Wanted \in SUBSET Ids
        BY <1>1, <1>4
    <3> QED BY <1>0, <2>1, <3>1, ReturnedFields
  <2>3. LookupOK'
      BY <2>2 DEF LookupOK
  <2>4. HeardOK'
      BY <1>0, <2>2 DEF HeardOK, Wanted
  <2> QED BY <2>3, <2>4 DEF LookupInd
<1>7. CASE lookup.found /\ left # {}
  <2> DEFINE q == InOrder(left, lookup.target)
  <2>1. lookup' = [lookup EXCEPT !.at = "asking", !.closest = Wanted, !.queue = q,
                      !.batch = <<>>, !.answers = <<>>, !.found = FALSE]
      BY <1>3, <1>7 DEF EndRound
  <2>2. left \in SUBSET Wanted /\ left \in SUBSET Ids
      BY <1>1, <1>3, <1>4
  <2>3. IsFiniteSet(left) /\ Cardinality(left) <= K
    <3> HIDE DEF left
    <3>1. IsFiniteSet(left) /\ Cardinality(left) <= Cardinality(Wanted) /\ Cardinality(left) \in Nat
        BY <1>4, <2>2, FS_Subset, FS_CardinalityType
    <3> QED BY <1>4, <3>1
  <2>4. q \in Seq(Ids) /\ Len(q) <= K /\ Range(q) = left
    <3> HIDE DEF left
    <3> QED BY <1>1, <2>2, <2>3, InOrderProperties
  <2> HIDE DEF q
  <2>5. /\ lookup' \in LookupRecords
        /\ lookup'.at = "asking" /\ lookup'.target = lookup.target
        /\ lookup'.closest = Wanted /\ lookup'.queue = q
        /\ lookup'.visited = lookup.visited /\ lookup'.batch = <<>>
        /\ lookup'.pending = lookup.pending /\ lookup'.found = FALSE
    <3>1. Wanted \in SUBSET Ids
        BY <1>1, <1>4
    <3> QED BY <1>0, <2>1, <2>4, <3>1, RoundFields
  <2>6. LookupOK'
      BY <1>0, <2>4, <2>5 DEF LookupOK
  <2>7. Wanted' = Wanted /\ Held' = Wanted
    <3> HIDE DEF left
    <3> QED BY <1>0, <2>2, <2>4, <2>5 DEF Wanted, Held
  <2>8. HeardOK'
      BY <1>0, <1>4, <2>5, <2>7 DEF HeardOK
  <2> QED BY <2>6, <2>8 DEF LookupInd
<1> QED BY <1>5, <1>6, <1>7

LEMMA LookupSteps ==
    ASSUME BucketsOK, LookupInd, [Next]_vars
    PROVE  LookupInd'
<1>1. ASSUME NEW t \in Tasks, InsertPeer(t) PROVE LookupInd'
    BY <1>1, SameLookup DEF InsertPeer
<1>2. ASSUME NEW t \in Callers, PingAnswered(t) \/ PingFailed(t) PROVE LookupInd'
    BY <1>2, SameLookup DEF PingAnswered, PingFailed
<1>3. CASE UNCHANGED vars
    BY <1>3, SameLookup DEF vars
<1> QED BY <1>1, <1>2, <1>3, StartStep, AskStep, AnswerStep, MergeStep, RoundStep DEF Next, FindNode

LEMMA LookupInit == Init => LookupInd
<1> SUFFICES ASSUME Init PROVE LookupInd
    OBVIOUS
<1> USE RoutingAssumption
<1>1. lookup = NoLookup /\ heard = {}
    BY DEF Init
<1>2. LookupOK
    BY <1>1 DEF LookupOK, NoLookup, LookupRecords
<1>3. HeardOK
    BY <1>1, FS_EmptySet DEF HeardOK, NoLookup
<1> QED BY <1>2, <1>3 DEF LookupInd

LEMMA LookupIndImplies == LookupInd => LookupFindsNearest
<1> SUFFICES ASSUME LookupInd PROVE LookupFindsNearest
    OBVIOUS
<1>1. LookupOK /\ HeardOK /\ lookup \in LookupRecords
    BY DEF LookupInd, LookupOK
<1>2. IsLookup(lookup)
    BY <1>1 DEF LookupOK, LookupRecords, IsLookup
<1>3. lookup.at = "idle" /\ lookup.closest # {} => lookup.closest = Wanted
    BY <1>1 DEF HeardOK
<1> QED BY <1>2, <1>3 DEF LookupFindsNearest, Wanted

(* A lookup that has learned anything returns the K nearest of all the     *)
(* nodes it started from or was told of, whatever its peers answer, twice  *)
(* or out of order, and although it drops all but K of them after every    *)
(* round.                                                                  *)
THEOREM LookupCorrect == Spec => []LookupFindsNearest
<1>1. Init => TasksOK /\ BucketsOK /\ AnswersOK /\ LookupInd
    BY RoutingInit, LookupInit
<1>2. TasksOK /\ BucketsOK /\ AnswersOK /\ LookupInd /\ [Next]_vars
          => (TasksOK /\ BucketsOK /\ AnswersOK /\ LookupInd)'
    BY EveryStep, BucketsStep, LookupSteps
<1>3. LookupInd => LookupFindsNearest
    BY LookupIndImplies
<1> QED BY <1>1, <1>2, <1>3, PTL DEF Spec

-----------------------------------------------------------------------------
(* Eviction.  As long as nothing was disturbed, the bucket of a ping that  *)
(* is awaited is as it was when the ping was sent: full, without the new   *)
(* peer, and with the pinged one last.                                     *)
AsPinged(t) ==
    LET s == buckets[BucketOf(task[t].id)] IN
    Len(s) >= K /\ task[t].id \notin Range(s) /\ s[Len(s)] = task[t].tail

LookupWaits ==
    task[Lookup].at = "pinging" => lookup.at = "waiting" /\ lookup.pending = {}

TableCalm ==
    /\ wronged = {}
    /\ \A b \in 0..(NBUCKETS - 1) : Distinct(buckets[b])
    /\ \A t \in Callers : task[t].at = "pinging" => AsPinged(t)

QueueCalm ==
    /\ Distinct(lookup.batch)
    /\ lookup.at = "asking" => Distinct(lookup.queue)

EvictInd == LookupWaits /\ (~disturbed => TableCalm /\ QueueCalm)

(* One bucket changes.  Its other pings are disturbed, and the task that   *)
(* changes it awaits none, or none any more.                               *)
LEMMA CalmAfter ==
    ASSUME TasksOK, BucketsOK, TableCalm, NEW t \in Callers, NEW b \in 0..(NBUCKETS - 1), NEW s,
           buckets' = [buckets EXCEPT ![b] = s], Distinct(s), ~Disturbs(t, b), wronged' = wronged,
           task'[t].at # "pinging", \A u \in Callers \ {t} : task'[u] = task[u]
    PROVE  TableCalm'
<1>1. wronged' = {}
    BY DEF TableCalm
<1>2. buckets'[b] = s /\ \A a \in 0..(NBUCKETS - 1) : a # b => buckets'[a] = buckets[a]
    BY DEF BucketsOK
<1>3. ASSUME NEW a \in 0..(NBUCKETS - 1) PROVE Distinct(buckets'[a])
    BY <1>2 DEF TableCalm
<1>4. ASSUME NEW u \in Callers, task'[u].at = "pinging" PROVE AsPinged(u)'
  <2>1. u # t /\ task'[u] = task[u]
      BY <1>4
  <2>2. AsPinged(u) /\ BucketOf(task[u].id) # b
      BY <1>4, <2>1 DEF TableCalm, Disturbs
  <2>3. buckets'[BucketOf(task[u].id)] = buckets[BucketOf(task[u].id)]
      BY <1>2, <2>2, BucketOfType
  <2> QED BY <2>1, <2>2, <2>3 DEF AsPinged
<1> QED BY <1>1, <1>3, <1>4 DEF TableCalm

LEMMA InsertCalm ==
    ASSUME TasksOK, BucketsOK, TableCalm, NEW t \in Callers, task[t].at = "idle",
           NEW id \in Ids, Insert(t, id), wronged' = wronged, ~disturbed'
    PROVE  TableCalm'
<1> USE RoutingAssumption
<1> DEFINE b == BucketOf(id)
           s == buckets[b]
<1>0. b \in 0..(NBUCKETS - 1)
    BY BucketOfType
<1> HIDE DEF b
<1>1. s \in Seq(Ids) /\ Len(s) <= K /\ Distinct(s)
    BY <1>0 DEF BucketsOK, Sound, TableCalm
<1>2. CASE ~Accepts(id) /\ UNCHANGED <<buckets, task, disturbed>>
    BY <1>2 DEF TableCalm, AsPinged
<1>3. CASE /\ Accepts(id) /\ id \in Range(s)
           /\ buckets' = [buckets EXCEPT ![b] = MoveToHead(@, id)]
           /\ disturbed' = (disturbed \/ Disturbs(t, b)) /\ UNCHANGED task
  <2> DEFINE r == MoveToHead(s, id)
  <2>1. Distinct(r)
      BY <1>1, <1>3, MoveToHeadProperties
  <2>2. buckets' = [buckets EXCEPT ![b] = r]
      BY <1>3
  <2>3. ~Disturbs(t, b) /\ task'[t].at # "pinging" /\ \A u \in Callers \ {t} : task'[u] = task[u]
      BY <1>3
  <2> HIDE DEF r
  <2> QED BY <1>0, <2>1, <2>2, <2>3, CalmAfter
<1>4. CASE /\ Accepts(id) /\ id \notin Range(s) /\ Len(s) < K
           /\ buckets' = [buckets EXCEPT ![b] = <<id>> \o @]
           /\ disturbed' = (disturbed \/ Disturbs(t, b)) /\ UNCHANGED task
  <2> DEFINE r == <<id>> \o s
  <2>1. Distinct(r)
      BY <1>1, <1>4, PrependProperties
  <2>2. buckets' = [buckets EXCEPT ![b] = r]
      BY <1>4
  <2>3. ~Disturbs(t, b) /\ task'[t].at # "pinging" /\ \A u \in Callers \ {t} : task'[u] = task[u]
      BY <1>4
  <2> HIDE DEF r
  <2> QED BY <1>0, <2>1, <2>2, <2>3, CalmAfter
<1>5. CASE /\ Accepts(id) /\ id \notin Range(s) /\ Len(s) >= K
           /\ task' = [task EXCEPT ![t] = [at |-> "pinging", id |-> id, tail |-> s[Len(s)]]]
           /\ UNCHANGED <<buckets, disturbed>>
  <2>1. /\ task'[t].id = id /\ task'[t].tail = s[Len(s)]
        /\ \A u \in Callers \ {t} : task'[u] = task[u]
      BY <1>5 DEF TasksOK
  <2>2. AsPinged(t)'
      BY <1>5, <2>1 DEF AsPinged, b
  <2>3. ASSUME NEW u \in Callers \ {t}, task'[u].at = "pinging" PROVE AsPinged(u)'
      BY <1>5, <2>1, <2>3 DEF TableCalm, AsPinged
  <2> QED BY <1>5, <2>2, <2>3 DEF TableCalm
<1> QED BY <1>2, <1>3, <1>4, <1>5 DEF Insert, b

LEMMA PingFailedCalm ==
    ASSUME TasksOK, BucketsOK, TableCalm, NEW t \in Callers, PingFailed(t), ~disturbed'
    PROVE  TableCalm'
<1> USE RoutingAssumption
<1> DEFINE id == task[t].id
           b == BucketOf(id)
           s == buckets[b]
           r == ReplaceTail(s, id)
<1>0. b \in 0..(NBUCKETS - 1) /\ id \in Ids
    BY BucketOfType DEF TasksOK, PingFailed
<1>1. s \in Seq(Ids) /\ Distinct(s)
    BY <1>0 DEF BucketsOK, Sound, TableCalm
<1>2. Len(s) >= K /\ id \notin Range(s) /\ s[Len(s)] = task[t].tail
    BY DEF PingFailed, TableCalm, AsPinged
<1>3. /\ buckets' = [buckets EXCEPT ![b] = r] /\ wronged' = wronged
      /\ ~Disturbs(t, b) /\ task' = [task EXCEPT ![t] = Quiet]
    BY <1>2 DEF PingFailed
<1>4. task'[t].at # "pinging" /\ \A u \in Callers \ {t} : task'[u] = task[u]
    BY <1>3 DEF TasksOK, Quiet
<1>5. Distinct(r)
  <2>1. s # <<>>
      BY <1>1, <1>2
  <2> HIDE DEF s, id
  <2> QED BY <1>0, <1>1, <1>2, <2>1, ReplaceTailProperties
<1> HIDE DEF r, s, b, id
<1> QED BY <1>0, <1>3, <1>4, <1>5, CalmAfter

LEMMA NotAnsweredCalm ==
    ASSUME TasksOK, BucketsOK, TableCalm, LookupWaits, NEW i, NotAnswered(i), ~disturbed'
    PROVE  TableCalm'
<1> DEFINE id == lookup.batch[i]
           b == BucketOf(id)
           s == buckets[b]
           r == Without(s, id)
<1>0. b \in 0..(NBUCKETS - 1) /\ Lookup \in Callers
    BY BucketOfType DEF Callers
<1>1. s \in Seq(Ids) /\ Distinct(s)
    BY <1>0 DEF BucketsOK, Sound, TableCalm
<1>2. /\ buckets' = [buckets EXCEPT ![b] = r] /\ wronged' = wronged
      /\ ~Disturbs(Lookup, b) /\ task' = task /\ i \in lookup.pending
    BY DEF NotAnswered
<1>3. task'[Lookup].at # "pinging"
    BY <1>2 DEF LookupWaits
<1>4. Distinct(r)
  <2> HIDE DEF s, id
  <2> QED BY <1>1, WithoutProperties
<1> HIDE DEF r, s, b, id
<1> QED BY <1>0, <1>2, <1>3, <1>4, CalmAfter

(* Steps that leave the table alone. *)
LEMMA SameTable ==
    ASSUME TableCalm, UNCHANGED <<buckets, task, wronged>>
    PROVE  TableCalm'
    BY DEF TableCalm, AsPinged

LEMMA EvictSteps ==
    ASSUME TasksOK, BucketsOK, LookupInd, EvictInd, [Next]_vars
    PROVE  EvictInd'
<1> USE RoutingAssumption
<1>0. /\ Lookup \in Callers /\ Lookup \notin Tasks /\ LookupWaits
      /\ lookup \in LookupRecords /\ LookupOK /\ lookup.queue \in Seq(Ids)
    BY DEF Callers, EvictInd, LookupInd, LookupOK, LookupRecords
<1>1. ASSUME NEW t \in Tasks, InsertPeer(t) PROVE EvictInd'
  <2>1. /\ task[t].at = "idle" /\ t \in Callers /\ t # Lookup
        /\ lookup' = lookup /\ wronged' = wronged
      BY <1>0, <1>1 DEF InsertPeer, Callers
  <2>2. PICK id \in Ids : Insert(t, id)
      BY <1>1 DEF InsertPeer
  <2>3. task'[Lookup] = task[Lookup] /\ (disturbed => disturbed')
      BY <1>0, <2>1, <2>2 DEF Insert, TasksOK
  <2>4. LookupWaits'
      BY <1>0, <2>1, <2>3 DEF LookupWaits
  <2>5. ASSUME ~disturbed' PROVE TableCalm' /\ QueueCalm'
    <3>1. TableCalm /\ QueueCalm
        BY <2>3, <2>5 DEF EvictInd
    <3>2. TableCalm'
        BY <2>1, <2>2, <2>5, <3>1, InsertCalm
    <3> QED BY <2>1, <3>1, <3>2 DEF QueueCalm
  <2> QED BY <2>4, <2>5 DEF EvictInd
<1>2. ASSUME NEW t \in Callers, PingAnswered(t) PROVE EvictInd'
  <2>1. /\ task' = [task EXCEPT ![t] = Quiet]
        /\ UNCHANGED <<buckets, lookup, disturbed, wronged>>
      BY <1>2 DEF PingAnswered
  <2>2. \A u \in Callers : task'[u].at = "pinging" => task'[u] = task[u]
      BY <2>1 DEF TasksOK, Quiet
  <2>3. LookupWaits'
      BY <1>0, <2>1, <2>2 DEF LookupWaits
  <2>4. TableCalm => TableCalm'
      BY <2>1, <2>2 DEF TableCalm, AsPinged
  <2> QED BY <2>1, <2>3, <2>4 DEF EvictInd, QueueCalm
<1>3. ASSUME NEW t \in Callers, PingFailed(t) PROVE EvictInd'
  <2>1. /\ task' = [task EXCEPT ![t] = Quiet] /\ lookup' = lookup /\ (disturbed => disturbed')
      BY <1>3 DEF PingFailed
  <2>2. \A u \in Callers : task'[u].at = "pinging" => task'[u] = task[u]
      BY <2>1 DEF TasksOK, Quiet
  <2>3. LookupWaits'
      BY <1>0, <2>1, <2>2 DEF LookupWaits
  <2>4. ASSUME ~disturbed' PROVE TableCalm' /\ QueueCalm'
    <3>1. TableCalm /\ QueueCalm
        BY <2>1, <2>4 DEF EvictInd
    <3>2. TableCalm'
        BY <1>3, <2>4, <3>1, PingFailedCalm
    <3> QED BY <2>1, <3>1, <3>2 DEF QueueCalm
  <2> QED BY <2>3, <2>4 DEF EvictInd
<1>4. CASE StartLookup
  <2>1. /\ task[Lookup].at = "idle" /\ UNCHANGED <<buckets, task, disturbed, wronged>>
      BY <1>4 DEF StartLookup
  <2>2. PICK target \in Targets :
            lookup' = [NoLookup EXCEPT !.at = "asking", !.target = target,
                          !.queue = GetClosest(target), !.visited = {LocalId}]
      BY <1>4 DEF StartLookup
  <2>3. lookup'.batch = <<>> /\ lookup'.queue = GetClosest(target)
      BY <2>2 DEF NoLookup
  <2>4. TableCalm => Distinct(GetClosest(target))
    <3>1. target \in Ids
        OBVIOUS
    <3>2. TableCalm => \A b \in DOMAIN buckets : Distinct(buckets[b])
        BY DEF TableCalm, BucketsOK
    <3> QED BY <3>1, <3>2, GetClosestProperties
  <2>5. TableCalm => QueueCalm'
      BY <2>3, <2>4 DEF QueueCalm, Distinct
  <2>6. LookupWaits'
      BY <2>1 DEF LookupWaits
  <2> QED BY <2>1, <2>5, <2>6, SameTable DEF EvictInd
<1>5. CASE AskBatch
  <2>1. lookup.at = "asking" /\ UNCHANGED <<buckets, task, disturbed, wronged>>
      BY <1>5 DEF AskBatch
  <2>2. LookupWaits'
      BY <1>0, <2>1 DEF LookupWaits
  <2>3. CASE Batch = <<>>
    <3>1. lookup'.batch = <<>> /\ lookup'.at = "idle"
        BY <1>5, <2>3 DEF AskBatch, Returned, NoLookup
    <3>2. QueueCalm'
        BY <3>1 DEF QueueCalm, Distinct
    <3> QED BY <2>1, <2>2, <3>2, SameTable DEF EvictInd
  <2>4. CASE Batch # <<>>
    <3>1. lookup'.batch = Batch /\ lookup'.at = "waiting"
        BY <1>0, <1>5, <2>4 DEF AskBatch, LookupRecords
    <3>2. QueueCalm => QueueCalm'
        BY <1>0, <2>1, <3>1, BatchProperties DEF QueueCalm
    <3> QED BY <2>1, <2>2, <3>2, SameTable DEF EvictInd
  <2> QED BY <2>3, <2>4
<1>6. ASSUME NEW i \in 1..ALPHA, Answered(i) PROVE EvictInd'
  <2>1. /\ UNCHANGED <<buckets, task, disturbed, wronged>> /\ i \in lookup.pending
        /\ lookup'.batch = lookup.batch /\ lookup'.queue = lookup.queue /\ lookup'.at = lookup.at
      BY <1>0, <1>6 DEF Answered, LookupRecords
  <2>2. LookupWaits'
      BY <1>0, <2>1 DEF LookupWaits
  <2>3. QueueCalm => QueueCalm'
      BY <2>1 DEF QueueCalm
  <2> QED BY <2>1, <2>2, <2>3, SameTable DEF EvictInd
<1>7. ASSUME NEW i \in 1..ALPHA, NotAnswered(i) PROVE EvictInd'
  <2>1. /\ UNCHANGED <<task, wronged>> /\ i \in lookup.pending /\ (disturbed => disturbed')
        /\ lookup'.batch = lookup.batch /\ lookup'.queue = lookup.queue /\ lookup'.at = lookup.at
      BY <1>0, <1>7 DEF NotAnswered, LookupRecords
  <2>2. LookupWaits'
      BY <1>0, <2>1 DEF LookupWaits
  <2>3. ASSUME ~disturbed' PROVE TableCalm' /\ QueueCalm'
    <3>1. TableCalm /\ QueueCalm
        BY <2>1, <2>3 DEF EvictInd
    <3>2. TableCalm'
        BY <1>0, <1>7, <2>3, <3>1, NotAnsweredCalm
    <3> QED BY <2>1, <3>1, <3>2 DEF QueueCalm
  <2> QED BY <2>2, <2>3 DEF EvictInd
<1>8. ASSUME NEW i \in 1..ALPHA, MergeOne(i) PROVE EvictInd'
  <2> DEFINE id == Head(lookup.answers[i])
  <2>1. /\ task[Lookup].at = "idle" /\ lookup.at = "waiting" /\ lookup.pending = {}
        /\ Insert(Lookup, id) /\ wronged' = wronged
      BY <1>8 DEF MergeOne
  <2>2. lookup'.batch = lookup.batch /\ lookup'.at = "waiting" /\ lookup'.pending = {}
      BY <1>0, <1>8 DEF MergeOne, LookupRecords
  <2>3. id \in Ids
    <3>1. lookup.answers[i] \in Seq(Ids) /\ lookup.answers[i] # <<>>
        BY <1>0, <1>8 DEF MergeOne, NextAnswer, LookupRecords
    <3> QED BY <3>1, HeadTailProperties
  <2> HIDE DEF id
  <2>4. LookupWaits' /\ (disturbed => disturbed')
    <3>1. LookupWaits'
        BY <2>2 DEF LookupWaits
    <3>2. disturbed => disturbed'
        BY <2>1 DEF Insert
    <3> QED BY <3>1, <3>2
  <2>5. ASSUME ~disturbed' PROVE TableCalm' /\ QueueCalm'
    <3>1. TableCalm /\ QueueCalm
        BY <2>4, <2>5 DEF EvictInd
    <3>2. TableCalm'
        BY <1>0, <2>1, <2>3, <2>5, <3>1, InsertCalm
    <3> QED BY <2>2, <3>1, <3>2 DEF QueueCalm
  <2> QED BY <2>4, <2>5 DEF EvictInd
<1>9. CASE EndRound
  <2>1. task[Lookup].at = "idle" /\ UNCHANGED <<buckets, task, disturbed, wronged>>
      BY <1>9 DEF EndRound
  <2>2. LookupWaits'
      BY <2>1 DEF LookupWaits
  <2>3. QueueCalm'
    <3> DEFINE left == Closest \ lookup.visited
               q == InOrder(left, lookup.target)
    <3>1. CASE ~lookup.found \/ left = {}
      <4>1. lookup'.batch = <<>> /\ lookup'.at = "idle"
          BY <1>9, <3>1 DEF EndRound, Returned, NoLookup
      <4> QED BY <4>1 DEF QueueCalm, Distinct
    <3>2. CASE lookup.found /\ left # {}
      <4>1. lookup'.batch = <<>> /\ lookup'.queue = q
          BY <1>0, <1>9, <3>2 DEF EndRound, LookupRecords
      <4>2. left \in SUBSET Ids /\ IsFiniteSet(left) /\ lookup.target \in Ids
        <5> DEFINE H == lookup.closest \cup Range(lookup.queue)
        <5>1. lookup.target \in Ids /\ H \in SUBSET Ids
            BY <1>0 DEF LookupRecords, Range
        <5>2. HeardOK /\ lookup.at = "waiting" /\ heard \subseteq Ids /\ IsFiniteSet(heard)
            BY <1>9 DEF LookupInd, HeardOK, EndRound
        <5>3. H \in SUBSET heard
            BY <5>2 DEF HeardOK, Held
        <5>4. IsFiniteSet(H)
            BY <5>2, <5>3, FS_Subset
        <5>5. Closest \in SUBSET H
          <6> HIDE DEF H
          <6> QED BY <5>1, <5>4, NearestFacts DEF Closest, H
        <5>6. left \in SUBSET H
            BY <5>5
        <5> HIDE DEF H, left
        <5> QED BY <5>1, <5>4, <5>6, FS_Subset
      <4>3. Distinct(q)
        <5> HIDE DEF left
        <5> QED BY <4>2, InOrderProperties
      <4>4. Distinct(lookup'.batch)
          BY <4>1 DEF Distinct
      <4> HIDE DEF q
      <4> QED BY <4>1, <4>3, <4>4 DEF QueueCalm
    <3> QED BY <3>1, <3>2
  <2> QED BY <2>1, <2>2, <2>3, SameTable DEF EvictInd
<1>10. CASE UNCHANGED vars
  <2>1. UNCHANGED <<buckets, task, lookup, disturbed, wronged>>
      BY <1>10 DEF vars
  <2> QED BY <2>1, SameTable DEF EvictInd, LookupWaits, QueueCalm
<1> QED BY <1>1, <1>2, <1>3, <1>4, <1>5, <1>6, <1>7, <1>8, <1>9, <1>10 DEF Next, FindNode

LEMMA EvictInit == Init => EvictInd
<1> SUFFICES ASSUME Init PROVE EvictInd
    OBVIOUS
<1>1. \A t \in Callers : task[t].at = "idle"
    BY DEF Init, Quiet
<1>2. Lookup \in Callers
    BY DEF Callers
<1>3. \A b \in 0..(NBUCKETS - 1) : Distinct(buckets[b])
    BY DEF Init, Distinct
<1>4. Distinct(lookup.batch) /\ lookup.at = "idle"
    BY DEF Init, NoLookup, Distinct
<1> QED BY <1>1, <1>2, <1>3, <1>4 DEF Init, EvictInd, LookupWaits, TableCalm, QueueCalm

(* Where no bucket changes under a ping that is awaited, insert evicts     *)
(* only the peer whose ping failed, buckets list a peer once, and a lookup *)
(* asks a peer once: that window is the only way to lose them.             *)
THEOREM EvictionCorrect == Spec => []EvictionSound
<1>1. Init => TasksOK /\ BucketsOK /\ AnswersOK /\ LookupInd /\ EvictInd
    BY RoutingInit, LookupInit, EvictInit
<1>2. TasksOK /\ BucketsOK /\ AnswersOK /\ LookupInd /\ EvictInd /\ [Next]_vars
          => (TasksOK /\ BucketsOK /\ AnswersOK /\ LookupInd /\ EvictInd)'
    BY EveryStep, BucketsStep, LookupSteps, EvictSteps
<1>3. BucketsOK /\ EvictInd => EvictionSound
    BY DEF EvictInd, TableCalm, QueueCalm, EvictionSound, BucketsOK
<1> QED BY <1>1, <1>2, <1>3, PTL DEF Spec

=============================================================================
