---------------------------- MODULE PostProc_proofs ----------------------------
(***************************************************************************)
(* The post-processor, for every number of buffers, of jobs and of          *)
(* pictures, every setting and whatever a capture leaves to the next: who   *)
(* owns a buffer, how the threads start and stop each other, what           *)
(* SNAPSHOT_DONE stands for, which job an output is paired with, and that   *)
(* a thread that waits has been told of the work there is.                  *)
(***************************************************************************)
EXTENDS PostProcSteps, FiniteSetTheorems, SequenceTheorems, WellFoundedInduction, TLAPS

-----------------------------------------------------------------------------
(* Sequences, and how many of their elements are in a set.                  *)
One(b) == IF b THEN 1 ELSE 0

(* The count is a number, of positions.                                     *)
LEMMA CountNat ==
  ASSUME NEW S, NEW s \in Seq(S), NEW V
  PROVE  /\ IsFiniteSet({k \in DOMAIN s : s[k] \in V})
         /\ Count(s, V) \in Nat
         /\ Count(s, V) <= Len(s)
<1>1. IsFiniteSet(1 .. Len(s)) /\ Cardinality(1 .. Len(s)) = Len(s)
  <2>1. Len(s) \in Nat
    OBVIOUS
  <2>2. /\ IsFiniteSet(1 .. Len(s))
        /\ Cardinality(1 .. Len(s)) = IF 1 > Len(s) THEN 0 ELSE Len(s) - 1 + 1
    BY <2>1, FS_Interval
  <2> QED BY <2>1, <2>2
<1>2. {k \in DOMAIN s : s[k] \in V} \subseteq 1 .. Len(s)
  OBVIOUS
<1>3. /\ IsFiniteSet({k \in DOMAIN s : s[k] \in V})
      /\ Cardinality({k \in DOMAIN s : s[k] \in V}) <= Cardinality(1 .. Len(s))
  BY <1>1, <1>2, FS_Subset, Zenon
<1>4. Cardinality({k \in DOMAIN s : s[k] \in V}) \in Nat
  BY <1>3, FS_CardinalityType
<1> QED BY <1>1, <1>3, <1>4 DEF Count

LEMMA CountNone ==
  ASSUME NEW s, NEW V, \A k \in DOMAIN s : s[k] \notin V
  PROVE  Count(s, V) = 0
<1>1. {k \in DOMAIN s : s[k] \in V} = {}
  OBVIOUS
<1> QED BY <1>1, FS_EmptySet DEF Count

LEMMA CountPositive ==
  ASSUME NEW S, NEW s \in Seq(S), NEW V, NEW k \in DOMAIN s, s[k] \in V
  PROVE  Count(s, V) > 0
<1>1. {j \in DOMAIN s : s[j] \in V} # {}
  OBVIOUS
<1>2. IsFiniteSet({j \in DOMAIN s : s[j] \in V}) /\ Count(s, V) \in Nat
  BY CountNat
<1>3. Count(s, V) # 0
  BY <1>1, <1>2, FS_EmptySet DEF Count
<1> QED BY <1>2, <1>3

(* Of two sequences one after the other, the sum.                           *)
LEMMA CountConcat ==
  ASSUME NEW S, NEW s \in Seq(S), NEW t \in Seq(S), NEW V
  PROVE  Count(s \o t, V) = Count(s, V) + Count(t, V)
<1> DEFINE P == {k \in DOMAIN s : s[k] \in V}
           Q == {k \in DOMAIN t : t[k] \in V}
           R == {k \in DOMAIN (s \o t) : (s \o t)[k] \in V}
           Q2 == {k \in Len(s) + 1 .. Len(s) + Len(t) : t[k - Len(s)] \in V}
<1>1. /\ s \o t \in Seq(S) /\ Len(s \o t) = Len(s) + Len(t)
      /\ \A i \in 1 .. Len(s) + Len(t) : (s \o t)[i] = IF i <= Len(s) THEN s[i] ELSE t[i - Len(s)]
  BY ConcatProperties
<1>2. Len(s) \in Nat /\ Len(t) \in Nat /\ DOMAIN s = 1 .. Len(s) /\ DOMAIN t = 1 .. Len(t)
      /\ DOMAIN (s \o t) = 1 .. Len(s) + Len(t)
  BY <1>1, LenProperties
<1>3. IsFiniteSet(P) /\ IsFiniteSet(Q) /\ IsFiniteSet(R)
  BY <1>1, CountNat
<1>4. R = P \cup Q2
  BY <1>1, <1>2
<1>5. P \cap Q2 = {}
  BY <1>2
<1>6. Q2 \subseteq Len(s) + 1 .. Len(s) + Len(t)
  OBVIOUS
<1>7. IsFiniteSet(Q2)
  <2>1. Len(s) + 1 \in Int /\ Len(s) + Len(t) \in Int
    BY <1>2
  <2>2. IsFiniteSet(Len(s) + 1 .. Len(s) + Len(t))
    BY <2>1, FS_Interval
  <2> QED BY <1>6, <2>2, FS_Subset
<1>8. Cardinality(Q2) = Cardinality(Q)
  <2> DEFINE g == [k \in Q |-> k + Len(s)]
  <2>1. g \in Bijection(Q, Q2)
    <3>1. g \in [Q -> Q2]
      BY <1>2
    <3>2. \A a, b \in Q : g[a] = g[b] => a = b
      BY <1>2
    <3>3. \A y \in Q2 : \E a \in Q : g[a] = y
      <4>1. ASSUME NEW y \in Q2 PROVE \E a \in Q : g[a] = y
        <5>1. y - Len(s) \in Q
          BY <1>2
        <5>2. g[y - Len(s)] = y
          BY <1>2, <5>1
        <5> QED BY <5>1, <5>2
      <4> QED BY <4>1
    <3> HIDE DEF g, Q, Q2
    <3>4. g \in Injection(Q, Q2)
      <4>1. DOMAIN g = Q
        BY <3>1
      <4>2. IsInjective(g)
        BY <3>2, <4>1 DEF IsInjective
      <4> QED BY <3>1, <4>2 DEF Injection
    <3>5. g \in Surjection(Q, Q2)
      BY <3>1, <3>3 DEF Surjection
    <3> QED BY <3>4, <3>5 DEF Bijection
  <2> HIDE DEF g, Q, Q2
  <2>2. ExistsBijection(Q, Q2)
    BY <2>1 DEF ExistsBijection
  <2> QED BY <1>3, <1>7, <2>1, <2>2, FS_Bijection
<1> HIDE DEF P, Q, R, Q2
<1>9. Cardinality(R) = Cardinality(P) + Cardinality(Q2)
  <2>1. Cardinality(P \cap Q2) = 0
    BY <1>5, FS_EmptySet
  <2>2. Cardinality(P) \in Nat /\ Cardinality(Q2) \in Nat
    BY <1>3, <1>7, FS_CardinalityType
  <2>3. Cardinality(P \cup Q2) = Cardinality(P) + Cardinality(Q2) - Cardinality(P \cap Q2)
    BY <1>3, <1>7, FS_Union
  <2> QED BY <1>4, <2>1, <2>2, <2>3
<1> QED BY <1>8, <1>9 DEF P, Q, R, Count

LEMMA CountOne ==
  ASSUME NEW x, NEW V
  PROVE  Count(<<x>>, V) = One(x \in V)
<1>1. CASE x \in V
  <2>1. {k \in DOMAIN <<x>> : <<x>>[k] \in V} = {1}
    BY <1>1
  <2>2. Cardinality({1}) = 1
    BY FS_Singleton
  <2> QED BY <1>1, <2>1, <2>2 DEF Count, One
<1>2. CASE x \notin V
  <2>1. {k \in DOMAIN <<x>> : <<x>>[k] \in V} = {}
    BY <1>2
  <2> QED BY <1>2, <2>1, FS_EmptySet DEF Count, One
<1> QED BY <1>1, <1>2

LEMMA CountTwo ==
  ASSUME NEW x, NEW y, NEW V
  PROVE  Count(<<x, y>>, V) = One(x \in V) + One(y \in V)
<1> DEFINE S == {x, y}
           a == <<x>>
           b == <<y>>
<1>1. a \in Seq(S) /\ b \in Seq(S) /\ <<x, y>> = a \o b
  <2>1. <<x>> \in Seq({x, y})
    OBVIOUS
  <2>2. <<y>> \in Seq({x, y})
    OBVIOUS
  <2>3. <<x>> \o <<y>> = Append(<<x>>, y)
    BY <2>1, AppendIsConcat
  <2>4. Append(<<x>>, y) = <<x, y>>
    <3>1. <<x, y>> \in Seq({x, y}) /\ Len(<<x, y>>) = 2 /\ <<x, y>>[1] = x /\ <<x, y>>[2] = y
      OBVIOUS
    <3>2. Len(<<x>>) = 1 /\ <<x>>[1] = x
      OBVIOUS
    <3>3. /\ Append(<<x>>, y) \in Seq({x, y}) /\ Len(Append(<<x>>, y)) = 1 + 1
          /\ Append(<<x>>, y)[1] = x /\ Append(<<x>>, y)[1 + 1] = y
      BY <2>1, <3>2, AppendProperties
    <3>4. \A i \in 1 .. 2 : Append(<<x>>, y)[i] = <<x, y>>[i]
      BY <3>1, <3>3
    <3> DEFINE p == Append(<<x>>, y)
               q == <<x, y>>
               T == {x, y}
    <3>5. p \in Seq(T) /\ q \in Seq(T) /\ Len(p) = 2 /\ Len(q) = 2 /\ \A i \in 1 .. 2 : p[i] = q[i]
      BY <3>1, <3>3, <3>4
    <3> HIDE DEF p, q, T
    <3>6. p = q
      BY <3>5, SeqEqual
    <3> QED BY <3>6 DEF p, q
  <2> QED BY <2>1, <2>2, <2>3, <2>4
<1>2. Count(a, V) = One(x \in V) /\ Count(b, V) = One(y \in V)
  BY CountOne
<1> HIDE DEF S, a, b
<1>3. Count(a \o b, V) = Count(a, V) + Count(b, V)
  BY <1>1, CountConcat
<1> QED BY <1>1, <1>2, <1>3

LEMMA CountEmpty == \A V : Count(<<>>, V) = 0
BY CountNone

LEMMA CountAppend ==
  ASSUME NEW S, NEW s \in Seq(S), NEW x \in S, NEW V
  PROVE  Count(Append(s, x), V) = Count(s, V) + One(x \in V)
<1>1. Append(s, x) = s \o <<x>> /\ <<x>> \in Seq(S)
  BY AppendIsConcat
<1>2. Count(s \o <<x>>, V) = Count(s, V) + Count(<<x>>, V)
  BY <1>1, CountConcat
<1> QED BY <1>1, <1>2, CountOne

LEMMA CountFirst ==
  ASSUME NEW S, NEW s \in Seq(S), NEW x \in S, NEW V
  PROVE  Count(<<x>> \o s, V) = One(x \in V) + Count(s, V)
<1>1. <<x>> \in Seq(S)
  OBVIOUS
<1>2. Count(<<x>> \o s, V) = Count(<<x>>, V) + Count(s, V)
  BY <1>1, CountConcat
<1> QED BY <1>2, CountOne

LEMMA CountTail ==
  ASSUME NEW S, NEW s \in Seq(S), s # <<>>, NEW V
  PROVE  Count(s, V) = One(s[1] \in V) + Count(Tail(s), V)
<1>1. Tail(s) \in Seq(S) /\ s[1] \in S /\ Len(Tail(s)) = Len(s) - 1 /\ Len(s) \in Nat \ {0}
      /\ \A i \in 1 .. Len(Tail(s)) : Tail(s)[i] = s[i + 1]
  BY HeadTailProperties, EmptySeq, ElementOfSeq
<1> DEFINE t == <<s[1]>> \o Tail(s)
<1>2. t \in Seq(S) /\ Len(t) = Len(s)
      /\ \A i \in 1 .. Len(s) : t[i] = IF i <= 1 THEN s[1] ELSE Tail(s)[i - 1]
  <2>1. <<s[1]>> \in Seq(S) /\ Len(<<s[1]>>) = 1 /\ <<s[1]>>[1] = s[1]
    BY <1>1
  <2> QED BY <1>1, <2>1, ConcatProperties
<1>3. \A i \in 1 .. Len(s) : t[i] = s[i]
  BY <1>1, <1>2
<1>4. t = s
  BY <1>2, <1>3, SeqEqual
<1> QED BY <1>1, <1>4, CountFirst

(* A position taken out.                                                    *)
LEMMA Removed ==
  ASSUME NEW S, NEW s \in Seq(S), NEW i \in 1 .. Len(s)
  PROVE  /\ RemoveAt(s, i) \in Seq(S)
         /\ Len(RemoveAt(s, i)) = Len(s) - 1
         /\ \A j \in 1 .. Len(s) - 1 : RemoveAt(s, i)[j] = s[IF j < i THEN j ELSE j + 1]
<1> DEFINE a == SubSeq(s, 1, i - 1)
           b == SubSeq(s, i + 1, Len(s))
<1>1. a \in Seq(S) /\ Len(a) = i - 1 /\ \A j \in 1 .. i - 1 : a[j] = s[j]
  OBVIOUS
<1>2. b \in Seq(S) /\ Len(b) = Len(s) - i /\ \A j \in 1 .. Len(s) - i : b[j] = s[i + j]
  OBVIOUS
<1>3. RemoveAt(s, i) = a \o b
  BY DEF RemoveAt
<1> HIDE DEF a, b
<1>4. /\ a \o b \in Seq(S) /\ Len(a \o b) = Len(a) + Len(b)
      /\ \A j \in 1 .. Len(a) + Len(b) : (a \o b)[j] = IF j <= Len(a) THEN a[j] ELSE b[j - Len(a)]
  BY <1>1, <1>2, ConcatProperties
<1>5. Len(a) + Len(b) = Len(s) - 1
  BY <1>1, <1>2
<1>6. ASSUME NEW j \in 1 .. Len(s) - 1
      PROVE  (a \o b)[j] = s[IF j < i THEN j ELSE j + 1]
  <2>1. CASE j < i
    BY <1>1, <1>4, <1>5, <2>1
  <2>2. CASE ~(j < i)
    <3>1. (a \o b)[j] = b[j - i + 1] /\ j - i + 1 \in 1 .. Len(s) - i
      BY <1>1, <1>4, <1>5, <2>2
    <3>2. b[j - i + 1] = s[i + (j - i + 1)]
      BY <1>2, <3>1
    <3> QED BY <2>2, <3>1, <3>2
  <2> QED BY <2>1, <2>2
<1> QED BY <1>3, <1>4, <1>5, <1>6

LEMMA CountRemoved ==
  ASSUME NEW S, NEW s \in Seq(S), NEW i \in 1 .. Len(s), NEW V
  PROVE  Count(s, V) = One(s[i] \in V) + Count(RemoveAt(s, i), V)
<1> DEFINE a == SubSeq(s, 1, i - 1)
           b == SubSeq(s, i + 1, Len(s))
           c == <<s[i]>> \o b
<1>1. a \in Seq(S) /\ Len(a) = i - 1 /\ \A j \in 1 .. i - 1 : a[j] = s[j]
  OBVIOUS
<1>2. b \in Seq(S) /\ Len(b) = Len(s) - i /\ \A j \in 1 .. Len(s) - i : b[j] = s[i + j]
  OBVIOUS
<1>3. RemoveAt(s, i) = a \o b
  BY DEF RemoveAt
<1>4. s[i] \in S /\ <<s[i]>> \in Seq(S) /\ Len(<<s[i]>>) = 1 /\ <<s[i]>>[1] = s[i]
  OBVIOUS
<1> HIDE DEF a, b
<1>5. c \in Seq(S) /\ Len(c) = 1 + Len(b)
      /\ \A j \in 1 .. 1 + Len(b) : c[j] = IF j <= 1 THEN s[i] ELSE b[j - 1]
  <2>1. /\ <<s[i]>> \o b \in Seq(S) /\ Len(<<s[i]>> \o b) = Len(<<s[i]>>) + Len(b)
        /\ \A j \in 1 .. Len(<<s[i]>>) + Len(b) :
             (<<s[i]>> \o b)[j] = IF j <= Len(<<s[i]>>) THEN <<s[i]>>[j] ELSE b[j - Len(<<s[i]>>)]
    BY <1>2, <1>4, ConcatProperties
  <2> QED BY <1>4, <2>1
<1>6. Count(c, V) = One(s[i] \in V) + Count(b, V)
  BY <1>2, <1>4, CountFirst
<1> HIDE DEF c
<1>7. a \o c \in Seq(S) /\ Len(a \o c) = Len(a) + Len(c)
      /\ \A j \in 1 .. Len(a) + Len(c) : (a \o c)[j] = IF j <= Len(a) THEN a[j] ELSE c[j - Len(a)]
  BY <1>1, <1>5, ConcatProperties
<1>8. Len(a) + Len(c) = Len(s)
  BY <1>1, <1>2, <1>5
<1>9. ASSUME NEW j \in 1 .. Len(s) PROVE (a \o c)[j] = s[j]
  <2>1. CASE j < i
    BY <1>1, <1>7, <1>8, <2>1
  <2>2. CASE j = i
    <3>1. (a \o c)[j] = c[j - Len(a)] /\ j - Len(a) = 1
      BY <1>1, <1>7, <1>8, <2>2
    <3>2. c[1] = s[i]
      BY <1>2, <1>5
    <3> QED BY <2>2, <3>1, <3>2
  <2>3. CASE j > i
    <3>1. (a \o c)[j] = c[j - i + 1] /\ j - i + 1 \in 2 .. 1 + Len(b)
      BY <1>1, <1>2, <1>7, <1>8, <2>3
    <3>2. j - i \in 1 .. Len(s) - i
      BY <2>3
    <3>3. c[j - i + 1] = b[(j - i + 1) - 1]
      BY <1>5, <2>3, <3>1
    <3>4. (j - i + 1) - 1 = j - i /\ i + (j - i) = j
      OBVIOUS
    <3>5. b[j - i] = s[i + (j - i)]
      BY <1>2, <3>2
    <3> QED BY <3>1, <3>3, <3>4, <3>5
  <2>4. j < i \/ j = i \/ j > i
    OBVIOUS
  <2> QED BY <2>1, <2>2, <2>3, <2>4
<1>10. a \o c = s
  BY <1>7, <1>8, <1>9, SeqEqual
<1>11. Count(s, V) = Count(a, V) + Count(c, V) /\ Count(a \o b, V) = Count(a, V) + Count(b, V)
  <2>1. a \in Seq(S) /\ b \in Seq(S) /\ c \in Seq(S)
    BY <1>1, <1>2, <1>5
  <2>2. Count(a \o c, V) = Count(a, V) + Count(c, V)
    BY <2>1, CountConcat
  <2>3. Count(a \o b, V) = Count(a, V) + Count(b, V)
    BY <2>1, CountConcat
  <2> QED BY <1>10, <2>2, <2>3
<1>12. Count(a, V) \in Nat /\ Count(b, V) \in Nat /\ One(s[i] \in V) \in Nat
  BY <1>1, <1>2, CountNat DEF One
<1> QED BY <1>3, <1>6, <1>11, <1>12

(* The last one left out is the position taken out.                         *)
LEMMA FrontRemoved ==
  ASSUME NEW S, NEW s \in Seq(S), s # <<>>
  PROVE  Front(s) = RemoveAt(s, Len(s)) /\ Last(s) = s[Len(s)] /\ Len(s) \in 1 .. Len(s)
<1>1. Len(s) \in Nat \ {0}
  BY EmptySeq
<1>2. SubSeq(s, Len(s) + 1, Len(s)) = <<>>
  BY <1>1, SubSeqEmpty
<1>3. SubSeq(s, 1, Len(s) - 1) \in Seq(S)
  BY <1>1
<1>4. RemoveAt(s, Len(s)) = SubSeq(s, 1, Len(s) - 1) \o <<>>
  BY <1>2 DEF RemoveAt
<1>5. SubSeq(s, 1, Len(s) - 1) \o <<>> = SubSeq(s, 1, Len(s) - 1)
  BY <1>3, ConcatEmptySeq
<1> QED BY <1>1, <1>4, <1>5 DEF Front, Last

(* An element replaced by one that counts the same.                         *)
LEMMA CountReplaced ==
  ASSUME NEW S, NEW s \in Seq(S), NEW i \in 1 .. Len(s), NEW y \in S, NEW V, y \in V <=> s[i] \in V
  PROVE  Count([s EXCEPT ![i] = y], V) = Count(s, V)
<1>1. \A k \in DOMAIN s : [s EXCEPT ![i] = y][k] \in V <=> s[k] \in V
  OBVIOUS
<1>2. DOMAIN [s EXCEPT ![i] = y] = DOMAIN s
  OBVIOUS
<1>3. {k \in DOMAIN [s EXCEPT ![i] = y] : [s EXCEPT ![i] = y][k] \in V} = {k \in DOMAIN s : s[k] \in V}
  BY <1>1, <1>2
<1> QED BY <1>3 DEF Count

-----------------------------------------------------------------------------
(* A set of numbers has a least one. *)
LEMMA LeastNumber ==
  ASSUME NEW S \in SUBSET Nat, S # {}
  PROVE  \E x \in S : \A y \in S : x <= y
<1>1. PICK x \in S : \A y \in S : <<y, x>> \notin OpToRel(<, Nat)
  BY NatLessThanWellFounded, WFMin
<1>2. \A y \in S : ~(y < x)
  BY <1>1, Zenon DEF OpToRel
<1>3. \A y \in S : x <= y
  BY <1>2
<1> QED BY <1>3

(* What is true at 1, and at every number after one where it is true, is    *)
(* true of all up to n: T is the set of the numbers it is true of.          *)
LEMMA UpTo ==
  ASSUME NEW n \in Nat, NEW T, \A k \in 1 .. n : (k = 1 \/ k - 1 \in T) => k \in T
  PROVE  \A k \in 1 .. n : k \in T
<1> DEFINE Bad == {k \in 1 .. n : k \notin T}
<1> SUFFICES ASSUME Bad # {} PROVE FALSE
  OBVIOUS
<1>1. Bad \in SUBSET Nat
  OBVIOUS
<1>2. PICK x \in Bad : \A y \in Bad : x <= y
  <2> HIDE DEF Bad
  <2> QED BY <1>1, LeastNumber
<1>3. x - 1 \notin Bad /\ x \in 1 .. n /\ x \notin T
  BY <1>2
<1>4. x = 1 \/ x - 1 \in 1 .. n
  BY <1>3
<1> QED BY <1>3, <1>4

(* FlattenSeq does what its recursion says. *)
Flattens(g, seqs, n) == g = [i \in 1 .. n |-> IF i = 1 THEN seqs[i] ELSE g[i - 1] \o seqs[i]]

LEMMA FlattenGrows ==
  ASSUME NEW seqs, NEW m \in Nat \ {0}, NEW g, Flattens(g, seqs, m)
  PROVE  \E h : Flattens(h, seqs, m + 1)
<1> DEFINE h == [i \in 1 .. m + 1 |-> IF i <= m THEN g[i] ELSE g[m] \o seqs[m + 1]]
<1>1. \A i \in 1 .. m : g[i] = IF i = 1 THEN seqs[i] ELSE g[i - 1] \o seqs[i]
  BY DEF Flattens
<1>2. ASSUME NEW i \in 1 .. m + 1
      PROVE  h[i] = IF i = 1 THEN seqs[i] ELSE h[i - 1] \o seqs[i]
  <2>1. CASE i = 1
    BY <1>1, <2>1
  <2>2. CASE i # 1 /\ i <= m
    <3>1. i \in 1 .. m /\ i - 1 \in 1 .. m
      BY <2>2
    <3>2. h[i] = g[i] /\ h[i - 1] = g[i - 1]
      BY <3>1
    <3> QED BY <1>1, <2>2, <3>1, <3>2
  <2>3. CASE i = m + 1
    <3>1. i - 1 = m /\ i # 1 /\ h[m] = g[m]
      BY <2>3
    <3>2. h[i] = g[m] \o seqs[i]
      <4>1. ~(i <= m)
        BY <2>3
      <4>2. h[i] = IF i <= m THEN g[i] ELSE g[m] \o seqs[m + 1]
        BY Zenon
      <4> QED BY <2>3, <4>1, <4>2
    <3> QED BY <3>1, <3>2
  <2>4. i = 1 \/ (i # 1 /\ i <= m) \/ i = m + 1
    OBVIOUS
  <2> QED BY <2>1, <2>2, <2>3, <2>4
<1>3. h = [i \in 1 .. m + 1 |-> IF i = 1 THEN seqs[i] ELSE h[i - 1] \o seqs[i]]
  <2>1. h = [i \in 1 .. m + 1 |-> h[i]]
    OBVIOUS
  <2> HIDE DEF h
  <2> QED BY <1>2, <2>1
<1> HIDE DEF h
<1> QED BY <1>3 DEF Flattens

LEMMA FlattenExists ==
  ASSUME NEW seqs, NEW n \in Nat \ {0}
  PROVE  \E g : Flattens(g, seqs, n)
<1> DEFINE T == {k \in Nat : \E g : Flattens(g, seqs, k)}
<1>1. ASSUME NEW k \in 1 .. n, k = 1 \/ k - 1 \in T PROVE k \in T
  <2>1. CASE k = 1
    <3>1. Flattens([i \in 1 .. 1 |-> seqs[1]], seqs, 1)
      BY DEF Flattens
    <3> QED BY <2>1, <3>1
  <2>2. CASE k # 1 /\ k - 1 \in T
    <3>1. PICK g : Flattens(g, seqs, k - 1)
      BY <2>2
    <3>2. k - 1 \in Nat \ {0}
      BY <2>2
    <3>3. \E h : Flattens(h, seqs, (k - 1) + 1)
      BY <3>1, <3>2, FlattenGrows
    <3>4. (k - 1) + 1 = k
      OBVIOUS
    <3> QED BY <3>3, <3>4
  <2> QED BY <1>1, <2>1, <2>2
<1>2. \A k \in 1 .. n : k \in T
  <2> HIDE DEF T
  <2> QED BY <1>1, UpTo
<1> QED BY <1>2

LEMMA FlattenIs ==
  ASSUME NEW S, NEW seqs \in Seq(S), seqs # <<>>
  PROVE  \E g : Flattens(g, seqs, Len(seqs)) /\ FlattenSeq(seqs) = g[Len(seqs)]
<1>1. Len(seqs) \in Nat \ {0}
  BY EmptySeq
<1> DEFINE g == CHOOSE g : g = [i \in 1 .. Len(seqs) |-> IF i = 1 THEN seqs[i] ELSE g[i - 1] \o seqs[i]]
<1>2. \E h : h = [i \in 1 .. Len(seqs) |-> IF i = 1 THEN seqs[i] ELSE h[i - 1] \o seqs[i]]
  BY <1>1, FlattenExists DEF Flattens
<1>3. g = [i \in 1 .. Len(seqs) |-> IF i = 1 THEN seqs[i] ELSE g[i - 1] \o seqs[i]]
  BY <1>2
<1>4. FlattenSeq(seqs) = g[Len(seqs)]
  BY <1>1 DEF FlattenSeq
<1> QED BY <1>3, <1>4 DEF Flattens

(* When every part counts one or nothing, the whole counts the parts.       *)
LEMMA FlattenCounts ==
  ASSUME NEW S, NEW V, NEW X, NEW seqs \in Seq(Seq(S)),
         \A k \in 1 .. Len(seqs) : Count(seqs[k], V) = One(seqs[k] \in X)
  PROVE  FlattenSeq(seqs) \in Seq(S) /\ Count(FlattenSeq(seqs), V) = Count(seqs, X)
<1>1. CASE seqs = <<>>
  <2>1. FlattenSeq(seqs) = <<>>
    BY <1>1 DEF FlattenSeq
  <2>2. Count(FlattenSeq(seqs), V) = 0
    BY <2>1, CountEmpty
  <2>3. Count(seqs, X) = 0
    BY <1>1, CountEmpty
  <2>4. <<>> \in Seq(S)
    OBVIOUS
  <2> QED BY <2>1, <2>2, <2>3, <2>4
<1>2. CASE seqs # <<>>
  <2> DEFINE N == Len(seqs)
  <2>1. N \in Nat \ {0}
    BY <1>2, EmptySeq
  <2>2. PICK g : Flattens(g, seqs, N) /\ FlattenSeq(seqs) = g[N]
    BY <1>2, FlattenIs
  <2>3. \A i \in 1 .. N : g[i] = IF i = 1 THEN seqs[i] ELSE g[i - 1] \o seqs[i]
    BY <2>2 DEF Flattens
  <2> DEFINE Right(k) == g[k] \in Seq(S) /\ Count(g[k], V) = Count(SubSeq(seqs, 1, k), X)
             T == {k \in 1 .. N : Right(k)}
  <2>4. ASSUME NEW k \in 1 .. N PROVE seqs[k] \in Seq(S) /\ Count(seqs[k], V) = One(seqs[k] \in X)
    OBVIOUS
  <2>5. ASSUME NEW k \in 1 .. N, k = 1 \/ k - 1 \in T PROVE k \in T
    <3>1. CASE k = 1
      <4>1. g[1] = seqs[1]
        BY <2>1, <2>3
      <4>2. SubSeq(seqs, 1, 1) = <<seqs[1]>>
        <5>1. SubSeq(seqs, 1, 1) = SubSeq(seqs, 1, 1 - 1) \o <<seqs[1]>>
          BY <2>1, SubSeqRecursiveSecond
        <5>2. SubSeq(seqs, 1, 1 - 1) = <<>>
          BY SubSeqEmpty
        <5>3. <<seqs[1]>> \in Seq(Seq(S))
          BY <2>1, <2>4
        <5>4. <<>> \o <<seqs[1]>> = <<seqs[1]>>
          BY <5>3, ConcatEmptySeq
        <5> QED BY <5>1, <5>2, <5>4
      <4>3. Count(<<seqs[1]>>, X) = One(seqs[1] \in X)
        BY CountOne
      <4>4. Right(1)
        BY <2>4, <3>1, <4>1, <4>2, <4>3
      <4> QED BY <3>1, <4>4
    <3>2. CASE k # 1 /\ k - 1 \in T
      <4>1. k - 1 \in 1 .. N /\ g[k] = g[k - 1] \o seqs[k]
        BY <2>3, <3>2
      <4>2. Right(k - 1)
        BY <3>2
      <4>3. SubSeq(seqs, 1, k) = SubSeq(seqs, 1, k - 1) \o <<seqs[k]>>
        BY <2>1, SubSeqRecursiveSecond
      <4>4. SubSeq(seqs, 1, k - 1) \in Seq(Seq(S)) /\ <<seqs[k]>> \in Seq(Seq(S))
        BY <2>4
      <4> HIDE DEF N
      <4>5. Count(SubSeq(seqs, 1, k), X) = Count(SubSeq(seqs, 1, k - 1), X) + Count(<<seqs[k]>>, X)
        <5> DEFINE P == Seq(S)
                   a == SubSeq(seqs, 1, k - 1)
                   b == <<seqs[k]>>
        <5>1. a \in Seq(P) /\ b \in Seq(P)
          BY <4>4
        <5> HIDE DEF P, a, b
        <5>2. Count(a \o b, X) = Count(a, X) + Count(b, X)
          BY <5>1, CountConcat
        <5> QED BY <4>3, <5>2 DEF a, b
      <4>6. Count(g[k], V) = Count(g[k - 1], V) + Count(seqs[k], V)
        BY <2>4, <4>1, <4>2, CountConcat
      <4>7. Count(<<seqs[k]>>, X) = One(seqs[k] \in X)
        BY CountOne
      <4>8. g[k] \in Seq(S)
        BY <2>4, <4>1, <4>2
      <4>9. Right(k)
        BY <2>4, <4>2, <4>5, <4>6, <4>7, <4>8
      <4> QED BY <4>9
    <3> QED BY <2>5, <3>1, <3>2
  <2>6. \A k \in 1 .. N : k \in T
    <3> HIDE DEF T, N
    <3> QED BY <2>1, <2>5, UpTo
  <2>7. Right(N)
    BY <2>1, <2>6
  <2>8. SubSeq(seqs, 1, N) = seqs
    BY SubSeqFull
  <2> QED BY <2>2, <2>7, <2>8
<1> QED BY <1>1, <1>2

-----------------------------------------------------------------------------
(* What the variables hold.                                                 *)
PPJob == [src : Buffer, orig : ZslBuffer, count : 0 .. 2]
JpegJob == [src : Buffer, orig : ZslBuffer \cup {None}, id : Nat]
Queue(S) == [active : BOOLEAN, list : Seq(S)]
Command == {"start", "stop", "next"}

LEMMA NoneApart ==
  /\ None \notin Buffer /\ None \notin ZslBuffer /\ None \notin FrameHand /\ None \notin PassHand
  /\ ZslBuffer \subseteq Buffer
  /\ \A f \in Frames : Source(f) \in ZslBuffer /\ Source(f) \in Buffer /\ Source(f).ch = 0 /\ Source(f).of = f
  /\ \A b \in Buffer : b.ch \in 0 .. 2 /\ b.of \in Frames
  /\ \A b \in ZslBuffer : b.ch = 0 /\ b.of \in Frames /\ b = Source(b.of)
  /\ \A b \in Buffer, f \in Frames : b = Source(f) <=> b.ch = 0 /\ b.of = f
<1>1. ZslBuffer \subseteq Buffer
  BY DEF ZslBuffer, Buffer
<1>2. Ongoing \subseteq [src : Buffer, orig : Buffer, count : 1 .. 2]
  BY <1>1 DEF Ongoing
<1>3. None \notin Buffer /\ None \notin FrameHand
  BY NoneAssumption, Zenon DEF FrameHand
<1>4. None \notin PassHand
  <2>1. None \notin [out : Buffer, job : [src : Buffer, orig : Buffer, count : 1 .. 2]]
    BY NoneAssumption, Zenon
  <2>2. PassHand \subseteq [out : Buffer, job : [src : Buffer, orig : Buffer, count : 1 .. 2]]
    <3> DEFINE J == [src : Buffer, orig : Buffer, count : 1 .. 2]
    <3>1. Ongoing \subseteq J
      BY <1>2
    <3> HIDE DEF J
    <3>2. PassHand \subseteq [out : Buffer, job : J]
      BY <3>1 DEF PassHand
    <3> QED BY <3>2 DEF J
  <2> QED BY <2>1, <2>2
<1>5. \A f \in Frames : Source(f) \in ZslBuffer /\ Source(f).ch = 0 /\ Source(f).of = f
  BY DEF ZslBuffer, Source
<1>6. \A b \in ZslBuffer : b.ch = 0 /\ b.of \in Frames /\ b = Source(b.of)
  BY DEF ZslBuffer, Source
<1>7. \A b \in Buffer, f \in Frames : b = Source(f) <=> b.ch = 0 /\ b.of = f
  BY DEF Buffer, Source
<1>8. \A b \in Buffer : b.ch \in 0 .. 2 /\ b.of \in Frames
  BY DEF Buffer
<1> QED BY <1>1, <1>3, <1>4, <1>5, <1>6, <1>7, <1>8

-----------------------------------------------------------------------------
(* The queues. *)
LEMMA QueueFields ==
  ASSUME NEW S, NEW q \in Queue(S)
  PROVE  q.active \in BOOLEAN /\ q.list \in Seq(S) /\ q = [active |-> q.active, list |-> q.list]
BY DEF Queue

LEMMA QueueMade ==
  ASSUME NEW S, NEW a \in BOOLEAN, NEW l \in Seq(S)
  PROVE  /\ [active |-> a, list |-> l] \in Queue(S)
         /\ [active |-> a, list |-> l].active = a
         /\ [active |-> a, list |-> l].list = l
BY DEF Queue

LEMMA QueueSet ==
  ASSUME NEW S, NEW q \in Queue(S), NEW a \in BOOLEAN
  PROVE  /\ [q EXCEPT !.active = a] \in Queue(S)
         /\ [q EXCEPT !.active = a].active = a
         /\ [q EXCEPT !.active = a].list = q.list
BY DEF Queue

LEMMA QueueChanged ==
  ASSUME NEW S, NEW q \in Queue(S), NEW l \in Seq(S)
  PROVE  /\ [q EXCEPT !.list = l] \in Queue(S)
         /\ [q EXCEPT !.list = l].active = q.active
         /\ [q EXCEPT !.list = l].list = l
BY DEF Queue

LEMMA QueueOpened ==
  ASSUME NEW S, NEW q \in Queue(S)
  PROVE  /\ init(q) \in Queue(S) /\ init(q).active = TRUE /\ init(q).list = q.list
         /\ flush(q) \in Queue(S) /\ flush(q).active = FALSE /\ flush(q).list = <<>>
<1>1. <<>> \in Seq(S)
  OBVIOUS
<1>2. init(q) \in Queue(S) /\ init(q).active = TRUE /\ init(q).list = q.list
  <2>1. q.list \in Seq(S)
    BY QueueFields
  <2> QED BY <2>1, QueueSet DEF init
<1>3. flush(q) \in Queue(S) /\ flush(q).active = FALSE /\ flush(q).list = <<>>
  BY <1>1, QueueMade DEF flush
<1> QED BY <1>2, <1>3

LEMMA QueueGrown ==
  ASSUME NEW S, NEW q \in Queue(S), NEW x \in S
  PROVE  /\ enqueue(q, x) \in Queue(S) /\ enqueue(q, x).active = q.active
         /\ enqueue(q, x).list = IF q.active THEN Append(q.list, x) ELSE q.list
<1>1. q.list \in Seq(S) /\ q.active \in BOOLEAN
  BY QueueFields
<1>2. Append(q.list, x) \in Seq(S)
  BY <1>1
<1>3. /\ [q EXCEPT !.list = Append(q.list, x)] \in Queue(S)
      /\ [q EXCEPT !.list = Append(q.list, x)].active = q.active
      /\ [q EXCEPT !.list = Append(q.list, x)].list = Append(q.list, x)
  <2> DEFINE l == Append(q.list, x)
  <2>1. l \in Seq(S)
    BY <1>2
  <2> HIDE DEF l
  <2>2. [q EXCEPT !.list = l] \in Queue(S) /\ [q EXCEPT !.list = l].active = q.active
        /\ [q EXCEPT !.list = l].list = l
    BY <1>1, <2>1, QueueChanged
  <2> QED BY <2>2 DEF l
<1> QED BY <1>3 DEF enqueue

LEMMA QueueShrunk ==
  ASSUME NEW S, NEW q \in Queue(S), q.list # <<>>
  PROVE  /\ dequeue(q) \in Queue(S) /\ dequeue(q).active = q.active /\ dequeue(q).list = Tail(q.list)
         /\ dequeueLast(q) \in Queue(S) /\ dequeueLast(q).active = q.active
         /\ dequeueLast(q).list = RemoveAt(q.list, Len(q.list))
         /\ peek(q) = q.list[1] /\ peek(q) \in S /\ 1 \in DOMAIN q.list
         /\ Last(q.list) = q.list[Len(q.list)] /\ Last(q.list) \in S
<1>1. q.list \in Seq(S) /\ q.active \in BOOLEAN /\ Len(q.list) \in Nat \ {0}
  BY QueueFields, EmptySeq
<1>2. Tail(q.list) \in Seq(S) /\ Head(q.list) = q.list[1]
  BY <1>1
<1>3. Front(q.list) = RemoveAt(q.list, Len(q.list)) /\ Last(q.list) = q.list[Len(q.list)]
  BY <1>1, FrontRemoved
<1>4. Front(q.list) \in Seq(S)
  <2>1. Len(q.list) \in 1 .. Len(q.list)
    BY <1>1
  <2> QED BY <1>1, <1>3, <2>1, Removed
<1>5. /\ [q EXCEPT !.list = Tail(q.list)] \in Queue(S)
      /\ [q EXCEPT !.list = Tail(q.list)].active = q.active
      /\ [q EXCEPT !.list = Tail(q.list)].list = Tail(q.list)
  <2> DEFINE l == Tail(q.list)
  <2>1. l \in Seq(S)
    BY <1>2
  <2> HIDE DEF l
  <2>2. [q EXCEPT !.list = l] \in Queue(S) /\ [q EXCEPT !.list = l].active = q.active
        /\ [q EXCEPT !.list = l].list = l
    BY <1>1, <2>1, QueueChanged
  <2> QED BY <2>2 DEF l
<1>6. /\ [q EXCEPT !.list = Front(q.list)] \in Queue(S)
      /\ [q EXCEPT !.list = Front(q.list)].active = q.active
      /\ [q EXCEPT !.list = Front(q.list)].list = Front(q.list)
  BY <1>1, <1>4, QueueChanged
<1>7. q.list[1] \in S /\ q.list[Len(q.list)] \in S /\ 1 \in DOMAIN q.list
  BY <1>1
<1>8. dequeue(q) \in Queue(S) /\ dequeue(q).active = q.active /\ dequeue(q).list = Tail(q.list)
  BY <1>5 DEF dequeue
<1>9. dequeueLast(q) \in Queue(S) /\ dequeueLast(q).active = q.active
      /\ dequeueLast(q).list = RemoveAt(q.list, Len(q.list))
  BY <1>3, <1>6 DEF dequeueLast
<1> QED BY <1>2, <1>3, <1>7, <1>8, <1>9 DEF peek

-----------------------------------------------------------------------------
(* What is released. *)
Holding(S, f) == {job \in S : Source(f) \in {job.src, job.orig}}

LEMMA JobsCounted ==
  ASSUME NEW S, NEW list \in Seq(S), NEW f
  PROVE  JobsOf(list, f) = Count(list, Holding(S, f))
<1>1. \A k \in DOMAIN list : Source(f) \in {list[k].src, list[k].orig} <=> list[k] \in Holding(S, f)
  BY DEF Holding
<1>2. {k \in DOMAIN list : Source(f) \in {list[k].src, list[k].orig}}
        = {k \in DOMAIN list : list[k] \in Holding(S, f)}
  BY <1>1
<1> QED BY <1>2 DEF JobsOf, Count

LEMMA ReleaseReturns ==
  ASSUME NEW s \in Seq(Back), releaseSuperBufs(s)
  PROVE  Returned(s)
<1>1. ASSUME NEW f \in Frames
      PROVE  Cardinality({k \in DOMAIN s : s[k] = Source(f)}) = Count(s, {Source(f)})
  <2>1. {k \in DOMAIN s : s[k] = Source(f)} = {k \in DOMAIN s : s[k] \in {Source(f)}}
    OBVIOUS
  <2> QED BY <2>1 DEF Count
<1>2. ASSUME NEW i \in Passes
      PROVE  Cardinality({k \in DOMAIN s : s[k] # None /\ s[k].ch = i}) = Count(s, OfPass(i))
  <2>1. ASSUME NEW k \in DOMAIN s
        PROVE  (s[k] # None /\ s[k].ch = i) <=> s[k] \in OfPass(i)
    <3>1. s[k] \in Back
      OBVIOUS
    <3>2. CASE s[k] = None
      <4>1. OfPass(i) \subseteq Buffer
        BY DEF OfPass, Passes, Buffer
      <4> QED BY <3>2, <4>1, NoneApart
    <3>3. CASE s[k] \in Buffer
      BY <3>3, NoneApart DEF OfPass, Buffer
    <3> QED BY <3>1, <3>2, <3>3 DEF Back
  <2>2. {k \in DOMAIN s : s[k] # None /\ s[k].ch = i} = {k \in DOMAIN s : s[k] \in OfPass(i)}
    BY <2>1
  <2> QED BY <2>2 DEF Count
<1>3. home' = [f \in Frames |-> home[f] + Cardinality({k \in DOMAIN s : s[k] = Source(f)})]
      /\ queued' = [i \in Passes |-> IF i > mTotalNumReproc THEN queued[i]
                ELSE queued[i] + Cardinality({k \in DOMAIN s : s[k] # None /\ s[k].ch = i})]
  BY DEF releaseSuperBufs
<1>4. home' = [f \in Frames |-> home[f] + Count(s, {Source(f)})]
  BY <1>1, <1>3
<1>5. queued' = [i \in Passes |-> IF i > mTotalNumReproc THEN queued[i] ELSE queued[i] + Count(s, OfPass(i))]
  BY <1>2, <1>3
<1> QED BY <1>4, <1>5 DEF Returned

ChTypeOK == home \in [Frames -> Nat] /\ queued \in [Passes -> Nat]

LEMMA ReturnTyped ==
  ASSUME ChTypeOK, NEW s \in Seq(Back), Returned(s)
  PROVE  ChTypeOK'
<1>1. \A V : Count(s, V) \in Nat
  BY CountNat
<1>2. home' \in [Frames -> Nat]
  BY <1>1 DEF Returned, ChTypeOK
<1>3. queued' \in [Passes -> Nat]
  BY <1>1 DEF Returned, ChTypeOK
<1> QED BY <1>2, <1>3 DEF ChTypeOK

(* One job's buffers. *)
LEMMA InputReleased ==
  ASSUME NEW job \in PPJob
  PROVE  /\ releasePPInputData(job) \in Seq(Back)
         /\ (job.src = job.orig \/ job.src.ch # 0) =>
              \A f \in Frames : Count(releasePPInputData(job), {Source(f)}) = One(job \in Holding(PPJob, f))
<1>1. job.src \in Buffer /\ job.orig \in ZslBuffer /\ job.orig \in Buffer
  BY NoneApart DEF PPJob
<1>2. releasePPInputData(job) \in Seq(Back)
  <2>1. job.src \in Back /\ job.orig \in Back
    BY <1>1 DEF Back
  <2>2. <<job.src>> \in Seq(Back) /\ <<job.src, job.orig>> \in Seq(Back)
    BY <2>1
  <2> QED BY <2>2 DEF releasePPInputData
<1>3. ASSUME NEW f \in Frames, job.src = job.orig
      PROVE  Count(releasePPInputData(job), {Source(f)}) = One(job \in Holding(PPJob, f))
  <2>1. Count(<<job.src>>, {Source(f)}) = One(job.src \in {Source(f)})
    BY CountOne
  <2>2. job.src \in {Source(f)} <=> job \in Holding(PPJob, f)
    BY <1>3 DEF Holding
  <2> QED BY <1>3, <2>1, <2>2 DEF releasePPInputData, One
<1>4. ASSUME NEW f \in Frames, job.src.ch # 0
      PROVE  Count(releasePPInputData(job), {Source(f)}) = One(job \in Holding(PPJob, f))
  <2>1. job.src # job.orig /\ job.src # Source(f)
    BY <1>1, <1>4, NoneApart
  <2>2. releasePPInputData(job) = <<job.src, job.orig>>
    BY <2>1 DEF releasePPInputData
  <2>3. Count(<<job.src, job.orig>>, {Source(f)}) = One(job.src \in {Source(f)}) + One(job.orig \in {Source(f)})
    BY CountTwo
  <2>4. job.orig \in {Source(f)} <=> job \in Holding(PPJob, f)
    BY <2>1 DEF Holding
  <2> QED BY <2>1, <2>2, <2>3, <2>4 DEF One
<1> QED BY <1>2, <1>3, <1>4

LEMMA JpegReleased ==
  ASSUME NEW job \in JpegJob
  PROVE  /\ releaseJpegJobData(job) \in Seq(Back)
         /\ (job.orig = None \/ job.src.ch # 0) =>
              \A f \in Frames : Count(releaseJpegJobData(job), {Source(f)}) = One(job \in Holding(JpegJob, f))
<1>1. job.src \in Buffer /\ job.orig \in Back
  BY NoneApart DEF JpegJob, Back
<1>2. releaseJpegJobData(job) \in Seq(Back)
  BY <1>1 DEF releaseJpegJobData, Back
<1>3. ASSUME NEW f \in Frames, job.orig = None \/ job.src.ch # 0
      PROVE  Count(releaseJpegJobData(job), {Source(f)}) = One(job \in Holding(JpegJob, f))
  <2>1. releaseJpegJobData(job) = <<job.orig, job.src>>
    BY DEF releaseJpegJobData
  <2>2. Count(<<job.orig, job.src>>, {Source(f)}) = One(job.orig \in {Source(f)}) + One(job.src \in {Source(f)})
    BY CountTwo
  <2>3. ~(job.orig = Source(f) /\ job.src = Source(f))
    BY <1>3, NoneApart
  <2>4. (job.src \in {Source(f)} \/ job.orig \in {Source(f)}) <=> job \in Holding(JpegJob, f)
    BY DEF Holding
  <2> QED BY <2>1, <2>2, <2>3, <2>4 DEF One
<1> QED BY <1>2, <1>3

(* A list of jobs released one after the other. *)
LEMMA InputsReleased ==
  ASSUME NEW list \in Seq(PPJob)
  PROVE  /\ InputsOf(list) \in Seq(Back)
         /\ (\A k \in DOMAIN list : list[k].src = list[k].orig \/ list[k].src.ch # 0) =>
              \A f \in Frames : Count(InputsOf(list), {Source(f)}) = JobsOf(list, f)
<1> DEFINE seqs == [i \in DOMAIN list |-> releasePPInputData(list[i])]
<1>1. Len(list) \in Nat /\ DOMAIN list = 1 .. Len(list) /\ \A k \in DOMAIN list : list[k] \in PPJob
  OBVIOUS
<1>2. \A k \in DOMAIN list : releasePPInputData(list[k]) \in Seq(Back)
  BY <1>1, InputReleased
<1>3. seqs \in Seq(Seq(Back)) /\ Len(seqs) = Len(list) /\ \A k \in 1 .. Len(list) : seqs[k] = releasePPInputData(list[k])
  <2> DEFINE B == Seq(Back)
             g == seqs
  <2>1. g \in [1 .. Len(list) -> B]
    BY <1>1, <1>2
  <2>2. \A k \in 1 .. Len(list) : g[k] = releasePPInputData(list[k])
    BY <1>1
  <2> HIDE DEF B, g
  <2>3. g \in Seq(B) /\ Len(g) = Len(list)
    BY <1>1, <2>1
  <2> QED BY <2>2, <2>3 DEF B, g
<1>4. InputsOf(list) = FlattenSeq(seqs)
  BY DEF InputsOf
<1> HIDE DEF seqs
<1>5. InputsOf(list) \in Seq(Back)
  <2>1. \A k \in 1 .. Len(seqs) : Count(seqs[k], {}) = One(seqs[k] \in {})
    <3>1. ASSUME NEW k \in 1 .. Len(seqs) PROVE Count(seqs[k], {}) = 0
      <4>1. \A j \in DOMAIN seqs[k] : seqs[k][j] \notin {}
        OBVIOUS
      <4> QED BY <4>1, CountNone
    <3> QED BY <3>1 DEF One
  <2> QED BY <1>3, <1>4, <2>1, FlattenCounts
<1>6. ASSUME \A k \in DOMAIN list : list[k].src = list[k].orig \/ list[k].src.ch # 0,
             NEW f \in Frames
      PROVE  Count(InputsOf(list), {Source(f)}) = JobsOf(list, f)
  <2> DEFINE X == {x \in Seq(Back) : Count(x, {Source(f)}) = 1}
  <2>1. ASSUME NEW k \in 1 .. Len(list)
        PROVE  Count(seqs[k], {Source(f)}) = One(list[k] \in Holding(PPJob, f))
    <3>1. Count(releasePPInputData(list[k]), {Source(f)}) = One(list[k] \in Holding(PPJob, f))
      BY <1>1, <1>6, InputReleased
    <3> QED BY <1>3, <3>1
  <2>2. \A k \in 1 .. Len(list) : seqs[k] \in X <=> list[k] \in Holding(PPJob, f)
    <3>1. ASSUME NEW k \in 1 .. Len(list)
          PROVE  seqs[k] \in X <=> list[k] \in Holding(PPJob, f)
      <4>1. seqs[k] \in Seq(Back)
        BY <1>1, <1>2, <1>3
      <4>2. seqs[k] \in X <=> Count(seqs[k], {Source(f)}) = 1
        BY <4>1
      <4>3. One(list[k] \in Holding(PPJob, f)) = 1 <=> list[k] \in Holding(PPJob, f)
        BY DEF One
      <4> QED BY <2>1, <4>2, <4>3
    <3> QED BY <3>1
  <2>3. \A k \in 1 .. Len(seqs) : Count(seqs[k], {Source(f)}) = One(seqs[k] \in X)
    BY <1>3, <2>1, <2>2 DEF One
  <2> HIDE DEF X
  <2>4. Count(FlattenSeq(seqs), {Source(f)}) = Count(seqs, X)
    <3> DEFINE V == {Source(f)}
    <3>1. \A k \in 1 .. Len(seqs) : Count(seqs[k], V) = One(seqs[k] \in X)
      BY <2>3
    <3> HIDE DEF V
    <3>2. Count(FlattenSeq(seqs), V) = Count(seqs, X)
      BY <1>3, <3>1, FlattenCounts
    <3> QED BY <3>2 DEF V
  <2>5. Count(seqs, X) = Count(list, Holding(PPJob, f))
    <3>1. DOMAIN seqs = DOMAIN list
      BY <1>1, <1>3
    <3>2. {k \in DOMAIN seqs : seqs[k] \in X} = {k \in DOMAIN list : list[k] \in Holding(PPJob, f)}
      BY <1>1, <2>2, <3>1
    <3> QED BY <3>2 DEF Count
  <2> QED BY <1>4, <2>4, <2>5, JobsCounted
<1> QED BY <1>5, <1>6

LEMMA JpegsReleased ==
  ASSUME NEW list \in Seq(JpegJob)
  PROVE  /\ JpegsOf(list) \in Seq(Back)
         /\ (\A k \in DOMAIN list : list[k].orig = None \/ list[k].src.ch # 0) =>
              \A f \in Frames : Count(JpegsOf(list), {Source(f)}) = JobsOf(list, f)
<1> DEFINE seqs == [i \in DOMAIN list |-> releaseJpegJobData(list[i])]
<1>1. Len(list) \in Nat /\ DOMAIN list = 1 .. Len(list) /\ \A k \in DOMAIN list : list[k] \in JpegJob
  OBVIOUS
<1>2. \A k \in DOMAIN list : releaseJpegJobData(list[k]) \in Seq(Back)
  BY <1>1, JpegReleased
<1>3. seqs \in Seq(Seq(Back)) /\ Len(seqs) = Len(list) /\ \A k \in 1 .. Len(list) : seqs[k] = releaseJpegJobData(list[k])
  <2> DEFINE B == Seq(Back)
             g == seqs
  <2>1. g \in [1 .. Len(list) -> B]
    BY <1>1, <1>2
  <2>2. \A k \in 1 .. Len(list) : g[k] = releaseJpegJobData(list[k])
    BY <1>1
  <2> HIDE DEF B, g
  <2>3. g \in Seq(B) /\ Len(g) = Len(list)
    BY <1>1, <2>1
  <2> QED BY <2>2, <2>3 DEF B, g
<1>4. JpegsOf(list) = FlattenSeq(seqs)
  BY DEF JpegsOf
<1> HIDE DEF seqs
<1>5. JpegsOf(list) \in Seq(Back)
  <2>1. \A k \in 1 .. Len(seqs) : Count(seqs[k], {}) = One(seqs[k] \in {})
    <3>1. ASSUME NEW k \in 1 .. Len(seqs) PROVE Count(seqs[k], {}) = 0
      <4>1. \A j \in DOMAIN seqs[k] : seqs[k][j] \notin {}
        OBVIOUS
      <4> QED BY <4>1, CountNone
    <3> QED BY <3>1 DEF One
  <2> QED BY <1>3, <1>4, <2>1, FlattenCounts
<1>6. ASSUME \A k \in DOMAIN list : list[k].orig = None \/ list[k].src.ch # 0,
             NEW f \in Frames
      PROVE  Count(JpegsOf(list), {Source(f)}) = JobsOf(list, f)
  <2> DEFINE X == {x \in Seq(Back) : Count(x, {Source(f)}) = 1}
  <2>1. ASSUME NEW k \in 1 .. Len(list)
        PROVE  Count(seqs[k], {Source(f)}) = One(list[k] \in Holding(JpegJob, f))
    <3>1. Count(releaseJpegJobData(list[k]), {Source(f)}) = One(list[k] \in Holding(JpegJob, f))
      BY <1>1, <1>6, JpegReleased
    <3> QED BY <1>3, <3>1
  <2>2. \A k \in 1 .. Len(list) : seqs[k] \in X <=> list[k] \in Holding(JpegJob, f)
    <3>1. ASSUME NEW k \in 1 .. Len(list)
          PROVE  seqs[k] \in X <=> list[k] \in Holding(JpegJob, f)
      <4>1. seqs[k] \in Seq(Back)
        BY <1>1, <1>2, <1>3
      <4>2. seqs[k] \in X <=> Count(seqs[k], {Source(f)}) = 1
        BY <4>1
      <4>3. One(list[k] \in Holding(JpegJob, f)) = 1 <=> list[k] \in Holding(JpegJob, f)
        BY DEF One
      <4> QED BY <2>1, <4>2, <4>3
    <3> QED BY <3>1
  <2>3. \A k \in 1 .. Len(seqs) : Count(seqs[k], {Source(f)}) = One(seqs[k] \in X)
    BY <1>3, <2>1, <2>2 DEF One
  <2> HIDE DEF X
  <2>4. Count(FlattenSeq(seqs), {Source(f)}) = Count(seqs, X)
    <3> DEFINE V == {Source(f)}
    <3>1. \A k \in 1 .. Len(seqs) : Count(seqs[k], V) = One(seqs[k] \in X)
      BY <2>3
    <3> HIDE DEF V
    <3>2. Count(FlattenSeq(seqs), V) = Count(seqs, X)
      BY <1>3, <3>1, FlattenCounts
    <3> QED BY <3>2 DEF V
  <2>5. Count(seqs, X) = Count(list, Holding(JpegJob, f))
    <3>1. DOMAIN seqs = DOMAIN list
      BY <1>1, <1>3
    <3>2. {k \in DOMAIN seqs : seqs[k] \in X} = {k \in DOMAIN list : list[k] \in Holding(JpegJob, f)}
      BY <1>1, <2>2, <3>1
    <3> QED BY <3>2 DEF Count
  <2> QED BY <1>4, <2>4, <2>5, JobsCounted
<1> QED BY <1>5, <1>6

-----------------------------------------------------------------------------
(* The type invariant. *)
HalTypeOK ==
    /\ hal \in {"stopped", "starting", "running", "stopping"}
    /\ mode \in ModeSet /\ clean \in BOOLEAN /\ told \in BOOLEAN
    /\ mTotalNumReproc \in 0 .. 2 /\ wanted \in Nat /\ evt_queue \in Seq(Event)
HandTypeOK ==
    /\ frameTh \in {None} \cup FrameHand
    /\ ppTh \in [Passes -> {None} \cup PassHand]
    /\ reproc \in [Passes -> Seq(Buffer)]
QueueTypeOK ==
    /\ m_inputPPQ \in Queue(Request) /\ m_ongoingPPQ \in Queue(Ongoing)
    /\ m_inputJpegQ \in Queue(JpegJob) /\ m_ongoingJpegQ \in Queue(JpegJob)
    /\ m_inputRawQ \in Queue(Buffer) /\ m_inputSaveQ \in Queue(Nat)
DataType == [at : {"wait", "saveStop", "encode", "record", "raw", "reproc"}, active : BOOLEAN, id : Nat]
ThreadTypeOK ==
    /\ data \in DataType
    /\ dataCmds \in Seq(Command) /\ dataSync \in Nat
    /\ save \in BOOLEAN /\ saveCmds \in Seq(Command) /\ saveSync \in Nat
    /\ encoding \in SUBSET Nat /\ IsFiniteSet(encoding)
NoteType == [at : {"wait", "sync", "cancel", "answered"}, active : BOOLEAN, longshot : BOOLEAN,
             expected : Nat, rcvd : Nat, hand : {None} \cup ZslBuffer]
NoteTypeOK ==
    /\ note \in NoteType
    /\ noteCmds \in Seq(Command) /\ mDataQ \in Seq({None} \cup ZslBuffer)
TypeOK == HalTypeOK /\ ChTypeOK /\ HandTypeOK /\ QueueTypeOK /\ ThreadTypeOK /\ NoteTypeOK

LEMMA InitTyped == Init => TypeOK
<1> SUFFICES ASSUME Init PROVE TypeOK
  OBVIOUS
<1>1. mode \in ModeSet
  BY ModesAssumption DEF Init
<1>2. HalTypeOK
  <2>1. hal = "stopped" /\ clean = TRUE /\ told = FALSE /\ mTotalNumReproc = 0 /\ wanted = 0 /\ evt_queue = <<>>
    BY DEF Init
  <2>2. evt_queue \in Seq(Event)
    BY <2>1
  <2>3. clean \in BOOLEAN /\ told \in BOOLEAN
    BY <2>1, Zenon
  <2>4. wanted \in Nat /\ mTotalNumReproc \in 0 .. 2
    BY <2>1
  <2>5. hal \in {"stopped", "starting", "running", "stopping"}
    BY <2>1
  <2> QED BY <1>1, <2>2, <2>3, <2>4, <2>5, Zenon DEF HalTypeOK
<1>3. ChTypeOK
  BY DEF Init, ChTypeOK
<1>4. HandTypeOK
  BY DEF Init, HandTypeOK
<1>5. \A S : Empty \in Queue(S)
  BY DEF Empty, Queue
<1>6. QueueTypeOK
  BY <1>5 DEF Init, QueueTypeOK
<1>7. ThreadTypeOK
  <2>1. data = [at |-> "wait", active |-> FALSE, id |-> 0] /\ dataCmds = <<>> /\ dataSync = 0
        /\ save = FALSE /\ saveCmds = <<>> /\ saveSync = 0 /\ encoding = {}
    BY DEF Init
  <2>2. data \in DataType
    BY <2>1 DEF DataType
  <2>3. IsFiniteSet(encoding)
    BY <2>1, FS_EmptySet
  <2>4. dataCmds \in Seq(Command) /\ saveCmds \in Seq(Command)
    BY <2>1
  <2>5. dataSync \in Nat /\ saveSync \in Nat /\ encoding \in SUBSET Nat
    BY <2>1
  <2>6. save \in BOOLEAN
    BY <2>1, Zenon
  <2> QED BY <2>2, <2>3, <2>4, <2>5, <2>6, Zenon DEF ThreadTypeOK
<1>8. NoteTypeOK
  BY DEF Init, NoteTypeOK, NoteType
<1> QED BY <1>2, <1>3, <1>4, <1>6, <1>7, <1>8 DEF TypeOK

LEMMA FlushFlushes ==
  ASSUME TypeOK, NEW id, flushNodes(id)
  PROVE  Flushed(id) /\ m_ongoingJpegQ' \in Queue(JpegJob) /\ ChTypeOK'
<1> DEFINE list == m_ongoingJpegQ.list
           Matching == {k \in DOMAIN list : list[k].id = id}
<1>1. m_ongoingJpegQ \in Queue(JpegJob) /\ ChTypeOK
  BY DEF TypeOK, QueueTypeOK
<1>2. list \in Seq(JpegJob)
  BY <1>1, QueueFields
<1>3. CASE Matching = {}
  <2>1. UNCHANGED <<m_ongoingJpegQ, home, queued>>
    BY <1>3 DEF flushNodes, chVars
  <2>2. ChTypeOK'
    BY <1>1, <2>1 DEF ChTypeOK
  <2>3. Flushed(id)
    BY <1>3, <2>1 DEF Flushed
  <2> QED BY <1>1, <2>1, <2>2, <2>3
<1>4. CASE Matching # {}
  <2>1. PICK k \in Matching : /\ m_ongoingJpegQ' = [m_ongoingJpegQ EXCEPT !.list = RemoveAt(list, k)]
                              /\ releaseSuperBufs(releaseJpegJobData(list[k]))
    BY <1>4 DEF flushNodes
  <2>2. k \in 1 .. Len(list) /\ k \in DOMAIN list /\ list[k].id = id /\ list[k] \in JpegJob
    BY <1>2, <2>1
  <2> DEFINE l == RemoveAt(list, k)
  <2> HIDE DEF list
  <2>3. l \in Seq(JpegJob)
    BY <1>2, <2>2, Removed
  <2> HIDE DEF l
  <2>4. /\ m_ongoingJpegQ' \in Queue(JpegJob) /\ m_ongoingJpegQ'.active = m_ongoingJpegQ.active
        /\ m_ongoingJpegQ'.list = l
    BY <1>1, <2>1, <2>3, QueueChanged DEF l
  <2>5. releaseJpegJobData(list[k]) \in Seq(Back)
    BY <2>2, JpegReleased
  <2>6. Returned(releaseJpegJobData(list[k])) /\ ChTypeOK'
    BY <1>1, <2>1, <2>5, ReleaseReturns, ReturnTyped
  <2>7. Flushed(id)
    BY <2>2, <2>4, <2>6 DEF Flushed, l, list
  <2> QED BY <2>4, <2>6, <2>7
<1> QED BY <1>3, <1>4

(* A sequence of commands stays one. *)
LEMMA CommandsTyped ==
  ASSUME NEW s \in Seq(Command), NEW c \in Command
  PROVE  /\ sendCmd(s, c) \in Seq(Command) /\ sendCmd(s, c) = Append(s, c)
         /\ sendCmdFirst(s, c) \in Seq(Command) /\ sendCmdFirst(s, c) = <<c>> \o s
         /\ s # <<>> => Tail(s) \in Seq(Command)
         /\ s \o <<"next">> \in Seq(Command) /\ s \o <<"next", "next">> \in Seq(Command)
<1>1. Append(s, c) \in Seq(Command)
  OBVIOUS
<1>2. <<c>> \in Seq(Command) /\ <<"next">> \in Seq(Command) /\ <<"next", "next">> \in Seq(Command)
  BY DEF Command
<1>3. <<c>> \o s \in Seq(Command) /\ s \o <<"next">> \in Seq(Command) /\ s \o <<"next", "next">> \in Seq(Command)
  BY <1>2, ConcatProperties
<1>4. s # <<>> => Tail(s) \in Seq(Command)
  BY HeadTailProperties
<1> QED BY <1>1, <1>3, <1>4 DEF sendCmd, sendCmdFirst

-----------------------------------------------------------------------------
(* Fields of records after an assignment to some of them.                   *)
LEMMA ModeFields ==
  ASSUME NEW m \in ModeSet
  PROVE  /\ m.raw \in BOOLEAN /\ m.longshot \in BOOLEAN /\ m.save \in BOOLEAN /\ m.fails \in BOOLEAN
         /\ m.total \in 0 .. 2 /\ m.shots \in Nat /\ m.shots >= 1 /\ m.outs \in Nat
BY DEF ModeSet

DataPlaces == {"wait", "saveStop", "encode", "record", "raw", "reproc"}
LEMMA DataFields ==
  ASSUME NEW d \in DataType
  PROVE  d.at \in DataPlaces /\ d.active \in BOOLEAN /\ d.id \in Nat
BY DEF DataType, DataPlaces

LEMMA DataActive ==
  ASSUME NEW d \in DataType, NEW e, e = [d EXCEPT !.active = TRUE]
  PROVE  e \in DataType /\ e.at = d.at /\ e.active = TRUE /\ e.id = d.id
BY DEF DataType

LEMMA DataAt ==
  ASSUME NEW d \in DataType, NEW x \in DataPlaces, NEW e, e = [d EXCEPT !.at = x]
  PROVE  e \in DataType /\ e.at = x /\ e.active = d.active /\ e.id = d.id
BY DEF DataType, DataPlaces

LEMMA DataQuiet ==
  ASSUME NEW d \in DataType, NEW e, e = [d EXCEPT !.active = FALSE, !.at = "saveStop"]
  PROVE  e \in DataType /\ e.at = "saveStop" /\ e.active = FALSE /\ e.id = d.id
BY DEF DataType

NotePlaces == {"wait", "sync", "cancel", "answered"}
LEMMA NoteFields ==
  ASSUME NEW n \in NoteType
  PROVE  /\ n.at \in NotePlaces /\ n.active \in BOOLEAN /\ n.longshot \in BOOLEAN
         /\ n.expected \in Nat /\ n.rcvd \in Nat /\ n.hand \in {None} \cup ZslBuffer
BY DEF NoteType, NotePlaces

LEMMA NoteAt ==
  ASSUME NEW n \in NoteType, NEW x \in NotePlaces, NEW e, e = [n EXCEPT !.at = x]
  PROVE  /\ e \in NoteType /\ e.at = x
         /\ e.active = n.active /\ e.longshot = n.longshot /\ e.expected = n.expected
         /\ e.rcvd = n.rcvd /\ e.hand = n.hand
BY DEF NoteType, NotePlaces

LEMMA NoteBegun ==
  ASSUME NEW n \in NoteType, NEW x \in Nat, NEW l \in BOOLEAN, NEW e,
         e = [n EXCEPT !.active = TRUE, !.expected = x, !.longshot = l, !.rcvd = 0]
  PROVE  /\ e \in NoteType /\ e.at = n.at /\ e.hand = n.hand
         /\ e.active = TRUE /\ e.longshot = l /\ e.expected = x /\ e.rcvd = 0
BY DEF NoteType

LEMMA NoteEnded ==
  ASSUME NEW n \in NoteType, NEW e, e = [n EXCEPT !.active = FALSE, !.expected = 0, !.rcvd = 0]
  PROVE  /\ e \in NoteType /\ e.at = n.at /\ e.hand = n.hand
         /\ e.active = FALSE /\ e.longshot = n.longshot /\ e.expected = 0 /\ e.rcvd = 0
BY DEF NoteType

LEMMA NoteCounted ==
  ASSUME NEW n \in NoteType, NEW r \in Nat, NEW e, e = [n EXCEPT !.rcvd = r]
  PROVE  /\ e \in NoteType /\ e.at = n.at /\ e.hand = n.hand
         /\ e.active = n.active /\ e.longshot = n.longshot /\ e.expected = n.expected /\ e.rcvd = r
BY DEF NoteType

LEMMA NoteGiven ==
  ASSUME NEW n \in NoteType, NEW e, e = [n EXCEPT !.at = "wait", !.hand = None]
  PROVE  /\ e \in NoteType /\ e.at = "wait" /\ e.hand = None
         /\ e.active = n.active /\ e.longshot = n.longshot /\ e.expected = n.expected /\ e.rcvd = n.rcvd
BY DEF NoteType

LEMMA HandQueued ==
  ASSUME NEW h \in FrameHand, NEW e, e = [h EXCEPT !.at = "queued"]
  PROVE  e \in FrameHand /\ e.at = "queued" /\ e.frame = h.frame
BY DEF FrameHand

(* The first element and the rest of a sequence.                            *)
LEMMA HeadTail ==
  ASSUME NEW S, NEW s \in Seq(S), s # <<>>
  PROVE  /\ Head(s) = s[1] /\ Head(s) \in S /\ 1 \in DOMAIN s
         /\ Tail(s) \in Seq(S) /\ Len(Tail(s)) = Len(s) - 1 /\ Len(s) >= 1
         /\ \A k \in DOMAIN Tail(s) : k + 1 \in DOMAIN s /\ Tail(s)[k] = s[k + 1]
<1>1. Len(s) \in Nat /\ Len(s) >= 1 /\ DOMAIN s = 1 .. Len(s)
  OBVIOUS
<1>2. Tail(s) \in Seq(S) /\ Len(Tail(s)) = Len(s) - 1
  BY HeadTailProperties
<1>3. \A i \in 1 .. Len(Tail(s)) : Tail(s)[i] = s[i + 1]
  BY HeadTailProperties
<1>4. DOMAIN Tail(s) = 1 .. Len(s) - 1
  BY <1>2
<1>5. \A k \in DOMAIN Tail(s) : k + 1 \in DOMAIN s /\ Tail(s)[k] = s[k + 1]
  BY <1>1, <1>2, <1>3, <1>4
<1> QED BY <1>1, <1>2, <1>5

-----------------------------------------------------------------------------
(* What the steps at the queues do, told of their lists.                    *)
LEMMA QueueGets ==
  ASSUME NEW S, NEW q \in Queue(S), NEW x \in S, NEW r, r = enqueue(q, x)
  PROVE  r \in Queue(S) /\ Gets(q, r, x)
BY QueueGrown DEF Gets

LEMMA QueueLoses ==
  ASSUME NEW S, NEW q \in Queue(S), q.list # <<>>, NEW r, r = dequeue(q)
  PROVE  r \in Queue(S) /\ Loses(q, r)
BY QueueShrunk DEF Loses

LEMMA NothingReleased ==
  ASSUME ChTypeOK, releaseSuperBufs(<<>>)
  PROVE  UNCHANGED <<home, queued>>
<1>1. <<>> \in Seq(Back)
  OBVIOUS
<1>2. Returned(<<>>)
  BY <1>1, ReleaseReturns
<1>3. \A V : Count(<<>>, V) = 0
  BY CountEmpty
<1>4. home' = [f \in Frames |-> home[f] + 0] /\ queued' = [i \in Passes |-> IF i > mTotalNumReproc THEN queued[i] ELSE queued[i] + 0]
  BY <1>2, <1>3 DEF Returned
<1>5. \A f \in Frames : home[f] \in Nat /\ home[f] + 0 = home[f]
  BY DEF ChTypeOK
<1>6. \A i \in Passes : queued[i] \in Nat /\ queued[i] + 0 = queued[i]
  BY DEF ChTypeOK
<1>7. home' = home
  BY <1>4, <1>5 DEF ChTypeOK
<1>8. queued' = queued
  BY <1>4, <1>6 DEF ChTypeOK
<1> QED BY <1>7, <1>8

LEMMA DataTaken ==
  ASSUME ThreadTypeOK, NEW c, DataTakes(c)
  PROVE  /\ data.at = "wait" /\ dataCmds # <<>> /\ dataCmds[1] = c /\ Head(dataCmds) = c
         /\ dataCmds' = Tail(dataCmds) /\ dataCmds' \in Seq(Command)
<1>1. dataCmds \in Seq(Command) /\ dataCmds # <<>> /\ data.at = "wait" /\ Head(dataCmds) = c /\ dataCmds' = Tail(dataCmds)
  BY DEF DataTakes, ThreadTypeOK
<1> QED BY <1>1, HeadTail

LEMMA NoteTaken ==
  ASSUME NoteTypeOK, NEW c, NoteTakes(c)
  PROVE  /\ note.at = "wait" /\ noteCmds # <<>> /\ noteCmds[1] = c /\ Head(noteCmds) = c
         /\ noteCmds' = Tail(noteCmds) /\ noteCmds' \in Seq(Command)
<1>1. noteCmds \in Seq(Command) /\ noteCmds # <<>> /\ note.at = "wait" /\ Head(noteCmds) = c /\ noteCmds' = Tail(noteCmds)
  BY DEF NoteTakes, NoteTypeOK
<1> QED BY <1>1, HeadTail

(* The data thread has in its queues what it is about to work on.           *)
Busy ==
    /\ data.at = "raw" => m_inputRawQ.list # <<>>
    /\ data.at \in {"encode", "record"} => m_ongoingJpegQ.list # <<>>

LEMMA JpegEventEffect ==
  ASSUME TypeOK, JpegEvent
  PROVE  TypeOK' /\ JpegEventDoes
<1>0. HalTypeOK /\ ChTypeOK /\ HandTypeOK /\ QueueTypeOK /\ ThreadTypeOK /\ NoteTypeOK
  BY DEF TypeOK
<1>a. evt_queue \in Seq(Event) /\ evt_queue # <<>> /\ evt_queue' = Tail(evt_queue) /\ Head(evt_queue).kind = "jpeg"
      /\ hal # "stopping"
  BY <1>0 DEF JpegEvent, HalTypeOK
<1>b. /\ evt_queue' \in Seq(Event) /\ Head(evt_queue) = evt_queue[1] /\ evt_queue[1] \in Event
      /\ evt_queue[1].id \in Nat /\ evt_queue[1].kind = "jpeg"
  <2>1. evt_queue' \in Seq(Event) /\ Head(evt_queue) = evt_queue[1] /\ evt_queue[1] \in Event
    BY <1>a, HeadTail
  <2> QED BY <1>a, <2>1 DEF Event
<1>c. UNCHANGED <<hal, mode, clean, mTotalNumReproc, wanted, frameTh, ppTh, reproc, m_inputPPQ, m_inputJpegQ,
                  m_inputRawQ, m_ongoingPPQ, data, dataSync, save, saveSync, encoding, note>>
  BY DEF JpegEvent, halVars, frameVars, inputs
<1>d. /\ dataCmds \in Seq(Command) /\ saveCmds \in Seq(Command) /\ noteCmds \in Seq(Command) /\ "next" \in Command
      /\ m_inputSaveQ \in Queue(Nat) /\ m_ongoingJpegQ \in Queue(JpegJob) /\ mDataQ \in Seq({None} \cup ZslBuffer)
  BY <1>0 DEF ThreadTypeOK, NoteTypeOK, QueueTypeOK, Command
<1> DEFINE Idle == UNCHANGED <<home, queued, m_ongoingJpegQ, dataCmds, noteCmds, mDataQ, told, m_inputSaveQ, saveCmds>>
           Saves == /\ Gets(m_inputSaveQ, m_inputSaveQ', evt_queue[1].id)
                    /\ \/ ~m_inputSaveQ.active /\ UNCHANGED <<saveCmds, dataCmds>>
                       \/ m_inputSaveQ.active /\ saveCmds' = Append(saveCmds, "next") /\ dataCmds' = Append(dataCmds, "next")
                    /\ UNCHANGED <<home, queued, m_ongoingJpegQ, noteCmds, mDataQ, told>>
           Sends == /\ Flushed(evt_queue[1].id)
                    /\ \/ m_inputPPQ.list = <<>> /\ dataCmds' = dataCmds \o <<"next">>
                       \/ m_inputPPQ.list # <<>> /\ dataCmds' = dataCmds \o <<"next", "next">>
                    /\ \/ mDataQ' = Append(mDataQ, None) /\ noteCmds' = Append(noteCmds, "next") /\ told' = told
                       \/ told' = TRUE /\ UNCHANGED <<mDataQ, noteCmds>>
                    /\ UNCHANGED <<m_inputSaveQ, saveCmds>>
           Typed == ChTypeOK' /\ m_ongoingJpegQ' \in Queue(JpegJob) /\ m_inputSaveQ' \in Queue(Nat)
                      /\ dataCmds' \in Seq(Command) /\ saveCmds' \in Seq(Command) /\ noteCmds' \in Seq(Command)
                      /\ mDataQ' \in Seq({None} \cup ZslBuffer) /\ told' \in BOOLEAN
<1>e. \/ hal = "stopped" /\ Idle /\ Typed
      \/ hal # "stopped" /\ mode.save /\ mode.longshot /\ Saves /\ Typed
      \/ hal # "stopped" /\ ~(mode.save /\ mode.longshot) /\ Sends /\ Typed
  <2>0. told \in BOOLEAN
    BY <1>0, Zenon DEF HalTypeOK
  <2>1. CASE hal = "stopped"
    <3>1. Idle
      BY <2>1 DEF JpegEvent, chVars
    <3>2. ChTypeOK'
      BY <1>0, <3>1 DEF ChTypeOK
    <3>3. told' \in BOOLEAN
      BY <2>0, <3>1, Zenon
    <3> QED BY <1>d, <2>1, <3>1, <3>2, <3>3, Zenon
  <2>2. CASE hal # "stopped" /\ mode.save /\ mode.longshot
    <3>1. /\ m_inputSaveQ' = enqueue(m_inputSaveQ, evt_queue[1].id)
          /\ saveCmds' = IF m_inputSaveQ.active THEN sendCmd(saveCmds, "next") ELSE saveCmds
          /\ dataCmds' = IF m_inputSaveQ.active THEN sendCmd(dataCmds, "next") ELSE dataCmds
          /\ UNCHANGED <<home, queued, m_ongoingJpegQ, noteCmds, mDataQ, told>>
      BY <1>b, <2>2 DEF JpegEvent, processJpegEvt, chVars
    <3>2. m_inputSaveQ' \in Queue(Nat) /\ Gets(m_inputSaveQ, m_inputSaveQ', evt_queue[1].id)
      <4> DEFINE x == evt_queue[1].id
      <4> HIDE DEF x
      <4>1. m_inputSaveQ' = enqueue(m_inputSaveQ, x) /\ x \in Nat
        BY <1>b, <3>1 DEF x
      <4>2. m_inputSaveQ' \in Queue(Nat) /\ Gets(m_inputSaveQ, m_inputSaveQ', x)
        BY <1>d, <4>1, QueueGets
      <4> QED BY <4>2 DEF x
    <3>3. sendCmd(saveCmds, "next") = Append(saveCmds, "next") /\ sendCmd(saveCmds, "next") \in Seq(Command)
          /\ sendCmd(dataCmds, "next") = Append(dataCmds, "next") /\ sendCmd(dataCmds, "next") \in Seq(Command)
      BY <1>d, CommandsTyped
    <3>4. Saves
      BY <3>1, <3>2, <3>3
    <3>5. saveCmds' \in Seq(Command) /\ dataCmds' \in Seq(Command)
      BY <1>d, <3>1, <3>3
    <3>6. ChTypeOK'
      BY <1>0, <3>1 DEF ChTypeOK
    <3>7. told' \in BOOLEAN
      BY <2>0, <3>1, Zenon
    <3> QED BY <1>d, <2>2, <3>1, <3>2, <3>4, <3>5, <3>6, <3>7, Zenon
  <2>3. CASE hal # "stopped" /\ ~(mode.save /\ mode.longshot)
    <3>1. /\ flushNodes(evt_queue[1].id) /\ dataCmds' = dataCmds \o WakeUps
          /\ \/ sendDataNotify(None) /\ UNCHANGED told
             \/ told' = TRUE /\ UNCHANGED <<mDataQ, noteCmds>>
          /\ UNCHANGED <<m_inputSaveQ, saveCmds>>
      BY <1>b, <2>3 DEF JpegEvent, processJpegEvt
    <3>2. Flushed(evt_queue[1].id) /\ m_ongoingJpegQ' \in Queue(JpegJob) /\ ChTypeOK'
      BY <3>1, FlushFlushes
    <3>3. dataCmds \o <<"next">> \in Seq(Command) /\ dataCmds \o <<"next", "next">> \in Seq(Command)
          /\ sendCmd(noteCmds, "next") = Append(noteCmds, "next") /\ sendCmd(noteCmds, "next") \in Seq(Command)
      BY <1>d, CommandsTyped
    <3>4. /\ \/ m_inputPPQ.list = <<>> /\ dataCmds' = dataCmds \o <<"next">>
             \/ m_inputPPQ.list # <<>> /\ dataCmds' = dataCmds \o <<"next", "next">>
          /\ dataCmds' \in Seq(Command)
      <4>1. CASE m_inputPPQ.list = <<>>
        <5>1. dataCmds' = dataCmds \o <<"next">>
          BY <3>1, <4>1 DEF WakeUps
        <5> QED BY <3>3, <4>1, <5>1, Zenon
      <4>2. CASE m_inputPPQ.list # <<>>
        <5>1. dataCmds' = dataCmds \o <<"next", "next">>
          BY <3>1, <4>2 DEF WakeUps
        <5> QED BY <3>3, <4>2, <5>1, Zenon
      <4> QED BY <4>1, <4>2
    <3>5. Append(mDataQ, None) \in Seq({None} \cup ZslBuffer)
      BY <1>d
    <3>6. CASE sendDataNotify(None) /\ UNCHANGED told
      <4>1. mDataQ' = Append(mDataQ, None) /\ noteCmds' = Append(noteCmds, "next") /\ told' = told
        BY <3>3, <3>6 DEF sendDataNotify
      <4>2. noteCmds' \in Seq(Command)
        BY <3>3, <4>1
      <4>3. told' \in BOOLEAN
        BY <2>0, <4>1, Zenon
      <4> QED BY <1>d, <2>3, <3>1, <3>2, <3>4, <3>5, <4>1, <4>2, <4>3, Zenon
    <3>7. CASE told' = TRUE /\ UNCHANGED <<mDataQ, noteCmds>>
      <4>1. told' \in BOOLEAN
        BY <3>7, Zenon
      <4> QED BY <1>d, <2>3, <3>1, <3>2, <3>4, <3>7, <4>1, Zenon
    <3> QED BY <3>1, <3>6, <3>7
  <2> QED BY <2>1, <2>2, <2>3
<1>f. Typed
  BY <1>e
<1> HIDE DEF Idle, Saves, Sends
<1>1. HalTypeOK'
  BY <1>0, <1>b, <1>c, <1>f DEF HalTypeOK
<1>2. ChTypeOK'
  BY <1>f
<1>3. HandTypeOK'
  BY <1>0 DEF JpegEvent, halVars, frameVars, chVars, inputs, HandTypeOK
<1>4. QueueTypeOK'
  BY <1>0, <1>c, <1>f DEF QueueTypeOK
<1>5. ThreadTypeOK'
  BY <1>0, <1>c, <1>f DEF ThreadTypeOK
<1>6. NoteTypeOK'
  BY <1>0, <1>c, <1>f DEF NoteTypeOK
<1>7. JpegEventDoes
  BY <1>a, <1>b, <1>c, <1>e, Zenon DEF JpegEventDoes, Idle, Saves, Sends
<1> QED BY <1>1, <1>2, <1>3, <1>4, <1>5, <1>6, <1>7 DEF TypeOK

LEMMA processDataEffect ==
  ASSUME TypeOK, processData
  PROVE  TypeOK' /\ processDataDoes
<1>0. HalTypeOK /\ ChTypeOK /\ HandTypeOK /\ QueueTypeOK /\ ThreadTypeOK /\ NoteTypeOK
  BY DEF TypeOK
<1>a. frameTh \in FrameHand /\ frameTh.at = "got" /\ hal # "starting" /\ frameTh.frame \in Frames
  <2>1. frameTh # None /\ frameTh.at = "got" /\ hal # "starting" /\ frameTh \in {None} \cup FrameHand
    BY <1>0 DEF processData, HandTypeOK
  <2> QED BY <2>1 DEF FrameHand
<1>b. UNCHANGED <<hal, mode, clean, mTotalNumReproc, wanted, told, evt_queue, ppTh, reproc, m_ongoingPPQ, m_ongoingJpegQ,
                  data, dataSync, save, saveCmds, saveSync, m_inputSaveQ, encoding, note, noteCmds, mDataQ>>
  BY DEF processData, halVars, ongoing, saveVars, noteVars
<1>c. PICK f \in Frames : f = frameTh.frame
  BY <1>a
<1>d. Source(f) \in Buffer /\ Source(f) \in ZslBuffer /\ <<Source(f)>> \in Seq(Back)
      /\ NewRequest(f) \in Request /\ NewJpegJob(Source(f), None) \in JpegJob
  <2>1. Source(f) \in Buffer /\ Source(f) \in ZslBuffer
    BY NoneApart
  <2>2. <<Source(f)>> \in Seq(Back)
    BY <2>1 DEF Back
  <2>3. NewRequest(f) \in Request
    BY <2>1 DEF NewRequest, Request
  <2>4. NewJpegJob(Source(f), None) \in JpegJob
    BY <2>1 DEF NewJpegJob, JpegJob
  <2> QED BY <2>1, <2>2, <2>3, <2>4
<1>e. dataCmds \in Seq(Command) /\ dataCmds \o <<"next">> \in Seq(Command) /\ dataCmds \o <<"next", "next">> \in Seq(Command)
  <2>1. dataCmds \in Seq(Command) /\ "next" \in Command
    BY <1>0 DEF ThreadTypeOK, Command
  <2> QED BY <2>1, CommandsTyped
<1>f. m_inputPPQ \in Queue(Request) /\ m_inputJpegQ \in Queue(JpegJob) /\ m_inputRawQ \in Queue(Buffer)
  BY <1>0 DEF QueueTypeOK
<1> DEFINE Typed == /\ m_inputPPQ' \in Queue(Request) /\ m_inputJpegQ' \in Queue(JpegJob)
                    /\ m_inputRawQ' \in Queue(Buffer) /\ ChTypeOK' /\ dataCmds' \in Seq(Command)
                    /\ frameTh' \in {None} \cup FrameHand
           First == /\ mode.total > 0 /\ m_inputPPQ.active /\ m_inputPPQ'.active
                    /\ m_inputPPQ'.list = Append(m_inputPPQ.list, NewRequest(frameTh.frame))
                    /\ frameTh' \in FrameHand /\ frameTh'.at = "queued" /\ frameTh'.frame = frameTh.frame
                    /\ UNCHANGED <<m_inputJpegQ, m_inputRawQ, home, queued, dataCmds>>
           Raw == /\ mode.total = 0 /\ mode.raw /\ m_inputRawQ.active /\ m_inputRawQ'.active
                  /\ m_inputRawQ'.list = Append(m_inputRawQ.list, Source(frameTh.frame))
                  /\ frameTh' = None /\ dataCmds' = dataCmds \o <<"next", "next">>
                  /\ UNCHANGED <<m_inputPPQ, m_inputJpegQ, home, queued>>
           Jpeg == /\ mode.total = 0 /\ ~mode.raw /\ m_inputJpegQ.active /\ m_inputJpegQ'.active
                   /\ m_inputJpegQ'.list = Append(m_inputJpegQ.list, NewJpegJob(Source(frameTh.frame), None))
                   /\ frameTh' = None /\ dataCmds' = dataCmds \o <<"next">>
                   /\ UNCHANGED <<m_inputPPQ, m_inputRawQ, home, queued>>
           Closed == \/ mode.total > 0 /\ ~m_inputPPQ.active
                     \/ mode.total = 0 /\ mode.raw /\ ~m_inputRawQ.active
                     \/ mode.total = 0 /\ ~mode.raw /\ ~m_inputJpegQ.active
           Wakes == dataCmds' = IF mode.raw /\ mode.total = 0 THEN dataCmds \o <<"next">> ELSE dataCmds
           Back_ == frameTh' = None /\ Returned(<<Source(frameTh.frame)>>) /\ Wakes
                    /\ UNCHANGED <<m_inputPPQ, m_inputJpegQ, m_inputRawQ>>
<1>g. ASSUME releaseSuperBufs(<<>>) PROVE UNCHANGED <<home, queued>> /\ ChTypeOK'
  <2>1. UNCHANGED <<home, queued>>
    BY <1>0, <1>g, NothingReleased
  <2> QED BY <1>0, <2>1 DEF ChTypeOK
<1>h. ASSUME releaseSuperBufs(<<Source(f)>>) PROVE Returned(<<Source(frameTh.frame)>>) /\ ChTypeOK'
  BY <1>0, <1>c, <1>d, <1>h, ReleaseReturns, ReturnTyped
<1>i. ASSUME Closed, frameTh' = None, releaseSuperBufs(<<Source(f)>>), Wakes, UNCHANGED <<m_inputPPQ, m_inputJpegQ, m_inputRawQ>>
      PROVE  Back_ /\ Typed
  BY <1>e, <1>f, <1>h, <1>i
<1>j. (First \/ Raw \/ Jpeg \/ (Closed /\ Back_)) /\ Typed
  <2>1. CASE /\ mode.total > 0
             /\ dataCmds' = dataCmds \o (IF m_inputPPQ.active THEN <<>> ELSE <<>>)
             /\ releaseSuperBufs(IF m_inputPPQ.active THEN <<>> ELSE <<Source(f)>>)
             /\ frameTh' = IF m_inputPPQ.active THEN [frameTh EXCEPT !.at = "queued"] ELSE None
             /\ m_inputPPQ' = enqueue(m_inputPPQ, NewRequest(f))
             /\ UNCHANGED <<m_inputJpegQ, m_inputRawQ>>
    <3>1. CASE m_inputPPQ.active
      <4>1. m_inputPPQ' \in Queue(Request) /\ Gets(m_inputPPQ, m_inputPPQ', NewRequest(f))
        BY <1>d, <1>f, <2>1, QueueGets
      <4>2. frameTh' \in FrameHand /\ frameTh'.at = "queued" /\ frameTh'.frame = frameTh.frame
        BY <1>a, <2>1, <3>1, HandQueued
      <4>3. dataCmds' = dataCmds
        BY <1>e, <2>1, <3>1
      <4>4. UNCHANGED <<home, queued>> /\ ChTypeOK'
        BY <1>g, <2>1, <3>1
      <4>5. First
        BY <1>c, <2>1, <3>1, <4>1, <4>2, <4>3, <4>4 DEF Gets
      <4> QED BY <1>e, <1>f, <2>1, <4>1, <4>2, <4>3, <4>4, <4>5
    <3>2. CASE ~m_inputPPQ.active
      <4>1. m_inputPPQ' = m_inputPPQ /\ frameTh' = None /\ releaseSuperBufs(<<Source(f)>>)
        BY <2>1, <3>2 DEF enqueue
      <4>2. dataCmds' = dataCmds /\ mode.total # 0
        BY <1>e, <2>1, <3>2
      <4> QED BY <1>i, <2>1, <3>2, <4>1, <4>2
    <3> QED BY <3>1, <3>2
  <2>2. CASE /\ mode.total = 0 /\ mode.raw
             /\ dataCmds' = dataCmds \o (IF m_inputRawQ.active THEN <<"next", "next">> ELSE <<"next">>)
             /\ releaseSuperBufs(IF m_inputRawQ.active THEN <<>> ELSE <<Source(f)>>)
             /\ frameTh' = None
             /\ m_inputRawQ' = enqueue(m_inputRawQ, Source(f))
             /\ UNCHANGED <<m_inputPPQ, m_inputJpegQ>>
    <3>1. CASE m_inputRawQ.active
      <4>1. m_inputRawQ' \in Queue(Buffer) /\ Gets(m_inputRawQ, m_inputRawQ', Source(f))
        BY <1>d, <1>f, <2>2, QueueGets
      <4>4. UNCHANGED <<home, queued>> /\ ChTypeOK'
        BY <1>g, <2>2, <3>1
      <4>3. dataCmds' = dataCmds \o <<"next", "next">>
        BY <2>2, <3>1
      <4>5. Raw
        BY <1>c, <2>2, <3>1, <4>1, <4>3, <4>4 DEF Gets
      <4>6. dataCmds' \in Seq(Command)
        BY <1>e, <4>3
      <4> QED BY <1>f, <2>2, <4>1, <4>4, <4>5, <4>6
    <3>2. CASE ~m_inputRawQ.active
      <4>1. m_inputRawQ' = m_inputRawQ /\ releaseSuperBufs(<<Source(f)>>)
        BY <2>2, <3>2 DEF enqueue
      <4>2. Wakes
        BY <2>2, <3>2
      <4> QED BY <1>i, <2>2, <3>2, <4>1, <4>2
    <3> QED BY <3>1, <3>2
  <2>3. CASE /\ mode.total = 0 /\ ~mode.raw
             /\ dataCmds' = dataCmds \o (IF m_inputJpegQ.active THEN <<"next">> ELSE <<>>)
             /\ releaseSuperBufs(IF m_inputJpegQ.active THEN <<>> ELSE <<Source(f)>>)
             /\ frameTh' = None
             /\ m_inputJpegQ' = enqueue(m_inputJpegQ, NewJpegJob(Source(f), None))
             /\ UNCHANGED <<m_inputPPQ, m_inputRawQ>>
    <3>1. CASE m_inputJpegQ.active
      <4>1. m_inputJpegQ' \in Queue(JpegJob) /\ Gets(m_inputJpegQ, m_inputJpegQ', NewJpegJob(Source(f), None))
        BY <1>d, <1>f, <2>3, QueueGets
      <4>4. UNCHANGED <<home, queued>> /\ ChTypeOK'
        BY <1>g, <2>3, <3>1
      <4>3. dataCmds' = dataCmds \o <<"next">>
        BY <2>3, <3>1
      <4>5. Jpeg
        BY <1>c, <2>3, <3>1, <4>1, <4>3, <4>4 DEF Gets
      <4>6. dataCmds' \in Seq(Command)
        BY <1>e, <4>3
      <4> QED BY <1>f, <2>3, <4>1, <4>4, <4>5, <4>6
    <3>2. CASE ~m_inputJpegQ.active
      <4>1. m_inputJpegQ' = m_inputJpegQ /\ releaseSuperBufs(<<Source(f)>>)
        BY <2>3, <3>2 DEF enqueue
      <4>2. dataCmds' = dataCmds
        BY <1>e, <2>3, <3>2
      <4> QED BY <1>i, <2>3, <3>2, <4>1, <4>2
    <3> QED BY <3>1, <3>2
  <2> QED BY <1>c, <2>1, <2>2, <2>3, Zenon DEF processData
<1>k. Typed
  BY <1>j
<1> HIDE DEF First, Raw, Jpeg, Closed, Back_
<1>1. HalTypeOK'
  BY <1>0 DEF processData, halVars, ongoing, saveVars, noteVars, HalTypeOK
<1>2. ChTypeOK'
  BY <1>k
<1>3. HandTypeOK'
  BY <1>0, <1>b, <1>k DEF HandTypeOK
<1>4. QueueTypeOK'
  BY <1>0, <1>b, <1>k DEF QueueTypeOK
<1>5. ThreadTypeOK'
  BY <1>0, <1>b, <1>k DEF ThreadTypeOK
<1>6. NoteTypeOK'
  BY <1>0 DEF processData, halVars, ongoing, saveVars, noteVars, NoteTypeOK
<1>7. processDataDoes
  BY <1>a, <1>b, <1>j, Zenon DEF processDataDoes, First, Raw, Jpeg, Closed, Back_
<1> QED BY <1>1, <1>2, <1>3, <1>4, <1>5, <1>6, <1>7 DEF TypeOK

LEMMA ReprocOutputEffect ==
  ASSUME TypeOK, NEW i \in Passes, ReprocOutput(i)
  PROVE  TypeOK' /\ ReprocOutputDoes(i)
<1>0. HalTypeOK /\ ChTypeOK /\ HandTypeOK /\ QueueTypeOK /\ ThreadTypeOK /\ NoteTypeOK
  BY DEF TypeOK
<1>a. /\ ppTh[i] = None /\ reproc[i] # <<>> /\ queued[i] > 0
      /\ reproc' = [reproc EXCEPT ![i] = Tail(reproc[i])]
      /\ queued' = [queued EXCEPT ![i] = queued[i] - 1]
      /\ UNCHANGED <<hal, mode, clean, mTotalNumReproc, wanted, told, evt_queue, home, frameTh, m_inputPPQ, m_inputJpegQ,
                     m_inputRawQ, m_ongoingJpegQ, data, dataCmds, dataSync, save, saveCmds, saveSync, m_inputSaveQ,
                     encoding, note, noteCmds, mDataQ>>
  BY DEF ReprocOutput, halVars, inputs, dataVars, saveVars, noteVars
<1>b. reproc[i] \in Seq(Buffer) /\ ppTh \in [Passes -> {None} \cup PassHand] /\ reproc \in [Passes -> Seq(Buffer)]
  BY <1>0 DEF HandTypeOK
<1>c. Head(reproc[i]) = reproc[i][1] /\ reproc[i][1] \in Buffer /\ Tail(reproc[i]) \in Seq(Buffer)
  BY <1>a, <1>b, HeadTail
<1>d. m_ongoingPPQ \in Queue(Ongoing)
  BY <1>0 DEF QueueTypeOK
<1>e. ASSUME HasNext(m_ongoingPPQ)
      PROVE  /\ m_ongoingPPQ.active /\ Loses(m_ongoingPPQ, m_ongoingPPQ') /\ m_ongoingPPQ' \in Queue(Ongoing)
             /\ ppTh' = [ppTh EXCEPT ![i] = [out |-> [ch |-> i, of |-> reproc[i][1].of], job |-> m_ongoingPPQ.list[1]]]
             /\ ppTh' \in [Passes -> {None} \cup PassHand]
  <2>1. ppTh' = [ppTh EXCEPT ![i] = [out |-> [ch |-> i, of |-> Head(reproc[i]).of], job |-> peek(m_ongoingPPQ)]]
        /\ m_ongoingPPQ' = dequeue(m_ongoingPPQ)
    BY <1>e DEF ReprocOutput
  <2>2. m_ongoingPPQ.active /\ m_ongoingPPQ.list # <<>>
    BY <1>e DEF HasNext
  <2>3. peek(m_ongoingPPQ) = m_ongoingPPQ.list[1] /\ peek(m_ongoingPPQ) \in Ongoing
    BY <1>d, <2>2, QueueShrunk
  <2>4. m_ongoingPPQ' \in Queue(Ongoing) /\ Loses(m_ongoingPPQ, m_ongoingPPQ')
    BY <1>d, <2>1, <2>2, QueueLoses
  <2>5. [out |-> [ch |-> i, of |-> Head(reproc[i]).of], job |-> peek(m_ongoingPPQ)] \in PassHand
    BY <1>c, <2>3, NoneApart DEF PassHand, Buffer, Passes
  <2>6. ppTh' \in [Passes -> {None} \cup PassHand]
    BY <1>b, <2>1, <2>5
  <2>7. ppTh' = [ppTh EXCEPT ![i] = [out |-> [ch |-> i, of |-> reproc[i][1].of], job |-> m_ongoingPPQ.list[1]]]
    BY <1>c, <2>1, <2>3
  <2> QED BY <2>2, <2>4, <2>6, <2>7
<1>f. ASSUME ~HasNext(m_ongoingPPQ)
      PROVE  UNCHANGED <<ppTh, m_ongoingPPQ>>
  BY <1>f DEF ReprocOutput
<1>g. m_ongoingPPQ' \in Queue(Ongoing) /\ ppTh' \in [Passes -> {None} \cup PassHand]
  BY <1>b, <1>d, <1>e, <1>f
<1>h. reproc' \in [Passes -> Seq(Buffer)]
  BY <1>a, <1>b, <1>c
<1>1. HalTypeOK'
  BY <1>0 DEF ReprocOutput, halVars, inputs, dataVars, saveVars, noteVars, HalTypeOK
<1>2. ChTypeOK'
  BY <1>0 DEF ReprocOutput, halVars, inputs, dataVars, saveVars, noteVars, ChTypeOK
<1>3. HandTypeOK'
  BY <1>0, <1>a, <1>g, <1>h DEF HandTypeOK
<1>4. QueueTypeOK'
  BY <1>0, <1>a, <1>g DEF QueueTypeOK
<1>5. ThreadTypeOK'
  BY <1>0 DEF ReprocOutput, halVars, inputs, dataVars, saveVars, noteVars, ThreadTypeOK
<1>6. NoteTypeOK'
  BY <1>0 DEF ReprocOutput, halVars, inputs, dataVars, saveVars, noteVars, NoteTypeOK
<1>7. ReprocOutputDoes(i)
  BY <1>a, <1>e, <1>f DEF ReprocOutputDoes
<1> QED BY <1>1, <1>2, <1>3, <1>4, <1>5, <1>6, <1>7 DEF TypeOK

LEMMA processPPDataEffect ==
  ASSUME TypeOK, NEW i \in Passes, processPPData(i)
  PROVE  TypeOK' /\ processPPDataDoes(i)
<1>0. HalTypeOK /\ ChTypeOK /\ HandTypeOK /\ QueueTypeOK /\ ThreadTypeOK /\ NoteTypeOK
  BY DEF TypeOK
<1>a. ppTh[i] \in PassHand /\ ppTh' = [ppTh EXCEPT ![i] = None] /\ ppTh \in [Passes -> {None} \cup PassHand]
      /\ mTotalNumReproc \in 0 .. 2
  BY <1>0 DEF processPPData, HandTypeOK, HalTypeOK
<1>b. UNCHANGED <<hal, mode, clean, mTotalNumReproc, wanted, told, evt_queue, frameTh, reproc, m_ongoingPPQ,
                  m_ongoingJpegQ, data, dataSync, save, saveCmds, saveSync, m_inputSaveQ, encoding, note, noteCmds, mDataQ>>
  BY DEF processPPData, halVars, ongoing, saveVars, noteVars
<1>c. PICK out, job : out = ppTh[i].out /\ job = ppTh[i].job
  OBVIOUS
<1>d. /\ out \in Buffer /\ job \in Ongoing /\ job \in PPJob /\ job.orig \in ZslBuffer /\ job.src \in Buffer
      /\ job.count \in 1 .. 2 /\ out \in Back
  <2>1. out \in Buffer /\ job \in Ongoing
    BY <1>a, <1>c DEF PassHand
  <2> QED BY <2>1 DEF Ongoing, PPJob, Back
<1>e. PICK again, jpeg : again = Again(i) /\ jpeg = ToEncode(i)
  OBVIOUS
<1>f. again = [src |-> out, orig |-> job.orig, count |-> job.count] /\ jpeg = NewJpegJob(out, job.orig)
  BY <1>c, <1>e DEF Again, ToEncode
<1>g. again \in PPJob /\ again.count = job.count /\ jpeg \in JpegJob
  BY <1>d, <1>f DEF PPJob, NewJpegJob, JpegJob
<1>h. job.count = 1 => again \in Request
  BY <1>d, <1>f DEF Request
<1>i. /\ releasePPInputData(job) \in Seq(Back) /\ releasePPInputData(again) \in Seq(Back)
      /\ releaseJpegJobData(jpeg) \in Seq(Back)
  BY <1>d, <1>g, InputReleased, JpegReleased
<1>j. SpentInput(job) \in Seq(Back) /\ <<out>> \in Seq(Back)
  <2>1. job.src \in Back
    BY <1>d DEF Back
  <2>2. <<job.src>> \in Seq(Back) /\ <<>> \in Seq(Back) /\ <<out>> \in Seq(Back)
    BY <1>d, <2>1
  <2> QED BY <2>2 DEF SpentInput
<1>k. /\ releasePPInputData(job) \o <<out>> \in Seq(Back) /\ SpentInput(job) \o releasePPInputData(again) \in Seq(Back)
      /\ SpentInput(job) \o releaseJpegJobData(jpeg) \in Seq(Back)
  BY <1>i, <1>j, ConcatProperties
<1>l. dataCmds \in Seq(Command) /\ sendCmd(dataCmds, "next") = Append(dataCmds, "next") /\ Append(dataCmds, "next") \in Seq(Command)
  <2>1. dataCmds \in Seq(Command) /\ "next" \in Command
    BY <1>0 DEF ThreadTypeOK, Command
  <2> QED BY <2>1, CommandsTyped
<1>m. m_inputPPQ \in Queue(Request) /\ m_inputJpegQ \in Queue(JpegJob) /\ m_inputRawQ \in Queue(Buffer)
  BY <1>0 DEF QueueTypeOK
<1>n. ASSUME NEW s \in Seq(Back), releaseSuperBufs(s) PROVE Returned(s) /\ ChTypeOK'
  BY <1>0, <1>n, ReleaseReturns, ReturnTyped
<1>o. \A s \in Seq(Back) : s \o <<>> = s
  OBVIOUS
<1> DEFINE Typed == /\ m_inputPPQ' \in Queue(Request) /\ m_inputJpegQ' \in Queue(JpegJob)
                    /\ m_inputRawQ' \in Queue(Buffer) /\ ChTypeOK' /\ dataCmds' \in Seq(Command)
           Raw == /\ mode.raw /\ m_inputRawQ.active /\ m_inputRawQ'.active
                  /\ m_inputRawQ'.list = Append(m_inputRawQ.list, ppTh[i].out)
                  /\ Returned(releasePPInputData(ppTh[i].job)) /\ dataCmds' = Append(dataCmds, "next")
                  /\ UNCHANGED <<m_inputPPQ, m_inputJpegQ>>
           Second == /\ ~mode.raw /\ ppTh[i].job.count = 1 /\ mTotalNumReproc = 2 /\ m_inputPPQ.active /\ m_inputPPQ'.active
                     /\ m_inputPPQ'.list = Append(m_inputPPQ.list, Again(i))
                     /\ dataCmds' = Append(dataCmds, "next")
                     /\ UNCHANGED <<m_inputJpegQ, m_inputRawQ, home, queued>>
           Jpeg == /\ ~mode.raw /\ ppTh[i].job.count >= mTotalNumReproc /\ m_inputJpegQ.active /\ m_inputJpegQ'.active
                   /\ m_inputJpegQ'.list = Append(m_inputJpegQ.list, ToEncode(i))
                   /\ Returned(SpentInput(ppTh[i].job)) /\ dataCmds' = Append(dataCmds, "next")
                   /\ UNCHANGED <<m_inputPPQ, m_inputRawQ>>
           Closed == /\ UNCHANGED <<m_inputPPQ, m_inputJpegQ, m_inputRawQ, dataCmds>>
                     /\ \/ ~m_inputRawQ.active /\ Returned(releasePPInputData(ppTh[i].job) \o <<ppTh[i].out>>)
                        \/ ~m_inputPPQ.active /\ Returned(SpentInput(ppTh[i].job) \o releasePPInputData(Again(i)))
                           /\ ppTh[i].job.count = 1
                        \/ ~m_inputJpegQ.active /\ Returned(SpentInput(ppTh[i].job) \o releaseJpegJobData(ToEncode(i)))
<1>p. (Raw \/ Second \/ Jpeg \/ Closed) /\ Typed
  <2>1. CASE /\ mode.raw
             /\ m_inputRawQ' = enqueue(m_inputRawQ, out)
             /\ dataCmds' = IF m_inputRawQ.active THEN sendCmd(dataCmds, "next") ELSE dataCmds
             /\ releaseSuperBufs(releasePPInputData(job) \o IF m_inputRawQ.active THEN <<>> ELSE <<out>>)
             /\ UNCHANGED <<m_inputPPQ, m_inputJpegQ>>
    <3>1. CASE m_inputRawQ.active
      <4>1. m_inputRawQ' \in Queue(Buffer) /\ Gets(m_inputRawQ, m_inputRawQ', out)
        BY <1>d, <1>m, <2>1, QueueGets
      <4>2. releaseSuperBufs(releasePPInputData(job))
        BY <1>i, <1>o, <2>1, <3>1
      <4>3. Returned(releasePPInputData(job)) /\ ChTypeOK'
        BY <1>i, <1>n, <4>2
      <4>4. dataCmds' = Append(dataCmds, "next") /\ dataCmds' \in Seq(Command)
        BY <1>l, <2>1, <3>1
      <4>5. Raw
        BY <1>c, <2>1, <3>1, <4>1, <4>3, <4>4 DEF Gets
      <4> QED BY <1>m, <2>1, <4>1, <4>3, <4>4, <4>5
    <3>2. CASE ~m_inputRawQ.active
      <4>1. m_inputRawQ' = m_inputRawQ /\ dataCmds' = dataCmds /\ releaseSuperBufs(releasePPInputData(job) \o <<out>>)
        BY <2>1, <3>2 DEF enqueue
      <4>2. Returned(releasePPInputData(job) \o <<out>>) /\ ChTypeOK'
        BY <1>k, <1>n, <4>1
      <4>3. Closed
        BY <1>c, <2>1, <3>2, <4>1, <4>2
      <4> QED BY <1>l, <1>m, <2>1, <4>1, <4>2, <4>3
    <3> QED BY <3>1, <3>2
  <2>2. CASE /\ ~mode.raw /\ job.count < mTotalNumReproc
             /\ m_inputPPQ' = enqueue(m_inputPPQ, again)
             /\ dataCmds' = IF m_inputPPQ.active THEN sendCmd(dataCmds, "next") ELSE dataCmds
             /\ releaseSuperBufs(SpentInput(job) \o IF m_inputPPQ.active THEN <<>> ELSE releasePPInputData(again))
             /\ UNCHANGED <<m_inputJpegQ, m_inputRawQ>>
    <3>0. job.count = 1 /\ mTotalNumReproc = 2 /\ again \in Request
      BY <1>a, <1>d, <1>h, <2>2
    <3>1. CASE m_inputPPQ.active
      <4>1. m_inputPPQ' \in Queue(Request) /\ Gets(m_inputPPQ, m_inputPPQ', again)
        BY <1>m, <2>2, <3>0, QueueGets
      <4>2. SpentInput(job) = <<>>
        BY <3>0 DEF SpentInput
      <4>3. SpentInput(job) \o <<>> = <<>>
        BY <4>2
      <4>4. releaseSuperBufs(<<>>)
        BY <2>2, <3>1, <4>3
      <4>5. UNCHANGED <<home, queued>>
        BY <1>0, <4>4, NothingReleased
      <4>6. ChTypeOK'
        BY <1>0, <4>5 DEF ChTypeOK
      <4>7. dataCmds' = Append(dataCmds, "next") /\ dataCmds' \in Seq(Command)
        BY <1>l, <2>2, <3>1
      <4>8. Second
        BY <1>c, <1>e, <2>2, <3>0, <3>1, <4>1, <4>5, <4>7 DEF Gets
      <4> QED BY <1>m, <2>2, <4>1, <4>6, <4>7, <4>8
    <3>2. CASE ~m_inputPPQ.active
      <4>1. m_inputPPQ' = m_inputPPQ /\ dataCmds' = dataCmds /\ releaseSuperBufs(SpentInput(job) \o releasePPInputData(again))
        BY <2>2, <3>2 DEF enqueue
      <4>2. Returned(SpentInput(job) \o releasePPInputData(again)) /\ ChTypeOK'
        BY <1>k, <1>n, <4>1
      <4>3. Closed
        BY <1>c, <1>e, <2>2, <3>0, <3>2, <4>1, <4>2
      <4> QED BY <1>l, <1>m, <2>2, <4>1, <4>2, <4>3
    <3> QED BY <3>1, <3>2
  <2>3. CASE /\ ~mode.raw /\ job.count >= mTotalNumReproc
             /\ m_inputJpegQ' = enqueue(m_inputJpegQ, jpeg)
             /\ dataCmds' = IF m_inputJpegQ.active THEN sendCmd(dataCmds, "next") ELSE dataCmds
             /\ releaseSuperBufs(SpentInput(job) \o IF m_inputJpegQ.active THEN <<>> ELSE releaseJpegJobData(jpeg))
             /\ UNCHANGED <<m_inputPPQ, m_inputRawQ>>
    <3>1. CASE m_inputJpegQ.active
      <4>1. m_inputJpegQ' \in Queue(JpegJob) /\ Gets(m_inputJpegQ, m_inputJpegQ', jpeg)
        BY <1>g, <1>m, <2>3, QueueGets
      <4>2. releaseSuperBufs(SpentInput(job))
        BY <1>j, <1>o, <2>3, <3>1
      <4>3. Returned(SpentInput(job)) /\ ChTypeOK'
        BY <1>j, <1>n, <4>2
      <4>4. dataCmds' = Append(dataCmds, "next") /\ dataCmds' \in Seq(Command)
        BY <1>l, <2>3, <3>1
      <4>5. Jpeg
        BY <1>c, <1>e, <2>3, <3>1, <4>1, <4>3, <4>4 DEF Gets
      <4> QED BY <1>m, <2>3, <4>1, <4>3, <4>4, <4>5
    <3>2. CASE ~m_inputJpegQ.active
      <4>1. m_inputJpegQ' = m_inputJpegQ /\ dataCmds' = dataCmds /\ releaseSuperBufs(SpentInput(job) \o releaseJpegJobData(jpeg))
        BY <2>3, <3>2 DEF enqueue
      <4>2. Returned(SpentInput(job) \o releaseJpegJobData(jpeg)) /\ ChTypeOK'
        BY <1>k, <1>n, <4>1
      <4>3. Closed
        BY <1>c, <1>e, <2>3, <3>2, <4>1, <4>2
      <4> QED BY <1>l, <1>m, <2>3, <4>1, <4>2, <4>3
    <3> QED BY <3>1, <3>2
  <2> QED BY <1>c, <1>f, <2>1, <2>2, <2>3, Zenon DEF processPPData
<1>q. Typed
  BY <1>p
<1> HIDE DEF Raw, Second, Jpeg, Closed
<1>1. HalTypeOK'
  BY <1>0 DEF processPPData, halVars, ongoing, saveVars, noteVars, HalTypeOK
<1>2. ChTypeOK'
  BY <1>q
<1>3. HandTypeOK'
  BY <1>0 DEF processPPData, halVars, ongoing, saveVars, noteVars, HandTypeOK
<1>4. QueueTypeOK'
  BY <1>0, <1>b, <1>q DEF QueueTypeOK
<1>5. ThreadTypeOK'
  BY <1>0, <1>b, <1>q DEF ThreadTypeOK
<1>6. NoteTypeOK'
  BY <1>0 DEF processPPData, halVars, ongoing, saveVars, noteVars, NoteTypeOK
<1>7. processPPDataDoes(i)
  BY <1>a, <1>b, <1>p, Zenon DEF processPPDataDoes, Raw, Second, Jpeg, Closed
<1> QED BY <1>1, <1>2, <1>3, <1>4, <1>5, <1>6, <1>7 DEF TypeOK

LEMMA DataStartEffect ==
  ASSUME TypeOK, DataStart
  PROVE  TypeOK' /\ DataStartDoes
<1>0. HalTypeOK /\ ChTypeOK /\ HandTypeOK /\ QueueTypeOK /\ ThreadTypeOK /\ NoteTypeOK
  BY DEF TypeOK
<1>a. UNCHANGED <<hal, mode, clean, mTotalNumReproc, wanted, told, evt_queue, frameTh, ppTh, reproc, home, queued,
                  m_ongoingJpegQ, save, saveSync, m_inputSaveQ, encoding, note, noteCmds, mDataQ>>
      /\ dataSync' = dataSync + 1
  BY DEF DataStart, halVars, frameVars, chVars, noteVars
<1>b. /\ data.at = "wait" /\ dataCmds # <<>> /\ dataCmds[1] = "start" /\ dataCmds' = Tail(dataCmds)
      /\ dataCmds' \in Seq(Command)
  BY <1>0, DataTaken DEF DataStart
<1>c. data' \in DataType /\ data'.at = data.at /\ data'.active = TRUE /\ data'.id = data.id
  <2>1. data \in DataType /\ data' = [data EXCEPT !.active = TRUE]
    BY <1>0 DEF ThreadTypeOK, DataStart
  <2> QED BY <2>1, DataActive
<1>d. m_inputPPQ' \in Queue(Request) /\ m_inputPPQ'.active = TRUE /\ m_inputPPQ'.list = m_inputPPQ.list
  <2>1. m_inputPPQ \in Queue(Request) /\ m_inputPPQ' = init(m_inputPPQ)
    BY <1>0 DEF QueueTypeOK, DataStart
  <2> QED BY <2>1, QueueOpened
<1>e. m_ongoingPPQ' \in Queue(Ongoing) /\ m_ongoingPPQ'.active = TRUE /\ m_ongoingPPQ'.list = m_ongoingPPQ.list
  <2>1. m_ongoingPPQ \in Queue(Ongoing) /\ m_ongoingPPQ' = init(m_ongoingPPQ)
    BY <1>0 DEF QueueTypeOK, DataStart
  <2> QED BY <2>1, QueueOpened
<1>f. m_inputJpegQ' \in Queue(JpegJob) /\ m_inputJpegQ'.active = TRUE /\ m_inputJpegQ'.list = m_inputJpegQ.list
  <2>1. m_inputJpegQ \in Queue(JpegJob) /\ m_inputJpegQ' = init(m_inputJpegQ)
    BY <1>0 DEF QueueTypeOK, DataStart
  <2> QED BY <2>1, QueueOpened
<1>g. m_inputRawQ' \in Queue(Buffer) /\ m_inputRawQ'.active = TRUE /\ m_inputRawQ'.list = m_inputRawQ.list
  <2>1. m_inputRawQ \in Queue(Buffer) /\ m_inputRawQ' = init(m_inputRawQ)
    BY <1>0 DEF QueueTypeOK, DataStart
  <2> QED BY <2>1, QueueOpened
<1>h. saveCmds' = Append(saveCmds, "start") /\ saveCmds' \in Seq(Command)
  <2>1. saveCmds \in Seq(Command) /\ "start" \in Command /\ saveCmds' = sendCmd(saveCmds, "start")
    BY <1>0 DEF ThreadTypeOK, DataStart, Command
  <2> QED BY <2>1, CommandsTyped
<1>1. HalTypeOK'
  BY <1>0 DEF DataStart, DataTakes, halVars, frameVars, chVars, noteVars, HalTypeOK
<1>2. ChTypeOK'
  BY <1>0 DEF DataStart, DataTakes, halVars, frameVars, chVars, noteVars, ChTypeOK
<1>3. HandTypeOK'
  BY <1>0 DEF DataStart, DataTakes, halVars, frameVars, chVars, noteVars, HandTypeOK
<1>4. QueueTypeOK'
  BY <1>0, <1>a, <1>d, <1>e, <1>f, <1>g DEF QueueTypeOK
<1>5. ThreadTypeOK'
  BY <1>0, <1>a, <1>b, <1>c, <1>h DEF ThreadTypeOK
<1>6. NoteTypeOK'
  BY <1>0 DEF DataStart, DataTakes, halVars, frameVars, chVars, noteVars, NoteTypeOK
<1>7. DataStartDoes
  BY <1>a, <1>b, <1>c, <1>d, <1>e, <1>f, <1>g, <1>h DEF DataStartDoes
<1> QED BY <1>1, <1>2, <1>3, <1>4, <1>5, <1>6, <1>7 DEF TypeOK

LEMMA DataStoppedEffect ==
  ASSUME TypeOK, DataStopped
  PROVE  TypeOK' /\ DataStoppedDoes
<1>0. HalTypeOK /\ ChTypeOK /\ HandTypeOK /\ QueueTypeOK /\ ThreadTypeOK /\ NoteTypeOK
  BY DEF TypeOK
<1>a. /\ UNCHANGED <<hal, mode, clean, mTotalNumReproc, wanted, told, evt_queue, frameTh, ppTh, reproc, dataCmds, save,
                     saveCmds, m_inputSaveQ, note, noteCmds, mDataQ>>
      /\ data.at = "saveStop" /\ saveSync > 0 /\ saveSync' = saveSync - 1 /\ dataSync' = dataSync + 1
      /\ encoding' = encoding \ {m_ongoingJpegQ.list[k].id : k \in DOMAIN m_ongoingJpegQ.list}
  BY DEF DataStopped, halVars, frameVars, noteVars
<1>b. m_inputPPQ \in Queue(Request) /\ m_ongoingPPQ \in Queue(Ongoing) /\ m_inputJpegQ \in Queue(JpegJob)
      /\ m_ongoingJpegQ \in Queue(JpegJob) /\ m_inputRawQ \in Queue(Buffer)
  BY <1>0 DEF QueueTypeOK
<1>c. data' \in DataType /\ data'.at = "wait" /\ data'.active = data.active /\ data'.id = data.id
  <2>1. data \in DataType /\ "wait" \in DataPlaces /\ data' = [data EXCEPT !.at = "wait"]
    BY <1>0 DEF ThreadTypeOK, DataStopped, DataPlaces
  <2> QED BY <2>1, DataAt
<1>d. m_inputPPQ' \in Queue(Request) /\ m_inputPPQ'.active = FALSE /\ m_inputPPQ'.list = <<>>
  <2>1. m_inputPPQ' = flush(m_inputPPQ)
    BY DEF DataStopped
  <2> QED BY <1>b, <2>1, QueueOpened
<1>e. m_ongoingPPQ' \in Queue(Ongoing) /\ m_ongoingPPQ'.active = FALSE /\ m_ongoingPPQ'.list = <<>>
  <2>1. m_ongoingPPQ' = flush(m_ongoingPPQ)
    BY DEF DataStopped
  <2> QED BY <1>b, <2>1, QueueOpened
<1>f. m_inputJpegQ' \in Queue(JpegJob) /\ m_inputJpegQ'.active = FALSE /\ m_inputJpegQ'.list = <<>>
  <2>1. m_inputJpegQ' = flush(m_inputJpegQ)
    BY DEF DataStopped
  <2> QED BY <1>b, <2>1, QueueOpened
<1>g. m_inputRawQ' \in Queue(Buffer) /\ m_inputRawQ'.active = FALSE /\ m_inputRawQ'.list = <<>>
  <2>1. m_inputRawQ' = flush(m_inputRawQ)
    BY DEF DataStopped
  <2> QED BY <1>b, <2>1, QueueOpened
<1>h. m_ongoingJpegQ' \in Queue(JpegJob) /\ m_ongoingJpegQ'.active = TRUE /\ m_ongoingJpegQ'.list = <<>>
  BY DEF DataStopped, Empty, Queue
<1>i. Dropped \in Seq(Back) /\ Returned(Dropped) /\ ChTypeOK'
  <2>1. m_inputPPQ.list \in Seq(PPJob) /\ m_ongoingPPQ.list \in Seq(PPJob)
    <3>1. m_inputPPQ.list \in Seq(Request) /\ m_ongoingPPQ.list \in Seq(Ongoing)
      BY <1>b, QueueFields
    <3>2. Request \subseteq PPJob /\ Ongoing \subseteq PPJob
      BY DEF Request, Ongoing, PPJob
    <3> QED BY <3>1, <3>2
  <2>2. m_inputJpegQ.list \in Seq(JpegJob) /\ m_ongoingJpegQ.list \in Seq(JpegJob) /\ m_inputRawQ.list \in Seq(Buffer)
    BY <1>b, QueueFields
  <2>3. m_inputRawQ.list \in Seq(Back)
    BY <2>2 DEF Back
  <2>4. JpegsOf(m_ongoingJpegQ.list) \in Seq(Back) /\ JpegsOf(m_inputJpegQ.list) \in Seq(Back)
    BY <2>2, JpegsReleased
  <2>5. InputsOf(m_ongoingPPQ.list) \in Seq(Back) /\ InputsOf(m_inputPPQ.list) \in Seq(Back)
    BY <2>1, InputsReleased
  <2>6. \A s, t \in Seq(Back) : s \o t \in Seq(Back)
    BY ConcatProperties
  <2>7. Dropped \in Seq(Back)
    BY <2>3, <2>4, <2>5, <2>6 DEF Dropped
  <2>8. releaseSuperBufs(Dropped)
    BY DEF DataStopped, Dropped
  <2> QED BY <1>0, <2>7, <2>8, ReleaseReturns, ReturnTyped
<1>j. encoding' \in SUBSET Nat /\ IsFiniteSet(encoding')
  <2>1. encoding \in SUBSET Nat /\ IsFiniteSet(encoding) /\ encoding' \subseteq encoding
    BY <1>0, <1>a DEF ThreadTypeOK
  <2> QED BY <2>1, FS_Subset
<1>k. saveSync' \in Nat /\ dataSync' \in Nat
  BY <1>0, <1>a DEF ThreadTypeOK
<1>1. HalTypeOK'
  BY <1>0 DEF DataStopped, halVars, frameVars, noteVars, HalTypeOK
<1>2. ChTypeOK'
  BY <1>i
<1>3. HandTypeOK'
  BY <1>0 DEF DataStopped, halVars, frameVars, noteVars, HandTypeOK
<1>4. QueueTypeOK'
  BY <1>0, <1>a, <1>d, <1>e, <1>f, <1>g, <1>h DEF QueueTypeOK
<1>5. ThreadTypeOK'
  BY <1>0, <1>a, <1>c, <1>j, <1>k DEF ThreadTypeOK
<1>6. NoteTypeOK'
  BY <1>0 DEF DataStopped, halVars, frameVars, noteVars, NoteTypeOK
<1>7. DataStoppedDoes
  BY <1>a, <1>c, <1>d, <1>e, <1>f, <1>g, <1>h, <1>i DEF DataStoppedDoes
<1> QED BY <1>1, <1>2, <1>3, <1>4, <1>5, <1>6, <1>7 DEF TypeOK

LEMMA DataNextEffect ==
  ASSUME TypeOK, DataNext
  PROVE  TypeOK' /\ DataNextDoes
<1>0. HalTypeOK /\ ChTypeOK /\ HandTypeOK /\ QueueTypeOK /\ ThreadTypeOK /\ NoteTypeOK
  BY DEF TypeOK
<1>a. UNCHANGED <<hal, mode, clean, mTotalNumReproc, wanted, told, evt_queue, frameTh, ppTh, reproc, home, queued,
                  m_inputPPQ, m_inputRawQ, m_ongoingPPQ, dataSync, save, saveCmds, saveSync, m_inputSaveQ, encoding,
                  note, noteCmds, mDataQ>>
  BY DEF DataNext, halVars, frameVars, chVars, saveVars, noteVars
<1>b. /\ data.at = "wait" /\ dataCmds # <<>> /\ dataCmds[1] = "next" /\ dataCmds' = Tail(dataCmds)
      /\ dataCmds' \in Seq(Command)
  BY <1>0, DataTaken DEF DataNext
<1>c. data \in DataType /\ m_ongoingJpegQ \in Queue(JpegJob) /\ m_inputJpegQ \in Queue(JpegJob)
  BY <1>0 DEF ThreadTypeOK, QueueTypeOK
<1>d. "encode" \in DataPlaces /\ "raw" \in DataPlaces /\ "reproc" \in DataPlaces /\ "wait" \in DataPlaces
  BY DEF DataPlaces
<1>e. ASSUME data.active /\ HasNext(m_inputJpegQ)
      PROVE  /\ data' \in DataType /\ data'.at = "encode" /\ data'.active = data.active /\ data'.id = data.id
             /\ Gets(m_ongoingJpegQ, m_ongoingJpegQ', m_inputJpegQ.list[1]) /\ Loses(m_inputJpegQ, m_inputJpegQ')
             /\ m_ongoingJpegQ' \in Queue(JpegJob) /\ m_inputJpegQ' \in Queue(JpegJob)
  <2>1. /\ m_ongoingJpegQ' = enqueue(m_ongoingJpegQ, peek(m_inputJpegQ)) /\ m_inputJpegQ' = dequeue(m_inputJpegQ)
        /\ data' = [data EXCEPT !.at = "encode"]
    BY <1>e DEF DataNext
  <2>2. m_inputJpegQ.list # <<>>
    BY <1>e DEF HasNext
  <2>3. peek(m_inputJpegQ) = m_inputJpegQ.list[1] /\ peek(m_inputJpegQ) \in JpegJob
    BY <1>c, <2>2, QueueShrunk
  <2>4. m_inputJpegQ' \in Queue(JpegJob) /\ Loses(m_inputJpegQ, m_inputJpegQ')
    BY <1>c, <2>1, <2>2, QueueLoses
  <2>5. m_ongoingJpegQ' \in Queue(JpegJob) /\ Gets(m_ongoingJpegQ, m_ongoingJpegQ', peek(m_inputJpegQ))
    BY <1>c, <2>1, <2>3, QueueGets
  <2>6. data' \in DataType /\ data'.at = "encode" /\ data'.active = data.active /\ data'.id = data.id
    BY <1>c, <1>d, <2>1, DataAt
  <2> QED BY <2>3, <2>4, <2>5, <2>6
<1>f. ASSUME ~(data.active /\ HasNext(m_inputJpegQ))
      PROVE  /\ data' \in DataType /\ data'.active = data.active /\ data'.id = data.id
             /\ \/ data.active /\ HasNext(m_inputRawQ) /\ data'.at = "raw"
                \/ data.active /\ ~HasNext(m_inputRawQ) /\ CanReprocess /\ data'.at = "reproc"
                \/ ~(data.active /\ (HasNext(m_inputRawQ) \/ CanReprocess)) /\ data'.at = "wait"
             /\ UNCHANGED <<m_ongoingJpegQ, m_inputJpegQ>>
  <2>1. /\ data' = [data EXCEPT !.at = IF data.active /\ (HasNext(m_inputRawQ) \/ CanReprocess)
                                       THEN AfterEncode ELSE "wait"]
        /\ UNCHANGED <<m_ongoingJpegQ, m_inputJpegQ>>
    BY <1>f DEF DataNext
  <2>2. PICK x : x = IF data.active /\ (HasNext(m_inputRawQ) \/ CanReprocess) THEN AfterEncode ELSE "wait"
    OBVIOUS
  <2>3. \/ data.active /\ HasNext(m_inputRawQ) /\ x = "raw"
        \/ data.active /\ ~HasNext(m_inputRawQ) /\ CanReprocess /\ x = "reproc"
        \/ ~(data.active /\ (HasNext(m_inputRawQ) \/ CanReprocess)) /\ x = "wait"
    BY <2>2, Zenon DEF AfterEncode
  <2>4. x \in DataPlaces /\ data' = [data EXCEPT !.at = x]
    BY <1>d, <2>1, <2>2, <2>3
  <2>5. data' \in DataType /\ data'.at = x /\ data'.active = data.active /\ data'.id = data.id
    BY <1>c, <2>4, DataAt
  <2> QED BY <2>1, <2>3, <2>5, Zenon
<1>g. data' \in DataType /\ m_ongoingJpegQ' \in Queue(JpegJob) /\ m_inputJpegQ' \in Queue(JpegJob)
      /\ data'.active = data.active /\ data'.id = data.id
  BY <1>c, <1>e, <1>f
<1>1. HalTypeOK'
  BY <1>0 DEF DataNext, DataTakes, halVars, frameVars, chVars, saveVars, noteVars, HalTypeOK
<1>2. ChTypeOK'
  BY <1>0 DEF DataNext, DataTakes, halVars, frameVars, chVars, saveVars, noteVars, ChTypeOK
<1>3. HandTypeOK'
  BY <1>0 DEF DataNext, DataTakes, halVars, frameVars, chVars, saveVars, noteVars, HandTypeOK
<1>4. QueueTypeOK'
  BY <1>0, <1>a, <1>g DEF QueueTypeOK
<1>5. ThreadTypeOK'
  BY <1>0, <1>a, <1>b, <1>g DEF ThreadTypeOK
<1>6. NoteTypeOK'
  BY <1>0 DEF DataNext, DataTakes, halVars, frameVars, chVars, saveVars, noteVars, NoteTypeOK
<1>7. DataNextDoes
  BY <1>a, <1>b, <1>e, <1>f, <1>g, Zenon DEF DataNextDoes
<1> QED BY <1>1, <1>2, <1>3, <1>4, <1>5, <1>6, <1>7 DEF TypeOK

LEMMA encodeDataEffect ==
  ASSUME TypeOK, Busy, encodeData
  PROVE  TypeOK' /\ encodeDataDoes
<1>0. HalTypeOK /\ ChTypeOK /\ HandTypeOK /\ QueueTypeOK /\ ThreadTypeOK /\ NoteTypeOK
  BY DEF TypeOK
<1>a. /\ data.at = "encode"
      /\ UNCHANGED <<hal, mode, clean, mTotalNumReproc, wanted, evt_queue, frameTh, ppTh, reproc, m_inputPPQ, m_inputJpegQ,
                     m_inputRawQ, m_ongoingPPQ, dataCmds, dataSync, save, saveCmds, saveSync, m_inputSaveQ, note, noteCmds,
                     mDataQ>>
  BY DEF encodeData, halVars, frameVars, inputs, saveVars, noteVars
<1>b. data \in DataType /\ m_ongoingJpegQ \in Queue(JpegJob) /\ told \in BOOLEAN /\ ChTypeOK
      /\ encoding \in SUBSET Nat /\ IsFiniteSet(encoding)
  BY <1>0, Zenon DEF ThreadTypeOK, QueueTypeOK, HalTypeOK
<1>c. AfterEncode \in DataPlaces /\ "record" \in DataPlaces
  BY DEF AfterEncode, DataPlaces
<1> DEFINE Typed == /\ data' \in DataType /\ m_ongoingJpegQ' \in Queue(JpegJob) /\ told' \in BOOLEAN /\ ChTypeOK'
                    /\ encoding' \in SUBSET Nat /\ IsFiniteSet(encoding')
           Taken == \E id \in Nat \ {0} :
                      /\ id \notin UsedIds /\ encoding' = encoding \cup {id} /\ data'.at = "record" /\ data'.id = id
                      /\ UNCHANGED <<m_ongoingJpegQ, home, queued, told>>
           Refused == /\ mode.fails /\ ~told /\ told' = TRUE /\ data'.at = AfterEncode /\ data'.id = data.id
                      /\ m_ongoingJpegQ.list # <<>> /\ m_ongoingJpegQ'.active = m_ongoingJpegQ.active
                      /\ m_ongoingJpegQ'.list = RemoveAt(m_ongoingJpegQ.list, Len(m_ongoingJpegQ.list))
                      /\ Returned(releaseJpegJobData(m_ongoingJpegQ.list[Len(m_ongoingJpegQ.list)]))
                      /\ encoding' = encoding
<1>d. (Taken \/ Refused) /\ data'.active = data.active /\ Typed
  <2>1. ASSUME NEW id \in 1 .. MaxJobs \ UsedIds, encoding' = encoding \cup {id},
               data' = [data EXCEPT !.at = "record", !.id = id], UNCHANGED <<m_ongoingJpegQ, chVars, told>>
        PROVE  Taken /\ data'.active = data.active /\ Typed
    <3>1. id \in Nat \ {0} /\ id \notin UsedIds
      BY <2>1, BoundsAssumption
    <3>2. data' \in DataType /\ data'.at = "record" /\ data'.active = data.active /\ data'.id = id
      <4>1. PICK x \in DataPlaces : x = "record"
        BY <1>c
      <4>2. data' = [data EXCEPT !.at = x, !.id = id] /\ id \in Nat
        BY <2>1, <3>1, <4>1
      <4>3. data \in DataType
        BY <1>b
      <4>4. data' \in DataType /\ data'.at = x /\ data'.active = data.active /\ data'.id = id
        BY <4>1, <4>2, <4>3 DEF DataType, DataPlaces
      <4> QED BY <4>1, <4>4
    <3>3. IsFiniteSet(encoding')
      <4>1. IsFiniteSet(encoding \cup {id})
        BY <1>b, FS_AddElement
      <4> QED BY <2>1, <4>1
    <3>4. encoding' \in SUBSET Nat
      BY <1>b, <2>1, <3>1
    <3>5. UNCHANGED <<m_ongoingJpegQ, home, queued, told>>
      BY <2>1 DEF chVars
    <3>6. ChTypeOK'
      BY <1>b, <3>5 DEF ChTypeOK
    <3>7. told' \in BOOLEAN /\ m_ongoingJpegQ' \in Queue(JpegJob)
      BY <1>b, <3>5, Zenon
    <3>8. Taken
      BY <2>1, <3>1, <3>2, <3>5
    <3> QED BY <3>2, <3>3, <3>4, <3>6, <3>7, <3>8, Zenon
  <2>2. ASSUME mode.fails, ~told, data' = [data EXCEPT !.at = AfterEncode], told' = TRUE,
               m_ongoingJpegQ' = dequeueLast(m_ongoingJpegQ),
               releaseSuperBufs(releaseJpegJobData(Last(m_ongoingJpegQ.list))), UNCHANGED encoding
        PROVE  Refused /\ data'.active = data.active /\ Typed
    <3>1. m_ongoingJpegQ.list # <<>>
      BY <1>a DEF Busy
    <3>2. /\ m_ongoingJpegQ' \in Queue(JpegJob) /\ m_ongoingJpegQ'.active = m_ongoingJpegQ.active
          /\ m_ongoingJpegQ'.list = RemoveAt(m_ongoingJpegQ.list, Len(m_ongoingJpegQ.list))
          /\ Last(m_ongoingJpegQ.list) = m_ongoingJpegQ.list[Len(m_ongoingJpegQ.list)]
          /\ Last(m_ongoingJpegQ.list) \in JpegJob
      BY <1>b, <2>2, <3>1, QueueShrunk
    <3>3. releaseJpegJobData(Last(m_ongoingJpegQ.list)) \in Seq(Back)
      BY <3>2, JpegReleased
    <3>4. Returned(releaseJpegJobData(m_ongoingJpegQ.list[Len(m_ongoingJpegQ.list)])) /\ ChTypeOK'
      BY <1>b, <2>2, <3>2, <3>3, ReleaseReturns, ReturnTyped
    <3>5. data' \in DataType /\ data'.at = AfterEncode /\ data'.active = data.active /\ data'.id = data.id
      <4>1. PICK x \in DataPlaces : x = AfterEncode
        BY <1>c
      <4>2. data' = [data EXCEPT !.at = x]
        BY <2>2, <4>1
      <4> QED BY <1>b, <4>1, <4>2, DataAt
    <3>6. told' \in BOOLEAN
      BY <2>2, Zenon
    <3>7. Refused
      BY <2>2, <3>1, <3>2, <3>4, <3>5
    <3> QED BY <1>b, <2>2, <3>2, <3>4, <3>5, <3>6, <3>7, Zenon
  <2> QED BY <2>1, <2>2, Zenon DEF encodeData
<1>e. Typed
  BY <1>d
<1> HIDE DEF Taken, Refused
<1>1. HalTypeOK'
  BY <1>0, <1>a, <1>e DEF HalTypeOK
<1>2. ChTypeOK'
  BY <1>e
<1>3. HandTypeOK'
  BY <1>0 DEF encodeData, halVars, frameVars, chVars, inputs, saveVars, noteVars, HandTypeOK
<1>4. QueueTypeOK'
  BY <1>0, <1>a, <1>e DEF QueueTypeOK
<1>5. ThreadTypeOK'
  BY <1>0, <1>a, <1>e DEF ThreadTypeOK
<1>6. NoteTypeOK'
  BY <1>0 DEF encodeData, halVars, frameVars, chVars, inputs, saveVars, noteVars, NoteTypeOK
<1>7. encodeDataDoes
  BY <1>a, <1>d, Zenon DEF encodeDataDoes, Taken, Refused
<1> QED BY <1>1, <1>2, <1>3, <1>4, <1>5, <1>6, <1>7 DEF TypeOK

LEMMA RecordJobEffect ==
  ASSUME TypeOK, Busy, RecordJob
  PROVE  TypeOK' /\ RecordJobDoes
<1>0. HalTypeOK /\ ChTypeOK /\ HandTypeOK /\ QueueTypeOK /\ ThreadTypeOK /\ NoteTypeOK
  BY DEF TypeOK
<1>a. /\ data.at = "record"
      /\ UNCHANGED <<hal, mode, clean, mTotalNumReproc, wanted, told, evt_queue, frameTh, ppTh, reproc, home, queued,
                     m_inputPPQ, m_inputJpegQ, m_inputRawQ, m_ongoingPPQ, dataCmds, dataSync, save, saveCmds, saveSync,
                     m_inputSaveQ, encoding, note, noteCmds, mDataQ>>
  BY DEF RecordJob, halVars, frameVars, chVars, inputs, saveVars, noteVars
<1>b. data \in DataType /\ m_ongoingJpegQ \in Queue(JpegJob) /\ m_ongoingJpegQ.list # <<>> /\ data.id \in Nat
  BY <1>0, <1>a DEF ThreadTypeOK, QueueTypeOK, Busy, DataType
<1>c. AfterEncode \in DataPlaces
  BY DEF AfterEncode, DataPlaces
<1>d. data' \in DataType /\ data'.at = AfterEncode /\ data'.id = 0 /\ data'.active = data.active
  <2>1. PICK x \in DataPlaces : x = AfterEncode
    BY <1>c
  <2>2. PICK z \in Nat : z = 0
    OBVIOUS
  <2>3. data' = [data EXCEPT !.at = x, !.id = z]
    BY <2>1, <2>2 DEF RecordJob
  <2>4. data' \in DataType /\ data'.at = x /\ data'.active = data.active /\ data'.id = z
    BY <1>b, <2>1, <2>2, <2>3 DEF DataType, DataPlaces
  <2> QED BY <2>1, <2>2, <2>4
<1> DEFINE list == m_ongoingJpegQ.list
           n == Len(list)
           job == [list[n] EXCEPT !.id = data.id]
           l == [list EXCEPT ![n] = job]
<1>e. list \in Seq(JpegJob) /\ n \in DOMAIN list /\ list[n] \in JpegJob
  <2>1. list \in Seq(JpegJob)
    BY <1>b, QueueFields
  <2>2. n \in 1 .. Len(list)
    BY <1>b, <2>1
  <2> QED BY <2>1, <2>2
<1>f. job \in JpegJob /\ job.src = list[n].src /\ job.orig = list[n].orig /\ job.id = data.id
  <2>1. PICK j, d : j = list[n] /\ d = data.id
    OBVIOUS
  <2>2. [j EXCEPT !.id = d] \in JpegJob /\ [j EXCEPT !.id = d].src = j.src /\ [j EXCEPT !.id = d].orig = j.orig
        /\ [j EXCEPT !.id = d].id = d
    BY <1>b, <1>e, <2>1 DEF JpegJob
  <2> QED BY <2>1, <2>2
<1>g. m_ongoingJpegQ' = [m_ongoingJpegQ EXCEPT !.list = l]
  <2>1. m_ongoingJpegQ' = [m_ongoingJpegQ EXCEPT !.list[Len(m_ongoingJpegQ.list)].id = data.id]
    BY DEF RecordJob
  <2> QED BY <1>b, <2>1 DEF Queue
<1> HIDE DEF job
<1>h. l \in Seq(JpegJob) /\ Len(l) = Len(list) /\ \A k \in DOMAIN list : l[k] = IF k = n THEN job ELSE list[k]
  BY <1>e, <1>f
<1> HIDE DEF l
<1>i. m_ongoingJpegQ' \in Queue(JpegJob) /\ m_ongoingJpegQ'.active = m_ongoingJpegQ.active /\ m_ongoingJpegQ'.list = l
  BY <1>b, <1>g, <1>h, QueueChanged
<1>j. \A k \in DOMAIN list : /\ l[k].src = list[k].src /\ l[k].orig = list[k].orig
                             /\ l[k].id = IF k = n THEN data.id ELSE list[k].id
  BY <1>f, <1>h
<1>1. HalTypeOK'
  BY <1>0 DEF RecordJob, halVars, frameVars, chVars, inputs, saveVars, noteVars, HalTypeOK
<1>2. ChTypeOK'
  BY <1>0 DEF RecordJob, halVars, frameVars, chVars, inputs, saveVars, noteVars, ChTypeOK
<1>3. HandTypeOK'
  BY <1>0 DEF RecordJob, halVars, frameVars, chVars, inputs, saveVars, noteVars, HandTypeOK
<1>4. QueueTypeOK'
  BY <1>0, <1>a, <1>i DEF QueueTypeOK
<1>5. ThreadTypeOK'
  BY <1>0, <1>a, <1>d DEF ThreadTypeOK
<1>6. NoteTypeOK'
  BY <1>0 DEF RecordJob, halVars, frameVars, chVars, inputs, saveVars, noteVars, NoteTypeOK
<1>7. RecordJobDoes
  BY <1>a, <1>b, <1>d, <1>h, <1>i, <1>j DEF RecordJobDoes
<1> QED BY <1>1, <1>2, <1>3, <1>4, <1>5, <1>6, <1>7 DEF TypeOK

LEMMA ProcessRawEffect ==
  ASSUME TypeOK, Busy, ProcessRaw
  PROVE  TypeOK' /\ ProcessRawDoes
<1>0. HalTypeOK /\ ChTypeOK /\ HandTypeOK /\ QueueTypeOK /\ ThreadTypeOK /\ NoteTypeOK
  BY DEF TypeOK
<1>a. /\ data.at = "raw"
      /\ UNCHANGED <<hal, mode, clean, mTotalNumReproc, wanted, evt_queue, frameTh, ppTh, reproc, m_inputPPQ, m_inputJpegQ,
                     m_ongoingPPQ, m_ongoingJpegQ, dataCmds, dataSync, save, saveCmds, saveSync, m_inputSaveQ, encoding,
                     note>>
  BY DEF ProcessRaw, halVars, frameVars, ongoing, saveVars
<1>b. /\ data \in DataType /\ m_inputRawQ \in Queue(Buffer) /\ m_inputRawQ.list # <<>> /\ noteCmds \in Seq(Command)
      /\ mDataQ \in Seq({None} \cup ZslBuffer) /\ "next" \in Command /\ "reproc" \in DataPlaces
  BY <1>0, <1>a DEF ThreadTypeOK, QueueTypeOK, NoteTypeOK, Busy, Command, DataPlaces
<1>c. data' \in DataType /\ data'.at = "reproc" /\ data'.active = data.active /\ data'.id = data.id
  <2>1. data' = [data EXCEPT !.at = "reproc"]
    BY DEF ProcessRaw
  <2> QED BY <1>b, <2>1, DataAt
<1>d. m_inputRawQ' \in Queue(Buffer) /\ Loses(m_inputRawQ, m_inputRawQ')
  <2>1. m_inputRawQ' = dequeue(m_inputRawQ)
    BY DEF ProcessRaw
  <2> QED BY <1>b, <2>1, QueueLoses
<1>e. peek(m_inputRawQ) = m_inputRawQ.list[1] /\ m_inputRawQ.list[1] \in Buffer
  BY <1>b, QueueShrunk
<1>f. PICK b \in Buffer : b = m_inputRawQ.list[1]
  BY <1>e
<1>g. PICK x \in {None} \cup ZslBuffer : x = IF b.ch = 0 THEN b ELSE None
  BY NoneApart DEF Buffer, ZslBuffer
<1>h. told \in BOOLEAN
  BY <1>0, Zenon DEF HalTypeOK
<1> DEFINE Typed == ChTypeOK' /\ told' \in BOOLEAN /\ mDataQ' \in Seq({None} \cup ZslBuffer) /\ noteCmds' \in Seq(Command)
           Given == /\ mDataQ' = Append(mDataQ, IF m_inputRawQ.list[1].ch = 0 THEN m_inputRawQ.list[1] ELSE None)
                    /\ noteCmds' = Append(noteCmds, "next") /\ UNCHANGED <<home, queued, told>>
           Failed == /\ mode.fails /\ ~told /\ told' = TRUE /\ Returned(<<m_inputRawQ.list[1]>>)
                     /\ UNCHANGED <<noteCmds, mDataQ>>
<1>i. (Given \/ Failed) /\ Typed
  <2>1. CASE sendDataNotify(IF peek(m_inputRawQ).ch = 0 THEN peek(m_inputRawQ) ELSE None) /\ UNCHANGED <<chVars, told>>
    <3>1. mDataQ' = Append(mDataQ, x) /\ noteCmds' = sendCmd(noteCmds, "next") /\ UNCHANGED <<home, queued, told>>
      BY <1>e, <1>f, <1>g, <2>1 DEF sendDataNotify, chVars
    <3>2. noteCmds' = Append(noteCmds, "next") /\ noteCmds' \in Seq(Command)
      BY <1>b, <3>1, CommandsTyped
    <3>3. mDataQ' \in Seq({None} \cup ZslBuffer)
      BY <1>b, <3>1
    <3>4. told' \in BOOLEAN
      BY <1>h, <3>1, Zenon
    <3>5. ChTypeOK'
      BY <1>0, <3>1 DEF ChTypeOK
    <3>6. Given
      BY <1>f, <1>g, <3>1, <3>2
    <3> QED BY <3>2, <3>3, <3>4, <3>5, <3>6, Zenon
  <2>2. CASE /\ mode.fails /\ ~told
             /\ releaseSuperBufs(<<peek(m_inputRawQ)>>) /\ told' = TRUE
             /\ UNCHANGED <<noteCmds, mDataQ>>
    <3>1. <<b>> \in Seq(Back) /\ releaseSuperBufs(<<b>>)
      BY <1>e, <1>f, <2>2 DEF Back
    <3>2. Returned(<<b>>) /\ ChTypeOK'
      BY <1>0, <3>1, ReleaseReturns, ReturnTyped
    <3>3. told' \in BOOLEAN
      BY <2>2, Zenon
    <3>4. Failed
      BY <1>f, <2>2, <3>2
    <3> QED BY <1>b, <2>2, <3>2, <3>3, <3>4, Zenon
  <2> QED BY <2>1, <2>2, Zenon DEF ProcessRaw
<1>j. Typed
  BY <1>i
<1> HIDE DEF Given, Failed
<1>1. HalTypeOK'
  BY <1>0, <1>a, <1>j DEF HalTypeOK
<1>2. ChTypeOK'
  BY <1>j
<1>3. HandTypeOK'
  BY <1>0 DEF ProcessRaw, halVars, frameVars, chVars, ongoing, saveVars, HandTypeOK
<1>4. QueueTypeOK'
  BY <1>0, <1>a, <1>d DEF QueueTypeOK
<1>5. ThreadTypeOK'
  BY <1>0, <1>a, <1>c DEF ThreadTypeOK
<1>6. NoteTypeOK'
  BY <1>0, <1>a, <1>j DEF NoteTypeOK
<1>7. ProcessRawDoes
  BY <1>a, <1>c, <1>d, <1>e, <1>i, Zenon DEF ProcessRawDoes, Given, Failed
<1> QED BY <1>1, <1>2, <1>3, <1>4, <1>5, <1>6, <1>7 DEF TypeOK

LEMMA doReprocessEffect ==
  ASSUME TypeOK, doReprocess
  PROVE  TypeOK' /\ doReprocessDoes
<1>0. HalTypeOK /\ ChTypeOK /\ HandTypeOK /\ QueueTypeOK /\ ThreadTypeOK /\ NoteTypeOK
  BY DEF TypeOK
<1>a. /\ data.at = "reproc"
      /\ UNCHANGED <<hal, mode, clean, mTotalNumReproc, wanted, evt_queue, frameTh, ppTh, home, queued, m_inputJpegQ,
                     m_inputRawQ, m_ongoingJpegQ, dataCmds, dataSync, save, saveCmds, saveSync, m_inputSaveQ, encoding,
                     note, noteCmds, mDataQ>>
  BY DEF doReprocess, halVars, chVars, saveVars, noteVars
<1>b. /\ data \in DataType /\ m_inputPPQ \in Queue(Request) /\ m_ongoingPPQ \in Queue(Ongoing)
      /\ reproc \in [Passes -> Seq(Buffer)] /\ told \in BOOLEAN /\ "wait" \in DataPlaces
  BY <1>0, Zenon DEF ThreadTypeOK, QueueTypeOK, HandTypeOK, HalTypeOK, DataPlaces
<1>c. data' \in DataType /\ data'.at = "wait" /\ data'.active = data.active /\ data'.id = data.id
  <2>1. data' = [data EXCEPT !.at = "wait"]
    BY DEF doReprocess
  <2> QED BY <1>b, <2>1, DataAt
<1> DEFINE Typed == /\ m_inputPPQ' \in Queue(Request) /\ m_ongoingPPQ' \in Queue(Ongoing)
                    /\ reproc' \in [Passes -> Seq(Buffer)] /\ told' \in BOOLEAN
           Rests == ~CanReprocess /\ UNCHANGED <<m_inputPPQ, m_ongoingPPQ, reproc, told>>
           Works ==
             /\ CanReprocess /\ m_inputPPQ.active /\ Loses(m_inputPPQ, m_inputPPQ') /\ m_inputPPQ.list[1] \in Request
             /\ Gets(m_ongoingPPQ, m_ongoingPPQ', Passed(m_inputPPQ.list[1]))
             /\ \/ /\ reproc' = [reproc EXCEPT ![m_inputPPQ.list[1].count + 1] = Append(@, m_inputPPQ.list[1].src)]
                   /\ told' = told
                \/ mode.fails /\ ~told /\ told' = TRUE /\ reproc' = reproc
<1>d. (Rests \/ Works) /\ Typed
  <2>1. CASE ~CanReprocess
    <3>1. UNCHANGED <<m_inputPPQ, m_ongoingPPQ, reproc, told>>
      BY <2>1 DEF doReprocess
    <3>2. told' \in BOOLEAN
      BY <1>b, <3>1, Zenon
    <3> QED BY <1>b, <2>1, <3>1, <3>2, Zenon
  <2>2. CASE CanReprocess
    <3>1. m_inputPPQ.active /\ m_inputPPQ.list # <<>>
      BY <2>2 DEF CanReprocess, HasNext
    <3>2. PICK job : job = peek(m_inputPPQ)
      OBVIOUS
    <3>3. job = m_inputPPQ.list[1] /\ job \in Request
      BY <1>b, <3>1, <3>2, QueueShrunk
    <3>4. PICK pass : pass = job.count + 1
      OBVIOUS
    <3>5. pass \in Passes /\ pass \in 1 .. 2 /\ job.src \in Buffer /\ job.orig \in ZslBuffer
      BY <3>3, <3>4 DEF Request, Passes
    <3>6. /\ m_inputPPQ' = dequeue(m_inputPPQ)
          /\ m_ongoingPPQ' = enqueue(m_ongoingPPQ, [job EXCEPT !.count = pass])
          /\ \/ reproc' = [reproc EXCEPT ![pass] = Append(@, job.src)] /\ UNCHANGED told
             \/ mode.fails /\ ~told /\ told' = TRUE /\ UNCHANGED reproc
      BY <2>2, <3>2, <3>4 DEF doReprocess
    <3>7. m_inputPPQ' \in Queue(Request) /\ Loses(m_inputPPQ, m_inputPPQ')
      BY <1>b, <3>1, <3>6, QueueLoses
    <3>8. [job EXCEPT !.count = pass] = Passed(job) /\ Passed(job) \in Ongoing
      <4>1. [job EXCEPT !.count = pass] = [src |-> job.src, orig |-> job.orig, count |-> pass]
        BY <3>3 DEF Request
      <4>2. [src |-> job.src, orig |-> job.orig, count |-> pass] \in Ongoing
        BY <3>5 DEF Ongoing
      <4> QED BY <3>4, <4>1, <4>2 DEF Passed
    <3>9. m_ongoingPPQ' \in Queue(Ongoing) /\ Gets(m_ongoingPPQ, m_ongoingPPQ', Passed(job))
      BY <1>b, <3>6, <3>8, QueueGets
    <3>10. reproc' \in [Passes -> Seq(Buffer)]
      <4>1. CASE reproc' = [reproc EXCEPT ![pass] = Append(@, job.src)]
        <5>1. Append(reproc[pass], job.src) \in Seq(Buffer)
          BY <1>b, <3>5
        <5> QED BY <1>b, <4>1, <5>1
      <4>2. CASE reproc' = reproc
        BY <1>b, <4>2
      <4> QED BY <3>6, <4>1, <4>2
    <3>11. told' \in BOOLEAN
      BY <1>b, <3>6, Zenon
    <3>12. Works
      BY <2>2, <3>1, <3>3, <3>4, <3>6, <3>7, <3>9
    <3> QED BY <3>7, <3>9, <3>10, <3>11, <3>12, Zenon
  <2> QED BY <2>1, <2>2
<1>e. Typed
  BY <1>d
<1> HIDE DEF Rests, Works
<1>1. HalTypeOK'
  BY <1>0, <1>a, <1>e DEF HalTypeOK
<1>2. ChTypeOK'
  BY <1>0 DEF doReprocess, halVars, chVars, saveVars, noteVars, ChTypeOK
<1>3. HandTypeOK'
  BY <1>0, <1>a, <1>e DEF HandTypeOK
<1>4. QueueTypeOK'
  BY <1>0, <1>a, <1>e DEF QueueTypeOK
<1>5. ThreadTypeOK'
  BY <1>0, <1>a, <1>c DEF ThreadTypeOK
<1>6. NoteTypeOK'
  BY <1>0 DEF doReprocess, halVars, chVars, saveVars, noteVars, NoteTypeOK
<1>7. doReprocessDoes
  BY <1>a, <1>c, <1>d, Zenon DEF doReprocessDoes, Rests, Works
<1> QED BY <1>1, <1>2, <1>3, <1>4, <1>5, <1>6, <1>7 DEF TypeOK

LEMMA SaveStepEffect ==
  ASSUME TypeOK, SaveStep
  PROVE  TypeOK' /\ SaveStepDoes
<1>0. HalTypeOK /\ ChTypeOK /\ HandTypeOK /\ QueueTypeOK /\ ThreadTypeOK /\ NoteTypeOK
  BY DEF TypeOK
<1>a. /\ saveCmds # <<>> /\ saveCmds' = Tail(saveCmds)
      /\ UNCHANGED <<hal, mode, clean, mTotalNumReproc, wanted, told, evt_queue, frameTh, ppTh, reproc, m_inputPPQ,
                     m_inputJpegQ, m_inputRawQ, m_ongoingPPQ, data, dataCmds, dataSync, encoding, note>>
  BY DEF SaveStep, halVars, frameVars, inputs, dataVars
<1>b. /\ saveCmds \in Seq(Command) /\ noteCmds \in Seq(Command) /\ mDataQ \in Seq({None} \cup ZslBuffer)
      /\ m_inputSaveQ \in Queue(Nat) /\ m_ongoingJpegQ \in Queue(JpegJob) /\ saveSync \in Nat /\ save \in BOOLEAN
      /\ ChTypeOK /\ "next" \in Command
  BY <1>0, Zenon DEF ThreadTypeOK, NoteTypeOK, QueueTypeOK, Command
<1>c. saveCmds' \in Seq(Command) /\ Head(saveCmds) = saveCmds[1]
  BY <1>a, <1>b, HeadTail
<1> DEFINE Typed == /\ ChTypeOK' /\ m_ongoingJpegQ' \in Queue(JpegJob) /\ m_inputSaveQ' \in Queue(Nat)
                    /\ save' \in BOOLEAN /\ saveSync' \in Nat
                    /\ noteCmds' \in Seq(Command) /\ mDataQ' \in Seq({None} \cup ZslBuffer)
           Begins == /\ saveCmds[1] = "start" /\ save' = TRUE /\ m_inputSaveQ'.active
                     /\ m_inputSaveQ'.list = m_inputSaveQ.list
                     /\ UNCHANGED <<saveSync, m_ongoingJpegQ, home, queued, noteCmds, mDataQ>>
           Ends == /\ saveCmds[1] = "stop" /\ save' = FALSE /\ ~m_inputSaveQ'.active /\ m_inputSaveQ'.list = <<>>
                   /\ saveSync' = saveSync + 1
                   /\ UNCHANGED <<m_ongoingJpegQ, home, queued, noteCmds, mDataQ>>
           Rests == /\ saveCmds[1] = "next" /\ ~HasNext(m_inputSaveQ)
                    /\ UNCHANGED <<save, saveSync, m_inputSaveQ, m_ongoingJpegQ, home, queued, noteCmds, mDataQ>>
           Works == /\ saveCmds[1] = "next" /\ m_inputSaveQ.active /\ Loses(m_inputSaveQ, m_inputSaveQ')
                    /\ Flushed(m_inputSaveQ.list[1])
                    /\ \/ mDataQ' = Append(mDataQ, None) /\ noteCmds' = Append(noteCmds, "next")
                       \/ UNCHANGED <<noteCmds, mDataQ>>
                    /\ UNCHANGED <<save, saveSync>>
<1>d. (Begins \/ Ends \/ Rests \/ Works) /\ Typed
  <2>1. CASE /\ Head(saveCmds) = "start" /\ save' = TRUE /\ m_inputSaveQ' = init(m_inputSaveQ)
             /\ UNCHANGED <<saveSync, m_ongoingJpegQ, chVars, noteCmds, mDataQ>>
    <3>1. m_inputSaveQ' \in Queue(Nat) /\ m_inputSaveQ'.active = TRUE /\ m_inputSaveQ'.list = m_inputSaveQ.list
      BY <1>b, <2>1, QueueOpened
    <3>2. UNCHANGED <<saveSync, m_ongoingJpegQ, home, queued, noteCmds, mDataQ>>
      BY <2>1 DEF chVars
    <3>3. ChTypeOK'
      BY <1>b, <3>2 DEF ChTypeOK
    <3>4. save' \in BOOLEAN
      BY <2>1, Zenon
    <3>5. Begins
      BY <1>c, <2>1, <3>1, <3>2
    <3> QED BY <1>b, <3>1, <3>2, <3>3, <3>4, <3>5, Zenon
  <2>2. CASE /\ Head(saveCmds) = "stop" /\ save' = FALSE /\ m_inputSaveQ' = flush(m_inputSaveQ)
             /\ saveSync' = saveSync + 1 /\ UNCHANGED <<m_ongoingJpegQ, chVars, noteCmds, mDataQ>>
    <3>1. m_inputSaveQ' \in Queue(Nat) /\ m_inputSaveQ'.active = FALSE /\ m_inputSaveQ'.list = <<>>
      BY <1>b, <2>2, QueueOpened
    <3>2. UNCHANGED <<m_ongoingJpegQ, home, queued, noteCmds, mDataQ>> /\ saveSync' \in Nat
      BY <1>b, <2>2 DEF chVars
    <3>3. ChTypeOK'
      BY <1>b, <3>2 DEF ChTypeOK
    <3>4. save' \in BOOLEAN
      BY <2>2, Zenon
    <3>5. Ends
      BY <1>c, <2>2, <3>1, <3>2
    <3> QED BY <1>b, <3>1, <3>2, <3>3, <3>4, <3>5, Zenon
  <2>3. CASE /\ Head(saveCmds) = "next" /\ ~HasNext(m_inputSaveQ)
             /\ UNCHANGED <<save, saveSync, m_inputSaveQ, m_ongoingJpegQ, chVars, noteCmds, mDataQ>>
    <3>2. UNCHANGED <<save, saveSync, m_inputSaveQ, m_ongoingJpegQ, home, queued, noteCmds, mDataQ>>
      BY <2>3 DEF chVars
    <3>3. ChTypeOK'
      BY <1>b, <3>2 DEF ChTypeOK
    <3>5. Rests
      BY <1>c, <2>3, <3>2
    <3> QED BY <1>b, <3>2, <3>3, <3>5, Zenon
  <2>4. CASE /\ Head(saveCmds) = "next" /\ HasNext(m_inputSaveQ)
             /\ m_inputSaveQ' = dequeue(m_inputSaveQ) /\ flushNodes(peek(m_inputSaveQ))
             /\ IF save THEN sendDataNotify(None) ELSE UNCHANGED <<noteCmds, mDataQ>>
             /\ UNCHANGED <<save, saveSync>>
    <3>1. m_inputSaveQ.active /\ m_inputSaveQ.list # <<>>
      BY <2>4 DEF HasNext
    <3>2. m_inputSaveQ' \in Queue(Nat) /\ Loses(m_inputSaveQ, m_inputSaveQ')
      BY <1>b, <2>4, <3>1, QueueLoses
    <3>3. peek(m_inputSaveQ) = m_inputSaveQ.list[1]
      BY <1>b, <3>1, QueueShrunk
    <3>4. Flushed(m_inputSaveQ.list[1]) /\ m_ongoingJpegQ' \in Queue(JpegJob) /\ ChTypeOK'
      BY <2>4, <3>3, FlushFlushes
    <3>5. /\ \/ mDataQ' = Append(mDataQ, None) /\ noteCmds' = Append(noteCmds, "next")
             \/ UNCHANGED <<noteCmds, mDataQ>>
          /\ noteCmds' \in Seq(Command) /\ mDataQ' \in Seq({None} \cup ZslBuffer)
      <4>1. sendCmd(noteCmds, "next") = Append(noteCmds, "next") /\ sendCmd(noteCmds, "next") \in Seq(Command)
        BY <1>b, CommandsTyped
      <4>2. Append(mDataQ, None) \in Seq({None} \cup ZslBuffer)
        BY <1>b
      <4> QED BY <1>b, <2>4, <4>1, <4>2 DEF sendDataNotify
    <3>6. Works
      BY <1>c, <2>4, <3>1, <3>2, <3>4, <3>5
    <3> QED BY <1>b, <2>4, <3>2, <3>4, <3>5, <3>6, Zenon
  <2> QED BY <2>1, <2>2, <2>3, <2>4, Zenon DEF SaveStep
<1>e. Typed
  BY <1>d
<1> HIDE DEF Begins, Ends, Rests, Works
<1>1. HalTypeOK'
  BY <1>0 DEF SaveStep, halVars, frameVars, chVars, inputs, dataVars, HalTypeOK
<1>2. ChTypeOK'
  BY <1>e
<1>3. HandTypeOK'
  BY <1>0 DEF SaveStep, halVars, frameVars, chVars, inputs, dataVars, HandTypeOK
<1>4. QueueTypeOK'
  BY <1>0, <1>a, <1>e DEF QueueTypeOK
<1>5. ThreadTypeOK'
  BY <1>0, <1>a, <1>c, <1>e DEF ThreadTypeOK
<1>6. NoteTypeOK'
  BY <1>0, <1>a, <1>e DEF NoteTypeOK
<1>7. SaveStepDoes
  BY <1>a, <1>d, Zenon DEF SaveStepDoes, Begins, Ends, Rests, Works
<1> QED BY <1>1, <1>2, <1>3, <1>4, <1>5, <1>6, <1>7 DEF TypeOK

LEMMA NoteStopEffect ==
  ASSUME TypeOK, NoteStop
  PROVE  TypeOK' /\ NoteStopDoes
<1>0. HalTypeOK /\ ChTypeOK /\ HandTypeOK /\ QueueTypeOK /\ ThreadTypeOK /\ NoteTypeOK
  BY DEF TypeOK
<1>a. UNCHANGED <<hal, mode, clean, mTotalNumReproc, wanted, told, evt_queue, frameTh, ppTh, reproc, m_inputPPQ,
                  m_inputJpegQ, m_inputRawQ, m_ongoingPPQ, m_ongoingJpegQ, data, dataCmds, dataSync, save, saveCmds,
                  saveSync, m_inputSaveQ, encoding>>
  BY DEF NoteStop, halVars, frameVars, inputs, ongoing, dataVars, saveVars
<1>b. /\ note.at = "wait" /\ noteCmds # <<>> /\ noteCmds[1] = "stop" /\ noteCmds' = Tail(noteCmds)
      /\ noteCmds' \in Seq(Command)
  BY <1>0, NoteTaken DEF NoteStop
<1>c. /\ note' \in NoteType /\ note'.at = note.at /\ note'.hand = note.hand /\ note'.active = FALSE
      /\ note'.expected = 0 /\ note'.rcvd = 0
  <2>1. note \in NoteType /\ note' = [note EXCEPT !.active = FALSE, !.expected = 0, !.rcvd = 0]
    BY <1>0 DEF NoteTypeOK, NoteStop
  <2> QED BY <2>1, NoteEnded
<1>d. mDataQ' = <<>> /\ mDataQ' \in Seq({None} \cup ZslBuffer) /\ mDataQ \in Seq(Back)
  <2>1. mDataQ \in Seq({None} \cup ZslBuffer) /\ mDataQ' = <<>>
    BY <1>0 DEF NoteTypeOK, NoteStop
  <2>2. {None} \cup ZslBuffer \subseteq Back
    BY NoneApart DEF Back
  <2> QED BY <2>1, <2>2
<1>e. Returned(mDataQ) /\ ChTypeOK'
  <2>1. releaseSuperBufs(mDataQ)
    BY DEF NoteStop
  <2> QED BY <1>0, <1>d, <2>1, ReleaseReturns, ReturnTyped
<1>1. HalTypeOK'
  BY <1>0 DEF NoteStop, NoteTakes, halVars, frameVars, inputs, ongoing, dataVars, saveVars, HalTypeOK
<1>2. ChTypeOK'
  BY <1>e
<1>3. HandTypeOK'
  BY <1>0 DEF NoteStop, NoteTakes, halVars, frameVars, inputs, ongoing, dataVars, saveVars, HandTypeOK
<1>4. QueueTypeOK'
  BY <1>0 DEF NoteStop, NoteTakes, halVars, frameVars, inputs, ongoing, dataVars, saveVars, QueueTypeOK
<1>5. ThreadTypeOK'
  BY <1>0 DEF NoteStop, NoteTakes, halVars, frameVars, inputs, ongoing, dataVars, saveVars, ThreadTypeOK
<1>6. NoteTypeOK'
  BY <1>b, <1>c, <1>d DEF NoteTypeOK
<1>7. NoteStopDoes
  BY <1>a, <1>b, <1>c, <1>d, <1>e DEF NoteStopDoes
<1> QED BY <1>1, <1>2, <1>3, <1>4, <1>5, <1>6, <1>7 DEF TypeOK

LEMMA NoteNextEffect ==
  ASSUME TypeOK, NoteNext
  PROVE  TypeOK' /\ NoteNextDoes
<1>0. HalTypeOK /\ ChTypeOK /\ HandTypeOK /\ QueueTypeOK /\ ThreadTypeOK /\ NoteTypeOK
  BY DEF TypeOK
<1>a. UNCHANGED <<hal, mode, clean, mTotalNumReproc, wanted, told, frameTh, ppTh, reproc, m_inputPPQ,
                  m_inputJpegQ, m_inputRawQ, m_ongoingPPQ, m_ongoingJpegQ, data, dataCmds, dataSync, save, saveCmds,
                  saveSync, m_inputSaveQ, encoding>>
  BY DEF NoteNext, halVars, frameVars, inputs, ongoing, dataVars, saveVars
<1>b. /\ note.at = "wait" /\ noteCmds # <<>> /\ noteCmds[1] = "next" /\ noteCmds' = Tail(noteCmds)
      /\ noteCmds' \in Seq(Command)
  BY <1>0, NoteTaken DEF NoteNext
<1>c. note \in NoteType /\ mDataQ \in Seq({None} \cup ZslBuffer) /\ evt_queue \in Seq(Event) /\ note.rcvd \in Nat
  BY <1>0, NoteFields DEF NoteTypeOK, HalTypeOK
<1> DEFINE Typed == note' \in NoteType /\ mDataQ' \in Seq({None} \cup ZslBuffer) /\ evt_queue' \in Seq(Event) /\ ChTypeOK'
           None_ == mDataQ = <<>> /\ UNCHANGED <<note, mDataQ, evt_queue, home, queued>>
           Last_ == /\ mDataQ # <<>> /\ mDataQ' = Tail(mDataQ) /\ Counts /\ IsLast
                    /\ evt_queue' = Append(evt_queue, [kind |-> "done", id |-> 0, ok |-> TRUE])
                    /\ note'.at = "sync" /\ note'.rcvd = note.rcvd + 1 /\ note'.hand = mDataQ[1]
                    /\ note'.active = note.active
                    /\ note'.longshot = note.longshot /\ note'.expected = note.expected
                    /\ UNCHANGED <<home, queued>>
           More == /\ mDataQ # <<>> /\ mDataQ' = Tail(mDataQ) /\ ~(Counts /\ IsLast)
                   /\ note'.at = "wait" /\ note'.hand = note.hand /\ note'.active = note.active
                   /\ note'.longshot = note.longshot /\ note'.expected = note.expected
                   /\ note'.rcvd = IF Counts THEN note.rcvd + 1 ELSE note.rcvd
                   /\ <<mDataQ[1]>> \in Seq(Back) /\ Returned(<<mDataQ[1]>>) /\ UNCHANGED evt_queue
<1>d. (None_ \/ Last_ \/ More) /\ Typed
  <2>1. CASE mDataQ = <<>> /\ UNCHANGED <<note, mDataQ, evt_queue, chVars>>
    <3>1. UNCHANGED <<note, mDataQ, evt_queue, home, queued>>
      BY <2>1 DEF chVars
    <3>2. ChTypeOK'
      BY <1>0, <3>1 DEF ChTypeOK
    <3> QED BY <1>c, <2>1, <3>1, <3>2, Zenon
  <2>2. CASE mDataQ # <<>> /\ mDataQ' = Tail(mDataQ)
             /\ IF Counts /\ IsLast
                THEN /\ evt_queue' = Append(evt_queue, [kind |-> "done", id |-> 0, ok |-> TRUE])
                     /\ note' = [note EXCEPT !.at = "sync", !.rcvd = @ + 1, !.hand = Head(mDataQ)]
                     /\ UNCHANGED chVars
                ELSE /\ note' = [note EXCEPT !.rcvd = IF Counts THEN @ + 1 ELSE @]
                     /\ Return(Head(mDataQ)) /\ UNCHANGED evt_queue
    <3>1. mDataQ' \in Seq({None} \cup ZslBuffer) /\ Head(mDataQ) = mDataQ[1] /\ mDataQ[1] \in {None} \cup ZslBuffer
      BY <1>c, <2>2, HeadTail
    <3>2. PICK h \in {None} \cup ZslBuffer : h = mDataQ[1] /\ h = Head(mDataQ)
      BY <3>1
    <3>3. CASE Counts /\ IsLast
      <4>1. /\ evt_queue' = Append(evt_queue, [kind |-> "done", id |-> 0, ok |-> TRUE])
            /\ note' = [note EXCEPT !.at = "sync", !.rcvd = @ + 1, !.hand = h]
            /\ UNCHANGED <<home, queued>>
        BY <2>2, <3>2, <3>3 DEF chVars
      <4>2. /\ note' \in NoteType /\ note'.at = "sync" /\ note'.hand = h /\ note'.rcvd = note.rcvd + 1
            /\ note'.active = note.active /\ note'.longshot = note.longshot /\ note'.expected = note.expected
        <5>1. PICK r \in Nat : r = note.rcvd + 1
          BY <1>c
        <5>2. note' = [note EXCEPT !.at = "sync", !.rcvd = r, !.hand = h]
          BY <1>c, <4>1, <5>1
        <5>3. /\ note' \in NoteType /\ note'.at = "sync" /\ note'.hand = h /\ note'.rcvd = r
              /\ note'.active = note.active /\ note'.longshot = note.longshot /\ note'.expected = note.expected
          BY <1>c, <3>2, <5>2 DEF NoteType
        <5> QED BY <5>1, <5>3
      <4>3. ChTypeOK'
        BY <1>0, <4>1 DEF ChTypeOK
      <4>4. [kind |-> "done", id |-> 0, ok |-> TRUE] \in Event
        BY DEF Event
      <4>5. evt_queue' \in Seq(Event)
        BY <1>c, <4>1, <4>4
      <4>6. Last_
        BY <2>2, <3>2, <3>3, <4>1, <4>2
      <4> QED BY <3>1, <4>2, <4>3, <4>5, <4>6
    <3>4. CASE ~(Counts /\ IsLast)
      <4>1. PICK r : r = IF Counts THEN note.rcvd + 1 ELSE note.rcvd
        OBVIOUS
      <4>2. /\ note' = [note EXCEPT !.rcvd = r] /\ r \in Nat
            /\ releaseSuperBufs(<<h>>) /\ evt_queue' = evt_queue
        BY <1>c, <2>2, <3>2, <3>4, <4>1 DEF Return
      <4>3. /\ note' \in NoteType /\ note'.at = note.at /\ note'.hand = note.hand /\ note'.rcvd = r
            /\ note'.active = note.active /\ note'.longshot = note.longshot /\ note'.expected = note.expected
        BY <1>c, <4>2, NoteCounted
      <4>4. <<h>> \in Seq(Back)
        BY NoneApart DEF Back
      <4>5. Returned(<<h>>) /\ ChTypeOK'
        BY <1>0, <4>2, <4>4, ReleaseReturns, ReturnTyped
      <4>6. More
        BY <1>b, <2>2, <3>2, <3>4, <4>1, <4>2, <4>3, <4>4, <4>5
      <4> QED BY <1>c, <3>1, <4>2, <4>3, <4>5, <4>6
    <3> QED BY <3>3, <3>4
  <2> QED BY <2>1, <2>2, Zenon DEF NoteNext
<1>e. Typed
  BY <1>d
<1> HIDE DEF None_, Last_, More
<1>1. HalTypeOK'
  BY <1>0, <1>a, <1>e DEF HalTypeOK
<1>2. ChTypeOK'
  BY <1>e
<1>3. HandTypeOK'
  BY <1>0 DEF NoteNext, NoteTakes, halVars, frameVars, chVars, inputs, ongoing, dataVars, saveVars, HandTypeOK
<1>4. QueueTypeOK'
  BY <1>0 DEF NoteNext, NoteTakes, halVars, frameVars, chVars, inputs, ongoing, dataVars, saveVars, QueueTypeOK
<1>5. ThreadTypeOK'
  BY <1>0 DEF NoteNext, NoteTakes, halVars, frameVars, chVars, inputs, ongoing, dataVars, saveVars, ThreadTypeOK
<1>6. NoteTypeOK'
  BY <1>b, <1>e DEF NoteTypeOK
<1>7. NoteNextDoes
  BY <1>a, <1>b, <1>d, Zenon DEF NoteNextDoes, None_, Last_, More
<1> QED BY <1>1, <1>2, <1>3, <1>4, <1>5, <1>6, <1>7 DEF TypeOK

LEMMA NoteDeliveredEffect ==
  ASSUME TypeOK, NoteDelivered
  PROVE  TypeOK' /\ NoteDeliveredDoes
<1>0. HalTypeOK /\ ChTypeOK /\ HandTypeOK /\ QueueTypeOK /\ ThreadTypeOK /\ NoteTypeOK
  BY DEF TypeOK
<1>a. UNCHANGED <<hal, mode, clean, mTotalNumReproc, wanted, told, evt_queue, frameTh, ppTh, reproc, m_inputPPQ,
                  m_inputJpegQ, m_inputRawQ, m_ongoingPPQ, m_ongoingJpegQ, data, dataCmds, dataSync, save, saveCmds,
                  saveSync, m_inputSaveQ, encoding, noteCmds, mDataQ>>
      /\ note.at = "answered"
  BY DEF NoteDelivered, halVars, frameVars, inputs, ongoing, dataVars, saveVars
<1>b. note \in NoteType /\ note.hand \in {None} \cup ZslBuffer
  BY <1>0, NoteFields DEF NoteTypeOK
<1>c. /\ note' \in NoteType /\ note'.at = "wait" /\ note'.hand = None
      /\ note'.active = note.active /\ note'.longshot = note.longshot /\ note'.expected = note.expected
      /\ note'.rcvd = note.rcvd
  <2>1. note' = [note EXCEPT !.at = "wait", !.hand = None]
    BY DEF NoteDelivered
  <2> QED BY <1>b, <2>1, NoteGiven
<1>d. PICK h \in {None} \cup ZslBuffer : h = note.hand
  BY <1>b
<1>e. <<h>> \in Seq(Back) /\ releaseSuperBufs(<<h>>)
  BY <1>d, NoneApart DEF Back, NoteDelivered, Return
<1>f. Returned(<<h>>) /\ ChTypeOK'
  BY <1>0, <1>e, ReleaseReturns, ReturnTyped
<1>1. HalTypeOK'
  BY <1>0 DEF NoteDelivered, halVars, frameVars, inputs, ongoing, dataVars, saveVars, HalTypeOK
<1>2. ChTypeOK'
  BY <1>f
<1>3. HandTypeOK'
  BY <1>0 DEF NoteDelivered, halVars, frameVars, inputs, ongoing, dataVars, saveVars, HandTypeOK
<1>4. QueueTypeOK'
  BY <1>0 DEF NoteDelivered, halVars, frameVars, inputs, ongoing, dataVars, saveVars, QueueTypeOK
<1>5. ThreadTypeOK'
  BY <1>0 DEF NoteDelivered, halVars, frameVars, inputs, ongoing, dataVars, saveVars, ThreadTypeOK
<1>6. NoteTypeOK'
  BY <1>0, <1>a, <1>c DEF NoteTypeOK
<1>7. NoteDeliveredDoes
  BY <1>a, <1>c, <1>d, <1>e, <1>f DEF NoteDeliveredDoes
<1> QED BY <1>1, <1>2, <1>3, <1>4, <1>5, <1>6, <1>7 DEF TypeOK

LEMMA StartEffect ==
  ASSUME TypeOK, NEW m \in Modes, Start(m)
  PROVE  TypeOK' /\ StartDoes(m)
<1>0. HalTypeOK /\ ChTypeOK /\ HandTypeOK /\ QueueTypeOK /\ ThreadTypeOK /\ NoteTypeOK
  BY DEF TypeOK
<1>a. /\ mode \in ModeSet /\ m \in ModeSet /\ m.total \in 0 .. 2 /\ m.shots \in Nat /\ m.outs \in Nat
  BY <1>0, ModesAssumption, ModeFields DEF HalTypeOK
<1>b. dataCmds' \in Seq(Command)
  <2>1. dataCmds \in Seq(Command) /\ "start" \in Command /\ dataCmds' = sendCmd(dataCmds, "start")
    BY <1>0 DEF Start, ThreadTypeOK, Command
  <2> QED BY <2>1, CommandsTyped
<1>1. HalTypeOK'
  <2>1. hal' = "starting" /\ mode' = m /\ told' = FALSE /\ mTotalNumReproc' = m.total /\ wanted' = m.shots
        /\ evt_queue' = evt_queue
    BY DEF Start
  <2>2. clean' = (Leftovers = 0)
    BY DEF Start
  <2>3. clean' \in BOOLEAN /\ told' \in BOOLEAN
    BY <2>1, <2>2, Zenon
  <2>4. mTotalNumReproc' \in 0 .. 2 /\ wanted' \in Nat /\ mode' \in ModeSet
    BY <1>a, <2>1
  <2>5. hal' \in {"stopped", "starting", "running", "stopping"} /\ evt_queue' \in Seq(Event)
    BY <1>0, <2>1 DEF HalTypeOK
  <2> QED BY <2>3, <2>4, <2>5, Zenon DEF HalTypeOK
<1>2. ChTypeOK'
  BY <1>0, <1>a DEF Start, ChTypeOK
<1>3. HandTypeOK'
  BY <1>0 DEF Start, frameVars, inputs, ongoing, saveVars, noteVars, HandTypeOK
<1>4. QueueTypeOK'
  BY <1>0 DEF Start, frameVars, inputs, ongoing, saveVars, noteVars, QueueTypeOK
<1>5. ThreadTypeOK'
  BY <1>0, <1>b DEF Start, saveVars, ThreadTypeOK
<1>6. NoteTypeOK'
  BY <1>0 DEF Start, frameVars, inputs, ongoing, saveVars, noteVars, NoteTypeOK
<1>7. StartDoes(m)
  <2>1. /\ hal = "stopped" /\ hal' = "starting" /\ mode' = m /\ clean' = (Leftovers = 0) /\ told' = FALSE
        /\ mTotalNumReproc' = m.total /\ queued' = [i \in Passes |-> IF i <= m.total THEN m.outs ELSE 0]
        /\ wanted' = m.shots
    BY DEF Start
  <2>2. dataCmds' = Append(dataCmds, "start")
    BY DEF Start, sendCmd
  <2>u. UNCHANGED <<evt_queue, home, frameTh, ppTh, reproc, m_inputPPQ, m_ongoingPPQ, m_inputJpegQ,
                   m_ongoingJpegQ, m_inputRawQ, m_inputSaveQ, data, dataSync, save, saveCmds,
                   saveSync, encoding, note, noteCmds, mDataQ>>
    BY DEF Start, frameVars, inputs, ongoing, saveVars, noteVars
  <2> QED BY <2>u, <1>a, <2>1, <2>2 DEF StartDoes
<1> QED BY <1>1, <1>2, <1>3, <1>4, <1>5, <1>6, <1>7 DEF TypeOK

LEMMA StartedEffect ==
  ASSUME TypeOK, Started
  PROVE  TypeOK' /\ StartedDoes
<1>0. HalTypeOK /\ ChTypeOK /\ HandTypeOK /\ QueueTypeOK /\ ThreadTypeOK /\ NoteTypeOK
  BY DEF TypeOK
<1>1. HalTypeOK'
  BY <1>0 DEF Started, frameVars, chVars, inputs, ongoing, saveVars, HalTypeOK
<1>2. ChTypeOK'
  BY <1>0 DEF Started, frameVars, chVars, inputs, ongoing, saveVars, ChTypeOK
<1>3. HandTypeOK'
  BY <1>0 DEF Started, frameVars, chVars, inputs, ongoing, saveVars, HandTypeOK
<1>4. QueueTypeOK'
  BY <1>0 DEF Started, frameVars, chVars, inputs, ongoing, saveVars, QueueTypeOK
<1>5. ThreadTypeOK'
  BY <1>0 DEF Started, frameVars, chVars, inputs, ongoing, saveVars, ThreadTypeOK
<1>6. NoteTypeOK'
  <2>1. noteCmds \in Seq(Command) /\ "start" \in Command /\ noteCmds' = sendCmdFirst(noteCmds, "start")
    BY <1>0 DEF Started, NoteTypeOK, Command
  <2>2. noteCmds' \in Seq(Command)
    BY <2>1, CommandsTyped
  <2> QED BY <1>0, <2>2 DEF Started, NoteTypeOK
<1>7. StartedDoes
  <2>1. hal = "starting" /\ dataSync > 0 /\ hal' = "running" /\ dataSync' = dataSync - 1
    BY DEF Started
  <2>2. noteCmds' = <<"start">> \o noteCmds
    BY DEF Started, sendCmdFirst
  <2>u. UNCHANGED <<mode, clean, told, mTotalNumReproc, wanted, evt_queue, home, queued, frameTh,
                   ppTh, reproc, m_inputPPQ, m_ongoingPPQ, m_inputJpegQ, m_ongoingJpegQ,
                   m_inputRawQ, m_inputSaveQ, data, dataCmds, save, saveCmds, saveSync, encoding,
                   note, mDataQ>>
    BY DEF Started, frameVars, chVars, inputs, ongoing, saveVars
  <2> QED BY <2>u, <2>1, <2>2 DEF StartedDoes
<1> QED BY <1>1, <1>2, <1>3, <1>4, <1>5, <1>6, <1>7 DEF TypeOK

LEMMA CancelPictureEffect ==
  ASSUME TypeOK, CancelPicture
  PROVE  TypeOK' /\ CancelPictureDoes
<1>0. HalTypeOK /\ ChTypeOK /\ HandTypeOK /\ QueueTypeOK /\ ThreadTypeOK /\ NoteTypeOK
  BY DEF TypeOK
<1>a. noteCmds \in Seq(Command) /\ dataCmds \in Seq(Command) /\ "stop" \in Command
  BY <1>0 DEF NoteTypeOK, ThreadTypeOK, Command
<1>b. sendCmdFirst(noteCmds, "stop") \in Seq(Command) /\ sendCmdFirst(dataCmds, "stop") \in Seq(Command)
  BY <1>a, CommandsTyped
<1>1. HalTypeOK'
  BY <1>0 DEF CancelPicture, stop, frameVars, chVars, inputs, ongoing, saveVars, HalTypeOK
<1>2. ChTypeOK'
  BY <1>0 DEF CancelPicture, stop, frameVars, chVars, inputs, ongoing, saveVars, ChTypeOK
<1>3. HandTypeOK'
  BY <1>0 DEF CancelPicture, stop, frameVars, chVars, inputs, ongoing, saveVars, HandTypeOK
<1>4. QueueTypeOK'
  BY <1>0 DEF CancelPicture, stop, frameVars, chVars, inputs, ongoing, saveVars, QueueTypeOK
<1>5. ThreadTypeOK'
  BY <1>0, <1>b DEF CancelPicture, stop, saveVars, ThreadTypeOK
<1>6. NoteTypeOK'
  BY <1>0, <1>b DEF CancelPicture, stop, NoteTypeOK
<1>7. CancelPictureDoes
  <2>1. hal = "running" /\ hal' = "stopping" /\ noteCmds' = <<"stop">> \o noteCmds /\ dataCmds' = <<"stop">> \o dataCmds
    BY DEF CancelPicture, stop, sendCmdFirst
  <2>u. UNCHANGED <<mode, clean, told, mTotalNumReproc, wanted, evt_queue, home, queued, frameTh,
                   ppTh, reproc, m_inputPPQ, m_ongoingPPQ, m_inputJpegQ, m_ongoingJpegQ,
                   m_inputRawQ, m_inputSaveQ, data, dataSync, save, saveCmds, saveSync, encoding,
                   note, mDataQ>>
    BY DEF CancelPicture, frameVars, chVars, inputs, ongoing, saveVars
  <2> QED BY <2>u, <2>1 DEF CancelPictureDoes
<1> QED BY <1>1, <1>2, <1>3, <1>4, <1>5, <1>6, <1>7 DEF TypeOK

LEMMA SnapshotDoneEffect ==
  ASSUME TypeOK, SnapshotDone
  PROVE  TypeOK' /\ SnapshotDoneDoes
<1>0. HalTypeOK /\ ChTypeOK /\ HandTypeOK /\ QueueTypeOK /\ ThreadTypeOK /\ NoteTypeOK
  BY DEF TypeOK
<1>a. noteCmds \in Seq(Command) /\ dataCmds \in Seq(Command) /\ "stop" \in Command
  BY <1>0 DEF NoteTypeOK, ThreadTypeOK, Command
<1>b. sendCmdFirst(noteCmds, "stop") \in Seq(Command) /\ sendCmdFirst(dataCmds, "stop") \in Seq(Command)
  BY <1>a, CommandsTyped
<1>c. evt_queue' \in Seq(Event)
  <2>1. evt_queue \in Seq(Event) /\ evt_queue # <<>> /\ evt_queue' = Tail(evt_queue)
    BY <1>0 DEF SnapshotDone, HalTypeOK
  <2> QED BY <2>1, HeadTail
<1>d. note' \in NoteType
  <2>1. note \in NoteType
    BY <1>0 DEF NoteTypeOK
  <2>2. note' = [note EXCEPT !.at = "cancel"] \/ note' = [note EXCEPT !.at = "answered"]
    BY DEF SnapshotDone
  <2>3. "cancel" \in NotePlaces /\ "answered" \in NotePlaces
    BY DEF NotePlaces
  <2> QED BY <2>1, <2>2, <2>3, NoteAt
<1>1. HalTypeOK'
  <2>1. hal' \in {"stopped", "starting", "running", "stopping"}
    BY <1>0 DEF SnapshotDone, stop, HalTypeOK
  <2>2. UNCHANGED <<mode, clean, told, mTotalNumReproc, wanted>>
    BY DEF SnapshotDone
  <2> QED BY <1>0, <1>c, <2>1, <2>2 DEF HalTypeOK
<1>2. ChTypeOK'
  BY <1>0 DEF SnapshotDone, stop, frameVars, chVars, inputs, ongoing, saveVars, ChTypeOK
<1>3. HandTypeOK'
  BY <1>0 DEF SnapshotDone, stop, frameVars, chVars, inputs, ongoing, saveVars, HandTypeOK
<1>4. QueueTypeOK'
  BY <1>0 DEF SnapshotDone, stop, frameVars, chVars, inputs, ongoing, saveVars, QueueTypeOK
<1>5. ThreadTypeOK'
  <2>1. dataCmds' \in Seq(Command)
    BY <1>a, <1>b DEF SnapshotDone, stop
  <2> QED BY <1>0, <2>1 DEF SnapshotDone, saveVars, ThreadTypeOK
<1>6. NoteTypeOK'
  <2>1. noteCmds' \in Seq(Command) /\ mDataQ' = mDataQ
    BY <1>a, <1>b DEF SnapshotDone, stop
  <2> QED BY <1>0, <1>d, <2>1 DEF NoteTypeOK
<1>7. SnapshotDoneDoes
  <2>1. evt_queue # <<>> /\ evt_queue[1].kind = "done" /\ evt_queue' = Tail(evt_queue)
    <3>1. evt_queue \in Seq(Event) /\ evt_queue # <<>> /\ evt_queue' = Tail(evt_queue) /\ Head(evt_queue).kind = "done"
      BY <1>0 DEF SnapshotDone, HalTypeOK
    <3> QED BY <3>1, HeadTail
  <2>2. \/ /\ hal = "running" /\ hal' = "stopping" /\ note' = [note EXCEPT !.at = "cancel"]
           /\ noteCmds' = <<"stop">> \o noteCmds /\ dataCmds' = <<"stop">> \o dataCmds
        \/ hal = "stopped" /\ note' = [note EXCEPT !.at = "answered"] /\ UNCHANGED <<hal, noteCmds, dataCmds>>
    BY DEF SnapshotDone, stop, sendCmdFirst
  <2>3. ASSUME NEW x \in NotePlaces, note' = [note EXCEPT !.at = x]
        PROVE  /\ note'.at = x /\ note'.active = note.active /\ note'.longshot = note.longshot
               /\ note'.expected = note.expected /\ note'.rcvd = note.rcvd /\ note'.hand = note.hand
    <3>1. note \in NoteType
      BY <1>0 DEF NoteTypeOK
    <3> QED BY <2>3, <3>1, NoteAt
  <2>4. "cancel" \in NotePlaces /\ "answered" \in NotePlaces
    BY DEF NotePlaces
  <2>u. UNCHANGED <<mode, clean, told, mTotalNumReproc, wanted, home, queued, frameTh, ppTh, reproc,
                   m_inputPPQ, m_ongoingPPQ, m_inputJpegQ, m_ongoingJpegQ, m_inputRawQ,
                   m_inputSaveQ, data, dataSync, save, saveCmds, saveSync, encoding, mDataQ>>
    BY DEF SnapshotDone, frameVars, chVars, inputs, ongoing, saveVars
  <2> QED BY <2>u, <2>1, <2>2, <2>3, <2>4 DEF SnapshotDoneDoes
<1> QED BY <1>1, <1>2, <1>3, <1>4, <1>5, <1>6, <1>7 DEF TypeOK

LEMMA StoppedEffect ==
  ASSUME TypeOK, Stopped
  PROVE  TypeOK' /\ StoppedDoes
<1>0. HalTypeOK /\ ChTypeOK /\ HandTypeOK /\ QueueTypeOK /\ ThreadTypeOK /\ NoteTypeOK
  BY DEF TypeOK
<1>1. HalTypeOK'
  <2>1. hal' = "stopped" /\ UNCHANGED <<mode, clean, evt_queue>> /\ told' = FALSE /\ mTotalNumReproc' = 0 /\ wanted' = 0
    BY DEF Stopped
  <2>2. told' \in BOOLEAN /\ clean' \in BOOLEAN /\ mode' \in ModeSet /\ evt_queue' \in Seq(Event)
    BY <1>0, <2>1, Zenon DEF HalTypeOK
  <2>3. hal' \in {"stopped", "starting", "running", "stopping"} /\ mTotalNumReproc' \in 0 .. 2 /\ wanted' \in Nat
    BY <2>1
  <2> QED BY <2>2, <2>3, Zenon DEF HalTypeOK
<1>2. ChTypeOK'
  BY <1>0 DEF Stopped, inputs, ongoing, saveVars, ChTypeOK
<1>3. HandTypeOK'
  BY <1>0 DEF Stopped, inputs, ongoing, saveVars, HandTypeOK
<1>4. QueueTypeOK'
  BY <1>0 DEF Stopped, inputs, ongoing, saveVars, QueueTypeOK
<1>5. ThreadTypeOK'
  BY <1>0 DEF Stopped, inputs, ongoing, saveVars, ThreadTypeOK
<1>6. NoteTypeOK'
  <2>1. note \in NoteType /\ "answered" \in NotePlaces
    BY <1>0 DEF NoteTypeOK, NotePlaces
  <2>2. [note EXCEPT !.at = "answered"] \in NoteType
    BY <2>1, NoteAt
  <2>3. note' \in NoteType /\ UNCHANGED <<noteCmds, mDataQ>>
    BY <2>1, <2>2 DEF Stopped
  <2> QED BY <1>0, <2>3 DEF NoteTypeOK
<1>7. StoppedDoes
  <2>1. /\ hal = "stopping" /\ hal' = "stopped" /\ dataSync > 0 /\ dataSync' = dataSync - 1
        /\ \A i \in Passes : ppTh[i] = None
        /\ mTotalNumReproc' = 0 /\ queued' = [i \in Passes |-> 0] /\ reproc' = [i \in Passes |-> <<>>]
        /\ wanted' = 0 /\ told' = FALSE
    BY DEF Stopped
  <2>2. /\ note'.at = IF note.at = "cancel" THEN "answered" ELSE note.at
        /\ note'.active = note.active /\ note'.longshot = note.longshot
        /\ note'.expected = note.expected /\ note'.rcvd = note.rcvd /\ note'.hand = note.hand
    <3>1. note \in NoteType /\ "answered" \in NotePlaces
      BY <1>0 DEF NoteTypeOK, NotePlaces
    <3>2. CASE note.at = "cancel"
      <4>1. note' = [note EXCEPT !.at = "answered"]
        BY <3>2 DEF Stopped
      <4> QED BY <3>1, <3>2, <4>1, NoteAt
    <3>3. CASE note.at # "cancel"
      BY <3>3 DEF Stopped
    <3> QED BY <3>2, <3>3
  <2>u. UNCHANGED <<mode, clean, evt_queue, home, frameTh, ppTh, m_inputPPQ, m_ongoingPPQ,
                   m_inputJpegQ, m_ongoingJpegQ, m_inputRawQ, m_inputSaveQ, data, dataCmds, save,
                   saveCmds, saveSync, encoding, noteCmds, mDataQ>>
    BY DEF Stopped, inputs, ongoing, saveVars
  <2> QED BY <2>u, <2>1, <2>2 DEF StoppedDoes
<1> QED BY <1>1, <1>2, <1>3, <1>4, <1>5, <1>6, <1>7 DEF TypeOK

LEMMA FrameArrivesEffect ==
  ASSUME TypeOK, NEW f \in Frames, FrameArrives(f)
  PROVE  TypeOK' /\ FrameArrivesDoes(f)
<1>0. HalTypeOK /\ ChTypeOK /\ HandTypeOK /\ QueueTypeOK /\ ThreadTypeOK /\ NoteTypeOK
  BY DEF TypeOK
<1>1. HalTypeOK'
  BY <1>0 DEF FrameArrives, inputs, ongoing, dataVars, saveVars, noteVars, HalTypeOK
<1>2. ChTypeOK'
  BY <1>0 DEF FrameArrives, inputs, ongoing, dataVars, saveVars, noteVars, ChTypeOK
<1>3. HandTypeOK'
  <2>1. frameTh' = [frame |-> f, at |-> "got"] /\ UNCHANGED <<ppTh, reproc>>
    BY DEF FrameArrives
  <2>2. frameTh' \in FrameHand
    BY <2>1 DEF FrameHand
  <2> QED BY <1>0, <2>1, <2>2 DEF HandTypeOK
<1>4. QueueTypeOK'
  BY <1>0 DEF FrameArrives, inputs, ongoing, dataVars, saveVars, noteVars, QueueTypeOK
<1>5. ThreadTypeOK'
  BY <1>0 DEF FrameArrives, inputs, ongoing, dataVars, saveVars, noteVars, ThreadTypeOK
<1>6. NoteTypeOK'
  BY <1>0 DEF FrameArrives, inputs, ongoing, dataVars, saveVars, noteVars, NoteTypeOK
<1>7. FrameArrivesDoes(f)
  <2>1. /\ frameTh = None /\ wanted > 0 /\ home[f] > 0
        /\ frameTh' = [frame |-> f, at |-> "got"]
        /\ home' = [home EXCEPT ![f] = home[f] - 1]
        /\ wanted' = IF mode.longshot THEN wanted ELSE wanted - 1
    BY DEF FrameArrives
  <2>2. frameTh' \in FrameHand /\ frameTh'.frame = f /\ frameTh'.at = "got"
    BY <2>1 DEF FrameHand
  <2>u. UNCHANGED <<hal, mode, clean, told, mTotalNumReproc, evt_queue, queued, ppTh, reproc,
                   m_inputPPQ, m_ongoingPPQ, m_inputJpegQ, m_ongoingJpegQ, m_inputRawQ,
                   m_inputSaveQ, data, dataCmds, dataSync, save, saveCmds, saveSync, encoding, note,
                   noteCmds, mDataQ>>
    BY DEF FrameArrives, inputs, ongoing, dataVars, saveVars, noteVars
  <2> QED BY <2>u, <2>1, <2>2 DEF FrameArrivesDoes
<1> QED BY <1>1, <1>2, <1>3, <1>4, <1>5, <1>6, <1>7 DEF TypeOK

LEMMA processDataDoneEffect ==
  ASSUME TypeOK, processDataDone
  PROVE  TypeOK' /\ processDataDoneDoes
<1>0. HalTypeOK /\ ChTypeOK /\ HandTypeOK /\ QueueTypeOK /\ ThreadTypeOK /\ NoteTypeOK
  BY DEF TypeOK
<1>1. HalTypeOK'
  BY <1>0 DEF processDataDone, halVars, chVars, inputs, ongoing, saveVars, noteVars, HalTypeOK
<1>2. ChTypeOK'
  BY <1>0 DEF processDataDone, halVars, chVars, inputs, ongoing, saveVars, noteVars, ChTypeOK
<1>3. HandTypeOK'
  BY <1>0 DEF processDataDone, halVars, chVars, inputs, ongoing, saveVars, noteVars, HandTypeOK
<1>4. QueueTypeOK'
  BY <1>0 DEF processDataDone, halVars, chVars, inputs, ongoing, saveVars, noteVars, QueueTypeOK
<1>5. ThreadTypeOK'
  <2>1. dataCmds \in Seq(Command) /\ "next" \in Command
    BY <1>0 DEF ThreadTypeOK, Command
  <2>2. sendCmd(dataCmds, "next") \in Seq(Command)
    BY <2>1, CommandsTyped
  <2>3. dataCmds' \in Seq(Command)
    BY <2>1, <2>2 DEF processDataDone
  <2> QED BY <1>0, <2>3 DEF processDataDone, saveVars, ThreadTypeOK
<1>6. NoteTypeOK'
  BY <1>0 DEF processDataDone, halVars, chVars, inputs, ongoing, saveVars, noteVars, NoteTypeOK
<1>7. processDataDoneDoes
  <2>1. frameTh \in FrameHand /\ frameTh.at = "queued" /\ frameTh' = None
    BY <1>0 DEF processDataDone, HandTypeOK
  <2>2. dataCmds' = IF validatePostProcess(Source(frameTh.frame)) THEN Append(dataCmds, "next") ELSE dataCmds
    BY DEF processDataDone, sendCmd
  <2>u. UNCHANGED <<hal, mode, clean, told, mTotalNumReproc, wanted, evt_queue, home, queued, ppTh,
                   reproc, m_inputPPQ, m_ongoingPPQ, m_inputJpegQ, m_ongoingJpegQ, m_inputRawQ,
                   m_inputSaveQ, data, dataSync, save, saveCmds, saveSync, encoding, note, noteCmds,
                   mDataQ>>
    BY DEF processDataDone, halVars, chVars, inputs, ongoing, saveVars, noteVars
  <2> QED BY <2>u, <2>1, <2>2 DEF processDataDoneDoes
<1> QED BY <1>1, <1>2, <1>3, <1>4, <1>5, <1>6, <1>7 DEF TypeOK

LEMMA DataStopEffect ==
  ASSUME TypeOK, DataStop
  PROVE  TypeOK' /\ DataStopDoes
<1>0. HalTypeOK /\ ChTypeOK /\ HandTypeOK /\ QueueTypeOK /\ ThreadTypeOK /\ NoteTypeOK
  BY DEF TypeOK
<1>1. HalTypeOK'
  BY <1>0 DEF DataStop, DataTakes, halVars, frameVars, chVars, inputs, ongoing, noteVars, HalTypeOK
<1>2. ChTypeOK'
  BY <1>0 DEF DataStop, DataTakes, halVars, frameVars, chVars, inputs, ongoing, noteVars, ChTypeOK
<1>3. HandTypeOK'
  BY <1>0 DEF DataStop, DataTakes, halVars, frameVars, chVars, inputs, ongoing, noteVars, HandTypeOK
<1>4. QueueTypeOK'
  BY <1>0 DEF DataStop, DataTakes, halVars, frameVars, chVars, inputs, ongoing, noteVars, QueueTypeOK
<1>5. ThreadTypeOK'
  <2>1. dataCmds \in Seq(Command) /\ dataCmds # <<>> /\ dataCmds' = Tail(dataCmds) /\ data \in DataType
        /\ saveCmds \in Seq(Command) /\ "stop" \in Command
    BY <1>0 DEF DataStop, DataTakes, ThreadTypeOK, Command
  <2>2. dataCmds' \in Seq(Command)
    BY <2>1, HeadTail
  <2>3. sendCmdFirst(saveCmds, "stop") \in Seq(Command)
    BY <2>1, CommandsTyped
  <2>4. data' \in DataType
    <3>1. data' = [data EXCEPT !.active = FALSE, !.at = "saveStop"]
      BY DEF DataStop
    <3> QED BY <2>1, <3>1, DataQuiet
  <2> QED BY <1>0, <2>2, <2>3, <2>4 DEF DataStop, ThreadTypeOK
<1>6. NoteTypeOK'
  BY <1>0 DEF DataStop, DataTakes, halVars, frameVars, chVars, inputs, ongoing, noteVars, NoteTypeOK
<1>7. DataStopDoes
  <2>1. data.at = "wait" /\ dataCmds # <<>> /\ dataCmds[1] = "stop" /\ dataCmds' = Tail(dataCmds)
    BY <1>0, DataTaken DEF DataStop
  <2>2. data'.at = "saveStop" /\ data'.active = FALSE /\ data'.id = data.id
    <3>1. data \in DataType /\ data' = [data EXCEPT !.active = FALSE, !.at = "saveStop"]
      BY <1>0 DEF ThreadTypeOK, DataStop
    <3> QED BY <3>1, DataQuiet
  <2>3. saveCmds' = <<"stop">> \o saveCmds
    BY DEF DataStop, sendCmdFirst
  <2>u. UNCHANGED <<hal, mode, clean, told, mTotalNumReproc, wanted, evt_queue, home, queued,
                   frameTh, ppTh, reproc, m_inputPPQ, m_ongoingPPQ, m_inputJpegQ, m_ongoingJpegQ,
                   m_inputRawQ, m_inputSaveQ, dataSync, save, saveSync, encoding, note, noteCmds,
                   mDataQ>>
    BY DEF DataStop, halVars, frameVars, chVars, inputs, ongoing, noteVars
  <2> QED BY <2>u, <2>1, <2>2, <2>3 DEF DataStopDoes
<1> QED BY <1>1, <1>2, <1>3, <1>4, <1>5, <1>6, <1>7 DEF TypeOK

LEMMA NoteStartEffect ==
  ASSUME TypeOK, NoteStart
  PROVE  TypeOK' /\ NoteStartDoes
<1>0. HalTypeOK /\ ChTypeOK /\ HandTypeOK /\ QueueTypeOK /\ ThreadTypeOK /\ NoteTypeOK
  BY DEF TypeOK
<1>1. HalTypeOK'
  BY <1>0 DEF NoteStart, NoteTakes, halVars, frameVars, chVars, inputs, ongoing, dataVars, saveVars, HalTypeOK
<1>2. ChTypeOK'
  BY <1>0 DEF NoteStart, NoteTakes, halVars, frameVars, chVars, inputs, ongoing, dataVars, saveVars, ChTypeOK
<1>3. HandTypeOK'
  BY <1>0 DEF NoteStart, NoteTakes, halVars, frameVars, chVars, inputs, ongoing, dataVars, saveVars, HandTypeOK
<1>4. QueueTypeOK'
  BY <1>0 DEF NoteStart, NoteTakes, halVars, frameVars, chVars, inputs, ongoing, dataVars, saveVars, QueueTypeOK
<1>5. ThreadTypeOK'
  BY <1>0 DEF NoteStart, NoteTakes, halVars, frameVars, chVars, inputs, ongoing, dataVars, saveVars, ThreadTypeOK
<1>6. NoteTypeOK'
  <2>1. noteCmds \in Seq(Command) /\ noteCmds # <<>> /\ noteCmds' = Tail(noteCmds) /\ note \in NoteType
    BY <1>0 DEF NoteStart, NoteTakes, NoteTypeOK
  <2>2. noteCmds' \in Seq(Command)
    BY <2>1, HeadTail
  <2>3. mode.shots \in Nat /\ mode.longshot \in BOOLEAN
    BY <1>0, ModeFields DEF HalTypeOK
  <2>4. note' = [note EXCEPT !.active = TRUE, !.expected = mode.shots, !.longshot = mode.longshot, !.rcvd = 0]
        /\ mDataQ' = mDataQ
    BY DEF NoteStart
  <2>5. note' \in NoteType
    <3>1. PICK x, l : x = mode.shots /\ l = mode.longshot
      OBVIOUS
    <3>2. note' = [note EXCEPT !.active = TRUE, !.expected = x, !.longshot = l, !.rcvd = 0] /\ x \in Nat /\ l \in BOOLEAN
      BY <2>3, <2>4, <3>1, Zenon
    <3> QED BY <2>1, <3>2, NoteBegun
  <2> QED BY <1>0, <2>2, <2>4, <2>5 DEF NoteTypeOK
<1>7. NoteStartDoes
  <2>1. note.at = "wait" /\ noteCmds # <<>> /\ noteCmds[1] = "start" /\ noteCmds' = Tail(noteCmds)
    BY <1>0, NoteTaken DEF NoteStart
  <2>2. /\ note'.at = note.at /\ note'.hand = note.hand /\ note'.active = TRUE /\ note'.longshot = mode.longshot
        /\ note'.expected = mode.shots /\ note'.rcvd = 0
    <3>1. PICK x, l : x = mode.shots /\ l = mode.longshot
      OBVIOUS
    <3>2. mode.shots \in Nat /\ mode.longshot \in BOOLEAN /\ note \in NoteType
      BY <1>0, ModeFields DEF HalTypeOK, NoteTypeOK
    <3>3. note' = [note EXCEPT !.active = TRUE, !.expected = mode.shots, !.longshot = mode.longshot, !.rcvd = 0]
      BY DEF NoteStart
    <3>4. note' = [note EXCEPT !.active = TRUE, !.expected = x, !.longshot = l, !.rcvd = 0] /\ x \in Nat /\ l \in BOOLEAN
      BY <3>1, <3>2, <3>3, Zenon
    <3>5. /\ note'.at = note.at /\ note'.hand = note.hand /\ note'.active = TRUE /\ note'.longshot = l
          /\ note'.expected = x /\ note'.rcvd = 0
      BY <3>2, <3>4 DEF NoteType
    <3> QED BY <3>1, <3>5
  <2>u. UNCHANGED <<hal, mode, clean, told, mTotalNumReproc, wanted, evt_queue, home, queued,
                   frameTh, ppTh, reproc, m_inputPPQ, m_ongoingPPQ, m_inputJpegQ, m_ongoingJpegQ,
                   m_inputRawQ, m_inputSaveQ, data, dataCmds, dataSync, save, saveCmds, saveSync,
                   encoding, mDataQ>>
    BY DEF NoteStart, halVars, frameVars, chVars, inputs, ongoing, dataVars, saveVars
  <2> QED BY <2>u, <2>1, <2>2 DEF NoteStartDoes
<1> QED BY <1>1, <1>2, <1>3, <1>4, <1>5, <1>6, <1>7 DEF TypeOK

LEMMA JpegDoneEffect ==
  ASSUME TypeOK, NEW id \in encoding, NEW ok \in BOOLEAN, JpegDone(id, ok)
  PROVE  TypeOK' /\ JpegDoneDoes(id)
<1>0. HalTypeOK /\ ChTypeOK /\ HandTypeOK /\ QueueTypeOK /\ ThreadTypeOK /\ NoteTypeOK
  BY DEF TypeOK
<1>1. HalTypeOK'
  <2>1. evt_queue \in Seq(Event) /\ encoding \in SUBSET Nat
        /\ evt_queue' = Append(evt_queue, [kind |-> "jpeg", id |-> id, ok |-> ok])
    BY <1>0 DEF HalTypeOK, ThreadTypeOK, JpegDone
  <2>2. [kind |-> "jpeg", id |-> id, ok |-> ok] \in Event
    BY <2>1 DEF Event
  <2>3. evt_queue' \in Seq(Event)
    BY <2>1, <2>2
  <2> QED BY <1>0, <2>3 DEF JpegDone, halVars, HalTypeOK
<1>2. ChTypeOK'
  BY <1>0 DEF JpegDone, halVars, frameVars, chVars, inputs, ongoing, dataVars, saveVars, noteVars, ChTypeOK
<1>3. HandTypeOK'
  BY <1>0 DEF JpegDone, halVars, frameVars, chVars, inputs, ongoing, dataVars, saveVars, noteVars, HandTypeOK
<1>4. QueueTypeOK'
  BY <1>0 DEF JpegDone, halVars, frameVars, chVars, inputs, ongoing, dataVars, saveVars, noteVars, QueueTypeOK
<1>5. ThreadTypeOK'
  <2>1. encoding \in SUBSET Nat /\ IsFiniteSet(encoding) /\ encoding' = encoding \ {id}
    BY <1>0 DEF ThreadTypeOK, JpegDone
  <2>2. IsFiniteSet(encoding')
    BY <2>1, FS_Subset
  <2> QED BY <1>0, <2>1, <2>2 DEF JpegDone, dataVars, saveVars, ThreadTypeOK
<1>6. NoteTypeOK'
  BY <1>0 DEF JpegDone, halVars, frameVars, chVars, inputs, ongoing, dataVars, saveVars, noteVars, NoteTypeOK
<1>7. JpegDoneDoes(id)
  <2>1. id \in encoding /\ encoding' = encoding \ {id} /\ encoding \in SUBSET Nat
        /\ evt_queue' = Append(evt_queue, [kind |-> "jpeg", id |-> id, ok |-> ok])
    BY <1>0 DEF JpegDone, ThreadTypeOK
  <2>2. [kind |-> "jpeg", id |-> id, ok |-> ok] \in Event
    BY <2>1 DEF Event
  <2>3. \E e \in Event : e.kind = "jpeg" /\ e.id = id /\ evt_queue' = Append(evt_queue, e)
    BY <2>1, <2>2
  <2>u. UNCHANGED <<hal, mode, clean, told, mTotalNumReproc, wanted, home, queued, frameTh, ppTh,
                   reproc, m_inputPPQ, m_ongoingPPQ, m_inputJpegQ, m_ongoingJpegQ, m_inputRawQ,
                   m_inputSaveQ, data, dataCmds, dataSync, save, saveCmds, saveSync, note, noteCmds,
                   mDataQ>>
    BY DEF JpegDone, halVars, frameVars, chVars, inputs, ongoing, dataVars, saveVars, noteVars
  <2> QED BY <2>u, <2>1, <2>3 DEF JpegDoneDoes
<1> QED BY <1>1, <1>2, <1>3, <1>4, <1>5, <1>6, <1>7 DEF TypeOK

-----------------------------------------------------------------------------
(* Every step is one of these.                                              *)
LEMMA NextSteps ==
  ASSUME TypeOK, Busy, Next
  PROVE  TypeOK' /\ Step
<1>1. CASE \E m \in Modes : Start(m)
  BY <1>1, StartEffect DEF Step
<1>2. CASE CancelPicture
  BY <1>2, CancelPictureEffect DEF Step
<1>3. CASE HalStep
  <2>1. CASE Started
    BY <2>1, StartedEffect DEF Step
  <2>2. CASE Stopped
    BY <2>2, StoppedEffect DEF Step
  <2>3. CASE SnapshotDone
    BY <2>3, SnapshotDoneEffect DEF Step
  <2>4. CASE JpegEvent
    BY <2>4, JpegEventEffect DEF Step
  <2> QED BY <1>3, <2>1, <2>2, <2>3, <2>4 DEF HalStep
<1>4. CASE \E f \in Frames : FrameArrives(f)
  BY <1>4, FrameArrivesEffect DEF Step
<1>5. CASE FrameStep
  <2>1. CASE processData
    BY <2>1, processDataEffect DEF Step
  <2>2. CASE processDataDone
    BY <2>2, processDataDoneEffect DEF Step
  <2> QED BY <1>5, <2>1, <2>2 DEF FrameStep
<1>6. CASE \E i \in Passes : PassStep(i)
  <2>1. PICK i \in Passes : PassStep(i)
    BY <1>6
  <2>2. CASE ReprocOutput(i)
    BY <2>2, ReprocOutputEffect DEF Step
  <2>3. CASE processPPData(i)
    BY <2>3, processPPDataEffect DEF Step
  <2> QED BY <2>1, <2>2, <2>3 DEF PassStep
<1>7. CASE DataStep
  <2>1. CASE DataStart
    BY <2>1, DataStartEffect DEF Step
  <2>2. CASE DataStop
    BY <2>2, DataStopEffect DEF Step
  <2>3. CASE DataStopped
    BY <2>3, DataStoppedEffect DEF Step
  <2>4. CASE DataNext
    BY <2>4, DataNextEffect DEF Step
  <2>5. CASE encodeData
    BY <2>5, encodeDataEffect DEF Step
  <2>6. CASE RecordJob
    BY <2>6, RecordJobEffect DEF Step
  <2>7. CASE ProcessRaw
    BY <2>7, ProcessRawEffect DEF Step
  <2>8. CASE doReprocess
    BY <2>8, doReprocessEffect DEF Step
  <2> QED BY <1>7, <2>1, <2>2, <2>3, <2>4, <2>5, <2>6, <2>7, <2>8 DEF DataStep
<1>8. CASE \E id \in encoding, ok \in {TRUE, ~mode.fails \/ told} : JpegDone(id, ok)
  <2>1. PICK id \in encoding, ok \in {TRUE, ~mode.fails \/ told} : JpegDone(id, ok)
    BY <1>8
  <2>2. ok \in BOOLEAN
    BY <2>1, Zenon
  <2>3. TypeOK' /\ JpegDoneDoes(id)
    BY <2>1, <2>2, JpegDoneEffect
  <2> QED BY <2>3 DEF Step
<1>9. CASE SaveStep
  BY <1>9, SaveStepEffect DEF Step
<1>10. CASE NoteStep
  <2>1. CASE NoteStart
    BY <2>1, NoteStartEffect DEF Step
  <2>2. CASE NoteStop
    BY <2>2, NoteStopEffect DEF Step
  <2>3. CASE NoteNext
    BY <2>3, NoteNextEffect DEF Step
  <2>4. CASE NoteDelivered
    BY <2>4, NoteDeliveredEffect DEF Step
  <2> QED BY <1>10, <2>1, <2>2, <2>3, <2>4 DEF NoteStep
<1> QED BY <1>1, <1>2, <1>3, <1>4, <1>5, <1>6, <1>7, <1>8, <1>9, <1>10 DEF Next

-----------------------------------------------------------------------------
(* The commands of a thread.                                                *)
NextsOnly(s) == \A k \in DOMAIN s : s[k] = "next"
Behind(c, s) == s # <<>> /\ s[1] = c /\ \A k \in DOMAIN s : k # 1 => s[k] = "next"
OneStart(s) == \E k \in DOMAIN s : s[k] = "start" /\ \A j \in DOMAIN s : j # k => s[j] = "next"
(* t is s with more of the commands that only wake.                         *)
Longer(s, t) == t = s \/ t = Append(s, "next") \/ t = s \o <<"next">> \/ t = s \o <<"next", "next">>

LEMMA LongerFits ==
  ASSUME NEW s \in Seq(Command), NEW t, Longer(s, t)
  PROVE  /\ t \in Seq(Command) /\ Len(t) >= Len(s) /\ (s # <<>> => t # <<>>)
         /\ \A k \in DOMAIN s : k \in DOMAIN t /\ t[k] = s[k]
         /\ \A k \in DOMAIN t : k \in DOMAIN s \/ t[k] = "next"
<1>1. <<"next">> \in Seq(Command) /\ <<"next", "next">> \in Seq(Command) /\ "next" \in Command
  BY DEF Command
<1>2. CASE t = s
  BY <1>2
<1>3. CASE t = Append(s, "next")
  BY <1>1, <1>3
<1>4. ASSUME NEW u \in Seq(Command), NextsOnly(u), t = s \o u
      PROVE  /\ t \in Seq(Command) /\ Len(t) >= Len(s) /\ (s # <<>> => t # <<>>)
             /\ \A k \in DOMAIN s : k \in DOMAIN t /\ t[k] = s[k]
             /\ \A k \in DOMAIN t : k \in DOMAIN s \/ t[k] = "next"
  <2>1. /\ t \in Seq(Command) /\ Len(t) = Len(s) + Len(u)
        /\ \A k \in 1 .. Len(s) + Len(u) : t[k] = IF k <= Len(s) THEN s[k] ELSE u[k - Len(s)]
    BY <1>4, ConcatProperties
  <2>2. Len(s) \in Nat /\ Len(u) \in Nat /\ DOMAIN s = 1 .. Len(s) /\ DOMAIN t = 1 .. Len(t) /\ DOMAIN u = 1 .. Len(u)
    BY <2>1
  <2>3. \A k \in DOMAIN s : k \in DOMAIN t /\ t[k] = s[k]
    BY <2>1, <2>2
  <2>4. \A k \in DOMAIN t : k \in DOMAIN s \/ t[k] = "next"
    <3>1. ASSUME NEW k \in DOMAIN t, k \notin DOMAIN s PROVE t[k] = "next"
      <4>1. k - Len(s) \in DOMAIN u /\ t[k] = u[k - Len(s)]
        BY <2>1, <2>2, <3>1
      <4> QED BY <1>4, <4>1 DEF NextsOnly
    <3> QED BY <3>1
  <2> QED BY <2>1, <2>2, <2>3, <2>4
<1>5. NextsOnly(<<"next">>) /\ NextsOnly(<<"next", "next">>)
  BY DEF NextsOnly
<1>6. CASE t = s \o <<"next">>
  BY <1>1, <1>4, <1>5, <1>6
<1>7. CASE t = s \o <<"next", "next">>
  BY <1>1, <1>4, <1>5, <1>7
<1> QED BY <1>2, <1>3, <1>6, <1>7 DEF Longer

LEMMA LongerKeeps ==
  ASSUME NEW s \in Seq(Command), NEW t, Longer(s, t)
  PROVE  /\ NextsOnly(s) => NextsOnly(t)
         /\ OneStart(s) => OneStart(t)
         /\ \A c : Behind(c, s) => Behind(c, t)
<1>1. /\ t \in Seq(Command) /\ (s # <<>> => t # <<>>)
      /\ \A k \in DOMAIN s : k \in DOMAIN t /\ t[k] = s[k]
      /\ \A k \in DOMAIN t : k \in DOMAIN s \/ t[k] = "next"
  BY LongerFits
<1>2. NextsOnly(s) => NextsOnly(t)
  BY <1>1 DEF NextsOnly
<1>3. OneStart(s) => OneStart(t)
  BY <1>1 DEF OneStart
<1>4. ASSUME NEW c, Behind(c, s) PROVE Behind(c, t)
  <2>1. 1 \in DOMAIN s /\ s # <<>> /\ s[1] = c
    BY <1>4 DEF Behind
  <2> QED BY <1>1, <1>4, <2>1 DEF Behind
<1> QED BY <1>2, <1>3, <1>4

LEMMA TakenCommand ==
  ASSUME NEW s \in Seq(Command), s # <<>>
  PROVE  /\ NextsOnly(s) => s[1] = "next" /\ NextsOnly(Tail(s))
         /\ OneStart(s) => (s[1] = "start" /\ NextsOnly(Tail(s))) \/ (s[1] = "next" /\ OneStart(Tail(s)))
         /\ \A c : Behind(c, s) => s[1] = c /\ NextsOnly(Tail(s))
<1>1. 1 \in DOMAIN s /\ \A k \in DOMAIN Tail(s) : k + 1 \in DOMAIN s /\ Tail(s)[k] = s[k + 1] /\ k \in Nat /\ k >= 1
  BY HeadTail
<1>2. \A k \in DOMAIN s : k # 1 => k - 1 \in DOMAIN Tail(s) /\ Tail(s)[k - 1] = s[k]
  <2>1. Tail(s) \in Seq(Command) /\ Len(Tail(s)) = Len(s) - 1
    BY HeadTail
  <2>2. ASSUME NEW k \in DOMAIN s, k # 1 PROVE k - 1 \in DOMAIN Tail(s) /\ Tail(s)[k - 1] = s[k]
    <3>1. k - 1 \in DOMAIN Tail(s)
      BY <2>1, <2>2
    <3>2. Tail(s)[k - 1] = s[(k - 1) + 1] /\ (k - 1) + 1 = k
      BY <1>1, <3>1
    <3> QED BY <3>1, <3>2
  <2> QED BY <2>2
<1>3. NextsOnly(s) => s[1] = "next" /\ NextsOnly(Tail(s))
  BY <1>1 DEF NextsOnly
<1>4. ASSUME OneStart(s)
      PROVE  (s[1] = "start" /\ NextsOnly(Tail(s))) \/ (s[1] = "next" /\ OneStart(Tail(s)))
  <2>1. PICK k \in DOMAIN s : s[k] = "start" /\ \A j \in DOMAIN s : j # k => s[j] = "next"
    BY <1>4 DEF OneStart
  <2>2. CASE k = 1
    <3>1. \A j \in DOMAIN Tail(s) : j + 1 # 1
      BY <1>1
    <3>2. NextsOnly(Tail(s))
      BY <1>1, <2>1, <2>2, <3>1 DEF NextsOnly
    <3> QED BY <2>1, <2>2, <3>2
  <2>3. CASE k # 1
    <3>1. k - 1 \in DOMAIN Tail(s) /\ Tail(s)[k - 1] = "start"
      BY <1>2, <2>1, <2>3
    <3>2. ASSUME NEW j \in DOMAIN Tail(s), j # k - 1 PROVE Tail(s)[j] = "next"
      <4>1. j + 1 \in DOMAIN s /\ Tail(s)[j] = s[j + 1] /\ j + 1 # k
        BY <1>1, <2>1, <3>1, <3>2
      <4> QED BY <2>1, <4>1
    <3>3. s[1] = "next"
      BY <1>1, <2>1, <2>3
    <3> QED BY <3>1, <3>2, <3>3 DEF OneStart
  <2> QED BY <2>2, <2>3
<1>5. ASSUME NEW c, Behind(c, s) PROVE s[1] = c /\ NextsOnly(Tail(s))
  <2>1. \A j \in DOMAIN Tail(s) : j + 1 # 1
    BY <1>1
  <2> QED BY <1>1, <1>5, <2>1 DEF Behind, NextsOnly
<1> QED BY <1>3, <1>4, <1>5

LEMMA AddedCommand ==
  ASSUME NEW s \in Seq(Command), NextsOnly(s), NEW c \in Command
  PROVE  /\ Behind(c, <<c>> \o s)
         /\ c = "start" => OneStart(Append(s, c))
<1> DEFINE t == <<c>> \o s
<1>1. /\ t # <<>> /\ t[1] = c /\ DOMAIN t = 1 .. 1 + Len(s)
      /\ \A k \in 2 .. 1 + Len(s) : t[k] = s[k - 1]
  <2>1. <<c>> \in Seq(Command) /\ Len(<<c>>) = 1 /\ <<c>>[1] = c
    OBVIOUS
  <2>2. /\ t \in Seq(Command) /\ Len(t) = 1 + Len(s)
        /\ \A k \in 1 .. 1 + Len(s) : t[k] = IF k <= 1 THEN c ELSE s[k - 1]
    BY <2>1, ConcatProperties
  <2>3. Len(s) \in Nat
    OBVIOUS
  <2> HIDE DEF t
  <2> QED BY <2>2, <2>3
<1>2. Behind(c, t)
  <2>1. ASSUME NEW k \in DOMAIN t, k # 1 PROVE t[k] = "next"
    <3>1. k \in 2 .. 1 + Len(s) /\ k - 1 \in DOMAIN s
      BY <1>1, <2>1
    <3> QED BY <1>1, <3>1 DEF NextsOnly
  <2> HIDE DEF t
  <2> QED BY <1>1, <2>1 DEF Behind
<1>3. ASSUME c = "start" PROVE OneStart(Append(s, c))
  <2>1. Len(s) + 1 \in DOMAIN Append(s, c) /\ Append(s, c)[Len(s) + 1] = c
    OBVIOUS
  <2>2. \A j \in DOMAIN Append(s, c) : j # Len(s) + 1 => j \in DOMAIN s /\ Append(s, c)[j] = s[j]
    OBVIOUS
  <2> QED BY <1>3, <2>1, <2>2 DEF OneStart, NextsOnly
<1> QED BY <1>2, <1>3

-----------------------------------------------------------------------------
(* Start and stop of the data thread: what its commands, its state and the  *)
(* semaphore can be in each state of the capture.                           *)
Asleep == data.at = "wait" /\ ~data.active /\ dataSync = 0 /\ NextsOnly(dataCmds)
Awake == data.active /\ data.at # "saveStop" /\ dataSync = 0 /\ NextsOnly(dataCmds)
Waking ==
    /\ data.at = "wait"
    /\ \/ ~data.active /\ dataSync = 0 /\ OneStart(dataCmds)
       \/ data.active /\ dataSync = 1 /\ NextsOnly(dataCmds)
Ending ==
    \/ data.active /\ data.at # "saveStop" /\ dataSync = 0 /\ Behind("stop", dataCmds)
    \/ ~data.active /\ data.at = "saveStop" /\ dataSync = 0 /\ NextsOnly(dataCmds)
    \/ ~data.active /\ data.at = "wait" /\ dataSync = 1 /\ NextsOnly(dataCmds)
Phase ==
    /\ hal = "stopped" => Asleep
    /\ hal = "starting" => Waking
    /\ hal = "running" => Awake
    /\ hal = "stopping" => Ending
Wanting ==
    /\ mTotalNumReproc = IF hal = "stopped" THEN 0 ELSE mode.total
    /\ hal = "stopped" => wanted = 0
DataProtocol == Phase /\ Wanting

LEMMA DataWoken ==
  ASSUME TypeOK, Phase, Longer(dataCmds, dataCmds'), UNCHANGED <<hal, dataSync>>,
         data'.at = data.at, data'.active = data.active
  PROVE  Phase'
<1>1. /\ NextsOnly(dataCmds) => NextsOnly(dataCmds')
      /\ OneStart(dataCmds) => OneStart(dataCmds')
      /\ Behind("stop", dataCmds) => Behind("stop", dataCmds')
  BY LongerKeeps DEF TypeOK, ThreadTypeOK
<1> QED BY <1>1 DEF Phase, Asleep, Awake, Waking, Ending

LEMMA DataWorks ==
  ASSUME TypeOK, Phase, UNCHANGED <<hal, dataSync, dataCmds>>, data'.active = data.active,
         data.at \notin {"wait", "saveStop"}, data'.at # "saveStop"
  PROVE  Phase'
BY DEF Phase, Asleep, Awake, Waking, Ending

LEMMA DataAsIs ==
  ASSUME Phase, UNCHANGED <<hal, dataSync, dataCmds, data>>
  PROVE  Phase'
BY DEF Phase, Asleep, Awake, Waking, Ending

(* The queues are open from the start of the data thread to its stop;       *)
(* otherwise they are empty, and there is nothing with a reprocess channel  *)
(* of a capture that is over or has not begun.                              *)
Open == data.active \/ data.at = "saveStop"
AllActive == m_inputPPQ.active /\ m_ongoingPPQ.active /\ m_inputJpegQ.active /\ m_inputRawQ.active
NoneActive == ~m_inputPPQ.active /\ ~m_ongoingPPQ.active /\ ~m_inputJpegQ.active /\ ~m_inputRawQ.active
AllEmpty ==
    /\ m_inputPPQ.list = <<>> /\ m_ongoingPPQ.list = <<>> /\ m_inputJpegQ.list = <<>>
    /\ m_inputRawQ.list = <<>> /\ m_ongoingJpegQ.list = <<>>
PassesIdle == \A i \in Passes : ppTh[i] = None /\ reproc[i] = <<>>
Closed == NoneActive \/ hal = "starting" \/ (hal = "stopped" /\ frameTh = None)
QueuesOpen ==
    /\ m_ongoingJpegQ.active
    /\ Open => AllActive
    /\ ~Open => AllEmpty /\ Closed
    /\ hal = "starting" => AllEmpty
    /\ hal \in {"stopped", "starting"} => PassesIdle

LEMMA PhaseKept ==
  ASSUME TypeOK, Phase, QueuesOpen, Step
  PROVE  Phase'
<1>a. /\ hal \in {"stopped", "starting", "running", "stopping"} /\ dataSync \in Nat /\ wanted \in Nat
      /\ dataCmds \in Seq(Command) /\ data \in DataType
  BY DEF TypeOK, HalTypeOK, ThreadTypeOK
<1>b. dataCmds # <<>> =>
        /\ NextsOnly(dataCmds) => dataCmds[1] = "next" /\ NextsOnly(Tail(dataCmds))
        /\ OneStart(dataCmds) => \/ dataCmds[1] = "start" /\ NextsOnly(Tail(dataCmds))
                                 \/ dataCmds[1] = "next" /\ OneStart(Tail(dataCmds))
        /\ Behind("stop", dataCmds) => dataCmds[1] = "stop" /\ NextsOnly(Tail(dataCmds))
  BY <1>a, TakenCommand
<1>c. NextsOnly(dataCmds) => Behind("stop", <<"stop">> \o dataCmds) /\ OneStart(Append(dataCmds, "start"))
  <2>1. "stop" \in Command /\ "start" \in Command
    BY DEF Command
  <2> QED BY <1>a, <2>1, AddedCommand
<1>d. data.at \in DataPlaces
  BY <1>a, DataFields
<1>1. ASSUME NEW m \in Modes, StartDoes(m) PROVE Phase'
  BY <1>1, <1>a, <1>c DEF Phase, Asleep, Awake, Waking, Ending, StartDoes
<1>2. ASSUME StartedDoes PROVE Phase'
  BY <1>2, <1>a DEF Phase, Asleep, Awake, Waking, Ending, StartedDoes
<1>3. ASSUME CancelPictureDoes PROVE Phase'
  BY <1>3, <1>a, <1>c DEF Phase, Asleep, Awake, Waking, Ending, CancelPictureDoes
<1>4. ASSUME SnapshotDoneDoes PROVE Phase'
  <2>1. CASE hal = "running"
    BY <1>4, <2>1, <1>a, <1>c DEF Phase, Asleep, Awake, Waking, Ending, SnapshotDoneDoes, Wanting
  <2>2. CASE hal = "stopped"
    BY <1>4, <2>2, <1>a DEF Phase, Asleep, Awake, Waking, Ending, SnapshotDoneDoes, Wanting
  <2> QED BY <1>4, <2>1, <2>2 DEF SnapshotDoneDoes
<1>5. ASSUME StoppedDoes PROVE Phase'
  BY <1>5, <1>a DEF Phase, Asleep, Awake, Waking, Ending, StoppedDoes
<1>6. ASSUME JpegEventDoes PROVE Phase'
  <2>1. Longer(dataCmds, dataCmds')
    BY <1>6 DEF JpegEventDoes, Longer
  <2> QED BY <1>6, <2>1, DataWoken DEF JpegEventDoes
<1>7. ASSUME NEW f \in Frames, FrameArrivesDoes(f) PROVE Phase'
  BY <1>7, DataAsIs DEF FrameArrivesDoes
<1>8. ASSUME processDataDoes PROVE Phase'
  <2>1. Longer(dataCmds, dataCmds')
    BY <1>8 DEF processDataDoes, Longer
  <2> QED BY <1>8, <2>1, DataWoken DEF processDataDoes
<1>9. ASSUME processDataDoneDoes PROVE Phase'
  <2>1. Longer(dataCmds, dataCmds')
    BY <1>9 DEF processDataDoneDoes, Longer
  <2> QED BY <1>9, <2>1, DataWoken DEF processDataDoneDoes
<1>10. ASSUME NEW i \in Passes, ReprocOutputDoes(i) PROVE Phase'
  BY <1>10, DataAsIs DEF ReprocOutputDoes
<1>11. ASSUME NEW i \in Passes, processPPDataDoes(i) PROVE Phase'
  <2>1. Longer(dataCmds, dataCmds')
    BY <1>11 DEF processPPDataDoes, Longer
  <2> QED BY <1>11, <2>1, DataWoken DEF processPPDataDoes
<1>12. ASSUME DataStartDoes PROVE Phase'
  BY <1>12, <1>a, <1>b, <1>d DEF Phase, Asleep, Awake, Waking, Ending, DataStartDoes, DataPlaces
<1>13. ASSUME DataStopDoes PROVE Phase'
  BY <1>13, <1>a, <1>b, <1>d DEF Phase, Asleep, Awake, Waking, Ending, DataStopDoes, DataPlaces
<1>14. ASSUME DataStoppedDoes PROVE Phase'
  BY <1>14, <1>a, <1>d DEF Phase, Asleep, Awake, Waking, Ending, DataStoppedDoes, DataPlaces
<1>15. ASSUME DataNextDoes PROVE Phase'
  <2>1. CASE hal = "starting"
    <3>1. ~HasNext(m_inputJpegQ) /\ ~HasNext(m_inputRawQ) /\ ~CanReprocess
      BY <2>1 DEF QueuesOpen, AllEmpty, HasNext, CanReprocess
    <3>2. data'.at = "wait" /\ dataCmds # <<>> /\ dataCmds[1] = "next" /\ dataCmds' = Tail(dataCmds)
          /\ data'.active = data.active /\ UNCHANGED <<hal, dataSync>>
      BY <1>15, <3>1 DEF DataNextDoes
    <3> QED BY <2>1, <3>2, <1>a, <1>b DEF Phase, Waking
  <2>2. CASE hal # "starting"
    BY <1>15, <2>2, <1>a, <1>b, <1>d DEF Phase, Asleep, Awake, Ending, DataNextDoes, DataPlaces
  <2> QED BY <2>1, <2>2
<1>16. ASSUME encodeDataDoes PROVE Phase'
  BY <1>16, DataWorks DEF encodeDataDoes, AfterEncode
<1>17. ASSUME RecordJobDoes PROVE Phase'
  BY <1>17, DataWorks DEF RecordJobDoes, AfterEncode
<1>18. ASSUME ProcessRawDoes PROVE Phase'
  BY <1>18, DataWorks DEF ProcessRawDoes, AfterEncode
<1>19. ASSUME doReprocessDoes PROVE Phase'
  BY <1>19, DataWorks DEF doReprocessDoes, AfterEncode
<1>20. ASSUME NEW id \in encoding, JpegDoneDoes(id) PROVE Phase'
  BY <1>20, DataAsIs DEF JpegDoneDoes
<1>21. ASSUME SaveStepDoes PROVE Phase'
  BY <1>21, DataAsIs DEF SaveStepDoes
<1>22. ASSUME NoteStartDoes PROVE Phase'
  BY <1>22, DataAsIs DEF NoteStartDoes
<1>23. ASSUME NoteStopDoes PROVE Phase'
  BY <1>23, DataAsIs DEF NoteStopDoes
<1>24. ASSUME NoteNextDoes PROVE Phase'
  BY <1>24, DataAsIs DEF NoteNextDoes
<1>25. ASSUME NoteDeliveredDoes PROVE Phase'
  BY <1>25, DataAsIs DEF NoteDeliveredDoes
<1> QED BY <1>1, <1>2, <1>3, <1>4, <1>5, <1>6, <1>7, <1>8, <1>9, <1>10, <1>11, <1>12, <1>13, <1>14, <1>15, <1>16, <1>17, <1>18, <1>19, <1>20, <1>21, <1>22, <1>23, <1>24, <1>25 DEF Step

LEMMA WantingKept ==
  ASSUME TypeOK, Wanting, Step
  PROVE  Wanting'
<1>0. hal \in {"stopped", "starting", "running", "stopping"} /\ wanted \in Nat
  BY DEF TypeOK, HalTypeOK
<1>1. ASSUME NEW m \in Modes, StartDoes(m) PROVE Wanting'
  BY <1>0, <1>1 DEF StartDoes, Wanting
<1>2. ASSUME StartedDoes PROVE Wanting'
  BY <1>0, <1>2 DEF StartedDoes, Wanting
<1>3. ASSUME CancelPictureDoes PROVE Wanting'
  BY <1>0, <1>3 DEF CancelPictureDoes, Wanting
<1>4. ASSUME SnapshotDoneDoes PROVE Wanting'
  BY <1>0, <1>4 DEF SnapshotDoneDoes, Wanting
<1>5. ASSUME StoppedDoes PROVE Wanting'
  BY <1>0, <1>5 DEF StoppedDoes, Wanting
<1>6. ASSUME JpegEventDoes PROVE Wanting'
  BY <1>0, <1>6 DEF JpegEventDoes, Wanting
<1>7. ASSUME NEW f \in Frames, FrameArrivesDoes(f) PROVE Wanting'
  BY <1>0, <1>7 DEF FrameArrivesDoes, Wanting
<1>8. ASSUME processDataDoes PROVE Wanting'
  BY <1>0, <1>8 DEF processDataDoes, Wanting
<1>9. ASSUME processDataDoneDoes PROVE Wanting'
  BY <1>0, <1>9 DEF processDataDoneDoes, Wanting
<1>10. ASSUME NEW i \in Passes, ReprocOutputDoes(i) PROVE Wanting'
  BY <1>0, <1>10 DEF ReprocOutputDoes, Wanting
<1>11. ASSUME NEW i \in Passes, processPPDataDoes(i) PROVE Wanting'
  BY <1>0, <1>11 DEF processPPDataDoes, Wanting
<1>12. ASSUME DataStartDoes PROVE Wanting'
  BY <1>0, <1>12 DEF DataStartDoes, Wanting
<1>13. ASSUME DataStopDoes PROVE Wanting'
  BY <1>0, <1>13 DEF DataStopDoes, Wanting
<1>14. ASSUME DataStoppedDoes PROVE Wanting'
  BY <1>0, <1>14 DEF DataStoppedDoes, Wanting
<1>15. ASSUME DataNextDoes PROVE Wanting'
  BY <1>0, <1>15 DEF DataNextDoes, Wanting
<1>16. ASSUME encodeDataDoes PROVE Wanting'
  BY <1>0, <1>16 DEF encodeDataDoes, Wanting
<1>17. ASSUME RecordJobDoes PROVE Wanting'
  BY <1>0, <1>17 DEF RecordJobDoes, Wanting
<1>18. ASSUME ProcessRawDoes PROVE Wanting'
  BY <1>0, <1>18 DEF ProcessRawDoes, Wanting
<1>19. ASSUME doReprocessDoes PROVE Wanting'
  BY <1>0, <1>19 DEF doReprocessDoes, Wanting
<1>20. ASSUME NEW id \in encoding, JpegDoneDoes(id) PROVE Wanting'
  BY <1>0, <1>20 DEF JpegDoneDoes, Wanting
<1>21. ASSUME SaveStepDoes PROVE Wanting'
  BY <1>0, <1>21 DEF SaveStepDoes, Wanting
<1>22. ASSUME NoteStartDoes PROVE Wanting'
  BY <1>0, <1>22 DEF NoteStartDoes, Wanting
<1>23. ASSUME NoteStopDoes PROVE Wanting'
  BY <1>0, <1>23 DEF NoteStopDoes, Wanting
<1>24. ASSUME NoteNextDoes PROVE Wanting'
  BY <1>0, <1>24 DEF NoteNextDoes, Wanting
<1>25. ASSUME NoteDeliveredDoes PROVE Wanting'
  BY <1>0, <1>25 DEF NoteDeliveredDoes, Wanting
<1> QED BY <1>1, <1>2, <1>3, <1>4, <1>5, <1>6, <1>7, <1>8, <1>9, <1>10, <1>11, <1>12, <1>13, <1>14, <1>15, <1>16, <1>17, <1>18, <1>19, <1>20, <1>21, <1>22, <1>23, <1>24, <1>25 DEF Step

LEMMA ProtocolKept ==
  ASSUME TypeOK, DataProtocol, QueuesOpen, Step
  PROVE  DataProtocol'
BY PhaseKept, WantingKept DEF DataProtocol

LEMMA FlushedKeeps ==
  ASSUME NEW id, Flushed(id)
  PROVE  /\ m_ongoingJpegQ'.active = m_ongoingJpegQ.active
         /\ m_ongoingJpegQ.list = <<>> => m_ongoingJpegQ' = m_ongoingJpegQ
BY DEF Flushed

(* The data thread works only while its queues are open.                    *)
LEMMA WorksWhenOpen ==
  ASSUME TypeOK, Phase
  PROVE  /\ data.at \in {"encode", "record", "raw", "reproc"} =>
              data.active /\ hal \in {"running", "stopping"}
         /\ data.at = "wait" /\ dataCmds # <<>> /\ dataCmds[1] = "start" => hal = "starting"
         /\ data.at = "wait" /\ dataCmds # <<>> /\ dataCmds[1] = "stop" => hal = "stopping" /\ data.active
         /\ data.at = "saveStop" => hal = "stopping" /\ ~data.active
<1>a. /\ hal \in {"stopped", "starting", "running", "stopping"}
      /\ dataCmds \in Seq(Command) /\ data \in DataType
  BY DEF TypeOK, HalTypeOK, ThreadTypeOK
<1>b. dataCmds # <<>> =>
        /\ NextsOnly(dataCmds) => dataCmds[1] = "next"
        /\ OneStart(dataCmds) => dataCmds[1] \in {"start", "next"}
        /\ Behind("stop", dataCmds) => dataCmds[1] = "stop"
  BY <1>a, TakenCommand
<1> QED BY <1>a, <1>b DEF Phase, Asleep, Awake, Waking, Ending

LEMMA QueuesKept ==
  ASSUME TypeOK, DataProtocol, QueuesOpen, Step
  PROVE  QueuesOpen'
<1>a. /\ hal \in {"stopped", "starting", "running", "stopping"} /\ frameTh \in {None} \cup FrameHand
      /\ None \notin FrameHand /\ None \notin PassHand /\ wanted \in Nat
      /\ ppTh \in [Passes -> {None} \cup PassHand] /\ reproc \in [Passes -> Seq(Buffer)]
  BY NoneApart DEF TypeOK, HalTypeOK, HandTypeOK
<1>b. /\ data.at \in {"encode", "record", "raw", "reproc"} => data.active /\ hal \in {"running", "stopping"}
      /\ data.at = "wait" /\ dataCmds # <<>> /\ dataCmds[1] = "start" => hal = "starting"
      /\ data.at = "wait" /\ dataCmds # <<>> /\ dataCmds[1] = "stop" => hal = "stopping" /\ data.active
      /\ data.at = "saveStop" => hal = "stopping" /\ ~data.active
  BY WorksWhenOpen DEF DataProtocol
<1>c. /\ hal = "stopped" => ~Open
      /\ hal = "starting" /\ dataSync > 0 => Open
      /\ hal = "running" => Open
      /\ hal = "stopping" /\ dataSync > 0 => ~Open
  BY DEF DataProtocol, Phase, Asleep, Awake, Waking, Ending, Open
<1>d. AllEmpty => ~HasNext(m_inputJpegQ) /\ ~HasNext(m_ongoingPPQ)
  BY DEF AllEmpty, HasNext
<1>e. hal = "stopped" => wanted = 0
  BY DEF DataProtocol, Wanting
<1>1. ASSUME NEW m \in Modes, StartDoes(m) PROVE QueuesOpen'
  BY <1>a, <1>b, <1>c, <1>e, <1>1 DEF StartDoes, Open, AllActive, NoneActive, AllEmpty, PassesIdle, Closed, QueuesOpen
<1>2. ASSUME StartedDoes PROVE QueuesOpen'
  BY <1>a, <1>b, <1>c, <1>e, <1>2 DEF StartedDoes, Open, AllActive, NoneActive, AllEmpty, PassesIdle, Closed, QueuesOpen
<1>3. ASSUME CancelPictureDoes PROVE QueuesOpen'
  BY <1>a, <1>b, <1>c, <1>e, <1>3 DEF CancelPictureDoes, Open, AllActive, NoneActive, AllEmpty, PassesIdle, Closed, QueuesOpen
<1>4. ASSUME SnapshotDoneDoes PROVE QueuesOpen'
  BY <1>a, <1>b, <1>c, <1>e, <1>4 DEF SnapshotDoneDoes, Open, AllActive, NoneActive, AllEmpty, PassesIdle, Closed, QueuesOpen
<1>5. ASSUME StoppedDoes PROVE QueuesOpen'
  <2>1. ~Open /\ AllEmpty /\ NoneActive
    BY <1>5, <1>c DEF StoppedDoes, QueuesOpen, Closed
  <2>2. PassesIdle'
    BY <1>5 DEF StoppedDoes, PassesIdle, Passes
  <2> QED BY <1>5, <2>1, <2>2 DEF StoppedDoes, Open, AllActive, NoneActive, AllEmpty, Closed, QueuesOpen
<1>6. ASSUME JpegEventDoes PROVE QueuesOpen'
  <2>1. /\ m_ongoingJpegQ'.active = m_ongoingJpegQ.active
        /\ m_ongoingJpegQ.list = <<>> => m_ongoingJpegQ' = m_ongoingJpegQ
    BY <1>6, FlushedKeeps DEF JpegEventDoes
  <2> QED BY <1>6, <2>1 DEF JpegEventDoes, Open, AllActive, NoneActive, AllEmpty, PassesIdle, Closed, QueuesOpen
<1>7. ASSUME NEW f \in Frames, FrameArrivesDoes(f) PROVE QueuesOpen'
  BY <1>a, <1>b, <1>c, <1>e, <1>7 DEF FrameArrivesDoes, Open, AllActive, NoneActive, AllEmpty, PassesIdle, Closed, QueuesOpen
<1>8. ASSUME processDataDoes PROVE QueuesOpen'
  BY <1>a, <1>b, <1>c, <1>e, <1>8 DEF processDataDoes, Open, AllActive, NoneActive, AllEmpty, PassesIdle, Closed, QueuesOpen
<1>9. ASSUME processDataDoneDoes PROVE QueuesOpen'
  BY <1>a, <1>b, <1>c, <1>e, <1>9 DEF processDataDoneDoes, Open, AllActive, NoneActive, AllEmpty, PassesIdle, Closed, QueuesOpen
<1>10. ASSUME NEW i \in Passes, ReprocOutputDoes(i) PROVE QueuesOpen'
  <2>1. hal \notin {"stopped", "starting"}
    BY <1>10 DEF ReprocOutputDoes, QueuesOpen, PassesIdle
  <2>2. m_ongoingPPQ'.active = m_ongoingPPQ.active /\ (AllEmpty => m_ongoingPPQ' = m_ongoingPPQ)
    BY <1>10 DEF ReprocOutputDoes, Loses, AllEmpty, HasNext
  <2> QED BY <1>10, <2>1, <2>2 DEF ReprocOutputDoes, Open, AllActive, NoneActive, AllEmpty, Closed, QueuesOpen
<1>11. ASSUME NEW i \in Passes, processPPDataDoes(i) PROVE QueuesOpen'
  <2>1. hal \notin {"stopped", "starting"}
    BY <1>11, <1>a DEF processPPDataDoes, QueuesOpen, PassesIdle
  <2>2. /\ m_inputRawQ'.active = m_inputRawQ.active /\ m_inputPPQ'.active = m_inputPPQ.active
        /\ m_inputJpegQ'.active = m_inputJpegQ.active
        /\ ~m_inputRawQ.active => m_inputRawQ' = m_inputRawQ
        /\ ~m_inputPPQ.active => m_inputPPQ' = m_inputPPQ
        /\ ~m_inputJpegQ.active => m_inputJpegQ' = m_inputJpegQ
    BY <1>11 DEF processPPDataDoes
  <2> QED BY <1>11, <2>1, <2>2 DEF processPPDataDoes, Open, AllActive, NoneActive, AllEmpty, Closed, QueuesOpen
<1>12. ASSUME DataStartDoes PROVE QueuesOpen'
  BY <1>a, <1>b, <1>c, <1>e, <1>12 DEF DataStartDoes, Open, AllActive, NoneActive, AllEmpty, PassesIdle, Closed, QueuesOpen
<1>13. ASSUME DataStopDoes PROVE QueuesOpen'
  BY <1>a, <1>b, <1>c, <1>e, <1>13 DEF DataStopDoes, Open, AllActive, NoneActive, AllEmpty, PassesIdle, Closed, QueuesOpen
<1>14. ASSUME DataStoppedDoes PROVE QueuesOpen'
  BY <1>a, <1>b, <1>c, <1>e, <1>14 DEF DataStoppedDoes, Open, AllActive, NoneActive, AllEmpty, PassesIdle, Closed, QueuesOpen
<1>15. ASSUME DataNextDoes PROVE QueuesOpen'
  <2>1. /\ m_ongoingJpegQ'.active = m_ongoingJpegQ.active /\ m_inputJpegQ'.active = m_inputJpegQ.active
        /\ AllEmpty \/ ~data.active => UNCHANGED <<m_ongoingJpegQ, m_inputJpegQ>>
    BY <1>15, <1>d DEF DataNextDoes, Gets, Loses
  <2>2. data.at = "wait" /\ data'.at # "saveStop" /\ data'.active = data.active
    BY <1>15 DEF DataNextDoes
  <2> QED BY <1>15, <2>1, <2>2 DEF DataNextDoes, Open, AllActive, NoneActive, AllEmpty, PassesIdle, Closed, QueuesOpen
<1>16. ASSUME encodeDataDoes PROVE QueuesOpen'
  BY <1>16, <1>b DEF encodeDataDoes, AfterEncode, Open, AllActive, NoneActive, AllEmpty, PassesIdle, Closed, QueuesOpen
<1>17. ASSUME RecordJobDoes PROVE QueuesOpen'
  BY <1>17, <1>b DEF RecordJobDoes, AfterEncode, Open, AllActive, NoneActive, AllEmpty, PassesIdle, Closed, QueuesOpen
<1>18. ASSUME ProcessRawDoes PROVE QueuesOpen'
  BY <1>18, <1>b DEF ProcessRawDoes, Loses, Open, AllActive, NoneActive, AllEmpty, PassesIdle, Closed, QueuesOpen
<1>19. ASSUME doReprocessDoes PROVE QueuesOpen'
  BY <1>19, <1>b DEF doReprocessDoes, Loses, Gets, Open, AllActive, NoneActive, AllEmpty, PassesIdle, Closed, QueuesOpen
<1>20. ASSUME NEW id \in encoding, JpegDoneDoes(id) PROVE QueuesOpen'
  BY <1>a, <1>b, <1>c, <1>e, <1>20 DEF JpegDoneDoes, Open, AllActive, NoneActive, AllEmpty, PassesIdle, Closed, QueuesOpen
<1>21. ASSUME SaveStepDoes PROVE QueuesOpen'
  <2>1. /\ m_ongoingJpegQ'.active = m_ongoingJpegQ.active
        /\ m_ongoingJpegQ.list = <<>> => m_ongoingJpegQ' = m_ongoingJpegQ
    BY <1>21, FlushedKeeps DEF SaveStepDoes
  <2> QED BY <1>21, <2>1 DEF SaveStepDoes, Open, AllActive, NoneActive, AllEmpty, PassesIdle, Closed, QueuesOpen
<1>22. ASSUME NoteStartDoes PROVE QueuesOpen'
  BY <1>a, <1>b, <1>c, <1>e, <1>22 DEF NoteStartDoes, Open, AllActive, NoneActive, AllEmpty, PassesIdle, Closed, QueuesOpen
<1>23. ASSUME NoteStopDoes PROVE QueuesOpen'
  BY <1>a, <1>b, <1>c, <1>e, <1>23 DEF NoteStopDoes, Open, AllActive, NoneActive, AllEmpty, PassesIdle, Closed, QueuesOpen
<1>24. ASSUME NoteNextDoes PROVE QueuesOpen'
  BY <1>a, <1>b, <1>c, <1>e, <1>24 DEF NoteNextDoes, Open, AllActive, NoneActive, AllEmpty, PassesIdle, Closed, QueuesOpen
<1>25. ASSUME NoteDeliveredDoes PROVE QueuesOpen'
  BY <1>a, <1>b, <1>c, <1>e, <1>25 DEF NoteDeliveredDoes, Open, AllActive, NoneActive, AllEmpty, PassesIdle, Closed, QueuesOpen
<1> QED BY <1>1, <1>2, <1>3, <1>4, <1>5, <1>6, <1>7, <1>8, <1>9, <1>10, <1>11, <1>12, <1>13, <1>14, <1>15, <1>16, <1>17, <1>18, <1>19, <1>20, <1>21, <1>22, <1>23, <1>24, <1>25 DEF Step

-----------------------------------------------------------------------------
(* Lists whose elements are all of a kind.                                  *)
LEMMA ListGets ==
  ASSUME NEW T, NEW q, NEW r, NEW x \in T, q.list \in Seq(T), Gets(q, r, x)
  PROVE  r.list \in Seq(T)
<1>1. Append(q.list, x) \in Seq(T)
  OBVIOUS
<1> QED BY <1>1 DEF Gets

LEMMA ListLoses ==
  ASSUME NEW T, NEW q, NEW r, q.list \in Seq(T), Loses(q, r)
  PROVE  r.list \in Seq(T) /\ q.list[1] \in T
BY HeadTail DEF Loses

(* The identifiers: 0 is none, a job waiting for the encoder has none, and  *)
(* neither has the last of the jobs begun while the data thread is at it.   *)
NamedEvent == {e \in Event : e.kind = "jpeg" => e.id # 0}
Unnamed == {job \in JpegJob : job.id = 0}
Named ==
    /\ 0 \notin encoding /\ evt_queue \in Seq(NamedEvent) /\ m_inputSaveQ.list \in Seq(Nat \ {0})
    /\ m_inputJpegQ.list \in Seq(Unnamed)
LastUnnamed == m_ongoingJpegQ.list # <<>> /\ m_ongoingJpegQ.list[Len(m_ongoingJpegQ.list)].id = 0
Working ==
    /\ data.at = "raw" => m_inputRawQ.list # <<>>
    /\ data.at \in {"encode", "record"} => LastUnnamed

LEMMA FlushedLast ==
  ASSUME TypeOK, NEW id, id # 0, Flushed(id), LastUnnamed
  PROVE  LastUnnamed'
<1>1. m_ongoingJpegQ.list \in Seq(JpegJob)
  BY QueueFields DEF TypeOK, QueueTypeOK
<1>2. CASE UNCHANGED m_ongoingJpegQ
  BY <1>2 DEF LastUnnamed
<1>3. ASSUME NEW k \in DOMAIN m_ongoingJpegQ.list, m_ongoingJpegQ.list[k].id = id,
             m_ongoingJpegQ'.list = RemoveAt(m_ongoingJpegQ.list, k)
      PROVE  LastUnnamed'
  <2> DEFINE s == m_ongoingJpegQ.list
  <2>1. s \in Seq(JpegJob) /\ k \in 1 .. Len(s) /\ k # Len(s) /\ Len(s) \in Nat
    BY <1>1, <1>3 DEF LastUnnamed
  <2>2. /\ RemoveAt(s, k) \in Seq(JpegJob) /\ Len(RemoveAt(s, k)) = Len(s) - 1
        /\ \A j \in 1 .. Len(s) - 1 : RemoveAt(s, k)[j] = s[IF j < k THEN j ELSE j + 1]
    BY <2>1, Removed
  <2>3. m_ongoingJpegQ'.list = RemoveAt(s, k) /\ s[Len(s)].id = 0
    BY <1>3 DEF LastUnnamed
  <2> HIDE DEF s
  <2>4. Len(s) - 1 \in 1 .. Len(s) - 1 /\ ~(Len(s) - 1 < k) /\ (Len(s) - 1) + 1 = Len(s)
    BY <2>1
  <2>5. RemoveAt(s, k)[Len(s) - 1] = s[Len(s)]
    BY <2>2, <2>4
  <2>6. RemoveAt(s, k) # <<>>
    BY <2>1, <2>2
  <2> QED BY <2>2, <2>3, <2>5, <2>6 DEF LastUnnamed
<1> QED BY <1>2, <1>3 DEF Flushed

LEMMA NamedKept ==
  ASSUME TypeOK, Named, Step
  PROVE  Named'
<1>a. /\ evt_queue \in Seq(Event) /\ m_inputSaveQ.list \in Seq(Nat) /\ m_inputJpegQ.list \in Seq(JpegJob)
      /\ encoding \in SUBSET Nat /\ ppTh \in [Passes -> {None} \cup PassHand]
  BY QueueFields DEF TypeOK, HalTypeOK, QueueTypeOK, ThreadTypeOK, HandTypeOK
<1>b. \A f \in Frames : Source(f) \in Buffer
  BY NoneApart
<1>1. ASSUME NEW m \in Modes, StartDoes(m) PROVE Named'
  BY <1>a, <1>1 DEF StartDoes, Named
<1>2. ASSUME StartedDoes PROVE Named'
  BY <1>a, <1>2 DEF StartedDoes, Named
<1>3. ASSUME CancelPictureDoes PROVE Named'
  BY <1>a, <1>3 DEF CancelPictureDoes, Named
<1>4. ASSUME SnapshotDoneDoes PROVE Named'
  <2>1. Tail(evt_queue) \in Seq(NamedEvent)
    BY <1>4, HeadTail DEF SnapshotDoneDoes, Named
  <2> QED BY <1>4, <2>1 DEF SnapshotDoneDoes, Named
<1>5. ASSUME StoppedDoes PROVE Named'
  BY <1>a, <1>5 DEF StoppedDoes, Named
<1>6. ASSUME JpegEventDoes PROVE Named'
  <2>1. evt_queue[1] \in NamedEvent /\ Tail(evt_queue) \in Seq(NamedEvent)
    BY <1>6, HeadTail DEF JpegEventDoes, Named
  <2>2. evt_queue[1].id \in Nat \ {0}
    BY <1>6, <2>1 DEF JpegEventDoes, NamedEvent, Event
  <2>3. m_inputSaveQ'.list \in Seq(Nat \ {0})
    <3>1. CASE UNCHANGED m_inputSaveQ
      BY <3>1 DEF Named
    <3>2. CASE Gets(m_inputSaveQ, m_inputSaveQ', evt_queue[1].id)
      BY <2>2, <3>2, ListGets DEF Named
    <3> QED BY <1>6, <3>1, <3>2 DEF JpegEventDoes
  <2> QED BY <1>6, <2>1, <2>3 DEF JpegEventDoes, Named
<1>7. ASSUME NEW f \in Frames, FrameArrivesDoes(f) PROVE Named'
  BY <1>a, <1>7 DEF FrameArrivesDoes, Named
<1>8. ASSUME processDataDoes PROVE Named'
  <2>1. NewJpegJob(Source(frameTh.frame), None) \in Unnamed
    BY <1>8, <1>b DEF processDataDoes, FrameHand, NewJpegJob, Unnamed, JpegJob
  <2>2. Append(m_inputJpegQ.list, NewJpegJob(Source(frameTh.frame), None)) \in Seq(Unnamed)
    BY <2>1 DEF Named
  <2> QED BY <1>8, <2>2 DEF processDataDoes, Named
<1>9. ASSUME processDataDoneDoes PROVE Named'
  BY <1>a, <1>9 DEF processDataDoneDoes, Named
<1>10. ASSUME NEW i \in Passes, ReprocOutputDoes(i) PROVE Named'
  BY <1>a, <1>10 DEF ReprocOutputDoes, Named
<1>11. ASSUME NEW i \in Passes, processPPDataDoes(i) PROVE Named'
  <2>1. ToEncode(i) \in Unnamed
    BY <1>11 DEF processPPDataDoes, PassHand, Ongoing, ToEncode, NewJpegJob, Unnamed, JpegJob
  <2>2. Append(m_inputJpegQ.list, ToEncode(i)) \in Seq(Unnamed)
    BY <2>1 DEF Named
  <2> QED BY <1>11, <2>2 DEF processPPDataDoes, Named
<1>12. ASSUME DataStartDoes PROVE Named'
  BY <1>a, <1>12 DEF DataStartDoes, Named
<1>13. ASSUME DataStopDoes PROVE Named'
  BY <1>a, <1>13 DEF DataStopDoes, Named
<1>14. ASSUME DataStoppedDoes PROVE Named'
  <2>1. <<>> \in Seq(Unnamed)
    OBVIOUS
  <2> QED BY <1>14, <2>1 DEF DataStoppedDoes, Named
<1>15. ASSUME DataNextDoes PROVE Named'
  <2>1. m_inputJpegQ'.list \in Seq(Unnamed)
    <3>1. CASE UNCHANGED m_inputJpegQ
      BY <3>1 DEF Named
    <3>2. CASE Loses(m_inputJpegQ, m_inputJpegQ')
      BY <3>2, ListLoses DEF Named
    <3> QED BY <1>15, <3>1, <3>2 DEF DataNextDoes
  <2> QED BY <1>15, <2>1 DEF DataNextDoes, Named
<1>16. ASSUME encodeDataDoes PROVE Named'
  BY <1>a, <1>16 DEF encodeDataDoes, Named
<1>17. ASSUME RecordJobDoes PROVE Named'
  BY <1>a, <1>17 DEF RecordJobDoes, Named
<1>18. ASSUME ProcessRawDoes PROVE Named'
  BY <1>a, <1>18 DEF ProcessRawDoes, Named
<1>19. ASSUME doReprocessDoes PROVE Named'
  BY <1>a, <1>19 DEF doReprocessDoes, Named
<1>20. ASSUME NEW id \in encoding, JpegDoneDoes(id) PROVE Named'
  <2>1. PICK e \in Event : e.kind = "jpeg" /\ e.id = id /\ evt_queue' = Append(evt_queue, e)
    BY <1>20 DEF JpegDoneDoes
  <2>2. e \in NamedEvent
    BY <1>20, <2>1 DEF Named, NamedEvent
  <2>3. Append(evt_queue, e) \in Seq(NamedEvent)
    BY <2>2 DEF Named
  <2> QED BY <1>20, <2>1, <2>3 DEF JpegDoneDoes, Named
<1>21. ASSUME SaveStepDoes PROVE Named'
  <2>1. m_inputSaveQ'.list \in Seq(Nat \ {0})
    <3>1. CASE m_inputSaveQ'.list = m_inputSaveQ.list
      BY <3>1 DEF Named
    <3>2. CASE Loses(m_inputSaveQ, m_inputSaveQ')
      BY <3>2, ListLoses DEF Named
    <3>3. CASE m_inputSaveQ'.list = <<>>
      BY <3>3
    <3> QED BY <1>21, <3>1, <3>2, <3>3 DEF SaveStepDoes
  <2> QED BY <1>21, <2>1 DEF SaveStepDoes, Named
<1>22. ASSUME NoteStartDoes PROVE Named'
  BY <1>a, <1>22 DEF NoteStartDoes, Named
<1>23. ASSUME NoteStopDoes PROVE Named'
  BY <1>a, <1>23 DEF NoteStopDoes, Named
<1>24. ASSUME NoteNextDoes PROVE Named'
  <2>1. [kind |-> "done", id |-> 0, ok |-> TRUE] \in NamedEvent
    BY DEF NamedEvent, Event
  <2>2. Append(evt_queue, [kind |-> "done", id |-> 0, ok |-> TRUE]) \in Seq(NamedEvent)
    BY <2>1 DEF Named
  <2> QED BY <1>24, <2>2 DEF NoteNextDoes, Named
<1>25. ASSUME NoteDeliveredDoes PROVE Named'
  BY <1>a, <1>25 DEF NoteDeliveredDoes, Named
<1> QED BY <1>1, <1>2, <1>3, <1>4, <1>5, <1>6, <1>7, <1>8, <1>9, <1>10, <1>11, <1>12, <1>13, <1>14, <1>15, <1>16, <1>17, <1>18, <1>19, <1>20, <1>21, <1>22, <1>23, <1>24, <1>25 DEF Step

LEMMA WorkingKept ==
  ASSUME TypeOK, QueuesOpen, Named, Working, Step
  PROVE  Working'
<1>a. /\ m_ongoingJpegQ.list \in Seq(JpegJob) /\ m_inputRawQ.list \in Seq(Buffer) /\ m_ongoingJpegQ.active
      /\ data.at \in DataPlaces
  BY QueueFields, DataFields DEF TypeOK, QueueTypeOK, ThreadTypeOK, QueuesOpen
<1>1. ASSUME NEW m \in Modes, StartDoes(m) PROVE Working'
  BY <1>a, <1>1 DEF StartDoes, Working, LastUnnamed
<1>2. ASSUME StartedDoes PROVE Working'
  BY <1>a, <1>2 DEF StartedDoes, Working, LastUnnamed
<1>3. ASSUME CancelPictureDoes PROVE Working'
  BY <1>a, <1>3 DEF CancelPictureDoes, Working, LastUnnamed
<1>4. ASSUME SnapshotDoneDoes PROVE Working'
  BY <1>a, <1>4 DEF SnapshotDoneDoes, Working, LastUnnamed
<1>5. ASSUME StoppedDoes PROVE Working'
  BY <1>a, <1>5 DEF StoppedDoes, Working, LastUnnamed
<1>6. ASSUME JpegEventDoes PROVE Working'
  <2>1. evt_queue[1] \in NamedEvent
    BY <1>6, HeadTail DEF JpegEventDoes, Named
  <2>2. evt_queue[1].id # 0
    BY <1>6, <2>1 DEF JpegEventDoes, NamedEvent
  <2>3. LastUnnamed => LastUnnamed'
    BY <1>6, <2>2, FlushedLast DEF JpegEventDoes, LastUnnamed
  <2> QED BY <1>6, <2>3 DEF JpegEventDoes, Working
<1>7. ASSUME NEW f \in Frames, FrameArrivesDoes(f) PROVE Working'
  BY <1>a, <1>7 DEF FrameArrivesDoes, Working, LastUnnamed
<1>8. ASSUME processDataDoes PROVE Working'
  <2>1. m_inputRawQ.list # <<>> => m_inputRawQ'.list # <<>>
    <3>1. Source(frameTh.frame) \in Buffer
      BY <1>8, NoneApart DEF processDataDoes, FrameHand
    <3>2. Append(m_inputRawQ.list, Source(frameTh.frame)) # <<>>
      BY <1>a, <3>1
    <3> QED BY <1>8, <3>2 DEF processDataDoes
  <2> QED BY <1>8, <2>1 DEF processDataDoes, Working, LastUnnamed
<1>9. ASSUME processDataDoneDoes PROVE Working'
  BY <1>a, <1>9 DEF processDataDoneDoes, Working, LastUnnamed
<1>10. ASSUME NEW i \in Passes, ReprocOutputDoes(i) PROVE Working'
  BY <1>a, <1>10 DEF ReprocOutputDoes, Working, LastUnnamed
<1>11. ASSUME NEW i \in Passes, processPPDataDoes(i) PROVE Working'
  <2>1. m_inputRawQ.list # <<>> => m_inputRawQ'.list # <<>>
    <3>1. Append(m_inputRawQ.list, ppTh[i].out) # <<>>
      BY <1>a
    <3> QED BY <1>11, <3>1 DEF processPPDataDoes
  <2> QED BY <1>11, <2>1 DEF processPPDataDoes, Working, LastUnnamed
<1>12. ASSUME DataStartDoes PROVE Working'
  BY <1>a, <1>12 DEF DataStartDoes, Working, LastUnnamed
<1>13. ASSUME DataStopDoes PROVE Working'
  BY <1>a, <1>13 DEF DataStopDoes, Working, LastUnnamed
<1>14. ASSUME DataStoppedDoes PROVE Working'
  BY <1>a, <1>14 DEF DataStoppedDoes, Working, LastUnnamed
<1>15. ASSUME DataNextDoes PROVE Working'
  <2>1. CASE data'.at = "encode"
    <3>1. HasNext(m_inputJpegQ) /\ Gets(m_ongoingJpegQ, m_ongoingJpegQ', m_inputJpegQ.list[1])
      BY <1>15, <2>1 DEF DataNextDoes
    <3>2. m_inputJpegQ.list[1] \in JpegJob /\ m_inputJpegQ.list[1].id = 0
      <4>1. m_inputJpegQ.list[1] \in Unnamed
        BY <3>1, HeadTail DEF Named, HasNext
      <4> QED BY <4>1 DEF Unnamed
    <3>3. m_ongoingJpegQ'.list = Append(m_ongoingJpegQ.list, m_inputJpegQ.list[1])
      BY <1>a, <3>1 DEF Gets
    <3>5. PICK x \in JpegJob : x = m_inputJpegQ.list[1]
      BY <3>2
    <3>6. PICK s \in Seq(JpegJob) : s = m_ongoingJpegQ.list
      BY <1>a
    <3>7. Append(s, x) # <<>> /\ Append(s, x)[Len(Append(s, x))] = x
      OBVIOUS
    <3>4. LastUnnamed'
      BY <3>2, <3>3, <3>5, <3>6, <3>7 DEF LastUnnamed
    <3> QED BY <2>1, <3>4 DEF Working
  <2>2. CASE data'.at # "encode"
    BY <1>15, <2>2 DEF DataNextDoes, Working, LastUnnamed, HasNext
  <2> QED BY <2>1, <2>2
<1>16. ASSUME encodeDataDoes PROVE Working'
  BY <1>16, <1>a DEF encodeDataDoes, AfterEncode, HasNext, Working, LastUnnamed
<1>17. ASSUME RecordJobDoes PROVE Working'
  BY <1>17, <1>a DEF RecordJobDoes, AfterEncode, HasNext, Working, LastUnnamed
<1>18. ASSUME ProcessRawDoes PROVE Working'
  BY <1>a, <1>18 DEF ProcessRawDoes, Working, LastUnnamed
<1>19. ASSUME doReprocessDoes PROVE Working'
  BY <1>a, <1>19 DEF doReprocessDoes, Working, LastUnnamed
<1>20. ASSUME NEW id \in encoding, JpegDoneDoes(id) PROVE Working'
  BY <1>a, <1>20 DEF JpegDoneDoes, Working, LastUnnamed
<1>21. ASSUME SaveStepDoes PROVE Working'
  <2>1. Flushed(m_inputSaveQ.list[1]) /\ m_inputSaveQ.list # <<>> => m_inputSaveQ.list[1] # 0
    BY HeadTail DEF Named
  <2>2. LastUnnamed => LastUnnamed'
    BY <1>21, <2>1, FlushedLast DEF SaveStepDoes, LastUnnamed, Loses
  <2> QED BY <1>21, <2>2 DEF SaveStepDoes, Working
<1>22. ASSUME NoteStartDoes PROVE Working'
  BY <1>a, <1>22 DEF NoteStartDoes, Working, LastUnnamed
<1>23. ASSUME NoteStopDoes PROVE Working'
  BY <1>a, <1>23 DEF NoteStopDoes, Working, LastUnnamed
<1>24. ASSUME NoteNextDoes PROVE Working'
  BY <1>a, <1>24 DEF NoteNextDoes, Working, LastUnnamed
<1>25. ASSUME NoteDeliveredDoes PROVE Working'
  BY <1>a, <1>25 DEF NoteDeliveredDoes, Working, LastUnnamed
<1> QED BY <1>1, <1>2, <1>3, <1>4, <1>5, <1>6, <1>7, <1>8, <1>9, <1>10, <1>11, <1>12, <1>13, <1>14, <1>15, <1>16, <1>17, <1>18, <1>19, <1>20, <1>21, <1>22, <1>23, <1>24, <1>25 DEF Step

LEMMA WorkingBusy == Working => Busy
BY DEF Working, LastUnnamed, Busy

-----------------------------------------------------------------------------
(* What a job is made of: before its first pass, and in it, a request holds *)
(* the same ZSL frame twice, later the output of a pass and the ZSL frame;  *)
(* a picture to encode is a ZSL frame alone, or an output and its frame.    *)
FitRequest == {job \in Request : IF job.count = 0 THEN job.src = job.orig ELSE job.src.ch # 0}
FitOngoing == {job \in Ongoing : IF job.count = 1 THEN job.src = job.orig ELSE job.src.ch # 0}
FitJpeg == {job \in JpegJob : IF job.orig = None THEN job.src.ch = 0 ELSE job.src.ch # 0}
FitHand(i) == {hand \in PassHand : hand.job \in FitOngoing /\ hand.out.ch = i}
JobsFit ==
    /\ m_inputPPQ.list \in Seq(FitRequest) /\ m_ongoingPPQ.list \in Seq(FitOngoing)
    /\ m_inputJpegQ.list \in Seq(FitJpeg) /\ m_ongoingJpegQ.list \in Seq(FitJpeg)
    /\ \A i \in Passes : ppTh[i] # None => ppTh[i] \in FitHand(i)

LEMMA JobsMade ==
  /\ \A f \in Frames : NewRequest(f) \in FitRequest /\ NewJpegJob(Source(f), None) \in FitJpeg
  /\ \A job \in FitRequest : Passed(job) \in FitOngoing
<1>1. ASSUME NEW f \in Frames PROVE NewRequest(f) \in FitRequest /\ NewJpegJob(Source(f), None) \in FitJpeg
  <2>1. Source(f) \in Buffer /\ Source(f) \in ZslBuffer /\ Source(f).ch = 0
    BY NoneApart
  <2>2. NewRequest(f) \in FitRequest
    BY <2>1 DEF NewRequest, FitRequest, Request
  <2>3. NewJpegJob(Source(f), None) \in FitJpeg
    BY <2>1 DEF NewJpegJob, FitJpeg, JpegJob
  <2> QED BY <2>2, <2>3
<1>2. ASSUME NEW job \in FitRequest PROVE Passed(job) \in FitOngoing
  BY DEF FitRequest, Passed, FitOngoing, Request, Ongoing
<1> QED BY <1>1, <1>2

LEMMA HandsOn ==
  ASSUME NEW i \in Passes, ppTh[i] \in FitHand(i)
  PROVE  /\ ppTh[i].job.count = 1 => Again(i) \in FitRequest
         /\ ToEncode(i) \in FitJpeg
<1>1. /\ ppTh[i].out \in Buffer /\ ppTh[i].out.ch # 0 /\ ppTh[i].job.orig \in ZslBuffer
      /\ ppTh[i].job.count \in 1 .. 2 /\ ppTh[i].job.orig # None
  BY NoneApart DEF FitHand, FitOngoing, PassHand, Ongoing, Passes
<1>2. ppTh[i].job.count = 1 => Again(i) \in FitRequest
  BY <1>1 DEF Again, FitRequest, Request
<1>3. ToEncode(i) \in FitJpeg
  BY <1>1 DEF ToEncode, NewJpegJob, FitJpeg, JpegJob
<1> QED BY <1>2, <1>3

LEMMA FlushedFit ==
  ASSUME NEW id, Flushed(id), m_ongoingJpegQ.list \in Seq(FitJpeg)
  PROVE  m_ongoingJpegQ'.list \in Seq(FitJpeg)
<1>1. CASE UNCHANGED m_ongoingJpegQ
  BY <1>1
<1>2. CASE \E k \in DOMAIN m_ongoingJpegQ.list : m_ongoingJpegQ'.list = RemoveAt(m_ongoingJpegQ.list, k)
  <2>1. PICK k \in DOMAIN m_ongoingJpegQ.list : m_ongoingJpegQ'.list = RemoveAt(m_ongoingJpegQ.list, k)
    BY <1>2
  <2>2. k \in 1 .. Len(m_ongoingJpegQ.list)
    BY <2>1
  <2> QED BY <2>1, <2>2, Removed
<1> QED BY <1>1, <1>2 DEF Flushed

LEMMA JobsKept ==
  ASSUME TypeOK, TypeOK', JobsFit, Step
  PROVE  JobsFit'
<1>a. /\ ppTh \in [Passes -> {None} \cup PassHand] /\ reproc \in [Passes -> Seq(Buffer)]
      /\ None \notin PassHand /\ frameTh \in {None} \cup FrameHand
  BY NoneApart DEF TypeOK, HandTypeOK
<1>1. ASSUME NEW m \in Modes, StartDoes(m) PROVE JobsFit'
  BY <1>a, <1>1 DEF StartDoes, JobsFit
<1>2. ASSUME StartedDoes PROVE JobsFit'
  BY <1>a, <1>2 DEF StartedDoes, JobsFit
<1>3. ASSUME CancelPictureDoes PROVE JobsFit'
  BY <1>a, <1>3 DEF CancelPictureDoes, JobsFit
<1>4. ASSUME SnapshotDoneDoes PROVE JobsFit'
  BY <1>a, <1>4 DEF SnapshotDoneDoes, JobsFit
<1>5. ASSUME StoppedDoes PROVE JobsFit'
  BY <1>a, <1>5 DEF StoppedDoes, JobsFit
<1>6. ASSUME JpegEventDoes PROVE JobsFit'
  <2>1. m_ongoingJpegQ'.list \in Seq(FitJpeg)
    BY <1>6, FlushedFit DEF JpegEventDoes, JobsFit
  <2> QED BY <1>6, <2>1 DEF JpegEventDoes, JobsFit
<1>7. ASSUME NEW f \in Frames, FrameArrivesDoes(f) PROVE JobsFit'
  BY <1>a, <1>7 DEF FrameArrivesDoes, JobsFit
<1>8. ASSUME processDataDoes PROVE JobsFit'
  <2>1. frameTh.frame \in Frames
    BY <1>8 DEF processDataDoes, FrameHand
  <2>2. NewRequest(frameTh.frame) \in FitRequest /\ NewJpegJob(Source(frameTh.frame), None) \in FitJpeg
    BY <2>1, JobsMade
  <2>3. /\ Append(m_inputPPQ.list, NewRequest(frameTh.frame)) \in Seq(FitRequest)
        /\ Append(m_inputJpegQ.list, NewJpegJob(Source(frameTh.frame), None)) \in Seq(FitJpeg)
    BY <2>2 DEF JobsFit
  <2> QED BY <1>8, <2>3 DEF processDataDoes, JobsFit
<1>9. ASSUME processDataDoneDoes PROVE JobsFit'
  BY <1>a, <1>9 DEF processDataDoneDoes, JobsFit
<1>10. ASSUME NEW i \in Passes, ReprocOutputDoes(i) PROVE JobsFit'
  <2>1. CASE UNCHANGED <<ppTh, m_ongoingPPQ>>
    BY <1>10, <2>1 DEF ReprocOutputDoes, JobsFit
  <2>2. CASE /\ Loses(m_ongoingPPQ, m_ongoingPPQ')
             /\ ppTh' = [ppTh EXCEPT ![i] = [out |-> [ch |-> i, of |-> reproc[i][1].of], job |-> m_ongoingPPQ.list[1]]]
    <3>1. m_ongoingPPQ'.list \in Seq(FitOngoing) /\ m_ongoingPPQ.list[1] \in FitOngoing
      BY <2>2, ListLoses DEF JobsFit
    <3>2. reproc[i][1] \in Buffer
      BY <1>10, <1>a, HeadTail DEF ReprocOutputDoes
    <3>3. [ch |-> i, of |-> reproc[i][1].of] \in Buffer
      BY <3>2 DEF Buffer, Passes
    <3>4. m_ongoingPPQ.list[1] \in Ongoing
      BY <3>1 DEF FitOngoing
    <3>5. [out |-> [ch |-> i, of |-> reproc[i][1].of], job |-> m_ongoingPPQ.list[1]] \in FitHand(i)
      BY <3>1, <3>3, <3>4 DEF FitHand, PassHand
    <3>6. \A j \in Passes : ppTh'[j] # None => ppTh'[j] \in FitHand(j)
      BY <1>a, <2>2, <3>5 DEF JobsFit
    <3> QED BY <1>10, <3>1, <3>6 DEF ReprocOutputDoes, JobsFit
  <2> QED BY <1>10, <2>1, <2>2 DEF ReprocOutputDoes
<1>11. ASSUME NEW i \in Passes, processPPDataDoes(i) PROVE JobsFit'
  <2>1. ppTh[i] \in FitHand(i)
    BY <1>11, <1>a DEF processPPDataDoes, JobsFit
  <2>2. (ppTh[i].job.count = 1 => Again(i) \in FitRequest) /\ ToEncode(i) \in FitJpeg
    BY <2>1, HandsOn
  <2>3. /\ ppTh[i].job.count = 1 => Append(m_inputPPQ.list, Again(i)) \in Seq(FitRequest)
        /\ Append(m_inputJpegQ.list, ToEncode(i)) \in Seq(FitJpeg)
    BY <2>2 DEF JobsFit
  <2>4. \A j \in Passes : ppTh'[j] # None => ppTh'[j] \in FitHand(j)
    BY <1>11, <1>a DEF processPPDataDoes, JobsFit
  <2>5. m_inputPPQ'.list \in Seq(FitRequest) /\ m_inputJpegQ'.list \in Seq(FitJpeg)
    BY <1>11, <2>3 DEF processPPDataDoes, JobsFit
  <2> QED BY <1>11, <2>4, <2>5 DEF processPPDataDoes, JobsFit
<1>12. ASSUME DataStartDoes PROVE JobsFit'
  BY <1>a, <1>12 DEF DataStartDoes, JobsFit
<1>13. ASSUME DataStopDoes PROVE JobsFit'
  BY <1>a, <1>13 DEF DataStopDoes, JobsFit
<1>14. ASSUME DataStoppedDoes PROVE JobsFit'
  <2>1. \A S : <<>> \in Seq(S)
    OBVIOUS
  <2> QED BY <1>14, <2>1 DEF DataStoppedDoes, JobsFit
<1>15. ASSUME DataNextDoes PROVE JobsFit'
  <2>1. CASE UNCHANGED <<m_ongoingJpegQ, m_inputJpegQ>>
    BY <1>15, <2>1 DEF DataNextDoes, JobsFit
  <2>2. CASE Gets(m_ongoingJpegQ, m_ongoingJpegQ', m_inputJpegQ.list[1]) /\ Loses(m_inputJpegQ, m_inputJpegQ')
    <3>1. m_inputJpegQ'.list \in Seq(FitJpeg) /\ m_inputJpegQ.list[1] \in FitJpeg
      BY <2>2, ListLoses DEF JobsFit
    <3>2. m_ongoingJpegQ'.list \in Seq(FitJpeg)
      BY <2>2, <3>1, ListGets DEF JobsFit
    <3> QED BY <1>15, <3>1, <3>2 DEF DataNextDoes, JobsFit
  <2> QED BY <1>15, <2>1, <2>2 DEF DataNextDoes
<1>16. ASSUME encodeDataDoes PROVE JobsFit'
  <2>1. m_ongoingJpegQ.list # <<>> => RemoveAt(m_ongoingJpegQ.list, Len(m_ongoingJpegQ.list)) \in Seq(FitJpeg)
    <3>1. ASSUME m_ongoingJpegQ.list # <<>> PROVE Len(m_ongoingJpegQ.list) \in 1 .. Len(m_ongoingJpegQ.list)
      BY <3>1, FrontRemoved DEF JobsFit
    <3> QED BY <3>1, Removed DEF JobsFit
  <2> QED BY <1>16, <2>1 DEF encodeDataDoes, JobsFit
<1>17. ASSUME RecordJobDoes PROVE JobsFit'
  <2>0. /\ m_ongoingJpegQ.list \in Seq(JpegJob) /\ m_ongoingJpegQ'.list \in Seq(JpegJob)
        /\ Len(m_ongoingJpegQ'.list) = Len(m_ongoingJpegQ.list)
    BY <1>17, QueueFields DEF RecordJobDoes, TypeOK, QueueTypeOK
  <2>1. ASSUME NEW k \in DOMAIN m_ongoingJpegQ'.list PROVE m_ongoingJpegQ'.list[k] \in FitJpeg
    <3>1. k \in DOMAIN m_ongoingJpegQ.list /\ m_ongoingJpegQ'.list[k] \in JpegJob
      BY <2>0, <2>1
    <3>2. m_ongoingJpegQ.list[k] \in FitJpeg
      BY <3>1 DEF JobsFit
    <3>3. /\ m_ongoingJpegQ'.list[k].src = m_ongoingJpegQ.list[k].src
          /\ m_ongoingJpegQ'.list[k].orig = m_ongoingJpegQ.list[k].orig
      BY <1>17, <3>1 DEF RecordJobDoes
    <3> QED BY <3>1, <3>2, <3>3 DEF FitJpeg
  <2>2. m_ongoingJpegQ'.list \in Seq(FitJpeg)
    BY <2>0, <2>1
  <2> QED BY <1>17, <2>2 DEF RecordJobDoes, JobsFit
<1>18. ASSUME ProcessRawDoes PROVE JobsFit'
  BY <1>a, <1>18 DEF ProcessRawDoes, JobsFit
<1>19. ASSUME doReprocessDoes PROVE JobsFit'
  <2>1. CASE UNCHANGED <<m_inputPPQ, m_ongoingPPQ>>
    BY <1>19, <2>1 DEF doReprocessDoes, JobsFit
  <2>2. CASE Loses(m_inputPPQ, m_inputPPQ') /\ Gets(m_ongoingPPQ, m_ongoingPPQ', Passed(m_inputPPQ.list[1]))
    <3>1. m_inputPPQ'.list \in Seq(FitRequest) /\ m_inputPPQ.list[1] \in FitRequest
      BY <2>2, ListLoses DEF JobsFit
    <3>2. Passed(m_inputPPQ.list[1]) \in FitOngoing
      BY <3>1, JobsMade
    <3>3. m_ongoingPPQ'.list \in Seq(FitOngoing)
      BY <2>2, <3>2, ListGets DEF JobsFit
    <3> QED BY <1>19, <3>1, <3>3 DEF doReprocessDoes, JobsFit
  <2> QED BY <1>19, <2>1, <2>2 DEF doReprocessDoes
<1>20. ASSUME NEW id \in encoding, JpegDoneDoes(id) PROVE JobsFit'
  BY <1>a, <1>20 DEF JpegDoneDoes, JobsFit
<1>21. ASSUME SaveStepDoes PROVE JobsFit'
  <2>1. m_ongoingJpegQ'.list \in Seq(FitJpeg)
    BY <1>21, FlushedFit DEF SaveStepDoes, JobsFit
  <2> QED BY <1>21, <2>1 DEF SaveStepDoes, JobsFit
<1>22. ASSUME NoteStartDoes PROVE JobsFit'
  BY <1>a, <1>22 DEF NoteStartDoes, JobsFit
<1>23. ASSUME NoteStopDoes PROVE JobsFit'
  BY <1>a, <1>23 DEF NoteStopDoes, JobsFit
<1>24. ASSUME NoteNextDoes PROVE JobsFit'
  BY <1>a, <1>24 DEF NoteNextDoes, JobsFit
<1>25. ASSUME NoteDeliveredDoes PROVE JobsFit'
  BY <1>a, <1>25 DEF NoteDeliveredDoes, JobsFit
<1> QED BY <1>1, <1>2, <1>3, <1>4, <1>5, <1>6, <1>7, <1>8, <1>9, <1>10, <1>11, <1>12, <1>13, <1>14, <1>15, <1>16, <1>17, <1>18, <1>19, <1>20, <1>21, <1>22, <1>23, <1>24, <1>25 DEF Step

-----------------------------------------------------------------------------
(* The buffers.  What a list of jobs holds of a frame, when a job comes or  *)
(* goes.                                                                    *)
Holds(job, f) == One(Source(f) \in {job.src, job.orig})

LEMMA OneNat == \A b : One(b) \in Nat
BY DEF One

LEMMA HoldsHolding ==
  ASSUME NEW S, NEW job \in S, NEW f
  PROVE  One(job \in Holding(S, f)) = Holds(job, f)
BY DEF Holding, Holds

LEMMA JobsNat ==
  ASSUME NEW S, NEW list \in Seq(S), NEW f
  PROVE  JobsOf(list, f) \in Nat
BY JobsCounted, CountNat

LEMMA JobsNone == \A f : JobsOf(<<>>, f) = 0
<1>1. <<>> \in Seq({})
  OBVIOUS
<1> QED BY <1>1, JobsCounted, CountEmpty

LEMMA JobsAdded ==
  ASSUME NEW S, NEW list \in Seq(S), NEW x \in S, NEW f
  PROVE  JobsOf(Append(list, x), f) = JobsOf(list, f) + Holds(x, f)
<1>1. Append(list, x) \in Seq(S)
  OBVIOUS
<1>2. JobsOf(list, f) = Count(list, Holding(S, f)) /\ JobsOf(Append(list, x), f) = Count(Append(list, x), Holding(S, f))
  BY <1>1, JobsCounted
<1> QED BY <1>2, CountAppend, HoldsHolding

LEMMA JobsTaken ==
  ASSUME NEW S, NEW list \in Seq(S), list # <<>>, NEW f
  PROVE  JobsOf(list, f) = Holds(list[1], f) + JobsOf(Tail(list), f)
<1>1. Tail(list) \in Seq(S) /\ list[1] \in S
  BY HeadTail
<1>2. JobsOf(list, f) = Count(list, Holding(S, f)) /\ JobsOf(Tail(list), f) = Count(Tail(list), Holding(S, f))
  BY <1>1, JobsCounted
<1> QED BY <1>1, <1>2, CountTail, HoldsHolding

LEMMA JobsRemoved ==
  ASSUME NEW S, NEW list \in Seq(S), NEW k \in 1 .. Len(list), NEW f
  PROVE  JobsOf(list, f) = Holds(list[k], f) + JobsOf(RemoveAt(list, k), f)
<1>1. RemoveAt(list, k) \in Seq(S) /\ list[k] \in S
  BY Removed
<1>2. JobsOf(list, f) = Count(list, Holding(S, f)) /\ JobsOf(RemoveAt(list, k), f) = Count(RemoveAt(list, k), Holding(S, f))
  BY <1>1, JobsCounted
<1> QED BY <1>1, <1>2, CountRemoved, HoldsHolding

LEMMA JobsAlike ==
  ASSUME NEW S, NEW T, NEW s \in Seq(S), NEW t \in Seq(T), Len(t) = Len(s), NEW f,
         \A k \in DOMAIN s : t[k].src = s[k].src /\ t[k].orig = s[k].orig
  PROVE  JobsOf(t, f) = JobsOf(s, f)
<1>1. DOMAIN t = DOMAIN s
  OBVIOUS
<1>2. {k \in DOMAIN t : Source(f) \in {t[k].src, t[k].orig}} = {k \in DOMAIN s : Source(f) \in {s[k].src, s[k].orig}}
  BY <1>1
<1> QED BY <1>2 DEF JobsOf

(* What comes back of a job.                                                *)
LEMMA RequestBack ==
  ASSUME NEW job \in FitRequest \cup FitOngoing, NEW f \in Frames
  PROVE  /\ releasePPInputData(job) \in Seq(Back)
         /\ Count(releasePPInputData(job), {Source(f)}) = Holds(job, f)
<1>1. job \in PPJob /\ (job.src = job.orig \/ job.src.ch # 0)
  BY DEF FitRequest, FitOngoing, Request, Ongoing, PPJob
<1> QED BY <1>1, InputReleased, HoldsHolding

LEMMA JpegBack ==
  ASSUME NEW job \in FitJpeg, NEW f \in Frames
  PROVE  /\ releaseJpegJobData(job) \in Seq(Back)
         /\ Count(releaseJpegJobData(job), {Source(f)}) = Holds(job, f)
<1>1. job \in JpegJob /\ (job.orig = None \/ job.src.ch # 0)
  BY DEF FitJpeg
<1> QED BY <1>1, JpegReleased, HoldsHolding

LEMMA SpentBack ==
  ASSUME NEW job \in FitOngoing, NEW f \in Frames
  PROVE  SpentInput(job) \in Seq(Back) /\ Count(SpentInput(job), {Source(f)}) = 0
<1>1. job.src \in Buffer /\ (job.count > 1 => job.src.ch # 0)
  BY DEF FitOngoing, Ongoing
<1>2. CASE job.count > 1
  <2>1. SpentInput(job) = <<job.src>>
    BY <1>2 DEF SpentInput
  <2>2. job.src # Source(f)
    BY <1>1, <1>2, NoneApart
  <2>3. One(job.src \in {Source(f)}) = 0
    BY <2>2 DEF One
  <2>4. job.src \in Back
    BY <1>1 DEF Back
  <2>5. <<job.src>> \in Seq(Back)
    BY <2>4
  <2> QED BY <2>1, <2>3, <2>5, CountOne
<1>3. CASE ~(job.count > 1)
  <2>1. SpentInput(job) = <<>>
    BY <1>3 DEF SpentInput
  <2> QED BY <2>1, CountEmpty
<1> QED BY <1>2, <1>3

(* Who holds a frame: the ZSL channel, its thread, the queues, the threads  *)
(* of the reprocess channels, the notifier.                                 *)
FrameShare(h, f) == One(h # None /\ h.frame = f /\ h.at = "got")
HandShare(h, f) == One(h # None /\ Source(f) \in {h.job.src, h.job.orig})
Hands(th, f) == HandShare(th[1], f) + HandShare(th[2], f)
Noted(list, hand, f) == Count(list, {Source(f)}) + One(hand = Source(f))
Worked(f) ==
    JobsOf(m_inputPPQ.list, f) + JobsOf(m_ongoingPPQ.list, f) + JobsOf(m_inputJpegQ.list, f)
      + JobsOf(m_ongoingJpegQ.list, f) + Count(m_inputRawQ.list, {Source(f)})
      + Hands(ppTh, f)
Shared(f) == home[f] + FrameShare(frameTh, f) + Worked(f) + Noted(mDataQ, note.hand, f)
HandIdle == note.at = "wait" => note.hand = None
Owned == \A f \in Frames : Shared(f) = 1

LEMMA PassesCounted ==
  ASSUME NEW Q \in SUBSET Passes
  PROVE  Cardinality(Q) = One(1 \in Q) + One(2 \in Q)
<1>1. \A x \in Q : x = 1 \/ x = 2
  BY DEF Passes
<1>2. Cardinality({}) = 0 /\ Cardinality({1}) = 1 /\ Cardinality({2}) = 1
  BY FS_Singleton, FS_EmptySet
<1>3. Cardinality({1, 2}) = 2
  <2>1. IsFiniteSet({2}) /\ 1 \notin {2}
    BY FS_Singleton
  <2>2. {2} \cup {1} = {1, 2}
    OBVIOUS
  <2>3. Cardinality({2} \cup {1}) = Cardinality({2}) + 1
    BY <2>1, FS_AddElement
  <2>4. Cardinality({1, 2}) = Cardinality({2}) + 1
    BY <2>2, <2>3
  <2> QED BY <1>2, <2>4
<1>4. CASE 1 \in Q /\ 2 \in Q
  <2>1. Q = {1, 2}
    BY <1>1, <1>4
  <2> QED BY <1>3, <1>4, <2>1 DEF One
<1>5. CASE 1 \in Q /\ 2 \notin Q
  <2>1. Q = {1}
    BY <1>1, <1>5
  <2> QED BY <1>2, <1>5, <2>1 DEF One
<1>6. CASE 1 \notin Q /\ 2 \in Q
  <2>1. Q = {2}
    BY <1>1, <1>6
  <2> QED BY <1>2, <1>6, <2>1 DEF One
<1>7. CASE 1 \notin Q /\ 2 \notin Q
  <2>1. Q = {}
    BY <1>1, <1>7
  <2> QED BY <1>2, <1>7, <2>1 DEF One
<1> QED BY <1>4, <1>5, <1>6, <1>7

LEMMA Shares == \A f \in Frames : InPostProc(f) = Worked(f) /\ InNotifier(f) = Noted(mDataQ, note.hand, f) /\ InFrameTh(f) = FrameShare(frameTh, f)
<1> TAKE f \in Frames
<1>1. \A s : Cardinality({k \in DOMAIN s : s[k] = Source(f)}) = Count(s, {Source(f)})
  <2>1. \A s : {k \in DOMAIN s : s[k] = Source(f)} = {k \in DOMAIN s : s[k] \in {Source(f)}}
    OBVIOUS
  <2> QED BY <2>1 DEF Count
<1>2. Cardinality({i \in Passes : ppTh[i] # None /\ Source(f) \in {ppTh[i].job.src, ppTh[i].job.orig}})
        = HandShare(ppTh[1], f) + HandShare(ppTh[2], f)
  <2> DEFINE Q == {i \in Passes : ppTh[i] # None /\ Source(f) \in {ppTh[i].job.src, ppTh[i].job.orig}}
  <2>1. Cardinality(Q) = One(1 \in Q) + One(2 \in Q)
    BY PassesCounted
  <2>2. One(1 \in Q) = HandShare(ppTh[1], f) /\ One(2 \in Q) = HandShare(ppTh[2], f)
    BY DEF HandShare, Passes, One
  <2> QED BY <2>1, <2>2
<1>3. InPostProc(f) = Worked(f)
  BY <1>1, <1>2 DEF InPostProc, Worked, Hands
<1>4. InNotifier(f) = Noted(mDataQ, note.hand, f)
  BY <1>1 DEF InNotifier, Noted, One
<1>5. InFrameTh(f) = FrameShare(frameTh, f)
  BY DEF InFrameTh, FrameShare, One
<1> QED BY <1>3, <1>4, <1>5

LEMMA SharesNat ==
  ASSUME TypeOK, NEW f \in Frames
  PROVE  /\ home[f] \in Nat /\ FrameShare(frameTh, f) \in Nat
         /\ JobsOf(m_inputPPQ.list, f) \in Nat /\ JobsOf(m_ongoingPPQ.list, f) \in Nat
         /\ JobsOf(m_inputJpegQ.list, f) \in Nat /\ JobsOf(m_ongoingJpegQ.list, f) \in Nat
         /\ Count(m_inputRawQ.list, {Source(f)}) \in Nat
         /\ Hands(ppTh, f) \in Nat /\ Noted(mDataQ, note.hand, f) \in Nat /\ Count(mDataQ, {Source(f)}) \in Nat
         /\ Worked(f) \in Nat
<1>1. /\ m_inputPPQ.list \in Seq(Request) /\ m_ongoingPPQ.list \in Seq(Ongoing)
      /\ m_inputJpegQ.list \in Seq(JpegJob) /\ m_ongoingJpegQ.list \in Seq(JpegJob)
      /\ m_inputRawQ.list \in Seq(Buffer) /\ mDataQ \in Seq({None} \cup ZslBuffer) /\ home[f] \in Nat
  BY QueueFields DEF TypeOK, QueueTypeOK, NoteTypeOK, ChTypeOK
<1>2. /\ JobsOf(m_inputPPQ.list, f) \in Nat /\ JobsOf(m_ongoingPPQ.list, f) \in Nat
      /\ JobsOf(m_inputJpegQ.list, f) \in Nat /\ JobsOf(m_ongoingJpegQ.list, f) \in Nat
  BY <1>1, JobsNat
<1>3. Count(m_inputRawQ.list, {Source(f)}) \in Nat /\ Count(mDataQ, {Source(f)}) \in Nat
  BY <1>1, CountNat
<1>4. Hands(ppTh, f) \in Nat
  BY OneNat DEF HandShare, Hands
<1>5. Noted(mDataQ, note.hand, f) \in Nat
  BY <1>3, OneNat DEF Noted
<1>6. Worked(f) \in Nat
  BY <1>2, <1>3, <1>4 DEF Worked
<1>7. FrameShare(frameTh, f) \in Nat
  BY OneNat DEF FrameShare
<1> QED BY <1>1, <1>2, <1>3, <1>4, <1>5, <1>6, <1>7

LEMMA HandsChange ==
  ASSUME TypeOK, NEW i \in Passes, NEW x, ppTh' = [ppTh EXCEPT ![i] = x], NEW f
  PROVE  Hands(ppTh', f) + HandShare(ppTh[i], f) = Hands(ppTh, f) + HandShare(x, f)
<1>1. DOMAIN ppTh = Passes /\ (i = 1 \/ i = 2)
  BY DEF TypeOK, HandTypeOK, Passes
<1>2. \A h : HandShare(h, f) \in Nat
  BY OneNat DEF HandShare
<1>3. CASE i = 1
  <2>1. ppTh'[1] = x /\ ppTh'[2] = ppTh[2]
    BY <1>1, <1>3 DEF Passes
  <2> QED BY <1>2, <1>3, <2>1 DEF Hands
<1>4. CASE i = 2
  <2>1. ppTh'[2] = x /\ ppTh'[1] = ppTh[1]
    BY <1>1, <1>4 DEF Passes
  <2> QED BY <1>2, <1>4, <2>1 DEF Hands
<1> QED BY <1>1, <1>3, <1>4

(* One list grows, or shrinks.                                              *)
LEMMA JobsGets ==
  ASSUME NEW T, NEW q, NEW r, NEW x \in T, q.list \in Seq(T), q.active, Gets(q, r, x), NEW f
  PROVE  JobsOf(r.list, f) = JobsOf(q.list, f) + Holds(x, f)
BY JobsAdded DEF Gets

LEMMA JobsLoses ==
  ASSUME NEW T, NEW q, NEW r, q.list \in Seq(T), Loses(q, r)
  PROVE  \A f : JobsOf(q.list, f) = Holds(q.list[1], f) + JobsOf(r.list, f)
BY JobsTaken DEF Loses

LEMMA FlushedShares ==
  ASSUME TypeOK, JobsFit, NEW id, Flushed(id), NEW f \in Frames
  PROVE  home'[f] + JobsOf(m_ongoingJpegQ'.list, f) = home[f] + JobsOf(m_ongoingJpegQ.list, f)
<1>1. CASE UNCHANGED <<m_ongoingJpegQ, home>>
  BY <1>1
<1>2. CASE \E k \in DOMAIN m_ongoingJpegQ.list :
             /\ m_ongoingJpegQ'.list = RemoveAt(m_ongoingJpegQ.list, k)
             /\ Returned(releaseJpegJobData(m_ongoingJpegQ.list[k]))
  <2>1. PICK k \in DOMAIN m_ongoingJpegQ.list :
             /\ m_ongoingJpegQ'.list = RemoveAt(m_ongoingJpegQ.list, k)
             /\ Returned(releaseJpegJobData(m_ongoingJpegQ.list[k]))
    BY <1>2
  <2>2. m_ongoingJpegQ.list \in Seq(FitJpeg) /\ k \in 1 .. Len(m_ongoingJpegQ.list)
    BY <2>1 DEF JobsFit
  <2>3. m_ongoingJpegQ.list[k] \in FitJpeg
    BY <2>2
  <2>4. JobsOf(m_ongoingJpegQ.list, f) = Holds(m_ongoingJpegQ.list[k], f) + JobsOf(m_ongoingJpegQ'.list, f)
    BY <2>1, <2>2, JobsRemoved
  <2>5. Count(releaseJpegJobData(m_ongoingJpegQ.list[k]), {Source(f)}) = Holds(m_ongoingJpegQ.list[k], f)
    BY <2>3, JpegBack
  <2>6. home'[f] = home[f] + Count(releaseJpegJobData(m_ongoingJpegQ.list[k]), {Source(f)})
    BY <2>1 DEF Returned
  <2>7. home[f] \in Nat /\ Holds(m_ongoingJpegQ.list[k], f) \in Nat
    BY OneNat DEF TypeOK, ChTypeOK, Holds
  <2>8. RemoveAt(m_ongoingJpegQ.list, k) \in Seq(FitJpeg)
    BY <2>2, Removed
  <2>9. JobsOf(m_ongoingJpegQ'.list, f) \in Nat
    BY <2>1, <2>8, JobsNat
  <2> QED BY <2>4, <2>5, <2>6, <2>7, <2>9
<1> QED BY <1>1, <1>2 DEF Flushed

(* None among the pictures holds nothing.                                   *)
LEMMA PicturesAdded ==
  ASSUME TypeOK, NEW x \in {None} \cup ZslBuffer, NEW f \in Frames
  PROVE  /\ Count(Append(mDataQ, x), {Source(f)}) = Count(mDataQ, {Source(f)}) + One(x = Source(f))
         /\ One(None = Source(f)) = 0
<1>1. mDataQ \in Seq({None} \cup ZslBuffer)
  BY DEF TypeOK, NoteTypeOK
<1>2. Count(Append(mDataQ, x), {Source(f)}) = Count(mDataQ, {Source(f)}) + One(x \in {Source(f)})
  BY <1>1, CountAppend
<1>3. One(x \in {Source(f)}) = One(x = Source(f))
  BY DEF One
<1>4. None # Source(f)
  BY NoneApart
<1> QED BY <1>2, <1>3, <1>4 DEF One

ShareNats(f) ==
    /\ home[f] \in Nat /\ FrameShare(frameTh, f) \in Nat
    /\ JobsOf(m_inputPPQ.list, f) \in Nat /\ JobsOf(m_ongoingPPQ.list, f) \in Nat
    /\ JobsOf(m_inputJpegQ.list, f) \in Nat /\ JobsOf(m_ongoingJpegQ.list, f) \in Nat
    /\ Count(m_inputRawQ.list, {Source(f)}) \in Nat
    /\ Hands(ppTh, f) \in Nat /\ Noted(mDataQ, note.hand, f) \in Nat /\ Count(mDataQ, {Source(f)}) \in Nat
    /\ Worked(f) \in Nat

LEMMA AllNat == TypeOK => \A f \in Frames : ShareNats(f)
BY SharesNat DEF ShareNats

ListsSame ==
    /\ m_inputPPQ'.list = m_inputPPQ.list /\ m_ongoingPPQ'.list = m_ongoingPPQ.list
    /\ m_inputJpegQ'.list = m_inputJpegQ.list /\ m_ongoingJpegQ'.list = m_ongoingJpegQ.list
    /\ m_inputRawQ'.list = m_inputRawQ.list

LEMMA WorkedSame ==
  ASSUME ListsSame, ppTh' = ppTh
  PROVE  \A f : Worked(f)' = Worked(f)
BY DEF Worked, ListsSame

LEMMA WorkedGets ==
  ASSUME NEW f, ShareNats(f), ShareNats(f)', NEW d \in Nat, UNCHANGED <<m_ongoingPPQ, m_ongoingJpegQ, ppTh>>,
         \/ JobsOf(m_inputPPQ'.list, f) = JobsOf(m_inputPPQ.list, f) + d /\ UNCHANGED <<m_inputJpegQ, m_inputRawQ>>
         \/ JobsOf(m_inputJpegQ'.list, f) = JobsOf(m_inputJpegQ.list, f) + d /\ UNCHANGED <<m_inputPPQ, m_inputRawQ>>
         \/ /\ Count(m_inputRawQ'.list, {Source(f)}) = Count(m_inputRawQ.list, {Source(f)}) + d
            /\ UNCHANGED <<m_inputPPQ, m_inputJpegQ>>
  PROVE  Worked(f)' = Worked(f) + d
<1>1. CASE JobsOf(m_inputPPQ'.list, f) = JobsOf(m_inputPPQ.list, f) + d /\ UNCHANGED <<m_inputJpegQ, m_inputRawQ>>
  BY <1>1 DEF Worked, ShareNats
<1>2. CASE JobsOf(m_inputJpegQ'.list, f) = JobsOf(m_inputJpegQ.list, f) + d /\ UNCHANGED <<m_inputPPQ, m_inputRawQ>>
  BY <1>2 DEF Worked, ShareNats
<1>3. CASE /\ Count(m_inputRawQ'.list, {Source(f)}) = Count(m_inputRawQ.list, {Source(f)}) + d
           /\ UNCHANGED <<m_inputPPQ, m_inputJpegQ>>
  BY <1>3 DEF Worked, ShareNats
<1> QED BY <1>1, <1>2, <1>3

LEMMA HandedOn ==
  ASSUME NEW f, ShareNats(f), ShareNats(f)', NEW d \in Nat, UNCHANGED <<m_ongoingPPQ, m_ongoingJpegQ>>,
         Hands(ppTh', f) + d = Hands(ppTh, f),
         \/ JobsOf(m_inputPPQ'.list, f) = JobsOf(m_inputPPQ.list, f) + d /\ UNCHANGED <<m_inputJpegQ, m_inputRawQ>>
         \/ JobsOf(m_inputJpegQ'.list, f) = JobsOf(m_inputJpegQ.list, f) + d /\ UNCHANGED <<m_inputPPQ, m_inputRawQ>>
  PROVE  Worked(f)' = Worked(f)
<1>1. CASE JobsOf(m_inputPPQ'.list, f) = JobsOf(m_inputPPQ.list, f) + d /\ UNCHANGED <<m_inputJpegQ, m_inputRawQ>>
  BY <1>1 DEF Worked, ShareNats
<1>2. CASE JobsOf(m_inputJpegQ'.list, f) = JobsOf(m_inputJpegQ.list, f) + d /\ UNCHANGED <<m_inputPPQ, m_inputRawQ>>
  BY <1>2 DEF Worked, ShareNats
<1> QED BY <1>1, <1>2

LEMMA HandedOut ==
  ASSUME NEW f, ShareNats(f), ShareNats(f)', NEW d \in Nat, UNCHANGED <<m_ongoingPPQ, m_ongoingJpegQ, m_inputPPQ, m_inputJpegQ>>,
         Hands(ppTh', f) + d = Hands(ppTh, f),
         Count(m_inputRawQ'.list, {Source(f)}) = Count(m_inputRawQ.list, {Source(f)})
  PROVE  Worked(f)' + d = Worked(f)
BY DEF Worked, ShareNats

LEMMA JpegGone ==
  ASSUME NEW f, ShareNats(f), ShareNats(f)', NEW d \in Nat, UNCHANGED <<m_ongoingPPQ, m_inputPPQ, m_inputJpegQ, m_inputRawQ, ppTh>>,
         JobsOf(m_ongoingJpegQ.list, f) = d + JobsOf(m_ongoingJpegQ'.list, f)
  PROVE  Worked(f)' + d = Worked(f)
BY DEF Worked, ShareNats

LEMMA ZslBack ==
  ASSUME NEW f, ShareNats(f), ShareNats(f)', NEW d \in Nat, UNCHANGED <<frameTh, mDataQ, note>>,
         home'[f] = home[f] + d, Worked(f)' + d = Worked(f)
  PROVE  Shared(f)' = Shared(f)
BY DEF Shared, ShareNats

LEMMA ZslNoted ==
  ASSUME NEW f, ShareNats(f), ShareNats(f)', NEW d \in Nat, UNCHANGED <<frameTh, home>>,
         Noted(mDataQ', note'.hand, f) = Noted(mDataQ, note.hand, f) + d, Worked(f)' + d = Worked(f)
  PROVE  Shared(f)' = Shared(f)
BY DEF Shared, ShareNats

LEMMA ZslTaken ==
  ASSUME NEW f, ShareNats(f), ShareNats(f)', NEW d \in Nat, UNCHANGED <<home, mDataQ, note>>,
         FrameShare(frameTh, f) = d, FrameShare(frameTh', f) = 0, Worked(f)' = Worked(f) + d
  PROVE  Shared(f)' = Shared(f)
BY DEF Shared, ShareNats

LEMMA OwnedSame ==
  ASSUME Owned, ListsSame, UNCHANGED <<home, frameTh, ppTh, mDataQ>>, note'.hand = note.hand
  PROVE  Owned'
<1>1. ASSUME NEW f \in Frames PROVE Shared(f)' = Shared(f)
  BY DEF Shared, Worked, ListsSame
<1> QED BY <1>1 DEF Owned

LEMMA IdleKept ==
  ASSUME TypeOK, HandIdle, Step
  PROVE  HandIdle'
<1>0. note.at \in NotePlaces
  BY NoteFields DEF TypeOK, NoteTypeOK
<1>1. ASSUME NEW m \in Modes, StartDoes(m) PROVE HandIdle'
  BY <1>0, <1>1 DEF StartDoes, HandIdle
<1>2. ASSUME StartedDoes PROVE HandIdle'
  BY <1>0, <1>2 DEF StartedDoes, HandIdle
<1>3. ASSUME CancelPictureDoes PROVE HandIdle'
  BY <1>0, <1>3 DEF CancelPictureDoes, HandIdle
<1>4. ASSUME SnapshotDoneDoes PROVE HandIdle'
  BY <1>0, <1>4 DEF SnapshotDoneDoes, HandIdle
<1>5. ASSUME StoppedDoes PROVE HandIdle'
  BY <1>0, <1>5 DEF StoppedDoes, HandIdle
<1>6. ASSUME JpegEventDoes PROVE HandIdle'
  BY <1>0, <1>6 DEF JpegEventDoes, HandIdle
<1>7. ASSUME NEW f \in Frames, FrameArrivesDoes(f) PROVE HandIdle'
  BY <1>0, <1>7 DEF FrameArrivesDoes, HandIdle
<1>8. ASSUME processDataDoes PROVE HandIdle'
  BY <1>0, <1>8 DEF processDataDoes, HandIdle
<1>9. ASSUME processDataDoneDoes PROVE HandIdle'
  BY <1>0, <1>9 DEF processDataDoneDoes, HandIdle
<1>10. ASSUME NEW i \in Passes, ReprocOutputDoes(i) PROVE HandIdle'
  BY <1>0, <1>10 DEF ReprocOutputDoes, HandIdle
<1>11. ASSUME NEW i \in Passes, processPPDataDoes(i) PROVE HandIdle'
  BY <1>0, <1>11 DEF processPPDataDoes, HandIdle
<1>12. ASSUME DataStartDoes PROVE HandIdle'
  BY <1>0, <1>12 DEF DataStartDoes, HandIdle
<1>13. ASSUME DataStopDoes PROVE HandIdle'
  BY <1>0, <1>13 DEF DataStopDoes, HandIdle
<1>14. ASSUME DataStoppedDoes PROVE HandIdle'
  BY <1>0, <1>14 DEF DataStoppedDoes, HandIdle
<1>15. ASSUME DataNextDoes PROVE HandIdle'
  BY <1>0, <1>15 DEF DataNextDoes, HandIdle
<1>16. ASSUME encodeDataDoes PROVE HandIdle'
  BY <1>0, <1>16 DEF encodeDataDoes, HandIdle
<1>17. ASSUME RecordJobDoes PROVE HandIdle'
  BY <1>0, <1>17 DEF RecordJobDoes, HandIdle
<1>18. ASSUME ProcessRawDoes PROVE HandIdle'
  BY <1>0, <1>18 DEF ProcessRawDoes, HandIdle
<1>19. ASSUME doReprocessDoes PROVE HandIdle'
  BY <1>0, <1>19 DEF doReprocessDoes, HandIdle
<1>20. ASSUME NEW id \in encoding, JpegDoneDoes(id) PROVE HandIdle'
  BY <1>0, <1>20 DEF JpegDoneDoes, HandIdle
<1>21. ASSUME SaveStepDoes PROVE HandIdle'
  BY <1>0, <1>21 DEF SaveStepDoes, HandIdle
<1>22. ASSUME NoteStartDoes PROVE HandIdle'
  BY <1>0, <1>22 DEF NoteStartDoes, HandIdle
<1>23. ASSUME NoteStopDoes PROVE HandIdle'
  BY <1>0, <1>23 DEF NoteStopDoes, HandIdle
<1>24. ASSUME NoteNextDoes PROVE HandIdle'
  BY <1>0, <1>24 DEF NoteNextDoes, HandIdle
<1>25. ASSUME NoteDeliveredDoes PROVE HandIdle'
  BY <1>0, <1>25 DEF NoteDeliveredDoes, HandIdle
<1> QED BY <1>1, <1>2, <1>3, <1>4, <1>5, <1>6, <1>7, <1>8, <1>9, <1>10, <1>11, <1>12, <1>13, <1>14, <1>15, <1>16, <1>17, <1>18, <1>19, <1>20, <1>21, <1>22, <1>23, <1>24, <1>25 DEF Step

LEMMA DroppedCounts ==
  ASSUME m_inputPPQ.list \in Seq(FitRequest), m_ongoingPPQ.list \in Seq(FitOngoing),
         m_inputJpegQ.list \in Seq(FitJpeg), m_ongoingJpegQ.list \in Seq(FitJpeg),
         m_inputRawQ.list \in Seq(Buffer), NEW f \in Frames
  PROVE  Count(Dropped, {Source(f)})
           = JobsOf(m_ongoingJpegQ.list, f) + JobsOf(m_ongoingPPQ.list, f) + JobsOf(m_inputJpegQ.list, f)
               + JobsOf(m_inputPPQ.list, f) + Count(m_inputRawQ.list, {Source(f)})
<1>1. ASSUME NEW list \in Seq(FitJpeg)
      PROVE  JpegsOf(list) \in Seq(Back) /\ Count(JpegsOf(list), {Source(f)}) = JobsOf(list, f)
  <2>1. FitJpeg \subseteq JpegJob
    BY DEF FitJpeg
  <2>2. list \in Seq(JpegJob)
    BY <2>1
  <2>3. \A k \in DOMAIN list : list[k].orig = None \/ list[k].src.ch # 0
    BY DEF FitJpeg
  <2> QED BY <2>2, <2>3, JpegsReleased
<1>2. ASSUME NEW list, list \in Seq(FitRequest) \/ list \in Seq(FitOngoing)
      PROVE  InputsOf(list) \in Seq(Back) /\ Count(InputsOf(list), {Source(f)}) = JobsOf(list, f)
  <2>1. FitRequest \subseteq PPJob /\ FitOngoing \subseteq PPJob
    BY DEF FitRequest, FitOngoing, Request, Ongoing, PPJob
  <2>2. list \in Seq(PPJob)
    BY <1>2, <2>1
  <2>3. \A k \in DOMAIN list : list[k].src = list[k].orig \/ list[k].src.ch # 0
    BY <1>2 DEF FitRequest, FitOngoing
  <2> QED BY <2>2, <2>3, InputsReleased
<1> DEFINE a == JpegsOf(m_ongoingJpegQ.list)
           b == InputsOf(m_ongoingPPQ.list)
           c == JpegsOf(m_inputJpegQ.list)
           d == InputsOf(m_inputPPQ.list)
           e == m_inputRawQ.list
           V == {Source(f)}
<1>3. a \in Seq(Back) /\ Count(a, V) = JobsOf(m_ongoingJpegQ.list, f)
  BY <1>1
<1>4. b \in Seq(Back) /\ Count(b, V) = JobsOf(m_ongoingPPQ.list, f)
  BY <1>2
<1>5. c \in Seq(Back) /\ Count(c, V) = JobsOf(m_inputJpegQ.list, f)
  BY <1>1
<1>6. d \in Seq(Back) /\ Count(d, V) = JobsOf(m_inputPPQ.list, f)
  BY <1>2
<1>7. e \in Seq(Back)
  BY DEF Back
<1>8. Dropped = a \o b \o c \o d \o e
  BY DEF Dropped
<1> HIDE DEF a, b, c, d, e, V
<1>9. a \o b \in Seq(Back) /\ Count(a \o b, V) = Count(a, V) + Count(b, V)
  BY <1>3, <1>4, CountConcat
<1>x. PICK ab \in Seq(Back) : ab = a \o b
  BY <1>9
<1>10. a \o b \o c \in Seq(Back) /\ Count(a \o b \o c, V) = Count(a \o b, V) + Count(c, V)
  <2>1. ab \o c \in Seq(Back) /\ Count(ab \o c, V) = Count(ab, V) + Count(c, V)
    BY <1>5, CountConcat
  <2> QED BY <1>x, <2>1
<1>y. PICK abc \in Seq(Back) : abc = a \o b \o c
  BY <1>10
<1>11. a \o b \o c \o d \in Seq(Back) /\ Count(a \o b \o c \o d, V) = Count(a \o b \o c, V) + Count(d, V)
  <2>1. abc \o d \in Seq(Back) /\ Count(abc \o d, V) = Count(abc, V) + Count(d, V)
    BY <1>6, CountConcat
  <2> QED BY <1>y, <2>1
<1>z. PICK abcd \in Seq(Back) : abcd = a \o b \o c \o d
  BY <1>11
<1>12. Count(a \o b \o c \o d \o e, V) = Count(a \o b \o c \o d, V) + Count(e, V)
  <2>1. Count(abcd \o e, V) = Count(abcd, V) + Count(e, V)
    BY <1>7, CountConcat
  <2> QED BY <1>z, <2>1
<1>13. Count(Dropped, V) = Count(a, V) + Count(b, V) + Count(c, V) + Count(d, V) + Count(e, V)
  BY <1>8, <1>9, <1>10, <1>11, <1>12
<1> QED BY <1>3, <1>4, <1>5, <1>6, <1>13 DEF e, V

LEMMA OwnedKept ==
  ASSUME TypeOK, TypeOK', DataProtocol, QueuesOpen, JobsFit, HandIdle, Owned, Step
  PROVE  Owned'
<1>n. \A f \in Frames : ShareNats(f) /\ ShareNats(f)'
  <2>1. (TypeOK => \A f \in Frames : ShareNats(f))'
    BY AllNat, PTL
  <2> QED BY <2>1, AllNat
<1>f. /\ m_inputPPQ.list \in Seq(FitRequest) /\ m_ongoingPPQ.list \in Seq(FitOngoing)
      /\ m_inputJpegQ.list \in Seq(FitJpeg) /\ m_ongoingJpegQ.list \in Seq(FitJpeg)
      /\ m_inputRawQ.list \in Seq(Buffer) /\ mDataQ \in Seq({None} \cup ZslBuffer)
  BY QueueFields DEF JobsFit, TypeOK, QueueTypeOK, NoteTypeOK
<1>a. /\ data.at \in {"encode", "record", "raw", "reproc"} => data.active /\ hal \in {"running", "stopping"}
      /\ data.at = "saveStop" => ~data.active
  BY WorksWhenOpen DEF DataProtocol
<1>o. data.active => m_ongoingPPQ.active /\ m_ongoingJpegQ.active
  BY DEF QueuesOpen, Open, AllActive
<1>p. \A S, x : x \in S => \A V : Count(<<x>>, V) = One(x \in V)
  BY CountOne
<1>t. home \in [Frames -> Nat] /\ None \notin FrameHand /\ None \notin PassHand /\ None \notin ZslBuffer
      /\ \A h : FrameShare(None, h) = 0 /\ HandShare(None, h) = 0
  BY NoneApart DEF TypeOK, ChTypeOK, FrameShare, HandShare, One
<1>1. ASSUME NEW m \in Modes, StartDoes(m) PROVE Owned'
  BY <1>1, OwnedSame DEF StartDoes, ListsSame
<1>2. ASSUME StartedDoes PROVE Owned'
  BY <1>2, OwnedSame DEF StartedDoes, ListsSame
<1>3. ASSUME CancelPictureDoes PROVE Owned'
  BY <1>3, OwnedSame DEF CancelPictureDoes, ListsSame
<1>4. ASSUME SnapshotDoneDoes PROVE Owned'
  BY <1>4, OwnedSame DEF SnapshotDoneDoes, ListsSame
<1>5. ASSUME StoppedDoes PROVE Owned'
  BY <1>5, OwnedSame DEF StoppedDoes, ListsSame
<1>6. ASSUME JpegEventDoes PROVE Owned'
  <2>1. ASSUME NEW f \in Frames PROVE home'[f] + JobsOf(m_ongoingJpegQ'.list, f) = home[f] + JobsOf(m_ongoingJpegQ.list, f)
    <3>1. CASE UNCHANGED <<home, m_ongoingJpegQ>>
      BY <3>1
    <3>2. CASE Flushed(evt_queue[1].id)
      BY <3>2, FlushedShares
    <3> QED BY <1>6, <3>1, <3>2 DEF JpegEventDoes
  <2>2. ASSUME NEW f \in Frames PROVE Count(mDataQ', {Source(f)}) = Count(mDataQ, {Source(f)})
    <3>1. Count(Append(mDataQ, None), {Source(f)}) = Count(mDataQ, {Source(f)}) + One(None = Source(f))
          /\ One(None = Source(f)) = 0 /\ Count(mDataQ, {Source(f)}) \in Nat
      BY <1>n, PicturesAdded DEF ShareNats
    <3>2. mDataQ' = mDataQ \/ mDataQ' = Append(mDataQ, None)
      BY <1>6 DEF JpegEventDoes
    <3>3. Count(Append(mDataQ, None), {Source(f)}) = Count(mDataQ, {Source(f)})
      BY <3>1
    <3>4. CASE mDataQ' = mDataQ
      BY <3>4
    <3>5. CASE mDataQ' = Append(mDataQ, None)
      BY <3>3, <3>5
    <3> QED BY <3>2, <3>4, <3>5
  <2>3. ASSUME NEW f \in Frames PROVE Shared(f)' = Shared(f)
    <3>1. UNCHANGED <<frameTh, ppTh, note, m_inputPPQ, m_ongoingPPQ, m_inputJpegQ, m_inputRawQ>> /\ ShareNats(f) /\ ShareNats(f)'
      BY <1>6, <1>n DEF JpegEventDoes
    <3>2. Worked(f)' + JobsOf(m_ongoingJpegQ.list, f) = Worked(f) + JobsOf(m_ongoingJpegQ'.list, f)
      BY <3>1 DEF Worked, ShareNats
    <3>3. Noted(mDataQ', note'.hand, f) = Noted(mDataQ, note.hand, f)
      BY <2>2, <3>1 DEF Noted
    <3> QED BY <2>1, <3>1, <3>2, <3>3 DEF Shared, ShareNats
  <2> QED BY <2>3 DEF Owned
<1>7. ASSUME NEW f \in Frames, FrameArrivesDoes(f) PROVE Owned'
  <2>1. ASSUME NEW g \in Frames PROVE home'[g] + FrameShare(frameTh', g) = home[g] + FrameShare(frameTh, g)
    <3>1. FrameShare(frameTh, g) = 0
      BY <1>7, <1>t DEF FrameArrivesDoes
    <3>2. FrameShare(frameTh', g) = IF g = f THEN 1 ELSE 0
      BY <1>7, <1>t DEF FrameArrivesDoes, FrameShare, One
    <3>3. home'[g] = IF g = f THEN home[g] - 1 ELSE home[g]
      BY <1>7, <1>t DEF FrameArrivesDoes
    <3>4. home[g] \in Nat
      BY <1>t
    <3> QED BY <3>1, <3>2, <3>3, <3>4
  <2>2. ASSUME NEW g \in Frames PROVE Shared(g)' = Shared(g)
    <3>1. UNCHANGED <<ppTh, mDataQ, note>> /\ ListsSame
      BY <1>7 DEF FrameArrivesDoes, ListsSame
    <3>2. Worked(g)' = Worked(g)
      BY <3>1 DEF Worked, ListsSame
    <3>3. Shared(g)' = (home'[g] + FrameShare(frameTh', g)) + Worked(g)' + Noted(mDataQ', note'.hand, g)
      BY DEF Shared
    <3>4. Shared(g) = (home[g] + FrameShare(frameTh, g)) + Worked(g) + Noted(mDataQ, note.hand, g)
      BY DEF Shared
    <3> QED BY <2>1, <3>1, <3>2, <3>3, <3>4
  <2> QED BY <2>2 DEF Owned
<1>8. ASSUME processDataDoes PROVE Owned'
  <2>1. ASSUME NEW f \in Frames PROVE Shared(f)' = Shared(f)
    <3>0. /\ UNCHANGED <<ppTh, mDataQ, note, m_ongoingPPQ, m_ongoingJpegQ>>
          /\ frameTh.frame \in Frames /\ ShareNats(f) /\ ShareNats(f)'
      BY <1>8, <1>n DEF processDataDoes, FrameHand
    <3>1. FrameShare(frameTh, f) = One(frameTh.frame = f)
      BY <1>8, <1>t DEF processDataDoes, FrameShare, One
    <3>2. FrameShare(frameTh', f) = 0
      BY <1>8, <1>t DEF processDataDoes, FrameShare, One
    <3>3. CASE /\ m_inputPPQ'.list = Append(m_inputPPQ.list, NewRequest(frameTh.frame))
               /\ UNCHANGED <<m_inputJpegQ, m_inputRawQ, home>>
      <4>1. NewRequest(frameTh.frame) \in FitRequest
        BY <3>0, JobsMade
      <4>2. JobsOf(m_inputPPQ'.list, f) = JobsOf(m_inputPPQ.list, f) + Holds(NewRequest(frameTh.frame), f)
        BY <1>f, <3>3, <4>1, JobsAdded
      <4>3. Holds(NewRequest(frameTh.frame), f) = One(frameTh.frame = f)
        BY DEF Holds, NewRequest, Source, One
      <4>4. PICK d \in Nat : d = One(frameTh.frame = f)
        BY OneNat
      <4>w. Worked(f)' = Worked(f) + d
        BY <3>0, <3>3, <4>2, <4>3, <4>4, WorkedGets
      <4>5. FrameShare(frameTh, f) = d
        BY <3>1, <4>4
      <4> QED BY <3>0, <3>2, <3>3, <4>5, <4>w, ZslTaken
    <3>4. CASE /\ m_inputRawQ'.list = Append(m_inputRawQ.list, Source(frameTh.frame))
               /\ UNCHANGED <<m_inputPPQ, m_inputJpegQ, home>>
      <4>1. Source(frameTh.frame) \in Buffer
        BY <3>0, NoneApart
      <4>2. Count(m_inputRawQ'.list, {Source(f)}) = Count(m_inputRawQ.list, {Source(f)}) + One(Source(frameTh.frame) \in {Source(f)})
        BY <1>f, <3>4, <4>1, CountAppend
      <4>3. One(Source(frameTh.frame) \in {Source(f)}) = One(frameTh.frame = f)
        BY DEF Source, One
      <4>4. PICK d \in Nat : d = One(frameTh.frame = f)
        BY OneNat
      <4>w. Worked(f)' = Worked(f) + d
        BY <3>0, <3>4, <4>2, <4>3, <4>4, WorkedGets
      <4>5. FrameShare(frameTh, f) = d
        BY <3>1, <4>4
      <4> QED BY <3>0, <3>2, <3>4, <4>5, <4>w, ZslTaken
    <3>5. CASE /\ m_inputJpegQ'.list = Append(m_inputJpegQ.list, NewJpegJob(Source(frameTh.frame), None))
               /\ UNCHANGED <<m_inputPPQ, m_inputRawQ, home>>
      <4>1. NewJpegJob(Source(frameTh.frame), None) \in FitJpeg
        BY <3>0, JobsMade
      <4>2. JobsOf(m_inputJpegQ'.list, f) = JobsOf(m_inputJpegQ.list, f) + Holds(NewJpegJob(Source(frameTh.frame), None), f)
        BY <1>f, <3>5, <4>1, JobsAdded
      <4>3. Holds(NewJpegJob(Source(frameTh.frame), None), f) = One(frameTh.frame = f)
        <5>1. None # Source(f)
          BY NoneApart
        <5> QED BY <5>1 DEF Holds, NewJpegJob, Source, One
      <4>4. PICK d \in Nat : d = One(frameTh.frame = f)
        BY OneNat
      <4>w. Worked(f)' = Worked(f) + d
        BY <3>0, <3>5, <4>2, <4>3, <4>4, WorkedGets
      <4>5. FrameShare(frameTh, f) = d
        BY <3>1, <4>4
      <4> QED BY <3>0, <3>2, <3>5, <4>5, <4>w, ZslTaken
    <3>6. CASE Returned(<<Source(frameTh.frame)>>) /\ UNCHANGED <<m_inputPPQ, m_inputJpegQ, m_inputRawQ>>
      <4>1. home'[f] = home[f] + Count(<<Source(frameTh.frame)>>, {Source(f)})
        BY <3>6 DEF Returned
      <4>2. Count(<<Source(frameTh.frame)>>, {Source(f)}) = One(Source(frameTh.frame) \in {Source(f)})
        BY CountOne
      <4>3. One(Source(frameTh.frame) \in {Source(f)}) = One(frameTh.frame = f)
        BY DEF Source, One
      <4>w. Worked(f)' = Worked(f)
        BY <3>0, <3>6 DEF Worked, ShareNats
      <4> QED BY <3>0, <3>1, <3>2, <4>1, <4>2, <4>3, <4>w DEF Shared, ShareNats
    <3> QED BY <1>8, <3>3, <3>4, <3>5, <3>6 DEF processDataDoes
  <2> QED BY <2>1 DEF Owned
<1>9. ASSUME processDataDoneDoes PROVE Owned'
  <2>1. ASSUME NEW f \in Frames PROVE Shared(f)' = Shared(f)
    <3>1. FrameShare(frameTh, f) = 0 /\ FrameShare(frameTh', f) = 0
      BY <1>9, <1>t DEF processDataDoneDoes, FrameShare, One
    <3>2. UNCHANGED <<home, ppTh, mDataQ, note>> /\ ListsSame
      BY <1>9 DEF processDataDoneDoes, ListsSame
    <3>3. Worked(f)' = Worked(f)
      BY <3>2, WorkedSame
    <3> QED BY <3>1, <3>2, <3>3 DEF Shared
  <2> QED BY <2>1 DEF Owned
<1>10. ASSUME NEW i \in Passes, ReprocOutputDoes(i) PROVE Owned'
  <2>1. CASE UNCHANGED <<ppTh, m_ongoingPPQ>>
    BY <1>10, <2>1, OwnedSame DEF ReprocOutputDoes, ListsSame
  <2>2. CASE /\ Loses(m_ongoingPPQ, m_ongoingPPQ')
             /\ ppTh' = [ppTh EXCEPT ![i] = [out |-> [ch |-> i, of |-> reproc[i][1].of], job |-> m_ongoingPPQ.list[1]]]
    <3> DEFINE h == [out |-> [ch |-> i, of |-> reproc[i][1].of], job |-> m_ongoingPPQ.list[1]]
    <3>1. ASSUME NEW f \in Frames PROVE Shared(f)' = Shared(f)
      <4>0. /\ UNCHANGED <<home, frameTh, mDataQ, note, m_inputPPQ, m_inputJpegQ, m_ongoingJpegQ, m_inputRawQ>>
            /\ ppTh[i] = None /\ ShareNats(f) /\ ShareNats(f)'
        BY <1>10, <1>n DEF ReprocOutputDoes
      <4>1. JobsOf(m_ongoingPPQ.list, f) = Holds(m_ongoingPPQ.list[1], f) + JobsOf(m_ongoingPPQ'.list, f)
        <5>1. PICK s \in Seq(FitOngoing) : s = m_ongoingPPQ.list
          BY <1>f
        <5>2. s # <<>> /\ m_ongoingPPQ'.list = Tail(s)
          BY <2>2, <5>1 DEF Loses
        <5>3. JobsOf(s, f) = Holds(s[1], f) + JobsOf(Tail(s), f)
          BY <5>2, JobsTaken
        <5> QED BY <5>1, <5>2, <5>3
      <4>2. Hands(ppTh', f) + HandShare(ppTh[i], f)
              = Hands(ppTh, f) + HandShare(h, f)
        BY <2>2, HandsChange
      <4>3. HandShare(ppTh[i], f) = 0
        BY <1>t, <4>0
      <4>4. HandShare(h, f) = Holds(m_ongoingPPQ.list[1], f)
        <5>1. h # None
          <6>1. ppTh'[i] = h
            BY <2>2 DEF TypeOK, HandTypeOK
          <6>2. m_ongoingPPQ.list[1] \in FitOngoing
            BY <1>f, <2>2, ListLoses
          <6>3. reproc[i][1] \in Buffer
            BY <1>10, HeadTail DEF ReprocOutputDoes, TypeOK, HandTypeOK
          <6>4. h \in PassHand
            BY <6>2, <6>3 DEF FitOngoing, PassHand, Buffer, Passes
          <6> HIDE DEF h
          <6> QED BY <1>t, <6>4
        <5> QED BY <5>1 DEF HandShare, Holds
      <4>5. Holds(m_ongoingPPQ.list[1], f) \in Nat
        BY OneNat DEF Holds
      <4> HIDE DEF h
      <4>w. Worked(f)' = Worked(f)
        BY <4>0, <4>1, <4>2, <4>3, <4>4, <4>5 DEF Worked, ShareNats
      <4> QED BY <4>0, <4>w DEF Shared, ShareNats
    <3> QED BY <3>1 DEF Owned
  <2> QED BY <1>10, <2>1, <2>2 DEF ReprocOutputDoes
<1>11. ASSUME NEW i \in Passes, processPPDataDoes(i) PROVE Owned'
  <2>1. ASSUME NEW f \in Frames PROVE Shared(f)' = Shared(f)
    <3>0. /\ UNCHANGED <<frameTh, mDataQ, note, m_ongoingPPQ, m_ongoingJpegQ>>
          /\ ShareNats(f) /\ ShareNats(f)' /\ home'[f] \in Nat
      BY <1>11, <1>n DEF processPPDataDoes, ShareNats
    <3>1. ppTh[i] \in FitHand(i)
      BY <1>11, <1>t DEF processPPDataDoes, JobsFit
    <3>2. /\ ppTh[i].job \in FitOngoing /\ ppTh[i].out \in Buffer /\ ppTh[i].out # Source(f)
          /\ ppTh[i].job.orig \in ZslBuffer
      <4>1. ppTh[i].job \in FitOngoing /\ ppTh[i].out \in Buffer /\ ppTh[i].out.ch = i /\ i # 0
        BY <3>1 DEF FitHand, PassHand, Passes
      <4> QED BY <4>1, NoneApart DEF FitOngoing, Ongoing
    <3>3. Hands(ppTh', f) + Holds(ppTh[i].job, f)
            = Hands(ppTh, f)
      <4>1. ppTh' = [ppTh EXCEPT ![i] = None]
        BY <1>11 DEF processPPDataDoes
      <4>2. Hands(ppTh', f) + HandShare(ppTh[i], f)
              = Hands(ppTh, f) + HandShare(None, f)
        BY <4>1, HandsChange
      <4>3. HandShare(ppTh[i], f) = Holds(ppTh[i].job, f)
        BY <1>11, <1>t DEF processPPDataDoes, HandShare, Holds
      <4> QED BY <1>t, <3>0, <4>2, <4>3 DEF ShareNats
    <3>4. Holds(ppTh[i].job, f) \in Nat
      BY OneNat DEF Holds
    <3>5. (ppTh[i].job.count = 1 => Again(i) \in FitRequest) /\ ToEncode(i) \in FitJpeg
      BY <3>1, HandsOn
    <3>6. Count(releasePPInputData(ppTh[i].job), {Source(f)}) = Holds(ppTh[i].job, f)
          /\ releasePPInputData(ppTh[i].job) \in Seq(Back)
      BY <3>2, RequestBack
    <3>7. SpentInput(ppTh[i].job) \in Seq(Back) /\ Count(SpentInput(ppTh[i].job), {Source(f)}) = 0
      BY <3>2, SpentBack
    <3>8. Holds(Again(i), f) = One(Source(f) = ppTh[i].job.orig) /\ Holds(ToEncode(i), f) = One(Source(f) = ppTh[i].job.orig)
      BY <3>2 DEF Holds, Again, ToEncode, NewJpegJob, One
    <3>9. Holds(ppTh[i].job, f) = One(Source(f) = ppTh[i].job.orig)
      <4>1. ppTh[i].job.src # ppTh[i].job.orig => ppTh[i].job.src # Source(f)
        BY <3>2, NoneApart DEF FitOngoing, Ongoing
      <4> QED BY <4>1 DEF Holds, One
    <3>10. Count(<<ppTh[i].out>>, {Source(f)}) = 0 /\ <<ppTh[i].out>> \in Seq(Back)
      <4>1. Count(<<ppTh[i].out>>, {Source(f)}) = One(ppTh[i].out \in {Source(f)})
        BY CountOne
      <4>2. ppTh[i].out \in Back
        BY <3>2 DEF Back
      <4> QED BY <3>2, <4>1, <4>2 DEF One
    <3>11. CASE /\ m_inputRawQ'.list = Append(m_inputRawQ.list, ppTh[i].out)
                /\ Returned(releasePPInputData(ppTh[i].job)) /\ UNCHANGED <<m_inputPPQ, m_inputJpegQ>>
      <4>1. Count(m_inputRawQ'.list, {Source(f)}) = Count(m_inputRawQ.list, {Source(f)}) + One(ppTh[i].out \in {Source(f)})
        BY <1>f, <3>2, <3>11, CountAppend
      <4>2. One(ppTh[i].out \in {Source(f)}) = 0
        BY <3>2 DEF One
      <4>3. home'[f] = home[f] + Holds(ppTh[i].job, f)
        BY <3>6, <3>11 DEF Returned
      <4>w. Worked(f)' + Holds(ppTh[i].job, f) = Worked(f)
        <5>1. Count(m_inputRawQ'.list, {Source(f)}) = Count(m_inputRawQ.list, {Source(f)})
          BY <3>0, <4>1, <4>2 DEF ShareNats
        <5> QED BY <3>0, <3>3, <3>4, <3>11, <5>1, HandedOut
      <4> QED BY <3>0, <3>4, <4>3, <4>w, ZslBack
    <3>12. CASE /\ m_inputPPQ'.list = Append(m_inputPPQ.list, Again(i)) /\ ppTh[i].job.count = 1
                /\ UNCHANGED <<m_inputJpegQ, m_inputRawQ, home>>
      <4>1. JobsOf(m_inputPPQ'.list, f) = JobsOf(m_inputPPQ.list, f) + Holds(Again(i), f)
        BY <1>f, <3>5, <3>12, JobsAdded
      <4>w. Worked(f)' = Worked(f)
        <5>1. JobsOf(m_inputPPQ'.list, f) = JobsOf(m_inputPPQ.list, f) + Holds(ppTh[i].job, f)
          BY <3>8, <3>9, <4>1
        <5> QED BY <3>0, <3>3, <3>4, <3>12, <5>1, HandedOn
      <4> QED BY <3>0, <3>12, <4>w DEF Shared, ShareNats
    <3>13. CASE /\ m_inputJpegQ'.list = Append(m_inputJpegQ.list, ToEncode(i))
                /\ Returned(SpentInput(ppTh[i].job)) /\ UNCHANGED <<m_inputPPQ, m_inputRawQ>>
      <4>1. JobsOf(m_inputJpegQ'.list, f) = JobsOf(m_inputJpegQ.list, f) + Holds(ToEncode(i), f)
        BY <1>f, <3>5, <3>13, JobsAdded
      <4>2. home'[f] = home[f] + 0
        BY <3>7, <3>13 DEF Returned
      <4>w. Worked(f)' = Worked(f)
        <5>1. JobsOf(m_inputJpegQ'.list, f) = JobsOf(m_inputJpegQ.list, f) + Holds(ppTh[i].job, f)
          BY <3>8, <3>9, <4>1
        <5> QED BY <3>0, <3>3, <3>4, <3>13, <5>1, HandedOn
      <4> QED BY <3>0, <4>2, <4>w DEF Shared, ShareNats
    <3>14. ASSUME UNCHANGED <<m_inputPPQ, m_inputJpegQ, m_inputRawQ>>, home'[f] = home[f] + Holds(ppTh[i].job, f)
           PROVE  Shared(f)' = Shared(f)
      <4>w. Worked(f)' + Holds(ppTh[i].job, f) = Worked(f)
        BY <3>0, <3>3, <3>4, <3>14, HandedOut
      <4> QED BY <3>0, <3>4, <3>14, <4>w, ZslBack
    <3>15. CASE /\ UNCHANGED <<m_inputPPQ, m_inputJpegQ, m_inputRawQ>>
                /\ Returned(releasePPInputData(ppTh[i].job) \o <<ppTh[i].out>>)
      <4>1. Count(releasePPInputData(ppTh[i].job) \o <<ppTh[i].out>>, {Source(f)})
              = Count(releasePPInputData(ppTh[i].job), {Source(f)}) + Count(<<ppTh[i].out>>, {Source(f)})
        <5>1. PICK s \in Seq(Back) : s = releasePPInputData(ppTh[i].job)
          BY <3>6
        <5>2. PICK t \in Seq(Back) : t = <<ppTh[i].out>>
          BY <3>10
        <5>3. Count(s \o t, {Source(f)}) = Count(s, {Source(f)}) + Count(t, {Source(f)})
          BY CountConcat
        <5> QED BY <5>1, <5>2, <5>3
      <4>2. home'[f] = home[f] + Holds(ppTh[i].job, f)
        BY <3>4, <3>6, <3>10, <3>15, <4>1 DEF Returned
      <4> QED BY <3>14, <3>15, <4>2
    <3>16. CASE /\ UNCHANGED <<m_inputPPQ, m_inputJpegQ, m_inputRawQ>> /\ ppTh[i].job.count = 1
                /\ Returned(SpentInput(ppTh[i].job) \o releasePPInputData(Again(i)))
      <4>1. /\ releasePPInputData(Again(i)) \in Seq(Back)
            /\ Count(releasePPInputData(Again(i)), {Source(f)}) = Holds(Again(i), f)
        BY <3>5, <3>16, RequestBack
      <4>2. Count(SpentInput(ppTh[i].job) \o releasePPInputData(Again(i)), {Source(f)})
              = Count(SpentInput(ppTh[i].job), {Source(f)}) + Count(releasePPInputData(Again(i)), {Source(f)})
        BY <3>7, <4>1, CountConcat
      <4>3. home'[f] = home[f] + Holds(ppTh[i].job, f)
        BY <3>4, <3>7, <3>8, <3>9, <3>16, <4>1, <4>2 DEF Returned
      <4> QED BY <3>14, <3>16, <4>3
    <3>17. CASE /\ UNCHANGED <<m_inputPPQ, m_inputJpegQ, m_inputRawQ>>
                /\ Returned(SpentInput(ppTh[i].job) \o releaseJpegJobData(ToEncode(i)))
      <4>1. /\ releaseJpegJobData(ToEncode(i)) \in Seq(Back)
            /\ Count(releaseJpegJobData(ToEncode(i)), {Source(f)}) = Holds(ToEncode(i), f)
        BY <3>5, <3>17, JpegBack
      <4>2. Count(SpentInput(ppTh[i].job) \o releaseJpegJobData(ToEncode(i)), {Source(f)})
              = Count(SpentInput(ppTh[i].job), {Source(f)}) + Count(releaseJpegJobData(ToEncode(i)), {Source(f)})
        BY <3>7, <4>1, CountConcat
      <4>3. home'[f] = home[f] + Holds(ppTh[i].job, f)
        BY <3>4, <3>7, <3>8, <3>9, <3>17, <4>1, <4>2 DEF Returned
      <4> QED BY <3>14, <3>17, <4>3
    <3> QED BY <1>11, <3>11, <3>12, <3>13, <3>15, <3>16, <3>17 DEF processPPDataDoes
  <2> QED BY <2>1 DEF Owned
<1>12. ASSUME DataStartDoes PROVE Owned'
  BY <1>12, OwnedSame DEF DataStartDoes, ListsSame
<1>13. ASSUME DataStopDoes PROVE Owned'
  BY <1>13, OwnedSame DEF DataStopDoes, ListsSame
<1>14. ASSUME DataStoppedDoes PROVE Owned'
  <2>1. ASSUME NEW f \in Frames PROVE Shared(f)' = Shared(f)
    <3>0. /\ UNCHANGED <<frameTh, ppTh, mDataQ, note>> /\ ShareNats(f) /\ ShareNats(f)'
      BY <1>14, <1>n DEF DataStoppedDoes
    <3>1. home'[f] = home[f] + Count(Dropped, {Source(f)})
      BY <1>14 DEF DataStoppedDoes, Returned
    <3>2. Count(Dropped, {Source(f)})
            = JobsOf(m_ongoingJpegQ.list, f) + JobsOf(m_ongoingPPQ.list, f) + JobsOf(m_inputJpegQ.list, f)
                + JobsOf(m_inputPPQ.list, f) + Count(m_inputRawQ.list, {Source(f)})
      BY <1>f, DroppedCounts
    <3>3. /\ JobsOf(m_inputPPQ'.list, f) = 0 /\ JobsOf(m_ongoingPPQ'.list, f) = 0
          /\ JobsOf(m_inputJpegQ'.list, f) = 0 /\ JobsOf(m_ongoingJpegQ'.list, f) = 0
          /\ Count(m_inputRawQ'.list, {Source(f)}) = 0
      BY <1>14, JobsNone, CountEmpty DEF DataStoppedDoes
    <3>4. Worked(f) = Count(Dropped, {Source(f)}) + Hands(ppTh, f)
      BY <3>0, <3>2 DEF Worked, ShareNats
    <3>5. Worked(f)' = Hands(ppTh, f)
      BY <3>0, <3>3 DEF Worked, ShareNats
    <3>6. PICK d \in Nat : d = Count(Dropped, {Source(f)})
      BY <3>0, <3>2 DEF ShareNats
    <3>7. home'[f] = home[f] + d /\ Worked(f)' + d = Worked(f)
      BY <3>0, <3>1, <3>4, <3>5, <3>6 DEF ShareNats
    <3> QED BY <3>0, <3>7, ZslBack
  <2> QED BY <2>1 DEF Owned
<1>15. ASSUME DataNextDoes PROVE Owned'
  <2>1. CASE UNCHANGED <<m_ongoingJpegQ, m_inputJpegQ>>
    BY <1>15, <2>1, OwnedSame DEF DataNextDoes, ListsSame
  <2>2. CASE /\ Gets(m_ongoingJpegQ, m_ongoingJpegQ', m_inputJpegQ.list[1]) /\ Loses(m_inputJpegQ, m_inputJpegQ')
             /\ data.active
    <3>1. ASSUME NEW f \in Frames PROVE Shared(f)' = Shared(f)
      <4>0. /\ UNCHANGED <<home, frameTh, ppTh, mDataQ, note, m_inputPPQ, m_ongoingPPQ, m_inputRawQ>>
            /\ ShareNats(f) /\ ShareNats(f)'
        BY <1>15, <1>n DEF DataNextDoes
      <4>1. JobsOf(m_inputJpegQ.list, f) = Holds(m_inputJpegQ.list[1], f) + JobsOf(m_inputJpegQ'.list, f)
        <5>1. PICK s \in Seq(FitJpeg) : s = m_inputJpegQ.list
          BY <1>f
        <5>2. s # <<>> /\ m_inputJpegQ'.list = Tail(s)
          BY <2>2, <5>1 DEF Loses
        <5>3. JobsOf(s, f) = Holds(s[1], f) + JobsOf(Tail(s), f)
          BY <5>2, JobsTaken
        <5> QED BY <5>1, <5>2, <5>3
      <4>2. m_inputJpegQ.list[1] \in FitJpeg
        BY <1>f, <2>2, ListLoses
      <4>3. JobsOf(m_ongoingJpegQ'.list, f) = JobsOf(m_ongoingJpegQ.list, f) + Holds(m_inputJpegQ.list[1], f)
        BY <1>f, <1>o, <2>2, <4>2, JobsGets
      <4>4. Holds(m_inputJpegQ.list[1], f) \in Nat
        BY OneNat DEF Holds
      <4>w. Worked(f)' = Worked(f)
        BY <4>0, <4>1, <4>3, <4>4 DEF Worked, ShareNats
      <4> QED BY <4>0, <4>w DEF Shared, ShareNats
    <3> QED BY <3>1 DEF Owned
  <2> QED BY <1>15, <2>1, <2>2 DEF DataNextDoes
<1>16. ASSUME encodeDataDoes PROVE Owned'
  <2>1. CASE UNCHANGED <<m_ongoingJpegQ, home, queued, told>>
    BY <1>16, <2>1, OwnedSame DEF encodeDataDoes, ListsSame
  <2>2. CASE /\ m_ongoingJpegQ.list # <<>>
             /\ m_ongoingJpegQ'.list = RemoveAt(m_ongoingJpegQ.list, Len(m_ongoingJpegQ.list))
             /\ Returned(releaseJpegJobData(m_ongoingJpegQ.list[Len(m_ongoingJpegQ.list)]))
    <3>1. ASSUME NEW f \in Frames PROVE Shared(f)' = Shared(f)
      <4>0. /\ UNCHANGED <<frameTh, ppTh, mDataQ, note, m_inputPPQ, m_ongoingPPQ, m_inputJpegQ, m_inputRawQ>>
            /\ ShareNats(f) /\ ShareNats(f)'
        BY <1>16, <1>n DEF encodeDataDoes
      <4>1. Len(m_ongoingJpegQ.list) \in 1 .. Len(m_ongoingJpegQ.list)
        BY <1>f, <2>2, FrontRemoved
      <4>2. PICK k \in 1 .. Len(m_ongoingJpegQ.list) : k = Len(m_ongoingJpegQ.list)
        BY <4>1
      <4>3. JobsOf(m_ongoingJpegQ.list, f) = Holds(m_ongoingJpegQ.list[k], f) + JobsOf(m_ongoingJpegQ'.list, f)
        BY <1>f, <2>2, <4>2, JobsRemoved
      <4>4. m_ongoingJpegQ.list[k] \in FitJpeg
        BY <1>f
      <4>5. Count(releaseJpegJobData(m_ongoingJpegQ.list[k]), {Source(f)}) = Holds(m_ongoingJpegQ.list[k], f)
        BY <4>4, JpegBack
      <4>6. home'[f] = home[f] + Holds(m_ongoingJpegQ.list[k], f)
        BY <2>2, <4>2, <4>5 DEF Returned
      <4>7. Holds(m_ongoingJpegQ.list[k], f) \in Nat
        BY OneNat DEF Holds
      <4>w. Worked(f)' + Holds(m_ongoingJpegQ.list[k], f) = Worked(f)
        BY <4>0, <4>3, <4>7, JpegGone
      <4> QED BY <4>0, <4>6, <4>7, <4>w, ZslBack
    <3> QED BY <3>1 DEF Owned
  <2> QED BY <1>16, <2>1, <2>2 DEF encodeDataDoes
<1>17. ASSUME RecordJobDoes PROVE Owned'
  <2>0. m_ongoingJpegQ'.list \in Seq(JpegJob)
    BY QueueFields DEF TypeOK, QueueTypeOK
  <2>1. ASSUME NEW f \in Frames PROVE Shared(f)' = Shared(f)
    <3>1. JobsOf(m_ongoingJpegQ'.list, f) = JobsOf(m_ongoingJpegQ.list, f)
      <4>1. PICK s \in Seq(FitJpeg) : s = m_ongoingJpegQ.list
        BY <1>f
      <4>2. PICK t \in Seq(JpegJob) : t = m_ongoingJpegQ'.list
        BY <2>0
      <4>3. Len(t) = Len(s) /\ \A k \in DOMAIN s : t[k].src = s[k].src /\ t[k].orig = s[k].orig
        BY <1>17, <4>1, <4>2 DEF RecordJobDoes
      <4>4. JobsOf(t, f) = JobsOf(s, f)
        BY <4>3, JobsAlike
      <4> QED BY <4>1, <4>2, <4>4
    <3>2. UNCHANGED <<home, frameTh, ppTh, mDataQ, note, m_inputPPQ, m_ongoingPPQ, m_inputJpegQ, m_inputRawQ>>
      BY <1>17 DEF RecordJobDoes
    <3> QED BY <3>1, <3>2 DEF Shared, Worked
  <2> QED BY <2>1 DEF Owned
<1>18. ASSUME ProcessRawDoes PROVE Owned'
  <2>1. ASSUME NEW f \in Frames PROVE Shared(f)' = Shared(f)
    <3> DEFINE b == m_inputRawQ.list[1]
    <3>0. /\ UNCHANGED <<frameTh, ppTh, note, m_inputPPQ, m_ongoingPPQ, m_inputJpegQ, m_ongoingJpegQ>>
          /\ ShareNats(f) /\ ShareNats(f)' /\ b \in Buffer
      BY <1>18, <1>n DEF ProcessRawDoes
    <3>1. Count(m_inputRawQ.list, {Source(f)}) = One(b \in {Source(f)}) + Count(m_inputRawQ'.list, {Source(f)})
      BY <1>18, <1>f, CountTail DEF ProcessRawDoes, Loses
    <3>2. One(b \in {Source(f)}) = One(b = Source(f)) /\ One(b = Source(f)) \in Nat
      BY DEF One
    <3>3. CASE mDataQ' = Append(mDataQ, IF b.ch = 0 THEN b ELSE None) /\ home' = home
      <4>1. PICK x : x = IF b.ch = 0 THEN b ELSE None
        OBVIOUS
      <4>2. x \in {None} \cup ZslBuffer
        BY <3>0, <4>1 DEF ZslBuffer, Buffer
      <4>3. /\ Count(mDataQ', {Source(f)}) = Count(mDataQ, {Source(f)}) + One(x = Source(f))
            /\ One(None = Source(f)) = 0
        BY <3>3, <4>1, <4>2, PicturesAdded
      <4>4. One(x = Source(f)) = One(b = Source(f))
        BY <3>0, <4>1, NoneApart DEF One
      <4> HIDE DEF b
      <4>n. Noted(mDataQ', note'.hand, f) = Noted(mDataQ, note.hand, f) + One(x = Source(f))
        BY <3>0, <4>3, OneNat DEF Noted, ShareNats
      <4>w. Worked(f)' + One(b = Source(f)) = Worked(f)
        BY <3>0, <3>1, <3>2 DEF Worked, ShareNats
      <4>5. Noted(mDataQ', note'.hand, f) = Noted(mDataQ, note.hand, f) + One(b = Source(f))
        BY <4>4, <4>n
      <4> QED BY <3>0, <3>2, <3>3, <4>5, <4>w, ZslNoted
    <3>4. CASE Returned(<<b>>) /\ mDataQ' = mDataQ
      <4>1. home'[f] = home[f] + Count(<<b>>, {Source(f)})
        BY <3>4 DEF Returned
      <4>2. Count(<<b>>, {Source(f)}) = One(b \in {Source(f)})
        BY CountOne
      <4> HIDE DEF b
      <4>w. Worked(f)' + One(b = Source(f)) = Worked(f)
        BY <3>0, <3>1, <3>2 DEF Worked, ShareNats
      <4> QED BY <3>0, <3>2, <3>4, <4>1, <4>2, <4>w DEF Shared, ShareNats
    <3> QED BY <1>18, <3>3, <3>4 DEF ProcessRawDoes
  <2> QED BY <2>1 DEF Owned
<1>19. ASSUME doReprocessDoes PROVE Owned'
  <2>1. CASE UNCHANGED <<m_inputPPQ, m_ongoingPPQ>>
    BY <1>19, <2>1, OwnedSame DEF doReprocessDoes, ListsSame
  <2>2. CASE Loses(m_inputPPQ, m_inputPPQ') /\ Gets(m_ongoingPPQ, m_ongoingPPQ', Passed(m_inputPPQ.list[1]))
    <3>1. ASSUME NEW f \in Frames PROVE Shared(f)' = Shared(f)
      <4>0. /\ UNCHANGED <<home, frameTh, ppTh, mDataQ, note, m_inputJpegQ, m_ongoingJpegQ, m_inputRawQ>>
            /\ ShareNats(f) /\ ShareNats(f)' /\ data.at = "reproc"
        BY <1>19, <1>n DEF doReprocessDoes
      <4>1. JobsOf(m_inputPPQ.list, f) = Holds(m_inputPPQ.list[1], f) + JobsOf(m_inputPPQ'.list, f)
        <5>1. PICK s \in Seq(FitRequest) : s = m_inputPPQ.list
          BY <1>f
        <5>2. s # <<>> /\ m_inputPPQ'.list = Tail(s)
          BY <2>2, <5>1 DEF Loses
        <5>3. JobsOf(s, f) = Holds(s[1], f) + JobsOf(Tail(s), f)
          BY <5>2, JobsTaken
        <5> QED BY <5>1, <5>2, <5>3
      <4>2. Passed(m_inputPPQ.list[1]) \in FitOngoing
        BY <1>f, <2>2, ListLoses, JobsMade
      <4>3. JobsOf(m_ongoingPPQ'.list, f) = JobsOf(m_ongoingPPQ.list, f) + Holds(Passed(m_inputPPQ.list[1]), f)
        BY <1>a, <1>f, <1>o, <2>2, <4>0, <4>2, JobsGets
      <4>4. Holds(Passed(m_inputPPQ.list[1]), f) = Holds(m_inputPPQ.list[1], f)
        BY DEF Holds, Passed
      <4>5. Holds(m_inputPPQ.list[1], f) \in Nat
        BY OneNat DEF Holds
      <4>w. Worked(f)' = Worked(f)
        BY <4>0, <4>1, <4>3, <4>4, <4>5 DEF Worked, ShareNats
      <4> QED BY <4>0, <4>w DEF Shared, ShareNats
    <3> QED BY <3>1 DEF Owned
  <2> QED BY <1>19, <2>1, <2>2 DEF doReprocessDoes
<1>20. ASSUME NEW id \in encoding, JpegDoneDoes(id) PROVE Owned'
  BY <1>20, OwnedSame DEF JpegDoneDoes, ListsSame
<1>21. ASSUME SaveStepDoes PROVE Owned'
  <2>1. ASSUME NEW f \in Frames PROVE home'[f] + JobsOf(m_ongoingJpegQ'.list, f) = home[f] + JobsOf(m_ongoingJpegQ.list, f)
    <3>1. CASE UNCHANGED <<home, m_ongoingJpegQ>>
      BY <3>1
    <3>2. CASE Flushed(m_inputSaveQ.list[1])
      BY <3>2, FlushedShares
    <3> QED BY <1>21, <3>1, <3>2 DEF SaveStepDoes
  <2>2. ASSUME NEW f \in Frames PROVE Count(mDataQ', {Source(f)}) = Count(mDataQ, {Source(f)})
    <3>1. Count(Append(mDataQ, None), {Source(f)}) = Count(mDataQ, {Source(f)}) + One(None = Source(f))
          /\ One(None = Source(f)) = 0 /\ Count(mDataQ, {Source(f)}) \in Nat
      BY <1>n, PicturesAdded DEF ShareNats
    <3>2. mDataQ' = mDataQ \/ mDataQ' = Append(mDataQ, None)
      BY <1>21 DEF SaveStepDoes
    <3>3. Count(Append(mDataQ, None), {Source(f)}) = Count(mDataQ, {Source(f)})
      BY <3>1
    <3>4. CASE mDataQ' = mDataQ
      BY <3>4
    <3>5. CASE mDataQ' = Append(mDataQ, None)
      BY <3>3, <3>5
    <3> QED BY <3>2, <3>4, <3>5
  <2>3. ASSUME NEW f \in Frames PROVE Shared(f)' = Shared(f)
    <3>1. UNCHANGED <<frameTh, ppTh, note, m_inputPPQ, m_ongoingPPQ, m_inputJpegQ, m_inputRawQ>> /\ ShareNats(f) /\ ShareNats(f)'
      BY <1>21, <1>n DEF SaveStepDoes
    <3>2. Worked(f)' + JobsOf(m_ongoingJpegQ.list, f) = Worked(f) + JobsOf(m_ongoingJpegQ'.list, f)
      BY <3>1 DEF Worked, ShareNats
    <3>3. Noted(mDataQ', note'.hand, f) = Noted(mDataQ, note.hand, f)
      BY <2>2, <3>1 DEF Noted
    <3> QED BY <2>1, <3>1, <3>2, <3>3 DEF Shared, ShareNats
  <2> QED BY <2>3 DEF Owned
<1>22. ASSUME NoteStartDoes PROVE Owned'
  BY <1>22, OwnedSame DEF NoteStartDoes, ListsSame
<1>23. ASSUME NoteStopDoes PROVE Owned'
  <2>1. ASSUME NEW f \in Frames PROVE Shared(f)' = Shared(f)
    <3>0. /\ UNCHANGED <<frameTh, ppTh>> /\ ListsSame /\ note'.hand = note.hand /\ ShareNats(f) /\ ShareNats(f)'
      BY <1>23, <1>n DEF NoteStopDoes, ListsSame
    <3>1. home'[f] = home[f] + Count(mDataQ, {Source(f)})
      BY <1>23 DEF NoteStopDoes, Returned
    <3>2. Count(mDataQ', {Source(f)}) = 0
      BY <1>23, CountEmpty DEF NoteStopDoes
    <3>3. Worked(f)' = Worked(f)
      BY <3>0, WorkedSame
    <3>4. Noted(mDataQ', note'.hand, f) + Count(mDataQ, {Source(f)}) = Noted(mDataQ, note.hand, f)
      BY <3>0, <3>2, OneNat DEF Noted, ShareNats
    <3> QED BY <3>0, <3>1, <3>3, <3>4 DEF Shared, ShareNats
  <2> QED BY <2>1 DEF Owned
<1>24. ASSUME NoteNextDoes PROVE Owned'
  <2>1. CASE UNCHANGED <<note, mDataQ, home>>
    BY <1>24, <2>1, OwnedSame DEF NoteNextDoes, ListsSame
  <2>2. CASE mDataQ # <<>> /\ mDataQ' = Tail(mDataQ)
    <3>1. ASSUME NEW f \in Frames PROVE Shared(f)' = Shared(f)
      <4>0. /\ UNCHANGED <<frameTh, ppTh>> /\ ListsSame /\ ShareNats(f) /\ ShareNats(f)' /\ note.hand = None
        BY <1>24, <1>n DEF NoteNextDoes, ListsSame, HandIdle
      <4>1. Count(mDataQ, {Source(f)}) = One(mDataQ[1] \in {Source(f)}) + Count(mDataQ', {Source(f)})
        BY <1>f, <2>2, CountTail
      <4>2. One(note.hand = Source(f)) = 0
        BY <4>0, NoneApart DEF One
      <4>3. One(mDataQ[1] \in {Source(f)}) = One(mDataQ[1] = Source(f)) /\ One(mDataQ[1] = Source(f)) \in Nat
        BY DEF One
      <4>4. CASE note'.hand = mDataQ[1] /\ home' = home
        <5>1. Noted(mDataQ', note'.hand, f) = Noted(mDataQ, note.hand, f)
          BY <4>0, <4>1, <4>2, <4>3, <4>4 DEF Noted, ShareNats
        <5>2. Worked(f)' = Worked(f)
          BY <4>0, WorkedSame
        <5> QED BY <4>0, <4>4, <5>1, <5>2 DEF Shared
      <4>5. CASE note'.hand = note.hand /\ Returned(<<mDataQ[1]>>)
        <5>1. home'[f] = home[f] + Count(<<mDataQ[1]>>, {Source(f)})
          BY <4>5 DEF Returned
        <5>2. Count(<<mDataQ[1]>>, {Source(f)}) = One(mDataQ[1] \in {Source(f)})
          BY CountOne
        <5>3. Noted(mDataQ', note'.hand, f) + One(mDataQ[1] = Source(f)) = Noted(mDataQ, note.hand, f)
          BY <4>0, <4>1, <4>3, <4>5, OneNat DEF Noted, ShareNats
        <5>4. Worked(f)' = Worked(f)
          BY <4>0, WorkedSame
        <5> QED BY <4>0, <4>3, <5>1, <5>2, <5>3, <5>4 DEF Shared, ShareNats
      <4> QED BY <1>24, <2>2, <4>4, <4>5 DEF NoteNextDoes
    <3> QED BY <3>1 DEF Owned
  <2> QED BY <1>24, <2>1, <2>2 DEF NoteNextDoes
<1>25. ASSUME NoteDeliveredDoes PROVE Owned'
  <2>1. ASSUME NEW f \in Frames PROVE Shared(f)' = Shared(f)
    <3>0. /\ UNCHANGED <<frameTh, ppTh, mDataQ>> /\ ListsSame /\ ShareNats(f) /\ ShareNats(f)' /\ note'.hand = None
      BY <1>25, <1>n DEF NoteDeliveredDoes, ListsSame
    <3>1. home'[f] = home[f] + Count(<<note.hand>>, {Source(f)})
      BY <1>25 DEF NoteDeliveredDoes, Returned
    <3>2. Count(<<note.hand>>, {Source(f)}) = One(note.hand \in {Source(f)})
      BY CountOne
    <3>3. One(note.hand \in {Source(f)}) = One(note.hand = Source(f)) /\ One(note'.hand = Source(f)) = 0
      BY <3>0, NoneApart DEF One
    <3>4. Noted(mDataQ', note'.hand, f) + One(note.hand = Source(f)) = Noted(mDataQ, note.hand, f)
      BY <3>0, <3>3, OneNat DEF Noted, ShareNats
    <3>5. Worked(f)' = Worked(f)
      BY <3>0, WorkedSame
    <3> QED BY <3>0, <3>1, <3>2, <3>3, <3>4, <3>5, OneNat DEF Shared, ShareNats
  <2> QED BY <2>1 DEF Owned
<1> QED BY <1>1, <1>2, <1>3, <1>4, <1>5, <1>6, <1>7, <1>8, <1>9, <1>10, <1>11, <1>12, <1>13, <1>14, <1>15, <1>16, <1>17, <1>18, <1>19, <1>20, <1>21, <1>22, <1>23, <1>24, <1>25 DEF Step

-----------------------------------------------------------------------------
(* What every state keeps of the protocol of the threads and of the owners  *)
(* of the buffers.                                                          *)
Custody ==
    /\ TypeOK /\ DataProtocol /\ QueuesOpen /\ Named /\ Working /\ JobsFit /\ HandIdle /\ Owned

LEMMA CustodyInit == Init => Custody
<1> SUFFICES ASSUME Init PROVE Custody
  OBVIOUS
<1>1. TypeOK
  BY InitTyped
<1>2. /\ hal = "stopped" /\ mTotalNumReproc = 0 /\ wanted = 0 /\ evt_queue = <<>> /\ encoding = {}
      /\ data = [at |-> "wait", active |-> FALSE, id |-> 0] /\ dataCmds = <<>> /\ dataSync = 0
      /\ frameTh = None /\ ppTh = [i \in Passes |-> None] /\ reproc = [i \in Passes |-> <<>>]
      /\ note.at = "wait" /\ note.hand = None /\ mDataQ = <<>> /\ home = [f \in Frames |-> 1]
  BY DEF Init
<1>3. /\ m_inputPPQ = Empty /\ m_ongoingPPQ = Empty /\ m_inputJpegQ = Empty /\ m_ongoingJpegQ = Empty
      /\ m_inputRawQ = Empty /\ m_inputSaveQ = Empty
  BY DEF Init
<1>4. Empty.list = <<>> /\ Empty.active = TRUE
  BY DEF Empty
<1>5. /\ m_inputPPQ.list = <<>> /\ m_ongoingPPQ.list = <<>> /\ m_inputJpegQ.list = <<>>
      /\ m_ongoingJpegQ.list = <<>> /\ m_inputRawQ.list = <<>> /\ m_inputSaveQ.list = <<>> /\ m_ongoingJpegQ.active
  BY <1>3, <1>4
<1>6. ppTh[1] = None /\ ppTh[2] = None /\ \A i \in Passes : ppTh[i] = None /\ reproc[i] = <<>>
  BY <1>2 DEF Passes
<1>7. DataProtocol
  BY <1>2 DEF DataProtocol, Phase, Wanting, Asleep, NextsOnly
<1>8. QueuesOpen
  BY <1>2, <1>5, <1>6 DEF QueuesOpen, Open, AllEmpty, Closed, PassesIdle
<1>9. Named
  BY <1>2, <1>5 DEF Named
<1>10. Working
  BY <1>2 DEF Working
<1>11. JobsFit
  BY <1>5, <1>6 DEF JobsFit
<1>12. HandIdle
  BY <1>2 DEF HandIdle
<1>13. ASSUME NEW f \in Frames PROVE Shared(f) = 1
  <2>1. home[f] = 1 /\ FrameShare(frameTh, f) = 0
    BY <1>2 DEF FrameShare, One
  <2>2. Hands(ppTh, f) = 0
    BY <1>6 DEF Hands, HandShare, One
  <2>3. Worked(f) = 0
    BY <1>5, <2>2, JobsNone, CountEmpty DEF Worked
  <2>4. One(note.hand = Source(f)) = 0
    BY <1>2, NoneApart DEF One
  <2>5. Noted(mDataQ, note.hand, f) = 0
    BY <1>2, <2>4, CountEmpty DEF Noted
  <2> QED BY <2>1, <2>3, <2>5 DEF Shared
<1> QED BY <1>1, <1>7, <1>8, <1>9, <1>10, <1>11, <1>12, <1>13 DEF Custody, Owned

LEMMA CustodySteps ==
  ASSUME Custody, Next
  PROVE  Custody' /\ Step
<1>0. TypeOK /\ DataProtocol /\ QueuesOpen /\ Named /\ Working /\ JobsFit /\ HandIdle /\ Owned
  BY DEF Custody
<1>1. TypeOK' /\ Step
  BY <1>0, WorkingBusy, NextSteps
<1>2. DataProtocol'
  BY <1>0, <1>1, ProtocolKept
<1>3. QueuesOpen'
  BY <1>0, <1>1, QueuesKept
<1>4. Named'
  BY <1>0, <1>1, NamedKept
<1>5. Working'
  BY <1>0, <1>1, WorkingKept
<1>6. JobsFit'
  BY <1>0, <1>1, JobsKept
<1>7. HandIdle'
  BY <1>0, <1>1, IdleKept
<1>8. Owned'
  BY <1>0, <1>1, OwnedKept
<1> QED BY <1>1, <1>2, <1>3, <1>4, <1>5, <1>6, <1>7, <1>8 DEF Custody

LEMMA CustodySame ==
  ASSUME Custody, UNCHANGED vars
  PROVE  Custody'
<1>1. /\ UNCHANGED <<hal, mode, clean, told, mTotalNumReproc, wanted, evt_queue, home, queued, frameTh, ppTh, reproc>>
      /\ UNCHANGED <<m_inputPPQ, m_ongoingPPQ, m_inputJpegQ, m_ongoingJpegQ, m_inputRawQ, m_inputSaveQ>>
      /\ UNCHANGED <<data, dataCmds, dataSync, save, saveCmds, saveSync, encoding, note, noteCmds, mDataQ>>
  BY DEF vars, halVars, frameVars, chVars, inputs, ongoing, dataVars, saveVars, noteVars
<1>2. TypeOK' <=> TypeOK
  BY <1>1 DEF TypeOK, HalTypeOK, ChTypeOK, HandTypeOK, QueueTypeOK, ThreadTypeOK, NoteTypeOK
<1>3. DataProtocol' <=> DataProtocol
  BY <1>1 DEF DataProtocol, Phase, Wanting, Asleep, Awake, Waking, Ending
<1>4. QueuesOpen' <=> QueuesOpen
  BY <1>1 DEF QueuesOpen, Open, AllActive, NoneActive, AllEmpty, PassesIdle, Closed
<1>5. (Named' <=> Named) /\ (Working' <=> Working)
  BY <1>1 DEF Named, Working, LastUnnamed
<1>6. (JobsFit' <=> JobsFit) /\ (HandIdle' <=> HandIdle)
  BY <1>1 DEF JobsFit, HandIdle
<1>7. Owned' <=> Owned
  BY <1>1 DEF Owned, Shared, Worked
<1> QED BY <1>2, <1>3, <1>4, <1>5, <1>6, <1>7 DEF Custody

LEMMA CustodyAlways == Spec => []Custody
<1>1. Custody /\ [Next]_vars => Custody'
  BY CustodySteps, CustodySame
<1> QED BY CustodyInit, <1>1, PTL DEF Spec

(* The variables hold what the code's fields can hold: the buffers, jobs,   *)
(* commands and events of QCameraPostProcessor and QCameraCbNotifier.       *)
THEOREM PostProcTyped == Spec => []TypeOK
<1>1. Custody => TypeOK
  BY DEF Custody
<1> QED BY CustodyAlways, <1>1, PTL

LEMMA CustodyAccounts == Custody => BuffersAccounted
<1> SUFFICES ASSUME Custody PROVE BuffersAccounted
  OBVIOUS
<1>0. TypeOK /\ DataProtocol /\ QueuesOpen /\ Owned
  BY DEF Custody
<1>1. ASSUME NEW f \in Frames PROVE home[f] + InFrameTh(f) + InPostProc(f) + InNotifier(f) = 1
  <2>1. home[f] + FrameShare(frameTh, f) + Worked(f) + Noted(mDataQ, note.hand, f) = 1
    BY <1>0 DEF Owned, Shared
  <2>2. InPostProc(f) = Worked(f) /\ InNotifier(f) = Noted(mDataQ, note.hand, f) /\ InFrameTh(f) = FrameShare(frameTh, f)
    BY Shares
  <2> QED BY <2>1, <2>2
<1>2. ASSUME hal = "stopped", NEW f \in Frames PROVE InPostProc(f) = 0
  <2>1. AllEmpty /\ PassesIdle
    BY <1>0, <1>2 DEF DataProtocol, Phase, Asleep, QueuesOpen, Open
  <2>2. ppTh[1] = None /\ ppTh[2] = None
    BY <2>1 DEF PassesIdle, Passes
  <2>3. Hands(ppTh, f) = 0
    BY <2>2 DEF Hands, HandShare, One
  <2>4. Worked(f) = 0
    BY <2>1, <2>3, JobsNone, CountEmpty DEF Worked, AllEmpty
  <2> QED BY <2>4, Shares
<1> QED BY <1>1, <1>2 DEF BuffersAccounted

(* A buffer of the ZSL channel always has exactly one owner, for any number *)
(* of buffers and of jobs, whatever fails (releaseSuperBuf, the release of  *)
(* the postprocessor's queues, of the notifier's and of late frames), and a *)
(* stop leaves none with the postprocessor.                                 *)
THEOREM BuffersAlwaysAccounted == Spec => []BuffersAccounted
BY CustodyAlways, CustodyAccounts, PTL

-----------------------------------------------------------------------------
(* Every picture for the notifier has a command that will take it.          *)
Notified == Len(mDataQ) <= Count(noteCmds, {"next"})

Notifies ==
    \/ UNCHANGED <<noteCmds, mDataQ>>
    \/ mDataQ' = mDataQ /\ \E c \in {"start", "stop"} : noteCmds' = <<c>> \o noteCmds
    \/ noteCmds' = Append(noteCmds, "next") /\ \E x \in {None} \cup ZslBuffer : mDataQ' = Append(mDataQ, x)
    \/ /\ noteCmds # <<>> /\ noteCmds' = Tail(noteCmds)
       /\ \/ noteCmds[1] # "next" /\ mDataQ' = mDataQ
          \/ mDataQ' = <<>>
          \/ mDataQ # <<>> /\ mDataQ' = Tail(mDataQ)

LEMMA NotifiedBy ==
  ASSUME TypeOK, Notified, Notifies
  PROVE  Notified'
<1>a. noteCmds \in Seq(Command) /\ mDataQ \in Seq({None} \cup ZslBuffer) /\ {"start", "stop", "next"} \subseteq Command
  BY DEF TypeOK, NoteTypeOK, Command
<1>n. Count(noteCmds, {"next"}) \in Nat /\ Len(mDataQ) \in Nat /\ Len(mDataQ) <= Count(noteCmds, {"next"})
  <2>1. Count(noteCmds, {"next"}) \in Nat
    BY <1>a, CountNat
  <2>2. Len(mDataQ) \in Nat
    BY <1>a
  <2> QED BY <2>1, <2>2 DEF Notified
<1>1. CASE UNCHANGED <<noteCmds, mDataQ>>
  BY <1>1 DEF Notified
<1>2. CASE mDataQ' = mDataQ /\ \E c \in {"start", "stop"} : noteCmds' = <<c>> \o noteCmds
  <2>1. PICK c \in {"start", "stop"} : noteCmds' = <<c>> \o noteCmds
    BY <1>2
  <2>2. Count(<<c>> \o noteCmds, {"next"}) = One(c \in {"next"}) + Count(noteCmds, {"next"})
    BY <1>a, CountFirst
  <2>3. One(c \in {"next"}) = 0
    BY DEF One
  <2>4. Count(noteCmds', {"next"}) = Count(noteCmds, {"next"})
    BY <1>n, <2>1, <2>2, <2>3
  <2> QED BY <1>2, <1>n, <2>4 DEF Notified
<1>3. CASE noteCmds' = Append(noteCmds, "next") /\ \E x \in {None} \cup ZslBuffer : mDataQ' = Append(mDataQ, x)
  <2>1. Count(Append(noteCmds, "next"), {"next"}) = Count(noteCmds, {"next"}) + One("next" \in {"next"})
    BY <1>a, CountAppend
  <2>2. One("next" \in {"next"}) = 1
    BY DEF One
  <2>3. Len(mDataQ') = Len(mDataQ) + 1
    BY <1>3, <1>a
  <2>4. Count(noteCmds', {"next"}) = Count(noteCmds, {"next"}) + 1
    BY <1>3, <2>1, <2>2
  <2> QED BY <1>n, <2>3, <2>4 DEF Notified
<1>4. ASSUME noteCmds # <<>>, noteCmds' = Tail(noteCmds),
             \/ noteCmds[1] # "next" /\ mDataQ' = mDataQ
             \/ mDataQ' = <<>>
             \/ mDataQ # <<>> /\ mDataQ' = Tail(mDataQ)
      PROVE  Notified'
  <2>1. Count(noteCmds, {"next"}) = One(noteCmds[1] \in {"next"}) + Count(noteCmds', {"next"})
    BY <1>4, <1>a, CountTail
  <2>2. noteCmds' \in Seq(Command)
    BY <1>4, <1>a, HeadTail
  <2>3. Count(noteCmds', {"next"}) \in Nat
    BY <2>2, CountNat
  <2>4. One(noteCmds[1] \in {"next"}) = (IF noteCmds[1] = "next" THEN 1 ELSE 0)
    BY DEF One
  <2>5. CASE noteCmds[1] # "next" /\ mDataQ' = mDataQ
    BY <1>n, <2>1, <2>3, <2>4, <2>5 DEF Notified
  <2>6. CASE mDataQ' = <<>>
    BY <2>3, <2>6 DEF Notified
  <2>7. CASE mDataQ # <<>> /\ mDataQ' = Tail(mDataQ)
    <3>1. Len(mDataQ') = Len(mDataQ) - 1
      BY <1>a, <2>7, HeadTail
    <3>2. Count(noteCmds', {"next"}) >= Count(noteCmds, {"next"}) - 1
      BY <1>n, <2>1, <2>3, <2>4
    <3> QED BY <1>n, <2>3, <3>1, <3>2 DEF Notified
  <2> QED BY <1>4, <2>5, <2>6, <2>7
<1> QED BY <1>1, <1>2, <1>3, <1>4 DEF Notifies

LEMMA NotifiedKept ==
  ASSUME TypeOK, Notified, Step
  PROVE  Notified'
<1>0. UNCHANGED <<noteCmds, mDataQ>> => Notified'
  BY DEF Notified
<1>1. ASSUME NEW m \in Modes, StartDoes(m) PROVE Notified'
  BY <1>0, <1>1 DEF StartDoes, Notified
<1>2. ASSUME StartedDoes PROVE Notified'
  BY <1>0, <1>2, NotifiedBy DEF StartedDoes, Notifies
<1>3. ASSUME CancelPictureDoes PROVE Notified'
  BY <1>0, <1>3, NotifiedBy DEF CancelPictureDoes, Notifies
<1>4. ASSUME SnapshotDoneDoes PROVE Notified'
  BY <1>0, <1>4, NotifiedBy DEF SnapshotDoneDoes, Notifies
<1>5. ASSUME StoppedDoes PROVE Notified'
  BY <1>0, <1>5 DEF StoppedDoes, Notified
<1>6. ASSUME JpegEventDoes PROVE Notified'
  BY <1>0, <1>6, NotifiedBy DEF JpegEventDoes, Notifies
<1>7. ASSUME NEW f \in Frames, FrameArrivesDoes(f) PROVE Notified'
  BY <1>0, <1>7 DEF FrameArrivesDoes, Notified
<1>8. ASSUME processDataDoes PROVE Notified'
  BY <1>0, <1>8 DEF processDataDoes, Notified
<1>9. ASSUME processDataDoneDoes PROVE Notified'
  BY <1>0, <1>9 DEF processDataDoneDoes, Notified
<1>10. ASSUME NEW i \in Passes, ReprocOutputDoes(i) PROVE Notified'
  BY <1>0, <1>10 DEF ReprocOutputDoes, Notified
<1>11. ASSUME NEW i \in Passes, processPPDataDoes(i) PROVE Notified'
  BY <1>0, <1>11 DEF processPPDataDoes, Notified
<1>12. ASSUME DataStartDoes PROVE Notified'
  BY <1>0, <1>12 DEF DataStartDoes, Notified
<1>13. ASSUME DataStopDoes PROVE Notified'
  BY <1>0, <1>13 DEF DataStopDoes, Notified
<1>14. ASSUME DataStoppedDoes PROVE Notified'
  BY <1>0, <1>14 DEF DataStoppedDoes, Notified
<1>15. ASSUME DataNextDoes PROVE Notified'
  BY <1>0, <1>15 DEF DataNextDoes, Notified
<1>16. ASSUME encodeDataDoes PROVE Notified'
  BY <1>0, <1>16 DEF encodeDataDoes, Notified
<1>17. ASSUME RecordJobDoes PROVE Notified'
  BY <1>0, <1>17 DEF RecordJobDoes, Notified
<1>18. ASSUME ProcessRawDoes PROVE Notified'
  <2>1. CASE UNCHANGED <<noteCmds, mDataQ>>
    BY <1>0, <2>1
  <2>2. CASE /\ mDataQ' = Append(mDataQ, IF m_inputRawQ.list[1].ch = 0 THEN m_inputRawQ.list[1] ELSE None)
             /\ noteCmds' = Append(noteCmds, "next")
    <3>1. PICK x : x = IF m_inputRawQ.list[1].ch = 0 THEN m_inputRawQ.list[1] ELSE None
      OBVIOUS
    <3>2. x \in {None} \cup ZslBuffer
      BY <1>18, <3>1 DEF ProcessRawDoes, ZslBuffer, Buffer
    <3>3. mDataQ' = Append(mDataQ, x)
      BY <2>2, <3>1
    <3>4. Notifies
      BY <2>2, <3>2, <3>3 DEF Notifies
    <3> QED BY <3>4, NotifiedBy
  <2> QED BY <1>18, <2>1, <2>2 DEF ProcessRawDoes
<1>19. ASSUME doReprocessDoes PROVE Notified'
  BY <1>0, <1>19 DEF doReprocessDoes, Notified
<1>20. ASSUME NEW id \in encoding, JpegDoneDoes(id) PROVE Notified'
  BY <1>0, <1>20 DEF JpegDoneDoes, Notified
<1>21. ASSUME SaveStepDoes PROVE Notified'
  BY <1>0, <1>21, NotifiedBy DEF SaveStepDoes, Notifies
<1>22. ASSUME NoteStartDoes PROVE Notified'
  <2>1. Notifies
    BY <1>22 DEF NoteStartDoes, Notifies
  <2> QED BY <2>1, NotifiedBy
<1>23. ASSUME NoteStopDoes PROVE Notified'
  <2>1. Notifies
    BY <1>23 DEF NoteStopDoes, Notifies
  <2> QED BY <2>1, NotifiedBy
<1>24. ASSUME NoteNextDoes PROVE Notified'
  <2>1. Notifies
    BY <1>24 DEF NoteNextDoes, Notifies
  <2> QED BY <2>1, NotifiedBy
<1>25. ASSUME NoteDeliveredDoes PROVE Notified'
  BY <1>0, <1>25 DEF NoteDeliveredDoes, Notified
<1> QED BY <1>1, <1>2, <1>3, <1>4, <1>5, <1>6, <1>7, <1>8, <1>9, <1>10, <1>11, <1>12, <1>13, <1>14, <1>15, <1>16, <1>17, <1>18, <1>19, <1>20, <1>21, <1>22, <1>23, <1>24, <1>25 DEF Step

-----------------------------------------------------------------------------
(* The save thread.  The stop of the data thread waits for its stop, which  *)
(* is ahead of all it has to do and empties its queue.                      *)
NoStop(s) == \A k \in DOMAIN s : s[k] # "stop"
StopFirst(s) == s # <<>> /\ s[1] = "stop" /\ NoStop(Tail(s))
Saving == mode.save /\ mode.longshot
SaveStops ==
    /\ data.at # "saveStop" => saveSync = 0 /\ NoStop(saveCmds)
    /\ data.at = "saveStop" => \/ saveSync = 0 /\ StopFirst(saveCmds)
                               \/ saveSync = 1 /\ NoStop(saveCmds) /\ m_inputSaveQ.list = <<>>
SaveEmpty ==
    /\ ~Saving => m_inputSaveQ.list = <<>>
    /\ hal = "stopped" \/ (hal = "stopping" /\ ~Open) => m_inputSaveQ.list = <<>>
SaveProtocol == SaveStops /\ SaveEmpty

LEMMA NoStopKept ==
  ASSUME NEW s \in Seq(Command), NoStop(s)
  PROVE  /\ NoStop(Append(s, "next")) /\ NoStop(Append(s, "start"))
         /\ StopFirst(<<"stop">> \o s)
         /\ s # <<>> => s[1] # "stop" /\ NoStop(Tail(s))
<1>1. ASSUME NEW c \in {"next", "start"} PROVE NoStop(Append(s, c))
  BY DEF NoStop
<1>2. StopFirst(<<"stop">> \o s)
  <2>1. <<"stop">> \o s # <<>> /\ (<<"stop">> \o s)[1] = "stop" /\ Tail(<<"stop">> \o s) = s
    OBVIOUS
  <2> QED BY <2>1 DEF StopFirst
<1>3. ASSUME s # <<>> PROVE s[1] # "stop" /\ NoStop(Tail(s))
  BY <1>3, HeadTail DEF NoStop
<1> QED BY <1>1, <1>2, <1>3

LEMMA StopFirstKept ==
  ASSUME NEW s \in Seq(Command), StopFirst(s)
  PROVE  StopFirst(Append(s, "next")) /\ StopFirst(Append(s, "start"))
<1>1. ASSUME NEW c \in {"next", "start"} PROVE StopFirst(Append(s, c))
  <2>1. s # <<>> /\ s[1] = "stop" /\ NoStop(Tail(s)) /\ Tail(s) \in Seq(Command)
    BY HeadTail DEF StopFirst
  <2>2. Append(s, c) # <<>> /\ Append(s, c)[1] = "stop" /\ Tail(Append(s, c)) = Append(Tail(s), c)
    BY <2>1
  <2>3. NoStop(Append(Tail(s), c))
    BY <2>1 DEF NoStop
  <2> QED BY <2>2, <2>3 DEF StopFirst
<1> QED BY <1>1

LEMMA SaveKept ==
  ASSUME TypeOK, DataProtocol, SaveProtocol, Step
  PROVE  SaveProtocol'
<1>a. /\ saveCmds \in Seq(Command) /\ saveSync \in Nat
      /\ hal \in {"stopped", "starting", "running", "stopping"}
  BY DEF TypeOK, ThreadTypeOK, HalTypeOK
<1>b. /\ data.at \in {"encode", "record", "raw", "reproc"} => data.active /\ hal \in {"running", "stopping"}
      /\ data.at = "wait" /\ dataCmds # <<>> /\ dataCmds[1] = "start" => hal = "starting"
      /\ data.at = "wait" /\ dataCmds # <<>> /\ dataCmds[1] = "stop" => hal = "stopping" /\ data.active
      /\ data.at = "saveStop" => hal = "stopping" /\ ~data.active
  BY WorksWhenOpen DEF DataProtocol
<1>c. /\ hal = "running" => Open
      /\ hal = "stopping" /\ dataSync > 0 => ~Open
  BY DEF DataProtocol, Phase, Awake, Ending, Open
<1>d. /\ NoStop(saveCmds) => /\ NoStop(Append(saveCmds, "next")) /\ NoStop(Append(saveCmds, "start"))
                             /\ StopFirst(<<"stop">> \o saveCmds)
                             /\ saveCmds # <<>> => saveCmds[1] # "stop" /\ NoStop(Tail(saveCmds))
      /\ StopFirst(saveCmds) => /\ StopFirst(Append(saveCmds, "next")) /\ StopFirst(Append(saveCmds, "start"))
                                /\ saveCmds[1] = "stop" /\ NoStop(Tail(saveCmds))
  <2>1. ASSUME NoStop(saveCmds)
        PROVE  /\ NoStop(Append(saveCmds, "next")) /\ NoStop(Append(saveCmds, "start"))
               /\ StopFirst(<<"stop">> \o saveCmds)
               /\ saveCmds # <<>> => saveCmds[1] # "stop" /\ NoStop(Tail(saveCmds))
    BY <1>a, <2>1, NoStopKept
  <2>2. ASSUME StopFirst(saveCmds)
        PROVE  StopFirst(Append(saveCmds, "next")) /\ StopFirst(Append(saveCmds, "start"))
    BY <1>a, <2>2, StopFirstKept
  <2> QED BY <2>1, <2>2 DEF StopFirst
<1>e. AfterEncode \in {"raw", "reproc"}
  BY DEF AfterEncode
<1>0. SaveStops /\ SaveEmpty
  BY DEF SaveProtocol
<1>1. ASSUME NEW m \in Modes, StartDoes(m) PROVE SaveProtocol'
  BY <1>a, <1>b, <1>c, <1>d, <1>e, <1>1 DEF StartDoes, SaveProtocol, SaveStops, SaveEmpty, Saving, Open, Gets, Loses
<1>2. ASSUME StartedDoes PROVE SaveProtocol'
  BY <1>a, <1>b, <1>c, <1>d, <1>e, <1>2 DEF StartedDoes, SaveProtocol, SaveStops, SaveEmpty, Saving, Open, Gets, Loses
<1>3. ASSUME CancelPictureDoes PROVE SaveProtocol'
  BY <1>a, <1>b, <1>c, <1>d, <1>e, <1>3 DEF CancelPictureDoes, SaveProtocol, SaveStops, SaveEmpty, Saving, Open, Gets, Loses
<1>4. ASSUME SnapshotDoneDoes PROVE SaveProtocol'
  BY <1>a, <1>b, <1>c, <1>d, <1>e, <1>4 DEF SnapshotDoneDoes, SaveProtocol, SaveStops, SaveEmpty, Saving, Open, Gets, Loses
<1>5. ASSUME StoppedDoes PROVE SaveProtocol'
  BY <1>a, <1>b, <1>c, <1>d, <1>e, <1>5 DEF StoppedDoes, SaveProtocol, SaveStops, SaveEmpty, Saving, Open, Gets, Loses
<1>6. ASSUME JpegEventDoes PROVE SaveProtocol'
  BY <1>a, <1>b, <1>c, <1>d, <1>e, <1>6 DEF JpegEventDoes, SaveProtocol, SaveStops, SaveEmpty, Saving, Open, Gets, Loses
<1>7. ASSUME NEW f \in Frames, FrameArrivesDoes(f) PROVE SaveProtocol'
  BY <1>a, <1>b, <1>c, <1>d, <1>e, <1>7 DEF FrameArrivesDoes, SaveProtocol, SaveStops, SaveEmpty, Saving, Open, Gets, Loses
<1>8. ASSUME processDataDoes PROVE SaveProtocol'
  BY <1>a, <1>b, <1>c, <1>d, <1>e, <1>8 DEF processDataDoes, SaveProtocol, SaveStops, SaveEmpty, Saving, Open, Gets, Loses
<1>9. ASSUME processDataDoneDoes PROVE SaveProtocol'
  BY <1>a, <1>b, <1>c, <1>d, <1>e, <1>9 DEF processDataDoneDoes, SaveProtocol, SaveStops, SaveEmpty, Saving, Open, Gets, Loses
<1>10. ASSUME NEW i \in Passes, ReprocOutputDoes(i) PROVE SaveProtocol'
  BY <1>a, <1>b, <1>c, <1>d, <1>e, <1>10 DEF ReprocOutputDoes, SaveProtocol, SaveStops, SaveEmpty, Saving, Open, Gets, Loses
<1>11. ASSUME NEW i \in Passes, processPPDataDoes(i) PROVE SaveProtocol'
  BY <1>a, <1>b, <1>c, <1>d, <1>e, <1>11 DEF processPPDataDoes, SaveProtocol, SaveStops, SaveEmpty, Saving, Open, Gets, Loses
<1>12. ASSUME DataStartDoes PROVE SaveProtocol'
  BY <1>a, <1>b, <1>c, <1>d, <1>e, <1>12 DEF DataStartDoes, SaveProtocol, SaveStops, SaveEmpty, Saving, Open, Gets, Loses
<1>13. ASSUME DataStopDoes PROVE SaveProtocol'
  BY <1>a, <1>b, <1>c, <1>d, <1>e, <1>13 DEF DataStopDoes, SaveProtocol, SaveStops, SaveEmpty, Saving, Open, Gets, Loses
<1>14. ASSUME DataStoppedDoes PROVE SaveProtocol'
  BY <1>a, <1>b, <1>c, <1>d, <1>e, <1>14 DEF DataStoppedDoes, SaveProtocol, SaveStops, SaveEmpty, Saving, Open, Gets, Loses
<1>15. ASSUME DataNextDoes PROVE SaveProtocol'
  BY <1>a, <1>b, <1>c, <1>d, <1>e, <1>15 DEF DataNextDoes, SaveProtocol, SaveStops, SaveEmpty, Saving, Open, Gets, Loses
<1>16. ASSUME encodeDataDoes PROVE SaveProtocol'
  BY <1>a, <1>b, <1>c, <1>d, <1>e, <1>16 DEF encodeDataDoes, SaveProtocol, SaveStops, SaveEmpty, Saving, Open, Gets, Loses
<1>17. ASSUME RecordJobDoes PROVE SaveProtocol'
  BY <1>a, <1>b, <1>c, <1>d, <1>e, <1>17 DEF RecordJobDoes, SaveProtocol, SaveStops, SaveEmpty, Saving, Open, Gets, Loses
<1>18. ASSUME ProcessRawDoes PROVE SaveProtocol'
  BY <1>a, <1>b, <1>c, <1>d, <1>e, <1>18 DEF ProcessRawDoes, SaveProtocol, SaveStops, SaveEmpty, Saving, Open, Gets, Loses
<1>19. ASSUME doReprocessDoes PROVE SaveProtocol'
  BY <1>a, <1>b, <1>c, <1>d, <1>e, <1>19 DEF doReprocessDoes, SaveProtocol, SaveStops, SaveEmpty, Saving, Open, Gets, Loses
<1>20. ASSUME NEW id \in encoding, JpegDoneDoes(id) PROVE SaveProtocol'
  BY <1>a, <1>b, <1>c, <1>d, <1>e, <1>20 DEF JpegDoneDoes, SaveProtocol, SaveStops, SaveEmpty, Saving, Open, Gets, Loses
<1>21. ASSUME SaveStepDoes PROVE SaveProtocol'
  BY <1>a, <1>b, <1>c, <1>d, <1>e, <1>21 DEF SaveStepDoes, SaveProtocol, SaveStops, SaveEmpty, Saving, Open, Gets, Loses
<1>22. ASSUME NoteStartDoes PROVE SaveProtocol'
  BY <1>a, <1>b, <1>c, <1>d, <1>e, <1>22 DEF NoteStartDoes, SaveProtocol, SaveStops, SaveEmpty, Saving, Open, Gets, Loses
<1>23. ASSUME NoteStopDoes PROVE SaveProtocol'
  BY <1>a, <1>b, <1>c, <1>d, <1>e, <1>23 DEF NoteStopDoes, SaveProtocol, SaveStops, SaveEmpty, Saving, Open, Gets, Loses
<1>24. ASSUME NoteNextDoes PROVE SaveProtocol'
  BY <1>a, <1>b, <1>c, <1>d, <1>e, <1>24 DEF NoteNextDoes, SaveProtocol, SaveStops, SaveEmpty, Saving, Open, Gets, Loses
<1>25. ASSUME NoteDeliveredDoes PROVE SaveProtocol'
  BY <1>a, <1>b, <1>c, <1>d, <1>e, <1>25 DEF NoteDeliveredDoes, SaveProtocol, SaveStops, SaveEmpty, Saving, Open, Gets, Loses
<1> QED BY <1>1, <1>2, <1>3, <1>4, <1>5, <1>6, <1>7, <1>8, <1>9, <1>10, <1>11, <1>12, <1>13, <1>14, <1>15, <1>16, <1>17, <1>18, <1>19, <1>20, <1>21, <1>22, <1>23, <1>24, <1>25 DEF Step

-----------------------------------------------------------------------------
(* The jobs of the jpeg library: each is among those begun, or the data     *)
(* thread has yet to note its identifier; an event is never ahead of it.    *)
Recorded == {m_ongoingJpegQ.list[k].id : k \in DOMAIN m_ongoingJpegQ.list}
Encoded ==
    /\ data.at # "record" => data.id = 0
    /\ encoding \subseteq Recorded \cup {data.id}
Finished ==
    /\ \A k \in DOMAIN evt_queue : evt_queue[k].kind = "jpeg" => evt_queue[k].id \notin encoding
    /\ \A k \in DOMAIN m_inputSaveQ.list : m_inputSaveQ.list[k] \notin encoding
Library == Encoded /\ Finished

LEMMA RecordedRemoved ==
  ASSUME NEW T, NEW s \in Seq(T), NEW k \in 1 .. Len(s), NEW j \in DOMAIN s, j # k
  PROVE  \E m \in DOMAIN RemoveAt(s, k) : RemoveAt(s, k)[m] = s[j]
<1>1. /\ RemoveAt(s, k) \in Seq(T) /\ Len(RemoveAt(s, k)) = Len(s) - 1
      /\ \A m \in 1 .. Len(s) - 1 : RemoveAt(s, k)[m] = s[IF m < k THEN m ELSE m + 1]
  BY Removed
<1>2. DOMAIN RemoveAt(s, k) = 1 .. Len(s) - 1 /\ j \in 1 .. Len(s) /\ Len(s) \in Nat
  BY <1>1
<1>3. CASE j < k
  <2>1. j \in 1 .. Len(s) - 1
    BY <1>2, <1>3
  <2>2. RemoveAt(s, k)[j] = s[j]
    BY <1>1, <1>3, <2>1
  <2> QED BY <1>2, <2>1, <2>2
<1>4. CASE ~(j < k)
  <2>1. j - 1 \in 1 .. Len(s) - 1 /\ ~(j - 1 < k) /\ (j - 1) + 1 = j
    BY <1>2, <1>4
  <2>2. RemoveAt(s, k)[j - 1] = s[j]
    BY <1>1, <2>1
  <2> QED BY <1>2, <2>1, <2>2
<1> QED BY <1>3, <1>4

LEMMA RecordedLoses ==
  ASSUME m_ongoingJpegQ.list \in Seq(JpegJob), NEW k \in DOMAIN m_ongoingJpegQ.list,
         m_ongoingJpegQ'.list = RemoveAt(m_ongoingJpegQ.list, k)
  PROVE  Recorded \subseteq Recorded' \cup {m_ongoingJpegQ.list[k].id}
<1>1. PICK s \in Seq(JpegJob) : s = m_ongoingJpegQ.list
  OBVIOUS
<1>2. k \in 1 .. Len(s)
  BY <1>1
<1>3. ASSUME NEW j \in DOMAIN s, j # k
      PROVE  \E m \in DOMAIN RemoveAt(s, k) : RemoveAt(s, k)[m] = s[j]
  BY <1>2, <1>3, RecordedRemoved
<1>4. ASSUME NEW j \in DOMAIN s PROVE s[j].id \in Recorded' \cup {s[k].id}
  <2>1. CASE j = k
    BY <2>1
  <2>2. CASE j # k
    <3>1. PICK m \in DOMAIN RemoveAt(s, k) : RemoveAt(s, k)[m] = s[j]
      BY <1>3, <2>2
    <3>2. m \in DOMAIN m_ongoingJpegQ'.list /\ m_ongoingJpegQ'.list[m] = s[j]
      BY <1>1, <3>1
    <3> QED BY <3>2 DEF Recorded
  <2> QED BY <2>1, <2>2
<1> QED BY <1>1, <1>4 DEF Recorded

LEMMA RecordedFlushed ==
  ASSUME m_ongoingJpegQ.list \in Seq(JpegJob), NEW id, Flushed(id)
  PROVE  Recorded \subseteq Recorded' \cup {id}
<1>1. CASE UNCHANGED m_ongoingJpegQ
  BY <1>1 DEF Recorded
<1>2. CASE \E k \in DOMAIN m_ongoingJpegQ.list :
             m_ongoingJpegQ.list[k].id = id /\ m_ongoingJpegQ'.list = RemoveAt(m_ongoingJpegQ.list, k)
  <2>1. PICK k \in DOMAIN m_ongoingJpegQ.list :
             m_ongoingJpegQ.list[k].id = id /\ m_ongoingJpegQ'.list = RemoveAt(m_ongoingJpegQ.list, k)
    BY <1>2
  <2> QED BY <2>1, RecordedLoses
<1> QED BY <1>1, <1>2 DEF Flushed

(* Events and saved pictures come and go.                                   *)
LEMMA EventsGo ==
  ASSUME evt_queue \in Seq(Event), evt_queue # <<>>, evt_queue' = Tail(evt_queue), encoding' = encoding
  PROVE  \A k \in DOMAIN evt_queue' : \E j \in DOMAIN evt_queue : evt_queue'[k] = evt_queue[j]
BY HeadTail

LEMMA LibrarySame ==
  ASSUME Library, UNCHANGED <<encoding, evt_queue, m_inputSaveQ>>, data'.id = data.id,
         data'.at = "record" => data.at = "record", data.at = "record" => data'.at = "record",
         m_ongoingJpegQ'.list = m_ongoingJpegQ.list
  PROVE  Library'
BY DEF Library, Encoded, Finished, Recorded

LEMMA LibraryKept ==
  ASSUME TypeOK, TypeOK', Named, Working, Library, Step
  PROVE  Library'
<1>a. /\ evt_queue \in Seq(Event) /\ m_inputSaveQ.list \in Seq(Nat) /\ encoding \in SUBSET Nat
      /\ m_ongoingJpegQ.list \in Seq(JpegJob) /\ m_inputJpegQ.list \in Seq(JpegJob) /\ data \in DataType
  BY QueueFields DEF TypeOK, HalTypeOK, ThreadTypeOK, QueueTypeOK
<1>e. AfterEncode \in {"raw", "reproc"}
  BY DEF AfterEncode
<1>i. Encoded /\ Finished
  BY DEF Library
<1>1. ASSUME NEW m \in Modes, StartDoes(m) PROVE Library'
  BY <1>e, <1>1, LibrarySame DEF StartDoes
<1>2. ASSUME StartedDoes PROVE Library'
  BY <1>e, <1>2, LibrarySame DEF StartedDoes
<1>3. ASSUME CancelPictureDoes PROVE Library'
  BY <1>e, <1>3, LibrarySame DEF CancelPictureDoes
<1>4. ASSUME SnapshotDoneDoes PROVE Library'
  <2>1. \A k \in DOMAIN evt_queue' : \E j \in DOMAIN evt_queue : evt_queue'[k] = evt_queue[j]
    BY <1>a, <1>4, EventsGo DEF SnapshotDoneDoes
  <2>2. Encoded'
    BY <1>i, <1>4 DEF SnapshotDoneDoes, Encoded, Recorded
  <2>3. Finished'
    BY <1>i, <1>4, <2>1 DEF SnapshotDoneDoes, Finished
  <2> QED BY <2>2, <2>3 DEF Library
<1>5. ASSUME StoppedDoes PROVE Library'
  BY <1>e, <1>5, LibrarySame DEF StoppedDoes
<1>6. ASSUME JpegEventDoes PROVE Library'
  <2>0. evt_queue # <<>> /\ evt_queue' = Tail(evt_queue) /\ evt_queue[1].kind = "jpeg" /\ UNCHANGED <<encoding, data>>
    BY <1>6 DEF JpegEventDoes
  <2>1. \A k \in DOMAIN evt_queue' : \E j \in DOMAIN evt_queue : evt_queue'[k] = evt_queue[j]
    BY <1>a, <2>0, EventsGo
  <2>2. evt_queue[1].id \notin encoding /\ evt_queue[1].id \in Nat
    <3>1. 1 \in DOMAIN evt_queue /\ evt_queue[1] \in Event
      BY <1>a, <2>0, HeadTail
    <3> QED BY <1>i, <2>0, <3>1 DEF Finished, Event
  <2>3. CASE /\ UNCHANGED m_ongoingJpegQ
             /\ m_inputSaveQ' = m_inputSaveQ \/ Gets(m_inputSaveQ, m_inputSaveQ', evt_queue[1].id)
    <3>1. Encoded'
      BY <1>i, <2>0, <2>3 DEF Encoded, Recorded
    <3>2. \A k \in DOMAIN m_inputSaveQ'.list : m_inputSaveQ'.list[k] \notin encoding
      <4>1. CASE m_inputSaveQ'.list = m_inputSaveQ.list
        BY <1>i, <4>1 DEF Finished
      <4>2. CASE m_inputSaveQ'.list = Append(m_inputSaveQ.list, evt_queue[1].id)
        <5>1. PICK s \in Seq(Nat) : s = m_inputSaveQ.list
          BY <1>a
        <5>2. PICK x \in Nat : x = evt_queue[1].id
          BY <2>2
        <5>3. \A k \in DOMAIN s : s[k] \notin encoding
          BY <1>i, <5>1 DEF Finished
        <5>4. x \notin encoding /\ m_inputSaveQ'.list = Append(s, x)
          BY <2>2, <4>2, <5>1, <5>2
        <5>5. \A k \in DOMAIN Append(s, x) : Append(s, x)[k] \notin encoding
          BY <5>3, <5>4
        <5> QED BY <5>4, <5>5
      <4> QED BY <2>3, <4>1, <4>2 DEF Gets
    <3>3. Finished'
      BY <1>i, <2>0, <2>1, <3>2 DEF Finished
    <3> QED BY <3>1, <3>3 DEF Library
  <2>4. CASE Flushed(evt_queue[1].id) /\ UNCHANGED m_inputSaveQ
    <3>1. Recorded \subseteq Recorded' \cup {evt_queue[1].id}
      BY <1>a, <2>4, RecordedFlushed
    <3>2. Encoded'
      BY <1>i, <2>0, <2>2, <3>1 DEF Encoded
    <3>3. Finished'
      BY <1>i, <2>0, <2>1, <2>4 DEF Finished
    <3> QED BY <3>2, <3>3 DEF Library
  <2> QED BY <1>6, <2>3, <2>4 DEF JpegEventDoes
<1>7. ASSUME NEW f \in Frames, FrameArrivesDoes(f) PROVE Library'
  BY <1>e, <1>7, LibrarySame DEF FrameArrivesDoes
<1>8. ASSUME processDataDoes PROVE Library'
  BY <1>e, <1>8, LibrarySame DEF processDataDoes
<1>9. ASSUME processDataDoneDoes PROVE Library'
  BY <1>e, <1>9, LibrarySame DEF processDataDoneDoes
<1>10. ASSUME NEW i \in Passes, ReprocOutputDoes(i) PROVE Library'
  BY <1>e, <1>10, LibrarySame DEF ReprocOutputDoes
<1>11. ASSUME NEW i \in Passes, processPPDataDoes(i) PROVE Library'
  BY <1>e, <1>11, LibrarySame DEF processPPDataDoes
<1>12. ASSUME DataStartDoes PROVE Library'
  BY <1>e, <1>12, LibrarySame DEF DataStartDoes
<1>13. ASSUME DataStopDoes PROVE Library'
  BY <1>e, <1>13, LibrarySame DEF DataStopDoes
<1>14. ASSUME DataStoppedDoes PROVE Library'
  <2>1. data.id = 0 /\ data'.id = 0 /\ 0 \notin encoding
    BY <1>i, <1>14 DEF DataStoppedDoes, Encoded, Named
  <2>2. encoding' = {}
    BY <1>i, <1>14, <2>1 DEF DataStoppedDoes, Encoded, Recorded
  <2>3. Encoded'
    BY <2>1, <2>2 DEF Encoded
  <2>4. Finished'
    BY <2>2 DEF Finished
  <2> QED BY <2>3, <2>4 DEF Library
<1>15. ASSUME DataNextDoes PROVE Library'
  <2>0. UNCHANGED <<encoding, evt_queue, m_inputSaveQ>> /\ data.id = 0 /\ data'.id = 0 /\ data'.at # "record"
    BY <1>i, <1>15 DEF DataNextDoes, Encoded
  <2>1. Recorded \subseteq Recorded'
    <3>1. CASE m_ongoingJpegQ'.list = m_ongoingJpegQ.list
      BY <3>1 DEF Recorded
    <3>2. CASE m_ongoingJpegQ'.list = Append(m_ongoingJpegQ.list, m_inputJpegQ.list[1])
      <4>1. \A k \in DOMAIN m_ongoingJpegQ.list : k \in DOMAIN m_ongoingJpegQ'.list /\ m_ongoingJpegQ'.list[k] = m_ongoingJpegQ.list[k]
        BY <1>a, <3>2
      <4> QED BY <4>1 DEF Recorded
    <3> QED BY <1>15, <3>1, <3>2 DEF DataNextDoes, Gets
  <2>2. Encoded'
    BY <1>i, <2>0, <2>1 DEF Encoded
  <2>3. Finished'
    BY <1>i, <2>0 DEF Finished
  <2> QED BY <2>2, <2>3 DEF Library
<1>16. ASSUME encodeDataDoes PROVE Library'
  <2>0. UNCHANGED <<evt_queue, m_inputSaveQ>> /\ data.id = 0
    BY <1>i, <1>16 DEF encodeDataDoes, Encoded
  <2>1. ASSUME NEW id \in Nat \ {0}, id \notin UsedIds, encoding' = encoding \cup {id}, data'.at = "record", data'.id = id,
               m_ongoingJpegQ' = m_ongoingJpegQ
        PROVE  Library'
    <3>1. Encoded'
      BY <1>i, <2>0, <2>1 DEF Encoded, Recorded, Named
    <3>2. \A k \in DOMAIN evt_queue : evt_queue[k].id # id
      BY <2>1 DEF UsedIds
    <3>3. \A k \in DOMAIN m_inputSaveQ.list : m_inputSaveQ.list[k] # id
      BY <2>1 DEF UsedIds, Range
    <3>4. Finished'
      BY <1>i, <2>0, <2>1, <3>2, <3>3 DEF Finished
    <3> QED BY <3>1, <3>4 DEF Library
  <2>2. ASSUME data'.at = AfterEncode, data'.id = data.id, m_ongoingJpegQ.list # <<>>, encoding' = encoding,
               m_ongoingJpegQ'.list = RemoveAt(m_ongoingJpegQ.list, Len(m_ongoingJpegQ.list))
        PROVE  Library'
    <3>0. Len(m_ongoingJpegQ.list) \in DOMAIN m_ongoingJpegQ.list
      BY <1>a, <2>2, FrontRemoved
    <3>1. PICK k \in DOMAIN m_ongoingJpegQ.list : k = Len(m_ongoingJpegQ.list)
      BY <3>0
    <3>2. Recorded \subseteq Recorded' \cup {m_ongoingJpegQ.list[k].id}
      BY <1>a, <2>2, <3>1, RecordedLoses
    <3>3. m_ongoingJpegQ.list[k].id = 0 /\ 0 \notin encoding
      BY <1>16, <3>1 DEF encodeDataDoes, Working, LastUnnamed, Named
    <3>4. Encoded'
      BY <1>e, <1>i, <2>0, <2>2, <3>2, <3>3 DEF Encoded
    <3>5. Finished'
      BY <1>i, <2>0, <2>2 DEF Finished
    <3> QED BY <3>4, <3>5 DEF Library
  <2> QED BY <1>16, <2>1, <2>2 DEF encodeDataDoes
<1>17. ASSUME RecordJobDoes PROVE Library'
  <2>0. UNCHANGED <<encoding, evt_queue, m_inputSaveQ>> /\ data'.id = 0 /\ data'.at # "record"
    BY <1>e, <1>17 DEF RecordJobDoes
  <2>1. PICK s \in Seq(JpegJob) : s = m_ongoingJpegQ.list
    BY <1>a
  <2>2. PICK t \in Seq(JpegJob) : t = m_ongoingJpegQ'.list
    BY QueueFields DEF TypeOK, QueueTypeOK
  <2>3. Len(t) = Len(s) /\ s # <<>> /\ \A k \in DOMAIN s : t[k].id = IF k = Len(s) THEN data.id ELSE s[k].id
    BY <1>17, <2>1, <2>2 DEF RecordJobDoes
  <2>4. DOMAIN t = DOMAIN s /\ Len(s) \in DOMAIN s
    BY <2>3
  <2>5. s[Len(s)].id = 0
    BY <1>17, <2>1 DEF RecordJobDoes, Working, LastUnnamed
  <2>6. data.id \in Recorded'
    <3>1. t[Len(s)].id = data.id
      BY <2>3, <2>4
    <3> QED BY <2>2, <2>4, <3>1 DEF Recorded
  <2>7. Recorded \subseteq Recorded' \cup {0}
    <3>1. ASSUME NEW k \in DOMAIN s PROVE s[k].id \in Recorded' \cup {0}
      <4>1. CASE k = Len(s)
        BY <2>5, <4>1
      <4>2. CASE k # Len(s)
        <5>1. t[k].id = s[k].id
          BY <2>3, <4>2
        <5> QED BY <2>2, <2>4, <5>1 DEF Recorded
      <4> QED BY <4>1, <4>2
    <3> QED BY <2>1, <3>1 DEF Recorded
  <2>8. Encoded'
    BY <1>i, <2>0, <2>6, <2>7 DEF Encoded, Named
  <2>9. Finished'
    BY <1>i, <2>0 DEF Finished
  <2> QED BY <2>8, <2>9 DEF Library
<1>18. ASSUME ProcessRawDoes PROVE Library'
  BY <1>e, <1>18, LibrarySame DEF ProcessRawDoes
<1>19. ASSUME doReprocessDoes PROVE Library'
  BY <1>e, <1>19, LibrarySame DEF doReprocessDoes
<1>20. ASSUME NEW id \in encoding, JpegDoneDoes(id) PROVE Library'
  <2>1. PICK e \in Event : e.kind = "jpeg" /\ e.id = id /\ evt_queue' = Append(evt_queue, e)
    BY <1>20 DEF JpegDoneDoes
  <2>2. encoding' = encoding \ {id} /\ UNCHANGED <<m_ongoingJpegQ, m_inputSaveQ, data>>
    BY <1>20 DEF JpegDoneDoes
  <2>3. Encoded'
    BY <1>i, <2>2 DEF Encoded, Recorded
  <2>4. \A k \in DOMAIN evt_queue' : evt_queue'[k].kind = "jpeg" => evt_queue'[k].id \notin encoding'
    BY <1>a, <1>i, <2>1, <2>2 DEF Finished
  <2>5. Finished'
    BY <1>i, <2>2, <2>4 DEF Finished
  <2> QED BY <2>3, <2>5 DEF Library
<1>21. ASSUME SaveStepDoes PROVE Library'
  <2>0. UNCHANGED <<encoding, evt_queue, data>>
    BY <1>21 DEF SaveStepDoes
  <2>1. CASE UNCHANGED m_ongoingJpegQ /\ (m_inputSaveQ'.list = m_inputSaveQ.list \/ m_inputSaveQ'.list = <<>>)
    <3>1. Encoded'
      BY <1>i, <2>0, <2>1 DEF Encoded, Recorded
    <3>2. Finished'
      BY <1>i, <2>0, <2>1 DEF Finished
    <3> QED BY <3>1, <3>2 DEF Library
  <2>2. CASE Loses(m_inputSaveQ, m_inputSaveQ') /\ Flushed(m_inputSaveQ.list[1])
    <3>1. PICK s \in Seq(Nat) : s = m_inputSaveQ.list
      BY <1>a
    <3>2. s # <<>> /\ m_inputSaveQ'.list = Tail(s)
      BY <2>2, <3>1 DEF Loses
    <3>3. 1 \in DOMAIN s /\ \A k \in DOMAIN Tail(s) : k + 1 \in DOMAIN s /\ Tail(s)[k] = s[k + 1]
      BY <3>2, HeadTail
    <3>4. s[1] \notin encoding /\ \A k \in DOMAIN Tail(s) : Tail(s)[k] \notin encoding
      BY <1>i, <3>1, <3>3 DEF Finished
    <3>5. Recorded \subseteq Recorded' \cup {s[1]}
      BY <1>a, <2>2, <3>1, RecordedFlushed
    <3>6. Encoded'
      BY <1>i, <2>0, <3>4, <3>5 DEF Encoded
    <3>7. Finished'
      BY <1>i, <2>0, <3>2, <3>4 DEF Finished
    <3> QED BY <3>6, <3>7 DEF Library
  <2> QED BY <1>21, <2>1, <2>2 DEF SaveStepDoes
<1>22. ASSUME NoteStartDoes PROVE Library'
  BY <1>e, <1>22, LibrarySame DEF NoteStartDoes
<1>23. ASSUME NoteStopDoes PROVE Library'
  BY <1>e, <1>23, LibrarySame DEF NoteStopDoes
<1>24. ASSUME NoteNextDoes PROVE Library'
  <2>0. UNCHANGED <<encoding, data, m_ongoingJpegQ, m_inputSaveQ>>
    BY <1>24 DEF NoteNextDoes
  <2>1. Encoded'
    BY <1>i, <2>0 DEF Encoded, Recorded
  <2>2. CASE evt_queue' = evt_queue
    <3>1. Finished'
      BY <1>i, <2>0, <2>2 DEF Finished
    <3> QED BY <2>1, <3>1 DEF Library
  <2>3. CASE evt_queue' = Append(evt_queue, [kind |-> "done", id |-> 0, ok |-> TRUE])
    <3>1. PICK e : e = [kind |-> "done", id |-> 0, ok |-> TRUE]
      OBVIOUS
    <3>2. e.kind # "jpeg"
      BY <3>1
    <3>3. evt_queue' = Append(evt_queue, e)
      BY <2>3, <3>1
    <3>4. \A k \in DOMAIN evt_queue' : evt_queue'[k].kind = "jpeg" => evt_queue'[k].id \notin encoding
      BY <1>a, <1>i, <3>2, <3>3 DEF Finished
    <3>5. Finished'
      BY <1>i, <2>0, <3>4 DEF Finished
    <3> QED BY <2>1, <3>5 DEF Library
  <2> QED BY <1>24, <2>2, <2>3 DEF NoteNextDoes
<1>25. ASSUME NoteDeliveredDoes PROVE Library'
  BY <1>e, <1>25, LibrarySame DEF NoteDeliveredDoes
<1> QED BY <1>1, <1>2, <1>3, <1>4, <1>5, <1>6, <1>7, <1>8, <1>9, <1>10, <1>11, <1>12, <1>13, <1>14, <1>15, <1>16, <1>17, <1>18, <1>19, <1>20, <1>21, <1>22, <1>23, <1>24, <1>25 DEF Step

-----------------------------------------------------------------------------
(* The notifier in a capture begun on clean ground: it is started before    *)
(* any picture comes, and counts those of this capture.                     *)
Quiet == noteCmds = <<>> /\ note.at = "wait" /\ evt_queue = <<>> /\ mDataQ = <<>> /\ m_inputSaveQ.list = <<>>
ToStart == Behind("start", noteCmds) /\ note.at = "wait"
Notifying ==
    /\ NextsOnly(noteCmds) /\ note.active /\ note.longshot = mode.longshot /\ note.expected = mode.shots
    /\ note.at \in {"wait", "sync"} /\ (mode.longshot => note.at = "wait")
Announced ==
    clean => (hal = "starting" => Quiet) /\ (hal = "running" => ToStart \/ Notifying)

LEMMA NothingLeft ==
  ASSUME TypeOK, Named, Library, m_ongoingJpegQ.list = <<>>, data.at # "record"
  PROVE  encoding = {}
BY DEF Named, Library, Encoded, Recorded

LEMMA CleanStart ==
  ASSUME TypeOK, Leftovers = 0
  PROVE  evt_queue = <<>> /\ dataCmds = <<>> /\ saveCmds = <<>> /\ noteCmds = <<>> /\ note.at = "wait" /\ frameTh = None
<1>1. PICK a \in Nat, b \in Nat, c \in Nat, d \in Nat :
        a = Len(evt_queue) /\ b = Len(dataCmds) /\ c = Len(saveCmds) /\ d = Len(noteCmds)
  BY DEF TypeOK, HalTypeOK, ThreadTypeOK, NoteTypeOK
<1>2. PICK e \in Nat, f \in Nat :
        /\ e = (IF note.at = "wait" THEN 0 ELSE 1) /\ f = (IF frameTh = None THEN 0 ELSE 1)
  OBVIOUS
<1>3. Leftovers = a + b + c + d + e + f
  BY <1>1, <1>2 DEF Leftovers
<1>4. a = 0 /\ b = 0 /\ c = 0 /\ d = 0 /\ e = 0 /\ f = 0
  BY <1>3
<1>5. \A S : \A s \in Seq(S) : Len(s) = 0 => s = <<>>
  OBVIOUS
<1>6. evt_queue = <<>> /\ dataCmds = <<>> /\ saveCmds = <<>> /\ noteCmds = <<>>
  BY <1>1, <1>4, <1>5 DEF TypeOK, HalTypeOK, ThreadTypeOK, NoteTypeOK
<1> QED BY <1>2, <1>4, <1>6

LEMMA NotifierWorks ==
  ASSUME TypeOK, Announced, UNCHANGED <<clean, hal, mode, note, evt_queue>>, hal = "running",
         noteCmds' = noteCmds \/ noteCmds' = Append(noteCmds, "next")
  PROVE  Announced'
<1>1. Longer(noteCmds, noteCmds')
  BY DEF Longer
<1>2. noteCmds \in Seq(Command)
  BY DEF TypeOK, NoteTypeOK
<1>3. /\ NextsOnly(noteCmds) => NextsOnly(noteCmds')
      /\ Behind("start", noteCmds) => Behind("start", noteCmds')
  BY <1>1, <1>2, LongerKeeps
<1> QED BY <1>3 DEF Announced, ToStart, Notifying

LEMMA NotifierWaits ==
  ASSUME Announced, UNCHANGED <<clean, hal, mode, note, noteCmds, mDataQ>>,
         hal = "starting" => evt_queue' = evt_queue /\ m_inputSaveQ'.list = m_inputSaveQ.list
  PROVE  Announced'
BY DEF Announced, Quiet, ToStart, Notifying

LEMMA AnnouncedKept ==
  ASSUME TypeOK, DataProtocol, QueuesOpen, Named, SaveProtocol, Library, Notified, Announced, Step
  PROVE  Announced'
<1>a. /\ hal \in {"stopped", "starting", "running", "stopping"} /\ noteCmds \in Seq(Command)
      /\ evt_queue \in Seq(Event) /\ note.at \in NotePlaces /\ m_inputSaveQ.list \in Seq(Nat)
  BY NoteFields, QueueFields DEF TypeOK, HalTypeOK, NoteTypeOK, QueueTypeOK
<1>b. hal = "starting" => data.at = "wait" /\ m_ongoingJpegQ.list = <<>>
  BY DEF DataProtocol, Phase, Waking, QueuesOpen, AllEmpty
<1>c. hal = "starting" => encoding = {}
  BY <1>b, NothingLeft
<1>d. noteCmds # <<>> =>
        /\ NextsOnly(noteCmds) => noteCmds[1] = "next" /\ NextsOnly(Tail(noteCmds))
        /\ Behind("start", noteCmds) => noteCmds[1] = "start" /\ NextsOnly(Tail(noteCmds))
  BY <1>a, TakenCommand
<1>1. ASSUME NEW m \in Modes, StartDoes(m) PROVE Announced'
  <2>1. CASE Leftovers = 0
    <3>1. evt_queue = <<>> /\ noteCmds = <<>> /\ note.at = "wait"
      BY <2>1, CleanStart
    <3>2. m_inputSaveQ.list = <<>>
      BY <1>1 DEF StartDoes, SaveProtocol, SaveEmpty
    <3>3. Len(mDataQ) <= 0
      BY <3>1, CountEmpty DEF Notified
    <3>4. mDataQ \in Seq({None} \cup ZslBuffer)
      BY DEF TypeOK, NoteTypeOK
    <3>5. mDataQ = <<>>
      BY <3>3, <3>4
    <3> QED BY <1>1, <3>1, <3>2, <3>5 DEF StartDoes, Announced, Quiet
  <2>2. CASE Leftovers # 0
    BY <1>1, <2>2 DEF StartDoes, Announced
  <2> QED BY <2>1, <2>2
<1>2. ASSUME StartedDoes PROVE Announced'
  <2>1. CASE clean
    <3>1. noteCmds = <<>> /\ note.at = "wait"
      BY <1>2, <2>1 DEF StartedDoes, Announced, Quiet
    <3>2. NextsOnly(noteCmds) /\ "start" \in Command
      BY <3>1 DEF NextsOnly, Command
    <3>3. Behind("start", <<"start">> \o noteCmds)
      BY <1>a, <3>2, AddedCommand
    <3> QED BY <1>2, <3>1, <3>3 DEF StartedDoes, Announced, ToStart
  <2>2. CASE ~clean
    BY <1>2, <2>2 DEF StartedDoes, Announced
  <2> QED BY <2>1, <2>2 DEF TypeOK, HalTypeOK
<1>3. ASSUME CancelPictureDoes PROVE Announced'
  BY <1>3 DEF CancelPictureDoes, Announced
<1>4. ASSUME SnapshotDoneDoes PROVE Announced'
  BY <1>4 DEF SnapshotDoneDoes, Announced
<1>5. ASSUME StoppedDoes PROVE Announced'
  BY <1>5 DEF StoppedDoes, Announced
<1>6. ASSUME JpegEventDoes PROVE Announced'
  <2>0. UNCHANGED <<clean, hal, mode, note>> /\ evt_queue # <<>>
    BY <1>6 DEF JpegEventDoes
  <2>1. CASE clean /\ hal = "starting"
    BY <2>0, <2>1 DEF Announced, Quiet
  <2>2. CASE hal = "running"
    <3>1. noteCmds' = noteCmds \/ noteCmds' = Append(noteCmds, "next")
      BY <1>6 DEF JpegEventDoes
    <3>2. Longer(noteCmds, noteCmds')
      BY <3>1 DEF Longer
    <3>3. /\ NextsOnly(noteCmds) => NextsOnly(noteCmds')
          /\ Behind("start", noteCmds) => Behind("start", noteCmds')
      BY <1>a, <3>2, LongerKeeps
    <3> QED BY <2>0, <2>2, <3>3 DEF Announced, ToStart, Notifying
  <2>3. CASE ~clean \/ hal \notin {"starting", "running"}
    BY <2>0, <2>3 DEF Announced
  <2> QED BY <1>a, <2>1, <2>2, <2>3
<1>7. ASSUME NEW f \in Frames, FrameArrivesDoes(f) PROVE Announced'
  BY <1>7, NotifierWaits DEF FrameArrivesDoes
<1>8. ASSUME processDataDoes PROVE Announced'
  BY <1>8, NotifierWaits DEF processDataDoes
<1>9. ASSUME processDataDoneDoes PROVE Announced'
  BY <1>9, NotifierWaits DEF processDataDoneDoes
<1>10. ASSUME NEW i \in Passes, ReprocOutputDoes(i) PROVE Announced'
  BY <1>10, NotifierWaits DEF ReprocOutputDoes
<1>11. ASSUME NEW i \in Passes, processPPDataDoes(i) PROVE Announced'
  BY <1>11, NotifierWaits DEF processPPDataDoes
<1>12. ASSUME DataStartDoes PROVE Announced'
  BY <1>12, NotifierWaits DEF DataStartDoes
<1>13. ASSUME DataStopDoes PROVE Announced'
  BY <1>13, NotifierWaits DEF DataStopDoes
<1>14. ASSUME DataStoppedDoes PROVE Announced'
  BY <1>14, NotifierWaits DEF DataStoppedDoes
<1>15. ASSUME DataNextDoes PROVE Announced'
  BY <1>15, NotifierWaits DEF DataNextDoes
<1>16. ASSUME encodeDataDoes PROVE Announced'
  BY <1>16, NotifierWaits DEF encodeDataDoes
<1>17. ASSUME RecordJobDoes PROVE Announced'
  BY <1>17, NotifierWaits DEF RecordJobDoes
<1>18. ASSUME ProcessRawDoes PROVE Announced'
  <2>0. UNCHANGED <<clean, hal, mode, note, evt_queue>> /\ hal # "starting"
    BY <1>18, <1>b DEF ProcessRawDoes
  <2>1. noteCmds' = noteCmds \/ noteCmds' = Append(noteCmds, "next")
    BY <1>18 DEF ProcessRawDoes
  <2>2. CASE hal = "running"
    BY <2>0, <2>1, <2>2, NotifierWorks
  <2>3. CASE hal # "running"
    BY <2>0, <2>3 DEF Announced
  <2> QED BY <2>2, <2>3
<1>19. ASSUME doReprocessDoes PROVE Announced'
  BY <1>19, NotifierWaits DEF doReprocessDoes
<1>20. ASSUME NEW id \in encoding, JpegDoneDoes(id) PROVE Announced'
  BY <1>20, <1>c, NotifierWaits DEF JpegDoneDoes
<1>21. ASSUME SaveStepDoes PROVE Announced'
  <2>0. UNCHANGED <<clean, hal, mode, note, evt_queue>>
    BY <1>21 DEF SaveStepDoes
  <2>1. noteCmds' = noteCmds \/ noteCmds' = Append(noteCmds, "next")
    BY <1>21 DEF SaveStepDoes
  <2>2. CASE hal = "running"
    BY <2>0, <2>1, <2>2, NotifierWorks
  <2>3. CASE clean /\ hal = "starting"
    <3>1. Quiet
      BY <2>3 DEF Announced
    <3>2. UNCHANGED <<noteCmds, mDataQ>> /\ m_inputSaveQ'.list = <<>>
      BY <1>21, <3>1 DEF SaveStepDoes, Loses, Quiet
    <3> QED BY <2>0, <2>3, <3>1, <3>2 DEF Announced, Quiet
  <2>4. CASE ~clean \/ hal \notin {"starting", "running"}
    BY <2>0, <2>4 DEF Announced
  <2> QED BY <2>2, <2>3, <2>4
<1>22. ASSUME NoteStartDoes PROVE Announced'
  BY <1>22, <1>a, <1>d DEF NoteStartDoes, Announced, Quiet, ToStart, Notifying, Counts, NotePlaces
<1>23. ASSUME NoteStopDoes PROVE Announced'
  BY <1>23, <1>a, <1>d DEF NoteStopDoes, Announced, Quiet, ToStart, Notifying, Counts, NotePlaces
<1>24. ASSUME NoteNextDoes PROVE Announced'
  BY <1>24, <1>a, <1>d DEF NoteNextDoes, Announced, Quiet, ToStart, Notifying, Counts, NotePlaces
<1>25. ASSUME NoteDeliveredDoes PROVE Announced'
  BY <1>25, <1>a, <1>d DEF NoteDeliveredDoes, Announced, Quiet, ToStart, Notifying, Counts, NotePlaces
<1> QED BY <1>1, <1>2, <1>3, <1>4, <1>5, <1>6, <1>7, <1>8, <1>9, <1>10, <1>11, <1>12, <1>13, <1>14, <1>15, <1>16, <1>17, <1>18, <1>19, <1>20, <1>21, <1>22, <1>23, <1>24, <1>25 DEF Step

-----------------------------------------------------------------------------
(* The pictures of a capture on their way: none is ever made of nothing.    *)
JpegEvents == {e \in Event : e.kind = "jpeg"}
Taken(th) == One(th[1] # None) + One(th[2] # None)
Held(q) == Len(q.list)
Got == One(frameTh # None /\ frameTh.at = "got")
AtEncode == One(data.at = "encode")
Reported == Count(evt_queue, JpegEvents)
Outcomes == Len(mDataQ)
Coming == wanted + Got
Reprocessing == Held(m_inputPPQ) + Held(m_ongoingPPQ) + Taken(ppTh)
ToEncodeNext == Held(m_inputJpegQ) + Held(m_inputRawQ) + AtEncode
InLibrary == Cardinality(encoding) + Reported
InFlight == Coming + Reprocessing + ToEncodeNext + InLibrary + Outcomes
PartNat ==
    /\ Held(m_inputPPQ) \in Nat /\ Held(m_ongoingPPQ) \in Nat /\ Taken(ppTh) \in Nat
    /\ Held(m_inputJpegQ) \in Nat /\ Held(m_inputRawQ) \in Nat /\ AtEncode \in Nat
    /\ wanted \in Nat /\ Got \in Nat /\ Cardinality(encoding) \in Nat /\ Reported \in Nat
GroupNat == Coming \in Nat /\ Reprocessing \in Nat /\ ToEncodeNext \in Nat /\ InLibrary \in Nat /\ Outcomes \in Nat
FlightNat == InFlight \in Nat /\ note.rcvd \in Nat /\ mode.shots \in Nat

Conserved ==
    clean /\ ~mode.longshot =>
        /\ hal = "starting" \/ (hal = "running" /\ ToStart) => InFlight <= mode.shots
        /\ hal = "running" /\ Notifying =>
              InFlight + note.rcvd <= mode.shots /\ (note.at # "wait" => note.rcvd = mode.shots)
Counting == clean /\ ~mode.longshot /\ hal \in {"starting", "running"}

LEMMA FlightsNat == TypeOK => PartNat /\ GroupNat /\ FlightNat
<1> SUFFICES ASSUME TypeOK PROVE PartNat /\ GroupNat /\ FlightNat
  OBVIOUS
<1>1. /\ m_inputPPQ.list \in Seq(Request) /\ m_ongoingPPQ.list \in Seq(Ongoing)
      /\ m_inputJpegQ.list \in Seq(JpegJob) /\ m_inputRawQ.list \in Seq(Buffer)
      /\ evt_queue \in Seq(Event) /\ mDataQ \in Seq({None} \cup ZslBuffer)
      /\ wanted \in Nat /\ IsFiniteSet(encoding) /\ note \in NoteType /\ mode \in ModeSet
  BY QueueFields DEF TypeOK, HalTypeOK, QueueTypeOK, ThreadTypeOK, NoteTypeOK
<1>2. /\ Held(m_inputPPQ) \in Nat /\ Held(m_ongoingPPQ) \in Nat
      /\ Held(m_inputJpegQ) \in Nat /\ Held(m_inputRawQ) \in Nat /\ Outcomes \in Nat
  BY <1>1 DEF Held, Outcomes
<1>3. Cardinality(encoding) \in Nat
  BY <1>1, FS_CardinalityType
<1>4. Reported \in Nat
  BY <1>1, CountNat DEF Reported
<1>5. Taken(ppTh) \in Nat
  BY DEF Taken, One
<1>6. note.rcvd \in Nat /\ mode.shots \in Nat
  BY <1>1, NoteFields, ModeFields
<1>7. Got \in Nat /\ AtEncode \in Nat
  BY DEF Got, AtEncode, One
<1>8. Coming \in Nat
  BY <1>1, <1>7 DEF Coming
<1>9. Reprocessing \in Nat
  BY <1>2, <1>5 DEF Reprocessing
<1>10. ToEncodeNext \in Nat
  BY <1>2, <1>7 DEF ToEncodeNext
<1>11. InLibrary \in Nat
  BY <1>3, <1>4 DEF InLibrary
<1>12. InFlight \in Nat
  BY <1>2, <1>8, <1>9, <1>10, <1>11 DEF InFlight
<1> QED BY <1>1, <1>2, <1>3, <1>4, <1>5, <1>6, <1>7, <1>8, <1>9, <1>10, <1>11, <1>12 DEF PartNat, GroupNat, FlightNat

LEMMA TakenChange ==
  ASSUME TypeOK, NEW i \in Passes, NEW x, ppTh' = [ppTh EXCEPT ![i] = x]
  PROVE  Taken(ppTh') + One(ppTh[i] # None) = Taken(ppTh) + One(x # None)
<1>1. DOMAIN ppTh = Passes /\ (i = 1 \/ i = 2)
  BY DEF TypeOK, HandTypeOK, Passes
<1>2. CASE i = 1
  <2>1. ppTh'[1] = x /\ ppTh'[2] = ppTh[2]
    BY <1>1, <1>2 DEF Passes
  <2> QED BY <1>2, <2>1 DEF Taken, One
<1>3. CASE i = 2
  <2>1. ppTh'[2] = x /\ ppTh'[1] = ppTh[1]
    BY <1>1, <1>3 DEF Passes
  <2> QED BY <1>3, <2>1 DEF Taken, One
<1> QED BY <1>1, <1>2, <1>3

LEMMA HeldMore ==
  ASSUME NEW T, NEW q, NEW r, NEW x, q.list \in Seq(T), r.list = Append(q.list, x)
  PROVE  Held(r) = Held(q) + 1
<1>1. PICK s \in Seq(T) : s = q.list
  OBVIOUS
<1>2. Len(Append(s, x)) = Len(s) + 1
  OBVIOUS
<1> QED BY <1>1, <1>2 DEF Held

LEMMA HeldFewer ==
  ASSUME NEW T, NEW q, NEW r, q.list \in Seq(T), Loses(q, r)
  PROVE  Held(q) = Held(r) + 1
<1>1. PICK s \in Seq(T) : s = q.list
  OBVIOUS
<1>2. s # <<>> => Len(s) = Len(Tail(s)) + 1
  OBVIOUS
<1> QED BY <1>1, <1>2 DEF Held, Loses

LEMMA PhaseStays ==
  ASSUME TypeOK, Announced, Announced', UNCHANGED <<clean, hal, mode, note>>,
         noteCmds' = noteCmds \/ noteCmds' = Append(noteCmds, "next"), clean, hal = "running"
  PROVE  (ToStart' => ToStart) /\ (Notifying' => Notifying)
<1>1. noteCmds \in Seq(Command)
  BY DEF TypeOK, NoteTypeOK
<1>2. Longer(noteCmds, noteCmds')
  BY DEF Longer
<1>3. /\ NextsOnly(noteCmds) => NextsOnly(noteCmds')
      /\ Behind("start", noteCmds) => Behind("start", noteCmds')
      /\ noteCmds' \in Seq(Command)
  BY <1>1, <1>2, LongerKeeps, LongerFits
<1>4. ~(NextsOnly(noteCmds') /\ Behind("start", noteCmds'))
  <2>1. ASSUME noteCmds' # <<>> PROVE 1 \in DOMAIN noteCmds'
    BY <1>3, <2>1, HeadTail
  <2> QED BY <2>1 DEF NextsOnly, Behind
<1>5. ToStart \/ Notifying
  BY DEF Announced
<1> QED BY <1>3, <1>4, <1>5 DEF ToStart, Notifying

LEMMA ConservedLess ==
  ASSUME TypeOK, TypeOK', Announced, Announced', Conserved, UNCHANGED <<clean, hal, mode, note>>,
         noteCmds' = noteCmds \/ noteCmds' = Append(noteCmds, "next"),
         Counting => InFlight' <= InFlight
  PROVE  Conserved'
<1>1. FlightNat /\ FlightNat'
  <2>1. (TypeOK => PartNat /\ GroupNat /\ FlightNat)'
    BY FlightsNat, PTL
  <2> QED BY <2>1, FlightsNat
<1>2. CASE ~Counting
  BY <1>2 DEF Conserved, Counting
<1>3. CASE Counting /\ hal = "starting"
  <2>1. InFlight <= mode.shots
    BY <1>3 DEF Conserved, Counting
  <2>2. InFlight' <= mode.shots
    BY <1>1, <1>3, <2>1 DEF FlightNat
  <2> QED BY <1>3, <2>2 DEF Conserved
<1>4. CASE Counting /\ hal = "running"
  <2>1. (ToStart' => ToStart) /\ (Notifying' => Notifying)
    BY <1>4, PhaseStays DEF Counting
  <2>2. ToStart => InFlight <= mode.shots
    BY <1>4 DEF Conserved, Counting
  <2>3. Notifying => InFlight + note.rcvd <= mode.shots /\ (note.at # "wait" => note.rcvd = mode.shots)
    BY <1>4 DEF Conserved, Counting
  <2>4. ToStart' => InFlight' <= mode.shots
    BY <1>1, <1>4, <2>1, <2>2 DEF FlightNat
  <2>5. Notifying' => InFlight' + note.rcvd <= mode.shots /\ (note.at # "wait" => note.rcvd = mode.shots)
    BY <1>1, <1>4, <2>1, <2>3 DEF FlightNat
  <2> QED BY <1>4, <2>4, <2>5 DEF Conserved
<1> QED BY <1>2, <1>3, <1>4 DEF Counting

(* One group of pictures shrinks, or passes a picture to another.           *)
LEMMA FlightLess ==
  ASSUME GroupNat, GroupNat'
  PROVE  /\ (Coming' <= Coming \/ Coming' + 1 = Coming) /\ Reprocessing' = Reprocessing /\ ToEncodeNext' = ToEncodeNext /\ InLibrary' = InLibrary /\ Outcomes' = Outcomes => InFlight' <= InFlight
         /\ (Reprocessing' <= Reprocessing \/ Reprocessing' + 1 = Reprocessing) /\ Coming' = Coming /\ ToEncodeNext' = ToEncodeNext /\ InLibrary' = InLibrary /\ Outcomes' = Outcomes => InFlight' <= InFlight
         /\ (ToEncodeNext' <= ToEncodeNext \/ ToEncodeNext' + 1 = ToEncodeNext) /\ Coming' = Coming /\ Reprocessing' = Reprocessing /\ InLibrary' = InLibrary /\ Outcomes' = Outcomes => InFlight' <= InFlight
         /\ (InLibrary' <= InLibrary \/ InLibrary' + 1 = InLibrary) /\ Coming' = Coming /\ Reprocessing' = Reprocessing /\ ToEncodeNext' = ToEncodeNext /\ Outcomes' = Outcomes => InFlight' <= InFlight
         /\ (Outcomes' <= Outcomes \/ Outcomes' + 1 = Outcomes) /\ Coming' = Coming /\ Reprocessing' = Reprocessing /\ ToEncodeNext' = ToEncodeNext /\ InLibrary' = InLibrary => InFlight' <= InFlight
         /\ Coming' + 1 = Coming /\ Reprocessing' = Reprocessing + 1 /\ ToEncodeNext' = ToEncodeNext /\ InLibrary' = InLibrary /\ Outcomes' = Outcomes => InFlight' <= InFlight
         /\ Coming' + 1 = Coming /\ ToEncodeNext' = ToEncodeNext + 1 /\ Reprocessing' = Reprocessing /\ InLibrary' = InLibrary /\ Outcomes' = Outcomes => InFlight' <= InFlight
         /\ Reprocessing' + 1 = Reprocessing /\ ToEncodeNext' = ToEncodeNext + 1 /\ Coming' = Coming /\ InLibrary' = InLibrary /\ Outcomes' = Outcomes => InFlight' <= InFlight
         /\ ToEncodeNext' + 1 = ToEncodeNext /\ InLibrary' = InLibrary + 1 /\ Coming' = Coming /\ Reprocessing' = Reprocessing /\ Outcomes' = Outcomes => InFlight' <= InFlight
         /\ ToEncodeNext' + 1 = ToEncodeNext /\ Outcomes' = Outcomes + 1 /\ Coming' = Coming /\ Reprocessing' = Reprocessing /\ InLibrary' = InLibrary => InFlight' <= InFlight
         /\ InLibrary' + 1 = InLibrary /\ Outcomes' = Outcomes + 1 /\ Coming' = Coming /\ Reprocessing' = Reprocessing /\ ToEncodeNext' = ToEncodeNext => InFlight' <= InFlight
<1>1. PICK a \in Nat, b \in Nat, c \in Nat, l \in Nat, n \in Nat :
        a = Coming /\ b = Reprocessing /\ c = ToEncodeNext /\ l = InLibrary /\ n = Outcomes
  BY DEF GroupNat
<1>2. PICK aa \in Nat, bb \in Nat, cc \in Nat, ll \in Nat, nn \in Nat :
        aa = Coming' /\ bb = Reprocessing' /\ cc = ToEncodeNext' /\ ll = InLibrary' /\ nn = Outcomes'
  BY DEF GroupNat
<1>3. InFlight = a + b + c + l + n /\ InFlight' = aa + bb + cc + ll + nn
  BY <1>1, <1>2 DEF InFlight
<1>4. (aa <= a \/ aa + 1 = a) /\ bb = b /\ cc = c /\ ll = l /\ nn = n => aa + bb + cc + ll + nn <= a + b + c + l + n
  OBVIOUS
<1>5. (bb <= b \/ bb + 1 = b) /\ aa = a /\ cc = c /\ ll = l /\ nn = n => aa + bb + cc + ll + nn <= a + b + c + l + n
  OBVIOUS
<1>6. (cc <= c \/ cc + 1 = c) /\ aa = a /\ bb = b /\ ll = l /\ nn = n => aa + bb + cc + ll + nn <= a + b + c + l + n
  OBVIOUS
<1>7. (ll <= l \/ ll + 1 = l) /\ aa = a /\ bb = b /\ cc = c /\ nn = n => aa + bb + cc + ll + nn <= a + b + c + l + n
  OBVIOUS
<1>8. (nn <= n \/ nn + 1 = n) /\ aa = a /\ bb = b /\ cc = c /\ ll = l => aa + bb + cc + ll + nn <= a + b + c + l + n
  OBVIOUS
<1>9. aa + 1 = a /\ bb = b + 1 /\ cc = c /\ ll = l /\ nn = n => aa + bb + cc + ll + nn <= a + b + c + l + n
  OBVIOUS
<1>10. aa + 1 = a /\ cc = c + 1 /\ bb = b /\ ll = l /\ nn = n => aa + bb + cc + ll + nn <= a + b + c + l + n
  OBVIOUS
<1>11. bb + 1 = b /\ cc = c + 1 /\ aa = a /\ ll = l /\ nn = n => aa + bb + cc + ll + nn <= a + b + c + l + n
  OBVIOUS
<1>12. cc + 1 = c /\ ll = l + 1 /\ aa = a /\ bb = b /\ nn = n => aa + bb + cc + ll + nn <= a + b + c + l + n
  OBVIOUS
<1>13. cc + 1 = c /\ nn = n + 1 /\ aa = a /\ bb = b /\ ll = l => aa + bb + cc + ll + nn <= a + b + c + l + n
  OBVIOUS
<1>14. ll + 1 = l /\ nn = n + 1 /\ aa = a /\ bb = b /\ cc = c => aa + bb + cc + ll + nn <= a + b + c + l + n
  OBVIOUS
<1> QED BY <1>1, <1>2, <1>3, <1>4, <1>5, <1>6, <1>7, <1>8, <1>9, <1>10, <1>11, <1>12, <1>13, <1>14

LEMMA FlightCounted ==
  ASSUME GroupNat, GroupNat', FlightNat, FlightNat', Coming' = Coming, Reprocessing' = Reprocessing,
         ToEncodeNext' = ToEncodeNext, InLibrary' = InLibrary, Outcomes = Outcomes' + 1,
         note'.rcvd = note.rcvd + 1, mode' = mode, InFlight + note.rcvd <= mode.shots
  PROVE  InFlight' + note'.rcvd <= mode.shots
<1>1. PICK a \in Nat, b \in Nat, c \in Nat, l \in Nat, n \in Nat :
        a = Coming /\ b = Reprocessing /\ c = ToEncodeNext /\ l = InLibrary /\ n = Outcomes
  BY DEF GroupNat
<1>2. PICK aa \in Nat, bb \in Nat, cc \in Nat, ll \in Nat, nn \in Nat :
        aa = Coming' /\ bb = Reprocessing' /\ cc = ToEncodeNext' /\ ll = InLibrary' /\ nn = Outcomes'
  BY DEF GroupNat
<1>3. InFlight = a + b + c + l + n /\ InFlight' = aa + bb + cc + ll + nn
  BY <1>1, <1>2 DEF InFlight
<1>4. aa + bb + cc + ll + nn + 1 = a + b + c + l + n
  BY <1>1, <1>2
<1>5. InFlight' + 1 = InFlight
  BY <1>3, <1>4
<1>6. PICK f \in Nat, g \in Nat, r \in Nat, h \in Nat : f = InFlight /\ g = InFlight' /\ r = note.rcvd /\ h = mode.shots
  BY DEF FlightNat
<1>7. g + 1 = f /\ f + r <= h
  BY <1>5, <1>6
<1>8. g + (r + 1) <= h
  BY <1>7
<1> QED BY <1>6, <1>8

ComingSame == wanted' = wanted /\ frameTh' = frameTh
ReprocSame == m_inputPPQ'.list = m_inputPPQ.list /\ m_ongoingPPQ'.list = m_ongoingPPQ.list /\ ppTh' = ppTh
EncodeSame ==
    /\ m_inputJpegQ'.list = m_inputJpegQ.list /\ m_inputRawQ'.list = m_inputRawQ.list
    /\ data'.at = "encode" <=> data.at = "encode"
LibrarySames == UNCHANGED <<encoding, evt_queue>>
NotesSame == Outcomes' = Outcomes

LEMMA FlightSame ==
  /\ ComingSame => Coming' = Coming
  /\ ReprocSame => Reprocessing' = Reprocessing
  /\ EncodeSame => ToEncodeNext' = ToEncodeNext
  /\ LibrarySames => InLibrary' = InLibrary
<1>1. /\ ComingSame => wanted' = wanted /\ Got' = Got
      /\ LibrarySames => encoding' = encoding /\ Reported' = Reported
  BY DEF ComingSame, LibrarySames, Got, Reported
<1>2. ReprocSame => /\ Held(m_inputPPQ') = Held(m_inputPPQ) /\ Held(m_ongoingPPQ') = Held(m_ongoingPPQ)
                    /\ Taken(ppTh') = Taken(ppTh)
  BY DEF ReprocSame, Held
<1>3. EncodeSame => /\ Held(m_inputJpegQ') = Held(m_inputJpegQ) /\ Held(m_inputRawQ') = Held(m_inputRawQ)
                    /\ AtEncode' = AtEncode
  BY DEF EncodeSame, Held, AtEncode, One
<1> QED BY <1>1, <1>2, <1>3 DEF Coming, Reprocessing, ToEncodeNext, InLibrary

LEMMA ConservedKept ==
  ASSUME TypeOK, TypeOK', DataProtocol, QueuesOpen, Named, SaveProtocol, Library, Notified, Announced, Announced', Conserved, Step
  PROVE  Conserved'
<1>n. PartNat /\ PartNat' /\ GroupNat /\ GroupNat' /\ FlightNat /\ FlightNat'
  <2>1. (TypeOK => PartNat /\ GroupNat /\ FlightNat)'
    BY FlightsNat, PTL
  <2> QED BY <2>1, FlightsNat
<1>f. /\ m_inputPPQ.list \in Seq(Request) /\ m_ongoingPPQ.list \in Seq(Ongoing)
      /\ m_inputJpegQ.list \in Seq(JpegJob) /\ m_inputRawQ.list \in Seq(Buffer)
      /\ evt_queue \in Seq(Event) /\ mDataQ \in Seq({None} \cup ZslBuffer) /\ IsFiniteSet(encoding)
      /\ None \notin FrameHand /\ None \notin PassHand /\ noteCmds \in Seq(Command)
      /\ hal \in {"stopped", "starting", "running", "stopping"}
  BY QueueFields, NoneApart DEF TypeOK, HalTypeOK, QueueTypeOK, ThreadTypeOK, NoteTypeOK
<1>l. \A S : \A s \in Seq(S) : (\A x : Len(Append(s, x)) = Len(s) + 1) /\ (s # <<>> => Len(s) = Len(Tail(s)) + 1)
  OBVIOUS
<1>o. One(TRUE) = 1 /\ One(FALSE) = 0
  BY DEF One
<1>e. AfterEncode \in {"raw", "reproc"}
  BY DEF AfterEncode
<1>s. ASSUME ComingSame, ReprocSame, EncodeSame, LibrarySames, NotesSame PROVE InFlight' = InFlight
  BY <1>s, FlightSame DEF InFlight, NotesSame
<1>w. /\ data.at \in {"encode", "record", "raw", "reproc"} => data.active /\ hal \in {"running", "stopping"}
      /\ data.at = "wait" /\ dataCmds # <<>> /\ dataCmds[1] = "stop" => hal = "stopping" /\ data.active
      /\ data.at = "saveStop" => hal = "stopping" /\ ~data.active
  BY WorksWhenOpen DEF DataProtocol
<1>v. ~Counting => ~(clean /\ ~mode.longshot /\ hal \in {"starting", "running"})
  BY DEF Counting
<1>1. ASSUME NEW m \in Modes, StartDoes(m) PROVE Conserved'
  <2>1. CASE Leftovers = 0
    <3>1. evt_queue = <<>> /\ frameTh = None /\ noteCmds = <<>>
      BY <2>1, CleanStart
    <3>2. AllEmpty /\ PassesIdle /\ data.at = "wait"
      BY <1>1 DEF StartDoes, DataProtocol, Phase, Asleep, QueuesOpen, Open
    <3>3. encoding = {}
      BY <3>2, NothingLeft DEF AllEmpty
    <3>4. Outcomes = 0
      <4>1. Len(mDataQ) <= 0 /\ Len(mDataQ) \in Nat
        BY <1>f, <3>1, CountEmpty DEF Notified
      <4> QED BY <4>1 DEF Outcomes
    <3>5. /\ UNCHANGED <<evt_queue, frameTh, ppTh, encoding, mDataQ, data, m_inputPPQ, m_ongoingPPQ, m_inputJpegQ, m_inputRawQ>>
          /\ mode' = m /\ wanted' = m.shots /\ hal' = "starting"
      BY <1>1 DEF StartDoes
    <3>6. Coming' = m.shots + 0
      <4>1. Got' = 0
        BY <3>1, <3>5 DEF One, Got
      <4> QED BY <3>5, <4>1 DEF Coming
    <3>7. Reprocessing' = 0
      <4>1. ppTh[1] = None /\ ppTh[2] = None
        BY <3>2 DEF PassesIdle, Passes
      <4>2. Taken(ppTh) = 0
        BY <4>1 DEF Taken, One
      <4>3. m_inputPPQ.list = <<>> /\ m_ongoingPPQ.list = <<>>
        BY <3>2 DEF AllEmpty
      <4>4. Held(m_inputPPQ') = 0 /\ Held(m_ongoingPPQ') = 0 /\ ppTh' = ppTh
        BY <3>5, <4>3 DEF Held
      <4> QED BY <4>2, <4>4 DEF Reprocessing
    <3>8. ToEncodeNext' = 0
      <4>1. AtEncode' = 0
        BY <3>2, <3>5 DEF One, AtEncode
      <4>2. m_inputJpegQ.list = <<>> /\ m_inputRawQ.list = <<>>
        BY <3>2 DEF AllEmpty
      <4>3. Held(m_inputJpegQ') = 0 /\ Held(m_inputRawQ') = 0
        BY <3>5, <4>2 DEF Held
      <4> QED BY <4>1, <4>3 DEF ToEncodeNext
    <3>9. InLibrary' = 0
      <4>1. Cardinality(encoding') = 0
        BY <3>3, <3>5, FS_EmptySet
      <4>2. Reported' = 0
        BY <3>1, <3>5, CountEmpty DEF Reported
      <4> QED BY <4>1, <4>2 DEF InLibrary
    <3>10. m.shots \in Nat
      BY <1>n, <3>5 DEF FlightNat
    <3>11. InFlight' = m.shots
      <4>1. Outcomes' = 0
        BY <3>4, <3>5 DEF Outcomes
      <4> QED BY <3>6, <3>7, <3>8, <3>9, <3>10, <4>1 DEF InFlight
    <3> QED BY <3>5, <3>10, <3>11 DEF Conserved
  <2>2. CASE Leftovers # 0
    BY <1>1, <2>2 DEF StartDoes, Conserved
  <2> QED BY <2>1, <2>2
<1>2. ASSUME StartedDoes PROVE Conserved'
  <2>1. ComingSame /\ ReprocSame /\ EncodeSame /\ LibrarySames /\ NotesSame
        /\ UNCHANGED <<clean, mode, note>> /\ hal = "starting" /\ noteCmds' = <<"start">> \o noteCmds
    BY <1>2 DEF StartedDoes, ComingSame, ReprocSame, EncodeSame, LibrarySames, NotesSame, Outcomes
  <2>2. InFlight' = InFlight
    BY <1>s, <2>1
  <2>3. ~Notifying'
    <3>1. 1 \in DOMAIN noteCmds' /\ noteCmds'[1] = "start"
      BY <1>f, <2>1
    <3> QED BY <3>1 DEF Notifying, NextsOnly
  <2> QED BY <2>1, <2>2, <2>3 DEF Conserved
<1>3. ASSUME CancelPictureDoes PROVE Conserved'
  BY <1>3 DEF CancelPictureDoes, Conserved
<1>4. ASSUME SnapshotDoneDoes PROVE Conserved'
  BY <1>4 DEF SnapshotDoneDoes, Conserved
<1>5. ASSUME StoppedDoes PROVE Conserved'
  BY <1>5 DEF StoppedDoes, Conserved
<1>6. ASSUME JpegEventDoes PROVE Conserved'
  <2>1. ComingSame /\ ReprocSame /\ EncodeSame /\ UNCHANGED <<clean, hal, mode, note, encoding>>
    BY <1>6 DEF JpegEventDoes, ComingSame, ReprocSame, EncodeSame
  <2>2. evt_queue # <<>> /\ evt_queue[1] \in JpegEvents /\ evt_queue' = Tail(evt_queue)
    BY <1>6, <1>f, HeadTail DEF JpegEventDoes, JpegEvents
  <2>3. Reported = One(evt_queue[1] \in JpegEvents) + Reported'
    BY <1>f, <2>2, CountTail DEF Reported
  <2>4. Reported = 1 + Reported'
    BY <2>2, <2>3 DEF One
  <2>5. InLibrary' + 1 = InLibrary
    BY <1>n, <2>1, <2>4 DEF InLibrary, PartNat
  <2>6. noteCmds' = noteCmds \/ noteCmds' = Append(noteCmds, "next")
    BY <1>6 DEF JpegEventDoes
  <2>7. mDataQ' = mDataQ \/ mDataQ' = Append(mDataQ, None)
    BY <1>6 DEF JpegEventDoes
  <2>8. Outcomes' = Outcomes \/ Outcomes' = Outcomes + 1
    BY <1>f, <1>l, <2>7 DEF Held, Outcomes
  <2>9. InFlight' <= InFlight
    <3>1. CASE Outcomes' = Outcomes
      <4>1. Coming' = Coming /\ Reprocessing' = Reprocessing /\ ToEncodeNext' = ToEncodeNext
        BY <2>1, FlightSame
      <4> QED BY <1>n, <2>5, <3>1, <4>1, FlightLess
    <3>2. CASE Outcomes' = Outcomes + 1
      <4>1. Coming' = Coming /\ Reprocessing' = Reprocessing /\ ToEncodeNext' = ToEncodeNext
        BY <2>1, FlightSame
      <4> QED BY <1>n, <2>5, <3>2, <4>1, FlightLess
    <3> QED BY <2>8, <3>1, <3>2
  <2> QED BY <2>1, <2>6, <2>9, ConservedLess
<1>7. ASSUME NEW f \in Frames, FrameArrivesDoes(f) PROVE Conserved'
  <2>1. ReprocSame /\ EncodeSame /\ LibrarySames /\ NotesSame /\ UNCHANGED <<clean, hal, mode, note, noteCmds>>
    BY <1>7 DEF FrameArrivesDoes, ReprocSame, EncodeSame, LibrarySames, NotesSame, Outcomes
  <2>2. Got = 0 /\ Got' = 1
    BY <1>7, <1>f DEF FrameArrivesDoes, One, Got
  <2>3. Counting => wanted' = wanted - 1
    BY <1>7 DEF FrameArrivesDoes, Counting
  <2>4. Counting => Coming' = Coming
    BY <1>n, <2>2, <2>3 DEF Coming, PartNat
  <2>5. Counting => InFlight' <= InFlight
    BY <1>n, <2>1, <2>4, FlightSame, FlightLess DEF GroupNat, NotesSame
  <2> QED BY <2>1, <2>5, ConservedLess
<1>8. ASSUME processDataDoes PROVE Conserved'
  <2>1. LibrarySames /\ NotesSame /\ UNCHANGED <<clean, hal, mode, note, noteCmds, wanted, ppTh, m_ongoingPPQ, data>>
    BY <1>8 DEF processDataDoes, LibrarySames, NotesSame, Outcomes
  <2>2. Got = 1 /\ Got' = 0
    BY <1>8, <1>f DEF processDataDoes, One, Got
  <2>3. Coming' + 1 = Coming
    BY <1>n, <2>1, <2>2 DEF Coming, PartNat
  <2>4. InLibrary' = InLibrary
    BY <2>1, FlightSame
  <2>5. Outcomes' = Outcomes
    BY <2>1 DEF NotesSame
  <2>6. ASSUME m_inputPPQ'.list = Append(m_inputPPQ.list, NewRequest(frameTh.frame)), UNCHANGED <<m_inputJpegQ, m_inputRawQ>>
        PROVE  InFlight' <= InFlight
    <3>1. PICK x : x = NewRequest(frameTh.frame)
      OBVIOUS
    <3>2. Held(m_inputPPQ') = Held(m_inputPPQ) + 1
      <4>1. m_inputPPQ'.list = Append(m_inputPPQ.list, x)
        BY <2>6, <3>1
      <4>2. m_inputPPQ.list \in Seq(Request)
        BY <1>f
      <4> QED BY <4>1, <4>2, HeldMore
    <3>3. Reprocessing' = Reprocessing + 1
      BY <1>n, <2>1, <3>2 DEF Reprocessing, PartNat
    <3>4. ToEncodeNext' = ToEncodeNext
      BY <2>1, <2>6, FlightSame DEF EncodeSame
    <3> QED BY <1>n, <2>3, <2>4, <2>5, <3>3, <3>4, FlightLess
  <2>7. ASSUME ToEncodeNext' = ToEncodeNext + 1, UNCHANGED m_inputPPQ
        PROVE  InFlight' <= InFlight
    <3>1. Reprocessing' = Reprocessing
      BY <2>1, <2>7, FlightSame DEF ReprocSame
    <3> QED BY <1>n, <2>3, <2>4, <2>5, <2>7, <3>1, FlightLess
  <2>8. InFlight' <= InFlight
    <3>1. ASSUME m_inputRawQ'.list = Append(m_inputRawQ.list, Source(frameTh.frame)), UNCHANGED m_inputJpegQ
          PROVE  ToEncodeNext' = ToEncodeNext + 1
      <4>1. PICK x : x = Source(frameTh.frame)
        OBVIOUS
      <4>2. Held(m_inputRawQ') = Held(m_inputRawQ) + 1
        BY <1>f, <3>1, <4>1, HeldMore
      <4>3. AtEncode' = AtEncode /\ Held(m_inputJpegQ') = Held(m_inputJpegQ)
        BY <2>1, <3>1 DEF AtEncode
      <4> QED BY <1>n, <4>2, <4>3 DEF ToEncodeNext, PartNat
    <3>2. ASSUME m_inputJpegQ'.list = Append(m_inputJpegQ.list, NewJpegJob(Source(frameTh.frame), None)), UNCHANGED m_inputRawQ
          PROVE  ToEncodeNext' = ToEncodeNext + 1
      <4>1. PICK x : x = NewJpegJob(Source(frameTh.frame), None)
        OBVIOUS
      <4>2. Held(m_inputJpegQ') = Held(m_inputJpegQ) + 1
        BY <1>f, <3>2, <4>1, HeldMore
      <4>3. AtEncode' = AtEncode /\ Held(m_inputRawQ') = Held(m_inputRawQ)
        BY <2>1, <3>2 DEF AtEncode
      <4> QED BY <1>n, <4>2, <4>3 DEF ToEncodeNext, PartNat
    <3>3. ASSUME UNCHANGED <<m_inputPPQ, m_inputJpegQ, m_inputRawQ>>
          PROVE  InFlight' <= InFlight
      <4>1. Reprocessing' = Reprocessing /\ ToEncodeNext' = ToEncodeNext
        BY <2>1, <3>3, FlightSame DEF ReprocSame, EncodeSame
      <4> QED BY <1>n, <2>3, <2>4, <2>5, <4>1, FlightLess
    <3>4. \/ m_inputPPQ'.list = Append(m_inputPPQ.list, NewRequest(frameTh.frame)) /\ UNCHANGED <<m_inputJpegQ, m_inputRawQ>>
          \/ /\ m_inputRawQ'.list = Append(m_inputRawQ.list, Source(frameTh.frame))
             /\ UNCHANGED m_inputJpegQ /\ UNCHANGED m_inputPPQ
          \/ /\ m_inputJpegQ'.list = Append(m_inputJpegQ.list, NewJpegJob(Source(frameTh.frame), None))
             /\ UNCHANGED m_inputRawQ /\ UNCHANGED m_inputPPQ
          \/ UNCHANGED <<m_inputPPQ, m_inputJpegQ, m_inputRawQ>>
      BY <1>8 DEF processDataDoes
    <3> QED BY <2>6, <2>7, <3>1, <3>2, <3>3, <3>4
  <2> QED BY <2>1, <2>8, ConservedLess
<1>9. ASSUME processDataDoneDoes PROVE Conserved'
  <2>1. ReprocSame /\ EncodeSame /\ LibrarySames /\ NotesSame /\ UNCHANGED <<clean, hal, mode, note, noteCmds, wanted>>
    BY <1>9 DEF processDataDoneDoes, ReprocSame, EncodeSame, LibrarySames, NotesSame, Outcomes
  <2>2. Got = 0 /\ Got' = 0
    BY <1>9 DEF processDataDoneDoes, One, Got
  <2>3. Coming' = Coming
    BY <2>1, <2>2 DEF Coming
  <2>4. InFlight' <= InFlight
    BY <1>n, <2>1, <2>3, FlightSame, FlightLess DEF GroupNat, NotesSame
  <2> QED BY <2>1, <2>4, ConservedLess
<1>10. ASSUME NEW i \in Passes, ReprocOutputDoes(i) PROVE Conserved'
  <2>1. ComingSame /\ EncodeSame /\ LibrarySames /\ NotesSame /\ UNCHANGED <<clean, hal, mode, note, noteCmds, m_inputPPQ>>
    BY <1>10 DEF ReprocOutputDoes, ComingSame, EncodeSame, LibrarySames, NotesSame, Outcomes
  <2>2. Reprocessing' <= Reprocessing
    <3>1. CASE UNCHANGED <<ppTh, m_ongoingPPQ>>
      BY <1>n, <2>1, <3>1 DEF Reprocessing, PartNat
    <3>2. CASE /\ Loses(m_ongoingPPQ, m_ongoingPPQ')
               /\ \E h : ppTh' = [ppTh EXCEPT ![i] = h]
      <4>1. PICK h : ppTh' = [ppTh EXCEPT ![i] = h]
        BY <3>2
      <4>2. Taken(ppTh') + One(ppTh[i] # None) = Taken(ppTh) + One(h # None)
        BY <4>1, TakenChange
      <4>3. One(ppTh[i] # None) = 0 /\ One(h # None) <= 1 /\ One(h # None) \in Nat
        BY <1>10 DEF ReprocOutputDoes, One
      <4>4. Held(m_ongoingPPQ) = Held(m_ongoingPPQ') + 1
        BY <1>f, <3>2, HeldFewer
      <4>5. Taken(ppTh') <= Taken(ppTh) + 1
        BY <1>n, <4>2, <4>3 DEF PartNat
      <4> QED BY <1>n, <2>1, <4>4, <4>5 DEF Reprocessing, PartNat
    <3> QED BY <1>10, <3>1, <3>2 DEF ReprocOutputDoes
  <2>3. InFlight' <= InFlight
    BY <1>n, <2>1, <2>2, FlightSame, FlightLess DEF GroupNat, NotesSame
  <2> QED BY <2>1, <2>3, ConservedLess
<1>11. ASSUME NEW i \in Passes, processPPDataDoes(i) PROVE Conserved'
  <2>1. ComingSame /\ LibrarySames /\ NotesSame /\ UNCHANGED <<clean, hal, mode, note, noteCmds, m_ongoingPPQ, data>>
    BY <1>11 DEF processPPDataDoes, ComingSame, LibrarySames, NotesSame, Outcomes
  <2>2. Taken(ppTh') + 1 = Taken(ppTh)
    <3>1. Taken(ppTh') + One(ppTh[i] # None) = Taken(ppTh) + One(None # None)
      BY <1>11, TakenChange DEF processPPDataDoes
    <3>2. One(ppTh[i] # None) = 1 /\ One(None # None) = 0
      BY <1>11, <1>f DEF processPPDataDoes, One
    <3> QED BY <1>n, <3>1, <3>2 DEF PartNat
  <2>3. Coming' = Coming /\ InLibrary' = InLibrary /\ Outcomes' = Outcomes
    BY <2>1, FlightSame DEF NotesSame, Outcomes
  <2>4. ASSUME UNCHANGED m_inputPPQ PROVE Reprocessing' + 1 = Reprocessing
    <3>1. Held(m_inputPPQ') = Held(m_inputPPQ) /\ Held(m_ongoingPPQ') = Held(m_ongoingPPQ)
      BY <2>1, <2>4
    <3> QED BY <1>n, <2>2, <3>1 DEF Reprocessing, PartNat
  <2>5. ASSUME UNCHANGED m_inputPPQ, ToEncodeNext' = ToEncodeNext + 1 PROVE InFlight' <= InFlight
    <3> QED BY <1>n, <2>3, <2>4, <2>5, FlightLess
  <2>6. InFlight' <= InFlight
    <3>1. ASSUME m_inputPPQ'.list = Append(m_inputPPQ.list, Again(i)), UNCHANGED <<m_inputJpegQ, m_inputRawQ>>
          PROVE  InFlight' <= InFlight
      <4>1. PICK x : x = Again(i)
        OBVIOUS
      <4>2. Held(m_inputPPQ') = Held(m_inputPPQ) + 1 /\ Held(m_ongoingPPQ') = Held(m_ongoingPPQ)
        <5>1. m_inputPPQ'.list = Append(m_inputPPQ.list, x)
          BY <3>1, <4>1
        <5>2. Held(m_inputPPQ') = Held(m_inputPPQ) + 1
          <6>1. m_inputPPQ.list \in Seq(Request)
            BY <1>f
          <6> QED BY <5>1, <6>1, HeldMore
        <5> QED BY <2>1, <5>2
      <4>3. Reprocessing' = Reprocessing
        BY <1>n, <2>2, <4>2 DEF Reprocessing, PartNat
      <4>4. ToEncodeNext' = ToEncodeNext
        BY <2>1, <3>1, FlightSame DEF EncodeSame
      <4> QED BY <1>n, <2>3, <4>3, <4>4, FlightLess DEF GroupNat
    <3>2. ASSUME m_inputRawQ'.list = Append(m_inputRawQ.list, ppTh[i].out), UNCHANGED m_inputJpegQ
          PROVE  ToEncodeNext' = ToEncodeNext + 1
      <4>1. PICK x : x = ppTh[i].out
        OBVIOUS
      <4>2. Held(m_inputRawQ') = Held(m_inputRawQ) + 1
        BY <1>f, <3>2, <4>1, HeldMore
      <4>3. AtEncode' = AtEncode /\ Held(m_inputJpegQ') = Held(m_inputJpegQ)
        BY <2>1, <3>2 DEF AtEncode
      <4> QED BY <1>n, <4>2, <4>3 DEF ToEncodeNext, PartNat
    <3>3. ASSUME m_inputJpegQ'.list = Append(m_inputJpegQ.list, ToEncode(i)), UNCHANGED m_inputRawQ
          PROVE  ToEncodeNext' = ToEncodeNext + 1
      <4>1. PICK x : x = ToEncode(i)
        OBVIOUS
      <4>2. Held(m_inputJpegQ') = Held(m_inputJpegQ) + 1
        BY <1>f, <3>3, <4>1, HeldMore
      <4>3. AtEncode' = AtEncode /\ Held(m_inputRawQ') = Held(m_inputRawQ)
        BY <2>1, <3>3 DEF AtEncode
      <4> QED BY <1>n, <4>2, <4>3 DEF ToEncodeNext, PartNat
    <3>4. ASSUME UNCHANGED <<m_inputPPQ, m_inputJpegQ, m_inputRawQ>>
          PROVE  InFlight' <= InFlight
      <4>1. ToEncodeNext' = ToEncodeNext
        BY <2>1, <3>4, FlightSame DEF EncodeSame
      <4>2. Reprocessing' + 1 = Reprocessing
        BY <2>4, <3>4
      <4> QED BY <1>n, <2>3, <4>1, <4>2, FlightLess
    <3>5. \/ m_inputPPQ'.list = Append(m_inputPPQ.list, Again(i)) /\ UNCHANGED <<m_inputJpegQ, m_inputRawQ>>
          \/ m_inputRawQ'.list = Append(m_inputRawQ.list, ppTh[i].out) /\ UNCHANGED m_inputJpegQ /\ UNCHANGED m_inputPPQ
          \/ m_inputJpegQ'.list = Append(m_inputJpegQ.list, ToEncode(i)) /\ UNCHANGED m_inputRawQ /\ UNCHANGED m_inputPPQ
          \/ UNCHANGED <<m_inputPPQ, m_inputJpegQ, m_inputRawQ>>
      BY <1>11 DEF processPPDataDoes
    <3> QED BY <2>5, <3>1, <3>2, <3>3, <3>4, <3>5
  <2> QED BY <2>1, <2>6, ConservedLess
<1>12. ASSUME DataStartDoes PROVE Conserved'
  <2>1. ComingSame /\ ReprocSame /\ EncodeSame /\ LibrarySames /\ NotesSame /\ UNCHANGED <<clean, hal, mode, note, noteCmds>>
    BY <1>e, <1>12 DEF DataStartDoes, ComingSame, ReprocSame, EncodeSame, LibrarySames, NotesSame, Outcomes
  <2>2. InFlight' <= InFlight
    BY <1>n, <1>s, <2>1 DEF FlightNat
  <2> QED BY <2>1, <2>2, ConservedLess
<1>13. ASSUME DataStopDoes PROVE Conserved'
  BY <1>13, <1>w DEF DataStopDoes, Conserved
<1>14. ASSUME DataStoppedDoes PROVE Conserved'
  BY <1>14, <1>w DEF DataStoppedDoes, Conserved
<1>15. ASSUME DataNextDoes PROVE Conserved'
  <2>1. ComingSame /\ ReprocSame /\ LibrarySames /\ NotesSame /\ UNCHANGED <<clean, hal, mode, note, noteCmds, m_inputRawQ>>
    BY <1>15 DEF DataNextDoes, ComingSame, ReprocSame, LibrarySames, NotesSame, Outcomes
  <2>2. AtEncode = 0
    BY <1>15 DEF DataNextDoes, One, AtEncode
  <2>3. ToEncodeNext' <= ToEncodeNext
    <3>1. CASE UNCHANGED m_inputJpegQ /\ data'.at # "encode"
      <4>1. AtEncode' = 0
        BY <3>1 DEF One, AtEncode
      <4> QED BY <1>n, <2>1, <2>2, <3>1, <4>1 DEF ToEncodeNext, PartNat
    <3>2. CASE Loses(m_inputJpegQ, m_inputJpegQ') /\ data'.at = "encode"
      <4>1. AtEncode' = 1
        BY <3>2 DEF One, AtEncode
      <4>2. Held(m_inputJpegQ) = Held(m_inputJpegQ') + 1
        BY <1>f, <3>2, HeldFewer
      <4> QED BY <1>n, <2>1, <2>2, <4>1, <4>2 DEF ToEncodeNext, PartNat
    <3> QED BY <1>15, <3>1, <3>2 DEF DataNextDoes
  <2>4. InFlight' <= InFlight
    BY <1>n, <2>1, <2>3, FlightSame, FlightLess DEF GroupNat, NotesSame
  <2> QED BY <2>1, <2>4, ConservedLess
<1>16. ASSUME encodeDataDoes PROVE Conserved'
  <2>1. ComingSame /\ ReprocSame /\ NotesSame
        /\ UNCHANGED <<clean, hal, mode, note, noteCmds, m_inputRawQ, m_inputJpegQ, evt_queue>>
    BY <1>16 DEF encodeDataDoes, ComingSame, ReprocSame, NotesSame, Outcomes
  <2>2. AtEncode = 1 /\ AtEncode' = 0
    BY <1>e, <1>16 DEF encodeDataDoes, One, AtEncode
  <2>3. ToEncodeNext' + 1 = ToEncodeNext
    BY <1>n, <2>1, <2>2 DEF ToEncodeNext, PartNat
  <2>4. InLibrary' = InLibrary \/ InLibrary' = InLibrary + 1
    <3>1. CASE encoding' = encoding
      BY <2>1, <3>1 DEF InLibrary, Reported
    <3>2. ASSUME NEW id, id \notin UsedIds, encoding' = encoding \cup {id}
          PROVE  InLibrary' = InLibrary + 1
      <4>1. id \notin encoding
        BY <3>2 DEF UsedIds
      <4>2. Cardinality(encoding') = Cardinality(encoding) + 1
        BY <1>f, <3>2, <4>1, FS_AddElement
      <4>3. Reported' = Reported
        BY <2>1 DEF Reported
      <4> QED BY <1>n, <4>2, <4>3 DEF InLibrary, PartNat
    <3> QED BY <1>16, <3>1, <3>2 DEF encodeDataDoes
  <2>5. InFlight' <= InFlight
    <3>1. CASE InLibrary' = InLibrary
      <4>1. Coming' = Coming /\ Reprocessing' = Reprocessing /\ Outcomes' = Outcomes
        BY <2>1, FlightSame DEF NotesSame
      <4> QED BY <1>n, <2>3, <3>1, <4>1, FlightLess
    <3>2. CASE InLibrary' = InLibrary + 1
      <4>1. Coming' = Coming /\ Reprocessing' = Reprocessing /\ Outcomes' = Outcomes
        BY <2>1, FlightSame DEF NotesSame
      <4> QED BY <1>n, <2>3, <3>2, <4>1, FlightLess
    <3> QED BY <2>4, <3>1, <3>2
  <2> QED BY <2>1, <2>5, ConservedLess
<1>17. ASSUME RecordJobDoes PROVE Conserved'
  <2>1. ComingSame /\ ReprocSame /\ EncodeSame /\ LibrarySames /\ NotesSame /\ UNCHANGED <<clean, hal, mode, note, noteCmds>>
    BY <1>e, <1>17 DEF RecordJobDoes, ComingSame, ReprocSame, EncodeSame, LibrarySames, NotesSame, Outcomes
  <2>2. InFlight' <= InFlight
    BY <1>n, <1>s, <2>1 DEF FlightNat
  <2> QED BY <2>1, <2>2, ConservedLess
<1>18. ASSUME ProcessRawDoes PROVE Conserved'
  <2>1. ComingSame /\ ReprocSame /\ LibrarySames /\ UNCHANGED <<clean, hal, mode, note, m_inputJpegQ>>
    BY <1>18 DEF ProcessRawDoes, ComingSame, ReprocSame, LibrarySames
  <2>2. AtEncode = 0 /\ AtEncode' = 0
    BY <1>18 DEF ProcessRawDoes, One, AtEncode
  <2>3. Held(m_inputRawQ) = Held(m_inputRawQ') + 1
    BY <1>18, <1>f, HeldFewer DEF ProcessRawDoes
  <2>4. ToEncodeNext' + 1 = ToEncodeNext
    BY <1>n, <2>1, <2>2, <2>3 DEF ToEncodeNext, PartNat
  <2>5. noteCmds' = noteCmds \/ noteCmds' = Append(noteCmds, "next")
    BY <1>18 DEF ProcessRawDoes
  <2>6. Outcomes' = Outcomes \/ Outcomes' = Outcomes + 1
    <3>1. PICK x : x = IF m_inputRawQ.list[1].ch = 0 THEN m_inputRawQ.list[1] ELSE None
      OBVIOUS
    <3>2. mDataQ' = mDataQ \/ mDataQ' = Append(mDataQ, x)
      BY <1>18, <3>1 DEF ProcessRawDoes
    <3> QED BY <1>f, <1>l, <3>2 DEF Held, Outcomes
  <2>7. InFlight' <= InFlight
    <3>1. CASE Outcomes' = Outcomes
      <4>1. Coming' = Coming /\ Reprocessing' = Reprocessing /\ InLibrary' = InLibrary
        BY <2>1, FlightSame
      <4> QED BY <1>n, <2>4, <3>1, <4>1, FlightLess
    <3>2. CASE Outcomes' = Outcomes + 1
      <4>1. Coming' = Coming /\ Reprocessing' = Reprocessing /\ InLibrary' = InLibrary
        BY <2>1, FlightSame
      <4> QED BY <1>n, <2>4, <3>2, <4>1, FlightLess
    <3> QED BY <2>6, <3>1, <3>2
  <2> QED BY <2>1, <2>5, <2>7, ConservedLess
<1>19. ASSUME doReprocessDoes PROVE Conserved'
  <2>1. ComingSame /\ EncodeSame /\ LibrarySames /\ NotesSame /\ UNCHANGED <<clean, hal, mode, note, noteCmds, ppTh>>
    BY <1>19 DEF doReprocessDoes, ComingSame, EncodeSame, LibrarySames, NotesSame, Outcomes
  <2>2. Reprocessing' <= Reprocessing
    <3>1. CASE UNCHANGED <<m_inputPPQ, m_ongoingPPQ>>
      BY <1>n, <2>1, <3>1 DEF Reprocessing, PartNat
    <3>2. CASE Loses(m_inputPPQ, m_inputPPQ') /\ Gets(m_ongoingPPQ, m_ongoingPPQ', Passed(m_inputPPQ.list[1]))
      <4>1. Held(m_inputPPQ) = Held(m_inputPPQ') + 1
        BY <1>f, <3>2, HeldFewer
      <4>2. PICK x : x = Passed(m_inputPPQ.list[1])
        OBVIOUS
      <4>3. m_ongoingPPQ'.list = m_ongoingPPQ.list \/ m_ongoingPPQ'.list = Append(m_ongoingPPQ.list, x)
        BY <3>2, <4>2 DEF Gets
      <4>4. Held(m_ongoingPPQ') <= Held(m_ongoingPPQ) + 1
        <5>1. CASE m_ongoingPPQ'.list = m_ongoingPPQ.list
          BY <1>n, <5>1 DEF PartNat, Held
        <5>2. CASE m_ongoingPPQ'.list = Append(m_ongoingPPQ.list, x)
          <6>1. Held(m_ongoingPPQ') = Held(m_ongoingPPQ) + 1
            <7>1. m_ongoingPPQ.list \in Seq(Ongoing)
              BY <1>f
            <7> QED BY <5>2, <7>1, HeldMore
          <6> QED BY <1>n, <6>1 DEF PartNat
        <5> QED BY <4>3, <5>1, <5>2
      <4> QED BY <1>n, <2>1, <4>1, <4>4 DEF Reprocessing, PartNat
    <3> QED BY <1>19, <3>1, <3>2 DEF doReprocessDoes
  <2>3. InFlight' <= InFlight
    BY <1>n, <2>1, <2>2, FlightSame, FlightLess DEF GroupNat, NotesSame
  <2> QED BY <2>1, <2>3, ConservedLess
<1>20. ASSUME NEW id \in encoding, JpegDoneDoes(id) PROVE Conserved'
  <2>1. ComingSame /\ ReprocSame /\ EncodeSame /\ NotesSame /\ UNCHANGED <<clean, hal, mode, note, noteCmds>>
    BY <1>20 DEF JpegDoneDoes, ComingSame, ReprocSame, EncodeSame, NotesSame, Outcomes
  <2>2. PICK e \in Event : e.kind = "jpeg" /\ evt_queue' = Append(evt_queue, e)
    BY <1>20 DEF JpegDoneDoes
  <2>3. Count(Append(evt_queue, e), JpegEvents) = Reported + One(e \in JpegEvents)
    BY <1>f, CountAppend DEF Reported
  <2>4. Reported' = Reported + 1
    <3>1. One(e \in JpegEvents) = 1
      BY <2>2 DEF JpegEvents, One
    <3> QED BY <2>2, <2>3, <3>1 DEF Reported
  <2>5. Cardinality(encoding') = Cardinality(encoding) - 1
    BY <1>20, <1>f, FS_RemoveElement DEF JpegDoneDoes
  <2>6. InLibrary' = InLibrary
    BY <1>n, <2>4, <2>5 DEF InLibrary, PartNat
  <2>7. InFlight' <= InFlight
    BY <1>n, <2>1, <2>6, FlightSame, FlightLess DEF GroupNat, NotesSame
  <2> QED BY <2>1, <2>7, ConservedLess
<1>21. ASSUME SaveStepDoes PROVE Conserved'
  <2>1. ComingSame /\ ReprocSame /\ EncodeSame /\ LibrarySames /\ UNCHANGED <<clean, hal, mode, note>>
    BY <1>21 DEF SaveStepDoes, ComingSame, ReprocSame, EncodeSame, LibrarySames
  <2>2. noteCmds' = noteCmds \/ noteCmds' = Append(noteCmds, "next")
    BY <1>21 DEF SaveStepDoes
  <2>3. Counting => mDataQ' = mDataQ
    <3>1. Counting => m_inputSaveQ.list = <<>>
      BY DEF Counting, SaveProtocol, SaveEmpty, Saving
    <3> QED BY <1>21, <3>1 DEF SaveStepDoes, Loses
  <2>4. Counting => InFlight' <= InFlight
    BY <1>n, <1>s, <2>1, <2>3 DEF NotesSame, Outcomes, FlightNat
  <2> QED BY <2>1, <2>2, <2>4, ConservedLess
<1>22. ASSUME NoteStartDoes PROVE Conserved'
  <2>1. ComingSame /\ ReprocSame /\ EncodeSame /\ LibrarySames /\ NotesSame /\ UNCHANGED <<clean, mode, hal>>
    BY <1>22 DEF NoteStartDoes, ComingSame, ReprocSame, EncodeSame, LibrarySames, NotesSame, Outcomes
  <2>2. InFlight' = InFlight
    BY <1>s, <2>1
  <2>3. note'.rcvd = 0 /\ note'.at = "wait" /\ note.at = "wait" /\ noteCmds # <<>> /\ noteCmds[1] = "start"
    BY <1>22 DEF NoteStartDoes
  <2>4. hal = "running" /\ clean => ToStart
    <3>1. ~Notifying
      <4>1. 1 \in DOMAIN noteCmds
        BY <1>f, <2>3
      <4> QED BY <2>3, <4>1 DEF Notifying, NextsOnly
    <3> QED BY <3>1 DEF Announced
  <2> QED BY <1>n, <2>1, <2>2, <2>3, <2>4 DEF Conserved, FlightNat
<1>23. ASSUME NoteStopDoes PROVE Conserved'
  <2>1. noteCmds # <<>> /\ noteCmds[1] = "stop" /\ UNCHANGED <<clean, mode, hal>>
    BY <1>23 DEF NoteStopDoes
  <2>2. 1 \in DOMAIN noteCmds
    BY <1>f, <2>1
  <2>3. ~ToStart /\ ~Notifying /\ noteCmds # <<>>
    BY <2>1, <2>2 DEF ToStart, Behind, Notifying, NextsOnly
  <2>4. ~clean \/ hal \notin {"starting", "running"}
    BY <2>3 DEF Announced, Quiet
  <2> QED BY <2>1, <2>4 DEF Conserved
<1>24. ASSUME NoteNextDoes PROVE Conserved'
  <2>0. ComingSame /\ ReprocSame /\ EncodeSame /\ encoding' = encoding /\ UNCHANGED <<clean, mode, hal>>
        /\ noteCmds # <<>> /\ noteCmds[1] = "next" /\ noteCmds' = Tail(noteCmds) /\ note.at = "wait"
    BY <1>24 DEF NoteNextDoes, ComingSame, ReprocSame, EncodeSame
  <2>1. ~ToStart
    BY <2>0 DEF ToStart, Behind
  <2>2. clean /\ hal \in {"starting", "running"} => hal = "running" /\ Notifying
    BY <2>0, <2>1 DEF Announced, Quiet
  <2>3. CASE ~Counting
    BY <2>0, <2>3 DEF Conserved, Counting
  <2>4. CASE Counting
    <3>1. hal = "running" /\ Notifying /\ InFlight + note.rcvd <= mode.shots
      BY <2>2, <2>4 DEF Counting, Conserved
    <3>2. ~ToStart'
      <4>1. NextsOnly(Tail(noteCmds)) /\ Tail(noteCmds) \in Seq(Command)
        BY <1>f, <2>0, <3>1, TakenCommand, HeadTail DEF Notifying
      <4>2. ASSUME Tail(noteCmds) # <<>> PROVE 1 \in DOMAIN Tail(noteCmds)
        BY <4>1, <4>2, HeadTail
      <4> QED BY <2>0, <4>1, <4>2 DEF ToStart, Behind, NextsOnly
    <3>3. Counts /\ note.expected = mode.shots
      BY <2>4, <3>1 DEF Notifying, Counts, Counting
    <3>4. CASE UNCHANGED <<note, mDataQ, evt_queue>>
      <4>1. InFlight' = InFlight
        BY <1>s, <2>0, <3>4 DEF LibrarySames, NotesSame, Outcomes
      <4> QED BY <2>0, <3>1, <3>2, <3>4, <4>1 DEF Conserved
    <3>5. CASE /\ mDataQ # <<>> /\ mDataQ' = Tail(mDataQ) /\ note'.rcvd = note.rcvd + 1
               /\ InLibrary' = InLibrary /\ (note'.at # "wait" => IsLast)
      <4>1. Outcomes = Outcomes' + 1
        BY <1>f, <1>l, <3>5 DEF Held, Outcomes
      <4>2. Coming' = Coming /\ Reprocessing' = Reprocessing /\ ToEncodeNext' = ToEncodeNext /\ InLibrary' = InLibrary
        BY <2>0, <3>5, FlightSame
      <4>3. InFlight' + note'.rcvd <= mode.shots
        BY <1>n, <2>0, <3>1, <3>5, <4>1, <4>2, FlightCounted
      <4>4. note'.at # "wait" => note'.rcvd = mode.shots
        BY <3>3, <3>5 DEF IsLast
      <4> QED BY <2>0, <3>1, <3>2, <4>3, <4>4 DEF Conserved
    <3>6. ASSUME evt_queue' = Append(evt_queue, [kind |-> "done", id |-> 0, ok |-> TRUE])
          PROVE  InLibrary' = InLibrary
      <4>1. PICK e : e = [kind |-> "done", id |-> 0, ok |-> TRUE]
        OBVIOUS
      <4>2. e \in Event /\ e \notin JpegEvents
        BY <4>1 DEF Event, JpegEvents
      <4>3. Count(Append(evt_queue, e), JpegEvents) = Reported + One(e \in JpegEvents)
        BY <1>f, <4>2, CountAppend DEF Reported
      <4>4. One(e \in JpegEvents) = 0 /\ Reported \in Nat
        BY <1>n, <4>2 DEF One, PartNat
      <4>5. Reported' = Reported
        BY <3>6, <4>1, <4>3, <4>4 DEF Reported
      <4> QED BY <2>0, <4>5 DEF InLibrary
    <3>7. ASSUME evt_queue' = evt_queue PROVE InLibrary' = InLibrary
      BY <2>0, <3>7 DEF InLibrary, Reported
    <3> QED BY <1>24, <3>3, <3>4, <3>5, <3>6, <3>7 DEF NoteNextDoes
  <2> QED BY <2>3, <2>4
<1>25. ASSUME NoteDeliveredDoes PROVE Conserved'
  <2>1. note.at = "answered" /\ UNCHANGED <<clean, mode, hal>>
    BY <1>25 DEF NoteDeliveredDoes
  <2>2. ~clean \/ hal \notin {"starting", "running"}
    BY <2>1 DEF Announced, Quiet, ToStart, Notifying
  <2> QED BY <2>1, <2>2 DEF Conserved
<1> QED BY <1>1, <1>2, <1>3, <1>4, <1>5, <1>6, <1>7, <1>8, <1>9, <1>10, <1>11, <1>12, <1>13, <1>14, <1>15, <1>16, <1>17, <1>18, <1>19, <1>20, <1>21, <1>22, <1>23, <1>24, <1>25 DEF Step

-----------------------------------------------------------------------------
(* What every state keeps of the way of the pictures, and the end of a      *)
(* capture begun on clean ground.                                           *)
Journey == SaveProtocol /\ Library /\ Notified /\ Announced /\ Conserved

LEMMA JourneyInit == Init => Journey
<1> SUFFICES ASSUME Init PROVE Journey
  OBVIOUS
<1>1. /\ hal = "stopped" /\ evt_queue = <<>> /\ encoding = {} /\ saveCmds = <<>> /\ saveSync = 0
      /\ data = [at |-> "wait", active |-> FALSE, id |-> 0] /\ noteCmds = <<>> /\ mDataQ = <<>>
      /\ m_inputSaveQ = Empty
  BY DEF Init
<1>2. m_inputSaveQ.list = <<>> /\ data.at = "wait" /\ data.id = 0
  BY <1>1 DEF Empty
<1>3. SaveProtocol
  BY <1>1, <1>2 DEF SaveProtocol, SaveStops, SaveEmpty, NoStop
<1>4. Library
  BY <1>1, <1>2 DEF Library, Encoded, Finished
<1>5. Notified
  <2>1. Count(noteCmds, {"next"}) = 0 /\ Len(mDataQ) = 0
    BY <1>1, CountEmpty
  <2> QED BY <2>1 DEF Notified
<1>6. Announced /\ Conserved
  BY <1>1 DEF Announced, Conserved
<1> QED BY <1>3, <1>4, <1>5, <1>6 DEF Journey

LEMMA JourneySteps ==
  ASSUME Custody, Custody', Journey, Step
  PROVE  Journey'
<1>1. TypeOK /\ TypeOK' /\ DataProtocol /\ QueuesOpen /\ Named /\ Working
  BY DEF Custody
<1>2. SaveProtocol /\ Library /\ Notified /\ Announced /\ Conserved
  BY DEF Journey
<1>3. SaveProtocol'
  BY <1>1, <1>2, SaveKept
<1>4. Library'
  BY <1>1, <1>2, LibraryKept
<1>5. Notified'
  BY <1>1, <1>2, NotifiedKept
<1>6. Announced'
  BY <1>1, <1>2, AnnouncedKept
<1>7. Conserved'
  BY <1>1, <1>2, <1>6, ConservedKept
<1> QED BY <1>3, <1>4, <1>5, <1>6, <1>7 DEF Journey

LEMMA JourneySame ==
  ASSUME Journey, UNCHANGED vars
  PROVE  Journey'
<1>1. /\ UNCHANGED <<hal, mode, clean, wanted, evt_queue, frameTh, ppTh, m_inputPPQ, m_ongoingPPQ>>
      /\ UNCHANGED <<m_inputJpegQ, m_ongoingJpegQ, m_inputRawQ, m_inputSaveQ>>
      /\ UNCHANGED <<data, saveCmds, saveSync, encoding, note, noteCmds, mDataQ>>
  BY DEF vars, halVars, frameVars, chVars, inputs, ongoing, dataVars, saveVars, noteVars
<1>2. SaveProtocol' <=> SaveProtocol
  BY <1>1 DEF SaveProtocol, SaveStops, SaveEmpty, Saving, Open
<1>3. Library' <=> Library
  BY <1>1 DEF Library, Encoded, Recorded, Finished
<1>4. Notified' <=> Notified
  BY <1>1 DEF Notified
<1>5. Announced' <=> Announced
  BY <1>1 DEF Announced, Quiet, ToStart, Notifying
<1>6. InFlight' = InFlight
  BY <1>1 DEF InFlight, Coming, Got, Reprocessing, Held, Taken, ToEncodeNext, AtEncode, InLibrary, Reported, Outcomes
<1>7. Conserved' <=> Conserved
  BY <1>1, <1>6 DEF Conserved, ToStart, Notifying
<1> QED BY <1>2, <1>3, <1>4, <1>5, <1>7 DEF Journey

LEMMA JourneyAlways == Spec => [](Custody /\ Journey)
<1>1. Init => Custody /\ Journey
  BY CustodyInit, JourneyInit
<1>2. Custody /\ Journey /\ [Next]_vars => (Custody /\ Journey)'
  <2>1. ASSUME Custody, Journey, Next PROVE (Custody /\ Journey)'
    <3>1. Custody' /\ Step
      BY <2>1, CustodySteps
    <3> QED BY <2>1, <3>1, JourneySteps
  <2>2. ASSUME Custody, Journey, UNCHANGED vars PROVE (Custody /\ Journey)'
    BY <2>2, CustodySame, JourneySame
  <2> QED BY <2>1, <2>2
<1> QED BY <1>1, <1>2, PTL DEF Spec

(* Nothing on its way: nothing anywhere.                                    *)
LEMMA NoneInFlight ==
  ASSUME TypeOK, InFlight <= 0
  PROVE  /\ wanted = 0 /\ m_inputPPQ.list = <<>> /\ m_ongoingPPQ.list = <<>> /\ m_inputJpegQ.list = <<>>
         /\ m_inputRawQ.list = <<>> /\ encoding = {} /\ \A i \in Passes : ppTh[i] = None
<1>1. PartNat /\ GroupNat /\ FlightNat
  BY FlightsNat
<1>2. Coming = 0 /\ Reprocessing = 0 /\ ToEncodeNext = 0 /\ InLibrary = 0
  <2>1. PICK a \in Nat, b \in Nat, c \in Nat, l \in Nat, n \in Nat :
          a = Coming /\ b = Reprocessing /\ c = ToEncodeNext /\ l = InLibrary /\ n = Outcomes
    BY <1>1 DEF GroupNat
  <2>2. InFlight = a + b + c + l + n
    BY <2>1 DEF InFlight
  <2>3. a + b + c + l + n <= 0
    BY <2>2
  <2>4. a = 0 /\ b = 0 /\ c = 0 /\ l = 0
    BY <2>3
  <2> QED BY <2>1, <2>4
<1>3. wanted = 0
  <2>1. PICK a \in Nat, b \in Nat : a = wanted /\ b = Got
    BY <1>1 DEF PartNat
  <2>2. a + b = 0
    BY <1>2, <2>1 DEF Coming
  <2> QED BY <2>1, <2>2
<1>4. Held(m_inputPPQ) = 0 /\ Held(m_ongoingPPQ) = 0 /\ Taken(ppTh) = 0
  <2>1. PICK a \in Nat, b \in Nat, c \in Nat : a = Held(m_inputPPQ) /\ b = Held(m_ongoingPPQ) /\ c = Taken(ppTh)
    BY <1>1 DEF PartNat
  <2>2. a + b + c = 0
    BY <1>2, <2>1 DEF Reprocessing
  <2>3. a = 0 /\ b = 0 /\ c = 0
    BY <2>2
  <2> QED BY <2>1, <2>3
<1>5. Held(m_inputJpegQ) = 0 /\ Held(m_inputRawQ) = 0
  <2>1. PICK a \in Nat, b \in Nat, c \in Nat : a = Held(m_inputJpegQ) /\ b = Held(m_inputRawQ) /\ c = AtEncode
    BY <1>1 DEF PartNat
  <2>2. a + b + c = 0
    BY <1>2, <2>1 DEF ToEncodeNext
  <2>3. a = 0 /\ b = 0
    BY <2>2
  <2> QED BY <2>1, <2>3
<1>6. Cardinality(encoding) = 0
  <2>1. PICK a \in Nat, b \in Nat : a = Cardinality(encoding) /\ b = Reported
    BY <1>1 DEF PartNat
  <2>2. a + b = 0
    BY <1>2, <2>1 DEF InLibrary
  <2> QED BY <2>1, <2>2
<1>7. encoding = {}
  <2>1. IsFiniteSet(encoding)
    BY DEF TypeOK, ThreadTypeOK, HalTypeOK
  <2> QED BY <1>6, <2>1, FS_EmptySet
<1>8. ASSUME NEW T, NEW q, q.list \in Seq(T), Held(q) = 0 PROVE q.list = <<>>
  <2>1. PICK s \in Seq(T) : s = q.list
    BY <1>8
  <2>2. Len(s) = 0
    BY <1>8, <2>1 DEF Held
  <2>3. s = <<>>
    BY <2>2
  <2> QED BY <2>1, <2>3
<1>9. /\ m_inputPPQ.list \in Seq(Request) /\ m_ongoingPPQ.list \in Seq(Ongoing)
      /\ m_inputJpegQ.list \in Seq(JpegJob) /\ m_inputRawQ.list \in Seq(Buffer)
  BY QueueFields DEF TypeOK, QueueTypeOK
<1>10. m_inputPPQ.list = <<>> /\ m_ongoingPPQ.list = <<>>
  BY <1>4, <1>8, <1>9
<1>11. m_inputJpegQ.list = <<>> /\ m_inputRawQ.list = <<>>
  BY <1>5, <1>8, <1>9
<1>12. ASSUME NEW i \in Passes PROVE ppTh[i] = None
  <2>1. ppTh[1] = None /\ ppTh[2] = None
    BY <1>4 DEF Taken, One
  <2>2. i = 1 \/ i = 2
    BY DEF Passes
  <2> QED BY <2>1, <2>2
<1> QED BY <1>3, <1>7, <1>10, <1>11, <1>12

LEMMA JourneyDone == Custody /\ Journey => DoneIsComplete
<1> SUFFICES ASSUME Custody, Journey, hal = "running", clean, note.at = "sync"
             PROVE  InFlight <= 0
  BY NoneInFlight DEF DoneIsComplete, Custody
<1>1. Notifying /\ ~mode.longshot
  BY DEF Journey, Announced, ToStart, Notifying
<1>2. InFlight + note.rcvd <= mode.shots /\ note.rcvd = mode.shots
  BY <1>1 DEF Journey, Conserved
<1>3. FlightNat
  BY FlightsNat DEF Custody
<1>4. PICK f \in Nat, r \in Nat : f = InFlight /\ r = note.rcvd
  BY <1>3 DEF FlightNat
<1>5. f + r <= r
  BY <1>2, <1>4
<1>6. f <= 0
  BY <1>5
<1> QED BY <1>4, <1>6

(* When the notifier tells the application that a capture begun on clean    *)
(* ground is done, no frame is still to come and no picture is left with    *)
(* the frame thread, the reprocessing, the data thread or the jpeg library: *)
(* the cancelling that follows cuts off nothing the capture asked for       *)
(* (QCameraCbNotifier::cbNotifyRoutine, at numOfSnapshotExpected).          *)
THEOREM SnapshotDoneIsComplete == Spec => []DoneIsComplete
BY JourneyAlways, JourneyDone, PTL

-----------------------------------------------------------------------------
(* Where a picture is reprocessed once, the outputs to come of the first    *)
(* pass are those of the jobs on their way, one by one.                     *)
OnePass == mode.total <= 1 \/ mode.raw
FirstRequest == {job \in FitRequest : job.count = 0}
FirstOngoing == {job \in FitOngoing : job.count = 1}
InStep(s, t) == Len(s) = Len(t) /\ \A k \in DOMAIN s : s[k] = t[k].src
Paired ==
    OnePass =>
        /\ m_inputPPQ.list \in Seq(FirstRequest) /\ m_ongoingPPQ.list \in Seq(FirstOngoing)
        /\ reproc[2] = <<>>
        /\ m_ongoingPPQ.active /\ ~told => InStep(reproc[1], m_ongoingPPQ.list)
        /\ OutputMatchesJob

LEMMA FirstMade ==
  /\ \A f \in Frames : NewRequest(f) \in FirstRequest
  /\ \A job \in FirstRequest : job.count = 0 /\ job.src \in Buffer /\ Passed(job) \in FirstOngoing /\ Passed(job).src = job.src
  /\ \A job \in FirstOngoing : job.src = job.orig
<1>1. ASSUME NEW f \in Frames PROVE NewRequest(f) \in FirstRequest
  BY JobsMade DEF FirstRequest, NewRequest
<1>2. ASSUME NEW job \in FirstRequest
      PROVE  job.count = 0 /\ job.src \in Buffer /\ Passed(job) \in FirstOngoing /\ Passed(job).src = job.src
  <2>1. job \in FitRequest /\ job.count = 0
    BY DEF FirstRequest
  <2>2. Passed(job) \in FitOngoing
    BY <2>1, JobsMade
  <2>3. Passed(job).count = 1 /\ Passed(job).src = job.src
    BY <2>1 DEF Passed
  <2>4. job.src \in Buffer
    BY <2>1 DEF FitRequest, Request
  <2> QED BY <2>1, <2>2, <2>3, <2>4 DEF FirstOngoing
<1>3. ASSUME NEW job \in FirstOngoing PROVE job.src = job.orig
  BY DEF FirstOngoing, FitOngoing
<1> QED BY <1>1, <1>2, <1>3

LEMMA InStepTail ==
  ASSUME NEW S, NEW T, NEW s \in Seq(S), NEW t \in Seq(T), InStep(s, t), s # <<>>
  PROVE  t # <<>> /\ s[1] = t[1].src /\ InStep(Tail(s), Tail(t))
<1>1. 1 \in DOMAIN s /\ Len(Tail(s)) = Len(s) - 1 /\ \A k \in DOMAIN Tail(s) : k + 1 \in DOMAIN s /\ Tail(s)[k] = s[k + 1]
  BY HeadTail
<1>2. Len(s) \in Nat /\ Len(t) = Len(s) /\ Len(s) >= 1
  BY HeadTail DEF InStep
<1>3. t # <<>>
  BY <1>2
<1>4. Len(Tail(t)) = Len(t) - 1 /\ \A k \in DOMAIN Tail(t) : Tail(t)[k] = t[k + 1]
  BY <1>3, HeadTail
<1>5. DOMAIN Tail(s) = DOMAIN Tail(t)
  <2>1. Tail(s) \in Seq(S) /\ Tail(t) \in Seq(T)
    BY <1>3, HeadTail
  <2>2. DOMAIN Tail(s) = 1 .. Len(Tail(s)) /\ DOMAIN Tail(t) = 1 .. Len(Tail(t))
    BY <2>1
  <2> QED BY <1>1, <1>2, <1>4, <2>2
<1>6. ASSUME NEW k \in DOMAIN Tail(s) PROVE Tail(s)[k] = Tail(t)[k].src
  <2>1. Tail(s)[k] = s[k + 1] /\ s[k + 1] = t[k + 1].src
    BY <1>1 DEF InStep
  <2>2. Tail(t)[k] = t[k + 1]
    BY <1>4, <1>5
  <2> QED BY <2>1, <2>2
<1> QED BY <1>1, <1>2, <1>3, <1>4, <1>6 DEF InStep

LEMMA InStepAppend ==
  ASSUME NEW S, NEW T, NEW s \in Seq(S), NEW t \in Seq(T), InStep(s, t), NEW x \in S, NEW y \in T, x = y.src
  PROVE  InStep(Append(s, x), Append(t, y))
<1>1. /\ Len(s) \in Nat /\ Len(t) = Len(s) /\ DOMAIN s = 1 .. Len(s)
      /\ Len(Append(s, x)) = Len(s) + 1 /\ Len(Append(t, y)) = Len(s) + 1 /\ DOMAIN Append(s, x) = 1 .. Len(s) + 1
  BY DEF InStep
<1>2. ASSUME NEW k \in 1 .. Len(s) + 1 PROVE Append(s, x)[k] = Append(t, y)[k].src
  <2>1. CASE k = Len(s) + 1
    <3>1. Append(s, x)[k] = x /\ Append(t, y)[k] = y
      BY <1>1, <2>1
    <3> QED BY <3>1
  <2>2. CASE k # Len(s) + 1
    <3>1. k \in 1 .. Len(s)
      BY <1>1, <2>2
    <3>2. Append(s, x)[k] = s[k] /\ Append(t, y)[k] = t[k]
      BY <1>1, <3>1
    <3>3. s[k] = t[k].src
      BY <1>1, <3>1 DEF InStep
    <3> QED BY <3>2, <3>3
  <2> QED BY <2>1, <2>2
<1> QED BY <1>1, <1>2 DEF InStep

LEMMA PairedSame ==
  ASSUME Paired, UNCHANGED <<mode, ppTh, reproc, m_inputPPQ, m_ongoingPPQ>>, told' = told \/ told' = TRUE
  PROVE  Paired'
BY DEF Paired, OnePass, OutputMatchesJob

LEMMA PairedKept ==
  ASSUME TypeOK, DataProtocol, QueuesOpen, Paired, Step
  PROVE  Paired'
<1>a. /\ m_inputPPQ.list \in Seq(Request) /\ m_ongoingPPQ.list \in Seq(Ongoing) /\ reproc \in [Passes -> Seq(Buffer)]
      /\ ppTh \in [Passes -> {None} \cup PassHand] /\ None \notin PassHand /\ told \in BOOLEAN
  BY QueueFields, NoneApart DEF TypeOK, HalTypeOK, QueueTypeOK, HandTypeOK
<1>p. Passes = {1, 2}
  BY DEF Passes
<1>o. OnePass => /\ m_inputPPQ.list \in Seq(FirstRequest) /\ m_ongoingPPQ.list \in Seq(FirstOngoing)
                 /\ reproc[2] = <<>> /\ (m_ongoingPPQ.active /\ ~told => InStep(reproc[1], m_ongoingPPQ.list))
                 /\ OutputMatchesJob
  BY DEF Paired
<1>e. /\ <<>> \in Seq(FirstRequest) /\ <<>> \in Seq(FirstOngoing) /\ InStep(<<>>, <<>>)
  BY DEF InStep
<1>1. ASSUME NEW m \in Modes, StartDoes(m) PROVE Paired'
  <2>1. AllEmpty /\ PassesIdle
    BY <1>1 DEF StartDoes, DataProtocol, Phase, Asleep, QueuesOpen, Open
  <2>2. /\ m_inputPPQ'.list = <<>> /\ m_ongoingPPQ'.list = <<>> /\ reproc'[1] = <<>> /\ reproc'[2] = <<>>
        /\ ppTh'[1] = None /\ ppTh'[2] = None
    BY <1>1, <1>p, <2>1 DEF StartDoes, AllEmpty, PassesIdle
  <2>3. OutputMatchesJob'
    BY <1>p, <2>2 DEF OutputMatchesJob
  <2> QED BY <1>e, <2>2, <2>3 DEF Paired
<1>2. ASSUME StartedDoes PROVE Paired'
  BY <1>2, PairedSame DEF StartedDoes
<1>3. ASSUME CancelPictureDoes PROVE Paired'
  BY <1>3, PairedSame DEF CancelPictureDoes
<1>4. ASSUME SnapshotDoneDoes PROVE Paired'
  BY <1>4, PairedSame DEF SnapshotDoneDoes
<1>5. ASSUME StoppedDoes PROVE Paired'
  <2>1. /\ m_inputPPQ' = m_inputPPQ /\ m_ongoingPPQ' = m_ongoingPPQ /\ mode' = mode
        /\ reproc'[1] = <<>> /\ reproc'[2] = <<>> /\ ppTh'[1] = None /\ ppTh'[2] = None
    BY <1>5, <1>p DEF StoppedDoes
  <2>2. AllEmpty
    BY <1>5 DEF StoppedDoes, DataProtocol, Phase, Ending, Waking, Asleep, QueuesOpen, Open
  <2>3. OutputMatchesJob'
    BY <1>p, <2>1 DEF OutputMatchesJob
  <2> QED BY <1>e, <2>1, <2>2, <2>3 DEF Paired, AllEmpty
<1>6. ASSUME JpegEventDoes PROVE Paired'
  BY <1>6, PairedSame DEF JpegEventDoes
<1>7. ASSUME NEW f \in Frames, FrameArrivesDoes(f) PROVE Paired'
  BY <1>7, PairedSame DEF FrameArrivesDoes
<1>8. ASSUME processDataDoes PROVE Paired'
  <2>1. UNCHANGED <<mode, ppTh, reproc, told, m_ongoingPPQ>>
    BY <1>8 DEF processDataDoes
  <2>2. CASE UNCHANGED m_inputPPQ
    BY <2>1, <2>2, PairedSame
  <2>3. CASE m_inputPPQ'.list = Append(m_inputPPQ.list, NewRequest(frameTh.frame))
    <3>1. PICK x : x = NewRequest(frameTh.frame)
      OBVIOUS
    <3>2. x \in FirstRequest
      <4>1. frameTh.frame \in Frames
        BY <1>8 DEF processDataDoes, FrameHand
      <4> QED BY <3>1, <4>1, FirstMade
    <3>3. OnePass => Append(m_inputPPQ.list, x) \in Seq(FirstRequest)
      BY <1>o, <3>2
    <3> QED BY <1>o, <2>1, <2>3, <3>1, <3>3 DEF Paired, OnePass, OutputMatchesJob
  <2> QED BY <1>8, <2>2, <2>3 DEF processDataDoes
<1>9. ASSUME processDataDoneDoes PROVE Paired'
  BY <1>9, PairedSame DEF processDataDoneDoes
<1>10. ASSUME NEW i \in Passes, ReprocOutputDoes(i) PROVE Paired'
  <2>1. UNCHANGED <<mode, told, m_inputPPQ>> /\ reproc' = [reproc EXCEPT ![i] = Tail(reproc[i])] /\ reproc[i] # <<>> /\ ppTh[i] = None
    BY <1>10 DEF ReprocOutputDoes
  <2> SUFFICES ASSUME OnePass PROVE Paired'
    BY <2>1 DEF Paired, OnePass
  <2>2. i = 1
    BY <1>o, <1>p, <2>1
  <2>3. reproc'[2] = <<>> /\ reproc'[1] = Tail(reproc[1])
    BY <1>a, <1>o, <1>p, <2>1, <2>2
  <2>4. PICK s \in Seq(Buffer) : s = reproc[1]
    BY <1>a, <1>p
  <2>5. PICK t \in Seq(FirstOngoing) : t = m_ongoingPPQ.list
    BY <1>o
  <2>6. s # <<>>
    BY <2>1, <2>2, <2>4
  <2>7. CASE ~HasNext(m_ongoingPPQ) /\ UNCHANGED <<ppTh, m_ongoingPPQ>>
    <3>1. m_ongoingPPQ.active => told
      <4>1. ASSUME m_ongoingPPQ.active, ~told PROVE FALSE
        <5>1. InStep(s, t)
          BY <1>o, <2>4, <2>5, <4>1
        <5>2. t # <<>>
          BY <2>6, <5>1, InStepTail
        <5> QED BY <2>5, <2>7, <4>1, <5>2 DEF HasNext
      <4> QED BY <1>a, <4>1
    <3> QED BY <1>o, <2>1, <2>3, <2>7, <3>1 DEF Paired, OutputMatchesJob
  <2>8. CASE /\ m_ongoingPPQ.active /\ Loses(m_ongoingPPQ, m_ongoingPPQ')
             /\ ppTh' = [ppTh EXCEPT ![i] = [out |-> [ch |-> i, of |-> reproc[i][1].of], job |-> m_ongoingPPQ.list[1]]]
    <3>1. t # <<>> /\ m_ongoingPPQ'.list = Tail(t)
      BY <2>5, <2>8 DEF Loses
    <3>2. t[1] \in FirstOngoing /\ Tail(t) \in Seq(FirstOngoing)
      BY <3>1, HeadTail
    <3>3. ~told => s[1] = t[1].src /\ InStep(Tail(s), Tail(t))
      BY <1>o, <2>4, <2>5, <2>6, <2>8, InStepTail
    <3>4. PICK h : h = [out |-> [ch |-> i, of |-> s[1].of], job |-> t[1]]
      OBVIOUS
    <3>5. ppTh'[1] = h /\ ppTh'[2] = ppTh[2]
      BY <1>a, <1>p, <2>2, <2>4, <2>5, <2>8, <3>4
    <3>6. h.out.of = s[1].of /\ h.job.orig = t[1].orig
      BY <3>4
    <3>7. ~told => h.out.of = h.job.orig.of
      BY <3>2, <3>3, <3>6, FirstMade
    <3>8. OutputMatchesJob'
      BY <1>o, <1>p, <2>1, <3>5, <3>7 DEF OutputMatchesJob
    <3> QED BY <1>o, <2>1, <2>3, <2>4, <3>1, <3>2, <3>3, <3>8 DEF Paired
  <2> QED BY <1>10, <2>7, <2>8 DEF ReprocOutputDoes
<1>11. ASSUME NEW i \in Passes, processPPDataDoes(i) PROVE Paired'
  <2>1. UNCHANGED <<mode, told, reproc, m_ongoingPPQ>> /\ ppTh' = [ppTh EXCEPT ![i] = None]
    BY <1>11 DEF processPPDataDoes
  <2>2. OnePass => UNCHANGED m_inputPPQ
    <3>1. ASSUME OnePass, ~mode.raw PROVE mTotalNumReproc # 2
      <4>1. mode.total <= 1 /\ (mTotalNumReproc = 0 \/ mTotalNumReproc = mode.total)
        BY <3>1 DEF OnePass, DataProtocol, Wanting
      <4> QED BY <4>1
    <3> QED BY <1>11, <3>1 DEF processPPDataDoes
  <2>3. OutputMatchesJob => OutputMatchesJob'
    BY <1>a, <2>1 DEF OutputMatchesJob
  <2> QED BY <1>o, <2>1, <2>2, <2>3 DEF Paired, OnePass
<1>12. ASSUME DataStartDoes PROVE Paired'
  <2>1. UNCHANGED <<mode, ppTh, reproc, told>> /\ m_inputPPQ'.list = m_inputPPQ.list /\ m_ongoingPPQ'.list = m_ongoingPPQ.list
    BY <1>12 DEF DataStartDoes
  <2>2. hal = "starting"
    <3>1. dataCmds \in Seq(Command) /\ hal \in {"stopped", "starting", "running", "stopping"}
      BY DEF TypeOK, HalTypeOK, ThreadTypeOK
    <3>2. 1 \in DOMAIN dataCmds /\ dataCmds[1] = "start"
      BY <1>12, <3>1, HeadTail DEF DataStartDoes
    <3>3. ~NextsOnly(dataCmds) /\ ~Behind("stop", dataCmds)
      BY <3>2 DEF NextsOnly, Behind
    <3> QED BY <3>1, <3>3 DEF DataProtocol, Phase, Asleep, Awake, Ending
  <2>3. m_ongoingPPQ.list = <<>> /\ reproc[1] = <<>>
    BY <1>p, <2>2 DEF QueuesOpen, AllEmpty, PassesIdle
  <2> QED BY <1>e, <1>o, <2>1, <2>3 DEF Paired, OnePass, OutputMatchesJob
<1>13. ASSUME DataStopDoes PROVE Paired'
  BY <1>13, PairedSame DEF DataStopDoes
<1>14. ASSUME DataStoppedDoes PROVE Paired'
  <2>1. /\ UNCHANGED <<mode, ppTh, reproc, told>> /\ m_inputPPQ'.list = <<>>
        /\ ~m_ongoingPPQ'.active /\ m_ongoingPPQ'.list = <<>>
    BY <1>14 DEF DataStoppedDoes
  <2> QED BY <1>e, <1>o, <2>1 DEF Paired, OnePass, OutputMatchesJob
<1>15. ASSUME DataNextDoes PROVE Paired'
  BY <1>15, PairedSame DEF DataNextDoes
<1>16. ASSUME encodeDataDoes PROVE Paired'
  BY <1>16, PairedSame DEF encodeDataDoes
<1>17. ASSUME RecordJobDoes PROVE Paired'
  BY <1>17, PairedSame DEF RecordJobDoes
<1>18. ASSUME ProcessRawDoes PROVE Paired'
  BY <1>18, PairedSame DEF ProcessRawDoes
<1>19. ASSUME doReprocessDoes PROVE Paired'
  <2>0. told' = told \/ told' = TRUE
    BY <1>19 DEF doReprocessDoes
  <2>1. UNCHANGED <<mode, ppTh>>
    BY <1>19 DEF doReprocessDoes
  <2>2. CASE UNCHANGED <<m_inputPPQ, m_ongoingPPQ, reproc>>
    <3>1. UNCHANGED <<mode, ppTh, reproc, m_inputPPQ, m_ongoingPPQ>>
      BY <2>1, <2>2
    <3>2. ASSUME told' = told PROVE Paired'
      BY <3>1, <3>2 DEF Paired, OnePass, OutputMatchesJob
    <3>3. ASSUME told' = TRUE PROVE Paired'
      BY <3>1, <3>3 DEF Paired, OnePass, OutputMatchesJob
    <3> QED BY <2>0, <3>2, <3>3, Zenon
  <2>3. CASE /\ Loses(m_inputPPQ, m_inputPPQ') /\ Gets(m_ongoingPPQ, m_ongoingPPQ', Passed(m_inputPPQ.list[1]))
             /\ \/ /\ reproc' = [reproc EXCEPT ![m_inputPPQ.list[1].count + 1] = Append(@, m_inputPPQ.list[1].src)]
                   /\ told' = told
                \/ told' = TRUE /\ reproc' = reproc
    <3> SUFFICES ASSUME OnePass PROVE Paired'
      BY <2>1 DEF Paired, OnePass
    <3>1. m_inputPPQ'.list \in Seq(FirstRequest) /\ m_inputPPQ.list[1] \in FirstRequest
      BY <1>o, <2>3, ListLoses
    <3>2. PICK job \in FirstRequest : job = m_inputPPQ.list[1]
      BY <3>1
    <3>3. PICK y : y = Passed(job)
      OBVIOUS
    <3>4. job.count = 0 /\ job.src \in Buffer /\ y \in FirstOngoing /\ y.src = job.src
      BY <3>3, FirstMade
    <3>5. Gets(m_ongoingPPQ, m_ongoingPPQ', y)
      BY <2>3, <3>2, <3>3
    <3>6. m_ongoingPPQ'.list \in Seq(FirstOngoing)
      BY <1>o, <3>4, <3>5, ListGets
    <3>7. OutputMatchesJob'
      BY <1>o, <2>0, <2>1 DEF OutputMatchesJob
    <3>8. CASE told' = TRUE /\ reproc' = reproc
      BY <1>o, <3>1, <3>6, <3>7, <3>8 DEF Paired
    <3>9. CASE reproc' = [reproc EXCEPT ![m_inputPPQ.list[1].count + 1] = Append(@, m_inputPPQ.list[1].src)] /\ told' = told
      <4>1. reproc'[1] = Append(reproc[1], job.src) /\ reproc'[2] = <<>>
        <5>1. m_inputPPQ.list[1].count + 1 = 1 /\ m_inputPPQ.list[1].src = job.src
          BY <3>2, <3>4
        <5>2. reproc' = [reproc EXCEPT ![1] = Append(reproc[1], job.src)]
          BY <3>9, <5>1
        <5> QED BY <1>a, <1>o, <1>p, <5>2
      <4>2. ASSUME m_ongoingPPQ'.active, ~told PROVE InStep(reproc'[1], m_ongoingPPQ'.list)
        <5>1. m_ongoingPPQ.active /\ m_ongoingPPQ'.list = Append(m_ongoingPPQ.list, y)
          BY <3>5, <4>2 DEF Gets
        <5>2. PICK s \in Seq(Buffer) : s = reproc[1]
          BY <1>a, <1>p
        <5>3. PICK t \in Seq(FirstOngoing) : t = m_ongoingPPQ.list
          BY <1>o
        <5>4. InStep(s, t)
          BY <1>o, <4>2, <5>1, <5>2, <5>3
        <5>5. InStep(Append(s, job.src), Append(t, y))
          BY <3>4, <5>4, InStepAppend
        <5> QED BY <4>1, <5>1, <5>2, <5>3, <5>5
      <4> QED BY <3>1, <3>6, <3>7, <3>9, <4>1, <4>2 DEF Paired
    <3> QED BY <2>3, <3>8, <3>9
  <2> QED BY <1>19, <2>2, <2>3 DEF doReprocessDoes
<1>20. ASSUME NEW id \in encoding, JpegDoneDoes(id) PROVE Paired'
  BY <1>20, PairedSame DEF JpegDoneDoes
<1>21. ASSUME SaveStepDoes PROVE Paired'
  BY <1>21, PairedSame DEF SaveStepDoes
<1>22. ASSUME NoteStartDoes PROVE Paired'
  BY <1>22, PairedSame DEF NoteStartDoes
<1>23. ASSUME NoteStopDoes PROVE Paired'
  BY <1>23, PairedSame DEF NoteStopDoes
<1>24. ASSUME NoteNextDoes PROVE Paired'
  BY <1>24, PairedSame DEF NoteNextDoes
<1>25. ASSUME NoteDeliveredDoes PROVE Paired'
  BY <1>25, PairedSame DEF NoteDeliveredDoes
<1> QED BY <1>1, <1>2, <1>3, <1>4, <1>5, <1>6, <1>7, <1>8, <1>9, <1>10, <1>11, <1>12, <1>13, <1>14, <1>15, <1>16, <1>17, <1>18, <1>19, <1>20, <1>21, <1>22, <1>23, <1>24, <1>25 DEF Step

LEMMA PairedAlways == Spec => []Paired
<1>1. Init => Paired
  <2> SUFFICES ASSUME Init PROVE Paired
    OBVIOUS
  <2>1. /\ ppTh = [i \in Passes |-> None] /\ reproc = [i \in Passes |-> <<>>]
        /\ m_inputPPQ.list = <<>> /\ m_ongoingPPQ.list = <<>>
    BY DEF Init, Empty
  <2>2. InStep(<<>>, <<>>)
    BY DEF InStep
  <2> QED BY <2>1, <2>2 DEF Paired, OutputMatchesJob, Passes
<1>2. Custody /\ Paired /\ [Next]_vars => Paired'
  <2>1. ASSUME Custody, Paired, Next PROVE Paired'
    <3>1. Step
      BY <2>1, CustodySteps
    <3> QED BY <2>1, <3>1, PairedKept DEF Custody
  <2>2. ASSUME Paired, UNCHANGED vars PROVE Paired'
    <3>1. UNCHANGED <<mode, ppTh, reproc, m_inputPPQ, m_ongoingPPQ, told>>
      BY <2>2 DEF vars, halVars, frameVars, chVars, inputs, ongoing
    <3> QED BY <2>2, <3>1, PairedSame
  <2> QED BY <2>1, <2>2
<1> QED BY <1>1, <1>2, CustodyAlways, PTL DEF Spec

(* Where a picture is reprocessed at most once, an output of the            *)
(* reprocessing is paired with the job of its own frame, for any number of  *)
(* pictures at once, until the application was told of a failure:           *)
(* processPPData takes the head of m_ongoingPPQ for any output, and         *)
(* doReprocess queues a job there before the frame can come back.           *)
THEOREM OnePassOutputsMatch == Spec => [](OnePass => OutputMatchesJob)
<1>1. Paired => (OnePass => OutputMatchesJob)
  BY DEF Paired
<1> QED BY <1>1, PairedAlways, PTL

-----------------------------------------------------------------------------
(* Commands and the work they stand for, where a picture is reprocessed     *)
(* once.  Every picture to encode has its command; so has every request the *)
(* reprocess channel has room for, once a turn of the data thread is counted. *)
PPs == Held(m_inputPPQ)
Ongoings == Held(m_ongoingPPQ)
Jpegs == Held(m_inputJpegQ)
Raws == Held(m_inputRawQ)
Nexts == Count(dataCmds, {"next"})
Announcing == One(frameTh # None /\ frameTh.at = "queued")
Turn == One(data.at # "wait")
AtRaw == One(data.at = "raw")
HandsFirst == \A i \in Passes : ppTh[i] # None => ppTh[i].job \in FirstOngoing
OneKind == IF mode.raw THEN m_inputJpegQ.list = <<>> ELSE m_inputRawQ.list = <<>>
Encodes == Jpegs + Raws <= Nexts + AtRaw
Reprocesses ==
    \/ mode.save
    \/ PPs + ToEncodeNext <= Nexts + Announcing + Turn
    \/ mTotalNumReproc > 0 /\ queued[1] + ToEncodeNext <= Ongoings + Nexts + Announcing + Turn
Wakeful == OnePass /\ hal = "running" => HandsFirst /\ OneKind /\ Encodes /\ Reprocesses

TallyNat ==
    /\ PPs \in Nat /\ Ongoings \in Nat /\ Jpegs \in Nat /\ Raws \in Nat
    /\ AtEncode \in Nat /\ Nexts \in Nat /\ Announcing \in Nat /\ Turn \in Nat /\ AtRaw \in Nat /\ queued[1] \in Nat
    /\ ToEncodeNext = Jpegs + Raws + AtEncode /\ AtEncode + AtRaw <= Turn

LEMMA TalliesNat == TypeOK => TallyNat
<1> SUFFICES ASSUME TypeOK PROVE TallyNat
  OBVIOUS
<1>1. /\ PPs \in Nat /\ Ongoings \in Nat /\ Jpegs \in Nat /\ Raws \in Nat /\ AtEncode \in Nat
      /\ ToEncodeNext = Jpegs + Raws + AtEncode
  BY FlightsNat DEF PartNat, PPs, Ongoings, Jpegs, Raws, ToEncodeNext
<1>2. Nexts \in Nat
  BY CountNat DEF Nexts, TypeOK, ThreadTypeOK
<1>3. queued[1] \in Nat
  BY DEF TypeOK, ChTypeOK, Passes
<1>4. Announcing \in Nat /\ Turn \in Nat /\ AtRaw \in Nat /\ AtEncode + AtRaw <= Turn
  BY DEF Announcing, Turn, AtRaw, AtEncode, One
<1> QED BY <1>1, <1>2, <1>3, <1>4 DEF TallyNat

LEMMA NextsCounted ==
  ASSUME TypeOK
  PROVE  /\ dataCmds' = Append(dataCmds, "next") \/ dataCmds' = dataCmds \o <<"next">> => Nexts' = Nexts + 1
         /\ dataCmds' = dataCmds \o <<"next", "next">> => Nexts' = Nexts + 2
         /\ dataCmds # <<>> /\ dataCmds[1] = "next" /\ dataCmds' = Tail(dataCmds) => Nexts = 1 + Nexts'
         /\ dataCmds' = dataCmds => Nexts' = Nexts
<1>1. PICK s \in Seq(Command) : s = dataCmds
  BY DEF TypeOK, ThreadTypeOK
<1>2. One("next" \in {"next"}) = 1
  BY DEF One
<1>3. <<"next">> \in Seq(Command) /\ <<"next", "next">> \in Seq(Command) /\ "next" \in Command
  BY DEF Command
<1>4. Count(<<"next">>, {"next"}) = 1 /\ Count(<<"next", "next">>, {"next"}) = 1 + 1
  BY <1>2, CountOne, CountTwo
<1>5. Count(Append(s, "next"), {"next"}) = Count(s, {"next"}) + 1
  BY <1>2, <1>3, CountAppend
<1>6. Count(s \o <<"next">>, {"next"}) = Count(s, {"next"}) + 1
  BY <1>3, <1>4, CountConcat
<1>7. Count(s \o <<"next", "next">>, {"next"}) = Count(s, {"next"}) + Count(<<"next", "next">>, {"next"})
  <2>1. PICK u \in Seq(Command) : u = <<"next", "next">>
    BY <1>3
  <2>2. Count(s \o u, {"next"}) = Count(s, {"next"}) + Count(u, {"next"})
    BY CountConcat
  <2> QED BY <2>1, <2>2
<1>9. Count(<<"next", "next">>, {"next"}) = 2
  BY <1>4
<1>8. s # <<>> => Count(s, {"next"}) = One(s[1] \in {"next"}) + Count(Tail(s), {"next"})
  BY CountTail
<1> QED BY <1>1, <1>2, <1>5, <1>6, <1>7, <1>8, <1>9 DEF Nexts

(* What comes back gives a reprocess channel its own buffers only, and a    *)
(* jpeg job at most one.                                                    *)
LEMMA RoomStays ==
  ASSUME TypeOK, NEW s, Returned(s), \A k \in DOMAIN s : s[k] \notin OfPass(1)
  PROVE  queued'[1] = queued[1]
<1>1. Count(s, OfPass(1)) = 0
  BY CountNone
<1>2. queued[1] \in Nat /\ 1 \in Passes
  BY DEF TypeOK, ChTypeOK, Passes
<1> QED BY <1>1, <1>2 DEF Returned

LEMMA RoomGrows ==
  ASSUME TypeOK, NEW job \in FitJpeg, Returned(releaseJpegJobData(job))
  PROVE  queued'[1] = queued[1] \/ queued'[1] = queued[1] + 1
<1>1. Count(releaseJpegJobData(job), OfPass(1)) = One(job.orig \in OfPass(1)) + One(job.src \in OfPass(1))
  BY CountTwo DEF releaseJpegJobData
<1>2. job.orig \notin OfPass(1)
  BY NoneApart DEF FitJpeg, JpegJob, OfPass, Buffer
<1>3. Count(releaseJpegJobData(job), OfPass(1)) \in {0, 1}
  BY <1>1, <1>2 DEF One
<1>4. queued[1] \in Nat /\ 1 \in Passes
  BY DEF TypeOK, ChTypeOK, Passes
<1> QED BY <1>3, <1>4 DEF Returned

LEMMA WakefulStays ==
  ASSUME Wakeful, UNCHANGED <<hal, mode, mTotalNumReproc, ppTh, m_inputPPQ, m_ongoingPPQ, m_inputJpegQ, m_inputRawQ,
                             data, dataCmds>>, queued'[1] = queued[1], Announcing' = Announcing
  PROVE  Wakeful'
<1>1. UNCHANGED <<Nexts, Turn, AtRaw, ToEncodeNext, PPs, Ongoings, Jpegs, Raws>>
  BY DEF Nexts, Turn, AtRaw, ToEncodeNext, AtEncode, PPs, Ongoings, Jpegs, Raws
<1> QED BY <1>1 DEF Wakeful, OnePass, HandsFirst, OneKind, Encodes, Reprocesses

LEMMA WakefulKept ==
  ASSUME TypeOK, TypeOK', DataProtocol, QueuesOpen, JobsFit, SaveProtocol, Paired, Wakeful, Step
  PROVE  Wakeful'
<1>0. TallyNat /\ TallyNat'
  <2>1. (TypeOK => TallyNat)'
    BY TalliesNat, PTL
  <2> QED BY <2>1, TalliesNat
<1>t. mTotalNumReproc \in Nat
  BY DEF TypeOK, HalTypeOK
<1>n. PICK p \in Nat, o \in Nat, j \in Nat, r \in Nat, e \in Nat, n \in Nat, a \in Nat, t \in Nat, w \in Nat, q \in Nat, M \in Nat :
        /\ p = PPs /\ o = Ongoings /\ j = Jpegs /\ r = Raws /\ e = AtEncode /\ n = Nexts
        /\ a = Announcing /\ t = Turn /\ w = AtRaw /\ q = queued[1] /\ M = mTotalNumReproc
        /\ ToEncodeNext = j + r + e /\ e + w <= t
  BY <1>0, <1>t DEF TallyNat
<1>m. PICK pp \in Nat, oo \in Nat, jj \in Nat, rr \in Nat, ee \in Nat, nn \in Nat, aa \in Nat, tt \in Nat, ww \in Nat, qq \in Nat :
        /\ pp = PPs' /\ oo = Ongoings' /\ jj = Jpegs' /\ rr = Raws' /\ ee = AtEncode' /\ nn = Nexts'
        /\ aa = Announcing' /\ tt = Turn' /\ ww = AtRaw' /\ qq = queued'[1]
        /\ ToEncodeNext' = jj + rr + ee /\ ee + ww <= tt
  BY <1>0 DEF TallyNat
<1> DEFINE Enc == j + r <= n + w
           Enc2 == jj + rr <= nn + ww
           Fits == p + j + r + e <= n + a + t \/ (M > 0 /\ q + j + r + e <= o + n + a + t)
           Fits2 == pp + jj + rr + ee <= nn + aa + tt \/ (M > 0 /\ qq + jj + rr + ee <= oo + nn + aa + tt)
<1>x. (Encodes => Enc) /\ (Reprocesses => mode.save \/ Fits)
  <2>1. Encodes => Enc
    BY <1>n DEF Encodes
  <2>2. ASSUME PPs + ToEncodeNext <= Nexts + Announcing + Turn PROVE Fits
    <3>1. p + (j + r + e) <= n + a + t
      BY <1>n, <2>2
    <3> QED BY <3>1
  <2>3. mTotalNumReproc > 0 /\ queued[1] + ToEncodeNext <= Ongoings + Nexts + Announcing + Turn => Fits
    BY <1>n
  <2> QED BY <2>1, <2>2, <2>3 DEF Reprocesses
<1>y. (Enc2 => Encodes') /\ (UNCHANGED <<mode, mTotalNumReproc>> /\ (mode.save \/ Fits2) => Reprocesses')
  <2>1. Enc2 => Encodes'
    BY <1>m DEF Encodes
  <2>2. ASSUME mTotalNumReproc' = mTotalNumReproc, Fits2 PROVE Reprocesses'
    <3>1. CASE pp + jj + rr + ee <= nn + aa + tt
      <4>1. pp + (jj + rr + ee) <= nn + aa + tt
        BY <3>1
      <4>2. PPs' + ToEncodeNext' <= Nexts' + Announcing' + Turn'
        BY <1>m, <4>1
      <4> QED BY <4>2 DEF Reprocesses
    <3>2. CASE M > 0 /\ qq + jj + rr + ee <= oo + nn + aa + tt
      <4>1. mTotalNumReproc' > 0 /\ queued'[1] + ToEncodeNext' <= Ongoings' + Nexts' + Announcing' + Turn'
        BY <1>m, <1>n, <2>2, <3>2
      <4> QED BY <4>1 DEF Reprocesses
    <3> QED BY <2>2, <3>1, <3>2
  <2>3. ASSUME mode' = mode, mode.save PROVE Reprocesses'
    BY <2>3 DEF Reprocesses
  <2> QED BY <2>1, <2>2, <2>3
<1>i. e + w <= t
  BY <1>n
<1> HIDE DEF Enc, Enc2, Fits, Fits2
<1>g. ASSUME UNCHANGED <<mode, mTotalNumReproc, hal>>,
             OnePass /\ hal = "running" /\ Enc => HandsFirst' /\ OneKind' /\ Enc2 /\ (Fits => Fits2 \/ mode.save)
      PROVE  Wakeful'
  BY <1>g, <1>x, <1>y DEF Wakeful, OnePass
<1>a. /\ m_inputPPQ.list \in Seq(FitRequest) /\ m_ongoingPPQ.list \in Seq(FitOngoing)
      /\ m_inputJpegQ.list \in Seq(FitJpeg) /\ m_inputRawQ.list \in Seq(Buffer) /\ m_ongoingJpegQ.list \in Seq(FitJpeg)
      /\ ppTh \in [Passes -> {None} \cup PassHand] /\ None \notin FrameHand /\ None \notin PassHand
      /\ Passes = {1, 2}
  BY QueueFields, NoneApart DEF TypeOK, HandTypeOK, QueueTypeOK, JobsFit, Passes
<1>r. hal = "running" => /\ AllActive /\ data.active /\ data.at # "saveStop" /\ mTotalNumReproc = mode.total
                         /\ (dataCmds # <<>> => dataCmds[1] = "next")
  BY TakenCommand DEF TypeOK, ThreadTypeOK, QueuesOpen, Open, DataProtocol, Phase, Awake, Wanting
<1>w. OnePass /\ hal = "running" => HandsFirst /\ OneKind
  BY DEF Wakeful
<1>q. OnePass =>
        /\ m_ongoingPPQ.list \in Seq(FirstOngoing) /\ reproc[2] = <<>>
        /\ (m_inputPPQ.list # <<>> => m_inputPPQ.list[1] \in FirstRequest)
  BY HeadTail DEF Paired
<1>f. \A job \in FirstOngoing : job.count = 1 /\ job.src = job.orig /\ job.src \notin OfPass(1) /\ job.orig \in ZslBuffer
  BY NoneApart DEF FirstOngoing, FitOngoing, Ongoing, OfPass
<1>z. /\ p = 0 <=> m_inputPPQ.list = <<>>
      /\ j = 0 <=> m_inputJpegQ.list = <<>>
      /\ r = 0 <=> m_inputRawQ.list = <<>>
  BY <1>a, <1>n DEF Held, PPs, Jpegs, Raws
<1>v. ASSUME ~validatePostProcess(m_inputPPQ.list[1].src) PROVE M > 0 /\ q <= o
  <2>1. mTotalNumReproc > 0 /\ Ongoings >= queued[1]
    BY <1>v DEF validatePostProcess, Held, Ongoings
  <2> QED BY <1>n, <2>1
<1>c. ASSUME OnePass, hal = "running", ~CanReprocess PROVE p = 0 \/ (M > 0 /\ q <= o)
  <2>1. ASSUME m_inputPPQ.list # <<>> PROVE ~validatePostProcess(m_inputPPQ.list[1].src)
    BY <1>a, <1>c, <1>r, <2>1, HeadTail DEF CanReprocess, HasNext, peek, AllActive
  <2>2. CASE m_inputPPQ.list # <<>>
    <3>1. ~validatePostProcess(m_inputPPQ.list[1].src)
      BY <2>1, <2>2
    <3> QED BY <1>v, <3>1
  <2>3. CASE m_inputPPQ.list = <<>>
    BY <1>z, <2>3
  <2> QED BY <2>2, <2>3
<1>e. AfterEncode \in {"raw", "reproc"}
  BY DEF AfterEncode
<1>b. /\ mDataQ \in Seq({None} \cup ZslBuffer) /\ note.hand \in {None} \cup ZslBuffer
      /\ \A x \in {None} \cup ZslBuffer : x \notin OfPass(1)
  BY NoteFields, NoneApart DEF TypeOK, NoteTypeOK, OfPass, Buffer
<1>1. ASSUME NEW m \in Modes, StartDoes(m) PROVE Wakeful'
  BY <1>1 DEF StartDoes, Wakeful
<1>2. ASSUME StartedDoes PROVE Wakeful'
  <2>1. AllEmpty /\ PassesIdle /\ data.at = "wait"
    BY <1>2 DEF StartedDoes, DataProtocol, Phase, Waking, QueuesOpen
  <2>2. UNCHANGED <<ppTh, m_inputPPQ, m_inputJpegQ, m_inputRawQ, data>>
    BY <1>2 DEF StartedDoes
  <2>3. pp = 0 /\ jj = 0 /\ rr = 0 /\ ee = 0
    BY <1>n, <1>m, <2>1, <2>2 DEF AllEmpty, Held, AtEncode, One, PPs, Jpegs, Raws
  <2>6. Enc2 /\ Fits2
    <3>1. Enc2
      BY <2>3 DEF Enc2
    <3>2. pp + jj + rr + ee <= nn + aa + tt
      BY <2>3
    <3> QED BY <3>1, <3>2 DEF Fits2
  <2>4. Encodes' /\ Reprocesses'
    BY <1>2, <1>y, <2>6 DEF StartedDoes
  <2>5. HandsFirst' /\ OneKind'
    BY <2>1, <2>2 DEF HandsFirst, OneKind, PassesIdle, AllEmpty
  <2> QED BY <2>4, <2>5 DEF Wakeful
<1>3. ASSUME CancelPictureDoes PROVE Wakeful'
  BY <1>3 DEF CancelPictureDoes, Wakeful
<1>4. ASSUME SnapshotDoneDoes PROVE Wakeful'
  BY <1>4 DEF SnapshotDoneDoes, Wakeful
<1>5. ASSUME StoppedDoes PROVE Wakeful'
  BY <1>5 DEF StoppedDoes, Wakeful
<1>6. ASSUME JpegEventDoes PROVE Wakeful'
  <2> SUFFICES ASSUME OnePass, hal = "running", Enc PROVE HandsFirst' /\ OneKind' /\ Enc2 /\ (Fits => Fits2 \/ mode.save)
    BY <1>6, <1>g DEF JpegEventDoes
  <2>1. UNCHANGED <<mode, mTotalNumReproc, frameTh, ppTh, data>> /\ pp = p /\ oo = o /\ jj = j /\ rr = r
        /\ UNCHANGED <<m_inputJpegQ, m_inputRawQ>>
    BY <1>n, <1>m, <1>6 DEF JpegEventDoes, PPs, Ongoings, Jpegs, Raws
  <2>2. HandsFirst' /\ OneKind' /\ aa = a /\ tt = t /\ ww = w /\ ee = e
    BY <1>n, <1>m, <1>w, <2>1 DEF HandsFirst, OneKind, Announcing, Turn, AtRaw, AtEncode
  <2>3. CASE mode.save /\ mode.longshot
    <3>1. nn = n \/ nn = n + 1
      BY <1>n, <1>m, <1>6, <2>3, NextsCounted DEF JpegEventDoes
    <3> QED BY <2>1, <2>2, <2>3, <3>1 DEF Enc, Enc2, Fits, Fits2
  <2>4. CASE ~(mode.save /\ mode.longshot)
    <3>1. nn = n + 1 \/ nn = n + 2
      BY <1>n, <1>m, <1>6, <2>4, NextsCounted DEF JpegEventDoes
    <3>2. Flushed(evt_queue[1].id)
      BY <1>6, <2>4 DEF JpegEventDoes
    <3>3. qq = q \/ qq = q + 1
      <4>1. ASSUME NEW k \in DOMAIN m_ongoingJpegQ.list, Returned(releaseJpegJobData(m_ongoingJpegQ.list[k]))
            PROVE  qq = q \/ qq = q + 1
        <5>1. m_ongoingJpegQ.list[k] \in FitJpeg
          BY <1>a
        <5> QED BY <1>m, <1>n, <4>1, <5>1, RoomGrows
      <4> QED BY <1>m, <1>n, <3>2, <4>1 DEF Flushed
    <3> QED BY <2>1, <2>2, <3>1, <3>3 DEF Enc, Enc2, Fits, Fits2
  <2> QED BY <2>3, <2>4
<1>7. ASSUME NEW f \in Frames, FrameArrivesDoes(f) PROVE Wakeful'
  <2>1. Announcing' = Announcing
    BY <1>7, <1>a DEF FrameArrivesDoes, Announcing, One
  <2> QED BY <1>7, <2>1, WakefulStays DEF FrameArrivesDoes
<1>8. ASSUME processDataDoes PROVE Wakeful'
  <2> SUFFICES ASSUME OnePass, hal = "running", Enc PROVE HandsFirst' /\ OneKind' /\ Enc2 /\ (Fits => Fits2 \/ mode.save)
    BY <1>8, <1>g DEF processDataDoes
  <2>1. UNCHANGED <<mode, mTotalNumReproc, ppTh, data>> /\ oo = o /\ tt = t /\ ww = w /\ ee = e /\ HandsFirst'
    BY <1>n, <1>m, <1>8, <1>w DEF processDataDoes, HandsFirst, Turn, AtRaw, AtEncode, Ongoings
  <2>2. a = 0
    BY <1>n, <1>m, <1>8 DEF processDataDoes, Announcing, One
  <2>3. CASE /\ m_inputPPQ'.list = Append(m_inputPPQ.list, NewRequest(frameTh.frame)) /\ frameTh' \in FrameHand
             /\ frameTh'.at = "queued" /\ UNCHANGED <<m_inputJpegQ, m_inputRawQ, queued, dataCmds>>
    <3>1. pp = p + 1 /\ aa = 1
      <4>1. pp = p + 1
        <5>1. Held(m_inputPPQ') = Held(m_inputPPQ) + 1
          <6>1. m_inputPPQ.list \in Seq(FitRequest)
            BY <1>a
          <6>2. m_inputPPQ'.list = Append(m_inputPPQ.list, NewRequest(frameTh.frame))
            BY <2>3
          <6> QED BY <6>1, <6>2, HeldMore
        <5> QED BY <1>n, <1>m, <5>1 DEF PPs
      <4>2. aa = 1
        BY <1>m, <1>a, <2>3 DEF Announcing, One
      <4> QED BY <4>1, <4>2
    <3>2. OneKind' /\ nn = n /\ jj = j /\ rr = r /\ qq = q
      BY <1>n, <1>m, <1>w, <2>1, <2>3 DEF OneKind, Nexts, Jpegs, Raws
    <3> QED BY <2>1, <2>2, <3>1, <3>2 DEF Enc, Enc2, Fits, Fits2
  <2>4. CASE /\ mode.raw /\ m_inputRawQ'.list = Append(m_inputRawQ.list, Source(frameTh.frame)) /\ frameTh' = None
             /\ dataCmds' = dataCmds \o <<"next", "next">> /\ UNCHANGED <<m_inputPPQ, m_inputJpegQ, queued>>
    <3>1. rr = r + 1 /\ aa = 0 /\ nn = n + 2
      <4>1. rr = r + 1
        BY <1>n, <1>m, <1>a, <2>4, HeldMore DEF Raws
      <4>2. nn = n + 2
        BY <1>n, <1>m, <2>4, NextsCounted
      <4>3. aa = 0
        BY <1>m, <1>a, <2>4 DEF Announcing, One
      <4> QED BY <4>1, <4>2, <4>3
    <3>2. OneKind' /\ jj = j /\ pp = p /\ qq = q
      BY <1>n, <1>m, <1>w, <2>1, <2>4 DEF OneKind, PPs, Jpegs
    <3> QED BY <2>1, <2>2, <3>1, <3>2 DEF Enc, Enc2, Fits, Fits2
  <2>5. CASE /\ ~mode.raw /\ m_inputJpegQ'.list = Append(m_inputJpegQ.list, NewJpegJob(Source(frameTh.frame), None))
             /\ frameTh' = None /\ dataCmds' = dataCmds \o <<"next">> /\ UNCHANGED <<m_inputPPQ, m_inputRawQ, queued>>
    <3>1. jj = j + 1 /\ aa = 0 /\ nn = n + 1
      <4>1. jj = j + 1
        BY <1>n, <1>m, <1>a, <2>5, HeldMore DEF Jpegs
      <4>2. nn = n + 1
        BY <1>n, <1>m, <2>5, NextsCounted
      <4>3. aa = 0
        BY <1>m, <1>a, <2>5 DEF Announcing, One
      <4> QED BY <4>1, <4>2, <4>3
    <3>2. OneKind' /\ rr = r /\ pp = p /\ qq = q
      BY <1>n, <1>m, <1>w, <2>1, <2>5 DEF OneKind, PPs, Raws
    <3> QED BY <2>1, <2>2, <3>1, <3>2 DEF Enc, Enc2, Fits, Fits2
  <2> QED BY <1>8, <1>r, <2>3, <2>4, <2>5 DEF processDataDoes, AllActive
<1>9. ASSUME processDataDoneDoes PROVE Wakeful'
  <2> SUFFICES ASSUME OnePass, hal = "running", Enc PROVE HandsFirst' /\ OneKind' /\ Enc2 /\ (Fits => Fits2 \/ mode.save)
    BY <1>9, <1>g DEF processDataDoneDoes
  <2>1. UNCHANGED <<mode, mTotalNumReproc>> /\ tt = t /\ ww = w /\ ee = e /\ pp = p /\ oo = o /\ jj = j /\ rr = r /\ qq = q
        /\ HandsFirst' /\ OneKind'
    BY <1>n, <1>m, <1>9, <1>w DEF processDataDoneDoes, HandsFirst, OneKind, Turn, AtRaw, AtEncode, PPs, Ongoings, Jpegs, Raws
  <2>2. a = 1 /\ aa = 0
    BY <1>n, <1>m, <1>9, <1>a DEF processDataDoneDoes, Announcing, One
  <2>3. CASE validatePostProcess(Source(frameTh.frame))
    <3>1. nn = n + 1
      BY <1>n, <1>m, <1>9, <2>3, NextsCounted DEF processDataDoneDoes
    <3> QED BY <2>1, <2>2, <3>1 DEF Enc, Enc2, Fits, Fits2
  <2>4. CASE ~validatePostProcess(Source(frameTh.frame))
    <3>1. M > 0 /\ q <= o
      <4>1. mTotalNumReproc > 0 /\ Ongoings >= queued[1]
        BY <2>4 DEF validatePostProcess, Held, Ongoings
      <4> QED BY <1>n, <4>1
    <3>2. nn = n
      BY <1>n, <1>m, <1>9, <2>4, NextsCounted DEF processDataDoneDoes
    <3> QED BY <1>i, <2>1, <2>2, <3>1, <3>2 DEF Enc, Enc2, Fits, Fits2
  <2> QED BY <2>3, <2>4
<1>10. ASSUME NEW i \in Passes, ReprocOutputDoes(i) PROVE Wakeful'
  <2> SUFFICES ASSUME OnePass, hal = "running", Enc PROVE HandsFirst' /\ OneKind' /\ Enc2 /\ (Fits => Fits2 \/ mode.save)
    BY <1>10, <1>g DEF ReprocOutputDoes
  <2>1. UNCHANGED <<mode, mTotalNumReproc>> /\ tt = t /\ ww = w /\ ee = e /\ aa = a /\ nn = n /\ pp = p /\ jj = j /\ rr = r
        /\ OneKind'
    BY <1>n, <1>m, <1>10, <1>w DEF ReprocOutputDoes, OneKind, Turn, AtRaw, AtEncode, Announcing, Nexts, PPs, Jpegs, Raws
  <2>2. i = 1
    BY <1>10, <1>a, <1>q DEF ReprocOutputDoes
  <2>3. qq = q - 1
    BY <1>n, <1>m, <1>10, <1>a, <2>2 DEF ReprocOutputDoes, TypeOK, ChTypeOK
  <2>4. CASE UNCHANGED <<ppTh, m_ongoingPPQ>>
    <3>1. HandsFirst' /\ oo = o
      BY <1>n, <1>m, <1>w, <2>4 DEF HandsFirst, Ongoings
    <3> QED BY <2>1, <2>3, <3>1 DEF Enc, Enc2, Fits, Fits2
  <2>5. CASE /\ Loses(m_ongoingPPQ, m_ongoingPPQ')
             /\ ppTh' = [ppTh EXCEPT ![i] = [out |-> [ch |-> i, of |-> reproc[i][1].of], job |-> m_ongoingPPQ.list[1]]]
    <3>1. o = oo + 1
      BY <1>n, <1>m, <1>a, <2>5, HeldFewer DEF Ongoings
    <3>2. m_ongoingPPQ.list[1] \in FirstOngoing
      BY <1>q, <2>5, HeadTail DEF Loses
    <3>3. HandsFirst'
      BY <1>a, <1>w, <2>5, <3>2 DEF HandsFirst
    <3> QED BY <2>1, <2>3, <3>1, <3>3 DEF Enc, Enc2, Fits, Fits2
  <2> QED BY <1>10, <2>4, <2>5 DEF ReprocOutputDoes
<1>11. ASSUME NEW i \in Passes, processPPDataDoes(i) PROVE Wakeful'
  <2> SUFFICES ASSUME OnePass, hal = "running", Enc PROVE HandsFirst' /\ OneKind' /\ Enc2 /\ (Fits => Fits2 \/ mode.save)
    BY <1>11, <1>g DEF processPPDataDoes
  <2>1. UNCHANGED <<mode, mTotalNumReproc>> /\ tt = t /\ ww = w /\ ee = e /\ aa = a /\ oo = o
    BY <1>n, <1>m, <1>11 DEF processPPDataDoes, Turn, AtRaw, AtEncode, Announcing, Ongoings
  <2>2. ppTh[i].job \in FirstOngoing /\ HandsFirst'
    BY <1>11, <1>a, <1>w DEF processPPDataDoes, HandsFirst
  <2>3. CASE /\ mode.raw /\ m_inputRawQ'.list = Append(m_inputRawQ.list, ppTh[i].out) /\ dataCmds' = Append(dataCmds, "next")
             /\ Returned(releasePPInputData(ppTh[i].job)) /\ UNCHANGED <<m_inputPPQ, m_inputJpegQ>>
    <3>1. rr = r + 1 /\ nn = n + 1
      BY <1>n, <1>m, <1>a, <2>3, HeldMore, NextsCounted DEF Raws
    <3>2. OneKind' /\ jj = j /\ pp = p
      BY <1>n, <1>m, <1>w, <2>1, <2>3 DEF OneKind, PPs, Jpegs
    <3>3. qq = q
      <4>1. releasePPInputData(ppTh[i].job) = <<ppTh[i].job.src>> /\ ppTh[i].job.src \notin OfPass(1)
        BY <1>f, <2>2 DEF releasePPInputData
      <4>2. queued'[1] = queued[1]
        BY <2>3, <4>1, RoomStays
      <4> QED BY <1>m, <1>n, <4>2
    <3> QED BY <2>1, <2>2, <3>1, <3>2, <3>3 DEF Enc, Enc2, Fits, Fits2
  <2>4. CASE /\ ~mode.raw /\ m_inputJpegQ'.list = Append(m_inputJpegQ.list, ToEncode(i)) /\ dataCmds' = Append(dataCmds, "next")
             /\ Returned(SpentInput(ppTh[i].job)) /\ UNCHANGED <<m_inputPPQ, m_inputRawQ>>
    <3>1. jj = j + 1 /\ nn = n + 1
      <4>1. jj = j + 1
        BY <1>n, <1>m, <1>a, <2>4, HeldMore DEF Jpegs
      <4>2. nn = n + 1
        BY <1>n, <1>m, <2>4, NextsCounted
      <4> QED BY <4>1, <4>2
    <3>2. OneKind' /\ rr = r /\ pp = p
      BY <1>n, <1>m, <1>w, <2>1, <2>4 DEF OneKind, PPs, Raws
    <3>3. qq = q
      <4>1. SpentInput(ppTh[i].job) = <<>>
        BY <1>f, <2>2 DEF SpentInput
      <4>2. queued'[1] = queued[1]
        BY <2>4, <4>1, RoomStays
      <4> QED BY <1>m, <1>n, <4>2
    <3> QED BY <2>1, <2>2, <3>1, <3>2, <3>3 DEF Enc, Enc2, Fits, Fits2
  <2>5. mode.raw \/ mTotalNumReproc # 2
    BY <1>r DEF OnePass
  <2> QED BY <1>11, <1>r, <2>3, <2>4, <2>5 DEF processPPDataDoes, AllActive
<1>12. ASSUME DataStartDoes PROVE Wakeful'
  BY <1>12, <1>r DEF DataStartDoes, Wakeful
<1>13. ASSUME DataStopDoes PROVE Wakeful'
  BY <1>13, <1>r DEF DataStopDoes, Wakeful
<1>14. ASSUME DataStoppedDoes PROVE Wakeful'
  BY <1>14, <1>r DEF DataStoppedDoes, Wakeful
<1>15. ASSUME DataNextDoes PROVE Wakeful'
  <2> SUFFICES ASSUME OnePass, hal = "running", Enc PROVE HandsFirst' /\ OneKind' /\ Enc2 /\ (Fits => Fits2 \/ mode.save)
    BY <1>15, <1>g DEF DataNextDoes
  <2>1. UNCHANGED <<mode, mTotalNumReproc>> /\ aa = a /\ pp = p /\ oo = o /\ rr = r /\ qq = q /\ HandsFirst'
    BY <1>n, <1>m, <1>15, <1>w DEF DataNextDoes, HandsFirst, Announcing, PPs, Ongoings, Raws
  <2>2. n = 1 + nn
    BY <1>n, <1>m, <1>15, NextsCounted DEF DataNextDoes
  <2>3. t = 0 /\ w = 0 /\ e = 0
    BY <1>n, <1>m, <1>15 DEF DataNextDoes, Turn, AtRaw, AtEncode, One
  <2>4. CASE data'.at = "encode" /\ Loses(m_inputJpegQ, m_inputJpegQ')
    <3>1. j = jj + 1 /\ ee = 1 /\ tt = 1 /\ ww = 0
      BY <1>n, <1>m, <1>a, <2>4, HeldFewer DEF Turn, AtRaw, AtEncode, One, Jpegs
    <3>2. OneKind'
      BY <1>15, <1>w, <2>4 DEF DataNextDoes, OneKind, Loses
    <3>3. r = 0
      BY <1>w, <1>z, <2>4 DEF OneKind, Loses
    <3> QED BY <2>1, <2>2, <2>3, <3>1, <3>2, <3>3 DEF Enc, Enc2, Fits, Fits2
  <2>5. CASE ~(data.active /\ HasNext(m_inputJpegQ)) /\ UNCHANGED m_inputJpegQ
    <3>1. OneKind' /\ j = 0 /\ jj = 0
      BY <1>n, <1>m, <1>15, <1>r, <1>w, <2>5 DEF DataNextDoes, OneKind, HasNext, AllActive, Held, Jpegs
    <3>2. CASE data'.at = "raw"
      <4>1. ee = 0 /\ tt = 1 /\ ww = 1
        BY <1>n, <1>m, <3>2 DEF Turn, AtRaw, AtEncode, One
      <4> QED BY <2>1, <2>2, <2>3, <3>1, <4>1 DEF Enc, Enc2, Fits, Fits2
    <3>3. ASSUME ~HasNext(m_inputRawQ), data'.at \in {"reproc", "wait"}, data'.at = "wait" => ~CanReprocess
          PROVE  HandsFirst' /\ OneKind' /\ Enc2 /\ (Fits => Fits2 \/ mode.save)
      <4>1. ee = 0 /\ tt = (IF data'.at = "wait" THEN 0 ELSE 1) /\ ww = 0
        BY <1>n, <1>m, <3>3 DEF Turn, AtRaw, AtEncode, One
      <4>2. r = 0
        BY <1>r, <1>z, <3>3 DEF HasNext, AllActive
      <4>3. data'.at = "wait" => p = 0 \/ (M > 0 /\ q <= o)
        BY <1>c, <3>3
      <4> QED BY <2>1, <2>2, <2>3, <3>1, <3>3, <4>1, <4>2, <4>3 DEF Enc, Enc2, Fits, Fits2
    <3> QED BY <1>15, <1>r, <2>5, <3>2, <3>3 DEF DataNextDoes
  <2> QED BY <1>15, <2>4, <2>5 DEF DataNextDoes
<1>16. ASSUME encodeDataDoes PROVE Wakeful'
  <2> SUFFICES ASSUME OnePass, hal = "running", Enc PROVE HandsFirst' /\ OneKind' /\ Enc2 /\ (Fits => Fits2 \/ mode.save)
    BY <1>16, <1>g DEF encodeDataDoes
  <2>1. UNCHANGED <<mode, mTotalNumReproc>> /\ aa = a /\ nn = n /\ pp = p /\ oo = o /\ jj = j /\ rr = r
        /\ HandsFirst' /\ OneKind'
    BY <1>n, <1>m, <1>16, <1>w DEF encodeDataDoes, HandsFirst, OneKind, Announcing, Nexts, PPs, Ongoings, Jpegs, Raws
  <2>2. e = 1 /\ ee = 0 /\ t = 1 /\ tt = 1 /\ w = 0
    BY <1>n, <1>m, <1>16, <1>e DEF encodeDataDoes, Turn, AtRaw, AtEncode, One
  <2>3. qq = q \/ qq = q + 1
    <3>1. CASE UNCHANGED queued
      BY <1>m, <1>n, <3>1
    <3>2. CASE m_ongoingJpegQ.list # <<>> /\ Returned(releaseJpegJobData(m_ongoingJpegQ.list[Len(m_ongoingJpegQ.list)]))
      <4>1. m_ongoingJpegQ.list[Len(m_ongoingJpegQ.list)] \in FitJpeg
        BY <1>a, <3>2, HeadTail
      <4> QED BY <1>m, <1>n, <3>2, <4>1, RoomGrows
    <3> QED BY <1>16, <3>1, <3>2 DEF encodeDataDoes
  <2> QED BY <2>1, <2>2, <2>3 DEF Enc, Enc2, Fits, Fits2
<1>17. ASSUME RecordJobDoes PROVE Wakeful'
  <2> SUFFICES ASSUME OnePass, hal = "running", Enc PROVE HandsFirst' /\ OneKind' /\ Enc2 /\ (Fits => Fits2 \/ mode.save)
    BY <1>17, <1>g DEF RecordJobDoes
  <2>1. UNCHANGED <<mode, mTotalNumReproc>> /\ aa = a /\ nn = n /\ pp = p /\ oo = o /\ jj = j /\ rr = r /\ qq = q
        /\ HandsFirst' /\ OneKind'
    BY <1>n, <1>m, <1>17, <1>w DEF RecordJobDoes, HandsFirst, OneKind, Announcing, Nexts, PPs, Ongoings, Jpegs, Raws
  <2>2. e = 0 /\ ee = 0 /\ t = 1 /\ tt = 1 /\ w = 0
    BY <1>n, <1>m, <1>17, <1>e DEF RecordJobDoes, Turn, AtRaw, AtEncode, One
  <2> QED BY <2>1, <2>2 DEF Enc, Enc2, Fits, Fits2
<1>18. ASSUME ProcessRawDoes PROVE Wakeful'
  <2> SUFFICES ASSUME OnePass, hal = "running", Enc PROVE HandsFirst' /\ OneKind' /\ Enc2 /\ (Fits => Fits2 \/ mode.save)
    BY <1>18, <1>g DEF ProcessRawDoes
  <2>1. UNCHANGED <<mode, mTotalNumReproc>> /\ aa = a /\ nn = n /\ pp = p /\ oo = o /\ jj = j /\ HandsFirst'
    BY <1>n, <1>m, <1>18, <1>w DEF ProcessRawDoes, HandsFirst, Announcing, Nexts, PPs, Ongoings, Jpegs
  <2>2. e = 0 /\ ee = 0 /\ t = 1 /\ tt = 1 /\ w = 1 /\ ww = 0
    BY <1>n, <1>m, <1>18 DEF ProcessRawDoes, Turn, AtRaw, AtEncode, One
  <2>3. r = rr + 1 /\ OneKind'
    <3>1. r = rr + 1
      BY <1>n, <1>m, <1>18, <1>a, HeldFewer DEF ProcessRawDoes, Loses, Raws
    <3>2. OneKind'
      BY <1>18, <1>w DEF ProcessRawDoes, OneKind, Loses
    <3> QED BY <3>1, <3>2
  <2>4. qq = q \/ qq = q + 1
    <3>1. CASE UNCHANGED queued
      BY <1>m, <1>n, <3>1
    <3>2. CASE Returned(<<m_inputRawQ.list[1]>>)
      <4>1. Count(<<m_inputRawQ.list[1]>>, OfPass(1)) \in {0, 1}
        BY CountOne DEF One
      <4>2. queued'[1] = queued[1] \/ queued'[1] = queued[1] + Count(<<m_inputRawQ.list[1]>>, OfPass(1))
        BY <1>a, <3>2 DEF Returned
      <4> QED BY <1>m, <1>n, <4>1, <4>2
    <3> QED BY <1>18, <3>1, <3>2 DEF ProcessRawDoes
  <2> QED BY <2>1, <2>2, <2>3, <2>4 DEF Enc, Enc2, Fits, Fits2
<1>19. ASSUME doReprocessDoes PROVE Wakeful'
  <2> SUFFICES ASSUME OnePass, hal = "running", Enc PROVE HandsFirst' /\ OneKind' /\ Enc2 /\ (Fits => Fits2 \/ mode.save)
    BY <1>19, <1>g DEF doReprocessDoes
  <2>1. UNCHANGED <<mode, mTotalNumReproc>> /\ aa = a /\ nn = n /\ jj = j /\ rr = r /\ qq = q /\ HandsFirst' /\ OneKind'
    BY <1>n, <1>m, <1>19, <1>w DEF doReprocessDoes, HandsFirst, OneKind, Announcing, Nexts, Jpegs, Raws
  <2>2. e = 0 /\ ee = 0 /\ t = 1 /\ tt = 0 /\ w = 0
    BY <1>n, <1>m, <1>19 DEF doReprocessDoes, Turn, AtRaw, AtEncode, One
  <2>3. CASE ~CanReprocess /\ UNCHANGED <<m_inputPPQ, m_ongoingPPQ>>
    <3>1. p = 0 \/ (M > 0 /\ q <= o)
      BY <1>c, <2>3
    <3>2. pp = p /\ oo = o
      BY <1>n, <1>m, <2>3 DEF PPs, Ongoings
    <3> QED BY <2>1, <2>2, <3>1, <3>2 DEF Enc, Enc2, Fits, Fits2
  <2>4. CASE Loses(m_inputPPQ, m_inputPPQ') /\ Gets(m_ongoingPPQ, m_ongoingPPQ', Passed(m_inputPPQ.list[1]))
    <3>1. p = pp + 1
      <4>1. Held(m_inputPPQ) = Held(m_inputPPQ') + 1
        BY <1>a, <2>4, HeldFewer
      <4> QED BY <1>n, <1>m, <4>1 DEF PPs
    <3>2. m_ongoingPPQ'.list = Append(m_ongoingPPQ.list, Passed(m_inputPPQ.list[1]))
      BY <1>r, <2>4 DEF Gets, AllActive
    <3>3. oo = o + 1
      <4>1. PICK x : x = Passed(m_inputPPQ.list[1])
        OBVIOUS
      <4>2. m_ongoingPPQ'.list = Append(m_ongoingPPQ.list, x)
        BY <3>2, <4>1
      <4>4. m_ongoingPPQ.list \in Seq(FitOngoing)
        BY <1>a
      <4>3. Held(m_ongoingPPQ') = Held(m_ongoingPPQ) + 1
        BY <4>2, <4>4, HeldMore
      <4> QED BY <1>n, <1>m, <4>3 DEF Ongoings
    <3> QED BY <2>1, <2>2, <3>1, <3>3 DEF Enc, Enc2, Fits, Fits2
  <2> QED BY <1>19, <2>3, <2>4 DEF doReprocessDoes
<1>20. ASSUME NEW id \in encoding, JpegDoneDoes(id) PROVE Wakeful'
  BY <1>20, WakefulStays DEF JpegDoneDoes, Announcing
<1>21. ASSUME SaveStepDoes PROVE Wakeful'
  <2>1. UNCHANGED <<hal, mode, mTotalNumReproc, ppTh, m_inputPPQ, m_ongoingPPQ, m_inputJpegQ, m_inputRawQ, data, dataCmds, frameTh>>
    BY <1>21 DEF SaveStepDoes
  <2>2. CASE UNCHANGED queued
    BY <2>1, <2>2, WakefulStays DEF Announcing
  <2>3. CASE mode.save
    <3> SUFFICES ASSUME OnePass, hal = "running", Enc PROVE HandsFirst' /\ OneKind' /\ Enc2 /\ (Fits => Fits2 \/ mode.save)
      BY <1>g, <2>1
    <3>1. nn = n /\ ww = w /\ jj = j /\ rr = r
      BY <1>n, <1>m, <2>1 DEF Nexts, AtRaw, Jpegs, Raws
    <3>2. HandsFirst' /\ OneKind' /\ Enc2
      BY <1>w, <2>1, <3>1 DEF HandsFirst, OneKind, Enc, Enc2
    <3> QED BY <2>3, <3>2
  <2> QED BY <1>21, <2>2, <2>3 DEF SaveStepDoes, SaveProtocol, SaveEmpty, Saving, Loses
<1>22. ASSUME NoteStartDoes PROVE Wakeful'
  BY <1>22, WakefulStays DEF NoteStartDoes, Announcing
<1>23. ASSUME NoteStopDoes PROVE Wakeful'
  <2>1. queued'[1] = queued[1]
    BY <1>23, <1>b, RoomStays DEF NoteStopDoes
  <2> QED BY <1>23, <2>1, WakefulStays DEF NoteStopDoes, Announcing
<1>24. ASSUME NoteNextDoes PROVE Wakeful'
  <2>1. queued'[1] = queued[1]
    BY <1>24, <1>b, HeadTail, RoomStays DEF NoteNextDoes
  <2> QED BY <1>24, <2>1, WakefulStays DEF NoteNextDoes, Announcing
<1>25. ASSUME NoteDeliveredDoes PROVE Wakeful'
  <2>1. queued'[1] = queued[1]
    BY <1>25, <1>b, RoomStays DEF NoteDeliveredDoes
  <2> QED BY <1>25, <2>1, WakefulStays DEF NoteDeliveredDoes, Announcing
<1> QED BY <1>1, <1>2, <1>3, <1>4, <1>5, <1>6, <1>7, <1>8, <1>9, <1>10, <1>11, <1>12, <1>13, <1>14, <1>15, <1>16, <1>17, <1>18, <1>19, <1>20, <1>21, <1>22, <1>23, <1>24, <1>25 DEF Step

LEMMA WakefulAlways == Spec => [](Custody /\ Wakeful /\ Paired)
<1>1. Init => Wakeful
  BY DEF Init, Wakeful
<1>2. Custody /\ Journey /\ Paired /\ Wakeful /\ [Next]_vars => Wakeful'
  <2>1. ASSUME Custody, Journey, Paired, Wakeful, Next PROVE Wakeful'
    <3>1. Custody' /\ Step
      BY <2>1, CustodySteps
    <3> QED BY <2>1, <3>1, WakefulKept DEF Custody, Journey
  <2>2. ASSUME Wakeful, UNCHANGED vars PROVE Wakeful'
    <3>1. UNCHANGED <<hal, mode, mTotalNumReproc, ppTh, m_inputPPQ, m_ongoingPPQ, m_inputJpegQ, m_inputRawQ, data, dataCmds, queued, frameTh>>
      BY <2>2 DEF vars, halVars, frameVars, chVars, inputs, ongoing, dataVars
    <3> QED BY <2>2, <3>1, WakefulStays DEF Announcing
  <2> QED BY <2>1, <2>2
<1> QED BY <1>1, <1>2, CustodyAlways, JourneyAlways, PairedAlways, PTL DEF Spec

LEMMA WakefulWakes == Custody /\ Wakeful /\ Paired => (OnePass => WorkHasWaker)
<1> SUFFICES ASSUME Custody, Wakeful, Paired, OnePass, hal = "running"
      PROVE  /\ Len(m_inputJpegQ.list) <= Commands
             /\ Len(m_inputRawQ.list) <= Commands + IF data.at = "raw" THEN 1 ELSE 0
             /\ CanReprocess /\ ~mode.save => Commands > 0 \/ data.at # "wait" \/ \E i \in Passes : ppTh[i] # None
  BY DEF WorkHasWaker
<1>0. TypeOK /\ Working /\ TallyNat /\ OneKind /\ Encodes /\ Reprocesses
  BY TalliesNat DEF Custody, Wakeful
<1>1. Commands = Nexts + Announcing
  <2>1. {k \in DOMAIN dataCmds : dataCmds[k] = "next"} = {k \in DOMAIN dataCmds : dataCmds[k] \in {"next"}}
    OBVIOUS
  <2> QED BY <2>1 DEF Commands, Nexts, Count, Announcing, One
<1>2. AtRaw = (IF data.at = "raw" THEN 1 ELSE 0) /\ (data.at = "wait" => Turn = 0 /\ AtEncode = 0)
  BY DEF AtRaw, Turn, AtEncode, One
<1>3. data.at = "raw" => Jpegs = 0
  BY <1>0 DEF OneKind, Working, Held, Jpegs
<1>4. CanReprocess => m_inputPPQ.list # <<>> /\ (mTotalNumReproc = 0 \/ Ongoings < queued[1])
  <2> SUFFICES ASSUME CanReprocess PROVE m_inputPPQ.list # <<>> /\ (mTotalNumReproc = 0 \/ Ongoings < queued[1])
    OBVIOUS
  <2>1. m_inputPPQ.list # <<>> /\ m_inputPPQ.list \in Seq(FirstRequest) /\ validatePostProcess(m_inputPPQ.list[1].src)
    BY DEF CanReprocess, HasNext, peek, Paired
  <2>2. m_inputPPQ.list[1].src.ch = 0
    BY <2>1, HeadTail, NoneApart DEF FirstRequest, FitRequest, Request
  <2>3. mTotalNumReproc = 0 \/ mTotalNumReproc > 0
    BY <1>0 DEF TypeOK, HalTypeOK
  <2>4. Ongoings \in Nat /\ queued[1] \in Nat /\ (mTotalNumReproc > 0 => ~(Ongoings >= queued[1]))
    BY <1>0, <2>1, <2>2 DEF validatePostProcess, Held, Ongoings, TallyNat
  <2>5. mTotalNumReproc > 0 => Ongoings < queued[1]
    BY <2>4
  <2> QED BY <2>1, <2>3, <2>5
<1>5. m_inputPPQ.list # <<>> => PPs # 0
  BY <1>0, QueueFields DEF TypeOK, QueueTypeOK, Held, PPs
<1>6. Jpegs <= Commands /\ Raws <= Commands + AtRaw
  <2>1. mode.raw => Jpegs = 0
    BY <1>0 DEF OneKind, Held, Jpegs
  <2>2. AtRaw = 1 \/ AtRaw = 0
    BY DEF AtRaw, One
  <2>3. AtRaw = 1 => Jpegs = 0
    BY <1>3, <2>2 DEF AtRaw, One
  <2> QED BY <1>0, <1>1, <2>1, <2>2, <2>3 DEF Encodes, TallyNat
<1>7. ASSUME CanReprocess, ~mode.save, data.at = "wait" PROVE Commands > 0
  <2> QED BY <1>0, <1>1, <1>2, <1>4, <1>5, <1>7 DEF Reprocesses, TallyNat
<1> QED BY <1>2, <1>6, <1>7 DEF Held, Jpegs, Raws

(* Work the data thread could do is never left without a command that will  *)
(* make it, where a picture is reprocessed at most once: every picture to   *)
(* encode has its command, and so has every request there is room for.      *)
THEOREM OnePassHasWaker == Spec => [](OnePass => WorkHasWaker)
  BY WakefulAlways, WakefulWakes, PTL
=============================================================================
