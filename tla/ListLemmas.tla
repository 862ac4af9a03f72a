----------------------------- MODULE ListLemmas -----------------------------
(***************************************************************************)
(* What adding a node to a list and deleting one does when a node is on    *)
(* the list at most once, as in all the lists of asynManager.              *)
(***************************************************************************)
EXTENDS Integers, Sequences, SequencesExt, SequenceTheorems, TLAPS

\* ellAdd of a node.
LEMMA AppendLemma ==
  ASSUME NEW S, NEW s \in Seq(S), NEW e
  PROVE  /\ e \in S => Append(s, e) \in Seq(S)
         /\ \A x : Contains(Append(s, e), x) <=> Contains(s, x) \/ x = e
         /\ IsInjective(s) /\ ~Contains(s, e) => IsInjective(Append(s, e))
<1> DEFINE t == Append(s, e)
<1>1. /\ Len(t) = Len(s) + 1 /\ Len(s) \in Nat
      /\ DOMAIN t = 1..Len(s) + 1 /\ DOMAIN s = 1..Len(s)
      /\ \A i \in 1..Len(s) : t[i] = s[i]
      /\ t[Len(s) + 1] = e
  OBVIOUS
<1>2. e \in S => t \in Seq(S)
  OBVIOUS
<1> HIDE DEF t
<1>3. ASSUME NEW x PROVE Contains(t, x) <=> Contains(s, x) \/ x = e
  BY <1>1 DEF Contains
<1>4. IsInjective(s) /\ ~Contains(s, e) => IsInjective(t)
  BY <1>1 DEF Contains, IsInjective
<1> QED BY <1>2, <1>3, <1>4 DEF t

\* A node in front of all others.
LEMMA PrependLemma ==
  ASSUME NEW S, NEW s \in Seq(S), NEW e \in S
  PROVE  /\ <<e>> \o s \in Seq(S)
         /\ \A x : Contains(<<e>> \o s, x) <=> Contains(s, x) \/ x = e
         /\ IsInjective(s) /\ ~Contains(s, e) => IsInjective(<<e>> \o s)
<1> DEFINE t == <<e>> \o s
<1>1. <<e>> \in Seq(S) /\ Len(<<e>>) = 1 /\ <<e>>[1] = e
  OBVIOUS
<1>2. /\ t \in Seq(S) /\ Len(t) = 1 + Len(s)
      /\ \A i \in 1..1 + Len(s) : t[i] = IF i <= 1 THEN <<e>>[i] ELSE s[i - 1]
  BY <1>1, ConcatProperties
<1>3. Len(s) \in Nat /\ DOMAIN s = 1..Len(s) /\ DOMAIN t = 1..Len(t)
  BY <1>2
<1> HIDE DEF t
<1>4. /\ t[1] = e
      /\ \A i \in 2..Len(t) : i - 1 \in 1..Len(s) /\ t[i] = s[i - 1]
      /\ \A i \in 1..Len(s) : i + 1 \in 2..Len(t) /\ t[i + 1] = s[i]
  BY <1>1, <1>2, <1>3
<1>5. ASSUME NEW x PROVE Contains(t, x) <=> Contains(s, x) \/ x = e
  <2>1. ASSUME NEW i \in 1..Len(t), t[i] = x PROVE Contains(s, x) \/ x = e
    BY <1>2, <1>3, <1>4, <2>1 DEF Contains
  <2>2. ASSUME NEW i \in 1..Len(s), s[i] = x PROVE Contains(t, x)
    <3>1. i + 1 \in 1..Len(t) /\ t[i + 1] = x
      BY <1>2, <1>3, <1>4, <2>2
    <3> QED BY <3>1 DEF Contains
  <2>3. 1 \in 1..Len(t) /\ t[1] = e
    BY <1>2, <1>3, <1>4
  <2>4. Contains(t, e)
    BY <2>3 DEF Contains
  <2> QED BY <2>1, <2>2, <2>4 DEF Contains
<1>6. ASSUME IsInjective(s), ~Contains(s, e) PROVE IsInjective(t)
  <2> SUFFICES ASSUME NEW i \in 1..Len(t), NEW j \in 1..Len(t), t[i] = t[j]
               PROVE  i = j
    BY <1>3 DEF IsInjective
  <2>1. CASE i = 1 \/ j = 1
    <3>1. \A k \in 2..Len(t) : t[k] # e
      BY <1>4, <1>6 DEF Contains
    <3>2. (i # 1 => i \in 2..Len(t)) /\ (j # 1 => j \in 2..Len(t))
      BY <1>2, <1>3
    <3> QED BY <1>4, <2>1, <3>1, <3>2
  <2>2. CASE i # 1 /\ j # 1
    <3>1. i - 1 \in DOMAIN s /\ j - 1 \in DOMAIN s /\ s[i - 1] = s[j - 1]
      BY <1>3, <1>4, <2>2
    <3>2. i - 1 = j - 1
      BY <1>6, <3>1 DEF IsInjective
    <3> QED BY <3>2
  <2> QED BY <2>1, <2>2
<1> QED BY <1>2, <1>5, <1>6 DEF t

\* The elements of two lists, one after the other.
LEMMA ConcatLemma ==
  ASSUME NEW S, NEW s \in Seq(S), NEW t \in Seq(S)
  PROVE  /\ s \o t \in Seq(S)
         /\ \A i \in 1..Len(s \o t) :
              (s \o t)[i] \in S /\ (Contains(s, (s \o t)[i]) \/ Contains(t, (s \o t)[i]))
         /\ \A x : Contains(s, x) \/ Contains(t, x) => Contains(s \o t, x)
<1> DEFINE c == s \o t
<1>1. /\ c \in Seq(S) /\ Len(c) = Len(s) + Len(t)
      /\ \A i \in 1..Len(s) + Len(t) : c[i] = IF i <= Len(s) THEN s[i] ELSE t[i - Len(s)]
  BY ConcatProperties
<1>2. Len(s) \in Nat /\ Len(t) \in Nat
  OBVIOUS
<1> HIDE DEF c
<1>3. ASSUME NEW i \in 1..Len(c)
      PROVE  c[i] \in S /\ (Contains(s, c[i]) \/ Contains(t, c[i]))
  <2>1. c[i] \in S
    BY <1>1
  <2>2. CASE i <= Len(s)
    BY <1>1, <1>2, <2>2 DEF Contains
  <2>3. CASE i > Len(s)
    <3>1. i - Len(s) \in 1..Len(t) /\ c[i] = t[i - Len(s)]
      BY <1>1, <1>2, <2>3
    <3> QED BY <3>1 DEF Contains
  <2> QED BY <1>1, <1>2, <2>1, <2>2, <2>3
<1>4. ASSUME NEW x, Contains(s, x) \/ Contains(t, x)
      PROVE  Contains(c, x)
  <2>1. CASE Contains(s, x)
    <3>1. PICK i \in 1..Len(s) : s[i] = x
      BY <2>1 DEF Contains
    <3>2. i \in 1..Len(c) /\ c[i] = x
      BY <1>1, <1>2, <3>1
    <3> QED BY <3>2 DEF Contains
  <2>2. CASE Contains(t, x)
    <3>1. PICK i \in 1..Len(t) : t[i] = x
      BY <2>2 DEF Contains
    <3> DEFINE m == Len(s)
               k == Len(s) + i
    <3>2. m \in Nat /\ Len(c) = m + Len(t)
      BY <1>1, <1>2
    <3>3. k = m + i /\ k - m = i /\ ~(k <= m)
      BY <3>1, <3>2
    <3>4. k \in 1..Len(s) + Len(t) /\ k \in 1..Len(c)
      BY <1>2, <3>1, <3>2, <3>3
    <3>5. c[k] = IF k <= m THEN s[k] ELSE t[k - m]
      BY <1>1, <3>4
    <3>6. c[k] = x
      BY <3>1, <3>3, <3>5
    <3> QED BY <3>4, <3>6 DEF Contains
  <2> QED BY <1>4, <2>1, <2>2
<1> QED BY <1>1, <1>3, <1>4 DEF c

\* ellDelete of a node.
LEMMA RemoveFirstLemma ==
  ASSUME NEW S, NEW s \in Seq(S), NEW e, IsInjective(s)
  PROVE  /\ RemoveFirst(s, e) \in Seq(S)
         /\ IsInjective(RemoveFirst(s, e))
         /\ \A x : Contains(RemoveFirst(s, e), x) <=> Contains(s, x) /\ x # e
<1>1. CASE ~Contains(s, e)
  BY <1>1 DEF Contains, RemoveFirst
<1>2. CASE Contains(s, e)
  <2>1. PICK k \in 1..Len(s) : s[k] = e
    BY <1>2 DEF Contains
  <2>2. SelectInSeq(s, LAMBDA v : v = e) = k
    <3>1. {i \in 1..Len(s) : s[i] = e} = {k}
      BY <2>1 DEF IsInjective
    <3> QED BY <3>1, <2>1 DEF SelectInSeq, Min
  <2> DEFINE t == RemoveAt(s, k)
  <2>3. RemoveFirst(s, e) = t
    BY <2>1, <2>2 DEF RemoveFirst
  <2>4. /\ t \in Seq(S) /\ Len(s) \in Nat
        /\ DOMAIN t = 1..Len(s) - 1 /\ Len(t) = Len(s) - 1
        /\ \A i \in 1..Len(s) - 1 : t[i] = IF i < k THEN s[i] ELSE s[i + 1]
    <3> DEFINE a == SubSeq(s, 1, k - 1)
               b == SubSeq(s, k + 1, Len(s))
    <3>1. /\ Len(s) \in Nat /\ k \in 1..Len(s) /\ DOMAIN s = 1..Len(s)
          /\ \A i \in 1..Len(s) : s[i] \in S
      OBVIOUS
    <3>2. /\ a \in Seq(S) /\ Len(a) = k - 1
          /\ \A i \in 1..k - 1 : a[i] = s[i]
      <4>1. /\ 1 \in Int /\ k - 1 \in Int
            /\ \A i \in 1..k - 1 : s[i] \in S
        BY <3>1
      <4>2. a \in Seq(S) /\ Len(a) = IF 1 <= k - 1 THEN k - 1 - 1 + 1 ELSE 0
        BY <4>1, SubSeqProperties
      <4>3. \A i \in 1..k - 1 - 1 + 1 : a[i] = s[1 + i - 1]
        BY <4>1, SubSeqProperties
      <4> HIDE DEF a
      <4>4. Len(a) = k - 1
        BY <4>2
      <4>5. ASSUME NEW i \in 1..k - 1 PROVE a[i] = s[i]
        <5>1. 1 + i - 1 = i /\ i \in 1..k - 1 - 1 + 1
          OBVIOUS
        <5> QED BY <4>3, <5>1
      <4> QED BY <4>2, <4>4, <4>5
    <3>3. /\ b \in Seq(S) /\ Len(b) = Len(s) - k
          /\ \A i \in 1..Len(s) - k : b[i] = s[k + i]
      <4>1. /\ k + 1 \in Int /\ Len(s) \in Int
            /\ \A i \in k + 1..Len(s) : s[i] \in S
        BY <3>1
      <4>2. /\ b \in Seq(S)
            /\ Len(b) = IF k + 1 <= Len(s) THEN Len(s) - (k + 1) + 1 ELSE 0
        BY <4>1, SubSeqProperties
      <4>3. \A i \in 1..Len(s) - (k + 1) + 1 : b[i] = s[k + 1 + i - 1]
        BY <4>1, SubSeqProperties
      <4> HIDE DEF b
      <4> DEFINE n == Len(s)
      <4>4. n \in Nat /\ k \in 1..n
        BY <3>1
      <4>5. Len(b) = IF k + 1 <= n THEN n - (k + 1) + 1 ELSE 0
        BY <4>2
      <4> HIDE DEF n
      <4>6. Len(b) = n - k
        BY <4>4, <4>5
      <4>7. ASSUME NEW i \in 1..n - k PROVE b[i] = s[k + i]
        <5>1. k + 1 + i - 1 = k + i /\ i \in 1..n - (k + 1) + 1
          BY <4>4
        <5> QED BY <4>3, <5>1 DEF n
      <4> QED BY <4>2, <4>6, <4>7 DEF n
    <3> HIDE DEF a, b
    <3>4. a \o b \in Seq(S) /\ Len(a \o b) = Len(s) - 1
      <4>1. a \o b \in Seq(S) /\ Len(a \o b) = Len(a) + Len(b)
        BY <3>2, <3>3, ConcatProperties
      <4> QED BY <3>1, <3>2, <3>3, <4>1
    <3>5. ASSUME NEW i \in 1..Len(s) - 1
          PROVE  (a \o b)[i] = IF i < k THEN s[i] ELSE s[i + 1]
      <4>1. (a \o b)[i] = IF i <= Len(a) THEN a[i] ELSE b[i - Len(a)]
        BY <3>1, <3>2, <3>3, ConcatProperties
      <4> QED BY <3>1, <3>2, <3>3, <4>1
    <3>6. t = a \o b
      BY DEF RemoveAt, a, b
    <3> HIDE DEF t
    <3>7. DOMAIN t = 1..Len(s) - 1
      BY <3>4, <3>6
    <3> QED BY <3>1, <3>4, <3>5, <3>6, <3>7
  <2> HIDE DEF t
  <2>5. IsInjective(t)
    <3> SUFFICES ASSUME NEW i \in 1..Len(s) - 1, NEW j \in 1..Len(s) - 1, t[i] = t[j]
                 PROVE  i = j
      BY <2>4 DEF IsInjective
    <3> DEFINE old(n) == IF n < k THEN n ELSE n + 1
    <3>1. old(i) \in DOMAIN s /\ old(j) \in DOMAIN s /\ s[old(i)] = s[old(j)]
      BY <2>4
    <3>2. old(i) = old(j)
      BY <3>1 DEF IsInjective
    <3> QED BY <3>2
  <2>6. ASSUME NEW x, Contains(t, x) PROVE Contains(s, x) /\ x # e
    <3>1. PICK i \in 1..Len(s) - 1 : t[i] = x
      BY <2>4, <2>6 DEF Contains
    <3> DEFINE old == IF i < k THEN i ELSE i + 1
    <3>2. old \in 1..Len(s) /\ old # k /\ s[old] = x /\ DOMAIN s = 1..Len(s)
      BY <2>4, <3>1
    <3> HIDE DEF old
    <3> QED BY <2>1, <3>2 DEF Contains, IsInjective
  <2>7. ASSUME NEW x, Contains(s, x), x # e PROVE Contains(t, x)
    <3>1. PICK i \in 1..Len(s) : s[i] = x
      BY <2>7 DEF Contains
    <3>2. CASE i < k
      BY <2>1, <2>4, <3>1, <3>2 DEF Contains
    <3>3. CASE i > k
      <4>1. i - 1 \in 1..Len(s) - 1 /\ t[i - 1] = x
        BY <2>1, <2>4, <3>1, <3>3
      <4> QED BY <4>1, <2>4 DEF Contains
    <3> QED BY <2>1, <2>7, <3>1, <3>2, <3>3
  <2> QED BY <2>3, <2>4, <2>5, <2>6, <2>7
<1> QED BY <1>1, <1>2

\* The node that ellFirst or ellNext finds is on the list, or there is none.
LEMMA FollowingLemma ==
  ASSUME NEW S, NEW s \in Seq(S), NEW none, NEW i \in 0..Len(s)
  PROVE  Append(s, none)[i + 1] = none \/ Contains(s, Append(s, none)[i + 1])
<1>1. CASE i = Len(s)
  BY <1>1
<1>2. CASE i < Len(s)
  <2>1. i + 1 \in 1..Len(s) /\ Append(s, none)[i + 1] = s[i + 1]
    BY <1>2
  <2> QED BY <2>1 DEF Contains
<1> QED BY <1>1, <1>2
=============================================================================
