--------------------------- MODULE SequenceLemmas ---------------------------
(* Lists without duplicates, as the maps with a dispatch order and the lists *)
(* of endpoints are: what the operators that edit them keep.                 *)
EXTENDS SequencesExt, SequenceTheorems, FiniteSetTheorems, TLAPS

(* The empty sequence, as a state of a list. *)
LEMMA EmptyOrder ==
    ASSUME NEW S
    PROVE  ToSet(<<>>) = {} /\ IsInjective(<<>>) /\ <<>> \in Seq(S)
BY DEF ToSet, IsInjective

(* RemoveFirst takes out exactly the element and keeps the others distinct.  *)
LEMMA RemoveFirstOf ==
    ASSUME NEW S, NEW s \in Seq(S), NEW e \in ToSet(s), IsInjective(s)
    PROVE  /\ RemoveFirst(s, e) \in Seq(S) /\ Len(RemoveFirst(s, e)) = Len(s) - 1
           /\ ToSet(RemoveFirst(s, e)) = ToSet(s) \ {e}
           /\ IsInjective(RemoveFirst(s, e))
<1>1. PICK k \in DOMAIN s : e = s[k]
    BY DEF ToSet
<1>2. DOMAIN s = 1..Len(s) /\ Len(s) \in Nat /\ k \in 1..Len(s)
    BY <1>1
<1> DEFINE a == SubSeq(s, 1, k - 1)
           b == SubSeq(s, k + 1, Len(s))
           t == a \o b
<1>3. RemoveFirst(s, e) = t
  <2>1. {i \in 1..Len(s) : s[i] = e} = {k}
      BY <1>1, <1>2 DEF IsInjective
  <2>2. Min({k}) = k
      BY <1>2 DEF Min
  <2>3. RemoveFirst(s, e) = RemoveAt(s, k)
      BY <2>1, <2>2 DEF RemoveFirst, SelectInSeq
  <2> QED
      BY <2>3 DEF RemoveAt
<1>4. /\ a \in Seq(S) /\ Len(a) = k - 1 /\ \A i \in 1..(k - 1) : a[i] = s[i]
      /\ b \in Seq(S) /\ Len(b) = Len(s) - k /\ \A i \in 1..(Len(s) - k) : b[i] = s[k + i]
    BY <1>2
<1> HIDE DEF a, b
<1>5. /\ t \in Seq(S) /\ Len(t) = Len(s) - 1 /\ DOMAIN t = 1..(Len(s) - 1)
      /\ \A i \in 1..(Len(s) - 1) : t[i] = IF i < k THEN s[i] ELSE s[i + 1]
  <2>1. t \in Seq(S) /\ Len(t) = Len(s) - 1
    <3>1. t \in Seq(S) /\ Len(t) = Len(a) + Len(b)
        BY <1>4, ConcatProperties
    <3>2. Len(a) + Len(b) = Len(s) - 1
        BY <1>2, <1>4
    <3> QED
        BY <3>1, <3>2
  <2>2. ASSUME NEW i \in 1..(Len(s) - 1)
        PROVE  t[i] = IF i < k THEN s[i] ELSE s[i + 1]
    <3>1. t[i] = IF i <= k - 1 THEN a[i] ELSE b[i - (k - 1)]
        BY <1>2, <1>4, ConcatProperties
    <3>2. CASE i < k
        BY <1>2, <1>4, <3>1, <3>2
    <3>3. CASE i >= k
      <4>1. i - (k - 1) \in 1..(Len(s) - k) /\ k + (i - (k - 1)) = i + 1
          BY <1>2, <3>3
      <4>2. b[i - (k - 1)] = s[i + 1]
          BY <1>4, <4>1
      <4>3. ~(i <= k - 1) /\ ~(i < k)
          BY <1>2, <3>3
      <4> QED
          BY <3>1, <4>2, <4>3
    <3>4. i < k \/ i >= k
        BY <1>2
    <3> QED
        BY <3>2, <3>3, <3>4
  <2> QED
      BY <2>1, <2>2
<1> HIDE DEF t
<1>6. IsInjective(t)
  <2> DEFINE at(i) == IF i < k THEN i ELSE i + 1
  <2>1. ASSUME NEW i \in DOMAIN t
        PROVE  at(i) \in DOMAIN s /\ t[i] = s[at(i)]
    <3>1. CASE i < k
        BY <1>2, <1>5, <3>1
    <3>2. CASE ~(i < k)
        BY <1>2, <1>5, <3>2
    <3> QED
        BY <3>1, <3>2
  <2>2. ASSUME NEW i \in DOMAIN t, NEW j \in DOMAIN t, at(i) = at(j)
        PROVE  i = j
      BY <1>2, <1>5, <2>2
  <2> HIDE DEF at
  <2>3. ASSUME NEW i \in DOMAIN t, NEW j \in DOMAIN t, t[i] = t[j]
        PROVE  i = j
    <3>1. at(i) = at(j)
        BY <2>1, <2>3 DEF IsInjective
    <3> QED
        BY <2>2, <3>1
  <2> QED
      BY <2>3 DEF IsInjective
<1>7. ASSUME NEW x \in ToSet(t)
      PROVE  x \in ToSet(s) \ {e}
    BY <1>1, <1>2, <1>5, <1>7 DEF ToSet, IsInjective
<1>8. ASSUME NEW x \in ToSet(s) \ {e}
      PROVE  x \in ToSet(t)
  <2>1. PICK i \in DOMAIN s : x = s[i] /\ i # k
      BY <1>1, <1>8 DEF ToSet
  <2>2. CASE i < k
      BY <1>2, <1>5, <2>1, <2>2 DEF ToSet
  <2>3. CASE i > k
    <3>1. i - 1 \in DOMAIN t /\ t[i - 1] = s[i]
        BY <1>2, <1>5, <2>1, <2>3
    <3> QED
        BY <2>1, <3>1 DEF ToSet
  <2> QED
      BY <1>2, <2>1, <2>2, <2>3
<1>9. ToSet(t) = ToSet(s) \ {e}
    BY <1>7, <1>8
<1> QED
    BY <1>3, <1>5, <1>6, <1>9

(* Append of a new element keeps the elements distinct. *)
LEMMA AppendNew ==
    ASSUME NEW S, NEW s \in Seq(S), NEW e \in S, e \notin ToSet(s), IsInjective(s)
    PROVE  /\ Append(s, e) \in Seq(S)
           /\ ToSet(Append(s, e)) = ToSet(s) \cup {e}
           /\ IsInjective(Append(s, e))
<1> DEFINE t == Append(s, e)
<1>1. /\ t \in Seq(S) /\ DOMAIN s = 1..Len(s) /\ DOMAIN t = 1..(Len(s) + 1) /\ Len(s) \in Nat
      /\ \A i \in 1..Len(s) : t[i] = s[i]
      /\ t[Len(s) + 1] = e
    OBVIOUS
<1> HIDE DEF t
<1>2. \A i \in DOMAIN s : s[i] # e
    BY DEF ToSet
<1>3. IsInjective(t)
    BY <1>1, <1>2 DEF IsInjective
<1>4. ToSet(t) = ToSet(s) \cup {e}
    BY <1>1 DEF ToSet
<1> QED
    BY <1>1, <1>3, <1>4 DEF t

(* Tail takes out exactly the first element. *)
LEMMA TailOf ==
    ASSUME NEW S, NEW s \in Seq(S), s # <<>>, IsInjective(s)
    PROVE  /\ Tail(s) \in Seq(S) /\ s[1] \in ToSet(s)
           /\ ToSet(Tail(s)) = ToSet(s) \ {s[1]}
           /\ IsInjective(Tail(s))
<1> DEFINE t == Tail(s)
<1>1. /\ t \in Seq(S) /\ DOMAIN s = 1..Len(s) /\ DOMAIN t = 1..(Len(s) - 1)
      /\ Len(s) \in Nat /\ Len(s) # 0
      /\ \A i \in 1..(Len(s) - 1) : t[i] = s[i + 1]
    OBVIOUS
<1> HIDE DEF t
<1>2. ASSUME NEW i \in DOMAIN t, NEW j \in DOMAIN t, t[i] = t[j]
      PROVE  i = j
  <2>1. s[i + 1] = s[j + 1] /\ i + 1 \in DOMAIN s /\ j + 1 \in DOMAIN s
      BY <1>1, <1>2
  <2>2. i + 1 = j + 1
      BY <2>1 DEF IsInjective
  <2> QED
      BY <1>1, <2>2
<1>3. s[1] \in ToSet(s)
    BY <1>1 DEF ToSet
<1>4. ASSUME NEW x \in ToSet(t)
      PROVE  x \in ToSet(s) \ {s[1]}
    BY <1>1, <1>4 DEF ToSet, IsInjective
<1>5. ASSUME NEW x \in ToSet(s) \ {s[1]}
      PROVE  x \in ToSet(t)
  <2>1. PICK i \in DOMAIN s : x = s[i] /\ i # 1
      BY <1>5 DEF ToSet
  <2>2. i - 1 \in DOMAIN t /\ t[i - 1] = s[i]
      BY <1>1, <2>1
  <2> QED
      BY <2>1, <2>2 DEF ToSet
<1>6. ToSet(t) = ToSet(s) \ {s[1]}
    BY <1>4, <1>5
<1> QED
    BY <1>1, <1>2, <1>3, <1>6 DEF t, IsInjective

(* A sequence without duplicates is as long as the set of its elements.      *)
LEMMA DistinctLength ==
    ASSUME NEW S, NEW s \in Seq(S), IsInjective(s)
    PROVE  Len(s) = Cardinality(ToSet(s))
<1>1. s \in [1..Len(s) -> ToSet(s)] /\ Len(s) \in Nat
    BY DEF ToSet
<1>2. \A x \in ToSet(s) : \E i \in 1..Len(s) : s[i] = x
    BY DEF ToSet
<1>3. s \in Bijection(1..Len(s), ToSet(s))
    BY <1>1, <1>2 DEF Bijection, Injection, Surjection
<1> QED
    BY <1>1, <1>3, FS_CountingElements DEF ExistsBijection

(* Taking the head of one sequence to the end of another.                    *)
LEMMA MoveHead ==
    ASSUME NEW S, NEW s \in Seq(S), NEW t \in Seq(S), t # <<>>
    PROVE  /\ Append(s, Head(t)) \in Seq(S) /\ Tail(t) \in Seq(S)
           /\ Append(s, Head(t)) \o Tail(t) = s \o t
OBVIOUS

LEMMA ConcatAppend ==
    ASSUME NEW S, NEW s \in Seq(S), NEW t \in Seq(S), NEW x \in S
    PROVE  /\ s \o Append(t, x) = Append(s \o t, x)
           /\ Append(t, x) \in Seq(S) /\ s \o t \in Seq(S)
OBVIOUS

(* Both ends of a channel, by position.                                      *)
LEMMA AppendIndex ==
    ASSUME NEW S, NEW s \in Seq(S), NEW x \in S
    PROVE  /\ Len(Append(s, x)) = Len(s) + 1 /\ Append(s, x) \in Seq(S)
           /\ Append(s, x)[Len(s) + 1] = x
           /\ \A i \in 1..Len(s) : Append(s, x)[i] = s[i]
OBVIOUS

LEMMA TailIndex ==
    ASSUME NEW S, NEW s \in Seq(S), s # <<>>
    PROVE  /\ Tail(s) \in Seq(S) /\ Len(Tail(s)) = Len(s) - 1 /\ Len(s) \in Nat \ {0}
           /\ Head(s) = s[1] /\ \A i \in 1..Len(Tail(s)) : Tail(s)[i] = s[i + 1]
OBVIOUS
=============================================================================
