---------------------------- MODULE SequenceLemmas ----------------------------
(***************************************************************************)
(* What becomes of the elements of a sequence when it is appended to or    *)
(* loses some, for the queues and the lists of objects of the proofs.      *)
(***************************************************************************)
EXTENDS Queues, SequencesExt, SequenceTheorems, FiniteSetTheorems, NaturalsInduction, TLAPS

(* The elements of a queue. *)
LEMMA Elements ==
  ASSUME NEW S, NEW s \in Seq(S)
  PROVE  /\ ToSet(s) \subseteq S
         /\ s # <<>> => Head(s) \in S /\ Tail(s) \in Seq(S)
         /\ s # <<>> => ToSet(s) = ToSet(Tail(s)) \cup {Head(s)}
<1>1. DOMAIN s = 1..Len(s) /\ \A i \in 1..Len(s) : s[i] \in S
  BY LenProperties, ElementOfSeq
<1>2. ToSet(s) \subseteq S
  BY <1>1 DEF ToSet
<1>3. ASSUME s # <<>>
      PROVE  /\ Head(s) \in S /\ Tail(s) \in Seq(S)
             /\ ToSet(s) = ToSet(Tail(s)) \cup {Head(s)}
  <2>1. /\ Tail(s) \in Seq(S) /\ Head(s) = s[1]
        /\ DOMAIN s = 1..Len(s) /\ Len(s) \in Nat \ {0}
        /\ DOMAIN Tail(s) = 1..(Len(s) - 1)
        /\ \A k \in 1..(Len(s) - 1) : Tail(s)[k] = s[k + 1]
    BY <1>3, HeadTailProperties, LenProperties, EmptySeq
  <2>2. ToSet(Tail(s)) \subseteq ToSet(s) /\ Head(s) \in ToSet(s)
    BY <2>1 DEF ToSet
  <2>3. ASSUME NEW k \in DOMAIN s
        PROVE  s[k] = Head(s) \/ s[k] \in ToSet(Tail(s))
    <3>1. CASE k = 1
      BY <2>1, <3>1
    <3>2. CASE k # 1
      <4>1. k - 1 \in DOMAIN Tail(s) /\ Tail(s)[k - 1] = s[k]
        BY <2>1, <3>2
      <4> QED
        BY <4>1 DEF ToSet
    <3> QED
      BY <3>1, <3>2
  <2>4. ToSet(s) \subseteq ToSet(Tail(s)) \cup {Head(s)}
    BY <2>3 DEF ToSet
  <2> QED
    BY <1>2, <2>1, <2>2, <2>4 DEF ToSet
<1> QED
  BY <1>2, <1>3

LEMMA Appended ==
  ASSUME NEW S, NEW s \in Seq(S), NEW x \in S
  PROVE  Append(s, x) \in Seq(S) /\ ToSet(Append(s, x)) = ToSet(s) \cup {x}
<1>1. /\ Append(s, x) \in Seq(S)
      /\ DOMAIN s = 1..Len(s) /\ Len(s) \in Nat
      /\ DOMAIN Append(s, x) = 1..(Len(s) + 1)
      /\ \A k \in 1..Len(s) : Append(s, x)[k] = s[k]
      /\ Append(s, x)[Len(s) + 1] = x
  BY AppendProperties, LenProperties
<1>2. \A k \in DOMAIN Append(s, x) : k \in DOMAIN s \/ k = Len(s) + 1
  BY <1>1
<1>3. ToSet(Append(s, x)) \subseteq ToSet(s) \cup {x}
  BY <1>1, <1>2 DEF ToSet
<1>4. ToSet(s) \cup {x} \subseteq ToSet(Append(s, x))
  BY <1>1 DEF ToSet
<1> QED
  BY <1>1, <1>3, <1>4

(* A sequence without repetitions, and what a row more or less makes of it. *)
LEMMA AppendNew ==
  ASSUME NEW S, NEW s \in Seq(S), NEW x \in S, IsInjective(s), x \notin ToSet(s)
  PROVE  /\ Append(s, x) \in Seq(S)
         /\ IsInjective(Append(s, x))
         /\ ToSet(Append(s, x)) = ToSet(s) \cup {x}
<1>1. /\ Append(s, x) \in Seq(S)
      /\ DOMAIN Append(s, x) = 1..(Len(s) + 1)
      /\ \A i \in 1..Len(s) : Append(s, x)[i] = s[i]
      /\ Append(s, x)[Len(s) + 1] = x
      /\ DOMAIN s = 1..Len(s) /\ Len(s) \in Nat
  BY AppendProperties, LenProperties
<1>2. \A i \in 1..Len(s) : s[i] # x
  BY <1>1 DEF ToSet
<1>3. \A i \in 1..(Len(s) + 1) : i \in 1..Len(s) \/ i = Len(s) + 1
  BY <1>1
<1>4. IsInjective(Append(s, x))
  BY <1>1, <1>2, <1>3 DEF IsInjective
<1>5. ToSet(Append(s, x)) = ToSet(s) \cup {x}
  BY <1>1, <1>3 DEF ToSet
<1> QED
  BY <1>1, <1>4, <1>5

LEMMA RemoveAny ==
  ASSUME NEW S, NEW s \in Seq(S), NEW n \in DOMAIN s
  PROVE  /\ RemoveAt(s, n) \in Seq(S)
         /\ Len(RemoveAt(s, n)) = Len(s) - 1
         /\ \A i \in 1..(Len(s) - 1) : RemoveAt(s, n)[i] = IF i < n THEN s[i] ELSE s[i + 1]
<1>1. DOMAIN s = 1..Len(s) /\ Len(s) \in Nat /\ s \in [1..Len(s) -> S]
  BY LenProperties
<1> DEFINE a == SubSeq(s, 1, n - 1)
           b == SubSeq(s, n + 1, Len(s))
<1>2. /\ a \in Seq(S) /\ Len(a) = n - 1
      /\ \A i \in 1..(n - 1) : a[i] = s[i]
  <2>1. \A i \in 1..(n - 1) : s[i] \in S
    BY <1>1
  <2> QED
    BY <1>1, <2>1
<1>3. /\ b \in Seq(S) /\ Len(b) = Len(s) - n
      /\ \A i \in 1..(Len(s) - n) : b[i] = s[n + i]
  <2>1. \A i \in (n + 1)..Len(s) : s[i] \in S
    BY <1>1
  <2>2. /\ b \in Seq(S)
        /\ Len(b) = IF n + 1 <= Len(s) THEN Len(s) - (n + 1) + 1 ELSE 0
        /\ \A i \in 1..(Len(s) - (n + 1) + 1) : b[i] = s[(n + 1) + i - 1]
    BY <1>1, <2>1, SubSeqProperties
  <2> HIDE DEF b
  <2>3. ASSUME NEW i \in 1..(Len(s) - n)
        PROVE  b[i] = s[n + i]
    <3>1. i \in 1..(Len(s) - (n + 1) + 1) /\ (n + 1) + i - 1 = n + i
      BY <1>1
    <3> QED
      BY <2>2, <3>1
  <2>4. Len(b) = Len(s) - n
    BY <1>1, <2>2
  <2> QED
    BY <2>2, <2>3, <2>4
<1>4. RemoveAt(s, n) = a \o b
  BY DEF RemoveAt
<1> HIDE DEF a, b
<1>5. /\ a \o b \in Seq(S)
      /\ Len(a \o b) = Len(a) + Len(b)
      /\ \A i \in 1..(Len(a) + Len(b)) :
           (a \o b)[i] = IF i <= Len(a) THEN a[i] ELSE b[i - Len(a)]
  BY <1>2, <1>3, ConcatProperties
<1>6. Len(a) + Len(b) = Len(s) - 1
  BY <1>1, <1>2, <1>3
<1>7. ASSUME NEW i \in 1..(Len(s) - 1)
      PROVE  (a \o b)[i] = IF i < n THEN s[i] ELSE s[i + 1]
  <2>1. (a \o b)[i] = IF i <= n - 1 THEN a[i] ELSE b[i - (n - 1)]
    BY <1>2, <1>5, <1>6
  <2>2. CASE i < n
    BY <1>1, <1>2, <2>1, <2>2
  <2>3. CASE ~(i < n)
    <3>1. i - (n - 1) \in 1..(Len(s) - n) /\ n + (i - (n - 1)) = i + 1 /\ ~(i <= n - 1)
      BY <1>1, <2>3
    <3> QED
      BY <1>3, <2>1, <2>3, <3>1
  <2> QED
    BY <2>2, <2>3
<1> QED
  BY <1>4, <1>5, <1>6, <1>7

LEMMA RemoveOne ==
  ASSUME NEW S, NEW s \in Seq(S), NEW n \in DOMAIN s, IsInjective(s)
  PROVE  /\ RemoveAt(s, n) \in Seq(S)
         /\ IsInjective(RemoveAt(s, n))
         /\ ToSet(RemoveAt(s, n)) = ToSet(s) \ {s[n]}
<1>1. DOMAIN s = 1..Len(s) /\ Len(s) \in Nat
  BY LenProperties
<1> DEFINE r == RemoveAt(s, n)
<1>6. DOMAIN r = 1..(Len(s) - 1) /\ \A i \in DOMAIN r : r[i] = IF i < n THEN s[i] ELSE s[i + 1]
  BY RemoveAny, LenProperties
<1>7. r \in Seq(S)
  BY RemoveAny
<1> HIDE DEF r
<1>8. IsInjective(r)
  BY <1>1, <1>6 DEF IsInjective
<1>9. ToSet(r) \subseteq ToSet(s) \ {s[n]}
  BY <1>1, <1>6 DEF ToSet, IsInjective
<1>10. ToSet(s) \ {s[n]} \subseteq ToSet(r)
  <2> SUFFICES ASSUME NEW k \in 1..Len(s), s[k] # s[n]
               PROVE  s[k] \in ToSet(r)
    BY <1>1 DEF ToSet
  <2>1. CASE k < n
    BY <1>1, <1>6, <2>1 DEF ToSet
  <2>2. CASE k > n
    <3>1. k - 1 \in DOMAIN r /\ r[k - 1] = s[k]
      BY <1>1, <1>6, <2>2
    <3> QED
      BY <3>1 DEF ToSet
  <2> QED
    BY <1>1, <2>1, <2>2
<1> QED
  BY <1>7, <1>8, <1>9, <1>10 DEF r

LEMMA Concatenated ==
  ASSUME NEW S, NEW s \in Seq(S), NEW t \in Seq(S)
  PROVE  s \o t \in Seq(S) /\ ToSet(s \o t) = ToSet(s) \cup ToSet(t)
<1>1. /\ s \o t \in Seq(S) /\ Len(s) \in Nat /\ Len(t) \in Nat
      /\ DOMAIN s = 1..Len(s) /\ DOMAIN t = 1..Len(t)
      /\ DOMAIN (s \o t) = 1..(Len(s) + Len(t))
      /\ \A i \in 1..(Len(s) + Len(t)) : (s \o t)[i] = IF i <= Len(s) THEN s[i] ELSE t[i - Len(s)]
  BY ConcatProperties, LenProperties
<1>2. ToSet(s \o t) \subseteq ToSet(s) \cup ToSet(t)
  <2> SUFFICES ASSUME NEW i \in 1..(Len(s) + Len(t))
               PROVE  (s \o t)[i] \in ToSet(s) \cup ToSet(t)
    BY <1>1 DEF ToSet
  <2>1. CASE i <= Len(s)
    BY <1>1, <2>1 DEF ToSet
  <2>2. CASE ~(i <= Len(s))
    <3>1. i - Len(s) \in DOMAIN t /\ (s \o t)[i] = t[i - Len(s)]
      BY <1>1, <2>2
    <3> QED
      BY <3>1 DEF ToSet
  <2> QED
    BY <2>1, <2>2
<1>3. ToSet(s) \subseteq ToSet(s \o t)
  <2> SUFFICES ASSUME NEW i \in 1..Len(s)
               PROVE  s[i] \in ToSet(s \o t)
    BY <1>1 DEF ToSet
  <2>1. i \in 1..(Len(s) + Len(t)) /\ i <= Len(s)
    BY <1>1
  <2>2. (s \o t)[i] = s[i]
    BY <1>1, <2>1
  <2> QED
    BY <1>1, <2>1, <2>2 DEF ToSet
<1>4. ToSet(t) \subseteq ToSet(s \o t)
  <2> SUFFICES ASSUME NEW i \in 1..Len(t)
               PROVE  t[i] \in ToSet(s \o t)
    BY <1>1 DEF ToSet
  <2>1. i + Len(s) \in 1..(Len(s) + Len(t)) /\ ~(i + Len(s) <= Len(s)) /\ (i + Len(s)) - Len(s) = i
    BY <1>1
  <2>2. (s \o t)[i + Len(s)] = t[i]
    BY <1>1, <2>1
  <2> QED
    BY <1>1, <2>1, <2>2 DEF ToSet
<1> QED
  BY <1>1, <1>2, <1>3, <1>4

(* The head of one queue is put at the end of another. *)
LEMMA HeadToLast ==
  ASSUME NEW S, NEW s \in Seq(S), NEW t \in Seq(S), t # <<>>
  PROVE  Append(s, Head(t)) \o Tail(t) = s \o t
<1>1. /\ Head(t) = t[1] /\ Head(t) \in S /\ Tail(t) \in Seq(S)
      /\ Len(t) \in Nat \ {0} /\ Len(Tail(t)) = Len(t) - 1
      /\ \A k \in 1..(Len(t) - 1) : Tail(t)[k] = t[k + 1]
      /\ Len(s) \in Nat
  BY HeadTailProperties, LenProperties, EmptySeq
<1> DEFINE a == Append(s, Head(t))
<1>2. /\ a \in Seq(S) /\ Len(a) = Len(s) + 1
      /\ \A i \in 1..Len(s) : a[i] = s[i]
      /\ a[Len(s) + 1] = t[1]
  BY <1>1, AppendProperties
<1> HIDE DEF a
<1>3. /\ s \o t \in Seq(S) /\ Len(s \o t) = Len(s) + Len(t)
      /\ \A i \in 1..(Len(s) + Len(t)) : (s \o t)[i] = IF i <= Len(s) THEN s[i] ELSE t[i - Len(s)]
  BY ConcatProperties
<1>4. /\ a \o Tail(t) \in Seq(S) /\ Len(a \o Tail(t)) = Len(a) + Len(Tail(t))
      /\ \A i \in 1..(Len(a) + Len(Tail(t))) :
           (a \o Tail(t))[i] = IF i <= Len(a) THEN a[i] ELSE Tail(t)[i - Len(a)]
  BY <1>1, <1>2, ConcatProperties
<1>5. Len(a \o Tail(t)) = Len(s \o t)
  BY <1>1, <1>2, <1>3, <1>4
<1>6. ASSUME NEW i \in 1..(Len(s) + Len(t))
      PROVE  (a \o Tail(t))[i] = (s \o t)[i]
  <2>1. i \in 1..(Len(a) + Len(Tail(t)))
    BY <1>1, <1>2
  <2>2. CASE i <= Len(s)
    BY <1>1, <1>2, <1>3, <1>4, <2>1, <2>2
  <2>3. CASE i = Len(s) + 1
    <3>1. i <= Len(a) /\ ~(i <= Len(s)) /\ i - Len(s) = 1
      BY <1>1, <1>2, <2>3
    <3>2. (a \o Tail(t))[i] = a[i] /\ a[i] = t[1]
      BY <1>2, <1>4, <2>1, <2>3, <3>1
    <3>3. (s \o t)[i] = t[1]
      BY <1>3, <3>1
    <3> QED
      BY <3>2, <3>3
  <2>4. CASE i > Len(s) + 1
    <3>1. /\ ~(i <= Len(a)) /\ i - Len(a) \in 1..(Len(t) - 1)
          /\ (i - Len(a)) + 1 = i - Len(s) /\ ~(i <= Len(s))
      BY <1>1, <1>2, <2>4
    <3>2. (a \o Tail(t))[i] = Tail(t)[i - Len(a)]
      BY <1>4, <2>1, <3>1
    <3>3. (s \o t)[i] = t[i - Len(s)]
      BY <1>3, <3>1
    <3>4. Tail(t)[i - Len(a)] = t[(i - Len(a)) + 1]
      BY <1>1, <3>1
    <3> QED
      BY <3>1, <3>2, <3>3, <3>4
  <2>5. i \in Int /\ Len(s) \in Int
    BY <1>1
  <2>6. i <= Len(s) \/ i = Len(s) + 1 \/ i > Len(s) + 1
    BY <2>5
  <2> QED
    BY <2>2, <2>3, <2>4, <2>6
<1>7. a \o Tail(t) = s \o t
  BY <1>1, <1>3, <1>4, <1>5, <1>6, SeqEqual
<1> QED
  BY <1>7 DEF a

(* What is appended to the second of two is appended to both. *)
LEMMA AppendedBeyond ==
  ASSUME NEW S, NEW s \in Seq(S), NEW t \in Seq(S), NEW x \in S
  PROVE  s \o Append(t, x) = Append(s \o t, x)
<1> DEFINE a == Append(t, x)
           c == s \o t
<1>1. /\ a \in Seq(S) /\ Len(a) = Len(t) + 1
      /\ \A i \in 1..Len(t) : a[i] = t[i]
      /\ a[Len(t) + 1] = x
      /\ Len(s) \in Nat /\ Len(t) \in Nat
  BY AppendProperties, LenProperties
<1>2. /\ c \in Seq(S) /\ Len(c) = Len(s) + Len(t)
      /\ \A i \in 1..(Len(s) + Len(t)) : c[i] = IF i <= Len(s) THEN s[i] ELSE t[i - Len(s)]
  BY ConcatProperties
<1> HIDE DEF a, c
<1>3. /\ s \o a \in Seq(S) /\ Len(s \o a) = Len(s) + Len(a)
      /\ \A i \in 1..(Len(s) + Len(a)) : (s \o a)[i] = IF i <= Len(s) THEN s[i] ELSE a[i - Len(s)]
  BY <1>1, ConcatProperties
<1>4. /\ Append(c, x) \in Seq(S) /\ Len(Append(c, x)) = Len(c) + 1
      /\ \A i \in 1..Len(c) : Append(c, x)[i] = c[i]
      /\ Append(c, x)[Len(c) + 1] = x
  BY <1>2, AppendProperties
<1>5. ASSUME NEW i \in 1..(Len(s) + Len(a))
      PROVE  (s \o a)[i] = Append(c, x)[i]
  <2>1. CASE i = Len(c) + 1
    <3>1. ~(i <= Len(s)) /\ i - Len(s) = Len(t) + 1
      BY <1>1, <1>2, <2>1
    <3> QED
      BY <1>1, <1>3, <1>4, <2>1, <3>1
  <2>2. CASE i <= Len(c)
    <3>1. i \in 1..Len(c) /\ i \in 1..(Len(s) + Len(t))
      BY <1>1, <1>2, <2>2
    <3>2. CASE i <= Len(s)
      BY <1>2, <1>3, <1>4, <3>1, <3>2
    <3>3. CASE ~(i <= Len(s))
      <4>1. i - Len(s) \in 1..Len(t)
        BY <1>1, <1>2, <3>1, <3>3
      <4> QED
        BY <1>1, <1>2, <1>3, <1>4, <3>1, <3>3, <4>1
    <3> QED
      BY <3>2, <3>3
  <2>3. i <= Len(c) \/ i = Len(c) + 1
    BY <1>1, <1>2
  <2> QED
    BY <2>1, <2>2, <2>3
<1>6. Len(s \o a) = Len(Append(c, x)) /\ Len(s \o a) = Len(s) + Len(a)
  BY <1>1, <1>2, <1>3, <1>4
<1>7. s \o a = Append(c, x)
  BY <1>3, <1>4, <1>5, <1>6, SeqEqual
<1> QED
  BY <1>7 DEF a, c

(* The first of two sequences is the one that is taken from. *)
LEMMA HeadOfBoth ==
  ASSUME NEW S, NEW s \in Seq(S), NEW t \in Seq(S), s # <<>>
  PROVE  s \o t # <<>> /\ Head(s \o t) = Head(s) /\ Tail(s \o t) = Tail(s) \o t
<1> DEFINE a == Tail(s)
           c == s \o t
<1>1. /\ a \in Seq(S) /\ Len(a) = Len(s) - 1 /\ Head(s) = s[1]
      /\ \A i \in 1..(Len(s) - 1) : a[i] = s[i + 1]
      /\ Len(s) \in Nat \ {0} /\ Len(t) \in Nat
  BY HeadTailProperties, LenProperties, EmptySeq
<1>2. /\ c \in Seq(S) /\ Len(c) = Len(s) + Len(t)
      /\ \A i \in 1..(Len(s) + Len(t)) : c[i] = IF i <= Len(s) THEN s[i] ELSE t[i - Len(s)]
  BY ConcatProperties
<1> HIDE DEF a, c
<1>3. /\ a \o t \in Seq(S) /\ Len(a \o t) = Len(a) + Len(t)
      /\ \A i \in 1..(Len(a) + Len(t)) : (a \o t)[i] = IF i <= Len(a) THEN a[i] ELSE t[i - Len(a)]
  BY <1>1, ConcatProperties
<1>4. c # <<>>
  <2>1. Len(c) # 0
    BY <1>1, <1>2
  <2>2. Len(<<>>) = 0
    BY EmptySeq
  <2> QED
    BY <2>1, <2>2
<1>5. /\ Tail(c) \in Seq(S) /\ Len(Tail(c)) = Len(c) - 1 /\ Head(c) = c[1]
      /\ \A i \in 1..(Len(c) - 1) : Tail(c)[i] = c[i + 1]
  BY <1>2, <1>4, HeadTailProperties
<1>6. ASSUME NEW i \in 1..(Len(a) + Len(t))
      PROVE  (a \o t)[i] = Tail(c)[i]
  <2>1. i \in 1..(Len(c) - 1) /\ i + 1 \in 1..(Len(s) + Len(t))
    BY <1>1, <1>2
  <2>2. CASE i <= Len(a)
    <3>1. i + 1 <= Len(s) /\ i \in 1..(Len(s) - 1)
      BY <1>1, <2>2
    <3> QED
      BY <1>1, <1>2, <1>3, <1>5, <2>1, <2>2, <3>1
  <2>3. CASE ~(i <= Len(a))
    <3>1. ~(i + 1 <= Len(s)) /\ i - Len(a) = (i + 1) - Len(s)
      BY <1>1, <2>3
    <3>2. (a \o t)[i] = t[i - Len(a)]
      BY <1>3, <1>6, <2>3
    <3>3. Tail(c)[i] = c[i + 1] /\ c[i + 1] = t[(i + 1) - Len(s)]
      BY <1>2, <1>5, <2>1, <3>1
    <3> QED
      BY <3>1, <3>2, <3>3
  <2> QED
    BY <2>2, <2>3
<1>7. Len(a \o t) = Len(Tail(c)) /\ Len(a \o t) = Len(a) + Len(t)
  BY <1>1, <1>2, <1>3, <1>5
<1>8. a \o t = Tail(c)
  <2> DEFINE v == a \o t
             w == Tail(c)
  <2>1. v \in Seq(S)
    BY <1>3, Zenon
  <2>2. w \in Seq(S)
    BY <1>5, Zenon
  <2>3. Len(v) = Len(w) /\ \A i \in 1..Len(v) : v[i] = w[i]
    BY <1>6, <1>7, Zenon
  <2> HIDE DEF v, w
  <2>4. v = w
    BY <2>1, <2>2, <2>3, SeqEqual
  <2> QED
    BY <2>4 DEF v, w
<1>9. c[1] = s[1]
  <2>1. 1 \in 1..(Len(s) + Len(t)) /\ 1 <= Len(s)
    BY <1>1
  <2> QED
    BY <1>2, <2>1
<1> QED
  BY <1>1, <1>4, <1>5, <1>8, <1>9 DEF a, c

(* What is taken from a sequence moves what is after it. *)
LEMMA RemoveMoves ==
  ASSUME NEW S, NEW s \in Seq(S), NEW n \in DOMAIN s
  PROVE  /\ RemoveAt(s, n) \in Seq(S) /\ DOMAIN RemoveAt(s, n) \subseteq Nat
         /\ \A i \in DOMAIN RemoveAt(s, n) :
              \E j \in DOMAIN s : /\ j # n /\ RemoveAt(s, n)[i] = s[j]
                                  /\ j = IF i < n THEN i ELSE i + 1
         /\ \A j \in DOMAIN s : j # n =>
              \E i \in DOMAIN RemoveAt(s, n) : /\ RemoveAt(s, n)[i] = s[j]
                                               /\ i = IF j < n THEN j ELSE j - 1
<1> DEFINE q == RemoveAt(s, n)
<1>1. /\ q \in Seq(S) /\ Len(q) = Len(s) - 1
      /\ \A i \in 1..(Len(s) - 1) : q[i] = IF i < n THEN s[i] ELSE s[i + 1]
  BY RemoveAny
<1> HIDE DEF q
<1>2. /\ DOMAIN s = 1..Len(s) /\ Len(s) \in Nat /\ DOMAIN q = 1..(Len(s) - 1) /\ n \in 1..Len(s)
  BY <1>1, LenProperties
<1>3. ASSUME NEW i \in DOMAIN q
      PROVE  \E j \in DOMAIN s : j # n /\ q[i] = s[j] /\ j = IF i < n THEN i ELSE i + 1
  <2>1. CASE i < n
    <3>1. i \in DOMAIN s /\ i # n /\ q[i] = s[i]
      BY <1>1, <1>2, <2>1
    <3> QED
      BY <2>1, <3>1
  <2>2. CASE ~(i < n)
    <3>1. i + 1 \in DOMAIN s /\ i + 1 # n /\ q[i] = s[i + 1]
      BY <1>1, <1>2, <2>2
    <3> QED
      BY <2>2, <3>1
  <2> QED
    BY <2>1, <2>2
<1>4. ASSUME NEW j \in DOMAIN s, j # n
      PROVE  \E i \in DOMAIN q : q[i] = s[j] /\ i = IF j < n THEN j ELSE j - 1
  <2>1. CASE j < n
    <3>1. j \in DOMAIN q /\ q[j] = s[j]
      BY <1>1, <1>2, <2>1
    <3> QED
      BY <2>1, <3>1
  <2>2. CASE ~(j < n)
    <3>1. j - 1 \in DOMAIN q /\ ~(j - 1 < n) /\ (j - 1) + 1 = j
      BY <1>2, <1>4, <2>2
    <3>2. q[j - 1] = s[j]
      BY <1>1, <1>2, <3>1
    <3> QED
      BY <2>2, <3>1, <3>2
  <2> QED
    BY <2>1, <2>2
<1>5. DOMAIN q \subseteq Nat
  BY <1>2
<1> QED
  BY <1>1, <1>3, <1>4, <1>5 DEF q

(* RemoveAll is what its recursive function says, for every length. *)
IsKept(seq, os, n, f) ==
  f = [i \in 0..n |-> IF i = 0 THEN <<>>
                      ELSE IF seq[i] \in os THEN f[i - 1] ELSE Append(f[i - 1], seq[i])]

Less == {ss \in Nat \X Nat : ss[1] < ss[2]}

LEMMA LeastNumber ==
  ASSUME NEW T \in SUBSET Nat, T # {}
  PROVE  \E x \in T : \A y \in T : x <= y
<1>1. IsWellFoundedOn(Less, Nat)
  BY NatLessThanWellFounded DEF OpToRel, Less
<1>2. PICK x \in T : \A y \in T : ~(<<y, x>> \in Less)
  BY <1>1, WFMin
<1>3. ASSUME NEW y \in T
      PROVE  x <= y
  <2>1. x \in Nat /\ y \in Nat
    OBVIOUS
  <2>2. ~(y < x)
    BY <1>2, <2>1 DEF Less
  <2> QED
    BY <2>1, <2>2
<1> QED
  BY <1>3

LEMMA KeptExists ==
  ASSUME NEW seq, NEW os, NEW n \in Nat
  PROVE  \E f : IsKept(seq, os, n, f)
<1> DEFINE T == {m \in Nat : ~ \E f : IsKept(seq, os, m, f)}
<1>1. SUFFICES T = {}
  OBVIOUS
<1>2. SUFFICES ASSUME T # {} PROVE FALSE
  OBVIOUS
<1>3. PICK m \in T : \A y \in T : m <= y
  BY <1>2, LeastNumber
<1>4. CASE m = 0
  <2> DEFINE f == [i \in 0..0 |-> <<>>]
  <2>1. IsKept(seq, os, 0, f)
    BY DEF IsKept
  <2> QED
    BY <1>3, <1>4, <2>1
<1>5. CASE m # 0
  <2>1. m - 1 \in Nat /\ m - 1 \notin T
    BY <1>3, <1>5
  <2>2. PICK f : IsKept(seq, os, m - 1, f)
    BY <2>1
  <2> DEFINE last == IF seq[m] \in os THEN f[m - 1] ELSE Append(f[m - 1], seq[m])
             g == [i \in 0..m |-> IF i = m THEN last ELSE f[i]]
             step(h, i) == IF i = 0 THEN <<>>
                           ELSE IF seq[i] \in os THEN h[i - 1] ELSE Append(h[i - 1], seq[i])
  <2>3. \A i \in 0..(m - 1) : f[i] = step(f, i)
    BY <2>2, Zenon DEF IsKept
  <2>4. ASSUME NEW i \in 0..m
        PROVE  g[i] = step(g, i)
    <3>1. CASE i = m
      BY <3>1, <1>5, <1>3
    <3>2. CASE i # m
      <4>1. i \in 0..(m - 1) /\ (i # 0 => i - 1 \in 0..m /\ i - 1 # m)
        BY <3>2, <1>3
      <4> QED
        BY <4>1, <2>3, <3>2
    <3> QED
      BY <3>1, <3>2
  <2>5. g = [i \in 0..m |-> step(g, i)]
    <3> DEFINE h == [i \in 0..m |-> step(g, i)]
    <3>1. \A i \in 0..m : g[i] = h[i]
      BY <2>4
    <3>2. DOMAIN g = 0..m /\ DOMAIN h = 0..m
      OBVIOUS
    <3> HIDE DEF step
    <3> QED
      BY <3>1, <3>2, Zenon
  <2>6. IsKept(seq, os, m, g)
    BY <2>5, Zenon DEF IsKept
  <2> QED
    BY <2>6, <1>3
<1> QED
  BY <1>4, <1>5

LEMMA RemovedIsKept ==
  ASSUME NEW seq, NEW os, Len(seq) \in Nat
  PROVE  \E f : IsKept(seq, os, Len(seq), f) /\ RemoveAll(seq, os) = f[Len(seq)]
<1> DEFINE f0 == CHOOSE f :
             f = [i \in 0..Len(seq) |->
                   IF i = 0 THEN <<>>
                   ELSE IF seq[i] \in os THEN f[i - 1] ELSE Append(f[i - 1], seq[i])]
<1>1. RemoveAll(seq, os) = f0[Len(seq)]
  BY Zenon DEF RemoveAll
<1>2. \E f : IsKept(seq, os, Len(seq), f)
  BY KeptExists
<1>3. IsKept(seq, os, Len(seq), f0)
  BY <1>2, Zenon DEF IsKept
<1> QED
  BY <1>1, <1>3

(* What is left has the elements that are not taken out, and has each as   *)
(* often as before.                                                        *)
LEMMA RemoveAllProperties ==
  ASSUME NEW S, NEW seq \in Seq(S), NEW os
  PROVE  /\ RemoveAll(seq, os) \in Seq(S)
         /\ Range(RemoveAll(seq, os)) = Range(seq) \ os
         /\ IsInjective(seq) => IsInjective(RemoveAll(seq, os))
<1> DEFINE Left(s, i) ==
             /\ s \in Seq(S)
             /\ \A x : x \in Range(s) <=> x \notin os /\ \E j \in 1..i : seq[j] = x
             /\ IsInjective(seq) => IsInjective(s)
<1>1. Len(seq) \in Nat /\ DOMAIN seq = 1..Len(seq) /\ \A i \in 1..Len(seq) : seq[i] \in S
  BY LenProperties, ElementOfSeq
<1>2. PICK f : IsKept(seq, os, Len(seq), f) /\ RemoveAll(seq, os) = f[Len(seq)]
  BY <1>1, RemovedIsKept
<1>3. /\ f[0] = <<>>
      /\ \A i \in 1..Len(seq) :
           f[i] = IF seq[i] \in os THEN f[i - 1] ELSE Append(f[i - 1], seq[i])
  <2>1. /\ f[0] = IF 0 = 0 THEN <<>>
                  ELSE IF seq[0] \in os THEN f[0 - 1] ELSE Append(f[0 - 1], seq[0])
        /\ \A i \in 1..Len(seq) : i \in 0..Len(seq) /\ i # 0
    BY <1>1, <1>2 DEF IsKept
  <2> QED
    BY <1>2, <2>1, Zenon DEF IsKept
<1>4. Left(<<>>, 0)
  <2>1. <<>> \in Seq(S) /\ DOMAIN <<>> = {}
    OBVIOUS
  <2> QED
    BY <2>1 DEF Range, IsInjective
<1>5. ASSUME NEW i \in 1..Len(seq), NEW s, Left(s, i - 1)
      PROVE  Left(IF seq[i] \in os THEN s ELSE Append(s, seq[i]), i)
  <2>1. \A x : (\E j \in 1..i : seq[j] = x) <=> (\E j \in 1..(i - 1) : seq[j] = x) \/ seq[i] = x
    BY <1>1
  <2>2. CASE seq[i] \in os
    BY <1>5, <2>1, <2>2
  <2>3. CASE seq[i] \notin os
    <3>1. /\ Append(s, seq[i]) \in Seq(S) /\ Len(s) \in Nat /\ DOMAIN s = 1..Len(s)
          /\ DOMAIN Append(s, seq[i]) = 1..(Len(s) + 1)
          /\ Append(s, seq[i])[Len(s) + 1] = seq[i]
          /\ \A n \in 1..Len(s) : Append(s, seq[i])[n] = s[n]
      BY <1>1, <1>5, AppendProperties, LenProperties
    <3>2. \A x : x \in Range(Append(s, seq[i])) <=> x \in Range(s) \/ x = seq[i]
      BY <3>1 DEF Range
    <3>3. IsInjective(seq) => IsInjective(Append(s, seq[i]))
      <4> SUFFICES ASSUME IsInjective(seq) PROVE IsInjective(Append(s, seq[i]))
        OBVIOUS
      <4>1. IsInjective(s)
        BY <1>5
      <4>2. \A j \in 1..(i - 1) : seq[j] # seq[i]
        BY <1>1 DEF IsInjective
      <4>3. \A n \in 1..Len(s) : s[n] # seq[i]
        <5>1. seq[i] \notin Range(s)
          BY <1>5, <4>2
        <5> QED
          BY <3>1, <5>1 DEF Range
      <4> QED
        BY <3>1, <4>1, <4>3 DEF IsInjective
    <3>4. \A x : x \in Range(Append(s, seq[i])) <=> x \notin os /\ \E j \in 1..i : seq[j] = x
      BY <1>5, <2>1, <2>3, <3>2
    <3> QED
      BY <2>3, <3>1, <3>3, <3>4
  <2> QED
    BY <2>2, <2>3
<1>6. \A i \in 0..Len(seq) : Left(f[i], i)
  <2> HIDE DEF Left
  <2> DEFINE T == {i \in 0..Len(seq) : ~Left(f[i], i)}
  <2>1. SUFFICES ASSUME T # {} PROVE FALSE
    OBVIOUS
  <2>2. T \subseteq Nat
    BY <1>1
  <2>3. PICK i \in T : \A y \in T : i <= y
    BY <2>1, <2>2, LeastNumber
  <2>4. i # 0
    BY <1>3, <1>4, <2>3
  <2>5. i \in 1..Len(seq) /\ i - 1 \in 0..Len(seq) /\ i - 1 \notin T
    BY <1>1, <2>3, <2>4
  <2>6. Left(f[i - 1], i - 1)
    BY <2>5
  <2>7. Left(f[i], i)
    BY <1>3, <1>5, <2>5, <2>6
  <2> QED
    BY <2>3, <2>7
<1>7. Left(f[Len(seq)], Len(seq))
  <2> HIDE DEF Left
  <2> QED
    BY <1>1, <1>6
<1> QED
  BY <1>1, <1>2, <1>7 DEF Range

(* The elements of a finite set, in some order. *)
LEMMA SetInOrder ==
  ASSUME NEW S, IsFiniteSet(S)
  PROVE  /\ SetToSeq(S) \in Seq(S)
         /\ Range(SetToSeq(S)) = S
<1> DEFINE n == Cardinality(S)
           f == SetToSeq(S)
<1>1. n \in Nat /\ \E g : g \in Bijection(1..n, S)
  BY FS_CardinalityType DEF ExistsBijection
<1>2. f \in Injection(1..n, S)
  <2>1. \E g \in [1..n -> S] : IsInjective(g)
    BY <1>1, Zenon DEF Bijection, Injection
  <2>2. f = CHOOSE g \in [1..n -> S] : IsInjective(g)
    BY Zenon DEF SetToSeq
  <2> QED
    BY <2>1, <2>2, Zenon DEF Injection
<1>3. Cardinality(1..n) = n
  BY <1>1, FS_Interval
<1> HIDE DEF n, f
<1>4. f \in Surjection(1..n, S)
  BY <1>2, <1>3, FS_Injection DEF n
<1>5. f \in [1..n -> S] /\ \A x \in S : \E i \in 1..n : f[i] = x
  BY <1>4 DEF Surjection
<1>6. f \in Seq(S) /\ Range(f) = S
  BY <1>1, <1>5, IsASeq DEF Range
<1> QED
  BY <1>6 DEF f
===============================================================================
