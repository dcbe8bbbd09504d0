--------------------------- MODULE SequenceLemmas ---------------------------
(***************************************************************************)
(* What Append, Front, Tail, a repeated Append and Select do to a sequence:*)
(* its type, its length, its elements one by one and the set of them; and  *)
(* that a set of numbers has a least element, which stands in for          *)
(* induction.                                                              *)
(***************************************************************************)
EXTENDS Integers, Positions, SequencesExt, SequenceTheorems, FiniteSetTheorems, TLAPS

\* Every set of natural numbers has a least element: of the intervals up to its
\* elements, one contains no other.
LEMMA LeastElement ==
  ASSUME NEW T \in SUBSET Nat, T # {}
  PROVE  \E t \in T : \A u \in T : t <= u
  <1> DEFINE I == {0..t : t \in T}
             R == StrictSubsetOrdering(Nat)
  <1>1. I # {} /\ I \subseteq FiniteSubsetsOf(Nat)
    <2>1. \A t \in T : 0..t \in SUBSET Nat
      OBVIOUS
    <2>2. \A t \in T : IsFiniteSet(0..t)
      BY FS_Interval
    <2> QED
      BY <2>1, <2>2 DEF FiniteSubsetsOf
  <1>2. PICK i \in I : \A j \in I : <<j, i>> \notin R
    BY <1>1, WFMin, FS_StrictSubsetOrderingWellFounded
  <1>3. PICK t \in T : i = 0..t
    BY <1>2
  <1>4. ASSUME NEW u \in T PROVE t <= u
    <2>1. CASE u < t
      <3>1. 0..u \in SUBSET Nat /\ 0..t \in SUBSET Nat
        OBVIOUS
      <3>2. 0..u \subseteq 0..t /\ 0..u # 0..t
        BY <2>1
      <3>3. <<0..u, 0..t>> \in R
        BY <3>1, <3>2 DEF StrictSubsetOrdering
      <3> QED
        BY <3>3, <1>2, <1>3
    <2> QED
      BY <2>1
  <1> QED
    BY <1>4

LEMMA ToSetOfSeq ==
  ASSUME NEW S, NEW s \in Seq(S)
  PROVE  /\ Len(s) \in Nat
         /\ DOMAIN s = 1..Len(s)
         /\ ToSet(s) = {s[i] : i \in 1..Len(s)}
         /\ ToSet(s) \subseteq S
  <1>1. /\ Len(s) \in Nat
        /\ DOMAIN s = 1..Len(s)
        /\ \A i \in 1..Len(s) : s[i] \in S
    BY LenProperties
  <1> QED
    BY <1>1 DEF ToSet

LEMMA AppendFacts ==
  ASSUME NEW S, NEW s \in Seq(S), NEW e \in S
  PROVE  /\ Append(s, e) \in Seq(S)
         /\ Len(Append(s, e)) = Len(s) + 1
         /\ \A i \in 1..Len(s) : Append(s, e)[i] = s[i]
         /\ Append(s, e)[Len(s) + 1] = e
         /\ ToSet(Append(s, e)) = ToSet(s) \cup {e}
  <1> DEFINE t == Append(s, e)
  <1>1. /\ t \in Seq(S) /\ Len(t) = Len(s) + 1
        /\ \A i \in 1..Len(s) : t[i] = s[i]
        /\ t[Len(s) + 1] = e
    BY AppendProperties
  <1>2. Len(s) \in Nat /\ ToSet(s) = {s[i] : i \in 1..Len(s)}
    BY ToSetOfSeq
  <1>3. ToSet(t) = {t[i] : i \in 1..Len(t)}
    BY <1>1, ToSetOfSeq
  <1>4. 1..(Len(s) + 1) = (1..Len(s)) \cup {Len(s) + 1}
    BY <1>2
  <1> HIDE DEF t
  <1>5. ToSet(t) = ToSet(s) \cup {e}
    BY <1>1, <1>2, <1>3, <1>4
  <1> QED
    BY <1>1, <1>5 DEF t

LEMMA FrontFacts ==
  ASSUME NEW S, NEW s \in Seq(S), s # <<>>
  PROVE  /\ Len(s) \in Nat \ {0}
         /\ Front(s) \in Seq(S)
         /\ Len(Front(s)) = Len(s) - 1
         /\ \A i \in 1..(Len(s) - 1) : Front(s)[i] = s[i]
         /\ Last(s) = s[Len(s)]
         /\ Last(s) \in S
         /\ Append(Front(s), Last(s)) = s
         /\ ToSet(s) = ToSet(Front(s)) \cup {Last(s)}
  <1>1. Len(s) \in Nat \ {0} /\ \A i \in 1..Len(s) : s[i] \in S
    BY EmptySeq, LenProperties
  <1>2. Last(s) = s[Len(s)] /\ Last(s) \in S
    BY <1>1 DEF Last
  <1>3. \A i \in 1..(Len(s) - 1) : s[i] \in S
    BY <1>1
  <1>4. /\ Front(s) \in Seq(S)
        /\ Len(Front(s)) = Len(s) - 1
        /\ \A i \in 1..(Len(s) - 1) : Front(s)[i] = s[i]
    <2>1. /\ SubSeq(s, 1, Len(s) - 1) \in Seq(S)
          /\ Len(SubSeq(s, 1, Len(s) - 1)) = IF 1 <= Len(s) - 1 THEN (Len(s) - 1) - 1 + 1 ELSE 0
          /\ \A i \in 1..((Len(s) - 1) - 1 + 1) :
               SubSeq(s, 1, Len(s) - 1)[i] = s[1 + i - 1]
      BY <1>1, <1>3, SubSeqProperties, Z3
    <2>2. IF 1 <= Len(s) - 1 THEN Len(s) - 1 - 1 + 1 = Len(s) - 1 ELSE Len(s) - 1 = 0
      BY <1>1
    <2>3. Len(SubSeq(s, 1, Len(s) - 1)) = Len(s) - 1
      BY <2>1, <2>2, <1>1
    <2>4. \A i \in 1..(Len(s) - 1) : SubSeq(s, 1, Len(s) - 1)[i] = s[i]
      <3> TAKE i \in 1..(Len(s) - 1)
      <3>1. i \in 1..((Len(s) - 1) - 1 + 1) /\ 1 + i - 1 = i
        BY <1>1
      <3> QED
        BY <2>1, <3>1
    <2> QED
      BY <2>1, <2>3, <2>4 DEF Front
  <1> DEFINE t == Append(Front(s), Last(s))
  <1>5. /\ t \in Seq(S) /\ Len(t) = Len(s)
        /\ ToSet(t) = ToSet(Front(s)) \cup {Last(s)}
        /\ \A i \in 1..(Len(s) - 1) : t[i] = Front(s)[i]
        /\ t[Len(s)] = Last(s)
    BY <1>1, <1>2, <1>4, AppendFacts
  <1>6. t = s
    <2>1. \A i \in 1..Len(t) : t[i] = s[i]
      BY <1>1, <1>2, <1>4, <1>5
    <2> QED
      BY <2>1, <1>5, SeqEqual
  <1> QED
    BY <1>1, <1>2, <1>4, <1>5, <1>6

LEMMA FrontOfAppend ==
  ASSUME NEW S, NEW s \in Seq(S), NEW e \in S
  PROVE  Append(s, e) # <<>> /\ Front(Append(s, e)) = s /\ Last(Append(s, e)) = e
  <1> DEFINE t == Append(s, e)
  <1>1. /\ t \in Seq(S) /\ t # <<>> /\ Len(t) = Len(s) + 1
        /\ \A i \in 1..Len(s) : t[i] = s[i]
        /\ t[Len(s) + 1] = e
    BY AppendProperties
  <1>2. Len(s) \in Nat
    BY LenProperties
  <1> HIDE DEF t
  <1>3. /\ Front(t) \in Seq(S) /\ Len(Front(t)) = Len(t) - 1
        /\ \A i \in 1..(Len(t) - 1) : Front(t)[i] = t[i]
        /\ Last(t) = t[Len(t)]
    BY <1>1, FrontFacts
  <1>4. Len(Front(t)) = Len(s) /\ \A i \in 1..Len(Front(t)) : Front(t)[i] = s[i]
    BY <1>1, <1>2, <1>3
  <1>5. Front(t) = s
    BY <1>3, <1>4, SeqEqual
  <1> QED
    BY <1>1, <1>3, <1>5 DEF t

LEMMA TailFacts ==
  ASSUME NEW S, NEW s \in Seq(S), s # <<>>
  PROVE  /\ Len(s) \in Nat \ {0}
         /\ Head(s) \in S /\ Head(s) = s[1]
         /\ Tail(s) \in Seq(S)
         /\ Len(Tail(s)) = Len(s) - 1
         /\ \A i \in 1..(Len(s) - 1) : Tail(s)[i] = s[i + 1]
         /\ ToSet(s) = ToSet(Tail(s)) \cup {Head(s)}
  <1>1. Len(s) \in Nat \ {0}
    BY EmptySeq
  <1>2. /\ Head(s) \in S /\ Tail(s) \in Seq(S)
        /\ Len(Tail(s)) = Len(s) - 1
        /\ \A i \in 1..(Len(s) - 1) : Tail(s)[i] = s[i + 1]
    BY HeadTailProperties
  <1>3. Head(s) = s[1]
    BY <1>1
  <1>4. /\ ToSet(s) = {s[i] : i \in 1..Len(s)}
        /\ ToSet(Tail(s)) = {Tail(s)[i] : i \in 1..(Len(s) - 1)}
    BY <1>2, ToSetOfSeq
  <1>5. ToSet(s) \subseteq ToSet(Tail(s)) \cup {Head(s)}
    <2> SUFFICES ASSUME NEW i \in 1..Len(s)
                 PROVE  s[i] \in ToSet(Tail(s)) \cup {Head(s)}
      BY <1>4
    <2>1. CASE i = 1
      BY <2>1, <1>3
    <2>2. CASE i # 1
      <3>1. i - 1 \in 1..(Len(s) - 1) /\ i = (i - 1) + 1
        BY <2>2, <1>1
      <3>2. s[i] = Tail(s)[i - 1]
        BY <3>1, <1>2
      <3> QED
        BY <3>1, <3>2, <1>4
    <2> QED
      BY <2>1, <2>2
  <1>6. ToSet(Tail(s)) \cup {Head(s)} \subseteq ToSet(s)
    <2>1. \A i \in 1..(Len(s) - 1) : i + 1 \in 1..Len(s)
      BY <1>1
    <2>2. 1 \in 1..Len(s)
      BY <1>1
    <2> QED
      BY <2>1, <2>2, <1>2, <1>3, <1>4
  <1> QED
    BY <1>1, <1>2, <1>3, <1>5, <1>6

LEMMA ConcatFacts ==
  ASSUME NEW S, NEW s \in Seq(S), NEW t \in Seq(S)
  PROVE  /\ s \o t \in Seq(S) /\ Len(s \o t) = Len(s) + Len(t)
         /\ \A i \in 1..Len(s) : (s \o t)[i] = s[i]
         /\ \A i \in 1..Len(t) : (s \o t)[Len(s) + i] = t[i]
         /\ \A i \in 1..Len(s \o t) : \/ i \in 1..Len(s)
                                      \/ \E j \in 1..Len(t) : i = Len(s) + j
         /\ ToSet(s \o t) = ToSet(s) \cup ToSet(t)
  <1> DEFINE u == s \o t
  <1>1. /\ Len(s) \in Nat /\ ToSet(s) = {s[i] : i \in 1..Len(s)}
        /\ Len(t) \in Nat /\ ToSet(t) = {t[i] : i \in 1..Len(t)}
    BY ToSetOfSeq
  <1>2. /\ u \in Seq(S) /\ Len(u) = Len(s) + Len(t)
        /\ \A i \in 1..(Len(s) + Len(t)) : u[i] = IF i <= Len(s) THEN s[i] ELSE t[i - Len(s)]
    BY ConcatProperties
  <1> HIDE DEF u
  <1>3. ToSet(u) = {u[i] : i \in 1..(Len(s) + Len(t))}
    BY <1>2, ToSetOfSeq
  <1>4. \A i \in 1..Len(s) : i \in 1..(Len(s) + Len(t)) /\ u[i] = s[i]
    BY <1>1, <1>2
  <1>5. ASSUME NEW i \in 1..Len(t)
        PROVE  Len(s) + i \in 1..(Len(s) + Len(t)) /\ u[Len(s) + i] = t[i]
    <2>1. /\ Len(s) + i \in 1..(Len(s) + Len(t)) /\ ~(Len(s) + i <= Len(s))
          /\ (Len(s) + i) - Len(s) = i
      BY <1>1
    <2> QED
      BY <1>2, <2>1
  <1>6. ASSUME NEW i \in 1..(Len(s) + Len(t))
        PROVE  i \in 1..Len(s) \/ \E j \in 1..Len(t) : i = Len(s) + j
    <2>1. CASE i <= Len(s)
      BY <2>1, <1>1
    <2>2. CASE ~(i <= Len(s))
      <3>1. i - Len(s) \in 1..Len(t) /\ i = Len(s) + (i - Len(s))
        BY <2>2, <1>1
      <3> QED
        BY <3>1
    <2> QED
      BY <2>1, <2>2
  <1>7. ToSet(u) = ToSet(s) \cup ToSet(t)
    <2>1. ToSet(u) \subseteq ToSet(s) \cup ToSet(t)
      <3> SUFFICES ASSUME NEW i \in 1..(Len(s) + Len(t))
                   PROVE  u[i] \in ToSet(s) \cup ToSet(t)
        BY <1>3
      <3>1. CASE i \in 1..Len(s)
        BY <3>1, <1>1, <1>4
      <3>2. ASSUME NEW j \in 1..Len(t), i = Len(s) + j
            PROVE  u[i] \in ToSet(s) \cup ToSet(t)
        BY <3>2, <1>1, <1>5
      <3> QED
        BY <3>1, <3>2, <1>6
    <2>2. ToSet(s) \subseteq ToSet(u)
      BY <1>1, <1>3, <1>4
    <2>3. ToSet(t) \subseteq ToSet(u)
      BY <1>1, <1>3, <1>5
    <2> QED
      BY <2>1, <2>2, <2>3, Zenon
  <1> QED
    BY <1>2, <1>4, <1>5, <1>6, <1>7 DEF u

LEMMA ConstantSeq ==
  ASSUME NEW S, NEW e \in S, NEW n \in Nat
  PROVE  LET r == [i \in 1..n |-> e] IN
           r \in Seq(S) /\ Len(r) = n /\ \A i \in 1..Len(r) : r[i] = e
  OBVIOUS

LEMMA RepeatFacts ==
  ASSUME NEW S, NEW s \in Seq(S), NEW e \in S, NEW r \in Seq(S),
         \A i \in 1..Len(r) : r[i] = e
  PROVE  /\ s \o r \in Seq(S)
         /\ Len(s \o r) = Len(s) + Len(r)
         /\ \A i \in 1..Len(s) : (s \o r)[i] = s[i]
         /\ \A i \in (Len(s) + 1)..Len(s \o r) : (s \o r)[i] = e
         /\ ToSet(s \o r) \subseteq ToSet(s) \cup {e}
         /\ ToSet(s) \subseteq ToSet(s \o r)
         /\ Len(r) > 0 => e \in ToSet(s \o r)
  <1> DEFINE t == s \o r
             n == Len(r)
  <1>1. n \in Nat
    BY LenProperties
  <1>2. /\ t \in Seq(S)
        /\ Len(t) = Len(s) + n
        /\ \A i \in 1..(Len(s) + n) : t[i] = IF i <= Len(s) THEN s[i] ELSE r[i - Len(s)]
    BY ConcatProperties
  <1> HIDE DEF t
  <1>3. /\ Len(s) \in Nat
        /\ ToSet(s) = {s[i] : i \in 1..Len(s)}
        /\ ToSet(t) = {t[i] : i \in 1..(Len(s) + n)}
    BY <1>2, ToSetOfSeq
  <1>4. \A i \in 1..Len(s) : i \in 1..(Len(s) + n) /\ t[i] = s[i]
    BY <1>1, <1>2, <1>3
  <1>5. \A i \in (Len(s) + 1)..(Len(s) + n) : i \in 1..(Len(s) + n) /\ t[i] = e
    <2> TAKE i \in (Len(s) + 1)..(Len(s) + n)
    <2>1. i \in 1..(Len(s) + n) /\ ~(i <= Len(s)) /\ i - Len(s) \in 1..n
      BY <1>1, <1>3
    <2> QED
      BY <2>1, <1>2
  <1>6. ToSet(t) \subseteq ToSet(s) \cup {e}
    <2> SUFFICES ASSUME NEW i \in 1..(Len(s) + n)
                 PROVE  t[i] \in ToSet(s) \cup {e}
      BY <1>3
    <2>1. i \in 1..Len(s) \/ i \in (Len(s) + 1)..(Len(s) + n)
      BY <1>1, <1>3
    <2> QED
      BY <2>1, <1>3, <1>4, <1>5
  <1>7. ToSet(s) \subseteq ToSet(t)
    BY <1>3, <1>4
  <1>8. n > 0 => e \in ToSet(t)
    <2> HAVE n > 0
    <2>1. Len(s) + 1 \in (Len(s) + 1)..(Len(s) + n)
      BY <1>1, <1>3
    <2> QED
      BY <2>1, <1>3, <1>5
  <1> QED
    BY <1>2, <1>4, <1>5, <1>6, <1>7, <1>8 DEF t

LEMMA InjectiveAppend ==
  ASSUME NEW S, NEW s \in Seq(S), NEW e \in S, IsInjective(s), e \notin ToSet(s)
  PROVE  IsInjective(Append(s, e))
  <1>1. /\ Len(s) \in Nat /\ DOMAIN s = 1..Len(s)
        /\ DOMAIN Append(s, e) = 1..(Len(s) + 1)
        /\ \A i \in 1..Len(s) : Append(s, e)[i] = s[i]
        /\ Append(s, e)[Len(s) + 1] = e
    BY ToSetOfSeq, AppendFacts
  <1>2. \A i \in 1..Len(s) : s[i] # e
    BY <1>1 DEF ToSet
  <1>3. ASSUME NEW i \in 1..(Len(s) + 1), NEW j \in 1..(Len(s) + 1),
               Append(s, e)[i] = Append(s, e)[j]
        PROVE  i = j
    <2>1. CASE i = Len(s) + 1 \/ j = Len(s) + 1
      BY <2>1, <1>1, <1>2, <1>3
    <2>2. CASE i # Len(s) + 1 /\ j # Len(s) + 1
      <3>1. i \in 1..Len(s) /\ j \in 1..Len(s)
        BY <2>2, <1>1
      <3> QED
        BY <3>1, <1>1, <1>3 DEF IsInjective
    <2> QED
      BY <2>1, <2>2
  <1> QED
    BY <1>1, <1>3 DEF IsInjective

LEMMA InjectiveTail ==
  ASSUME NEW S, NEW s \in Seq(S), s # <<>>, IsInjective(s)
  PROVE  IsInjective(Tail(s)) /\ Head(s) \notin ToSet(Tail(s))
  <1>1. /\ Len(s) \in Nat \ {0} /\ DOMAIN s = 1..Len(s)
        /\ Tail(s) \in Seq(S) /\ Head(s) = s[1] /\ Len(Tail(s)) = Len(s) - 1
        /\ \A i \in 1..(Len(s) - 1) : Tail(s)[i] = s[i + 1]
    BY ToSetOfSeq, TailFacts
  <1>2. DOMAIN Tail(s) = 1..(Len(s) - 1)
    BY <1>1, ToSetOfSeq
  <1>3. \A i \in 1..(Len(s) - 1) : i + 1 \in 1..Len(s) /\ i + 1 # 1
    BY <1>1
  <1>4. 1 \in 1..Len(s)
    BY <1>1
  <1>5. IsInjective(Tail(s))
    <2> SUFFICES ASSUME NEW i \in 1..(Len(s) - 1), NEW j \in 1..(Len(s) - 1),
                        Tail(s)[i] = Tail(s)[j]
                 PROVE  i = j
      BY <1>2 DEF IsInjective
    <2>1. s[i + 1] = s[j + 1] /\ i + 1 \in 1..Len(s) /\ j + 1 \in 1..Len(s)
      BY <1>1, <1>3
    <2>2. i + 1 = j + 1
      BY <2>1, <1>1 DEF IsInjective
    <2> QED
      BY <2>2
  <1>6. Head(s) \notin ToSet(Tail(s))
    <2> SUFFICES ASSUME NEW i \in 1..(Len(s) - 1), Tail(s)[i] = s[1]
                 PROVE  FALSE
      BY <1>1, <1>2 DEF ToSet
    <2> QED
      BY <1>1, <1>3, <1>4 DEF IsInjective
  <1> QED
    BY <1>5, <1>6

-----------------------------------------------------------------------------
(***************************************************************************)
(* Select: the elements of a sequence at a set of positions.               *)
(***************************************************************************)

UpTo(I, x) == {j \in I : j <= x}
CountTo(I, x) == Cardinality(UpTo(I, x))

LEMMA FinitePositions ==
  ASSUME NEW L \in Nat, NEW I \in SUBSET (1..L)
  PROVE  /\ IsFiniteSet(I) /\ Cardinality(I) \in Nat
         /\ \A j \in I : j \in Nat /\ 1 <= j /\ j <= L
         /\ \A x : /\ IsFiniteSet(UpTo(I, x)) /\ CountTo(I, x) \in Nat
                   /\ CountTo(I, x) <= Cardinality(I)
  <1>1. IsFiniteSet(1..L)
    BY FS_Interval
  <1>2. IsFiniteSet(I) /\ Cardinality(I) \in Nat
    BY <1>1, FS_Subset, FS_CardinalityType
  <1>3. ASSUME NEW x
        PROVE  /\ IsFiniteSet(UpTo(I, x)) /\ CountTo(I, x) \in Nat
               /\ CountTo(I, x) <= Cardinality(I)
    <2>1. UpTo(I, x) \in SUBSET I
      BY DEF UpTo
    <2> QED
      BY <1>2, <2>1, FS_Subset, FS_CardinalityType DEF CountTo
  <1>4. \A j \in I : j \in Nat /\ 1 <= j /\ j <= L
    OBVIOUS
  <1> QED
    BY <1>2, <1>3, <1>4

\* Counting one position further.
LEMMA CountOn ==
  ASSUME NEW L \in Nat, NEW I \in SUBSET (1..L), NEW x \in 1..L
  PROVE  /\ CountTo(I, 0) = 0 /\ CountTo(I, L) = Cardinality(I)
         /\ CountTo(I, x) = IF x \in I THEN CountTo(I, x - 1) + 1 ELSE CountTo(I, x - 1)
  <1>1. \A j \in I : j \in Nat /\ 1 <= j /\ j <= L
    OBVIOUS
  <1>2. UpTo(I, 0) = {} /\ CountTo(I, 0) = 0
    <2>1. \A j \in I : ~(j <= 0)
      BY <1>1
    <2>2. UpTo(I, 0) = {}
      BY <2>1, Zenon DEF UpTo
    <2> QED
      BY <2>2, FS_EmptySet DEF CountTo
  <1>3. UpTo(I, L) = I
    BY <1>1, Zenon DEF UpTo
  <1>4. CASE x \notin I
    <2>1. \A j \in I : j <= x <=> j <= x - 1
      BY <1>1, <1>4
    <2>2. UpTo(I, x) = UpTo(I, x - 1)
      BY <2>1, Zenon DEF UpTo
    <2> QED
      BY <1>2, <1>3, <1>4, <2>2 DEF CountTo
  <1>5. CASE x \in I
    <2>1. \A j \in I : j <= x <=> (j <= x - 1 \/ j = x)
      BY <1>1, <1>5
    <2>2. \A j : j \in UpTo(I, x) <=> j \in UpTo(I, x - 1) \cup {x}
      BY <1>5, <2>1, Zenon DEF UpTo
    <2>3. x \notin UpTo(I, x - 1)
      BY DEF UpTo
    <2>4. UpTo(I, x) = UpTo(I, x - 1) \cup {x}
      BY <2>2, Zenon
    <2>5. IsFiniteSet(UpTo(I, x - 1))
      BY FinitePositions
    <2>6. Cardinality(UpTo(I, x - 1) \cup {x}) = Cardinality(UpTo(I, x - 1)) + 1
      BY <2>3, <2>5, FS_AddElement
    <2> QED
      BY <1>2, <1>3, <1>5, <2>4, <2>6 DEF CountTo
  <1> QED
    BY <1>4, <1>5

\* Positions further on have more positions up to them.
LEMMA CountGrows ==
  ASSUME NEW L \in Nat, NEW I \in SUBSET (1..L), NEW i \in I, NEW k \in I, i < k
  PROVE  CountTo(I, i) < CountTo(I, k)
  <1>1. /\ IsFiniteSet(UpTo(I, k - 1)) /\ CountTo(I, k - 1) \in Nat
        /\ CountTo(I, i) \in Nat /\ i \in Nat /\ k \in Nat /\ k \in 1..L
    BY FinitePositions
  <1>2. \A j \in I : j \in Nat
    OBVIOUS
  <1>3. UpTo(I, i) \in SUBSET UpTo(I, k - 1)
    <2>1. \A j \in I : j <= i => j <= k - 1
      BY <1>1, <1>2
    <2> QED
      BY <2>1, Zenon DEF UpTo
  <1>4. CountTo(I, i) <= CountTo(I, k - 1)
    BY <1>1, <1>3, FS_Subset DEF CountTo
  <1>5. CountTo(I, k) = CountTo(I, k - 1) + 1
    BY <1>1, CountOn
  <1> QED
    BY <1>1, <1>4, <1>5

\* There is an n-th position: the first one with n positions up to it.
LEMMA NthFacts ==
  ASSUME NEW L \in Nat, NEW I \in SUBSET (1..L), NEW n \in 1..Cardinality(I)
  PROVE  Nth(I, n) \in I /\ CountTo(I, Nth(I, n)) = n
  <1> DEFINE A == {x \in 0..L : n <= CountTo(I, x)}
  <1>1. /\ Cardinality(I) \in Nat /\ n \in Nat /\ n # 0 /\ n <= Cardinality(I)
        /\ \A x : CountTo(I, x) \in Nat
    BY FinitePositions
  <1>2. L \in A /\ 0 \notin A
    <2>1. CASE L = 0
      <3>1. I = {}
        BY <2>1
      <3> QED
        BY <1>1, <3>1, FS_EmptySet
    <2>2. CASE L # 0
      <3>1. L \in 1..L
        BY <2>2
      <3>2. CountTo(I, 0) = 0 /\ CountTo(I, L) = Cardinality(I)
        BY <3>1, CountOn
      <3> QED
        BY <1>1, <3>2
    <2> QED
      BY <2>1, <2>2
  <1>3. A \in SUBSET Nat /\ A # {}
    BY <1>2
  <1>4. \A x \in A : x \in 0..L /\ n <= CountTo(I, x)
    OBVIOUS
  <1>5. \A x \in 0..L : n <= CountTo(I, x) => x \in A
    OBVIOUS
  <1> HIDE DEF A
  <1>6. PICK x \in A : \A y \in A : x <= y
    BY <1>3, LeastElement
  <1>7. x \in 1..L /\ x - 1 \in 0..L
    BY <1>2, <1>4, <1>6
  <1>8. x - 1 \notin A
    BY <1>6, <1>7
  <1>9. CountTo(I, x - 1) < n /\ n <= CountTo(I, x)
    BY <1>1, <1>4, <1>5, <1>7, <1>8
  <1>10. CountTo(I, x) = IF x \in I THEN CountTo(I, x - 1) + 1 ELSE CountTo(I, x - 1)
    BY <1>7, CountOn
  <1>11. x \in I /\ CountTo(I, x) = n
    BY <1>1, <1>9, <1>10
  <1> QED
    BY <1>11, Zenon DEF Nth, CountTo, UpTo

\* Every position is the n-th one, n being how many there are up to it.
LEMMA NthOf ==
  ASSUME NEW L \in Nat, NEW I \in SUBSET (1..L), NEW i \in I
  PROVE  CountTo(I, i) \in 1..Cardinality(I) /\ Nth(I, CountTo(I, i)) = i
  <1>1. PICK n : n = CountTo(I, i)
    OBVIOUS
  <1>2. n \in Nat /\ n <= Cardinality(I) /\ Cardinality(I) \in Nat /\ i \in 1..L
    BY <1>1, FinitePositions
  <1>3. n # 0
    <2>1. CountTo(I, i) = CountTo(I, i - 1) + 1 /\ CountTo(I, i - 1) \in Nat
      BY <1>2, CountOn, FinitePositions
    <2> QED
      BY <1>1, <2>1
  <1>4. n \in 1..Cardinality(I)
    BY <1>2, <1>3
  <1>5. PICK k \in I : k = Nth(I, n) /\ CountTo(I, k) = n
    BY <1>4, NthFacts
  <1>6. k \in Nat /\ i \in Nat
    OBVIOUS
  <1>7. ~(i < k)
    <2> SUFFICES ASSUME i < k PROVE FALSE
      OBVIOUS
    <2>1. CountTo(I, i) < CountTo(I, k)
      BY CountGrows
    <2> QED
      BY <1>1, <1>2, <1>5, <2>1
  <1>8. ~(k < i)
    <2> SUFFICES ASSUME k < i PROVE FALSE
      OBVIOUS
    <2>1. CountTo(I, k) < CountTo(I, i)
      BY CountGrows
    <2> QED
      BY <1>1, <1>2, <1>5, <2>1
  <1>9. k = i
    BY <1>6, <1>7, <1>8
  <1> QED
    BY <1>1, <1>4, <1>5, <1>9

\* Different numbers, different positions.
LEMMA NthDistinct ==
  ASSUME NEW L \in Nat, NEW I \in SUBSET (1..L),
         NEW m \in 1..Cardinality(I), NEW n \in 1..Cardinality(I), m # n
  PROVE  Nth(I, m) # Nth(I, n)
  BY NthFacts

\* Select returns the chosen elements, all of them.
SelectMeans(S, s, I) ==
  /\ Cardinality(I) \in Nat
  /\ Select(s, I) \in Seq(S) /\ Len(Select(s, I)) = Cardinality(I)
  /\ \A n \in 1..Cardinality(I) : Nth(I, n) \in I /\ Select(s, I)[n] = s[Nth(I, n)]
  /\ \A m, n \in 1..Cardinality(I) : m # n => Nth(I, m) # Nth(I, n)
  /\ ToSet(Select(s, I)) = {s[i] : i \in I}

LEMMA SelectFacts ==
  ASSUME NEW S, NEW s \in Seq(S), NEW I \in SUBSET (DOMAIN s)
  PROVE  SelectMeans(S, s, I)
  <1>1. Len(s) \in Nat /\ DOMAIN s = 1..Len(s) /\ \A i \in 1..Len(s) : s[i] \in S
    BY LenProperties
  <1>2. Cardinality(I) \in Nat
    BY <1>1, FinitePositions
  <1>3. \A n \in 1..Cardinality(I) : Nth(I, n) \in I
    BY <1>1, NthFacts
  <1> DEFINE t == Select(s, I)
  <1>4. t = [n \in 1..Cardinality(I) |-> s[Nth(I, n)]]
    BY DEF Select
  <1> HIDE DEF t
  <1>5. \A n \in 1..Cardinality(I) : s[Nth(I, n)] \in S
    BY <1>1, <1>3
  <1>6. t \in Seq(S) /\ Len(t) = Cardinality(I)
    BY <1>2, <1>4, <1>5
  <1>7. \A n \in 1..Cardinality(I) : t[n] = s[Nth(I, n)]
    BY <1>4
  <1>8. ToSet(t) = {t[n] : n \in 1..Cardinality(I)}
    BY <1>6, ToSetOfSeq
  <1>9. ToSet(t) \subseteq {s[i] : i \in I}
    BY <1>3, <1>7, <1>8
  <1>10. {s[i] : i \in I} \subseteq ToSet(t)
    <2> SUFFICES ASSUME NEW i \in I PROVE s[i] \in ToSet(t)
      OBVIOUS
    <2>1. CountTo(I, i) \in 1..Cardinality(I) /\ Nth(I, CountTo(I, i)) = i
      BY <1>1, NthOf
    <2> QED
      BY <1>7, <1>8, <2>1
  <1>11. \A m, n \in 1..Cardinality(I) : m # n => Nth(I, m) # Nth(I, n)
    BY <1>1, NthDistinct
  <1> QED
    BY <1>2, <1>3, <1>6, <1>7, <1>9, <1>10, <1>11 DEF t, SelectMeans

\* As many numbers as they are different values of.
LEMMA CountByNumber ==
  ASSUME NEW n \in Nat, NEW T, NEW f \in [1..n -> T],
         \A i, j \in 1..n : f[i] = f[j] => i = j,
         \A t \in T : \E i \in 1..n : f[i] = t
  PROVE  IsFiniteSet(T) /\ Cardinality(T) = n
  <1>1. f \in Surjection(1..n, T)
    BY DEF Surjection
  <1>2. f \in Injection(1..n, T)
    BY DEF Injection, IsInjective
  <1>3. IsFiniteSet(1..n) /\ Cardinality(1..n) = n
    <2>1. \A a, b \in Int : /\ IsFiniteSet(a..b)
                            /\ Cardinality(a..b) = IF a > b THEN 0 ELSE b - a + 1
      BY FS_Interval
    <2>2. 1 \in Int /\ n \in Int /\ n = IF 1 > n THEN 0 ELSE n - 1 + 1
      OBVIOUS
    <2> QED
      BY <2>1, <2>2
  <1> QED
    BY <1>1, <1>2, <1>3, FS_Surjection

\* Positions listed in ascending order are the n-th ones, n by n.
Ascends(pos) == \A i, j \in 1..Len(pos) : i < j => pos[i] < pos[j]

LEMMA NthInOrder ==
  ASSUME NEW L \in Nat, NEW I \in SUBSET (1..L), NEW pos \in Seq(1..L),
         ToSet(pos) = I, Ascends(pos)
  PROVE  Cardinality(I) = Len(pos) /\ \A k \in 1..Len(pos) : Nth(I, k) = pos[k]
  <1>1. /\ Len(pos) \in Nat /\ I = {pos[k] : k \in 1..Len(pos)}
        /\ \A k \in 1..Len(pos) : pos[k] \in I /\ pos[k] \in Nat
    BY ToSetOfSeq
  <1>2. \A j, k \in 1..Len(pos) : j # k => pos[j] # pos[k]
    BY <1>1 DEF Ascends
  <1>3. Cardinality(I) = Len(pos)
    <2> DEFINE f == [k \in 1..Len(pos) |-> pos[k]]
    <2>1. f \in [1..Len(pos) -> I] /\ \A k \in 1..Len(pos) : f[k] = pos[k]
      BY <1>1
    <2> HIDE DEF f
    <2>2. \A t \in I : \E k \in 1..Len(pos) : f[k] = t
      BY <1>1, <2>1
    <2>3. \A j, k \in 1..Len(pos) : f[j] = f[k] => j = k
      BY <1>2, <2>1
    <2> QED
      BY <1>1, <2>1, <2>2, <2>3, CountByNumber
  <1>4. ASSUME NEW k \in 1..Len(pos) PROVE Nth(I, k) = pos[k]
    <2> DEFINE U == UpTo(I, pos[k])
               f == [j \in 1..k |-> pos[j]]
    <2>0. /\ k \in Nat /\ \A j \in 1..k : j \in 1..Len(pos) /\ (j < k \/ j = k)
          /\ \A j \in 1..Len(pos) : j \in 1..k \/ k < j
      BY <1>1
    <2>1. \A j \in 1..k : j \in 1..Len(pos) /\ pos[j] <= pos[k]
      BY <1>1, <2>0 DEF Ascends
    <2>2. \A j \in 1..Len(pos) : pos[j] <= pos[k] => j \in 1..k
      BY <1>1, <2>0 DEF Ascends
    <2>3. /\ \A j \in 1..k : pos[j] \in U
          /\ \A u \in U : \E j \in 1..k : pos[j] = u
      BY <1>1, <2>1, <2>2 DEF UpTo
    <2> HIDE DEF U
    <2>4. f \in [1..k -> U] /\ \A j \in 1..k : f[j] = pos[j]
      BY <2>3
    <2> HIDE DEF f
    <2>5. \A i, j \in 1..k : f[i] = f[j] => i = j
      BY <1>2, <2>1, <2>4
    <2>6. Cardinality(U) = k
      <3>1. k \in Nat /\ \A u \in U : \E j \in 1..k : f[j] = u
        BY <2>0, <2>3, <2>4
      <3> QED
        BY <2>4, <2>5, <3>1, CountByNumber
    <2>7. CountTo(I, pos[k]) = k
      BY <2>6 DEF U, CountTo
    <2> QED
      BY <1>1, <2>7, NthOf
  <1> QED
    BY <1>3, <1>4

\* Select, from a list of the positions.
LEMMA SelectInOrder ==
  ASSUME NEW S, NEW s \in Seq(S), NEW I \in SUBSET (DOMAIN s), NEW pos \in Seq(DOMAIN s),
         ToSet(pos) = I, Ascends(pos)
  PROVE  Select(s, I) = [k \in 1..Len(pos) |-> s[pos[k]]]
  <1>1. Len(s) \in Nat /\ DOMAIN s = 1..Len(s)
    BY LenProperties
  <1>2. Cardinality(I) = Len(pos) /\ \A k \in 1..Len(pos) : Nth(I, k) = pos[k]
    BY <1>1, NthInOrder
  <1> QED
    BY <1>2 DEF Select

-----------------------------------------------------------------------------
(***************************************************************************)
(* Recursion along a sequence: step[n][x] is what the n-th step makes of x.*)
(***************************************************************************)

Runs(f, X, start, step, n) ==
  /\ f \in [0..n -> X] /\ f[0] = start
  /\ \A i \in 1..n : f[i] = step[i][f[i - 1]]

LEMMA RunExists ==
  ASSUME NEW L \in Nat, NEW X, NEW start \in X, NEW step \in [1..L -> [X -> X]]
  PROVE  \E f : Runs(f, X, start, step, L)
  <1> DEFINE T == {n \in 0..L : ~\E f : Runs(f, X, start, step, n)}
  <1> SUFFICES ASSUME T # {} PROVE FALSE
    OBVIOUS
  <1>1. T \in SUBSET Nat
    OBVIOUS
  <1>2. PICK n \in T : \A m \in T : n <= m
    BY <1>1, LeastElement
  <1>3. CASE n = 0
    <2>1. Runs([i \in 0..0 |-> start], X, start, step, 0)
      BY DEF Runs
    <2> QED
      BY <1>2, <1>3, <2>1
  <1>4. CASE n # 0
    <2>1. n \in 1..L /\ n - 1 \in 0..L /\ n - 1 \notin T
      BY <1>2, <1>4
    <2>2. PICK f : Runs(f, X, start, step, n - 1)
      BY <2>1
    <2> DEFINE g == [i \in 0..n |-> IF i = n THEN step[n][f[n - 1]] ELSE f[i]]
    <2>3. f[n - 1] \in X /\ step[n][f[n - 1]] \in X
      BY <2>1, <2>2 DEF Runs
    <2>4. \A i \in 0..n : g[i] = IF i = n THEN step[n][f[n - 1]] ELSE f[i]
      OBVIOUS
    <2>5. \A i \in 0..n : i # n => i \in 0..(n - 1)
      BY <2>1
    <2>6. g \in [0..n -> X]
      BY <2>1, <2>2, <2>3, <2>5 DEF Runs
    <2>7. 0 \in 0..n /\ g[0] = start
      BY <2>1, <2>2, <2>4 DEF Runs
    <2>8. ASSUME NEW i \in 1..n PROVE g[i] = step[i][g[i - 1]]
      <3>1. i \in 0..n /\ i - 1 \in 0..n /\ i - 1 # n /\ g[i - 1] = f[i - 1]
        BY <2>1, <2>4
      <3>2. CASE i = n
        BY <3>1, <3>2, <2>4
      <3>3. CASE i # n
        <4>1. i \in 1..(n - 1)
          BY <2>1, <3>3
        <4>2. f[i] = step[i][f[i - 1]]
          BY <2>2, <4>1 DEF Runs
        <4>3. g[i] = f[i]
          BY <3>1, <3>3, <2>4
        <4> QED
          BY <3>1, <4>2, <4>3
      <3> QED
        BY <3>2, <3>3
    <2> HIDE DEF g
    <2>9. Runs(g, X, start, step, n)
      BY <2>6, <2>7, <2>8 DEF Runs
    <2> QED
      BY <1>2, <2>9
  <1> QED
    BY <1>3, <1>4
=============================================================================
