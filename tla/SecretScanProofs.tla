-------------------------- MODULE SecretScanProofs --------------------------
(***************************************************************************)
(* Proofs about SecretScan, for every text, any number of files and any    *)
(* answer: counting line breaks up to an offset, and searching for them    *)
(* around it, finds the line that reading the text from its start does;    *)
(* and what the node reports is what stands there.                         *)
(***************************************************************************)
EXTENDS SecretScan, SequenceLemmas

LEMMA MaxIs ==
  ASSUME NEW S \in SUBSET Int, NEW x \in S, \A y \in S : y <= x
  PROVE  Max(S) = x
  <1>1. x \in S /\ \A y \in S : x >= y
    OBVIOUS
  <1>2. Max(S) \in S /\ \A y \in S : Max(S) >= y
    BY <1>1, Zenon DEF Max
  <1>3. Max(S) \in Int /\ x \in Int /\ Max(S) >= x /\ x >= Max(S)
    BY <1>1, <1>2
  <1> QED
    BY <1>3

LEMMA MinIs ==
  ASSUME NEW S \in SUBSET Int, NEW x \in S, \A y \in S : x <= y
  PROVE  Min(S) = x
  <1>1. x \in S /\ \A y \in S : x =< y
    OBVIOUS
  <1>2. Min(S) \in S /\ \A y \in S : Min(S) =< y
    BY <1>1, Zenon DEF Min
  <1>3. Min(S) \in Int /\ x \in Int /\ Min(S) =< x /\ x =< Min(S)
    BY <1>1, <1>2
  <1> QED
    BY <1>3

\* A one-to-one correspondence keeps the number.
LEMMA SameNumber ==
  ASSUME NEW S, IsFiniteSet(S), NEW T, NEW f \in [S -> T],
         \A x, y \in S : f[x] = f[y] => x = y, \A t \in T : \E x \in S : f[x] = t
  PROVE  IsFiniteSet(T) /\ Cardinality(T) = Cardinality(S)
  <1>1. f \in Bijection(S, T)
    BY DEF Bijection, Injection, Surjection, IsInjective
  <1>2. ExistsBijection(S, T)
    BY <1>1 DEF ExistsBijection
  <1> QED
    BY <1>2, FS_Bijection

-----------------------------------------------------------------------------
(***************************************************************************)
(* Lines: after n tokens, `at` says where the lines begin, one after each  *)
(* break, and each line is the text from there to the next break.          *)
(***************************************************************************)

Stop(at, n, m) == IF m = Len(at) THEN n ELSE at[m + 1] - 2

Split(text, n, lines, at) ==
  /\ at \in Seq(1..(n + 1)) /\ Ascends(at) /\ Len(at) # 0 /\ at[1] = 1
  /\ \A k \in 1..n : text[k] = "nl" <=> \E m \in 2..Len(at) : at[m] = k + 1
  /\ lines \in Seq(Seq(Tokens)) /\ Len(lines) = Len(at)
  /\ \A m \in 1..Len(at) : /\ Len(lines[m]) = Stop(at, n, m) + 1 - at[m]
                           /\ \A j \in 1..Len(lines[m]) : lines[m][j] = text[at[m] + j - 1]

LEMMA SplitStart ==
  ASSUME NEW text \in Seq(Tokens)
  PROVE  Split(text, 0, << <<>> >>, <<1>>)
  <1>1. <<>> \in Seq(Tokens) /\ Len(<<>>) = 0
    BY EmptySeq
  <1>2. << <<>> >> \in Seq(Seq(Tokens)) /\ Len(<< <<>> >>) = 1 /\ << <<>> >>[1] = <<>>
    BY <1>1
  <1>3. <<1>> \in Seq(1..(0 + 1)) /\ Len(<<1>>) = 1 /\ <<1>>[1] = 1
    OBVIOUS
  <1>4. Ascends(<<1>>)
    BY <1>3 DEF Ascends
  <1>5. \A m \in 1..1 : m = 1
    OBVIOUS
  <1> QED
    BY <1>1, <1>2, <1>3, <1>4, <1>5 DEF Split, Stop

LEMMA SplitOn ==
  ASSUME NEW text \in Seq(Tokens), NEW n \in 1..Len(text),
         NEW lines, NEW at, Split(text, n - 1, lines, at)
  PROVE  \E new : Split(text, n, AfterToken(lines, text[n]), new)
  <1> DEFINE t == text[n]
             K == Len(at)
  <1>1. /\ Len(text) \in Nat /\ n \in Nat /\ t \in Tokens
        /\ (n - 1) + 1 = n /\ \A k \in 1..n : k = n \/ k \in 1..(n - 1)
        /\ \A k \in 1..(n - 1) : k \in Nat /\ k # n
    BY LenProperties
  <1>2. /\ at \in Seq(1..n) /\ Ascends(at) /\ K # 0 /\ at[1] = 1
        /\ \A k \in 1..(n - 1) : text[k] = "nl" <=> \E m \in 2..K : at[m] = k + 1
        /\ lines \in Seq(Seq(Tokens)) /\ Len(lines) = K
        /\ \A m \in 1..K : /\ Len(lines[m]) = Stop(at, n - 1, m) + 1 - at[m]
                           /\ \A j \in 1..Len(lines[m]) : lines[m][j] = text[at[m] + j - 1]
    BY <1>1 DEF Split
  <1>3. /\ K \in Nat \ {0} /\ at \in Seq(1..(n + 1))
        /\ \A m \in 1..K : at[m] \in 1..n /\ lines[m] \in Seq(Tokens) /\ Len(lines[m]) \in Nat
    <2>1. K \in Nat /\ \A m \in 1..K : at[m] \in 1..n
      BY <1>2, LenProperties
    <2>2. \A m \in 1..K : lines[m] \in Seq(Tokens)
      BY <1>2, ElementOfSeq
    <2>3. \A x \in 1..n : x \in 1..(n + 1)
      BY <1>1
    <2>4. at \in Seq(1..(n + 1))
      BY <1>2, <2>1, <2>3
    <2> QED
      BY <1>2, <2>1, <2>2, <2>4, LenProperties
  <1>4. CASE t = "nl"
    <2> DEFINE new == Append(at, n + 1)
               ls == Append(lines, <<>>)
    <2>1. /\ new \in Seq(1..(n + 1)) /\ Len(new) = K + 1 /\ new[K + 1] = n + 1
          /\ \A m \in 1..K : new[m] = at[m]
      <3>1. n + 1 \in 1..(n + 1)
        BY <1>1
      <3> QED
        BY <1>3, <3>1, AppendFacts
    <2>2. /\ ls \in Seq(Seq(Tokens)) /\ Len(ls) = K + 1 /\ ls[K + 1] = <<>>
          /\ \A m \in 1..K : ls[m] = lines[m]
      <3>1. <<>> \in Seq(Tokens)
        BY EmptySeq
      <3> QED
        BY <1>2, <3>1, AppendFacts
    <2>3. AfterToken(lines, t) = ls
      BY <1>4 DEF AfterToken
    <2> HIDE DEF new, ls
    <2>4. \A m \in 1..(K + 1) : m \in 1..K \/ m = K + 1
      BY <1>3
    <2>5. Ascends(new)
      <3> SUFFICES ASSUME NEW i \in 1..(K + 1), NEW j \in 1..(K + 1), i < j
                   PROVE  new[i] < new[j]
        BY <2>1 DEF Ascends
      <3>1. i \in 1..K
        BY <1>3
      <3>2. CASE j = K + 1
        <4>1. new[i] \in 1..n /\ new[j] = n + 1
          BY <1>3, <2>1, <3>1, <3>2
        <4> QED
          BY <1>1, <4>1
      <3>3. CASE j \in 1..K
        BY <1>2, <2>1, <3>1, <3>3 DEF Ascends
      <3> QED
        BY <2>4, <3>2, <3>3
    <2>6. ASSUME NEW k \in 1..n PROVE text[k] = "nl" <=> \E m \in 2..(K + 1) : new[m] = k + 1
      <3>1. CASE k = n
        <4>1. K + 1 \in 2..(K + 1)
          BY <1>3
        <4> QED
          BY <1>4, <2>1, <3>1, <4>1
      <3>2. CASE k \in 1..(n - 1)
        <4>1. \A m \in 2..(K + 1) : new[m] = k + 1 => m \in 2..K /\ at[m] = k + 1
          <5> TAKE m \in 2..(K + 1)
          <5>1. m \in 1..(K + 1)
            BY <1>3
          <5>2. CASE m = K + 1
            BY <1>1, <2>1, <3>2, <5>2
          <5>3. CASE m \in 1..K
            BY <1>3, <2>1, <5>3
          <5> QED
            BY <2>4, <5>1, <5>2, <5>3
        <4>2. \A m \in 2..K : m \in 2..(K + 1) /\ new[m] = at[m]
          BY <1>3, <2>1
        <4> QED
          BY <1>2, <3>2, <4>1, <4>2
      <3> QED
        BY <1>1, <3>1, <3>2
    <2>7. ASSUME NEW m \in 1..(K + 1)
          PROVE  /\ Len(ls[m]) = Stop(new, n, m) + 1 - new[m]
                 /\ \A j \in 1..Len(ls[m]) : ls[m][j] = text[new[m] + j - 1]
      <3>1. CASE m = K + 1
        <4>1. Len(ls[m]) = 0 /\ new[m] = n + 1 /\ Stop(new, n, m) = n
          BY <2>1, <2>2, <3>1, EmptySeq DEF Stop
        <4> QED
          BY <1>1, <4>1
      <3>2. CASE m \in 1..K
        <4>1. ls[m] = lines[m] /\ new[m] = at[m]
          BY <2>1, <2>2, <3>2
        <4>2. Stop(new, n, m) = new[m + 1] - 2
          BY <1>3, <2>1, <3>2 DEF Stop
        <4>3. CASE m = K
          <5>1. Stop(new, n, m) = n - 1 /\ Stop(at, n - 1, m) = n - 1
            BY <1>1, <2>1, <4>2, <4>3 DEF Stop
          <5> QED
            BY <1>2, <3>2, <4>1, <5>1
        <4>4. CASE m # K
          <5>1. m + 1 \in 1..K
            BY <1>3, <3>2, <4>4
          <5>2. Stop(new, n, m) = Stop(at, n - 1, m)
            BY <2>1, <4>2, <4>4, <5>1 DEF Stop
          <5> QED
            BY <1>2, <3>2, <4>1, <5>2
        <4> QED
          BY <4>3, <4>4
      <3> QED
        BY <2>4, <3>1, <3>2
    <2>8. 1 \in 1..K
      BY <1>3
    <2>9. Split(text, n, ls, new)
      BY <1>2, <2>1, <2>2, <2>5, <2>6, <2>7, <2>8 DEF Split
    <2> QED
      BY <2>3, <2>9
  <1>5. CASE t # "nl"
    <2> DEFINE last == Append(Last(lines), t)
               ls == Append(Front(lines), last)
    <2>1. /\ Front(lines) \in Seq(Seq(Tokens)) /\ Len(Front(lines)) = K - 1
          /\ \A m \in 1..(K - 1) : Front(lines)[m] = lines[m]
          /\ Last(lines) = lines[K] /\ Last(lines) \in Seq(Tokens)
      <3>1. lines # <<>>
        BY <1>2, EmptySeq
      <3> QED
        BY <1>2, <3>1, FrontFacts, ZenonT(40)
    <2>2. /\ last \in Seq(Tokens) /\ Len(last) = Len(lines[K]) + 1
          /\ last[Len(lines[K]) + 1] = t
          /\ \A j \in 1..Len(lines[K]) : last[j] = lines[K][j]
      BY <1>1, <2>1, AppendFacts
    <2> HIDE DEF last
    <2>3. /\ ls \in Seq(Seq(Tokens)) /\ Len(ls) = K /\ ls[K] = last
          /\ \A m \in 1..(K - 1) : ls[m] = lines[m]
      <3>1. /\ ls \in Seq(Seq(Tokens)) /\ Len(ls) = Len(Front(lines)) + 1
            /\ ls[Len(Front(lines)) + 1] = last
            /\ \A m \in 1..Len(Front(lines)) : ls[m] = Front(lines)[m]
        BY <2>1, <2>2, AppendFacts
      <3>2. Len(Front(lines)) + 1 = K
        BY <1>3, <2>1
      <3> QED
        BY <2>1, <3>1, <3>2
    <2>4. AfterToken(lines, t) = ls
      BY <1>5 DEF AfterToken, last
    <2> HIDE DEF ls
    <2>5. ASSUME NEW k \in 1..n PROVE text[k] = "nl" <=> \E m \in 2..K : at[m] = k + 1
      <3>1. CASE k = n
        <4>1. \A m \in 2..K : m \in 1..K
          BY <1>3
        <4>2. \A m \in 1..K : at[m] # n + 1
          BY <1>1, <1>3
        <4> QED
          BY <1>5, <3>1, <4>1, <4>2
      <3>2. CASE k \in 1..(n - 1)
        BY <1>2, <3>2
      <3> QED
        BY <1>1, <3>1, <3>2
    <2>6. ASSUME NEW m \in 1..K
          PROVE  /\ Len(ls[m]) = Stop(at, n, m) + 1 - at[m]
                 /\ \A j \in 1..Len(ls[m]) : ls[m][j] = text[at[m] + j - 1]
      <3>1. CASE m = K
        <4>1. Stop(at, n - 1, K) = n - 1 /\ Stop(at, n, K) = n
          BY DEF Stop
        <4>2. Len(lines[K]) = n - at[K] /\ at[K] \in 1..n
          <5>1. K \in 1..K /\ at[K] \in 1..n
            BY <1>3
          <5>2. Len(lines[K]) = Stop(at, n - 1, K) + 1 - at[K]
            BY <1>2, <5>1
          <5> QED
            BY <1>1, <4>1, <5>1, <5>2
        <4>3. \A j \in 1..Len(lines[K]) : last[j] = text[at[K] + j - 1]
          BY <1>2, <2>2, <3>1
        <4>4. \A j \in 1..(Len(lines[K]) + 1) : j \in 1..Len(lines[K]) \/ j = Len(lines[K]) + 1
          <5>1. Len(lines[K]) \in Nat
            BY <1>3, <3>1
          <5> QED
            BY <5>1
        <4>5. at[K] + (Len(lines[K]) + 1) - 1 = n
          BY <1>1, <4>2
        <4> QED
          <5>1. ls[m] = last /\ Stop(at, n, m) = n
            BY <2>3, <3>1, <4>1
          <5>2. Len(last) = n + 1 - at[K]
            BY <1>1, <2>2, <4>2
          <5>3. \A j \in 1..Len(last) : last[j] = text[at[K] + j - 1]
            BY <2>2, <4>3, <4>4, <4>5
          <5> QED
            BY <3>1, <5>1, <5>2, <5>3
      <3>2. CASE m # K
        <4>1. m \in 1..(K - 1)
          BY <1>3, <3>2
        <4>2. Stop(at, n, m) = Stop(at, n - 1, m)
          BY <3>2 DEF Stop
        <4> QED
          <5>1. m \in 1..K /\ ls[m] = lines[m]
            BY <2>3, <4>1
          <5>2. /\ Len(lines[m]) = Stop(at, n - 1, m) + 1 - at[m]
                /\ \A j \in 1..Len(lines[m]) : lines[m][j] = text[at[m] + j - 1]
            BY <1>2, <5>1, Zenon
          <5> QED
            BY <4>2, <5>1, <5>2, Zenon
      <3> QED
        BY <3>1, <3>2
    <2>7. Split(text, n, ls, at)
      BY <1>2, <1>3, <2>3, <2>5, <2>6 DEF Split
    <2> QED
      BY <2>4, <2>7
  <1> QED
    BY <1>4, <1>5

LEMMA AfterTokenType ==
  ASSUME NEW lines \in Seq(Seq(Tokens)) \ {<<>>}, NEW t \in Tokens
  PROVE  AfterToken(lines, t) \in Seq(Seq(Tokens)) \ {<<>>}
  <1>1. lines \in Seq(Seq(Tokens)) /\ lines # <<>>
    OBVIOUS
  <1>2. Front(lines) \in Seq(Seq(Tokens)) /\ Last(lines) \in Seq(Tokens)
    BY <1>1, FrontFacts
  <1>3. <<>> \in Seq(Tokens) /\ Append(Last(lines), t) \in Seq(Tokens)
    BY <1>2, EmptySeq, AppendFacts
  <1>4. /\ Append(lines, <<>>) \in Seq(Seq(Tokens)) /\ Append(lines, <<>>) # <<>>
    BY <1>1, <1>3, AppendFacts, FrontOfAppend
  <1>5. /\ Append(Front(lines), Append(Last(lines), t)) \in Seq(Seq(Tokens))
        /\ Append(Front(lines), Append(Last(lines), t)) # <<>>
    <2>1. \A ls \in Seq(Seq(Tokens)), l \in Seq(Tokens) :
            Append(ls, l) \in Seq(Seq(Tokens)) /\ Append(ls, l) # <<>>
      BY AppendFacts, FrontOfAppend
    <2> QED
      BY <1>2, <1>3, <2>1
  <1> QED
    BY <1>4, <1>5, Zenon DEF AfterToken

LEMMA LinesSplit ==
  ASSUME NEW text \in Seq(Tokens)
  PROVE  \E at : Split(text, Len(text), Lines(text), at)
  <1> DEFINE L == Len(text)
             X == Seq(Seq(Tokens)) \ {<<>>}
             Law(h) == h = [n \in 0..L |-> IF n = 0 THEN << <<>> >>
                                           ELSE AfterToken(h[n - 1], text[n])]
             lines == CHOOSE h : Law(h)
             step == [n \in 1..L |-> [ls \in X |-> AfterToken(ls, text[n])]]
  <1>1. L \in Nat /\ << <<>> >> \in X /\ \A n \in 1..L : text[n] \in Tokens
    <2>1. <<>> \in Seq(Tokens)
      BY EmptySeq
    <2>2. << <<>> >> \in Seq(Seq(Tokens)) /\ << <<>> >> # <<>>
      BY <2>1
    <2> QED
      BY <2>2, LenProperties
  <1>2. step \in [1..L -> [X -> X]]
    BY <1>1, AfterTokenType
  <1>3. \A n \in 1..L, ls \in X : step[n][ls] = AfterToken(ls, text[n])
    OBVIOUS
  <1> HIDE DEF step, X
  <1>4. PICK f : Runs(f, X, << <<>> >>, step, L)
    BY <1>1, <1>2, RunExists
  <1>5. Law(f)
    <2> DEFINE g == [n \in 0..L |-> IF n = 0 THEN << <<>> >> ELSE AfterToken(f[n - 1], text[n])]
    <2>1. f \in [0..L -> X] /\ f[0] = << <<>> >> /\ \A n \in 1..L : f[n] = step[n][f[n - 1]]
      BY <1>4 DEF Runs
    <2>2. ASSUME NEW n \in 0..L PROVE f[n] = g[n]
      <3>1. CASE n = 0
        BY <2>1, <3>1
      <3>2. CASE n # 0
        <4>1. n \in 1..L /\ n - 1 \in 0..L
          BY <1>1, <3>2
        <4>2. f[n - 1] \in X
          BY <2>1, <4>1
        <4> QED
          BY <1>3, <2>1, <3>2, <4>1, <4>2
      <3> QED
        BY <3>1, <3>2
    <2> QED
      BY <2>1, <2>2
  <1>6. Law(lines)
    BY <1>5, Zenon
  <1>7. Lines(text) = lines[L]
    BY Zenon DEF Lines
  <1> HIDE DEF lines
  <1>8. lines[0] = << <<>> >> /\ \A n \in 1..L : lines[n] = AfterToken(lines[n - 1], text[n])
    <2>1. \A n \in 0..L : lines[n] = IF n = 0 THEN << <<>> >>
                                     ELSE AfterToken(lines[n - 1], text[n])
      BY <1>6
    <2> QED
      BY <1>1, <2>1
  <1> HIDE DEF Law
  <1> DEFINE T == {n \in 0..L : ~\E at : Split(text, n, lines[n], at)}
  <1>9. T = {}
    <2> SUFFICES ASSUME T # {} PROVE FALSE
      OBVIOUS
    <2>1. T \in SUBSET Nat
      BY <1>1
    <2>2. PICK n \in T : \A m \in T : n <= m
      BY <2>1, LeastElement
    <2>3. n \in 0..L /\ ~\E at : Split(text, n, lines[n], at)
      OBVIOUS
    <2>4. CASE n = 0
      BY <1>8, <2>3, <2>4, SplitStart
    <2>5. CASE n # 0
      <3>1. n \in 1..L /\ n - 1 \in 0..L /\ n - 1 \notin T
        BY <1>1, <2>2, <2>3, <2>5
      <3>2. PICK at : Split(text, n - 1, lines[n - 1], at)
        BY <3>1
      <3>3. \E new : Split(text, n, AfterToken(lines[n - 1], text[n]), new)
        BY <3>1, <3>2, SplitOn
      <3>4. lines[n] = AfterToken(lines[n - 1], text[n])
        BY <1>8, <3>1
      <3> QED
        BY <2>3, <3>3, <3>4
    <2> QED
      BY <2>4, <2>5
  <1>10. \E at : Split(text, L, lines[L], at)
    BY <1>1, <1>9
  <1> QED
    BY <1>7, <1>10

-----------------------------------------------------------------------------
(***************************************************************************)
(* The line of an offset: _line_number counts to it, _line_context finds   *)
(* its ends.                                                               *)
(***************************************************************************)

\* An offset lies on one of the lines.
LEMMA OnSomeLine ==
  ASSUME NEW text \in Seq(Tokens), NEW at, Split(text, Len(text), Lines(text), at),
         NEW o \in 1..Len(text), text[o] # "nl"
  PROVE  \E m \in 1..Len(at) : at[m] <= o /\ o <= Stop(at, Len(text), m)
  <1> DEFINE L == Len(text)
             K == Len(at)
             T == {m \in 1..K : at[m] > o}
  <1>1. /\ L \in Nat /\ K \in Nat \ {0} /\ \A m \in 1..K : at[m] \in Nat
        /\ at[1] = 1
        /\ \A m \in 2..K : at[m] # o + 1
    <2>1. /\ at \in Seq(1..(L + 1)) /\ K # 0 /\ at[1] = 1
          /\ text[o] = "nl" <=> \E m \in 2..K : at[m] = o + 1
      BY DEF Split
    <2>2. K \in Nat /\ \A m \in 1..K : at[m] \in 1..(L + 1)
      BY <2>1, LenProperties
    <2>3. L \in Nat
      BY LenProperties
    <2> QED
      BY <2>1, <2>2, <2>3
  <1>2. o \in Nat /\ o >= 1 /\ o <= L
    BY <1>1
  <1>3. CASE T = {}
    <2>1. K \in 1..K /\ K \notin T
      BY <1>1, <1>3
    <2>2. at[K] <= o /\ Stop(at, L, K) = L
      BY <1>1, <1>2, <2>1 DEF Stop
    <2> QED
      BY <1>2, <2>1, <2>2
  <1>4. CASE T # {}
    <2>1. T \in SUBSET Nat
      BY <1>1
    <2>2. PICK m \in T : \A u \in T : m <= u
      BY <1>4, <2>1, LeastElement
    <2>3. m \in 1..K /\ at[m] > o /\ m # 1
      BY <1>1, <1>2
    <2>4. m \in 2..K /\ m - 1 \in 1..K /\ m - 1 # K /\ (m - 1) + 1 = m
      BY <1>1, <2>3
    <2>5. at[m - 1] <= o
      <3>1. m - 1 \notin T
        BY <2>2, <2>4
      <3> QED
        BY <1>1, <1>2, <2>4, <3>1
    <2>6. Stop(at, L, m - 1) = at[m] - 2
      BY <2>4 DEF Stop
    <2>7. o <= at[m] - 2
      BY <1>1, <1>2, <2>3, <2>4
    <2> QED
      BY <2>4, <2>5, <2>6, <2>7
  <1> QED
    BY <1>3, <1>4

\* What the code computes for an offset on line m.
LEMMA LineFacts ==
  ASSUME NEW text \in Seq(Tokens), NEW at, Split(text, Len(text), Lines(text), at),
         NEW o \in 1..Len(text), NEW m \in 1..Len(at),
         at[m] <= o, o <= Stop(at, Len(text), m)
  PROVE  LineNumber(text, o) = m /\ LineContext(text, o) = Strip(Lines(text)[m])
  <1> DEFINE L == Len(text)
             K == Len(at)
             line == Lines(text)[m]
  <1>1. /\ L \in Nat /\ DOMAIN text = 1..L /\ K \in Nat \ {0}
        /\ m \in Nat /\ m >= 1 /\ m <= K /\ o \in Nat /\ o >= 1 /\ o <= L
        /\ \A j \in 1..K : at[j] \in Nat /\ at[j] >= 1 /\ at[j] <= L + 1
        /\ \A i, j \in 1..K : i < j => at[i] < at[j]
        /\ at[1] = 1
    <2>1. at \in Seq(1..(L + 1)) /\ K # 0 /\ Ascends(at) /\ at[1] = 1
      BY DEF Split
    <2>2. L \in Nat /\ DOMAIN text = 1..L
      BY LenProperties
    <2>3. K \in Nat /\ \A j \in 1..K : at[j] \in 1..(L + 1)
      BY <2>1, LenProperties
    <2> QED
      BY <2>1, <2>2, <2>3 DEF Ascends
  <1>2. /\ \A k \in 1..L : text[k] = "nl" <=> \E j \in 2..K : at[j] = k + 1
        /\ line \in Seq(Tokens) /\ Len(line) = Stop(at, L, m) + 1 - at[m]
        /\ \A j \in 1..Len(line) : line[j] = text[at[m] + j - 1]
    <2>1. Lines(text) \in Seq(Seq(Tokens)) /\ Len(Lines(text)) = K
      BY DEF Split
    <2>2. line \in Seq(Tokens)
      BY <1>1, <2>1, ElementOfSeq
    <2> QED
      BY <2>2 DEF Split
  \* The breaks before o end the lines before m, those from o on begin after it.
  <1>3. /\ \A j \in 1..K : j <= m => at[j] <= at[m]
        /\ \A j \in 1..K : j <= m => at[j] <= o
        /\ \A j \in 1..K : j > m => at[j] > o + 1 /\ at[j] >= Stop(at, L, m) + 2
        /\ Stop(at, L, m) \in Int
    <2>1. \A j \in 1..K : j <= m => at[j] <= at[m]
      <3> TAKE j \in 1..K
      <3>1. CASE j = m
        BY <1>1, <3>1
      <3>2. CASE j < m
        BY <1>1, <3>2
      <3> QED
        BY <1>1, <3>1, <3>2
    <2>2. \A j \in 1..K : j <= m => at[j] <= o
      BY <1>1, <2>1
    <2>3. ASSUME NEW j \in 1..K, j > m PROVE at[j] > o + 1 /\ at[j] >= Stop(at, L, m) + 2
      <3>1. m + 1 \in 1..K /\ m # K
        BY <1>1, <2>3
      <3>2. Stop(at, L, m) = at[m + 1] - 2
        BY <3>1 DEF Stop
      <3>3. at[m + 1] <= at[j]
        <4>1. CASE j = m + 1
          BY <1>1, <3>1, <4>1
        <4>2. CASE j > m + 1
          BY <1>1, <3>1, <4>2
        <4> QED
          BY <1>1, <2>3, <4>1, <4>2
      <3> QED
        BY <1>1, <3>1, <3>2, <3>3
    <2>4. Stop(at, L, m) \in Int
      <3>1. CASE m = K
        BY <1>1, <3>1 DEF Stop
      <3>2. CASE m # K
        <4>1. m + 1 \in 1..K
          BY <1>1, <3>2
        <4> QED
          BY <1>1, <3>2, <4>1 DEF Stop
      <3> QED
        BY <3>1, <3>2
    <2> QED
      BY <2>1, <2>2, <2>3, <2>4
  <1>4. LineNumber(text, o) = m
    <2> DEFINE B == Breaks(text, 1..(o - 1))
               f == [i \in 1..(m - 1) |-> at[i + 1] - 1]
    <2>1. \A i \in 1..(m - 1) : /\ i + 1 \in 1..K /\ i + 1 \in 2..K /\ i + 1 <= m
                                /\ at[i + 1] > 1
      <3> TAKE i \in 1..(m - 1)
      <3>1. i + 1 \in 1..K /\ i + 1 \in 2..K /\ i + 1 <= m /\ 1 < i + 1 /\ 1 \in 1..K
        BY <1>1
      <3> QED
        BY <1>1, <3>1
    <2>2. ASSUME NEW i \in 1..(m - 1) PROVE f[i] \in B
      <3>1. f[i] = at[i + 1] - 1 /\ at[i + 1] \in Nat /\ at[i + 1] > 1 /\ at[i + 1] <= o
        BY <1>1, <1>3, <2>1
      <3>2. f[i] \in 1..L /\ f[i] \in 1..(o - 1) /\ f[i] + 1 = at[i + 1]
        BY <1>1, <3>1
      <3> HIDE DEF f
      <3>3. text[f[i]] = "nl"
        BY <1>2, <2>1, <3>2
      <3> QED
        BY <1>1, <3>2, <3>3 DEF Breaks
    <2>3. ASSUME NEW b \in B PROVE \E i \in 1..(m - 1) : f[i] = b
      <3>1. b \in 1..L /\ b \in 1..(o - 1) /\ text[b] = "nl"
        BY <1>1 DEF Breaks
      <3>2. PICK j \in 2..K : at[j] = b + 1
        BY <1>2, <3>1
      <3>3. j \in 1..K /\ ~(j > m)
        BY <1>1, <1>3, <3>1, <3>2
      <3>4. j - 1 \in 1..(m - 1) /\ (j - 1) + 1 = j
        BY <1>1, <3>2, <3>3
      <3>5. f[j - 1] = b
        BY <3>1, <3>2, <3>4
      <3> QED
        BY <3>4, <3>5
    <2>4. \A i, j \in 1..(m - 1) : f[i] = f[j] => i = j
      <3> SUFFICES ASSUME NEW i \in 1..(m - 1), NEW j \in 1..(m - 1), i < j
                   PROVE  f[i] # f[j]
        <4>1. \A i, j \in 1..(m - 1) : i < j \/ j < i \/ i = j
          BY <1>1
        <4> QED
          BY <4>1, Zenon
      <3>1. i + 1 < j + 1 /\ i + 1 \in 1..K /\ j + 1 \in 1..K
        BY <2>1
      <3>2. at[i + 1] < at[j + 1] /\ at[i + 1] \in Nat /\ at[j + 1] \in Nat
        BY <1>1, <3>1
      <3> QED
        BY <3>2
    <2>5. f \in [1..(m - 1) -> B]
      BY <2>2
    <2> HIDE DEF f, B
    <2>6. m - 1 \in Nat
      BY <1>1
    <2>7. Cardinality(B) = m - 1
      BY <2>3, <2>4, <2>5, <2>6, CountByNumber
    <2> QED
      BY <1>1, <2>7 DEF LineNumber, B
  <1>5. Max({0} \cup Breaks(text, 1..(o - 1))) = at[m] - 1
    <2> DEFINE S == {0} \cup Breaks(text, 1..(o - 1))
    <2>1. S \in SUBSET Int
      BY DEF Breaks
    <2>2. at[m] - 1 \in S
      <3>1. CASE m = 1
        BY <1>1, <3>1
      <3>2. CASE m # 1
        <4>1. m \in 2..K /\ 1 \in 1..K /\ 1 < m /\ at[1] < at[m]
          BY <1>1, <3>2
        <4>2. at[m] - 1 \in 1..L /\ at[m] - 1 \in 1..(o - 1) /\ (at[m] - 1) + 1 = at[m]
          <5>1. at[1] \in 1..L /\ at[m] \in 1..L /\ at[m] <= o /\ o \in 1..L /\ L \in Nat
            BY <1>1, <4>1
          <5>2. at[1] < at[m]
            BY <4>1
          <5> QED
            BY ONLY <5>1, <5>2
        <4>3. text[at[m] - 1] = "nl"
          BY <1>2, <4>1, <4>2
        <4> QED
          BY <1>1, <4>2, <4>3 DEF Breaks
      <3> QED
        BY <3>1, <3>2
    <2>3. ASSUME NEW b \in S PROVE b <= at[m] - 1
      <3>1. CASE b = 0
        BY <1>1, <3>1
      <3>2. CASE b \in Breaks(text, 1..(o - 1))
        <4>1. b \in 1..L /\ b \in 1..(o - 1) /\ text[b] = "nl"
          BY <1>1, <3>2 DEF Breaks
        <4>2. PICK j \in 2..K : at[j] = b + 1
          BY <1>2, <4>1
        <4>3. j \in 1..K /\ ~(j > m)
          BY <1>1, <1>3, <4>1, <4>2
        <4>4. at[j] <= at[m]
          BY <1>1, <1>3, <4>3
        <4> QED
          BY <1>1, <4>1, <4>2, <4>4
      <3> QED
        BY <3>1, <3>2
    <2> QED
      BY <2>1, <2>2, <2>3, MaxIs
  <1>6. Min({L + 1} \cup Breaks(text, o..L)) = Stop(at, L, m) + 1
    <2> DEFINE S == {L + 1} \cup Breaks(text, o..L)
    <2>1. S \in SUBSET Int
      BY <1>1 DEF Breaks
    <2>2. Stop(at, L, m) + 1 \in S
      <3>1. CASE m = K
        BY <3>1 DEF Stop
      <3>2. CASE m # K
        <4>1. m + 1 \in 2..K /\ m + 1 \in 1..K /\ m + 1 > m
          BY <1>1, <3>2
        <4>2. Stop(at, L, m) + 1 = at[m + 1] - 1
          BY <1>1, <3>2, <4>1 DEF Stop
        <4>3. at[m + 1] \in Nat /\ at[m + 1] > o + 1 /\ at[m + 1] <= L + 1
          BY <1>1, <1>3, <4>1
        <4>4. at[m + 1] - 1 \in 1..L /\ at[m + 1] - 1 \in o..L /\ (at[m + 1] - 1) + 1 = at[m + 1]
          BY <1>1, <4>3
        <4>5. text[at[m + 1] - 1] = "nl"
          BY <1>2, <4>1, <4>4
        <4> QED
          BY <1>1, <4>2, <4>4, <4>5 DEF Breaks
      <3> QED
        BY <3>1, <3>2
    <2>3. ASSUME NEW b \in S PROVE Stop(at, L, m) + 1 <= b
      <3>1. CASE b = L + 1
        <4>1. CASE m = K
          BY <1>1, <3>1, <4>1 DEF Stop
        <4>2. CASE m # K
          <5>1. m + 1 \in 1..K /\ Stop(at, L, m) = at[m + 1] - 2
            BY <1>1, <4>2 DEF Stop
          <5> QED
            BY <1>1, <3>1, <5>1
        <4> QED
          BY <4>1, <4>2
      <3>2. CASE b \in Breaks(text, o..L)
        <4>1. b \in 1..L /\ b >= o /\ text[b] = "nl"
          BY <1>1, <3>2 DEF Breaks
        <4>2. PICK j \in 2..K : at[j] = b + 1
          BY <1>2, <4>1
        <4>3. j \in 1..K /\ j > m
          <5>1. j \in 1..K /\ at[j] > o
            BY <1>1, <4>1, <4>2
          <5> QED
            BY <1>1, <1>3, <5>1
        <4> QED
          BY <1>1, <1>3, <4>1, <4>2, <4>3
      <3> QED
        BY <3>1, <3>2
    <2> QED
      BY <2>1, <2>2, <2>3, MinIs
  <1>7. SubSeq(text, at[m], Stop(at, L, m)) = line
    <2> DEFINE sub == SubSeq(text, at[m], Stop(at, L, m))
               s == Stop(at, L, m)
    <2>1. s \in Int /\ o <= s /\ s <= L /\ at[m] \in Nat /\ at[m] >= 1 /\ at[m] <= s
      <3>1. s <= L
        <4>1. CASE m = K
          BY <1>1, <4>1 DEF Stop
        <4>2. CASE m # K
          <5>1. m + 1 \in 1..K /\ s = at[m + 1] - 2
            BY <1>1, <4>2 DEF Stop
          <5> QED
            BY <1>1, <5>1
        <4> QED
          BY <4>1, <4>2
      <3> QED
        BY <1>1, <1>3, <3>1
    <2>2. s \in Nat /\ at[m]..s \subseteq 1..L
      BY <1>1, <2>1
    <2> HIDE DEF s
    <2>3. /\ sub \in Seq(Tokens) /\ Len(sub) = s - at[m] + 1
          /\ \A j \in 1..(s - at[m] + 1) : sub[j] = text[at[m] + j - 1]
      <3>1. \A i \in at[m]..s : text[i] \in Tokens
        BY <1>1, <2>2, ElementOfSeq
      <3>2. at[m] <= s /\ at[m] \in Int /\ s \in Int
        BY <2>1
      <3>3. /\ sub \in Seq(Tokens)
            /\ Len(sub) = IF at[m] <= s THEN s - at[m] + 1 ELSE 0
            /\ \A j \in 1..(s - at[m] + 1) : sub[j] = text[at[m] + j - 1]
        BY <3>1, <3>2, SubSeqProperties DEF s
      <3> QED
        BY <3>2, <3>3
    <2>4. Len(line) = s - at[m] + 1
      BY <1>2, <2>1 DEF s
    <2> HIDE DEF sub
    <2>5. \A j \in 1..Len(line) : sub[j] = line[j]
      BY <1>2, <2>3, <2>4
    <2> QED
      <3>1. sub \in Seq(Tokens) /\ line \in Seq(Tokens) /\ Len(sub) = Len(line)
        BY <1>2, <2>3, <2>4
      <3>2. \A j \in 1..Len(sub) : sub[j] = line[j]
        BY <2>5, <3>1
      <3>3. sub = line
        BY <3>1, <3>2, SeqEqual, Zenon
      <3> QED
        BY <3>3 DEF sub
  <1>8. LineContext(text, o) = Strip(SubSeq(text, (at[m] - 1) + 1, (Stop(at, L, m) + 1) - 1))
    BY <1>5, <1>6, Zenon DEF LineContext
  <1>9. (at[m] - 1) + 1 = at[m] /\ (Stop(at, L, m) + 1) - 1 = Stop(at, L, m)
    BY <1>1, <1>3
  <1> QED
    BY <1>4, <1>7, <1>8, <1>9

-----------------------------------------------------------------------------
(***************************************************************************)
(* Blanks: what strip cuts out is what Trimmed keeps.                      *)
(***************************************************************************)

\* Select of an interval of positions is the part of the sequence there.
LEMMA SelectInterval ==
  ASSUME NEW S, NEW s \in Seq(S), NEW a \in 1..Len(s), NEW b \in 1..Len(s), a <= b
  PROVE  Select(s, a..b) = SubSeq(s, a, b)
  <1> DEFINE n == b - a + 1
             pos == [i \in 1..n |-> a + i - 1]
  <1>1. /\ Len(s) \in Nat /\ DOMAIN s = 1..Len(s) /\ n \in Nat
        /\ \A i \in 1..n : a + i - 1 \in a..b /\ a + i - 1 \in 1..Len(s)
        /\ a..b \in SUBSET (1..Len(s))
        /\ \A i \in a..b : i - a + 1 \in 1..n /\ a + (i - a + 1) - 1 = i
    BY LenProperties
  <1>2. /\ pos \in Seq(DOMAIN s) /\ Len(pos) = n /\ \A i \in 1..n : pos[i] = a + i - 1
    BY <1>1
  <1> HIDE DEF pos
  <1>3. Ascends(pos)
    BY <1>1, <1>2 DEF Ascends
  <1>4. ToSet(pos) = a..b
    <2>1. ToSet(pos) = {pos[i] : i \in 1..n}
      BY <1>2, ToSetOfSeq
    <2>2. \A x \in ToSet(pos) : x \in a..b
      BY <1>1, <1>2, <2>1
    <2>3. ASSUME NEW x \in a..b PROVE x \in ToSet(pos)
      <3>1. x - a + 1 \in 1..n /\ pos[x - a + 1] = x
        BY <1>1, <1>2
      <3> QED
        BY <2>1, <3>1
    <2> QED
      BY <2>2, <2>3
  <1>5. Select(s, a..b) = [i \in 1..n |-> s[pos[i]]]
    <2> DEFINE I == a..b
    <2>1. I \in SUBSET (DOMAIN s) /\ ToSet(pos) = I
      BY <1>1, <1>4
    <2> HIDE DEF I
    <2>2. Select(s, I) = [i \in 1..Len(pos) |-> s[pos[i]]]
      BY <1>2, <1>3, <2>1, SelectInOrder
    <2> QED
      BY <1>2, <2>2 DEF I
  <1>6. Select(s, a..b) = [i \in 1..n |-> s[a + i - 1]]
    BY <1>2, <1>5
  <1> QED
    BY <1>6

LEMMA StripTrims ==
  ASSUME NEW line \in Seq(Tokens)
  PROVE  /\ Strip(line) = Trimmed(line) /\ Trimmed(line) \in Seq(Tokens)
         /\ \A j \in 1..Len(line) : line[j] # "sp" => line[j] \in ToSet(Trimmed(line))
  <1> DEFINE L == Len(line)
             ink == {k \in DOMAIN line : line[k] # "sp"}
             I == {k \in DOMAIN line : (\E j \in ink : j <= k) /\ (\E j \in ink : k <= j)}
  <1>1. L \in Nat /\ DOMAIN line = 1..L
    BY LenProperties
  <1>2. ink \in SUBSET (1..L) /\ I \in SUBSET (DOMAIN line)
    BY <1>1
  <1>3. \A j \in 1..L : line[j] # "sp" => j \in I
    <2>1. \A j \in 1..L : j <= j
      BY <1>1
    <2> QED
      BY <1>1, <2>1
  <1>4. Trimmed(line) = Select(line, I)
    BY Zenon DEF Trimmed
  <1>5. Strip(line) = IF ink = {} THEN <<>> ELSE SubSeq(line, Min(ink), Max(ink))
    BY Zenon DEF Strip
  <1>6. SelectMeans(Tokens, line, I)
    BY <1>2, SelectFacts
  <1>7. ASSUME ink = {} PROVE Strip(line) = Trimmed(line)
    <2>1. I = {}
      BY <1>7
    <2>2. Select(line, {}) \in Seq(Tokens) /\ Len(Select(line, {})) = 0
      BY <1>6, <2>1, FS_EmptySet DEF SelectMeans
    <2> QED
      BY <1>4, <1>5, <1>7, <2>1, <2>2, EmptySeq
  <1>8. ASSUME ink # {} PROVE Strip(line) = Trimmed(line)
    <2>1. PICK a \in ink : \A k \in ink : a <= k
      <3>1. ink \in SUBSET Nat
        BY <1>1, <1>2
      <3> QED
        BY <1>8, <3>1, LeastElement
    <2>2. \E b \in ink : \A k \in ink : k <= b
      <3> DEFINE T == {n \in Nat : \A k \in ink : k <= n}
      <3>1. L \in T
        BY <1>1, <1>2
      <3>2. PICK n \in T : \A u \in T : n <= u
        BY <3>1, LeastElement
      <3>3. n \in ink
        <4> SUFFICES ASSUME n \notin ink PROVE FALSE
          OBVIOUS
        <4>1. \A k \in ink : k \in 1..L /\ k <= n /\ k # n
          BY <1>2, <3>2
        <4>2. n \in Nat /\ \A k \in ink : k <= n - 1
          BY <1>1, <4>1
        <4>3. n - 1 \in Nat
          BY <1>1, <1>2, <2>1, <4>1
        <4>4. n - 1 \in T
          BY <4>2, <4>3
        <4>5. n <= n - 1
          BY <3>2, <4>4
        <4> QED
          BY <4>2, <4>5
      <3> QED
        BY <3>2, <3>3
    <2>3. PICK b \in ink : \A k \in ink : k <= b
      BY <2>2
    <2>4. a \in 1..L /\ b \in 1..L /\ a <= b /\ ink \in SUBSET Int
      BY <1>1, <1>2, <2>1, <2>3
    <2>5. Min(ink) = a /\ Max(ink) = b
      BY <2>1, <2>3, <2>4, MinIs, MaxIs
    <2>6. I = a..b
      <3>1. ASSUME NEW k \in I PROVE k \in a..b
        <4>1. k \in 1..L
          BY <1>1
        <4>2. PICK i \in ink : i <= k
          OBVIOUS
        <4>3. PICK j \in ink : k <= j
          OBVIOUS
        <4>4. a <= i /\ j <= b /\ i \in 1..L /\ j \in 1..L
          BY <1>2, <2>1, <2>3
        <4> QED
          BY <1>1, <2>4, <4>1, <4>2, <4>3, <4>4
      <3>2. ASSUME NEW k \in a..b PROVE k \in I
        BY <1>1, <2>4
      <3> QED
        BY <3>1, <3>2
    <2>7. Select(line, a..b) = SubSeq(line, a, b)
      BY <2>4, SelectInterval
    <2> QED
      BY <1>4, <1>5, <1>8, <2>5, <2>6, <2>7
  <1>9. Strip(line) = Trimmed(line)
    BY <1>7, <1>8
  <1>10. Trimmed(line) \in Seq(Tokens) /\ ToSet(Trimmed(line)) = {line[i] : i \in I}
    BY <1>4, <1>6 DEF SelectMeans
  <1> QED
    BY <1>3, <1>9, <1>10

-----------------------------------------------------------------------------
(***************************************************************************)
(* What the code says of an offset, and what a reader of the lines says.   *)
(***************************************************************************)

LEMMA LineOfOffset ==
  ASSUME NEW text \in Seq(Tokens), NEW o \in DOMAIN text, text[o] # "nl"
  PROVE  LET m == LineNumber(text, o) IN
           /\ m \in 1..Len(Lines(text)) /\ m \in Nat
           /\ LineContext(text, o) = Trimmed(Lines(text)[m])
           /\ LineContext(text, o) \in Seq(Tokens)
           /\ text[o] # "sp" => text[o] \in ToSet(LineContext(text, o))
  <1>1. Len(text) \in Nat /\ o \in 1..Len(text)
    BY LenProperties
  <1>2. PICK at : Split(text, Len(text), Lines(text), at)
    BY LinesSplit
  <1>3. PICK m \in 1..Len(at) : at[m] <= o /\ o <= Stop(at, Len(text), m)
    BY <1>1, <1>2, OnSomeLine
  <1>4. LineNumber(text, o) = m /\ LineContext(text, o) = Strip(Lines(text)[m])
    BY <1>1, <1>2, <1>3, LineFacts
  <1> DEFINE line == Lines(text)[m]
  <1>5. /\ Len(Lines(text)) = Len(at) /\ Lines(text) \in Seq(Seq(Tokens))
        /\ Len(line) = Stop(at, Len(text), m) + 1 - at[m]
        /\ \A j \in 1..Len(line) : line[j] = text[at[m] + j - 1]
        /\ at \in Seq(1..(Len(text) + 1))
    BY <1>2 DEF Split
  <1>6. line \in Seq(Tokens) /\ at[m] \in Nat /\ Len(at) \in Nat /\ Len(line) \in Nat
    <2>1. line \in Seq(Tokens) /\ at[m] \in 1..(Len(text) + 1)
      BY <1>5, ElementOfSeq
    <2> QED
      BY <1>1, <1>5, <2>1, LenProperties
  <1>7. Strip(line) = Trimmed(line) /\ Trimmed(line) \in Seq(Tokens)
        /\ \A j \in 1..Len(line) : line[j] # "sp" => line[j] \in ToSet(Trimmed(line))
    BY <1>6, StripTrims
  <1>8. \E j \in 1..Len(line) : line[j] = text[o]
    <2> DEFINE s == Stop(at, Len(text), m)
    <2>1. s \in Int
      <3>1. CASE m = Len(at)
        BY <1>1, <3>1 DEF Stop
      <3>2. CASE m # Len(at)
        <4>1. m + 1 \in 1..Len(at)
          BY <1>6, <3>2
        <4>2. at[m + 1] \in 1..(Len(text) + 1)
          BY <1>5, <4>1, ElementOfSeq
        <4> QED
          BY <1>1, <3>2, <4>2 DEF Stop
      <3> QED
        BY <3>1, <3>2
    <2> HIDE DEF s
    <2>2. Len(line) = s + 1 - at[m] /\ at[m] <= o /\ o <= s
      BY <1>3, <1>5 DEF s
    <2>3. o - at[m] + 1 \in 1..Len(line) /\ at[m] + (o - at[m] + 1) - 1 = o
      BY <1>1, <1>6, <2>1, <2>2
    <2> QED
      BY <1>5, <2>3
  <1>9. m \in Nat /\ m \in 1..Len(Lines(text))
    BY <1>5, <1>6
  <1> QED
    BY <1>4, <1>7, <1>8, <1>9

LEMMA OffsetToIndex ==
  ASSUME NEW b \in Int, NEW o \in Int, NEW e \in Int, b <= o, o <= e
  PROVE  o - b + 1 \in 1..(e + 1 - b) /\ b + (o - b + 1) - 1 = o
  OBVIOUS

\* The tokens of a line are those whose offsets have its number.
LEMMA OccurrencesOnLine ==
  ASSUME NEW text \in Seq(Tokens), NEW S, "nl" \notin S, NEW m \in 1..Len(Lines(text))
  PROVE  Cardinality({o \in DOMAIN text : text[o] \in S /\ LineNumber(text, o) = m})
           = Occurrences(S, Lines(text)[m])
  <1> DEFINE L == Len(text)
             line == Lines(text)[m]
             A == {j \in DOMAIN line : line[j] \in S}
             B == {o \in DOMAIN text : text[o] \in S /\ LineNumber(text, o) = m}
  <1>1. PICK at : Split(text, L, Lines(text), at)
    BY LinesSplit
  <1> DEFINE s == Stop(at, L, m)
             f == [j \in A |-> at[m] + j - 1]
  <1>2. /\ L \in Nat /\ DOMAIN text = 1..L
        /\ Len(Lines(text)) = Len(at) /\ m \in 1..Len(at)
        /\ line \in Seq(Tokens) /\ Len(line) \in Nat /\ DOMAIN line = 1..Len(line)
        /\ at[m] \in 1..(L + 1) /\ Len(at) \in Nat
    <2>1. /\ Len(Lines(text)) = Len(at) /\ Lines(text) \in Seq(Seq(Tokens))
          /\ at \in Seq(1..(L + 1))
      BY <1>1 DEF Split
    <2>2. line \in Seq(Tokens) /\ at[m] \in 1..(L + 1)
      BY <2>1, ElementOfSeq
    <2> QED
      BY <2>1, <2>2, LenProperties
  <1>3. /\ Len(line) = s + 1 - at[m]
        /\ \A j \in 1..Len(line) : line[j] = text[at[m] + j - 1]
    BY <1>1, <1>2 DEF Split
  <1>4. s \in Int /\ s <= L
    <2>1. CASE m = Len(at)
      BY <1>2, <2>1 DEF Stop
    <2>2. CASE m # Len(at)
      <3>1. m + 1 \in 1..Len(at)
        BY <1>2, <2>2
      <3>2. at \in Seq(1..(L + 1))
        BY <1>1 DEF Split
      <3>3. at[m + 1] \in 1..(L + 1)
        BY <3>1, <3>2, ElementOfSeq
      <3> QED
        BY <1>2, <2>2, <3>3 DEF Stop
    <2> QED
      BY <2>1, <2>2
  <1> HIDE DEF s
  <1>5. ASSUME NEW j \in A PROVE at[m] + j - 1 \in B
    <2>1. j \in 1..Len(line) /\ line[j] \in S
      BY <1>2
    <2> DEFINE o == at[m] + j - 1
    <2>2. o \in 1..L /\ at[m] <= o /\ o <= s
      <3>1. j \in Int /\ 1 <= j /\ j <= s + 1 - at[m]
        BY <1>2, <1>3, <2>1
      <3>2. L \in Nat /\ at[m] \in Int /\ 1 <= at[m]
        BY <1>2
      <3> QED
        BY <1>4, <3>1, <3>2
    <2> HIDE DEF o
    <2>3. text[o] \in S
      BY <1>3, <2>1 DEF o
    <2>4. LineNumber(text, o) = m
      BY <1>1, <1>2, <2>2, LineFacts DEF s
    <2> QED
      BY <1>2, <2>2, <2>3, <2>4 DEF o
  <1>6. ASSUME NEW o \in B PROVE \E j \in A : at[m] + j - 1 = o
    <2>1. o \in 1..L /\ text[o] \in S /\ text[o] # "nl" /\ LineNumber(text, o) = m
      BY <1>2
    <2>2. PICK k \in 1..Len(at) : at[k] <= o /\ o <= Stop(at, L, k)
      BY <1>1, <2>1, OnSomeLine
    <2>3. k = m
      BY <1>1, <2>1, <2>2, LineFacts
    <2>4. at[m] <= o /\ o <= s
      BY <2>2, <2>3 DEF s
    <2>5. o - at[m] + 1 \in 1..Len(line) /\ at[m] + (o - at[m] + 1) - 1 = o
      <3>1. at[m] \in Int /\ o \in Int /\ s \in Int /\ Len(line) = s + 1 - at[m]
        BY <1>2, <1>3, <1>4, <2>1
      <3>2. o - at[m] + 1 \in 1..(s + 1 - at[m]) /\ at[m] + (o - at[m] + 1) - 1 = o
        BY <2>4, <3>1, OffsetToIndex, Zenon
      <3> QED
        BY <3>1, <3>2
    <2>6. o - at[m] + 1 \in A
      BY <1>2, <1>3, <2>1, <2>5
    <2> QED
      BY <2>5, <2>6
  <1>7. \A j \in A : j \in Nat
    BY <1>2
  <1>8. A \in SUBSET (1..Len(line)) /\ IsFiniteSet(A)
    <2>1. A \in SUBSET (1..Len(line))
      BY <1>2
    <2> QED
      BY <1>2, <2>1, FinitePositions
  <1>9. Occurrences(S, line) = Cardinality(A)
    BY DEF Occurrences
  <1> HIDE DEF A, B, line
  <1>10. f \in [A -> B] /\ \A j \in A : f[j] = at[m] + j - 1
    BY <1>5
  <1>11. \A i, j \in A : f[i] = f[j] => i = j
    BY <1>2, <1>7, <1>10
  <1>12. \A o \in B : \E j \in A : f[j] = o
    BY <1>6, <1>10
  <1> HIDE DEF f
  <1>13. Cardinality(B) = Cardinality(A)
    BY <1>8, <1>10, <1>11, <1>12, SameNumber
  <1> QED
    BY <1>9, <1>13 DEF B, line

-----------------------------------------------------------------------------
(***************************************************************************)
(* The invariant: the reported matches are in a one-to-one correspondence  *)
(* with those of the files scanned so far, candidates are where they say,  *)
(* and what follows the matches is what the decisions ask for.             *)
(***************************************************************************)

Finding == [rule : {"high_confidence", "triaged"}, file : Nat, line : Nat,
            snippet : Seq(Tokens)]
Candidate == [index : Nat, file : Nat, line : Nat, context : Seq(Tokens)]

ScanTypes ==
  /\ files \in Seq(Seq(Tokens)) /\ scanned \in 0..Len(files)
  /\ findings \in Seq(Finding) /\ candidates \in Seq(Candidate)
  /\ decisions \in Seq(Decision(Len(candidates)))
  /\ phase \in {"scan", "raised", "prompt", "done", "degraded"}
  /\ phase \notin {"scan", "raised"} => scanned = Len(files)
  /\ phase # "done" => decisions = <<>>

HitAt(f) == {k \in DOMAIN findings :
               findings[k].rule = "high_confidence" /\ findings[k].file = f}

Found(f) == IF f <= scanned THEN Hits(files[f]) ELSE {}

\* `at` gives the match that a finding reports.
Reported(f, at) ==
  /\ at \in [HitAt(f) -> Found(f)]
  /\ \A j, k \in HitAt(f) : at[j] = at[k] => j = k
  /\ \A o \in Found(f) : \E k \in HitAt(f) : at[k] = o
  /\ \A k \in HitAt(f) : /\ findings[k].line = LineNumber(files[f], at[k])
                         /\ findings[k].snippet = LineContext(files[f], at[k])

HitsInv == \A f \in DOMAIN files : \E at : Reported(f, at)

Stands(c) ==
  /\ c.file \in 1..scanned
  /\ \E o \in Ambiguous(files[c.file]) : /\ c.line = LineNumber(files[c.file], o)
                                         /\ c.context = LineContext(files[c.file], o)

CandidateInv ==
  \A k \in DOMAIN candidates : /\ phase \notin {"scan", "raised"} => candidates[k].index = k - 1
                               /\ Stands(candidates[k])

Counted == Select(decisions, {k \in DOMAIN decisions :
             /\ decisions[k].is_secret /\ decisions[k].sure
             /\ decisions[k].index < Len(candidates)})

\* Finding t reports the candidate that decision d is about.
Answers(t, d) ==
  /\ t.rule = "triaged"
  /\ \E c \in ToSet(candidates) : c.index = d.index /\ t.file = c.file /\ t.line = c.line

TriageInv ==
  \E h \in 0..Len(findings) :
    /\ Len(findings) = h + Len(Counted)
    /\ \A k \in 1..h : findings[k].rule = "high_confidence"
    /\ \A k \in 1..Len(Counted) : Answers(findings[h + k], Counted[k])

\* What has made the scan give up.
RaisedInv ==
  phase = "raised" => \E f \in DOMAIN files : TooLong(files[f]) # {}

ScanInv == ScanTypes /\ HitsInv /\ CandidateInv /\ TriageInv /\ RaisedInv

\* Without decisions nothing counts.
LEMMA NoneCounted ==
  ASSUME decisions = <<>>
  PROVE  Len(Counted) = 0
  <1> DEFINE I == {k \in DOMAIN decisions :
                     /\ decisions[k].is_secret /\ decisions[k].sure
                     /\ decisions[k].index < Len(candidates)}
  <1>1. I = {} /\ Counted = Select(decisions, I)
    BY DEF Counted
  <1>2. decisions \in Seq({}) /\ I \in SUBSET (DOMAIN decisions)
    BY EmptySeq
  <1> HIDE DEF I
  <1>3. SelectMeans({}, decisions, I)
    BY <1>2, SelectFacts
  <1> QED
    BY <1>1, <1>3, FS_EmptySet DEF SelectMeans

\* As long as nothing is decided, the findings are matches of rules.
LEMMA OnlyHits ==
  ASSUME findings \in Seq(Finding), decisions = <<>>
  PROVE  TriageInv <=> \A k \in 1..Len(findings) : findings[k].rule = "high_confidence"
  <1>1. Len(Counted) = 0 /\ Len(findings) \in Nat
    BY NoneCounted, LenProperties
  <1>2. \A k : k \notin 1..Len(Counted)
    BY <1>1
  <1>3. \A h \in 0..Len(findings) : Len(findings) = h + Len(Counted) <=> h = Len(findings)
    BY <1>1
  <1>4. Len(findings) \in 0..Len(findings)
    BY <1>1
  <1> QED
    BY <1>2, <1>3, <1>4 DEF TriageInv

LEMMA ScanInit == Init => ScanInv
  <1> SUFFICES ASSUME Init PROVE ScanInv
    OBVIOUS
  <1>1. /\ files \in Seq(Seq(Tokens)) /\ scanned = 0 /\ findings = <<>> /\ candidates = <<>>
        /\ decisions = <<>> /\ phase = "scan"
    BY ScanAssumption DEF Init
  <1>2. Len(files) \in Nat /\ DOMAIN files = 1..Len(files)
    BY <1>1, LenProperties
  <1>3. /\ findings \in Seq(Finding) /\ candidates \in Seq(Candidate)
        /\ decisions \in Seq(Decision(Len(candidates)))
        /\ DOMAIN findings = {} /\ DOMAIN candidates = {} /\ Len(findings) = 0
    BY <1>1, EmptySeq
  <1>4. ScanTypes
    BY <1>1, <1>2, <1>3 DEF ScanTypes
  <1>5. HitsInv
    <2> SUFFICES ASSUME NEW f \in DOMAIN files PROVE \E at : Reported(f, at)
      BY DEF HitsInv
    <2>1. HitAt(f) = {} /\ Found(f) = {}
      BY <1>1, <1>2, <1>3 DEF HitAt, Found
    <2> DEFINE at == [k \in {} |-> 0]
    <2>2. at \in [{} -> {}]
      OBVIOUS
    <2>3. Reported(f, at)
      BY <2>1, <2>2 DEF Reported
    <2> QED
      BY <2>3
  <1>6. CandidateInv
    BY <1>3 DEF CandidateInv
  <1>7. TriageInv
    <2>1. \A k \in 1..Len(findings) : findings[k].rule = "high_confidence"
      BY <1>3
    <2> QED
      BY <1>1, <1>3, <2>1, OnlyHits
  <1>8. RaisedInv
    BY <1>1 DEF RaisedInv
  <1> QED
    BY <1>4, <1>5, <1>6, <1>7, <1>8 DEF ScanInv

LEMMA AscendingFacts ==
  ASSUME NEW L \in Nat, NEW I \in SUBSET (1..L)
  PROVE  /\ Cardinality(I) \in Nat /\ DOMAIN Ascending(I) = 1..Cardinality(I)
         /\ \A n \in 1..Cardinality(I) : Ascending(I)[n] \in I
         /\ \A m, n \in 1..Cardinality(I) : Ascending(I)[m] = Ascending(I)[n] => m = n
         /\ \A i \in I : \E n \in 1..Cardinality(I) : Ascending(I)[n] = i
  <1>1. Cardinality(I) \in Nat
    BY FinitePositions
  <1>2. DOMAIN Ascending(I) = 1..Cardinality(I)
        /\ \A n \in 1..Cardinality(I) : Ascending(I)[n] = Nth(I, n)
    BY DEF Ascending
  <1>3. \A n \in 1..Cardinality(I) : Nth(I, n) \in I
    BY NthFacts
  <1>4. \A m, n \in 1..Cardinality(I) : m # n => Nth(I, m) # Nth(I, n)
    BY NthDistinct
  <1>5. \A i \in I : \E n \in 1..Cardinality(I) : Nth(I, n) = i
    BY NthOf
  <1> QED
    BY <1>1, <1>2, <1>3, <1>4, <1>5

\* What is reported of a match has its type.
LEMMA PlaceTypes ==
  ASSUME NEW text \in Seq(Tokens), NEW o \in Hits(text) \cup Ambiguous(text)
  PROVE  /\ o \in DOMAIN text /\ text[o] # "nl" /\ text[o] # "sp"
         /\ LineNumber(text, o) \in Nat /\ LineContext(text, o) \in Seq(Tokens)
  <1>1. o \in DOMAIN text /\ text[o] # "nl" /\ text[o] # "sp"
    BY DEF Hits, Ambiguous
  <1> QED
    BY <1>1, LineOfOffset

-----------------------------------------------------------------------------
(***************************************************************************)
(* The steps.                                                              *)
(***************************************************************************)

\* What ScanFile appends for the next file.
NewFindings(text, f) ==
  LET hit == Ascending(Hits(text)) IN
    [k \in DOMAIN hit |-> [rule |-> "high_confidence", file |-> f,
       line |-> LineNumber(text, hit[k]), snippet |-> LineContext(text, hit[k])]]

NewCandidates(text, f) ==
  LET amb == Ascending(Ambiguous(text)) IN
    [k \in DOMAIN amb |-> [index |-> 0, file |-> f,
       line |-> LineNumber(text, amb[k]), context |-> LineContext(text, amb[k])]]

LEMMA NewFindingsFacts ==
  ASSUME NEW text \in Seq(Tokens), NEW f \in Nat
  PROVE  LET n == NewFindings(text, f)
             hit == Ascending(Hits(text)) IN
           /\ n \in Seq(Finding) /\ Len(n) = Cardinality(Hits(text))
           /\ \A k \in 1..Len(n) :
                /\ n[k].rule = "high_confidence" /\ n[k].file = f
                /\ n[k].line = LineNumber(text, hit[k])
                /\ n[k].snippet = LineContext(text, hit[k])
  <1> DEFINE hit == Ascending(Hits(text))
             C == Cardinality(Hits(text))
             place(o) == [rule |-> "high_confidence", file |-> f,
                          line |-> LineNumber(text, o), snippet |-> LineContext(text, o)]
  <1>1. Len(text) \in Nat /\ Hits(text) \in SUBSET (1..Len(text))
    BY LenProperties DEF Hits
  <1>2. C \in Nat /\ DOMAIN hit = 1..C /\ \A k \in 1..C : hit[k] \in Hits(text)
    BY <1>1, AscendingFacts
  <1>3. \A o \in Hits(text) : LineNumber(text, o) \in Nat /\ LineContext(text, o) \in Seq(Tokens)
    BY PlaceTypes
  <1>4. \A o \in Hits(text) : place(o) \in Finding
    BY <1>3 DEF Finding
  <1>5. NewFindings(text, f) = [k \in 1..C |-> place(hit[k])]
    BY <1>2, Zenon DEF NewFindings
  <1> HIDE DEF hit, C, place
  <1>6. NewFindings(text, f) \in Seq(Finding) /\ Len(NewFindings(text, f)) = C
    BY <1>2, <1>4, <1>5
  <1>7. ASSUME NEW k \in 1..C
        PROVE  /\ NewFindings(text, f)[k].rule = "high_confidence"
               /\ NewFindings(text, f)[k].file = f
               /\ NewFindings(text, f)[k].line = LineNumber(text, hit[k])
               /\ NewFindings(text, f)[k].snippet = LineContext(text, hit[k])
    BY <1>5 DEF place
  <1> QED
    BY <1>6, <1>7 DEF hit, C

LEMMA NewCandidatesFacts ==
  ASSUME NEW text \in Seq(Tokens), NEW f \in Nat
  PROVE  LET n == NewCandidates(text, f) IN
           /\ n \in Seq(Candidate)
           /\ \A k \in 1..Len(n) :
                /\ n[k].file = f
                /\ \E o \in Ambiguous(text) : /\ n[k].line = LineNumber(text, o)
                                              /\ n[k].context = LineContext(text, o)
  <1> DEFINE amb == Ascending(Ambiguous(text))
             C == Cardinality(Ambiguous(text))
             place(o) == [index |-> 0, file |-> f,
                          line |-> LineNumber(text, o), context |-> LineContext(text, o)]
  <1>1. Len(text) \in Nat /\ Ambiguous(text) \in SUBSET (1..Len(text))
    BY LenProperties DEF Ambiguous
  <1>2. C \in Nat /\ DOMAIN amb = 1..C /\ \A k \in 1..C : amb[k] \in Ambiguous(text)
    BY <1>1, AscendingFacts
  <1>3. \A o \in Ambiguous(text) : LineNumber(text, o) \in Nat /\ LineContext(text, o) \in Seq(Tokens)
    BY PlaceTypes
  <1>4. \A o \in Ambiguous(text) : place(o) \in Candidate
    BY <1>3 DEF Candidate
  <1>5. NewCandidates(text, f) = [k \in 1..C |-> place(amb[k])]
    BY <1>2, Zenon DEF NewCandidates
  <1> HIDE DEF amb, C, place
  <1>6. NewCandidates(text, f) \in Seq(Candidate) /\ Len(NewCandidates(text, f)) = C
    BY <1>2, <1>4, <1>5
  <1>7. ASSUME NEW k \in 1..C
        PROVE  /\ NewCandidates(text, f)[k].file = f
               /\ NewCandidates(text, f)[k].line = LineNumber(text, amb[k])
               /\ NewCandidates(text, f)[k].context = LineContext(text, amb[k])
    BY <1>5 DEF place
  <1> QED
    BY <1>2, <1>6, <1>7

LEMMA ScanFileKeeps ==
  ASSUME ScanInv, ScanFile
  PROVE  ScanInv'
  <1>0. PICK g, text, N, M, nf, nc :
          /\ g = scanned + 1 /\ text = files[g] /\ N = Len(findings) /\ M = Len(candidates)
          /\ nf = NewFindings(text, g) /\ nc = NewCandidates(text, g)
    OBVIOUS
  <1> DEFINE hit == Ascending(Hits(text))
             C == Cardinality(Hits(text))
  <1>1. /\ phase = "scan" /\ scanned < Len(files) /\ scanned' = g
        /\ findings' = findings \o nf /\ candidates' = candidates \o nc
        /\ files' = files /\ decisions' = decisions /\ phase' = phase
    BY <1>0, Zenon DEF ScanFile, NewFindings, NewCandidates
  <1>2. /\ files \in Seq(Seq(Tokens)) /\ Len(files) \in Nat /\ DOMAIN files = 1..Len(files)
        /\ scanned \in Nat /\ g \in 1..Len(files) /\ g \in Nat
        /\ findings \in Seq(Finding) /\ N \in Nat /\ DOMAIN findings = 1..N
        /\ candidates \in Seq(Candidate) /\ M \in Nat /\ DOMAIN candidates = 1..M
        /\ decisions = <<>>
    <2>1. /\ files \in Seq(Seq(Tokens)) /\ scanned \in 0..Len(files)
          /\ findings \in Seq(Finding) /\ candidates \in Seq(Candidate) /\ decisions = <<>>
      BY <1>1 DEF ScanInv, ScanTypes
    <2>2. Len(files) \in Nat /\ DOMAIN files = 1..Len(files)
      BY <2>1, LenProperties
    <2>3. scanned \in Nat /\ g \in 1..Len(files) /\ g \in Nat
      BY <1>0, <1>1, <2>1, <2>2
    <2>4. N \in Nat /\ DOMAIN findings = 1..N
      BY <1>0, <2>1, LenProperties
    <2>5. M \in Nat /\ DOMAIN candidates = 1..M
      BY <1>0, <2>1, LenProperties
    <2> QED
      BY <2>1, <2>2, <2>3, <2>4, <2>5
  <1>3. text \in Seq(Tokens)
    BY <1>0, <1>2, ElementOfSeq
  <1>4. /\ C \in Nat /\ \A n \in 1..C : hit[n] \in Hits(text)
        /\ \A m, n \in 1..C : hit[m] = hit[n] => m = n
        /\ \A o \in Hits(text) : \E n \in 1..C : hit[n] = o
    <2>1. Len(text) \in Nat /\ Hits(text) \in SUBSET (1..Len(text))
      BY <1>3, LenProperties DEF Hits
    <2> QED
      BY <2>1, AscendingFacts
  <1>5. /\ nf \in Seq(Finding) /\ Len(nf) = C
        /\ \A k \in 1..C : /\ nf[k].rule = "high_confidence" /\ nf[k].file = g
                           /\ nf[k].line = LineNumber(text, hit[k])
                           /\ nf[k].snippet = LineContext(text, hit[k])
    <2>1. g \in Nat
      BY <1>2
    <2>2. /\ NewFindings(text, g) \in Seq(Finding) /\ Len(NewFindings(text, g)) = C
          /\ \A k \in 1..Len(NewFindings(text, g)) :
               /\ NewFindings(text, g)[k].rule = "high_confidence"
               /\ NewFindings(text, g)[k].file = g
               /\ NewFindings(text, g)[k].line = LineNumber(text, hit[k])
               /\ NewFindings(text, g)[k].snippet = LineContext(text, hit[k])
      BY <1>3, <2>1, NewFindingsFacts
    <2>3. nf = NewFindings(text, g)
      BY <1>0
    <2> HIDE DEF hit, C
    <2> QED
      BY <2>2, <2>3
  <1>6. /\ nc \in Seq(Candidate)
        /\ \A k \in 1..Len(nc) :
             /\ nc[k].file = g
             /\ \E o \in Ambiguous(text) : /\ nc[k].line = LineNumber(text, o)
                                           /\ nc[k].context = LineContext(text, o)
    <2>1. g \in Nat
      BY <1>2
    <2> QED
      <3>1. /\ NewCandidates(text, g) \in Seq(Candidate)
            /\ \A k \in 1..Len(NewCandidates(text, g)) :
                 /\ NewCandidates(text, g)[k].file = g
                 /\ \E o \in Ambiguous(text) :
                      /\ NewCandidates(text, g)[k].line = LineNumber(text, o)
                      /\ NewCandidates(text, g)[k].context = LineContext(text, o)
        BY <1>3, <2>1, NewCandidatesFacts
      <3>2. nc = NewCandidates(text, g)
        BY <1>0
      <3> QED
        BY <3>1, <3>2
  <1> HIDE DEF hit, C
  <1>7. /\ findings' \in Seq(Finding) /\ Len(findings') = N + C
        /\ DOMAIN findings' = 1..(N + C)
        /\ \A k \in 1..N : findings'[k] = findings[k]
        /\ \A k \in 1..C : findings'[N + k] = nf[k]
        /\ \A k \in 1..(N + C) : k \in 1..N \/ \E j \in 1..C : k = N + j
    <2>1. /\ findings \o nf \in Seq(Finding) /\ Len(findings \o nf) = N + C
          /\ \A k \in 1..N : (findings \o nf)[k] = findings[k]
          /\ \A k \in 1..C : (findings \o nf)[N + k] = nf[k]
          /\ \A k \in 1..(N + C) : k \in 1..N \/ \E j \in 1..C : k = N + j
      <3>1. /\ findings \o nf \in Seq(Finding)
            /\ Len(findings \o nf) = Len(findings) + Len(nf)
            /\ \A k \in 1..Len(findings) : (findings \o nf)[k] = findings[k]
            /\ \A k \in 1..Len(nf) : (findings \o nf)[Len(findings) + k] = nf[k]
            /\ \A k \in 1..Len(findings \o nf) :
                 k \in 1..Len(findings) \/ \E j \in 1..Len(nf) : k = Len(findings) + j
        <4>1. findings \in Seq(Finding) /\ nf \in Seq(Finding)
          BY <1>2, <1>5
        <4>2. findings \o nf \in Seq(Finding)
          BY <4>1, ConcatFacts
        <4>3. Len(findings \o nf) = Len(findings) + Len(nf)
          BY <4>1, ConcatFacts
        <4>4. \A k \in 1..Len(findings) : (findings \o nf)[k] = findings[k]
          BY <4>1, ConcatFacts
        <4>5. \A k \in 1..Len(nf) : (findings \o nf)[Len(findings) + k] = nf[k]
          BY <4>1, ConcatFacts
        <4>6. \A k \in 1..Len(findings \o nf) :
                k \in 1..Len(findings) \/ \E j \in 1..Len(nf) : k = Len(findings) + j
          BY <4>1, ConcatFacts
        <4> QED
          BY <4>2, <4>3, <4>4, <4>5, <4>6, Zenon
      <3> QED
        <4>1. N = Len(findings) /\ Len(nf) = C
          BY <1>0, <1>5
        <4> QED
          BY <3>1, <4>1
    <2>2. DOMAIN (findings \o nf) = 1..(N + C)
      BY <2>1, LenProperties
    <2>3. findings' = findings \o nf
      BY <1>1
    <2> QED
      BY <2>1, <2>2, <2>3
  <1>8. /\ candidates' \in Seq(Candidate)
        /\ DOMAIN candidates' = 1..(M + Len(nc))
        /\ \A k \in 1..M : candidates'[k] = candidates[k]
        /\ \A k \in 1..Len(nc) : candidates'[M + k] = nc[k]
        /\ \A k \in 1..(M + Len(nc)) : k \in 1..M \/ \E j \in 1..Len(nc) : k = M + j
    <2>1. /\ candidates \o nc \in Seq(Candidate) /\ Len(candidates \o nc) = M + Len(nc)
          /\ \A k \in 1..M : (candidates \o nc)[k] = candidates[k]
          /\ \A k \in 1..Len(nc) : (candidates \o nc)[M + k] = nc[k]
          /\ \A k \in 1..(M + Len(nc)) : k \in 1..M \/ \E j \in 1..Len(nc) : k = M + j
      <3>1. /\ candidates \o nc \in Seq(Candidate)
            /\ Len(candidates \o nc) = Len(candidates) + Len(nc)
            /\ \A k \in 1..Len(candidates) : (candidates \o nc)[k] = candidates[k]
            /\ \A k \in 1..Len(nc) : (candidates \o nc)[Len(candidates) + k] = nc[k]
            /\ \A k \in 1..Len(candidates \o nc) :
                 k \in 1..Len(candidates) \/ \E j \in 1..Len(nc) : k = Len(candidates) + j
        <4>1. candidates \in Seq(Candidate) /\ nc \in Seq(Candidate)
          BY <1>2, <1>6
        <4>2. candidates \o nc \in Seq(Candidate)
          BY <4>1, ConcatFacts
        <4>3. Len(candidates \o nc) = Len(candidates) + Len(nc)
          BY <4>1, ConcatFacts
        <4>4. \A k \in 1..Len(candidates) : (candidates \o nc)[k] = candidates[k]
          BY <4>1, ConcatFacts
        <4>5. \A k \in 1..Len(nc) : (candidates \o nc)[Len(candidates) + k] = nc[k]
          BY <4>1, ConcatFacts
        <4>6. \A k \in 1..Len(candidates \o nc) :
                k \in 1..Len(candidates) \/ \E j \in 1..Len(nc) : k = Len(candidates) + j
          BY <4>1, ConcatFacts
        <4> QED
          BY <4>2, <4>3, <4>4, <4>5, <4>6, Zenon
      <3> QED
        BY <1>0, <1>6, <3>1
    <2>2. DOMAIN (candidates \o nc) = 1..(M + Len(nc))
      BY <2>1, LenProperties
    <2>3. candidates' = candidates \o nc
      BY <1>1
    <2> QED
      BY <2>1, <2>2, <2>3
  <1>9. ScanTypes'
    <2>1. scanned' \in 0..Len(files')
      BY <1>1, <1>2
    <2>2. decisions' \in Seq(Decision(Len(candidates))')
      BY <1>1, <1>2, EmptySeq
    <2> QED
      BY <1>1, <1>2, <1>7, <1>8, <2>1, <2>2 DEF ScanTypes
  <1>10. ASSUME NEW f \in DOMAIN files PROVE \E at : Reported(f, at)'
    <2>1. PICK at : Reported(f, at)
      BY DEF ScanInv, HitsInv
    <2>2. CASE f # g
      <3>1. \A k \in 1..C : findings'[N + k].file # f
        BY <1>5, <1>7, <2>2
      <3>2. \A k : k \in HitAt(f)' <=> k \in HitAt(f)
        <4>1. ASSUME NEW k \in HitAt(f)' PROVE k \in HitAt(f)
          <5>1. k \in 1..(N + C) /\ findings'[k].rule = "high_confidence" /\ findings'[k].file = f
            BY <1>7 DEF HitAt
          <5>2. k \in 1..N
            BY <1>7, <3>1, <5>1
          <5> QED
            BY <1>2, <1>7, <5>1, <5>2 DEF HitAt
        <4>2. ASSUME NEW k \in HitAt(f) PROVE k \in HitAt(f)'
          <5>1. k \in 1..N /\ findings[k].rule = "high_confidence" /\ findings[k].file = f
            BY <1>2 DEF HitAt
          <5>2. k \in 1..(N + C)
            BY <1>2, <1>4, <5>1
          <5> QED
            BY <1>7, <5>1, <5>2 DEF HitAt
        <4> QED
          BY <4>1, <4>2
      <3>3. HitAt(f)' = HitAt(f)
        BY <3>2
      <3>4. Found(f)' = Found(f)
        <4>1. f \in Nat /\ (f <= g <=> f <= scanned)
          BY <1>0, <1>2, <2>2
        <4> QED
          BY <1>1, <4>1 DEF Found
      <3>5. \A k \in HitAt(f) : findings'[k] = findings[k]
        BY <1>2, <1>7 DEF HitAt
      <3> QED
        <4>1. files'[f] = files[f]
          BY <1>1
        <4>2. /\ at \in [HitAt(f) -> Found(f)]
              /\ \A j, k \in HitAt(f) : at[j] = at[k] => j = k
              /\ \A o \in Found(f) : \E k \in HitAt(f) : at[k] = o
              /\ \A k \in HitAt(f) : /\ findings[k].line = LineNumber(files[f], at[k])
                                     /\ findings[k].snippet = LineContext(files[f], at[k])
          BY <2>1 DEF Reported
        <4>3. \A k \in HitAt(f) : /\ findings'[k].line = LineNumber(files'[f], at[k])
                                  /\ findings'[k].snippet = LineContext(files'[f], at[k])
          BY <3>5, <4>1, <4>2
        <4>4. Reported(f, at)'
          BY <3>3, <3>4, <4>2, <4>3, ZenonT(40) DEF Reported
        <4> QED
          BY <4>4
    <2>3. CASE f = g
      <3>1. Found(f) = {} /\ Found(f)' = Hits(text)
        <4>1. ~(g <= scanned) /\ g <= g
          BY <1>0, <1>2
        <4> QED
          BY <1>0, <1>1, <2>3, <4>1 DEF Found
      <3>2. HitAt(f) = {}
        BY <2>1, <3>1 DEF Reported
      <3>3. \A k : k \in HitAt(f)' <=> \E j \in 1..C : k = N + j
        <4>1. ASSUME NEW k \in HitAt(f)' PROVE \E j \in 1..C : k = N + j
          <5>1. k \in 1..(N + C) /\ findings'[k].rule = "high_confidence" /\ findings'[k].file = f
            BY <1>7 DEF HitAt
          <5>2. k \notin 1..N
            BY <1>2, <1>7, <3>2, <5>1 DEF HitAt
          <5> QED
            BY <1>7, <5>1, <5>2
        <4>2. ASSUME NEW j \in 1..C PROVE N + j \in HitAt(f)'
          <5>1. N + j \in 1..(N + C)
            BY <1>2, <1>4
          <5> QED
            BY <1>5, <1>7, <2>3, <5>1 DEF HitAt
        <4> QED
          BY <4>1, <4>2
      <3> PICK new : new = [k \in HitAt(f)' |-> hit[k - N]]
        OBVIOUS
      <3>4. \A k \in HitAt(f)' : /\ k - N \in 1..C /\ k = N + (k - N)
                                 /\ new[k] = hit[k - N] /\ findings'[k] = nf[k - N]
        <4> TAKE k \in HitAt(f)'
        <4>1. PICK j \in 1..C : k = N + j
          BY <3>3
        <4>2. k - N = j
          BY <1>2, <1>4, <4>1
        <4> QED
          BY <1>7, <4>1, <4>2
      <3>5. new \in [HitAt(f)' -> Hits(text)]
        BY <1>4, <3>4
      <3>6. \A j, k \in HitAt(f)' : new[j] = new[k] => j = k
        BY <1>4, <3>4
      <3>7. ASSUME NEW o \in Hits(text) PROVE \E k \in HitAt(f)' : new[k] = o
        <4>1. PICK n \in 1..C : hit[n] = o
          BY <1>4
        <4>2. N + n \in HitAt(f)'
          BY <3>3
        <4>3. (N + n) - N = n
          BY <1>2, <1>4
        <4> QED
          BY <3>4, <4>1, <4>2, <4>3
      <3>8. \A k \in HitAt(f)' : /\ findings'[k].line = LineNumber(text, new[k])
                                 /\ findings'[k].snippet = LineContext(text, new[k])
        BY <1>5, <3>4
      <3>9. files'[f] = text
        BY <1>0, <1>1, <2>3
      <3>10. Reported(f, new)'
        BY <3>1, <3>5, <3>6, <3>7, <3>8, <3>9 DEF Reported
      <3> QED
        BY <3>10
    <2> QED
      BY <2>2, <2>3
  <1>11. HitsInv'
    BY <1>1, <1>10 DEF HitsInv
  <1>12. CandidateInv'
    <2>1. \A k \in 1..M : Stands(candidates[k])
      BY <1>2 DEF ScanInv, CandidateInv
    <2>2. ASSUME NEW c, Stands(c) PROVE Stands(c)'
      <3>1. c.file \in 1..g
        BY <1>0, <1>2, <2>2 DEF Stands
      <3> QED
        BY <1>1, <2>2, <3>1 DEF Stands
    <2>3. \A j \in 1..Len(nc) : Stands(nc[j])'
      <3>1. g \in 1..g
        BY <1>2
      <3> QED
        <4>1. files'[g] = text /\ scanned' = g
          BY <1>0, <1>1
        <4> QED
          BY <1>6, <3>1, <4>1 DEF Stands
    <2>4. \A c : (\E k \in DOMAIN candidates' : c = candidates'[k]) => Stands(c)'
      BY <1>8, <2>1, <2>2, <2>3
    <2>5. (\A k \in DOMAIN candidates : Stands(candidates[k]))'
      BY <2>4 DEF Stands
    <2> QED
      BY <1>1, <2>5 DEF CandidateInv
  <1>13. TriageInv'
    <2>1. \A k \in 1..N : findings[k].rule = "high_confidence"
      BY <1>0, <1>2, OnlyHits DEF ScanInv
    <2>2. \A k \in 1..Len(findings') : findings'[k].rule = "high_confidence"
      <3>1. \A k \in 1..N : findings'[k].rule = "high_confidence"
        BY <1>7, <2>1
      <3>2. \A j \in 1..C : findings'[N + j].rule = "high_confidence"
        BY <1>5, <1>7
      <3>3. \A k \in 1..Len(findings') : k \in 1..N \/ \E j \in 1..C : k = N + j
        BY <1>7
      <3> QED
        BY <3>1, <3>2, <3>3, Zenon
    <2> QED
      <3>1. (findings \in Seq(Finding) /\ decisions = <<>>)'
        BY <1>1, <1>2, <1>7
      <3>2. ((findings \in Seq(Finding) /\ decisions = <<>>)
               => (TriageInv <=> \A k \in 1..Len(findings) : findings[k].rule = "high_confidence"))'
        BY OnlyHits, PTL
      <3> QED
        BY <2>2, <3>1, <3>2
  <1>14. RaisedInv'
    BY <1>1 DEF RaisedInv
  <1> QED
    BY <1>9, <1>11, <1>12, <1>13, <1>14 DEF ScanInv

LEMMA HitsUntouched ==
  ASSUME HitsInv, files' = files, scanned' = scanned, findings' = findings
  PROVE  HitsInv'
  <1>1. ASSUME NEW f, NEW at, Reported(f, at) PROVE Reported(f, at)'
    <2>1. HitAt(f)' = HitAt(f) /\ Found(f)' = Found(f)
      BY DEF HitAt, Found
    <2> QED
      BY <1>1, <2>1, ZenonT(40) DEF Reported
  <1> QED
    BY <1>1 DEF HitsInv

LEMMA TriageUntouched ==
  ASSUME TriageInv, findings' = findings, candidates' = candidates, decisions' = decisions
  PROVE  TriageInv'
  <1>1. Counted' = Counted
    BY DEF Counted
  <1>2. ASSUME NEW t, NEW d, Answers(t, d) PROVE Answers(t, d)'
    BY <1>2 DEF Answers
  <1>3. PICK h \in 0..Len(findings) :
          /\ Len(findings) = h + Len(Counted)
          /\ \A k \in 1..h : findings[k].rule = "high_confidence"
          /\ \A k \in 1..Len(Counted) : Answers(findings[h + k], Counted[k])
    BY DEF TriageInv
  <1>4. (\A k \in 1..Len(Counted) : Answers(findings[h + k], Counted[k]))'
    BY <1>1, <1>3, Zenon DEF Answers
  <1> QED
    BY <1>1, <1>3, <1>4 DEF TriageInv

LEMMA ScanRaisesKeeps ==
  ASSUME ScanInv, ScanRaises
  PROVE  ScanInv'
  <1>1. /\ phase = "scan" /\ phase' = "raised" /\ scanned < Len(files)
        /\ TooLong(files[scanned + 1]) # {}
        /\ files' = files /\ scanned' = scanned /\ findings' = findings
        /\ candidates' = candidates /\ decisions' = decisions
    BY DEF ScanRaises
  <1>2. ScanTypes'
    BY <1>1 DEF ScanInv, ScanTypes
  <1>3. HitsInv'
    BY <1>1, HitsUntouched DEF ScanInv
  <1>4. CandidateInv'
    BY <1>1 DEF ScanInv, CandidateInv, Stands
  <1>5. TriageInv'
    BY <1>1, TriageUntouched DEF ScanInv
  <1>6. RaisedInv'
    <2>1. scanned + 1 \in DOMAIN files
      <3>1. files \in Seq(Seq(Tokens)) /\ scanned \in 0..Len(files)
        BY DEF ScanInv, ScanTypes
      <3> QED
        BY <1>1, <3>1, LenProperties
    <2> QED
      BY <1>1, <2>1 DEF RaisedInv
  <1> QED
    BY <1>2, <1>3, <1>4, <1>5, <1>6 DEF ScanInv

LEMMA NumberKeeps ==
  ASSUME ScanInv, Number
  PROVE  ScanInv'
  <1>1. /\ phase = "scan" /\ scanned = Len(files) /\ phase' \in {"done", "prompt"}
        /\ candidates' = [k \in DOMAIN candidates |-> [candidates[k] EXCEPT !.index = k - 1]]
        /\ files' = files /\ scanned' = scanned /\ findings' = findings /\ decisions' = decisions
    BY DEF Number
  <1>2. /\ files \in Seq(Seq(Tokens)) /\ scanned \in 0..Len(files)
        /\ findings \in Seq(Finding) /\ candidates \in Seq(Candidate) /\ decisions = <<>>
    BY <1>1 DEF ScanInv, ScanTypes
  <1>3. /\ Len(candidates) \in Nat /\ DOMAIN candidates = 1..Len(candidates)
        /\ \A k \in 1..Len(candidates) : candidates[k] \in Candidate
    BY <1>2, LenProperties
  <1>4. /\ candidates' \in Seq(Candidate) /\ DOMAIN candidates' = DOMAIN candidates
        /\ Len(candidates') = Len(candidates)
        /\ \A k \in DOMAIN candidates :
             /\ candidates'[k].index = k - 1 /\ candidates'[k].file = candidates[k].file
             /\ candidates'[k].line = candidates[k].line
             /\ candidates'[k].context = candidates[k].context
    <2>1. \A k \in 1..Len(candidates) : [candidates[k] EXCEPT !.index = k - 1] \in Candidate
      BY <1>3 DEF Candidate
    <2>2. candidates' \in Seq(Candidate) /\ Len(candidates') = Len(candidates)
      BY <1>1, <1>3, <2>1
    <2>3. DOMAIN candidates' = DOMAIN candidates
      BY <1>1
    <2>4. ASSUME NEW k \in DOMAIN candidates
          PROVE  /\ candidates'[k].index = k - 1 /\ candidates'[k].file = candidates[k].file
                 /\ candidates'[k].line = candidates[k].line
                 /\ candidates'[k].context = candidates[k].context
      BY <1>1, <1>3 DEF Candidate
    <2> QED
      BY <2>2, <2>3, <2>4
  <1>5. ScanTypes'
    <2>1. decisions' \in Seq(Decision(Len(candidates))')
      BY <1>1, <1>2, EmptySeq
    <2> QED
      BY <1>1, <1>2, <1>4, <2>1 DEF ScanTypes
  <1>6. HitsInv'
    BY <1>1, HitsUntouched DEF ScanInv
  <1>7. CandidateInv'
    <2>1. ASSUME NEW k \in DOMAIN candidates
          PROVE  candidates'[k].index = k - 1 /\ Stands(candidates[k])'
      <3>1. Stands(candidates[k])
        BY DEF ScanInv, CandidateInv
      <3> QED
        BY <1>1, <1>4, <3>1 DEF Stands
    <2> QED
      BY <1>4, <2>1 DEF CandidateInv
  <1>8. TriageInv'
    <2>1. \A k \in 1..Len(findings) : findings[k].rule = "high_confidence"
      BY <1>2, OnlyHits DEF ScanInv
    <2>2. (findings \in Seq(Finding) /\ decisions = <<>>)'
      BY <1>1, <1>2
    <2>3. ((findings \in Seq(Finding) /\ decisions = <<>>)
             => (TriageInv <=> \A k \in 1..Len(findings) : findings[k].rule = "high_confidence"))'
      BY OnlyHits, PTL
    <2> QED
      BY <1>1, <2>1, <2>2, <2>3
  <1>9. RaisedInv'
    BY <1>1 DEF RaisedInv
  <1> QED
    BY <1>5, <1>6, <1>7, <1>8, <1>9 DEF ScanInv

LEMMA TriageFailsKeeps ==
  ASSUME ScanInv, TriageFails
  PROVE  ScanInv'
  <1>1. /\ phase = "prompt" /\ phase' = "degraded"
        /\ files' = files /\ scanned' = scanned /\ findings' = findings
        /\ candidates' = candidates /\ decisions' = decisions
    BY DEF TriageFails
  <1>2. ScanTypes'
    BY <1>1 DEF ScanInv, ScanTypes
  <1>3. HitsInv'
    BY <1>1, HitsUntouched DEF ScanInv
  <1>4. CandidateInv'
    BY <1>1 DEF ScanInv, CandidateInv, Stands
  <1>5. TriageInv'
    BY <1>1, TriageUntouched DEF ScanInv
  <1>6. RaisedInv'
    BY <1>1 DEF RaisedInv
  <1> QED
    BY <1>2, <1>3, <1>4, <1>5, <1>6 DEF ScanInv

LEMMA ScanStutters ==
  ASSUME ScanInv, UNCHANGED vars
  PROVE  ScanInv'
  <1>1. /\ files' = files /\ scanned' = scanned /\ findings' = findings
        /\ candidates' = candidates /\ decisions' = decisions /\ phase' = phase
    BY DEF vars
  <1>2. ScanTypes'
    BY <1>1 DEF ScanInv, ScanTypes
  <1>3. HitsInv'
    BY <1>1, HitsUntouched DEF ScanInv
  <1>4. CandidateInv'
    BY <1>1 DEF ScanInv, CandidateInv, Stands
  <1>5. TriageInv'
    BY <1>1, TriageUntouched DEF ScanInv
  <1>6. RaisedInv'
    BY <1>1 DEF ScanInv, RaisedInv
  <1> QED
    BY <1>2, <1>3, <1>4, <1>5, <1>6 DEF ScanInv

\* A decision makes a finding if its index is a candidate's, and by_index finds it.
LEMMA ConfirmedFacts ==
  ASSUME ScanInv, phase = "prompt", NEW d \in Decision(Len(candidates))
  PROVE  /\ Confirmed(d) <=> d.is_secret /\ d.sure /\ d.index < Len(candidates)
         /\ d.index < Len(candidates) => /\ ByIndex(d.index) \in ToSet(candidates)
                                         /\ ByIndex(d.index).index = d.index
  <1> DEFINE M == Len(candidates)
  <1>1. /\ candidates \in Seq(Candidate) /\ M \in Nat /\ DOMAIN candidates = 1..M
        /\ ToSet(candidates) = {candidates[k] : k \in 1..M}
        /\ \A k \in 1..M : candidates[k].index = k - 1
    <2>1. candidates \in Seq(Candidate)
      BY DEF ScanInv, ScanTypes
    <2>2. M \in Nat /\ DOMAIN candidates = 1..M
          /\ ToSet(candidates) = {candidates[k] : k \in 1..M}
      BY <2>1, ToSetOfSeq
    <2>3. \A k \in 1..M : candidates[k].index = k - 1
      BY <2>2 DEF ScanInv, CandidateInv
    <2> QED
      BY <2>1, <2>2, <2>3
  <1>2. d.index \in Nat
    BY <1>1 DEF Decision
  <1> HIDE DEF M
  <1>3. \A k \in 1..M : candidates[k].index = d.index <=> k = d.index + 1
    BY <1>1, <1>2
  <1>4. (\E k \in DOMAIN candidates : candidates[k].index = d.index) <=> d.index < M
    <2>1. d.index < M => d.index + 1 \in 1..M
      BY <1>1, <1>2
    <2>2. d.index + 1 \in 1..M => d.index < M
      BY <1>1, <1>2
    <2> QED
      BY <1>1, <1>3, <2>1, <2>2
  <1>5. Confirmed(d) <=> d.is_secret /\ d.sure /\ d.index < M
    BY <1>4, Zenon DEF Confirmed
  <1>6. ASSUME d.index < M
        PROVE  ByIndex(d.index) \in ToSet(candidates) /\ ByIndex(d.index).index = d.index
    <2> DEFINE S == {k \in DOMAIN candidates : candidates[k].index = d.index}
               n == d.index + 1
    <2>1. n \in 1..M /\ n \in Int
      BY <1>1, <1>2, <1>6
    <2>2. S \in SUBSET Int /\ n \in S /\ \A k \in S : k <= n
      BY <1>1, <1>3, <2>1
    <2>3. Max(S) = n
      BY <2>2, MaxIs
    <2>4. ByIndex(d.index) = candidates[n]
      BY <2>3, Zenon DEF ByIndex
    <2> QED
      BY <1>1, <1>3, <2>1, <2>4
  <1> QED
    BY <1>5, <1>6 DEF M

LEMMA TriageKeeps ==
  ASSUME ScanInv, NEW ds \in Seq(Decision(Len(candidates))), Triage(ds)
  PROVE  ScanInv'
  <1> DEFINE I == {k \in DOMAIN ds : Confirmed(ds[k])}
             yes == Select(ds, I)
             found(d) == LET c == ByIndex(d.index) IN
               [rule |-> "triaged", file |-> c.file, line |-> c.line, snippet |-> c.context]
             D == Decision(Len(candidates))
  <1>1. /\ phase = "prompt" /\ phase' = "done" /\ decisions' = ds
        /\ files' = files /\ scanned' = scanned /\ candidates' = candidates
        /\ findings' = findings \o [k \in DOMAIN yes |-> found(yes[k])]
    BY ZenonT(40) DEF Triage
  <1>2. /\ findings \in Seq(Finding) /\ candidates \in Seq(Candidate) /\ decisions = <<>>
        /\ Len(findings) \in Nat
    <2>1. findings \in Seq(Finding) /\ candidates \in Seq(Candidate) /\ decisions = <<>>
      BY <1>1 DEF ScanInv, ScanTypes
    <2> QED
      BY <2>1, LenProperties
  <1>3. I \in SUBSET (DOMAIN ds) /\ DOMAIN ds = 1..Len(ds) /\ Len(ds) \in Nat
    BY LenProperties
  <1>4. \A k \in DOMAIN ds : ds[k] \in D
    BY <1>3, ElementOfSeq
  <1>5. /\ yes \in Seq(D) /\ ToSet(yes) = {ds[k] : k \in I}
        /\ Len(yes) \in Nat /\ DOMAIN yes = 1..Len(yes)
        /\ \A k \in 1..Len(yes) : yes[k] \in D /\ yes[k].index < Len(candidates)
    <2>1. yes \in Seq(D) /\ ToSet(yes) = {ds[k] : k \in I}
      BY <1>3, SelectFacts DEF SelectMeans
    <2>2. /\ Len(yes) \in Nat /\ DOMAIN yes = 1..Len(yes)
          /\ \A k \in 1..Len(yes) : yes[k] \in ToSet(yes)
      <3> HIDE DEF yes, I, D
      <3>1. yes \in Seq(D)
        BY <2>1
      <3>2. /\ Len(yes) \in Nat /\ DOMAIN yes = 1..Len(yes)
            /\ ToSet(yes) = {yes[k] : k \in 1..Len(yes)}
        BY <3>1, ToSetOfSeq, ZenonT(40)
      <3> QED
        BY <3>2, ZenonT(40)
    <2>3. ASSUME NEW k \in I PROVE ds[k] \in D /\ ds[k].index < Len(candidates)
      <3>1. k \in DOMAIN ds /\ Confirmed(ds[k])
        OBVIOUS
      <3>2. ds[k] \in D
        BY <1>4, <3>1
      <3> QED
        BY <1>1, <3>1, <3>2, ConfirmedFacts, Zenon
    <2> QED
      BY <2>1, <2>2, <2>3
  <1>6. I = {k \in DOMAIN ds : ds[k].is_secret /\ ds[k].sure /\ ds[k].index < Len(candidates)}
    BY <1>1, <1>4, ConfirmedFacts, ZenonT(40)
  <1>7. Counted' = yes
    BY <1>1, <1>6, ZenonT(40) DEF Counted
  <1> HIDE DEF I, yes
  <1>8. ASSUME NEW k \in 1..Len(yes)
        PROVE  /\ found(yes[k]) \in Finding
               /\ found(yes[k]).rule = "triaged"
               /\ \E c \in ToSet(candidates) :
                    /\ c.index = yes[k].index
                    /\ found(yes[k]).file = c.file /\ found(yes[k]).line = c.line
    <2>1. PICK c \in ToSet(candidates) : c = ByIndex(yes[k].index) /\ c.index = yes[k].index
      BY <1>1, <1>5, ConfirmedFacts
    <2>2. c \in Candidate
      BY <1>2, ToSetOfSeq
    <2>3. found(yes[k]) = [rule |-> "triaged", file |-> c.file, line |-> c.line,
                           snippet |-> c.context]
      BY <2>1
    <2> QED
      BY <2>1, <2>2, <2>3 DEF Candidate, Finding
  <1>9. PICK new : new = [k \in 1..Len(yes) |-> found(yes[k])]
    OBVIOUS
  <1>10. /\ findings' = findings \o new /\ new \in Seq(Finding) /\ Len(new) = Len(yes)
         /\ \A k \in 1..Len(yes) : new[k] = found(yes[k])
    BY <1>1, <1>5, <1>8, <1>9
  <1> HIDE DEF found
  <1>11. /\ findings' \in Seq(Finding) /\ Len(findings') = Len(findings) + Len(yes)
         /\ \A k \in 1..Len(findings) : findings'[k] = findings[k]
         /\ \A k \in 1..Len(yes) : findings'[Len(findings) + k] = new[k]
         /\ \A k \in 1..Len(findings') :
              k \in 1..Len(findings) \/ \E j \in 1..Len(yes) : k = Len(findings) + j
    <2>1. findings \in Seq(Finding) /\ new \in Seq(Finding)
      BY <1>2, <1>10
    <2>2. /\ findings \o new \in Seq(Finding)
          /\ Len(findings \o new) = Len(findings) + Len(new)
          /\ \A k \in 1..Len(findings) : (findings \o new)[k] = findings[k]
          /\ \A k \in 1..Len(new) : (findings \o new)[Len(findings) + k] = new[k]
          /\ \A k \in 1..Len(findings \o new) :
               k \in 1..Len(findings) \/ \E j \in 1..Len(new) : k = Len(findings) + j
      BY <2>1, ConcatFacts
    <2> QED
      BY <1>10, <2>2
  <1>12. \A k \in 1..Len(findings) : findings[k].rule = "high_confidence"
    BY <1>2, OnlyHits DEF ScanInv
  <1>13. ScanTypes'
    <2>1. decisions' \in Seq(Decision(Len(candidates)))'
      BY <1>1
    <2> QED
      BY <1>1, <1>11, <2>1 DEF ScanInv, ScanTypes
  <1>14. HitsInv'
    <2>1. \A k \in 1..Len(yes) : findings'[Len(findings) + k].rule = "triaged"
      BY <1>8, <1>10, <1>11
    <2>2. /\ DOMAIN findings = 1..Len(findings)
          /\ DOMAIN findings' = 1..(Len(findings) + Len(yes))
          /\ \A k \in 1..Len(findings) : k \in 1..(Len(findings) + Len(yes))
      BY <1>2, <1>5, <1>11, LenProperties
    <2>3. ASSUME NEW f PROVE HitAt(f)' = HitAt(f)
      <3>1. \A k \in HitAt(f)' : k \in HitAt(f)
        <4> TAKE k \in HitAt(f)'
        <4>1. k \in 1..Len(findings') /\ findings'[k].rule = "high_confidence"
              /\ findings'[k].file = f
          BY <1>11, <2>2 DEF HitAt
        <4>2. k \in 1..Len(findings)
          BY <1>11, <2>1, <4>1
        <4> QED
          BY <1>11, <2>2, <4>1, <4>2 DEF HitAt
      <3>2. \A k \in HitAt(f) : k \in HitAt(f)'
        BY <1>11, <2>2 DEF HitAt
      <3> QED
        BY <3>1, <3>2
    <2>4. \A f : Found(f)' = Found(f)
      BY <1>1 DEF Found
    <2>5. \A f : \A k \in HitAt(f) : findings'[k] = findings[k]
      BY <1>11, <2>2 DEF HitAt
    <2> SUFFICES ASSUME NEW f \in DOMAIN files PROVE \E at : Reported(f, at)'
      BY <1>1 DEF HitsInv
    <2>6. PICK at : Reported(f, at)
      BY DEF ScanInv, HitsInv
    <2>7. /\ at \in [HitAt(f) -> Found(f)]
          /\ \A j, k \in HitAt(f) : at[j] = at[k] => j = k
          /\ \A o \in Found(f) : \E k \in HitAt(f) : at[k] = o
          /\ \A k \in HitAt(f) : /\ findings[k].line = LineNumber(files[f], at[k])
                                 /\ findings[k].snippet = LineContext(files[f], at[k])
      BY <2>6 DEF Reported
    <2>8. \A k \in HitAt(f) : /\ findings'[k].line = LineNumber(files'[f], at[k])
                              /\ findings'[k].snippet = LineContext(files'[f], at[k])
      BY <1>1, <2>5, <2>7
    <2>9. HitAt(f)' = HitAt(f) /\ Found(f)' = Found(f)
      BY <2>3, <2>4
    <2>10. Reported(f, at)'
      BY <2>7, <2>8, <2>9, ZenonT(40) DEF Reported
    <2> QED
      BY <2>10
  <1>15. CandidateInv'
    BY <1>1 DEF ScanInv, CandidateInv, Stands
  <1>16. TriageInv'
    <2>1. Len(findings) \in 0..Len(findings')
      BY <1>2, <1>5, <1>11
    <2>2. Len(findings') = Len(findings) + Len(Counted')
      BY <1>7, <1>11
    <2>3. \A k \in 1..Len(findings) : findings'[k].rule = "high_confidence"
      BY <1>11, <1>12
    <2>4. PICK h : h = Len(findings)
      OBVIOUS
    <2>5. ASSUME NEW k \in 1..Len(yes) PROVE Answers(findings[h + k], Counted[k])'
      <3>1. findings'[h + k] = found(yes[k]) /\ Counted'[k] = yes[k]
        BY <1>7, <1>10, <1>11, <2>4
      <3> QED
        BY <1>1, <1>8, <3>1 DEF Answers
    <2> QED
      BY <1>7, <2>1, <2>2, <2>3, <2>4, <2>5 DEF TriageInv
  <1>17. RaisedInv'
    BY <1>1 DEF RaisedInv
  <1> QED
    BY <1>13, <1>14, <1>15, <1>16, <1>17 DEF ScanInv

\* The matches reported, the candidates and the answers are what the texts and the
\* decisions make them: the inductive invariant of secrets_node.
THEOREM ScanInvariant == Spec => []ScanInv
  <1>1. ASSUME ScanInv, [Next]_vars PROVE ScanInv'
    <2>1. ASSUME NEW ds \in BoundedSeq(Decision(Len(candidates)), MaxDecisions), Triage(ds)
          PROVE  ScanInv'
      <3>1. ds \in Seq(Decision(Len(candidates)))
        <4>1. PICK m \in 0..MaxDecisions : ds \in [1..m -> Decision(Len(candidates))]
          BY DEF BoundedSeq, SeqOf
        <4>2. m \in Nat
          BY ScanAssumption
        <4> QED
          BY <4>1, <4>2, SeqDef
      <3> QED
        BY <1>1, <2>1, <3>1, TriageKeeps
    <2> QED
      BY <1>1, <2>1, ScanFileKeeps, ScanRaisesKeeps, NumberKeeps, TriageFailsKeeps, ScanStutters
         DEF Next
  <1> QED
    BY <1>1, ScanInit, PTL DEF Spec

-----------------------------------------------------------------------------
(***************************************************************************)
(* The properties.                                                         *)
(***************************************************************************)

\* The scan has given up on a line that is too long and has a match on it.
LEMMA RaisedForCause ==
  ASSUME ScanInv, phase = "raised"
  PROVE  \E f \in DOMAIN files : \E n \in DOMAIN Lines(files[f]) :
           LET line == Trimmed(Lines(files[f])[n]) IN
             Len(line) > MaxLine /\ ToSet(line) \cap {"hc", "hcval", "key"} # {}
  <1>1. PICK f \in DOMAIN files : TooLong(files[f]) # {}
    BY DEF ScanInv, RaisedInv
  <1> DEFINE text == files[f]
  <1>2. text \in Seq(Tokens)
    <2>1. files \in Seq(Seq(Tokens))
      BY DEF ScanInv, ScanTypes
    <2> QED
      BY <2>1, LenProperties, ElementOfSeq
  <1> HIDE DEF text
  <1>3. PICK o \in Hits(text) \cup Ambiguous(text) : Len(LineContext(text, o)) > MaxLine
    BY <1>1 DEF TooLong, text
  <1>4. o \in DOMAIN text /\ text[o] \in {"hc", "hcval", "key"}
    BY DEF Hits, Ambiguous
  <1> DEFINE m == LineNumber(text, o)
  <1>5. /\ m \in 1..Len(Lines(text)) /\ LineContext(text, o) = Trimmed(Lines(text)[m])
        /\ text[o] \in ToSet(LineContext(text, o))
    BY <1>2, <1>4, LineOfOffset
  <1>6. m \in DOMAIN Lines(text)
    <2>1. PICK at : Split(text, Len(text), Lines(text), at)
      BY <1>2, LinesSplit
    <2>2. Lines(text) \in Seq(Seq(Tokens))
      BY <2>1 DEF Split
    <2> QED
      BY <1>5, <2>2, LenProperties
  <1> HIDE DEF m
  <1> QED
    BY <1>3, <1>4, <1>5, <1>6 DEF text

LEMMA FinishedReports ==
  ScanInv /\ phase \notin {"scan", "raised"} =>
    \A f \in DOMAIN files : LET lines == Lines(files[f]) IN
      \A n \in 1..(Len(lines) + 1) :
        LET here == {k \in DOMAIN findings : /\ findings[k].rule = "high_confidence"
                                             /\ findings[k].file = f /\ findings[k].line = n} IN
          IF n > Len(lines) THEN here = {}
          ELSE /\ Cardinality(here) = Occurrences({"hc", "hcval"}, lines[n])
               /\ \A k \in here : findings[k].snippet = Trimmed(lines[n])
  <1> SUFFICES ASSUME ScanInv, phase \notin {"scan", "raised"}, NEW f \in DOMAIN files,
                      NEW n \in 1..(Len(Lines(files[f])) + 1)
               PROVE  LET lines == Lines(files[f])
                          here == {k \in DOMAIN findings :
                                     /\ findings[k].rule = "high_confidence"
                                     /\ findings[k].file = f /\ findings[k].line = n} IN
                        IF n > Len(lines) THEN here = {}
                        ELSE /\ Cardinality(here) = Occurrences({"hc", "hcval"}, lines[n])
                             /\ \A k \in here : findings[k].snippet = Trimmed(lines[n])
    BY Zenon
  <1> DEFINE text == files[f]
             lines == Lines(text)
             S == {"hc", "hcval"}
             here == {k \in DOMAIN findings : /\ findings[k].rule = "high_confidence"
                                              /\ findings[k].file = f /\ findings[k].line = n}
             there == {o \in DOMAIN text : text[o] \in S /\ LineNumber(text, o) = n}
  <1>1. text \in Seq(Tokens) /\ f <= scanned
    <2>1. files \in Seq(Seq(Tokens)) /\ scanned = Len(files)
      BY DEF ScanInv, ScanTypes
    <2>2. Len(files) \in Nat /\ f \in 1..Len(files)
      BY <2>1, LenProperties
    <2> QED
      BY <2>1, <2>2, ElementOfSeq
  <1>2. PICK at : Reported(f, at)
    BY DEF ScanInv, HitsInv
  <1>3. Found(f) = {o \in DOMAIN text : text[o] \in S}
    BY <1>1 DEF Found, Hits
  <1>4. /\ at \in [HitAt(f) -> Found(f)]
        /\ \A j, k \in HitAt(f) : at[j] = at[k] => j = k
        /\ \A o \in Found(f) : \E k \in HitAt(f) : at[k] = o
        /\ \A k \in HitAt(f) : /\ findings[k].line = LineNumber(text, at[k])
                               /\ findings[k].snippet = LineContext(text, at[k])
    BY <1>2 DEF Reported
  <1>5. \A k \in here : k \in HitAt(f) /\ findings[k].line = n
    BY DEF HitAt
  <1>6. \A k \in HitAt(f) : findings[k].line = n => k \in here
    BY DEF HitAt
  <1>7. here \in SUBSET (DOMAIN findings)
    OBVIOUS
  <1>8. \A o \in Found(f) : o \in DOMAIN text /\ text[o] # "nl"
    BY <1>3
  <1>9. \A o \in there : o \in Found(f) /\ LineNumber(text, o) = n
    BY <1>3
  <1>10. \A o \in Found(f) : LineNumber(text, o) = n => o \in there
    BY <1>3
  <1> HIDE DEF here, text, S
  <1>11. \A k \in here : /\ n \in 1..Len(lines)
                         /\ findings[k].snippet = Trimmed(lines[n])
    <2> TAKE k \in here
    <2>1. at[k] \in DOMAIN text /\ text[at[k]] # "nl" /\ LineNumber(text, at[k]) = n
      BY <1>4, <1>5, <1>8
    <2>2. n \in 1..Len(lines) /\ LineContext(text, at[k]) = Trimmed(lines[n])
      BY <1>1, <2>1, LineOfOffset
    <2> QED
      BY <1>4, <1>5, <2>2
  <1>12. Len(lines) \in Nat
    <2>1. PICK st : Split(text, Len(text), lines, st)
      BY <1>1, LinesSplit
    <2>2. lines \in Seq(Seq(Tokens))
      BY <2>1 DEF Split
    <2> HIDE DEF lines
    <2> QED
      BY <2>2, LenProperties
  <1>13. CASE n > Len(lines)
    <2>1. n \notin 1..Len(lines)
      BY <1>12, <1>13
    <2>2. here = {}
      BY <1>11, <2>1
    <2> QED
      BY <1>13, <2>2 DEF here, text
  <1>14. CASE ~(n > Len(lines))
    <2>1. n \in 1..Len(lines)
      BY <1>12, <1>14
    <2>2. IsFiniteSet(here)
      <3>1. findings \in Seq(Finding)
        BY DEF ScanInv, ScanTypes
      <3>2. Len(findings) \in Nat /\ here \in SUBSET (1..Len(findings))
        BY <1>7, <3>1, LenProperties
      <3> QED
        BY <3>2, FinitePositions
    <2> HIDE DEF there, lines
    <2> DEFINE g == [k \in here |-> at[k]]
    <2>3. g \in [here -> there] /\ \A k \in here : g[k] = at[k]
      BY <1>4, <1>5, <1>10
    <2> HIDE DEF g
    <2>4. \A j, k \in here : g[j] = g[k] => j = k
      BY <1>4, <1>5, <2>3
    <2>5. \A o \in there : \E k \in here : g[k] = o
      BY <1>4, <1>6, <1>9, <2>3
    <2>6. Cardinality(there) = Cardinality(here)
      BY <2>2, <2>3, <2>4, <2>5, SameNumber
    <2>7. Cardinality(there) = Occurrences(S, lines[n])
      <3>1. "nl" \notin S
        BY DEF S
      <3> QED
        BY <1>1, <2>1, <3>1, OccurrencesOnLine DEF there, lines
    <2>8. /\ Cardinality(here) = Occurrences(S, lines[n])
          /\ \A k \in here : findings[k].snippet = Trimmed(lines[n])
      BY <1>11, <2>6, <2>7 DEF lines
    <2> QED
      BY <1>14, <2>8, Zenon DEF here, text, S, lines
  <1> QED
    BY <1>13, <1>14

LEMMA HitsAreReported == ScanInv => HitsReported
  BY RaisedForCause, FinishedReports, Zenon DEF HitsReported

LEMMA DecisionsAreRight == ScanInv => DecisionsHitTheirCandidate
  <1> DEFINE I == {k \in DOMAIN findings : findings[k].rule = "triaged"}
             triaged == Select(findings, I)
  <1> SUFFICES ASSUME ScanInv, phase \in {"done", "degraded"}
               PROVE  /\ \A j, k \in DOMAIN candidates :
                           j # k => candidates[j].index # candidates[k].index
                      /\ Len(triaged) = Len(Counted)
                      /\ \A k \in DOMAIN triaged :
                           \E c \in ToSet(candidates) :
                             /\ c.index = Counted[k].index
                             /\ triaged[k].file = c.file /\ triaged[k].line = c.line
                             /\ c.context = Trimmed(Lines(files[c.file])[c.line])
                             /\ "key" \in ToSet(c.context)
    BY Zenon DEF DecisionsHitTheirCandidate, Counted
  <1>1. /\ files \in Seq(Seq(Tokens)) /\ scanned = Len(files) /\ phase \notin {"scan", "raised"}
        /\ findings \in Seq(Finding) /\ candidates \in Seq(Candidate)
        /\ decisions \in Seq(Decision(Len(candidates)))
    BY DEF ScanInv, ScanTypes
  <1>2. /\ DOMAIN candidates = 1..Len(candidates)
        /\ \A k \in DOMAIN candidates : candidates[k].index = k - 1 /\ Stands(candidates[k])
    BY <1>1, LenProperties DEF ScanInv, CandidateInv
  <1>3. \A j, k \in DOMAIN candidates : j # k => candidates[j].index # candidates[k].index
    <2>1. \A j, k \in 1..Len(candidates) : j # k => j - 1 # k - 1
      <3>1. Len(candidates) \in Nat
        BY <1>1, LenProperties
      <3> QED
        BY <3>1
    <2> QED
      BY <1>2, <2>1
  <1>4. PICK h \in 0..Len(findings) :
          /\ Len(findings) = h + Len(Counted)
          /\ \A k \in 1..h : findings[k].rule = "high_confidence"
          /\ \A k \in 1..Len(Counted) : Answers(findings[h + k], Counted[k])
    BY DEF ScanInv, TriageInv
  <1>5. Len(Counted) \in Nat /\ Len(findings) \in Nat /\ h \in Nat
        /\ DOMAIN findings = 1..Len(findings)
    <2> DEFINE J == {k \in DOMAIN decisions :
                       /\ decisions[k].is_secret /\ decisions[k].sure
                       /\ decisions[k].index < Len(candidates)}
               D == Decision(Len(candidates))
    <2>1. J \in SUBSET (DOMAIN decisions) /\ decisions \in Seq(D) /\ Counted = Select(decisions, J)
      BY <1>1 DEF Counted
    <2> HIDE DEF J, D
    <2>2. Counted \in Seq(D)
      BY <2>1, SelectFacts DEF SelectMeans
    <2>3. Len(Counted) \in Nat
      BY <2>2, LenProperties
    <2>4. Len(findings) \in Nat /\ DOMAIN findings = 1..Len(findings)
      BY <1>1, LenProperties
    <2> QED
      BY <2>3, <2>4
  <1> DEFINE K == Len(Counted)
             pos == [k \in 1..K |-> h + k]
  <1>6. /\ \A k \in 1..K : h + k \in DOMAIN findings
        /\ \A k \in DOMAIN findings : k \in 1..h \/ (k - h \in 1..K /\ h + (k - h) = k)
    BY <1>4, <1>5
  <1>7. pos \in Seq(DOMAIN findings) /\ Len(pos) = K /\ \A k \in 1..K : pos[k] = h + k
    BY <1>5, <1>6
  <1> HIDE DEF pos
  <1>8. Ascends(pos)
    BY <1>5, <1>7 DEF Ascends
  <1>9. ToSet(pos) = I
    <2>1. ToSet(pos) = {pos[k] : k \in 1..K}
      BY <1>7, ToSetOfSeq
    <2>2. \A k \in 1..K : findings[h + k].rule = "triaged"
      BY <1>4 DEF Answers
    <2>3. \A x \in ToSet(pos) : x \in I
      BY <1>6, <1>7, <2>1, <2>2
    <2>4. ASSUME NEW x \in I PROVE x \in ToSet(pos)
      <3>1. x \notin 1..h
        BY <1>4
      <3>2. x - h \in 1..K /\ pos[x - h] = x
        BY <1>6, <1>7, <3>1
      <3> QED
        BY <2>1, <3>2
    <2> QED
      BY <2>3, <2>4
  <1>10. triaged = [k \in 1..K |-> findings[h + k]]
    <2>1. I \in SUBSET (DOMAIN findings)
      OBVIOUS
    <2> HIDE DEF I
    <2>2. findings \in Seq(Finding) /\ pos \in Seq(DOMAIN findings)
      BY <1>1, <1>7
    <2>3. triaged = [k \in 1..Len(pos) |-> findings[pos[k]]]
      BY <1>8, <1>9, <2>1, <2>2, SelectInOrder, ZenonT(40)
    <2> QED
      BY <1>7, <2>3
  <1> HIDE DEF triaged
  <1>11. /\ DOMAIN triaged = 1..K /\ Len(triaged) = K
         /\ \A k \in 1..K : triaged[k] = findings[h + k]
    BY <1>5, <1>10
  <1>12. ASSUME NEW k \in 1..K
         PROVE  \E c \in ToSet(candidates) :
                  /\ c.index = Counted[k].index
                  /\ triaged[k].file = c.file /\ triaged[k].line = c.line
                  /\ c.context = Trimmed(Lines(files[c.file])[c.line])
                  /\ "key" \in ToSet(c.context)
    <2>1. PICK c \in ToSet(candidates) :
            /\ c.index = Counted[k].index
            /\ triaged[k].file = c.file /\ triaged[k].line = c.line
      BY <1>4, <1>11 DEF Answers
    <2>2. Stands(c)
      <3>1. ToSet(candidates) = {candidates[j] : j \in 1..Len(candidates)}
        BY <1>1, ToSetOfSeq
      <3> QED
        BY <1>2, <3>1
    <2>3. PICK o \in Ambiguous(files[c.file]) : /\ c.line = LineNumber(files[c.file], o)
                                                /\ c.context = LineContext(files[c.file], o)
      BY <2>2 DEF Stands
    <2>4. files[c.file] \in Seq(Tokens)
      BY <1>1, <2>2, ElementOfSeq DEF Stands
    <2>5. o \in DOMAIN files[c.file] /\ files[c.file][o] = "key"
      BY DEF Ambiguous
    <2>6. /\ LineContext(files[c.file], o)
               = Trimmed(Lines(files[c.file])[LineNumber(files[c.file], o)])
          /\ "key" \in ToSet(LineContext(files[c.file], o))
      BY <2>4, <2>5, LineOfOffset
    <2> QED
      BY <2>1, <2>3, <2>6
  <1> QED
    BY <1>3, <1>11, <1>12

\* Every match of a high-confidence rule is reported with its file, its line and
\* that line's text, once per match, for any text and whatever triage does; unless
\* the node raises, and then there is a line with a match that is too long to report.
THEOREM MatchesAreReported == Spec => []HitsReported
  BY ScanInvariant, HitsAreReported, PTL

\* A finding of the triage model is where its decision's candidate is, and there is
\* one for each decision that confirms one, in whatever order they are answered.
THEOREM DecisionsAreFollowed == Spec => []DecisionsHitTheirCandidate
  BY ScanInvariant, DecisionsAreRight, PTL
=============================================================================
