---------------------------- MODULE IngestProofs -----------------------------
(***************************************************************************)
(* Proofs about Ingest, for every set of names, every limit and every      *)
(* input: walking a path segment by segment leads where Leads says, or out *)
(* of the sandbox; and taking entries one by one decides what a look at    *)
(* all of them would.                                                      *)
(***************************************************************************)
EXTENDS Ingest, SequenceLemmas

-----------------------------------------------------------------------------
(***************************************************************************)
(* Depth and Stay: how deep a path is after n segments, and the names of   *)
(* these n that no later ".." has taken back.                              *)
(***************************************************************************)

Goes(s) == IF s \in Names \cup {"c:", "nul"} THEN "down"
           ELSE IF s = ".." THEN "up" ELSE "on"

LEMMA GoesFacts ==
  ASSUME NEW s \in Segments
  PROVE  /\ Goes(s) \in {"down", "up", "on"}
         /\ Goes(s) = "up" <=> s = ".."
         /\ \A d : AfterSegment(d, s) =
              IF Goes(s) = "on" THEN d
              ELSE IF Goes(s) = "up" /\ d # <<>> /\ Last(d) # ".." THEN Front(d)
              ELSE Append(d, s)
  <1>1. /\ Goes(s) \in {"down", "up", "on"} /\ (Goes(s) = "up" <=> s = "..")
        /\ Goes(s) = "on" <=> s \in {"", "."}
    BY IngestAssumption DEF Goes, Segments
  <1> QED
    BY <1>1, Zenon DEF AfterSegment

LEMMA DepthFacts ==
  ASSUME NEW path \in Seq(Segments)
  PROVE  /\ Len(path) \in Nat /\ DOMAIN path = 1..Len(path)
         /\ \A n \in 1..Len(path) : path[n] \in Segments
         /\ Depth(path, 0) = 0
         /\ \A n \in 0..Len(path) : Depth(path, n) \in Int
         /\ \A n \in 1..Len(path) :
              /\ Goes(path[n]) = "down" => Depth(path, n) = Depth(path, n - 1) + 1
              /\ Goes(path[n]) = "up" => Depth(path, n) = Depth(path, n - 1) - 1
              /\ Goes(path[n]) = "on" => Depth(path, n) = Depth(path, n - 1)
  <1> DEFINE L == Len(path)
             D == Downs(path)
             U == Ups(path)
  <1>1. L \in Nat /\ DOMAIN path = 1..L /\ \A n \in 1..L : path[n] \in Segments
    BY LenProperties
  <1>2. D \in SUBSET (1..L) /\ U \in SUBSET (1..L)
    BY <1>1 DEF Downs, Ups
  <1>3. /\ \A n \in 1..L : n \in D <=> Goes(path[n]) = "down"
        /\ \A n \in 1..L : n \in U <=> Goes(path[n]) = "up"
    BY <1>1, IngestAssumption DEF Downs, Ups, Goes
  <1> HIDE DEF D, U
  <1>4. \A n : Depth(path, n) = CountTo(D, n) - CountTo(U, n)
    BY Zenon DEF Depth, CountTo, UpTo, D, U
  <1>5. \A n : CountTo(D, n) \in Nat /\ CountTo(U, n) \in Nat
    BY <1>1, <1>2, FinitePositions
  <1>6. CountTo(D, 0) = 0 /\ CountTo(U, 0) = 0
    <2>1. \A j \in 1..L : ~(j <= 0)
      OBVIOUS
    <2>2. UpTo(D, 0) = {} /\ UpTo(U, 0) = {}
      BY <1>2, <2>1, Zenon DEF UpTo
    <2> QED
      BY <2>2, FS_EmptySet DEF CountTo
  <1>7. ASSUME NEW n \in 1..L
        PROVE  /\ Goes(path[n]) = "down" => Depth(path, n) = Depth(path, n - 1) + 1
               /\ Goes(path[n]) = "up" => Depth(path, n) = Depth(path, n - 1) - 1
               /\ Goes(path[n]) = "on" => Depth(path, n) = Depth(path, n - 1)
    <2>1. /\ CountTo(D, n) = IF n \in D THEN CountTo(D, n - 1) + 1 ELSE CountTo(D, n - 1)
          /\ CountTo(U, n) = IF n \in U THEN CountTo(U, n - 1) + 1 ELSE CountTo(U, n - 1)
      BY <1>1, <1>2, CountOn
    <2>2. /\ Depth(path, n) = CountTo(D, n) - CountTo(U, n)
          /\ Depth(path, n - 1) = CountTo(D, n - 1) - CountTo(U, n - 1)
      BY <1>4
    <2>3. /\ CountTo(D, n - 1) \in Nat /\ CountTo(U, n - 1) \in Nat
      BY <1>5
    <2>4. Goes(path[n]) \in {"down", "up", "on"}
      BY <1>1, GoesFacts
    <2>5. n \in D <=> Goes(path[n]) = "down"
      BY <1>3
    <2>6. n \in U <=> Goes(path[n]) = "up"
      BY <1>3
    <2> QED
      BY <2>1, <2>2, <2>3, <2>4, <2>5, <2>6
  <1>8. \A n : Depth(path, n) \in Int
    BY <1>4, <1>5
  <1>9. Depth(path, 0) = 0
    BY <1>4, <1>6
  <1> QED
    BY <1>1, <1>7, <1>8, <1>9

Stay(path, n) ==
  {k \in DOMAIN path : /\ Goes(path[k]) = "down" /\ k <= n
                       /\ \A m \in k..n : Depth(path, m) >= Depth(path, k)}

LEMMA LeadsStays ==
  ASSUME NEW path \in Seq(Segments)
  PROVE  Leads(path) = Select(path, Stay(path, Len(path)))
  <1> DEFINE I == {k \in Downs(path) : \A n \in k..Len(path) : Depth(path, n) >= Depth(path, k)}
  <1>1. \A k \in DOMAIN path : k <= Len(path)
    BY DepthFacts
  <1>2. \A k \in DOMAIN path : k \in Downs(path) <=> Goes(path[k]) = "down"
    BY DEF Downs, Goes
  <1>3. \A k : k \in I <=> k \in Stay(path, Len(path))
    BY <1>1, <1>2 DEF Stay, Downs
  <1>4. I = Stay(path, Len(path))
    BY <1>3
  <1> QED
    BY <1>4 DEF Leads

-----------------------------------------------------------------------------
(***************************************************************************)
(* Normalize: after n segments, the walk stands at what they stay at, one  *)
(* name for each level; once it was above the root it is marked by "..".   *)
(***************************************************************************)

Above(path, n) == \A m \in 0..n : Depth(path, m) >= 0

FollowsBy(path, n, d, pos) ==
  /\ pos \in Seq(DOMAIN path) /\ Ascends(pos)
  /\ Len(pos) = Depth(path, n)
  /\ \A j \in DOMAIN path : j \in Stay(path, n) <=> \E k \in 1..Len(pos) : pos[k] = j
  /\ \A k \in 1..Len(pos) : Depth(path, pos[k]) = k
  /\ Len(d) = Len(pos) /\ \A k \in 1..Len(pos) : d[k] = path[pos[k]]

Walked(path, n, d) ==
  /\ d \in Seq(Segments)
  /\ Above(path, n) => \E pos : FollowsBy(path, n, d, pos)
  /\ ~Above(path, n) => d # <<>> /\ d[1] = ".."

LEMMA WalkStart ==
  ASSUME NEW path \in Seq(Segments)
  PROVE  Walked(path, 0, <<>>)
  <1>1. Depth(path, 0) = 0 /\ Above(path, 0)
    BY DepthFacts DEF Above
  <1>2. <<>> \in Seq(Segments) /\ <<>> \in Seq(DOMAIN path) /\ Len(<<>>) = 0
    BY EmptySeq
  <1>3. \A j \in DOMAIN path : j \notin Stay(path, 0)
    BY DepthFacts DEF Stay
  <1>4. FollowsBy(path, 0, <<>>, <<>>)
    BY <1>1, <1>2, <1>3 DEF FollowsBy, Ascends
  <1> QED
    BY <1>1, <1>2, <1>4 DEF Walked

\* One segment more, as long as the path stays below the root.
LEMMA FollowOn ==
  ASSUME NEW path \in Seq(Segments), NEW n \in 1..Len(path), Depth(path, n) >= 0,
         NEW d \in Seq(Segments), NEW pos, FollowsBy(path, n - 1, d, pos)
  PROVE  \E p : FollowsBy(path, n, AfterSegment(d, path[n]), p)
  <1> DEFINE s == path[n]
             D == Depth(path, n - 1)
             P == DOMAIN path
  <1>1. /\ Len(path) \in Nat /\ P = 1..Len(path) /\ s \in Segments
        /\ D \in Int /\ Depth(path, n) \in Int /\ n \in P /\ n \in Nat
        /\ Goes(s) = "down" => Depth(path, n) = D + 1 /\ AfterSegment(d, s) = Append(d, s)
        /\ Goes(s) = "up" => Depth(path, n) = D - 1
        /\ Goes(s) = "on" => Depth(path, n) = D /\ AfterSegment(d, s) = d
        /\ Goes(s) \in {"down", "up", "on"}
        /\ Goes(s) = "up" /\ d # <<>> /\ Last(d) # ".." => AfterSegment(d, s) = Front(d)
    <2>1. n - 1 \in 0..Len(path) /\ n \in 0..Len(path) /\ s \in Segments
      BY DepthFacts
    <2>2. /\ Goes(s) \in {"down", "up", "on"}
          /\ Goes(s) = "down" => AfterSegment(d, s) = Append(d, s)
          /\ Goes(s) = "on" => AfterSegment(d, s) = d
          /\ Goes(s) = "up" /\ d # <<>> /\ Last(d) # ".." => AfterSegment(d, s) = Front(d)
      BY <2>1, GoesFacts
    <2> QED
      BY <2>1, <2>2, DepthFacts
  <1>2. /\ pos \in Seq(P) /\ Ascends(pos) /\ Len(pos) = D /\ D \in Nat
        /\ \A k \in 1..D : pos[k] \in P /\ pos[k] \in Stay(path, n - 1) /\ Depth(path, pos[k]) = k
        /\ \A j \in P : j \in Stay(path, n - 1) => \E k \in 1..D : pos[k] = j
        /\ Len(d) = D /\ \A k \in 1..D : d[k] = path[pos[k]]
    <2>1. pos \in Seq(P) /\ Len(pos) = D
      BY DEF FollowsBy
    <2>2. D \in Nat /\ \A k \in 1..D : pos[k] \in P
      BY <2>1, LenProperties
    <2> QED
      BY <2>1, <2>2 DEF FollowsBy
  <1>3. \A j \in P : /\ j \in Nat
                     /\ j \in Stay(path, n) <=>
                          \/ j = n /\ Goes(s) = "down"
                          \/ j \in Stay(path, n - 1) /\ Depth(path, n) >= Depth(path, j)
    <2>1. ASSUME NEW j \in P, j \in Stay(path, n)
          PROVE  \/ j = n /\ Goes(s) = "down"
                 \/ j \in Stay(path, n - 1) /\ Depth(path, n) >= Depth(path, j)
      <3>1. Goes(path[j]) = "down" /\ j <= n /\ \A m \in j..n : Depth(path, m) >= Depth(path, j)
        BY <2>1 DEF Stay
      <3>2. CASE j = n
        BY <3>1, <3>2
      <3>3. CASE j # n
        <4>1. j \in Nat /\ j <= n - 1 /\ n \in j..n
          BY <1>1, <3>1, <3>3
        <4>2. \A m \in j..(n - 1) : m \in j..n
          BY <1>1, <4>1
        <4> QED
          BY <3>1, <4>1, <4>2 DEF Stay
      <3> QED
        BY <3>2, <3>3
    <2>2. ASSUME Goes(s) = "down" PROVE n \in Stay(path, n)
      <3>1. \A m \in n..n : m = n
        BY <1>1
      <3> QED
        BY <1>1, <2>2, <3>1 DEF Stay
    <2>3. ASSUME NEW j \in P, j \in Stay(path, n - 1), Depth(path, n) >= Depth(path, j)
          PROVE  j \in Stay(path, n)
      <3>1. /\ Goes(path[j]) = "down" /\ j <= n - 1
            /\ \A m \in j..(n - 1) : Depth(path, m) >= Depth(path, j)
        BY <2>3 DEF Stay
      <3>2. j \in Nat /\ j <= n /\ \A m \in j..n : m \in j..(n - 1) \/ m = n
        BY <1>1, <3>1
      <3>3. \A m \in j..n : Depth(path, m) >= Depth(path, j)
        BY <2>3, <3>1, <3>2
      <3> QED
        BY <3>1, <3>2, <3>3 DEF Stay
    <2>4. \A j \in P : j \in Nat
      BY <1>1
    <2> QED
      BY <2>1, <2>2, <2>3, <2>4
  <1> HIDE DEF P
  <1>4. CASE Goes(s) = "on"
    <2>1. AfterSegment(d, s) = d /\ Depth(path, n) = D
      BY <1>1, <1>4
    <2>2. ASSUME NEW j \in P PROVE j \in Stay(path, n) <=> \E k \in 1..D : pos[k] = j
      <3>1. j \in Stay(path, n) => \E k \in 1..D : pos[k] = j
        BY <1>2, <1>3, <1>4
      <3>2. ASSUME NEW k \in 1..D, pos[k] = j PROVE j \in Stay(path, n)
        BY <1>1, <1>2, <1>3, <2>1, <3>2
      <3> QED
        BY <3>1, <3>2
    <2>3. FollowsBy(path, n, d, pos)
      BY <1>2, <2>1, <2>2 DEF FollowsBy, P
    <2> QED
      BY <2>1, <2>3
  <1>5. CASE Goes(s) = "down"
    <2> DEFINE p == Append(pos, n)
               e == Append(d, s)
    <2>1. AfterSegment(d, s) = e /\ Depth(path, n) = D + 1
      BY <1>1, <1>5
    <2>2. /\ p \in Seq(P) /\ Len(p) = D + 1 /\ p[D + 1] = n
          /\ \A k \in 1..D : p[k] = pos[k]
      BY <1>1, <1>2, AppendFacts
    <2>3. /\ e \in Seq(Segments) /\ Len(e) = D + 1 /\ e[D + 1] = s
          /\ \A k \in 1..D : e[k] = d[k]
      BY <1>1, <1>2, AppendFacts
    <2> HIDE DEF p, e
    <2>4. \A k \in 1..(D + 1) : k \in 1..D \/ k = D + 1
      BY <1>2
    <2>5. \A k \in 1..D : pos[k] \in Nat /\ pos[k] < n
      <3> TAKE k \in 1..D
      <3>1. pos[k] \in P /\ pos[k] <= n - 1
        BY <1>2 DEF Stay
      <3> QED
        BY <1>1, <1>3, <3>1
    <2>6. Ascends(p)
      <3> SUFFICES ASSUME NEW h \in 1..(D + 1), NEW j \in 1..(D + 1), h < j
                   PROVE  p[h] < p[j]
        BY <2>2 DEF Ascends
      <3>1. h \in 1..D
        BY <1>2
      <3>2. CASE j = D + 1
        BY <2>2, <2>5, <3>1, <3>2
      <3>3. CASE j \in 1..D
        BY <1>2, <2>2, <3>1, <3>3 DEF Ascends
      <3> QED
        BY <2>4, <3>2, <3>3
    <2>7. ASSUME NEW j \in P PROVE j \in Stay(path, n) <=> \E k \in 1..(D + 1) : p[k] = j
      <3>1. CASE j = n
        <4>1. D + 1 \in 1..(D + 1)
          BY <1>2
        <4> QED
          BY <1>3, <1>5, <2>2, <3>1, <4>1
      <3>2. CASE j # n
        <4>1. ASSUME j \in Stay(path, n) PROVE \E k \in 1..(D + 1) : p[k] = j
          <5>1. PICK k \in 1..D : pos[k] = j
            BY <1>2, <1>3, <3>2, <4>1
          <5>2. k \in 1..(D + 1)
            BY <1>2
          <5> QED
            BY <2>2, <5>1, <5>2
        <4>2. ASSUME NEW k \in 1..(D + 1), p[k] = j PROVE j \in Stay(path, n)
          <5>1. k \in 1..D /\ pos[k] = j
            BY <2>2, <2>4, <3>2, <4>2
          <5>2. j \in Stay(path, n - 1) /\ Depth(path, j) = k
            BY <1>2, <5>1
          <5>3. Depth(path, n) >= Depth(path, j)
            BY <1>2, <2>1, <5>1, <5>2
          <5> QED
            BY <1>3, <5>2, <5>3
        <4> QED
          BY <4>1, <4>2
      <3> QED
        BY <3>1, <3>2
    <2>8. \A k \in 1..(D + 1) : Depth(path, p[k]) = k /\ e[k] = path[p[k]]
      BY <1>2, <2>1, <2>2, <2>3, <2>4
    <2>9. FollowsBy(path, n, e, p)
      BY <2>1, <2>2, <2>3, <2>6, <2>7, <2>8 DEF FollowsBy, P
    <2> QED
      BY <2>1, <2>9
  <1>6. CASE Goes(s) = "up"
    <2> DEFINE p == Front(pos)
               e == Front(d)
    <2>0. Depth(path, n) = D - 1 /\ D # 0
      BY <1>1, <1>6
    <2>1. pos # <<>> /\ d # <<>>
      BY <1>2, <2>0, EmptySeq
    <2>2. p \in Seq(P) /\ Len(p) = D - 1 /\ \A k \in 1..(D - 1) : p[k] = pos[k]
      BY <1>2, <2>1, FrontFacts
    <2>3. /\ Len(e) = D - 1 /\ Last(d) = d[D]
          /\ \A k \in 1..(D - 1) : e[k] = d[k]
      BY <1>2, <2>1, FrontFacts
    <2>4. AfterSegment(d, s) = e
      <3>1. D \in 1..D
        BY <1>2, <2>0
      <3>2. Last(d) = path[pos[D]] /\ Goes(path[pos[D]]) = "down" /\ pos[D] \in P
        BY <1>2, <2>3, <3>1 DEF Stay
      <3>3. path[pos[D]] \in Segments
        BY <3>2, DepthFacts DEF P
      <3>4. path[pos[D]] # ".."
        BY <3>2, <3>3, GoesFacts
      <3> QED
        BY <1>1, <1>6, <2>1, <3>2, <3>4
    <2> HIDE DEF p, e
    <2>5. \A k \in 1..(D - 1) : k \in 1..D /\ k <= D - 1
      BY <1>2
    <2>6. Ascends(p)
      BY <1>2, <2>2, <2>5 DEF Ascends
    <2>7. ASSUME NEW j \in P PROVE j \in Stay(path, n) <=> \E k \in 1..(D - 1) : p[k] = j
      <3>1. ASSUME j \in Stay(path, n) PROVE \E k \in 1..(D - 1) : p[k] = j
        <4>1. j \in Stay(path, n - 1) /\ D - 1 >= Depth(path, j)
          BY <1>3, <1>6, <2>0, <3>1
        <4>2. PICK k \in 1..D : pos[k] = j
          BY <1>2, <4>1
        <4>3. k \in 1..(D - 1)
          BY <1>2, <4>1, <4>2
        <4> QED
          BY <2>2, <4>2, <4>3
      <3>2. ASSUME NEW k \in 1..(D - 1), p[k] = j PROVE j \in Stay(path, n)
        <4>1. k \in 1..D /\ pos[k] = j
          BY <2>2, <2>5, <3>2
        <4>2. j \in Stay(path, n - 1) /\ Depth(path, j) = k
          BY <1>2, <4>1
        <4>3. Depth(path, n) >= Depth(path, j)
          BY <1>2, <2>0, <2>5, <4>2
        <4> QED
          BY <1>3, <4>2, <4>3
      <3> QED
        BY <3>1, <3>2
    <2>8. \A k \in 1..(D - 1) : Depth(path, p[k]) = k /\ e[k] = path[p[k]]
      BY <1>2, <2>2, <2>3, <2>5
    <2>9. FollowsBy(path, n, e, p)
      BY <2>0, <2>2, <2>3, <2>6, <2>7, <2>8 DEF FollowsBy, P
    <2> QED
      BY <2>4, <2>9
  <1> QED
    BY <1>1, <1>4, <1>5, <1>6

\* The type of a step, and the mark that stays.
LEMMA AfterSegmentFacts ==
  ASSUME NEW d \in Seq(Segments), NEW s \in Segments
  PROVE  /\ AfterSegment(d, s) \in Seq(Segments)
         /\ d # <<>> /\ d[1] = ".." =>
              AfterSegment(d, s) # <<>> /\ AfterSegment(d, s)[1] = ".."
  <1>1. CASE Goes(s) = "on"
    BY <1>1, GoesFacts
  <1>2. CASE Goes(s) = "up" /\ d # <<>> /\ Last(d) # ".."
    <2>1. AfterSegment(d, s) = Front(d)
      BY <1>2, GoesFacts
    <2>2. /\ Len(d) \in Nat \ {0} /\ Front(d) \in Seq(Segments) /\ Len(Front(d)) = Len(d) - 1
          /\ \A k \in 1..(Len(d) - 1) : Front(d)[k] = d[k]
          /\ Last(d) = d[Len(d)]
      BY <1>2, FrontFacts
    <2>3. ASSUME d[1] = ".." PROVE Front(d) # <<>> /\ Front(d)[1] = ".."
      <3>1. Len(d) # 1
        BY <1>2, <2>2, <2>3
      <3>2. 1 \in 1..(Len(d) - 1) /\ Len(Front(d)) # 0
        BY <2>2, <3>1
      <3> QED
        BY <2>2, <2>3, <3>2, EmptySeq
    <2> QED
      BY <2>1, <2>2, <2>3
  <1>3. CASE Goes(s) # "on" /\ ~(Goes(s) = "up" /\ d # <<>> /\ Last(d) # "..")
    <2>1. AfterSegment(d, s) = Append(d, s)
      BY <1>3, GoesFacts
    <2>2. /\ Append(d, s) \in Seq(Segments) /\ Len(Append(d, s)) = Len(d) + 1
          /\ \A k \in 1..Len(d) : Append(d, s)[k] = d[k]
      BY AppendFacts
    <2>3. ASSUME d # <<>>, d[1] = ".." PROVE Append(d, s) # <<>> /\ Append(d, s)[1] = ".."
      <3>1. Len(d) \in Nat \ {0}
        BY <2>3, EmptySeq, LenProperties
      <3>2. 1 \in 1..Len(d) /\ Len(Append(d, s)) # 0
        BY <2>2, <3>1
      <3> QED
        BY <2>2, <2>3, <3>2, EmptySeq
    <2> QED
      BY <2>1, <2>2, <2>3
  <1> QED
    BY <1>1, <1>2, <1>3

LEMMA WalkOn ==
  ASSUME NEW path \in Seq(Segments), NEW n \in 1..Len(path),
         NEW d, Walked(path, n - 1, d)
  PROVE  Walked(path, n, AfterSegment(d, path[n]))
  <1> DEFINE s == path[n]
  <1>1. /\ Len(path) \in Nat /\ s \in Segments /\ d \in Seq(Segments)
        /\ n - 1 \in 0..Len(path) /\ Depth(path, n - 1) \in Int /\ Depth(path, n) \in Int
        /\ \A m \in 0..n : m \in 0..(n - 1) \/ m = n
        /\ \A m \in 0..(n - 1) : m \in 0..n
        /\ n \in 0..n /\ n - 1 \in 0..(n - 1)
    BY DepthFacts DEF Walked
  <1>2. AfterSegment(d, s) \in Seq(Segments)
    BY <1>1, AfterSegmentFacts
  <1>3. CASE ~Above(path, n - 1)
    <2>1. ~Above(path, n)
      BY <1>1, <1>3 DEF Above
    <2>2. d # <<>> /\ d[1] = ".."
      BY <1>3 DEF Walked
    <2> QED
      BY <1>1, <1>2, <2>1, <2>2, AfterSegmentFacts DEF Walked
  <1>4. CASE Above(path, n - 1) /\ Depth(path, n) >= 0
    <2>1. PICK pos : FollowsBy(path, n - 1, d, pos)
      BY <1>4 DEF Walked
    <2>2. \E p : FollowsBy(path, n, AfterSegment(d, s), p)
      BY <1>1, <1>4, <2>1, FollowOn
    <2>3. Above(path, n)
      BY <1>1, <1>4 DEF Above
    <2> QED
      BY <1>2, <2>2, <2>3 DEF Walked
  <1>5. CASE Above(path, n - 1) /\ ~(Depth(path, n) >= 0)
    <2>1. PICK pos : FollowsBy(path, n - 1, d, pos)
      BY <1>5 DEF Walked
    <2>2. Goes(s) = "up" /\ Depth(path, n - 1) = 0
      <3>1. Depth(path, n - 1) >= 0
        BY <1>1, <1>5 DEF Above
      <3>2. /\ Goes(s) \in {"down", "up", "on"}
            /\ Goes(s) = "down" => Depth(path, n) = Depth(path, n - 1) + 1
            /\ Goes(s) = "up" => Depth(path, n) = Depth(path, n - 1) - 1
            /\ Goes(s) = "on" => Depth(path, n) = Depth(path, n - 1)
        BY <1>1, DepthFacts, GoesFacts
      <3> QED
        BY <1>1, <1>5, <3>1, <3>2
    <2>3. d = <<>>
      BY <1>1, <2>1, <2>2, EmptySeq DEF FollowsBy
    <2>4. s = ".." /\ AfterSegment(d, s) = <<"..">>
      <3>1. AfterSegment(d, s) = Append(d, s) /\ s = ".."
        BY <1>1, <2>2, <2>3, GoesFacts
      <3> QED
        BY <2>3, <3>1
    <2>5. ~Above(path, n)
      BY <1>1, <1>5 DEF Above
    <2> QED
      BY <1>2, <2>4, <2>5 DEF Walked
  <1> QED
    BY <1>3, <1>4, <1>5

\* The walk of Normalize is one of these steps.
LEMMA NormalizeWalks ==
  ASSUME NEW path \in Seq(Segments)
  PROVE  Walked(path, Len(path), Normalize(path))
  <1> DEFINE L == Len(path)
             Law(h) == h = [n \in 0..L |-> IF n = 0 THEN <<>>
                                           ELSE AfterSegment(h[n - 1], path[n])]
             done == CHOOSE h : Law(h)
             step == [n \in 1..L |-> [d \in Seq(Segments) |-> AfterSegment(d, path[n])]]
  <1>1. L \in Nat /\ <<>> \in Seq(Segments) /\ \A n \in 1..L : path[n] \in Segments
    BY DepthFacts, EmptySeq
  <1>2. step \in [1..L -> [Seq(Segments) -> Seq(Segments)]]
    BY <1>1, AfterSegmentFacts
  <1>3. \A n \in 1..L, d \in Seq(Segments) : step[n][d] = AfterSegment(d, path[n])
    OBVIOUS
  <1> HIDE DEF step
  <1>4. PICK f : Runs(f, Seq(Segments), <<>>, step, L)
    BY <1>1, <1>2, RunExists
  <1>5. Law(f)
    <2> DEFINE g == [n \in 0..L |-> IF n = 0 THEN <<>> ELSE AfterSegment(f[n - 1], path[n])]
    <2>1. f \in [0..L -> Seq(Segments)] /\ f[0] = <<>>
          /\ \A n \in 1..L : f[n] = step[n][f[n - 1]]
      BY <1>4 DEF Runs
    <2>2. ASSUME NEW n \in 0..L PROVE f[n] = g[n]
      <3>1. CASE n = 0
        BY <2>1, <3>1
      <3>2. CASE n # 0
        <4>1. n \in 1..L /\ n - 1 \in 0..L
          BY <1>1, <3>2
        <4>2. f[n - 1] \in Seq(Segments)
          BY <2>1, <4>1
        <4> QED
          BY <1>3, <2>1, <3>2, <4>1, <4>2
      <3> QED
        BY <3>1, <3>2
    <2> QED
      BY <2>1, <2>2
  <1>6. Law(done)
    BY <1>5, Zenon
  <1>7. Normalize(path) = done[L]
    BY Zenon DEF Normalize
  <1> HIDE DEF done
  <1>8. done[0] = <<>> /\ \A n \in 1..L : done[n] = AfterSegment(done[n - 1], path[n])
    <2>1. \A n \in 0..L : done[n] = IF n = 0 THEN <<>> ELSE AfterSegment(done[n - 1], path[n])
      BY <1>6
    <2> QED
      BY <1>1, <2>1
  <1> HIDE DEF Law
  <1> DEFINE T == {n \in 0..L : ~Walked(path, n, done[n])}
  <1>9. T = {}
    <2> SUFFICES ASSUME T # {} PROVE FALSE
      OBVIOUS
    <2>1. T \in SUBSET Nat
      BY <1>1
    <2>2. PICK n \in T : \A m \in T : n <= m
      BY <2>1, LeastElement
    <2>3. n \in 0..L /\ ~Walked(path, n, done[n])
      OBVIOUS
    <2>4. CASE n = 0
      BY <1>8, <2>3, <2>4, WalkStart
    <2>5. CASE n # 0
      <3>1. n \in 1..L /\ n - 1 \in 0..L /\ n - 1 \notin T
        BY <1>1, <2>2, <2>3, <2>5
      <3>2. Walked(path, n - 1, done[n - 1])
        BY <3>1
      <3>3. Walked(path, n, AfterSegment(done[n - 1], path[n]))
        BY <3>1, <3>2, WalkOn
      <3>4. done[n] = AfterSegment(done[n - 1], path[n])
        BY <1>8, <3>1
      <3> QED
        BY <2>3, <3>3, <3>4
    <2> QED
      BY <2>4, <2>5
  <1>10. Walked(path, L, done[L])
    BY <1>1, <1>9
  <1> QED
    BY <1>7, <1>10

\* Below the root all along, a path normalises to where it leads; otherwise its
\* normal form begins with "..", and no place does.
LEMMA NormalizeFacts ==
  ASSUME NEW path \in Seq(Segments)
  PROVE  /\ Normalize(path) \in Seq(Segments) /\ Leads(path) \in Seq(Segments)
         /\ Above(path, Len(path)) => Normalize(path) = Leads(path)
         /\ Leads(path) # <<>> => Leads(path)[1] # ".."
         /\ ~Above(path, Len(path)) => Normalize(path) # <<>> /\ Normalize(path)[1] = ".."
  <1> DEFINE L == Len(path)
             I == Stay(path, L)
             S == {path[j] : j \in I}
  <1>1. L \in Nat /\ DOMAIN path = 1..L /\ \A j \in 1..L : path[j] \in Segments
    BY DepthFacts
  <1>2. Walked(path, L, Normalize(path))
    BY NormalizeWalks
  <1>3. I \in SUBSET (DOMAIN path) /\ \A j \in I : Goes(path[j]) = "down"
    BY DEF Stay
  <1> HIDE DEF I
  <1>4. SelectMeans(Segments, path, I) /\ Leads(path) = Select(path, I)
    BY <1>3, SelectFacts, LeadsStays DEF I
  <1>5. Leads(path) \in Seq(Segments)
    BY <1>4 DEF SelectMeans
  <1>6. ASSUME Leads(path) # <<>> PROVE Leads(path)[1] # ".."
    <2>1. 1 \in 1..Len(Leads(path))
      BY <1>5, <1>6, EmptySeq, LenProperties
    <2>2. PICK j \in I : Leads(path)[1] = path[j]
      BY <1>4, <2>1 DEF SelectMeans
    <2>3. path[j] \in Segments /\ Goes(path[j]) = "down"
      BY <1>1, <1>3
    <2> QED
      BY <2>2, <2>3, GoesFacts
  <1>7. ASSUME Above(path, L) PROVE Normalize(path) = Leads(path)
    <2>1. PICK pos : FollowsBy(path, L, Normalize(path), pos)
      BY <1>2, <1>7 DEF Walked
    <2>2. /\ pos \in Seq(DOMAIN path) /\ Ascends(pos)
          /\ \A j \in DOMAIN path : j \in I <=> \E k \in 1..Len(pos) : pos[k] = j
          /\ Len(Normalize(path)) = Len(pos)
          /\ \A k \in 1..Len(pos) : Normalize(path)[k] = path[pos[k]]
      BY <2>1 DEF FollowsBy, I
    <2>3. ToSet(pos) = I
      <3>1. ToSet(pos) = {pos[k] : k \in 1..Len(pos)} /\ ToSet(pos) \subseteq DOMAIN path
        BY <2>2, ToSetOfSeq
      <3> QED
        BY <1>3, <2>2, <3>1
    <2>4. Leads(path) = [k \in 1..Len(pos) |-> path[pos[k]]]
      BY <1>3, <1>4, <2>2, <2>3, SelectInOrder
    <2>5. Normalize(path) \in Seq(Segments) /\ DOMAIN Normalize(path) = 1..Len(pos)
      BY <1>2, <2>2, LenProperties DEF Walked
    <2>6. \A k \in 1..Len(pos) : Leads(path)[k] = Normalize(path)[k]
      BY <2>2, <2>4
    <2>7. DOMAIN Leads(path) = 1..Len(pos)
      BY <2>4
    <2>8. Len(Leads(path)) = Len(Normalize(path))
      BY <1>5, <2>2, <2>5, <2>7, LenProperties
    <2> QED
      BY <1>5, <2>2, <2>5, <2>6, <2>8, SeqEqual
  <1> QED
    BY <1>2, <1>5, <1>6, <1>7 DEF Walked

-----------------------------------------------------------------------------
(***************************************************************************)
(* TotalSize: what the first n entries declare.                            *)
(***************************************************************************)

LEMMA TotalFacts ==
  ASSUME NEW es \in Seq(Entry)
  PROVE  /\ TotalSize(es, 0) = 0
         /\ \A n \in 0..Len(es) : TotalSize(es, n) \in Nat
         /\ \A n \in 1..Len(es) : TotalSize(es, n) = TotalSize(es, n - 1) + es[n].size
  <1> DEFINE L == Len(es)
             Law(h) == h = [k \in 0..L |-> IF k = 0 THEN 0 ELSE h[k - 1] + es[k].size]
             total == CHOOSE h : Law(h)
             step == [k \in 1..L |-> [x \in Nat |-> x + es[k].size]]
  <1>1. L \in Nat /\ \A k \in 1..L : es[k].size \in Nat
    <2>1. L \in Nat /\ \A k \in 1..L : es[k] \in Entry
      BY LenProperties
    <2> QED
      BY <2>1 DEF Entry
  <1>2. step \in [1..L -> [Nat -> Nat]]
    BY <1>1
  <1>3. \A k \in 1..L, x \in Nat : step[k][x] = x + es[k].size
    OBVIOUS
  <1> HIDE DEF step
  <1>4. PICK f : Runs(f, Nat, 0, step, L)
    BY <1>1, <1>2, RunExists
  <1>5. Law(f)
    <2> DEFINE g == [k \in 0..L |-> IF k = 0 THEN 0 ELSE f[k - 1] + es[k].size]
    <2>1. f \in [0..L -> Nat] /\ f[0] = 0 /\ \A k \in 1..L : f[k] = step[k][f[k - 1]]
      BY <1>4 DEF Runs
    <2>2. ASSUME NEW k \in 0..L PROVE f[k] = g[k]
      <3>1. k = 0 \/ (k # 0 /\ k \in 1..L /\ k - 1 \in 0..L)
        BY <1>1
      <3> QED
        BY <1>3, <2>1, <3>1
    <2> QED
      BY <2>1, <2>2
  <1>6. Law(total)
    BY <1>5, Zenon
  <1>7. \A n : TotalSize(es, n) = total[n]
    BY Zenon DEF TotalSize
  <1> HIDE DEF total
  <1>8. total[0] = 0 /\ \A k \in 1..L : total[k] = total[k - 1] + es[k].size
    <2>1. \A k \in 0..L : total[k] = IF k = 0 THEN 0 ELSE total[k - 1] + es[k].size
      BY <1>6
    <2>2. L \in Nat
      BY <1>1
    <2> QED
      BY <2>1, <2>2
  <1> HIDE DEF Law
  <1> DEFINE T == {k \in 0..L : total[k] \notin Nat}
  <1>9. T = {}
    <2> SUFFICES ASSUME T # {} PROVE FALSE
      OBVIOUS
    <2>1. T \in SUBSET Nat
      BY <1>1
    <2>2. PICK k \in T : \A m \in T : k <= m
      BY <2>1, LeastElement
    <2>3. k \in 0..L /\ total[k] \notin Nat
      BY <2>2
    <2>4. k # 0 /\ k \in 1..L /\ k - 1 \in 0..L
      BY <1>1, <1>8, <2>3
    <2>5. total[k - 1] \in Nat
      <3>1. ~(k <= k - 1)
        BY <1>1, <2>3
      <3>2. k - 1 \notin T
        BY <2>2, <3>1
      <3> QED
        BY <2>4, <3>2
    <2>6. total[k] = total[k - 1] + es[k].size /\ es[k].size \in Nat
      BY <1>1, <1>8, <2>4
    <2> QED
      BY <2>3, <2>5, <2>6
  <1> QED
    BY <1>7, <1>8, <1>9

\* More entries declare no less.
LEMMA TotalGrows ==
  ASSUME NEW es \in Seq(Entry), NEW n \in 0..Len(es)
  PROVE  TotalSize(es, n) <= TotalSize(es, Len(es))
  <1> DEFINE L == Len(es)
             T == {m \in Nat : n <= m /\ m <= L /\ ~(TotalSize(es, n) <= TotalSize(es, m))}
  <1>1. L \in Nat /\ \A k \in 1..L : es[k].size \in Nat
    <2>1. L \in Nat /\ \A k \in 1..L : es[k] \in Entry
      BY LenProperties
    <2> QED
      BY <2>1 DEF Entry
  <1> SUFFICES ASSUME T # {} PROVE FALSE
    BY <1>1
  <1>2. PICK m \in T : \A k \in T : m <= k
    BY LeastElement
  <1>3. /\ \A k \in 0..L : TotalSize(es, k) \in Nat
        /\ \A k \in 1..L : TotalSize(es, k) = TotalSize(es, k - 1) + es[k].size
    BY TotalFacts
  <1>4. m \in Nat /\ n <= m /\ m <= L /\ ~(TotalSize(es, n) <= TotalSize(es, m)) /\ m # n
    BY <1>1, <1>3
  <1>5. m \in 1..L /\ m - 1 \in Nat /\ m - 1 \in 0..L /\ n <= m - 1 /\ m - 1 \notin T
    BY <1>1, <1>2, <1>4
  <1>6. TotalSize(es, n) <= TotalSize(es, m - 1)
    BY <1>4, <1>5
  <1>7. /\ TotalSize(es, n) \in Nat /\ TotalSize(es, m - 1) \in Nat /\ es[m].size \in Nat
        /\ TotalSize(es, m) = TotalSize(es, m - 1) + es[m].size
    BY <1>1, <1>3, <1>5
  <1> HIDE DEF T
  <1> QED
    BY <1>4, <1>6, <1>7

-----------------------------------------------------------------------------
(***************************************************************************)
(* One entry.                                                              *)
(***************************************************************************)

\* What an entry that is looked at can be, by where it comes from.
Suited(s, e) ==
  /\ e \in Entry /\ e.path # <<>> /\ e.kind \in {"file", "symlink"}
  /\ s = "inline" => e.kind = "file"

\* What normalize_path lets through.
LEMMA PathFine ==
  ASSUME NEW path \in Seq(Segments), path # <<>>
  PROVE  /\ PathRejected(path) <=>
              ~(/\ "nul" \notin ToSet(path) /\ path[1] \notin {"c:"}
                /\ path[1] = "" => Len(path) = 1
                /\ \A n \in DOMAIN path : Depth(path, n) >= 0
                /\ Leads(path) # <<>>)
         /\ ~PathRejected(path) => Normalize(path) = Leads(path)
  <1>1. Len(path) > 1 <=> Len(path) # 1
    <2>1. Len(path) \in Nat /\ Len(path) # 0
      BY EmptySeq, LenProperties
    <2>2. \A n \in Nat : n # 0 => (n > 1 <=> n # 1)
      OBVIOUS
    <2> QED
      BY <2>1, <2>2, Zenon
  <1>2. (\A n \in DOMAIN path : Depth(path, n) >= 0) <=> Above(path, Len(path))
    <2>1. Depth(path, 0) = 0 /\ DOMAIN path = 1..Len(path) /\ Len(path) \in Nat
      BY DepthFacts
    <2>2. \A n \in 0..Len(path) : n = 0 \/ n \in 1..Len(path)
      BY <2>1
    <2>3. \A n \in 1..Len(path) : n \in 0..Len(path)
      BY <2>1
    <2> QED
      BY <2>1, <2>2, <2>3 DEF Above
  <1>3. Normalize(path) = <<>> \/ Normalize(path)[1] = ".."
          <=> ~Above(path, Len(path)) \/ Leads(path) = <<>>
    BY NormalizeFacts
  <1>4. PathRejected(path) <=>
          ~(/\ "nul" \notin ToSet(path) /\ path[1] \notin {"c:"}
            /\ path[1] = "" => Len(path) = 1
            /\ Above(path, Len(path)) /\ Leads(path) # <<>>)
    BY <1>1, <1>3, Zenon DEF PathRejected
  <1>5. ~PathRejected(path) => Normalize(path) = Leads(path)
    BY <1>4, NormalizeFacts, Zenon
  <1> QED
    BY <1>2, <1>4, <1>5, Zenon

LEMMA Limits == MaxFileCount \in Nat /\ MaxFileSize \in Nat /\ MaxArchiveSize \in Nat
  BY IngestAssumption, Zenon

\* An entry passes every check in turn when it is fine and still fits.
LEMMA ComplaintFacts ==
  ASSUME NEW e, Suited(source, e), source \in {"zip", "inline", "local"},
         running_total \in Nat
  PROVE  /\ Complaint(e) \in {"none", "rejected", "crashed"}
         /\ Complaint(e) = "none" <=>
              Fine(source, e) /\ running_total + e.size <= MaxArchiveSize
         /\ Complaint(e) = "crashed" =>
              /\ e.data \in {"corrupt", "long"} /\ Submittable(source, e)
              /\ running_total + e.size <= MaxArchiveSize
         /\ Complaint(e) = "none" => Normalize(e.path) = Leads(e.path)
  <1> DEFINE Path == /\ "nul" \notin ToSet(e.path) /\ e.path[1] \notin {"c:"}
                     /\ e.path[1] = "" => Len(e.path) = 1
                     /\ \A n \in DOMAIN e.path : Depth(e.path, n) >= 0
                     /\ Leads(e.path) # <<>>
             Named == Last(Leads(e.path)) \in Allowed
             Size == e.size <= MaxFileSize /\ running_total + e.size <= MaxArchiveSize
             Kind == e.kind = "file" \/ source = "local"
  <1>1. /\ e.path \in Seq(Segments) /\ e.path # <<>> /\ e.size \in Nat
        /\ e.kind \in {"file", "symlink"} /\ (source = "inline" => e.kind = "file")
        /\ e.data \in {"text", "binary", "short", "corrupt", "long"}
    BY DEF Suited, Entry
  <1>2. PathRejected(e.path) <=> ~Path
    BY <1>1, PathFine, Zenon
  <1>3. ~PathRejected(e.path) => Normalize(e.path) = Leads(e.path)
    BY <1>1, PathFine
  <1>4. Submittable(source, e) /\ running_total + e.size <= MaxArchiveSize
          <=> Size /\ Kind /\ Path /\ Named
    BY Zenon DEF Submittable
  <1> HIDE DEF Path, Named
  <1>5. ~PathRejected(e.path) => (ExtensionRejected(Normalize(e.path)) <=> ~Named)
    BY <1>3 DEF ExtensionRejected, Named
  <1>6. TooLarge(e) <=> ~Size
    BY <1>1, Limits DEF TooLarge
  <1> DEFINE Stopped == \/ source = "zip" /\ e.kind = "symlink"
                        \/ PathRejected(e.path) \/ ExtensionRejected(Normalize(e.path)) \/ TooLarge(e)
  <1>7. source = "zip" /\ e.kind = "symlink" <=> ~Kind
    BY <1>1
  <1> HIDE DEF Size, Kind
  <1>8. Stopped <=> ~(Kind /\ Path /\ Named /\ Size)
    BY <1>2, <1>5, <1>6, <1>7, Zenon
  <1>9. Complaint(e) = IF Stopped THEN "rejected"
                       ELSE CASE e.data \in {"short", "binary"} -> "rejected"
                              [] e.data \in {"corrupt", "long"} -> "crashed"
                              [] OTHER -> "none"
    BY Zenon DEF Complaint
  <1>10. Stopped => PathRejected(e.path) \/ ~(Kind /\ Path /\ Named /\ Size)
    BY <1>8
  <1>11. ~Stopped => ~PathRejected(e.path)
    OBVIOUS
  <1> HIDE DEF Stopped
  <1>12. /\ Complaint(e) \in {"none", "rejected", "crashed"}
         /\ Complaint(e) = "none" <=> ~Stopped /\ e.data = "text"
         /\ Complaint(e) = "crashed" => ~Stopped /\ e.data \in {"corrupt", "long"}
    BY <1>1, <1>9
  <1>13. Fine(source, e) <=> e.data = "text" /\ Submittable(source, e)
    BY DEF Fine
  <1> HIDE DEF Path, Named
  <1> QED
    BY <1>3, <1>4, <1>8, <1>11, <1>12, <1>13, Zenon

-----------------------------------------------------------------------------
(***************************************************************************)
(* The invariant.                                                          *)
(***************************************************************************)

Ended == {"accepted", "nothing", "rejected", "crashed"}

IngestTypes ==
  /\ source \in {"zip", "inline", "local"}
  /\ infos \in Seq(Entry) /\ \A k \in DOMAIN infos : Suited(source, infos[k])
  /\ i \in 0..(Len(infos) + 1)
  /\ verdict \in {"pending"} \cup Ended

\* How many entries have been taken.
TakenSoFar == IF i = 0 THEN 0 ELSE i - 1

\* What the entries taken so far have been filed as.
FiledInv ==
  /\ \A k \in 1..(i - 1) : Fine(source, infos[k])
  /\ DOMAIN files = {Leads(infos[k].path) : k \in 1..(i - 1)}
  /\ \A p \in DOMAIN files : files[p] \in 1..(i - 1) /\ Leads(infos[files[p]].path) = p
  /\ \A k \in 1..(i - 1) : k <= files[Leads(infos[k].path)]

\* They are within the limits; what ended the loop is not fine, or is not.
LimitsInv ==
  /\ running_total = TotalSize(infos, TakenSoFar) /\ running_total <= MaxArchiveSize
  /\ i # 0 /\ verdict \notin {"rejected", "crashed"} => Len(infos) <= MaxFileCount
  /\ verdict \in {"accepted", "nothing"} => i > Len(infos)
  /\ verdict \in {"rejected", "crashed"} =>
       \/ Len(infos) > MaxFileCount \/ Unreadable
       \/ /\ i \in DOMAIN infos
          /\ ~(Fine(source, infos[i]) /\ running_total + infos[i].size <= MaxArchiveSize)
  /\ verdict = "crashed" =>
       \/ Unreadable
       \/ /\ Len(infos) <= MaxFileCount /\ i \in DOMAIN infos
          /\ infos[i].data \in {"corrupt", "long"} /\ Submittable(source, infos[i])
          /\ running_total + infos[i].size <= MaxArchiveSize

IngestInv == IngestTypes /\ FiledInv /\ LimitsInv

LEMMA ListedFacts ==
  ASSUME NEW es \in Inputs, NEW s, Possible(s, es)
  PROVE  /\ Listed(s, es) \in Seq(Entry)
         /\ \A k \in DOMAIN Listed(s, es) : Suited(s, Listed(s, es)[k])
  <1> DEFINE I == {k \in DOMAIN es : /\ es[k].kind # "dir"
                                     /\ s = "local" => Last(es[k].path) \in Suffixed
                                                       /\ es[k].data # "binary"}
             E == {e \in Entry : e.path # <<>>}
  <1>1. es \in Seq(E)
    BY IngestAssumption, Zenon
  <1>2. /\ DOMAIN es = 1..Len(es)
        /\ \A k \in DOMAIN es : es[k] \in Entry /\ es[k].path # <<>>
    BY <1>1, LenProperties
  <1>3. I \in SUBSET (DOMAIN es) /\ \A k \in I : es[k].kind # "dir"
    OBVIOUS
  <1>4. Listed(s, es) = Select(es, I)
    BY Zenon DEF Listed
  <1>5. es \in Seq(Entry)
    BY <1>1, SeqDef
  <1> HIDE DEF I, E
  <1>6. SelectMeans(Entry, es, I)
    BY <1>3, <1>5, SelectFacts
  <1>7. ASSUME NEW k \in I PROVE Suited(s, es[k])
    <2>1. k \in DOMAIN es /\ es[k] \in Entry /\ es[k].path # <<>> /\ es[k].kind # "dir"
      BY <1>2, <1>3
    <2>2. es[k].kind \in {"file", "dir", "symlink"}
      BY <2>1 DEF Entry
    <2>3. s = "inline" => es[k].kind = "file"
      BY <2>1 DEF Possible
    <2> QED
      BY <2>1, <2>2, <2>3 DEF Suited
  <1>8. Listed(s, es) \in Seq(Entry) /\ DOMAIN Listed(s, es) = 1..Cardinality(I)
    BY <1>4, <1>6, LenProperties DEF SelectMeans
  <1> QED
    BY <1>4, <1>6, <1>7, <1>8 DEF SelectMeans

LEMMA IngestInit == Init => IngestInv
  <1> SUFFICES ASSUME Init PROVE IngestInv
    OBVIOUS
  <1>1. /\ source \in {"zip", "inline", "local"} /\ input \in Inputs /\ Possible(source, input)
        /\ infos = Listed(source, input)
        /\ i = 0 /\ running_total = 0 /\ files = <<>> /\ verdict = "pending"
    BY Zenon DEF Init
  <1>2. infos \in Seq(Entry) /\ \A k \in DOMAIN infos : Suited(source, infos[k])
    BY <1>1, ListedFacts, Zenon
  <1>3. Len(infos) \in Nat
    BY <1>2, LenProperties
  <1>4. IngestTypes
    BY <1>1, <1>2, <1>3 DEF IngestTypes
  <1>5. FiledInv
    <2>1. \A k \in 1..(i - 1) : FALSE
      BY <1>1
    <2>2. DOMAIN files = {}
      BY <1>1
    <2> QED
      BY <2>1, <2>2 DEF FiledInv
  <1>6. LimitsInv
    <2>1. TotalSize(infos, TakenSoFar) = 0
      BY <1>1, <1>2, TotalFacts DEF TakenSoFar
    <2> QED
      BY <1>1, <2>1, Limits DEF LimitsInv
  <1> QED
    BY <1>4, <1>5, <1>6 DEF IngestInv

LEMMA CountFilesKeeps ==
  ASSUME IngestInv, CountFiles
  PROVE  IngestInv'
  <1>1. /\ verdict = "pending" /\ i = 0 /\ i' = 1
        /\ verdict' = IF Unreadable THEN "crashed"
                      ELSE IF Len(infos) > MaxFileCount THEN "rejected" ELSE "pending"
        /\ source' = source /\ infos' = infos /\ running_total' = running_total
        /\ files' = files
    BY DEF CountFiles
  <1>2. infos \in Seq(Entry) /\ Len(infos) \in Nat
    BY LenProperties DEF IngestInv, IngestTypes
  <1>3. IngestTypes'
    BY <1>1, <1>2 DEF IngestInv, IngestTypes, Ended
  <1>4. FiledInv'
    <2>1. \A k : k \notin 1..(i - 1) /\ k \notin 1..(i' - 1)
      BY <1>1
    <2>2. DOMAIN files = {}
      BY <2>1 DEF IngestInv, FiledInv
    <2> QED
      BY <1>1, <2>1, <2>2 DEF FiledInv
  <1>5. LimitsInv'
    <2>1. TakenSoFar = 0 /\ TakenSoFar' = 0
      BY <1>1 DEF TakenSoFar
    <2>2. running_total = TotalSize(infos, TakenSoFar) /\ running_total <= MaxArchiveSize
      BY DEF IngestInv, LimitsInv
    <2>3. ~(Len(infos) > MaxFileCount) => Len(infos) <= MaxFileCount
      BY <1>2, Limits
    <2>4. Unreadable' = Unreadable
      BY <1>1 DEF Unreadable
    <2>5. CASE Unreadable
      BY <1>1, <2>1, <2>2, <2>4, <2>5 DEF LimitsInv
    <2>6. CASE ~Unreadable /\ Len(infos) > MaxFileCount
      BY <1>1, <2>1, <2>2, <2>6 DEF LimitsInv
    <2>7. CASE ~Unreadable /\ ~(Len(infos) > MaxFileCount)
      BY <1>1, <2>1, <2>2, <2>3, <2>7 DEF LimitsInv
    <2> QED
      BY <2>5, <2>6, <2>7
  <1> QED
    BY <1>3, <1>4, <1>5 DEF IngestInv

LEMMA AcceptKeeps ==
  ASSUME IngestInv, Accept
  PROVE  IngestInv'
  <1>1. /\ verdict = "pending" /\ i > Len(infos) /\ verdict' \in {"accepted", "nothing"}
        /\ source' = source /\ infos' = infos /\ i' = i /\ running_total' = running_total
        /\ files' = files
    BY DEF Accept
  <1>2. IngestTypes'
    BY <1>1 DEF IngestInv, IngestTypes, Ended
  <1>3. FiledInv'
    BY <1>1 DEF IngestInv, FiledInv
  <1>4. TakenSoFar' = TakenSoFar
    BY <1>1 DEF TakenSoFar
  <1>5. i # 0
    BY <1>1, LenProperties DEF IngestInv, IngestTypes
  <1>6. LimitsInv'
    BY <1>1, <1>4, <1>5 DEF IngestInv, LimitsInv
  <1> QED
    BY <1>2, <1>3, <1>6 DEF IngestInv

LEMMA TakeKeeps ==
  ASSUME IngestInv, Take
  PROVE  IngestInv'
  <1> DEFINE e == infos[i]
             place == Normalize(e.path)
  <1>1. /\ verdict = "pending" /\ i \in DOMAIN infos
        /\ source' = source /\ infos' = infos
        /\ Complaint(e) # "none" => /\ verdict' = Complaint(e) /\ i' = i
                                    /\ running_total' = running_total /\ files' = files
        /\ Complaint(e) = "none" => /\ i' = i + 1 /\ running_total' = running_total + e.size
                                    /\ files' = [p \in DOMAIN files \cup {place} |->
                                                IF p = place THEN i ELSE files[p]]
                                    /\ verdict' = verdict
    BY DEF Take
  <1>2. /\ infos \in Seq(Entry) /\ Len(infos) \in Nat /\ i \in 1..Len(infos)
        /\ DOMAIN infos = 1..Len(infos) /\ i \in Nat /\ i # 0
        /\ e \in Entry /\ e.size \in Nat
    <2>1. infos \in Seq(Entry)
      BY DEF IngestInv, IngestTypes
    <2>2. Len(infos) \in Nat /\ DOMAIN infos = 1..Len(infos)
      BY <2>1, LenProperties
    <2>3. e \in Entry
      BY <1>1, <2>1, <2>2, ElementOfSeq
    <2> QED
      BY <1>1, <2>1, <2>2, <2>3 DEF Entry
  <1>3. /\ source \in {"zip", "inline", "local"} /\ Suited(source, e)
        /\ \A k \in DOMAIN infos : Suited(source, infos[k])
    BY <1>1 DEF IngestInv, IngestTypes
  <1>4. /\ TakenSoFar = i - 1 /\ TotalSize(infos, i - 1) \in Nat
        /\ TotalSize(infos, i) = TotalSize(infos, i - 1) + e.size
    BY <1>2, TotalFacts DEF TakenSoFar
  <1>5. running_total = TotalSize(infos, i - 1) /\ running_total \in Nat
        /\ running_total <= MaxArchiveSize /\ Len(infos) <= MaxFileCount
    BY <1>1, <1>2, <1>4 DEF IngestInv, LimitsInv
  <1>6. /\ Complaint(e) \in {"none", "rejected", "crashed"}
        /\ Complaint(e) = "none" <=>
             Fine(source, e) /\ running_total + e.size <= MaxArchiveSize
        /\ Complaint(e) = "crashed" =>
             /\ e.data \in {"corrupt", "long"} /\ Submittable(source, e)
             /\ running_total + e.size <= MaxArchiveSize
        /\ Complaint(e) = "none" => place = Leads(e.path)
    BY <1>3, <1>5, ComplaintFacts
  <1>7. CASE Complaint(e) # "none"
    <2>1. IngestTypes'
      BY <1>1, <1>2, <1>3, <1>6, <1>7 DEF IngestInv, IngestTypes, Ended
    <2>2. FiledInv'
      BY <1>1, <1>7 DEF IngestInv, FiledInv
    <2>3. LimitsInv'
      <3>1. TakenSoFar' = TakenSoFar
        BY <1>1, <1>7 DEF TakenSoFar
      <3>2. verdict' \in {"rejected", "crashed"}
        BY <1>1, <1>6, <1>7
      <3> QED
        BY <1>1, <1>4, <1>5, <1>6, <1>7, <3>1, <3>2 DEF LimitsInv
    <2> QED
      BY <2>1, <2>2, <2>3 DEF IngestInv
  <1>8. CASE Complaint(e) = "none"
    <2> DEFINE p == Leads(e.path)
               f == [q \in DOMAIN files \cup {p} |-> IF q = p THEN i ELSE files[q]]
    <2>1. /\ i' = i + 1 /\ running_total' = running_total + e.size /\ files' = f
          /\ verdict' = "pending" /\ Fine(source, e)
          /\ running_total + e.size <= MaxArchiveSize
      BY <1>1, <1>6, <1>8
    <2>2. DOMAIN f = DOMAIN files \cup {p} /\ f[p] = i
          /\ \A q \in DOMAIN files : q # p => f[q] = files[q]
      OBVIOUS
    <2> HIDE DEF f
    <2>3. /\ \A k \in 1..(i' - 1) : k \in 1..(i - 1) \/ k = i
          /\ \A k \in 1..(i - 1) : k \in 1..(i' - 1)
          /\ i \in 1..(i' - 1)
      BY <1>2, <2>1
    <2>4. /\ \A k \in 1..(i - 1) : Fine(source, infos[k])
          /\ DOMAIN files = {Leads(infos[k].path) : k \in 1..(i - 1)}
          /\ \A q \in DOMAIN files : files[q] \in 1..(i - 1) /\ Leads(infos[files[q]].path) = q
          /\ \A k \in 1..(i - 1) : k <= files[Leads(infos[k].path)]
      BY DEF IngestInv, FiledInv
    <2>5. IngestTypes'
      BY <1>1, <1>2, <1>3, <2>1 DEF IngestInv, IngestTypes
    <2>6. \A k \in 1..(i' - 1) : Fine(source, infos[k])
      BY <2>1, <2>3, <2>4
    <2>7. DOMAIN f = {Leads(infos[k].path) : k \in 1..(i' - 1)}
      BY <2>2, <2>3, <2>4
    <2>8. \A q \in DOMAIN f : f[q] \in 1..(i' - 1) /\ Leads(infos[f[q]].path) = q
      BY <2>2, <2>3, <2>4
    <2>9. ASSUME NEW k \in 1..(i' - 1) PROVE k <= f[Leads(infos[k].path)]
      <3>1. CASE Leads(infos[k].path) = p
        BY <1>2, <2>1, <2>2, <2>3, <3>1
      <3>2. CASE Leads(infos[k].path) # p
        <4>1. k \in 1..(i - 1)
          BY <2>3, <3>2
        <4>2. Leads(infos[k].path) \in DOMAIN files
          BY <2>4, <4>1
        <4> QED
          BY <2>2, <2>4, <3>2, <4>1, <4>2
      <3> QED
        BY <3>1, <3>2
    <2>10. FiledInv'
      BY <1>1, <2>1, <2>6, <2>7, <2>8, <2>9 DEF FiledInv
    <2>11. LimitsInv'
      <3>1. TakenSoFar' = i
        BY <1>2, <2>1 DEF TakenSoFar
      <3>2. running_total' = TotalSize(infos', TakenSoFar')
        BY <1>1, <1>4, <1>5, <2>1, <3>1
      <3> QED
        BY <1>1, <1>5, <2>1, <3>2 DEF LimitsInv
    <2> QED
      BY <2>5, <2>10, <2>11 DEF IngestInv
  <1> QED
    BY <1>7, <1>8

LEMMA IngestStutters == IngestInv /\ UNCHANGED vars => IngestInv'
  <1> SUFFICES ASSUME IngestInv, UNCHANGED vars PROVE IngestInv'
    OBVIOUS
  <1>1. /\ source' = source /\ infos' = infos /\ i' = i /\ running_total' = running_total
        /\ files' = files /\ verdict' = verdict
    BY DEF vars
  <1>2. IngestTypes'
    BY <1>1 DEF IngestInv, IngestTypes
  <1>3. FiledInv'
    BY <1>1 DEF IngestInv, FiledInv
  <1>4. TakenSoFar' = TakenSoFar
    BY <1>1 DEF TakenSoFar
  <1>5. LimitsInv'
    BY <1>1, <1>4 DEF IngestInv, LimitsInv, Unreadable
  <1> QED
    BY <1>2, <1>3, <1>5 DEF IngestInv

\* What has been taken is fine, filed where it leads and within the limits, and a
\* rejection has its cause: the inductive invariant of from_zip_bytes,
\* from_inline_files and the local script.
THEOREM IngestInvariant == Spec => []IngestInv
  <1>1. IngestInv /\ [Next]_vars => IngestInv'
    BY CountFilesKeeps, TakeKeeps, AcceptKeeps, IngestStutters DEF Next
  <1> QED
    BY <1>1, IngestInit, PTL DEF Spec

-----------------------------------------------------------------------------
(***************************************************************************)
(* The properties.                                                         *)
(***************************************************************************)

LEMMA FiledIsRight == IngestInv => FiledWhereItLeads
  <1> SUFFICES ASSUME IngestInv PROVE FiledWhereItLeads
    OBVIOUS
  <1>1. FiledInv
    BY DEF IngestInv
  <1>2. ASSUME NEW k \in 1..(i - 1), NEW n \in DOMAIN infos[k].path
        PROVE  Depth(infos[k].path, n) >= 0
    <2>1. Fine(source, infos[k])
      BY <1>1 DEF FiledInv
    <2> QED
      BY <2>1, Zenon DEF Fine, Submittable
  <1>3. \A k \in 1..(i - 1) : Leads(infos[k].path) \in DOMAIN files
    BY <1>1 DEF FiledInv
  <1> QED
    BY <1>1, <1>2, <1>3 DEF FiledInv, FiledWhereItLeads

LEMMA AcceptanceIsRight ==
  IngestInv /\ verdict # "pending" =>
    (verdict \in {"accepted", "nothing"} <=>
       /\ Len(infos) <= MaxFileCount
       /\ \A k \in DOMAIN infos : Fine(source, infos[k])
       /\ TotalSize(infos, Len(infos)) <= MaxArchiveSize)
  <1> DEFINE All == /\ Len(infos) <= MaxFileCount
                    /\ \A k \in DOMAIN infos : Fine(source, infos[k])
                    /\ TotalSize(infos, Len(infos)) <= MaxArchiveSize
  <1> SUFFICES ASSUME IngestInv, verdict # "pending"
               PROVE  verdict \in {"accepted", "nothing"} <=> All
    OBVIOUS
  <1>1. /\ infos \in Seq(Entry) /\ Len(infos) \in Nat /\ DOMAIN infos = 1..Len(infos)
        /\ i \in 0..(Len(infos) + 1)
        /\ verdict \in {"accepted", "nothing"} \/ verdict \in {"rejected", "crashed"}
    BY LenProperties DEF IngestInv, IngestTypes, Ended
  <1>2. CASE verdict \in {"accepted", "nothing"}
    <2>1. i > Len(infos)
      BY <1>2 DEF IngestInv, LimitsInv
    <2>2. i = Len(infos) + 1 /\ i # 0 /\ i - 1 = Len(infos)
      BY <1>1, <2>1
    <2>3. Len(infos) <= MaxFileCount
      BY <1>2, <2>2 DEF IngestInv, LimitsInv
    <2>4. \A k \in DOMAIN infos : Fine(source, infos[k])
      BY <1>1, <2>2 DEF IngestInv, FiledInv
    <2>5. TotalSize(infos, Len(infos)) <= MaxArchiveSize
      BY <2>2 DEF IngestInv, LimitsInv, TakenSoFar
    <2> QED
      BY <1>2, <2>3, <2>4, <2>5
  <1>3. CASE verdict \in {"rejected", "crashed"}
    <2>1. verdict \notin {"accepted", "nothing"}
      BY <1>3
    <2>2. CASE Len(infos) > MaxFileCount
      <3>1. ~(Len(infos) <= MaxFileCount)
        BY <1>1, <2>2, Limits
      <3> QED
        BY <2>1, <3>1
    <2>3. CASE Unreadable
      <3>1. PICK k \in DOMAIN infos : infos[k].data = "corrupt"
        BY <2>3 DEF Unreadable
      <3>2. ~Fine(source, infos[k])
        BY <3>1 DEF Fine
      <3> QED
        BY <2>1, <3>2
    <2>4. CASE /\ i \in DOMAIN infos
               /\ ~(Fine(source, infos[i]) /\ running_total + infos[i].size <= MaxArchiveSize)
      <3>1. i \in 1..Len(infos) /\ i # 0 /\ i \in 0..Len(infos) /\ Len(infos) \in 0..Len(infos)
        BY <1>1, <2>4
      <3>2. running_total + infos[i].size = TotalSize(infos, i)
        BY <1>1, <3>1, TotalFacts DEF IngestInv, LimitsInv, TakenSoFar
      <3>3. /\ TotalSize(infos, i) <= TotalSize(infos, Len(infos))
            /\ TotalSize(infos, i) \in Nat /\ TotalSize(infos, Len(infos)) \in Nat
        BY <1>1, <3>1, TotalFacts, TotalGrows
      <3>4. TotalSize(infos, Len(infos)) <= MaxArchiveSize
              => TotalSize(infos, i) <= MaxArchiveSize
        BY <3>3, Limits
      <3> QED
        BY <1>1, <2>1, <2>4, <3>2, <3>4
    <2> QED
      BY <1>3, <2>2, <2>3, <2>4 DEF IngestInv, LimitsInv
  <1> QED
    BY <1>1, <1>2, <1>3

\* Where an exception ended the loop, nothing was wrong before.
LEMMA CrashIsRight ==
  ASSUME IngestInv, verdict = "crashed", ~Unreadable
  PROVE  /\ Len(infos) <= MaxFileCount
         /\ \E k \in DOMAIN infos :
              /\ infos[k].data \in {"corrupt", "long"} /\ Submittable(source, infos[k])
              /\ \A j \in 1..(k - 1) : Fine(source, infos[j])
              /\ TotalSize(infos, k) <= MaxArchiveSize
  <1>1. /\ Len(infos) <= MaxFileCount /\ i \in DOMAIN infos
        /\ infos[i].data \in {"corrupt", "long"} /\ Submittable(source, infos[i])
        /\ running_total + infos[i].size <= MaxArchiveSize
        /\ running_total = TotalSize(infos, TakenSoFar)
    BY DEF IngestInv, LimitsInv
  <1>2. \A j \in 1..(i - 1) : Fine(source, infos[j])
    BY DEF IngestInv, FiledInv
  <1>3. infos \in Seq(Entry) /\ i \in 1..Len(infos)
    <2>1. infos \in Seq(Entry)
      BY DEF IngestInv, IngestTypes
    <2> QED
      BY <1>1, <2>1, LenProperties
  <1>4. i # 0 /\ TotalSize(infos, i) = TotalSize(infos, i - 1) + infos[i].size
    <2>1. Len(infos) \in Nat
      BY <1>3, LenProperties
    <2> QED
      BY <1>3, <2>1, TotalFacts
  <1>5. TotalSize(infos, i) <= MaxArchiveSize
    BY <1>1, <1>4 DEF TakenSoFar
  <1> QED
    BY <1>1, <1>2, <1>5

LEMMA VerdictIsRight == IngestInv => AcceptedIffFine
  BY AcceptanceIsRight, CrashIsRight, Zenon DEF AcceptedIffFine

\* The docstring of normalize_path, for every path: what is filed stayed below the
\* root all along, and is filed where its path leads; the last entry for a place
\* is the one kept.
THEOREM NothingEscapes == Spec => []FiledWhereItLeads
  BY IngestInvariant, FiledIsRight, PTL

\* Taking entries one by one, with a running total and an early exit, accepts
\* exactly what is fine entry by entry and within the limits together; and it ends in
\* an exception that is no IngestionError only at an entry that cannot be read and
\* otherwise could be taken (or, in the script, before it checks anything).
THEOREM OnePassDecides == Spec => []AcceptedIffFine
  BY IngestInvariant, VerdictIsRight, PTL
=============================================================================
