----------------------------- MODULE TextProofs -----------------------------
(***************************************************************************)
(* Proofs about text of any length.  The search of deepMatch finds what a  *)
(* glob's language holds: the glob is cut into pieces, the value into      *)
(* shares, and a least place where search and language differ is refuted.  *)
(* The line of describeCommand is read as its words: a reader's states are *)
(* followed through a word, quoted or not, and through joined parts.       *)
(***************************************************************************)
EXTENDS Intake, SequenceTheorems, WellFoundedInduction, TLAPS

-----------------------------------------------------------------------------
\* Numbers and sequences

LEMMA Least ==
    ASSUME NEW T, T \subseteq Nat, T # {}
    PROVE  \E x \in T : \A y \in T : x <= y
  <1>. DEFINE less == {s \in Nat \X Nat : s[1] < s[2]}
  <1>1. IsWellFoundedOn(OpToRel(<, Nat), Nat)
    BY NatLessThanWellFounded, Zenon
  <1>2. IsWellFoundedOn(less, Nat)
    BY <1>1, Zenon DEF OpToRel
  <1>3. \E x \in T : \A y \in T : <<y, x>> \notin less
    <2>. HIDE DEF less
    <2> QED
      BY <1>2, WFMin
  <1>4. ASSUME NEW x \in Nat, NEW y \in Nat, <<y, x>> \notin less
        PROVE  x <= y
    <2>1. ~(y < x)
      BY <1>4
    <2> QED
      BY <2>1
  <1> QED
    BY <1>3, <1>4

LEMMA MinIs ==
    ASSUME NEW T, T \subseteq Nat, T # {}
    PROVE  Min(T) \in T /\ \A y \in T : Min(T) <= y
  BY Least, Zenon DEF Min

\* Induction from the last number down.
LEMMA Downward ==
    ASSUME NEW n \in Nat, NEW Good,
           \A i \in 1..n : (\A k \in i + 1..n : k \in Good) => i \in Good
    PROVE  1..n \subseteq Good
  <1>. DEFINE T == {m \in Nat : m < n /\ n - m \notin Good}
  <1>. SUFFICES ASSUME ~(1..n \subseteq Good)
                PROVE  FALSE
    OBVIOUS
  <1>1. PICK i \in 1..n : i \notin Good
    OBVIOUS
  <1>2. n - i \in T
    BY <1>1
  <1>3. PICK m \in T : \A l \in T : m <= l
    <2>1. T \subseteq Nat
      OBVIOUS
    <2>. HIDE DEF T
    <2> QED
      BY <1>2, <2>1, Least
  <1>4. PICK k \in n - m + 1..n : k \notin Good
    BY <1>3
  <1>5. n - k \in T /\ n - k < m
    BY <1>3, <1>4
  <1> QED
    BY <1>3, <1>5

\* Induction from zero up.
LEMMA Upward ==
    ASSUME NEW n \in Nat, NEW Good, 0 \in Good,
           \A i \in 1..n : i - 1 \in Good => i \in Good
    PROVE  0..n \subseteq Good
  <1>. DEFINE T == {m \in 0..n : m \notin Good}
  <1>. SUFFICES ASSUME T # {}
                PROVE  FALSE
    OBVIOUS
  <1>1. PICK m \in T : \A l \in T : m <= l
    <2>1. T \subseteq Nat
      OBVIOUS
    <2>. HIDE DEF T
    <2> QED
      BY <2>1, Least
  <1>2. m \in 1..n /\ m - 1 \in 0..n /\ ~(m <= m - 1)
    BY <1>1
  <1>3. m - 1 \in Good
    BY <1>1, <1>2
  <1> QED
    BY <1>1, <1>2, <1>3

\* Induction on sequences, an element at the end at a time.
LEMMA Appending ==
    ASSUME NEW S, NEW Good, <<>> \in Good,
           \A s \in Seq(S) : \A c \in S : s \in Good => Append(s, c) \in Good
    PROVE  Seq(S) \subseteq Good
  <1>. SUFFICES ASSUME NEW s \in Seq(S)
                PROVE  s \in Good
    OBVIOUS
  <1>. DEFINE n == Len(s)
              Lengths == {i \in 0..n : SubSeq(s, 1, i) \in Good}
  <1>1. n \in Nat /\ 0 \in 0..n /\ SubSeq(s, 1, 0) = <<>>
    BY SubSeqEmpty
  <1>2. ASSUME NEW i \in 1..n, i - 1 \in Lengths
        PROVE  i \in Lengths
    <2>1. SubSeq(s, 1, i - 1) \in Seq(S) /\ s[i] \in S
      BY SubSeqProperties
    <2>2. SubSeq(s, 1, i) = Append(SubSeq(s, 1, i - 1), s[i])
      <3>1. 1 \in 1..Len(s) /\ i \in 1..Len(s)
        OBVIOUS
      <3> QED
        <4>1. SubSeq(s, 1, i) = SubSeq(s, 1, i - 1) \o <<s[i]>>
          BY <3>1, SubSeqRecursiveSecond
        <4>2. Append(SubSeq(s, 1, i - 1), s[i]) = SubSeq(s, 1, i - 1) \o <<s[i]>>
          BY <2>1, AppendIsConcat
        <4> QED
          BY <4>1, <4>2
    <2>3. SubSeq(s, 1, i - 1) \in Good
      BY <1>2
    <2>4. SubSeq(s, 1, i) \in Good
      BY <2>1, <2>2, <2>3
    <2> QED
      BY <2>4
  <1>3. 0..n \subseteq Lengths
    <2>1. 0 \in Lengths
      BY <1>1
    <2>. HIDE DEF Lengths
    <2> QED
      BY <1>1, <1>2, <2>1, Upward
  <1>4. SubSeq(s, 1, n) = s /\ n \in 0..n
    BY SubSeqFull
  <1> QED
    <2>1. n \in Lengths
      BY <1>3, <1>4
    <2> QED
      BY <1>4, <2>1

LEMMA AppendAfter ==
    ASSUME NEW S, NEW s \in Seq(S), NEW t \in Seq(S), NEW c \in S
    PROVE  /\ s \o Append(t, c) = Append(s \o t, c)
           /\ s \o t \in Seq(S) /\ Append(t, c) \in Seq(S)
  <1>1. s \o t \in Seq(S) /\ Append(t, c) \in Seq(S) /\ <<c>> \in Seq(S)
    OBVIOUS
  <1>2. Append(t, c) = t \o <<c>> /\ Append(s \o t, c) = (s \o t) \o <<c>>
    BY <1>1, AppendIsConcat
  <1> QED
    BY <1>1, <1>2, ConcatAssociative

\* Functions as sequences.
LEMMA IsSequence ==
    ASSUME NEW S, NEW n \in Nat, NEW f \in [1..n -> S]
    PROVE  f \in Seq(S) /\ Len(f) = n /\ DOMAIN f = 1..n
  OBVIOUS

LEMMA OneLonger ==
    ASSUME NEW S, NEW n \in Nat, NEW f \in [1..n -> S], NEW g \in [1..n + 1 -> S],
           \A i \in 1..n : g[i] = f[i]
    PROVE  g = Append(f, g[n + 1])
  <1>1. f \in Seq(S) /\ Len(f) = n /\ g \in Seq(S) /\ Len(g) = n + 1 /\ g[n + 1] \in S
    BY IsSequence
  <1>2. /\ Append(f, g[n + 1]) \in Seq(S) /\ Len(Append(f, g[n + 1])) = n + 1
        /\ Append(f, g[n + 1])[n + 1] = g[n + 1]
        /\ \A i \in 1..n : Append(f, g[n + 1])[i] = f[i]
    BY <1>1, AppendProperties
  <1>3. \A i \in 1..n + 1 : g[i] = Append(f, g[n + 1])[i]
    BY <1>2
  <1> QED
    BY <1>1, <1>2, <1>3, SeqEqual

\* What is defined from the start on, step by step, is defined.
Iterated(n, V, start, next) ==
    n \in Nat /\ start \in V /\ next \in [1..n -> [V -> V]]

LEMMA Iterates ==
    \A n, V, start, next :
        Iterated(n, V, start, next) =>
            \E f \in [0..n -> V] :
                f[0] = start /\ \A i \in 1..n : f[i] = next[i][f[i - 1]]
  <1>. SUFFICES ASSUME NEW n, NEW V, NEW start, NEW next, Iterated(n, V, start, next)
                PROVE  \E f \in [0..n -> V] :
                            f[0] = start /\ \A i \in 1..n : f[i] = next[i][f[i - 1]]
    OBVIOUS
  <1>. n \in Nat /\ start \in V /\ next \in [1..n -> [V -> V]]
    BY DEF Iterated
  <1>. DEFINE So(f, m) == f[0] = start /\ \A i \in 1..m : f[i] = next[i][f[i - 1]]
              Good == {m \in 0..n : \E f \in [0..n -> V] : So(f, m)}
  <1>1. 0 \in Good
    <2>. DEFINE f == [i \in 0..n |-> start]
    <2>1. f \in [0..n -> V] /\ So(f, 0) /\ 0 \in 0..n
      OBVIOUS
    <2>. HIDE DEF f, So
    <2> QED
      BY <2>1
  <1>2. ASSUME NEW m \in 1..n, m - 1 \in Good
        PROVE  m \in Good
    <2>1. PICK f \in [0..n -> V] : So(f, m - 1)
      BY <1>2
    <2>. DEFINE v == next[m][f[m - 1]]
                g == [f EXCEPT ![m] = v]
    <2>2. v \in V
      OBVIOUS
    <2>3. g \in [0..n -> V] /\ g[m] = v /\ \A i \in 0..n : i # m => g[i] = f[i]
      BY <2>2
    <2>. HIDE DEF g
    <2>4. ASSUME NEW i \in 1..m
          PROVE  g[i] = next[i][g[i - 1]]
      <3>1. i - 1 \in 0..n /\ i \in 0..n /\ i - 1 # m
        OBVIOUS
      <3>2. CASE i = m
        BY <2>3, <3>1, <3>2
      <3>3. CASE i # m
        <4>1. i \in 1..m - 1
          BY <3>3
        <4> QED
          BY <2>1, <2>3, <3>1, <3>3, <4>1
      <3> QED
        BY <3>2, <3>3
    <2>5. g[0] = start
      BY <2>1, <2>3
    <2> QED
      BY <2>3, <2>4, <2>5
  <1>3. 0..n \subseteq Good
    <2>. HIDE DEF Good
    <2> QED
      BY <1>1, <1>2, Upward
  <1>4. n \in Good
    BY <1>3
  <1> QED
    BY <1>4

\* A sequence with one more element before it.
LEMMA Prepended ==
    ASSUME NEW S, NEW x \in S, NEW s \in Seq(S)
    PROVE  LET t == <<x>> \o s
           IN  /\ t \in Seq(S) /\ Len(t) = Len(s) + 1
               /\ t[1] = x
               /\ \A k \in 1..Len(s) : t[k + 1] = s[k]
  OBVIOUS

(***************************************************************************)
(* What is defined at a place by what it is at later ones is defined: a    *)
(* step that looks at later places only has a fixed point.                 *)
(***************************************************************************)
LooksAhead(step, n, V) ==
    /\ n \in Nat /\ V # {}
    /\ step \in [[1..n -> V] -> [1..n -> V]]
    /\ \A f, g \in [1..n -> V] : \A i \in 1..n :
            (\A k \in i + 1..n : f[k] = g[k]) => step[f][i] = step[g][i]

LEMMA Descends ==
    \A n, V, step :
        LooksAhead(step, n, V) => \E f \in [1..n -> V] : f = step[f]
  <1>. SUFFICES ASSUME NEW n, NEW V, NEW step, LooksAhead(step, n, V)
                PROVE  \E f \in [1..n -> V] : f = step[f]
    OBVIOUS
  <1>. DEFINE Fixed(f, m) == \A i \in 1..n : i > n - m => f[i] = step[f][i]
              T == {m \in 0..n : ~\E f \in [1..n -> V] : Fixed(f, m)}
  <1>. /\ n \in Nat /\ V # {}
       /\ step \in [[1..n -> V] -> [1..n -> V]]
    BY DEF LooksAhead
  <1>1. T = {}
    <2>. SUFFICES ASSUME T # {}
                  PROVE  FALSE
      OBVIOUS
    <2>1. PICK m \in T : \A l \in T : m <= l
      <3>1. T \subseteq Nat
        OBVIOUS
      <3>. HIDE DEF T
      <3> QED
        BY <3>1, Least
    <2>2. m # 0
      <3>1. PICK v \in V : TRUE
        OBVIOUS
      <3>2. [i \in 1..n |-> v] \in [1..n -> V] /\ Fixed([i \in 1..n |-> v], 0)
        OBVIOUS
      <3> QED
        BY <3>2
    <2>3. PICK f \in [1..n -> V] : Fixed(f, m - 1)
      <3>1. m \in 1..n /\ m - 1 \in 0..n /\ ~(m <= m - 1)
        BY <2>1, <2>2
      <3>2. m - 1 \notin T
        BY <2>1, <3>1
      <3> QED
        BY <3>1, <3>2
    <2>. DEFINE g == [f EXCEPT ![n - m + 1] = step[f][n - m + 1]]
    <2>4. g \in [1..n -> V] /\ \A k \in 1..n : k > n - m + 1 => g[k] = f[k]
      BY <2>1, <2>2
    <2>5. ASSUME NEW i \in 1..n, i > n - m
          PROVE  g[i] = step[g][i]
      <3>1. step[f][i] = step[g][i]
        <4>1. \A k \in i + 1..n : f[k] = g[k]
          BY <2>1, <2>4, <2>5
        <4>. HIDE DEF g
        <4> QED
          BY <2>4, <4>1 DEF LooksAhead
      <3>2. g[i] = step[f][i]
        <4>1. CASE i = n - m + 1
          BY <4>1
        <4>2. CASE i > n - m + 1
          <5>1. i > n - (m - 1)
            BY <2>1, <4>2
          <5> QED
            BY <2>3, <2>4, <4>2, <5>1
        <4> QED
          BY <2>1, <2>5, <4>1, <4>2
      <3> QED
        BY <3>1, <3>2
    <2> QED
      BY <2>1, <2>4, <2>5
  <1>2. PICK f \in [1..n -> V] : Fixed(f, n)
    <2>1. n \in 0..n
      OBVIOUS
    <2>. HIDE DEF Fixed
    <2> QED
      BY <1>1, <2>1
  <1>3. step[f] \in [1..n -> V]
    OBVIOUS
  <1> QED
    BY <1>2, <1>3

-----------------------------------------------------------------------------
\* Places in a pattern

LEMMA IndexIs ==
    ASSUME NEW s \in Seq(STRING), NEW i \in Nat \ {0}, NEW c
    PROVE  IndexFrom(s, i, c) = 0 \/ IndexFrom(s, i, c) \in i..Len(s)
  <1>. DEFINE at == {j \in i..Len(s) : s[j] = c}
  <1>1. at \subseteq Nat
    OBVIOUS
  <1>2. at # {} => Min(at) \in at
    <2>. HIDE DEF at
    <2> QED
      BY <1>1, MinIs
  <1> QED
    BY <1>2 DEF IndexFrom

\* A run of stars ends where the star after it ends its own.
LEMMA AfterStarsIs ==
    ASSUME NEW pattern \in Seq(STRING), NEW i \in 1..Len(pattern), pattern[i] = "*"
    PROVE  /\ AfterStars(pattern, i) \in i + 1..Len(pattern) + 1
           /\ i < Len(pattern) /\ pattern[i + 1] = "*" =>
                AfterStars(pattern, i) = AfterStars(pattern, i + 1)
           /\ ~(i < Len(pattern) /\ pattern[i + 1] = "*") =>
                AfterStars(pattern, i) = i + 1
  <1>. DEFINE n == Len(pattern)
              Ends(k) == {l \in k..n : pattern[l] # "*"} \cup {n + 1}
  <1>1. Ends(i) = Ends(i + 1)
    OBVIOUS
  <1>2. Ends(i + 1) \subseteq i + 1..n + 1 /\ n + 1 \in Ends(i + 1)
    OBVIOUS
  <1>3. ~(i < n /\ pattern[i + 1] = "*") => i + 1 \in Ends(i + 1)
    OBVIOUS
  <1>4. AfterStars(pattern, i) = Min(Ends(i)) /\ AfterStars(pattern, i + 1) = Min(Ends(i + 1))
    BY DEF AfterStars
  <1>. HIDE DEF Ends
  <1>5. Min(Ends(i + 1)) \in Ends(i + 1) /\ \A y \in Ends(i + 1) : Min(Ends(i + 1)) <= y
    <2>1. Ends(i + 1) \subseteq Nat /\ Ends(i + 1) # {}
      BY <1>2
    <2> QED
      BY <2>1, MinIs
  <1> QED
    BY <1>1, <1>2, <1>3, <1>4, <1>5

-----------------------------------------------------------------------------
\* The search and the pieces, place by place

LEMMA SearchLooksAhead ==
    ASSUME NEW pattern \in Seq(STRING), NEW value \in Seq(STRING),
           NEW i \in 1..Len(pattern) + 1, NEW f, NEW g,
           \A k \in i + 1..Len(pattern) + 1 : f[k] = g[k]
    PROVE  MatchesAt(pattern, value, f, i) = MatchesAt(pattern, value, g, i)
  <1>1. CASE i > Len(pattern)
    BY <1>1 DEF MatchesAt
  <1>2. CASE i <= Len(pattern) /\ pattern[i] = "*"
    <2>1. AfterStars(pattern, i) \in i + 1..Len(pattern) + 1
      BY <1>2, AfterStarsIs
    <2>2. f[AfterStars(pattern, i)] = g[AfterStars(pattern, i)]
      BY <2>1
    <2> QED
      BY <1>2, <2>2 DEF MatchesAt
  <1>3. CASE i <= Len(pattern) /\ pattern[i] # "*"
    <2>1. IndexFrom(pattern, i, "]") # 0 =>
            f[IndexFrom(pattern, i, "]") + 1] = g[IndexFrom(pattern, i, "]") + 1]
      BY IndexIs
    <2>2. f[i + 1] = g[i + 1] /\ (i # Len(pattern) => f[i + 2] = g[i + 2])
      BY <1>3
    <2> QED
      BY <1>3, <2>1, <2>2 DEF MatchesAt
  <1> QED
    BY <1>1, <1>2, <1>3

LEMMA SearchIs ==
    ASSUME NEW pattern \in Seq(STRING), NEW value \in Seq(STRING)
    PROVE  \A i \in 1..Len(pattern) + 1 :
                MatchesFrom(pattern, value)[i]
                    = MatchesAt(pattern, value, MatchesFrom(pattern, value), i)
  <1>. DEFINE n == Len(pattern) + 1
              V == SUBSET (1..Len(value) + 1)
              At(f, i) == MatchesAt(pattern, value, f, i)
              step == [f \in [1..n -> V] |-> [i \in 1..n |-> At(f, i)]]
  <1>1. \A f : \A i \in 1..n : At(f, i) \in V
    <2>. TAKE f
    <2>. TAKE i \in 1..n
    <2>. DEFINE L == Len(value)
    <2>1. /\ L \in Nat /\ L + 1 \in 1..L + 1
          /\ \A C, S : Before(value, C, S) \in V
          /\ {j \in 1..L + 1 : AfterStars(pattern, i) > Len(pattern)
                    \/ StarPlaces(j, L) \cap f[AfterStars(pattern, i)] # {}} \in V
      BY DEF Before
    <2>2. {} \in V /\ {L + 1} \in V
      BY <2>1
    <2>. HIDE DEF V, L
    <2> QED
      BY <2>1, <2>2 DEF MatchesAt, L
  <1>2. ASSUME NEW f, NEW g, NEW i \in 1..n, \A k \in i + 1..n : f[k] = g[k]
        PROVE  At(f, i) = At(g, i)
    BY <1>2, SearchLooksAhead, ZenonT(60)
  <1>3. n \in Nat /\ V # {}
    <2>1. {} \in V
      OBVIOUS
    <2>. HIDE DEF V
    <2> QED
      BY <2>1
  <1>. HIDE DEF n, V, At
  <1>4. \E f \in [1..n -> V] : f = step[f]
    <2>1. \A f \in [1..n -> V] : [i \in 1..n |-> At(f, i)] \in [1..n -> V]
      BY <1>1
    <2>2. step \in [[1..n -> V] -> [1..n -> V]]
      BY <2>1, Zenon
    <2>3. \A f \in [1..n -> V] : \A i \in 1..n : step[f][i] = At(f, i)
      BY Zenon
    <2>. HIDE DEF step
    <2>4. \A f, g \in [1..n -> V] : \A i \in 1..n :
                (\A k \in i + 1..n : f[k] = g[k]) => step[f][i] = step[g][i]
      <3>. SUFFICES ASSUME NEW f \in [1..n -> V], NEW g \in [1..n -> V], NEW i \in 1..n,
                           \A k \in i + 1..n : f[k] = g[k]
                    PROVE  step[f][i] = step[g][i]
        BY Zenon
      <3>1. At(f, i) = At(g, i)
        BY <1>2
      <3> QED
        BY <2>3, <3>1, Zenon
    <2>5. LooksAhead(step, n, V)
      BY <1>3, <2>2, <2>4, Zenon DEF LooksAhead
    <2> QED
      BY <2>5, Descends
  <1>5. PICK f : f = [i \in 1..n |-> At(f, i)]
    BY <1>4, Zenon
  <1>6. MatchesFrom(pattern, value) = [i \in 1..n |-> At(MatchesFrom(pattern, value), i)]
    BY <1>5, Zenon DEF MatchesFrom, n, At
  <1> QED
    BY <1>6 DEF n, At

LEMMA NextPiece ==
    ASSUME NEW pattern \in Seq(STRING), NEW i \in 1..Len(pattern)
    PROVE  PieceAt(pattern, i).next \in i + 1..Len(pattern) + 1
  <1>1. IndexFrom(pattern, i, "]") # 0 =>
            IndexFrom(pattern, i, "]") + 1 \in i + 1..Len(pattern) + 1
    BY IndexIs
  <1>2. i + 1 \in i + 1..Len(pattern) + 1 /\ Len(pattern) + 1 \in i + 1..Len(pattern) + 1
    OBVIOUS
  <1>3. i # Len(pattern) => i + 2 \in i + 1..Len(pattern) + 1
    OBVIOUS
  <1> QED
    BY <1>1, <1>2, <1>3 DEF PieceAt

AllPieces(pattern) == {PieceAt(pattern, i) : i \in 1..Len(pattern)}

LEMMA PiecesAre ==
    ASSUME NEW pattern \in Seq(STRING)
    PROVE  LET from == PiecesFrom(pattern)
               n == Len(pattern)
           IN  /\ \A i \in 1..n + 1 : from[i] \in Seq(AllPieces(pattern))
               /\ from[n + 1] = <<>>
               /\ \A i \in 1..n :
                    from[i] = <<PieceAt(pattern, i)>> \o from[PieceAt(pattern, i).next]
  <1>. DEFINE n == Len(pattern) + 1
              V == Seq(AllPieces(pattern))
              At(f, i) == IF i > Len(pattern) THEN <<>>
                          ELSE <<PieceAt(pattern, i)>> \o f[PieceAt(pattern, i).next]
              step == [f \in [1..n -> V] |-> [i \in 1..n |-> At(f, i)]]
  <1>1. ASSUME NEW f \in [1..n -> V], NEW i \in 1..n
        PROVE  At(f, i) \in V
    <2>1. CASE i > Len(pattern)
      BY <2>1
    <2>2. CASE i <= Len(pattern)
      <3>1. PieceAt(pattern, i) \in AllPieces(pattern)
        BY <2>2 DEF AllPieces
      <3>2. f[PieceAt(pattern, i).next] \in V
        BY <2>2, NextPiece
      <3>3. <<PieceAt(pattern, i)>> \o f[PieceAt(pattern, i).next] \in V
        BY <3>1, <3>2, Prepended
      <3> QED
        BY <2>2, <3>3
    <2> QED
      BY <2>1, <2>2
  <1>2. ASSUME NEW f, NEW g, NEW i \in 1..n, \A k \in i + 1..n : f[k] = g[k]
        PROVE  At(f, i) = At(g, i)
    BY <1>2, NextPiece
  <1>3. n \in Nat /\ V # {}
    <2>1. <<>> \in V
      OBVIOUS
    <2>. HIDE DEF V
    <2> QED
      BY <2>1
  <1>. HIDE DEF n, V, At
  <1>4. \E f \in [1..n -> V] : f = step[f]
    <2>1. \A f \in [1..n -> V] : [i \in 1..n |-> At(f, i)] \in [1..n -> V]
      BY <1>1
    <2>2. step \in [[1..n -> V] -> [1..n -> V]]
      BY <2>1, Zenon
    <2>3. \A f \in [1..n -> V] : \A i \in 1..n : step[f][i] = At(f, i)
      BY Zenon
    <2>. HIDE DEF step
    <2>4. \A f, g \in [1..n -> V] : \A i \in 1..n :
                (\A k \in i + 1..n : f[k] = g[k]) => step[f][i] = step[g][i]
      <3>. SUFFICES ASSUME NEW f \in [1..n -> V], NEW g \in [1..n -> V], NEW i \in 1..n,
                           \A k \in i + 1..n : f[k] = g[k]
                    PROVE  step[f][i] = step[g][i]
        BY Zenon
      <3>1. At(f, i) = At(g, i)
        BY <1>2
      <3> QED
        BY <2>3, <3>1, Zenon
    <2>5. LooksAhead(step, n, V)
      BY <1>3, <2>2, <2>4, Zenon DEF LooksAhead
    <2> QED
      BY <2>5, Descends
  <1>5. \E f : f = [i \in 1..n |-> At(f, i)]
    BY <1>4, Zenon
  <1>6. PiecesFrom(pattern) = [i \in 1..n |-> At(PiecesFrom(pattern), i)]
    BY <1>5, Zenon DEF PiecesFrom, n, At
  <1>. DEFINE from == PiecesFrom(pattern)
              Good == {i \in 1..n : from[i] \in V}
  <1>7. \A i \in 1..n : from[i] = At(from, i)
    BY <1>6
  <1>. HIDE DEF from
  <1>8. ASSUME NEW i \in 1..n, \A k \in i + 1..n : k \in Good
        PROVE  i \in Good
    <2>. DEFINE f == [k \in 1..n |-> IF k > i THEN from[k] ELSE <<>>]
    <2>1. f \in [1..n -> V]
      <3>1. <<>> \in V /\ i \in Nat /\ n \in Nat
        BY <1>3 DEF V, n
      <3>2. \A k \in 1..n : k > i => k \in Good
        BY <1>8, <3>1
      <3> QED
        BY <3>1, <3>2
    <2>2. \A k \in i + 1..n : f[k] = from[k]
      BY <1>3
    <2>. HIDE DEF f
    <2>3. At(f, i) = At(from, i)
      BY <1>2, <2>2
    <2> QED
      BY <1>1, <1>7, <2>1, <2>3
  <1>9. 1..n \subseteq Good
    <2>. HIDE DEF Good
    <2> QED
      BY <1>3, <1>8, Downward
  <1>10. \A i \in 1..Len(pattern) + 1 : from[i] \in Seq(AllPieces(pattern))
    BY <1>9 DEF n, V
  <1>11. Len(pattern) + 1 \in 1..n /\ n = Len(pattern) + 1
    BY DEF n
  <1>12. from[Len(pattern) + 1] = <<>>
    <2>1. Len(pattern) + 1 > Len(pattern)
      OBVIOUS
    <2> QED
      BY <1>7, <1>11, <2>1, Zenon DEF At
  <1>13. ASSUME NEW i \in 1..Len(pattern)
         PROVE  from[i] = <<PieceAt(pattern, i)>> \o from[PieceAt(pattern, i).next]
    <2>1. i \in 1..n /\ ~(i > Len(pattern))
      BY <1>11
    <2> QED
      BY <1>7, <2>1, Zenon DEF At
  <1> QED
    BY <1>10, <1>12, <1>13, Zenon DEF from

-----------------------------------------------------------------------------
\* What the pieces can take

LEMMA CutEmpty ==
    ASSUME NEW value \in Seq(STRING), NEW d \in 0..Len(value)
    PROVE  Cut(<<>>, value, d) <=> d = Len(value)
  <1>1. ASSUME d = Len(value)
        PROVE  Cut(<<>>, value, d)
    <2>. DEFINE cut == [k \in 0..0 |-> d]
    <2>1. /\ cut \in [0..Len(<<>>) -> 0..Len(value)]
          /\ cut[0] = d /\ cut[Len(<<>>)] = Len(value)
          /\ \A k \in 1..Len(<<>>) : Takes(<<>>[k], value, cut[k - 1], cut[k])
      BY <1>1
    <2> QED
      BY <2>1, Zenon DEF Cut
  <1>2. ASSUME Cut(<<>>, value, d)
        PROVE  d = Len(value)
    <2>1. Len(<<>>) = 0
      OBVIOUS
    <2> QED
      BY <1>2, <2>1 DEF Cut
  <1> QED
    BY <1>1, <1>2

\* The first piece takes a share, the others what comes after it.
LEMMA CutFirst ==
    ASSUME NEW S, NEW x \in S, NEW pieces \in Seq(S),
           NEW value \in Seq(STRING), NEW d \in 0..Len(value)
    PROVE  Cut(<<x>> \o pieces, value, d) <=>
                \E e \in 0..Len(value) : Takes(x, value, d, e) /\ Cut(pieces, value, e)
  <1>. DEFINE all == <<x>> \o pieces
              K == Len(pieces)
              L == Len(value)
  <1>1. /\ Len(all) = K + 1 /\ all[1] = x /\ \A k \in 1..K : all[k + 1] = pieces[k]
        /\ K \in Nat /\ L \in Nat
    BY Prepended
  <1>. HIDE DEF all, K, L
  <1>2. ASSUME Cut(all, value, d)
        PROVE  \E e \in 0..L : Takes(x, value, d, e) /\ Cut(pieces, value, e)
    <2>1. PICK cut \in [0..K + 1 -> 0..L] :
            /\ cut[0] = d /\ cut[K + 1] = L
            /\ \A k \in 1..K + 1 : Takes(all[k], value, cut[k - 1], cut[k])
      BY <1>1, <1>2 DEF Cut, L
    <2>. DEFINE rest == [k \in 0..K |-> cut[k + 1]]
    <2>2. /\ rest \in [0..K -> 0..L]
          /\ rest[0] = cut[1] /\ rest[K] = L
      BY <1>1, <2>1
    <2>3. ASSUME NEW k \in 1..K
          PROVE  Takes(pieces[k], value, rest[k - 1], rest[k])
      <3>1. Takes(all[k + 1], value, cut[k], cut[k + 1])
        <4>1. k + 1 \in 1..K + 1 /\ (k + 1) - 1 = k
          BY <1>1
        <4> QED
          BY <2>1, <4>1
      <3>2. rest[k - 1] = cut[k] /\ rest[k] = cut[k + 1]
        BY <1>1
      <3> QED
        BY <1>1, <3>1, <3>2
    <2>. HIDE DEF rest
    <2>4. Cut(pieces, value, cut[1])
      BY <2>2, <2>3 DEF Cut, K, L
    <2>5. cut[1] \in 0..L /\ Takes(x, value, d, cut[1])
      <3>1. 1 \in 1..K + 1 /\ 1 - 1 = 0 /\ 1 \in 0..K + 1
        BY <1>1
      <3> QED
        BY <1>1, <2>1, <3>1
    <2> QED
      BY <2>4, <2>5
  <1>3. ASSUME NEW e \in 0..L, Takes(x, value, d, e), Cut(pieces, value, e)
        PROVE  Cut(all, value, d)
    <2>1. PICK rest \in [0..K -> 0..L] :
            /\ rest[0] = e /\ rest[K] = L
            /\ \A k \in 1..K : Takes(pieces[k], value, rest[k - 1], rest[k])
      BY <1>3 DEF Cut, K, L
    <2>. DEFINE cut == [k \in 0..K + 1 |-> IF k = 0 THEN d ELSE rest[k - 1]]
    <2>2. /\ cut \in [0..K + 1 -> 0..L]
          /\ cut[0] = d /\ cut[1] = e /\ cut[K + 1] = L
      BY <1>1, <2>1 DEF L
    <2>3. ASSUME NEW k \in 1..K + 1
          PROVE  Takes(all[k], value, cut[k - 1], cut[k])
      <3>1. CASE k = 1
        BY <1>1, <1>3, <2>2, <3>1
      <3>2. CASE k > 1
        <4>1. k - 1 \in 1..K /\ (k - 1) + 1 = k
          BY <1>1, <3>2
        <4>2. Takes(pieces[k - 1], value, rest[k - 1 - 1], rest[k - 1])
          BY <2>1, <4>1
        <4>3. cut[k - 1] = rest[k - 1 - 1] /\ cut[k] = rest[k - 1]
          BY <1>1, <3>2
        <4>4. all[k] = pieces[k - 1]
          BY <1>1, <4>1
        <4> QED
          BY <4>2, <4>3, <4>4
      <3> QED
        BY <1>1, <3>1, <3>2
    <2>. HIDE DEF cut
    <2> QED
      BY <1>1, <2>2, <2>3 DEF Cut, L
  <1> QED
    BY <1>2, <1>3 DEF all, L

-----------------------------------------------------------------------------
\* The search finds what the pieces can take

\* At the end of a pattern the value is to end as well.
LEMMA SearchEnds ==
    ASSUME NEW pattern \in Seq(STRING), NEW value \in Seq(STRING)
    PROVE  MatchesFrom(pattern, value)[Len(pattern) + 1] = {Len(value) + 1}
  <1>1. Len(pattern) + 1 \in 1..Len(pattern) + 1 /\ Len(pattern) + 1 > Len(pattern)
    OBVIOUS
  <1>2. MatchesFrom(pattern, value)[Len(pattern) + 1]
            = MatchesAt(pattern, value, MatchesFrom(pattern, value), Len(pattern) + 1)
    BY <1>1, SearchIs
  <1> QED
    BY <1>1, <1>2, Zenon DEF MatchesAt

\* Before a character of C one can go on from the next place.
LEMMA BeforeIs ==
    ASSUME NEW value \in Seq(STRING), NEW C, NEW S, NEW j \in 1..Len(value) + 1
    PROVE  j \in Before(value, C, S) <=>
                \E e \in 0..Len(value) : e = (j - 1) + 1 /\ value[e] \in C /\ e + 1 \in S
  BY DEF Before

(***************************************************************************)
(* A place of the search is one of the piece that begins there: from it a  *)
(* share can be taken, and the search goes on where that ends.  A run of   *)
(* stars is left at once, its pieces one by one.                           *)
(***************************************************************************)
LEMMA SearchByPieces ==
    ASSUME NEW pattern \in Seq(STRING), NEW value \in Seq(STRING),
           NEW i \in 1..Len(pattern), NEW j \in 1..Len(value) + 1
    PROVE  LET from == MatchesFrom(pattern, value)
               piece == PieceAt(pattern, i)
           IN  j \in from[i] <=>
                    \E e \in 0..Len(value) :
                        Takes(piece, value, j - 1, e) /\ e + 1 \in from[piece.next]
  <1>. DEFINE from == MatchesFrom(pattern, value)
              piece == PieceAt(pattern, i)
              L == Len(value)
              n == Len(pattern)
              end == IndexFrom(pattern, i, "]")
              after == AfterStars(pattern, i)
  <1>1. \A k \in 1..n + 1 : from[k] = MatchesAt(pattern, value, from, k)
    BY SearchIs
  <1>2. from[i] = MatchesAt(pattern, value, from, i) /\ ~(i > n)
    BY <1>1
  <1>3. ASSUME NEW C, NEW next, piece = [star |-> FALSE, chars |-> C, next |-> next],
               from[i] = Before(value, C, from[next])
        PROVE  j \in from[i] <=>
                    \E e \in 0..L : Takes(piece, value, j - 1, e) /\ e + 1 \in from[piece.next]
    BY <1>3, BeforeIs DEF Takes
  <1>4. ASSUME NEW next, piece = [star |-> FALSE, chars |-> {}, next |-> next], from[i] = {}
        PROVE  j \in from[i] <=>
                    \E e \in 0..L : Takes(piece, value, j - 1, e) /\ e + 1 \in from[piece.next]
    BY <1>4 DEF Takes
  <1>5. CASE pattern[i] = "*"
    <2>1. piece = [star |-> TRUE, chars |-> Chars, next |-> i + 1]
      BY <1>5 DEF PieceAt
    <2>2. j \in from[i] <=> after > n \/ \E k \in j..L + 1 : k \in from[after]
      BY <1>2, <1>5 DEF MatchesAt, StarPlaces
    <2>3. j \in from[i] <=> \E k \in j..L + 1 : k \in from[i + 1]
      <3>1. CASE i < n /\ pattern[i + 1] = "*"
        <4>1. after = AfterStars(pattern, i + 1)
          BY <1>5, <3>1, AfterStarsIs
        <4>2. \A k \in 1..L + 1 : k \in from[i + 1] <=>
                    after > n \/ \E l \in k..L + 1 : l \in from[after]
          <5>1. from[i + 1] = MatchesAt(pattern, value, from, i + 1) /\ ~(i + 1 > n)
            BY <1>1, <3>1
          <5>2. from[i + 1] = {k \in 1..L + 1 :
                                    after > n \/ (k..L + 1) \cap from[after] # {}}
            BY <3>1, <4>1, <5>1 DEF MatchesAt, StarPlaces
          <5>. HIDE DEF from, L, after, n
          <5> QED
            BY <5>2
        <4>3. j \in j..L + 1 /\ \A k \in j..L + 1 : k \in 1..L + 1 /\ k \in k..L + 1
          OBVIOUS
        <4>4. \A k \in j..L + 1 : \A l \in k..L + 1 : l \in j..L + 1
          OBVIOUS
        <4> QED
          BY <2>2, <4>2, <4>3, <4>4, Zenon
      <3>2. CASE i < n /\ pattern[i + 1] # "*"
        BY <1>5, <2>2, <3>2, AfterStarsIs
      <3>3. CASE i = n
        <4>1. after = n + 1
          BY <1>5, <3>3, AfterStarsIs
        <4>2. from[n + 1] = {L + 1}
          BY SearchEnds
        <4> QED
          <5>1. after > n /\ i + 1 = n + 1 /\ L + 1 \in j..L + 1
            BY <3>3, <4>1
          <5>. HIDE DEF from, L, after
          <5> QED
            BY <2>2, <4>2, <5>1
      <3> QED
        BY <3>1, <3>2, <3>3
    <2>4. (\E k \in j..L + 1 : k \in from[i + 1]) <=>
                \E e \in 0..L : j - 1 <= e /\ e + 1 \in from[i + 1]
      <3>1. \A k \in j..L + 1 : k - 1 \in 0..L /\ j - 1 <= k - 1 /\ (k - 1) + 1 = k
        OBVIOUS
      <3>2. \A e \in 0..L : j - 1 <= e => e + 1 \in j..L + 1
        OBVIOUS
      <3>. HIDE DEF from, L
      <3> QED
        BY <3>1, <3>2
    <2> QED
      BY <2>1, <2>3, <2>4 DEF Takes
  <1>6. CASE pattern[i] = "?"
    BY <1>2, <1>3, <1>6 DEF MatchesAt, PieceAt
  <1>7. CASE pattern[i] = "["
    <2>1. CASE end = 0
      BY <1>2, <1>4, <1>7, <2>1 DEF MatchesAt, PieceAt
    <2>2. CASE end # 0
      BY <1>2, <1>3, <1>7, <2>2 DEF MatchesAt, PieceAt
    <2> QED
      BY <2>1, <2>2
  <1>8. CASE pattern[i] = "\\"
    <2>1. CASE i = n
      BY <1>2, <1>4, <1>8, <2>1 DEF MatchesAt, PieceAt
    <2>2. CASE i # n
      BY <1>2, <1>3, <1>8, <2>2 DEF MatchesAt, PieceAt
    <2> QED
      BY <2>1, <2>2
  <1>9. CASE pattern[i] \notin {"*", "?", "[", "\\"}
    BY <1>2, <1>3, <1>9 DEF MatchesAt, PieceAt
  <1> QED
    BY <1>5, <1>6, <1>7, <1>8, <1>9

(***************************************************************************)
(* deepMatch: whatever pattern and value, the search matches them exactly  *)
(* if the value is cut into shares, one for each piece of the pattern.     *)
(***************************************************************************)
LEMMA SearchFindsLanguage ==
    ASSUME NEW pattern \in Seq(STRING), NEW value \in Seq(STRING)
    PROVE  DeepMatch(pattern, value) <=> InLanguage(pattern, value)
  <1>. DEFINE from == MatchesFrom(pattern, value)
              pieces == PiecesFrom(pattern)
              n == Len(pattern)
              L == Len(value)
              Same(i) == \A d \in 0..L : d + 1 \in from[i] <=> Cut(pieces[i], value, d)
              Good == {i \in 1..n + 1 : Same(i)}
  <1>1. ASSUME NEW i \in 1..n + 1, \A k \in i + 1..n + 1 : k \in Good
        PROVE  i \in Good
    <2>1. CASE i = n + 1
      <3>1. pieces[n + 1] = <<>>
        BY PiecesAre
      <3>2. from[n + 1] = {L + 1}
        BY SearchEnds
      <3>3. ASSUME NEW d \in 0..L
            PROVE  d + 1 \in from[n + 1] <=> Cut(pieces[n + 1], value, d)
        <4>1. Cut(<<>>, value, d) <=> d = L
          BY CutEmpty
        <4>2. d + 1 \in {L + 1} <=> d = L
          OBVIOUS
        <4> QED
          BY <3>1, <3>2, <4>1, <4>2
      <3> QED
        BY <2>1, <3>3
    <2>2. CASE i \in 1..n
      <3>. DEFINE piece == PieceAt(pattern, i)
      <3>1. piece.next \in i + 1..n + 1 /\ piece.next \in 1..n + 1
        BY <2>2, NextPiece
      <3>2. Same(piece.next)
        BY <1>1, <3>1
      <3>3. /\ piece \in AllPieces(pattern)
            /\ pieces[piece.next] \in Seq(AllPieces(pattern))
            /\ pieces[i] = <<piece>> \o pieces[piece.next]
        BY <2>2, <3>1, PiecesAre DEF AllPieces
      <3>4. ASSUME NEW d \in 0..L
            PROVE  d + 1 \in from[i] <=> Cut(pieces[i], value, d)
        <4>1. d + 1 \in 1..L + 1 /\ (d + 1) - 1 = d
          OBVIOUS
        <4>2. d + 1 \in from[i] <=>
                    \E e \in 0..L : Takes(piece, value, d, e) /\ e + 1 \in from[piece.next]
          <5>1. d + 1 \in from[i] <=>
                    \E e \in 0..L :
                        Takes(piece, value, (d + 1) - 1, e) /\ e + 1 \in from[piece.next]
            BY <2>2, <4>1, SearchByPieces, Zenon
          <5> QED
            BY <4>1, <5>1, Zenon
        <4>3. Cut(pieces[i], value, d) <=>
                    \E e \in 0..L : Takes(piece, value, d, e) /\ Cut(pieces[piece.next], value, e)
          BY <3>3, CutFirst
        <4>. HIDE DEF from, pieces, piece, L
        <4> QED
          BY <3>2, <4>2, <4>3
      <3> QED
        BY <3>4
    <2> QED
      BY <2>1, <2>2
  <1>2. 1..n + 1 \subseteq Good
    <2>1. n + 1 \in Nat
      OBVIOUS
    <2>. HIDE DEF Good
    <2> QED
      BY <1>1, <2>1, Downward
  <1>3. 1 \in 1..n + 1 /\ 0 \in 0..L /\ 0 + 1 = 1
    OBVIOUS
  <1>. HIDE DEF n, L, from, pieces
  <1>4. 1 \in from[1] <=> Cut(pieces[1], value, 0)
    BY <1>2, <1>3
  <1> QED
    BY <1>4 DEF DeepMatch, InLanguage, from, pieces

-----------------------------------------------------------------------------
\* Reading a line

\* The characters that end a word or are not taken for themselves.
Marks == {Quote, Blank, Escape}

\* What stands for fixed wording, and for the name of an action.
Wording ==
    {"docker exec", "docker container create", "docker container", "docker image pull",
     "docker image rm", "docker image tag", "docker image", "docker volume",
     "docker network", "--user", "--name"}
    \cup {routes[i].action : i \in DOMAIN routes}

Letter == STRING \cup Marks \cup Wording

ReadState ==
    {Between(ws) : ws \in Seq(Seq(Letter))} \cup
    {Within(s[1], s[2], s[3], s[4]) :
        s \in Seq(Seq(Letter)) \X Seq(Letter) \X BOOLEAN \X BOOLEAN}

LEMMA MarksDiffer == Quote # Blank /\ Quote # Escape /\ Blank # Escape
  BY DEF Quote, Blank, Escape

LEMMA ReadBetween ==
    ASSUME NEW ws, NEW c
    PROVE  /\ c = Quote => ReadChar(Between(ws), c) = Within(ws, <<>>, TRUE, FALSE)
           /\ c = Escape => ReadChar(Between(ws), c) = Within(ws, <<>>, FALSE, TRUE)
           /\ c = Blank => ReadChar(Between(ws), c) = Between(ws)
           /\ c \notin Marks =>
                ReadChar(Between(ws), c) = Within(ws, Append(<<>>, c), FALSE, FALSE)
  <1>1. LET r == Between(ws)
        IN  /\ r.words = ws /\ r.word = <<>>
            /\ r.in = FALSE /\ r.quoted = FALSE /\ r.escaped = FALSE
    BY DEF Between
  <1> QED
    BY <1>1, MarksDiffer DEF ReadChar, Marks

LEMMA ReadWithin ==
    ASSUME NEW ws, NEW w, NEW c
    PROVE  /\ c = Quote => ReadChar(Within(ws, w, FALSE, FALSE), c) = Within(ws, w, TRUE, FALSE)
           /\ c = Escape => ReadChar(Within(ws, w, FALSE, FALSE), c) = Within(ws, w, FALSE, TRUE)
           /\ c = Blank => ReadChar(Within(ws, w, FALSE, FALSE), c) = Between(Append(ws, w))
           /\ c \notin Marks =>
                ReadChar(Within(ws, w, FALSE, FALSE), c)
                    = Within(ws, Append(w, c), FALSE, FALSE)
  <1>1. LET r == Within(ws, w, FALSE, FALSE)
        IN  /\ r.words = ws /\ r.word = w
            /\ r.in = TRUE /\ r.quoted = FALSE /\ r.escaped = FALSE
    BY DEF Within
  <1> QED
    BY <1>1, MarksDiffer DEF ReadChar, Marks

LEMMA ReadMarked ==
    ASSUME NEW ws, NEW w, NEW c
    PROVE  /\ c = Quote => ReadChar(Within(ws, w, TRUE, FALSE), c) = Within(ws, w, FALSE, FALSE)
           /\ c # Quote =>
                ReadChar(Within(ws, w, TRUE, FALSE), c) = Within(ws, Append(w, c), TRUE, FALSE)
           /\ ReadChar(Within(ws, w, FALSE, TRUE), c) = Within(ws, Append(w, c), FALSE, FALSE)
  <1>1. LET r == Within(ws, w, TRUE, FALSE)
        IN  /\ r.words = ws /\ r.word = w /\ r.quoted = TRUE /\ r.escaped = FALSE
    BY DEF Within
  <1>2. LET r == Within(ws, w, FALSE, TRUE)
        IN  r.words = ws /\ r.word = w /\ r.quoted = FALSE /\ r.escaped = TRUE
    BY DEF Within
  <1> QED
    BY <1>1, <1>2 DEF ReadChar

LEMMA BetweenTyped ==
    ASSUME NEW ws \in Seq(Seq(Letter))
    PROVE  Between(ws) \in ReadState
  BY DEF ReadState

LEMMA WithinTyped ==
    ASSUME NEW ws \in Seq(Seq(Letter)), NEW w \in Seq(Letter),
           NEW quoted \in BOOLEAN, NEW escaped \in BOOLEAN
    PROVE  Within(ws, w, quoted, escaped) \in ReadState
  <1>. DEFINE s == <<ws, w, quoted, escaped>>
  <1>1. s \in Seq(Seq(Letter)) \X Seq(Letter) \X BOOLEAN \X BOOLEAN
    OBVIOUS
  <1>2. Within(ws, w, quoted, escaped) = Within(s[1], s[2], s[3], s[4])
    OBVIOUS
  <1>. HIDE DEF s
  <1> QED
    BY <1>1, <1>2, Zenon DEF ReadState

LEMMA ReadStateParts ==
    ASSUME NEW r \in ReadState
    PROVE  r.words \in Seq(Seq(Letter)) /\ r.word \in Seq(Letter)
  <1>1. ASSUME NEW ws \in Seq(Seq(Letter)), r = Between(ws)
        PROVE  r.words \in Seq(Seq(Letter)) /\ r.word \in Seq(Letter)
    BY <1>1 DEF Between
  <1>2. ASSUME NEW s \in Seq(Seq(Letter)) \X Seq(Letter) \X BOOLEAN \X BOOLEAN,
               r = Within(s[1], s[2], s[3], s[4])
        PROVE  r.words \in Seq(Seq(Letter)) /\ r.word \in Seq(Letter)
    <2>1. s[1] \in Seq(Seq(Letter)) /\ s[2] \in Seq(Letter)
      OBVIOUS
    <2> QED
      BY <1>2, <2>1 DEF Within
  <1> QED
    BY <1>1, <1>2 DEF ReadState

LEMMA ReadCharTyped ==
    ASSUME NEW r \in ReadState, NEW c \in Letter
    PROVE  ReadChar(r, c) \in ReadState
  <1>1. /\ r.words \in Seq(Seq(Letter)) /\ r.word \in Seq(Letter)
        /\ Append(r.word, c) \in Seq(Letter)
        /\ Append(r.words, r.word) \in Seq(Seq(Letter))
    BY ReadStateParts
  <1>2. TRUE \in BOOLEAN /\ FALSE \in BOOLEAN
    OBVIOUS
  <1>3. \A w \in {r.word, Append(r.word, c)} : \A quoted, escaped \in BOOLEAN :
            Within(r.words, w, quoted, escaped) \in ReadState
    BY <1>1, WithinTyped
  <1>4. Between(Append(r.words, r.word)) \in ReadState
    BY <1>1, BetweenTyped
  <1> QED
    BY <1>2, <1>3, <1>4 DEF ReadChar

\* The states of a reader that takes a text from state r on.
Reading(r, text, read) ==
    /\ read[0] = r
    /\ \A i \in 1..Len(text) : read[i] = ReadChar(read[i - 1], text[i])

LEMMA ReadingIs ==
    ASSUME NEW r \in ReadState, NEW text \in Seq(Letter)
    PROVE  \E read \in [0..Len(text) -> ReadState] :
                Reading(r, text, read) /\ ReadOn(r, text) = read[Len(text)]
  <1>. DEFINE n == Len(text)
              At(f, i) == IF i = 0 THEN r ELSE ReadChar(f[i - 1], text[i])
              next == [i \in 1..n |-> [q \in ReadState |-> ReadChar(q, text[i])]]
  <1>1. n \in Nat /\ \A i \in 1..n : text[i] \in Letter
    OBVIOUS
  <1>. HIDE DEF n
  <1>2. Iterated(n, ReadState, r, next)
    BY <1>1, ReadCharTyped DEF Iterated
  <1>3. PICK f \in [0..n -> ReadState] :
            f[0] = r /\ \A i \in 1..n : f[i] = next[i][f[i - 1]]
    <2>. HIDE DEF next
    <2> QED
      BY <1>2, Iterates
  <1>4. ASSUME NEW i \in 0..n
        PROVE  f[i] = At(f, i)
    <2>1. CASE i = 0
      BY <1>3, <2>1
    <2>2. CASE i \in 1..n
      <3>1. f[i - 1] \in ReadState /\ i # 0
        BY <1>1, <1>3, <2>2
      <3> QED
        BY <1>3, <2>2, <3>1
    <2> QED
      BY <1>1, <2>1, <2>2
  <1>5. f = [i \in 0..n |-> At(f, i)]
    <2>. HIDE DEF At
    <2> QED
      BY <1>3, <1>4
  <1>. DEFINE read == CHOOSE g : g = [i \in 0..n |-> At(g, i)]
  <1>6. read = [i \in 0..n |-> At(read, i)]
    BY <1>5, Zenon
  <1>7. ReadOn(r, text) = read[n]
    BY Zenon DEF ReadOn, n
  <1>. HIDE DEF read
  <1>8. ASSUME NEW i \in 0..n
        PROVE  read[i] = At(read, i)
    <2>. HIDE DEF At
    <2> QED
      BY <1>6
  <1>. DEFINE Good == {i \in 0..n : read[i] = f[i]}
  <1>9. 0 \in Good
    BY <1>1, <1>3, <1>8
  <1>10. ASSUME NEW i \in 1..n, i - 1 \in Good
         PROVE  i \in Good
    <2>1. i \in 0..n /\ i # 0
      BY <1>1
    <2>2. read[i] = ReadChar(read[i - 1], text[i]) /\ f[i] = ReadChar(f[i - 1], text[i])
      BY <1>4, <1>8, <2>1
    <2> QED
      BY <1>10, <2>1, <2>2
  <1>11. 0..n \subseteq Good
    <2>. HIDE DEF Good
    <2> QED
      BY <1>1, <1>9, <1>10, Upward
  <1>12. read = f
    <2>. HIDE DEF At
    <2> QED
      BY <1>3, <1>6, <1>11
  <1>13. Reading(r, text, f)
    BY <1>1, <1>3, <1>4 DEF Reading, n
  <1> QED
    BY <1>3, <1>7, <1>12, <1>13 DEF n

LEMMA ReadOnTyped ==
    ASSUME NEW r \in ReadState, NEW text \in Seq(Letter)
    PROVE  ReadOn(r, text) \in ReadState
  <1>1. Len(text) \in 0..Len(text)
    OBVIOUS
  <1> QED
    BY <1>1, ReadingIs

LEMMA ReadOnEmpty ==
    ASSUME NEW r \in ReadState
    PROVE  ReadOn(r, <<>>) = r
  <1>1. <<>> \in Seq(Letter) /\ Len(<<>>) = 0
    OBVIOUS
  <1>2. PICK read : Reading(r, <<>>, read) /\ ReadOn(r, <<>>) = read[0]
    BY <1>1, ReadingIs
  <1> QED
    BY <1>2 DEF Reading

LEMMA ReadOnAppend ==
    ASSUME NEW r \in ReadState, NEW text \in Seq(Letter), NEW c \in Letter
    PROVE  ReadOn(r, Append(text, c)) = ReadChar(ReadOn(r, text), c)
  <1>. DEFINE n == Len(text)
              more == Append(text, c)
  <1>1. /\ n \in Nat /\ more \in Seq(Letter) /\ Len(more) = n + 1 /\ more[n + 1] = c
        /\ \A i \in 1..n : more[i] = text[i]
    OBVIOUS
  <1>. HIDE DEF n, more
  <1>2. PICK f : Reading(r, text, f) /\ ReadOn(r, text) = f[n]
    BY ReadingIs DEF n
  <1>3. PICK g : Reading(r, more, g) /\ ReadOn(r, more) = g[n + 1]
    <2>1. PICK g \in [0..Len(more) -> ReadState] :
                Reading(r, more, g) /\ ReadOn(r, more) = g[Len(more)]
      BY <1>1, ReadingIs
    <2> QED
      BY <1>1, <2>1
  <1>. DEFINE Good == {i \in 0..n : f[i] = g[i]}
  <1>4. 0 \in Good
    BY <1>1, <1>2, <1>3 DEF Reading
  <1>5. ASSUME NEW i \in 1..n, i - 1 \in Good
        PROVE  i \in Good
    <2>1. i \in 1..n + 1 /\ i \in 0..n /\ f[i - 1] = g[i - 1] /\ more[i] = text[i]
      BY <1>1, <1>5
    <2>2. f[i] = ReadChar(f[i - 1], text[i])
      BY <1>2 DEF Reading, n
    <2>3. g[i] = ReadChar(g[i - 1], more[i])
      BY <1>1, <1>3, <2>1 DEF Reading
    <2> QED
      BY <2>1, <2>2, <2>3
  <1>6. 0..n \subseteq Good
    <2>. HIDE DEF Good
    <2> QED
      BY <1>1, <1>4, <1>5, Upward
  <1>7. f[n] = g[n]
    BY <1>1, <1>6
  <1>8. g[n + 1] = ReadChar(g[n], c)
    <2>1. n + 1 \in 1..n + 1 /\ (n + 1) - 1 = n
      BY <1>1
    <2> QED
      BY <1>1, <1>3, <2>1 DEF Reading
  <1> QED
    BY <1>2, <1>3, <1>7, <1>8 DEF more

LEMMA ReadOnConcat ==
    ASSUME NEW r \in ReadState, NEW text \in Seq(Letter), NEW rest \in Seq(Letter)
    PROVE  ReadOn(r, text \o rest) = ReadOn(ReadOn(r, text), rest)
  <1>. DEFINE q == ReadOn(r, text)
              Good == {s \in Seq(Letter) : ReadOn(r, text \o s) = ReadOn(q, s)}
  <1>1. q \in ReadState
    BY ReadOnTyped
  <1>2. <<>> \in Good
    <2>1. text \o <<>> = text /\ <<>> \in Seq(Letter)
      OBVIOUS
    <2>. HIDE DEF q
    <2>2. ReadOn(q, <<>>) = q
      BY <1>1, ReadOnEmpty
    <2> QED
      BY <2>1, <2>2 DEF q
  <1>3. ASSUME NEW s \in Seq(Letter), NEW c \in Letter, s \in Good
        PROVE  Append(s, c) \in Good
    <2>1. /\ text \o Append(s, c) = Append(text \o s, c)
          /\ text \o s \in Seq(Letter) /\ Append(s, c) \in Seq(Letter)
      BY AppendAfter
    <2>2. ReadOn(r, text \o Append(s, c)) = ReadChar(ReadOn(r, text \o s), c)
      BY <2>1, ReadOnAppend
    <2>. HIDE DEF q
    <2>3. ReadOn(q, Append(s, c)) = ReadChar(ReadOn(q, s), c)
      BY <1>1, ReadOnAppend
    <2> QED
      BY <1>3, <2>1, <2>2, <2>3
  <1>4. Seq(Letter) \subseteq Good
    <2>. HIDE DEF Good
    <2> QED
      BY <1>2, <1>3, Appending
  <1> QED
    BY <1>4

LEMMA ReadOnOne ==
    ASSUME NEW r \in ReadState, NEW c \in Letter
    PROVE  ReadOn(r, <<c>>) = ReadChar(r, c)
  <1>1. <<c>> = Append(<<>>, c) /\ <<>> \in Seq(Letter)
    OBVIOUS
  <1> QED
    BY <1>1, ReadOnAppend, ReadOnEmpty

-----------------------------------------------------------------------------
\* Texts put together

Text == Seq(Letter)

\* The texts of a sequence, one after the other.
Flattening(seqs, flat) ==
    \A i \in 1..Len(seqs) : flat[i] = IF i = 1 THEN seqs[i] ELSE flat[i - 1] \o seqs[i]

LEMMA FlatteningIs ==
    ASSUME NEW seqs \in Seq(Text), seqs # <<>>
    PROVE  \E flat \in [1..Len(seqs) -> Text] :
                Flattening(seqs, flat) /\ FlattenSeq(seqs) = flat[Len(seqs)]
  <1>. DEFINE n == Len(seqs)
              At(f, i) == IF i = 1 THEN seqs[i] ELSE f[i - 1] \o seqs[i]
              next == [i \in 1..n |-> [s \in Text |-> s \o seqs[i]]]
  <1>1. n \in Nat \ {0} /\ \A i \in 1..n : seqs[i] \in Text
    BY EmptySeq
  <1>2. \A s, t \in Text : s \o t \in Text
    BY DEF Text
  <1>3. \A s \in Text : <<>> \o s = s
    BY DEF Text
  <1>4. <<>> \in Text
    BY DEF Text
  <1>. HIDE DEF n, Text
  <1>5. Iterated(n, Text, <<>>, next)
    BY <1>1, <1>2, <1>4 DEF Iterated
  <1>6. PICK f \in [0..n -> Text] :
            f[0] = <<>> /\ \A i \in 1..n : f[i] = next[i][f[i - 1]]
    <2>. HIDE DEF next
    <2> QED
      BY <1>5, Iterates
  <1>7. ASSUME NEW i \in 1..n
        PROVE  f[i] = At(f, i) /\ f[i] \in Text
    <2>1. f[i - 1] \in Text /\ f[i] \in Text
      BY <1>1, <1>6
    <2>2. f[i] = f[i - 1] \o seqs[i]
      BY <1>1, <1>6, <2>1
    <2>3. CASE i = 1
      <3>1. f[i - 1] = <<>> /\ seqs[i] \in Text
        BY <1>1, <1>6, <2>3
      <3> QED
        BY <1>3, <2>1, <2>2, <2>3, <3>1
    <2> QED
      BY <2>1, <2>2, <2>3
  <1>. DEFINE flat == [i \in 1..n |-> f[i]]
  <1>8. \A i \in 1..n : At(flat, i) = At(f, i)
    BY <1>1
  <1>9. flat \in [1..n -> Text] /\ flat = [i \in 1..n |-> At(flat, i)]
    <2>1. flat \in [1..n -> Text]
      BY <1>7
    <2>2. \A i \in 1..n : flat[i] = At(flat, i)
      BY <1>7, <1>8
    <2>. HIDE DEF At, flat
    <2> QED
      BY <2>1, <2>2
  <1>. HIDE DEF flat
  <1>. DEFINE chosen == CHOOSE g : g = [i \in 1..n |-> At(g, i)]
  <1>10. chosen = [i \in 1..n |-> At(chosen, i)]
    BY <1>9, Zenon
  <1>11. FlattenSeq(seqs) = chosen[n]
    BY <1>1, Zenon DEF FlattenSeq, n
  <1>. HIDE DEF chosen
  <1>12. ASSUME NEW i \in 1..n
         PROVE  chosen[i] = At(chosen, i) /\ flat[i] = At(flat, i)
    <2>. HIDE DEF At
    <2> QED
      BY <1>9, <1>10
  <1>. DEFINE Good == {i \in 0..n : i = 0 \/ chosen[i] = flat[i]}
  <1>13. 0 \in Good
    BY <1>1
  <1>14. ASSUME NEW i \in 1..n, i - 1 \in Good
         PROVE  i \in Good
    BY <1>1, <1>12, <1>14
  <1>15. 0..n \subseteq Good
    <2>. HIDE DEF Good
    <2> QED
      BY <1>1, <1>13, <1>14, Upward
  <1>16. chosen = flat
    <2>. HIDE DEF At
    <2> QED
      BY <1>1, <1>9, <1>10, <1>15
  <1>17. Flattening(seqs, flat)
    BY <1>12 DEF Flattening, n
  <1> QED
    BY <1>9, <1>11, <1>16, <1>17 DEF n

LEMMA FlattenEmpty == FlattenSeq(<<>>) = <<>>
  BY DEF FlattenSeq

LEMMA FlattenTyped ==
    ASSUME NEW seqs \in Seq(Text)
    PROVE  FlattenSeq(seqs) \in Text
  <1>1. CASE seqs = <<>>
    <2>1. FlattenSeq(seqs) = <<>>
      BY <1>1, FlattenEmpty, Zenon
    <2>2. <<>> \in Text
      BY DEF Text
    <2> QED
      BY <2>1, <2>2, Zenon
  <1>2. CASE seqs # <<>>
    <2>1. Len(seqs) \in 1..Len(seqs)
      BY <1>2, EmptySeq
    <2> QED
      BY <1>2, <2>1, FlatteningIs
  <1> QED
    BY <1>1, <1>2

LEMMA FlattenAppend ==
    ASSUME NEW seqs \in Seq(Text), NEW s \in Text
    PROVE  FlattenSeq(Append(seqs, s)) = FlattenSeq(seqs) \o s
  <1>. DEFINE n == Len(seqs)
              more == Append(seqs, s)
  <1>1. /\ n \in Nat /\ more \in Seq(Text) /\ more # <<>> /\ Len(more) = n + 1
        /\ more[n + 1] = s /\ \A i \in 1..n : more[i] = seqs[i]
    BY AppendProperties
  <1>. HIDE DEF n, more
  <1>2. PICK g \in [1..n + 1 -> Text] : Flattening(more, g) /\ FlattenSeq(more) = g[n + 1]
    <2>1. PICK g \in [1..Len(more) -> Text] :
                Flattening(more, g) /\ FlattenSeq(more) = g[Len(more)]
      BY <1>1, FlatteningIs
    <2> QED
      BY <1>1, <2>1
  <1>3. CASE seqs = <<>>
    <2>1. n = 0 /\ <<>> \o s = s
      BY <1>3 DEF n, Text
    <2>2. g[1] = s
      BY <1>1, <1>2, <2>1 DEF Flattening
    <2>3. FlattenSeq(seqs) = <<>>
      BY <1>3, FlattenEmpty, Zenon
    <2>4. FlattenSeq(more) = s
      BY <1>2, <2>1, <2>2
    <2> QED
      BY <2>1, <2>3, <2>4, Zenon DEF more
  <1>4. CASE seqs # <<>>
    <2>1. n >= 1
      BY <1>4, EmptySeq DEF n
    <2>2. PICK f \in [1..n -> Text] : Flattening(seqs, f) /\ FlattenSeq(seqs) = f[n]
      BY <1>4, FlatteningIs DEF n
    <2>. DEFINE Good == {i \in 0..n : i = 0 \/ f[i] = g[i]}
    <2>3. 0 \in Good
      BY <1>1
    <2>4. ASSUME NEW i \in 1..n, i - 1 \in Good
          PROVE  i \in Good
      <3>1. i \in 1..n + 1 /\ more[i] = seqs[i]
        BY <1>1
      <3>2. f[i] = IF i = 1 THEN seqs[i] ELSE f[i - 1] \o seqs[i]
        BY <2>2 DEF Flattening, n
      <3>3. g[i] = IF i = 1 THEN more[i] ELSE g[i - 1] \o more[i]
        BY <1>1, <1>2, <3>1 DEF Flattening
      <3>4. i # 1 => f[i - 1] = g[i - 1]
        BY <1>1, <2>4
      <3>5. f[i] = g[i]
        BY <3>1, <3>2, <3>3, <3>4, Zenon
      <3> QED
        BY <1>1, <3>5
    <2>5. 0..n \subseteq Good
      <3>. HIDE DEF Good
      <3> QED
        BY <1>1, <2>3, <2>4, Upward
    <2>6. f[n] = g[n]
      BY <1>1, <2>1, <2>5
    <2>7. g[n + 1] = g[n] \o s
      <3>1. n + 1 \in 1..n + 1 /\ n + 1 # 1 /\ (n + 1) - 1 = n
        BY <1>1, <2>1
      <3> QED
        BY <1>1, <1>2, <3>1 DEF Flattening
    <2> QED
      BY <1>2, <2>2, <2>6, <2>7 DEF more
  <1> QED
    BY <1>3, <1>4

-----------------------------------------------------------------------------
\* Words of a line

\* Text p, with a blank after it, is read as the words ws.
ReadsAs(p, ws) ==
    /\ p \in Text /\ ws \in Seq(Text)
    /\ \A vs \in Seq(Text) : ReadOn(Between(vs), Append(p, Blank)) = Between(vs \o ws)

LEMMA MarksTyped == Quote \in Letter /\ Blank \in Letter /\ Escape \in Letter
  BY DEF Letter, Marks

LEMMA WordEnds ==
    ASSUME NEW p \in Text, NEW w \in Text,
           \A vs \in Seq(Text) : ReadOn(Between(vs), p) = Within(vs, w, FALSE, FALSE)
    PROVE  ReadsAs(p, <<w>>)
  <1>1. ASSUME NEW vs \in Seq(Text)
        PROVE  ReadOn(Between(vs), Append(p, Blank)) = Between(vs \o <<w>>)
    <2>1. Between(vs) \in ReadState
      BY BetweenTyped DEF Text
    <2>2. ReadOn(Between(vs), Append(p, Blank)) = ReadChar(ReadOn(Between(vs), p), Blank)
      BY <2>1, ReadOnAppend, MarksTyped DEF Text
    <2>3. ReadChar(Within(vs, w, FALSE, FALSE), Blank) = Between(Append(vs, w))
      BY ReadWithin
    <2>4. Append(vs, w) = vs \o <<w>>
      BY AppendIsConcat
    <2> QED
      BY <2>2, <2>3, <2>4
  <1> QED
    BY <1>1 DEF ReadsAs

\* A character that is no mark begins a word, or goes on with it.
LEMMA PlainRead ==
    ASSUME NEW w \in Text, \A i \in 1..Len(w) : w[i] \notin Marks, NEW vs \in Seq(Text)
    PROVE  ReadOn(Between(vs), w) =
                IF w = <<>> THEN Between(vs) ELSE Within(vs, w, FALSE, FALSE)
  <1>. DEFINE r == Between(vs)
              Plain(s) == \A i \in 1..Len(s) : s[i] \notin Marks
              Good == {s \in Text : Plain(s) =>
                            ReadOn(r, s) = IF s = <<>> THEN r ELSE Within(vs, s, FALSE, FALSE)}
  <1>1. r \in ReadState
    BY BetweenTyped DEF Text
  <1>2. <<>> \in Good
    <2>1. <<>> \in Text
      BY DEF Text
    <2>. HIDE DEF r
    <2> QED
      BY <1>1, <2>1, ReadOnEmpty
  <1>3. ASSUME NEW s \in Seq(Letter), NEW c \in Letter, s \in Good
        PROVE  Append(s, c) \in Good
    <2>. DEFINE more == Append(s, c)
    <2>. HIDE DEF r
    <2>1. /\ more \in Text /\ more # <<>> /\ Len(more) = Len(s) + 1 /\ Len(s) \in Nat
          /\ more[Len(s) + 1] = c /\ \A i \in 1..Len(s) : more[i] = s[i]
      <3>1. /\ more \in Seq(Letter) /\ more # <<>> /\ Len(more) = Len(s) + 1
            /\ more[Len(s) + 1] = c /\ \A i \in 1..Len(s) : more[i] = s[i]
        BY AppendProperties
      <3>2. Len(s) \in Nat
        OBVIOUS
      <3> QED
        BY <3>1, <3>2 DEF Text
    <2>. HIDE DEF more
    <2>2. ASSUME Plain(more)
          PROVE  ReadOn(r, more) = Within(vs, more, FALSE, FALSE)
      <3>1. Plain(s) /\ c \notin Marks
        <4>1. \A i \in 1..Len(s) : i \in 1..Len(more)
          BY <2>1
        <4>2. Len(s) + 1 \in 1..Len(more)
          BY <2>1
        <4>. HIDE DEF Marks
        <4> QED
          BY <2>1, <2>2, <4>1, <4>2, Zenon
      <3>2. ReadOn(r, more) = ReadChar(ReadOn(r, s), c)
        BY <1>1, ReadOnAppend DEF more
      <3>3. CASE s = <<>>
        <4>1. ReadOn(r, s) = r
          BY <1>3, <3>1, <3>3
        <4>2. ReadChar(r, c) = Within(vs, Append(<<>>, c), FALSE, FALSE)
          BY <3>1, ReadBetween DEF r
        <4> QED
          BY <3>2, <3>3, <4>1, <4>2, Zenon DEF more
      <3>4. CASE s # <<>>
        <4>1. ReadOn(r, s) = Within(vs, s, FALSE, FALSE)
          BY <1>3, <3>1, <3>4
        <4>2. ReadChar(Within(vs, s, FALSE, FALSE), c) = Within(vs, more, FALSE, FALSE)
          BY <3>1, ReadWithin, ZenonT(60) DEF more
        <4> QED
          BY <3>2, <4>1, <4>2
      <3> QED
        BY <3>3, <3>4
    <2>3. more \in Good
      BY <2>1, <2>2
    <2> QED
      BY <2>3 DEF more
  <1>4. Seq(Letter) \subseteq Good
    <2>. HIDE DEF Good
    <2> QED
      BY <1>2, <1>3, Appending
  <1> QED
    BY <1>4 DEF Text

\* ReplaceAll, one character on.
Piece(c) == IF c = Quote THEN <<Quote, Escape, Quote, Quote>> ELSE <<c>>

LEMMA RequotedIs ==
    /\ Requoted(<<>>) = <<>>
    /\ \A s \in Text, c \in Letter :
            Requoted(s) \in Text /\ Requoted(Append(s, c)) = Requoted(s) \o Piece(c)
  <1>. DEFINE pieces(s) == [i \in DOMAIN s |-> Piece(s[i])]
  <1>1. \A c \in Letter : Piece(c) \in Text
    <2>1. \A c \in Letter : <<c>> \in Seq(Letter)
      OBVIOUS
    <2>2. <<Quote, Escape, Quote, Quote>> \in Seq(Letter)
      BY MarksTyped
    <2> QED
      BY <2>1, <2>2 DEF Piece, Text
  <1>2. \A s : Requoted(s) = FlattenSeq(pieces(s))
    BY DEF Requoted, Piece
  <1>3. Requoted(<<>>) = <<>>
    <2>1. pieces(<<>>) = <<>>
      OBVIOUS
    <2> QED
      BY <1>2, <2>1, FlattenEmpty, Zenon
  <1>4. ASSUME NEW s \in Text, NEW c \in Letter
        PROVE  Requoted(s) \in Text /\ Requoted(Append(s, c)) = Requoted(s) \o Piece(c)
    <2>. DEFINE n == Len(s)
    <2>1. n \in Nat /\ DOMAIN s = 1..n /\ \A i \in 1..n : s[i] \in Letter
      BY LenProperties, ElementOfSeq DEF Text
    <2>2. /\ DOMAIN Append(s, c) = 1..n + 1 /\ Append(s, c)[n + 1] = c
          /\ \A i \in 1..n : Append(s, c)[i] = s[i]
      <3>1. Append(s, c) \in Seq(Letter) /\ Len(Append(s, c)) = n + 1
        BY AppendProperties DEF Text
      <3>2. DOMAIN Append(s, c) = 1..n + 1
        BY <3>1, LenProperties
      <3> QED
        BY <3>2, AppendProperties DEF Text
    <2>. DEFINE more == Append(s, c)
    <2>. HIDE DEF Text, n, more
    <2>3. pieces(s) \in [1..n -> Text] /\ pieces(more) \in [1..n + 1 -> Text]
      BY <1>1, <2>1, <2>2 DEF more
    <2>4. /\ pieces(more)[n + 1] = Piece(c)
          /\ \A i \in 1..n : pieces(more)[i] = pieces(s)[i]
      BY <2>1, <2>2 DEF more
    <2>. HIDE DEF pieces
    <2>5. pieces(s) \in Seq(Text)
      BY <2>1, <2>3, IsSequence
    <2>6. pieces(more) = Append(pieces(s), Piece(c))
      BY <2>1, <2>3, <2>4, OneLonger
    <2>7. FlattenSeq(pieces(more)) = FlattenSeq(pieces(s)) \o Piece(c)
      BY <1>1, <2>5, <2>6, FlattenAppend
    <2> QED
      BY <1>2, <2>5, <2>7, FlattenTyped DEF more
  <1> QED
    BY <1>3, <1>4

LEMMA QuotedTyped ==
    ASSUME NEW vs \in Seq(Text)
    PROVE  /\ Between(vs) \in ReadState /\ Within(vs, <<>>, TRUE, FALSE) \in ReadState
           /\ \A w \in Text : Within(vs, w, TRUE, FALSE) \in ReadState
  <1>1. Text = Seq(Letter) /\ vs \in Seq(Seq(Letter))
    BY DEF Text
  <1>2. <<>> \in Seq(Letter) /\ TRUE \in BOOLEAN /\ FALSE \in BOOLEAN
    OBVIOUS
  <1>3. \A w \in Seq(Letter) : Within(vs, w, TRUE, FALSE) \in ReadState
    BY <1>1, <1>2, WithinTyped
  <1>4. Between(vs) \in ReadState
    BY <1>1, BetweenTyped
  <1> QED
    BY <1>1, <1>2, <1>3, <1>4, Zenon

\* Within quotes a word is read as it was before ReplaceAll.
LEMMA QuotedRead ==
    ASSUME NEW w \in Text, NEW vs \in Seq(Text)
    PROVE  ReadOn(Within(vs, <<>>, TRUE, FALSE), Requoted(w)) = Within(vs, w, TRUE, FALSE)
  <1>. DEFINE r == Within(vs, <<>>, TRUE, FALSE)
              Good == {s \in Text : ReadOn(r, Requoted(s)) = Within(vs, s, TRUE, FALSE)}
  <1>1. r \in ReadState /\ \A s \in Text : Within(vs, s, TRUE, FALSE) \in ReadState
    BY QuotedTyped
  <1>. HIDE DEF r
  <1>2. <<>> \in Good
    <2>1. <<>> \in Text
      BY DEF Text
    <2>2. ReadOn(r, Requoted(<<>>)) = r
      BY <1>1, RequotedIs, ReadOnEmpty, Zenon
    <2> QED
      BY <2>1, <2>2 DEF r
  <1>3. ASSUME NEW s \in Seq(Letter), NEW c \in Letter, s \in Good
        PROVE  Append(s, c) \in Good
    <2>. DEFINE q == Within(vs, s, TRUE, FALSE)
                next == Within(vs, Append(s, c), TRUE, FALSE)
    <2>1. s \in Text /\ Append(s, c) \in Text /\ q \in ReadState
      <3>1. Append(s, c) \in Seq(Letter)
        BY AppendProperties
      <3>2. s \in Text /\ Append(s, c) \in Text
        BY <3>1, Zenon DEF Text
      <3>3. q \in ReadState
        BY <1>1, <3>2, Zenon
      <3> QED
        BY <3>2, <3>3, Zenon
    <2>2. ReadOn(q, Piece(c)) = next
      <3>1. CASE c # Quote
        <4>1. ReadChar(q, c) = next
          <5>1. q.words = vs /\ q.word = s /\ q.quoted = TRUE /\ q.escaped = FALSE
            BY DEF Within
          <5>. HIDE DEF q
          <5> QED
            BY <3>1, <5>1 DEF ReadChar
        <4>2. Piece(c) = <<c>>
          BY <3>1, Zenon DEF Piece
        <4>. HIDE DEF q, next
        <4>3. ReadOn(q, <<c>>) = ReadChar(q, c)
          BY <2>1, ReadOnOne
        <4> QED
          BY <4>1, <4>2, <4>3, Zenon
      <3>2. CASE c = Quote
        <4>1. /\ Piece(c) = Append(Append(Append(<<Quote>>, Escape), Quote), Quote)
              /\ <<Quote>> \in Seq(Letter) /\ Append(<<Quote>>, Escape) \in Seq(Letter)
              /\ Append(Append(<<Quote>>, Escape), Quote) \in Seq(Letter)
          <5>1. Piece(c) = <<Quote, Escape, Quote, Quote>>
            BY <3>2, Zenon DEF Piece
          <5>. HIDE DEF Quote, Escape, Letter
          <5>2. <<Quote, Escape, Quote, Quote>>
                    = Append(Append(Append(<<Quote>>, Escape), Quote), Quote)
            OBVIOUS
          <5>3. <<Quote>> \in Seq(Letter)
            BY MarksTyped
          <5>4. Append(<<Quote>>, Escape) \in Seq(Letter)
            BY <5>3, MarksTyped, AppendProperties
          <5>5. Append(Append(<<Quote>>, Escape), Quote) \in Seq(Letter)
            BY <5>4, MarksTyped, AppendProperties
          <5> QED
            BY <5>1, <5>2, <5>3, <5>4, <5>5, Zenon
        <4>2. ReadChar(q, Quote) = Within(vs, s, FALSE, FALSE)
          BY ReadMarked
        <4>3. ReadChar(Within(vs, s, FALSE, FALSE), Escape) = Within(vs, s, FALSE, TRUE)
          BY ReadWithin
        <4>4. ReadChar(Within(vs, s, FALSE, TRUE), Quote)
                    = Within(vs, Append(s, c), FALSE, FALSE)
          BY <3>2, ReadMarked, ZenonT(60)
        <4>5. ReadChar(Within(vs, Append(s, c), FALSE, FALSE), Quote) = next
          BY ReadWithin
        <4>. HIDE DEF q, next
        <4>6. ReadOn(q, <<Quote>>) = Within(vs, s, FALSE, FALSE)
          BY <2>1, <4>2, ReadOnOne, MarksTyped
        <4>7. \A t \in Seq(Letter), x \in Letter :
                    ReadOn(q, Append(t, x)) = ReadChar(ReadOn(q, t), x)
          BY <2>1, ReadOnAppend
        <4>8. ReadOn(q, Append(<<Quote>>, Escape)) = Within(vs, s, FALSE, TRUE)
          BY <4>1, <4>3, <4>6, <4>7, MarksTyped, Zenon
        <4>9. ReadOn(q, Append(Append(<<Quote>>, Escape), Quote))
                    = Within(vs, Append(s, c), FALSE, FALSE)
          BY <4>1, <4>4, <4>7, <4>8, MarksTyped, Zenon
        <4> QED
          BY <4>1, <4>5, <4>7, <4>9, MarksTyped, Zenon
      <3> QED
        BY <3>1, <3>2
    <2>3. /\ Requoted(s) \in Seq(Letter) /\ Piece(c) \in Seq(Letter)
          /\ Requoted(Append(s, c)) = Requoted(s) \o Piece(c)
      <3>1. Piece(c) \in Seq(Letter)
        BY MarksTyped DEF Piece
      <3> QED
        BY <2>1, <3>1, RequotedIs DEF Text
    <2>4. ReadOn(r, Requoted(Append(s, c))) = ReadOn(ReadOn(r, Requoted(s)), Piece(c))
      BY <1>1, <2>3, ReadOnConcat
    <2>. HIDE DEF q, next
    <2>5. ReadOn(r, Requoted(s)) = q
      BY <1>3 DEF q
    <2> QED
      BY <2>1, <2>2, <2>4, <2>5, Zenon DEF next
  <1>4. Seq(Letter) \subseteq Good
    <2>. HIDE DEF Good
    <2> QED
      BY <1>2, <1>3, Appending
  <1> QED
    BY <1>4 DEF Text, r

\* shellWord: whatever a word is made of, it is read as that word.
LEMMA ShellWordReads ==
    ASSUME NEW w \in Text
    PROVE  ReadsAs(ShellWord(w), <<w>>) /\ ShellWord(w) # <<>>
  <1>1. <<Quote>> \in Seq(Letter) /\ Quote \in Letter
    BY MarksTyped
  <1>2. ASSUME NEW vs \in Seq(Text)
        PROVE  /\ Between(vs) \in ReadState /\ Within(vs, <<>>, TRUE, FALSE) \in ReadState
               /\ ReadOn(Between(vs), <<Quote>>) = Within(vs, <<>>, TRUE, FALSE)
    <2>1. <<>> \in Text
      BY DEF Text
    <2>2. Between(vs) \in ReadState /\ Within(vs, <<>>, TRUE, FALSE) \in ReadState
      BY <2>1, BetweenTyped, WithinTyped DEF Text
    <2>3. ReadChar(Between(vs), Quote) = Within(vs, <<>>, TRUE, FALSE)
      BY ReadBetween
    <2> QED
      BY <1>1, <2>2, <2>3, ReadOnOne
  <1>3. CASE w = <<>>
    <2>1. /\ ShellWord(w) = Append(<<Quote>>, Quote) /\ ShellWord(w) # <<>>
          /\ ShellWord(w) \in Text
      BY <1>1, <1>3 DEF ShellWord, Text
    <2>2. ASSUME NEW vs \in Seq(Text)
          PROVE  ReadOn(Between(vs), ShellWord(w)) = Within(vs, w, FALSE, FALSE)
      <3>1. ReadOn(Between(vs), ShellWord(w)) = ReadChar(Within(vs, <<>>, TRUE, FALSE), Quote)
        BY <1>1, <1>2, <2>1, ReadOnAppend
      <3>2. ReadChar(Within(vs, <<>>, TRUE, FALSE), Quote) = Within(vs, <<>>, FALSE, FALSE)
        BY ReadMarked
      <3> QED
        BY <1>3, <3>1, <3>2, Zenon
    <2> QED
      BY <2>1, <2>2, WordEnds
  <1>4. CASE w # <<>> /\ \A i \in DOMAIN w : w[i] \notin Special
    <2>1. ShellWord(w) = w
      BY <1>4 DEF ShellWord
    <2>2. \A i \in 1..Len(w) : w[i] \notin Marks
      <3>1. DOMAIN w = 1..Len(w)
        BY LenProperties DEF Text
      <3> QED
        BY <1>4, <3>1, PromptAssumption DEF Marks
    <2>3. \A vs \in Seq(Text) : ReadOn(Between(vs), w) = Within(vs, w, FALSE, FALSE)
      BY <1>4, <2>2, PlainRead
    <2> QED
      BY <1>4, <2>1, <2>3, WordEnds
  <1>5. CASE w # <<>> /\ ~\A i \in DOMAIN w : w[i] \notin Special
    <2>1. Requoted(w) \in Seq(Letter)
      <3>1. <<>> \in Text /\ Seq(Letter) = Text
        BY DEF Text
      <3>2. PICK s \in Text, c \in Letter : w = Append(s, c)
        BY <1>5, <3>1, SequenceEmptyOrAppend
      <3>3. Requoted(w) = Requoted(s) \o Piece(c) /\ Requoted(s) \in Text
        BY <3>2, RequotedIs
      <3>4. Piece(c) \in Seq(Letter)
        BY MarksTyped DEF Piece
      <3> QED
        BY <3>1, <3>3, <3>4, ConcatProperties
    <2>. DEFINE opened == <<Quote>> \o Requoted(w)
    <2>2. /\ ShellWord(w) = Append(opened, Quote) /\ opened \in Seq(Letter)
          /\ ShellWord(w) \in Text /\ ShellWord(w) # <<>>
      <3>1. ShellWord(w) = opened \o <<Quote>>
        BY <1>5, Zenon DEF ShellWord
      <3>2. opened \in Seq(Letter)
        BY <1>1, <2>1, ConcatProperties
      <3>. HIDE DEF opened
      <3>3. opened \o <<Quote>> = Append(opened, Quote)
        BY <1>1, <3>2, AppendIsConcat
      <3>4. Append(opened, Quote) \in Seq(Letter) /\ Append(opened, Quote) # <<>>
        BY <1>1, <3>2, AppendProperties
      <3> QED
        BY <3>1, <3>2, <3>3, <3>4, Zenon DEF Text
    <2>3. ASSUME NEW vs \in Seq(Text)
          PROVE  ReadOn(Between(vs), ShellWord(w)) = Within(vs, w, FALSE, FALSE)
      <3>1. ReadOn(Between(vs), opened) = Within(vs, w, TRUE, FALSE)
        <4>1. /\ Between(vs) \in ReadState
              /\ ReadOn(Between(vs), <<Quote>>) = Within(vs, <<>>, TRUE, FALSE)
          BY <1>2
        <4>2. ReadOn(Between(vs), opened)
                    = ReadOn(ReadOn(Between(vs), <<Quote>>), Requoted(w))
          BY <1>1, <2>1, <4>1, ReadOnConcat
        <4>3. ReadOn(Within(vs, <<>>, TRUE, FALSE), Requoted(w)) = Within(vs, w, TRUE, FALSE)
          BY QuotedRead
        <4> QED
          BY <4>1, <4>2, <4>3, Zenon
      <3>2. ReadChar(Within(vs, w, TRUE, FALSE), Quote) = Within(vs, w, FALSE, FALSE)
        BY ReadMarked
      <3>. HIDE DEF opened
      <3> QED
        BY <1>1, <1>2, <2>2, <3>1, <3>2, ReadOnAppend
    <2> QED
      BY <2>2, <2>3, WordEnds
  <1> QED
    BY <1>3, <1>4, <1>5

LEMMA ListLaws ==
    ASSUME NEW S
    PROVE  /\ <<>> \in Seq(S)
           /\ \A c \in S : <<c>> \in Seq(S)
           /\ \A s, t \in Seq(S) : s \o t \in Seq(S)
           /\ \A s, t, u \in Seq(S) : (s \o t) \o u = s \o (t \o u)
           /\ \A s \in Seq(S) : <<>> \o s = s /\ s \o <<>> = s
           /\ \A s \in Seq(S), c \in S :
                Append(s, c) = s \o <<c>> /\ Append(s, c) \in Seq(S)
  <1>1. /\ <<>> \in Seq(S)
        /\ \A c \in S : <<c>> \in Seq(S)
    OBVIOUS
  <1>2. \A s, t \in Seq(S) : s \o t \in Seq(S)
    BY ConcatProperties
  <1>3. \A s, t, u \in Seq(S) : (s \o t) \o u = s \o (t \o u)
    BY ConcatAssociative
  <1>4. \A s \in Seq(S) : <<>> \o s = s /\ s \o <<>> = s
    BY ConcatEmptySeq
  <1>5. \A s \in Seq(S), c \in S :
            Append(s, c) = s \o <<c>> /\ Append(s, c) \in Seq(S)
    BY AppendIsConcat, AppendProperties
  <1> QED
    BY <1>1, <1>2, <1>3, <1>4, <1>5, Zenon

LEMMA TextRegroups == \A s, t, u \in Text : (s \o t) \o u = s \o (t \o u)
  BY ListLaws, Zenon DEF Text

LEMMA TextLaws ==
    /\ <<>> \in Text
    /\ \A c \in Letter : <<c>> \in Text
    /\ \A s, t \in Text : s \o t \in Text
    /\ \A s \in Text : <<>> \o s = s /\ s \o <<>> = s
    /\ \A s \in Text, c \in Letter :
            Append(s, c) = s \o <<c>> /\ Append(s, c) \in Text
  BY ListLaws, Zenon DEF Text

\* What is read after a text that reads as words is read by itself.
LEMMA ReadsOn ==
    ASSUME NEW p, NEW q, NEW ws, NEW vs, ReadsAs(p, ws), ReadsAs(q, vs)
    PROVE  ReadsAs(p \o (<<Blank>> \o q), ws \o vs)
  <1>. DEFINE rest == <<Blank>> \o q
  <1>1. /\ p \in Text /\ q \in Text /\ ws \in Seq(Text) /\ vs \in Seq(Text)
        /\ Blank \in Letter /\ <<Blank>> \in Text
    BY MarksTyped, TextLaws DEF ReadsAs
  <1>2. rest \in Text /\ p \o rest \in Text /\ ws \o vs \in Seq(Text)
    BY <1>1, TextLaws, ListLaws
  <1>3. Append(p \o rest, Blank) = Append(p, Blank) \o Append(q, Blank)
    <2>1. Append(p \o rest, Blank) = (p \o rest) \o <<Blank>>
      BY <1>1, <1>2, TextLaws
    <2>2. (p \o rest) \o <<Blank>> = p \o (rest \o <<Blank>>)
      BY <1>1, <1>2, TextRegroups, ZenonT(60)
    <2>3. rest \o <<Blank>> = <<Blank>> \o (q \o <<Blank>>)
      <3>1. \A b \in Text : (b \o q) \o b = b \o (q \o b)
        BY <1>1, TextRegroups, ZenonT(60)
      <3> QED
        BY <1>1, <3>1, Zenon
    <2>4. q \o <<Blank>> = Append(q, Blank) /\ Append(q, Blank) \in Text
      BY <1>1, TextLaws
    <2>5. p \o (<<Blank>> \o Append(q, Blank)) = (p \o <<Blank>>) \o Append(q, Blank)
      BY <1>1, <2>4, TextRegroups
    <2>6. p \o <<Blank>> = Append(p, Blank)
      BY <1>1, TextLaws
    <2> QED
      BY <2>1, <2>2, <2>3, <2>4, <2>5, <2>6, Zenon
  <1>. HIDE DEF rest
  <1>4. ASSUME NEW us \in Seq(Text)
        PROVE  ReadOn(Between(us), Append(p \o rest, Blank)) = Between(us \o (ws \o vs))
    <2>1. /\ Between(us) \in ReadState /\ us \o ws \in Seq(Text)
          /\ Append(p, Blank) \in Seq(Letter) /\ Append(q, Blank) \in Seq(Letter)
      <3>1. Append(p, Blank) \in Text /\ Append(q, Blank) \in Text
        BY <1>1, TextLaws
      <3>2. us \o ws \in Seq(Text)
        BY <1>1, ListLaws
      <3> QED
        BY <3>1, <3>2, QuotedTyped, Zenon DEF Text
    <2>2. ReadOn(Between(us), Append(p \o rest, Blank))
                = ReadOn(ReadOn(Between(us), Append(p, Blank)), Append(q, Blank))
      <3>1. ReadOn(Between(us), Append(p, Blank) \o Append(q, Blank))
                = ReadOn(ReadOn(Between(us), Append(p, Blank)), Append(q, Blank))
        BY <2>1, ReadOnConcat
      <3> QED
        BY <1>3, <3>1, Zenon
    <2>3. ReadOn(Between(us), Append(p, Blank)) = Between(us \o ws)
      BY Zenon DEF ReadsAs
    <2>4. ReadOn(Between(us \o ws), Append(q, Blank)) = Between((us \o ws) \o vs)
      BY <2>1, Zenon DEF ReadsAs
    <2>5. (us \o ws) \o vs = us \o (ws \o vs)
      BY <1>1, ListLaws
    <2> QED
      BY <2>2, <2>3, <2>4, <2>5, Zenon
  <1> QED
    BY <1>2, <1>4, Zenon DEF ReadsAs, rest

\* Fixed wording is one word, read as itself.
LEMMA FixedReads ==
    ASSUME NEW c \in Letter, c \notin Marks
    PROVE  ReadsAs(<<c>>, <<<<c>>>>)
  <1>1. <<c>> \in Text /\ <<c>> # <<>> /\ \A i \in 1..Len(<<c>>) : <<c>>[i] \notin Marks
    <2>1. <<c>> \in Text
      BY TextLaws
    <2>2. <<c>> # <<>> /\ Len(<<c>>) = 1 /\ <<c>>[1] = c
      OBVIOUS
    <2>. HIDE DEF Marks
    <2>3. \A i \in 1..1 : <<c>>[i] \notin Marks
      BY <2>2
    <2> QED
      BY <2>1, <2>2, <2>3, Zenon
  <1>. DEFINE w == <<c>>
  <1>. HIDE DEF w
  <1>2. w \in Text /\ w # <<>> /\ \A i \in 1..Len(w) : w[i] \notin Marks
    BY <1>1, Zenon DEF w
  <1>3. \A vs \in Seq(Text) : ReadOn(Between(vs), w) = Within(vs, w, FALSE, FALSE)
    BY <1>2, PlainRead
  <1>4. ReadsAs(w, <<w>>)
    BY <1>2, <1>3, WordEnds
  <1> QED
    BY <1>4 DEF w

LEMMA NotEmpty ==
    ASSUME NEW p, NEW ws, ReadsAs(p, ws), ws # <<>>
    PROVE  p # <<>>
  <1>. SUFFICES ASSUME p = <<>>
                PROVE  FALSE
    OBVIOUS
  <1>1. <<>> \in Seq(Text) /\ ws \in Seq(Text)
    BY ListLaws DEF ReadsAs
  <1>2. Append(p, Blank) = <<Blank>>
    OBVIOUS
  <1>3. ReadOn(Between(<<>>), <<Blank>>) = Between(<<>> \o ws)
    BY <1>1, <1>2, Zenon DEF ReadsAs
  <1>4. <<>> \o ws = ws
    BY <1>1, ListLaws
  <1>5. ReadOn(Between(<<>>), <<Blank>>) = Between(<<>>)
    <2>1. Between(<<>>) \in ReadState
      BY <1>1, QuotedTyped
    <2>2. ReadChar(Between(<<>>), Blank) = Between(<<>>)
      BY ReadBetween
    <2> QED
      BY <2>1, <2>2, ReadOnOne, MarksTyped
  <1>6. Between(<<>>).words = <<>> /\ Between(ws).words = ws
    BY DEF Between
  <1> QED
    BY <1>3, <1>4, <1>5, <1>6, Zenon

LEMMA ReadIs ==
    ASSUME NEW p, NEW ws, ReadsAs(p, ws)
    PROVE  ShellRead(p) = ws
  <1>1. <<>> \in Seq(Text) /\ ws \in Seq(Text)
    BY ListLaws DEF ReadsAs
  <1>2. ReadOn(Between(<<>>), Append(p, Blank)) = Between(<<>> \o ws)
    BY <1>1, Zenon DEF ReadsAs
  <1>3. <<>> \o ws = ws
    BY <1>1, ListLaws
  <1>4. Between(ws).words = ws
    BY DEF Between
  <1> QED
    BY <1>2, <1>3, <1>4, Zenon DEF ShellRead

-----------------------------------------------------------------------------
\* Parts of a line

LEMMA JoinedIs ==
    /\ \A x \in Text : Joined(<<x>>) = x
    /\ \A parts \in Seq(Text), x \in Text :
            parts # <<>> => Joined(parts \o <<x>>) = Joined(parts) \o (<<Blank>> \o x)
  <1>. DEFINE Part(i, s) == IF i = 1 THEN s ELSE <<Blank>> \o s
              pieces(parts) == [i \in DOMAIN parts |-> Part(i, parts[i])]
  <1>1. \A i, s : s \in Text => Part(i, s) \in Text
    BY MarksTyped, TextLaws
  <1>2. \A parts : Joined(parts) = FlattenSeq(pieces(parts))
    BY DEF Joined
  <1>3. ASSUME NEW parts \in Seq(Text), NEW x \in Text
        PROVE  /\ pieces(parts) \in Seq(Text)
               /\ pieces(Append(parts, x)) = Append(pieces(parts), Part(Len(parts) + 1, x))
    <2>. DEFINE n == Len(parts)
                more == Append(parts, x)
    <2>1. n \in Nat /\ DOMAIN parts = 1..n /\ \A i \in 1..n : parts[i] \in Text
      BY LenProperties, ElementOfSeq
    <2>2. /\ DOMAIN more = 1..n + 1 /\ more[n + 1] = x
          /\ \A i \in 1..n : more[i] = parts[i]
      <3>1. more \in Seq(Text) /\ Len(more) = n + 1
        BY AppendProperties
      <3>2. DOMAIN more = 1..n + 1
        BY <3>1, LenProperties
      <3> QED
        BY <3>2, AppendProperties
    <2>. HIDE DEF n, more, Part
    <2>3. pieces(parts) \in [1..n -> Text] /\ pieces(more) \in [1..n + 1 -> Text]
      BY <1>1, <2>1, <2>2
    <2>4. /\ pieces(more)[n + 1] = Part(n + 1, x)
          /\ \A i \in 1..n : pieces(more)[i] = pieces(parts)[i]
      BY <2>1, <2>2
    <2>. HIDE DEF pieces
    <2>5. pieces(parts) \in Seq(Text)
      BY <2>1, <2>3, IsSequence
    <2>6. pieces(more) = Append(pieces(parts), Part(n + 1, x))
      BY <2>1, <2>3, <2>4, OneLonger
    <2> QED
      BY <2>5, <2>6 DEF n, more
  <1>4. ASSUME NEW parts \in Seq(Text), NEW x \in Text
        PROVE  Joined(parts \o <<x>>) = Joined(parts) \o Part(Len(parts) + 1, x)
    <2>. HIDE DEF Part, pieces
    <2>1. FlattenSeq(Append(pieces(parts), Part(Len(parts) + 1, x)))
                = FlattenSeq(pieces(parts)) \o Part(Len(parts) + 1, x)
      BY <1>1, <1>3, FlattenAppend
    <2>2. parts \o <<x>> = Append(parts, x)
      BY ListLaws
    <2>3. pieces(Append(parts, x)) = Append(pieces(parts), Part(Len(parts) + 1, x))
      BY <1>3
    <2> QED
      BY <1>2, <2>1, <2>2, <2>3, Zenon
  <1>5. ASSUME NEW x \in Text
        PROVE  Joined(<<x>>) = x
    <2>1. <<>> \in Seq(Text) /\ <<>> \o <<x>> = <<x>>
      BY ListLaws
    <2>2. Len(<<>>) + 1 = 1 /\ pieces(<<>>) = <<>>
      OBVIOUS
    <2>3. Part(1, x) = x
      OBVIOUS
    <2>. HIDE DEF Part, pieces
    <2>4. Joined(<<>>) = <<>>
      BY <1>2, <2>2, FlattenEmpty, Zenon
    <2>5. Joined(<<>> \o <<x>>) = Joined(<<>>) \o Part(Len(<<>>) + 1, x)
      BY <1>4, <2>1, Zenon
    <2>6. <<>> \o x = x
      BY TextLaws
    <2> QED
      BY <2>1, <2>2, <2>3, <2>4, <2>5, <2>6, Zenon
  <1>6. ASSUME NEW parts \in Seq(Text), NEW x \in Text, parts # <<>>
        PROVE  Joined(parts \o <<x>>) = Joined(parts) \o (<<Blank>> \o x)
    <2>1. Len(parts) + 1 # 1
      BY <1>6, EmptySeq
    <2>2. Part(Len(parts) + 1, x) = <<Blank>> \o x
      BY <2>1, Zenon
    <2>. HIDE DEF Part
    <2> QED
      BY <1>4, <2>2
  <1> QED
    BY <1>5, <1>6

\* Parts that read as words when they are joined, and one that may be left out.
JoinedAs(parts, ws) == parts \in Seq(Text) /\ parts # <<>> /\ ReadsAs(Joined(parts), ws)

Optional(part, ws) ==
    \/ part = <<>> /\ ws = <<>>
    \/ \E p : part = <<p>> /\ ReadsAs(p, ws)

LEMMA OnePart ==
    ASSUME NEW p, NEW ws, ReadsAs(p, ws)
    PROVE  JoinedAs(<<p>>, ws)
  <1>1. p \in Text /\ <<p>> \in Seq(Text) /\ <<p>> # <<>>
    BY ListLaws DEF ReadsAs
  <1>2. Joined(<<p>>) = p
    BY <1>1, JoinedIs
  <1> QED
    BY <1>1, <1>2, Zenon DEF JoinedAs

LEMMA MoreParts ==
    ASSUME NEW parts, NEW ws, JoinedAs(parts, ws), NEW part, NEW vs, Optional(part, vs)
    PROVE  JoinedAs(parts \o part, ws \o vs)
  <1>1. parts \in Seq(Text) /\ parts # <<>> /\ ws \in Seq(Text) /\ ReadsAs(Joined(parts), ws)
    BY DEF JoinedAs, ReadsAs
  <1>2. CASE part = <<>> /\ vs = <<>>
    <2>1. parts \o <<>> = parts /\ ws \o <<>> = ws
      BY <1>1, ListLaws
    <2> QED
      BY <1>2, <2>1, Zenon
  <1>3. ASSUME NEW p, part = <<p>>, ReadsAs(p, vs)
        PROVE  JoinedAs(parts \o part, ws \o vs)
    <2>1. p \in Text /\ vs \in Seq(Text) /\ <<p>> \in Seq(Text) /\ <<p>> # <<>>
      BY <1>3, ListLaws DEF ReadsAs
    <2>2. Joined(parts \o <<p>>) = Joined(parts) \o (<<Blank>> \o p)
      BY <1>1, <2>1, JoinedIs
    <2>3. ReadsAs(Joined(parts) \o (<<Blank>> \o p), ws \o vs)
      BY <1>1, <1>3, ReadsOn
    <2>4. parts \o <<p>> \in Seq(Text)
      BY <1>1, <2>1, ListLaws
    <2>5. parts \o <<p>> # <<>>
      BY <1>1, <2>1, ConcatEqualIffEmpty
    <2> QED
      BY <1>3, <2>2, <2>3, <2>4, <2>5, Zenon DEF JoinedAs
  <1> QED
    BY <1>2, <1>3, Zenon DEF Optional

LEMMA GivenWordIs ==
    ASSUME NEW w \in Text
    PROVE  Optional(GivenWord(w), Given(w))
  <1>1. ReadsAs(ShellWord(w), <<w>>)
    BY ShellWordReads
  <1> QED
    BY <1>1, Zenon DEF Optional, GivenWord, Given

LEMMA Pair == \A a, b : Append(<<a>>, b) = <<a, b>>
  <1>. SUFFICES ASSUME NEW a, NEW b
                PROVE  Append(<<a>>, b) = <<a, b>>
    OBVIOUS
  <1>. DEFINE S == {a, b}
  <1>1. a \in S /\ b \in S
    OBVIOUS
  <1>. HIDE DEF S
  <1>2. /\ <<a>> \in Seq(S) /\ Len(<<a>>) = 1 /\ <<a>>[1] = a
        /\ <<a, b>> \in Seq(S) /\ Len(<<a, b>>) = 2
        /\ <<a, b>>[1] = a /\ <<a, b>>[2] = b
    BY <1>1
  <1>. DEFINE s == Append(<<a>>, b)
  <1>3. s \in Seq(S) /\ Len(s) = 2 /\ s[1] = a /\ s[2] = b
    <2>1. /\ s \in Seq(S) /\ Len(s) = Len(<<a>>) + 1
          /\ \A i \in 1..Len(<<a>>) : s[i] = <<a>>[i]
          /\ s[Len(<<a>>) + 1] = b
      BY <1>1, <1>2, AppendProperties
    <2>. HIDE DEF s
    <2> QED
      BY <1>2, <2>1
  <1>. DEFINE t == <<a, b>>
  <1>4. t \in Seq(S) /\ Len(t) = 2 /\ t[1] = a /\ t[2] = b
    BY <1>2
  <1>. HIDE DEF s, t
  <1>5. Len(s) = Len(t) /\ \A i \in 1..Len(s) : s[i] = t[i]
    BY <1>3, <1>4
  <1>6. s = t
    BY <1>3, <1>4, <1>5, SeqEqual
  <1> QED
    BY <1>6 DEF s, t

LEMMA Single ==
    ASSUME NEW S, NEW s \in Seq(S), Len(s) = 1
    PROVE  s[1] \in S /\ s = <<s[1]>> /\ s # <<>>
  <1>1. s[1] \in S /\ <<s[1]>> \in Seq(S) /\ Len(<<s[1]>>) = 1 /\ <<s[1]>>[1] = s[1]
    OBVIOUS
  <1>2. s = <<s[1]>>
    BY <1>1, SeqEqual
  <1>3. s # <<>>
    OBVIOUS
  <1> QED
    BY <1>1, <1>2, <1>3, Zenon

LEMMA FlagIs ==
    ASSUME NEW f \in Letter, f \notin Marks, NEW w \in Text, w # <<>>
    PROVE  Optional(<<<<f, Blank>> \o ShellWord(w)>>, <<<<f>>, w>>)
  <1>1. ReadsAs(<<f>>, <<<<f>>>>) /\ ReadsAs(ShellWord(w), <<w>>)
    BY FixedReads, ShellWordReads
  <1>2. ReadsAs(<<f>> \o (<<Blank>> \o ShellWord(w)), <<<<f>>>> \o <<w>>)
    BY <1>1, ReadsOn
  <1>3. <<f>> \o (<<Blank>> \o ShellWord(w)) = <<f, Blank>> \o ShellWord(w)
    <2>1. <<f>> \in Text /\ <<Blank>> \in Text /\ ShellWord(w) \in Text
      BY <1>1, TextLaws, MarksTyped DEF ReadsAs
    <2>2. (<<f>> \o <<Blank>>) \o ShellWord(w) = <<f>> \o (<<Blank>> \o ShellWord(w))
      BY <2>1, TextRegroups
    <2>3. <<f>> \o <<Blank>> = Append(<<f>>, Blank)
      BY <2>1, TextLaws, MarksTyped
    <2>4. Append(<<f>>, Blank) = <<f, Blank>>
      BY Pair
    <2> QED
      BY <2>2, <2>3, <2>4, Zenon
  <1>4. <<<<f>>>> \o <<w>> = <<<<f>>, w>>
    <2>1. <<f>> \in Text /\ <<<<f>>>> \in Seq(Text)
      BY TextLaws, ListLaws
    <2>2. <<<<f>>>> \o <<w>> = Append(<<<<f>>>>, w)
      BY <2>1, ListLaws
    <2>3. Append(<<<<f>>>>, w) = <<<<f>>, w>>
      BY Pair
    <2> QED
      BY <2>2, <2>3, Zenon
  <1> QED
    BY <1>2, <1>3, <1>4, Zenon DEF Optional

\* A Cmd that is a list, one word, or neither.
CmdFits(cmd) ==
    /\ cmd.kind \in {"none", "list", "word"} /\ cmd.words \in Seq(Text)
    /\ cmd.kind = "word" => Len(cmd.words) = 1

LEMMA ListReads ==
    ASSUME NEW ws \in Seq(Text), ws # <<>>
    PROVE  ReadsAs(Joined([i \in DOMAIN ws |-> ShellWord(ws[i])]), ws)
  <1>. DEFINE shown(s) == [i \in DOMAIN s |-> ShellWord(s[i])]
              Good == {s \in Seq(Text) : s # <<>> => JoinedAs(shown(s), s)}
  <1>1. <<>> \in Good
    BY ListLaws
  <1>2. ASSUME NEW s \in Seq(Text), NEW w \in Text, s \in Good
        PROVE  Append(s, w) \in Good
    <2>. DEFINE n == Len(s)
                more == Append(s, w)
    <2>1. n \in Nat /\ DOMAIN s = 1..n /\ \A i \in 1..n : s[i] \in Text
      BY LenProperties, ElementOfSeq
    <2>2. /\ DOMAIN more = 1..n + 1 /\ more[n + 1] = w
          /\ \A i \in 1..n : more[i] = s[i]
      <3>1. more \in Seq(Text) /\ Len(more) = n + 1
        BY AppendProperties
      <3>2. DOMAIN more = 1..n + 1
        BY <3>1, LenProperties
      <3> QED
        BY <3>2, AppendProperties
    <2>3. \A t \in Text : ReadsAs(ShellWord(t), <<t>>) /\ ShellWord(t) \in Text
      <3>1. \A t \in Text : ReadsAs(ShellWord(t), <<t>>)
        BY ShellWordReads
      <3> QED
        BY <3>1, Zenon DEF ReadsAs
    <2>4. more = s \o <<w>> /\ more \in Seq(Text)
      BY ListLaws
    <2>. HIDE DEF n, more
    <2>5. shown(s) \in [1..n -> Text] /\ shown(more) \in [1..n + 1 -> Text]
      <3>1. \A i \in 1..n + 1 : more[i] \in Text
        BY <2>1, <2>2
      <3>2. \A i \in 1..n + 1 : ShellWord(more[i]) \in Text
        BY <2>3, <3>1
      <3>3. \A i \in 1..n : ShellWord(s[i]) \in Text
        BY <2>1, <2>3
      <3>4. DOMAIN s = 1..n /\ DOMAIN more = 1..n + 1
        BY <2>1, <2>2
      <3> QED
        BY <3>2, <3>3, <3>4
    <2>6. /\ shown(more)[n + 1] = ShellWord(w)
          /\ \A i \in 1..n : shown(more)[i] = shown(s)[i]
      BY <2>1, <2>2
    <2>7. s = <<>> => shown(s) = <<>>
      OBVIOUS
    <2>. HIDE DEF shown
    <2>8. shown(more) = Append(shown(s), ShellWord(w)) /\ shown(s) \in Seq(Text)
      BY <2>1, <2>5, <2>6, OneLonger, IsSequence
    <2>9. shown(more) = shown(s) \o <<ShellWord(w)>>
      BY <2>3, <2>8, ListLaws
    <2>10. JoinedAs(shown(more), more)
      <3>1. CASE s = <<>>
        <4>1. /\ <<>> \o <<ShellWord(w)>> = <<ShellWord(w)>> /\ <<>> \o <<w>> = <<w>>
          BY <2>3, ListLaws
        <4>2. JoinedAs(<<ShellWord(w)>>, <<w>>)
          BY <2>3, OnePart
        <4> QED
          BY <2>4, <2>7, <2>9, <3>1, <4>1, <4>2, Zenon
      <3>2. CASE s # <<>>
        <4>1. JoinedAs(shown(s), s)
          BY <1>2, <3>2
        <4>2. Optional(<<ShellWord(w)>>, <<w>>)
          BY <2>3, Zenon DEF Optional
        <4>3. JoinedAs(shown(s) \o <<ShellWord(w)>>, s \o <<w>>)
          BY <4>1, <4>2, MoreParts
        <4> QED
          BY <2>4, <2>9, <4>3, Zenon
      <3> QED
        BY <3>1, <3>2
    <2> QED
      BY <2>4, <2>10, Zenon DEF more
  <1>3. Seq(Text) \subseteq Good
    <2>. HIDE DEF Good
    <2> QED
      BY <1>1, <1>2, Appending
  <1> QED
    BY <1>3 DEF JoinedAs

LEMMA CmdReads ==
    ASSUME NEW cmd, CmdFits(cmd)
    PROVE  Optional(Given(CommandFromBody(cmd)), IF cmd.kind = "none" THEN <<>> ELSE cmd.words)
  <1>1. /\ cmd.kind \in {"none", "list", "word"} /\ cmd.words \in Seq(Text)
        /\ cmd.kind = "word" => Len(cmd.words) = 1
    BY DEF CmdFits
  <1>. DEFINE shown == CommandFromBody(cmd)
              ws == cmd.words
  <1>2. ASSUME ReadsAs(shown, ws), ws # <<>>
        PROVE  Optional(Given(shown), ws)
    <2>1. shown # <<>>
      BY <1>2, NotEmpty
    <2>. HIDE DEF shown
    <2> QED
      BY <1>2, <2>1, Zenon DEF Given, Optional
  <1>3. CASE cmd.kind = "none"
    <2>1. shown = <<>>
      BY <1>3 DEF CommandFromBody
    <2>2. Given(shown) = <<>>
      BY <2>1, Zenon DEF Given
    <2> QED
      BY <1>3, <2>2, Zenon DEF Optional
  <1>4. CASE cmd.kind = "list" /\ ws = <<>>
    <2>1. shown = Joined([i \in DOMAIN ws |-> ShellWord(ws[i])])
      BY <1>4 DEF CommandFromBody
    <2>2. [i \in DOMAIN ws |-> ShellWord(ws[i])] = <<>>
      BY <1>4
    <2>3. Joined(<<>>) = <<>>
      <3>. DEFINE pieces == [i \in DOMAIN <<>> |-> IF i = 1 THEN <<>>[i] ELSE <<Blank>> \o <<>>[i]]
      <3>1. pieces = <<>>
        OBVIOUS
      <3>2. Joined(<<>>) = FlattenSeq(pieces)
        BY Zenon DEF Joined
      <3>. HIDE DEF pieces
      <3> QED
        BY <3>1, <3>2, FlattenEmpty, Zenon
    <2>4. shown = <<>>
      BY <2>1, <2>2, <2>3, Zenon
    <2>5. cmd.kind # "none"
      BY <1>4
    <2>6. Given(shown) = <<>>
      BY <2>4, Zenon DEF Given
    <2> QED
      BY <1>4, <2>5, <2>6, Zenon DEF Optional
  <1>5. CASE cmd.kind = "list" /\ ws # <<>>
    <2>1. shown = Joined([i \in DOMAIN ws |-> ShellWord(ws[i])])
      BY <1>5 DEF CommandFromBody
    <2>2. ReadsAs(shown, ws)
      BY <1>1, <1>5, <2>1, ListReads, Zenon
    <2>3. cmd.kind # "none"
      BY <1>5
    <2> QED
      BY <1>2, <1>5, <2>2, <2>3, Zenon
  <1>6. CASE cmd.kind = "word"
    <2>1. shown = ShellWord(ws[1])
      BY <1>6 DEF CommandFromBody
    <2>2. ws[1] \in Text /\ ws = <<ws[1]>> /\ ws # <<>>
      BY <1>1, <1>6, Single
    <2>3. ReadsAs(shown, ws)
      BY <2>1, <2>2, ShellWordReads, Zenon
    <2>4. cmd.kind # "none"
      BY <1>6
    <2> QED
      BY <1>2, <2>2, <2>3, <2>4, Zenon
  <1> QED
    BY <1>1, <1>3, <1>4, <1>5, <1>6

-----------------------------------------------------------------------------
\* Lines

LEMMA WordingTyped ==
    /\ {"docker exec", "docker container create", "docker container", "docker image pull",
        "docker image rm", "docker image tag", "docker image", "docker volume",
        "docker network", "--user", "--name"} \subseteq Letter \ Marks
  BY DEF Letter, Wording, Marks, Quote, Blank, Escape

\* An option, a word and a command after fixed wording, and how they are read.
Shown(prefix, f, u, w, cmd) ==
    <<<<prefix>>>> \o (IF u = <<>> THEN <<>> ELSE <<<<f, Blank>> \o ShellWord(u)>>)
    \o GivenWord(w) \o Given(CommandFromBody(cmd))

Intended(prefix, f, u, w, cmd) ==
    <<<<prefix>>>> \o (IF u = <<>> THEN <<>> ELSE <<<<f>>, u>>)
    \o Given(w) \o (IF cmd.kind = "none" THEN <<>> ELSE cmd.words)

LEMMA CommandReads ==
    ASSUME NEW prefix \in Letter, prefix \notin Marks, NEW f \in Letter, f \notin Marks,
           NEW u \in Text, NEW w \in Text, NEW cmd, CmdFits(cmd)
    PROVE  ShellRead(Joined(Shown(prefix, f, u, w, cmd))) = Intended(prefix, f, u, w, cmd)
  <1>. DEFINE flag == IF u = <<>> THEN <<>> ELSE <<<<f, Blank>> \o ShellWord(u)>>
              opt == IF u = <<>> THEN <<>> ELSE <<<<f>>, u>>
              run == IF cmd.kind = "none" THEN <<>> ELSE cmd.words
  <1>1. JoinedAs(<<<<prefix>>>>, <<<<prefix>>>>)
    BY FixedReads, OnePart
  <1>2. Optional(flag, opt)
    <2>1. CASE u = <<>>
      BY <2>1, Zenon DEF Optional
    <2>2. CASE u # <<>>
      <3>1. Optional(<<<<f, Blank>> \o ShellWord(u)>>, <<<<f>>, u>>)
        BY <2>2, FlagIs
      <3> QED
        BY <2>2, <3>1, Zenon
    <2> QED
      BY <2>1, <2>2
  <1>3. Optional(GivenWord(w), Given(w))
    BY GivenWordIs
  <1>4. Optional(Given(CommandFromBody(cmd)), run)
    BY CmdReads
  <1>. HIDE DEF flag, opt, run
  <1>5. JoinedAs(<<<<prefix>>>> \o flag, <<<<prefix>>>> \o opt)
    BY <1>1, <1>2, MoreParts
  <1>6. JoinedAs(<<<<prefix>>>> \o flag \o GivenWord(w), <<<<prefix>>>> \o opt \o Given(w))
    BY <1>3, <1>5, MoreParts
  <1>7. JoinedAs(<<<<prefix>>>> \o flag \o GivenWord(w) \o Given(CommandFromBody(cmd)),
                 <<<<prefix>>>> \o opt \o Given(w) \o run)
    BY <1>4, <1>6, MoreParts
  <1>8. ShellRead(Joined(<<<<prefix>>>> \o flag \o GivenWord(w) \o Given(CommandFromBody(cmd))))
            = <<<<prefix>>>> \o opt \o Given(w) \o run
    BY <1>7, ReadIs, Zenon DEF JoinedAs
  <1> QED
    BY <1>8 DEF Shown, Intended, flag, opt, run

\* Fixed wording, an action that may be left out, and an ID.
LEMMA ObjectReads ==
    ASSUME NEW prefix \in Letter, prefix \notin Marks,
           NEW action, action = <<>> \/ \E a \in Letter \ Marks : action = <<a>>,
           NEW id \in Text, id # <<>>
    PROVE  Last(ShellRead(DescribeObjectCommand(<<prefix>>, action, id))) = id
  <1>1. JoinedAs(<<<<prefix>>>>, <<<<prefix>>>>)
    BY FixedReads, OnePart
  <1>2. Optional(Given(action), Given(action))
    <2>1. CASE action = <<>>
      BY <2>1, Zenon DEF Optional, Given
    <2>2. ASSUME NEW a \in Letter, a \notin Marks, action = <<a>>
          PROVE  Optional(Given(action), Given(action))
      <3>1. ReadsAs(action, <<action>>)
        BY <2>2, FixedReads
      <3>2. action # <<>>
        BY <2>2
      <3> QED
        BY <3>1, <3>2, Zenon DEF Optional, Given
    <2> QED
      BY <2>1, <2>2
  <1>3. Optional(GivenWord(id), Given(id))
    BY GivenWordIs
  <1>4. JoinedAs(<<<<prefix>>>> \o Given(action), <<<<prefix>>>> \o Given(action))
    BY <1>1, <1>2, MoreParts
  <1>. DEFINE before == <<<<prefix>>>> \o Given(action)
  <1>5. JoinedAs(before \o GivenWord(id), before \o Given(id))
    BY <1>3, <1>4, MoreParts
  <1>6. ShellRead(DescribeObjectCommand(<<prefix>>, action, id)) = before \o <<id>>
    <2>1. Given(id) = <<id>>
      BY Zenon DEF Given
    <2>2. ShellRead(Joined(before \o GivenWord(id))) = before \o Given(id)
      BY <1>5, ReadIs, Zenon DEF JoinedAs
    <2> QED
      BY <2>1, <2>2, Zenon DEF DescribeObjectCommand
  <1>7. before \in Seq(Text)
    BY <1>4, Zenon DEF JoinedAs, ReadsAs
  <1>. HIDE DEF before
  <1>8. before \o <<id>> = Append(before, id)
    BY <1>7, ListLaws
  <1>9. Last(Append(before, id)) = id
    <2>1. /\ Len(Append(before, id)) = Len(before) + 1
          /\ Append(before, id)[Len(before) + 1] = id
      BY <1>7, AppendProperties
    <2> QED
      BY <2>1, Zenon DEF Last
  <1> QED
    BY <1>6, <1>8, <1>9, Zenon

\* describeCommand of an exec or create: the words are what will be run or made.
LEMMA CommandLineReads ==
    ASSUME NEW q, q.target = "container", q.action \in {"exec", "create"},
           q.id \in Text, q.user \in Text, q.name \in Text, q.image \in Text, CmdFits(q.cmd)
    PROVE  ShellRead(DescribeCommand(q)) = Words(q)
  <1>1. DescribeCommand(q) = DescribeContainerCommand(q)
    BY DEF DescribeCommand
  <1>. DEFINE Fixed == Letter \ Marks
  <1>2. "docker exec" \in Fixed /\ "docker container create" \in Fixed
        /\ "--user" \in Fixed /\ "--name" \in Fixed
    BY WordingTyped
  <1>3. \A prefix, f \in Fixed, u, w \in Text :
            ShellRead(Joined(Shown(prefix, f, u, w, q.cmd))) = Intended(prefix, f, u, w, q.cmd)
    BY CommandReads
  <1>. HIDE DEF Fixed
  <1>4. CASE q.action = "exec"
    <2>1. ShellRead(Joined(Shown("docker exec", "--user", q.user, q.id, q.cmd)))
                = Intended("docker exec", "--user", q.user, q.id, q.cmd)
      BY <1>2, <1>3, Zenon
    <2>2. DescribeContainerCommand(q)
                = Joined(Shown("docker exec", "--user", q.user, q.id, q.cmd))
      BY <1>4 DEF DescribeContainerCommand, Shown
    <2>3. Words(q) = Intended("docker exec", "--user", q.user, q.id, q.cmd)
      BY <1>4 DEF Words, Intended
    <2> QED
      BY <1>1, <2>1, <2>2, <2>3, Zenon
  <1>5. CASE q.action = "create"
    <2>1. ShellRead(Joined(Shown("docker container create", "--name", q.name, q.image, q.cmd)))
                = Intended("docker container create", "--name", q.name, q.image, q.cmd)
      BY <1>2, <1>3, Zenon
    <2>2. DescribeContainerCommand(q)
                = Joined(Shown("docker container create", "--name", q.name, q.image, q.cmd))
      BY <1>5 DEF DescribeContainerCommand, Shown
    <2>3. Words(q) = Intended("docker container create", "--name", q.name, q.image, q.cmd)
      BY <1>5 DEF Words, Intended
    <2> QED
      BY <1>1, <2>1, <2>2, <2>3, Zenon
  <1> QED
    BY <1>4, <1>5

\* describeCommand of what has only an ID: it is the last word.
LEMMA ObjectLineReads ==
    ASSUME NEW q, q.target \in {"container", "image", "volume", "network"},
           q.action \in Letter, q.action \notin Marks,
           q.action \notin {"exec", "create", "archive.read", "archive.write"},
           q.id \in Text, q.id # <<>>
    PROVE  Last(ShellRead(DescribeCommand(q))) = q.id
  <1>. DEFINE Fixed == {"docker container", "docker image pull", "docker image rm",
                        "docker image tag", "docker image", "docker volume", "docker network"}
              Parts == {<<>>, <<q.action>>}
  <1>1. ASSUME NEW prefix \in Fixed, NEW action \in Parts
        PROVE  Last(ShellRead(DescribeObjectCommand(<<prefix>>, action, q.id))) = q.id
    <2>1. prefix \in Letter /\ prefix \notin Marks
      BY WordingTyped
    <2>2. action = <<>> \/ \E a \in Letter \ Marks : action = <<a>>
      BY Zenon
    <2>. HIDE DEF Fixed, Parts
    <2> QED
      BY <2>1, <2>2, ObjectReads
  <1>2. \E prefix \in Fixed, action \in Parts :
            DescribeCommand(q) = DescribeObjectCommand(<<prefix>>, action, q.id)
    <2>1. <<>> \in Parts /\ <<q.action>> \in Parts
      BY Zenon
    <2>. HIDE DEF Parts
    <2>2. CASE q.target = "container"
      <3>1. DescribeCommand(q) = DescribeObjectCommand(<<"docker container">>, <<q.action>>, q.id)
        BY <2>2 DEF DescribeCommand, DescribeContainerCommand
      <3> QED
        BY <2>1, <3>1
    <2>3. CASE q.target = "image"
      <3>1. DescribeCommand(q) = DescribeImageCommand(q)
        BY <2>3 DEF DescribeCommand
      <3>2. \/ DescribeImageCommand(q)
                    = DescribeObjectCommand(<<"docker image pull">>, <<>>, q.id)
            \/ DescribeImageCommand(q)
                    = DescribeObjectCommand(<<"docker image rm">>, <<>>, q.id)
            \/ DescribeImageCommand(q)
                    = DescribeObjectCommand(<<"docker image tag">>, <<>>, q.id)
            \/ DescribeImageCommand(q)
                    = DescribeObjectCommand(<<"docker image">>, <<q.action>>, q.id)
        BY DEF DescribeImageCommand
      <3> QED
        BY <2>1, <3>1, <3>2
    <2>4. CASE q.target = "volume"
      <3>1. DescribeCommand(q) = DescribeObjectCommand(<<"docker volume">>, <<q.action>>, q.id)
        BY <2>4 DEF DescribeCommand
      <3> QED
        BY <2>1, <3>1
    <2>5. CASE q.target = "network"
      <3>1. DescribeCommand(q) = DescribeObjectCommand(<<"docker network">>, <<q.action>>, q.id)
        BY <2>5 DEF DescribeCommand
      <3> QED
        BY <2>1, <3>1
    <2> QED
      BY <2>2, <2>3, <2>4, <2>5
  <1>. HIDE DEF Fixed, Parts
  <1> QED
    BY <1>1, <1>2
=============================================================================
