------------------------------ MODULE InputProofs ------------------------------
(***************************************************************************)
(* What is proved of the two readers of what a user types, for any words,  *)
(* options, characters, widths and limits.                                 *)
(*                                                                         *)
(* The input line implements LineEditor.  The bytes of a text are related  *)
(* to its characters by where each of these ends: Encodes(s, cs, at) says  *)
(* that s is the characters cs one after the other, the n-th up to at[n].  *)
(* What the editor computes from the bytes, the count, an index, a splice, *)
(* is shown to be what it is of the characters; then each key is a step of *)
(* LineEditor.  That the text stays within its limit follows from these.   *)
(*                                                                         *)
(* The order of the options is irrelevant.  The scan goes word by word,    *)
(* and is shown to go option by option: what it has found is a set, which  *)
(* the order does not change.                                              *)
(*                                                                         *)
(* Induction is by the least position where something fails.               *)
(***************************************************************************)

EXTENDS CommandLine, InputEditor, FiniteSetTheorems, SequenceTheorems, TLAPS

-----------------------------------------------------------------------------
(* The least position of a set, which is how the lemmas here go by         *)
(* induction: what holds of no least position holds of none.               *)

LEMMA LeastNatural ==
    ASSUME NEW I \in SUBSET Nat, I # {}
    PROVE  \E m \in I : \A j \in I : m <= j
<1> DEFINE R == OpToRel(<, Nat)
<1>1. IsWellFoundedOn(R, Nat)
  BY NatLessThanWellFounded
<1>2. \A j, m \in Nat : j < m => <<j, m>> \in R
  BY SMT DEF OpToRel
<1> HIDE DEF R
<1>3. PICK m \in I : \A j \in I : ~(<<j, m>> \in R)
  BY <1>1, WFMin
<1>4. ASSUME NEW j \in I PROVE m <= j
  <2>1. ~(j < m)
    BY <1>2, <1>3
  <2>2. j \in Nat /\ m \in Nat
    OBVIOUS
  <2>3. QED
    BY <2>1, <2>2
<1>5. QED
  BY <1>4

-----------------------------------------------------------------------------
(* A fold over a sequence is a function on sets of positions, the last     *)
(* position first.                                                         *)

IsFold(h, F, base, seq, n) ==
    h = [I \in SUBSET (1 .. n) |->
            IF I = {} THEN base ELSE F[<<h[I \ {Max(I)}], seq[Max(I)]>>]]

HasFold(S, F, base, seq, n) ==
    \E h \in [SUBSET (1 .. n) -> S] : IsFold(h, F, base, seq, n)

LEMMA MaxOfInterval ==
    ASSUME NEW n \in Nat, NEW I \in SUBSET (1 .. n + 1), n + 1 \in I
    PROVE  Max(I) = n + 1
<1>1. \A i \in I : i \in Nat /\ i <= n + 1
  OBVIOUS
<1>2. \E x \in I : \A y \in I : x >= y
  <2>1. \A y \in I : n + 1 >= y
    BY <1>1
  <2>2. QED
    BY <2>1
<1>3. Max(I) \in I /\ \A y \in I : Max(I) >= y
  BY <1>2 DEF Max
<1>4. n + 1 <= Max(I) /\ Max(I) <= n + 1 /\ Max(I) \in Nat
  BY <1>1, <1>3
<1>5. QED
  BY <1>4

\* The last of the first m positions, and those before it.
LEMMA LastPosition ==
    ASSUME NEW m \in Nat, m # 0
    PROVE  Max(1 .. m) = m /\ (1 .. m) \ {m} = 1 .. m - 1 /\ 1 .. m # {}
<1>1. m - 1 \in Nat /\ (m - 1) + 1 = m /\ m \in 1 .. m
  OBVIOUS
<1>2. Max(1 .. m) = m
  BY <1>1, MaxOfInterval
<1>3. QED
  BY <1>1, <1>2

\* Induction: what fails somewhere up to n, and not at 0, fails for the first
\* time somewhere.
LEMMA FirstFailure ==
    ASSUME NEW n \in Nat, NEW B \in SUBSET (0 .. n), 0 \notin B, B # {}
    PROVE  \E m \in 1 .. n : m \in B /\ m - 1 \notin B /\ m - 1 \in 0 .. n
<1>1. B \in SUBSET Nat
  OBVIOUS
<1>2. PICK m \in B : \A j \in B : m <= j
  BY <1>1, LeastNatural
<1>3. m \in 1 .. n
  BY <1>2
<1>4. m - 1 \notin B
  BY <1>2, <1>3
<1>5. QED
  BY <1>2, <1>3, <1>4

\* A position of the first n.
LEMMA MaxInInterval ==
    ASSUME NEW n \in Nat, NEW I \in SUBSET (1 .. n), I # {}
    PROVE  Max(I) \in I
<1> DEFINE Above == {m \in 0 .. n : \A i \in I : i <= m}
<1>1. n \in Above /\ Above \in SUBSET Nat
  OBVIOUS
<1> HIDE DEF Above
<1>2a. PICK m \in Above : \A j \in Above : m <= j
  BY <1>1, LeastNatural
<1> USE DEF Above
<1>2. m \in 0 .. n /\ (\A i \in I : i <= m) /\ \A j \in Above : m <= j
  BY <1>2a
<1>3. m \in I
  <2>1. ASSUME m \notin I PROVE FALSE
    <3>1. \A i \in I : i \in 1 .. n /\ i < m
      BY <1>2, <2>1
    <3>0. PICK i \in I : TRUE
      OBVIOUS
    <3>2. m - 1 \in Above
      <4>1. i \in 1 .. n /\ i < m
        BY <3>0, <3>1
      <4>2. m - 1 \in 0 .. n
        BY <1>2, <4>1
      <4>3. \A j \in I : j <= m - 1
        BY <1>2, <3>1
      <4>4. QED
        BY <4>2, <4>3
    <3>3. QED
      BY <1>2, <3>2
  <2>2. QED
    BY <2>1
<1>4. \E x \in I : \A y \in I : x >= y
  <2>1. \A y \in I : m >= y
    BY <1>2
  <2>2. QED
    BY <1>3, <2>1
<1>5. QED
  BY <1>4 DEF Max

\* There is one, and what it returns is what the step returns.
LEMMA FoldExists ==
    ASSUME NEW S, NEW E, NEW F \in [S \X E -> S], NEW base \in S,
           NEW n \in Nat, NEW seq \in [1 .. n -> E]
    PROVE  HasFold(S, F, base, seq, n)
<1> DEFINE Lacking == {m \in 0 .. n : ~HasFold(S, F, base, seq, m)}
<1>1. ASSUME NEW m \in 0 .. n, m # n, NEW h \in [SUBSET (1 .. m) -> S],
             IsFold(h, F, base, seq, m)
      PROVE  HasFold(S, F, base, seq, m + 1)
  <2> DEFINE g == [I \in SUBSET (1 .. m + 1) |->
                      IF m + 1 \in I THEN F[<<h[I \ {m + 1}], seq[m + 1]>>] ELSE h[I]]
  <2>0. m \in Nat /\ m + 1 \in 1 .. n
    BY <1>1
  <2>1. ASSUME NEW I \in SUBSET (1 .. m + 1)
        PROVE  /\ g[I] \in S
               /\ g[I] = IF I = {} THEN base ELSE F[<<g[I \ {Max(I)}], seq[Max(I)]>>]
    <3>1. CASE m + 1 \in I
      <4>1. Max(I) = m + 1 /\ I # {}
        BY <2>0, <3>1, MaxOfInterval
      <4>2. I \ {m + 1} \in SUBSET (1 .. m) /\ m + 1 \notin I \ {m + 1}
        BY <2>0
      <4>3. g[I \ {m + 1}] = h[I \ {m + 1}] /\ h[I \ {m + 1}] \in S
        <5>1. I \ {m + 1} \in SUBSET (1 .. m + 1)
          OBVIOUS
        <5>2. QED
          BY <4>2, <5>1
      <4>4. seq[m + 1] \in E
        BY <2>0
      <4>5. g[I] = F[<<h[I \ {m + 1}], seq[m + 1]>>]
        BY <3>1
      <4> HIDE DEF g
      <4>6. QED
        BY <4>1, <4>3, <4>4, <4>5
    <3>2. CASE m + 1 \notin I
      <4>1. I \in SUBSET (1 .. m)
        BY <2>0, <3>2
      <4>2. \A J \in SUBSET I : g[J] = h[J]
        BY <3>2
      <4>3. h[I] = IF I = {} THEN base ELSE F[<<h[I \ {Max(I)}], seq[Max(I)]>>]
        BY <1>1, <4>1 DEF IsFold
      <4>4. g[I] = h[I] /\ g[I \ {Max(I)}] = h[I \ {Max(I)}] /\ h[I] \in S
        BY <4>1, <4>2
      <4> HIDE DEF g
      <4>5. QED
        BY <4>3, <4>4
    <3>3. QED
      BY <3>1, <3>2
  <2>2. g = [I \in SUBSET (1 .. m + 1) |-> g[I]]
    OBVIOUS
  <2> HIDE DEF g
  <2>3. IsFold(g, F, base, seq, m + 1)
    BY <2>1, <2>2 DEF IsFold
  <2>4. g \in [SUBSET (1 .. m + 1) -> S]
    BY <2>1, <2>2
  <2>5. QED
    BY <2>3, <2>4 DEF HasFold
<1>2. 0 \notin Lacking
  <2> DEFINE g == [I \in SUBSET (1 .. 0) |-> base]
  <2>1. \A I \in SUBSET (1 .. 0) : I = {}
    OBVIOUS
  <2>2. IsFold(g, F, base, seq, 0)
    BY <2>1 DEF IsFold
  <2>3. g \in [SUBSET (1 .. 0) -> S]
    OBVIOUS
  <2> HIDE DEF g
  <2>4. QED
    BY <2>2, <2>3 DEF HasFold
<1>3. ASSUME Lacking # {} PROVE FALSE
  <2>1. PICK m \in 1 .. n : m \in Lacking /\ m - 1 \notin Lacking /\ m - 1 \in 0 .. n
    <3>1. Lacking \in SUBSET (0 .. n)
      OBVIOUS
    <3> HIDE DEF Lacking
    <3>2. QED
      BY <1>2, <1>3, <3>1, FirstFailure
  <2>2. PICK k \in 0 .. n : k = m - 1
    BY <2>1
  <2>3. m = k + 1 /\ k # n /\ k \notin Lacking
    BY <2>1, <2>2
  <2>4. PICK h \in [SUBSET (1 .. k) -> S] : IsFold(h, F, base, seq, k)
    BY <2>3 DEF HasFold
  <2>5. HasFold(S, F, base, seq, k + 1)
    BY <1>1, <2>3, <2>4
  <2>6. m \notin Lacking
    BY <2>3, <2>5
  <2>7. QED
    BY <2>1, <2>6
<1>4. n \in 0 .. n /\ n \notin Lacking
  BY <1>3
<1>5. QED
  BY <1>4

-----------------------------------------------------------------------------
(* Where the characters of a sequence end, when each takes its width.      *)

Sums(cs, at) ==
    /\ at \in [0 .. Len(cs) -> Nat]
    /\ at[0] = 0
    /\ \A n \in 1 .. Len(cs) : at[n] = at[n - 1] + Width[cs[n]]

LEMMA SizeFolds ==
    ASSUME NEW cs \in Seq(Chars)
    PROVE  \E at : Sums(cs, at) /\ LINE!Size(cs) = at[Len(cs)]
<1> DEFINE N == Len(cs)
           F == [e \in Nat \X Chars |-> e[1] + Width[e[2]]]
           Step(h) == [I \in SUBSET DOMAIN cs |->
                          IF I = {} THEN 0 ELSE h[I \ {Max(I)}] + Width[cs[Max(I)]]]
           g == CHOOSE h : h = Step(h)
<1>1. N \in Nat /\ DOMAIN cs = 1 .. N /\ \A i \in 1 .. N : cs[i] \in Chars
  OBVIOUS
<1>2. F \in [Nat \X Chars -> Nat]
  <2>1. ASSUME NEW e \in Nat \X Chars PROVE F[e] \in Nat
    <3>1. e[1] \in Nat /\ e[2] \in Chars
      OBVIOUS
    <3>2. Width[e[2]] \in 1 .. 4
      BY <3>1, EditorAssumption
    <3>3. e[1] + Width[e[2]] \in Nat
      BY <3>1, <3>2
    <3>4. QED
      BY <3>3
  <2>2. QED
    BY <2>1
<1> HIDE DEF F, N
<1>3. PICK h \in [SUBSET (1 .. N) -> Nat] : IsFold(h, F, 0, cs, N)
  <2>1. 0 \in Nat /\ cs \in [1 .. N -> Chars]
    BY <1>1
  <2>2. HasFold(Nat, F, 0, cs, N)
    BY <1>1, <1>2, <2>1, FoldExists
  <2>3. QED
    BY <2>2 DEF HasFold
<1>4. h = Step(h)
  <2>1. ASSUME NEW I \in SUBSET DOMAIN cs, I # {}
        PROVE  h[I] = h[I \ {Max(I)}] + Width[cs[Max(I)]]
    <3>1. Max(I) \in 1 .. N /\ I \ {Max(I)} \in SUBSET (1 .. N)
      BY <1>1, <2>1, MaxInInterval
    <3>2. h[I] = F[<<h[I \ {Max(I)}], cs[Max(I)]>>]
      BY <1>1, <1>3, <2>1 DEF IsFold
    <3>3. QED
      BY <1>1, <1>3, <3>1, <3>2 DEF F
  <2>2. h[{}] = 0 /\ h = [I \in SUBSET DOMAIN cs |-> h[I]]
    BY <1>1, <1>3 DEF IsFold
  <2>3. QED
    BY <2>1, <2>2
<1>5. g = Step(g)
  BY <1>4
<1>6. LINE!Size(cs) = g[DOMAIN cs]
  BY DEF LINE!Size, LINE!FoldLeft, LINE!MapThenFoldSet, LINE!Max, Max
<1> HIDE DEF g
<1>7. g[{}] = 0
  BY <1>5
<1>8. ASSUME NEW m \in 1 .. N
      PROVE  g[1 .. m] = g[1 .. m - 1] + Width[cs[m]]
  <2>1. Max(1 .. m) = m /\ (1 .. m) \ {m} = 1 .. m - 1 /\ 1 .. m # {}
    BY LastPosition
  <2>2. 1 .. m \in SUBSET DOMAIN cs
    BY <1>1
  <2>3. QED
    BY <1>5, <2>1, <2>2
<1> DEFINE at == [m \in 0 .. N |-> g[1 .. m]]
<1>9. at[0] = 0
  <2>1. 1 .. 0 = {}
    OBVIOUS
  <2>2. QED
    BY <1>1, <1>7, <2>1
<1>10. \A m \in 1 .. N : at[m] = at[m - 1] + Width[cs[m]]
  BY <1>1, <1>8
<1>11. at[N] = g[DOMAIN cs]
  BY <1>1
<1> HIDE DEF at, N
<1>12. \A m \in 0 .. N : at[m] \in Nat
  <2> DEFINE Bad == {m \in 0 .. N : at[m] \notin Nat}
  <2>1. ASSUME Bad # {} PROVE FALSE
    <3>1. PICK m \in 1 .. N : m \in Bad /\ m - 1 \notin Bad /\ m - 1 \in 0 .. N
      <4>1. 0 \notin Bad /\ Bad \in SUBSET (0 .. N)
        BY <1>9
      <4> HIDE DEF Bad
      <4>2. QED
        BY <1>1, <2>1, <4>1, FirstFailure
    <3>3. at[m - 1] \in Nat
      BY <3>1
    <3>4. Width[cs[m]] \in Nat
      BY <1>1, <3>1, EditorAssumption
    <3>5. QED
      BY <1>10, <3>1, <3>3, <3>4
  <2>2. QED
    BY <2>1
<1>13. at \in [0 .. N -> Nat]
  BY <1>12 DEF at
<1>14. QED
  BY <1>6, <1>9, <1>10, <1>11, <1>13 DEF Sums, N

-----------------------------------------------------------------------------
(* A text and its characters: where each character ends.                   *)

LEMMA PlaceInside ==
    ASSUME NEW p, p \in Nat, NEW w, w \in 1 .. 4, NEW q, q = p + w, NEW e, e \in Nat, q <= e,
           NEW k \in 1 .. 4, k <= w
    PROVE  p + k \in 1 .. e
OBVIOUS

LEMMA WidthsPositive ==
    ASSUME NEW cs \in Seq(Chars)
    PROVE  /\ Len(cs) \in Nat
           /\ \A n \in 1 .. Len(cs) : cs[n] \in Chars /\ Width[cs[n]] \in 1 .. 4
<1>1. Len(cs) \in Nat /\ \A n \in 1 .. Len(cs) : cs[n] \in Chars
  OBVIOUS
<1>2. QED
  BY <1>1, EditorAssumption

\* They are what Size returns.
LEMMA SizeOfSums ==
    ASSUME NEW cs \in Seq(Chars), NEW at, Sums(cs, at)
    PROVE  LINE!Size(cs) = at[Len(cs)]
<1>1. PICK up : Sums(cs, up) /\ LINE!Size(cs) = up[Len(cs)]
  BY SizeFolds
<1> DEFINE Bad == {n \in 0 .. Len(cs) : at[n] # up[n]}
<1>2. Len(cs) \in Nat /\ \A n \in 1 .. Len(cs) : Width[cs[n]] \in 1 .. 4
  BY WidthsPositive
<1>3. ASSUME Bad # {} PROVE FALSE
  <2>1. PICK n \in 1 .. Len(cs) : n \in Bad /\ n - 1 \notin Bad /\ n - 1 \in 0 .. Len(cs)
    <3>1. 0 \notin Bad /\ Bad \in SUBSET (0 .. Len(cs))
      BY <1>1 DEF Sums
    <3> HIDE DEF Bad
    <3>2. QED
      BY <1>2, <1>3, <3>1, FirstFailure
  <2>2. at[n - 1] = up[n - 1] /\ at[n] # up[n]
    BY <2>1
  <2>3. QED
    BY <1>1, <2>2 DEF Sums
<1>4. Len(cs) \in 0 .. Len(cs)
  BY <1>2
<1>5. QED
  BY <1>1, <1>3, <1>4

\* Characters behind one another end behind one another,
LEMMA SumsIncrease ==
    ASSUME NEW cs \in Seq(Chars), NEW at, Sums(cs, at),
           NEW m \in 0 .. Len(cs), NEW n \in 0 .. Len(cs), m < n
    PROVE  at[m] < at[n] /\ at[m] \in Nat /\ at[n] \in Nat
<1>1. Len(cs) \in Nat /\ \A k \in 1 .. Len(cs) : Width[cs[k]] \in 1 .. 4
  BY WidthsPositive
<1>2. /\ \A k \in 0 .. Len(cs) : at[k] \in Nat
      /\ \A k \in 1 .. Len(cs) : at[k] = at[k - 1] + Width[cs[k]]
  BY DEF Sums
<1> DEFINE Bad == {k \in 0 .. Len(cs) : m < k /\ at[k] <= at[m]}
<1>3. ASSUME Bad # {} PROVE FALSE
  <2>1. PICK k \in 1 .. Len(cs) : k \in Bad /\ k - 1 \notin Bad /\ k - 1 \in 0 .. Len(cs)
    <3>1. 0 \notin Bad /\ Bad \in SUBSET (0 .. Len(cs))
      BY <1>1
    <3> HIDE DEF Bad
    <3>2. QED
      BY <1>1, <1>3, <3>1, FirstFailure
  <2>2. at[k] = at[k - 1] + Width[cs[k]] /\ Width[cs[k]] \in 1 .. 4
    BY <1>1, <1>2
  <2>3. at[m] \in Nat /\ at[k] \in Nat /\ at[k - 1] \in Nat
    BY <1>2, <2>1
  <2>4. at[k - 1] >= at[m]
    BY <1>1, <2>1, <2>3
  <2>5. at[k] <= at[m]
    BY <2>1
  <2>6. PICK a, b, c, w : a = at[m] /\ b = at[k - 1] /\ c = at[k] /\ w = Width[cs[k]]
    OBVIOUS
  <2>7. a \in Nat /\ b \in Nat /\ c \in Nat /\ c = b + w /\ w \in 1 .. 4 /\ b >= a /\ c <= a
    BY ONLY <2>2, <2>3, <2>4, <2>5, <2>6
  <2>8. QED
    BY ONLY <2>7
<1>4. n \notin Bad
  BY <1>3
<1>5. QED
  BY <1>2, <1>4

\* and every place is in one of them.
LEMMA SumsCover ==
    ASSUME NEW cs \in Seq(Chars), NEW at, Sums(cs, at), NEW i \in 1 .. at[Len(cs)]
    PROVE  \E n \in 1 .. Len(cs), k \in 1 .. 4 :
              k <= Width[cs[n]] /\ i = at[n - 1] + k
<1>1. Len(cs) \in Nat /\ \A k \in 1 .. Len(cs) : Width[cs[k]] \in 1 .. 4
  BY WidthsPositive
<1>2. /\ \A k \in 0 .. Len(cs) : at[k] \in Nat
      /\ \A k \in 1 .. Len(cs) : at[k] = at[k - 1] + Width[cs[k]]
      /\ at[0] = 0
  BY DEF Sums
<1> DEFINE Bad == {k \in 0 .. Len(cs) : i <= at[k]}
<1>3. Len(cs) \in Bad
  BY <1>1, <1>2
<1>4. PICK n \in 1 .. Len(cs) : n \in Bad /\ n - 1 \notin Bad /\ n - 1 \in 0 .. Len(cs)
  <2>1. 0 \notin Bad /\ Bad \in SUBSET (0 .. Len(cs))
    BY <1>1, <1>2
  <2> HIDE DEF Bad
  <2>2. QED
    BY <1>1, <1>3, <2>1, FirstFailure
<1>5. at[n] = at[n - 1] + Width[cs[n]] /\ Width[cs[n]] \in 1 .. 4
  BY <1>1, <1>2
<1>6. at[n - 1] \in Nat /\ at[n - 1] < i /\ i <= at[n] /\ i \in Nat
  <2>1. at[n - 1] \in Nat /\ at[Len(cs)] \in Nat
    BY <1>1, <1>2, <1>4
  <2>2. QED
    BY <1>4, <2>1
<1>7. i - at[n - 1] \in 1 .. 4 /\ i - at[n - 1] <= Width[cs[n]]
      /\ i = at[n - 1] + (i - at[n - 1])
  <2>1. PICK a, b, w : a = at[n - 1] /\ b = at[n] /\ w = Width[cs[n]]
    OBVIOUS
  <2>2. b = a + w /\ w \in 1 .. 4 /\ a \in Nat /\ a < i /\ i <= b /\ i \in Nat
    BY ONLY <1>5, <1>6, <2>1
  <2>3. i - a \in 1 .. 4 /\ i - a <= w /\ i = a + (i - a)
    BY ONLY <2>2
  <2>4. QED
    BY ONLY <2>1, <2>3
<1>8. QED
  BY <1>7

-----------------------------------------------------------------------------
(* The bytes of a sequence of characters.                                  *)

Encodes(s, cs, at) ==
    /\ s \in Seq(Bytes) /\ cs \in Seq(Chars)
    /\ Sums(cs, at) /\ at[Len(cs)] = Len(s)
    /\ \A n \in 1 .. Len(cs), k \in 1 .. 4 :
          k <= Width[cs[n]] => s[at[n - 1] + k] = [char |-> cs[n], place |-> k]

LEMMA EncodedPlaces ==
    ASSUME NEW s, NEW cs, NEW at, Encodes(s, cs, at)
    PROVE  /\ Len(cs) \in Nat /\ Len(s) \in Nat /\ DOMAIN s = 1 .. Len(s)
           /\ \A n \in 0 .. Len(cs) : at[n] \in 0 .. Len(s)
           /\ \A n \in 1 .. Len(cs) :
                 /\ cs[n] \in Chars /\ Width[cs[n]] \in 1 .. 4
                 /\ at[n] = at[n - 1] + Width[cs[n]]
                 /\ at[n - 1] \in Nat
           /\ \A m, n \in 0 .. Len(cs) : m < n => at[m] < at[n]
<1>1. cs \in Seq(Chars) /\ s \in Seq(Bytes) /\ Sums(cs, at) /\ at[Len(cs)] = Len(s)
  BY DEF Encodes
<1>2. Len(cs) \in Nat /\ Len(s) \in Nat /\ DOMAIN s = 1 .. Len(s)
  BY <1>1
<1>3. \A n \in 1 .. Len(cs) : cs[n] \in Chars /\ Width[cs[n]] \in 1 .. 4
  BY <1>1, WidthsPositive
<1>4. \A m, n \in 0 .. Len(cs) : m < n => at[m] < at[n]
  BY <1>1, SumsIncrease
<1>5. /\ \A n \in 1 .. Len(cs) : at[n] = at[n - 1] + Width[cs[n]]
      /\ \A n \in 0 .. Len(cs) : at[n] \in Nat
  BY <1>1 DEF Sums
<1>6. ASSUME NEW n \in 0 .. Len(cs) PROVE at[n] \in 0 .. Len(s)
  <2>1. n = Len(cs) \/ at[n] < at[Len(cs)]
    BY <1>2, <1>4
  <2>2. QED
    BY <1>1, <1>2, <1>5, <2>1
<1>7. \A n \in 1 .. Len(cs) : at[n - 1] \in Nat
  BY <1>2, <1>5
<1>8. QED
  BY <1>2, <1>3, <1>4, <1>5, <1>6, <1>7

\* What a byte says of its place.
IsByte(s, cs, at, i, n, k) ==
    /\ k <= Width[cs[n]] /\ i = at[n - 1] + k
    /\ s[i] = [char |-> cs[n], place |-> k]

LEMMA EncodedByte ==
    ASSUME NEW s, NEW cs, NEW at, Encodes(s, cs, at), NEW i \in 1 .. Len(s)
    PROVE  \E n \in 1 .. Len(cs), k \in 1 .. 4 : IsByte(s, cs, at, i, n, k)
<1>1. PICK n \in 1 .. Len(cs), k \in 1 .. 4 : k <= Width[cs[n]] /\ i = at[n - 1] + k
  BY SumsCover DEF Encodes
<1>2. QED
  BY <1>1 DEF Encodes, IsByte

LEMMA EncodedStarts ==
    ASSUME NEW s, NEW cs, NEW at, Encodes(s, cs, at)
    PROVE  /\ \A n \in 1 .. Len(cs) : at[n - 1] + 1 \in Starts(s)
           /\ \A i \in Starts(s) : \E n \in 1 .. Len(cs) : i = at[n - 1] + 1
           /\ \A n \in 1 .. Len(cs) : s[at[n - 1] + 1].char = cs[n]
<1>0. /\ Len(cs) \in Nat /\ Len(s) \in Nat /\ DOMAIN s = 1 .. Len(s)
      /\ \A n \in 1 .. Len(cs) : /\ Width[cs[n]] \in 1 .. 4 /\ at[n - 1] \in Nat
                                 /\ at[n] = at[n - 1] + Width[cs[n]]
      /\ \A n \in 0 .. Len(cs) : at[n] \in 0 .. Len(s)
  BY EncodedPlaces
<1>1. ASSUME NEW n \in 1 .. Len(cs)
      PROVE  at[n - 1] + 1 \in Starts(s) /\ s[at[n - 1] + 1].char = cs[n]
  <2>0. /\ Width[cs[n]] \in 1 .. 4 /\ at[n] = at[n - 1] + Width[cs[n]]
        /\ at[n] \in 0 .. Len(s) /\ at[n - 1] \in Nat
    BY <1>0
  <2>1. at[n - 1] + 1 \in DOMAIN s
    <3>1. PICK p, w, q, e : p = at[n - 1] /\ w = Width[cs[n]] /\ q = at[n] /\ e = Len(s)
      OBVIOUS
    <3>2. p \in Nat /\ w \in 1 .. 4 /\ q = p + w /\ e \in Nat /\ q \in 0 .. e
      BY <1>0, <2>0, <3>1
    <3>3. q <= e /\ 1 \in 1 .. 4 /\ 1 <= w
      BY ONLY <3>2
    <3>4. p + 1 \in 1 .. e
      BY ONLY <3>2, <3>3, PlaceInside
    <3>5. QED
      BY <1>0, <3>1, <3>4
  <2>2. s[at[n - 1] + 1] = [char |-> cs[n], place |-> 1]
    <3>1. \A k \in 1 .. 4 : k <= Width[cs[n]]
             => s[at[n - 1] + k] = [char |-> cs[n], place |-> k]
      BY DEF Encodes
    <3>2. 1 \in 1 .. 4 /\ 1 <= Width[cs[n]]
      BY <2>0
    <3>3. QED
      BY <3>1, <3>2
  <2>3. QED
    BY <2>1, <2>2 DEF Starts
<1>2. ASSUME NEW i \in Starts(s) PROVE \E n \in 1 .. Len(cs) : i = at[n - 1] + 1
  <2>1. i \in 1 .. Len(s) /\ s[i].place = 1
    BY <1>0 DEF Starts
  <2>2a. PICK n \in 1 .. Len(cs), k \in 1 .. 4 : IsByte(s, cs, at, i, n, k)
    BY <2>1, EncodedByte
  <2>2. i = at[n - 1] + k /\ s[i] = [char |-> cs[n], place |-> k]
    BY <2>2a DEF IsByte
  <2>3. k = 1
    <3>1. s[i].place = k
      BY <2>2
    <3>2. QED
      BY <2>1, <3>1
  <2>4. QED
    BY <2>2, <2>3
<1>3. QED
  BY <1>1, <1>2

-----------------------------------------------------------------------------
(* The number of characters, and where the n-th begins.                    *)

\* So many starts are before a character as there are characters before it.
LEMMA StartsBefore ==
    ASSUME NEW s, NEW cs, NEW at, Encodes(s, cs, at), NEW n \in 0 .. Len(cs)
    PROVE  Cardinality({j \in Starts(s) : j < at[n] + 1}) = n
<1>0. /\ Len(cs) \in Nat
      /\ \A m \in 0 .. Len(cs) : at[m] \in Nat
      /\ \A k, m \in 0 .. Len(cs) : k < m => at[k] < at[m]
  BY EncodedPlaces
<1>1. /\ \A m \in 1 .. Len(cs) : at[m - 1] + 1 \in Starts(s)
      /\ \A i \in Starts(s) : \E m \in 1 .. Len(cs) : i = at[m - 1] + 1
  BY EncodedStarts
<1> DEFINE T == {j \in Starts(s) : j < at[n] + 1}
           f == [m \in 1 .. n |-> at[m - 1] + 1]
<1>2. ASSUME NEW m \in 1 .. n
      PROVE  f[m] \in T
  <2>1. m \in 1 .. Len(cs) /\ m - 1 \in 0 .. Len(cs) /\ m - 1 < n
    BY <1>0
  <2>2. at[m - 1] < at[n] /\ at[m - 1] \in Nat /\ at[n] \in Nat
    BY <1>0, <2>1
  <2>3. f[m] = at[m - 1] + 1 /\ f[m] \in Starts(s)
    BY <1>1, <2>1
  <2>4. PICK a, b : a = at[m - 1] /\ b = at[n]
    OBVIOUS
  <2>5. a + 1 < b + 1
    BY ONLY <2>2, <2>4
  <2>6. QED
    BY <2>3, <2>4, <2>5
<1>3. ASSUME NEW k \in 1 .. n, NEW m \in 1 .. n, f[k] = f[m]
      PROVE  k = m
  <2>1. k - 1 \in 0 .. Len(cs) /\ m - 1 \in 0 .. Len(cs)
    BY <1>0
  <2>2. at[k - 1] = at[m - 1]
    <3>1. PICK a, b : a = at[k - 1] /\ b = at[m - 1]
      OBVIOUS
    <3>2. f[k] = a + 1 /\ f[m] = b + 1 /\ a \in Nat /\ b \in Nat
      BY <1>0, <2>1, <3>1
    <3>3. a = b
      BY ONLY <1>3, <3>2
    <3>4. QED
      BY <3>1, <3>3
  <2>3. ~(k - 1 < m - 1) /\ ~(m - 1 < k - 1)
    BY <1>0, <2>1, <2>2
  <2>4. QED
    BY <2>3
<1>4. ASSUME NEW j \in T PROVE \E m \in 1 .. n : f[m] = j
  <2>1. PICK m \in 1 .. Len(cs) : j = at[m - 1] + 1
    BY <1>1
  <2>2. m - 1 \in 0 .. Len(cs) /\ at[m - 1] \in Nat /\ at[n] \in Nat /\ at[m - 1] < at[n]
    BY <1>0, <2>1
  <2>3. ~(n <= m - 1)
    <3>1. n = m - 1 => at[n] = at[m - 1]
      OBVIOUS
    <3>2. n < m - 1 => at[n] < at[m - 1]
      BY <1>0, <2>2
    <3>3. QED
      BY <2>2, <3>1, <3>2
  <2>4. m \in 1 .. n
    BY <2>3
  <2>5. QED
    BY <2>1, <2>4
<1>5. f \in Bijection(1 .. n, T)
  <2>1. f \in [1 .. n -> T] /\ DOMAIN f = 1 .. n
    BY <1>2
  <2> HIDE DEF f, T
  <2>2. f \in Injection(1 .. n, T) /\ f \in Surjection(1 .. n, T)
    BY <1>3, <1>4, <2>1 DEF Injection, Surjection, IsInjective
  <2>3. QED
    BY <2>2 DEF Bijection
<1> HIDE DEF f, T
<1>6. Cardinality(1 .. n) = n /\ IsFiniteSet(1 .. n)
  BY <1>0, FS_Interval
<1>7. Cardinality(T) = n
  BY <1>5, <1>6, FS_Bijection DEF ExistsBijection
<1>8. QED
  BY <1>7 DEF T

LEMMA EncodedCount ==
    ASSUME NEW s, NEW cs, NEW at, Encodes(s, cs, at)
    PROVE  char_count(s) = Len(cs)
<1>0. /\ Len(cs) \in Nat /\ Len(s) \in Nat /\ DOMAIN s = 1 .. Len(s)
      /\ at[Len(cs)] = Len(s)
  BY EncodedPlaces DEF Encodes
<1>1. Cardinality({j \in Starts(s) : j < at[Len(cs)] + 1}) = Len(cs)
  BY <1>0, StartsBefore
<1>2. {j \in Starts(s) : j < at[Len(cs)] + 1} = Starts(s)
  BY <1>0 DEF Starts
<1>3. QED
  BY <1>1, <1>2 DEF char_count

LEMMA EncodedStart ==
    ASSUME NEW s, NEW cs, NEW at, Encodes(s, cs, at), NEW n \in 1 .. Len(cs)
    PROVE  Start(s, n - 1) = at[n - 1] + 1
<1>0. Len(cs) \in Nat
  BY EncodedPlaces
<1>1. /\ \A m \in 1 .. Len(cs) : at[m - 1] + 1 \in Starts(s)
      /\ \A i \in Starts(s) : \E m \in 1 .. Len(cs) : i = at[m - 1] + 1
  BY EncodedStarts
<1>2. \A m \in 1 .. Len(cs) :
         Cardinality({j \in Starts(s) : j < at[m - 1] + 1}) = m - 1
  <2>1. ASSUME NEW m \in 1 .. Len(cs)
        PROVE  Cardinality({j \in Starts(s) : j < at[m - 1] + 1}) = m - 1
    <3>1. m - 1 \in 0 .. Len(cs)
      BY <1>0
    <3>2. QED
      BY <3>1, StartsBefore
  <2>2. QED
    BY <2>1
<1> DEFINE There == {i \in Starts(s) : Cardinality({j \in Starts(s) : j < i}) = n - 1}
<1>3. at[n - 1] + 1 \in There
  BY <1>1, <1>2
<1>4. ASSUME NEW i \in There PROVE i = at[n - 1] + 1
  <2>1. PICK m \in 1 .. Len(cs) : i = at[m - 1] + 1
    BY <1>1
  <2>2. m - 1 = n - 1
    BY <1>2, <2>1
  <2>3. m = n
    BY <2>2
  <2>4. QED
    BY <2>1, <2>3
<1>5. Start(s, n - 1) \in There
  <2>1. \E i \in Starts(s) : Cardinality({j \in Starts(s) : j < i}) = n - 1
    BY <1>3
  <2>2. /\ Start(s, n - 1) \in Starts(s)
        /\ Cardinality({j \in Starts(s) : j < Start(s, n - 1)}) = n - 1
    BY <2>1 DEF Start
  <2>3. QED
    BY <2>2
<1> HIDE DEF There
<1>6. QED
  BY <1>4, <1>5

LEMMA EncodedIndex ==
    ASSUME NEW s, NEW cs, NEW at, Encodes(s, cs, at), NEW n \in Nat
    PROVE  byte_index(s, n) = IF n <= Len(cs) THEN at[n] ELSE Len(s)
<1>0. /\ Len(cs) \in Nat /\ at[Len(cs)] = Len(s)
      /\ \A m \in 0 .. Len(cs) : at[m] \in 0 .. Len(s)
  <2>1. at[Len(cs)] = Len(s)
    BY DEF Encodes
  <2>2. QED
    BY <2>1, EncodedPlaces
<1>1. char_count(s) = Len(cs)
  BY EncodedCount
<1>2. CASE n < Len(cs)
  <2>1. n + 1 \in 1 .. Len(cs) /\ (n + 1) - 1 = n
    BY <1>0, <1>2
  <2>2. Start(s, n) = at[n] + 1
    BY <2>1, EncodedStart
  <2>3. QED
    BY <1>0, <1>1, <1>2, <2>2 DEF byte_index
<1>3. CASE n >= Len(cs)
  BY <1>0, <1>1, <1>3 DEF byte_index
<1>4. QED
  BY <1>0, <1>2, <1>3

-----------------------------------------------------------------------------
(* Decoding gives the characters back.                                     *)

LEMMA DecodedFolds ==
    ASSUME NEW s \in Seq(Bytes)
    PROVE  \E v : /\ v[0] = <<>>
                  /\ \A m \in 1 .. Len(s) :
                        v[m] = IF s[m].place = 1 THEN Append(v[m - 1], s[m].char) ELSE v[m - 1]
                  /\ Decoded(s) = v[Len(s)]
<1> DEFINE N == Len(s)
           F == [e \in Seq(Chars) \X Bytes |->
                    IF e[2].place = 1 THEN Append(e[1], e[2].char) ELSE e[1]]
           Step(h) == [n \in 0 .. Len(s) |->
                          IF n = 0 THEN <<>>
                          ELSE IF s[n].place = 1
                               THEN Append(h[n - 1], s[n].char) ELSE h[n - 1]]
           g == CHOOSE h : h = Step(h)
<1>1. N \in Nat /\ DOMAIN s = 1 .. N /\ s \in [1 .. N -> Bytes]
  OBVIOUS
<1>2. F \in [Seq(Chars) \X Bytes -> Seq(Chars)]
  <2>1. ASSUME NEW e \in Seq(Chars) \X Bytes PROVE F[e] \in Seq(Chars)
    <3>1. e[1] \in Seq(Chars) /\ e[2].char \in Chars
      BY DEF Bytes
    <3>2. Append(e[1], e[2].char) \in Seq(Chars)
      BY <3>1, AppendProperties
    <3>3. QED
      BY <3>1, <3>2
  <2>2. QED
    BY <2>1
<1> HIDE DEF F, N
<1>3. PICK h \in [SUBSET (1 .. N) -> Seq(Chars)] : IsFold(h, F, <<>>, s, N)
  <2>1. <<>> \in Seq(Chars)
    OBVIOUS
  <2>2. HasFold(Seq(Chars), F, <<>>, s, N)
    BY <1>1, <1>2, <2>1, FoldExists
  <2>3. QED
    BY <2>2 DEF HasFold
<1> DEFINE v == [m \in 0 .. N |-> h[1 .. m]]
<1>4. v = Step(v)
  <2>1. v[0] = <<>>
    <3>1. 1 .. 0 = {}
      OBVIOUS
    <3>2. QED
      BY <1>1, <1>3, <3>1 DEF IsFold
  <2>2. ASSUME NEW m \in 1 .. N
        PROVE  v[m] = IF s[m].place = 1 THEN Append(v[m - 1], s[m].char) ELSE v[m - 1]
    <3>a. m \in Nat /\ m # 0
      BY <1>1
    <3>1. Max(1 .. m) = m /\ (1 .. m) \ {m} = 1 .. m - 1 /\ 1 .. m # {}
      BY ONLY <3>a, LastPosition
    <3>2. 1 .. m \in SUBSET (1 .. N) /\ 1 .. m - 1 \in SUBSET (1 .. N)
      BY <1>1
    <3>3. h[1 .. m] = F[<<h[1 .. m - 1], s[m]>>]
      BY <1>3, <3>1, <3>2 DEF IsFold
    <3>4. h[1 .. m - 1] \in Seq(Chars) /\ s[m] \in Bytes
      BY <1>1, <1>3, <3>2
    <3>5. h[1 .. m] = IF s[m].place = 1
                      THEN Append(h[1 .. m - 1], s[m].char) ELSE h[1 .. m - 1]
      BY <3>3, <3>4 DEF F
    <3>6. v[m] = h[1 .. m] /\ v[m - 1] = h[1 .. m - 1]
      BY <1>1
    <3>7. QED
      BY <3>5, <3>6
  <2> HIDE DEF v
  <2>3. v = [m \in 0 .. N |-> v[m]]
    BY DEF v
  <2>4. ASSUME NEW m \in 0 .. N
        PROVE  v[m] = IF m = 0 THEN <<>>
                      ELSE IF s[m].place = 1 THEN Append(v[m - 1], s[m].char) ELSE v[m - 1]
    <3>1. m = 0 \/ m \in 1 .. N
      BY <1>1
    <3>2. CASE m = 0
      BY <2>1, <3>2
    <3>3. CASE m \in 1 .. N
      <4>1. m # 0
        BY <1>1, <3>3
      <4>2. QED
        BY <2>2, <3>3, <4>1
    <3>4. QED
      BY <3>1, <3>2, <3>3
  <2>5. QED
    BY <2>3, <2>4 DEF N
<1> HIDE DEF v
<1>5. g = Step(g)
  BY <1>4
<1>6. Decoded(s) = g[Len(s)]
  BY DEF Decoded
<1> HIDE DEF g
<1>7. g[0] = <<>>
  BY <1>1, <1>5 DEF N
<1>8. \A m \in 1 .. Len(s) :
         g[m] = IF s[m].place = 1 THEN Append(g[m - 1], s[m].char) ELSE g[m - 1]
  <2>1. ASSUME NEW m \in 1 .. Len(s)
        PROVE  g[m] = IF s[m].place = 1 THEN Append(g[m - 1], s[m].char) ELSE g[m - 1]
    <3>1. m \in 0 .. Len(s) /\ m # 0
      BY <1>1 DEF N
    <3>2. QED
      BY <1>5, <3>1
  <2>2. QED
    BY <2>1
<1>9. QED
  BY <1>6, <1>7, <1>8

LEMMA EncodedDecodes ==
    ASSUME NEW s, NEW cs, NEW at, Encodes(s, cs, at)
    PROVE  Decoded(s) = cs
<1>0. /\ Len(cs) \in Nat /\ Len(s) \in Nat /\ s \in Seq(Bytes) /\ cs \in Seq(Chars)
      /\ at[0] = 0 /\ at[Len(cs)] = Len(s)
  BY EncodedPlaces DEF Encodes, Sums
<1>1. /\ \A n \in 0 .. Len(cs) : at[n] \in 0 .. Len(s)
      /\ \A n \in 1 .. Len(cs) : /\ cs[n] \in Chars /\ Width[cs[n]] \in 1 .. 4
                                 /\ at[n] = at[n - 1] + Width[cs[n]] /\ at[n - 1] \in Nat
  BY EncodedPlaces
<1>2. PICK v : /\ v[0] = <<>>
               /\ \A m \in 1 .. Len(s) :
                     v[m] = IF s[m].place = 1 THEN Append(v[m - 1], s[m].char) ELSE v[m - 1]
               /\ Decoded(s) = v[Len(s)]
  BY <1>0, DecodedFolds
<1> DEFINE Inside(i, n, k) == k <= Width[cs[n]] /\ i = at[n - 1] + k
           Bad == {i \in 0 .. Len(s) : \E n \in 1 .. Len(cs), k \in 1 .. 4 :
                      Inside(i, n, k) /\ v[i] # SubSeq(cs, 1, n)}
<1>3. ASSUME Bad # {} PROVE FALSE
  <2>1. PICK i \in 1 .. Len(s) : i \in Bad /\ i - 1 \notin Bad /\ i - 1 \in 0 .. Len(s)
    <3>1. 0 \notin Bad
      BY <1>1
    <3>2. Bad \in SUBSET (0 .. Len(s))
      OBVIOUS
    <3> HIDE DEF Bad
    <3>3. QED
      BY <1>0, <1>3, <3>1, <3>2, FirstFailure
  <2>1a. PICK p \in 0 .. Len(s) : p = i - 1 /\ p \notin Bad
    BY <2>1
  <2>1b. ASSUME NEW n \in 1 .. Len(cs), NEW k \in 1 .. 4, Inside(p, n, k)
         PROVE  v[p] = SubSeq(cs, 1, n)
    BY <2>1a, <2>1b
  <2>2. PICK n \in 1 .. Len(cs), k \in 1 .. 4 : Inside(i, n, k) /\ v[i] # SubSeq(cs, 1, n)
    BY <2>1
  <2>2a. /\ p = i - 1 /\ at[n - 1] \in Nat /\ Width[cs[n]] \in Nat
         /\ k <= Width[cs[n]] /\ i = at[n - 1] + k
    <3>1. p = i - 1 /\ k <= Width[cs[n]] /\ i = at[n - 1] + k
      BY <2>1a, <2>2
    <3>2. at[n - 1] \in Nat /\ Width[cs[n]] \in 1 .. 4
      BY <1>1
    <3>3. Width[cs[n]] \in Nat
      BY <3>2
    <3>4. QED
      BY <3>1, <3>2, <3>3
  <2>3. /\ s[i] = [char |-> cs[n], place |-> k]
        /\ v[i] = IF s[i].place = 1 THEN Append(v[i - 1], s[i].char) ELSE v[i - 1]
    BY <1>2, <2>2 DEF Encodes
  <2>4. v[i] = IF k = 1 THEN Append(v[i - 1], cs[n]) ELSE v[i - 1]
    BY <2>3
  <2>5. CASE k # 1
    <3>1. PICK j \in 1 .. 4 : j = k - 1
      BY <2>5
    <3>2. Inside(p, n, j)
      <4>1. PICK a, w : a = at[n - 1] /\ w = Width[cs[n]]
        OBVIOUS
      <4>2. p = i - 1 /\ a \in Nat /\ w \in Nat /\ k <= w /\ i = a + k
        BY ONLY <2>2a, <4>1
      <4>3. j <= w /\ p = a + j
        BY ONLY <3>1, <4>2, k \in 1 .. 4
      <4>4. QED
        BY <4>1, <4>3
    <3>2a. v[p] = SubSeq(cs, 1, n)
      <4> HIDE DEF Inside
      <4>1. QED
        BY <2>1b, <3>2
    <3>3. QED
      BY <2>1a, <2>2, <2>4, <2>5, <3>2a
  <2>6. CASE k = 1
    <3>1. i - 1 = at[n - 1] /\ v[i] = Append(v[i - 1], cs[n])
      BY <1>1, <2>2, <2>4, <2>6
    <3>2. v[i - 1] = SubSeq(cs, 1, n - 1)
      <4>1. CASE n = 1
        <5>1. i - 1 = 0
          BY <1>0, <3>1, <4>1
        <5>2. SubSeq(cs, 1, 0) = <<>>
          BY <1>0
        <5>3. n - 1 = 0 /\ v[0] = <<>>
          BY <1>2, <4>1
        <5>4. QED
          BY <5>1, <5>2, <5>3
      <4>2. CASE n # 1
        <5>1. PICK m \in 1 .. Len(cs) : m = n - 1
          BY <1>0, <4>2
        <5>2. PICK w \in 1 .. 4 : w = Width[cs[m]]
          BY <1>1
        <5>3. at[m] = at[m - 1] + Width[cs[m]]
          BY <1>1
        <5>3a. at[m - 1] \in Nat /\ w \in Nat /\ p = at[m]
          BY <1>1, <2>1a, <3>1, <5>1
        <5>4. Inside(p, m, w)
          BY <5>2, <5>3, <5>3a
        <5>5. v[p] = SubSeq(cs, 1, m)
          <6> HIDE DEF Inside
          <6>1. QED
            BY <2>1b, <5>4
        <5>6. QED
          BY <2>1a, <5>1, <5>5
      <4>3. QED
        BY <4>1, <4>2
    <3>3. Append(SubSeq(cs, 1, n - 1), cs[n]) = SubSeq(cs, 1, n)
      BY <1>0
    <3>4. QED
      BY <2>2, <3>1, <3>2, <3>3
  <2>7. QED
    BY <2>5, <2>6
<1>4. CASE Len(cs) = 0
  <2>1. cs = <<>> /\ Len(s) = 0
    BY <1>0, <1>4
  <2>2. QED
    BY <1>2, <2>1
<1>5. CASE Len(cs) # 0
  <2>1. PICK n \in 1 .. Len(cs) : n = Len(cs)
    BY <1>0, <1>5
  <2>2. PICK w \in 1 .. 4 : w = Width[cs[n]]
    BY <1>1
  <2>3. Inside(Len(s), n, w)
    BY <1>0, <1>1, <2>1, <2>2
  <2>4. Len(s) \in 0 .. Len(s)
    BY <1>0
  <2>5. v[Len(s)] = SubSeq(cs, 1, n)
    BY <1>3, <2>3, <2>4
  <2>6. SubSeq(cs, 1, n) = cs
    BY <1>0, <2>1
  <2>7. QED
    BY <1>2, <2>5, <2>6
<1>6. QED
  BY <1>4, <1>5

LEMMA EncodedWhole ==
    ASSUME NEW s, NEW cs, NEW at, Encodes(s, cs, at)
    PROVE  WholeCharacters(s)
<1>1. /\ Len(cs) \in Nat /\ Len(s) \in Nat /\ DOMAIN s = 1 .. Len(s)
      /\ \A n \in 0 .. Len(cs) : at[n] \in 0 .. Len(s)
      /\ \A n \in 1 .. Len(cs) : /\ cs[n] \in Chars /\ Width[cs[n]] \in 1 .. 4
                                 /\ at[n] = at[n - 1] + Width[cs[n]] /\ at[n - 1] \in Nat
  BY EncodedPlaces
<1>2. ASSUME NEW i \in DOMAIN s
      PROVE  /\ s[i].place = 1 \/ (i > 1 /\ s[i - 1] = [s[i] EXCEPT !.place = @ - 1])
             /\ s[i].place = Width[s[i].char]
                \/ (i < Len(s) /\ s[i + 1] = [s[i] EXCEPT !.place = @ + 1])
  <2>1. PICK n \in 1 .. Len(cs), k \in 1 .. 4 : IsByte(s, cs, at, i, n, k)
    BY <1>1, EncodedByte
  <2>2. k <= Width[cs[n]] /\ i = at[n - 1] + k
    BY <2>1 DEF IsByte
  <2>2a. s[i] = [char |-> cs[n], place |-> k]
    BY <2>1 DEF IsByte
  <2>3. \A j \in 1 .. 4 : j <= Width[cs[n]] => s[at[n - 1] + j] = [char |-> cs[n], place |-> j]
    BY DEF Encodes
  <2>4. /\ Width[cs[n]] \in 1 .. 4 /\ at[n - 1] \in Nat
        /\ at[n] = at[n - 1] + Width[cs[n]] /\ at[n] \in 0 .. Len(s)
    BY <1>1
  <2>4a. PICK a, w, q, e : a = at[n - 1] /\ w = Width[cs[n]] /\ q = at[n] /\ e = Len(s)
    OBVIOUS
  <2>4b. /\ a \in Nat /\ w \in 1 .. 4 /\ q = a + w /\ e \in Nat /\ q \in 0 .. e
         /\ k <= w /\ i = a + k
    BY <1>1, <2>2, <2>4, <2>4a
  <2>4c. ASSUME NEW j, j \in 1 .. 4, j <= w
         PROVE  s[a + j] = [char |-> cs[n], place |-> j]
    BY <2>3, <2>4a, <2>4c
  <2>5. ASSUME k # 1 PROVE i > 1 /\ s[i - 1] = [s[i] EXCEPT !.place = @ - 1]
    <3>1. PICK j : j = k - 1
      OBVIOUS
    <3>2. j \in 1 .. 4 /\ j <= w /\ i - 1 = a + j /\ i > 1
      BY ONLY <2>4b, <2>5, <3>1, k \in 1 .. 4
    <3>3. s[i - 1] = [char |-> cs[n], place |-> j]
      BY <2>4c, <3>2
    <3>4. [[char |-> cs[n], place |-> k] EXCEPT !.place = @ - 1]
              = [char |-> cs[n], place |-> k - 1]
      OBVIOUS
    <3>5. QED
      BY <2>2a, <3>1, <3>2, <3>3, <3>4
  <2>6. ASSUME k # Width[cs[n]] PROVE i < Len(s) /\ s[i + 1] = [s[i] EXCEPT !.place = @ + 1]
    <3>0. k # w
      BY <2>4a, <2>6
    <3>1. PICK j : j = k + 1
      OBVIOUS
    <3>2. j \in 1 .. 4 /\ j <= w /\ i + 1 = a + j /\ i < e
      BY ONLY <2>4b, <3>0, <3>1, k \in 1 .. 4
    <3>3. s[i + 1] = [char |-> cs[n], place |-> j]
      BY <2>4c, <3>2
    <3>4. [[char |-> cs[n], place |-> k] EXCEPT !.place = @ + 1]
              = [char |-> cs[n], place |-> k + 1]
      OBVIOUS
    <3>5. QED
      BY <2>2a, <2>4a, <3>1, <3>2, <3>3, <3>4
  <2>7. s[i].place = k /\ s[i].char = cs[n]
    BY <2>2a
  <2>8. QED
    BY <2>5, <2>6, <2>7
<1>3. QED
  BY <1>2 DEF WholeCharacters

LEMMA EncodedText ==
    ASSUME NEW s, NEW cs, NEW at, Encodes(s, cs, at)
    PROVE  Text(s) = cs
<1>1. QED
  BY EncodedDecodes, EncodedWhole DEF Text

-----------------------------------------------------------------------------
(* One text behind another, and what it takes of MAX_INPUT_BYTES.          *)

\* One sequence and then another.
LEMMA ConcatParts ==
    ASSUME NEW S, NEW a \in Seq(S), NEW b \in Seq(S), NEW s, s = a \o b
    PROVE  /\ s \in Seq(S) /\ Len(a) \in Nat /\ Len(b) \in Nat
           /\ Len(s) = Len(a) + Len(b)
           /\ \A i \in 1 .. Len(a) : s[i] = a[i]
           /\ \A i \in 1 .. Len(b) : s[Len(a) + i] = b[i]
<1>1. Len(a) \in Nat /\ Len(b) \in Nat
  OBVIOUS
<1>2. /\ s \in Seq(S) /\ Len(s) = Len(a) + Len(b)
      /\ \A i \in 1 .. Len(a) + Len(b) : s[i] = IF i <= Len(a) THEN a[i] ELSE b[i - Len(a)]
  BY ConcatProperties
<1>3. ASSUME NEW i \in 1 .. Len(a) PROVE s[i] = a[i]
  <2>1. i \in 1 .. Len(a) + Len(b) /\ i <= Len(a)
    BY <1>1
  <2>2. QED
    BY <1>2, <2>1
<1>4. ASSUME NEW i \in 1 .. Len(b) PROVE s[Len(a) + i] = b[i]
  <2>1. PICK j \in 1 .. Len(a) + Len(b) : j = Len(a) + i
    BY <1>1
  <2>2. ~(j <= Len(a)) /\ j - Len(a) = i
    BY <1>1, <2>1
  <2>3. s[j] = b[j - Len(a)]
    BY <1>2, <2>2
  <2>4. QED
    BY <2>1, <2>2, <2>3
<1>5. QED
  BY <1>1, <1>2, <1>3, <1>4

JoinedEnds(x, f, y, g) ==
    [n \in 0 .. Len(x) + Len(y) |-> IF n <= Len(x) THEN f[n] ELSE f[Len(x)] + g[n - Len(x)]]

LEMMA SumsFacts ==
    ASSUME NEW x \in Seq(Chars), NEW f, Sums(x, f)
    PROVE  /\ Len(x) \in Nat /\ f[0] = 0
           /\ \A n \in 0 .. Len(x) : f[n] \in Nat
           /\ \A n \in 1 .. Len(x) : f[n] = f[n - 1] + Width[x[n]] /\ Width[x[n]] \in 1 .. 4
<1>1. Len(x) \in Nat /\ \A n \in 1 .. Len(x) : Width[x[n]] \in 1 .. 4
  BY WidthsPositive
<1>2. QED
  BY <1>1 DEF Sums

LEMMA JoinedEndsAre ==
    ASSUME NEW x \in Seq(Chars), NEW y \in Seq(Chars), NEW f, NEW g, Sums(x, f), Sums(y, g),
           NEW h, h = JoinedEnds(x, f, y, g)
    PROVE  /\ h \in [0 .. Len(x) + Len(y) -> Nat]
           /\ \A n \in 0 .. Len(x) : h[n] = f[n]
           /\ \A n \in 0 .. Len(y) : h[Len(x) + n] = f[Len(x)] + g[n]
<1>1. /\ Len(x) \in Nat /\ Len(y) \in Nat /\ g[0] = 0
      /\ \A n \in 0 .. Len(x) : f[n] \in Nat
      /\ \A n \in 0 .. Len(y) : g[n] \in Nat
  BY SumsFacts
<1>2. ASSUME NEW n \in 0 .. Len(x) PROVE h[n] = f[n]
  <2>1. n \in 0 .. Len(x) + Len(y) /\ n <= Len(x)
    BY <1>1
  <2>2. QED
    BY <2>1 DEF JoinedEnds
<1>3. ASSUME NEW n \in 0 .. Len(y) PROVE h[Len(x) + n] = f[Len(x)] + g[n]
  <2>1. CASE n = 0
    <3>1. Len(x) + n = Len(x) /\ Len(x) \in 0 .. Len(x)
      BY <1>1, <2>1
    <3>2. h[Len(x)] = f[Len(x)] /\ f[Len(x)] \in Nat
      BY <1>1, <1>2, <3>1
    <3>3. QED
      BY <1>1, <2>1, <3>1, <3>2
  <2>2. CASE n # 0
    <3>1. PICK j \in 0 .. Len(x) + Len(y) : j = Len(x) + n
      BY <1>1
    <3>2. ~(j <= Len(x)) /\ j - Len(x) = n
      BY <1>1, <2>2, <3>1
    <3>3. h[j] = f[Len(x)] + g[j - Len(x)]
      BY <3>2 DEF JoinedEnds
    <3>4. QED
      BY <3>1, <3>2, <3>3
  <2>3. QED
    BY <2>1, <2>2
<1>4. ASSUME NEW n \in 0 .. Len(x) + Len(y) PROVE h[n] \in Nat
  <2>1. CASE n <= Len(x)
    <3>1. n \in 0 .. Len(x)
      BY <1>1, <2>1
    <3>2. QED
      BY <1>1, <1>2, <3>1
  <2>2. CASE ~(n <= Len(x))
    <3>1. PICK j \in 0 .. Len(y) : n = Len(x) + j
      <4>1. n - Len(x) \in 0 .. Len(y) /\ n = Len(x) + (n - Len(x))
        BY <1>1, <2>2
      <4>2. QED
        BY <4>1
    <3>2. h[n] = f[Len(x)] + g[j] /\ g[j] \in Nat
      BY <1>1, <1>3, <3>1
    <3>3. f[Len(x)] \in Nat
      BY <1>1
    <3>4. QED
      BY <3>2, <3>3
  <2>3. QED
    BY <2>1, <2>2
<1>5. h \in [0 .. Len(x) + Len(y) -> Nat]
  <2>1. h = [n \in 0 .. Len(x) + Len(y) |-> h[n]]
    BY DEF JoinedEnds
  <2>2. QED
    BY <1>4, <2>1
<1>6. QED
  BY <1>2, <1>3, <1>5

LEMMA SumsJoin ==
    ASSUME NEW x \in Seq(Chars), NEW y \in Seq(Chars), NEW f, NEW g, Sums(x, f), Sums(y, g),
           NEW z, z = x \o y
    PROVE  Sums(z, JoinedEnds(x, f, y, g))
<1> DEFINE h == JoinedEnds(x, f, y, g)
<1>1. /\ h \in [0 .. Len(x) + Len(y) -> Nat]
      /\ \A n \in 0 .. Len(x) : h[n] = f[n]
      /\ \A n \in 0 .. Len(y) : h[Len(x) + n] = f[Len(x)] + g[n]
  BY JoinedEndsAre
<1> HIDE DEF h
<1>2. /\ z \in Seq(Chars) /\ Len(x) \in Nat /\ Len(y) \in Nat
      /\ Len(z) = Len(x) + Len(y)
      /\ \A i \in 1 .. Len(x) : z[i] = x[i]
      /\ \A i \in 1 .. Len(y) : z[Len(x) + i] = y[i]
  BY ConcatParts
<1>3. /\ f[0] = 0
      /\ \A n \in 1 .. Len(x) : f[n] = f[n - 1] + Width[x[n]]
  BY SumsFacts
<1>4. /\ \A n \in 0 .. Len(y) : g[n] \in Nat
      /\ \A n \in 1 .. Len(y) : g[n] = g[n - 1] + Width[y[n]] /\ Width[y[n]] \in 1 .. 4
      /\ f[Len(x)] \in Nat
  <2>1. Len(x) \in 0 .. Len(x)
    BY <1>2
  <2>2. QED
    BY <2>1, SumsFacts
<1>5. h[0] = 0
  BY <1>1, <1>2, <1>3
<1>6. ASSUME NEW n \in 1 .. Len(z) PROVE h[n] = h[n - 1] + Width[z[n]]
  <2>1. CASE n <= Len(x)
    <3>1. n \in 1 .. Len(x) /\ n \in 0 .. Len(x) /\ n - 1 \in 0 .. Len(x)
      BY <1>2, <2>1
    <3>2. h[n] = f[n] /\ h[n - 1] = f[n - 1] /\ z[n] = x[n]
      BY <1>1, <1>2, <3>1
    <3>3. QED
      BY <1>3, <3>1, <3>2
  <2>2. CASE ~(n <= Len(x))
    <3>1. PICK j \in 1 .. Len(y) : n = Len(x) + j
      <4>1. n - Len(x) \in 1 .. Len(y) /\ n = Len(x) + (n - Len(x))
        BY <1>2, <2>2
      <4>2. QED
        BY <4>1
    <3>2. PICK i \in 0 .. Len(y) : i = j - 1
      BY <1>2
    <3>3. j \in 0 .. Len(y) /\ n - 1 = Len(x) + i
      BY <1>2, <3>1, <3>2
    <3>4. h[n] = f[Len(x)] + g[j] /\ h[n - 1] = f[Len(x)] + g[i] /\ z[n] = y[j]
      BY <1>1, <1>2, <3>1, <3>3
    <3>5. g[j] = g[i] + Width[y[j]] /\ g[i] \in Nat /\ Width[y[j]] \in 1 .. 4
      BY <1>4, <3>2
    <3>6. PICK a, b, w : a = f[Len(x)] /\ b = g[i] /\ w = Width[y[j]]
      OBVIOUS
    <3>6a. a \in Nat /\ b \in Nat /\ w \in 1 .. 4
      BY <1>4, <3>5, <3>6
    <3>6b. a + (b + w) = (a + b) + w
      BY ONLY <3>6a
    <3>7. f[Len(x)] + (g[i] + Width[y[j]]) = (f[Len(x)] + g[i]) + Width[y[j]]
      BY ONLY <3>6, <3>6b
    <3>8. QED
      BY <3>4, <3>5, <3>7
  <2>3. QED
    BY <2>1, <2>2
<1>7. QED
  BY <1>1, <1>2, <1>5, <1>6 DEF Sums, h

\* Sizes add up.
LEMMA SizeJoin ==
    ASSUME NEW x \in Seq(Chars), NEW y \in Seq(Chars), NEW z, z = x \o y
    PROVE  /\ LINE!Size(x) \in Nat /\ LINE!Size(y) \in Nat
           /\ LINE!Size(z) = LINE!Size(x) + LINE!Size(y)
<1>1. PICK f : Sums(x, f) /\ LINE!Size(x) = f[Len(x)]
  BY SizeFolds
<1>2. PICK g : Sums(y, g) /\ LINE!Size(y) = g[Len(y)]
  BY SizeFolds
<1>3. PICK h : h = JoinedEnds(x, f, y, g)
  OBVIOUS
<1>4a. Sums(z, h)
  BY <1>1, <1>2, <1>3, SumsJoin
<1>4. Sums(z, h) /\ z \in Seq(Chars) /\ Len(z) = Len(x) + Len(y)
  BY <1>4a, ConcatParts
<1>5. Len(x) \in 0 .. Len(x) /\ Len(y) \in 0 .. Len(y)
  OBVIOUS
<1>6. h[Len(x) + Len(y)] = f[Len(x)] + g[Len(y)]
  BY <1>1, <1>2, <1>3, <1>5, JoinedEndsAre
<1>7. LINE!Size(z) = h[Len(z)]
  BY <1>4, SizeOfSums
<1>8. f[Len(x)] \in Nat /\ g[Len(y)] \in Nat
  BY <1>1, <1>2, <1>5, SumsFacts
<1>9. QED
  BY <1>1, <1>2, <1>4, <1>6, <1>7, <1>8

OneEnd(c) == [n \in 0 .. 1 |-> IF n = 0 THEN 0 ELSE Width[c]]

LEMMA OneEncodes ==
    ASSUME NEW c \in Chars
    PROVE  Encodes(Encoded(c), <<c>>, OneEnd(c)) /\ LINE!Size(<<c>>) = Width[c]
<1> DEFINE s == Encoded(c)
           cs == <<c>>
<1>1. Width[c] \in 1 .. 4
  BY EditorAssumption
<1>2. cs \in Seq(Chars) /\ Len(cs) = 1 /\ cs[1] = c
  OBVIOUS
<1>3. s \in Seq(Bytes) /\ Len(s) = Width[c]
      /\ \A k \in 1 .. Width[c] : s[k] = [char |-> c, place |-> k]
  <2>1. \A k \in 1 .. Width[c] : [char |-> c, place |-> k] \in Bytes
    BY <1>1 DEF Bytes
  <2>2. s \in [1 .. Width[c] -> Bytes]
    BY <2>1 DEF Encoded
  <2>3. \A k \in 1 .. Width[c] : s[k] = [char |-> c, place |-> k]
    BY DEF Encoded
  <2> HIDE DEF s
  <2>4. s \in Seq(Bytes) /\ Len(s) = Width[c]
    BY <1>1, <2>2, IsASeq, LenProperties
  <2>5. QED
    BY <2>3, <2>4
<1>4. /\ OneEnd(c) \in [0 .. 1 -> Nat] /\ OneEnd(c)[0] = 0 /\ OneEnd(c)[1] = Width[c]
  BY <1>1 DEF OneEnd
<1> HIDE DEF s, cs
<1>5. \A n \in 1 .. Len(cs) : n = 1 /\ n - 1 = 0
  BY <1>2
<1>6. Sums(cs, OneEnd(c))
  BY <1>1, <1>2, <1>4, <1>5 DEF Sums
<1>7. \A n \in 1 .. Len(cs), k \in 1 .. 4 :
          k <= Width[cs[n]] => s[OneEnd(c)[n - 1] + k] = [char |-> cs[n], place |-> k]
  <2>1. ASSUME NEW k \in 1 .. 4, k <= Width[c]
        PROVE  s[OneEnd(c)[0] + k] = [char |-> c, place |-> k]
    <3>1. k \in 1 .. Width[c] /\ OneEnd(c)[0] + k = k
      BY <1>1, <1>4, <2>1
    <3>2. QED
      BY <1>3, <3>1
  <2>2. QED
    BY <1>2, <1>5, <2>1
<1>8. Encodes(s, cs, OneEnd(c))
  BY <1>2, <1>3, <1>4, <1>6, <1>7 DEF Encodes
<1>9. LINE!Size(cs) = Width[c]
  BY <1>2, <1>4, <1>6, SizeOfSums
<1>10. QED
  BY <1>8, <1>9 DEF s, cs

LEMMA EmptyEncodes ==
    Encodes(<<>>, <<>>, [n \in 0 .. 0 |-> 0]) /\ LINE!Size(<<>>) = 0
<1> DEFINE at == [n \in 0 .. 0 |-> 0]
           e == <<>>
<1>1. at \in [0 .. 0 -> Nat] /\ at[0] = 0
  OBVIOUS
<1>2. e \in Seq(Chars) /\ e \in Seq(Bytes) /\ Len(e) = 0 /\ \A n \in 1 .. 0 : FALSE
  OBVIOUS
<1> HIDE DEF at, e
<1>3. Sums(e, at)
  BY <1>1, <1>2 DEF Sums
<1>4. QED
  BY <1>1, <1>2, <1>3, SizeOfSums DEF Encodes, at, e

-----------------------------------------------------------------------------
(* Cutting a text between two characters.                                  *)

Utf8(s, cs) == \E at : Encodes(s, cs, at)

LEMMA EncodesFacts ==
    ASSUME NEW s, NEW cs, NEW at, Encodes(s, cs, at)
    PROVE  /\ s \in Seq(Bytes) /\ cs \in Seq(Chars) /\ Sums(cs, at)
           /\ Len(s) \in Nat /\ Len(cs) \in Nat /\ at[Len(cs)] = Len(s)
BY DEF Encodes

LEMMA SumsRegroup ==
    ASSUME NEW p, p \in Int, NEW q, q \in Int, NEW k, k \in Int
    PROVE  (p + q) + k = p + (q + k) /\ (q - p) + k = (q + k) - p /\ p + (q - p) = q
OBVIOUS

LEMMA Utf8Join ==
    ASSUME NEW a, NEW x, Utf8(a, x), NEW b, NEW y, Utf8(b, y), NEW s, s = a \o b,
           NEW z, z = x \o y
    PROVE  Utf8(s, z)
<1>1. PICK f : Encodes(a, x, f)
  BY DEF Utf8
<1>2. PICK g : Encodes(b, y, g)
  BY DEF Utf8
<1>3. /\ a \in Seq(Bytes) /\ x \in Seq(Chars) /\ Sums(x, f) /\ f[Len(x)] = Len(a)
      /\ b \in Seq(Bytes) /\ y \in Seq(Chars) /\ Sums(y, g) /\ g[Len(y)] = Len(b)
      /\ Len(a) \in Nat /\ Len(b) \in Nat /\ Len(x) \in Nat /\ Len(y) \in Nat
  BY <1>1, <1>2, EncodesFacts
<1>4. PICK h : h = JoinedEnds(x, f, y, g)
  OBVIOUS
<1>5. Sums(z, h)
  BY <1>3, <1>4, SumsJoin
<1>6. /\ \A n \in 0 .. Len(x) : h[n] = f[n]
      /\ \A n \in 0 .. Len(y) : h[Len(x) + n] = f[Len(x)] + g[n]
  BY <1>3, <1>4, JoinedEndsAre
<1>7. /\ s \in Seq(Bytes) /\ Len(s) = Len(a) + Len(b)
      /\ \A i \in 1 .. Len(a) : s[i] = a[i]
      /\ \A i \in 1 .. Len(b) : s[Len(a) + i] = b[i]
  BY <1>3, ConcatParts
<1>8. /\ z \in Seq(Chars) /\ Len(z) = Len(x) + Len(y)
      /\ \A i \in 1 .. Len(x) : z[i] = x[i]
      /\ \A i \in 1 .. Len(y) : z[Len(x) + i] = y[i]
  BY <1>3, ConcatParts
<1>9. h[Len(z)] = Len(s)
  <2>1. Len(y) \in 0 .. Len(y)
    BY <1>3
  <2>2. h[Len(x) + Len(y)] = f[Len(x)] + g[Len(y)]
    BY <1>6, <2>1
  <2>3. QED
    BY <1>3, <1>7, <1>8, <2>2
<1>10. ASSUME NEW n \in 1 .. Len(z), NEW k \in 1 .. 4, k <= Width[z[n]]
       PROVE  s[h[n - 1] + k] = [char |-> z[n], place |-> k]
  <2>1. CASE n <= Len(x)
    <3>1. PICK i \in 0 .. Len(x) : i = n - 1
      BY <1>3, <2>1
    <3>2. n \in 1 .. Len(x) /\ h[i] = f[i] /\ z[n] = x[n]
      BY <1>3, <1>6, <1>8, <2>1, <3>1
    <3>3. a[f[i] + k] = [char |-> x[n], place |-> k]
      BY <1>1, <1>10, <3>1, <3>2 DEF Encodes
    <3>4. f[i] \in Nat /\ f[n] = f[i] + Width[x[n]] /\ f[n] \in 0 .. Len(a)
          /\ Width[x[n]] \in 1 .. 4
      <4>1. n \in 0 .. Len(x)
        BY <1>3, <3>2
      <4>2. QED
        BY <1>1, <3>1, <3>2, <4>1, EncodedPlaces
    <3>5. f[i] + k \in 1 .. Len(a)
      <4>1. k <= Width[x[n]] /\ f[n] <= Len(a) /\ Len(a) \in Nat
        BY <1>3, <1>10, <3>2, <3>4
      <4>2. QED
        BY <3>4, <4>1, PlaceInside
    <3>6. s[f[i] + k] = a[f[i] + k]
      BY <1>7, <3>5
    <3>7. QED
      BY <3>1, <3>2, <3>3, <3>6
  <2>2. CASE ~(n <= Len(x))
    <3>1. PICK j \in 1 .. Len(y) : n = Len(x) + j
      <4>1. n - Len(x) \in 1 .. Len(y) /\ n = Len(x) + (n - Len(x))
        BY <1>3, <1>8, <2>2
      <4>2. QED
        BY <4>1
    <3>2. PICK i \in 0 .. Len(y) : i = j - 1
      BY <1>3
    <3>3. n - 1 = Len(x) + i
      BY <1>3, <3>1, <3>2
    <3>4. h[n - 1] = Len(a) + g[i] /\ z[n] = y[j]
      BY <1>3, <1>6, <1>8, <3>1, <3>3
    <3>5. b[g[i] + k] = [char |-> y[j], place |-> k]
      BY <1>2, <1>10, <3>2, <3>4 DEF Encodes
    <3>6. g[i] \in Nat /\ g[j] = g[i] + Width[y[j]] /\ g[j] \in 0 .. Len(b)
          /\ Width[y[j]] \in 1 .. 4
      <4>1. j \in 0 .. Len(y)
        BY <1>3
      <4>2. QED
        BY <1>2, <3>2, <4>1, EncodedPlaces
    <3>7. PICK p \in 1 .. Len(b) : p = g[i] + k
      <4>1. g[i] + k \in 1 .. Len(b)
        <5>1. k <= Width[y[j]] /\ g[j] <= Len(b) /\ Len(b) \in Nat
          BY <1>3, <1>10, <3>4, <3>6
        <5>2. QED
          BY <3>6, <5>1, PlaceInside
      <4>2. QED
        BY <4>1
    <3>8. s[Len(a) + p] = b[p]
      BY <1>7
    <3>9. h[n - 1] + k = Len(a) + p
      <4>1. Len(a) \in Int /\ g[i] \in Int /\ k \in Int
        <5>1. Len(a) \in Nat
          BY <1>3
        <5>2. g[i] \in Nat
          BY <3>6
        <5>3. QED
          BY <5>1, <5>2
      <4>2. (Len(a) + g[i]) + k = Len(a) + (g[i] + k)
        BY <4>1, SumsRegroup
      <4>3. QED
        BY <3>4, <3>7, <4>2
    <3>10. QED
      BY <3>4, <3>5, <3>7, <3>8, <3>9
  <2>3. QED
    BY <2>1, <2>2
<1>11. Encodes(s, z, h)
  BY <1>5, <1>7, <1>8, <1>9, <1>10 DEF Encodes
<1>12. QED
  BY <1>11 DEF Utf8

\* The first n elements of a sequence, and those behind them.
First(a, s, n) == a = SubSeq(s, 1, n)
Rest(b, s, n) == b = SubSeq(s, n + 1, Len(s))

IsBack(b, s, e) == \A i \in 1 .. Len(s) - e : b[i] = s[e + i]

LEMMA BackOf ==
    ASSUME NEW S, NEW s \in Seq(S), NEW e \in 0 .. Len(s), NEW b, b = SubSeq(s, e + 1, Len(s))
    PROVE  /\ b \in Seq(S) /\ Len(b) = Len(s) - e
           /\ IsBack(b, s, e)
<1>1. Len(s) \in Nat /\ \A i \in e + 1 .. Len(s) : s[i] \in S
  <2>1. Len(s) \in Nat /\ \A i \in 1 .. Len(s) : s[i] \in S
    OBVIOUS
  <2>2. \A i \in e + 1 .. Len(s) : i \in 1 .. Len(s)
    BY <2>1
  <2>3. QED
    BY <2>1, <2>2
<1>2. e + 1 \in Int /\ Len(s) \in Int /\ Len(s) - (e + 1) + 1 = Len(s) - e
  BY <1>1
<1>3. /\ b \in Seq(S) /\ Len(b) = IF e + 1 <= Len(s) THEN Len(s) - (e + 1) + 1 ELSE 0
      /\ \A i \in 1 .. Len(s) - (e + 1) + 1 : b[i] = s[e + 1 + i - 1]
  <2>1. PICK d : d = e + 1
    OBVIOUS
  <2>2. d \in Int /\ (\A i \in d .. Len(s) : s[i] \in S) /\ b = SubSeq(s, d, Len(s))
    BY <1>1, <2>1
  <2>3. /\ b \in Seq(S) /\ Len(b) = IF d <= Len(s) THEN Len(s) - d + 1 ELSE 0
        /\ \A i \in 1 .. Len(s) - d + 1 : b[i] = s[d + i - 1]
    <3>1. PICK n : n = Len(s)
      OBVIOUS
    <3>2. d \in Int /\ n \in Int /\ (\A i \in d .. n : s[i] \in S) /\ b = SubSeq(s, d, n)
      BY <1>2, <2>2, <3>1
    <3>3. /\ b \in Seq(S) /\ Len(b) = IF d <= n THEN n - d + 1 ELSE 0
          /\ \A i \in 1 .. n - d + 1 : b[i] = s[d + i - 1]
      BY ONLY <3>2, SubSeqProperties
    <3>4. QED
      BY <3>1, <3>3
  <2>4. QED
    BY <2>1, <2>3
<1>4. Len(b) = Len(s) - e
  <2>1. e + 1 <= Len(s) \/ (~(e + 1 <= Len(s)) /\ Len(s) - e = 0)
    BY <1>1
  <2>2. QED
    BY <1>2, <1>3, <2>1
<1>5. ASSUME NEW i \in 1 .. Len(s) - e PROVE b[i] = s[e + i]
  <2>1. i \in 1 .. Len(s) - (e + 1) + 1 /\ e + 1 + i - 1 = e + i
    BY <1>1, <1>2
  <2>2. QED
    BY <1>3, <2>1
<1>6. QED
  BY <1>3, <1>4, <1>5 DEF IsBack

\* The characters before one.
LEMMA EncodesFront ==
    ASSUME NEW s, NEW cs, NEW at, Encodes(s, cs, at), NEW m \in 0 .. Len(cs),
           NEW a, First(a, s, at[m]), NEW x, First(x, cs, m)
    PROVE  Utf8(a, x) /\ Len(a) = at[m] /\ Len(x) = m
<1> DEFINE f == [n \in 0 .. m |-> at[n]]
<1>1. s \in Seq(Bytes) /\ cs \in Seq(Chars) /\ Len(s) \in Nat /\ Len(cs) \in Nat
  BY EncodesFacts
<1>2. /\ \A n \in 0 .. Len(cs) : at[n] \in 0 .. Len(s)
      /\ \A n \in 1 .. Len(cs) : /\ Width[cs[n]] \in 1 .. 4
                                 /\ at[n] = at[n - 1] + Width[cs[n]]
      /\ \A j, n \in 0 .. Len(cs) : j < n => at[j] < at[n]
      /\ at[0] = 0
  BY EncodedPlaces DEF Encodes, Sums
<1>3. /\ x \in Seq(Chars) /\ Len(x) = m /\ \A i \in 1 .. m : x[i] = cs[i]
  <2>1. \A i \in 1 .. m : cs[i] \in Chars
    BY <1>1
  <2>2. QED
    BY <1>1, <2>1, SubSeqProperties DEF First
<1>4. PICK e \in 0 .. Len(s) : e = at[m]
  BY <1>2
<1>5. /\ a \in Seq(Bytes) /\ Len(a) = e /\ \A i \in 1 .. e : a[i] = s[i]
  <2>1. \A i \in 1 .. e : s[i] \in Bytes
    BY <1>1
  <2>2. QED
    BY <1>1, <1>4, <2>1, SubSeqProperties DEF First
<1>6. /\ f \in [0 .. m -> Nat]
      /\ \A n \in 0 .. m : f[n] = at[n] /\ n \in 0 .. Len(cs)
  BY <1>1, <1>2
<1> HIDE DEF f
<1>7. ASSUME NEW n \in 1 .. m
      PROVE  /\ f[n] = f[n - 1] + Width[x[n]]
             /\ \A k \in 1 .. 4 : k <= Width[x[n]] =>
                   a[f[n - 1] + k] = [char |-> x[n], place |-> k]
  <2>1. n \in 1 .. Len(cs) /\ n \in 0 .. m
    BY <1>1
  <2>2. PICK i \in 0 .. m : i = n - 1
    OBVIOUS
  <2>3. x[n] = cs[n] /\ f[n] = at[n] /\ f[i] = at[i]
    BY <1>3, <1>6, <2>1
  <2>4. at[n] = at[i] + Width[cs[n]] /\ Width[cs[n]] \in 1 .. 4 /\ at[i] \in Nat
    BY <1>2, <1>6, <2>1, <2>2
  <2>5. at[n] <= e /\ at[n] \in Nat
    <3>1. n = m \/ n < m
      OBVIOUS
    <3>2. n < m => at[n] < at[m]
      BY <1>2, <1>6, <2>1
    <3>3. at[n] \in 0 .. Len(s) /\ at[m] \in 0 .. Len(s)
      BY <1>2, <1>6, <2>1
    <3>4. QED
      BY <1>1, <1>4, <3>1, <3>2, <3>3
  <2>6. ASSUME NEW k \in 1 .. 4, k <= Width[cs[n]]
        PROVE  a[at[i] + k] = [char |-> cs[n], place |-> k]
    <3>1. at[i] + k \in 1 .. e
      <4>1. e \in Nat
        BY <1>1
      <4>2. QED
        BY <2>4, <2>5, <2>6, <4>1, PlaceInside
    <3>2. a[at[i] + k] = s[at[i] + k]
      BY <1>5, <3>1
    <3>3. s[at[i] + k] = [char |-> cs[n], place |-> k]
      BY <2>1, <2>2, <2>6 DEF Encodes
    <3>4. QED
      BY <3>2, <3>3
  <2>7. QED
    BY <2>2, <2>3, <2>4, <2>6
<1>8. Sums(x, f)
  <2>1. 0 \in 0 .. m
    OBVIOUS
  <2>2. QED
    BY <1>2, <1>3, <1>6, <1>7, <2>1 DEF Sums
<1>9. f[m] = e
  BY <1>4, <1>6
<1>10. Encodes(a, x, f)
  BY <1>3, <1>5, <1>7, <1>8, <1>9 DEF Encodes
<1>11. QED
  BY <1>3, <1>4, <1>5, <1>10 DEF Utf8

\* The characters behind it.
LEMMA EncodesBack ==
    ASSUME NEW s, NEW cs, NEW at, Encodes(s, cs, at), NEW m \in 0 .. Len(cs),
           NEW b, Rest(b, s, at[m]), NEW y, Rest(y, cs, m)
    PROVE  Utf8(b, y)
<1> DEFINE N == Len(cs) - m
           f == [n \in 0 .. N |-> at[m + n] - at[m]]
<1>1. s \in Seq(Bytes) /\ cs \in Seq(Chars) /\ Len(s) \in Nat /\ Len(cs) \in Nat
      /\ at[Len(cs)] = Len(s)
  BY EncodesFacts
<1>2. /\ \A n \in 0 .. Len(cs) : at[n] \in 0 .. Len(s)
      /\ \A n \in 1 .. Len(cs) : /\ Width[cs[n]] \in 1 .. 4
                                 /\ at[n] = at[n - 1] + Width[cs[n]]
      /\ \A j, n \in 0 .. Len(cs) : j < n => at[j] < at[n]
  BY EncodedPlaces
<1>3. N \in Nat /\ Len(cs) = m + N
  BY <1>1
<1> HIDE DEF N
<1>4. /\ y \in Seq(Chars) /\ Len(y) = N /\ \A i \in 1 .. N : y[i] = cs[m + i]
  <2>1. Len(cs) - m = N
    BY <1>3
  <2>2. QED
    BY <1>1, <2>1, BackOf DEF IsBack, Rest
<1>5. PICK e \in 0 .. Len(s) : e = at[m]
  BY <1>2
<1>6. /\ b \in Seq(Bytes) /\ Len(b) = Len(s) - e /\ \A i \in 1 .. Len(s) - e : b[i] = s[e + i]
  <2>1. s \in Seq(Bytes) /\ b = SubSeq(s, e + 1, Len(s))
    BY <1>1, <1>5 DEF Rest
  <2>2. b \in Seq(Bytes) /\ Len(b) = Len(s) - e /\ IsBack(b, s, e)
    BY <2>1, BackOf
  <2>3. QED
    BY <2>2 DEF IsBack
<1>7. \A n \in 0 .. N : m + n \in 0 .. Len(cs) /\ at[m + n] \in Nat /\ e <= at[m + n]
  <2>1. ASSUME NEW n \in 0 .. N
        PROVE  m + n \in 0 .. Len(cs) /\ at[m + n] \in Nat /\ e <= at[m + n]
    <3>1. PICK j \in 0 .. Len(cs) : j = m + n
      BY <1>1, <1>3
    <3>2. j = m \/ m < j
      BY <3>1
    <3>3. e <= at[j] /\ at[j] \in Nat
      <4>1. at[j] \in 0 .. Len(s) /\ (m < j => at[m] < at[j]) /\ m \in 0 .. Len(cs)
        BY <1>2
      <4>2. QED
        BY <1>1, <1>5, <3>2, <4>1
    <3>4. QED
      BY <3>1, <3>3
  <2>2. QED
    BY <2>1
<1>8. /\ f \in [0 .. N -> Nat]
      /\ \A n \in 0 .. N : f[n] = at[m + n] - e
  <2>1. \A n \in 0 .. N : f[n] = at[m + n] - e
    BY <1>5
  <2>2. \A n \in 0 .. N : at[m + n] - e \in Nat
    BY <1>7
  <2>3. QED
    BY <2>1, <2>2
<1> HIDE DEF f
<1>9. ASSUME NEW n \in 1 .. N
      PROVE  /\ f[n] = f[n - 1] + Width[y[n]]
             /\ \A k \in 1 .. 4 : k <= Width[y[n]] =>
                   b[f[n - 1] + k] = [char |-> y[n], place |-> k]
  <2>1. PICK i \in 0 .. N : i = n - 1
    BY <1>3
  <2>2. PICK j \in 1 .. Len(cs) : j = m + n
    BY <1>1, <1>3
  <2>3. n \in 0 .. N /\ j - 1 = m + i
    BY <1>3, <2>1, <2>2
  <2>4. y[n] = cs[j] /\ f[n] = at[j] - e /\ f[i] = at[j - 1] - e
    BY <1>4, <1>8, <2>1, <2>2, <2>3
  <2>5. at[j] = at[j - 1] + Width[cs[j]] /\ Width[cs[j]] \in 1 .. 4
    BY <1>2
  <2>6. at[j - 1] \in Nat /\ e <= at[j - 1] /\ at[j] \in 0 .. Len(s)
    <3>1. j \in 0 .. Len(cs)
      BY <1>1
    <3>2. at[j] \in 0 .. Len(s)
      BY <1>2, <3>1
    <3>3. QED
      BY <1>7, <2>3, <3>2
  <2>7. f[n] = f[i] + Width[y[n]]
    <3>1. (at[j - 1] - e) + Width[cs[j]] = (at[j - 1] + Width[cs[j]]) - e
      <4>1. at[j - 1] \in Int /\ e \in Int /\ Width[cs[j]] \in Int
        BY <1>1, <2>5, <2>6
      <4>2. PICK z, w : z = at[j - 1] /\ w = Width[cs[j]]
        OBVIOUS
      <4>3. (z - e) + w = (z + w) - e
        BY <4>1, <4>2
      <4>4. QED
        BY <4>2, <4>3
    <3>2. QED
      BY <2>4, <2>5, <3>1
  <2>8. ASSUME NEW k \in 1 .. 4, k <= Width[cs[j]]
        PROVE  b[f[i] + k] = [char |-> cs[j], place |-> k]
    <3>1. PICK p \in 1 .. Len(s) - e : p = f[i] + k
      <4>1. f[i] + k \in 1 .. Len(s) - e
        <5>1. at[j - 1] + k \in 1 .. Len(s)
          <6>1. Len(s) \in Nat /\ at[j] <= Len(s)
            BY <1>1, <2>6
          <6>2. QED
            BY <2>5, <2>6, <2>8, <6>1, PlaceInside
        <5>2. PICK z \in Nat : z = at[j - 1]
          BY <2>6
        <5>3. z + k \in 1 .. Len(s) /\ e <= z /\ f[i] = z - e
          BY <2>4, <2>6, <5>1, <5>2
        <5>4. QED
          BY <1>1, <5>3
      <4>2. QED
        BY <4>1
    <3>2. b[p] = s[e + p]
      BY <1>6
    <3>3. e + p = at[j - 1] + k
      <4>1. PICK z \in Nat : z = at[j - 1]
        BY <2>6
      <4>2. p = (z - e) + k
        BY <2>4, <3>1, <4>1
      <4>3. e \in Int /\ p \in Int
        BY <1>1
      <4>4. e + p = z + k
        BY <4>2, <4>3
      <4>5. QED
        BY <4>1, <4>4
    <3>4. s[at[j - 1] + k] = [char |-> cs[j], place |-> k]
      BY <2>8 DEF Encodes
    <3>5. QED
      BY <3>1, <3>2, <3>3, <3>4
  <2>9. QED
    BY <2>1, <2>4, <2>7, <2>8
<1>10. f[0] = 0 /\ f[N] = Len(s) - e
  <2>1. 0 \in 0 .. N /\ N \in 0 .. N /\ m + 0 = m
    BY <1>3
  <2>2. QED
    BY <1>1, <1>3, <1>5, <1>8, <2>1
<1>11. Sums(y, f)
  BY <1>4, <1>8, <1>9, <1>10 DEF Sums
<1>12. Encodes(b, y, f)
  BY <1>4, <1>6, <1>9, <1>10, <1>11 DEF Encodes
<1>13. QED
  BY <1>12 DEF Utf8

\* What was put together can be cut where it was.
LEMMA CutConcat ==
    ASSUME NEW S, NEW l \in Seq(S), NEW r \in Seq(S), NEW cs, cs = l \o r
    PROVE  /\ SubSeq(cs, 1, Len(l)) = l
           /\ SubSeq(cs, Len(l) + 1, Len(cs)) = r
<1>1. /\ cs \in Seq(S) /\ Len(l) \in Nat /\ Len(r) \in Nat
      /\ Len(cs) = Len(l) + Len(r)
      /\ \A i \in 1 .. Len(l) : cs[i] = l[i]
      /\ \A i \in 1 .. Len(r) : cs[Len(l) + i] = r[i]
  BY ConcatParts
<1>2. SubSeq(cs, 1, Len(l)) = l
  <2>1. PICK a : a = SubSeq(cs, 1, Len(l))
    OBVIOUS
  <2>2. \A i \in 1 .. Len(l) : cs[i] \in S
    BY <1>1
  <2>3. a \in Seq(S) /\ Len(a) = Len(l) /\ \A i \in 1 .. Len(l) : a[i] = cs[i]
    BY <1>1, <2>1, <2>2, SubSeqProperties
  <2>4. \A i \in 1 .. Len(a) : a[i] = l[i]
    BY <1>1, <2>3
  <2>5. a = l
    BY <2>3, <2>4, SeqEqual
  <2>6. QED
    BY <2>1, <2>5
<1>3. SubSeq(cs, Len(l) + 1, Len(cs)) = r
  <2>1. PICK b : b = SubSeq(cs, Len(l) + 1, Len(cs))
    OBVIOUS
  <2>2. Len(l) \in 0 .. Len(cs) /\ Len(cs) - Len(l) = Len(r)
    BY <1>1
  <2>3. b \in Seq(S) /\ Len(b) = Len(cs) - Len(l) /\ IsBack(b, cs, Len(l))
    <3>1. PICK e : e = Len(l)
      OBVIOUS
    <3>2. cs \in Seq(S) /\ e \in 0 .. Len(cs) /\ b = SubSeq(cs, e + 1, Len(cs))
      BY <1>1, <2>1, <2>2, <3>1
    <3>3. b \in Seq(S) /\ Len(b) = Len(cs) - e /\ IsBack(b, cs, e)
      BY ONLY <3>2, BackOf
    <3>4. QED
      BY <3>1, <3>3
  <2>4. \A i \in 1 .. Len(b) : b[i] = r[i]
    BY <1>1, <2>2, <2>3 DEF IsBack
  <2>5. b = r
    BY <2>2, <2>3, <2>4, SeqEqual
  <2>6. QED
    BY <2>1, <2>5
<1>4. QED
  BY <1>2, <1>3

LEMMA CharsConcat ==
    ASSUME NEW x \in Seq(Chars), NEW y \in Seq(Chars)
    PROVE  x \o y \in Seq(Chars) /\ x \o <<>> = x /\ <<>> \o x = x
BY ConcatProperties, ConcatEmptySeq

LEMMA CharsAssociate ==
    \A x, y, z \in Seq(Chars) : (x \o y) \o z = x \o (y \o z)
BY ConcatAssociative

LEMMA AppendBehind ==
    ASSUME NEW l \in Seq(Chars), NEW p \in Seq(Chars), NEW c \in Chars
    PROVE  Append(l \o p, c) = l \o Append(p, c)
<1>1. PICK x \in Seq(Chars) : x = <<c>>
  <2>1. <<c>> \in Seq(Chars)
    OBVIOUS
  <2>2. QED
    BY <2>1
<1>2. (l \o p) \o x = l \o (p \o x)
  BY ConcatAssociative
<1>3. PICK y \in Seq(Chars) : y = l \o p
  BY CharsConcat
<1>4. Append(p, c) = p \o x
  BY <1>1, AppendIsConcat
<1>5. Append(y, c) = y \o x
  BY <1>1, AppendIsConcat
<1>6. QED
  BY <1>2, <1>3, <1>4, <1>5

\* One character over to the right, or to the left.
LEMMA PassRight ==
    ASSUME NEW l \in Seq(Chars), NEW r \in Seq(Chars), l # <<>>
    PROVE  /\ Front(l) \in Seq(Chars) /\ Len(Front(l)) = Len(l) - 1
           /\ <<Last(l)>> \o r \in Seq(Chars)
           /\ l \o r = Front(l) \o (<<Last(l)>> \o r)
<1>1. Len(l) \in Nat /\ Len(l) # 0
  OBVIOUS
<1>2. Last(l) \in Chars /\ <<Last(l)>> \in Seq(Chars)
  BY <1>1 DEF Last
<1>3. PICK n \in 1 .. Len(l) : n = Len(l)
  BY <1>1
<1>4. PICK f : f = SubSeq(l, 1, n - 1)
  OBVIOUS
<1>5. f \in Seq(Chars) /\ Len(f) = n - 1
  BY <1>1, <1>4
<1>6. SubSeq(l, 1, n) = f \o <<l[n]>>
  BY <1>3, <1>4, SubSeqRecursiveSecond
<1>7. SubSeq(l, 1, n) = l
  BY <1>3, SubSeqFull
<1>8. f = Front(l) /\ l[n] = Last(l)
  BY <1>3, <1>4 DEF Front, Last
<1>9. PICK e \in Seq(Chars) : e = <<Last(l)>>
  BY <1>2
<1>10. l = f \o e
  BY <1>6, <1>7, <1>8, <1>9
<1>11. (f \o e) \o r = f \o (e \o r)
  BY <1>5, CharsAssociate
<1>12. e \o r \in Seq(Chars)
  BY CharsConcat
<1>13. QED
  BY <1>3, <1>5, <1>8, <1>9, <1>10, <1>11, <1>12

LEMMA PassLeft ==
    ASSUME NEW l \in Seq(Chars), NEW r \in Seq(Chars), r # <<>>
    PROVE  /\ Append(l, Head(r)) \in Seq(Chars) /\ Tail(r) \in Seq(Chars)
           /\ Len(Append(l, Head(r))) = Len(l) + 1
           /\ l \o r = Append(l, Head(r)) \o Tail(r)
<1>1. Len(r) \in Nat /\ Len(r) # 0 /\ Head(r) = r[1]
  OBVIOUS
<1>2. Head(r) \in Chars /\ Tail(r) \in Seq(Chars)
  BY <1>1
<1>3. PICK n \in 1 .. Len(r) : n = Len(r)
  BY <1>1
<1>4. PICK e \in Seq(Chars) : e = <<Head(r)>>
  <2>1. <<Head(r)>> \in Seq(Chars)
    BY <1>2
  <2>2. QED
    BY <2>1
<1>5. PICK t \in Seq(Chars) : t = Tail(r)
  BY <1>2
<1>6. r = e \o t
  <2>1. 1 \in 1 .. Len(r) /\ n \in 1 .. Len(r)
    BY <1>1
  <2>2. SubSeq(r, 1, n) = <<r[1]>> \o SubSeq(r, 2, n)
    BY <2>1, SubSeqRecursiveFirst
  <2>3. SubSeq(r, 1, n) = r
    BY <1>3, SubSeqFull
  <2>4. SubSeq(r, 2, n) = t
    BY <1>3, <1>5, TailIsSubSeq
  <2>5. QED
    BY <1>1, <1>4, <2>2, <2>3, <2>4
<1>7. Append(l, Head(r)) = l \o e
  BY <1>2, <1>4, AppendIsConcat
<1>8. (l \o e) \o t = l \o (e \o t)
  BY <1>4, <1>5, CharsAssociate
<1>9. Append(l, Head(r)) \in Seq(Chars) /\ Len(Append(l, Head(r))) = Len(l) + 1
  BY <1>2, AppendProperties
<1>10. QED
  BY <1>5, <1>6, <1>7, <1>8, <1>9

-----------------------------------------------------------------------------
(* A text and its cursor show the characters before and behind.            *)

\* What byte_index cuts is before, and behind, so many characters.
LEMMA Utf8Cut ==
    ASSUME NEW s, NEW cs, Utf8(s, cs), NEW m \in 0 .. Len(cs),
           NEW a, First(a, s, byte_index(s, m)), NEW b, Rest(b, s, byte_index(s, m)),
           NEW x, First(x, cs, m), NEW y, Rest(y, cs, m)
    PROVE  /\ Utf8(a, x) /\ Utf8(b, y)
           /\ Len(a) = byte_index(s, m)
<1>1. PICK at : Encodes(s, cs, at)
  BY DEF Utf8
<1>2. Len(cs) \in Nat /\ m \in Nat /\ m <= Len(cs)
  BY <1>1, EncodesFacts
<1>3. byte_index(s, m) = at[m]
  BY <1>1, <1>2, EncodedIndex
<1>4. First(a, s, at[m]) /\ Rest(b, s, at[m])
  BY <1>3
<1>5. Utf8(a, x) /\ Len(a) = at[m]
  BY <1>1, <1>4, EncodesFront
<1>5a. Utf8(b, y)
  BY <1>1, <1>4, EncodesBack
<1>6. QED
  BY <1>3, <1>5, <1>5a

LEMMA Utf8Facts ==
    ASSUME NEW s, NEW cs, Utf8(s, cs)
    PROVE  /\ s \in Seq(Bytes) /\ cs \in Seq(Chars)
           /\ Text(s) = cs /\ Decoded(s) = cs
           /\ char_count(s) = Len(cs) /\ Len(s) = LINE!Size(cs)
<1>1. PICK at : Encodes(s, cs, at)
  BY DEF Utf8
<1>2. /\ s \in Seq(Bytes) /\ cs \in Seq(Chars) /\ Sums(cs, at) /\ at[Len(cs)] = Len(s)
  BY <1>1, EncodesFacts
<1>3. LINE!Size(cs) = at[Len(cs)]
  BY <1>2, SizeOfSums
<1>4. Text(s) = cs
  BY <1>1, EncodedText
<1>5. Decoded(s) = cs /\ char_count(s) = Len(cs)
  BY <1>1, EncodedDecodes, EncodedCount
<1>6. QED
  BY <1>2, <1>3, <1>4, <1>5

LEMMA Utf8Empty == Utf8(<<>>, <<>>)
BY EmptyEncodes DEF Utf8

LEMMA Utf8One ==
    ASSUME NEW c \in Chars
    PROVE  Utf8(Encoded(c), <<c>>)
BY OneEncodes DEF Utf8

\* Splice replaces the characters between two places.
LEMMA Utf8Splice ==
    ASSUME NEW s, NEW cs, Utf8(s, cs), NEW i \in 0 .. Len(cs), NEW j \in 0 .. Len(cs),
           NEW new, NEW x, Utf8(new, x),
           NEW l, First(l, cs, i), NEW r, Rest(r, cs, j),
           NEW z, z = (l \o x) \o r
    PROVE  Utf8(Splice(s, byte_index(s, i), byte_index(s, j), new), z)
<1>1. PICK a, ar, lr : /\ First(a, s, byte_index(s, i)) /\ Rest(ar, s, byte_index(s, i))
                       /\ Rest(lr, cs, i)
  BY DEF First, Rest
<1>2. PICK b, bl, rl : /\ Rest(b, s, byte_index(s, j)) /\ First(bl, s, byte_index(s, j))
                       /\ First(rl, cs, j)
  BY DEF First, Rest
<1>3. Utf8(a, l)
  BY <1>1, Utf8Cut
<1>4. Utf8(b, r)
  BY <1>2, Utf8Cut
<1>5. PICK an, y : an = a \o new /\ y = l \o x
  OBVIOUS
<1>6. Utf8(an, y)
  BY <1>3, <1>5, Utf8Join
<1>7. PICK t : t = an \o b
  OBVIOUS
<1>8. Utf8(t, z)
  BY <1>4, <1>5, <1>6, <1>7, Utf8Join
<1>9. Splice(s, byte_index(s, i), byte_index(s, j), new) = t
  BY <1>1, <1>2, <1>5, <1>7 DEF Splice, First, Rest
<1>10. QED
  BY <1>8, <1>9

Shows(s, n, l, r) ==
    /\ l \in Seq(Chars) /\ r \in Seq(Chars)
    /\ n = Len(l) /\ Utf8(s, l \o r)

LEMMA ShowsFacts ==
    ASSUME NEW s, NEW n, NEW l, NEW r, Shows(s, n, l, r)
    PROVE  /\ s \in Seq(Bytes) /\ l \in Seq(Chars) /\ r \in Seq(Chars)
           /\ n \in Nat /\ Len(r) \in Nat
           /\ char_count(s) = n + Len(r) /\ Len(s) = LINE!Size(l \o r)
           /\ Decoded(s) = l \o r /\ Text(s) = l \o r
<1>1. PICK cs : cs = l \o r
  OBVIOUS
<1>2. l \in Seq(Chars) /\ r \in Seq(Chars) /\ n = Len(l) /\ Utf8(s, cs)
  BY <1>1 DEF Shows
<1>3. Len(cs) = Len(l) + Len(r)
  BY <1>1, <1>2, ConcatParts
<1>4. n \in Nat /\ Len(r) \in Nat
  BY <1>2
<1>5. QED
  BY <1>1, <1>2, <1>3, <1>4, Utf8Facts

\* The characters the refinement mapping takes for those before and behind.
LEMMA ShowsBoth ==
    ASSUME NEW s, NEW n, NEW l, NEW r, Shows(s, n, l, r),
           NEW p, First(p, s, byte_index(s, n))
    PROVE  Text(p) = l /\ Text(SubSeq(s, Len(p) + 1, Len(s))) = r
<1>1. PICK cs : cs = l \o r
  OBVIOUS
<1>2. l \in Seq(Chars) /\ r \in Seq(Chars) /\ n = Len(l) /\ Utf8(s, cs)
  BY <1>1 DEF Shows
<1>3. n \in 0 .. Len(cs)
  <2>1. Len(cs) = Len(l) + Len(r) /\ Len(l) \in Nat /\ Len(r) \in Nat
    BY <1>1, <1>2, ConcatParts
  <2>2. QED
    BY <1>2, <2>1
<1>4. First(l, cs, n) /\ Rest(r, cs, n)
  BY <1>1, <1>2, CutConcat DEF First, Rest
<1>5. PICK b : Rest(b, s, byte_index(s, n))
  BY DEF Rest
<1>6. Utf8(p, l) /\ Utf8(b, r) /\ Len(p) = byte_index(s, n)
  BY <1>2, <1>3, <1>4, <1>5, Utf8Cut
<1>7. Text(p) = l /\ Text(b) = r
  BY <1>6, Utf8Facts
<1>8. QED
  BY <1>5, <1>6, <1>7 DEF Rest

LEMMA ShowsEmpty == Shows(<<>>, 0, <<>>, <<>>)
<1>1. PICK e : e = <<>>
  OBVIOUS
<1>2. e \in Seq(Chars) /\ Len(e) = 0 /\ Utf8(e, e)
  BY <1>1, Utf8Empty
<1>3. e \o e = e
  BY <1>2, CharsConcat, <1>1
<1>4. QED
  BY <1>1, <1>2, <1>3 DEF Shows

\* What insert, backspace and delete do to the text.
LEMMA ShowsInserted ==
    ASSUME NEW s, NEW n, NEW l, NEW r, Shows(s, n, l, r), NEW c \in Chars,
           NEW t, t = Splice(s, byte_index(s, n), byte_index(s, n), Encoded(c))
    PROVE  Shows(t, n + 1, Append(l, c), r)
<1>1. PICK cs : cs = l \o r
  OBVIOUS
<1>2. l \in Seq(Chars) /\ r \in Seq(Chars) /\ n = Len(l) /\ Utf8(s, cs)
  BY <1>1 DEF Shows
<1>3. First(l, cs, n) /\ Rest(r, cs, n)
  BY <1>1, <1>2, CutConcat DEF First, Rest
<1>4. n \in 0 .. Len(cs) /\ n \in Nat
  <2>1. Len(cs) = Len(l) + Len(r) /\ Len(l) \in Nat /\ Len(r) \in Nat
    BY <1>1, <1>2, ConcatParts
  <2>2. QED
    BY <1>2, <2>1
<1>5. PICK e, x : e = Encoded(c) /\ x = <<c>>
  OBVIOUS
<1>6. Utf8(e, x)
  BY <1>5, Utf8One
<1>7. PICK m : m = Append(l, c)
  OBVIOUS
<1>8. m = l \o x /\ m \in Seq(Chars) /\ Len(m) = n + 1
  BY <1>2, <1>5, <1>7, AppendIsConcat, AppendProperties
<1>9. PICK z : z = (l \o x) \o r
  OBVIOUS
<1>10. Utf8(Splice(s, byte_index(s, n), byte_index(s, n), e), z)
  BY <1>2, <1>3, <1>4, <1>6, <1>9, Utf8Splice
<1>11. Utf8(t, m \o r)
  BY <1>5, <1>8, <1>9, <1>10
<1>12. QED
  BY <1>2, <1>7, <1>8, <1>11 DEF Shows

LEMMA ShowsRemoved ==
    ASSUME NEW s, NEW cs, Utf8(s, cs), NEW l \in Seq(Chars), NEW r \in Seq(Chars),
           NEW i \in 0 .. Len(cs), NEW j \in 0 .. Len(cs),
           First(l, cs, i), Rest(r, cs, j), Len(l) = i,
           NEW t, t = Splice(s, byte_index(s, i), byte_index(s, j), <<>>)
    PROVE  Shows(t, i, l, r)
<1>1. PICK x : x = <<>>
  OBVIOUS
<1>2. Utf8(x, x)
  BY <1>1, Utf8Empty
<1>3. PICK z : z = (l \o x) \o r
  OBVIOUS
<1>4. Utf8(Splice(s, byte_index(s, i), byte_index(s, j), x), z)
  BY <1>2, <1>3, Utf8Splice
<1>5. z = l \o r
  BY <1>1, <1>3, CharsConcat
<1>6. QED
  BY <1>1, <1>4, <1>5 DEF Shows

LEMMA ShowsBackspaced ==
    ASSUME NEW s, NEW n, NEW l, NEW r, Shows(s, n, l, r), n # 0,
           NEW t, t = Splice(s, byte_index(s, n - 1), byte_index(s, n), <<>>)
    PROVE  l # <<>> /\ Shows(t, n - 1, Front(l), r)
<1>1. PICK cs : cs = l \o r
  OBVIOUS
<1>2. l \in Seq(Chars) /\ r \in Seq(Chars) /\ n = Len(l) /\ Utf8(s, cs)
  BY <1>1 DEF Shows
<1>3. l # <<>>
  BY <1>2
<1>4. PICK f, q : f = Front(l) /\ q = <<Last(l)>> \o r
  OBVIOUS
<1>5. f \in Seq(Chars) /\ q \in Seq(Chars) /\ Len(f) = n - 1 /\ cs = f \o q
  BY <1>1, <1>2, <1>3, <1>4, PassRight
<1>6. First(f, cs, n - 1)
  BY <1>5, CutConcat DEF First
<1>7. Rest(r, cs, n)
  BY <1>1, <1>2, CutConcat DEF Rest
<1>8. n \in 0 .. Len(cs) /\ n - 1 \in 0 .. Len(cs)
  <2>1. Len(cs) = Len(l) + Len(r) /\ Len(l) \in Nat /\ Len(r) \in Nat
    BY <1>1, <1>2, ConcatParts
  <2>2. QED
    BY <1>2, <2>1
<1>9. PICK k : k = n - 1
  OBVIOUS
<1>10. Shows(t, k, f, r)
  BY <1>2, <1>5, <1>6, <1>7, <1>8, <1>9, ShowsRemoved
<1>11. QED
  BY <1>3, <1>4, <1>9, <1>10

LEMMA ShowsDeleted ==
    ASSUME NEW s, NEW n, NEW l, NEW r, Shows(s, n, l, r), n # char_count(s),
           NEW t, t = Splice(s, byte_index(s, n), byte_index(s, n + 1), <<>>)
    PROVE  r # <<>> /\ Shows(t, n, l, Tail(r))
<1>1. PICK cs : cs = l \o r
  OBVIOUS
<1>2. l \in Seq(Chars) /\ r \in Seq(Chars) /\ n = Len(l) /\ Utf8(s, cs)
  BY <1>1 DEF Shows
<1>3. r # <<>>
  <2>1. char_count(s) = n + Len(r) /\ n \in Nat
    BY ShowsFacts
  <2>2. Len(r) # 0
    BY <2>1
  <2>3. QED
    BY <2>2
<1>4. PICK g, q : g = Append(l, Head(r)) /\ q = Tail(r)
  OBVIOUS
<1>5. g \in Seq(Chars) /\ q \in Seq(Chars) /\ Len(g) = n + 1 /\ cs = g \o q
  BY <1>1, <1>2, <1>3, <1>4, PassLeft
<1>6. First(l, cs, n)
  BY <1>1, <1>2, CutConcat DEF First
<1>7. Rest(q, cs, n + 1)
  BY <1>5, CutConcat DEF Rest
<1>8. n \in 0 .. Len(cs) /\ n + 1 \in 0 .. Len(cs)
  <2>1. g \in Seq(Chars) /\ q \in Seq(Chars) /\ cs = g \o q
    BY <1>5
  <2>2. Len(cs) = Len(g) + Len(q) /\ Len(g) \in Nat /\ Len(q) \in Nat
    BY <2>1, ConcatParts
  <2>3. n \in Nat /\ Len(g) = n + 1
    BY <1>2, <1>5
  <2>4. QED
    BY <2>2, <2>3
<1>9. PICK k : k = n + 1
  OBVIOUS
<1>10. Shows(t, n, l, q)
  BY <1>2, <1>5, <1>6, <1>7, <1>8, <1>9, ShowsRemoved
<1>11. QED
  BY <1>3, <1>4, <1>10

\* Moving the cursor leaves the text as it is.
LEMMA ShowsMoved ==
    ASSUME NEW s, NEW n, NEW l, NEW r, Shows(s, n, l, r)
    PROVE  /\ Shows(s, 0, <<>>, l \o r)
           /\ Shows(s, char_count(s), l \o r, <<>>)
           /\ n # 0 => l # <<>> /\ Shows(s, n - 1, Front(l), <<Last(l)>> \o r)
           /\ n # char_count(s) => r # <<>> /\ Shows(s, n + 1, Append(l, Head(r)), Tail(r))
<1>1. PICK cs : cs = l \o r
  OBVIOUS
<1>2. l \in Seq(Chars) /\ r \in Seq(Chars) /\ n = Len(l) /\ Utf8(s, cs)
  BY <1>1 DEF Shows
<1>3. cs \in Seq(Chars) /\ Len(cs) = Len(l) + Len(r) /\ Len(r) \in Nat /\ n \in Nat
  BY <1>1, <1>2, ConcatParts
<1>4. char_count(s) = Len(cs)
  BY <1>2, Utf8Facts
<1>5. PICK e : e \in Seq(Chars) /\ e = <<>>
  <2>1. <<>> \in Seq(Chars)
    OBVIOUS
  <2>2. QED
    BY <2>1
<1>6. cs \o e = cs /\ e \o cs = cs /\ Len(e) = 0
  BY <1>3, <1>5, CharsConcat
<1>7. Shows(s, 0, e, cs) /\ Shows(s, char_count(s), cs, e)
  BY <1>2, <1>3, <1>4, <1>6 DEF Shows
<1>8. ASSUME n # 0 PROVE l # <<>> /\ Shows(s, n - 1, Front(l), <<Last(l)>> \o r)
  <2>1. l # <<>>
    BY <1>2, <1>8
  <2>2. PICK f, q : f = Front(l) /\ q = <<Last(l)>> \o r
    OBVIOUS
  <2>3. f \in Seq(Chars) /\ q \in Seq(Chars) /\ Len(f) = n - 1 /\ cs = f \o q
    BY <1>1, <1>2, <2>1, <2>2, PassRight
  <2>4. Shows(s, n - 1, f, q)
    BY <1>2, <2>3 DEF Shows
  <2>5. QED
    BY <2>1, <2>2, <2>4
<1>9. ASSUME n # char_count(s)
      PROVE  r # <<>> /\ Shows(s, n + 1, Append(l, Head(r)), Tail(r))
  <2>1. r # <<>>
    <3>1. Len(r) # 0
      BY <1>2, <1>3, <1>4, <1>9
    <3>2. QED
      BY <3>1
  <2>2. PICK g, q : g = Append(l, Head(r)) /\ q = Tail(r)
    OBVIOUS
  <2>3. g \in Seq(Chars) /\ q \in Seq(Chars) /\ Len(g) = n + 1 /\ cs = g \o q
    BY <1>1, <1>2, <2>1, <2>2, PassLeft
  <2>4. Shows(s, n + 1, g, q)
    BY <1>2, <2>3 DEF Shows
  <2>5. QED
    BY <2>1, <2>2, <2>4
<1>10. QED
  BY <1>1, <1>5, <1>7, <1>8, <1>9

\* The order does not matter to what a line takes.
LEMMA SizeOfLine ==
    ASSUME NEW p \in Seq(Chars), NEW l \in Seq(Chars), NEW r \in Seq(Chars)
    PROVE  /\ LINE!Size((l \o p) \o r) \in Nat
           /\ LINE!Size((p \o l) \o r) = LINE!Size((l \o p) \o r)
<1>1. PICK a, b : a = l \o p /\ b = p \o l
  OBVIOUS
<1>2. a \in Seq(Chars) /\ b \in Seq(Chars)
  BY <1>1, CharsConcat
<1>3. /\ LINE!Size(l) \in Nat /\ LINE!Size(p) \in Nat
      /\ LINE!Size(a) = LINE!Size(l) + LINE!Size(p)
      /\ LINE!Size(b) = LINE!Size(p) + LINE!Size(l)
  BY <1>1, SizeJoin
<1>4. PICK x, y : x = a \o r /\ y = b \o r
  OBVIOUS
<1>5. /\ LINE!Size(r) \in Nat
      /\ LINE!Size(x) = LINE!Size(a) + LINE!Size(r)
      /\ LINE!Size(y) = LINE!Size(b) + LINE!Size(r)
  BY <1>2, <1>4, SizeJoin
<1>6. LINE!Size(y) = LINE!Size(x) /\ LINE!Size(x) \in Nat
  BY <1>3, <1>5
<1>7. QED
  BY <1>1, <1>4, <1>6

LEMMA SizeOfNext ==
    ASSUME NEW l \in Seq(Chars), NEW r \in Seq(Chars), NEW p \in Seq(Chars), NEW c \in Chars
    PROVE  LINE!Size((Append(p, c) \o l) \o r) = LINE!Size((l \o p) \o r) + Width[c]
<1>1. PICK x : x = <<c>>
  OBVIOUS
<1>1a. x \in Seq(Chars)
  BY <1>1
<1>2. LINE!Size(x) = Width[c] /\ Width[c] \in Nat
  <2>1. LINE!Size(<<c>>) = Width[c]
    BY OneEncodes
  <2>2. Width[c] \in 1 .. 4
    BY EditorAssumption
  <2>3. QED
    BY <1>1, <2>1, <2>2
<1>2a. PICK q : q = Append(p, c)
  OBVIOUS
<1>3. q = Append(p, c) /\ q = p \o x /\ q \in Seq(Chars)
  BY <1>1, <1>2a, AppendIsConcat, AppendProperties
<1>4. LINE!Size(q) = LINE!Size(p) + Width[c] /\ LINE!Size(p) \in Nat
  <2>1. /\ LINE!Size(p) \in Nat /\ LINE!Size(x) \in Nat
        /\ LINE!Size(q) = LINE!Size(p) + LINE!Size(x)
    BY <1>1a, <1>3, SizeJoin
  <2>2. QED
    BY <1>2, <2>1
<1>5. PICK a, b : a = q \o l /\ b = l \o p
  OBVIOUS
<1>6. a \in Seq(Chars) /\ b \in Seq(Chars)
  BY <1>3, <1>5, CharsConcat
<1>7. /\ LINE!Size(l) \in Nat
      /\ LINE!Size(a) = LINE!Size(q) + LINE!Size(l)
      /\ LINE!Size(b) = LINE!Size(l) + LINE!Size(p)
  BY <1>3, <1>5, SizeJoin
<1>8. PICK y, z : y = a \o r /\ z = b \o r
  OBVIOUS
<1>9. /\ LINE!Size(r) \in Nat
      /\ LINE!Size(y) = LINE!Size(a) + LINE!Size(r)
      /\ LINE!Size(z) = LINE!Size(b) + LINE!Size(r)
  BY <1>6, <1>8, SizeJoin
<1>10. LINE!Size(y) = LINE!Size(z) + Width[c]
  BY <1>2, <1>4, <1>7, <1>9
<1>11. QED
  BY <1>3, <1>5, <1>8, <1>10

-----------------------------------------------------------------------------
(* Pasting and what is printable are folds.                                *)

\* Printable keeps the characters that are not control characters.
LEMMA PrintableFolds ==
    ASSUME NEW s \in Seq(Chars)
    PROVE  \E v : /\ v[0] = <<>>
                  /\ \A m \in 1 .. Len(s) :
                        v[m] = IF s[m] \in Controls THEN v[m - 1] ELSE Append(v[m - 1], s[m])
                  /\ LINE!Printable(s) = v[Len(s)]
<1> DEFINE N == Len(s)
           F == [e \in Seq(Chars) \X Chars |-> IF e[2] \in Controls
                                               THEN e[1] ELSE Append(e[1], e[2])]
           Step(h) == [I \in SUBSET DOMAIN s |->
                          IF I = {} THEN <<>>
                          ELSE IF s[Max(I)] \in Controls
                               THEN h[I \ {Max(I)}] ELSE Append(h[I \ {Max(I)}], s[Max(I)])]
           g == CHOOSE h : h = Step(h)
<1>1. N \in Nat /\ DOMAIN s = 1 .. N /\ s \in [1 .. N -> Chars]
  OBVIOUS
<1>2. F \in [Seq(Chars) \X Chars -> Seq(Chars)] /\ <<>> \in Seq(Chars)
  <2>1. ASSUME NEW e \in Seq(Chars) \X Chars PROVE F[e] \in Seq(Chars)
    <3>1. e[1] \in Seq(Chars) /\ e[2] \in Chars
      OBVIOUS
    <3>2. Append(e[1], e[2]) \in Seq(Chars)
      BY <3>1, AppendProperties
    <3>3. QED
      BY <3>1, <3>2
  <2>2. QED
    BY <2>1
<1> HIDE DEF F, N
<1>3. PICK h \in [SUBSET (1 .. N) -> Seq(Chars)] : IsFold(h, F, <<>>, s, N)
  <2>1. HasFold(Seq(Chars), F, <<>>, s, N)
    BY <1>1, <1>2, FoldExists
  <2>2. QED
    BY <2>1 DEF HasFold
<1>4. h = Step(h)
  <2>1. ASSUME NEW I \in SUBSET DOMAIN s, I # {}
        PROVE  h[I] = IF s[Max(I)] \in Controls
                      THEN h[I \ {Max(I)}] ELSE Append(h[I \ {Max(I)}], s[Max(I)])
    <3>1. Max(I) \in 1 .. N /\ I \ {Max(I)} \in SUBSET (1 .. N)
      BY <1>1, <2>1, MaxInInterval
    <3>2. h[I] = F[<<h[I \ {Max(I)}], s[Max(I)]>>]
      BY <1>1, <1>3, <2>1 DEF IsFold
    <3>3. h[I \ {Max(I)}] \in Seq(Chars) /\ s[Max(I)] \in Chars
      BY <1>1, <1>3, <3>1
    <3>4. QED
      BY <3>2, <3>3 DEF F
  <2>2. h[{}] = <<>> /\ h = [I \in SUBSET DOMAIN s |-> h[I]]
    BY <1>1, <1>3 DEF IsFold
  <2>3. QED
    BY <2>1, <2>2
<1>5. g = Step(g)
  BY <1>4
<1>6. LINE!Printable(s) = g[DOMAIN s]
  BY DEF LINE!Printable, LINE!FoldLeft, LINE!MapThenFoldSet, LINE!Max, Max
<1> HIDE DEF g
<1>7. g[{}] = <<>>
  BY <1>5
<1>8. ASSUME NEW m \in 1 .. N
      PROVE  g[1 .. m] = IF s[m] \in Controls
                         THEN g[1 .. m - 1] ELSE Append(g[1 .. m - 1], s[m])
  <2>1. Max(1 .. m) = m /\ (1 .. m) \ {m} = 1 .. m - 1 /\ 1 .. m # {}
    BY LastPosition
  <2>2. 1 .. m \in SUBSET DOMAIN s
    BY <1>1
  <2>3. QED
    BY <1>5, <2>1, <2>2
<1> DEFINE v == [m \in 0 .. N |-> g[1 .. m]]
<1>9. v[0] = <<>>
  <2>1. 1 .. 0 = {}
    OBVIOUS
  <2>2. QED
    BY <1>1, <1>7, <2>1
<1>10. \A m \in 1 .. N : v[m] = IF s[m] \in Controls THEN v[m - 1] ELSE Append(v[m - 1], s[m])
  BY <1>1, <1>8
<1>11. v[N] = g[DOMAIN s]
  BY <1>1
<1> HIDE DEF v
<1>12. QED
  BY <1>6, <1>9, <1>10, <1>11 DEF N

\* The line while a text is pasted.
Lines ==
    {e \in [text : Seq(Bytes), cursor : Nat, complete : BOOLEAN] :
        \E l, r : Shows(e.text, e.cursor, l, r)}

LEMMA TypedIsLine ==
    ASSUME NEW e \in Lines, NEW c \in Chars
    PROVE  Typed(e, c) \in Lines
<1>1. PICK l, r : Shows(e.text, e.cursor, l, r)
  BY DEF Lines
<1>2. e \in [text : Seq(Bytes), cursor : Nat, complete : BOOLEAN]
  BY DEF Lines
<1>3. CASE Room(e, c)
  <2>1. PICK i : i = Inserted(e, c)
    OBVIOUS
  <2>2. PICK t : t = Splice(e.text, byte_index(e.text, e.cursor), byte_index(e.text, e.cursor),
                            Encoded(c))
    OBVIOUS
  <2>3. Shows(t, e.cursor + 1, Append(l, c), r)
    BY <1>1, <2>2, ShowsInserted
  <2>4. t \in Seq(Bytes) /\ e.cursor + 1 \in Nat
    BY <2>3, ShowsFacts
  <2>5. i = [text |-> t, cursor |-> e.cursor + 1, complete |-> e.complete]
    BY <2>1, <2>2 DEF Inserted
  <2>6. i.text = t /\ i.cursor = e.cursor + 1
    BY <2>5
  <2>7. i \in [text : Seq(Bytes), cursor : Nat, complete : BOOLEAN]
    BY <1>2, <2>4, <2>5
  <2>8. i \in Lines
    BY <2>3, <2>6, <2>7 DEF Lines
  <2>9. QED
    BY <1>3, <2>1, <2>8 DEF Typed
<1>4. CASE ~Room(e, c)
  <2>1. PICK i : i = [e EXCEPT !.complete = FALSE]
    OBVIOUS
  <2>2. i.text = e.text /\ i.cursor = e.cursor
        /\ i \in [text : Seq(Bytes), cursor : Nat, complete : BOOLEAN]
    BY <1>2, <2>1
  <2>3. i \in Lines
    BY <1>1, <2>2 DEF Lines
  <2>4. QED
    BY <1>4, <2>1, <2>3 DEF Typed
<1>5. QED
  BY <1>3, <1>4

LEMMA CurrentIsLine ==
    ASSUME NEW l, NEW r, Shows(text, cursor, l, r)
    PROVE  Current \in Lines
<1>1. text \in Seq(Bytes) /\ cursor \in Nat
  BY ShowsFacts
<1>2. Current.text = text /\ Current.cursor = cursor
      /\ Current \in [text : Seq(Bytes), cursor : Nat, complete : BOOLEAN]
  BY <1>1 DEF Current
<1>3. QED
  BY <1>2 DEF Lines

LEMMA PastedFolds ==
    ASSUME NEW s \in Seq(Chars), Current \in Lines
    PROVE  \E v : /\ v[0] = Current
                  /\ \A m \in 1 .. Len(s) :
                        v[m] = IF v[m - 1].complete /\ s[m] \notin Controls
                               THEN Typed(v[m - 1], s[m]) ELSE v[m - 1]
                  /\ Pasted(s) = v[Len(s)]
<1> DEFINE N == Len(s)
           F == [e \in Lines \X Chars |-> IF e[1].complete /\ e[2] \notin Controls
                                          THEN Typed(e[1], e[2]) ELSE e[1]]
           Step(h) == [I \in SUBSET DOMAIN s |->
                          IF I = {} THEN Current
                          ELSE IF h[I \ {Max(I)}].complete /\ s[Max(I)] \notin Controls
                               THEN Typed(h[I \ {Max(I)}], s[Max(I)]) ELSE h[I \ {Max(I)}]]
           g == CHOOSE h : h = Step(h)
<1>1. N \in Nat /\ DOMAIN s = 1 .. N /\ s \in [1 .. N -> Chars]
  OBVIOUS
<1>2. F \in [Lines \X Chars -> Lines] /\ Current \in Lines
  <2>1. ASSUME NEW e \in Lines \X Chars PROVE F[e] \in Lines
    <3>1. e[1] \in Lines /\ e[2] \in Chars
      OBVIOUS
    <3>2. Typed(e[1], e[2]) \in Lines
      BY <3>1, TypedIsLine
    <3>3. QED
      BY <3>1, <3>2
  <2>2. F = [e \in Lines \X Chars |-> F[e]]
    OBVIOUS
  <2> HIDE DEF F
  <2>3. QED
    BY <2>1, <2>2
<1> HIDE DEF F, N
<1>3. PICK h \in [SUBSET (1 .. N) -> Lines] : IsFold(h, F, Current, s, N)
  <2>1. HasFold(Lines, F, Current, s, N)
    BY <1>1, <1>2, FoldExists
  <2>2. QED
    BY <2>1 DEF HasFold
<1>4. h = Step(h)
  <2>1. ASSUME NEW I \in SUBSET DOMAIN s, I # {}
        PROVE  h[I] = IF h[I \ {Max(I)}].complete /\ s[Max(I)] \notin Controls
                      THEN Typed(h[I \ {Max(I)}], s[Max(I)]) ELSE h[I \ {Max(I)}]
    <3>1. Max(I) \in 1 .. N /\ I \ {Max(I)} \in SUBSET (1 .. N)
      BY <1>1, <2>1, MaxInInterval
    <3>2. h[I] = F[<<h[I \ {Max(I)}], s[Max(I)]>>]
      BY <1>1, <1>3, <2>1 DEF IsFold
    <3>3. h[I \ {Max(I)}] \in Lines /\ s[Max(I)] \in Chars
      BY <1>1, <1>3, <3>1
    <3>4. QED
      BY <3>2, <3>3 DEF F
  <2>2. h[{}] = Current /\ h = [I \in SUBSET DOMAIN s |-> h[I]]
    BY <1>1, <1>3 DEF IsFold
  <2>3. QED
    BY <2>1, <2>2
<1>5. g = Step(g)
  BY <1>4
<1>6. Pasted(s) = g[DOMAIN s]
  BY DEF Pasted, FoldLeft, MapThenFoldSet
<1> HIDE DEF g
<1>7. g[{}] = Current
  BY <1>5
<1>8. ASSUME NEW m \in 1 .. N
      PROVE  g[1 .. m] = IF g[1 .. m - 1].complete /\ s[m] \notin Controls
                         THEN Typed(g[1 .. m - 1], s[m]) ELSE g[1 .. m - 1]
  <2>1. Max(1 .. m) = m /\ (1 .. m) \ {m} = 1 .. m - 1 /\ 1 .. m # {}
    BY LastPosition
  <2>2. PICK I, J : I = 1 .. m /\ J = 1 .. m - 1
    OBVIOUS
  <2>3. I \in SUBSET DOMAIN s /\ I # {} /\ Max(I) = m /\ I \ {Max(I)} = J
    BY <1>1, <2>1, <2>2
  <2>4. g[I] = IF g[I \ {Max(I)}].complete /\ s[Max(I)] \notin Controls
               THEN Typed(g[I \ {Max(I)}], s[Max(I)])
               ELSE g[I \ {Max(I)}]
    BY <1>5, <2>3
  <2>5. QED
    BY <2>2, <2>3, <2>4
<1> DEFINE v == [m \in 0 .. N |-> g[1 .. m]]
<1>9. v[0] = Current
  <2>1. 1 .. 0 = {}
    OBVIOUS
  <2>2. QED
    BY <1>1, <1>7, <2>1
<1>10. \A m \in 1 .. N : v[m] = IF v[m - 1].complete /\ s[m] \notin Controls
                                THEN Typed(v[m - 1], s[m]) ELSE v[m - 1]
  BY <1>1, <1>8
<1>11. v[N] = g[DOMAIN s]
  BY <1>1
<1> HIDE DEF v
<1>12. QED
  BY <1>6, <1>9, <1>10, <1>11 DEF N

-----------------------------------------------------------------------------
(* A paste takes as much as fits.                                          *)

LEMMA FirstFacts ==
    ASSUME NEW w \in Seq(Chars), NEW k \in 0 .. Len(w), NEW p, First(p, w, k)
    PROVE  p \in Seq(Chars) /\ Len(p) = k /\ \A i \in 1 .. k : p[i] = w[i]
<1>1. \A i \in 1 .. k : w[i] \in Chars
  OBVIOUS
<1>2. QED
  BY <1>1, SubSeqProperties DEF First

\* What comes behind changes nothing in front.
LEMMA FirstOfAppend ==
    ASSUME NEW w \in Seq(Chars), NEW c \in Chars, NEW k \in 0 .. Len(w), NEW p, First(p, w, k),
           NEW z, z = Append(w, c)
    PROVE  First(p, z, k)
<1>1. PICK q : First(q, z, k)
  BY DEF First
<1>2. z \in Seq(Chars) /\ Len(z) = Len(w) + 1 /\ \A i \in 1 .. Len(w) : z[i] = w[i]
  BY AppendProperties
<1>3. Len(w) \in Nat
  OBVIOUS
<1>4. k \in 0 .. Len(z)
  BY <1>2, <1>3
<1>5. p \in Seq(Chars) /\ Len(p) = k /\ \A i \in 1 .. k : p[i] = w[i]
  BY FirstFacts
<1>6. q \in Seq(Chars) /\ Len(q) = k /\ \A i \in 1 .. k : q[i] = z[i]
  BY <1>1, <1>2, <1>4, FirstFacts
<1>7. \A i \in 1 .. Len(p) : p[i] = q[i]
  BY <1>2, <1>3, <1>5, <1>6
<1>8. p = q
  BY <1>5, <1>6, <1>7, SeqEqual
<1>9. QED
  BY <1>1, <1>8

TooMuch(q, l, r) == ~(LINE!Size((q \o l) \o r) <= MAX_INPUT_BYTES)

\* Of the characters w, which were to be printed between l and r, the first k
\* are in the line: all of them, or the next did not fit.
PastedTo(e, w, l, r, k, p) ==
    /\ First(p, w, k) /\ p \in Seq(Chars) /\ Len(p) = k
    /\ Shows(e.text, e.cursor, l \o p, r)
    /\ k = 0 \/ ~TooMuch(p, l, r)
    /\ e.complete => k = Len(w)
    /\ ~e.complete => k < Len(w) /\ \E q : First(q, w, k + 1) /\ TooMuch(q, l, r)
Pasting(e, w, l, r) == \E k \in 0 .. Len(w) : \E p : PastedTo(e, w, l, r, k, p)

LEMMA PastingStarts ==
    ASSUME NEW l, NEW r, Shows(text, cursor, l, r)
    PROVE  Pasting(Current, <<>>, l, r)
<1>1. PICK w : w = <<>>
  OBVIOUS
<1>2. w \in Seq(Chars) /\ Len(w) = 0
  BY <1>1
<1>3. SubSeq(w, 1, 0) = <<>>
  BY <1>2, SubSeqEmpty
<1>3a. First(w, w, 0)
  BY <1>1, <1>3 DEF First
<1>4. l \in Seq(Chars)
  BY ShowsFacts
<1>5. l \o w = l
  BY <1>1, <1>4, CharsConcat
<1>6. Current.text = text /\ Current.cursor = cursor /\ Current.complete
  BY DEF Current
<1>7. Shows(Current.text, Current.cursor, l \o w, r)
  BY <1>5, <1>6
<1>8. PastedTo(Current, w, l, r, 0, w)
  BY <1>2, <1>3a, <1>6, <1>7 DEF PastedTo
<1>9. 0 \in 0 .. Len(w)
  BY <1>2
<1>10. Pasting(Current, w, l, r)
  BY <1>8, <1>9 DEF Pasting
<1>11. QED
  BY <1>1, <1>10

LEMMA PastingTyped ==
    ASSUME NEW e \in Lines, NEW w \in Seq(Chars), NEW l \in Seq(Chars), NEW r \in Seq(Chars),
           NEW c \in Chars, c \notin Controls, e.complete,
           NEW k \in 0 .. Len(w), NEW p, PastedTo(e, w, l, r, k, p),
           NEW z, z = Append(w, c), NEW f, f = Typed(e, c)
    PROVE  Pasting(f, z, l, r)
<1>1. /\ First(p, w, k) /\ p \in Seq(Chars) /\ Len(p) = k
      /\ Shows(e.text, e.cursor, l \o p, r) /\ k = Len(w)
  BY DEF PastedTo
<1>2. p = w
  <2>1. SubSeq(w, 1, Len(w)) = w
    BY SubSeqFull
  <2>2. QED
    BY <1>1, <2>1 DEF First
<1>3. z \in Seq(Chars) /\ Len(z) = k + 1 /\ k \in Nat /\ Len(z) \in Nat
  <2>1. z \in Seq(Chars) /\ Len(z) = Len(w) + 1
    BY AppendProperties
  <2>2. Len(w) \in Nat
    OBVIOUS
  <2>3. QED
    BY <1>1, <2>1, <2>2
<1>4. First(z, z, k + 1)
  <2>1. SubSeq(z, 1, Len(z)) = z
    BY <1>3, SubSeqFull
  <2>2. QED
    BY <1>3, <2>1 DEF First
<1>5. Len(e.text) = LINE!Size((l \o p) \o r)
  BY <1>1, ShowsFacts
<1>6. /\ LINE!Size((z \o l) \o r) = Len(e.text) + Width[c]
  BY <1>2, <1>5, SizeOfNext
<1>7. e \in [text : Seq(Bytes), cursor : Nat, complete : BOOLEAN]
  BY DEF Lines
<1>8. CASE Room(e, c)
  <2>1. f = Inserted(e, c)
    BY <1>8 DEF Typed
  <2>2. PICK t : t = Splice(e.text, byte_index(e.text, e.cursor), byte_index(e.text, e.cursor),
                            Encoded(c))
    OBVIOUS
  <2>3. f = [text |-> t, cursor |-> e.cursor + 1, complete |-> e.complete]
    BY <2>1, <2>2 DEF Inserted
  <2>4. f.text = t /\ f.cursor = e.cursor + 1 /\ f.complete
    BY <2>3
  <2>5. Shows(t, e.cursor + 1, Append(l \o p, c), r)
    BY <1>1, <2>2, ShowsInserted
  <2>6. Append(l \o p, c) = l \o z
    <3>1. p \in Seq(Chars) /\ l \in Seq(Chars)
      BY <1>1
    <3>2. QED
      BY <1>2, <3>1, AppendBehind
  <2>7. Shows(f.text, f.cursor, l \o z, r)
    BY <2>4, <2>5, <2>6
  <2>8. ~TooMuch(z, l, r)
    BY <1>6, <1>8 DEF Room, TooMuch
  <2>9. PastedTo(f, z, l, r, k + 1, z)
    BY <1>3, <1>4, <2>4, <2>7, <2>8 DEF PastedTo
  <2>10. k + 1 \in 0 .. Len(z)
    BY <1>3
  <2>11. QED
    BY <2>9, <2>10 DEF Pasting
<1>9. CASE ~Room(e, c)
  <2>1. f = [e EXCEPT !.complete = FALSE]
    BY <1>9 DEF Typed
  <2>2. f.text = e.text /\ f.cursor = e.cursor /\ ~f.complete
    BY <1>7, <2>1
  <2>3. TooMuch(z, l, r)
    BY <1>6, <1>9 DEF Room, TooMuch
  <2>4. First(p, z, k)
    BY <1>1, FirstOfAppend
  <2>5. k = 0 \/ ~TooMuch(p, l, r)
    BY DEF PastedTo
  <2>6. k < Len(z) /\ k \in 0 .. Len(z)
    BY <1>3
  <2>7. PastedTo(f, z, l, r, k, p)
    BY <1>1, <1>4, <2>2, <2>3, <2>4, <2>5, <2>6 DEF PastedTo
  <2>8. QED
    BY <2>6, <2>7 DEF Pasting
<1>10. QED
  BY <1>8, <1>9

\* One character of the clipboard, in the line and in what is to be printed.
PastedOn(e, c) == IF e.complete /\ c \notin Controls THEN Typed(e, c) ELSE e
PrintedOn(w, c) == IF c \in Controls THEN w ELSE Append(w, c)

LEMMA PastingStep ==
    ASSUME NEW e \in Lines, NEW w \in Seq(Chars), NEW l \in Seq(Chars), NEW r \in Seq(Chars),
           Pasting(e, w, l, r), NEW c \in Chars,
           NEW z, z = PrintedOn(w, c), NEW f, f = PastedOn(e, c)
    PROVE  z \in Seq(Chars) /\ f \in Lines /\ Pasting(f, z, l, r)
<1>1. z \in Seq(Chars) /\ f \in Lines
  BY AppendProperties, TypedIsLine DEF PastedOn, PrintedOn
<1>2a. PICK k \in 0 .. Len(w) : \E p : PastedTo(e, w, l, r, k, p)
  BY DEF Pasting
<1>2. PICK p : PastedTo(e, w, l, r, k, p)
  BY <1>2a
<1>3. CASE c \in Controls
  <2>1. z = w /\ f = e
    BY <1>3 DEF PastedOn, PrintedOn
  <2>2. QED
    BY <1>1, <2>1
<1>4. CASE c \notin Controls /\ e.complete
  <2>1. z = Append(w, c) /\ f = Typed(e, c)
    BY <1>4 DEF PastedOn, PrintedOn
  <2>2. QED
    BY <1>1, <1>2, <1>4, <2>1, PastingTyped
<1>5. CASE c \notin Controls /\ ~e.complete
  <2>1. z = Append(w, c) /\ f = e
    BY <1>5 DEF PastedOn, PrintedOn
  <2>2. Len(w) \in Nat /\ Len(z) = Len(w) + 1
    BY <2>1, AppendProperties
  <2>3. /\ First(p, w, k) /\ p \in Seq(Chars) /\ Len(p) = k
        /\ Shows(e.text, e.cursor, l \o p, r)
        /\ k = 0 \/ ~TooMuch(p, l, r)
        /\ k < Len(w)
    BY <1>2, <1>5 DEF PastedTo
  <2>4. PICK q : First(q, w, k + 1) /\ TooMuch(q, l, r)
    BY <1>2, <1>5 DEF PastedTo
  <2>5. k + 1 \in 0 .. Len(w) /\ k < Len(z) /\ k \in 0 .. Len(z)
    BY <2>2, <2>3
  <2>6. First(p, z, k)
    BY <2>1, <2>3, FirstOfAppend
  <2>7. First(q, z, k + 1)
    BY <2>1, <2>4, <2>5, FirstOfAppend
  <2>8. PastedTo(f, z, l, r, k, p)
    BY <1>5, <2>1, <2>3, <2>4, <2>5, <2>6, <2>7 DEF PastedTo
  <2>9. Pasting(f, z, l, r)
    BY <2>5, <2>8 DEF Pasting
  <2>10. QED
    BY <1>1, <2>9
<1>6. QED
  BY <1>3, <1>4, <1>5

\* insert_text enters what is to be printed, as far as it fits.
LEMMA PastedEnters ==
    ASSUME NEW s \in Seq(Chars), NEW l, NEW r, Shows(text, cursor, l, r)
    PROVE  Pasted(s) \in Lines /\ LINE!Printable(s) \in Seq(Chars)
           /\ Pasting(Pasted(s), LINE!Printable(s), l, r)
<1>1. Current \in Lines /\ Pasting(Current, <<>>, l, r) /\ l \in Seq(Chars) /\ r \in Seq(Chars)
  BY CurrentIsLine, PastingStarts, ShowsFacts
<1>2. PICK v : /\ v[0] = Current
               /\ \A m \in 1 .. Len(s) :
                     v[m] = IF v[m - 1].complete /\ s[m] \notin Controls
                            THEN Typed(v[m - 1], s[m]) ELSE v[m - 1]
               /\ Pasted(s) = v[Len(s)]
  BY <1>1, PastedFolds
<1>3. PICK w : /\ w[0] = <<>>
               /\ \A m \in 1 .. Len(s) :
                     w[m] = IF s[m] \in Controls THEN w[m - 1] ELSE Append(w[m - 1], s[m])
               /\ LINE!Printable(s) = w[Len(s)]
  BY PrintableFolds
<1>4. Len(s) \in Nat
  OBVIOUS
<1> DEFINE Good(m) == v[m] \in Lines /\ w[m] \in Seq(Chars) /\ Pasting(v[m], w[m], l, r)
           Bad == {m \in 0 .. Len(s) : ~Good(m)}
<1>5. Good(0)
  <2>1. <<>> \in Seq(Chars)
    OBVIOUS
  <2>2. QED
    BY <1>1, <1>2, <1>3, <2>1
<1>6. ASSUME Bad # {} PROVE FALSE
  <2>1. PICK m \in 1 .. Len(s) : m \in Bad /\ m - 1 \notin Bad /\ m - 1 \in 0 .. Len(s)
    <3>1. 0 \notin Bad /\ Bad \in SUBSET (0 .. Len(s))
      BY <1>5
    <3> HIDE DEF Bad
    <3>2. QED
      BY <1>4, <1>6, <3>1, FirstFailure
  <2>2. PICK e, x, f, z : e = v[m - 1] /\ x = w[m - 1] /\ f = v[m] /\ z = w[m]
    OBVIOUS
  <2>3. e \in Lines /\ x \in Seq(Chars) /\ Pasting(e, x, l, r)
    <3>1. Good(m - 1)
      BY <2>1
    <3>2. v[m - 1] \in Lines /\ w[m - 1] \in Seq(Chars) /\ Pasting(v[m - 1], w[m - 1], l, r)
      BY <3>1
    <3>3. QED
      BY <2>2, <3>2
  <2>4. PICK c \in Chars : c = s[m]
    OBVIOUS
  <2>5. f = PastedOn(e, c)
    BY <1>2, <2>2, <2>4 DEF PastedOn
  <2>6. z = PrintedOn(x, c)
    BY <1>3, <2>2, <2>4 DEF PrintedOn
  <2>7. z \in Seq(Chars) /\ f \in Lines /\ Pasting(f, z, l, r)
    BY <1>1, <2>3, <2>5, <2>6, PastingStep
  <2>8. Good(m)
    BY <2>2, <2>7
  <2>9. QED
    BY <2>1, <2>8
<1>7. Len(s) \in 0 .. Len(s)
  BY <1>4
<1>8. Good(Len(s))
  BY <1>6, <1>7
<1>9. QED
  BY <1>2, <1>3, <1>8

-----------------------------------------------------------------------------
(* Every key is a step of LineEditor, or none.                             *)

LEMMA MapNow ==
    ASSUME NEW l, NEW r, Shows(text, cursor, l, r)
    PROVE  Text(Prefix) = l /\ Text(SubSeq(text, Len(Prefix) + 1, Len(text))) = r
<1>1. First(Prefix, text, byte_index(text, cursor))
  BY DEF First, Prefix
<1>2. QED
  BY <1>1, ShowsBoth

LEMMA MapNext ==
    ASSUME NEW l, NEW r, Shows(text', cursor', l, r)
    PROVE  Text(Prefix)' = l /\ Text(SubSeq(text, Len(Prefix) + 1, Len(text)))' = r
<1>1. PICK s, n : s = text' /\ n = cursor'
  OBVIOUS
<1>2. PICK p : First(p, s, byte_index(s, n))
  BY DEF First
<1>3. p = Prefix'
  BY <1>1, <1>2 DEF First, Prefix
<1>4. Shows(s, n, l, r)
  BY <1>1
<1>5. Text(p) = l /\ Text(SubSeq(s, Len(p) + 1, Len(s))) = r
  BY <1>2, <1>4, ShowsBoth
<1>6. QED
  BY <1>1, <1>3, <1>5

LEMMA LineStays ==
    ASSUME NEW l, NEW r, Shows(text, cursor, l, r), Shows(text', cursor', l, r),
           submitted' = submitted
    PROVE  UNCHANGED LINE!lineVars
<1>1. Text(Prefix)' = Text(Prefix)
  BY MapNow, MapNext
<1>2. Text(SubSeq(text, Len(Prefix) + 1, Len(text)))'
          = Text(SubSeq(text, Len(Prefix) + 1, Len(text)))
  BY MapNow, MapNext
<1>3. Text(submitted)' = Text(submitted)
  OBVIOUS
<1>4. QED
  BY <1>1, <1>2, <1>3 DEF LINE!lineVars

LEMMA LineMoves ==
    ASSUME NEW l, NEW r, Shows(text', cursor', l, r), submitted' = submitted
    PROVE  LINE!Moves(l, r)
<1>1. Text(Prefix)' = l /\ Text(SubSeq(text, Len(Prefix) + 1, Len(text)))' = r
  BY MapNext
<1>2. Text(submitted)' = Text(submitted)
  OBVIOUS
<1>3. QED
  BY <1>1, <1>2 DEF LINE!Moves

\* All of w went in, or the next character would have been too much.
AllThatFits(p, w, l, r) == p = w \/ \E q : First(q, w, Len(p) + 1) /\ TooMuch(q, l, r)

\* A prefix that went in, of what was to go in.
LEMMA LineEnters ==
    ASSUME NEW l, NEW r, Shows(text, cursor, l, r), submitted' = submitted,
           NEW w \in Seq(Chars), NEW k \in 0 .. Len(w), NEW p, First(p, w, k),
           Shows(text', cursor', l \o p, r), ~TooMuch(p, l, r),
           AllThatFits(p, w, l, r)
    PROVE  LINE!Enters(w)
<1>1. Text(Prefix) = l /\ Text(SubSeq(text, Len(Prefix) + 1, Len(text))) = r
  BY MapNow
<1>2. Text(Prefix)' = l \o p
  BY MapNext
<1>3. Text(SubSeq(text, Len(Prefix) + 1, Len(text)))' = r
  BY MapNext
<1>4. Text(submitted)' = Text(submitted)
  OBVIOUS
<1>5. p \in LINE!Prefixes(w)
  BY DEF First, LINE!Prefixes
<1>6. LINE!Fits(p)
  BY <1>1 DEF LINE!Fits, TooMuch
<1>7. p = w \/ ~LINE!Fits(SubSeq(w, 1, Len(p) + 1))
  <2>1. ASSUME NEW q, First(q, w, Len(p) + 1), TooMuch(q, l, r)
        PROVE  ~LINE!Fits(SubSeq(w, 1, Len(p) + 1))
    <3>1. q = SubSeq(w, 1, Len(p) + 1)
      BY <2>1 DEF First
    <3>2. ~LINE!Fits(q)
      BY <1>1, <2>1 DEF LINE!Fits, TooMuch
    <3>3. QED
      BY <3>1, <3>2
  <2>2. QED
    BY <2>1 DEF AllThatFits
<1>8. Text(Prefix)' = Text(Prefix) \o p
  BY <1>1, <1>2
<1>9. Text(SubSeq(text, Len(Prefix) + 1, Len(text)))'
          = Text(SubSeq(text, Len(Prefix) + 1, Len(text)))
  BY <1>1, <1>3
<1>10. QED
  BY <1>4, <1>5, <1>6, <1>7, <1>8, <1>9 DEF LINE!Enters

\* What the editor keeps: whole characters, and the cursor between two of them.
EditorShows == \E l, r : Shows(text, cursor, l, r)

LineStep == [LINE!Edits \/ LINE!Submits]_(LINE!lineVars)

LEMMA PasteStep ==
    ASSUME EditorShows, NEW s \in Seq(Chars), Paste(s)
    PROVE  EditorShows' /\ (LINE!Enters(LINE!Printable(s)) \/ UNCHANGED LINE!lineVars)
<1>1. PICK l, r : Shows(text, cursor, l, r)
  BY DEF EditorShows
<1>2. PICK e, w : e = Pasted(s) /\ w = LINE!Printable(s)
  OBVIOUS
<1>3. w \in Seq(Chars) /\ Pasting(e, w, l, r)
  BY <1>1, <1>2, PastedEnters
<1>4a. PICK k \in 0 .. Len(w) : \E p : PastedTo(e, w, l, r, k, p)
  BY <1>3 DEF Pasting
<1>4. PICK p : PastedTo(e, w, l, r, k, p)
  BY <1>4a
<1>5. /\ First(p, w, k) /\ p \in Seq(Chars) /\ Len(p) = k
      /\ Shows(e.text, e.cursor, l \o p, r)
      /\ k = 0 \/ ~TooMuch(p, l, r)
  BY <1>4 DEF PastedTo
<1>6. text' = e.text /\ cursor' = e.cursor /\ submitted' = submitted
  BY <1>2 DEF Paste, Becomes
<1>7. Shows(text', cursor', l \o p, r)
  BY <1>5, <1>6
<1>8. EditorShows'
  BY <1>7 DEF EditorShows
<1>9. l \in Seq(Chars)
  BY <1>1, ShowsFacts
<1>10. CASE TooMuch(p, l, r)
  <2>1. p = <<>>
    BY <1>5, <1>10
  <2>2. l \o p = l
    BY <1>9, <2>1, CharsConcat
  <2>3. Shows(text', cursor', l, r)
    BY <1>7, <2>2
  <2>4. QED
    BY <1>1, <1>6, <1>8, <2>3, LineStays
<1>11. CASE ~TooMuch(p, l, r)
  <2>1. AllThatFits(p, w, l, r)
    <3>1. CASE e.complete
      <4>1. k = Len(w)
        BY <1>4, <3>1 DEF PastedTo
      <4>2. SubSeq(w, 1, Len(w)) = w
        BY <1>3, SubSeqFull
      <4>3. p = w
        BY <1>5, <4>1, <4>2 DEF First
      <4>4. QED
        BY <4>3 DEF AllThatFits
    <3>2. CASE ~e.complete
      <4>1. \E q : First(q, w, k + 1) /\ TooMuch(q, l, r)
        BY <1>4, <3>2 DEF PastedTo
      <4>2. QED
        BY <1>5, <4>1 DEF AllThatFits
    <3>3. QED
      BY <3>1, <3>2
  <2>2. LINE!Enters(w)
    BY <1>1, <1>3, <1>5, <1>6, <1>7, <1>11, <2>1, LineEnters
  <2>3. QED
    BY <1>2, <1>8, <2>2
<1>12. QED
  BY <1>10, <1>11

LEMMA OnePrinted ==
    ASSUME NEW c \in Chars
    PROVE  LINE!Printable(<<c>>) = IF c \in Controls THEN <<>> ELSE <<c>>
<1>1. PICK s : s = <<c>>
  OBVIOUS
<1>2. s \in Seq(Chars) /\ Len(s) = 1 /\ s[1] = c
  BY <1>1
<1>3. PICK v : /\ v[0] = <<>>
               /\ \A m \in 1 .. Len(s) :
                     v[m] = IF s[m] \in Controls THEN v[m - 1] ELSE Append(v[m - 1], s[m])
               /\ LINE!Printable(s) = v[Len(s)]
  BY <1>2, PrintableFolds
<1>4. v[1] = IF s[1] \in Controls THEN v[1 - 1] ELSE Append(v[1 - 1], s[1])
  <2>1. \A m \in 1 .. Len(s) :
            v[m] = IF s[m] \in Controls THEN v[m - 1] ELSE Append(v[m - 1], s[m])
    BY <1>3
  <2>2. 1 \in 1 .. Len(s)
    BY <1>2
  <2>3. QED
    BY <2>1, <2>2
<1>5. v[1] = IF c \in Controls THEN <<>> ELSE Append(<<>>, c)
  <2>1. s[1] = c /\ 1 - 1 = 0 /\ v[0] = <<>>
    BY <1>2, <1>3
  <2>2. v[1 - 1] = <<>>
    BY <2>1
  <2>3. QED
    BY ONLY <1>4, <2>1, <2>2
<1>6. Append(<<>>, c) = <<c>>
  OBVIOUS
<1>7. LINE!Printable(s) = v[1]
  BY <1>2, <1>3
<1>8. QED
  BY <1>1, <1>5, <1>6, <1>7

LEMMA InsertStep ==
    ASSUME EditorShows, NEW c \in Chars, Insert(c)
    PROVE  EditorShows' /\ (LINE!Enters(LINE!Printable(<<c>>)) \/ UNCHANGED LINE!lineVars)
<1>1. PICK l, r : Shows(text, cursor, l, r)
  BY DEF EditorShows
<1>1a. l \in Seq(Chars) /\ r \in Seq(Chars) /\ Len(text) = LINE!Size(l \o r)
  BY <1>1, ShowsFacts
<1>2. PICK e : e = Typed(Current, c)
  OBVIOUS
<1>3. text' = e.text /\ cursor' = e.cursor /\ submitted' = submitted
  BY <1>2 DEF Insert, Becomes
<1>4. CASE ~Room(Current, c)
  <2>1. e = [Current EXCEPT !.complete = FALSE]
    BY <1>2, <1>4 DEF Typed
  <2>2. e.text = text /\ e.cursor = cursor
    BY <2>1 DEF Current
  <2>3. Shows(text', cursor', l, r)
    BY <1>1, <1>3, <2>2
  <2>4. EditorShows'
    BY <2>3 DEF EditorShows
  <2>5. QED
    BY <1>1, <1>3, <2>3, <2>4, LineStays
<1>5. CASE Room(Current, c)
  <2>1. PICK t : t = Splice(text, byte_index(text, cursor), byte_index(text, cursor),
                            Encoded(c))
    OBVIOUS
  <2>2. e.text = t /\ e.cursor = cursor + 1
    BY <1>2, <1>5, <2>1 DEF Typed, Inserted, Current
  <2>3. Shows(t, cursor + 1, Append(l, c), r)
    BY <1>1, <2>1, ShowsInserted
  <2>4. PICK w : w = <<c>>
    OBVIOUS
  <2>5. w \in Seq(Chars) /\ Len(w) = 1
    BY <2>4
  <2>6. Append(l, c) = l \o w
    BY <1>1a, <2>4, AppendIsConcat
  <2>7. Shows(text', cursor', l \o w, r)
    BY <1>3, <2>2, <2>3, <2>6
  <2>8. EditorShows'
    BY <2>7 DEF EditorShows
  <2>9. c \notin Controls /\ Len(text) + Width[c] <= MAX_INPUT_BYTES
    BY <1>5 DEF Room, Current
  <2>10. LINE!Printable(<<c>>) = w
    BY <2>4, <2>9, OnePrinted
  <2>11. ~TooMuch(w, l, r)
    <3>1. PICK x : x = <<>>
      OBVIOUS
    <3>2. x \in Seq(Chars)
      BY <3>1
    <3>3. LINE!Size((Append(x, c) \o l) \o r) = LINE!Size((l \o x) \o r) + Width[c]
      BY <1>1a, <3>2, SizeOfNext
    <3>4. l \o x = l
      BY <1>1a, <3>1, CharsConcat
    <3>5. Append(x, c) = w
      BY <2>4, <3>1
    <3>6. LINE!Size((w \o l) \o r) = Len(text) + Width[c]
      BY <1>1a, <3>3, <3>4, <3>5
    <3>7. QED
      BY <2>9, <3>6 DEF TooMuch
  <2>12. First(w, w, 1) /\ 1 \in 0 .. Len(w)
    <3>1. SubSeq(w, 1, Len(w)) = w
      BY <2>5, SubSeqFull
    <3>2. QED
      BY <2>5, <3>1 DEF First
  <2>12a. AllThatFits(w, w, l, r)
    BY DEF AllThatFits
  <2>13. LINE!Enters(w)
    BY <1>1, <1>3, <2>5, <2>7, <2>11, <2>12, <2>12a, LineEnters
  <2>14. QED
    BY <2>8, <2>10, <2>13
<1>6. QED
  BY <1>4, <1>5

LEMMA BackspaceStep ==
    ASSUME EditorShows, Backspace
    PROVE  EditorShows' /\ LINE!Edits
<1>1. PICK l, r : Shows(text, cursor, l, r)
  BY DEF EditorShows
<1>2. PICK t : t = Splice(text, byte_index(text, cursor - 1), byte_index(text, cursor), <<>>)
  OBVIOUS
<1>3. cursor # 0 /\ text' = t /\ cursor' = cursor - 1 /\ submitted' = submitted
  BY <1>2 DEF Backspace, Without
<1>4. l # <<>> /\ Shows(t, cursor - 1, Front(l), r)
  BY <1>1, <1>2, <1>3, ShowsBackspaced
<1>5. Shows(text', cursor', Front(l), r)
  BY <1>3, <1>4
<1>6. Text(Prefix) = l /\ Text(SubSeq(text, Len(Prefix) + 1, Len(text))) = r
  BY <1>1, MapNow
<1>7. LINE!Moves(Front(l), r)
  BY <1>3, <1>5, LineMoves
<1>8. Front(l) = LINE!Front(l)
  BY DEF Front, LINE!Front
<1>9. LINE!Edits
  BY <1>4, <1>6, <1>7, <1>8 DEF LINE!Edits
<1>10. QED
  BY <1>5, <1>9 DEF EditorShows

LEMMA DeleteStep ==
    ASSUME EditorShows, Delete
    PROVE  EditorShows' /\ LINE!Edits
<1>1. PICK l, r : Shows(text, cursor, l, r)
  BY DEF EditorShows
<1>2. PICK t : t = Splice(text, byte_index(text, cursor), byte_index(text, cursor + 1), <<>>)
  OBVIOUS
<1>3. cursor # char_count(text) /\ text' = t /\ cursor' = cursor /\ submitted' = submitted
  BY <1>2 DEF Delete, Without
<1>4. r # <<>> /\ Shows(t, cursor, l, Tail(r))
  BY <1>1, <1>2, <1>3, ShowsDeleted
<1>5. Shows(text', cursor', l, Tail(r))
  BY <1>3, <1>4
<1>6. Text(Prefix) = l /\ Text(SubSeq(text, Len(Prefix) + 1, Len(text))) = r
  BY <1>1, MapNow
<1>7. LINE!Moves(l, Tail(r))
  BY <1>3, <1>5, LineMoves
<1>9. LINE!Edits
  BY <1>4, <1>6, <1>7 DEF LINE!Edits
<1>10. QED
  BY <1>5, <1>9 DEF EditorShows

LEMMA MoveStep ==
    ASSUME EditorShows, Move
    PROVE  EditorShows' /\ LineStep
<1>1. PICK l, r : Shows(text, cursor, l, r)
  BY DEF EditorShows
<1>2. Text(Prefix) = l /\ Text(SubSeq(text, Len(Prefix) + 1, Len(text))) = r
  BY <1>1, MapNow
<1>3. PICK s, n : s = text /\ n = cursor
  OBVIOUS
<1>4. Shows(s, n, l, r)
  BY <1>1, <1>3
<1>5. /\ l \in Seq(Chars) /\ r \in Seq(Chars) /\ n \in Nat /\ Len(r) \in Nat
      /\ char_count(s) = n + Len(r)
  BY <1>4, ShowsFacts
<1>6. text' = s /\ submitted' = submitted /\ cursor' \in {Left, Right, 0, char_count(s)}
  BY <1>3 DEF Move, MoveTo
<1>7. /\ Shows(s, 0, <<>>, l \o r)
      /\ Shows(s, char_count(s), l \o r, <<>>)
  BY <1>4, ShowsMoved
<1>8. CASE cursor' = 0
  <2>1. Shows(text', cursor', <<>>, l \o r)
    BY <1>6, <1>7, <1>8
  <2>2. LINE!Moves(<<>>, l \o r)
    BY <1>6, <2>1, LineMoves
  <2>3. LINE!Edits
    BY <1>2, <2>2 DEF LINE!Edits
  <2>4. QED
    BY <2>1, <2>3 DEF EditorShows, LineStep
<1>9. CASE cursor' = char_count(s)
  <2>1. Shows(text', cursor', l \o r, <<>>)
    BY <1>6, <1>7, <1>9
  <2>2. LINE!Moves(l \o r, <<>>)
    BY <1>6, <2>1, LineMoves
  <2>3. LINE!Edits
    BY <1>2, <2>2 DEF LINE!Edits
  <2>4. QED
    BY <2>1, <2>3 DEF EditorShows, LineStep
<1>10. CASE n # 0 /\ cursor' = n - 1
  <2>1. l # <<>> /\ Shows(s, n - 1, Front(l), <<Last(l)>> \o r)
    BY <1>4, <1>10, ShowsMoved
  <2>2. Shows(text', cursor', Front(l), <<Last(l)>> \o r)
    BY <1>6, <1>10, <2>1
  <2>3. LINE!Moves(Front(l), <<Last(l)>> \o r)
    BY <1>6, <2>2, LineMoves
  <2>4. Front(l) = LINE!Front(l) /\ Last(l) = LINE!Last(l)
    BY DEF Front, LINE!Front, Last, LINE!Last
  <2>5. LINE!Edits
    BY <1>2, <2>1, <2>3, <2>4 DEF LINE!Edits
  <2>6. QED
    BY <2>2, <2>5 DEF EditorShows, LineStep
<1>11. CASE n # char_count(s) /\ cursor' = n + 1
  <2>1. r # <<>> /\ Shows(s, n + 1, Append(l, Head(r)), Tail(r))
    BY <1>4, <1>11, ShowsMoved
  <2>2. Shows(text', cursor', Append(l, Head(r)), Tail(r))
    BY <1>6, <1>11, <2>1
  <2>3. LINE!Moves(Append(l, Head(r)), Tail(r))
    BY <1>6, <2>2, LineMoves
  <2>4. LINE!Edits
    BY <1>2, <2>1, <2>3 DEF LINE!Edits
  <2>5. QED
    BY <2>2, <2>4 DEF EditorShows, LineStep
<1>12. cursor' = 0 \/ cursor' = char_count(s) \/ (n # 0 /\ cursor' = n - 1)
       \/ (n # char_count(s) /\ cursor' = n + 1)
  <2>1. CASE cursor' = Left
    BY <1>3, <2>1 DEF Left
  <2>2. CASE cursor' = Right
    BY <1>3, <1>5, <2>2 DEF Right
  <2>3. QED
    BY <1>6, <2>1, <2>2
<1>13. QED
  BY <1>8, <1>9, <1>10, <1>11, <1>12

LEMMA SubmitStep ==
    ASSUME EditorShows, EnterSubmit
    PROVE  EditorShows' /\ LINE!Submits
<1>1. PICK l, r : Shows(text, cursor, l, r)
  BY DEF EditorShows
<1>2. Text(Prefix) = l /\ Text(SubSeq(text, Len(Prefix) + 1, Len(text))) = r
  BY <1>1, MapNow
<1>3. Decoded(text) = l \o r /\ Text(text) = l \o r
  BY <1>1, ShowsFacts
<1>4. /\ Decoded(text) # QuitWord /\ ~(ToSet(Decoded(text)) \subseteq Blanks)
      /\ submitted' = text /\ text' = <<>> /\ cursor' = 0
  BY DEF EnterSubmit
<1>5. Shows(text', cursor', <<>>, <<>>)
  BY <1>4, ShowsEmpty
<1>6. Text(Prefix)' = <<>> /\ Text(SubSeq(text, Len(Prefix) + 1, Len(text)))' = <<>>
  BY <1>5, MapNext
<1>7. Text(submitted)' = l \o r
  BY <1>3, <1>4
<1>8. PICK x : x = l \o r
  OBVIOUS
<1>9. ~LINE!OnlyBlanks(x) /\ x # QuitWord
  BY <1>3, <1>4, <1>8 DEF LINE!OnlyBlanks, LINE!ToSet, ToSet
<1>10. LINE!Submits
  BY <1>2, <1>6, <1>7, <1>8, <1>9 DEF LINE!Submits
<1>11. QED
  BY <1>5, <1>10 DEF EditorShows

LEMMA LineStarts == EditorInit => EditorShows /\ LINE!LineInit
<1> SUFFICES ASSUME EditorInit PROVE EditorShows /\ LINE!LineInit
  OBVIOUS
<1>1. text = <<>> /\ cursor = 0 /\ submitted = <<>>
  BY DEF EditorInit
<1>2. Shows(text, cursor, <<>>, <<>>)
  BY <1>1, ShowsEmpty
<1>3. Text(Prefix) = <<>> /\ Text(SubSeq(text, Len(Prefix) + 1, Len(text))) = <<>>
  BY <1>2, MapNow
<1>4. Text(submitted) = <<>>
  <2>1. PICK e : e = <<>>
    OBVIOUS
  <2>2. e \o e = e
    BY <2>1, CharsConcat
  <2>3. Shows(e, 0, e, e)
    BY <2>1, ShowsEmpty
  <2>4. Text(e) = e
    BY <2>2, <2>3, ShowsFacts
  <2>5. QED
    BY <1>1, <2>1, <2>4
<1>5. QED
  BY <1>2, <1>3, <1>4 DEF EditorShows, LINE!LineInit

LEMMA LineSteps == EditorShows /\ [IdleEvent]_editorVars => EditorShows' /\ LineStep
<1> SUFFICES ASSUME EditorShows, [IdleEvent]_editorVars PROVE EditorShows' /\ LineStep
  OBVIOUS
<1>1. ASSUME NEW c \in Chars, Insert(c) PROVE EditorShows' /\ LineStep
  <2>1. EditorShows' /\ (LINE!Enters(LINE!Printable(<<c>>)) \/ UNCHANGED LINE!lineVars)
    BY <1>1, InsertStep
  <2>2. LINE!Enters(LINE!Printable(<<c>>)) => LINE!Edits
    BY DEF LINE!Edits
  <2>3. QED
    BY <2>1, <2>2 DEF LineStep
<1>2. ASSUME NEW s \in Pastes, Paste(s) PROVE EditorShows' /\ LineStep
  <2>1. s \in Seq(Chars)
    BY EditorAssumption
  <2>2. EditorShows' /\ (LINE!Enters(LINE!Printable(s)) \/ UNCHANGED LINE!lineVars)
    BY <1>2, <2>1, PasteStep
  <2>3. LINE!Enters(LINE!Printable(s)) => LINE!Edits
    BY DEF LINE!Edits
  <2>4. QED
    BY <2>2, <2>3 DEF LineStep
<1>3. CASE Backspace
  BY <1>3, BackspaceStep DEF LineStep
<1>4. CASE Delete
  BY <1>4, DeleteStep DEF LineStep
<1>5. CASE Move
  BY <1>5, MoveStep
<1>6. CASE Clear
  <2>1. PICK l, r : Shows(text, cursor, l, r)
    BY DEF EditorShows
  <2>2. text' = <<>> /\ cursor' = 0 /\ submitted' = submitted
    BY <1>6 DEF Clear
  <2>3. Shows(text', cursor', <<>>, <<>>)
    BY <2>2, ShowsEmpty
  <2>4. LINE!Moves(<<>>, <<>>)
    BY <2>2, <2>3, LineMoves
  <2>5. LINE!Edits
    BY <2>4 DEF LINE!Edits
  <2>6. QED
    BY <2>3, <2>5 DEF EditorShows, LineStep
<1>7. CASE EnterSubmit
  BY <1>7, SubmitStep DEF LineStep
<1>8. CASE EnterQuit \/ UNCHANGED editorVars
  <2>1. text' = text /\ cursor' = cursor /\ submitted' = submitted
    BY <1>8 DEF EnterQuit, editorVars
  <2>2. PICK l, r : Shows(text, cursor, l, r)
    BY DEF EditorShows
  <2>3. Shows(text', cursor', l, r)
    BY <2>1, <2>2
  <2>4. UNCHANGED LINE!lineVars
    BY <2>1, <2>2, <2>3, LineStays
  <2>5. QED
    BY <2>3, <2>4 DEF EditorShows, LineStep
<1>9. QED
  BY <1>1, <1>2, <1>3, <1>4, <1>5, <1>6, <1>7, <1>8 DEF IdleEvent

\* The editor, which keeps bytes and counts characters, shows at every key
\* what LineEditor promises: inserting, pasting, deleting and moving change
\* whole characters, and no more goes in than fits.
THEOREM InputImplementsLine == EditorSpec => ImplementsLineEditor
<1>1. EditorInit => EditorShows /\ LINE!LineInit
  BY LineStarts
<1>2. EditorShows /\ [IdleEvent]_editorVars
          => EditorShows' /\ [LINE!Edits \/ LINE!Submits]_(LINE!lineVars)
  BY LineSteps DEF LineStep
<1>3. QED
  BY <1>1, <1>2, PTL DEF EditorSpec, ImplementsLineEditor, LINE!LineSpec

-----------------------------------------------------------------------------
(* What the user has typed: whole characters, within the limit.            *)

\* What a step of LineEditor does to the two sides of the cursor.
SidesMove(l, r, x, y) ==
    \/ x = l /\ y = r
    \/ y = r /\ \E p \in Seq(Chars) : x = l \o p /\ ~TooMuch(p, l, r)
    \/ l # <<>> /\ x = Front(l) /\ y = r
    \/ r # <<>> /\ x = l /\ y = Tail(r)
    \/ x \o y = l \o r
    \/ x = <<>> /\ y = <<>>

LEMMA ShorterFits ==
    ASSUME NEW l \in Seq(Chars), NEW r \in Seq(Chars)
    PROVE  /\ LINE!Size(l \o r) \in Nat
           /\ l # <<>> => LINE!Size(Front(l) \o r) <= LINE!Size(l \o r)
           /\ r # <<>> => LINE!Size(l \o Tail(r)) <= LINE!Size(l \o r)
<1>1. /\ LINE!Size(l) \in Nat /\ LINE!Size(r) \in Nat
      /\ LINE!Size(l \o r) = LINE!Size(l) + LINE!Size(r)
  BY SizeJoin
<1>2. ASSUME l # <<>> PROVE LINE!Size(Front(l) \o r) <= LINE!Size(l \o r)
  <2>1. PICK f, e, t : f = Front(l) /\ e = <<>> /\ t = <<Last(l)>> \o e
    OBVIOUS
  <2>2. e \in Seq(Chars)
    BY <2>1
  <2>3. f \in Seq(Chars) /\ t \in Seq(Chars) /\ l \o e = f \o t
    BY <1>2, <2>1, <2>2, PassRight
  <2>4. l \o e = l
    BY <2>1, CharsConcat
  <2>5. l = f \o t
    BY <2>3, <2>4
  <2>6. /\ LINE!Size(f) \in Nat /\ LINE!Size(t) \in Nat
        /\ LINE!Size(l) = LINE!Size(f) + LINE!Size(t)
    BY ONLY <2>3, <2>5, SizeJoin
  <2>7. LINE!Size(f \o r) = LINE!Size(f) + LINE!Size(r)
    BY ONLY <2>3, r \in Seq(Chars), SizeJoin
  <2>8. QED
    BY <1>1, <2>1, <2>6, <2>7
<1>3. ASSUME r # <<>> PROVE LINE!Size(l \o Tail(r)) <= LINE!Size(l \o r)
  <2>1. PICK e, h, t : e = <<>> /\ h = Append(e, Head(r)) /\ t = Tail(r)
    OBVIOUS
  <2>2. e \in Seq(Chars)
    BY <2>1
  <2>3. h \in Seq(Chars) /\ t \in Seq(Chars) /\ e \o r = h \o t
    BY <1>3, <2>1, <2>2, PassLeft
  <2>4. e \o r = r
    BY <2>1, CharsConcat
  <2>5. r = h \o t
    BY <2>3, <2>4
  <2>6. /\ LINE!Size(h) \in Nat /\ LINE!Size(t) \in Nat
        /\ LINE!Size(r) = LINE!Size(h) + LINE!Size(t)
    BY ONLY <2>3, <2>5, SizeJoin
  <2>7. LINE!Size(l \o t) = LINE!Size(l) + LINE!Size(t)
    BY ONLY <2>3, l \in Seq(Chars), SizeJoin
  <2>8. QED
    BY <1>1, <2>1, <2>6, <2>7
<1>4. QED
  BY <1>1, <1>2, <1>3

LEMMA SidesFit ==
    ASSUME NEW l \in Seq(Chars), NEW r \in Seq(Chars), NEW x, NEW y, SidesMove(l, r, x, y),
           LINE!Size(l \o r) <= MAX_INPUT_BYTES
    PROVE  LINE!Size(x \o y) <= MAX_INPUT_BYTES
<1>0. MAX_INPUT_BYTES \in Nat
  BY EditorAssumption
<1>1. CASE x \o y = l \o r
  BY <1>1
<1>2. CASE y = r /\ \E p \in Seq(Chars) : x = l \o p /\ ~TooMuch(p, l, r)
  <2>1. PICK p \in Seq(Chars) : x = l \o p /\ ~TooMuch(p, l, r)
    BY <1>2
  <2>2. LINE!Size((p \o l) \o r) = LINE!Size((l \o p) \o r)
    BY SizeOfLine
  <2>3. LINE!Size((p \o l) \o r) <= MAX_INPUT_BYTES
    BY <2>1 DEF TooMuch
  <2>4. QED
    BY <1>2, <2>1, <2>2, <2>3
<1>3. CASE (l # <<>> /\ x = Front(l) /\ y = r) \/ (r # <<>> /\ x = l /\ y = Tail(r))
  <2>1. /\ LINE!Size(l \o r) \in Nat
        /\ l # <<>> => LINE!Size(Front(l) \o r) <= LINE!Size(l \o r)
        /\ r # <<>> => LINE!Size(l \o Tail(r)) <= LINE!Size(l \o r)
    BY ShorterFits
  <2>2. LINE!Size(x \o y) <= LINE!Size(l \o r)
    BY <1>3, <2>1
  <2>3. PICK a, b : a = LINE!Size(x \o y) /\ b = LINE!Size(l \o r)
    OBVIOUS
  <2>4. a \in Nat
    <3>1. x \in Seq(Chars) /\ y \in Seq(Chars)
      <4>1. CASE l # <<>> /\ x = Front(l) /\ y = r
        BY <4>1, PassRight
      <4>2. CASE r # <<>> /\ x = l /\ y = Tail(r)
        BY <4>2, PassLeft
      <4>3. QED
        BY <1>3, <4>1, <4>2
    <3>2. QED
      BY <2>3, <3>1, ShorterFits
  <2>5. QED
    BY ONLY <1>0, <2>1, <2>2, <2>3, <2>4, LINE!Size(l \o r) <= MAX_INPUT_BYTES
<1>4. CASE x = <<>> /\ y = <<>>
  <2>1. PICK e : e = <<>>
    OBVIOUS
  <2>2. e \in Seq(Chars) /\ e \o e = e /\ LINE!Size(e) = 0
    BY <2>1, EmptyEncodes, CharsConcat
  <2>3. QED
    BY <1>0, <1>4, <2>1, <2>2
<1>5. QED
  BY <1>1, <1>2, <1>3, <1>4 DEF SidesMove

\* A step of LineEditor in terms of what the text shows.
LEMMA SidesStep ==
    ASSUME NEW l, NEW r, Shows(text, cursor, l, r), NEW x, NEW y, Shows(text', cursor', x, y),
           LineStep
    PROVE  SidesMove(l, r, x, y)
<1>1. /\ Text(Prefix) = l /\ Text(SubSeq(text, Len(Prefix) + 1, Len(text))) = r
      /\ Text(Prefix)' = x /\ Text(SubSeq(text, Len(Prefix) + 1, Len(text)))' = y
  BY MapNow, MapNext
<1>2. l \in Seq(Chars) /\ r \in Seq(Chars) /\ x \in Seq(Chars) /\ y \in Seq(Chars)
  BY DEF Shows
<1>3. ASSUME NEW w \in Seq(Chars), LINE!Enters(w) PROVE SidesMove(l, r, x, y)
  <2>1. PICK p \in LINE!Prefixes(w) : LINE!Fits(p) /\ Text(Prefix)' = Text(Prefix) \o p
    BY <1>3 DEF LINE!Enters
  <2>2. Text(SubSeq(text, Len(Prefix) + 1, Len(text)))'
            = Text(SubSeq(text, Len(Prefix) + 1, Len(text)))
    BY <1>3 DEF LINE!Enters
  <2>3. x = l \o p /\ y = r
    BY <1>1, <2>1, <2>2
  <2>4. p \in Seq(Chars)
    <3>1. PICK k \in 0 .. Len(w) : First(p, w, k)
      BY <2>1 DEF LINE!Prefixes, First
    <3>2. QED
      BY <3>1, FirstFacts
  <2>5. LINE!Size((p \o l) \o r) <= MAX_INPUT_BYTES
    BY <1>1, <2>1 DEF LINE!Fits
  <2>6. QED
    BY <2>3, <2>4, <2>5 DEF SidesMove, TooMuch
<1>4. ASSUME LINE!Submits PROVE SidesMove(l, r, x, y)
  BY <1>1, <1>4 DEF LINE!Submits, SidesMove
<1>5. ASSUME NEW a, NEW b, LINE!Moves(a, b) PROVE x = a /\ y = b
  BY <1>1, <1>5 DEF LINE!Moves
<1>6. ASSUME UNCHANGED LINE!lineVars PROVE SidesMove(l, r, x, y)
  BY <1>1, <1>6 DEF LINE!lineVars, SidesMove
<1>7. ASSUME NEW c \in Chars, LINE!Enters(LINE!Printable(<<c>>)) PROVE SidesMove(l, r, x, y)
  <2>1. LINE!Printable(<<c>>) \in Seq(Chars)
    <3>1. <<c>> \in Seq(Chars) /\ <<>> \in Seq(Chars)
      OBVIOUS
    <3>2. QED
      BY <3>1, OnePrinted
  <2>2. QED
    BY <1>3, <1>7, <2>1
<1>8. ASSUME NEW s \in Pastes, LINE!Enters(LINE!Printable(s)) PROVE SidesMove(l, r, x, y)
  <2>1. s \in Seq(Chars)
    BY EditorAssumption
  <2>2. LINE!Printable(s) \in Seq(Chars)
    BY <2>1, PastedEnters
  <2>3. QED
    BY <1>3, <1>8, <2>2
<1>9. ASSUME NEW a, NEW b, LINE!Moves(a, b), a \o b = l \o r PROVE SidesMove(l, r, x, y)
  BY <1>5, <1>9 DEF SidesMove
<1>10. CASE LINE!Edits
  <2>1. \/ \E c \in Chars : LINE!Enters(LINE!Printable(<<c>>))
        \/ \E s \in Pastes : LINE!Enters(LINE!Printable(s))
        \/ l # <<>> /\ LINE!Moves(Front(l), r)
        \/ r # <<>> /\ LINE!Moves(l, Tail(r))
        \/ l # <<>> /\ LINE!Moves(Front(l), <<Last(l)>> \o r)
        \/ r # <<>> /\ LINE!Moves(Append(l, Head(r)), Tail(r))
        \/ LINE!Moves(<<>>, l \o r)
        \/ LINE!Moves(l \o r, <<>>)
        \/ LINE!Moves(<<>>, <<>>)
    <3>1. LINE!Front(l) = Front(l) /\ LINE!Last(l) = Last(l)
      BY DEF Front, LINE!Front, Last, LINE!Last
    <3>2. QED
      BY <1>1, <1>10, <3>1 DEF LINE!Edits
  <2>2. CASE l # <<>> /\ LINE!Moves(Front(l), r)
    BY <1>5, <2>2 DEF SidesMove
  <2>3. CASE r # <<>> /\ LINE!Moves(l, Tail(r))
    BY <1>5, <2>3 DEF SidesMove
  <2>4. CASE l # <<>> /\ LINE!Moves(Front(l), <<Last(l)>> \o r)
    BY <1>2, <1>9, <2>4, PassRight
  <2>5. CASE r # <<>> /\ LINE!Moves(Append(l, Head(r)), Tail(r))
    BY <1>2, <1>9, <2>5, PassLeft
  <2>6. CASE LINE!Moves(<<>>, l \o r) \/ LINE!Moves(l \o r, <<>>)
    <3>1. PICK z, e : z = l \o r /\ e = <<>>
      OBVIOUS
    <3>2. z \in Seq(Chars) /\ e \o z = z /\ z \o e = z
      BY <1>2, <3>1, CharsConcat
    <3>3. LINE!Moves(e, z) \/ LINE!Moves(z, e)
      BY <2>6, <3>1
    <3>4. QED
      BY <1>9, <3>1, <3>2, <3>3
  <2>7. CASE LINE!Moves(<<>>, <<>>)
    BY <1>5, <2>7 DEF SidesMove
  <2>8. QED
    BY <1>7, <1>8, <2>1, <2>2, <2>3, <2>4, <2>5, <2>6, <2>7
<1>11. QED
  BY <1>4, <1>6, <1>10 DEF LineStep

\* What the user has typed: whole characters, no more than MAX_INPUT_BYTES,
\* and a cursor between two of them.
InputIsWhole ==
    /\ WholeCharacters(text) /\ Len(text) <= MAX_INPUT_BYTES
    /\ cursor \in 0 .. char_count(text)

InputFits == EditorShows /\ Len(text) <= MAX_INPUT_BYTES

\* Through any keys and pastes the text stays UTF-8 and within its limit, and
\* the cursor within the text, so that no index panics.
THEOREM InputStaysWhole == EditorSpec => []InputIsWhole
<1>1. EditorInit => InputFits
  <2>1. EditorInit => EditorShows /\ text = <<>>
    BY LineStarts DEF EditorInit
  <2>2. QED
    BY <2>1, EditorAssumption DEF InputFits
<1>2. InputFits /\ [IdleEvent]_editorVars => InputFits'
  <2> SUFFICES ASSUME InputFits, [IdleEvent]_editorVars PROVE InputFits'
    OBVIOUS
  <2>1. EditorShows' /\ LineStep
    BY LineSteps DEF InputFits
  <2>2. PICK l, r : Shows(text, cursor, l, r)
    BY DEF InputFits, EditorShows
  <2>3. PICK x, y : Shows(text', cursor', x, y)
    BY <2>1 DEF EditorShows
  <2>4. l \in Seq(Chars) /\ r \in Seq(Chars) /\ Len(text) = LINE!Size(l \o r)
    BY <2>2, ShowsFacts
  <2>5. PICK s, n : s = text' /\ n = cursor'
    OBVIOUS
  <2>6. Len(s) = LINE!Size(x \o y)
    BY <2>3, <2>5, ShowsFacts
  <2>7. SidesMove(l, r, x, y)
    BY <2>1, <2>2, <2>3, SidesStep
  <2>8. LINE!Size(x \o y) <= MAX_INPUT_BYTES
    BY <2>4, <2>7, SidesFit DEF InputFits
  <2>9. QED
    BY <2>1, <2>5, <2>6, <2>8 DEF InputFits
<1>3. InputFits => InputIsWhole
  <2> SUFFICES ASSUME InputFits PROVE InputIsWhole
    OBVIOUS
  <2>1. PICK l, r : Shows(text, cursor, l, r)
    BY DEF InputFits, EditorShows
  <2>2. cursor \in Nat /\ Len(r) \in Nat /\ char_count(text) = cursor + Len(r)
    BY <2>1, ShowsFacts
  <2>3. cursor \in 0 .. char_count(text)
    BY <2>2
  <2>4. WholeCharacters(text)
    BY <2>1, EncodedWhole DEF Shows, Utf8
  <2>5. QED
    BY <2>3, <2>4 DEF InputIsWhole, InputFits
<1>4. QED
  BY <1>1, <1>2, <1>3, PTL DEF EditorSpec

-----------------------------------------------------------------------------
(* The command line: words, and what items they are made of.               *)

Words == Seq(STRING)

\* w is made of the first m items of the list, one after the other; ends[j] is
\* how many words the first j make.
MadeOf(list, m, w, ends) ==
    /\ w \in Words /\ ends[0] = 0 /\ ends[m] = Len(w)
    /\ \A j \in 0 .. m : ends[j] \in Nat /\ ends[j] <= Len(w)
    /\ \A j \in 1 .. m : /\ ends[j] = ends[j - 1] + Len(list[j])
                         /\ \A k \in 1 .. Len(list[j]) : w[ends[j - 1] + k] = list[j][k]

LEMMA MadeStep ==
    ASSUME NEW list \in Seq(Words), NEW m \in 1 .. Len(list), NEW w, NEW ends,
           MadeOf(list, m - 1, w, ends), NEW z, z = w \o list[m], ends[m] = Len(z)
    PROVE  MadeOf(list, m, z, ends)
<1>1. PICK b \in Words : b = list[m]
  OBVIOUS
<1>2. w \in Words /\ z = w \o b
  BY <1>1 DEF MadeOf
<1>2a. w \in Seq(STRING) /\ b \in Seq(STRING)
  BY <1>1, <1>2 DEF Words
<1>3. /\ z \in Words /\ Len(w) \in Nat /\ Len(b) \in Nat
      /\ Len(z) = Len(w) + Len(b)
      /\ \A i \in 1 .. Len(w) : z[i] = w[i]
      /\ \A i \in 1 .. Len(b) : z[Len(w) + i] = b[i]
  BY <1>2, <1>2a, ConcatParts DEF Words
<1>4. PICK n : n = m - 1 /\ n \in Nat /\ m = n + 1
  OBVIOUS
<1>5. /\ ends[0] = 0 /\ ends[n] = Len(w)
      /\ \A j \in 0 .. n : ends[j] \in Nat /\ ends[j] <= Len(w)
  BY <1>4 DEF MadeOf
<1>6. \A j \in 1 .. n : /\ ends[j] = ends[j - 1] + Len(list[j])
                        /\ \A k \in 1 .. Len(list[j]) : w[ends[j - 1] + k] = list[j][k]
  BY <1>4 DEF MadeOf
<1>7. ASSUME NEW j \in 0 .. m PROVE ends[j] \in Nat /\ ends[j] <= Len(z)
  BY <1>3, <1>4, <1>5
<1>8. ASSUME NEW j \in 1 .. m
      PROVE  /\ ends[j] = ends[j - 1] + Len(list[j])
             /\ \A k \in 1 .. Len(list[j]) : z[ends[j - 1] + k] = list[j][k]
  <2>1. CASE j = m
    <3>1. ends[j - 1] = Len(w) /\ ends[j] = Len(z) /\ list[j] = b
      BY <1>1, <1>4, <1>5, <2>1
    <3>2. QED
      BY <1>3, <3>1
  <2>2. CASE j # m
    <3>1. j \in 1 .. n /\ j - 1 \in 0 .. n
      BY <1>4, <2>2
    <3>2. ends[j] = ends[j - 1] + Len(list[j])
      BY <1>6, <3>1
    <3>3. ends[j] \in Nat /\ ends[j] <= Len(w) /\ ends[j - 1] \in Nat
      BY <1>5, <3>1
    <3>4. ASSUME NEW k \in 1 .. Len(list[j]) PROVE z[ends[j - 1] + k] = list[j][k]
      <4>1. list[j] \in Words
        OBVIOUS
      <4>2. Len(list[j]) \in Nat
        BY <4>1 DEF Words
      <4>3. ends[j - 1] + k \in 1 .. Len(w)
        <5>1. PICK a, c, e, u :
                  a = ends[j - 1] /\ c = Len(list[j]) /\ e = ends[j] /\ u = Len(w)
          OBVIOUS
        <5>2. a \in Nat /\ c \in Nat /\ e = a + c /\ e <= u /\ k \in 1 .. c /\ u \in Nat
          BY <1>3, <3>2, <3>3, <4>2, <5>1
        <5>3. a + k \in 1 .. u
          BY ONLY <5>2
        <5>4. QED
          BY <5>1, <5>3
      <4>4. w[ends[j - 1] + k] = list[j][k]
        BY <1>6, <3>1
      <4>5. QED
        BY <1>3, <4>3, <4>4
    <3>5. QED
      BY <3>2, <3>4
  <2>3. QED
    BY <2>1, <2>2
<1>9. z \in Words /\ ends[0] = 0 /\ ends[m] = Len(z)
  BY <1>3, <1>5
<1>10. QED
  BY <1>7, <1>8, <1>9 DEF MadeOf

LEMMA MadeOfNone ==
    ASSUME NEW list \in Seq(Words), NEW ends, ends[0] = 0
    PROVE  MadeOf(list, 0, <<>>, ends)
<1>1. PICK e : e = <<>>
  OBVIOUS
<1>2. e \in Words /\ Len(e) = 0
  BY <1>1 DEF Words
<1>3. MadeOf(list, 0, e, ends)
  BY <1>2 DEF MadeOf
<1>4. QED
  BY <1>1, <1>3

\* What FlattenSeq returns.
LEMMA FlattenMade ==
    ASSUME NEW list \in Seq(Words)
    PROVE  \E ends : MadeOf(list, Len(list), FlattenSeq(list), ends)
<1> DEFINE N == Len(list)
           F == [e \in Words \X Words |-> e[1] \o e[2]]
           Flattens(f) == f = [i \in 1 .. N |-> IF i = 1 THEN list[i] ELSE f[i - 1] \o list[i]]
<1>1. N \in Nat /\ DOMAIN list = 1 .. N /\ list \in [1 .. N -> Words]
  OBVIOUS
<1>2. CASE N = 0
  <2>1. PICK ends : ends = [j \in 0 .. 0 |-> 0]
    OBVIOUS
  <2>2. ends[0] = 0
    BY <2>1
  <2>3. FlattenSeq(list) = <<>>
    BY <1>2 DEF FlattenSeq
  <2>4. MadeOf(list, 0, <<>>, ends)
    BY <2>2, MadeOfNone
  <2>5. QED
    BY <1>2, <2>3, <2>4
<1>3. CASE N # 0
  <2>1. F \in [Words \X Words -> Words] /\ <<>> \in Words
    <3>1. ASSUME NEW a \in Words, NEW b \in Words PROVE a \o b \in Words
      BY ConcatProperties DEF Words
    <3>2. ASSUME NEW e \in Words \X Words PROVE F[e] \in Words
      <4>1. e[1] \in Words /\ e[2] \in Words
        OBVIOUS
      <4>2. QED
        BY <3>1, <4>1
    <3>3. <<>> \in Words
      BY DEF Words
    <3>4. QED
      BY <3>2, <3>3
  <2>2. \A a, b \in Words : F[<<a, b>>] = a \o b
    OBVIOUS
  <2> HIDE DEF F, N
  <2>3. PICK h \in [SUBSET (1 .. N) -> Words] : IsFold(h, F, <<>>, list, N)
    <3>1. HasFold(Words, F, <<>>, list, N)
      BY <1>1, <2>1, FoldExists
    <3>2. QED
      BY <3>1 DEF HasFold
  <2>4. h[{}] = <<>>
    BY <2>3 DEF IsFold
  <2>5. ASSUME NEW i \in 1 .. N
        PROVE  /\ h[1 .. i] \in Words /\ h[1 .. i - 1] \in Words
               /\ h[1 .. i] = h[1 .. i - 1] \o list[i]
    <3>1. Max(1 .. i) = i /\ (1 .. i) \ {i} = 1 .. i - 1 /\ 1 .. i # {}
      BY LastPosition
    <3>2. 1 .. i \in SUBSET (1 .. N) /\ 1 .. i - 1 \in SUBSET (1 .. N)
      BY <1>1
    <3>3. h[1 .. i] = F[<<h[1 .. i - 1], list[i]>>]
      BY <2>3, <3>1, <3>2 DEF IsFold
    <3>4. h[1 .. i - 1] \in Words /\ h[1 .. i] \in Words /\ list[i] \in Words
      BY <1>1, <2>3, <3>2
    <3>5. QED
      BY <2>2, <3>3, <3>4
  <2>6. PICK f : f = [i \in 1 .. N |-> h[1 .. i]]
    OBVIOUS
  <2>7. Flattens(f)
    <3>1. ASSUME NEW i \in 1 .. N PROVE f[i] = IF i = 1 THEN list[i] ELSE f[i - 1] \o list[i]
      <4>1. CASE i = 1
        <5>1. 1 .. i - 1 = {}
          BY <4>1
        <5>2. PICK b : b = list[i] /\ b \in Words
          BY <1>1
        <5>3. <<>> \o b = b
          BY <5>2, ConcatEmptySeq DEF Words
        <5>4. h[1 .. i] = <<>> \o b
          BY <2>4, <2>5, <5>1, <5>2
        <5>5. QED
          BY <2>6, <4>1, <5>2, <5>3, <5>4
      <4>2. CASE i # 1
        <5>1. i - 1 \in 1 .. N
          BY <1>1, <4>2
        <5>2. f[i] = h[1 .. i] /\ f[i - 1] = h[1 .. i - 1]
          BY <2>6, <5>1
        <5>3. QED
          BY <2>5, <4>2, <5>2
      <4>3. QED
        BY <4>1, <4>2
    <3>2. f = [i \in 1 .. N |-> f[i]]
      BY <2>6
    <3>3. QED
      BY <3>1, <3>2
  <2>8. PICK g : g = CHOOSE f1 : Flattens(f1)
    OBVIOUS
  <2>9. Flattens(g)
    <3> HIDE DEF Flattens
    <3>1. QED
      BY <2>7, <2>8
  <2>10. FlattenSeq(list) = g[N]
    BY <1>3, <2>8 DEF FlattenSeq, N
  <2>11. \A i \in 1 .. N : g[i] = IF i = 1 THEN list[i] ELSE g[i - 1] \o list[i]
    BY <2>9
  <2> HIDE DEF Flattens
  <2>12. PICK ends : ends = [i \in 0 .. N |-> IF i = 0 THEN 0 ELSE Len(g[i])]
    OBVIOUS
  <2>13. ends[0] = 0 /\ \A i \in 1 .. N : ends[i] = Len(g[i])
    BY <1>1, <2>12
  <2>14. PICK B : B = {m \in 0 .. N : ~ \E w : MadeOf(list, m, w, ends) /\ (m # 0 => w = g[m])
                                                /\ (m = 0 => w = <<>>)}
    OBVIOUS
  <2>15. 0 \notin B /\ B \in SUBSET (0 .. N)
    <3>1. MadeOf(list, 0, <<>>, ends)
      BY <2>13, MadeOfNone
    <3>2. QED
      BY <2>14, <3>1
  <2>16. ASSUME B # {} PROVE FALSE
    <3>1. PICK m \in 1 .. N : m \in B /\ m - 1 \notin B /\ m - 1 \in 0 .. N
      BY <1>1, <2>15, <2>16, FirstFailure
    <3>2. PICK n : n = m - 1
      OBVIOUS
    <3>3. PICK w : MadeOf(list, n, w, ends) /\ (n # 0 => w = g[n]) /\ (n = 0 => w = <<>>)
      BY <2>14, <3>1, <3>2
    <3>4. g[m] = w \o list[m]
      <4>1. CASE m = 1
        <5>1. PICK b : b = list[m] /\ b \in Words
          BY <1>1
        <5>2. <<>> \o b = b
          BY <5>1, ConcatEmptySeq DEF Words
        <5>3. w = <<>> /\ g[m] = list[m]
          BY <2>11, <3>2, <3>3, <4>1
        <5>4. QED
          BY <5>1, <5>2, <5>3
      <4>2. CASE m # 1
        <5>1. n # 0
          BY <1>1, <3>2, <4>2
        <5>2. w = g[n]
          BY <3>3, <5>1
        <5>3. g[m] = g[m - 1] \o list[m]
          BY <2>11, <4>2
        <5>4. QED
          BY <3>2, <5>2, <5>3
      <4>3. QED
        BY <4>1, <4>2
    <3>5. ends[m] = Len(g[m])
      BY <2>13
    <3>6. MadeOf(list, m - 1, w, ends) /\ m \in 1 .. Len(list)
      BY <3>2, <3>3 DEF N
    <3>7. PICK z : z = g[m]
      OBVIOUS
    <3>8. MadeOf(list, m, z, ends)
      BY <3>4, <3>5, <3>6, <3>7, MadeStep
    <3>9. QED
      BY <2>14, <3>1, <3>7, <3>8
  <2>17. PICK w : MadeOf(list, N, w, ends) /\ (N # 0 => w = g[N])
    BY <1>1, <2>14, <2>16
  <2>18. QED
    BY <1>3, <2>10, <2>17 DEF N
<1>4. QED
  BY <1>2, <1>3

-----------------------------------------------------------------------------
(* The scan, one word at a time.                                           *)

\* The scan between two options: what was given so far.
Open(g) == [ok |-> TRUE, skip |-> FALSE, given |-> g]
GivenBy(rest) == ({rest[i] : i \in DOMAIN rest} \X {rest[i] : i \in DOMAIN rest})
                   \cup {<<Flag, "set">>}
Scans(rest) == {Refused} \cup [ok : {TRUE}, skip : BOOLEAN, given : SUBSET GivenBy(rest)]

\* One position of the scan.
ScanOn(command, rest, scan, i) ==
    CASE ~scan.ok -> scan
      [] scan.ok /\ scan.skip -> [scan EXCEPT !.skip = FALSE]
      [] scan.ok /\ ~scan.skip /\ command = "tui" /\ rest[i] = Flag ->
            IF Flag \in Names(scan.given) THEN Refused
            ELSE [scan EXCEPT !.given = @ \cup {<<Flag, "set">>}]
      [] OTHER ->
            IF i = Len(rest) THEN Refused
            ELSE LET taken == Take(command, scan.given, rest[i], rest[i + 1])
                 IN  IF taken.ok THEN [ok |-> TRUE, skip |-> TRUE, given |-> taken.given]
                                 ELSE Refused

LEMMA TakeTakes ==
    ASSUME NEW command, NEW g, NEW name, NEW value, Take(command, g, name, value).ok
    PROVE  Take(command, g, name, value).given = g \cup {<<name, value>>}
<1>1. PICK t : t = Take(command, g, name, value)
  OBVIOUS
<1>2. t # Refused
  BY <1>1 DEF Refused
<1>3. t = [ok |-> TRUE, given |-> g \cup {<<name, value>>}]
  BY <1>1, <1>2 DEF Take
<1>4. QED
  BY <1>1, <1>3

LEMMA ScanOnIsScan ==
    ASSUME NEW command, NEW rest \in Words, NEW scan \in Scans(rest), NEW i \in 1 .. Len(rest)
    PROVE  ScanOn(command, rest, scan, i) \in Scans(rest)
<1>1. rest \in Seq(STRING) /\ Len(rest) \in Nat
  BY DEF Words
<1>2. CASE scan = Refused
  <2>1. ~scan.ok
    BY <1>2 DEF Refused
  <2>2. QED
    BY <2>1 DEF ScanOn
<1>3. CASE scan # Refused
  <2>1. scan \in [ok : {TRUE}, skip : BOOLEAN, given : SUBSET GivenBy(rest)]
    BY <1>3 DEF Scans
  <2>2. PICK g \in SUBSET GivenBy(rest) : g = scan.given
    BY <2>1
  <2>3. CASE scan.skip
    <3>1. ScanOn(command, rest, scan, i) = [scan EXCEPT !.skip = FALSE]
      BY <2>1, <2>3 DEF ScanOn
    <3>2. QED
      BY <2>1, <3>1 DEF Scans
  <2>4. CASE ~scan.skip /\ command = "tui" /\ rest[i] = Flag
    <3>1. g \cup {<<Flag, "set">>} \in SUBSET GivenBy(rest)
      BY DEF GivenBy
    <3>2. ScanOn(command, rest, scan, i) =
            IF Flag \in Names(g)
            THEN Refused ELSE [scan EXCEPT !.given = g \cup {<<Flag, "set">>}]
      <4>1. scan.ok = TRUE
        BY <2>1
      <4>2. ScanOn(command, rest, scan, i) =
              IF Flag \in Names(scan.given) THEN Refused
              ELSE [scan EXCEPT !.given = @ \cup {<<Flag, "set">>}]
        BY ONLY <2>4, <4>1 DEF ScanOn
      <4>3. [scan EXCEPT !.given = @ \cup {<<Flag, "set">>}]
              = [scan EXCEPT !.given = g \cup {<<Flag, "set">>}]
        BY <2>2
      <4>4. QED
        BY <2>2, <4>2, <4>3
    <3>3. [scan EXCEPT !.given = g \cup {<<Flag, "set">>}] \in Scans(rest)
      BY <2>1, <3>1 DEF Scans
    <3>4. QED
      BY <3>2, <3>3 DEF Scans
  <2>5. CASE ~scan.skip /\ ~(command = "tui" /\ rest[i] = Flag)
    <3>1. PICK t : t = Take(command, g, rest[i], rest[i + 1])
      OBVIOUS
    <3>2. ScanOn(command, rest, scan, i) =
            IF i = Len(rest) THEN Refused
            ELSE IF t.ok THEN [ok |-> TRUE, skip |-> TRUE, given |-> t.given] ELSE Refused
      BY <2>1, <2>2, <2>5, <3>1 DEF ScanOn
    <3>3. Refused \in Scans(rest)
      BY DEF Scans
    <3>4. CASE i # Len(rest) /\ t.ok
      <4>1. i + 1 \in 1 .. Len(rest)
        BY <1>1, <3>4
      <4>2. <<rest[i], rest[i + 1]>> \in GivenBy(rest)
        BY <1>1, <4>1 DEF GivenBy
      <4>3. t.given \in SUBSET GivenBy(rest)
        BY <3>1, <3>4, <4>2, TakeTakes
      <4>4. [ok |-> TRUE, skip |-> TRUE, given |-> t.given] \in Scans(rest)
        BY <4>3 DEF Scans
      <4>5. QED
        BY <3>2, <3>4, <4>4
    <3>5. QED
      BY <3>2, <3>3, <3>4
  <2>6. QED
    BY <2>3, <2>4, <2>5
<1>4. QED
  BY <1>2, <1>3

LEMMA ScanFolds ==
    ASSUME NEW command, NEW rest \in Words
    PROVE  \E v : /\ v[0] = Open({})
                  /\ \A m \in 1 .. Len(rest) : v[m] = ScanOn(command, rest, v[m - 1], m)
                  /\ Scan(command, rest) = v[Len(rest)]
<1> DEFINE N == Len(rest)
           q == [i \in DOMAIN rest |-> i]
           F == [e \in Scans(rest) \X (1 .. N) |-> ScanOn(command, rest, e[1], e[2])]
           Step(h) == [I \in SUBSET DOMAIN q |->
                          IF I = {} THEN Open({})
                          ELSE ScanOn(command, rest, h[I \ {Max(I)}], q[Max(I)])]
           g == CHOOSE h : h = Step(h)
<1>1. N \in Nat /\ DOMAIN rest = 1 .. N /\ DOMAIN q = 1 .. N /\ q \in [1 .. N -> 1 .. N]
      /\ \A i \in 1 .. N : q[i] = i
  BY DEF Words
<1>2. F \in [Scans(rest) \X (1 .. N) -> Scans(rest)] /\ Open({}) \in Scans(rest)
  <2>1. ASSUME NEW e \in Scans(rest) \X (1 .. N) PROVE F[e] \in Scans(rest)
    <3>1. e[1] \in Scans(rest) /\ e[2] \in 1 .. Len(rest)
      OBVIOUS
    <3>2. ScanOn(command, rest, e[1], e[2]) \in Scans(rest)
      BY <3>1, ScanOnIsScan
    <3>3. QED
      BY <3>2
  <2>2. Open({}) \in Scans(rest)
    BY DEF Open, Scans
  <2>3. QED
    BY <2>1, <2>2
<1>2a. \A s \in Scans(rest), i \in 1 .. N : F[<<s, i>>] = ScanOn(command, rest, s, i)
  OBVIOUS
<1> HIDE DEF F, N
<1>3. PICK h \in [SUBSET (1 .. N) -> Scans(rest)] : IsFold(h, F, Open({}), q, N)
  <2>1. HasFold(Scans(rest), F, Open({}), q, N)
    BY <1>1, <1>2, FoldExists
  <2>2. QED
    BY <2>1 DEF HasFold
<1>4. h = Step(h)
  <2> HIDE DEF q
  <2>1. ASSUME NEW I \in SUBSET DOMAIN q, I # {}
        PROVE  h[I] = ScanOn(command, rest, h[I \ {Max(I)}], q[Max(I)])
    <3>1. Max(I) \in 1 .. N /\ I \ {Max(I)} \in SUBSET (1 .. N)
      BY <1>1, <2>1, MaxInInterval
    <3>2. h[I] = F[<<h[I \ {Max(I)}], q[Max(I)]>>]
      BY <1>1, <1>3, <2>1 DEF IsFold
    <3>3. h[I \ {Max(I)}] \in Scans(rest) /\ q[Max(I)] \in 1 .. N
      BY <1>1, <1>3, <3>1
    <3>4. QED
      BY <1>2a, <3>2, <3>3
  <2>2. h[{}] = Open({}) /\ h = [I \in SUBSET DOMAIN q |-> h[I]]
    BY <1>1, <1>3 DEF IsFold
  <2>3. QED
    BY <2>1, <2>2
<1>5. g = Step(g)
  BY <1>4
<1>6. Scan(command, rest) = g[DOMAIN q]
  BY DEF Scan, ScanOn, Open, FoldLeftDomain, FoldLeft, MapThenFoldSet, Max
<1> HIDE DEF g, q
<1>7. g[{}] = Open({})
  BY <1>5
<1>8. ASSUME NEW m \in 1 .. N
      PROVE  g[1 .. m] = ScanOn(command, rest, g[1 .. m - 1], m)
  <2>1. Max(1 .. m) = m /\ (1 .. m) \ {m} = 1 .. m - 1 /\ 1 .. m # {}
    BY LastPosition
  <2>2. 1 .. m \in SUBSET DOMAIN q
    BY <1>1
  <2>3. g[1 .. m] = ScanOn(command, rest, g[(1 .. m) \ {Max(1 .. m)}], q[Max(1 .. m)])
    BY <1>5, <2>1, <2>2
  <2>4. QED
    BY <1>1, <2>1, <2>3
<1>9. PICK v : v = [m \in 0 .. N |-> g[1 .. m]]
  OBVIOUS
<1>10. v[0] = Open({})
  <2>1. 1 .. 0 = {}
    OBVIOUS
  <2>2. QED
    BY <1>1, <1>7, <1>9, <2>1
<1>11. ASSUME NEW m \in 1 .. N PROVE v[m] = ScanOn(command, rest, v[m - 1], m)
  <2>1. m \in 0 .. N /\ m - 1 \in 0 .. N
    BY <1>1
  <2>2. v[m] = g[1 .. m] /\ v[m - 1] = g[1 .. m - 1]
    BY <1>9, <2>1
  <2>3. QED
    BY <1>8, <2>2
<1>12. v[N] = g[DOMAIN q]
  BY <1>1, <1>9
<1>13. QED
  BY <1>6, <1>10, <1>11, <1>12 DEF N

-----------------------------------------------------------------------------
(* The scan, one option at a time.                                         *)

\* What an item gives, and whether the command takes it at all.
Opt(item) == IF item = <<Flag>> THEN <<Flag, "set">> ELSE <<item[1], item[2]>>
Suits(command, item) ==
    IF item = <<Flag>> THEN command = "tui"
    ELSE item[1] \in OptionsOf(command) /\ Valid(item[1], item[2])

\* v[i] is the scan after i words; rest has the item behind its first a words.
Traces(command, rest, v) == \A i \in 1 .. Len(rest) : v[i] = ScanOn(command, rest, v[i - 1], i)
HasAt(rest, a, item) == \A k \in 1 .. Len(item) : rest[a + k] = item[k]

LEMMA FlagIsNoOption ==
    ASSUME NEW command PROVE Flag \notin OptionsOf(command)
  BY DEF Flag, OptionsOf

LEMMA OpenFacts ==
    ASSUME NEW g PROVE Open(g).ok /\ ~Open(g).skip /\ Open(g).given = g /\ Open(g) # Refused
<1>1. Open(g).ok = TRUE /\ Open(g).skip = FALSE /\ Open(g).given = g
  BY DEF Open
<1>2. Refused.ok = FALSE
  BY DEF Refused
<1>3. QED
  BY <1>1, <1>2

LEMMA RefusedStays ==
    ASSUME NEW command, NEW rest, NEW i PROVE ScanOn(command, rest, Refused, i) = Refused
<1>1. Refused.ok = FALSE
  BY DEF Refused
<1>2. QED
  BY <1>1 DEF ScanOn

LEMMA SkipsValue ==
    ASSUME NEW command, NEW rest, NEW i, NEW g
    PROVE  ScanOn(command, rest, [ok |-> TRUE, skip |-> TRUE, given |-> g], i) = Open(g)
<1>1. PICK x : x = [ok |-> TRUE, skip |-> TRUE, given |-> g]
  OBVIOUS
<1>2. x.ok = TRUE /\ x.skip = TRUE /\ [x EXCEPT !.skip = FALSE] = Open(g)
  <2>1. x.ok = TRUE /\ x.skip = TRUE
    BY <1>1
  <2>2. x \in [ok : {TRUE}, skip : {TRUE}, given : {g}]
    BY <1>1
  <2>3. PICK y : y = [x EXCEPT !.skip = FALSE]
    OBVIOUS
  <2>4. y \in [ok : {TRUE}, skip : {FALSE}, given : {g}]
    BY <2>2, <2>3
  <2>5. y = [ok |-> TRUE, skip |-> FALSE, given |-> g]
    BY <2>4
  <2>6. QED
    BY <2>1, <2>3, <2>5 DEF Open
<1>3. ScanOn(command, rest, x, i) = [x EXCEPT !.skip = FALSE]
  BY <1>2 DEF ScanOn
<1>4. QED
  BY <1>1, <1>2, <1>3

LEMMA TakeRefuses ==
    ASSUME NEW command, NEW g, NEW name, NEW value,
           ~(name \in OptionsOf(command) \ Names(g) /\ Valid(name, value))
    PROVE  ~Take(command, g, name, value).ok
  BY DEF Take, Refused

LEMMA TakeAccepts ==
    ASSUME NEW command, NEW g, NEW name, NEW value,
           name \in OptionsOf(command) \ Names(g), Valid(name, value)
    PROVE  Take(command, g, name, value).ok
  BY DEF Take

LEMMA FlagScanned ==
    ASSUME NEW command, NEW rest, NEW i, NEW g, rest[i] = Flag,
           NEW z, z = ScanOn(command, rest, Open(g), i)
    PROVE  z = IF command = "tui" /\ Flag \notin Names(g) THEN Open(g \cup {<<Flag, "set">>})
               ELSE Refused
<1>1. PICK x : x = Open(g)
  OBVIOUS
<1>2. x.ok /\ ~x.skip /\ x.given = g
  BY <1>1, OpenFacts
<1>3. CASE command = "tui"
  <2>1. z = IF Flag \in Names(x.given) THEN Refused
            ELSE [x EXCEPT !.given = @ \cup {<<Flag, "set">>}]
    BY <1>1, <1>2, <1>3 DEF ScanOn
  <2>2. [x EXCEPT !.given = @ \cup {<<Flag, "set">>}] = Open(g \cup {<<Flag, "set">>})
    <3>1. PICK h : h = g \cup {<<Flag, "set">>}
      OBVIOUS
    <3>2. x \in [ok : {TRUE}, skip : {FALSE}, given : {g}]
      BY <1>1 DEF Open
    <3>3. PICK y : y = [x EXCEPT !.given = h]
      OBVIOUS
    <3>4. y \in [ok : {TRUE}, skip : {FALSE}, given : {h}]
      BY <3>2, <3>3
    <3>5. y = [ok |-> TRUE, skip |-> FALSE, given |-> h]
      BY <3>4
    <3>6. QED
      BY <1>2, <3>1, <3>3, <3>5 DEF Open
  <2>3. QED
    BY <1>2, <1>3, <2>1, <2>2
<1>4. CASE command # "tui"
  <2>1. PICK t : t = Take(command, g, rest[i], rest[i + 1])
    OBVIOUS
  <2>2. ~t.ok
    BY <2>1, FlagIsNoOption, TakeRefuses
  <2>3. z = IF i = Len(rest) THEN Refused
            ELSE IF t.ok THEN [ok |-> TRUE, skip |-> TRUE, given |-> t.given] ELSE Refused
    BY <1>1, <1>2, <1>4, <2>1 DEF ScanOn
  <2>4. QED
    BY <1>4, <2>2, <2>3
<1>5. QED
  BY <1>3, <1>4

LEMMA PairScanned ==
    ASSUME NEW command, NEW rest, NEW i, NEW g, i # Len(rest), rest[i] # Flag,
           NEW z, z = ScanOn(command, rest, Open(g), i)
    PROVE  z = IF rest[i] \in OptionsOf(command) \ Names(g) /\ Valid(rest[i], rest[i + 1])
               THEN [ok |-> TRUE, skip |-> TRUE, given |-> g \cup {<<rest[i], rest[i + 1]>>}]
               ELSE Refused
<1>1. PICK x : x = Open(g)
  OBVIOUS
<1>2. x.ok /\ ~x.skip /\ x.given = g
  BY <1>1, OpenFacts
<1>3. PICK t, a, b : t = Take(command, g, a, b) /\ a = rest[i] /\ b = rest[i + 1]
  OBVIOUS
<1>4. z = IF t.ok THEN [ok |-> TRUE, skip |-> TRUE, given |-> t.given] ELSE Refused
  BY <1>1, <1>2, <1>3 DEF ScanOn
<1>5. CASE a \in OptionsOf(command) \ Names(g) /\ Valid(a, b)
  <2>1. t.ok
    BY <1>3, <1>5, TakeAccepts
  <2>2. t.given = g \cup {<<a, b>>}
    BY <1>3, <2>1, TakeTakes
  <2>3. QED
    BY <1>3, <1>4, <1>5, <2>1, <2>2
<1>6. CASE ~(a \in OptionsOf(command) \ Names(g) /\ Valid(a, b))
  <2>1. ~t.ok
    BY <1>3, <1>6, TakeRefuses
  <2>2. QED
    BY <1>3, <1>4, <1>6, <2>1
<1>7. QED
  BY <1>5, <1>6

\* An item is scanned as a whole, whatever comes before and after it.
LEMMA ItemScanned ==
    ASSUME NEW command, NEW rest \in Words, NEW item \in Words, IsOption(item),
           NEW a \in Nat, a + Len(item) <= Len(rest),
           HasAt(rest, a, item),
           NEW v, Traces(command, rest, v), NEW g, v[a] = Open(g)
    PROVE  v[a + Len(item)] = IF Suits(command, item) /\ Opt(item)[1] \notin Names(g)
                              THEN Open(g \cup {Opt(item)}) ELSE Refused
<1>1. Len(rest) \in Nat /\ Len(item) \in Nat /\ item \in Seq(STRING)
  BY DEF Words
<1>1a. \A k \in 1 .. Len(item) : rest[a + k] = item[k]
  BY DEF HasAt
<1>1b. \A i \in 1 .. Len(rest) : v[i] = ScanOn(command, rest, v[i - 1], i)
  BY DEF Traces
<1>2. CASE item = <<Flag>>
  <2>1. Len(item) = 1 /\ item[1] = Flag /\ Opt(item) = <<Flag, "set">> /\ Opt(item)[1] = Flag
    BY <1>2 DEF Opt
  <2>2. a + 1 \in 1 .. Len(rest) /\ (a + 1) - 1 = a
    BY <1>1, <2>1
  <2>3. rest[a + 1] = Flag
    BY <1>1a, <2>1
  <2>4. v[a + 1] = ScanOn(command, rest, Open(g), a + 1)
    BY <1>1b, <2>2
  <2>5. v[a + 1] = IF command = "tui" /\ Flag \notin Names(g)
                   THEN Open(g \cup {<<Flag, "set">>})
                   ELSE Refused
    <3>1. PICK i : i = a + 1
      OBVIOUS
    <3>2. rest[i] = Flag /\ v[i] = ScanOn(command, rest, Open(g), i)
      BY <2>3, <2>4, <3>1
    <3>3. v[i] = IF command = "tui" /\ Flag \notin Names(g) THEN Open(g \cup {<<Flag, "set">>})
                 ELSE Refused
      BY <3>2, FlagScanned
    <3>4. QED
      BY <3>1, <3>3
  <2>6. Suits(command, item) <=> command = "tui"
    BY <1>2 DEF Suits
  <2>7. QED
    BY <2>1, <2>5, <2>6
<1>3. CASE item # <<Flag>>
  <2>1. Len(item) = 2 /\ item[1] \in OptionsOf("run") \cup OptionsOf("probe")
    BY <1>3 DEF IsOption
  <2>2. item[1] # Flag
    BY <2>1, FlagIsNoOption
  <2>3. a + 1 \in 1 .. Len(rest) /\ (a + 1) - 1 = a /\ a + 2 \in 1 .. Len(rest)
        /\ (a + 2) - 1 = a + 1 /\ (a + 1) + 1 = a + 2 /\ a + 1 # Len(rest)
    BY <1>1, <2>1
  <2>4. PICK n, w : n = item[1] /\ w = item[2]
    OBVIOUS
  <2>5. rest[a + 1] = n /\ rest[a + 2] = w
    <3>1. \A k \in 1 .. 2 : rest[a + k] = item[k]
      BY <1>1a, <2>1
    <3>2. QED
      BY <2>4, <3>1
  <2>6. v[a + 1] = ScanOn(command, rest, Open(g), a + 1)
    BY <1>1b, <2>3
  <2>7. v[a + 2] = ScanOn(command, rest, v[a + 1], a + 2)
    BY <1>1b, <2>3
  <2>8. v[a + 1] = IF n \in OptionsOf(command) \ Names(g) /\ Valid(n, w)
                   THEN [ok |-> TRUE, skip |-> TRUE, given |-> g \cup {<<n, w>>}]
                   ELSE Refused
    <3>1. PICK i : i = a + 1
      OBVIOUS
    <3>2. i # Len(rest) /\ rest[i] = n /\ rest[i] # Flag /\ rest[i + 1] = w
      BY <2>2, <2>3, <2>4, <2>5, <3>1
    <3>3. v[a + 1] = ScanOn(command, rest, Open(g), i)
      BY <2>6, <3>1
    <3>4. QED
      BY <3>2, <3>3, PairScanned
  <2>9. Opt(item) = <<n, w>> /\ Opt(item)[1] = n
        /\ (Suits(command, item) <=> n \in OptionsOf(command) /\ Valid(n, w))
    BY <1>3, <2>4 DEF Opt, Suits
  <2>10. CASE n \in OptionsOf(command) \ Names(g) /\ Valid(n, w)
    <3>1. v[a + 2] = Open(g \cup {<<n, w>>})
      <4>1. PICK h : h = g \cup {<<n, w>>}
        OBVIOUS
      <4>2. v[a + 1] = [ok |-> TRUE, skip |-> TRUE, given |-> h]
        BY <2>8, <2>10, <4>1
      <4>3. v[a + 2] = ScanOn(command, rest, [ok |-> TRUE, skip |-> TRUE, given |-> h], a + 2)
        BY ONLY <2>7, <4>2
      <4>4. v[a + 2] = Open(h)
        BY ONLY <4>3, SkipsValue
      <4>5. QED
        BY <4>1, <4>4
    <3>2. QED
      BY <2>1, <2>9, <2>10, <3>1
  <2>11. CASE ~(n \in OptionsOf(command) \ Names(g) /\ Valid(n, w))
    <3>1. v[a + 2] = Refused
      BY <2>7, <2>8, <2>11, RefusedStays
    <3>2. QED
      BY <2>1, <2>9, <2>11, <3>1
  <2>12. QED
    BY <2>10, <2>11
<1>4. QED
  BY <1>2, <1>3

LEMMA ItemRefused ==
    ASSUME NEW command, NEW rest \in Words, NEW item \in Words, IsOption(item),
           NEW a \in Nat, a + Len(item) <= Len(rest),
           NEW v, Traces(command, rest, v), v[a] = Refused
    PROVE  v[a + Len(item)] = Refused
<1>1. Len(rest) \in Nat
  BY DEF Words
<1>1a. \A i \in 1 .. Len(rest) : v[i] = ScanOn(command, rest, v[i - 1], i)
  BY DEF Traces
<1>2. Len(item) = 1 \/ Len(item) = 2
  BY DEF IsOption
<1>3. a + 1 \in 1 .. Len(rest) /\ (a + 1) - 1 = a
  <2>1. CASE Len(item) = 1
    BY <1>1, <2>1
  <2>2. CASE Len(item) = 2
    BY <1>1, <2>2
  <2>3. QED
    BY <1>2, <2>1, <2>2
<1>4. v[a + 1] = Refused
  BY <1>1a, <1>3, RefusedStays
<1>5. CASE Len(item) = 2
  <2>1. a + 2 \in 1 .. Len(rest) /\ (a + 2) - 1 = a + 1
    BY <1>1, <1>5
  <2>2. v[a + 2] = Refused
    BY <1>1a, <1>4, <2>1, RefusedStays
  <2>3. QED
    BY <1>5, <2>2
<1>6. QED
  BY <1>2, <1>4, <1>5

-----------------------------------------------------------------------------
(* All of the options: a set, whatever their order.                        *)

\* Items that are options the command takes, each with a name of its own.
Options(list) == list \in Seq(Words) /\ \A i \in 1 .. Len(list) : IsOption(list[i])
Given(list, m) == {Opt(list[j]) : j \in 1 .. m}
AllSuit(command, list, m) ==
    /\ \A j \in 1 .. m : Suits(command, list[j])
    /\ \A i, j \in 1 .. m : Opt(list[i])[1] = Opt(list[j])[1] => i = j

LEMMA GivenGrows ==
    ASSUME NEW list, NEW n \in Nat
    PROVE  /\ Given(list, n + 1) = Given(list, n) \cup {Opt(list[n + 1])}
           /\ \A command :
                 AllSuit(command, list, n + 1)
                   <=> /\ AllSuit(command, list, n) /\ Suits(command, list[n + 1])
                       /\ Opt(list[n + 1])[1] \notin Names(Given(list, n))
<1>1. \A j : j \in 1 .. n + 1 <=> j \in 1 .. n \/ j = n + 1
  OBVIOUS
<1>2. Given(list, n + 1) = Given(list, n) \cup {Opt(list[n + 1])}
  <2>1. \A x : x \in Given(list, n + 1) <=> \E j \in 1 .. n + 1 : x = Opt(list[j])
    BY DEF Given
  <2>2. \A x : x \in Given(list, n) <=> \E j \in 1 .. n : x = Opt(list[j])
    BY DEF Given
  <2>3. QED
    BY <1>1, <2>1, <2>2
<1>3. \A x : x \in Names(Given(list, n)) <=> \E j \in 1 .. n : x = Opt(list[j])[1]
  BY DEF Names, Given
<1>4. ASSUME NEW command, AllSuit(command, list, n + 1)
      PROVE  /\ AllSuit(command, list, n) /\ Suits(command, list[n + 1])
             /\ Opt(list[n + 1])[1] \notin Names(Given(list, n))
  <2>1. AllSuit(command, list, n) /\ Suits(command, list[n + 1])
    BY <1>1, <1>4 DEF AllSuit
  <2>2. \A j \in 1 .. n : Opt(list[n + 1])[1] # Opt(list[j])[1]
    <3>1. \A j \in 1 .. n : j \in 1 .. n + 1 /\ n + 1 \in 1 .. n + 1 /\ j # n + 1
      OBVIOUS
    <3>2. \A i, j \in 1 .. n + 1 : Opt(list[i])[1] = Opt(list[j])[1] => i = j
      BY <1>4 DEF AllSuit
    <3>3. QED
      BY <3>1, <3>2
  <2>3. QED
    BY <1>3, <2>1, <2>2
<1>5. ASSUME NEW command, AllSuit(command, list, n), Suits(command, list[n + 1]),
             Opt(list[n + 1])[1] \notin Names(Given(list, n))
      PROVE  AllSuit(command, list, n + 1)
  <2>1. \A j \in 1 .. n : Opt(list[n + 1])[1] # Opt(list[j])[1]
    BY <1>3, <1>5
  <2>2. \A j \in 1 .. n + 1 : Suits(command, list[j])
    BY <1>1, <1>5 DEF AllSuit
  <2>3. \A i, j \in 1 .. n : Opt(list[i])[1] = Opt(list[j])[1] => i = j
    BY <1>5 DEF AllSuit
  <2>4. \A i, j \in 1 .. n + 1 : Opt(list[i])[1] = Opt(list[j])[1] => i = j
    BY <1>1, <2>1, <2>3
  <2>5. QED
    BY <2>2, <2>4 DEF AllSuit
<1>6. QED
  BY <1>2, <1>4, <1>5

\* The scan of a list of options: all of them, or none.
LEMMA OptionsScanned ==
    ASSUME NEW command, NEW list, Options(list), NEW rest, rest = FlattenSeq(list)
    PROVE  /\ rest \in Words
           /\ Scan(command, rest) = IF AllSuit(command, list, Len(list))
                                    THEN Open(Given(list, Len(list))) ELSE Refused
<1>1. list \in Seq(Words) /\ Len(list) \in Nat /\ \A i \in 1 .. Len(list) : IsOption(list[i])
  BY DEF Options
<1>2. PICK ends : MadeOf(list, Len(list), rest, ends)
  BY <1>1, FlattenMade
<1>3. /\ rest \in Words /\ ends[0] = 0 /\ ends[Len(list)] = Len(rest)
      /\ \A j \in 0 .. Len(list) : ends[j] \in Nat /\ ends[j] <= Len(rest)
      /\ \A j \in 1 .. Len(list) : /\ ends[j] = ends[j - 1] + Len(list[j])
                                   /\ \A k \in 1 .. Len(list[j]) : rest[ends[j - 1] + k] = list[j][k]
  BY <1>2 DEF MadeOf
<1>4. PICK v : /\ v[0] = Open({})
               /\ \A m \in 1 .. Len(rest) : v[m] = ScanOn(command, rest, v[m - 1], m)
               /\ Scan(command, rest) = v[Len(rest)]
  BY <1>3, ScanFolds
<1> DEFINE At(m) == v[ends[m]] = IF AllSuit(command, list, m)
                                 THEN Open(Given(list, m)) ELSE Refused
           Bad == {m \in 0 .. Len(list) : ~At(m)}
<1>5. At(0)
  <2>1. 1 .. 0 = {}
    OBVIOUS
  <2>2. AllSuit(command, list, 0) /\ Given(list, 0) = {}
    BY <2>1 DEF AllSuit, Given
  <2>3. QED
    BY <1>3, <1>4, <2>2
<1>6. ASSUME NEW m \in 1 .. Len(list), At(m - 1) PROVE At(m)
  <2>1. PICK n, a, item, g : n = m - 1 /\ a = ends[n] /\ item = list[m] /\ g = Given(list, n)
    OBVIOUS
  <2>2. n \in Nat /\ n + 1 = m /\ n \in 0 .. Len(list) /\ m \in 0 .. Len(list)
    BY <1>1, <2>1
  <2>3. item \in Words /\ IsOption(item)
    BY <1>1, <2>1
  <2>4. a \in Nat /\ ends[m] = a + Len(item) /\ HasAt(rest, a, item)
    BY <1>3, <2>1, <2>2 DEF HasAt
  <2>5. a + Len(item) <= Len(rest)
    BY <1>3, <2>2, <2>4
  <2>6. v[a] = IF AllSuit(command, list, n) THEN Open(g) ELSE Refused
    BY <1>6, <2>1
  <2>7. Traces(command, rest, v)
    BY <1>4 DEF Traces
  <2>8. Given(list, m) = g \cup {Opt(item)}
        /\ (AllSuit(command, list, m)
              <=> /\ AllSuit(command, list, n) /\ Suits(command, item)
                  /\ Opt(item)[1] \notin Names(g))
    <3>1. /\ Given(list, n + 1) = Given(list, n) \cup {Opt(list[n + 1])}
          /\ AllSuit(command, list, n + 1)
               <=> /\ AllSuit(command, list, n) /\ Suits(command, list[n + 1])
                   /\ Opt(list[n + 1])[1] \notin Names(Given(list, n))
      BY <2>2, GivenGrows
    <3>2. QED
      BY <2>1, <2>2, <3>1
  <2>8a. rest \in Words
    BY <1>3
  <2>9. CASE AllSuit(command, list, n)
    <3>1. v[a + Len(item)] = IF Suits(command, item) /\ Opt(item)[1] \notin Names(g)
                             THEN Open(g \cup {Opt(item)}) ELSE Refused
      <4>1. v[a] = Open(g)
        BY <2>6, <2>9
      <4>2. QED
        BY ONLY <2>3, <2>4, <2>5, <2>7, <2>8a, <4>1, ItemScanned
    <3>2. QED
      BY <2>4, <2>8, <2>9, <3>1
  <2>10. CASE ~AllSuit(command, list, n)
    <3>1. v[a] = Refused
      BY <2>6, <2>10
    <3>2. v[a + Len(item)] = Refused
      BY ONLY <2>3, <2>4, <2>5, <2>7, <2>8a, <3>1, ItemRefused
    <3>3. QED
      BY <2>4, <2>8, <2>10, <3>2
  <2>11. QED
    BY <2>9, <2>10
<1>7. ASSUME Bad # {} PROVE FALSE
  <2>1. 0 \notin Bad /\ Bad \in SUBSET (0 .. Len(list))
    BY <1>5
  <2>2. PICK m \in 1 .. Len(list) : m \in Bad /\ m - 1 \notin Bad /\ m - 1 \in 0 .. Len(list)
    <3> HIDE DEF Bad
    <3>1. QED
      BY <1>1, <1>7, <2>1, FirstFailure
  <2>3. At(m - 1) /\ ~At(m)
    BY <2>2
  <2> HIDE DEF At
  <2>4. QED
    BY <1>6, <2>3
<1>8. At(Len(list))
  <2>1. Len(list) \in 0 .. Len(list)
    BY <1>1
  <2> HIDE DEF At
  <2>2. QED
    BY <1>7, <2>1
<1>9. QED
  BY <1>3, <1>4, <1>8

\* Another order gives the same.
LEMMA OrderGivesTheSame ==
    ASSUME NEW list, Options(list), NEW p \in Bijection(1 .. Len(list), 1 .. Len(list)),
           NEW order, order = [i \in 1 .. Len(list) |-> list[p[i]]], NEW command
    PROVE  /\ Options(order) /\ Len(order) = Len(list)
           /\ Given(order, Len(list)) = Given(list, Len(list))
           /\ AllSuit(command, list, Len(list)) => AllSuit(command, order, Len(list))
<1> DEFINE N == Len(list)
<1>1. list \in Seq(Words) /\ N \in Nat /\ \A i \in 1 .. N : IsOption(list[i])
  BY DEF Options
<1>2. /\ p \in [1 .. N -> 1 .. N]
      /\ \A i, j \in 1 .. N : p[i] = p[j] => i = j
      /\ \A j \in 1 .. N : \E i \in 1 .. N : p[i] = j
  BY DEF Bijection, Injection, Surjection, IsInjective
<1> HIDE DEF N
<1>3. order \in Seq(Words) /\ Len(order) = N
  <2>1. \A i \in 1 .. N : list[i] \in Words
    BY <1>1 DEF N
  <2>2. order = [i \in 1 .. N |-> list[p[i]]]
    BY DEF N
  <2>3. ASSUME NEW i \in 1 .. N PROVE order[i] \in Words
    <3>1. p[i] \in 1 .. N
      BY <1>2
    <3>2. order[i] = list[p[i]]
      BY <2>2
    <3>3. QED
      BY <2>1, <3>1, <3>2
  <2>4. order \in [1 .. N -> Words]
    BY <2>2, <2>3
  <2>5. QED
    BY <1>1, <2>4
<1>4. \A i \in 1 .. N : p[i] \in 1 .. N /\ order[i] = list[p[i]]
  BY <1>2 DEF N
<1>5. Options(order)
  BY <1>1, <1>3, <1>4 DEF Options
<1>6. Given(order, N) = Given(list, N)
  <2>1. \A x : x \in Given(order, N) <=> \E j \in 1 .. N : x = Opt(order[j])
    BY DEF Given
  <2>2. \A x : x \in Given(list, N) <=> \E j \in 1 .. N : x = Opt(list[j])
    BY DEF Given
  <2>3. \A x : x \in Given(order, N) => x \in Given(list, N)
    BY <1>4, <2>1, <2>2
  <2>4. ASSUME NEW x \in Given(list, N) PROVE x \in Given(order, N)
    <3>1. PICK j \in 1 .. N : x = Opt(list[j])
      BY <2>2
    <3>2. PICK i \in 1 .. N : p[i] = j
      BY <1>2
    <3>3. order[i] = list[j]
      BY <1>4, <3>2
    <3>4. QED
      BY <2>1, <3>1, <3>3
  <2>5. QED
    BY <2>3, <2>4
<1>7. ASSUME AllSuit(command, list, N) PROVE AllSuit(command, order, N)
  <2>1. \A j \in 1 .. N : Suits(command, list[j])
    BY <1>7 DEF AllSuit
  <2>2. \A i, j \in 1 .. N : Opt(list[i])[1] = Opt(list[j])[1] => i = j
    BY <1>7 DEF AllSuit
  <2>3. \A j \in 1 .. N : Suits(command, order[j])
    BY <1>4, <2>1
  <2>4. ASSUME NEW i \in 1 .. N, NEW j \in 1 .. N, Opt(order[i])[1] = Opt(order[j])[1]
        PROVE  i = j
    <3>1. p[i] = p[j]
      <4>1. PICK a, b : a = p[i] /\ b = p[j]
        OBVIOUS
      <4>2. a \in 1 .. N /\ b \in 1 .. N /\ order[i] = list[a] /\ order[j] = list[b]
        BY <1>4, <4>1
      <4>3. Opt(list[a])[1] = Opt(list[b])[1]
        BY <2>4, <4>2
      <4>4. QED
        BY <2>2, <4>1, <4>2, <4>3
    <3>2. QED
      BY <1>2, <3>1
  <2>5. QED
    BY <2>3, <2>4 DEF AllSuit
<1>8. QED
  BY <1>3, <1>5, <1>6, <1>7 DEF N

-----------------------------------------------------------------------------
(* The head of a line selects the command.                                 *)

AnyWord == STRING \cup {"node", "run", "probe", "tui"}

LEMMA WordsAreWords ==
    ASSUME NEW w \in Words PROVE w \in Seq(AnyWord)
<1>1. \A i \in 1 .. Len(w) : w[i] \in AnyWord
  BY DEF Words, AnyWord
<1>2. Len(w) \in Nat /\ w \in [1 .. Len(w) -> AnyWord]
  BY <1>1 DEF Words
<1>3. QED
  BY <1>2

LEMMA PrefixIs ==
    ASSUME NEW s \in Seq(AnyWord), NEW t \in Seq(AnyWord)
    PROVE  IsPrefix(s, t) <=> Len(s) <= Len(t) /\ \A i \in 1 .. Len(s) : s[i] = t[i]
<1>1. Len(s) \in Nat /\ Len(t) \in Nat
  OBVIOUS
<1>2. SubSeq(s, 1, Len(s)) = s
  BY SubSeqFull
<1>3. ASSUME Len(s) <= Len(t)
      PROVE  SubSeq(t, 1, Len(s)) = s <=> \A i \in 1 .. Len(s) : s[i] = t[i]
  <2>1. PICK u : u = SubSeq(t, 1, Len(s))
    OBVIOUS
  <2>2. \A i \in 1 .. Len(s) : t[i] \in AnyWord
    BY <1>1, <1>3
  <2>3. u \in Seq(AnyWord) /\ Len(u) = Len(s) /\ \A i \in 1 .. Len(s) : u[i] = t[i]
    BY <1>1, <2>1, <2>2, SubSeqProperties
  <2>4. ASSUME \A i \in 1 .. Len(s) : s[i] = t[i] PROVE u = s
    <3>1. \A i \in 1 .. Len(u) : u[i] = s[i]
      BY <2>3, <2>4
    <3>2. QED
      BY <2>3, <3>1, SeqEqual
  <2>5. QED
    BY <2>1, <2>3, <2>4
<1>4. QED
  BY <1>2, <1>3 DEF IsPrefix

LEMMA PrefixOfTwo ==
    ASSUME NEW a \in AnyWord, NEW b \in AnyWord, NEW s, s = <<a, b>>, NEW t \in Seq(AnyWord)
    PROVE  IsPrefix(s, t) <=> 2 <= Len(t) /\ t[1] = a /\ t[2] = b
<1>1. s \in Seq(AnyWord) /\ Len(s) = 2 /\ s[1] = a /\ s[2] = b
  OBVIOUS
<1>2. IsPrefix(s, t) <=> Len(s) <= Len(t) /\ \A i \in 1 .. Len(s) : s[i] = t[i]
  BY ONLY <1>1, t \in Seq(AnyWord), PrefixIs
<1>3. QED
  BY ONLY <1>1, <1>2

LEMMA PrefixOfOne ==
    ASSUME NEW a \in AnyWord, NEW s, s = <<a>>, NEW t \in Seq(AnyWord)
    PROVE  IsPrefix(s, t) <=> 1 <= Len(t) /\ t[1] = a
<1>1. s \in Seq(AnyWord) /\ Len(s) = 1 /\ s[1] = a
  OBVIOUS
<1>2. IsPrefix(s, t) <=> Len(s) <= Len(t) /\ \A i \in 1 .. Len(s) : s[i] = t[i]
  BY ONLY <1>1, t \in Seq(AnyWord), PrefixIs
<1>3. QED
  BY ONLY <1>1, <1>2

LEMMA CommandPrefixes ==
    ASSUME NEW args \in Seq(AnyWord)
    PROVE  /\ IsPrefix(<<"node", "run">>, args)
                <=> 2 <= Len(args) /\ args[1] = "node" /\ args[2] = "run"
           /\ IsPrefix(<<"node", "probe">>, args)
                <=> 2 <= Len(args) /\ args[1] = "node" /\ args[2] = "probe"
           /\ IsPrefix(<<"tui">>, args) <=> 1 <= Len(args) /\ args[1] = "tui"
<1>1. "node" \in AnyWord /\ "run" \in AnyWord /\ "probe" \in AnyWord /\ "tui" \in AnyWord
  BY DEF AnyWord
<1>2. PICK n, r, p, t : n = "node" /\ r = "run" /\ p = "probe" /\ t = "tui"
  OBVIOUS
<1>3. n \in AnyWord /\ r \in AnyWord /\ p \in AnyWord /\ t \in AnyWord
  BY <1>1, <1>2
<1>4. PICK nr, np, tt : nr = <<n, r>> /\ np = <<n, p>> /\ tt = <<t>>
  OBVIOUS
<1>5. IsPrefix(nr, args) <=> 2 <= Len(args) /\ args[1] = n /\ args[2] = r
  BY ONLY <1>3, <1>4, args \in Seq(AnyWord), PrefixOfTwo
<1>6. IsPrefix(np, args) <=> 2 <= Len(args) /\ args[1] = n /\ args[2] = p
  BY ONLY <1>3, <1>4, args \in Seq(AnyWord), PrefixOfTwo
<1>7. IsPrefix(tt, args) <=> 1 <= Len(args) /\ args[1] = t
  BY ONLY <1>3, <1>4, args \in Seq(AnyWord), PrefixOfOne
<1>8. QED
  BY ONLY <1>2, <1>4, <1>5, <1>6, <1>7

\* What the first words select.
ProbeOf(rest) == parse_target("probe", rest, 2000)
TuiOf(rest) == parse_target("tui", rest, 30000)
NoHelp(args) ==
    /\ args \notin {<<>>, <<"--help">>, <<"-h">>}
    /\ args \notin {<<"--version">>, <<"-V">>}

LEMMA RunIsParsed ==
    ASSUME NEW args \in Seq(AnyWord), 2 <= Len(args), args[1] = "node", args[2] = "run"
    PROVE  parse_command(args) = parse_run(SubSeq(args, 3, Len(args)))
<1>1. NoHelp(args)
  BY DEF NoHelp
<1>2. /\ IsPrefix(<<"node", "run">>, args) /\ ~IsPrefix(<<"node", "probe">>, args)
      /\ ~IsPrefix(<<"tui">>, args)
  BY CommandPrefixes
<1>3. QED
  BY ONLY <1>1, <1>2 DEF parse_command, NoHelp

LEMMA ProbeIsParsed ==
    ASSUME NEW args \in Seq(AnyWord), 2 <= Len(args), args[1] = "node", args[2] = "probe"
    PROVE  parse_command(args) = ProbeOf(SubSeq(args, 3, Len(args)))
<1>1. NoHelp(args)
  BY DEF NoHelp
<1>2. /\ ~IsPrefix(<<"node", "run">>, args) /\ IsPrefix(<<"node", "probe">>, args)
      /\ ~IsPrefix(<<"tui">>, args)
  BY CommandPrefixes
<1>3. QED
  BY ONLY <1>1, <1>2 DEF parse_command, NoHelp, ProbeOf, TuiOf

LEMMA TuiIsParsed ==
    ASSUME NEW args \in Seq(AnyWord), 1 <= Len(args), args[1] = "tui"
    PROVE  parse_command(args) = TuiOf(Tail(args))
<1>1. NoHelp(args)
  BY DEF NoHelp
<1>2. /\ ~IsPrefix(<<"node", "run">>, args) /\ ~IsPrefix(<<"node", "probe">>, args)
      /\ IsPrefix(<<"tui">>, args)
  BY CommandPrefixes
<1>3. QED
  BY ONLY <1>1, <1>2 DEF parse_command, NoHelp, ProbeOf, TuiOf

CommandWords == {"node", "run", "probe", "tui", "--help", "-h", "--version", "-V"}

LEMMA NothingIsParsed ==
    ASSUME NEW args \in Seq(AnyWord),
           \/ 1 <= Len(args) /\ args[1] \notin CommandWords
           \/ 2 <= Len(args) /\ args[1] = "node" /\ args[2] \notin CommandWords
    PROVE  parse_command(args) = Refused
<1>1. NoHelp(args)
  BY DEF NoHelp, CommandWords
<1>2. /\ ~IsPrefix(<<"node", "run">>, args) /\ ~IsPrefix(<<"node", "probe">>, args)
      /\ ~IsPrefix(<<"tui">>, args)
  BY CommandPrefixes DEF CommandWords
<1>3. QED
  BY ONLY <1>1, <1>2 DEF parse_command, NoHelp, ProbeOf, TuiOf

LEMMA LineParts ==
    ASSUME NEW h \in Seq(AnyWord), NEW rest \in Words, NEW args, args = h \o rest
    PROVE  /\ rest \in Seq(AnyWord) /\ args \in Seq(AnyWord)
           /\ Len(h) \in Nat /\ Len(rest) \in Nat /\ Len(args) = Len(h) + Len(rest)
           /\ \A i \in 1 .. Len(h) : args[i] = h[i]
           /\ \A i \in 1 .. Len(rest) : args[Len(h) + i] = rest[i]
<1>1. rest \in Seq(AnyWord)
  BY WordsAreWords
<1>2. PICK S : S = AnyWord
  OBVIOUS
<1>3. h \in Seq(S) /\ rest \in Seq(S)
  BY <1>1, <1>2
<1>4. /\ args \in Seq(S)
      /\ Len(h) \in Nat /\ Len(rest) \in Nat /\ Len(args) = Len(h) + Len(rest)
      /\ \A i \in 1 .. Len(h) : args[i] = h[i]
      /\ \A i \in 1 .. Len(rest) : args[Len(h) + i] = rest[i]
  BY ONLY <1>3, args = h \o rest, ConcatParts
<1>5. QED
  BY ONLY <1>1, <1>2, <1>4

\* What is left when a head of one word, or of two, is taken off.
LEMMA OneTakenOff ==
    ASSUME NEW h \in Seq(AnyWord), Len(h) = 1, NEW rest \in Words, NEW args, args = h \o rest
    PROVE  Tail(args) = rest
<1>1. /\ rest \in Seq(AnyWord)
      /\ args \in Seq(AnyWord) /\ Len(rest) \in Nat /\ Len(args) = Len(h) + Len(rest)
      /\ \A i \in 1 .. Len(rest) : args[Len(h) + i] = rest[i]
  BY ONLY h \in Seq(AnyWord), rest \in Words, args = h \o rest, LineParts
<1>2. /\ rest \in Seq(AnyWord)
      /\ args \in Seq(AnyWord) /\ Len(rest) \in Nat /\ Len(args) = 1 + Len(rest)
      /\ \A i \in 1 .. Len(rest) : args[1 + i] = rest[i]
  BY <1>1
<1>3. PICK u : u = Tail(args)
  OBVIOUS
<1>4. u \in Seq(AnyWord) /\ Len(u) = Len(rest) /\ \A i \in 1 .. Len(rest) : u[i] = args[1 + i]
  BY ONLY <1>2, <1>3
<1>5. \A i \in 1 .. Len(u) : u[i] = rest[i]
  BY ONLY <1>2, <1>4
<1>6. QED
  BY ONLY <1>2, <1>3, <1>4, <1>5, SeqEqual

LEMMA TwoTakenOff ==
    ASSUME NEW h \in Seq(AnyWord), Len(h) = 2, NEW rest \in Words, NEW args, args = h \o rest
    PROVE  SubSeq(args, 3, Len(args)) = rest
<1>1. /\ rest \in Seq(AnyWord)
      /\ args \in Seq(AnyWord) /\ Len(rest) \in Nat /\ Len(args) = Len(h) + Len(rest)
      /\ \A i \in 1 .. Len(rest) : args[Len(h) + i] = rest[i]
  BY ONLY h \in Seq(AnyWord), rest \in Words, args = h \o rest, LineParts
<1>2. /\ rest \in Seq(AnyWord)
      /\ args \in Seq(AnyWord) /\ Len(rest) \in Nat /\ Len(args) = 2 + Len(rest)
      /\ \A i \in 1 .. Len(rest) : args[2 + i] = rest[i]
  BY <1>1
<1>3. PICK u, n : u = SubSeq(args, 3, n) /\ n = Len(args)
  OBVIOUS
<1>4. \A i \in 3 .. n : args[i] \in AnyWord
  BY ONLY <1>2, <1>3
<1>5. 3 \in Int /\ n \in Int
  BY ONLY <1>2, <1>3
<1>6. u \in Seq(AnyWord) /\ Len(u) = (IF 3 <= n THEN n - 3 + 1 ELSE 0)
      /\ \A i \in 1 .. n - 3 + 1 : u[i] = args[3 + i - 1]
  BY ONLY <1>3, <1>4, <1>5, SubSeqProperties
<1>7. Len(u) = Len(rest)
  BY ONLY <1>2, <1>3, <1>6
<1>8. ASSUME NEW i \in 1 .. Len(u) PROVE u[i] = rest[i]
  <2>1. i \in 1 .. n - 3 + 1 /\ 3 + i - 1 = 2 + i /\ i \in 1 .. Len(rest)
    BY ONLY <1>2, <1>3, <1>7, i \in 1 .. Len(u)
  <2>2. QED
    BY ONLY <1>2, <1>6, <2>1
<1>9. QED
  BY <1>2, <1>3, <1>6, <1>7, <1>8, SeqEqual

LEMMA HeadsAreWords ==
    /\ \A h : h = <<"node", "run">> =>
                  h \in Seq(AnyWord) /\ Len(h) = 2 /\ h[1] = "node" /\ h[2] = "run"
    /\ \A h : h = <<"node", "probe">> =>
                  h \in Seq(AnyWord) /\ Len(h) = 2 /\ h[1] = "node" /\ h[2] = "probe"
    /\ \A h : h = <<"tui">> => h \in Seq(AnyWord) /\ Len(h) = 1 /\ h[1] = "tui"
    /\ \A h : h = <<"node">> => h \in Seq(AnyWord) /\ Len(h) = 1 /\ h[1] = "node"
    /\ \A h : h = <<>> => h \in Seq(AnyWord) /\ Len(h) = 0
<1>1. "node" \in AnyWord /\ "run" \in AnyWord /\ "probe" \in AnyWord /\ "tui" \in AnyWord
  BY DEF AnyWord
<1>4. ASSUME NEW h, h = <<>> PROVE h \in Seq(AnyWord) /\ Len(h) = 0
  BY <1>4
<1>5. ASSUME NEW h, h = <<"node", "run">>
      PROVE  h \in Seq(AnyWord) /\ Len(h) = 2 /\ h[1] = "node" /\ h[2] = "run"
  BY <1>1, <1>5
<1>6. ASSUME NEW h, h = <<"node", "probe">>
      PROVE  h \in Seq(AnyWord) /\ Len(h) = 2 /\ h[1] = "node" /\ h[2] = "probe"
  BY <1>1, <1>6
<1>7. ASSUME NEW h, h = <<"tui">> PROVE h \in Seq(AnyWord) /\ Len(h) = 1 /\ h[1] = "tui"
  BY <1>1, <1>7
<1>8. ASSUME NEW h, h = <<"node">> PROVE h \in Seq(AnyWord) /\ Len(h) = 1 /\ h[1] = "node"
  BY <1>1, <1>8
<1>9. QED
  BY ONLY <1>4, <1>5, <1>6, <1>7, <1>8

LEMMA RunSelected ==
    ASSUME NEW h \in Seq(AnyWord), Len(h) = 2, h[1] = "node", h[2] = "run",
           NEW rest \in Words, NEW args, args = h \o rest
    PROVE  parse_command(args) = parse_run(rest)
<1>1. SubSeq(args, 3, Len(args)) = rest
  BY ONLY h \in Seq(AnyWord), Len(h) = 2, rest \in Words, args = h \o rest, TwoTakenOff
<1>2. /\ args \in Seq(AnyWord) /\ Len(rest) \in Nat /\ Len(args) = Len(h) + Len(rest)
      /\ \A i \in 1 .. Len(h) : args[i] = h[i]
  BY ONLY h \in Seq(AnyWord), rest \in Words, args = h \o rest, LineParts
<1>3. args \in Seq(AnyWord) /\ 2 <= Len(args) /\ args[1] = "node" /\ args[2] = "run"
  BY <1>2
<1>4. PICK left : left = SubSeq(args, 3, Len(args))
  OBVIOUS
<1>5. parse_command(args) = parse_run(left)
  BY ONLY <1>3, <1>4, RunIsParsed
<1>6. left = rest
  BY ONLY <1>1, <1>4
<1>7. QED
  BY ONLY <1>5, <1>6

LEMMA ProbeSelected ==
    ASSUME NEW h \in Seq(AnyWord), Len(h) = 2, h[1] = "node", h[2] = "probe",
           NEW rest \in Words, NEW args, args = h \o rest
    PROVE  parse_command(args) = ProbeOf(rest)
<1>1. SubSeq(args, 3, Len(args)) = rest
  BY ONLY h \in Seq(AnyWord), Len(h) = 2, rest \in Words, args = h \o rest, TwoTakenOff
<1>2. /\ args \in Seq(AnyWord) /\ Len(rest) \in Nat /\ Len(args) = Len(h) + Len(rest)
      /\ \A i \in 1 .. Len(h) : args[i] = h[i]
  BY ONLY h \in Seq(AnyWord), rest \in Words, args = h \o rest, LineParts
<1>3. args \in Seq(AnyWord) /\ 2 <= Len(args) /\ args[1] = "node" /\ args[2] = "probe"
  BY <1>2
<1>4. PICK left : left = SubSeq(args, 3, Len(args))
  OBVIOUS
<1>5. parse_command(args) = ProbeOf(left)
  BY ONLY <1>3, <1>4, ProbeIsParsed
<1>6. left = rest
  BY ONLY <1>1, <1>4
<1>7. QED
  BY ONLY <1>5, <1>6

LEMMA TuiSelected ==
    ASSUME NEW h \in Seq(AnyWord), Len(h) = 1, h[1] = "tui",
           NEW rest \in Words, NEW args, args = h \o rest
    PROVE  parse_command(args) = TuiOf(rest)
<1>1. Tail(args) = rest
  BY ONLY h \in Seq(AnyWord), Len(h) = 1, rest \in Words, args = h \o rest, OneTakenOff
<1>2. /\ args \in Seq(AnyWord) /\ Len(rest) \in Nat /\ Len(args) = Len(h) + Len(rest)
      /\ \A i \in 1 .. Len(h) : args[i] = h[i]
  BY ONLY h \in Seq(AnyWord), rest \in Words, args = h \o rest, LineParts
<1>3. args \in Seq(AnyWord) /\ 1 <= Len(args) /\ args[1] = "tui"
  BY <1>2
<1>4. PICK left : left = Tail(args)
  OBVIOUS
<1>5. parse_command(args) = TuiOf(left)
  BY ONLY <1>3, <1>4, TuiIsParsed
<1>6. left = rest
  BY ONLY <1>1, <1>4
<1>7. QED
  BY ONLY <1>5, <1>6

LEMMA NothingSelected ==
    ASSUME NEW h \in Seq(AnyWord), Len(h) = 0 \/ (Len(h) = 1 /\ h[1] = "node"),
           NEW rest \in Words, Len(rest) >= 1, rest[1] \notin CommandWords,
           NEW args, args = h \o rest
    PROVE  parse_command(args) = Refused
<1>3. /\ args \in Seq(AnyWord) /\ Len(rest) \in Nat /\ Len(args) = Len(h) + Len(rest)
      /\ \A i \in 1 .. Len(h) : args[i] = h[i]
      /\ \A i \in 1 .. Len(rest) : args[Len(h) + i] = rest[i]
  BY ONLY h \in Seq(AnyWord), rest \in Words, args = h \o rest, LineParts
<1>4. CASE Len(h) = 0
  <2>1. args \in Seq(AnyWord) /\ 1 <= Len(args) /\ args[1] = rest[1]
    BY ONLY <1>3, <1>4, Len(rest) >= 1
  <2>2. QED
    BY <2>1, NothingIsParsed
<1>5. CASE Len(h) = 1 /\ h[1] = "node"
  <2>1. args \in Seq(AnyWord) /\ 2 <= Len(args) /\ args[1] = "node" /\ args[2] = rest[1]
    BY ONLY <1>3, <1>5, Len(rest) >= 1
  <2>2. QED
    BY <2>1, NothingIsParsed
<1>6. QED
  BY <1>4, <1>5

\* Options without a command.
LEMMA FirstWord ==
    ASSUME NEW list, Options(list), Len(list) # 0, NEW rest, rest = FlattenSeq(list)
    PROVE  /\ rest \in Words /\ Len(rest) >= 1
           /\ rest[1] \notin CommandWords
<1>1. list \in Seq(Words) /\ Len(list) \in Nat /\ \A i \in 1 .. Len(list) : IsOption(list[i])
  BY DEF Options
<1>2. PICK ends : MadeOf(list, Len(list), rest, ends)
  BY <1>1, FlattenMade
<1>3. 1 \in 1 .. Len(list) /\ 1 \in 0 .. Len(list)
  BY <1>1
<1>4. rest \in Words /\ Len(rest) \in Nat
  BY <1>2 DEF MadeOf, Words
<1>5. PICK item : item = list[1] /\ item \in Words /\ IsOption(item)
  BY <1>1, <1>3
<1>6. /\ ends[0] = 0 /\ ends[1] <= Len(rest) /\ ends[1] = ends[1 - 1] + Len(item)
      /\ \A k \in 1 .. Len(item) : rest[ends[1 - 1] + k] = item[k]
  BY <1>2, <1>3, <1>5 DEF MadeOf
<1>7. Len(item) = 1 \/ Len(item) = 2
  BY <1>5 DEF IsOption
<1>8. ends[1 - 1] = 0 /\ 1 \in 1 .. Len(item)
  BY <1>6, <1>7
<1>9. rest[1] = item[1] /\ Len(rest) >= 1
  <2>1. rest[0 + 1] = item[1]
    BY <1>6, <1>8
  <2>2. ends[1] = Len(item)
    BY <1>6, <1>7, <1>8
  <2>3. QED
    BY <1>4, <1>6, <1>7, <2>1, <2>2
<1>10. item[1] \in OptionsOf("run") \cup OptionsOf("probe") \cup {Flag}
  BY <1>5 DEF IsOption
<1>11. item[1] \notin CommandWords
  BY <1>10 DEF OptionsOf, Flag, CommandWords
<1>12. QED
  BY <1>4, <1>9, <1>11

\* What succeeds was scanned.
LEMMA ParsedIsScanned ==
    ASSUME NEW x, NEW command, NEW default
    PROVE  /\ parse_run(x).ok => Scan("run", x).ok
           /\ parse_target(command, x, default).ok => Scan(command, x).ok
<1>1. Refused.ok = FALSE
  BY DEF Refused
<1>2. parse_run(x).ok => Scan("run", x).ok
  BY <1>1 DEF parse_run, RunOf
<1>3. parse_target(command, x, default).ok => Scan(command, x).ok
  BY <1>1 DEF parse_target, TargetOf
<1>4. QED
  BY <1>2, <1>3

\* The scan of options in another order, when one succeeds.
LEMMA ScansAgree ==
    ASSUME NEW list, Options(list), NEW p \in Bijection(1 .. Len(list), 1 .. Len(list)),
           NEW order, order = [i \in 1 .. Len(list) |-> list[p[i]]],
           NEW command, Scan(command, FlattenSeq(list)).ok
    PROVE  Scan(command, FlattenSeq(order)) = Scan(command, FlattenSeq(list))
<1>1. PICK x, y : x = FlattenSeq(list) /\ y = FlattenSeq(order)
  OBVIOUS
<1>2. Scan(command, x) = IF AllSuit(command, list, Len(list))
                         THEN Open(Given(list, Len(list))) ELSE Refused
  BY <1>1, OptionsScanned
<1>3. AllSuit(command, list, Len(list))
  <2>1. ~Refused.ok
    BY DEF Refused
  <2>2. QED
    BY <1>1, <1>2, <2>1
<1>4. /\ Options(order) /\ Len(order) = Len(list)
      /\ Given(order, Len(list)) = Given(list, Len(list))
      /\ AllSuit(command, order, Len(list))
  BY <1>3, OrderGivesTheSame
<1>5. Scan(command, y) = IF AllSuit(command, order, Len(order))
                         THEN Open(Given(order, Len(order))) ELSE Refused
  BY <1>1, <1>4, OptionsScanned
<1>6. QED
  BY <1>1, <1>2, <1>3, <1>4, <1>5

LineInv ==
    /\ head \in Heads /\ items \in Seq(Items)
    /\ parsed = [ok |-> FALSE, command |-> "pending"] \/ parsed = parse_command(Line(items))

LEMMA LineInvHolds == LineSpec => []LineInv
<1>1. LineInit => LineInv
  <2>1. \A n \in Nat : BoundedSeq(Items, n) \subseteq Seq(Items)
    BY DEF BoundedSeq, SeqOf
  <2>2. QED
    BY <2>1, CommandLineAssumption DEF LineInit, LineInv
<1>2. LineInv /\ [ParseLine]_lineVars => LineInv'
  <2> SUFFICES ASSUME LineInv, [ParseLine]_lineVars PROVE LineInv'
    OBVIOUS
  <2>1. /\ head' = head /\ items' = items
        /\ parsed' = parsed \/ parsed' = parse_command(Line(items))
    BY DEF ParseLine, lineVars
  <2>2. parse_command(Line(items))' = parse_command(Line(items))
    BY <2>1 DEF Line
  <2>3. QED
    BY <2>1, <2>2 DEF LineInv
<1>3. QED
  BY <1>1, <1>2, PTL DEF LineSpec

LEMMA OrderIsIrrelevant == LineInv => OrderOfOptionsIrrelevant
<1> SUFFICES ASSUME LineInv, parsed.ok, Whole,
                    NEW p \in Bijection(DOMAIN items, DOMAIN items),
                    NEW order, order = [i \in DOMAIN items |-> items[p[i]]]
             PROVE  parse_command(Line(order)) = parsed
  BY DEF OrderOfOptionsIrrelevant, Orders
<1>1. parsed = parse_command(Line(items))
  <2>1. [ok |-> FALSE, command |-> "pending"].ok = FALSE
    OBVIOUS
  <2>2. QED
    BY <2>1 DEF LineInv
<1>2. items \in Seq(Items) /\ head \in Heads
  BY DEF LineInv
<1>3. DOMAIN items = 1 .. Len(items) /\ Len(items) \in Nat
  BY <1>2
<1>4. Options(items)
  <2>1. \A w \in Items : w \in Words
    BY CommandLineAssumption DEF Words
  <2>2. \A i \in 1 .. Len(items) : items[i] \in Words
    BY <1>2, <2>1
  <2>3. items \in Seq(Words)
    BY <1>2, <2>2
  <2>4. QED
    BY <1>3, <2>3 DEF Options, Whole
<1>5. /\ p \in Bijection(1 .. Len(items), 1 .. Len(items))
      /\ order = [i \in 1 .. Len(items) |-> items[p[i]]]
  BY <1>3
<1>6. PICK x, y : x = FlattenSeq(items) /\ y = FlattenSeq(order)
  OBVIOUS
<1>7. Line(items) = head \o x /\ Line(order) = head \o y
  BY <1>6 DEF Line
<1>8. Options(order)
  BY <1>4, <1>5, OrderGivesTheSame
<1>9. x \in Words /\ y \in Words
  BY <1>4, <1>6, <1>8, OptionsScanned
<1>10. ASSUME NEW command, Scan(command, x).ok PROVE Scan(command, y) = Scan(command, x)
  BY <1>4, <1>5, <1>6, <1>10, ScansAgree
<1>10a. PICK args, other : args = head \o x /\ other = head \o y
  OBVIOUS
<1>10b. parse_command(args).ok /\ parse_command(args) = parsed
  BY <1>1, <1>7, <1>10a
<1>10c. parse_command(other) = parse_command(args) => parse_command(Line(order)) = parsed
  BY <1>7, <1>10a, <1>10b
<1>11. CASE head = <<"node", "run">>
  <2>h. head \in Seq(AnyWord) /\ Len(head) = 2 /\ head[1] = "node" /\ head[2] = "run"
    BY ONLY <1>11, HeadsAreWords
  <2>a. parse_command(args) = parse_run(x)
    BY ONLY <1>9, <1>10a, <2>h, RunSelected
  <2>b. parse_command(other) = parse_run(y)
    BY ONLY <1>9, <1>10a, <2>h, RunSelected
  <2>1. parse_command(args) = parse_run(x) /\ parse_command(other) = parse_run(y)
    BY ONLY <2>a, <2>b
  <2>2. Scan("run", x).ok
    BY <1>10b, <2>1, ParsedIsScanned
  <2>3. Scan("run", y) = Scan("run", x)
    BY <1>10, <2>2
  <2>4. parse_run(y) = parse_run(x)
    BY <2>3 DEF parse_run
  <2>5. QED
    BY ONLY <1>10c, <2>1, <2>4
<1>12. CASE head = <<"node", "probe">>
  <2>2. /\ parse_command(args) = ProbeOf(x)
        /\ parse_command(other) = ProbeOf(y)
    <3>1. head \in Seq(AnyWord) /\ Len(head) = 2 /\ head[1] = "node" /\ head[2] = "probe"
      BY ONLY <1>12, HeadsAreWords
    <3>2. parse_command(args) = ProbeOf(x)
      BY ONLY <1>9, <1>10a, <3>1, ProbeSelected
    <3>3. parse_command(other) = ProbeOf(y)
      BY ONLY <1>9, <1>10a, <3>1, ProbeSelected
    <3>4. QED
      BY ONLY <3>2, <3>3
  <2>3. Scan("probe", x).ok
    BY <1>10b, <2>2, ParsedIsScanned DEF ProbeOf, TuiOf
  <2>4. Scan("probe", y) = Scan("probe", x)
    BY <1>10, <2>3
  <2>5. ProbeOf(y) = ProbeOf(x)
    BY <2>4 DEF parse_target, ProbeOf
  <2>6. QED
    BY ONLY <1>10c, <2>2, <2>5
<1>13. CASE head = <<"tui">>
  <2>1. /\ parse_command(args) = TuiOf(x)
        /\ parse_command(other) = TuiOf(y)
    <3>1. head \in Seq(AnyWord) /\ Len(head) = 1 /\ head[1] = "tui"
      BY ONLY <1>13, HeadsAreWords
    <3>2. parse_command(args) = TuiOf(x)
      BY ONLY <1>9, <1>10a, <3>1, TuiSelected
    <3>3. parse_command(other) = TuiOf(y)
      BY ONLY <1>9, <1>10a, <3>1, TuiSelected
    <3>4. QED
      BY ONLY <3>2, <3>3
  <2>2. Scan("tui", x).ok
    BY <1>10b, <2>1, ParsedIsScanned DEF ProbeOf, TuiOf
  <2>3. Scan("tui", y) = Scan("tui", x)
    BY <1>10, <2>2
  <2>4. TuiOf(y) = TuiOf(x)
    BY <2>3 DEF parse_target, TuiOf
  <2>5. QED
    BY ONLY <1>10c, <2>1, <2>4
<1>14. CASE head \in {<<>>, <<"node">>}
  <2>1. CASE Len(items) # 0
    <3>1. Len(x) >= 1 /\ x[1] \notin CommandWords
      BY <1>4, <1>6, <2>1, FirstWord
    <3>a. head \in Seq(AnyWord) /\ (Len(head) = 0 \/ (Len(head) = 1 /\ head[1] = "node"))
      <4>1. CASE head = <<>>
        BY ONLY <4>1, HeadsAreWords
      <4>2. CASE head = <<"node">>
        BY ONLY <4>2, HeadsAreWords
      <4>3. QED
        BY <1>14, <4>1, <4>2
    <3>2. parse_command(args) = Refused
      BY ONLY <1>9, <1>10a, <3>a, <3>1, NothingSelected
    <3>3. Refused.ok = FALSE
      BY DEF Refused
    <3>4. QED
      BY <1>10b, <3>2, <3>3
  <2>2. CASE Len(items) = 0
    <3>1. items = <<>>
      BY <1>2, <2>2
    <3>2. order \in Seq(Words) /\ Len(order) = 0
      BY <1>4, <1>5, <1>8, <2>2, OrderGivesTheSame DEF Options
    <3>3. order = <<>>
      BY <3>2
    <3>4. QED
      BY <1>1, <3>1, <3>3
  <2>3. QED
    BY <2>1, <2>2
<1>15. QED
  BY <1>2, <1>11, <1>12, <1>13, <1>14 DEF Heads

\* parse_command makes the same command of the options in whatever order they
\* are given, or of none of the orders: no early return of the scan lets an
\* order through that another would not.
THEOREM CommandOrderOfOptionsIrrelevant == LineSpec => []OrderOfOptionsIrrelevant
  BY LineInvHolds, OrderIsIrrelevant, PTL

=============================================================================
