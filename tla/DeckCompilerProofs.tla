-------------------------- MODULE DeckCompilerProofs --------------------------
(***************************************************************************)
(* What is proved of the Deck compiler, for any strings over any alphabet, *)
(* any limits, and any definitions, Cards and implementations: it compiles *)
(* what is valid and nothing else, the digest identifies a Deck, and a     *)
(* Deck is launched with exactly the implementations of its spec.          *)
(*                                                                         *)
(* sort_unstable_by is specified by what it returns, so that it returns    *)
(* anything has to be proved: the order of strings is total and strict,    *)
(* and every Card goes to the place after those before it. The digest is   *)
(* read back from the front, one length and one field at a time.           *)
(***************************************************************************)

EXTENDS DeckCompiler, FiniteSetTheorems, SequenceTheorems, TLAPS

-----------------------------------------------------------------------------
(* The least position of a set, which is how the lemmas here go by         *)
(* induction: what holds of no least position holds of none.               *)

LEMMA LeastNatural ==
    ASSUME NEW I \in SUBSET Nat, I # {}
    PROVE  \E m \in I : \A j \in I : m <= j
<1> DEFINE R == OpToRel(<, Nat)
<1>1. IsWellFoundedOn(R, Nat)
  BY NatLessThanWellFounded
<1>2. \A j, m \in Nat : j < m => <<j, m>> \in R
  BY SMT DEF OpToRel
<1> HIDE DEF R
<1>3. PICK m \in I : \A j \in I : ~(<<j, m>> \in R)
  BY <1>1, WFMin
<1>4. ASSUME NEW j \in I PROVE m <= j
  <2>1. ~(j < m)
    BY <1>2, <1>3
  <2>2. j \in Nat /\ m \in Nat
    OBVIOUS
  <2>3. QED
    BY <2>1, <2>2
<1>5. QED
  BY <1>4

-----------------------------------------------------------------------------
(* The order of strings.                                                   *)

LEMMA BeforeIrreflexive ==
    ASSUME NEW s \in Seq(Nat)
    PROVE  ~Before(s, s)
<1>1. Len(s) \in Nat /\ \A i \in 1 .. Len(s) : s[i] \in Nat
  BY LenProperties, ElementOfSeq
<1>2. ASSUME NEW n \in 0 .. Len(s), n < Len(s), n = Len(s) \/ s[n + 1] < s[n + 1]
      PROVE  FALSE
  <2>1. n + 1 \in 1 .. Len(s)
    BY <1>1, <1>2
  <2>2. s[n + 1] \in Nat
    BY <1>1, <2>1
  <2>3. QED
    BY <1>1, <1>2, <2>2
<1>3. QED
  BY <1>2 DEF Before

LEMMA BeforeTransitive ==
    ASSUME NEW s \in Seq(Nat), NEW t \in Seq(Nat), NEW u \in Seq(Nat),
           Before(s, t), Before(t, u)
    PROVE  Before(s, u)
<1>1. /\ Len(s) \in Nat /\ Len(t) \in Nat /\ Len(u) \in Nat
      /\ \A i \in 1 .. Len(s) : s[i] \in Nat
      /\ \A i \in 1 .. Len(t) : t[i] \in Nat
      /\ \A i \in 1 .. Len(u) : u[i] \in Nat
  BY LenProperties, ElementOfSeq
<1>2. PICK n \in 0 .. Len(s) : /\ n < Len(t)
                               /\ \A i \in 1 .. n : s[i] = t[i]
                               /\ n = Len(s) \/ s[n + 1] < t[n + 1]
  BY DEF Before
<1>3. PICK m \in 0 .. Len(t) : /\ m < Len(u)
                               /\ \A i \in 1 .. m : t[i] = u[i]
                               /\ m = Len(t) \/ t[m + 1] < u[m + 1]
  BY DEF Before
<1>4. CASE n < m
  <2>1. n < Len(u) /\ n + 1 \in 1 .. m
    BY <1>1, <1>2, <1>3, <1>4
  <2>2. \A i \in 1 .. n : s[i] = u[i]
    BY <1>1, <1>2, <1>3, <1>4
  <2>3. t[n + 1] = u[n + 1]
    BY <1>3, <2>1
  <2>4. QED
    BY <1>2, <2>1, <2>2, <2>3 DEF Before
<1>5. CASE n = m
  <2>1. n < Len(u) /\ n + 1 \in 1 .. Len(t) /\ n + 1 \in 1 .. Len(u) /\ m # Len(t)
    BY <1>1, <1>2, <1>3, <1>5
  <2>2. \A i \in 1 .. n : s[i] = u[i]
    BY <1>2, <1>3, <1>5
  <2>3. t[n + 1] < u[n + 1] /\ t[n + 1] \in Nat /\ u[n + 1] \in Nat
    BY <1>1, <1>3, <1>5, <2>1
  <2>4. n = Len(s) \/ s[n + 1] < u[n + 1]
    <3>1. CASE n # Len(s)
      <4>1. n + 1 \in 1 .. Len(s)
        BY <1>1, <3>1
      <4>2. s[n + 1] \in Nat /\ s[n + 1] < t[n + 1]
        BY <1>1, <1>2, <3>1, <4>1
      <4>3. QED
        BY <2>3, <4>2
    <3>2. QED
      BY <3>1
  <2>5. QED
    BY <2>1, <2>2, <2>4 DEF Before
<1>6. CASE m < n
  <2>1. m \in 0 .. Len(s) /\ m + 1 \in 1 .. n /\ m # Len(t)
    BY <1>1, <1>2, <1>3, <1>6
  <2>2. \A i \in 1 .. m : s[i] = u[i]
    BY <1>1, <1>2, <1>3, <1>6
  <2>3. s[m + 1] = t[m + 1]
    BY <1>2, <2>1
  <2>4. QED
    BY <1>3, <2>1, <2>2, <2>3 DEF Before
<1>7. QED
  BY <1>1, <1>4, <1>5, <1>6

LEMMA BeforeTotal ==
    ASSUME NEW s \in Seq(Nat), NEW t \in Seq(Nat), s # t
    PROVE  Before(s, t) \/ Before(t, s)
<1>1. /\ Len(s) \in Nat /\ Len(t) \in Nat
      /\ \A i \in 1 .. Len(s) : s[i] \in Nat
      /\ \A i \in 1 .. Len(t) : t[i] \in Nat
  BY LenProperties, ElementOfSeq
<1> DEFINE Differ == {i \in Nat : i \in 1 .. Len(s) /\ i \in 1 .. Len(t) /\ s[i] # t[i]}
<1>2. CASE Differ = {}
  <2>1. ASSUME NEW i \in 1 .. Len(s), i \in 1 .. Len(t) PROVE s[i] = t[i]
    <3>1. i \in Nat
      BY <1>1
    <3>2. i \notin Differ
      <4> HIDE DEF Differ
      <4>1. QED
        BY <1>2
    <3>3. QED
      BY <2>1, <3>1, <3>2
  <2>2. Len(s) # Len(t)
    BY <2>1, SeqEqual
  <2>3. CASE Len(s) < Len(t)
    <3>1. \A i \in 1 .. Len(s) : s[i] = t[i]
      BY <1>1, <2>1, <2>3
    <3>2. Len(s) \in 0 .. Len(s)
      BY <1>1
    <3>3. QED
      BY <2>3, <3>1, <3>2 DEF Before
  <2>4. CASE Len(t) < Len(s)
    <3>1. \A i \in 1 .. Len(t) : t[i] = s[i]
      BY <1>1, <2>1, <2>4
    <3>2. Len(t) \in 0 .. Len(t)
      BY <1>1
    <3>3. QED
      BY <2>4, <3>1, <3>2 DEF Before
  <2>5. QED
    BY <1>1, <2>2, <2>3, <2>4
<1>3. CASE Differ # {}
  <2>1. PICK m \in Differ : \A j \in Differ : m <= j
    BY <1>3, LeastNatural
  <2>2. /\ m - 1 \in 0 .. Len(s) /\ m - 1 \in 0 .. Len(t)
        /\ m - 1 < Len(s) /\ m - 1 < Len(t) /\ (m - 1) + 1 = m
        /\ s[m] # t[m] /\ s[m] \in Nat /\ t[m] \in Nat
    BY <1>1, <2>1
  <2>3. \A i \in 1 .. m - 1 : s[i] = t[i]
    <3>1. ASSUME NEW i \in 1 .. m - 1 PROVE s[i] = t[i]
      <4>1. i \in 1 .. Len(s) /\ i \in 1 .. Len(t) /\ ~(m <= i)
        BY <1>1, <2>1
      <4>2. i \notin Differ
        BY <2>1, <4>1
      <4>3. QED
        BY <4>1, <4>2
    <3>2. QED
      BY <3>1
  <2>4. CASE s[m] < t[m]
    BY <2>2, <2>3, <2>4 DEF Before
  <2>5. CASE t[m] < s[m]
    BY <2>2, <2>3, <2>5 DEF Before
  <2>6. QED
    BY <2>2, <2>4, <2>5
<1>4. QED
  BY <1>2, <1>3

-----------------------------------------------------------------------------
(* Sorting.                                                                *)

KeysDiffer(cards) == \A i, j \in DOMAIN cards : cards[i].key = cards[j].key => i = j

LEMMA CardKeysAreStrings ==
    ASSUME NEW card \in Cards
    PROVE  card.key \in Seq(Nat) /\ card.definition \in Seq(Nat)
BY CompilerAssumption DEF Cards

\* The positions of a list of Cards with different keys count its Cards.
LEMMA ElementsCounted ==
    ASSUME NEW cards \in Seq(Cards), NEW S, S = ToSet(cards)
    PROVE  /\ Len(cards) \in Nat /\ DOMAIN cards = 1 .. Len(cards)
           /\ cards \in Surjection(1 .. Len(cards), S)
           /\ S \subseteq Cards
           /\ IsFiniteSet(S)
           /\ IsFiniteSet(1 .. Len(cards)) /\ Cardinality(1 .. Len(cards)) = Len(cards)
<1>1. /\ Len(cards) \in Nat /\ DOMAIN cards = 1 .. Len(cards)
      /\ cards \in [1 .. Len(cards) -> Cards]
  BY LenProperties
<1>2. cards \in Surjection(1 .. Len(cards), S)
  BY <1>1 DEF ToSet, Surjection
<1>3. S \subseteq Cards
  BY <1>1 DEF ToSet
<1>4. IsFiniteSet(1 .. Len(cards)) /\ Cardinality(1 .. Len(cards)) = Len(cards)
  BY <1>1, FS_Interval
<1>5. IsFiniteSet(S)
  BY <1>2, <1>4, FS_Surjection
<1>6. QED
  BY <1>1, <1>2, <1>3, <1>4, <1>5

LEMMA DifferentKeysCount ==
    ASSUME NEW cards \in Seq(Cards), KeysDiffer(cards), NEW S, S = ToSet(cards)
    PROVE  /\ Cardinality(S) = Len(cards)
           /\ \A d, e \in S : d.key = e.key => d = e
<1>1. cards \in Surjection(1 .. Len(cards), S) /\ DOMAIN cards = 1 .. Len(cards)
  BY ElementsCounted
<1>2. cards \in Injection(1 .. Len(cards), S)
  BY <1>1 DEF KeysDiffer, Surjection, Injection, IsInjective
<1>3. IsFiniteSet(1 .. Len(cards)) /\ Cardinality(1 .. Len(cards)) = Len(cards)
  BY ElementsCounted
<1>4. Cardinality(S) = Cardinality(1 .. Len(cards))
  BY <1>1, <1>2, <1>3, FS_Surjection
<1>5. QED
  BY <1>1, <1>3, <1>4 DEF KeysDiffer, ToSet

\* The Cards of S that come before one, and its place among them.
CardsBefore(S, d) == {e \in S : Before(e.key, d.key)}
Place(S, d) == Cardinality(CardsBefore(S, d)) + 1

LEMMA PlaceGrows ==
    ASSUME NEW S \in SUBSET Cards, IsFiniteSet(S), NEW d \in S, NEW e \in S,
           Before(d.key, e.key)
    PROVE  Place(S, d) < Place(S, e)
<1>1. /\ d.key \in Seq(Nat) /\ e.key \in Seq(Nat)
      /\ \A c \in S : c.key \in Seq(Nat)
  BY CardKeysAreStrings
<1>2. CardsBefore(S, d) \cup {d} \in SUBSET CardsBefore(S, e)
  BY <1>1, BeforeTransitive DEF CardsBefore
<1>3. d \notin CardsBefore(S, d)
  BY <1>1, BeforeIrreflexive DEF CardsBefore
<1>4. IsFiniteSet(CardsBefore(S, d)) /\ IsFiniteSet(CardsBefore(S, e))
  <2>1. CardsBefore(S, d) \in SUBSET S /\ CardsBefore(S, e) \in SUBSET S
    BY DEF CardsBefore
  <2>2. QED
    BY <2>1, FS_Subset
<1>5. /\ Cardinality(CardsBefore(S, d)) \in Nat /\ Cardinality(CardsBefore(S, e)) \in Nat
      /\ Cardinality(CardsBefore(S, d) \cup {d}) = Cardinality(CardsBefore(S, d)) + 1
  BY <1>3, <1>4, FS_CardinalityType, FS_AddElement
<1>6. Cardinality(CardsBefore(S, d) \cup {d}) <= Cardinality(CardsBefore(S, e))
  BY <1>2, <1>4, FS_Subset
<1>7. QED
  BY <1>5, <1>6 DEF Place

LEMMA PlacesFill ==
    ASSUME NEW S \in SUBSET Cards, IsFiniteSet(S), NEW n \in Nat, Cardinality(S) = n,
           \A d, e \in S : d.key = e.key => d = e
    PROVE  /\ \A d \in S : Place(S, d) \in 1 .. n
           /\ \A d, e \in S : Place(S, d) = Place(S, e) => d = e
           /\ \A i \in 1 .. n : \E d \in S : Place(S, d) = i
<1> DEFINE place == [d \in S |-> Place(S, d)]
<1>1. ASSUME NEW d \in S PROVE Place(S, d) \in 1 .. n
  <2>1. d \notin CardsBefore(S, d) /\ CardsBefore(S, d) \cup {d} \in SUBSET S
    BY CardKeysAreStrings, BeforeIrreflexive DEF CardsBefore
  <2>2. CardsBefore(S, d) \in SUBSET S
    BY DEF CardsBefore
  <2>3. IsFiniteSet(CardsBefore(S, d))
    BY <2>2, FS_Subset
  <2>4. /\ Cardinality(CardsBefore(S, d)) \in Nat
        /\ Cardinality(CardsBefore(S, d) \cup {d}) = Cardinality(CardsBefore(S, d)) + 1
    BY <2>1, <2>3, FS_CardinalityType, FS_AddElement
  <2>5. Cardinality(CardsBefore(S, d) \cup {d}) <= n
    BY <2>1, FS_Subset
  <2>6. QED
    BY <2>4, <2>5 DEF Place
<1>2. ASSUME NEW d \in S, NEW e \in S, d # e PROVE Place(S, d) # Place(S, e)
  <2>1. d.key # e.key /\ d.key \in Seq(Nat) /\ e.key \in Seq(Nat)
    BY <1>2, CardKeysAreStrings
  <2>2. Before(d.key, e.key) \/ Before(e.key, d.key)
    BY <2>1, BeforeTotal
  <2>3. Place(S, d) < Place(S, e) \/ Place(S, e) < Place(S, d)
    BY <2>2, PlaceGrows
  <2>4. Place(S, d) \in Nat /\ Place(S, e) \in Nat
    BY <1>1
  <2>5. QED
    BY <2>3, <2>4
<1>3. place \in Injection(S, 1 .. n)
  BY <1>1, <1>2 DEF Injection, IsInjective
<1>4. IsFiniteSet(1 .. n) /\ Cardinality(1 .. n) = n
  BY FS_Interval
<1>5. place \in Surjection(S, 1 .. n)
  BY <1>3, <1>4, FS_Injection
<1>6. \A i \in 1 .. n : \E d \in S : Place(S, d) = i
  BY <1>5 DEF Surjection
<1>7. QED
  BY <1>1, <1>2, <1>6

\* sort_unstable_by finds the one order of Cards with different keys.
LEMMA SortedIsSorted ==
    ASSUME NEW cards \in Seq(Cards), KeysDiffer(cards), NEW s, s = Sorted(cards)
    PROVE  /\ s \in [1 .. Len(cards) -> ToSet(cards)]
           /\ ToSet(s) = ToSet(cards)
           /\ \A i, j \in 1 .. Len(cards) : s[i] = s[j] => i = j
           /\ \A i, j \in 1 .. Len(cards) : i < j => ~Before(s[j].key, s[i].key)
<1> DEFINE n == Len(cards)
           S == ToSet(cards)
           Sorts(q) == /\ ToSet(q) = ToSet(cards)
                       /\ \A i, j \in DOMAIN q : i < j => ~Before(q[j].key, q[i].key)
           r == [i \in 1 .. n |-> CHOOSE d \in S : Place(S, d) = i]
<1>1. /\ n \in Nat /\ DOMAIN cards = 1 .. n /\ S \in SUBSET Cards /\ IsFiniteSet(S)
      /\ IsFiniteSet(1 .. n) /\ Cardinality(1 .. n) = n
  BY ElementsCounted
<1>2. Cardinality(S) = n /\ \A d, e \in S : d.key = e.key => d = e
  BY DifferentKeysCount
<1> HIDE DEF n, S
<1>3. /\ \A d \in S : Place(S, d) \in 1 .. n
      /\ \A d, e \in S : Place(S, d) = Place(S, e) => d = e
      /\ \A i \in 1 .. n : \E d \in S : Place(S, d) = i
  BY <1>1, <1>2, PlacesFill
<1>4. \A i \in 1 .. n : r[i] \in S /\ Place(S, r[i]) = i
  BY <1>3
<1>5. r \in [1 .. n -> S]
  BY <1>4
<1>6. \A d \in S : r[Place(S, d)] = d
  BY <1>3, <1>4
<1> HIDE DEF r
<1>7. ToSet(r) = S
  BY <1>3, <1>5, <1>6 DEF ToSet
<1>8. ASSUME NEW i \in 1 .. n, NEW j \in 1 .. n, i < j, Before(r[j].key, r[i].key)
      PROVE  FALSE
  <2>1. r[i] \in S /\ r[j] \in S /\ Place(S, r[i]) = i /\ Place(S, r[j]) = j
    BY <1>4
  <2>2. j < i
    BY <1>1, <1>8, <2>1, PlaceGrows
  <2>3. QED
    BY <1>1, <1>8, <2>2
<1>9. r \in [DOMAIN cards -> ToSet(cards)] /\ Sorts(r)
  <2>1. DOMAIN r = 1 .. n
    BY <1>5
  <2>2. \A i, j \in DOMAIN r : i < j => ~Before(r[j].key, r[i].key)
    BY <1>8, <2>1
  <2>3. QED
    BY <1>1, <1>5, <1>7, <2>2 DEF S
<1>10. s \in [DOMAIN cards -> ToSet(cards)] /\ Sorts(s)
  <2>1. s = CHOOSE q \in [DOMAIN cards -> ToSet(cards)] : Sorts(q)
    BY DEF Sorted
  <2> HIDE DEF Sorts
  <2>2. QED
    BY <1>9, <2>1
<1>11. s \in [1 .. n -> S] /\ ToSet(s) = S
  BY <1>1, <1>10 DEF S
<1>12. s \in Surjection(1 .. n, S)
  BY <1>11 DEF Surjection, ToSet
<1>13. s \in Injection(1 .. n, S)
  BY <1>1, <1>2, <1>12, FS_Surjection
<1>14. \A i, j \in 1 .. n : s[i] = s[j] => i = j
  BY <1>11, <1>13 DEF Injection, IsInjective
<1>15. QED
  BY <1>10, <1>11, <1>14 DEF n, S

-----------------------------------------------------------------------------
(* What compiles.                                                          *)

\* The loop accepts the Card at i.
CardIsValid(cards, i, definitions) ==
    /\ Sound(cards[i].key, MAX_KEY_BYTES)
    /\ Sound(cards[i].definition, MAX_DEFINITION_REF_BYTES)
    /\ \A j \in 1 .. i - 1 : cards[j].key # cards[i].key
    /\ cards[i].definition \in ToSet(definitions)

LEMMA CardErrorFindsFaults ==
    ASSUME NEW cards, NEW i, NEW definitions
    PROVE  CardError(cards, i, definitions).kind = Accepted
               <=> CardIsValid(cards, i, definitions)
<1> DEFINE keyFault == validate_field(cards[i].key, MAX_KEY_BYTES)
           definitionFault == validate_field(cards[i].definition, MAX_DEFINITION_REF_BYTES)
           twice == \E j \in 1 .. i - 1 : cards[j].key = cards[i].key
           unknown == cards[i].definition \notin ToSet(definitions)
           error == CardError(cards, i, definitions)
<1>1. error = IF keyFault # Accepted THEN InvalidField(<<i, "key">>, keyFault)
              ELSE IF definitionFault # Accepted
              THEN InvalidField(<<i, "definition">>, definitionFault)
              ELSE IF twice THEN [kind |-> "DuplicateCardKey", key |-> cards[i].key]
              ELSE IF unknown
              THEN [kind |-> "UnknownDefinition", card |-> cards[i].key,
                    definition |-> cards[i].definition]
              ELSE [kind |-> Accepted]
  BY DEF CardError
<1>2. CardIsValid(cards, i, definitions)
          <=> keyFault = Accepted /\ definitionFault = Accepted /\ ~twice /\ ~unknown
  BY DEF CardIsValid, Sound
<1> HIDE DEF keyFault, definitionFault, twice, unknown, error
<1>3. CASE keyFault = Accepted /\ definitionFault = Accepted /\ ~twice /\ ~unknown
  <2>1. error = [kind |-> Accepted]
    BY <1>1, <1>3
  <2>2. QED
    BY <1>2, <1>3, <2>1 DEF error
<1>4. CASE ~(keyFault = Accepted /\ definitionFault = Accepted /\ ~twice /\ ~unknown)
  <2>1. \/ error = InvalidField(<<i, "key">>, keyFault)
        \/ error = InvalidField(<<i, "definition">>, definitionFault)
        \/ error = [kind |-> "DuplicateCardKey", key |-> cards[i].key]
        \/ error = [kind |-> "UnknownDefinition", card |-> cards[i].key,
                    definition |-> cards[i].definition]
    BY <1>1, <1>4
  <2>2. error.kind \in {"InvalidField", "DuplicateCardKey", "UnknownDefinition"}
    BY <2>1 DEF InvalidField
  <2>3. error.kind # Accepted
    BY <2>2 DEF Accepted
  <2>4. QED
    BY <1>2, <1>4, <2>3 DEF error
<1>5. QED
  BY <1>3, <1>4

LEMMA NoBadCards ==
    ASSUME NEW cards \in Seq(Cards), NEW definitions
    PROVE  BadCards(cards, definitions) = {}
               <=> /\ \A i \in DOMAIN cards :
                        /\ Sound(cards[i].key, MAX_KEY_BYTES)
                        /\ Sound(cards[i].definition, MAX_DEFINITION_REF_BYTES)
                        /\ cards[i].definition \in ToSet(definitions)
                   /\ KeysDiffer(cards)
<1>1. DOMAIN cards = 1 .. Len(cards) /\ Len(cards) \in Nat
  BY ElementsCounted
<1>2. BadCards(cards, definitions) = {}
          <=> \A i \in DOMAIN cards : CardError(cards, i, definitions).kind = Accepted
  BY DEF BadCards
<1>3. BadCards(cards, definitions) = {}
          <=> \A i \in DOMAIN cards : CardIsValid(cards, i, definitions)
  BY <1>2, CardErrorFindsFaults
<1>4. KeysDiffer(cards)
          <=> \A i \in DOMAIN cards : \A j \in 1 .. i - 1 : cards[j].key # cards[i].key
  <2>1. ASSUME KeysDiffer(cards), NEW i \in DOMAIN cards, NEW j \in 1 .. i - 1,
               cards[j].key = cards[i].key
        PROVE  FALSE
    <3>1. j \in DOMAIN cards /\ i # j
      BY <1>1, <2>1
    <3>2. QED
      BY <2>1, <3>1 DEF KeysDiffer
  <2>2. ASSUME \A i \in DOMAIN cards : \A j \in 1 .. i - 1 : cards[j].key # cards[i].key,
               NEW i \in DOMAIN cards, NEW j \in DOMAIN cards, cards[i].key = cards[j].key
        PROVE  i = j
    <3>1. ~(j \in 1 .. i - 1) /\ ~(i \in 1 .. j - 1)
      BY <2>2
    <3>2. QED
      BY <1>1, <3>1
  <2>3. QED
    BY <2>1, <2>2 DEF KeysDiffer
<1>5. QED
  BY <1>3, <1>4 DEF CardIsValid

LEMMA CompileAccepts ==
    ASSUME NEW definitions, NEW s \in [key : DeckKeys, cards : Seq(Cards)],
           NEW l, l = compile(definitions, s)
    PROVE  /\ l.ok <=> /\ Sound(s.key, MAX_KEY_BYTES)
                       /\ Len(s.cards) \in 1 .. MAX_CARDS_PER_DECK
                       /\ BadCards(s.cards, definitions) = {}
           /\ l.ok => /\ l = [ok |-> TRUE, key |-> s.key, cards |-> Sorted(s.cards),
                              digest |-> deck_digest(s.key, Sorted(s.cards))]
                      /\ KeysDiffer(s.cards)
<1> DEFINE bad == BadCards(s.cards, definitions)
           fault == validate_field(s.key, MAX_KEY_BYTES)
           many == Len(s.cards) > MAX_CARDS_PER_DECK
           none == s.cards = <<>>
           found == CardError(s.cards, Min(bad), definitions)
           good == [ok |-> TRUE, key |-> s.key, cards |-> Sorted(s.cards),
                    digest |-> deck_digest(s.key, Sorted(s.cards))]
<1>1. l = IF fault # Accepted THEN Failed(InvalidField(<<0, "key">>, fault))
          ELSE IF none THEN Failed([kind |-> "EmptyDeck"])
          ELSE IF many THEN Failed([kind |-> "TooManyCards", actual |-> Len(s.cards)])
          ELSE IF bad # {} THEN Failed(found)
          ELSE good
  BY DEF compile
<1>2. /\ \A error : Failed(error).ok = FALSE
      /\ good.ok = TRUE
  BY DEF Failed
<1>3. Sound(s.key, MAX_KEY_BYTES) <=> fault = Accepted
  BY DEF Sound
<1>4. Len(s.cards) \in 1 .. MAX_CARDS_PER_DECK <=> ~none /\ ~many
  <2>1. Len(s.cards) \in Nat /\ (s.cards = <<>> <=> Len(s.cards) = 0)
    BY LenProperties, EmptySeq
  <2>2. QED
    BY <2>1, CompilerAssumption
<1> HIDE DEF fault, many, none, found, good
<1>5. \/ fault = Accepted /\ ~none /\ ~many /\ bad = {} /\ l = good
      \/ ~(fault = Accepted /\ ~none /\ ~many /\ bad = {}) /\ \E error : l = Failed(error)
  <2> HIDE DEF bad
  <2>1. QED
    BY <1>1
<1>6. bad = {} => KeysDiffer(s.cards)
  BY NoBadCards
<1>7. QED
  BY <1>2, <1>3, <1>4, <1>5, <1>6 DEF good

\* The keys of a list count as many as its Cards exactly when they differ.
LEMMA KeysCounted ==
    ASSUME NEW cards \in Seq(Cards)
    PROVE  Cardinality({card.key : card \in ToSet(cards)}) = Len(cards)
               <=> KeysDiffer(cards)
<1> DEFINE n == Len(cards)
           Keys == {card.key : card \in ToSet(cards)}
           keys == [i \in 1 .. n |-> cards[i].key]
<1>1. /\ n \in Nat /\ DOMAIN cards = 1 .. n
      /\ IsFiniteSet(1 .. n) /\ Cardinality(1 .. n) = n
  BY ElementsCounted
<1>2. keys \in Surjection(1 .. n, Keys)
  BY <1>1 DEF Surjection, ToSet
<1>3. Cardinality(Keys) = Cardinality(1 .. n) <=> keys \in Injection(1 .. n, Keys)
  <2> HIDE DEF keys, Keys, n
  <2>1. QED
    BY <1>1, <1>2, FS_Surjection
<1>4. keys \in Injection(1 .. n, Keys) <=> KeysDiffer(cards)
  <2>1. keys \in [1 .. n -> Keys]
    BY <1>2 DEF Surjection
  <2>2. \A i \in 1 .. n : keys[i] = cards[i].key
    OBVIOUS
  <2> HIDE DEF keys, Keys, n
  <2>3. QED
    BY <1>1, <2>1, <2>2 DEF Injection, IsInjective, KeysDiffer
<1>5. QED
  BY <1>1, <1>3, <1>4

-----------------------------------------------------------------------------
(* The invariant.                                                          *)

\* What a composition gets of DeckCompiler::new and compile().
Result(definitions, s) ==
    LET bad == BadDefinitions(definitions) IN
    IF bad = {} THEN compile(definitions, s)
    ELSE Failed(InvalidField(<<Min(bad), "definitions">>,
                   validate_field(definitions[Min(bad)], MAX_DEFINITION_REF_BYTES)))

DeckTypes ==
    /\ offered \in Seq(DefinitionRefs)
    /\ spec \in [key : DeckKeys, cards : Seq(Cards)]

LockIsResult == lock = Failed([kind |-> Pending]) \/ lock = Result(offered, spec)

LaunchIsBinding ==
    launch = Pending \/ /\ lock.ok
                        /\ DOMAIN implementations = 1 .. Len(implementations)
                        /\ launch = Launch(lock, implementations)

DeckInv == DeckTypes /\ LockIsResult /\ LaunchIsBinding

LEMMA ShortSequences ==
    ASSUME NEW S, NEW n \in Nat, NEW s \in BoundedSeq(S, n)
    PROVE  s \in Seq(S)
<1>1. PICK m \in 0 .. n : s \in [1 .. m -> S]
  BY DEF BoundedSeq, SeqOf
<1>2. QED
  BY <1>1, SeqDef

\* A lock that is there is the sorted Cards of a spec that could be compiled.
LEMMA LockOfSpec ==
    ASSUME DeckInv, lock.ok
    PROVE  /\ lock = [ok |-> TRUE, key |-> spec.key, cards |-> Sorted(spec.cards),
                      digest |-> deck_digest(spec.key, Sorted(spec.cards))]
           /\ KeysDiffer(spec.cards)
           /\ Len(spec.cards) \in 1 .. MAX_CARDS_PER_DECK
           /\ Len(lock.cards) = Len(spec.cards)
<1>1. lock = Result(offered, spec)
  BY DEF DeckInv, LockIsResult, Failed
<1>2. lock = compile(offered, spec)
  BY <1>1 DEF Result, Failed
<1>3. spec \in [key : DeckKeys, cards : Seq(Cards)]
  BY DEF DeckInv, DeckTypes
<1>4. /\ lock = [ok |-> TRUE, key |-> spec.key, cards |-> Sorted(spec.cards),
                  digest |-> deck_digest(spec.key, Sorted(spec.cards))]
      /\ KeysDiffer(spec.cards)
      /\ Len(spec.cards) \in 1 .. MAX_CARDS_PER_DECK
  BY <1>2, <1>3, CompileAccepts
<1>5. Sorted(spec.cards) \in [1 .. Len(spec.cards) -> ToSet(spec.cards)]
  BY <1>3, <1>4, SortedIsSorted
<1>6. Len(Sorted(spec.cards)) = Len(spec.cards)
  BY <1>4, <1>5
<1>7. QED
  BY <1>4, <1>6

LEMMA DeckInit == CompilerInit => DeckInv
<1> SUFFICES ASSUME CompilerInit PROVE DeckInv
  OBVIOUS
<1>1. offered \in Seq(DefinitionRefs)
  BY ShortSequences, CompilerAssumption DEF CompilerInit
<1>2. spec \in [key : DeckKeys, cards : Seq(Cards)]
  <2>1. PICK k \in DeckKeys, c \in BoundedSeq(Cards, MAX_CARDS_PER_DECK + 1) :
            spec = [key |-> k, cards |-> c]
    BY DEF CompilerInit
  <2>2. MAX_CARDS_PER_DECK + 1 \in Nat
    BY CompilerAssumption
  <2>3. c \in Seq(Cards)
    BY <2>2, ShortSequences
  <2>4. QED
    BY <2>1, <2>3
<1>3. QED
  BY <1>1, <1>2 DEF CompilerInit, DeckInv, DeckTypes, LockIsResult, LaunchIsBinding

LEMMA DeckNext == DeckInv /\ [CompilerNext]_compilerVars => DeckInv'
<1> SUFFICES ASSUME DeckInv, [CompilerNext]_compilerVars PROVE DeckInv'
  OBVIOUS
<1>1. CASE Compile
  <2>1. lock' = Result(offered, spec)
    BY <1>1 DEF Compile, Result
  <2>2. launch = Pending
    BY <1>1 DEF Compile, DeckInv, LaunchIsBinding
  <2>3. QED
    BY <1>1, <2>1, <2>2 DEF Compile, DeckInv, DeckTypes, LockIsResult, LaunchIsBinding
<1>2. CASE Bind
  <2>1. PICK n \in {Len(lock.cards) - 1, Len(lock.cards), Len(lock.cards) + 1} :
            implementations' \in
                [1 .. n -> [key : {lock.cards[i].key : i \in DOMAIN lock.cards},
                            definition : ToSet(offered)]]
    BY <1>2 DEF Bind
  <2>2. lock.ok /\ lock # Failed([kind |-> Pending])
    BY <1>2 DEF Bind, Failed
  <2>3. n \in Nat
    <3>1. Len(lock.cards) \in Nat \ {0}
      BY <2>2, LockOfSpec, CompilerAssumption
    <3>2. QED
      BY <2>1, <3>1
  <2>4. DOMAIN implementations' = 1 .. Len(implementations')
    BY <2>1, <2>3
  <2>5. launch' = Launch(lock', implementations') /\ lock'.ok
    BY <1>2 DEF Bind
  <2>6. DeckTypes' /\ LockIsResult'
    BY <1>2 DEF Bind, DeckInv, DeckTypes, LockIsResult
  <2>7. QED
    BY <2>4, <2>5, <2>6 DEF DeckInv, LaunchIsBinding
<1>3. CASE UNCHANGED compilerVars
  BY <1>3 DEF compilerVars, DeckInv, DeckTypes, LockIsResult, LaunchIsBinding
<1>4. QED
  BY <1>1, <1>2, <1>3 DEF CompilerNext

\* The inductive invariant of a composition: the lock is what compiling the
\* offered definitions and the spec returns, and the launch what binding the
\* implementations to that lock returns.
THEOREM DeckInvariant == CompilerSpec => []DeckInv
BY DeckInit, DeckNext, PTL DEF CompilerSpec

-----------------------------------------------------------------------------
(* What is proved of it.                                                   *)

LEMMA ValidCompiles == DeckInv => CompilesTheValid
<1> SUFFICES ASSUME DeckInv, Compiled PROVE CompilesTheValid
  BY DEF CompilesTheValid
<1> DEFINE cards == spec.cards
           Known == ToSet(offered)
           sound == \A d \in Known : Sound(d, MAX_DEFINITION_REF_BYTES)
<1>1. /\ spec \in [key : DeckKeys, cards : Seq(Cards)] /\ cards \in Seq(Cards)
      /\ offered \in Seq(DefinitionRefs)
  BY DEF DeckInv, DeckTypes
<1>2. lock = Result(offered, spec)
  BY DEF DeckInv, LockIsResult, Compiled, Failed
<1>3. BadDefinitions(offered) = {} <=> sound
  BY DEF BadDefinitions, Sound, ToSet
<1>4. lock.ok <=> /\ sound
                  /\ Sound(spec.key, MAX_KEY_BYTES)
                  /\ Len(cards) \in 1 .. MAX_CARDS_PER_DECK
                  /\ BadCards(cards, offered) = {}
  <2>1. CASE sound
    <3>1. lock = compile(offered, spec)
      BY <1>2, <1>3, <2>1 DEF Result
    <3>2. QED
      BY <1>1, <2>1, <3>1, CompileAccepts
  <2>2. CASE ~sound
    BY <1>2, <1>3, <2>2 DEF Result, Failed
  <2>3. QED
    BY <2>1, <2>2
<1>5. BadCards(cards, offered) = {}
          <=> /\ \A i \in DOMAIN cards :
                   /\ Sound(cards[i].key, MAX_KEY_BYTES)
                   /\ Sound(cards[i].definition, MAX_DEFINITION_REF_BYTES)
                   /\ cards[i].definition \in Known
              /\ KeysDiffer(cards)
  BY <1>1, NoBadCards
<1>6. ToSet(cards) = {cards[i] : i \in DOMAIN cards}
  BY DEF ToSet
<1>7. Cardinality({card.key : card \in ToSet(cards)}) = Len(cards) <=> KeysDiffer(cards)
  BY <1>1, KeysCounted
<1>8. lock.ok <=> /\ sound
                  /\ Sound(spec.key, MAX_KEY_BYTES)
                  /\ \A card \in ToSet(cards) : /\ Sound(card.key, MAX_KEY_BYTES)
                                                /\ card.definition \in Known
                  /\ Len(cards) \in 1 .. MAX_CARDS_PER_DECK
                  /\ Cardinality({card.key : card \in ToSet(cards)}) = Len(cards)
  <2> HIDE DEF cards, Known
  <2>1. sound /\ (\A card \in ToSet(cards) : card.definition \in Known)
            => \A card \in ToSet(cards) : Sound(card.definition, MAX_DEFINITION_REF_BYTES)
    OBVIOUS
  <2>2. BadCards(cards, offered) = {}
            <=> /\ \A card \in ToSet(cards) :
                     /\ Sound(card.key, MAX_KEY_BYTES)
                     /\ Sound(card.definition, MAX_DEFINITION_REF_BYTES)
                     /\ card.definition \in Known
                /\ KeysDiffer(cards)
    BY <1>5, <1>6
  <2> HIDE DEF sound
  <2>3. QED
    BY <1>4, <1>7, <2>1, <2>2
<1>9. QED
  BY <1>8 DEF CompilesTheValid

\* A Deck compiles if and only if it is valid, for any strings and limits, any
\* definitions on offer and any list of Cards: the one pass with its early
\* returns finds a fault wherever it is, and no fault where there is none.
THEOREM DeckCompilesTheValid == CompilerSpec => []CompilesTheValid
BY DeckInvariant, ValidCompiles, PTL

LEMMA LaunchedAreBound == DeckInv => LaunchBindsTheSpec
<1> SUFFICES ASSUME DeckInv, launch = "launched" PROVE LaunchBindsTheSpec
  BY DEF LaunchBindsTheSpec
<1> DEFINE cards == spec.cards
           n == Len(cards)
           s == Sorted(cards)
<1>1. /\ lock.ok /\ DOMAIN implementations = 1 .. Len(implementations)
      /\ Launch(lock, implementations) = "launched"
  BY DEF DeckInv, LaunchIsBinding, Pending
<1>2. /\ cards \in Seq(Cards) /\ KeysDiffer(cards) /\ lock.cards = s
  BY <1>1, LockOfSpec DEF DeckInv, DeckTypes
<1>3. /\ Len(implementations) = Len(lock.cards)
      /\ \A i \in DOMAIN implementations : implementations[i] = lock.cards[i]
  BY <1>1 DEF Launch
<1>4. n \in Nat /\ DOMAIN cards = 1 .. n
  BY <1>2, ElementsCounted
<1>5. /\ s \in [1 .. n -> ToSet(cards)]
      /\ ToSet(s) = ToSet(cards)
      /\ \A i, j \in 1 .. n : s[i] = s[j] => i = j
  BY <1>2, SortedIsSorted
<1> HIDE DEF n, s, cards
<1>6. Len(s) = n
  BY <1>4, <1>5
<1>7. \A i \in 1 .. n : implementations[i] = s[i]
  BY <1>1, <1>2, <1>3, <1>6
<1>8. ASSUME NEW i \in DOMAIN cards
      PROVE  Cardinality({j \in DOMAIN implementations : implementations[j] = cards[i]}) = 1
  <2>1. cards[i] \in ToSet(s)
    BY <1>5, <1>8 DEF ToSet
  <2>2. PICK k \in 1 .. n : s[k] = cards[i]
    BY <1>5, <2>1 DEF ToSet
  <2>3. DOMAIN implementations = 1 .. n
    BY <1>1, <1>2, <1>3, <1>6
  <2>4. {j \in DOMAIN implementations : implementations[j] = cards[i]} = {k}
    BY <1>5, <1>7, <2>2, <2>3
  <2>5. QED
    BY <2>4, FS_Singleton
<1>9. Len(implementations) = n
  BY <1>2, <1>3, <1>6
<1>10. QED
  BY <1>8, <1>9 DEF LaunchBindsTheSpec, cards, n

\* A Deck is launched only with exactly one implementation for each Card of
\* its spec, whatever implementations the composition brings.
THEOREM DeckLaunchBindsTheSpec == CompilerSpec => []LaunchBindsTheSpec
BY DeckInvariant, LaunchedAreBound, PTL

-----------------------------------------------------------------------------
(* The digest.                                                             *)

LEMMA StringsConcat ==
    ASSUME NEW s \in Seq(Nat), NEW t \in Seq(Nat)
    PROVE  s \o t \in Seq(Nat)
BY ConcatProperties

LEMMA StringsAssociate ==
    ASSUME NEW s \in Seq(Nat), NEW t \in Seq(Nat), NEW u \in Seq(Nat)
    PROVE  (s \o t) \o u = s \o (t \o u)
BY ConcatAssociative

LEMMA StringsRegroup ==
    ASSUME NEW p \in Seq(Nat), NEW e \in Seq(Nat), NEW u \in Seq(Nat), NEW q, q = p \o e
    PROVE  q \o u = p \o (e \o u) /\ e \o u \in Seq(Nat)
BY StringsAssociate, StringsConcat

\* The count n, followed by u, makes up w.
OpensCount(w, n, u) == n \in Nat /\ u \in Seq(Nat) /\ w = <<n>> \o u

LEMMA CountsAreRead ==
    ASSUME NEW w, NEW n, NEW u, OpensCount(w, n, u), NEW m, NEW v, OpensCount(w, m, v)
    PROVE  n = m /\ u = v
<1> n \in Nat /\ m \in Nat /\ u \in Seq(Nat) /\ v \in Seq(Nat)
  BY DEF OpensCount
<1> <<n>> \o u = <<m>> \o v
  BY DEF OpensCount
<1>1. ASSUME NEW k \in Nat, NEW x \in Seq(Nat) PROVE (<<k>> \o x)[1] = k
  <2>1. <<k>> \in Seq(Nat) /\ Len(<<k>>) = 1 /\ <<k>>[1] = k /\ Len(x) \in Nat
    BY LenProperties
  <2>2. 1 \in 1 .. Len(<<k>>) + Len(x)
    BY <2>1
  <2>3. (<<k>> \o x)[1] = IF 1 <= Len(<<k>>) THEN <<k>>[1] ELSE x[1 - Len(<<k>>)]
    BY <2>1, <2>2, ConcatProperties
  <2>4. QED
    BY <2>1, <2>3
<1>2. (<<n>> \o u)[1] = n /\ (<<m>> \o v)[1] = m
  BY <1>1
<1>3. n = m
  BY <1>2
<1>4. \A a, b, c \in Seq(Nat) : a \o b = a \o c => b = c
  BY ConcatSimplifications
<1>5. <<n>> \in Seq(Nat)
  OBVIOUS
<1>6. QED
  BY <1>3, <1>4, <1>5

\* A framed string s, followed by u, makes up w.
Opens(w, s, u) == s \in Seq(Nat) /\ u \in Seq(Nat) /\ w = Framed(s) \o u

\* A framed string is read back from the front of whatever it stands in.
LEMMA FramesAreRead ==
    ASSUME NEW w, NEW s, NEW u, Opens(w, s, u), NEW t, NEW v, Opens(w, t, v)
    PROVE  s = t /\ u = v
<1> s \in Seq(Nat) /\ t \in Seq(Nat) /\ u \in Seq(Nat) /\ v \in Seq(Nat)
  BY DEF Opens
<1>1. Len(s) \in Nat /\ Len(t) \in Nat
  BY LenProperties
<1>2. <<Len(s)>> \in Seq(Nat) /\ <<Len(t)>> \in Seq(Nat)
  BY <1>1
<1>3. /\ s \o u \in Seq(Nat) /\ t \o v \in Seq(Nat)
      /\ (<<Len(s)>> \o s) \o u = <<Len(s)>> \o (s \o u)
      /\ (<<Len(t)>> \o t) \o v = <<Len(t)>> \o (t \o v)
  <2>1. s \o u \in Seq(Nat) /\ t \o v \in Seq(Nat)
    BY StringsConcat
  <2>2. (<<Len(s)>> \o s) \o u = <<Len(s)>> \o (s \o u)
    BY <1>2, StringsAssociate
  <2>3. (<<Len(t)>> \o t) \o v = <<Len(t)>> \o (t \o v)
    BY <1>2, StringsAssociate
  <2>4. QED
    BY <2>1, <2>2, <2>3
<1>4. OpensCount(w, Len(s), s \o u) /\ OpensCount(w, Len(t), t \o v)
  BY <1>1, <1>3 DEF Opens, Framed, OpensCount
<1>5. Len(s) = Len(t) /\ s \o u = t \o v
  BY <1>4, CountsAreRead
<1>6. \A i \in 1 .. Len(s) : s[i] = t[i]
  <2>1. ASSUME NEW i \in 1 .. Len(s) PROVE s[i] = t[i]
    <3>1. Len(u) \in Nat /\ Len(v) \in Nat
      BY LenProperties
    <3>2. /\ i \in 1 .. Len(s) + Len(u) /\ i <= Len(s)
          /\ i \in 1 .. Len(t) + Len(v) /\ i <= Len(t)
      BY <1>1, <1>5, <3>1
    <3>3. (s \o u)[i] = s[i]
      BY <3>2, ConcatProperties
    <3>4. (t \o v)[i] = t[i]
      BY <3>2, ConcatProperties
    <3>5. QED
      BY <1>5, <3>3, <3>4
  <2>2. QED
    BY <2>1
<1>7. s = t
  BY <1>5, <1>6, SeqEqual
<1>8. u = v
  <2>1. \A a, b, c \in Seq(Nat) : a \o b = a \o c => b = c
    BY ConcatSimplifications
  <2>2. QED
    BY <1>5, <1>7, <2>1
<1>9. QED
  BY <1>7, <1>8

LEMMA FramesAreStrings ==
    ASSUME NEW s \in Seq(Nat)
    PROVE  Framed(s) \in Seq(Nat)
<1>1. Len(s) \in Nat
  BY LenProperties
<1>2. <<Len(s)>> \in Seq(Nat)
  BY <1>1
<1>3. QED
  BY <1>2, ConcatProperties DEF Framed

\* The bytes of one Card in the digest.
Entry(card) == Framed(card.key) \o Framed(card.definition)

LEMMA EntriesAreStrings ==
    ASSUME NEW card \in Cards
    PROVE  Entry(card) \in Seq(Nat)
<1>1. Framed(card.key) \in Seq(Nat) /\ Framed(card.definition) \in Seq(Nat)
  BY CardKeysAreStrings, FramesAreStrings
<1>2. QED
  BY <1>1, ConcatProperties DEF Entry

\* The entry of a Card, followed by u, makes up w.
OpensCard(w, card, u) == card \in Cards /\ u \in Seq(Nat) /\ w = Entry(card) \o u

LEMMA EntryOpens ==
    ASSUME NEW w, NEW card, NEW u, OpensCard(w, card, u)
    PROVE  \E r : Opens(w, card.key, r) /\ Opens(r, card.definition, u)
<1>1. card.key \in Seq(Nat) /\ card.definition \in Seq(Nat) /\ u \in Seq(Nat)
  BY CardKeysAreStrings DEF OpensCard
<1>2. PICK k, d : k = Framed(card.key) /\ d = Framed(card.definition)
  OBVIOUS
<1>3. k \in Seq(Nat) /\ d \in Seq(Nat)
  BY <1>1, <1>2, FramesAreStrings
<1>4. w = (k \o d) \o u
  BY <1>2 DEF OpensCard, Entry
<1>5. w = k \o (d \o u) /\ d \o u \in Seq(Nat)
  <2>1. PICK q : q = k \o d
    OBVIOUS
  <2>2. q \o u = k \o (d \o u) /\ d \o u \in Seq(Nat)
    BY <1>1, <1>3, <2>1, StringsRegroup
  <2>3. QED
    BY <1>4, <2>1, <2>2
<1>6. Opens(w, card.key, d \o u) /\ Opens(d \o u, card.definition, u)
  BY <1>1, <1>2, <1>5 DEF Opens
<1>7. QED
  BY <1>6

LEMMA EntriesAreRead ==
    ASSUME NEW w, NEW c, NEW u, OpensCard(w, c, u), NEW d, NEW v, OpensCard(w, d, v)
    PROVE  c = d /\ u = v
<1>1. PICK r : Opens(w, c.key, r) /\ Opens(r, c.definition, u)
  BY EntryOpens
<1>2. PICK q : Opens(w, d.key, q) /\ Opens(q, d.definition, v)
  BY EntryOpens
<1>3. c.key = d.key /\ r = q
  BY <1>1, <1>2, FramesAreRead
<1>4. c.definition = d.definition /\ u = v
  BY <1>1, <1>2, <1>3, FramesAreRead
<1>5. c \in Cards /\ d \in Cards
  BY DEF OpensCard
<1>6. QED
  BY <1>3, <1>4, <1>5 DEF Cards

\* The entries of a list up to i, one after the other: f is what FlattenSeq
\* computes on the way.
Joins(f, cards) ==
    f = [i \in 1 .. Len(cards) |->
            IF i = 1 THEN Entry(cards[i]) ELSE f[i - 1] \o Entry(cards[i])]

LEMMA JoinsExist ==
    ASSUME NEW cards \in Seq(Cards)
    PROVE  \E f : Joins(f, cards)
<1> DEFINE n == Len(cards)
           JoinsTo(f, m) == f = [i \in 1 .. m |->
                                    IF i = 1 THEN Entry(cards[i])
                                    ELSE f[i - 1] \o Entry(cards[i])]
           Bad == {m \in Nat : ~ \E f : JoinsTo(f, m)}
<1>1. n \in Nat
  BY LenProperties
<1>2. Bad = {}
  <2> SUFFICES ASSUME Bad # {} PROVE FALSE
    OBVIOUS
  <2>1. PICK m \in Bad : \A j \in Bad : m <= j
    BY LeastNatural
  <2>2. m # 0
    <3>1. JoinsTo(<<>>, 0)
      OBVIOUS
    <3>2. ~ \E f : JoinsTo(f, m)
      BY <2>1
    <3> HIDE DEF JoinsTo
    <3>3. QED
      BY <3>1, <3>2
  <2>3. m - 1 \in Nat /\ ~(m <= m - 1)
    BY <2>1, <2>2
  <2>4. PICK f : JoinsTo(f, m - 1)
    BY <2>1, <2>3
  <2> DEFINE g == [i \in 1 .. m |->
                     IF i < m THEN f[i]
                     ELSE IF i = 1 THEN Entry(cards[i]) ELSE f[i - 1] \o Entry(cards[i])]
  <2>5. ASSUME NEW i \in 1 .. m
        PROVE  g[i] = IF i = 1 THEN Entry(cards[i]) ELSE g[i - 1] \o Entry(cards[i])
    <3>1. i # 1 => i - 1 \in 1 .. m /\ i - 1 < m /\ g[i - 1] = f[i - 1]
      BY <2>1
    <3>2. CASE i < m
      <4>1. i \in 1 .. m - 1
        BY <2>1, <3>2
      <4>2. f[i] = IF i = 1 THEN Entry(cards[i]) ELSE f[i - 1] \o Entry(cards[i])
        BY <2>4, <4>1
      <4>3. g[i] = f[i]
        BY <3>2
      <4> HIDE DEF g
      <4>4. QED
        BY <3>1, <4>2, <4>3
    <3>3. CASE ~(i < m)
      <4>1. g[i] = IF i = 1 THEN Entry(cards[i]) ELSE f[i - 1] \o Entry(cards[i])
        BY <3>3
      <4> HIDE DEF g
      <4>2. QED
        BY <3>1, <4>1
    <3>4. QED
      BY <3>2, <3>3
  <2>6. JoinsTo(g, m)
    <3>1. g = [i \in 1 .. m |-> g[i]]
      OBVIOUS
    <3> HIDE DEF g
    <3>2. QED
      BY <2>5, <3>1
  <2>7. QED
    BY <2>1, <2>6
<1>3. \E f : JoinsTo(f, n)
  BY <1>1, <1>2
<1>4. QED
  BY <1>3 DEF Joins

LEMMA JoinsAreStrings ==
    ASSUME NEW cards \in Seq(Cards), NEW f, Joins(f, cards), NEW i \in 1 .. Len(cards)
    PROVE  f[i] \in Seq(Nat)
<1> DEFINE n == Len(cards)
           Bad == {m \in Nat : m \in 1 .. n /\ f[m] \notin Seq(Nat)}
<1>1. /\ n \in Nat /\ \A m \in 1 .. n : Entry(cards[m]) \in Seq(Nat)
  BY LenProperties, ElementOfSeq, EntriesAreStrings
<1>2. \A m \in 1 .. n : f[m] = IF m = 1 THEN Entry(cards[m]) ELSE f[m - 1] \o Entry(cards[m])
  BY DEF Joins
<1>3. Bad = {}
  <2> SUFFICES ASSUME Bad # {} PROVE FALSE
    OBVIOUS
  <2>1. PICK m \in Bad : \A j \in Bad : m <= j
    BY LeastNatural
  <2>2. m \in Nat /\ m \in 1 .. n /\ f[m] \notin Seq(Nat)
    BY <2>1
  <2>3. m # 1
    BY <1>1, <1>2, <2>2
  <2>4. m - 1 \in Nat /\ m - 1 \in 1 .. n /\ ~(m <= m - 1)
    BY <1>1, <2>2, <2>3
  <2>5. f[m - 1] \in Seq(Nat)
    BY <2>1, <2>4
  <2>6. f[m] \in Seq(Nat)
    BY <1>1, <1>2, <2>2, <2>3, <2>5, StringsConcat
  <2>7. QED
    BY <2>2, <2>6
<1>4. QED
  BY <1>1, <1>3

LEMMA JoinsStep ==
    ASSUME NEW cards \in Seq(Cards), NEW f, Joins(f, cards), NEW m \in 1 .. Len(cards), m # 1,
           NEW u \in Seq(Nat)
    PROVE  /\ f[m] \o u = f[m - 1] \o (Entry(cards[m]) \o u)
           /\ Entry(cards[m]) \o u \in Seq(Nat)
<1>1. Len(cards) \in Nat /\ m - 1 \in 1 .. Len(cards)
  BY LenProperties
<1>2. f[m - 1] \in Seq(Nat)
  BY <1>1, JoinsAreStrings
<1>3. Entry(cards[m]) \in Seq(Nat)
  BY ElementOfSeq, EntriesAreStrings
<1>4. f[m] = f[m - 1] \o Entry(cards[m])
  BY DEF Joins
<1>5. PICK p, e, q : p = f[m - 1] /\ e = Entry(cards[m]) /\ q = f[m]
  OBVIOUS
<1>6. p \in Seq(Nat) /\ e \in Seq(Nat) /\ q = p \o e
  BY <1>2, <1>3, <1>4, <1>5
<1>7. q \o u = p \o (e \o u) /\ e \o u \in Seq(Nat)
  <2>1. (p \o e) \o u = p \o (e \o u)
    BY <1>6, StringsAssociate
  <2>2. e \o u \in Seq(Nat)
    BY <1>6, StringsConcat
  <2>3. QED
    BY <1>6, <2>1, <2>2
<1>8. QED
  BY <1>5, <1>7

\* Joined entries that begin alike stand for Cards that are alike so far.
ReadBack(f, a, g, b, n) ==
    \A u, v \in Seq(Nat) :
        f[n] \o u = g[n] \o v => u = v /\ \A i \in 1 .. n : a[i] = b[i]

LEMMA JoinsAreRead ==
    ASSUME NEW a \in Seq(Cards), NEW b \in Seq(Cards), Len(a) = Len(b),
           NEW f, Joins(f, a), NEW g, Joins(g, b), NEW n \in 1 .. Len(a)
    PROVE  ReadBack(f, a, g, b, n)
<1> DEFINE Read(m) == ReadBack(f, a, g, b, m)
           Bad == {m \in Nat : m \in 1 .. Len(a) /\ ~Read(m)}
<1>1. /\ Len(a) \in Nat
      /\ \A m \in 1 .. Len(a) : a[m] \in Cards /\ b[m] \in Cards
  BY LenProperties, ElementOfSeq
<1>2. \A m \in 1 .. Len(a) : Entry(a[m]) \in Seq(Nat) /\ Entry(b[m]) \in Seq(Nat)
  BY <1>1, EntriesAreStrings
<1>3. /\ \A m \in 1 .. Len(a) : f[m] = IF m = 1 THEN Entry(a[m]) ELSE f[m - 1] \o Entry(a[m])
      /\ \A m \in 1 .. Len(a) : g[m] = IF m = 1 THEN Entry(b[m]) ELSE g[m - 1] \o Entry(b[m])
  BY DEF Joins
<1>4. \A m \in 1 .. Len(a) : f[m] \in Seq(Nat) /\ g[m] \in Seq(Nat)
  BY JoinsAreStrings
<1>5. Bad = {}
  <2> SUFFICES ASSUME Bad # {} PROVE FALSE
    OBVIOUS
  <2>1. PICK m \in Bad : \A j \in Bad : m <= j
    BY LeastNatural
  <2>2. m \in Nat /\ m \in 1 .. Len(a) /\ ~Read(m)
    BY <2>1
  <2>3. PICK u \in Seq(Nat), v \in Seq(Nat) :
            f[m] \o u = g[m] \o v /\ ~(u = v /\ \A i \in 1 .. m : a[i] = b[i])
    BY <2>2 DEF ReadBack
  <2>4. CASE m = 1
    <3>1. Entry(a[m]) \o u = Entry(b[m]) \o v
      BY <1>3, <2>2, <2>3, <2>4
    <3>. OpensCard(Entry(a[m]) \o u, a[m], u) /\ OpensCard(Entry(a[m]) \o u, b[m], v)
      BY <1>1, <2>2, <3>1 DEF OpensCard
    <3>2. a[m] = b[m] /\ u = v
      BY EntriesAreRead
    <3>3. QED
      BY <2>3, <2>4, <3>2
  <2>5. CASE m # 1
    <3>1. m - 1 \in Nat /\ m - 1 \in 1 .. Len(a) /\ ~(m <= m - 1)
      BY <1>1, <2>2, <2>5
    <3>2. m - 1 \notin Bad
      BY <2>1, <3>1
    <3>3. Read(m - 1)
      BY <3>1, <3>2
    <3>4. /\ f[m] \o u = f[m - 1] \o (Entry(a[m]) \o u)
          /\ g[m] \o v = g[m - 1] \o (Entry(b[m]) \o v)
          /\ Entry(a[m]) \o u \in Seq(Nat) /\ Entry(b[m]) \o v \in Seq(Nat)
      <4>1. f[m] \o u = f[m - 1] \o (Entry(a[m]) \o u) /\ Entry(a[m]) \o u \in Seq(Nat)
        BY <2>2, <2>5, JoinsStep
      <4>2. g[m] \o v = g[m - 1] \o (Entry(b[m]) \o v) /\ Entry(b[m]) \o v \in Seq(Nat)
        BY <2>2, <2>5, JoinsStep
      <4>3. QED
        BY <4>1, <4>2
    <3>5. Entry(a[m]) \o u = Entry(b[m]) \o v /\ \A i \in 1 .. m - 1 : a[i] = b[i]
      BY <2>3, <3>3, <3>4 DEF ReadBack
    <3>6. a[m] = b[m] /\ u = v
      <4>1. /\ OpensCard(Entry(a[m]) \o u, a[m], u)
            /\ OpensCard(Entry(a[m]) \o u, b[m], v)
        BY <1>1, <2>2, <3>5 DEF OpensCard
      <4>2. QED
        BY <4>1, EntriesAreRead
    <3>7. \A i \in 1 .. m : a[i] = b[i]
      BY <2>2, <3>5, <3>6
    <3>8. QED
      BY <2>3, <3>6, <3>7
  <2>6. QED
    BY <2>4, <2>5
<1>6. n \in Nat /\ n \notin Bad
  <2> HIDE DEF Bad
  <2>1. QED
    BY <1>1, <1>5
<1>7. QED
  BY <1>6

\* What follows the count of the Cards in the digest.
Body(cards) ==
    FlattenSeq([i \in DOMAIN cards |-> Framed(cards[i].key) \o Framed(cards[i].definition)])

LEMMA BodyJoins ==
    ASSUME NEW cards \in Seq(Cards), Len(cards) # 0
    PROVE  \E f : Joins(f, cards) /\ Body(cards) = f[Len(cards)]
<1> DEFINE n == Len(cards)
           seqs == [i \in DOMAIN cards |->
                       Framed(cards[i].key) \o Framed(cards[i].definition)]
           Flattens(f) == f = [i \in 1 .. Len(seqs) |->
                                 IF i = 1 THEN seqs[i] ELSE f[i - 1] \o seqs[i]]
<1>1. n \in Nat /\ DOMAIN cards = 1 .. n
  BY LenProperties
<1>2. Len(seqs) = n /\ \A i \in 1 .. n : seqs[i] = Entry(cards[i])
  BY <1>1 DEF Entry
<1>3. Body(cards) = (CHOOSE f : Flattens(f))[n]
  <2>1. Body(cards) = FlattenSeq(seqs)
    BY DEF Body
  <2> HIDE DEF seqs
  <2>2. QED
    BY <1>1, <1>2, <2>1 DEF FlattenSeq
<1> HIDE DEF seqs
<1>4. \A f : Flattens(f) <=> Joins(f, cards)
  <2>1. ASSUME NEW f
        PROVE  [i \in 1 .. Len(seqs) |-> IF i = 1 THEN seqs[i] ELSE f[i - 1] \o seqs[i]]
                 = [i \in 1 .. Len(cards) |->
                      IF i = 1 THEN Entry(cards[i]) ELSE f[i - 1] \o Entry(cards[i])]
    BY <1>2
  <2>2. QED
    BY <2>1 DEF Joins
<1>5. \E f : Flattens(f)
  BY <1>4, JoinsExist
<1>6. Flattens(CHOOSE f : Flattens(f))
  <2> HIDE DEF Flattens
  <2>1. QED
    BY <1>5
<1>7. QED
  BY <1>3, <1>4, <1>6

LEMMA DigestOpens ==
    ASSUME NEW key \in Seq(Nat), NEW cards \in Seq(Cards), Len(cards) # 0,
           NEW w, w = deck_digest(key, cards)
    PROVE  \E f, b : /\ Joins(f, cards) /\ b = f[Len(cards)] /\ b \in Seq(Nat)
                     /\ Opens(w, key, <<Len(cards)>> \o b)
<1>1. Len(cards) \in Nat /\ Len(cards) \in 1 .. Len(cards)
  BY LenProperties
<1>2. PICK f : Joins(f, cards) /\ Body(cards) = f[Len(cards)]
  BY BodyJoins
<1>3. f[Len(cards)] \in Seq(Nat)
  BY <1>1, <1>2, JoinsAreStrings
<1>4. PICK b, k, c : b = Body(cards) /\ k = Framed(key) /\ c = <<Len(cards)>>
  OBVIOUS
<1>5. b \in Seq(Nat) /\ k \in Seq(Nat) /\ c \in Seq(Nat)
  BY <1>1, <1>2, <1>3, <1>4, FramesAreStrings
<1>6. w = (k \o c) \o b
  BY <1>4 DEF deck_digest, Body
<1>7. w = k \o (c \o b)
  BY <1>5, <1>6, StringsAssociate
<1>8. c \o b \in Seq(Nat)
  BY <1>5, StringsConcat
<1>9. Opens(w, key, <<Len(cards)>> \o b)
  BY <1>4, <1>7, <1>8 DEF Opens
<1>10. QED
  BY <1>2, <1>4, <1>5, <1>9

LEMMA JoinsDetermine ==
    ASSUME NEW a \in Seq(Cards), Len(a) # 0, NEW b \in Seq(Cards), Len(a) = Len(b),
           NEW f, Joins(f, a), NEW g, Joins(g, b), f[Len(a)] = g[Len(a)]
    PROVE  a = b
<1> DEFINE n == Len(a)
<1>1. n \in 1 .. Len(a)
  BY LenProperties
<1>2. ReadBack(f, a, g, b, n)
  BY <1>1, JoinsAreRead
<1>3. f[n] \o <<>> = g[n] \o <<>> /\ <<>> \in Seq(Nat)
  OBVIOUS
<1>4. \A i \in 1 .. n : a[i] = b[i]
  BY <1>2, <1>3 DEF ReadBack
<1>5. QED
  BY <1>4, SeqEqual

\* The bytes that are hashed tell any two Decks apart.
LEMMA DigestsDiffer ==
    ASSUME NEW key \in Seq(Nat), NEW cards \in Seq(Cards), Len(cards) # 0,
           NEW k \in Seq(Nat), NEW c \in Seq(Cards), Len(c) # 0,
           deck_digest(key, cards) = deck_digest(k, c)
    PROVE  key = k /\ cards = c
<1>1. PICK w : w = deck_digest(key, cards) /\ w = deck_digest(k, c)
  OBVIOUS
<1>2. PICK f, b : /\ Joins(f, cards) /\ b = f[Len(cards)] /\ b \in Seq(Nat)
                  /\ Opens(w, key, <<Len(cards)>> \o b)
  BY <1>1, DigestOpens
<1>3. PICK g, d : /\ Joins(g, c) /\ d = g[Len(c)] /\ d \in Seq(Nat)
                  /\ Opens(w, k, <<Len(c)>> \o d)
  BY <1>1, DigestOpens
<1>4. key = k /\ <<Len(cards)>> \o b = <<Len(c)>> \o d
  BY <1>2, <1>3, FramesAreRead
<1>5. Len(cards) \in Nat /\ Len(c) \in Nat
  BY LenProperties
<1>6. Len(cards) = Len(c) /\ b = d
  <2>1. /\ OpensCount(<<Len(cards)>> \o b, Len(cards), b)
        /\ OpensCount(<<Len(cards)>> \o b, Len(c), d)
    BY <1>2, <1>3, <1>4, <1>5 DEF OpensCount
  <2>2. QED
    BY <2>1, CountsAreRead
<1>7. f[Len(cards)] = g[Len(cards)]
  BY <1>2, <1>3, <1>6
<1>8. cards = c
  BY <1>2, <1>3, <1>6, <1>7, JoinsDetermine
<1>9. QED
  BY <1>4, <1>8

\* Lists of the same Cards, with different keys, are sorted to the same list.
LEMMA SameCardsSortAlike ==
    ASSUME NEW a \in Seq(Cards), NEW b \in Seq(Cards), KeysDiffer(a), KeysDiffer(b)
    PROVE  Sorted(a) = Sorted(b) <=> ToSet(a) = ToSet(b)
<1>1. ToSet(Sorted(a)) = ToSet(a) /\ ToSet(Sorted(b)) = ToSet(b)
  BY SortedIsSorted
<1>2. ASSUME ToSet(a) = ToSet(b) PROVE Sorted(a) = Sorted(b)
  <2>1. Len(a) = Cardinality(ToSet(a)) /\ Len(b) = Cardinality(ToSet(b))
    BY DifferentKeysCount
  <2>2. DOMAIN a = 1 .. Len(a) /\ DOMAIN b = 1 .. Len(b)
    BY LenProperties
  <2>3. DOMAIN a = DOMAIN b
    BY <1>2, <2>1, <2>2
  <2>4. QED
    BY <1>2, <2>3 DEF Sorted
<1>3. QED
  BY <1>1, <1>2

LEMMA SortedIsDeck ==
    ASSUME NEW cards \in Seq(Cards), KeysDiffer(cards), NEW s, s = Sorted(cards)
    PROVE  s \in Seq(Cards) /\ Len(s) = Len(cards)
<1>1. /\ s \in [1 .. Len(cards) -> ToSet(cards)]
      /\ Len(cards) \in Nat /\ ToSet(cards) \subseteq Cards
  BY SortedIsSorted, ElementsCounted
<1>2. s \in [1 .. Len(cards) -> Cards]
  BY <1>1
<1>3. s \in Seq(Cards)
  BY <1>1, <1>2, SeqDef
<1>4. QED
  BY <1>1, <1>2, <1>3

LEMMA DigestStandsForDeck == DeckInv => DigestIdentifies
<1> SUFFICES ASSUME DeckInv, lock.ok, NEW deck \in Compilable
             PROVE  LET other == deck[1]
                        same == deck[2] = lock
                    IN  /\ (deck[2].digest = lock.digest) = same
                        /\ same = (/\ other.key = spec.key
                                   /\ ToSet(other.cards) = ToSet(spec.cards))
  BY DEF DigestIdentifies
<1>1. PICK d \in Decks : deck = <<d, compile(SetToSeq(DefinitionRefs), d)>> /\ deck[2].ok
  BY DEF Compilable
<1>2. PICK l : l = deck[2]
  OBVIOUS
<1>3. deck[1] = d /\ l = compile(SetToSeq(DefinitionRefs), d) /\ l.ok
  BY <1>1, <1>2
<1>4. /\ d.key \in DeckKeys /\ d.cards \in Seq(Cards)
      /\ d \in [key : DeckKeys, cards : Seq(Cards)]
  <2>1. PICK k \in DeckKeys, c \in BoundedSeq(Cards, MAX_CARDS_PER_DECK) :
            d = [key |-> k, cards |-> c]
    BY DEF Decks
  <2>2. c \in Seq(Cards)
    BY ShortSequences, CompilerAssumption
  <2>3. QED
    BY <2>1, <2>2
<1>5. /\ l = [ok |-> TRUE, key |-> d.key, cards |-> Sorted(d.cards),
              digest |-> deck_digest(d.key, Sorted(d.cards))]
      /\ KeysDiffer(d.cards) /\ Len(d.cards) \in 1 .. MAX_CARDS_PER_DECK
  BY <1>3, <1>4, CompileAccepts
<1>6. /\ lock = [ok |-> TRUE, key |-> spec.key, cards |-> Sorted(spec.cards),
                 digest |-> deck_digest(spec.key, Sorted(spec.cards))]
      /\ KeysDiffer(spec.cards) /\ Len(spec.cards) \in 1 .. MAX_CARDS_PER_DECK
  BY LockOfSpec
<1>7. spec.key \in DeckKeys /\ spec.cards \in Seq(Cards)
  BY DEF DeckInv, DeckTypes
<1>8. d.key \in Seq(Nat) /\ spec.key \in Seq(Nat)
  BY <1>4, <1>7, CompilerAssumption
<1>9. PICK s, t : s = Sorted(d.cards) /\ t = Sorted(spec.cards)
  OBVIOUS
<1>10. s \in Seq(Cards) /\ Len(s) = Len(d.cards)
  BY <1>4, <1>5, <1>9, SortedIsDeck
<1>11. t \in Seq(Cards) /\ Len(t) = Len(spec.cards)
  BY <1>6, <1>7, <1>9, SortedIsDeck
<1>12. Len(s) # 0 /\ Len(t) # 0
  BY <1>5, <1>6, <1>10, <1>11
<1>13. deck_digest(d.key, s) = deck_digest(spec.key, t) <=> d.key = spec.key /\ s = t
  BY <1>8, <1>10, <1>11, <1>12, DigestsDiffer
<1>14. s = t <=> ToSet(d.cards) = ToSet(spec.cards)
  BY <1>4, <1>5, <1>6, <1>7, <1>9, SameCardsSortAlike
<1>15. l = lock <=> d.key = spec.key /\ s = t
  <2>1. l.key = d.key /\ l.cards = s /\ lock.key = spec.key /\ lock.cards = t
    BY <1>5, <1>6, <1>9
  <2>2. d.key = spec.key /\ s = t => l = lock
    BY <1>5, <1>6, <1>9
  <2>3. QED
    BY <2>1, <2>2
<1>16. l.digest = deck_digest(d.key, s) /\ lock.digest = deck_digest(spec.key, t)
  BY <1>5, <1>6, <1>9
<1>17. (l.digest = lock.digest) <=> l = lock
  BY <1>13, <1>15, <1>16
<1>18. l = lock <=> (d.key = spec.key /\ ToSet(d.cards) = ToSet(spec.cards))
  BY <1>14, <1>15
<1>19. QED
  BY <1>2, <1>3, <1>17, <1>18

\* The digest of a lock identifies its Deck, for any strings and limits: a
\* spec that compiles has the same digest exactly when it has the same key and
\* the same Cards, in whatever order, and then it has the same lock.
THEOREM DeckDigestIdentifies == CompilerSpec => []DigestIdentifies
BY DeckInvariant, DigestStandsForDeck, PTL
==============================================================================
