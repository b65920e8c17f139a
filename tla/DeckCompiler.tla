---------------------------- MODULE DeckCompiler ----------------------------
(***************************************************************************)
(* From a DeckSpec to a DeckLaunch: DeckCompiler::new and compile(), which *)
(* check every field and resolve the Cards into a sorted lock with its     *)
(* digest, and DeckLaunch::new, which binds one implementation to each.    *)
(*                                                                         *)
(* A string is the sequence of its bytes, small numbers; so is a length in *)
(* the framing of the digest, which is therefore not told apart from text. *)
(* SHA-256 itself is taken to be injective: digest is what is hashed.      *)
(*                                                                         *)
(* The composition offers definitions, a spec and implementations, once.   *)
(* A definition marked "Slip" is a mistake the code could have made.       *)
(***************************************************************************)

EXTENDS Integers, SequencesExt

CONSTANTS
    DeckKeys, CardKeys, DefinitionRefs,    \* strings the composition may use
    Blank, Control,                        \* bytes that are whitespace, or control
    MAX_CARDS_PER_DECK,
    MAX_KEY_BYTES, MAX_DEFINITION_REF_BYTES,
    MAX_OFFERED                            \* bound of the inputs' lengths

ASSUME CompilerAssumption ==
    /\ MAX_CARDS_PER_DECK \in Nat \ {0}
    /\ MAX_KEY_BYTES \in Nat \ {0} /\ MAX_DEFINITION_REF_BYTES \in Nat \ {0}
    /\ MAX_OFFERED \in Nat
    /\ DeckKeys \cup CardKeys \cup DefinitionRefs \subseteq Seq(Nat)

VARIABLES
    offered,             \* the definitions of the composition
    spec,
    lock,                \* what compile() returned
    implementations, launch

compilerVars == <<offered, spec, lock, implementations, launch>>

Cards == [key : CardKeys, definition : DefinitionRefs]

-----------------------------------------------------------------------------
(* Validation.                                                             *)

Accepted == "accepted"

Trimmed(s) == s = <<>> \/ (Head(s) \notin Blank /\ Last(s) \notin Blank)

\* The first rule that a field breaks, in the order of the early returns.
validate_field(s, maximum_bytes) ==
    IF s = <<>> THEN "must not be empty"
    ELSE IF ~Trimmed(s) THEN "must not have leading or trailing whitespace"
    ELSE IF ToSet(s) \cap Control # {} THEN "must not contain control characters"
    ELSE IF Len(s) > maximum_bytes THEN "is too long"
    ELSE Accepted

InvalidField(field, reason) == [kind |-> "InvalidField", field |-> field, reason |-> reason]

\* DeckCompiler::new returns an error for the first of them.
BadDefinitions(definitions) ==
    {i \in DOMAIN definitions :
        validate_field(definitions[i], MAX_DEFINITION_REF_BYTES) # Accepted}

-----------------------------------------------------------------------------
(* DeckCompiler::compile.                                                  *)

Failed(error) == [ok |-> FALSE, error |-> error]

\* What the loop says of the Card at i: the checks in their order.
CardErrorWhole(cards, i, definitions) ==   \* Slip: the Card, not its key, is looked up
    LET card == cards[i] IN
    IF validate_field(card.key, MAX_KEY_BYTES) # Accepted
    THEN InvalidField(<<i, "key">>, validate_field(card.key, MAX_KEY_BYTES))
    ELSE IF validate_field(card.definition, MAX_DEFINITION_REF_BYTES) # Accepted
    THEN InvalidField(<<i, "definition">>,
                      validate_field(card.definition, MAX_DEFINITION_REF_BYTES))
    ELSE IF \E j \in 1 .. i - 1 : cards[j] = card
    THEN [kind |-> "DuplicateCardKey", key |-> card.key]
    ELSE IF card.definition \notin ToSet(definitions)
    THEN [kind |-> "UnknownDefinition", card |-> card.key, definition |-> card.definition]
    ELSE [kind |-> Accepted]
CardError(cards, i, definitions) ==
    LET card == cards[i] IN
    IF validate_field(card.key, MAX_KEY_BYTES) # Accepted
    THEN InvalidField(<<i, "key">>, validate_field(card.key, MAX_KEY_BYTES))
    ELSE IF validate_field(card.definition, MAX_DEFINITION_REF_BYTES) # Accepted
    THEN InvalidField(<<i, "definition">>,
                      validate_field(card.definition, MAX_DEFINITION_REF_BYTES))
    ELSE IF \E j \in 1 .. i - 1 : cards[j].key = card.key
    THEN [kind |-> "DuplicateCardKey", key |-> card.key]
    ELSE IF card.definition \notin ToSet(definitions)
    THEN [kind |-> "UnknownDefinition", card |-> card.key, definition |-> card.definition]
    ELSE [kind |-> Accepted]

BadCards(cards, definitions) ==
    {i \in DOMAIN cards : CardError(cards, i, definitions).kind # Accepted}

\* The order of String: that of the bytes, a prefix first.
Before(s, t) ==
    \E n \in 0 .. Len(s) :
        /\ n < Len(t)
        /\ \A i \in 1 .. n : s[i] = t[i]
        /\ n = Len(s) \/ s[n + 1] < t[n + 1]

Sorted(cards) ==
    CHOOSE s \in [DOMAIN cards -> ToSet(cards)] :
        /\ ToSet(s) = ToSet(cards)
        /\ \A i, j \in DOMAIN s : i < j => ~Before(s[j].key, s[i].key)

Unframed(s) == s                       \* Slip: the field without its length
Framed(s) == <<Len(s)>> \o s

deck_digest(key, cards) ==
    Framed(key) \o <<Len(cards)>>
        \o FlattenSeq([i \in DOMAIN cards |->
                          Framed(cards[i].key) \o Framed(cards[i].definition)])

compile(definitions, s) ==
    LET bad == BadCards(s.cards, definitions) IN
    IF validate_field(s.key, MAX_KEY_BYTES) # Accepted
    THEN Failed(InvalidField(<<0, "key">>, validate_field(s.key, MAX_KEY_BYTES)))
    ELSE IF s.cards = <<>> THEN Failed([kind |-> "EmptyDeck"])
    ELSE IF Len(s.cards) > MAX_CARDS_PER_DECK
    THEN Failed([kind |-> "TooManyCards", actual |-> Len(s.cards)])
    ELSE IF bad # {} THEN Failed(CardError(s.cards, Min(bad), definitions))
    ELSE [ok |-> TRUE, key |-> s.key, cards |-> Sorted(s.cards),
          digest |-> deck_digest(s.key, Sorted(s.cards))]

-----------------------------------------------------------------------------
(* DeckLaunch::new.                                                        *)

LaunchByKey(l, bound) ==               \* Slip: the definition is not compared
    IF Len(bound) # Len(l.cards) THEN "ImplementationCount"
    ELSE IF \E i \in DOMAIN bound : bound[i].key # l.cards[i].key
         THEN "ImplementationMismatch" ELSE "launched"
Launch(l, bound) ==
    IF Len(bound) # Len(l.cards) THEN "ImplementationCount"
    ELSE IF \E i \in DOMAIN bound : bound[i] # l.cards[i]
         THEN "ImplementationMismatch" ELSE "launched"

-----------------------------------------------------------------------------
(* A composition.                                                          *)

Pending == "pending"

CompilerInit ==
    /\ offered \in BoundedSeq(DefinitionRefs, MAX_OFFERED)
    /\ spec \in [key : DeckKeys, cards : BoundedSeq(Cards, MAX_CARDS_PER_DECK + 1)]
    /\ lock = Failed([kind |-> Pending])
    /\ implementations = <<>> /\ launch = Pending

Compile ==
    /\ ~lock.ok /\ lock.error.kind = Pending
    /\ lock' = LET bad == BadDefinitions(offered) IN
               IF bad = {} THEN compile(offered, spec)
               ELSE Failed(InvalidField(<<Min(bad), "definitions">>,
                              validate_field(offered[Min(bad)], MAX_DEFINITION_REF_BYTES)))
    /\ UNCHANGED <<offered, spec, implementations, launch>>

\* The composition brings what implementations it has.
Bind ==
    /\ lock.ok /\ launch = Pending
    /\ \E n \in {Len(lock.cards) - 1, Len(lock.cards), Len(lock.cards) + 1} :
          implementations' \in [1 .. n -> [key : {lock.cards[i].key : i \in DOMAIN lock.cards},
                                         definition : ToSet(offered)]]
    /\ launch' = Launch(lock, implementations')
    /\ UNCHANGED <<offered, spec, lock>>

CompilerNext == Compile \/ Bind

CompilerSpec == CompilerInit /\ [][CompilerNext]_compilerVars

-----------------------------------------------------------------------------

Compiled == lock.ok \/ lock.error.kind # Pending

Sound(s, maximum_bytes) == validate_field(s, maximum_bytes) = Accepted

\* A Deck compiles if and only if it is a small enough set of Cards with
\* different keys, of known definitions, under acceptable names: the one pass
\* with its early returns finds every fault, wherever it is.
CompilesTheValid ==
    Compiled =>
        (lock.ok <=>
            LET cards == ToSet(spec.cards) IN
            /\ \A d \in ToSet(offered) : Sound(d, MAX_DEFINITION_REF_BYTES)
            /\ Sound(spec.key, MAX_KEY_BYTES)
            /\ \A card \in cards : /\ Sound(card.key, MAX_KEY_BYTES)
                                   /\ card.definition \in ToSet(offered)
            /\ Len(spec.cards) \in 1 .. MAX_CARDS_PER_DECK
            /\ Cardinality({card.key : card \in cards}) = Len(spec.cards))

\* Every Deck that compiles, with all definitions on offer.
Decks == [key : DeckKeys, cards : BoundedSeq(Cards, MAX_CARDS_PER_DECK)]
Compilable ==
    {deck \in {<<d, compile(SetToSeq(DefinitionRefs), d)>> : d \in Decks} : deck[2].ok}

\* The digest stands for the Deck and for nothing but the Deck: two specs that
\* compile have the same digest if and only if they have the same key and the
\* same Cards, in whatever order they list them, and then the same lock.
DigestIdentifies ==
    (lock.ok /\ launch = Pending) =>
        \A deck \in Compilable :
            LET other == deck[1]
                same == deck[2] = lock
            IN  /\ (deck[2].digest = lock.digest) = same
                /\ same = (other.key = spec.key /\ ToSet(other.cards) = ToSet(spec.cards))

\* A Deck is launched only with one implementation for each Card of its spec,
\* of that Card's key and exact definition, and with none to spare.
LaunchBindsTheSpec ==
    launch = "launched" =>
        /\ Len(implementations) = Len(spec.cards)
        /\ \A i \in DOMAIN spec.cards :
              Cardinality({j \in DOMAIN implementations :
                              implementations[j] = spec.cards[i]}) = 1
=============================================================================
