------------------------- MODULE AgentServiceProofs -------------------------
(***************************************************************************)
(* What the Agent service keeps true for any number of Sessions, turns,    *)
(* futures and Cards and any limits.                                       *)
(***************************************************************************)

EXTENDS AgentService, SequenceTheorems, FiniteSetTheorems, TLAPS

-----------------------------------------------------------------------------
(* Operators of the community modules.                                     *)

LEMMA LessThanRelation ==
    ASSUME NEW j \in Nat, NEW m \in Nat, j < m
    PROVE  <<j, m>> \in OpToRel(<, Nat)
BY SMT DEF OpToRel

LEMMA MinOfNaturals ==
    ASSUME NEW I \in SUBSET Nat, I # {}
    PROVE  Min(I) \in I /\ \A j \in I : Min(I) <= j
<1> DEFINE R == OpToRel(<, Nat)
<1>1. IsWellFoundedOn(R, Nat)
  BY NatLessThanWellFounded
<1>2. \A j, m \in Nat : j < m => <<j, m>> \in R
  BY LessThanRelation
<1> HIDE DEF R
<1>3. PICK m \in I : \A j \in I : ~(<<j, m>> \in R)
  BY <1>1, WFMin
<1>4. ASSUME NEW j \in I
      PROVE  m <= j
  <2>1. ~(j < m)
    BY <1>2, <1>3
  <2>2. j \in Nat /\ m \in Nat
    OBVIOUS
  <2>3. QED
    BY <2>1, <2>2
<1>5. QED
  BY <1>4 DEF Min

\* The first position whose element passes a test is a position that does.
LEMMA FirstPosition ==
    ASSUME NEW seq, NEW S, seq \in Seq(S), NEW I \in SUBSET (1 .. Len(seq)), I # {}
    PROVE  Min(I) \in I /\ Min(I) \in 1 .. Len(seq)
<1>1. I \in SUBSET Nat
  BY LenProperties
<1>2. QED
  BY <1>1, MinOfNaturals

LEMMA RemoveAtType ==
    ASSUME NEW S, NEW seq \in Seq(S), NEW p \in 1 .. Len(seq)
    PROVE  /\ RemoveAt(seq, p) \in Seq(S)
           /\ Len(RemoveAt(seq, p)) = Len(seq) - 1
<1> DEFINE n == Len(seq)
           front == SubSeq(seq, 1, p - 1)
           back == SubSeq(seq, p + 1, n)
<1>1. n \in Nat /\ p \in Nat /\ 1 <= p /\ p <= n /\ \A j \in 1 .. n : seq[j] \in S
  BY LenProperties, ElementOfSeq
<1> HIDE DEF n
<1>2. front \in Seq(S) /\ Len(front) = p - 1
  BY <1>1, SubSeqProperties
<1>3. back \in Seq(S) /\ Len(back) = n - p
  BY <1>1, SubSeqProperties
<1>4. RemoveAt(seq, p) = front \o back
  BY DEF RemoveAt, n
<1> HIDE DEF front, back
<1>5. front \o back \in Seq(S) /\ Len(front \o back) = Len(front) + Len(back)
  BY <1>2, <1>3, ConcatProperties
<1>6. Len(front) + Len(back) = n - 1
  BY <1>1, <1>2, <1>3
<1>7. QED
  BY <1>4, <1>5, <1>6 DEF n

LEMMA RemoveFirstType ==
    ASSUME NEW S, NEW seq \in Seq(S), NEW e, e \in ToSet(seq)
    PROVE  /\ RemoveFirst(seq, e) \in Seq(S)
           /\ Len(RemoveFirst(seq, e)) = Len(seq) - 1
<1> DEFINE I == {i \in 1 .. Len(seq) : seq[i] = e}
           p == Min(I)
<1>1. I # {}
  BY LenProperties DEF ToSet
<1>2. p \in 1 .. Len(seq)
  BY <1>1, FirstPosition
<1>3. RemoveFirst(seq, e) = RemoveAt(seq, p)
  BY <1>1 DEF RemoveFirst, SelectInSeq
<1>4. QED
  BY <1>2, <1>3, RemoveAtType

-----------------------------------------------------------------------------
(* Types of the values the actions build.                                  *)

LEMMA TerminalTypes ==
    /\ Cancelled \in Terminals
    /\ TimedOut \in Terminals
    /\ \A reason \in Failures : Failed(reason) \in Terminals
    /\ {"InvalidProviderResponse", "ContextLimit"} \subseteq Failures
    /\ \A o \in Terminals : WireSafe(o) \in Terminals
BY DEF Terminals, Cancelled, TimedOut, Failed, Failures, WireSafe

LEMMA AnswerType ==
    ASSUME NEW s \in SessionIds, NEW t \in TurnIds,
           NEW asked \in Inputs \cup {"cancel"},
           NEW reply \in Terminals \cup {CancellationRequested}
    PROVE  Answer(s, t, asked, reply) \in Answers
BY DEF Answer, Answers

LEMMA CompletionType ==
    ASSUME TypeOK, NEW s, NEW t, NEW c \in CompletionsOf(s, t)
    PROVE  c \in CompletedTurns /\ c.terminal \in Terminals
<1>1. s \in DOMAIN sessions /\ c \in ToSet(sessions[s].turns)
  BY DEF CompletionsOf, Completions
<1>2. sessions[s].turns \in Seq(CompletedTurns)
  BY <1>1 DEF TypeOK, SessionStates
<1>3. c \in CompletedTurns
  BY <1>1, <1>2, LenProperties, ElementOfSeq DEF ToSet
<1>4. QED
  BY <1>3 DEF CompletedTurns

\* Recording a terminal adds one turn and leaves the tombstones alone.
LEMMA RecordType ==
    ASSUME NEW session \in SessionStates, NEW t \in TurnIds, NEW i \in Inputs,
           NEW o \in Terminals
    PROVE  /\ Record(session, t, i, o) \in SessionStates
           /\ Len(Record(session, t, i, o).turns) = Len(session.turns) + 1
           /\ Record(session, t, i, o).pending = session.pending
<1> DEFINE c == [turn |-> t, input |-> i, terminal |-> o]
<1>1. c \in CompletedTurns /\ session.turns \in Seq(CompletedTurns)
  BY DEF CompletedTurns, SessionStates
<1> HIDE DEF c
<1>2. /\ Append(session.turns, c) \in Seq(CompletedTurns)
      /\ Len(Append(session.turns, c)) = Len(session.turns) + 1
  BY <1>1, AppendProperties
<1>3. Record(session, t, i, o) = [session EXCEPT !.turns = Append(session.turns, c)]
  BY DEF Record, c
<1>4. QED
  BY <1>2, <1>3 DEF SessionStates

LEMMA SessionLengths ==
    ASSUME NEW session \in SessionStates
    PROVE  Len(session.turns) \in Nat /\ Len(session.pending) \in Nat
BY LenProperties DEF SessionStates

\* What a Session retains beyond its sealed turns and tombstones does not
\* depend on them.
LEMMA RetainedSum ==
    ASSUME NEW s
    PROVE  \E n \in {0, 1} : \A session \in SessionStates :
              Retained(s, session) = Len(session.turns) + Len(session.pending) + n
<1>1. CASE ActiveIn(s)
  BY <1>1 DEF Retained
<1>2. CASE ~ActiveIn(s)
  BY <1>2 DEF Retained
<1>3. QED
  BY <1>1, <1>2

LEMMA Sums ==
    ASSUME NEW x \in Nat, NEW y \in Nat, NEW u \in Nat, NEW v \in Nat, NEW n \in {0, 1}
    PROVE  /\ x + y + n \in Nat
           /\ u = x + 1 /\ v = y => u + v + n = x + y + n + 1
           /\ u = x /\ v = y + 1 => u + v + n = x + y + n + 1
           /\ u = x + 1 /\ v = y - 1 => u + v + n = x + y + n
OBVIOUS

\* A turn or a tombstone more takes a slot; a tombstone that becomes a
\* sealed turn takes none.
LEMMA RetainedGrows ==
    ASSUME NEW s, NEW a \in SessionStates, NEW b \in SessionStates,
           \/ Len(b.turns) = Len(a.turns) + 1 /\ Len(b.pending) = Len(a.pending)
           \/ Len(b.turns) = Len(a.turns) /\ Len(b.pending) = Len(a.pending) + 1
    PROVE  Retained(s, a) \in Nat /\ Retained(s, b) = Retained(s, a) + 1
<1> DEFINE x == Len(a.turns)
           y == Len(a.pending)
           u == Len(b.turns)
           v == Len(b.pending)
<1>1. x \in Nat /\ y \in Nat /\ u \in Nat /\ v \in Nat
  BY SessionLengths
<1>2. \/ u = x + 1 /\ v = y
      \/ u = x /\ v = y + 1
  OBVIOUS
<1>3. PICK n \in {0, 1} : \A session \in SessionStates :
          Retained(s, session) = Len(session.turns) + Len(session.pending) + n
  BY RetainedSum
<1>4. Retained(s, a) = x + y + n /\ Retained(s, b) = u + v + n
  BY <1>3
<1> HIDE DEF x, y, u, v
<1>5. x + y + n \in Nat /\ u + v + n = x + y + n + 1
  BY <1>1, <1>2, Sums
<1>6. QED
  BY <1>4, <1>5

LEMMA RetainedMoves ==
    ASSUME NEW s, NEW a \in SessionStates, NEW b \in SessionStates,
           Len(b.turns) = Len(a.turns) + 1, Len(b.pending) = Len(a.pending) - 1
    PROVE  Retained(s, b) = Retained(s, a)
<1> DEFINE x == Len(a.turns)
           y == Len(a.pending)
           u == Len(b.turns)
           v == Len(b.pending)
<1>1. x \in Nat /\ y \in Nat /\ u \in Nat /\ v \in Nat
  BY SessionLengths
<1>2. u = x + 1 /\ v = y - 1
  OBVIOUS
<1>3. PICK n \in {0, 1} : \A session \in SessionStates :
          Retained(s, session) = Len(session.turns) + Len(session.pending) + n
  BY RetainedSum
<1>4. Retained(s, a) = x + y + n /\ Retained(s, b) = u + v + n
  BY <1>3
<1> HIDE DEF x, y, u, v
<1>5. u + v + n = x + y + n
  BY <1>1, <1>2, Sums
<1>6. QED
  BY <1>4, <1>5

LEMMA EmptySessionType ==
    /\ EmptySession \in SessionStates
    /\ Len(EmptySession.turns) = 0 /\ Len(EmptySession.pending) = 0
BY EmptySeq DEF EmptySession, SessionStates

-----------------------------------------------------------------------------
(* ensure_session.                                                         *)

\* The Session it evicts is one that runs nothing.
LEMMA EvictedIsIdle ==
    ASSUME TypeOK, NEW s, CanEnsure(s)
    PROVE  /\ \A r \in Evicted(s) : ~ActiveIn(r)
           /\ MustEvict(s) => EvictPosition \in 1 .. Len(session_order)
<1>1. CASE ~MustEvict(s)
  BY <1>1 DEF Evicted
<1>2. CASE MustEvict(s)
  <2> DEFINE I == {p \in 1 .. Len(session_order) : ~ActiveIn(session_order[p])}
  <2>1. I # {} /\ session_order \in Seq(SessionIds)
    BY <1>2, LenProperties DEF CanEnsure, Evictable, TypeOK
  <2>2. Min(I) \in I /\ Min(I) \in 1 .. Len(session_order)
    BY <2>1, FirstPosition
  <2>3. EvictPosition = Min(I)
    BY <2>1 DEF EvictPosition, SelectInSeq
  <2> HIDE DEF I
  <2>4. ~ActiveIn(session_order[EvictPosition])
    BY <2>2, <2>3 DEF I
  <2>5. QED
    BY <1>2, <2>2, <2>3, <2>4 DEF Evicted
<1>3. QED
  BY <1>1, <1>2

LEMMA EnsuredTypes ==
    ASSUME TypeOK, NEW s \in SessionIds, CanEnsure(s)
    PROVE  /\ EnsuredOrder(s) \in Seq(SessionIds)
           /\ DOMAIN EnsuredSessions(s) \subseteq SessionIds
           /\ s \in DOMAIN EnsuredSessions(s)
           /\ \A r \in DOMAIN EnsuredSessions(s) :
                /\ EnsuredSessions(s)[r] \in SessionStates
                /\ EnsuredSessions(s)[r] = IF r \in DOMAIN sessions THEN sessions[r]
                                                                   ELSE EmptySession
           /\ \A r \in DOMAIN sessions : ActiveIn(r) => r \in DOMAIN EnsuredSessions(s)
<1>1. EnsuredOrder(s) \in Seq(SessionIds)
  <2>1. session_order \in Seq(SessionIds)
    BY DEF TypeOK
  <2>2. MustEvict(s) => RemoveAt(session_order, EvictPosition) \in Seq(SessionIds)
    BY <2>1, EvictedIsIdle, RemoveAtType
  <2>3. QED
    BY <2>1, <2>2, AppendProperties DEF EnsuredOrder
<1>2. DOMAIN EnsuredSessions(s) = (DOMAIN sessions \ Evicted(s)) \cup {s}
  BY DEF EnsuredSessions
<1>3. ASSUME NEW r \in DOMAIN EnsuredSessions(s)
      PROVE  EnsuredSessions(s)[r] = IF r \in DOMAIN sessions THEN sessions[r]
                                                             ELSE EmptySession
  BY <1>2 DEF EnsuredSessions
<1>4. \A r \in DOMAIN sessions : sessions[r] \in SessionStates /\ r \in SessionIds
  BY DEF TypeOK
<1>5. QED
  BY <1>1, <1>2, <1>3, <1>4, EmptySessionType, EvictedIsIdle

\* It keeps every ledger within its bound: a new Session starts empty.
LEMMA EnsuredBounded ==
    ASSUME LedgerInv, NEW s \in SessionIds, CanEnsure(s),
           NEW r \in DOMAIN EnsuredSessions(s)
    PROVE  Retained(r, EnsuredSessions(s)[r]) <= MAX_RETAINED_TURNS
<1>1. TypeOK /\ ActiveTurnOwned /\ LedgerBounded
  BY DEF LedgerInv
<1>2. CASE r \in DOMAIN sessions
  BY <1>1, <1>2, EnsuredTypes DEF LedgerBounded
<1>3. CASE r \notin DOMAIN sessions
  <2>1. ~ActiveIn(r)
    <3>1. SUFFICES ASSUME active_turn # NoTurn
                   PROVE  active_turn.session # r
      BY DEF ActiveIn
    <3>2. PICK k \in Tasks : pc[k] \in {"running", "proposed"}
      BY <1>1, <3>1 DEF ActiveTurnOwned
    <3>3. GuardMatches(k) /\ job[k].session \in DOMAIN sessions
      BY <1>1, <3>2 DEF ActiveTurnOwned
    <3>4. QED
      BY <1>3, <3>3 DEF GuardMatches, IsActive
  <2>2. EnsuredSessions(s)[r] = EmptySession
    BY <1>1, <1>3, EnsuredTypes
  <2>3. QED
    BY <2>1, <2>2, EmptySessionType, LimitsAssumption DEF Retained
<1>4. QED
  BY <1>2, <1>3

-----------------------------------------------------------------------------
(* One lemma per action: first the clients' calls.                         *)

LEMMA LedgerInvInit == Init => LedgerInv
<1> SUFFICES ASSUME Init
             PROVE  LedgerInv
  OBVIOUS
<1>1. TypeOK
  BY TerminalTypes, EmptySeq DEF Init, TypeOK, IdleOwner, OwnerCalls
<1>2. OwnerInStep /\ UnownedTurnCancelled /\ StoppedIsDrained
  BY DEF Init, OwnerInStep, UnownedTurnCancelled, StoppedIsDrained, IdleOwner
<1>3. ActiveTurnOwned /\ LedgerBounded
  BY DEF Init, ActiveTurnOwned, LedgerBounded
<1>4. QED
  BY <1>1, <1>2, <1>3 DEF LedgerInv

\* A step that only adds to what clients were told.
LEMMA OnlyAnswersInv ==
    ASSUME LedgerInv, answers' \subseteq Answers,
           UNCHANGED <<lifecycle, active_profile, ledger, active_turn, futures, owned>>
    PROVE  LedgerInv'
<1>1. TypeOK'
  BY DEF LedgerInv, TypeOK, ledger, futures, owned
<1>2. OwnerInStep' /\ UnownedTurnCancelled' /\ StoppedIsDrained'
  BY DEF LedgerInv, OwnerInStep, UnownedTurnCancelled, StoppedIsDrained,
         Admission, futures, owned
<1>3. ActiveTurnOwned'
  BY DEF LedgerInv, ActiveTurnOwned, GuardMatches, IsActive, ledger, futures
<1>4. LedgerBounded'
  BY DEF LedgerInv, LedgerBounded, Retained, ActiveIn, ledger
<1>5. QED
  BY <1>1, <1>2, <1>3, <1>4 DEF LedgerInv

LEMMA SubmitReplayInv ==
    ASSUME LedgerInv, NEW s \in SessionIds, NEW t \in TurnIds, NEW i \in Inputs,
           SubmitReplay(s, t, i)
    PROVE  LedgerInv'
<1>1. TypeOK /\ answers \subseteq Answers
  BY DEF LedgerInv, TypeOK
<1>2. PICK c \in CompletionsOf(s, t) :
           answers' = answers \cup {Answer(s, t, i, c.terminal)}
  BY DEF SubmitReplay
<1>3. answers' \subseteq Answers
  BY <1>1, <1>2, CompletionType, AnswerType
<1>4. QED
  BY <1>3, OnlyAnswersInv DEF SubmitReplay

LEMMA CancelSealedInv ==
    ASSUME LedgerInv, NEW s \in SessionIds, NEW t \in TurnIds, CancelSealed(s, t)
    PROVE  LedgerInv'
<1>1. TypeOK /\ answers \subseteq Answers
  BY DEF LedgerInv, TypeOK
<1>2. PICK c \in CompletionsOf(s, t) :
           answers' = answers \cup {Answer(s, t, "cancel", c.terminal)}
  BY DEF CancelSealed
<1>3. answers' \subseteq Answers
  BY <1>1, <1>2, CompletionType, AnswerType
<1>4. QED
  BY <1>3, OnlyAnswersInv DEF CancelSealed

\* A step of a client that changes the ledger and not the active turn.
LEMMA OnlyLedgerInv ==
    ASSUME LedgerInv, answers' \subseteq Answers,
           session_order' \in Seq(SessionIds),
           DOMAIN sessions' \subseteq SessionIds,
           \A r \in DOMAIN sessions' :
              /\ sessions'[r] \in SessionStates
              /\ Retained(r, sessions'[r]) <= MAX_RETAINED_TURNS,
           \A r \in DOMAIN sessions : ActiveIn(r) => r \in DOMAIN sessions',
           UNCHANGED <<lifecycle, active_profile, active_turn, futures, owned>>
    PROVE  LedgerInv'
<1>1. TypeOK'
  BY DEF LedgerInv, TypeOK, futures, owned
<1>2. OwnerInStep' /\ UnownedTurnCancelled' /\ StoppedIsDrained'
  BY DEF LedgerInv, OwnerInStep, UnownedTurnCancelled, StoppedIsDrained,
         Admission, futures, owned
<1>3. ActiveTurnOwned'
  BY DEF LedgerInv, ActiveTurnOwned, GuardMatches, IsActive, ActiveIn, futures
<1>4. LedgerBounded'
  BY DEF LedgerBounded, Retained, ActiveIn
<1>5. QED
  BY <1>1, <1>2, <1>3, <1>4 DEF LedgerInv

LEMMA ToldType ==
    ASSUME TypeOK, NEW s \in SessionIds, NEW told \in SUBSET Answers, Told(s, told)
    PROVE  answers' \subseteq Answers
BY DEF TypeOK, Told

LEMMA SubmitCancelledInv ==
    ASSUME LedgerInv, NEW s \in SessionIds, NEW t \in TurnIds, NEW i \in Inputs,
           SubmitCancelled(s, t, i)
    PROVE  LedgerInv'
<1> DEFINE before == sessions[s]
           redeemed == Redeemed(before, t)
           after == Record(redeemed, t, i, Cancelled)
<1>1. TypeOK /\ LedgerBounded
  BY DEF LedgerInv
<1>2. s \in DOMAIN sessions /\ t \in ToSet(before.pending)
  BY DEF SubmitCancelled, IsPending
<1>3. before \in SessionStates
  BY <1>1, <1>2 DEF TypeOK
<1>4. /\ RemoveFirst(before.pending, t) \in Seq(TurnIds)
      /\ Len(RemoveFirst(before.pending, t)) = Len(before.pending) - 1
  BY <1>2, <1>3, RemoveFirstType DEF SessionStates
<1>5. /\ redeemed \in SessionStates
      /\ redeemed.turns = before.turns
      /\ Len(redeemed.pending) = Len(before.pending) - 1
  BY <1>3, <1>4 DEF SessionStates, Redeemed
<1> HIDE DEF redeemed
<1>6. /\ after \in SessionStates
      /\ Len(after.turns) = Len(before.turns) + 1
      /\ Len(after.pending) = Len(before.pending) - 1
  <2>1. Cancelled \in Terminals
    BY TerminalTypes
  <2>2. /\ after \in SessionStates
        /\ Len(after.turns) = Len(redeemed.turns) + 1
        /\ after.pending = redeemed.pending
    BY <1>5, <2>1, RecordType
  <2>3. QED
    BY <1>5, <2>2
<1>7. sessions' = [sessions EXCEPT ![s] = after]
  BY DEF SubmitCancelled, redeemed
<1> HIDE DEF after, before
<1>8. Retained(s, after) <= MAX_RETAINED_TURNS
  <2>1. Retained(s, after) = Retained(s, before)
    BY <1>3, <1>6, RetainedMoves
  <2>2. Retained(s, before) <= MAX_RETAINED_TURNS
    BY <1>1, <1>2 DEF LedgerBounded, before
  <2>3. QED
    BY <2>1, <2>2
<1>9. \A r \in DOMAIN sessions' :
         /\ sessions'[r] \in SessionStates
         /\ Retained(r, sessions'[r]) <= MAX_RETAINED_TURNS
  BY <1>1, <1>6, <1>7, <1>8 DEF TypeOK, LedgerBounded
<1>10. answers' \subseteq Answers
  <2>1. Answer(s, t, i, Cancelled) \in Answers
    BY AnswerType, TerminalTypes
  <2>2. QED
    BY <1>1, <2>1 DEF SubmitCancelled, TypeOK
<1>11. QED
  BY <1>1, <1>7, <1>9, <1>10, OnlyLedgerInv DEF SubmitCancelled, TypeOK

LEMMA SubmitOverContextInv ==
    ASSUME LedgerInv, NEW s \in SessionIds, NEW t \in TurnIds, NEW i \in Inputs,
           SubmitOverContext(s, t, i)
    PROVE  LedgerInv'
<1> DEFINE ensured == EnsuredSessions(s)
           o == Failed("ContextLimit")
           after == Record(ensured[s], t, i, o)
<1>1. TypeOK
  BY DEF LedgerInv
<1>2. CanEnsure(s) /\ HasTurnSlot(s, ensured[s])
  BY DEF SubmitOverContext, Submittable
<1>3. o \in Terminals
  BY TerminalTypes
<1>4. /\ sessions' = [ensured EXCEPT ![s] = after]
      /\ session_order' = EnsuredOrder(s)
      /\ Told(s, {Answer(s, t, i, o)})
      /\ UNCHANGED <<lifecycle, active_profile, active_turn, futures, owned>>
  BY DEF SubmitOverContext
<1>5. ensured[s] \in SessionStates
  BY <1>1, <1>2, EnsuredTypes
<1> HIDE DEF o
<1>6. /\ after \in SessionStates
      /\ Len(after.turns) = Len(ensured[s].turns) + 1
      /\ after.pending = ensured[s].pending
  BY <1>3, <1>5, RecordType
<1> HIDE DEF after, ensured
<1>7. Retained(s, after) <= MAX_RETAINED_TURNS
  <2>1. /\ Retained(s, after) = Retained(s, ensured[s]) + 1
        /\ Retained(s, ensured[s]) \in Nat
    BY <1>5, <1>6, RetainedGrows
  <2>2. QED
    BY <1>2, <2>1, LimitsAssumption DEF HasTurnSlot
<1>8. \A r \in DOMAIN sessions' :
         /\ sessions'[r] \in SessionStates
         /\ Retained(r, sessions'[r]) <= MAX_RETAINED_TURNS
  BY <1>1, <1>2, <1>4, <1>6, <1>7, EnsuredTypes, EnsuredBounded DEF ensured
<1>9. answers' \subseteq Answers
  BY <1>1, <1>3, <1>4, AnswerType, ToldType
<1>10. QED
  BY <1>1, <1>2, <1>4, <1>8, <1>9, EnsuredTypes, OnlyLedgerInv DEF ensured

LEMMA CancelEarlyInv ==
    ASSUME LedgerInv, NEW s \in SessionIds, NEW t \in TurnIds, CancelEarly(s, t)
    PROVE  LedgerInv'
<1> DEFINE ensured == EnsuredSessions(s)
           after == [ensured[s] EXCEPT !.pending = Append(@, t)]
<1>1. TypeOK
  BY DEF LedgerInv
<1>2. /\ CanEnsure(s)
      /\ session_order' = EnsuredOrder(s)
      /\ Told(s, {Answer(s, t, "cancel", CancellationRequested)})
      /\ UNCHANGED <<lifecycle, active_profile, active_turn, futures, owned>>
      /\ \/ sessions' = ensured
         \/ HasTurnSlot(s, ensured[s]) /\ sessions' = [ensured EXCEPT ![s] = after]
  BY DEF CancelEarly
<1>3. ensured[s] \in SessionStates
  BY <1>1, <1>2, EnsuredTypes
<1>4. /\ Append(ensured[s].pending, t) \in Seq(TurnIds)
      /\ Len(Append(ensured[s].pending, t)) = Len(ensured[s].pending) + 1
  BY <1>3, AppendProperties DEF SessionStates
<1>5. /\ after \in SessionStates
      /\ after.turns = ensured[s].turns
      /\ Len(after.pending) = Len(ensured[s].pending) + 1
  BY <1>3, <1>4 DEF SessionStates
<1> HIDE DEF after, ensured
<1>6. HasTurnSlot(s, ensured[s]) => Retained(s, after) <= MAX_RETAINED_TURNS
  <2>1. /\ Retained(s, after) = Retained(s, ensured[s]) + 1
        /\ Retained(s, ensured[s]) \in Nat
    BY <1>3, <1>5, RetainedGrows
  <2>2. QED
    BY <2>1, LimitsAssumption DEF HasTurnSlot
<1>7. \A r \in DOMAIN sessions' :
         /\ sessions'[r] \in SessionStates
         /\ Retained(r, sessions'[r]) <= MAX_RETAINED_TURNS
  BY <1>1, <1>2, <1>5, <1>6, EnsuredTypes, EnsuredBounded DEF ensured
<1>8. answers' \subseteq Answers
  BY <1>1, <1>2, AnswerType, ToldType
<1>9. QED
  BY <1>1, <1>2, <1>7, <1>8, EnsuredTypes, OnlyLedgerInv DEF ensured

\* Steps that move neither the ledger nor the futures, and the active turn at
\* most by setting its flag.
LEMMA FlaggedTurn ==
    ASSUME TypeOK
    PROVE  /\ Flagged \in ActiveTurns \cup {NoTurn}
           /\ Flagged = NoTurn <=> active_turn = NoTurn
           /\ Flagged # NoTurn => /\ Flagged.session = active_turn.session
                                  /\ Flagged.turn = active_turn.turn
                                  /\ Flagged.cancelled
BY NoneAssumption DEF TypeOK, Flagged, ActiveTurns

LEMMA FlagKeepsTurn ==
    ASSUME LedgerInv, active_turn' \in {active_turn, Flagged},
           UNCHANGED <<ledger, futures>>
    PROVE  ActiveTurnOwned' /\ LedgerBounded'
<1>1. TypeOK
  BY DEF LedgerInv
<1>2. /\ active_turn' = NoTurn <=> active_turn = NoTurn
      /\ active_turn' # NoTurn => /\ active_turn'.session = active_turn.session
                                  /\ active_turn'.turn = active_turn.turn
  BY <1>1, FlaggedTurn
<1>3. ActiveTurnOwned'
  BY <1>2 DEF LedgerInv, ActiveTurnOwned, GuardMatches, IsActive, ledger, futures
<1>4. LedgerBounded'
  BY <1>2 DEF LedgerInv, LedgerBounded, Retained, ActiveIn, ledger
<1>5. QED
  BY <1>3, <1>4

LEMMA CancelActiveInv ==
    ASSUME LedgerInv, NEW s \in SessionIds, NEW t \in TurnIds, CancelActive(s, t)
    PROVE  LedgerInv'
<1>1. TypeOK
  BY DEF LedgerInv
<1>2. active_turn # NoTurn /\ active_turn' = Flagged
  BY DEF CancelActive, IsActive, Flagged
<1>3. answers' \subseteq Answers
  <2>1. Answer(s, t, "cancel", CancellationRequested) \in Answers
    BY AnswerType
  <2>2. QED
    BY <1>1, <2>1 DEF CancelActive, TypeOK
<1>4. TypeOK'
  BY <1>1, <1>2, <1>3, FlaggedTurn DEF CancelActive, TypeOK, ledger, futures, owned
<1>5. ActiveTurnOwned' /\ LedgerBounded'
  BY <1>2, FlagKeepsTurn DEF CancelActive
<1>6. active_turn' # NoTurn /\ active_turn'.cancelled
  BY <1>1, <1>2, FlaggedTurn
<1>7. OwnerInStep' /\ UnownedTurnCancelled' /\ StoppedIsDrained'
  BY <1>2, <1>6 DEF CancelActive, LedgerInv, OwnerInStep, UnownedTurnCancelled,
                    StoppedIsDrained, owned
<1>8. QED
  BY <1>4, <1>5, <1>7 DEF LedgerInv

\* Admission is the one step after which the ledger owes a slot: it was free.
LEMMA SubmitAdmitInv ==
    ASSUME LedgerInv, NEW k \in Tasks, NEW s \in SessionIds, NEW t \in TurnIds,
           NEW i \in Inputs, SubmitAdmit(k, s, t, i)
    PROVE  LedgerInv'
<1> DEFINE ensured == EnsuredSessions(s)
           turn == [session |-> s, turn |-> t, cancelled |-> FALSE]
           work == [session |-> s, turn |-> t, input |-> i]
<1>1. TypeOK
  BY DEF LedgerInv
<1>2. /\ Admission /\ active_turn = NoTurn
      /\ CanEnsure(s) /\ HasTurnSlot(s, ensured[s])
  BY DEF SubmitAdmit, Submittable
<1>3. /\ job' = [job EXCEPT ![k] = work]
      /\ active_turn' = turn
      /\ pc' = [pc EXCEPT ![k] = "running"]
      /\ sessions' = ensured
      /\ session_order' = EnsuredOrder(s)
      /\ answers' \subseteq Answers
      /\ UNCHANGED <<lifecycle, active_profile, proposed, owned>>
      /\ DOMAIN context' = DOMAIN context
  BY <1>1, ToldType DEF SubmitAdmit
<1>4. turn \in ActiveTurns /\ work \in Jobs /\ turn # NoTurn /\ work # NoTurn
  <2>1. turn \in ActiveTurns /\ work \in Jobs
    BY DEF ActiveTurns, Jobs
  <2> HIDE DEF turn, work
  <2>2. QED
    BY <2>1, NoneAssumption
<1>5. TypeOK'
  <2>1. /\ session_order' \in Seq(SessionIds)
        /\ DOMAIN sessions' \subseteq SessionIds
        /\ \A r \in DOMAIN sessions' : sessions'[r] \in SessionStates
    BY <1>1, <1>2, <1>3, EnsuredTypes
  <2>2. QED
    BY <1>1, <1>3, <1>4, <2>1 DEF TypeOK, owned
<1>6. OwnerInStep' /\ UnownedTurnCancelled' /\ StoppedIsDrained'
  BY <1>2, <1>3 DEF LedgerInv, OwnerInStep, UnownedTurnCancelled,
                    StoppedIsDrained, Admission, owned
<1>7. ActiveTurnOwned'
  <2>1. \A j \in Tasks : pc[j] \notin {"running", "proposed"}
    BY <1>2 DEF LedgerInv, ActiveTurnOwned, GuardMatches, IsActive
  <2>2. /\ pc'[k] = "running" /\ job'[k] = work
        /\ \A j \in Tasks : j # k => pc'[j] \notin {"running", "proposed"}
    BY <1>1, <1>3, <2>1 DEF TypeOK
  <2>3. s \in DOMAIN sessions'
    BY <1>1, <1>2, <1>3, EnsuredTypes
  <2>4. QED
    BY <1>3, <1>4, <2>2, <2>3 DEF ActiveTurnOwned, GuardMatches, IsActive
<1>8. LedgerBounded'
  <2>1. \A r \in DOMAIN ensured :
           /\ ensured[r] \in SessionStates
           /\ Retained(r, ensured[r]) <= MAX_RETAINED_TURNS
    BY <1>1, <1>2, EnsuredTypes, EnsuredBounded
  <2>2. ASSUME NEW r \in DOMAIN sessions'
        PROVE  Retained(r, sessions[r])' <= MAX_RETAINED_TURNS
    <3> DEFINE x == Len(ensured[r].turns)
               y == Len(ensured[r].pending)
    <3>1. x \in Nat /\ y \in Nat
      BY <1>3, <2>1, <2>2, SessionLengths
    <3>2. x + y + 0 <= MAX_RETAINED_TURNS
      BY <1>2, <1>3, <2>1, <2>2 DEF Retained, ActiveIn
    <3>3. r = s => x + y + 0 < MAX_RETAINED_TURNS
      BY <1>2 DEF HasTurnSlot, Retained, ActiveIn
    <3>4. ActiveIn(r)' <=> r = s
      BY <1>3, <1>4 DEF ActiveIn
    <3>5. Retained(r, sessions[r])' = x + y + (IF r = s THEN 1 ELSE 0)
      BY <1>3, <3>4 DEF Retained
    <3> HIDE DEF x, y
    <3>6. QED
      BY <3>1, <3>2, <3>3, <3>5, LimitsAssumption
  <2>3. QED
    BY <2>2 DEF LedgerBounded
<1>9. QED
  BY <1>5, <1>6, <1>7, <1>8 DEF LedgerInv

-----------------------------------------------------------------------------
(* The steps of the futures.                                               *)

LEMMA SelectTerminalInv ==
    ASSUME LedgerInv, NEW k \in Tasks, NEW o \in Terminals, SelectTerminal(k, o)
    PROVE  LedgerInv'
<1>1. TypeOK'
  BY TerminalTypes DEF LedgerInv, TypeOK, SelectTerminal, ledger, owned
<1>2. OwnerInStep' /\ UnownedTurnCancelled' /\ StoppedIsDrained'
  BY DEF LedgerInv, OwnerInStep, UnownedTurnCancelled, StoppedIsDrained,
         Admission, SelectTerminal, owned
<1>3. ActiveTurnOwned'
  <2>1. \A j \in Tasks : pc'[j] \in {"running", "proposed"}
                             <=> pc[j] \in {"running", "proposed"}
    BY DEF LedgerInv, TypeOK, SelectTerminal
  <2>2. QED
    BY <2>1 DEF LedgerInv, ActiveTurnOwned, GuardMatches, IsActive, SelectTerminal, ledger
<1>4. LedgerBounded'
  BY DEF LedgerInv, LedgerBounded, Retained, ActiveIn, SelectTerminal, ledger
<1>5. QED
  BY <1>1, <1>2, <1>3, <1>4 DEF LedgerInv

\* Sealing pays the slot the active turn held.
LEMMA SealTurnInv ==
    ASSUME LedgerInv, NEW k \in Tasks, NEW o \in Terminals,
           pc[k] \in {"running", "proposed"}, SealTurn(k, o),
           answers' \subseteq Answers, proposed' \in [Tasks -> Terminals]
    PROVE  LedgerInv'
<1> DEFINE s == job[k].session
           before == sessions[s]
           after == Record(before, job[k].turn, job[k].input, o)
<1>1. TypeOK
  BY DEF LedgerInv
<1>2. /\ job[k] \in Jobs /\ s \in DOMAIN sessions
      /\ active_turn # NoTurn /\ active_turn.session = s
      /\ \A j \in Tasks : pc[j] \in {"running", "proposed"} => j = k
  BY DEF LedgerInv, TypeOK, ActiveTurnOwned, GuardMatches, IsActive
<1>3. before \in SessionStates
  BY <1>1, <1>2 DEF TypeOK
<1>4. /\ active_turn' = NoTurn
      /\ sessions' = [sessions EXCEPT ![s] = after]
      /\ pc' = [pc EXCEPT ![k] = "notify"]
      /\ given_up' = FALSE
      /\ UNCHANGED <<lifecycle, active_profile, session_order, job, context,
                     active_instance, owner, woken>>
  BY DEF SealTurn
<1>5. job[k].turn \in TurnIds /\ job[k].input \in Inputs
  BY <1>2 DEF Jobs
<1> HIDE DEF s, before
<1>6. /\ after \in SessionStates
      /\ Len(after.turns) = Len(before.turns) + 1
      /\ after.pending = before.pending
  BY <1>3, <1>5, RecordType
<1> HIDE DEF after
<1>7. TypeOK'
  BY <1>1, <1>4, <1>6 DEF TypeOK
<1>8. OwnerInStep' /\ UnownedTurnCancelled' /\ StoppedIsDrained'
  BY <1>4 DEF LedgerInv, OwnerInStep, UnownedTurnCancelled, StoppedIsDrained
<1>9. ActiveTurnOwned'
  BY <1>1, <1>2, <1>4 DEF ActiveTurnOwned, TypeOK
<1>10. LedgerBounded'
  <2>1. ASSUME NEW r \in DOMAIN sessions
        PROVE  Retained(r, sessions[r])' <= MAX_RETAINED_TURNS
    <3> DEFINE x == Len(sessions[r].turns)
               y == Len(sessions[r].pending)
               u == Len(sessions'[r].turns)
               v == Len(sessions'[r].pending)
    <3>1. x \in Nat /\ y \in Nat
      BY <1>1, SessionLengths DEF TypeOK
    <3>2. x + y + (IF r = s THEN 1 ELSE 0) <= MAX_RETAINED_TURNS
      <4>1. ActiveIn(r) <=> r = s
        BY <1>2 DEF ActiveIn
      <4>2. QED
        BY <4>1 DEF LedgerInv, LedgerBounded, Retained
    <3>3. v = y /\ u = x + (IF r = s THEN 1 ELSE 0)
      <4>1. CASE r = s
        BY <1>2, <1>4, <1>6, <4>1 DEF before
      <4>2. CASE r # s
        BY <1>4, <3>1, <4>2
      <4>3. QED
        BY <4>1, <4>2
    <3>4. Retained(r, sessions[r])' = u + v + 0
      BY <1>4 DEF Retained, ActiveIn
    <3> HIDE DEF x, y, u, v
    <3>5. QED
      BY <3>1, <3>2, <3>3, <3>4, LimitsAssumption
  <2>2. DOMAIN sessions' = DOMAIN sessions
    BY <1>4
  <2>3. QED
    BY <2>1, <2>2 DEF LedgerBounded
<1>11. QED
  BY <1>7, <1>8, <1>9, <1>10 DEF LedgerInv

LEMMA CompleteInv ==
    ASSUME LedgerInv, NEW k \in Tasks, Complete(k)
    PROVE  LedgerInv'
<1>1. TypeOK
  BY DEF LedgerInv
<1>2. Sealing(k) \in Terminals
  BY <1>1, TerminalTypes DEF Sealing, TypeOK
<1>3. job[k].session \in SessionIds /\ job[k].turn \in TurnIds /\ job[k].input \in Inputs
  BY <1>1 DEF LedgerInv, ActiveTurnOwned, Complete, TypeOK, Jobs
<1>4. answers' \subseteq Answers
  <2>1. Answer(job[k].session, job[k].turn, job[k].input, Sealing(k)) \in Answers
    BY <1>2, <1>3, AnswerType
  <2>2. QED
    BY <1>1, <2>1 DEF Complete, TypeOK
<1>5. proposed' \in [Tasks -> Terminals]
  BY <1>1, TerminalTypes DEF Complete, TypeOK
<1>6. QED
  BY <1>2, <1>4, <1>5, SealTurnInv DEF Complete

LEMMA AbortInv ==
    ASSUME LedgerInv, NEW k \in Tasks, Abort(k)
    PROVE  LedgerInv'
<1>1. answers' \subseteq Answers /\ proposed' \in [Tasks -> Terminals]
  BY DEF LedgerInv, TypeOK, Abort
<1>2. QED
  BY <1>1, TerminalTypes, SealTurnInv DEF Abort

LEMMA NotifyWaitersInv ==
    ASSUME LedgerInv, NEW k \in Tasks, NotifyWaiters(k)
    PROVE  LedgerInv'
<1>1. TypeOK'
  BY DEF LedgerInv, TypeOK, NotifyWaiters, ledger
<1>2. OwnerInStep' /\ UnownedTurnCancelled' /\ StoppedIsDrained'
  BY DEF LedgerInv, OwnerInStep, UnownedTurnCancelled, StoppedIsDrained,
         Admission, NotifyWaiters
<1>3. ActiveTurnOwned'
  BY DEF LedgerInv, TypeOK, ActiveTurnOwned, GuardMatches, IsActive, NotifyWaiters, ledger
<1>4. LedgerBounded'
  BY DEF LedgerInv, LedgerBounded, Retained, ActiveIn, NotifyWaiters, ledger
<1>5. QED
  BY <1>1, <1>2, <1>3, <1>4 DEF LedgerInv

LEMMA TaskStepInv ==
    ASSUME LedgerInv, NEW k \in Tasks, TaskStep(k) \/ SelectProvider(k) \/ Abort(k)
    PROVE  LedgerInv'
<1>1. CASE SelectCancelled(k)
  BY <1>1, TerminalTypes, SelectTerminalInv DEF SelectCancelled
<1>2. CASE SelectProvider(k)
  BY <1>2, ProviderAssumption, SelectTerminalInv DEF SelectProvider
<1>3. CASE SelectDeadline(k)
  BY <1>3, TerminalTypes, SelectTerminalInv DEF SelectDeadline
<1>4. QED
  BY <1>1, <1>2, <1>3, CompleteInv, AbortInv, NotifyWaitersInv DEF TaskStep

-----------------------------------------------------------------------------
(* The owner's steps: none touches the ledger or the futures.              *)

LEMMA OwnerStepInv ==
    ASSUME LedgerInv, active_turn' \in {active_turn, Flagged},
           UNCHANGED <<ledger, futures, answers>>,
           lifecycle' \in {"Created", "Running", "Stopping", "Stopped"},
           active_profile' \in Cards \cup {NoProfile},
           active_instance' \subseteq Cards, owner' \in OwnerCalls, woken' \in BOOLEAN,
           given_up' \in BOOLEAN,
           OwnerInStep', UnownedTurnCancelled', StoppedIsDrained'
    PROVE  LedgerInv'
<1>1. TypeOK'
  BY FlaggedTurn DEF LedgerInv, TypeOK, ledger, futures
<1>2. QED
  BY <1>1, FlagKeepsTurn DEF LedgerInv

LEMMA OwnerInv ==
    ASSUME LedgerInv, Owner
    PROVE  LedgerInv'
<1> USE DEF LedgerInv, OwnerInStep, UnownedTurnCancelled, StoppedIsDrained,
            Admission, owned, Idle, IdleOwner
<1>1. TypeOK
  OBVIOUS
<1>2. /\ lifecycle \in {"Created", "Running", "Stopping", "Stopped"}
      /\ active_profile \in Cards \cup {NoProfile}
      /\ active_instance \subseteq Cards /\ owner \in OwnerCalls /\ woken \in BOOLEAN
      /\ given_up \in BOOLEAN /\ IdleOwner \in OwnerCalls
  BY DEF TypeOK, OwnerCalls
<1>3. /\ Flagged = NoTurn <=> active_turn = NoTurn
      /\ Flagged # NoTurn => Flagged.cancelled
  BY <1>1, FlaggedTurn
<1>4. \A c \in Cards : c # NoProfile
  BY NoneAssumption
<1>5. CASE ServiceStart
  BY <1>2, <1>5, OwnerStepInv DEF ServiceStart
<1>6. CASE ServiceStopCreated
  BY <1>2, <1>6, OwnerStepInv DEF ServiceStopCreated
<1>7. CASE ServiceStop
  <2>1. [call |-> "service", phase |-> "arm"] \in OwnerCalls
    BY DEF OwnerCalls
  <2>2. QED
    BY <1>2, <1>3, <1>7, <2>1, OwnerStepInv DEF ServiceStop
<1>8. CASE Drop
  <2>1. [call |-> "dropped", phase |-> "none"] \in OwnerCalls
    BY DEF OwnerCalls
  <2>2. QED
    BY <1>2, <1>3, <1>8, <2>1, OwnerStepInv DEF Drop
<1>9. CASE OwnerDeadline
  BY <1>2, <1>9, OwnerStepInv DEF OwnerDeadline
<1>10. ASSUME NEW c \in Cards, CardStart(c)
       PROVE  LedgerInv'
  BY <1>2, <1>4, <1>10, OwnerStepInv DEF CardStart
<1>11. ASSUME NEW c \in Cards, CardStop(c)
       PROVE  LedgerInv'
  <2>1. [call |-> "card", phase |-> "arm"] \in OwnerCalls
    BY DEF OwnerCalls
  <2>2. QED
    BY <1>2, <1>3, <1>4, <1>11, <2>1, OwnerStepInv DEF CardStop
<1>12. ASSUME NEW c \in Cards, CardStopLate(c)
       PROVE  LedgerInv'
  BY <1>2, <1>12, OwnerStepInv DEF CardStopLate
<1>13. QED
  BY <1>5, <1>6, <1>7, <1>8, <1>9, <1>10, <1>11, <1>12 DEF Owner

LEMMA WaiterInv ==
    ASSUME LedgerInv, WaiterStep
    PROVE  LedgerInv'
<1> USE DEF LedgerInv, OwnerInStep, UnownedTurnCancelled, StoppedIsDrained,
            Admission, IdleOwner
<1>1. /\ lifecycle \in {"Created", "Running", "Stopping", "Stopped"}
      /\ active_profile \in Cards \cup {NoProfile}
      /\ active_instance \subseteq Cards /\ owner \in OwnerCalls /\ woken \in BOOLEAN
      /\ given_up \in BOOLEAN /\ IdleOwner \in OwnerCalls
  BY DEF TypeOK, OwnerCalls
<1>2. \A p \in {"arm", "check", "wait", "finish"} :
         /\ [owner EXCEPT !.phase = p] \in OwnerCalls
         /\ [owner EXCEPT !.phase = p].call = owner.call
         /\ [owner EXCEPT !.phase = p].phase = p
  BY <1>1 DEF OwnerCalls
<1>3. CASE WaiterArm
  BY <1>1, <1>2, <1>3, OwnerStepInv DEF WaiterArm, MoveTo
<1>4. CASE WaiterCheck
  <2>1. UNCHANGED <<lifecycle, active_profile, ledger, active_turn, active_instance,
                    futures, woken, given_up, answers>>
    BY <1>4 DEF WaiterCheck
  <2>2. CASE active_turn # NoTurn /\ owner' = [owner EXCEPT !.phase = "wait"]
    BY <1>1, <1>2, <1>4, <2>1, <2>2, OwnerStepInv DEF WaiterCheck
  <2>3. CASE /\ active_turn = NoTurn /\ owner.call = "service"
             /\ owner' = [owner EXCEPT !.phase = "finish"]
    BY <1>1, <1>2, <2>1, <2>3, OwnerStepInv
  <2>4. CASE active_turn = NoTurn /\ owner.call = "card" /\ owner' = IdleOwner
    BY <1>1, <2>1, <2>4, OwnerStepInv
  <2>5. QED
    BY <1>4, <2>2, <2>3, <2>4 DEF WaiterCheck, MoveTo
<1>5. CASE WaiterWake
  BY <1>1, <1>2, <1>5, OwnerStepInv DEF WaiterWake, MoveTo
<1>6. CASE ServiceStopped
  BY <1>1, <1>6, OwnerStepInv DEF ServiceStopped
<1>7. QED
  BY <1>3, <1>4, <1>5, <1>6 DEF WaiterStep

-----------------------------------------------------------------------------

LEMMA ClientsInv ==
    ASSUME LedgerInv, Clients
    PROVE  LedgerInv'
<1>1. PICK s \in SessionIds, t \in TurnIds :
        \/ \E i \in Inputs : \/ SubmitReplay(s, t, i)
                             \/ SubmitCancelled(s, t, i)
                             \/ SubmitOverContext(s, t, i)
                             \/ \E k \in Tasks : SubmitAdmit(k, s, t, i)
        \/ CancelSealed(s, t)
        \/ CancelActive(s, t)
        \/ CancelEarly(s, t)
  BY DEF Clients
<1>2. QED
  BY <1>1, SubmitReplayInv, SubmitCancelledInv, SubmitOverContextInv, SubmitAdmitInv,
     CancelSealedInv, CancelActiveInv, CancelEarlyInv

LEMMA LedgerInvNext == LedgerInv /\ [Next]_vars => LedgerInv'
<1> SUFFICES ASSUME LedgerInv, [Next]_vars
             PROVE  LedgerInv'
  OBVIOUS
<1>1. CASE Next
  BY <1>1, ClientsInv, TaskStepInv, WaiterInv, OwnerInv DEF Next
<1>2. CASE UNCHANGED vars
  <2>1. answers' \subseteq Answers
    BY <1>2 DEF LedgerInv, TypeOK, vars
  <2>2. QED
    BY <1>2, <2>1, OnlyAnswersInv DEF vars, ledger, futures, owned
<1>3. QED
  BY <1>1, <1>2

\* The Agent service keeps its inductive invariant.
THEOREM LedgerInvariant == Spec => []LedgerInv
<1>1. Init => LedgerInv
  BY LedgerInvInit
<1>2. LedgerInv /\ [Next]_vars => LedgerInv'
  BY LedgerInvNext
<1>3. QED
  BY <1>1, <1>2, PTL DEF Spec

\* Every variable of the Agent service keeps its type.
THEOREM ServiceTypeCorrect == Spec => []TypeOK
<1>1. LedgerInv => TypeOK
  BY DEF LedgerInv
<1>2. QED
  BY <1>1, LedgerInvariant, PTL

\* A Session never keeps more turns, tombstones and a reserved slot than its
\* limit: submit_turn, cancel and the guard all leave record_completed_turn
\* the room it takes without asking.
THEOREM ServiceLedgerBounded == Spec => []LedgerBounded
<1>1. LedgerInv => LedgerBounded
  BY DEF LedgerInv
<1>2. QED
  BY <1>1, LedgerInvariant, PTL

\* The active turn has one live submit_turn future and a retained Session:
\* ActiveTurnGuard never meets the errors of its two checks.
THEOREM ServiceTurnOwned == Spec => []ActiveTurnOwned
<1>1. LedgerInv => ActiveTurnOwned
  BY DEF LedgerInv
<1>2. QED
  BY <1>1, LedgerInvariant, PTL

\* Taking the Card or the service from a turn cancels it in the same step.
THEOREM ServiceUnownedCancelled == Spec => []UnownedTurnCancelled
<1>1. LedgerInv => UnownedTurnCancelled
  BY DEF LedgerInv
<1>2. QED
  BY <1>1, LedgerInvariant, PTL

\* stop() completes only once no turn runs.
THEOREM ServiceStoppedDrained == Spec => []StoppedIsDrained
<1>1. LedgerInv => StoppedIsDrained
  BY DEF LedgerInv
<1>2. QED
  BY <1>1, LedgerInvariant, PTL

-----------------------------------------------------------------------------
(* The context of the model.                                               *)

\* History is a fold over the positions of a sequence, the last one first: a
\* function on sets of positions.
WithTurn(messages, c) ==
    IF c.terminal.kind = "Final" THEN messages \o <<c.input, c.terminal.detail>> ELSE messages
FoldStep(h, turns, I) ==
    IF I = {} THEN <<>> ELSE WithTurn(h[I \ {Max(I)}], turns[Max(I)])
IsFold(h, turns, n) == h = [I \in SUBSET (1 .. n) |-> FoldStep(h, turns, I)]

LEMMA MaxOfInterval ==
    ASSUME NEW n \in Nat, NEW I \in SUBSET (1 .. n + 1), n + 1 \in I
    PROVE  Max(I) = n + 1
<1>1. \A i \in I : i \in Nat /\ i <= n + 1
  OBVIOUS
<1>2. \E x \in I : \A y \in I : x >= y
  <2>1. \A y \in I : n + 1 >= y
    BY <1>1
  <2>2. QED
    BY <2>1
<1>3. Max(I) \in I /\ \A y \in I : Max(I) >= y
  BY <1>2 DEF Max
<1>4. n + 1 <= Max(I) /\ Max(I) <= n + 1 /\ Max(I) \in Nat
  BY <1>1, <1>3
<1>5. QED
  BY <1>4

\* There is one.
LEMMA FoldExists ==
    ASSUME NEW turns, NEW n \in Nat
    PROVE  \E h : IsFold(h, turns, n)
<1> DEFINE Lacking == {m \in Nat : ~\E h : IsFold(h, turns, m)}
<1>1. ASSUME NEW m \in Nat, NEW h, IsFold(h, turns, m)
      PROVE  \E g : IsFold(g, turns, m + 1)
  <2> DEFINE g == [I \in SUBSET (1 .. m + 1) |->
                      IF m + 1 \in I THEN WithTurn(h[I \ {m + 1}], turns[m + 1]) ELSE h[I]]
  <2>1. ASSUME NEW I \in SUBSET (1 .. m + 1)
        PROVE  g[I] = FoldStep(g, turns, I)
    <3>1. CASE m + 1 \in I
      <4>1. Max(I) = m + 1 /\ I # {}
        BY <3>1, MaxOfInterval
      <4>2. I \ {m + 1} \in SUBSET (1 .. m + 1) /\ m + 1 \notin I \ {m + 1}
        OBVIOUS
      <4>3. g[I \ {m + 1}] = h[I \ {m + 1}]
        BY <4>2
      <4>4. QED
        BY <3>1, <4>1, <4>3 DEF FoldStep
    <3>2. CASE m + 1 \notin I
      <4>1. I \in SUBSET (1 .. m)
        BY <3>2
      <4>2. \A J \in SUBSET I : g[J] = h[J]
        BY <3>2
      <4>3. h[I] = FoldStep(h, turns, I)
        BY <1>1, <4>1 DEF IsFold
      <4>4. g[I] = h[I] /\ g[I \ {Max(I)}] = h[I \ {Max(I)}]
        BY <4>2
      <4>5. QED
        BY <4>3, <4>4 DEF FoldStep
    <3>3. QED
      BY <3>1, <3>2
  <2>2. g = [I \in SUBSET (1 .. m + 1) |-> g[I]]
    OBVIOUS
  <2> HIDE DEF g
  <2>3. IsFold(g, turns, m + 1)
    BY <2>1, <2>2 DEF IsFold
  <2>4. QED
    BY <2>3
<1>2. 0 \notin Lacking
  <2> DEFINE g == [I \in SUBSET (1 .. 0) |-> <<>>]
  <2>1. \A I \in SUBSET (1 .. 0) : FoldStep(g, turns, I) = <<>>
    BY DEF FoldStep
  <2>2. IsFold(g, turns, 0)
    BY <2>1 DEF IsFold
  <2>3. QED
    BY <2>2
<1>3. ASSUME Lacking # {} PROVE FALSE
  <2>1. Lacking \in SUBSET Nat
    OBVIOUS
  <2> DEFINE m == Min(Lacking)
  <2>2. m \in Lacking /\ \A j \in Lacking : m <= j
    BY <1>3, <2>1, MinOfNaturals
  <2> HIDE DEF m
  <2>3. m \in Nat /\ m # 0
    BY <1>2, <2>2
  <2>4. m - 1 \in Nat /\ m - 1 \notin Lacking /\ (m - 1) + 1 = m
    BY <2>2, <2>3
  <2>5. \E h : IsFold(h, turns, m - 1)
    BY <2>4
  <2>6. \E g : IsFold(g, turns, m)
    BY <1>1, <2>4, <2>5
  <2>7. QED
    BY <2>2, <2>6
<1>4. QED
  BY <1>3

LEMMA HistoryFolds ==
    ASSUME NEW turns, NEW n \in Nat, DOMAIN turns = 1 .. n
    PROVE  \E h : IsFold(h, turns, n) /\ History(turns) = h[1 .. n]
<1> DEFINE h == CHOOSE g : IsFold(g, turns, n)
<1>1. IsFold(h, turns, n)
  BY FoldExists
<1>2. h = CHOOSE g : g = [I \in SUBSET DOMAIN turns |->
                IF I = {} THEN <<>> ELSE WithTurn(g[I \ {Max(I)}], turns[Max(I)])]
  BY DEF IsFold, FoldStep
<1>3. History(turns) = h[1 .. n]
  BY <1>2 DEF History, FoldLeft, MapThenFoldSet, WithTurn
<1>4. QED
  BY <1>1, <1>3

\* How many of the first m turns were answered.
AnsweredUpTo(turns, m) == {q \in Answered(turns) : q <= m}
Rank(turns, m) == Cardinality(AnsweredUpTo(turns, m))

LEMMA Ranks ==
    ASSUME NEW turns, NEW n \in Nat, DOMAIN turns = 1 .. n
    PROVE  /\ \A m \in 0 .. n : Rank(turns, m) \in Nat
           /\ Rank(turns, 0) = 0
           /\ \A m \in 1 .. n : Rank(turns, m) =
                Rank(turns, m - 1) + (IF m \in Answered(turns) THEN 1 ELSE 0)
           /\ \A m \in 0 .. n : \A p \in Answered(turns) :
                p <= m => Rank(turns, p) \in 1 .. Rank(turns, m)
           /\ Rank(turns, n) = Cardinality(Answered(turns))
           /\ Answered(turns) \subseteq 1 .. n
<1>1. Answered(turns) \subseteq 1 .. n
  BY DEF Answered
<1>2. ASSUME NEW m \in 0 .. n
      PROVE  IsFiniteSet(AnsweredUpTo(turns, m)) /\ Rank(turns, m) \in Nat
  <2>1. IsFiniteSet(1 .. n)
    BY FS_Interval
  <2>2. AnsweredUpTo(turns, m) \in SUBSET (1 .. n)
    BY <1>1 DEF AnsweredUpTo
  <2>3. IsFiniteSet(AnsweredUpTo(turns, m))
    BY <2>1, <2>2, FS_Subset
  <2>4. QED
    BY <2>3, FS_CardinalityType DEF Rank
<1>3. Rank(turns, 0) = 0
  <2>1. AnsweredUpTo(turns, 0) = {}
    BY <1>1 DEF AnsweredUpTo
  <2>2. QED
    BY <2>1, FS_EmptySet DEF Rank
<1>4. ASSUME NEW m \in 1 .. n
      PROVE  Rank(turns, m) = Rank(turns, m - 1) + (IF m \in Answered(turns) THEN 1 ELSE 0)
  <2>1. m - 1 \in 0 .. n
    OBVIOUS
  <2>2. IsFiniteSet(AnsweredUpTo(turns, m - 1)) /\ Rank(turns, m - 1) \in Nat
    BY <1>2, <2>1
  <2>3. m \notin AnsweredUpTo(turns, m - 1)
    BY DEF AnsweredUpTo
  <2>4. CASE m \in Answered(turns)
    <3>1. AnsweredUpTo(turns, m) = AnsweredUpTo(turns, m - 1) \cup {m}
      BY <1>1, <2>4 DEF AnsweredUpTo
    <3>2. QED
      BY <2>2, <2>3, <2>4, <3>1, FS_AddElement DEF Rank
  <2>5. CASE m \notin Answered(turns)
    <3>1. AnsweredUpTo(turns, m) = AnsweredUpTo(turns, m - 1)
      BY <1>1, <2>5 DEF AnsweredUpTo
    <3>2. QED
      BY <2>2, <2>5, <3>1 DEF Rank
  <2>6. QED
    BY <2>4, <2>5
<1>5. ASSUME NEW m \in 0 .. n, NEW p \in Answered(turns), p <= m
      PROVE  Rank(turns, p) \in 1 .. Rank(turns, m)
  <2>1. p \in 1 .. n /\ p \in AnsweredUpTo(turns, p)
    BY <1>1 DEF AnsweredUpTo
  <2>2. AnsweredUpTo(turns, p) \in SUBSET AnsweredUpTo(turns, m)
    BY <1>1, <1>5 DEF AnsweredUpTo
  <2>3. /\ IsFiniteSet(AnsweredUpTo(turns, m)) /\ Rank(turns, m) \in Nat
        /\ IsFiniteSet(AnsweredUpTo(turns, p)) /\ Rank(turns, p) \in Nat
    BY <1>2, <2>1
  <2>4. Rank(turns, p) <= Rank(turns, m)
    BY <2>2, <2>3, FS_Subset DEF Rank
  <2>5. Rank(turns, p) # 0
    BY <2>1, <2>3, FS_EmptySet DEF Rank
  <2>6. QED
    BY <2>3, <2>4, <2>5
<1>6. Rank(turns, n) = Cardinality(Answered(turns))
  <2>1. AnsweredUpTo(turns, n) = Answered(turns)
    BY <1>1 DEF AnsweredUpTo
  <2>2. QED
    BY <2>1 DEF Rank
<1>7. QED
  BY <1>1, <1>2, <1>3, <1>4, <1>5, <1>6

\* What the fold over the first m turns tells: their questions and answers.
TellsFirst(messages, turns, m) ==
    /\ messages \in Seq(Inputs \cup Contents)
    /\ Len(messages) = 2 * Rank(turns, m)
    /\ \A p \in Answered(turns) : p <= m =>
        /\ messages[2 * Rank(turns, p) - 1] = turns[p].input
        /\ messages[2 * Rank(turns, p)] = turns[p].terminal.detail

LEMMA AnsweredDetail ==
    ASSUME NEW c \in CompletedTurns, c.terminal.kind = "Final"
    PROVE  c.input \in Inputs /\ c.terminal.detail \in Contents
BY DEF CompletedTurns, Terminals

\* One more turn.
LEMMA TellsNext ==
    ASSUME NEW turns \in Seq(CompletedTurns), NEW m \in 1 .. Len(turns),
           NEW messages, TellsFirst(messages, turns, m - 1)
    PROVE  TellsFirst(WithTurn(messages, turns[m]), turns, m)
<1> DEFINE n == Len(turns)
           S == Inputs \cup Contents
           c == turns[m]
           pair == <<c.input, c.terminal.detail>>
<1>1. n \in Nat /\ DOMAIN turns = 1 .. n /\ c \in CompletedTurns
  BY LenProperties, ElementOfSeq
<1>2. /\ Rank(turns, m - 1) \in Nat
      /\ Rank(turns, m) = Rank(turns, m - 1) + (IF m \in Answered(turns) THEN 1 ELSE 0)
      /\ \A p \in Answered(turns) :
            /\ p \in Nat
            /\ p <= m - 1 => Rank(turns, p) \in 1 .. Rank(turns, m - 1)
            /\ p <= m => p = m \/ p <= m - 1
  <2>1. m - 1 \in 0 .. n /\ m \in Nat
    BY <1>1
  <2>2. Rank(turns, m - 1) \in Nat /\ Answered(turns) \subseteq 1 .. n
    BY <1>1, <2>1, Ranks
  <2>3. Rank(turns, m) = Rank(turns, m - 1) + (IF m \in Answered(turns) THEN 1 ELSE 0)
    BY <1>1, Ranks
  <2>4. \A p \in Answered(turns) : p <= m - 1 => Rank(turns, p) \in 1 .. Rank(turns, m - 1)
    BY <1>1, <2>1, Ranks
  <2>5. \A p \in Answered(turns) : p \in Nat /\ (p <= m => p = m \/ p <= m - 1)
    BY <2>1, <2>2
  <2>6. QED
    BY <2>2, <2>3, <2>4, <2>5
<1>3. messages \in Seq(S) /\ Len(messages) = 2 * Rank(turns, m - 1)
  BY DEF TellsFirst
<1>4. m \in Answered(turns) <=> c.terminal.kind = "Final"
  BY <1>1 DEF Answered
<1>5. CASE c.terminal.kind = "Final"
  <2>1. c.input \in S /\ c.terminal.detail \in S
    BY <1>1, <1>5, AnsweredDetail
  <2>2. pair \in Seq(S) /\ Len(pair) = 2 /\ pair[1] = c.input /\ pair[2] = c.terminal.detail
    BY <2>1
  <2> DEFINE longer == messages \o pair
             r == Rank(turns, m - 1)
  <2> HIDE DEF pair, c, n, S
  <2>3. /\ longer \in Seq(S) /\ Len(longer) = 2 * r + 2
        /\ \A i \in 1 .. 2 * r + 2 :
              longer[i] = IF i <= 2 * r THEN messages[i] ELSE pair[i - 2 * r]
    <3>1. messages \in Seq(S) /\ pair \in Seq(S)
      BY <1>3, <2>2 DEF S
    <3>2. /\ longer \in Seq(S) /\ Len(longer) = Len(messages) + Len(pair)
          /\ \A i \in 1 .. Len(messages) + Len(pair) :
               longer[i] = IF i <= Len(messages) THEN messages[i]
                                                 ELSE pair[i - Len(messages)]
      BY <3>1, ConcatProperties
    <3>3. Len(messages) = 2 * r /\ Len(pair) = 2
      BY <1>3, <2>2
    <3>4. QED
      BY <3>2, <3>3
  <2>4. Rank(turns, m) = r + 1 /\ r \in Nat
    BY <1>2, <1>4, <1>5
  <2> HIDE DEF longer, r
  <2>5. ASSUME NEW p \in Answered(turns), p <= m
        PROVE  /\ longer[2 * Rank(turns, p) - 1] = turns[p].input
               /\ longer[2 * Rank(turns, p)] = turns[p].terminal.detail
    <3>1. CASE p = m
      <4>1. 2 * r + 1 \in 1 .. 2 * r + 2 /\ 2 * r + 2 \in 1 .. 2 * r + 2
        BY <2>4
      <4>2. longer[2 * r + 1] = pair[1] /\ longer[2 * r + 2] = pair[2]
        BY <2>3, <2>4, <4>1
      <4>3. 2 * Rank(turns, p) = 2 * r + 2 /\ 2 * Rank(turns, p) - 1 = 2 * r + 1
        BY <2>4, <3>1
      <4>4. QED
        BY <2>2, <3>1, <4>2, <4>3 DEF c
    <3>2. CASE p <= m - 1
      <4> DEFINE k == Rank(turns, p)
      <4>1. k \in 1 .. r
        BY <1>2, <3>2 DEF r
      <4> HIDE DEF k
      <4>2. /\ 2 * k - 1 \in 1 .. 2 * r + 2 /\ 2 * k - 1 <= 2 * r
            /\ 2 * k \in 1 .. 2 * r + 2 /\ 2 * k <= 2 * r
        BY <2>4, <4>1
      <4>3. longer[2 * k - 1] = messages[2 * k - 1] /\ longer[2 * k] = messages[2 * k]
        BY <2>3, <4>2
      <4>4. QED
        BY <3>2, <4>3 DEF TellsFirst, k
    <3>3. QED
      BY <1>2, <2>5, <3>1, <3>2
  <2>6. Len(longer) = 2 * Rank(turns, m)
    BY <2>3, <2>4
  <2>7. WithTurn(messages, turns[m]) = longer
    BY <1>5 DEF WithTurn, longer, pair, c
  <2>8. QED
    BY <2>3, <2>5, <2>6, <2>7 DEF TellsFirst, S
<1>6. CASE c.terminal.kind # "Final"
  <2>1. m \notin Answered(turns) /\ Rank(turns, m) = Rank(turns, m - 1)
    BY <1>2, <1>4, <1>6
  <2>2. WithTurn(messages, turns[m]) = messages
    BY <1>6 DEF WithTurn
  <2>3. QED
    BY <1>2, <2>1, <2>2 DEF TellsFirst
<1>7. QED
  BY <1>5, <1>6

\* The history of a Session is all its answered questions with their answers.
LEMMA HistoryTells ==
    ASSUME NEW turns \in Seq(CompletedTurns)
    PROVE  TellsFirst(History(turns), turns, Len(turns))
<1> DEFINE n == Len(turns)
<1>1. n \in Nat /\ DOMAIN turns = 1 .. n
  BY LenProperties
<1> HIDE DEF n
<1>2. PICK h : IsFold(h, turns, n) /\ History(turns) = h[1 .. n]
  BY <1>1, HistoryFolds
<1>3. ASSUME NEW m \in 1 .. n
      PROVE  h[1 .. m] = WithTurn(h[1 .. m - 1], turns[m])
  <2>1. 1 .. m \in SUBSET (1 .. n)
    BY <1>1
  <2>2. h[1 .. m] = FoldStep(h, turns, 1 .. m)
    BY <1>2, <2>1 DEF IsFold
  <2>3. m - 1 \in Nat /\ (m - 1) + 1 = m /\ m \in 1 .. m
    BY <1>1
  <2>4. Max(1 .. m) = m
    BY <2>3, MaxOfInterval
  <2>5. (1 .. m) \ {m} = 1 .. m - 1 /\ 1 .. m # {}
    BY <2>3
  <2>6. QED
    BY <2>2, <2>4, <2>5 DEF FoldStep
<1>4. TellsFirst(h[1 .. 0], turns, 0)
  <2>1. 1 .. 0 = {} /\ {} \in SUBSET (1 .. n)
    OBVIOUS
  <2>2. h[{}] = <<>>
    BY <1>2, <2>1 DEF IsFold, FoldStep
  <2>3. \A p \in Answered(turns) : ~(p <= 0)
    <3>1. Answered(turns) \subseteq 1 .. n
      BY <1>1, Ranks
    <3>2. QED
      BY <1>1, <3>1
  <2>4. Rank(turns, 0) = 0
    BY <1>1, Ranks
  <2>5. h[1 .. 0] = <<>>
    BY <2>1, <2>2
  <2>6. <<>> \in Seq(Inputs \cup Contents) /\ Len(<<>>) = 2 * 0
    BY EmptySeq
  <2>7. QED
    BY <2>3, <2>4, <2>5, <2>6 DEF TellsFirst
<1> DEFINE Lacking == {m \in 0 .. n : ~TellsFirst(h[1 .. m], turns, m)}
<1>5. ASSUME Lacking # {} PROVE FALSE
  <2>1. Lacking \in SUBSET Nat
    BY <1>1
  <2> DEFINE m == Min(Lacking)
  <2>2. m \in Lacking /\ \A j \in Lacking : m <= j
    BY <1>5, <2>1, MinOfNaturals
  <2> HIDE DEF m
  <2>3. m \in 0 .. n /\ m # 0
    BY <1>4, <2>2
  <2>4. m \in 1 .. n /\ m - 1 \in 0 .. n /\ ~(m <= m - 1)
    BY <1>1, <2>3
  <2>5. TellsFirst(h[1 .. m - 1], turns, m - 1)
    BY <2>2, <2>4
  <2>6. TellsFirst(h[1 .. m], turns, m)
    BY <1>3, <2>4, <2>5, TellsNext DEF n
  <2>7. QED
    BY <2>2, <2>6
<1>6. TellsFirst(h[1 .. n], turns, n)
  <2>1. n \in 0 .. n
    BY <1>1
  <2>2. QED
    BY <1>5, <2>1
<1>7. QED
  BY <1>2, <1>6 DEF n

\* An admitted turn begins with the history of its Session and its own input.
LEMMA ModelContextTells ==
    ASSUME NEW turns \in Seq(CompletedTurns), NEW i \in Inputs,
           NEW messages, messages = Append(History(turns), i)
    PROVE  IsContext(messages, turns, i)
<1> DEFINE h == History(turns)
           r == Rank(turns, Len(turns))
           S == Inputs \cup Contents
<1>1. Len(turns) \in Nat /\ DOMAIN turns = 1 .. Len(turns)
  BY LenProperties
<1>2. TellsFirst(h, turns, Len(turns))
  BY HistoryTells
<1>3. h \in Seq(S) /\ Len(h) = 2 * r /\ i \in S
  BY <1>2 DEF TellsFirst
<1>4. r \in Nat /\ r = Cardinality(Answered(turns))
  <2>1. Len(turns) \in 0 .. Len(turns)
    BY <1>1
  <2>2. QED
    BY <1>1, <2>1, Ranks
<1>5. ASSUME NEW p \in Answered(turns)
      PROVE  p <= Len(turns) /\ Rank(turns, p) \in 1 .. r
  <2>1. Len(turns) \in 0 .. Len(turns)
    BY <1>1
  <2>2. p \in 1 .. Len(turns)
    BY <1>1, Ranks
  <2>3. p <= Len(turns)
    BY <1>1, <2>2
  <2>4. QED
    BY <1>1, <2>1, <2>3, Ranks
<1> HIDE DEF h, r, S
<1>6. /\ Len(messages) = 2 * r + 1
      /\ \A j \in 1 .. 2 * r : messages[j] = h[j]
      /\ messages[2 * r + 1] = i
  <2>1. /\ Len(messages) = Len(h) + 1
        /\ \A j \in 1 .. Len(h) : messages[j] = h[j]
        /\ messages[Len(h) + 1] = i
    <3>1. messages = Append(h, i)
      BY DEF h
    <3>2. QED
      BY <1>3, <3>1, AppendProperties
  <2>2. QED
    BY <1>3, <2>1
<1>7. ASSUME NEW p \in Answered(turns)
      PROVE  /\ messages[2 * Rank(turns, p) - 1] = turns[p].input
             /\ messages[2 * Rank(turns, p)] = turns[p].terminal.detail
  <2> DEFINE k == Rank(turns, p)
  <2>1. k \in 1 .. r /\ p <= Len(turns)
    BY <1>5
  <2>2. h[2 * k - 1] = turns[p].input /\ h[2 * k] = turns[p].terminal.detail
    BY <1>2, <2>1 DEF TellsFirst
  <2> HIDE DEF k
  <2>3. 2 * k - 1 \in 1 .. 2 * r /\ 2 * k \in 1 .. 2 * r
    BY <1>4, <2>1
  <2>4. messages[2 * k - 1] = h[2 * k - 1] /\ messages[2 * k] = h[2 * k]
    BY <1>6, <2>3
  <2>5. QED
    BY <2>2, <2>4 DEF k
<1>8. QED
  BY <1>4, <1>6, <1>7 DEF Rank, AnsweredUpTo, Last, IsContext

\* A turn that ends without an answer adds nothing to the history.
LEMMA UnansweredAddsNothing ==
    ASSUME NEW turns \in Seq(CompletedTurns), NEW c \in CompletedTurns,
           c.terminal.kind # "Final", NEW after, after = Append(turns, c)
    PROVE  /\ Answered(after) = Answered(turns)
           /\ \A p \in Answered(turns) : after[p] = turns[p]
<1>1. /\ Len(turns) \in Nat /\ DOMAIN turns = 1 .. Len(turns)
      /\ after \in Seq(CompletedTurns) /\ Len(after) = Len(turns) + 1
      /\ \A j \in 1 .. Len(turns) : after[j] = turns[j]
      /\ after[Len(turns) + 1] = c
  BY LenProperties, AppendProperties
<1>2. DOMAIN after = 1 .. Len(turns) + 1
  BY <1>1, LenProperties
<1>3. ASSUME NEW p
      PROVE  p \in Answered(after) <=> p \in Answered(turns)
  <2>1. p \in 1 .. Len(turns) + 1 <=> p \in 1 .. Len(turns) \/ p = Len(turns) + 1
    BY <1>1
  <2>2. Len(turns) + 1 \notin 1 .. Len(turns)
    BY <1>1
  <2>3. QED
    BY <1>1, <1>2, <2>1, <2>2 DEF Answered
<1>4. QED
  BY <1>1, <1>3 DEF Answered

Runs(k) == pc[k] \in {"running", "proposed"}

\* The turns of Session s that a step leaves as they are, or adds an
\* unanswered one to.
HistoryStays(s) ==
    \/ sessions'[s].turns = sessions[s].turns
    \/ \E c \in CompletedTurns : /\ c.terminal.kind # "Final"
                                 /\ sessions'[s].turns = Append(sessions[s].turns, c)

LEMMA ContextStays ==
    ASSUME LedgerInv, ContextIsHistory,
           \A k \in Tasks : Runs(k)' =>
              /\ Runs(k) /\ job'[k] = job[k] /\ context'[k] = context[k]
              /\ HistoryStays(job[k].session)
    PROVE  ContextIsHistory'
<1> SUFFICES ASSUME NEW k \in Tasks, Runs(k)'
             PROVE  IsContext(context[k], sessions'[job[k].session].turns, job[k].input)
  BY DEF ContextIsHistory, Runs
<1> DEFINE turns == sessions[job[k].session].turns
           after == sessions'[job[k].session].turns
<1>1. turns \in Seq(CompletedTurns)
  BY DEF LedgerInv, ActiveTurnOwned, TypeOK, Runs, SessionStates
<1>2. IsContext(context[k], turns, job[k].input)
  BY DEF ContextIsHistory, Runs
<1>3. \/ after = turns
      \/ \E c \in CompletedTurns : c.terminal.kind # "Final" /\ after = Append(turns, c)
  BY DEF HistoryStays
<1> HIDE DEF turns, after
<1>4. CASE after = turns
  BY <1>2, <1>4 DEF after
<1>5. ASSUME NEW c \in CompletedTurns, c.terminal.kind # "Final", after = Append(turns, c)
      PROVE  IsContext(context[k], after, job[k].input)
  <2>1. Answered(after) = Answered(turns) /\ \A p \in Answered(turns) : after[p] = turns[p]
    BY <1>1, <1>5, UnansweredAddsNothing
  <2>2. QED
    BY <1>2, <2>1 DEF IsContext
<1>6. QED
  BY <1>3, <1>4, <1>5 DEF after

\* A step that leaves the ledger and the futures alone, but for where they are.
LEMMA QuietContext ==
    ASSUME LedgerInv, ContextIsHistory, UNCHANGED <<sessions, job, context>>,
           \A k \in Tasks : Runs(k)' => Runs(k)
    PROVE  ContextIsHistory'
BY ContextStays DEF HistoryStays

LEMMA NothingRuns ==
    ASSUME LedgerInv, active_turn = NoTurn
    PROVE  \A k \in Tasks : ~Runs(k)
BY DEF LedgerInv, ActiveTurnOwned, GuardMatches, IsActive, Runs

LEMMA AdmitKeepsContext ==
    ASSUME LedgerInv, NEW k \in Tasks, NEW s \in SessionIds, NEW t \in TurnIds,
           NEW i \in Inputs, SubmitAdmit(k, s, t, i)
    PROVE  ContextIsHistory'
<1>1. TypeOK /\ active_turn = NoTurn /\ CanEnsure(s)
  BY DEF LedgerInv, SubmitAdmit, Submittable
<1>2. \A j \in Tasks : Runs(j)' => j = k
  BY <1>1, NothingRuns DEF SubmitAdmit, TypeOK, Runs
<1>3. EnsuredSessions(s)[s].turns \in Seq(CompletedTurns)
  BY <1>1, EnsuredTypes DEF SessionStates
<1>4. /\ context'[k] = Append(History(EnsuredSessions(s)[s].turns), i)
      /\ job'[k].session = s /\ job'[k].input = i
      /\ sessions'[s] = EnsuredSessions(s)[s]
  BY <1>1 DEF SubmitAdmit, TypeOK, ModelContext
<1>5. IsContext(context'[k], EnsuredSessions(s)[s].turns, i)
  BY <1>3, <1>4, ModelContextTells
<1>6. QED
  BY <1>2, <1>4, <1>5 DEF ContextIsHistory, Runs

LEMMA CancelledSubmitKeepsContext ==
    ASSUME LedgerInv, ContextIsHistory, NEW s \in SessionIds, NEW t \in TurnIds,
           NEW i \in Inputs, SubmitCancelled(s, t, i)
    PROVE  ContextIsHistory'
<1> DEFINE c == [turn |-> t, input |-> i, terminal |-> Cancelled]
<1>1. c \in CompletedTurns /\ c.terminal.kind # "Final"
  BY TerminalTypes DEF CompletedTurns, Cancelled
<1>2. s \in DOMAIN sessions
  BY DEF SubmitCancelled, IsPending
<1>3. sessions[s] \in SessionStates
  BY <1>2 DEF LedgerInv, TypeOK
<1>4. sessions'[s].turns = Append(sessions[s].turns, c)
  BY <1>2, <1>3 DEF SubmitCancelled, Record, Redeemed, SessionStates
<1>5. \A r : r # s => sessions'[r] = sessions[r]
  BY DEF SubmitCancelled
<1> HIDE DEF c
<1>6. \A r : HistoryStays(r)
  BY <1>1, <1>4, <1>5 DEF HistoryStays
<1>7. QED
  BY <1>6, ContextStays DEF SubmitCancelled, futures, Runs

LEMMA EarlyCancelKeepsContext ==
    ASSUME LedgerInv, ContextIsHistory, NEW s \in SessionIds, NEW t \in TurnIds,
           CancelEarly(s, t)
    PROVE  ContextIsHistory'
<1>1. TypeOK /\ CanEnsure(s)
  BY DEF LedgerInv, CancelEarly
<1>2. ASSUME NEW k \in Tasks, Runs(k)
      PROVE  HistoryStays(job[k].session)
  <2> DEFINE r == job[k].session
  <2>1. r \in DOMAIN sessions /\ ActiveIn(r)
    BY <1>2 DEF LedgerInv, ActiveTurnOwned, GuardMatches, IsActive, ActiveIn, Runs
  <2> HIDE DEF r
  <2>2. r \in DOMAIN EnsuredSessions(s) /\ EnsuredSessions(s)[r] = sessions[r]
    BY <1>1, <2>1, EnsuredTypes
  <2>3. EnsuredSessions(s)[r] \in SessionStates
    BY <1>1, <2>2, EnsuredTypes
  <2>4. sessions'[r].turns = EnsuredSessions(s)[r].turns
    BY <2>2, <2>3 DEF CancelEarly, SessionStates
  <2>5. QED
    BY <2>2, <2>4 DEF HistoryStays, r
<1>3. QED
  BY <1>2, ContextStays DEF CancelEarly, futures, Runs

LEMMA SealKeepsContext ==
    ASSUME LedgerInv, NEW k \in Tasks, Runs(k), NEW o, SealTurn(k, o)
    PROVE  ContextIsHistory'
<1>1. \A j \in Tasks : Runs(j) => j = k
  BY DEF LedgerInv, ActiveTurnOwned, Runs
<1>2. \A j \in Tasks : ~Runs(j)'
  BY <1>1 DEF SealTurn, LedgerInv, TypeOK, Runs
<1>3. QED
  BY <1>2 DEF ContextIsHistory, Runs

LEMMA ContextNext == LedgerInv /\ ContextIsHistory /\ [Next]_vars => ContextIsHistory'
<1> SUFFICES ASSUME LedgerInv, ContextIsHistory, [Next]_vars
             PROVE  ContextIsHistory'
  OBVIOUS
<1>1. CASE Clients
  <2>1. PICK s \in SessionIds, t \in TurnIds :
          \/ \E i \in Inputs : \/ SubmitReplay(s, t, i)
                               \/ SubmitCancelled(s, t, i)
                               \/ SubmitOverContext(s, t, i)
                               \/ \E k \in Tasks : SubmitAdmit(k, s, t, i)
          \/ CancelSealed(s, t)
          \/ CancelActive(s, t)
          \/ CancelEarly(s, t)
    BY <1>1 DEF Clients
  <2>2. ASSUME NEW i \in Inputs, SubmitReplay(s, t, i) PROVE ContextIsHistory'
    BY <2>2, QuietContext DEF SubmitReplay, ledger, futures, Runs
  <2>3. ASSUME NEW i \in Inputs, SubmitOverContext(s, t, i) PROVE ContextIsHistory'
    <3>1. active_turn = NoTurn /\ UNCHANGED futures
      BY <2>3 DEF SubmitOverContext, Submittable
    <3>2. \A k \in Tasks : ~Runs(k)'
      BY <3>1, NothingRuns DEF futures, Runs
    <3>3. QED
      BY <3>2 DEF ContextIsHistory, Runs
  <2>4. CASE CancelSealed(s, t) \/ CancelActive(s, t)
    BY <2>4, QuietContext DEF CancelSealed, CancelActive, ledger, futures, Runs
  <2>5. QED
    BY <2>1, <2>2, <2>3, <2>4, AdmitKeepsContext, CancelledSubmitKeepsContext,
       EarlyCancelKeepsContext
<1>2. ASSUME NEW k \in Tasks, TaskStep(k) \/ SelectProvider(k) \/ Abort(k)
      PROVE  ContextIsHistory'
  <2>1. ASSUME NEW o, SelectTerminal(k, o) PROVE ContextIsHistory'
    <3>1. \A j \in Tasks : Runs(j)' => Runs(j)
      BY <2>1 DEF SelectTerminal, LedgerInv, TypeOK, Runs
    <3>2. QED
      BY <2>1, <3>1, QuietContext DEF SelectTerminal, ledger
  <2>2. CASE Complete(k) \/ Abort(k)
    BY <2>2, SealKeepsContext DEF Complete, Abort, Runs
  <2>3. CASE NotifyWaiters(k)
    <3>1. \A j \in Tasks : Runs(j)' =>
              Runs(j) /\ job'[j] = job[j] /\ context'[j] = context[j]
      BY <2>3 DEF NotifyWaiters, LedgerInv, TypeOK, Runs
    <3>2. QED
      BY <2>3, <3>1, ContextStays DEF NotifyWaiters, ledger, HistoryStays
  <2>4. QED
    BY <1>2, <2>1, <2>2, <2>3 DEF TaskStep, SelectCancelled, SelectDeadline, SelectProvider
<1>3. CASE Owner \/ WaiterStep \/ UNCHANGED vars
  <2>1. UNCHANGED <<ledger, futures>>
    BY <1>3 DEF Owner, WaiterStep, ServiceStart, CardStart, CardStop, CardStopLate,
       ServiceStopCreated, ServiceStop, Drop, OwnerDeadline, WaiterArm, WaiterCheck,
       WaiterWake, ServiceStopped, vars, ledger, futures
  <2>2. QED
    BY <2>1, QuietContext DEF ledger, futures, Runs
<1>4. QED
  BY <1>1, <1>2, <1>3 DEF Next

\* The model is shown exactly the answered history, whatever was cancelled,
\* failed or evicted while the turn ran.
THEOREM ServiceContextIsHistory == Spec => []ContextIsHistory
<1>1. Init => ContextIsHistory
  BY DEF Init, ContextIsHistory
<1>2. QED
  BY <1>1, ContextNext, LedgerInvariant, PTL DEF Spec

-----------------------------------------------------------------------------
(* Where a ledger keeps a turn.  The ledger is a parameter: the one a step *)
(* leads to and the ones it is built from are compared by these.           *)

CompletionsIn(S, s, t) ==
    {c \in (IF s \in DOMAIN S THEN ToSet(S[s].turns) ELSE {}) : c.turn = t}
PendingIn(S, s, t) == s \in DOMAIN S /\ t \in ToSet(S[s].pending)

\* A turn has at most one sealed record, and the active turn has none and no
\* tombstone.  With it the status of a turn is where the ledger keeps it.
TurnInOnePlace ==
    /\ \A s \in SessionIds, t \in TurnIds :
          \A c, d \in CompletionsIn(sessions, s, t) : c = d
    /\ active_turn # NoTurn =>
          /\ CompletionsIn(sessions, active_turn.session, active_turn.turn) = {}
          /\ ~PendingIn(sessions, active_turn.session, active_turn.turn)

LEMMA LedgerPlaces ==
    ASSUME NEW s, NEW t
    PROVE  /\ CompletionsOf(s, t) = CompletionsIn(sessions, s, t)
           /\ CompletionsOf(s, t)' = CompletionsIn(sessions', s, t)
           /\ IsPending(s, t) <=> PendingIn(sessions, s, t)
           /\ IsPending(s, t)' <=> PendingIn(sessions', s, t)
BY DEF CompletionsOf, Completions, CompletionsIn, IsPending, PendingIn

LEMMA AppendSet ==
    ASSUME NEW S, NEW seq \in Seq(S), NEW e \in S
    PROVE  ToSet(Append(seq, e)) = ToSet(seq) \cup {e}
<1>1. /\ Len(Append(seq, e)) = Len(seq) + 1
      /\ \A p \in 1 .. Len(seq) : Append(seq, e)[p] = seq[p]
      /\ Append(seq, e)[Len(seq) + 1] = e
  BY AppendProperties
<1>2. Len(seq) \in Nat /\ DOMAIN seq = 1 .. Len(seq)
  BY LenProperties
<1>3. Append(seq, e) \in Seq(S)
  BY AppendProperties
<1>4. DOMAIN Append(seq, e) = 1 .. (Len(seq) + 1)
  BY <1>1, <1>3, LenProperties
<1>5. 1 .. (Len(seq) + 1) = (1 .. Len(seq)) \cup {Len(seq) + 1}
  BY <1>2
<1>6. QED
  BY <1>1, <1>2, <1>4, <1>5 DEF ToSet

\* Taking out the first occurrence of an element leaves all the others.
LEMMA RemoveFirstSet ==
    ASSUME NEW S, NEW seq \in Seq(S), NEW e, e \in ToSet(seq), NEW x, x # e
    PROVE  x \in ToSet(RemoveFirst(seq, e)) <=> x \in ToSet(seq)
<1> DEFINE I == {i \in 1 .. Len(seq) : seq[i] = e}
           p == Min(I)
           n == Len(seq)
           front == SubSeq(seq, 1, p - 1)
           back == SubSeq(seq, p + 1, n)
<1>1. I # {}
  BY LenProperties DEF ToSet
<1>2. p \in I /\ p \in 1 .. Len(seq)
  BY <1>1, FirstPosition
<1>3. RemoveFirst(seq, e) = front \o back
  BY <1>1 DEF RemoveFirst, SelectInSeq, RemoveAt
<1>4. n \in Nat /\ p \in Nat /\ 1 <= p /\ p <= n /\ seq[p] = e /\ DOMAIN seq = 1 .. n
      /\ \A j \in 1 .. n : seq[j] \in S
  BY <1>2, LenProperties, ElementOfSeq
<1> HIDE DEF n, p, I
<1>5. front \in Seq(S) /\ Len(front) = p - 1 /\ \A j \in 1 .. (p - 1) : front[j] = seq[j]
  BY <1>4, SubSeqProperties
<1>6. back \in Seq(S) /\ Len(back) = n - p /\ \A j \in 1 .. (n - p) : back[j] = seq[p + j]
  BY <1>4, SubSeqProperties
<1> HIDE DEF front, back
<1>7. /\ DOMAIN (front \o back) = 1 .. (n - 1)
      /\ \A j \in 1 .. (n - 1) : (front \o back)[j] = IF j < p THEN seq[j] ELSE seq[j + 1]
  <2>1. p - 1 \in Nat /\ n - p \in Nat /\ (p - 1) + (n - p) = n - 1 /\ n - 1 \in Nat
    BY <1>4
  <2>2. front \o back \in Seq(S) /\ Len(front \o back) = n - 1
    BY <1>5, <1>6, <2>1, ConcatProperties
  <2>3. DOMAIN (front \o back) = 1 .. (n - 1)
    BY <2>2, LenProperties
  <2>4. ASSUME NEW j \in 1 .. (n - 1)
        PROVE  (front \o back)[j] = IF j < p THEN seq[j] ELSE seq[j + 1]
    <3>1. (front \o back)[j] = IF j <= p - 1 THEN front[j] ELSE back[j - (p - 1)]
      <4>1. \A i \in 1 .. Len(front) + Len(back) :
               (front \o back)[i] = IF i <= Len(front) THEN front[i] ELSE back[i - Len(front)]
        BY <1>5, <1>6, ConcatProperties
      <4>2. Len(front) = p - 1 /\ Len(front) + Len(back) = n - 1
        BY <1>5, <1>6, <2>1
      <4>3. QED
        BY <4>1, <4>2
    <3>2. CASE j < p
      <4>1. j <= p - 1 /\ j \in 1 .. (p - 1)
        BY <1>4, <3>2
      <4>2. QED
        BY <1>5, <3>1, <3>2, <4>1
    <3>3. CASE ~(j < p)
      <4>1. ~(j <= p - 1) /\ j - (p - 1) \in 1 .. (n - p) /\ p + (j - (p - 1)) = j + 1
        BY <1>4, <3>3
      <4>2. QED
        BY <1>6, <3>1, <3>3, <4>1
    <3>4. QED
      BY <3>2, <3>3
  <2>5. QED
    BY <2>3, <2>4
<1>8. ASSUME x \in ToSet(seq)
      PROVE  x \in ToSet(front \o back)
  <2>1. PICK j \in 1 .. n : seq[j] = x
    BY <1>4, <1>8 DEF ToSet
  <2>2. j # p
    BY <1>4, <2>1
  <2>3. CASE j < p
    BY <1>4, <1>7, <2>1, <2>3 DEF ToSet
  <2>4. CASE j > p
    <3>1. j - 1 \in 1 .. (n - 1) /\ ~(j - 1 < p) /\ (j - 1) + 1 = j
      BY <1>4, <2>4
    <3>2. QED
      BY <1>7, <2>1, <3>1 DEF ToSet
  <2>5. QED
    BY <1>4, <2>2, <2>3, <2>4
<1>9. ASSUME x \in ToSet(front \o back)
      PROVE  x \in ToSet(seq)
  <2>1. PICK j \in 1 .. (n - 1) : (front \o back)[j] = x
    BY <1>7, <1>9 DEF ToSet
  <2>2. j \in 1 .. n /\ j + 1 \in 1 .. n
    BY <1>4
  <2>3. QED
    BY <1>4, <1>7, <2>1, <2>2 DEF ToSet
<1>10. QED
  BY <1>3, <1>8, <1>9

-----------------------------------------------------------------------------
(* What the operations on a ledger do to where it keeps a turn.            *)

LEMMA EnsuredPlaces ==
    ASSUME TypeOK, NEW s \in SessionIds, CanEnsure(s), NEW r, NEW u
    PROVE  /\ CompletionsIn(EnsuredSessions(s), r, u)
                = IF r \in Evicted(s) THEN {} ELSE CompletionsIn(sessions, r, u)
           /\ PendingIn(EnsuredSessions(s), r, u)
                <=> r \notin Evicted(s) /\ PendingIn(sessions, r, u)
<1>1. DOMAIN EnsuredSessions(s) = (DOMAIN sessions \ Evicted(s)) \cup {s}
  BY DEF EnsuredSessions
<1>2. \A q \in DOMAIN EnsuredSessions(s) :
         EnsuredSessions(s)[q] = IF q \in DOMAIN sessions THEN sessions[q] ELSE EmptySession
  BY EnsuredTypes
<1>3. Evicted(s) # {} => s \notin DOMAIN sessions
  BY DEF Evicted, MustEvict
<1>4. ToSet(EmptySession.turns) = {} /\ ToSet(EmptySession.pending) = {}
  BY DEF EmptySession, ToSet
<1> HIDE DEF EnsuredSessions
<1>5. QED
  BY <1>1, <1>2, <1>3, <1>4 DEF CompletionsIn, PendingIn

LEMMA RecordPlaces ==
    ASSUME NEW S, NEW s \in DOMAIN S, NEW session \in SessionStates,
           NEW t \in TurnIds, NEW i \in Inputs, NEW o \in Terminals,
           session.turns = S[s].turns, CompletionsIn(S, s, t) = {},
           NEW R, DOMAIN R = DOMAIN S, R[s] = Record(session, t, i, o),
           \A r \in DOMAIN S : r # s => R[r] = S[r]
    PROVE  /\ CompletionsIn(R, s, t) = {[turn |-> t, input |-> i, terminal |-> o]}
           /\ \A r, u : r # s \/ u # t => CompletionsIn(R, r, u) = CompletionsIn(S, r, u)
<1> DEFINE c == [turn |-> t, input |-> i, terminal |-> o]
           a == Record(session, t, i, o)
<1>1. c \in CompletedTurns /\ session.turns \in Seq(CompletedTurns)
  BY DEF CompletedTurns, SessionStates
<1>2. c.turn = t /\ a.turns = Append(session.turns, c)
  BY DEF Record, SessionStates
<1> HIDE DEF c, a
<1>3. ToSet(a.turns) = ToSet(S[s].turns) \cup {c}
  BY <1>1, <1>2, AppendSet
<1>4. R[s] = a
  BY DEF a
<1>5. CompletionsIn(R, s, t) = {c}
  BY <1>2, <1>3, <1>4 DEF CompletionsIn
<1>6. ASSUME NEW r, NEW u, r # s \/ u # t
      PROVE  CompletionsIn(R, r, u) = CompletionsIn(S, r, u)
  <2>1. CASE r = s
    BY <1>2, <1>3, <1>4, <1>6, <2>1 DEF CompletionsIn
  <2>2. CASE r # s
    BY <1>4, <2>2 DEF CompletionsIn
  <2>3. QED
    BY <2>1, <2>2
<1>7. QED
  BY <1>5, <1>6 DEF c

-----------------------------------------------------------------------------
(* The status of a turn in the contract.                                   *)

LEMMA OnlyRunner ==
    ASSUME NEW places, NEW k \in Tasks, places[k] \in {"running", "proposed"},
           \A j \in Tasks : places[j] \in {"running", "proposed"} => j = k
    PROVE  (CHOOSE j \in Tasks : places[j] \in {"running", "proposed"}) = k
OBVIOUS

LEMMA RunnerOwns ==
    ASSUME ActiveTurnOwned, NEW k \in Tasks, pc[k] \in {"running", "proposed"}
    PROVE  Runner = k
<1>1. \A j \in Tasks : pc[j] \in {"running", "proposed"} => j = k
  BY DEF ActiveTurnOwned
<1>2. QED
  BY <1>1, OnlyRunner DEF Runner

LEMMA StatusShape ==
    ASSUME NEW s, NEW t
    PROVE  /\ StatusOf(s, t).phase = "running"
                <=> CompletionsIn(sessions, s, t) = {} /\ IsActive(s, t)
           /\ \A c : CompletionsIn(sessions, s, t) = {c} =>
                StatusOf(s, t) = [phase |-> "sealed", input |-> c.input,
                                  terminal |-> c.terminal]
           /\ CompletionsIn(sessions, s, t) = {} /\ IsActive(s, t) =>
                StatusOf(s, t) = [phase |-> "running", input |-> job[Runner].input,
                                  cancelled |-> active_turn.cancelled]
           /\ CompletionsIn(sessions, s, t) = {} /\ ~IsActive(s, t) =>
                StatusOf(s, t) = [phase |-> IF PendingIn(sessions, s, t) THEN "promised"
                                                                         ELSE "unknown"]
BY LedgerPlaces DEF StatusOf

LEMMA StatusShapeNext ==
    ASSUME NEW s, NEW t
    PROVE  /\ CompletionsIn(sessions', s, t) = {} /\ IsActive(s, t)' =>
                StatusOf(s, t)' = [phase |-> "running", input |-> job'[Runner'].input,
                                   cancelled |-> active_turn'.cancelled]
           /\ CompletionsIn(sessions', s, t) = {} /\ ~IsActive(s, t)' =>
                StatusOf(s, t)' = [phase |-> IF PendingIn(sessions', s, t) THEN "promised"
                                                                           ELSE "unknown"]
BY LedgerPlaces DEF StatusOf

LEMMA StatusSealed ==
    ASSUME NEW s, NEW t, NEW c, CompletionsIn(sessions', s, t) = {c}
    PROVE  StatusOf(s, t)' = [phase |-> "sealed", input |-> c.input, terminal |-> c.terminal]
BY LedgerPlaces DEF StatusOf

\* Whatever the step did to the turn t of s, this turn is where it was.
StaysPut(r, u) ==
    /\ CompletionsIn(sessions', r, u) = CompletionsIn(sessions, r, u)
    /\ PendingIn(sessions', r, u) <=> PendingIn(sessions, r, u)
    /\ IsActive(r, u)' <=> IsActive(r, u)
    /\ IsActive(r, u) => /\ job'[Runner'].input = job[Runner].input
                         /\ active_turn'.cancelled = active_turn.cancelled

Forgotten(r, u) ==
    /\ CompletionsIn(sessions', r, u) = {}
    /\ ~PendingIn(sessions', r, u)
    /\ ~IsActive(r, u)'

LEMMA StatusStays ==
    ASSUME NEW r, NEW u, StaysPut(r, u)
    PROVE  StatusOf(r, u)' = StatusOf(r, u)
<1>1. CASE CompletionsIn(sessions, r, u) # {}
  BY <1>1, LedgerPlaces DEF StaysPut, StatusOf
<1>2. CASE CompletionsIn(sessions, r, u) = {}
  BY <1>2, StatusShape, StatusShapeNext DEF StaysPut
<1>3. QED
  BY <1>1, <1>2

LEMMA StatusForgotten ==
    ASSUME NEW r, NEW u, Forgotten(r, u)
    PROVE  StatusOf(r, u)' = Contract!Unknown
BY StatusShapeNext DEF Forgotten, Contract!Unknown

LEMMA BecomesStatus ==
    ASSUME NEW F \in SUBSET SessionIds, NEW s \in SessionIds, NEW t \in TurnIds, NEW st,
           StatusOf(s, t)' = st,
           \A r \in SessionIds, u \in TurnIds : (r # s \/ u # t) =>
              IF r \in F THEN Forgotten(r, u) ELSE StaysPut(r, u)
    PROVE  Contract!Become(F, s, t, st)
<1>1. \A r \in SessionIds, u \in TurnIds :
         StatusOf(r, u)' = IF r = s /\ u = t THEN st
                           ELSE IF r \in F THEN Contract!Unknown ELSE StatusOf(r, u)
  BY StatusStays, StatusForgotten
<1>2. QED
  BY <1>1 DEF Contract!Become, Contract!Remembered

LEMMA RememberedOf ==
    ASSUME NEW F, NEW s \in SessionIds, NEW t \in TurnIds
    PROVE  Contract!Remembered(F)[s][t] = IF s \in F THEN Contract!Unknown ELSE StatusOf(s, t)
BY DEF Contract!Remembered

LEMMA RunsInOf ==
    ASSUME NEW s \in SessionIds
    PROVE  Contract!RunsIn(s) <=> \E t \in TurnIds : StatusOf(s, t).phase = "running"
BY DEF Contract!RunsIn

LEMMA StatusUnchanged ==
    ASSUME UNCHANGED answers,
           \A r \in SessionIds, u \in TurnIds : StaysPut(r, u)
    PROVE  UNCHANGED Contract!contractVars
BY StatusStays DEF Contract!contractVars

\* Only Sessions that run nothing are forgotten.
LEMMA EvictedForgettable ==
    ASSUME TypeOK, NEW s, CanEnsure(s)
    PROVE  Evicted(s) \in Contract!Forgettable
<1>1. Evicted(s) \subseteq SessionIds
  BY EvictedIsIdle, ElementOfSeq, LenProperties DEF Evicted, TypeOK
<1>2. \A r \in Evicted(s) : ~ActiveIn(r)
  BY EvictedIsIdle
<1>3. \A r \in Evicted(s) : ~Contract!RunsIn(r)
  BY <1>1, <1>2, RunsInOf, StatusShape DEF ActiveIn, IsActive
<1>4. QED
  BY <1>1, <1>3 DEF Contract!Forgettable

LEMMA ContractValues ==
    /\ Contract!Cancelled = Cancelled
    /\ Contract!CancellationRequested = CancellationRequested
    /\ Contract!Terminals = Terminals
    /\ \A s, t, asked, reply : Contract!Answer(s, t, asked, reply) = Answer(s, t, asked, reply)
    /\ {} \in Contract!Forgettable
BY DEF Contract!Cancelled, Cancelled, Contract!CancellationRequested, CancellationRequested,
       Contract!Terminals, Terminals, Contract!Failures, Failures, Contract!Answer, Answer,
       Contract!Forgettable

-----------------------------------------------------------------------------
(* One lemma per action: the step of the contract it is, and that every    *)
(* turn still is in one place.                                             *)

\* The future that runs the active turn.
LEMMA TakesTurn ==
    ASSUME LedgerInv, NEW s, NEW t, IsActive(s, t)
    PROVE  \E k \in Tasks : pc[k] \in {"running", "proposed"} /\ Runner = k
<1>1. PICK k \in Tasks : pc[k] \in {"running", "proposed"}
  BY DEF LedgerInv, ActiveTurnOwned, IsActive
<1>2. QED
  BY <1>1, RunnerOwns DEF LedgerInv

\* A repeated question finds the turn sealed.
LEMMA RepeatStep ==
    ASSUME TurnInOnePlace, NEW s \in SessionIds, NEW t \in TurnIds, NEW asked,
           NEW c \in CompletionsOf(s, t), asked \in {c.input, "cancel"},
           asked \in Inputs \cup {"cancel"},
           answers' = answers \cup {Answer(s, t, asked, c.terminal)},
           UNCHANGED <<ledger, active_turn, futures>>
    PROVE  TurnInOnePlace' /\ Contract!ContractNext
<1>1. CompletionsIn(sessions, s, t) = {c}
  BY LedgerPlaces DEF TurnInOnePlace
<1>2. StatusOf(s, t) = [phase |-> "sealed", input |-> c.input, terminal |-> c.terminal]
  BY <1>1, StatusShape
<1>3. TurnInOnePlace'
  BY DEF TurnInOnePlace, CompletionsIn, PendingIn, ledger
<1>4. \A r \in SessionIds, u \in TurnIds : StaysPut(r, u)
  BY DEF StaysPut, IsActive, Runner, ledger, futures
<1>5. UNCHANGED [r \in SessionIds |-> [u \in TurnIds |-> StatusOf(r, u)]]
  BY <1>4, StatusStays
<1>6. Contract!Repeat(s, t, asked)
  BY <1>2, <1>5, ContractValues DEF Contract!Repeat, Contract!Tell, Contract!AnswersBut
<1>7. QED
  BY <1>3, <1>6 DEF Contract!ContractNext

\* A step that neither moves a turn nor tells a client anything.
LEMMA QuietStep ==
    ASSUME LedgerInv, LedgerInv', TurnInOnePlace, UNCHANGED <<ledger, active_turn, answers>>,
           \A k \in Tasks : pc[k] \in {"running", "proposed"} =>
              pc'[k] \in {"running", "proposed"} /\ job'[k] = job[k]
    PROVE  TurnInOnePlace' /\ UNCHANGED Contract!contractVars
<1>1. TurnInOnePlace'
  BY DEF TurnInOnePlace, CompletionsIn, PendingIn, ledger
<1>2. ASSUME NEW r \in SessionIds, NEW u \in TurnIds
      PROVE  StaysPut(r, u)
  <2>1. ASSUME IsActive(r, u)
        PROVE  job'[Runner'].input = job[Runner].input
    <3>1. PICK k \in Tasks : pc[k] \in {"running", "proposed"} /\ Runner = k
      BY <2>1, TakesTurn DEF LedgerInv
    <3>2. pc'[k] \in {"running", "proposed"}
      BY <3>1
    <3>3. \A j \in Tasks : pc'[j] \in {"running", "proposed"} => j = k
      BY <3>2 DEF LedgerInv, ActiveTurnOwned
    <3>4. Runner' = k
      BY <3>2, <3>3, OnlyRunner DEF Runner
    <3>5. QED
      BY <3>1, <3>4
  <2>2. QED
    BY <2>1 DEF StaysPut, IsActive, ledger
<1>3. QED
  BY <1>1, <1>2, StatusUnchanged

\* The owner or a client cancels the active turn.
LEMMA FlagStatus ==
    ASSUME LedgerInv, TurnInOnePlace, UNCHANGED <<ledger, futures>>,
           NEW s, NEW t, IsActive(s, t), active_turn' = Flagged
    PROVE  /\ TurnInOnePlace'
           /\ s \in SessionIds /\ t \in TurnIds
           /\ StatusOf(s, t).phase = "running"
           /\ Contract!Become({}, s, t, Contract!Running(StatusOf(s, t).input, TRUE))
<1>1. TypeOK
  BY DEF LedgerInv
<1>2. /\ s \in SessionIds /\ t \in TurnIds /\ active_turn # NoTurn /\ active_turn' # NoTurn
      /\ active_turn.session = s /\ active_turn.turn = t
      /\ active_turn'.session = s /\ active_turn'.turn = t /\ active_turn'.cancelled = TRUE
  BY <1>1, NoneAssumption DEF TypeOK, ActiveTurns, Flagged, IsActive
<1>3. IsActive(s, t)' /\ CompletionsIn(sessions, s, t) = {}
  BY <1>2 DEF IsActive, TurnInOnePlace
<1>4. Runner' = Runner /\ job' = job /\ sessions' = sessions
  BY DEF Runner, futures, ledger
<1>5. TurnInOnePlace'
  BY <1>2, <1>4 DEF TurnInOnePlace
<1>6. StatusOf(s, t) = [phase |-> "running", input |-> job[Runner].input,
                        cancelled |-> active_turn.cancelled]
  BY <1>3, StatusShape
<1>7. StatusOf(s, t)' = [phase |-> "running", input |-> job[Runner].input, cancelled |-> TRUE]
  BY <1>2, <1>3, <1>4, StatusShapeNext
<1>8. \A r \in SessionIds, u \in TurnIds : (r # s \/ u # t) => StaysPut(r, u)
  BY <1>2, <1>4 DEF StaysPut, IsActive
<1>9. PICK st : st = [phase |-> "running", input |-> job[Runner].input, cancelled |-> TRUE]
  OBVIOUS
<1>10. Contract!Become({}, s, t, st)
  BY <1>2, <1>7, <1>8, <1>9, BecomesStatus
<1>11. QED
  BY <1>2, <1>5, <1>6, <1>9, <1>10 DEF Contract!Running

LEMMA SubmitCancelledStep ==
    ASSUME LedgerInv, TurnInOnePlace, NEW s \in SessionIds, NEW t \in TurnIds,
           NEW i \in Inputs, SubmitCancelled(s, t, i)
    PROVE  TurnInOnePlace' /\ Contract!ContractNext
<1> DEFINE c == [turn |-> t, input |-> i, terminal |-> Cancelled]
           redeemed == Redeemed(sessions[s], t)
<1>1. TypeOK /\ Cancelled \in Terminals
  BY TerminalTypes DEF LedgerInv
<1>2. /\ s \in DOMAIN sessions /\ t \in ToSet(sessions[s].pending)
      /\ CompletionsIn(sessions, s, t) = {} /\ PendingIn(sessions, s, t)
  BY LedgerPlaces DEF SubmitCancelled, IsPending
<1>3. sessions[s] \in SessionStates /\ sessions[s].pending \in Seq(TurnIds)
  BY <1>1, <1>2 DEF TypeOK, SessionStates
<1>4. /\ redeemed \in SessionStates
      /\ redeemed.turns = sessions[s].turns
      /\ redeemed.pending = RemoveFirst(sessions[s].pending, t)
  BY <1>2, <1>3, RemoveFirstType DEF SessionStates, Redeemed
<1>5. \A u : u # t => (u \in ToSet(redeemed.pending) <=> u \in ToSet(sessions[s].pending))
  BY <1>2, <1>3, <1>4, RemoveFirstSet
<1>6. /\ sessions' = [sessions EXCEPT ![s] = Record(redeemed, t, i, Cancelled)]
      /\ answers' = answers \cup {Answer(s, t, i, Cancelled)}
      /\ UNCHANGED <<active_turn, futures>>
  BY DEF SubmitCancelled
<1> HIDE DEF redeemed
<1>7. /\ CompletionsIn(sessions', s, t) = {c}
      /\ \A r, u : r # s \/ u # t =>
            CompletionsIn(sessions', r, u) = CompletionsIn(sessions, r, u)
  <2>1. /\ DOMAIN sessions' = DOMAIN sessions
        /\ sessions'[s] = Record(redeemed, t, i, Cancelled)
        /\ \A r \in DOMAIN sessions : r # s => sessions'[r] = sessions[r]
    BY <1>2, <1>6
  <2>2. QED
    BY <1>1, <1>2, <1>4, <2>1, RecordPlaces
<1>8. \A r, u : r # s \/ u # t =>
         (PendingIn(sessions', r, u) <=> PendingIn(sessions, r, u))
  <2>1. Record(redeemed, t, i, Cancelled).pending = redeemed.pending
    BY <1>1, <1>4, RecordType
  <2>2. QED
    BY <1>2, <1>5, <1>6, <2>1 DEF PendingIn
<1>9. ~IsActive(s, t)
  BY <1>2 DEF TurnInOnePlace, IsActive
<1>10. TurnInOnePlace'
  <2>1. \A r \in SessionIds, u \in TurnIds :
           \A d, e \in CompletionsIn(sessions', r, u) : d = e
    BY <1>7 DEF TurnInOnePlace
  <2>2. active_turn # NoTurn =>
           /\ active_turn.session # s \/ active_turn.turn # t
           /\ CompletionsIn(sessions, active_turn.session, active_turn.turn) = {}
           /\ ~PendingIn(sessions, active_turn.session, active_turn.turn)
    BY <1>9 DEF TurnInOnePlace, IsActive
  <2>3. active_turn' = active_turn
    BY <1>6
  <2>4. active_turn' # NoTurn =>
           /\ CompletionsIn(sessions', active_turn'.session, active_turn'.turn) = {}
           /\ ~PendingIn(sessions', active_turn'.session, active_turn'.turn)
    BY <1>7, <1>8, <2>2, <2>3
  <2>5. QED
    BY <2>1, <2>4 DEF TurnInOnePlace
<1>11. StatusOf(s, t) = Contract!Promised
  BY <1>2, <1>9, StatusShape DEF Contract!Promised
<1>12. StatusOf(s, t)' = [phase |-> "sealed", input |-> i, terminal |-> Cancelled]
  <2>1. c.input = i /\ c.terminal = Cancelled
    OBVIOUS
  <2> HIDE DEF c
  <2>2. QED
    BY <1>7, <2>1, StatusSealed
<1>13. \A r \in SessionIds, u \in TurnIds : (r # s \/ u # t) => StaysPut(r, u)
  BY <1>6, <1>7, <1>8 DEF StaysPut, IsActive, Runner, futures
<1>14. Contract!Become({}, s, t, Contract!Sealed(i, Cancelled))
  BY <1>12, <1>13, BecomesStatus DEF Contract!Sealed
<1>15. Contract!Redeem(s, t, i)
  BY <1>6, <1>11, <1>14, ContractValues
     DEF Contract!Redeem, Contract!Tell, Contract!AnswersBut
<1>16. QED
  BY <1>10, <1>15 DEF Contract!ContractNext

\* A new turn is unknown to the contract once the evicted Sessions are.
LEMMA SubmittableUnknown ==
    ASSUME TypeOK, NEW s \in SessionIds, NEW t \in TurnIds, Submittable(s, t)
    PROVE  /\ Contract!Remembered(Evicted(s))[s][t] = Contract!Unknown
           /\ \A r \in SessionIds : ~Contract!RunsIn(r)
           /\ CompletionsIn(sessions, s, t) = {} /\ ~PendingIn(sessions, s, t)
           /\ \A r, u : ~IsActive(r, u)
<1>1. /\ CompletionsIn(sessions, s, t) = {} /\ ~PendingIn(sessions, s, t)
      /\ \A r, u : ~IsActive(r, u)
  BY LedgerPlaces DEF Submittable, IsActive
<1>2. StatusOf(s, t) = Contract!Unknown
  BY <1>1, StatusShape DEF Contract!Unknown
<1>3. QED
  BY <1>1, <1>2, RememberedOf, RunsInOf, StatusShape

LEMMA SubmitOverContextStep ==
    ASSUME LedgerInv, TurnInOnePlace, NEW s \in SessionIds, NEW t \in TurnIds,
           NEW i \in Inputs, SubmitOverContext(s, t, i)
    PROVE  TurnInOnePlace' /\ Contract!ContractNext
<1> DEFINE o == Failed("ContextLimit")
           c == [turn |-> t, input |-> i, terminal |-> o]
           ensured == EnsuredSessions(s)
<1>1. TypeOK /\ o \in Terminals
  BY TerminalTypes DEF LedgerInv
<1>2. CanEnsure(s) /\ active_turn = NoTurn
  BY DEF SubmitOverContext, Submittable
<1>3. /\ Contract!Remembered(Evicted(s))[s][t] = Contract!Unknown
      /\ CompletionsIn(sessions, s, t) = {}
  BY <1>1, SubmittableUnknown DEF SubmitOverContext
<1>4. s \in DOMAIN ensured /\ ensured[s] \in SessionStates
  BY <1>1, <1>2, EnsuredTypes
<1> HIDE DEF o
<1>5. /\ sessions' = [ensured EXCEPT ![s] = Record(ensured[s], t, i, o)]
      /\ answers' = {a \in answers : a.session \notin Evicted(s)} \cup {Answer(s, t, i, o)}
      /\ UNCHANGED <<active_turn, futures>>
  BY DEF SubmitOverContext, Told, o
<1>6. \A r, u : /\ CompletionsIn(ensured, r, u)
                     = IF r \in Evicted(s) THEN {} ELSE CompletionsIn(sessions, r, u)
                /\ PendingIn(ensured, r, u)
                     <=> r \notin Evicted(s) /\ PendingIn(sessions, r, u)
  BY <1>1, <1>2, EnsuredPlaces
<1>7. /\ CompletionsIn(sessions', s, t) = {c}
      /\ \A r, u : r # s \/ u # t =>
            CompletionsIn(sessions', r, u) = CompletionsIn(ensured, r, u)
  <2>1. /\ DOMAIN sessions' = DOMAIN ensured
        /\ sessions'[s] = Record(ensured[s], t, i, o)
        /\ \A r \in DOMAIN ensured : r # s => sessions'[r] = ensured[r]
    BY <1>4, <1>5
  <2>2. CompletionsIn(ensured, s, t) = {}
    BY <1>3, <1>6
  <2>3. QED
    BY <1>1, <1>4, <2>1, <2>2, RecordPlaces
<1>8. \A r, u : PendingIn(sessions', r, u) <=> PendingIn(ensured, r, u)
  BY <1>1, <1>4, <1>5, RecordType DEF PendingIn
<1> HIDE DEF ensured
<1>9. TurnInOnePlace'
  <2>1. ASSUME NEW r \in SessionIds, NEW u \in TurnIds,
               NEW d \in CompletionsIn(sessions', r, u),
               NEW e \in CompletionsIn(sessions', r, u)
        PROVE  d = e
    BY <1>6, <1>7 DEF TurnInOnePlace
  <2>2. QED
    BY <1>2, <1>5, <2>1 DEF TurnInOnePlace
<1>10. StatusOf(s, t)' = [phase |-> "sealed", input |-> i, terminal |-> o]
  <2>1. c.input = i /\ c.terminal = o
    OBVIOUS
  <2> HIDE DEF c
  <2>2. QED
    BY <1>7, <2>1, StatusSealed
<1>11. \A r \in SessionIds, u \in TurnIds : (r # s \/ u # t) =>
          IF r \in Evicted(s) THEN Forgotten(r, u) ELSE StaysPut(r, u)
  BY <1>2, <1>5, <1>7, <1>8, <1>6 DEF StaysPut, Forgotten, IsActive
<1>12. PICK F \in Contract!Forgettable : F = Evicted(s)
  BY <1>1, <1>2, EvictedForgettable
<1>13. F \in SUBSET SessionIds
  BY DEF Contract!Forgettable
<1>14. Contract!Become(F, s, t, Contract!Sealed(i, o))
  BY <1>10, <1>11, <1>12, <1>13, BecomesStatus DEF Contract!Sealed
<1>15. Contract!Refuse(F, s, t, i)
  BY <1>3, <1>5, <1>12, <1>14, ContractValues
     DEF Contract!Refuse, Contract!Tell, Contract!AnswersBut, o, Failed
<1>16. QED
  BY <1>9, <1>12, <1>15 DEF Contract!ContractNext

LEMMA SubmitAdmitStep ==
    ASSUME LedgerInv, LedgerInv', TurnInOnePlace, NEW k \in Tasks, NEW s \in SessionIds,
           NEW t \in TurnIds, NEW i \in Inputs, SubmitAdmit(k, s, t, i)
    PROVE  TurnInOnePlace' /\ Contract!ContractNext
<1> DEFINE ensured == EnsuredSessions(s)
           turn == [session |-> s, turn |-> t, cancelled |-> FALSE]
<1>1. TypeOK
  BY DEF LedgerInv
<1>2. CanEnsure(s) /\ active_turn = NoTurn
  BY DEF SubmitAdmit, Submittable
<1>3. /\ Contract!Remembered(Evicted(s))[s][t] = Contract!Unknown
      /\ \A r \in SessionIds : ~Contract!RunsIn(r)
      /\ CompletionsIn(sessions, s, t) = {} /\ ~PendingIn(sessions, s, t)
      /\ \A r, u : ~IsActive(r, u)
  BY <1>1, SubmittableUnknown DEF SubmitAdmit
<1>4. turn # NoTurn
  <2>1. turn \in ActiveTurns
    BY DEF ActiveTurns
  <2>2. QED
    BY <2>1, NoneAssumption
<1>5. /\ sessions' = ensured
      /\ active_turn' = turn
      /\ answers' = {a \in answers : a.session \notin Evicted(s)} \cup {}
      /\ pc'[k] = "running"
      /\ job'[k] = [session |-> s, turn |-> t, input |-> i]
  BY <1>1 DEF SubmitAdmit, Told, TypeOK
<1>6. Runner' = k
  <2>1. \A j \in Tasks : pc'[j] \in {"running", "proposed"} => j = k
    BY <1>5 DEF LedgerInv, ActiveTurnOwned
  <2>2. QED
    BY <1>5, <2>1, OnlyRunner DEF Runner
<1>7. \A r, u : /\ CompletionsIn(sessions', r, u)
                     = IF r \in Evicted(s) THEN {} ELSE CompletionsIn(sessions, r, u)
                /\ PendingIn(sessions', r, u)
                     <=> r \notin Evicted(s) /\ PendingIn(sessions, r, u)
  BY <1>1, <1>2, <1>5, EnsuredPlaces
<1> HIDE DEF ensured
<1>8. TurnInOnePlace'
  BY <1>3, <1>5, <1>7 DEF TurnInOnePlace
<1>9. \A r, u : IsActive(r, u)' <=> r = s /\ u = t
  BY <1>4, <1>5 DEF IsActive
<1>10. StatusOf(s, t)' = [phase |-> "running", input |-> i, cancelled |-> FALSE]
  BY <1>3, <1>5, <1>6, <1>7, <1>9, StatusShapeNext
<1>11. \A r \in SessionIds, u \in TurnIds : (r # s \/ u # t) =>
          IF r \in Evicted(s) THEN Forgotten(r, u) ELSE StaysPut(r, u)
  BY <1>3, <1>7, <1>9 DEF StaysPut, Forgotten
<1>12. PICK F \in Contract!Forgettable : F = Evicted(s)
  BY <1>1, <1>2, EvictedForgettable
<1>13. F \in SUBSET SessionIds
  BY DEF Contract!Forgettable
<1>14. Contract!Become(F, s, t, Contract!Running(i, FALSE))
  BY <1>10, <1>11, <1>12, <1>13, BecomesStatus DEF Contract!Running
<1>15. Contract!Admit(F, s, t, i)
  BY <1>3, <1>5, <1>12, <1>14 DEF Contract!Admit, Contract!Tell, Contract!AnswersBut
<1>16. QED
  BY <1>8, <1>12, <1>15 DEF Contract!ContractNext

LEMMA CancelActiveStep ==
    ASSUME LedgerInv, TurnInOnePlace, NEW s \in SessionIds, NEW t \in TurnIds,
           CancelActive(s, t)
    PROVE  TurnInOnePlace' /\ Contract!ContractNext
<1>1. IsActive(s, t) /\ active_turn' = Flagged /\ UNCHANGED <<ledger, futures>>
  BY DEF CancelActive, IsActive, Flagged
<1>2. /\ TurnInOnePlace'
      /\ StatusOf(s, t).phase = "running"
      /\ Contract!Become({}, s, t, Contract!Running(StatusOf(s, t).input, TRUE))
  BY <1>1, FlagStatus
<1>3. Contract!Remembered({})[s][t] = StatusOf(s, t)
  BY RememberedOf
<1>4. Contract!AcceptCancel({}, s, t)
  BY <1>2, <1>3, ContractValues
     DEF Contract!AcceptCancel, Contract!Tell, Contract!AnswersBut, CancelActive
<1>5. QED
  BY <1>2, <1>4, ContractValues DEF Contract!ContractNext

LEMMA CancelEarlyStep ==
    ASSUME LedgerInv, TurnInOnePlace, NEW s \in SessionIds, NEW t \in TurnIds,
           CancelEarly(s, t)
    PROVE  TurnInOnePlace' /\ Contract!ContractNext
<1> DEFINE ensured == EnsuredSessions(s)
           after == [ensured[s] EXCEPT !.pending = Append(@, t)]
<1>1. TypeOK
  BY DEF LedgerInv
<1>2. /\ CanEnsure(s) /\ ~IsActive(s, t)
      /\ CompletionsIn(sessions, s, t) = {}
      /\ answers' = {a \in answers : a.session \notin Evicted(s)}
                       \cup {Answer(s, t, "cancel", CancellationRequested)}
      /\ UNCHANGED <<active_turn, futures>>
  BY LedgerPlaces DEF CancelEarly, Told
<1>3. s \in DOMAIN ensured /\ ensured[s] \in SessionStates
  BY <1>1, <1>2, EnsuredTypes
<1>4. \A r, u : /\ CompletionsIn(ensured, r, u)
                     = IF r \in Evicted(s) THEN {} ELSE CompletionsIn(sessions, r, u)
                /\ PendingIn(ensured, r, u)
                     <=> r \notin Evicted(s) /\ PendingIn(sessions, r, u)
  BY <1>1, <1>2, EnsuredPlaces
<1>5. \/ IsPending(s, t) /\ sessions' = ensured
      \/ sessions' = [ensured EXCEPT ![s] = after]
  BY DEF CancelEarly
<1>6. IsPending(s, t) => PendingIn(ensured, s, t)
  <2>1. Evicted(s) # {} => s \notin DOMAIN sessions
    BY DEF Evicted, MustEvict
  <2>2. QED
    BY <1>4, <2>1, LedgerPlaces DEF IsPending
<1>7. /\ after.turns = ensured[s].turns
      /\ ToSet(after.pending) = ToSet(ensured[s].pending) \cup {t}
  <2>1. ensured[s].pending \in Seq(TurnIds)
    BY <1>3 DEF SessionStates
  <2>2. ToSet(Append(ensured[s].pending, t)) = ToSet(ensured[s].pending) \cup {t}
    BY <2>1, AppendSet
  <2>3. QED
    BY <1>3, <2>2 DEF SessionStates
<1> HIDE DEF ensured, after
<1>8. /\ \A r, u : CompletionsIn(sessions', r, u) = CompletionsIn(ensured, r, u)
      /\ \A r, u : r # s \/ u # t =>
            (PendingIn(sessions', r, u) <=> PendingIn(ensured, r, u))
      /\ PendingIn(sessions', s, t)
  <2>1. CASE IsPending(s, t) /\ sessions' = ensured
    BY <1>6, <2>1
  <2>2. CASE sessions' = [ensured EXCEPT ![s] = after]
    <3>1. /\ DOMAIN sessions' = DOMAIN ensured /\ sessions'[s] = after
          /\ \A r \in DOMAIN ensured : r # s => sessions'[r] = ensured[r]
      BY <1>3, <2>2
    <3>2. QED
      BY <1>3, <1>7, <3>1 DEF CompletionsIn, PendingIn
  <2>3. QED
    BY <1>5, <2>1, <2>2
<1>9. TurnInOnePlace'
  <2>1. ASSUME NEW r \in SessionIds, NEW u \in TurnIds,
               NEW d \in CompletionsIn(sessions', r, u),
               NEW e \in CompletionsIn(sessions', r, u)
        PROVE  d = e
    BY <1>4, <1>8 DEF TurnInOnePlace
  <2>2. active_turn # NoTurn =>
           /\ active_turn.session # s \/ active_turn.turn # t
           /\ CompletionsIn(sessions, active_turn.session, active_turn.turn) = {}
           /\ ~PendingIn(sessions, active_turn.session, active_turn.turn)
    BY <1>2 DEF TurnInOnePlace, IsActive
  <2>3. active_turn' = active_turn
    BY <1>2
  <2>4. active_turn' # NoTurn =>
           /\ CompletionsIn(sessions', active_turn'.session, active_turn'.turn) = {}
           /\ ~PendingIn(sessions', active_turn'.session, active_turn'.turn)
    BY <1>4, <1>8, <2>2, <2>3
  <2>5. QED
    BY <2>1, <2>4 DEF TurnInOnePlace
<1>10. Contract!Remembered(Evicted(s))[s][t].phase \in {"unknown", "promised"}
  BY <1>2, RememberedOf, StatusShape DEF Contract!Unknown
<1>11. StatusOf(s, t)' = Contract!Promised
  <2>1. ~IsActive(s, t)' /\ CompletionsIn(sessions', s, t) = {}
    BY <1>2, <1>4, <1>8 DEF IsActive
  <2>2. QED
    BY <1>8, <2>1, StatusShapeNext DEF Contract!Promised
<1>12. PICK F \in Contract!Forgettable : F = Evicted(s)
  BY <1>1, <1>2, EvictedForgettable
<1>13. ASSUME NEW r \in SessionIds, NEW u \in TurnIds, r # s \/ u # t
       PROVE  IF r \in F THEN Forgotten(r, u) ELSE StaysPut(r, u)
  <2>1. UNCHANGED <<active_turn, pc, job>>
    BY <1>2 DEF futures
  <2>2. r \in F => ~IsActive(r, u)
    BY <1>1, <1>2, <1>12, EvictedIsIdle DEF IsActive, ActiveIn
  <2>3. /\ CompletionsIn(sessions', r, u)
             = IF r \in F THEN {} ELSE CompletionsIn(sessions, r, u)
        /\ PendingIn(sessions', r, u) <=> r \notin F /\ PendingIn(sessions, r, u)
    BY <1>4, <1>8, <1>12, <1>13
  <2>4. QED
    BY <2>1, <2>2, <2>3 DEF StaysPut, Forgotten, IsActive, Runner
<1>14. F \in SUBSET SessionIds
  BY DEF Contract!Forgettable
<1>15. Contract!Become(F, s, t, Contract!Promised)
  BY <1>11, <1>13, <1>14, BecomesStatus
<1>16. Contract!AcceptCancel(F, s, t)
  BY <1>2, <1>10, <1>12, <1>15, ContractValues
     DEF Contract!AcceptCancel, Contract!Tell, Contract!AnswersBut
<1>17. QED
  BY <1>9, <1>12, <1>16 DEF Contract!ContractNext

\* The completion guard, whether the future finished or was dropped.
LEMMA SealTurnStep ==
    ASSUME LedgerInv, TurnInOnePlace, NEW k \in Tasks, NEW o \in Terminals,
           pc[k] \in {"running", "proposed"}, SealTurn(k, o),
           active_turn.cancelled => o = Cancelled,
           \/ answers' = answers
           \/ answers' = answers \cup
                {Answer(job[k].session, job[k].turn, job[k].input, o)}
    PROVE  TurnInOnePlace' /\ Contract!ContractNext
<1>1. PICK s \in SessionIds, t \in TurnIds, i \in Inputs :
         job[k] = [session |-> s, turn |-> t, input |-> i]
  BY DEF LedgerInv, TypeOK, ActiveTurnOwned, Jobs
<1> DEFINE c == [turn |-> t, input |-> i, terminal |-> o]
<1>2. TypeOK /\ s \in DOMAIN sessions /\ IsActive(s, t) /\ Runner = k
  BY <1>1, RunnerOwns DEF LedgerInv, ActiveTurnOwned, GuardMatches
<1>3. sessions[s] \in SessionStates
  BY <1>2 DEF TypeOK
<1>4. CompletionsIn(sessions, s, t) = {}
  BY <1>2 DEF TurnInOnePlace, IsActive
<1>5. /\ DOMAIN sessions' = DOMAIN sessions
      /\ sessions'[s] = Record(sessions[s], t, i, o)
      /\ \A r \in DOMAIN sessions : r # s => sessions'[r] = sessions[r]
      /\ active_turn' = NoTurn
  BY <1>1, <1>2 DEF SealTurn
<1>6. /\ CompletionsIn(sessions', s, t) = {c}
      /\ \A r, u : r # s \/ u # t =>
            CompletionsIn(sessions', r, u) = CompletionsIn(sessions, r, u)
  BY <1>2, <1>3, <1>4, <1>5, RecordPlaces
<1>7. \A r, u : PendingIn(sessions', r, u) <=> PendingIn(sessions, r, u)
  BY <1>2, <1>3, <1>5, RecordType DEF PendingIn
<1>8. TurnInOnePlace'
  <2>1. ASSUME NEW r \in SessionIds, NEW u \in TurnIds,
               NEW d \in CompletionsIn(sessions', r, u),
               NEW e \in CompletionsIn(sessions', r, u)
        PROVE  d = e
    BY <1>6 DEF TurnInOnePlace
  <2>2. QED
    BY <1>5, <2>1 DEF TurnInOnePlace
<1>9. StatusOf(s, t) = [phase |-> "running", input |-> i,
                        cancelled |-> active_turn.cancelled]
  BY <1>1, <1>2, <1>4, StatusShape
<1>10. StatusOf(s, t)' = [phase |-> "sealed", input |-> i, terminal |-> o]
  <2>1. c.input = i /\ c.terminal = o
    OBVIOUS
  <2> HIDE DEF c
  <2>2. QED
    BY <1>6, <2>1, StatusSealed
<1>11. \A r \in SessionIds, u \in TurnIds : (r # s \/ u # t) => StaysPut(r, u)
  BY <1>2, <1>5, <1>6, <1>7 DEF StaysPut, IsActive
<1>12. Contract!Become({}, s, t, Contract!Sealed(i, o))
  BY <1>10, <1>11, BecomesStatus DEF Contract!Sealed
<1>13. Contract!Seal(s, t, o)
  BY <1>1, <1>9, <1>12, ContractValues DEF Contract!Seal, Contract!Tell, Contract!AnswersBut
<1>14. QED
  BY <1>8, <1>13, ContractValues DEF Contract!ContractNext

-----------------------------------------------------------------------------
(* The refinement.                                                         *)

LEMMA ClientsStep ==
    ASSUME LedgerInv, LedgerInv', TurnInOnePlace, Clients
    PROVE  TurnInOnePlace' /\ Contract!ContractNext
<1>1. PICK s \in SessionIds, t \in TurnIds :
        \/ \E i \in Inputs : \/ SubmitReplay(s, t, i)
                             \/ SubmitCancelled(s, t, i)
                             \/ SubmitOverContext(s, t, i)
                             \/ \E k \in Tasks : SubmitAdmit(k, s, t, i)
        \/ CancelSealed(s, t)
        \/ CancelActive(s, t)
        \/ CancelEarly(s, t)
  BY DEF Clients
<1>2. ASSUME NEW i \in Inputs, SubmitReplay(s, t, i)
      PROVE  TurnInOnePlace' /\ Contract!ContractNext
  BY <1>2, RepeatStep DEF SubmitReplay
<1>3. CASE CancelSealed(s, t)
  BY <1>3, RepeatStep DEF CancelSealed
<1>4. QED
  BY <1>1, <1>2, <1>3, SubmitCancelledStep, SubmitOverContextStep, SubmitAdmitStep,
     CancelActiveStep, CancelEarlyStep

LEMMA TasksStep ==
    ASSUME LedgerInv, LedgerInv', TurnInOnePlace, NEW k \in Tasks,
           TaskStep(k) \/ SelectProvider(k) \/ Abort(k)
    PROVE  TurnInOnePlace' /\ [Contract!ContractNext]_(Contract!contractVars)
<1>1. ASSUME NEW o, SelectTerminal(k, o)
      PROVE  TurnInOnePlace' /\ [Contract!ContractNext]_(Contract!contractVars)
  <2>1. \A j \in Tasks : pc[j] \in {"running", "proposed"} =>
           pc'[j] \in {"running", "proposed"} /\ job'[j] = job[j]
    BY <1>1 DEF SelectTerminal, LedgerInv, TypeOK
  <2>2. QED
    BY <1>1, <2>1, QuietStep DEF SelectTerminal
<1>2. CASE NotifyWaiters(k)
  <2>1. \A j \in Tasks : pc[j] \in {"running", "proposed"} =>
           pc'[j] \in {"running", "proposed"} /\ job'[j] = job[j]
    BY <1>2 DEF NotifyWaiters, LedgerInv, TypeOK
  <2>2. QED
    BY <1>2, <2>1, QuietStep DEF NotifyWaiters
<1>3. CASE Complete(k)
  <2>1. Sealing(k) \in Terminals /\ (active_turn.cancelled => Sealing(k) = Cancelled)
    BY TerminalTypes DEF Sealing, LedgerInv, TypeOK
  <2>2. QED
    BY <1>3, <2>1, SealTurnStep DEF Complete
<1>4. CASE Abort(k)
  BY <1>4, TerminalTypes, SealTurnStep DEF Abort
<1>5. QED
  BY <1>1, <1>2, <1>3, <1>4 DEF TaskStep, SelectCancelled, SelectDeadline, SelectProvider

\* The owner may cancel the active turn, and tells no client.
LEMMA OwnersStep ==
    ASSUME LedgerInv, LedgerInv', TurnInOnePlace, Owner \/ WaiterStep
    PROVE  TurnInOnePlace' /\ [Contract!ContractNext]_(Contract!contractVars)
<1>1. /\ UNCHANGED <<ledger, futures, answers>>
      /\ active_turn' \in {active_turn, Flagged}
  BY DEF Owner, WaiterStep, ServiceStart, CardStart, CardStop, CardStopLate,
         ServiceStopCreated, ServiceStop, Drop, OwnerDeadline, WaiterArm, WaiterCheck,
         WaiterWake, ServiceStopped
<1>2. CASE active_turn' = active_turn
  <2>1. UNCHANGED <<pc, job>>
    BY <1>1 DEF futures
  <2>2. QED
    BY <1>1, <1>2, <2>1, QuietStep
<1>3. CASE active_turn' = Flagged /\ active_turn = NoTurn
  BY <1>2, <1>3 DEF Flagged
<1>4. CASE active_turn' = Flagged /\ active_turn # NoTurn
  <2>1. PICK s, t : IsActive(s, t)
    BY <1>4 DEF IsActive
  <2>2. /\ TurnInOnePlace' /\ s \in SessionIds /\ t \in TurnIds
        /\ StatusOf(s, t).phase = "running"
        /\ Contract!Become({}, s, t, Contract!Running(StatusOf(s, t).input, TRUE))
    BY <1>1, <1>4, <2>1, FlagStatus
  <2>3. Contract!Interrupt(s, t)
    BY <1>1, <2>2 DEF Contract!Interrupt, Contract!Tell, Contract!AnswersBut
  <2>4. QED
    BY <2>2, <2>3 DEF Contract!ContractNext
<1>5. QED
  BY <1>1, <1>2, <1>3, <1>4

LEMMA ContractStep ==
    LedgerInv /\ LedgerInv' /\ TurnInOnePlace /\ [Next]_vars
        => TurnInOnePlace' /\ [Contract!ContractNext]_(Contract!contractVars)
<1> SUFFICES ASSUME LedgerInv, LedgerInv', TurnInOnePlace, [Next]_vars
             PROVE  TurnInOnePlace' /\ [Contract!ContractNext]_(Contract!contractVars)
  OBVIOUS
<1>1. CASE Next
  BY <1>1, ClientsStep, TasksStep, OwnersStep DEF Next
<1>2. CASE UNCHANGED vars
  <2>1. UNCHANGED <<ledger, active_turn, answers, pc, job>>
    BY <1>2 DEF vars, ledger
  <2>2. QED
    BY <2>1, QuietStep
<1>3. QED
  BY <1>1, <1>2

LEMMA ContractStart == Init => TurnInOnePlace /\ Contract!ContractInit
<1> SUFFICES ASSUME Init
             PROVE  TurnInOnePlace /\ Contract!ContractInit
  OBVIOUS
<1>1. \A r, u : CompletionsIn(sessions, r, u) = {} /\ ~PendingIn(sessions, r, u)
  BY DEF Init, CompletionsIn, PendingIn
<1>2. TurnInOnePlace
  BY <1>1 DEF TurnInOnePlace, Init
<1>3. \A r \in SessionIds, u \in TurnIds : StatusOf(r, u) = Contract!Unknown
  BY <1>1, StatusShape DEF Init, IsActive, Contract!Unknown
<1>4. QED
  BY <1>2, <1>3 DEF Contract!ContractInit, Init

\* A turn is never recorded twice, and while it is active it has neither a
\* record nor a tombstone: submit_turn, cancel and the guard look at the
\* three places in an order that leaves a turn in one of them.
THEOREM ServiceTurnInOnePlace == Spec => []TurnInOnePlace
<1>1. Init => TurnInOnePlace
  BY ContractStart
<1>2. LedgerInv /\ LedgerInv' /\ TurnInOnePlace /\ [Next]_vars => TurnInOnePlace'
  BY ContractStep
<1>3. QED
  BY <1>1, <1>2, LedgerInvariant, PTL DEF Spec

\* The Agent service implements the conversation contract: every locked
\* section of submit_turn, cancel, the completion guard and the owner's calls
\* is one step of the contract, or changes nothing a client could tell.
THEOREM ServiceImplementsContract == Spec => ImplementsContract
<1>1. Init => Contract!ContractInit
  BY ContractStart
<1>2. LedgerInv /\ LedgerInv' /\ TurnInOnePlace /\ [Next]_vars
         => [Contract!ContractNext]_(Contract!contractVars)
  BY ContractStep
<1>3. QED
  BY <1>1, <1>2, LedgerInvariant, ServiceTurnInOnePlace, PTL
     DEF Spec, ImplementsContract, Contract!ContractSpec
=============================================================================
