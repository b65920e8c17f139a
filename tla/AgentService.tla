---------------------------- MODULE AgentService ----------------------------
(***************************************************************************)
(* The Agent CoreService: its bounded Session ledger, the one active turn, *)
(* the futures that run turns, and the owner that starts and stops the     *)
(* service and its Card.                                                   *)
(*                                                                         *)
(* Every section of the code that holds the state mutex is one action.     *)
(* What happens between two sections is a step of its own, so that clients *)
(* and the owner interleave with it: the select! that races cancellation,  *)
(* provider and deadline; the completion guard; notify_waiters(); and each *)
(* part of wait_until_idle().                                              *)
(*                                                                         *)
(* A call that returns an error leaves the state as it was (the service    *)
(* busy, a full ledger, a conflicting input, no admission, NotActive), so  *)
(* it is a stuttering step and has no action.                              *)
(*                                                                         *)
(* A definition marked "Slip" is a mistake the code could have made; it is *)
(* used only to see that a property notices it.                            *)
(***************************************************************************)

EXTENDS ConversationTypes, Naturals, FiniteSets, SequencesExt

CONSTANTS
    Cards,               \* AgentCards whose definition the provider matches
    Tasks,               \* submit_turn futures that can be past admission
    MAX_SESSIONS,
    MAX_RETAINED_TURNS,  \* MAX_RETAINED_TURNS_PER_SESSION
    MAX_CONTEXT,         \* MAX_MODEL_CONTEXT_BYTES
    PROMPT_BYTES,        \* size of the system prompt
    Bytes,               \* size of each input and content
    Oversized,           \* contents that do not fit the wire response
    ProviderResults,     \* what CompletionProvider::complete can return
    NoTurn,              \* active_turn is None
    NoProfile            \* active_profile is None

ASSUME LimitsAssumption ==
    /\ MAX_SESSIONS \in Nat \ {0}
    /\ MAX_RETAINED_TURNS \in Nat \ {0}
    /\ MAX_CONTEXT \in Nat
    /\ PROMPT_BYTES \in Nat

ASSUME ProviderAssumption ==
    /\ Bytes \in [Inputs \cup Contents -> Nat]
    /\ Oversized \subseteq Contents
    /\ ProviderResults \subseteq {o \in Terminals : o.kind \in {"Final", "Failed"}}

ActiveTurns == [session : SessionIds, turn : TurnIds, cancelled : BOOLEAN]
Jobs == [session : SessionIds, turn : TurnIds, input : Inputs]

ASSUME NoneAssumption ==
    /\ NoTurn \notin ActiveTurns \cup Jobs
    /\ NoProfile \notin Cards

VARIABLES
    lifecycle,           \* ServiceLifecycle
    active_profile,      \* the Card that owns the active profile
    sessions,            \* the retained Sessions
    session_order,       \* their ids, the oldest first
    active_turn,         \* the admitted turn and its cancellation flag
    active_instance,     \* Cards whose AgentCard.active_instance is Some
    pc,                  \* where each submit_turn future is
    job,                 \* the turn it was admitted with
    context,             \* what it gives the model
    proposed,            \* the terminal its select! came to
    owner,               \* the lifecycle call in progress, and its place
    woken,               \* notify_waiters() since that call armed Notified
    given_up,            \* (history) the deadline dropped a stop() that waited
                         \* for the active turn
    answers              \* (history) what clients were told

ledger == <<sessions, session_order>>
futures == <<pc, job, context, proposed>>
owned == <<active_instance, owner, woken, given_up>>
vars == <<lifecycle, active_profile, sessions, session_order, active_turn,
          active_instance, pc, job, context, proposed, owner, woken,
          given_up, answers>>

-----------------------------------------------------------------------------
(* Types.                                                                  *)

CompletedTurns == [turn : TurnIds, input : Inputs, terminal : Terminals]
SessionStates == [turns : Seq(CompletedTurns), pending : Seq(TurnIds)]
OwnerCalls == [call : {"none", "card", "service", "dropped"},
               phase : {"none", "arm", "check", "wait", "finish"}]

IdleOwner == [call |-> "none", phase |-> "none"]
EmptySession == [turns |-> <<>>, pending |-> <<>>]
TimedOut == [kind |-> "TimedOut", detail |-> "none"]
Failed(reason) == [kind |-> "Failed", detail |-> reason]

TypeOK ==
    /\ lifecycle \in {"Created", "Running", "Stopping", "Stopped"}
    /\ active_profile \in Cards \cup {NoProfile}
    /\ DOMAIN sessions \subseteq SessionIds
    /\ \A s \in DOMAIN sessions : sessions[s] \in SessionStates
    /\ session_order \in Seq(SessionIds)
    /\ active_turn \in ActiveTurns \cup {NoTurn}
    /\ active_instance \subseteq Cards
    /\ pc \in [Tasks -> {"idle", "running", "proposed", "notify"}]
    /\ job \in [Tasks -> Jobs \cup {NoTurn}]
    /\ DOMAIN context = Tasks
    /\ proposed \in [Tasks -> Terminals]
    /\ owner \in OwnerCalls
    /\ woken \in BOOLEAN
    /\ given_up \in BOOLEAN
    /\ answers \subseteq Answers

-----------------------------------------------------------------------------
(* The ledger of Sessions.                                                 *)

Completions(s) == IF s \in DOMAIN sessions THEN ToSet(sessions[s].turns) ELSE {}
CompletionsOf(s, t) == {c \in Completions(s) : c.turn = t}
IsPending(s, t) == s \in DOMAIN sessions /\ t \in ToSet(sessions[s].pending)
IsActive(s, t) == /\ active_turn # NoTurn
                  /\ active_turn.session = s
                  /\ active_turn.turn = t
ActiveIn(s) == active_turn # NoTurn /\ active_turn.session = s

\* ensure_session: a new Session takes the place of the oldest that runs nothing.
Evictable(p) == ~ActiveIn(session_order[p])
MustEvict(s) == s \notin DOMAIN sessions /\ Cardinality(DOMAIN sessions) = MAX_SESSIONS
EvictPosition == SelectInSeq(session_order, LAMBDA s : ~ActiveIn(s))
CanEnsure(s) == MustEvict(s) => \E p \in DOMAIN session_order : Evictable(p)
Evicted(s) == IF MustEvict(s) THEN {session_order[EvictPosition]} ELSE {}

EnsuredSessions(s) ==
    [r \in (DOMAIN sessions \ Evicted(s)) \cup {s} |->
        IF r \in DOMAIN sessions THEN sessions[r] ELSE EmptySession]
EnsuredOrder(s) ==
    IF s \in DOMAIN sessions THEN session_order
    ELSE Append(IF MustEvict(s) THEN RemoveAt(session_order, EvictPosition)
                                ELSE session_order, s)

Retained(s, session) ==
    Len(session.turns) + Len(session.pending) + (IF ActiveIn(s) THEN 1 ELSE 0)
SlotWithoutActive(s, session) ==       \* Slip: no slot reserved for the active turn
    Len(session.turns) + Len(session.pending) < MAX_RETAINED_TURNS
HasTurnSlot(s, session) == Retained(s, session) < MAX_RETAINED_TURNS

Redeemed(session, t) == [session EXCEPT !.pending = RemoveFirst(@, t)]
Record(session, t, i, o) ==
    [session EXCEPT !.turns = Append(@, [turn |-> t, input |-> i, terminal |-> o])]

\* What clients were told about a Session is void once it is evicted.
Told(s, told) == answers' = {a \in answers : a.session \notin Evicted(s)} \cup told

-----------------------------------------------------------------------------
(* The context a turn is run with: earlier questions and their answers.    *)

QuestionsOfAllTurns(turns) ==          \* Slip: asked, whatever came of it
    FoldLeft(LAMBDA messages, c : IF c.terminal.kind = "Final"
                                  THEN messages \o <<c.input, c.terminal.detail>>
                                  ELSE Append(messages, c.input),
             <<>>, turns)
History(turns) ==
    FoldLeft(LAMBDA messages, c : IF c.terminal.kind = "Final"
                                  THEN messages \o <<c.input, c.terminal.detail>>
                                  ELSE messages,
             <<>>, turns)
ModelContext(session, i) == Append(History(session.turns), i)
ContextFits(messages) ==
    FoldLeft(LAMBDA total, m : total + Bytes[m], PROMPT_BYTES, messages) <= MAX_CONTEXT

RelabelledOnly(o) ==                   \* Slip: the oversized text stays
    IF o.kind = "Final" /\ o.detail \in Oversized THEN [o EXCEPT !.kind = "Failed"] ELSE o
WireSafe(o) == IF o.kind = "Final" /\ o.detail \in Oversized
               THEN Failed("InvalidProviderResponse") ELSE o

-----------------------------------------------------------------------------
(* AgentHandle::submit_turn up to the end of its first locked section.     *)

Init ==
    /\ lifecycle = "Created"
    /\ active_profile = NoProfile
    /\ sessions = [s \in {} |-> EmptySession]
    /\ session_order = <<>>
    /\ active_turn = NoTurn
    /\ active_instance = {}
    /\ pc = [k \in Tasks |-> "idle"]
    /\ job = [k \in Tasks |-> NoTurn]
    /\ context = [k \in Tasks |-> <<>>]
    /\ proposed = [k \in Tasks |-> Cancelled]
    /\ owner = IdleOwner
    /\ woken = FALSE
    /\ given_up = FALSE
    /\ answers = {}

Admission == lifecycle = "Running" /\ active_profile # NoProfile

\* A retry of a sealed turn is told the stored terminal.
SubmitReplay(s, t, i) ==
    /\ Admission
    /\ \E c \in CompletionsOf(s, t) :
        /\ c.input = i
        /\ answers' = answers \cup {Answer(s, t, i, c.terminal)}
    /\ UNCHANGED <<lifecycle, active_profile, ledger, active_turn, futures, owned>>

\* A turn cancelled before it was submitted is sealed at once, even while
\* another turn is active.
SubmitCancelled(s, t, i) ==
    /\ Admission
    /\ CompletionsOf(s, t) = {}
    /\ IsPending(s, t)
    /\ sessions' = [sessions EXCEPT ![s] =
                        Record(Redeemed(@, t), t, i, Cancelled)]
    /\ answers' = answers \cup {Answer(s, t, i, Cancelled)}
    /\ UNCHANGED <<lifecycle, active_profile, session_order, active_turn, futures, owned>>

\* A new turn finds the service free, and its Session, or a new one, has room.
Submittable(s, t) ==
    /\ Admission
    /\ CompletionsOf(s, t) = {}
    /\ ~IsPending(s, t)
    /\ active_turn = NoTurn
    /\ CanEnsure(s)
    /\ HasTurnSlot(s, EnsuredSessions(s)[s])

SubmitOverContext(s, t, i) ==
    /\ Submittable(s, t)
    /\ ~ContextFits(ModelContext(EnsuredSessions(s)[s], i))
    /\ sessions' = [EnsuredSessions(s) EXCEPT ![s] =
                        Record(@, t, i, Failed("ContextLimit"))]
    /\ session_order' = EnsuredOrder(s)
    /\ Told(s, {Answer(s, t, i, Failed("ContextLimit"))})
    /\ UNCHANGED <<lifecycle, active_profile, active_turn, futures, owned>>

SubmitAdmit(k, s, t, i) ==
    /\ pc[k] = "idle"
    /\ Submittable(s, t)
    /\ LET messages == ModelContext(EnsuredSessions(s)[s], i)
       IN  /\ ContextFits(messages)
           /\ context' = [context EXCEPT ![k] = messages]
    /\ job' = [job EXCEPT ![k] = [session |-> s, turn |-> t, input |-> i]]
    /\ active_turn' = [session |-> s, turn |-> t, cancelled |-> FALSE]
    /\ pc' = [pc EXCEPT ![k] = "running"]
    /\ sessions' = EnsuredSessions(s)
    /\ session_order' = EnsuredOrder(s)
    /\ Told(s, {})
    /\ UNCHANGED <<lifecycle, active_profile, proposed, owned>>

-----------------------------------------------------------------------------
(* AgentHandle::cancel.  Its handle is a Weak: once the service is dropped *)
(* only the futures still running keep the state reachable.                *)

Upgradable == owner.call # "dropped" \/ \E k \in Tasks : pc[k] # "idle"

CancelSealed(s, t) ==
    /\ Upgradable
    /\ \E c \in CompletionsOf(s, t) :
        answers' = answers \cup {Answer(s, t, "cancel", c.terminal)}
    /\ UNCHANGED <<lifecycle, active_profile, ledger, active_turn, futures, owned>>

CancelActive(s, t) ==
    /\ Upgradable
    /\ CompletionsOf(s, t) = {}
    /\ IsActive(s, t)
    /\ active_turn' = [active_turn EXCEPT !.cancelled = TRUE]
    /\ answers' = answers \cup {Answer(s, t, "cancel", CancellationRequested)}
    /\ UNCHANGED <<lifecycle, active_profile, ledger, futures, owned>>

\* The turn is unknown: a tombstone waits for its submission.
CancelEarly(s, t) ==
    /\ CompletionsOf(s, t) = {}
    /\ ~IsActive(s, t)
    /\ Admission
    /\ CanEnsure(s)
    /\ LET ensured == EnsuredSessions(s)
       IN  \/ /\ IsPending(s, t)
              /\ sessions' = ensured
           \/ /\ ~IsPending(s, t)
              /\ HasTurnSlot(s, ensured[s])
              /\ sessions' = [ensured EXCEPT ![s].pending = Append(@, t)]
    /\ session_order' = EnsuredOrder(s)
    /\ Told(s, {Answer(s, t, "cancel", CancellationRequested)})
    /\ UNCHANGED <<lifecycle, active_profile, active_turn, futures, owned>>

-----------------------------------------------------------------------------
(* The rest of submit_turn.  The future can only be dropped while it waits *)
(* in select!; from there on it runs to its end without an await.          *)

SelectTerminal(k, o) ==
    /\ pc[k] = "running"
    /\ pc' = [pc EXCEPT ![k] = "proposed"]
    /\ proposed' = [proposed EXCEPT ![k] = WireSafe(o)]
    /\ UNCHANGED <<lifecycle, active_profile, ledger, active_turn, job, context, owned,
                   answers>>

SelectCancelled(k) == /\ pc[k] = "running"
                      /\ active_turn.cancelled
                      /\ SelectTerminal(k, Cancelled)
SelectProvider(k) == \E o \in ProviderResults : SelectTerminal(k, o)
NoDeadline(k) == FALSE                 \* Slip: waits for the provider only
SelectDeadline(k) == SelectTerminal(k, TimedOut)

GuardMatches(k) == IsActive(job[k].session, job[k].turn)

\* The active turn's slot is released and its terminal recorded.
SealTurn(k, o) ==
    /\ GuardMatches(k)
    /\ active_turn' = NoTurn
    /\ sessions' = [sessions EXCEPT ![job[k].session] =
                        Record(@, job[k].turn, job[k].input, o)]
    /\ pc' = [pc EXCEPT ![k] = "notify"]
    /\ given_up' = FALSE
    /\ UNCHANGED <<lifecycle, active_profile, session_order, job, context,
                   active_instance, owner, woken>>

SealProposed(k) == proposed[k]         \* Slip: the select! has the last word
\* ActiveTurnGuard::complete looks at the cancellation again under the lock.
Sealing(k) == IF active_turn.cancelled \/ ~Admission THEN Cancelled ELSE proposed[k]

Complete(k) ==
    /\ pc[k] = "proposed"
    /\ SealTurn(k, Sealing(k))
    /\ proposed' = [proposed EXCEPT ![k] = Cancelled]
    /\ answers' = answers \cup
           {Answer(job[k].session, job[k].turn, job[k].input, Sealing(k))}

AbortSilently(k) ==                    \* Slip: sealed without notify_waiters()
    /\ pc[k] = "running"
    /\ GuardMatches(k)
    /\ active_turn' = NoTurn
    /\ sessions' = [sessions EXCEPT ![job[k].session] =
                        Record(@, job[k].turn, job[k].input, Cancelled)]
    /\ pc' = [pc EXCEPT ![k] = "idle"]
    /\ given_up' = FALSE
    /\ UNCHANGED <<lifecycle, active_profile, session_order, job, context,
                   active_instance, owner, woken, proposed, answers>>

AbortUnguarded(k) ==                   \* Slip: no guard, the turn is left to nobody
    /\ pc[k] = "running"
    /\ pc' = [pc EXCEPT ![k] = "idle"]
    /\ UNCHANGED <<lifecycle, active_profile, ledger, active_turn, job, context, owned,
                   proposed, answers>>
\* The future is dropped: Drop for ActiveTurnGuard seals the turn.
Abort(k) ==
    /\ pc[k] = "running"
    /\ SealTurn(k, Cancelled)
    /\ UNCHANGED <<proposed, answers>>

NotifyWaiters(k) ==
    /\ pc[k] = "notify"
    /\ pc' = [pc EXCEPT ![k] = "idle"]
    /\ job' = [job EXCEPT ![k] = NoTurn]
    /\ context' = [context EXCEPT ![k] = <<>>]
    /\ woken' = (woken \/ owner.phase \in {"check", "wait"})
    /\ UNCHANGED <<lifecycle, active_profile, ledger, active_turn, proposed,
                   active_instance, owner, given_up, answers>>

-----------------------------------------------------------------------------
(* The owner.  CoreService and CardImplementation take &mut self and the   *)
(* Runtime awaits one lifecycle call at a time.  Cards may be started and  *)
(* stopped in any order here; the Runtime's order is a special case.       *)

Idle == owner = IdleOwner
Unflagged == active_turn                \* Slip: the turn is left to itself
Flagged == IF active_turn = NoTurn THEN NoTurn
           ELSE [active_turn EXCEPT !.cancelled = TRUE]

ServiceStart ==
    /\ Idle
    /\ lifecycle = "Created"
    /\ lifecycle' = "Running"
    /\ UNCHANGED <<active_profile, ledger, active_turn, futures, owned, answers>>

CardStart(c) ==
    /\ Idle
    /\ lifecycle = "Running"
    /\ active_profile = NoProfile
    /\ active_profile' = c
    /\ active_instance' = active_instance \cup {c}
    /\ UNCHANGED <<lifecycle, ledger, active_turn, futures, owner, woken, given_up,
                   answers>>

\* deactivate_profile by the Card that owns the profile.
CardStop(c) ==
    /\ Idle
    /\ c \in active_instance
    /\ active_profile = c
    /\ active_instance' = active_instance \ {c}
    /\ active_profile' = NoProfile
    /\ active_turn' = Flagged
    /\ owner' = [call |-> "card", phase |-> "arm"]
    /\ UNCHANGED <<lifecycle, ledger, futures, woken, given_up, answers>>

\* The service was stopped first: nothing is left to deactivate.
CardStopLate(c) ==
    /\ Idle
    /\ c \in active_instance
    /\ active_profile = NoProfile
    /\ active_instance' = active_instance \ {c}
    /\ UNCHANGED <<lifecycle, active_profile, ledger, active_turn, futures,
                   owner, woken, given_up, answers>>

ServiceStopCreated ==
    /\ Idle
    /\ lifecycle = "Created"
    /\ lifecycle' = "Stopped"
    /\ UNCHANGED <<active_profile, ledger, active_turn, futures, owned, answers>>

ServiceStop ==
    /\ Idle
    /\ lifecycle \in {"Running", "Stopping"}
    /\ lifecycle' = "Stopping"
    /\ active_profile' = NoProfile
    /\ active_turn' = Flagged
    /\ owner' = [call |-> "service", phase |-> "arm"]
    /\ UNCHANGED <<ledger, active_instance, futures, woken, given_up, answers>>

\* Drop for AgentService.  A call in progress was dropped before it.
Drop ==
    /\ Idle
    /\ lifecycle' = "Stopped"
    /\ active_profile' = NoProfile
    /\ active_turn' = Flagged
    /\ owner' = [call |-> "dropped", phase |-> "none"]
    /\ UNCHANGED <<ledger, active_instance, futures, woken, given_up, answers>>

-----------------------------------------------------------------------------
(* wait_until_idle, run by the call in progress.                           *)

MoveTo(phase) == owner' = [owner EXCEPT !.phase = phase]

\* idle.notified() comes before the look at active_turn: a notification
\* between the two still wakes the waiter.
WaiterArm ==
    /\ owner.phase = "arm"
    /\ MoveTo("check")
    /\ woken' = FALSE
    /\ UNCHANGED <<lifecycle, active_profile, ledger, active_turn,
                   active_instance, futures, given_up, answers>>

WaiterCheck ==
    /\ owner.phase = "check"
    /\ \/ active_turn # NoTurn /\ MoveTo("wait")
       \/ active_turn = NoTurn /\ owner.call = "service" /\ MoveTo("finish")
       \/ active_turn = NoTurn /\ owner.call = "card" /\ owner' = IdleOwner
    /\ UNCHANGED <<lifecycle, active_profile, ledger, active_turn,
                   active_instance, futures, woken, given_up, answers>>

WakeIsIdle ==                          \* Slip: any notification means idle
    /\ owner.phase = "wait"
    /\ woken
    /\ IF owner.call = "service" THEN MoveTo("finish") ELSE owner' = IdleOwner
    /\ UNCHANGED <<lifecycle, active_profile, ledger, active_turn,
                   active_instance, futures, woken, given_up, answers>>

WaiterWake ==
    /\ owner.phase = "wait"
    /\ woken
    /\ MoveTo("arm")
    /\ UNCHANGED <<lifecycle, active_profile, ledger, active_turn,
                   active_instance, futures, woken, given_up, answers>>

ServiceStopped ==
    /\ owner.phase = "finish"
    /\ lifecycle' = "Stopped"
    /\ owner' = IdleOwner
    /\ UNCHANGED <<active_profile, ledger, active_turn, active_instance,
                   futures, woken, given_up, answers>>

\* The Runtime's owner deadline drops the call while it waits.
OwnerDeadline ==
    /\ owner.phase = "wait"
    /\ owner' = IdleOwner
    /\ given_up' = (active_turn # NoTurn)
    /\ UNCHANGED <<lifecycle, active_profile, ledger, active_turn,
                   active_instance, futures, woken, answers>>

-----------------------------------------------------------------------------

Clients ==
    \E s \in SessionIds, t \in TurnIds :
        \/ \E i \in Inputs : \/ SubmitReplay(s, t, i)
                             \/ SubmitCancelled(s, t, i)
                             \/ SubmitOverContext(s, t, i)
                             \/ \E k \in Tasks : SubmitAdmit(k, s, t, i)
        \/ CancelSealed(s, t)
        \/ CancelActive(s, t)
        \/ CancelEarly(s, t)

\* The steps a submit_turn future takes whenever it is polled.
TaskStep(k) ==
    \/ SelectCancelled(k)
    \/ SelectDeadline(k)
    \/ Complete(k)
    \/ NotifyWaiters(k)

WaiterStep == WaiterArm \/ WaiterCheck \/ WaiterWake \/ ServiceStopped

Owner ==
    \/ ServiceStart
    \/ ServiceStopCreated
    \/ ServiceStop
    \/ Drop
    \/ OwnerDeadline
    \/ \E c \in Cards : CardStart(c) \/ CardStop(c) \/ CardStopLate(c)

Next ==
    \/ Clients
    \/ \E k \in Tasks : TaskStep(k) \/ SelectProvider(k) \/ Abort(k)
    \/ WaiterStep
    \/ Owner

Spec == Init /\ [][Next]_vars

\* A future in select! is always woken in the end: its deadline is a timer.
\* The tokio executor polls every woken task.  The provider may never answer.
FairSpec ==
    /\ Spec
    /\ \A k \in Tasks : WF_vars(TaskStep(k))
    /\ WF_vars(WaiterStep)

-----------------------------------------------------------------------------
(* Safety.                                                                 *)

\* What a Session keeps, together with the slot its active turn will need,
\* fits the per-Session limit, so record_completed_turn always finds room
\* although it is reached from four places and only some check first.
LedgerBounded ==
    \A s \in DOMAIN sessions : Retained(s, sessions[s]) <= MAX_RETAINED_TURNS

\* The active turn belongs to exactly one future past admission, its Session
\* is still retained, and no such future has lost its turn: eviction never
\* reaches it, and neither of complete()'s two ownership errors can happen.
ActiveTurnOwned ==
    /\ \A k \in Tasks : pc[k] \in {"running", "proposed"} =>
        /\ job[k] # NoTurn
        /\ GuardMatches(k)
        /\ job[k].session \in DOMAIN sessions
        /\ \A j \in Tasks : pc[j] \in {"running", "proposed"} => j = k
    /\ active_turn # NoTurn => \E k \in Tasks : pc[k] \in {"running", "proposed"}

\* A turn that has lost its Card, or its service, is already cancelled.
UnownedTurnCancelled ==
    (active_turn # NoTurn /\ ~Admission) => active_turn.cancelled

\* A service whose stop() completed runs no turn.  A Card whose stop()
\* completed left none behind either: while the service has no profile and no
\* stop is in progress a turn runs only if the deadline gave up waiting for
\* that very turn, so the next Card starts free of an earlier Card's turns.
StoppedIsDrained ==
    /\ (lifecycle = "Stopped" /\ owner.call # "dropped") => active_turn = NoTurn
    /\ (active_profile = NoProfile /\ owner.call = "none" /\ ~given_up)
           => active_turn = NoTurn

\* Every answered question of a Session with its answer, in order, and then
\* one more question.
Answered(turns) == {p \in DOMAIN turns : turns[p].terminal.kind = "Final"}
IsContext(messages, turns, i) ==
    /\ Len(messages) = 2 * Cardinality(Answered(turns)) + 1
    /\ \A p \in Answered(turns) :
        LET n == Cardinality({q \in Answered(turns) : q <= p})
        IN  /\ messages[2 * n - 1] = turns[p].input
            /\ messages[2 * n] = turns[p].terminal.detail
    /\ Last(messages) = i

\* While a turn runs, the model's context is every question its Session now
\* holds an answer to, each followed by that answer, in order, and then the
\* turn's own input: turns that end meanwhile (tombstones) add nothing to it,
\* and turns without an answer never do.
ContextIsHistory ==
    \A k \in Tasks : pc[k] \in {"running", "proposed"} =>
        IsContext(context[k], sessions[job[k].session].turns, job[k].input)

\* How far the owner's call can be from what the service looks like.
OwnerInStep ==
    /\ owner.call \in {"none", "dropped"} <=> owner.phase = "none"
    /\ owner.phase = "finish" => active_turn = NoTurn /\ owner.call = "service"
    /\ owner.call = "service" => lifecycle = "Stopping"
    /\ lifecycle = "Created" => active_turn = NoTurn /\ active_profile = NoProfile
    /\ lifecycle # "Running" => active_profile = NoProfile
    /\ owner.call = "card" => active_profile = NoProfile
    /\ owner.call = "dropped" => lifecycle = "Stopped"

\* Inductive: the conjuncts of AgentServiceProofs.
LedgerInv ==
    /\ TypeOK
    /\ OwnerInStep
    /\ ActiveTurnOwned
    /\ LedgerBounded
    /\ UnownedTurnCancelled
    /\ StoppedIsDrained

-----------------------------------------------------------------------------
(* The service implements the conversation contract.                       *)

Runner == CHOOSE k \in Tasks : pc[k] \in {"running", "proposed"}

StatusOf(s, t) ==
    IF CompletionsOf(s, t) # {}
    THEN LET c == CHOOSE c \in CompletionsOf(s, t) : TRUE
         IN  [phase |-> "sealed", input |-> c.input, terminal |-> c.terminal]
    ELSE IF IsActive(s, t)
    THEN [phase |-> "running", input |-> job[Runner].input,
          cancelled |-> active_turn.cancelled]
    ELSE [phase |-> IF IsPending(s, t) THEN "promised" ELSE "unknown"]

Contract == INSTANCE ConversationContract WITH
    status <- [s \in SessionIds |-> [t \in TurnIds |-> StatusOf(s, t)]]

\* Every step of the service is a step of the contract or changes nothing a
\* client could tell.
ImplementsContract == Contract!ContractSpec

-----------------------------------------------------------------------------
(* Liveness.                                                               *)

\* An admitted turn ends and its future finishes, whatever the provider does.
TurnsEnd == \A k \in Tasks : pc[k] # "idle" ~> pc[k] = "idle"

\* A stop() that waits for the active turn returns: the wakeup of the turn
\* that ends while the owner is between its look and its await is not lost.
StopsReturn == owner.phase # "none" ~> owner.phase = "none"
=============================================================================
