----------------------------- MODULE RuntimeHost -----------------------------
(***************************************************************************)
(* The RuntimeHost of a Node: it starts its CoreServices in order and then *)
(* the Cards of its Deck, stops them in the reverse order, undoes a start  *)
(* that fails halfway, and publishes what it did in a snapshot that status *)
(* readers of other tasks see between any two of its writes.               *)
(*                                                                         *)
(* start() and stop() are the calls of one owner (&mut self).  Between two *)
(* writes of the snapshot, and between two awaits, is one step.  A call to *)
(* a CoreService or a Card returns Ok, returns an error, or is abandoned   *)
(* at the owner deadline; what these callees keep is modelled by the       *)
(* contract of the two traits: a start error leaves nothing behind, an     *)
(* abandoned start may.  A call in the wrong state returns                 *)
(* InvalidTransition and changes nothing.                                  *)
(*                                                                         *)
(* A definition marked "Slip" is a mistake the code could have made; it is *)
(* used only to see that a property notices it.                            *)
(***************************************************************************)

EXTENDS Integers

CONSTANTS
    ServiceCount,        \* core_services.len()
    CardCount,           \* Cards of the Deck
    HasDeck,             \* RuntimeHost::with_deck
    MAX_CORE_SERVICES

ASSUME BuildAssumption ==
    /\ MAX_CORE_SERVICES \in Nat
    /\ ServiceCount \in 0 .. MAX_CORE_SERVICES
    /\ CardCount \in Nat
    /\ HasDeck \in BOOLEAN
    /\ ~HasDeck => CardCount = 0

Services == 1 .. ServiceCount
Cards == 1 .. CardCount

VARIABLES
    state,               \* RuntimeHostSnapshot.state
    deck_run,            \* DeckRunSnapshot.state
    card_state,          \* CardInstanceSnapshot.state of each Card
    call,                \* the lifecycle call in progress
    phase,               \* what that call does next
    at,                  \* and to which CoreService or Card
    failures,            \* the LifecycleFailures it will report
    service,             \* what each CoreService holds
    card                 \* what each Card implementation holds

snapshot == <<state, deck_run, card_state>>
held == <<service, card>>
vars == <<state, deck_run, card_state, call, phase, at, failures, service, card>>

-----------------------------------------------------------------------------

LifecycleStates == {"Created", "Starting", "Ready", "Stopping", "Stopped", "Failed"}
Phases == {"idle", "start_service", "clean_service", "begin_card", "start_card",
           "begin_clean_card", "clean_card", "ready", "begin_deck_stop",
           "begin_stop_card", "stop_card", "stop_service", "finish"}
Results == {"Ok", "Owner", "TimedOut"}

\* Nothing, all it needs to run, some part of an abandoned start, nothing
\* again, or whatever a stop that failed has left.
Holdings == {"nothing", "running", "partial", "stopped", "stuck"}
Live == {"running", "partial"}

Failure(kind, index, action, result) ==
    [kind |-> kind, index |-> index, action |-> action, result |-> result]
Failures == [kind : {"CoreService", "Card"}, index : Nat, action : {"Start", "Stop"},
             result : Results \ {"Ok"}]

TypeOK ==
    /\ state \in LifecycleStates
    /\ deck_run \in LifecycleStates
    /\ card_state \in [Cards -> LifecycleStates]
    /\ call \in {"none", "start", "stop"}
    /\ phase \in Phases
    /\ at \in 0 .. (ServiceCount + CardCount + 1)
    /\ failures \subseteq Failures
    /\ service \in [Services -> Holdings]
    /\ card \in [Cards -> Holdings]

Init ==
    /\ state = "Created"
    /\ deck_run = "Created"
    /\ card_state = [c \in Cards |-> "Created"]
    /\ call = "none"
    /\ phase = "idle"
    /\ at = 0
    /\ failures = {}
    /\ service = [s \in Services |-> "nothing"]
    /\ card = [c \in Cards |-> "nothing"]

-----------------------------------------------------------------------------
(* invoke_owner: the outcome of one call under the deadline.               *)

AfterStart(result) == CASE result = "Ok" -> "running"
                        [] result = "Owner" -> "nothing"
                        [] result = "TimedOut" -> "partial"
AfterStop(result) == IF result = "Ok" THEN "stopped" ELSE "stuck"

FailuresWith(kind, action, result) ==
    IF result = "Ok" THEN failures
    ELSE failures \cup {Failure(kind, at, action, result)}

GoTo(p, i) == phase' = p /\ at' = i

-----------------------------------------------------------------------------
(* RuntimeHost::start.                                                     *)

StartCall ==
    /\ phase = "idle"
    /\ state = "Created"
    /\ state' = "Starting"
    /\ call' = "start"
    /\ GoTo("start_service", 1)
    /\ UNCHANGED <<deck_run, card_state, failures, held>>

\* Where unwinding starts when the start of number i failed: with those
\* before it.
LastStarted(i) == i - 1

StartService(result) ==
    /\ phase = "start_service"
    /\ at \in Services
    /\ service' = [service EXCEPT ![at] = AfterStart(result)]
    /\ failures' = FailuresWith("CoreService", "Start", result)
    /\ \/ result = "Ok" /\ GoTo("start_service", at + 1)
       \/ result = "Owner" /\ GoTo("stop_service", LastStarted(at))
       \/ result = "TimedOut" /\ GoTo("clean_service", at)
    /\ UNCHANGED <<snapshot, call, card>>

\* A start that was abandoned is stopped before the others are.
CleanService(result) ==
    /\ phase = "clean_service"
    /\ service' = [service EXCEPT ![at] = AfterStop(result)]
    /\ failures' = FailuresWith("CoreService", "Stop", result)
    /\ GoTo("stop_service", LastStarted(at))
    /\ UNCHANGED <<snapshot, call, card>>

ServicesStarted ==
    /\ phase = "start_service"
    /\ at \notin Services
    /\ IF HasDeck THEN deck_run' = "Starting" /\ GoTo("begin_card", 1)
                  ELSE deck_run' = deck_run /\ GoTo("ready", 0)
    /\ UNCHANGED <<state, card_state, call, failures, held>>

BeginCard ==
    /\ phase = "begin_card"
    /\ at \in Cards
    /\ card_state' = [card_state EXCEPT ![at] = "Starting"]
    /\ GoTo("start_card", at)
    /\ UNCHANGED <<state, deck_run, call, failures, held>>

StartCard(result) ==
    /\ phase = "start_card"
    /\ card' = [card EXCEPT ![at] = AfterStart(result)]
    /\ card_state' = [card_state EXCEPT ![at] =
                          IF result = "Ok" THEN "Ready" ELSE "Failed"]
    /\ failures' = FailuresWith("Card", "Start", result)
    /\ \/ result = "Ok" /\ GoTo("begin_card", at + 1)
       \/ result = "Owner" /\ GoTo("begin_stop_card", LastStarted(at))
       \/ result = "TimedOut" /\ GoTo("begin_clean_card", at)
    /\ UNCHANGED <<state, deck_run, call, service>>

BeginCleanCard ==
    /\ phase = "begin_clean_card"
    /\ card_state' = [card_state EXCEPT ![at] = "Stopping"]
    /\ GoTo("clean_card", at)
    /\ UNCHANGED <<state, deck_run, call, failures, held>>

\* A Card's stop() ended, and its state is written.
CardStopped(result) ==
    /\ card' = [card EXCEPT ![at] = AfterStop(result)]
    /\ card_state' = [card_state EXCEPT ![at] =
                          IF result = "Ok" THEN "Stopped" ELSE "Failed"]
    /\ failures' = FailuresWith("Card", "Stop", result)
    /\ GoTo("begin_stop_card", at - 1)
    /\ UNCHANGED <<state, deck_run, call, service>>

CleanCard(result) == phase = "clean_card" /\ CardStopped(result)

DeckReady ==
    /\ phase = "begin_card"
    /\ at \notin Cards
    /\ deck_run' = "Ready"
    /\ GoTo("ready", 0)
    /\ UNCHANGED <<state, card_state, call, failures, held>>

HostReady ==
    /\ phase = "ready"
    /\ state' = "Ready"
    /\ call' = "none"
    /\ GoTo("idle", 0)
    /\ UNCHANGED <<deck_run, card_state, failures, held>>

-----------------------------------------------------------------------------
(* RuntimeHost::stop, and what it shares with a start that failed.         *)

StopCall ==
    /\ phase = "idle"
    /\ state = "Ready"
    /\ state' = "Stopping"
    /\ call' = "stop"
    /\ IF HasDeck THEN GoTo("begin_deck_stop", 0) ELSE GoTo("stop_service", ServiceCount)
    /\ UNCHANGED <<deck_run, card_state, failures, held>>

BeginDeckStop ==
    /\ phase = "begin_deck_stop"
    /\ deck_run' = "Stopping"
    /\ GoTo("begin_stop_card", CardCount)
    /\ UNCHANGED <<state, card_state, call, failures, held>>

\* stop_started_cards
BeginStopCard ==
    /\ phase = "begin_stop_card"
    /\ at \in Cards
    /\ card_state' = [card_state EXCEPT ![at] = "Stopping"]
    /\ GoTo("stop_card", at)
    /\ UNCHANGED <<state, deck_run, call, failures, held>>

StopCardAgain(result) ==               \* Slip: a failing stop() is repeated
    /\ phase = "stop_card"
    /\ IF result = "Ok" THEN CardStopped(result)
       ELSE GoTo("begin_stop_card", at) /\ UNCHANGED <<snapshot, call, failures, held>>
StopCard(result) == phase = "stop_card" /\ CardStopped(result)

\* The Deck run failed if its start did, or the stop of one of its Cards.
DeckOutcome == IF failures = {} THEN "Stopped" ELSE "Failed"

CardsForgotten ==                      \* Slip: the services go down first
    /\ phase = "begin_stop_card"
    /\ deck_run' = DeckOutcome
    /\ GoTo("stop_service", ServiceCount)
    /\ UNCHANGED <<state, card_state, call, failures, held>>

CardsDown ==
    /\ phase = "begin_stop_card"
    /\ at = 0
    /\ deck_run' = DeckOutcome
    /\ GoTo("stop_service", ServiceCount)
    /\ UNCHANGED <<state, card_state, call, failures, held>>

StopServiceUntilError(result) ==       \* Slip: the first failure ends the loop
    /\ phase = "stop_service"
    /\ at \in Services
    /\ service' = [service EXCEPT ![at] = AfterStop(result)]
    /\ failures' = FailuresWith("CoreService", "Stop", result)
    /\ GoTo("stop_service", IF result = "Ok" THEN at - 1 ELSE 0)
    /\ UNCHANGED <<snapshot, call, card>>

\* stop_started_services
StopService(result) ==
    /\ phase = "stop_service"
    /\ at \in Services
    /\ service' = [service EXCEPT ![at] = AfterStop(result)]
    /\ failures' = FailuresWith("CoreService", "Stop", result)
    /\ GoTo("stop_service", at - 1)
    /\ UNCHANGED <<snapshot, call, card>>

\* A start that failed marks its Deck run, even one that never began.
ServicesDown ==
    /\ phase = "stop_service"
    /\ at = 0
    /\ deck_run' = IF HasDeck /\ call = "start" THEN "Failed" ELSE deck_run
    /\ GoTo("finish", 0)
    /\ UNCHANGED <<state, card_state, call, failures, held>>

AlwaysStopped == "Stopped"             \* Slip: what failed is not looked at
Outcome == IF call = "start" \/ failures # {} THEN "Failed" ELSE "Stopped"

Finish ==
    /\ phase = "finish"
    /\ state' = Outcome
    /\ call' = "none"
    /\ GoTo("idle", 0)
    /\ UNCHANGED <<deck_run, card_state, failures, held>>

-----------------------------------------------------------------------------

\* The steps of a call that was made.  Every await in it has a deadline.
CallStep ==
    \/ \E result \in Results : \/ StartService(result)
                               \/ CleanService(result)
                               \/ StartCard(result)
                               \/ CleanCard(result)
                               \/ StopCard(result)
                               \/ StopService(result)
    \/ ServicesStarted
    \/ BeginCard
    \/ BeginCleanCard
    \/ DeckReady
    \/ HostReady
    \/ BeginDeckStop
    \/ BeginStopCard
    \/ CardsDown
    \/ ServicesDown
    \/ Finish

Next == StartCall \/ StopCall \/ CallStep

Spec == Init /\ [][Next]_vars
FairSpec == Spec /\ WF_vars(CallStep)

-----------------------------------------------------------------------------
(* Safety.                                                                 *)

\* What runs always stands on everything that was started before it: a
\* CoreService is not asked to stop, nor a Card before it in the Deck, while
\* one that came later still holds anything it was not yet asked to give up.
\* The order is that of the attempts: an owner whose stop() failed or timed
\* out ("stuck") may still hold something, and does not keep the rest from
\* being stopped.  It holds on the way up, on the way down and while a failed
\* start is undone.
DependentsFirst ==
    /\ \A s \in Services : service[s] # "running" =>
        /\ \A r \in Services : r > s => service[r] \notin Live
        /\ \A c \in Cards : card[c] \notin Live
    /\ \A c \in Cards : card[c] # "running" =>
        \A d \in Cards : d > c => card[d] \notin Live

\* When start() has failed, or stop() has ended either way, nothing is left
\* that was not asked to stop: what was started, and what an abandoned start
\* may have left.  One failing stop() does not spare the others theirs.
NothingLeftBehind ==
    state \in {"Stopped", "Failed"} =>
        /\ \A s \in Services : service[s] \notin Live
        /\ \A c \in Cards : card[c] \notin Live

\* What a stop() could not free is always among the failures that will be
\* reported, and the host ends as Stopped only if there is none and all that
\* was started has been stopped.
FailuresReported ==
    /\ \A s \in Services : service[s] = "stuck" =>
        \E f \in failures : f.kind = "CoreService" /\ f.index = s /\ f.action = "Stop"
    /\ \A c \in Cards : card[c] = "stuck" =>
        \E f \in failures : f.kind = "Card" /\ f.index = c /\ f.action = "Stop"
    /\ state = "Stopped" =>
        /\ failures = {}
        /\ \A s \in Services : service[s] = "stopped"
        /\ \A c \in Cards : card[c] = "stopped" /\ card_state[c] = "Stopped"
        /\ HasDeck => deck_run = "Stopped"
    /\ state = "Failed" => failures # {}

-----------------------------------------------------------------------------
(* Liveness.                                                               *)

\* start() and stop() return, whatever their callees do: no failure or
\* timeout leaves the call without a next step.
CallsReturn == phase # "idle" ~> phase = "idle"
=============================================================================
