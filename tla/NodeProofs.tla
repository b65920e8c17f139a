------------------------------ MODULE NodeProofs ------------------------------
(***************************************************************************)
(* What a RuntimeHost holds, what `paraegox node run` leaves when it       *)
(* returns, and what a prober learns of it: for any number of              *)
(* CoreServices, Cards and incarnations, with or without a Deck, and any   *)
(* pattern of failures, timeouts, signals and lost messages.               *)
(*                                                                         *)
(* That a CoreService holds nothing after a call says nothing of where the *)
(* call stands, so it is not inductive.  HostInv ties what is held to the  *)
(* phase of the call: below its position all runs, above it all is as it   *)
(* was before (on the way up) or down (on the way back), and what a stop   *)
(* could not free is among the failures.                                   *)
(*                                                                         *)
(* The Node's process makes the calls of one owner of the RuntimeHost, so  *)
(* that HostInv holds in every incarnation.  What is added to it is where  *)
(* run_node stands while the host's call stands where it does, and what    *)
(* the snapshot shows of the Deck.                                         *)
(***************************************************************************)

EXTENDS Node, TLAPS

-----------------------------------------------------------------------------
(* The RuntimeHost: the inductive invariant.                               *)

\* Numbers below n run; the others have not been started.
ServicesUpTo(n) == \A s \in Services : service[s] = IF s < n THEN "running" ELSE "nothing"
CardsUpTo(n) == \A c \in Cards : card[c] = IF c < n THEN "running" ELSE "nothing"

\* Numbers up to n run; the others hold nothing that lives.
ServicesDownTo(n) ==
    \A s \in Services : IF s <= n THEN service[s] = "running" ELSE service[s] \notin Live
CardsDownTo(n) ==
    \A c \in Cards : IF c <= n THEN card[c] = "running" ELSE card[c] \notin Live

AllServicesRun == \A s \in Services : service[s] = "running"
AllCardsRun == \A c \in Cards : card[c] = "running"
NoCardStarted == \A c \in Cards : card[c] = "nothing"

\* What has been stopped so far was stopped without a failure.
ServicesStoppedFrom(n) == \A s \in Services : s > n => service[s] = "stopped"
CardsStoppedFrom(n) ==
    \A c \in Cards : c > n => card[c] = "stopped" /\ card_state[c] = "Stopped"
DeckStopped == CardsStoppedFrom(0) /\ (HasDeck => deck_run = "Stopped")

StuckReported ==
    /\ \A s \in Services : service[s] = "stuck" =>
        Failure("CoreService", s, "Stop", "Owner") \in failures
        \/ Failure("CoreService", s, "Stop", "TimedOut") \in failures
    /\ \A c \in Cards : card[c] = "stuck" =>
        Failure("Card", c, "Stop", "Owner") \in failures
        \/ Failure("Card", c, "Stop", "TimedOut") \in failures

AtRest ==
    phase = "idle" =>
        \/ state = "Created" /\ failures = {} /\ ServicesUpTo(1) /\ NoCardStarted
        \/ state = "Ready" /\ failures = {} /\ AllServicesRun /\ AllCardsRun
        \/ /\ state = "Stopped" /\ failures = {}
           /\ ServicesStoppedFrom(0) /\ DeckStopped
        \/ state = "Failed" /\ failures # {} /\ ServicesDownTo(0) /\ CardsDownTo(0)

Starting == call = "start" /\ state = "Starting" /\ failures = {}
Undoing == call = "start" /\ state = "Starting" /\ failures # {}
Stopping == call = "stop" /\ state = "Stopping"

\* A failed start is undone, or stop() runs: then nothing has failed as long
\* as all that was stopped is.
GoingDown(sound) == Undoing \/ (Stopping /\ (failures = {} => sound))

WayUp ==
    /\ phase = "start_service" =>
        Starting /\ at \in 1 .. (ServiceCount + 1) /\ ServicesUpTo(at) /\ NoCardStarted
    /\ phase = "begin_card" =>
        /\ Starting /\ HasDeck /\ at \in 1 .. (CardCount + 1)
        /\ AllServicesRun /\ CardsUpTo(at)
    /\ phase = "start_card" =>
        Starting /\ HasDeck /\ at \in Cards /\ AllServicesRun /\ CardsUpTo(at)
    /\ phase = "ready" =>
        Starting /\ AllServicesRun /\ AllCardsRun

\* The start that was abandoned may have left something, those before it run.
Abandoned ==
    /\ phase = "clean_service" =>
        /\ Undoing /\ at \in Services /\ NoCardStarted
        /\ \A s \in Services : s < at => service[s] = "running"
        /\ \A s \in Services : s > at => service[s] = "nothing"
    /\ phase \in {"begin_clean_card", "clean_card"} =>
        /\ Undoing /\ HasDeck /\ at \in Cards /\ AllServicesRun
        /\ \A c \in Cards : c < at => card[c] = "running"
        /\ \A c \in Cards : c > at => card[c] = "nothing"

WayDown ==
    /\ phase = "begin_deck_stop" =>
        Stopping /\ HasDeck /\ failures = {} /\ AllServicesRun /\ AllCardsRun
    /\ phase = "begin_stop_card" =>
        /\ HasDeck /\ at \in 0 .. CardCount
        /\ AllServicesRun /\ CardsDownTo(at)
        /\ GoingDown(CardsStoppedFrom(at))
    /\ phase = "stop_card" =>
        /\ HasDeck /\ at \in Cards
        /\ AllServicesRun /\ CardsDownTo(at)
        /\ GoingDown(CardsStoppedFrom(at))
    /\ phase = "stop_service" =>
        /\ at \in 0 .. ServiceCount
        /\ ServicesDownTo(at) /\ CardsDownTo(0)
        /\ GoingDown(ServicesStoppedFrom(at) /\ DeckStopped)
    /\ phase = "finish" =>
        /\ ServicesDownTo(0) /\ CardsDownTo(0)
        /\ GoingDown(ServicesStoppedFrom(0) /\ DeckStopped)

HostInv == TypeOK /\ StuckReported /\ AtRest /\ WayUp /\ Abandoned /\ WayDown

-----------------------------------------------------------------------------
(* The steps of a call.                                                    *)

\* Those that call no owner: they move on, or publish what has been reached.
LEMMA MovesKeepInv ==
    ASSUME HostInv,
           \/ StartCall \/ ServicesStarted \/ BeginCard \/ BeginCleanCard
           \/ DeckReady \/ HostReady \/ StopCall \/ BeginDeckStop
           \/ BeginStopCard \/ CardsDown \/ ServicesDown \/ Finish
    PROVE  HostInv'
<1> USE BuildAssumption DEF GoTo, snapshot, held, Services, Cards, LifecycleStates,
   Phases, Holdings, Live, DeckOutcome, Outcome, HostInv, TypeOK, StuckReported, AtRest,
   WayUp, Abandoned, WayDown, ServicesUpTo, CardsUpTo, ServicesDownTo, CardsDownTo,
   AllServicesRun, AllCardsRun, NoCardStarted, ServicesStoppedFrom, CardsStoppedFrom,
   DeckStopped, Starting, Undoing, Stopping, GoingDown
<1>1. CASE StartCall
  BY <1>1 DEF StartCall
<1>2. CASE ServicesStarted
  BY <1>2 DEF ServicesStarted
<1>3. CASE BeginCard
  BY <1>3 DEF BeginCard
<1>4. CASE BeginCleanCard
  BY <1>4 DEF BeginCleanCard
<1>5. CASE DeckReady
  BY <1>5 DEF DeckReady
<1>6. CASE HostReady
  BY <1>6 DEF HostReady
<1>7. CASE StopCall
  BY <1>7 DEF StopCall
<1>8. CASE BeginDeckStop
  BY <1>8 DEF BeginDeckStop
<1>9. CASE BeginStopCard
  BY <1>9 DEF BeginStopCard
<1>10. CASE CardsDown
  BY <1>10 DEF CardsDown
<1>11. CASE ServicesDown
  BY <1>11 DEF ServicesDown
<1>12. CASE Finish
  BY <1>12 DEF Finish
<1>13. QED
  BY <1>1, <1>2, <1>3, <1>4, <1>5, <1>6, <1>7, <1>8, <1>9, <1>10, <1>11, <1>12

\* Those that call an owner, which may fail or be too late.
LEMMA StartServiceKeepsInv ==
    ASSUME HostInv, NEW result \in Results, StartService(result) PROVE HostInv'
<1> USE DEF HostInv, WayUp, StartService, Services, Cards, TypeOK, Results, AfterStart,
   LastStarted, GoTo, snapshot, AtRest, Abandoned, WayDown, Live, ServicesUpTo,
   CardsUpTo, AllServicesRun, AllCardsRun, NoCardStarted, Starting, Undoing,
   ServicesDownTo, CardsDownTo, GoingDown
<1>1. at \in Services /\ at \in Nat
  BY BuildAssumption
<1>2. /\ failures \subseteq failures' /\ failures' \subseteq Failures
      /\ result = "Ok" => failures' = failures
      /\ result # "Ok" => Failure("CoreService", at, "Start", result) \in failures'
  BY <1>1 DEF FailuresWith, Failure, Failures
<1>3. TypeOK'
  BY <1>1, <1>2, BuildAssumption DEF Phases, Holdings, LifecycleStates
<1>4. StuckReported'
  BY <1>1, <1>2 DEF StuckReported
<1>5. CASE result = "Ok"
  BY <1>1, <1>2, <1>3, <1>4, <1>5, BuildAssumption
<1>6. CASE result = "Owner"
  BY <1>1, <1>2, <1>3, <1>4, <1>6, BuildAssumption
<1>7. CASE result = "TimedOut"
  BY <1>1, <1>2, <1>3, <1>4, <1>7, BuildAssumption
<1>8. QED
  BY <1>5, <1>6, <1>7

LEMMA CleanServiceKeepsInv ==
    ASSUME HostInv, NEW result \in Results, CleanService(result) PROVE HostInv'
BY BuildAssumption DEF CleanService, CardStopped, AfterStart, AfterStop, FailuresWith,
   Failure, Failures, LastStarted, GoTo, snapshot, held, Results, Services, Cards,
   LifecycleStates, Phases, Holdings, Live, HostInv, TypeOK, StuckReported, AtRest,
   WayUp, Abandoned, WayDown, ServicesUpTo, CardsUpTo, ServicesDownTo, CardsDownTo,
   AllServicesRun, AllCardsRun, NoCardStarted, ServicesStoppedFrom, CardsStoppedFrom,
   DeckStopped, Starting, Undoing, Stopping, GoingDown

LEMMA StartCardKeepsInv ==
    ASSUME HostInv, NEW result \in Results, StartCard(result) PROVE HostInv'
<1> USE DEF HostInv, WayUp, StartCard, Services, Cards, TypeOK, Results, AfterStart,
   LastStarted, GoTo, snapshot, AtRest, Abandoned, WayDown, Live, ServicesUpTo,
   CardsUpTo, AllServicesRun, AllCardsRun, NoCardStarted, Starting, Undoing,
   ServicesDownTo, CardsDownTo, GoingDown
<1>1. at \in Cards /\ at \in Nat
  BY BuildAssumption
<1>2. /\ failures \subseteq failures' /\ failures' \subseteq Failures
      /\ result = "Ok" => failures' = failures
      /\ result # "Ok" => Failure("Card", at, "Start", result) \in failures'
  BY <1>1 DEF FailuresWith, Failure, Failures
<1>3. TypeOK'
  BY <1>1, <1>2, BuildAssumption DEF Phases, Holdings, LifecycleStates
<1>4. StuckReported'
  BY <1>1, <1>2 DEF StuckReported
<1>5. CASE result = "Ok"
  BY <1>1, <1>2, <1>3, <1>4, <1>5, BuildAssumption
<1>6. CASE result = "Owner"
  BY <1>1, <1>2, <1>3, <1>4, <1>6, BuildAssumption
<1>7. CASE result = "TimedOut"
  BY <1>1, <1>2, <1>3, <1>4, <1>7, BuildAssumption
<1>8. QED
  BY <1>5, <1>6, <1>7

LEMMA CleanCardKeepsInv ==
    ASSUME HostInv, NEW result \in Results, CleanCard(result) PROVE HostInv'
BY BuildAssumption DEF CleanCard, CardStopped, AfterStart, AfterStop, FailuresWith,
   Failure, Failures, LastStarted, GoTo, snapshot, held, Results, Services, Cards,
   LifecycleStates, Phases, Holdings, Live, HostInv, TypeOK, StuckReported, AtRest,
   WayUp, Abandoned, WayDown, ServicesUpTo, CardsUpTo, ServicesDownTo, CardsDownTo,
   AllServicesRun, AllCardsRun, NoCardStarted, ServicesStoppedFrom, CardsStoppedFrom,
   DeckStopped, Starting, Undoing, Stopping, GoingDown

LEMMA StopCardKeepsInv ==
    ASSUME HostInv, NEW result \in Results, StopCard(result) PROVE HostInv'
<1> USE DEF HostInv, WayDown, StopCard, Services, Cards, TypeOK, CardStopped, Results,
   AfterStop, GoTo, snapshot
<1>1. at \in Cards /\ at \in Nat
  BY BuildAssumption
<1>2. /\ failures \subseteq failures' /\ failures' \subseteq Failures
      /\ result = "Ok" => failures' = failures
      /\ result # "Ok" => Failure("Card", at, "Stop", result) \in failures'
  BY <1>1 DEF FailuresWith, Failure, Failures
<1>3. TypeOK'
  BY <1>1, <1>2, BuildAssumption DEF Phases, Holdings, LifecycleStates
<1>4. StuckReported'
  BY <1>1, <1>2 DEF StuckReported
<1>5. CASE result = "Ok"
  BY <1>1, <1>2, <1>3, <1>4, <1>5, BuildAssumption DEF AtRest, WayUp, Abandoned, Live,
     ServicesDownTo, CardsDownTo, AllServicesRun, ServicesStoppedFrom, CardsStoppedFrom,
     DeckStopped, Undoing, Stopping, GoingDown
<1>6. CASE result # "Ok"
  BY <1>1, <1>2, <1>3, <1>4, <1>6, BuildAssumption DEF AtRest, WayUp, Abandoned, Live,
     ServicesDownTo, CardsDownTo, AllServicesRun, ServicesStoppedFrom, CardsStoppedFrom,
     DeckStopped, Undoing, Stopping, GoingDown
<1>7. QED
  BY <1>5, <1>6

LEMMA StopServiceKeepsInv ==
    ASSUME HostInv, NEW result \in Results, StopService(result) PROVE HostInv'
<1> USE DEF HostInv, WayDown, StopService, Services, Cards, TypeOK, Results, AfterStop,
   GoTo, snapshot
<1>1. at \in Services /\ at \in Nat
  BY BuildAssumption
<1>2. /\ failures \subseteq failures' /\ failures' \subseteq Failures
      /\ result = "Ok" => failures' = failures
      /\ result # "Ok" => Failure("CoreService", at, "Stop", result) \in failures'
  BY <1>1 DEF FailuresWith, Failure, Failures
<1>3. TypeOK'
  BY <1>1, <1>2, BuildAssumption DEF Phases, Holdings, LifecycleStates
<1>4. StuckReported'
  BY <1>1, <1>2 DEF StuckReported
<1>5. CASE result = "Ok"
  BY <1>1, <1>2, <1>3, <1>4, <1>5, BuildAssumption DEF AtRest, WayUp, Abandoned, Live,
     ServicesDownTo, CardsDownTo, AllServicesRun, ServicesStoppedFrom, CardsStoppedFrom,
     DeckStopped, Undoing, Stopping, GoingDown
<1>6. CASE result # "Ok"
  BY <1>1, <1>2, <1>3, <1>4, <1>6, BuildAssumption DEF AtRest, WayUp, Abandoned, Live,
     ServicesDownTo, CardsDownTo, AllServicesRun, ServicesStoppedFrom, CardsStoppedFrom,
     DeckStopped, Undoing, Stopping, GoingDown
<1>7. QED
  BY <1>5, <1>6

-----------------------------------------------------------------------------
(* The RuntimeHost: the theorems.                                          *)

LEMMA InitEstablishesInv == Init => HostInv
BY BuildAssumption DEF Init, HostInv, TypeOK, StuckReported, AtRest, WayUp, Abandoned,
   WayDown, ServicesUpTo, NoCardStarted, Services, Cards, LifecycleStates, Phases,
   Holdings, Failures

LEMMA StutterKeepsInv == ASSUME HostInv, UNCHANGED vars PROVE HostInv'
BY DEF vars, HostInv, TypeOK, StuckReported, AtRest, WayUp, Abandoned, WayDown,
   ServicesUpTo, CardsUpTo, ServicesDownTo, CardsDownTo, AllServicesRun, AllCardsRun,
   NoCardStarted, ServicesStoppedFrom, CardsStoppedFrom, DeckStopped, Starting, Undoing,
   Stopping, GoingDown

\* Every step of the host keeps the invariant.
LEMMA StepKeepsInv == HostInv /\ [Next]_vars => HostInv'
<1> SUFFICES ASSUME HostInv, [Next]_vars PROVE HostInv'
  OBVIOUS
<1>1. CASE StartCall
  BY <1>1, MovesKeepInv
<1>2. CASE StopCall
  BY <1>2, MovesKeepInv
<1>3. CASE CallStep
  <2>1. CASE \E result \in Results : \/ StartService(result)
                                    \/ CleanService(result)
                                    \/ StartCard(result)
                                    \/ CleanCard(result)
                                    \/ StopCard(result)
                                    \/ StopService(result)
    BY <2>1, StartServiceKeepsInv, CleanServiceKeepsInv, StartCardKeepsInv,
       CleanCardKeepsInv, StopCardKeepsInv, StopServiceKeepsInv
  <2>2. CASE ServicesStarted \/ BeginCard \/ BeginCleanCard \/ DeckReady \/ HostReady
    BY <2>2, MovesKeepInv
  <2>3. CASE BeginDeckStop \/ BeginStopCard \/ CardsDown \/ ServicesDown \/ Finish
    BY <2>3, MovesKeepInv
  <2>4. QED
    BY <1>3, <2>1, <2>2, <2>3 DEF CallStep
<1>4. CASE UNCHANGED vars
  BY <1>4, StutterKeepsInv
<1>5. QED
  BY <1>1, <1>2, <1>3, <1>4 DEF Next

\* The inductive invariant holds for any number of CoreServices and Cards.
THEOREM HostInvariant == Spec => []HostInv
<1>1. QED
  BY InitEstablishesInv, StepKeepsInv, PTL DEF Spec

\* Every variable of the host keeps its type.
THEOREM HostTypeCorrect == Spec => []TypeOK
<1>1. HostInv => TypeOK
  BY DEF HostInv
<1>2. QED
  BY <1>1, HostInvariant, PTL

\* A CoreService or Card is never without what was started before it: the
\* phase says below which number everything runs.
LEMMA InvOrdersDependents == HostInv => DependentsFirst
<1> SUFFICES ASSUME HostInv PROVE DependentsFirst
  OBVIOUS
<1> USE DEF Live, Services, Cards
<1>1. CASE phase = "idle"
  BY <1>1 DEF HostInv, AtRest, DependentsFirst, ServicesUpTo, AllServicesRun,
     AllCardsRun, NoCardStarted, ServicesStoppedFrom, DeckStopped, CardsStoppedFrom,
     ServicesDownTo, CardsDownTo
<1>2. CASE phase \in {"start_service", "begin_card", "start_card", "ready"}
  BY <1>2, BuildAssumption DEF HostInv, WayUp, DependentsFirst, ServicesUpTo, CardsUpTo,
     AllServicesRun, AllCardsRun, NoCardStarted
<1>3. CASE phase \in {"clean_service", "begin_clean_card", "clean_card"}
  BY <1>3, BuildAssumption DEF HostInv, Abandoned, DependentsFirst, AllServicesRun,
     NoCardStarted
<1>4. CASE phase \in {"begin_deck_stop", "begin_stop_card", "stop_card", "stop_service", "finish"}
  BY <1>4, BuildAssumption DEF HostInv, WayDown, DependentsFirst, AllServicesRun,
     AllCardsRun, ServicesDownTo, CardsDownTo
<1>5. QED
  BY <1>1, <1>2, <1>3, <1>4 DEF HostInv, TypeOK, Phases

\* RuntimeHost::start and stop never pull away a CoreService, or an earlier
\* Card, from under one that still runs.
THEOREM HostDependentsFirst == Spec => []DependentsFirst
<1>1. QED
  BY InvOrdersDependents, HostInvariant, PTL

\* The state is Stopped or Failed only at rest.
LEMMA EndedIsAtRest ==
    ASSUME HostInv, state \in {"Stopped", "Failed"} PROVE phase = "idle"
BY DEF HostInv, TypeOK, Phases, WayUp, Abandoned, WayDown, Starting, Undoing, Stopping,
   GoingDown

\* A host whose start failed or whose stop ended has asked all it started to
\* stop.
THEOREM HostNothingLeftBehind == Spec => []NothingLeftBehind
<1>1. HostInv => NothingLeftBehind
  BY EndedIsAtRest DEF HostInv, AtRest, NothingLeftBehind, ServicesStoppedFrom,
     DeckStopped, CardsStoppedFrom, ServicesDownTo, CardsDownTo, Live, Services, Cards
<1>2. QED
  BY <1>1, HostInvariant, PTL

\* What could not be stopped is reported, and Stopped means all is stopped.
THEOREM HostFailuresReported == Spec => []FailuresReported
<1>1. HostInv => FailuresReported
  <2> SUFFICES ASSUME HostInv PROVE FailuresReported
    OBVIOUS
  <2>1. /\ \A s \in Services : service[s] = "stuck" =>
            \E f \in failures : f.kind = "CoreService" /\ f.index = s /\ f.action = "Stop"
        /\ \A c \in Cards : card[c] = "stuck" =>
            \E f \in failures : f.kind = "Card" /\ f.index = c /\ f.action = "Stop"
    BY DEF HostInv, StuckReported, Failure
  <2>2. state \in {"Stopped", "Failed"} => phase = "idle"
    BY EndedIsAtRest
  <2>3. QED
    BY <2>1, <2>2 DEF HostInv, AtRest, FailuresReported, ServicesStoppedFrom,
       DeckStopped, CardsStoppedFrom, Services, Cards
<1>2. QED
  BY <1>1, HostInvariant, PTL

-----------------------------------------------------------------------------
(* The Node: the invariant.                                                *)

AllCardsReady == \A c \in Cards : card_state[c] = "Ready"

\* The host is Ready only after its Deck and all the Deck's Cards are.
DeckShown ==
    /\ phase \in {"begin_card", "start_card"} =>
        \A c \in Cards : c < at => card_state[c] = "Ready"
    /\ HasDeck /\ (phase = "ready" \/ state = "Ready") => deck_run = "Ready" /\ AllCardsReady

\* Where run_node stands, the host's call does.
RunsHost ==
    /\ main = "starting" => IF phase = "idle" THEN state \in {"Ready", "Failed"}
                                             ELSE call = "start"
    /\ main \in {"reporting", "probing", "waiting"} => phase = "idle" /\ state = "Ready"
    /\ main = "stopping" => IF phase = "idle" THEN state \in {"Stopped", "Failed"}
                                             ELSE call = "stop"
    /\ main = "returned" =>
        /\ phase = "idle"
        /\ state \in (IF exit_code = "ok" THEN {"Stopped"} ELSE {"Stopped", "Failed"})

\* The status on its way is one that a process had since the probe was sent.
TellsOfReady ==
    /\ status.incarnation \in readySince
    /\ HasDeck => /\ status.runtime.deck = "Ready"
                  /\ \A c \in Cards : status.runtime.cards[c] = "Ready"

ProbeInv ==
    /\ (state = "Ready" /\ main # "killed") => incarnation \in readySince
    /\ (probe \in {"queued", "replied", "ok"} /\ status.runtime.state = "Ready") => TellsOfReady
    /\ probe \in {"replied", "ok"} => status.runtime.state = "Ready"

NodeInv == HostInv /\ DeckShown /\ RunsHost /\ ProbeInv

-----------------------------------------------------------------------------
(* The host's part.                                                        *)

\* Outside a call the state says how the last one ended, inside it which
\* one it is.
LEMMA StateOfCall ==
    ASSUME HostInv
    PROVE  /\ phase # "idle" => /\ state \in {"Starting", "Stopping"}
                                /\ call \in {"start", "stop"}
                                /\ call = "start" <=> state = "Starting"
           /\ phase = "idle" => state \in {"Created", "Ready", "Stopped", "Failed"}
           /\ phase \in {"ready", "begin_card", "start_card"} => call = "start"
           /\ phase = "begin_deck_stop" => call = "stop"
BY DEF HostInv, TypeOK, Phases, AtRest, WayUp, Abandoned, WayDown, Starting, Undoing,
   Stopping, GoingDown

\* A call goes on, or ends as it can end.
LEMMA CallGoes ==
    ASSUME HostInv, CallStep
    PROVE  /\ phase # "idle"
           /\ phase' # "idle" => call' = call
           /\ phase' = "idle" =>
                IF call = "start" THEN state' \in {"Ready", "Failed"}
                                  ELSE state' \in {"Stopped", "Failed"}
<1> USE DEF GoTo, snapshot, held, CardStopped
<1>1. CASE HostReady
  BY <1>1, StateOfCall DEF HostReady
<1>2. CASE Finish
  BY <1>2, StateOfCall DEF Finish, Outcome
<1>3. CASE \/ ServicesStarted \/ BeginCard \/ BeginCleanCard \/ DeckReady \/ BeginDeckStop
           \/ BeginStopCard \/ CardsDown \/ ServicesDown
  BY <1>3 DEF ServicesStarted, BeginCard, BeginCleanCard, DeckReady, BeginDeckStop,
     BeginStopCard, CardsDown, ServicesDown
<1>4. ASSUME NEW result \in Results,
             \/ StartService(result) \/ CleanService(result) \/ StartCard(result)
             \/ CleanCard(result) \/ StopCard(result) \/ StopService(result)
      PROVE  phase # "idle" /\ phase' # "idle" /\ call' = call
  BY <1>4 DEF StartService, CleanService, StartCard, CleanCard, StopCard, StopService
<1>5. QED
  BY <1>1, <1>2, <1>3, <1>4 DEF CallStep

LEMMA CallShowsDeck ==
    ASSUME HostInv, DeckShown, CallStep
    PROVE  DeckShown'
<1> USE BuildAssumption DEF DeckShown, AllCardsReady, GoTo, snapshot, held
<1>1. /\ card_state \in [Cards -> LifecycleStates]
      /\ phase \in {"begin_card", "start_card"} => at \in 1 .. (CardCount + 1)
      /\ phase = "start_card" => at \in Cards
      /\ phase # "idle" => state \in {"Starting", "Stopping"}
  BY StateOfCall DEF HostInv, TypeOK, WayUp, Cards
<1>2. CASE ServicesStarted
  BY <1>1, <1>2 DEF ServicesStarted, Cards
<1>3. CASE BeginCard
  BY <1>1, <1>3 DEF BeginCard, Cards
<1>4. CASE DeckReady
  BY <1>1, <1>4 DEF DeckReady, Cards
<1>5. CASE HostReady
  BY <1>5 DEF HostReady
<1>6. CASE BeginCleanCard \/ BeginDeckStop \/ BeginStopCard \/ CardsDown \/ ServicesDown
  BY <1>1, <1>6 DEF BeginCleanCard, BeginDeckStop, BeginStopCard, CardsDown, ServicesDown
<1>7. CASE Finish
  BY <1>7 DEF Finish, Outcome
<1>8. ASSUME NEW result \in Results, StartCard(result) PROVE DeckShown'
  <2>1. CASE result = "Ok"
    BY <1>1, <1>8, <2>1 DEF StartCard, Cards
  <2>2. CASE result # "Ok"
    BY <1>1, <1>8, <2>2 DEF StartCard
  <2>3. QED
    BY <2>1, <2>2
<1>9. ASSUME NEW result \in Results,
             \/ StartService(result) \/ CleanService(result)
             \/ CleanCard(result) \/ StopCard(result) \/ StopService(result)
      PROVE  DeckShown'
  BY <1>1, <1>9 DEF StartService, CleanService, CleanCard, StopCard, StopService, CardStopped
<1>10. QED
  BY <1>2, <1>3, <1>4, <1>5, <1>6, <1>7, <1>8, <1>9 DEF CallStep

\* A new process begins with a new host.
LEMMA BuildIsNew == ASSUME Build PROVE HostInv' /\ DeckShown' /\ RunsHost'
BY BuildAssumption DEF Build, GoTo, HostInv, TypeOK, StuckReported, AtRest, WayUp, Abandoned,
   WayDown, ServicesUpTo, NoCardStarted, Services, Cards, LifecycleStates, Phases, Holdings,
   Failures, Starting, DeckShown, RunsHost

LEMMA StopShowsDeck == ASSUME StopCall PROVE DeckShown'
BY DEF StopCall, DeckShown, GoTo

-----------------------------------------------------------------------------
(* Each step of the Node.                                                  *)

\* The process calls its host as an owner may: start() once, and stop() when
\* it is Ready.
LEMMA NodeKeepsHost ==
    ASSUME HostInv, DeckShown, NodeNext
    PROVE  HostInv' /\ DeckShown'
<1>1. CASE Build
  BY <1>1, BuildIsNew
<1>2. CASE StopCall
  BY <1>2, MovesKeepInv, StopShowsDeck
<1>3. CASE CallStep
  BY <1>3, StepKeepsInv, CallShowsDeck DEF Next
<1>4. CASE UNCHANGED vars
  BY <1>4, StutterKeepsInv DEF vars, DeckShown, AllCardsReady
<1>5. QED
  BY <1>1, <1>2, <1>3, <1>4 DEF NodeNext, CtrlC, Killed, ProcessStep, StartReturns, Report,
     ProbePeer, StopReturns, HostStep, ProbeStep, Ask, Dispatch, Serve, ProbeReturns,
     ProbeFails, Return, RunningEnds, GoesOnTo

LEMMA NodeKeepsRunning ==
    ASSUME HostInv, RunsHost, NodeNext
    PROVE  RunsHost'
<1>1. CASE Build
  BY <1>1, BuildIsNew
<1>2. CASE HostStep
  BY <1>2, CallGoes DEF HostStep, RunsHost, process
<1>3. CASE CtrlC \/ Report \/ ProbePeer
  BY <1>3 DEF CtrlC, Report, ProbePeer, RunningEnds, GoesOnTo, AfterReport, StopCall, GoTo,
     RunsHost, vars
<1>4. CASE Killed
  BY <1>4 DEF Killed, RunsHost
<1>5. CASE StartReturns \/ StopReturns
  BY <1>5 DEF StartReturns, StopReturns, Return, RunsHost, vars
<1>6. CASE ProbeStep
  BY <1>6 DEF ProbeStep, Ask, Dispatch, Serve, ProbeReturns, ProbeFails, RunsHost, vars, process
<1>7. QED
  BY <1>1, <1>2, <1>3, <1>4, <1>5, <1>6 DEF NodeNext, ProcessStep

LEMMA NodeKeepsProbe ==
    ASSUME HostInv, DeckShown, ProbeInv, NodeNext
    PROVE  ProbeInv'
<1>1. (state' = "Ready" /\ main' # "killed") => incarnation' \in readySince'
  BY DEF NodeNext, Watched
<1>2. probe' # "asked" => readySince \subseteq readySince'
  BY DEF NodeNext, Watched
<1>3. CASE Dispatch
  <2>1. status' = [incarnation |-> incarnation, runtime |-> Snapshot] /\ probe' = "queued"
    BY <1>3 DEF Dispatch
  <2>2. ASSUME status'.runtime.state = "Ready" PROVE TellsOfReady'
    <3>1. state = "Ready" /\ incarnation \in readySince
      BY <1>3, <2>1, <2>2 DEF Snapshot, ProbeInv, Dispatch, Alive
    <3>2. QED
      BY <1>2, <2>1, <3>1 DEF TellsOfReady, Snapshot, DeckShown, AllCardsReady
  <2>3. QED
    BY <1>1, <2>1, <2>2 DEF ProbeInv
<1>4. CASE Ask
  BY <1>1, <1>4 DEF Ask, ProbeInv
<1>5. CASE Serve \/ ProbeReturns \/ ProbeFails
  BY <1>1, <1>2, <1>5 DEF Serve, ProbeReturns, ProbeFails, ProbeInv, TellsOfReady
<1>6. CASE UNCHANGED probing
  BY <1>1, <1>2, <1>6 DEF probing, ProbeInv, TellsOfReady
<1>7. QED
  BY <1>3, <1>4, <1>5, <1>6 DEF NodeNext, Build, CtrlC, Killed, ProcessStep, StartReturns,
     Report, ProbePeer, StopReturns, HostStep, ProbeStep, Return, RunningEnds, GoesOnTo

-----------------------------------------------------------------------------
(* The Node: the theorems.                                                 *)

\* The inductive invariant of a Node over all its incarnations.
THEOREM NodeInvariant == NodeSpec => []NodeInv
<1>1. NodeInit => NodeInv
  BY InitEstablishesInv DEF NodeInit, NodeInv, DeckShown, RunsHost, ProbeInv, Init
<1>2. NodeInv /\ [NodeNext]_nodeVars => NodeInv'
  <2>1. ASSUME NodeInv, NodeNext PROVE NodeInv'
    BY <2>1, NodeKeepsHost, NodeKeepsRunning, NodeKeepsProbe DEF NodeInv
  <2>2. ASSUME NodeInv, UNCHANGED nodeVars PROVE NodeInv'
    BY <2>2, StutterKeepsInv DEF nodeVars, vars, process, probing, NodeInv, DeckShown,
       AllCardsReady, RunsHost, ProbeInv, TellsOfReady
  <2>3. QED
    BY <2>1, <2>2
<1>3. QED
  BY <1>1, <1>2, PTL DEF NodeSpec

\* run_node returns, after whatever error, with every CoreService and Card
\* asked to stop, and with Ok only if they all did.
THEOREM NodeReturnLeavesNothing == NodeSpec => []ReturnLeavesNothing
<1>1. NodeInv => ReturnLeavesNothing
  BY DEF NodeInv, RunsHost, HostInv, AtRest, ReturnLeavesNothing, ServicesStoppedFrom,
     DeckStopped, CardsStoppedFrom, ServicesDownTo, CardsDownTo, Live, Services, Cards
<1>2. QED
  BY <1>1, NodeInvariant, PTL

\* A probe that succeeds tells of a process that was Ready, and of the Deck
\* it had then, however late the query was served.
THEOREM NodeProbeSawReady == NodeSpec => []ProbeSawReady
<1>1. NodeInv => ProbeSawReady
  BY DEF NodeInv, ProbeInv, TellsOfReady, ProbeSawReady
<1>2. QED
  BY <1>1, NodeInvariant, PTL

\* In no incarnation is a CoreService stopped while what depends on it may
\* still run, whichever error or signal made run_node call stop().
THEOREM NodeDependentsFirst == NodeSpec => []DependentsFirst
<1>1. NodeInv => DependentsFirst
  BY InvOrdersDependents DEF NodeInv
<1>2. QED
  BY <1>1, NodeInvariant, PTL
=============================================================================
