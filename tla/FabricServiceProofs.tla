------------------------- MODULE FabricServiceProofs -------------------------
(***************************************************************************)
(* The safety properties of the FabricService, for any number of queries,  *)
(* bindings and requests, any queue and any limit of tasks, and whatever   *)
(* fails or is abandoned.                                                  *)
(*                                                                         *)
(* That a clean stop left no query behind follows from where queries can   *)
(* be for each state of the dispatcher (QueriesByDispatcher), and which    *)
(* state that can have at each place of start() and stop() (OwnerInStep).  *)
(***************************************************************************)

EXTENDS FabricService, TLAPS

-----------------------------------------------------------------------------
(* The inductive invariant.                                                *)

Unstarted == {"created", "opening", "declaring", "rolling_back", "failed", "abandoned"}
Serving == {"opening_admission", "publishing", "started"}
Closing == {"closing", "finishing", "stopped"}
Dropping == {"dropping", "dropped"}

\* No dispatcher before start() has declared everything, which then serves
\* until stop() has taken something back; only a stop that ran out of its
\* budget, and the drop, abort it.
OwnerInStep ==
    /\ owner \in Unstarted => dispatcher = "none"
    /\ owner \in {"created", "opening"} => queryables = {} /\ declared = {}
    /\ owner = "declaring" => declared = queryables
    /\ owner \in Unstarted \cup Serving => session # "lingering"
    /\ owner \in Serving => dispatcher = "running" /\ declared = Bindings
    /\ owner \in {"revoking", "undeclaring"} => dispatcher \notin {"aborting", "aborted"}
    /\ owner \in Closing => dispatcher \in {"none", "ended", "aborted"}
    /\ dispatcher \in {"aborting", "aborted"} => unclean \/ owner \in Dropping

\* The flag is read by callbacks while the dispatcher runs.
OpenWhileServing == admission_open => owner \in Serving

\* A stop without an error has closed the session.
CleanStopCloses ==
    owner \in {"finishing", "stopped"} /\ ~unclean => session = "none" /\ declared = {}

QueriesByDispatcher ==
    /\ dispatcher = "none" => \A q \in Queries : query[q] \in {"new", "stopping"}
    /\ dispatcher \in {"draining", "ended"} =>
        declared = {} /\ \A q \in Queries : query[q] \notin {"arrived", "queued"}
    /\ dispatcher \in {"ended", "aborted"} =>
        \A q \in Queries : query[q] \notin {"queued"} \cup Spawned
    /\ \A q \in Queries : query[q] \in {"lost", "cancelled"} => dispatcher = "aborted"
    /\ \A q \in Queries : query[q] \in Spawned => q \in in_flight
    /\ \A q \in Queries : query[q] = "queued" => \E i \in DOMAIN queue : queue[i] = q

\* Until start() has succeeded nothing goes through the handle.
RequestsRefused ==
    owner \in Unstarted =>
        /\ handle_state = "NotStarted"
        /\ \A r \in Requests : request[r] \in {"new", "refused"}

\* The Session of a start() goes with it.
StartKeepsNothing ==
    owner \in {"created", "opening", "failed", "abandoned"} =>
        session = "none" /\ declared = {}

FabricInv ==
    /\ TypeOK
    /\ OwnerInStep
    /\ OpenWhileServing
    /\ CleanStopCloses
    /\ QueriesByDispatcher
    /\ RequestsRefused
    /\ StartKeepsNothing

-----------------------------------------------------------------------------
(* Queries: their callbacks, the dispatcher and its tasks.                 *)

LEMMA InitEstablishesInv == Init => FabricInv
<1> SUFFICES ASSUME Init PROVE FabricInv
  OBVIOUS
<1>1. TypeOK
  <2>1. queue \in Seq(Queries) /\ Len(queue) <= INGRESS_CAPACITY
    BY FabricAssumption DEF Init
  <2>2. /\ query \in [Queries -> {"new"} \cup Pending \cup Ended]
        /\ seen \in [Queries -> HostStates \cup {"none"}]
        /\ request \in [Requests -> {"new", "sent", "answered", "failed", "refused",
                                     "stopped", "ownerless"}]
    BY DEF Init
  <2>3. QED
    BY <2>1, <2>2 DEF Init, TypeOK, HostStates, Settled
<1>2. OwnerInStep /\ OpenWhileServing /\ CleanStopCloses
  BY DEF Init, OwnerInStep, OpenWhileServing, CleanStopCloses,
         Unstarted, Serving, Closing
<1>3. QueriesByDispatcher /\ RequestsRefused /\ StartKeepsNothing
  BY DEF Init, QueriesByDispatcher, RequestsRefused, StartKeepsNothing, Spawned
<1>4. QED
  BY <1>1, <1>2, <1>3 DEF FabricInv

\* Head(queue) leaves the queue for a task: the others stay where they were.
LEMMA DispatchKeepsInv == ASSUME FabricInv, Dispatch PROVE FabricInv'
<1> DEFINE h == Head(queue)
<1>1. /\ queue \in Seq(Queries) /\ queue # <<>> /\ Len(queue) <= INGRESS_CAPACITY
      /\ query \in [Queries -> {"new"} \cup Pending \cup Ended]
      /\ seen \in [Queries -> HostStates \cup {"none"}]
      /\ host \in HostStates
  BY DEF FabricInv, TypeOK, Dispatch
<1>2. /\ h \in Queries
      /\ queue' = Tail(queue)
      /\ in_flight' = in_flight \cup {h}
      /\ query' = [query EXCEPT ![h] = "dispatched"]
      /\ seen' = [seen EXCEPT ![h] = host]
      /\ Polled
      /\ UNCHANGED <<lifeVars, dispatcher, request>>
  BY <1>1 DEF Dispatch, Mark
<1>3. /\ queue' \in Seq(Queries) /\ Len(queue') <= INGRESS_CAPACITY
      /\ \A q \in Queries \ {h} :
            (\E i \in DOMAIN queue : queue[i] = q) => \E i \in DOMAIN queue' : queue'[i] = q
  <2>1. /\ queue' \in Seq(Queries)
        /\ Len(queue') = Len(queue) - 1
        /\ \A i \in 1 .. Len(queue) - 1 : queue'[i] = queue[i + 1]
    BY <1>1, <1>2
  <2>2. ASSUME NEW q \in Queries \ {h}, NEW i \in DOMAIN queue, queue[i] = q
        PROVE  \E j \in DOMAIN queue' : queue'[j] = q
    <3>1. i # 1 /\ i - 1 \in DOMAIN queue' /\ queue'[i - 1] = q
      BY <1>1, <2>1, <2>2
    <3>2. QED
      BY <3>1
  <2>3. QED
    BY <1>1, <2>1, <2>2, FabricAssumption
<1> HIDE DEF h
<1>4. TypeOK'
  BY <1>1, <1>2, <1>3
     DEF FabricInv, TypeOK, lifeVars, held, shown, Pending, Spawned
<1>5. OwnerInStep' /\ OpenWhileServing' /\ CleanStopCloses'
  BY <1>2 DEF FabricInv, OwnerInStep, OpenWhileServing, CleanStopCloses, lifeVars, held, shown
<1>6. QueriesByDispatcher'
  BY <1>1, <1>2, <1>3 DEF FabricInv, QueriesByDispatcher, Polled, lifeVars, held, Spawned
<1>7. RequestsRefused' /\ StartKeepsNothing'
  BY <1>2 DEF FabricInv, RequestsRefused, StartKeepsNothing, lifeVars, held, shown
<1>8. QED
  BY <1>4, <1>5, <1>6, <1>7 DEF FabricInv

LEMMA QueriesKeepInv ==
    ASSUME FabricInv, NEW q \in Queries,
           Arrive(q) \/ Callback(q) \/ Task(q) \/ HandlerReturns(q)
    PROVE  FabricInv'
<1> USE DEF FabricInv, TypeOK, OwnerInStep, OpenWhileServing, CleanStopCloses,
            QueriesByDispatcher, RequestsRefused, StartKeepsNothing,
            lifeVars, held, shown, Mark, Serving, Spawned, Refusals, Pending, Ended
<1>1. CASE Arrive(q)
  BY <1>1 DEF Arrive
<1>2. CASE RefuseTooLarge(q)
  BY <1>2 DEF RefuseTooLarge
<1>3. CASE TrySend(q)
  <2>1. ASSUME Polled, Len(queue) < INGRESS_CAPACITY, queue' = Append(queue, q),
               query' = [query EXCEPT ![q] = "queued"]
        PROVE  FabricInv'
    <3>1. /\ queue' \in Seq(Queries) /\ Len(queue') <= INGRESS_CAPACITY
          /\ \E i \in DOMAIN queue' : queue'[i] = q
          /\ \A i \in DOMAIN queue : i \in DOMAIN queue' /\ queue'[i] = queue[i]
      BY <2>1, FabricAssumption
    <3>2. QED
      BY <1>3, <2>1, <3>1 DEF TrySend, Polled
  <2>2. ASSUME \E s \in {"busy", "stopping"} : query' = [query EXCEPT ![q] = s],
               UNCHANGED queue
        PROVE  FabricInv'
    BY <1>3, <2>2 DEF TrySend
  <2>3. QED
    BY <1>3, <2>1, <2>2 DEF TrySend
<1>4. CASE ServeUnready(q)
  BY <1>4 DEF ServeUnready
<1>5. CASE ServeReady(q)
  BY <1>5 DEF ServeReady
<1>6. CASE TaskDropped(q)
  BY <1>6 DEF TaskDropped
<1>7. CASE HandlerReturns(q)
  BY <1>7 DEF HandlerReturns
<1>8. QED
  BY <1>1, <1>2, <1>3, <1>4, <1>5, <1>6, <1>7 DEF Callback, Task

LEMMA DispatcherKeepsInv == ASSUME FabricInv, DispatcherStep PROVE FabricInv'
<1> USE DEF FabricInv, TypeOK, OwnerInStep, OpenWhileServing, CleanStopCloses,
            QueriesByDispatcher, RequestsRefused, StartKeepsNothing, lifeVars, held, shown,
            Unstarted, Serving, Closing, Dropping, Bindings
<1>1. CASE Drain
  BY <1>1, FabricAssumption DEF Drain, SendersGone
<1>2. CASE DispatcherEnds
  BY <1>2 DEF DispatcherEnds
<1>3. CASE DispatcherDropped
  <2>1. /\ queue' = <<>> /\ queue' \in Seq(Queries) /\ Len(queue') <= INGRESS_CAPACITY
        /\ in_flight' = {} /\ in_flight' \subseteq Queries
    BY <1>3, FabricAssumption DEF DispatcherDropped
  <2>2. /\ query' \in [Queries -> {"new"} \cup Pending \cup Ended]
        /\ \A q \in Queries :
              /\ query'[q] \notin Spawned \cup {"queued"}
              /\ query'[q] \in {"handling", "answered"} => query[q] = query'[q]
    BY <1>3 DEF DispatcherDropped, Spawned, Pending, Ended, Refusals
  <2>3. QED
    BY <1>3, <2>1, <2>2 DEF DispatcherDropped, Spawned
<1>4. ASSUME NEW q \in Queries, Reap(q) PROVE FabricInv'
  BY <1>4 DEF Reap
<1>5. QED
  BY <1>1, <1>2, <1>3, <1>4, DispatchKeepsInv DEF DispatcherStep

-----------------------------------------------------------------------------
(* start().                                                                *)

LEMMA StartKeepsInv ==
    ASSUME FabricInv, StartCall \/ StartStep \/ AbandonStart PROVE FabricInv'
<1> USE DEF FabricInv, TypeOK, OwnerInStep, OpenWhileServing, CleanStopCloses,
            QueriesByDispatcher, RequestsRefused, StartKeepsNothing,
            Unstarted, Serving, Closing, Dropping, lifeVars, held, shown, taskVars, served,
            Settled, StartPhases, StopPhases
<1>1. CASE StartCall
  BY <1>1 DEF StartCall
<1>2. CASE OpenSession
  BY <1>2 DEF OpenSession
<1>3. ASSUME NEW b \in Bindings, DeclareBinding(b) PROVE FabricInv'
  BY <1>3 DEF DeclareBinding
<1>4. ASSUME NEW b \in Bindings, RollbackBinding(b) PROVE FabricInv'
  BY <1>4 DEF RollbackBinding
<1>5. CASE RollbackSession
  BY <1>5 DEF RollbackSession
<1>6. CASE SpawnDispatcher
  BY <1>6 DEF SpawnDispatcher
<1>7. CASE OpenAdmission
  BY <1>7 DEF OpenAdmission
<1>8. CASE Publish
  BY <1>8 DEF Publish
<1>9. CASE AbandonStart
  BY <1>9 DEF AbandonStart
<1>10. QED
  BY <1>1, <1>2, <1>3, <1>4, <1>5, <1>6, <1>7, <1>8, <1>9 DEF StartStep

-----------------------------------------------------------------------------
(* stop() and drop().                                                      *)

LEMMA StopKeepsInv == ASSUME FabricInv, StopCall \/ StopStep PROVE FabricInv'
<1> USE DEF FabricInv, TypeOK, OwnerInStep, OpenWhileServing, CleanStopCloses,
            QueriesByDispatcher, RequestsRefused, StartKeepsNothing,
            Unstarted, Serving, Closing, Dropping, lifeVars, held, shown, taskVars, served,
            Settled, StartPhases, StopPhases
<1>1. CASE StopCall
  BY <1>1 DEF StopCall
<1>2. CASE BeginStop
  BY <1>2 DEF BeginStop
<1>3. ASSUME NEW b \in Bindings, NEW ok \in BOOLEAN, Undeclare(b, ok) PROVE FabricInv'
  BY <1>3 DEF Undeclare
<1>4. CASE JoinDispatcher
  BY <1>4 DEF JoinDispatcher
<1>5. CASE JoinTimesOut
  BY <1>5 DEF JoinTimesOut
<1>6. CASE JoinAborted
  BY <1>6 DEF JoinAborted
<1>7. ASSUME NEW ok \in BOOLEAN, CloseSession(ok) PROVE FabricInv'
  BY <1>7 DEF CloseSession
<1>8. CASE FinishStop
  BY <1>8 DEF FinishStop
<1>9. QED
  BY <1>1, <1>2, <1>3, <1>4, <1>5, <1>6, <1>7, <1>8 DEF StopStep

LEMMA DropKeepsInv == ASSUME FabricInv, Drop \/ DropFields PROVE FabricInv'
<1> USE DEF FabricInv, TypeOK, OwnerInStep, OpenWhileServing, CleanStopCloses,
            QueriesByDispatcher, RequestsRefused, StartKeepsNothing,
            Unstarted, Serving, Closing, Dropping, lifeVars, held, shown, taskVars, served,
            Settled, StartPhases, StopPhases
<1>1. CASE Drop
  BY <1>1 DEF Drop
<1>2. CASE DropFields
  BY <1>2 DEF DropFields
<1>3. QED
  BY <1>1, <1>2

-----------------------------------------------------------------------------
(* The host, and the requests of the handle.                               *)

LEMMA RequestAnswered ==
    ASSUME NEW r, Request(r)
    PROVE  \E end \in {"refused", "ownerless", "sent"} :
              /\ request' = [request EXCEPT ![r] = end]
              /\ handle_state # "Running" => end = "refused"
<1>1. CASE handle_state # "Running"
  BY <1>1 DEF Request
<1>2. CASE handle_state = "Running" /\ session = "none"
  BY <1>2 DEF Request
<1>3. CASE handle_state = "Running" /\ session # "none"
  BY <1>3 DEF Request
<1>4. QED
  BY <1>1, <1>2, <1>3

LEMMA OthersKeepInv ==
    ASSUME FabricInv,
           \/ HostReady \/ HostStops
           \/ \E r \in Requests : Request(r) \/ RequestEnds(r)
    PROVE  FabricInv'
<1> USE DEF FabricInv, TypeOK, OwnerInStep, OpenWhileServing, CleanStopCloses,
            QueriesByDispatcher, RequestsRefused, StartKeepsNothing,
            Unstarted, Serving, Closing, Dropping, lifeVars, held, shown, taskVars, served
<1>1. CASE HostReady
  BY <1>1 DEF HostReady, HostStates
<1>2. CASE HostStops
  BY <1>2 DEF HostStops, HostStates
<1>3. ASSUME NEW r \in Requests, Request(r) PROVE FabricInv'
  <2>1. /\ request' \in [Requests -> {"new", "sent", "answered", "failed", "refused",
                                      "stopped", "ownerless"}]
        /\ handle_state # "Running" =>
            \A o \in Requests : request'[o] = request[o] \/ request'[o] = "refused"
    <3>1. PICK end \in {"refused", "ownerless", "sent"} :
              /\ request' = [request EXCEPT ![r] = end]
              /\ handle_state # "Running" => end = "refused"
      BY <1>3, RequestAnswered
    <3>2. QED
      BY <3>1
  <2>2. RequestsRefused'
    BY <1>3, <2>1 DEF Request
  <2>3. QED
    BY <1>3, <2>1, <2>2 DEF Request
<1>4. ASSUME NEW r \in Requests, RequestEnds(r) PROVE FabricInv'
  <2>1. request' \in [Requests -> {"new", "sent", "answered", "failed", "refused",
                                   "stopped", "ownerless"}]
    BY <1>4 DEF RequestEnds
  <2>2. CASE session = "lingering" /\ session' = "none" /\ declared' = {}
    BY <1>4, <2>1, <2>2 DEF RequestEnds
  <2>3. CASE UNCHANGED <<session, declared>>
    BY <1>4, <2>1, <2>3 DEF RequestEnds
  <2>4. QED
    BY <1>4, <2>2, <2>3 DEF RequestEnds
<1>5. QED
  BY <1>1, <1>2, <1>3, <1>4

-----------------------------------------------------------------------------
(* Theorems.                                                               *)

LEMMA StepKeepsInv == ASSUME FabricInv, [Next]_vars PROVE FabricInv'
<1>1. CASE UNCHANGED vars
  BY <1>1 DEF FabricInv, TypeOK, OwnerInStep, OpenWhileServing, CleanStopCloses,
              QueriesByDispatcher, RequestsRefused, StartKeepsNothing,
              vars, lifeVars, held, shown, taskVars
<1>2. CASE Next
  BY <1>2, StartKeepsInv, StopKeepsInv, DropKeepsInv, OthersKeepInv, DispatcherKeepsInv,
     QueriesKeepInv DEF Next
<1>3. QED
  BY <1>1, <1>2

\* The inductive invariant of the service.
THEOREM FabricInvariant == Spec => []FabricInv
BY InitEstablishesInv, StepKeepsInv, PTL DEF Spec

\* Every variable of the service keeps its type; the queue keeps its limit.
THEOREM FabricTypeCorrect == Spec => []TypeOK
<1>1. FabricInv => TypeOK
  BY DEF FabricInv
<1>2. QED
  BY <1>1, FabricInvariant, PTL

\* open_session, declare_queryables and spawn_dispatcher may fail or be given
\* up at any await: by then nobody was served through what they had set up.
THEOREM FabricFailedStartServesNobody == Spec => []FailedStartServesNobody
<1>1. FabricInv => FailedStartServesNobody
  BY DEF FabricInv, OwnerInStep, QueriesByDispatcher, RequestsRefused, StartKeepsNothing,
         FailedStartServesNobody, Unstarted
<1>2. QED
  BY <1>1, FabricInvariant, PTL

\* No handler outlives the part of stop() that waits for the dispatcher, the
\* forced one included.
THEOREM FabricStopOutlastsHandlers == Spec => []StopOutlastsHandlers
<1>1. FabricInv => StopOutlastsHandlers
  BY DEF FabricInv, TypeOK, OwnerInStep, QueriesByDispatcher, StopOutlastsHandlers, Closing,
         Spawned
<1>2. QED
  BY <1>1, FabricInvariant, PTL

\* stop() without an error has closed the session and left no query without
\* an end.
THEOREM FabricCleanStopIsQuiet == Spec => []CleanStopIsQuiet
<1>1. FabricInv => CleanStopIsQuiet
  BY DEF FabricInv, OwnerInStep, CleanStopCloses, QueriesByDispatcher, CleanStopIsQuiet,
         Closing, Dropping, Pending, Spawned
<1>2. QED
  BY <1>1, FabricInvariant, PTL

\* Queries are lost only with an aborted dispatcher, which stop() reports.
THEOREM FabricLosesOnlyByForce == Spec => []LostOnlyByForce
<1>1. FabricInv => LostOnlyByForce
  BY DEF FabricInv, OwnerInStep, QueriesByDispatcher, LostOnlyByForce, Dropping
<1>2. QED
  BY <1>1, FabricInvariant, PTL
=============================================================================
