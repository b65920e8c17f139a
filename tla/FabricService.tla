---------------------------- MODULE FabricService ----------------------------
(***************************************************************************)
(* The FabricService of a Node: it opens a Zenoh session, declares one     *)
(* queryable for each binding, and serves the queries that other Nodes and *)
(* clients send to them.                                                   *)
(*                                                                         *)
(* A query is admitted by a callback on a thread of Zenoh, which reads the *)
(* admission flag and then, in a step of its own, puts it in a bounded     *)
(* queue.  The dispatcher takes it from there and spawns a task for it,    *)
(* with a snapshot of the RuntimeHost; the task looks at the snapshot and  *)
(* calls the handler.  The owner starts and stops all this, and gives up   *)
(* what does not end in time; the RuntimeHost around it moves on meanwhile *)
(* and may abandon the start, or drop the service.                         *)
(*                                                                         *)
(* Zenoh, tokio's channel and JoinSet, and the handlers are external.  An  *)
(* operation of Zenoh may fail or time out, with or without having had its *)
(* effect; a Session or Queryable that is dropped is closed or undeclared. *)
(*                                                                         *)
(* A definition marked "Slip" is a mistake the code could have made; it is *)
(* used only to see that a property notices it.                            *)
(***************************************************************************)

EXTENDS Integers, Sequences, FiniteSets, SequencesExt

CONSTANTS
    Queries,             \* the queries that are ever sent to this Node
    Requests,            \* requests this Node makes through its FabricHandle
    BindingCount,
    INGRESS_CAPACITY,
    MAX_IN_FLIGHT_REQUESTS,
    MAX_QUERY_BINDINGS

ASSUME FabricAssumption ==
    /\ INGRESS_CAPACITY \in Nat \ {0}
    /\ MAX_IN_FLIGHT_REQUESTS \in Nat \ {0}
    /\ MAX_QUERY_BINDINGS \in Nat
    /\ BindingCount \in 1 .. MAX_QUERY_BINDINGS

Bindings == 1 .. BindingCount

VARIABLES
    host,                \* RuntimeHostSnapshot.state
    owner,               \* where the owner's start() or stop() is
    bindings,            \* whether self.bindings is still Some
    session,             \* who keeps the Zenoh session
    queryables,          \* the Queryables that are held (by start(), then by self)
    declared,            \* the bindings Zenoh calls us back for
    admission_open,
    handle_state,        \* FabricHandleState
    dispatcher,          \* the dispatcher task
    queue,               \* its mpsc channel
    in_flight,           \* its JoinSet, ended tasks that were not joined included
    query,               \* how far each query got, or how it ended
    seen,                \* the host state in the snapshot its task was given
    request,             \* the same for our own requests
    unclean              \* stop() will report an error

held == <<session, queryables, declared>>
shown == <<admission_open, handle_state>>
lifeVars == <<host, owner, bindings, held, shown, unclean>>
taskVars == <<queue, in_flight, query, seen>>
served == <<host, dispatcher, taskVars, request>>
vars == <<lifeVars, dispatcher, taskVars, request>>

-----------------------------------------------------------------------------

HostStates == {"Starting", "Ready", "Stopping"}
StartPhases == {"opening", "declaring", "rolling_back", "opening_admission", "publishing"}
StopPhases == {"revoking", "undeclaring", "aborting", "closing", "finishing"}
Settled == {"created", "started", "failed", "abandoned", "stopped"}

Spawned == {"dispatched", "handling"}
Refusals == {"stopping", "too_large", "busy", "not_ready"}
\* Answered, refused, left without an answer because its handler panicked or
\* the reply could not be sent, or lost when its task or queue was dropped.
Ended == {"answered", "unanswered", "lost"} \cup Refusals
Pending == {"arrived", "queued", "cancelled"} \cup Spawned

TypeOK ==
    /\ host \in HostStates
    /\ owner \in Settled \cup StartPhases \cup StopPhases \cup {"dropping", "dropped"}
    /\ bindings \in BOOLEAN
    /\ session \in {"none", "opened", "owned", "lingering"}
    /\ queryables \subseteq Bindings
    /\ declared \subseteq Bindings
    /\ admission_open \in BOOLEAN
    /\ handle_state \in {"NotStarted", "Running", "Stopping", "Stopped"}
    /\ dispatcher \in {"none", "running", "draining", "ended", "aborting", "aborted"}
    /\ queue \in Seq(Queries) /\ Len(queue) <= INGRESS_CAPACITY
    /\ in_flight \subseteq Queries
    /\ query \in [Queries -> {"new"} \cup Pending \cup Ended]
    /\ seen \in [Queries -> HostStates \cup {"none"}]
    /\ request \in [Requests -> {"new", "sent", "answered", "failed", "refused",
                                 "stopped", "ownerless"}]
    /\ unclean \in BOOLEAN

Init ==
    /\ host = "Starting"
    /\ owner = "created"
    /\ bindings = TRUE
    /\ session = "none"
    /\ queryables = {}
    /\ declared = {}
    /\ admission_open = FALSE
    /\ handle_state = "NotStarted"
    /\ dispatcher = "none"
    /\ queue = <<>>
    /\ in_flight = {}
    /\ query = [q \in Queries |-> "new"]
    /\ seen = [q \in Queries |-> "none"]
    /\ request = [r \in Requests |-> "new"]
    /\ unclean = FALSE

Mark(q, s) == query' = [query EXCEPT ![q] = s]

-----------------------------------------------------------------------------
(* admit_query: the callback of a queryable.                               *)

\* The callback starts, and reads the flag.
Arrive(q) ==
    /\ query[q] = "new"
    /\ declared # {}
    /\ Mark(q, IF admission_open THEN "arrived" ELSE "stopping")
    /\ UNCHANGED <<lifeVars, dispatcher, queue, in_flight, seen, request>>

RefuseTooLarge(q) ==
    /\ query[q] = "arrived"
    /\ Mark(q, "too_large")
    /\ UNCHANGED <<lifeVars, dispatcher, queue, in_flight, seen, request>>

\* The dispatcher may run on a little after it was aborted.
Polled == dispatcher \in {"running", "aborting"}

\* try_send
TrySend(q) ==
    /\ query[q] = "arrived"
    /\ \/ /\ Polled
          /\ Len(queue) < INGRESS_CAPACITY
          /\ queue' = Append(queue, q)
          /\ Mark(q, "queued")
       \/ /\ Polled
          /\ Len(queue) >= INGRESS_CAPACITY
          /\ Mark(q, "busy")
          /\ UNCHANGED queue
       \/ /\ ~Polled
          /\ Mark(q, "stopping")
          /\ UNCHANGED queue
    /\ UNCHANGED <<lifeVars, dispatcher, in_flight, seen, request>>

-----------------------------------------------------------------------------
(* dispatch_requests and serve_request.                                    *)

\* The channel is closed when every callback's sender is gone: those of the
\* queryables Zenoh still knows, and those of callbacks that still run.
SendersGone == declared = {} /\ \A q \in Queries : query[q] # "arrived"

\* recv() and spawn, when the JoinSet has room.
Dispatch ==
    /\ Polled
    /\ Cardinality(in_flight) < MAX_IN_FLIGHT_REQUESTS
    /\ queue # <<>>
    /\ LET q == Head(queue)
       IN  /\ queue' = Tail(queue)
           /\ in_flight' = in_flight \cup {q}
           /\ Mark(q, "dispatched")
           /\ seen' = [seen EXCEPT ![q] = host]
    /\ UNCHANGED <<lifeVars, dispatcher, request>>

ReapAtEnd(q) ==                        \* Slip: nothing is joined while it runs
    /\ q \in in_flight
    /\ query[q] \notin Spawned
    /\ dispatcher = "draining"
    /\ in_flight' = in_flight \ {q}
    /\ UNCHANGED <<lifeVars, dispatcher, queue, query, seen, request>>

\* join_next: only at the limit, and when draining.
Reap(q) ==
    /\ q \in in_flight
    /\ query[q] \notin Spawned
    /\ \/ Polled /\ Cardinality(in_flight) >= MAX_IN_FLIGHT_REQUESTS
       \/ dispatcher = "draining"
    /\ in_flight' = in_flight \ {q}
    /\ UNCHANGED <<lifeVars, dispatcher, queue, query, seen, request>>

\* recv() returned None.
Drain ==
    /\ dispatcher = "running"
    /\ Cardinality(in_flight) < MAX_IN_FLIGHT_REQUESTS
    /\ queue = <<>>
    /\ SendersGone
    /\ dispatcher' = "draining"
    /\ UNCHANGED <<lifeVars, queue, in_flight, query, seen, request>>

DispatcherEnds ==
    /\ dispatcher = "draining"
    /\ in_flight = {}
    /\ dispatcher' = "ended"
    /\ UNCHANGED <<lifeVars, queue, in_flight, query, seen, request>>

TasksDetached ==                       \* Slip: spawned outside of the JoinSet
    /\ dispatcher = "aborting"
    /\ dispatcher' = "aborted"
    /\ queue' = <<>>
    /\ in_flight' = {}
    /\ query' = [q \in Queries |-> IF query[q] = "queued" THEN "lost" ELSE query[q]]
    /\ UNCHANGED <<lifeVars, seen, request>>

\* The runtime gets round to an aborted dispatcher: its receiver and its
\* JoinSet are dropped, and the tasks in that are aborted in their turn.
DispatcherDropped ==
    /\ dispatcher = "aborting"
    /\ dispatcher' = "aborted"
    /\ queue' = <<>>
    /\ in_flight' = {}
    /\ query' = [q \in Queries |-> CASE query[q] = "queued" -> "lost"
                                     [] query[q] \in Spawned -> "cancelled"
                                     [] OTHER -> query[q]]
    /\ UNCHANGED <<lifeVars, seen, request>>

\* serve_request
ServeUnready(q) ==
    /\ query[q] = "dispatched"
    /\ seen[q] # "Ready"
    /\ \E s \in {"not_ready", "unanswered"} : Mark(q, s)
    /\ UNCHANGED <<lifeVars, dispatcher, queue, in_flight, seen, request>>

ServeReady(q) ==
    /\ query[q] = "dispatched"
    /\ seen[q] = "Ready"
    /\ Mark(q, "handling")
    /\ UNCHANGED <<lifeVars, dispatcher, queue, in_flight, seen, request>>

\* The handler's result, or its error, or that either is too large, is sent.
HandlerReturns(q) ==
    /\ query[q] = "handling"
    /\ \E s \in {"answered", "unanswered"} : Mark(q, s)
    /\ UNCHANGED <<lifeVars, dispatcher, queue, in_flight, seen, request>>

\* An aborted task may finish the poll it is in, but not await any more.
TaskDropped(q) ==
    /\ query[q] = "cancelled"
    /\ \E s \in {"answered", "not_ready", "lost"} : 
          /\ s = "answered" => seen[q] = "Ready"
          /\ s = "not_ready" => seen[q] # "Ready"
          /\ Mark(q, s)
    /\ UNCHANGED <<lifeVars, dispatcher, queue, in_flight, seen, request>>

-----------------------------------------------------------------------------
(* FabricService::start, called by the RuntimeHost.                        *)

LowestOf(b, S) == b \in S /\ \A c \in S : b <= c

\* Calls that are refused change nothing: bindings are taken only once.
StartCall ==
    /\ owner = "created"
    /\ session = "none"
    /\ bindings
    /\ bindings' = FALSE
    /\ owner' = "opening"
    /\ UNCHANGED <<held, shown, unclean, served>>

PublishAtOnce ==                       \* Slip: the handle is told of it now
    /\ owner = "opening"
    /\ \/ owner' = "declaring" /\ session' = "opened" /\ handle_state' = "Running"
       \/ owner' = "failed" /\ UNCHANGED <<session, handle_state>>
    /\ UNCHANGED <<bindings, queryables, declared, admission_open, unclean, served>>

OpenSession ==
    /\ owner = "opening"
    /\ \/ owner' = "declaring" /\ session' = "opened"
       \/ owner' = "failed" /\ session' = session
    /\ UNCHANGED <<bindings, queryables, declared, shown, unclean, served>>

DeclareBinding(b) ==
    /\ owner = "declaring"
    /\ LowestOf(b, Bindings \ queryables)
    /\ \/ /\ queryables' = queryables \cup {b}
          /\ declared' = declared \cup {b}
          /\ owner' = owner
       \/ owner' = "rolling_back" /\ UNCHANGED <<queryables, declared>>
    /\ UNCHANGED <<bindings, session, shown, unclean, served>>

\* undeclare_queryables, whatever comes of it ...
RollbackBinding(b) ==
    /\ owner = "rolling_back"
    /\ LowestOf(b, queryables)
    /\ queryables' = queryables \ {b}
    /\ declared' \in {declared, declared \ {b}}
    /\ UNCHANGED <<owner, bindings, session, shown, unclean, served>>

\* ... and close_session, and the session goes with start().
RollbackSession ==
    /\ owner = "rolling_back"
    /\ queryables = {}
    /\ session' = "none"
    /\ declared' = {}
    /\ owner' = "failed"
    /\ UNCHANGED <<bindings, queryables, shown, unclean, served>>

SpawnDispatcher ==
    /\ owner = "declaring"
    /\ queryables = Bindings
    /\ dispatcher' = "running"
    /\ session' = "owned"
    /\ owner' = "opening_admission"
    /\ UNCHANGED <<host, bindings, queryables, declared, shown, unclean, taskVars, request>>

OpenAdmission ==
    /\ owner = "opening_admission"
    /\ admission_open' = TRUE
    /\ owner' = "publishing"
    /\ UNCHANGED <<bindings, held, handle_state, unclean, served>>

\* publish_session
Publish ==
    /\ owner = "publishing"
    /\ handle_state' = "Running"
    /\ owner' = "started"
    /\ UNCHANGED <<bindings, held, admission_open, unclean, served>>

\* The host's deadline: the start() future is dropped at one of its awaits,
\* with the Session and the Queryables it holds.
AbandonStart ==
    /\ owner \in {"opening", "declaring", "rolling_back"}
    /\ owner' = "abandoned"
    /\ session' = "none"
    /\ queryables' = {}
    /\ declared' = {}
    /\ UNCHANGED <<bindings, shown, unclean, served>>

-----------------------------------------------------------------------------
(* FabricService::stop.  A poisoned lock is left out: nothing panics while *)
(* it holds one.                                                           *)

\* The host stops, or undoes its own start.  Admission closes first.
StopCall ==
    /\ \/ owner = "started" /\ host \in {"Starting", "Stopping"}
       \/ owner = "abandoned"
    /\ owner' = "revoking"
    /\ admission_open' = FALSE
    /\ UNCHANGED <<bindings, held, handle_state, unclean, served>>

\* begin_stop
BeginStop ==
    /\ owner = "revoking"
    /\ handle_state' = "Stopping"
    /\ owner' = "undeclaring"
    /\ UNCHANGED <<bindings, held, admission_open, unclean, served>>

\* An undeclaration that fails or times out may have had its effect or not.
Undeclare(b, ok) ==
    /\ owner = "undeclaring"
    /\ LowestOf(b, queryables)
    /\ queryables' = queryables \ {b}
    /\ declared' \in {declared \ {b}} \cup (IF ok THEN {} ELSE {declared})
    /\ unclean' = (unclean \/ ~ok)
    /\ UNCHANGED <<owner, bindings, session, shown, served>>

JoinUnwaited ==                        \* Slip: the task is not waited for
    /\ owner = "undeclaring"
    /\ queryables = {}
    /\ owner' = "closing"
    /\ UNCHANGED <<bindings, held, shown, unclean, served>>

JoinDispatcher ==
    /\ owner = "undeclaring"
    /\ queryables = {}
    /\ dispatcher \in {"none", "ended"}
    /\ owner' = "closing"
    /\ UNCHANGED <<bindings, held, shown, unclean, served>>

AbortUnreported ==                     \* Slip: the timeout is not an error
    /\ owner = "undeclaring"
    /\ queryables = {}
    /\ dispatcher \notin {"none", "ended"}
    /\ dispatcher' = "aborting"
    /\ owner' = "aborting"
    /\ UNCHANGED <<host, bindings, held, shown, unclean, taskVars, request>>

\* The budget of the stop is used up.
JoinTimesOut ==
    /\ owner = "undeclaring"
    /\ queryables = {}
    /\ dispatcher \notin {"none", "ended"}
    /\ dispatcher' = "aborting"
    /\ owner' = "aborting"
    /\ unclean' = TRUE
    /\ UNCHANGED <<host, bindings, held, shown, taskVars, request>>

AbortUnjoined ==                       \* Slip: abort() is taken for the end
    /\ owner = "aborting"
    /\ owner' = "closing"
    /\ UNCHANGED <<bindings, held, shown, unclean, served>>

JoinAborted ==
    /\ owner = "aborting"
    /\ dispatcher \in {"aborted", "ended"}
    /\ owner' = "closing"
    /\ UNCHANGED <<bindings, held, shown, unclean, served>>

\* The last Arc of a Session closes it; a request of ours may hold one.
SessionKept == \E r \in Requests : request[r] = "sent"

CloseSession(ok) ==
    /\ owner = "closing"
    /\ session = "none" => ok
    /\ IF ok \/ ~SessionKept THEN session' = "none" /\ declared' = {}
                             ELSE session' = "lingering" /\ declared' = declared
    /\ unclean' = (unclean \/ ~ok)
    /\ owner' = "finishing"
    /\ UNCHANGED <<bindings, queryables, shown, served>>

\* finish_stop
FinishStop ==
    /\ owner = "finishing"
    /\ handle_state' = "Stopped"
    /\ owner' = "stopped"
    /\ UNCHANGED <<bindings, held, admission_open, unclean, served>>

-----------------------------------------------------------------------------
(* Drop, at any time between two calls, and the host around it all.        *)

Drop ==
    /\ owner \in Settled
    /\ owner' = "dropping"
    /\ admission_open' = FALSE
    /\ dispatcher' = IF dispatcher = "running" THEN "aborting" ELSE dispatcher
    /\ handle_state' = "Stopped"
    /\ UNCHANGED <<host, bindings, held, unclean, taskVars, request>>

\* The fields go after the body of drop().
DropFields ==
    /\ owner = "dropping"
    /\ owner' = "dropped"
    /\ queryables' = {}
    /\ declared' = declared \ queryables
    /\ session' = CASE session = "owned" /\ SessionKept -> "lingering"
                    [] session = "owned" /\ ~SessionKept -> "none"
                    [] OTHER -> session
    /\ UNCHANGED <<bindings, shown, unclean, served>>

HostReady ==
    /\ host = "Starting"
    /\ owner = "started"
    /\ host' = "Ready"
    /\ UNCHANGED <<owner, bindings, held, shown, unclean, dispatcher, taskVars, request>>

HostStops ==
    /\ host = "Ready"
    /\ host' = "Stopping"
    /\ UNCHANGED <<owner, bindings, held, shown, unclean, dispatcher, taskVars, request>>

-----------------------------------------------------------------------------
(* FabricHandle: a request of this Node to another.                        *)

\* running_session: the handle has a Weak reference.
Request(r) ==
    /\ request[r] = "new"
    /\ request' = [request EXCEPT ![r] =
            IF handle_state # "Running" THEN "refused"
            ELSE IF session = "none" THEN "ownerless" ELSE "sent"]
    /\ UNCHANGED <<lifeVars, dispatcher, taskVars>>

\* It is answered, or fails, at its deadline if not before; why it failed is
\* read from the handle afterwards.  Its Arc of the session goes with it.
RequestEnds(r) ==
    /\ request[r] = "sent"
    /\ \E end \in {"answered", IF handle_state = "Running" THEN "failed" ELSE "stopped"} :
          request' = [request EXCEPT ![r] = end]
    /\ IF session = "lingering" /\ \A o \in Requests \ {r} : request[o] # "sent"
       THEN session' = "none" /\ declared' = {}
       ELSE UNCHANGED <<session, declared>>
    /\ UNCHANGED <<host, owner, bindings, queryables, shown, unclean, dispatcher, taskVars>>

-----------------------------------------------------------------------------

StartStep == \/ OpenSession \/ SpawnDispatcher \/ OpenAdmission \/ Publish
             \/ RollbackSession
             \/ \E b \in Bindings : DeclareBinding(b) \/ RollbackBinding(b)

StopStep == \/ BeginStop \/ JoinDispatcher \/ JoinTimesOut \/ JoinAborted \/ FinishStop
            \/ \E ok \in BOOLEAN : \/ CloseSession(ok)
                                  \/ \E b \in Bindings : Undeclare(b, ok)

DispatcherStep == \/ Dispatch \/ Drain \/ DispatcherEnds \/ DispatcherDropped
                  \/ \E q \in Queries : Reap(q)

Callback(q) == RefuseTooLarge(q) \/ TrySend(q)
Task(q) == ServeUnready(q) \/ ServeReady(q) \/ TaskDropped(q)

Next ==
    \/ StartCall \/ StartStep \/ AbandonStart
    \/ StopCall \/ StopStep
    \/ Drop \/ DropFields
    \/ HostReady \/ HostStops
    \/ DispatcherStep
    \/ \E q \in Queries : Arrive(q) \/ Callback(q) \/ Task(q) \/ HandlerReturns(q)
    \/ \E r \in Requests : Request(r) \/ RequestEnds(r)

Spec == Init /\ [][Next]_vars

\* Threads and tasks run, and the awaits of stop() have deadlines; a handler
\* may take for ever.
FairSpec ==
    /\ Spec
    /\ WF_vars(StopStep)
    /\ WF_vars(DispatcherStep)
    /\ \A q \in Queries : WF_vars(Callback(q)) /\ WF_vars(Task(q))

-----------------------------------------------------------------------------
(* Safety.                                                                 *)

\* A start() that fails, or is abandoned by the host, at whatever await, has
\* served nobody: callbacks of the bindings that were declared by then have
\* refused their queries, no request of this Node has left, and Zenoh has
\* nothing of it any more.
FailedStartServesNobody ==
    owner \in {"failed", "abandoned"} =>
        /\ session = "none" /\ declared = {}
        /\ \A q \in Queries : query[q] \in {"new", "stopping"}
        /\ \A r \in Requests : request[r] \in {"new", "refused"}

\* A query that was dispatched while the host was Ready may be in its handler
\* long after the host began to stop.  But before stop() closes the session,
\* and so before it ends, in time or not, every handler has returned or its
\* task was aborted, and no query waits for one.
StopOutlastsHandlers ==
    owner \in {"closing", "finishing", "stopped"} =>
        \A q \in Queries : query[q] \notin {"queued"} \cup Spawned

\* After a stop() without an error nothing is left and no query was lost: each
\* one that came was answered or refused, or its own reply failed.
CleanStopIsQuiet ==
    owner = "stopped" /\ ~unclean =>
        /\ session = "none"
        /\ declared = {}
        /\ dispatcher \in {"none", "ended"}
        /\ \A q \in Queries : query[q] \notin Pending \cup {"lost"}

\* A query is lost only to the abort of the dispatcher, which is the end of
\* the stop's budget, and is reported, or the drop of the service.
LostOnlyByForce ==
    \A q \in Queries : query[q] \in {"lost", "cancelled"} =>
        dispatcher = "aborted" /\ (unclean \/ owner \in {"dropping", "dropped"})

-----------------------------------------------------------------------------
(* Liveness.                                                               *)

\* After stop() or drop() no query stays without an end, though its handler
\* hangs, in whatever place it was.
StopEndsQueries ==
    \A q \in Queries :
        (owner \in {"stopped", "dropped"} /\ query[q] \in Pending) ~> query[q] \in Ended

\* If handlers return, every admitted query ends, in a full queue and with all
\* tasks busy too.
HandlersReturn == \A q \in Queries : []<>(query[q] # "handling")
AdmittedEnd == \A q \in Queries : query[q] = "arrived" ~> query[q] \in Ended
QueriesEnd == HandlersReturn => AdmittedEnd
=============================================================================
