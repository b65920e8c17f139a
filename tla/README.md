# A verification project for ParaEGOX

TLA+ models of ParaEGOX, a Node that runs Agent conversations and the clients that hold
them. TLC checks the models on small instances; TLAPS proves the results that matter
most for every value of the constants. `PROJECT.json` lists the runs, a mutant for each
property, the source lines of every definition, the hazards and the theorems.

## The system

| Component | State it keeps | Operations | Hard because |
|---|---|---|---|
| Agent service (`paraegox-agent/src/service.rs`) | lifecycle, active profile, Sessions with sealed turns and tombstones, their age order, the one active turn | `submit_turn`, `cancel`, Card start/stop, service start/stop, drop | futures of many clients, cancellation racing completion, dropped futures, waiting for idleness, limits |
| Agent transport (`paraegox-agent/src/transport.rs`) | none; client deadlines | submit and cancel, one query each | a reply lost after the turn was sealed, requests that overtake each other |
| Model provider (`provider.rs`) | none | one HTTP request | it may never answer |
| RuntimeHost (`paraegox-runtime/src/host.rs`, `status.rs`, `deck.rs`) | host, Deck run and Card states in a shared snapshot | `start`, `stop` | rollback of a half-done start, timeouts of its callees, readers between two writes |
| Fabric service (`paraegox-fabric/src/service.rs`, `client.rs`) | Zenoh session, queryables, bounded queue, dispatcher with in-flight requests, handle state | `start`, `stop`, drop, query admission, dispatch, peer requests | admission racing close, queue limits, stop budget, abandoned start |
| Node (`paraegox-node/src/lib.rs`) | composition of the above | construction, start, stop, status binding, probes | a probe across a restart |
| Deck compiler (`paraegox-deck/src/lib.rs`) | none (pure) | `new`, `compile` | validation order, injective digest |
| Kernel ids (`paraegox-kernel`) | none | parsing | - |
| CLI (`paraegox/src/main.rs`) | none | `parse_command`, `run_node` | options that need each other; stop after a failed run |
| JSONL adapter (`paraegox/src/textual_stdio.rs`) | one active turn, its pinned call | submit, cancel, shutdown frames | one outcome per turn; cancel, shutdown and errors during a turn |
| Textual client (`clients/textual/*.py`) | reader, active turn, adapter process | submit, cancel, quit | frames racing the user; shutdown with a reader in another task |
| Built-in chat (`paraegox/src/tui/*`) | transcript, active turn, raw terminal, input line | keys, cancel, quit | result, cancellation and Ctrl-C interleave; bytes against characters |

A front end (chat or adapter) holds an `AgentConversationClient`, whose two calls are
queries over the Fabric. In the Node, the Zenoh callback admits a query to a bounded
queue, the dispatcher spawns one task per request, the task calls the Agent binding,
which calls `AgentHandle::submit_turn` or `cancel` on the shared state. The RuntimeHost
starts Fabric, then the Agent service, then the Agent Card, whose start activates the
profile that admits turns; it stops them in reverse.

What makes each part correct:

- **Agent service.** A turn is run at most once and has one terminal, which every
  retry repeats; an accepted cancellation ends in `Cancelled`; one turn runs at a
  time; limits hold although four code paths record turns and two check for room; a
  turn that lost its Card or service is cancelled; `stop` returns and leaves no turn;
  the model is shown exactly the answered history.
- **Transport.** Whatever is lost, late or repeated, no two calls tell a client
  different outcomes of one turn, and a promise to cancel is kept.
- **RuntimeHost.** Dependents stop before what they depend on, in every failure;
  nothing started is forgotten; what could not be stopped is reported; calls return.
- **Fabric.** Every admitted query ends; one is lost only if the dispatcher was aborted,
  which a stop reports; a start that failed serves nobody, and a stop returns only when
  no handler runs.
- **Node and CLI.** A Node that returns has stopped what it started, and reports
  success only if all went well; a probe that succeeds saw a Ready Node; options mean
  the same in any order.
- **Front ends.** One outcome per turn, the one the Agent sealed; no turn is left
  running by a front end that ends; quitting ends; exit code 0 means what it says.

## Modules

| Module | What it is | Composed with |
|---|---|---|
| `ConversationTypes` | terminals and answers, the values at the service's boundary | - |
| `ConversationContract` | abstract: what a client is promised | `ConversationTypes` |
| `AgentService` | the service: ledger, futures, owner | refines the contract |
| `AgentConversation` | a client's calls over a lossy Fabric | extends the contract |
| `TextualStdio` | the JSONL adapter | extends `AgentConversation` |
| `TextualClient` | backend and application in Python | extends `TextualStdio` |
| `TerminalChat` | the built-in chat | extends `AgentConversation` |
| `RuntimeHost` | the host: start, stop, rollback, snapshot | - |
| `Node` | `run_node` and a prober | extends `RuntimeHost` |
| `FabricService` | the query service | its own view of the host |
| `LineEditor` | abstract: an input line | - |
| `InputEditor` | the input line on bytes | refines `LineEditor` |
| `DeckCompiler` | `compile` and `DeckLaunch::new` | - |
| `CommandLine` | `parse_command` | - |
| `*Proofs` | theorems of the module they are named after; `NodeProofs` also those of `RuntimeHost`, `AgentConversationProofs` those of the contract | |
| `TextualProofs` | theorems of `TextualStdio`, then of `TextualClient` | |
| `InputProofs` | theorems of `InputEditor` and of `CommandLine` | |
| `MC*` | instances for TLC; `MCSequential` joins the three modules that run alone | |

The contract is the joint between the two halves. `AgentService` implements it, step by
step (`ImplementsContract`, checked by TLC and proved). `AgentConversation` takes the contract's actions
for the Agent's side, so the front ends are checked against everything the contract
allows the service to do, and not against one more copy of the service.

### ConversationContract

`status[s][t]` is how far a turn got: unknown, promised to be cancelled, running
(with its input and whether it is cancelled), or sealed with a terminal.
`answers` records what clients were told. Any step may first forget Sessions that run
nothing (eviction), which voids both.

### AgentService

The variables are the fields of `AgentState`, plus `pc`, `job`, `context` and
`proposed` for each live `submit_turn` future (its locals), `active_instance` for the
Cards, `owner` and `woken` for the lifecycle call in progress and the `Notified` it
holds, and two history variables: `answers`, what clients were told, and `given_up`,
whether the host's deadline dropped the last `stop` while it waited for a turn. Each
section that holds the state mutex is one action:

| Code | Actions |
|---|---|
| `submit_turn`, first locked section | `SubmitReplay`, `SubmitCancelled`, `SubmitOverContext`, `SubmitAdmit` |
| `select!` | `SelectCancelled`, `SelectProvider`, `SelectDeadline` |
| `ActiveTurnGuard::complete` / `drop` | `Complete` / `Abort`, then `NotifyWaiters` |
| `cancel` | `CancelSealed`, `CancelActive`, `CancelEarly` |
| `AgentCard::start` / `stop` | `CardStart` / `CardStop`, `CardStopLate` |
| `AgentService::start` / `stop` / `drop` | `ServiceStart` / `ServiceStop`, `ServiceStopCreated`, `ServiceStopped` / `Drop` |
| `wait_until_idle` | `WaiterArm`, `WaiterCheck`, `WaiterWake` |
| host deadline on that wait | `OwnerDeadline` |

Calls that return an error change nothing and are stuttering steps. `ensure_session`
is part of the action that calls it. The owner may make lifecycle calls in any order,
one at a time; the RuntimeHost's order is one of these. The wire limit
on a terminal (`wire_safe_terminal`) is a set of oversized contents; the size of the
model context is counted in bytes of a few sizes. Validation of inputs and deadlines is
left out: it rejects before the state is touched.

Between the end of `select!` and the completion guard there is no await, so a future
can only be dropped while it is in `select!`. A `Notified` future of tokio receives
every `notify_waiters` since its creation: `woken` is cleared when the owner arms it
and set by `NotifyWaiters` from then on.

### AgentConversation

`calls` is every call the client ever made. A call has two ends that need not agree: the
request (`travelling`, `serving`, `ended`, with its reply) and the future that waits for
it (`waiting`, `returned`, `failed`, `dropped`). A request that its client gave up stays
on its way and is served when it arrives, in any order, which is what a deadline, a lost
reply and a dropped future have in common.

| Code | Actions |
|---|---|
| `AgentConversationClient::submit_turn`, `cancel` | `Call`; `Returns`, `Fails`, `Dropped` |
| `serve_wire_request`, submit | `ServeAdmit`, then `ServeResult` or `ServeDropped`; `ServeRepeat`, `ServeRefuse`, `ServeRedeem`; `ServeError` |
| `serve_wire_request`, cancel | `ServeCancel`, `ServeRepeat`, `ServeNotActive`, `ServeError` |
| the owner of the Agent | `OwnerInterrupts` |

The Session of a client is taken to be retained while the client lives: the contract's
eviction is not a step here.

### TextualStdio

`stdin` and `stdout` are the frames ever written, `taken` how many of stdin were read.
`phase` is the await of `run_protocol`, `drive_turn` or `finish_active_shutdown`;
`submission` is the pinned future. A handler puts its frames in `unsent`, from where each
is sent, or fails, in a step of its own. The other end is any process, which writes
commands in any order, some of them bad, and closes stdin when it likes.

| Code | Actions |
|---|---|
| `run_textual_stdio` | `Connect`, `CloseClient`, `Succeed` |
| `run_protocol`, no turn | `IdleSubmit`, `IdleCancel`, `IdleShutdown`, `IdleBad` |
| `drive_turn`, the submission | `SubmissionReturns`, `SubmissionFails` |
| `drive_turn`, a command | `ActiveCancel`, `ActiveCancelOther`, `ActiveSubmit`, `ActiveShutdown`, `ActiveBad` |
| its call of `cancel` | `CancelReturns`, `CancelFails` |
| `finish_active_shutdown` | `Revoke`, `RevokeReturns`, `RevokeFails`, `TerminalConfirmed`, `TerminalUnconfirmed` |
| `JsonlOutput::send` | `SendFrame`, `SendFails` |

### TextualClient

The client takes the place of that process: it writes where the user acts and reads
`stdout` up to `seen`. All of it runs in one asyncio loop, so a handler is one action up
to its next await; writes of a frame do not wait, because a frame fits the pipe.

| Code | Actions |
|---|---|
| `JsonlBackend.start` | `Spawn` or `SpawnFails`, then `Start`, `StartFails` or `ReadyTimesOut` |
| `_backend_loop`, `events` | `ReadCancelResult`, `ReadTerminal`, `ReadTurnError`, `ReadStopped`, `ReadFails`; `_validate_event` is their `Matches` |
| `submit_message` | `SubmitMessage`, `SubmitFails` |
| `action_cancel_or_clear` | `CancelTurn`, `CancelFailed` |
| `action_quit_orderly` | `Quit` |
| `_shutdown_and_exit`, `shutdown` | `QuitUnstarted`, or `RequestShutdown` and then `QuitEnds` or `QuitTimesOut` |

There is no process while `reader` is `creating`, and `shutdown()` returns at once then.
The loop catches a `BackendError` and goes on with the connection marked failed; an
`OSError` of the creation and the `TimeoutError` of the wait for `ready` are none, so they
end the application with exit code 1.

### TerminalChat

`at` is the await of `run_tui`; `mode` full screen or by line. The submission is pinned
while `select!` also listens to keys; while the reply to a cancellation is awaited
(`cancelling`, `quitting`) it is not polled. `raw` and `restores` are the terminal and the
guard that restores it. Everything that leaves a loop with `?` is `LoopFails`.
`messages` is the transcript, cut at MAX_UI_MESSAGES.

### RuntimeHost

`state`, `deck_run` and `card_state` are the published snapshot, written one lock at a
time, so every write is a step and readers see all states in between. `call`, `phase`
and `at` are the place in `start` or `stop`; `failures` is what it will report.
`service` and `card` say what each callee holds according to the contract the two
traits document: a failed start leaves nothing, an abandoned one may leave a part, a
stop that fails or is abandoned leaves its owner "stuck". Each `invoke_owner` returns
Ok, an error, or TimedOut. Services and Cards are numbers in start order.

### Node

One process at a time, each a new `incarnation` with a new RuntimeHost; `main` is the
place in `run_node`. A signal kills it anywhere before `ctrl_c()` is awaited. The prober
asks at any time; its query is dispatched with the snapshot of that moment (`Dispatch`),
served later (`Serve`), and may be lost at every stage. `readySince` is a history
variable: the incarnations that were Ready since the probe was sent.

### FabricService

`owner` is the place of the lifecycle call in progress, each await a step of its own;
`session`, `queryables` and `bindings` are what start and then the service hold,
`declared` what Zenoh still calls back for. `query[q]` follows one query: the callback
that has read the admission flag (`Arrive`) and sends later (`TrySend`), the queue, the
task with its snapshot (`seen`), the handler, and the end. `in_flight` is the JoinSet,
which keeps tasks that have ended until `join_next` takes them, and that is only at
the limit or at the end.

Three facts of the libraries matter and are modelled as they are. The channel closes
when the senders of all callbacks are gone, the ones that still run included, so the
dispatcher cannot end between a callback's look at the flag and its send. `abort` acts
later: the dispatcher may run on until the runtime drops it (`DispatcherDropped`), and its
tasks may finish the poll they are in (`TaskDropped`). A Session closes with its last
Arc, and a request made through the handle may hold one.

Every operation of Zenoh may fail or time out, with or without effect. The host may
abandon `start` at any of its awaits; it cannot abandon `stop`, whose two budgets of
3 s are shorter than the host's 10 s. The sizes of payloads are one choice
(`RefuseTooLarge`); which binding a query names is left open, because bindings differ only
in their handler. Poisoned locks and a panic of the dispatcher itself are left out.

| Code | Actions |
|---|---|
| `admit_query` | `Arrive`, then `RefuseTooLarge` or `TrySend` |
| `dispatch_requests` | `Dispatch`, `Reap`, `Drain`, `DispatcherEnds`, `DispatcherDropped` |
| `serve_request` | `ServeUnready`, or `ServeReady` and `HandlerReturns`; `TaskDropped` |
| `start_inner` | `StartCall`, `OpenSession`, `DeclareBinding`, `SpawnDispatcher`, `OpenAdmission`, `Publish`; `RollbackBinding`, `RollbackSession`; `AbandonStart` |
| `stop_inner` | `StopCall`, `BeginStop`, `Undeclare`, `JoinDispatcher` or `JoinTimesOut` and `JoinAborted`, `CloseSession`, `FinishStop` |
| `drop` | `Drop`, `DropFields` |
| `FabricHandle::request_one` | `Request`, `RequestEnds` |

### The parts that run alone

`InputEditor` keeps the text as UTF-8 bytes and the cursor as a character count, as the
code does; the promise, in `LineEditor`, is characters on either side of a cursor. Under
the refinement mapping every key must do to the bytes what it promises, and
`String::insert` off a character boundary would have no image.

`DeckCompiler` is the code's single pass with its early returns, checked against a
declarative definition of a valid Deck; the digest is the sequence that is hashed.
`CommandLine` is the scan over options with its was-set flags.

## Runs

| Run | Question | Instance | Distinct states |
|---|---|---|---|
| `conversation` | do all outcomes agree through losses and retries? | 1 Session, 2 turns, 2 inputs, 3 calls | 923,000 |
| `agent_ledger` | limits, cancellation on loss of the owner, drained stop, context | 1 Session of 3 slots, 4 turns, 2 futures, 2 inputs, 3 contents (one long, one oversized) | 264,000 |
| `agent_live` | do turns end, and do stops return? | 1 Session of 2 slots, 3 turns, 2 futures | 264,000 |
| `agent_contract` | does the service implement the contract, eviction included? | 2 Sessions for 1 place, 2 turns, 2 inputs, 2 slots | 22,000 |
| `host` | order, rollback, report, termination | 2 CoreServices, 3 Cards | 2,700 |
| `fabric` | is nobody served by a failed start, or after a stop; clean stop, lost queries; do stop and queries end? | 2 queries, 1 request, 2 bindings, a queue of 1, 1 task | 94,000 |
| `stdio` | one outcome per turn, the sealed one; does it come, and is no turn left running? | 2 turns, 3 frames on stdin | 398,000 |
| `client` | what is on screen, what exit code 0 means; does a turn on screen end, and does quitting? | 2 turns, any number of commands | 480,000 |
| `client_failure` | is a failed connection the adapter's fault? (no: see Findings) | 1 turn | - |
| `chat` | the outcome shown, abandoned turns; does Ctrl-C end? | 2 turns, 4 calls, 3 messages kept | 298,000 |
| `node` | what a return means, and what a probe saw | 2 CoreServices, 1 Card, a peer, 2 incarnations | 85,000 |
| `sequential` | options, Decks, digests, launches, the input line | lines of 4 options; Decks of 2 Cards over strings of 3 bytes; 4 bytes of input | 1,016,000 |

Why these bounds are enough. The limits (64 Sessions, 32 turns, 256 KiB, queue and tasks)
are constants of the models, set so low that each is reached and refused within a few
steps. Four turns for three slots is the least that overflows a Session and lets a turn
run with two answered turns before it; of the contents that an answer may have, one is of
two bytes, so that a context of 7 bytes holds the new input behind two answers unless both
are long, and order, pairing and refusal all occur. For liveness, two slots
and equal contents do. Two futures are the least for a late wakeup to meet a newer turn,
two Sessions for one place the least for an eviction. Three calls are a submission, its retry and a cancellation, in any
order of arrival. Three frames are a submission and two commands on top of it, which is
every pair the adapter can meet during one turn; the client, whose commands are limited
by what the application allows, has no bound but its turns. Four calls and three messages
let the chat cancel twice and drop old messages. Two services and three Cards give
every position (first, middle, last) to a failure. One query fills the task, one the
queue; either may meet a full place. Two incarnations are a restart under a probe. Decks
and names go one past each limit; `"/quit"` is a word of two characters.

Larger instances were checked once and hold: `fabric` with three queries on one binding
(790,000 states; close to five minutes with liveness) and the invariants of `stdio` with
four frames (3,037,000 states). The runs keep the smaller ones.

A cap that cuts behaviours off is named in the cfg (`MAX_CALLS`, `MAX_FRAMES`,
`MAX_INCARNATIONS`, `MAX_ITEMS`, `MAX_OFFERED`): behind it the actor stops acting, and
everything else goes on to its end. `MAX_CALLS` is without
effect in `stdio` and `client`, where calls are bounded by commands, and `MAX_FRAMES` in
`client`. All runs
explore their instance completely, up to three reductions. Symmetry is used where turns or
Sessions are only compared, and in no run with a liveness property. The view of
`agent_ledger` leaves out the history `answers`, which no step reads and of the run's
invariants only the type (which is also proved). The constraint of `client` looks only at behaviours whose first turn has one
given UUID: a UUID is any unused one, nothing depends on which, and only the user's step is
held back, of whom nothing is assumed.

Deadlock checking is off where the system may stop for good: a dropped service, a
stopped host, a process that exits.

**Fairness.** Nothing is ever assumed of the user, the network, the provider, or of
whether the Agent answers.

| Specification | Assumed | Because |
|---|---|---|
| `AgentService!FairSpec` | WF of each future's `TaskStep`, of `WaiterStep` | the deadline is a timer that wakes the future, tokio polls every woken task, and the steps after `select!` do not wait; the owner's wait is woken by the notification. `SelectProvider` is not among them |
| `RuntimeHost!FairSpec` | WF of the call in progress | each of its awaits is bounded by `tokio::time::timeout` |
| `FabricService!FairSpec` | WF of `StopStep`, `DispatcherStep`, callbacks, tasks | the awaits of `stop` have deadlines; threads and tasks run. None for handlers: `QueriesEnd` says that they return, `StopEndsQueries` does not |
| `TextualStdio!StdioFairSpec` | WF of `AdapterStep` | every await but that of the next command has a deadline |
| `TextualClient!ClientFairSpec` | WF of `LoopStep`, `QuitStep`, `AdapterMoves` | the asyncio loop runs what is ready; `shutdown()` has its own timer |
| `TerminalChat!ChatFairSpec` | WF of `Waits`, SF of `SubmissionEnds` | calls have deadlines; `select!` polls its branches in random order, so keys pressed for ever do not starve the submission |

Every property of a run has a mutant: a definition marked "Slip" that takes the place
of the original as a plausible mistake would, and which the property must refute.

## Findings

`client_failure`: `backend.py:36` says of `BackendError`, "The bundled Rust stdio adapter
failed or violated the fixed contract." The user cancels while the turn's terminal is in
the pipe. The adapter, idle again, rightly answers that the turn is not active
(`textual_stdio.rs:120`). The client has read the terminal by then and has no active turn,
so the answer does not match (`backend.py:302`): a healthy adapter is held for failed, the
input is disabled and the exit code is 1.

Met while modelling, not stated as properties:

- The adapter's longest winding down (2 s each to cancel, to confirm, to close, and to
  write) is longer than the 5 s the client waits (`backend.py:21`), so a healthy adapter
  may be killed. `CleanExitSettles` allows it: the exit code is not 0.
- When stdout fails during a turn, the adapter leaves without cancelling it, and the turn
  runs on until its own deadline. `NoTurnLeftRunning` excludes a broken output.
- A command the client writes after `shutdown` is never read, and a turn submitted then
  is dropped silently; `CleanExitSettles` speaks of turns submitted before.
- A quit while the adapter's process is still being created exits with code 0
  (`backend.py:180`) without an adapter having run; `CleanExitSettles` says so.
- An adapter that is slow to say `ready` does not mark the connection failed but ends the
  application: `asyncio.TimeoutError` (`backend.py:104`) is not a `BackendError`
  (`paraegox_textual.py:257`).
- The chat's error exits leave a turn running uncancelled (`tui/mod.rs:140`, `173`, `179`);
  `NoTurnAbandoned` says that it is only the turn the chat was driving.

## Proofs

Each proof module has one inductive invariant, from which its other theorems follow. All
hold for every value of the constants.

**`AgentConversationProofs`.** First the contract. It keeps `ContractInv`: types, one
running turn, and `AnswersSound`, which says that whatever a client was told is still
borne out by the turn's status. `AnswersAgree` and `CancellationHonoured` compare two
answers and are not inductive; they follow because both answers are
borne out by the same status. Then a client's calls: `ConversationInv` adds to the
contract's invariant that every reply on its way was told by the contract
(`RepliesWereTold`) and that the request
being served is the running turn (`ServedIsRunning`). `OutcomesAgree` and `PromiseKept`,
about two calls, follow from `AnswersSound` about the answers behind them. The last section
is what the front ends need: what was told stays told, calls stay.

**`AgentServiceProofs`.** `LedgerInv` joins the types, `OwnerInStep` (the owner's
place agrees with the lifecycle), `ActiveTurnOwned`, `LedgerBounded`,
`UnownedTurnCancelled` and `StoppedIsDrained`. They need each other: sealing a turn adds
one to its Session, which stays bounded because the active turn had a slot
reserved, because the future that seals is the owner of the
active turn and its Session is retained; eviction keeps
the Session because it skips the active one; a service that ends its wait is
drained because the owner only goes on from a look that saw no turn, and
no turn can have been admitted since `stop` took the profile. `StoppedIsDrained` says
the same of a Card: once its `stop` is over no turn is left for a later `stop` to
wait for, unless the deadline dropped the wait (`given_up`) and that turn still runs. There is one lemma per
action; lemmas about `RemoveAt`, `RemoveFirst` and the least position of a set come
first.

The second half proves that the service implements the contract. `ServiceTurnInOnePlace`
comes first, because `LedgerInv` does not say it: a turn has at most one sealed record,
and while it is active it has neither a record nor a tombstone. Without
it the status that the refinement mapping reads off the three could change when one of
them does. Then each locked section of the code is one step of the contract, or none:
`SubmitAdmit` with the eviction in `ensure_session` is one `Admit` that forgets a Session,
`CancelActive` and `CancelEarly` are `AcceptCancel`, `Complete` and `Abort` are `Seal`, an
owner's call is `Interrupt` if there is a turn, and all else is a `Repeat` or nothing
(`ServiceImplementsContract`). What is proved of the contract thereby holds of the
service.

The last section is `ContextIsHistory`. The fold that builds a context is unfolded as a
function on sets of positions; that it puts the n-th answered question and its answer at
places 2n - 1 and 2n is shown by the least position of a counterexample. While the turn is
active its Session is not evicted and no other turn runs, so what is sealed in that Session
meanwhile is a submission that was cancelled early, which has no answer and adds nothing to
the history.

**`TextualProofs`.** First the adapter. `StdioInv` says where a turn can be between its submission on
stdin and its outcome: not read, driven with nothing said of it in `stdout` or `unsent`, or
ended with one outcome in the two together (`OneOutcome`), and that
every terminal among the frames was told by a call of that turn, so that it is the
sealed one (`TerminalIsSealed`). The stdin of the theorem is unbounded. `Accounted` says why
the adapter need not look after a turn any more: its request was refused, it has been told
a terminal, or it was promised a cancellation, or else the adapter still drives it.
`NoTurnLeftRunning` and `GracefulExitSettles` are what is left of it when the
adapter is idle or gone.

Then the client. The adapter's proof leaves its other end open; the client is one
such end, except that it may also kill the adapter, which keeps `StdioInv` as well.
`ClientInv` adds what the two ends know of each other: while all goes well a turn that was
read is driven or its outcome is in a pipe, only a shutdown makes the adapter leave, and
`stopped` is the last thing it says (`Orderly`); every terminal that was read is
on screen, and a reader that ended well read `stopped` (`Reads`); before there is a
process nothing was written or said (`Uncreated`); exit code 0
needs both ends to have ended well, or no process (`Exits`). `ShownIsSealed` and `CleanExitSettles` relate
the two processes.

**`TerminalChatProofs`.** In `ChatInv` the futures that the chat holds are calls about its
turn (`Pinned`), every message tells what the Agent answered (`MessagesSound`), nothing more
is said of a turn that is over (`InOrder`), and every submission of a chat that goes well is
driven, was told a terminal, or had its cancellation answered (`Accounted`). From it
`ToldAsSealed` and `NoTurnAbandoned`, for any number of turns, calls and messages.

**`NodeProofs`.** First the RuntimeHost. None of its properties is inductive: what is held
says nothing of where the call stands. `HostInv` ties what is held to the phase: below the
call's position all runs, above it all is as before (on the way up) or down (on the way
back), and what could not be freed is among the failures. Then the Node around it. Its
process makes the calls an owner may make, so `HostInv` holds in every incarnation;
`RunsHost` says where `run_node` stands while the host's call stands where it does, which
gives `ReturnLeavesNothing` after whatever error or signal; `ProbeInv` says that a
snapshot that is Ready is one of an incarnation that was Ready since the probe was sent,
which gives `ProbeSawReady` although the snapshot is served later than it was taken.

**`FabricServiceProofs`.** `FabricInv` says where queries can be for each state of the
dispatcher (`QueriesByDispatcher`: an ended one leaves none, lost ones mean an aborted one)
and which state that can have at each place of `start` and `stop` (`OwnerInStep`: aborted
means that an error is reported, or the drop). `FailedStartServesNobody` needs
`StartKeepsNothing` and `RequestsRefused`: the Session of a failed start goes with it, and
nothing goes through the handle before a start has succeeded. `StopOutlastsHandlers`
needs that the tasks of the dispatcher end with it, whether it drained or was aborted.

**`DeckCompilerProofs`.** `DeckInv` says that the lock is what compiling returns, and the
launch what binding to that lock returns; the work is in the lemmas on the functions. The
one pass with its early returns accepts a list exactly when every Card is sound and known
and no two keys are the same (`CompilesTheValid`). `Sorted` is specified by what it returns:
that there is such a list needs the order of strings to be strict and total, and it is
the only one because keys differ. So a launch binds each Card of the spec
once (`LaunchBindsTheSpec`), and the order in which a spec lists its Cards is forgotten. The
bytes that are hashed can be read back: a length from the front, the field it frames, and
so on through every Card, hence different Decks have different bytes (`DigestIdentifies`).

**`InputProofs`.** First the input line. `InputEditor` computes on bytes, `LineEditor` on
characters, and the refinement mapping reads the one off the other with `Decoded`, a
recursion over the bytes, so no step can be shown before what such definitions compute is
known for every text. `Encodes(s, cs, at)` says that the bytes `s` are the
characters `cs` one after the other, the n-th ending at `at[n]`. From that alone: a text is
encoded in one way only (`Decoded` finds it); `char_count` is the number of characters,
because the bytes that begin one are one to one with them; `byte_index` of a cursor is the
end of that many characters; what lies before and behind a boundary is a text again; what
is spliced in there, or left out from there, changes one character and no other. So a text with its cursor
shows the characters on either side (`Shows`), and each key moves, adds or
drops what `LineEditor` says. A paste is a fold on both sides, and the two folds agree on
every character up to the first one that does not fit, behind which neither takes more.
`EditorShows`, that there are such characters and the cursor is among
them, is the inductive invariant; under it every key is a step of `LineEditor` or a
stutter (`InputImplementsLine`), and the bytes stay UTF-8 and within their limit
(`InputStaysWhole`).

Then the options. `Scan` goes word by word, and an option is a word or two. On a line of
whole options the positions it stops at are those where an option begins, so what it has
found after so many options is the set of these, or an error because one of them was
not valid or came twice. Which of the two it is depends on the options and not on their
order, and so do the checks that follow (`CommandOrderOfOptionsIrrelevant`, for any number
of options).

Every induction over data in these modules is written out as the least position of a
counterexample.

Assumptions, all named in the modules that declare the constants and evaluated by the
runs: limits are positive, sizes are naturals, the provider returns only `Final`
or `Failed`, the markers for "none" are not values, "cancel" is not an input, strings of a
Deck are sequences of numbers.

Only model-checked:

- All liveness (`TurnsEnd`, `StopsReturn`, `CallsReturn`, `StopEndsQueries`, `QueriesEnd`,
  `TurnsSettled`, `TurnsShown`, `QuitExits`): ENABLED is out of the prover's reach.

## Not modelled

- The model provider: one HTTP request and the decoding of its reply, without state; the
  service's model takes its set of results.
- Kernel identities: parsing of names. Hashes and uuids are taken to be distinct.
- `view.rs`, widgets and layout; the framework's own quit key of the Textual client, which
  bypasses `shutdown()`; the process whose creation a quit overtook.
- Formatting, JSON encoding, tracing, poisoned locks (no code panics while holding one),
  the content of prompts and replies, Zenoh and HTTP themselves.
- `FabricClient`, beyond the call that may fail: one session with one owner.

## Plan

All modules of the plan are written. Every invariant and every refinement that
the runs check is proved. What is left is liveness, which the runs check on their
instances, and the one hazard that no property covers: an output that fails or stalls in
the middle of a turn.
