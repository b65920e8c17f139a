---------------------------- MODULE TextualClient ----------------------------
(***************************************************************************)
(* The bundled Textual client at the other end of the adapter: the         *)
(* JsonlBackend, which owns the adapter's process, and the application on  *)
(* top of it.  Both run in one asyncio loop.  A frame is small enough for  *)
(* the pipe, so that a handler which writes one does not yield before it   *)
(* is done; handlers interleave where they read a frame or wait.           *)
(*                                                                         *)
(* The user submits, cancels and quits when the application allows it.  A  *)
(* definition marked "Slip" is a mistake the code could have made.         *)
(***************************************************************************)

EXTENDS TextualStdio

VARIABLES
    reader,              \* _backend_loop: "creating" the process, "starting", "reading"
    seen,                \* frames of stdout it has read
    active_turn_id, cancel_sent,
    editor,              \* the input field is enabled
    shown,               \* the outcome on screen of each turn
    connected, backend_failed,
    quit_requested,
    shutdown_started,    \* shutdown() is past its look at the process
    killed,              \* _force_stop ended the process
    return_code          \* how the application exited

backend == <<reader, seen, active_turn_id, cancel_sent>>
screen == <<editor, shown, connected, backend_failed>>
ending == <<quit_requested, shutdown_started, killed, return_code>>
appVars == <<backend, screen, ending>>
clientVars == <<stdioVars, appVars>>

Nothing == [kind |-> "none", detail |-> "none"]
OutcomeUnknown == [kind |-> "unknown", detail |-> "none"]

ClientInit ==
    /\ StdioInit
    /\ reader = "creating" /\ seen = 0
    /\ active_turn_id = "none" /\ cancel_sent = FALSE
    /\ editor = FALSE
    /\ shown = [t \in TurnIds |-> Nothing]
    /\ connected = FALSE /\ backend_failed = FALSE
    /\ quit_requested = FALSE /\ shutdown_started = FALSE
    /\ killed = FALSE /\ return_code = "none"

Open == return_code = "none"

-----------------------------------------------------------------------------
(* Writing to the adapter, and ending it.                                  *)

Command(type, t) == [type |-> type, turn |-> t]
Shutdown == [type |-> "shutdown"]

Write(frames) ==
    /\ stdin' = stdin \o frames
    /\ UNCHANGED <<conversationVars, stdin_open, adapterVars>>

\* The process may have exited without the client having noticed.
WriteFails == Exited /\ UNCHANGED stdioVars

Kill ==
    /\ killed' = (killed \/ ~Exited)
    /\ phase' = IF Exited THEN phase ELSE "failed"
    /\ unsent' = IF Exited THEN unsent ELSE <<>>
    /\ UNCHANGED <<conversationVars, input, taken, stdout, broken,
                   turn, submission, verdict>>

MarkFailed == backend_failed' = TRUE /\ connected' = FALSE

-----------------------------------------------------------------------------
(* _backend_loop.                                                          *)

AtEnd == Exited /\ seen = Len(stdout)
Next_event == stdout[seen + 1]
NextIs(types) == seen < Len(stdout) /\ Next_event.type \in types /\ seen' = seen + 1

\* create_subprocess_exec.  Until it returns there is no process.
Spawn ==
    /\ Open /\ reader = "creating"
    /\ reader' = "starting"
    /\ UNCHANGED <<stdioVars, seen, active_turn_id, cancel_sent, screen, ending>>

\* An OSError is no BackendError: the worker dies and the application with it.
SpawnFails ==
    /\ Open /\ reader = "creating"
    /\ return_code' = "1"
    /\ UNCHANGED <<stdioVars, backend, screen, quit_requested, shutdown_started, killed>>

Start ==
    /\ Open /\ reader = "starting"
    /\ NextIs({"ready"})
    /\ reader' = "reading"
    /\ editor' = TRUE
    /\ connected' = TRUE
    /\ UNCHANGED <<stdioVars, active_turn_id, cancel_sent, shown, backend_failed, ending>>

\* stdout ended before "ready": a BackendError, which the loop catches.
StartFails ==
    /\ Open /\ reader = "starting"
    /\ AtEnd
    /\ Kill
    /\ reader' = "done"
    /\ MarkFailed
    /\ UNCHANGED <<seen, active_turn_id, cancel_sent, editor, shown,
                   quit_requested, shutdown_started, return_code>>

\* asyncio.TimeoutError, which it does not catch.
ReadyTimesOut ==
    /\ Open /\ reader = "starting"
    /\ Kill
    /\ reader' = "done"
    /\ return_code' = "1"
    /\ UNCHANGED <<seen, active_turn_id, cancel_sent, screen,
                   quit_requested, shutdown_started>>

\* _validate_event: a cancel result, terminal or error of the active turn.
Matches == Next_event.turn = active_turn_id

Reading == Open /\ reader = "reading"

ReadCancelResult ==
    /\ Reading
    /\ NextIs({"cancel_result"}) /\ Matches
    /\ UNCHANGED <<stdioVars, reader, active_turn_id, cancel_sent, screen, ending>>

EndTurn(outcome) ==
    /\ shown' = [shown EXCEPT ![active_turn_id] = outcome]
    /\ active_turn_id' = "none"
    /\ cancel_sent' = FALSE

ReadTerminal ==
    /\ Reading
    /\ NextIs({"turn_terminal"}) /\ Matches
    /\ EndTurn(Next_event.terminal)
    /\ editor' = ~quit_requested
    /\ UNCHANGED <<stdioVars, reader, connected, backend_failed, ending>>

ReadTurnError ==
    /\ Reading
    /\ NextIs({"turn_error"}) /\ Matches
    /\ EndTurn(OutcomeUnknown)
    /\ editor' = FALSE
    /\ reader' = "done"
    /\ MarkFailed
    /\ UNCHANGED <<stdioVars, ending>>

ReadStopped ==
    /\ Reading
    /\ NextIs({"stopped"})
    /\ reader' = "done"
    /\ connected' = FALSE
    /\ UNCHANGED <<stdioVars, active_turn_id, cancel_sent, editor, shown,
                   backend_failed, ending>>

ReadRejects ==                         \* Slip: the end of stdout is not noticed
    /\ Reading
    /\ NextIs({"cancel_result", "turn_terminal", "turn_error"}) /\ ~Matches
    /\ reader' = "done"
    /\ MarkFailed
    /\ editor' = (editor /\ quit_requested)
    /\ UNCHANGED <<stdioVars, active_turn_id, cancel_sent, shown, ending>>
\* A BackendError ends events(): stdout ended, or the frame is not one that
\* may come now.
ReadFails ==
    /\ Reading
    /\ \/ AtEnd /\ UNCHANGED seen
       \/ NextIs({"cancel_result", "turn_terminal", "turn_error"}) /\ ~Matches
    /\ reader' = "done"
    /\ MarkFailed
    /\ editor' = (editor /\ quit_requested)
    /\ UNCHANGED <<stdioVars, active_turn_id, cancel_sent, shown, ending>>

-----------------------------------------------------------------------------
(* The user.                                                               *)

SubmitMessage(t) ==
    /\ Open /\ editor
    /\ active_turn_id = "none"
    /\ ~Submitted(t)                   \* uuid4()
    /\ Write(<<Command("submit", t)>>)
    /\ active_turn_id' = t
    /\ cancel_sent' = FALSE
    /\ editor' = FALSE
    /\ UNCHANGED <<reader, seen, shown, connected, backend_failed, ending>>

SubmitFails ==
    /\ Open /\ editor
    /\ active_turn_id = "none"
    /\ WriteFails
    /\ MarkFailed
    /\ editor' = FALSE
    /\ UNCHANGED <<backend, shown, ending>>

Cancellable == active_turn_id # "none" /\ ~cancel_sent

CancelTurn ==
    /\ Open /\ Cancellable
    /\ Write(<<Command("cancel", active_turn_id)>>)
    /\ cancel_sent' = TRUE
    /\ UNCHANGED <<reader, seen, active_turn_id, screen, ending>>

CancelFailed ==
    /\ Open /\ Cancellable
    /\ WriteFails
    /\ MarkFailed
    /\ editor' = FALSE
    /\ UNCHANGED <<backend, shown, ending>>

\* action_quit_orderly leaves the rest to a worker of its own.
Quit ==
    /\ Open /\ ~quit_requested
    /\ quit_requested' = TRUE
    /\ UNCHANGED <<stdioVars, backend, screen, shutdown_started, killed, return_code>>

\* shutdown() finds no process: there is nothing to stop, nor to wait for.
QuitUnstarted ==
    /\ Open /\ quit_requested /\ ~shutdown_started
    /\ reader = "creating"
    /\ shutdown_started' = TRUE
    /\ return_code' = IF backend_failed THEN "1" ELSE "0"
    /\ UNCHANGED <<stdioVars, backend, screen, quit_requested, killed>>

\* shutdown() cancels the active turn and sends "shutdown" if the Session is
\* known, by "ready", and the process has not been seen to end; what the
\* process does not take is ignored.
RequestShutdown ==
    /\ Open /\ quit_requested /\ ~shutdown_started
    /\ reader # "creating"
    /\ shutdown_started' = TRUE
    /\ \/ /\ seen > 0
          /\ Write((IF Cancellable THEN <<Command("cancel", active_turn_id)>> ELSE <<>>)
                   \o <<Shutdown>>)
          /\ cancel_sent' = (cancel_sent \/ Cancellable)
       \/ /\ seen = 0 \/ Exited
          /\ UNCHANGED <<stdioVars, cancel_sent>>
    /\ UNCHANGED <<reader, seen, active_turn_id, screen,
                   quit_requested, killed, return_code>>

QuitUnread ==                          \* Slip: _reader_done is not awaited
    /\ Open /\ shutdown_started
    /\ reader # "creating" /\ Exited
    /\ return_code' = IF backend_failed \/ phase = "failed" THEN "1" ELSE "0"
    /\ UNCHANGED <<stdioVars, backend, screen, quit_requested, shutdown_started, killed>>
\* _graceful_exit saw the end of events() and of the process.
QuitEnds ==
    /\ Open /\ shutdown_started
    /\ reader = "done" /\ Exited
    /\ return_code' = IF backend_failed \/ phase = "failed" THEN "1" ELSE "0"
    /\ UNCHANGED <<stdioVars, backend, screen, quit_requested, shutdown_started, killed>>

QuitWaitsForReader ==                  \* Slip: the timer starts after events()
    /\ Open /\ shutdown_started
    /\ reader = "done" /\ ~Exited
    /\ Kill
    /\ return_code' = "1"
    /\ UNCHANGED <<backend, screen, quit_requested, shutdown_started>>
\* SHUTDOWN_TIMEOUT_SECONDS
QuitTimesOut ==
    /\ Open /\ shutdown_started
    /\ ~(reader = "done" /\ Exited)
    /\ Kill
    /\ return_code' = "1"
    /\ UNCHANGED <<backend, screen, quit_requested, shutdown_started>>

-----------------------------------------------------------------------------

LoopStep == Spawn \/ SpawnFails \/ Start \/ StartFails \/ ReadyTimesOut
            \/ ReadCancelResult \/ ReadTerminal \/ ReadTurnError \/ ReadStopped \/ ReadFails
UserStep == (\E t \in TurnIds : SubmitMessage(t)) \/ SubmitFails
            \/ CancelTurn \/ CancelFailed \/ Quit
QuitStep == QuitUnstarted \/ RequestShutdown \/ QuitEnds \/ QuitTimesOut
AdapterMoves == reader # "creating" /\ AdapterStep /\ UNCHANGED appVars

ClientNext ==
    \/ LoopStep \/ UserStep \/ QuitStep
    \/ AdapterMoves
    \/ AgentStep /\ UNCHANGED appVars

ClientSpec == ClientInit /\ [][ClientNext]_clientVars

\* The loop reads what there is, shutdown() has its timer, and the adapter
\* its deadlines.  The user need do nothing, nor the Agent answer.
ClientFairSpec ==
    /\ ClientSpec
    /\ WF_clientVars(LoopStep) /\ WF_clientVars(QuitStep) /\ WF_clientVars(AdapterMoves)

-----------------------------------------------------------------------------

\* The outcome on screen is the one the Agent sealed, for as long as the
\* application shows it.
ShownIsSealed ==
    \A t \in TurnIds :
        shown[t] \in Terminals =>
            /\ status[Session][t].phase = "sealed"
            /\ status[Session][t].terminal = shown[t]

SubmittedInTime(i) ==
    stdin[i].type = "submit" /\ \A j \in 1 .. i - 1 : stdin[j] # Shutdown

\* An exit code of 0 means that every turn submitted before "shutdown" was
\* sent has its terminal on screen, that the adapter's process, if there was
\* one, succeeded, and that none was forced to end.
CleanExitSettles ==
    return_code = "0" =>
        /\ ~killed
        /\ reader = "creating" \/ phase = "succeeded"
        /\ \A i \in DOMAIN stdin : SubmittedInTime(i) => shown[stdin[i].turn] \in Terminals

\* A turn on screen does not stay open: it gets an outcome, which is all that
\* makes room for another one, or the client says that the connection failed,
\* or it is being closed.
TurnsShown ==
    active_turn_id # "none" ~> (active_turn_id = "none" \/ backend_failed \/ quit_requested)

\* Quitting ends.
QuitExits == quit_requested ~> ~Open

\* backend.py, of BackendError: "The bundled Rust stdio adapter failed or
\* violated the fixed contract."  So while the client holds the connection
\* for failed, the adapter has ended, or its output failed, or it gave up.
FailureIsTheAdapters == backend_failed => (Exited \/ broken \/ verdict # "graceful")
=============================================================================
