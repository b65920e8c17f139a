---------------------------- MODULE TextualStdio ----------------------------
(***************************************************************************)
(* The JSONL adapter: a process that reads commands from stdin, drives one *)
(* turn at a time through an AgentConversationClient, and writes frames to *)
(* stdout.                                                                 *)
(*                                                                         *)
(* stdin and stdout are kept whole, so that properties can speak of all    *)
(* that was said; taken is how much of stdin was read.  A frame that cannot*)
(* be decoded, is too long, or names another version or Session is "bad":  *)
(* the adapter treats them alike.  A handler leaves the frames it writes   *)
(* in unsent, from where they go out one by one; each send may fail or     *)
(* time out.                                                               *)
(*                                                                         *)
(* Here any process may be at the other end, sending frames in any order;  *)
(* it only names each turn it submits anew (TextualClient is the one that  *)
(* is bundled).  A definition marked "Slip" is a mistake the code could    *)
(* have made.                                                              *)
(***************************************************************************)

EXTENDS AgentConversation, FiniteSets

CONSTANT MAX_FRAMES      \* bound of the process at the other end

ASSUME StdioAssumption == MAX_FRAMES \in Nat

VARIABLES
    stdin, stdin_open, taken,
    stdout,
    unsent,              \* frames to be sent before the adapter goes on
    phase,               \* what the adapter awaits
    turn,                \* turn_id of drive_turn
    submission,          \* the call it pinned: a position in calls
    verdict,             \* how run_protocol will return
    broken               \* a send failed

input == <<stdin, stdin_open>>
output == <<stdout, unsent, broken>>
control == <<phase, turn, submission, verdict>>
adapterVars == <<taken, output, control>>
stdioVars == <<conversationVars, input, adapterVars>>

-----------------------------------------------------------------------------
(* Frames.                                                                 *)

Commands == [type : {"submit", "cancel"}, turn : TurnIds]
       \cup [type : {"shutdown", "bad"}]

Ready == [type |-> "ready"]
CancelResult(t, r) == [type |-> "cancel_result", turn |-> t, result |-> r]
TurnTerminal(t, o) == [type |-> "turn_terminal", turn |-> t, terminal |-> o]
TurnError(t) == [type |-> "turn_error", turn |-> t]
Stopped == [type |-> "stopped"]

CancelStatuses == {"CancellationRequested", "AlreadyTerminal", "NotActive"}

Frames == {Ready, Stopped}
     \cup [type : {"cancel_result"}, turn : TurnIds, result : CancelStatuses]
     \cup [type : {"turn_terminal"}, turn : TurnIds, terminal : Terminals]
     \cup [type : {"turn_error"}, turn : TurnIds]

Phases == {"connecting", "idle", "driving", "cancelling",
           "winding_down", "revoking", "confirming",
           "closing", "stopping", "succeeded", "failed"}
Exited == phase \in {"succeeded", "failed"}

StdioInit ==
    /\ ConversationInit
    /\ stdin = <<>> /\ stdin_open = TRUE /\ taken = 0
    /\ stdout = <<>> /\ unsent = <<>> /\ broken = FALSE
    /\ phase = "connecting"
    /\ turn = "none"
    /\ submission = 0
    /\ verdict = "graceful"

-----------------------------------------------------------------------------
(* JsonlOutput::send.                                                      *)

\* The adapter awaits something else than its output.
At(p) == phase = p /\ unsent = <<>>

SendFrame ==
    /\ unsent # <<>>
    /\ stdout' = Append(stdout, Head(unsent))
    /\ unsent' = Tail(unsent)
    /\ UNCHANGED <<conversationVars, taken, broken, control>>

\* The error leaves run_protocol, whatever it was doing, or run_textual_stdio.
SendFails ==
    /\ unsent # <<>>
    /\ unsent' = <<>>
    /\ broken' = TRUE
    /\ verdict' = "error"
    /\ phase' = IF phase = "stopping" THEN "failed" ELSE "closing"
    /\ UNCHANGED <<conversationVars, taken, stdout, turn, submission>>

Say(frames) == unsent' = frames /\ UNCHANGED <<stdout, broken>>

-----------------------------------------------------------------------------
(* run_textual_stdio and run_protocol.                                     *)

Connect ==
    /\ At("connecting")
    /\ \/ phase' = "idle" /\ Say(<<Ready>>)
       \/ phase' = "failed" /\ UNCHANGED output
    /\ UNCHANGED <<conversationVars, taken, turn, submission, verdict>>

Unread == taken < Len(stdin)
Next_command == stdin[taken + 1]
Takes(type) == Unread /\ Next_command.type = type /\ taken' = taken + 1

\* stdin is at its end, and what was buffered has been read.
EndOfInput == ~Unread /\ ~stdin_open /\ UNCHANGED taken

Close(v) ==
    /\ phase' = "closing"
    /\ verdict' = v
    /\ UNCHANGED <<turn, submission>>

IdleSubmit ==
    /\ At("idle")
    /\ Takes("submit")
    /\ \E i \in Inputs : Call(Next_command.turn, i)
    /\ turn' = Next_command.turn
    /\ submission' = Len(calls) + 1
    /\ phase' = "driving"
    /\ UNCHANGED <<contractVars, output, verdict>>

\* A cancellation without an active turn is not passed on.
IdleCancel ==
    /\ At("idle")
    /\ Takes("cancel")
    /\ Say(<<CancelResult(Next_command.turn, "NotActive")>>)
    /\ UNCHANGED <<conversationVars, control>>

IdleShutdown ==
    /\ At("idle")
    /\ Takes("shutdown") \/ EndOfInput
    /\ Close("graceful")
    /\ UNCHANGED <<conversationVars, output>>

IdleBad ==
    /\ At("idle")
    /\ Takes("bad")
    /\ Close("error")
    /\ UNCHANGED <<conversationVars, output>>

CloseClient ==
    /\ At("closing")
    /\ \/ verdict = "graceful" /\ phase' = "stopping" /\ Say(<<Stopped>>)
       \/ phase' = "failed" /\ UNCHANGED output
    /\ UNCHANGED <<conversationVars, taken, turn, submission, verdict>>

Succeed ==
    /\ At("stopping")
    /\ phase' = "succeeded"
    /\ UNCHANGED <<conversationVars, taken, output, turn, submission, verdict>>

-----------------------------------------------------------------------------
(* drive_turn: the select! between the submission and the next command.    *)

OutcomeAssumed(reply, t) ==            \* Slip: a turn told to stop has stopped
    LET asked == \E c \in DOMAIN calls : calls[c].turn = t /\ calls[c].asked = "cancel"
    IN  <<TurnTerminal(t, IF asked THEN Cancelled ELSE reply)>>
Outcome(reply, t) == <<TurnTerminal(t, reply)>>

BackToIdle ==
    /\ phase' = "idle"
    /\ turn' = "none"
    /\ submission' = 0
    /\ UNCHANGED verdict

SubmissionReturns ==
    /\ At("driving")
    /\ Returns(submission)
    /\ Say(Outcome(calls[submission].reply, turn))
    /\ BackToIdle
    /\ UNCHANGED <<contractVars, taken>>

\* Its deadline has passed, the reply is an error, or it was never sent.
GivesUp(c) ==
    IF calls[c].client = "failed" THEN UNCHANGED calls ELSE Fails(c)

SubmissionUnbounded ==                 \* Slip: no deadline of its own
    /\ At("driving")
    /\ calls[submission].client = "failed" /\ UNCHANGED calls
    /\ Say(<<TurnError(turn)>>)
    /\ Close("fatal")
    /\ UNCHANGED <<contractVars, taken>>
SubmissionFails ==
    /\ At("driving")
    /\ GivesUp(submission)
    /\ Say(<<TurnError(turn)>>)
    /\ Close("fatal")
    /\ UNCHANGED <<contractVars, taken>>

\* finish_active_shutdown begins, to return v once the turn's end is known.
WindDown(v) ==
    /\ phase' = "winding_down"
    /\ verdict' = v
    /\ UNCHANGED <<conversationVars, turn, submission>>

ActiveShutdown ==
    /\ At("driving")
    /\ Takes("shutdown") \/ EndOfInput
    /\ WindDown("graceful")
    /\ UNCHANGED output

CloseAtOnce ==                         \* Slip: the turn is not wound down
    /\ At("driving")
    /\ Takes("bad")
    /\ Close("error")
    /\ UNCHANGED <<conversationVars, output>>
\* fail_active_protocol
ActiveBad ==
    /\ At("driving")
    /\ Takes("bad")
    /\ WindDown("error")
    /\ UNCHANGED output

\* Another turn: both are given up.
ActiveSubmit ==
    /\ At("driving")
    /\ Takes("submit")
    /\ Say(<<TurnError(Next_command.turn)>>)
    /\ WindDown("fatal")

ActiveCancelOther ==
    /\ At("driving")
    /\ Takes("cancel")
    /\ Next_command.turn # turn
    /\ Say(<<CancelResult(Next_command.turn, "NotActive")>>)
    /\ UNCHANGED <<conversationVars, control>>

ActiveCancel ==
    /\ At("driving")
    /\ Takes("cancel")
    /\ Next_command.turn = turn
    /\ Call(turn, "cancel")
    /\ phase' = "cancelling"
    /\ UNCHANGED <<contractVars, output, turn, submission, verdict>>

\* The call that client.cancel() awaits is always the last one made.
CancelCall == Len(calls)

Status(reply) == IF reply \in Terminals THEN "AlreadyTerminal" ELSE reply.kind

CancelLeftPending ==                   \* Slip: the submission is polled again
    /\ At("cancelling")
    /\ Returns(CancelCall)
    /\ LET reply == calls[CancelCall].reply
       IN  Say(<<CancelResult(turn, Status(reply))>>
               \o IF reply \in Terminals THEN Outcome(reply, turn) ELSE <<>>)
    /\ phase' = "driving"
    /\ UNCHANGED <<contractVars, taken, turn, submission, verdict>>
\* A turn that was sealed already ends here, and its submission is dropped.
CancelReturns ==
    /\ At("cancelling")
    /\ Returns(CancelCall)
    /\ LET reply == calls[CancelCall].reply
       IN  IF reply \in Terminals
           THEN /\ Say(<<CancelResult(turn, Status(reply))>> \o Outcome(reply, turn))
                /\ BackToIdle
           ELSE /\ Say(<<CancelResult(turn, Status(reply))>>)
                /\ phase' = "driving"
                /\ UNCHANGED <<turn, submission, verdict>>
    /\ UNCHANGED <<contractVars, taken>>

CancelFails ==
    /\ At("cancelling")
    /\ Fails(CancelCall)
    /\ Say(<<TurnError(turn)>>)
    /\ Close("fatal")
    /\ UNCHANGED <<contractVars, taken>>

-----------------------------------------------------------------------------
(* finish_active_shutdown: cancel, and confirm how the turn ended.         *)

Revoke ==
    /\ At("winding_down")
    /\ Call(turn, "cancel")
    /\ phase' = "revoking"
    /\ UNCHANGED <<contractVars, taken, output, turn, submission, verdict>>

RevokeReturns ==
    /\ At("revoking")
    /\ Returns(CancelCall)
    /\ LET reply == calls[CancelCall].reply
       IN  IF reply \in Terminals
           THEN /\ Say(<<CancelResult(turn, Status(reply))>> \o Outcome(reply, turn))
                /\ Close(verdict)
           ELSE /\ Say(<<CancelResult(turn, Status(reply))>>)
                /\ phase' = "confirming"
                /\ UNCHANGED <<turn, submission, verdict>>
    /\ UNCHANGED <<contractVars, taken>>

Unconfirmed == IF verdict = "graceful" THEN "fatal" ELSE verdict

RevokeFails ==
    /\ At("revoking")
    /\ Fails(CancelCall)
    /\ Say(<<TurnError(turn)>>)
    /\ Close(Unconfirmed)
    /\ UNCHANGED <<contractVars, taken>>

TerminalConfirmed ==
    /\ At("confirming")
    /\ Returns(submission)
    /\ Say(Outcome(calls[submission].reply, turn))
    /\ Close(verdict)
    /\ UNCHANGED <<contractVars, taken>>

\* CONTROL_TIMEOUT, or the submission ends in an error.
TerminalUnconfirmed ==
    /\ At("confirming")
    /\ GivesUp(submission)
    /\ Say(<<TurnError(turn)>>)
    /\ Close(Unconfirmed)
    /\ UNCHANGED <<contractVars, taken>>

AdapterStep ==
    /\ \/ SendFrame \/ SendFails
       \/ Connect \/ IdleSubmit \/ IdleCancel \/ IdleShutdown \/ IdleBad
       \/ SubmissionReturns \/ SubmissionFails
       \/ ActiveShutdown \/ ActiveBad \/ ActiveSubmit
       \/ ActiveCancelOther \/ ActiveCancel \/ CancelReturns \/ CancelFails
       \/ Revoke \/ RevokeReturns \/ RevokeFails
       \/ TerminalConfirmed \/ TerminalUnconfirmed
       \/ CloseClient \/ Succeed
    /\ UNCHANGED input

-----------------------------------------------------------------------------
(* Any process at the other end.                                           *)

Submitted(t) == \E i \in DOMAIN stdin : stdin[i] = [type |-> "submit", turn |-> t]

WriteCommand ==
    /\ stdin_open
    /\ Len(stdin) < MAX_FRAMES
    /\ \E f \in Commands :
          /\ f.type = "submit" => ~Submitted(f.turn)
          /\ stdin' = Append(stdin, f)
    /\ UNCHANGED <<conversationVars, stdin_open, adapterVars>>

CloseInput ==
    /\ stdin_open
    /\ stdin_open' = FALSE
    /\ UNCHANGED <<conversationVars, stdin, adapterVars>>

AgentStep == NodeStep /\ UNCHANGED <<input, adapterVars>>

StdioNext == AdapterStep \/ AgentStep \/ WriteCommand \/ CloseInput

StdioSpec == StdioInit /\ [][StdioNext]_stdioVars

\* Every await of the adapter has a deadline but the next command's; when a
\* handler is due it runs.
StdioFairSpec == StdioSpec /\ WF_stdioVars(AdapterStep)

-----------------------------------------------------------------------------
(* What the process at the other end may rely on.                          *)

TerminalsOf(t) == {i \in DOMAIN stdout :
                      stdout[i].type = "turn_terminal" /\ stdout[i].turn = t}
ErrorsOf(t) == {i \in DOMAIN stdout : stdout[i] = TurnError(t)}
Taken(t) == \E i \in 1 .. taken : stdin[i] = [type |-> "submit", turn |-> t]

\* A turn gets one outcome: one terminal or one error, however its result,
\* its cancellation, a shutdown and errors of the protocol meet.
OneOutcome == \A t \in TurnIds : Cardinality(TerminalsOf(t) \cup ErrorsOf(t)) <= 1

\* The terminal written is the one the Agent sealed, by whichever call the
\* adapter learnt it.
TerminalIsSealed ==
    \A t \in TurnIds : \A i \in TerminalsOf(t) :
        /\ status[Session][t].phase = "sealed"
        /\ status[Session][t].terminal = stdout[i].terminal

\* However the adapter ends, by a shutdown, the end of stdin, a fatal error
\* or a broken protocol, no turn is left running at the Agent without having
\* been told to stop, unless the output failed or a call of this turn did.
NoTurnLeftRunning ==
    (Exited /\ ~broken) =>
        \A t \in TurnIds :
            \/ status[Session][t].phase = "running" => status[Session][t].cancelled
            \/ \E c \in DOMAIN calls : calls[c].turn = t /\ calls[c].client = "failed"

\* A submission that was read gets its outcome, or the output is broken.
TurnsSettled ==
    \A t \in TurnIds :
        Taken(t) ~> (TerminalsOf(t) # {} \/ ErrorsOf(t) # {} \/ broken)
=============================================================================
