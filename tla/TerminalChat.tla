----------------------------- MODULE TerminalChat -----------------------------
(***************************************************************************)
(* The built-in chat of `paraegox tui`: full screen on a terminal, line by *)
(* line on a pipe, with one AgentConversationClient and one turn at a time.*)
(*                                                                         *)
(* What a key does to the input line is in InputEditor; here the user      *)
(* submits, cancels and quits whenever the chat listens.  Whatever leaves  *)
(* a loop with `?` (drawing, the event stream, stdin, stdout, a signal) may*)
(* fail at any time, and is one action per loop.  A definition marked      *)
(* "Slip" is a mistake the code could have made.                           *)
(***************************************************************************)

EXTENDS AgentConversation

CONSTANT MAX_UI_MESSAGES

ASSUME ChatAssumption == MAX_UI_MESSAGES \in Nat \ {0}

VARIABLES
    mode,                \* "fullscreen" or "line"
    at,                  \* what run_tui awaits
    turn,                \* turn_id of the turn being driven
    submission,          \* its call, a position in calls; 0 once dropped
    messages,            \* shown, or in line mode written
    agent_state,
    raw,                 \* the terminal is in raw mode, on its other screen
    restores,            \* attempts made to restore it
    result               \* what the conversation has come to, then run_tui

loop == <<mode, at, turn, submission>>
app == <<messages, agent_state>>
screen == <<raw, restores>>
chatVars == <<conversationVars, loop, app, screen, result>>

TheInput == [kind |-> "Input", detail |-> "none"]
Asked(t) == [role |-> "User", turn |-> t, says |-> TheInput]
Shown(t, outcome) == [role |-> IF outcome.kind = "Final" THEN "Agent" ELSE "System",
                      turn |-> t, says |-> outcome]
Requested(t) == [role |-> "System", turn |-> t, says |-> CancellationRequested]

ChatInit ==
    /\ ConversationInit
    /\ mode \in {"fullscreen", "line"}
    /\ at = "connecting"
    /\ turn = "none" /\ submission = 0
    /\ messages = <<>> /\ agent_state = "Idle"
    /\ raw = FALSE /\ restores = 0
    /\ result = "ok"

-----------------------------------------------------------------------------
(* ChatApp.                                                                *)

Pushed(list, message) ==
    IF mode = "line" \/ Len(list) < MAX_UI_MESSAGES
    THEN Append(list, message)
    ELSE Append(Tail(list), message)

begin_turn(t) ==
    /\ messages' = Pushed(messages, Asked(t))
    /\ agent_state' = "Waiting"

finish_turn(t, outcome) ==
    /\ messages' = Pushed(messages, Shown(t, outcome))
    /\ agent_state' = IF outcome.kind \in {"Final", "Cancelled"} THEN "Idle" ELSE "Error"

cancellation_requested(t) ==
    /\ messages' = Pushed(messages, Requested(t))
    /\ UNCHANGED agent_state

-----------------------------------------------------------------------------
(* run_tui: connect, run the conversation, close.                          *)

Connect ==
    /\ at = "connecting"
    /\ \/ at' = (IF mode = "line" THEN "idle" ELSE "initialising") /\ UNCHANGED result
       \/ at' = "exited" /\ result' = "error"
    /\ UNCHANGED <<conversationVars, mode, turn, submission, app, screen>>

\* When try_init() fails, what it did is undone, if that works.
TakeScreen ==
    /\ at = "initialising"
    /\ \/ raw' = TRUE /\ at' = "idle" /\ UNCHANGED <<restores, result>>
       \/ raw' \in BOOLEAN /\ restores' = 1 /\ at' = "closing" /\ result' = "error"
    /\ UNCHANGED <<conversationVars, mode, turn, submission, app>>

\* The conversation ends; a submission still awaited is dropped.
Leave(r) ==
    /\ at' = IF mode = "fullscreen" THEN "restoring" ELSE "closing"
    /\ result' = r
    /\ submission' = 0
    /\ UNCHANGED <<mode, turn, screen>>

Restore ==
    /\ at = "restoring"
    /\ restores' = 1
    /\ \/ raw' = FALSE /\ at' = "closing" /\ UNCHANGED result
       \/ UNCHANGED raw /\ at' = "dropping" /\ result' = "error"
    /\ UNCHANGED <<conversationVars, mode, turn, submission, app>>

\* The guard is still armed, and tries again when it is dropped.
RestoreAgain ==
    /\ at = "dropping"
    /\ restores' = 2
    /\ raw' \in {raw, FALSE}
    /\ at' = "closing"
    /\ UNCHANGED <<conversationVars, mode, turn, submission, app, result>>

CloseClient ==
    /\ at = "closing"
    /\ at' = "exited"
    /\ result' \in {result, "error"}
    /\ UNCHANGED <<conversationVars, mode, turn, submission, app, screen>>

-----------------------------------------------------------------------------
(* The idle loop.                                                          *)

Fresh(t) == \A c \in DOMAIN calls : calls[c].turn # t      \* TurnId::new()

SubmitTurn(t) ==
    /\ at = "idle" /\ Fresh(t)
    /\ \E i \in Inputs : Call(t, i)
    /\ submission' = Len(calls) + 1
    /\ turn' = t
    /\ begin_turn(t)
    /\ at' = "driving"
    /\ UNCHANGED <<contractVars, mode, screen, result>>

QuitIdle ==
    /\ at = "idle"
    /\ Leave("ok")
    /\ UNCHANGED <<conversationVars, app>>

\* An error of the terminal, of stdin or stdout, or of the signal.
LoopFails ==
    /\ at \in {"idle", "driving"}
    /\ Leave("error")
    /\ UNCHANGED <<conversationVars, app>>

-----------------------------------------------------------------------------
(* The turn: drive_active_turn, or the select! of run_line_conversation.   *)

TurnOver(outcome) ==
    /\ finish_turn(turn, outcome)
    /\ at' = "idle"
    /\ turn' = "none" /\ submission' = 0
    /\ UNCHANGED <<mode, screen, result>>

\* In line mode any outcome but an answer is an error of the program.
SubmissionReturns ==
    /\ at = "driving"
    /\ Returns(submission)
    /\ LET outcome == calls[submission].reply
       IN  IF mode = "line" /\ outcome.kind # "Final"
           THEN finish_turn(turn, outcome) /\ Leave("error")
           ELSE TurnOver(outcome)
    /\ UNCHANGED contractVars

SubmissionUnbounded ==                 \* Slip: no deadline of its own
    /\ at = "driving"
    /\ calls[submission].client = "failed" /\ UNCHANGED calls
    /\ Leave("error")
    /\ UNCHANGED <<contractVars, app>>
SubmissionFails ==
    /\ at = "driving"
    /\ \/ calls[submission].client = "failed" /\ UNCHANGED calls
       \/ Fails(submission)
    /\ Leave("error")
    /\ UNCHANGED <<contractVars, app>>

\* Esc; MAX_CALLS bounds how often.
CancelTurn ==
    /\ at = "driving" /\ mode = "fullscreen"
    /\ Len(calls) < MAX_CALLS
    /\ Call(turn, "cancel")
    /\ at' = "cancelling"
    /\ UNCHANGED <<contractVars, mode, turn, submission, app, screen, result>>

CancelCall == Len(calls)
CancelReply == calls[CancelCall].reply

CancelAssumed ==                       \* Slip: a turn told to stop has stopped
    /\ at = "cancelling"
    /\ Returns(CancelCall)
    /\ IF CancelReply = NotActive
       THEN at' = "driving" /\ UNCHANGED <<mode, turn, submission, app, screen, result>>
       ELSE TurnOver(IF CancelReply \in Terminals THEN CancelReply ELSE Cancelled)
    /\ UNCHANGED contractVars
CancelReturns ==
    /\ at = "cancelling"
    /\ Returns(CancelCall)
    /\ \/ CancelReply \in Terminals /\ TurnOver(CancelReply)
       \/ /\ CancelReply \notin Terminals
          /\ IF CancelReply = NotActive THEN UNCHANGED app
                                        ELSE cancellation_requested(turn)
          /\ at' = "driving"
          /\ UNCHANGED <<mode, turn, submission, screen, result>>
    /\ UNCHANGED contractVars

QuitAtOnce ==                          \* Slip: the turn is dropped, not cancelled
    /\ at = "driving"
    /\ Leave("ok")
    /\ UNCHANGED <<conversationVars, app>>
\* Ctrl-C while a turn is driven.
QuitActive ==
    /\ at = "driving"
    /\ Call(turn, "cancel")
    /\ at' = "quitting"
    /\ UNCHANGED <<contractVars, mode, turn, submission, app, screen, result>>

QuitReturns ==
    /\ at = "quitting"
    /\ Returns(CancelCall)
    /\ CASE mode = "line" \/ CancelReply = NotActive -> UNCHANGED app
         [] OTHER -> IF CancelReply \in Terminals THEN finish_turn(turn, CancelReply)
                                                  ELSE cancellation_requested(turn)
    /\ Leave("ok")
    /\ UNCHANGED contractVars

\* The cancellation of Esc or Ctrl-C fails.
CancelWaits ==                         \* Slip: no deadline for a cancellation
    /\ at \in {"cancelling", "quitting"}
    /\ calls[CancelCall].server = "ended" /\ Fails(CancelCall)
    /\ Leave("error")
    /\ UNCHANGED <<contractVars, app>>
CancelFails ==
    /\ at \in {"cancelling", "quitting"}
    /\ Fails(CancelCall)
    /\ Leave("error")
    /\ UNCHANGED <<contractVars, app>>

-----------------------------------------------------------------------------

UserStep == (\E t \in TurnIds : SubmitTurn(t)) \/ CancelTurn \/ QuitIdle \/ QuitActive

Waits == CancelReturns \/ CancelFails \/ QuitReturns
         \/ Connect \/ TakeScreen \/ Restore \/ RestoreAgain \/ CloseClient

SubmissionEnds == SubmissionReturns \/ SubmissionFails

AgentMoves == NodeStep /\ UNCHANGED <<loop, app, screen, result>>

ChatNext == UserStep \/ LoopFails \/ SubmissionEnds \/ Waits \/ AgentMoves

ChatSpec == ChatInit /\ [][ChatNext]_chatVars

\* Every call has its deadline.  select! polls its branches in random order:
\* keys pressed again and again do not keep it from the submission.  Nothing
\* is assumed of the user, nor of the Agent.
ChatFairSpec ==
    ChatSpec /\ WF_chatVars(Waits) /\ SF_chatVars(SubmissionEnds)

-----------------------------------------------------------------------------

\* The outcome the user reads of a turn is the one the Agent sealed, whether
\* the submission or a cancellation brought it, and it is Cancelled if the
\* chat said that a cancellation was accepted.
ToldAsSealed ==
    \A i \in DOMAIN messages :
        LET m == messages[i] IN
        m.says \in Terminals =>
            /\ status[Session][m.turn].phase = "sealed"
            /\ status[Session][m.turn].terminal = m.says
            /\ \A j \in DOMAIN messages :
                  messages[j] = Requested(m.turn) => j < i /\ m.says = Cancelled

\* A chat that exits leaves no turn behind that runs, or is yet to run, and
\* was not told to stop.  Two turns may be left so: one the Agent said is not
\* there to be told, and, when the chat exits with an error, the one it was
\* driving, which then runs until its own deadline.
NoTurnAbandoned ==
    at = "exited" =>
        \A t \in TurnIds :
            \/ status[Session][t].phase = "running" => status[Session][t].cancelled
            \/ \E c \in DOMAIN calls : calls[c].turn = t /\ calls[c].reply = NotActive
            \/ result # "ok" /\ turn = t

\* Ctrl-C ends the chat although the Agent may never answer.
QuitExits == (at = "quitting") ~> (at = "exited")

=============================================================================
