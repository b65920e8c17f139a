-------------------------- MODULE TerminalChatProofs --------------------------
(***************************************************************************)
(* What the user of the built-in chat may believe of what it shows, and    *)
(* what it leaves behind, for any number of turns, calls and messages, in  *)
(* both modes, and any behaviour of the network and the Agent.             *)
(*                                                                         *)
(* A message shows what the Agent answered, and an answer stays borne out. *)
(* That a cancellation is never shown as accepted after its turn's outcome *)
(* needs to know that the chat says nothing more of a turn once it is over,*)
(* and that a new turn is one no message speaks of.  That a chat which     *)
(* ends well abandons no turn follows from an account of every submission: *)
(* it is awaited, or it ended, or its cancellation was answered.           *)
(***************************************************************************)

EXTENDS TerminalChat, AgentConversationProofs

-----------------------------------------------------------------------------
(* The invariant.                                                          *)

\* Where a turn is being driven.
Driven == {"driving", "cancelling", "quitting"}

Messages == [role : {"User", "Agent", "System"}, turn : TurnIds,
             says : Terminals \cup {TheInput, CancellationRequested}]

Typed ==
    /\ ConversationInv /\ SubmissionsGetTerminals /\ RepliedIsEnded
    /\ mode \in {"fullscreen", "line"}
    /\ messages \in Seq(Messages)

\* The futures the chat holds are calls about its turn.
Pinned ==
    /\ at \in Driven =>
        /\ turn \in TurnIds
        /\ submission \in DOMAIN calls
        /\ calls[submission].turn = turn /\ IsSubmit(submission)
    /\ at \in {"cancelling", "quitting"} =>
        /\ CancelCall \in DOMAIN calls
        /\ calls[CancelCall].turn = turn /\ calls[CancelCall].asked = "cancel"

Accepted(t) == Answer(Session, t, "cancel", CancellationRequested) \in answers

\* A message speaks of a turn that was submitted, and tells what was answered.
Sound(m) ==
    /\ m.says \in Terminals => ToldOutcome(m.turn, m.says)
    /\ m = Requested(m.turn) => Accepted(m.turn)
    /\ \E c \in DOMAIN calls : calls[c].turn = m.turn

MessagesSound == \A i \in DOMAIN messages : Sound(messages[i])

NotOver(t) == \A i \in DOMAIN messages : messages[i].says \in Terminals => messages[i].turn # t

\* Of a turn that is over nothing more is said.
InOrder ==
    /\ \A i, j \in DOMAIN messages :
        (messages[i].says \in Terminals /\ messages[j] = Requested(messages[i].turn)) => j < i
    /\ at \in Driven => NotOver(turn)

\* What became of a turn that was submitted: one is driven, or was when
\* something went wrong.
AccountedFor(t) ==
    \/ (at \in Driven \/ result # "ok") /\ turn = t
    \/ \E o \in Terminals : ToldOutcome(t, o)
    \/ Accepted(t)
    \/ \E c \in DOMAIN calls : calls[c].turn = t /\ calls[c].reply = NotActive

Accounted ==
    /\ RunningWasAsked
    /\ at \in Driven \cup {"connecting", "initialising", "idle"} => result = "ok"
    /\ \A c \in DOMAIN calls : IsSubmit(c) => AccountedFor(calls[c].turn)

ChatInv == Typed /\ Pinned /\ MessagesSound /\ InOrder /\ Accounted

-----------------------------------------------------------------------------
(* Each step of the chat is a step of its client, or none.                 *)

LEMMA ChatMoves ==
    ASSUME Typed, Pinned, ChatNext
    PROVE  ClientMove \/ NodeStep \/ UNCHANGED conversationVars
<1>1. ASSUME NEW c \in DOMAIN calls, Returns(c) \/ Fails(c), UNCHANGED contractVars
      PROVE  ClientMove
  BY <1>1 DEF ClientMove
<1>2. ASSUME NEW t \in TurnIds, NEW asked \in Inputs \cup {"cancel"}, Call(t, asked),
             UNCHANGED contractVars
      PROVE  ClientMove
  BY <1>2 DEF ClientMove
<1>3. ASSUME NEW t \in TurnIds, SubmitTurn(t) PROVE ClientMove
  BY <1>2, <1>3 DEF SubmitTurn
<1>4. CASE CancelTurn \/ QuitActive
  BY <1>2, <1>4 DEF CancelTurn, QuitActive, Pinned, Driven
<1>5. CASE SubmissionEnds
  <2>1. submission \in DOMAIN calls
    BY <1>5 DEF SubmissionEnds, SubmissionReturns, SubmissionFails, Pinned, Driven
  <2>2. QED
    BY <1>1, <1>5, <2>1 DEF SubmissionEnds, SubmissionReturns, SubmissionFails, conversationVars
<1>6. CASE CancelReturns \/ QuitReturns \/ CancelFails
  <2>1. CancelCall \in DOMAIN calls
    BY <1>6 DEF CancelReturns, QuitReturns, CancelFails, Pinned
  <2>2. QED
    BY <1>1, <1>6, <2>1 DEF CancelReturns, QuitReturns, CancelFails
<1>7. CASE \/ QuitIdle \/ LoopFails \/ Connect \/ TakeScreen \/ Restore \/ RestoreAgain
           \/ CloseClient
  BY <1>7 DEF QuitIdle, LoopFails, Connect, TakeScreen, Restore, RestoreAgain, CloseClient
<1>8. CASE AgentMoves
  BY <1>8 DEF AgentMoves
<1>9. QED
  BY <1>3, <1>4, <1>5, <1>6, <1>7, <1>8 DEF ChatNext, UserStep, Waits

\* So what is proved of a conversation holds here.
LEMMA ChatConverses ==
    ASSUME Typed, Pinned, ChatNext
    PROVE  /\ ConversationInv' /\ SubmissionsGetTerminals' /\ RepliedIsEnded'
           /\ CallsStay /\ RepliesStay
           /\ answers \subseteq answers'
           /\ RunningWasAsked => RunningWasAsked'
<1>1. /\ ConversationInv /\ SubmissionsGetTerminals /\ RepliedIsEnded
      /\ calls \in Seq(Calls)
  BY DEF Typed, ConversationInv
<1>2. CASE ClientMove \/ NodeStep
  <2>1. CallsStay
    BY <1>1, <1>2, ServedStays, ClientMoveStays
  <2>2. QED
    BY <1>1, <1>2, <2>1, MoveKeepsInv, AnswersStay, ServedStays, ClientMoveStays,
       MoveKeepsReplies, RunningStaysAsked DEF ConversationMove
<1>3. CASE UNCHANGED conversationVars
  BY <1>1, <1>3 DEF conversationVars, contractVars, ConversationInv, ContractInv,
     ContractTypeOK, OneTurnRuns, AnswersSound, RepliesWereTold, ToldBy, ServedIsRunning,
     SubmissionsGetTerminals, IsSubmit, CallsStay, RepliedIsEnded, RepliesStay,
     RunningWasAsked
<1>4. QED
  BY <1>2, <1>3, ChatMoves

\* What was told and who asked stay.
LEMMA ChatRemembers ==
    ASSUME Typed, Pinned, ChatNext
    PROVE  /\ \A t, o : ToldOutcome(t, o) => ToldOutcome(t, o)'
           /\ \A t : Accepted(t) => Accepted(t)'
           /\ \A m : Sound(m) => Sound(m)'
<1>1. CallsStay /\ answers \subseteq answers'
  BY ChatConverses
<1>2. /\ \A t, o : ToldOutcome(t, o) => ToldOutcome(t, o)'
      /\ \A t : Accepted(t) => Accepted(t)'
  BY <1>1 DEF ToldOutcome, Accepted
<1>3. QED
  BY <1>1, <1>2 DEF Sound, CallsStay

-----------------------------------------------------------------------------
(* Messages.                                                               *)

LEMMA MessageShapes ==
    ASSUME NEW t \in TurnIds
    PROVE  /\ Asked(t) \in Messages /\ Asked(t).turn = t
           /\ Asked(t).says \notin Terminals /\ \A u : Asked(t) # Requested(u)
           /\ Requested(t) \in Messages /\ Requested(t).turn = t
           /\ Requested(t).says \notin Terminals
           /\ \A o \in Terminals : /\ Shown(t, o) \in Messages /\ Shown(t, o).turn = t
                                   /\ Shown(t, o).says = o
                                   /\ \A u : Shown(t, o) # Requested(u)
BY DEF Messages, Asked, Shown, Requested, TheInput, CancellationRequested, Terminals

\* A message is added at the end; of a full list the oldest one goes.
LEMMA PushedShape ==
    ASSUME messages \in Seq(Messages), NEW m \in Messages, messages' = Pushed(messages, m)
    PROVE  /\ messages' \in Seq(Messages)
           /\ Len(messages') \in Nat /\ DOMAIN messages' = 1 .. Len(messages')
           /\ messages'[Len(messages')] = m
           /\ \E k \in {0, 1} : \A i \in DOMAIN messages' :
                i # Len(messages') => i + k \in DOMAIN messages /\ messages'[i] = messages[i + k]
<1>1. CASE messages' = Append(messages, m)
  <2>1. /\ messages' \in Seq(Messages) /\ Len(messages') = Len(messages) + 1
        /\ messages'[Len(messages')] = m
        /\ \A i \in 1 .. Len(messages) : messages'[i] = messages[i]
    BY <1>1, AppendProperties
  <2>2. DOMAIN messages = 1 .. Len(messages) /\ Len(messages) \in Nat
    BY LenProperties
  <2>3. DOMAIN messages' = 1 .. Len(messages') /\ Len(messages') \in Nat
    BY <2>1, LenProperties
  <2>4. \A i \in DOMAIN messages' :
            i # Len(messages') => i + 0 \in DOMAIN messages /\ messages'[i] = messages[i + 0]
    BY <2>1, <2>2, <2>3
  <2>5. QED
    BY <2>1, <2>3, <2>4
<1>2. CASE messages # <<>> /\ messages' = Append(Tail(messages), m)
  <2>1. /\ Tail(messages) \in Seq(Messages)
        /\ Len(Tail(messages)) = Len(messages) - 1
        /\ \A i \in 1 .. Len(Tail(messages)) : Tail(messages)[i] = messages[i + 1]
    BY <1>2, HeadTailProperties
  <2>2. /\ DOMAIN messages = 1 .. Len(messages) /\ Len(messages) \in Nat
        /\ Len(Tail(messages)) \in Nat
    BY <2>1, LenProperties
  <2>3. /\ messages' \in Seq(Messages) /\ Len(messages') = Len(Tail(messages)) + 1
        /\ messages'[Len(messages')] = m
        /\ \A i \in 1 .. Len(Tail(messages)) : messages'[i] = Tail(messages)[i]
    BY <1>2, <2>1, AppendProperties
  <2>4. DOMAIN messages' = 1 .. Len(messages') /\ Len(messages') \in Nat
    BY <2>3, LenProperties
  <2>5. \A i \in DOMAIN messages' :
            i # Len(messages') => i + 1 \in DOMAIN messages /\ messages'[i] = messages[i + 1]
    BY <2>1, <2>2, <2>3, <2>4
  <2>6. QED
    BY <2>3, <2>4, <2>5
<1>3. QED
  <2>1. Len(messages) >= MAX_UI_MESSAGES => messages # <<>>
    BY ChatAssumption
  <2>2. Len(messages) \in Nat /\ MAX_UI_MESSAGES \in Nat
    BY ChatAssumption, LenProperties
  <2>3. QED
    BY <1>1, <1>2, <2>1, <2>2 DEF Pushed

\* What a step may say: nothing, the input of a new turn, the outcome of the
\* turn, or that its cancellation was accepted.
Quiet == messages' = messages /\ (at' \in Driven => at \in Driven /\ turn' = turn)

Begins ==
    /\ at' = "driving" /\ turn' \in TurnIds /\ Fresh(turn')
    /\ messages' = Pushed(messages, Asked(turn'))
    /\ \E i \in Inputs : Call(turn', i)

Ends ==
    /\ at \in Driven /\ at' \notin Driven
    /\ \E o \in Terminals :
          ToldOutcome(turn, o) /\ messages' = Pushed(messages, Shown(turn, o))

Reports ==
    /\ at \in Driven /\ Accepted(turn)
    /\ messages' = Pushed(messages, Requested(turn))
    /\ at' \in Driven => turn' = turn

\* A cancellation comes back: with the outcome, accepted, or refused.
LEMMA CancellationTold ==
    ASSUME Typed, Pinned, at \in {"cancelling", "quitting"}, Returns(CancelCall)
    PROVE  \/ CancelReply \in Terminals /\ ToldOutcome(turn, CancelReply)
           \/ CancelReply = CancellationRequested /\ Accepted(turn)
           \/ CancelReply = NotActive /\ \E c \in DOMAIN calls :
                  calls[c].turn = turn /\ calls[c].reply = NotActive
<1>1. /\ CancelCall \in DOMAIN calls
      /\ calls[CancelCall].turn = turn /\ calls[CancelCall].asked = "cancel"
  BY DEF Pinned
<1>2. CancelReply \in Replies
  BY <1>1, CallFields DEF Typed, ConversationInv, Returns, CancelReply
<1>3. CASE CancelReply \in Terminals
  BY <1>1, <1>3, ReplyTold DEF Typed, CancelReply
<1>4. CASE CancelReply = CancellationRequested
  <2>1. calls[CancelCall].reply \notin {NoReply, NotActive}
    BY <1>4 DEF CancelReply, CancellationRequested, NoReply, NotActive
  <2>2. QED
    BY <1>1, <1>4, <2>1 DEF Typed, ConversationInv, RepliesWereTold, ToldBy, Accepted,
       CancelReply
<1>5. CASE CancelReply = NotActive
  BY <1>1, <1>5 DEF CancelReply
<1>6. QED
  BY <1>2, <1>3, <1>4, <1>5 DEF Replies

LEMMA SubmissionTold ==
    ASSUME Typed, Pinned, at = "driving", Returns(submission)
    PROVE  /\ calls[submission].reply \in Terminals
           /\ ToldOutcome(turn, calls[submission].reply)
<1>1. /\ submission \in DOMAIN calls
      /\ calls[submission].turn = turn /\ IsSubmit(submission)
  BY DEF Pinned, Driven
<1>2. calls[submission].reply \in Terminals
  BY <1>1 DEF Typed, SubmissionsGetTerminals, Returns
<1>3. QED
  BY <1>1, <1>2, ReplyTold DEF Typed

LEMMA ChatSays ==
    ASSUME Typed, Pinned, ChatNext
    PROVE  Quiet \/ Begins \/ Ends \/ Reports
<1> USE DEF Driven
<1>1. ASSUME NEW t \in TurnIds, SubmitTurn(t) PROVE Begins
  BY <1>1 DEF SubmitTurn, Begins, begin_turn
<1>2. CASE CancelTurn \/ QuitActive
  BY <1>2 DEF CancelTurn, QuitActive, Quiet, app
<1>3. CASE SubmissionReturns
  BY <1>3, SubmissionTold DEF SubmissionReturns, Ends, finish_turn, TurnOver, Leave
<1>4. CASE SubmissionFails \/ CancelFails \/ QuitIdle \/ LoopFails
  BY <1>4 DEF SubmissionFails, CancelFails, QuitIdle, LoopFails, Leave, Quiet, app
<1>5. CASE CancelReturns
  <2>1. CancellationRequested \notin Terminals
    BY TerminalShapes
  <2>2. CASE CancelReply \in Terminals
    BY <1>5, <2>1, <2>2, CancellationTold DEF CancelReturns, TurnOver, finish_turn, Ends,
       NotActive, Terminals
  <2>3. CASE CancelReply \notin Terminals /\ CancelReply = NotActive
    BY <1>5, <2>3 DEF CancelReturns, Quiet, app
  <2>4. CASE CancelReply \notin Terminals /\ CancelReply # NotActive
    <3>1. Accepted(turn)
      BY <1>5, <2>4, CancellationTold DEF CancelReturns
    <3>2. at = "cancelling" /\ turn' = turn /\ messages' = Pushed(messages, Requested(turn))
      BY <1>5, <2>4 DEF CancelReturns, cancellation_requested
    <3>3. QED
      BY <3>1, <3>2 DEF Reports
  <2>5. QED
    BY <2>2, <2>3, <2>4
<1>6. CASE QuitReturns
  <2>1. at = "quitting" /\ at' \in {"restoring", "closing"}
    BY <1>6 DEF QuitReturns, Leave
  <2>2. CASE mode = "line" \/ CancelReply = NotActive
    BY <1>6, <2>1, <2>2 DEF QuitReturns, Quiet, app
  <2>3. CASE ~(mode = "line" \/ CancelReply = NotActive) /\ CancelReply \in Terminals
    <3>1. messages' = Pushed(messages, Shown(turn, CancelReply))
      BY <1>6, <2>3 DEF QuitReturns, finish_turn
    <3>2. ToldOutcome(turn, CancelReply)
      BY <1>6, <2>1, <2>3, CancellationTold, TerminalShapes DEF QuitReturns
    <3>3. QED
      BY <2>1, <2>3, <3>1, <3>2 DEF Ends
  <2>4. CASE ~(mode = "line" \/ CancelReply = NotActive) /\ CancelReply \notin Terminals
    <3>1. messages' = Pushed(messages, Requested(turn))
      BY <1>6, <2>4 DEF QuitReturns, cancellation_requested
    <3>2. Accepted(turn)
      BY <1>6, <2>1, <2>4, CancellationTold DEF QuitReturns
    <3>3. QED
      BY <2>1, <3>1, <3>2 DEF Reports
  <2>5. QED
    BY <2>2, <2>3, <2>4
<1>7. CASE Connect \/ TakeScreen \/ Restore \/ RestoreAgain \/ CloseClient
  BY <1>7 DEF Connect, TakeScreen, Restore, RestoreAgain, CloseClient, Quiet, app
<1>8. CASE AgentMoves
  BY <1>8 DEF AgentMoves, Quiet, app, loop
<1>9. QED
  BY <1>1, <1>2, <1>3, <1>4, <1>5, <1>6, <1>7, <1>8 DEF ChatNext, UserStep, SubmissionEnds,
     Waits

-----------------------------------------------------------------------------
(* Every step keeps the invariant.                                         *)

LEMMA StepMode == ASSUME ChatNext PROVE mode' = mode
BY DEF ChatNext, UserStep, SubmitTurn, CancelTurn, QuitIdle, QuitActive, LoopFails, Leave,
   SubmissionEnds, SubmissionReturns, SubmissionFails, TurnOver, Waits, CancelReturns,
   CancelFails, QuitReturns, Connect, TakeScreen, Restore, RestoreAgain, CloseClient,
   AgentMoves, loop

LEMMA StepTyped ==
    ASSUME Typed, Pinned, ChatNext
    PROVE  Typed'
<1>1. messages \in Seq(Messages)
  BY DEF Typed
<1>2. CASE Quiet
  BY <1>1, <1>2, ChatConverses, StepMode DEF Typed, Quiet
<1>3. ASSUME NEW m \in Messages, messages' = Pushed(messages, m) PROVE Typed'
  <2>1. messages' \in Seq(Messages)
    BY <1>1, <1>3, PushedShape
  <2>2. QED
    BY <2>1, ChatConverses, StepMode DEF Typed
<1>4. CASE Begins
  BY <1>3, <1>4, MessageShapes DEF Begins
<1>5. CASE Ends \/ Reports
  BY <1>3, <1>5, MessageShapes DEF Ends, Reports, Pinned
<1>6. QED
  BY <1>2, <1>4, <1>5, ChatSays

\* A turn is driven until its loop is left.
LEMMA ChatGoes ==
    ASSUME Typed, Pinned, ChatNext
    PROVE  /\ at' \in Driven =>
                \/ /\ at \in Driven /\ turn' = turn /\ submission' = submission
                \/ \E t \in TurnIds : SubmitTurn(t)
           /\ at' \in {"cancelling", "quitting"} =>
                \/ at' = at /\ AgentMoves
                \/ at = "driving" /\ Call(turn, "cancel")
<1> USE DEF Driven
<1>1. CASE \E t \in TurnIds : SubmitTurn(t)
  BY <1>1 DEF SubmitTurn
<1>2. CASE CancelTurn \/ QuitActive
  BY <1>2 DEF CancelTurn, QuitActive
<1>3. CASE SubmissionReturns \/ CancelReturns
  BY <1>3 DEF SubmissionReturns, CancelReturns, TurnOver, Leave
<1>4. CASE SubmissionFails \/ CancelFails \/ QuitIdle \/ LoopFails \/ QuitReturns
  BY <1>4 DEF SubmissionFails, CancelFails, QuitIdle, LoopFails, QuitReturns, Leave
<1>5. CASE Connect \/ TakeScreen \/ Restore \/ RestoreAgain \/ CloseClient
  BY <1>5 DEF Connect, TakeScreen, Restore, RestoreAgain, CloseClient
<1>6. CASE AgentMoves
  BY <1>6 DEF AgentMoves, loop
<1>7. QED
  BY <1>1, <1>2, <1>3, <1>4, <1>5, <1>6 DEF ChatNext, UserStep, SubmissionEnds, Waits

LEMMA StepPinned ==
    ASSUME Typed, Pinned, ChatNext
    PROVE  Pinned'
<1>1. calls \in Seq(Calls) /\ CallsStay
  BY ChatConverses DEF Typed, ConversationInv
<1>2. ASSUME at' \in Driven
      PROVE  /\ turn' \in TurnIds /\ submission' \in DOMAIN calls'
             /\ calls'[submission'].turn = turn' /\ calls'[submission'].asked # "cancel"
  <2>1. CASE at \in Driven /\ turn' = turn /\ submission' = submission
    BY <1>1, <2>1 DEF Pinned, CallsStay, IsSubmit
  <2>2. ASSUME NEW t \in TurnIds, SubmitTurn(t)
        PROVE  /\ turn' \in TurnIds /\ submission' \in DOMAIN calls'
               /\ calls'[submission'].turn = turn' /\ calls'[submission'].asked # "cancel"
    <3>1. PICK i \in Inputs : Call(t, i)
      BY <2>2 DEF SubmitTurn
    <3>2. turn' = t /\ submission' = Len(calls) + 1 /\ i # "cancel"
      BY <2>2, AskedAssumption DEF SubmitTurn
    <3>3. QED
      BY <1>1, <3>1, <3>2, CallMade
  <2>3. QED
    BY <1>2, <2>1, <2>2, ChatGoes
<1>3. ASSUME at' \in {"cancelling", "quitting"}
      PROVE  /\ Len(calls') \in DOMAIN calls'
             /\ calls'[Len(calls')].turn = turn' /\ calls'[Len(calls')].asked = "cancel"
  <2>1. CASE at' = at /\ AgentMoves
    <3>1. Len(calls') = Len(calls) /\ turn' = turn
      BY <2>1, ServedStays DEF AgentMoves, loop, Typed
    <3>2. QED
      BY <1>1, <1>3, <2>1, <3>1 DEF Pinned, CallsStay, CancelCall
  <2>2. CASE at = "driving" /\ Call(turn, "cancel")
    <3>1. turn' = turn /\ turn \in TurnIds
      BY <1>3, <2>2, ChatGoes DEF Driven, Pinned, SubmitTurn
    <3>2. QED
      BY <1>1, <2>2, <3>1, CallMade
  <2>3. QED
    BY <1>3, <2>1, <2>2, ChatGoes
<1>4. QED
  BY <1>2, <1>3 DEF Pinned, IsSubmit, CancelCall

\* A message that is pushed is sound, and the others stay so.
LEMMA StepMessages ==
    ASSUME Typed, Pinned, MessagesSound, ChatNext
    PROVE  MessagesSound'
<1>1. \A m : Sound(m) => Sound(m)'
  BY ChatRemembers
<1>2. CASE Quiet
  BY <1>1, <1>2 DEF MessagesSound, Quiet
<1>3. ASSUME NEW m \in Messages, messages' = Pushed(messages, m), Sound(m)'
      PROVE  MessagesSound'
  <2>1. PICK k \in {0, 1} : \A i \in DOMAIN messages' :
            i # Len(messages') => i + k \in DOMAIN messages /\ messages'[i] = messages[i + k]
    BY <1>3, PushedShape DEF Typed
  <2>2. messages'[Len(messages')] = m
    BY <1>3, PushedShape DEF Typed
  <2>3. \A i \in DOMAIN messages' : \E n : n = messages'[i] /\ Sound(n)'
    BY <1>1, <1>3, <2>1, <2>2 DEF MessagesSound
  <2>4. QED
    BY <2>3 DEF MessagesSound
<1>4. CASE Begins
  <2>1. PICK t \in TurnIds : t = turn'
    BY <1>4 DEF Begins
  <2>2. PICK i \in Inputs : Call(t, i)
    BY <1>4, <2>1 DEF Begins
  <2>3. \E c \in DOMAIN calls' : calls'[c].turn = t
    BY <2>2, CallMade DEF Typed, ConversationInv
  <2>4. Sound(Asked(t))'
    BY <2>3, MessageShapes DEF Sound
  <2>5. QED
    BY <1>3, <1>4, <2>1, <2>4, MessageShapes DEF Begins
<1>5. CASE Ends \/ Reports
  <2>1. PICK t \in TurnIds : t = turn
    BY <1>5 DEF Ends, Reports, Pinned
  <2>2. \E c \in DOMAIN calls : calls[c].turn = t
    BY <1>5, <2>1 DEF Ends, Reports, Pinned
  <2>3. CASE Ends
    <3>1. PICK o \in Terminals : ToldOutcome(t, o) /\ messages' = Pushed(messages, Shown(t, o))
      BY <2>1, <2>3 DEF Ends
    <3>2. Sound(Shown(t, o))
      BY <2>2, <3>1, MessageShapes DEF Sound
    <3>3. QED
      BY <1>1, <1>3, <3>1, <3>2, MessageShapes
  <2>4. CASE Reports
    <3>1. Sound(Requested(t))
      BY <2>1, <2>2, <2>4, MessageShapes DEF Sound, Reports
    <3>2. QED
      BY <1>1, <1>3, <2>1, <2>4, <3>1, MessageShapes DEF Reports
  <2>5. QED
    BY <1>5, <2>3, <2>4
<1>6. QED
  BY <1>2, <1>4, <1>5, ChatSays

\* What a new message may do to the order of those there are.
LEMMA PushKeepsOrder ==
    ASSUME Typed, InOrder, NEW m \in Messages, messages' = Pushed(messages, m),
           m = Requested(m.turn) => NotOver(m.turn)
    PROVE  \A i, j \in DOMAIN messages' :
              (messages'[i].says \in Terminals /\ messages'[j] = Requested(messages'[i].turn))
              => j < i
<1>1. /\ messages' \in Seq(Messages)
      /\ Len(messages') \in Nat /\ DOMAIN messages' = 1 .. Len(messages')
      /\ messages'[Len(messages')] = m
  BY PushedShape DEF Typed
<1>2. PICK k \in {0, 1} : \A i \in DOMAIN messages' :
          i # Len(messages') => i + k \in DOMAIN messages /\ messages'[i] = messages[i + k]
  BY PushedShape DEF Typed
<1>3. SUFFICES ASSUME NEW i \in DOMAIN messages', NEW j \in DOMAIN messages',
                      messages'[i].says \in Terminals,
                      messages'[j] = Requested(messages'[i].turn)
               PROVE  j < i
  OBVIOUS
<1>4. CASE i = Len(messages')
  <2>1. j # i
    BY <1>3, TerminalShapes DEF Requested
  <2>2. QED
    BY <1>1, <1>4, <2>1
<1>5. CASE i # Len(messages') /\ j # Len(messages')
  <2>1. /\ messages[i + k].says \in Terminals
        /\ messages[j + k] = Requested(messages[i + k].turn)
        /\ i + k \in DOMAIN messages /\ j + k \in DOMAIN messages
    BY <1>2, <1>3, <1>5
  <2>2. j + k < i + k
    BY <2>1 DEF InOrder
  <2>3. QED
    BY <1>1, <2>2
<1>6. CASE i # Len(messages') /\ j = Len(messages')
  <2>1. PICK u : u = messages'[i].turn
    OBVIOUS
  <2>2. m = Requested(u) /\ m.turn = u
    BY <1>1, <1>3, <1>6, <2>1 DEF Requested
  <2>3. i + k \in DOMAIN messages /\ messages[i + k].says \in Terminals /\ messages[i + k].turn = u
    BY <1>2, <1>3, <1>6, <2>1
  <2>4. QED
    BY <2>2, <2>3 DEF NotOver
<1>7. QED
  BY <1>4, <1>5, <1>6

LEMMA PushKeepsNotOver ==
    ASSUME Typed, NEW m \in Messages, messages' = Pushed(messages, m),
           NEW t, NotOver(t), m.says \notin Terminals
    PROVE  NotOver(t)'
<1>1. messages'[Len(messages')] = m
  BY PushedShape DEF Typed
<1>2. PICK k \in {0, 1} : \A i \in DOMAIN messages' :
          i # Len(messages') => i + k \in DOMAIN messages /\ messages'[i] = messages[i + k]
  BY PushedShape DEF Typed
<1>3. QED
  BY <1>1, <1>2 DEF NotOver

LEMMA StepInOrder ==
    ASSUME Typed, Pinned, MessagesSound, InOrder, ChatNext
    PROVE  InOrder'
<1>1. CASE Quiet
  <2>1. at' \in Driven => NotOver(turn)'
    BY <1>1 DEF Quiet, InOrder, NotOver
  <2>2. QED
    BY <1>1, <2>1 DEF Quiet, InOrder
<1>2. CASE Begins
  <2>1. PICK t \in TurnIds : t = turn'
    BY <1>2 DEF Begins
  <2>2. NotOver(t)
    BY <1>2, <2>1 DEF Begins, Fresh, NotOver, MessagesSound, Sound
  <2>3. messages' = Pushed(messages, Asked(t))
    BY <1>2, <2>1 DEF Begins
  <2> DEFINE m == Asked(t)
  <2>4. m \in Messages /\ m.says \notin Terminals /\ \A u : m # Requested(u)
    BY MessageShapes
  <2> HIDE DEF m
  <2>5. NotOver(t)'
    BY <2>2, <2>3, <2>4, PushKeepsNotOver DEF m
  <2>6. NotOver(turn)'
    BY <2>1, <2>5 DEF NotOver
  <2>7. QED
    BY <2>3, <2>4, <2>6, PushKeepsOrder DEF InOrder, m
<1>3. CASE Ends
  <2>1. PICK t \in TurnIds : t = turn
    BY <1>3 DEF Ends, Pinned
  <2>2. PICK o \in Terminals : messages' = Pushed(messages, Shown(t, o))
    BY <1>3, <2>1 DEF Ends
  <2> DEFINE m == Shown(t, o)
  <2>3. m \in Messages /\ \A u : m # Requested(u)
    BY MessageShapes
  <2> HIDE DEF m
  <2>4. QED
    BY <1>3, <2>2, <2>3, PushKeepsOrder DEF InOrder, Ends, m
<1>4. CASE Reports
  <2>1. PICK t \in TurnIds : t = turn
    BY <1>4 DEF Reports, Pinned
  <2>2. NotOver(t) /\ messages' = Pushed(messages, Requested(t))
    BY <1>4, <2>1 DEF Reports, InOrder
  <2> DEFINE m == Requested(t)
  <2>3. m \in Messages /\ m.says \notin Terminals /\ m.turn = t
    BY MessageShapes
  <2> HIDE DEF m
  <2>4. NotOver(t)'
    BY <2>2, <2>3, PushKeepsNotOver DEF m
  <2>5. at' \in Driven => NotOver(turn)'
    BY <1>4, <2>1, <2>4 DEF Reports, NotOver
  <2>6. QED
    BY <2>2, <2>3, <2>5, PushKeepsOrder DEF InOrder, m
<1>5. QED
  BY <1>1, <1>2, <1>3, <1>4, ChatSays

-----------------------------------------------------------------------------
(* The account of what was submitted.                                      *)

\* Only a submission of the user submits.
LEMMA NewSubmission ==
    ASSUME Typed, Pinned, ChatNext,
           NEW c \in DOMAIN calls' \ DOMAIN calls, calls'[c].asked # "cancel"
    PROVE  at' \in Driven /\ calls'[c].turn = turn'
<1>1. calls \in Seq(Calls) /\ calls' \in Seq(Calls)
  BY ChatConverses DEF Typed, ConversationInv
<1>2. ASSUME NEW t, NEW asked, Call(t, asked)
      PROVE  calls'[c].turn = t /\ calls'[c].asked = asked
  <2>1. PICK e : calls' = Append(calls, e) /\ e.turn = t /\ e.asked = asked
    BY <1>2 DEF Call, Request, Refused
  <2>2. QED
    BY <1>1, <2>1, AppendProperties
<1>3. ASSUME NEW t \in TurnIds, SubmitTurn(t) PROVE at' \in Driven /\ calls'[c].turn = turn'
  BY <1>2, <1>3 DEF SubmitTurn, Driven
<1>4. CASE CancelTurn \/ QuitActive
  BY <1>2, <1>4 DEF CancelTurn, QuitActive
<1>5. ASSUME NEW d, Returns(d) \/ Fails(d) \/ UNCHANGED calls PROVE FALSE
  BY <1>1, <1>5 DEF Returns, Fails
<1>6. CASE SubmissionEnds \/ CancelReturns \/ CancelFails \/ QuitReturns
  BY <1>5, <1>6 DEF SubmissionEnds, SubmissionReturns, SubmissionFails, CancelReturns,
     CancelFails, QuitReturns
<1>7. CASE \/ QuitIdle \/ LoopFails \/ Connect \/ TakeScreen \/ Restore \/ RestoreAgain
           \/ CloseClient
  BY <1>5, <1>7 DEF QuitIdle, LoopFails, Connect, TakeScreen, Restore, RestoreAgain,
     CloseClient, conversationVars
<1>8. CASE AgentMoves
  <2>1. Len(calls') = Len(calls)
    BY <1>8, ServedStays DEF AgentMoves, Typed
  <2>2. QED
    BY <1>1, <2>1, LenProperties
<1>9. QED
  BY <1>3, <1>4, <1>6, <1>7, <1>8 DEF ChatNext, UserStep, Waits

\* What went wrong once stays wrong, and no other turn is driven.
LEMMA ResultStays ==
    ASSUME Typed, Pinned, ChatNext,
           at \in Driven \cup {"connecting", "initialising", "idle"} => result = "ok"
    PROVE  /\ at' \in Driven \cup {"connecting", "initialising", "idle"} => result' = "ok"
           /\ result # "ok" => result' # "ok" /\ turn' = turn
<1> USE DEF Driven, Leave, TurnOver, screen, loop
<1>1. CASE UserStep
  BY <1>1 DEF UserStep, SubmitTurn, CancelTurn, QuitIdle, QuitActive
<1>2. CASE LoopFails \/ SubmissionEnds
  BY <1>2 DEF LoopFails, SubmissionEnds, SubmissionReturns, SubmissionFails
<1>3. CASE CancelReturns \/ CancelFails \/ QuitReturns
  BY <1>3 DEF CancelReturns, CancelFails, QuitReturns
<1>4. CASE Connect \/ TakeScreen \/ Restore \/ RestoreAgain \/ CloseClient
  BY <1>4 DEF Connect, TakeScreen, Restore, RestoreAgain, CloseClient
<1>5. CASE AgentMoves
  BY <1>5 DEF AgentMoves
<1>6. QED
  BY <1>1, <1>2, <1>3, <1>4, <1>5 DEF ChatNext, Waits

\* A turn is driven until the Agent's answer accounts for it, or the chat
\* does not end well.
LEMMA DrivenUntilTold ==
    ASSUME Typed, Pinned, ChatNext, at \in Driven
    PROVE  \/ at' \in Driven /\ turn' = turn
           \/ \E o \in Terminals : ToldOutcome(turn, o)
           \/ Accepted(turn)
           \/ \E c \in DOMAIN calls : calls[c].turn = turn /\ calls[c].reply = NotActive
           \/ result' # "ok" /\ turn' = turn
<1>1. CASE SubmissionReturns
  BY <1>1, SubmissionTold DEF SubmissionReturns
<1>2. CASE CancelReturns \/ QuitReturns
  BY <1>2, CancellationTold DEF CancelReturns, QuitReturns
<1>3. CASE SubmissionFails \/ CancelFails \/ LoopFails
  BY <1>3 DEF SubmissionFails, CancelFails, LoopFails, Leave
<1>4. CASE CancelTurn \/ QuitActive \/ AgentMoves
  BY <1>4 DEF CancelTurn, QuitActive, AgentMoves, loop, Driven
<1>5. CASE \/ (\E t \in TurnIds : SubmitTurn(t)) \/ QuitIdle
           \/ Connect \/ TakeScreen \/ Restore \/ RestoreAgain \/ CloseClient
  BY <1>5 DEF SubmitTurn, QuitIdle, Connect, TakeScreen, Restore, RestoreAgain, CloseClient,
     Driven
<1>6. QED
  BY <1>1, <1>2, <1>3, <1>4, <1>5 DEF ChatNext, UserStep, SubmissionEnds, Waits

LEMMA StepAccounted ==
    ASSUME Typed, Pinned, Accounted, ChatNext
    PROVE  Accounted'
<1>1. CallsStay /\ RepliesStay /\ RunningWasAsked'
  BY ChatConverses DEF Accounted
<1>2. /\ \A t, o : ToldOutcome(t, o) => ToldOutcome(t, o)'
      /\ \A t : Accepted(t) => Accepted(t)'
  BY ChatRemembers
<1>3. \A t : (\E c \in DOMAIN calls : calls[c].turn = t /\ calls[c].reply = NotActive)
             => \E c \in DOMAIN calls' : calls'[c].turn = t /\ calls'[c].reply = NotActive
  BY <1>1 DEF CallsStay, RepliesStay, NotActive, NoReply
<1>4. ASSUME NEW t, AccountedFor(t) PROVE AccountedFor(t)'
  <2>1. CASE at \in Driven /\ turn = t
    <3>1. PICK u : u = turn
      OBVIOUS
    <3>2. \/ (at' \in Driven \/ result' # "ok") /\ turn' = u
          \/ \E o \in Terminals : ToldOutcome(u, o)
          \/ Accepted(u)
          \/ \E c \in DOMAIN calls : calls[c].turn = u /\ calls[c].reply = NotActive
      BY <1>4, <2>1, <3>1, DrivenUntilTold
    <3>3. QED
      BY <1>2, <1>3, <2>1, <3>1, <3>2 DEF AccountedFor
  <2>2. CASE ~(at \in Driven /\ turn = t)
    <3>1. result # "ok" => result' # "ok" /\ turn' = turn
      BY ResultStays DEF Accounted
    <3>2. QED
      BY <1>2, <1>3, <1>4, <2>2, <3>1 DEF AccountedFor
  <2>3. QED
    BY <2>1, <2>2
<1>5. at' \in Driven \cup {"connecting", "initialising", "idle"} => result' = "ok"
  BY ResultStays DEF Accounted
<1>6. ASSUME NEW c \in DOMAIN calls', calls'[c].asked # "cancel"
      PROVE  \E t : t = calls'[c].turn /\ AccountedFor(t)'
  <2>1. CASE c \in DOMAIN calls
    BY <1>1, <1>4, <1>6, <2>1 DEF CallsStay, Accounted, IsSubmit
  <2>2. CASE c \notin DOMAIN calls
    BY <1>6, <2>2, NewSubmission DEF AccountedFor
  <2>3. QED
    BY <2>1, <2>2
<1>7. \A c \in DOMAIN calls' : calls'[c].asked # "cancel" => AccountedFor(calls[c].turn)'
  BY <1>6
<1>8. QED
  BY <1>1, <1>5, <1>7 DEF Accounted, IsSubmit

-----------------------------------------------------------------------------
(* The theorems.                                                           *)

\* The inductive invariant of the chat and the conversation it holds.
THEOREM ChatInvariant == ChatSpec => []ChatInv
<1>1. ChatInit => ChatInv
  <2> SUFFICES ASSUME ChatInit PROVE ChatInv
    OBVIOUS
  <2>1. /\ ConversationInit /\ at = "connecting" /\ result = "ok" /\ calls = <<>>
        /\ messages = <<>> /\ mode \in {"fullscreen", "line"}
    BY DEF ChatInit, ConversationInit
  <2>2. Typed /\ Pinned
    BY <2>1, ConversationInvInit DEF Typed, Pinned, Driven, SubmissionsGetTerminals,
       RepliedIsEnded
  <2>3. MessagesSound /\ InOrder
    BY <2>1 DEF MessagesSound, InOrder, Driven
  <2>4. Accounted
    BY <2>1, StatusShapes, ConversationAssumption DEF ConversationInit, ContractInit,
       Accounted, RunningWasAsked
  <2>5. QED
    BY <2>2, <2>3, <2>4 DEF ChatInv
<1>2. ChatInv /\ [ChatNext]_chatVars => ChatInv'
  <2>1. ASSUME ChatInv, ChatNext PROVE ChatInv'
    BY <2>1, StepTyped, StepPinned, StepMessages, StepInOrder, StepAccounted DEF ChatInv
  <2>2. ASSUME ChatInv, UNCHANGED chatVars PROVE ChatInv'
    <3>1. UNCHANGED <<status, answers, calls, mode, at, turn, submission, messages, result>>
      BY <2>2 DEF chatVars, conversationVars, contractVars, loop, app
    <3>2. Typed' /\ Pinned'
      BY <2>2, <3>1 DEF ChatInv, Typed, Pinned, ConversationInv, ContractInv, ContractTypeOK,
         OneTurnRuns, AnswersSound, RepliesWereTold, ToldBy, ServedIsRunning,
         SubmissionsGetTerminals, IsSubmit, RepliedIsEnded, CancelCall
    <3>3. MessagesSound' /\ InOrder'
      BY <2>2, <3>1 DEF ChatInv, MessagesSound, Sound, ToldOutcome, Accepted, InOrder, NotOver
    <3>4. Accounted'
      BY <2>2, <3>1 DEF ChatInv, Accounted, RunningWasAsked, AccountedFor, ToldOutcome,
         Accepted, IsSubmit
    <3>5. QED
      BY <3>2, <3>3, <3>4 DEF ChatInv
  <2>3. QED
    BY <2>1, <2>2
<1>3. QED
  BY <1>1, <1>2, PTL DEF ChatSpec

\* What was accepted is borne out by the status of the turn.
LEMMA AcceptedIsBorneOut ==
    ASSUME ConversationInv, NEW t, Accepted(t)
    PROVE  BorneOut(Answer(Session, t, "cancel", CancellationRequested), status[Session][t])
BY DEF ConversationInv, ContractInv, AnswersSound, Accepted, Answer

\* finish_turn and cancellation_requested show what the Agent answered, in an
\* order the user cannot misread.
THEOREM ChatToldAsSealed == ChatSpec => []ToldAsSealed
<1>1. ChatInv => ToldAsSealed
  <2>1. SUFFICES ASSUME ChatInv, NEW i \in DOMAIN messages, messages[i].says \in Terminals
                 PROVE  /\ status[Session][messages[i].turn].phase = "sealed"
                        /\ status[Session][messages[i].turn].terminal = messages[i].says
                        /\ \A j \in DOMAIN messages :
                              messages[j] = Requested(messages[i].turn) =>
                                j < i /\ messages[i].says = Cancelled
    BY DEF ToldAsSealed
  <2>2. PICK t, o : t = messages[i].turn /\ o = messages[i].says
    OBVIOUS
  <2>3. status[Session][t].phase = "sealed" /\ status[Session][t].terminal = o
    BY <2>1, <2>2, ToldIsSealed DEF ChatInv, Typed, MessagesSound, Sound
  <2>4. ASSUME NEW j \in DOMAIN messages, messages[j] = Requested(t)
        PROVE  j < i /\ o = Cancelled
    <3>1. j < i
      BY <2>1, <2>2, <2>4 DEF ChatInv, InOrder
    <3>2. Accepted(t)
      BY <2>1, <2>4 DEF ChatInv, MessagesSound, Sound, Requested
    <3>3. QED
      BY <2>1, <2>3, <3>1, <3>2, AcceptedIsBorneOut DEF ChatInv, Typed, BorneOut, Answer
  <2>5. QED
    BY <2>2, <2>3, <2>4
<1>2. QED
  BY <1>1, ChatInvariant, PTL

\* Every exit is covered, those with an error included: of all the turns the
\* chat submitted at most one, the one it was driving when it failed, is left
\* to run without having been told to stop, apart from turns the Agent said
\* are not there.
THEOREM ChatNoTurnAbandoned == ChatSpec => []NoTurnAbandoned
<1>1. ChatInv => NoTurnAbandoned
  <2>1. SUFFICES ASSUME ChatInv, at = "exited", NEW t \in TurnIds,
                        status[Session][t].phase = "running",
                        ~\E c \in DOMAIN calls : calls[c].turn = t /\ calls[c].reply = NotActive,
                        ~(result # "ok" /\ turn = t)
                 PROVE  status[Session][t].cancelled
    BY DEF NoTurnAbandoned
  <2>2. AccountedFor(t)
    BY <2>1 DEF ChatInv, Accounted, RunningWasAsked
  <2>3. \A o : ~ToldOutcome(t, o)
    BY <2>1, ToldIsSealed DEF ChatInv, Typed
  <2>4. Accepted(t)
    BY <2>1, <2>2, <2>3 DEF AccountedFor, Driven
  <2>5. QED
    BY <2>1, <2>4, AcceptedIsBorneOut DEF ChatInv, Typed, BorneOut, Answer
<1>2. QED
  BY <1>1, ChatInvariant, PTL
=============================================================================
