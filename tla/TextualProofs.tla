---------------------------- MODULE TextualProofs ----------------------------
(***************************************************************************)
(* What a process at the other end of the JSONL adapter may rely on, and   *)
(* what the user of the Textual client may believe of what it shows and of *)
(* its exit code, for any number of turns, commands and frames, and any    *)
(* behaviour of the network and the Agent.                                 *)
(*                                                                         *)
(* First the adapter, with whatever process at the other end.  That a      *)
(* terminal frame tells how the turn was sealed follows from what is       *)
(* proved of the conversation: every reply was told by the Agent.  That a  *)
(* turn gets one outcome only needs to know where the adapter stands: the  *)
(* turn it drives was read from stdin, and nothing was said of it yet.     *)
(*                                                                         *)
(* Then the client, one process that may be at the other end, but for one  *)
(* thing: it may kill the adapter.  So the invariant of the adapter holds  *)
(* here too.  That an exit code of 0 settles every turn relates both ends  *)
(* of the two pipes: "stopped" is the last frame the adapter says, it is   *)
(* said after the outcome of all it was asked before the shutdown, and the *)
(* client has read all that came before it.                                *)
(***************************************************************************)

EXTENDS TextualClient, AgentConversationProofs, FiniteSetTheorems

-----------------------------------------------------------------------------
(* The invariant of the adapter.                                           *)

\* The phases of drive_turn.
Working == {"driving", "cancelling", "winding_down", "revoking", "confirming"}

\* The futures the adapter holds are calls about its turn.
Pinned ==
    /\ phase \in Working =>
        /\ turn \in TurnIds
        /\ submission \in DOMAIN calls
        /\ calls[submission].turn = turn /\ IsSubmit(submission)
    /\ phase \in {"cancelling", "revoking"} =>
        CancelCall \in DOMAIN calls /\ calls[CancelCall].turn = turn

Typed ==
    /\ ConversationInv /\ SubmissionsGetTerminals
    /\ stdin \in Seq(Commands) /\ taken \in 0 .. Len(stdin)
    /\ stdout \in Seq(Frames) /\ unsent \in Seq(Frames)
    /\ phase \in Phases

FramesTold(frames) ==
    \A i \in DOMAIN frames :
        frames[i].type = "turn_terminal" => ToldOutcome(frames[i].turn, frames[i].terminal)

IsOutcome(f, t) == f.type \in {"turn_terminal", "turn_error"} /\ f.turn = t
Silent(frames, t) == \A i \in DOMAIN frames : ~IsOutcome(frames[i], t)
AtMostOne(frames, t) ==
    \A i, j \in DOMAIN frames :
        (IsOutcome(frames[i], t) /\ IsOutcome(frames[j], t)) => i = j

Submission(t) == [type |-> "submit", turn |-> t]
SubmittedOnce ==
    \A t \in TurnIds : \A i, j \in DOMAIN stdin :
        (stdin[i] = Submission(t) /\ stdin[j] = Submission(t)) => i = j

\* Nothing was said of the turn that is driven, nor of one not yet read.
Outcomes ==
    /\ SubmittedOnce
    /\ \A t \in TurnIds :
        /\ AtMostOne(stdout, t) /\ AtMostOne(unsent, t)
        /\ Silent(stdout, t) \/ Silent(unsent, t)
        /\ ~Taken(t) => Silent(stdout, t) /\ Silent(unsent, t)
    /\ phase \in Working => Taken(turn) /\ Silent(stdout, turn) /\ Silent(unsent, turn)

StdioInv == Typed /\ Pinned /\ FramesTold(stdout) /\ FramesTold(unsent) /\ Outcomes

-----------------------------------------------------------------------------
(* Frames and commands.                                                    *)

LEMMA FrameShapes ==
    /\ Ready \in Frames /\ Ready.type = "ready"
    /\ Stopped \in Frames /\ Stopped.type = "stopped"
    /\ \A t \in TurnIds, r \in CancelStatuses :
        CancelResult(t, r) \in Frames /\ CancelResult(t, r).type = "cancel_result"
    /\ \A t \in TurnIds : /\ TurnError(t) \in Frames
                          /\ TurnError(t).type = "turn_error" /\ TurnError(t).turn = t
    /\ \A t \in TurnIds, o \in Terminals :
        /\ TurnTerminal(t, o) \in Frames
        /\ TurnTerminal(t, o).type = "turn_terminal"
        /\ TurnTerminal(t, o).turn = t /\ TurnTerminal(t, o).terminal = o
BY DEF Frames, Ready, Stopped, CancelResult, TurnError, TurnTerminal

LEMMA NextCommandTyped ==
    ASSUME stdin \in Seq(Commands), taken \in 0 .. Len(stdin), Unread
    PROVE  /\ taken + 1 \in 1 .. Len(stdin)
           /\ Next_command \in Commands
           /\ Next_command.type = "submit" =>
                Next_command.turn \in TurnIds /\ Next_command = Submission(Next_command.turn)
           /\ Next_command.type = "cancel" => Next_command.turn \in TurnIds
<1>1. taken + 1 \in 1 .. Len(stdin)
  BY LenProperties DEF Unread
<1>2. Next_command \in Commands
  BY <1>1, ElementOfSeq DEF Next_command
<1>3. QED
  BY <1>1, <1>2 DEF Commands, Submission

\* A reply to a cancellation makes a status the client knows.
LEMMA StatusTyped ==
    ASSUME NEW r \in Replies PROVE Status(r) \in CancelStatuses
BY DEF Status, Replies, CancelStatuses, CancellationRequested, NotActive

\* Frames that end no turn, and frames that end turn t and no other.
Mute(frames) == \A i \in DOMAIN frames : frames[i].type \notin {"turn_terminal", "turn_error"}
Ends(frames, t) ==
    /\ AtMostOne(frames, t)
    /\ \A i \in DOMAIN frames :
        /\ frames[i].type \in {"turn_terminal", "turn_error"} => frames[i].turn = t
        /\ frames[i].type = "turn_terminal" => ToldOutcome(t, frames[i].terminal)

LEMMA OneFrame ==
    ASSUME NEW f \in Frames
    PROVE  /\ <<f>> \in Seq(Frames)
           /\ f.type \notin {"turn_terminal", "turn_error"} => Mute(<<f>>)
           /\ \A t : (/\ IsOutcome(f, t)
                      /\ f.type = "turn_terminal" => ToldOutcome(t, f.terminal))
                     => Ends(<<f>>, t)
<1>1. <<f>> \in Seq(Frames) /\ DOMAIN <<f>> = {1} /\ <<f>>[1] = f
  OBVIOUS
<1>2. QED
  BY <1>1 DEF Mute, Ends, IsOutcome, AtMostOne

LEMMA TwoFrames ==
    ASSUME NEW f \in Frames, NEW g \in Frames, NEW t,
           f.type \notin {"turn_terminal", "turn_error"},
           IsOutcome(g, t), g.type = "turn_terminal" => ToldOutcome(t, g.terminal)
    PROVE  <<f>> \o <<g>> \in Seq(Frames) /\ Ends(<<f>> \o <<g>>, t)
<1> DEFINE s == <<f>> \o <<g>>
<1>1. <<f>> \in Seq(Frames) /\ <<g>> \in Seq(Frames) /\ Len(<<f>>) = 1 /\ Len(<<g>>) = 1
  OBVIOUS
<1>2. s \in Seq(Frames) /\ Len(s) = 2 /\ s[1] = f /\ s[2] = g
  BY <1>1, ConcatProperties
<1>3. DOMAIN s = {1, 2}
  BY <1>2, LenProperties
<1> HIDE DEF s
<1>4. Ends(s, t)
  BY <1>2, <1>3 DEF Ends, IsOutcome, AtMostOne
<1>5. QED
  BY <1>2, <1>4 DEF s

-----------------------------------------------------------------------------
(* Each step of the adapter is a step of its client, or none.              *)

LEMMA AdapterConverses ==
    ASSUME Typed, Pinned, AdapterStep
    PROVE  ClientMove \/ UNCHANGED conversationVars
<1>1. ASSUME NEW c \in DOMAIN calls, Returns(c) \/ GivesUp(c) \/ Fails(c),
             UNCHANGED contractVars
      PROVE  ClientMove \/ UNCHANGED conversationVars
  BY <1>1 DEF GivesUp, ClientMove, conversationVars
<1>2. ASSUME NEW t \in TurnIds, NEW asked \in Inputs \cup {"cancel"}, Call(t, asked),
             UNCHANGED contractVars
      PROVE  ClientMove
  BY <1>2 DEF ClientMove
<1>3. CASE IdleSubmit
  BY <1>2, <1>3, NextCommandTyped DEF IdleSubmit, Takes, Typed
<1>4. CASE SubmissionReturns \/ SubmissionFails \/ TerminalConfirmed \/ TerminalUnconfirmed
  <2>1. submission \in DOMAIN calls
    BY <1>4 DEF Pinned, Working, SubmissionReturns, SubmissionFails, TerminalConfirmed,
       TerminalUnconfirmed, At
  <2>2. QED
    BY <1>1, <1>4, <2>1 DEF SubmissionReturns, SubmissionFails, TerminalConfirmed,
       TerminalUnconfirmed
<1>5. CASE CancelReturns \/ CancelFails \/ RevokeReturns \/ RevokeFails
  <2>1. CancelCall \in DOMAIN calls
    BY <1>5 DEF Pinned, CancelReturns, CancelFails, RevokeReturns, RevokeFails, At
  <2>2. QED
    BY <1>1, <1>5, <2>1 DEF CancelReturns, CancelFails, RevokeReturns, RevokeFails
<1>6. CASE ActiveCancel \/ Revoke
  BY <1>2, <1>6 DEF ActiveCancel, Revoke, Pinned, Working, At
<1>7. CASE ActiveShutdown \/ ActiveBad \/ ActiveSubmit
  BY <1>7 DEF ActiveShutdown, ActiveBad, ActiveSubmit, WindDown
<1>8. CASE \/ SendFrame \/ SendFails \/ Connect \/ IdleCancel \/ IdleShutdown \/ IdleBad
           \/ ActiveCancelOther \/ CloseClient \/ Succeed
  BY <1>8 DEF SendFrame, SendFails, Connect, IdleCancel, IdleShutdown, IdleBad,
     ActiveCancelOther, CloseClient, Succeed
<1>9. QED
  BY <1>3, <1>4, <1>5, <1>6, <1>7, <1>8 DEF AdapterStep

\* So what is proved of a conversation holds here.
LEMMA StepConverses ==
    ASSUME Typed, Pinned, StdioNext
    PROVE  /\ ConversationInv' /\ SubmissionsGetTerminals' /\ CallsStay
           /\ answers \subseteq answers'
<1>1. ConversationInv /\ SubmissionsGetTerminals /\ calls \in Seq(Calls)
  BY DEF Typed, ConversationInv
<1>2. ClientMove \/ NodeStep \/ UNCHANGED conversationVars
  BY AdapterConverses DEF StdioNext, AgentStep, WriteCommand, CloseInput
<1>3. CASE ClientMove \/ NodeStep
  BY <1>1, <1>3, MoveKeepsInv, AnswersStay, ServedStays, ClientMoveStays DEF ConversationMove
<1>4. CASE UNCHANGED conversationVars
  BY <1>1, <1>4 DEF conversationVars, contractVars, ConversationInv, ContractInv,
     ContractTypeOK, OneTurnRuns, AnswersSound, RepliesWereTold, ToldBy, ServedIsRunning,
     SubmissionsGetTerminals, IsSubmit, CallsStay
<1>5. QED
  BY <1>2, <1>3, <1>4

-----------------------------------------------------------------------------
(* What a step says.                                                       *)

SaysNothing ==
    /\ stdout' = stdout /\ unsent' \in Seq(Frames)
    /\ unsent' = unsent \/ Mute(unsent')

\* The outcome of the turn, and the adapter has done with it.
EndsTurn ==
    /\ phase \in Working /\ phase' \notin Working
    /\ unsent = <<>> /\ stdout' = stdout
    /\ unsent' \in Seq(Frames) /\ Ends(unsent', turn)

\* A submission made while another turn is driven gets its error at once.
Rejects ==
    /\ phase \in Working /\ turn' = turn
    /\ unsent = <<>> /\ stdout' = stdout
    /\ Unread /\ taken' = taken + 1 /\ Next_command.type = "submit"
    /\ unsent' \in Seq(Frames) /\ Ends(unsent', Next_command.turn)

LEMMA ErrorSaid ==
    ASSUME NEW t \in TurnIds
    PROVE  <<TurnError(t)>> \in Seq(Frames) /\ Ends(<<TurnError(t)>>, t)
<1> DEFINE f == TurnError(t)
<1>1. f \in Frames /\ f.type = "turn_error" /\ f.turn = t
  BY FrameShapes
<1> HIDE DEF f
<1>2. <<f>> \in Seq(Frames) /\ Ends(<<f>>, t)
  BY <1>1, OneFrame DEF IsOutcome
<1>3. QED
  BY <1>2 DEF f

\* What the adapter says when the submission it awaits returns.
LEMMA SubmissionSaid ==
    ASSUME Typed, Pinned, phase \in Working, Returns(submission)
    PROVE  LET frames == Outcome(calls[submission].reply, turn)
           IN  frames \in Seq(Frames) /\ Ends(frames, turn)
<1> DEFINE o == calls[submission].reply  f == TurnTerminal(turn, o)
<1>1. turn \in TurnIds /\ o \in Terminals
  BY DEF Pinned, Returns, Typed, SubmissionsGetTerminals
<1>2. ToldOutcome(turn, o)
  BY <1>1, ReplyTold DEF Pinned, Typed
<1>3. f \in Frames /\ f.type = "turn_terminal" /\ f.turn = turn /\ f.terminal = o
  BY <1>1, FrameShapes
<1> HIDE DEF o, f
<1>4. <<f>> \in Seq(Frames) /\ Ends(<<f>>, turn)
  BY <1>2, <1>3, OneFrame DEF IsOutcome
<1>5. QED
  BY <1>4 DEF Outcome, o, f

\* And when the cancellation it awaits returns: its status, and the outcome
\* if the turn was sealed already.
LEMMA CancellationSaid ==
    ASSUME Typed, Pinned, phase \in {"cancelling", "revoking"}, Returns(CancelCall)
    PROVE  LET reply == calls[CancelCall].reply
               said == <<CancelResult(turn, Status(reply))>>
           IN  /\ said \in Seq(Frames) /\ Mute(said)
               /\ reply \in Terminals =>
                    /\ said \o Outcome(reply, turn) \in Seq(Frames)
                    /\ Ends(said \o Outcome(reply, turn), turn)
<1> DEFINE r == calls[CancelCall].reply  f == CancelResult(turn, Status(r))
           g == TurnTerminal(turn, r)
<1>1. turn \in TurnIds /\ CancelCall \in DOMAIN calls /\ calls[CancelCall].turn = turn
  BY DEF Pinned, Working
<1>2. r \in Replies
  BY <1>1, CallFields DEF Typed, ConversationInv, Returns
<1>3. f \in Frames /\ f.type = "cancel_result"
  BY <1>1, <1>2, StatusTyped, FrameShapes
<1>4. ASSUME r \in Terminals
      PROVE  /\ g \in Frames /\ g.type = "turn_terminal" /\ g.turn = turn /\ g.terminal = r
             /\ ToldOutcome(turn, r)
  BY <1>1, <1>4, FrameShapes, ReplyTold DEF Typed
<1> HIDE DEF r, f, g
<1>5. <<f>> \in Seq(Frames) /\ Mute(<<f>>)
  BY <1>3, OneFrame
<1>6. r \in Terminals => <<f>> \o <<g>> \in Seq(Frames) /\ Ends(<<f>> \o <<g>>, turn)
  BY <1>3, <1>4, TwoFrames DEF IsOutcome
<1>7. QED
  BY <1>5, <1>6 DEF Outcome, r, f, g

LEMMA StepSays ==
    ASSUME Typed, Pinned, AdapterStep
    PROVE  SendFrame \/ SaysNothing \/ EndsTurn \/ Rejects
<1>1. unsent \in Seq(Frames) /\ <<>> \in Seq(Frames) /\ Mute(<<>>)
  BY DEF Typed, Mute
<1>2. CASE SendFails
  BY <1>1, <1>2 DEF SendFails, SaysNothing
<1>3. CASE Connect \/ CloseClient
  <2>1. /\ <<Ready>> \in Seq(Frames) /\ Mute(<<Ready>>)
        /\ <<Stopped>> \in Seq(Frames) /\ Mute(<<Stopped>>)
    BY FrameShapes, OneFrame
  <2>2. QED
    BY <1>1, <1>3, <2>1 DEF Connect, CloseClient, Say, SaysNothing, output
<1>4. CASE IdleCancel \/ ActiveCancelOther
  <2>1. Unread /\ Next_command.type = "cancel"
    BY <1>4 DEF IdleCancel, ActiveCancelOther, Takes
  <2>2. Next_command.turn \in TurnIds
    BY <2>1, NextCommandTyped DEF Typed
  <2> DEFINE f == CancelResult(Next_command.turn, "NotActive")
  <2>3. f \in Frames /\ f.type = "cancel_result"
    BY <2>2, FrameShapes DEF CancelStatuses
  <2>4. unsent' = <<f>> /\ stdout' = stdout
    BY <1>4 DEF IdleCancel, ActiveCancelOther, Say
  <2> HIDE DEF f
  <2>5. QED
    BY <2>3, <2>4, OneFrame DEF SaysNothing
<1>5. CASE \/ IdleSubmit \/ IdleShutdown \/ IdleBad \/ ActiveShutdown \/ ActiveBad
           \/ ActiveCancel \/ Revoke \/ Succeed
  BY <1>1, <1>5 DEF IdleSubmit, IdleShutdown, IdleBad, ActiveShutdown, ActiveBad,
     ActiveCancel, Revoke, Succeed, output, SaysNothing
<1>6. CASE SubmissionReturns \/ TerminalConfirmed
  BY <1>6, SubmissionSaid DEF SubmissionReturns, TerminalConfirmed, At, Say, BackToIdle,
     Close, EndsTurn, Working
<1>7. CASE SubmissionFails \/ CancelFails \/ RevokeFails \/ TerminalUnconfirmed
  <2>1. phase \in Working
    BY <1>7 DEF SubmissionFails, CancelFails, RevokeFails, TerminalUnconfirmed, At, Working
  <2>2. turn \in TurnIds
    BY <2>1 DEF Pinned
  <2>3. /\ phase' = "closing" /\ unsent = <<>> /\ stdout' = stdout
        /\ unsent' = <<TurnError(turn)>>
    BY <1>7 DEF SubmissionFails, CancelFails, RevokeFails, TerminalUnconfirmed, At, Say, Close
  <2>4. QED
    BY <2>1, <2>2, <2>3, ErrorSaid DEF EndsTurn, Working
<1>8. CASE ActiveSubmit
  <2>1. /\ phase = "driving" /\ unsent = <<>> /\ turn' = turn /\ stdout' = stdout
        /\ Unread /\ taken' = taken + 1 /\ Next_command.type = "submit"
        /\ unsent' = <<TurnError(Next_command.turn)>>
    BY <1>8 DEF ActiveSubmit, At, Takes, Say, WindDown
  <2>2. Next_command.turn \in TurnIds
    BY <2>1, NextCommandTyped DEF Typed
  <2>3. QED
    BY <2>1, <2>2, ErrorSaid DEF Rejects, Working
<1>9. CASE CancelReturns \/ RevokeReturns
  <2> DEFINE reply == calls[CancelCall].reply
             said == <<CancelResult(turn, Status(reply))>>
             both == said \o Outcome(reply, turn)
  <2>1. phase \in {"cancelling", "revoking"} /\ unsent = <<>> /\ stdout' = stdout
    BY <1>9 DEF CancelReturns, RevokeReturns, At, Say
  <2>2. /\ said \in Seq(Frames) /\ Mute(said)
        /\ reply \in Terminals => both \in Seq(Frames) /\ Ends(both, turn)
    BY <1>9, <2>1, CancellationSaid DEF CancelReturns, RevokeReturns
  <2>3. IF reply \in Terminals THEN unsent' = both /\ phase' \in {"idle", "closing"}
                               ELSE unsent' = said
    BY <1>9 DEF CancelReturns, RevokeReturns, Say, BackToIdle, Close
  <2> HIDE DEF reply, said, both
  <2>4. QED
    BY <2>1, <2>2, <2>3 DEF SaysNothing, EndsTurn, Working
<1>10. QED
  BY <1>2, <1>3, <1>4, <1>5, <1>6, <1>7, <1>8, <1>9 DEF AdapterStep

-----------------------------------------------------------------------------
(* Every step keeps the invariant.                                         *)

LEMMA AdapterReads ==
    ASSUME Typed, AdapterStep
    PROVE  /\ stdin' = stdin
           /\ taken' = taken \/ (Unread /\ taken' = taken + 1)
BY DEF AdapterStep, input, SendFrame, SendFails, Connect, IdleSubmit, IdleCancel,
   IdleShutdown,
   IdleBad, SubmissionReturns, SubmissionFails, ActiveShutdown, ActiveBad, ActiveSubmit,
   ActiveCancelOther, ActiveCancel, CancelReturns, CancelFails, Revoke, RevokeReturns,
   RevokeFails, TerminalConfirmed, TerminalUnconfirmed, CloseClient, Succeed, Takes, EndOfInput

\* A turn is driven until drive_turn is left, and begins with its submission.
LEMMA AdapterGoes ==
    ASSUME Typed, AdapterStep
    PROVE  /\ phase' \in Phases
           /\ phase' \in Working =>
                \/ phase \in Working /\ turn' = turn /\ submission' = submission
                \/ IdleSubmit
           /\ phase' \in {"cancelling", "revoking"} =>
                \/ phase' = phase /\ UNCHANGED calls
                \/ phase \in Working /\ Call(turn, "cancel")
<1>1. phase \in Phases
  BY DEF Typed
<1>2. CASE SendFrame \/ SendFails
  BY <1>1, <1>2 DEF SendFrame, SendFails, control, Phases, Working, conversationVars
<1>3. CASE Connect \/ IdleCancel \/ IdleShutdown \/ IdleBad \/ CloseClient \/ Succeed
  BY <1>1, <1>3 DEF Connect, IdleCancel, IdleShutdown, IdleBad, CloseClient, Succeed, At,
     Close, control, Phases, Working
<1>4. CASE IdleSubmit
  BY <1>4 DEF IdleSubmit, Phases, Working
<1>5. CASE ActiveShutdown \/ ActiveBad \/ ActiveSubmit \/ ActiveCancelOther
  BY <1>1, <1>5 DEF ActiveShutdown, ActiveBad, ActiveSubmit, ActiveCancelOther, WindDown, At,
     control, Phases, Working
<1>6. CASE ActiveCancel \/ Revoke
  BY <1>6 DEF ActiveCancel, Revoke, At, Phases, Working
<1>7. CASE SubmissionReturns \/ SubmissionFails \/ CancelFails
  BY <1>7 DEF SubmissionReturns, SubmissionFails, CancelFails, BackToIdle, Close,
     Phases, Working
<1>8. CASE CancelReturns \/ RevokeReturns
  BY <1>8 DEF CancelReturns, RevokeReturns, At, BackToIdle, Close, Phases, Working
<1>9. CASE RevokeFails \/ TerminalConfirmed \/ TerminalUnconfirmed
  BY <1>9 DEF RevokeFails, TerminalConfirmed, TerminalUnconfirmed, Close, Phases, Working
<1>10. QED
  BY <1>2, <1>3, <1>4, <1>5, <1>6, <1>7, <1>8, <1>9 DEF AdapterStep

\* The steps of the others.
LEMMA OthersGo ==
    ASSUME AgentStep \/ WriteCommand \/ CloseInput
    PROVE  UNCHANGED adapterVars
BY DEF AgentStep, WriteCommand, CloseInput

LEMMA StdinGrows ==
    ASSUME Typed, StdioNext
    PROVE  /\ stdin' \in Seq(Commands) /\ Len(stdin) <= Len(stdin')
           /\ \A i \in 1 .. Len(stdin) : stdin'[i] = stdin[i]
<1>1. stdin \in Seq(Commands)
  BY DEF Typed
<1>2. CASE WriteCommand
  <2>1. PICK f \in Commands : stdin' = Append(stdin, f)
    BY <1>2 DEF WriteCommand
  <2>2. QED
    BY <1>1, <2>1, AppendProperties
<1>3. CASE stdin' = stdin
  BY <1>1, <1>3
<1>4. QED
  BY <1>2, <1>3 DEF StdioNext, AdapterStep, AgentStep, CloseInput, input

LEMMA StepTyped ==
    ASSUME Typed, Pinned, StdioNext
    PROVE  Typed'
<1>1. ConversationInv' /\ SubmissionsGetTerminals'
  BY StepConverses
<1>2. /\ stdin' \in Seq(Commands) /\ Len(stdin) <= Len(stdin')
      /\ Len(stdin) \in Nat /\ Len(stdin') \in Nat
  BY StdinGrows, LenProperties DEF Typed
<1>3. CASE AdapterStep
  <2>1. taken' \in 0 .. Len(stdin')
    BY <1>2, <1>3, AdapterReads DEF Typed, Unread
  <2>2. stdout' \in Seq(Frames) /\ unsent' \in Seq(Frames)
    <3>1. CASE SendFrame
      BY <3>1, HeadTailProperties, AppendProperties DEF SendFrame, Typed
    <3>2. CASE SaysNothing \/ EndsTurn \/ Rejects
      BY <3>2 DEF SaysNothing, EndsTurn, Rejects, Typed
    <3>3. QED
      BY <1>3, <3>1, <3>2, StepSays
  <2>3. phase' \in Phases
    BY <1>3, AdapterGoes
  <2>4. QED
    BY <1>1, <1>2, <2>1, <2>2, <2>3 DEF Typed
<1>4. CASE AgentStep \/ WriteCommand \/ CloseInput
  <2>1. UNCHANGED <<taken, stdout, unsent, phase>>
    BY <1>4, OthersGo DEF adapterVars, output, control
  <2>2. QED
    BY <1>1, <1>2, <2>1 DEF Typed
<1>5. QED
  BY <1>3, <1>4 DEF StdioNext

LEMMA StepPinned ==
    ASSUME Typed, Pinned, StdioNext
    PROVE  Pinned'
<1>1. calls \in Seq(Calls) /\ CallsStay
  BY StepConverses DEF Typed, ConversationInv
<1>2. CASE AdapterStep
  <2>1. ASSUME phase' \in Working
        PROVE  /\ turn' \in TurnIds /\ submission' \in DOMAIN calls'
               /\ calls'[submission'].turn = turn' /\ calls'[submission'].asked # "cancel"
    <3>1. CASE phase \in Working /\ turn' = turn /\ submission' = submission
      BY <1>1, <3>1 DEF Pinned, CallsStay, IsSubmit
    <3>2. CASE IdleSubmit
      <4>1. PICK i \in Inputs : Call(Next_command.turn, i)
        BY <3>2 DEF IdleSubmit
      <4>2. Next_command.turn \in TurnIds /\ turn' = Next_command.turn
        BY <3>2, NextCommandTyped DEF IdleSubmit, Takes, Typed
      <4>3. submission' = Len(calls) + 1 /\ i # "cancel"
        BY <3>2, AskedAssumption DEF IdleSubmit
      <4>4. QED
        BY <1>1, <4>1, <4>2, <4>3, CallMade
    <3>3. QED
      BY <1>2, <2>1, <3>1, <3>2, AdapterGoes
  <2>2. ASSUME phase' \in {"cancelling", "revoking"}
        PROVE  Len(calls') \in DOMAIN calls' /\ calls'[Len(calls')].turn = turn'
    <3>1. phase \in Working /\ turn' = turn
      BY <1>2, <2>2, AdapterGoes DEF Working, IdleSubmit
    <3>2. CASE phase' = phase /\ UNCHANGED calls
      BY <2>2, <3>1, <3>2 DEF Pinned, CancelCall
    <3>3. CASE Call(turn, "cancel")
      BY <1>1, <3>1, <3>3, CallMade DEF Pinned
    <3>4. QED
      BY <1>2, <2>2, <3>2, <3>3, AdapterGoes
  <2>3. QED
    BY <2>1, <2>2 DEF Pinned, IsSubmit, CancelCall
<1>3. CASE AgentStep \/ WriteCommand \/ CloseInput
  <2>1. UNCHANGED <<phase, turn, submission>>
    BY <1>3, OthersGo DEF adapterVars, control
  <2>2. Len(calls') = Len(calls)
    BY <1>3, ServedStays DEF AgentStep, WriteCommand, CloseInput, conversationVars, Typed
  <2>3. QED
    BY <1>1, <2>1, <2>2 DEF Pinned, CallsStay, IsSubmit, CancelCall
<1>4. QED
  BY <1>2, <1>3 DEF StdioNext

\* What was told when a frame was written is told for good.
LEMMA StepTold ==
    ASSUME Typed, Pinned, FramesTold(stdout), FramesTold(unsent), StdioNext
    PROVE  FramesTold(stdout)' /\ FramesTold(unsent)'
<1>1. \A t, o : ToldOutcome(t, o) => ToldOutcome(t, o)'
  BY StepConverses DEF ToldOutcome
<1>2. stdout \in Seq(Frames) /\ unsent \in Seq(Frames)
  BY DEF Typed
<1>3. CASE SendFrame
  <2>1. /\ unsent # <<>> /\ stdout' = Append(stdout, unsent[1]) /\ unsent' = Tail(unsent)
        /\ 1 \in DOMAIN unsent /\ unsent[1] \in Frames
    BY <1>2, <1>3, EmptySeq, ElementOfSeq, LenProperties DEF SendFrame
  <2>2. /\ DOMAIN stdout' = 1 .. (Len(stdout) + 1)
        /\ \A i \in 1 .. Len(stdout) : stdout'[i] = stdout[i] /\ i \in DOMAIN stdout
        /\ stdout'[Len(stdout) + 1] = unsent[1]
        /\ Len(stdout) \in Nat
    BY <1>2, <2>1, AppendProperties, LenProperties
  <2>3. \A i \in DOMAIN unsent' : i + 1 \in DOMAIN unsent /\ unsent'[i] = unsent[i + 1]
    BY <1>2, <2>1, HeadTailProperties, LenProperties
  <2>4. FramesTold(unsent)'
    BY <1>1, <2>3 DEF FramesTold
  <2>5. FramesTold(stdout)'
    BY <1>1, <2>1, <2>2 DEF FramesTold
  <2>6. QED
    BY <2>4, <2>5
<1>4. ASSUME NEW t, Ends(unsent', t), stdout' = stdout
      PROVE  FramesTold(stdout)' /\ FramesTold(unsent)'
  BY <1>1, <1>4 DEF Ends, FramesTold
<1>5. CASE SaysNothing \/ (UNCHANGED <<stdout, unsent>>)
  BY <1>1, <1>5 DEF SaysNothing, Mute, FramesTold
<1>6. QED
  BY <1>3, <1>4, <1>5, StepSays, OthersGo DEF StdioNext, EndsTurn, Rejects, adapterVars,
     output

-----------------------------------------------------------------------------
(* One outcome for each turn.                                              *)

LEMMA TakenStays ==
    ASSUME Typed, StdioNext, NEW t \in TurnIds, Taken(t)
    PROVE  Taken(t)'
<1>1. taken \in 0 .. Len(stdin) /\ Len(stdin) \in Nat
  BY LenProperties DEF Typed
<1>2. taken' = taken \/ taken' = taken + 1
  BY AdapterReads, OthersGo DEF StdioNext, adapterVars
<1>3. PICK i \in 1 .. taken : stdin[i] = [type |-> "submit", turn |-> t]
  BY DEF Taken
<1>4. i \in 1 .. taken' /\ stdin'[i] = stdin[i]
  BY <1>1, <1>2, StdinGrows
<1>5. QED
  BY <1>3, <1>4 DEF Taken

\* A submission that is read now was not read before.
LEMMA NotYetTaken ==
    ASSUME Typed, SubmittedOnce, Unread, Next_command.type = "submit"
    PROVE  Next_command.turn \in TurnIds /\ ~Taken(Next_command.turn)
<1> DEFINE u == Next_command.turn
<1>1. /\ taken + 1 \in 1 .. Len(stdin) /\ taken \in Nat
      /\ u \in TurnIds /\ stdin[taken + 1] = Submission(u)
  BY NextCommandTyped DEF Typed, Next_command
<1> HIDE DEF u
<1>2. SUFFICES ASSUME Taken(u) PROVE FALSE
  BY <1>1 DEF u
<1>3. PICK i \in 1 .. taken : stdin[i] = Submission(u)
  BY <1>2 DEF Taken, Submission
<1>4. DOMAIN stdin = 1 .. Len(stdin) /\ Len(stdin) \in Nat
  BY LenProperties DEF Typed
<1>5. i \in DOMAIN stdin /\ taken + 1 \in DOMAIN stdin /\ i # taken + 1
  BY <1>1, <1>4
<1>6. QED
  BY <1>1, <1>3, <1>5 DEF SubmittedOnce

LEMMA StepSubmittedOnce ==
    ASSUME Typed, SubmittedOnce, StdioNext
    PROVE  SubmittedOnce'
<1>1. CASE WriteCommand
  <2>1. PICK f \in Commands : /\ f.type = "submit" => ~Submitted(f.turn)
                              /\ stdin' = Append(stdin, f)
    BY <1>1 DEF WriteCommand
  <2>2. /\ DOMAIN stdin' = 1 .. (Len(stdin) + 1) /\ DOMAIN stdin = 1 .. Len(stdin)
        /\ Len(stdin) \in Nat
        /\ \A i \in 1 .. Len(stdin) : stdin'[i] = stdin[i]
        /\ stdin'[Len(stdin) + 1] = f
    BY <2>1, AppendProperties, LenProperties DEF Typed
  <2>3. \A t \in TurnIds : f = Submission(t) => \A i \in DOMAIN stdin : stdin[i] # Submission(t)
    BY <2>1 DEF Submitted, Submission
  <2>4. QED
    BY <2>2, <2>3 DEF SubmittedOnce
<1>2. CASE stdin' = stdin
  BY <1>2 DEF SubmittedOnce
<1>3. QED
  BY <1>1, <1>2 DEF StdioNext, AdapterStep, AgentStep, CloseInput, input

LEMMA SaidNothing == \A t : Silent(<<>>, t) /\ AtMostOne(<<>>, t)
BY DEF Silent, AtMostOne

LEMMA SaidOne ==
    ASSUME NEW frames, NEW u, Ends(frames, u)
    PROVE  AtMostOne(frames, u) /\ \A t : t # u => Silent(frames, t) /\ AtMostOne(frames, t)
BY DEF Ends, Silent, AtMostOne, IsOutcome

\* What is said of a turn, but for when it was read.
Told(t) == /\ AtMostOne(stdout, t) /\ AtMostOne(unsent, t)
           /\ Silent(stdout, t) \/ Silent(unsent, t)

\* A frame that is sent moves from one sequence to the other.
LEMMA SendKeepsTold ==
    ASSUME Typed, SendFrame, NEW t, Told(t)
    PROVE  /\ Told(t)'
           /\ (Silent(stdout, t) /\ Silent(unsent, t)) => Silent(stdout', t) /\ Silent(unsent', t)
<1> PICK f : f = unsent[1]
  OBVIOUS
<1>1. /\ unsent # <<>> /\ stdout' = Append(stdout, f) /\ unsent' = Tail(unsent)
      /\ unsent \in Seq(Frames) /\ stdout \in Seq(Frames)
      /\ 1 \in DOMAIN unsent /\ f \in Frames
  BY EmptySeq, ElementOfSeq, LenProperties DEF SendFrame, Typed
<1>2. /\ DOMAIN stdout' = 1 .. (Len(stdout) + 1) /\ DOMAIN stdout = 1 .. Len(stdout)
      /\ Len(stdout) \in Nat
      /\ \A i \in 1 .. Len(stdout) : stdout'[i] = stdout[i]
      /\ stdout'[Len(stdout) + 1] = f
  BY <1>1, AppendProperties, LenProperties
<1>3. /\ \A i \in DOMAIN unsent' : i + 1 \in DOMAIN unsent /\ unsent'[i] = unsent[i + 1]
      /\ \A i \in DOMAIN unsent' : i \in Nat /\ i + 1 # 1
  BY <1>1, HeadTailProperties, LenProperties
<1>4. Silent(stdout, t) => AtMostOne(stdout', t)
  BY <1>2 DEF Silent, AtMostOne
<1>5. ~IsOutcome(f, t) => /\ Silent(stdout, t) => Silent(stdout', t)
                          /\ AtMostOne(stdout, t) => AtMostOne(stdout', t)
  BY <1>2 DEF Silent, AtMostOne
<1>6. /\ Silent(unsent, t) => Silent(unsent', t) /\ ~IsOutcome(f, t)
      /\ AtMostOne(unsent, t) => AtMostOne(unsent', t)
  BY <1>1, <1>3 DEF Silent, AtMostOne
<1>7. AtMostOne(unsent, t) /\ IsOutcome(f, t) => Silent(unsent', t)
  BY <1>1, <1>3 DEF Silent, AtMostOne
<1>8. AtMostOne(stdout', t) /\ AtMostOne(unsent', t)
  BY <1>4, <1>5, <1>6 DEF Told
<1>9. Silent(stdout', t) \/ Silent(unsent', t)
  BY <1>5, <1>6, <1>7 DEF Told
<1>10. (Silent(stdout, t) /\ Silent(unsent, t)) => Silent(stdout', t) /\ Silent(unsent', t)
  BY <1>5, <1>6
<1>11. QED
  BY <1>8, <1>9, <1>10 DEF Told

LEMMA OutcomesSent ==
    ASSUME Typed, Pinned, Outcomes, StdioNext, SendFrame
    PROVE  Outcomes'
<1>1. SubmittedOnce'
  BY StepSubmittedOnce DEF Outcomes
<1>2. \A t \in TurnIds : Told(t) /\ (~Taken(t) => Silent(stdout, t) /\ Silent(unsent, t))
  BY DEF Outcomes, Told
<1>3. \A t \in TurnIds : Taken(t) => Taken(t)'
  BY TakenStays
<1>4. \A t \in TurnIds : Told(t)' /\ (~Taken(t)' => Silent(stdout', t) /\ Silent(unsent', t))
  BY <1>2, <1>3, SendKeepsTold
<1>5. UNCHANGED <<phase, turn>>
  BY DEF SendFrame, control
<1>6. ASSUME phase \in Working
      PROVE  Taken(turn)' /\ Silent(stdout', turn') /\ Silent(unsent', turn')
  <2>1. PICK u \in TurnIds : turn = u
    BY <1>6 DEF Pinned
  <2>2. Taken(u) /\ Silent(stdout, u) /\ Silent(unsent, u)
    BY <1>6, <2>1 DEF Outcomes
  <2>3. Taken(u)' /\ Silent(stdout', u) /\ Silent(unsent', u)
    BY <1>2, <1>3, <2>2, SendKeepsTold
  <2>4. QED
    BY <1>5, <2>1, <2>3
<1>7. QED
  BY <1>1, <1>4, <1>5, <1>6 DEF Outcomes, Told

\* A step that leaves drive_turn where it was, or enters it with a turn of
\* which nothing can have been said.
LEMMA DrivenIsFresh ==
    ASSUME Typed, Pinned, Outcomes, AdapterStep, phase' \in Working,
           stdout' = stdout,
           \A t \in TurnIds :
              (Silent(unsent, t) /\ (phase \in Working => t = turn)) => Silent(unsent', t)
    PROVE  Taken(turn)' /\ Silent(stdout', turn') /\ Silent(unsent', turn')
<1>1. \A t \in TurnIds : Taken(t) => Taken(t)'
  BY TakenStays DEF StdioNext
<1>2. CASE phase \in Working /\ turn' = turn
  <2>1. PICK u \in TurnIds : turn = u
    BY <1>2 DEF Pinned
  <2>2. Taken(u)' /\ Silent(stdout', u) /\ Silent(unsent', u)
    BY <1>1, <1>2, <2>1 DEF Outcomes
  <2>3. QED
    BY <1>2, <2>1, <2>2
<1>3. CASE IdleSubmit
  <2>1. PICK u : u = Next_command.turn
    OBVIOUS
  <2>2. /\ phase = "idle" /\ Unread /\ taken' = taken + 1 /\ Next_command.type = "submit"
        /\ turn' = u
    BY <1>3, <2>1 DEF IdleSubmit, At, Takes
  <2>3. u \in TurnIds /\ ~Taken(u)
    BY <2>1, <2>2, NotYetTaken DEF Outcomes
  <2>4. Silent(stdout', u) /\ Silent(unsent', u)
    BY <2>2, <2>3 DEF Outcomes, Working
  <2>5. Taken(u)'
    <3>1. /\ taken + 1 \in 1 .. taken' /\ taken + 1 \in 1 .. Len(stdin)
          /\ stdin[taken + 1] = Submission(u)
      BY <2>1, <2>2, NextCommandTyped DEF Typed, Next_command
    <3>2. stdin' = stdin
      BY AdapterReads
    <3>3. QED
      BY <3>1, <3>2 DEF Taken, Submission
  <2>6. QED
    BY <2>2, <2>4, <2>5
<1>4. QED
  BY <1>2, <1>3, AdapterGoes

LEMMA OutcomesQuiet ==
    ASSUME Typed, Pinned, Outcomes, StdioNext, AdapterStep, SaysNothing
    PROVE  Outcomes'
<1>1. SubmittedOnce'
  BY StepSubmittedOnce DEF Outcomes
<1>2. \A t \in TurnIds : Taken(t) => Taken(t)'
  BY TakenStays
<1>3. /\ stdout' = stdout
      /\ unsent' = unsent \/ \A t : Silent(unsent', t) /\ AtMostOne(unsent', t)
  BY DEF SaysNothing, Mute, Silent, AtMostOne, IsOutcome
<1>4. \A t : /\ AtMostOne(unsent, t) => AtMostOne(unsent', t)
             /\ Silent(unsent, t) => Silent(unsent', t)
  BY <1>3
<1>5. phase' \in Working => Taken(turn)' /\ Silent(stdout', turn') /\ Silent(unsent', turn')
  BY <1>3, <1>4, DrivenIsFresh
<1>6. \A t \in TurnIds : Told(t)' /\ (~Taken(t)' => Silent(stdout', t) /\ Silent(unsent', t))
  BY <1>2, <1>3, <1>4 DEF Outcomes, Told
<1>7. QED
  BY <1>1, <1>5, <1>6 DEF Outcomes, Told

LEMMA OutcomesEnded ==
    ASSUME Typed, Pinned, Outcomes, StdioNext, AdapterStep, EndsTurn
    PROVE  Outcomes'
<1>1. SubmittedOnce'
  BY StepSubmittedOnce DEF Outcomes
<1>2. \A t \in TurnIds : Taken(t) => Taken(t)'
  BY TakenStays
<1>3. PICK u \in TurnIds : u = turn
  BY DEF EndsTurn, Pinned
<1>4. /\ stdout' = stdout /\ Ends(unsent', u) /\ phase' \notin Working
      /\ Taken(u) /\ Silent(stdout, u)
  BY <1>3 DEF EndsTurn, Outcomes
<1>5. \A t \in TurnIds : Told(t)' /\ (~Taken(t)' => Silent(stdout', t) /\ Silent(unsent', t))
  BY <1>2, <1>4, SaidOne DEF Outcomes, Told
<1>6. QED
  BY <1>1, <1>4, <1>5 DEF Outcomes, Told

LEMMA OutcomesRejected ==
    ASSUME Typed, Pinned, Outcomes, StdioNext, AdapterStep, Rejects
    PROVE  Outcomes'
<1>1. SubmittedOnce'
  BY StepSubmittedOnce DEF Outcomes
<1>2. \A t \in TurnIds : Taken(t) => Taken(t)'
  BY TakenStays
<1>3. PICK u : u = Next_command.turn
  OBVIOUS
<1>4. /\ stdout' = stdout /\ Ends(unsent', u) /\ phase \in Working
      /\ Unread /\ taken' = taken + 1 /\ Next_command.type = "submit"
  BY <1>3 DEF Rejects
<1>5. u \in TurnIds /\ ~Taken(u)
  BY <1>3, <1>4, NotYetTaken DEF Outcomes
<1>6. Silent(stdout, u) /\ Taken(turn) /\ turn # u
  BY <1>4, <1>5 DEF Outcomes
<1>7. Taken(u)'
  <2>1. /\ taken + 1 \in 1 .. taken' /\ taken + 1 \in 1 .. Len(stdin)
        /\ stdin[taken + 1] = Submission(u)
    BY <1>3, <1>4, NextCommandTyped DEF Typed, Next_command
  <2>2. stdin' = stdin
    BY AdapterReads
  <2>3. QED
    BY <2>1, <2>2 DEF Taken, Submission
<1>8. \A t \in TurnIds : Told(t)' /\ (~Taken(t)' => Silent(stdout', t) /\ Silent(unsent', t))
  BY <1>2, <1>4, <1>6, <1>7, SaidOne DEF Outcomes, Told
<1>9. phase' \in Working => Taken(turn)' /\ Silent(stdout', turn') /\ Silent(unsent', turn')
  <2>1. \A t : t = turn => Silent(unsent', t)
    BY <1>4, <1>6, SaidOne
  <2>2. QED
    BY <1>4, <2>1, DrivenIsFresh
<1>10. QED
  BY <1>1, <1>8, <1>9 DEF Outcomes, Told

LEMMA OutcomesOthers ==
    ASSUME Typed, Pinned, Outcomes, StdioNext, AgentStep \/ WriteCommand \/ CloseInput
    PROVE  Outcomes'
<1>1. SubmittedOnce'
  BY StepSubmittedOnce DEF Outcomes
<1>2. \A t \in TurnIds : Taken(t) => Taken(t)'
  BY TakenStays
<1>3. UNCHANGED <<stdout, unsent, phase, turn>>
  BY OthersGo DEF adapterVars, output, control
<1>4. \A t \in TurnIds : Told(t)' /\ (~Taken(t)' => Silent(stdout', t) /\ Silent(unsent', t))
  BY <1>2, <1>3 DEF Outcomes, Told
<1>5. phase' \in Working => Taken(turn)' /\ Silent(stdout', turn') /\ Silent(unsent', turn')
  <2>1. ASSUME phase \in Working
        PROVE  Taken(turn)' /\ Silent(stdout', turn') /\ Silent(unsent', turn')
    <3>1. PICK u \in TurnIds : turn = u
      BY <2>1 DEF Pinned
    <3>2. Taken(u)' /\ Silent(stdout', u) /\ Silent(unsent', u)
      BY <1>2, <1>3, <2>1, <3>1 DEF Outcomes
    <3>3. QED
      BY <1>3, <3>1, <3>2
  <2>2. QED
    BY <1>3, <2>1
<1>6. QED
  BY <1>1, <1>4, <1>5 DEF Outcomes, Told

-----------------------------------------------------------------------------
(* No turn is left running.                                                *)

TurnFailed(t) == \E c \in DOMAIN calls : calls[c].turn = t /\ calls[c].client = "failed"

\* Why the adapter need not look after turn t any more: it does, it was told
\* how the turn ended, or it gives up for a reason that its verdict tells.
AccountedFor(t) ==
    \/ phase \in Working /\ turn = t
    \/ \E o \in Terminals : ToldOutcome(t, o)
    \/ verdict # "graceful" /\ (broken \/ TurnFailed(t))

\* The phases that a failure ends.
Unharmed == {"connecting", "idle", "driving", "cancelling", "stopping", "succeeded"}

Accounted ==
    /\ RunningWasAsked
    /\ \A c \in DOMAIN calls : IsSubmit(c) => AccountedFor(calls[c].turn)
    /\ phase \in Unharmed => verdict = "graceful"

LEMMA StepFails ==
    ASSUME Typed, Pinned, StdioNext
    PROVE  FailuresStay
<1>1. ClientMove \/ NodeStep \/ UNCHANGED conversationVars
  BY AdapterConverses DEF StdioNext, AgentStep, WriteCommand, CloseInput
<1>2. CASE UNCHANGED conversationVars
  BY <1>2 DEF conversationVars, FailuresStay
<1>3. QED
  BY <1>1, <1>2, MoveKeepsFailures DEF ConversationMove, Typed, ConversationInv

\* What went wrong once stays wrong.
LEMMA VerdictStays ==
    ASSUME Typed, AdapterStep, phase \in Unharmed => verdict = "graceful"
    PROVE  /\ phase' \in Unharmed => verdict' = "graceful"
           /\ verdict # "graceful" => verdict' # "graceful"
           /\ broken => broken'
<1> USE DEF Unharmed, At, output, control, Say, Close, WindDown, BackToIdle, Unconfirmed
<1>1. CASE SendFrame
  BY <1>1 DEF SendFrame
<1>2. CASE SendFails
  BY <1>2 DEF SendFails
<1>3. CASE Connect \/ CloseClient \/ Succeed
  BY <1>3 DEF Connect, CloseClient, Succeed
<1>4. CASE IdleSubmit \/ IdleCancel \/ IdleShutdown \/ IdleBad
  BY <1>4 DEF IdleSubmit, IdleCancel, IdleShutdown, IdleBad
<1>5. CASE ActiveShutdown \/ ActiveBad \/ ActiveSubmit \/ ActiveCancelOther \/ ActiveCancel
  BY <1>5 DEF ActiveShutdown, ActiveBad, ActiveSubmit, ActiveCancelOther, ActiveCancel
<1>6. CASE SubmissionReturns \/ SubmissionFails \/ CancelReturns \/ CancelFails
  BY <1>6 DEF SubmissionReturns, SubmissionFails, CancelReturns, CancelFails
<1>7. CASE Revoke \/ RevokeReturns \/ RevokeFails \/ TerminalConfirmed \/ TerminalUnconfirmed
  BY <1>7 DEF Revoke, RevokeReturns, RevokeFails, TerminalConfirmed, TerminalUnconfirmed
<1>8. QED
  BY <1>1, <1>2, <1>3, <1>4, <1>5, <1>6, <1>7 DEF AdapterStep

\* drive_turn is left with the outcome, or with an error to return.
LEMMA DrivenUntilTold ==
    ASSUME Typed, Pinned, AdapterStep, phase \in Working
    PROVE  \/ phase' \in Working /\ turn' = turn
           \/ \E o \in Terminals : ToldOutcome(turn, o)
           \/ /\ verdict' # "graceful"
              /\ \/ broken'
                 \/ \E c \in DOMAIN calls' : calls'[c].turn = turn /\ calls'[c].client = "failed"
<1>1. /\ calls \in Seq(Calls) /\ submission \in DOMAIN calls
      /\ calls[submission].turn = turn /\ IsSubmit(submission)
  BY DEF Typed, ConversationInv, Pinned
<1>2. phase \in {"cancelling", "revoking"} =>
          CancelCall \in DOMAIN calls /\ calls[CancelCall].turn = turn
  BY DEF Pinned
<1>3. CASE SubmissionReturns \/ TerminalConfirmed
  <2>1. calls[submission].reply \in Terminals
    BY <1>1, <1>3 DEF SubmissionReturns, TerminalConfirmed, Returns, Typed,
       SubmissionsGetTerminals
  <2>2. QED
    BY <1>1, <2>1, ReplyTold DEF Typed
<1>4. CASE CancelReturns \/ RevokeReturns
  <2>1. CASE calls[CancelCall].reply \in Terminals
    BY <1>2, <1>4, <2>1, ReplyTold DEF Typed, CancelReturns, RevokeReturns, At
  <2>2. CASE calls[CancelCall].reply \notin Terminals
    BY <1>4, <2>2 DEF CancelReturns, RevokeReturns, Working
  <2>3. QED
    BY <2>1, <2>2
<1>5. CASE SubmissionFails \/ TerminalUnconfirmed
  <2>1. verdict' # "graceful"
    BY <1>5 DEF SubmissionFails, TerminalUnconfirmed, Close, Unconfirmed
  <2>2. submission \in DOMAIN calls' /\ calls'[submission].turn = turn
        /\ calls'[submission].client = "failed"
    BY <1>1, <1>5, FailedCall DEF SubmissionFails, TerminalUnconfirmed, GivesUp
  <2>3. QED
    BY <2>1, <2>2
<1>6. CASE CancelFails \/ RevokeFails
  <2>1. verdict' # "graceful"
    BY <1>6 DEF CancelFails, RevokeFails, Close, Unconfirmed
  <2>2. PICK c \in DOMAIN calls : calls[c].turn = turn /\ Fails(c)
    BY <1>2, <1>6 DEF CancelFails, RevokeFails, At
  <2>3. QED
    BY <1>1, <2>1, <2>2, FailedCall
<1>7. CASE SendFails
  BY <1>7 DEF SendFails
<1>8. CASE SendFrame \/ ActiveCancelOther
  BY <1>8 DEF SendFrame, ActiveCancelOther, control
<1>9. CASE ActiveShutdown \/ ActiveBad \/ ActiveSubmit \/ ActiveCancel \/ Revoke
  BY <1>9 DEF ActiveShutdown, ActiveBad, ActiveSubmit, ActiveCancel, Revoke, WindDown, Working
<1>10. CASE \/ Connect \/ IdleSubmit \/ IdleCancel \/ IdleShutdown \/ IdleBad
            \/ CloseClient \/ Succeed
  BY <1>10 DEF Connect, IdleSubmit, IdleCancel, IdleShutdown, IdleBad, CloseClient, Succeed,
     At, Working
<1>11. QED
  BY <1>3, <1>4, <1>5, <1>6, <1>7, <1>8, <1>9, <1>10 DEF AdapterStep

\* Only drive_turn submits.
LEMMA NewSubmission ==
    ASSUME Typed, Pinned, AdapterStep,
           NEW c \in DOMAIN calls' \ DOMAIN calls, calls'[c].asked # "cancel"
    PROVE  phase' \in Working /\ calls'[c].turn = turn'
<1>1. calls \in Seq(Calls)
  BY DEF Typed, ConversationInv
<1>2. ASSUME NEW t, NEW asked, Call(t, asked)
      PROVE  calls'[c].turn = t /\ calls'[c].asked = asked
  <2>1. PICK e : calls' = Append(calls, e) /\ e.turn = t /\ e.asked = asked
    BY <1>2 DEF Call, Request, Refused
  <2>2. QED
    BY <1>1, <2>1, AppendProperties
<1>3. CASE IdleSubmit
  BY <1>2, <1>3 DEF IdleSubmit, Working
<1>4. CASE ActiveCancel \/ Revoke
  BY <1>2, <1>4 DEF ActiveCancel, Revoke
<1>5. CASE DOMAIN calls' = DOMAIN calls
  BY <1>5
<1>6. ASSUME NEW d, Returns(d) \/ Fails(d) \/ GivesUp(d) \/ UNCHANGED calls
      PROVE  DOMAIN calls' = DOMAIN calls
  BY <1>1, <1>6 DEF Returns, Fails, GivesUp
<1>7. QED
  BY <1>3, <1>4, <1>5, <1>6
     DEF AdapterStep, SendFrame, SendFails, Connect, IdleCancel, IdleShutdown, IdleBad,
         SubmissionReturns, SubmissionFails, ActiveShutdown, ActiveBad, ActiveSubmit,
         ActiveCancelOther, CancelReturns, CancelFails, RevokeReturns, RevokeFails,
         TerminalConfirmed, TerminalUnconfirmed, CloseClient, Succeed, WindDown,
         conversationVars

LEMMA StepAccounted ==
    ASSUME Typed, Pinned, Accounted, StdioNext
    PROVE  Accounted'
<1>1. CallsStay /\ (\A t, o : ToldOutcome(t, o) => ToldOutcome(t, o)')
  BY StepConverses DEF ToldOutcome
<1>2. RunningWasAsked'
  <2>1. ClientMove \/ NodeStep \/ UNCHANGED conversationVars
    BY AdapterConverses DEF StdioNext, AgentStep, WriteCommand, CloseInput
  <2>2. CASE UNCHANGED conversationVars
    BY <2>2 DEF conversationVars, contractVars, Accounted, RunningWasAsked, IsSubmit
  <2>3. QED
    BY <1>1, <2>1, <2>2, RunningStaysAsked DEF Accounted, Typed, ConversationMove
<1>3. \A t : TurnFailed(t) => TurnFailed(t)'
  BY <1>1, StepFails DEF TurnFailed, CallsStay, FailuresStay
<1>4. CASE AdapterStep
  <2>1. ASSUME NEW t, AccountedFor(t) PROVE AccountedFor(t)'
    <3>1. CASE phase \in Working /\ turn = t
      <4>1. PICK u : u = turn
        OBVIOUS
      <4>2. \/ phase' \in Working /\ turn' = u
            \/ \E o \in Terminals : ToldOutcome(u, o)
            \/ /\ verdict' # "graceful"
               /\ \/ broken'
                  \/ \E c \in DOMAIN calls' : calls'[c].turn = u /\ calls'[c].client = "failed"
        BY <1>4, <3>1, <4>1, DrivenUntilTold
      <4>3. u = t
        BY <3>1, <4>1
      <4>4. QED
        BY <1>1, <4>2, <4>3 DEF AccountedFor, TurnFailed
    <3>2. CASE \E o \in Terminals : ToldOutcome(t, o)
      BY <1>1, <3>2 DEF AccountedFor
    <3>3. CASE verdict # "graceful" /\ (broken \/ TurnFailed(t))
      BY <1>3, <1>4, <3>3, VerdictStays DEF AccountedFor, Accounted
    <3>4. QED
      BY <2>1, <3>1, <3>2, <3>3 DEF AccountedFor
  <2>2. ASSUME NEW c \in DOMAIN calls', calls'[c].asked # "cancel"
        PROVE  \E t : t = calls'[c].turn /\ AccountedFor(t)'
    <3>1. CASE c \in DOMAIN calls
      BY <1>1, <2>1, <2>2, <3>1 DEF CallsStay, Accounted, IsSubmit
    <3>2. CASE c \notin DOMAIN calls
      BY <1>4, <2>2, <3>2, NewSubmission DEF AccountedFor
    <3>3. QED
      BY <3>1, <3>2
  <2>3. phase' \in Unharmed => verdict' = "graceful"
    BY <1>4, VerdictStays DEF Accounted
  <2>4. \A c \in DOMAIN calls' : calls'[c].asked # "cancel" => AccountedFor(calls[c].turn)'
    BY <2>2
  <2>5. QED
    BY <1>2, <2>3, <2>4 DEF Accounted, IsSubmit
<1>5. CASE AgentStep \/ WriteCommand \/ CloseInput
  <2>1. UNCHANGED <<phase, turn, verdict, broken>>
    BY <1>5, OthersGo DEF adapterVars, control, output
  <2>2. \A t : AccountedFor(t) => AccountedFor(t)'
    BY <1>1, <1>3, <2>1 DEF AccountedFor
  <2>3. DOMAIN calls' = DOMAIN calls
    <3>1. Len(calls') = Len(calls)
      BY <1>5, ServedStays DEF AgentStep, WriteCommand, CloseInput, conversationVars, Typed
    <3>2. calls \in Seq(Calls) /\ calls' \in Seq(Calls)
      BY StepConverses DEF Typed, ConversationInv
    <3>3. QED
      BY <3>1, <3>2, LenProperties
  <2>4. ASSUME NEW c \in DOMAIN calls', calls'[c].asked # "cancel"
        PROVE  AccountedFor(calls[c].turn)'
    <3>1. PICK t : t = calls[c].turn
      OBVIOUS
    <3>2. AccountedFor(t)' /\ calls'[c].turn = t
      BY <1>1, <2>2, <2>3, <2>4, <3>1 DEF Accounted, CallsStay, IsSubmit
    <3>3. QED
      BY <3>2
  <2>5. QED
    BY <1>2, <2>1, <2>4 DEF Accounted, IsSubmit
<1>6. QED
  BY <1>4, <1>5 DEF StdioNext

-----------------------------------------------------------------------------
(* The theorems.                                                           *)

LEMMA StdioInvInit == StdioInit => StdioInv
<1> SUFFICES ASSUME StdioInit PROVE StdioInv
  OBVIOUS
<1>1. ConversationInv /\ SubmissionsGetTerminals
  BY ConversationInvInit DEF StdioInit, ConversationInit, SubmissionsGetTerminals
<1>2. Typed /\ Pinned
  BY <1>1 DEF StdioInit, Typed, Pinned, Phases, Working
<1>3. FramesTold(stdout) /\ FramesTold(unsent)
  BY DEF StdioInit, FramesTold
<1>4. Outcomes
  BY SaidNothing DEF StdioInit, Outcomes, SubmittedOnce, Working
<1>5. QED
  BY <1>2, <1>3, <1>4 DEF StdioInv

LEMMA StdioInvNext == StdioInv /\ [StdioNext]_stdioVars => StdioInv'
<1>1. ASSUME StdioInv, StdioNext PROVE StdioInv'
  <2>1. Typed' /\ Pinned' /\ FramesTold(stdout)' /\ FramesTold(unsent)'
    BY <1>1, StepTyped, StepPinned, StepTold DEF StdioInv
  <2>2. Outcomes'
    BY <1>1, StepSays, OutcomesSent, OutcomesQuiet, OutcomesEnded, OutcomesRejected,
       OutcomesOthers DEF StdioInv, StdioNext
  <2>3. QED
    BY <2>1, <2>2 DEF StdioInv
<1>2. ASSUME StdioInv, UNCHANGED stdioVars PROVE StdioInv'
  <2>1. UNCHANGED <<status, answers, calls, stdin, taken, stdout, unsent, phase, turn, submission>>
    BY <1>2 DEF stdioVars, conversationVars, contractVars, input, adapterVars, output, control
  <2>2. Typed'
    BY <1>2, <2>1 DEF StdioInv, Typed, ConversationInv, ContractInv, ContractTypeOK,
       OneTurnRuns, AnswersSound, RepliesWereTold, ToldBy, ServedIsRunning,
       SubmissionsGetTerminals, IsSubmit
  <2>3. Pinned'
    BY <1>2, <2>1 DEF StdioInv, Pinned, IsSubmit, CancelCall
  <2>4. FramesTold(stdout)' /\ FramesTold(unsent)'
    BY <1>2, <2>1 DEF StdioInv, FramesTold, ToldOutcome
  <2>5. Outcomes'
    BY <1>2, <2>1 DEF StdioInv, Outcomes, SubmittedOnce, Taken
  <2>6. QED
    BY <2>2, <2>3, <2>4, <2>5 DEF StdioInv
<1>3. QED
  BY <1>1, <1>2

\* The inductive invariant of the adapter and the conversation it holds.
THEOREM StdioInvariant == StdioSpec => []StdioInv
BY StdioInvInit, StdioInvNext, PTL DEF StdioSpec

\* drive_turn and finish_active_shutdown write the terminal the Agent sealed.
THEOREM StdioTerminalIsSealed == StdioSpec => []TerminalIsSealed
<1>1. StdioInv => TerminalIsSealed
  <2>1. SUFFICES ASSUME StdioInv, NEW t \in TurnIds, NEW i \in TerminalsOf(t)
                 PROVE  /\ status[Session][t].phase = "sealed"
                        /\ status[Session][t].terminal = stdout[i].terminal
    BY DEF TerminalIsSealed
  <2>2. ToldOutcome(t, stdout[i].terminal)
    BY <2>1 DEF StdioInv, FramesTold, TerminalsOf
  <2>3. QED
    BY <2>1, <2>2, ToldIsSealed DEF StdioInv, Typed
<1>2. QED
  BY <1>1, StdioInvariant, PTL

\* However the handlers meet, one turn gets one terminal or one error.
THEOREM StdioOneOutcome == StdioSpec => []OneOutcome
<1>1. StdioInv => OneOutcome
  <2>1. SUFFICES ASSUME StdioInv, NEW t \in TurnIds
                 PROVE  Cardinality(TerminalsOf(t) \cup ErrorsOf(t)) <= 1
    BY DEF OneOutcome
  <2> DEFINE said == TerminalsOf(t) \cup ErrorsOf(t)
  <2>2. \A i \in said : i \in DOMAIN stdout /\ IsOutcome(stdout[i], t)
    BY <2>1, FrameShapes DEF TerminalsOf, ErrorsOf, IsOutcome
  <2>3. AtMostOne(stdout, t)
    BY <2>1 DEF StdioInv, Outcomes
  <2>4. \A i, j \in said : i = j
    BY <2>2, <2>3 DEF AtMostOne
  <2> HIDE DEF said
  <2>5. said = {} \/ \E i : said = {i}
    BY <2>4
  <2>6. Cardinality(said) <= 1
    <3>1. CASE said = {}
      BY <3>1, FS_EmptySet
    <3>2. CASE \E i : said = {i}
      BY <3>2, FS_Singleton
    <3>3. QED
      BY <2>5, <3>1, <3>2
  <2>7. QED
    BY <2>6 DEF said
<1>2. QED
  BY <1>1, StdioInvariant, PTL

\* The adapter never loses sight of a turn it submitted.
THEOREM StdioAccounts == StdioSpec => []Accounted
<1>1. StdioInit => Accounted
  BY StatusShapes, ConversationAssumption DEF StdioInit, ConversationInit, ContractInit,
     Accounted, RunningWasAsked, Unharmed
<1>2. StdioInv /\ Accounted /\ [StdioNext]_stdioVars => Accounted'
  <2>1. ASSUME StdioInv, Accounted, StdioNext PROVE Accounted'
    BY <2>1, StepAccounted DEF StdioInv
  <2>2. ASSUME Accounted, UNCHANGED stdioVars PROVE Accounted'
    BY <2>2 DEF stdioVars, conversationVars, contractVars, adapterVars, control, output,
       Accounted, RunningWasAsked, AccountedFor, TurnFailed, ToldOutcome, IsSubmit
  <2>3. QED
    BY <2>1, <2>2
<1>3. QED
  BY <1>1, <1>2, StdioInvariant, PTL DEF StdioSpec

\* However the adapter ends, no turn is left to run without having been told
\* to stop, unless its output or a call failed.
THEOREM StdioNoTurnLeftRunning == StdioSpec => []NoTurnLeftRunning
<1>1. StdioInv /\ Accounted => NoTurnLeftRunning
  <2>1. SUFFICES ASSUME StdioInv, Accounted, Exited, ~broken, NEW t \in TurnIds,
                        status[Session][t].phase = "running"
                 PROVE  TurnFailed(t)
    BY DEF NoTurnLeftRunning, TurnFailed
  <2>2. AccountedFor(t)
    BY <2>1 DEF Accounted, RunningWasAsked
  <2>3. \A o : ~ToldOutcome(t, o)
    BY <2>1, ToldIsSealed DEF StdioInv, Typed
  <2>4. QED
    BY <2>1, <2>2, <2>3 DEF AccountedFor, Exited, Working
<1>2. QED
  BY <1>1, StdioInvariant, StdioAccounts, PTL

\* A shutdown that succeeds leaves nothing open: every turn that was submitted
\* has ended at the Agent, whatever became of its calls.
GracefulExitSettles ==
    phase = "succeeded" =>
        \A c \in DOMAIN calls : IsSubmit(c) => status[Session][calls[c].turn].phase = "sealed"

THEOREM StdioGracefulExitSettles == StdioSpec => []GracefulExitSettles
<1>1. StdioInv /\ Accounted => GracefulExitSettles
  BY ToldIsSealed DEF StdioInv, Typed, Accounted, AccountedFor, GracefulExitSettles, Working,
     Unharmed
<1>2. QED
  BY <1>1, StdioInvariant, StdioAccounts, PTL

-----------------------------------------------------------------------------
(* The invariant of the client.                                            *)

EndsIn(frames, t) ==
    \E i \in DOMAIN frames : frames[i].type = "turn_terminal" /\ frames[i].turn = t

\* While all goes well a turn that was read is driven, or its outcome said.
Settles ==
    (verdict = "graceful" /\ phase # "failed") =>
        \A t \in TurnIds : Taken(t) =>
            (phase \in Working /\ turn = t) \/ EndsIn(stdout, t) \/ EndsIn(unsent, t)

\* And only a shutdown makes the adapter leave.
Leaving == {"winding_down", "revoking", "confirming", "closing", "stopping", "succeeded"}
LeavesWhenAsked ==
    (verdict = "graceful" /\ phase \in Leaving) =>
        taken \in DOMAIN stdin /\ stdin[taken] = Shutdown

\* Nothing is said after "stopped".
StoppedIsLast ==
    /\ \A i \in DOMAIN stdout : stdout[i] = Stopped =>
        i = Len(stdout) /\ unsent = <<>> /\ phase \in {"stopping", "succeeded", "failed"}
    /\ \A i \in DOMAIN unsent : unsent[i] = Stopped => i = Len(unsent) /\ phase = "stopping"

Orderly ==
    /\ stdin_open
    /\ Exited => unsent = <<>>
    /\ phase \in Unharmed => verdict = "graceful"
    /\ Settles /\ LeavesWhenAsked /\ StoppedIsLast

\* What the client read is what it shows.
Reads ==
    /\ seen \in 0 .. Len(stdout)
    /\ active_turn_id \in TurnIds \cup {"none"}
    /\ shown \in [TurnIds -> Terminals \cup {Nothing, OutcomeUnknown}]
    /\ \A t \in TurnIds : shown[t] \in Terminals => ToldOutcome(t, shown[t])
    /\ ~backend_failed =>
        \A i \in 1 .. seen :
            stdout[i].type = "turn_terminal" => shown[stdout[i].turn] \in Terminals
    /\ (reader = "done" /\ ~backend_failed /\ return_code # "1") =>
        \E i \in 1 .. seen : stdout[i] = Stopped

\* Without a process there is no connection, so that nothing is written.
Uncreated ==
    reader = "creating" =>
        /\ stdin = <<>> /\ active_turn_id = "none" /\ ~editor /\ ~killed
        /\ Open => ~shutdown_started

Exits ==
    /\ killed => phase = "failed"
    /\ return_code = "0" =>
        \/ reader = "creating"
        \/ reader = "done" /\ ~backend_failed /\ phase = "succeeded"

ClientInv == StdioInv /\ Orderly /\ Reads /\ Uncreated /\ Exits

-----------------------------------------------------------------------------
(* The client as the process at the other end of the adapter.              *)

\* A turn it made up, or no turn.
Fresh(frames) ==
    /\ frames \in Seq(Commands)
    /\ \/ \A i \in DOMAIN frames : frames[i].type # "submit"
       \/ \E t \in TurnIds : ~Submitted(t) /\ frames = <<Submission(t)>>

LEMMA CommandShapes ==
    /\ Shutdown \in Commands /\ Shutdown.type = "shutdown"
    /\ \A t \in TurnIds :
        /\ Command("submit", t) \in Commands /\ Command("submit", t) = Submission(t)
        /\ Command("cancel", t) \in Commands /\ Command("cancel", t).type = "cancel"
    /\ \A f \in Commands : /\ f.type = "shutdown" => f = Shutdown
                           /\ f.type = "submit" => f.turn \in TurnIds /\ f = Submission(f.turn)
BY DEF Commands, Shutdown, Command, Submission

LEMMA OneCommand ==
    ASSUME NEW f \in Commands, f.type # "submit"
    PROVE  Fresh(<<f>>)
<1>1. <<f>> \in Seq(Commands) /\ DOMAIN <<f>> = {1} /\ <<f>>[1] = f
  OBVIOUS
<1>2. QED
  BY <1>1 DEF Fresh

LEMMA TwoCommands ==
    ASSUME NEW f \in Commands, NEW g \in Commands, f.type # "submit", g.type # "submit"
    PROVE  Fresh(<<f>> \o <<g>>)
<1> DEFINE s == <<f>> \o <<g>>
<1>1. <<f>> \in Seq(Commands) /\ <<g>> \in Seq(Commands) /\ Len(<<f>>) = 1 /\ Len(<<g>>) = 1
  OBVIOUS
<1>2. s \in Seq(Commands) /\ Len(s) = 2 /\ s[1] = f /\ s[2] = g
  BY <1>1, ConcatProperties
<1>3. DOMAIN s = {1, 2}
  BY <1>2, LenProperties
<1> HIDE DEF s
<1>4. Fresh(s)
  BY <1>2, <1>3 DEF Fresh
<1>5. QED
  BY <1>4 DEF s

\* "none" is no turn that can be cancelled.
LEMMA ClientDoes ==
    ASSUME active_turn_id \in TurnIds \cup {"none"}, ClientNext
    PROVE  \/ AdapterStep \/ AgentStep \/ Kill \/ UNCHANGED stdioVars
           \/ \E frames : Fresh(frames) /\ Write(frames)
<1>1. CASE LoopStep
  BY <1>1 DEF LoopStep, Spawn, SpawnFails, Start, StartFails, ReadyTimesOut,
     ReadCancelResult, ReadTerminal, ReadTurnError, ReadStopped, ReadFails
<1>2. CASE \E t \in TurnIds : SubmitMessage(t)
  <2>1. PICK t \in TurnIds : SubmitMessage(t)
    BY <1>2
  <2>2. ~Submitted(t) /\ Write(<<Submission(t)>>)
    BY <2>1, CommandShapes DEF SubmitMessage
  <2>3. <<Submission(t)>> \in Seq(Commands)
    BY CommandShapes
  <2>4. QED
    BY <2>2, <2>3 DEF Fresh
<1>3. CASE SubmitFails \/ CancelFailed
  BY <1>3 DEF SubmitFails, CancelFailed, WriteFails
<1>4. CASE CancelTurn
  <2>1. active_turn_id \in TurnIds /\ Write(<<Command("cancel", active_turn_id)>>)
    BY <1>4 DEF CancelTurn, Cancellable
  <2>2. PICK f : f = Command("cancel", active_turn_id)
    OBVIOUS
  <2>3. f \in Commands /\ f.type # "submit" /\ Write(<<f>>)
    BY <2>1, <2>2, CommandShapes
  <2>4. QED
    BY <2>3, OneCommand
<1>5. CASE RequestShutdown
  <2>1. PICK f, g : f = Command("cancel", active_turn_id) /\ g = Shutdown
    OBVIOUS
  <2>2. g \in Commands /\ g.type # "submit" /\ <<>> \o <<g>> = <<g>>
    BY <2>1, CommandShapes
  <2>3. Cancellable => f \in Commands /\ f.type # "submit"
    BY <2>1, CommandShapes DEF Cancellable
  <2>4. \/ UNCHANGED stdioVars
        \/ Cancellable /\ Write(<<f>> \o <<g>>)
        \/ ~Cancellable /\ Write(<<>> \o <<g>>)
    BY <1>5, <2>1 DEF RequestShutdown
  <2>5. QED
    BY <2>2, <2>3, <2>4, OneCommand, TwoCommands
<1>6. CASE Quit \/ QuitUnstarted \/ QuitEnds \/ QuitTimesOut
  BY <1>6 DEF Quit, QuitUnstarted, QuitEnds, QuitTimesOut
<1>7. QED
  BY <1>1, <1>2, <1>3, <1>4, <1>5, <1>6 DEF ClientNext, UserStep, QuitStep, AdapterMoves

LEMMA WriteGrows ==
    ASSUME Typed, NEW frames, Fresh(frames), Write(frames)
    PROVE  /\ stdin' \in Seq(Commands) /\ Len(stdin) <= Len(stdin')
           /\ \A i \in 1 .. Len(stdin) : stdin'[i] = stdin[i]
           /\ \A i, j \in 1 .. Len(stdin') : \A t :
                (stdin'[i] = Submission(t) /\ i > Len(stdin)) =>
                    /\ \A k \in 1 .. Len(stdin) : stdin[k] # Submission(t)
                    /\ j > Len(stdin) => j = i
<1>1. /\ stdin \in Seq(Commands) /\ frames \in Seq(Commands) /\ stdin' = stdin \o frames
      /\ Len(stdin) \in Nat /\ Len(frames) \in Nat /\ DOMAIN frames = 1 .. Len(frames)
      /\ DOMAIN stdin = 1 .. Len(stdin)
  BY LenProperties DEF Typed, Fresh, Write
<1>2. /\ stdin' \in Seq(Commands) /\ Len(stdin') = Len(stdin) + Len(frames)
      /\ \A i \in 1 .. Len(stdin) + Len(frames) :
            stdin'[i] = IF i <= Len(stdin) THEN stdin[i] ELSE frames[i - Len(stdin)]
  BY <1>1, ConcatProperties
<1>3. CASE \A i \in DOMAIN frames : frames[i].type # "submit"
  <2>1. \A i \in 1 .. Len(stdin') : i > Len(stdin) => stdin'[i].type # "submit"
    BY <1>1, <1>2, <1>3
  <2>2. QED
    BY <1>1, <1>2, <2>1 DEF Submission
<1>4. CASE \E t \in TurnIds : ~Submitted(t) /\ frames = <<Submission(t)>>
  <2>1. PICK u \in TurnIds : ~Submitted(u) /\ frames = <<Submission(u)>>
    BY <1>4
  <2>2. Len(frames) = 1 /\ frames[1] = Submission(u)
    BY <2>1
  <2>3. \A i \in 1 .. Len(stdin') : i > Len(stdin) =>
            i = Len(stdin) + 1 /\ stdin'[i] = Submission(u)
    BY <1>1, <1>2, <2>2
  <2>4. \A k \in 1 .. Len(stdin) : stdin[k] # Submission(u)
    BY <1>1, <2>1 DEF Submitted, Submission
  <2>5. \A t : Submission(t) = Submission(u) => t = u
    BY DEF Submission
  <2>6. QED
    BY <1>1, <1>2, <2>3, <2>4, <2>5
<1>5. QED
  BY <1>3, <1>4 DEF Fresh

\* What was taken is what it was.
LEMMA WriteKeepsTaken ==
    ASSUME Typed, NEW frames, Fresh(frames), Write(frames)
    PROVE  /\ taken' = taken /\ taken \in 0 .. Len(stdin) /\ Len(stdin) \in Nat
           /\ \A i \in 1 .. taken : i \in 1 .. Len(stdin) /\ stdin'[i] = stdin[i]
           /\ \A t : Taken(t)' <=> Taken(t)
<1>1. taken' = taken /\ taken \in 0 .. Len(stdin) /\ Len(stdin) \in Nat
  BY LenProperties DEF Typed, Write, adapterVars
<1>2. \A i \in 1 .. taken : i \in 1 .. Len(stdin) /\ stdin'[i] = stdin[i]
  BY <1>1, WriteGrows
<1>3. QED
  BY <1>1, <1>2 DEF Taken

LEMMA SameConversation ==
    ASSUME Typed, UNCHANGED conversationVars
    PROVE  ConversationInv' /\ SubmissionsGetTerminals' /\ answers' = answers
BY DEF Typed, conversationVars, contractVars, ConversationInv, ContractInv,
   ContractTypeOK, OneTurnRuns, AnswersSound, RepliesWereTold, ToldBy, ServedIsRunning,
   SubmissionsGetTerminals, IsSubmit

LEMMA WriteKeepsInv ==
    ASSUME StdioInv, NEW frames, Fresh(frames), Write(frames)
    PROVE  StdioInv'
<1>1. Typed
  BY DEF StdioInv
<1>2. UNCHANGED <<calls, answers, taken, stdout, unsent, phase, turn, submission>>
  BY DEF Write, conversationVars, contractVars, adapterVars, output, control
<1>3. Typed'
  <2>1. stdin' \in Seq(Commands) /\ Len(stdin) <= Len(stdin')
    BY <1>1, WriteGrows
  <2>2. Len(stdin') \in Nat /\ Len(stdin) \in Nat /\ taken \in 0 .. Len(stdin)
    BY <1>1, <2>1, LenProperties DEF Typed
  <2>3. ConversationInv' /\ SubmissionsGetTerminals'
    BY <1>1, SameConversation DEF Write
  <2>4. QED
    BY <1>1, <1>2, <2>1, <2>2, <2>3 DEF Typed
<1>4. Pinned'
  BY <1>2 DEF StdioInv, Pinned, IsSubmit, CancelCall
<1>5. FramesTold(stdout)' /\ FramesTold(unsent)'
  BY <1>2 DEF StdioInv, FramesTold, ToldOutcome
<1>6. SubmittedOnce'
  <2>1. /\ DOMAIN stdin = 1 .. Len(stdin) /\ Len(stdin) \in Nat
        /\ DOMAIN stdin' = 1 .. Len(stdin') /\ Len(stdin') \in Nat
    BY <1>1, <1>3, LenProperties DEF Typed
  <2>2. SUFFICES ASSUME NEW t \in TurnIds,
                        NEW i \in 1 .. Len(stdin'), NEW j \in 1 .. Len(stdin'),
                        stdin'[i] = Submission(t), stdin'[j] = Submission(t)
                 PROVE  i = j
    BY <2>1 DEF SubmittedOnce
  <2>3. CASE i > Len(stdin) \/ j > Len(stdin)
    BY <1>1, <2>1, <2>2, <2>3, WriteGrows
  <2>4. CASE i <= Len(stdin) /\ j <= Len(stdin)
    <3>1. /\ i \in DOMAIN stdin /\ stdin[i] = Submission(t)
          /\ j \in DOMAIN stdin /\ stdin[j] = Submission(t)
      BY <1>1, <2>1, <2>2, <2>4, WriteGrows
    <3>2. QED
      BY <3>1 DEF StdioInv, Outcomes, SubmittedOnce
  <2>5. QED
    BY <2>1, <2>3, <2>4
<1>7. Outcomes'
  BY <1>1, <1>2, <1>6, WriteKeepsTaken DEF StdioInv, Outcomes
<1>8. QED
  BY <1>3, <1>4, <1>5, <1>7 DEF StdioInv

LEMMA KillKeepsInv ==
    ASSUME StdioInv, Kill
    PROVE  StdioInv'
<1>1. /\ UNCHANGED <<conversationVars, calls, answers, stdin, taken, stdout, turn, submission>>
      /\ phase' \in {phase, "failed"} /\ unsent' \in {unsent, <<>>}
  BY DEF Kill, conversationVars, contractVars, input
<1>2. Typed'
  <2>1. ConversationInv' /\ SubmissionsGetTerminals'
    BY <1>1, SameConversation DEF StdioInv
  <2>2. <<>> \in Seq(Frames) /\ "failed" \in Phases
    BY DEF Phases
  <2>3. QED
    BY <1>1, <2>1, <2>2 DEF StdioInv, Typed
<1>3. Pinned'
  BY <1>1 DEF StdioInv, Pinned, IsSubmit, CancelCall, Working
<1>4. FramesTold(stdout)' /\ FramesTold(unsent)'
  BY <1>1 DEF StdioInv, FramesTold, ToldOutcome
<1>5. Outcomes'
  BY <1>1, SaidNothing DEF StdioInv, Outcomes, SubmittedOnce, Taken, Working
<1>6. QED
  BY <1>2, <1>3, <1>4, <1>5 DEF StdioInv

LEMMA ClientKeepsStdioInv ==
    ASSUME StdioInv, Reads, ClientNext
    PROVE  StdioInv'
<1>1. active_turn_id \in TurnIds \cup {"none"}
  BY DEF Reads
<1>2. CASE AdapterStep \/ AgentStep \/ UNCHANGED stdioVars
  BY <1>2, StdioInvNext DEF StdioNext
<1>3. QED
  BY <1>1, <1>2, ClientDoes, WriteKeepsInv, KillKeepsInv

-----------------------------------------------------------------------------
(* The order in which the adapter takes commands and says frames.          *)

\* All that a handler may leave to be sent.
Said(frames) ==
    \/ frames = <<>>
    \/ frames = <<Ready>>
    \/ \E t, r : frames = <<CancelResult(t, r)>>
    \/ \E t : frames = <<TurnError(t)>>
    \/ \E t, o : frames = <<TurnTerminal(t, o)>>
    \/ \E t, r, o : frames = <<CancelResult(t, r)>> \o <<TurnTerminal(t, o)>>

LEMMA HandlerSays ==
    ASSUME AdapterStep
    PROVE  \/ SendFrame
           \/ Said(unsent')
           \/ unsent' = <<Stopped>> /\ phase' = "stopping"
<1> USE DEF Said, Say, At, output
<1>1. CASE SendFails \/ Connect \/ CloseClient \/ Succeed
  BY <1>1 DEF SendFails, Connect, CloseClient, Succeed
<1>2. CASE IdleSubmit \/ IdleCancel \/ IdleShutdown \/ IdleBad
  BY <1>2 DEF IdleSubmit, IdleCancel, IdleShutdown, IdleBad
<1>3. CASE \/ ActiveShutdown \/ ActiveBad \/ ActiveSubmit
           \/ ActiveCancelOther \/ ActiveCancel \/ Revoke
  BY <1>3 DEF ActiveShutdown, ActiveBad, ActiveSubmit, ActiveCancelOther, ActiveCancel, Revoke
<1>4. CASE SubmissionReturns \/ TerminalConfirmed
  BY <1>4 DEF SubmissionReturns, TerminalConfirmed, Outcome
<1>5. CASE SubmissionFails \/ CancelFails \/ RevokeFails \/ TerminalUnconfirmed
  BY <1>5 DEF SubmissionFails, CancelFails, RevokeFails, TerminalUnconfirmed
<1>6. CASE CancelReturns \/ RevokeReturns
  BY <1>6 DEF CancelReturns, RevokeReturns, Outcome
<1>7. QED
  BY <1>1, <1>2, <1>3, <1>4, <1>5, <1>6 DEF AdapterStep

LEMMA SaidHasNoStopped ==
    ASSUME NEW frames, Said(frames), NEW i \in DOMAIN frames
    PROVE  frames[i] # Stopped
<1>1. \A t, r, o : /\ Ready # Stopped /\ CancelResult(t, r) # Stopped
                   /\ TurnError(t) # Stopped /\ TurnTerminal(t, o) # Stopped
  <2>1. /\ Ready.type = "ready" /\ Stopped.type = "stopped"
        /\ \A t, r, o : /\ CancelResult(t, r).type = "cancel_result"
                        /\ TurnError(t).type = "turn_error"
                        /\ TurnTerminal(t, o).type = "turn_terminal"
    BY DEF Ready, Stopped, CancelResult, TurnError, TurnTerminal
  <2>2. QED
    BY <2>1
<1>2. \A f : f # Stopped => (frames = <<f>> => frames[i] # Stopped)
  OBVIOUS
<1>3. \A f, g : f # Stopped /\ g # Stopped => (frames = <<f>> \o <<g>> => frames[i] # Stopped)
  <2>1. SUFFICES ASSUME NEW f, NEW g, frames = <<f>> \o <<g>> PROVE frames[i] \in {f, g}
    OBVIOUS
  <2>2. <<f>> \in Seq({f, g}) /\ <<g>> \in Seq({f, g}) /\ Len(<<f>>) = 1 /\ Len(<<g>>) = 1
    OBVIOUS
  <2>3. frames \in Seq({f, g})
    BY <2>1, <2>2, ConcatProperties
  <2>4. i \in 1 .. Len(frames)
    BY <2>3, LenProperties
  <2>5. QED
    BY <2>3, <2>4, ElementOfSeq
<1>4. CASE frames = <<>>
  BY <1>4
<1>5. QED
  BY <1>1, <1>2, <1>3, <1>4 DEF Said

\* A process that has ended does nothing.
LEMMA ExitedIsQuiet ==
    ASSUME Exited, unsent = <<>>
    PROVE  ~AdapterStep
BY DEF Exited, AdapterStep, At, SendFrame, SendFails, Connect, IdleSubmit, IdleCancel,
   IdleShutdown, IdleBad, SubmissionReturns, SubmissionFails, ActiveShutdown, ActiveBad,
   ActiveSubmit, ActiveCancelOther, ActiveCancel, CancelReturns, CancelFails, Revoke,
   RevokeReturns, RevokeFails, TerminalConfirmed, TerminalUnconfirmed, CloseClient, Succeed

\* A frame that is sent moves from the head of one to the end of the other.
LEMMA FrameSent ==
    ASSUME Typed, SendFrame, NEW f, f = unsent[1]
    PROVE  /\ \A i \in DOMAIN stdout : i \in DOMAIN stdout' /\ stdout'[i] = stdout[i]
           /\ Len(stdout') \in DOMAIN stdout' /\ stdout'[Len(stdout')] = f
           /\ \A i \in DOMAIN stdout' :
                (i \in DOMAIN stdout /\ stdout'[i] = stdout[i]) \/ i = Len(stdout')
           /\ 1 \in DOMAIN unsent /\ (Len(unsent) = 1 => unsent' = <<>>)
           /\ \A i \in DOMAIN unsent' :
                /\ i + 1 \in DOMAIN unsent /\ unsent'[i] = unsent[i + 1]
                /\ i + 1 = Len(unsent) => i = Len(unsent')
           /\ \A i \in DOMAIN unsent :
                unsent[i] = f \/ \E j \in DOMAIN unsent' : unsent'[j] = unsent[i]
<1>1. /\ unsent # <<>> /\ stdout' = Append(stdout, f) /\ unsent' = Tail(unsent)
      /\ unsent \in Seq(Frames) /\ stdout \in Seq(Frames)
      /\ 1 \in DOMAIN unsent /\ f \in Frames
  BY EmptySeq, ElementOfSeq, LenProperties DEF SendFrame, Typed
<1>2. /\ Len(unsent) \in Nat \ {0} /\ unsent' \in Seq(Frames) /\ Len(unsent') = Len(unsent) - 1
      /\ \A i \in 1 .. Len(unsent') : unsent'[i] = unsent[i + 1]
      /\ DOMAIN unsent = 1 .. Len(unsent) /\ DOMAIN unsent' = 1 .. Len(unsent')
  BY <1>1, EmptySeq, HeadTailProperties, LenProperties
<1>3. /\ stdout' \in Seq(Frames) /\ Len(stdout) \in Nat /\ Len(stdout') = Len(stdout) + 1
      /\ DOMAIN stdout = 1 .. Len(stdout) /\ DOMAIN stdout' = 1 .. Len(stdout')
      /\ \A i \in 1 .. Len(stdout) : stdout'[i] = stdout[i]
      /\ stdout'[Len(stdout) + 1] = f
  BY <1>1, AppendProperties, LenProperties
<1>4. \A i \in DOMAIN stdout : i \in DOMAIN stdout' /\ stdout'[i] = stdout[i]
  BY <1>3
<1>5. /\ Len(stdout') \in DOMAIN stdout' /\ stdout'[Len(stdout')] = f
      /\ \A i \in DOMAIN stdout' : i \in DOMAIN stdout \/ i = Len(stdout')
  BY <1>3
<1>6. Len(unsent) = 1 => unsent' = <<>>
  BY <1>2, EmptySeq
<1>7. \A i \in DOMAIN unsent' : /\ i + 1 \in DOMAIN unsent /\ unsent'[i] = unsent[i + 1]
                                /\ i + 1 = Len(unsent) => i = Len(unsent')
  BY <1>2
<1>8. ASSUME NEW i \in DOMAIN unsent, i # 1
      PROVE  \E j \in DOMAIN unsent' : unsent'[j] = unsent[i]
  <2>1. i - 1 \in 1 .. Len(unsent') /\ (i - 1) + 1 = i
    BY <1>2, <1>8
  <2>2. unsent'[i - 1] = unsent[i]
    BY <1>2, <2>1
  <2>3. QED
    BY <1>2, <2>1, <2>2
<1>9. QED
  BY <1>1, <1>4, <1>5, <1>6, <1>7, <1>8

\* One sends, and the others leave what was sent alone.
LEMMA StdoutStays ==
    ASSUME AdapterStep, ~SendFrame
    PROVE  stdout' = stdout
BY DEF AdapterStep, Say, output, SendFails, Connect, IdleSubmit, IdleCancel,
   IdleShutdown, IdleBad, SubmissionReturns, SubmissionFails, ActiveShutdown, ActiveBad,
   ActiveSubmit, ActiveCancelOther, ActiveCancel, CancelReturns, CancelFails, Revoke,
   RevokeReturns, RevokeFails, TerminalConfirmed, TerminalUnconfirmed, CloseClient, Succeed

LEMMA StopsLast ==
    ASSUME Typed, Orderly, AdapterStep
    PROVE  StoppedIsLast'
<1>1. CASE SendFrame
  <2>1. PICK f : f = unsent[1]
    OBVIOUS
  <2>2. phase' = phase
    BY <1>1 DEF SendFrame, control
  <2>3. unsent # <<>>
    BY <1>1 DEF SendFrame
  <2>4. /\ \A i \in DOMAIN stdout : stdout[i] # Stopped
        /\ \A i \in DOMAIN unsent :
            unsent[i] = Stopped => i = Len(unsent) /\ phase = "stopping"
    BY <2>3 DEF Orderly, StoppedIsLast
  <2>5. ASSUME NEW i \in DOMAIN unsent', unsent'[i] = Stopped
        PROVE  i = Len(unsent') /\ phase' = "stopping"
    BY <1>1, <2>1, <2>2, <2>4, <2>5, FrameSent
  <2>6. ASSUME NEW i \in DOMAIN stdout', stdout'[i] = Stopped
        PROVE  i = Len(stdout') /\ unsent' = <<>> /\ phase' = "stopping"
    <3>1. i = Len(stdout') /\ f = Stopped
      BY <1>1, <2>1, <2>4, <2>6, FrameSent
    <3>2. 1 \in DOMAIN unsent /\ (Len(unsent) = 1 => unsent' = <<>>)
      BY <1>1, <2>1, FrameSent
    <3>3. 1 = Len(unsent) /\ phase = "stopping"
      BY <2>1, <2>4, <3>1, <3>2
    <3>4. QED
      BY <2>2, <3>1, <3>2, <3>3
  <2>7. QED
    BY <2>5, <2>6 DEF StoppedIsLast
<1>2. CASE ~SendFrame
  <2>1. stdout' = stdout
    BY <1>2, StdoutStays
  <2>2. ASSUME NEW i \in DOMAIN stdout, stdout[i] = Stopped
        PROVE  i = Len(stdout) /\ unsent' = <<>> /\ phase' = "succeeded"
    <3>1. i = Len(stdout) /\ unsent = <<>> /\ phase \in {"stopping", "succeeded", "failed"}
      BY <2>2 DEF Orderly, StoppedIsLast
    <3>2. phase = "stopping"
      BY <3>1, ExitedIsQuiet DEF Exited
    <3>3. Succeed
      BY <1>2, <3>1, <3>2 DEF AdapterStep, At, SendFails, Connect, IdleSubmit, IdleCancel,
         IdleShutdown, IdleBad, SubmissionReturns, SubmissionFails, ActiveShutdown, ActiveBad,
         ActiveSubmit, ActiveCancelOther, ActiveCancel, CancelReturns, CancelFails, Revoke,
         RevokeReturns, RevokeFails, TerminalConfirmed, TerminalUnconfirmed, CloseClient
    <3>4. QED
      BY <3>1, <3>3 DEF Succeed, output
  <2>3. CASE Said(unsent')
    BY <2>1, <2>2, <2>3, SaidHasNoStopped DEF StoppedIsLast
  <2>4. CASE unsent' = <<Stopped>> /\ phase' = "stopping"
    BY <2>1, <2>2, <2>4 DEF StoppedIsLast
  <2>5. QED
    BY <1>2, <2>3, <2>4, HandlerSays
<1>3. QED
  BY <1>1, <1>2

\* A shutdown is why an adapter that is well leaves.
LEMMA LeavesByShutdown ==
    ASSUME AdapterStep, stdin_open, verdict' = "graceful", phase' \in Leaving
    PROVE  (phase \in Leaving /\ taken' = taken) \/ Takes("shutdown")
<1> USE DEF Leaving, At, control, Close, WindDown, BackToIdle, Unconfirmed
<1>1. CASE SendFrame \/ SendFails \/ Connect \/ CloseClient \/ Succeed
  BY <1>1 DEF SendFrame, SendFails, Connect, CloseClient, Succeed
<1>2. CASE IdleSubmit \/ IdleCancel \/ IdleShutdown \/ IdleBad
  BY <1>2 DEF IdleSubmit, IdleCancel, IdleShutdown, IdleBad, EndOfInput
<1>3. CASE ActiveShutdown \/ ActiveBad \/ ActiveSubmit \/ ActiveCancelOther \/ ActiveCancel
  BY <1>3 DEF ActiveShutdown, ActiveBad, ActiveSubmit, ActiveCancelOther, ActiveCancel,
     EndOfInput
<1>4. CASE SubmissionReturns \/ SubmissionFails \/ CancelReturns \/ CancelFails
  BY <1>4 DEF SubmissionReturns, SubmissionFails, CancelReturns, CancelFails
<1>5. CASE Revoke \/ RevokeReturns \/ RevokeFails \/ TerminalConfirmed \/ TerminalUnconfirmed
  BY <1>5 DEF Revoke, RevokeReturns, RevokeFails, TerminalConfirmed, TerminalUnconfirmed
<1>6. QED
  BY <1>1, <1>2, <1>3, <1>4, <1>5 DEF AdapterStep

LEMMA LeavesOnlyWhenAsked ==
    ASSUME Typed, Orderly, AdapterStep
    PROVE  LeavesWhenAsked'
<1>1. SUFFICES ASSUME verdict' = "graceful", phase' \in Leaving
               PROVE  taken' \in DOMAIN stdin' /\ stdin'[taken'] = Shutdown
  BY DEF LeavesWhenAsked
<1>2. stdin' = stdin /\ verdict = "graceful" /\ stdin_open
  BY <1>1, AdapterReads, VerdictStays DEF Orderly
<1>3. CASE phase \in Leaving /\ taken' = taken
  BY <1>2, <1>3 DEF Orderly, LeavesWhenAsked
<1>4. CASE Takes("shutdown")
  <2>1. Unread /\ Next_command.type = "shutdown" /\ taken' = taken + 1
    BY <1>4 DEF Takes
  <2>2. taken + 1 \in DOMAIN stdin /\ Next_command \in Commands
    BY <2>1, NextCommandTyped, LenProperties DEF Typed
  <2>3. Next_command = Shutdown
    BY <2>1, <2>2, CommandShapes
  <2>4. QED
    BY <1>2, <2>1, <2>2, <2>3 DEF Next_command
<1>5. QED
  BY <1>1, <1>2, <1>3, <1>4, LeavesByShutdown

\* The last frame of a handler that knows the outcome.
LEMMA OutcomeEnds ==
    ASSUME NEW t, NEW o
    PROVE  /\ EndsIn(<<TurnTerminal(t, o)>>, t)
           /\ \A f : EndsIn(<<f>> \o <<TurnTerminal(t, o)>>, t)
<1> PICK g : g = TurnTerminal(t, o)
  OBVIOUS
<1>1. g.type = "turn_terminal" /\ g.turn = t
  BY DEF TurnTerminal
<1>2. DOMAIN <<g>> = {1} /\ <<g>>[1] = g
  OBVIOUS
<1>3. ASSUME NEW f PROVE 2 \in DOMAIN (<<f>> \o <<g>>) /\ (<<f>> \o <<g>>)[2] = g
  <2>1. <<f>> \in Seq({f, g}) /\ <<g>> \in Seq({f, g}) /\ Len(<<f>>) = 1 /\ Len(<<g>>) = 1
    OBVIOUS
  <2> DEFINE s == <<f>> \o <<g>>
  <2>2. s \in Seq({f, g}) /\ Len(s) = 2 /\ s[2] = g
    BY <2>1, ConcatProperties
  <2>3. 2 \in DOMAIN s
    BY <2>2, LenProperties
  <2>4. QED
    BY <2>2, <2>3
<1>4. QED
  BY <1>1, <1>2, <1>3 DEF EndsIn

\* drive_turn that ends well has said the outcome.
LEMMA DrivenUntilSaid ==
    ASSUME AdapterStep, phase \in Working, verdict' = "graceful"
    PROVE  \/ phase' \in Working /\ turn' = turn
           \/ EndsIn(unsent', turn)
<1>1. CASE SubmissionReturns \/ TerminalConfirmed
  BY <1>1, OutcomeEnds DEF SubmissionReturns, TerminalConfirmed, Say, Outcome
<1>2. CASE CancelReturns \/ RevokeReturns
  <2> DEFINE r == calls[CancelCall].reply
             f == CancelResult(turn, Status(r))
  <2>1. IF r \in Terminals THEN unsent' = <<f>> \o <<TurnTerminal(turn, r)>>
                           ELSE phase' \in Working /\ turn' = turn
    BY <1>2 DEF CancelReturns, RevokeReturns, Say, Outcome, Working
  <2> HIDE DEF r, f
  <2>2. QED
    BY <2>1, OutcomeEnds
<1>3. CASE SubmissionFails \/ TerminalUnconfirmed \/ CancelFails \/ RevokeFails \/ SendFails
  BY <1>3 DEF SubmissionFails, TerminalUnconfirmed, CancelFails, RevokeFails, SendFails, Close,
     Unconfirmed
<1>4. CASE SendFrame \/ ActiveCancelOther
  BY <1>4 DEF SendFrame, ActiveCancelOther, control
<1>5. CASE ActiveShutdown \/ ActiveBad \/ ActiveSubmit \/ ActiveCancel \/ Revoke
  BY <1>5 DEF ActiveShutdown, ActiveBad, ActiveSubmit, ActiveCancel, Revoke, WindDown, Working
<1>6. CASE \/ Connect \/ IdleSubmit \/ IdleCancel \/ IdleShutdown \/ IdleBad
           \/ CloseClient \/ Succeed
  BY <1>6 DEF Connect, IdleSubmit, IdleCancel, IdleShutdown, IdleBad, CloseClient, Succeed,
     At, Working
<1>7. QED
  BY <1>1, <1>2, <1>3, <1>4, <1>5, <1>6 DEF AdapterStep

\* And a submission that is read is driven, unless the adapter gives up.
LEMMA SubmitTaken ==
    ASSUME AdapterStep, taken' # taken, Next_command.type = "submit", verdict' = "graceful"
    PROVE  phase' \in Working /\ turn' = Next_command.turn
<1>1. CASE IdleSubmit
  BY <1>1 DEF IdleSubmit, Working
<1>2. CASE ActiveSubmit
  BY <1>2 DEF ActiveSubmit, WindDown
<1>3. QED
  BY <1>1, <1>2 DEF AdapterStep, SendFrame, SendFails, Connect, IdleCancel, IdleShutdown,
     IdleBad, SubmissionReturns, SubmissionFails, ActiveShutdown, ActiveBad, ActiveCancelOther,
     ActiveCancel, CancelReturns, CancelFails, Revoke, RevokeReturns, RevokeFails,
     TerminalConfirmed, TerminalUnconfirmed, CloseClient, Succeed, Takes, EndOfInput

LEMMA EndsStay ==
    ASSUME Typed, AdapterStep, verdict' = "graceful", NEW t,
           EndsIn(stdout, t) \/ EndsIn(unsent, t)
    PROVE  EndsIn(stdout', t) \/ EndsIn(unsent', t)
<1>1. CASE SendFrame
  <2>1. PICK f : f = unsent[1]
    OBVIOUS
  <2>2. EndsIn(stdout, t) => EndsIn(stdout', t)
    BY <1>1, <2>1, FrameSent DEF EndsIn
  <2>3. EndsIn(unsent, t) => EndsIn(stdout', t) \/ EndsIn(unsent', t)
    BY <1>1, <2>1, FrameSent DEF EndsIn
  <2>4. QED
    BY <2>2, <2>3
<1>2. CASE ~SendFrame
  <2>1. stdout' = stdout
    BY <1>2, StdoutStays
  <2>2. CASE unsent = <<>>
    BY <2>1, <2>2 DEF EndsIn
  <2>3. CASE unsent # <<>>
    BY <1>2, <2>3 DEF AdapterStep, At, SendFails, Connect, IdleSubmit, IdleCancel,
       IdleShutdown, IdleBad, SubmissionReturns, SubmissionFails, ActiveShutdown, ActiveBad,
       ActiveSubmit, ActiveCancelOther, ActiveCancel, CancelReturns, CancelFails, Revoke,
       RevokeReturns, RevokeFails, TerminalConfirmed, TerminalUnconfirmed, CloseClient, Succeed
  <2>4. QED
    BY <2>2, <2>3
<1>3. QED
  BY <1>1, <1>2

LEMMA SettlesAll ==
    ASSUME Typed, Pinned, Orderly, AdapterStep
    PROVE  Settles'
<1>1. SUFFICES ASSUME verdict' = "graceful", phase' # "failed", NEW t \in TurnIds, Taken(t)'
               PROVE  \/ phase' \in Working /\ turn' = t
                      \/ EndsIn(stdout', t) \/ EndsIn(unsent', t)
  BY DEF Settles
<1>2. verdict = "graceful"
  BY <1>1, VerdictStays DEF Orderly
<1>3. phase # "failed"
  BY ExitedIsQuiet DEF Orderly, Exited
<1>4. CASE Taken(t)
  <2>1. (phase \in Working /\ turn = t) \/ EndsIn(stdout, t) \/ EndsIn(unsent, t)
    BY <1>2, <1>3, <1>4 DEF Orderly, Settles
  <2>2. CASE phase \in Working /\ turn = t
    BY <1>1, <2>2, DrivenUntilSaid
  <2>3. CASE EndsIn(stdout, t) \/ EndsIn(unsent, t)
    BY <1>1, <2>3, EndsStay
  <2>4. QED
    BY <2>1, <2>2, <2>3
<1>5. CASE ~Taken(t)
  <2>1. stdin' = stdin /\ taken \in Nat /\ (taken' = taken \/ (Unread /\ taken' = taken + 1))
    BY AdapterReads, LenProperties DEF Typed
  <2>2. PICK i \in 1 .. taken' : stdin[i] = Submission(t)
    BY <1>1, <2>1 DEF Taken, Submission
  <2>3. i \notin 1 .. taken
    BY <1>5, <2>2 DEF Taken, Submission
  <2>4. taken' # taken /\ Next_command = Submission(t)
    BY <2>1, <2>2, <2>3 DEF Next_command
  <2>5. Next_command.type = "submit" /\ Next_command.turn = t
    BY <2>4 DEF Submission
  <2>6. QED
    BY <1>1, <2>4, <2>5, SubmitTaken
<1>6. QED
  BY <1>4, <1>5

LEMMA ExitsSilent ==
    ASSUME AdapterStep, Exited => unsent = <<>>
    PROVE  Exited' => unsent' = <<>>
<1> USE DEF Exited, At, control, output, Close, WindDown, BackToIdle
<1>1. CASE SendFrame \/ SendFails \/ Connect \/ CloseClient \/ Succeed
  BY <1>1 DEF SendFrame, SendFails, Connect, CloseClient, Succeed
<1>2. CASE IdleSubmit \/ IdleCancel \/ IdleShutdown \/ IdleBad
  BY <1>2 DEF IdleSubmit, IdleCancel, IdleShutdown, IdleBad
<1>3. CASE ActiveShutdown \/ ActiveBad \/ ActiveSubmit \/ ActiveCancelOther \/ ActiveCancel
  BY <1>3 DEF ActiveShutdown, ActiveBad, ActiveSubmit, ActiveCancelOther, ActiveCancel
<1>4. CASE SubmissionReturns \/ SubmissionFails \/ CancelReturns \/ CancelFails
  BY <1>4 DEF SubmissionReturns, SubmissionFails, CancelReturns, CancelFails
<1>5. CASE Revoke \/ RevokeReturns \/ RevokeFails \/ TerminalConfirmed \/ TerminalUnconfirmed
  BY <1>5 DEF Revoke, RevokeReturns, RevokeFails, TerminalConfirmed, TerminalUnconfirmed
<1>6. QED
  BY <1>1, <1>2, <1>3, <1>4, <1>5 DEF AdapterStep

LEMMA WriteKeepsOrder ==
    ASSUME Typed, Orderly, NEW frames, Fresh(frames), Write(frames)
    PROVE  Orderly'
<1>1. UNCHANGED <<stdin_open, taken, stdout, unsent, phase, turn, verdict>>
  BY DEF Write, adapterVars, output, control
<1>2. Settles'
  BY <1>1, WriteKeepsTaken DEF Orderly, Settles
<1>3. LeavesWhenAsked'
  <2>1. SUFFICES ASSUME taken \in DOMAIN stdin
                 PROVE  taken \in DOMAIN stdin' /\ stdin'[taken] = stdin[taken]
    BY <1>1 DEF Orderly, LeavesWhenAsked
  <2>2. /\ DOMAIN stdin = 1 .. Len(stdin) /\ Len(stdin) \in Nat
        /\ DOMAIN stdin' = 1 .. Len(stdin') /\ Len(stdin') \in Nat /\ Len(stdin) <= Len(stdin')
    BY WriteGrows, LenProperties DEF Typed
  <2>3. QED
    BY <2>1, <2>2, WriteGrows
<1>4. QED
  BY <1>1, <1>2, <1>3 DEF Orderly, Exited, StoppedIsLast

LEMMA ClientKeepsOrder ==
    ASSUME StdioInv, Orderly, Reads, ClientNext
    PROVE  Orderly'
<1>1. Typed /\ Pinned /\ active_turn_id \in TurnIds \cup {"none"}
  BY DEF StdioInv, Reads
<1>2. CASE AdapterStep
  <2>1. stdin_open'
    BY <1>2 DEF AdapterStep, input, Orderly
  <2>2. Exited' => unsent' = <<>>
    BY <1>2, ExitsSilent DEF Orderly
  <2>3. phase' \in Unharmed => verdict' = "graceful"
    BY <1>1, <1>2, VerdictStays DEF Orderly
  <2>4. QED
    BY <1>1, <1>2, <2>1, <2>2, <2>3, SettlesAll, LeavesOnlyWhenAsked, StopsLast DEF Orderly
<1>3. CASE AgentStep \/ UNCHANGED stdioVars
  <2>1. UNCHANGED <<stdin, stdin_open, taken, stdout, unsent, phase, turn, verdict>>
    BY <1>3 DEF AgentStep, stdioVars, input, adapterVars, output, control
  <2>2. QED
    BY <2>1 DEF Orderly, Exited, Settles, Taken, LeavesWhenAsked, StoppedIsLast
<1>4. CASE Kill
  <2>1. /\ UNCHANGED <<stdin, stdin_open, taken, stdout, turn, verdict>>
        /\ \/ phase' = phase /\ unsent' = unsent
           \/ phase' = "failed" /\ unsent' = <<>>
    BY <1>4 DEF Kill, input
  <2>2. CASE phase' = phase /\ unsent' = unsent
    BY <2>1, <2>2 DEF Orderly, Exited, Settles, Taken, LeavesWhenAsked, StoppedIsLast
  <2>3. CASE phase' = "failed" /\ unsent' = <<>>
    BY <2>1, <2>3 DEF Orderly, Exited, Unharmed, Settles, Leaving, LeavesWhenAsked,
       StoppedIsLast
  <2>4. QED
    BY <2>1, <2>2, <2>3
<1>5. QED
  BY <1>1, <1>2, <1>3, <1>4, ClientDoes, WriteKeepsOrder

-----------------------------------------------------------------------------
(* What the client reads.                                                  *)

LEMMA StdoutGrows ==
    ASSUME StdioInv, Reads, ClientNext
    PROVE  /\ Len(stdout) \in Nat /\ Len(stdout') \in Nat /\ Len(stdout) <= Len(stdout')
           /\ \A i \in 1 .. Len(stdout) : stdout'[i] = stdout[i]
<1>1. Typed /\ stdout \in Seq(Frames) /\ stdout' \in Seq(Frames)
  BY ClientKeepsStdioInv DEF StdioInv, Typed
<1>2. Len(stdout) \in Nat /\ Len(stdout') \in Nat
  BY <1>1, LenProperties
<1>3. CASE SendFrame
  <2>1. unsent # <<>> /\ stdout' = Append(stdout, Head(unsent)) /\ unsent \in Seq(Frames)
    BY <1>1, <1>3 DEF SendFrame, Typed
  <2>2. QED
    BY <1>1, <1>2, <2>1, AppendProperties, HeadTailProperties
<1>4. CASE stdout' = stdout
  BY <1>2, <1>4
<1>5. SendFrame \/ stdout' = stdout
  <2>1. active_turn_id \in TurnIds \cup {"none"}
    BY DEF Reads
  <2>2. QED
    BY <2>1, ClientDoes, StdoutStays DEF AgentStep, Kill, Write, stdioVars, adapterVars, output
<1>6. QED
  BY <1>3, <1>4, <1>5

LEMMA ToldForGood ==
    ASSUME StdioInv, Reads, ClientNext
    PROVE  \A t, o : ToldOutcome(t, o) => ToldOutcome(t, o)'
<1>1. active_turn_id \in TurnIds \cup {"none"}
  BY DEF Reads
<1>2. CASE AdapterStep \/ AgentStep
  BY <1>2, StepConverses DEF StdioInv, StdioNext, ToldOutcome
<1>3. CASE UNCHANGED conversationVars
  BY <1>3 DEF conversationVars, contractVars, ToldOutcome
<1>4. QED
  BY <1>1, <1>2, <1>3, ClientDoes DEF Write, Kill, stdioVars

\* The frame the reader is about to read.
LEMMA EventTyped ==
    ASSUME StdioInv, seen \in 0 .. Len(stdout), seen < Len(stdout)
    PROVE  /\ seen + 1 \in 1 .. Len(stdout) /\ Next_event \in Frames
           /\ Next_event.type = "turn_terminal" =>
                /\ Next_event.turn \in TurnIds
                /\ Next_event.terminal \in Terminals
                /\ ToldOutcome(Next_event.turn, Next_event.terminal)
           /\ Next_event.type = "turn_error" => Next_event.turn \in TurnIds
           /\ Next_event.type = "stopped" => Next_event = Stopped
<1>1. stdout \in Seq(Frames) /\ Len(stdout) \in Nat /\ DOMAIN stdout = 1 .. Len(stdout)
  BY LenProperties DEF StdioInv, Typed
<1>2. seen + 1 \in 1 .. Len(stdout)
  BY <1>1
<1>3. Next_event \in Frames
  BY <1>1, <1>2, ElementOfSeq DEF Next_event
<1>4. Next_event.type = "turn_terminal" => ToldOutcome(Next_event.turn, Next_event.terminal)
  BY <1>1, <1>2 DEF StdioInv, FramesTold, Next_event
<1>5. QED
  BY <1>2, <1>3, <1>4 DEF Frames, Ready, Stopped

Unshown == {Nothing, OutcomeUnknown}

LEMMA UnshownIsNoTerminal == \A o \in Unshown : o \notin Terminals
BY DEF Unshown, Nothing, OutcomeUnknown, Terminals

\* Reads in the next state, of what the reader has read by then.
LEMMA ReadsMore ==
    ASSUME StdioInv, Reads, ClientNext,
           seen' = seen \/ seen' = seen + 1,
           seen' \in 0 .. Len(stdout),
           active_turn_id' \in TurnIds \cup {"none"},
           shown' \in [TurnIds -> Terminals \cup {Nothing, OutcomeUnknown}],
           \A t \in TurnIds : shown'[t] \in Terminals => ToldOutcome(t, shown'[t]),
           ~backend_failed' =>
                /\ ~backend_failed
                /\ \A t : shown[t] \in Terminals => shown'[t] \in Terminals
                /\ seen' # seen => (Next_event.type = "turn_terminal" =>
                                        shown'[Next_event.turn] \in Terminals),
           (reader' = "done" /\ ~backend_failed' /\ return_code' # "1") =>
                \/ reader = "done" /\ return_code # "1"
                \/ seen' = seen + 1 /\ Next_event = Stopped
    PROVE  Reads'
<1>1. /\ Len(stdout) \in Nat /\ Len(stdout') \in Nat /\ Len(stdout) <= Len(stdout')
      /\ \A i \in 1 .. Len(stdout) : stdout'[i] = stdout[i]
      /\ seen \in 0 .. Len(stdout)
  BY StdoutGrows DEF Reads
<1>2. seen' \in 0 .. Len(stdout')
  BY <1>1
<1>3. \A t \in TurnIds : shown'[t] \in Terminals => ToldOutcome(t, shown[t])'
  BY ToldForGood
<1>4. ASSUME ~backend_failed', NEW i \in 1 .. seen', stdout'[i].type = "turn_terminal"
      PROVE  shown'[stdout'[i].turn] \in Terminals
  <2>1. stdout'[i] = stdout[i]
    BY <1>1, <1>4
  <2>2. CASE i \in 1 .. seen
    BY <1>4, <2>1, <2>2 DEF Reads
  <2>3. CASE i \notin 1 .. seen
    <3>1. i = seen + 1 /\ seen' # seen
      BY <1>1, <1>4, <2>3
    <3>2. QED
      BY <1>4, <2>1, <3>1 DEF Next_event
  <2>4. QED
    BY <2>2, <2>3
<1>5. ASSUME reader' = "done", ~backend_failed', return_code' # "1"
      PROVE  \E i \in 1 .. seen' : stdout'[i] = Stopped
  <2>1. CASE reader = "done" /\ return_code # "1"
    <3>1. PICK i \in 1 .. seen : stdout[i] = Stopped
      BY <1>5, <2>1 DEF Reads
    <3>2. i \in 1 .. seen' /\ stdout'[i] = Stopped
      BY <1>1, <3>1
    <3>3. QED
      BY <3>2
  <2>2. CASE seen' = seen + 1 /\ Next_event = Stopped
    <3>1. seen + 1 \in 1 .. seen' /\ seen + 1 \in 1 .. Len(stdout)
      BY <1>1, <2>2
    <3>2. stdout'[seen + 1] = Stopped
      BY <1>1, <2>2, <3>1 DEF Next_event
    <3>3. QED
      BY <3>1, <3>2
  <2>3. QED
    BY <1>5, <2>1, <2>2
<1>6. QED
  BY <1>2, <1>3, <1>4, <1>5 DEF Reads

LEMMA ClientKeepsReads ==
    ASSUME StdioInv, Reads, ClientNext
    PROVE  Reads'
<1>1. /\ Len(stdout) \in Nat /\ seen \in 0 .. Len(stdout)
      /\ seen < Len(stdout) => seen + 1 \in 0 .. Len(stdout)
  BY StdoutGrows DEF Reads
<1>2. /\ active_turn_id \in TurnIds \cup {"none"}
      /\ shown \in [TurnIds -> Terminals \cup {Nothing, OutcomeUnknown}]
      /\ \A t \in TurnIds : shown[t] \in Terminals => ToldOutcome(t, shown[t])
  BY DEF Reads
<1>3. CASE /\ UNCHANGED <<seen, shown>>
           /\ \/ reader' = reader /\ (return_code' # "1" => return_code # "1")
              \/ reader' # "done"
              \/ return_code' = "1"
           /\ active_turn_id' \in TurnIds \cup {"none"}
           /\ ~backend_failed' => ~backend_failed
  BY <1>1, <1>2, <1>3, ReadsMore
<1>4. CASE Start \/ StartFails \/ ReadCancelResult \/ ReadStopped \/ ReadFails
  <2>1. /\ UNCHANGED <<shown, active_turn_id>>
        /\ seen' = seen \/ (seen' = seen + 1 /\ seen < Len(stdout))
        /\ ~backend_failed' => ~backend_failed
        /\ (~backend_failed' /\ seen' # seen) => Next_event.type # "turn_terminal"
    BY <1>4 DEF Start, StartFails, ReadCancelResult, ReadStopped, ReadFails, NextIs, MarkFailed,
       screen
  <2>2. /\ return_code' = return_code
        /\ (reader' = "done" /\ ~backend_failed') =>
            \/ reader = "done"
            \/ seen' = seen + 1 /\ seen < Len(stdout) /\ Next_event.type = "stopped"
    BY <1>4 DEF Start, StartFails, ReadCancelResult, ReadStopped, ReadFails, NextIs, MarkFailed,
       ending
  <2>3. (reader' = "done" /\ ~backend_failed') =>
            reader = "done" \/ (seen' = seen + 1 /\ Next_event = Stopped)
    BY <1>1, <2>2, EventTyped
  <2>4. seen' \in 0 .. Len(stdout)
    BY <1>1, <2>1
  <2>5. QED
    BY <1>2, <2>1, <2>2, <2>3, <2>4, ReadsMore
<1>5. CASE ReadTerminal
  <2>1. PICK a, o : a = Next_event.turn /\ o = Next_event.terminal
    OBVIOUS
  <2>2. /\ seen' = seen + 1 /\ seen < Len(stdout) /\ Next_event.type = "turn_terminal"
        /\ active_turn_id = a /\ shown' = [shown EXCEPT ![a] = o]
        /\ active_turn_id' = "none" /\ UNCHANGED <<reader, backend_failed, return_code>>
    BY <1>5, <2>1 DEF ReadTerminal, NextIs, Matches, EndTurn, ending
  <2>3. a \in TurnIds /\ o \in Terminals /\ ToldOutcome(a, o)
    BY <1>1, <2>1, <2>2, EventTyped
  <2>4. \A t : shown[t] \in Terminals => shown'[t] \in Terminals
    BY <1>2, <2>2, <2>3
  <2>5. QED
    BY <1>1, <1>2, <2>1, <2>2, <2>3, <2>4, ReadsMore
<1>6. CASE ReadTurnError
  <2>1. /\ seen' = seen + 1 /\ seen < Len(stdout) /\ Next_event.type = "turn_error"
        /\ shown' = [shown EXCEPT ![active_turn_id] = OutcomeUnknown]
        /\ active_turn_id' = "none" /\ backend_failed'
    BY <1>6 DEF ReadTurnError, NextIs, EndTurn, MarkFailed
  <2>2. OutcomeUnknown \notin Terminals
    BY UnshownIsNoTerminal DEF Unshown
  <2>3. /\ shown' \in [TurnIds -> Terminals \cup {Nothing, OutcomeUnknown}]
        /\ \A t \in TurnIds : shown'[t] \in Terminals => shown'[t] = shown[t]
    BY <1>2, <2>1, <2>2
  <2>4. QED
    BY <1>1, <1>2, <2>1, <2>3, ReadsMore
<1>7. CASE Spawn \/ SpawnFails \/ ReadyTimesOut \/ Quit \/ QuitUnstarted \/ RequestShutdown
  BY <1>2, <1>3, <1>7 DEF Spawn, SpawnFails, ReadyTimesOut, Quit, QuitUnstarted,
     RequestShutdown, Open, backend, screen, ending
<1>8. CASE \E t \in TurnIds : SubmitMessage(t)
  BY <1>3, <1>8 DEF SubmitMessage, ending
<1>9. CASE SubmitFails \/ CancelTurn \/ CancelFailed \/ QuitEnds \/ QuitTimesOut
  BY <1>2, <1>3, <1>9 DEF SubmitFails, CancelTurn, CancelFailed, QuitEnds, QuitTimesOut, Open,
     backend, screen, ending, MarkFailed
<1>10. CASE UNCHANGED appVars
  BY <1>2, <1>3, <1>10 DEF appVars, backend, screen, ending
<1>11. QED
  BY <1>4, <1>5, <1>6, <1>7, <1>8, <1>9, <1>10
     DEF ClientNext, LoopStep, UserStep, QuitStep, AdapterMoves

-----------------------------------------------------------------------------
(* How the client exits.                                                   *)

LEMMA ClientKeepsUncreated ==
    ASSUME Uncreated, ClientNext
    PROVE  Uncreated'
<1>1. SUFFICES ASSUME reader' = "creating"
               PROVE  /\ stdin' = <<>> /\ active_turn_id' = "none" /\ ~editor' /\ ~killed'
                      /\ Open' => ~shutdown_started'
  BY DEF Uncreated
<1>2. CASE LoopStep
  <2>1. Spawn \/ SpawnFails \/ ReadCancelResult \/ ReadTerminal
    BY <1>1, <1>2 DEF LoopStep, Start, StartFails, ReadyTimesOut, ReadTurnError, ReadStopped,
       ReadFails
  <2>2. SpawnFails
    BY <1>1, <2>1 DEF Spawn, ReadCancelResult, ReadTerminal, Reading
  <2>3. /\ reader = "creating" /\ UNCHANGED <<stdin, active_turn_id, editor, killed>>
        /\ return_code' = "1"
    BY <2>2 DEF SpawnFails, stdioVars, input, backend, screen
  <2>4. QED
    BY <2>3 DEF Uncreated, Open
<1>3. CASE UserStep
  <2>1. reader = "creating"
    BY <1>1, <1>3 DEF UserStep, SubmitMessage, SubmitFails, CancelTurn, CancelFailed, Quit,
       backend
  <2>2. ~editor /\ active_turn_id = "none"
    BY <2>1 DEF Uncreated
  <2>3. Quit
    BY <1>3, <2>2 DEF UserStep, SubmitMessage, SubmitFails, CancelTurn, CancelFailed,
       Cancellable
  <2>4. UNCHANGED <<stdin, active_turn_id, editor, killed, shutdown_started, return_code>>
    BY <2>3 DEF Quit, stdioVars, input, backend, screen
  <2>5. QED
    BY <2>1, <2>4 DEF Uncreated, Open
<1>4. CASE QuitStep
  <2>1. reader = "creating"
    BY <1>1, <1>4 DEF QuitStep, QuitUnstarted, RequestShutdown, QuitEnds, QuitTimesOut, backend
  <2>2. QuitUnstarted \/ QuitTimesOut
    BY <1>4, <2>1 DEF QuitStep, RequestShutdown, QuitEnds
  <2>3. CASE QuitUnstarted
    <3>1. UNCHANGED <<stdin, active_turn_id, editor, killed>> /\ return_code' # "none"
      BY <2>3 DEF QuitUnstarted, stdioVars, input, backend, screen
    <3>2. QED
      BY <2>1, <3>1 DEF Uncreated, Open
  <2>4. QED
    BY <2>1, <2>2, <2>3 DEF QuitTimesOut, Uncreated
<1>5. CASE AdapterMoves \/ (AgentStep /\ UNCHANGED appVars)
  <2>1. UNCHANGED appVars
    BY <1>5 DEF AdapterMoves
  <2>2. reader = "creating" /\ UNCHANGED <<active_turn_id, editor, killed, shutdown_started,
                                          return_code>>
    BY <1>1, <2>1 DEF appVars, backend, screen, ending
  <2>3. stdin' = stdin
    BY <1>5, <2>2 DEF AdapterMoves, AgentStep, input
  <2>4. QED
    BY <2>2, <2>3 DEF Uncreated, Open
<1>6. QED
  BY <1>2, <1>3, <1>4, <1>5 DEF ClientNext

LEMMA ClientKeepsExits ==
    ASSUME StdioInv, Orderly, Uncreated, Exits, ClientNext
    PROVE  Exits'
<1>1. Exited => ~AdapterStep
  BY ExitedIsQuiet DEF Orderly
<1>2. CASE AdapterMoves \/ (AgentStep /\ UNCHANGED appVars)
  <2>1. phase' = phase \/ AdapterStep
    BY <1>2 DEF AdapterMoves, AgentStep, adapterVars, control
  <2>2. UNCHANGED <<killed, return_code, reader, backend_failed>>
    BY <1>2 DEF AdapterMoves, appVars, backend, screen, ending
  <2>3. QED
    BY <1>1, <2>1, <2>2 DEF Exits, Exited
<1>3. CASE \/ Spawn \/ Start \/ ReadCancelResult \/ ReadTerminal \/ ReadTurnError
           \/ ReadStopped \/ ReadFails \/ SubmitFails \/ CancelTurn \/ CancelFailed \/ Quit
           \/ RequestShutdown \/ \E t \in TurnIds : SubmitMessage(t)
  <2>1. /\ return_code = "none" /\ return_code' = "none" /\ killed' = killed
    BY <1>3 DEF Spawn, Start, ReadCancelResult, ReadTerminal, ReadTurnError, ReadStopped,
       ReadFails, Reading, SubmitFails, CancelTurn, CancelFailed, Quit, RequestShutdown,
       SubmitMessage, Open, ending
  <2>2. phase' = phase
    BY <1>3 DEF Spawn, Start, ReadCancelResult, ReadTerminal, ReadTurnError, ReadStopped,
       ReadFails, SubmitFails, CancelTurn, CancelFailed, Quit, RequestShutdown, SubmitMessage,
       WriteFails, Write, stdioVars, adapterVars, control
  <2>3. QED
    BY <2>1, <2>2 DEF Exits
<1>4. CASE StartFails \/ ReadyTimesOut \/ QuitTimesOut
  <2>1. return_code' # "0"
    BY <1>4 DEF StartFails, ReadyTimesOut, QuitTimesOut, Open
  <2>2. Kill
    BY <1>4 DEF StartFails, ReadyTimesOut, QuitTimesOut
  <2>3. QED
    BY <2>1, <2>2 DEF Exits, Kill
<1>5. CASE SpawnFails \/ QuitUnstarted \/ QuitEnds
  <2>1. UNCHANGED <<phase, killed, reader, backend_failed>>
    BY <1>5 DEF SpawnFails, QuitUnstarted, QuitEnds, stdioVars, adapterVars, control, backend,
       screen
  <2>2. return_code' = "0" =>
            reader = "creating" \/ (reader = "done" /\ ~backend_failed /\ phase = "succeeded")
    BY <1>5 DEF SpawnFails, QuitUnstarted, QuitEnds, Exited
  <2>3. QED
    BY <2>1, <2>2 DEF Exits
<1>6. QED
  BY <1>2, <1>3, <1>4, <1>5 DEF ClientNext, LoopStep, UserStep, QuitStep

-----------------------------------------------------------------------------
(* The theorems.                                                           *)

LEMMA ClientInvInit == ClientInit => ClientInv
<1> SUFFICES ASSUME ClientInit PROVE ClientInv
  OBVIOUS
<1>1. StdioInv
  BY StdioInvInit DEF ClientInit
<1>2. Orderly
  BY DEF ClientInit, StdioInit, Orderly, Exited, Settles, Taken, Leaving, LeavesWhenAsked,
     StoppedIsLast
<1>3. Reads
  <2>1. stdout = <<>> /\ seen = 0 /\ Len(stdout) = 0 /\ reader = "creating"
    BY DEF ClientInit, StdioInit
  <2>2. Nothing \notin Terminals
    BY UnshownIsNoTerminal DEF Unshown
  <2>3. QED
    BY <2>1, <2>2 DEF ClientInit, Reads
<1>4. Uncreated /\ Exits
  BY DEF ClientInit, StdioInit, Uncreated, Exits
<1>5. QED
  BY <1>1, <1>2, <1>3, <1>4 DEF ClientInv

LEMMA ClientInvNext == ClientInv /\ [ClientNext]_clientVars => ClientInv'
<1>1. ASSUME ClientInv, ClientNext PROVE ClientInv'
  BY <1>1, ClientKeepsStdioInv, ClientKeepsOrder, ClientKeepsReads,
     ClientKeepsUncreated, ClientKeepsExits DEF ClientInv
<1>2. ASSUME ClientInv, UNCHANGED clientVars PROVE ClientInv'
  <2>1. UNCHANGED stdioVars /\ UNCHANGED appVars
    BY <1>2 DEF clientVars
  <2>2. StdioInv'
    BY <1>2, <2>1, StdioInvNext DEF ClientInv
  <2>3. UNCHANGED <<stdin, stdin_open, taken, stdout, unsent, phase, turn, verdict, answers>>
    BY <2>1 DEF stdioVars, conversationVars, contractVars, input, adapterVars, output, control
  <2>4. Orderly'
    BY <1>2, <2>3 DEF ClientInv, Orderly, Exited, Settles, Taken, LeavesWhenAsked,
       StoppedIsLast
  <2>5. UNCHANGED <<reader, seen, active_turn_id, editor, shown, backend_failed,
                    shutdown_started, killed, return_code>>
    BY <2>1 DEF appVars, backend, screen, ending
  <2>6. Reads'
    BY <1>2, <2>3, <2>5 DEF ClientInv, Reads, ToldOutcome
  <2>7. Uncreated' /\ Exits'
    BY <1>2, <2>3, <2>5 DEF ClientInv, Uncreated, Exits, Open
  <2>8. QED
    BY <2>2, <2>4, <2>6, <2>7 DEF ClientInv
<1>3. QED
  BY <1>1, <1>2

\* The inductive invariant of the client and the adapter it talks to.
THEOREM ClientInvariant == ClientSpec => []ClientInv
BY ClientInvInit, ClientInvNext, PTL DEF ClientSpec

\* What the application shows of a turn is how the Agent sealed it.
THEOREM ClientShownIsSealed == ClientSpec => []ShownIsSealed
<1>1. ClientInv => ShownIsSealed
  BY ToldIsSealed DEF ClientInv, StdioInv, Typed, Reads, ShownIsSealed
<1>2. QED
  BY <1>1, ClientInvariant, PTL

\* An exit code of 0 says that every turn submitted before the shutdown was
\* settled on screen, that the process succeeded if there was one, and that
\* none was forced to end.
THEOREM ClientCleanExitSettles == ClientSpec => []CleanExitSettles
<1>1. ASSUME ClientInv, return_code = "0", reader = "creating"
      PROVE  CleanExitSettles
  <2>1. stdin = <<>> /\ ~killed
    BY <1>1 DEF ClientInv, Uncreated
  <2>2. DOMAIN stdin = {}
    BY <2>1
  <2>3. QED
    BY <1>1, <2>1, <2>2 DEF CleanExitSettles
<1>2. ASSUME ClientInv, return_code = "0", reader # "creating"
      PROVE  CleanExitSettles
  <2>1. SUFFICES ~killed /\ phase = "succeeded"
                 /\ \A i \in DOMAIN stdin :
                       SubmittedInTime(i) => shown[stdin[i].turn] \in Terminals
    BY DEF CleanExitSettles
  <2>2. reader = "done" /\ ~backend_failed /\ phase = "succeeded" /\ ~killed
    BY <1>2 DEF ClientInv, Exits
  <2>3. /\ stdin \in Seq(Commands) /\ DOMAIN stdin = 1 .. Len(stdin) /\ Len(stdin) \in Nat
        /\ DOMAIN stdout = 1 .. Len(stdout) /\ Len(stdout) \in Nat
    BY <1>2, LenProperties DEF ClientInv, StdioInv, Typed
  <2>4. seen = Len(stdout) /\ unsent = <<>>
    <3>1. PICK i \in 1 .. seen : stdout[i] = Stopped
      BY <1>2, <2>2 DEF ClientInv, Reads
    <3>2. seen \in 0 .. Len(stdout)
      BY <1>2 DEF ClientInv, Reads
    <3>3. i \in DOMAIN stdout
      BY <2>3, <3>1, <3>2
    <3>4. i = Len(stdout) /\ unsent = <<>>
      BY <1>2, <3>1, <3>3 DEF ClientInv, Orderly, StoppedIsLast
    <3>5. seen \in Nat /\ i \in Nat /\ i <= seen /\ seen <= i
      BY <2>3, <3>1, <3>2, <3>4
    <3>6. QED
      BY <3>4, <3>5
  <2>5. verdict = "graceful" /\ taken \in DOMAIN stdin /\ stdin[taken] = Shutdown
    BY <1>2, <2>2 DEF ClientInv, Orderly, Unharmed, Leaving, LeavesWhenAsked
  <2>6. SUFFICES ASSUME NEW i \in DOMAIN stdin, SubmittedInTime(i)
                 PROVE  shown[stdin[i].turn] \in Terminals
    BY <2>2
  <2>7. PICK t : t = stdin[i].turn
    OBVIOUS
  <2>8. t \in TurnIds /\ stdin[i] = Submission(t)
    BY <2>3, <2>6, <2>7, ElementOfSeq, CommandShapes DEF SubmittedInTime
  <2>9. i \in 1 .. taken
    BY <2>3, <2>5, <2>6 DEF SubmittedInTime
  <2>10. Taken(t)
    BY <2>8, <2>9 DEF Taken, Submission
  <2>11. EndsIn(stdout, t)
    BY <1>2, <2>2, <2>4, <2>5, <2>8, <2>10 DEF ClientInv, Orderly, Settles, Working, EndsIn
  <2>12. PICK k \in 1 .. seen : stdout[k].type = "turn_terminal" /\ stdout[k].turn = t
    BY <2>3, <2>4, <2>11 DEF EndsIn
  <2>13. QED
    BY <1>2, <2>2, <2>7, <2>12 DEF ClientInv, Reads
<1>3. ClientInv => CleanExitSettles
  BY <1>1, <1>2 DEF CleanExitSettles
<1>4. QED
  BY <1>3, ClientInvariant, PTL

=============================================================================
