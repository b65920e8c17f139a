----------------------- MODULE AgentConversationProofs -----------------------
(***************************************************************************)
(* What a client may conclude from the replies it gets, for any number of  *)
(* calls, turns and Sessions, over a network that loses, delays, reorders  *)
(* and repeats its requests.                                               *)
(*                                                                         *)
(* First the promises of the contract.  ContractInv is inductive:          *)
(* AnswersSound ties each answer to the status of its turn, and a status   *)
(* only ever changes in ways that keep what was said about it true.        *)
(*                                                                         *)
(* A conversation keeps the contract, so that what was told agrees; and    *)
(* what a call returns was told.  Those lemmas speak of ConversationMove,  *)
(* the steps without the bound on calls, so that the front ends can cite   *)
(* them.                                                                   *)
(***************************************************************************)

EXTENDS AgentConversation, SequenceTheorems, TLAPS

-----------------------------------------------------------------------------
(* The contract.                                                           *)

\* A status that was forgotten is Unknown, any other is as it was.
LEMMA RememberedStatus ==
    ASSUME ContractTypeOK, NEW F \in Forgettable,
           NEW s \in SessionIds, NEW t \in TurnIds
    PROVE  /\ Remembered(F) \in [SessionIds -> [TurnIds -> Statuses]]
           /\ Remembered(F)[s][t] = IF s \in F THEN Unknown ELSE status[s][t]
BY DEF ContractTypeOK, Remembered, Statuses

\* How one turn's status changes, and that no other's does.
LEMMA BecomeStatus ==
    ASSUME ContractTypeOK, NEW F \in Forgettable,
           NEW s \in SessionIds, NEW t \in TurnIds, NEW st \in Statuses,
           Become(F, s, t, st)
    PROVE  /\ status' \in [SessionIds -> [TurnIds -> Statuses]]
           /\ \A r \in SessionIds, u \in TurnIds :
                status'[r][u] = IF r = s /\ u = t THEN st
                                ELSE IF r \in F THEN Unknown ELSE status[r][u]
<1>1. Remembered(F) \in [SessionIds -> [TurnIds -> Statuses]]
  BY RememberedStatus
<1>2. status' = [Remembered(F) EXCEPT ![s][t] = st]
  BY DEF Become
<1>3. status' \in [SessionIds -> [TurnIds -> Statuses]]
  BY <1>1, <1>2
<1>4. ASSUME NEW r \in SessionIds, NEW u \in TurnIds
      PROVE  status'[r][u] = IF r = s /\ u = t THEN st ELSE Remembered(F)[r][u]
  BY <1>1, <1>2
<1>5. QED
  BY <1>3, <1>4, RememberedStatus

\* The shapes a status can have.
LEMMA StatusShapes ==
    /\ Unknown \in Statuses /\ Unknown.phase = "unknown"
    /\ Promised \in Statuses /\ Promised.phase = "promised"
    /\ \A i \in Inputs, c \in BOOLEAN :
        /\ Running(i, c) \in Statuses
        /\ Running(i, c).phase = "running"
        /\ Running(i, c).input = i
        /\ Running(i, c).cancelled = c
    /\ \A i \in Inputs, o \in Terminals :
        /\ Sealed(i, o) \in Statuses
        /\ Sealed(i, o).phase = "sealed"
        /\ Sealed(i, o).input = i
        /\ Sealed(i, o).terminal = o
BY DEF Statuses, Unknown, Promised, Running, Sealed

LEMMA StatusCases ==
    ASSUME NEW st \in Statuses
    PROVE  /\ st.phase = "running" => st.input \in Inputs /\ st.cancelled \in BOOLEAN
           /\ st.phase = "sealed" => st.input \in Inputs /\ st.terminal \in Terminals
           /\ st.phase \in {"unknown", "promised", "running", "sealed"}
           /\ st.phase = "unknown" => st = Unknown
BY DEF Statuses, Unknown, Promised, Running, Sealed

LEMMA TerminalShapes ==
    /\ Cancelled \in Terminals
    /\ CancellationRequested \notin Terminals
    /\ [kind |-> "Failed", detail |-> "ContextLimit"] \in Terminals
BY DEF Terminals, Cancelled, CancellationRequested, Failures

LEMMA AnswerShape ==
    ASSUME NEW s \in SessionIds, NEW t \in TurnIds,
           NEW asked \in Inputs \cup {"cancel"},
           NEW reply \in Terminals \cup {CancellationRequested}
    PROVE  LET a == Answer(s, t, asked, reply)
           IN  /\ a \in Answers
               /\ a.session = s /\ a.turn = t /\ a.asked = asked /\ a.reply = reply
BY DEF Answer, Answers

-----------------------------------------------------------------------------

LEMMA ContractInvInit == ContractInit => ContractInv
BY StatusShapes DEF ContractInit, ContractInv, ContractTypeOK, OneTurnRuns, AnswersSound

-----------------------------------------------------------------------------

\* The one argument all actions share: a step that gives one turn a status
\* bearing out both what is told now and what was told before is sound.
LEMMA StepSound ==
    ASSUME ContractInv, NEW F \in Forgettable,
           NEW s \in SessionIds, NEW t \in TurnIds, NEW st \in Statuses,
           NEW told \in SUBSET Answers,
           Become(F, s, t, st), Tell(F, told),
           \A a \in told : a.session = s /\ a.turn = t /\ BorneOut(a, st),
           \A a \in answers :
              (a.session = s /\ a.turn = t /\ s \notin F) => BorneOut(a, st)
    PROVE  ContractTypeOK' /\ AnswersSound'
<1>1. ContractTypeOK /\ AnswersSound
  BY DEF ContractInv
<1>2. ContractTypeOK'
  BY <1>1, BecomeStatus DEF ContractTypeOK, Tell, AnswersBut
<1>3. ASSUME NEW a \in answers'
      PROVE  BorneOut(a, status'[a.session][a.turn])
  <2>1. CASE a \in told
    BY <1>1, <2>1, BecomeStatus
  <2>2. CASE a \in answers /\ a.session \notin F
    <3>1. a.session \in SessionIds /\ a.turn \in TurnIds
      BY <1>1, <2>2 DEF ContractTypeOK, Answers
    <3>2. CASE a.session = s /\ a.turn = t
      BY <1>1, <2>2, <3>1, <3>2, BecomeStatus
    <3>3. CASE ~(a.session = s /\ a.turn = t)
      <4>1. status'[a.session][a.turn] = status[a.session][a.turn]
        BY <1>1, <2>2, <3>1, <3>3, BecomeStatus
      <4>2. QED
        BY <1>1, <2>2, <4>1 DEF AnswersSound
    <3>4. QED
      BY <3>2, <3>3
  <2>3. QED
    BY <2>1, <2>2 DEF Tell, AnswersBut
<1>4. QED
  BY <1>2, <1>3 DEF AnswersSound

\* At most one turn runs after a step that starts none, or starts one when
\* none was running.
LEMMA StepOneRuns ==
    ASSUME ContractInv, NEW F \in Forgettable,
           NEW s \in SessionIds, NEW t \in TurnIds, NEW st \in Statuses,
           Become(F, s, t, st),
           \/ st.phase # "running"
           \/ status[s][t].phase = "running"
           \/ \A r \in SessionIds : ~RunsIn(r)
    PROVE  OneTurnRuns'
<1>1. ContractTypeOK /\ OneTurnRuns
  BY DEF ContractInv
<1>2. SUFFICES ASSUME NEW a \in SessionIds, NEW b \in SessionIds,
                      NEW u \in TurnIds, NEW v \in TurnIds,
                      status'[a][u].phase = "running",
                      status'[b][v].phase = "running"
               PROVE  a = b /\ u = v
  BY DEF OneTurnRuns
<1>3. ASSUME NEW r \in SessionIds, NEW w \in TurnIds,
             status'[r][w].phase = "running", ~(r = s /\ w = t)
      PROVE  status[r][w].phase = "running"
  BY <1>1, <1>3, BecomeStatus, StatusShapes
<1>4. status'[s][t] = st
  BY <1>1, BecomeStatus
<1>5. QED
  BY <1>1, <1>2, <1>3, <1>4 DEF OneTurnRuns, RunsIn

\* Nothing that was said about an unknown turn still stands.
LEMMA UnknownUntold ==
    ASSUME ContractInv, NEW F \in Forgettable,
           NEW s \in SessionIds, NEW t \in TurnIds,
           Remembered(F)[s][t] = Unknown,
           NEW a \in answers, a.session = s, a.turn = t, s \notin F
    PROVE  FALSE
<1>1. status[s][t].phase = "unknown"
  BY RememberedStatus, StatusShapes DEF ContractInv
<1>2. BorneOut(a, status[s][t])
  BY DEF ContractInv, AnswersSound
<1>3. QED
  BY <1>1, <1>2 DEF BorneOut

-----------------------------------------------------------------------------
(* One lemma per action.                                                   *)

LEMMA NothingForgotten == {} \in Forgettable
BY DEF Forgettable

LEMMA AdmitInv ==
    ASSUME ContractInv, NEW F \in Forgettable, NEW s \in SessionIds,
           NEW t \in TurnIds, NEW i \in Inputs, Admit(F, s, t, i)
    PROVE  ContractInv'
<1> DEFINE st == Running(i, FALSE)
<1>1. st \in Statuses
  BY StatusShapes
<1>2. /\ Become(F, s, t, st) /\ Tell(F, {})
      /\ Remembered(F)[s][t] = Unknown
      /\ \A r \in SessionIds : ~RunsIn(r)
  BY DEF Admit
<1> HIDE DEF st
<1>3. ContractTypeOK' /\ AnswersSound'
  BY <1>1, <1>2, StepSound, UnknownUntold
<1>4. OneTurnRuns'
  BY <1>1, <1>2, StepOneRuns
<1>5. QED
  BY <1>3, <1>4 DEF ContractInv

LEMMA RefuseInv ==
    ASSUME ContractInv, NEW F \in Forgettable, NEW s \in SessionIds,
           NEW t \in TurnIds, NEW i \in Inputs, Refuse(F, s, t, i)
    PROVE  ContractInv'
<1> DEFINE o == [kind |-> "Failed", detail |-> "ContextLimit"]
           st == Sealed(i, o)
           told == {Answer(s, t, i, o)}
<1>1. o \in Terminals /\ o # CancellationRequested
  BY TerminalShapes
<1>2. Become(F, s, t, st) /\ Tell(F, told) /\ Remembered(F)[s][t] = Unknown
  BY DEF Refuse
<1> HIDE DEF o
<1>3. st \in Statuses /\ st.phase = "sealed" /\ st.terminal = o /\ st.input = i
  BY <1>1, StatusShapes
<1>4. \A a \in told : a \in Answers /\ a.session = s /\ a.turn = t /\ BorneOut(a, st)
  BY <1>1, <1>3, AnswerShape DEF BorneOut
<1> HIDE DEF st, told
<1>5. ContractTypeOK' /\ AnswersSound'
  BY <1>2, <1>3, <1>4, StepSound, UnknownUntold
<1>6. OneTurnRuns'
  BY <1>2, <1>3, StepOneRuns
<1>7. QED
  BY <1>5, <1>6 DEF ContractInv

LEMMA AcceptCancelInv ==
    ASSUME ContractInv, NEW F \in Forgettable, NEW s \in SessionIds,
           NEW t \in TurnIds, AcceptCancel(F, s, t)
    PROVE  ContractInv'
<1> DEFINE old == Remembered(F)[s][t]
           st == IF old.phase = "running" THEN Running(status[s][t].input, TRUE)
                                          ELSE Promised
           told == {Answer(s, t, "cancel", CancellationRequested)}
<1>1. /\ Become(F, s, t, st)
      /\ Tell(F, told)
      /\ old.phase \in {"unknown", "promised", "running"}
  BY DEF AcceptCancel
<1>2. /\ old = IF s \in F THEN Unknown ELSE status[s][t]
      /\ status[s][t] \in Statuses
  BY RememberedStatus DEF ContractInv, ContractTypeOK
<1>3. /\ st \in Statuses
      /\ \/ st.phase = "promised" /\ old.phase # "running"
         \/ st.phase = "running" /\ st.cancelled /\ status[s][t].phase = "running"
  BY <1>2, StatusShapes, StatusCases
<1> HIDE DEF old, st
<1>4. \A a \in told : a \in Answers /\ a.session = s /\ a.turn = t /\ BorneOut(a, st)
  BY <1>3, AnswerShape DEF BorneOut
<1>5. ASSUME NEW a \in answers, a.session = s, a.turn = t, s \notin F
      PROVE  BorneOut(a, st)
  <2>1. BorneOut(a, status[s][t])
    BY <1>5 DEF ContractInv, AnswersSound
  <2>2. QED
    BY <1>1, <1>2, <1>3, <1>5, <2>1 DEF BorneOut
<1> HIDE DEF told
<1>6. ContractTypeOK' /\ AnswersSound'
  BY <1>1, <1>3, <1>4, <1>5, StepSound
<1>7. OneTurnRuns'
  BY <1>1, <1>3, StepOneRuns
<1>8. QED
  BY <1>6, <1>7 DEF ContractInv

LEMMA RedeemInv ==
    ASSUME ContractInv, NEW s \in SessionIds, NEW t \in TurnIds,
           NEW i \in Inputs, Redeem(s, t, i)
    PROVE  ContractInv'
<1> DEFINE st == Sealed(i, Cancelled)
           told == {Answer(s, t, i, Cancelled)}
<1>1. Become({}, s, t, st) /\ Tell({}, told) /\ status[s][t].phase = "promised"
  BY StatusShapes DEF Redeem
<1>2. st \in Statuses /\ st.phase = "sealed" /\ st.terminal = Cancelled /\ st.input = i
  BY StatusShapes, TerminalShapes
<1>3. \A a \in told : a \in Answers /\ a.session = s /\ a.turn = t /\ BorneOut(a, st)
  BY <1>2, AnswerShape, TerminalShapes DEF BorneOut
<1>4. ASSUME NEW a \in answers, a.session = s, a.turn = t
      PROVE  BorneOut(a, st)
  BY <1>1, <1>2, <1>4 DEF ContractInv, AnswersSound, BorneOut
<1> HIDE DEF st, told
<1>5. ContractTypeOK' /\ AnswersSound'
  BY <1>1, <1>2, <1>3, <1>4, StepSound, NothingForgotten
<1>6. OneTurnRuns'
  BY <1>1, <1>2, StepOneRuns, NothingForgotten
<1>7. QED
  BY <1>5, <1>6 DEF ContractInv

LEMMA InterruptInv ==
    ASSUME ContractInv, NEW s \in SessionIds, NEW t \in TurnIds, Interrupt(s, t)
    PROVE  ContractInv'
<1> DEFINE st == Running(status[s][t].input, TRUE)
<1>1. Become({}, s, t, st) /\ Tell({}, {}) /\ status[s][t].phase = "running"
  BY DEF Interrupt
<1>2. st \in Statuses /\ st.phase = "running" /\ st.cancelled
  <2>1. status[s][t].input \in Inputs
    BY <1>1, StatusCases DEF ContractInv, ContractTypeOK
  <2>2. QED
    BY <2>1, StatusShapes
<1>3. ASSUME NEW a \in answers, a.session = s, a.turn = t
      PROVE  BorneOut(a, st)
  BY <1>1, <1>2, <1>3 DEF ContractInv, AnswersSound, BorneOut
<1> HIDE DEF st
<1>4. ContractTypeOK' /\ AnswersSound'
  BY <1>1, <1>2, <1>3, StepSound, NothingForgotten
<1>5. OneTurnRuns'
  BY <1>1, <1>2, StepOneRuns, NothingForgotten
<1>6. QED
  BY <1>4, <1>5 DEF ContractInv

LEMMA SealInv ==
    ASSUME ContractInv, NEW s \in SessionIds, NEW t \in TurnIds,
           NEW o \in Terminals, Seal(s, t, o)
    PROVE  ContractInv'
<1> DEFINE i == status[s][t].input
           st == Sealed(i, o)
<1>1. /\ status[s][t].phase = "running"
      /\ status[s][t].cancelled => o = Cancelled
      /\ Become({}, s, t, st)
      /\ Tell({}, {Answer(s, t, i, o)}) \/ Tell({}, {})
  BY DEF Seal
<1>2. i \in Inputs
  BY <1>1, StatusCases DEF ContractInv, ContractTypeOK
<1>3. st \in Statuses /\ st.phase = "sealed" /\ st.terminal = o /\ st.input = i
  BY <1>2, StatusShapes
<1>4. PICK told \in SUBSET {Answer(s, t, i, o)} : Tell({}, told)
  BY <1>1
<1> HIDE DEF i
<1>5. \A a \in told : a \in Answers /\ a.session = s /\ a.turn = t /\ BorneOut(a, st)
  BY <1>2, <1>3, <1>4, AnswerShape, TerminalShapes DEF BorneOut
<1>6. ASSUME NEW a \in answers, a.session = s, a.turn = t
      PROVE  BorneOut(a, st)
  BY <1>1, <1>3, <1>6 DEF ContractInv, AnswersSound, BorneOut
<1> HIDE DEF st
<1>7. ContractTypeOK' /\ AnswersSound'
  BY <1>1, <1>3, <1>4, <1>5, <1>6, StepSound, NothingForgotten
<1>8. OneTurnRuns'
  BY <1>1, <1>3, StepOneRuns, NothingForgotten
<1>9. QED
  BY <1>7, <1>8 DEF ContractInv

LEMMA RepeatInv ==
    ASSUME ContractInv, NEW s \in SessionIds, NEW t \in TurnIds,
           NEW asked \in Inputs \cup {"cancel"}, Repeat(s, t, asked)
    PROVE  ContractInv'
<1> DEFINE o == status[s][t].terminal
<1>1. /\ status[s][t].phase = "sealed" /\ asked \in {status[s][t].input, "cancel"}
      /\ answers' = answers \cup {Answer(s, t, asked, o)}
      /\ status' = status
  BY DEF Repeat, Tell, AnswersBut
<1>2. o \in Terminals
  BY <1>1, StatusCases DEF ContractInv, ContractTypeOK
<1>3. Answer(s, t, asked, o) \in Answers
  BY <1>2, AnswerShape
<1>4. BorneOut(Answer(s, t, asked, o), status[s][t])
  BY <1>1, <1>2, AnswerShape, TerminalShapes DEF BorneOut
<1>5. AnswersSound'
  BY <1>1, <1>2, <1>4, AnswerShape DEF ContractInv, AnswersSound
<1>6. ContractTypeOK' /\ OneTurnRuns'
  BY <1>1, <1>3 DEF ContractInv, ContractTypeOK, OneTurnRuns
<1>7. QED
  BY <1>5, <1>6 DEF ContractInv

LEMMA ContractInvNext == ContractInv /\ [ContractNext]_contractVars => ContractInv'
<1>1. ASSUME ContractInv, ContractNext
      PROVE  ContractInv'
  BY <1>1, AdmitInv, RefuseInv, AcceptCancelInv, RedeemInv, InterruptInv,
     SealInv, RepeatInv DEF ContractNext
<1>2. ASSUME ContractInv, UNCHANGED contractVars
      PROVE  ContractInv'
  BY <1>2 DEF contractVars, ContractInv, ContractTypeOK, OneTurnRuns, AnswersSound
<1>3. QED
  BY <1>1, <1>2

-----------------------------------------------------------------------------

\* The inductive invariant holds in every behaviour of the contract.
THEOREM ContractInvariant == ContractSpec => []ContractInv
BY ContractInvInit, ContractInvNext, PTL DEF ContractSpec

\* Values keep their types.
THEOREM ContractTypeCorrect == ContractSpec => []ContractTypeOK
BY ContractInvariant, PTL DEF ContractInv

\* One turn runs at a time in the whole service.
THEOREM ContractOneTurnRuns == ContractSpec => []OneTurnRuns
BY ContractInvariant, PTL DEF ContractInv

\* Two answers about one turn are borne out by the same status.
LEMMA SoundAgree == ContractInv => AnswersAgree
<1>1. SUFFICES ASSUME ContractInv, NEW a \in answers, NEW b \in answers,
                      a.session = b.session, a.turn = b.turn,
                      IsTerminal(a), IsTerminal(b)
               PROVE  /\ a.reply = b.reply
                      /\ ("cancel" \notin {a.asked, b.asked}) => a.asked = b.asked
  BY DEF AnswersAgree
<1>2. BorneOut(a, status[a.session][a.turn]) /\ BorneOut(b, status[a.session][a.turn])
  BY <1>1 DEF ContractInv, AnswersSound
<1>3. QED
  BY <1>1, <1>2, TerminalShapes DEF BorneOut, IsTerminal

LEMMA SoundHonoured == ContractInv => CancellationHonoured
<1>1. SUFFICES ASSUME ContractInv, NEW a \in answers, NEW b \in answers,
                      a.session = b.session, a.turn = b.turn,
                      a.reply = CancellationRequested, IsTerminal(b)
               PROVE  b.reply = Cancelled
  BY DEF CancellationHonoured
<1>2. BorneOut(a, status[a.session][a.turn]) /\ BorneOut(b, status[a.session][a.turn])
  BY <1>1 DEF ContractInv, AnswersSound
<1>3. QED
  BY <1>1, <1>2, TerminalShapes DEF BorneOut, IsTerminal

\* Whatever was told of a turn is still borne out by its status.
THEOREM ContractAnswersSound == ContractSpec => []AnswersSound
BY ContractInvariant, PTL DEF ContractInv

\* A turn has one terminal and one input, whoever asks and how often.
THEOREM ContractAnswersAgree == ContractSpec => []AnswersAgree
BY SoundAgree, ContractInvariant, PTL

\* An accepted cancellation ends in Cancelled and in nothing else.
THEOREM ContractCancellationHonoured == ContractSpec => []CancellationHonoured
BY SoundHonoured, ContractInvariant, PTL

-----------------------------------------------------------------------------
(* The conversation.                                                       *)

ConversationMove == NodeStep \/ ClientMove

LEMMA CallFields ==
    ASSUME calls \in Seq(Calls), NEW c \in DOMAIN calls
    PROVE  /\ calls[c].turn \in TurnIds
           /\ calls[c].asked \in Inputs \cup {"cancel"}
           /\ IsSubmit(c) => calls[c].asked \in Inputs
           /\ calls[c].server \in {"travelling", "serving", "ended"}
           /\ calls[c].reply \in Replies \cup {NoReply}
<1>1. c \in 1 .. Len(calls)
  OBVIOUS
<1>2. calls[c] \in Calls
  BY <1>1, ElementOfSeq
<1>3. QED
  BY <1>2 DEF Calls, IsSubmit

-----------------------------------------------------------------------------
(* The conversation keeps the contract.                                    *)

LEMMA MoveKeepsContract ==
    ASSUME ConversationTypeOK, ConversationMove
    PROVE  [ContractNext]_contractVars
<1>1. calls \in Seq(Calls) /\ Session \in SessionIds
  BY ConversationAssumption DEF ConversationTypeOK
<1>2. ASSUME NEW c \in DOMAIN calls,
             \/ ServeAdmit(c) \/ ServeRefuse(c) \/ ServeRedeem(c) \/ ServeRepeat(c)
             \/ ServeResult(c) \/ ServeDropped(c)
             \/ ServeCancel(c) \/ ServeNotActive(c) \/ ServeError(c)
      PROVE  ContractNext \/ UNCHANGED contractVars
  <2> DEFINE t == calls[c].turn  asked == calls[c].asked
  <2>1. t \in TurnIds /\ asked \in Inputs \cup {"cancel"} /\ (IsSubmit(c) => asked \in Inputs)
    BY <1>1, CallFields
  <2> HIDE DEF t, asked
  <2>2. CASE ServeAdmit(c)
    BY <1>1, <2>1, <2>2, NothingForgotten DEF ServeAdmit, ContractNext, t, asked
  <2>3. CASE ServeRefuse(c)
    BY <1>1, <2>1, <2>3, NothingForgotten DEF ServeRefuse, ContractNext, t, asked
  <2>4. CASE ServeRedeem(c)
    BY <1>1, <2>1, <2>4 DEF ServeRedeem, ContractNext, t, asked
  <2>5. CASE ServeRepeat(c)
    BY <1>1, <2>1, <2>5 DEF ServeRepeat, ContractNext, t, asked
  <2>6. CASE ServeResult(c)
    BY <1>1, <2>1, <2>6 DEF ServeResult, ContractNext, t, asked
  <2>7. CASE ServeDropped(c)
    BY <1>1, <2>1, <2>7, TerminalShapes DEF ServeDropped, ContractNext, t, asked
  <2>8. CASE ServeCancel(c)
    BY <1>1, <2>1, <2>8, NothingForgotten DEF ServeCancel, ContractNext, t, asked
  <2>9. CASE ServeNotActive(c) \/ ServeError(c)
    BY <2>9 DEF ServeNotActive, ServeError
  <2>10. QED
    BY <1>2, <2>2, <2>3, <2>4, <2>5, <2>6, <2>7, <2>8, <2>9
<1>3. ASSUME NEW t \in TurnIds, OwnerInterrupts(t)
      PROVE  ContractNext
  BY <1>1, <1>3 DEF OwnerInterrupts, ContractNext
<1>4. CASE ClientMove
  BY <1>4 DEF ClientMove
<1>5. QED
  BY <1>2, <1>3, <1>4 DEF ConversationMove, NodeStep

-----------------------------------------------------------------------------
(* What a step does to the calls.                                          *)

\* One call is changed, and stays what was asked.
LEMMA CallChanged ==
    ASSUME calls \in Seq(Calls), NEW c \in DOMAIN calls, NEW e \in Calls,
           calls' = [calls EXCEPT ![c] = e]
    PROVE  /\ calls' \in Seq(Calls)
           /\ DOMAIN calls' = DOMAIN calls
           /\ calls'[c] = e
           /\ \A d \in DOMAIN calls : d # c => calls'[d] = calls[d]
BY ExceptSeq

LEMMA AnsweredCall ==
    ASSUME calls \in Seq(Calls), NEW c \in DOMAIN calls,
           NEW r \in Replies \cup {NoReply}, Answered(c, r)
    PROVE  /\ calls' \in Seq(Calls)
           /\ DOMAIN calls' = DOMAIN calls
           /\ calls'[c].turn = calls[c].turn
           /\ calls'[c].asked = calls[c].asked
           /\ calls'[c].server = "ended"
           /\ calls'[c].reply = r
           /\ \A d \in DOMAIN calls : d # c => calls'[d] = calls[d]
<1> DEFINE e == [calls[c] EXCEPT !.server = "ended", !.reply = r]
<1>1. calls[c] \in Calls
  BY ElementOfSeq
<1>2. /\ e \in Calls
      /\ e.turn = calls[c].turn /\ e.asked = calls[c].asked
      /\ e.server = "ended" /\ e.reply = r
  BY <1>1 DEF Calls
<1>3. calls' = [calls EXCEPT ![c] = e]
  BY DEF Answered
<1> HIDE DEF e
<1>4. QED
  BY <1>2, <1>3, CallChanged

LEMMA AdmittedCall ==
    ASSUME calls \in Seq(Calls), NEW c \in DOMAIN calls,
           calls' = [calls EXCEPT ![c].server = "serving"]
    PROVE  /\ calls' \in Seq(Calls)
           /\ DOMAIN calls' = DOMAIN calls
           /\ calls'[c].turn = calls[c].turn
           /\ calls'[c].asked = calls[c].asked
           /\ calls'[c].reply = calls[c].reply
           /\ \A d \in DOMAIN calls : d # c => calls'[d] = calls[d]
<1> DEFINE e == [calls[c] EXCEPT !.server = "serving"]
<1>1. calls[c] \in Calls
  BY ElementOfSeq
<1>2. /\ e \in Calls
      /\ e.turn = calls[c].turn /\ e.asked = calls[c].asked /\ e.reply = calls[c].reply
  BY <1>1 DEF Calls
<1>3. calls' = [calls EXCEPT ![c] = e]
  OBVIOUS
<1> HIDE DEF e
<1>4. QED
  BY <1>2, <1>3, CallChanged

\* The client's own steps answer nothing and serve nothing.
LEMMA ClientsCalls ==
    ASSUME calls \in Seq(Calls), ClientMove
    PROVE  /\ calls' \in Seq(Calls)
           /\ DOMAIN calls \subseteq DOMAIN calls'
           /\ \A d \in DOMAIN calls :
                /\ calls'[d].turn = calls[d].turn /\ calls'[d].asked = calls[d].asked
                /\ calls'[d].server = calls[d].server /\ calls'[d].reply = calls[d].reply
           /\ \A d \in DOMAIN calls' \ DOMAIN calls :
                calls'[d].server # "serving" /\ calls'[d].reply = NoReply
<1>1. ASSUME NEW t \in TurnIds, NEW asked \in Inputs \cup {"cancel"}, Call(t, asked)
      PROVE  \E e \in Calls : /\ e.server # "serving" /\ e.reply = NoReply
                              /\ calls' = Append(calls, e)
  <2>1. /\ Request(t, asked) \in Calls /\ Request(t, asked).server # "serving"
        /\ Request(t, asked).reply = NoReply
    BY <1>1 DEF Calls, Request
  <2>2. /\ Refused(t, asked) \in Calls /\ Refused(t, asked).server # "serving"
        /\ Refused(t, asked).reply = NoReply
    BY <1>1 DEF Calls, Refused
  <2>3. QED
    BY <1>1, <2>1, <2>2 DEF Call
<1>2. ASSUME NEW e \in Calls, e.server # "serving", e.reply = NoReply,
             calls' = Append(calls, e)
      PROVE  /\ calls' \in Seq(Calls)
             /\ DOMAIN calls \subseteq DOMAIN calls'
             /\ \A d \in DOMAIN calls : calls'[d] = calls[d]
             /\ \A d \in DOMAIN calls' \ DOMAIN calls : calls'[d] = e
  BY <1>2, AppendProperties
<1>3. ASSUME NEW c \in DOMAIN calls, NEW to \in {"returned", "failed", "dropped"},
             calls' = [calls EXCEPT ![c].client = to]
      PROVE  /\ calls' \in Seq(Calls)
             /\ DOMAIN calls' = DOMAIN calls
             /\ \A d \in DOMAIN calls :
                  /\ calls'[d].turn = calls[d].turn /\ calls'[d].asked = calls[d].asked
                  /\ calls'[d].server = calls[d].server /\ calls'[d].reply = calls[d].reply
  <2> DEFINE e == [calls[c] EXCEPT !.client = to]
  <2>1. calls[c] \in Calls
    BY ElementOfSeq
  <2>2. /\ e \in Calls
        /\ e.turn = calls[c].turn /\ e.asked = calls[c].asked
        /\ e.server = calls[c].server /\ e.reply = calls[c].reply
    BY <2>1 DEF Calls
  <2>3. calls' = [calls EXCEPT ![c] = e]
    BY <1>3
  <2> HIDE DEF e
  <2>4. QED
    BY <2>2, <2>3, CallChanged
<1>4. ASSUME NEW c \in DOMAIN calls, calls[c].client = "waiting", calls' = Dropped(c)
      PROVE  calls' = [calls EXCEPT ![c].client = "dropped"]
  BY <1>4 DEF Dropped
<1>5. QED
  BY <1>1, <1>2, <1>3, <1>4 DEF ClientMove, Returns, Fails

-----------------------------------------------------------------------------
(* What was told stays told, and a turn that is served stays as it is.     *)

ConversationInv == ContractInv /\ calls \in Seq(Calls) /\ RepliesWereTold /\ ServedIsRunning

\* The steps a call's service takes, by what they do to the turn and answers.
LEMMA TurnBecomes ==
    ASSUME ContractTypeOK, NEW t \in TurnIds, NEW st \in Statuses, NEW told,
           Become({}, Session, t, st), Tell({}, told)
    PROVE  /\ answers' = answers \cup told
           /\ status'[Session][t] = st
           /\ \A u \in TurnIds \ {t} : status'[Session][u] = status[Session][u]
<1>1. AnswersBut({}) = answers
  BY DEF AnswersBut
<1>2. Session \in SessionIds
  BY ConversationAssumption
<1>3. QED
  BY <1>1, <1>2, BecomeStatus, NothingForgotten DEF Tell

\* A call is answered with what was told, or with nothing.
LEMMA AnsweredTold ==
    ASSUME calls \in Seq(Calls), RepliesWereTold, NEW c \in DOMAIN calls,
           NEW r \in Replies \cup {NoReply}, Answered(c, r),
           answers \subseteq answers',
           r \notin {NoReply, NotActive} =>
              Answer(Session, calls[c].turn, calls[c].asked, r) \in answers'
    PROVE  RepliesWereTold'
<1>1. SUFFICES ASSUME NEW d \in DOMAIN calls', calls'[d].reply \notin {NoReply, NotActive}
               PROVE  Answer(Session, calls'[d].turn, calls'[d].asked, calls'[d].reply) \in answers'
  BY DEF RepliesWereTold, ToldBy
<1>2. CASE d = c
  BY <1>1, <1>2, AnsweredCall
<1>3. CASE d # c
  BY <1>1, <1>3, AnsweredCall DEF RepliesWereTold, ToldBy
<1>4. QED
  BY <1>2, <1>3

\* After a call was answered the others are served if they were, provided that
\* their turns run on.
LEMMA AnsweredServed ==
    ASSUME calls \in Seq(Calls), ServedIsRunning, NEW c \in DOMAIN calls,
           NEW r \in Replies \cup {NoReply}, Answered(c, r),
           \A d \in DOMAIN calls \ {c} :
              calls[d].server = "serving" =>
                 /\ status'[Session][calls[d].turn].phase = "running"
                 /\ status'[Session][calls[d].turn].input = status[Session][calls[d].turn].input
    PROVE  ServedIsRunning'
<1>1. SUFFICES ASSUME NEW d \in DOMAIN calls', calls'[d].server = "serving"
               PROVE  /\ status'[Session][calls'[d].turn].phase = "running"
                      /\ status'[Session][calls'[d].turn].input = calls'[d].asked
                      /\ \A e \in DOMAIN calls' \ {d} : calls'[e].server # "serving"
  BY DEF ServedIsRunning
<1>2. d # c /\ calls'[d] = calls[d] /\ d \in DOMAIN calls /\ DOMAIN calls' = DOMAIN calls
  BY <1>1, AnsweredCall
<1>3. \A e \in DOMAIN calls : calls'[e].server = "serving" => calls[e].server = "serving"
  BY AnsweredCall
<1>4. QED
  BY <1>1, <1>2, <1>3 DEF ServedIsRunning

-----------------------------------------------------------------------------
(* One lemma per action of the Node.                                       *)

LEMMA AdmitServed ==
    ASSUME ConversationInv, NEW c \in DOMAIN calls, ServeAdmit(c)
    PROVE  calls' \in Seq(Calls) /\ RepliesWereTold' /\ ServedIsRunning'
<1> DEFINE t == calls[c].turn  i == calls[c].asked
<1>1. calls \in Seq(Calls) /\ ContractTypeOK /\ RepliesWereTold /\ ServedIsRunning
  BY DEF ConversationInv, ContractInv
<1>2. t \in TurnIds /\ i \in Inputs
  BY <1>1, CallFields DEF ServeAdmit
<1>3. /\ Become({}, Session, t, Running(i, FALSE)) /\ Tell({}, {})
      /\ \A r \in SessionIds : ~RunsIn(r)
      /\ calls' = [calls EXCEPT ![c].server = "serving"]
  BY DEF ServeAdmit, Admit
<1>4. /\ answers' = answers
      /\ status'[Session][t].phase = "running" /\ status'[Session][t].input = i
  <2>1. /\ Running(i, FALSE) \in Statuses
        /\ Running(i, FALSE).phase = "running" /\ Running(i, FALSE).input = i
    BY <1>2, StatusShapes
  <2>2. answers' = answers \cup {} /\ status'[Session][t] = Running(i, FALSE)
    BY <1>1, <1>2, <1>3, <2>1, TurnBecomes
  <2>3. QED
    BY <2>1, <2>2
<1>5. \A d \in DOMAIN calls : calls[d].server # "serving"
  BY <1>1, <1>3, CallFields, ConversationAssumption DEF ServedIsRunning, RunsIn
<1> HIDE DEF t, i
<1>6. /\ calls' \in Seq(Calls) /\ DOMAIN calls' = DOMAIN calls
      /\ calls'[c].turn = t /\ calls'[c].asked = i /\ calls'[c].reply = calls[c].reply
      /\ \A d \in DOMAIN calls : d # c => calls'[d] = calls[d]
  BY <1>1, <1>3, AdmittedCall DEF t, i
<1>7. RepliesWereTold'
  BY <1>1, <1>4, <1>6 DEF RepliesWereTold, ToldBy, t, i
<1>8. ServedIsRunning'
  BY <1>4, <1>5, <1>6 DEF ServedIsRunning
<1>9. QED
  BY <1>6, <1>7, <1>8

\* A turn that was not running gets a terminal, and its call is answered so.
LEMMA SealedServed ==
    ASSUME ConversationInv, NEW c \in DOMAIN calls, NEW o \in Terminals,
           NEW st \in Statuses,
           calls[c].server = "travelling",
           status[Session][calls[c].turn].phase # "running",
           Become({}, Session, calls[c].turn, st),
           Tell({}, {Answer(Session, calls[c].turn, calls[c].asked, o)}),
           Answered(c, o)
    PROVE  calls' \in Seq(Calls) /\ RepliesWereTold' /\ ServedIsRunning'
<1> DEFINE t == calls[c].turn
           told == {Answer(Session, calls[c].turn, calls[c].asked, o)}
<1>1. calls \in Seq(Calls) /\ ContractTypeOK /\ RepliesWereTold /\ ServedIsRunning
  BY DEF ConversationInv, ContractInv
<1>2. t \in TurnIds /\ o \in Replies \cup {NoReply}
  BY <1>1, CallFields DEF Replies
<1>3. /\ answers' = answers \cup told
      /\ \A u \in TurnIds \ {t} : status'[Session][u] = status[Session][u]
  BY <1>1, <1>2, TurnBecomes
<1>4. \A d \in DOMAIN calls \ {c} :
        calls[d].server = "serving" =>
            /\ calls[d].turn \in TurnIds \ {t}
            /\ status[Session][calls[d].turn].phase = "running"
  BY <1>1, CallFields DEF ServedIsRunning
<1>5. RepliesWereTold'
  BY <1>1, <1>2, <1>3, AnsweredTold
<1>6. ServedIsRunning'
  BY <1>1, <1>2, <1>3, <1>4, AnsweredServed
<1>7. QED
  BY <1>1, <1>2, <1>5, <1>6, AnsweredCall

LEMMA RefuseServed ==
    ASSUME ConversationInv, NEW c \in DOMAIN calls, ServeRefuse(c)
    PROVE  calls' \in Seq(Calls) /\ RepliesWereTold' /\ ServedIsRunning'
<1> DEFINE t == calls[c].turn  i == calls[c].asked
           o == [kind |-> "Failed", detail |-> "ContextLimit"]
<1>1. calls \in Seq(Calls) /\ ContractTypeOK
  BY DEF ConversationInv, ContractInv
<1>2. t \in TurnIds /\ i \in Inputs /\ o \in Terminals
  BY <1>1, CallFields, TerminalShapes DEF ServeRefuse
<1>3. Sealed(i, o) \in Statuses
  BY <1>2, StatusShapes
<1>4. /\ Become({}, Session, t, Sealed(i, o)) /\ Tell({}, {Answer(Session, t, i, o)})
      /\ Remembered({})[Session][t] = Unknown
      /\ Answered(c, o) /\ calls[c].server = "travelling"
  BY DEF ServeRefuse, Refuse, Travelling
<1>5. status[Session][t].phase # "running"
  BY <1>1, <1>2, <1>4, RememberedStatus, NothingForgotten, StatusShapes,
     ConversationAssumption
<1>6. QED
  BY <1>2, <1>3, <1>4, <1>5, SealedServed

LEMMA RedeemServed ==
    ASSUME ConversationInv, NEW c \in DOMAIN calls, ServeRedeem(c)
    PROVE  calls' \in Seq(Calls) /\ RepliesWereTold' /\ ServedIsRunning'
<1> DEFINE t == calls[c].turn  i == calls[c].asked
<1>1. calls \in Seq(Calls) /\ ContractTypeOK
  BY DEF ConversationInv, ContractInv
<1>2. t \in TurnIds /\ i \in Inputs /\ Cancelled \in Terminals
  BY <1>1, CallFields, TerminalShapes DEF ServeRedeem
<1>3. Sealed(i, Cancelled) \in Statuses
  BY <1>2, StatusShapes
<1>4. /\ Become({}, Session, t, Sealed(i, Cancelled))
      /\ Tell({}, {Answer(Session, t, i, Cancelled)})
      /\ status[Session][t] = Promised
      /\ Answered(c, Cancelled) /\ calls[c].server = "travelling"
  BY DEF ServeRedeem, Redeem, Travelling
<1>5. status[Session][t].phase # "running"
  BY <1>4, StatusShapes
<1>6. QED
  BY <1>2, <1>3, <1>4, <1>5, SealedServed

LEMMA RepeatServed ==
    ASSUME ConversationInv, NEW c \in DOMAIN calls, ServeRepeat(c)
    PROVE  calls' \in Seq(Calls) /\ RepliesWereTold' /\ ServedIsRunning'
<1> DEFINE t == calls[c].turn  o == status[Session][calls[c].turn].terminal
<1>1. /\ calls \in Seq(Calls) /\ ContractTypeOK /\ RepliesWereTold /\ ServedIsRunning
      /\ Session \in SessionIds
  BY ConversationAssumption DEF ConversationInv, ContractInv
<1>2. t \in TurnIds
  BY <1>1, CallFields
<1>3. /\ answers' = answers \cup {Answer(Session, t, calls[c].asked, o)}
      /\ status' = status /\ status[Session][t].phase = "sealed"
      /\ Answered(c, o)
  BY DEF ServeRepeat, Repeat, Tell, AnswersBut
<1>4. o \in Replies \cup {NoReply}
  <2>1. status[Session][t] \in Statuses
    BY <1>1, <1>2 DEF ContractTypeOK
  <2>2. QED
    BY <1>3, <2>1, StatusCases DEF Replies
<1> HIDE DEF o
<1>5. RepliesWereTold'
  BY <1>1, <1>3, <1>4, AnsweredTold
<1>6. ServedIsRunning'
  BY <1>1, <1>3, <1>4, AnsweredServed DEF ServedIsRunning
<1>7. QED
  BY <1>1, <1>3, <1>4, <1>5, <1>6, AnsweredCall

\* The only call that is served ends, told or not.
LEMMA EndServed ==
    ASSUME ConversationInv, NEW c \in DOMAIN calls, NEW o \in Terminals,
           NEW r \in {o, NoReply}, calls[c].server = "serving",
           Seal(Session, calls[c].turn, o), Answered(c, r),
           r = o => Answer(Session, calls[c].turn, calls[c].asked, o) \in answers'
    PROVE  calls' \in Seq(Calls) /\ RepliesWereTold' /\ ServedIsRunning'
<1> DEFINE t == calls[c].turn
<1>1. /\ calls \in Seq(Calls) /\ ContractTypeOK /\ RepliesWereTold /\ ServedIsRunning
      /\ r \in Replies \cup {NoReply}
  BY DEF ConversationInv, ContractInv, Replies
<1>2. answers \subseteq answers'
  BY DEF Seal, Tell, AnswersBut
<1>3. RepliesWereTold'
  BY <1>1, <1>2, AnsweredTold
<1>4. \A d \in DOMAIN calls \ {c} : calls[d].server # "serving"
  BY <1>1 DEF ServedIsRunning
<1>5. ServedIsRunning'
  BY <1>1, <1>4, AnsweredServed
<1>6. QED
  BY <1>1, <1>3, <1>5, AnsweredCall

\* A cancelled turn runs on until its result is there.
LEMMA CancelServed ==
    ASSUME ConversationInv, NEW c \in DOMAIN calls, ServeCancel(c)
    PROVE  calls' \in Seq(Calls) /\ RepliesWereTold' /\ ServedIsRunning'
<1> DEFINE t == calls[c].turn
           old == status[Session][t]
           st == IF old.phase = "running" THEN Running(old.input, TRUE) ELSE Promised
           told == {Answer(Session, t, "cancel", CancellationRequested)}
<1>1. /\ calls \in Seq(Calls) /\ ContractTypeOK /\ RepliesWereTold /\ ServedIsRunning
      /\ Session \in SessionIds
      /\ CancellationRequested \in Replies \cup {NoReply}
  BY ConversationAssumption DEF ConversationInv, ContractInv, Replies
<1>2. t \in TurnIds /\ calls[c].asked = "cancel"
  BY <1>1, CallFields DEF ServeCancel, IsSubmit
<1>3. Remembered({})[Session][t] = old /\ old \in Statuses
  BY <1>1, <1>2, RememberedStatus, NothingForgotten DEF ContractTypeOK
<1>4. /\ Become({}, Session, t, st) /\ Tell({}, told)
      /\ Answered(c, CancellationRequested)
  BY <1>3 DEF ServeCancel, AcceptCancel
<1>5. /\ st \in Statuses
      /\ old.phase = "running" => st.phase = "running" /\ st.input = old.input
  <2>1. CASE old.phase = "running"
    <3>1. old.input \in Inputs
      BY <1>3, <2>1, StatusCases
    <3>2. st = Running(old.input, TRUE)
      BY <2>1
    <3>3. QED
      BY <3>1, <3>2, StatusShapes
  <2>2. CASE old.phase # "running"
    BY <2>2, StatusShapes
  <2>3. QED
    BY <2>1, <2>2
<1> HIDE DEF st, old, told
<1>6. /\ answers' = answers \cup told
      /\ status'[Session][t] = st
      /\ \A u \in TurnIds \ {t} : status'[Session][u] = status[Session][u]
  BY <1>1, <1>2, <1>4, <1>5, TurnBecomes
<1>7. RepliesWereTold'
  BY <1>1, <1>2, <1>4, <1>6, AnsweredTold DEF told
<1>8. ASSUME NEW d \in DOMAIN calls \ {c}, calls[d].server = "serving"
      PROVE  /\ status'[Session][calls[d].turn].phase = "running"
             /\ status'[Session][calls[d].turn].input = status[Session][calls[d].turn].input
  <2>1. status[Session][calls[d].turn].phase = "running" /\ calls[d].turn \in TurnIds
    BY <1>1, <1>8, CallFields DEF ServedIsRunning
  <2>2. CASE calls[d].turn = t
    BY <1>5, <1>6, <2>1, <2>2 DEF old
  <2>3. CASE calls[d].turn # t
    BY <1>6, <2>1, <2>3
  <2>4. QED
    BY <2>2, <2>3
<1>9. ServedIsRunning'
  BY <1>1, <1>4, <1>8, AnsweredServed
<1>10. QED
  BY <1>1, <1>4, <1>7, <1>9, AnsweredCall

LEMMA UnservedAnswered ==
    ASSUME ConversationInv, NEW c \in DOMAIN calls, ServeNotActive(c) \/ ServeError(c)
    PROVE  calls' \in Seq(Calls) /\ RepliesWereTold' /\ ServedIsRunning'
<1>1. calls \in Seq(Calls) /\ RepliesWereTold /\ ServedIsRunning
  BY DEF ConversationInv
<1>2. PICK r \in {NotActive, NoReply} : Answered(c, r)
  BY DEF ServeNotActive, ServeError
<1>3. r \in Replies \cup {NoReply}
  BY DEF Replies
<1>4. UNCHANGED <<status, answers>>
  BY DEF ServeNotActive, ServeError, contractVars
<1>5. RepliesWereTold'
  BY <1>1, <1>2, <1>3, <1>4, AnsweredTold
<1>6. ServedIsRunning'
  BY <1>1, <1>2, <1>3, <1>4, AnsweredServed DEF ServedIsRunning
<1>7. QED
  BY <1>1, <1>2, <1>3, <1>5, <1>6, AnsweredCall

LEMMA InterruptServed ==
    ASSUME ConversationInv, NEW t \in TurnIds, OwnerInterrupts(t)
    PROVE  calls' \in Seq(Calls) /\ RepliesWereTold' /\ ServedIsRunning'
<1> DEFINE old == status[Session][t]  st == Running(old.input, TRUE)
<1>1. /\ calls \in Seq(Calls) /\ ContractTypeOK /\ RepliesWereTold /\ ServedIsRunning
      /\ Session \in SessionIds
  BY ConversationAssumption DEF ConversationInv, ContractInv
<1>2. /\ Become({}, Session, t, st) /\ Tell({}, {}) /\ old.phase = "running"
      /\ calls' = calls
  BY DEF OwnerInterrupts, Interrupt
<1>3. old \in Statuses
  BY <1>1 DEF ContractTypeOK
<1>4. old.input \in Inputs
  BY <1>2, <1>3, StatusCases
<1>5. st \in Statuses /\ st.phase = "running" /\ st.input = old.input
  BY <1>4, StatusShapes
<1> HIDE DEF st, old
<1>6. /\ answers' = answers \cup {}
      /\ status'[Session][t] = st
      /\ \A u \in TurnIds \ {t} : status'[Session][u] = status[Session][u]
  BY <1>1, <1>2, <1>5, TurnBecomes
<1>7. RepliesWereTold'
  BY <1>1, <1>2, <1>6 DEF RepliesWereTold, ToldBy
<1>8. ServedIsRunning'
  BY <1>1, <1>2, <1>5, <1>6, CallFields DEF ServedIsRunning, old
<1>9. QED
  BY <1>1, <1>2, <1>7, <1>8

LEMMA ClientServed ==
    ASSUME ConversationInv, ClientMove
    PROVE  calls' \in Seq(Calls) /\ RepliesWereTold' /\ ServedIsRunning'
<1>1. calls \in Seq(Calls) /\ RepliesWereTold /\ ServedIsRunning
  BY DEF ConversationInv
<1>2. UNCHANGED <<status, answers>>
  BY DEF ClientMove, contractVars
<1>3. RepliesWereTold'
  BY <1>1, <1>2, ClientsCalls DEF RepliesWereTold, ToldBy
<1>4. ServedIsRunning'
  BY <1>1, <1>2, ClientsCalls DEF ServedIsRunning
<1>5. QED
  BY <1>1, <1>3, <1>4, ClientsCalls

-----------------------------------------------------------------------------

LEMMA ConversationInvInit == ConversationInit => ConversationInv
BY ContractInvInit DEF ConversationInit, ConversationInv, RepliesWereTold, ServedIsRunning

LEMMA MoveKeepsInv ==
    ASSUME ConversationInv, ConversationMove
    PROVE  ConversationInv'
<1>1. ConversationTypeOK /\ ContractInv
  BY DEF ConversationInv, ContractInv, ConversationTypeOK
<1>2. ContractInv'
  BY <1>1, MoveKeepsContract, ContractInvNext
<1>3. ASSUME NEW c \in DOMAIN calls, ServeResult(c)
      PROVE  calls' \in Seq(Calls) /\ RepliesWereTold' /\ ServedIsRunning'
  BY <1>3, EndServed DEF ServeResult
<1>4. ASSUME NEW c \in DOMAIN calls, ServeDropped(c)
      PROVE  calls' \in Seq(Calls) /\ RepliesWereTold' /\ ServedIsRunning'
  <2>1. NoReply # Cancelled /\ Cancelled \in Terminals
    BY TerminalShapes DEF NoReply, Cancelled
  <2>2. QED
    BY <1>4, <2>1, EndServed DEF ServeDropped
<1>5. calls' \in Seq(Calls) /\ RepliesWereTold' /\ ServedIsRunning'
  BY <1>3, <1>4, AdmitServed, RefuseServed, RedeemServed, RepeatServed, CancelServed,
     UnservedAnswered, InterruptServed, ClientServed DEF ConversationMove, NodeStep
<1>6. QED
  BY <1>2, <1>5 DEF ConversationInv

LEMMA ConversationInvNext ==
    ConversationInv /\ [ConversationNext]_conversationVars => ConversationInv'
<1>1. ASSUME ConversationInv, ConversationNext
      PROVE  ConversationInv'
  BY <1>1, MoveKeepsInv DEF ConversationNext, ConversationMove, ClientStep
<1>2. ASSUME ConversationInv, UNCHANGED conversationVars
      PROVE  ConversationInv'
  BY <1>2 DEF conversationVars, contractVars, ConversationInv, ContractInv, ContractTypeOK,
     OneTurnRuns, AnswersSound, RepliesWereTold, ToldBy, ServedIsRunning
<1>3. QED
  BY <1>1, <1>2

-----------------------------------------------------------------------------
(* What the front ends need of a conversation.                             *)

\* A submission is answered with the turn's outcome or not at all.
SubmissionsGetTerminals ==
    \A c \in DOMAIN calls : IsSubmit(c) => calls[c].reply \in Terminals \cup {NoReply}

\* A call keeps what it asked.
CallsStay ==
    /\ DOMAIN calls \subseteq DOMAIN calls'
    /\ \A c \in DOMAIN calls : /\ calls'[c].turn = calls[c].turn
                              /\ calls'[c].asked = calls[c].asked

LEMMA AnsweredStays ==
    ASSUME calls \in Seq(Calls), SubmissionsGetTerminals, NEW c \in DOMAIN calls,
           NEW r \in Replies \cup {NoReply}, Answered(c, r),
           IsSubmit(c) => r \in Terminals \cup {NoReply}
    PROVE  /\ SubmissionsGetTerminals' /\ CallsStay
           /\ Len(calls') = Len(calls)
<1>1. calls' \in Seq(Calls) /\ DOMAIN calls' = DOMAIN calls
  BY AnsweredCall
<1>2. Len(calls') = Len(calls)
  BY <1>1, LenProperties
<1>3. \A d \in DOMAIN calls :
         calls'[d].turn = calls[d].turn /\ calls'[d].asked = calls[d].asked
  BY AnsweredCall
<1>4. \A d \in DOMAIN calls \ {c} : calls'[d].reply = calls[d].reply
  BY AnsweredCall
<1>5. calls'[c].reply = r
  BY AnsweredCall
<1>6. QED
  BY <1>1, <1>2, <1>3, <1>4, <1>5 DEF SubmissionsGetTerminals, CallsStay, IsSubmit

\* Serving a request answers it, or leaves it to be served.
LEMMA ServedStays ==
    ASSUME ConversationInv, SubmissionsGetTerminals, NodeStep
    PROVE  SubmissionsGetTerminals' /\ CallsStay /\ Len(calls') = Len(calls)
<1>1. calls \in Seq(Calls) /\ ContractTypeOK /\ Session \in SessionIds
  BY ConversationAssumption DEF ConversationInv, ContractInv
<1>2. ASSUME NEW c \in DOMAIN calls, ServeAdmit(c)
      PROVE  SubmissionsGetTerminals' /\ CallsStay /\ Len(calls') = Len(calls)
  <2>1. calls' \in Seq(Calls) /\ DOMAIN calls' = DOMAIN calls
    BY <1>1, <1>2, AdmittedCall DEF ServeAdmit
  <2>2. \A d \in DOMAIN calls :
           /\ calls'[d].turn = calls[d].turn /\ calls'[d].asked = calls[d].asked
           /\ calls'[d].reply = calls[d].reply
    BY <1>1, <1>2, AdmittedCall DEF ServeAdmit
  <2>3. Len(calls') = Len(calls)
    BY <1>1, <2>1, LenProperties
  <2>4. QED
    BY <2>1, <2>2, <2>3 DEF SubmissionsGetTerminals, CallsStay, IsSubmit
<1>3. ASSUME NEW c \in DOMAIN calls,
             \/ ServeRefuse(c) \/ ServeRedeem(c) \/ ServeRepeat(c) \/ ServeResult(c)
             \/ ServeDropped(c) \/ ServeCancel(c) \/ ServeNotActive(c) \/ ServeError(c)
      PROVE  \E r \in Replies \cup {NoReply} :
                Answered(c, r) /\ (IsSubmit(c) => r \in Terminals \cup {NoReply})
  <2>1. ASSUME ServeRepeat(c)
        PROVE  status[Session][calls[c].turn].terminal \in Terminals
    <3>1. status[Session][calls[c].turn] \in Statuses
      BY <1>1, CallFields DEF ContractTypeOK
    <3>2. QED
      BY <2>1, <3>1, StatusCases DEF ServeRepeat, Repeat
  <2>2. QED
    BY <1>3, <2>1, TerminalShapes
       DEF ServeRefuse, ServeRedeem, ServeRepeat, ServeResult, ServeDropped, ServeCancel,
           ServeNotActive, ServeError, Replies
<1>4. ASSUME NEW t \in TurnIds, OwnerInterrupts(t)
      PROVE  SubmissionsGetTerminals' /\ CallsStay /\ Len(calls') = Len(calls)
  BY <1>4 DEF OwnerInterrupts, SubmissionsGetTerminals, CallsStay, IsSubmit
<1>5. QED
  BY <1>1, <1>2, <1>3, <1>4, AnsweredStays DEF NodeStep

LEMMA ClientMoveStays ==
    ASSUME calls \in Seq(Calls), SubmissionsGetTerminals, ClientMove
    PROVE  SubmissionsGetTerminals' /\ CallsStay
BY ClientsCalls DEF SubmissionsGetTerminals, CallsStay, IsSubmit

\* What has been answered stays answered.
LEMMA AnswersStay == ASSUME ConversationMove PROVE answers \subseteq answers'
BY DEF ConversationMove, NodeStep, ClientMove, contractVars, ServeAdmit, ServeRefuse,
   ServeRedeem, ServeRepeat, ServeResult, ServeDropped, ServeCancel, ServeNotActive,
   ServeError, OwnerInterrupts, Admit, Refuse, Redeem, Repeat, Seal, AcceptCancel,
   Interrupt, Tell, AnswersBut

\* A new call is the last one, and asks what it was made for.
LEMMA CallMade ==
    ASSUME calls \in Seq(Calls), NEW t \in TurnIds, NEW asked \in Inputs \cup {"cancel"},
           Call(t, asked)
    PROVE  /\ Len(calls') = Len(calls) + 1
           /\ Len(calls') \in DOMAIN calls'
           /\ calls'[Len(calls')].turn = t /\ calls'[Len(calls')].asked = asked
<1>1. PICK e : calls' = Append(calls, e) /\ e.turn = t /\ e.asked = asked
  BY DEF Call, Request, Refused
<1>2. QED
  BY <1>1, AppendProperties

\* A reply that names an outcome was told.
ToldOutcome(t, o) ==
    /\ o \in Terminals
    /\ \E asked \in Inputs \cup {"cancel"} : Answer(Session, t, asked, o) \in answers

LEMMA ReplyTold ==
    ASSUME ConversationInv, NEW c \in DOMAIN calls, calls[c].reply \in Terminals
    PROVE  ToldOutcome(calls[c].turn, calls[c].reply)
<1>1. calls[c].reply \notin {NoReply, NotActive}
  BY DEF NoReply, NotActive, Terminals
<1>2. calls[c].asked \in Inputs \cup {"cancel"}
  BY CallFields DEF ConversationInv
<1>3. QED
  BY <1>1, <1>2 DEF ConversationInv, RepliesWereTold, ToldBy, ToldOutcome

\* And what was told is how the turn is sealed.
LEMMA ToldIsSealed ==
    ASSUME ConversationInv, NEW t, NEW o, ToldOutcome(t, o)
    PROVE  status[Session][t].phase = "sealed" /\ status[Session][t].terminal = o
<1>1. PICK asked : Answer(Session, t, asked, o) \in answers
  BY DEF ToldOutcome
<1>2. o # CancellationRequested
  BY TerminalShapes DEF ToldOutcome
<1>3. BorneOut(Answer(Session, t, asked, o), status[Session][t])
  BY <1>1 DEF ConversationInv, ContractInv, AnswersSound, Answer
<1>4. QED
  BY <1>2, <1>3 DEF BorneOut, Answer

\* A turn runs because this client asked for it.
RunningWasAsked ==
    \A t \in TurnIds : status[Session][t].phase = "running" =>
        \E c \in DOMAIN calls : calls[c].turn = t /\ IsSubmit(c)

LEMMA TurnStatus ==
    ASSUME ContractTypeOK, NEW u, NEW st, Become({}, Session, u, st), NEW t \in TurnIds
    PROVE  status'[Session][t] = IF t = u THEN st ELSE status[Session][t]
BY ConversationAssumption DEF ContractTypeOK, Become, Remembered

LEMMA RunningStaysAsked ==
    ASSUME ConversationInv, ConversationMove, CallsStay, RunningWasAsked
    PROVE  RunningWasAsked'
<1>1. ContractTypeOK /\ Session \in SessionIds
  BY ConversationAssumption DEF ConversationInv, ContractInv
<1>2. SUFFICES ASSUME NEW t \in TurnIds, status'[Session][t].phase = "running"
               PROVE  \E c \in DOMAIN calls : calls[c].turn = t /\ IsSubmit(c)
  BY DEF RunningWasAsked, CallsStay, IsSubmit
<1>3. CASE status[Session][t].phase = "running"
  BY <1>3 DEF RunningWasAsked
<1>4. CASE status[Session][t].phase # "running"
  <2>1. ASSUME NEW c \in DOMAIN calls, ServeAdmit(c)
        PROVE  calls[c].turn = t /\ IsSubmit(c)
    BY <1>1, <1>4, <2>1, <1>2, TurnStatus DEF ServeAdmit, Admit
  <2>2. ASSUME NEW u, NEW st, Become({}, Session, u, st)
        PROVE  u = t /\ st.phase = "running"
    BY <1>1, <1>2, <1>4, <2>2, TurnStatus
  <2>3. ASSUME NEW c \in DOMAIN calls, ServeRefuse(c) \/ ServeRedeem(c) PROVE FALSE
    BY <2>2, <2>3 DEF ServeRefuse, Refuse, ServeRedeem, Redeem, Sealed
  <2>4. ASSUME NEW c \in DOMAIN calls, ServeResult(c) \/ ServeDropped(c) PROVE FALSE
    <3>1. PICK o : Seal(Session, calls[c].turn, o)
      BY <2>4 DEF ServeResult, ServeDropped
    <3>2. Become({}, Session, calls[c].turn, Sealed(status[Session][calls[c].turn].input, o))
      BY <3>1 DEF Seal
    <3>3. QED
      BY <2>2, <3>2 DEF Sealed
  <2>5. ASSUME NEW c \in DOMAIN calls, ServeCancel(c) PROVE FALSE
    <3>1. calls[c].turn = t
      BY <2>2, <2>5 DEF ServeCancel, AcceptCancel
    <3>2. Remembered({})[Session][t] = status[Session][t]
      BY <1>1, <1>2, RememberedStatus, NothingForgotten
    <3>3. Become({}, Session, t, Promised)
      BY <1>4, <2>5, <3>1, <3>2 DEF ServeCancel, AcceptCancel
    <3>4. QED
      BY <2>2, <3>3, StatusShapes
  <2>6. ASSUME NEW u \in TurnIds, OwnerInterrupts(u) PROVE FALSE
    BY <1>4, <2>2, <2>6 DEF OwnerInterrupts, Interrupt
  <2>7. ASSUME UNCHANGED status PROVE FALSE
    BY <1>2, <1>4, <2>7
  <2>8. QED
    BY <2>1, <2>3, <2>4, <2>5, <2>6, <2>7
       DEF ConversationMove, NodeStep, ClientMove, contractVars, ServeRepeat, Repeat,
           ServeNotActive, ServeError
<1>5. QED
  BY <1>3, <1>4

\* A call that failed is not taken back.
FailuresStay ==
    \A c \in DOMAIN calls : calls[c].client = "failed" => calls'[c].client = "failed"

LEMMA FailedCall ==
    ASSUME calls \in Seq(Calls), NEW c \in DOMAIN calls, Fails(c)
    PROVE  /\ DOMAIN calls' = DOMAIN calls
           /\ calls'[c].client = "failed" /\ calls'[c].turn = calls[c].turn
<1>1. calls[c] \in Calls
  BY ElementOfSeq
<1>2. QED
  BY <1>1 DEF Fails, Calls

LEMMA MoveKeepsFailures ==
    ASSUME calls \in Seq(Calls), ConversationMove
    PROVE  FailuresStay
<1>1. \A c \in DOMAIN calls : calls[c] \in Calls
  BY ElementOfSeq
<1>2. ASSUME NEW c \in DOMAIN calls, NEW r, Answered(c, r) PROVE FailuresStay
  BY <1>1, <1>2 DEF Answered, FailuresStay, Calls
<1>3. ASSUME NEW c \in DOMAIN calls, calls' = [calls EXCEPT ![c].server = "serving"]
      PROVE  FailuresStay
  BY <1>1, <1>3 DEF FailuresStay, Calls
<1>4. ASSUME NEW c \in DOMAIN calls, calls[c].client # "failed", NEW to,
             calls' = [calls EXCEPT ![c].client = to]
      PROVE  FailuresStay
  BY <1>1, <1>4 DEF FailuresStay, Calls
<1>5. ASSUME NEW e, calls' = Append(calls, e) PROVE FailuresStay
  BY <1>5 DEF FailuresStay
<1>6. CASE NodeStep
  BY <1>2, <1>3, <1>6 DEF NodeStep, ServeAdmit, ServeRefuse, ServeRedeem, ServeRepeat,
     ServeResult, ServeDropped, ServeCancel, ServeNotActive, ServeError, OwnerInterrupts,
     FailuresStay
<1>7. CASE ClientMove
  BY <1>4, <1>5, <1>7 DEF ClientMove, Call, Returns, Fails, Dropped
<1>8. QED
  BY <1>6, <1>7 DEF ConversationMove

\* What a call was answered with stays, for it is answered once.
RepliedIsEnded ==
    \A c \in DOMAIN calls : calls[c].reply # NoReply => calls[c].server = "ended"

RepliesStay ==
    \A c \in DOMAIN calls : calls[c].reply # NoReply => calls'[c].reply = calls[c].reply

LEMMA MoveKeepsReplies ==
    ASSUME calls \in Seq(Calls), RepliedIsEnded, ConversationMove
    PROVE  RepliedIsEnded' /\ RepliesStay
<1>1. \A c \in DOMAIN calls : calls[c] \in Calls
  BY ElementOfSeq
<1>2. ASSUME NEW c \in DOMAIN calls, calls[c].server # "ended", NEW r, Answered(c, r)
      PROVE  RepliedIsEnded' /\ RepliesStay
  BY <1>1, <1>2 DEF Answered, RepliedIsEnded, RepliesStay, Calls
<1>3. ASSUME NEW c \in DOMAIN calls, calls[c].server # "ended",
             calls' = [calls EXCEPT ![c].server = "serving"]
      PROVE  RepliedIsEnded' /\ RepliesStay
  BY <1>1, <1>3 DEF RepliedIsEnded, RepliesStay, Calls
<1>4. CASE UNCHANGED calls
  BY <1>4 DEF RepliedIsEnded, RepliesStay
<1>5. CASE NodeStep
  BY <1>2, <1>3, <1>4, <1>5 DEF NodeStep, ServeAdmit, ServeRefuse, ServeRedeem, ServeRepeat,
     ServeResult, ServeDropped, ServeCancel, ServeNotActive, ServeError, OwnerInterrupts,
     Travelling
<1>6. CASE ClientMove
  BY <1>6, ClientsCalls DEF RepliedIsEnded, RepliesStay
<1>7. QED
  BY <1>5, <1>6 DEF ConversationMove

-----------------------------------------------------------------------------
(* The theorems.                                                           *)

\* The inductive invariant: what was told is borne out, what came back was
\* told, and what is served runs.
THEOREM ConversationInvariant == ConversationSpec => []ConversationInv
BY ConversationInvInit, ConversationInvNext, PTL DEF ConversationSpec

\* At most one request is served, and its turn is the one that runs.
THEOREM ConversationServesRunning == ConversationSpec => []ServedIsRunning
BY ConversationInvariant, PTL DEF ConversationInv

\* All terminals that calls about one turn return are the same.
THEOREM ConversationOutcomesAgree == ConversationSpec => []OutcomesAgree
<1>1. ConversationInv => OutcomesAgree
  <2>1. SUFFICES ASSUME ConversationInv, NEW c \in DOMAIN calls, NEW d \in DOMAIN calls,
                        Ended(c), Ended(d), calls[c].turn = calls[d].turn
                 PROVE  calls[c].reply = calls[d].reply
    BY DEF OutcomesAgree
  <2>2. calls[c].reply \notin {NoReply, NotActive} /\ calls[d].reply \notin {NoReply, NotActive}
    BY <2>1 DEF Ended, NoReply, NotActive, Terminals
  <2>3. ToldBy(c) \in answers /\ ToldBy(d) \in answers
    BY <2>1, <2>2 DEF ConversationInv, RepliesWereTold
  <2>4. IsTerminal(ToldBy(c)) /\ IsTerminal(ToldBy(d))
    BY <2>1 DEF Ended, IsTerminal, ToldBy, Answer
  <2>5. AnswersAgree
    BY <2>1, SoundAgree DEF ConversationInv
  <2>6. QED
    BY <2>1, <2>3, <2>4, <2>5 DEF AnswersAgree, ToldBy, Answer
<1>2. QED
  BY <1>1, ConversationInvariant, PTL

\* Told that its cancellation is accepted, a client gets Cancelled or nothing.
THEOREM ConversationPromiseKept == ConversationSpec => []PromiseKept
<1>1. ConversationInv => PromiseKept
  <2>1. SUFFICES ASSUME ConversationInv, NEW c \in DOMAIN calls, NEW d \in DOMAIN calls,
                        calls[c].reply = CancellationRequested, Ended(d),
                        calls[c].turn = calls[d].turn
                 PROVE  calls[d].reply = Cancelled
    BY DEF PromiseKept
  <2>2. calls[c].reply \notin {NoReply, NotActive} /\ calls[d].reply \notin {NoReply, NotActive}
    BY <2>1 DEF Ended, NoReply, NotActive, CancellationRequested, Terminals
  <2>3. ToldBy(c) \in answers /\ ToldBy(d) \in answers
    BY <2>1, <2>2 DEF ConversationInv, RepliesWereTold
  <2>4. IsTerminal(ToldBy(d))
    BY <2>1 DEF Ended, IsTerminal, ToldBy, Answer
  <2>5. CancellationHonoured
    BY <2>1, SoundHonoured DEF ConversationInv
  <2>6. QED
    BY <2>1, <2>3, <2>4, <2>5 DEF CancellationHonoured, ToldBy, Answer
<1>2. QED
  BY <1>1, ConversationInvariant, PTL
=============================================================================
