------------------------ MODULE ConversationContract ------------------------
(***************************************************************************)
(* What the Agent service promises to a client of one conversation         *)
(* Session, apart from how it keeps the promise.  A turn is named by a     *)
(* Session and a TurnId.  While its Session is retained a turn runs at     *)
(* most once, one turn runs at a time in the whole service, the first      *)
(* terminal is the only one any client is ever told, and a cancellation    *)
(* that was accepted can only end in Cancelled.  Forgetting a Session      *)
(* that runs nothing is allowed and resets all that was known about it.    *)
(*                                                                         *)
(* Module AgentService implements this specification.  A definition marked *)
(* "Slip" is a mistake, used only to see that a property notices it.       *)
(***************************************************************************)

EXTENDS ConversationTypes

VARIABLES
    status,      \* status[s][t]: how far turn t of Session s got
    answers      \* what clients have been told about retained Sessions

contractVars == <<status, answers>>

-----------------------------------------------------------------------------
(* The status of a turn.                                                   *)

Unknown == [phase |-> "unknown"]
Promised == [phase |-> "promised"]       \* cancelled before it was submitted
Running(i, c) == [phase |-> "running", input |-> i, cancelled |-> c]
Sealed(i, o) == [phase |-> "sealed", input |-> i, terminal |-> o]

Statuses == {Unknown, Promised}
       \cup [phase : {"running"}, input : Inputs, cancelled : BOOLEAN]
       \cup [phase : {"sealed"}, input : Inputs, terminal : Terminals]

RunsIn(s) == \E t \in TurnIds : status[s][t].phase = "running"

-----------------------------------------------------------------------------
(* A step may forget the Sessions in F before it does anything else.       *)

Forgettable == {F \in SUBSET SessionIds : \A s \in F : ~RunsIn(s)}

Remembered(F) == [s \in SessionIds |-> IF s \in F THEN [t \in TurnIds |-> Unknown]
                                                  ELSE status[s]]
AnswersBut(F) == {a \in answers : a.session \notin F}

Become(F, s, t, st) == status' = [Remembered(F) EXCEPT ![s][t] = st]
Tell(F, told) == answers' = AnswersBut(F) \cup told

ContractInit ==
    /\ status = [s \in SessionIds |-> [t \in TurnIds |-> Unknown]]
    /\ answers = {}

Admit(F, s, t, i) ==
    /\ \A r \in SessionIds : ~RunsIn(r)
    /\ Remembered(F)[s][t] = Unknown
    /\ Become(F, s, t, Running(i, FALSE))
    /\ Tell(F, {})

\* A turn the service can tell will not fit is sealed without running.
Refuse(F, s, t, i) ==
    /\ Remembered(F)[s][t] = Unknown
    /\ LET o == [kind |-> "Failed", detail |-> "ContextLimit"]
       IN  /\ Become(F, s, t, Sealed(i, o))
           /\ Tell(F, {Answer(s, t, i, o)})

\* A cancellation is accepted before the turn is sealed, or even submitted.
AcceptCancel(F, s, t) ==
    /\ Remembered(F)[s][t].phase \in {"unknown", "promised", "running"}
    /\ Become(F, s, t, IF Remembered(F)[s][t].phase = "running"
                       THEN Running(status[s][t].input, TRUE)
                       ELSE Promised)
    /\ Tell(F, {Answer(s, t, "cancel", CancellationRequested)})

Redeem(s, t, i) ==
    /\ status[s][t] = Promised
    /\ Become({}, s, t, Sealed(i, Cancelled))
    /\ Tell({}, {Answer(s, t, i, Cancelled)})

\* The owner of the service cancels the running turn; nobody is told yet.
Interrupt(s, t) ==
    /\ status[s][t].phase = "running"
    /\ Become({}, s, t, Running(status[s][t].input, TRUE))
    /\ Tell({}, {})

Seal(s, t, o) ==
    /\ status[s][t].phase = "running"
    /\ status[s][t].cancelled => o = Cancelled
    /\ Become({}, s, t, Sealed(status[s][t].input, o))
    /\ \/ Tell({}, {Answer(s, t, status[s][t].input, o)})
       \/ Tell({}, {})               \* the client went away

Repeat(s, t, asked) ==
    /\ status[s][t].phase = "sealed"
    /\ asked \in {status[s][t].input, "cancel"}
    /\ Tell({}, {Answer(s, t, asked, status[s][t].terminal)})
    /\ UNCHANGED status

ContractNext ==
    \E s \in SessionIds, t \in TurnIds :
        \/ \E F \in Forgettable, i \in Inputs : Admit(F, s, t, i) \/ Refuse(F, s, t, i)
        \/ \E F \in Forgettable : AcceptCancel(F, s, t)
        \/ \E i \in Inputs : Redeem(s, t, i)
        \/ Interrupt(s, t)
        \/ \E o \in Terminals : Seal(s, t, o)
        \/ \E asked \in Inputs \cup {"cancel"} : Repeat(s, t, asked)

ContractSpec == ContractInit /\ [][ContractNext]_contractVars

-----------------------------------------------------------------------------
(* What follows from the contract.                                         *)

ContractTypeOK ==
    /\ status \in [SessionIds -> [TurnIds -> Statuses]]
    /\ answers \subseteq Answers

IsTerminal(a) == a.reply \in Terminals

\* Any two answers that name a terminal of the same turn name the same one,
\* and any two submissions that were answered asked the same thing: a retry
\* is answered with the stored result and never runs the turn again.
AnswersAgree ==
    \A a, b \in answers :
        (/\ a.session = b.session
         /\ a.turn = b.turn
         /\ IsTerminal(a)
         /\ IsTerminal(b))
        => /\ a.reply = b.reply
           /\ ("cancel" \notin {a.asked, b.asked}) => a.asked = b.asked

\* A client that was told "CancellationRequested" never sees the same turn
\* end in anything but Cancelled, whoever asks and in whichever order.
CancellationHonoured ==
    \A a, b \in answers :
        (/\ a.session = b.session
         /\ a.turn = b.turn
         /\ a.reply = CancellationRequested
         /\ IsTerminal(b))
        => b.reply = Cancelled

\* The service as a whole runs one turn at a time.
OneTurnRuns ==
    \A s, r \in SessionIds : \A t, u \in TurnIds :
        (status[s][t].phase = "running" /\ status[r][u].phase = "running")
        => s = r /\ t = u

BorneOut(a, st) ==
    IF a.reply = CancellationRequested
    THEN \/ st.phase = "promised"
         \/ st.phase = "running" /\ st.cancelled
         \/ st.phase = "sealed" /\ st.terminal = Cancelled
    ELSE /\ st.phase = "sealed"
         /\ st.terminal = a.reply
         /\ a.asked \in {st.input, "cancel"}

\* Why the two hold: whatever was told about a turn is still borne out by
\* its status.
AnswersSound == \A a \in answers : BorneOut(a, status[a.session][a.turn])

ContractInv == ContractTypeOK /\ OneTurnRuns /\ AnswersSound
=============================================================================
