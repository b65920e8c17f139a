-------------------------- MODULE AgentConversation --------------------------
(***************************************************************************)
(* An AgentConversationClient: the calls submit_turn() and cancel() of one *)
(* client process on its one Session, each a request that the Fabric takes *)
(* to the Agent service of a Node and, if all goes well, a reply.          *)
(*                                                                         *)
(* A call may give up at any time: its deadline passes, the Fabric refuses *)
(* or loses the request, the reply is lost, or the future is dropped.  The *)
(* request is then still on its way, or being served, and the Agent does   *)
(* what it would have done.  Requests overtake each other.  The Agent's    *)
(* own steps are those of the contract, which AgentService implements, for *)
(* a Session that is retained while its client lives.                      *)
(*                                                                         *)
(* The front ends (TextualStdio, TerminalChat) extend this module; here a  *)
(* client of no particular behaviour retries turns as it likes.  A         *)
(* definition marked "Slip" is a mistake the code could have made.         *)
(***************************************************************************)

EXTENDS ConversationContract, Naturals, Sequences

CONSTANTS
    Session,             \* the SessionId this client made for itself
    MAX_CALLS            \* bound of the generic client

ASSUME ConversationAssumption == Session \in SessionIds /\ MAX_CALLS \in Nat

VARIABLE calls           \* every call this client made, in order

conversationVars == <<contractVars, calls>>

-----------------------------------------------------------------------------

NoReply == [kind |-> "NoReply", detail |-> "none"]
NotActive == [kind |-> "NotActive", detail |-> "none"]
Replies == Terminals \cup {CancellationRequested, NotActive}

\* A request is travelling until the Agent takes it, serving while its turn
\* runs, and ended when it was answered (or refused, or lost, with NoReply).
Calls == [turn : TurnIds, asked : Inputs \cup {"cancel"},
          server : {"travelling", "serving", "ended"},
          reply : Replies \cup {NoReply},
          client : {"waiting", "returned", "failed", "dropped"}]

ConversationTypeOK == ContractTypeOK /\ calls \in Seq(Calls)

ConversationInit == ContractInit /\ calls = <<>>

Request(t, asked) ==
    [turn |-> t, asked |-> asked, server |-> "travelling", reply |-> NoReply,
     client |-> "waiting"]

\* validate_input() and wire_deadline_ms() fail the call before it is sent.
Refused(t, asked) ==
    [turn |-> t, asked |-> asked, server |-> "ended", reply |-> NoReply,
     client |-> "failed"]

Call(t, asked) ==
    \/ calls' = Append(calls, Request(t, asked))
    \/ asked # "cancel" /\ calls' = Append(calls, Refused(t, asked))

-----------------------------------------------------------------------------
(* The Node: serve_wire_request() and the Agent service behind it.         *)

Answered(c, r) == calls' = [calls EXCEPT ![c].server = "ended", ![c].reply = r]

Travelling(c) == calls[c].server = "travelling"
IsSubmit(c) == calls[c].asked # "cancel"

ServeJoined(c) ==                      \* Slip: a retry joins the running turn
    /\ Travelling(c) /\ IsSubmit(c)
    /\ \/ Admit({}, Session, calls[c].turn, calls[c].asked)
       \/ status[Session][calls[c].turn].phase = "running" /\ UNCHANGED contractVars
    /\ calls' = [calls EXCEPT ![c].server = "serving"]
ServeAdmit(c) ==
    /\ Travelling(c) /\ IsSubmit(c)
    /\ Admit({}, Session, calls[c].turn, calls[c].asked)
    /\ calls' = [calls EXCEPT ![c].server = "serving"]

ServeRefuse(c) ==
    /\ Travelling(c) /\ IsSubmit(c)
    /\ Refuse({}, Session, calls[c].turn, calls[c].asked)
    /\ Answered(c, [kind |-> "Failed", detail |-> "ContextLimit"])

ServeRedeem(c) ==
    /\ Travelling(c) /\ IsSubmit(c)
    /\ Redeem(Session, calls[c].turn, calls[c].asked)
    /\ Answered(c, Cancelled)

ServeRepeatCancelled(c) ==             \* Slip: a late cancel always works
    /\ Travelling(c)
    /\ Repeat(Session, calls[c].turn, calls[c].asked)
    /\ Answered(c, IF IsSubmit(c) THEN status[Session][calls[c].turn].terminal
                                  ELSE Cancelled)
\* A retry, or a cancellation that came too late, of a sealed turn.
ServeRepeat(c) ==
    /\ Travelling(c)
    /\ Repeat(Session, calls[c].turn, calls[c].asked)
    /\ Answered(c, status[Session][calls[c].turn].terminal)

ServeResult(c) ==
    /\ calls[c].server = "serving"
    /\ \E o \in Terminals :
          /\ Seal(Session, calls[c].turn, o)
          /\ Answer(Session, calls[c].turn, calls[c].asked, o) \in answers'
          /\ Answered(c, o)

\* The Fabric drops the task that serves a submission: its guard seals the
\* turn and nobody is told.
ServeDropped(c) ==
    /\ calls[c].server = "serving"
    /\ Seal(Session, calls[c].turn, Cancelled)
    /\ Answered(c, NoReply)

ServeCancelForgotten(c) ==             \* Slip: answered, and not written down
    /\ Travelling(c) /\ ~IsSubmit(c)
    /\ status[Session][calls[c].turn].phase \in {"unknown", "promised", "running"}
    /\ UNCHANGED contractVars
    /\ Answered(c, CancellationRequested)
ServeCancel(c) ==
    /\ Travelling(c) /\ ~IsSubmit(c)
    /\ AcceptCancel({}, Session, calls[c].turn)
    /\ Answered(c, CancellationRequested)

\* The Agent does not run, or has no Card.
ServeNotActive(c) ==
    /\ Travelling(c) /\ ~IsSubmit(c)
    /\ status[Session][calls[c].turn].phase \in {"unknown", "promised"}
    /\ Answered(c, NotActive)
    /\ UNCHANGED contractVars

\* Lost or refused on the way, or an error of the Agent: busy with another
\* turn, another input than before, or a Session that is full.
ServeError(c) ==
    /\ Travelling(c)
    /\ Answered(c, NoReply)
    /\ UNCHANGED contractVars

OwnerInterrupts(t) ==
    /\ Interrupt(Session, t)
    /\ UNCHANGED calls

NodeStep ==
    \/ \E c \in DOMAIN calls :
          \/ ServeAdmit(c) \/ ServeRefuse(c) \/ ServeRedeem(c) \/ ServeRepeat(c)
          \/ ServeResult(c) \/ ServeDropped(c)
          \/ ServeCancel(c) \/ ServeNotActive(c) \/ ServeError(c)
    \/ \E t \in TurnIds : OwnerInterrupts(t)

-----------------------------------------------------------------------------
(* The client.                                                             *)

\* The reply is there and is taken.
Returns(c) ==
    /\ calls[c].client = "waiting"
    /\ calls[c].reply # NoReply
    /\ calls' = [calls EXCEPT ![c].client = "returned"]

\* The deadline of the call, or an error in place of a reply.
Fails(c) ==
    /\ calls[c].client = "waiting"
    /\ calls' = [calls EXCEPT ![c].client = "failed"]

Dropped(c) == [calls EXCEPT ![c].client = IF @ = "waiting" THEN "dropped" ELSE @]

ClientMove ==
    /\ \/ \E t \in TurnIds, asked \in Inputs \cup {"cancel"} : Call(t, asked)
       \/ \E c \in DOMAIN calls :
             \/ Returns(c)
             \/ Fails(c)
             \/ calls[c].client = "waiting" /\ calls' = Dropped(c)
    /\ UNCHANGED contractVars

ClientStep == ClientMove /\ Len(calls') <= MAX_CALLS

ConversationNext == NodeStep \/ ClientStep

ConversationSpec == ConversationInit /\ [][ConversationNext]_conversationVars

-----------------------------------------------------------------------------

ToldBy(c) == Answer(Session, calls[c].turn, calls[c].asked, calls[c].reply)

\* A reply on its way back is one the Agent gave to this very turn and
\* question.
RepliesWereTold ==
    \A c \in DOMAIN calls :
        calls[c].reply \notin {NoReply, NotActive} => ToldBy(c) \in answers

Ended(c) == calls[c].client = "returned" /\ calls[c].reply \in Terminals

\* A call that fails leaves the outcome of its turn open, and asking again
\* settles it: whichever calls of a turn return a terminal, late, retried,
\* reordered or asked as a cancellation, they return the same one.
OutcomesAgree ==
    \A c, d \in DOMAIN calls :
        (Ended(c) /\ Ended(d) /\ calls[c].turn = calls[d].turn)
        => calls[c].reply = calls[d].reply

\* A client that was told its cancellation is accepted never gets another
\* outcome of that turn than Cancelled, though the submission may be served
\* after the cancellation and its first reply lost.
PromiseKept ==
    \A c, d \in DOMAIN calls :
        (/\ calls[c].client = "returned"
         /\ calls[c].reply = CancellationRequested
         /\ Ended(d)
         /\ calls[c].turn = calls[d].turn)
        => calls[d].reply = Cancelled

\* Retries never run a turn a second time: one request at most is being
\* served, and it is the one whose turn runs.
ServedIsRunning ==
    \A c \in DOMAIN calls :
        calls[c].server = "serving" =>
            /\ status[Session][calls[c].turn].phase = "running"
            /\ status[Session][calls[c].turn].input = calls[c].asked
            /\ \A d \in DOMAIN calls \ {c} : calls[d].server # "serving"
=============================================================================
