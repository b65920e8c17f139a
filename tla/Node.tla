--------------------------------- MODULE Node ---------------------------------
(***************************************************************************)
(* `paraegox node run`: a process that builds a Node, starts its           *)
(* RuntimeHost (FabricService, AgentService, and one Agent Card), reports  *)
(* its status, may probe a peer, waits for Ctrl-C and stops; and a prober  *)
(* (`node probe`, or the probe_peer of another Node) that asks for its     *)
(* status through the Fabric meanwhile.                                    *)
(*                                                                         *)
(* Every process is a new incarnation with a new RuntimeHost.  Until       *)
(* run_node awaits ctrl_c() the signal kills the process.  The Fabric      *)
(* takes a status query while its service runs, with the snapshot of the   *)
(* moment, and serves it later, or loses it (see FabricService).           *)
(*                                                                         *)
(* A definition marked "Slip" is a mistake the code could have made.       *)
(***************************************************************************)

EXTENDS RuntimeHost

CONSTANTS
    HasPeer,             \* --probe-peer
    MAX_INCARNATIONS     \* bound: how often the Node is run

ASSUME NodeAssumption ==
    /\ HasPeer \in BOOLEAN
    /\ MAX_INCARNATIONS \in Nat

VARIABLES
    incarnation,         \* NodeIdentity.incarnation of this process
    main,                \* what run_node does next
    running_result,
    exit_code,
    probe,               \* "none", "asked", "queued", "replied", "ok" or "failed"
    status,              \* NodeRuntimeStatus that is on its way
    readySince           \* incarnations that were Ready since the probe was sent

process == <<incarnation, main, running_result, exit_code>>
probing == <<probe, status>>
nodeVars == <<vars, process, probing, readySince>>

Snapshot == [state |-> state, deck |-> deck_run, cards |-> card_state]
NoStatus == [incarnation |-> 0, runtime |-> [state |-> "Created", deck |-> "Created",
                                             cards |-> [c \in Cards |-> "Created"]]]

NodeInit ==
    /\ Init
    /\ incarnation = 0 /\ main = "none"
    /\ running_result = "ok" /\ exit_code = "none"
    /\ probe = "none" /\ status = NoStatus
    /\ readySince = {}

-----------------------------------------------------------------------------
(* run_node.                                                               *)

\* A process is started, has built its Node, and calls its start().
Build ==
    /\ main \in {"none", "returned", "killed"}
    /\ incarnation < MAX_INCARNATIONS
    /\ incarnation' = incarnation + 1
    /\ state' = "Starting" /\ call' = "start" /\ GoTo("start_service", 1)
    /\ deck_run' = "Created" /\ card_state' = [c \in Cards |-> "Created"]
    /\ failures' = {}
    /\ service' = [s \in Services |-> "nothing"] /\ card' = [c \in Cards |-> "nothing"]
    /\ main' = "starting"
    /\ running_result' = "ok" /\ exit_code' = "none"
    /\ UNCHANGED probing

Return(code) ==
    /\ main' = "returned"
    /\ exit_code' = code
    /\ UNCHANGED <<vars, incarnation, running_result, probing>>

StartReturns ==
    /\ main = "starting" /\ phase = "idle"
    /\ \/ state = "Failed" /\ Return("error")
       \/ /\ state = "Ready"
          /\ main' = "reporting"
          /\ UNCHANGED <<vars, incarnation, running_result, exit_code, probing>>

\* node.stop() follows whatever came of the running Node.
RunningEnds(result) ==
    /\ running_result' = result
    /\ main' = "stopping"
    /\ StopCall
    /\ UNCHANGED <<incarnation, exit_code, probing>>

GoesOnTo(next) ==
    /\ main' = next
    /\ UNCHANGED <<vars, incarnation, running_result, exit_code, probing>>

AfterReport == IF HasPeer THEN "probing" ELSE "waiting"

ReportOrReturn ==                      \* Slip: `?` leaves run_node
    /\ main = "reporting"
    /\ GoesOnTo(AfterReport) \/ Return("error")
\* status(), println! and flush().
Report ==
    /\ main = "reporting"
    /\ \/ GoesOnTo(AfterReport)
       \/ RunningEnds("error")

ProbePeer ==
    /\ main = "probing"
    /\ GoesOnTo("waiting") \/ RunningEnds("error")

CtrlC ==
    /\ main = "waiting"
    /\ \E result \in {"ok", "error"} : RunningEnds(result)

\* SIGINT, before anything listens to it.
Killed ==
    /\ main \in {"starting", "reporting", "probing"}
    /\ main' = "killed"
    /\ UNCHANGED <<vars, incarnation, running_result, exit_code, probing>>

StopReturns ==
    /\ main = "stopping" /\ phase = "idle"
    /\ Return(IF state = "Stopped" THEN running_result ELSE "error")

HostStep ==
    /\ main \in {"starting", "stopping"}
    /\ CallStep
    /\ UNCHANGED <<process, probing>>

-----------------------------------------------------------------------------
(* The prober.                                                             *)

Alive == main \notin {"none", "returned", "killed"}

Ask ==
    /\ probe \in {"none", "ok", "failed"}
    /\ probe' = "asked"
    /\ status' = NoStatus
    /\ UNCHANGED <<vars, process>>

\* FabricService, the first of the CoreServices, dispatches the query.
Dispatch ==
    /\ probe = "asked"
    /\ Alive /\ service[1] \in Live
    /\ probe' = "queued"
    /\ status' = [incarnation |-> incarnation, runtime |-> Snapshot]
    /\ UNCHANGED <<vars, process>>

ServeAnew ==                           \* Slip: reads the Deck when it serves
    /\ probe = "queued"
    /\ Alive /\ status.incarnation = incarnation
    /\ status.runtime.state = "Ready"
    /\ status' = [status EXCEPT !.runtime.deck = deck_run, !.runtime.cards = card_state]
    /\ probe' = "replied"
    /\ UNCHANGED <<vars, process>>
\* encode_runtime_status: only a snapshot that is Ready makes a status.
Serve ==
    /\ probe = "queued"
    /\ Alive /\ status.incarnation = incarnation
    /\ status.runtime.state = "Ready"
    /\ probe' = "replied"
    /\ UNCHANGED <<status, vars, process>>

\* decode_runtime_status
ProbeReturns ==
    /\ probe = "replied"
    /\ probe' = "ok"
    /\ UNCHANGED <<status, vars, process>>

\* Its deadline, an error reply, a query or reply that was lost.
ProbeFails ==
    /\ probe \in {"asked", "queued", "replied"}
    /\ probe' = "failed"
    /\ UNCHANGED <<status, vars, process>>

-----------------------------------------------------------------------------

ProbeStep == Ask \/ Dispatch \/ Serve \/ ProbeReturns \/ ProbeFails
ProcessStep == StartReturns \/ Report \/ ProbePeer \/ StopReturns \/ HostStep

\* readySince follows every step.
Watched ==
    readySince' = (IF probe' = "asked" /\ probe # "asked" THEN {} ELSE readySince)
                  \cup (IF state' = "Ready" /\ main' # "killed" THEN {incarnation'} ELSE {})

NodeNext ==
    /\ \/ Build \/ CtrlC \/ Killed
       \/ ProcessStep
       \/ ProbeStep
    /\ Watched

NodeSpec == NodeInit /\ [][NodeNext]_nodeVars

-----------------------------------------------------------------------------

\* When run_node returns, by whatever error, the Node's services and Cards
\* have all been asked to stop; and it returns Ok only if they did.
ReturnLeavesNothing ==
    main = "returned" =>
        /\ \A s \in Services : service[s] \notin Live
        /\ \A c \in Cards : card[c] \notin Live
        /\ exit_code = "ok" => state = "Stopped" /\ failures = {}

\* A probe that succeeds tells of a process that was Ready at some moment
\* since it was sent, not of one that ended before or was still starting, and
\* what it shows of the Deck and its Cards is of that same moment.
ProbeSawReady ==
    probe = "ok" =>
        /\ status.incarnation \in readySince
        /\ status.runtime.state = "Ready"
        /\ HasDeck => /\ status.runtime.deck = "Ready"
                      /\ \A c \in Cards : status.runtime.cards[c] = "Ready"

=============================================================================
