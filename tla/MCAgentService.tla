--------------------------- MODULE MCAgentService ---------------------------
(***************************************************************************)
(* Small instances of AgentService for TLC.                                *)
(***************************************************************************)

EXTENDS AgentService

CONSTANT Long    \* contents of two bytes; every other message has one

Sizes == [m \in Inputs \cup Contents |-> IF m \in Long THEN 2 ELSE 1]

Final(c) == [kind |-> "Final", detail |-> c]
ReplyOrFail == {Final(c) : c \in Contents} \cup {Failed("ProviderUnavailable")}
OnlyReplies == {Final(c) : c \in Contents}

\* Sessions, turns, futures and inputs of equal size are interchangeable.
ClientSymmetry ==
    Permutations(SessionIds) \cup Permutations(TurnIds) \cup Permutations(Tasks)
        \cup Permutations(Inputs)

\* The state but for what clients were told, which no step looks at.
WithoutAnswers == <<lifecycle, active_profile, ledger, active_turn, futures, owned>>
=============================================================================
