-------------------------- MODULE ConversationTypes --------------------------
(***************************************************************************)
(* The values that cross the boundary of the Agent service: the terminal   *)
(* of a turn, and the answers its clients get.                             *)
(***************************************************************************)

CONSTANTS
    SessionIds,  \* names clients may use for Sessions
    TurnIds,     \* names clients may use for turns of a Session
    Inputs,      \* what a turn may ask
    Contents     \* what the model provider may reply

ASSUME AskedAssumption == "cancel" \notin Inputs

-----------------------------------------------------------------------------

Failures == {"ProviderRejected", "ProviderUnavailable",
             "InvalidProviderResponse", "ContextLimit"}

Terminals == [kind : {"Final"}, detail : Contents]
        \cup [kind : {"Failed"}, detail : Failures]
        \cup [kind : {"Cancelled", "TimedOut"}, detail : {"none"}]

Cancelled == [kind |-> "Cancelled", detail |-> "none"]
CancellationRequested == [kind |-> "CancellationRequested", detail |-> "none"]

Answers == [session : SessionIds, turn : TurnIds,
            asked : Inputs \cup {"cancel"},
            reply : Terminals \cup {CancellationRequested}]

Answer(s, t, asked, reply) ==
    [session |-> s, turn |-> t, asked |-> asked, reply |-> reply]

=============================================================================
