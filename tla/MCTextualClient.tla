--------------------------- MODULE MCTextualClient ---------------------------
(***************************************************************************)
(* A small instance of TextualClient for TLC.                              *)
(***************************************************************************)

EXTENDS TextualClient

CONSTANT FirstUuid

\* uuid4() returns some unused UUID and nothing depends on which: it is enough
\* to look at the behaviours whose first turn is FirstUuid.  Only the user's
\* step is held back, which has no fairness.
UuidsInOrder == (\E t \in TurnIds : Submitted(t)) => Submitted(FirstUuid)
=============================================================================
