---------------------------- MODULE MCPushDelivery ----------------------------
(* An instance of PushDelivery for TLC.                                      *)
EXTENDS PushDelivery, TLC

\* A text that is cut between two characters, and one whose second character
\* lies across the cut.
MCTexts == {<<1, 1, 1>>, <<1, 3>>}
=============================================================================
