--------------------------- MODULE MCFireClientSend ---------------------------
(***************************************************************************)
(* Small instances of FireClientSend for TLC.                              *)
(***************************************************************************)
EXTENDS FireClientSend

CONSTANTS c1, c2   \* connections

MCPair   == {c1, c2}
MCSender == {c1}
MCNobody == {}

=============================================================================
