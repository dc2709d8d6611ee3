--------------------------- MODULE MCFireClientRead ---------------------------
(***************************************************************************)
(* Small instances of FireClientRead for TLC.                              *)
(***************************************************************************)
EXTENDS FireClientRead
=============================================================================
