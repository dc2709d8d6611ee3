------------------------------- MODULE MCAliDdns -------------------------------
(***************************************************************************)
(* Small instances of AliDdns for TLC.                                     *)
(***************************************************************************)
EXTENDS AliDdns

CONSTANTS r1, r2   \* shells

MCOneRun  == {r1}
MCTwoRuns == {r1, r2}

=============================================================================
