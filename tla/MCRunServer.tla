------------------------------ MODULE MCRunServer ------------------------------
(***************************************************************************)
(* Small instances of RunServer for TLC.                                   *)
(***************************************************************************)
EXTENDS RunServer

CONSTANTS s1, s2, c1, c2, c3   \* scripts and connections

MCTwoScripts == {s1, s2}
MCConns      == {c1, c2, c3}
MCLocal      == {c1, c2}
MCDeaf       == {c1, c3}

=============================================================================
