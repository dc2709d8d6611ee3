----------------------------- MODULE MCFireServer -----------------------------
(***************************************************************************)
(* Small instances of FireServer for TLC.                                  *)
(***************************************************************************)
EXTENDS FireServerProperties, TLC

CONSTANTS c1, c2, c3   \* connections

MCTwo   == {c1, c2}
MCThree == {c1, c2, c3}

\* Permutations of connections that no configuration tells apart.
MCSymmetry == Permutations(Conns)

\* The peer that keeps reading in the run for progress.
MCOne == {c1}

=============================================================================
