--------------------------- MODULE MCFireTestClient ---------------------------
(***************************************************************************)
(* Small instances of FireTestClient for TLC.                              *)
(***************************************************************************)
EXTENDS FireTestClient

CONSTANTS s1, s2, s3   \* sessions

MCThree == {s1, s2, s3}

=============================================================================
