----------------------------- MODULE MCEchoServer -----------------------------
(***************************************************************************)
(* Small instances of EchoServer for TLC.                                  *)
(***************************************************************************)
EXTENDS EchoServer

CONSTANTS c1, c2, c3   \* connections

MCThree == {c1, c2, c3}
MCOne   == {c1}

\* Either descriptors run out first, or threads.
MCLimits == { [fds |-> 3, threads |-> 3], [fds |-> 4, threads |-> 2] }

=============================================================================
