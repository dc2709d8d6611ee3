----------------------------- MODULE MCChatServer -----------------------------
(***************************************************************************)
(* Small instances of ChatServer for TLC.                                  *)
(***************************************************************************)
EXTENDS ChatServer

CONSTANTS c1, c2, c3   \* chat clients

MCThree == {c1, c2, c3}

\* Room for all; a descriptor short for accept; one too many for select.
MCLimits == { [fds |-> 3, select |-> 3], [fds |-> 2, select |-> 2],
              [fds |-> 3, select |-> 2] }

=============================================================================
