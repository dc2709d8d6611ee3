------------------------------ MODULE DnsMirror ------------------------------
(***************************************************************************)
(* What dynamic DNS is for: the zone follows the router's address.  The    *)
(* contract of src/shBuildForInstall/install/scripts/merlinc_update.sh,    *)
(* without runs, look-ups or requests.  Addresses are numbered in the      *)
(* order in which the router gets them.                                    *)
(***************************************************************************)
EXTENDS Naturals

CONSTANT MaxIp    \* bound: addresses the router gets

VARIABLES
  ip,        \* the router's address
  record,    \* the newest address in the zone; 0: the zone has none
  removed    \* how many records the owner of the domain removed by hand

Init == ip = 1 /\ record \in 0 .. 1 /\ removed = 0

NewAddress ==
  /\ ip < MaxIp
  /\ ip' = ip + 1
  /\ UNCHANGED <<record, removed>>

\* The zone gets an address that the router has or has had since the one that
\* the zone had: it lags behind, it never goes back.
Follow ==
  /\ record' \in record + 1 .. ip
  /\ UNCHANGED <<ip, removed>>

\* Only the owner makes the zone lose its newest address.
Remove ==
  /\ removed' = removed + 1
  /\ record' \in 0 .. record
  /\ UNCHANGED ip

Next == NewAddress \/ Follow \/ Remove

Spec == Init /\ [][Next]_<<ip, record, removed>>

=============================================================================
