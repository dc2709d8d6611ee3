------------------------------ MODULE Broadcast ------------------------------
(***************************************************************************)
(* What the communication server promises the programs connected to it: a  *)
(* room in which every message goes to all the members but its sender, and *)
(* all the members hear the messages in one order.                         *)
(*                                                                         *)
(* It is the contract of src/source/FireServer/fireServer.c, stated        *)
(* without sockets, buffers or events.  FireServer implements it.          *)
(***************************************************************************)
EXTENDS Naturals, Sequences

CONSTANT Client    \* the connections that may ever join the room

VARIABLES
  log,        \* the senders of all messages so far; message n is log[n]
  members,    \* who is in the room
  joined,     \* the length of the log when a client joined
  heard       \* the messages each client was given, in the order it got them

vars == <<log, members, joined, heard>>

TypeOK ==
  /\ log \in Seq(Client)
  /\ members \subseteq Client
  /\ joined \in [Client -> Nat]
  /\ heard \in [Client -> Seq(Nat)]

(***************************************************************************)
(* The messages d is to hear: those of the others since it joined.         *)
(***************************************************************************)
Feed(d) == { n \in 1 .. Len(log) : n > joined[d] /\ log[n] # d }

(***************************************************************************)
(* h is the beginning of d's feed: in the order of the log and gap-free.   *)
(***************************************************************************)
BeginsFeed(h, d) ==
  /\ \A i \in 1 .. Len(h) : h[i] \in Feed(d)
  /\ \A i, j \in 1 .. Len(h) : i < j => h[i] < h[j]
  /\ \A i \in 1 .. Len(h) : \A n \in Feed(d) :
        n < h[i] => \E j \in 1 .. Len(h) : h[j] = n

Extends(g, h) ==
  /\ Len(g) > Len(h)
  /\ \A i \in 1 .. Len(h) : g[i] = h[i]

-----------------------------------------------------------------------------
Init ==
  /\ log = <<>>
  /\ members = {}
  /\ joined = [d \in Client |-> 0]
  /\ heard = [d \in Client |-> <<>>]

\* A client joins once, and is owed only what is said from then on.
Join(d) ==
  /\ d \notin members
  /\ heard[d] = <<>>
  /\ members' = members \cup {d}
  /\ joined' = [joined EXCEPT ![d] = Len(log)]
  /\ UNCHANGED <<log, heard>>

\* A member says one or more messages.
Publish(c) ==
  /\ c \in members
  /\ Len(log') > Len(log)
  /\ log' = log \o [i \in 1 .. Len(log') - Len(log) |-> c]
  /\ UNCHANGED <<members, joined, heard>>

\* A member hears the next messages of its feed, possibly several at once.
Hear(d) ==
  /\ d \in members
  /\ Extends(heard'[d], heard[d])
  /\ BeginsFeed(heard'[d], d)
  /\ heard' = [heard EXCEPT ![d] = heard'[d]]
  /\ UNCHANGED <<log, members, joined>>

\* Members leave: one client disconnects, or the whole room closes.
Leave(S) ==
  /\ S # {}
  /\ S \subseteq members
  /\ members' = members \ S
  /\ UNCHANGED <<log, joined, heard>>

Next ==
  \/ \E d \in Client : Join(d) \/ Publish(d) \/ Hear(d)
  \/ Leave(members \ members')

Spec == Init /\ [][Next]_vars

=============================================================================
