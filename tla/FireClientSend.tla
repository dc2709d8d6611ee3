---------------------------- MODULE FireClientSend ----------------------------
(***************************************************************************)
(* fireClientSend.c, with the server it talks to: the program connects,    *)
(* sends its message (one unit) and exits.  It never reads, so what the    *)
(* room says meanwhile is unread when it exits, and its kernel answers the *)
(* server with a RST instead of a FIN.                                     *)
(*                                                                         *)
(* The server is FireServer as it is; the senders are peers of it with a   *)
(* program, the other connections are peers of any kind.                   *)
(***************************************************************************)
EXTENDS FireServer

CONSTANT Senders   \* the connections made by fireClientSend

ASSUME SendersAssumption == Senders \subseteq Conns

VARIABLE sender    \* where the program of each sender is: "start", "connected",
                   \* "sent", "done" or "failed"

sendVars == <<vars, sender>>

\* The server is up, or nobody has started it.
SendInit ==
  /\ NobodyYet
  /\ proc \in {"running", "exited"}
  /\ sender = [c \in Senders |-> "start"]

Moves(c, from, to) ==
  /\ sender[c] = from
  /\ sender' = [sender EXCEPT ![c] = to]

\* tcp_connect_server, blocking.
Connects(c) == Moves(c, "start", "connected") /\ PeerConnect(c)

\* No server listens: connect is refused, and send fails on descriptor -1.
ConnectFails(c) ==
  /\ Moves(c, "start", "failed")
  /\ proc # "running"
  /\ UNCHANGED vars

Sends(c) == Moves(c, "connected", "sent") /\ PeerSend(c)

\* The exit closes the socket: with a RST if the receive queue holds anything,
\* else with a FIN.
UnreadBy(c) == taken[c] < Len(stream[c])
Closes(c) == IF UnreadBy(c) THEN PeerAbort(c) ELSE PeerClose(c)
Exits(c) == Moves(c, "sent", "done") /\ Closes(c)

Sender(c) == Connects(c) \/ ConnectFails(c) \/ Sends(c) \/ Exits(c)

\* What is in flight when the sender closes reaches nobody.
OtherPeers ==
  /\ \/ \E c \in Conns \ Senders :
          \/ PeerConnect(c) \/ PeerSend(c) \/ PeerRead(c)
          \/ PeerClose(c) \/ PeerAbort(c)
     \/ \E c \in Conns : ResetArrives(c)
  /\ UNCHANGED sender

ServerLoop == Loop /\ UNCHANGED sender

SendNext == ServerLoop \/ OtherPeers \/ \E c \in Senders : Sender(c)

SendSpec == SendInit /\ [][SendNext]_sendVars

\* The server's loop and the senders run; nothing is assumed of other peers.
SendFairSpec ==
  /\ SendSpec
  /\ WF_sendVars(ServerLoop)
  /\ \A c \in Senders : WF_sendVars(Sender(c))

-----------------------------------------------------------------------------
IsHeard(c) == \E i \in 1 .. Len(log) : log[i] = c
ServerDown == proc # "running"

\* A sender whom the room said nothing is heard, at whatever point of the
\* server's batch its message, its FIN or its connection itself arrives
\* (on_accept, then buffered_on_read before buffered_on_error).
QuietSenderIsHeard ==
  \A c \in Senders :
    (sender[c] = "done") ~> (ServerDown \/ IsHeard(c) \/ stream[c] # <<>>)

\* A message is lost only in the way of the RST: a sender that went with a FIN
\* and is gone from the list has been heard.
LostOnlyToReset ==
  \A c \in Senders :
    bev[c] \in {"finalizing", "freed"} /\ ~IsHeard(c) => Broken(c)

=============================================================================
