---------------------------- MODULE FireClientRead ----------------------------
(***************************************************************************)
(* fireClientRead.c: the client that prints what the room says.            *)
(*                                                                         *)
(* One event loop over two events: the read event of the bufferevent on    *)
(* the connection ("sock") and an event on the standard input ("cmd").     *)
(* Data is counted in units of text, numbered as the server wrote them;    *)
(* what read_cb leaves in the input evbuffer stays there.                  *)
(***************************************************************************)
EXTENDS Naturals, Sequences

CONSTANTS
  ReadMax,    \* units one read callback takes from the socket
  MsgMax,     \* units the array of read_cb holds
  CmdMax,     \* units the array of cmd_msg_cb holds
  Junk,       \* what printf finds after the array when no NUL ends it
  MaxArrive,  \* bound: units the server writes in all
  MaxType     \* bound: units typed and not yet read

ASSUME LimitsAssumption == {ReadMax, MsgMax, CmdMax} \subseteq Nat \ {0}
ASSUME BoundsAssumption == {MaxArrive, MaxType} \subseteq Nat
ASSUME JunkAssumption == Junk \notin Nat

VARIABLES
  proc,      \* "starting", "looping", or "ended"
  conn,      \* the connection: "none", "refused", "estab", "fin" or "reset"
  arrived,   \* units that have reached the socket
  input,     \* the input evbuffer
  printed,   \* history: what read_cb wrote to the terminal
  events,    \* events added to the base
  active,    \* events on the active queue
  typed,     \* units waiting on the standard input
  stdin,     \* "open" or "eof"
  pollable   \* whether epoll takes it: not when it is a file or /dev/null

client   == <<proc, input, printed, events, active>>
network  == <<conn, arrived>>
terminal == <<typed, stdin, pollable>>
vars     == <<client, network, terminal>>

Events == {"sock", "cmd"}
Gone   == conn \in {"fin", "reset"}

Least(m, n) == IF m <= n THEN m ELSE n

Init ==
  /\ proc = "starting"
  /\ conn = "none"
  /\ arrived = 0
  /\ input = <<>>
  /\ printed = <<>>
  /\ events = {}
  /\ active = {}
  /\ typed = 0
  /\ stdin = "open"
  /\ pollable \in BOOLEAN

\* main up to event_base_dispatch.  A refused connection is not looked at: the
\* bufferevent gets descriptor -1, which the io map takes without a word, so
\* its event counts as added.  An event on a standard input that epoll does
\* not take is not added, and nobody looks at that either.
Start ==
  /\ proc = "starting"
  /\ proc' = "looping"
  /\ conn' \in {"estab", "refused"}
  /\ events' = {"sock"} \cup (IF pollable THEN {"cmd"} ELSE {})
  /\ UNCHANGED <<arrived, input, printed, active, terminal>>

-----------------------------------------------------------------------------
Unread == arrived - Len(input)

ReadyCommandFirst ==
  IF typed > 0 \/ stdin = "eof" THEN {"cmd"}
  ELSE { e \in events : e = "sock" /\ conn # "refused" /\ (Unread > 0 \/ Gone) }
Ready ==
  { e \in events :
      \/ e = "sock" /\ conn # "refused" /\ (Unread > 0 \/ Gone)
      \/ e = "cmd"  /\ (typed > 0 \/ stdin = "eof") }

Poll ==
  /\ proc = "looping"
  /\ active = {}
  /\ Ready # {}
  /\ active' = Ready
  /\ UNCHANGED <<proc, input, printed, events, network, terminal>>

\* event_base_loop returns when no event is added; main then returns.
LoopEnds ==
  /\ proc = "looping"
  /\ active = {}
  /\ events = {}
  /\ proc' = "ended"
  /\ UNCHANGED <<input, printed, events, active, network, terminal>>

\* evbuffer_copyout and printf: the evbuffer from its first byte on, as much as
\* the array holds.  A full array has no room for the NUL.
ShownTail(buf)  == {SubSeq(buf, 1 + Len(buf) - Least(Len(buf), MsgMax), Len(buf))}
Shown(buf) ==
  LET msg == SubSeq(buf, 1, Least(Len(buf), MsgMax))
  IN  IF Len(buf) < MsgMax THEN {msg} ELSE {msg, Append(msg, Junk)}

\* evbuffer_read appends what it took from the socket.
NextUnits(n) == [i \in 1 .. n |-> Len(input) + i]

\* bufferevent_readcb finds data and calls read_cb.
ReadData ==
  /\ proc = "looping"
  /\ "sock" \in active
  /\ Unread > 0
  /\ input' = input \o NextUnits(Least(Unread, ReadMax))
  /\ \E text \in Shown(input') : printed' = printed \o text
  /\ active' = active \ {"sock"}
  /\ UNCHANGED <<proc, events, network, terminal>>

\* bufferevent_readcb finds the end of file or an error: the read event is
\* deleted, and event_cb does nothing about it.
AtEndOnClose == Gone
AtEndOnError == Unread = 0 /\ conn = "reset"
AtEnd == Unread = 0 /\ Gone
ReadEnds ==
  /\ proc = "looping"
  /\ "sock" \in active
  /\ AtEnd
  /\ events' = events \ {"sock"}
  /\ active' = active \ {"sock"}
  /\ UNCHANGED <<proc, input, printed, network, terminal>>

\* cmd_msg_cb reads a line, or the end of file, and sends nothing.
ReadCommand ==
  /\ proc = "looping"
  /\ "cmd" \in active
  /\ typed' = typed - Least(typed, CmdMax)
  /\ active' = active \ {"cmd"}
  /\ UNCHANGED <<proc, input, printed, events, network, stdin, pollable>>

Client == Start \/ Poll \/ LoopEnds \/ ReadData \/ ReadEnds \/ ReadCommand

-----------------------------------------------------------------------------
ServerWrites ==
  /\ conn = "estab"
  /\ arrived < MaxArrive
  /\ arrived' = arrived + 1
  /\ UNCHANGED <<client, conn, terminal>>

ServerEnds ==
  /\ conn = "estab"
  /\ conn' \in {"fin", "reset"}
  /\ UNCHANGED <<client, arrived, terminal>>

UserTypes ==
  /\ stdin = "open"
  /\ typed < MaxType
  /\ typed' = typed + 1
  /\ UNCHANGED <<client, network, stdin, pollable>>

UserEnds ==
  /\ stdin = "open"
  /\ stdin' = "eof"
  /\ UNCHANGED <<client, network, typed, pollable>>

Next == Client \/ ServerWrites \/ ServerEnds \/ UserTypes \/ UserEnds

Spec == Init /\ [][Next]_vars

\* The program runs; each active callback gets its turn because the active
\* queue is emptied before the next poll.  Nothing is assumed of the server,
\* the network or the user.
FairSpec == Spec /\ WF_vars(Client)

-----------------------------------------------------------------------------
\* Every variable has its type, and the evbuffer is what arrived, in order,
\* up to what is still in the socket.
TypeOK ==
  /\ proc \in {"starting", "looping", "ended"}
  /\ conn \in {"none", "refused", "estab", "fin", "reset"}
  /\ arrived \in 0 .. MaxArrive
  /\ Len(input) <= arrived
  /\ input = [i \in 1 .. Len(input) |-> i]
  /\ printed \in Seq(Nat \cup {Junk})
  /\ active \subseteq events /\ events \subseteq Events
  /\ typed \in 0 .. MaxType
  /\ stdin \in {"open", "eof"} /\ pollable \in BOOLEAN

\* The text on the terminal is made of beginnings of what the server wrote: a
\* unit follows its predecessor or starts over, only the head that fits
\* read_cb's array is ever shown, and junk comes only after a full array.
PrintsHeads ==
  \A i \in 1 .. Len(printed) :
    IF printed[i] = Junk
    THEN i > 1 /\ printed[i - 1] = MsgMax
    ELSE /\ printed[i] <= MsgMax
         /\ printed[i] = 1 \/ (i > 1 /\ printed[i - 1] = printed[i] - 1)

\* The client ends by itself only after the server did, with everything read,
\* and only when nothing else is watched: neither at a refused connection nor
\* with a terminal does it end.
EndsHavingReadAll ==
  proc = "ended" => ~pollable /\ Gone /\ Len(input) = arrived

\* What reaches the client is read, whatever the user types meanwhile and
\* however the connection ends: the two events do not starve each other.
AllIsRead ==
  \A n \in 1 .. MaxArrive : (conn # "refused" /\ arrived >= n) ~> (Len(input) >= n)

\* The client without a terminal ends after its server.
EndsWithServer == Gone ~> (proc = "ended" \/ pollable)

=============================================================================
