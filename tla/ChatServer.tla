------------------------------ MODULE ChatServer ------------------------------
(***************************************************************************)
(* The Python chat room: chat_server.py and the chat_client.py programs    *)
(* connected to it.                                                        *)
(*                                                                         *)
(* The server is one thread: select, then a handler for each socket that   *)
(* was ready, each of which may broadcast.  A broadcast sends with a       *)
(* blocking call to one socket after the other, so it is a loop of steps   *)
(* here, between which clients read, speak and leave.  It iterates over    *)
(* the list that it removes from.                                          *)
(***************************************************************************)
EXTENDS Naturals, Sequences, FiniteSets

CONSTANTS
  Conns,     \* the connections that may ever be made, one chat client each
  server,    \* server_socket
  RecvMax,   \* units of RECV_BUFFER
  Window,    \* messages that fit between the server and a client's program
  Backlog,   \* listen(10)
  Limits,    \* what the process may have: descriptors for connections (fds),
             \* and how many of them are below FD_SETSIZE (select)
  MaxSay     \* bound: lines that are typed

ASSUME ConnsAssumption == IsFiniteSet(Conns)
ASSUME ServerAssumption == server \notin Conns
ASSUME LimitsAssumption ==
  /\ {RecvMax, Window, Backlog} \subseteq Nat \ {0} /\ MaxSay \in Nat
  /\ Limits \subseteq [fds : Nat \ {0}, select : Nat \ {0}]

VARIABLES
  limits,   \* those of this process, from ulimit and the files it inherited
  pc,       \* where the server is
  list,     \* CONNECTION_LIST
  todo,     \* what is left of read_sockets
  cast,     \* the broadcast: its sock, the index in the list, whether fatal
  sock,     \* the server's socket objects
  far,      \* those of them whose descriptor is not below FD_SETSIZE
  tcp,      \* each connection, as the server's kernel sees it
  queue,    \* connections not yet accepted
  inq,      \* what each client said that the server has not received
  said,     \* how many lines have been typed
  heard,    \* the messages written to each client
  taken,    \* how many of them its program has read
  log,      \* history: the sender of each message
  joined    \* history: the length of the log when a client was listed

python == <<limits, pc, list, todo, cast, sock, far>>
kernel == <<tcp, queue, inq, said, heard, taken>>
history == <<log, joined>>
vars == <<python, kernel, history>>

NoCast == [sock |-> server, at |-> 1, fatal |-> FALSE]

Places == {"select", "handle", "call", "sending", "dead"}
TcpStates == {"idle", "estab", "fin", "reset", "finreset", "over"}

Init ==
  /\ limits \in Limits
  /\ pc = "select"
  /\ list = <<server>>
  /\ todo = <<>>
  /\ cast = NoCast
  /\ sock = [c \in Conns |-> "none"]
  /\ far = {}
  /\ tcp = [c \in Conns |-> "idle"]
  /\ queue = <<>>
  /\ inq = [c \in Conns |-> 0]
  /\ said = 0
  /\ heard = [c \in Conns |-> <<>>]
  /\ taken = [c \in Conns |-> 0]
  /\ log = <<>>
  /\ joined = [c \in Conns |-> 0]

-----------------------------------------------------------------------------
(***************************************************************************)
(* The main loop.                                                          *)
(***************************************************************************)
Ready(s) == IF s = server THEN queue # <<>>
            ELSE inq[s] > 0 \/ tcp[s] \in {"fin", "reset", "finreset"}

ReadyAt == { i \in 1 .. Len(list) : Ready(list[i]) }

\* select raises for a closed socket and for a descriptor beyond its sets.
Selectable(s) == s # server => sock[s] = "open" /\ s \notin far
AllSelectable == \A i \in 1 .. Len(list) : Selectable(list[i])

SelectRaises ==
  /\ pc = "select"
  /\ ~AllSelectable
  /\ pc' = "dead"
  /\ UNCHANGED <<limits, list, todo, cast, sock, far, kernel, history>>

\* The sockets that are ready come in the order of the list.
Select ==
  /\ pc = "select"
  /\ AllSelectable
  /\ ReadyAt # {}
  /\ \E at \in [1 .. Cardinality(ReadyAt) -> ReadyAt] :
       /\ \A k, l \in DOMAIN at : k < l => at[k] < at[l]
       /\ todo' = [k \in DOMAIN at |-> list[at[k]]]
  /\ pc' = "handle"
  /\ UNCHANGED <<limits, list, cast, sock, far, kernel, history>>

\* What follows a handler: the next socket of read_sockets, or select.
ContinueWith(rest) == pc' = IF rest = <<>> THEN "select" ELSE "handle"

\* broadcast_data(s, ...) is called; fatal is whether in the except clause.
Calls(s, fatal) ==
  /\ pc' = "call"
  /\ cast' = [sock |-> s, at |-> 1, fatal |-> fatal]

Handles(s) == pc = "handle" /\ Head(todo) = s /\ todo' = Tail(todo)

Open == { c \in Conns : sock[c] = "open" }

\* accept is not in the try: without a descriptor it ends the program.
AcceptFails ==
  /\ Handles(server)
  /\ Cardinality(Open) >= limits.fds
  /\ pc' = "dead"
  /\ UNCHANGED <<limits, list, cast, sock, far, kernel, history>>

\* The descriptor is the lowest that is free.
Accept ==
  /\ Handles(server)
  /\ Cardinality(Open) < limits.fds
  /\ LET c == Head(queue) IN
       /\ list' = Append(list, c)
       /\ sock' = [sock EXCEPT ![c] = "open"]
       /\ far' = IF Cardinality(Open \ far) < limits.select THEN far ELSE far \cup {c}
       /\ joined' = [joined EXCEPT ![c] = Len(log)]
       /\ Calls(c, FALSE)
  /\ queue' = Tail(queue)
  /\ UNCHANGED <<limits, tcp, inq, said, heard, taken, log>>

\* recv fails on a socket that an earlier broadcast of this round has closed,
\* and on a reset connection unless its FIN came first; getpeername fails on
\* a reset connection in any case.
Raises(c) ==
  \/ sock[c] = "closed"
  \/ tcp[c] = "reset"
  \/ tcp[c] = "finreset" /\ inq[c] > 0

Receive(c) ==
  /\ Handles(c)
  /\ ~Raises(c)
  /\ \E n \in 1 .. RecvMax : n <= inq[c] /\ inq' = [inq EXCEPT ![c] = @ - n]
  /\ Calls(c, FALSE)
  /\ UNCHANGED <<limits, list, sock, far, tcp, queue, said, heard, taken, history>>

EmptyBreaks(c) ==
  /\ pc = "handle" /\ Head(todo) = c
  /\ ~Raises(c) /\ inq[c] = 0
  /\ todo' = <<>>
  /\ pc' = "select"
  /\ UNCHANGED <<limits, list, cast, sock, far, kernel, history>>
\* No data and no exception: nothing is done, and the socket stays.
ReceiveNothing(c) ==
  /\ Handles(c)
  /\ ~Raises(c)
  /\ inq[c] = 0
  /\ ContinueWith(todo')
  /\ UNCHANGED <<limits, list, cast, sock, far, kernel, history>>

ReceiveFails(c) ==
  /\ Handles(c)
  /\ Raises(c)
  /\ Calls(c, TRUE)
  /\ UNCHANGED <<limits, list, sock, far, kernel, history>>

-----------------------------------------------------------------------------
(***************************************************************************)
(* broadcast_data.                                                         *)
(***************************************************************************)
Call ==
  /\ pc = "call"
  /\ pc' = "sending"
  /\ log' = Append(log, cast.sock)
  /\ UNCHANGED <<limits, list, todo, cast, sock, far, kernel, joined>>

Turn(d) == pc = "sending" /\ cast.at <= Len(list) /\ list[cast.at] = d
NextTurn == cast' = [cast EXCEPT !.at = @ + 1]

Excepted(d) == d \in {server, cast.sock}

PassOver(d) ==
  /\ Turn(d)
  /\ Excepted(d)
  /\ NextTurn
  /\ UNCHANGED <<limits, pc, list, todo, sock, far, kernel, history>>

SendOrDrop(d) ==
  /\ Turn(d)
  /\ ~Excepted(d)
  /\ tcp[d] \in {"estab", "fin"}
  /\ heard' = IF Len(heard[d]) - taken[d] < Window
              THEN [heard EXCEPT ![d] = Append(@, Len(log))] ELSE heard
  /\ NextTurn
  /\ UNCHANGED <<limits, pc, list, todo, sock, far, tcp, queue, inq, said, taken, history>>

\* The call blocks while there is no room.
Send(d) ==
  /\ Turn(d)
  /\ ~Excepted(d)
  /\ tcp[d] \in {"estab", "fin"}
  /\ Len(heard[d]) - taken[d] < Window
  /\ heard' = [heard EXCEPT ![d] = Append(@, Len(log))]
  /\ NextTurn
  /\ UNCHANGED <<limits, pc, list, todo, sock, far, tcp, queue, inq, said, taken, history>>

\* CONNECTION_LIST.remove(socket): the first one goes, if there is one.
StaysListed(d) == list
Without(d) ==
  LET at == { i \in 1 .. Len(list) : list[i] = d }
      first == CHOOSE i \in at : \A j \in at : i <= j
  IN IF at = {} THEN list
     ELSE [i \in 1 .. Len(list) - 1 |-> IF i < first THEN list[i] ELSE list[i + 1]]

SendFailsLeaks(d) ==
  /\ Turn(d)
  /\ ~Excepted(d)
  /\ tcp[d] \in {"reset", "finreset"}
  /\ list' = Without(d)
  /\ NextTurn
  /\ UNCHANGED <<limits, pc, todo, sock, far, tcp, queue, inq, said, heard, taken, history>>
\* The next turn is that of the next index, in a list that has become shorter.
SendFails(d) ==
  /\ Turn(d)
  /\ ~Excepted(d)
  /\ tcp[d] \in {"reset", "finreset"}
  /\ sock' = [sock EXCEPT ![d] = "closed"]
  /\ far' = far \ {d}
  /\ list' = Without(d)
  /\ inq' = [inq EXCEPT ![d] = 0]
  /\ NextTurn
  /\ UNCHANGED <<limits, pc, todo, tcp, queue, said, heard, taken, history>>

\* After a broadcast in the except clause the socket is closed and removed, if
\* it still is in the list, and a word that is no name ends the program.
Return ==
  /\ pc = "sending"
  /\ cast.at > Len(list)
  /\ IF cast.fatal
       THEN /\ pc' = "dead"
            /\ sock' = [sock EXCEPT ![cast.sock] = "closed"]
            /\ far' = far \ {cast.sock}
            /\ list' = Without(cast.sock)
       ELSE ContinueWith(todo) /\ UNCHANGED <<sock, far, list>>
  /\ cast' = IF cast.fatal THEN cast ELSE NoCast
  /\ UNCHANGED <<limits, todo, kernel, history>>

Server ==
  \/ Select \/ SelectRaises \/ Accept \/ AcceptFails \/ Call \/ Return
  \/ \E c \in Conns : Receive(c) \/ ReceiveNothing(c) \/ ReceiveFails(c)
  \/ \E d \in Conns \cup {server} : PassOver(d) \/ Send(d) \/ SendFails(d)

-----------------------------------------------------------------------------
(***************************************************************************)
(* The chat clients and the network.                                       *)
(***************************************************************************)
Connect(c) ==
  /\ tcp[c] = "idle"
  /\ pc # "dead"
  /\ Len(queue) < Backlog
  /\ tcp' = [tcp EXCEPT ![c] = "estab"]
  /\ queue' = Append(queue, c)
  /\ UNCHANGED <<python, inq, said, heard, taken, history>>

\* A line is read from the terminal and sent.  (What is typed after the end of
\* the server reaches nobody and is left out.)
Say(c) ==
  /\ tcp[c] = "estab"
  /\ pc # "dead"
  /\ said < MaxSay
  /\ said' = said + 1
  /\ inq' = [inq EXCEPT ![c] = @ + 1]
  /\ UNCHANGED <<python, tcp, queue, heard, taken, history>>

Read(c) ==
  /\ tcp[c] = "estab"
  /\ taken[c] < Len(heard[c])
  /\ taken' = [taken EXCEPT ![c] = @ + 1]
  /\ UNCHANGED <<python, tcp, queue, inq, said, heard, history>>

\* The program ends by Ctrl-C.  Its kernel sends a RST when something is unread.
Leave(c) ==
  /\ pc # "dead"
  /\ tcp[c] = "estab"
  /\ tcp' = [tcp EXCEPT ![c] = IF taken[c] < Len(heard[c]) THEN "reset" ELSE "fin"]
  /\ UNCHANGED <<python, queue, inq, said, heard, taken, history>>

\* What is written to a program that has ended is answered with a RST.
ResetArrives(c) ==
  /\ tcp[c] = "fin"
  /\ taken[c] < Len(heard[c])
  /\ tcp' = [tcp EXCEPT ![c] = "finreset"]
  /\ UNCHANGED <<python, queue, inq, said, heard, taken, history>>

\* The end of the server: recv returns nothing, or fails; the client exits.
End(c) ==
  /\ pc = "dead"
  /\ tcp[c] = "estab"
  /\ tcp' = [tcp EXCEPT ![c] = "over"]
  /\ UNCHANGED <<python, queue, inq, said, heard, taken, history>>

Program(c) ==
  Connect(c) \/ Say(c) \/ Read(c) \/ Leave(c) \/ ResetArrives(c) \/ End(c)

Next == Server \/ \E c \in Conns : Program(c)

Spec == Init /\ [][Next]_vars

\* The server runs when it can, the clients read what has come, and a RST that
\* is due arrives.
FairSpec ==
  /\ Spec
  /\ WF_vars(Server)
  /\ \A c \in Conns : WF_vars(Read(c)) /\ WF_vars(ResetArrives(c))

-----------------------------------------------------------------------------
Listed == { c \in Conns : \E i \in 1 .. Len(list) : list[i] = c }
Closed == { c \in Conns : sock[c] = "closed" }

\* Indexes, lists and counters have their types, and no send goes ahead of a
\* client by more than its connection holds (send blocks).
TypeOK ==
  /\ limits \in Limits
  /\ pc \in Places
  /\ list \in Seq(Conns \cup {server}) /\ todo \in Seq(Conns \cup {server})
  /\ cast \in [sock : Conns \cup {server}, at : Nat \ {0}, fatal : BOOLEAN]
  /\ sock \in [Conns -> {"none", "open", "closed"}] /\ far \subseteq Conns
  /\ tcp \in [Conns -> TcpStates]
  /\ queue \in Seq(Conns) /\ Len(queue) <= Backlog
  /\ said \in 0 .. MaxSay /\ inq \in [Conns -> 0 .. said]
  /\ heard \in [Conns -> Seq(1 .. Len(log))] /\ taken \in [Conns -> Nat]
  /\ \A c \in Conns : taken[c] <= Len(heard[c]) /\ Len(heard[c]) - taken[c] <= Window
  /\ log \in Seq(Conns) /\ joined \in [Conns -> 0 .. Len(log)]

\* The list holds the listening socket and every open socket once, and no
\* closed one, at whatever point of a round or a broadcast sockets were
\* closed: select never meets a closed socket, which would raise.
ListIsOpen ==
  pc # "dead" =>
    /\ list[1] = server
    /\ \A c \in Conns : c \in Listed <=> sock[c] = "open"
    /\ \A i, j \in 1 .. Len(list) : list[i] = list[j] => i = j

\* The messages that d is to hear, and those it has been passed by with.
Feed(d) == { n \in 1 .. Len(log) : n > joined[d] /\ log[n] # d }
UnderWay == IF pc = "sending" THEN Len(log) ELSE 0
Missed(d) ==
  { n \in Feed(d) \ {UnderWay} : \A i \in 1 .. Len(heard[d]) : heard[d][i] # n }

\* Each broken connection that a broadcast removes costs one other client one
\* message and no more (removal moves the list under the loop's index).
OneMissPerRemoval ==
  Cardinality(UNION { {<<n, d>> : n \in Missed(d)} : d \in Listed })
    <= Cardinality(Closed)

\* The server ends at the word that is no name only for a connection that was
\* reset: by a client that left something unread, or by one that had left and
\* was then written to.  It ends by accept or select only when the room is full:
\* every descriptor is that of a listed client, or a client got one beyond
\* select's sets.  What was closed and removed in a broadcast never does it.
EndsOnlyIf ==
  pc = "dead" =>
    IF cast.fatal THEN tcp[cast.sock] \in {"reset", "finreset"}
    ELSE Cardinality(Listed) >= limits.fds \/ far \cap Listed # {}

\* As long as all clients read, what a client says is received, though sockets
\* at their end come back from every select.
SaidIsReceived == \A c \in Conns : inq[c] > 0 ~> (inq[c] = 0 \/ pc = "dead")

=============================================================================
