------------------------------ MODULE FireServer ------------------------------
(***************************************************************************)
(* fireServer.c: the communication server of Merlin.C, over the parts of   *)
(* libevent 2.1.8 it is linked with (epoll back end, one thread).          *)
(*                                                                         *)
(* The server accepts TCP connections, keeps a list of clients, and gives  *)
(* what it reads from one client to the bufferevents of all the others.    *)
(* One step of the model is one call of epoll_wait or one callback of the  *)
(* event loop: a callback runs to its end before anything else of the      *)
(* process does, but the peers and the kernel move between any two.        *)
(*                                                                         *)
(* Data is counted in units: blocks of bytes of one sender, named by their *)
(* position in "log", the order in which the server read them.             *)
(***************************************************************************)
EXTENDS Naturals, Sequences, FiniteSets

CONSTANTS
  Conns,          \* the TCP connections that may ever be made
  None,           \* what an entry of the descriptor table that is closed holds
  Fds,            \* the descriptors the process has left for its clients
  ReadMax,        \* units one read callback takes from a socket
  WriteMax,       \* units one write callback may give to a socket
  SndBuf,         \* units a connection holds between server and peer program
  Backlog,        \* connections the listening socket queues
  PollMax,        \* descriptors one call of epoll_wait reports
  MaxSend,        \* bound: units the peers send in all
  MemoryMayFail,  \* whether malloc may return NULL, and the kernel ENOMEM
  Attentive       \* the connections whose peers keep reading what they are sent

ASSUME LimitsAssumption ==
  /\ {ReadMax, WriteMax, SndBuf, Backlog, PollMax} \subseteq Nat \ {0}
  /\ MaxSend \in Nat

ASSUME FdsAssumption == Fds \subseteq Nat \ {0}

ASSUME NoneAssumption == None \notin Conns

ASSUME AttentiveAssumption == Attentive \subseteq Conns

ASSUME MemoryAssumption == MemoryMayFail \in BOOLEAN

\* client->fd of a connection that has no client structure.
NoFd == 0

Dirs == {"R", "W"}

VARIABLES
  proc,       \* the process: "running", "killed" by a signal or "exited"
  clients,    \* client_tailq_head: the connections with a client structure
  fd,         \* client->fd
  bev,        \* client->buf_ev: its life
  out,        \* output evbuffer of buf_ev: the units not yet written
  sock,       \* descriptor table: the connection an open descriptor refers to
  evmap,      \* event_base's io map: the events added on each descriptor
  interest,   \* the epoll set in the kernel: directions watched, by descriptor
  active,     \* I/O callbacks of clients on the active queue
  accepting,  \* whether ev_accept is on the active queue
  log,        \* history: the sender of every unit read so far
  joined,     \* history: the length of log when the client was inserted
  stream,     \* history: units handed to the connection's socket
  tcp,        \* the connection, as the server's kernel sees it
  backlog,    \* the accept queue of the listening socket
  sent,       \* how many units the peers have sent
  inq,        \* how many of a peer's are in the socket's receive queue
  taken       \* how many units of stream the peer program has read

server  == <<proc, clients, fd, bev, out, sock>>
base    == <<evmap, interest, active, accepting>>
history == <<log, joined, stream>>
network == <<tcp, backlog, sent, inq, taken>>
vars    == <<server, base, history, network>>

(***************************************************************************)
(* tcp: "idle" before the connection, "estab" with both ends up, "fin"     *)
(* when the peer closed, "reset" when a RST came first (the next call on   *)
(* the socket gives ECONNRESET) and "pipe" when a RST came after the FIN   *)
(* (a write gives EPIPE, and with it SIGPIPE).                             *)
(***************************************************************************)
TcpStates == {"idle", "estab", "fin", "reset", "pipe"}
Broken(c) == tcp[c] \in {"reset", "pipe"}

\* The room left for what the server writes to c.
Room(c) == SndBuf - (Len(stream[c]) - taken[c])

Least(m, n) == IF m <= n THEN m ELSE n

\* Before anybody connects.
NobodyYet ==
  /\ clients = {}
  /\ fd = [c \in Conns |-> NoFd]
  /\ bev = [c \in Conns |-> "none"]
  /\ out = [c \in Conns |-> <<>>]
  /\ sock = [f \in Fds |-> None]
  /\ evmap = [f \in Fds |-> {}]
  /\ interest = [f \in Fds |-> {}]
  /\ active = {}
  /\ accepting = FALSE
  /\ log = <<>>
  /\ joined = [c \in Conns |-> 0]
  /\ stream = [c \in Conns |-> <<>>]
  /\ tcp = [c \in Conns |-> "idle"]
  /\ backlog = <<>>
  /\ sent = 0
  /\ inq = [c \in Conns |-> 0]
  /\ taken = [c \in Conns |-> 0]

Init == proc = "running" /\ NobodyYet

-----------------------------------------------------------------------------
(***************************************************************************)
(* libevent: the io map and the epoll set.  An event is <<c, d>>: the read *)
(* ("R") or write ("W") event of c's bufferevent.                          *)
(***************************************************************************)
EventsOf(c) == {c} \X Dirs
Watched(E)  == { e[2] : e \in E }

\* evmap_io_add_ links the events of E, of clients with descriptors fds, into
\* the slots of their descriptors, and calls epoll_ctl for a direction only
\* when its count in the slot goes from 0 to 1.
EventsOn(f, E, fds) == { e \in E : fds[e[1]] = f }
EvmapWith(E, fds)   == [f \in Fds |-> evmap[f] \cup EventsOn(f, E, fds)]
InterestWith(E, fds) ==
  [f \in Fds |-> interest[f] \cup
                   (Watched(EventsOn(f, E, fds)) \ Watched(evmap[f]))]

\* Only the first event of a descriptor needs memory, for its slot and for the
\* kernel's entry, and evmap_io_add_ may return -1 for want of it.
AddMayFail(f) == MemoryMayFail /\ evmap[f] = {}

\* evmap_io_del_ unlinks the events of E, and calls epoll_ctl for a direction
\* whose count goes from 1 to 0.
InterestKept(E) == interest
EvmapWithout(E) == [f \in Fds |-> evmap[f] \ E]
InterestWithout(E) ==
  [f \in Fds |-> interest[f] \ (Watched(evmap[f] \cap E) \ Watched(evmap[f] \ E))]

\* What the kernel sees on a connection: data or the end of it to read, room
\* for what is written.
Readable(c) == inq[c] > 0 \/ tcp[c] # "estab"
Writable(c) == Room(c) > 0

\* What epoll_wait reports of descriptor f: errors and hang-ups whatever the
\* interest is, as both directions.
Reported(f) ==
  IF interest[f] = {} \/ sock[f] = None THEN {}
  ELSE IF Broken(sock[f]) THEN Dirs
  ELSE { d \in interest[f] : \/ (d = "R" /\ Readable(sock[f]))
                             \/ (d = "W" /\ Writable(sock[f])) }

Ready == { f \in Fds : Reported(f) # {} }

\* evmap_io_active_: the events of a slot that the report concerns.
ActivatedAll(f) == IF Reported(f) = {} THEN {} ELSE evmap[f]
Activated(f) == { e \in evmap[f] : e[2] \in Reported(f) }

\* The read event of the listening socket, ev_accept, is level-triggered.
AcceptableOnEdge == Len(backlog) = 1
Acceptable == backlog # <<>>

Finalizing == { c \in Conns : bev[c] = "finalizing" }

(***************************************************************************)
(* event_base_loop calls epoll_dispatch when the active queue is empty.    *)
(* epoll_wait blocks until something is ready, and reports all that is     *)
(* ready unless its array is full.  The order of the callbacks that one    *)
(* call activates is the kernel's: "active" is a set, and the next         *)
(* callback is any of them, but the write event of a descriptor comes      *)
(* before its read event (evmap slots are LIST_INSERT_HEADed, and the read *)
(* event is added first, by on_accept).                                    *)
(***************************************************************************)
Poll ==
  /\ proc = "running"
  /\ active = {} /\ ~accepting /\ Finalizing = {}
  /\ \E F \in SUBSET Ready, a \in BOOLEAN :
       LET reports == Cardinality(F) + (IF a THEN 1 ELSE 0) IN
       /\ a => Acceptable
       /\ reports \in 1 .. PollMax
       /\ (F = Ready /\ a = Acceptable) \/ reports = PollMax
       /\ accepting' = a
       /\ active' = UNION { Activated(f) : f \in F }
  /\ UNCHANGED <<server, evmap, interest, history, network>>

-----------------------------------------------------------------------------
(***************************************************************************)
(* on_accept, the callback of the listening socket.                        *)
(***************************************************************************)
FreeFds == { f \in Fds : sock[f] = None }

\* accept fails for want of a descriptor: warn and return.  The connection
\* stays in the queue, and the socket stays readable.
AcceptFails ==
  /\ FreeFds = {}
  /\ UNCHANGED <<server, evmap, interest, active, history, network>>

\* bufferevent_enable(buf_ev, EV_READ).
NeverEnabled(c) == {}
Enabled(c) == {<<c, "R">>}

\* accept returns the lowest descriptor, whatever became of the connection in
\* the queue; the client gets a bufferevent, its read event is added (or not:
\* bufferevent_enable's result is not looked at), and it takes its place in
\* the list.
Accept(c) ==
  /\ backlog' = Tail(backlog)
  /\ \E f \in FreeFds :
       /\ \A g \in FreeFds : f <= g
       /\ sock' = [sock EXCEPT ![f] = c]
       /\ fd' = [fd EXCEPT ![c] = f]
  /\ bev' = [bev EXCEPT ![c] = "live"]
  /\ \E added \in {Enabled(c), {}} :
       /\ added = Enabled(c) \/ AddMayFail(fd'[c])
       /\ evmap' = EvmapWith(added, fd')
       /\ interest' = InterestWith(added, fd')
  /\ clients' = clients \cup {c}
  /\ joined' = [joined EXCEPT ![c] = Len(log)]
  /\ UNCHANGED <<proc, out, active, log, stream, tcp, sent, inq, taken>>

\* calloc returns NULL: err(1, ...).  bufferevent_socket_new returns NULL: the
\* calls that follow dereference it.
AcceptOutOfMemory ==
  /\ MemoryMayFail
  /\ FreeFds # {}
  /\ proc' \in {"exited", "killed"}
  /\ UNCHANGED <<clients, fd, bev, out, sock, evmap, interest, active,
                 history, network>>

RunAccept ==
  /\ proc = "running"
  /\ accepting
  /\ accepting' = FALSE
  /\ \/ AcceptFails
     \/ Accept(Head(backlog))
     \/ AcceptOutOfMemory

-----------------------------------------------------------------------------
(***************************************************************************)
(* buffered_on_error, and what libevent does when it returns: the client   *)
(* leaves the list, bufferevent_free gives up the user's reference, close  *)
(* makes the kernel forget the descriptor; then the last reference goes,   *)
(* the events are deleted (with what they had on the active queue) and the *)
(* finalizer is queued behind every callback already active.               *)
(***************************************************************************)
StillListed(c) == clients
Removed(c) == clients \ {c}

LeakedSock(f) == sock
ClosedSock(f) == [sock EXCEPT ![f] = None]

CancelledWrite(c) == active \ {<<c, "W">>}
Cancelled(c) == active \ EventsOf(c)

Disconnect(c) ==
  /\ clients' = Removed(c)
  /\ sock' = ClosedSock(fd[c])
  /\ fd' = [fd EXCEPT ![c] = NoFd]
  /\ evmap' = EvmapWithout(EventsOf(c))
  /\ interest' = [interest EXCEPT ![fd[c]] = {}]
  /\ active' = Cancelled(c)
  /\ bev' = [bev EXCEPT ![c] = "finalizing"]
  /\ UNCHANGED <<proc, out, accepting, history, network>>

\* bufferevent_finalize_cb_ frees the bufferevent and its evbuffers.
RunFinal(c) ==
  /\ proc = "running"
  /\ active = {} /\ ~accepting
  /\ bev[c] = "finalizing"
  /\ bev' = [bev EXCEPT ![c] = "freed"]
  /\ out' = [out EXCEPT ![c] = <<>>]
  /\ UNCHANGED <<proc, clients, fd, sock, base, history, network>>

-----------------------------------------------------------------------------
(***************************************************************************)
(* bufferevent_readcb, with buffered_on_read inside it: one callback makes *)
(* one read, and all it got is written to the bufferevents of the other    *)
(* clients before it returns.                                              *)
(***************************************************************************)
ReadDue(c) ==
  /\ proc = "running"
  /\ <<c, "R">> \in active /\ <<c, "W">> \notin active

Everyone(c) == clients
Recipients(c) == clients \ {c}

FirstUnit(k) == <<Len(log) + 1>>
NewUnits(k) == [i \in 1 .. k |-> Len(log) + i]

\* outbuf_cb adds the write event of every bufferevent that was given data; an
\* add that fails leaves the data where it is.
ArmedNever(S) == {}
Armed(S) == { <<d, "W">> : d \in S }

\* evbuffer_read finds data.  evbuffer_add gives a bufferevent all of it or,
\* when malloc fails, nothing: bufferevent_write's result is not looked at.
Relay(c) ==
  /\ ReadDue(c)
  /\ inq[c] > 0
  /\ \E given \in SUBSET Recipients(c) : \E armed \in SUBSET given :
       LET k == Least(inq[c], ReadMax) IN
       /\ MemoryMayFail \/ given = Recipients(c)
       /\ \A d \in given \ armed : AddMayFail(fd[d])
       /\ log' = log \o [i \in 1 .. k |-> c]
       /\ out' = [d \in Conns |-> IF d \in given THEN out[d] \o NewUnits(k)
                                               ELSE out[d]]
       /\ evmap' = EvmapWith(Armed(armed), fd)
       /\ interest' = InterestWith(Armed(armed), fd)
       /\ inq' = [inq EXCEPT ![c] = @ - k]
  /\ active' = active \ {<<c, "R">>}
  /\ UNCHANGED <<proc, clients, fd, bev, sock, accepting, joined, stream,
                 tcp, backlog, sent, taken>>

\* evbuffer_read returns 0 or an error: the receive queue is empty and the
\* peer has closed, or the connection is broken.
AtEndOnClose(c) == tcp[c] # "estab"
AtEndOnError(c) == inq[c] = 0 /\ Broken(c)
AtEnd(c) == inq[c] = 0 /\ tcp[c] # "estab"

ReadEnds(c) ==
  /\ ReadDue(c)
  /\ AtEnd(c)
  /\ Disconnect(c)

\* evbuffer_read cannot make room for what is there to read.
ReadOutOfMemory(c) ==
  /\ MemoryMayFail
  /\ ReadDue(c)
  /\ inq[c] > 0
  /\ Disconnect(c)

-----------------------------------------------------------------------------
(***************************************************************************)
(* bufferevent_writecb.                                                    *)
(***************************************************************************)
WriteDue(c) ==
  /\ proc = "running"
  /\ <<c, "W">> \in active

\* The most units one call may hand to the socket.
MostWritten(c) == Least(Len(out[c]), Least(WriteMax, Room(c)))

\* What evbuffer_drain leaves in the output evbuffer.
Undrained(c, n) == out[c]
Unwritten(c, n) == SubSeq(out[c], n + 1, Len(out[c]))

\* The write event is deleted when the output evbuffer is empty.
AllWritten(c, n) == n = Len(out[c])

Flush(c) ==
  /\ WriteDue(c)
  /\ ~Broken(c)
  /\ \E n \in 1 .. MostWritten(c) :
       /\ stream' = [stream EXCEPT ![c] = @ \o SubSeq(out[c], 1, n)]
       /\ out' = [out EXCEPT ![c] = Unwritten(c, n)]
       /\ IF AllWritten(c, n)
          THEN /\ evmap' = EvmapWithout({<<c, "W">>})
               /\ interest' = InterestWithout({<<c, "W">>})
          ELSE UNCHANGED <<evmap, interest>>
  /\ active' = active \ {<<c, "W">>}
  /\ UNCHANGED <<proc, clients, fd, bev, sock, accepting, log, joined, network>>

\* ECONNRESET: the error callback.
WriteFails(c) ==
  /\ WriteDue(c)
  /\ tcp[c] = "reset"
  /\ Disconnect(c)

\* EPIPE: the kernel sends SIGPIPE with it, which nobody ignores or handles.
WriteKills(c) ==
  /\ WriteDue(c)
  /\ tcp[c] = "pipe"
  /\ proc' = "killed"
  /\ UNCHANGED <<clients, fd, bev, out, sock, base, history, network>>

-----------------------------------------------------------------------------
(***************************************************************************)
(* The peers and the network.  Nothing of it matters once the process is   *)
(* gone.                                                                   *)
(***************************************************************************)
PeerConnect(c) ==
  /\ proc = "running"
  /\ tcp[c] = "idle"
  /\ Len(backlog) < Backlog
  /\ tcp' = [tcp EXCEPT ![c] = "estab"]
  /\ backlog' = Append(backlog, c)
  /\ UNCHANGED <<server, base, history, sent, inq, taken>>

PeerSend(c) ==
  /\ proc = "running"
  /\ tcp[c] = "estab"
  /\ sent < MaxSend
  /\ sent' = sent + 1
  /\ inq' = [inq EXCEPT ![c] = @ + 1]
  /\ UNCHANGED <<server, base, history, tcp, backlog, taken>>

PeerRead(c) ==
  /\ proc = "running"
  /\ tcp[c] = "estab"
  /\ taken[c] < Len(stream[c])
  /\ taken' = [taken EXCEPT ![c] = @ + 1]
  /\ UNCHANGED <<server, base, history, tcp, backlog, sent, inq>>

\* The peer's FIN.  What is in flight to it then has not been read.
PeerClose(c) ==
  /\ proc = "running"
  /\ tcp[c] = "estab"
  /\ tcp' = [tcp EXCEPT ![c] = "fin"]
  /\ UNCHANGED <<server, base, history, backlog, sent, inq, taken>>

\* The peer closes with data it has not read, its host restarts, or the
\* connection times out.
PeerAbort(c) ==
  /\ proc = "running"
  /\ tcp[c] = "estab"
  /\ tcp' = [tcp EXCEPT ![c] = "reset"]
  /\ UNCHANGED <<server, base, history, backlog, sent, inq, taken>>

\* Data that reaches a peer that has closed is answered with a RST.
ResetArrives(c) ==
  /\ proc = "running"
  /\ tcp[c] = "fin"
  /\ taken[c] < Len(stream[c])
  /\ tcp' = [tcp EXCEPT ![c] = "pipe"]
  /\ UNCHANGED <<server, base, history, backlog, sent, inq, taken>>

-----------------------------------------------------------------------------
\* A step of the event loop.
Loop ==
  \/ Poll
  \/ RunAccept
  \/ \E c \in Conns :
       \/ Relay(c) \/ ReadEnds(c) \/ ReadOutOfMemory(c)
       \/ Flush(c) \/ WriteFails(c) \/ WriteKills(c)
       \/ RunFinal(c)

Peers ==
  \E c \in Conns :
    \/ PeerConnect(c) \/ PeerSend(c) \/ PeerRead(c)
    \/ PeerClose(c) \/ PeerAbort(c) \/ ResetArrives(c)

Next == Loop \/ Peers

Spec == Init /\ [][Next]_vars

\* The loop runs as long as it has something to do, and the attentive peers
\* read what they are sent; nothing is assumed of the others.
FairSpec ==
  /\ Spec
  /\ WF_vars(Loop)
  /\ \A c \in Attentive : WF_vars(PeerRead(c))

=============================================================================
