------------------------- MODULE FireServerProperties -------------------------
(***************************************************************************)
(* What makes fireServer.c correct, stated over the model in FireServer.   *)
(***************************************************************************)
EXTENDS FireServer

Types ==
  /\ proc \in {"running", "killed", "exited"}
  /\ clients \subseteq Conns
  /\ fd \in [Conns -> Fds \cup {NoFd}]
  /\ bev \in [Conns -> {"none", "live", "finalizing", "freed"}]
  /\ out \in [Conns -> Seq(Nat)]
  /\ sock \in [Fds -> Conns \cup {None}]
  /\ evmap \in [Fds -> SUBSET (Conns \X Dirs)]
  /\ interest \in [Fds -> SUBSET Dirs]
  /\ active \subseteq Conns \X Dirs
  /\ accepting \in BOOLEAN
  /\ log \in Seq(Conns)
  /\ joined \in [Conns -> Nat]
  /\ stream \in [Conns -> Seq(Nat)]
  /\ tcp \in [Conns -> TcpStates]
  /\ backlog \in Seq(Conns)
  /\ sent \in 0 .. MaxSend
  /\ inq \in [Conns -> Nat]
  /\ taken \in [Conns -> Nat]

\* The bounds that TCP and the model put on the network's part of the state.
WithinLimits ==
  \A c \in Conns : /\ inq[c] <= sent
                   /\ taken[c] <= Len(stream[c])
                   /\ Len(stream[c]) - taken[c] <= SndBuf

\* Every variable has its type, a socket never holds more than its buffer
\* (bufferevent_writecb writes no more than the socket takes), and a peer has
\* read no more than was written to it.
TypeOK == Types /\ WithinLimits

-----------------------------------------------------------------------------
(***************************************************************************)
(* Descriptors and memory.                                                 *)
(***************************************************************************)

\* The open descriptors are those of the listed clients, one each: none is
\* leaked when a client goes, none is closed under a client (close in
\* buffered_on_error, accept in on_accept).
FdOwnership ==
  /\ \A c \in clients : fd[c] \in Fds /\ sock[fd[c]] = c
  /\ \A f \in Fds : sock[f] # None => sock[f] \in clients /\ fd[sock[f]] = f

\* Every listed client has a bufferevent that is alive, and every bufferevent
\* that is alive belongs to a listed client: the fan-out of buffered_on_read
\* never touches freed memory, and nothing is left behind.
ListIsLive == \A c \in Conns : c \in clients <=> bev[c] = "live"

\* Every event in the io map or on the active queue belongs to a listed client
\* and sits in the slot of its descriptor: no callback runs for a client that
\* buffered_on_error has freed, nor for the next owner of its descriptor.
EventsOfClients ==
  /\ \A f \in Fds : \A e \in evmap[f] : e[1] \in clients /\ fd[e[1]] = f
  /\ \A e \in active : e[1] \in clients /\ e \in evmap[fd[e[1]]]

\* The kernel watches exactly the directions the io map has events for.  A
\* direction the map holds and the kernel does not would leave a client deaf
\* or dumb for ever, the reverse would spin the loop.
KernelAgrees == \A f \in Fds : interest[f] = Watched(evmap[f])

\* A client's write event is in the io map only while its output evbuffer
\* holds something, and always then if the client is read from: outbuf_cb's
\* add, whose failure nobody looks at, cannot fail for a client that has its
\* read event, even when memory runs out.
EventsArmed ==
  \A c \in clients :
    LET E == evmap[fd[c]] IN
    /\ <<c, "W">> \in E => out[c] # <<>>
    /\ <<c, "R">> \in E /\ out[c] # <<>> => <<c, "W">> \in E

\* Where memory does not fail, every client is read from for as long as it is
\* listed, through every write event added and deleted in its slot.  Where it
\* does, on_accept lists clients that it will never hear.
NoneDeaf == \A c \in clients : <<c, "R">> \in evmap[fd[c]]

\* A callback that is about to run has something to do, whatever the peer did
\* since epoll_wait returned: the loop neither spins nor blocks in a callback.
CallbacksHaveWork ==
  /\ accepting => backlog # <<>>
  /\ \A c \in Conns :
       /\ <<c, "R">> \in active => inq[c] > 0 \/ AtEnd(c)
       /\ <<c, "W">> \in active => out[c] # <<>> /\ (Broken(c) \/ Room(c) > 0)

-----------------------------------------------------------------------------
(***************************************************************************)
(* Delivery.                                                               *)
(***************************************************************************)

\* The units given to c, written or not.
Given(c) == stream[c] \o out[c]

\* What c is to be given: the units of the others read since it was inserted.
Owed(c) == { n \in 1 .. Len(log) : n > joined[c] /\ log[n] # c }

\* Nobody is given a unit twice, out of order, of its own, or from before it
\* came (TAILQ_FOREACH in buffered_on_read; evbuffer_drain after each write),
\* even when malloc fails and some units are dropped.
InOrder ==
  \A c \in Conns :
    /\ \A i \in 1 .. Len(Given(c)) : Given(c)[i] \in Owed(c)
    /\ \A i, j \in 1 .. Len(Given(c)) : i < j => Given(c)[i] < Given(c)[j]

\* "send it to all connected clients" (fireServer.c:91): as long as a client
\* is listed, it has been given every unit it is owed.
Complete ==
  \A c \in clients : \A n \in Owed(c) :
    \E i \in 1 .. Len(Given(c)) : Given(c)[i] = n

\* What was written to a client, even one that has gone, has no hole in it.
NoHole ==
  \A c \in Conns : \A i \in 1 .. Len(stream[c]) : \A n \in Owed(c) :
    n < stream[c][i] => \E j \in 1 .. Len(stream[c]) : stream[c][j] = n

\* A client whose connection is sound goes only when everything it sent before
\* closing has been read: its last words are not lost (bufferevent_readcb
\* reports the end of file only on an empty receive queue).
LastWordsHeard ==
  [][\A c \in clients : c \notin clients' /\ ~Broken(c) => inq[c] = 0]_vars

\* The server as a broadcast room: the contract of module Broadcast.
Room_ == INSTANCE Broadcast WITH
           Client <- Conns,
           members <- IF proc = "running" THEN clients ELSE {},
           heard <- stream

IsBroadcast == Room_!Spec

\* "Client socket error, disconnecting." (fireServer.c:123): an error on one
\* client's socket costs that client, and never the server.
ErrorOnlyDisconnects == proc = "running"

-----------------------------------------------------------------------------
(***************************************************************************)
(* Progress, under FairSpec.                                               *)
(***************************************************************************)
Down == proc # "running"

\* A unit in the output evbuffer of a client that keeps reading is written,
\* unless the client goes: the peers that do not read hold up nobody else.
AttentiveHear ==
  \A c \in Attentive : \A n \in 1 .. MaxSend :
    (\E i \in 1 .. Len(out[c]) : out[c][i] = n)
      ~> (Down \/ c \notin clients
               \/ \E i \in 1 .. Len(stream[c]) : stream[c][i] = n)

\* What a client sent is read, or the client goes.
SentIsRead ==
  \A c \in Conns : (c \in clients /\ inq[c] > 0)
                      ~> (Down \/ c \notin clients \/ inq[c] = 0)

\* The client and the bufferevent of a connection that has ended are freed.
GoneIsFreed ==
  \A c \in Conns : (c \in clients /\ tcp[c] # "estab")
                      ~> (Down \/ bev[c] = "freed")

\* A queued connection is accepted, unless the descriptors run out.
QueuedIsAccepted ==
  \A c \in Conns : (\E i \in 1 .. Len(backlog) : backlog[i] = c)
                      ~> (Down \/ bev[c] # "none" \/ FreeFds = {})

=============================================================================
