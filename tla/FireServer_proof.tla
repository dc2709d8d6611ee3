--------------------------- MODULE FireServer_proof ---------------------------
(***************************************************************************)
(* Proofs about FireServer, for any sets of connections and descriptors    *)
(* and any limits.                                                         *)
(***************************************************************************)
EXTENDS FireServerProperties, TLAPS

(***************************************************************************)
(* The type invariant is inductive with one more fact, which makes the     *)
(* head of the accept queue a connection when on_accept runs.              *)
(***************************************************************************)
AcceptHasWork == accepting => backlog # <<>>

TypeInv == TypeOK /\ AcceptHasWork

USE DEF NoFd, TypeOK

\* Before anybody connects, whether main has passed event_add or nobody has
\* started the server.
NothingYet == NobodyYet /\ proc \in {"running", "exited"}

LEMMA TypeStart == NothingYet => TypeInv
<1>. SUFFICES ASSUME NothingYet PROVE TypeInv
  OBVIOUS
<1>1. <<>> \in Seq(Nat) /\ <<>> \in Seq(Conns) /\ Len(<<>>) = 0
  OBVIOUS
<1>2. Types
  <2>1. /\ out \in [Conns -> Seq(Nat)] /\ stream \in [Conns -> Seq(Nat)]
        /\ log \in Seq(Conns) /\ backlog \in Seq(Conns)
    BY <1>1 DEF NothingYet, NobodyYet
  <2>2. /\ fd \in [Conns -> Fds \cup {NoFd}]
        /\ sock \in [Fds -> Conns \cup {None}]
        /\ evmap \in [Fds -> SUBSET (Conns \X Dirs)]
        /\ interest \in [Fds -> SUBSET Dirs]
    BY DEF NothingYet, NobodyYet
  <2>3. sent \in 0 .. MaxSend
    BY LimitsAssumption DEF NothingYet, NobodyYet
  <2>. QED  BY <2>1, <2>2, <2>3 DEF NothingYet, NobodyYet, Types, TcpStates
<1>3. WithinLimits
  BY <1>1, LimitsAssumption DEF NothingYet, NobodyYet, WithinLimits
<1>4. AcceptHasWork
  BY DEF NothingYet, NobodyYet, AcceptHasWork
<1>. QED  BY <1>2, <1>3, <1>4 DEF TypeInv, TypeOK

\* The initial state of main, after event_add, has the right type.
LEMMA TypeInit == Init => TypeInv
  BY TypeStart DEF Init, NothingYet

\* What the parts of a step on the io map and the epoll set give back.
LEMMA BaseTypes ==
  ASSUME Types, NEW E \in SUBSET (Conns \X Dirs), NEW fds
  PROVE  /\ EvmapWith(E, fds) \in [Fds -> SUBSET (Conns \X Dirs)]
         /\ InterestWith(E, fds) \in [Fds -> SUBSET Dirs]
         /\ EvmapWithout(E) \in [Fds -> SUBSET (Conns \X Dirs)]
         /\ InterestWithout(E) \in [Fds -> SUBSET Dirs]
<1>1. \A f \in Fds : EventsOn(f, E, fds) \subseteq Conns \X Dirs
  BY DEF EventsOn
<1>2. \A S \in SUBSET (Conns \X Dirs) : Watched(S) \subseteq Dirs
  BY DEF Watched
<1>3. EvmapWith(E, fds) \in [Fds -> SUBSET (Conns \X Dirs)]
  BY <1>1 DEF EvmapWith, Types, WithinLimits
<1>4. InterestWith(E, fds) \in [Fds -> SUBSET Dirs]
  <2>. SUFFICES ASSUME NEW f \in Fds
                PROVE  interest[f] \cup
                         (Watched(EventsOn(f, E, fds)) \ Watched(evmap[f])) \in SUBSET Dirs
    BY DEF InterestWith
  <2>. QED  BY <1>1, <1>2 DEF Types, WithinLimits
<1>5. EvmapWithout(E) \in [Fds -> SUBSET (Conns \X Dirs)]
  BY DEF EvmapWithout, Types, WithinLimits
<1>6. InterestWithout(E) \in [Fds -> SUBSET Dirs]
  BY DEF InterestWithout, Types, WithinLimits
<1>. QED  BY <1>3, <1>4, <1>5, <1>6

\* buffered_on_error and the end of the bufferevent keep the types.
LEMMA DisconnectType ==
  ASSUME TypeInv, NEW c \in Conns, Disconnect(c)
  PROVE  TypeInv'
<1>1. evmap' \in [Fds -> SUBSET (Conns \X Dirs)]
  <2>1. evmap' = EvmapWithout(EventsOf(c))
    BY DEF Disconnect
  <2>2. EventsOf(c) \in SUBSET (Conns \X Dirs)
    BY DEF EventsOf
  <2>3. Types
    BY DEF TypeInv
  <2>. QED  BY <2>1, <2>2, <2>3, BaseTypes
<1>2. /\ clients' \subseteq Conns /\ active' \subseteq Conns \X Dirs
      /\ bev' \in [Conns -> {"none", "live", "finalizing", "freed"}]
  BY DEF Disconnect, Removed, Cancelled, TypeInv, Types
<1>3. /\ sock' \in [Fds -> Conns \cup {None}]
      /\ fd' \in [Conns -> Fds \cup {NoFd}]
  BY DEF Disconnect, ClosedSock, TypeInv, Types
<1>4. interest' \in [Fds -> SUBSET Dirs]
  BY DEF Disconnect, TypeInv, Types
<1>5. UNCHANGED <<proc, out, accepting, history, network>>
  BY DEF Disconnect
<1>. QED
  BY <1>1, <1>2, <1>3, <1>4, <1>5
     DEF TypeInv, Types, WithinLimits, AcceptHasWork, history, network

\* Every step of the event loop and of the peers keeps the types.
LEMMA TypeNext == TypeInv /\ [Next]_vars => TypeInv'
<1>. SUFFICES ASSUME TypeInv, [Next]_vars PROVE TypeInv'
  OBVIOUS
<1>. USE DEF TypeInv
<1>1. CASE Poll
  <2>1. active' \subseteq Conns \X Dirs
    BY <1>1 DEF Poll, Activated, Ready, Types, WithinLimits
  <2>2. AcceptHasWork'
    BY <1>1 DEF Poll, Acceptable, AcceptHasWork, network
  <2>. QED
    BY <1>1, <2>1, <2>2 DEF Poll, Types, WithinLimits, server, history, network
<1>2. CASE RunAccept
  <2>1. Head(backlog) \in Conns /\ Tail(backlog) \in Seq(Conns)
    BY <1>2 DEF RunAccept, Types, WithinLimits, AcceptHasWork
  <2>2. CASE AcceptFails
    BY <1>2, <2>2 DEF RunAccept, AcceptFails, Types, WithinLimits, AcceptHasWork, server,
                      history, network
  <2>3. CASE AcceptOutOfMemory
    BY <1>2, <2>3 DEF RunAccept, AcceptOutOfMemory, Types, WithinLimits, AcceptHasWork,
                      history, network
  <2>4. CASE Accept(Head(backlog))
    <3>. DEFINE c == Head(backlog)
    <3>1. /\ Enabled(c) \in SUBSET (Conns \X Dirs)
          /\ {} \in SUBSET (Conns \X Dirs)
      BY <2>1 DEF Enabled, Dirs
    <3>2. /\ evmap' \in [Fds -> SUBSET (Conns \X Dirs)]
          /\ interest' \in [Fds -> SUBSET Dirs]
      <4>1. PICK added \in {Enabled(c), {}} : /\ evmap' = EvmapWith(added, fd')
                                             /\ interest' = InterestWith(added, fd')
        BY <2>4 DEF Accept
      <4>2. added \in SUBSET (Conns \X Dirs)
        BY <3>1
      <4>. HIDE DEF c
      <4>. QED  BY <4>1, <4>2, BaseTypes
    <3>3. Len(log) \in Nat
      BY DEF Types, WithinLimits
    <3>. HIDE DEF c
    <3>4. /\ sock' \in [Fds -> Conns \cup {None}]
          /\ fd' \in [Conns -> Fds \cup {NoFd}]
      <4>1. PICK f \in Fds : /\ sock' = [sock EXCEPT ![f] = c]
                             /\ fd' = [fd EXCEPT ![c] = f]
        BY <2>4 DEF Accept, FreeFds, c
      <4>2. c \in Conns
        BY <2>1 DEF c
      <4>. QED  BY <4>1, <4>2 DEF Types
    <3>5. /\ bev' \in [Conns -> {"none", "live", "finalizing", "freed"}]
          /\ clients' \subseteq Conns
          /\ joined' \in [Conns -> Nat]
          /\ backlog' \in Seq(Conns)
      BY <2>1, <2>4, <3>3 DEF Accept, Types, c
    <3>. QED
      BY <1>2, <2>4, <3>2, <3>4, <3>5 DEF RunAccept, Accept, Types, WithinLimits, AcceptHasWork
  <2>. QED  BY <1>2, <2>2, <2>3, <2>4 DEF RunAccept
<1>3. ASSUME NEW c \in Conns, Relay(c) PROVE TypeInv'
  <2>1. PICK given, armed \in SUBSET Recipients(c) :
          LET k == Least(inq[c], ReadMax) IN
          /\ log' = log \o [i \in 1 .. k |-> c]
          /\ out' = [d \in Conns |-> IF d \in given THEN out[d] \o NewUnits(k)
                                                    ELSE out[d]]
          /\ evmap' = EvmapWith(Armed(armed), fd)
          /\ interest' = InterestWith(Armed(armed), fd)
          /\ inq' = [inq EXCEPT ![c] = @ - k]
    BY <1>3 DEF Relay
  <2>. DEFINE k == Least(inq[c], ReadMax)
  <2>2. k \in Nat /\ k <= inq[c]
    BY LimitsAssumption DEF Least, Types, WithinLimits
  <2>3. NewUnits(k) \in Seq(Nat)
    <3>1. Len(log) \in Nat
      BY DEF Types
    <3>. QED  BY <2>2, <3>1 DEF NewUnits
  <2>4. [i \in 1 .. k |-> c] \in Seq(Conns)
    BY <2>2
  <2>5. Armed(armed) \in SUBSET (Conns \X Dirs)
    BY DEF Armed, Recipients, Types, WithinLimits, Dirs
  <2>6. /\ evmap' \in [Fds -> SUBSET (Conns \X Dirs)]
        /\ interest' \in [Fds -> SUBSET Dirs]
    BY <2>1, <2>5, BaseTypes
  <2>. HIDE DEF k
  <2>7. log' \in Seq(Conns) /\ out' \in [Conns -> Seq(Nat)]
    <3>1. log \in Seq(Conns) /\ \A d \in Conns : out[d] \in Seq(Nat)
      BY DEF Types
    <3>2. /\ log' = log \o [i \in 1 .. k |-> c]
          /\ out' = [d \in Conns |-> IF d \in given THEN out[d] \o NewUnits(k)
                                                    ELSE out[d]]
      BY <2>1 DEF k
    <3>3. \A d \in Conns : out[d] \o NewUnits(k) \in Seq(Nat)
      BY <2>3, <3>1
    <3>. QED  BY <2>4, <3>1, <3>2, <3>3
  <2>8. inq' \in [Conns -> Nat] /\ \A d \in Conns : inq'[d] <= inq[d]
    <3>1. inq' = [inq EXCEPT ![c] = @ - k] /\ inq \in [Conns -> Nat]
      BY <2>1 DEF Types, k
    <3>. QED  BY <2>2, <3>1
  <2>9. active' \subseteq Conns \X Dirs
    BY <1>3 DEF Relay, Types, WithinLimits
  <2>10. UNCHANGED <<proc, clients, fd, bev, sock, accepting, joined, stream,
                     tcp, backlog, sent, taken>>
    BY <1>3 DEF Relay
  <2>11. \A d \in Conns : inq'[d] <= sent'
    BY <2>8, <2>10 DEF Types, WithinLimits
  <2>12. Types'
    BY <2>6, <2>7, <2>8, <2>9, <2>10 DEF Types
  <2>. QED
    BY <2>10, <2>11, <2>12 DEF WithinLimits, AcceptHasWork
<1>4. ASSUME NEW c \in Conns, ReadEnds(c) \/ ReadOutOfMemory(c) \/ WriteFails(c)
      PROVE  TypeInv'
  BY <1>4, DisconnectType DEF ReadEnds, ReadOutOfMemory, WriteFails
<1>5. ASSUME NEW c \in Conns, Flush(c) PROVE TypeInv'
  <2>1. PICK n \in 1 .. MostWritten(c) :
          /\ stream' = [stream EXCEPT ![c] = @ \o SubSeq(out[c], 1, n)]
          /\ out' = [out EXCEPT ![c] = Unwritten(c, n)]
          /\ IF AllWritten(c, n)
             THEN /\ evmap' = EvmapWithout({<<c, "W">>})
                  /\ interest' = InterestWithout({<<c, "W">>})
             ELSE UNCHANGED <<evmap, interest>>
    BY <1>5 DEF Flush
  <2>2. /\ Len(out[c]) \in Nat
        /\ Len(stream[c]) \in Nat
        /\ taken[c] \in Nat
        /\ WriteMax \in Nat
        /\ SndBuf \in Nat
    BY LimitsAssumption DEF Types, WithinLimits
  <2>3. n \in Nat /\ 1 <= n /\ n <= Len(out[c])
        /\ n <= SndBuf - (Len(stream[c]) - taken[c])
    <3>1. n \in 1 .. MostWritten(c)
      BY <2>1
    <3>. QED  BY <2>2, <3>1 DEF MostWritten, Least, Room
  <2>4. SubSeq(out[c], 1, n) \in Seq(Nat) /\ Len(SubSeq(out[c], 1, n)) = n
    <3>1. out[c] \in Seq(Nat)
      BY DEF Types
    <3>. QED  BY <2>2, <2>3, <3>1, SMTT(30)
  <2>5. Unwritten(c, n) \in Seq(Nat)
    <3>1. out[c] \in Seq(Nat)
      BY DEF Types
    <3>2. n + 1 \in 1 .. Len(out[c]) + 1 /\ Len(out[c]) \in 0 .. Len(out[c])
      BY <2>2, <2>3
    <3>3. SubSeq(out[c], n + 1, Len(out[c])) \in Seq(Nat)
      BY <2>2, <2>3, <3>1, <3>2, SMTT(30)
    <3>. QED  BY <3>3 DEF Unwritten
  <2>6. stream' \in [Conns -> Seq(Nat)] /\ out' \in [Conns -> Seq(Nat)]
    <3>1. stream[c] \o SubSeq(out[c], 1, n) \in Seq(Nat)
      BY <2>4 DEF Types
    <3>. QED  BY <2>1, <2>5, <3>1 DEF Types
  <2>7. Len(stream'[c]) = Len(stream[c]) + n
    <3>1. stream[c] \in Seq(Nat) /\ stream'[c] = stream[c] \o SubSeq(out[c], 1, n)
      BY <2>1 DEF Types
    <3>. QED  BY <2>4, <3>1
  <2>8. \A d \in Conns : d # c => stream'[d] = stream[d]
    BY <2>1 DEF Types
  <2>9. UNCHANGED <<proc, clients, fd, bev, sock, accepting, log, joined,
                    tcp, backlog, sent, inq, taken>>
    BY <1>5 DEF Flush, network
  <2>10. \A d \in Conns : taken'[d] <= Len(stream'[d])
                          /\ Len(stream'[d]) - taken'[d] <= SndBuf
    <3>. SUFFICES ASSUME NEW d \in Conns
                  PROVE  taken'[d] <= Len(stream'[d])
                         /\ Len(stream'[d]) - taken'[d] <= SndBuf
      OBVIOUS
    <3>1. CASE d = c
      <4>1. taken[c] <= Len(stream[c]) /\ taken'[c] = taken[c]
        BY <2>9 DEF WithinLimits
      <4>. QED  BY <2>2, <2>3, <2>7, <3>1, <4>1
    <3>2. CASE d # c
      BY <2>8, <2>9, <3>2 DEF Types, WithinLimits
    <3>. QED  BY <3>1, <3>2
  <2>11. {<<c, "W">>} \in SUBSET (Conns \X Dirs)
    BY DEF Dirs
  <2>12. /\ evmap' \in [Fds -> SUBSET (Conns \X Dirs)]
         /\ interest' \in [Fds -> SUBSET Dirs]
    <3>1. CASE AllWritten(c, n)
      BY <2>1, <2>11, <3>1, BaseTypes
    <3>2. CASE ~AllWritten(c, n)
      BY <2>1, <3>2 DEF Types, WithinLimits
    <3>. QED  BY <3>1, <3>2
  <2>13. active' \subseteq Conns \X Dirs
    BY <1>5 DEF Flush, Types, WithinLimits
  <2>. QED
    BY <2>6, <2>9, <2>10, <2>12, <2>13 DEF Types, WithinLimits, AcceptHasWork
<1>6. ASSUME NEW c \in Conns, WriteKills(c) PROVE TypeInv'
  BY <1>6 DEF WriteKills, Types, WithinLimits, AcceptHasWork, base, history, network
<1>7. ASSUME NEW c \in Conns, RunFinal(c) PROVE TypeInv'
  <2>1. out' \in [Conns -> Seq(Nat)]
    BY <1>7 DEF RunFinal, Types
  <2>. QED
    BY <1>7, <2>1 DEF RunFinal, Types, WithinLimits, AcceptHasWork, base, history, network
<1>8. ASSUME NEW c \in Conns, PeerConnect(c) PROVE TypeInv'
  <2>1. backlog' \in Seq(Conns) /\ backlog' # <<>>
    <3>1. backlog \in Seq(Conns) /\ backlog' = Append(backlog, c)
      BY <1>8 DEF PeerConnect, Types
    <3>. QED  BY <3>1
  <2>2. Types'
    BY <1>8, <2>1 DEF PeerConnect, Types, TcpStates, server, base, history
  <2>3. WithinLimits'
    BY <1>8 DEF PeerConnect, WithinLimits, history
  <2>. QED  BY <2>1, <2>2, <2>3 DEF AcceptHasWork
<1>9. ASSUME NEW c \in Conns, PeerSend(c) PROVE TypeInv'
  <2>1. Types'
    <3>1. inq' \in [Conns -> Nat] /\ sent' \in 0 .. MaxSend
      <4>1. inq \in [Conns -> Nat] /\ sent \in 0 .. MaxSend
        BY DEF Types
      <4>2. inq' = [inq EXCEPT ![c] = @ + 1] /\ sent' = sent + 1 /\ sent < MaxSend
        BY <1>9 DEF PeerSend
      <4>. QED  BY <4>1, <4>2, LimitsAssumption
    <3>. QED  BY <1>9, <3>1 DEF PeerSend, Types, server, base, history
  <2>2. WithinLimits'
    <3>1. /\ \A d \in Conns : inq[d] \in Nat /\ inq'[d] \in Nat /\ inq'[d] <= inq[d] + 1
          /\ sent \in Nat /\ sent' = sent + 1
      <4>1. inq \in [Conns -> Nat] /\ sent \in 0 .. MaxSend
        BY DEF Types
      <4>2. inq' = [inq EXCEPT ![c] = @ + 1] /\ sent' = sent + 1
        BY <1>9 DEF PeerSend
      <4>. QED  BY <4>1, <4>2, LimitsAssumption
    <3>2. \A d \in Conns : inq'[d] <= sent'
      BY <3>1 DEF WithinLimits
    <3>. QED  BY <1>9, <3>2 DEF PeerSend, WithinLimits, history
  <2>. QED  BY <1>9, <2>1, <2>2 DEF PeerSend, AcceptHasWork, base
<1>10. ASSUME NEW c \in Conns, PeerRead(c) PROVE TypeInv'
  <2>1. Types'
    <3>1. taken' \in [Conns -> Nat]
      BY <1>10 DEF PeerRead, Types
    <3>. QED  BY <1>10, <3>1 DEF PeerRead, Types, server, base, history
  <2>2. WithinLimits'
    <3>1. /\ taken[c] < Len(stream[c])
          /\ taken' = [taken EXCEPT ![c] = @ + 1]
          /\ UNCHANGED <<inq, sent, stream>>
      BY <1>10 DEF PeerRead, history
    <3>2. \A d \in Conns : Len(stream[d]) \in Nat /\ taken[d] \in Nat
      BY DEF Types
    <3>3. \A d \in Conns : /\ taken[d] <= taken'[d]
                           /\ taken'[d] <= Len(stream[d])
      <4>1. taken'[c] = taken[c] + 1 /\ \A d \in Conns \ {c} : taken'[d] = taken[d]
        BY <3>1 DEF Types
      <4>2. \A d \in Conns : taken[d] <= Len(stream[d])
        BY DEF WithinLimits
      <4>. QED  BY <3>1, <3>2, <4>1, <4>2
    <3>. SUFFICES ASSUME NEW d \in Conns
                  PROVE  /\ inq'[d] <= sent'
                         /\ taken'[d] <= Len(stream'[d])
                         /\ Len(stream'[d]) - taken'[d] <= SndBuf
      BY DEF WithinLimits
    <3>4. inq[d] <= sent /\ Len(stream[d]) - taken[d] <= SndBuf
      BY DEF WithinLimits
    <3>5. taken'[d] \in Nat
      BY <2>1 DEF Types
    <3>6. Len(stream[d]) - taken'[d] <= SndBuf
      BY <3>2, <3>3, <3>4, <3>5, LimitsAssumption
    <3>. QED  BY <3>1, <3>3, <3>4, <3>6
  <2>. QED  BY <1>10, <2>1, <2>2 DEF PeerRead, AcceptHasWork, base
<1>11. ASSUME NEW c \in Conns, PeerClose(c) \/ PeerAbort(c) \/ ResetArrives(c)
       PROVE  TypeInv'
  <2>1. Types'
    BY <1>11 DEF PeerClose, PeerAbort, ResetArrives, Types, TcpStates, server,
                 base, history
  <2>2. WithinLimits'
    BY <1>11 DEF PeerClose, PeerAbort, ResetArrives, WithinLimits, history
  <2>. QED
    BY <1>11, <2>1, <2>2 DEF PeerClose, PeerAbort, ResetArrives, AcceptHasWork, base
<1>12. CASE UNCHANGED vars
  BY <1>12 DEF vars, server, base, history, network, Types, WithinLimits, AcceptHasWork
<1>. QED
  BY <1>1, <1>2, <1>3, <1>4, <1>5, <1>6, <1>7, <1>8, <1>9, <1>10, <1>11, <1>12
     DEF Next, Loop, Peers

\* In every reachable state the variables have their types, a socket never
\* holds more than its buffer, and no peer has read what was not written.
THEOREM TypeCorrect == Spec => []TypeOK
<1>1. Spec => []TypeInv
  BY TypeInit, TypeNext, PTL DEF Spec
<1>. QED  BY <1>1, PTL DEF TypeInv

-----------------------------------------------------------------------------
(***************************************************************************)
(* The properties are inductive together with what they say nothing about: *)
(* connections that are not clients (yet, or any more).                    *)
(***************************************************************************)

\* Only clients have a descriptor.
NoFdLeft == \A c \in Conns : c \notin clients => fd[c] = NoFd

\* The connections in the accept queue are all different, and nothing was
\* made of them yet.
QueueIsFresh ==
  /\ \A i \in 1 .. Len(backlog) :
       bev[backlog[i]] = "none" /\ tcp[backlog[i]] # "idle"
  /\ \A i, j \in 1 .. Len(backlog) : backlog[i] = backlog[j] => i = j
  /\ \A c \in Conns : tcp[c] = "idle" => bev[c] = "none"

\* Nothing was given to a connection that was not accepted.
FreshIsEmpty ==
  \A c \in Conns : bev[c] = "none" => out[c] = <<>> /\ stream[c] = <<>>

\* Every client has its read event where memory does not fail.
HeardUnlessOOM == MemoryMayFail \/ NoneDeaf

Owners == ListIsLive /\ FdOwnership /\ NoFdLeft
Queued == QueueIsFresh /\ FreshIsEmpty
Events == EventsOfClients /\ KernelAgrees /\ EventsArmed /\ HeardUnlessOOM

BaseInv == TypeInv /\ Owners /\ Queued /\ Events

USE DEF TypeInv

-----------------------------------------------------------------------------
\* The slot of a descriptor holds events of the client it is open for, and
\* nothing when it is closed.
LEMMA SlotOwner ==
  ASSUME Types, FdOwnership, EventsOfClients, NEW f \in Fds
  PROVE  /\ \A e \in evmap[f] : e = <<sock[f], e[2]>> /\ e[2] \in Dirs
         /\ sock[f] = None => evmap[f] = {}
<1>1. \A e \in evmap[f] : e \in Conns \X Dirs
  BY DEF Types
<1>2. \A e \in evmap[f] : e[1] \in clients /\ fd[e[1]] = f
  BY DEF EventsOfClients
<1>3. \A e \in evmap[f] : e[1] = sock[f] /\ e[1] \in Conns
  BY <1>1, <1>2 DEF FdOwnership
<1>. QED  BY <1>1, <1>3, NoneAssumption

\* evmap_io_add_ and evmap_io_del_ keep the epoll set equal to what the io map
\* watches, because each calls epoll_ctl when a count becomes or ceases to be 0.
LEMMA AddKeepsKernel ==
  ASSUME Types, KernelAgrees, NEW E, NEW fds, NEW f \in Fds
  PROVE  InterestWith(E, fds)[f] = Watched(EvmapWith(E, fds)[f])
BY DEF KernelAgrees, InterestWith, EvmapWith, Watched

LEMMA DelKeepsKernel ==
  ASSUME Types, KernelAgrees, NEW E, NEW f \in Fds
  PROVE  InterestWithout(E)[f] = Watched(EvmapWithout(E)[f])
BY DEF KernelAgrees, InterestWithout, EvmapWithout, Watched

-----------------------------------------------------------------------------
\* main starts with no clients and an empty io map.
LEMMA BaseStart == NothingYet => BaseInv
<1>. SUFFICES ASSUME NothingYet PROVE BaseInv
  OBVIOUS
<1>1. TypeInv
  BY TypeStart
<1>2. Owners
  BY NoneAssumption DEF NothingYet, NobodyYet, Owners, ListIsLive, FdOwnership, NoFdLeft
<1>3. Queued
  BY DEF NothingYet, NobodyYet, Queued, QueueIsFresh, FreshIsEmpty
<1>4. Events
  BY DEF NothingYet, NobodyYet, Events, EventsOfClients, KernelAgrees, EventsArmed, Watched,
         HeardUnlessOOM, NoneDeaf
<1>. QED  BY <1>1, <1>2, <1>3, <1>4 DEF BaseInv

LEMMA BaseInit == Init => BaseInv
  BY BaseStart DEF Init, NothingYet

-----------------------------------------------------------------------------
\* on_accept: the lowest free descriptor has an empty slot, whatever it was
\* used for before.
LEMMA AcceptBase ==
  ASSUME BaseInv, accepting, Accept(Head(backlog)), accepting' = FALSE, TypeInv'
  PROVE  BaseInv'
<1>. DEFINE c == Head(backlog)
<1>. USE DEF BaseInv
<1>1. /\ c \in Conns /\ c = backlog[1] /\ Len(backlog) \in Nat /\ Len(backlog) >= 1
      /\ Len(backlog') = Len(backlog) - 1
      /\ \A i \in 1 .. Len(backlog') : backlog'[i] = backlog[i + 1]
  <2>1. backlog \in Seq(Conns) /\ backlog # <<>> /\ backlog' = Tail(backlog)
    BY DEF Types, AcceptHasWork, Accept
  <2>. QED  BY <2>1
<1>2. bev[c] = "none" /\ c \notin clients /\ tcp[c] # "idle"
  BY <1>1 DEF Queued, QueueIsFresh, Owners, ListIsLive
<1>3. PICK f \in Fds : /\ sock[f] = None
                       /\ sock' = [sock EXCEPT ![f] = c]
                       /\ fd' = [fd EXCEPT ![c] = f]
  BY DEF Accept, FreeFds
<1>4. PICK added \in SUBSET {<<c, "R">>} :
      /\ MemoryMayFail \/ added = {<<c, "R">>}
      /\ bev' = [bev EXCEPT ![c] = "live"]
      /\ clients' = clients \cup {c}
      /\ UNCHANGED <<proc, out, active, log, stream, tcp, sent, inq, taken>>
      /\ evmap' = EvmapWith(added, fd')
      /\ interest' = InterestWith(added, fd')
  BY DEF Accept, Enabled, AddMayFail
<1>. HIDE DEF c
<1>5. /\ fd'[c] = f /\ sock'[f] = c
      /\ \A d \in Conns : d # c => fd'[d] = fd[d] /\ bev'[d] = bev[d]
      /\ \A g \in Fds : g # f => sock'[g] = sock[g]
      /\ bev'[c] = "live"
  BY <1>1, <1>3, <1>4 DEF Types
<1>6. \A d \in clients : fd[d] # f /\ d # c
  <2>1. \A d \in clients : d \in Conns /\ fd[d] \in Fds /\ sock[fd[d]] = d
    BY DEF Owners, FdOwnership, Types
  <2>. QED  BY <1>2, <1>3, <2>1, NoneAssumption
<1>7. Owners'
  <2>1. ListIsLive'
    BY <1>1, <1>4, <1>5 DEF Owners, ListIsLive
  <2>2. FdOwnership'
    <3>1. \A d \in clients' : fd'[d] \in Fds /\ sock'[fd'[d]] = d
      <4>1. \A d \in clients : d \in Conns /\ fd[d] \in Fds /\ sock[fd[d]] = d
        BY DEF Owners, FdOwnership, Types
      <4>. QED  BY <1>4, <1>5, <1>6, <4>1
    <3>2. \A g \in Fds : sock'[g] # None => sock'[g] \in clients' /\ fd'[sock'[g]] = g
      <4>1. \A g \in Fds : sock[g] # None =>
               sock[g] \in clients /\ sock[g] \in Conns /\ fd[sock[g]] = g
        BY DEF Owners, FdOwnership, Types
      <4>. QED  BY <1>4, <1>5, <1>6, <4>1
    <3>. QED  BY <3>1, <3>2 DEF FdOwnership
  <2>3. NoFdLeft'
    BY <1>4, <1>5 DEF Owners, NoFdLeft
  <2>. QED  BY <2>1, <2>2, <2>3 DEF Owners
<1>8. Queued'
  <2>1. \A i \in 1 .. Len(backlog') : backlog'[i] \in Conns /\ backlog'[i] # c
    <3>1. \A i \in 1 .. Len(backlog) : backlog[i] \in Conns
      BY DEF Types
    <3>2. \A i \in 1 .. Len(backlog') :
            /\ i + 1 \in 1 .. Len(backlog) /\ 1 \in 1 .. Len(backlog)
            /\ i + 1 # 1 /\ backlog'[i] = backlog[i + 1]
      BY <1>1
    <3>3. \A i \in 1 .. Len(backlog) : i # 1 => backlog[i] # c
      BY <1>1 DEF Queued, QueueIsFresh
    <3>. QED  BY <3>1, <3>2, <3>3
  <2>2. QueueIsFresh'
    BY <1>1, <1>2, <1>4, <1>5, <2>1 DEF Queued, QueueIsFresh
  <2>3. FreshIsEmpty'
    BY <1>4, <1>5 DEF Queued, FreshIsEmpty
  <2>. QED  BY <2>2, <2>3 DEF Queued
<1>9. Events'
  <2>1. evmap[f] = {}
    BY <1>3, SlotOwner DEF Owners, Events
  <2>2. evmap'[f] = added
    BY <1>4, <1>5, <2>1 DEF EvmapWith, EventsOn
  <2>3. \A g \in Fds : g # f => evmap'[g] = evmap[g]
    BY <1>4, <1>5 DEF EvmapWith, EventsOn
  <2>4. EventsOfClients'
    <3>1. \A g \in Fds : \A e \in evmap'[g] : e[1] \in clients' /\ fd'[e[1]] = g
      <4>. SUFFICES ASSUME NEW g \in Fds, NEW e \in evmap'[g]
                    PROVE  e[1] \in clients' /\ fd'[e[1]] = g
        OBVIOUS
      <4>1. CASE g = f
        <5>1. e[1] = c
          BY <1>4, <2>2, <4>1
        <5>. QED  BY <1>4, <1>5, <4>1, <5>1
      <4>2. CASE g # f
        <5>1. e[1] \in clients /\ e[1] \in Conns /\ fd[e[1]] = g
          BY <2>3, <4>2 DEF Events, EventsOfClients, Types
        <5>. QED  BY <1>4, <1>5, <1>6, <5>1
      <4>. QED  BY <4>1, <4>2
    <3>2. \A e \in active' : e[1] \in clients' /\ e \in evmap'[fd'[e[1]]]
      <4>. SUFFICES ASSUME NEW e \in active
                    PROVE  e[1] \in clients' /\ e \in evmap'[fd'[e[1]]]
        BY <1>4
      <4>1. e[1] \in clients /\ e \in evmap[fd[e[1]]]
        BY DEF Events, EventsOfClients
      <4>2. e[1] \in Conns /\ fd[e[1]] \in Fds
        BY <4>1 DEF Owners, FdOwnership, Types
      <4>3. e[1] # c /\ fd'[e[1]] = fd[e[1]] /\ fd[e[1]] # f
        BY <1>4, <1>5, <1>6, <2>1, <4>1, <4>2
      <4>4. e \in evmap'[fd'[e[1]]]
        BY <2>3, <4>1, <4>2, <4>3
      <4>. QED  BY <1>4, <4>1, <4>4
    <3>. QED  BY <3>1, <3>2 DEF EventsOfClients
  <2>5. KernelAgrees'
    BY <1>4, AddKeepsKernel DEF Events, KernelAgrees
  <2>6. EventsArmed'
    <3>1. out[c] = <<>>
      BY <1>1, <1>2 DEF Queued, FreshIsEmpty
    <3>2. out'[c] = <<>> /\ <<c, "W">> \notin evmap'[fd'[c]]
      BY <1>4, <1>5, <2>2, <3>1
    <3>3. \A d \in clients : fd'[d] = fd[d] /\ evmap'[fd'[d]] = evmap[fd[d]]
      BY <1>5, <1>6, <2>3 DEF Owners, FdOwnership, Types
    <3>. QED  BY <1>4, <3>2, <3>3 DEF Events, EventsArmed
  <2>7. HeardUnlessOOM'
    <3>1. \A d \in clients : evmap'[fd'[d]] = evmap[fd[d]]
      BY <1>5, <1>6, <2>3 DEF Owners, FdOwnership, Types
    <3>2. MemoryMayFail \/ <<c, "R">> \in evmap'[fd'[c]]
      BY <1>4, <1>5, <2>2
    <3>. QED  BY <1>4, <3>1, <3>2 DEF Events, HeardUnlessOOM, NoneDeaf
  <2>. QED  BY <2>4, <2>5, <2>6, <2>7 DEF Events
<1>. QED  BY <1>7, <1>8, <1>9

\* buffered_on_error: when it is over, nothing refers to the client.
LEMMA DisconnectBase ==
  ASSUME BaseInv, NEW c \in clients, Disconnect(c), TypeInv'
  PROVE  BaseInv'
<1>. USE DEF BaseInv
<1>. DEFINE f == fd[c]
<1>1. c \in Conns /\ f \in Fds /\ sock[f] = c
  BY DEF Types, Owners, FdOwnership
<1>. HIDE DEF f
<1>2. /\ clients' = clients \ {c}
      /\ sock' = [sock EXCEPT ![f] = None]
      /\ fd' = [fd EXCEPT ![c] = NoFd]
      /\ evmap' = EvmapWithout(EventsOf(c))
      /\ interest' = [interest EXCEPT ![f] = {}]
      /\ active' = active \ EventsOf(c)
      /\ bev' = [bev EXCEPT ![c] = "finalizing"]
      /\ UNCHANGED <<out, stream, tcp, backlog>>
  BY DEF Disconnect, Removed, ClosedSock, Cancelled, history, network, f
<1>3. \A d \in clients' : d \in clients /\ d # c /\ fd[d] \in Fds /\ fd[d] # f
  BY <1>1, <1>2 DEF Owners, FdOwnership
<1>4. /\ sock'[f] = None /\ bev'[c] = "finalizing" /\ fd'[c] = NoFd
      /\ \A d \in Conns : d # c => fd'[d] = fd[d] /\ bev'[d] = bev[d]
      /\ \A g \in Fds : g # f => sock'[g] = sock[g] /\ interest'[g] = interest[g]
      /\ interest'[f] = {}
  BY <1>1, <1>2 DEF Types
<1>5. Owners'
  <2>1. ListIsLive'
    BY <1>2, <1>4 DEF Owners, ListIsLive
  <2>2. FdOwnership'
    <3>1. \A d \in clients' : fd'[d] \in Fds /\ sock'[fd'[d]] = d
      BY <1>2, <1>3, <1>4 DEF Owners, FdOwnership, Types
    <3>2. \A g \in Fds : sock'[g] # None => sock'[g] \in clients' /\ fd'[sock'[g]] = g
      <4>. SUFFICES ASSUME NEW g \in Fds, sock'[g] # None
                    PROVE  sock'[g] \in clients' /\ fd'[sock'[g]] = g
        OBVIOUS
      <4>1. g # f /\ sock'[g] = sock[g]
        BY <1>4
      <4>2. sock[g] \in clients /\ fd[sock[g]] = g
        BY <4>1 DEF Owners, FdOwnership
      <4>3. sock[g] # c
        BY <4>1, <4>2 DEF f
      <4>. QED  BY <1>2, <1>4, <4>1, <4>2, <4>3 DEF Types
    <3>. QED  BY <3>1, <3>2 DEF FdOwnership
  <2>3. NoFdLeft'
    BY <1>2, <1>4 DEF Owners, NoFdLeft
  <2>. QED  BY <2>1, <2>2, <2>3 DEF Owners
<1>6. Queued'
  <2>1. bev[c] = "live"
    BY <1>1 DEF Owners, ListIsLive
  <2>2. \A i \in 1 .. Len(backlog) : backlog[i] \in Conns /\ backlog[i] # c
    <3>1. \A i \in 1 .. Len(backlog) : backlog[i] \in Conns
      BY DEF Types
    <3>. QED  BY <2>1, <3>1 DEF Queued, QueueIsFresh
  <2>3. tcp[c] # "idle"
    BY <1>1, <2>1 DEF Queued, QueueIsFresh
  <2>4. QueueIsFresh'
    BY <1>2, <1>4, <2>2, <2>3 DEF Queued, QueueIsFresh
  <2>5. FreshIsEmpty'
    BY <1>2, <1>4 DEF Queued, FreshIsEmpty
  <2>. QED  BY <2>4, <2>5 DEF Queued
<1>7. Events'
  <2>1. evmap'[f] = {}
    <3>1. \A e \in evmap[f] : e \in EventsOf(c)
      BY <1>1, SlotOwner DEF Owners, Events, EventsOf
    <3>. QED  BY <1>1, <1>2, <3>1 DEF EvmapWithout
  <2>2. \A g \in Fds : g # f => evmap'[g] = evmap[g]
    <3>. SUFFICES ASSUME NEW g \in Fds, g # f, NEW e \in evmap[g]
                  PROVE  e \notin EventsOf(c)
      BY <1>2 DEF EvmapWithout
    <3>1. fd[e[1]] = g
      BY DEF Events, EventsOfClients
    <3>. QED  BY <3>1 DEF EventsOf, f
  <2>3. EventsOfClients'
    <3>1. \A g \in Fds : \A e \in evmap'[g] : e[1] \in clients' /\ fd'[e[1]] = g
      <4>. SUFFICES ASSUME NEW g \in Fds, NEW e \in evmap'[g]
                    PROVE  e[1] \in clients' /\ fd'[e[1]] = g
        OBVIOUS
      <4>1. g # f /\ e \in evmap[g]
        BY <2>1, <2>2
      <4>2. e[1] \in clients /\ fd[e[1]] = g
        BY <4>1 DEF Events, EventsOfClients
      <4>3. e[1] # c
        BY <4>1, <4>2 DEF f
      <4>. QED  BY <1>2, <1>4, <4>2, <4>3 DEF Types
    <3>2. \A e \in active' : e[1] \in clients' /\ e \in evmap'[fd'[e[1]]]
      <4>. SUFFICES ASSUME NEW e \in active'
                    PROVE  e[1] \in clients' /\ e \in evmap'[fd'[e[1]]]
        OBVIOUS
      <4>1. e \in active /\ e \in Conns \X Dirs /\ e \notin EventsOf(c)
        BY <1>2 DEF Types
      <4>2. e[1] # c
        BY <4>1 DEF EventsOf
      <4>3. e[1] \in clients'
        BY <1>2, <4>1, <4>2 DEF Events, EventsOfClients
      <4>. QED
        BY <1>3, <1>4, <2>2, <4>1, <4>2, <4>3 DEF Events, EventsOfClients, Types
    <3>. QED  BY <3>1, <3>2 DEF EventsOfClients
  <2>4. KernelAgrees'
    <3>. SUFFICES ASSUME NEW g \in Fds PROVE interest'[g] = Watched(evmap'[g])
      BY DEF KernelAgrees
    <3>1. CASE g = f
      BY <1>4, <2>1, <3>1 DEF Watched
    <3>2. CASE g # f
      BY <1>4, <2>2, <3>2 DEF Events, KernelAgrees
    <3>. QED  BY <3>1, <3>2
  <2>5. EventsArmed' /\ HeardUnlessOOM'
    <3>1. \A d \in clients' : d \in clients /\ fd'[d] = fd[d] /\ evmap'[fd'[d]] = evmap[fd[d]]
      BY <1>2, <1>3, <1>4, <2>2 DEF Types
    <3>2. \A d \in clients' : out'[d] = out[d]
      BY <1>2
    <3>. QED  BY <3>1, <3>2 DEF Events, EventsArmed, HeardUnlessOOM, NoneDeaf
  <2>. QED  BY <2>3, <2>4, <2>5 DEF Events
<1>. QED  BY <1>5, <1>6, <1>7

\* Sequences are empty when their length is 0.
LEMMA EmptyIffLenZero ==
  ASSUME NEW s \in Seq(Nat)
  PROVE  s = <<>> <=> Len(s) = 0
OBVIOUS

LEMMA ConcatNotEmpty ==
  ASSUME NEW s \in Seq(Nat), NEW t \in Seq(Nat), Len(t) >= 1
  PROVE  s \o t # <<>>
<1>1. s \o t \in Seq(Nat) /\ Len(s \o t) = Len(s) + Len(t)
  OBVIOUS
<1>2. Len(s) \in Nat /\ Len(t) \in Nat
  OBVIOUS
<1>. QED  BY <1>1, <1>2, EmptyIffLenZero

\* A step that leaves the clients, their descriptors and the accept queue
\* alone, and gives nothing to those that were not accepted.
LEMMA OwnersKept ==
  ASSUME BaseInv, UNCHANGED <<clients, fd, sock, bev, tcp, backlog>>,
         \A c \in Conns : bev[c] = "none" => out'[c] = out[c] /\ stream'[c] = stream[c]
  PROVE  Owners' /\ Queued'
BY DEF BaseInv, Owners, ListIsLive, FdOwnership, NoFdLeft, Queued, QueueIsFresh,
       FreshIsEmpty

-----------------------------------------------------------------------------
\* buffered_on_read: those who are given data get their write event added.
LEMMA RelayBase ==
  ASSUME BaseInv, NEW c \in Conns, Relay(c), TypeInv'
  PROVE  BaseInv'
<1>. USE DEF BaseInv
<1>1. PICK given, armed \in SUBSET Recipients(c) :
        LET k == Least(inq[c], ReadMax) IN
        /\ armed \subseteq given
        /\ \A d \in given \ armed : evmap[fd[d]] = {}
        /\ out' = [d \in Conns |-> IF d \in given THEN out[d] \o NewUnits(k)
                                                  ELSE out[d]]
        /\ evmap' = EvmapWith(Armed(armed), fd)
        /\ interest' = InterestWith(Armed(armed), fd)
  BY DEF Relay, AddMayFail
<1>. DEFINE k == Least(inq[c], ReadMax)
<1>2. /\ inq[c] > 0 /\ active' \subseteq active
      /\ UNCHANGED <<clients, fd, bev, sock, stream, tcp, backlog>>
  BY DEF Relay
<1>3. k \in Nat /\ k >= 1
  <2>1. inq[c] \in Nat /\ ReadMax \in Nat /\ ReadMax >= 1
    <3>1. inq[c] \in Nat
      BY DEF Types
    <3>2. ReadMax \in Nat \ {0}
      BY LimitsAssumption
    <3>. QED  BY <3>1, <3>2
  <2>. QED  BY <1>2, <2>1 DEF Least
<1>4. armed \subseteq given /\ given \subseteq clients /\ clients \subseteq Conns
  BY <1>1 DEF Recipients, Types
<1>5. \A d \in Conns : /\ d \in given => out'[d] # <<>>
                       /\ d \notin given => out'[d] = out[d]
  <2>. SUFFICES ASSUME NEW d \in Conns
                PROVE  /\ d \in given => out'[d] # <<>>
                       /\ d \notin given => out'[d] = out[d]
    OBVIOUS
  <2>1. NewUnits(k) \in Seq(Nat) /\ Len(NewUnits(k)) = k
    <3>1. Len(log) \in Nat
      BY DEF Types
    <3>. QED  BY <1>3, <3>1 DEF NewUnits
  <2>2. out[d] \in Seq(Nat)
    BY DEF Types
  <2>3. out[d] \o NewUnits(k) # <<>>
    BY <1>3, <2>1, <2>2, ConcatNotEmpty
  <2>. QED  BY <1>1, <2>3
<1>6. Owners' /\ Queued'
  <2>1. \A d \in Conns : bev[d] = "none" => d \notin given
    BY <1>4 DEF Owners, ListIsLive
  <2>. QED  BY <1>2, <1>5, <2>1, OwnersKept
<1>7. \A f \in Fds : evmap'[f] = evmap[f] \cup { <<d, "W">> : d \in { x \in armed : fd[x] = f } }
  BY <1>1 DEF EvmapWith, EventsOn, Armed
<1>8. EventsOfClients'
  <2>1. \A f \in Fds : \A e \in evmap'[f] : e[1] \in clients /\ fd[e[1]] = f
    BY <1>4, <1>7 DEF Events, EventsOfClients
  <2>2. \A e \in active' : e[1] \in clients /\ e \in evmap'[fd[e[1]]]
    BY <1>2, <1>7 DEF Events, EventsOfClients, Owners, FdOwnership
  <2>. QED  BY <1>2, <2>1, <2>2 DEF EventsOfClients
<1>9. KernelAgrees'
  BY <1>1, AddKeepsKernel DEF Events, KernelAgrees
<1>10. EventsArmed'
  <2>. SUFFICES ASSUME NEW d \in clients
                PROVE  LET E == evmap'[fd[d]] IN
                       /\ <<d, "W">> \in E => out'[d] # <<>>
                       /\ <<d, "R">> \in E /\ out'[d] # <<>> => <<d, "W">> \in E
    BY <1>2 DEF EventsArmed
  <2>1. /\ d \in Conns /\ fd[d] \in Fds
        /\ <<d, "W">> \in evmap[fd[d]] => out[d] # <<>>
        /\ <<d, "R">> \in evmap[fd[d]] /\ out[d] # <<>> => <<d, "W">> \in evmap[fd[d]]
    BY <1>4 DEF Owners, FdOwnership, Events, EventsArmed
  <2>2. /\ <<d, "R">> \in evmap'[fd[d]] <=> <<d, "R">> \in evmap[fd[d]]
        /\ <<d, "W">> \in evmap'[fd[d]] <=> <<d, "W">> \in evmap[fd[d]] \/ d \in armed
    BY <1>7, <2>1
  <2>3. CASE d \in given
    <3>1. <<d, "R">> \in evmap[fd[d]] => d \in armed
      BY <1>1, <2>3
    <3>. QED  BY <1>5, <2>1, <2>2, <2>3, <3>1
  <2>4. CASE d \notin given
    BY <1>4, <1>5, <2>1, <2>2, <2>4
  <2>. QED  BY <2>3, <2>4
<1>11. HeardUnlessOOM'
  BY <1>2, <1>7 DEF Events, HeardUnlessOOM, NoneDeaf, Owners, FdOwnership
<1>. QED  BY <1>6, <1>8, <1>9, <1>10, <1>11 DEF Events

\* bufferevent_writecb: the write event goes with the last of the output.
LEMMA FlushBase ==
  ASSUME BaseInv, NEW c \in Conns, Flush(c), TypeInv'
  PROVE  BaseInv'
<1>. USE DEF BaseInv
<1>1. PICK n \in 1 .. MostWritten(c) :
        /\ stream' = [stream EXCEPT ![c] = @ \o SubSeq(out[c], 1, n)]
        /\ out' = [out EXCEPT ![c] = SubSeq(out[c], n + 1, Len(out[c]))]
        /\ IF n = Len(out[c])
           THEN /\ evmap' = EvmapWithout({<<c, "W">>})
                /\ interest' = InterestWithout({<<c, "W">>})
           ELSE UNCHANGED <<evmap, interest>>
  BY DEF Flush, Unwritten, AllWritten
<1>2. /\ <<c, "W">> \in active /\ active' = active \ {<<c, "W">>}
      /\ UNCHANGED <<clients, fd, bev, sock, tcp, backlog>>
  BY DEF Flush, WriteDue, network
<1>3. c \in clients /\ fd[c] \in Fds /\ <<c, "W">> \in evmap[fd[c]]
  BY <1>2 DEF Events, EventsOfClients, Owners, FdOwnership
<1>4. Owners' /\ Queued'
  <2>1. bev[c] # "none"
    BY <1>3 DEF Owners, ListIsLive
  <2>2. \A d \in Conns : d # c => out'[d] = out[d] /\ stream'[d] = stream[d]
    BY <1>1 DEF Types
  <2>. QED  BY <1>2, <2>1, <2>2, OwnersKept
<1>5. /\ out[c] \in Seq(Nat) /\ Len(out[c]) \in Nat
      /\ n \in Nat /\ 1 <= n /\ n <= Len(out[c])
  <2>1. out[c] \in Seq(Nat) /\ stream[c] \in Seq(Nat) /\ taken[c] \in Nat
    BY DEF Types
  <2>2. Len(out[c]) \in Nat /\ Len(stream[c]) \in Nat
    BY <2>1
  <2>3. WriteMax \in Nat /\ SndBuf \in Nat
    BY LimitsAssumption
  <2>4. n \in 1 .. Least(Len(out[c]), Least(WriteMax, Room(c)))
    BY <1>1 DEF MostWritten
  <2>. QED  BY <2>1, <2>2, <2>3, <2>4 DEF Least, Room
<1>6. /\ n = Len(out[c]) <=> out'[c] = <<>>
      /\ \A d \in Conns : d # c => out'[d] = out[d]
  <2>1. Len(SubSeq(out[c], n + 1, Len(out[c]))) = Len(out[c]) - n
    BY <1>5
  <2>2. out'[c] = SubSeq(out[c], n + 1, Len(out[c])) /\ out'[c] \in Seq(Nat)
    BY <1>1 DEF Types
  <2>3. \A d \in Conns : d # c => out'[d] = out[d]
    BY <1>1 DEF Types
  <2>4. out'[c] = <<>> <=> Len(out[c]) - n = 0
    BY <2>1, <2>2, EmptyIffLenZero
  <2>. QED  BY <1>5, <2>3, <2>4
<1>7. CASE n = Len(out[c])
  <2>1. \A f \in Fds : evmap'[f] = evmap[f] \ {<<c, "W">>}
    BY <1>1, <1>7 DEF EvmapWithout
  <2>2. EventsOfClients'
    BY <1>2, <2>1 DEF Events, EventsOfClients, Owners, FdOwnership
  <2>3. KernelAgrees'
    BY <1>1, <1>7, DelKeepsKernel DEF Events, KernelAgrees
  <2>4. EventsArmed'
    <3>. SUFFICES ASSUME NEW d \in clients
                  PROVE  LET E == evmap'[fd[d]] IN
                         /\ <<d, "W">> \in E => out'[d] # <<>>
                         /\ <<d, "R">> \in E /\ out'[d] # <<>> => <<d, "W">> \in E
      BY <1>2 DEF EventsArmed
    <3>1. /\ d \in Conns /\ fd[d] \in Fds
          /\ <<d, "W">> \in evmap[fd[d]] => out[d] # <<>>
          /\ <<d, "R">> \in evmap[fd[d]] /\ out[d] # <<>> => <<d, "W">> \in evmap[fd[d]]
      BY DEF Owners, FdOwnership, Events, EventsArmed, Types
    <3>. QED  BY <1>6, <1>7, <2>1, <3>1
  <2>5. HeardUnlessOOM'
    BY <1>2, <2>1 DEF Events, HeardUnlessOOM, NoneDeaf, Owners, FdOwnership
  <2>. QED  BY <1>4, <2>2, <2>3, <2>4, <2>5 DEF Events
<1>8. CASE n # Len(out[c])
  <2>1. UNCHANGED <<evmap, interest>>
    BY <1>1, <1>8
  <2>2. EventsOfClients' /\ KernelAgrees'
    BY <1>2, <2>1 DEF Events, EventsOfClients, KernelAgrees
  <2>3. EventsArmed'
    <3>. SUFFICES ASSUME NEW d \in clients
                  PROVE  LET E == evmap[fd[d]] IN
                         /\ <<d, "W">> \in E => out'[d] # <<>>
                         /\ <<d, "R">> \in E /\ out'[d] # <<>> => <<d, "W">> \in E
      BY <1>2, <2>1 DEF EventsArmed
    <3>1. /\ d \in Conns
          /\ <<d, "W">> \in evmap[fd[d]] => out[d] # <<>>
          /\ <<d, "R">> \in evmap[fd[d]] /\ out[d] # <<>> => <<d, "W">> \in evmap[fd[d]]
      BY DEF Events, EventsArmed, Types
    <3>. QED  BY <1>3, <1>6, <1>8, <3>1
  <2>4. HeardUnlessOOM'
    BY <1>2, <2>1 DEF Events, HeardUnlessOOM, NoneDeaf
  <2>. QED  BY <1>4, <2>2, <2>3, <2>4 DEF Events
<1>. QED  BY <1>7, <1>8

-----------------------------------------------------------------------------
\* Every step keeps descriptors, bufferevents and events consistent.
LEMMA BaseNext == BaseInv /\ [Next]_vars => BaseInv'
<1>. SUFFICES ASSUME BaseInv, [Next]_vars PROVE BaseInv'
  OBVIOUS
<1>0. TypeInv'
  BY TypeNext DEF BaseInv
<1>1. CASE Poll
  <2>1. Owners' /\ Queued'
    BY <1>1, OwnersKept DEF Poll, server, history, network
  <2>2. EventsOfClients'
    <3>1. \A e \in active' : \E f \in Fds : e \in evmap[f]
      BY <1>1 DEF Poll, Ready, Activated
    <3>2. UNCHANGED <<clients, fd, evmap>>
      BY <1>1 DEF Poll, server
    <3>. QED  BY <3>1, <3>2 DEF BaseInv, Events, EventsOfClients
  <2>3. KernelAgrees' /\ EventsArmed' /\ HeardUnlessOOM'
    BY <1>1 DEF Poll, server, BaseInv, Events, KernelAgrees, EventsArmed,
                HeardUnlessOOM, NoneDeaf
  <2>. QED  BY <1>0, <2>1, <2>2, <2>3 DEF BaseInv, Events
<1>2. CASE RunAccept
  <2>1. CASE AcceptFails \/ AcceptOutOfMemory
    <3>1. UNCHANGED <<clients, fd, bev, out, sock, evmap, interest, active,
                      stream, tcp, backlog>>
      BY <2>1 DEF AcceptFails, AcceptOutOfMemory, server, history, network
    <3>2. Owners' /\ Queued'
      BY <3>1, OwnersKept
    <3>3. Events'
      BY <3>1 DEF BaseInv, Events, EventsOfClients, KernelAgrees, EventsArmed,
          HeardUnlessOOM, NoneDeaf
    <3>. QED  BY <1>0, <3>2, <3>3 DEF BaseInv
  <2>2. CASE Accept(Head(backlog))
    BY <1>0, <1>2, <2>2, AcceptBase DEF RunAccept
  <2>. QED  BY <1>2, <2>1, <2>2 DEF RunAccept
<1>3. ASSUME NEW c \in Conns, Relay(c) PROVE BaseInv'
  BY <1>0, <1>3, RelayBase
<1>4. ASSUME NEW c \in Conns, ReadEnds(c) \/ ReadOutOfMemory(c) \/ WriteFails(c)
      PROVE  BaseInv'
  <2>1. Disconnect(c)
    BY <1>4 DEF ReadEnds, ReadOutOfMemory, WriteFails
  <2>2. c \in clients
    BY <1>4 DEF ReadEnds, ReadOutOfMemory, WriteFails, ReadDue, WriteDue, BaseInv,
                Events, EventsOfClients
  <2>. QED  BY <1>0, <2>1, <2>2, DisconnectBase
<1>5. ASSUME NEW c \in Conns, Flush(c) PROVE BaseInv'
  BY <1>0, <1>5, FlushBase
<1>6. ASSUME NEW c \in Conns, RunFinal(c) PROVE BaseInv'
  <2>1. c \notin clients
    BY <1>6 DEF RunFinal, BaseInv, Owners, ListIsLive
  <2>2. /\ bev[c] = "finalizing" /\ bev'[c] = "freed"
        /\ \A d \in Conns : d # c => bev'[d] = bev[d] /\ out'[d] = out[d]
        /\ UNCHANGED <<clients, fd, sock, evmap, interest, active, stream, tcp,
                       backlog>>
    BY <1>6 DEF RunFinal, base, history, network, BaseInv, Types
  <2>3. Owners'
    BY <2>1, <2>2 DEF BaseInv, Owners, ListIsLive, FdOwnership, NoFdLeft
  <2>4. Queued'
    <3>1. \A i \in 1 .. Len(backlog) : backlog[i] \in Conns
      BY DEF BaseInv, Types
    <3>2. \A i \in 1 .. Len(backlog) : bev'[backlog[i]] = bev[backlog[i]]
      BY <2>2, <3>1 DEF BaseInv, Queued, QueueIsFresh
    <3>3. QueueIsFresh'
      BY <2>2, <3>2 DEF BaseInv, Queued, QueueIsFresh
    <3>4. FreshIsEmpty'
      BY <2>2 DEF BaseInv, Queued, FreshIsEmpty
    <3>. QED  BY <3>3, <3>4 DEF Queued
  <2>5. Events'
    <3>1. \A d \in clients : d \in Conns /\ out'[d] = out[d]
      BY <2>1, <2>2 DEF BaseInv, Types
    <3>. QED
      BY <2>2, <3>1 DEF BaseInv, Events, EventsOfClients, KernelAgrees, EventsArmed,
          HeardUnlessOOM, NoneDeaf
  <2>. QED  BY <1>0, <2>3, <2>4, <2>5 DEF BaseInv
<1>7. ASSUME NEW c \in Conns, PeerConnect(c) PROVE BaseInv'
  <2>1. /\ tcp[c] = "idle" /\ tcp' = [tcp EXCEPT ![c] = "estab"]
        /\ backlog' = Append(backlog, c)
        /\ UNCHANGED <<clients, fd, bev, out, sock, evmap, interest, active, stream>>
    BY <1>7 DEF PeerConnect, server, base, history
  <2>2. Owners'
    BY <2>1 DEF BaseInv, Owners, ListIsLive, FdOwnership, NoFdLeft
  <2>3. Events'
    BY <2>1 DEF BaseInv, Events, EventsOfClients, KernelAgrees, EventsArmed,
          HeardUnlessOOM, NoneDeaf
  <2>4. Queued'
    <3>1. /\ backlog \in Seq(Conns) /\ Len(backlog) \in Nat
          /\ \A i \in 1 .. Len(backlog) : backlog[i] \in Conns
      BY DEF BaseInv, Types
    <3>2. /\ Len(backlog') = Len(backlog) + 1
          /\ backlog'[Len(backlog) + 1] = c
          /\ \A i \in 1 .. Len(backlog) : backlog'[i] = backlog[i]
      BY <2>1, <3>1
    <3>3. \A i \in 1 .. Len(backlog) : backlog[i] # c
      BY <2>1 DEF BaseInv, Queued, QueueIsFresh
    <3>4. bev[c] = "none"
      BY <2>1 DEF BaseInv, Queued, QueueIsFresh
    <3>5. \A d \in Conns : tcp'[d] = IF d = c THEN "estab" ELSE tcp[d]
      BY <2>1 DEF BaseInv, Types
    <3>6. \A i \in 1 .. Len(backlog') : \/ i \in 1 .. Len(backlog)
                                        \/ i = Len(backlog) + 1
      BY <3>1, <3>2
    <3>7. QueueIsFresh'
      <4>1. \A i \in 1 .. Len(backlog') :
              bev'[backlog'[i]] = "none" /\ tcp'[backlog'[i]] # "idle"
        BY <2>1, <3>1, <3>2, <3>4, <3>5, <3>6 DEF BaseInv, Queued, QueueIsFresh
      <4>2. \A i, j \in 1 .. Len(backlog') : backlog'[i] = backlog'[j] => i = j
        BY <3>2, <3>3, <3>6 DEF BaseInv, Queued, QueueIsFresh
      <4>3. \A d \in Conns : tcp'[d] = "idle" => bev'[d] = "none"
        BY <2>1, <3>5 DEF BaseInv, Queued, QueueIsFresh
      <4>. QED  BY <4>1, <4>2, <4>3 DEF QueueIsFresh
    <3>8. FreshIsEmpty'
      BY <2>1 DEF BaseInv, Queued, FreshIsEmpty
    <3>. QED  BY <3>7, <3>8 DEF Queued
  <2>. QED  BY <1>0, <2>2, <2>3, <2>4 DEF BaseInv
<1>8. ASSUME NEW c \in Conns, PeerClose(c) \/ PeerAbort(c) \/ ResetArrives(c)
      PROVE  BaseInv'
  <2>1. UNCHANGED <<clients, fd, bev, out, sock, evmap, interest, active, stream,
                    backlog>>
    BY <1>8 DEF PeerClose, PeerAbort, ResetArrives, server, base, history
  <2>2. \A d \in Conns : (tcp'[d] = "idle") <=> (tcp[d] = "idle")
    BY <1>8 DEF PeerClose, PeerAbort, ResetArrives, BaseInv, Types
  <2>3. Owners' /\ Events'
    BY <2>1 DEF BaseInv, Owners, ListIsLive, FdOwnership, NoFdLeft, Events,
                EventsOfClients, KernelAgrees, EventsArmed,
          HeardUnlessOOM, NoneDeaf
  <2>4. Queued'
    <3>1. \A i \in 1 .. Len(backlog) : backlog[i] \in Conns
      BY DEF BaseInv, Types
    <3>. QED  BY <2>1, <2>2, <3>1 DEF BaseInv, Queued, QueueIsFresh, FreshIsEmpty
  <2>. QED  BY <1>0, <2>3, <2>4 DEF BaseInv
<1>9. ASSUME UNCHANGED <<clients, fd, bev, out, sock, evmap, interest, active,
                         stream, tcp, backlog>>
      PROVE  BaseInv'
  <2>1. Owners' /\ Queued'
    BY <1>9, OwnersKept
  <2>2. Events'
    BY <1>9 DEF BaseInv, Events, EventsOfClients, KernelAgrees, EventsArmed,
          HeardUnlessOOM, NoneDeaf
  <2>. QED  BY <1>0, <2>1, <2>2 DEF BaseInv
<1>10. ASSUME NEW c \in Conns, WriteKills(c) \/ PeerSend(c) \/ PeerRead(c)
       PROVE  BaseInv'
  BY <1>9, <1>10 DEF WriteKills, PeerSend, PeerRead, server, base, history, network
<1>11. CASE UNCHANGED vars
  BY <1>9, <1>11 DEF vars, server, base, history, network
<1>. QED
  BY <1>1, <1>2, <1>3, <1>4, <1>5, <1>6, <1>7, <1>8, <1>10, <1>11
     DEF Next, Loop, Peers

LEMMA BaseAlways == Spec => []BaseInv
BY BaseInit, BaseNext, PTL DEF Spec

\* No descriptor is leaked, shared or closed under a client, ever.
THEOREM DescriptorsOwned == Spec => []FdOwnership
BY BaseAlways, PTL DEF BaseInv, Owners

\* The clients in the list are those whose bufferevent is alive.
THEOREM ListAlive == Spec => []ListIsLive
BY BaseAlways, PTL DEF BaseInv, Owners

\* No event of a freed client stays in the io map or on the active queue, even
\* when its descriptor has a new owner.
THEOREM NoStaleEvent == Spec => []EventsOfClients
BY BaseAlways, PTL DEF BaseInv, Events

\* The kernel watches what the io map has events for.
THEOREM KernelFollows == Spec => []KernelAgrees
BY BaseAlways, PTL DEF BaseInv, Events

\* A client has a write event only while there is something to write to it, and
\* always then if it has a read event.
THEOREM WriteArmed == Spec => []EventsArmed
BY BaseAlways, PTL DEF BaseInv, Events

\* While memory does not fail, a client is read from for as long as it is listed.
THEOREM AllAreHeard == ASSUME ~MemoryMayFail PROVE Spec => []NoneDeaf
<1>1. BaseInv => NoneDeaf
  BY DEF BaseInv, Events, HeardUnlessOOM
<1>. QED  BY BaseAlways, <1>1, PTL

-----------------------------------------------------------------------------
(***************************************************************************)
(* What epoll_wait reported, until the callback runs.                      *)
(***************************************************************************)

\* The two halves of CallbacksHaveWork that concern a client.
ReadWork(c)  == inq[c] > 0 \/ AtEnd(c)
WriteWork(c) == out[c] # <<>> /\ (Broken(c) \/ Room(c) > 0)

ClientsHaveWork ==
  \A c \in Conns : /\ <<c, "R">> \in active => ReadWork(c)
                   /\ <<c, "W">> \in active => WriteWork(c)

LEMMA WorkSplits == AcceptHasWork => (ClientsHaveWork <=> CallbacksHaveWork)
BY DEF AcceptHasWork, ClientsHaveWork, CallbacksHaveWork, ReadWork, WriteWork

\* epoll_wait and evmap_io_active_: a report is about the owner of the
\* descriptor, and only directions that have an event are called back.
LEMMA PollFindsWork ==
  ASSUME BaseInv, Poll
  PROVE  ClientsHaveWork'
<1>1. UNCHANGED <<out, tcp, inq, stream, taken>>
  BY DEF Poll, server, history, network
<1>. SUFFICES ASSUME NEW c \in Conns, NEW d \in Dirs, <<c, d>> \in active'
              PROVE  (d = "R" => ReadWork(c)) /\ (d = "W" => WriteWork(c))
  BY <1>1 DEF ClientsHaveWork, ReadWork, WriteWork, AtEnd, Broken, Room, Dirs
<1>2. PICK f \in Fds : <<c, d>> \in Activated(f)
  BY DEF Poll, Ready
<1>3. <<c, d>> \in evmap[f] /\ d \in Reported(f)
  BY <1>2 DEF Activated
<1>4. c \in clients /\ fd[c] = f /\ sock[f] = c
  BY <1>3 DEF BaseInv, Events, EventsOfClients, Owners, FdOwnership
<1>5. d = "W" => out[c] # <<>>
  BY <1>3, <1>4 DEF BaseInv, Events, EventsArmed
<1>6. inq[c] \in Nat
  BY DEF BaseInv, Types
<1>7. CASE Broken(c)
  BY <1>5, <1>6, <1>7 DEF ReadWork, WriteWork, AtEnd, Broken
<1>8. CASE ~Broken(c)
  <2>1. (d = "R" => Readable(c)) /\ (d = "W" => Writable(c))
    BY <1>3, <1>4, <1>8 DEF Reported
  <2>. QED
    BY <1>5, <1>6, <2>1 DEF ReadWork, WriteWork, AtEnd, Readable, Writable
<1>. QED  BY <1>7, <1>8

\* A step after which every callback that is still due has what it had.
LEMMA WorkKept ==
  ASSUME ClientsHaveWork, active' \subseteq active,
         UNCHANGED <<out, tcp, inq, stream, taken>>
  PROVE  ClientsHaveWork'
BY DEF ClientsHaveWork, ReadWork, WriteWork, AtEnd, Broken, Room

\* The callbacks: each is taken off the queue, and takes nothing from others.
LEMMA CallbackLeavesWork ==
  ASSUME BaseInv, BaseInv', ClientsHaveWork, NEW c \in Conns,
         Relay(c) \/ Flush(c)
  PROVE  ClientsHaveWork'
<1>1. CASE Relay(c)
  <2>1. /\ active' = active \ {<<c, "R">>}
        /\ UNCHANGED <<tcp, stream, taken>>
        /\ \A d \in Conns : d # c => inq'[d] = inq[d]
    BY <1>1 DEF Relay, BaseInv, Types
  <2>2. \A d \in Conns : out[d] # <<>> => out'[d] # <<>>
    <3>. SUFFICES ASSUME NEW d \in Conns, out[d] # <<>>
                  PROVE  out'[d] # <<>>
      OBVIOUS
    <3>1. out[d] \in Seq(Nat) /\ Len(log) \in Nat /\ Least(inq[c], ReadMax) \in Nat
      BY LimitsAssumption DEF BaseInv, Types, Least
    <3>2. NewUnits(Least(inq[c], ReadMax)) \in Seq(Nat)
      BY <3>1 DEF NewUnits
    <3>3. out[d] \o NewUnits(Least(inq[c], ReadMax)) # <<>>
      BY <3>1, <3>2
    <3>. QED  BY <1>1, <3>3 DEF Relay
  <2>3. <<c, "W">> \notin active
    BY <1>1 DEF Relay, ReadDue
  <2>. QED
    BY <2>1, <2>2, <2>3 DEF ClientsHaveWork, ReadWork, WriteWork, AtEnd, Broken, Room
<1>2. CASE Flush(c)
  <2>1. /\ active' = active \ {<<c, "W">>}
        /\ UNCHANGED <<tcp, inq, taken>>
        /\ \A d \in Conns : d # c => out'[d] = out[d] /\ stream'[d] = stream[d]
    BY <1>2 DEF Flush, network, BaseInv, Types
  <2>. QED
    BY <2>1 DEF ClientsHaveWork, ReadWork, WriteWork, AtEnd, Broken, Room
<1>. QED  BY <1>1, <1>2

\* The peers: data and room only grow, and no connection comes back.
LEMMA PeersLeaveWork ==
  ASSUME BaseInv, BaseInv', ClientsHaveWork, NEW c \in Conns,
         \/ PeerConnect(c) \/ PeerSend(c) \/ PeerRead(c)
         \/ PeerClose(c) \/ PeerAbort(c) \/ ResetArrives(c)
  PROVE  ClientsHaveWork'
<1>. SUFFICES ASSUME NEW d \in Conns
              PROVE  /\ <<d, "R">> \in active' => ReadWork(d)'
                     /\ <<d, "W">> \in active' => WriteWork(d)'
  BY DEF ClientsHaveWork
<1>1. active' = active /\ UNCHANGED <<out, stream>>
  BY DEF PeerConnect, PeerSend, PeerRead, PeerClose, PeerAbort, ResetArrives,
         server, base, history
<1>2. d # c => inq'[d] = inq[d] /\ tcp'[d] = tcp[d] /\ taken'[d] = taken[d]
  BY DEF PeerConnect, PeerSend, PeerRead, PeerClose, PeerAbort, ResetArrives,
         BaseInv, Types
<1>3. CASE d # c
  BY <1>1, <1>2, <1>3
     DEF ClientsHaveWork, ReadWork, WriteWork, AtEnd, Broken, Room
<1>4. CASE d = c
  <2>1. /\ inq[c] \in Nat /\ taken[c] \in Nat /\ Len(stream[c]) \in Nat
        /\ SndBuf \in Nat
    BY LimitsAssumption DEF BaseInv, Types
  <2>2. CASE PeerConnect(c)
    <3>1. bev[c] = "none"
      BY <2>2 DEF PeerConnect, BaseInv, Queued, QueueIsFresh
    <3>2. \A e \in active : e[1] # c
      BY <3>1 DEF BaseInv, Events, EventsOfClients, Owners, ListIsLive
    <3>. QED  BY <1>1, <1>4, <3>2
  <2>3. CASE PeerSend(c)
    <3>1. inq'[c] = inq[c] + 1 /\ tcp' = tcp /\ taken' = taken
      BY <2>3 DEF PeerSend, BaseInv, Types
    <3>. QED
      BY <1>1, <1>4, <2>1, <3>1 DEF ClientsHaveWork, ReadWork, WriteWork, Broken, Room
  <2>4. CASE PeerRead(c)
    <3>1. taken'[c] = taken[c] + 1 /\ tcp' = tcp /\ inq' = inq
      BY <2>4 DEF PeerRead, BaseInv, Types
    <3>. QED
      BY <1>1, <1>4, <2>1, <3>1
         DEF ClientsHaveWork, ReadWork, WriteWork, AtEnd, Broken, Room
  <2>5. CASE PeerClose(c) \/ PeerAbort(c) \/ ResetArrives(c)
    <3>1. /\ tcp'[c] # "estab" /\ inq' = inq /\ taken' = taken
          /\ ~Broken(c)
      BY <2>5 DEF PeerClose, PeerAbort, ResetArrives, BaseInv, Types, Broken
    <3>. QED
      BY <1>1, <1>4, <2>1, <3>1 DEF ClientsHaveWork, ReadWork, WriteWork, AtEnd, Room
  <2>. QED  BY <2>2, <2>3, <2>4, <2>5
<1>. QED  BY <1>3, <1>4

LEMMA WorkNext ==
  BaseInv /\ BaseInv' /\ ClientsHaveWork /\ [Next]_vars => ClientsHaveWork'
<1>. SUFFICES ASSUME BaseInv, BaseInv', ClientsHaveWork, [Next]_vars
              PROVE  ClientsHaveWork'
  OBVIOUS
<1>1. CASE Poll
  BY <1>1, PollFindsWork
<1>2. CASE RunAccept
  <2>1. active' = active /\ UNCHANGED <<out, tcp, inq, stream, taken>>
    BY <1>2 DEF RunAccept, AcceptFails, Accept, AcceptOutOfMemory, server, history,
                network
  <2>. QED  BY <2>1, WorkKept
<1>3. ASSUME NEW c \in Conns, Relay(c) \/ Flush(c)
      PROVE  ClientsHaveWork'
  BY <1>3, CallbackLeavesWork
<1>4. ASSUME NEW c \in Conns, ReadEnds(c) \/ ReadOutOfMemory(c) \/ WriteFails(c)
      PROVE  ClientsHaveWork'
  <2>1. active' \subseteq active /\ UNCHANGED <<out, tcp, inq, stream, taken>>
    BY <1>4 DEF ReadEnds, ReadOutOfMemory, WriteFails, Disconnect, Cancelled,
                history, network
  <2>. QED  BY <2>1, WorkKept
<1>5. ASSUME NEW c \in Conns, RunFinal(c) PROVE ClientsHaveWork'
  <2>1. active' = {}
    BY <1>5 DEF RunFinal, base
  <2>. QED  BY <2>1 DEF ClientsHaveWork
<1>6. ASSUME NEW c \in Conns, WriteKills(c) PROVE ClientsHaveWork'
  BY <1>6, WorkKept DEF WriteKills, base, history, network
<1>7. CASE Peers
  BY <1>7, PeersLeaveWork DEF Peers
<1>8. CASE UNCHANGED vars
  BY <1>8, WorkKept DEF vars, server, base, history, network
<1>. QED
  BY <1>1, <1>2, <1>3, <1>4, <1>5, <1>6, <1>7, <1>8 DEF Next, Loop

(***************************************************************************)
(* CallbacksHaveWork: between epoll_wait and a callback the peers and the  *)
(* other callbacks may do anything; what was reported to the callback is   *)
(* still so when it runs.  Neither read, write nor accept ever comes for   *)
(* nothing.                                                                *)
(***************************************************************************)
THEOREM CallbacksDue == Spec => []CallbacksHaveWork
<1>1. Spec => []BaseInv
  BY BaseAlways
<1>2. Init => ClientsHaveWork
  BY DEF Init, NobodyYet, ClientsHaveWork
<1>3. BaseInv /\ BaseInv' /\ ClientsHaveWork /\ [Next]_vars => ClientsHaveWork'
  BY WorkNext
<1>4. BaseInv /\ ClientsHaveWork => CallbacksHaveWork
  BY WorkSplits DEF BaseInv
<1>. QED  BY <1>1, <1>2, <1>3, <1>4, PTL DEF Spec

=============================================================================
