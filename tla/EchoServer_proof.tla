--------------------------- MODULE EchoServer_proof ----------------------------
(***************************************************************************)
(* Which descriptors server_socket.py has in use, for any number of        *)
(* connections, threads and descriptors.                                   *)
(***************************************************************************)
EXTENDS EchoServer, FiniteSetTheorems, TLAPS

\* The types of what TypeOK says nothing about.
KernelTypes ==
  /\ tcp \in [Conns -> {"idle", "estab", "fin"} \cup Resets]
  /\ inq \in [Conns -> Nat]
  /\ stream \in [Conns -> Nat]
  /\ taken \in [Conns -> Nat]

\* Nothing was made of the connections in the accept queue, which are all
\* different, nor of those that were never made.
QueueIsFresh ==
  /\ \A c \in Conns : tcp[c] = "idle" => thread[c] = "none" /\ sock[c] = "none"
  /\ \A i \in 1 .. Len(queue) : /\ tcp[queue[i]] # "idle"
                                /\ thread[queue[i]] = "none"
                                /\ sock[queue[i]] = "none"
  /\ \A i, j \in 1 .. Len(queue) : queue[i] = queue[j] => i = j

\* A socket is open for its thread, or because conn names it.
HeldByOne ==
  /\ Open \subseteq Running \cup Named
  /\ conn # None => sock[conn] # "none"
  /\ main = "start" => conn # None /\ thread[conn] = "none" /\ sock[conn] = "open"

\* A running thread has its socket.
RunningOpen == \A c \in Running : sock[c] = "open"

Typed == TypeOK /\ RunningOpen

EchoInv ==
  /\ Typed /\ KernelTypes /\ QueueIsFresh /\ HeldByOne
  /\ IsFiniteSet(Running)
  /\ DiesOnlyWhenFull

-----------------------------------------------------------------------------
\* The program before its first accept.
LEMMA EchoInit == Init => EchoInv
<1>. SUFFICES ASSUME Init PROVE EchoInv
  OBVIOUS
<1>1. Running = {} /\ Open = {}
  BY DEF Init, Running, Open
<1>2. <<>> \in Seq(Conns) /\ 1 .. Len(<<>>) = {}
  OBVIOUS
<1>3. Typed /\ KernelTypes
  BY <1>1, <1>2, LimitsAssumption DEF Init, Typed, RunningOpen, TypeOK, KernelTypes
<1>4. QueueIsFresh /\ HeldByOne
  BY <1>1, <1>2 DEF Init, QueueIsFresh, HeldByOne
<1>5. IsFiniteSet(Running)
  BY <1>1, FS_EmptySet
<1>6. DiesOnlyWhenFull
  BY DEF Init, DiesOnlyWhenFull
<1>. QED  BY <1>3, <1>4, <1>5, <1>6 DEF EchoInv

\* The connection that is accepted comes off the queue.
LEMMA Dequeued ==
  ASSUME EchoInv, queue # <<>>
  PROVE  /\ Head(queue) \in Conns /\ Head(queue) = queue[1]
         /\ 1 \in 1 .. Len(queue)
         /\ Tail(queue) \in Seq(Conns)
         /\ \A i \in 1 .. Len(Tail(queue)) :
              /\ i + 1 \in 1 .. Len(queue) /\ i + 1 # 1
              /\ Tail(queue)[i] = queue[i + 1]
<1>1. queue \in Seq(Conns)
  BY DEF EchoInv, Typed, TypeOK
<1>. QED  BY <1>1

\* accept: the name goes from one connection to the next, and the one it named
\* is closed unless its thread holds it.
LEMMA AcceptKeeps ==
  ASSUME EchoInv, Accept
  PROVE  EchoInv'
<1>. DEFINE c == Head(queue)
<1>1. /\ main = "accept" /\ main' = "start" /\ conn' = c /\ queue' = Tail(queue)
      /\ sock' = Rebound(c) /\ queue # <<>>
      /\ UNCHANGED <<limits, thread, tcp, inq, said, stream, taken>>
  BY DEF Accept
<1>2. c \in Conns /\ c = queue[1] /\ c # None
  BY <1>1, Dequeued, NamesAssumption
<1>3. thread[c] = "none" /\ sock[c] = "none" /\ tcp[c] # "idle"
  BY <1>1, <1>2, Dequeued DEF EchoInv, QueueIsFresh
<1>. HIDE DEF c
<1>4. sock'[c] = "open" /\ sock' \in [Conns -> {"none", "open", "closed"}]
  BY <1>1, <1>2 DEF Rebound, Swept, EchoInv, Typed, TypeOK
<1>5. \A d \in Conns : d # c =>
        sock'[d] = IF d \in Named \ Running THEN "closed" ELSE sock[d]
  BY <1>1, <1>2 DEF Rebound, Swept
<1>6. Running' = Running
  BY <1>1 DEF Running
<1>7. Typed'
  <2>1. \A d \in Running : d # c /\ d \in Conns /\ sock[d] = "open"
    BY <1>3 DEF Running, EchoInv, Typed, RunningOpen, TypeOK
  <2>2. \A d \in Running' : sock'[d] = "open"
    BY <1>5, <1>6, <2>1
  <2>. QED  BY <1>1, <1>2, <1>4, <2>2, Dequeued DEF EchoInv, Typed, RunningOpen, TypeOK
<1>8. QueueIsFresh'
  <2>1. \A i \in 1 .. Len(queue') :
          /\ queue'[i] \in Conns /\ queue'[i] # c
          /\ i + 1 \in 1 .. Len(queue) /\ queue'[i] = queue[i + 1]
    <3>1. \A i \in 1 .. Len(queue) : queue[i] \in Conns
      BY DEF EchoInv, Typed, TypeOK
    <3>2. \A i \in 1 .. Len(queue) : i # 1 => queue[i] # c
      BY <1>1, <1>2, Dequeued DEF EchoInv, QueueIsFresh
    <3>. QED  BY <1>1, <3>1, <3>2, Dequeued
  <2>2. \A i \in 1 .. Len(queue') : sock'[queue'[i]] = "none"
    <3>1. \A i \in 1 .. Len(queue') : sock[queue'[i]] = "none"
      BY <2>1 DEF EchoInv, QueueIsFresh
    <3>2. \A i \in 1 .. Len(queue') : queue'[i] \notin Named
      BY <3>1 DEF Named, EchoInv, HeldByOne
    <3>. QED  BY <1>5, <2>1, <3>1, <3>2
  <2>3. \A d \in Conns : tcp'[d] = "idle" => thread'[d] = "none" /\ sock'[d] = "none"
    <3>1. \A d \in Conns : sock[d] = "none" => d \notin Named
      BY DEF Named, EchoInv, HeldByOne
    <3>. QED  BY <1>1, <1>3, <1>5, <3>1 DEF EchoInv, QueueIsFresh
  <2>4. \A i, j \in 1 .. Len(queue') : queue'[i] = queue'[j] => i = j
    <3>. SUFFICES ASSUME NEW i \in 1 .. Len(queue'), NEW j \in 1 .. Len(queue'),
                         queue'[i] = queue'[j]
                  PROVE  i = j
      OBVIOUS
    <3>1. i + 1 = j + 1
      BY <2>1 DEF EchoInv, QueueIsFresh
    <3>. QED  BY <3>1
  <2>5. \A i \in 1 .. Len(queue') : tcp'[queue'[i]] # "idle" /\ thread'[queue'[i]] = "none"
    BY <1>1, <2>1 DEF EchoInv, QueueIsFresh
  <2>. QED  BY <2>2, <2>3, <2>4, <2>5 DEF QueueIsFresh
<1>9. HeldByOne'
  <2>1. \A d \in Open' : d = c \/ d \in Running
    BY <1>5 DEF Open, EchoInv, HeldByOne
  <2>2. Named' = {c}
    BY <1>1, <1>2 DEF Named
  <2>. QED  BY <1>1, <1>2, <1>3, <1>4, <1>6, <2>1, <2>2 DEF HeldByOne
<1>10. KernelTypes' /\ DiesOnlyWhenFull'
  BY <1>1 DEF EchoInv, KernelTypes, DiesOnlyWhenFull
<1>. QED  BY <1>6, <1>7, <1>8, <1>9, <1>10 DEF EchoInv

\* start_new_thread: the thread that starts is that of the connection conn
\* names, which has none.
LEMMA StartKeeps ==
  ASSUME EchoInv, Start
  PROVE  EchoInv'
<1>1. /\ main = "start" /\ main' = "accept"
      /\ thread' = [thread EXCEPT ![conn] = "welcome"]
      /\ UNCHANGED <<limits, conn, sock, tcp, queue, inq, said, stream, taken>>
  BY DEF Start, kernel
<1>2. conn \in Conns /\ conn # None /\ thread[conn] = "none" /\ sock[conn] = "open"
  BY <1>1 DEF EchoInv, HeldByOne, Typed, TypeOK
<1>3. /\ thread'[conn] = "welcome"
      /\ \A d \in Conns : d # conn => thread'[d] = thread[d]
      /\ thread' \in [Conns -> {"none", "welcome", "recv", "reply", "ended"}]
  BY <1>1, <1>2 DEF EchoInv, Typed, TypeOK
<1>4. Running' = Running \cup {conn}
  BY <1>2, <1>3 DEF Running
<1>5. Typed'
  BY <1>1, <1>2, <1>3, <1>4 DEF EchoInv, Typed, RunningOpen, TypeOK
<1>6. QueueIsFresh'
  <2>1. \A i \in 1 .. Len(queue) : queue[i] \in Conns /\ queue[i] # conn
    BY <1>2 DEF EchoInv, Typed, TypeOK, QueueIsFresh
  <2>. QED  BY <1>1, <1>2, <1>3, <2>1 DEF EchoInv, QueueIsFresh
<1>7. HeldByOne'
  BY <1>1, <1>4 DEF EchoInv, HeldByOne, Open, Named
<1>8. IsFiniteSet(Running')
  BY <1>4, FS_AddElement DEF EchoInv
<1>9. KernelTypes' /\ DiesOnlyWhenFull'
  BY <1>1 DEF EchoInv, KernelTypes, DiesOnlyWhenFull
<1>. QED  BY <1>5, <1>6, <1>7, <1>8, <1>9 DEF EchoInv

\* An exception in the main thread: every descriptor in use is that of a
\* running thread or of the connection just accepted.
LEMMA DiesKeeps ==
  ASSUME EchoInv, Dies
  PROVE  EchoInv'
<1>1. /\ main = "start" /\ main' = "dead"
      /\ UNCHANGED <<limits, conn, thread, sock, tcp, queue, inq, said, stream, taken>>
  BY DEF Dies, kernel
<1>2. Running' = Running /\ Open' = Open /\ Named' = Named
  BY <1>1 DEF Running, Open, Named
<1>3. Typed' /\ KernelTypes' /\ QueueIsFresh' /\ HeldByOne'
  BY <1>1, <1>2 DEF EchoInv, Typed, RunningOpen, TypeOK, KernelTypes, QueueIsFresh, HeldByOne
<1>4. /\ IsFiniteSet(Running \cup {conn})
      /\ Cardinality(Running \cup {conn}) \in Nat
      /\ Cardinality(Running) \in Nat
      /\ Cardinality(Running \cup {conn}) <= Cardinality(Running) + 1
  <2>1. IsFiniteSet(Running)
    BY DEF EchoInv
  <2>2. IsFiniteSet(Running \cup {conn})
    BY <2>1, FS_AddElement
  <2>3. /\ Cardinality(Running) \in Nat
        /\ Cardinality(Running \cup {conn}) \in Nat
    BY <2>1, <2>2, FS_CardinalityType
  <2>4. \/ Cardinality(Running \cup {conn}) = Cardinality(Running)
        \/ Cardinality(Running \cup {conn}) = Cardinality(Running) + 1
    BY <2>1, FS_AddElement
  <2>. QED  BY <2>2, <2>3, <2>4
<1>5. /\ Cardinality(Open) \in Nat
      /\ Cardinality(Open) <= Cardinality(Running \cup {conn})
  <2>1. Open \subseteq Running \cup {conn}
    BY DEF EchoInv, HeldByOne, Named
  <2>. QED  BY <1>4, <2>1, FS_Subset, FS_CardinalityType
<1>6. DiesOnlyWhenFull'
  <2>1. limits.fds \in Nat
    BY LimitsAssumption DEF EchoInv, Typed, TypeOK
  <2>2. Cardinality(Running) >= limits.threads \/ Cardinality(Running) + 1 >= limits.fds
    BY <1>4, <1>5, <2>1 DEF Dies, HasDescriptor
  <2>. QED  BY <1>1, <1>2, <2>2 DEF DiesOnlyWhenFull
<1>. QED  BY <1>2, <1>3, <1>6 DEF EchoInv

\* client_thread: a step of a thread that goes on.
LEMMA ThreadGoesOn ==
  ASSUME EchoInv, NEW c \in Conns, Welcome(c) \/ Receive(c) \/ Reply(c)
  PROVE  EchoInv'
<1>1. /\ c \in Running
      /\ \E to \in {"recv", "reply"} : thread' = [thread EXCEPT ![c] = to]
      /\ UNCHANGED <<limits, main, conn, sock, tcp, queue, said, taken>>
  BY DEF Welcome, Receive, Reply, Steps, Writes, Running
<1>2. /\ thread'[c] \in {"recv", "reply"}
      /\ \A d \in Conns : d # c => thread'[d] = thread[d]
      /\ thread' \in [Conns -> {"none", "welcome", "recv", "reply", "ended"}]
  BY <1>1 DEF EchoInv, Typed, TypeOK
<1>3. Running' = Running
  BY <1>1, <1>2 DEF Running
<1>4. /\ stream' \in [Conns -> Nat] /\ inq' \in [Conns -> Nat]
      /\ \A d \in Conns : taken'[d] <= stream'[d] /\ stream'[d] - taken'[d] <= Window
  <2>1. Window \in Nat
    BY LimitsAssumption
  <2>2. CASE Welcome(c) \/ Reply(c)
    <3>1. /\ stream' = [stream EXCEPT ![c] = @ + 1] /\ inq' = inq /\ taken' = taken
          /\ stream[c] - taken[c] < Window
      BY <2>2 DEF Welcome, Reply, Writes
    <3>. QED  BY <2>1, <3>1 DEF EchoInv, Typed, TypeOK, KernelTypes
  <2>3. CASE Receive(c)
    <3>1. PICK n \in 1 .. RecvMax : n <= inq[c] /\ inq' = [inq EXCEPT ![c] = @ - n]
      BY <2>3 DEF Receive
    <3>2. stream' = stream /\ taken' = taken
      BY <2>3 DEF Receive
    <3>3. n \in Nat
      BY LimitsAssumption
    <3>. QED  BY <3>1, <3>2, <3>3 DEF EchoInv, Typed, TypeOK, KernelTypes
  <2>. QED  BY <2>2, <2>3
<1>5. Typed' /\ KernelTypes'
  BY <1>1, <1>2, <1>3, <1>4 DEF EchoInv, Typed, RunningOpen, TypeOK, KernelTypes
<1>6. thread[c] # "none" /\ tcp[c] # "idle"
  BY <1>1 DEF Running, EchoInv, QueueIsFresh
<1>7. QueueIsFresh'
  <2>1. \A i \in 1 .. Len(queue) : queue[i] \in Conns /\ queue[i] # c
    BY <1>6 DEF EchoInv, Typed, TypeOK, QueueIsFresh
  <2>. QED  BY <1>1, <1>2, <1>6, <2>1 DEF EchoInv, QueueIsFresh
<1>8. HeldByOne'
  <2>1. conn # c \/ main # "start"
    BY <1>6 DEF EchoInv, HeldByOne
  <2>. QED  BY <1>1, <1>2, <1>3, <2>1 DEF EchoInv, HeldByOne, Open, Named, Typed, TypeOK
<1>9. DiesOnlyWhenFull'
  BY <1>1, <1>3 DEF EchoInv, DiesOnlyWhenFull
<1>. QED  BY <1>3, <1>5, <1>7, <1>8, <1>9 DEF EchoInv

\* client_thread: its end, by conn.close or by an exception.  After an exception
\* the socket stays open only if conn names it.
LEMMA ThreadEnds ==
  ASSUME EchoInv, NEW c \in Conns, ReceiveNothing(c) \/ Raises(c)
  PROVE  EchoInv'
<1>1. /\ main # "dead" /\ c \in Running
      /\ thread' = [thread EXCEPT ![c] = "ended"]
      /\ \/ sock' = [sock EXCEPT ![c] = "closed"]
         \/ c = conn /\ sock' = sock
      /\ UNCHANGED <<limits, main, conn, tcp, queue, inq, said, stream, taken>>
  BY DEF ReceiveNothing, Raises, Steps, Dropped, Running, kernel
<1>2. /\ thread'[c] = "ended"
      /\ \A d \in Conns : d # c => thread'[d] = thread[d] /\ sock'[d] = sock[d]
      /\ thread' \in [Conns -> {"none", "welcome", "recv", "reply", "ended"}]
      /\ sock' \in [Conns -> {"none", "open", "closed"}]
      /\ sock'[c] # "none"
  BY <1>1 DEF EchoInv, Typed, RunningOpen, TypeOK
<1>3. Running' = Running \ {c}
  BY <1>2 DEF Running
<1>4. Typed' /\ KernelTypes'
  <2>1. \A d \in Running' : sock'[d] = "open"
    BY <1>2, <1>3 DEF Running, EchoInv, Typed, RunningOpen, TypeOK
  <2>. QED  BY <1>1, <1>2, <2>1 DEF EchoInv, Typed, RunningOpen, TypeOK, KernelTypes
<1>5. thread[c] # "none" /\ tcp[c] # "idle"
  BY <1>1 DEF Running, EchoInv, QueueIsFresh
<1>6. QueueIsFresh'
  <2>1. \A i \in 1 .. Len(queue) : queue[i] \in Conns /\ queue[i] # c
    BY <1>5 DEF EchoInv, Typed, TypeOK, QueueIsFresh
  <2>. QED  BY <1>1, <1>2, <1>5, <2>1 DEF EchoInv, QueueIsFresh
<1>7. HeldByOne'
  <2>1. main = "start" => conn # c
    BY <1>5 DEF EchoInv, HeldByOne
  <2>2. \A d \in Open' : d # c => d \in Open
    BY <1>2 DEF Open
  <2>3. c \in Open' => c = conn /\ conn # None
    BY <1>1, <1>2, NamesAssumption DEF Open, EchoInv, Typed, TypeOK
  <2>4. Open' \subseteq Running' \cup Named'
    BY <1>1, <1>3, <2>2, <2>3 DEF EchoInv, HeldByOne, Named
  <2>5. conn # None => conn \in Conns
    BY DEF EchoInv, Typed, TypeOK
  <2>. QED  BY <1>1, <1>2, <2>1, <2>4, <2>5 DEF EchoInv, HeldByOne
<1>8. IsFiniteSet(Running')
  BY <1>3, FS_RemoveElement DEF EchoInv
<1>9. DiesOnlyWhenFull'
  BY <1>1 DEF DiesOnlyWhenFull
<1>. QED  BY <1>4, <1>6, <1>7, <1>8, <1>9 DEF EchoInv

\* The clients and the network touch nothing of the process.
LEMMA ClientsKeep ==
  ASSUME EchoInv, NEW c \in Conns,
         Connect(c) \/ Say(c) \/ Read(c) \/ Leave(c) \/ ResetArrives(c)
  PROVE  EchoInv'
<1>1. UNCHANGED process
  BY DEF Connect, Say, Read, Leave, ResetArrives
<1>2. /\ Running' = Running /\ Open' = Open /\ Named' = Named
      /\ UNCHANGED <<limits, main, conn, thread, sock>>
  BY <1>1 DEF process, Running, Open, Named
<1>3. HeldByOne' /\ DiesOnlyWhenFull'
  BY <1>2 DEF EchoInv, HeldByOne, DiesOnlyWhenFull
<1>4. Window \in Nat
  BY LimitsAssumption
<1>5. CASE Connect(c)
  <2>1. /\ tcp[c] = "idle" /\ tcp' = [tcp EXCEPT ![c] = "estab"]
        /\ queue' = Append(queue, c)
        /\ UNCHANGED <<inq, stream, taken>>
    BY <1>5 DEF Connect
  <2>2. /\ queue \in Seq(Conns) /\ Len(queue) \in Nat
        /\ \A i \in 1 .. Len(queue) : queue[i] \in Conns /\ queue[i] # c
    BY <2>1 DEF EchoInv, Typed, TypeOK, QueueIsFresh
  <2>3. /\ queue' \in Seq(Conns) /\ Len(queue') = Len(queue) + 1
        /\ queue'[Len(queue) + 1] = c
        /\ \A i \in 1 .. Len(queue) : queue'[i] = queue[i]
    BY <2>1, <2>2
  <2>4. Typed' /\ KernelTypes'
    BY <1>2, <2>1, <2>3 DEF EchoInv, Typed, RunningOpen, TypeOK, KernelTypes
  <2>5. \A d \in Conns : tcp'[d] = IF d = c THEN "estab" ELSE tcp[d]
    BY <2>1 DEF EchoInv, KernelTypes
  <2>6. \A i \in 1 .. Len(queue') : i \in 1 .. Len(queue) \/ i = Len(queue) + 1
    BY <2>2, <2>3
  <2>7. thread[c] = "none" /\ sock[c] = "none"
    BY <2>1 DEF EchoInv, QueueIsFresh
  <2>8. QueueIsFresh'
    <3>1. \A i \in 1 .. Len(queue') : /\ tcp'[queue'[i]] # "idle"
                                      /\ thread'[queue'[i]] = "none"
                                      /\ sock'[queue'[i]] = "none"
      BY <1>2, <2>2, <2>3, <2>5, <2>6, <2>7 DEF EchoInv, QueueIsFresh
    <3>2. \A i, j \in 1 .. Len(queue') : queue'[i] = queue'[j] => i = j
      BY <2>2, <2>3, <2>6 DEF EchoInv, QueueIsFresh
    <3>3. \A d \in Conns : tcp'[d] = "idle" => thread'[d] = "none" /\ sock'[d] = "none"
      BY <1>2, <2>5 DEF EchoInv, QueueIsFresh
    <3>. QED  BY <3>1, <3>2, <3>3 DEF QueueIsFresh
  <2>. QED  BY <1>2, <1>3, <2>4, <2>8 DEF EchoInv
<1>6. CASE Say(c) \/ Read(c)
  <2>1. /\ UNCHANGED <<tcp, queue, stream>>
        /\ \/ inq' = [inq EXCEPT ![c] = @ + 1] /\ taken' = taken
           \/ taken[c] < stream[c] /\ taken' = [taken EXCEPT ![c] = @ + 1] /\ inq' = inq
    BY <1>6 DEF Say, Read
  <2>2. /\ inq' \in [Conns -> Nat] /\ taken' \in [Conns -> Nat]
        /\ \A d \in Conns : taken'[d] <= stream[d] /\ stream[d] - taken'[d] <= Window
    <3>1. inq' \in [Conns -> Nat] /\ taken' \in [Conns -> Nat]
      BY <2>1 DEF EchoInv, KernelTypes
    <3>2. \A d \in Conns :
            /\ taken'[d] = taken[d] \/ (taken[d] < stream[d] /\ taken'[d] = taken[d] + 1)
            /\ taken[d] \in Nat /\ stream[d] \in Nat
      BY <2>1 DEF EchoInv, KernelTypes
    <3>3. \A d \in Conns : taken[d] <= stream[d] /\ stream[d] - taken[d] <= Window
      BY DEF EchoInv, Typed, TypeOK
    <3>. QED  BY <1>4, <3>1, <3>2, <3>3
  <2>3. Typed' /\ KernelTypes' /\ QueueIsFresh'
    BY <1>2, <2>1, <2>2 DEF EchoInv, Typed, RunningOpen, TypeOK, KernelTypes, QueueIsFresh
  <2>. QED  BY <1>2, <1>3, <2>3 DEF EchoInv
<1>7. CASE Leave(c) \/ ResetArrives(c)
  <2>1. /\ UNCHANGED <<queue, inq, stream, taken>>
        /\ tcp[c] # "idle"
        /\ \E t \in {"fin"} \cup Resets : tcp' = [tcp EXCEPT ![c] = t]
    BY <1>7 DEF Leave, ResetArrives, Resets
  <2>2. /\ tcp' \in [Conns -> {"idle", "estab", "fin"} \cup Resets]
        /\ \A d \in Conns : (tcp'[d] = "idle") <=> (tcp[d] = "idle")
    BY <2>1 DEF EchoInv, KernelTypes, Resets
  <2>3. \A i \in 1 .. Len(queue) : queue[i] \in Conns
    BY DEF EchoInv, Typed, TypeOK
  <2>4. Typed' /\ KernelTypes'
    BY <1>2, <2>1, <2>2 DEF EchoInv, Typed, RunningOpen, TypeOK, KernelTypes
  <2>5. QueueIsFresh'
    BY <1>2, <2>1, <2>2, <2>3 DEF EchoInv, QueueIsFresh
  <2>. QED  BY <1>2, <1>3, <2>4, <2>5 DEF EchoInv
<1>. QED  BY <1>5, <1>6, <1>7

LEMMA EchoNext == EchoInv /\ [Next]_vars => EchoInv'
<1>. SUFFICES ASSUME EchoInv, [Next]_vars PROVE EchoInv'
  OBVIOUS
<1>1. CASE MainThread
  BY <1>1, AcceptKeeps, StartKeeps, DiesKeeps DEF MainThread
<1>2. ASSUME NEW c \in Conns, ClientThread(c) PROVE EchoInv'
  BY <1>2, ThreadGoesOn, ThreadEnds DEF ClientThread
<1>3. ASSUME NEW c \in Conns,
             Connect(c) \/ Say(c) \/ Read(c) \/ Leave(c) \/ ResetArrives(c)
      PROVE  EchoInv'
  BY <1>3, ClientsKeep
<1>4. CASE UNCHANGED vars
  BY <1>4 DEF vars, process, kernel, EchoInv, Typed, RunningOpen, TypeOK, KernelTypes, QueueIsFresh,
              HeldByOne, DiesOnlyWhenFull, Running, Open, Named
<1>. QED  BY <1>1, <1>2, <1>3, <1>4 DEF Next

LEMMA EchoAlways == Spec => []EchoInv
BY EchoInit, EchoNext, PTL DEF Spec

\* Every variable keeps its type, and no thread writes more than a socket takes
\* (sendall).
THEOREM TypeCorrect == Spec => []TypeOK
BY EchoAlways, PTL DEF EchoInv, Typed

\* A running thread has its socket, and none leaves a descriptor behind but that
\* of the last connection accepted (conn, server_socket.py:49), however it ends.
THEOREM OneDescriptorHeld == Spec => []OnlyLastIsHeld
<1>1. EchoInv => OnlyLastIsHeld
  BY DEF EchoInv, Typed, RunningOpen, HeldByOne, OnlyLastIsHeld, Open, Running,
         Named
<1>. QED  BY <1>1, EchoAlways, PTL

\* The uncaught exceptions of the main thread (server_socket.py:49 and 55) come
\* only when threads, or descriptors but one, are all in use.
THEOREM DiesFull == Spec => []DiesOnlyWhenFull
BY EchoAlways, PTL DEF EchoInv

=============================================================================
