------------------------------ MODULE EchoServer ------------------------------
(***************************************************************************)
(* server_socket.py: the main thread accepts, and a thread for each client *)
(* greets it and answers what it says.  The threads share nothing but the  *)
(* socket that the main thread's variable conn still names when its thread *)
(* is running, and the process's descriptors and threads.                  *)
(***************************************************************************)
EXTENDS Naturals, Sequences, FiniteSets

CONSTANTS
  Conns,       \* the connections that may ever be made
  None,        \* the value of conn before the first accept
  Attentive,   \* the clients that read
  RecvMax,     \* units of a recv
  Window,      \* answers that fit between a thread and its client's program
  Backlog,     \* listen(10)
  Limits,      \* what the process may be given: descriptors for connections,
               \* and threads beside the main one
  MaxSay       \* bound: units that clients say

ASSUME NamesAssumption == None \notin Conns /\ Attentive \subseteq Conns
ASSUME LimitsAssumption ==
  /\ {RecvMax, Window, Backlog} \subseteq Nat \ {0} /\ MaxSay \in Nat
  /\ Limits \subseteq [fds : Nat \ {0}, threads : Nat \ {0}]

VARIABLES
  limits,   \* those of this process, from the shell that started it
  main,     \* where the main thread is
  conn,     \* the last connection accepted
  thread,   \* where each client's thread is
  sock,     \* the server's socket objects
  tcp,      \* each connection, as the server's kernel sees it
  queue,    \* connections not yet accepted
  inq,      \* what a client said that its thread has not received
  said,     \* how much was said
  stream,   \* how many messages were written to each client
  taken     \* how many of them its program has read

process == <<limits, main, conn, thread, sock>>
kernel == <<tcp, queue, inq, said, stream, taken>>
vars == <<process, kernel>>

Running == { c \in Conns : thread[c] \in {"welcome", "recv", "reply"} }
Open == { c \in Conns : sock[c] = "open" }

Init ==
  /\ limits \in Limits
  /\ main = "accept"
  /\ conn = None
  /\ thread = [c \in Conns |-> "none"]
  /\ sock = [c \in Conns |-> "none"]
  /\ tcp = [c \in Conns |-> "idle"]
  /\ queue = <<>>
  /\ inq = [c \in Conns |-> 0]
  /\ said = 0
  /\ stream = [c \in Conns |-> 0]
  /\ taken = [c \in Conns |-> 0]

-----------------------------------------------------------------------------
(***************************************************************************)
(* The main thread.                                                        *)
(***************************************************************************)
\* The variable names another connection, so that the one it named is closed
\* if nothing else holds it.
Named == IF conn = None THEN {} ELSE {conn}
Swept(c, gone) ==
  [d \in Conns |-> IF d = c THEN "open" ELSE IF d \in gone THEN "closed" ELSE sock[d]]
StillHeld(c) == Swept(c, {})
Rebound(c) == Swept(c, Named \ Running)

\* accept returns with the descriptor that it took when it was called.
Accept ==
  /\ main = "accept"
  /\ queue # <<>>
  /\ queue' = Tail(queue)
  /\ conn' = Head(queue)
  /\ sock' = Rebound(Head(queue))
  /\ main' = "start"
  /\ UNCHANGED <<limits, thread, tcp, inq, said, stream, taken>>

\* start_new_thread, and accept is called again.
HasDescriptor == Cardinality(Open) < limits.fds
StartInline ==
  /\ main = "start"
  /\ thread[conn] \in {"none", "ended"}
  /\ thread' = [thread EXCEPT ![conn] = IF @ = "none" THEN "welcome" ELSE @]
  /\ main' = IF thread[conn] = "ended" THEN "accept" ELSE main
  /\ UNCHANGED <<limits, conn, sock, kernel>>
Start ==
  /\ main = "start"
  /\ Cardinality(Running) < limits.threads
  /\ HasDescriptor
  /\ thread' = [thread EXCEPT ![conn] = "welcome"]
  /\ main' = "accept"
  /\ UNCHANGED <<limits, conn, sock, kernel>>

\* Neither exception is caught: the program ends, and its threads with it.
Dies ==
  /\ main = "start"
  /\ Cardinality(Running) >= limits.threads \/ ~HasDescriptor
  /\ main' = "dead"
  /\ UNCHANGED <<limits, conn, thread, sock, kernel>>

-----------------------------------------------------------------------------
(***************************************************************************)
(* client_thread.                                                          *)
(***************************************************************************)
Steps(c, from, to) ==
  /\ main # "dead"
  /\ thread[c] = from
  /\ thread' = [thread EXCEPT ![c] = to]

Resets == {"reset", "finreset"}

\* The call blocks while there is no room.
Writes(c) ==
  /\ tcp[c] \notin Resets
  /\ stream[c] - taken[c] < Window
  /\ stream' = [stream EXCEPT ![c] = @ + 1]
  /\ UNCHANGED <<limits, main, conn, sock, tcp, queue, inq, said, taken>>

Welcome(c) == Steps(c, "welcome", "recv") /\ Writes(c)
Reply(c) == Steps(c, "reply", "recv") /\ Writes(c)

\* What has arrived is received, also after a RST.
Receive(c) ==
  /\ Steps(c, "recv", "reply")
  /\ \E n \in 1 .. RecvMax : n <= inq[c] /\ inq' = [inq EXCEPT ![c] = @ - n]
  /\ UNCHANGED <<limits, main, conn, sock, tcp, queue, said, stream, taken>>

\* No data: the loop is left and the connection closed, whoever names it.
ReceiveNothing(c) ==
  /\ Steps(c, "recv", "ended")
  /\ inq[c] = 0 /\ tcp[c] \in {"fin", "finreset"}
  /\ sock' = [sock EXCEPT ![c] = "closed"]
  /\ UNCHANGED <<limits, main, conn, kernel>>

\* An exception ends the thread.  The socket is closed if conn does not name it.
LeftOpen(c) == sock
Dropped(c) == IF c = conn THEN sock ELSE [sock EXCEPT ![c] = "closed"]
Raises(c) ==
  /\ \/ tcp[c] \in Resets /\ (Steps(c, "welcome", "ended") \/ Steps(c, "reply", "ended"))
     \/ tcp[c] = "reset" /\ inq[c] = 0 /\ Steps(c, "recv", "ended")
  /\ sock' = Dropped(c)
  /\ UNCHANGED <<limits, main, conn, kernel>>

MainThread == Accept \/ Start \/ Dies
ClientThread(c) == Welcome(c) \/ Receive(c) \/ Reply(c) \/ ReceiveNothing(c) \/ Raises(c)

-----------------------------------------------------------------------------
(***************************************************************************)
(* The clients and the network.                                            *)
(***************************************************************************)
Connect(c) ==
  /\ tcp[c] = "idle" /\ main # "dead"
  /\ Len(queue) < Backlog
  /\ tcp' = [tcp EXCEPT ![c] = "estab"]
  /\ queue' = Append(queue, c)
  /\ UNCHANGED <<process, inq, said, stream, taken>>

Say(c) ==
  /\ tcp[c] = "estab" /\ main # "dead"
  /\ said < MaxSay
  /\ said' = said + 1
  /\ inq' = [inq EXCEPT ![c] = @ + 1]
  /\ UNCHANGED <<process, tcp, queue, stream, taken>>

Read(c) ==
  /\ tcp[c] = "estab"
  /\ taken[c] < stream[c]
  /\ taken' = [taken EXCEPT ![c] = @ + 1]
  /\ UNCHANGED <<process, tcp, queue, inq, said, stream>>

Leave(c) ==
  /\ tcp[c] = "estab" /\ main # "dead"
  /\ tcp' = [tcp EXCEPT ![c] = IF taken[c] < stream[c] THEN "reset" ELSE "fin"]
  /\ UNCHANGED <<process, queue, inq, said, stream, taken>>

ResetArrives(c) ==
  /\ tcp[c] = "fin"
  /\ taken[c] < stream[c]
  /\ tcp' = [tcp EXCEPT ![c] = "finreset"]
  /\ UNCHANGED <<process, queue, inq, said, stream, taken>>

Next ==
  \/ MainThread
  \/ \E c \in Conns :
       ClientThread(c) \/ Connect(c) \/ Say(c) \/ Read(c) \/ Leave(c) \/ ResetArrives(c)

Spec == Init /\ [][Next]_vars

\* Every thread gets its turn, and the attentive clients read.
FairSpec ==
  /\ Spec
  /\ WF_vars(MainThread)
  /\ \A c \in Conns : WF_vars(ClientThread(c))
  /\ \A c \in Attentive : WF_vars(Read(c))

-----------------------------------------------------------------------------
\* Every variable has its type, and no more is written to a client than fits.
TypeOK ==
  /\ limits \in Limits
  /\ main \in {"accept", "start", "dead"}
  /\ conn \in Conns \cup {None}
  /\ thread \in [Conns -> {"none", "welcome", "recv", "reply", "ended"}]
  /\ sock \in [Conns -> {"none", "open", "closed"}]
  /\ queue \in Seq(Conns)
  /\ \A c \in Conns : taken[c] <= stream[c] /\ stream[c] - taken[c] <= Window

\* A running thread has an open socket, whichever thread closes what, and of
\* the connections whose thread has ended only the one that was accepted last
\* may still hold a descriptor, whatever ended the thread and when (conn names
\* it beside the thread, server_socket.py:49).
OnlyLastIsHeld ==
  /\ Running \subseteq Open
  /\ \A c \in Conns : sock[c] = "open" /\ thread[c] = "ended" => c = conn

\* The descriptors that are in use are those of running threads and one more;
\* the program ends only when they, or the threads, are all in use.
DiesOnlyWhenFull ==
  main = "dead" =>
    Cardinality(Running) >= limits.threads \/ Cardinality(Running) + 1 >= limits.fds

\* A client that reads is answered, whatever the other clients do not read
\* ("start a new thread", server_socket.py:53).
SlowHarmsNobody ==
  \A c \in Attentive :
    inq[c] > 0 ~> (inq[c] = 0 \/ tcp[c] # "estab" \/ main = "dead")

=============================================================================
