------------------------------- MODULE RunServer -------------------------------
(***************************************************************************)
(* runServer.sh: start fireServer on a router where one may have run       *)
(* before.  The script waits until no line of netstat has the digits of    *)
(* the port in it, then starts the server in the foreground; the server    *)
(* ends when it is killed (by SIGPIPE for one, see FireServer) and         *)
(* somebody runs the script again, or runs it a second time meanwhile.     *)
(*                                                                         *)
(* The state is what the kernel has in its table of TCP sockets: the end   *)
(* of each connection that belongs to a server ("near") and the one that   *)
(* belongs to a client program ("far"), which is in the same table when    *)
(* the program runs on the router (shBuild-Server.sh copies them there).   *)
(***************************************************************************)
EXTENDS Naturals

CONSTANTS
  Scripts,   \* the shells that run runServer.sh
  Conns,     \* connections to the port; one that is over may be made again
  Local,     \* the connections whose client program runs on the router
  Deaf       \* those whose program does not act on the end of the connection

ASSUME LocalAssumption == Local \subseteq Conns
ASSUME DeafAssumption  == Deaf \subseteq Conns

VARIABLES
  pc,        \* where each script is, and the server that it started
  near,      \* the server's socket of each connection
  far,       \* the client's socket of each connection
  alike,     \* whether netstat has a line with the digits of the port that is
             \* not about it: of another port, a process or an inode
  overtaken  \* history: whether a server came up after the script's last look

net  == <<near, far>>
vars == <<pc, net, alike, overtaken>>

\* "look": about to run netstat; "sleep"; "start": out of the loop, fireServer
\* not yet bound; "serving": fireServer listens; "refused": its bind failed.
Places  == {"off", "look", "sleep", "start", "serving", "refused"}
Waiting == {"look", "sleep"}

TcpStates == {"closed", "estab", "fin_wait", "close_wait", "time_wait"}

Up == \E s \in Scripts : pc[s] = "serving"

\* netstat -anp | grep 6088: whether any column of a line holds the digits.
ListedIfUp == alike \/ Up \/ \E c \in Conns : near[c] = "estab"
Listed ==
  \/ alike
  \/ Up
  \/ \E c \in Conns : near[c] # "closed"
  \/ \E c \in Local : far[c] # "closed"

\* bind without SO_REUSEADDR: whether a socket is bound to the local port, in
\* whatever state.
PortTakenByServer == Up
PortTaken == Up \/ \E c \in Conns : near[c] # "closed"

Init ==
  /\ pc = [s \in Scripts |-> "off"]
  /\ near = [c \in Conns |-> "closed"]
  /\ far = [c \in Conns |-> "closed"]
  /\ alike \in BOOLEAN
  /\ overtaken = [s \in Scripts |-> FALSE]

-----------------------------------------------------------------------------
Run(s) ==
  /\ pc[s] \in {"off", "refused"}
  /\ pc' = [pc EXCEPT ![s] = "look"]
  /\ UNCHANGED <<net, alike, overtaken>>

\* code=$(netstat ...); if [ -n "$code" ].
Look(s) ==
  /\ pc[s] = "look"
  /\ pc' = [pc EXCEPT ![s] = IF Listed THEN "sleep" ELSE "start"]
  /\ overtaken' = [overtaken EXCEPT ![s] = FALSE]
  /\ UNCHANGED <<net, alike>>

SleepsOn(s) == pc[s] = "sleep" /\ UNCHANGED vars
SleepEnds(s) ==
  /\ pc[s] = "sleep"
  /\ pc' = [pc EXCEPT ![s] = "look"]
  /\ UNCHANGED <<net, alike, overtaken>>

\* ./fireServer: bind, then listen and the loop, or err(1, "bind failed").
Bind(s) ==
  /\ pc[s] = "start"
  /\ ~PortTaken
  /\ pc' = [pc EXCEPT ![s] = "serving"]
  /\ overtaken' = [t \in Scripts |-> t # s]
  /\ UNCHANGED <<net, alike>>

BindFails(s) ==
  /\ pc[s] = "start"
  /\ PortTaken
  /\ pc' = [pc EXCEPT ![s] = "refused"]
  /\ UNCHANGED <<net, alike, overtaken>>

\* The server ends, and with it the script.  The kernel closes its sockets:
\* with a RST where something was unread, else with a FIN.
ServerEnds(s) ==
  /\ pc[s] = "serving"
  /\ pc' = [pc EXCEPT ![s] = "off"]
  /\ \E R \in SUBSET { c \in Conns : near[c] \in {"estab", "close_wait"} } :
       /\ near' = [c \in Conns |->
                     IF c \in R \/ near[c] = "close_wait" THEN "closed"
                     ELSE IF near[c] = "estab" THEN "fin_wait" ELSE near[c]]
       /\ far' = [c \in Conns |->
                    IF c \in R THEN "closed"
                    ELSE IF near[c] = "estab" THEN "close_wait"
                    ELSE IF near[c] = "close_wait" THEN "time_wait" ELSE far[c]]
  /\ UNCHANGED <<alike, overtaken>>

-----------------------------------------------------------------------------
(***************************************************************************)
(* The connections.                                                        *)
(***************************************************************************)
Connect(c) ==
  /\ Up
  /\ near[c] = "closed" /\ far[c] = "closed"
  /\ near' = [near EXCEPT ![c] = "estab"]
  /\ far' = [far EXCEPT ![c] = "estab"]
  /\ UNCHANGED <<pc, alike, overtaken>>

\* The client program ends, or is ended, while the server is there: with a
\* FIN, or a RST if it has not read everything.
ClientLeaves(c) ==
  /\ far[c] = "estab"
  /\ \/ /\ near' = [near EXCEPT ![c] = "close_wait"]
        /\ far' = [far EXCEPT ![c] = "fin_wait"]
     \/ /\ near' = [near EXCEPT ![c] = "closed"]
        /\ far' = [far EXCEPT ![c] = "closed"]
  /\ UNCHANGED <<pc, alike, overtaken>>

\* buffered_on_error: the server closes the socket at the end of file.
ServerCloses(c) ==
  /\ Up
  /\ near[c] = "close_wait"
  /\ near' = [near EXCEPT ![c] = "closed"]
  /\ far' = [far EXCEPT ![c] = "time_wait"]
  /\ UNCHANGED <<pc, alike, overtaken>>

\* The client program closes after the server: at once if it acts on the end
\* of the connection, and if not (event_cb of fireClientRead) only when
\* somebody ends the program.
ClientCloses(c) ==
  /\ far[c] = "close_wait"
  /\ far' = [far EXCEPT ![c] = "closed"]
  /\ \/ near' = [near EXCEPT ![c] = IF @ = "fin_wait" THEN "time_wait" ELSE @]
     \/ near' = [near EXCEPT ![c] = IF @ = "fin_wait" THEN "closed" ELSE @]
  /\ UNCHANGED <<pc, alike, overtaken>>

\* The kernel gives up on a socket nobody owns, one minute after its FIN.
TimesOut(c) ==
  \/ /\ near[c] \in {"fin_wait", "time_wait"}
     /\ near' = [near EXCEPT ![c] = "closed"]
     /\ UNCHANGED <<pc, far, alike, overtaken>>
  \/ /\ far[c] = "time_wait"
     /\ far' = [far EXCEPT ![c] = "closed"]
     /\ UNCHANGED <<pc, near, alike, overtaken>>

\* Programs that have nothing to do with the server come and go.
AlikeComesOrGoes ==
  /\ alike' = ~alike
  /\ UNCHANGED <<pc, net, overtaken>>

-----------------------------------------------------------------------------
Next ==
  \/ \E s \in Scripts :
       \/ Run(s) \/ Look(s) \/ SleepEnds(s)
       \/ Bind(s) \/ BindFails(s) \/ ServerEnds(s)
  \/ \E c \in Conns :
       \/ Connect(c) \/ ClientLeaves(c) \/ ServerCloses(c)
       \/ ClientCloses(c) \/ TimesOut(c)
  \/ AlikeComesOrGoes

Spec == Init /\ [][Next]_vars

\* The script goes on, the server serves, the kernel's timers expire, and the
\* programs that act on the end of a connection do so.  Nobody has to start a
\* script, end a server or connect.
FairSpec ==
  /\ Spec
  /\ \A s \in Scripts : WF_vars(Look(s) \/ SleepEnds(s) \/ Bind(s) \/ BindFails(s))
  /\ \A c \in Conns : WF_vars(ServerCloses(c)) /\ WF_vars(TimesOut(c))
  /\ \A c \in Conns \ Deaf : WF_vars(ClientCloses(c))

-----------------------------------------------------------------------------
\* The states of the two ends that go together.
Ends ==
  { <<"closed", "closed">>, <<"estab", "estab">>,
    <<"close_wait", "fin_wait">>, <<"closed", "time_wait">>,
    <<"fin_wait", "close_wait">>, <<"closed", "close_wait">>,
    <<"time_wait", "closed">> }

\* Every variable has its type, and whoever ends a connection first, server,
\* client or timer, its two ends never contradict each other.
TypeOK ==
  /\ pc \in [Scripts -> Places]
  /\ near \in [Conns -> TcpStates]
  /\ far \in [Conns -> TcpStates]
  /\ \A c \in Conns : <<near[c], far[c]>> \in Ends
  /\ alike \in BOOLEAN
  /\ overtaken \in [Scripts -> BOOLEAN]

\* The wait of runServer.sh is enough: bind ("bind failed", fireServer.c:194)
\* fails only when another script's server came up after this script's last
\* look.  With one script the server always gets its port, although
\* SO_REUSEADDR is set too late to help.
FailsOnlyOvertaken == \A s \in Scripts : pc[s] = "refused" => overtaken[s]

\* A server and its sockets: no two servers have the port, and while one has,
\* the sockets on the port that are open are its own; none is left over from
\* a server before (bind refuses what netstat missed).
NothingLeftOver ==
  /\ \A s, t \in Scripts : pc[s] = "serving" /\ pc[t] = "serving" => s = t
  /\ Up => \A c \in Conns : near[c] \notin {"fin_wait", "time_wait"}

\* The loop of runServer.sh ends, unless another server is up, a client
\* program on the router holds on to a connection that its server has closed,
\* or the digits turn up in a line about something else: what the server
\* before left in the kernel, and the clients elsewhere, delay it only.
OnlyTheDeafHoldUp ==
  \A s \in Scripts :
    (pc[s] \in Waiting)
      ~> \/ pc[s] \notin Waiting
         \/ Up \/ alike
         \/ \E c \in Local \cap Deaf : far[c] = "close_wait"

=============================================================================
