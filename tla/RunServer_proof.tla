---------------------------- MODULE RunServer_proof ----------------------------
(***************************************************************************)
(* Proofs about RunServer, for any sets of scripts and connections.        *)
(***************************************************************************)
EXTENDS RunServer, TLAPS

\* Between the last look and the bind nothing can appear on the port: a
\* connection needs a server, and a server that comes up overtakes.
ClearToStart ==
  \A s \in Scripts : pc[s] = "start" => overtaken[s] \/ ~PortTaken

Inv == TypeOK /\ FailsOnlyOvertaken /\ NothingLeftOver /\ ClearToStart

\* Nothing is on the port before the first start (runServer.sh is not running).
LEMMA InvInit == Init => Inv
  BY DEF Init, Inv, TypeOK, Places, TcpStates, Ends, FailsOnlyOvertaken,
         NothingLeftOver, ClearToStart, Up

\* Every step of a script, of a server or of the kernel keeps the invariant.
LEMMA InvNext == Inv /\ [Next]_vars => Inv'
<1>. SUFFICES ASSUME Inv, [Next]_vars PROVE Inv'
  OBVIOUS
<1>. USE DEF Inv
<1>1. ASSUME NEW s \in Scripts, Run(s) PROVE Inv'
  BY <1>1 DEF Run, net, TypeOK, Places, Ends, FailsOnlyOvertaken, NothingLeftOver,
              ClearToStart, PortTaken, Up
<1>2. ASSUME NEW s \in Scripts, Look(s) PROVE Inv'
  <2>1. TypeOK'
    BY <1>2 DEF Look, net, TypeOK, Places, Ends
  <2>2. Up' <=> Up
    BY <1>2 DEF Look, Up, TypeOK
  <2>3. PortTaken => Listed
    BY DEF PortTaken, Listed
  <2>4. PortTaken' <=> PortTaken
    BY <1>2, <2>2 DEF Look, net, PortTaken
  <2>5. FailsOnlyOvertaken' /\ ClearToStart'
    BY <1>2, <2>3, <2>4 DEF Look, FailsOnlyOvertaken, ClearToStart, TypeOK
  <2>6. NothingLeftOver'
    BY <1>2, <2>2 DEF Look, net, NothingLeftOver, TypeOK
  <2>. QED  BY <2>1, <2>5, <2>6
<1>3. ASSUME NEW s \in Scripts, SleepEnds(s) PROVE Inv'
  BY <1>3 DEF SleepEnds, net, TypeOK, Places, Ends, FailsOnlyOvertaken,
              NothingLeftOver, ClearToStart, PortTaken, Up
<1>4. ASSUME NEW s \in Scripts, Bind(s) PROVE Inv'
  BY <1>4 DEF Bind, net, TypeOK, Places, Ends, FailsOnlyOvertaken, NothingLeftOver,
              ClearToStart, PortTaken, Up
<1>5. ASSUME NEW s \in Scripts, BindFails(s) PROVE Inv'
  BY <1>5 DEF BindFails, net, TypeOK, Places, Ends, FailsOnlyOvertaken,
              NothingLeftOver, ClearToStart, PortTaken, Up
<1>6. ASSUME NEW s \in Scripts, ServerEnds(s) PROVE Inv'
  <2>1. Up /\ ~Up'
    BY <1>6 DEF ServerEnds, Up, NothingLeftOver, TypeOK
  <2>2. TypeOK'
    BY <1>6, <2>1 DEF ServerEnds, TypeOK, TcpStates, Places, Ends
  <2>3. FailsOnlyOvertaken'
    BY <1>6 DEF ServerEnds, FailsOnlyOvertaken, TypeOK
  <2>4. ClearToStart'
    BY <1>6, <2>1 DEF ServerEnds, ClearToStart, PortTaken, TypeOK
  <2>5. NothingLeftOver'
    BY <2>1 DEF Up, NothingLeftOver
  <2>. QED  BY <2>2, <2>3, <2>4, <2>5
<1>7. ASSUME NEW c \in Conns, Connect(c) PROVE Inv'
  BY <1>7 DEF Connect, TypeOK, TcpStates, Ends, FailsOnlyOvertaken, NothingLeftOver,
              ClearToStart, PortTaken, Up
<1>8. ASSUME NEW c \in Conns, ClientLeaves(c) PROVE Inv'
  BY <1>8 DEF ClientLeaves, TypeOK, TcpStates, Ends, FailsOnlyOvertaken,
              NothingLeftOver, ClearToStart, PortTaken, Up
<1>9. ASSUME NEW c \in Conns, ServerCloses(c) PROVE Inv'
  BY <1>9 DEF ServerCloses, TypeOK, TcpStates, Ends, FailsOnlyOvertaken,
              NothingLeftOver, ClearToStart, PortTaken, Up
<1>10. ASSUME NEW c \in Conns, ClientCloses(c) PROVE Inv'
  BY <1>10 DEF ClientCloses, TypeOK, TcpStates, Ends, FailsOnlyOvertaken,
               NothingLeftOver, ClearToStart, PortTaken, Up
<1>11. ASSUME NEW c \in Conns, TimesOut(c) PROVE Inv'
  BY <1>11 DEF TimesOut, TypeOK, TcpStates, Ends, FailsOnlyOvertaken,
               NothingLeftOver, ClearToStart, PortTaken, Up
<1>12. CASE AlikeComesOrGoes
  BY <1>12 DEF AlikeComesOrGoes, net, TypeOK, FailsOnlyOvertaken, NothingLeftOver,
               ClearToStart, PortTaken, Up
<1>13. CASE UNCHANGED vars
  BY <1>13 DEF vars, net, TypeOK, FailsOnlyOvertaken, NothingLeftOver, ClearToStart,
               PortTaken, Up
<1>. QED
  BY <1>1, <1>2, <1>3, <1>4, <1>5, <1>6, <1>7, <1>8, <1>9, <1>10, <1>11, <1>12, <1>13
     DEF Next

LEMMA InvAlways == Spec => []Inv
  BY InvInit, InvNext, PTL DEF Spec

\* The scripts, the servers and the kernel's table of connections stay what
\* runServer.sh and the states of TCP let them be.
THEOREM TypeCorrect == Spec => []TypeOK
  BY InvAlways, PTL DEF Inv

\* The loop of runServer.sh keeps its promise: whatever ends the server before
\* and whoever is still connected, bind fails only behind another script.
THEOREM BindOnlyOvertaken == Spec => []FailsOnlyOvertaken
  BY InvAlways, PTL DEF Inv

\* Two servers never share the port, and a new one (main of fireServer.c) finds
\* no socket of the one before.
THEOREM PortIsClean == Spec => []NothingLeftOver
  BY InvAlways, PTL DEF Inv

=============================================================================
