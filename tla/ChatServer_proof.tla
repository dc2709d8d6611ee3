---------------------------- MODULE ChatServer_proof ----------------------------
(***************************************************************************)
(* Proofs about ChatServer, for any finite number of chat clients, any     *)
(* size of the receive buffer, of the connections and of the backlog.      *)
(***************************************************************************)
EXTENDS ChatServer, FiniteSetTheorems, TLAPS

-----------------------------------------------------------------------------
(***************************************************************************)
(* Types.                                                                  *)
(***************************************************************************)
Distinct(s) == \A i, j \in 1 .. Len(s) : s[i] = s[j] => i = j
In(x, s) == \E i \in 1 .. Len(s) : s[i] = x
Broken == {"reset", "finreset"}

\* The list is that of the open sockets (ListIsOpen).
ListSound ==
  pc # "dead" =>
    /\ list # <<>> /\ list[1] = server
    /\ \A c \in Conns : In(c, list) <=> sock[c] = "open"
    /\ Distinct(list)

\* What is left of a round: sockets that were accepted, each once; and the
\* listening socket is ready as long as it is to be handled.
RoundGoesOn ==
  /\ Distinct(todo)
  /\ In(server, todo) => queue # <<>>
  /\ \A c \in Conns : In(c, todo) => sock[c] # "none"
  /\ pc = "handle" => todo # <<>>

\* A broadcast is on behalf of a client, whose message is the last of the log.
CastIsOn ==
  /\ pc \in {"call", "sending"} => cast.sock \in Conns
  /\ pc = "dead" /\ cast.fatal => cast.sock \in Conns
  /\ pc = "call" => cast.at = 1
  /\ pc = "sending" => Len(log) > 0 /\ log[Len(log)] = cast.sock

\* Connections that wait to be accepted have no socket object.
QueueIsNew ==
  pc # "dead" =>
    /\ Distinct(queue)
    /\ \A c \in Conns : In(c, queue) => sock[c] = "none" /\ tcp[c] # "idle"
    /\ \A c \in Conns : tcp[c] = "idle" => sock[c] = "none"

\* A socket is closed, and an except clause run, only for a broken connection;
\* between broadcasts none is under way; and otherwise only limits end the server.
FaultsAreResets ==
  /\ \A c \in Conns : sock[c] = "closed" => tcp[c] \in Broken
  /\ pc \in {"call", "sending", "dead"} /\ cast.fatal => tcp[cast.sock] \in Broken
  /\ pc \in {"select", "handle"} => ~cast.fatal
  /\ pc = "dead" /\ ~cast.fatal => Cardinality(Listed) >= limits.fds \/ far \cap Listed # {}

ServerInv == TypeOK /\ ListSound /\ RoundGoesOn /\ CastIsOn /\ QueueIsNew /\ FaultsAreResets

-----------------------------------------------------------------------------
(***************************************************************************)
(* Sequences.                                                              *)
(***************************************************************************)
\* The rest of a sequence without its head.
LEMMA TailFacts ==
  ASSUME NEW S, NEW s \in Seq(S), s # <<>>
  PROVE  /\ Head(s) \in S /\ Head(s) = s[1] /\ In(Head(s), s)
         /\ Tail(s) \in Seq(S) /\ Len(Tail(s)) = Len(s) - 1
         /\ \A x : In(x, Tail(s)) => In(x, s)
         /\ Distinct(s) => Distinct(Tail(s)) /\ ~ In(Head(s), Tail(s))
<1>1. /\ Head(s) = s[1] /\ Len(s) \in Nat /\ Len(s) > 0 /\ s[1] \in S
      /\ Tail(s) \in Seq(S) /\ Len(Tail(s)) = Len(s) - 1
      /\ \A i \in 1 .. Len(s) - 1 : Tail(s)[i] = s[i + 1]
  OBVIOUS
<1>2. In(Head(s), s)
  BY <1>1 DEF In
<1>3. \A x : In(x, Tail(s)) => In(x, s)
  BY <1>1 DEF In
<1>4. Distinct(s) => Distinct(Tail(s)) /\ ~ In(Head(s), Tail(s))
  <2>. DEFINE t == Tail(s)
  <2>1. /\ \A i \in 1 .. Len(t) : i + 1 \in 1 .. Len(s) /\ t[i] = s[i + 1] /\ i + 1 # 1
        /\ 1 \in 1 .. Len(s)
    BY <1>1
  <2>. HIDE DEF t
  <2>2. Distinct(s) => Distinct(t)
    BY <2>1 DEF Distinct
  <2>3. Distinct(s) => ~ In(s[1], t)
    BY <2>1 DEF Distinct, In
  <2>. QED  BY <1>1, <2>2, <2>3 DEF t
<1>. QED  BY <1>1, <1>2, <1>3, <1>4

\* One more at the end of a sequence.
LEMMA AppendFacts ==
  ASSUME NEW S, NEW s \in Seq(S), NEW x \in S
  PROVE  /\ Append(s, x) \in Seq(S) /\ Len(Append(s, x)) = Len(s) + 1
         /\ Append(s, x) # <<>>
         /\ s # <<>> => Append(s, x)[1] = s[1]
         /\ \A y : In(y, Append(s, x)) <=> In(y, s) \/ y = x
         /\ Distinct(s) /\ ~ In(x, s) => Distinct(Append(s, x))
<1>. DEFINE t == Append(s, x)
<1>1. /\ t \in Seq(S) /\ Len(t) = Len(s) + 1 /\ Len(s) \in Nat
      /\ \A i \in 1 .. Len(s) : t[i] = s[i]
      /\ t[Len(s) + 1] = x
  OBVIOUS
<1>2. t # <<>> /\ (s # <<>> => t[1] = s[1])
  <2>. HIDE DEF t
  <2>1. t # <<>>
    BY <1>1
  <2>2. s # <<>> => 1 \in 1 .. Len(s)
    BY <1>1
  <2>. QED  BY <1>1, <2>1, <2>2
<1>. HIDE DEF t
<1>3. /\ \A i \in 1 .. Len(t) : i \in 1 .. Len(s) \/ i = Len(s) + 1
      /\ \A i \in 1 .. Len(s) : i \in 1 .. Len(t) /\ i # Len(s) + 1
      /\ Len(s) + 1 \in 1 .. Len(t)
  BY <1>1
<1>4. \A y : In(y, t) <=> In(y, s) \/ y = x
  BY <1>1, <1>3 DEF In
<1>5. Distinct(s) /\ ~ In(x, s) => Distinct(t)
  <2>. SUFFICES ASSUME Distinct(s), ~ In(x, s),
                       NEW i \in 1 .. Len(t), NEW j \in 1 .. Len(t), t[i] = t[j]
                PROVE  i = j
    BY DEF Distinct
  <2>1. i \in 1 .. Len(s) => t[i] # x
    BY <1>1 DEF In
  <2>2. j \in 1 .. Len(s) => t[j] # x
    BY <1>1 DEF In
  <2>. QED  BY <1>1, <1>3, <2>1, <2>2 DEF Distinct
<1>. QED  BY <1>1, <1>2, <1>4, <1>5 DEF t

\* Removing what is at an index, and what is nowhere (list.remove).
LEMMA RemoveAt ==
  ASSUME TypeOK, Distinct(list), NEW i \in 1 .. Len(list)
  PROVE  /\ Without(list[i]) \in Seq(Conns \cup {server})
         /\ Len(Without(list[i])) = Len(list) - 1
         /\ \A j \in 1 .. Len(list) - 1 :
              Without(list[i])[j] = IF j < i THEN list[j] ELSE list[j + 1]
<1>. DEFINE d == list[i]
            at == { j \in 1 .. Len(list) : list[j] = d }
            first == CHOOSE k \in at : \A j \in at : k <= j
            rest == [k \in 1 .. Len(list) - 1 |-> IF k < i THEN list[k] ELSE list[k + 1]]
<1>1. Len(list) \in Nat /\ list \in Seq(Conns \cup {server})
  BY DEF TypeOK
<1>2. at = {i}
  BY DEF Distinct
<1>3. first = i
  BY <1>2
<1>4. Without(d) = rest
  BY <1>2, <1>3 DEF Without
<1>5. \A k \in 1 .. Len(list) - 1 : rest[k] \in Conns \cup {server}
  BY <1>1
<1>6. Len(list) - 1 \in Nat
  BY <1>1
<1>7. rest \in Seq(Conns \cup {server}) /\ Len(rest) = Len(list) - 1
  <2>. DEFINE n == Len(list) - 1
  <2>. HIDE DEF n
  <2>1. n \in Nat /\ rest = [k \in 1 .. n |-> IF k < i THEN list[k] ELSE list[k + 1]]
    BY <1>6 DEF n
  <2>2. \A k \in 1 .. n : (IF k < i THEN list[k] ELSE list[k + 1]) \in Conns \cup {server}
    BY <1>5 DEF n
  <2>. QED  BY <2>1, <2>2 DEF n
<1>. QED  BY <1>4, <1>7

LEMMA RemoveNone ==
  ASSUME NEW d, ~ In(d, list)
  PROVE  Without(d) = list
  BY DEF Without, In

\* What is removed is gone, the others stay, each once.
LEMMA RemoveFacts ==
  ASSUME TypeOK, Distinct(list), NEW d
  PROVE  /\ Without(d) \in Seq(Conns \cup {server})
         /\ \A x : In(x, Without(d)) <=> In(x, list) /\ x # d
         /\ Distinct(Without(d))
         /\ list # <<>> /\ list[1] # d => Without(d) # <<>> /\ Without(d)[1] = list[1]
<1>. DEFINE t == Without(d)
<1>1. CASE In(d, list)
  <2>1. PICK i \in 1 .. Len(list) : list[i] = d
    BY <1>1 DEF In
  <2>2. /\ t \in Seq(Conns \cup {server}) /\ Len(t) = Len(list) - 1
        /\ \A j \in 1 .. Len(list) - 1 : t[j] = IF j < i THEN list[j] ELSE list[j + 1]
        /\ Len(list) \in Nat
    <3>1. /\ Without(list[i]) \in Seq(Conns \cup {server})
          /\ Len(Without(list[i])) = Len(list) - 1
          /\ \A j \in 1 .. Len(list) - 1 :
               Without(list[i])[j] = IF j < i THEN list[j] ELSE list[j + 1]
      BY RemoveAt
    <3>2. Len(list) \in Nat
      BY DEF TypeOK
    <3>. QED  BY <2>1, <3>1, <3>2
  <2>. HIDE DEF t
  <2>3. \A j \in 1 .. Len(t) : \E k \in 1 .. Len(list) : k # i /\ t[j] = list[k]
    <3>. SUFFICES ASSUME NEW j \in 1 .. Len(t)
                  PROVE  \E k \in 1 .. Len(list) : k # i /\ t[j] = list[k]
      OBVIOUS
    <3>1. CASE j < i
      BY <2>2, <3>1
    <3>2. CASE ~ j < i
      <4>1. j + 1 \in 1 .. Len(list) /\ j + 1 # i /\ t[j] = list[j + 1]
        BY <2>2, <3>2
      <4>. QED  BY <4>1
    <3>. QED  BY <3>1, <3>2
  <2>4. \A k \in 1 .. Len(list) : k # i => \E j \in 1 .. Len(t) : t[j] = list[k]
    <3>. SUFFICES ASSUME NEW k \in 1 .. Len(list), k # i
                  PROVE  \E j \in 1 .. Len(t) : t[j] = list[k]
      OBVIOUS
    <3>1. CASE k < i
      BY <2>2, <3>1
    <3>2. CASE i < k
      <4>1. k - 1 \in 1 .. Len(t) /\ ~ k - 1 < i /\ k - 1 + 1 = k
        BY <2>2, <3>2
      <4>. QED  BY <2>2, <4>1
    <3>. QED  BY <2>2, <3>1, <3>2
  <2>5. \A x : In(x, t) <=> In(x, list) /\ x # d
    <3>1. \A k \in 1 .. Len(list) : k # i <=> list[k] # d
      BY <2>1 DEF Distinct
    <3>2. \A x : In(x, t) => In(x, list) /\ x # d
      BY <2>3, <3>1 DEF In
    <3>3. \A x : In(x, list) /\ x # d => In(x, t)
      BY <2>4, <3>1 DEF In
    <3>. QED  BY <3>2, <3>3
  <2>6. Distinct(t)
    <3>. SUFFICES ASSUME NEW j \in 1 .. Len(t), NEW k \in 1 .. Len(t), t[j] = t[k]
                  PROVE  j = k
      BY DEF Distinct
    <3>1. /\ t[j] = IF j < i THEN list[j] ELSE list[j + 1]
          /\ t[k] = IF k < i THEN list[k] ELSE list[k + 1]
          /\ j \in 1 .. Len(list) /\ j + 1 \in 1 .. Len(list)
          /\ k \in 1 .. Len(list) /\ k + 1 \in 1 .. Len(list)
      BY <2>2
    <3>2. (IF j < i THEN j ELSE j + 1) = (IF k < i THEN k ELSE k + 1)
      BY <3>1 DEF Distinct
    <3>. QED  BY <2>2, <3>2
  <2>7. list[1] # d => t # <<>> /\ t[1] = list[1]
    <3>. SUFFICES ASSUME list[1] # d PROVE t # <<>> /\ t[1] = list[1]
      OBVIOUS
    <3>1. 1 < i /\ 1 \in 1 .. Len(list) - 1
      BY <2>1, <2>2
    <3>. QED  BY <2>2, <3>1
  <2>. QED  BY <2>2, <2>5, <2>6, <2>7 DEF t
<1>2. CASE ~ In(d, list)
  BY <1>2, RemoveNone DEF TypeOK, In
<1>. QED  BY <1>1, <1>2

-----------------------------------------------------------------------------
(***************************************************************************)
(* The server's state.                                                     *)
(***************************************************************************)
LEMMA ListIsSound == ListSound => ListIsOpen
  BY DEF ListSound, ListIsOpen, Listed, In, Distinct

LEMMA ServerInit == Init => ServerInv
<1>. SUFFICES ASSUME Init PROVE ServerInv
  OBVIOUS
<1>1. /\ <<>> \in Seq(Conns \cup {server}) /\ <<>> \in Seq(Conns)
      /\ \A S : <<>> \in Seq(S)
      /\ Len(<<>>) = 0 /\ (\A x : ~ In(x, <<>>)) /\ Distinct(<<>>)
  BY DEF In, Distinct
<1>2. TypeOK
  BY <1>1, LimitsAssumption DEF Init, TypeOK, NoCast, Places, TcpStates
<1>3. /\ <<server>> # <<>> /\ <<server>>[1] = server /\ Distinct(<<server>>)
      /\ \A c \in Conns : ~ In(c, <<server>>)
  BY ServerAssumption DEF In, Distinct
<1>4. ListSound
  BY <1>3 DEF Init, ListSound
<1>5. RoundGoesOn /\ CastIsOn /\ QueueIsNew /\ FaultsAreResets
  BY <1>1 DEF Init, RoundGoesOn, CastIsOn, QueueIsNew, FaultsAreResets, NoCast
<1>. QED  BY <1>2, <1>4, <1>5 DEF ServerInv

\* select returns each ready socket of the list once.
LEMMA SelectSound ==
  ASSUME ServerInv, Select
  PROVE  ServerInv'
<1>. USE DEF kernel, history
<1>1. PICK at \in [1 .. Cardinality(ReadyAt) -> ReadyAt] :
        /\ \A k, l \in DOMAIN at : k < l => at[k] < at[l]
        /\ todo' = [k \in DOMAIN at |-> list[at[k]]]
  BY DEF Select
<1>2. PICK n \in Nat : n = Cardinality(ReadyAt) /\ n > 0
  <2>1. 1 \in Int /\ Len(list) \in Int /\ ReadyAt \subseteq 1 .. Len(list)
    BY DEF ReadyAt, ServerInv, TypeOK
  <2>2. IsFiniteSet(ReadyAt)
    BY <2>1, FS_Interval, FS_Subset
  <2>. QED  BY <2>2, FS_CardinalityType, FS_EmptySet DEF Select
<1>3. /\ todo' = [k \in 1 .. n |-> list[at[k]]]
      /\ \A k \in 1 .. n : at[k] \in 1 .. Len(list) /\ Ready(list[at[k]])
      /\ \A k, l \in 1 .. n : k < l => at[k] < at[l]
  BY <1>1, <1>2 DEF ReadyAt
<1>4. list \in Seq(Conns \cup {server}) /\ Len(list) \in Nat
      /\ Distinct(list) /\ \A c \in Conns : In(c, list) <=> sock[c] = "open"
  BY DEF Select, ServerInv, TypeOK, ListSound
<1>5. \A k \in 1 .. n : list[at[k]] \in Conns \cup {server} /\ In(list[at[k]], list)
  BY <1>3, <1>4 DEF In
<1>6. todo' \in Seq(Conns \cup {server}) /\ Len(todo') = n
  BY <1>2, <1>3, <1>5
<1>7. Distinct(todo')
  <2>. SUFFICES ASSUME NEW k \in 1 .. n, NEW l \in 1 .. n, list[at[k]] = list[at[l]]
                PROVE  k = l
    BY <1>3, <1>6 DEF Distinct
  <2>1. at[k] = at[l] /\ at[k] \in Int /\ at[l] \in Int
    BY <1>3, <1>4 DEF Distinct
  <2>2. ~ k < l /\ ~ l < k
    BY <1>3, <2>1
  <2>. QED  BY <2>2
<1>8. In(server, todo') => queue # <<>>
  BY <1>3, <1>6 DEF In, Ready
<1>9. \A c \in Conns : In(c, todo') => sock[c] = "open"
  <2>1. \A c \in Conns : In(c, todo') => In(c, list)
    BY <1>3, <1>5, <1>6 DEF In
  <2>. QED  BY <1>4, <2>1
<1>10. todo' # <<>>
  BY <1>2, <1>6
<1>11. pc = "select" /\ pc' = "handle"
       /\ UNCHANGED <<limits, list, cast, sock, far, tcp, queue, inq, said, heard, taken, log, joined>>
  BY DEF Select
<1>12. TypeOK'
  BY <1>6, <1>11 DEF ServerInv, TypeOK, Places
<1>13. ListSound' /\ RoundGoesOn'
  BY <1>7, <1>8, <1>9, <1>10, <1>11 DEF ServerInv, ListSound, RoundGoesOn
<1>14. CastIsOn' /\ QueueIsNew' /\ FaultsAreResets'
  BY <1>11 DEF ServerInv, CastIsOn, QueueIsNew, FaultsAreResets, Listed
<1>. QED  BY <1>12, <1>13, <1>14 DEF ServerInv

\* The first of the sockets still to be handled.
LEMMA HeadIsSound ==
  ASSUME ServerInv, NEW s, Handles(s)
  PROVE  /\ pc = "handle" /\ s \in Conns \cup {server} /\ In(s, todo)
         /\ s = server => queue # <<>>
         /\ s \in Conns => sock[s] # "none"
         /\ todo' \in Seq(Conns \cup {server}) /\ Distinct(todo')
         /\ \A x : In(x, todo') => In(x, todo)
         /\ ~ In(s, todo')
<1>1. todo \in Seq(Conns \cup {server}) /\ todo # <<>> /\ Distinct(todo)
      /\ s = Head(todo) /\ todo' = Tail(todo) /\ pc = "handle"
  BY DEF Handles, ServerInv, TypeOK, RoundGoesOn
<1>2. /\ s \in Conns \cup {server} /\ In(s, todo)
      /\ todo' \in Seq(Conns \cup {server}) /\ Distinct(todo')
      /\ \A x : In(x, todo') => In(x, todo)
      /\ ~ In(s, todo')
  BY <1>1, TailFacts
<1>. QED  BY <1>1, <1>2 DEF ServerInv, RoundGoesOn

\* select ends the program only for a descriptor beyond its sets: no socket of
\* the list is closed.
LEMMA SelectEnds ==
  ASSUME ServerInv, SelectRaises
  PROVE  ServerInv'
<1>1. /\ pc = "select" /\ pc' = "dead" /\ ~AllSelectable
      /\ UNCHANGED <<limits, list, todo, cast, sock, far, tcp, queue, inq, said, heard, taken, log, joined>>
  BY DEF SelectRaises, kernel, history
<1>2. PICK i \in 1 .. Len(list) : ~Selectable(list[i])
  BY <1>1 DEF AllSelectable
<1>3. list[i] \in Conns /\ In(list[i], list)
  <2>1. list \in Seq(Conns \cup {server})
    BY DEF ServerInv, TypeOK
  <2>2. list[i] \in Conns \cup {server}
    BY <2>1
  <2>. QED  BY <1>2, <2>2 DEF Selectable, In
<1>4. sock[list[i]] = "open"
  BY <1>1, <1>3 DEF ServerInv, ListSound
<1>5. list[i] \in far \cap Listed
  BY <1>2, <1>3, <1>4 DEF Selectable, Listed, In
<1>6. TypeOK'
  BY <1>1 DEF ServerInv, TypeOK, Places
<1>7. ListSound' /\ RoundGoesOn' /\ CastIsOn' /\ QueueIsNew'
  BY <1>1 DEF ServerInv, ListSound, RoundGoesOn, CastIsOn, QueueIsNew, FaultsAreResets
<1>8. FaultsAreResets'
  <2>1. far' \cap Listed' # {}
    BY <1>1, <1>5 DEF Listed
  <2>. QED  BY <1>1, <2>1 DEF ServerInv, FaultsAreResets
<1>. QED  BY <1>6, <1>7, <1>8 DEF ServerInv

\* accept ends the program only when each descriptor is that of a listed client.
LEMMA AcceptEnds ==
  ASSUME ServerInv, AcceptFails
  PROVE  ServerInv'
<1>1. /\ pc = "handle" /\ pc' = "dead" /\ Cardinality(Open) >= limits.fds
      /\ UNCHANGED <<limits, list, cast, sock, far, tcp, queue, inq, said, heard, taken, log, joined>>
      /\ todo' \in Seq(Conns \cup {server}) /\ Distinct(todo')
      /\ \A x : In(x, todo') => In(x, todo)
  BY HeadIsSound DEF AcceptFails, kernel, history
<1>2. Listed' = Open
  BY <1>1 DEF Listed, Open, ServerInv, ListSound, In
<1>3. TypeOK'
  BY <1>1 DEF ServerInv, TypeOK, Places
<1>4. ListSound' /\ RoundGoesOn' /\ CastIsOn' /\ QueueIsNew'
  BY <1>1 DEF ServerInv, ListSound, RoundGoesOn, CastIsOn, QueueIsNew, FaultsAreResets
<1>5. FaultsAreResets'
  BY <1>1, <1>2 DEF ServerInv, FaultsAreResets
<1>. QED  BY <1>3, <1>4, <1>5 DEF ServerInv

\* accept takes a connection that was not listed before.
LEMMA AcceptSound ==
  ASSUME ServerInv, Accept
  PROVE  ServerInv'
<1>. DEFINE c == Head(queue)
<1>1. /\ pc = "handle" /\ queue # <<>>
      /\ todo' \in Seq(Conns \cup {server}) /\ Distinct(todo')
      /\ \A x : In(x, todo') => In(x, todo)
      /\ ~ In(server, todo')
  BY HeadIsSound DEF Accept
<1>2. queue \in Seq(Conns) /\ Len(queue) \in Nat /\ Len(queue) <= Backlog /\ Distinct(queue)
  BY <1>1 DEF ServerInv, TypeOK, QueueIsNew
<1>3. /\ c \in Conns /\ In(c, queue) /\ queue' \in Seq(Conns) /\ Len(queue') = Len(queue) - 1
      /\ \A x : In(x, queue') => In(x, queue)
      /\ Distinct(queue') /\ ~ In(c, queue')
  BY <1>1, <1>2, TailFacts DEF Accept
<1>4. /\ list' = Append(list, c) /\ sock' = [sock EXCEPT ![c] = "open"]
      /\ joined' = [joined EXCEPT ![c] = Len(log)]
      /\ pc' = "call" /\ cast' = [sock |-> c, at |-> 1, fatal |-> FALSE]
      /\ UNCHANGED <<limits, tcp, inq, said, heard, taken, log>>
  BY DEF Accept, Calls
<1>5. sock[c] = "none" /\ tcp[c] # "idle"
  BY <1>1, <1>3 DEF ServerInv, QueueIsNew
<1>. HIDE DEF c
<1>6. /\ list \in Seq(Conns \cup {server}) /\ list # <<>> /\ list[1] = server
      /\ Distinct(list) /\ ~ In(c, list)
      /\ \A d \in Conns : In(d, list) <=> sock[d] = "open"
  BY <1>1, <1>3, <1>5 DEF ServerInv, TypeOK, ListSound
<1>7. /\ list' \in Seq(Conns \cup {server}) /\ list' # <<>> /\ list'[1] = server
      /\ Distinct(list') /\ \A y : In(y, list') <=> In(y, list) \/ y = c
  BY <1>3, <1>4, <1>6, AppendFacts
<1>8. /\ sock' \in [Conns -> {"none", "open", "closed"}] /\ sock'[c] = "open"
      /\ \A d \in Conns \ {c} : sock'[d] = sock[d]
      /\ far' \subseteq Conns
  <2>1. far' \subseteq far \cup {c}
    BY DEF Accept, c
  <2>. QED  BY <1>3, <1>4, <2>1 DEF ServerInv, TypeOK
<1>9. joined' \in [Conns -> 0 .. Len(log)] /\ Len(queue') <= Backlog
  <2>1. Len(log) \in 0 .. Len(log) /\ joined \in [Conns -> 0 .. Len(log)]
    BY DEF ServerInv, TypeOK
  <2>. QED  BY <1>2, <1>3, <1>4, <2>1, LimitsAssumption
<1>10. TypeOK'
  <2>1. pc' \in Places /\ cast' \in [sock : Conns \cup {server}, at : Nat \ {0}, fatal : BOOLEAN]
    BY <1>3, <1>4 DEF Places
  <2>. QED  BY <1>1, <1>3, <1>4, <1>7, <1>8, <1>9, <2>1 DEF ServerInv, TypeOK
<1>11. ListSound'
  BY <1>6, <1>7, <1>8 DEF ListSound
<1>12. RoundGoesOn'
  BY <1>1, <1>4, <1>8 DEF ServerInv, RoundGoesOn
<1>13. CastIsOn'
  BY <1>3, <1>4 DEF CastIsOn
<1>14. QueueIsNew'
  BY <1>1, <1>3, <1>4, <1>5, <1>8 DEF ServerInv, QueueIsNew
<1>15. FaultsAreResets'
  BY <1>4, <1>8 DEF ServerInv, FaultsAreResets
<1>. QED  BY <1>10, <1>11, <1>12, <1>13, <1>14, <1>15 DEF ServerInv

\* A client's socket is handled: the except clause runs for broken connections.
LEMMA HandleSound ==
  ASSUME ServerInv, NEW c \in Conns, Receive(c) \/ ReceiveNothing(c) \/ ReceiveFails(c)
  PROVE  ServerInv'
<1>. USE DEF kernel, history
<1>1. /\ pc = "handle" /\ sock[c] # "none"
      /\ todo' \in Seq(Conns \cup {server}) /\ Distinct(todo')
      /\ \A x : In(x, todo') => In(x, todo)
  BY HeadIsSound DEF Receive, ReceiveNothing, ReceiveFails
<1>2. UNCHANGED <<limits, list, sock, far, tcp, queue, said, heard, taken, log, joined>>
  BY DEF Receive, ReceiveNothing, ReceiveFails
<1>3. inq' \in [Conns -> 0 .. said]
  <2>1. inq \in [Conns -> 0 .. said] /\ said \in Nat
    BY DEF ServerInv, TypeOK
  <2>2. inq' = inq \/ \E n \in 1 .. RecvMax : n <= inq[c] /\ inq' = [inq EXCEPT ![c] = @ - n]
    BY DEF Receive, ReceiveNothing, ReceiveFails
  <2>3. \A n \in 1 .. RecvMax : n <= inq[c] => inq[c] - n \in 0 .. said
    BY <2>1, LimitsAssumption
  <2>. QED  BY <2>1, <2>2, <2>3
<1>4. \/ /\ pc' = "call" /\ cast' = [sock |-> c, at |-> 1, fatal |-> FALSE]
      \/ /\ pc' = "call" /\ cast' = [sock |-> c, at |-> 1, fatal |-> TRUE] /\ Raises(c)
      \/ /\ pc' = (IF todo' = <<>> THEN "select" ELSE "handle") /\ cast' = cast
  BY DEF Receive, ReceiveNothing, ReceiveFails, Calls, ContinueWith
<1>5. pc' \in {"call", "select", "handle"} /\ pc' \in Places
  BY <1>4 DEF Places
<1>6. TypeOK'
  <2>1. cast' \in [sock : Conns \cup {server}, at : Nat \ {0}, fatal : BOOLEAN]
    <3>1. cast \in [sock : Conns \cup {server}, at : Nat \ {0}, fatal : BOOLEAN]
      BY DEF ServerInv, TypeOK
    <3>2. \A b \in BOOLEAN : [sock |-> c, at |-> 1, fatal |-> b]
            \in [sock : Conns \cup {server}, at : Nat \ {0}, fatal : BOOLEAN]
      OBVIOUS
    <3>. QED  BY <1>4, <3>1, <3>2
  <2>. QED  BY <1>1, <1>2, <1>3, <1>5, <2>1 DEF ServerInv, TypeOK
<1>7. ListSound' /\ QueueIsNew'
  BY <1>1, <1>2, <1>5 DEF ServerInv, ListSound, QueueIsNew
<1>8. RoundGoesOn'
  BY <1>1, <1>2, <1>4 DEF ServerInv, RoundGoesOn
<1>9. CastIsOn'
  BY <1>4, <1>5 DEF CastIsOn
<1>10. FaultsAreResets'
  <2>1. Raises(c) => tcp[c] \in Broken
    BY DEF Raises, Broken, ServerInv, FaultsAreResets
  <2>. QED  BY <1>1, <1>2, <1>4, <1>5, <2>1 DEF ServerInv, FaultsAreResets
<1>. QED  BY <1>6, <1>7, <1>8, <1>9, <1>10 DEF ServerInv

LEMMA CallSound ==
  ASSUME ServerInv, Call
  PROVE  ServerInv'
<1>. USE DEF kernel
<1>1. /\ pc = "call" /\ pc' = "sending" /\ log' = Append(log, cast.sock)
      /\ UNCHANGED <<limits, list, todo, cast, sock, far, tcp, queue, inq, said, heard, taken, joined>>
  BY DEF Call
<1>2. log \in Seq(Conns) /\ cast.sock \in Conns /\ Len(log) \in Nat
  BY <1>1 DEF ServerInv, TypeOK, CastIsOn
<1>3. log' \in Seq(Conns) /\ Len(log') = Len(log) + 1 /\ log'[Len(log')] = cast.sock
  BY <1>1, <1>2
<1>4. heard' \in [Conns -> Seq(1 .. Len(log'))] /\ joined' \in [Conns -> 0 .. Len(log')]
  <2>1. heard \in [Conns -> Seq(1 .. Len(log))] /\ joined \in [Conns -> 0 .. Len(log)]
    BY DEF ServerInv, TypeOK
  <2>2. 1 .. Len(log) \subseteq 1 .. Len(log') /\ 0 .. Len(log) \subseteq 0 .. Len(log')
    BY <1>2, <1>3
  <2>3. \A S, T : S \subseteq T => Seq(S) \subseteq Seq(T)
    OBVIOUS
  <2>. QED  BY <1>1, <2>1, <2>2, <2>3
<1>5. TypeOK'
  BY <1>1, <1>3, <1>4 DEF ServerInv, TypeOK, Places
<1>6. ListSound' /\ RoundGoesOn' /\ QueueIsNew' /\ FaultsAreResets'
  BY <1>1 DEF ServerInv, ListSound, RoundGoesOn, QueueIsNew, FaultsAreResets
<1>7. CastIsOn'
  BY <1>1, <1>2, <1>3 DEF CastIsOn
<1>. QED  BY <1>5, <1>6, <1>7 DEF ServerInv

\* A turn of the broadcast's loop that finds the socket as it should be.
LEMMA TurnSound ==
  ASSUME ServerInv, NEW d \in Conns \cup {server}, PassOver(d) \/ Send(d)
  PROVE  ServerInv'
<1>. USE DEF kernel, history
<1>1. /\ pc = "sending" /\ cast' = [cast EXCEPT !.at = @ + 1]
      /\ UNCHANGED <<limits, pc, list, todo, sock, far, tcp, queue, inq, said, taken, log, joined>>
  BY DEF PassOver, Send, Turn, NextTurn
<1>2. cast \in [sock : Conns \cup {server}, at : Nat \ {0}, fatal : BOOLEAN]
  BY DEF ServerInv, TypeOK
<1>3. /\ cast' \in [sock : Conns \cup {server}, at : Nat \ {0}, fatal : BOOLEAN]
      /\ cast'.sock = cast.sock /\ cast'.fatal = cast.fatal
  BY <1>1, <1>2
<1>4. /\ heard' \in [Conns -> Seq(1 .. Len(log))]
      /\ \A c \in Conns : taken[c] <= Len(heard'[c]) /\ Len(heard'[c]) - taken[c] <= Window
  <2>1. /\ heard \in [Conns -> Seq(1 .. Len(log))] /\ taken \in [Conns -> Nat]
        /\ \A c \in Conns : taken[c] <= Len(heard[c]) /\ Len(heard[c]) - taken[c] <= Window
        /\ Len(log) \in Nat /\ Window \in Nat /\ Len(log) > 0
    <3>1. /\ heard \in [Conns -> Seq(1 .. Len(log))] /\ taken \in [Conns -> Nat]
          /\ \A c \in Conns : taken[c] <= Len(heard[c]) /\ Len(heard[c]) - taken[c] <= Window
      BY DEF ServerInv, TypeOK
    <3>2. log \in Seq(Conns) /\ Len(log) > 0
      BY <1>1 DEF ServerInv, TypeOK, CastIsOn
    <3>3. Window \in Nat
      BY LimitsAssumption
    <3>. QED  BY <3>1, <3>2, <3>3
  <2>2. CASE heard' = heard
    BY <2>1, <2>2
  <2>3. CASE Send(d)
    <3>1. d \in Conns
      BY <2>3 DEF Send, Excepted
    <3>2. Len(heard[d]) - taken[d] < Window /\ heard' = [heard EXCEPT ![d] = Append(@, Len(log))]
      BY <2>3 DEF Send
    <3>3. heard[d] \in Seq(1 .. Len(log)) /\ Len(log) \in 1 .. Len(log)
      BY <2>1, <3>1
    <3>4. /\ Append(heard[d], Len(log)) \in Seq(1 .. Len(log))
          /\ Len(Append(heard[d], Len(log))) = Len(heard[d]) + 1 /\ Len(heard[d]) \in Nat
      BY <3>3
    <3>5. /\ heard'[d] = Append(heard[d], Len(log))
          /\ \A c \in Conns \ {d} : heard'[c] = heard[c]
          /\ heard' \in [Conns -> Seq(1 .. Len(log))]
      BY <2>1, <3>1, <3>2, <3>4
    <3>6. taken[d] <= Len(heard'[d]) /\ Len(heard'[d]) - taken[d] <= Window
      BY <2>1, <3>1, <3>2, <3>4, <3>5
    <3>. QED  BY <2>1, <3>5, <3>6
  <2>. QED  BY <2>2, <2>3 DEF PassOver
<1>5. TypeOK'
  BY <1>1, <1>3, <1>4 DEF ServerInv, TypeOK
<1>6. ListSound' /\ RoundGoesOn' /\ QueueIsNew'
  BY <1>1 DEF ServerInv, ListSound, RoundGoesOn, QueueIsNew
<1>7. CastIsOn' /\ FaultsAreResets'
  BY <1>1, <1>3 DEF ServerInv, CastIsOn, FaultsAreResets
<1>. QED  BY <1>5, <1>6, <1>7 DEF ServerInv

\* The list loses the socket that is closed, in a broadcast and behind it.
LEMMA SendFailsSound ==
  ASSUME ServerInv, NEW d \in Conns \cup {server}, SendFails(d)
  PROVE  ServerInv'
<1>1. /\ pc = "sending" /\ cast' = [cast EXCEPT !.at = @ + 1] /\ cast.at <= Len(list)
      /\ list[cast.at] = d /\ d # server /\ d \in Conns
      /\ tcp[d] \in Broken
      /\ sock' = [sock EXCEPT ![d] = "closed"] /\ list' = Without(d) /\ far' = far \ {d}
      /\ inq' = [inq EXCEPT ![d] = 0]
      /\ UNCHANGED <<limits, pc, todo, tcp, queue, said, heard, taken, log, joined>>
  BY DEF SendFails, Turn, NextTurn, Excepted, Broken, history
<1>2. cast \in [sock : Conns \cup {server}, at : Nat \ {0}, fatal : BOOLEAN]
  BY DEF ServerInv, TypeOK
<1>3. /\ cast' \in [sock : Conns \cup {server}, at : Nat \ {0}, fatal : BOOLEAN]
      /\ cast'.sock = cast.sock /\ cast'.fatal = cast.fatal
  BY <1>1, <1>2
<1>4. /\ Distinct(list) /\ list # <<>> /\ list[1] = server
      /\ \A c \in Conns : In(c, list) <=> sock[c] = "open"
      /\ list \in Seq(Conns \cup {server})
  BY <1>1 DEF ServerInv, TypeOK, ListSound
<1>5. /\ list' \in Seq(Conns \cup {server}) /\ Distinct(list')
      /\ \A x : In(x, list') <=> In(x, list) /\ x # d
      /\ list' # <<>> /\ list'[1] = server
  BY <1>1, <1>4, RemoveFacts DEF ServerInv
<1>6. /\ sock' \in [Conns -> {"none", "open", "closed"}] /\ sock'[d] = "closed"
      /\ \A c \in Conns \ {d} : sock'[c] = sock[c]
  BY <1>1 DEF ServerInv, TypeOK
<1>7. inq' \in [Conns -> 0 .. said]
  <2>1. 0 \in 0 .. said
    BY DEF ServerInv, TypeOK
  <2>. QED  BY <1>1, <2>1 DEF ServerInv, TypeOK
<1>8. sock[d] = "open"
  <2>1. cast.at \in 1 .. Len(list)
    BY <1>1, <1>2, <1>4
  <2>. QED  BY <1>1, <1>4, <2>1 DEF In
<1>9. TypeOK'
  BY <1>1, <1>3, <1>5, <1>6, <1>7 DEF ServerInv, TypeOK
<1>10. ListSound'
  BY <1>4, <1>5, <1>6 DEF ListSound
<1>11. RoundGoesOn' /\ QueueIsNew'
  BY <1>1, <1>6, <1>8 DEF ServerInv, RoundGoesOn, QueueIsNew
<1>12. CastIsOn' /\ FaultsAreResets'
  BY <1>1, <1>3, <1>6 DEF ServerInv, CastIsOn, FaultsAreResets
<1>. QED  BY <1>9, <1>10, <1>11, <1>12 DEF ServerInv

\* The end of a broadcast ends the program when it was in the except clause.
LEMMA ReturnSound ==
  ASSUME ServerInv, Return
  PROVE  ServerInv'
<1>. USE DEF kernel, history
<1>1. /\ pc = "sending"
      /\ UNCHANGED <<limits, todo, tcp, queue, inq, said, heard, taken, log, joined>>
  BY DEF Return
<1>2. /\ cast \in [sock : Conns \cup {server}, at : Nat \ {0}, fatal : BOOLEAN]
      /\ cast.sock \in Conns
  BY <1>1 DEF ServerInv, TypeOK, CastIsOn
<1>3. CASE cast.fatal
  <2>1. /\ pc' = "dead" /\ sock' = [sock EXCEPT ![cast.sock] = "closed"]
        /\ list' = Without(cast.sock) /\ cast' = cast /\ far' = far \ {cast.sock}
    BY <1>3 DEF Return
  <2>2. list' \in Seq(Conns \cup {server})
    BY <1>1, <2>1, RemoveFacts DEF ServerInv, ListSound
  <2>3. /\ sock' \in [Conns -> {"none", "open", "closed"}] /\ sock'[cast.sock] = "closed"
        /\ \A c \in Conns \ {cast.sock} : sock'[c] = sock[c]
    BY <1>2, <2>1 DEF ServerInv, TypeOK
  <2>4. TypeOK'
    BY <1>1, <2>1, <2>2, <2>3 DEF ServerInv, TypeOK, Places
  <2>5. ListSound' /\ QueueIsNew'
    BY <2>1 DEF ListSound, QueueIsNew
  <2>6. RoundGoesOn'
    BY <1>1, <2>1, <2>3 DEF ServerInv, RoundGoesOn
  <2>7. CastIsOn'
    BY <1>2, <2>1 DEF CastIsOn
  <2>8. FaultsAreResets'
    BY <1>1, <1>3, <2>1, <2>3 DEF ServerInv, FaultsAreResets
  <2>. QED  BY <2>4, <2>5, <2>6, <2>7, <2>8 DEF ServerInv
<1>4. CASE ~ cast.fatal
  <2>1. /\ pc' = (IF todo = <<>> THEN "select" ELSE "handle")
        /\ UNCHANGED <<sock, far, list>> /\ cast' = NoCast
    BY <1>4 DEF Return, ContinueWith
  <2>2. pc' \in {"select", "handle"} /\ pc' \in Places
    BY <2>1 DEF Places
  <2>3. cast' \in [sock : Conns \cup {server}, at : Nat \ {0}, fatal : BOOLEAN]
    BY <2>1 DEF NoCast
  <2>4. TypeOK'
    BY <1>1, <2>1, <2>2, <2>3 DEF ServerInv, TypeOK
  <2>5. ListSound' /\ QueueIsNew'
    BY <1>1, <2>1, <2>2 DEF ServerInv, ListSound, QueueIsNew
  <2>6. RoundGoesOn'
    BY <1>1, <2>1 DEF ServerInv, RoundGoesOn
  <2>7. CastIsOn' /\ FaultsAreResets'
    BY <1>1, <2>1, <2>2 DEF ServerInv, CastIsOn, FaultsAreResets, NoCast
  <2>. QED  BY <2>4, <2>5, <2>6, <2>7 DEF ServerInv
<1>. QED  BY <1>3, <1>4

\* The clients and the network: a broken connection stays broken.
LEMMA ProgramSound ==
  ASSUME ServerInv, NEW c \in Conns, Program(c)
  PROVE  ServerInv'
<1>. USE DEF python, history
<1>1. UNCHANGED <<limits, pc, list, todo, cast, sock, far, log, joined, heard>>
  BY DEF Program, Connect, Say, Read, Leave, ResetArrives, End
<1>2. /\ tcp' \in [Conns -> TcpStates]
      /\ \A d \in Conns : tcp[d] \in Broken => tcp'[d] \in Broken
      /\ \A d \in Conns : tcp[d] # "idle" => tcp'[d] # "idle"
      /\ \A d \in Conns : tcp'[d] = "idle" => tcp[d] = "idle"
  BY DEF Program, Connect, Say, Read, Leave, ResetArrives, End, ServerInv, TypeOK,
     TcpStates, Broken
<1>3. \/ UNCHANGED queue
      \/ /\ queue' = Append(queue, c) /\ Len(queue) < Backlog /\ tcp[c] = "idle"
         /\ tcp'[c] = "estab" /\ pc # "dead"
  BY DEF Program, Connect, Say, Read, Leave, ResetArrives, End, ServerInv, TypeOK
<1>4. /\ queue' \in Seq(Conns) /\ Len(queue') <= Backlog
      /\ queue # <<>> => queue' # <<>>
      /\ pc # "dead" => Distinct(queue')
      /\ pc # "dead" => \A d \in Conns : In(d, queue') =>
           In(d, queue) \/ (d = c /\ sock[d] = "none" /\ tcp'[d] # "idle")
  <2>1. queue \in Seq(Conns) /\ Len(queue) \in Nat /\ Len(queue) <= Backlog /\ Backlog \in Nat
    BY LimitsAssumption DEF ServerInv, TypeOK
  <2>2. CASE UNCHANGED queue
    BY <2>1, <2>2 DEF ServerInv, QueueIsNew
  <2>3. CASE queue' = Append(queue, c) /\ Len(queue) < Backlog /\ tcp[c] = "idle"
             /\ tcp'[c] = "estab" /\ pc # "dead"
    <3>1. ~ In(c, queue) /\ sock[c] = "none" /\ Distinct(queue)
      BY <2>3 DEF ServerInv, QueueIsNew
    <3>2. /\ queue' \in Seq(Conns) /\ Len(queue') = Len(queue) + 1 /\ queue' # <<>>
          /\ Distinct(queue') /\ \A y : In(y, queue') <=> In(y, queue) \/ y = c
      BY <2>1, <2>3, <3>1, AppendFacts
    <3>. QED  BY <2>1, <2>3, <3>1, <3>2
  <2>. QED  BY <1>3, <2>2, <2>3
<1>5. said' \in 0 .. MaxSay /\ inq' \in [Conns -> 0 .. said']
  <2>1. said \in 0 .. MaxSay /\ inq \in [Conns -> 0 .. said] /\ MaxSay \in Nat
    BY LimitsAssumption DEF ServerInv, TypeOK
  <2>2. CASE UNCHANGED <<said, inq>>
    BY <2>1, <2>2
  <2>3. CASE Say(c)
    <3>1. said < MaxSay /\ said' = said + 1 /\ inq' = [inq EXCEPT ![c] = @ + 1]
      BY <2>3 DEF Say
    <3>2. inq[c] + 1 \in 0 .. said + 1 /\ 0 .. said \subseteq 0 .. said + 1
      BY <2>1
    <3>3. inq' \in [Conns -> 0 .. said + 1]
      BY <2>1, <3>1, <3>2
    <3>. QED  BY <2>1, <3>1, <3>3
  <2>. QED  BY <2>2, <2>3 DEF Program, Connect, Read, Leave, ResetArrives, End
<1>6. /\ taken' \in [Conns -> Nat]
      /\ \A d \in Conns : taken'[d] <= Len(heard[d]) /\ Len(heard[d]) - taken'[d] <= Window
  <2>0. heard \in [Conns -> Seq(1 .. Len(log))]
    BY DEF ServerInv, TypeOK
  <2>1. /\ taken \in [Conns -> Nat] /\ \A d \in Conns : Len(heard[d]) \in Nat
        /\ \A d \in Conns : taken[d] <= Len(heard[d]) /\ Len(heard[d]) - taken[d] <= Window
        /\ Window \in Nat
    <3>1. \A d \in Conns : Len(heard[d]) \in Nat
      BY <2>0
    <3>2. /\ taken \in [Conns -> Nat]
          /\ \A d \in Conns : taken[d] <= Len(heard[d]) /\ Len(heard[d]) - taken[d] <= Window
      BY DEF ServerInv, TypeOK
    <3>. QED  BY <3>1, <3>2, LimitsAssumption
  <2>2. CASE UNCHANGED taken
    BY <2>1, <2>2
  <2>3. CASE Read(c)
    <3>1. taken[c] < Len(heard[c]) /\ taken' = [taken EXCEPT ![c] = @ + 1]
      BY <2>3 DEF Read
    <3>2. taken'[c] = taken[c] + 1 /\ \A d \in Conns \ {c} : taken'[d] = taken[d]
      BY <2>1, <3>1
    <3>3. taken' \in [Conns -> Nat]
      BY <2>1, <3>1
    <3>4. taken'[c] <= Len(heard[c]) /\ Len(heard[c]) - taken'[c] <= Window
      BY <2>1, <3>1, <3>2
    <3>. QED  BY <2>1, <3>2, <3>3, <3>4
  <2>. QED  BY <2>2, <2>3 DEF Program, Connect, Say, Leave, ResetArrives, End
<1>7. TypeOK'
  BY <1>1, <1>2, <1>4, <1>5, <1>6 DEF ServerInv, TypeOK
<1>8. ListSound' /\ RoundGoesOn' /\ CastIsOn'
  BY <1>1, <1>4 DEF ServerInv, ListSound, RoundGoesOn, CastIsOn
<1>9. QueueIsNew'
  BY <1>1, <1>2, <1>4 DEF ServerInv, QueueIsNew
<1>10. FaultsAreResets'
  BY <1>1, <1>2 DEF ServerInv, FaultsAreResets, CastIsOn, Listed
<1>. QED  BY <1>7, <1>8, <1>9, <1>10 DEF ServerInv

LEMMA ServerNext == ServerInv /\ [Next]_vars => ServerInv'
<1>1. ASSUME ServerInv, UNCHANGED vars PROVE ServerInv'
  <2>. USE DEF vars, python, kernel, history
  <2>1. TypeOK'
    BY <1>1 DEF ServerInv, TypeOK
  <2>2. ListSound' /\ RoundGoesOn' /\ CastIsOn'
    BY <1>1 DEF ServerInv, ListSound, RoundGoesOn, CastIsOn
  <2>3. QueueIsNew' /\ FaultsAreResets'
    BY <1>1 DEF ServerInv, QueueIsNew, FaultsAreResets, Listed
  <2>. QED  BY <2>1, <2>2, <2>3 DEF ServerInv
<1>. QED
  BY <1>1, SelectSound, SelectEnds, AcceptSound, AcceptEnds, HandleSound, CallSound, TurnSound, SendFailsSound,
     ReturnSound, ProgramSound
  DEF Next, Server

\* Indexes, lists and counters have their types, and no client is sent more
\* than its connection holds (socket.send blocks, chat_server.py:14).
THEOREM TypeCorrect == Spec => []TypeOK
<1>1. ServerInv => TypeOK
  BY DEF ServerInv
<1>. QED  BY <1>1, ServerInit, ServerNext, PTL DEF Spec

\* CONNECTION_LIST is the listening socket and every open socket once, also
\* while it is iterated over and removed from (chat_server.py:9-18, 35-57).
THEOREM ListStaysOpen == Spec => []ListIsOpen
<1>1. ServerInv => ListIsOpen
  BY ListIsSound DEF ServerInv
<1>. QED  BY <1>1, ServerInit, ServerNext, PTL DEF Spec

\* The name that is no name (chat_server.py:58) is met only after a connection
\* was reset; and accept (:41) and select (:36) end the server only when every
\* descriptor is that of a listed client, or a client has one beyond select's
\* sets: no socket that was closed or removed leaves them one less.
THEOREM FullOrReset == Spec => []EndsOnlyIf
<1>1. ServerInv => EndsOnlyIf
  BY DEF ServerInv, FaultsAreResets, Broken, EndsOnlyIf
<1>. QED  BY <1>1, ServerInit, ServerNext, PTL DEF Spec

-----------------------------------------------------------------------------
(***************************************************************************)
(* What a broadcast passes by.                                             *)
(***************************************************************************)
\* Message n went past d: not heard, and, when it is the one under way, with the
\* broadcast's index behind d's.
PassedBy(n, d) ==
  /\ n \in Feed(d)
  /\ ~ In(n, heard[d])
  /\ \E i \in 1 .. Len(list) : list[i] = d /\ (n = UnderWay => i < cast.at)

Passed == { p \in (1 .. Len(log)) \X Conns : PassedBy(p[1], p[2]) }
PassesAreCounted == Cardinality(Passed) <= Cardinality(Closed)

\* What OneMissPerRemoval counts.
LEMMA MissedWerePassed ==
  ASSUME ServerInv
  PROVE  UNION { {<<n, d>> : n \in Missed(d)} : d \in Listed } \subseteq Passed
<1>. SUFFICES ASSUME NEW d \in Listed, NEW n \in Missed(d) PROVE <<n, d>> \in Passed
  OBVIOUS
<1>1. d \in Conns /\ In(d, list)
  BY DEF Listed, In
<1>2. n \in Feed(d) /\ n # UnderWay /\ ~ In(n, heard[d])
  BY DEF Missed, In
<1>3. n \in 1 .. Len(log)
  BY <1>2 DEF Feed
<1>4. PassedBy(n, d)
  BY <1>1, <1>2 DEF PassedBy, In
<1>. QED  BY <1>1, <1>3, <1>4 DEF Passed

LEMMA PassesFinite ==
  ASSUME ServerInv
  PROVE  /\ IsFiniteSet(Passed) /\ Cardinality(Passed) \in Nat
         /\ IsFiniteSet(Closed) /\ Cardinality(Closed) \in Nat
<1>1. 1 \in Int /\ Len(log) \in Int
  BY DEF ServerInv, TypeOK
<1>2. IsFiniteSet((1 .. Len(log)) \X Conns)
  BY <1>1, FS_Interval, FS_Product, ConnsAssumption
<1>3. IsFiniteSet(Passed)
  <2>1. Passed \subseteq (1 .. Len(log)) \X Conns
    BY DEF Passed
  <2>. QED  BY <1>2, <2>1, FS_Subset
<1>4. IsFiniteSet(Closed)
  <2>1. Closed \subseteq Conns
    BY DEF Closed
  <2>. QED  BY <2>1, FS_Subset, ConnsAssumption
<1>. QED  BY <1>3, <1>4, FS_CardinalityType

\* A step that lets no message go past anybody.
LEMMA NonePassed ==
  ASSUME ServerInv, PassesAreCounted,
         \A n \in 1 .. Len(log'), d \in Conns :
           PassedBy(n, d)' => n \in 1 .. Len(log) /\ PassedBy(n, d),
         \A c \in Conns : sock[c] = "closed" => sock'[c] = "closed"
  PROVE  PassesAreCounted'
<1>1. Passed' \subseteq Passed
  <2>. SUFFICES ASSUME NEW p \in Passed' PROVE p \in Passed
    OBVIOUS
  <2>1. p \in (1 .. Len(log')) \X Conns /\ PassedBy(p[1], p[2])'
    BY DEF Passed
  <2>2. p[1] \in 1 .. Len(log) /\ p[2] \in Conns /\ PassedBy(p[1], p[2])
    BY <2>1
  <2>. QED  BY <2>1, <2>2 DEF Passed
<1>2. Closed \subseteq Closed' /\ Closed' \subseteq Conns
  BY DEF Closed
<1>3. IsFiniteSet(Closed')
  BY <1>2, FS_Subset, ConnsAssumption
<1>4. Cardinality(Passed') <= Cardinality(Passed) /\ Cardinality(Passed') \in Nat
  BY <1>1, PassesFinite, FS_Subset, FS_CardinalityType
<1>5. Cardinality(Closed) <= Cardinality(Closed') /\ Cardinality(Closed') \in Nat
  BY <1>2, <1>3, FS_Subset, FS_CardinalityType
<1>6. Cardinality(Passed) <= Cardinality(Closed)
      /\ Cardinality(Passed) \in Nat /\ Cardinality(Closed) \in Nat
  BY PassesFinite DEF PassesAreCounted
<1>7. Cardinality(Passed') <= Cardinality(Closed')
  BY <1>4, <1>5, <1>6
<1>. QED  BY <1>7 DEF PassesAreCounted

LEMMA PassesInit == Init => PassesAreCounted
<1>. SUFFICES ASSUME Init PROVE PassesAreCounted
  OBVIOUS
<1>1. Passed = {}
  BY DEF Init, Passed
<1>2. Cardinality(Passed) = 0
  BY <1>1, FS_EmptySet
<1>3. Cardinality(Closed) \in Nat
  BY ServerInit, PassesFinite
<1>. QED  BY <1>2, <1>3 DEF PassesAreCounted

\* Outside of a broadcast, and between its turns.
LEMMA QuietPasses ==
  ASSUME ServerInv, PassesAreCounted, UNCHANGED <<log, joined, heard, list>>,
         UNCHANGED <<pc, cast>> \/ (pc # "sending" /\ pc' # "sending"),
         UNCHANGED sock
  PROVE  PassesAreCounted'
<1>1. UnderWay' = UnderWay /\ (UNCHANGED cast \/ UnderWay = 0)
  BY DEF UnderWay
<1>2. \A d \in Conns : Feed(d)' = Feed(d)
  BY DEF Feed
<1>3. \A n \in 1 .. Len(log') : n \in 1 .. Len(log) /\ n # 0
  BY DEF ServerInv, TypeOK
<1>4. \A n \in 1 .. Len(log'), d \in Conns : PassedBy(n, d)' => PassedBy(n, d)
  BY <1>1, <1>2, <1>3 DEF PassedBy
<1>. QED  BY <1>3, <1>4, NonePassed

\* A client is not to hear what was said before it was listed.
LEMMA AcceptPasses ==
  ASSUME ServerInv, PassesAreCounted, Accept
  PROVE  PassesAreCounted'
<1>0. PICK c \in Conns : c = Head(queue) /\ In(c, queue)
  <2>1. Head(queue) \in Conns /\ In(Head(queue), queue)
    BY HeadIsSound, TailFacts DEF Accept, ServerInv, TypeOK
  <2>. QED  BY <2>1
<1>1. /\ pc = "handle" /\ pc' = "call" /\ UNCHANGED <<log, heard>>
      /\ list' = Append(list, c) /\ sock' = [sock EXCEPT ![c] = "open"]
      /\ joined' = [joined EXCEPT ![c] = Len(log)]
  BY <1>0 DEF Accept, Handles, Calls
<1>2. c \in Conns /\ In(c, queue)
  BY <1>0
<1>3. sock[c] = "none"
  BY <1>1, <1>2 DEF ServerInv, QueueIsNew
<1>4. joined'[c] = Len(log) /\ \A d \in Conns \ {c} : joined'[d] = joined[d]
  BY <1>1, <1>2 DEF ServerInv, TypeOK
<1>5. Len(log) \in Nat
  BY DEF ServerInv, TypeOK
<1>6. Feed(c)' = {} /\ \A d \in Conns \ {c} : Feed(d)' = Feed(d)
  <2>1. Feed(c)' = { n \in 1 .. Len(log) : n > Len(log) /\ log[n] # c }
    BY <1>1, <1>4 DEF Feed
  <2>2. \A n \in 1 .. Len(log) : ~ n > Len(log)
    BY <1>5
  <2>3. \A d \in Conns \ {c} : Feed(d)' = Feed(d)
    BY <1>1, <1>4 DEF Feed
  <2>. QED  BY <2>1, <2>2, <2>3
<1>7. \A d \in Conns \ {c} : In(d, list') => In(d, list)
  <2>1. list \in Seq(Conns \cup {server}) /\ c \in Conns \cup {server}
    BY <1>2 DEF ServerInv, TypeOK
  <2>2. \A y : In(y, Append(list, c)) <=> In(y, list) \/ y = c
    BY <2>1, AppendFacts
  <2>. QED  BY <1>1, <2>2
<1>8. UnderWay = 0
  BY <1>1 DEF UnderWay
<1>9. \A n \in 1 .. Len(log), d \in Conns : PassedBy(n, d)' => PassedBy(n, d)
  <2>. SUFFICES ASSUME NEW n \in 1 .. Len(log), NEW d \in Conns, PassedBy(n, d)'
                PROVE  PassedBy(n, d)
    OBVIOUS
  <2>1. n \in Feed(d)' /\ ~ In(n, heard'[d]) /\ In(d, list')
    BY DEF PassedBy, In
  <2>2. d # c
    BY <1>6, <2>1
  <2>3. n \in Feed(d) /\ ~ In(n, heard[d]) /\ In(d, list)
    BY <1>1, <1>6, <1>7, <2>1, <2>2
  <2>4. n # 0
    BY <1>5
  <2>. QED  BY <1>8, <2>3, <2>4 DEF PassedBy, In
<1>10. \A d \in Conns : sock[d] = "closed" => sock'[d] = "closed"
  BY <1>1, <1>2, <1>3 DEF ServerInv, TypeOK
<1>. QED  BY <1>1, <1>9, <1>10, NonePassed

\* A new message has not gone past anybody.
LEMMA CallPasses ==
  ASSUME ServerInv, PassesAreCounted, Call
  PROVE  PassesAreCounted'
<1>1. /\ pc = "call" /\ pc' = "sending" /\ log' = Append(log, cast.sock)
      /\ UNCHANGED <<list, cast, sock, heard, joined>> /\ cast.at = 1 /\ cast.sock \in Conns
  BY DEF Call, kernel, ServerInv, CastIsOn
<1>2. PICK L \in Nat : L = Len(log)
  BY DEF ServerInv, TypeOK
<1>3. Len(log') = L + 1 /\ \A n \in 1 .. L : log'[n] = log[n]
  BY <1>1, <1>2 DEF ServerInv, TypeOK
<1>4. UnderWay = 0 /\ UnderWay' = L + 1
  BY <1>1, <1>3 DEF UnderWay
<1>5. \A n \in 1 .. L + 1, d \in Conns : PassedBy(n, d)' => n \in 1 .. L /\ PassedBy(n, d)
  <2>. SUFFICES ASSUME NEW n \in 1 .. L + 1, NEW d \in Conns, PassedBy(n, d)'
                PROVE  n \in 1 .. L /\ PassedBy(n, d)
    OBVIOUS
  <2>1. /\ n \in Feed(d)' /\ ~ In(n, heard[d]) /\ In(d, list)
        /\ \E i \in 1 .. Len(list) : n = L + 1 => i < 1
    BY <1>1, <1>4 DEF PassedBy, In
  <2>2. Len(list) \in Nat
    BY DEF ServerInv, TypeOK
  <2>3. n \in 1 .. L
    BY <1>2, <2>1, <2>2
  <2>4. n \in Feed(d)
    BY <1>1, <1>2, <1>3, <2>1, <2>3 DEF Feed
  <2>. QED  BY <1>4, <2>1, <2>3, <2>4 DEF PassedBy, In
<1>. QED  BY <1>1, <1>2, <1>3, <1>5, NonePassed

\* The index moves on past a socket that has heard the message or is not to.
LEMMA TurnPasses ==
  ASSUME ServerInv, PassesAreCounted, NEW d \in Conns \cup {server}, PassOver(d) \/ Send(d)
  PROVE  PassesAreCounted'
<1>1. /\ pc = "sending" /\ cast' = [cast EXCEPT !.at = @ + 1] /\ list[cast.at] = d
      /\ UNCHANGED <<pc, list, sock, log, joined>>
  BY DEF PassOver, Send, Turn, NextTurn, history, kernel
<1>2. cast.at \in Nat /\ cast'.at = cast.at + 1 /\ Len(list) \in Nat
  <2>1. cast \in [sock : Conns \cup {server}, at : Nat \ {0}, fatal : BOOLEAN]
    BY DEF ServerInv, TypeOK
  <2>. QED  BY <1>1, <2>1 DEF ServerInv, TypeOK
<1>3. PICK L \in Nat : L = Len(log) /\ L > 0 /\ log[L] = cast.sock
  <2>1. Len(log) \in Nat
    BY DEF ServerInv, TypeOK
  <2>2. Len(log) > 0 /\ log[Len(log)] = cast.sock
    BY <1>1 DEF ServerInv, CastIsOn
  <2>. QED  BY <2>1, <2>2
<1>4. UnderWay = L /\ UnderWay' = L
  BY <1>1, <1>3 DEF UnderWay
<1>5. \A c \in Conns : Feed(c)' = Feed(c)
  BY <1>1 DEF Feed
<1>6. /\ \A c \in Conns, n \in 1 .. L : In(n, heard[c]) => In(n, heard'[c])
      /\ d \in Conns => L \notin Feed(d) \/ In(L, heard'[d])
  <2>1. CASE PassOver(d)
    <3>1. heard' = heard /\ d \in {server, cast.sock}
      BY <2>1 DEF PassOver, Excepted, kernel
    <3>. QED  BY <1>3, <3>1, ServerAssumption DEF Feed
  <2>2. CASE Send(d)
    <3>1. d \in Conns /\ heard' = [heard EXCEPT ![d] = Append(@, L)]
      BY <1>3, <2>2 DEF Send, Excepted
    <3>2. heard \in [Conns -> Seq(1 .. L)] /\ heard[d] \in Seq(1 .. L) /\ L \in 1 .. L
      <4>1. heard \in [Conns -> Seq(1 .. Len(log))]
        BY DEF ServerInv, TypeOK
      <4>2. heard \in [Conns -> Seq(1 .. L)] /\ L \in 1 .. L
        BY <1>3, <4>1
      <4>. QED  BY <3>1, <4>2
    <3>3. /\ heard'[d] = Append(heard[d], L)
          /\ \A c \in Conns \ {d} : heard'[c] = heard[c]
      BY <3>1, <3>2
    <3>4. \A y : In(y, Append(heard[d], L)) <=> In(y, heard[d]) \/ y = L
      BY <3>2, AppendFacts
    <3>. QED  BY <3>3, <3>4
  <2>. QED  BY <2>1, <2>2
<1>7. \A n \in 1 .. L, c \in Conns : PassedBy(n, c)' => PassedBy(n, c)
  <2>. SUFFICES ASSUME NEW n \in 1 .. L, NEW c \in Conns, PassedBy(n, c)'
                PROVE  PassedBy(n, c)
    OBVIOUS
  <2>1. n \in Feed(c) /\ ~ In(n, heard'[c]) /\ ~ In(n, heard[c])
    BY <1>5, <1>6 DEF PassedBy
  <2>2. PICK i \in 1 .. Len(list) : list[i] = c /\ (n = L => i < cast.at + 1)
    BY <1>1, <1>2, <1>4 DEF PassedBy
  <2>3. n = L => c # d
    BY <1>6, <2>1
  <2>4. n = L => i # cast.at
    BY <1>1, <2>2, <2>3
  <2>5. n = L => i < cast.at
    BY <1>2, <2>2, <2>4
  <2>. QED  BY <1>4, <2>1, <2>2, <2>5 DEF PassedBy
<1>. QED  BY <1>1, <1>3, <1>7, NonePassed

\* The list closes up behind the socket that is removed, and the index moves on
\* past the one that took its place (chat_server.py:10, 18).
LEMMA SendFailsPasses ==
  ASSUME ServerInv, PassesAreCounted, NEW d \in Conns \cup {server}, SendFails(d)
  PROVE  PassesAreCounted'
<1>1. /\ pc = "sending" /\ cast' = [cast EXCEPT !.at = @ + 1] /\ cast.at <= Len(list)
      /\ list[cast.at] = d /\ d \in Conns
      /\ sock' = [sock EXCEPT ![d] = "closed"] /\ list' = Without(d)
      /\ UNCHANGED <<pc, heard, log, joined>>
  BY DEF SendFails, Turn, NextTurn, Excepted, history
<1>2. PICK a \in Nat : a = cast.at /\ a \in 1 .. Len(list) /\ cast'.at = a + 1
  <2>1. cast \in [sock : Conns \cup {server}, at : Nat \ {0}, fatal : BOOLEAN]
        /\ Len(list) \in Nat
    BY DEF ServerInv, TypeOK
  <2>. QED  BY <1>1, <2>1
<1>3. PICK L \in Nat : L = Len(log) /\ L > 0
  <2>1. Len(log) \in Nat
    BY DEF ServerInv, TypeOK
  <2>2. Len(log) > 0
    BY <1>1 DEF ServerInv, CastIsOn
  <2>. QED  BY <2>1, <2>2
<1>4. UnderWay = L /\ UnderWay' = L
  BY <1>1, <1>3 DEF UnderWay
<1>5. \A c \in Conns : Feed(c)' = Feed(c)
  BY <1>1 DEF Feed
<1>6. /\ Len(list') = Len(list) - 1 /\ Len(list) \in Nat
      /\ \A j \in 1 .. Len(list) - 1 : list'[j] = IF j < a THEN list[j] ELSE list[j + 1]
  <2>1. Distinct(list) /\ Len(list) \in Nat
    BY <1>1 DEF ServerInv, TypeOK, ListSound
  <2>2. /\ Len(Without(list[a])) = Len(list) - 1
        /\ \A j \in 1 .. Len(list) - 1 :
             Without(list[a])[j] = IF j < a THEN list[j] ELSE list[j + 1]
    BY <1>2, <2>1, RemoveAt DEF ServerInv
  <2>3. list' = Without(list[a])
    BY <1>1, <1>2
  <2>. QED  BY <2>1, <2>2, <2>3
<1>. DEFINE next == <<L, list[a + 1]>>
<1>7. Passed' \subseteq Passed \cup {next}
  <2>. SUFFICES ASSUME NEW p \in Passed', p # next PROVE p \in Passed
    OBVIOUS
  <2>. DEFINE n == p[1]
              c == p[2]
  <2>1. p \in (1 .. L) \X Conns /\ PassedBy(n, c)'
    BY <1>1, <1>3 DEF Passed
  <2>2. n \in 1 .. L /\ c \in Conns /\ p = <<n, c>>
    BY <2>1
  <2>. HIDE DEF n, c
  <2>3. n \in Feed(c) /\ ~ In(n, heard[c])
    BY <1>1, <1>5, <2>1, <2>2 DEF PassedBy
  <2>4. PICK i \in 1 .. Len(list) - 1 : list'[i] = c /\ (n = L => i < a + 1)
    BY <1>2, <1>4, <1>6, <2>1 DEF PassedBy
  <2>5. PICK k \in 1 .. Len(list) : list[k] = c /\ (n = L => k < a)
    <3>1. CASE i < a
      BY <1>6, <2>4, <3>1
    <3>2. CASE ~ i < a
      <4>1. list[i + 1] = c /\ i + 1 \in 1 .. Len(list)
        BY <1>6, <2>4, <3>2
      <4>2. n # L
        <5>. SUFFICES ASSUME n = L PROVE FALSE
          OBVIOUS
        <5>1. i = a
          BY <1>2, <1>6, <2>4, <3>2
        <5>. QED  BY <2>2, <4>1, <5>1
      <4>. QED  BY <4>1, <4>2
    <3>. QED  BY <3>1, <3>2
  <2>6. PassedBy(n, c)
    BY <1>2, <1>4, <2>3, <2>5 DEF PassedBy
  <2>. QED  BY <1>3, <2>1, <2>6 DEF Passed, n, c
<1>. HIDE DEF next
<1>8. Closed' = Closed \cup {d} /\ d \notin Closed
  <2>1. sock[d] = "open"
    BY <1>1, <1>2 DEF ServerInv, ListSound, In
  <2>. QED  BY <1>1, <2>1 DEF Closed, ServerInv, TypeOK
<1>9. Cardinality(Closed') = Cardinality(Closed) + 1 /\ Cardinality(Closed) \in Nat
  BY <1>8, PassesFinite, FS_AddElement
<1>10. Cardinality(Passed') <= Cardinality(Passed) + 1 /\ Cardinality(Passed') \in Nat
  <2>1. /\ IsFiniteSet(Passed \cup {next}) /\ Cardinality(Passed) \in Nat
        /\ \/ Cardinality(Passed \cup {next}) = Cardinality(Passed) + 1
           \/ Cardinality(Passed \cup {next}) = Cardinality(Passed)
    BY PassesFinite, FS_AddElement
  <2>2. /\ Cardinality(Passed') <= Cardinality(Passed \cup {next})
        /\ Cardinality(Passed') \in Nat
    BY <1>7, <2>1, FS_Subset, FS_CardinalityType
  <2>. QED  BY <2>1, <2>2
<1>11. Cardinality(Passed) <= Cardinality(Closed) /\ Cardinality(Passed) \in Nat
  BY PassesFinite DEF PassesAreCounted
<1>12. Cardinality(Passed') <= Cardinality(Closed')
  BY <1>9, <1>10, <1>11
<1>. QED  BY <1>12 DEF PassesAreCounted

\* At the end of a broadcast its message has gone past whoever has not heard it.
LEMMA ReturnPasses ==
  ASSUME ServerInv, PassesAreCounted, Return
  PROVE  PassesAreCounted'
<1>1. /\ pc = "sending" /\ pc' # "sending" /\ cast.at > Len(list)
      /\ UNCHANGED <<heard, log, joined>>
      /\ \/ UNCHANGED <<list, sock>>
         \/ list' = Without(cast.sock) /\ sock' = [sock EXCEPT ![cast.sock] = "closed"]
  BY DEF Return, ContinueWith, history, kernel
<1>2. \A c \in Conns : In(c, list') => In(c, list)
  BY <1>1, RemoveFacts DEF ServerInv, ListSound
<1>3. cast.at \in Nat /\ Len(list) \in Nat
  <2>1. cast \in [sock : Conns \cup {server}, at : Nat \ {0}, fatal : BOOLEAN]
    BY DEF ServerInv, TypeOK
  <2>. QED  BY <2>1 DEF ServerInv, TypeOK
<1>4. \A i \in 1 .. Len(list) : i < cast.at
  BY <1>1, <1>3
<1>5. \A n \in 1 .. Len(log), c \in Conns : PassedBy(n, c)' => PassedBy(n, c)
  <2>. SUFFICES ASSUME NEW n \in 1 .. Len(log), NEW c \in Conns, PassedBy(n, c)'
                PROVE  PassedBy(n, c)
    OBVIOUS
  <2>1. Feed(c)' = Feed(c)
    BY <1>1 DEF Feed
  <2>2. n \in Feed(c) /\ ~ In(n, heard[c]) /\ In(c, list')
    BY <1>1, <2>1 DEF PassedBy, In
  <2>. QED  BY <1>2, <1>4, <2>2 DEF PassedBy, In
<1>6. \A c \in Conns : sock[c] = "closed" => sock'[c] = "closed"
  BY <1>1 DEF ServerInv, TypeOK
<1>. QED  BY <1>1, <1>5, <1>6, NonePassed

LEMMA PassesNext == ServerInv /\ PassesAreCounted /\ [Next]_vars => PassesAreCounted'
<1>. SUFFICES ASSUME ServerInv, PassesAreCounted, [Next]_vars PROVE PassesAreCounted'
  OBVIOUS
<1>. USE DEF python, kernel, history
<1>1. ASSUME Select \/ SelectRaises \/ AcceptFails PROVE PassesAreCounted'
  <2>1. pc # "sending" /\ pc' # "sending" /\ UNCHANGED <<log, joined, heard, list, sock>>
    BY <1>1 DEF Select, SelectRaises, AcceptFails, Handles
  <2>. QED  BY <2>1, QuietPasses
<1>2. ASSUME NEW c \in Conns, Receive(c) \/ ReceiveNothing(c) \/ ReceiveFails(c)
      PROVE  PassesAreCounted'
  <2>1. pc = "handle" /\ pc' # "sending" /\ UNCHANGED <<log, joined, heard, list, sock>>
    BY <1>2 DEF Receive, ReceiveNothing, ReceiveFails, Handles, Calls, ContinueWith
  <2>. QED  BY <2>1, QuietPasses
<1>3. ASSUME NEW c \in Conns, Program(c) PROVE PassesAreCounted'
  <2>1. UNCHANGED <<log, joined, heard, list, sock, pc, cast>>
    BY <1>3 DEF Program, Connect, Say, Read, Leave, ResetArrives, End
  <2>. QED  BY <2>1, QuietPasses
<1>4. ASSUME UNCHANGED vars PROVE PassesAreCounted'
  BY <1>4, QuietPasses DEF vars
<1>. QED
  BY <1>1, <1>2, <1>3, <1>4, AcceptPasses, CallPasses, TurnPasses, SendFailsPasses,
     ReturnPasses
  DEF Next, Server

\* Each socket that a broadcast removes from the list it iterates over costs one
\* client one message, and no more is ever missed (chat_server.py:9-18).
THEOREM OneMissEach == Spec => []OneMissPerRemoval
<1>1. ServerInv /\ PassesAreCounted => OneMissPerRemoval
  <2>. SUFFICES ASSUME ServerInv, PassesAreCounted PROVE OneMissPerRemoval
    OBVIOUS
  <2>. DEFINE M == UNION { {<<n, d>> : n \in Missed(d)} : d \in Listed }
  <2>1. M \subseteq Passed
    BY MissedWerePassed
  <2>. HIDE DEF M
  <2>2. Cardinality(M) <= Cardinality(Passed) /\ Cardinality(M) \in Nat
    BY <2>1, PassesFinite, FS_Subset, FS_CardinalityType
  <2>3. Cardinality(M) <= Cardinality(Closed)
    BY <2>2, PassesFinite DEF PassesAreCounted
  <2>. QED  BY <2>3 DEF OneMissPerRemoval, M
<1>. QED
  BY <1>1, ServerInit, ServerNext, PassesInit, PassesNext, PTL DEF Spec

=============================================================================
