------------------------- MODULE FireClientRead_proof --------------------------
(***************************************************************************)
(* What the reading client shows and when it ends, for arrays, reads and   *)
(* texts of any length.                                                    *)
(***************************************************************************)
EXTENDS FireClientRead, TLAPS

\* An event goes only for its reason: the socket's when all was read, and the
\* standard input's was never there unless epoll takes it.
EventsStay ==
  /\ proc = "starting" => input = <<>> /\ active = {} /\ events = {}
  /\ proc # "starting" /\ "sock" \notin events => Gone /\ Len(input) = arrived
  /\ proc # "starting" /\ "cmd" \notin events => ~pollable
  /\ proc = "ended" => events = {}

Typed == TypeOK /\ input \in Seq(Nat)

ReadInv == Typed /\ EventsStay /\ PrintsHeads

-----------------------------------------------------------------------------
\* main, before it connects.
LEMMA ReadInit == Init => ReadInv
<1>. SUFFICES ASSUME Init PROVE ReadInv
  OBVIOUS
<1>1. /\ <<>> \in Seq(Nat) /\ <<>> \in Seq(Nat \cup {Junk}) /\ Len(<<>>) = 0
      /\ <<>> = [i \in 1 .. 0 |-> i] /\ 1 .. 0 = {}
  OBVIOUS
<1>2. Typed
  BY <1>1, BoundsAssumption DEF Init, Typed, TypeOK
<1>3. EventsStay /\ PrintsHeads
  BY <1>1 DEF Init, EventsStay, PrintsHeads
<1>. QED  BY <1>2, <1>3 DEF ReadInv

LEMMA LeastOfTwo ==
  ASSUME NEW a \in Nat, NEW b \in Nat
  PROVE  /\ Least(a, b) \in Nat /\ Least(a, b) <= a /\ Least(a, b) <= b
         /\ a >= b => Least(a, b) = b
         /\ Least(a, b) = a \/ Least(a, b) = b
BY DEF Least

LEMMA FunctionIsSeq ==
  ASSUME NEW k \in Nat, NEW f \in [1 .. k -> Nat]
  PROVE  f \in Seq(Nat) /\ Len(f) = k
OBVIOUS

\* A sequence of units that are their own positions.
LEMMA UnitsInOrder ==
  ASSUME NEW s \in Seq(Nat), \A i \in 1 .. Len(s) : s[i] = i
  PROVE  s = [i \in 1 .. Len(s) |-> i]
<1>1. Len(s) \in Nat /\ s \in [1 .. Len(s) -> Nat]
  OBVIOUS
<1>. QED  BY <1>1

\* evbuffer_read appends the units that follow those the evbuffer has.
LEMMA ReadAppends ==
  ASSUME Typed, Unread > 0,
         NEW k, k = Least(Unread, ReadMax),
         NEW buf, buf = input \o NextUnits(k)
  PROVE  /\ buf \in Seq(Nat) /\ Len(buf) \in Nat
         /\ 1 <= Len(buf) /\ Len(buf) <= arrived
         /\ buf = [i \in 1 .. Len(buf) |-> i]
<1>1. /\ input \in Seq(Nat) /\ Len(input) \in Nat /\ arrived \in Nat
      /\ Len(input) <= arrived
      /\ \A i \in 1 .. Len(input) : input[i] = i
  BY BoundsAssumption DEF Typed, TypeOK
<1>2. k \in Nat /\ k >= 1 /\ k <= arrived - Len(input)
  BY <1>1, LimitsAssumption DEF Unread, Least
<1>3. /\ NextUnits(k) \in Seq(Nat) /\ Len(NextUnits(k)) = k
      /\ \A i \in 1 .. k : NextUnits(k)[i] = Len(input) + i
  <2>. DEFINE n == Len(input)
  <2>1. NextUnits(k) = [i \in 1 .. k |-> n + i]
    BY DEF NextUnits
  <2>2. n \in Nat
    BY <1>1
  <2>. HIDE DEF n
  <2>3. [i \in 1 .. k |-> n + i] \in [1 .. k -> Nat]
    BY <1>2, <2>2
  <2>4. [i \in 1 .. k |-> n + i] \in Seq(Nat) /\ Len([i \in 1 .. k |-> n + i]) = k
    BY <1>2, <2>3, FunctionIsSeq
  <2>. QED  BY <2>1, <2>4 DEF n
<1>4. buf \in Seq(Nat) /\ Len(buf) = Len(input) + k
  BY <1>1, <1>3
<1>5. \A i \in 1 .. Len(buf) : buf[i] = i
  <2>. SUFFICES ASSUME NEW i \in 1 .. Len(buf) PROVE buf[i] = i
    OBVIOUS
  <2>1. CASE i <= Len(input)
    BY <1>1, <1>2, <1>3, <1>4, <2>1
  <2>2. CASE i > Len(input)
    <3>1. i - Len(input) \in 1 .. k /\ Len(input) + (i - Len(input)) = i
      BY <1>1, <1>2, <1>4, <2>2
    <3>2. buf[i] = NextUnits(k)[i - Len(input)]
      BY <1>1, <1>2, <1>3, <1>4, <2>2
    <3>. QED  BY <1>3, <3>1, <3>2
  <2>. QED  BY <1>1, <1>4, <2>1, <2>2
<1>6. buf = [i \in 1 .. Len(buf) |-> i]
  BY <1>4, <1>5, UnitsInOrder
<1>. QED  BY <1>1, <1>2, <1>4, <1>6

\* evbuffer_copyout and printf: the head of the evbuffer, as far as the array
\* goes, and junk behind it only when the array is full.
LEMMA ShownIsHead ==
  ASSUME NEW buf \in Seq(Nat), Len(buf) >= 1, buf = [i \in 1 .. Len(buf) |-> i],
         NEW text \in Shown(buf)
  PROVE  /\ text \in Seq(Nat \cup {Junk})
         /\ \A j \in 1 .. Len(text) :
              \/ text[j] = j /\ j <= MsgMax
              \/ text[j] = Junk /\ j = MsgMax + 1 /\ text[j - 1] = MsgMax
<1>. DEFINE m   == Least(Len(buf), MsgMax)
            msg == SubSeq(buf, 1, m)
<1>1. Len(buf) \in Nat /\ MsgMax \in Nat /\ MsgMax >= 1
  BY LimitsAssumption
<1>2. m \in Nat /\ m <= Len(buf) /\ m <= MsgMax /\ (Len(buf) >= MsgMax => m = MsgMax)
  BY <1>1, LeastOfTwo
<1>3. text = msg \/ (m = MsgMax /\ text = Append(msg, Junk))
  BY <1>1, <1>2 DEF Shown
<1>. HIDE DEF m
<1>4. /\ msg \in Seq(Nat) /\ Len(msg) = m
      /\ \A j \in 1 .. m : msg[j] = buf[j] /\ buf[j] = j
  BY <1>1, <1>2
<1>. HIDE DEF msg
<1>5. CASE text = msg
  <2>1. text \in Seq(Nat \cup {Junk})
    BY <1>4, <1>5
  <2>2. \A j \in 1 .. Len(text) : text[j] = j /\ j <= MsgMax
    BY <1>1, <1>2, <1>4, <1>5
  <2>. QED  BY <2>1, <2>2
<1>6. CASE m = MsgMax /\ text = Append(msg, Junk)
  <2>1. msg \in Seq(Nat \cup {Junk}) /\ Junk \in Nat \cup {Junk}
    BY <1>4
  <2>2. /\ text \in Seq(Nat \cup {Junk}) /\ Len(text) = m + 1
        /\ \A j \in 1 .. m : text[j] = msg[j]
        /\ text[m + 1] = Junk
    BY <1>2, <1>4, <1>6, <2>1
  <2>3. \A j \in 1 .. m : text[j] = j /\ j <= MsgMax
    BY <1>1, <1>2, <1>4, <2>2
  <2>4. text[(m + 1) - 1] = MsgMax
    <3>1. (m + 1) - 1 = MsgMax /\ MsgMax \in 1 .. m
      BY <1>1, <1>6
    <3>. QED  BY <2>3, <3>1
  <2>5. \A j \in 1 .. Len(text) : j \in 1 .. m \/ j = m + 1
    BY <1>2, <2>2
  <2>. QED  BY <1>6, <2>2, <2>3, <2>4, <2>5
<1>. QED  BY <1>3, <1>5, <1>6

\* What is printed stays made of heads when another head is printed.
LEMMA HeadsFollowHeads ==
  ASSUME PrintsHeads, printed \in Seq(Nat \cup {Junk}),
         NEW text \in Seq(Nat \cup {Junk}), printed' = printed \o text,
         \A j \in 1 .. Len(text) :
           \/ text[j] = j /\ j <= MsgMax
           \/ text[j] = Junk /\ j = MsgMax + 1 /\ text[j - 1] = MsgMax
  PROVE  PrintsHeads'
<1>. DEFINE p == Len(printed)
<1>1. p \in Nat /\ Len(text) \in Nat /\ MsgMax \in Nat /\ MsgMax >= 1
  BY LimitsAssumption
<1>2. /\ Len(printed') = p + Len(text)
      /\ \A i \in 1 .. p : printed'[i] = printed[i]
      /\ \A j \in 1 .. Len(text) : printed'[p + j] = text[j]
  BY <1>1
<1>. SUFFICES ASSUME NEW i \in 1 .. Len(printed')
              PROVE  IF printed'[i] = Junk
                     THEN i > 1 /\ printed'[i - 1] = MsgMax
                     ELSE /\ printed'[i] <= MsgMax
                          /\ printed'[i] = 1 \/ (i > 1 /\ printed'[i - 1] = printed'[i] - 1)
  BY DEF PrintsHeads
<1>. HIDE DEF p
<1>3. CASE i <= p
  <2>1. i \in 1 .. p /\ (i > 1 => i - 1 \in 1 .. p)
    BY <1>1, <1>3
  <2>. QED  BY <1>2, <2>1 DEF PrintsHeads, p
<1>4. CASE i > p
  <2>1. PICK j \in 1 .. Len(text) : i = p + j
    <3>1. i - p \in 1 .. Len(text) /\ i = p + (i - p)
      BY <1>1, <1>2, <1>4
    <3>. QED  BY <3>1
  <2>2. printed'[i] = text[j]
    BY <1>2, <2>1
  <2>3. j > 1 => i > 1 /\ printed'[i - 1] = text[j - 1]
    <3>. SUFFICES ASSUME j > 1 PROVE i > 1 /\ printed'[i - 1] = text[j - 1]
      OBVIOUS
    <3>1. j - 1 \in 1 .. Len(text) /\ i - 1 = p + (j - 1)
      BY <1>1, <2>1
    <3>. QED  BY <1>1, <1>2, <2>1, <3>1
  <2>4. CASE text[j] = j /\ j <= MsgMax
    <3>1. text[j] # Junk
      BY <2>4, JunkAssumption
    <3>2. j > 1 => text[j - 1] = j - 1
      <4>. SUFFICES ASSUME j > 1 PROVE text[j - 1] = j - 1
        OBVIOUS
      <4>1. j - 1 \in 1 .. Len(text) /\ j - 1 # MsgMax + 1
        BY <1>1, <2>4
      <4>. QED  BY <4>1
    <3>. QED  BY <1>1, <2>2, <2>3, <2>4, <3>1, <3>2
  <2>5. CASE text[j] = Junk /\ j = MsgMax + 1 /\ text[j - 1] = MsgMax
    BY <1>1, <2>2, <2>3, <2>5
  <2>. QED  BY <2>4, <2>5
<1>. QED  BY <1>1, <1>2, <1>3, <1>4

-----------------------------------------------------------------------------
LEMMA ReadNext == ReadInv /\ [Next]_vars => ReadInv'
<1>. SUFFICES ASSUME ReadInv, [Next]_vars PROVE ReadInv'
  OBVIOUS
<1>. USE DEF ReadInv
<1>1. CASE Start
  <2>1. Typed' /\ PrintsHeads'
    BY <1>1 DEF Start, terminal, Typed, TypeOK, EventsStay, Events, PrintsHeads
  <2>2. EventsStay'
    BY <1>1 DEF Start, terminal, EventsStay
  <2>. QED  BY <2>1, <2>2
<1>2. CASE Poll
  <2>1. Typed' /\ PrintsHeads'
    BY <1>2 DEF Poll, network, terminal, Ready, Typed, TypeOK, PrintsHeads
  <2>2. EventsStay'
    BY <1>2 DEF Poll, network, terminal, EventsStay, Gone
  <2>. QED  BY <2>1, <2>2
<1>3. CASE LoopEnds
  <2>1. Typed' /\ PrintsHeads'
    BY <1>3 DEF LoopEnds, network, terminal, Typed, TypeOK, PrintsHeads
  <2>2. EventsStay'
    BY <1>3 DEF LoopEnds, network, terminal, EventsStay, Gone
  <2>. QED  BY <2>1, <2>2
<1>4. CASE ReadData
  <2>1. /\ Unread > 0
        /\ input' = input \o NextUnits(Least(Unread, ReadMax))
        /\ active' = active \ {"sock"} /\ "sock" \in active /\ proc = "looping"
        /\ UNCHANGED <<proc, events, conn, arrived, typed, stdin, pollable>>
    BY <1>4 DEF ReadData, network, terminal
  <2>2. /\ input' \in Seq(Nat) /\ Len(input') \in Nat
        /\ 1 <= Len(input') /\ Len(input') <= arrived
        /\ input' = [i \in 1 .. Len(input') |-> i]
    BY <2>1, ReadAppends
  <2>3. PICK text \in Shown(input') : printed' = printed \o text
    BY <1>4 DEF ReadData
  <2>4. /\ text \in Seq(Nat \cup {Junk})
        /\ \A j \in 1 .. Len(text) :
             \/ text[j] = j /\ j <= MsgMax
             \/ text[j] = Junk /\ j = MsgMax + 1 /\ text[j - 1] = MsgMax
    BY <2>2, ShownIsHead
  <2>5. printed \in Seq(Nat \cup {Junk})
    BY DEF Typed, TypeOK
  <2>6. PrintsHeads'
    BY <2>3, <2>4, <2>5, HeadsFollowHeads
  <2>7. printed' \in Seq(Nat \cup {Junk})
    BY <2>3, <2>4, <2>5
  <2>8. Typed'
    BY <2>1, <2>2, <2>7 DEF Typed, TypeOK
  <2>9. EventsStay'
    <3>1. "sock" \in events
      BY <2>1 DEF Typed, TypeOK
    <3>. QED  BY <2>1, <3>1 DEF EventsStay
  <2>. QED  BY <2>6, <2>8, <2>9
<1>5. CASE ReadEnds
  <2>1. Len(input) = arrived /\ Gone
    <3>1. Len(input) \in Nat /\ arrived \in Nat /\ Len(input) <= arrived
      BY BoundsAssumption DEF Typed, TypeOK
    <3>. QED  BY <1>5, <3>1 DEF ReadEnds, AtEnd, Unread
  <2>2. Typed' /\ PrintsHeads'
    BY <1>5 DEF ReadEnds, network, terminal, Typed, TypeOK, PrintsHeads
  <2>3. EventsStay'
    BY <1>5, <2>1 DEF ReadEnds, network, terminal, EventsStay, Gone
  <2>. QED  BY <2>2, <2>3
<1>6. CASE ReadCommand
  <2>1. typed' \in 0 .. MaxType
    <3>1. typed \in 0 .. MaxType /\ CmdMax \in Nat /\ MaxType \in Nat
      BY LimitsAssumption, BoundsAssumption DEF Typed, TypeOK
    <3>2. Least(typed, CmdMax) \in Nat /\ Least(typed, CmdMax) <= typed
      BY <3>1, LeastOfTwo
    <3>. QED  BY <1>6, <3>1, <3>2 DEF ReadCommand
  <2>2. Typed' /\ PrintsHeads'
    BY <1>6, <2>1 DEF ReadCommand, network, Typed, TypeOK, PrintsHeads
  <2>3. EventsStay'
    BY <1>6 DEF ReadCommand, network, EventsStay, Gone
  <2>. QED  BY <2>2, <2>3
<1>7. CASE ServerWrites
  <2>1. /\ conn = "estab" /\ arrived' = arrived + 1 /\ arrived < MaxArrive
        /\ UNCHANGED <<proc, input, printed, events, active, conn, typed, stdin, pollable>>
    BY <1>7 DEF ServerWrites, client, terminal
  <2>2. /\ arrived \in Nat /\ MaxArrive \in Nat /\ Len(input) \in Nat
        /\ Len(input) <= arrived
    BY BoundsAssumption DEF Typed, TypeOK
  <2>3. arrived' \in 0 .. MaxArrive /\ Len(input) <= arrived'
    BY <2>1, <2>2
  <2>4. Typed' /\ PrintsHeads'
    BY <2>1, <2>3 DEF Typed, TypeOK, PrintsHeads
  <2>5. EventsStay'
    BY <2>1 DEF EventsStay, Gone
  <2>. QED  BY <2>4, <2>5
<1>8. CASE ServerEnds
  <2>1. Typed' /\ PrintsHeads'
    BY <1>8 DEF ServerEnds, client, terminal, Typed, TypeOK, PrintsHeads
  <2>2. EventsStay'
    BY <1>8 DEF ServerEnds, client, terminal, EventsStay, Gone
  <2>. QED  BY <2>1, <2>2
<1>9. CASE UserTypes
  <2>1. typed' \in 0 .. MaxType
    BY <1>9, BoundsAssumption DEF UserTypes, Typed, TypeOK
  <2>2. Typed' /\ PrintsHeads'
    BY <1>9, <2>1 DEF UserTypes, client, network, Typed, TypeOK, PrintsHeads
  <2>3. EventsStay'
    BY <1>9 DEF UserTypes, client, network, EventsStay, Gone
  <2>. QED  BY <2>2, <2>3
<1>10. CASE UserEnds
  <2>1. Typed' /\ PrintsHeads'
    BY <1>10 DEF UserEnds, client, network, Typed, TypeOK, PrintsHeads
  <2>2. EventsStay'
    BY <1>10 DEF UserEnds, client, network, EventsStay, Gone
  <2>. QED  BY <2>1, <2>2
<1>11. CASE UNCHANGED vars
  BY <1>11 DEF vars, client, network, terminal, Typed, TypeOK, EventsStay, Gone,
               PrintsHeads
<1>. QED
  BY <1>1, <1>2, <1>3, <1>4, <1>5, <1>6, <1>7, <1>8, <1>9, <1>10, <1>11
     DEF Next, Client

LEMMA ReadAlways == Spec => []ReadInv
BY ReadInit, ReadNext, PTL DEF Spec

\* The evbuffer holds what arrived, in order, from the first unit on: read_cb,
\* which never drains it, has nothing to do with that.
THEOREM TypeCorrect == Spec => []TypeOK
BY ReadAlways, PTL DEF ReadInv, Typed

\* read_cb shows heads of the text only, each from its first unit on and no
\* longer than its array, and what lies behind the array only when it is full.
THEOREM OnlyHeads == Spec => []PrintsHeads
BY ReadAlways, PTL DEF ReadInv

\* The loop of fireClientRead ends only without an event on the standard input,
\* after the end of the connection and with everything read.
THEOREM EndsAtEnd == Spec => []EndsHavingReadAll
<1>1. ReadInv => EndsHavingReadAll
  BY DEF ReadInv, EventsStay, EndsHavingReadAll
<1>. QED  BY <1>1, ReadAlways, PTL

=============================================================================
