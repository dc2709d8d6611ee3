----------------------- MODULE FireServerDelivery_proof -----------------------
(***************************************************************************)
(* Delivery: every client is given the units of the others, in the order   *)
(* the server read them, without duplicates, and (when malloc does not     *)
(* fail) without holes.                                                    *)
(***************************************************************************)
EXTENDS FireServer_proof, FireClientSend, SequenceTheorems

\* A client was inserted at some point of the log.
JoinedInLog == \A c \in Conns : joined[c] <= Len(log)

\* Like NoHole, of all a connection was given, written or not.
GivenHasNoHole ==
  \A c \in Conns : \A i \in 1 .. Len(Given(c)) : \A n \in Owed(c) :
    n < Given(c)[i] => \E j \in 1 .. Len(Given(c)) : Given(c)[j] = n

OrderInv == BaseInv /\ JoinedInLog /\ InOrder
FullInv == OrderInv /\ Complete /\ GivenHasNoHole

USE DEF NoFd, TypeOK, TypeInv

-----------------------------------------------------------------------------
(***************************************************************************)
(* What each kind of step does to Given and Owed.                          *)
(***************************************************************************)

\* Positions in the first of two sequences, laid end to end.
LEMMA WithinSum ==
  ASSUME NEW m \in Nat, NEW n \in Nat
  PROVE  /\ m <= m + n
         /\ \A i \in 1 .. m : i \in 1 .. m + n /\ i <= m
OBVIOUS

\* Given and the log are sequences.
LEMMA GivenType ==
  ASSUME Types, NEW c \in Conns
  PROVE  /\ Given(c) \in Seq(Nat) /\ Len(Given(c)) \in Nat
         /\ Len(log) \in Nat /\ joined[c] \in Nat
         /\ Len(stream[c]) \in Nat /\ Len(out[c]) \in Nat
         /\ Len(Given(c)) = Len(stream[c]) + Len(out[c])
         /\ \A i \in 1 .. Len(stream[c]) : Given(c)[i] = stream[c][i]
         /\ \A i \in 1 .. Len(Given(c)) : Given(c)[i] \in Nat
<1>1. stream[c] \in Seq(Nat) /\ out[c] \in Seq(Nat) /\ log \in Seq(Conns)
      /\ joined[c] \in Nat
  BY DEF Types
<1>2. Len(stream[c]) \in Nat /\ Len(out[c]) \in Nat /\ Len(log) \in Nat
  BY <1>1
<1>3. /\ stream[c] \o out[c] \in Seq(Nat)
      /\ Len(stream[c] \o out[c]) = Len(stream[c]) + Len(out[c])
      /\ \A i \in 1 .. Len(stream[c]) + Len(out[c]) : (stream[c] \o out[c])[i] =
             IF i <= Len(stream[c]) THEN stream[c][i] ELSE out[c][i - Len(stream[c])]
  BY <1>1, ConcatProperties
<1>4. \A i \in 1 .. Len(stream[c]) : (stream[c] \o out[c])[i] = stream[c][i]
  <2>. SUFFICES ASSUME NEW i \in 1 .. Len(stream[c])
                PROVE  (stream[c] \o out[c])[i] = stream[c][i]
    OBVIOUS
  <2>1. i \in 1 .. Len(stream[c]) + Len(out[c]) /\ i <= Len(stream[c])
    BY <1>2, WithinSum
  <2>. QED  BY <1>3, <2>1
<1>5. \A i \in 1 .. Len(stream[c] \o out[c]) : (stream[c] \o out[c])[i] \in Nat
  BY <1>3, ElementOfSeq
<1>6. Given(c) = stream[c] \o out[c]
  BY DEF Given
<1>7. Len(stream[c] \o out[c]) \in Nat
  BY <1>3, LenProperties
<1>8. /\ Given(c) \in Seq(Nat) /\ Len(Given(c)) \in Nat
      /\ Len(Given(c)) = Len(stream[c]) + Len(out[c])
  BY <1>3, <1>6, <1>7
<1>9. /\ \A i \in 1 .. Len(stream[c]) : Given(c)[i] = stream[c][i]
      /\ \A i \in 1 .. Len(Given(c)) : Given(c)[i] \in Nat
  BY <1>4, <1>5, <1>6, Zenon
<1>. QED  BY <1>1, <1>2, <1>8, <1>9, Zenon

\* Appending is associative.
LEMMA Assoc ==
  ASSUME NEW u \in Seq(Nat), NEW v \in Seq(Nat), NEW w \in Seq(Nat)
  PROVE  (u \o v) \o w = u \o (v \o w)
BY ConcatAssociative, SMTT(30)

\* evbuffer_drain moves units from the output evbuffer to the stream: what was
\* given stays the same.
LEMMA FlushKeepsGiven ==
  ASSUME NEW s \in Seq(Nat), NEW o \in Seq(Nat), NEW n \in 1 .. Len(o)
  PROVE  (s \o SubSeq(o, 1, n)) \o SubSeq(o, n + 1, Len(o)) = s \o o
<1>1. Len(o) \in Nat /\ n \in Nat
  OBVIOUS
<1>2. SubSeq(o, 1, n) \in Seq(Nat) /\ SubSeq(o, n + 1, Len(o)) \in Seq(Nat)
  BY <1>1
<1>3. SubSeq(o, 1, n) \o SubSeq(o, n + 1, Len(o)) = SubSeq(o, 1, Len(o))
  <2>1. 1 \in 1 .. Len(o) + 1 /\ n \in 1 - 1 .. Len(o) /\ Len(o) \in n .. Len(o)
    BY <1>1
  <2>. QED  BY <2>1, ConcatAdjacentSubSeq
<1>4. SubSeq(o, 1, Len(o)) = o
  BY SubSeqFull
<1>5. (s \o SubSeq(o, 1, n)) \o SubSeq(o, n + 1, Len(o)) =
        s \o (SubSeq(o, 1, n) \o SubSeq(o, n + 1, Len(o)))
  <2>. DEFINE a == SubSeq(o, 1, n)
              b == SubSeq(o, n + 1, Len(o))
  <2>1. a \in Seq(Nat) /\ b \in Seq(Nat)
    BY <1>2
  <2>. HIDE DEF a, b
  <2>2. (s \o a) \o b = s \o (a \o b)
    BY <2>1, Assoc
  <2>. QED  BY <2>2 DEF a, b
<1>. QED  BY <1>3, <1>4, <1>5

\* A step that changes neither the log, nor joined, nor what anyone was given.
LEMMA OrderKept ==
  ASSUME OrderInv, BaseInv', UNCHANGED <<log, joined>>,
         \A c \in Conns : Given(c)' = Given(c)
  PROVE  /\ OrderInv'
         /\ \A c \in Conns : Owed(c)' = Owed(c)
<1>1. \A c \in Conns : Owed(c)' = Owed(c)
  BY DEF Owed
<1>2. JoinedInLog'
  BY DEF OrderInv, JoinedInLog
<1>3. InOrder'
  BY <1>1 DEF OrderInv, InOrder
<1>. QED  BY <1>1, <1>2, <1>3 DEF OrderInv

LEMMA FullKept ==
  ASSUME FullInv, BaseInv', UNCHANGED <<log, joined>>, clients' \subseteq clients,
         \A c \in Conns : Given(c)' = Given(c)
  PROVE  FullInv'
<1>1. OrderInv' /\ \A c \in Conns : Owed(c)' = Owed(c)
  BY OrderKept DEF FullInv
<1>2. clients \subseteq Conns
  BY DEF FullInv, OrderInv, BaseInv, Types
<1>3. Complete'
  BY <1>1, <1>2 DEF FullInv, Complete
<1>4. GivenHasNoHole'
  BY <1>1 DEF FullInv, GivenHasNoHole
<1>. QED  BY <1>1, <1>3, <1>4 DEF FullInv

\* bufferevent_finalize_cb_ drops what was not written: a prefix is left.
LEMMA FinalGiven ==
  ASSUME BaseInv, NEW c \in Conns, RunFinal(c), BaseInv', NEW d \in Conns
  PROVE  /\ Len(Given(d)') \in Nat /\ Len(Given(d)') <= Len(Given(d))
         /\ \A i \in 1 .. Len(Given(d)') : Given(d)'[i] = Given(d)[i]
         /\ d # c => Given(d)' = Given(d)
<1>1. stream' = stream /\ out' = [out EXCEPT ![c] = <<>>]
  BY DEF RunFinal, history
<1>2. CASE d # c
  <2>1. Given(d)' = Given(d)
    BY <1>1, <1>2 DEF Given, BaseInv, Types
  <2>. QED  BY <2>1, GivenType DEF BaseInv
<1>3. CASE d = c
  <2>1. out'[c] = <<>> /\ stream[c] \in Seq(Nat)
    BY <1>1 DEF BaseInv, Types
  <2>2. Given(d)' = stream[d]
    BY <1>1, <1>3, <2>1, ConcatEmptySeq DEF Given
  <2>3. /\ Len(Given(d)) = Len(stream[d]) + Len(out[d])
        /\ Len(stream[d]) \in Nat /\ Len(out[d]) \in Nat
        /\ \A i \in 1 .. Len(stream[d]) : Given(d)[i] = stream[d][i]
    BY GivenType DEF BaseInv
  <2>4. Len(stream[d]) <= Len(Given(d))
    BY <2>3, WithinSum
  <2>. QED  BY <1>3, <2>2, <2>3, <2>4
<1>. QED  BY <1>2, <1>3

\* Two sequences end to end, seen from the positions of each.
LEMMA ConcatParts ==
  ASSUME NEW S, NEW s \in Seq(S), NEW t \in Seq(S)
  PROVE  /\ s \o t \in Seq(S)
         /\ Len(s) \in Nat /\ Len(t) \in Nat /\ Len(s \o t) = Len(s) + Len(t)
         /\ \A i \in 1 .. Len(s) : (s \o t)[i] = s[i]
         /\ \A i \in 1 .. Len(t) : (s \o t)[Len(s) + i] = t[i]
<1>1. Len(s) \in Nat /\ Len(t) \in Nat
  BY LenProperties
<1>2. \A i \in 1 .. Len(s) + Len(t) : (s \o t)[i] =
                     IF i <= Len(s) THEN s[i] ELSE t[i - Len(s)]
  BY ConcatProperties
<1>3. ASSUME NEW i \in 1 .. Len(s) PROVE (s \o t)[i] = s[i]
  BY <1>1, <1>2, WithinSum
<1>4. ASSUME NEW i \in 1 .. Len(t) PROVE (s \o t)[Len(s) + i] = t[i]
  <2>1. /\ Len(s) + i \in 1 .. Len(s) + Len(t)
        /\ ~(Len(s) + i <= Len(s))
        /\ (Len(s) + i) - Len(s) = i
    <3>. DEFINE m == Len(s)
                n == Len(t)
    <3>1. m \in Nat /\ n \in Nat /\ i \in 1 .. n
      BY <1>1
    <3>. HIDE DEF m, n
    <3>2. m + i \in 1 .. m + n /\ ~(m + i <= m) /\ (m + i) - m = i
      BY <3>1
    <3>. QED  BY <3>2 DEF m, n
  <2>. QED  BY <1>2, <2>1
<1>. QED  BY <1>1, <1>3, <1>4, ConcatProperties

\* evbuffer_add appends the units just read, at the end of the log, to what
\* each receiver was given.
LEMMA RelayGiven ==
  ASSUME BaseInv, NEW c \in Conns, Relay(c)
  PROVE  \E given \in SUBSET Recipients(c), k \in Nat \ {0} :
           /\ MemoryMayFail \/ given = Recipients(c)
           /\ Len(log') = Len(log) + k
           /\ \A n \in 1 .. Len(log) : log'[n] = log[n]
           /\ \A i \in 1 .. k : log'[Len(log) + i] = c
           /\ \A d \in Conns :
                IF d \in given
                THEN /\ Len(Given(d)') = Len(Given(d)) + k
                     /\ \A i \in 1 .. Len(Given(d)) : Given(d)'[i] = Given(d)[i]
                     /\ \A i \in 1 .. k : Given(d)'[Len(Given(d)) + i] = Len(log) + i
                ELSE Given(d)' = Given(d)
<1>1. PICK given \in SUBSET Recipients(c) :
        LET k == Least(inq[c], ReadMax) IN
        /\ MemoryMayFail \/ given = Recipients(c)
        /\ log' = log \o [i \in 1 .. k |-> c]
        /\ out' = [d \in Conns |-> IF d \in given THEN out[d] \o NewUnits(k)
                                                  ELSE out[d]]
  BY DEF Relay
<1>. DEFINE k == Least(inq[c], ReadMax)
<1>2. k \in Nat \ {0}
  <2>1. inq[c] \in Nat /\ inq[c] > 0
    BY DEF BaseInv, Types, Relay
  <2>2. ReadMax \in Nat \ {0}
    BY LimitsAssumption
  <2>. QED  BY <2>1, <2>2 DEF Least
<1>3. /\ MemoryMayFail \/ given = Recipients(c)
      /\ log' = log \o [i \in 1 .. k |-> c]
      /\ out' = [d \in Conns |-> IF d \in given THEN out[d] \o NewUnits(k)
                                                ELSE out[d]]
      /\ stream' = stream
  BY <1>1 DEF Relay
<1>. HIDE DEF k
<1>4. log \in Seq(Conns) /\ Len(log) \in Nat
  BY DEF BaseInv, Types
<1>5. /\ [i \in 1 .. k |-> c] \in Seq(Conns)
      /\ Len([i \in 1 .. k |-> c]) = k
      /\ \A i \in 1 .. k : [j \in 1 .. k |-> c][i] = c
  BY <1>2
<1>6. /\ NewUnits(k) \in Seq(Nat)
      /\ Len(NewUnits(k)) = k
      /\ \A i \in 1 .. k : NewUnits(k)[i] = Len(log) + i
  BY <1>2, <1>4 DEF NewUnits
<1>7. /\ Len(log') = Len(log) + k
      /\ \A n \in 1 .. Len(log) : log'[n] = log[n]
      /\ \A i \in 1 .. k : log'[Len(log) + i] = c
  <2>. DEFINE t == [i \in 1 .. k |-> c]
  <2>1. Len(t) = k /\ log' = log \o t
    BY <1>3, <1>5
  <2>4. t \in Seq(Conns)
    BY <1>5
  <2>2. \A i \in 1 .. k : t[i] = c
    BY <1>5
  <2>. HIDE DEF t
  <2>3. /\ Len(log \o t) = Len(log) + Len(t)
        /\ \A n \in 1 .. Len(log) : (log \o t)[n] = log[n]
        /\ \A i \in 1 .. Len(t) : (log \o t)[Len(log) + i] = t[i]
    BY <1>4, <2>4
  <2>. QED  BY <2>1, <2>2, <2>3
<1>8. ASSUME NEW d \in Conns, d \in given
      PROVE  /\ Len(Given(d)') = Len(Given(d)) + k
             /\ \A i \in 1 .. Len(Given(d)) : Given(d)'[i] = Given(d)[i]
             /\ \A i \in 1 .. k : Given(d)'[Len(Given(d)) + i] = Len(log) + i
  <2>1. stream[d] \in Seq(Nat) /\ out[d] \in Seq(Nat)
    BY DEF BaseInv, Types
  <2>2. Given(d)' = stream[d] \o (out[d] \o NewUnits(k))
    BY <1>3, <1>8 DEF Given
  <2>3. Given(d)' = Given(d) \o NewUnits(k)
    BY <1>6, <2>1, <2>2, Assoc DEF Given
  <2>4. Given(d) \in Seq(Nat)
    BY GivenType DEF BaseInv
  <2>. DEFINE t == NewUnits(k)
              g == Given(d)
  <2>5. Len(t) = k /\ Given(d)' = g \o t
    BY <1>6, <2>3
  <2>10. t \in Seq(Nat)
    BY <1>6
  <2>6. \A i \in 1 .. k : t[i] = Len(log) + i
    BY <1>6
  <2>7. g \in Seq(Nat)
    BY <2>4
  <2>. HIDE DEF t, g
  <2>8. /\ Len(g \o t) = Len(g) + Len(t)
        /\ \A n \in 1 .. Len(g) : (g \o t)[n] = g[n]
        /\ \A i \in 1 .. Len(t) : (g \o t)[Len(g) + i] = t[i]
    BY <2>7, <2>10
  <2>9. /\ Len(Given(d)') = Len(g) + k
        /\ \A i \in 1 .. Len(g) : Given(d)'[i] = g[i]
        /\ \A i \in 1 .. k : Given(d)'[Len(g) + i] = Len(log) + i
    BY <2>5, <2>6, <2>8
  <2>. QED  BY <2>9 DEF g
<1>9. ASSUME NEW d \in Conns, d \notin given PROVE Given(d)' = Given(d)
  BY <1>3, <1>9 DEF Given
<1>. QED  BY <1>2, <1>3, <1>7, <1>8, <1>9

-----------------------------------------------------------------------------
\* What a longer log adds to what each client is owed.
LEMMA OwedGrows ==
  ASSUME NEW k \in Nat, NEW d \in Conns, NEW c, NEW L \in Nat,
         Len(log) = L, joined[d] \in Nat, joined[d] <= L,
         joined'[d] = joined[d], Len(log') = L + k,
         \A n \in 1 .. L : log'[n] = log[n],
         \A i \in 1 .. k : log'[L + i] = c
  PROVE  /\ Owed(d) \subseteq Owed(d)'
         /\ \A n \in Owed(d)' :
              (n \in Owed(d) /\ n <= L) \/ (d # c /\ n - L \in 1 .. k)
         /\ d # c => \A i \in 1 .. k : L + i \in Owed(d)'
<1>1. Owed(d) = { n \in 1 .. L : n > joined[d] /\ log[n] # d }
  BY DEF Owed
<1>2. Owed(d)' = { n \in 1 .. L + k : n > joined[d] /\ log'[n] # d }
  BY DEF Owed
<1>3. Owed(d) \subseteq Owed(d)'
  BY <1>1, <1>2
<1>4. ASSUME NEW n \in Owed(d)'
      PROVE  (n \in Owed(d) /\ n <= L) \/ (d # c /\ n - L \in 1 .. k)
  <2>1. n \in 1 .. L + k /\ n > joined[d] /\ log'[n] # d
    BY <1>2
  <2>2. CASE n <= L
    BY <1>1, <2>1, <2>2
  <2>3. CASE ~(n <= L)
    <3>1. n - L \in 1 .. k /\ L + (n - L) = n
      BY <2>1, <2>3
    <3>2. log'[n] = c
      BY <3>1
    <3>. QED  BY <2>1, <3>1, <3>2
  <2>. QED  BY <2>2, <2>3
<1>5. ASSUME d # c, NEW i \in 1 .. k PROVE L + i \in Owed(d)'
  <2>1. L + i \in 1 .. L + k /\ L + i > joined[d]
    OBVIOUS
  <2>2. log'[L + i] # d
    BY <1>5
  <2>. QED  BY <1>2, <2>1, <2>2
<1>. QED  BY <1>3, <1>4, <1>5

\* Reading from one client and appending to the output of others keeps order:
\* the new units are later than any other, and not of the one they are given to.
LEMMA RelayOrder ==
  ASSUME OrderInv, BaseInv', NEW c \in Conns, Relay(c)
  PROVE  OrderInv'
<1>1. PICK given \in SUBSET Recipients(c), k \in Nat \ {0} :
        /\ Len(log') = Len(log) + k
        /\ \A n \in 1 .. Len(log) : log'[n] = log[n]
        /\ \A i \in 1 .. k : log'[Len(log) + i] = c
        /\ \A d \in Conns :
             IF d \in given
             THEN /\ Len(Given(d)') = Len(Given(d)) + k
                  /\ \A i \in 1 .. Len(Given(d)) : Given(d)'[i] = Given(d)[i]
                  /\ \A i \in 1 .. k : Given(d)'[Len(Given(d)) + i] = Len(log) + i
             ELSE Given(d)' = Given(d)
  BY RelayGiven DEF OrderInv
<1>2. joined' = joined
  BY DEF Relay
<1>3. Types
  BY DEF OrderInv, BaseInv
<1>4. JoinedInLog'
  <2>1. Len(log) \in Nat /\ \A d \in Conns : joined[d] \in Nat
    BY <1>3 DEF Types
  <2>. QED  BY <1>1, <1>2, <2>1 DEF OrderInv, JoinedInLog
<1>5. ASSUME NEW d \in Conns
      PROVE  /\ \A i \in 1 .. Len(Given(d)') : Given(d)'[i] \in Owed(d)'
             /\ \A i, j \in 1 .. Len(Given(d)') : i < j => Given(d)'[i] < Given(d)'[j]
  <2>. DEFINE L == Len(log)
              m == Len(Given(d))
  <2>1. L \in Nat /\ m \in Nat /\ joined[d] \in Nat
    BY <1>3, GivenType
  <2>2. joined[d] <= L
    BY DEF OrderInv, JoinedInLog
  <2>3. /\ \A i \in 1 .. m : Given(d)[i] \in Owed(d)
        /\ \A i, j \in 1 .. m : i < j => Given(d)[i] < Given(d)[j]
    BY DEF OrderInv, InOrder
  <2>4. \A n \in Owed(d) : n \in 1 .. L
    BY DEF Owed
  <2>5. /\ Owed(d) \subseteq Owed(d)'
        /\ d # c => \A i \in 1 .. k : L + i \in Owed(d)'
    BY <1>1, <1>2, <2>1, <2>2, OwedGrows
  <2>6. CASE d \notin given
    <3>1. Given(d)' = Given(d)
      BY <1>1, <2>6
    <3>. QED  BY <2>3, <2>5, <3>1
  <2>7. CASE d \in given
    <3>1. d # c
      BY <2>7 DEF Recipients
    <3>2. /\ Len(Given(d)') = m + k
          /\ \A i \in 1 .. m : Given(d)'[i] = Given(d)[i]
          /\ \A i \in 1 .. k : Given(d)'[m + i] = L + i
      BY <1>1, <2>7
    <3>. HIDE DEF L, m
    <3>3. \A i \in 1 .. m + k : i \in 1 .. m \/ (i - m \in 1 .. k /\ i = m + (i - m))
      BY <2>1
    <3>4. \A i \in 1 .. m + k : Given(d)'[i] =
             IF i <= m THEN Given(d)[i] ELSE L + (i - m)
      <4>. SUFFICES ASSUME NEW i \in 1 .. m + k
                    PROVE  Given(d)'[i] =
                             IF i <= m THEN Given(d)[i] ELSE L + (i - m)
        OBVIOUS
      <4>1. CASE i \in 1 .. m
        <5>1. Given(d)'[i] = Given(d)[i] /\ i <= m
          BY <2>1, <3>2, <4>1
        <5>. QED  BY <5>1
      <4>2. CASE i - m \in 1 .. k /\ i = m + (i - m)
        <5>1. ~(i <= m)
          BY <2>1, <4>2
        <5>2. Given(d)'[m + (i - m)] = L + (i - m)
          BY <3>2, <4>2
        <5>. QED  BY <4>2, <5>1, <5>2
      <4>. QED  BY <3>3, <4>1, <4>2
    <3>5. ASSUME NEW i \in 1 .. m + k PROVE Given(d)'[i] \in Owed(d)'
      <4>1. CASE i \in 1 .. m
        BY <2>3, <2>5, <3>2, <4>1
      <4>2. CASE i - m \in 1 .. k /\ i = m + (i - m)
        BY <2>5, <3>1, <3>2, <4>2
      <4>. QED  BY <3>3, <4>1, <4>2
    <3>6. ASSUME NEW i \in 1 .. m + k, NEW j \in 1 .. m + k, i < j
          PROVE  Given(d)'[i] < Given(d)'[j]
      <4>1. CASE j <= m
        <5>1. i \in 1 .. m /\ j \in 1 .. m
          BY <2>1, <3>6, <4>1
        <5>. QED  BY <2>3, <3>2, <3>6, <5>1
      <4>2. CASE i <= m /\ ~(j <= m)
        <5>1. i \in 1 .. m /\ j - m \in 1 .. k
          BY <2>1, <4>2
        <5>2. Given(d)'[i] \in 1 .. L
          BY <2>3, <2>4, <3>2, <5>1
        <5>3. Given(d)'[j] = L + (j - m)
          BY <3>4, <4>2
        <5>. QED  BY <2>1, <5>1, <5>2, <5>3
      <4>3. CASE ~(i <= m)
        <5>1. ~(j <= m)
          BY <2>1, <3>6, <4>3
        <5>2. Given(d)'[i] = L + (i - m) /\ Given(d)'[j] = L + (j - m)
          BY <3>4, <4>3, <5>1
        <5>. QED  BY <2>1, <3>6, <5>2
      <4>. QED  BY <4>1, <4>2, <4>3
    <3>. QED  BY <3>2, <3>5, <3>6
  <2>. QED  BY <2>6, <2>7
<1>6. InOrder'
  BY <1>5 DEF InOrder
<1>. QED  BY <1>4, <1>6 DEF OrderInv

\* The connection that on_accept takes from the queue.
LEMMA HeadOfQueue ==
  ASSUME BaseInv, accepting
  PROVE  Head(backlog) \in Conns
<1>1. backlog \in Seq(Conns) /\ backlog # <<>>
  BY DEF BaseInv, AcceptHasWork, Types
<1>. QED  BY <1>1

\* on_accept inserts a client that is owed nothing yet and was given nothing.
LEMMA AcceptOrder ==
  ASSUME OrderInv, BaseInv', NEW c \in Conns, c = Head(backlog),
         accepting, Accept(c)
  PROVE  /\ OrderInv'
         /\ \A d \in Conns : Given(d)' = Given(d)
         /\ \A d \in Conns : d # c => Owed(d)' = Owed(d)
         /\ Owed(c)' = {}
         /\ Given(c) = <<>>
<1>1. /\ joined' = [joined EXCEPT ![c] = Len(log)]
      /\ UNCHANGED <<log, out, stream>>
  BY DEF Accept
<1>2. Types
  BY DEF OrderInv, BaseInv
<1>3. bev[c] = "none"
  <2>1. backlog \in Seq(Conns) /\ backlog # <<>>
    BY DEF OrderInv, BaseInv, AcceptHasWork, Types
  <2>2. 1 \in 1 .. Len(backlog) /\ c = backlog[1]
    BY <2>1
  <2>. QED  BY <2>2 DEF OrderInv, BaseInv, Queued, QueueIsFresh
<1>4. Given(c) = <<>>
  <2>1. out[c] = <<>> /\ stream[c] = <<>>
    BY <1>3 DEF OrderInv, BaseInv, Queued, FreshIsEmpty
  <2>. QED  BY <2>1, ConcatEmptySeq DEF Given
<1>5. \A d \in Conns : Given(d)' = Given(d)
  BY <1>1 DEF Given
<1>6. /\ joined'[c] = Len(log)
      /\ \A d \in Conns : d # c => joined'[d] = joined[d]
  BY <1>1, <1>2, <1>3 DEF Types
<1>7. \A d \in Conns : d # c => Owed(d)' = Owed(d)
  BY <1>1, <1>6 DEF Owed
<1>8. Len(log) \in Nat
  BY <1>2 DEF Types
<1>9. Owed(c)' = {}
  <2>1. ASSUME NEW n \in Owed(c)' PROVE FALSE
    <3>1. n \in 1 .. Len(log') /\ n > joined'[c]
      BY DEF Owed
    <3>2. Len(log') = Len(log) /\ joined'[c] = Len(log)
      BY <1>1, <1>6
    <3>. QED  BY <1>8, <3>1, <3>2
  <2>. QED  BY <2>1
<1>10. JoinedInLog'
  BY <1>1, <1>6, <1>8 DEF OrderInv, JoinedInLog
<1>11. InOrder'
  <2>1. 1 .. Len(<<>>) = {}
    OBVIOUS
  <2>2. \A d \in Conns : d # c =>
          /\ \A i \in 1 .. Len(Given(d)') : Given(d)'[i] \in Owed(d)'
          /\ \A i, j \in 1 .. Len(Given(d)') : i < j => Given(d)'[i] < Given(d)'[j]
    <3>1. ASSUME NEW d \in Conns, d # c
          PROVE  Given(d)' = Given(d) /\ Owed(d)' = Owed(d)
      BY <1>5, <1>7, <3>1
    <3>2. ASSUME NEW d \in Conns
          PROVE  /\ \A i \in 1 .. Len(Given(d)) : Given(d)[i] \in Owed(d)
                 /\ \A i, j \in 1 .. Len(Given(d)) : i < j => Given(d)[i] < Given(d)[j]
      BY DEF OrderInv, InOrder
    <3>. QED  BY <3>1, <3>2
  <2>3. ASSUME NEW d \in Conns
        PROVE  /\ \A i \in 1 .. Len(Given(d)') : Given(d)'[i] \in Owed(d)'
               /\ \A i, j \in 1 .. Len(Given(d)') : i < j => Given(d)'[i] < Given(d)'[j]
    <3>1. CASE d = c
      <4>1. Given(d)' = <<>>
        BY <1>4, <1>5, <3>1
      <4>. QED  BY <2>1, <4>1
    <3>2. CASE d # c
      BY <2>2, <3>2
    <3>. QED  BY <3>1, <3>2
  <2>. QED  BY <2>3 DEF InOrder
<1>12. OrderInv'
  BY <1>10, <1>11 DEF OrderInv
<1>. QED  BY <1>4, <1>5, <1>7, <1>9, <1>12

\* Dropping the unwritten output of a client that has gone keeps order.
LEMMA FinalOrder ==
  ASSUME OrderInv, BaseInv', NEW c \in Conns, RunFinal(c)
  PROVE  /\ OrderInv'
         /\ \A d \in Conns : Owed(d)' = Owed(d)
<1>1. UNCHANGED <<log, joined>>
  BY DEF RunFinal, history
<1>2. \A d \in Conns : Owed(d)' = Owed(d)
  BY <1>1 DEF Owed
<1>3. JoinedInLog'
  BY <1>1 DEF OrderInv, JoinedInLog
<1>4. ASSUME NEW d \in Conns
      PROVE  /\ \A i \in 1 .. Len(Given(d)') : Given(d)'[i] \in Owed(d)'
             /\ \A i, j \in 1 .. Len(Given(d)') : i < j => Given(d)'[i] < Given(d)'[j]
  <2>1. /\ Len(Given(d)') \in Nat /\ Len(Given(d)') <= Len(Given(d))
        /\ \A i \in 1 .. Len(Given(d)') : Given(d)'[i] = Given(d)[i]
    BY FinalGiven DEF OrderInv
  <2>2. Len(Given(d)) \in Nat
    BY GivenType DEF OrderInv, BaseInv
  <2>3. \A i \in 1 .. Len(Given(d)') : i \in 1 .. Len(Given(d))
    BY <2>1, <2>2
  <2>. QED  BY <1>2, <2>1, <2>3 DEF OrderInv, InOrder
<1>. QED  BY <1>2, <1>3, <1>4 DEF OrderInv, InOrder

\* What the other steps leave alone.
LEMMA QuietSteps ==
  ASSUME BaseInv, [Next]_vars, ~RunAccept,
         \A c \in Conns : ~Relay(c) /\ ~RunFinal(c)
  PROVE  /\ UNCHANGED <<log, joined>> /\ clients' \subseteq clients
         /\ \A c \in Conns : Given(c)' = Given(c)
<1>1. ASSUME UNCHANGED <<log, joined, out, stream>>, clients' \subseteq clients
      PROVE  /\ UNCHANGED <<log, joined>> /\ clients' \subseteq clients
             /\ \A c \in Conns : Given(c)' = Given(c)
  BY <1>1 DEF Given
<1>2. ASSUME NEW c \in Conns, Flush(c)
      PROVE  /\ UNCHANGED <<log, joined>> /\ clients' \subseteq clients
             /\ \A d \in Conns : Given(d)' = Given(d)
  <2>1. PICK n \in 1 .. MostWritten(c) :
          /\ stream' = [stream EXCEPT ![c] = @ \o SubSeq(out[c], 1, n)]
          /\ out' = [out EXCEPT ![c] = SubSeq(out[c], n + 1, Len(out[c]))]
    BY <1>2 DEF Flush, Unwritten
  <2>2. UNCHANGED <<log, joined, clients>>
    BY <1>2 DEF Flush
  <2>3. stream[c] \in Seq(Nat) /\ out[c] \in Seq(Nat) /\ taken[c] \in Nat
    BY DEF BaseInv, Types
  <2>4. n \in 1 .. Len(out[c])
    <3>1. Len(out[c]) \in Nat /\ Len(stream[c]) \in Nat
      BY <2>3
    <3>2. WriteMax \in Nat /\ SndBuf \in Nat
      BY LimitsAssumption
    <3>. QED  BY <2>1, <2>3, <3>1, <3>2 DEF MostWritten, Least, Room
  <2>5. Given(c)' = Given(c)
    <3>1. /\ stream'[c] = stream[c] \o SubSeq(out[c], 1, n)
          /\ out'[c] = SubSeq(out[c], n + 1, Len(out[c]))
      BY <2>1 DEF BaseInv, Types
    <3>. QED  BY <2>3, <2>4, <3>1, FlushKeepsGiven DEF Given
  <2>6. \A d \in Conns : d # c => Given(d)' = Given(d)
    BY <2>1 DEF Given, BaseInv, Types
  <2>. QED  BY <2>2, <2>5, <2>6
<1>3. CASE Poll
  BY <1>1, <1>3 DEF Poll, server, history
<1>4. ASSUME NEW c \in Conns, ReadEnds(c) \/ ReadOutOfMemory(c) \/ WriteFails(c)
      PROVE  UNCHANGED <<log, joined, out, stream>> /\ clients' \subseteq clients
  BY <1>4 DEF ReadEnds, ReadOutOfMemory, WriteFails, Disconnect, Removed, history
<1>5. ASSUME NEW c \in Conns, WriteKills(c)
      PROVE  UNCHANGED <<log, joined, out, stream>> /\ clients' \subseteq clients
  BY <1>5 DEF WriteKills, history
<1>6. CASE Peers
  BY <1>1, <1>6 DEF Peers, PeerConnect, PeerSend, PeerRead, PeerClose, PeerAbort,
                    ResetArrives, server, history
<1>7. CASE UNCHANGED vars
  BY <1>1, <1>7 DEF vars, server, history
<1>. QED
  BY <1>1, <1>2, <1>3, <1>4, <1>5, <1>6, <1>7 DEF Next, Loop

-----------------------------------------------------------------------------
(***************************************************************************)
(* Order, with or without memory.                                          *)
(***************************************************************************)

\* The initial state: nobody was given anything.
LEMMA OrderStart == NothingYet => OrderInv /\ FullInv
<1>. SUFFICES ASSUME NothingYet PROVE OrderInv /\ FullInv
  OBVIOUS
<1>1. BaseInv
  BY BaseStart
<1>2. log = <<>> /\ clients = {}
      /\ \A c \in Conns : joined[c] = 0 /\ out[c] = <<>> /\ stream[c] = <<>>
  BY DEF NothingYet, NobodyYet
<1>3. 1 .. Len(<<>>) = {} /\ Len(<<>>) = 0
  OBVIOUS
<1>4. \A c \in Conns : Given(c) = <<>>
  <2>1. <<>> \o <<>> = <<>>
    OBVIOUS
  <2>. QED  BY <1>2, <2>1 DEF Given
<1>5. JoinedInLog
  BY <1>2, <1>3 DEF JoinedInLog
<1>6. InOrder /\ GivenHasNoHole
  <2>1. \A c \in Conns : 1 .. Len(Given(c)) = {}
    BY <1>3, <1>4
  <2>. QED  BY <2>1 DEF InOrder, GivenHasNoHole
<1>7. Complete
  BY <1>2 DEF Complete
<1>. QED  BY <1>1, <1>5, <1>6, <1>7 DEF OrderInv, FullInv

LEMMA OrderInit == Init => OrderInv /\ FullInv
BY OrderStart DEF Init, NothingYet

\* A callback of the listening socket that inserts nobody.
LEMMA NoAccept ==
  ASSUME RunAccept, ~Accept(Head(backlog))
  PROVE  UNCHANGED <<log, joined, clients>> /\ \A c \in Conns : Given(c)' = Given(c)
<1>1. UNCHANGED <<log, joined, clients, out, stream>>
  BY DEF RunAccept, AcceptFails, AcceptOutOfMemory, server, history
<1>. QED  BY <1>1 DEF Given

LEMMA OrderNext == OrderInv /\ BaseInv' /\ [Next]_vars => OrderInv'
<1>. SUFFICES ASSUME OrderInv, BaseInv', [Next]_vars PROVE OrderInv'
  OBVIOUS
<1>1. CASE RunAccept
  <2>1. CASE Accept(Head(backlog))
    <3>1. accepting
      BY <1>1 DEF RunAccept
    <3>2. Head(backlog) \in Conns
      BY <3>1, HeadOfQueue DEF OrderInv
    <3>. QED  BY <2>1, <3>1, <3>2, AcceptOrder
  <2>2. CASE ~Accept(Head(backlog))
    BY <1>1, <2>2, NoAccept, OrderKept
  <2>. QED  BY <2>1, <2>2
<1>2. ASSUME NEW c \in Conns, Relay(c) PROVE OrderInv'
  BY <1>2, RelayOrder
<1>3. ASSUME NEW c \in Conns, RunFinal(c) PROVE OrderInv'
  BY <1>3, FinalOrder
<1>4. CASE ~RunAccept /\ \A c \in Conns : ~Relay(c) /\ ~RunFinal(c)
  <2>1. UNCHANGED <<log, joined>> /\ \A c \in Conns : Given(c)' = Given(c)
    BY <1>4, QuietSteps DEF OrderInv
  <2>. QED  BY <2>1, OrderKept
<1>. QED  BY <1>1, <1>2, <1>3, <1>4

(***************************************************************************)
(* InOrder: no client is ever given a unit twice, out of order, of its own *)
(* or from before it came, though any malloc may fail, any client may go   *)
(* and any descriptor be used again at any time (buffered_on_read).        *)
(***************************************************************************)
THEOREM Ordered == Spec => []InOrder
<1>1. Spec => []BaseInv
  BY BaseAlways
<1>2. Init => OrderInv
  BY OrderInit
<1>3. OrderInv /\ BaseInv' /\ [Next]_vars => OrderInv'
  BY OrderNext
<1>4. OrderInv => InOrder
  BY DEF OrderInv
<1>. QED  BY <1>1, <1>2, <1>3, <1>4, PTL DEF Spec

-----------------------------------------------------------------------------
(***************************************************************************)
(* Completeness, when there is memory.                                     *)
(***************************************************************************)

\* What holds of all that was given holds of the beginning of it: the order
\* puts the smaller units before the larger.
LEMMA PrefixHasNoHole ==
  ASSUME OrderInv, GivenHasNoHole, NEW d \in Conns, NEW m \in Nat,
         m <= Len(Given(d)), NEW i \in 1 .. m, NEW n \in Owed(d), n < Given(d)[i]
  PROVE  \E j \in 1 .. m : Given(d)[j] = n
<1>1. Types
  BY DEF OrderInv, BaseInv
<1>2. Len(Given(d)) \in Nat /\ \A j \in 1 .. Len(Given(d)) : Given(d)[j] \in Nat
  BY <1>1, GivenType
<1>3. i \in 1 .. Len(Given(d))
  BY <1>2
<1>4. PICK j \in 1 .. Len(Given(d)) : Given(d)[j] = n
  BY <1>3 DEF GivenHasNoHole
<1>5. ASSUME ~(j <= m) PROVE FALSE
  <2>1. i < j
    BY <1>2, <1>4, <1>5
  <2>2. Given(d)[i] < Given(d)[j]
    BY <1>3, <1>4, <2>1 DEF OrderInv, InOrder
  <2>3. Given(d)[i] \in Nat /\ n \in Nat
    BY <1>2, <1>3, <1>4
  <2>. QED  BY <1>4, <2>2, <2>3
<1>. QED  BY <1>2, <1>4, <1>5

LEMMA RelayFull ==
  ASSUME ~MemoryMayFail, FullInv, OrderInv', NEW c \in Conns, Relay(c)
  PROVE  FullInv'
<1>1. PICK given \in SUBSET Recipients(c), k \in Nat \ {0} :
        /\ given = Recipients(c)
        /\ Len(log') = Len(log) + k
        /\ \A n \in 1 .. Len(log) : log'[n] = log[n]
        /\ \A i \in 1 .. k : log'[Len(log) + i] = c
        /\ \A d \in Conns :
             IF d \in given
             THEN /\ Len(Given(d)') = Len(Given(d)) + k
                  /\ \A i \in 1 .. Len(Given(d)) : Given(d)'[i] = Given(d)[i]
                  /\ \A i \in 1 .. k : Given(d)'[Len(Given(d)) + i] = Len(log) + i
             ELSE Given(d)' = Given(d)
  BY RelayGiven DEF FullInv, OrderInv
<1>2. joined' = joined /\ clients' = clients
  BY DEF Relay
<1>3. Types /\ clients \subseteq Conns
  BY DEF FullInv, OrderInv, BaseInv, Types
<1>4. ASSUME NEW d \in Conns
      PROVE  /\ Len(log) \in Nat /\ Len(Given(d)) \in Nat
             /\ \A n \in Owed(d)' : (n \in Owed(d) /\ n <= Len(log))
                                      \/ (d # c /\ n - Len(log) \in 1 .. k)
  <2>. DEFINE L == Len(log)
  <2>1. L \in Nat /\ Len(Given(d)) \in Nat /\ joined[d] \in Nat
    BY <1>3, GivenType
  <2>2. joined[d] <= L
    BY DEF FullInv, OrderInv, JoinedInLog
  <2>. QED  BY <1>1, <1>2, <2>1, <2>2, OwedGrows
<1>5. ASSUME NEW d \in clients, NEW n \in Owed(d)'
      PROVE  \E i \in 1 .. Len(Given(d)') : Given(d)'[i] = n
  <2>. DEFINE m == Len(Given(d))
  <2>1. d \in Conns /\ m \in Nat /\ Len(log) \in Nat
    BY <1>3, <1>4
  <2>2. CASE n \in Owed(d)
    <3>1. PICK i \in 1 .. m : Given(d)[i] = n
      BY <2>2 DEF FullInv, Complete
    <3>2. CASE d \in given
      <4>1. Len(Given(d)') = m + k /\ Given(d)'[i] = Given(d)[i]
        BY <1>1, <2>1, <3>2
      <4>2. i \in 1 .. m + k
        BY <2>1
      <4>. QED  BY <3>1, <4>1, <4>2
    <3>3. CASE d \notin given
      BY <1>1, <2>1, <3>1, <3>3
    <3>. QED  BY <3>2, <3>3
  <2>3. CASE d # c /\ n - Len(log) \in 1 .. k
    <3>1. d \in given
      BY <1>1, <2>3 DEF Recipients
    <3>2. /\ Len(Given(d)') = m + k
          /\ \A i \in 1 .. k : Given(d)'[m + i] = Len(log) + i
      BY <1>1, <2>1, <3>1
    <3>3. Given(d)'[m + (n - Len(log))] = Len(log) + (n - Len(log))
      BY <2>3, <3>2
    <3>4. n \in Nat
      BY DEF Owed
    <3>. HIDE DEF m
    <3>5. m + (n - Len(log)) \in 1 .. m + k /\ Len(log) + (n - Len(log)) = n
      BY <2>1, <2>3, <3>4
    <3>. QED  BY <3>2, <3>3, <3>5
  <2>. QED  BY <1>4, <2>1, <2>2, <2>3
<1>6. Complete'
  BY <1>2, <1>5 DEF Complete
<1>7. ASSUME NEW d \in Conns, NEW i \in 1 .. Len(Given(d)'),
             NEW n \in Owed(d)', n < Given(d)'[i]
      PROVE  \E j \in 1 .. Len(Given(d)') : Given(d)'[j] = n
  <2>1. CASE d \in clients
    BY <1>5, <2>1
  <2>2. CASE d \notin clients
    <3>1. Given(d)' = Given(d)
      BY <1>1, <2>2 DEF Recipients
    <3>2. Given(d)[i] \in Owed(d)
      BY <3>1 DEF FullInv, OrderInv, InOrder
    <3>3. Given(d)[i] \in 1 .. Len(log) /\ n \in Nat /\ n < Given(d)[i]
      BY <1>7, <3>1, <3>2 DEF Owed
    <3>4. ~(n - Len(log) \in 1 .. k)
      BY <1>4, <3>3
    <3>5. n \in Owed(d)
      BY <1>4, <3>4
    <3>. QED  BY <3>1, <3>3, <3>5 DEF FullInv, GivenHasNoHole
  <2>. QED  BY <2>1, <2>2
<1>8. GivenHasNoHole'
  BY <1>7 DEF GivenHasNoHole
<1>. QED  BY <1>6, <1>8 DEF FullInv

LEMMA AcceptFull ==
  ASSUME FullInv, BaseInv', NEW c \in Conns, c = Head(backlog),
         accepting, Accept(c)
  PROVE  FullInv'
<1>1. /\ OrderInv' /\ Owed(c)' = {} /\ Given(c) = <<>>
      /\ \A d \in Conns : Given(d)' = Given(d)
      /\ \A d \in Conns : d # c => Owed(d)' = Owed(d)
  BY AcceptOrder DEF FullInv
<1>2. clients' = clients \cup {c} /\ clients \subseteq Conns
  BY DEF Accept, FullInv, OrderInv, BaseInv, Types
<1>3. ASSUME NEW d \in clients', NEW n \in Owed(d)'
      PROVE  \E i \in 1 .. Len(Given(d)') : Given(d)'[i] = n
  <2>1. d # c
    BY <1>1
  <2>2. d \in clients /\ d \in Conns /\ n \in Owed(d)
    BY <1>1, <1>2, <2>1
  <2>. QED  BY <1>1, <2>2 DEF FullInv, Complete
<1>4. ASSUME NEW d \in Conns, NEW i \in 1 .. Len(Given(d)'),
             NEW n \in Owed(d)', n < Given(d)'[i]
      PROVE  \E j \in 1 .. Len(Given(d)') : Given(d)'[j] = n
  <2>1. d # c
    BY <1>1
  <2>2. Given(d)' = Given(d) /\ n \in Owed(d)
    BY <1>1, <2>1
  <2>. QED  BY <1>4, <2>2 DEF FullInv, GivenHasNoHole
<1>. QED  BY <1>1, <1>3, <1>4 DEF FullInv, Complete, GivenHasNoHole

LEMMA FinalFull ==
  ASSUME FullInv, BaseInv', NEW c \in Conns, RunFinal(c)
  PROVE  FullInv'
<1>1. OrderInv' /\ \A d \in Conns : Owed(d)' = Owed(d)
  BY FinalOrder DEF FullInv
<1>2. \A d \in Conns :
        /\ Len(Given(d)') \in Nat /\ Len(Given(d)') <= Len(Given(d))
        /\ \A i \in 1 .. Len(Given(d)') : Given(d)'[i] = Given(d)[i]
        /\ d # c => Given(d)' = Given(d)
  BY FinalGiven DEF FullInv, OrderInv
<1>3. clients' = clients /\ clients \subseteq Conns /\ c \notin clients
  BY DEF RunFinal, FullInv, OrderInv, BaseInv, Owners, ListIsLive, Types
<1>4. Complete'
  BY <1>1, <1>2, <1>3 DEF FullInv, Complete
<1>5. ASSUME NEW d \in Conns, NEW i \in 1 .. Len(Given(d)'),
             NEW n \in Owed(d)', n < Given(d)'[i]
      PROVE  \E j \in 1 .. Len(Given(d)') : Given(d)'[j] = n
  <2>. DEFINE m == Len(Given(d)')
  <2>1. /\ m \in Nat /\ m <= Len(Given(d))
        /\ \A j \in 1 .. m : Given(d)'[j] = Given(d)[j]
    BY <1>2
  <2>2. n \in Owed(d) /\ n < Given(d)[i]
    BY <1>1, <1>5, <2>1
  <2>3. i \in 1 .. m
    OBVIOUS
  <2>. HIDE DEF m
  <2>4. \E j \in 1 .. m : Given(d)[j] = n
    BY <2>1, <2>2, <2>3, PrefixHasNoHole DEF FullInv
  <2>. QED  BY <2>1, <2>4 DEF m
<1>. QED  BY <1>1, <1>4, <1>5 DEF FullInv, GivenHasNoHole

LEMMA FullNext == ~MemoryMayFail /\ FullInv /\ BaseInv' /\ [Next]_vars => FullInv'
<1>. SUFFICES ASSUME ~MemoryMayFail, FullInv, BaseInv', [Next]_vars PROVE FullInv'
  OBVIOUS
<1>1. BaseInv /\ OrderInv /\ OrderInv'
  BY OrderNext DEF FullInv, OrderInv
<1>2. CASE RunAccept
  <2>1. CASE Accept(Head(backlog))
    <3>1. accepting
      BY <1>2 DEF RunAccept
    <3>2. Head(backlog) \in Conns
      BY <1>1, <3>1, HeadOfQueue
    <3>. QED  BY <2>1, <3>1, <3>2, AcceptFull
  <2>2. CASE ~Accept(Head(backlog))
    BY <1>2, <2>2, NoAccept, FullKept
  <2>. QED  BY <2>1, <2>2
<1>3. ASSUME NEW c \in Conns, Relay(c) PROVE FullInv'
  BY <1>1, <1>3, RelayFull
<1>4. ASSUME NEW c \in Conns, RunFinal(c) PROVE FullInv'
  BY <1>4, FinalFull
<1>5. CASE ~RunAccept /\ \A c \in Conns : ~Relay(c) /\ ~RunFinal(c)
  <2>1. /\ UNCHANGED <<log, joined>> /\ clients' \subseteq clients
        /\ \A c \in Conns : Given(c)' = Given(c)
    BY <1>1, <1>5, QuietSteps
  <2>. QED  BY <2>1, FullKept
<1>. QED  BY <1>2, <1>3, <1>4, <1>5

\* What was written is the beginning of what was given.
LEMMA FullHasNoHole == FullInv => NoHole
<1>. SUFFICES ASSUME FullInv, NEW c \in Conns, NEW i \in 1 .. Len(stream[c]),
                     NEW n \in Owed(c), n < stream[c][i]
              PROVE  \E j \in 1 .. Len(stream[c]) : stream[c][j] = n
  BY DEF NoHole
<1>. DEFINE m == Len(stream[c])
<1>1. /\ m \in Nat /\ Len(out[c]) \in Nat /\ Len(Given(c)) = m + Len(out[c])
      /\ \A j \in 1 .. m : Given(c)[j] = stream[c][j]
  BY GivenType DEF FullInv, OrderInv, BaseInv
<1>2. i \in 1 .. m
  OBVIOUS
<1>. HIDE DEF m
<1>3. m <= Len(Given(c))
  BY <1>1, WithinSum
<1>4. \E j \in 1 .. m : Given(c)[j] = n
  BY <1>1, <1>2, <1>3, PrefixHasNoHole DEF FullInv
<1>. QED  BY <1>1, <1>4 DEF m

LEMMA FullAlways == ASSUME ~MemoryMayFail PROVE Spec => []FullInv
<1>1. Spec => []BaseInv
  BY BaseAlways
<1>2. Init => FullInv
  BY OrderInit
<1>3. FullInv /\ BaseInv' /\ [Next]_vars => FullInv'
  BY FullNext
<1>. QED  BY <1>1, <1>2, <1>3, PTL DEF Spec

(***************************************************************************)
(* Complete: while malloc does not fail, every listed client has been      *)
(* given every unit the others sent since it came ("send it to all         *)
(* connected clients", buffered_on_read).                                  *)
(***************************************************************************)
THEOREM AllAreGiven == ASSUME ~MemoryMayFail PROVE Spec => []Complete
BY FullAlways, PTL DEF FullInv

(***************************************************************************)
(* NoHole: what was written to a client, even one that has since gone, is  *)
(* the feed of the room without a hole (evbuffer_drain, buffered_on_error).*)
(***************************************************************************)
THEOREM WrittenWithoutHoles == ASSUME ~MemoryMayFail PROVE Spec => []NoHole
BY FullAlways, FullHasNoHole, PTL

-----------------------------------------------------------------------------
(***************************************************************************)
(* Last words, when there is memory.                                       *)
(***************************************************************************)

\* A client whose connection is sound, and that has data to be read, stays.
LeavesHeard == \A c \in clients : c \notin clients' /\ ~Broken(c) => inq[c] = 0

\* buffered_on_error is the only way out of the list, and bufferevent_readcb
\* calls it on a sound connection only when evbuffer_read returned 0.
LEMMA LeavesHeardNext ==
  ASSUME ~MemoryMayFail, BaseInv, [Next]_vars
  PROVE  LeavesHeard
<1>. SUFFICES ASSUME NEW c \in clients, c \notin clients', ~Broken(c)
              PROVE  inq[c] = 0
  BY DEF LeavesHeard
<1>1. ASSUME NEW d \in Conns, Disconnect(d) PROVE d = c
  BY <1>1 DEF Disconnect, Removed
<1>2. ASSUME NEW d \in Conns, ReadEnds(d) PROVE inq[c] = 0
  BY <1>1, <1>2 DEF ReadEnds, AtEnd
<1>3. ASSUME NEW d \in Conns, ReadOutOfMemory(d) PROVE FALSE
  BY <1>3 DEF ReadOutOfMemory
<1>4. ASSUME NEW d \in Conns, WriteFails(d) PROVE FALSE
  BY <1>1, <1>4 DEF WriteFails, Broken
<1>5. CASE clients \subseteq clients'
  BY <1>5
<1>6. Poll \/ RunAccept \/ Peers \/ UNCHANGED vars => clients \subseteq clients'
  BY DEF Poll, RunAccept, AcceptFails, Accept, AcceptOutOfMemory, Peers,
         PeerConnect, PeerSend, PeerRead, PeerClose, PeerAbort, ResetArrives,
         vars, server
<1>7. ASSUME NEW d \in Conns, Relay(d) \/ Flush(d) \/ WriteKills(d) \/ RunFinal(d)
      PROVE  clients \subseteq clients'
  BY <1>7 DEF Relay, Flush, WriteKills, RunFinal
<1>. QED
  BY <1>2, <1>3, <1>4, <1>5, <1>6, <1>7 DEF Next, Loop

(***************************************************************************)
(* LastWordsHeard: while malloc does not fail, no client whose connection  *)
(* is sound is dropped before everything it sent was read, whatever else   *)
(* the same report of epoll_wait says of it (bufferevent_readcb).          *)
(***************************************************************************)
THEOREM LastWordsRead == ASSUME ~MemoryMayFail PROVE Spec => LastWordsHeard
<1>1. Spec => []BaseInv
  BY BaseAlways
<1>2. BaseInv /\ [Next]_vars => [LeavesHeard]_vars
  BY LeavesHeardNext
<1>3. LastWordsHeard <=> [][LeavesHeard]_vars
  BY DEF LastWordsHeard, LeavesHeard
<1>. QED  BY <1>1, <1>2, <1>3, PTL DEF Spec

-----------------------------------------------------------------------------
(***************************************************************************)
(* The server implements the room of module Broadcast, for any number of   *)
(* connections, descriptors and units, while malloc does not fail.  A      *)
(* client is a member while it is listed and the process runs, and has     *)
(* heard what was written to its socket.                                   *)
(***************************************************************************)
\* What Room_ calls members.
InRoom == IF proc = "running" THEN clients ELSE {}

\* Nothing the room speaks of changes.
RoomStutters == UNCHANGED <<log, InRoom, joined, stream>>

RoomStep == Room_!Next \/ RoomStutters

-----------------------------------------------------------------------------
\* The initial state is an empty room.
LEMMA RoomStart == NothingYet => Room_!Init
BY DEF NothingYet, NobodyYet, Room_!Init

LEMMA RoomInit == Init => Room_!Init
BY RoomStart DEF Init, NothingYet

\* on_accept: the client joins.
LEMMA AcceptJoins ==
  ASSUME FullInv, NEW c \in Conns, c = Head(backlog), RunAccept, Accept(c)
  PROVE  Room_!Join(c)
<1>1. accepting /\ proc = "running" /\ proc' = "running"
  BY DEF RunAccept, Accept
<1>2. bev[c] = "none"
  <2>1. backlog \in Seq(Conns) /\ backlog # <<>>
    BY <1>1 DEF FullInv, OrderInv, BaseInv, AcceptHasWork, Types
  <2>2. 1 \in 1 .. Len(backlog) /\ c = backlog[1]
    BY <2>1
  <2>. QED  BY <2>2 DEF FullInv, OrderInv, BaseInv, Queued, QueueIsFresh
<1>3. c \notin clients
  BY <1>2 DEF FullInv, OrderInv, BaseInv, Owners, ListIsLive
<1>4. stream[c] = <<>>
  BY <1>2 DEF FullInv, OrderInv, BaseInv, Queued, FreshIsEmpty
<1>. QED  BY <1>1, <1>3, <1>4 DEF Accept, Room_!Join

\* buffered_on_read: a member says the units that were read.
LEMMA RelayPublishes ==
  ASSUME FullInv, NEW c \in Conns, Relay(c)
  PROVE  Room_!Publish(c)
<1>1. proc = "running" /\ UNCHANGED <<proc, clients, joined, stream>>
  BY DEF Relay, ReadDue
<1>2. c \in clients
  <2>1. <<c, "R">> \in active
    BY DEF Relay, ReadDue
  <2>. QED  BY <2>1 DEF FullInv, OrderInv, BaseInv, Events, EventsOfClients
<1>. DEFINE k == Least(inq[c], ReadMax)
<1>3. k \in Nat \ {0}
  <2>1. inq[c] \in Nat /\ inq[c] > 0
    BY DEF FullInv, OrderInv, BaseInv, Types, Relay
  <2>2. ReadMax \in Nat \ {0}
    BY LimitsAssumption
  <2>. QED  BY <2>1, <2>2 DEF Least
<1>4. log' = log \o [i \in 1 .. k |-> c]
  BY DEF Relay
<1>. HIDE DEF k
<1>5. Len(log) \in Nat /\ Len(log') = Len(log) + k
  <2>1. log \in Seq(Conns)
    BY DEF FullInv, OrderInv, BaseInv, Types
  <2>. DEFINE t == [i \in 1 .. k |-> c]
  <2>2. t \in Seq(Conns) /\ Len(t) = k
    BY <1>3
  <2>3. log' = log \o t
    BY <1>4
  <2>. HIDE DEF t
  <2>4. Len(log \o t) = Len(log) + Len(t)
    BY <2>1, <2>2, ConcatProperties
  <2>. QED  BY <2>1, <2>2, <2>3, <2>4
<1>6. Len(log') > Len(log) /\ Len(log') - Len(log) = k
  BY <1>3, <1>5
<1>. QED  BY <1>1, <1>2, <1>4, <1>6 DEF Room_!Publish

\* buffered_on_error, or the end of the process: members leave.
LEMMA GoneLeaves ==
  ASSUME UNCHANGED <<log, joined, stream>>, InRoom' \subseteq InRoom
  PROVE  Room_!Leave(InRoom \ InRoom') \/ RoomStutters
BY DEF InRoom, RoomStutters, Room_!Leave

\* evbuffer_write: a member hears the next units of its feed.
LEMMA FlushIsHeard ==
  ASSUME FullInv, FullInv', NoHole', NEW c \in Conns, Flush(c)
  PROVE  Room_!Hear(c)
<1>1. /\ proc = "running" /\ UNCHANGED <<proc, clients, log, joined>>
      /\ <<c, "W">> \in active
  BY DEF Flush, WriteDue
<1>2. c \in clients
  BY <1>1 DEF FullInv, OrderInv, BaseInv, Events, EventsOfClients
<1>3. PICK n \in 1 .. MostWritten(c) :
        stream' = [stream EXCEPT ![c] = @ \o SubSeq(out[c], 1, n)]
  BY DEF Flush
<1>4. stream \in [Conns -> Seq(Nat)] /\ out[c] \in Seq(Nat) /\ taken[c] \in Nat
  BY DEF FullInv, OrderInv, BaseInv, Types
<1>5. n \in 1 .. Len(out[c]) /\ Len(out[c]) \in Nat
  <2>1. Len(out[c]) \in Nat /\ Len(stream[c]) \in Nat
    BY <1>4
  <2>2. WriteMax \in Nat /\ SndBuf \in Nat
    BY LimitsAssumption
  <2>. QED  BY <1>3, <1>4, <2>1, <2>2 DEF MostWritten, Least, Room
<1>6. stream' = [stream EXCEPT ![c] = stream'[c]]
  BY <1>3, <1>4
<1>7. Room_!Extends(stream'[c], stream[c])
  <2>. DEFINE s == stream[c]
              t == SubSeq(out[c], 1, n)
  <2>1. s \in Seq(Nat) /\ t \in Seq(Nat) /\ Len(t) = n
    BY <1>4, <1>5
  <2>2. stream'[c] = s \o t
    BY <1>3, <1>4
  <2>. HIDE DEF s, t
  <2>3. /\ Len(s) \in Nat /\ Len(s \o t) = Len(s) + Len(t)
        /\ \A i \in 1 .. Len(s) : (s \o t)[i] = s[i]
    BY <2>1, ConcatParts
  <2>4. Len(s \o t) > Len(s)
    BY <1>5, <2>1, <2>3
  <2>5. Room_!Extends(s \o t, s)
    BY <2>3, <2>4 DEF Room_!Extends
  <2>. QED  BY <2>2, <2>5 DEF s
<1>8. Room_!BeginsFeed(stream'[c], c)
  <2>1. \A d \in Conns : Room_!Feed(d) = Owed(d)
    BY DEF Room_!Feed, Owed
  <2>2. Owed(c)' = Owed(c)
    BY <1>1 DEF Owed
  <2>3. /\ Len(stream'[c]) \in Nat /\ Len(out'[c]) \in Nat
        /\ Len(Given(c)') = Len(stream'[c]) + Len(out'[c])
        /\ \A i \in 1 .. Len(stream'[c]) : Given(c)'[i] = stream'[c][i]
    <3>1. stream'[c] \in Seq(Nat) /\ out'[c] \in Seq(Nat)
      BY DEF FullInv, OrderInv, BaseInv, Types
    <3>2. Given(c)' = stream'[c] \o out'[c]
      BY DEF Given
    <3>. DEFINE a == stream'[c]
                b == out'[c]
    <3>3. a \in Seq(Nat) /\ b \in Seq(Nat) /\ Given(c)' = a \o b
      BY <3>1, <3>2
    <3>. HIDE DEF a, b
    <3>4. /\ Len(a) \in Nat /\ Len(b) \in Nat /\ Len(a \o b) = Len(a) + Len(b)
          /\ \A i \in 1 .. Len(a) : (a \o b)[i] = a[i]
      BY <3>3, ConcatParts
    <3>. QED  BY <3>3, <3>4 DEF a, b
  <2>. DEFINE s == stream'[c]
  <2>4. \A i \in 1 .. Len(s) : i \in 1 .. Len(Given(c)')
    BY <2>3, WithinSum
  <2>5. \A i \in 1 .. Len(s) : s[i] \in Owed(c)
    BY <2>2, <2>3, <2>4 DEF FullInv, OrderInv, InOrder
  <2>6. \A i, j \in 1 .. Len(s) : i < j => s[i] < s[j]
    BY <2>3, <2>4 DEF FullInv, OrderInv, InOrder
  <2>7. \A i \in 1 .. Len(s) : \A m \in Owed(c) :
          m < s[i] => \E j \in 1 .. Len(s) : s[j] = m
    BY <2>2 DEF NoHole
  <2>. QED  BY <2>1, <2>5, <2>6, <2>7 DEF Room_!BeginsFeed
<1>. QED  BY <1>1, <1>2, <1>6, <1>7, <1>8 DEF Room_!Hear

\* Every step of the server is a step of the room, or a stutter.
LEMMA RoomNext ==
  ASSUME FullInv, FullInv', NoHole', [Next]_vars
  PROVE  [Room_!Next]_(Room_!vars)
<1>. SUFFICES RoomStep
  BY DEF RoomStep, RoomStutters, InRoom, Room_!vars
<1>0. ASSUME UNCHANGED <<log, joined, stream>>, InRoom' \subseteq InRoom
      PROVE  RoomStep
  BY <1>0, GoneLeaves DEF InRoom, Room_!Next, RoomStep
<1>1. CASE RunAccept
  <2>1. CASE Accept(Head(backlog))
    <3>1. accepting
      BY <1>1 DEF RunAccept
    <3>2. Head(backlog) \in Conns
      BY <3>1, HeadOfQueue DEF FullInv, OrderInv
    <3>. QED  BY <1>1, <2>1, <3>2, AcceptJoins DEF Room_!Next, RoomStep
  <2>2. CASE ~Accept(Head(backlog))
    <3>1. /\ UNCHANGED <<log, joined, stream, clients>>
          /\ proc = "running"
      BY <1>1, <2>2 DEF RunAccept, AcceptFails, AcceptOutOfMemory, server, history
    <3>2. InRoom' \subseteq InRoom
      BY <3>1 DEF InRoom
    <3>. QED  BY <1>0, <3>1, <3>2
  <2>. QED  BY <2>1, <2>2
<1>2. ASSUME NEW c \in Conns, Relay(c) PROVE RoomStep
  BY <1>2, RelayPublishes DEF Room_!Next, RoomStep
<1>3. ASSUME NEW c \in Conns, Flush(c) PROVE RoomStep
  BY <1>3, FlushIsHeard DEF Room_!Next, RoomStep
<1>4. ASSUME NEW c \in Conns, ReadEnds(c) \/ ReadOutOfMemory(c) \/ WriteFails(c)
      PROVE  RoomStep
  <2>1. /\ UNCHANGED <<log, joined, stream, proc>>
        /\ clients' = clients \ {c}
    BY <1>4 DEF ReadEnds, ReadOutOfMemory, WriteFails, Disconnect, Removed, history
  <2>2. InRoom' \subseteq InRoom
    BY <2>1 DEF InRoom
  <2>. QED  BY <1>0, <2>1, <2>2
<1>5. ASSUME NEW c \in Conns, WriteKills(c) PROVE RoomStep
  <2>1. UNCHANGED <<log, joined, stream, clients>> /\ proc' = "killed"
    BY <1>5 DEF WriteKills, history
  <2>2. InRoom' \subseteq InRoom
    BY <2>1 DEF InRoom
  <2>. QED  BY <1>0, <2>1, <2>2
<1>6. ASSUME UNCHANGED <<log, joined, stream, clients, proc>> PROVE RoomStep
  BY <1>6 DEF RoomStutters, InRoom, RoomStep
<1>7. ASSUME NEW c \in Conns, RunFinal(c) PROVE RoomStep
  BY <1>6, <1>7 DEF RunFinal, history
<1>8. CASE Poll
  BY <1>6, <1>8 DEF Poll, server, history
<1>9. CASE Peers
  BY <1>6, <1>9 DEF Peers, PeerConnect, PeerSend, PeerRead, PeerClose, PeerAbort,
                    ResetArrives, server, history
<1>10. CASE UNCHANGED vars
  BY <1>6, <1>10 DEF vars, server, history
<1>11. CASE Loop
  <2>1. ASSUME NEW c \in Conns,
               \/ Relay(c) \/ ReadEnds(c) \/ ReadOutOfMemory(c)
               \/ Flush(c) \/ WriteFails(c) \/ WriteKills(c)
               \/ RunFinal(c)
        PROVE  RoomStep
    BY <1>2, <1>3, <1>4, <1>5, <1>7, <2>1
  <2>. QED  BY <1>1, <1>8, <1>11, <2>1 DEF Loop
<1>. QED  BY <1>9, <1>10, <1>11 DEF Next

(***************************************************************************)
(* IsBroadcast: while malloc does not fail the server is a broadcast room: *)
(* clients join, publish, hear their feed in the order of the log and      *)
(* leave, and nothing else is ever visible of it (fireServer.c:84-170).    *)
(***************************************************************************)
THEOREM ServerIsBroadcast == ASSUME ~MemoryMayFail PROVE Spec => IsBroadcast
<1>1. Spec => []FullInv
  BY FullAlways
<1>2. FullInv => NoHole
  BY FullHasNoHole
<1>3. Init => Room_!Init
  BY RoomInit
<1>4. FullInv /\ FullInv' /\ NoHole' /\ [Next]_vars => [Room_!Next]_(Room_!vars)
  BY RoomNext
<1>. QED  BY <1>1, <1>2, <1>3, <1>4, PTL DEF Spec, IsBroadcast, Room_!Spec

-----------------------------------------------------------------------------
(***************************************************************************)
(* The senders.  A server with fireClientSend among its peers takes only   *)
(* steps of the server, so what is proved of every step holds of it too.   *)
(***************************************************************************)
SenderSteps == {"start", "connected", "sent", "done", "failed"}

\* How far the program of a sender is shows at its connection; and from the
\* send on, its message waits in the socket's receive queue or has been heard.
SenderKnows ==
  \A c \in Senders :
    /\ sender[c] \in {"start", "failed"} => tcp[c] = "idle"
    /\ sender[c] \in {"connected", "sent"} => tcp[c] = "estab"
    /\ sender[c] = "done" => tcp[c] \in {"fin", "reset", "pipe"}
    /\ sender[c] \in {"sent", "done"} => inq[c] > 0 \/ IsHeard(c)

SenderInv ==
  /\ BaseInv
  /\ sender \in [Senders -> SenderSteps]
  /\ SenderKnows
  /\ LostOnlyToReset

LEMMA SenderInit == SendInit => SenderInv
<1>. SUFFICES ASSUME SendInit PROVE SenderInv
  OBVIOUS
<1>1. BaseInv
  BY BaseStart DEF SendInit, NothingYet
<1>2. SenderKnows /\ LostOnlyToReset
  BY SendersAssumption DEF SendInit, NobodyYet, SenderKnows, LostOnlyToReset
<1>. QED  BY <1>1, <1>2 DEF SendInit, SenderInv, SenderSteps

\* The steps of the composition are steps of the server or leave it alone.
LEMMA SenderTakesPeerSteps == [SendNext]_sendVars => [Next]_vars
<1>1. ASSUME NEW c \in Senders, Sender(c) PROVE [Next]_vars
  <2>1. c \in Conns
    BY SendersAssumption
  <2>. QED
    BY <1>1, <2>1 DEF Sender, Connects, ConnectFails, Sends, Exits, Closes, Next, Peers
<1>2. ASSUME OtherPeers PROVE Next
  BY <1>2 DEF OtherPeers, Next, Peers
<1>. QED
  BY <1>1, <1>2 DEF SendNext, ServerLoop, Next, sendVars

\* Once heard, always heard; and what is read of a peer is heard.
LEMMA RelayIsHeard ==
  ASSUME BaseInv, NEW c \in Conns, Relay(c)
  PROVE  /\ IsHeard(c)'
         /\ \A d \in Conns : IsHeard(d) => IsHeard(d)'
<1>1. PICK given \in SUBSET Recipients(c), k \in Nat \ {0} :
        /\ Len(log') = Len(log) + k
        /\ \A n \in 1 .. Len(log) : log'[n] = log[n]
        /\ \A i \in 1 .. k : log'[Len(log) + i] = c
  BY RelayGiven
<1>2. Len(log) \in Nat
  BY DEF BaseInv, Types
<1>3. 1 \in 1 .. k /\ Len(log) + 1 \in 1 .. Len(log')
  BY <1>1, <1>2
<1>4. log'[Len(log) + 1] = c
  BY <1>1, <1>3
<1>5. \A n \in 1 .. Len(log) : n \in 1 .. Len(log')
  BY <1>1, <1>2
<1>. QED  BY <1>1, <1>3, <1>4, <1>5 DEF IsHeard

\* A turn of the loop: only a relay takes from a receive queue, and only at the
\* end of the data or at a RST is a client given up.
LEMMA LoopForSender ==
  ASSUME ~MemoryMayFail, SenderInv, Loop, NEW c \in Senders
  PROVE  /\ UNCHANGED tcp
         /\ inq'[c] = inq[c] \/ IsHeard(c)'
         /\ IsHeard(c) => IsHeard(c)'
         /\ \/ bev[c] \in {"finalizing", "freed"}
            \/ bev'[c] \notin {"finalizing", "freed"}
            \/ inq[c] = 0 /\ tcp[c] # "estab" /\ <<c, "R">> \in active
            \/ Broken(c)
<1>0. c \in Conns
  BY SendersAssumption
<1>1. ASSUME NEW d \in Conns, Relay(d)
      PROVE  /\ UNCHANGED <<tcp, bev>>
             /\ inq'[c] = inq[c] \/ IsHeard(c)'
             /\ IsHeard(c) => IsHeard(c)'
  <2>1. IsHeard(d)' /\ (IsHeard(c) => IsHeard(c)')
    BY <1>0, <1>1, RelayIsHeard DEF SenderInv
  <2>2. d # c => inq'[c] = inq[c]
    BY <1>0, <1>1 DEF Relay, SenderInv, BaseInv, Types
  <2>. QED  BY <1>1, <2>1, <2>2 DEF Relay
<1>2. ASSUME UNCHANGED <<tcp, inq, log>> PROVE inq'[c] = inq[c] /\ (IsHeard(c) => IsHeard(c)')
  BY <1>2 DEF IsHeard
<1>3. ASSUME NEW d \in Conns, Disconnect(d)
      PROVE  UNCHANGED <<tcp, inq, log>> /\ (c # d => bev'[c] = bev[c])
  BY <1>0, <1>3 DEF Disconnect, history, network, SenderInv, BaseInv, Types
<1>4. ASSUME NEW d \in Conns, ReadEnds(d)
      PROVE  inq[d] = 0 /\ tcp[d] # "estab" /\ <<d, "R">> \in active /\ Disconnect(d)
  BY <1>4 DEF ReadEnds, ReadDue, AtEnd
<1>5. ASSUME NEW d \in Conns, WriteFails(d) PROVE Broken(d) /\ Disconnect(d)
  BY <1>5 DEF WriteFails, Broken
<1>6. ASSUME NEW d \in Conns, RunFinal(d)
      PROVE  /\ UNCHANGED <<tcp, inq, log>>
             /\ bev'[c] = bev[c] \/ bev[c] = "finalizing"
  BY <1>0, <1>6 DEF RunFinal, history, network, SenderInv, BaseInv, Types
<1>7. ASSUME Poll \/ RunAccept
      PROVE  /\ UNCHANGED <<tcp, inq, log>>
             /\ bev'[c] = bev[c] \/ bev'[c] = "live"
  <2>1. \A d : Accept(d) => UNCHANGED <<tcp, inq, log>>
                            /\ (bev'[c] = bev[c] \/ bev'[c] = "live")
    BY <1>0 DEF Accept, SenderInv, BaseInv, Types
  <2>. QED
    BY <1>7, <2>1
    DEF Poll, RunAccept, AcceptFails, AcceptOutOfMemory, server, history, network
<1>8. ASSUME NEW d \in Conns, Flush(d) \/ WriteKills(d)
      PROVE  UNCHANGED <<tcp, inq, log, bev>>
  BY <1>8 DEF Flush, WriteKills, history, network
<1>9. \A d \in Conns : ~ReadOutOfMemory(d)
  BY DEF ReadOutOfMemory
<1>10. CASE Poll \/ RunAccept
  BY <1>2, <1>7, <1>10
<1>11. ASSUME NEW d \in Conns, ReadEnds(d) \/ WriteFails(d)
       PROVE  /\ UNCHANGED <<tcp, inq, log>>
              /\ \/ bev'[c] = bev[c]
                 \/ inq[c] = 0 /\ tcp[c] # "estab" /\ <<c, "R">> \in active
                 \/ Broken(c)
  BY <1>3, <1>4, <1>5, <1>11
<1>12. PICK d \in Conns : \/ Relay(d) \/ ReadEnds(d) \/ WriteFails(d)
                          \/ Flush(d) \/ WriteKills(d) \/ RunFinal(d)
                          \/ Poll \/ RunAccept
  BY <1>0, <1>9 DEF Loop
<1>13. CASE Relay(d)
  BY <1>1, <1>13
<1>14. CASE ReadEnds(d) \/ WriteFails(d)
  BY <1>2, <1>11, <1>14
<1>15. CASE Flush(d) \/ WriteKills(d)
  BY <1>2, <1>8, <1>15
<1>16. CASE RunFinal(d)
  BY <1>2, <1>6, <1>16
<1>. QED  BY <1>10, <1>12, <1>13, <1>14, <1>15, <1>16

\* The read event of a connection that is not there is not active.
LEMMA IdleIsQuiet ==
  ASSUME BaseInv, NEW c \in Conns, <<c, "R">> \in active
  PROVE  tcp[c] # "idle"
<1>1. c \in clients
  BY DEF BaseInv, Events, EventsOfClients
<1>. QED  BY <1>1 DEF BaseInv, Owners, ListIsLive, Queued, QueueIsFresh

LEMMA SenderLoop ==
  ASSUME ~MemoryMayFail, SenderInv, ServerLoop
  PROVE  SenderKnows' /\ LostOnlyToReset'
<1>. SUFFICES ASSUME NEW c \in Senders
              PROVE  /\ sender'[c] \in {"start", "failed"} => tcp'[c] = "idle"
                     /\ sender'[c] \in {"connected", "sent"} => tcp'[c] = "estab"
                     /\ sender'[c] = "done" => tcp'[c] \in {"fin", "reset", "pipe"}
                     /\ sender'[c] \in {"sent", "done"} => inq'[c] > 0 \/ IsHeard(c)'
                     /\ bev'[c] \in {"finalizing", "freed"} /\ ~IsHeard(c)' => Broken(c)'
  BY DEF SenderKnows, LostOnlyToReset
<1>1. UNCHANGED <<sender, tcp>>
  BY LoopForSender DEF ServerLoop
<1>2. /\ inq'[c] = inq[c] \/ IsHeard(c)'
      /\ IsHeard(c) => IsHeard(c)'
      /\ \/ bev[c] \in {"finalizing", "freed"}
         \/ bev'[c] \notin {"finalizing", "freed"}
         \/ inq[c] = 0 /\ tcp[c] # "estab" /\ <<c, "R">> \in active
         \/ Broken(c)
  BY LoopForSender DEF ServerLoop
<1>3. c \in Conns /\ sender[c] \in SenderSteps /\ (Broken(c) => Broken(c)')
  BY <1>1, SendersAssumption DEF SenderInv, Broken
<1>4. inq[c] = 0 /\ tcp[c] # "estab" /\ <<c, "R">> \in active => IsHeard(c)
  <2>. SUFFICES ASSUME inq[c] = 0, tcp[c] # "estab", <<c, "R">> \in active
                PROVE  IsHeard(c)
    OBVIOUS
  <2>1. tcp[c] # "idle"
    BY <1>3, IdleIsQuiet DEF SenderInv
  <2>2. sender[c] = "done"
    BY <1>3, <2>1 DEF SenderInv, SenderKnows, SenderSteps
  <2>. QED  BY <2>2 DEF SenderInv, SenderKnows
<1>. QED  BY <1>1, <1>2, <1>3, <1>4 DEF SenderInv, SenderKnows, LostOnlyToReset

\* The other peers, and the RST that answers what is written to a sender that
\* has gone: a broken connection stays broken.
LEMMA SenderOthers ==
  ASSUME SenderInv, OtherPeers
  PROVE  SenderKnows' /\ LostOnlyToReset'
<1>. SUFFICES ASSUME NEW c \in Senders
              PROVE  /\ sender[c] \in {"start", "failed"} => tcp'[c] = "idle"
                     /\ sender[c] \in {"connected", "sent"} => tcp'[c] = "estab"
                     /\ sender[c] = "done" => tcp'[c] \in {"fin", "reset", "pipe"}
                     /\ sender[c] \in {"sent", "done"} => inq'[c] > 0 \/ IsHeard(c)
                     /\ bev[c] \in {"finalizing", "freed"} /\ ~IsHeard(c) => Broken(c)'
                     /\ UNCHANGED <<sender, bev, log>>
  BY DEF SenderKnows, LostOnlyToReset, IsHeard
<1>0. c \in Conns
  BY SendersAssumption
<1>1. UNCHANGED <<sender, bev, log>>
  BY DEF OtherPeers, PeerConnect, PeerSend, PeerRead, PeerClose,
         PeerAbort, ResetArrives, server, history
<1>2. inq'[c] = inq[c] /\ (tcp'[c] = tcp[c] \/ (tcp[c] = "fin" /\ tcp'[c] = "pipe"))
  BY <1>0 DEF OtherPeers, PeerConnect, PeerSend, PeerRead, PeerClose,
              PeerAbort, ResetArrives,
              SenderInv, BaseInv, Types
<1>. QED  BY <1>1, <1>2 DEF SenderInv, SenderKnows, LostOnlyToReset, Broken

\* A step of a sender's program.
LEMMA SenderItself ==
  ASSUME SenderInv, NEW s \in Senders, Sender(s)
  PROVE  sender' \in [Senders -> SenderSteps] /\ SenderKnows' /\ LostOnlyToReset'
<1>0. Senders \subseteq Conns
  BY SendersAssumption
<1>1. UNCHANGED <<bev, log>> /\ \A c \in Conns : IsHeard(c)' <=> IsHeard(c)
  BY DEF Sender, Connects, ConnectFails, Sends, Exits, Closes, PeerConnect, PeerSend,
         PeerClose, PeerAbort, vars, server, history, IsHeard
<1>2. sender' \in [Senders -> SenderSteps]
  BY DEF Sender, Connects, ConnectFails, Sends, Exits, Moves, SenderInv, SenderSteps
<1>3. \A c \in Senders \ {s} :
        sender'[c] = sender[c] /\ tcp'[c] = tcp[c] /\ inq'[c] = inq[c]
  BY <1>0 DEF Sender, Connects, ConnectFails, Sends, Exits, Closes, Moves, PeerConnect,
         PeerSend, PeerClose, PeerAbort, vars, network, SenderInv, BaseInv, Types
<1>4. \/ sender[s] = "start" /\ sender'[s] = "connected" /\ tcp'[s] = "estab"
      \/ sender[s] = "start" /\ sender'[s] = "failed" /\ tcp'[s] = tcp[s]
      \/ /\ sender[s] = "connected" /\ sender'[s] = "sent"
         /\ tcp'[s] = tcp[s] /\ inq'[s] > 0
      \/ /\ sender[s] = "sent" /\ sender'[s] = "done"
         /\ tcp'[s] \in {"fin", "reset"} /\ inq'[s] = inq[s]
  BY <1>0 DEF Sender, Connects, ConnectFails, Sends, Exits, Closes, Moves, PeerConnect,
         PeerSend, PeerClose, PeerAbort, vars, network, SenderInv, BaseInv, Types
<1>5. SenderKnows'
  BY <1>0, <1>1, <1>3, <1>4 DEF SenderKnows, SenderInv
<1>6. tcp[s] \in {"idle", "estab"}
  BY <1>4 DEF SenderInv, SenderKnows
<1>7. LostOnlyToReset'
  BY <1>0, <1>1, <1>3, <1>6 DEF LostOnlyToReset, SenderInv, Broken
<1>. QED  BY <1>2, <1>5, <1>7

LEMMA SenderNext == ~MemoryMayFail /\ SenderInv /\ [SendNext]_sendVars => SenderInv'
<1>. SUFFICES ASSUME ~MemoryMayFail, SenderInv, [SendNext]_sendVars PROVE SenderInv'
  OBVIOUS
<1>1. BaseInv'
  BY BaseNext, SenderTakesPeerSteps DEF SenderInv
<1>2. CASE ServerLoop
  BY <1>1, <1>2, SenderLoop DEF SenderInv, ServerLoop
<1>3. CASE OtherPeers
  BY <1>1, <1>3, SenderOthers DEF SenderInv, OtherPeers
<1>4. ASSUME NEW s \in Senders, Sender(s) PROVE SenderInv'
  BY <1>1, <1>4, SenderItself DEF SenderInv
<1>5. CASE UNCHANGED sendVars
  BY <1>1, <1>5 DEF SenderInv, SenderKnows, LostOnlyToReset, IsHeard, Broken, sendVars,
                    vars, server, history, network
<1>. QED  BY <1>2, <1>3, <1>4, <1>5 DEF SendNext

(***************************************************************************)
(* LostOnlyToReset: while malloc does not fail, however many senders and   *)
(* other peers come and go and in whatever order the server meets a        *)
(* sender's connection, its message and its FIN, a message is lost only to *)
(* a RST (fireClientSend.c:40-45, fireServer.c:84-155).                    *)
(***************************************************************************)
THEOREM SenderLostOnlyToReset ==
  ASSUME ~MemoryMayFail PROVE SendSpec => []LostOnlyToReset
<1>1. SendInit => SenderInv
  BY SenderInit
<1>2. SenderInv /\ [SendNext]_sendVars => SenderInv'
  BY SenderNext
<1>3. SenderInv => LostOnlyToReset
  BY DEF SenderInv
<1>. QED  BY <1>1, <1>2, <1>3, PTL DEF SendSpec

(***************************************************************************)
(* IsBroadcast, of the composition: a server with the programs of          *)
(* fireClientSend among its peers is the same room for all, though these   *)
(* never read, exit with a RST, or find no server at all                   *)
(* (fireClientSend.c:24-46).                                               *)
(***************************************************************************)
THEOREM SendersMeetTheRoom ==
  ASSUME ~MemoryMayFail PROVE SendSpec => IsBroadcast
<1>1. SendInit => NothingYet
  BY DEF SendInit, NothingYet
<1>2. NothingYet => BaseInv /\ FullInv /\ Room_!Init
  BY BaseStart, OrderStart, RoomStart
<1>3. BaseInv /\ [Next]_vars => BaseInv'
  BY BaseNext
<1>4. FullInv /\ BaseInv' /\ [Next]_vars => FullInv'
  BY FullNext
<1>5. FullInv => NoHole
  BY FullHasNoHole
<1>6. FullInv /\ FullInv' /\ NoHole' /\ [Next]_vars => [Room_!Next]_(Room_!vars)
  BY RoomNext
<1>7. [SendNext]_sendVars => [Next]_vars
  BY SenderTakesPeerSteps
<1>. QED
  BY <1>1, <1>2, <1>3, <1>4, <1>5, <1>6, <1>7, PTL DEF SendSpec, IsBroadcast, Room_!Spec

=============================================================================
