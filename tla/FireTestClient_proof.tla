-------------------------- MODULE FireTestClient_proof --------------------------
(***************************************************************************)
(* Proofs about FireTestClient, for any finite number of sessions, any     *)
(* block, any size of the reads and writes and any bound on the log.       *)
(***************************************************************************)
EXTENDS FireTestClient, FiniteSetTheorems, WellFoundedInduction, TLAPS

-----------------------------------------------------------------------------
(***************************************************************************)
(* Sums.                                                                   *)
(***************************************************************************)
\* The pairs that make up a sum are finitely many.
LEMMA PairsFinite ==
  ASSUME NEW S, IsFiniteSet(S), NEW f, \A x \in S : f[x] \in Nat
  PROVE  IsFiniteSet(Pairs(S, f)) /\ Total(S, f) \in Nat
<1>. DEFINE Row(x) == {x} \X (1 .. f[x])
            Rows == { Row(x) : x \in S }
<1>1. IsFiniteSet(Rows)
  <2>. DEFINE g == [x \in S |-> Row(x)]
  <2>1. g \in Surjection(S, Rows)
    BY DEF Surjection
  <2>. QED  BY <2>1, FS_Surjection
<1>2. \A R \in Rows : IsFiniteSet(R)
  <2>. SUFFICES ASSUME NEW x \in S PROVE IsFiniteSet({x} \X (1 .. f[x]))
    OBVIOUS
  <2>1. IsFiniteSet({x})
    BY FS_Singleton
  <2>2. IsFiniteSet(1 .. f[x])
    <3>1. 1 \in Int /\ f[x] \in Int
      OBVIOUS
    <3>. QED  BY <3>1, FS_Interval
  <2>. QED  BY <2>1, <2>2, FS_Product
<1>3. Pairs(S, f) = UNION Rows
  BY DEF Pairs
<1>4. IsFiniteSet(UNION Rows)
  <2>. HIDE DEF Rows
  <2>. QED  BY <1>1, <1>2, FS_UNION
<1>. QED  BY <1>3, <1>4, FS_CardinalityType DEF Total

\* A sum is one of its terms and the sum of the others.
LEMMA TotalSplit ==
  ASSUME NEW S, IsFiniteSet(S), NEW f, \A x \in S : f[x] \in Nat, NEW x \in S
  PROVE  /\ Total(S \ {x}, f) \in Nat
         /\ Total(S, f) = Total(S \ {x}, f) + f[x]
<1>. DEFINE R == {x} \X (1 .. f[x])
            Q == Pairs(S \ {x}, f)
<1>1. Pairs(S, f) = Q \cup R /\ Q \cap R = {}
  BY DEF Pairs
<1>2. IsFiniteSet(S \ {x})
  BY FS_RemoveElement
<1>3. IsFiniteSet(Q) /\ Total(S \ {x}, f) \in Nat
  BY <1>2, PairsFinite
<1>4. IsFiniteSet(R) /\ Cardinality(R) = f[x]
  <2>1. IsFiniteSet({x}) /\ Cardinality({x}) = 1
    BY FS_Singleton
  <2>2. IsFiniteSet(1 .. f[x]) /\ Cardinality(1 .. f[x]) = f[x]
    BY FS_Interval
  <2>3. IsFiniteSet(R) /\ Cardinality(R) = Cardinality({x}) * Cardinality(1 .. f[x])
    BY <2>1, <2>2, FS_Product
  <2>. QED  BY <2>1, <2>2, <2>3
<1>5. Cardinality(Q \cup R) = Cardinality(Q) + Cardinality(R) - Cardinality(Q \cap R)
  <2>. HIDE DEF Q, R
  <2>. QED  BY <1>3, <1>4, FS_Union
<1>6. Cardinality(Q \cap R) = 0 /\ Cardinality(Q) = Total(S \ {x}, f)
  BY <1>1, FS_EmptySet DEF Total
<1>7. Total(S, f) = Cardinality(Q \cup R)
  BY <1>1 DEF Total
<1>. HIDE DEF Q, R
<1>. QED  BY <1>3, <1>4, <1>5, <1>6, <1>7

\* Functions that agree on a set have one sum.
LEMMA TotalSame ==
  ASSUME NEW S, NEW f, NEW g, \A x \in S : g[x] = f[x]
  PROVE  Total(S, g) = Total(S, f)
<1>1. Pairs(S, g) = Pairs(S, f)
  BY DEF Pairs
<1>. QED  BY <1>1 DEF Total

\* When one term changes the sum changes by as much.
LEMMA TotalOne ==
  ASSUME NEW S, IsFiniteSet(S), NEW f, NEW g, NEW x \in S,
         \A y \in S : f[y] \in Nat /\ g[y] \in Nat,
         \A y \in S \ {x} : g[y] = f[y]
  PROVE  Total(S, g) + f[x] = Total(S, f) + g[x]
<1>1. Total(S \ {x}, f) \in Nat /\ Total(S, f) = Total(S \ {x}, f) + f[x]
  BY TotalSplit
<1>2. Total(S, g) = Total(S \ {x}, g) + g[x]
  BY TotalSplit
<1>3. Total(S \ {x}, g) = Total(S \ {x}, f)
  BY TotalSame
<1>. QED  BY <1>1, <1>2, <1>3

\* When the terms of a subset grow by one each.
LEMMA TotalAdd ==
  ASSUME NEW S, IsFiniteSet(S), NEW f, NEW g, NEW T \in SUBSET S,
         \A y \in S : f[y] \in Nat,
         \A y \in S : g[y] = IF y \in T THEN f[y] + 1 ELSE f[y]
  PROVE  Total(S, g) = Total(S, f) + Cardinality(T)
<1>. DEFINE New == { <<y, f[y] + 1>> : y \in T }
            Old == Pairs(S, f)
<1>1. Pairs(S, g) = Old \cup New
  <2>1. \A n \in Nat : 1 .. n + 1 = (1 .. n) \cup {n + 1}
    OBVIOUS
  <2>2. \A y \in S : 1 .. g[y] = IF y \in T THEN (1 .. f[y]) \cup {f[y] + 1} ELSE 1 .. f[y]
    BY <2>1
  <2>. QED  BY <2>2 DEF Pairs
<1>2. Old \cap New = {}
  BY DEF Pairs
<1>3. IsFiniteSet(Old) /\ Cardinality(Old) \in Nat /\ Cardinality(Old) = Total(S, f)
  BY PairsFinite DEF Total
<1>4. IsFiniteSet(T)
  BY FS_Subset
<1>5. IsFiniteSet(New) /\ Cardinality(New) = Cardinality(T)
  <2>. DEFINE h == [y \in T |-> <<y, f[y] + 1>>]
  <2>1. h \in Bijection(T, New)
    <3>1. h \in [T -> New]
      OBVIOUS
    <3>2. h \in Surjection(T, New)
      BY <3>1 DEF Surjection
    <3>3. h \in Injection(T, New)
      BY <3>1 DEF Injection, IsInjective
    <3>. QED  BY <3>2, <3>3 DEF Bijection
  <2>2. ExistsBijection(T, New)
    <3>. HIDE DEF h, New
    <3>. QED  BY <2>1 DEF ExistsBijection
  <2>. HIDE DEF New
  <2>. QED  BY <1>4, <2>2, FS_Bijection
<1>6. Cardinality(Old \cup New) = Cardinality(Old) + Cardinality(New) - Cardinality(Old \cap New)
  <2>. HIDE DEF Old, New
  <2>. QED  BY <1>3, <1>5, FS_Union
<1>7. Cardinality(Old \cap New) = 0 /\ Cardinality(T) \in Nat
  BY <1>2, <1>4, FS_EmptySet, FS_CardinalityType
<1>8. Total(S, g) = Cardinality(Old \cup New)
  BY <1>1 DEF Total
<1>. HIDE DEF Old, New
<1>. QED  BY <1>3, <1>5, <1>6, <1>7, <1>8

\* A sum without terms, or with terms that are 0.
LEMMA TotalZero ==
  ASSUME NEW S, NEW f, \A x \in S : f[x] = 0
  PROVE  Total(S, f) = 0
<1>1. \A x \in S : 1 .. f[x] = {}
  OBVIOUS
<1>2. Pairs(S, f) = {}
  BY <1>1 DEF Pairs
<1>. QED  BY <1>2, FS_EmptySet DEF Total

-----------------------------------------------------------------------------
\* What a member is owed has a first unit.
LEMMA OwedHasLeast ==
  ASSUME NEW c, Owed(c) # {}
  PROVE  /\ Min(Owed(c)) \in Owed(c)
         /\ \A n \in Owed(c) : Min(Owed(c)) <= n
<1>. DEFINE S == Owed(c)
<1>1. S \subseteq Nat
  BY DEF Owed
<1>2. \E m \in S : \A n \in S : m <= n
  <2>. HIDE DEF S
  <2>1. PICK m \in S : \A n \in S : <<n, m>> \notin OpToRel(<, Nat)
    BY <1>1, NatLessThanWellFounded, WFMin DEF S
  <2>2. \A n \in S : ~ n < m
    BY <1>1, <2>1 DEF OpToRel
  <2>3. \A n \in S : m <= n
    <3>. SUFFICES ASSUME NEW n \in S PROVE m <= n
      OBVIOUS
    <3>1. m \in Nat /\ n \in Nat /\ ~ n < m
      BY <1>1, <2>1, <2>2
    <3>. QED  BY <3>1
  <2>. QED  BY <2>1, <2>3
<1>. QED  BY <1>2 DEF Min

-----------------------------------------------------------------------------
(***************************************************************************)
(* Types.                                                                  *)
(***************************************************************************)
\* The types that TypeOK leaves to the initial state.
Types ==
  /\ out \in [Sessions -> Nat] /\ wire \in [Sessions -> Nat] /\ got \in [Sessions -> Nat]
  /\ active \subseteq Sessions \X {"read", "write"}
  /\ open \in BOOLEAN
  /\ log \in Seq(Sessions) /\ members \subseteq Sessions
  /\ joined \in [Sessions -> Nat] /\ heard \in [Sessions -> Seq(Nat)]

TypeInv == Types /\ TypeOK

\* Before main has opened a session.
LEMMA TypeInit == Init => TypeInv
<1>. SUFFICES ASSUME Init PROVE TypeInv
  OBVIOUS
<1>1. <<>> \in Seq(Sessions) /\ <<>> \in Seq(Nat) /\ Len(<<>>) = 0
  OBVIOUS
<1>2. Types
  BY <1>1 DEF Init, Types
<1>3. Total(Sessions, got) = 0
  BY TotalZero DEF Init
<1>. QED  BY <1>1, <1>2, <1>3 DEF Init, TypeInv, TypeOK

\* The units that a session has read are counted.
LEMMA ReadIsCounted ==
  ASSUME Types, NEW c \in Sessions, NEW n \in Nat, got' = [got EXCEPT ![c] = @ + n],
         counted = Total(Sessions, got), counted' = counted + n
  PROVE  counted' = Total(Sessions, got')
<1>1. \A d \in Sessions : got[d] \in Nat /\ got'[d] \in Nat
  BY DEF Types
<1>2. got'[c] = got[c] + n /\ \A d \in Sessions \ {c} : got'[d] = got[d]
  BY DEF Types
<1>3. Total(Sessions, got') + got[c] = Total(Sessions, got) + got'[c]
  <2>. DEFINE f == got
              g == got'
  <2>1. /\ \A d \in Sessions : f[d] \in Nat /\ g[d] \in Nat
        /\ \A d \in Sessions \ {c} : g[d] = f[d]
    BY <1>1, <1>2
  <2>. HIDE DEF f, g
  <2>2. Total(Sessions, g) + f[c] = Total(Sessions, f) + g[c]
    BY <2>1, TotalOne, SessionsAssumption
  <2>. QED  BY <2>2 DEF f, g
<1>4. Total(Sessions, got') \in Nat /\ Total(Sessions, got) \in Nat
  BY <1>1, PairsFinite, SessionsAssumption
<1>. QED  BY <1>1, <1>2, <1>3, <1>4

\* A step that leaves what is read and heard alone.
LEMMA CountKept ==
  ASSUME TypeInv, UNCHANGED <<got, heard, counted>>
  PROVE  /\ \A c \in Sessions : got'[c] <= Len(heard'[c])
         /\ counted' = Total(Sessions, got')
  BY DEF TypeInv, TypeOK

\* The units in buffers and on the wire are counted by natural numbers.
LEMMA BuffersCounted ==
  ASSUME Types'
  PROVE  {out'[c] : c \in Sessions} \cup {wire'[c] : c \in Sessions} \subseteq Nat
  BY DEF Types

LEMMA TypeNext == TypeInv /\ [Next]_vars => TypeInv'
<1>. SUFFICES ASSUME TypeInv, [Next]_vars PROVE TypeInv'
  OBVIOUS
<1>. USE DEF loop, room, client
<1>1. ASSUME NEW c \in Sessions, StartConnect(c) PROVE TypeInv'
  <2>1. Block \in Nat
    BY BoundsAssumption
  <2>2. Types'
    BY <1>1, <2>1 DEF StartConnect, TypeInv, Types
  <2>3. /\ link' \in [Sessions -> {"idle", "connecting", "estab", "over", "refused"}]
        /\ enabled' \in [Sessions -> SUBSET {"read", "write"}]
        /\ \A d \in Sessions : enabled'[d] # {} => link'[d] \notin {"idle", "refused"}
        /\ active = {}
    BY <1>1 DEF StartConnect, TypeInv, TypeOK
  <2>. QED
    BY <1>1, <2>2, <2>3, CountKept, BuffersCounted
  DEF StartConnect, TypeInv, TypeOK
<1>2. ASSUME ConnectFails \/ Dispatch \/ TimePasses \/ TimeOut PROVE TypeInv'
  <2>1. Types' /\ UNCHANGED <<got, heard, counted>>
    BY <1>2 DEF ConnectFails, Dispatch, TimePasses, TimeOut, TypeInv, Types
  <2>. QED
    BY <1>2, <2>1, CountKept
    DEF ConnectFails, Dispatch, TimePasses, TimeOut, TypeInv, TypeOK
<1>3. ASSUME Poll PROVE TypeInv'
  <2>1. \A a \in active' : \E c \in Sessions : \E d \in enabled[c] : a = <<c, d>>
    BY <1>3 DEF Poll, Pollable, Ready
  <2>2. /\ active' \subseteq Sessions \X {"read", "write"}
        /\ \A a \in active' : a[2] \in enabled[a[1]]
    BY <2>1 DEF TypeInv, TypeOK
  <2>3. Types'
    BY <1>3, <2>2 DEF Poll, TypeInv, Types
  <2>. QED  BY <1>3, <2>2, <2>3, CountKept DEF Poll, TypeInv, TypeOK
<1>4. ASSUME NEW c \in Sessions, Write(c) PROVE TypeInv'
  <2>1. /\ out' \in [Sessions -> Nat] /\ wire' \in [Sessions -> Nat]
    <3>1. PICK n \in 1 .. MaxMove :
            /\ n <= out[c]
            /\ out' = [out EXCEPT ![c] = @ - n]
            /\ wire' = [wire EXCEPT ![c] = @ + n]
      BY <1>4 DEF Write
    <3>2. n \in Nat /\ out[c] \in Nat /\ out[c] - n \in Nat /\ wire[c] + n \in Nat
      BY <3>1, BoundsAssumption DEF TypeInv, Types
    <3>. QED  BY <3>1, <3>2 DEF TypeInv, Types
  <2>2. Types'
    BY <1>4, <2>1 DEF Write, Done, TypeInv, Types
  <2>3. /\ link' \in [Sessions -> {"idle", "connecting", "estab", "over", "refused"}]
        /\ \A d \in Sessions : enabled'[d] # {} => link'[d] \notin {"idle", "refused"}
        /\ \A a \in active' : a[2] \in enabled'[a[1]] /\ pc' # "setup"
    BY <1>4 DEF Write, Done, TypeInv, TypeOK
  <2>. QED  BY <1>4, <2>2, <2>3, CountKept, BuffersCounted
  DEF Write, TypeInv, TypeOK
<1>5. ASSUME NEW c \in Sessions, Refused(c) PROVE TypeInv'
  <2>1. Types'
    BY <1>5 DEF Refused, Done, TypeInv, Types
  <2>2. /\ link' \in [Sessions -> {"idle", "connecting", "estab", "over", "refused"}]
        /\ enabled' \in [Sessions -> SUBSET {"read", "write"}]
        /\ \A d \in Sessions : enabled'[d] # {} => link'[d] \notin {"idle", "refused"}
    BY <1>5 DEF Refused, TypeInv, TypeOK
  <2>3. \A a \in active' : a[2] \in enabled'[a[1]] /\ pc' # "setup"
    <3>1. \A a \in active : a \in Sessions \X {"read", "write"}
      BY DEF TypeInv, Types
    <3>2. \A a \in active' : a \in active /\ a[1] # c
      BY <1>5, <3>1 DEF Refused, Done
    <3>. QED  BY <1>5, <3>1, <3>2 DEF Refused, TypeInv, TypeOK
  <2>. QED  BY <1>5, <2>1, <2>2, <2>3, CountKept, BuffersCounted
  DEF Refused, TypeInv, TypeOK
<1>6. ASSUME NEW c \in Sessions, WriteOver(c) PROVE TypeInv'
  <2>1. Types'
    <3>1. active' \subseteq active /\ UNCHANGED <<wire, got, open, log, members, joined, heard>>
      BY <1>6 DEF WriteOver, Done
    <3>2. out' = out \/ out' = [out EXCEPT ![c] = 0]
      BY <1>6 DEF WriteOver
    <3>3. out' \in [Sessions -> Nat]
      <4>1. out \in [Sessions -> Nat]
        BY DEF TypeInv, Types
      <4>. QED  BY <3>2, <4>1
    <3>. QED  BY <3>1, <3>3 DEF TypeInv, Types
  <2>2. /\ enabled' \in [Sessions -> SUBSET {"read", "write"}]
        /\ \A d \in Sessions : enabled'[d] # {} => link'[d] \notin {"idle", "refused"}
        /\ pc' \in {"loop", "failed"}
    BY <1>6 DEF WriteOver, Runs, TypeInv, TypeOK
  <2>3. \A a \in active' : a[2] \in enabled'[a[1]]
    <3>1. \A a \in active : a \in Sessions \X {"read", "write"}
      BY DEF TypeInv, Types
    <3>2. \A a \in active' : a \in active /\ (a[1] # c \/ a[2] # "write")
      BY <1>6, <3>1 DEF WriteOver, Done
    <3>. QED  BY <1>6, <3>1, <3>2 DEF WriteOver, TypeInv, TypeOK
  <2>. QED  BY <1>6, <2>1, <2>2, <2>3, CountKept, BuffersCounted
  DEF WriteOver, TypeInv, TypeOK
<1>7. ASSUME NEW c \in Sessions, Echo(c) PROVE TypeInv'
  <2>1. PICK n \in 1 .. MaxMove :
          /\ n <= Unread(c)
          /\ got' = [got EXCEPT ![c] = @ + n]
          /\ counted' = counted + n
          /\ out' = [out EXCEPT ![c] = Moved(c, n)]
    BY <1>7 DEF Echo
  <2>2. n \in Nat /\ got[c] \in Nat /\ out[c] \in Nat /\ Len(heard[c]) \in Nat
    BY BoundsAssumption DEF TypeInv, Types
  <2>3. got[c] + n \in Nat /\ out[c] + n \in Nat /\ got[c] + n <= Len(heard[c])
    BY <2>1, <2>2 DEF Unread
  <2>4. Types'
    BY <1>7, <2>1, <2>3 DEF Echo, Done, Moved, TypeInv, Types
  <2>5. \A d \in Sessions : got'[d] <= Len(heard'[d])
    BY <1>7, <2>1, <2>3 DEF Echo, TypeInv, TypeOK, Types
  <2>6. counted' = Total(Sessions, got')
    BY <2>1, <2>2, ReadIsCounted DEF TypeInv, TypeOK
  <2>7. \A a \in active' : a[2] \in enabled'[a[1]] /\ pc' # "setup"
    BY <1>7 DEF Echo, Done, TypeInv, TypeOK
  <2>. QED
    BY <1>7, <2>4, <2>5, <2>6, <2>7, BuffersCounted DEF Echo, TypeInv, TypeOK
<1>8. ASSUME NEW c \in Sessions, ReadEnds(c) PROVE TypeInv'
  <2>1. Types'
    BY <1>8 DEF ReadEnds, Done, TypeInv, Types
  <2>2. /\ enabled' \in [Sessions -> SUBSET {"read", "write"}]
        /\ \A d \in Sessions : enabled'[d] # {} => link'[d] \notin {"idle", "refused"}
    BY <1>8 DEF ReadEnds, TypeInv, TypeOK
  <2>3. \A a \in active' : a[2] \in enabled'[a[1]] /\ pc' # "setup"
    <3>1. \A a \in active : a \in Sessions \X {"read", "write"}
      BY DEF TypeInv, Types
    <3>2. \A a \in active' : a \in active /\ (a[1] # c \/ a[2] # "read")
      BY <1>8, <3>1 DEF ReadEnds, Done
    <3>. QED  BY <1>8, <3>1, <3>2 DEF ReadEnds, TypeInv, TypeOK
  <2>. QED  BY <1>8, <2>1, <2>2, <2>3, CountKept, BuffersCounted
  DEF ReadEnds, TypeInv, TypeOK
<1>9. ASSUME NEW c \in Sessions, Join(c) \/ Publish(c) PROVE TypeInv'
  <2>1. Len(log) \in Nat /\ Append(log, c) \in Seq(Sessions)
    BY DEF TypeInv, Types
  <2>2. wire[c] \in Nat /\ (wire[c] > 0 => wire[c] - 1 \in Nat)
    BY DEF TypeInv, Types
  <2>3. Types'
    BY <1>9, <2>1, <2>2 DEF Join, Publish, TypeInv, Types
  <2>. QED  BY <1>9, <2>3, CountKept, BuffersCounted
  DEF Join, Publish, TypeInv, TypeOK
<1>10. ASSUME NEW c \in Sessions, Hear(c) PROVE TypeInv'
  <2>. DEFINE m == Min(Owed(c))
  <2>1. m \in Owed(c)
    BY <1>10, OwedHasLeast DEF Hear
  <2>. HIDE DEF m
  <2>2. m \in Nat
    BY <2>1 DEF Owed
  <2>3. heard' = [heard EXCEPT ![c] = Append(@, m)]
    BY <1>10 DEF Hear, m
  <2>4. heard' \in [Sessions -> Seq(Nat)]
    BY <2>2, <2>3 DEF TypeInv, Types
  <2>5. \A d \in Sessions : Len(heard[d]) \in Nat /\ got[d] \in Nat
                            /\ Len(heard[d]) <= Len(heard'[d]) /\ Len(heard'[d]) \in Nat
    BY <2>2, <2>3 DEF TypeInv, Types
  <2>6. \A d \in Sessions : got'[d] <= Len(heard'[d])
    BY <1>10, <2>5 DEF Hear, TypeInv, TypeOK
  <2>7. Types'
    BY <1>10, <2>4 DEF Hear, TypeInv, Types
  <2>8. UNCHANGED <<pc, link, enabled, active, timer, counted, got>>
    BY <1>10 DEF Hear
  <2>. QED  BY <2>6, <2>7, <2>8, BuffersCounted DEF TypeInv, TypeOK
<1>11. ASSUME ServerEnds PROVE TypeInv'
  <2>1. Types'
    BY <1>11 DEF ServerEnds, TypeInv, Types
  <2>2. /\ link' \in [Sessions -> {"idle", "connecting", "estab", "over", "refused"}]
        /\ \A d \in Sessions : enabled'[d] # {} => link'[d] \notin {"idle", "refused"}
    BY <1>11 DEF ServerEnds, TypeInv, TypeOK
  <2>. QED  BY <1>11, <2>1, <2>2, CountKept, BuffersCounted
  DEF ServerEnds, TypeInv, TypeOK
<1>12. ASSUME UNCHANGED vars PROVE TypeInv'
  BY <1>12 DEF vars, TypeInv, TypeOK, Types
<1>. QED
  BY <1>1, <1>2, <1>3, <1>4, <1>5, <1>6, <1>7, <1>8, <1>9, <1>10, <1>11, <1>12
  DEF Next, Program

\* Callbacks run only for directions that have events, events are had only by
\* sessions with a connection, and total_bytes_read is what the sessions have
\* read (fireTestClient.c:29-40).
THEOREM TypeCorrect == Spec => []TypeOK
<1>1. TypeInv => TypeOK
  BY DEF TypeInv
<1>. QED  BY <1>1, TypeInit, TypeNext, PTL DEF Spec

-----------------------------------------------------------------------------
(***************************************************************************)
(* The room.                                                               *)
(***************************************************************************)
\* The feeds of module Broadcast, in terms of which the server is described.
Room_ == INSTANCE Broadcast WITH Client <- Sessions

Serving == open /\ pc \in {"setup", "loop"}

\* A session joins once, before it has heard anything; its connection ends only
\* with the server; and before it begins it has nothing to send.
RoomKnows ==
  /\ \A c \in Sessions : joined[c] <= Len(log)
  /\ \A c \in Sessions : link[c] = "over" => ~open
  /\ \A c \in Idle : out[c] = 0
  /\ Serving => \A c \in Sessions \ members : heard[c] = <<>>

\* What a session has heard is the beginning of its feed.
HeardInOrder == \A c \in Sessions : Room_!BeginsFeed(heard[c], c)

RoomInv == TypeInv /\ RoomKnows /\ HeardInOrder

LEMMA RoomInit == Init => RoomInv
<1>. SUFFICES ASSUME Init PROVE RoomInv
  OBVIOUS
<1>1. Len(<<>>) = 0
  OBVIOUS
<1>2. RoomKnows
  BY <1>1 DEF Init, RoomKnows, Idle, Serving
<1>3. HeardInOrder
  BY <1>1 DEF Init, HeardInOrder, Room_!BeginsFeed
<1>. QED  BY <1>2, <1>3, TypeInit DEF RoomInv

\* What a session is owed is the rest of its feed.
LEMMA OwedIsRest ==
  ASSUME NEW c \in members
  PROVE  Owed(c) = Room_!Feed(c) \ Given(c)
  BY DEF Owed, Room_!Feed

\* The server writes the next unit of a feed behind those that were heard.
LEMMA HearNext ==
  ASSUME RoomInv, NEW c \in Sessions, Hear(c)
  PROVE  /\ c \in members /\ UNCHANGED <<log, members, joined>>
         /\ Min(Owed(c)) \in Nat /\ heard' = [heard EXCEPT ![c] = Append(@, Min(Owed(c)))]
         /\ Room_!BeginsFeed(heard'[c], c)
         /\ Given(c)' = Given(c) \cup {Min(Owed(c))}
         /\ Len(heard'[c]) = Len(heard[c]) + 1
         /\ \A i \in 1 .. Len(heard[c]) : heard'[c][i] = heard[c][i]
<1>. DEFINE m == Min(Owed(c))
            h == heard[c]
            g == Append(h, m)
<1>1. m \in Owed(c) /\ \A n \in Owed(c) : m <= n
  BY OwedHasLeast DEF Hear
<1>2. c \in members /\ UNCHANGED <<log, members, joined>>
  BY <1>1 DEF Hear, Owed
<1>. HIDE DEF m
<1>3. m \in Room_!Feed(c) /\ m \notin Given(c) /\ m \in Nat
  BY <1>1, <1>2, OwedIsRest DEF Room_!Feed
<1>4. h \in Seq(Nat) /\ Len(h) \in Nat /\ \A i \in 1 .. Len(h) : h[i] \in Nat
  BY DEF RoomInv, TypeInv, Types
<1>5. Room_!BeginsFeed(h, c)
  BY DEF RoomInv, HeardInOrder
<1>. HIDE DEF h
<1>6. Given(c) = { h[i] : i \in 1 .. Len(h) }
  BY DEF Given, h
<1>7. /\ Len(g) = Len(h) + 1
      /\ \A i \in 1 .. Len(h) : g[i] = h[i]
      /\ g[Len(h) + 1] = m
  BY <1>3, <1>4
<1>8. heard' = [heard EXCEPT ![c] = g] /\ heard'[c] = g
  BY DEF Hear, RoomInv, TypeInv, Types, m, h
<1>15. heard' = [heard EXCEPT ![c] = Append(@, m)]
  BY DEF Hear, m
<1>. HIDE DEF g
<1>9. \A i \in 1 .. Len(h) : h[i] < m
  <2>. SUFFICES ASSUME NEW i \in 1 .. Len(h), ~ h[i] < m PROVE FALSE
    OBVIOUS
  <2>1. h[i] \in Nat /\ h[i] # m
    BY <1>3, <1>4, <1>6
  <2>2. m < h[i]
    BY <1>3, <2>1
  <2>. QED  BY <1>3, <1>5, <1>6, <2>2 DEF Room_!BeginsFeed
<1>10. \A i \in 1 .. Len(g) : i \in 1 .. Len(h) \/ i = Len(h) + 1
  BY <1>4, <1>7
<1>11. \A i \in 1 .. Len(h) : i \in 1 .. Len(g) /\ i < Len(h) + 1
  BY <1>4, <1>7
<1>12. Len(h) + 1 \in 1 .. Len(g)
  BY <1>4, <1>7
<1>13. Room_!BeginsFeed(g, c)
  <2>1. \A i \in 1 .. Len(g) : g[i] \in Room_!Feed(c)
    BY <1>3, <1>5, <1>7, <1>10 DEF Room_!BeginsFeed
  <2>2. \A i, j \in 1 .. Len(g) : i < j => g[i] < g[j]
    <3>. SUFFICES ASSUME NEW i \in 1 .. Len(g), NEW j \in 1 .. Len(g), i < j
                  PROVE  g[i] < g[j]
      OBVIOUS
    <3>1. i \in 1 .. Len(h)
      BY <1>4, <1>7
    <3>2. CASE j \in 1 .. Len(h)
      BY <1>5, <1>7, <3>1, <3>2 DEF Room_!BeginsFeed
    <3>3. CASE j = Len(h) + 1
      BY <1>7, <1>9, <3>1, <3>3
    <3>. QED  BY <1>10, <3>2, <3>3
  <2>3. ASSUME NEW i \in 1 .. Len(g), NEW n \in Room_!Feed(c), n < g[i]
        PROVE  \E j \in 1 .. Len(g) : g[j] = n
    <3>1. CASE n \in Given(c)
      BY <1>6, <1>7, <1>11, <3>1
    <3>2. CASE n \notin Given(c)
      <4>1. m <= n /\ n \in Nat
        BY <1>1, <1>2, <3>2, OwedIsRest DEF Room_!Feed
      <4>2. g[i] <= m
        BY <1>3, <1>4, <1>7, <1>9, <1>10
      <4>3. g[i] \in Nat
        BY <1>3, <1>4, <1>7, <1>10
      <4>. QED  BY <1>3, <2>3, <4>1, <4>2, <4>3
    <3>. QED  BY <3>1, <3>2
  <2>. QED  BY <2>1, <2>2, <2>3 DEF Room_!BeginsFeed
<1>14. Given(c)' = Given(c) \cup {m}
  <2>1. Given(c)' = { g[i] : i \in 1 .. Len(g) }
    BY <1>8 DEF Given
  <2>2. \A x : x \in Given(c)' <=> x \in Given(c) \/ x = m
    BY <1>6, <1>7, <1>10, <1>11, <1>12, <2>1
  <2>. QED  BY <2>2
<1>. QED  BY <1>2, <1>3, <1>7, <1>8, <1>13, <1>14, <1>15 DEF m, h

\* The room of Broadcast is met step by step.
LEMMA HeardKept ==
  ASSUME RoomInv, UNCHANGED <<log, heard, joined>>
  PROVE  HeardInOrder'
  BY DEF RoomInv, HeardInOrder, Room_!BeginsFeed, Room_!Feed

\* A step that is not the server's does not change the room, but that the end
\* of the program empties it.
LEMMA ProgramInRoom ==
  ASSUME Program \/ TimePasses
  PROVE  /\ UNCHANGED <<log, joined, heard, open>>
         /\ UNCHANGED members \/ (members' = {} /\ pc' = "ended")
         /\ pc' = "setup" => pc = "setup"
  BY DEF Program, TimePasses, ConnectFails, Dispatch, Poll, TimeOut, StartConnect, Write,
         Refused, WriteOver, Echo, ReadEnds, Runs, room

LEMMA RoomNext == RoomInv /\ TypeInv' /\ [Next]_vars => RoomInv'
<1>. SUFFICES ASSUME RoomInv, TypeInv', [Next]_vars PROVE RoomKnows' /\ HeardInOrder'
  BY DEF RoomInv
<1>. USE DEF loop, room, client
<1>1. CASE Program \/ TimePasses
  <2>1. /\ UNCHANGED <<log, joined, heard, open>>
        /\ UNCHANGED members \/ (members' = {} /\ pc' = "ended")
    BY <1>1, ProgramInRoom
  <2>2. Serving' => Serving
    BY <1>1, <2>1 DEF Serving, RoomInv, TypeInv, TypeOK, Program, TimePasses, ConnectFails,
       Dispatch, Poll, TimeOut, StartConnect, Write, Refused, WriteOver, Echo, ReadEnds, Runs
  <2>3. \A c \in Sessions : link'[c] = "over" => link[c] = "over"
    BY <1>1 DEF RoomInv, TypeInv, TypeOK, Program, TimePasses, ConnectFails,
       Dispatch, Poll, TimeOut, StartConnect, Write, Refused, WriteOver, Echo, ReadEnds
  <2>4. \A c \in Idle' : c \in Idle /\ out'[c] = out[c]
    <3>1. ASSUME NEW d \in Sessions, Write(d) \/ WriteOver(d) \/ Echo(d)
          PROVE  \A c \in Idle' : c \in Idle /\ out'[c] = out[c]
      <4>1. d \notin Idle /\ d \notin Idle'
        <5>1. <<d, "write">> \in active \/ <<d, "read">> \in active
          BY <3>1 DEF Write, WriteOver, Echo, Runs
        <5>2. enabled[d] # {}
          BY <5>1 DEF RoomInv, TypeInv, TypeOK
        <5>3. link[d] # "idle"
          BY <5>2 DEF RoomInv, TypeInv, TypeOK
        <5>. QED  BY <3>1, <5>3 DEF Idle, Write, WriteOver, Echo, RoomInv, TypeInv, TypeOK
      <4>2. \A c \in Sessions \ {d} : link'[c] = link[c] /\ out'[c] = out[c]
        <5>1. CASE Write(d)
          BY <5>1 DEF Write, RoomInv, TypeInv, TypeOK, Types
        <5>2. CASE WriteOver(d)
          BY <5>2 DEF WriteOver, RoomInv, TypeInv, TypeOK, Types
        <5>3. CASE Echo(d)
          BY <5>3 DEF Echo, RoomInv, TypeInv, TypeOK, Types
        <5>. QED  BY <3>1, <5>1, <5>2, <5>3
      <4>. QED  BY <4>1, <4>2 DEF Idle
    <3>2. ASSUME NEW d \in Sessions, StartConnect(d) \/ Refused(d)
          PROVE  \A c \in Idle' : c \in Idle /\ out'[c] = out[c]
      BY <3>2 DEF StartConnect, Refused, Idle, RoomInv, TypeInv, TypeOK, Types
    <3>3. ASSUME UNCHANGED <<link, out>>
          PROVE  \A c \in Idle' : c \in Idle /\ out'[c] = out[c]
      BY <3>3 DEF Idle
    <3>. QED
      BY <1>1, <3>1, <3>2, <3>3 DEF Program, TimePasses, ConnectFails, Dispatch, Poll,
         TimeOut, ReadEnds
  <2>5. Serving' => UNCHANGED members
    BY <2>1 DEF Serving
  <2>6. Idle' \subseteq Sessions /\ Idle \subseteq Sessions
    BY DEF Idle
  <2>. QED
    BY <2>1, <2>2, <2>3, <2>4, <2>5, <2>6, HeardKept DEF RoomKnows, RoomInv
<1>2. ASSUME NEW c \in Sessions, Join(c) PROVE RoomKnows' /\ HeardInOrder'
  <2>1. Len(log) \in Nat /\ joined \in [Sessions -> Nat]
    BY DEF RoomInv, TypeInv, Types
  <2>2. Serving /\ heard[c] = <<>> /\ Len(heard[c]) = 0
    BY <1>2 DEF Join, Served, Serving, RoomInv, RoomKnows
  <2>3. RoomKnows'
    BY <1>2, <2>1 DEF Join, RoomInv, RoomKnows, Idle, Serving
  <2>4. \A d \in Sessions : d # c => joined'[d] = joined[d]
    BY <1>2, <2>1 DEF Join
  <2>5. HeardInOrder'
    <3>. SUFFICES ASSUME NEW d \in Sessions PROVE Room_!BeginsFeed(heard[d], d)'
      BY DEF HeardInOrder
    <3>1. CASE d = c
      BY <1>2, <2>2, <3>1 DEF Join, Room_!BeginsFeed
    <3>2. CASE d # c
      BY <1>2, <2>4, <3>2 DEF Join, RoomInv, HeardInOrder, Room_!BeginsFeed, Room_!Feed
    <3>. QED  BY <3>1, <3>2
  <2>. QED  BY <2>3, <2>5
<1>3. ASSUME NEW c \in Sessions, Publish(c) PROVE RoomKnows' /\ HeardInOrder'
  <2>1. /\ log \in Seq(Sessions) /\ Len(log) \in Nat
        /\ \A d \in Sessions : joined[d] \in Nat
        /\ \A d \in Sessions : Len(heard[d]) \in Nat
    BY DEF RoomInv, TypeInv, Types
  <2>2. log' = Append(log, c) /\ Len(log') = Len(log) + 1
        /\ \A n \in 1 .. Len(log) : log'[n] = log[n]
    BY <1>3, <2>1 DEF Publish
  <2>3. RoomKnows'
    BY <1>3, <2>1, <2>2 DEF Publish, RoomInv, RoomKnows, Idle, Serving
  <2>4. \A d \in Sessions : /\ Room_!Feed(d) \subseteq Room_!Feed(d)'
                            /\ \A n \in Room_!Feed(d)' : n \in Room_!Feed(d) \/ n = Len(log) + 1
    BY <1>3, <2>1, <2>2 DEF Publish, Room_!Feed
  <2>5. HeardInOrder'
    <3>. SUFFICES ASSUME NEW d \in Sessions PROVE Room_!BeginsFeed(heard[d], d)'
      BY DEF HeardInOrder
    <3>1. heard' = heard
      BY <1>3 DEF Publish
    <3>2. Room_!BeginsFeed(heard[d], d)
      BY DEF RoomInv, HeardInOrder
    <3>3. \A i \in 1 .. Len(heard[d]) : heard[d][i] \in 1 .. Len(log)
      BY <3>2 DEF Room_!BeginsFeed, Room_!Feed
    <3>4. \A i \in 1 .. Len(heard[d]) : ~ Len(log) + 1 < heard[d][i]
      BY <2>1, <3>3
    <3>. QED  BY <2>4, <3>1, <3>2, <3>4 DEF Room_!BeginsFeed
  <2>. QED  BY <2>3, <2>5
<1>4. ASSUME NEW c \in Sessions, Hear(c) PROVE RoomKnows' /\ HeardInOrder'
  <2>1. /\ c \in members /\ UNCHANGED <<log, members, joined>>
        /\ heard' = [heard EXCEPT ![c] = Append(@, Min(Owed(c)))]
        /\ Room_!BeginsFeed(heard'[c], c)
    BY <1>4, HearNext
  <2>2. \A d \in Sessions : d # c => heard'[d] = heard[d]
    BY <2>1 DEF RoomInv, TypeInv, Types
  <2>3. RoomKnows'
    BY <1>4, <2>1, <2>2 DEF Hear, RoomInv, RoomKnows, Idle, Serving
  <2>4. HeardInOrder'
    <3>. SUFFICES ASSUME NEW d \in Sessions PROVE Room_!BeginsFeed(heard[d], d)'
      BY DEF HeardInOrder
    <3>1. Room_!BeginsFeed(heard'[d], d)
      BY <2>1, <2>2 DEF RoomInv, HeardInOrder
    <3>. QED  BY <2>1, <3>1 DEF Room_!BeginsFeed, Room_!Feed
  <2>. QED  BY <2>3, <2>4
<1>5. ASSUME ServerEnds PROVE RoomKnows' /\ HeardInOrder'
  <2>1. RoomKnows'
    BY <1>5 DEF ServerEnds, RoomInv, RoomKnows, TypeInv, TypeOK, Idle, Serving
  <2>. QED  BY <1>5, <2>1, HeardKept DEF ServerEnds
<1>6. CASE UNCHANGED vars
  BY <1>6, HeardKept DEF vars, RoomInv, RoomKnows, Idle, Serving
<1>. QED  BY <1>1, <1>2, <1>3, <1>4, <1>5, <1>6 DEF Next

-----------------------------------------------------------------------------
(***************************************************************************)
(* The units under way.                                                    *)
(***************************************************************************)
\* EchoesMultiply, while main still opens the sessions too.
Balance ==
  Serving => Circulating + Len(log) = Begun + Total(1 .. Len(log), Copies)

\* The terms of the two sums.
LEMMA OwedFinite ==
  ASSUME RoomInv, NEW c
  PROVE  IsFiniteSet(Owed(c)) /\ Cardinality(Owed(c)) \in Nat
<1>1. Len(log) \in Int /\ 1 \in Int /\ Owed(c) \subseteq 1 .. Len(log)
  BY DEF Owed, RoomInv, TypeInv, Types
<1>2. IsFiniteSet(1 .. Len(log))
  BY <1>1, FS_Interval
<1>3. IsFiniteSet(Owed(c))
  BY <1>1, <1>2, FS_Subset
<1>. QED  BY <1>3, FS_CardinalityType

LEMMA LoadType ==
  ASSUME RoomInv
  PROVE  \A c \in Sessions :
           /\ out[c] \in Nat /\ wire[c] \in Nat /\ Unread(c) \in Nat
           /\ Len(heard[c]) \in Nat /\ got[c] \in Nat
           /\ Load[c] = out[c] + wire[c] + Unread(c) + Cardinality(Owed(c))
           /\ Load[c] \in Nat
<1>. SUFFICES ASSUME NEW c \in Sessions
              PROVE  /\ out[c] \in Nat /\ wire[c] \in Nat /\ Unread(c) \in Nat
                     /\ Len(heard[c]) \in Nat /\ got[c] \in Nat
                     /\ Load[c] = out[c] + wire[c] + Unread(c) + Cardinality(Owed(c))
                     /\ Load[c] \in Nat
  OBVIOUS
<1>1. out[c] \in Nat /\ wire[c] \in Nat /\ Len(heard[c]) \in Nat /\ got[c] \in Nat
  BY DEF RoomInv, TypeInv, Types
<1>2. Unread(c) \in Nat
  BY <1>1 DEF Unread, RoomInv, TypeInv, TypeOK
<1>3. Cardinality(Owed(c)) \in Nat
  BY OwedFinite
<1>. QED  BY <1>1, <1>2, <1>3 DEF Load

LEMMA AudienceFinite ==
  ASSUME RoomInv, NEW n
  PROVE  IsFiniteSet(Audience(n)) /\ Cardinality(Audience(n)) \in Nat
<1>1. Audience(n) \subseteq Sessions
  BY DEF Audience, RoomInv, TypeInv, Types
<1>2. IsFiniteSet(Audience(n))
  BY <1>1, FS_Subset, SessionsAssumption
<1>. QED  BY <1>2, FS_CardinalityType

LEMMA SumsType ==
  ASSUME RoomInv
  PROVE  /\ Circulating \in Nat /\ Total(1 .. Len(log), Copies) \in Nat
         /\ Begun \in Nat /\ Len(log) \in Nat
<1>1. Circulating \in Nat
  BY LoadType, PairsFinite, SessionsAssumption DEF Circulating
<1>2. Len(log) \in Nat
  BY DEF RoomInv, TypeInv, Types
<1>3. \A n \in 1 .. Len(log) : Copies[n] \in Nat
  BY AudienceFinite DEF Copies
<1>4. IsFiniteSet(1 .. Len(log))
  <2>1. 1 \in Int /\ Len(log) \in Int
    BY <1>2
  <2>. QED  BY <2>1, FS_Interval
<1>5. Total(1 .. Len(log), Copies) \in Nat
  BY <1>3, <1>4, PairsFinite
<1>6. Begun \in Nat
  <2>1. IsFiniteSet(Sessions \ Idle)
    BY SessionsAssumption, FS_Difference
  <2>2. Cardinality(Sessions \ Idle) \in Nat
    BY <2>1, FS_CardinalityType
  <2>. QED  BY <2>2, BoundsAssumption DEF Begun
<1>. QED  BY <1>1, <1>2, <1>5, <1>6

LEMMA BalanceInit == Init => Balance
<1>. SUFFICES ASSUME Init PROVE Balance
  OBVIOUS
<1>1. Len(log) = 0 /\ Idle = Sessions
  BY DEF Init, Idle
<1>2. \A c \in Sessions : Load[c] = 0
  <2>. SUFFICES ASSUME NEW c \in Sessions PROVE Load[c] = 0
    OBVIOUS
  <2>1. Owed(c) = {} /\ Unread(c) = 0
    BY <1>1 DEF Init, Owed, Unread
  <2>2. Cardinality(Owed(c)) = 0
    BY <2>1, FS_EmptySet
  <2>3. out[c] = 0 /\ wire[c] = 0
    BY DEF Init
  <2>4. Load[c] = out[c] + wire[c] + Unread(c) + Cardinality(Owed(c))
    BY DEF Load
  <2>. QED  BY <2>1, <2>2, <2>3, <2>4
<1>3. Circulating = 0
  BY <1>2, TotalZero DEF Circulating
<1>4. Begun = 0
  <2>1. Sessions \ Idle = {}
    BY <1>1
  <2>2. Cardinality(Sessions \ Idle) = 0
    BY <2>1, FS_EmptySet
  <2>. QED  BY <2>2, BoundsAssumption DEF Begun
<1>5. Total(1 .. Len(log), Copies) = 0
  BY <1>1, TotalZero
<1>. QED  BY <1>1, <1>3, <1>4, <1>5 DEF Balance

\* A step that the room has no part in.
LEMMA OwedKept ==
  ASSUME UNCHANGED room
  PROVE  /\ \A c : Owed(c)' = Owed(c)
         /\ \A n : Audience(n)' = Audience(n)
         /\ Copies' = Copies
<1>. USE DEF room
<1>1. \A c : Owed(c)' = Owed(c)
  BY DEF Owed, Given
<1>2. \A n : Audience(n)' = Audience(n)
  BY DEF Audience
<1>. QED  BY <1>1, <1>2 DEF Copies

\* A step that moves units from one place to the next.
LEMMA BalanceKept ==
  ASSUME Balance, Serving' => Serving, UNCHANGED log,
         \A c \in Sessions : Load'[c] = Load[c],
         \A n \in 1 .. Len(log) : Copies'[n] = Copies[n],
         Serving => Idle' = Idle
  PROVE  Balance'
<1>1. Circulating' = Circulating
  BY TotalSame DEF Circulating
<1>2. Total(1 .. Len(log), Copies)' = Total(1 .. Len(log), Copies)
  BY TotalSame
<1>. QED  BY <1>1, <1>2 DEF Balance, Begun

\* A session starts with a block in its buffer.
LEMMA StartBalances ==
  ASSUME RoomInv, RoomInv', Balance, NEW c \in Sessions, StartConnect(c)
  PROVE  Balance'
<1>. USE DEF loop
<1>0. UNCHANGED <<log, wire, got, heard, pc, open>> /\ c \in Idle
      /\ out' = [out EXCEPT ![c] = Block]
  BY DEF StartConnect, room
<1>1. /\ \A d \in Sessions : Owed(d)' = Owed(d)
      /\ \A n \in 1 .. Len(log) : Copies'[n] = Copies[n]
  BY OwedKept DEF StartConnect
<1>2. Load'[c] = Load[c] + Block /\ \A d \in Sessions \ {c} : Load'[d] = Load[d]
  <2>1. \A d \in Sessions : Load'[d] = out'[d] + wire[d] + Unread(d) + Cardinality(Owed(d))
    BY <1>0, <1>1 DEF Load, Unread
  <2>2. out'[c] = Block /\ out[c] = 0 /\ \A d \in Sessions \ {c} : out'[d] = out[d]
    BY <1>0 DEF RoomInv, RoomKnows, TypeInv, Types
  <2>3. Block \in Nat
    BY BoundsAssumption
  <2>4. \A d \in Sessions :
          /\ Load[d] = out[d] + wire[d] + Unread(d) + Cardinality(Owed(d))
          /\ out[d] \in Nat /\ wire[d] \in Nat /\ Unread(d) \in Nat
          /\ Cardinality(Owed(d)) \in Nat
    BY LoadType, OwedFinite
  <2>5. Load'[c] = Load[c] + Block
    BY <2>1, <2>2, <2>3, <2>4
  <2>6. \A d \in Sessions \ {c} : Load'[d] = Load[d]
    BY <2>1, <2>2, <2>4
  <2>. QED  BY <2>5, <2>6
<1>3. Circulating' = Circulating + Block
  <2>. DEFINE f == Load
              g == Load'
  <2>1. /\ \A d \in Sessions : f[d] \in Nat
        /\ g[c] = f[c] + Block /\ \A d \in Sessions \ {c} : g[d] = f[d]
        /\ Block \in Nat
    BY <1>2, LoadType, BoundsAssumption
  <2>. HIDE DEF f, g
  <2>2. \A d \in Sessions : g[d] \in Nat
    BY <2>1
  <2>3. Total(Sessions, g) + f[c] = Total(Sessions, f) + g[c]
    BY <2>1, <2>2, TotalOne, SessionsAssumption
  <2>4. Total(Sessions, f) \in Nat /\ Total(Sessions, g) \in Nat
    BY <2>1, <2>2, PairsFinite, SessionsAssumption
  <2>5. Total(Sessions, g) = Total(Sessions, f) + Block
    BY <2>1, <2>3, <2>4
  <2>. QED  BY <2>5 DEF Circulating, f, g
<1>4. Begun' = Begun + Block
  <2>. DEFINE S == Sessions \ Idle
  <2>1. (Sessions \ Idle)' = S \cup {c} /\ c \notin S
    BY <1>0 DEF StartConnect, Idle, RoomInv, TypeInv, TypeOK
  <2>2. IsFiniteSet(S)
    BY SessionsAssumption, FS_Difference
  <2>. HIDE DEF S
  <2>3. Cardinality(S \cup {c}) = Cardinality(S) + 1 /\ Cardinality(S) \in Nat
    BY <2>1, <2>2, FS_AddElement, FS_CardinalityType
  <2>4. Block * (Cardinality(S) + 1) = Block * Cardinality(S) + Block
    BY <2>3, BoundsAssumption
  <2>. QED  BY <2>1, <2>3, <2>4 DEF Begun, S
<1>5. Total(1 .. Len(log), Copies)' = Total(1 .. Len(log), Copies)
  BY <1>0, <1>1, TotalSame
<1>6. Block \in Nat
  BY BoundsAssumption
<1>7. /\ Circulating \in Nat /\ Total(1 .. Len(log), Copies) \in Nat
      /\ Begun \in Nat /\ Len(log) \in Nat
  BY SumsType
<1>8. Serving' => Circulating + Len(log) = Begun + Total(1 .. Len(log), Copies)
  BY <1>0 DEF Balance, Serving
<1>9. Serving' => Circulating' + Len(log)' = Begun' + Total(1 .. Len(log), Copies)'
  BY <1>0, <1>3, <1>4, <1>5, <1>6, <1>7, <1>8
<1>. QED  BY <1>9 DEF Balance

\* The program moves a unit from one place to the next: from the output buffer
\* to the wire, or from what was heard to the output buffer (readcb).
LEMMA MoveBalances ==
  ASSUME RoomInv, RoomInv', Balance, NEW c \in Sessions, Write(c) \/ Echo(c)
  PROVE  Balance'
<1>. USE DEF loop, room
<1>1. UNCHANGED <<log, members, joined, heard, open, pc>>
  BY DEF Write, Echo
<1>2. /\ \A d \in Sessions : Owed(d)' = Owed(d)
      /\ \A n \in 1 .. Len(log) : Copies'[n] = Copies[n]
  BY <1>1, OwedKept
<1>3. \A d \in Sessions : Load'[d] = out'[d] + wire'[d] + Unread(d)' + Cardinality(Owed(d))
  BY <1>2 DEF Load
<1>4. \A d \in Sessions : out'[d] + wire'[d] + Unread(d)' = out[d] + wire[d] + Unread(d)
  <2>1. ASSUME Write(c)
        PROVE  \A d \in Sessions :
                 out'[d] + wire'[d] + Unread(d)' = out[d] + wire[d] + Unread(d)
    <3>1. PICK n \in 1 .. MaxMove :
            /\ n <= out[c]
            /\ out' = [out EXCEPT ![c] = @ - n]
            /\ wire' = [wire EXCEPT ![c] = @ + n]
      BY <2>1 DEF Write
    <3>2. n \in Nat
      BY BoundsAssumption
    <3>3. /\ out'[c] = out[c] - n /\ wire'[c] = wire[c] + n
          /\ \A d \in Sessions \ {c} : out'[d] = out[d] /\ wire'[d] = wire[d]
      BY <3>1 DEF RoomInv, TypeInv, Types
    <3>4. \A d \in Sessions : Unread(d)' = Unread(d)
      BY <1>1, <2>1 DEF Write, Unread
    <3>5. out[c] \in Nat /\ wire[c] \in Nat /\ Unread(c) \in Nat
      BY LoadType
    <3>6. out'[c] + wire'[c] + Unread(c)' = out[c] + wire[c] + Unread(c)
      BY <3>2, <3>3, <3>4, <3>5
    <3>. QED  BY <3>3, <3>4, <3>6
  <2>2. ASSUME Echo(c)
        PROVE  \A d \in Sessions :
                 out'[d] + wire'[d] + Unread(d)' = out[d] + wire[d] + Unread(d)
    <3>1. PICK n \in 1 .. MaxMove :
            /\ n <= Unread(c)
            /\ got' = [got EXCEPT ![c] = @ + n]
            /\ out' = [out EXCEPT ![c] = Moved(c, n)]
      BY <2>2 DEF Echo
    <3>2. n \in Nat
      BY BoundsAssumption
    <3>3. /\ got'[c] = got[c] + n /\ out'[c] = out[c] + n
          /\ \A d \in Sessions \ {c} : got'[d] = got[d] /\ out'[d] = out[d]
      BY <3>1 DEF Moved, RoomInv, TypeInv, Types
    <3>4. wire' = wire
      BY <2>2 DEF Echo
    <3>5. \A d \in Sessions : /\ Unread(d) = Len(heard[d]) - got[d]
                              /\ Unread(d)' = Len(heard[d]) - got'[d]
      BY <1>1 DEF Unread
    <3>6. /\ out[c] \in Nat /\ wire[c] \in Nat /\ Len(heard[c]) \in Nat /\ got[c] \in Nat
      BY LoadType
    <3>7. out'[c] + wire'[c] + Unread(c)' = out[c] + wire[c] + Unread(c)
      BY <3>2, <3>3, <3>4, <3>5, <3>6
    <3>. QED  BY <3>3, <3>4, <3>5, <3>7
  <2>. QED  BY <2>1, <2>2
<1>5. \A d \in Sessions : Load'[d] = Load[d]
  BY <1>3, <1>4, LoadType
<1>6. Serving => Idle' = Idle
  <2>1. <<c, "write">> \in active \/ <<c, "read">> \in active
    BY DEF Write, Echo, Runs
  <2>2. link[c] # "idle"
    BY <2>1 DEF RoomInv, TypeInv, TypeOK
  <2>3. link'[c] # "idle" /\ \A d \in Sessions \ {c} : link'[d] = link[d]
    BY <2>2 DEF Write, Echo, RoomInv, TypeInv, TypeOK
  <2>. QED  BY <2>2, <2>3 DEF Idle
<1>. QED  BY <1>1, <1>2, <1>5, <1>6, BalanceKept DEF Serving

\* A step that moves no unit while the server is there.
LEMMA RestBalances ==
  ASSUME RoomInv, Balance, UNCHANGED <<log, joined, heard, got, wire>>,
         Serving' => Serving /\ UNCHANGED <<out, members>> /\ Idle' = Idle
  PROVE  Balance'
<1>. SUFFICES ASSUME Serving' PROVE Balance'
  BY DEF Balance
<1>1. UNCHANGED <<out, members>> /\ Serving /\ Idle' = Idle
  OBVIOUS
<1>2. /\ \A d \in Sessions : Owed(d)' = Owed(d)
      /\ \A n \in 1 .. Len(log) : Copies'[n] = Copies[n]
  BY <1>1, OwedKept DEF room
<1>3. \A d \in Sessions : Load'[d] = Load[d]
  BY <1>1, <1>2 DEF Load, Unread
<1>. QED  BY <1>1, <1>2, <1>3, BalanceKept

LEMMA ProgramBalances ==
  ASSUME RoomInv, RoomInv', Balance, Program \/ TimePasses
  PROVE  Balance'
<1>. USE DEF loop, room
<1>1. UNCHANGED <<log, joined, heard, open>>
  BY ProgramInRoom
<1>2. ASSUME ConnectFails \/ Dispatch \/ Poll \/ TimeOut \/ TimePasses PROVE Balance'
  BY <1>1, <1>2, RestBalances
  DEF ConnectFails, Dispatch, Poll, TimeOut, TimePasses, Serving, Idle
<1>3. ASSUME NEW c \in Sessions, ReadEnds(c) PROVE Balance'
  BY <1>1, <1>3, RestBalances DEF ReadEnds, Serving, Idle
<1>4. ASSUME NEW c \in Sessions, Refused(c) \/ WriteOver(c) PROVE Balance'
  <2>1. ~ open
    BY <1>4 DEF Refused, WriteOver, RoomInv, RoomKnows
  <2>. QED  BY <1>1, <2>1 DEF Balance, Serving
<1>. QED  BY <1>2, <1>3, <1>4, StartBalances, MoveBalances DEF Program

\* A session that joins is owed nothing, and no unit before was meant for it.
LEMMA JoinBalances ==
  ASSUME RoomInv, Balance, NEW c \in Sessions, Join(c)
  PROVE  Balance'
<1>. USE DEF loop, client
<1>1. /\ members' = members \cup {c} /\ c \notin members
      /\ UNCHANGED <<log, out, wire, got, heard, pc, open, link>>
  BY DEF Join
<1>2. /\ Len(log) \in Nat /\ joined'[c] = Len(log)
      /\ \A d \in Sessions \ {c} : joined'[d] = joined[d]
  BY DEF Join, RoomInv, TypeInv, Types
<1>3. \A d \in Sessions : Owed(d)' = Owed(d)
  <2>1. Owed(c) = {} /\ Owed(c)' = {}
    BY <1>1, <1>2 DEF Owed
  <2>2. \A d \in Sessions \ {c} : Owed(d)' = Owed(d)
    BY <1>1, <1>2 DEF Owed, Given
  <2>. QED  BY <2>1, <2>2
<1>4. \A n \in 1 .. Len(log) : Audience(n)' = Audience(n)
  <2>1. members \subseteq Sessions
    BY DEF RoomInv, TypeInv, Types
  <2>. QED  BY <1>1, <1>2, <2>1 DEF Audience
<1>5. \A n \in 1 .. Len(log) : Copies'[n] = Copies[n]
  BY <1>1, <1>4 DEF Copies
<1>6. \A d \in Sessions : Load'[d] = Load[d]
  BY <1>1, <1>3 DEF Load, Unread
<1>7. Idle' = Idle
  BY <1>1 DEF Idle
<1>. QED  BY <1>1, <1>5, <1>6, <1>7, BalanceKept DEF Serving

\* What the server writes to a member is no longer owed to it, and unread.
LEMMA HearBalances ==
  ASSUME RoomInv, Balance, NEW c \in Sessions, Hear(c)
  PROVE  Balance'
<1>. USE DEF loop, client
<1>1. /\ c \in members /\ UNCHANGED <<log, members, joined>>
      /\ heard' = [heard EXCEPT ![c] = Append(@, Min(Owed(c)))]
      /\ Given(c)' = Given(c) \cup {Min(Owed(c))}
      /\ Len(heard'[c]) = Len(heard[c]) + 1
  BY HearNext
<1>2. UNCHANGED <<out, wire, got, pc, open, link>> /\ Owed(c) # {}
  BY DEF Hear
<1>3. \A d \in Sessions \ {c} : heard'[d] = heard[d]
  BY <1>1 DEF RoomInv, TypeInv, Types
<1>4. \A d \in Sessions \ {c} : Load'[d] = Load[d]
  BY <1>1, <1>2, <1>3 DEF Load, Unread, Owed, Given
<1>5. Load'[c] = Load[c]
  <2>1. Owed(c)' = Owed(c) \ {Min(Owed(c))}
    BY <1>1 DEF Owed
  <2>2. Cardinality(Owed(c)') = Cardinality(Owed(c)) - 1
    BY <1>2, <2>1, OwedFinite, OwedHasLeast, FS_RemoveElement
  <2>3. Unread(c)' = Unread(c) + 1
    BY <1>1, <1>2, LoadType DEF Unread
  <2>4. Load'[c] = out[c] + wire[c] + Unread(c)' + Cardinality(Owed(c)')
    BY <1>2 DEF Load
  <2>5. /\ out[c] \in Nat /\ wire[c] \in Nat /\ Unread(c) \in Nat
        /\ Load[c] = out[c] + wire[c] + Unread(c) + Cardinality(Owed(c))
        /\ Cardinality(Owed(c)) \in Nat
    BY LoadType, OwedFinite
  <2>. QED  BY <2>2, <2>3, <2>4, <2>5
<1>6. Copies' = Copies
  BY <1>1 DEF Copies, Audience
<1>7. Idle' = Idle
  BY <1>2 DEF Idle
<1>. QED  BY <1>1, <1>2, <1>4, <1>5, <1>6, <1>7, BalanceKept DEF Serving

\* A unit that the server reads is off the wire, and owed to its audience: the
\* others in the room.
LEMMA PublishBalances ==
  ASSUME RoomInv, RoomInv', Balance, NEW c \in Sessions, Publish(c)
  PROVE  Balance'
<1>. USE DEF loop, client
<1>. DEFINE H == members \ {c}
<1>0. PICK L \in Nat : L = Len(log)
  BY DEF RoomInv, TypeInv, Types
<1>1. /\ UNCHANGED <<out, got, pc, open, link, members, joined, heard>>
      /\ wire' = [wire EXCEPT ![c] = @ - 1] /\ wire[c] > 0 /\ c \in members
  BY DEF Publish
<1>2. /\ log \in Seq(Sessions) /\ Len(log) = L /\ members \subseteq Sessions
      /\ \A d \in Sessions : joined[d] \in Nat /\ joined[d] <= L
  BY <1>0 DEF RoomInv, RoomKnows, TypeInv, Types
<1>3. /\ Len(log') = L + 1 /\ log'[L + 1] = c
      /\ \A n \in 1 .. L : log'[n] = log[n]
  BY <1>0, <1>2 DEF Publish
<1>4. H \subseteq Sessions /\ IsFiniteSet(H) /\ Cardinality(H) \in Nat
  BY <1>2, FS_Subset, FS_CardinalityType, SessionsAssumption
<1>5. \A d \in Sessions : Cardinality(Owed(d))' =
        IF d \in H THEN Cardinality(Owed(d)) + 1 ELSE Cardinality(Owed(d))
  <2>. SUFFICES ASSUME NEW d \in Sessions
                PROVE  Cardinality(Owed(d))' =
                         IF d \in H THEN Cardinality(Owed(d)) + 1 ELSE Cardinality(Owed(d))
    OBVIOUS
  <2>1. L + 1 \notin Given(d)
    <3>1. Room_!BeginsFeed(heard[d], d)
      BY DEF RoomInv, HeardInOrder
    <3>2. Given(d) \subseteq 1 .. L
      BY <1>2, <3>1 DEF Given, Room_!BeginsFeed, Room_!Feed
    <3>. QED  BY <1>2, <3>2
  <2>2. Given(d)' = Given(d) /\ L + 1 \notin Owed(d)
    BY <1>1, <1>2 DEF Given, Owed
  <2>3. 1 .. L + 1 = (1 .. L) \cup {L + 1}
    BY <1>2
  <2>4. CASE d \in H
    <3>1. Owed(d)' = Owed(d) \cup {L + 1}
      BY <1>1, <1>2, <1>3, <2>1, <2>2, <2>3, <2>4 DEF Owed
    <3>. QED  BY <2>2, <2>4, <3>1, OwedFinite, FS_AddElement
  <2>5. CASE d \notin H
    <3>1. Owed(d)' = Owed(d)
      BY <1>1, <1>2, <1>3, <2>2, <2>3, <2>5 DEF Owed
    <3>. QED  BY <2>5, <3>1
  <2>. QED  BY <2>4, <2>5
<1>6. Circulating' \in Nat /\ Circulating' + 1 = Circulating + Cardinality(H)
  <2>. DEFINE f == Load
              e == [Load EXCEPT ![c] = @ - 1]
              g == Load'
  <2>1. \A d \in Sessions : /\ f[d] = out[d] + wire[d] + Unread(d) + Cardinality(Owed(d))
                            /\ out[d] \in Nat /\ wire[d] \in Nat /\ Unread(d) \in Nat
                            /\ Cardinality(Owed(d)) \in Nat /\ f[d] \in Nat
    BY LoadType, OwedFinite
  <2>2. /\ \A d \in Sessions \ {c} : e[d] = f[d]
        /\ e[c] = f[c] - 1
    BY DEF Load
  <2>3. \A d \in Sessions : g[d] = out[d] + wire'[d] + Unread(d) + Cardinality(Owed(d))'
    BY <1>1 DEF Load, Unread
  <2>4. wire'[c] = wire[c] - 1 /\ \A d \in Sessions \ {c} : wire'[d] = wire[d]
    BY <1>1 DEF RoomInv, TypeInv, Types
  <2>. HIDE DEF f, e, g
  <2>5. e[c] \in Nat /\ \A d \in Sessions : e[d] \in Nat
    BY <1>1, <2>1, <2>2
  <2>6. \A d \in Sessions : g[d] = IF d \in H THEN e[d] + 1 ELSE e[d]
    <3>1. g[c] = e[c]
      BY <1>1, <1>5, <2>1, <2>2, <2>3, <2>4
    <3>2. \A d \in Sessions \ {c} : g[d] = IF d \in H THEN e[d] + 1 ELSE e[d]
      BY <1>5, <2>1, <2>2, <2>3, <2>4
    <3>. QED  BY <3>1, <3>2
  <2>7. Total(Sessions, e) + f[c] = Total(Sessions, f) + e[c]
    BY <2>1, <2>2, <2>5, TotalOne, SessionsAssumption
  <2>8. Total(Sessions, g) = Total(Sessions, e) + Cardinality(H)
    <3>. HIDE DEF H
    <3>. QED  BY <1>4, <2>5, <2>6, TotalAdd, SessionsAssumption
  <2>9. Total(Sessions, e) \in Nat /\ Total(Sessions, f) \in Nat
    BY <2>1, <2>5, PairsFinite, SessionsAssumption
  <2>10. Circulating = Total(Sessions, f) /\ Circulating' = Total(Sessions, g)
    BY DEF Circulating, f, g
  <2>11. Total(Sessions, e) + Cardinality(H) \in Nat
    BY <1>4, <2>9
  <2>. HIDE DEF H
  <2>. QED  BY <1>4, <2>1, <2>2, <2>7, <2>8, <2>9, <2>10, <2>11
<1>7. Total(1 .. Len(log), Copies)' = Total(1 .. Len(log), Copies) + Cardinality(H)
  <2>. DEFINE S == 1 .. L + 1
              f == Copies'
  <2>1. \A n \in 1 .. L : Audience(n)' = Audience(n)
    BY <1>1, <1>3 DEF Audience
  <2>2. Audience(L + 1)' = H
    <3>1. Audience(L + 1)' = { d \in members : joined[d] < L + 1 /\ c # d }
      BY <1>1, <1>3 DEF Audience
    <3>2. \A d \in members : joined[d] < L + 1
      BY <1>2
    <3>. QED  BY <3>1, <3>2
  <2>3. /\ \A n \in 1 .. L : f[n] = Copies[n] /\ Copies[n] \in Nat
        /\ f[L + 1] = Cardinality(H)
    <3>1. 1 .. Len(log') = 1 .. L + 1 /\ L + 1 \in 1 .. L + 1
          /\ \A n \in 1 .. L : n \in 1 .. L + 1
      BY <1>2, <1>3
    <3>2. f = [n \in 1 .. Len(log') |-> Cardinality(Audience(n)')]
      BY DEF Copies
    <3>3. \A n \in 1 .. L : Copies[n] = Cardinality(Audience(n)) /\ Copies[n] \in Nat
      BY <1>2, AudienceFinite DEF Copies
    <3>. HIDE DEF f
    <3>4. \A n \in 1 .. L : f[n] = Cardinality(Audience(n)')
      BY <3>1, <3>2
    <3>5. f[L + 1] = Cardinality(Audience(L + 1)')
      BY <3>1, <3>2
    <3>. QED  BY <2>1, <2>2, <3>3, <3>4, <3>5
  <2>4. L + 1 \in S /\ S \ {L + 1} = 1 .. L
    BY <1>2
  <2>5. IsFiniteSet(S)
    <3>1. 1 \in Int /\ L + 1 \in Int
      BY <1>2
    <3>. QED  BY <3>1, FS_Interval
  <2>. HIDE DEF f, S
  <2>6. \A n \in S : f[n] \in Nat
    BY <1>4, <2>3, <2>4
  <2>7. Total(S, f) = Total(S \ {L + 1}, f) + f[L + 1]
    BY <2>4, <2>5, <2>6, TotalSplit
  <2>8. Total(1 .. L, f) = Total(1 .. L, Copies)
    BY <2>3, TotalSame
  <2>9. Total(1 .. Len(log), Copies)' = Total(S, f)
    BY <1>3 DEF S, f
  <2>10. Total(1 .. Len(log), Copies) = Total(1 .. L, Copies)
    BY <1>2
  <2>. QED  BY <2>3, <2>4, <2>7, <2>8, <2>9, <2>10
<1>8. /\ Circulating \in Nat /\ Total(1 .. Len(log), Copies) \in Nat
      /\ Begun \in Nat
  BY SumsType
<1>9. Serving' => Circulating + L = Begun + Total(1 .. Len(log), Copies)
  BY <1>0, <1>1 DEF Balance, Serving
<1>10. Begun' = Begun
  BY <1>1 DEF Begun, Idle
<1>11. Serving' => Circulating' + (L + 1) = Begun + Total(1 .. Len(log), Copies)'
  <2>. SUFFICES ASSUME Serving'
                PROVE  Circulating' + (L + 1) = Begun + Total(1 .. Len(log), Copies)'
    OBVIOUS
  <2>. DEFINE x == Circulating
              y == Circulating'
              z == Begun
              t == Total(1 .. Len(log), Copies)
              u == Total(1 .. Len(log), Copies)'
              h == Cardinality(H)
  <2>1. x + L = z + t /\ y + 1 = x + h /\ u = t + h
    BY <1>6, <1>7, <1>9
  <2>2. x \in Nat /\ y \in Nat /\ z \in Nat /\ t \in Nat /\ h \in Nat /\ L \in Nat
    BY <1>0, <1>4, <1>6, <1>8
  <2>. HIDE DEF x, y, z, t, u, h
  <2>3. y + (L + 1) = z + u
    BY <2>1, <2>2
  <2>. QED  BY <2>3 DEF x, y, z, u
<1>. QED  BY <1>3, <1>10, <1>11 DEF Balance

LEMMA BalanceNext == RoomInv /\ RoomInv' /\ Balance /\ [Next]_vars => Balance'
<1>. SUFFICES ASSUME RoomInv, RoomInv', Balance, [Next]_vars PROVE Balance'
  OBVIOUS
<1>. USE DEF loop, room, client
<1>1. ASSUME ServerEnds PROVE Balance'
  BY <1>1 DEF ServerEnds, Balance, Serving
<1>2. ASSUME UNCHANGED vars PROVE Balance'
  BY <1>2, RestBalances DEF vars, Serving, Idle
<1>. QED
  BY <1>1, <1>2, ProgramBalances, JoinBalances, HearBalances, PublishBalances DEF Next

\* While the server is there the echoes keep their number but for the copies
\* that the server makes: with one session they die out, with two they go on,
\* with more they multiply (readcb, fireTestClient.c:29-40).
THEOREM EchoesAreCounted == Spec => []EchoesMultiply
<1>1. Balance => EchoesMultiply
  BY DEF Balance, EchoesMultiply, Served, Serving
<1>2. RoomInv => TypeInv
  BY DEF RoomInv
<1>. QED
  BY <1>1, <1>2, RoomInit, RoomNext, TypeNext, BalanceInit, BalanceNext, PTL DEF Spec

=============================================================================
