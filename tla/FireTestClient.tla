---------------------------- MODULE FireTestClient ----------------------------
(***************************************************************************)
(* fireTestClient.c in the room of Broadcast: one program with several     *)
(* sessions, each of which sends a block and then echoes all it hears, so  *)
(* that the sessions hear each other's echoes, until a timer ends the      *)
(* loop and the counters are printed.                                      *)
(*                                                                         *)
(* The server is what Broadcast promises (FireServer implements it), with  *)
(* the bytes on their way to it.                                           *)
(***************************************************************************)
EXTENDS Naturals, Sequences, FiniteSets, FiniteSetsExt

CONSTANTS
  Sessions,  \* the sessions of the command line
  Block,     \* block size, in units
  MaxMove,   \* the most units that one read or write moves
  MaxLog     \* bound: units that are said in the room

ASSUME SessionsAssumption == IsFiniteSet(Sessions)
ASSUME BoundsAssumption ==
  {Block, MaxMove} \subseteq Nat \ {0} /\ MaxLog \in Nat

VARIABLES
  pc,        \* where main is
  link,      \* each session's connection, as its kernel sees it
  enabled,   \* the directions in which its events are added
  out,       \* units in its output buffer
  got,       \* how many of the units in heard have been read
  active,    \* the callbacks to run
  timer,     \* evtimeout
  counted,   \* total_bytes_read, in units
  open,      \* whether the server is there
  wire,      \* units sent and not yet read by the server
  log, members, joined, heard   \* the room

loop == <<pc, enabled, active, timer>>
room == <<log, members, joined, heard>>
vars == <<loop, link, out, got, counted, open, wire, room>>

Unread(c) == Len(heard[c]) - got[c]

Init ==
  /\ pc = "setup"
  /\ link = [c \in Sessions |-> "idle"]
  /\ enabled = [c \in Sessions |-> {}]
  /\ out = [c \in Sessions |-> 0]
  /\ got = [c \in Sessions |-> 0]
  /\ active = {}
  /\ timer = "armed"
  /\ counted = 0
  /\ open \in BOOLEAN
  /\ wire = [c \in Sessions |-> 0]
  /\ log = <<>>
  /\ members = {}
  /\ joined = [c \in Sessions |-> 0]
  /\ heard = [c \in Sessions |-> <<>>]

-----------------------------------------------------------------------------
(***************************************************************************)
(* main, up to event_base_dispatch.                                        *)
(***************************************************************************)
Idle == { c \in Sessions : link[c] = "idle" }

\* connect on a non-blocking socket only begins.
StartConnect(c) ==
  /\ pc = "setup"
  /\ c \in Idle
  /\ link' = [link EXCEPT ![c] = "connecting"]
  /\ enabled' = [enabled EXCEPT ![c] = {"read", "write"}]
  /\ out' = [out EXCEPT ![c] = Block]
  /\ UNCHANGED <<pc, active, timer, got, counted, open, wire, room>>

\* "error connect": no descriptor, or no port, for another socket.
ConnectFails ==
  /\ pc = "setup"
  /\ Idle # {}
  /\ pc' = "failed"
  /\ UNCHANGED <<enabled, active, timer, link, out, got, counted, open, wire, room>>

Dispatch ==
  /\ pc = "setup"
  /\ Idle = {}
  /\ pc' = "loop"
  /\ UNCHANGED <<enabled, active, timer, link, out, got, counted, open, wire, room>>

-----------------------------------------------------------------------------
(***************************************************************************)
(* The loop.                                                               *)
(***************************************************************************)
Up(c) == link[c] \in {"estab", "over"}

\* A connection that is being made may be made, or refused, by the next poll.
Ready(c) ==
  { d \in enabled[c] :
      \/ d = "write" /\ link[c] = "connecting"
      \/ d = "write" /\ Up(c) /\ out[c] > 0
      \/ d = "read"  /\ Up(c) /\ Unread(c) > 0
      \/ d = "read"  /\ link[c] = "over" }

Pollable == UNION { {<<c, d>> : d \in Ready(c)} : c \in Sessions }
Undecided == { c \in Sessions : link[c] = "connecting" }

\* Timers are looked at after the sockets, and their callbacks come last.
Poll ==
  /\ pc = "loop"
  /\ active = {}
  /\ timer # "active"
  /\ \E late \in SUBSET Undecided :
       active' = Pollable \ (late \X {"write"})
  /\ timer' = IF timer = "due" THEN "active" ELSE timer
  /\ active' # {} \/ timer' = "active"
  /\ UNCHANGED <<pc, enabled, link, out, got, counted, open, wire, room>>

TimePasses ==
  /\ pc = "loop"
  /\ timer = "armed"
  /\ timer' = "due"
  /\ UNCHANGED <<pc, enabled, active, link, out, got, counted, open, wire, room>>

Runs(c, d) == pc = "loop" /\ <<c, d>> \in active
Done(c, ds) == active' = active \ ({c} \X ds)

\* bufferevent_writecb with eventcb in it.  The callback that finds the
\* connection made goes on to write.
Write(c) ==
  /\ Runs(c, "write")
  /\ link[c] = "estab" \/ (link[c] = "connecting" /\ open)
  /\ link' = [link EXCEPT ![c] = "estab"]
  /\ \E n \in 1 .. MaxMove :
       /\ n <= out[c]
       /\ out' = [out EXCEPT ![c] = @ - n]
       /\ wire' = [wire EXCEPT ![c] = @ + n]
  /\ Done(c, {"write"})
  /\ UNCHANGED <<pc, enabled, timer, got, counted, open, room>>

\* "NOT Connected": the events are deleted, and nothing else happens.
Refused(c) ==
  /\ Runs(c, "write")
  /\ link[c] = "connecting" /\ ~open
  /\ link' = [link EXCEPT ![c] = "refused"]
  /\ enabled' = [enabled EXCEPT ![c] = {}]
  /\ Done(c, {"read", "write"})
  /\ UNCHANGED <<pc, timer, out, got, counted, open, wire, room>>

\* After the end of the server a write is taken and lost, or fails, or raises
\* SIGPIPE, by what has been answered to earlier ones.
WriteOver(c) ==
  /\ Runs(c, "write")
  /\ link[c] = "over"
  /\ \/ /\ out' = [out EXCEPT ![c] = 0]
        /\ UNCHANGED <<pc, enabled>>
     \/ /\ enabled' = [enabled EXCEPT ![c] = @ \ {"write"}]
        /\ UNCHANGED <<pc, out>>
     \/ /\ pc' = "failed"
        /\ UNCHANGED <<enabled, out>>
  /\ Done(c, {"write"})
  /\ UNCHANGED <<timer, link, got, counted, open, wire, room>>

\* readcb: all that was read is counted and moved to the output buffer, which
\* then holds it alone.
MovedOver(c, n) == n
Moved(c, n) == out[c] + n
Echo(c) ==
  /\ Runs(c, "read")
  /\ \E n \in 1 .. MaxMove :
       /\ n <= Unread(c)
       /\ got' = [got EXCEPT ![c] = @ + n]
       /\ counted' = counted + n
       /\ out' = [out EXCEPT ![c] = Moved(c, n)]
  /\ Done(c, {"read"})
  /\ UNCHANGED <<pc, enabled, timer, link, open, wire, room>>

\* The end of the connection: reading is disabled, eventcb does nothing.
ReadEnds(c) ==
  /\ Runs(c, "read")
  /\ Unread(c) = 0
  /\ enabled' = [enabled EXCEPT ![c] = @ \ {"read"}]
  /\ Done(c, {"read"})
  /\ UNCHANGED <<pc, timer, link, out, got, counted, open, wire, room>>

\* timeoutcb, and the callback of event_base_loopexit behind it: the loop ends
\* and the sessions are freed, with what is in their buffers.
TimeOutKeepsOn ==
  /\ pc = "loop" /\ active = {} /\ timer = "active"
  /\ timer' = "done"
  /\ UNCHANGED <<pc, enabled, active, link, out, got, counted, open, wire, room>>
TimeOut ==
  /\ pc = "loop"
  /\ active = {}
  /\ timer = "active"
  /\ timer' = "done"
  /\ pc' = "ended"
  /\ members' = {}
  /\ UNCHANGED <<enabled, active, link, out, got, counted, open, wire, log, joined, heard>>

Program ==
  \/ ConnectFails \/ Dispatch \/ Poll \/ TimeOut
  \/ \E c \in Sessions :
       StartConnect(c) \/ Write(c) \/ Refused(c) \/ WriteOver(c) \/ Echo(c) \/ ReadEnds(c)

-----------------------------------------------------------------------------
(***************************************************************************)
(* The server: the steps of Broadcast, a unit at a time.  They are the     *)
(* program's environment, and no property is about them.                   *)
(***************************************************************************)
client == <<loop, link, out, got, counted>>

Served == open /\ pc = "loop"

Join(c) ==
  /\ Served
  /\ link[c] = "estab" /\ c \notin members
  /\ members' = members \cup {c}
  /\ joined' = [joined EXCEPT ![c] = Len(log)]
  /\ UNCHANGED <<client, open, wire, log, heard>>

Publish(c) ==
  /\ Served
  /\ c \in members /\ wire[c] > 0 /\ Len(log) < MaxLog
  /\ wire' = [wire EXCEPT ![c] = @ - 1]
  /\ log' = Append(log, c)
  /\ UNCHANGED <<client, open, members, joined, heard>>

Given(c) == { heard[c][i] : i \in 1 .. Len(heard[c]) }
Owed(c) ==
  { n \in 1 .. Len(log) : c \in members /\ n > joined[c] /\ log[n] # c } \ Given(c)

Hear(c) ==
  /\ Served
  /\ Owed(c) # {}
  /\ heard' = [heard EXCEPT ![c] = Append(@, Min(Owed(c)))]
  /\ UNCHANGED <<client, open, wire, log, members, joined>>

ServerEnds ==
  /\ Served
  /\ open' = FALSE
  /\ members' = {}
  /\ link' = [c \in Sessions |-> IF link[c] = "estab" THEN "over" ELSE link[c]]
  /\ UNCHANGED <<loop, out, got, counted, wire, log, joined, heard>>

Next ==
  \/ Program \/ TimePasses \/ ServerEnds
  \/ \E c \in Sessions : Join(c) \/ Publish(c) \/ Hear(c)

Spec == Init /\ [][Next]_vars

\* The program runs, and time passes.
FairSpec == Spec /\ WF_vars(Program) /\ WF_vars(TimePasses)

-----------------------------------------------------------------------------
\* The sum of a function with natural values over a set: how many pairs there
\* are of an x and one of the first f[x] numbers.
Pairs(S, f) == UNION { {x} \X (1 .. f[x]) : x \in S }
Total(S, f) == Cardinality(Pairs(S, f))

\* Callbacks run only for directions that have events, and events are had only
\* by sessions with a connection or one on its way; the counter has what the
\* sessions have read.
TypeOK ==
  /\ pc \in {"setup", "loop", "ended", "failed"}
  /\ link \in [Sessions -> {"idle", "connecting", "estab", "over", "refused"}]
  /\ enabled \in [Sessions -> SUBSET {"read", "write"}]
  /\ \A c \in Sessions : enabled[c] # {} => link[c] \notin {"idle", "refused"}
  /\ \A a \in active : a[2] \in enabled[a[1]] /\ pc # "setup"
  /\ timer \in {"armed", "due", "active", "done"}
  /\ {out[c] : c \in Sessions} \cup {wire[c] : c \in Sessions} \subseteq Nat
  /\ \A c \in Sessions : got[c] <= Len(heard[c])
  /\ counted = Total(Sessions, got)

\* The units under way: in output buffers, in connections, in the server.
Load == [c \in Sessions |-> out[c] + wire[c] + Unread(c) + Cardinality(Owed(c))]
Circulating == Total(Sessions, Load)

\* How many copies the server has made of each unit it has read.
Audience(n) == { d \in members : joined[d] < n /\ log[n] # d }
Copies == [n \in 1 .. Len(log) |-> Cardinality(Audience(n))]

Begun == Block * Cardinality(Sessions \ Idle)

\* While the server is there, a unit that the server reads becomes as many as
\* there are others in the room, and echoing neither loses nor adds any: an
\* echo in an empty room is the last of it, two sessions keep what they have,
\* and with three it doubles each time (readcb).
EchoesMultiply ==
  Served =>
    Circulating + Len(log) = Begun + Total(1 .. Len(log), Copies)

\* "<time>" (fireTestClient.c:63): the loop ends with the timer, however many
\* echoes there are to read, and with the server gone or never there.
EndsOnTime == (pc = "loop") ~> (pc \in {"ended", "failed"})

=============================================================================
