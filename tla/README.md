# Merlin.C: a verification project

Merlin.C puts a small message bus on an Asuswrt-Merlin router: `fireServer`
accepts TCP connections on port 6088 and repeats what it hears from one client to
all the others; `fireClientSend` says one line, `fireClientRead` prints what it
hears. Beside it are a dynamic DNS plug-in for the router, test clients, and the
sources of programs that are only cross-compiled (haproxy, shadowsocks-libev).

This directory holds TLA+ models of that code, configurations that check them with
TLC and proofs that TLAPS checks. `PROJECT.json` maps the definitions that model code to the
lines they stand for (`Broadcast` and `DnsMirror` are contracts and stand for none) and lists
runs, mutants, hazards and theorems.

    tlc -workers 2 -config FireServer_core.cfg MCFireServer
    tlapm FireServerDelivery_proof.tla

## 1. Inventory

| Part | Source | State | Operations | Hard behaviour |
|---|---|---|---|---|
| communication server | `source/FireServer/fireServer.c` | list of clients, each with descriptor and bufferevent | `on_accept`, `buffered_on_read`, `buffered_on_error` | fan-out while clients come, go and break; descriptor reuse; failures of accept, malloc, write |
| event loop | `lib/libevent-2.1.8-stable` (`event.c`, `evmap.c`, `epoll.c`, `bufferevent*.c`, `buffer.c`) | io map, epoll set, active queue, output buffers, deferred finalizers | poll, activate, read/write callbacks, add/del, finalize | what was reported is stale when its callback runs; map and epoll set kept in step |
| reading client | `fireClientRead.c`, `Headres/fireHeadres.h` | bufferevent with an input buffer never drained, stdin event | `read_cb`, `event_cb`, `cmd_msg_cb` | end of file ignored, refused connection unnoticed, old text printed again |
| sending client | `fireClientSend.c` | one socket | connect, send, exit | exit with unread data is a RST that can overtake its own message |
| start script | `runServer.sh` | the lines of netstat with the digits 6088 | wait, start | waits for clients that never let go, and for lines about something else; bind meets TIME_WAIT |
| load client | `sourceTestClient/fireTestClient.c` | sessions, counters, a timer | echo, time out | echoes multiply in a room with others |
| Python chat | `chat_server.py`, `chat_client.py` | list of connections, result of select | accept, broadcast, remove | list changed while iterated and while select's result is used; descriptors at the limits of accept and select |
| Python echo server | `server_socket.py` (`client_socket.py` is one request in a straight line) | the variable `conn`, descriptors, threads | accept, start a thread; greet, answer, end | a socket that two threads name, exceptions that nobody catches, descriptors at their limit |
| dynamic DNS | `shBuildForInstall/install/scripts`, `webs` | dbus settings, cron table, provider's record | load the page, save, look up, find or add record, update | two runs at a time, failures that do not stop the script, an id that is not kept, a page that posts back the result it was loaded with |
| packaging, build, Docker, remote scripts | `install.sh`, `shBuild-*.sh`, `shDocker`, `script/` | | | straight-line |
| vendored programs | `source/haproxy-2.0.3`, `source/shadowsocks-libev-3.3.0` | | | not this repository's code |

Interaction: the clients talk to the server by TCP only. Inside the server everything
is callbacks on one thread: `event_base_loop` calls `epoll_wait`, queues the callbacks
of all that was reported and runs them one by one; a client's read callback writes
into the output buffers of the *other* clients, and the buffers' callback
(`bufferevent_socket_outbuf_cb`) adds their write events. The start script sees the
server and the clients only through the kernel's table of connections. The DNS scripts
share nothing with the rest.

What makes each part correct:

* server: one order for all, nothing lost, doubled or echoed to its sender; a client
  that goes takes only itself away, with memory, events and descriptor; nobody waits
  for a peer that does not read.
* event loop: no callback for something freed; what is watched is what is wanted; a
  callback that runs has something to do.
* reading client: all that arrives is read, and shown as far as its array goes; it ends
  when its server does, unless a terminal keeps it.
* sending client and server together: what `send` took is heard, unless a RST takes it.
* start script: a server that is started gets its port and meets nothing of an older one;
  the wait before it ends.
* load client: echoes neither vanish nor appear; the timer ends it.
* chat server: the list is sound whenever it is used; a client that goes costs the others
  one message at most, and the room nothing.
* echo server: a client costs a thread and a descriptor, gives both back, and holds up
  nobody.
* dynamic DNS: the zone follows the router, never back; the number of records does not
  grow; what a run reports is so when it reports it.

## 2. Modules

| Module | Contents |
|---|---|
| `Broadcast` | the contract of the server: a room that clients join and leave, where what a member says is heard by all others in the order of one log |
| `FireServer` | `fireServer.c` over libevent: every callback is an action, the peers and the network move between callbacks |
| `FireServerProperties` | type invariant, safety, action and liveness properties, and the refinement mapping `Room_` to `Broadcast` |
| `MCFireServer`, `FireServer_*.cfg` | the instances for TLC |
| `FireServer_proof` | type correctness; `BaseInv`: descriptors, list, events, epoll set |
| `FireServerDelivery_proof` | order and completeness of delivery; `FireServer`, alone and with the senders, implements `Broadcast`; what a sender can lose |
| `FireClientSend` | the sending client, composed with the whole of `FireServer` |
| `FireClientRead`, `FireClientRead_proof` | the reading client: its loop, what it shows, when it ends |
| `FireTestClient`, `FireTestClient_proof` | the load client's sessions; its environment is a room as `Broadcast` has it |
| `RunServer`, `RunServer_proof` | start scripts, servers, and the kernel's table of connections |
| `DnsMirror` | the contract of dynamic DNS: the zone lags behind the router and never goes back |
| `AliDdns`, `AliDdns_proof` | both scripts, cron, provider and resolver; `Mirror` is the refinement mapping to `DnsMirror` |
| `ChatServer`, `ChatServer_proof` | `chat_server.py` with its clients |
| `EchoServer`, `EchoServer_proof` | `server_socket.py` with its threads |
| `MC*` | constants of the instances for TLC, one module for each of the above |

Three modules stand on others: `FireClientSend` extends `FireServer` and adds a program to
some of its peers; `FireTestClient` has the steps of `Broadcast` for its environment, as
`FireServer` is shown to implement them; `RunServer` sees of server and clients only what the
kernel's table shows.

### FireServer: how state and steps correspond

| Variable | Code |
|---|---|
| `clients` | `client_tailq_head` (a set: the order of the list is not visible to anyone, as each receiver has its own buffer) |
| `fd`, `bev`, `out` | `client->fd`; the life of `client->buf_ev` (`none`, `live`, `finalizing` after the last reference is gone and before the finalizer ran, `freed`); its output evbuffer |
| `sock` | the descriptor table of the process |
| `evmap`, `interest` | slots of `evmap.c`; what `epoll_ctl` was told |
| `active`, `accepting` | the active queue: callbacks of bufferevents, and `on_accept` |
| `tcp`, `inq`, `stream`, `taken`, `backlog` | the kernel's side: state of each connection, its receive queue, what was written to it and read by the peer, the accept queue |
| `log`, `joined` | history only: the order in which units were read, and where in it a client came |

| Action | Code |
|---|---|
| `Poll` | `epoll_dispatch`, `evmap_io_active_`. Reports everything that is ready, or a full array; HUP and ERR count as both directions |
| `RunAccept` | `on_accept`: descriptors used up; a client; `calloc` or `bufferevent_socket_new` without memory |
| `Relay`, `ReadEnds`, `ReadOutOfMemory` | `bufferevent_readcb` with `buffered_on_read` or `buffered_on_error` in it |
| `Flush`, `WriteFails`, `WriteKills` | `bufferevent_writecb`: a partial or full write, ECONNRESET, EPIPE with SIGPIPE |
| `Disconnect` (part of three of these) | `buffered_on_error` whole: unlist, `bufferevent_free`, `close`, and what the last `decref` does: `event_del`, taking events off the active queue, queueing the finalizer |
| `RunFinal` | `bufferevent_finalize_cb_` |
| `Peer*`, `ResetArrives` | connect, send, recv, FIN, RST of peers |

A callback is one step: the process has one thread and nothing the model distinguishes
happens to the kernel's state in the middle of one that the callback could notice, since
it makes one system call on one socket (`close` in `Disconnect` is the last of its
effects). Between callbacks everything may happen.

What is abstracted: bytes are *units*, blocks of one sender; a read or write moves a
few at a time, so reads that end within a message and writes that stop within a chain
are there. `ReadMax` stands for EVBUFFER_MAX_READ, `WriteMax` for the largest single
writev, `SndBuf` for all the room between server and peer program, `PollMax` for the
event array of `epoll.c` (its growth is not modelled: a fixed small array shows more
splits). Addresses, printf and warn are left out. The active queue is a set instead of
a FIFO, with one order kept: the write callback of a client before its read callback,
as `evmap_io_active_` finds the write event first in the slot. That admits every
order the kernel can report descriptors in, and for events activated in one poll no
others.

Assumed of the platform: a RST after a FIN makes the next write fail with EPIPE, a RST
without one with ECONNRESET; `epoll_ctl` fails for want of memory only.

Memory. With `MemoryMayFail` any malloc may return NULL: in `calloc` or
`bufferevent_socket_new` that ends the process (`AcceptOutOfMemory`), a read that finds no buffer
disconnects the client (`ReadOutOfMemory`), a write into another client's buffer may be dropped
(`Relay`), and the first event in the slot of a descriptor may fail to be added (`AddMayFail`:
the slot of `evmap_io_add_`, and the kernel's item). Nobody looks at the result of the last:
`on_accept` ignores what `bufferevent_enable` returns, so that a client may be listed that is
never read from, and `outbuf_cb` what the add of the write event returns. An event for a
descriptor that has one already needs no memory.

### FireClientSend

`sender` is where each program is. `Connects`, `Sends` and `Exits` are `PeerConnect`,
`PeerSend`, and `PeerAbort` or `PeerClose` of `FireServer`: the exit sends a RST if the
program left something unread, and it never reads. `ConnectFails` is `connect` when there is no
server: nobody has started it, or it has gone. All other steps are those of `FireServer` and of
peers of any kind (`OtherPeers`), which connect, send, read, close and abort.

### FireClientRead

| Variables | Code |
|---|---|
| `input`, `printed` | the bufferevent's input evbuffer, which `read_cb` copies and never drains; the text on the terminal |
| `events`, `active` | what is added to the base ("sock", "cmd"); the active queue |
| `conn`, `arrived`; `typed`, `stdin`, `pollable` | the connection; the standard input, and whether epoll takes it (not a file or `/dev/null`) |

`Start` is `main` up to the loop, with a refused connection that nobody looks at;
`ReadData` is `bufferevent_readcb` with `read_cb`: the head of the buffer that fits the
array is printed, with what lies behind the array (`Junk`) when no NUL ends it;
`ReadEnds` deletes the event and `event_cb` does nothing; `ReadCommand` is `cmd_msg_cb`;
`LoopEnds` is `event_base_loop` without events.

### FireTestClient

`link`, `enabled`, `out`, `active` and `timer` are the sessions' bufferevents, the active
queue and the timer with `event_base_loopexit` behind it; `got` and `counted` the reads;
`log`, `members`, `joined` and `heard` the room. `StartConnect`, `ConnectFails` and
`Dispatch` are `main`; `Write`, `Refused` and `WriteOver` are `bufferevent_writecb` with
`eventcb`; `Echo` is `readcb`; `TimeOut` is `timeoutcb`. `Join`, `Publish`, `Hear` and
`ServerEnds` are the environment: they are the steps of `Broadcast`, a unit at a time, and say
nothing of the load client. What is checked is about what the program adds to them:
its buffers, its counter and its timer.

### RunServer

`pc` is where each script is (and the server in its foreground), `near` and `far` are the two
ends of each connection in the kernel's table. `Look` is `netstat -anp | grep`, which shows the
far ends too of programs on the router (`Local`), and any line that has the four digits in some
column: another port, a process id, an inode. Whether there is such a line is `alike`, which
changes at any time. No program but `fireServer` binds the port itself. `Bind` and `BindFails`
are `bind` without SO_REUSEADDR; `ServerEnds` is any end of the process. `ClientCloses` is the
reaction of a program to the end of its connection, on which `Deaf` programs, such as
`fireClientRead` with a terminal, cannot be relied.

### AliDdns

A run of `merlinc_update.sh` is a value of `pc`: each command that talks to somebody is a step
(`GetAddress`, `Skip`/`Differs`, `Query`, `Add`, `Update`, `Report`), and any may fail or lose
its request or its answer (`faults`). `Ends` is the end of the shell, whose variables go with
it: no run sees the id or the address of another. `Enable` and `Disable` are
`merlinc_config.sh`, `CronRuns` the cron entry. `LoadPage` loads all that is stored into the
page, and what `save()` posts is that object with the fields of the form replaced: the
`aliddns_last_act` of the time of loading becomes the stored one again (`Posted`). Without
`OldPages` every page is loaded as it is saved. `zone` and
`made` are the provider's records, `cached` what the resolver says, `ip` the router's address,
numbered in the order of time. `misled` is history: it says of a run whether the look-up of the
own address failed in it, its update was lost, or a record was removed by hand while it ran.
`Installed` says that the name the cron entry and the form call leads to the script. As the
package is, it does not: it installs `merlinc_update.sh`, and `merlinc_config.sh:7` and `:9`
call `aliddns_update.sh`. The runs set it to TRUE, as with nothing running there is nothing to
check; the proofs hold for both values.

### ChatServer

`list` and `todo` are CONNECTION_LIST and what is left of `read_sockets`; `cast` is the loop
of `broadcast_data`: whose message, the index the iteration is at, and whether it was called
in the `except` clause. Each turn of the loop is a step (`PassOver`, `Send`, `SendFails`), as
`send` blocks. `Select` chooses the increasing sequence of the indexes that are ready, so
that `todo` has the order of the list; `Without` is `list.remove`, of the first index found.
`SendFails` removes from the list, so that the next index passes over a
client. `Return` after a broadcast from the `except` clause closes, removes, and meets the
word `countinue`, a NameError that ends the program. `ReceiveNothing` is an empty `recv`,
on which nothing is done. Two calls stand outside any `try`: `AcceptFails` is `accept` without
a descriptor, and `SelectRaises` is `select` with a descriptor that its sets do not take; `far`
has the sockets with such a descriptor. How many descriptors there are for connections, and how
many of them are below FD_SETSIZE, is in `limits`, which differ with `ulimit` and with the files
the process inherits: they are any of `Limits`, and stay. The clients are `chat_client.py`.

### EchoServer

`main` and `thread` are where the threads are, `conn` is the main thread's variable, `sock` the
socket objects: a socket is closed by `conn.close()`, or when neither a thread nor `conn` names
it. `limits` are those of descriptors and threads, any of `Limits`. `Accept` moves the name on;
`Start` is `start_new_thread` and the descriptor that the next `accept` takes before it waits;
`Dies` is the uncaught exception of either. After a RST a thread at `recv` still gets what had
arrived, and its `sendall` raises; with nothing left `recv` raises itself (`Raises`).

## 3. Runs

| Run | Checks | Why these bounds |
|---|---|---|
| `core` | `FdOwnership`, `ListIsLive`, `EventsOfClients`, `KernelAgrees`, `EventsArmed`, `CallbacksHaveWork`, `InOrder`, with malloc failing anywhere, silently too | three connections over two descriptors: the third reuses one; two reports per poll: readiness is left for the next |
| `delivery` | `Complete`, `LastWordsHeard`, `NoneDeaf`, the refinement `IsBroadcast` | three clients at once, two units: two senders and a third that hears both, two units at a time over room for one, so that writes are partial and output stays behind |
| `progress` | `SentIsRead`, `GoneIsFreed`, `QueuedIsAccepted`, `AttentiveHear` | two connections, three units over room for one, every end of a connection; one client reads, of the other nothing is known |
| `sigpipe` | `ErrorOnlyDisconnects`: **violated** | two clients, two units |
| `sender` | `LostOnlyToReset`, `QuietSenderIsHeard` | a sender, and a talker with as many units as fill its output twice, which may close or abort |
| `reader` | `PrintsHeads`, `EndsHavingReadAll`, `AllIsRead`, `EndsWithServer` | an array of two units and four units to come: shown, full, and beyond it; with and without a terminal |
| `echoes` | `EchoesMultiply`, `EndsOnTime` | three sessions, where echoes multiply, each of which may be late or refused |
| `scripts` | `FailsOnlyOvertaken`, `NothingLeftOver`, `OnlyTheDeafHoldUp` | two scripts and their servers; a connection of each kind: on the router and deaf, on the router and not, elsewhere and deaf; lines about something else come and go |
| `ddns_overlap` | `FewRecords`, `Converges` | two runs at one time, two changes of the address, so that a third record is possible, a fault and a removal anywhere; `OldPages` off: neither property reads a result |
| `ddns_alone` | `NeverBackwards`, `ReportIsTrue`, the refinement `IsMirror` | one run at a time, two faults: one may hide another; the page may be as old as it likes |
| `chat` | `ListIsOpen`, `OneMissPerRemoval`, `EndsOnlyIf`, `SaidIsReceived` | three clients: one whose removal makes the loop pass over the next; three limits (`MCLimits`): room for all, two descriptors, three of which `select` takes two |
| `threads` | `OnlyLastIsHeld`, `DiesOnlyWhenFull`, `SlowHarmsNobody` | three connections; two limits (`MCLimits`): three descriptors and threads to spare, two threads and descriptors to spare |

Bounds. `Conns`, `Fds`, `ReadMax`, `WriteMax`, `SndBuf`, `Backlog`, `PollMax`, `RecvMax`,
`Window`, `MsgMax`, `CmdMax`, `Block`, `MaxMove`, `Limits`, `Runs`,
`Scripts` and `Sessions` are limits the system has, scaled down. Only there for TLC are:
`MaxSend`, `MaxArrive`, `MaxType`, `MaxSay` and `MaxLog` (units sent, typed or said in all),
`MaxIp`, `MaxIds`, `MaxFaults` and `MaxRemove` (changes of the address, records, failures,
removals by hand). A connection is made at most once, a client that reconnects is another
connection, except in `RunServer`, where connections come again and again. `core` and
`delivery`, which check no liveness, are reduced by symmetry over connections: they use nothing
that tells connections apart, as `Attentive` occurs only in `FairSpec`.

CHECK_DEADLOCK is off where the system may stop: the process was killed or ended, the
program is over, or all connections are. `scripts`, `ddns_alone` and `ddns_overlap` check
for deadlock.

The type invariants of the modules that have a proof module are proved (`TypeCorrect` in each)
and left out of the runs. `NoHole` is proved and not run by itself: `delivery` checks
`IsBroadcast`, and the room of `Broadcast` has no holes.

Each property has a mutant in `PROJECT.json`: a slip in one definition of the model, such as
a plausible slip in the code would be, with which TLC reports that property.

### Fairness

* `FireServer`: `WF(Loop)`, the process is scheduled while its loop can do something. It
  is weak and on the loop as a whole; that each callback gets its turn follows from the
  queue being emptied before the next poll, and from each poll reporting all that is ready.
  `progress` and `sender` therefore use an event array with room for all descriptors and the
  listener: with a smaller one it is the kernel's round-robin over its ready list that keeps
  a descriptor from starving, which the model does not have. `WF(PeerRead(c))` is assumed only
  of the peers in `Attentive`, the ones `AttentiveHear` speaks of; of no other peer is
  anything assumed.
* `FireClientSend`: the server's loop and the sender's program. `FireClientRead`:
  `WF(Client)` on the whole program, nothing of server or user; the same queue argument.
* `FireTestClient`: `WF(Program)`, and `WF(TimePasses)`: the timer runs. Nothing is assumed of
  the server.
* `RunServer`: the scripts go on, the server closes what its clients have closed
  (`GoneIsFreed` of `FireServer`), the kernel's timers run out, and programs outside `Deaf` act
  on the end of a connection. Nobody need start a script, end a server or connect.
* `AliDdns`: `WF(CronRuns(r))` as cron comes back, `WF(Step(r))` as a shell goes on,
  `WF(Resolve)` as copies expire. That a request ends, with an answer or without, is an
  assumption: `nslookup` gives up by itself, but the script gives `curl -s` no time limit, and
  what ends a request that nobody answers is TCP giving up. A shell that hangs for ever holds up
  nothing but itself, as cron starts new ones. `Converges` asks for a service that stays on;
  failures and changes are finite by their bounds, which is what "the address stops changing and
  the network recovers" means here.
* `ChatServer`: `WF(Server)` on the whole of the one thread. That its clients read is
  assumed, as the server's `send` blocks and one that does not read does stop the room;
  that a RST which is due arrives is the kernel's promise.
* `EchoServer`: every thread by itself, as the scheduler's; readers only in `Attentive`.

### What was found

`sigpipe`: nothing ignores SIGPIPE, and `evbuffer_write_iovec` writes with `writev`
(`buffer.c:2447`). When a client closes and its host answers a broadcast already under way
with a RST, the next write callback for it, which comes before its read callback, kills the
server for all, where `fireServer.c:123` says "Client socket error, disconnecting." The
other runs keep that behaviour in: their properties hold up to the moment the process ends.

What else the models show of the code, where no line of the repository says otherwise, is
stated by properties that hold:

* A broadcast that the kernel has not yet answered when `fireClientSend` exits turns its FIN
  into a RST, and the write callback that finds it drops the client before its message is
  read. This is the only way to lose it (`LostOnlyToReset`), and it needs something written
  to the sender (`QuietSenderIsHeard`).
* `fireClientRead` shows the head of all it was ever sent, again at each message, and nothing
  beyond its array (`PrintsHeads`); with a terminal it does not end after its server
  (`EndsWithServer`).
* Such a reader on the router keeps its socket in CLOSE_WAIT, and `runServer.sh` waits for it
  as long as it runs. Besides another server, only lines of `netstat -anp` about something else
  that happen to have the digits hold it up too (`OnlyTheDeafHoldUp`): what a server before has
  left in the kernel, and clients elsewhere, delay it only.
* A run reports that the domain resolves to its address when `update_record` was lost, and with
  an error text for an address when the look-up of its own failed. These two, and a record
  removed by hand meanwhile, are the only ways to a report that is wrong when it is made
  (`ReportIsTrue`), and only when they befall that very run. The page may show an older result,
  without any failure: saving the form puts back the one it was loaded with.
* Runs that overlap may add a record each (`FewRecords`), and the later request may be the one
  with the older address; a later run makes that good (`Converges`).
* In the chat room a removal under the loop's index passes a client by
  (`OneMissPerRemoval`). A reset met by `recv` or `getpeername` ends the server, also that of a
  client that had left in order and was written to afterwards; and so does the client for whom
  there is no descriptor, or only one that `select` does not take (`EndsOnlyIf`).
* A client of `fireServer` whose read event cannot be added for want of memory stays listed and
  is given what the others say, but never read from, and its going is not noticed unless a write
  meets it (`EventsArmed`; without that want there is none, `NoneDeaf`).

## 4. Proofs

All theorems are for any constants with the assumptions of their modules: limits are
positive, and `None` and `server` are no connections. Nothing is assumed of how many
connections, descriptors, scripts or units there are, and these sets may be infinite; where
members are counted they are finite: `Runs` of `AliDdns`, `Sessions` of `FireTestClient`
(the command line names finitely many) and `Conns` of `ChatServer` (finitely many clients
ever come; how many is left open). Every inductive invariant was checked by TLC on the
instance of its run before it was proved.

The server and its senders (`FireServer_proof`, `FireServerDelivery_proof`):

* `TypeCorrect`. `TypeOK` needs `AcceptHasWork` (the queue is not empty while
  `on_accept` is active), as `Head(backlog)` is a connection only then.
* `DescriptorsOwned`, `ListAlive`, `NoStaleEvent`, `KernelFollows`, `WriteArmed`, and under
  `~MemoryMayFail` `AllAreHeard` (`NoneDeaf`): all from `BaseInv == TypeInv /\ Owners /\ Queued
  /\ Events`. None of them is inductive alone. That `close` leaves no stale event needs every
  event in the slot of its own client's descriptor, which needs one owner per descriptor, which
  needs accepted connections to be new: `Queued` says the accept queue holds distinct
  connections without bufferevent or data. That the epoll set agrees with the map when `close`
  empties it needs that all events of that slot belong to the one client.
* `CallbacksDue`: over `BaseInv`, what was reported stays so until its callback. A write
  callback of another client only fills buffers, a read callback empties only its own queue,
  peers only add data and room, a broken connection stays broken, and one that begins anew
  has no events.
* `Ordered`. `OrderInv` adds `JoinedInLog` (a client came at a position the log has) to
  `BaseInv` and `InOrder`: the units a read appends are later than any given before, as
  those lie in the log. It holds with `MemoryMayFail` too.
* `AllAreGiven`, `WrittenWithoutHoles`, under `~MemoryMayFail`. `NoHole` speaks of what was
  written; it is inductive only for what was *given*, written or not
  (`GivenHasNoHole`), together with `Complete`. When the finalizer drops the unwritten
  rest a prefix is left, and by the order a prefix of something without holes has none.
* `LastWordsRead`, under `~MemoryMayFail`, an action property from `BaseInv`: of the three
  steps that unlist a client one needs a broken connection and one an empty queue; the
  third is want of memory.
* `ServerIsBroadcast`, under `~MemoryMayFail`: `Spec => Room_!Spec`. Members are the
  listed clients while the process runs, and what a client has heard is what was written
  to its socket. `Accept` is `Join`, `Relay` is `Publish`, `Flush` is `Hear`,
  disconnecting or the end of the process is `Leave`; all else stutters. `Hear` is where
  `FullInv` is needed: the step extends the beginning of the client's feed to another.
* `SenderLostOnlyToReset`, under `~MemoryMayFail`: `SenderInv` ties the program counter of
  each sender to its connection, and says that from the `send` on its unit is in its receive
  queue or in the log. A client whose FIN has come leaves the list only with that queue empty,
  as `Relay` is what empties it; the other two ways out need a broken connection. The steps of
  the composition are steps of the server (`SenderTakesPeerSteps`), so that `BaseInv` holds of
  it.
* `SendersMeetTheRoom`, under `~MemoryMayFail`: `SendSpec => IsBroadcast`, from the same
  lemma. The composition starts with a server or without one.

The others:

* `RunServer_proof`: `TypeCorrect`, `BindOnlyOvertaken`, `PortIsClean`. They are inductive with
  `ClearToStart`: a script past its last look has the port free or was overtaken, as nothing
  appears on the port without a server.
* `AliDdns_proof`: `RecordsPerRun` by counting. A run between an empty answer and its `Add`
  holds a place, and records and places together are at most the runs (`Room`); a look-up
  takes a place only when there is no record. `NoSettingBack` and `LoneRunMirrors`
  (`Alone => (Spec => IsMirror)`): a lone run's address is newer than any record that was not
  its own, so that each change of the zone is a `Follow`, a `Remove` or a stutter of
  `DnsMirror`. The newest record is a CHOOSE over a finite set, which is why the module
  uses well-founded induction's facts about Nat.
* `FireClientRead_proof`: `OnlyHeads` and `EndsAtEnd`. `EventsStay` says why an event is
  missing: the socket's because all was read and the connection is over, the other because
  epoll refused it. `ReadAppends` makes the buffer 1, 2, 3, ...; `ShownIsHead` and
  `HeadsFollowHeads` say what printing its head adds to the text.
* `EchoServer_proof`: `OneDescriptorHeld` and `DiesFull` from `HeldByOne`: every open
  socket is that of a running thread or the one `conn` names, so that the open ones are at
  most one more than the threads that run. A thread of a broken connection runs on only while it
  has something to receive.
* `AliDdns_proof`, `PageIsTrue` (`ReportIsTrue`): `RunKnows` says that a run that has an id at
  its report, and that nothing misled, left its address in the zone (`Written`), as `Alone`
  keeps all others away. It holds with any number of faults before it.
* `FireTestClient_proof`: `TypeCorrect`, where the counter is the sum of what the sessions
  read; `EchoesAreCounted` (`EchoesMultiply`), for which `HeardInOrder` says that what was
  heard begins the session's feed, so that the least unit owed (`HearNext`) extends it; the
  rest is `Balance`: that invariant from `main` on, step by
  step. A read, a write and a `Hear` move units from one term of a session's load to the next;
  `StartConnect` adds a block to both sides; `Publish` takes one unit off the wire and adds one
  to what is owed to each of the audience, which is the number of copies of the new unit. A sum
  is the number of pairs of an index and one of the first so many numbers (`Total`), so that
  its laws (`TotalSplit`, `TotalOne`, `TotalAdd`) are facts about finite sets and need no
  induction.
* `ChatServer_proof`: `ServerInv` says what a round in progress may rely on. `ListSound`: the
  list is the listening socket and the open sockets, each once; `RoundGoesOn`: what is left of
  `read_sockets` was accepted, is there once, and the listening socket is there only while
  somebody waits; `QueueIsNew`: who waits has no socket yet; `FaultsAreResets`: a socket is
  closed, and an `except` clause run, only for a reset. From it `TypeCorrect`, `ListStaysOpen`
  and `FullOrReset` (`EndsOnlyIf`), as by `ListSound` the clients listed are the open sockets:
  `accept` fails only when each descriptor is a listed client's. `OneMissEach` needs the message
  under way too: `Passed` has the pairs of a message and a listed client whom it has gone past,
  which for the message under way means that the index is behind the client. Every step keeps
  `Cardinality(Passed) <= Cardinality(Closed)`; only `SendFails` adds a pair, that of the client
  that moves into the place of the one removed, and it closes a socket.

Only model-checked: the liveness properties (`SentIsRead`, `GoneIsFreed`, `QueuedIsAccepted`,
`AttentiveHear`, `QuietSenderIsHeard`, `AllIsRead`, `EndsWithServer`, `EndsOnTime`,
`OnlyTheDeafHoldUp`, `Converges`, `SaidIsReceived`, `SlowHarmsNobody`), as fairness and ENABLED
are out of the proof system's reach. Every invariant, action property and refinement that a
passing run checks is stated by a theorem.

## 5. Not modelled

Most of the tree is not this repository's program: `haproxy-2.0.3`,
`shadowsocks-libev-3.3.0` and the parts of libevent that nothing here links (evdns, http,
evrpc, bufferevent_openssl, other platforms' back ends) are well over nine tenths of its
lines. They are compiled as they came, so the map stays small beside the whole tree: what
is mapped is the code that the programs of this repository consist of and reach.

* libevent beyond what the programs use: signals, locks and threads, watermarks and rate
  limits (unlimited), changelist, other back ends; of timers only the one timeout of the
  load client.
* a descriptor table shared with anything but clients; `setnonblock` failing (it is
  only warned about, and cannot fail on an open socket).
* EINTR and spurious readiness: after `epoll_wait` reported a direction nobody but the
  callback takes data or room away, so the retry branches of the callbacks are not
  reached (`CallbacksHaveWork`).
* the start of the server's `main` up to the first poll; a failure there ends the process.
* a peer that vanishes without a FIN: no timeout, no keepalive is set, so nothing happens
  until TCP gives up, which is `PeerAbort`.
* `fireClientRead`: `doDoctor` and `doExec`, which nothing calls, and the remote scripts they
  would run; the byte `msg[ret]` of `cmd_msg_cb`.
* `fireTestClient`: `total_messages_read` and the averages it prints; the server is its contract.
* Python: the two seconds' limit of the chat client's socket; `client_socket.py`, one HTTP
  request in a straight line.
* dynamic DNS: signatures, nonces, time stamps and the encoding of names.
* packaging, build and Docker scripts, the web page's layout: straight lines of copying and
  calls, with no state that a second actor sees.

Hazards that no property excludes, because the code has them and no line of the repository
denies it: the memory that a client that does not read costs the server
(`fireServer.c:103`); the text that does not fit the reading client's array
(`fireClientRead.c:80`); two records of overlapping runs, and a late update of one of them
(`merlinc_update.sh:108`, `:115`); a chat client that does not read and blocks `send`
(`chat_server.py:14`); the stale result that saving the page puts back
(`Module_merlinc.asp:24`). `PROJECT.json` says of each how near the properties come. That a
connection refused for want of descriptors gets in later (`fireServer.c:144`) is shown only as
far as `QueuedIsAccepted` goes: it does not wait while a descriptor is free.

## 6. Plan

1. *done* `FireServer`, `Broadcast`: runs, proofs, refinement.
2. *done* `FireClientRead`, `FireClientSend` over `FireServer`.
3. *done* `RunServer`.
4. *done* `AliDdns`, `DnsMirror`.
5. *done* `ChatServer`, `FireTestClient` over `Broadcast`, `EchoServer`.
6. *done* proofs of the safety of the server, the start script, dynamic DNS, the reading
   client and the echo server.
7. *done* proofs of what the sending client can lose, of the composition's refinement, of the
   truth of a run's report, and of the safety of the load client and the chat server.
8. *open* the composition of `FireTestClient` with `FireServer` itself instead of its contract;
   bounds on the steps to termination of a broadcast, as safety that liveness rests on.
