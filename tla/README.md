# TLA+ models of go_util

go_util is a collection of small Go programs and packages. The ones that hold
concurrent or stateful logic are modelled here as TLA+ modules, model-checked
with TLC on small instances and, where it matters most, proved with TLAPS for
every value of the constants. `PROJECT.json` is the index: it maps every
definition to the lines it models and lists the runs, the mutants that each
property is shown to catch, the hazards of the code, the findings and theorems.

## Inventory

| component | state it keeps | operations | what is hard |
|---|---|---|---|
| `goroutine_pool` | job queue, queue of workbenches (channels), workers, one dispatcher | `StartWorkFlow`, `AddJob`, `CloseWorkFlow`, signals | a goroutine per job between two queues; shutdown against work in flight; closing a channel that others send on |
| `channel_pipe` | three stages, three data and three error channels, a context | `MergeLogs`, interrupt | bounded channels, first error cancels the rest, interrupt at any moment |
| `log/logrus/hook/logs` | the log file and its archives, line and byte counters, the open day, two locks | `WriteMsg`, `Init`, `Destroy`, `Flush`, deletion of old logs | check under one lock and write under another; rotation in steps that may fail; midnight; restart |
| `grpc-lb/etcdv3` | keys under leases in etcd, the resolver's address map | `Register`, `UnRegister`, `watch` | crashes between steps, leases, events in batches, gap between Get and Watch |
| `gracefull_server/tcp` | listener inherited by a child process | start, HUP, USR2, INT/QUIT | parent and child serve one listener; shutdown with a timeout |
| `gracefull_server/http` | a map of sample rates and the expiry they are sent with, in parent and child of a hot restart, and their one dump file; two stores of samples | HTTP handlers that add, delete, set and pull; `Dump`, `Load`; report handlers | the map is read and dumped outside its lock; dumps overlap; parent and child use one file; one of two stores fails |
| `p2p/go-stun` | one UDP socket, the transaction id of the request | `Discover`, `Keepalive` | lost, late and duplicated datagrams; NATs that map and filter differently; lengths, padding and cut packets of the wire format |
| `websocket_proxy`, `tcp/echo` | a websocket and a TCP connection per session, a context; one buffer for all echo connections | two relays, echo | one side ends while the other blocks, also in a write that has no room; closing after both ended; the shared buffer |
| `socks` | two sockets per connection, a list of connections | handshake, two relays | half-closed connections; requests that arrive in parts; the list has no lock |
| `scan_ip_net` | a cache file of looked-up networks | lookup in batches, retry, save | a failed batch and a short last one; the file is replaced as a whole and may be cut off |
| `multithreadReadfile` | one file read in parts | one goroutine per part, one that counts | words at the borders of the parts; a variable shared without a lock; two waits before the result is complete |
| `rpc` | connections | call and reply | replies out of order |
| `hanu` | a list of commands, one variable for all events | an event is decoded, parsed and answered | fields of an earlier event stay in the variable; goroutines use it while the next event is read |
| `audio` | a queue of streamers | `Stream` | a buffer filled from several streamers |
| `string`, `call_cpp` | none | string search, string helpers | boundaries |
| the rest | none | demonstrations of one library call | pure I/O, generated code, templates: not modelled |

The components do not call each other; each is a program or a package of its
own. What interacts is inside them: goroutines over channels and locks, a
process with its successor after a restart, clients and servers over a service.

What makes each one correct, in the order of importance:

* pool: an accepted job is played exactly once unless the flow is closed first;
  nobody blocks for good; shutdown drains the queue before workers quit.
* pipeline: a report is complete or there is an error; every goroutine ends.
* log writer: a line that was written is found in exactly one file until it is
  too old; files respect their limit; the locks are released on every path.
* discovery: a stopped server disappears from etcd; the resolver follows the
  events exactly.
* restart: at every moment some process accepts, and no accepted request is cut.
* sample rates: readers see the rates of one moment; what was set survives a restart.
* STUN: the answer is the type of the NAT, or an error, whatever is lost.
* relays: what one side sends the other receives, in order, until it closes.
* bot: a reply has a message that asks for it, and every such message a reply.
* batch programs: every word of a part is counted, every address looked up, and
  a restart keeps what was saved.

## Plan

1. `WorkerPool` implements `JobLedger`: modelled, checked and proved.
2. `LogPipeline`, `LogRotation`, `EtcdDiscovery`: modelled, checked and proved.
3. `StunDiscover` and its wire format, `StunPacket`: modelled, checked and proved.
4. `GracefulRestart`: parent, child and listener of the TCP server: modelled,
   checked and proved.
5. `SampleRates`: the map of the HTTP server with its dump and load, and
   `SampleReports`, which adds the report handlers: modelled, checked and proved.
6. `EchoProxy`: the websocket proxy and the echo server behind it, and
   `SocksProxy`: modelled, checked and proved.
7. `HanuBot`; the batch programs `FileParts` and `GeoCache`: modelled, checked and proved.
8. Open: the audio queue and the string search against reference definitions on
   bounded inputs; request and reply of `rpc/codec`.
9. Open, proofs: of `ProxyTypeOK`, the bound on the messages that all clients have sent,
   which is a sum over the sessions; the rest of it is part of `ProxyInv`.

Modules that are proved about use no RECURSIVE operator; constants carry named
assumptions; every operation is an action of its own and every invariant a
conjunction of named parts, so that proofs can follow the same structure. Most
modules define `TypeOK`, which documents the values of the variables and is proved; the
runs list the properties that could fail for a reason of their own. A definition
marked "Fault" is a plausible mistake, used by no specification: the mutants in
`PROJECT.json` put it in place of the definition below it, and the property
named there is then violated.

A run named after several programs has as its behaviours those of each of them and no
mixture: its MC module starts one and leaves the others where they can make no step.

## Modules

### JobLedger, WorkerPool: `goroutine_pool/pool/pool.go`

`jobQueue` and `benchQueue` are the buffers of `GJobQueue` and
`GWorkbenchQueue`; `worker`, `dispatcher`, `job` and `closer` say where the
goroutines of the workers, of `Dispatch`, of a job (its `AddJob`, then its
handler) and of `CloseWorkFlow` are. A send on an unbuffered channel is one step
of both sides (`Deliver`, `Finish`, `ReportClosed`, `HandOver`). `EndDispatch`
is unbuffered and the signal package drops what it cannot deliver, so a signal
has an effect only while `Dispatch` is blocked in its select. A send on the
closed queue panics and ends the process. `JobLedger` is what a caller may rely
on: accepted at most once and only while open, played at most once.

Run `signals`, its part of the pool (three jobs, two workers, queue of one; 33,102 of its
164,371 states). The bounds
make every wait occur: more jobs than the queue holds and more than there are
workers, so that senders, handlers and workers all block in some behaviours. The
pool stops when it is closed, hence no deadlock check; that nothing else stops
is `EveryJobPlayed` and `ShutdownCompletes`. Fairness is weak fairness of each
goroutine: the Go scheduler runs whatever can run; arrivals of jobs, signals and
the call of CloseWorkFlow are not forced. A handler that is blocked in a receive
is served in some order by the channel: with one workbench needed per job and
finitely many jobs, weak fairness is enough.

### LogPipeline: `channel_pipe/pipe.go`

`stage` says where the three goroutines are, `paths` and `readers` are the
channels, `errc` what a stage has sent on its error channel, `collected` what
the goroutines of `Wait` have received. Every stage may fail at every file,
since which files are unreadable is not known. A stage first sends its error and
then closes its output (`defer`), which are two steps. `canceled` is the shared
context; `ctx.Err()` in `Wait` tells its own error from a failure.

Run `signals`, its part of the pipeline (five files, channels of one and two; 43,084
states): the stages
and the channels together hold fewer files than there are, so every channel is
full in some behaviour. Run `pipeline_nil` finds
that an interrupt after the end of Scan makes `MergeLogs` return a nil report and
a nil error, which `main` then dereferences. The related case of a partial report returned as success is why
`CompleteReport` speaks of runs without an interrupt. Fairness: each goroutine
is run; failures and the interrupt are not forced.

### LogRotation: `log/logrus/hook/logs/file.go`

A file is the set of its lines and the time of its last write; an archive is found
under its name, a date and a number, and `fname` is the name that the rotation in
progress has found free and takes two steps later. The steps of
`docheck` and `DoRotate` are separate actions because other writers print in
between; who holds `startLock` and the lock of the MuxWriter follows from where
the writers are. Time is a day and an hour: `deleteOldLog` compares seconds, and the
model compares hours, of which there are `Hours` in a day, so that a file of day d may be removed on
day d+Maxdays, once its hour has passed. `Tick` is the next hour and, at the end of a day,
midnight. `DeleteOldLog` may run at any later time, and may remove the
open file itself, after which a rotation finds nothing to rename (`RenameMissing`).
`Restart` is the death of the process at any
step followed by `Init`, `RotateFails` a failing rename or open, `Destroy` closes
the file.

Run `rotation` (two writers with two messages, limit of one line, two days of two hours,
one fault, one restart; 1,641,961 states): rotations overlap, a deletion meets files of
the hour before, of the same and of the one after, the numbers of a day run
out. A file can grow above the documented limit
because the check and the print are not one step; `FilesNearLimit` says how far:
by one line per other writer in flight. That the same day of two months looks like one
to `docheck` is in the model (`Month`), but the two days of the run are different; the
theorems hold for any.
Bounds: `MaxMsgs`, `LastDay`, `MaxFaults`, `MaxStarts`.

### EtcdDiscovery: `grpc-lb/etcdv3`, `grpc-lb/cmd/svr/svr.go`

A server process runs `main` and `Register` (`server`), the goroutine of
`Register` that waits to delete the key (`helper`) and the signal goroutine
(`stopper`). Etcd is external: a key is attached to a lease, and a lease expires when nobody keeps it
alive, which may also happen to a running server that is cut off. `log` is etcd's
history; `seen` how much of it the watch has delivered. `addrDict` keeps the two
kinds of map key apart, the address (from Get) and the etcd key (from events).

`register.go:45` drops the error of `cli.Delete` and replies all the same: `DeleteFails`
leaves the key where it is, and `undeleted` remembers it.

Run `etcd` (two servers, one restart; 787,030 states): a server can be loaded by Get and
put again by its successor, expire and be deleted, in any order and batching.
`UnregisterDeletes` excepts the servers whose deletion failed; that their keys are left
contradicts the comment of `UnRegister`, which run `etcd_delete` shows.
A server loaded by Get is entered under its address and survives its delete event,
which names the key: `WrongOnlyByGet` excepts exactly this, and since
`grpc-lb/README.md` lists it as fixed, run `etcd_get` shows that it is not. Fairness: goroutines run, the watch delivers,
and leases of dead processes expire. Several registrations in one process,
which would share the channel `Deregister`, are not modelled.

### StunDiscover, StunPacket: `p2p/go-stun/stun`

`test` is the test of `discover` that is running, `tries` and `reading` the loop
of `send`. The network is a set of responses that only grows: a response never
received is lost, one received twice is duplicated, one received later is late,
also for a later test, where the transaction id rejects it. What lies between
client and server is one of the kinds of RFC 3489, which fixes the mapping
(`Mapped`) and the filter (`Passes`); a filter depends on what was sent before.
Servers that answer with errors, ignore change requests, or know no changed
address exercise the error returns. NAT and server are external.

Run `stun` (two requests per test instead of nine, two calls of Keepalive; 90,534
states): two requests are enough for a retransmission and a late answer to each.
The outcome `unknown` occurs when the second test I gets no response, because it was lost
or the server announces an address where nobody answers; a
comment (discover.go:138) says that this will never happen. Fairness: the client runs and its read deadline passes; no datagram has to arrive.

The servers are those of `ServerKinds`. `StunPacket` is the wire format, as operators on sequences of bytes: `bytes` and
`newPacketFromBytes`, the padding of attributes, the fingerprint and the addresses.
Arithmetic on lengths is that of uint16. A slice can reach past the datagram, as
in Go, since the buffer is larger. In the same run, requests of every kind with
names of several lengths are parsed again and their fingerprint recomputed
(`RequestCarried`), and all responses of three attributes, with three kinds of
addresses, are read, whole or cut at any multiple of four bytes as the buffer of
1024 bytes does (`ResponsesRead`). These facts do not depend on the state of the
client and are evaluated in the states of one world in which nothing was sent yet.
The CRC, the server's way of writing and the form of IPv4 addresses are external.

What the two invariants say of one packet are operators of its parameters: `Carried`
of a request (transaction id, name, the two change flags), `AddressesRead` and
`CutIsPrefix` of a response (transaction id, attributes). The invariants quantify them
over the packets of the run; the theorems below hold for all that fit in a datagram,
the length of which is a uint16 (`Fits`).
Responses whose attributes carry lengths near 65535, where the uint16 sum of
packet.go:57-60 wraps, are not among the packets of the run.

### GracefulRestart: `gracefull_server/tcp/server.go`

`proc` is where `main` of each process is, `serve` whether its goroutine has
entered `Serve`, `sock` its reference to the kernel's listening socket. A client's
connection is queued at a socket until a process accepts it; the queue is reset
when the last reference goes. Kernel and `net/http` are external. A signal before
`Notify` has the default effect, which is `Killed`, and `ImportFails` leads to
`Create`, which finds the address in use. `slow` and `trouble` remember that the
timeout of Shutdown ran out, or that a process failed or was stopped without a
successor; the properties say what can happen only then.

Run `signals`, its part of the TCP server (two clients, three processes, one fault; 88,185
states): a second
upgrade can begin while the first drains, and a fork can fail or a child die
before it serves. Shutdown of `net/http` may precede `Serve`, which then closes
the listener. Fairness: processes and goroutines run and handlers answer; a
signal or timeout is not forced. The properties hold although the parent does
not wait for its child: the child holds the socket from the fork on, and clients
wait in its queue. They do not hold when the child dies; `trouble` admits that.

### SampleRates, SampleReports: `gracefull_server/http/http_server.go`

`pc` is where each handler is; `rwlock` is derived from it. `config` is
`SampleConfig`, `file` the dump file, `seen` what a handler has read of the map.
`Dump` has four steps, since it reads the map without the lock, truncates the
file and writes it. What it reads may mix rates before and after a change that
runs at the same time (`MarshalEnds`), and such a race may end the process
(`MapRace`), as it does when the Go runtime notices it. The server is one of `endless`
(http_server.go:596): `state` says of each process whether it runs; a serving one forks a child
(`Fork`), which loads the file in `init` while the parent still changes and dumps its rates,
and the parent then leaves (`Shutdown`, `Exit`). Each process has a
`SampleConfig` and its handlers (`Process`), and there is one file. `alone` and `overlap` remember
whether a dump ran undisturbed; one that leaves the other process with other rates
(`LeavesOthers`) did not. `endless` itself is external.

`SampleReports` extends it by the report handlers: `body` is the report of a
handler and `at` the sample it is at; each sample becomes a row (`save_db`) and
then a point (`WritesPoints`) whose key in InfluxDB is its tags and the second.
Both stores may refuse a sample, and InfluxDB may have been absent at the start;
`failed` and `wrote` remember what was refused and written.

Run `rates` (4,487,881 states; in each behaviour there are reports, or two
processes). Without reports: two processes, one with two handlers and one with one, three requests on two
uris, one fault, any number of hot restarts and starts. The third request shows whether a
dump that runs alone repairs what two overlapping ones left, and two processes are enough, since a
process that leaves makes room for the next child. With reports: two handlers of one process, two
requests, each a report of one or two samples or a change of a rate, one fault, two seconds.
`FileCurrent` cannot promise more, since the older of two overlapping dumps may write
last, and a child does not see what its parent sets after it has loaded. Run `rates_conf`: `init`
loads `*configFile` before `main` parses the flags, so a file named with `-conf` is written
and never loaded; `DefaultConf` says that none is named.
Two reports in the same second with the
same tags leave one point, which `ReportsKept` admits. `mode_uri_rate` answers that a rate was set and sets none, hence has no action.

### EchoProxy: `websocket_proxy/server.go` with `tcp/echo/server.go`

By their default addresses the echo server is the peer of the proxy, so the two
are composed. `handler` and `back` are the two goroutines of a session, `peer`
the goroutine of the echo server that has its connection, `ws`, `out` and `in` the
data on the way. `buff` is one buffer for all connections, as in the code; a unit
of data stands for a message, and a `Read` returns any number of the units that are
there. A TCP connection takes `Room` units that nobody has read; no write has a
deadline, so `Forward` (io.Copy) and `PeerWrite` wait until there is room. A client may
stop reading (`Deafen`), and then `back` waits in its write until the client is gone. The websocket itself
takes any number of messages: what limits the client's sending is the bound. The proxy sends its whole buffer whatever it read (`BackRead` keeps
the empty rest), so a client receives more than it sent; `got` leaves the empty units
out. Steps of one goroutine between which nobody can look (leaving the loop,
`cancel`, `Done`) are one action. Clients and transport are external.

Run `websockets`, its part of the proxy (buffers and connections of two units; about
205,000 of its 355,329 states): two clients with two messages together, which are enough for one to
overwrite the other's data in the shared buffer; or one client with eight. Seven fill
everything on the way, and three are needed for a long read followed by a short one,
which shows what a stale rest of the buffer would do. `mixed` remembers that another
connection's read fell between a read and a write; the echo is then wrong, and
`EchoesOwn` says that this is the only way. A client that does not read, sends enough
to fill everything and leaves ends `back`, while handler waits in io.Copy for the echo
server and the echo server in Write for `back`: both stay for good. The run reaches this
state, and `Released` names it (`Clogged`) as the only exception; `Echoed` shows that a client
that goes on reading gets everything, with all connections full. Fairness: goroutines run
and read deadlines pass. A client that stays silent after its peer has gone keeps its
session; the properties leave that out.

### SocksProxy: `socks/socks.go`

`handler` and `up` are the two goroutines of a connection, `slots` and `len` the
array under `Conns` and its length: `append` has two steps, removal ranges over
a copy of the length while the list may change. `raced` remembers that a handler
used the list while another was changing it; after that the list may hold wrong
entries or an index be out of range, which ends the process for all clients.
Greeting and request are three units each, so that `io.ReadAtLeast` and the
following read may each get a part, or one of them data of the next message when
the client is `eager`. What clients ask for (the versions in greeting and request,
command, address type, length of the name) is the constant `Requests`, and each is any byte;
the index arithmetic on the name
is that of uint8 and of slices. With `-v` (`Verbose`) the log line of a request indexes
three names of commands by the byte less one, and panics for 0 and all above 3
(`LogPanics`). `AcceptFails` makes `main` return. A panic in one handler, and that return, end
all the others. A client may close its sending side only; one that is
still there reads what it gets, so that writes to it do not wait.

Run `socks` (two clients, one unit each way after the request, with `-v`; 1,515,573
states):
requests of both types of address, unsupported versions, types and commands, one that is
no command at all, and a name that
is too long. `EndsKnown` says of every end of the proxy which of the three causes it has: `main`
returned, the list was used by two handlers at once, or a request was one of those that
panic. `NotTurnedAway` and `NothingLost` are about partial reads and half-closed
connections, `Released` about the end of both goroutines. Fairness: goroutines
run; clients and remote hosts are not forced.

### HanuBot: `hanu`

`msg` is the single variable into which `Listen` decodes events, where a field
that an event does not have keeps its value; after an event was passed on it is
cleaned. `tasks` are the goroutines that have not run yet, of `process` and of
command handlers. A text is its mention of the bot and its tokens, so that
stripping the mention and the markup of links is modelled by what it does. (`StripLinkMarkup`
takes the first two bytes of a link, message.go:77, and would panic for a link of
fewer. Slack escapes what users type, so that a link it sends has an address or an
identifier; a shorter one is not among the tokens.) Slack,
the patterns (package allot) and the handlers are external.

Run `websockets`, its part of the bot (eight kinds of events, two commands, three events;
150,162 states): events
that cannot be decoded, messages of other bots and of the bot itself come between. No
event that cannot be decoded has the bot as its user.
Only after an event that could not be decoded may a field of it be used for the
next one, which `RepliesJustified` excepts. Fairness: the loop and its goroutines
run; Slack is not forced.

### FileParts, GeoCache: `multithreadReadfile`, `scan_ip_net/main.go`

Two programs that read a file and end; one run checks both, in each behaviour one.

In `FileParts` a text is its size and the positions of its spaces. `main` goes on
adding to `current` while the goroutines read it, which is a data race: a
reader may begin at any value that `current` has had by then. `Receive` is the
unbuffered channel. `CountsExact` compares the result of the loop with a direct
definition, `Part`, of the words in a part. Three kinds of words lie in no part, and
the code counts them nowhere: one that begins exactly at the offset of the second part
(the reader skips it although it is whole), one that ends with the file, and what
lies behind two parts.

In `GeoCache` the service answers a batch or fails, as often as it likes; saving
truncates the file (`Truncate`) and writes it (`Write`), either may fail, and the
program may be killed at any step and started with another login file. A
file that was cut off is not valid and loads as empty. So does a cache file that exists
and cannot be read: `loadFromCache` logs that and goes on, in `init` and again in `main`
(`LoadAgain`), and the next save replaces the file. `read` remembers whether one of the two
could read it; what a run that could not has lost is no longer in `safe`, which remembers what
the file must still have. A login file that cannot be opened is one without lines.

Run `batch` (texts of up to eight bytes in parts of three; logins of up to three lines
in batches of two, three starts, one failed save; 7,257,616 states): parts with words
that begin before, at and behind the border, and beyond the second part; a last batch
that is not full, the same line twice, a kill in every step. No fairness is assumed:
both properties of `GeoCache` are about what is there when it ends. The run of two programs
holds the behaviours of each, as above.

## Proofs

Eight modules prove all safety properties of the passing runs,
for every value of the constants. Each assumes only the named assumption of its
component, which says that bounds are numbers and, where something is counted, that sets
are finite. Every proof has one step per action; an invariant is stated as a conjunction
of named parts, and a step disturbs few of them.

`WorkerPool_proofs` (any jobs, finitely many workers, any queue):

* `TypeCorrect`: `TypeOK`, inductive as it stands.
* `BenchSafety`: `BenchAccounted` is inductive together with `PlayersBusy`: a job
  that is being played occupies a worker of its own that is in `play`. Without
  it nothing says that a worker which registers again has no bench out.
* `NeverBlocks`: a pigeonhole argument on `BenchAccounted`. The registering
  worker's bench is not queued and queued benches are distinct, so at most all
  other workers are in the queue.
* `QuitAfterDrain` and `ClosedOnce` need `QueueInv` (what is in the queue is what
  is queued, once) and `StopInv` (workers are stopped only after the drain).
* `Refinement`: every step of the pool is a step of `JobLedger` or a stutter.

`LogPipeline_proofs` (any number of files, any capacities):

* `FailureReturned`: `NoErrorSwallowed`, from `ControlInv`. A stage gives up for the
  context only after an interrupt or a failure (`Caused`), and a stage that ends
  with no error has seen the end of its input (`Ends`).
* `ReportComplete`: `CompleteReport`, from `FlowInv`: while no stage has dropped a
  file, the output, the channel behind Read, the hand of Read and the channel before it
  hold, one after the other, the files that Walk has visited. At the end the channels
  are empty by `Ends`, so the output is everything.
* `ChannelsBounded`: `TypeOK`, from `ChannelInv`: no channel exceeds its capacity, and
  Read has a file in hand whenever it is about to send (`Loaded`).

`LogRotation_proofs` (any writers, limits and numbers of an archive):

* `NameIsFree`: the least free number exists, since the natural numbers are well-founded.
* `NoneDropped`: `DroppedOnlyInTrouble`, from `LockInv`: one writer rotates at a time,
  the file is closed while it is moved, and outside of trouble it is closed only
  while a rotation holds the lock that a print needs.
* `LinesKept`: `Retention`, from `LineInv`: a file is at least as young as each of its
  lines, so that a deletion by the time of the file spares the lines to be kept; a
  printed line is new, and a file is moved to a free name. Ages are compared to the hour, of which a
  day may have any number.
* `LimitHolds`: `FilesNearLimit`, from `CountInv`: the lines of the open file and the
  writers that have yet to print are at most what was counted and one for each other writer. A
  restart, which counts one line too many, is on the safe side. It needs `Writers`
  to be finite and not empty.
* `RotationTyped`: `TypeOK`, from `LockInv`, `CountInv` and the types that these two leave
  open (`TypeInv`).

`StunDiscover_proofs` (any number of requests per test): `NeverTooOpen` (`Sound`),
`RightKind` (`Exact`) and `NotMisled` (`OwnAnswers`), from one invariant: what is on its way was
sent by the server for the test it names (`Genuine`), nothing went to the changed
address before the third test (`Sending`), and what the earlier tests have shown
about the NAT is true (`Known`). `ClientTyped` is `TypeOK`.

Its first part is about `StunPacket`:

* `RequestArrives`: `Carried` for any transaction id of twelve bytes and any name, of any
  length, with which the request fits in a datagram; `RequestFits` says that a name of up
  to 65,000 bytes does, so that this is no empty hypothesis. Of the checksum only the
  length of four bytes is used.
* `ResponseArrives`: `AddressesRead` for any response with at least one attribute that
  fits in a datagram (`FromServer`): attributes of any types, in any number and order, with
  any ports and any addresses of 4 or 16 bytes. Without an attribute the response is only a
  header, which `newPacketFromBytes` refuses.
* `CutNotMisread`: `CutIsPrefix` for the same responses.
* `RequestsKept` (`RequestCarried`) and `ResponsesKept` (`ResponsesRead`) apply these to
  the packets of the run.

The argument for a packet: what is on the wire is a head of twenty bytes and pieces,
one for each attribute (`Joints` says at which position each begins, by induction on their
number). The loop of `newPacketFromBytes` stands, after k rounds, at the k-th joint and has
added the first k attributes, or has passed the end (`LaysRead`, `PacketRead`). It is a
recursive function on `0..Len(b)`, whose rounds suffice because a piece has at least four
bytes. At a cut the same holds up to the piece that is cut, of which `TooLong` is true. That
a request has this form is `Sized`, an invariant of `addAttribute`: the length field is
that of the attributes; `Signed` then adds the fingerprint, whose bytes precede it as they
were summed. Of a response, `AddressIs` says that an attribute gives back the host
that was written into it, since the exclusive or with the same key twice changes nothing, which is
proved by halves from bits (`XorBits`) to words (`Xors16`); and `FirstRead` that the first
attribute of a type, which the client takes, is the first that was sent.

`SampleRates_proofs` (any processes, handlers, uris and rates, with the reports beside them):
`LockRight` (`TypeOK`): the lock of each process has one writer or any readers, since whoever takes it finds
no writer; `PullsAgree` (`PullConsistent`), from that exclusion
and from what a reader has seen being what the map holds while it has the lock;
`FileKept` (`FileCurrent`): unless a dump has left the other process behind, all running
processes hold the same, a change that is in the map of one and not in the file has a
dump ahead of it, and a dump that runs alone has read the map as it is; `StoresKeep`
(`ReportsKept`): each sample before the one that a handler is at was saved in both
stores or refused by them, and under the key of every point that was written there is
one of those written there.

`Tables_proofs` (the three programs that fill a table from what others tell them):

* `DeletesBeforeReturn`: `UnregisterDeletes` of `EtcdDiscovery`, from the handshake of
  the two goroutines. After the deletion nobody puts the key again, since the process
  that would is still serving. A deletion that failed is recorded before the reply.
* `ResolverRight`: `WrongOnlyByGet`, from `WatchInv`: the store of etcd holds the keys
  whose last event put them (`StoreIsLog`), and of the entries that the watch keeps
  under keys the same is true of the events it has seen (`KeysAreSeen`). Both sides
  then agree when everything has been seen. `LastDecides` is what `ApplyAll`, which goes
  through a response event by event, does to one entry.
* `Kept`: `SavedKept` of `GeoCache`: a running program that could read the file, in `init`
  or in `main`, has in memory whatever the file must keep, and the others keep nothing.
* `FinishedComplete`: `RunComplete`, from `BatchInv` (the lines behind the program have
  an answer, and as many batches as `loop` says reach the last line, also when the last
  one is short) and `FileInv` (each line is in the cache or among those to look up).
  `NoneForgotten` is what the loop of `getNoCacheIp` chooses.
* `CountsAreExact`: `CountsExact` of `FileParts`, from `PartsInv`: for each reader, the
  words that begin between the start of its part and where it is were handed over, the
  one it is about to send included; a word is counted by each reader that has handed
  it over; and the wait group counts the readers that have not left. `PartIs` says
  that what a reader hands over until it stops is `Part`.
* `DiscoveryTyped`: `TypeOK` of `EtcdDiscovery`, inductive as it stands.

`ApplyAll`, `getNoCacheIp` and the loop of `newPacketFromBytes` are recursive functions. An induction theorem of the
library cannot be instantiated by the provers, but it is not needed: `FromZero` is
induction with a set instead of a predicate, proved from the least member of a set
of natural numbers (`Least`). With it, `EntriesExist`, `ChosenExist` and `LoopsExist` show
that the recursive functions exist, and the lemmas that follow what they compute.

`SocksProxy_proofs` (any clients, requests of any bytes, with and without `-v`, any amounts of
data in any pieces):

* `TypesKept`: `TypeOK`. That the list never grows beyond the number of clients, also when
  handlers race for it, needs `Bounded`: a length that is stored is one more than a
  length that was there before.
* `ListIsExact`: `ConnsExact`, from `ListInv`: while no handler has used the list when
  another was changing it, at most one changes it, it still knows the length, and
  the connection it removes is in what is left of its range until it is found.
* `EndIsKnown`: `EndsKnown`, from the same invariant: the index that the range has found is
  in the list, so it does not panic unless there was a race; what else ends the proxy is the
  return of `main` and the two panics that follow from what a client has sent, which
  `asks` still says.
* `AllPassedOn` (`NothingLost`) and `AcceptableAdmitted` (`NotTurnedAway`), from
  `SessionInv`: where the handler is tells how much was read and passed on; each of the
  two copies holds what it has taken and not delivered.

`Servers_proofs`, one section for each of three servers:

* `OwnEchoed`: `EchoesOwn` of `EchoProxy` (any sessions, messages, size of the
  buffers and room in the connections), from `ProxyInv`: what a client has sent is, numbered without a gap, in its
  hand again (`Received`), in the hand of the proxy and before it (`Returning`), in the
  buffer of the echo server, before that, and before the proxy (`Going`). The second part
  is lost when the client leaves, the third when one of the two connections is closed,
  and all of it when the shared buffer was overwritten (`mixed`); `Elsewhere` says that a
  session disturbs another in no other way. It assumes that the empty unit is no message.
* `Justifiable`: `RepliesJustified` of `HanuBot` (any commands, patterns, answers and
  events), from `BotInv`: `msg` is empty unless the last event could not be decoded, so a
  goroutine works with the fields of its own event (`TaskRight`); of one event there is
  either its `process` or one goroutine for each of some commands (`Apart`), none of
  which was replied already (`Unreplied`). `AsksIs` relates what `process` does with a
  text to what the event asks for.
* `AlwaysServed`: `NoOutage` of `GracefulRestart` (any clients, processes and faults), from
  `RestartInv`: unless there was a trouble, either the first server has no
  listener yet, or some process holds the listener and has not begun to shut down;
  hence the queue of the socket is never reset.
* `OneListener`: `TypeOK` of `GracefulRestart`, from `SocketInv`: whoever has a
  listener has the same one, and only a running process has one, also after a trouble.

The three `violation` runs beside `pipeline_nil` show the defects named above: `etcd_delete`,
`etcd_get` and `rates_conf`. Their properties are what the repository says of the
program, and the properties of the passing runs except what they show.

Model-checked only: all liveness properties, which need fairness and ENABLED and are
out of reach of the provers: `EveryJobPlayed`, `ShutdownCompletes`,
`Terminates`, `WriteReturns`, `DeadVanish`, `Returns`, `Answered`, `Released` (twice),
`Echoed` and `AllAnswered`. Every other property of the passing runs is stated by a theorem.

## What is not modelled

The parts marked `not_modelled` in `PROJECT.json`: those of the plan that are
still to come, and demonstrations, generated code and pure I/O, which keep no
state worth checking. Payloads, log texts, byte counts and formats are left out
of the models throughout.
