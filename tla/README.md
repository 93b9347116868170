# anytls-go: TLA+ models, model checking and proofs

anytls-go carries many proxied TCP connections (and UDP over TCP) over few TLS
connections. A client keeps a pool of *sessions*, one TLS connection each; a
session carries *streams*; a server accepts the streams and relays each one to
its destination. This directory holds the models of that code, the checks TLC
makes on small instances, and theorems that TLAPS proves for all instances.

Source paths below are relative to `src/`.

## 1. The system

| part | source | state | operations | hard behaviour |
|---|---|---|---|---|
| session pool | `proxy/session/client.go`, `util/routine.go` | `sessions`, `idleSession`, `idleSince`, `sessionCounter`, `die` | `CreateStream`, `getIdleSession`, `createSession`, the two `dieHook`s, `idleCleanup`, `Close` | hooks run in whatever goroutine ends a stream or a session; tests and updates are under different locks |
| session, streams | `proxy/session/session.go`, `stream.go`, `frame.go`, `util/deadline.go` | `streams`, `buffer`, `buffering`, `peerVersion`, `synDone`, `die` on each side | `OpenStream`, `recvLoop`, `acceptStream`, `refuseStream`, `streamClosed`, `Close`; `Read`, `Write`, `Close`, `HandshakeSuccess/Failure` of a stream | two event loops, one goroutine per stream, a timer, a connection that fails; SYN is sent before its stream is registered |
| pipe | `proxy/pipe` | the hand-over channels, two sticky errors, a deadline | `Read`, `Write`, `Close`, `SetReadDeadline` | deadline replaced while its timer fires |
| padding | `proxy/padding`, `doWriteConn` | the scheme, `pktCounter` | `UpdatePaddingScheme`, `GenerateRecordPayloadSizes`, the splitting loop | lengths cut to 16 bits |
| client program | `cmd/client` | none of its own | `CreateProxy`, `NewConnection` | caller of the pool |
| server connection | `cmd/server/inbound_tcp.go`, `outbound_tcp.go` | the session, attached statistics and limits | authenticate, attach, run, detach; the stream handler | every exit must undo what was acquired |
| statistics | `stats` | users, connections, traced streams | `Attach`, `Detach`, `Clear`, `Kick`, `TraceStream` | entries dropped while streams still count |
| limiter | `limiter` | devices with reference counts, token buckets | `Acquire`, `Release`, the wrapped `Read`/`Write` | shared buckets, burst bound |
| authentication | `auth` | positive and negative cache, slots | `Authenticate` | concurrent lookups, timeouts |
| routing | `cmd/server/acl.go`, `acl` | rules, per-stream decision cache, lazy socket | `selectRoute`, `WritePacket`, `ReadPacket`, `Close` | `Close` racing the lazy open |
| resolver, outbounds | `resolver`, `outbound` | idle connections | `exchange`, `Resolve`; SOCKS5 negotiation | connections closed by the server, late replies |
| certificate loader, geo loader, configuration | `util/tls_cert.go`, `acl/geoloader.go`, `config` | the loaded files | reload | files replaced one after the other |

The parts meet in a session: the pool calls `OpenStream` and closes sessions,
`recvLoop` calls stream hooks that put sessions back into the pool, the server's
handler reads, answers and closes the streams that `recvLoop` made. On the server a
connection holds entries of the registries for as long as it runs, and each of its
streams leaves through the policy.

## 2. Modules

| module | models | extends |
|---|---|---|
| `ClientPool` | the pool, with each session and stream reduced to its life cycle | |
| `Session` | one session from both sides, with its streams, handlers and watcher | |
| `ByteStream` | what a session promises of each direction of a stream; instantiated by `Session` | |
| `Pipe` | the pipe between `recvLoop` and the reader of a stream, with its deadlines | |
| `Padding` | `doWriteConn`: buffering, padding scheme, records; waiting for the rate limit and writing in chunks | |
| `Connections` | the two constants that `Auth` and `Stats` share | |
| `Auth` | the authenticators: password, HTTP backend, cache, negative cache, slots | `Connections` |
| `Stats` | the registries of users, devices, traced streams and rate limits | `Connections` |
| `Server` | composition: a server connection and its stream handlers use `Auth` and `Stats`; the HTTP API | `Auth`, `Stats` |
| `Acl` | compilation of rules, all matchers, first-match evaluation, the engine's cache | |
| `Policy` | startup, `selectRoute`, the TCP request | `Acl` |
| `Relay` | composition: the UDP side of a stream, beside TCP requests through the same policy | `Policy` |
| `Resolver` | DNS lookups with retries, aliases and a pool of connections | |
| `CertLoader` | the certificate that is reloaded while handshakes are served | |
| `GeoLoader` | download, check, replacement and load of the geo databases | |
| `ClientPoolProofs`, `RelayProofs`, `FilterProofs` | theorems, section 5 | the modules they are about |
| `MCClientPool`, `MCSession`, `MCServer`, `MCEgress`, `MCParts` | constants for the runs | the modules they check |

Definitions marked "Mutant" are not part of a model. Each is a plausible bug in
the definition after it; with the mutant in its place, TLC finds the property
named for it in `PROJECT.json` violated.

### ClientPool

`Streams` is the set of goroutines that serve inbound connections. Each makes one
`CreateStream` call after another, so it also names its current stream. A session
is its `seq`. A step is what a goroutine does between two points where another can
interfere: a lock, a test of a channel, an atomic, or the unsynchronised field
`stream.dieHook`.

* `pc[t]`, `sess[t]`: the call. `get` and `create` are the two ways to a session,
  `list` is between the dial and the entry into `c.sessions`, `open` is `OpenStream`,
  `opened` is before the assignment of `stream.dieHook`.
* `stream[t]`: the stream. `dead` is after `dieOnce`; `check`, `checkDie` and
  `insert` are the three tests and updates of `dieHook`.
* `sessPc[s]`: the session. `died` is after `dieOnce` of `Session.Close`; then the
  session's `dieHook` leaves the pool (`unidled`) and `c.sessions` (`unlisted`), and
  the streams are swept (`closed`).
* `idleSession`, `stale`: the skip list, whose order is that of `seq`, and the
  entries whose `idleSince` is too old. `GoesStale` is the passing of time.
* `doomed`, `routine`: the cleanup's `sessionToClose`, and the loop of
  `StartRoutine`, which tests its context after a run only.
* `reused`: sessions that have been pooled. On a new session the SYN waits in the
  buffer until the caller of `CreateStream` writes, so the server cannot end the
  stream before the hook is assigned; on a reused session it can.

What ends a session from inside (a failed read or write, the SYNACK timeout) is
`SessionDies`, possible at any time.

### Session

The connection is a FIFO of frames each way (`wire`). It delivers in order and,
when `Faults` is set, may fail under any read or write. A frame is its command, its
stream id and the little of its payload that matters: for data the stream and a
serial number, for a SYNACK whether it carries an error, for a FIN the number of
data frames before it (a ghost used by one property).

* `life[e]`: `open`, `died` (after `dieOnce`, the deadline set), `closed` (swept).
* `st[e][i]`: the stream object: `live`; `closing` and `finned` are inside
  `closeWithError` before and after the FIN; `dead`.
* `recv[e]`: where `recvLoop` is: reading, blocked in the pipe (`deliver`), inside
  `closeWithError` (`close`), or between reading a frame and acting on it (`accept`,
  `settings`, `version`, `fin`), so that `Close` may come in between.
* `opener`, `writer`, `handler`, `watcher`: the progress of `OpenStream`,
  `Stream.Write`, the server's handler and the deadline watcher. `OpenStream` writes the
  SYN, ends the buffering and registers the stream in three steps, under two locks. A
  watcher is `due` when its timer has run out and `race` when it has also been stopped:
  `select` may then take either.
* `reported`: the streams whose `reportOnce` is done. `broken`: a TLS write of the
  client has failed, and no later one succeeds.

A behaviour starts (`Starts`) with a new session or with a used one, back from the
pool: its settings have been exchanged and its first stream has come and gone, ended by
`requestTimeout`. The SYN of a new session waits in the buffer until its stream is
registered and has no watcher; that of a used one goes out at once and has.

`Exclusive` says that `OpenStream` is called by the pool, one stream at a time; without
it streams are concurrent, as the protocol allows. Version 1 in `ClientVersions`
stands for older clients, which the server supports. `Closers` names the sides on which `Close` may be
called from outside (the pool's cleanup or `Client.Close`; `Kick` on the server).

The pipe is used by its contract: unbuffered, so `recvLoop` waits until the
stream is read or closed. `Pipe` is where the contract is checked.

`RefinesByteStream` states that the session implements `ByteStream`. The mapping
takes direction (e, i), stream i as side e reads it, to: what the peer has sent on
stream i; what e has read of it, with a piece that belongs to another stream mapped
to a number no sender uses; and whether e has not begun to close the stream.

Left out of `Session`: padding (`Padding` has it; cmdWaste has no effect on the
receiver, and a new scheme only changes how the client cuts its records), heartbeats
(nothing in this code sends a request), an alert at the client (`SettingsFirst` shows
that none is sent to it), UDP over TCP, stream deadlines other than `requestTimeout`.

### Pipe

Steps are those between which another goroutine can act: a `Wait` on the deadline, the
first look at `done`, `wrMu`, a meeting at `wrCh` or `rdCh`, the halves of `Set` before
and after its wait for the channel a fired timer is about to close. Cancel channels are
numbered as they are made, so that a waiter with an outdated one can be told apart.
A deadline is none, in the future or in the past.

### Padding

A byte of the frames is its number, so that loss, duplication and disorder show; padding
is 0 and the header of a waste frame carries the length it announces. The width of the
length field and of `Stop` are constants. A scheme's random size is any of its range.

Only the client pads and only the server limits. With a limit a control frame (`control`)
waits for the bucket before it takes `connLock` and then bypasses the limit, while data
waits under the lock (`need`); both wait and write by chunks of at most the burst.
`granted` counts what `WaitN`, external, has let pass.

### Auth, Stats, Server

`connPc[c]` follows `handleTcpConnection` with its deferred calls in their order,
`authPc[c]` the call of `Authenticate` inside it, `strmPc[s]` the handler of a stream.
An object that Go allocates (`*UserStat`, `*Conn`, `*Device`) is named by the connection
whose call made it. Everything done under one mutex is one step, except `Clear`, whose
steps take each user's lock in turn while it holds `r.mu`, and `Detach`, which looks the
record up and changes it under two locks. `identity[c]` is the pointer that the
connection keeps, which is how traffic can reach a record that has been dropped. A
stream may run on after its connection has ended. The backend may change its answer,
fail or time out; `given` remembers what it ever said.

### Acl, Policy, Relay

An address is a family and a number of `IPBits` bits, an IPv4-mapped one being of
family 4 also in the place of an IPv6 one (`To4`, `Unmap`); a name a sequence of letters, a
rule a record: the syntax of rules is not modelled, what compilation makes of them and
when it refuses is. The engine's and the stream's caches evict an arbitrary entry, which
allows more than LRU does. `hostInfo` answers from the set a setup gives, a different
answer each time if the set has several. A setup is one configuration with the
destinations that are asked for.

`req[p]` is a request in `selectRoute` and after it: destination, resolver's result,
rules' answer, route. `Uot` is the goroutine that writes a stream's packets; with `rd`
(the reader), `closer` (`Close`) and `mu` it makes up `routedPacketConn`. `socks[p]` are
the sockets open. A SOCKS5 association is a control connection and a socket, and ends
when either does.

The copy loop around the relay (`bufio.CopyPacketConn` of sing) is external: it closes
both sides when a direction has failed or the context is done.

### Resolver, CertLoader, GeoLoader

`look[t]` is a lookup for one record type, with the connection it talks over. The name
server's content is a zone, and it puts any part of the chain of aliases into an answer,
or nothing: a response code is not looked at by the plain resolvers, so a failure of the
server is the same as an answer without records. `withheld` remembers that a lookup
ended with such an answer for a name that has something. `dnsStale` are the connections
on which a query has given up.

A certificate file's content is its version, 0 while it is half-written, and its mtime
the number of the write. `hs[h]` is what a handshake has seen of the files so far.

A geo database is good, broken, empty or missing; `Restart` may come at any point, and
the download, its check and its renaming may each fail. `geoHad` remembers which
databases could be loaded at some time.

## 3. Runs

### The pool

| run | instance | shows |
|---|---|---|
| `pool` | 3 goroutines, 2 sessions, minimum 1 idle, with and without `disableReuse`, symmetry over goroutines | `TypeOK`, `ExclusiveUse`, `ListedUntilRetired`, `NoStreamOutlivesSession`, `ClosedClientPoolsNothing`, `SingleUse`, `CleanupSparesNewest` |
| `pool_live` | 2 goroutines, 2 sessions, minimum 0, fair | `IdleIsReclaimed` |
| `pool_dead_pooled` | 2 goroutines, 2 sessions | **violated**: `PooledIsUsable` |
| `pool_stranded` | 2 goroutines, 2 sessions | **violated**: `SessionGoesBackToPool` |

Three goroutines are one more than sessions: two can compete for a pooled session
while a third ends its stream. Two sessions make the pool's order and its minimum
matter. `pool_live` explores only states in which the client lives (constraint
`ClientOpen`), since the property is about those; client death is final. No run
switches deadlock checking off for the pool: it always has something to do.

### The session

| run | instance | shows |
|---|---|---|
| `session_data` | 1 stream, 2 frames each way, stale scheme, both sides close, faults | `RefinesByteStream`, `FinAfterData`, `SettingsFirst` |
| `session_streams` | new or used session, 2 streams, in succession or concurrent, cap 1, data from the client on streams 1 and 2 | `StreamIntegrity`, `RegisteredWhileOpen`, `ClientSweepIsFinal`, `AnsweredOnce`, `AnsweredIsUnwatched` |
| `session_live` | new or used session, 1 stream, both sides close, fair | `PeerLearns`, `HandlersEnd`, `DieTogether` |
| `session_late_synack` | 2 streams in succession, version 2 | **violated**: `WatchedUntilAnswered` |
| `session_late_accept` | the server closes | **violated**: `CloseClosesAllStreams` |

`PeerLearns` speaks of a stream that is registered when the FIN or the error SYNACK that
ends it is under way. `docs/protocol.md:66` and `:74` make no such exception, but the
code has one: `OpenStream` writes the SYN before it registers the stream, and on a used
session, or with more streams than one, an answer handled in between finds no stream;
the stream is registered afterwards and stays open. That takes more streams at once than
the cap of 1024, or a pause of `requestTimeout` (10 s) between two statements of
`OpenStream`.

`AnsweredIsUnwatched` is about watchers that are armed or due. One that had run out
when it was stopped may still close the session: `select` chooses.

Two streams are enough for one stream's late frames to meet the next one, and on a used
session for an armed watcher to be replaced by the next; `Senders` and `Repliers`
bound the streams on which client and server send data. Two data frames show order and the meeting of data with
FIN; a cap of 1 is reached with two streams. `Exclusive` is off where streams may also be concurrent: those runs include
the pool's use of a session. Deadlock checking is off for sessions: a session whose bounded number of
streams has ended has nothing left to do.

### The server

| run | instance | shows |
|---|---|---|
| `server` | 2 connections, 2 hosts, 2 users, 2 streams, 1 slot, five configurations, symmetry over connections, hosts, streams and connection ids | `SlotsExact`, `OnlyVerdictsCached`, `DevicesShared`, `AttachedIsRegistered`, `StreamRowsDistinct` |
| `egress` | 18 setups, 2 TCP requests and a UDP stream, 3-bit addresses, caches of 2 and 1 | `FirstRuleDecides`, `FilterHolds`, `SocketsOwned`, `CloseEndsRelay` |

Two connections are what it takes to share a device, a user record or a slot, and to
separate them again; two hosts and two users make them differ. A configuration also
bounds the load (`opens`, `api`): the ones that concern authentication open no streams,
because nothing of a stream depends on how the connection was admitted. `MaxCount` and
`MaxChanges` of 1 let a byte be counted at any point and an answer of the backend be
outdated. Connections are used once, so the server stops (no deadlock check); the
registries do not remember earlier ones.

Each setup of `egress` asks one question: bisection in address lists, also of both
families; inverted lists; an IPv4-mapped answer; names and patterns; ports and protocols with answers that
change under the caches; packets for different outbounds in one stream; the private
filter with a local and a SOCKS5 outbound; a pinned resolver; configurations that must
not start. `FirstRuleDecides` compares the route with a plain reading of the rules, in
which a list is searched entry by entry.

### The other parts

Run `parts` checks `Pipe`, `Resolver`, `Padding`, `CertLoader`, `GeoLoader` and once more
`Server`, for its liveness. They share no state; in each behaviour one of them (`focus`)
moves.

| part | bounds | shows |
|---|---|---|
| pipe | 1 reader, 2-byte writes, 1-byte reads; 2 writers and 1 call of `Set`, or 1 writer and 2 calls | `WaiterSeesDeadline`, `PipeGated`, `PipeCallsEnd` |
| resolver | 4 zones over 3 names, alias depth 1, pool of 1, the three kinds of resolver | `DnsConnsOwned`, `LookupRight`, `ResolveReturns` |
| padding | 2 schemes, 4 frames of 1 or 3 bytes, burst 2 or none, 3-bit lengths | `PaddingTransparent`, `LimitExact` |
| certificates | 2 renewals with 1 handshake at a time, 1 with 2 | `CertCatchesUp` |
| geo databases | all initial files, with and without download | `GeoStartsAgain` |
| server | 2 connections, 1 user, no streams | `KickedEnds` |

Two bytes against one-byte reads make a write take two rounds, in which a second writer
or a deadline can come; two calls of `Set` replace a deadline that has fired or is about
to. The zones have a chain within the depth, one beyond it and a cycle; with a pool
of 1 the two queries compete for it. The sizes in the schemes lie below the width of the
length field (`SizesFit`), see section 6; a frame of 3 bytes takes two chunks of the burst
of 2. The parts that are bounded stop, so there is no deadlock
check.

### Fairness

Goroutines that can run do run (each side's `recvLoop`, `OpenStream` once called, a
write once begun, the steps of `Close` and of the hooks), timers run out, a dial
returns, and both applications read from their streams, as `CopyConn` does. A relay
has to end only after its stream has been closed. Nothing has to open, write, close,
or fail. For the pool, the cleanup routine keeps ticking and time passes.

For the pipe: calls that have been made go on and timers fire. For the resolver: queries
have timeouts. For the certificates: time passes, handshakes keep coming, a renewal that
has begun is ended. For the relay: resolution and dials have timeouts, the copy loop
closes what it copies and a stream that it has closed yields no more packets. For the
server: reads, backend calls and slots have timeouts, a request that is being served is
served, and what `Kick` starts with `go` runs.

Weak fairness is enough everywhere except for a connection on the server: `Clear` may
hold `r.mu` again and again while the connection waits for it. `sync.Mutex` hands itself
to a waiter after a millisecond, which is strong fairness.

## 4. Findings

1. `PooledIsUsable`, `client.go:110-127`. The stream's `dieHook` tests that the
   session is open, then inserts it. A session that dies in between has already run
   its own removal: it is pooled dead, until a `CreateStream` call takes it and fails
   or the cleanup drops it.
2. `SessionGoesBackToPool`, `client.go:109` against `docs/protocol.md:167`. The hook
   is assigned after the stream was registered. On a reused session `recvLoop` can end
   the stream first. The session is then open, in `c.sessions`, in no pool, and only
   `Client.Close` or the peer ends it.
3. `WatchedUntilAnswered`, `session.go:257` against the comment at 417-419. Any SYNACK
   stops the current watcher, the late one of an earlier stream included.
4. `CloseClosesAllStreams`, `session.go:396` against the comment at 141. A SYN that was
   read before the server's `Close` is accepted after it. `HandlersEnd` shows that the
   handler still ends, through `requestTimeout`.

## 5. Proofs

`ClientPoolProofs` proves, for any set of goroutines, any number of sessions and any
minimum (assumption `PoolAssumption`), with and without `disableReuse`:

| theorem | states |
|---|---|
| `TypeCorrect` | `Spec => []TypeOK` |
| `PoolExclusive` | `Spec => []ExclusiveUse` |
| `NoLeakedListing` | `Spec => []ListedUntilRetired` |
| `StreamsSwept` | `Spec => []NoStreamOutlivesSession` |
| `ClosedPoolDrained` | `Spec => []ClosedClientPoolsNothing` |

None of these is inductive alone. The inductive invariant `IInv` adds

* `Life`, how the stages of calls, streams and sessions go together: a session
  beyond the counter does not exist yet; the one a call has just dialled is `dialed`
  and nobody else's; a stream that lives has a session that has not been swept; what
  is pooled, listed or doomed has been opened. Exclusive use needs it so that a new
  session is not one that is held already, and the sweep argument is part of it.
* `Drained`, what remains to be closed while `Client.Close` runs: after the snapshot
  an open session in the pool is one the snapshot still holds, and one that a hook is
  about to insert is too. This is why the late insertion of `dieHook` does no harm.
* that nothing is doomed while the cleanup sleeps, so that a new cleanup does not
  forget the sessions of the last one.

The proof that a step preserves `IInv` has one lemma per goroutine or lock: a session
closing, a call, a hook, `Client.Close`, getting a session from the pool, the cleanup.
`IInv` was checked with TLC on two goroutines and two sessions before it was proved.

`RelayProofs` and `FilterProofs` are about `Relay`, for any configurations, rules,
destinations, answers and number of TCP requests:

| theorem | states | assumes |
|---|---|---|
| `SocketsAlwaysOwned` | `RelaySpec => []SocketsOwned` | `UotAssumption`: the packet writer is no TCP request |
| `FilterAlwaysHolds` | `RelaySpec => []FilterHolds` | also `AnswersAssumption`: an answer has an address or nil for each family, and nil is not private |

`SocketsOwned` is not inductive: it does not say who may be between opening a socket and
recording it. `RelayInv` adds that `mu` is held exactly while a socket is being opened,
that there is then neither a socket nor a `Close` yet, that `ready` has been closed once
if there is a socket or a `Close` and not otherwise, and that a writer past the lock has
a socket.

`FilterHolds` speaks of a request that may leave. `FilterInv` adds that the result a
request holds while the rules are consulted is one `hostInfo` gave for its destination
(`RouteFiltered` needs that: a literal is checked through it), and that every decision in
the stream's cache was filtered with the result stored beside it, so that a packet served
from the cache is as good as one that was resolved. Nothing is needed about the rules'
answer or the engine's cache: the filter does not depend on them.

Only model-checked: `CleanupSparesNewest` (it needs the value of a recursive count),
`SingleUse`, `FirstRuleDecides` (bisection and matching recurse over data), everything
about `Session` with its refinement of `ByteStream`, `Auth`, `Stats`, `Server`, `Pipe`,
`Padding`, `Resolver` and the loaders, and all liveness (out of the prover's reach).

## 6. What the models show beside the properties

These are consequences of the code that the modules state as they are; no document of
the repository says otherwise, so they are not findings.

* `Padding`: the length of a waste frame is cut to 16 bits. `PaddingTransparent` holds
  for schemes whose sizes are below 65536, which is its hypothesis `SizesFit`.
* `Resolver`: an empty answer, and over UDP, TCP and TLS an error code too, is no address
  and no error (`standard_test.go:148` expects that); there is no retry.
* `Relay`: a decision, a failed resolution included, lasts as long as its stream or until
  it is evicted. A packet for another outbound than the stream's first is dropped.
* `Policy`: when `HandshakeSuccess` fails, `proxyOutboundTCP` returns without closing the
  connection it has dialed (`dropped`); the garbage collector closes it.
* `Acl`: port "0" or a range from 0 matches every port; the bisection is right for lists
  whose networks do not contain one another.
* `GeoLoader`: an empty download is accepted as a database without lists and replaces a
  good file, although `shouldDownload` considers an empty file broken
  (`geoloader.go:43`) and downloads it again at the next start.
* `CertLoader`: a slow reload may put an older pair back until the next check. A file
  that is replaced by one with an older mtime is not noticed.
* `Stats`: a stream that outlives its device may share its row key with a stream of a
  later device. Bytes counted after `Detach` may go to a record that no report shows.

## 7. Not modelled

* Formats: HTTP requests and JSON, DNS messages, the SOCKS5 handshake's bytes, protobuf
  (`v2geo.pb.go` is generated), frame headers beyond what `Padding` needs.
* Parsing and validation of the configuration and of rule text (`config.go`, `parse.go`,
  `parseBandwidth`), flags and logging: pure functions, run once.
* IDNA and regular expressions: a regular expression is the set of names it matches.
  `isPrivateAddr` is a set of addresses.
* The token bucket (golang.org/x/time/rate): only its burst is used. Time is the
  possibility that a timer fires. The read side of `limitedConn`, which waits after a
  read and passes the bytes on whatever the wait returns.
* TLS, `mkcert.go`, the inbound of sing on the client, `StringMap`.
* Counters and times in the rows of the statistics, whose only use is to be shown.
