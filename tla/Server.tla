------------------------------- MODULE Server -------------------------------
(***************************************************************************)
(* A connection on the server from accept to close, with everything that   *)
(* it shares with the others: authentication (Auth), the registries of     *)
(* users, devices, streams and rate limits (Stats), and the HTTP API that  *)
(* reads and changes them.  The session itself (module Session) appears as *)
(* its life: it runs, its streams have handlers, it dies.                  *)
(***************************************************************************)
EXTENDS Auth, Stats

CONSTANTS
  MaxCount,   \* bound: bytes a stream counts
  Configs     \* configurations [auth: authenticator, stats: trafficStats.listen is set,
              \*   limits: bandwidth is set], with the load they meet [opens: bound on the
              \*   streams opened, api: requests that change the registries are made]

ASSUME ServerAssumption ==
  /\ MaxCount \in Nat
  /\ Configs \subseteq [auth : AuthModes, stats : BOOLEAN, limits : BOOLEAN,
                        opens : 0..Cardinality(Streams), api : BOOLEAN]

VARIABLES
  config,    \* the configuration main has read
  host,      \* remote address of a connection, without the port
  connPc,    \* where handleTcpConnection is
  held,      \* the *stats.Conn it acquired
  dev,       \* the *limiter.Device it acquired
  identity,  \* sess.Identity: the *UserStat Attach returned
  found,     \* the record Detach has looked up
  dead,      \* the session is closed
  kicks,     \* sessions with a pending "go s.Close()" of a Kick
  strmPc,    \* where the handler of a stream is
  owner,     \* the connection of a stream
  counted    \* bytes a stream has counted

connVars == <<config, host, connPc, held, dev, identity, found, dead, kicks>>
strmVars == <<strmPc, owner, counted>>
serverVars == <<authVars, statVars, connVars, strmVars>>

statsOn == config.stats    \* s.stats # nil
limitsOn == config.limits  \* s.limits # nil
Id(c) == answer[c]
Key(c) == <<Id(c), host[c]>>
Goto(c, pc) == connPc' = [connPc EXCEPT ![c] = pc]

ServerInit ==
  /\ AuthInit /\ StatsInit
  /\ config \in Configs /\ authMode = config.auth
  /\ host = [c \in Conns |-> Nil]
  /\ connPc = [c \in Conns |-> "accept"]
  /\ held = [c \in Conns |-> Nil] /\ dev = [c \in Conns |-> Nil]
  /\ identity = [c \in Conns |-> Nil] /\ found = [c \in Conns |-> Nil]
  /\ dead = [c \in Conns |-> FALSE]
  /\ kicks = {}
  /\ strmPc = [s \in Streams |-> "none"]
  /\ owner = [s \in Streams |-> Nil]
  /\ counted = [s \in Streams |-> 0]

-----------------------------------------------------------------------------
\* The first read gives a credential and Authenticate is called with it; or the
\* handshake fails, times out or is too short, and the connection is closed.
ReadCredential(c) ==
  /\ connPc[c] = "accept"
  /\ \/ /\ Goto(c, "auth") /\ Authenticate(c)
        /\ \E h \in Hosts : host' = [host EXCEPT ![c] = h]
     \/ Goto(c, "closed") /\ UNCHANGED <<authVars, host>>
  /\ UNCHANGED <<statVars, config, held, dev, identity, found, dead, kicks, strmVars>>

\* Authenticate has returned: without ok, or with a padding that is cut short,
\* nothing has been acquired yet and the connection is just closed.
Admit(c) ==
  /\ connPc[c] = "auth" /\ authPc[c] = "done"
  /\ IF answer[c] \in Ids
     THEN \/ Goto(c, IF statsOn THEN "acquire" ELSE "limit")
          \/ Goto(c, "closed")
     ELSE Goto(c, "closed")
  /\ UNCHANGED <<authVars, statVars, config, host, held, dev, identity, found, dead, kicks, strmVars>>

AcquireDevice(c) ==
  /\ connPc[c] = "acquire"
  /\ AcquireConn(c, Key(c))
  /\ held' = [held EXCEPT ![c] = devices'[Key(c)]]
  /\ Goto(c, "limit")
  /\ UNCHANGED <<authVars, config, host, dev, identity, found, dead, kicks, strmVars>>

AcquireLimits(c) ==
  /\ connPc[c] = "limit"
  /\ IF limitsOn
     THEN Acquire(c, Key(c)) /\ dev' = [dev EXCEPT ![c] = limDevices'[Key(c)]]
     ELSE UNCHANGED <<statVars, dev>>
  /\ Goto(c, IF statsOn THEN "attach" ELSE "run")
  /\ UNCHANGED <<authVars, config, host, held, identity, found, dead, kicks, strmVars>>

AttachSession(c) ==
  /\ connPc[c] = "attach"
  /\ Attach(c, Id(c))
  /\ identity' = [identity EXCEPT ![c] = users'[Id(c)]]
  /\ Goto(c, "run")
  /\ UNCHANGED <<authVars, config, host, held, dev, found, dead, kicks, strmVars>>

\* sess.Run returns because the peer or the network has ended the session, or because
\* a kick has closed it.  The deferred calls follow in reverse order: Detach in two
\* steps, Release, ReleaseConn, Close.
RunReturns(c) ==
  /\ connPc[c] = "run"
  /\ dead' = [dead EXCEPT ![c] = TRUE]
  /\ Goto(c, IF statsOn THEN "detach" ELSE "release")
  /\ UNCHANGED <<authVars, statVars, config, host, held, dev, identity, found, kicks, strmVars>>

DetachFind(c) ==
  /\ connPc[c] = "detach"
  /\ DetachLookup(Id(c))
  /\ found' = [found EXCEPT ![c] = users[Id(c)]]
  /\ Goto(c, "detaching")
  /\ UNCHANGED <<authVars, config, host, held, dev, identity, dead, kicks, strmVars>>

DetachSession(c) ==
  /\ connPc[c] = "detaching"
  /\ DetachRemove(c, found[c])
  /\ found' = [found EXCEPT ![c] = Nil]
  /\ Goto(c, "release")
  /\ UNCHANGED <<authVars, config, host, held, dev, identity, dead, kicks, strmVars>>

ReleaseLimits(c) ==
  /\ connPc[c] = "release"
  /\ IF dev[c] # Nil THEN Release(dev[c], Key(c)) ELSE UNCHANGED statVars
  /\ Goto(c, "releaseConn")
  /\ UNCHANGED <<authVars, config, host, held, dev, identity, found, dead, kicks, strmVars>>

ReleaseDevice(c) ==
  /\ connPc[c] = "releaseConn"
  /\ IF held[c] # Nil THEN ReleaseConn(held[c], Key(c)) ELSE UNCHANGED statVars
  /\ Goto(c, "closed")
  /\ UNCHANGED <<authVars, config, host, held, dev, identity, found, dead, kicks, strmVars>>

-----------------------------------------------------------------------------
StrmGoto(s, pc) == strmPc' = [strmPc EXCEPT ![s] = pc]

\* recvLoop has accepted a stream and starts its handler; the handler may run on
\* after the session has died and its connection has been closed.
StartStream(s, c) ==
  /\ strmPc[s] = "none" /\ connPc[c] = "run" /\ ~dead[c]
  /\ Cardinality({x \in Streams : strmPc[x] # "none"}) < config.opens
  /\ owner' = [owner EXCEPT ![s] = c]
  /\ StrmGoto(s, "read")
  /\ UNCHANGED <<authVars, statVars, connVars, counted>>

\* ReadAddrPort: it fails, or names a destination or the UoT magic address.
ReadDestination(s) ==
  /\ strmPc[s] = "read"
  /\ \/ StrmGoto(s, "closing") /\ UNCHANGED statVars
     \/ StrmGoto(s, "uot") /\ UNCHANGED statVars
     \/ /\ StrmGoto(s, "dial")
        /\ IF statsOn THEN TraceStream(s, held[owner[s]], Id(owner[s])) ELSE UNCHANGED statVars
  /\ UNCHANGED <<authVars, connVars, owner, counted>>

\* proxyOutboundTCP: no route or no connection, a failure to report, or the relay
\* starts.  proxyOutboundUoT: no request, or the relay starts.
StartRelay(s) ==
  /\ \/ /\ strmPc[s] = "dial"
        /\ \/ StrmGoto(s, "closing") /\ UNCHANGED statVars
           \/ /\ StrmGoto(s, "relay")
              /\ IF statsOn THEN SetState(s, "estab") ELSE UNCHANGED statVars
     \/ /\ strmPc[s] = "uot"
        /\ StrmGoto(s, "closing") \/ StrmGoto(s, "relay")
        /\ UNCHANGED statVars
  /\ UNCHANGED <<authVars, connVars, owner, counted>>

\* The relay has moved bytes and counts them for the user.  A copy that was under way
\* when the session died is counted after it.
Count(s) ==
  /\ strmPc[s] = "relay" /\ statsOn /\ counted[s] < MaxCount
  /\ AddTx(identity[owner[s]], owner[s] \in sessions[identity[owner[s]]])
  /\ counted' = [counted EXCEPT ![s] = @ + 1]
  /\ UNCHANGED <<authVars, connVars, strmPc, owner>>

EndRelay(s) ==
  /\ strmPc[s] = "relay"
  /\ StrmGoto(s, "closing")
  /\ UNCHANGED <<authVars, statVars, connVars, owner, counted>>

EndStream(s) ==
  /\ strmPc[s] = "closing"
  /\ IF traced[s] # Nil THEN UntraceStream(s) ELSE UNCHANGED statVars
  /\ StrmGoto(s, "end")
  /\ owner' = [owner EXCEPT ![s] = Nil] /\ counted' = [counted EXCEPT ![s] = 0]
  /\ UNCHANGED <<authVars, connVars>>

-----------------------------------------------------------------------------
\* The HTTP API.  /traffic?clear runs Clear, POST /kick lists the sessions of the ids
\* under r.mu and closes each in a goroutine of its own; the other requests only read.
TrafficClear ==
  /\ statsOn /\ config.api
  /\ ClearBegin \/ (\E i \in Ids : ClearCount(i)) \/ ClearSwap \/ ClearEnd
  /\ UNCHANGED <<authVars, connVars, strmVars>>

Kick(ids) ==
  /\ statsOn /\ config.api /\ clear = Nil
  /\ kicks' = kicks \cup Victims(ids)
  /\ UNCHANGED <<authVars, statVars, config, host, connPc, held, dev, identity, found, dead, strmVars>>

KickCloseOnce(c) ==
  /\ c \in kicks
  /\ kicks' = kicks \ {c}
  /\ dead' = [dead EXCEPT ![c] = connPc[c] = "run" /\ clear = Nil]
  /\ UNCHANGED <<authVars, statVars, config, host, connPc, held, dev, identity, found, strmVars>>

KickClose(c) ==
  /\ c \in kicks
  /\ kicks' = kicks \ {c}
  /\ dead' = [dead EXCEPT ![c] = TRUE]
  /\ UNCHANGED <<authVars, statVars, config, host, connPc, held, dev, identity, found, strmVars>>

-----------------------------------------------------------------------------
\* What the server's own goroutines do, and what others do.
ConnStep(c) ==
  \/ AuthStep(c) /\ UNCHANGED <<statVars, connVars, strmVars>>
  \/ ReadCredential(c) \/ Admit(c) \/ AcquireDevice(c) \/ AcquireLimits(c) \/ AttachSession(c)
  \/ (dead[c] /\ RunReturns(c)) \/ DetachFind(c) \/ DetachSession(c) \/ ReleaseLimits(c) \/ ReleaseDevice(c)
StrmStep(s) == ReadDestination(s) \/ StartRelay(s) \/ EndRelay(s) \/ EndStream(s)

ServerNext ==
  \/ \E c \in Conns : ConnStep(c) \/ RunReturns(c) \/ KickClose(c)
  \/ \E s \in Streams : StrmStep(s) \/ Count(s) \/ (\E c \in Conns : StartStream(s, c))
  \/ TrafficClear
  \/ \E ids \in SUBSET Ids : Kick(ids)
  \/ AuthEnv /\ UNCHANGED <<statVars, connVars, strmVars>>

\* Goroutines are scheduled, reads, backend calls and slot waits have timeouts, and a
\* request that is being served is served to its end.  Nobody need connect.
\* Strong fairness is that of sync.Mutex, which grants a waiter its turn although Clear
\* takes r.mu again and again.
ServerFairness ==
  /\ \A c \in Conns : SF_serverVars(connPc[c] # "accept" /\ ConnStep(c)) /\ WF_serverVars(KickClose(c))
  /\ \A s \in Streams : WF_serverVars(StrmStep(s))
  /\ WF_serverVars(TrafficClear /\ clear # Nil)

ServerSpec == ServerInit /\ [][ServerNext]_serverVars /\ ServerFairness

-----------------------------------------------------------------------------
HoldsConn == {c \in Conns : held[c] # Nil /\ connPc[c] # "closed"}
HoldsDev == {c \in Conns : dev[c] # Nil /\ connPc[c] \notin {"releaseConn", "closed"}}
Attached == {c \in Conns : connPc[c] \in {"run", "detach", "detaching"} /\ identity[c] # Nil}

\* Connections of one device share one logical connection and one pair of buckets for
\* as long as any of them lives: what a connection holds is what the registries list
\* under its key, counted once for each holder, and nothing else is listed.  So two
\* connections of a device never draw on separate buckets, no entry outlives the last
\* connection, and /online counts no device without a logical connection
\* (stats/registry.go:97-127, limiter/limiter.go:70-99).
DevicesShared ==
  /\ \A c \in HoldsConn : devices[Key(c)] = held[c]
  /\ \A k \in Keys : devices[k] # Nil =>
       conn[devices[k]].refs = Cardinality({c \in HoldsConn : Key(c) = k}) /\ conn[devices[k]].refs > 0
  /\ \A c \in HoldsDev : limDevices[Key(c)] = dev[c]
  /\ \A k \in Keys : limDevices[k] # Nil =>
       limRefs[limDevices[k]] = Cardinality({c \in HoldsDev : Key(c) = k}) /\ limRefs[limDevices[k]] > 0
  /\ \A i \in Ids : OnlineOf(i, host) <= Cardinality({k \in Keys : k[1] = i /\ devices[k] # Nil})

\* A kick reaches every session that runs, and Clear loses no byte of it: an attached
\* session is listed in the record the registry has for its id and counts its traffic
\* there, whatever Clear does at the same time; traffic in a record that has been
\* dropped, which no report will show, was counted after its session was detached
\* (stats/registry.go:243-261 "entries with active sessions are kept").
AttachedIsRegistered ==
  /\ \A c \in Attached : users[Id(c)] = identity[c] /\ c \in Listed(Id(c))
  /\ \A o \in Conns \ Live(users) : userTx[o] <= late

\* No two traced streams of live devices have the same row key in /dump/streams: the
\* devices have different ids and the streams of a device different numbers, whichever
\* of its connections they came from (stats/registry.go:93-95, 129-146).
StreamRowsDistinct ==
  \A s, x \in {y \in DOMAIN DumpRows : traced[y].obj \in Live(devices)} :
    s # x => DumpRows[s] # DumpRows[x]

\* Whatever a kick has listed is closed: the connection gives back all it holds and
\* ends, also when Clear runs or the session dies at the same time
\* (stats/registry.go:286-309, cmd/server/inbound_tcp.go:141-146).
KickedEnds == \A c \in Conns : c \in kicks ~> connPc[c] = "closed"
=============================================================================
