-------------------------------- MODULE Stats --------------------------------
(***************************************************************************)
(* The registries that the connections of a server share: the users with   *)
(* their traffic and their live sessions, the logical connection of each   *)
(* device, the traced streams (src/stats) and the rate-limit buckets of    *)
(* each device (src/limiter).  An object that Go allocates is named by the *)
(* connection whose call allocated it: a connection attaches and acquires  *)
(* at most once.                                                           *)
(***************************************************************************)
EXTENDS Naturals, FiniteSets, Connections

CONSTANTS
  Streams,  \* streams the clients open
  Hosts,    \* client addresses without their port (hostOnly)
  ConnIds,  \* values rand.Uint32 may return
  Nil       \* Go's nil

Keys == Ids \X Hosts  \* deviceKey

ASSUME StatsAssumption == Nil \notin Conns

VARIABLES
  users,      \* Registry.users: id -> *UserStat
  userTx,     \* UserStat.Tx
  sessions,   \* UserStat.sessions
  clear,      \* Registry.Clear in progress: Nil or [todo, live]; it holds r.mu
  late,       \* history: bytes counted for a session that was no longer attached
  devices,    \* Registry.devices: deviceKey -> *Conn
  conn,       \* stats.Conn: id, streamSeq and refs
  traced,     \* Registry.streams with the (auth, conn, stream) of each
  limDevices, \* limiter.Registry.devices: deviceKey -> *Device
  limRefs     \* Device.refs

statVars == <<users, userTx, sessions, clear, late, devices, conn, traced,
              limDevices, limRefs>>
userVars == <<users, userTx, sessions, clear, late>>
deviceVars == <<devices, conn>>
limVars == <<limDevices, limRefs>>

StatsInit ==
  /\ users = [i \in Ids |-> Nil]
  /\ userTx = [u \in Conns |-> 0]
  /\ sessions = [u \in Conns |-> {}]
  /\ clear = Nil
  /\ late = 0
  /\ devices = [k \in Keys |-> Nil]
  /\ conn = [o \in Conns |-> [id |-> Nil, seq |-> 0, refs |-> 0]]
  /\ traced = [s \in Streams |-> Nil]
  /\ limDevices = [k \in Keys |-> Nil]
  /\ limRefs = [o \in Conns |-> 0]

Live(map) == {map[k] : k \in DOMAIN map} \ {Nil}
\* The object a call of connection c finds under k, or makes.
Obj(map, k, c) == IF map[k] = Nil THEN c ELSE map[k]

-----------------------------------------------------------------------------
\* freshConnID: any value that no live device has.
FreshConnID == ConnIds \ {conn[o].id : o \in Live(devices)}

\* AcquireConn and ReleaseConn, each under deviceMu.
AcquireConn(c, k) ==
  /\ IF devices[k] = Nil
     THEN \E id \in FreshConnID :
            /\ devices' = [devices EXCEPT ![k] = c]
            /\ conn' = [conn EXCEPT ![c] = [id |-> id, seq |-> 0, refs |-> 1]]
     ELSE /\ conn' = [conn EXCEPT ![devices[k]].refs = @ + 1]
          /\ UNCHANGED devices
  /\ UNCHANGED <<userVars, traced, limVars>>

ReleaseConn(o, k) ==
  /\ conn' = [conn EXCEPT ![o].refs = @ - 1]
  /\ devices' = IF conn[o].refs - 1 <= 0 THEN [devices EXCEPT ![k] = Nil] ELSE devices
  /\ UNCHANGED <<userVars, traced, limVars>>

\* limiter.Registry.Acquire and Release, each under mu.
Acquire(c, k) ==
  LET d == Obj(limDevices, k, c) IN
  /\ limDevices' = [limDevices EXCEPT ![k] = d]
  /\ limRefs' = [limRefs EXCEPT ![d] = @ + 1]
  /\ UNCHANGED <<userVars, traced, deviceVars>>

ReleaseEarly(d, k) ==
  /\ limRefs' = [limRefs EXCEPT ![d] = @ - 1]
  /\ limDevices' = [limDevices EXCEPT ![k] = Nil]
  /\ UNCHANGED <<userVars, traced, deviceVars>>

Release(d, k) ==
  /\ limRefs' = [limRefs EXCEPT ![d] = @ - 1]
  /\ limDevices' = IF limRefs[d] - 1 <= 0 THEN [limDevices EXCEPT ![k] = Nil] ELSE limDevices
  /\ UNCHANGED <<userVars, traced, deviceVars>>

-----------------------------------------------------------------------------
\* Attach, under r.mu: the user's record is found or made and lists the session.
Attach(c, i) ==
  LET u == Obj(users, i, c) IN
  /\ clear = Nil
  /\ users' = [users EXCEPT ![i] = u]
  /\ sessions' = [sessions EXCEPT ![u] = @ \cup {c}]
  /\ UNCHANGED <<userTx, clear, late, traced, deviceVars, limVars>>

\* Detach: the lookup is under r.mu, the removal under u.mu only.
DetachLookup(i) == clear = Nil /\ UNCHANGED statVars

DetachRemove(c, u) ==
  /\ sessions' = IF u = Nil THEN sessions ELSE [sessions EXCEPT ![u] = @ \ {c}]
  /\ UNCHANGED <<users, userTx, clear, late, traced, deviceVars, limVars>>

\* AddTx of a user's record: atomic, without a lock.  attached says whether the
\* session it is counted for is still listed.
AddTx(u, attached) ==
  /\ userTx' = [userTx EXCEPT ![u] = @ + 1]
  /\ late' = IF attached THEN late ELSE late + 1
  /\ UNCHANGED <<users, sessions, clear, traced, deviceVars, limVars>>

\* Clear holds r.mu throughout.  For each user it first counts the sessions (under
\* u.mu), then swaps the counter for 0 and drops the record of a user without any.
ClearBegin ==
  /\ clear = Nil
  /\ clear' = [todo |-> {i \in Ids : users[i] # Nil}, live |-> Nil]
  /\ UNCHANGED <<users, userTx, sessions, late, traced, deviceVars, limVars>>

ClearCount(i) ==
  /\ clear # Nil /\ clear.live = Nil /\ i \in clear.todo
  /\ clear' = [todo |-> clear.todo, live |-> <<i, Cardinality(sessions[users[i]])>>]
  /\ UNCHANGED <<users, userTx, sessions, late, traced, deviceVars, limVars>>

ClearSwapAll ==
  /\ clear # Nil /\ clear.live # Nil
  /\ LET i == clear.live[1] u == users[i] IN
     /\ userTx' = [userTx EXCEPT ![u] = 0]
     /\ users' = [users EXCEPT ![i] = Nil]
     /\ clear' = [todo |-> clear.todo \ {i}, live |-> Nil]
  /\ UNCHANGED <<sessions, late, traced, deviceVars, limVars>>

ClearSwap ==
  /\ clear # Nil /\ clear.live # Nil
  /\ LET i == clear.live[1] u == users[i] IN
     /\ userTx' = [userTx EXCEPT ![u] = 0]
     /\ users' = IF clear.live[2] = 0 THEN [users EXCEPT ![i] = Nil] ELSE users
     /\ clear' = [todo |-> clear.todo \ {i}, live |-> Nil]
  /\ UNCHANGED <<sessions, late, traced, deviceVars, limVars>>

ClearEnd ==
  /\ clear # Nil /\ clear.live = Nil /\ clear.todo = {}
  /\ clear' = Nil
  /\ UNCHANGED <<users, userTx, sessions, late, traced, deviceVars, limVars>>

\* What the calls that only read return: the number of devices of an id that is
\* connected, and the sessions a Kick closes.
Listed(i) == IF users[i] = Nil THEN {} ELSE sessions[users[i]]
OnlineOf(i, hostOf) == Cardinality({hostOf[c] : c \in Listed(i)})
Victims(ids) == UNION {Listed(i) : i \in ids}

-----------------------------------------------------------------------------
TraceStreamSeparately(s, o, i) ==
  /\ traced' = [traced EXCEPT ![s] = [auth |-> i, obj |-> o, connection |-> conn[o].id,
                                      stream |-> 1, state |-> "connect"]]
  /\ UNCHANGED <<userVars, devices, conn, limVars>>

\* NextStreamID of the device's connection and TraceStream with it.
TraceStream(s, o, i) ==
  /\ conn' = [conn EXCEPT ![o].seq = @ + 1]
  /\ traced' = [traced EXCEPT ![s] = [auth |-> i, obj |-> o, connection |-> conn[o].id,
                                      stream |-> conn[o].seq + 1, state |-> "connect"]]
  /\ UNCHANGED <<userVars, devices, limVars>>

SetState(s, st) ==
  /\ traced' = [traced EXCEPT ![s].state = st]
  /\ UNCHANGED <<userVars, deviceVars, limVars>>

\* UntraceStream marks the record closed and drops it.
UntraceStream(s) ==
  /\ traced' = [traced EXCEPT ![s] = Nil]
  /\ UNCHANGED <<userVars, deviceVars, limVars>>

\* The rows of DumpStreams: the streams that are traced, with what they are sorted by.
RowKey(s) == <<traced[s].auth, traced[s].connection, traced[s].stream>>
DumpRows == [s \in {x \in Streams : traced[x] # Nil} |-> RowKey(s)]
=============================================================================
