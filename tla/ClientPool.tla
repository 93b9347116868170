----------------------------- MODULE ClientPool -----------------------------
(***************************************************************************)
(* The client's session pool: session.Client (proxy/session/client.go)     *)
(* and the parts of Session and Stream it hangs its hooks on.              *)
(*                                                                         *)
(* A stream is the product of one CreateStream call, so calls and streams  *)
(* share the identities in Streams: each stands for a goroutine that makes *)
(* one call after another.  A session is identified by its seq.            *)
(* Every step below is what one goroutine does between two points where    *)
(* another one can interfere: a lock, a channel test, an atomic, or the    *)
(* unsynchronised read and write of stream.dieHook.                        *)
(***************************************************************************)
EXTENDS Integers, FiniteSets

CONSTANTS
    Streams,        \* goroutines calling CreateStream, one stream each at a time
    MaxSession,     \* bound on sessionCounter: dials that may succeed
    MinIdle         \* c.minIdleSession

ASSUME PoolAssumption ==
    /\ MaxSession \in Nat
    /\ MinIdle \in Nat

Sessions == 1..MaxSession
NoSession == 0

VARIABLES
    disableReuse,   \* c.disableReuse, set by NewClient
    clientDie,      \* c.die is done
    closePc,        \* progress of the one Client.Close call
    toClose,        \* Client.Close: sessionToClose
    sessionCounter, \* c.sessionCounter
    sessions,       \* c.sessions, as the set of its keys
    idleSession,    \* c.idleSession, as the set of seqs it holds
    stale,          \* idle sessions whose idleSince is before now - idleSessionTimeout
    reused,         \* sessions that have been in the pool: their next SYN is not buffered
    doomed,         \* idleCleanupExpTime: sessionToClose
    routine,        \* the goroutine of StartRoutine that runs idleCleanup
    sessPc,         \* life of each session: Session.Close and its dieHook
    pc,             \* progress of each CreateStream call
    sess,           \* the session a call took or created
    stream,         \* life of the stream: dieOnce and the steps of its dieHook
    hookSet         \* stream.dieHook has been assigned

closeVars == <<disableReuse, clientDie, closePc, toClose>>
listVars == <<sessionCounter, sessions>>
idleVars == <<idleSession, stale, reused, doomed, routine>>
callVars == <<pc, sess, hookSet>>
vars == <<closeVars, listVars, idleVars, callVars, sessPc, stream>>

SessionLife == {"none", "dialed", "open", "died", "unidled", "unlisted", "closed"}
CallState == {"idle", "get", "create", "list", "open", "opened", "returned", "failed"}
StreamLife == {"none", "live", "dead", "check", "checkDie", "insert", "done"}

Init ==
    /\ disableReuse \in BOOLEAN
    /\ clientDie = FALSE
    /\ closePc = "idle"
    /\ toClose = {}
    /\ sessionCounter = 0
    /\ sessions = {}
    /\ idleSession = {}
    /\ stale = {}
    /\ reused = {}
    /\ doomed = {}
    /\ routine = IF disableReuse THEN "stopped" ELSE "sleep"
    /\ sessPc = [s \in Sessions |-> "none"]
    /\ pc = [t \in Streams |-> "idle"]
    /\ sess = [t \in Streams |-> NoSession]
    /\ stream = [t \in Streams |-> "none"]
    /\ hookSet = [t \in Streams |-> FALSE]

-----------------------------------------------------------------------------
(* Session.Close.  dieOnce makes one caller win; the rest of Close is that  *)
(* caller's and is followed here per session.                              *)

\* s.IsClosed()
IsClosed(s) == sessPc[s] \in {"died", "unidled", "unlisted", "closed"}

\* The dieOnce part of Close: a caller that comes second changes nothing.
Closing(S) ==
    sessPc' = [s \in Sessions |->
                 IF s \in S /\ sessPc[s] = "open" THEN "died" ELSE sessPc[s]]

\* The session's own goroutines close it: recvLoop returned, a control frame
\* could not be written, or the SYNACK watcher timed out.
SessionDies(s) ==
    /\ sessPc[s] = "open"
    /\ Closing({s})
    /\ UNCHANGED <<closeVars, listVars, idleVars, callVars, stream>>

\* session.dieHook, first half: leave the idle list.
DieHookUnidle(s) ==
    /\ sessPc[s] = "died"
    /\ sessPc' = [sessPc EXCEPT ![s] = "unidled"]
    /\ idleSession' = IF disableReuse THEN idleSession ELSE idleSession \ {s}
    /\ stale' = stale \ {s}
    /\ UNCHANGED <<closeVars, listVars, callVars, reused, doomed, routine, stream>>

\* Mutant: the hook forgets to delete the session from c.sessions.
DieHookUnlistForgets(s) ==
    /\ sessPc[s] = "unidled"
    /\ sessPc' = [sessPc EXCEPT ![s] = "unlisted"]
    /\ UNCHANGED <<closeVars, listVars, idleVars, callVars, stream>>

\* session.dieHook, second half: leave c.sessions.
DieHookUnlist(s) ==
    /\ sessPc[s] = "unidled"
    /\ sessPc' = [sessPc EXCEPT ![s] = "unlisted"]
    /\ sessions' = sessions \ {s}
    /\ UNCHANGED <<closeVars, idleVars, callVars, sessionCounter, stream>>

\* Close under streamLock: every registered stream is closed locally.  The
\* hook of such a stream finds the session closed and discards it.
CloseStreams(s) ==
    /\ sessPc[s] = "unlisted"
    /\ sessPc' = [sessPc EXCEPT ![s] = "closed"]
    /\ stream' = [t \in Streams |->
                    IF sess[t] = s /\ stream[t] = "live" THEN "done" ELSE stream[t]]
    /\ UNCHANGED <<closeVars, listVars, idleVars, callVars>>

-----------------------------------------------------------------------------
(* CreateStream *)

CreateStream(t) ==
    /\ pc[t] = "idle"
    /\ pc' = [pc EXCEPT ![t] = IF clientDie THEN "failed"
                               ELSE IF disableReuse THEN "create" ELSE "get"]
    /\ UNCHANGED <<closeVars, listVars, idleVars, sessPc, sess, stream,
                   hookSet>>

\* Mutant: the session is looked at and not removed from the list.
getIdleSessionPeeks(t) ==
    /\ pc[t] = "get"
    /\ IF idleSession = {}
       THEN /\ pc' = [pc EXCEPT ![t] = "create"]
            /\ UNCHANGED sess
       ELSE \E s \in idleSession :
            /\ \A r \in idleSession : r <= s
            /\ sess' = [sess EXCEPT ![t] = s]
            /\ pc' = [pc EXCEPT ![t] = "open"]
    /\ UNCHANGED <<closeVars, listVars, idleVars, sessPc, stream, hookSet>>

\* getIdleSession: the list is keyed by MaxUint64 - seq, so its first entry is
\* the session with the largest seq.
getIdleSession(t) ==
    /\ pc[t] = "get"
    /\ IF idleSession = {}
       THEN /\ pc' = [pc EXCEPT ![t] = "create"]
            /\ UNCHANGED <<idleSession, stale, sess>>
       ELSE \E s \in idleSession :
            /\ \A r \in idleSession : r <= s
            /\ idleSession' = idleSession \ {s}
            /\ stale' = stale \ {s}
            /\ sess' = [sess EXCEPT ![t] = s]
            /\ pc' = [pc EXCEPT ![t] = "open"]
    /\ UNCHANGED <<closeVars, listVars, reused, doomed, routine, sessPc, stream,
                   hookSet>>

\* createSession up to the registration: dial, number the session, set dieHook.
DialOut(t) ==
    /\ pc[t] = "create"
    /\ sessionCounter < MaxSession
    /\ sessionCounter' = sessionCounter + 1
    /\ sess' = [sess EXCEPT ![t] = sessionCounter + 1]
    /\ sessPc' = [sessPc EXCEPT ![sessionCounter + 1] = "dialed"]
    /\ pc' = [pc EXCEPT ![t] = "list"]
    /\ UNCHANGED <<closeVars, idleVars, sessions, stream, hookSet>>

DialOutFails(t) ==
    /\ pc[t] = "create"
    /\ pc' = [pc EXCEPT ![t] = "failed"]
    /\ UNCHANGED <<closeVars, listVars, idleVars, sessPc, sess, stream,
                   hookSet>>

\* createSession: enter c.sessions, then Run starts recvLoop.
createSession(t) ==
    /\ pc[t] = "list"
    /\ sessions' = sessions \cup {sess[t]}
    /\ sessPc' = [sessPc EXCEPT ![sess[t]] = "open"]
    /\ pc' = [pc EXCEPT ![t] = "open"]
    /\ UNCHANGED <<closeVars, idleVars, sessionCounter, sess, stream,
                   hookSet>>

\* Mutant: die is not tested under streamLock.
OpenStreamUnchecked(t) ==
    /\ pc[t] = "open"
    /\ stream' = [stream EXCEPT ![t] = "live"]
    /\ pc' = [pc EXCEPT ![t] = "opened"]
    /\ UNCHANGED <<closeVars, listVars, idleVars, sessPc, sess, hookSet>>

\* OpenStream succeeds: its last step registers the stream under streamLock,
\* after testing die under the same lock.
OpenStream(t) ==
    /\ pc[t] = "open"
    /\ ~IsClosed(sess[t])
    /\ stream' = [stream EXCEPT ![t] = "live"]
    /\ pc' = [pc EXCEPT ![t] = "opened"]
    /\ UNCHANGED <<closeVars, listVars, idleVars, sessPc, sess, hookSet>>

\* OpenStream fails (session closed, or SYN not written): CreateStream closes
\* the session.
OpenStreamFails(t) ==
    /\ pc[t] = "open"
    /\ Closing({sess[t]})
    /\ pc' = [pc EXCEPT ![t] = "failed"]
    /\ UNCHANGED <<closeVars, listVars, idleVars, sess, stream, hookSet>>

\* The assignment stream.dieHook = func() {...}; CreateStream then returns.
SetDieHook(t) ==
    /\ pc[t] = "opened"
    /\ hookSet' = [hookSet EXCEPT ![t] = TRUE]
    /\ pc' = [pc EXCEPT ![t] = "returned"]
    /\ UNCHANGED <<closeVars, listVars, idleVars, sessPc, sess, stream>>

\* The goroutine is done with its stream (or got none) and serves another
\* inbound connection.
NextCall(t) ==
    /\ \/ pc[t] = "failed"
       \/ pc[t] = "returned" /\ stream[t] = "done"
    /\ pc' = [pc EXCEPT ![t] = "idle"]
    /\ sess' = [sess EXCEPT ![t] = NoSession]
    /\ stream' = [stream EXCEPT ![t] = "none"]
    /\ hookSet' = [hookSet EXCEPT ![t] = FALSE]
    /\ UNCHANGED <<closeVars, listVars, idleVars, sessPc>>

-----------------------------------------------------------------------------
(* The end of a stream and its dieHook *)

\* dieOnce of a stream that ends before its session: the application, having
\* got the stream from CreateStream, calls Close, or recvLoop handles a FIN or
\* a SYNACK with an error.  The server may send these as soon as it has the
\* SYN: on a new session that is when the application first writes (the SYN
\* waits in s.buffer), on a reused one it is before OpenStream returns.
StreamEnds(t) ==
    /\ stream[t] = "live"
    /\ pc[t] = "returned" \/ sess[t] \in reused
    /\ stream' = [stream EXCEPT ![t] = "dead"]
    /\ UNCHANGED <<closeVars, listVars, idleVars, callVars, sessPc>>

\* closeLocally / closeWithError read the field stream.dieHook.
ReadDieHook(t) ==
    /\ stream[t] = "dead"
    /\ stream' = [stream EXCEPT ![t] = IF hookSet[t] THEN "check" ELSE "done"]
    /\ UNCHANGED <<closeVars, listVars, idleVars, callVars, sessPc>>

\* Mutant: disableReuse keeps the session out of the pool and leaves it open.
HookCheckSessionLeavesOpen(t) ==
    /\ stream[t] = "check"
    /\ stream' = [stream EXCEPT ![t] =
                    IF IsClosed(sess[t]) \/ disableReuse THEN "done" ELSE "checkDie"]
    /\ UNCHANGED <<closeVars, listVars, idleVars, callVars, sessPc>>

\* dieHook: if !session.IsClosed() ... if c.disableReuse { session.Close() }
HookCheckSession(t) ==
    /\ stream[t] = "check"
    /\ IF IsClosed(sess[t]) \/ disableReuse
       THEN /\ stream' = [stream EXCEPT ![t] = "done"]
            /\ Closing({sess[t]})
       ELSE /\ stream' = [stream EXCEPT ![t] = "checkDie"]
            /\ UNCHANGED sessPc
    /\ UNCHANGED <<closeVars, listVars, idleVars, callVars>>

\* Mutant: c.die is not consulted.
HookIgnoresClient(t) ==
    /\ stream[t] = "checkDie"
    /\ stream' = [stream EXCEPT ![t] = "insert"]
    /\ UNCHANGED <<closeVars, listVars, idleVars, callVars, sessPc>>

\* dieHook: select on c.die
HookCheckClient(t) ==
    /\ stream[t] = "checkDie"
    /\ IF clientDie
       THEN /\ stream' = [stream EXCEPT ![t] = "done"]
            /\ Closing({sess[t]})
       ELSE /\ stream' = [stream EXCEPT ![t] = "insert"]
            /\ UNCHANGED sessPc
    /\ UNCHANGED <<closeVars, listVars, idleVars, callVars>>

\* Mutant: the session was never given its seq.
HookInsertUnnumbered(t) ==
    /\ stream[t] = "insert"
    /\ idleSession' = idleSession \cup {NoSession}
    /\ stream' = [stream EXCEPT ![t] = "done"]
    /\ UNCHANGED <<closeVars, listVars, callVars, stale, reused, doomed, routine,
                   sessPc>>

\* dieHook: idleSince = now and Insert, under idleSessionLock
HookInsert(t) ==
    /\ stream[t] = "insert"
    /\ idleSession' = idleSession \cup {sess[t]}
    /\ stale' = stale \ {sess[t]}
    /\ reused' = reused \cup {sess[t]}
    /\ stream' = [stream EXCEPT ![t] = "done"]
    /\ UNCHANGED <<closeVars, listVars, callVars, doomed, routine, sessPc>>

-----------------------------------------------------------------------------
(* Client.Close *)

DieCancel ==
    /\ closePc = "idle"
    /\ clientDie' = TRUE
    /\ closePc' = "swap"
    /\ UNCHANGED <<listVars, idleVars, callVars, disableReuse, toClose, sessPc,
                   stream>>

SwapSessions ==
    /\ closePc = "swap"
    /\ toClose' = sessions
    /\ sessions' = {}
    /\ closePc' = "closing"
    /\ UNCHANGED <<idleVars, callVars, disableReuse, clientDie, sessionCounter,
                   sessPc, stream>>

CloseNext ==
    /\ closePc = "closing"
    /\ IF toClose = {}
       THEN closePc' = "done" /\ UNCHANGED <<toClose, sessPc>>
       ELSE \E s \in toClose :
            /\ toClose' = toClose \ {s}
            /\ Closing({s})
            /\ UNCHANGED closePc
    /\ UNCHANGED <<listVars, idleVars, callVars, disableReuse, clientDie, stream>>

-----------------------------------------------------------------------------
(* idleCleanup *)

\* Time passes: an idle session's idleSince falls behind the timeout.
GoesStale(s) ==
    /\ s \in idleSession \ stale
    /\ stale' = stale \cup {s}
    /\ UNCHANGED <<closeVars, listVars, callVars, idleSession, reused,
                   doomed, routine, sessPc, stream>>

\* activeCount after the loop has visited the sessions with seq >= s; the
\* list is walked from the largest seq down.
activeCount[s \in 1..(MaxSession + 1)] ==
    IF s = MaxSession + 1 THEN 0
    ELSE IF s \in idleSession /\ (s \notin stale \/ activeCount[s + 1] < MinIdle)
         THEN activeCount[s + 1] + 1
         ELSE activeCount[s + 1]

\* Mutant: the loop keeps one session too many.
ExpiredKeepsOneMore ==
    {s \in idleSession : s \in stale /\ activeCount[s + 1] > MinIdle}

Expired == {s \in idleSession : s \in stale /\ activeCount[s + 1] >= MinIdle}

\* StartRoutine wakes up and calls idleCleanup: the part of idleCleanupExpTime
\* under idleSessionLock.  A kept session gets a new idleSince unless it was
\* fresh anyway.
idleCleanup ==
    /\ routine = "sleep"
    /\ routine' = "closing"
    /\ doomed' = Expired
    /\ idleSession' = idleSession \ Expired
    /\ stale' = {}
    /\ UNCHANGED <<closeVars, listVars, callVars, reused, sessPc, stream>>

\* The unlocked part: close the collected sessions one by one.
CleanupCloses(s) ==
    /\ s \in doomed
    /\ doomed' = doomed \ {s}
    /\ Closing({s})
    /\ UNCHANGED <<closeVars, listVars, callVars, idleSession, stale,
                   reused, routine, stream>>

\* Mutant: the loop is left after its first run.
StartRoutineOnce ==
    /\ routine = "closing"
    /\ doomed = {}
    /\ routine' = "stopped"
    /\ UNCHANGED <<closeVars, listVars, callVars, idleSession, stale, reused,
                   doomed, sessPc, stream>>

\* StartRoutine tests ctx only after a run: a client closed during the sleep
\* gets one more cleanup.
StartRoutine ==
    /\ routine = "closing"
    /\ doomed = {}
    /\ routine' = IF clientDie THEN "stopped" ELSE "sleep"
    /\ UNCHANGED <<closeVars, listVars, callVars, idleSession, stale, reused,
                   doomed, sessPc, stream>>

-----------------------------------------------------------------------------

CloseProgress(s) == DieHookUnidle(s) \/ DieHookUnlist(s) \/ CloseStreams(s)

CallStep(t) ==
    \/ CreateStream(t) \/ getIdleSession(t) \/ DialOut(t) \/ DialOutFails(t)
    \/ createSession(t) \/ OpenStream(t) \/ OpenStreamFails(t) \/ SetDieHook(t)
    \/ NextCall(t)

HookStep(t) ==
    ReadDieHook(t) \/ HookCheckSession(t) \/ HookCheckClient(t) \/ HookInsert(t)

ClientClose == DieCancel \/ SwapSessions \/ CloseNext

Next ==
    \/ \E s \in Sessions :
         SessionDies(s) \/ CloseProgress(s) \/ GoesStale(s) \/ CleanupCloses(s)
    \/ \E t \in Streams : CallStep(t) \/ StreamEnds(t) \/ HookStep(t)
    \/ ClientClose
    \/ idleCleanup \/ StartRoutine

Spec == Init /\ [][Next]_vars

(* Fairness: runnable goroutines run, time passes, and StartRoutine keeps    *)
(* ticking.  Nothing makes a session die, a stream end, or a client close.  *)
FairSpec ==
    /\ Spec
    /\ \A s \in Sessions : /\ WF_vars(CloseProgress(s))
                           /\ WF_vars(GoesStale(s))
                           /\ WF_vars(CleanupCloses(s))
    /\ \A t \in Streams : WF_vars(HookStep(t))
    /\ WF_vars(idleCleanup \/ StartRoutine)

-----------------------------------------------------------------------------
(* Properties *)

\* A call or a stream holds its session from the moment it takes or dials it
\* until the stream's dieHook has given it back (or found nothing to do).
InUse(t) ==
    \/ pc[t] \in {"list", "open"}
    \/ stream[t] \in {"live", "dead", "check", "checkDie", "insert"}

\* Every variable keeps its type; in particular the pool and c.sessions hold
\* only sessions that were numbered, and only a pooled session can be stale.
TypeOK ==
    /\ disableReuse \in BOOLEAN
    /\ clientDie \in BOOLEAN
    /\ closePc \in {"idle", "swap", "closing", "done"}
    /\ toClose \subseteq Sessions
    /\ sessionCounter \in 0..MaxSession
    /\ sessions \subseteq Sessions
    /\ idleSession \subseteq Sessions
    /\ stale \subseteq idleSession
    /\ reused \subseteq Sessions
    /\ doomed \subseteq Sessions
    /\ routine \in {"sleep", "closing", "stopped"}
    /\ sessPc \in [Sessions -> SessionLife]
    /\ pc \in [Streams -> CallState]
    /\ sess \in [Streams -> Sessions \cup {NoSession}]
    /\ stream \in [Streams -> StreamLife]
    /\ hookSet \in [Streams -> BOOLEAN]

\* A session carries one stream at a time: no two calls hold the same session,
\* and a session that is pooled, or picked by idleCleanup to be closed, is
\* held by none.  getIdleSession, the dieHook and idleCleanupExpTime pass the
\* session on without a common lock.
ExclusiveUse ==
    /\ \A t, u \in Streams :
         InUse(t) /\ InUse(u) /\ sess[t] = sess[u] => t = u
    /\ \A t \in Streams : InUse(t) => sess[t] \notin idleSession \cup doomed
    /\ idleSession \cap doomed = {}

\* c.sessions never keeps a session whose dieHook has finished: createSession
\* lists a session before Run, so the hook's delete cannot come first.
ListedUntilRetired ==
    \A s \in sessions : sessPc[s] \in {"open", "died", "unidled"}

\* No stream outlives its session: OpenStream tests die under streamLock, so a
\* stream is registered before Close sweeps the map or not at all.
NoStreamOutlivesSession ==
    \A t \in Streams : stream[t] = "live" => sessPc[sess[t]] # "closed"

\* Once Client.Close has returned, the pool holds no usable session, although
\* dieHook tests c.die before it takes idleSessionLock and although sessions
\* may be created after Close took its snapshot.
ClosedClientPoolsNothing ==
    closePc = "done" => \A s \in idleSession : IsClosed(s)

\* The loop of idleCleanupExpTime closes exactly the stale sessions that have
\* minIdleSession newer ones in the pool.
CleanupSparesNewest ==
    [][routine = "sleep" /\ routine' = "closing" =>
         doomed' = {s \in idleSession \cap stale :
                      Cardinality({r \in idleSession : r > s}) >= MinIdle}]_vars

\* With disableReuse a session serves one stream: it never enters the pool, and
\* an open one always has a call or a stream that will close it.
SingleUse ==
    disableReuse =>
      /\ idleSession = {}
      /\ \A s \in Sessions : sessPc[s] = "open" =>
                               \E t \in Streams : InUse(t) /\ sess[t] = s

\* With minIdleSession = 0 no session idles forever while the client lives: it
\* is used again, dies, or is closed by idleCleanup.
IdleIsReclaimed ==
    \A s \in Sessions : s \in idleSession ~> s \notin idleSession \/ clientDie

\* client.go:110, "If Session is not closed, put this Stream to pool": a
\* session in the pool is not closed, or its dieHook is still to remove it.
PooledIsUsable ==
    \A s \in idleSession : sessPc[s] \in {"open", "died"}

\* docs/protocol.md:167: when a stream is closed and its session met no error,
\* the session goes to the pool.  So while the client lives, an open session
\* is pooled, about to be closed, or held by a call or a stream.
SessionGoesBackToPool ==
    ~clientDie =>
      \A s \in Sessions :
        sessPc[s] = "open" =>
          \/ s \in idleSession \cup doomed
          \/ \E t \in Streams : InUse(t) /\ sess[t] = s

=============================================================================
