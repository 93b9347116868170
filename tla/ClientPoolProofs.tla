-------------------------- MODULE ClientPoolProofs --------------------------
(***************************************************************************)
(* Proofs about ClientPool, for any number of goroutines and sessions and  *)
(* any minIdleSession.                                                     *)
(*                                                                         *)
(* The safety properties are not inductive on their own.  ExclusiveUse     *)
(* needs to know that a session just dialled is referred to by nobody      *)
(* (Life), NoStreamOutlivesSession that a stream is only registered on a   *)
(* session that has not been swept (Life), and ClosedClientPoolsNothing    *)
(* that every session which may still reach the pool is in the snapshot    *)
(* Client.Close took, or already dead (Drained).                           *)
(***************************************************************************)
EXTENDS ClientPool, TLAPS

\* Who may refer to a session in which phase of its life.
Life ==
    /\ \A s \in Sessions : s > sessionCounter => sessPc[s] = "none"
    /\ \A s \in idleSession \cup doomed \cup sessions \cup toClose :
         sessPc[s] \notin {"none", "dialed"}
    /\ \A t \in Streams :
         /\ pc[t] = "list" => sess[t] \in Sessions /\ sessPc[sess[t]] = "dialed"
         /\ pc[t] \in {"open", "opened", "returned"} =>
              sess[t] \in Sessions /\ sessPc[sess[t]] \notin {"none", "dialed"}
         /\ pc[t] \in {"opened", "returned"} <=> stream[t] # "none"
         /\ stream[t] = "live" => sessPc[sess[t]] # "closed"

\* Sessions that are in the pool or about to enter it: listed until Client.Close
\* takes its snapshot, and then in the snapshot or closed.
Drained ==
    /\ clientDie <=> closePc # "idle"
    /\ closePc \in {"idle", "swap"} =>
         \A s \in Sessions : sessPc[s] = "open" => s \in sessions
    /\ closePc \in {"closing", "done"} =>
         /\ \A s \in idleSession : s \in toClose \/ IsClosed(s)
         /\ \A t \in Streams :
              stream[t] = "insert" => sess[t] \in toClose \/ IsClosed(sess[t])
    /\ closePc = "done" => toClose = {}

IInv ==
    /\ TypeOK
    /\ ExclusiveUse
    /\ ListedUntilRetired
    /\ Life
    /\ Drained
    /\ routine = "sleep" => doomed = {}

-----------------------------------------------------------------------------

LEMMA InitInv == Init => IInv
<1> SUFFICES ASSUME Init PROVE IInv
  OBVIOUS
<1>1. routine \in {"sleep", "closing", "stopped"}
  BY DEF Init
<1>2. hookSet \in [Streams -> BOOLEAN]
  BY DEF Init
<1>3. /\ sessPc \in [Sessions -> SessionLife]
      /\ pc \in [Streams -> CallState]
      /\ sess \in [Streams -> Sessions \cup {NoSession}]
      /\ stream \in [Streams -> StreamLife]
  BY DEF Init, SessionLife, CallState, StreamLife
<1>4. sessionCounter \in 0..MaxSession
  BY PoolAssumption DEF Init
<1>5. /\ disableReuse \in BOOLEAN /\ clientDie \in BOOLEAN
      /\ closePc \in {"idle", "swap", "closing", "done"}
      /\ toClose \subseteq Sessions /\ sessions \subseteq Sessions
      /\ idleSession \subseteq Sessions /\ stale \subseteq idleSession
      /\ reused \subseteq Sessions /\ doomed \subseteq Sessions
  BY Zenon DEF Init
<1>6. TypeOK
  BY <1>1, <1>2, <1>3, <1>4, <1>5 DEF TypeOK
<1>7. ExclusiveUse /\ ListedUntilRetired /\ Life /\ Drained
  BY PoolAssumption
  DEF Init, ExclusiveUse, InUse, ListedUntilRetired, Life, Drained, Sessions
<1>8. QED
  BY <1>6, <1>7 DEF IInv, Init

\* Session.Close and the session's dieHook.
LEMMA SessionInv ==
  ASSUME IInv, NEW s \in Sessions, SessionDies(s) \/ CloseProgress(s)
  PROVE  IInv'
<1> USE DEF closeVars, listVars, idleVars, callVars
<1>0. /\ TypeOK /\ ExclusiveUse /\ ListedUntilRetired /\ Life /\ Drained
      /\ routine = "sleep" => doomed = {}
  BY DEF IInv
<1> USE <1>0
<1>1. CASE SessionDies(s)
  <2>1. TypeOK'
    BY <1>1 DEF SessionDies, Closing, TypeOK, SessionLife, CallState, StreamLife
  <2>2. ExclusiveUse'
    BY <1>1 DEF SessionDies, Closing, TypeOK, Life, ExclusiveUse, InUse
  <2>3. ListedUntilRetired'
    BY <1>1 DEF SessionDies, Closing, TypeOK, Life, ListedUntilRetired
  <2>4. Life'
    BY <1>1 DEF SessionDies, Closing, TypeOK, Life
  <2>5. Drained'
    BY <1>1 DEF SessionDies, Closing, TypeOK, Life, Drained, IsClosed
  <2>6. QED
    BY <1>1, <2>1, <2>2, <2>3, <2>4, <2>5 DEF IInv, SessionDies, Closing
<1>2. CASE DieHookUnidle(s)
  <2>1. TypeOK'
    BY <1>2 DEF DieHookUnidle, TypeOK, SessionLife, CallState, StreamLife
  <2>2. ExclusiveUse'
    BY <1>2 DEF DieHookUnidle, TypeOK, Life, ExclusiveUse, InUse
  <2>3. ListedUntilRetired'
    BY <1>2 DEF DieHookUnidle, TypeOK, Life, ListedUntilRetired
  <2>4. Life'
    BY <1>2 DEF DieHookUnidle, TypeOK, Life
  <2>5. Drained'
    BY <1>2 DEF DieHookUnidle, TypeOK, Life, Drained, IsClosed
  <2>6. QED
    BY <1>2, <2>1, <2>2, <2>3, <2>4, <2>5 DEF IInv, DieHookUnidle
<1>3. CASE DieHookUnlist(s)
  <2>1. TypeOK'
    BY <1>3 DEF DieHookUnlist, TypeOK, SessionLife, CallState, StreamLife
  <2>2. ExclusiveUse'
    BY <1>3 DEF DieHookUnlist, TypeOK, Life, ExclusiveUse, InUse
  <2>3. ListedUntilRetired'
    BY <1>3 DEF DieHookUnlist, TypeOK, Life, ListedUntilRetired
  <2>4. Life'
    BY <1>3 DEF DieHookUnlist, TypeOK, Life
  <2>5. Drained'
    BY <1>3 DEF DieHookUnlist, TypeOK, Life, Drained, IsClosed
  <2>6. QED
    BY <1>3, <2>1, <2>2, <2>3, <2>4, <2>5 DEF IInv, DieHookUnlist
<1>4. CASE CloseStreams(s)
  <2>1. TypeOK'
    BY <1>4 DEF CloseStreams, TypeOK, SessionLife, CallState, StreamLife
  <2>2. ExclusiveUse'
    BY <1>4 DEF CloseStreams, TypeOK, Life, ExclusiveUse, InUse
  <2>3. ListedUntilRetired'
    BY <1>4 DEF CloseStreams, TypeOK, Life, ListedUntilRetired
  <2>4. Life'
    BY <1>4 DEF CloseStreams, TypeOK, Life
  <2>5. Drained'
    BY <1>4 DEF CloseStreams, TypeOK, Life, Drained, IsClosed
  <2>6. QED
    BY <1>4, <2>1, <2>2, <2>3, <2>4, <2>5 DEF IInv, CloseStreams
<1>5. QED
  BY <1>1, <1>2, <1>3, <1>4 DEF CloseProgress

\* The steps of CreateStream.
LEMMA CallInv ==
  ASSUME IInv, NEW t \in Streams, CallStep(t) PROVE IInv'
<1> USE DEF closeVars, listVars, idleVars, callVars
<1>0. /\ TypeOK /\ ExclusiveUse /\ ListedUntilRetired /\ Life /\ Drained
      /\ routine = "sleep" => doomed = {}
  BY DEF IInv
<1> USE <1>0
<1>1. CASE CreateStream(t)
  BY <1>1
  DEF CreateStream, IInv, TypeOK, SessionLife, CallState, StreamLife,
      ExclusiveUse, InUse, ListedUntilRetired, Life, Drained, IsClosed
<1>2. CASE getIdleSession(t)
  <2>1. CASE idleSession = {}
    <3>0. /\ pc[t] = "get" /\ pc' = [pc EXCEPT ![t] = "create"]
          /\ UNCHANGED <<idleSession, stale, sess>>
      BY <1>2, <2>1 DEF getIdleSession
    <3>1. TypeOK'
      BY <1>2, <2>1, <3>0
      DEF getIdleSession, TypeOK, SessionLife, CallState, StreamLife
    <3>2. ExclusiveUse'
      BY <1>2, <2>1, <3>0 DEF getIdleSession, TypeOK, Life, ExclusiveUse, InUse
    <3>3. ListedUntilRetired'
      BY <1>2, <2>1, <3>0 DEF getIdleSession, TypeOK, Life, ListedUntilRetired
    <3>4. Life'
      BY <1>2, <2>1, <3>0 DEF getIdleSession, TypeOK, Life
    <3>5. Drained'
      BY <1>2, <2>1, <3>0 DEF getIdleSession, TypeOK, Life, Drained, IsClosed
    <3>6. QED
      BY <1>2, <3>1, <3>2, <3>3, <3>4, <3>5 DEF IInv, getIdleSession
  <2>2. CASE idleSession # {}
    <3>0. PICK s \in idleSession :
            /\ idleSession' = idleSession \ {s}
            /\ stale' = stale \ {s}
            /\ sess' = [sess EXCEPT ![t] = s]
            /\ pc' = [pc EXCEPT ![t] = "open"]
      BY <1>2, <2>2 DEF getIdleSession
    <3>1. TypeOK'
      BY <1>2, <2>2, <3>0
      DEF getIdleSession, TypeOK, SessionLife, CallState, StreamLife
    <3>2. ExclusiveUse'
      BY <1>2, <2>2, <3>0 DEF getIdleSession, TypeOK, Life, ExclusiveUse, InUse
    <3>3. ListedUntilRetired'
      BY <1>2, <2>2, <3>0 DEF getIdleSession, TypeOK, Life, ListedUntilRetired
    <3>4. Life'
      BY <1>2, <2>2, <3>0 DEF getIdleSession, TypeOK, Life
    <3>5. Drained'
      BY <1>2, <2>2, <3>0 DEF getIdleSession, TypeOK, Life, Drained, IsClosed
    <3>6. QED
      BY <1>2, <3>1, <3>2, <3>3, <3>4, <3>5 DEF IInv, getIdleSession
  <2>3. QED
    BY <2>1, <2>2
<1>3. CASE DialOut(t)
  <2>1. TypeOK'
    BY <1>3, PoolAssumption
    DEF DialOut, TypeOK, SessionLife, CallState, StreamLife, Sessions,
        NoSession
  <2>2. ExclusiveUse'
    BY <1>3, PoolAssumption
    DEF DialOut, TypeOK, Life, ExclusiveUse, InUse, Sessions, NoSession
  <2>3. ListedUntilRetired'
    BY <1>3, PoolAssumption
    DEF DialOut, TypeOK, Life, ListedUntilRetired, Sessions, NoSession
  <2>4. Life'
    BY <1>3, PoolAssumption DEF DialOut, TypeOK, Life, Sessions, NoSession
  <2>5. Drained'
    BY <1>3, PoolAssumption
    DEF DialOut, TypeOK, Life, Drained, IsClosed, Sessions, NoSession
  <2>6. QED
    BY <1>3, <2>1, <2>2, <2>3, <2>4, <2>5 DEF IInv, DialOut
<1>4. CASE DialOutFails(t)
  BY <1>4
  DEF DialOutFails, IInv, TypeOK, SessionLife, CallState, StreamLife,
      ExclusiveUse, InUse, ListedUntilRetired, Life, Drained, IsClosed
<1>5. CASE createSession(t)
  <2>0. sess[t] \in Sessions
    BY <1>5 DEF createSession, Life
  <2>1. TypeOK'
    <3>1. sessions' \subseteq Sessions
      BY <1>5, <2>0 DEF createSession, TypeOK
    <3>2. sessPc' \in [Sessions -> SessionLife]
      BY <1>5, <2>0 DEF createSession, TypeOK, SessionLife
    <3>3. pc' \in [Streams -> CallState]
      BY <1>5 DEF createSession, TypeOK, CallState
    <3>4. QED
      BY <1>5, <3>1, <3>2, <3>3 DEF createSession, TypeOK
  <2>2. ExclusiveUse'
    BY <1>5, <2>0 DEF createSession, TypeOK, Life, ExclusiveUse, InUse
  <2>3. ListedUntilRetired'
    BY <1>5, <2>0 DEF createSession, TypeOK, Life, ListedUntilRetired
  <2>4. Life'
    BY <1>5, <2>0 DEF createSession, TypeOK, Life, ExclusiveUse, InUse
  <2>5. Drained'
    BY <1>5, <2>0 DEF createSession, TypeOK, Life, Drained, IsClosed
  <2>6. QED
    BY <1>5, <2>1, <2>2, <2>3, <2>4, <2>5 DEF IInv, createSession
<1>6. CASE OpenStream(t)
  <2>1. TypeOK'
    BY <1>6 DEF OpenStream, TypeOK, SessionLife, CallState, StreamLife
  <2>2. ExclusiveUse'
    BY <1>6 DEF OpenStream, TypeOK, Life, ExclusiveUse, InUse
  <2>3. ListedUntilRetired'
    BY <1>6 DEF OpenStream, TypeOK, Life, ListedUntilRetired
  <2>4. Life'
    BY <1>6 DEF OpenStream, TypeOK, Life, IsClosed
  <2>5. Drained'
    BY <1>6 DEF OpenStream, TypeOK, Life, Drained, IsClosed
  <2>6. QED
    BY <1>6, <2>1, <2>2, <2>3, <2>4, <2>5 DEF IInv, OpenStream
<1>7. CASE OpenStreamFails(t)
  <2>1. TypeOK'
    BY <1>7 DEF OpenStreamFails, Closing, TypeOK, SessionLife, CallState, StreamLife
  <2>2. ExclusiveUse'
    BY <1>7 DEF OpenStreamFails, Closing, TypeOK, Life, ExclusiveUse, InUse
  <2>3. ListedUntilRetired'
    BY <1>7 DEF OpenStreamFails, Closing, TypeOK, Life, ListedUntilRetired
  <2>4. Life'
    BY <1>7 DEF OpenStreamFails, Closing, TypeOK, Life
  <2>5. Drained'
    BY <1>7 DEF OpenStreamFails, Closing, TypeOK, Life, Drained, IsClosed
  <2>6. QED
    BY <1>7, <2>1, <2>2, <2>3, <2>4, <2>5 DEF IInv, OpenStreamFails, Closing
<1>8. CASE SetDieHook(t)
  <2>1. TypeOK'
    BY <1>8 DEF SetDieHook, TypeOK, SessionLife, CallState, StreamLife
  <2>2. ExclusiveUse'
    BY <1>8 DEF SetDieHook, TypeOK, Life, ExclusiveUse, InUse
  <2>3. ListedUntilRetired'
    BY <1>8 DEF SetDieHook, TypeOK, Life, ListedUntilRetired
  <2>4. Life'
    BY <1>8 DEF SetDieHook, TypeOK, Life
  <2>5. Drained'
    BY <1>8 DEF SetDieHook, TypeOK, Life, Drained, IsClosed
  <2>6. QED
    BY <1>8, <2>1, <2>2, <2>3, <2>4, <2>5 DEF IInv, SetDieHook
<1>9. CASE NextCall(t)
  <2>1. TypeOK'
    BY <1>9 DEF NextCall, TypeOK, SessionLife, CallState, StreamLife
  <2>2. ExclusiveUse'
    <3>1. ~InUse(t)'
      BY <1>9 DEF NextCall, TypeOK, InUse
    <3>2. \A u \in Streams \ {t} : sess'[u] = sess[u] /\ (InUse(u)' <=> InUse(u))
      BY <1>9 DEF NextCall, TypeOK, InUse
    <3>3. UNCHANGED <<idleSession, doomed>>
      BY <1>9 DEF NextCall
    <3>4. QED
      BY <3>1, <3>2, <3>3 DEF ExclusiveUse
  <2>3. ListedUntilRetired'
    BY <1>9 DEF NextCall, TypeOK, Life, ListedUntilRetired
  <2>4. Life'
    BY <1>9 DEF NextCall, TypeOK, Life
  <2>5. Drained'
    BY <1>9 DEF NextCall, Life, Drained, IsClosed
  <2>6. QED
    BY <1>9, <2>1, <2>2, <2>3, <2>4, <2>5 DEF IInv, NextCall
<1>10. QED
  BY <1>1, <1>2, <1>3, <1>4, <1>5, <1>6, <1>7, <1>8, <1>9 DEF CallStep

\* The end of a stream and the steps of its dieHook.
LEMMA HookInv ==
  ASSUME IInv, NEW t \in Streams, StreamEnds(t) \/ HookStep(t) PROVE IInv'
<1> USE DEF closeVars, listVars, idleVars, callVars
<1>0. /\ TypeOK /\ ExclusiveUse /\ ListedUntilRetired /\ Life /\ Drained
      /\ routine = "sleep" => doomed = {}
  BY DEF IInv
<1> USE <1>0
<1>1. CASE StreamEnds(t)
  <2>1. TypeOK'
    BY <1>1 DEF StreamEnds, TypeOK, SessionLife, CallState, StreamLife
  <2>2. ExclusiveUse'
    BY <1>1 DEF StreamEnds, TypeOK, Life, ExclusiveUse, InUse
  <2>3. ListedUntilRetired'
    BY <1>1 DEF StreamEnds, TypeOK, Life, ListedUntilRetired
  <2>4. Life'
    BY <1>1 DEF StreamEnds, TypeOK, Life
  <2>5. Drained'
    BY <1>1 DEF StreamEnds, TypeOK, Life, Drained, IsClosed
  <2>6. QED
    BY <1>1, <2>1, <2>2, <2>3, <2>4, <2>5 DEF IInv, StreamEnds
<1>2. CASE ReadDieHook(t)
  <2>1. TypeOK'
    BY <1>2 DEF ReadDieHook, TypeOK, SessionLife, CallState, StreamLife
  <2>2. ExclusiveUse'
    BY <1>2 DEF ReadDieHook, TypeOK, Life, ExclusiveUse, InUse
  <2>3. ListedUntilRetired'
    BY <1>2 DEF ReadDieHook, TypeOK, Life, ListedUntilRetired
  <2>4. Life'
    BY <1>2 DEF ReadDieHook, TypeOK, Life
  <2>5. Drained'
    BY <1>2 DEF ReadDieHook, TypeOK, Life, Drained, IsClosed
  <2>6. QED
    BY <1>2, <2>1, <2>2, <2>3, <2>4, <2>5 DEF IInv, ReadDieHook
<1>3. CASE HookCheckSession(t)
  <2>1. TypeOK'
    BY <1>3 DEF HookCheckSession, Closing, TypeOK, SessionLife, CallState, StreamLife
  <2>2. ExclusiveUse'
    BY <1>3 DEF HookCheckSession, Closing, TypeOK, Life, ExclusiveUse, InUse
  <2>3. ListedUntilRetired'
    BY <1>3 DEF HookCheckSession, Closing, TypeOK, Life, ListedUntilRetired
  <2>4. Life'
    BY <1>3 DEF HookCheckSession, Closing, TypeOK, Life
  <2>5. Drained'
    BY <1>3 DEF HookCheckSession, Closing, TypeOK, Life, Drained, IsClosed
  <2>6. QED
    BY <1>3, <2>1, <2>2, <2>3, <2>4, <2>5 DEF IInv, HookCheckSession, Closing
<1>4. CASE HookCheckClient(t)
  <2>1. TypeOK'
    BY <1>4 DEF HookCheckClient, Closing, TypeOK, SessionLife, CallState, StreamLife
  <2>2. ExclusiveUse'
    BY <1>4 DEF HookCheckClient, Closing, TypeOK, Life, ExclusiveUse, InUse
  <2>3. ListedUntilRetired'
    BY <1>4 DEF HookCheckClient, Closing, TypeOK, Life, ListedUntilRetired
  <2>4. Life'
    BY <1>4 DEF HookCheckClient, Closing, TypeOK, Life
  <2>5. Drained'
    BY <1>4 DEF HookCheckClient, Closing, TypeOK, Life, Drained, IsClosed
  <2>6. QED
    BY <1>4, <2>1, <2>2, <2>3, <2>4, <2>5 DEF IInv, HookCheckClient, Closing
<1>5. CASE HookInsert(t)
  <2>0. sess[t] \in Sessions /\ sessPc[sess[t]] \notin {"none", "dialed"}
    BY <1>5 DEF HookInsert, TypeOK, CallState, Life
  <2>1. TypeOK'
    <3>1. /\ idleSession' \subseteq Sessions
          /\ stale' \subseteq idleSession'
          /\ reused' \subseteq Sessions
      BY <1>5, <2>0 DEF HookInsert, TypeOK
    <3>2. stream' \in [Streams -> StreamLife]
      BY <1>5 DEF HookInsert, TypeOK, StreamLife
    <3>3. QED
      BY <1>5, <3>1, <3>2 DEF HookInsert, TypeOK
  <2>2. ExclusiveUse'
    <3>1. ASSUME NEW u \in Streams, InUse(u)'
          PROVE  u # t /\ InUse(u) /\ sess'[u] = sess[u] /\ sess[u] # sess[t]
      BY <1>5, <3>1 DEF HookInsert, TypeOK, Life, ExclusiveUse, InUse
    <3>2. sess[t] \notin doomed
      BY <1>5 DEF HookInsert, InUse, ExclusiveUse
    <3>3. QED
      BY <1>5, <3>1, <3>2 DEF HookInsert, ExclusiveUse
  <2>3. ListedUntilRetired'
    BY <1>5, <2>0 DEF HookInsert, TypeOK, Life, ListedUntilRetired
  <2>4. Life'
    BY <1>5, <2>0 DEF HookInsert, TypeOK, Life
  <2>5. Drained'
    BY <1>5, <2>0 DEF HookInsert, TypeOK, Life, Drained, IsClosed
  <2>6. QED
    BY <1>5, <2>1, <2>2, <2>3, <2>4, <2>5 DEF IInv, HookInsert
<1>6. QED
  BY <1>1, <1>2, <1>3, <1>4, <1>5 DEF HookStep

\* Client.Close.
LEMMA CloseInv ==
  ASSUME IInv, ClientClose PROVE IInv'
<1> USE DEF closeVars, listVars, idleVars, callVars
<1>0. /\ TypeOK /\ ExclusiveUse /\ ListedUntilRetired /\ Life /\ Drained
      /\ routine = "sleep" => doomed = {}
  BY DEF IInv
<1> USE <1>0
<1>1. CASE DieCancel
  <2>1. TypeOK'
    BY <1>1 DEF DieCancel, TypeOK, SessionLife, CallState, StreamLife
  <2>2. ExclusiveUse'
    BY <1>1 DEF DieCancel, TypeOK, Life, ExclusiveUse, InUse
  <2>3. ListedUntilRetired'
    BY <1>1 DEF DieCancel, TypeOK, Life, ListedUntilRetired
  <2>4. Life'
    BY <1>1 DEF DieCancel, TypeOK, Life
  <2>5. Drained'
    BY <1>1 DEF DieCancel, TypeOK, Life, Drained, IsClosed
  <2>6. QED
    BY <1>1, <2>1, <2>2, <2>3, <2>4, <2>5 DEF IInv, DieCancel
<1>2. CASE SwapSessions
  <2>0. ASSUME NEW r \in Sessions, sessPc[r] \notin {"none", "dialed"}
        PROVE  (r \in toClose \/ IsClosed(r))'
    BY <1>2, <2>0 DEF SwapSessions, TypeOK, SessionLife, Drained, IsClosed
  <2>1. TypeOK'
    BY <1>2, <2>0 DEF SwapSessions, TypeOK, SessionLife, CallState, StreamLife
  <2>2. ExclusiveUse'
    BY <1>2, <2>0 DEF SwapSessions, TypeOK, Life, ExclusiveUse, InUse
  <2>3. ListedUntilRetired'
    BY <1>2, <2>0 DEF SwapSessions, TypeOK, Life, ListedUntilRetired
  <2>4. Life'
    BY <1>2, <2>0 DEF SwapSessions, TypeOK, Life
  <2>5. Drained'
    BY <1>2, <2>0 DEF SwapSessions, TypeOK, Life, Drained, IsClosed
  <2>6. QED
    BY <1>2, <2>1, <2>2, <2>3, <2>4, <2>5 DEF IInv, SwapSessions
<1>3. CASE CloseNext
  <2>1. CASE toClose = {}
    <3>1. TypeOK'
      BY <1>3, <2>1 DEF CloseNext, TypeOK
    <3>2. ExclusiveUse' /\ ListedUntilRetired'
      BY <1>3, <2>1 DEF CloseNext, ExclusiveUse, InUse, ListedUntilRetired
    <3>3. Life'
      BY <1>3, <2>1 DEF CloseNext, Life
    <3>4. Drained'
      BY <1>3, <2>1 DEF CloseNext, TypeOK, Life, Drained, IsClosed
    <3>5. QED
      BY <1>3, <2>1, <3>1, <3>2, <3>3, <3>4 DEF IInv, CloseNext
  <2>2. CASE toClose # {}
    <3>0. PICK s \in toClose :
            toClose' = toClose \ {s} /\ Closing({s}) /\ UNCHANGED closePc
      BY <1>3, <2>2 DEF CloseNext
    <3>1. TypeOK'
      BY <1>3, <2>2, <3>0
      DEF CloseNext, Closing, TypeOK, SessionLife, CallState, StreamLife
    <3>2. ExclusiveUse'
      BY <1>3, <2>2, <3>0
      DEF CloseNext, Closing, ExclusiveUse, InUse
    <3>3. ListedUntilRetired'
      BY <1>3, <2>2, <3>0
      DEF CloseNext, Closing, TypeOK, Life, ListedUntilRetired, IsClosed
    <3>4. Life'
      BY <1>3, <2>2, <3>0 DEF CloseNext, Closing, TypeOK, Life, IsClosed
    <3>5. Drained'
      <4>1. ASSUME NEW r \in Sessions, r \in toClose \/ IsClosed(r),
                   sessPc[r] \notin {"none", "dialed"}
            PROVE  (r \in toClose \/ IsClosed(r))'
        BY <3>0, <4>1 DEF Closing, TypeOK, SessionLife, IsClosed
      <4>2. \A t \in Streams : stream[t] = "insert" =>
              sess[t] \in Sessions /\ sessPc[sess[t]] \notin {"none", "dialed"}
        BY DEF TypeOK, CallState, Life
      <4>3. QED
        BY <1>3, <2>2, <3>0, <4>1, <4>2 DEF CloseNext, TypeOK, Life, Drained
    <3>6. QED
      BY <1>3, <3>1, <3>2, <3>3, <3>4, <3>5 DEF IInv, CloseNext
  <2>3. QED
    BY <2>1, <2>2
<1>4. QED
  BY <1>1, <1>2, <1>3 DEF ClientClose

\* Ageing in the pool, and the sessions idleCleanupExpTime closes.
LEMMA ReclaimInv ==
  ASSUME IInv, NEW s \in Sessions, GoesStale(s) \/ CleanupCloses(s) PROVE IInv'
<1> USE DEF closeVars, listVars, idleVars, callVars
<1>0. /\ TypeOK /\ ExclusiveUse /\ ListedUntilRetired /\ Life /\ Drained
      /\ routine = "sleep" => doomed = {}
  BY DEF IInv
<1> USE <1>0
<1>1. CASE GoesStale(s)
  <2>1. TypeOK'
    BY <1>1 DEF GoesStale, TypeOK, SessionLife, CallState, StreamLife
  <2>2. ExclusiveUse'
    BY <1>1 DEF GoesStale, ExclusiveUse, InUse
  <2>3. ListedUntilRetired'
    BY <1>1 DEF GoesStale, ListedUntilRetired
  <2>4. Life'
    BY <1>1 DEF GoesStale, Life
  <2>5. Drained'
    BY <1>1 DEF GoesStale, Drained, IsClosed
  <2>6. QED
    BY <1>1, <2>1, <2>2, <2>3, <2>4, <2>5 DEF IInv, GoesStale
<1>2. CASE CleanupCloses(s)
  <2>1. TypeOK'
    BY <1>2 DEF CleanupCloses, Closing, TypeOK, SessionLife, CallState, StreamLife
  <2>2. ExclusiveUse'
    BY <1>2 DEF CleanupCloses, Closing, ExclusiveUse, InUse
  <2>3. ListedUntilRetired'
    BY <1>2 DEF CleanupCloses, Closing, TypeOK, Life, ListedUntilRetired
  <2>4. Life'
    BY <1>2 DEF CleanupCloses, Closing, TypeOK, Life
  <2>5. Drained'
    BY <1>2 DEF CleanupCloses, Closing, TypeOK, Life, Drained, IsClosed
  <2>6. QED
    BY <1>2, <2>1, <2>2, <2>3, <2>4, <2>5 DEF IInv, CleanupCloses
<1>3. QED
  BY <1>1, <1>2

\* The locked part of idleCleanupExpTime, and its routine.
LEMMA CleanupInv ==
  ASSUME IInv, idleCleanup \/ StartRoutine PROVE IInv'
<1> USE DEF closeVars, listVars, idleVars, callVars
<1>0. /\ TypeOK /\ ExclusiveUse /\ ListedUntilRetired /\ Life /\ Drained
      /\ routine = "sleep" => doomed = {}
  BY DEF IInv
<1> USE <1>0
<1>1. CASE idleCleanup
  <2>0. Expired \subseteq idleSession
    BY DEF Expired
  <2>1. TypeOK'
    BY <1>1, <2>0 DEF idleCleanup, TypeOK, SessionLife, CallState, StreamLife
  <2>2. ExclusiveUse'
    BY <1>1, <2>0 DEF idleCleanup, ExclusiveUse, InUse
  <2>3. ListedUntilRetired'
    BY <1>1, <2>0 DEF idleCleanup, TypeOK, Life, ListedUntilRetired
  <2>4. Life'
    BY <1>1, <2>0 DEF idleCleanup, TypeOK, Life
  <2>5. Drained'
    BY <1>1, <2>0 DEF idleCleanup, TypeOK, Life, Drained, IsClosed
  <2>6. QED
    BY <1>1, <2>1, <2>2, <2>3, <2>4, <2>5 DEF IInv, idleCleanup
<1>2. CASE StartRoutine
  <2>1. TypeOK'
    BY <1>2 DEF StartRoutine, TypeOK, SessionLife, CallState, StreamLife
  <2>2. ExclusiveUse'
    BY <1>2 DEF StartRoutine, ExclusiveUse, InUse
  <2>3. ListedUntilRetired'
    BY <1>2 DEF StartRoutine, ListedUntilRetired
  <2>4. Life'
    BY <1>2 DEF StartRoutine, Life
  <2>5. Drained'
    BY <1>2 DEF StartRoutine, Drained, IsClosed
  <2>6. QED
    BY <1>2, <2>1, <2>2, <2>3, <2>4, <2>5 DEF IInv, StartRoutine
<1>3. QED
  BY <1>1, <1>2

\* Every step of every goroutine preserves the invariant.
LEMMA StepInv == IInv /\ [Next]_vars => IInv'
<1> SUFFICES ASSUME IInv, [Next]_vars PROVE IInv'
  OBVIOUS
<1>0. /\ TypeOK /\ ExclusiveUse /\ ListedUntilRetired /\ Life /\ Drained
      /\ routine = "sleep" => doomed = {}
  BY DEF IInv
<1>1. CASE UNCHANGED vars
  <2>1. TypeOK'
    BY <1>0, <1>1
    DEF vars, closeVars, listVars, idleVars, callVars, TypeOK
  <2>2. ExclusiveUse'
    BY <1>0, <1>1
    DEF vars, closeVars, listVars, idleVars, callVars, ExclusiveUse, InUse
  <2>3. ListedUntilRetired'
    BY <1>0, <1>1
    DEF vars, closeVars, listVars, idleVars, callVars, TypeOK, Life, ListedUntilRetired
  <2>4. Life'
    BY <1>0, <1>1 DEF vars, closeVars, listVars, idleVars, callVars, TypeOK, Life
  <2>5. Drained'
    BY <1>0, <1>1
    DEF vars, closeVars, listVars, idleVars, callVars, TypeOK, Life, Drained, IsClosed
  <2>6. QED
    BY <1>0, <1>1, <2>1, <2>2, <2>3, <2>4, <2>5
    DEF IInv, vars, closeVars, listVars, idleVars, callVars
<1>2. QED
  BY <1>1, SessionInv, CallInv, HookInv, CloseInv, ReclaimInv, CleanupInv
  DEF Next

-----------------------------------------------------------------------------

LEMMA Invariance == Spec => []IInv
  BY InitInv, StepInv, PTL DEF Spec

\* Every variable keeps its type, for any pool size: in particular a session
\* marked stale is always one that is in the idle list.
THEOREM TypeCorrect == Spec => []TypeOK
  BY Invariance, PTL DEF IInv

\* getIdleSession, createSession, the stream's dieHook and idleCleanupExpTime
\* hand a session on so that at most one of them ever holds it.
THEOREM PoolExclusive == Spec => []ExclusiveUse
  BY Invariance, PTL DEF IInv

\* createSession lists a session before Run, and session.dieHook unlists it, so
\* c.sessions never keeps one whose hook is through.
THEOREM NoLeakedListing == Spec => []ListedUntilRetired
  BY Invariance, PTL DEF IInv

\* OpenStream and the sweep of Session.Close cannot miss each other.
THEOREM StreamsSwept == Spec => []NoStreamOutlivesSession
<1>1. IInv => NoStreamOutlivesSession
  BY DEF IInv, Life, NoStreamOutlivesSession
<1>2. QED
  BY <1>1, Invariance, PTL

\* After Client.Close nothing usable is left in the pool, whatever dieHook and
\* createSession calls were under way when it began.
THEOREM ClosedPoolDrained == Spec => []ClosedClientPoolsNothing
<1>1. IInv => ClosedClientPoolsNothing
  BY DEF IInv, Drained, ClosedClientPoolsNothing
<1>2. QED
  BY <1>1, Invariance, PTL

=============================================================================
