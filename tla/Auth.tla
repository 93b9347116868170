-------------------------------- MODULE Auth --------------------------------
(***************************************************************************)
(* Authentication of a connection on the server: the password comparison,  *)
(* the HTTP backend, the limit on concurrent backend calls and the two     *)
(* caches around it (src/auth).  A call of Authenticate is a process: it   *)
(* is named by the connection that makes it, which makes no other.         *)
(***************************************************************************)
EXTENDS Naturals, FiniteSets, Connections

CONSTANTS
  Blobs,          \* credentials as sent by clients
  Password,       \* the credential the password authenticator accepts
  PasswordId,     \* the id it gives
  AuthModes,      \* wrappings of the authenticator that main may build
  MaxConcurrent,  \* LimitedAuthenticator: slots
  MaxChanges      \* bound: how often the backend changes its mind

ASSUME AuthAssumption ==
  /\ Password \in Blobs /\ PasswordId \in Ids
  /\ AuthModes \subseteq {"password", "http", "cache", "cache+neg"}
  /\ MaxConcurrent \in Nat \ {0} /\ MaxChanges \in Nat
  /\ Ids \cap {"reject", "error", "none"} = {}

VARIABLES
  authMode,   \* how main wrapped the authenticator
  authPc,     \* where the Authenticate call of a connection is
  authBlob,   \* the credential it was called with
  answer,     \* an id, "reject", "error", or "none" as long as there is none
  authCache,  \* positive cache: credential -> id, "none" when absent
  authNeg,    \* negative cache: the rejected credentials
  slots,      \* tokens in the channel LimitedAuthenticator.slots
  backend,    \* what the backend says of a credential at the moment
  changes,    \* how often it has changed its mind
  given       \* history: the verdicts it has given

authVars == <<authMode, authPc, authBlob, answer, authCache, authNeg, slots,
              backend, changes, given>>

Caching == authMode \in {"cache", "cache+neg"}
Calling == {c \in Conns : authPc[c] \in {"call", "reply"}}

AuthInit ==
  /\ authMode \in AuthModes
  /\ authPc = [c \in Conns |-> "idle"]
  /\ authBlob \in [Conns -> Blobs]
  /\ answer = [c \in Conns |-> "none"]
  /\ authCache = [b \in Blobs |-> "none"]
  /\ authNeg = {}
  /\ slots = 0
  /\ backend \in [Blobs -> Ids \cup {"reject"}]
  /\ authMode = "password" => backend = [b \in Blobs |-> "reject"]  \* there is none
  /\ changes = 0
  /\ given = {}

AuthGoto(c, pc) == authPc' = [authPc EXCEPT ![c] = pc]
AuthReturn(c, a) == /\ AuthGoto(c, "done")
                    /\ answer' = [answer EXCEPT ![c] = a]

\* The call itself.  The password authenticator answers at once.
Authenticate(c) ==
  /\ authPc[c] = "idle"
  /\ \/ /\ authMode = "password"
        /\ AuthReturn(c, IF authBlob[c] = Password THEN PasswordId ELSE "reject")
     \/ authMode = "http" /\ AuthGoto(c, "slot") /\ UNCHANGED answer
     \/ Caching /\ AuthGoto(c, "cache") /\ UNCHANGED answer
  /\ UNCHANGED <<authMode, authBlob, authCache, authNeg, slots, backend, changes, given>>

\* CachingAuthenticator: the positive cache, then the negative one.
CacheGet(c) ==
  /\ authPc[c] = "cache"
  /\ IF authCache[authBlob[c]] # "none"
     THEN AuthReturn(c, authCache[authBlob[c]])
     ELSE /\ AuthGoto(c, IF authMode = "cache+neg" THEN "neg" ELSE "slot")
          /\ UNCHANGED answer
  /\ UNCHANGED <<authMode, authBlob, authCache, authNeg, slots, backend, changes, given>>

NegGet(c) ==
  /\ authPc[c] = "neg"
  /\ IF authBlob[c] \in authNeg
     THEN AuthReturn(c, "reject")
     ELSE AuthGoto(c, "slot") /\ UNCHANGED answer
  /\ UNCHANGED <<authMode, authBlob, authCache, authNeg, slots, backend, changes, given>>

\* LimitedAuthenticator: a slot of the channel, or ErrBackendBusy when the timer
\* fires first (select takes either when both are ready).
TakeSlot(c) ==
  /\ authPc[c] = "slot" /\ slots < MaxConcurrent
  /\ slots' = slots + 1
  /\ AuthGoto(c, "call")
  /\ UNCHANGED <<authMode, authBlob, answer, authCache, authNeg, backend, changes, given>>

SlotTimeoutLeaky(c) ==
  /\ authPc[c] = "slot"
  /\ answer' = [answer EXCEPT ![c] = "error"]
  /\ AuthGoto(c, "switch")
  /\ slots' = IF slots > 0 THEN slots - 1 ELSE slots
  /\ UNCHANGED <<authMode, authBlob, authCache, authNeg, backend, changes, given>>

SlotTimeout(c) ==
  /\ authPc[c] = "slot"
  /\ answer' = [answer EXCEPT ![c] = "error"]
  /\ AuthGoto(c, "switch")
  /\ UNCHANGED <<authMode, authBlob, authCache, authNeg, slots, backend, changes, given>>

\* The backend decides; its reply is still on the way.
BackendServe(c) ==
  /\ authPc[c] = "call"
  /\ answer' = [answer EXCEPT ![c] = backend[authBlob[c]]]
  /\ given' = given \cup {<<authBlob[c], backend[authBlob[c]]>>}
  /\ AuthGoto(c, "reply")
  /\ UNCHANGED <<authMode, authBlob, authCache, authNeg, slots, backend, changes>>

\* HTTPAuthenticator returns: with the reply, or with an error (the call failed or
\* timed out, the status was not 200, the body was no JSON).  The deferred receive
\* gives the slot back in both cases.
BackendReturn(c) ==
  /\ \/ authPc[c] = "reply" /\ UNCHANGED answer
     \/ authPc[c] \in {"call", "reply"} /\ answer' = [answer EXCEPT ![c] = "error"]
  /\ slots' = slots - 1
  /\ AuthGoto(c, "switch")
  /\ UNCHANGED <<authMode, authBlob, authCache, authNeg, backend, changes, given>>

\* The switch after the inner call: an error is never cached.
RememberErrors(c) ==
  /\ authPc[c] = "switch"
  /\ IF Caching /\ answer[c] \in Ids
     THEN authCache' = [authCache EXCEPT ![authBlob[c]] = answer[c]] /\ UNCHANGED authNeg
     ELSE /\ UNCHANGED authCache
          /\ authNeg' = IF authMode = "cache+neg" THEN authNeg \cup {authBlob[c]} ELSE authNeg
  /\ AuthGoto(c, "done")
  /\ UNCHANGED <<authMode, authBlob, answer, slots, backend, changes, given>>

Remember(c) ==
  /\ authPc[c] = "switch"
  /\ authCache' = IF Caching /\ answer[c] \in Ids
                  THEN [authCache EXCEPT ![authBlob[c]] = answer[c]] ELSE authCache
  /\ authNeg' = IF authMode = "cache+neg" /\ answer[c] = "reject"
                THEN authNeg \cup {authBlob[c]} ELSE authNeg
  /\ AuthGoto(c, "done")
  /\ UNCHANGED <<authMode, authBlob, answer, slots, backend, changes, given>>

\* An entry's TTL lapses or the LRU evicts it; the backend changes its mind.
Expire(b) ==
  /\ \/ authCache[b] # "none" /\ authCache' = [authCache EXCEPT ![b] = "none"] /\ UNCHANGED authNeg
     \/ b \in authNeg /\ authNeg' = authNeg \ {b} /\ UNCHANGED authCache
  /\ UNCHANGED <<authMode, authPc, authBlob, answer, slots, backend, changes, given>>

BackendChange(b, v) ==
  /\ authMode # "password" /\ changes < MaxChanges /\ backend[b] # v
  /\ backend' = [backend EXCEPT ![b] = v]
  /\ changes' = changes + 1
  /\ UNCHANGED <<authMode, authPc, authBlob, answer, authCache, authNeg, slots, given>>

AuthStep(c) ==
  \/ CacheGet(c) \/ NegGet(c) \/ TakeSlot(c) \/ SlotTimeout(c)
  \/ BackendServe(c) \/ BackendReturn(c) \/ Remember(c)

AuthEnv ==
  \/ \E b \in Blobs : Expire(b)
  \/ \E b \in Blobs, v \in Ids \cup {"reject"} : BackendChange(b, v)

-----------------------------------------------------------------------------
\* The slots taken are those of the calls that are inside the backend, never more
\* than maxConcurrent: a slot is given back on every way out, and a call that never
\* got one gives none back (auth/limit.go:32-42).
SlotsExact ==
  /\ slots = Cardinality(Calling)
  /\ slots <= MaxConcurrent

\* Only verdicts are remembered: what either cache says of a credential is something
\* the backend has said of it, so that an outage or a full backend locks nobody out
\* and lets nobody in; and a connection is accepted or refused on such a verdict or,
\* for an error, refused without a trace (auth/cache.go:20-22, 46-66).
OnlyVerdictsCached ==
  authMode # "password" =>
    /\ \A b \in Blobs : authCache[b] # "none" => <<b, authCache[b]>> \in given
    /\ \A b \in authNeg : <<b, "reject">> \in given
    /\ \A c \in Conns : authPc[c] = "done" /\ answer[c] # "error" => <<authBlob[c], answer[c]>> \in given
=============================================================================
