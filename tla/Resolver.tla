------------------------------ MODULE Resolver ------------------------------
(***************************************************************************)
(* A resolver of the server (src/resolver): Resolve asks for the A and the *)
(* AAAA record of a host at the same time; over TCP and TLS the queries    *)
(* share a pool of idle connections, over UDP each has a socket of its     *)
(* own, and the DoH resolver makes one request and follows no CNAME.       *)
(* What the name server knows is a zone: each name is an alias of another  *)
(* one or has a set of address records.                                    *)
(***************************************************************************)
EXTENDS Naturals, Sequences, FiniteSets, SequencesExt

CONSTANTS
  Names, Host,      \* domain names, and the one that is resolved
  Zones,            \* zones the name server may serve: name -> [alias, types]
  DnsModes,         \* subset of {"pool", "udp", "doh"}
  maxIdleDNSConns,
  maxCNAMEDepth

standardResolverRetryTimes == 2
QTypes == {"A", "AAAA"}
DnsConns == 1..(maxIdleDNSConns + Cardinality(QTypes))  \* as many as can be open at once

ASSUME ResolverAssumption ==
  /\ Host \in Names /\ Names \cap QTypes = {}
  /\ maxIdleDNSConns \in Nat \ {0} /\ maxCNAMEDepth \in Nat
  /\ DnsModes \subseteq {"pool", "udp", "doh"}

VARIABLES
  dnsMode,   \* the kind of resolver main has built
  zone,      \* what the name server serves
  dnsIdle,   \* connPool.idle
  dnsOpen,   \* connections that are open
  dnsStale,  \* connections on which the reply of a query that gave up may still come
  look,      \* per type: the goroutine of resolveParallel
  result     \* the last Result: IPv4, IPv6 (found or not) and Err

dnsVars == <<dnsMode, zone, dnsIdle, dnsOpen, dnsStale, look, result>>

Fresh(try) == [pc |-> "enter", try |-> try, name |-> Host, depth |-> 0, seen |-> {},
               conn |-> 0, pooled |-> FALSE, ip |-> FALSE, withheld |-> FALSE]
NoResult == [A |-> FALSE, AAAA |-> FALSE, err |-> FALSE]
Idle == [Fresh(0) EXCEPT !.pc = "idle"]

DnsInit ==
  /\ dnsMode \in DnsModes /\ zone \in Zones
  /\ dnsIdle = <<>> /\ dnsOpen = {} /\ dnsStale = {}
  /\ look = [t \in QTypes |-> Idle]
  /\ result = NoResult

-----------------------------------------------------------------------------
\* The records of an answer: CNAMEs, each with its own name, then address records.
CNAME(n) == [type |-> "CNAME", name |-> n, target |-> zone[n].alias]
IsAlias(n) == zone[n].alias \in Names

\* Name after k aliases, or the last one that is no alias.
After(n, k) ==
  LET f[i \in 0..k] == IF i = 0 THEN n ELSE IF IsAlias(f[i - 1]) THEN zone[f[i - 1]].alias ELSE f[i - 1]
  IN f[k]

\* An answer for n: the chain as far as hops, with the addresses if that reaches them.
Answer(n, hops, t) ==
  LET k == Cardinality({i \in 0..(hops - 1) : IsAlias(After(n, i))})
      last == After(n, k)
  IN [i \in 1..k |-> CNAME(After(n, i - 1))]
     \o (IF ~IsAlias(last) /\ hops > k /\ t \in zone[last].types
         THEN <<[type |-> t, name |-> last, target |-> last]>> ELSE <<>>)

\* firstAddress: is there a record of the type, and else a CNAME?
firstAddress(answers, t) ==
  LET has(x) == \E i \in 1..Len(answers) : answers[i].type = x
  IN [ip |-> has(t), cname |-> ~has(t) /\ has("CNAME")]

\* skipCNAMEChain: the target of the last CNAME that continues the chain of the first.
skipCNAMEChain(answers) ==
  LET cnames == SelectSeq(answers, LAMBDA rr : rr.type = "CNAME")
      broken == {i \in 2..Len(cnames) : cnames[i].name # cnames[i - 1].target}
      end == IF broken = {} THEN Len(cnames) ELSE (CHOOSE i \in broken : \A j \in broken : i <= j) - 1
  IN cnames[end].target

-----------------------------------------------------------------------------
\* A lookup ends, with an address or without; or it fails, and lookupWithRetry starts
\* it again from the host.
Set(t, l) == look' = [look EXCEPT ![t] = l]
LookupDone(t, ip, withheld) ==
  Set(t, [look[t] EXCEPT !.pc = "done", !.ip = ip, !.withheld = withheld, !.conn = 0,
                         !.pooled = FALSE])
LookupFails(t) ==
  IF dnsMode # "doh" /\ look[t].try < standardResolverRetryTimes
  THEN Set(t, Fresh(look[t].try + 1))
  ELSE Set(t, [look[t] EXCEPT !.pc = "failed", !.conn = 0, !.pooled = FALSE])

\* The answer is empty although the name has something to answer with.
Withheld(t, answers) ==
  answers = <<>> /\ (IsAlias(look[t].name) \/ t \in zone[look[t].name].types)

AnsweredNoFollow(t, answers) ==
  LookupDone(t, firstAddress(answers, t).ip, Withheld(t, answers))

\* What the lookup does with the answers.  It does not look at the response code: no
\* records, for whatever reason, is no address and no error.
Answered(t, answers) ==
  LET first == firstAddress(answers, t) IN
  IF dnsMode = "doh" \/ first.ip \/ ~first.cname
  THEN LookupDone(t, first.ip, Withheld(t, answers))
  ELSE Set(t, [look[t] EXCEPT !.pc = "enter", !.name = skipCNAMEChain(answers), !.depth = @ + 1,
                              !.conn = 0, !.pooled = FALSE])

\* The server puts as much of the chain into an answer as it likes; nothing at all when
\* it fails (SERVFAIL, REFUSED) or has no records.
Reply(t) == \E hops \in 0..(Cardinality(Names) + 1) : Answered(t, Answer(look[t].name, hops, t))

\* Resolve of a name; a literal address is returned without any of this.
Resolve ==
  /\ \A t \in QTypes : look[t].pc = "idle"
  /\ look' = [t \in QTypes |-> Fresh(1)]
  /\ result' = NoResult
  /\ UNCHANGED <<dnsMode, zone, dnsIdle, dnsOpen, dnsStale>>

\* lookup as far as the exchange: the chain is too long, or was here before.
LookupUnbounded(t) ==
  /\ look[t].pc = "enter"
  /\ Set(t, [look[t] EXCEPT !.pc = IF dnsMode = "pool" THEN "get" ELSE "ask", !.depth = 0])
  /\ UNCHANGED <<dnsMode, zone, dnsIdle, dnsOpen, dnsStale, result>>

Lookup(t) ==
  /\ look[t].pc = "enter"
  /\ IF dnsMode # "doh" /\ (look[t].depth > maxCNAMEDepth \/ look[t].name \in look[t].seen)
     THEN LookupFails(t)
     ELSE Set(t, [look[t] EXCEPT !.pc = IF dnsMode = "pool" THEN "get" ELSE "ask",
                                 !.seen = IF dnsMode = "doh" THEN {} ELSE @ \cup {look[t].name}])
  /\ UNCHANGED <<dnsMode, zone, dnsIdle, dnsOpen, dnsStale, result>>

\* One exchange over a socket or a request of its own: a reply or an error.
Ask(t) ==
  /\ look[t].pc = "ask"
  /\ Reply(t) \/ LookupFails(t)
  /\ UNCHANGED <<dnsMode, zone, dnsIdle, dnsOpen, dnsStale, result>>

\* exchange with a pool: an idle connection if there is one, else a new one.
PoolGet(t) ==
  /\ look[t].pc = "get"
  /\ IF dnsIdle = <<>>
     THEN Set(t, [look[t] EXCEPT !.pc = "dial"]) /\ UNCHANGED dnsIdle
     ELSE /\ Set(t, [look[t] EXCEPT !.pc = "talk", !.conn = Head(dnsIdle), !.pooled = TRUE])
          /\ dnsIdle' = Tail(dnsIdle)
  /\ UNCHANGED <<dnsMode, zone, dnsOpen, dnsStale, result>>

DialDNS(t) ==
  /\ look[t].pc = "dial"
  /\ \/ LookupFails(t) /\ UNCHANGED <<dnsOpen, dnsStale>>
     \/ LET c == CHOOSE x \in DnsConns : x \notin dnsOpen IN
        /\ dnsOpen' = dnsOpen \cup {c}
        /\ dnsStale' = dnsStale \ {c}
        /\ Set(t, [look[t] EXCEPT !.pc = "talk", !.conn = c, !.pooled = FALSE])
  /\ UNCHANGED <<dnsMode, zone, dnsIdle, result>>

\* exchangeOn with success: the connection goes into the pool, or is closed if that is
\* full.
Exchanged(t) ==
  /\ look[t].pc = "talk"
  /\ IF Len(dnsIdle) < maxIdleDNSConns
     THEN dnsIdle' = Append(dnsIdle, look[t].conn) /\ UNCHANGED dnsOpen
     ELSE dnsOpen' = dnsOpen \ {look[t].conn} /\ UNCHANGED dnsIdle
  /\ Reply(t)
  /\ UNCHANGED <<dnsMode, zone, dnsStale, result>>

ExchangeTimesOutKept(t) ==
  /\ look[t].pc = "talk" /\ Len(dnsIdle) < maxIdleDNSConns
  /\ dnsIdle' = Append(dnsIdle, look[t].conn)
  /\ dnsStale' = dnsStale \cup {look[t].conn}
  /\ LookupFails(t)
  /\ UNCHANGED <<dnsMode, zone, dnsOpen, result>>

\* The query times out or its context ends: the reply may still come, so the connection
\* is closed, and no other is tried.
ExchangeTimesOut(t) ==
  /\ look[t].pc = "talk"
  /\ dnsOpen' = dnsOpen \ {look[t].conn}
  /\ dnsStale' = dnsStale \cup {look[t].conn}
  /\ LookupFails(t)
  /\ UNCHANGED <<dnsMode, zone, dnsIdle, result>>

\* Any other error: a connection from the pool had been closed by the server, and a new
\* one is dialed in its place; a new one fails the lookup.
ExchangeBreaks(t) ==
  /\ look[t].pc = "talk"
  /\ dnsOpen' = dnsOpen \ {look[t].conn}
  /\ IF look[t].pooled
     THEN Set(t, [look[t] EXCEPT !.pc = "dial", !.conn = 0, !.pooled = FALSE])
     ELSE LookupFails(t)
  /\ UNCHANGED <<dnsMode, zone, dnsIdle, dnsStale, result>>

\* resolveParallel has received from both channels.
Collect ==
  /\ \A t \in QTypes : look[t].pc \in {"done", "failed"}
  /\ result' = [A |-> look["A"].ip, AAAA |-> look["AAAA"].ip,
                err |-> \E t \in QTypes : look[t].pc = "failed"]
  /\ look' = [t \in QTypes |-> Idle]
  /\ UNCHANGED <<dnsMode, zone, dnsIdle, dnsOpen, dnsStale>>

LookStep(t) == \/ Lookup(t) \/ Ask(t) \/ PoolGet(t) \/ DialDNS(t)
               \/ Exchanged(t) \/ ExchangeTimesOut(t) \/ ExchangeBreaks(t)

DnsNext == Resolve \/ Collect \/ \E t \in QTypes : LookStep(t)

\* Queries have timeouts, so a lookup always goes on.
DnsFairness == WF_dnsVars(Collect) /\ \A t \in QTypes : WF_dnsVars(LookStep(t))

-----------------------------------------------------------------------------
\* A connection to the name server belongs to one query or lies in the pool once, and
\* nothing else is open: no two queries share one, none is lost or used after it was
\* closed, the pool keeps its bound, and one on which a query has given up is not used
\* again, so that no query reads the late answer of another (resolver/pool.go:16, 63-74).
DnsConnsOwned ==
  LET talking == {t \in QTypes : look[t].pc = "talk"}
      owned == {look[t].conn : t \in talking}
  IN /\ Cardinality(owned) = Cardinality(talking)
     /\ IsInjective(dnsIdle) /\ ToSet(dnsIdle) \cap owned = {}
     /\ dnsOpen = owned \cup ToSet(dnsIdle)
     /\ Len(dnsIdle) <= maxIdleDNSConns
     /\ dnsOpen \cap dnsStale = {}

\* However the server cuts the chain of aliases into packets, and whichever connections
\* break, a lookup that ends without an error has found what the zone holds at the end
\* of the chain, unless an empty answer withheld it: then it has found nothing.  A cycle
\* of aliases or too long a chain is never an answer (resolver/standard.go:96-169).
LookupRight ==
  LET last == After(Host, Cardinality(Names)) IN
  \A t \in QTypes : dnsMode # "doh" /\ look[t].pc = "done" =>
    IF look[t].withheld THEN ~look[t].ip
    ELSE ~IsAlias(last) /\ look[t].ip = (t \in zone[last].types)

\* Resolve returns, also for a name server that answers with a cycle of aliases
\* (resolver/standard.go:96-98 "cannot make us loop forever").
ResolveReturns == \A t \in QTypes : (look[t].pc = "enter") ~> (look[t].pc = "idle")
=============================================================================
