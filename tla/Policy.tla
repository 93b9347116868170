------------------------------- MODULE Policy --------------------------------
(***************************************************************************)
(* Where a request leaves the server (src/cmd/server/acl.go, outbound.go,  *)
(* outbound_tcp.go, src/outbound): startup builds the outbounds, the rules *)
(* and the policy; selectRoute resolves, asks the rules and filters; a TCP *)
(* request dials the route.  A destination is [name, ip, port], with NoIP  *)
(* when it is a domain name.                                               *)
(***************************************************************************)
EXTENDS Acl

CONSTANTS
  Tcps,         \* goroutines of TCP requests
  Uot,          \* the goroutine that writes the packets of a UDP-over-TCP stream
  Setups,       \* operator's choices with the load: [entries, texts, acl, resolver,
                \* blockPrivate, dests, answers, procs, ends]
  PrivateIPs    \* the addresses isPrivateAddr reports

ASSUME UotAssumption == Uot \notin Tcps
\* An answer of a resolver has an address or none for each family, and no address (nil) is
\* not private.
ASSUME AnswersAssumption ==
  /\ \A s \in Setups : \A a \in s.answers : a = [v4 |-> a.v4, v6 |-> a.v6]
  /\ NoIP \notin PrivateIPs

Procs == Tcps \cup {Uot}
Reject == [kind |-> "reject", id |-> 0]
Direct == [kind |-> "direct", id |-> 0]
NoDest == [name |-> <<>>, ip |-> NoIP, port |-> 0]
NoRes == [v4 |-> NoIP, v6 |-> NoIP]
NoRoute == [ok |-> FALSE, ob |-> Reject, target |-> NoDest]

VARIABLES
  started, \* "no", "yes" or "fatal"
  setup,   \* the configuration
  req,     \* goroutine -> [pc, dest, res, look, route]
  socks    \* goroutine -> the sockets it has open: "tcp" (or SOCKS5 control) and "udp"

env == <<started, setup>>
policyVars == <<aclVars, env, req, socks>>
IdleReq == [pc |-> "idle", dest |-> NoDest, res |-> NoRes, look |-> NoMatch, route |-> NoRoute]
Running == started = "yes"

PolicyInit ==
  /\ rules = <<>> /\ aclCache = {} /\ started = "no" /\ setup \in Setups
  /\ req = [p \in Procs |-> IdleReq]
  /\ socks = [p \in Procs |-> {}]

-----------------------------------------------------------------------------
\* newOutbounds and outboundMap: the configured names, then the built-in ones they leave free.
outboundMap(entries) ==
  LET ob(i) == [kind |-> entries[i].kind, id |-> i]
      last(n) == CHOOSE i \in 1..Len(entries) :
                   entries[i].name = n /\ \A j \in (i + 1)..Len(entries) : entries[j].name # n
      named == [n \in {entries[i].name : i \in 1..Len(entries)} |-> ob(last(n))]
      builtin == named @@ ("direct" :> Direct) @@ ("reject" :> Reject)
  IN builtin @@ ("default" :> IF entries # <<>> THEN ob(1) ELSE builtin["direct"])

Outbounds == outboundMap(setup.entries)

\* main: the outbounds, the rules compiled against them (or a fatal error), the policy.
Startup ==
  /\ started = "no"
  /\ LET ok == setup.acl => Compiles(setup.texts, Outbounds)
     IN /\ started' = IF ok THEN "yes" ELSE "fatal"
        /\ rules' = IF ok /\ setup.acl THEN Compile(setup.texts, Outbounds) ELSE <<>>
  /\ UNCHANGED <<aclCache, setup, req, socks>>

-----------------------------------------------------------------------------
\* selectRoute.  RemoteResolve is true of a SOCKS5 outbound only.
IsFqdn(dest) == dest.ip = NoIP
RemoteResolve(ob) == ob.kind = "socks5"
isPrivateIP(ip) == ip \in PrivateIPs
At(ip, port) == [name |-> <<>>, ip |-> ip, port |-> port]

\* Whether hostInfo resolves the name: never for a literal, always with a resolver of its own,
\* otherwise when the rules or the filter need addresses.
Attempts(dest) == IsFqdn(dest) /\ (setup.resolver \/ setup.acl \/ setup.blockPrivate)

\* hostInfo: the results it may return for the destination.
hostInfo(dest) ==
  IF ~IsFqdn(dest)
  THEN {IF dest.ip[1] = 4 THEN [NoRes EXCEPT !.v4 = dest.ip] ELSE [NoRes EXCEPT !.v6 = dest.ip]}
  ELSE IF Attempts(dest) THEN setup.answers ELSE {NoRes}

\* The name the rules see: ip.String() of a literal.
HostName(dest) == IF IsFqdn(dest) THEN dest.name ELSE <<"1">>

\* pickDialAddr, whose error is NoDest.
pickDialAddr(dest, res) ==
  CASE res.v4 # NoIP -> At(res.v4, dest.port)
    [] res.v4 = NoIP /\ res.v6 # NoIP -> At(res.v6, dest.port)
    [] res = NoRes /\ Attempts(dest) -> NoDest
    [] OTHER -> dest

reachesPrivateAddrOnly(ob, addr, res) == isPrivateIP(addr.ip)
reachesPrivate(ob, addr, res) ==
  IF RemoteResolve(ob) THEN isPrivateIP(res.v4) \/ isPrivateIP(res.v6) ELSE isPrivateIP(addr.ip)

\* The rest of selectRoute, once the name is resolved and the rules have answered.
RouteOf(dest, res, look) ==
  LET ob == IF setup.acl /\ look.matched THEN look.outbound ELSE Outbounds["default"]
      addr == pickDialAddr(dest, res)
      to(target) == [ok |-> TRUE, ob |-> ob, target |-> target]
  IN CASE setup.acl /\ ob = Reject -> NoRoute
       [] ob # Reject /\ look.hijack # NoIP -> to(At(look.hijack, dest.port))
       [] OTHER ->
            IF addr = NoDest
            THEN IF ~RemoteResolve(ob) \/ setup.blockPrivate THEN NoRoute ELSE to(dest)
            ELSE IF setup.blockPrivate /\ reachesPrivate(ob, addr, res) THEN NoRoute
            ELSE to(IF RemoteResolve(ob) THEN dest ELSE addr)

Key(p) == CacheKey(HostInfo(HostName(req[p].dest), req[p].res.v4, req[p].res.v6),
                   IF p = Uot THEN "udp" ELSE "tcp", req[p].dest.port)
Goto(p, pc) == req' = [req EXCEPT ![p].pc = pc]
NextPc(p) == IF p = Uot THEN "decided" ELSE "dial"

\* hostInfo, for a request that has its destination.
Resolve(p) ==
  /\ req[p].pc = "resolve"
  /\ \E res \in hostInfo(req[p].dest) :
       req' = [req EXCEPT ![p].res = res, ![p].pc = "lookup"]
  /\ UNCHANGED <<aclVars, env, socks>>

\* Engine.Lookup: a cached answer, or the rules, whose answer Remember puts into the cache.
Answer(p, look, pc) ==
  LET route == RouteOf(req[p].dest, req[p].res, look) IN
  req' = [req EXCEPT ![p] =
            [pc |-> IF pc = "add" \/ p = Uot \/ route.ok THEN pc ELSE "refused",
             dest |-> @.dest, res |-> @.res, look |-> look, route |-> route]]
Lookup(p) ==
  /\ req[p].pc = "lookup"
  /\ IF ~setup.acl THEN Answer(p, NoMatch, NextPc(p))
     ELSE IF Cached(Key(p)) # {} THEN \E e \in Cached(Key(p)) : Answer(p, e.result, NextPc(p))
     ELSE Answer(p, Evaluate(Key(p)[1], Key(p)[2], req[p].dest.port), "add")
  /\ UNCHANGED <<aclVars, env, socks>>

Remember(p) ==
  /\ req[p].pc = "add"
  /\ CacheAdd(Key(p), req[p].look)
  /\ Answer(p, req[p].look, NextPc(p))
  /\ UNCHANGED <<rules, env, socks>>

-----------------------------------------------------------------------------
\* proxyOutboundTCP
Request(p) ==
  /\ Running /\ p \in setup.procs /\ req[p].pc = "idle"
  /\ \E d \in setup.dests : req' = [req EXCEPT ![p].dest = d, ![p].pc = "resolve"]
  /\ UNCHANGED <<aclVars, env, socks>>

\* ReportHandshakeFailure with what clientError makes of the error, and the stream is over.
Refuse(p) ==
  /\ req[p].pc = "refused"
  /\ req' = [req EXCEPT ![p] = IdleReq]
  /\ UNCHANGED <<aclVars, env, socks>>

\* The dial of an outbound: the connection itself (Direct), or the control connection of
\* SOCKS5, on which the handshake follows.
Dials(p, ok) ==
  /\ req[p].pc = "dial"
  /\ socks' = IF ok THEN [socks EXCEPT ![p] = {"tcp"}] ELSE socks
  /\ Goto(p, IF ~ok THEN "refused" ELSE IF RemoteResolve(req[p].route.ob) THEN "handshake" ELSE "report")
  /\ UNCHANGED <<aclVars, env>>

\* SOCKS5.negotiate: a failed handshake, or its timeout, closes the connection.
Handshake(p, ok) ==
  /\ req[p].pc = "handshake" /\ p \in Tcps
  /\ socks' = IF ok THEN socks ELSE [socks EXCEPT ![p] = {}]
  /\ Goto(p, IF ok THEN "report" ELSE "refused")
  /\ UNCHANGED <<aclVars, env>>

\* ReportHandshakeSuccess.  If it fails the function returns and nothing closes the
\* connection, which is left to the garbage collector.
Report(p, ok) ==
  /\ req[p].pc = "report"
  /\ Goto(p, IF ok THEN "copy" ELSE "dropped")
  /\ UNCHANGED <<aclVars, env, socks>>

\* The end of bufio.CopyConn, or of a dropped connection.
Finish(p) ==
  /\ req[p].pc \in {"copy", "dropped"}
  /\ req' = [req EXCEPT ![p] = IdleReq]
  /\ socks' = [socks EXCEPT ![p] = {}]
  /\ UNCHANGED <<aclVars, env>>

TcpStep(p) ==
  \/ Request(p) \/ Resolve(p) \/ Lookup(p) \/ Remember(p) \/ Refuse(p) \/ Finish(p)
  \/ \E ok \in BOOLEAN : Dials(p, ok) \/ Handshake(p, ok) \/ Report(p, ok)

-----------------------------------------------------------------------------
\* What a rule says of a request, read from its text.
Fits(name, pattern) ==
  LET stars == {j \in 1..Len(pattern) : pattern[j] = "*"} IN
  \E len \in [stars -> 0..Len(name)] :
    LET sum[j \in 0..Len(pattern)] ==
          IF j = 0 THEN 0 ELSE sum[j - 1] + IF j \in stars THEN len[j] ELSE 1
    IN /\ sum[Len(pattern)] = Len(name)
       /\ \A j \in 1..Len(pattern) \ stars : name[sum[j]] = pattern[j]
\* Whether a name is the domain or a name in it, by its labels.
Under(name, d) == \E pre \in {SubSeq(name, 1, k) : k \in 0..Len(name)} :
                    name = pre \o d /\ (pre # <<>> => pre[Len(pre)] = ".")
InSome(nets, ips) == \E i \in 1..Len(nets), ip \in ips : Contains(nets[i], ip)
SaysSite(d, attrs, name) ==
  /\ attrs \subseteq d.attrs
  /\ CASE d.type = "plain" -> Fits(name, <<"*">> \o d.value \o <<"*">>)
       [] d.type = "regex" -> name \in d.value
       [] d.type = "full" -> name = d.value
       [] d.type = "root" -> Under(name, d.value)
SaysHost(a, name, ips) ==
  CASE a.kind = "all" -> TRUE
    [] a.kind = "ip" -> a.ip \in ips
    [] a.kind = "cidr" -> InSome(<<a.net>>, ips)
    [] a.kind = "geoip" -> InSome(GeoIPs[a.code].cidrs, ips) # GeoIPs[a.code].inverse
    [] a.kind = "geosite" -> \E i \in 1..Len(GeoSites[a.code]) : SaysSite(GeoSites[a.code][i], a.attrs, name)
    [] a.kind = "exact" -> name = Normalize(a.pattern)
    [] a.kind = "suffix" -> Under(name, Normalize(a.pattern))
    [] a.kind = "wildcard" -> Fits(name, Normalize(a.pattern))
Says(text, p) ==
  LET r == req[p] IN
  /\ text.proto \in {"both", IF p = Uot THEN "udp" ELSE "tcp"}
  /\ text.ports = AnyPort \/ r.dest.port \in text.ports[1]..text.ports[2]
  /\ SaysHost(text.address, Normalize(HostName(r.dest)), {r.res.v4, r.res.v6} \ {NoIP})

Leaving(p) == req[p].pc \in {"dial", "handshake", "report", "copy", "send"}

\* A request leaves through the outbound of the first rule whose text covers it (the first
\* configured outbound if none does), to that rule's hijack address if it has one, and
\* never if that rule rejects: whatever was cached for other hosts, ports or protocols,
\* and although address lists are searched by bisection (RuleSet.Match, Engine.Lookup).
FirstRuleDecides ==
  \A p \in Procs : Leaving(p) =>
    LET covering == IF setup.acl THEN {i \in 1..Len(setup.texts) : Says(setup.texts[i], p)} ELSE {}
        first == CHOOSE i \in covering : \A j \in covering : i <= j
    IN IF covering = {} THEN req[p].route.ob = Outbounds["default"]
       ELSE LET t == setup.texts[first] IN
            /\ req[p].route.ob = Outbounds[t.outbound] /\ req[p].route.ob # Reject
            /\ t.hijack # NoIP => req[p].route.target = At(t.hijack, req[p].dest.port)

\* With the private filter on, no request that a rule did not redirect is handed to an
\* outbound that may reach a private address with it: neither the address dialed nor,
\* where the proxy resolves again, any address the name had; and a name that was to be
\* resolved here is never left to the system (reachesPrivate, pickDialAddr).
FilterHolds ==
  \A p \in Procs : (Leaving(p) /\ req[p].look.hijack = NoIP) =>
    LET r == req[p].route IN
    /\ setup.blockPrivate =>
         /\ r.target.ip \notin PrivateIPs
         /\ RemoteResolve(r.ob) => {req[p].res.v4, req[p].res.v6} \cap PrivateIPs = {}
         /\ IsFqdn(r.target) => req[p].res # NoRes
    /\ (setup.resolver /\ ~RemoteResolve(r.ob)) => ~IsFqdn(r.target)
=============================================================================
