---------------------------- MODULE FilterProofs -----------------------------
(***************************************************************************)
(* FilterHolds for every configuration, destination and resolver answer,   *)
(* through both caches.                                                    *)
(***************************************************************************)
EXTENDS RelayProofs

\* What selectRoute promises of a route it returns.
Filtered(res, look, route) ==
  route.ok /\ look.hijack = NoIP =>
    /\ setup.blockPrivate =>
         /\ route.target.ip \notin PrivateIPs
         /\ RemoteResolve(route.ob) => res.v4 \notin PrivateIPs /\ res.v6 \notin PrivateIPs
         /\ IsFqdn(route.target) => res # NoRes
    /\ (setup.resolver /\ ~RemoteResolve(route.ob)) => ~IsFqdn(route.target)

Allowed == {"lock", "dial", "handshake", "udp", "bound", "send", "report", "copy", "dropped"}

\* Where a request is in selectRoute, and after it.
ReqFiltered(p) ==
  /\ req[p].pc \in {"lookup", "add"} => req[p].res \in hostInfo(req[p].dest)
  /\ req[p].pc \in Allowed \cup {"decided"} => Filtered(req[p].res, req[p].look, req[p].route)
  /\ req[p].pc \in Allowed => req[p].route.ok

\* The inductive invariant: the result a request holds is one hostInfo gave for its
\* destination, and the route it holds, or finds in the cache, was filtered with it.
FilterInv ==
  /\ setup \in Setups
  /\ \A p \in Procs : ReqFiltered(p)
  /\ \A e \in cache : Filtered(e.res, e.look, e.route)

-----------------------------------------------------------------------------
\* selectRoute: by cases of pickDialAddr.
LEMMA RouteFiltered ==
  ASSUME setup \in Setups, NEW dest, NEW res \in hostInfo(dest), NEW look
  PROVE  Filtered(res, look, RouteOf(dest, res, look))
<1> DEFINE addr == pickDialAddr(dest, res)
           ob == IF setup.acl /\ look.matched THEN look.outbound ELSE Outbounds["default"]
           to(target) == [ok |-> TRUE, ob |-> ob, target |-> target]
           route == RouteOf(dest, res, look)
<1> SUFFICES ASSUME route.ok, look.hijack = NoIP
             PROVE  /\ setup.blockPrivate =>
                         /\ route.target.ip \notin PrivateIPs
                         /\ RemoteResolve(route.ob) => res.v4 \notin PrivateIPs /\ res.v6 \notin PrivateIPs
                         /\ IsFqdn(route.target) => res # NoRes
                    /\ (setup.resolver /\ ~RemoteResolve(route.ob)) => ~IsFqdn(route.target)
  BY DEF Filtered
<1>1. res = [v4 |-> res.v4, v6 |-> res.v6]
  BY AnswersAssumption DEF hostInfo, NoRes
<1>2. ~IsFqdn(dest) => res.v4 = dest.ip \/ (res.v4 = NoIP /\ res.v6 = dest.ip)
  BY DEF hostInfo, NoRes
<1>3. /\ res.v4 # NoIP => addr = At(res.v4, dest.port)
      /\ res.v4 = NoIP /\ res.v6 # NoIP => addr = At(res.v6, dest.port)
      /\ res = NoRes => addr = IF Attempts(dest) THEN NoDest ELSE dest
  BY DEF pickDialAddr, NoRes
<1>4. res = NoRes \/ res.v4 # NoIP \/ res.v6 # NoIP
  BY <1>1 DEF NoRes
<1>5. \/ addr = NoDest /\ RemoteResolve(ob) /\ ~setup.blockPrivate /\ route = to(dest)
      \/ /\ addr # NoDest /\ ~(setup.blockPrivate /\ reachesPrivate(ob, addr, res))
         /\ route = to(IF RemoteResolve(ob) THEN dest ELSE addr)
  BY DEF RouteOf, NoRoute
<1>6. CASE addr = NoDest /\ RemoteResolve(ob) /\ ~setup.blockPrivate /\ route = to(dest)
  BY <1>6
<1>7. CASE /\ addr # NoDest /\ ~(setup.blockPrivate /\ reachesPrivate(ob, addr, res))
           /\ route = to(IF RemoteResolve(ob) THEN dest ELSE addr)
  <2>1. IsFqdn(dest) /\ (setup.blockPrivate \/ setup.resolver) => res # NoRes
    BY <1>3, <1>7 DEF Attempts
  <2>2. IsFqdn(addr) => res = NoRes /\ addr = dest
    BY <1>3, <1>4, <1>7 DEF IsFqdn, At
  <2>3. IsFqdn(addr) => IsFqdn(dest)
    BY <2>2
  <2>4. CASE RemoteResolve(ob)
    <3>1. route.target = dest /\ route.ob = ob
      BY <1>7, <2>4
    <3>2. setup.blockPrivate => res.v4 \notin PrivateIPs /\ res.v6 \notin PrivateIPs
      BY <1>7, <2>4 DEF reachesPrivate, isPrivateIP
    <3>3. setup.blockPrivate => dest.ip \notin PrivateIPs
      BY <1>2, <3>2, AnswersAssumption DEF IsFqdn
    <3>4. QED
      BY <2>1, <2>4, <3>1, <3>2, <3>3
  <2>5. CASE ~RemoteResolve(ob)
    <3>1. route.target = addr /\ route.ob = ob
      BY <1>7, <2>5
    <3>2. setup.blockPrivate => addr.ip \notin PrivateIPs
      BY <1>7, <2>5 DEF reachesPrivate, isPrivateIP
    <3>3. setup.blockPrivate \/ setup.resolver => ~IsFqdn(addr)
      BY <2>1, <2>2, <2>3
    <3>4. QED
      BY <2>5, <3>1, <3>2, <3>3
  <2>6. QED
    BY <2>4, <2>5
<1>8. QED
  BY <1>5, <1>6, <1>7

\* Nothing is decided when the server starts.
LEMMA FilterInvInit == RelayInit => FilterInv
<1> SUFFICES ASSUME RelayInit PROVE FilterInv
  OBVIOUS
<1>1. setup \in Setups /\ cache = {} /\ req = [p \in Procs |-> IdleReq]
  BY DEF RelayInit, PolicyInit
<1>2. \A p \in Procs : req[p].pc = "idle"
  BY <1>1 DEF IdleReq
<1>3. QED
  BY <1>1, <1>2 DEF FilterInv, ReqFiltered, Allowed

\* A step that changes one request, and not the configuration, keeps what holds of the
\* others, whose records it leaves alone.
LEMMA OthersFiltered ==
  ASSUME FilterInv, NEW p \in Procs, setup' = setup,
         \A q \in Procs \ {p} : req'[q] = req[q],
         ReqFiltered(p)', cache' \subseteq cache
  PROVE  FilterInv'
<1>1. ASSUME NEW q \in Procs \ {p} PROVE ReqFiltered(q)'
  BY <1>1 DEF FilterInv, ReqFiltered, Filtered, hostInfo, Attempts
<1>2. \A e \in cache' : Filtered(e.res, e.look, e.route)'
  BY DEF FilterInv, Filtered
<1>3. QED
  BY <1>1, <1>2 DEF FilterInv

\* selectRoute has run to the end of the lookup, or to its memory of the answer.
LEMMA AnswerFiltered ==
  ASSUME Shape, FilterInv, NEW p \in Procs, NEW look, NEW pc \in {"add", NextPc(p)}, Answer(p, look, pc),
         req[p].pc \in {"lookup", "add"}, setup' = setup, cache' = cache
  PROVE  FilterInv'
<1> DEFINE route == RouteOf(req[p].dest, req[p].res, look)
<1>1. req[p].res \in hostInfo(req[p].dest)
  BY DEF FilterInv, ReqFiltered
<1>2. Filtered(req[p].res, look, route)
  BY <1>1, RouteFiltered DEF FilterInv
<1>3. /\ req'[p].pc = IF pc = "add" \/ p = Uot \/ route.ok THEN pc ELSE "refused"
      /\ req'[p].dest = req[p].dest /\ req'[p].res = req[p].res
      /\ req'[p].look = look /\ req'[p].route = route
      /\ \A q \in Procs \ {p} : req'[q] = req[q]
  BY DEF Answer, Shape
<1>4. ReqFiltered(p)'
  <2>1. (req[p].res \in hostInfo(req[p].dest))'
    BY <1>1, <1>3 DEF hostInfo, Attempts
  <2>2. Filtered(req[p].res, req[p].look, req[p].route)'
    BY <1>2, <1>3 DEF Filtered
  <2>3. req'[p].pc \in Allowed => req'[p].route.ok
    BY <1>3 DEF Allowed, NextPc
  <2>4. QED
    BY <2>1, <2>2, <2>3 DEF ReqFiltered
<1>5. QED
  BY <1>3, <1>4, OthersFiltered

\* hostInfo and the lookup, for requests and packets alike.
LEMMA SelectFiltered ==
  ASSUME Shape, FilterInv, NEW p \in Procs, Resolve(p) \/ Lookup(p) \/ Remember(p), cache' = cache
  PROVE  FilterInv'
<1>1. CASE Resolve(p)
  <2>1. PICK res \in hostInfo(req[p].dest) : req' = [req EXCEPT ![p].res = res, ![p].pc = "lookup"]
    BY <1>1 DEF Resolve
  <2>2. setup' = setup
    BY <1>1 DEF Resolve, env
  <2>3. /\ req'[p].pc = "lookup" /\ req'[p].res = res /\ req'[p].dest = req[p].dest
        /\ \A q \in Procs \ {p} : req'[q] = req[q]
    <3>1. req = [q \in Procs |-> req[q]] /\ Req(p)
      BY DEF Shape
    <3>2. req'[p] = [req[p] EXCEPT !.res = res, !.pc = "lookup"]
      BY <2>1, <3>1
    <3>3. \A q \in Procs \ {p} : req'[q] = req[q]
      BY <2>1, <3>1
    <3>4. QED
      BY <3>1, <3>2, <3>3 DEF Req
  <2>4. ReqFiltered(p)'
    BY <2>1, <2>2, <2>3 DEF ReqFiltered, Allowed, hostInfo, Attempts
  <2>5. QED
    BY <2>2, <2>3, <2>4, OthersFiltered
<1>2. CASE Lookup(p) \/ Remember(p)
  <2>1. \E look, pc : Answer(p, look, pc) /\ pc \in {"add", NextPc(p)}
    BY <1>2 DEF Lookup, Remember
  <2>2. req[p].pc \in {"lookup", "add"} /\ setup' = setup
    BY <1>2 DEF Lookup, Remember, env
  <2>3. QED
    BY <2>1, <2>2, AnswerFiltered
<1>3. QED
  BY <1>1, <1>2

\* A step that moves a request on with the route it has.
LEMMA MovesOn ==
  ASSUME Shape, FilterInv, NEW p \in Procs, NEW pc, Goto(p, pc), setup' = setup, cache' = cache,
         req[p].pc \in Allowed, pc \in Allowed \cup {"refused"}
  PROVE  FilterInv'
<1>1. /\ req'[p].pc = pc /\ req'[p].res = req[p].res /\ req'[p].look = req[p].look
      /\ req'[p].route = req[p].route /\ \A q \in Procs \ {p} : req'[q] = req[q]
  BY DEF Goto, Shape, Req
<1>2. ReqFiltered(p)'
  BY <1>1 DEF FilterInv, ReqFiltered, Filtered, Allowed
<1>3. QED
  BY <1>1, <1>2, OthersFiltered

\* A step that begins or ends a request.
LEMMA Undecided ==
  ASSUME Shape, FilterInv, NEW p \in Procs, setup' = setup, cache' \subseteq cache,
         req'[p].pc \in {"idle", "resolve", "ended"}, \A q \in Procs \ {p} : req'[q] = req[q]
  PROVE  FilterInv'
<1>1. ReqFiltered(p)'
  BY DEF ReqFiltered, Allowed
<1>2. QED
  BY <1>1, OthersFiltered

\* Steps of a TCP request.
LEMMA TcpFiltered ==
  ASSUME Shape, FilterInv, NEW p \in Tcps, TcpStep(p), cache' = cache
  PROVE  FilterInv'
<1>0. p \in Procs /\ req = [q \in Procs |-> req[q]] /\ Req(p)
  BY DEF Procs, Shape
<1>1. CASE Request(p)
  <2>1. PICK d \in setup.dests : req' = [req EXCEPT ![p].dest = d, ![p].pc = "resolve"]
    BY <1>1 DEF Request
  <2>2. req'[p] = [req[p] EXCEPT !.dest = d, !.pc = "resolve"] /\ \A q \in Procs \ {p} : req'[q] = req[q]
    BY <1>0, <2>1
  <2>3. req'[p].pc = "resolve"
    BY <1>0, <2>2 DEF Req
  <2>4. setup' = setup
    BY <1>1 DEF Request, env
  <2>5. QED
    BY <1>0, <2>2, <2>3, <2>4, Undecided
<1>2. CASE Resolve(p) \/ Lookup(p) \/ Remember(p)
  BY <1>0, <1>2, SelectFiltered
<1>3. CASE Refuse(p) \/ Finish(p)
  <2>1. req' = [req EXCEPT ![p] = IdleReq] /\ setup' = setup
    BY <1>3 DEF Refuse, Finish, env
  <2>2. req'[p].pc = "idle" /\ \A q \in Procs \ {p} : req'[q] = req[q]
    BY <1>0, <2>1 DEF IdleReq
  <2>3. QED
    BY <1>0, <2>1, <2>2, Undecided
<1>4. ASSUME NEW ok \in BOOLEAN, Dials(p, ok) \/ Handshake(p, ok) \/ Report(p, ok)
      PROVE  FilterInv'
  <2>1. \E pc : Goto(p, pc) /\ pc \in Allowed \cup {"refused"}
    BY <1>4 DEF Dials, Handshake, Report, Allowed
  <2>2. req[p].pc \in Allowed /\ setup' = setup
    BY <1>4 DEF Dials, Handshake, Report, Allowed, env
  <2>3. QED
    BY <1>0, <2>1, <2>2, MovesOn
<1>5. QED
  BY <1>1, <1>2, <1>3, <1>4 DEF TcpStep

\* Steps of a UDP-over-TCP stream, whose decisions come from selectRoute or from its cache.
LEMMA StreamFiltered ==
  ASSUME Shape, FilterInv, StreamNext
  PROVE  FilterInv'
<1>0. Uot \in Procs /\ req = [q \in Procs |-> req[q]] /\ Req(Uot)
  BY DEF Procs, Shape
<1>1. CASE Packet
  <2>1. setup' = setup /\ cache' = cache
    BY <1>1 DEF Packet, env
  <2>2. PICK d \in setup.dests :
          IF Decision(d) = {} THEN req' = [req EXCEPT ![Uot].dest = d, ![Uot].pc = "resolve"]
          ELSE \E e \in Decision(d) :
                 req' = [req EXCEPT ![Uot] = IF ~e.route.ok THEN IdleReq
                                             ELSE [pc |-> "lock", dest |-> d, res |-> e.res,
                                                   look |-> e.look, route |-> e.route]]
    BY <1>1 DEF Packet
  <2>3. CASE Decision(d) = {}
    <3>1. /\ req'[Uot] = [req[Uot] EXCEPT !.dest = d, !.pc = "resolve"]
          /\ \A q \in Procs \ {Uot} : req'[q] = req[q]
      BY <1>0, <2>2, <2>3
    <3>2. req'[Uot].pc = "resolve"
      BY <1>0, <3>1 DEF Req
    <3>3. QED
      BY <1>0, <2>1, <3>1, <3>2, Undecided
  <2>4. CASE Decision(d) # {}
    <3>1. PICK e \in Decision(d) :
            req' = [req EXCEPT ![Uot] = IF ~e.route.ok THEN IdleReq
                                        ELSE [pc |-> "lock", dest |-> d, res |-> e.res,
                                              look |-> e.look, route |-> e.route]]
      BY <2>2, <2>4
    <3>2. \A q \in Procs \ {Uot} : req'[q] = req[q]
      BY <1>0, <3>1
    <3>3. CASE ~e.route.ok
      <4>1. req'[Uot].pc = "idle"
        BY <1>0, <3>1, <3>3 DEF IdleReq
      <4>2. QED
        BY <1>0, <2>1, <3>2, <4>1, Undecided
    <3>4. CASE e.route.ok
      <4>1. /\ req'[Uot].pc = "lock" /\ req'[Uot].res = e.res
            /\ req'[Uot].look = e.look /\ req'[Uot].route = e.route
        BY <1>0, <3>1, <3>4
      <4>2. Filtered(e.res, e.look, e.route)
        BY DEF Decision, FilterInv
      <4>3. ReqFiltered(Uot)'
        BY <2>1, <3>4, <4>1, <4>2 DEF ReqFiltered, Filtered, Allowed
      <4>4. QED
        BY <1>0, <2>1, <3>2, <4>3, OthersFiltered
    <3>5. QED
      BY <3>3, <3>4
  <2>5. QED
    BY <2>3, <2>4
<1>2. CASE Decide
  <2> DEFINE entry == [dest |-> w.dest, res |-> w.res, look |-> w.look, route |-> w.route]
  <2>1. setup' = setup /\ cache' \subseteq cache \cup {entry}
    BY <1>2 DEF Decide, env
  <2>2. w.pc = "decided" /\ req' = [req EXCEPT ![Uot] = IF w.route.ok THEN [w EXCEPT !.pc = "lock"] ELSE IdleReq]
    BY <1>2 DEF Decide
  <2>3. Filtered(w.res, w.look, w.route)
    BY <1>0, <2>2 DEF FilterInv, ReqFiltered, Allowed, w
  <2>4. ASSUME NEW e \in cache' PROVE Filtered(e.res, e.look, e.route)'
    <3>1. CASE e = entry
      <4>1. e.res = w.res /\ e.look = w.look /\ e.route = w.route
        BY <3>1
      <4>2. QED
        BY <2>1, <2>3, <4>1 DEF Filtered
    <3>2. CASE e \in cache
      <4>1. Filtered(e.res, e.look, e.route)
        BY <3>2 DEF FilterInv
      <4>2. QED
        BY <2>1, <4>1 DEF Filtered
    <3>3. QED
      BY <2>1, <2>4, <3>1, <3>2
  <2>5. \A q \in Procs \ {Uot} : req'[q] = req[q]
    BY <1>0, <2>2
  <2>6. ASSUME NEW q \in Procs \ {Uot} PROVE ReqFiltered(q)'
    BY <2>1, <2>5, <2>6 DEF FilterInv, ReqFiltered, Filtered, hostInfo, Attempts
  <2>7. ReqFiltered(Uot)'
    <3>1. req'[Uot] = IF w.route.ok THEN [w EXCEPT !.pc = "lock"] ELSE IdleReq
      BY <1>0, <2>2
    <3>2. CASE w.route.ok
      <4>1. /\ req'[Uot].pc = "lock" /\ req'[Uot].res = w.res
            /\ req'[Uot].look = w.look /\ req'[Uot].route = w.route
        BY <1>0, <3>1, <3>2 DEF Req, w
      <4>2. QED
        BY <2>1, <2>3, <3>2, <4>1 DEF ReqFiltered, Filtered, Allowed
    <3>3. CASE ~w.route.ok
      BY <3>1, <3>3 DEF ReqFiltered, Allowed, IdleReq
    <3>4. QED
      BY <3>2, <3>3
  <2>8. QED
    BY <2>1, <2>4, <2>6, <2>7 DEF FilterInv
<1>3. ASSUME setup' = setup, cache' = cache, EndWriter
      PROVE  FilterInv'
  <2>1. req'[Uot].pc = "ended" /\ \A q \in Procs \ {Uot} : req'[q] = req[q]
    BY <1>0, <1>3 DEF EndWriter, IdleReq
  <2>2. QED
    BY <1>0, <1>3, <2>1, Undecided
<1>4. ASSUME setup' = setup, cache' \subseteq cache, req' = [req EXCEPT ![Uot] = IdleReq]
      PROVE  FilterInv'
  <2>1. req'[Uot].pc = "idle" /\ \A q \in Procs \ {Uot} : req'[q] = req[q]
    BY <1>0, <1>4 DEF IdleReq
  <2>2. QED
    BY <1>0, <1>4, <2>1, Undecided
<1>5. CASE Lock \/ ListenFails \/ Associate \/ Listens \/ StreamEnds
  <2>1. setup' = setup /\ cache' = cache
    BY <1>5 DEF Lock, ListenFails, Associate, Listens, StreamEnds, env
  <2>2. \/ EndWriter
        \/ w.pc \in Allowed /\ \E pc \in Allowed : Goto(Uot, pc)
    BY <1>5 DEF Lock, ListenFails, Associate, Listens, StreamEnds, Allowed
  <2>3. QED
    BY <1>0, <1>3, <2>1, <2>2, MovesOn DEF w
<1>6. CASE SameOutbound
  <2>1. setup' = setup /\ cache' = cache
    BY <1>6 DEF SameOutbound, env
  <2>2. CASE w.route.ob = relay.ob
    <3>1. req' = [req EXCEPT ![Uot] = [w EXCEPT !.pc = "send"]] /\ w.pc = "bound"
      BY <1>6, <2>2 DEF SameOutbound
    <3>2. Goto(Uot, "send")
      BY <1>0, <3>1 DEF Goto, w
    <3>3. QED
      BY <1>0, <2>1, <3>1, <3>2, MovesOn DEF w, Allowed
  <2>3. CASE w.route.ob # relay.ob
    BY <1>4, <1>6, <2>1, <2>3 DEF SameOutbound
  <2>4. QED
    BY <2>2, <2>3
<1>7. CASE Send
  BY <1>3, <1>4, <1>7 DEF Send, env
<1>8. CASE NextStream
  BY <1>4, <1>8 DEF NextStream, env
<1>9. CASE ReadPacket \/ Hold \/ Cleanup \/ Cancelled \/ CloseConn
  <2>1. UNCHANGED <<setup, req, cache>>
    BY <1>9 DEF ReadPacket, Hold, Cleanup, Cancelled, Close, CloseConn, policyVars, env
  <2>2. QED
    BY <2>1 DEF FilterInv, ReqFiltered, Filtered, hostInfo, Attempts
<1>10. CASE UNCHANGED <<cache, relay, mu, rd, closer>> /\ (Resolve(Uot) \/ Lookup(Uot) \/ Remember(Uot))
  BY <1>0, <1>10, SelectFiltered
<1>11. QED
  BY <1>1, <1>2, <1>5, <1>6, <1>7, <1>8, <1>9, <1>10 DEF StreamNext, WriterStep

\* Every step of the requests and of the relay.
LEMMA FilterInvNext == RelayInv /\ FilterInv /\ [RelayNext]_relayVars => FilterInv'
<1> SUFFICES ASSUME RelayInv, FilterInv, [RelayNext]_relayVars PROVE FilterInv'
  OBVIOUS
<1>0. Shape
  BY DEF RelayInv
<1>1. CASE \E p \in Tcps : TcpStep(p) /\ cache' = cache
  BY <1>0, <1>1, TcpFiltered
<1>2. CASE UNCHANGED <<setup, req, cache>>
  BY <1>2 DEF FilterInv, ReqFiltered, Filtered, hostInfo, Attempts
<1>3. QED
  BY <1>0, <1>1, <1>2, StreamFiltered DEF RelayNext, Startup, relayVars, policyVars, env

\* With the private filter on no request or packet leaves for a private address unless a
\* rule redirects it, and no name that was to be resolved here is left to the system: for
\* all rules, outbounds, destinations and answers, however the answers change between two
\* lookups, and whatever the ACL's and the stream's cache hold (selectRoute).
THEOREM FilterAlwaysHolds == RelaySpec => []FilterHolds
<1>1. FilterInv => FilterHolds
  <2> SUFFICES ASSUME FilterInv, NEW p \in Procs, Leaving(p), req[p].look.hijack = NoIP
               PROVE  LET r == req[p].route IN
                      /\ setup.blockPrivate =>
                           /\ r.target.ip \notin PrivateIPs
                           /\ RemoteResolve(r.ob) => {req[p].res.v4, req[p].res.v6} \cap PrivateIPs = {}
                           /\ IsFqdn(r.target) => req[p].res # NoRes
                      /\ (setup.resolver /\ ~RemoteResolve(r.ob)) => ~IsFqdn(r.target)
    BY DEF FilterHolds
  <2>1. req[p].pc \in Allowed
    BY DEF Leaving, Allowed
  <2>2. req[p].route.ok /\ Filtered(req[p].res, req[p].look, req[p].route)
    BY <2>1 DEF FilterInv, ReqFiltered
  <2>3. QED
    BY <2>2 DEF Filtered
<1>2. QED
  BY RelayInvInit, RelayInvNext, FilterInvInit, FilterInvNext, <1>1, PTL DEF RelaySpec
=============================================================================
