----------------------------- MODULE RelayProofs -----------------------------
(***************************************************************************)
(* SocketsOwned for every configuration, destination and resolver answer.  *)
(***************************************************************************)
EXTENDS Relay, TLAPS

Req(p) == req[p] = [pc |-> req[p].pc, dest |-> req[p].dest, res |-> req[p].res,
                    look |-> req[p].look, route |-> req[p].route]

Shape ==
  /\ req = [p \in Procs |-> req[p]] /\ \A p \in Procs : Req(p)
  /\ socks = [p \in Procs |-> socks[p]]
  /\ relay = [conn |-> relay.conn, ob |-> relay.ob, closed |-> relay.closed, ready |-> relay.ready]
  /\ relay.conn \in BOOLEAN /\ relay.closed \in BOOLEAN /\ mu \in BOOLEAN
  /\ closer \in {"no", "conn", "done"}

\* The inductive invariant: who may hold a socket while mu is held, while there is a conn,
\* and after Close.
RelayInv ==
  /\ Shape
  /\ mu <=> w.pc \in {"dial", "handshake", "udp"}
  /\ mu => ~relay.conn /\ ~relay.closed
  /\ relay.closed <=> closer # "no"
  /\ relay.ready = IF relay.conn \/ relay.closed THEN 1 ELSE 0
  /\ closer = "done" => socks[Uot] = {}
  /\ ~relay.conn => "udp" \notin socks[Uot]
  /\ ~relay.conn /\ ~mu => socks[Uot] = {}
  /\ w.pc = "send" => w.route.ob = relay.ob
  /\ w.pc \in {"bound", "send"} => relay.conn

-----------------------------------------------------------------------------
\* A stream begins with nothing open.
LEMMA RelayInvInit == RelayInit => RelayInv
<1> SUFFICES ASSUME RelayInit PROVE RelayInv
  OBVIOUS
<1>0. Uot \in Procs
  BY DEF Procs
<1>1. req = [p \in Procs |-> IdleReq] /\ socks = [p \in Procs |-> {}]
  BY DEF RelayInit, PolicyInit
<1>2. relay = NoRelay /\ mu = FALSE /\ closer = "no"
  BY DEF RelayInit
<1>3. w.pc = "idle" /\ socks[Uot] = {}
  BY <1>0, <1>1 DEF w, IdleReq
<1>4. req = [p \in Procs |-> req[p]] /\ socks = [p \in Procs |-> socks[p]]
  BY <1>1
<1>5. \A p \in Procs : Req(p)
  BY <1>1 DEF Req, IdleReq
<1>6. /\ relay = [conn |-> relay.conn, ob |-> relay.ob, closed |-> relay.closed, ready |-> relay.ready]
      /\ relay.conn = FALSE /\ relay.closed = FALSE /\ relay.ready = 0
  BY <1>2 DEF NoRelay
<1>7. QED
  BY <1>2, <1>3, <1>4, <1>5, <1>6 DEF RelayInv, Shape

\* What every step of one request keeps: the shape of all of them, and the others.
Kept(p) ==
  /\ req' = [q \in Procs |-> req'[q]] /\ \A q \in Procs : Req(q)'
  /\ socks' = [q \in Procs |-> socks'[q]]
  /\ \A q \in Procs \ {p} : req'[q] = req[q] /\ socks'[q] = socks[q]

\* Steps of a TCP request leave the goroutine of the packets, its sockets and the relay alone.
LEMMA OtherRequests ==
  ASSUME RelayInv, NEW p \in Tcps, TcpStep(p), UNCHANGED <<cache, relay, mu, rd, closer>>
  PROVE  RelayInv'
<1>0. p \in Procs /\ Uot \in Procs /\ p # Uot
  BY UotAssumption DEF Procs
<1>1. Kept(p)
  <2>0. /\ req = [q \in Procs |-> req[q]] /\ \A q \in Procs : Req(q)
        /\ socks = [q \in Procs |-> socks[q]]
    BY DEF RelayInv, Shape
  <2>1. CASE Request(p)
    <3>1. PICK d \in setup.dests : req' = [req EXCEPT ![p].dest = d, ![p].pc = "resolve"]
      BY <2>1 DEF Request
    <3>2. socks' = socks
      BY <2>1 DEF Request
    <3>3. QED
      BY <1>0, <2>0, <3>1, <3>2 DEF Req, Kept
  <2>2. CASE Resolve(p)
    BY <1>0, <2>0, <2>2 DEF Resolve, Req, Kept
  <2>3. CASE Lookup(p)
    <3>1. PICK look, pc : Answer(p, look, pc)
      BY <2>3 DEF Lookup
    <3>2. socks' = socks
      BY <2>3 DEF Lookup
    <3>3. QED
      BY <1>0, <2>0, <3>1, <3>2 DEF Answer, Req, Kept
  <2>4. CASE Remember(p)
    BY <1>0, <2>0, <2>4 DEF Remember, Answer, Req, Kept
  <2>5. CASE Refuse(p) \/ Finish(p)
    <3>1. req' = [req EXCEPT ![p] = IdleReq]
      BY <2>5 DEF Refuse, Finish
    <3>2. socks' = socks \/ socks' = [socks EXCEPT ![p] = {}]
      BY <2>5 DEF Refuse, Finish
    <3>3. /\ req' = [q \in Procs |-> req'[q]]
          /\ req'[p] = IdleReq /\ \A q \in Procs \ {p} : req'[q] = req[q]
      BY <1>0, <2>0, <3>1
    <3>4. \A q \in Procs : Req(q)'
      BY <2>0, <3>3 DEF Req, IdleReq
    <3>5. /\ socks' = [q \in Procs |-> socks'[q]]
          /\ \A q \in Procs \ {p} : socks'[q] = socks[q]
      BY <1>0, <2>0, <3>2
    <3>6. QED
      BY <3>3, <3>4, <3>5 DEF Kept
  <2>6. ASSUME NEW ok \in BOOLEAN, Dials(p, ok) \/ Handshake(p, ok) \/ Report(p, ok)
        PROVE  Kept(p)
    <3>1. PICK pc : req' = [req EXCEPT ![p].pc = pc]
      BY <2>6 DEF Dials, Handshake, Report, Goto
    <3>2. socks' = socks \/ \E o : socks' = [socks EXCEPT ![p] = o]
      BY <2>6 DEF Dials, Handshake, Report
    <3>3. QED
      BY <1>0, <2>0, <3>1, <3>2 DEF Req, Kept
  <2>7. QED
    BY <2>1, <2>2, <2>3, <2>4, <2>5, <2>6 DEF TcpStep
<1>2. QED
  BY <1>0, <1>1 DEF RelayInv, Shape, Kept, w

\* The writer goes on to another place and keeps the route it has.
LEMMA WriterGoes ==
  ASSUME Shape, NEW pc, Goto(Uot, pc)
  PROVE  /\ req' = [p \in Procs |-> req'[p]] /\ \A p \in Procs : Req(p)'
         /\ w'.pc = pc /\ w'.route = w.route
<1>1. Uot \in Procs
  BY DEF Procs
<1>2. QED
  BY <1>1 DEF Goto, Shape, Req, w

\* The writer is done with a packet, or for good.
LEMMA WriterStops ==
  ASSUME Shape, NEW pc, req' = [req EXCEPT ![Uot] = [IdleReq EXCEPT !.pc = pc]]
  PROVE  /\ req' = [p \in Procs |-> req'[p]] /\ \A p \in Procs : Req(p)'
         /\ w'.pc = pc
<1>1. Uot \in Procs
  BY DEF Procs
<1>2. /\ req' = [p \in Procs |-> req'[p]]
      /\ req'[Uot] = [IdleReq EXCEPT !.pc = pc] /\ \A p \in Procs \ {Uot} : req'[p] = req[p]
  BY <1>1 DEF Shape
<1>3. QED
  BY <1>1, <1>2 DEF Shape, Req, IdleReq, w

\* The rules have answered the writer.
LEMMA WriterAnswered ==
  ASSUME Shape, NEW look, NEW pc, Answer(Uot, look, pc)
  PROVE  /\ req' = [p \in Procs |-> req'[p]] /\ \A p \in Procs : Req(p)'
         /\ w'.pc = pc
<1>1. Uot \in Procs
  BY DEF Procs
<1>2. QED
  BY <1>1 DEF Answer, Shape, Req, w

\* Steps of the stream itself.
LEMMA StreamSteps ==
  ASSUME RelayInv, StreamNext
  PROVE  RelayInv'
<1>0. Uot \in Procs
  BY DEF Procs
<1>1. CASE Packet
  <2>1. PICK d \in setup.dests :
          \/ req' = [req EXCEPT ![Uot].dest = d, ![Uot].pc = "resolve"]
          \/ req' = [req EXCEPT ![Uot] = IdleReq]
          \/ \E e : req' = [req EXCEPT ![Uot] = [pc |-> "lock", dest |-> d, res |-> e.res,
                                                 look |-> e.look, route |-> e.route]]
    BY <1>1 DEF Packet
  <2>2. UNCHANGED <<socks, relay, mu, closer>> /\ w.pc = "idle"
    BY <1>1 DEF Packet
  <2>3. req' = [p \in Procs |-> req'[p]] /\ \A p \in Procs \ {Uot} : req'[p] = req[p]
    BY <2>1 DEF RelayInv, Shape
  <2>4. \/ req'[Uot] = [req[Uot] EXCEPT !.dest = d, !.pc = "resolve"]
        \/ req'[Uot] = IdleReq
        \/ \E e : req'[Uot] = [pc |-> "lock", dest |-> d, res |-> e.res,
                               look |-> e.look, route |-> e.route]
    BY <1>0, <2>1 DEF RelayInv, Shape
  <2>5. w'.pc \in {"resolve", "idle", "lock"} /\ Req(Uot)'
    <3>1. CASE req'[Uot] = [req[Uot] EXCEPT !.dest = d, !.pc = "resolve"]
      <4>1. Req(Uot)
        BY <1>0 DEF RelayInv, Shape
      <4>2. QED
        BY <3>1, <4>1 DEF Req, w
    <3>2. CASE req'[Uot] = IdleReq
      BY <3>2 DEF Req, IdleReq, w
    <3>3. CASE \E e : req'[Uot] = [pc |-> "lock", dest |-> d, res |-> e.res,
                                  look |-> e.look, route |-> e.route]
      BY <3>3 DEF Req, w
    <3>4. QED
      BY <2>4, <3>1, <3>2, <3>3
  <2>6. \A p \in Procs : Req(p)'
    BY <2>3, <2>5 DEF RelayInv, Shape, Req
  <2>7. QED
    BY <2>2, <2>3, <2>5, <2>6 DEF RelayInv, Shape
<1>2. CASE Decide
  <2>1. PICK pc \in {"lock", "idle"} :
          req' = [req EXCEPT ![Uot] = IF pc = "lock" THEN [w EXCEPT !.pc = pc] ELSE IdleReq]
    BY <1>2 DEF Decide
  <2>2. req'[Uot] = IF pc = "lock" THEN [w EXCEPT !.pc = pc] ELSE IdleReq
    BY <1>0, <2>1 DEF RelayInv, Shape
  <2>3. w'.pc = pc /\ Req(Uot)'
    BY <1>0, <2>2 DEF RelayInv, Shape, Req, IdleReq, w
  <2>4. req' = [p \in Procs |-> req'[p]] /\ \A p \in Procs \ {Uot} : Req(p)'
    BY <2>1 DEF RelayInv, Shape, Req
  <2>5. UNCHANGED <<socks, relay, mu, closer>> /\ w.pc = "decided"
    BY <1>2 DEF Decide
  <2>6. QED
    BY <2>1, <2>3, <2>4, <2>5 DEF RelayInv, Shape
<1>3. CASE Lock
  <2>1. CASE relay.closed
    <3>1. mu' = FALSE /\ EndWriter /\ UNCHANGED <<socks, relay, closer>>
      BY <1>3, <2>1 DEF Lock
    <3>2. ~mu
      BY <1>3 DEF Lock
    <3>3. w'.pc = "ended" /\ req' = [p \in Procs |-> req'[p]] /\ \A p \in Procs : Req(p)'
      BY <3>1, WriterStops DEF EndWriter, RelayInv
    <3>4. QED
      BY <2>1, <3>1, <3>2, <3>3 DEF RelayInv, Shape
  <2>2. CASE ~relay.closed /\ relay.conn
    <3>1. mu' = FALSE /\ Goto(Uot, "bound") /\ UNCHANGED <<socks, relay, closer>> /\ ~mu
      BY <1>3, <2>2 DEF Lock
    <3>2. w'.pc = "bound" /\ req' = [p \in Procs |-> req'[p]] /\ \A p \in Procs : Req(p)'
      BY <3>1, WriterGoes DEF RelayInv
    <3>3. QED
      BY <2>2, <3>1, <3>2 DEF RelayInv, Shape
  <2>3. CASE ~relay.closed /\ ~relay.conn
    <3>1. mu' = TRUE /\ Goto(Uot, "dial") /\ UNCHANGED <<socks, relay, closer>> /\ ~mu
      BY <1>3, <2>3 DEF Lock
    <3>2. w'.pc = "dial" /\ req' = [p \in Procs |-> req'[p]] /\ \A p \in Procs : Req(p)'
      BY <3>1, WriterGoes DEF RelayInv
    <3>3. QED
      BY <2>3, <3>1, <3>2 DEF RelayInv, Shape
  <2>4. QED
    BY <2>1, <2>2, <2>3
<1>4. CASE ListenFails
  <2>1. w'.pc = "ended" /\ req' = [p \in Procs |-> req'[p]] /\ \A p \in Procs : Req(p)'
    BY <1>4, WriterStops DEF ListenFails, EndWriter, RelayInv
  <2>2. socks' = [p \in Procs |-> socks'[p]] /\ socks'[Uot] = {}
    BY <1>0, <1>4 DEF ListenFails, RelayInv, Shape
  <2>3. mu' = FALSE /\ ~relay.conn /\ ~relay.closed /\ UNCHANGED <<relay, closer>>
    BY <1>4 DEF ListenFails, RelayInv
  <2>4. QED
    BY <2>1, <2>2, <2>3 DEF RelayInv, Shape
<1>5. CASE Associate
  <2>1. PICK pc \in {"handshake", "udp"} : Goto(Uot, pc)
    BY <1>5 DEF Associate
  <2>2. w'.pc = pc /\ req' = [p \in Procs |-> req'[p]] /\ \A p \in Procs : Req(p)'
    BY <2>1, WriterGoes DEF RelayInv
  <2>3. mu /\ ~relay.conn /\ ~relay.closed /\ UNCHANGED <<relay, mu, closer>>
    BY <1>5 DEF Associate, RelayInv
  <2>4. socks' = [p \in Procs |-> socks'[p]] /\ "udp" \notin socks'[Uot]
    BY <1>0, <1>5, <2>3 DEF Associate, RelayInv, Shape
  <2>5. closer = "no"
    BY <2>3 DEF RelayInv
  <2>6. QED
    BY <2>1, <2>2, <2>3, <2>4, <2>5 DEF RelayInv, Shape
<1>6. CASE Listens
  <2>1. mu /\ ~relay.conn /\ ~relay.closed /\ relay.ready = 0 /\ closer = "no"
    BY <1>6 DEF Listens, RelayInv, Shape
  <2>2. relay' = [conn |-> TRUE, ob |-> w.route.ob, closed |-> FALSE, ready |-> 1]
    <3>1. relay = [conn |-> relay.conn, ob |-> relay.ob, closed |-> relay.closed, ready |-> relay.ready]
      BY DEF RelayInv, Shape
    <3>2. relay' = [relay EXCEPT !.conn = TRUE, !.ob = w.route.ob, !.ready = @ + 1]
      BY <1>6 DEF Listens
    <3>3. relay.closed = FALSE /\ relay.ready + 1 = 1
      BY <2>1 DEF RelayInv, Shape
    <3>4. QED
      BY <3>1, <3>2, <3>3
  <2>3. mu' = FALSE /\ closer' = closer /\ Goto(Uot, "bound") /\ socks' = [socks EXCEPT ![Uot] = @ \cup {"udp"}]
    BY <1>6 DEF Listens
  <2>4. Shape' /\ w'.pc = "bound"
    BY <2>1, <2>2, <2>3, WriterGoes DEF RelayInv, Shape
  <2>5. relay'.conn /\ ~relay'.closed /\ relay'.ready = 1
    BY <2>2
  <2>6. QED
    BY <2>1, <2>3, <2>4, <2>5 DEF RelayInv
<1>7. CASE SameOutbound
  BY <1>0, <1>7 DEF SameOutbound, IdleReq, RelayInv, Shape, Req, w
<1>8. CASE Send
  BY <1>0, <1>8 DEF Send, EndWriter, IdleReq, RelayInv, Shape, Req, w
<1>9. CASE StreamEnds
  BY <1>0, <1>9 DEF StreamEnds, EndWriter, IdleReq, RelayInv, Shape, Req, w
<1>10. CASE ReadPacket
  BY <1>0, <1>10 DEF ReadPacket, policyVars, RelayInv, Shape, Req, w
<1>11. CASE Hold
  BY <1>0, <1>11 DEF Hold, RelayInv, Shape, Req, w
<1>12. CASE CloseConn
  BY <1>0, <1>12 DEF CloseConn, RelayInv, Shape, Req, w
<1>13. CASE NextStream
  BY <1>0, <1>13 DEF NextStream, IdleReq, NoRelay, RelayInv, Shape, Req, w
<1>14. CASE Cleanup \/ Cancelled
  <2>1. Close
    BY <1>14 DEF Cleanup, Cancelled
  <2>2. closer = "no" /\ ~mu /\ ~relay.closed /\ relay.ready = IF relay.conn THEN 1 ELSE 0
    BY <2>1 DEF Close, RelayInv, Shape
  <2>3. relay' = [conn |-> relay.conn, ob |-> relay.ob, closed |-> TRUE, ready |-> 1]
    <3>1. relay = [conn |-> relay.conn, ob |-> relay.ob, closed |-> relay.closed, ready |-> relay.ready]
      BY DEF RelayInv, Shape
    <3>2. relay' = [relay EXCEPT !.closed = TRUE, !.ready = IF @ > 0 THEN @ ELSE @ + 1]
      BY <2>1 DEF Close
    <3>3. (IF relay.ready > 0 THEN relay.ready ELSE relay.ready + 1) = 1
      BY <2>2
    <3>4. QED
      BY <3>1, <3>2, <3>3
  <2>4. UNCHANGED <<req, socks, mu>> /\ closer' = IF relay.conn THEN "conn" ELSE "done"
    BY <2>1 DEF Close, policyVars
  <2>5. QED
    BY <2>2, <2>3, <2>4 DEF RelayInv, Shape, Req, w
<1>15. CASE UNCHANGED <<cache, relay, mu, rd, closer>> /\ (Resolve(Uot) \/ Lookup(Uot) \/ Remember(Uot))
  <2>1. CASE Resolve(Uot)
    <3>1. PICK res : req' = [req EXCEPT ![Uot].res = res, ![Uot].pc = "lookup"]
      BY <2>1 DEF Resolve
    <3>2. req'[Uot] = [req[Uot] EXCEPT !.res = res, !.pc = "lookup"]
      BY <1>0, <3>1 DEF RelayInv, Shape
    <3>3. w'.pc = "lookup" /\ Req(Uot)'
      BY <1>0, <3>2 DEF RelayInv, Shape, Req, w
    <3>4. req' = [p \in Procs |-> req'[p]] /\ \A p \in Procs \ {Uot} : Req(p)'
      BY <3>1 DEF RelayInv, Shape, Req
    <3>5. UNCHANGED <<socks, relay, mu, closer>> /\ w.pc = "resolve"
      BY <1>15, <2>1 DEF Resolve, w
    <3>6. QED
      BY <3>3, <3>4, <3>5 DEF RelayInv, Shape
  <2>2. ASSUME NEW look, NEW pc \in {"add", "decided"}, Answer(Uot, look, pc), UNCHANGED socks,
               w.pc \in {"lookup", "add"}
        PROVE  RelayInv'
    BY <1>15, <2>2, WriterAnswered DEF RelayInv, Shape
  <2>3. CASE Lookup(Uot) \/ Remember(Uot)
    <3>1. \E look, pc : Answer(Uot, look, pc) /\ pc \in {"add", "decided"}
      BY <2>3 DEF Lookup, Remember, NextPc
    <3>2. UNCHANGED socks /\ w.pc \in {"lookup", "add"}
      BY <2>3 DEF Lookup, Remember, w
    <3>3. QED
      BY <2>2, <3>1, <3>2
  <2>4. QED
    BY <1>15, <2>1, <2>3
<1>16. QED
  BY <1>1, <1>2, <1>3, <1>4, <1>5, <1>6, <1>7, <1>8, <1>9, <1>10, <1>11, <1>12, <1>13, <1>14,
     <1>15 DEF StreamNext, WriterStep

\* Every step of the relay and of the requests beside it.
LEMMA RelayInvNext == RelayInv /\ [RelayNext]_relayVars => RelayInv'
<1> SUFFICES ASSUME RelayInv, [RelayNext]_relayVars PROVE RelayInv'
  OBVIOUS
<1>1. CASE \E p \in Tcps : TcpStep(p) /\ UNCHANGED <<cache, relay, mu, rd, closer>>
  BY <1>1, OtherRequests
<1>2. CASE Startup /\ UNCHANGED <<cache, relay, mu, rd, closer>>
  BY <1>2 DEF Startup, RelayInv, Shape, Req, w
<1>3. CASE UNCHANGED relayVars
  BY <1>3 DEF relayVars, policyVars, RelayInv, Shape, Req, w
<1>4. QED
  BY <1>1, <1>2, <1>3, StreamSteps DEF RelayNext

\* No socket of a UDP-over-TCP stream is left open by Close, by a failed ListenUDP or by the
\* race between them, ready is closed at most once, and packets leave only through the
\* outbound of the stream's socket: for all rules, outbounds, destinations and answers.
THEOREM SocketsAlwaysOwned == RelaySpec => []SocketsOwned
<1>1. RelayInv => SocketsOwned
  BY DEF RelayInv, SocketsOwned, Shape
<1>2. QED
  BY RelayInvInit, RelayInvNext, <1>1, PTL DEF RelaySpec
=============================================================================
