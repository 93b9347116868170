-------------------------------- MODULE Relay --------------------------------
(***************************************************************************)
(* The UDP side of a UDP-over-TCP stream (routedPacketConn of              *)
(* src/cmd/server/acl.go, the SOCKS5 association of src/outbound/socks5.go)*)
(* One goroutine writes packets, one reads them, the socket is opened by   *)
(* the first packet that may leave, and Close races with both.  The copy   *)
(* loop around it (sing's bufio.CopyPacketConn) is external: it closes     *)
(* both sides once one direction has failed or the context is done.        *)
(***************************************************************************)
EXTENDS Policy

CONSTANT maxSessionACLCache

VARIABLES
  cache,    \* routedPacketConn.cache: a set of [dest, res, look, route], res and look for the record
  relay,    \* [conn, ob, closed, ready]: conn is whether a socket was ever set, ready how often closed
  mu,       \* whether the writer holds mu (the other sections under it are one step)
  rd,       \* the reader: "wait" for ready, "get", "read", "ended"
  closer    \* Close: "no", "conn" with the connection still to close, "done"

relayVars == <<policyVars, cache, relay, mu, rd, closer>>
w == req[Uot]
NoRelay == [conn |-> FALSE, ob |-> Reject, closed |-> FALSE, ready |-> 0]

RelayInit ==
  /\ PolicyInit
  /\ cache = {} /\ relay = NoRelay /\ mu = FALSE /\ rd = "wait" /\ closer = "no"

-----------------------------------------------------------------------------
\* WritePacket, for packets the stream still yields (the copy loop closes the stream before
\* the relay).  A destination decided before is not resolved again.
Decision(d) == {e \in cache : e.dest = d}
Packet ==
  /\ Running /\ Uot \in setup.procs /\ w.pc = "idle" /\ closer = "no"
  /\ \E d \in setup.dests :
       IF Decision(d) = {} THEN req' = [req EXCEPT ![Uot].dest = d, ![Uot].pc = "resolve"]
       ELSE \E e \in Decision(d) :
              req' = [req EXCEPT ![Uot] = IF ~e.route.ok THEN IdleReq
                                          ELSE [pc |-> "lock", dest |-> d, res |-> e.res,
                                                look |-> e.look, route |-> e.route]]
  /\ UNCHANGED <<aclVars, env, socks, cache, relay, mu, rd, closer>>

\* The decision goes into the cache, in place of any other when that is full; a packet
\* that is refused or cannot be resolved is dropped.
Decide ==
  /\ w.pc = "decided"
  /\ LET entry == [dest |-> w.dest, res |-> w.res, look |-> w.look, route |-> w.route] IN
     IF Cardinality(cache) < maxSessionACLCache THEN cache' = cache \cup {entry}
     ELSE \E e \in cache : cache' = (cache \ {e}) \cup {entry}
  /\ req' = [req EXCEPT ![Uot] = IF w.route.ok THEN [w EXCEPT !.pc = "lock"] ELSE IdleReq]
  /\ UNCHANGED <<aclVars, env, socks, relay, mu, rd, closer>>

\* Under mu: an error after Close, a socket if there is none yet.
EndWriter == req' = [req EXCEPT ![Uot] = [IdleReq EXCEPT !.pc = "ended"]]
LockAnyway ==
  /\ w.pc = "lock" /\ ~mu
  /\ mu' = ~relay.conn
  /\ Goto(Uot, IF relay.conn THEN "bound" ELSE "dial")
  /\ UNCHANGED <<aclVars, env, socks, cache, relay, rd, closer>>
Lock ==
  /\ w.pc = "lock" /\ ~mu
  /\ mu' = (~relay.closed /\ ~relay.conn)
  /\ IF relay.closed THEN EndWriter ELSE Goto(Uot, IF relay.conn THEN "bound" ELSE "dial")
  /\ UNCHANGED <<aclVars, env, socks, cache, relay, rd, closer>>

\* ListenUDP fails: what it had opened is closed, and the stream ends.
ListenFails ==
  /\ w.pc \in {"dial", "handshake", "udp"}
  /\ EndWriter /\ mu' = FALSE
  /\ socks' = [socks EXCEPT ![Uot] = {}]
  /\ UNCHANGED <<aclVars, env, cache, relay, rd, closer>>

\* SOCKS5.ListenUDP: the control connection, the handshake, the relay's address.
Associate ==
  /\ \/ w.pc = "dial" /\ w.route.ob.kind = "socks5" /\ Goto(Uot, "handshake")
        /\ socks' = [socks EXCEPT ![Uot] = {"tcp"}]
     \/ w.pc = "handshake" /\ Goto(Uot, "udp") /\ UNCHANGED socks
  /\ UNCHANGED <<aclVars, env, cache, relay, mu, rd, closer>>

\* The socket is there: conn and outbound are set and ready is closed.
Listens ==
  /\ \/ w.pc = "dial" /\ w.route.ob.kind = "direct"
     \/ w.pc = "udp"
  /\ socks' = [socks EXCEPT ![Uot] = @ \cup {"udp"}]
  /\ relay' = [relay EXCEPT !.conn = TRUE, !.ob = w.route.ob, !.ready = @ + 1]
  /\ mu' = FALSE /\ Goto(Uot, "bound")
  /\ UNCHANGED <<aclVars, env, cache, rd, closer>>

\* A packet for another outbound than the socket's is dropped.
SameOutbound ==
  /\ w.pc = "bound"
  /\ req' = [req EXCEPT ![Uot] = IF w.route.ob = relay.ob THEN [w EXCEPT !.pc = "send"] ELSE IdleReq]
  /\ UNCHANGED <<aclVars, env, socks, cache, relay, mu, rd, closer>>

\* conn.WritePacket: sent, or an error of a closed socket.
Send ==
  /\ w.pc = "send"
  /\ IF "udp" \in socks[Uot] THEN req' = [req EXCEPT ![Uot] = IdleReq] ELSE EndWriter
  /\ UNCHANGED <<aclVars, env, socks, cache, relay, mu, rd, closer>>

\* The client's stream ends, or Cleanup has closed it.
StreamEnds ==
  /\ Running /\ Uot \in setup.procs /\ w.pc = "idle" /\ (setup.ends \/ closer # "no")
  /\ EndWriter
  /\ UNCHANGED <<aclVars, env, socks, cache, relay, mu, rd, closer>>

-----------------------------------------------------------------------------
\* ReadPacket: wait for ready, take conn under mu, read from it until it is closed.
ReadPacket ==
  /\ Running /\ ~mu
  /\ \/ rd = "wait" /\ relay.ready > 0 /\ rd' = IF relay.conn THEN "read" ELSE "ended"
     \/ rd = "read" /\ "udp" \notin socks[Uot] /\ rd' = "ended"
  /\ UNCHANGED <<policyVars, cache, relay, mu, closer>>

\* socks5PacketConn.hold: the proxy ends the control connection, and the association with it.
Hold ==
  /\ "tcp" \in socks[Uot] /\ "udp" \in socks[Uot]
  /\ socks' = [socks EXCEPT ![Uot] = {}]
  /\ UNCHANGED <<aclVars, env, req, cache, relay, mu, rd, closer>>

\* Close, as far as the unlock.
CloseQuiet ==
  /\ ~mu /\ closer = "no"
  /\ relay' = [relay EXCEPT !.closed = TRUE]
  /\ closer' = IF relay.conn THEN "conn" ELSE "done"
  /\ UNCHANGED <<policyVars, cache, mu, rd>>
Close ==
  /\ ~mu /\ closer = "no"
  /\ relay' = [relay EXCEPT !.closed = TRUE, !.ready = IF @ > 0 THEN @ ELSE @ + 1]
  /\ closer' = IF relay.conn THEN "conn" ELSE "done"
  /\ UNCHANGED <<policyVars, cache, mu, rd>>

\* Cleanup of the copy loop calls Close when a direction has failed, or the context is done.
Cleanup == Running /\ (w.pc = "ended" \/ rd = "ended") /\ Close
Cancelled == Running /\ Uot \in setup.procs /\ setup.ends /\ Close

CloseConn ==
  /\ closer = "conn" /\ closer' = "done"
  /\ socks' = [socks EXCEPT ![Uot] = {}]
  /\ UNCHANGED <<aclVars, env, req, cache, relay, mu, rd>>

\* The stream is over; the next one gets a routedPacketConn of its own.
NextStream ==
  /\ closer = "done" /\ w.pc = "ended" /\ rd = "ended"
  /\ req' = [req EXCEPT ![Uot] = IdleReq]
  /\ cache' = {} /\ relay' = NoRelay /\ rd' = "wait" /\ closer' = "no"
  /\ UNCHANGED <<aclVars, env, socks, mu>>

WriterStep ==
  \/ Decide \/ Lock \/ ListenFails \/ Associate \/ Listens \/ SameOutbound \/ Send
  \/ UNCHANGED <<cache, relay, mu, rd, closer>> /\ (Resolve(Uot) \/ Lookup(Uot) \/ Remember(Uot))

StreamNext ==
  \/ Packet \/ WriterStep \/ StreamEnds \/ ReadPacket \/ Hold
  \/ Cleanup \/ Cancelled \/ CloseConn \/ NextStream

RelayNext ==
  \/ StreamNext
  \/ UNCHANGED <<cache, relay, mu, rd, closer>> /\ (Startup \/ \E p \in Tcps : TcpStep(p))
  \/ started = "fatal" /\ UNCHANGED relayVars

\* Resolution and the dials are bounded by timeouts, mutexes are granted, and the copy
\* loop closes what it copies.
RelayFairness ==
  /\ WF_relayVars(WriterStep)
  /\ WF_relayVars(closer # "no" /\ StreamEnds)
  /\ WF_relayVars(ReadPacket)
  /\ WF_relayVars(Cleanup)
  /\ WF_relayVars(CloseConn)

RelaySpec == RelayInit /\ [][RelayNext]_relayVars /\ RelayFairness

-----------------------------------------------------------------------------
\* A stream has no socket once Close has returned and no socket it does not know of: one
\* that ListenUDP opened is either conn, or closed again with the error.  ready is closed at
\* most once (a second close would panic), and a packet leaves only through the outbound
\* the socket belongs to.
SocketsOwned ==
  /\ closer = "done" => socks[Uot] = {}
  /\ "udp" \in socks[Uot] => relay.conn
  /\ socks[Uot] # {} => relay.conn \/ mu
  /\ relay.ready <= 1
  /\ w.pc = "send" => w.route.ob = relay.ob

\* After Close both directions of the stream end and its sockets are gone, also when the
\* reader was waiting for a socket that no packet ever opened (Close closes ready).
CloseEndsRelay == relay.closed ~> (rd = "ended" /\ w.pc = "ended" /\ socks[Uot] = {})
=============================================================================
