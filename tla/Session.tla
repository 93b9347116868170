------------------------------ MODULE Session ------------------------------
(***************************************************************************)
(* One anytls session: the client's and the server's session.Session       *)
(* (proxy/session/session.go) with their streams (stream.go), the client   *)
(* application and the server's stream handlers, joined by a TLS           *)
(* connection that is a FIFO of frames in each direction.                  *)
(*                                                                         *)
(* A step is what one goroutine does between two points where another one  *)
(* can interfere.  The goroutines are the recvLoop of each side, the       *)
(* callers of OpenStream, one application goroutine per client stream, one *)
(* handler per server stream, the SYNACK watchers, and whoever runs        *)
(* Session.Close.                                                          *)
(***************************************************************************)
EXTENDS Integers, Sequences, FiniteSets

CONSTANTS
    Starts,             \* where behaviours start: a new session, a used one, or both
    MaxOpens,           \* bound on the calls of OpenStream
    MaxData,            \* bound on the data frames a stream carries each way
    Senders, Repliers,  \* bounds: the streams on which client and server send data
    maxServerStreams,   \* the cap on open streams of a server session
    ClientVersions,     \* the values "v" may have in the client's settings
    StaleScheme,        \* the client's padding-md5 is not the server's
    Exclusive,          \* OpenStream is called by the pool: one stream at a time
    Closers,            \* the sides on which Close may be called from outside
    Faults              \* the connection may fail at any time

ASSUME SessionAssumption ==
    /\ Starts \subseteq {"new", "used"}
    /\ MaxOpens \in Nat /\ MaxData \in Nat
    /\ Senders \subseteq Nat /\ Repliers \subseteq Nat
    /\ maxServerStreams \in Nat
    /\ ClientVersions \subseteq {1, 2}
    /\ Closers \subseteq {"client", "server"}
    /\ StaleScheme \in BOOLEAN /\ Exclusive \in BOOLEAN /\ Faults \in BOOLEAN

Ends == {"client", "server"}
C == "client"
S == "server"
Peer(e) == IF e = C THEN S ELSE C
Sids == 1..(IF "used" \in Starts THEN MaxOpens + 1 ELSE MaxOpens)

VARIABLES
    life,           \* per side: "open", "died" (die closed), "closed" (swept, conn closed)
    wire,           \* frames a side has written and its peer has not read
    buffering,      \* client: s.buffering
    buffer,         \* client: s.buffer
    broken,         \* client: a write to the TLS connection has failed
    streams,        \* keys of s.streams
    st,             \* each stream object: dieOnce and the steps of closeWithError
    recv,           \* position of recvLoop
    peerVersion,    \* s.peerVersion
    gotSettings,    \* server: receivedSettingsFromClient
    streamId,       \* client: s.streamId
    opener,         \* progress of the OpenStream call for a sid
    writer,         \* progress of Stream.Write
    handler,        \* server: progress of the onNewStream goroutine
    reported,       \* server: the streams whose reportOnce is done
    synDone,        \* client: the sid whose watcher s.synDone stops, 0 for nil
    watcher,        \* client: the watcher armed by OpenStream of a sid
    sent, rcvd,     \* data frames written on, and data read from, a stream
    answered        \* SYNACKs the client has handled: sid and 1 for an error

bufVars == <<buffering, buffer, broken>>
connVars == <<life, wire, bufVars>>
streamVars == <<streams, st>>
settingsVars == <<peerVersion, gotSettings>>
synVars == <<synDone, watcher, answered>>
dataVars == <<sent, rcvd, writer>>
handlerVars == <<handler, reported>>
vars == <<connVars, streamVars, settingsVars, synVars, dataVars, recv, streamId,
          opener, handlerVars>>

Frame(cmd, sid, data) == [cmd |-> cmd, sid |-> sid, data |-> data]
Is(f, cmd, sid) == f.cmd = cmd /\ f.sid = sid
At(at, sid, data) == [at |-> at, sid |-> sid, data |-> data]

\* A new session: NewClientSession after Run has buffered the settings, and
\* NewServerSession after Run has entered recvLoop.
New(v) ==
    /\ buffering = TRUE
    /\ buffer = <<Frame("Settings", 0, v)>>
    /\ peerVersion = [e \in Ends |-> 0]
    /\ gotSettings = FALSE
    /\ streamId = 0
    /\ st = [e \in Ends |-> [i \in Sids |-> "none"]]
    /\ opener = [i \in Sids |-> "none"]
    /\ handler = [i \in Sids |-> "none"]
    /\ sent = [e \in Ends |-> [i \in Sids |-> 0]]

\* A used session, back in the pool: the settings have been exchanged, and stream 1
\* was closed by its handler, which had not read the address the client sent within
\* requestTimeout.
Used(v) ==
    LET past(was) == [i \in Sids |-> IF i = 1 THEN was ELSE "none"]
    IN  /\ buffering = FALSE
        /\ buffer = <<>>
        /\ peerVersion = [e \in Ends |-> IF v >= 2 THEN 2 ELSE 0]
        /\ gotSettings = TRUE
        /\ streamId = 1
        /\ st = [e \in Ends |-> past("dead")]
        /\ opener = past("past")
        /\ handler = past("done")
        /\ sent = [e \in Ends |-> [i \in Sids |-> IF e = C /\ i = 1 THEN 1 ELSE 0]]

Init ==
    /\ \E v \in ClientVersions : \/ "new" \in Starts /\ New(v)
                                 \/ "used" \in Starts /\ Used(v)
    /\ life = [e \in Ends |-> "open"]
    /\ wire = [e \in Ends |-> <<>>]
    /\ broken = FALSE
    /\ streams = [e \in Ends |-> {}]
    /\ recv = [e \in Ends |-> At("read", 0, 0)]
    /\ writer = [e \in Ends |-> [i \in Sids |-> "idle"]]
    /\ reported = {}
    /\ synDone = 0
    /\ watcher = [i \in Sids |-> "off"]
    /\ rcvd = [e \in Ends |-> [i \in Sids |-> <<>>]]
    /\ answered = {}

-----------------------------------------------------------------------------
(* Writing to the connection *)

IsClosed(e) == life[e] # "open"

\* Frames fs go onto the wire of e; nobody will read them if the peer has
\* closed its end.
Sent(e, fs) == IF life[Peer(e)] = "closed" THEN <<>> ELSE wire[e] \o fs

\* doWriteConn with success: the client's first frames wait in s.buffer, and
\* the first write after buffering ends takes them along.
Written(e, fs) ==
    IF e = C /\ buffering
    THEN buffer' = buffer \o fs /\ UNCHANGED <<wire, broken>>
    ELSE /\ life[e] # "closed" /\ (e = C => ~broken)
         /\ wire' = [wire EXCEPT ![e] = Sent(e, IF e = C THEN buffer \o fs ELSE fs)]
         /\ buffer' = IF e = C THEN <<>> ELSE buffer
         /\ UNCHANGED broken

\* Why reading or writing can fail: the deadline that Close sets, a connection
\* closed at either end, the 5s deadline of a control frame, the network.
ConnMayFail(e) == IsClosed(e) \/ life[Peer(e)] = "closed" \/ Faults

\* doWriteConn with an error.  What was buffered is gone, and crypto/tls fails all
\* later writes.  (A write of the server may also fail in its rate limiter, which
\* leaves the connection as it was.)
NotWritten(e) ==
    /\ ~(e = C /\ buffering)
    /\ ConnMayFail(e) \/ (e = C /\ broken)
    /\ buffer' = IF e = C THEN <<>> ELSE buffer
    /\ broken' = (e = C \/ broken)
    /\ UNCHANGED wire

\* The dieOnce part of Session.Close.
Dies(e) == life' = [life EXCEPT ![e] = IF @ = "open" THEN "died" ELSE @]

\* The rest of Session.Close: close the registered streams locally, empty the
\* map, close the connection.  What the peer has sent is not read any more, and
\* a watcher that still runs out finds the session closed.
CloseSweeps(e) ==
    /\ life[e] = "died"
    /\ life' = [life EXCEPT ![e] = "closed"]
    /\ st' = [st EXCEPT ![e] = [i \in Sids |->
                IF i \in streams[e] /\ @[i] = "live" THEN "dead" ELSE @[i]]]
    /\ streams' = [streams EXCEPT ![e] = {}]
    /\ wire' = [wire EXCEPT ![Peer(e)] = <<>>]
    /\ watcher' = IF e = C THEN [i \in Sids |-> "off"] ELSE watcher
    /\ UNCHANGED <<bufVars, settingsVars, dataVars, synDone, answered,
                   recv, streamId, opener, handlerVars>>

\* Close called from outside: Client.Close or idleCleanup on the client, Kick
\* on the server.
CloseSession(e) ==
    /\ e \in Closers
    /\ life[e] = "open"
    /\ Dies(e)
    /\ UNCHANGED <<wire, bufVars, streamVars, settingsVars, synVars,
                   dataVars, recv, streamId, opener, handlerVars>>

-----------------------------------------------------------------------------
(* OpenStream *)

\* The pool hands the session out again only when the last stream's dieHook
\* has run.
Available ==
    Exclusive => \A i \in 1..streamId :
                   opener[i] \in {"open", "past"} /\ st[C][i] = "dead"

\* Mutant: the done function does not reach the watcher.
StoppedNot(w) == w

\* Calling the done function of a watcher whose timer has run out leaves the
\* choice to the watcher's select.
Stopped(w) == IF w = "armed" THEN "off" ELSE IF w = "due" THEN "race" ELSE w

\* OpenStream up to the SYN: a stream id and, from the second stream on, a
\* watcher in place of the last one.
OpenStream ==
    /\ Cardinality({i \in Sids : opener[i] \notin {"none", "past"}}) < MaxOpens
    /\ Available
    /\ ~IsClosed(C)
    /\ streamId' = streamId + 1
    /\ opener' = [opener EXCEPT ![streamId + 1] = "syn"]
    /\ IF streamId + 1 >= 2 /\ peerVersion[C] >= 2
       THEN /\ watcher' = [j \in Sids |->
                             IF j = streamId + 1 THEN "armed"
                             ELSE IF j = synDone THEN Stopped(watcher[j])
                             ELSE watcher[j]]
            /\ synDone' = streamId + 1
       ELSE UNCHANGED <<watcher, synDone>>
    /\ UNCHANGED <<connVars, streamVars, settingsVars, dataVars, answered, recv,
                   handlerVars>>

\* Mutant: the SYN overtakes the buffered settings.
WriteSYNUnbuffered(i) ==
    /\ opener[i] = "syn"
    /\ wire' = [wire EXCEPT ![C] = Sent(C, <<Frame("SYN", i, 0)>>)]
    /\ opener' = [opener EXCEPT ![i] = "unbuffer"]
    /\ UNCHANGED <<life, bufVars, streamVars, settingsVars, synVars,
                   dataVars, recv, streamId, handlerVars>>

WriteSYN(i) ==
    /\ opener[i] = "syn"
    /\ \/ /\ Written(C, <<Frame("SYN", i, 0)>>)
          /\ opener' = [opener EXCEPT ![i] = IF buffering THEN "unbuffer" ELSE "register"]
          /\ UNCHANGED life
       \/ /\ NotWritten(C)
          /\ opener' = [opener EXCEPT ![i] = "failed"]
          /\ Dies(C)
    /\ UNCHANGED <<buffering, streamVars, settingsVars, synVars, dataVars, recv,
                   streamId, handlerVars>>

\* buffering = false, under connLock; no step where it is false already.
EndBuffering(i) ==
    /\ opener[i] = "unbuffer"
    /\ buffering' = FALSE
    /\ opener' = [opener EXCEPT ![i] = "register"]
    /\ UNCHANGED <<life, wire, buffer, broken, streamVars, settingsVars, synVars,
                   dataVars, recv, streamId, handlerVars>>

\* Mutant: die is not tested under streamLock.
RegisterUnchecked(i) ==
    /\ opener[i] = "register"
    /\ opener' = [opener EXCEPT ![i] = "open"]
    /\ streams' = [streams EXCEPT ![C] = @ \cup {i}]
    /\ st' = [st EXCEPT ![C][i] = "live"]
    /\ UNCHANGED <<connVars, settingsVars, synVars, dataVars, recv, streamId,
                   handlerVars>>

\* Registration under streamLock, unless die is closed.
Register(i) ==
    /\ opener[i] = "register"
    /\ IF IsClosed(C)
       THEN /\ opener' = [opener EXCEPT ![i] = "failed"]
            /\ UNCHANGED streamVars
       ELSE /\ opener' = [opener EXCEPT ![i] = "open"]
            /\ streams' = [streams EXCEPT ![C] = @ \cup {i}]
            /\ st' = [st EXCEPT ![C][i] = "live"]
    /\ UNCHANGED <<connVars, settingsVars, synVars, dataVars, recv, streamId,
                   handlerVars>>

WatcherDue(i) ==
    /\ watcher[i] = "armed"
    /\ watcher' = [watcher EXCEPT ![i] = "due"]
    /\ UNCHANGED <<connVars, streamVars, settingsVars, dataVars, synDone, answered,
                   recv, streamId, opener, handlerVars>>

\* select in NewDeadlineWatcher: the timer, or closeCh if that is closed too.
WatcherSelects(i) ==
    /\ watcher[i] \in {"due", "race"}
    /\ watcher' = [watcher EXCEPT ![i] = "off"]
    /\ Dies(C) \/ (watcher[i] = "race" /\ UNCHANGED life)
    /\ UNCHANGED <<wire, bufVars, streamVars, settingsVars, dataVars,
                   synDone, answered, recv, streamId, opener, handlerVars>>

-----------------------------------------------------------------------------
(* Stream.Write, Stream.Read, Stream.Close *)

\* The client application writes, first of all the destination address, once
\* OpenStream has returned; a handler once it relays.
Write(e, i) ==
    /\ writer[e][i] = "idle"
    /\ sent[e][i] < MaxData /\ i \in (IF e = C THEN Senders ELSE Repliers)
    /\ IF e = C THEN opener[i] = "open" ELSE handler[i] = "relay"
    /\ st[e][i] = "live"                    \* dieErr.Load() is nil
    /\ writer' = [writer EXCEPT ![e][i] = "write"]
    /\ UNCHANGED <<connVars, streamVars, settingsVars, synVars, sent, rcvd, recv,
                   streamId, opener, handlerVars>>

\* writeDataFrame.  An error is the caller's: the session is not closed.
WriteDataFrame(e, i) ==
    /\ writer[e][i] = "write"
    /\ \/ /\ Written(e, <<Frame("PSH", i, <<i, sent[e][i] + 1>>)>>)
          /\ sent' = [sent EXCEPT ![e][i] = @ + 1]
          /\ writer' = [writer EXCEPT ![e][i] = "idle"]
       \/ /\ NotWritten(e)
          /\ writer' = [writer EXCEPT ![e][i] = "failed"]
          /\ UNCHANGED sent
    /\ UNCHANGED <<life, buffering, streamVars, settingsVars, synVars, rcvd, recv,
                   streamId, opener, handlerVars>>

\* recvLoop goes on to its next frame, or returns if the session is closed.
Looping(e) == IF IsClosed(e) THEN At("done", 0, 0) ELSE At("read", 0, 0)

Loop(e) == recv' = [recv EXCEPT ![e] = Looping(e)]

\* Mutant: the writer of the pipe is not told that its data was taken.
ReadUnacknowledged(e, i) ==
    /\ recv[e].at = "deliver" /\ recv[e].sid = i
    /\ st[e][i] = "live"
    /\ e = S => handler[i] \in {"addr", "relay"}
    /\ Len(rcvd[e][i]) < MaxData
    /\ rcvd' = [rcvd EXCEPT ![e][i] = Append(@, recv[e].data)]
    /\ handler' = IF e = S /\ handler[i] = "addr"
                  THEN [handler EXCEPT ![i] = "dial"] ELSE handler
    /\ UNCHANGED <<connVars, streamVars, settingsVars, synVars, sent, writer, recv,
                   streamId, opener, reported>>

\* Read takes the frame recvLoop is writing into the pipe.  The first read of a
\* handler is the address, after which it dials.
Read(e, i) ==
    /\ recv[e].at = "deliver" /\ recv[e].sid = i
    /\ st[e][i] = "live"
    /\ e = S => handler[i] \in {"addr", "relay"}
    /\ rcvd' = [rcvd EXCEPT ![e][i] = Append(@, recv[e].data)]
    /\ handler' = IF e = S /\ handler[i] = "addr"
                  THEN [handler EXCEPT ![i] = "dial"] ELSE handler
    /\ Loop(e)
    /\ UNCHANGED <<connVars, streamVars, settingsVars, synVars, sent, writer,
                   streamId, opener, reported>>

\* Mutant: recvLoop does not wait for the reader.
PipeDoesNotBlock(e) ==
    /\ recv[e].at = "deliver"
    /\ Loop(e)
    /\ UNCHANGED <<connVars, streamVars, settingsVars, synVars, dataVars, streamId,
                   opener, handlerVars>>

\* The pipe was closed while recvLoop was writing into it.
PipeClosed(e) ==
    /\ recv[e].at = "deliver"
    /\ st[e][recv[e].sid] # "live"
    /\ Loop(e)
    /\ UNCHANGED <<connVars, streamVars, settingsVars, synVars, dataVars, streamId,
                   opener, handlerVars>>

\* dieOnce of closeWithError, called by the client application.  CreateProxy
\* writes the address, or fails to, before anyone can close the stream.
CloseClientStream(i) ==
    /\ st[C][i] = "live"
    /\ writer[C][i] = "failed" \/ sent[C][i] > 0
    /\ st' = [st EXCEPT ![C][i] = "closing"]
    /\ UNCHANGED <<connVars, streams, settingsVars, synVars, dataVars, recv,
                   streamId, opener, handlerVars>>

\* recvLoop is the one running closeWithError, after a SYNACK with an error.
ByRecvLoop(e, i) == recv[e].at = "close" /\ recv[e].sid = i

\* streamClosed: nothing on a closed session, else a FIN.
StreamClosed(e, i) ==
    /\ st[e][i] = "closing"
    /\ \/ /\ IsClosed(e)
          /\ st' = [st EXCEPT ![e][i] = "dead"]
          /\ IF ByRecvLoop(e, i) THEN Loop(e) ELSE UNCHANGED recv
          /\ UNCHANGED <<life, wire, buffer, broken>>
       \/ /\ ~IsClosed(e)
          /\ Written(e, <<Frame("FIN", i, sent[e][i])>>)
          /\ st' = [st EXCEPT ![e][i] = "finned"]
          /\ UNCHANGED <<life, recv>>
       \/ /\ ~IsClosed(e)
          /\ NotWritten(e)
          /\ Dies(e)
          /\ st' = [st EXCEPT ![e][i] = "finned"]
          /\ UNCHANGED recv
    /\ UNCHANGED <<buffering, streams, settingsVars, synVars, dataVars, streamId,
                   opener, handlerVars>>

\* Mutant: the stream stays in the map.
StreamNotDeleted(e, i) ==
    /\ st[e][i] = "finned"
    /\ st' = [st EXCEPT ![e][i] = "dead"]
    /\ IF ByRecvLoop(e, i) THEN Loop(e) ELSE UNCHANGED recv
    /\ UNCHANGED <<connVars, streams, settingsVars, synVars, dataVars, streamId,
                   opener, handlerVars>>

\* streamClosed deletes the stream; closeWithError then runs dieHook.
StreamDeleted(e, i) ==
    /\ st[e][i] = "finned"
    /\ st' = [st EXCEPT ![e][i] = "dead"]
    /\ streams' = [streams EXCEPT ![e] = @ \ {i}]
    /\ IF ByRecvLoop(e, i) THEN Loop(e) ELSE UNCHANGED recv
    /\ UNCHANGED <<connVars, settingsVars, synVars, dataVars, streamId, opener,
                   handlerVars>>

-----------------------------------------------------------------------------
(* recvLoop: one action per command.  A frame that was under way when the   *)
(* session died may still be handled; once the connection is closed none is. *)

Receives(e, cmd) ==
    /\ recv[e].at = "read"
    /\ life[e] # "closed"
    /\ wire[Peer(e)] # <<>>
    /\ Head(wire[Peer(e)]).cmd = cmd

\* The frame leaves the wire.
Taken(e) == wire' = [wire EXCEPT ![Peer(e)] = Tail(@)]

\* Mutant: recvLoop returns without closing the session.
ReturnsOnly(e) == recv' = [recv EXCEPT ![e] = At("done", 0, 0)] /\ UNCHANGED life

\* recvLoop returns; its deferred s.Close() runs.
Returns(e) == recv' = [recv EXCEPT ![e] = At("done", 0, 0)] /\ Dies(e)

\* recvLoop writes a control frame itself: it goes out and recvLoop goes on, or
\* recvLoop returns.  Only the server does so.
Answers(fs, then) ==
    \/ /\ life[S] # "closed" \/ fs = <<>>
       /\ wire' = [wire EXCEPT ![S] = Sent(S, fs)]
       /\ recv' = [recv EXCEPT ![S] = then]
       /\ UNCHANGED life
    \/ /\ fs # <<>>
       /\ ConnMayFail(S)
       /\ Returns(S)
       /\ UNCHANGED wire

RecvError(e) ==
    /\ recv[e].at = "read"
    /\ ConnMayFail(e)
    /\ Returns(e)
    /\ UNCHANGED <<wire, bufVars, streamVars, settingsVars, synVars,
                   dataVars, streamId, opener, handlerVars>>

\* Mutant: data for a stream that is gone goes to one that is there.
RecvPSHAnyStream(e) ==
    /\ Receives(e, "PSH")
    /\ IF streams[e] # {}
       THEN \E i \in streams[e] :
              recv' = [recv EXCEPT ![e] = At("deliver", i, Head(wire[Peer(e)]).data)]
       ELSE Loop(e)
    /\ Taken(e)
    /\ UNCHANGED <<life, bufVars, streamVars, settingsVars, synVars,
                   dataVars, streamId, opener, handlerVars>>

\* The PSH case: the payload of a registered stream is written into its pipe.
RecvPSH(e) ==
    /\ Receives(e, "PSH")
    /\ LET f == Head(wire[Peer(e)])
       IN  IF f.sid \in streams[e]
           THEN recv' = [recv EXCEPT ![e] = At("deliver", f.sid, f.data)]
           ELSE Loop(e)
    /\ Taken(e)
    /\ UNCHANGED <<life, bufVars, streamVars, settingsVars, synVars,
                   dataVars, streamId, opener, handlerVars>>

\* Mutant: the stream is deleted and not closed.
RecvFINDeletesOnly(e) ==
    /\ Receives(e, "FIN")
    /\ streams' = [streams EXCEPT ![e] = @ \ {Head(wire[Peer(e)]).sid}]
    /\ Taken(e)
    /\ Loop(e)
    /\ UNCHANGED <<life, bufVars, st, settingsVars, synVars, dataVars,
                   streamId, opener, handlerVars>>

\* The FIN case: the stream is deleted under streamLock, then closed.
RecvFIN(e) ==
    /\ Receives(e, "FIN")
    /\ LET f == Head(wire[Peer(e)])
       IN  /\ streams' = [streams EXCEPT ![e] = @ \ {f.sid}]
           /\ IF f.sid \in streams[e]
              THEN recv' = [recv EXCEPT ![e] = At("fin", f.sid, f.data)]
              ELSE Loop(e)
    /\ Taken(e)
    /\ UNCHANGED <<life, bufVars, st, settingsVars, synVars, dataVars,
                   streamId, opener, handlerVars>>

\* closeLocally of the stream a FIN has ended
CloseLocally(e) ==
    /\ recv[e].at = "fin"
    /\ st' = [st EXCEPT ![e][recv[e].sid] = IF @ = "live" THEN "dead" ELSE @]
    /\ Loop(e)
    /\ UNCHANGED <<connVars, streams, settingsVars, synVars, dataVars, streamId,
                   opener, handlerVars>>

\* refuseStream
Refusal(i) ==
    IF peerVersion[S] >= 2 THEN Frame("SYNACK", i, 1)
                           ELSE Frame("FIN", i, 0)

\* recvLoop has read a SYN.
RecvSYN ==
    /\ Receives(S, "SYN")
    /\ recv' = [recv EXCEPT ![S] = At("accept", Head(wire[C]).sid, 0)]
    /\ Taken(S)
    /\ UNCHANGED <<life, bufVars, streamVars, settingsVars, synVars,
                   dataVars, streamId, opener, handlerVars>>

\* Mutant: the streams are counted after the new one has been added and started.
AcceptStreamCountsLate ==
    /\ recv[S].at = "accept" /\ gotSettings
    /\ LET i == recv[S].sid
       IN  /\ i \notin streams[S]
           /\ streams' = [streams EXCEPT ![S] = @ \cup {i}]
           /\ st' = [st EXCEPT ![S][i] = "live"]
           /\ handler' = [handler EXCEPT ![i] = "addr"]
           /\ IF Cardinality(streams[S]) + 1 >= maxServerStreams
              THEN Answers(<<Refusal(i)>>, Looping(S))
              ELSE Loop(S) /\ UNCHANGED <<life, wire>>
    /\ UNCHANGED <<bufVars, settingsVars, synVars, dataVars, streamId, opener, reported>>

TooManyStreams == Cardinality(streams[S]) >= maxServerStreams

\* The SYN case: no settings yet, a duplicate, too many streams, or a new stream
\* and its handler.  acceptStream does not look at die, so this may come after
\* the sweep of Close.
AcceptStream ==
    /\ recv[S].at = "accept"
    /\ LET i == recv[S].sid
       IN  IF ~gotSettings
           THEN /\ wire' = [wire EXCEPT ![S] = Sent(S, <<Frame("Alert", 0, 0)>>)]
                /\ Returns(S)
                /\ UNCHANGED <<streamVars, handler>>
           ELSE IF i \in streams[S]
           THEN /\ Loop(S)
                /\ UNCHANGED <<life, wire, streamVars, handler>>
           ELSE IF TooManyStreams
           THEN /\ Answers(<<Refusal(i)>>, Looping(S))
                /\ UNCHANGED <<streamVars, handler>>
           ELSE /\ streams' = [streams EXCEPT ![S] = @ \cup {i}]
                /\ st' = [st EXCEPT ![S][i] = "live"]
                /\ handler' = [handler EXCEPT ![i] = "addr"]
                /\ Loop(S)
                /\ UNCHANGED <<life, wire>>
    /\ UNCHANGED <<bufVars, settingsVars, synVars, dataVars, streamId,
                   opener, reported>>

\* Any SYNACK stops the current watcher.  One with an error closes its stream,
\* if that is registered.
RecvSYNACK ==
    /\ Receives(C, "SYNACK")
    /\ LET f == Head(wire[S])
           i == f.sid
       IN  /\ watcher' = [j \in Sids |->
                            IF j = synDone THEN Stopped(watcher[j]) ELSE watcher[j]]
           /\ synDone' = 0
           /\ answered' = answered \cup {<<i, f.data>>}
           /\ IF f.data # 0 /\ i \in streams[C] /\ st[C][i] = "live"
              THEN /\ st' = [st EXCEPT ![C][i] = "closing"]
                   /\ recv' = [recv EXCEPT ![C] = At("close", i, 0)]
              ELSE /\ Loop(C)
                   /\ UNCHANGED st
    /\ Taken(C)
    /\ UNCHANGED <<life, bufVars, streams, settingsVars, dataVars,
                   streamId, opener, handlerVars>>

\* recvLoop has read the settings.
RecvSettings ==
    /\ Receives(S, "Settings")
    /\ recv' = [recv EXCEPT ![S] = At("settings", 0, Head(wire[C]).data)]
    /\ Taken(S)
    /\ UNCHANGED <<life, bufVars, streamVars, settingsVars, synVars,
                   dataVars, streamId, opener, handlerVars>>

\* The Settings case: send the scheme if the client's is another one,
ApplySettings ==
    /\ recv[S].at = "settings"
    /\ gotSettings' = TRUE
    /\ Answers(IF StaleScheme THEN <<Frame("UpdatePaddingScheme", 0, 0)>> ELSE <<>>,
               At("version", 0, recv[S].data))
    /\ UNCHANGED <<bufVars, streamVars, synVars, dataVars, peerVersion,
                   streamId, opener, handlerVars>>

\* then tell a client of version 2 the server's version.
AnnounceVersion ==
    /\ recv[S].at = "version"
    /\ IF recv[S].data >= 2
       THEN /\ peerVersion' = [peerVersion EXCEPT ![S] = recv[S].data]
            /\ Answers(<<Frame("ServerSettings", 0, 2)>>, Looping(S))
       ELSE /\ Loop(S)
            /\ UNCHANGED <<life, wire, peerVersion>>
    /\ UNCHANGED <<bufVars, streamVars, synVars, dataVars, gotSettings,
                   streamId, opener, handlerVars>>

RecvServerSettings ==
    /\ Receives(C, "ServerSettings")
    /\ peerVersion' = [peerVersion EXCEPT ![C] = Head(wire[S]).data]
    /\ Taken(C)
    /\ Loop(C)
    /\ UNCHANGED <<life, bufVars, streamVars, synVars, dataVars,
                   gotSettings, streamId, opener, handlerVars>>

\* The new scheme, if it can be parsed and no debug setting keeps the old one, only
\* changes how the client's frames are cut into records (module Padding).
RecvUpdatePaddingScheme ==
    /\ Receives(C, "UpdatePaddingScheme")
    /\ Taken(C)
    /\ Loop(C)
    /\ UNCHANGED <<life, bufVars, streamVars, synVars, dataVars,
                   peerVersion, gotSettings, streamId, opener, handlerVars>>

-----------------------------------------------------------------------------
(* The server's stream handler (cmd/server/inbound_tcp.go) *)

\* DialTCP returned; HandshakeSuccess or HandshakeFailure (data # 0, the error)
\* tells a client of version 2, even when the stream has been closed meanwhile,
\* unless reportOnce is done.
Handshake(i, data, then) ==
    /\ handler[i] = "dial"
    /\ reported' = reported \cup {i}
    /\ IF i \notin reported /\ peerVersion[S] >= 2
       THEN \/ /\ Written(S, <<Frame("SYNACK", i, data)>>)
               /\ handler' = [handler EXCEPT ![i] = then]
               /\ UNCHANGED life
            \/ /\ NotWritten(S)
               /\ Dies(S)
               /\ handler' = [handler EXCEPT ![i] = "end"]
       ELSE /\ handler' = [handler EXCEPT ![i] = then]
            /\ UNCHANGED <<life, wire, buffer, broken>>
    /\ UNCHANGED <<buffering, streamVars, settingsVars, synVars, dataVars, recv,
                   streamId, opener>>

HandshakeSuccess(i) == Handshake(i, 0, "relay")

HandshakeFailure(i) == Handshake(i, 1, "end")

\* Mutant: no requestTimeout.
HandlerReturnsUntimed(i) ==
    /\ handler[i] \in {"addr", "end", "relay"}
    /\ handler[i] = "addr" => st[S][i] # "live"
    /\ handler' = [handler EXCEPT ![i] = "done"]
    /\ st' = [st EXCEPT ![S][i] = IF @ = "live" THEN "closing" ELSE @]
    /\ UNCHANGED <<connVars, streams, settingsVars, synVars, dataVars, recv,
                   streamId, opener, reported>>

\* The handler returns and its deferred stream.Close() runs dieOnce: the
\* address was not read (the stream was closed, or requestTimeout has passed),
\* the dial failed, or CopyConn is done.
HandlerReturns(i) ==
    /\ handler[i] \in {"addr", "end", "relay"}
    /\ handler' = [handler EXCEPT ![i] = "done"]
    /\ st' = [st EXCEPT ![S][i] = IF @ = "live" THEN "closing" ELSE @]
    /\ UNCHANGED <<connVars, streams, settingsVars, synVars, dataVars, recv,
                   streamId, opener, reported>>

-----------------------------------------------------------------------------

RecvLoop(e) ==
    \/ RecvPSH(e) \/ PipeClosed(e) \/ RecvFIN(e) \/ CloseLocally(e) \/ RecvError(e)
    \/ e = S /\ (RecvSYN \/ AcceptStream)
    \/ e = S /\ (RecvSettings \/ ApplySettings \/ AnnounceVersion)
    \/ e = C /\ (RecvSYNACK \/ RecvServerSettings \/ RecvUpdatePaddingScheme)

Opening(i) == WriteSYN(i) \/ EndBuffering(i) \/ Register(i)

Watching(i) == WatcherDue(i) \/ WatcherSelects(i)

Closing(e, i) == StreamClosed(e, i) \/ StreamDeleted(e, i)

Handling(i) == HandshakeSuccess(i) \/ HandshakeFailure(i) \/ HandlerReturns(i)

Next ==
    \/ OpenStream
    \/ \E e \in Ends : RecvLoop(e) \/ CloseSession(e) \/ CloseSweeps(e)
    \/ \E i \in Sids :
         Opening(i) \/ Watching(i) \/ CloseClientStream(i) \/ Handling(i)
    \/ \E e \in Ends, i \in Sids :
         Write(e, i) \/ WriteDataFrame(e, i) \/ Read(e, i) \/ Closing(e, i)

Spec == Init /\ [][Next]_vars

(* Fairness: runnable goroutines run, timers expire, dials return, and both  *)
(* applications read their streams; a relay ends when its stream is closed.  *)
(* Nobody has to open, write to or close a stream or a session.              *)
FairSpec ==
    /\ Spec
    /\ \A e \in Ends : WF_vars(RecvLoop(e)) /\ WF_vars(CloseSweeps(e))
    /\ \A i \in Sids :
         /\ WF_vars(Opening(i))
         /\ WF_vars(Watching(i))
         /\ WF_vars(Handling(i) /\ (handler[i] = "relay" => st[S][i] # "live"))
    /\ \A e \in Ends, i \in Sids :
         /\ WF_vars(WriteDataFrame(e, i))
         /\ WF_vars(Read(e, i))
         /\ WF_vars(Closing(e, i))

-----------------------------------------------------------------------------
(* Properties *)

\* What is read from a stream is a prefix of what the peer wrote on the stream
\* of the same id, whatever other streams the session carries and however they
\* were closed.
StreamIntegrity ==
    \A e \in Ends, i \in Sids :
      /\ Len(rcvd[e][i]) <= sent[Peer(e)][i]
      /\ \A k \in 1..Len(rcvd[e][i]) : rcvd[e][i][k] = <<i, k>>

\* The direction <<e, i>> of ByteStream is the one of stream i that e reads.
Piece(d, i) == IF d[1] = i THEN d[2] ELSE 0
BS == INSTANCE ByteStream
        WITH Dirs <- Ends \X Sids,
             bsSent <- [d \in Ends \X Sids |-> sent[Peer(d[1])][d[2]]],
             bsRcvd <- [d \in Ends \X Sids |-> [k \in 1..Len(rcvd[d[1]][d[2]]) |->
                                                 Piece(rcvd[d[1]][d[2]][k], d[2])]],
             bsOpen <- [d \in Ends \X Sids |-> st[d[1]][d[2]] \in {"none", "live"}]

\* Frames, settings, closing and failing connections included, each direction of each
\* stream is a ByteStream: what is read is what was written on that stream, in order,
\* each piece once, and nothing is read after the reader has closed.
RefinesByteStream == BS!BSSpec

\* A FIN ends a stream only after everything the peer wrote before it has been
\* read: the pipe has no buffer, so recvLoop cannot reach the FIN earlier.
FinAfterData ==
    \A e \in Ends : recv[e].at = "fin" /\ st[e][recv[e].sid] = "live" =>
                      Len(rcvd[e][recv[e].sid]) = recv[e].data

\* recvLoop has deleted the stream for a FIN and is about to close it.
FinHandled(e, i) == recv[e].at = "fin" /\ recv[e].sid = i

\* While a session is open its map holds exactly the streams that have not been
\* deleted by streamClosed or a FIN: no stream is leaked, and one that is
\* missing is about to be closed by recvLoop.
RegisteredWhileOpen ==
    \A e \in Ends : life[e] = "open" =>
      /\ \A i \in streams[e] : st[e][i] \in {"live", "closing", "finned"}
      /\ \A i \in Sids : st[e][i] = "live" => i \in streams[e] \/ FinHandled(e, i)

\* After Close has swept, the client has no open stream but one that recvLoop
\* is closing: OpenStream tests die under streamLock.
ClientSweepIsFinal ==
    life[C] = "closed" => \A i \in Sids : st[C][i] = "live" => FinHandled(C, i)

\* The server never refuses this client for want of settings: they are buffered
\* first and flushed with the first SYN.
SettingsFirst == \A k \in 1..Len(wire[S]) : wire[S][k].cmd # "Alert"

\* The SYNACKs of stream i, under way or handled.
Told(i) ==
    {<<k, wire[S][k].data>> : k \in {n \in 1..Len(wire[S]) : Is(wire[S][n], "SYNACK", i)}}
    \cup {<<0, a[2]>> : a \in {x \in answered : x[1] = i}}

\* A client of version 2 is told once what became of its SYN, by refuseStream or by
\* the handler's report, and what it is told is true: a stream that is said to have
\* failed is not relayed.
AnsweredOnce ==
    \A i \in Sids :
      /\ Cardinality(Told(i)) <= 1
      /\ \A a \in Told(i) : a[2] # 0 => handler[i] # "relay"

\* Only the watcher of the last SYN can run out, and only while that SYN has no
\* answer: a SYNACK and the next OpenStream stop it.  A watcher that had run out when
\* it was stopped ("race") may still close the session.
AnsweredIsUnwatched ==
    \A i \in Sids : watcher[i] \in {"armed", "due"} =>
      i = synDone /\ <<i, 0>> \notin answered /\ <<i, 1>> \notin answered

\* session.go:417-419, "A v2 client waits for SYNACK and closes the whole
\* session if none arrives": a watcher is called off only by the SYNACK of its
\* own stream or by the next OpenStream.
WatchedUntilAnswered ==
    [][\A i \in Sids :
         watcher[i] = "armed" /\ watcher'[i] = "off" /\ life'[C] # "closed" =>
           streamId' > streamId \/ <<i, 0>> \in answered' \/ <<i, 1>> \in answered']_vars

\* session.go:141, "Close is used to close the session and all streams": on the
\* server, too, no stream is open once Close has swept.
CloseClosesAllStreams ==
    life[S] = "closed" => \A i \in Sids : st[S][i] = "live" => FinHandled(S, i)

\* A frame that ends stream i at the other side is under way.
Ending(e, i) ==
    \E k \in 1..Len(wire[e]) :
      Is(wire[e][k], "FIN", i) \/ (Is(wire[e][k], "SYNACK", i) /\ wire[e][k].data # 0)

\* A stream that one side closes or refuses ends on the other, whatever the other
\* streams do, if it is registered there when the FIN or the SYNACK arrives.  (The
\* client registers a stream after it has sent its SYN: an answer that is faster finds
\* nothing, and the stream stays open.)
PeerLearns ==
    \A e \in Ends, i \in Sids :
      st[e][i] = "live" /\ (st[Peer(e)][i] = "closing" \/ Ending(Peer(e), i))
        ~> st[e][i] # "live"

\* When the server's session dies every handler returns, including that of a
\* stream accepted after the sweep.
HandlersEnd ==
    life[S] # "open" ~> \A i \in Sids : handler[i] \in {"none", "done"}

\* Neither side survives the other's death.
DieTogether == \A e \in Ends : life[e] # "open" ~> life[Peer(e)] = "closed"

=============================================================================
