------------------------------ MODULE Padding -------------------------------
(***************************************************************************)
(* How frames become records (doWriteConn in src/proxy/session/session.go, *)
(* src/proxy/padding, src/limiter/conn.go): a client buffers the first     *)
(* frames, and the first records are cut and filled up to the sizes a      *)
(* scheme gives; on a server with a rate limit what is written waits for   *)
(* the bucket, a control frame outside connLock and data under it, and     *)
(* goes out in chunks.  Bytes are numbers: k > 0 is byte k of the frames,  *)
(* 0 a byte of padding and -d - 1 the header of a waste frame that         *)
(* announces d bytes.                                                      *)
(***************************************************************************)
EXTENDS Integers, Sequences, SequencesExt

CONSTANTS
  Schemes,            \* parsed schemes: [stop, sizes: packet number -> list of ranges]
  FrameLens,          \* lengths of frames
  MaxWrites,          \* bound: calls of doWriteConn
  headerOverHeadSize, \* bytes of a frame header
  LenMod,             \* 2^16, the length field of a header
  StopMod,            \* 2^32, PaddingFactory.Stop
  Bursts              \* bursts of the bucket, 0 for no limit

ASSUME PaddingAssumption ==
  /\ MaxWrites \in Nat /\ LenMod \in Nat \ {0} /\ StopMod \in Nat \ {0}
  /\ FrameLens \subseteq Nat \ {0} /\ Bursts \subseteq Nat

CheckMark == -1
Check == <<CheckMark, CheckMark>>  \* "c" in a scheme; any other range is <<min, max>>

VARIABLES
  scheme,       \* s.padding
  burst,        \* burst of the up bucket
  sendPadding,  \* s.sendPadding
  pktCounter,   \* s.pktCounter
  buffering, buffer,
  wb,           \* doWriteConn: b, what is left of the payload
  sizes,        \* pktSizes that are left
  padPc,        \* "idle", "sizes", "rest" or, after an error, "failed"
  broken,       \* the connection has failed
  wire,         \* everything written to the connection
  produced,     \* bytes of frames given to doWriteConn so far
  writes,       \* calls so far
  need,         \* bytes the running call still has to wait for
  control,      \* writeControlFrame: a frame that waits for the bucket
  granted       \* bytes the bucket has let pass

limitVars == <<burst, need, control, granted>>
padVars == <<scheme, sendPadding, pktCounter, buffering, buffer, wb, sizes, padPc,
             broken, wire, produced, writes, limitVars>>

NoFrame == [len |-> 0, need |-> 0]

PadInit ==
  /\ scheme \in Schemes /\ burst \in Bursts
  /\ sendPadding \in BOOLEAN  \* the client pads, the server does not
  /\ burst > 0 => ~sendPadding  \* and only the server limits
  /\ need = 0 /\ control = NoFrame /\ granted = 0
  /\ pktCounter = 0
  /\ buffering = sendPadding /\ buffer = <<>>
  /\ wb = <<>> /\ sizes = <<>> /\ padPc = "idle"
  /\ broken = FALSE /\ wire = <<>> /\ produced = 0 /\ writes = 0

\* NewPaddingFactory: the stop value is cut to its width.
Stop == scheme.stop % StopMod

\* GenerateRecordPayloadSizes: one size for each range that makes sense, between its
\* limits without the upper one, and the check marks in between.
SizesOf(range) ==
  LET lo == IF range[1] < range[2] THEN range[1] ELSE range[2]
      hi == IF range[1] < range[2] THEN range[2] ELSE range[1]
  IN IF range = Check THEN {<<CheckMark>>}
     ELSE IF lo <= 0 THEN {<<>>}
     ELSE IF lo = hi THEN {<<lo>>}
     ELSE {<<x>> : x \in lo..(hi - 1)}

GenerateRecordPayloadSizes(pkt) ==
  IF pkt \notin DOMAIN scheme.sizes THEN {<<>>}
  ELSE LET ranges == scheme.sizes[pkt]
           f[i \in 0..Len(ranges)] ==
             IF i = 0 THEN {<<>>} ELSE {s \o x : s \in f[i - 1], x \in SizesOf(ranges[i])}
       IN f[Len(ranges)]

\* A frame of l bytes of waste.
WasteCountsHeader(l) == <<-((l + headerOverHeadSize) % LenMod) - 1>> \o [i \in 1..l |-> 0]
Waste(l) == <<-(l % LenMod) - 1>> \o [i \in 1..l |-> 0]

\* A record goes out, or it is an error and nothing can be written any more.
WriteRecord(rec, left, rest, then) ==
  \/ /\ ~broken
     /\ wire' = wire \o rec /\ wb' = left /\ sizes' = rest /\ padPc' = then
  \/ /\ broken
     /\ wb' = <<>> /\ sizes' = <<>> /\ padPc' = "failed" /\ UNCHANGED wire

-----------------------------------------------------------------------------
\* What a write to limitedConn waits for: Write for its bytes, WriteUnlimited for nothing.
ChargedTwice(bypassLimit, n) == n
Charged(bypassLimit, n) == IF bypassLimit THEN 0 ELSE n

\* doWriteConn takes a frame: it is buffered, or goes out behind what was buffered, cut
\* into records while pkt < Stop.
DoWriteConn(len, bypassLimit) ==
  /\ padPc = "idle" /\ writes < MaxWrites
  /\ writes' = writes + 1 /\ produced' = produced + len
  /\ LET b == buffer \o [i \in 1..len |-> produced + i] IN
     IF buffering
     THEN buffer' = b /\ UNCHANGED <<sendPadding, pktCounter, wb, sizes, padPc, need>>
     ELSE /\ buffer' = <<>> /\ wb' = b
          /\ need' = IF burst > 0 THEN Charged(bypassLimit, Len(b)) ELSE 0
          /\ IF sendPadding
             THEN /\ pktCounter' = pktCounter + 1
                  /\ IF pktCounter + 1 < Stop
                     THEN /\ padPc' = "sizes" /\ UNCHANGED sendPadding
                          /\ sizes' \in GenerateRecordPayloadSizes(pktCounter + 1)
                     ELSE sendPadding' = FALSE /\ padPc' = "rest" /\ sizes' = <<>>
             ELSE padPc' = "rest" /\ UNCHANGED <<sendPadding, pktCounter, sizes>>
  /\ UNCHANGED <<scheme, buffering, broken, wire, burst, granted>>

\* writeConn, for data, and for control frames where there is no limit.
WriteConn(len) == DoWriteConn(len, FALSE) /\ UNCHANGED control

\* writeControlFrame with a limit: a frame waits for the bucket, then goes out bypassing it.
WriteControlFrame(len) ==
  /\ burst > 0 /\ control = NoFrame /\ padPc # "failed" /\ writes < MaxWrites
  /\ control' = [len |-> len, need |-> len]
  /\ UNCHANGED <<scheme, sendPadding, pktCounter, buffering, buffer, wb, sizes, padPc, broken, wire,
                 produced, writes, burst, need, granted>>

WriteControlBypass ==
  /\ control # NoFrame /\ control.need = 0
  /\ DoWriteConn(control.len, TRUE)
  /\ control' = NoFrame

-----------------------------------------------------------------------------
\* limitedConn.  The loops of WaitWrite and WriteUnlimited go by chunks.
Chunk(n) == IF n > burst THEN burst ELSE n

\* rate.Limiter.WaitN: an error for more than the burst, and when Close has cancelled.
WaitN(n) == n <= burst /\ ~broken

PadFails ==
  /\ padPc' = "failed" /\ wb' = <<>> /\ sizes' = <<>> /\ need' = 0 /\ control' = NoFrame

\* WaitWrite of a control frame, outside connLock.
WaitControl ==
  /\ control.need > 0 /\ padPc # "failed"
  /\ LET n == Chunk(control.need) IN
     \/ /\ WaitN(n)
        /\ control' = [control EXCEPT !.need = @ - n] /\ granted' = granted + n
        /\ UNCHANGED <<padPc, wb, sizes, need>>
     \/ ~WaitN(n) /\ PadFails /\ UNCHANGED granted
  /\ UNCHANGED <<scheme, sendPadding, pktCounter, buffering, buffer, broken, wire, produced, writes, burst>>

\* WaitWrite in Write
WaitWrite ==
  /\ padPc = "rest" /\ need > 0
  /\ LET n == Chunk(need) IN
     \/ /\ WaitN(n)
        /\ need' = need - n /\ granted' = granted + n
        /\ UNCHANGED <<padPc, wb, sizes, control>>
     \/ ~WaitN(n) /\ PadFails /\ UNCHANGED granted
  /\ UNCHANGED <<scheme, sendPadding, pktCounter, buffering, buffer, broken, wire, produced, writes, burst>>

\* One chunk of WriteUnlimited
WriteUnlimited ==
  /\ padPc = "rest" /\ burst > 0 /\ need = 0
  /\ LET n == Chunk(Len(wb)) IN
     \/ /\ ~broken
        /\ wire' = wire \o SubSeq(wb, 1, n) /\ wb' = SubSeq(wb, n + 1, Len(wb))
        /\ padPc' = IF n = Len(wb) THEN "idle" ELSE "rest"
        /\ UNCHANGED <<sizes, need, control>>
     \/ broken /\ PadFails /\ UNCHANGED wire
  /\ UNCHANGED <<scheme, sendPadding, pktCounter, buffering, buffer, broken, produced, writes, burst, granted>>

-----------------------------------------------------------------------------
\* One size of the scheme.
PadRecord ==
  /\ padPc = "sizes" /\ sizes # <<>>
  /\ LET l == Head(sizes) rest == Tail(sizes) n == Len(wb) IN
     \/ /\ l = CheckMark
        /\ sizes' = IF n = 0 THEN <<>> ELSE rest
        /\ UNCHANGED <<wire, wb, padPc>>
     \/ /\ l # CheckMark /\ n > l  \* all payload
        /\ WriteRecord(SubSeq(wb, 1, l), SubSeq(wb, l + 1, n), rest, "sizes")
     \/ /\ l # CheckMark /\ n \in 1..l  \* the last of the payload, and padding
        /\ LET paddingLen == l - n - headerOverHeadSize IN
           WriteRecord(IF paddingLen > 0 THEN wb \o Waste(paddingLen) ELSE wb, <<>>, rest, "sizes")
     \/ /\ l # CheckMark /\ n = 0  \* all padding
        /\ WriteRecord(Waste(l), <<>>, rest, "sizes")
  /\ UNCHANGED <<scheme, sendPadding, pktCounter, buffering, buffer, broken, produced, writes, limitVars>>

\* The sizes are used up, or there are none: what remains goes out as it is.
PadRest ==
  /\ \/ padPc = "sizes" /\ sizes = <<>> /\ wb = <<>> /\ padPc' = "idle" /\ UNCHANGED <<wire, wb, sizes>>
     \/ padPc = "sizes" /\ sizes = <<>> /\ wb # <<>> /\ WriteRecord(wb, <<>>, <<>>, "idle")
     \/ padPc = "rest" /\ burst = 0 /\ WriteRecord(wb, <<>>, <<>>, "idle")
  /\ UNCHANGED <<scheme, sendPadding, pktCounter, buffering, buffer, broken, produced, writes, limitVars>>

\* OpenStream ends the buffering.
EndBuffering ==
  /\ buffering /\ buffer # <<>> /\ buffering' = FALSE
  /\ UNCHANGED <<scheme, sendPadding, pktCounter, buffer, wb, sizes, padPc, broken, wire, produced, writes, limitVars>>

\* recvLoop of a client stores a scheme that it could parse, unless a debug setting keeps
\* the old one; when the client has ceased to pad it no longer matters.
UpdatePaddingScheme ==
  /\ sendPadding
  /\ \E s \in Schemes : s # scheme /\ scheme' = s
  /\ UNCHANGED <<sendPadding, pktCounter, buffering, buffer, wb, sizes, padPc, broken, wire, produced, writes, limitVars>>

\* The connection fails or is closed.
ConnBreaks ==
  /\ ~broken /\ broken' = TRUE
  /\ UNCHANGED <<scheme, sendPadding, pktCounter, buffering, buffer, wb, sizes, padPc, wire, produced, writes, limitVars>>

PadNext ==
  \/ \E len \in FrameLens : WriteConn(len) \/ WriteControlFrame(len)
  \/ WriteControlBypass \/ WaitControl \/ WaitWrite \/ WriteUnlimited
  \/ PadRecord \/ PadRest \/ EndBuffering \/ UpdatePaddingScheme \/ ConnBreaks

-----------------------------------------------------------------------------
\* What the peer's recvLoop makes of the bytes: waste is skipped by its length field.
Parsed ==
  FoldLeft(LAMBDA acc, x :
             IF acc.skip > 0 THEN [acc EXCEPT !.skip = @ - 1, !.ok = acc.ok /\ x = 0]
             ELSE IF x < 0 THEN [acc EXCEPT !.skip = -x - 1]
             ELSE [acc EXCEPT !.got = @ + 1, !.ok = acc.ok /\ x = acc.got + 1],
           [skip |-> 0, got |-> 0, ok |-> TRUE], wire)

\* The sizes of every scheme fit the length field of a waste frame.
SizesFit ==
  \A s \in Schemes : \A pkt \in DOMAIN s.sizes : \A i \in DOMAIN s.sizes[pkt] :
    \A x \in {1, 2} : s.sizes[pkt][i][x] < LenMod

\* Padding and the rate limit are transparent: for schemes whose sizes fit the length
\* field, whenever one stops or is replaced, and however the limit cuts what is written,
\* the peer finds the bytes of the frames in their order and nothing else, all of them
\* between two calls, and a write fails only when the connection does
\* (proxy/session/session.go:504-593, limiter/conn.go:59-108).
PaddingTransparent ==
  SizesFit =>
    /\ Parsed.ok /\ Parsed.skip = 0
    /\ padPc # "failed" => Parsed.got + Len(wb) + Len(buffer) = produced
    /\ padPc = "idle" => wb = <<>>
    /\ padPc = "failed" => broken

\* The limit holds, and each byte is charged once: nothing is written before the bucket
\* has granted it, and when no write is under way it has granted no more than was
\* written, although control frames wait outside connLock while data is being written
\* (limiter/conn.go:87-88 "must have already acquired tokens via WaitWrite").
LimitExact ==
  burst > 0 =>
    /\ Len(wire) <= granted
    /\ padPc = "idle" /\ control = NoFrame => granted = Len(wire)
=============================================================================
