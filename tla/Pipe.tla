-------------------------------- MODULE Pipe --------------------------------
(***************************************************************************)
(* The pipe between recvLoop and the reader of a stream, with its          *)
(* deadlines (src/proxy/pipe).  Reads and writes meet at two unbuffered    *)
(* channels, wrCh for the data and rdCh for the count taken; each select   *)
(* also waits for done and for the deadline's channel as it was when Wait  *)
(* returned it.  A goroutine is a reader, a writer, a closer of one end or *)
(* a setter of deadlines.                                                  *)
(***************************************************************************)
EXTENDS Naturals, Sequences, FiniteSets

CONSTANTS
  Readers, Writers, Setters,  \* goroutines
  WriteLens, BufLens,         \* lengths of the slices given to Write and Read
  MaxSets                     \* bound: calls of Set

ASSUME PipeAssumption ==
  /\ WriteLens \subseteq Nat /\ BufLens \subseteq Nat \ {0} /\ MaxSets \in Nat

Sides == {"r", "w"}
NoOne == "none"
NotSetting == [pc |-> "idle", side |-> "r", t |-> "zero", wait |-> FALSE]

VARIABLES
  pipeDone,  \* done is closed
  wrMu,      \* holder of wrMu
  rd, wr,    \* progress of the Read and the Write call of a goroutine
  out,       \* history: bytes readers took, as <<writer, position>>
  dl,        \* per side: PipeDeadline: holder of mu, timer, cancel (a channel's number)
  closedCh,  \* closed cancel channels
  nextCh,    \* channels made so far
  callback,  \* sides whose timer callback is about to run
  panicked,  \* a channel was closed twice
  setter,    \* progress of Set
  sets       \* calls of Set so far

pipeVars == <<pipeDone, wrMu, rd, wr, out, dl, closedCh, nextCh,
              callback, panicked, setter, sets>>
dlVars == <<dl, closedCh, nextCh, callback, panicked, setter, sets>>

PipeInit ==
  /\ pipeDone = FALSE
  /\ wrMu = NoOne
  /\ rd = [r \in Readers |-> [pc |-> "idle", ch |-> 0, max |-> 0, n |-> 0]]
  /\ wr = [w \in Writers |-> [pc |-> "idle", ch |-> 0, len |-> 0, n |-> 0]]
  /\ out = <<>>
  /\ dl = [s \in Sides |-> [mu |-> NoOne, timer |-> "none", cancel |-> IF s = "r" THEN 1 ELSE 2]]
  /\ closedCh = {} /\ nextCh = 2
  /\ callback = {} /\ panicked = FALSE
  /\ setter = [p \in Setters |-> NotSetting]
  /\ sets = 0

-----------------------------------------------------------------------------
\* PipeDeadline.Wait: the channel to wait for, once mu is free.
Waits(s) == dl[s].mu = NoOne
CurrentCh(s) == dl[s].cancel

\* A select that waits for channel ch may return an error: done or ch is closed.
\* Which error is the caller's business.
MayFail(ch) == pipeDone \/ ch \in closedCh

\* read: a look at done and the deadline, then the select.
ReadCall(r) ==
  /\ rd[r].pc = "idle" /\ Waits("r")
  /\ \E max \in BufLens :
       rd' = [rd EXCEPT ![r] = [pc |-> "poll", ch |-> CurrentCh("r"), max |-> max, n |-> 0]]
  /\ UNCHANGED <<pipeDone, wrMu, wr, out, dlVars>>

ReadReturns(r) == rd' = [rd EXCEPT ![r] = [pc |-> "idle", ch |-> 0, max |-> 0, n |-> 0]]

ReadPoll(r) ==
  /\ rd[r].pc = "poll"
  /\ IF MayFail(rd[r].ch) THEN ReadReturns(r) ELSE rd' = [rd EXCEPT ![r].pc = "arm", ![r].ch = 0]
  /\ UNCHANGED <<pipeDone, wrMu, wr, out, dlVars>>

ReadArm(r) ==
  /\ rd[r].pc = "arm" /\ Waits("r")
  /\ rd' = [rd EXCEPT ![r].pc = "select", ![r].ch = CurrentCh("r")]
  /\ UNCHANGED <<pipeDone, wrMu, wr, out, dlVars>>

ReadGivesUp(r) ==
  /\ rd[r].pc = "select" /\ MayFail(rd[r].ch)
  /\ ReadReturns(r)
  /\ UNCHANGED <<pipeDone, wrMu, wr, out, dlVars>>

\* write: the same look, then wrMu, then a select for each piece.  The first round is
\* made for an empty slice too.
WriteCall(w) ==
  /\ wr[w].pc = "idle" /\ wr[w].len = 0 /\ Waits("w")  \* bound: one call for each writer
  /\ \E len \in WriteLens :
       wr' = [wr EXCEPT ![w] = [pc |-> "poll", ch |-> CurrentCh("w"), len |-> len, n |-> 0]]
  /\ UNCHANGED <<pipeDone, wrMu, rd, out, dlVars>>

WriteReturns(w) ==
  /\ wr' = [wr EXCEPT ![w].pc = "idle", ![w].ch = 0]
  /\ wrMu' = IF wrMu = w THEN NoOne ELSE wrMu

WritePoll(w) ==
  /\ wr[w].pc = "poll"
  /\ IF MayFail(wr[w].ch) THEN WriteReturns(w)
     ELSE wr' = [wr EXCEPT ![w].pc = "lock", ![w].ch = 0] /\ UNCHANGED wrMu
  /\ UNCHANGED <<pipeDone, rd, out, dlVars>>

WriteLockNot(w) ==
  /\ wr[w].pc = "lock"
  /\ wr' = [wr EXCEPT ![w].pc = "arm"]
  /\ UNCHANGED <<pipeDone, wrMu, rd, out, dlVars>>

WriteLock(w) ==
  /\ wr[w].pc = "lock" /\ wrMu = NoOne
  /\ wrMu' = w
  /\ wr' = [wr EXCEPT ![w].pc = "arm"]
  /\ UNCHANGED <<pipeDone, rd, out, dlVars>>

WriteArm(w) ==
  /\ wr[w].pc = "arm" /\ Waits("w")
  /\ wr' = [wr EXCEPT ![w].pc = "select", ![w].ch = CurrentCh("w")]
  /\ UNCHANGED <<pipeDone, wrMu, rd, out, dlVars>>

WriteGivesUpLate(w) ==
  /\ wr[w].pc = "select" /\ wr[w].ch \in closedCh
  /\ WriteReturns(w)
  /\ UNCHANGED <<pipeDone, rd, out, dlVars>>

WriteGivesUp(w) ==
  /\ wr[w].pc = "select" /\ MayFail(wr[w].ch)
  /\ WriteReturns(w)
  /\ UNCHANGED <<pipeDone, rd, out, dlVars>>

\* wrCh: a writer and a reader that are both in their select meet, and the reader
\* copies as much as its slice holds.
Transfer(r, w) ==
  /\ rd[r].pc = "select" /\ wr[w].pc = "select"
  /\ LET left == wr[w].len - wr[w].n
         nr == IF rd[r].max < left THEN rd[r].max ELSE left
     IN /\ rd' = [rd EXCEPT ![r].pc = "ack", ![r].ch = 0, ![r].n = nr]
        /\ out' = out \o [k \in 1..nr |-> <<w, wr[w].n + k>>]
  /\ wr' = [wr EXCEPT ![w].pc = "ack", ![w].ch = 0]
  /\ UNCHANGED <<pipeDone, wrMu, dlVars>>

\* rdCh: the reader tells the writer how much it took, and each goes on.
Acknowledge(r, w) ==
  /\ rd[r].pc = "ack" /\ wr[w].pc = "ack"
  /\ LET n == wr[w].n + rd[r].n IN
     IF n < wr[w].len
     THEN wr' = [wr EXCEPT ![w].pc = "arm", ![w].n = n] /\ UNCHANGED wrMu
     ELSE /\ wr' = [wr EXCEPT ![w] = [@ EXCEPT !.pc = "idle", !.n = n]]
          /\ wrMu' = IF wrMu = w THEN NoOne ELSE wrMu
  /\ ReadReturns(r)
  /\ UNCHANGED <<pipeDone, out, dlVars>>

\* closeRead or closeWrite: whoever comes first closes done.
CloseDone ==
  /\ ~pipeDone
  /\ pipeDone' = TRUE
  /\ UNCHANGED <<wrMu, rd, wr, out, dlVars>>

-----------------------------------------------------------------------------
\* SetReadDeadline and SetWriteDeadline: refused on a closed pipe, else Set.
SetCall(p, s, t) ==
  /\ setter[p].pc = "idle" /\ sets < MaxSets /\ ~pipeDone
  /\ setter' = [setter EXCEPT ![p] = [pc |-> "lock", side |-> s, t |-> t, wait |-> FALSE]]
  /\ sets' = sets + 1
  /\ UNCHANGED <<pipeDone, wrMu, rd, wr, out, dl, closedCh, nextCh, callback, panicked>>

\* Set takes mu and stops the timer; it has to wait if the timer has fired already.
SetLock(p) ==
  LET s == setter[p].side IN
  /\ setter[p].pc = "lock" /\ dl[s].mu = NoOne
  /\ dl' = [dl EXCEPT ![s].mu = p, ![s].timer = "none"]
  /\ setter' = [setter EXCEPT ![p].pc = "apply", ![p].wait = (dl[s].timer = "fired")]
  /\ UNCHANGED <<pipeDone, wrMu, rd, wr, out, closedCh, nextCh, callback, panicked, sets>>

\* The channel s has after Set: a new one in place of a closed one, unless the time is
\* in the past.
SetChannelAlways(s, t) == IF t = "past" THEN dl[s].cancel ELSE nextCh + 1

SetChannel(s, t) == IF t = "past" \/ dl[s].cancel \notin closedCh THEN dl[s].cancel ELSE nextCh + 1

\* The rest of Set: no deadline, a timer, or a deadline that has passed; mu is let go.
SetApply(p) ==
  LET s == setter[p].side t == setter[p].t ch == SetChannel(s, t) IN
  /\ setter[p].pc = "apply"
  /\ setter[p].wait => dl[s].cancel \in closedCh
  /\ dl' = [dl EXCEPT ![s] = [mu |-> NoOne, cancel |-> ch,
                              timer |-> IF t = "future" THEN "pending" ELSE "none"]]
  /\ nextCh' = IF ch = nextCh + 1 THEN ch ELSE nextCh
  /\ closedCh' = IF t = "past" THEN closedCh \cup {ch} ELSE closedCh
  /\ setter' = [setter EXCEPT ![p] = NotSetting]
  /\ UNCHANGED <<pipeDone, wrMu, rd, wr, out, callback, panicked, sets>>

\* The timer fires; its callback closes the channel d.cancel then names, without mu.
TimerFires(s) ==
  /\ dl[s].timer = "pending"
  /\ dl' = [dl EXCEPT ![s].timer = "fired"]
  /\ callback' = callback \cup {s}
  /\ UNCHANGED <<pipeDone, wrMu, rd, wr, out, closedCh, nextCh, panicked, setter, sets>>

TimerCloses(s) ==
  /\ s \in callback
  /\ callback' = callback \ {s}
  /\ panicked' = (panicked \/ dl[s].cancel \in closedCh)
  /\ closedCh' = closedCh \cup {dl[s].cancel}
  /\ UNCHANGED <<pipeDone, wrMu, rd, wr, out, dl, nextCh, setter, sets>>

-----------------------------------------------------------------------------
ReadStep(r) == ReadPoll(r) \/ ReadArm(r) \/ ReadGivesUp(r)
WriteStep(w) == WritePoll(w) \/ WriteLock(w) \/ WriteArm(w) \/ WriteGivesUp(w)
SetStep(p) == SetLock(p) \/ SetApply(p)
Timer(s) == TimerFires(s) \/ TimerCloses(s)

PipeNext ==
  \/ \E r \in Readers : ReadCall(r) \/ ReadStep(r)
  \/ \E w \in Writers : WriteCall(w) \/ WriteStep(w)
  \/ \E r \in Readers, w \in Writers : Transfer(r, w) \/ Acknowledge(r, w)
  \/ CloseDone \/ (\E s \in Sides : Timer(s))
  \/ \E p \in Setters : SetStep(p) \/ (\E s \in Sides, t \in {"zero", "future", "past"} : SetCall(p, s, t))

\* Goroutines and timers run; nobody has to call Read, Write, Close or Set.
PipeFairness ==
  /\ \A r \in Readers : WF_pipeVars(ReadStep(r))
  /\ \A w \in Writers : WF_pipeVars(WriteStep(w))
  /\ \A r \in Readers, w \in Writers : WF_pipeVars(Acknowledge(r, w))
  /\ \A s \in Sides : WF_pipeVars(Timer(s))
  /\ \A p \in Setters : WF_pipeVars(SetStep(p))

-----------------------------------------------------------------------------
\* A Read or Write that waits would see the deadline it is to obey pass: the channel it
\* took from Wait is the current one or is closed already, however often Set is called
\* meanwhile; and the timer's callback never closes a channel a second time, which
\* would panic (proxy/pipe/deadline.go:26-65).
WaiterSeesDeadline ==
  /\ \A r \in Readers : rd[r].pc = "select" => rd[r].ch \in closedCh \cup {dl["r"].cancel}
  /\ \A w \in Writers : wr[w].pc = "select" => wr[w].ch \in closedCh \cup {dl["w"].cancel}
  /\ ~panicked

\* Parallel writes are gated: what readers took is, write by write, a prefix of what it
\* wrote, without another's bytes in between, and of the length Write returns, whichever
\* closes and deadlines end it early (proxy/pipe/io_pipe.go:82-106, 194-204).
PipeGated ==
  /\ \A i \in 1..Len(out) : out[i][2] = 1 \/ (i > 1 /\ out[i - 1] = <<out[i][1], out[i][2] - 1>>)
  /\ \A w \in Writers : wr[w].pc # "ack" =>
       wr[w].n = Cardinality({i \in 1..Len(out) : out[i][1] = w})

\* Nobody stays blocked in a pipe that has been closed: every Read and Write returns,
\* one that waits for wrMu or is in the middle of a transfer included.  A session that
\* closes its streams releases its recvLoop this way (proxy/pipe/io_pipe.go:73-115).
PipeCallsEnd ==
  /\ \A r \in Readers : (pipeDone /\ rd[r].pc # "idle") ~> rd[r].pc = "idle"
  /\ \A w \in Writers : (pipeDone /\ wr[w].pc # "idle") ~> wr[w].pc = "idle"
=============================================================================
