----------------------------- MODULE ByteStream -----------------------------
(***************************************************************************)
(* What the directions of the streams of a session promise, whatever       *)
(* carries them: each reader gets what its writer has sent, from the first *)
(* piece on, in order, each once; how much of it is open, and a reader     *)
(* that has closed gets nothing more.  Pieces are numbered as they are     *)
(* sent.                                                                   *)
(***************************************************************************)
EXTENDS Naturals, Sequences

CONSTANT Dirs   \* the directions

VARIABLES
  bsSent,   \* number of pieces sent
  bsRcvd,   \* pieces the reader has got
  bsOpen    \* the reader has not closed

bsVars == <<bsSent, bsRcvd, bsOpen>>

BSTypeOK == bsSent \in [Dirs -> Nat] /\ bsRcvd \in [Dirs -> Seq(Nat)] /\ bsOpen \in [Dirs -> BOOLEAN]

BSInit == bsSent = [d \in Dirs |-> 0] /\ bsRcvd = [d \in Dirs |-> <<>>] /\ bsOpen = [d \in Dirs |-> TRUE]

BSSend(d) == bsSent'[d] = bsSent[d] + 1 /\ bsRcvd'[d] = bsRcvd[d] /\ bsOpen'[d] = bsOpen[d]

BSDeliver(d) ==
  /\ bsOpen[d] /\ Len(bsRcvd[d]) < bsSent[d]
  /\ bsRcvd'[d] = Append(bsRcvd[d], Len(bsRcvd[d]) + 1)
  /\ bsSent'[d] = bsSent[d] /\ bsOpen'[d] = bsOpen[d]

BSClose(d) == bsOpen[d] /\ ~bsOpen'[d] /\ bsSent'[d] = bsSent[d] /\ bsRcvd'[d] = bsRcvd[d]

BSIdle(d) == bsSent'[d] = bsSent[d] /\ bsRcvd'[d] = bsRcvd[d] /\ bsOpen'[d] = bsOpen[d]

\* The end of a session closes several directions at once.
BSNext == BSTypeOK' /\ \A d \in Dirs : BSSend(d) \/ BSDeliver(d) \/ BSClose(d) \/ BSIdle(d)

BSSpec == BSInit /\ [][BSNext]_bsVars
=============================================================================
