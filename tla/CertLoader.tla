----------------------------- MODULE CertLoader -----------------------------
(***************************************************************************)
(* FileCertificateLoader (src/util/tls_cert.go): handshakes get the        *)
(* certificate from memory, and one of them now and then looks whether the *)
(* two files have changed and loads them.  Whoever renews the certificate  *)
(* rewrites the two files in place, one after the other.  A file's content *)
(* is the version of its pair, 0 while it is being written; its mtime is   *)
(* the clock at the last write.                                            *)
(***************************************************************************)
EXTENDS Naturals

CONSTANTS
  Handshakes,  \* goroutines in GetCertificate
  LastVersion  \* bound: version of the last renewal, the first being 1

ASSUME CertAssumption == LastVersion \in Nat \ {0}

VARIABLES
  files,      \* "cert" and "key": [ver, mtime]
  clock,      \* writes so far
  due,        \* lastCheck lies more than checkInterval back
  served,     \* l.cert: version of the pair
  certTime,   \* l.modTime
  hs          \* per handshake: [pc, mtime, ver], what it has seen of the files

certVars == <<files, clock, due, served, certTime, hs>>

Later(a, b) == IF b > a THEN b ELSE a
HsIdle == [pc |-> "idle", mtime |-> 0, ver |-> 0]

\* NewFileCertificateLoader has loaded the first pair.
CertInit ==
  /\ files = [f \in {"cert", "key"} |-> [ver |-> 1, mtime |-> 0]]
  /\ clock = 0 /\ due = FALSE
  /\ served = 1 /\ certTime = 0
  /\ hs = [h \in Handshakes |-> HsIdle]

\* The renewal: the certificate is cut and written, then the key.
Renew ==
  /\ clock < 4 * (LastVersion - 1)
  /\ clock' = clock + 1
  /\ LET f == IF clock % 4 < 2 THEN "cert" ELSE "key" IN
     files' = [files EXCEPT ![f] = [ver |-> IF clock % 2 = 0 THEN 0 ELSE 2 + clock \div 4,
                                    mtime |-> clock + 1]]
  /\ UNCHANGED <<due, served, certTime, hs>>

IntervalPasses == ~due /\ due' = TRUE /\ UNCHANGED <<files, clock, served, certTime, hs>>

HsAt(h, pc, mtime, ver) == hs' = [hs EXCEPT ![h] = [pc |-> pc, mtime |-> mtime, ver |-> ver]]

\* GetCertificate: dueForCheck lets one handshake per interval through; the others are
\* given l.cert and change nothing.
GetCertificate(h) ==
  /\ hs[h].pc = "idle" /\ due
  /\ due' = FALSE
  /\ HsAt(h, "statCert", 0, 0)
  /\ UNCHANGED <<files, clock, served, certTime>>

\* certKeyModTime, in reloadIfChanged and again in reload.
Stat(h) ==
  /\ \/ hs[h].pc = "statCert" /\ HsAt(h, "statKey", files["cert"].mtime, 0)
     \/ hs[h].pc = "statKey" /\ HsAt(h, "compare", Later(hs[h].mtime, files["key"].mtime), 0)
     \/ hs[h].pc = "statCert2" /\ HsAt(h, "statKey2", files["cert"].mtime, 0)
     \/ hs[h].pc = "statKey2" /\ HsAt(h, "readCert", Later(hs[h].mtime, files["key"].mtime), 0)
  /\ UNCHANGED <<files, clock, due, served, certTime>>

Compare(h) ==
  /\ hs[h].pc = "compare"
  /\ IF hs[h].mtime > certTime THEN HsAt(h, "statCert2", 0, 0) ELSE hs' = [hs EXCEPT ![h] = HsIdle]
  /\ UNCHANGED <<files, clock, due, served, certTime>>

ReadCert(h) ==
  /\ hs[h].pc = "readCert"
  /\ HsAt(h, "readKey", hs[h].mtime, files["cert"].ver)
  /\ UNCHANGED <<files, clock, due, served, certTime>>

\* The key is read and X509KeyPair fits the two together; if it cannot, the error is
\* logged and the handshake gets the last good certificate.
ReadKey(h) ==
  /\ hs[h].pc = "readKey"
  /\ IF hs[h].ver # 0 /\ files["key"].ver = hs[h].ver
     THEN HsAt(h, "store", hs[h].mtime, hs[h].ver) ELSE hs' = [hs EXCEPT ![h] = HsIdle]
  /\ UNCHANGED <<files, clock, due, served, certTime>>

StoreNow(h) ==
  /\ hs[h].pc = "store"
  /\ served' = hs[h].ver /\ certTime' = clock
  /\ hs' = [hs EXCEPT ![h] = HsIdle]
  /\ UNCHANGED <<files, clock, due>>

Store(h) ==
  /\ hs[h].pc = "store"
  /\ served' = hs[h].ver /\ certTime' = hs[h].mtime
  /\ hs' = [hs EXCEPT ![h] = HsIdle]
  /\ UNCHANGED <<files, clock, due>>

HsStep(h) == Stat(h) \/ Compare(h) \/ ReadCert(h) \/ ReadKey(h) \/ Store(h)

CertNext == Renew \/ IntervalPasses \/ \E h \in Handshakes : GetCertificate(h) \/ HsStep(h)

\* Time passes, handshakes keep coming, each goes on; a renewal that is begun is ended.
\* Before the first renewal nothing depends on it.
CertFairness ==
  /\ WF_certVars(Renew /\ clock % 4 # 0) /\ WF_certVars(clock > 0 /\ IntervalPasses)
  /\ WF_certVars(\E h \in Handshakes : GetCertificate(h))
  /\ \A h \in Handshakes : WF_certVars(HsStep(h))

-----------------------------------------------------------------------------
\* After a renewal the new pair is served in the end and from then on, whichever of the
\* files a reload met half-written and although a slow reload may put an older pair
\* back after a newer one: the mtime that is stored is never later than the content it
\* stands for (util/tls_cert.go:86-122).
CertCatchesUp == <>[](clock % 4 = 0 => served = 1 + clock \div 4)
=============================================================================
