----------------------------- MODULE GeoLoader ------------------------------
(***************************************************************************)
(* FileGeoLoader (src/acl/geoloader.go): the two databases are loaded when *)
(* a rule first needs them and downloaded when there is no file, an empty  *)
(* one, an old one or a broken one.  The process may be stopped at any     *)
(* point and started again.                                                *)
(***************************************************************************)

DBs == {"geoip", "geosite"}
Contents == {"good", "broken", "empty"}

VARIABLES
  geoAuto,  \* no file name is configured: autoDL
  geoFile,  \* the file: "missing" or its content
  geoOld,   \* older than the update interval
  geoMap,   \* geoipMap and geositeMap: "nil" or the content loaded
  geoTmp,   \* the temporary file of a download, "missing" when there is none
  geoPc,    \* progress of LoadGeoIP and LoadGeoSite
  geoHad    \* the databases of which there has been a file that can be loaded

geoVars == <<geoAuto, geoFile, geoOld, geoMap, geoTmp, geoPc, geoHad>>

Loadable(content) == content \in {"good", "empty"}  \* v2geo.LoadGeoIP, LoadGeoSite

GeoInit ==
  /\ geoAuto \in [DBs -> BOOLEAN]
  /\ geoFile \in [DBs -> Contents \cup {"missing"}] /\ geoOld \in [DBs -> BOOLEAN]
  /\ geoMap = [k \in DBs |-> "nil"] /\ geoTmp = [k \in DBs |-> "missing"]
  /\ geoPc = [k \in DBs |-> "idle"]
  /\ geoHad = {k \in DBs : Loadable(geoFile[k])}

shouldDownload(k) == geoFile[k] \in {"missing", "empty"} \/ geoOld[k]

GeoGoto(k, pc) == geoPc' = [geoPc EXCEPT ![k] = pc]

\* LoadGeoIP and LoadGeoSite: the databases are loaded one after the other.
Load(k) ==
  /\ \A j \in DBs : geoPc[j] = "idle"
  /\ geoMap[k] = "nil"
  /\ IF geoAuto[k]
     THEN IF ~shouldDownload(k) /\ Loadable(geoFile[k])
          THEN geoMap' = [geoMap EXCEPT ![k] = geoFile[k]] /\ UNCHANGED geoPc
          ELSE GeoGoto(k, "download") /\ UNCHANGED geoMap
     ELSE GeoGoto(k, "load") /\ UNCHANGED geoMap
  /\ UNCHANGED <<geoAuto, geoFile, geoOld, geoTmp, geoHad>>

LoadGeoIP == Load("geoip")
LoadGeoSite == Load("geosite")

\* A download that fails falls back to the file there is.
Fallback(k) == GeoGoto(k, IF geoFile[k] = "missing" THEN "failed" ELSE "load")

\* downloadAndCheck: the body goes into a temporary file,
DownloadInPlace(k) ==
  /\ geoPc[k] = "download"
  /\ \E content \in Contents :
       /\ geoFile' = [geoFile EXCEPT ![k] = content] /\ geoTmp' = [geoTmp EXCEPT ![k] = content]
       /\ GeoGoto(k, "check")
  /\ UNCHANGED <<geoAuto, geoOld, geoMap, geoHad>>

Download(k) ==
  /\ geoPc[k] = "download"
  /\ \/ Fallback(k) /\ UNCHANGED geoTmp
     \/ \E content \in Contents :
          geoTmp' = [geoTmp EXCEPT ![k] = content] /\ GeoGoto(k, "check")
  /\ UNCHANGED <<geoAuto, geoFile, geoOld, geoMap, geoHad>>

\* which takes the place of the file if it can be loaded, and renamed.
CheckAndRename(k) ==
  /\ geoPc[k] = "check"
  /\ \/ /\ Loadable(geoTmp[k])
        /\ geoFile' = [geoFile EXCEPT ![k] = geoTmp[k]] /\ geoOld' = [geoOld EXCEPT ![k] = FALSE]
        /\ geoHad' = geoHad \cup {k}
        /\ GeoGoto(k, "load")
     \/ Fallback(k) /\ UNCHANGED <<geoFile, geoOld, geoHad>>
  /\ geoTmp' = [geoTmp EXCEPT ![k] = "missing"]
  /\ UNCHANGED <<geoAuto, geoMap>>

LoadFile(k) ==
  /\ geoPc[k] = "load"
  /\ IF Loadable(geoFile[k])
     THEN geoMap' = [geoMap EXCEPT ![k] = geoFile[k]] /\ GeoGoto(k, "idle")
     ELSE GeoGoto(k, "failed") /\ UNCHANGED geoMap
  /\ UNCHANGED <<geoAuto, geoFile, geoOld, geoTmp, geoHad>>

\* The server exits, because a load failed or for any other reason, and starts again.
\* A temporary file it leaves behind has a name of its own and is not used again.
Restart ==
  /\ \E j \in DBs : geoMap[j] # "nil" \/ geoPc[j] # "idle"
  /\ geoMap' = [k \in DBs |-> "nil"] /\ geoPc' = [k \in DBs |-> "idle"]
  /\ geoTmp' = [k \in DBs |-> "missing"]
  /\ UNCHANGED <<geoAuto, geoFile, geoOld, geoHad>>

GrowOld(k) ==
  /\ ~geoOld[k] /\ geoOld' = [geoOld EXCEPT ![k] = TRUE]
  /\ UNCHANGED <<geoAuto, geoFile, geoMap, geoTmp, geoPc, geoHad>>

GeoNext ==
  \/ LoadGeoIP \/ LoadGeoSite \/ Restart
  \/ \E k \in DBs : Download(k) \/ CheckAndRename(k) \/ LoadFile(k) \/ GrowOld(k)

-----------------------------------------------------------------------------
\* Once there is a database file that can be loaded, no later start fails for want of
\* one, whatever downloads bring, whether or not they can be renamed, and wherever the
\* process is stopped: "as long as the previous download exists, fallback to it"
\* (acl/geoloader.go:110, 148).  An empty download loads, as a database without lists.
GeoStartsAgain == \A k \in geoHad : geoPc[k] # "failed"
=============================================================================
