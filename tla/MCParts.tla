------------------------------ MODULE MCParts --------------------------------
(***************************************************************************)
(* The parts that share no state with one another, model-checked together: *)
(* in each behaviour one of them, focus, moves and the others stay as they *)
(* are after startup, where none of their fair actions is enabled.         *)
(***************************************************************************)
EXTENDS Pipe, Resolver, CertLoader, GeoLoader, Padding, Server

VARIABLE focus

\* Zones: aliases up to and beyond the bound, a loop, both families, one family.
Alias(n) == [alias |-> n, types |-> {}]
Has(ts) == [alias |-> "", types |-> ts]
Zone(a, b, c) == [n \in Names |-> CASE n = "a" -> a [] n = "b" -> b [] n = "c" -> c]
BothFamilies == Zone(Has({"A", "AAAA"}), Has({}), Has({}))
MCZones == {Zone(Alias("b"), Alias("c"), Has({"A"})), Zone(Alias("b"), Alias("a"), Has({})),
            BothFamilies, Zone(Alias("b"), Has({"AAAA"}), Has({}))}

PadA == [stop |-> 3, sizes |-> 1 :> <<<<2, 4>>, Check, <<5, 5>>>> @@ 2 :> <<<<1, 1>>, <<5, 7>>, Check, <<3, 3>>>>]
PadB == [stop |-> -1, sizes |-> 2 :> <<<<0, 4>>, <<4, 2>>>>]
MCSchemes == {PadA, PadB}

MCConfigs == {[auth |-> "password", stats |-> TRUE, limits |-> FALSE, opens |-> 0, api |-> TRUE]}

partsVars == <<pipeVars, dnsVars, certVars, geoVars, padVars, serverVars, focus>>

PartsInit ==
  /\ focus \in {"pipe", "deadlines", "dns", "cert", "certs", "geo", "padding", "server"}
  /\ PipeInit /\ CertInit
  /\ DnsInit /\ (focus # "dns" => dnsMode = "udp" /\ zone = BothFamilies)
  /\ GeoInit
  /\ focus # "geo" => /\ geoFile = [k \in DBs |-> "good"] /\ geoAuto = [k \in DBs |-> TRUE]
                      /\ geoOld = [k \in DBs |-> FALSE]
  /\ PadInit /\ (focus # "padding" => scheme = PadA /\ burst = 0 /\ sendPadding)
  /\ ServerInit

PartsNext ==
  /\ UNCHANGED focus
  /\ \/ /\ focus = "pipe" /\ PipeNext /\ sets' <= 1          \* two writers, one deadline
        /\ UNCHANGED <<dnsVars, certVars, geoVars, padVars, serverVars>>
     \/ /\ focus = "deadlines" /\ PipeNext /\ wr'["w2"].len = 0  \* one writer, two deadlines
        /\ UNCHANGED <<dnsVars, certVars, geoVars, padVars, serverVars>>
     \/ /\ focus = "dns" /\ DnsNext
        /\ UNCHANGED <<pipeVars, certVars, geoVars, padVars, serverVars>>
     \/ /\ focus = "cert" /\ CertNext /\ hs'["t2"] = HsIdle   \* one handshake at a time, two renewals
        /\ UNCHANGED <<pipeVars, dnsVars, geoVars, padVars, serverVars>>
     \/ /\ focus = "certs" /\ CertNext /\ clock' <= 4        \* two at a time, one renewal
        /\ UNCHANGED <<pipeVars, dnsVars, geoVars, padVars, serverVars>>
     \/ /\ focus = "geo" /\ GeoNext
        /\ UNCHANGED <<pipeVars, dnsVars, certVars, padVars, serverVars>>
     \/ /\ focus = "padding" /\ PadNext
        /\ UNCHANGED <<pipeVars, dnsVars, certVars, geoVars, serverVars>>
     \/ /\ focus = "server" /\ ServerNext
        /\ UNCHANGED <<pipeVars, dnsVars, certVars, geoVars, padVars>>

PartsSpec ==
  /\ PartsInit /\ [][PartsNext]_partsVars
  /\ PipeFairness /\ DnsFairness /\ CertFairness /\ ServerFairness
=============================================================================
