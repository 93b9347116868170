-------------------------------- MODULE Acl ---------------------------------
(***************************************************************************)
(* The ACL engine (src/acl): text rules are compiled once, and a request   *)
(* is answered by the first rule that matches it, or from a cache of       *)
(* answers.  A name is a sequence of characters; an address is <<family,   *)
(* number>> of IPBits bits, an IPv4-mapped one being of family 4 wherever  *)
(* it was found, as To4 and Unmap have it.                                 *)
(***************************************************************************)
EXTENDS Integers, Sequences, FiniteSets, TLC

CONSTANTS
  IPBits,        \* width of an address
  MaxPort,       \* largest port, 2^16 - 1
  GeoIPs,        \* geoip database: code -> [cidrs, inverse]
  GeoSites,      \* geosite database: name -> sequence of [type, value, attrs]
  aclCacheSize

NoIP == <<0, 0>>   \* nil
BadIP == <<-1, 0>> \* text that is no address
AnyPort == <<0, 0>> \* no port, or "*"

VARIABLES
  rules,     \* compiledRuleSetImpl.Rules
  aclCache   \* compiledRuleSetImpl.Cache: a set of [key, result]

aclVars == <<rules, aclCache>>

-----------------------------------------------------------------------------
\* Hosts.  Lower case and no dots at the end.
Lower(ch) == IF ch = "S" THEN "s" ELSE ch
Normalize(name) ==
  LET dots == {i \in 0..Len(name) : \A j \in (i + 1)..Len(name) : name[j] = "."}
      end == CHOOSE i \in dots : \A j \in dots : i <= j
  IN [i \in 1..end |-> Lower(name[i])]

\* net.IPNet.Contains
Contains(net, ip) ==
  /\ ip[1] = net.ip[1]
  /\ ip[2] \div 2^(IPBits - net.prefix) = net.ip[2] \div 2^(IPBits - net.prefix)

\* strings.HasSuffix(name, "." + pattern), or the name itself.
MatchSuffix(name, pattern) ==
  LET k == Len(name) - Len(pattern) IN
  \/ name = pattern
  \/ k > 0 /\ name[k] = "." /\ SubSeq(name, k + 1, Len(name)) = pattern

MatchPlain(name, value) == \E k \in 0..(Len(name) - Len(value)) : SubSeq(name, k + 1, k + Len(value)) = value

\* deepMatchRune: f[i, j] for the rest of the name from i and of the pattern from j.
deepMatchRune(name, pattern) ==
  LET f[i \in 1..(Len(name) + 1), j \in 1..(Len(pattern) + 1)] ==
        IF j > Len(pattern) THEN i > Len(name)
        ELSE IF pattern[j] = "*" THEN f[i, j + 1] \/ (i <= Len(name) /\ f[i + 1, j])
        ELSE i <= Len(name) /\ name[i] = pattern[j] /\ f[i + 1, j + 1]
  IN f[1, 1]

\* matchIP: binary search among the sorted nets of the address's own family.
matchIP(m, ip) ==
  LET nets == IF ip[1] = 4 THEN m.n4 ELSE m.n6
      f[l \in 1..(Len(nets) + 1), r \in 0..Len(nets)] ==
        LET mid == (l + r) \div 2 IN
        IF l > r THEN FALSE
        ELSE IF Contains(nets[mid], ip) THEN TRUE
        ELSE IF nets[mid].ip[2] < ip[2] THEN f[mid + 1, r] ELSE f[l, mid - 1]
  IN f[1, Len(nets)]

\* newGeoIPMatcher sorts the nets of each family.
newGeoIPMatcher(geo) ==
  LET sorted(fam) == SortSeq(SelectSeq(geo.cidrs, LAMBDA n : n.ip[1] = fam),
                             LAMBDA a, b : a.ip[2] < b.ip[2])
  IN [kind |-> "geoip", n4 |-> sorted(4), n6 |-> sorted(6), inverse |-> geo.inverse]

MatchGeoIP(m, host) ==
  IF \E ip \in {host.v4, host.v6} : ip # NoIP /\ matchIP(m, ip)
  THEN ~m.inverse ELSE m.inverse

\* geositeMatcher: all the attributes asked for, and the name.
MatchGeosite(m, host) ==
  \E i \in 1..Len(m.domains) :
    LET d == m.domains[i] IN
    /\ m.attrs \subseteq d.attrs
    /\ CASE d.type = "plain" -> MatchPlain(host.name, d.value)
         [] d.type = "regex" -> host.name \in d.value  \* the names of the expression
         [] d.type = "full" -> host.name = d.value
         [] d.type = "root" -> MatchSuffix(host.name, d.value)

MatchHost(m, host) ==
  CASE m.kind = "all" -> TRUE
    [] m.kind = "ip" -> m.ip \in {host.v4, host.v6}
    [] m.kind = "cidr" -> Contains(m.net, host.v4) \/ Contains(m.net, host.v6)
    [] m.kind = "geoip" -> MatchGeoIP(m, host)
    [] m.kind = "geosite" -> MatchGeosite(m, host)
    [] m.kind = "exact" -> host.name = m.pattern
    [] m.kind = "suffix" -> MatchSuffix(host.name, m.pattern)
    [] m.kind = "wildcard" -> deepMatchRune(host.name, m.pattern)

\* compiledRule.Match
MatchRule(r, host, proto, port) ==
  /\ r.proto \in {"both", proto}
  /\ r.ports[1] # 0 => port \in r.ports[1]..r.ports[2]
  /\ MatchHost(r.matcher, host)

-----------------------------------------------------------------------------
\* parseProtoPort: a protocol and a range of ports, or neither.
ValidProtoPort(text) ==
  /\ text.proto \in {"tcp", "udp", "both"}
  /\ text.ports[1] <= text.ports[2] /\ text.ports[2] <= MaxPort

\* compileHostMatcher: an error for an empty name or what is no CIDR, and for a geo list
\* that the database does not have.
ValidAddress(a) ==
  /\ a.kind # "bad"
  /\ a.kind = "geoip" => a.code \in DOMAIN GeoIPs
  /\ a.kind = "geosite" => a.code \in DOMAIN GeoSites

compileHostMatcher(a) ==
  CASE a.kind = "geoip" -> newGeoIPMatcher(GeoIPs[a.code])
    [] a.kind = "geosite" -> [kind |-> "geosite", domains |-> GeoSites[a.code], attrs |-> a.attrs]
    [] a.kind \in {"exact", "suffix", "wildcard"} -> [a EXCEPT !.pattern = Normalize(@)]
    [] OTHER -> a

\* Compile: all the rules, or an error for the first that is wrong.
Compiles(texts, outbounds) ==
  \A i \in 1..Len(texts) :
    /\ texts[i].outbound \in DOMAIN outbounds
    /\ ValidAddress(texts[i].address) /\ ValidProtoPort(texts[i]) /\ texts[i].hijack # BadIP

Compile(texts, outbounds) ==
  [i \in 1..Len(texts) |->
     [outbound |-> outbounds[texts[i].outbound], matcher |-> compileHostMatcher(texts[i].address),
      proto |-> texts[i].proto, ports |-> texts[i].ports, hijack |-> texts[i].hijack]]

-----------------------------------------------------------------------------
\* compiledRuleSetImpl.Match: the answer of the first rule that matches, which is also
\* what goes into the cache; no match is an answer too.
NoMatch == [matched |-> FALSE, outbound |-> [kind |-> "none", id |-> 0], hijack |-> NoIP]
Evaluate(host, proto, port) ==
  LET hits == {i \in 1..Len(rules) : MatchRule(rules[i], host, proto, port)} IN
  IF hits = {} THEN NoMatch
  ELSE LET r == rules[CHOOSE i \in hits : \A j \in hits : i <= j]
       IN [matched |-> TRUE, outbound |-> r.outbound, hijack |-> r.hijack]

HostInfo(name, v4, v6) == [name |-> Normalize(name), v4 |-> v4, v6 |-> v6]
CacheKeyNoPort(host, proto, port) == <<host, proto>>
CacheKey(host, proto, port) == <<host, proto, port>>
Cached(key) == {e \in aclCache : e.key = key}

\* Cache.Add: when the cache is full another answer goes (which one is the LRU's affair).
CacheAdd(key, res) ==
  LET new == (aclCache \ Cached(key)) \cup {[key |-> key, result |-> res]} IN
  IF Cardinality(new) <= aclCacheSize THEN aclCache' = new
  ELSE \E e \in aclCache \ Cached(key) : aclCache' = new \ {e}
=============================================================================
