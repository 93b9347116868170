------------------------------ MODULE MCEgress -------------------------------
(***************************************************************************)
(* The egress policy and the UDP relay on small instances.  Each setup is  *)
(* an operator's configuration together with the destinations asked for    *)
(* and the answers the resolver gives, which may change between lookups.   *)
(***************************************************************************)
EXTENDS Relay

Name(s) == [name |-> s, ip |-> NoIP, port |-> 1]
Lit(ip, port) == [name |-> <<>>, ip |-> ip, port |-> port]
Port(d, port) == [d EXCEPT !.port = port]
Res(v4, v6) == [v4 |-> v4, v6 |-> v6]
IP4(n) == <<4, n>>
IP6(n) == <<6, n>>
Net(ip, prefix) == [ip |-> ip, prefix |-> prefix]

MCGeoIPs == "x" :> [cidrs |-> <<Net(IP4(6), 3), Net(IP4(0), 2), Net(IP6(4), 2), Net(IP4(4), 3), Net(IP4(3), 3)>>,
                    inverse |-> FALSE]
         @@ "y" :> [cidrs |-> <<Net(IP4(4), 1)>>, inverse |-> TRUE]
Site == <<"a", ".", "s">>
MCGeoSites == "g" :> <<[type |-> "root", value |-> <<"s">>, attrs |-> {"ads"}],
                       [type |-> "full", value |-> <<"b">>, attrs |-> {}],
                       [type |-> "plain", value |-> <<"c">>, attrs |-> {}],
                       [type |-> "regex", value |-> {<<"d">>}, attrs |-> {}]>>

Rule(ob, address, proto, ports) ==
  [outbound |-> ob, address |-> address, proto |-> proto, ports |-> ports, hijack |-> NoIP]
To(rule, ip) == [rule EXCEPT !.hijack = ip]
All == [kind |-> "all"]
Geo(code) == [kind |-> "geoip", code |-> code]
GeoSite(code, attrs) == [kind |-> "geosite", code |-> code, attrs |-> attrs]
Dom(kind, pattern) == [kind |-> kind, pattern |-> pattern]

Socks == [name |-> "proxy", kind |-> "socks5"]
Plain == [name |-> "direct", kind |-> "direct"]
Base == [entries |-> <<>>, texts |-> <<>>, acl |-> FALSE, resolver |-> FALSE, blockPrivate |-> FALSE,
         dests |-> {Name(Site)}, answers |-> {NoRes}, procs |-> {"t1", "uot"}, ends |-> FALSE]
ByRules(texts) == [Base EXCEPT !.acl = TRUE, !.texts = texts]
Literals == {Lit(IP4(n), 1) : n \in 0..7} \cup {Lit(IP6(n), 1) : n \in 3..6}
Names == {Name(n) : n \in {<<"s">>, Site, <<"a", "s">>, <<"a", ".", "S", ".">>, <<"b">>, <<"a", "c">>, <<"d">>}}

MCSetups == {
  \* Bisection in address lists, one request at a time.
  [ByRules(<<Rule("reject", Geo("x"), "both", AnyPort)>>) EXCEPT !.dests = Literals, !.procs = {"t1"}],
  [ByRules(<<Rule("reject", Geo("y"), "tcp", AnyPort)>>) EXCEPT !.dests = Literals, !.procs = {"t1"}],
  [ByRules(<<Rule("direct", [kind |-> "ip", ip |-> IP4(5)], "both", AnyPort),
             Rule("reject", [kind |-> "cidr", net |-> Net(IP4(4), 1)], "both", AnyPort)>>)
     EXCEPT !.dests = Literals, !.procs = {"t1"}],
  \* An IPv4-mapped address in an AAAA record.
  [ByRules(<<Rule("reject", Geo("x"), "both", AnyPort)>>)
     EXCEPT !.blockPrivate = TRUE, !.procs = {"t1"},
            !.answers = {Res(NoIP, IP4(6)), Res(NoIP, IP4(1)), Res(NoIP, IP4(5)), Res(NoIP, IP6(5))}],
  \* Names.
  [ByRules(<<Rule("reject", GeoSite("g", {"ads"}), "both", AnyPort), Rule("proxy", GeoSite("g", {}), "both", AnyPort)>>)
     EXCEPT !.entries = <<Plain, Socks>>, !.dests = Names, !.procs = {"t1"}, !.answers = {Res(IP4(5), NoIP)}],
  [ByRules(<<Rule("reject", Dom("exact", <<"S", ".">>), "both", AnyPort), Rule("proxy", Dom("suffix", <<"s">>), "both", AnyPort),
             To(Rule("direct", Dom("wildcard", <<"*", "s">>), "both", AnyPort), IP4(1))>>)
     EXCEPT !.entries = <<Plain, Socks>>, !.dests = Names, !.procs = {"t1"}, !.answers = {Res(IP4(5), NoIP)}],
  \* Ports and protocols, through the caches, with answers that change.
  [ByRules(<<Rule("reject", All, "udp", <<2, 3>>), Rule("proxy", Geo("x"), "tcp", <<1, 1>>)>>)
     EXCEPT !.entries = <<Plain, Socks>>, !.dests = {Name(Site), Port(Name(Site), 2)},
            !.answers = {Res(IP4(5), NoIP), Res(IP4(6), NoIP)}],
  \* Packets of one stream that belong to different outbounds.
  [ByRules(<<Rule("proxy", Geo("x"), "udp", AnyPort), Rule("direct", All, "both", AnyPort)>>)
     EXCEPT !.entries = <<Socks>>, !.dests = {Lit(IP4(6), 1), Lit(IP4(5), 1)}, !.procs = {"t1", "uot"}, !.ends = TRUE,
            !.blockPrivate = TRUE],
  \* The private filter and a pinned resolver, without rules.
  [Base EXCEPT !.blockPrivate = TRUE, !.answers = {Res(IP4(1), IP6(5)), Res(IP4(5), IP6(1)), NoRes}, !.ends = TRUE,
     !.dests = {Name(Site), Lit(IP4(1), 1)}, !.procs = {"t1", "uot"}],
  [Base EXCEPT !.entries = <<Socks>>, !.blockPrivate = TRUE, !.procs = {"t1", "t2"},
     !.answers = {Res(IP4(5), IP6(1)), Res(IP4(5), NoIP), NoRes}],
  [Base EXCEPT !.entries = <<Socks>>, !.resolver = TRUE, !.answers = {Res(NoIP, IP6(1)), NoRes}, !.procs = {"t1"}],
  [Base EXCEPT !.resolver = TRUE, !.answers = {Res(NoIP, IP6(1)), NoRes}, !.procs = {"t1"}],
  Base,
  \* Configurations that do not start.
  ByRules(<<Rule("nowhere", All, "both", AnyPort)>>), ByRules(<<Rule("direct", Geo("zz"), "both", AnyPort)>>),
  ByRules(<<Rule("direct", [kind |-> "bad"], "both", AnyPort)>>),
  ByRules(<<Rule("direct", All, "both", <<3, 2>>)>>), ByRules(<<To(Rule("direct", All, "both", AnyPort), BadIP)>>) }

MCPrivateIPs == {IP4(1), IP6(1)}
=============================================================================
