------------------------------ MODULE MCServer ------------------------------
\* Constants for model checking the server: connections, hosts, streams and random ids
\* are interchangeable; configurations that main can build, and the load on each.
EXTENDS Server, TLC
CONSTANTS c1, c2, h1, h2, i1, i2, s1, s2
Conf(a, st, l, n, api) == [auth |-> a, stats |-> st, limits |-> l, opens |-> n, api |-> api]
MCConfigs == {Conf("password", TRUE, TRUE, 1, TRUE), Conf("password", TRUE, FALSE, 2, FALSE),
              Conf("http", FALSE, TRUE, 1, FALSE),
              Conf("cache", FALSE, FALSE, 0, FALSE), Conf("cache+neg", FALSE, FALSE, 0, FALSE)}
Symmetry == Permutations(Conns) \cup Permutations(Hosts) \cup Permutations(ConnIds)
              \cup Permutations(Streams)
=============================================================================
