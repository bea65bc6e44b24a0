------------------------------ MODULE MCTools ------------------------------
(* An instance for TLC of the tools beside the client, one at a time.      *)
EXTENDS Tools

-----------------------------------------------------------------------------
(* READMEs.                                                                *)

MCShared == <<"intro", "safety">>
MCWords == ToSet(MCShared) \cup {"banner", "static banner", "title", "old", "new", "more", "root", "own"}
Block(name, x) == <<Start(name)>> \o x \o <<End(name)>>

Old == <<Text("old")>>
New == <<Text("new"), Text("more")>>

Root(x) == Block("intro", x) \o <<Text("root")>> \o Block("safety", x)
PackageOf(x) ==
  BannerBlock \o <<Title>> \o Block("intro", x) \o Block("safety", x) \o <<Text("own")>>

MCRoot == Root(Old)
MCPackage == PackageOf(Old)

Inside(outer, inner) == BannerBlock \o <<Title>> \o Block(outer, Block(inner, Old))

MCReadmes ==
  {Root(Old), Root(New), PackageOf(Old), PackageOf(New),
   Tail(PackageOf(Old)), PackageOf(Old) \o Block("intro", Old),
   Inside("intro", "safety"), Inside("safety", "intro"), <<Title>> \o PackageOf(Old)}

-----------------------------------------------------------------------------
(* Proxies.                                                                *)

Us == [code |-> "us", capitals |-> FALSE]
De == [code |-> "de", capitals |-> TRUE]

Ms(n) == [number |-> n, text |-> FALSE]

Fine ==
  [protocol |-> "http", ip |-> <<8, 8, 8, 8>>, url |-> "own", port |-> 8080, country |-> Us,
   region |-> Null, city |-> "c", timezone |-> "t", asn |-> [number |-> 15169, text |-> TRUE],
   asnOrg |-> "o", anonymity |-> "elite", https |-> TRUE, latencyMs |-> Ms(1200),
   latencyMedianMs |-> 1105, uptime24h |-> 995, uptime7d |-> 982, checks7d |-> 72,
   exitIp |-> Null, sourcesCount |-> 3, firstSeen |-> 0, lastChecked |-> 95]

GoodRows ==
  {Fine,
   [Fine EXCEPT !.ip = <<1, 1, 1, 1>>, !.protocol = "socks5", !.https = Null],
   [Fine EXCEPT !.port = 3128, !.uptime7d = Null, !.latencyMs = Ms(900)],
   [Fine EXCEPT !.port = 1080, !.uptime7d = 999, !.checks7d = 49],
   [Fine EXCEPT !.port = 81, !.latencyMs = Null, !.country = De, !.asn = Null],
   [Fine EXCEPT !.port = 82, !.latencyMs = Ms(1205)],
   [Fine EXCEPT !.port = 83, !.lastChecked = 60, !.uptime7d = 1000],
   [Fine EXCEPT !.port = 84, !.lastChecked = 101]}

\* One address of every special range, and one beside each.
Addresses ==
  {<<0, 1, 1, 1>>, <<10, 255, 1, 1>>, <<100, 64, 0, 1>>, <<100, 128, 0, 1>>, <<127, 0, 0, 1>>,
   <<169, 254, 1, 1>>, <<172, 31, 1, 1>>, <<172, 32, 1, 1>>, <<192, 0, 0, 1>>, <<192, 0, 2, 1>>,
   <<192, 0, 3, 1>>, <<192, 168, 1, 1>>, <<198, 19, 1, 1>>, <<198, 20, 1, 1>>, <<198, 51, 100, 1>>,
   <<203, 0, 113, 1>>, <<223, 255, 255, 255>>, <<224, 0, 0, 1>>, <<255, 255, 255, 255>>,
   <<256, 1, 1, 1>>}

\* One value at a time is odd, missing or at its limit.
Variants ==
  {[Fine EXCEPT !.ip = ip] : ip \in Addresses}
  \cup {[Fine EXCEPT !.port = n] : n \in {0, 1, 65535, 65536}}
  \cup {[Fine EXCEPT ![js] = x] :
          js \in FieldNames \ {"url", "country", "asn", "latencyMs"}, x \in {Odd, Undefined}}
  \cup {[Fine EXCEPT !.latencyMs = x] :
          x \in {Undefined, Ms(1204), [number |-> 1200, text |-> TRUE], [number |-> Odd, text |-> TRUE]}}
  \cup {[Fine EXCEPT !.checks7d = n] : n \in {-1, 50}}
  \cup {[Fine EXCEPT !.asn = a] : a \in {Undefined, [number |-> -1, text |-> FALSE], [number |-> Odd, text |-> FALSE],
                             [number |-> 5, text |-> FALSE]}}
  \cup {[Fine EXCEPT !.country = c] : c \in {Null, Undefined, [code |-> Odd, capitals |-> FALSE]}}

MCListings ==
  {<<>>} \cup {<<r>> : r \in GoodRows} \cup {<<r, Fine>> : r \in Variants}
  \cup {<<r, s>> : r, s \in GoodRows}
  \cup {<<q, r, s>> : q \in {Fine}, r \in GoodRows, s \in GoodRows}

MCArgvs ==
  {<<>>, <<<<"limit", 1>>>>, <<<<"limit", 0>>>>, <<<<"limit", Odd>>>>, <<<<"limit", Undefined>>>>,
   <<<<"limit", 5>>, <<"limit", 1>>>>, <<<<"bogus", 1>>>>,
   <<<<"source", "github">>>>, <<<<"source", "github">>, <<"max-latency-ms", 120>>>>,
   <<<<"source", "list">>>>, <<<<"format", "csv">>>>, <<<<"format", "xml">>>>,
   <<<<"https", "true">>>>, <<<<"https", "yes">>>>, <<<<"protocol", "socks5">>>>,
   <<<<"protocol", "ftp">>>>, <<<<"country", De>>>>, <<<<"country", [code |-> Odd, capitals |-> FALSE]>>>>,
   <<<<"anonymity", "elite">>, <<"min-uptime7d", 99>>>>, <<<<"min-checks7d", 50>>, <<"limit", 2>>>>,
   <<<<"checked-within-min", 40>>>>, <<<<"checked-within-min", 0>>>>,
   <<<<"checked-within-min", 1441>>>>}

-----------------------------------------------------------------------------
(* Downloads.                                                              *)

\* The two proxies of prepare-distribution.test.mjs, and others that the same
\* stats.json fits.
Line(values) ==
  [url |-> <<values.protocol, values.ip, values.port>>, exit_shared |-> 1]
  @@ Raw(values, "github")

Socks ==
  [Fine EXCEPT !.protocol = "socks5", !.ip = <<1, 1, 1, 1>>, !.port = 1080, !.country = De,
               !.https = Null, !.latencyMs = Ms(3000), !.uptime7d = Null, !.checks7d = 10,
               !.anonymity = "anonymous"]

GoodAll == <<Line(Fine), Line(Socks)>>
OtherAll == <<Line([Socks EXCEPT !.latencyMs = Null]), Line([Fine EXCEPT !.ip = <<9, 9, 9, 9>>])>>

GoodStats ==
  [truncated |-> Undefined, generated_at |-> 90, expires_at |-> 100,
   totals |-> [all |-> 2, http |-> 1, socks4 |-> 0, socks5 |-> 1, https |-> 1, fast |-> 2,
               stable |-> 1, anonymous |-> 2],
   countries_count |-> 2,
   countries |-> [De EXCEPT !.capitals = FALSE] :> 1 @@ Us :> 1]

BadAll ==
  {Undefined, Odd, <<>>, <<Odd>>, <<Line([Fine EXCEPT !.ip = <<10, 0, 0, 1>>])>>,
   <<Line(Fine), [Line(Socks) EXCEPT !.exit_shared = Undefined]>>,
   <<Line(Fine), [Line(Socks) EXCEPT !.url = Odd]>>, <<Line(Fine), Line(Fine)>>}

BadStats ==
  {Undefined, Odd, [GoodStats EXCEPT !.truncated = TRUE], [GoodStats EXCEPT !.generated_at = Odd],
   [GoodStats EXCEPT !.expires_at = Odd], [GoodStats EXCEPT !.totals = Undefined],
   [GoodStats EXCEPT !.totals.fast = 1], [GoodStats EXCEPT !.countries_count = 3],
   [GoodStats EXCEPT !.countries = Us :> 2]}

Good == [all |-> GoodAll, stats |-> GoodStats]
Other == [all |-> OtherAll, stats |-> [GoodStats EXCEPT !.generated_at = 95, !.expires_at = Null]]

MCDownloads == {Good, Other, [all |-> Undefined, stats |-> Odd]}

MCSnapshots ==
  {[all |-> Undefined, stats |-> Undefined], Good, Other}
  \cup {[all |-> a, stats |-> GoodStats] : a \in BadAll}
  \cup {[all |-> GoodAll, stats |-> s] : s \in BadStats}

Request(more) ==
  <<<<"source-dir", "source">>, <<"output", "out">>, <<"owner", "litportnet">>,
    <<"source-commit", [hex |-> "0123", capitals |-> TRUE]>>>> \o more

MCRequests ==
  {Request(<<>>), Request(<<<<"license-data", "own license">>>>),
   Request(<<<<"license-data", "no such file">>>>), Request(<<<<"output", "source">>>>),
   Request(<<<<"source-dir", "elsewhere">>>>), Request(<<<<"owner", Odd>>>>),
   Request(<<<<"source-commit", Odd>>>>), Request(<<<<"output", Undefined>>>>),
   Request(<<<<"bogus", "x">>>>), Tail(Request(<<>>))}
=============================================================================
