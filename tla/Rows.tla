-------------------------------- MODULE Rows --------------------------------
(***************************************************************************)
(* What the JavaScript client makes of the rows of a snapshot              *)
(* (packages/js/src/index.cjs): the table of field names, mapRow, the      *)
(* checks of validateFilters, the filters and the ranking of getProxies.   *)
(* JsClient abstracts all this to "a row has a rank and an age".           *)
(*                                                                         *)
(* Values: latencies and uptimes may be fractions and are in tenths, other *)
(* numbers are integers; a time is a number of minutes; an address is four *)
(* octets; a country is its code and whether it is written in capitals; an *)
(* ASN is its number and whether it is written as text ("AS13335"); a      *)
(* latency is the number JavaScript makes of it and whether it is of       *)
(* another type than a number ("1200", true).                              *)
(***************************************************************************)
EXTENDS Integers, Sequences, FiniteSets, FiniteSetsExt

CONSTANTS
  Null,      \* null
  Undefined, \* no such property
  Odd        \* a value of another type than expected, or NaN

Missing == {Null, Undefined, Odd}

\* fields.generated.cjs: the name of a field in the SDK, the API, the list.
Fields ==
  {<<"protocol", "protocol", "protocol">>, <<"ip", "host", "ip">>, <<"url", Null, "url">>,
   <<"port", "port", "port">>, <<"country", "geoCountry", "country">>,
   <<"region", "geoRegion", "region">>, <<"city", "geoCity", "city">>,
   <<"timezone", "geoTimezone", "timezone">>, <<"asn", "asn", "asn">>,
   <<"asnOrg", "asnOrgName", "asn_org">>, <<"anonymity", "anonymity", "anonymity">>,
   <<"https", "https", "https">>, <<"latencyMs", "responseTimeMs", "latency_ms">>,
   <<"latencyMedianMs", "responseTimeMedianMs", "latency_median_ms">>,
   <<"uptime24h", "uptime24h", "uptime_24h">>, <<"uptime7d", "uptime7d", "uptime_7d">>,
   <<"checks7d", "checks7d", "checks_7d">>, <<"exitIp", "externalIp", "exit_ip">>,
   <<"sourcesCount", "sourcesCount", "sources_count">>,
   <<"firstSeen", "createdAt", "first_seen">>, <<"lastChecked", "pingAt", "last_checked">>}

\* They are no values, and differ from each other; only the URL has no name
\* in the API.
ASSUME ValuesAssumption ==
  /\ Null # Undefined /\ Odd \notin {Null, Undefined}
  /\ Missing \cap Int = {}
  /\ \A f \in Fields : f[3] # Null /\ (f[2] = Null => f[1] = "url")

FieldNames == {f[1] : f \in Fields}

FieldByJs(js, source) ==
  LET f == CHOOSE f \in Fields : f[1] = js IN IF source = "api" THEN f[2] ELSE f[3]

Protocols == {"http", "socks4", "socks5"}
ProtocolOrder == [http |-> 1, socks4 |-> 2, socks5 |-> 3]
Anonymity == {"transparent", "anonymous", "elite", "unknown"}
Ports == 1..65535

NoValue == {Null, Undefined}  \* x == null
IsGood(x) == x \notin {Null, Undefined, Odd}
IsCount(x) == IsGood(x) /\ x >= 0

(***************************************************************************)
(* publicIpv4: no address of a special-purpose range.  Every prefix is at  *)
(* most 24 bits long, so the first three octets decide.                    *)
(***************************************************************************)
SpecialRanges ==
  {<<0, 8>>, <<\h0a0000, 8>>, <<\h644000, 10>>, <<\h7f0000, 8>>, <<\ha9fe00, 16>>,
   <<\hac1000, 12>>, <<\hc00000, 24>>, <<\hc00002, 24>>, <<\hc0a800, 16>>,
   <<\hc61200, 15>>, <<\hc63364, 24>>, <<\hcb0071, 24>>, <<\he00000, 4>>, <<\hf00000, 4>>}

PublicIpv4(ip) ==
  /\ IsGood(ip)
  /\ \A i \in 1..4 : ip[i] <= 255
  /\ LET value == (ip[1] * 256 + ip[2]) * 256 + ip[3]
     IN  \A r \in SpecialRanges : value \div 2^(24 - r[2]) # r[1] \div 2^(24 - r[2])

-----------------------------------------------------------------------------
(* mapRow.                                                                 *)

Invalid == [field |-> "invalid"]

\* Math.round, of tenths.
Round(x) == ((x + 5) \div 10) * 10

\* Math.round makes a number of what the API sends, whatever its type; from
\* GitHub another type than a number is an error.
Latency(x, source) ==
  IF x \in NoValue THEN x
  ELSE IF source # "api" /\ x.text THEN Odd
  ELSE IF source = "api" /\ x.number # Odd THEN Round(x.number) ELSE x.number

Lower(country) == IF country \in NoValue THEN Null ELSE [country EXCEPT !.capitals = FALSE]

SlipNumbersOnly(asn) == IF asn \in NoValue THEN Null ELSE IF asn.text THEN Odd ELSE asn.number

\* "AS13335" and 13335 are the same number; other text is NaN.
AsnNumber(asn) == IF asn \in NoValue THEN Null ELSE asn.number

Mapped(row, source) ==
  [js \in FieldNames \ {"url"} |->
     LET value == row[FieldByJs(js, source)]
     IN  CASE js = "country" -> Lower(value)
           [] js = "asn" -> AsnNumber(value)
           [] js = "latencyMs" -> Latency(value, source)
           [] OTHER -> value]

ValidRow(p) ==
  /\ p.protocol \in Protocols /\ p.anonymity \in Anonymity
  /\ PublicIpv4(p.ip)
  /\ IsGood(p.port) /\ p.port \in Ports
  /\ IsGood(p.firstSeen) /\ IsGood(p.lastChecked)
  /\ Odd \notin {p[js] : js \in {"region", "city", "timezone", "asnOrg", "exitIp"}}
  /\ p.country # Null => p.country.code # Odd
  /\ p.asn = Null \/ IsCount(p.asn)
  /\ p.https \in {Null, TRUE, FALSE}
  /\ Odd \notin {p[js] : js \in {"latencyMs", "latencyMedianMs", "uptime24h", "uptime7d"}}
  /\ IsCount(p.checks7d) /\ IsCount(p.sourcesCount)

SlipKeepsUptime(p) == p

\* An uptime over few checks says nothing.
TrustedUptime(p) == IF p.checks7d < 50 THEN [p EXCEPT !.uptime7d = Null] ELSE p

MapRow(row, source) ==
  LET p == Mapped(row, source) IN IF ValidRow(p) THEN TrustedUptime(p) ELSE Invalid

-----------------------------------------------------------------------------
(* validateFilters and the selection of getProxies.                        *)

FilterNames ==
  {"protocol", "country", "anonymity", "https", "maxLatencyMs", "minUptime7d",
   "minChecks7d", "checkedWithinMin", "limit"}

Given(x) == x \notin NoValue

\* filters has every name of FilterNames; Undefined: not given.
ValidFilters(filters) ==
  /\ Given(filters.protocol) => filters.protocol \in Protocols
  /\ Given(filters.country) => filters.country.code # Odd
  /\ Given(filters.anonymity) => filters.anonymity \in Anonymity
  /\ Given(filters.https) => filters.https \in BOOLEAN
  /\ \A key \in {"maxLatencyMs", "minUptime7d", "minChecks7d", "limit"} :
       Given(filters[key]) => IsCount(filters[key])
  /\ Given(filters.checkedWithinMin) =>
       IsCount(filters.checkedWithinMin) /\ filters.checkedWithinMin \in 1..1440

Checked(filters) ==
  [filters EXCEPT
     !.country = IF Given(@) THEN [@ EXCEPT !.capitals = FALSE] ELSE Undefined,
     !.checkedWithinMin = IF Given(@) THEN @ ELSE 30]

\* The clock's tolerance of 5 s is less than a minute.
InWindow(p, filters, now) == p.lastChecked \in (now - filters.checkedWithinMin)..now

Matches(p, filters, now) ==
  /\ InWindow(p, filters, now)
  /\ Given(filters.protocol) => p.protocol = filters.protocol
  /\ Given(filters.country) => p.country = filters.country
  /\ Given(filters.anonymity) => p.anonymity = filters.anonymity
  /\ Given(filters.https) => p.https = filters.https
  /\ Given(filters.maxLatencyMs) => Given(p.latencyMs) /\ p.latencyMs <= 10 * filters.maxLatencyMs
  /\ Given(filters.minUptime7d) => Given(p.uptime7d) /\ p.uptime7d >= 10 * filters.minUptime7d
  /\ Given(filters.minChecks7d) => p.checks7d >= filters.minChecks7d

Or0(x) == IF Given(x) THEN x ELSE 0

SlipNullsFirst(a, b) ==
  LET keys == <<Or0(b.uptime7d) - Or0(a.uptime7d), Or0(a.latencyMs) - Or0(b.latencyMs)>>
      told == {i \in DOMAIN keys : keys[i] # 0}
  IN  IF told = {} THEN 0 ELSE keys[Min(told)]

\* The URLs in their order: protocol://ip:port
UrlKey(p) == <<ProtocolOrder[p.protocol]>> \o p.ip \o <<p.port>>

\* a.url.localeCompare(b.url), with numbers for digits: some total order.
CompareUrls(a, b) ==
  LET told == {i \in DOMAIN UrlKey(a) : UrlKey(a)[i] # UrlKey(b)[i]}
  IN  IF told = {} THEN 0 ELSE UrlKey(a)[Min(told)] - UrlKey(b)[Min(told)]

\* The comparator of sortProxies: the first difference that is not 0 decides.
Compare(a, b) ==
  LET nulls(x, y) == Cardinality({x} \cap NoValue) - Cardinality({y} \cap NoValue)
      keys == <<nulls(a.uptime7d, b.uptime7d), Or0(b.uptime7d) - Or0(a.uptime7d),
                nulls(a.latencyMs, b.latencyMs), Or0(a.latencyMs) - Or0(b.latencyMs),
                CompareUrls(a, b)>>
      told == {i \in DOMAIN keys : keys[i] # 0}
  IN  IF told = {} THEN 0 ELSE keys[Min(told)]

\* The rows at the kept places, sorted.  Array.prototype.sort is stable: a
\* row comes after all that rank before it and after the equal ones that came
\* before it.
Sorted(rows, kept) ==
  LET before(i) == {j \in kept : Compare(rows[j], rows[i]) < 0
                                 \/ (Compare(rows[j], rows[i]) = 0 /\ j < i)}
  IN  [n \in 1..Cardinality(kept) |-> rows[CHOOSE i \in kept : Cardinality(before(i)) = n - 1]]

\* rows.slice(0, limit), where null is 0.
Slice(rows, limit) ==
  IF limit = Undefined THEN rows
  ELSE IF limit = Null THEN <<>>
  ELSE IF limit < Len(rows) THEN SubSeq(rows, 1, limit) ELSE rows

\* getProxies of the valid rows, with valid filters.
Selected(rows, filters, now) ==
  LET kept == {i \in DOMAIN rows : Matches(rows[i], Checked(filters), now)}
  IN  Slice(Sorted(rows, kept), filters.limit)
=============================================================================
