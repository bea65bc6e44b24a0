-------------------------------- MODULE Cli --------------------------------
(***************************************************************************)
(* The command litportnet-free-proxies (packages/js/src/cli.cjs): parse    *)
(* the arguments, fetch and select the rows of a snapshot, print them, and *)
(* tell by the exit status what came of it.                                *)
(***************************************************************************)
EXTENDS Rows, SequencesExt

CONSTANTS
  Argvs,    \* argument lists: sequences of <<key, value>>
  Listings, \* what is known of the proxies: sequences of values by SDK name
  Clock     \* the time of the call

NumberFlags == {"limit", "max-latency-ms", "min-uptime7d", "min-checks7d", "checked-within-min"}

\* An argument is text or missing; Number() makes a number or NaN of it.
ASSUME ArgvsAssumption ==
  \A args \in Argvs :
    /\ args \in Seq({args[i] : i \in DOMAIN args})
    /\ \A i \in DOMAIN args :
         /\ args[i][2] # Null
         /\ args[i][1] \in NumberFlags => args[i][2] \in Int \cup {Odd, Undefined}

\* What is known of a proxy has the right form, or is odd, or is missing; a
\* country, an ASN and a latency are values, however they are written.
Known(values) ==
  /\ DOMAIN values = FieldNames
  /\ \A js \in {"port", "uptime7d", "checks7d", "lastChecked"} :
       values[js] \in Int \cup Missing
  /\ values.ip \in [1..4 -> Nat] \cup Missing
  /\ values.country \in NoValue
     \/ /\ DOMAIN values.country = {"code", "capitals"}
        /\ \A c \in BOOLEAN : [values.country EXCEPT !.capitals = c] \notin Missing
  /\ values.asn \in NoValue
     \/ /\ DOMAIN values.asn = {"number", "text"}
        /\ \A t \in BOOLEAN : [values.asn EXCEPT !.text = t] \notin Missing
  /\ values.latencyMs \in NoValue \cup [number : Int \cup {Odd}, text : BOOLEAN]

ASSUME ListingsAssumption ==
  \A l \in Listings : l \in Seq({l[i] : i \in DOMAIN l}) /\ \A i \in DOMAIN l : Known(l[i])

VARIABLES
  cli,      \* where main() is
  argv, listing, \* its arguments, and what the endpoint knows
  options,  \* what parse() made of the arguments
  rows,     \* what getProxies returned
  printed,  \* the rows written to stdout
  status    \* the exit status

cliVars == <<cli, argv, listing, options, rows, printed, status>>

\* The option that a flag sets.
Flags ==
  [flag \in {"source", "protocol", "country", "anonymity", "https", "max-latency-ms", "min-uptime7d",
             "min-checks7d", "checked-within-min", "limit", "format"} |->
     CASE flag = "max-latency-ms" -> "maxLatencyMs"
       [] flag = "min-uptime7d" -> "minUptime7d"
       [] flag = "min-checks7d" -> "minChecks7d"
       [] flag = "checked-within-min" -> "checkedWithinMin"
       [] OTHER -> flag]

OptionNames == FilterNames \cup {"source", "format"}
NoOptions == [name \in OptionNames |-> Undefined]

\* Whatever is not "true" is false; numbers were read by Number().
Converted(key, value) == IF key = "https" THEN value = "true" ELSE value

\* parse(): the last of several equal flags counts.
Parsed(args) ==
  [name \in OptionNames |->
     LET uses == {i \in DOMAIN args : Flags[args[i][1]] = name}
     IN  IF uses = {} THEN Undefined ELSE Converted(args[Max(uses)][1], args[Max(uses)][2])]

\* An unknown option, or no value for the last one.
Unparsable(args) == \E i \in DOMAIN args : args[i][1] \notin DOMAIN Flags \/ args[i][2] = Undefined

Default(x, d) == IF Given(x) THEN x ELSE d
Format(o) == Default(o.format, "txt")
Source(o) == Default(o.source, "api")
FiltersOf(o) == [name \in FilterNames |-> o[name]]

\* A proxy as the API's snapshot and as the list on GitHub have it: the API
\* writes countries in capitals, and ASNs as it likes.
Written(js, value, source) ==
  CASE js = "country" -> IF IsGood(value) THEN [value EXCEPT !.capitals = (source = "api")] ELSE value
    [] js = "asn" -> IF IsGood(value) /\ source = "github" THEN [value EXCEPT !.text = FALSE] ELSE value
    [] OTHER -> value

Raw(values, source) ==
  [name \in {FieldByJs(js, source) : js \in FieldNames} \ {Null} |->
     LET js == CHOOSE js \in FieldNames : FieldByJs(js, source) = name
     IN  Written(js, values[js], source)]

MappedRows(l, source) == [i \in DOMAIN l |-> MapRow(Raw(l[i], source), source)]

CliInit ==
  /\ cli = "idle"
  /\ argv = <<>>
  /\ listing = <<>>
  /\ options = NoOptions
  /\ rows = <<>>
  /\ printed = <<>>
  /\ status = Null

Invoke ==
  /\ cli = "idle"
  /\ cli' = "parse"
  /\ argv' \in Argvs
  /\ listing' \in Listings
  /\ UNCHANGED <<options, rows, printed, status>>

\* The message goes to stderr.
Fails == cli' = "exited" /\ status' = 1

\* The arguments, the format, and the source in the constructor of Client.
Parse ==
  /\ cli = "parse"
  /\ \/ Unparsable(argv) /\ Fails /\ UNCHANGED options
     \/ /\ ~Unparsable(argv)
        /\ options' = Parsed(argv)
        /\ IF Format(options') \in {"txt", "json", "csv"} /\ Source(options') \in {"api", "github"}
           THEN cli' = "fetch" /\ UNCHANGED status
           ELSE Fails
  /\ UNCHANGED <<argv, listing, rows, printed>>

\* One bad row rejects the snapshot.
GetProxies ==
  /\ cli = "fetch"
  /\ LET mapped == MappedRows(listing, Source(options))
     IN  IF ~ValidFilters(FiltersOf(options)) \/ Invalid \in ToSet(mapped)
         THEN Fails /\ UNCHANGED rows
         ELSE /\ rows' = Selected(mapped, FiltersOf(options), Clock)
              /\ cli' = "print"
              /\ UNCHANGED status
  /\ UNCHANGED <<argv, listing, options, printed>>

\* The request failed, for one of the reasons in JsClient.
RequestFails ==
  /\ cli = "fetch"
  /\ Fails
  /\ UNCHANGED <<argv, listing, options, rows, printed>>

SlipEmptyIsFine(n) == 0

ExitStatus(n) == IF n = 0 THEN 2 ELSE 0

PrintRows ==
  /\ cli = "print"
  /\ printed' = rows
  /\ status' = ExitStatus(Len(rows))
  /\ cli' = "exited"
  /\ UNCHANGED <<argv, listing, options, rows>>

CliNext == Invoke \/ Parse \/ GetProxies \/ RequestFails \/ PrintRows

CliSpec == CliInit /\ [][CliNext]_cliVars

-----------------------------------------------------------------------------
(* Properties.                                                             *)

CliTypeOK ==
  /\ cli \in {"idle", "parse", "fetch", "print", "exited"}
  /\ DOMAIN options = OptionNames
  /\ \A i \in DOMAIN rows : rows[i].lastChecked \in Int /\ rows[i].port \in Ports
  /\ status \in {Null, 0, 1, 2}
  /\ status = Null <=> cli # "exited"

Told(a) == Given(a.uptime7d)
Timed(a) == Given(a.latencyMs)

\* The order the READMEs promise: known uptime first, the higher the better,
\* then known latency, the lower the better, then by URL.
Better(a, b) ==
  \/ Told(a) /\ ~Told(b)
  \/ Told(a) /\ Told(b) /\ a.uptime7d > b.uptime7d
  \/ /\ a.uptime7d = b.uptime7d
     /\ \/ Timed(a) /\ ~Timed(b)
        \/ Timed(a) /\ Timed(b) /\ a.latencyMs < b.latencyMs
        \/ a.latencyMs = b.latencyMs /\ CompareUrls(a, b) < 0

\* The status tells scripts what happened: 0 with rows on stdout, 2 with
\* nothing because no proxy matches, 1 with nothing because of an error.
StatusIsTrue ==
  cli = "exited" =>
    /\ status = 0 <=> printed # <<>>
    /\ status = 2 =>
         /\ ~Unparsable(argv) /\ ValidFilters(FiltersOf(options))
         /\ options.limit = 0
            \/ \A i \in DOMAIN listing :
                 ~Matches(MappedRows(listing, Source(options))[i], Checked(FiltersOf(options)), Clock)

\* The rows printed are the best ones that match, best first, each fresh, at
\* a public address, and without an uptime that rests on too few checks.
PrintedAreBest ==
  \A i \in DOMAIN printed :
    /\ Matches(printed[i], Checked(FiltersOf(options)), Clock)
    /\ printed[i].ip[1] \notin {0, 10, 127} \cup (224..255)
    /\ Given(printed[i].uptime7d) => printed[i].checks7d >= 50
    /\ \A j \in DOMAIN printed : j < i => ~Better(printed[i], printed[j])
    /\ \A k \in DOMAIN listing :
         LET p == MappedRows(listing, Source(options))[k]
         IN  Matches(p, Checked(FiltersOf(options)), Clock) /\ p \notin ToSet(printed) =>
               ~Better(p, printed[i])

\* test-jsr.mjs:19 "API/GitHub fixture parity": both sources yield the same
\* rows for the same proxies, or none, but that the API's latencies are
\* rounded, and that rounding makes a number of a latency of another type, for
\* which a row from GitHub is rejected.
SourcesAgree ==
  \A i \in DOMAIN listing :
    LET api == MappedRows(listing, "api")[i]
        github == MappedRows(listing, "github")[i]
        latency == listing[i].latencyMs
    IN  /\ github # Invalid =>
             api = [github EXCEPT !.latencyMs = IF Given(@) THEN Round(@) ELSE @]
        /\ api # Invalid => (github = Invalid <=> Given(latency) /\ latency.text)

\* The ranking is a property of the proxies, not of the order in which the
\* snapshot lists them.
OrderIsIrrelevant ==
  cli = "print" =>
    LET mapped == MappedRows(listing, Source(options))
        distinct == \A i, j \in DOMAIN listing : i # j => CompareUrls(mapped[i], mapped[j]) # 0
    IN  distinct => Selected(Reverse(mapped), FiltersOf(options), Clock) = rows
=============================================================================
