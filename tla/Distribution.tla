---------------------------- MODULE Distribution ----------------------------
(***************************************************************************)
(* scripts/prepare-distribution.mjs: make the directories to upload to     *)
(* Hugging Face and Kaggle from a downloaded all.json and stats.json.  The *)
(* source may be downloaded again while the script reads it, the script    *)
(* may be killed, and it may be started again, with the same output.       *)
(*                                                                         *)
(* The text of a source file is the JSON value it stands for; Undefined: no*)
(* such file; Odd: no JSON, or an object where an array should be, or the  *)
(* other way round.  Numbers are as in Rows.                               *)
(***************************************************************************)
EXTENDS Rows, SequencesExt

CONSTANTS
  Snapshots,  \* pairs [all, stats] of files that may be there
  Downloads,  \* pairs that may be downloaded later
  Requests,   \* argument lists: sequences of <<key, value>>
  MaxReplacements \* bound: downloads of a file

ASSUME ReplacementsAssumption == MaxReplacements \in Nat

VARIABLES
  source,    \* the files of the source directory
  output,    \* the output directory: its files, or Undefined
  prepare,   \* what the script does, or how the last run ended
  request,   \* its arguments
  texts,     \* the files as read for the checksums
  parsed,    \* the files as read for their content
  license,
  written,   \* the number of files it has written
  replacements,
  before,    \* history: the output directory when the run began
  made,      \* history: what the run that made the output directory knew
  steady     \* history: the source is as it was when the run began

distVars ==
  <<source, output, prepare, request, texts, parsed, license, written, replacements, before,
    made, steady>>

SourceFiles == {"all.json", "stats.json", "LICENSE-DATA"}
Unread == [f \in {"all.json", "stats.json"} |-> Undefined]

FIELDS ==
  <<"protocol", "ip", "port", "url", "anonymity", "https", "latency_ms", "latency_median_ms",
    "uptime_24h", "uptime_7d", "checks_7d", "exit_ip", "exit_shared", "country", "region", "city",
    "timezone", "asn", "asn_org", "sources_count", "first_seen", "last_checked">>

-----------------------------------------------------------------------------
(* The arguments.                                                          *)

RequestNames == {"source-dir", "output", "owner", "source-commit", "license-data"}

BadArgument(args) == \E i \in DOMAIN args : args[i][1] \notin RequestNames \/ args[i][2] = Undefined

NoRequest == [n \in RequestNames |-> Undefined]

\* The last of several equal arguments counts.
RequestOf(args) ==
  IF BadArgument(args) THEN NoRequest
  ELSE [n \in RequestNames |->
          LET uses == {i \in DOMAIN args : args[i][1] = n}
          IN  IF uses = {} THEN Undefined ELSE args[Max(uses)][2]]

\* Owner and commit have their form; all but the license is required.
RequestIsFine(r) ==
  \A n \in RequestNames \ {"license-data"} : r[n] # Undefined /\ r[n] # Odd

-----------------------------------------------------------------------------
(* validateSource.                                                         *)

\* The checks of a row; the public addresses are those of the client.
RowIsFine(row) ==
  /\ row # Odd
  /\ \A f \in ToSet(FIELDS) : row[f] # Undefined
  /\ row.protocol \in Protocols /\ row.anonymity \in Anonymity
  /\ PublicIpv4(row.ip)
  /\ IsGood(row.port) /\ row.port \in Ports
  /\ row.url = <<row.protocol, row.ip, row.port>>
  /\ IsGood(row.first_seen) /\ IsGood(row.last_checked)

CountOf(rows, Test(_)) == Len(SelectSeq(rows, Test))

\* row.latency_ms < 1000, which null is: it counts as 0, and text as a number.
Fast(row) ==
  \/ row.latency_ms = Null
  \/ /\ row.latency_ms # Undefined /\ row.latency_ms.number # Odd
     /\ row.latency_ms.number < 10000

Stable(row) ==
  /\ IsGood(row.uptime_7d) /\ row.uptime_7d >= 900
  /\ IsGood(row.checks_7d) /\ row.checks_7d >= 50

TotalsFor(rows) ==
  [all |-> Len(rows),
   http |-> CountOf(rows, LAMBDA r : r.protocol = "http"),
   socks4 |-> CountOf(rows, LAMBDA r : r.protocol = "socks4"),
   socks5 |-> CountOf(rows, LAMBDA r : r.protocol = "socks5"),
   https |-> CountOf(rows, LAMBDA r : r.https = TRUE),
   fast |-> CountOf(rows, Fast),
   stable |-> CountOf(rows, Stable),
   anonymous |-> CountOf(rows, LAMBDA r : r.anonymity \in {"anonymous", "elite"})]

CountriesFor(rows) ==
  [c \in {rows[i].country : i \in DOMAIN rows} \ {Null} |->
     CountOf(rows, LAMBDA r : r.country = c)]

\* Countries that stats.json lists beside those of the rows are not noticed.
ValidSource(rows, stats) ==
  /\ rows \notin {Odd, <<>>}
  /\ stats # Odd /\ stats.truncated # TRUE
  /\ IsGood(stats.generated_at)
  /\ stats.expires_at \in NoValue \/ IsGood(stats.expires_at)
  /\ \A i \in DOMAIN rows : RowIsFine(rows[i])
  /\ stats.totals # Undefined /\ stats.countries # Undefined
  /\ \A key \in DOMAIN TotalsFor(rows) : stats.totals[key] = TotalsFor(rows)[key]
  /\ stats.countries_count = Cardinality(DOMAIN CountriesFor(rows))
  /\ \A c \in DOMAIN CountriesFor(rows) :
       c \in DOMAIN stats.countries /\ stats.countries[c] = CountriesFor(rows)[c]

-----------------------------------------------------------------------------
(* What is written.                                                        *)

Sha256(text) == [sha256 |-> text]  \* no two texts share one

\* A value as the source has it, and as the script writes it.
Downloaded(value) == [layout |-> "downloaded", json |-> value]
Indented(value) == [layout |-> "indented", json |-> value]

\* What a reader gets back from a cell: null and "" are the same.
CsvCell(value) == IF value \in NoValue THEN Null ELSE value

Csv(rows) ==
  <<FIELDS>> \o [i \in DOMAIN rows |-> [j \in DOMAIN FIELDS |-> CsvCell(rows[i][FIELDS[j]])]]

IntegerFields == {"port", "latency_ms", "checks_7d", "exit_shared", "asn", "sources_count"}
NumberFields == {"latency_median_ms", "uptime_24h", "uptime_7d"}
NullableFields ==
  {"https", "latency_median_ms", "uptime_7d", "exit_ip", "country", "region", "city", "timezone",
   "asn", "asn_org"}

Schema ==
  [i \in DOMAIN FIELDS |->
     [name |-> FIELDS[i],
      type |-> IF FIELDS[i] \in IntegerFields THEN "integer"
               ELSE IF FIELDS[i] \in NumberFields THEN "number"
               ELSE IF FIELDS[i] = "https" THEN "boolean" ELSE "string",
      nullable |-> FIELDS[i] \in NullableFields]]

\* The number of the powers of ten, from 1000 to 10^9, that count reaches.
SizeCategory(count) == Cardinality({k \in 3..9 : count >= 10^k})

DatasetCard(r, observedAt, count) ==
  [size |-> SizeCategory(count), observed_at |-> observedAt, count |-> count,
   commit |-> r["source-commit"]]

SlipHashesOutput(r, read, observedAt, count) ==
  [source_commit |-> [r["source-commit"] EXCEPT !.capitals = FALSE],
   source_sha256 |-> Sha256(Indented(read["all.json"].json)),
   all_json_sha256 |-> Sha256(Indented(read["all.json"].json)),
   stats_json_sha256 |-> Sha256(read["stats.json"]),
   observed_at |-> observedAt, row_count |-> count]

Provenance(r, read, observedAt, count) ==
  [source_commit |-> [r["source-commit"] EXCEPT !.capitals = FALSE],
   source_sha256 |-> Sha256(read["all.json"]), all_json_sha256 |-> Sha256(read["all.json"]),
   stats_json_sha256 |-> Sha256(read["stats.json"]),
   observed_at |-> observedAt, row_count |-> count]

Datasets == <<"huggingface", "kaggle-dataset">>
Shared == <<"all.json", "all.csv", "schema.json", "LICENSE", "provenance.json">>

Own ==
  <<<<"huggingface", "README.md">>, <<"kaggle-dataset", "README.md">>,
    <<"kaggle-dataset", "dataset-metadata.json">>, <<"kaggle-notebook", "analysis.ipynb">>,
    <<"kaggle-notebook", "kernel-metadata.json">>>>

\* The files in the order in which they are written.
Outputs ==
  [i \in 1..15 |->
     IF i <= 10 THEN <<Datasets[1 + ((i - 1) \div 5)], Shared[1 + ((i - 1) % 5)]>> ELSE Own[i - 10]]

\* What a run writes to a path.
ContentOf(path, r, read, values, text) ==
  LET rows == values["all.json"]
      observedAt == values["stats.json"].generated_at
  IN  CASE path[2] = "all.json" -> Indented(rows)
        [] path[2] = "all.csv" -> Csv(rows)
        [] path[2] = "schema.json" -> Schema
        [] path[2] = "LICENSE" -> text
        [] path[2] = "provenance.json" -> Provenance(r, read, observedAt, Len(rows))
        [] path[2] = "README.md" -> DatasetCard(r, observedAt, Len(rows))
        [] path[2] = "dataset-metadata.json" -> [owner |-> r.owner, observed_at |-> observedAt]
        [] path[2] = "analysis.ipynb" -> [observed_at |-> observedAt]
        [] path[2] = "kernel-metadata.json" -> [owner |-> r.owner]

-----------------------------------------------------------------------------
Nobody == [request |-> NoRequest, texts |-> Unread, parsed |-> Unread, license |-> Undefined]

DistInit ==
  /\ \E pair \in Snapshots, text \in {Undefined, "license of the list"} :
       source = [f \in SourceFiles |->
         IF f = "all.json" THEN pair.all ELSE IF f = "stats.json" THEN pair.stats ELSE text]
  /\ output = Undefined
  /\ prepare = "idle"
  /\ request = NoRequest
  /\ texts = Unread
  /\ parsed = Unread
  /\ license = Undefined
  /\ written = 0
  /\ replacements = 0
  /\ before = Undefined
  /\ made = Nobody
  /\ steady = FALSE

\* What the script keeps in its variables.
locals == <<request, texts, parsed, license, written>>

Preparing == prepare \in {"reading", "writing"}

\* Another download puts a file in its place.
ReplaceSource(f) ==
  /\ replacements < MaxReplacements
  /\ replacements' = replacements + 1
  /\ \E pair \in Downloads :
       source' = [source EXCEPT ![f] = IF f = "all.json" THEN pair.all ELSE pair.stats]
  /\ source' # source
  /\ steady' = FALSE
  /\ UNCHANGED <<locals, output, prepare, before, made>>

\* The script ends, and its variables are gone.
Ends(how) ==
  /\ prepare' = how
  /\ request' = NoRequest /\ texts' = Unread /\ parsed' = Unread
  /\ license' = Undefined /\ written' = 0

\* parseArgs and the first checks of prepare.
BeginPrepare(args) ==
  /\ ~Preparing
  /\ IF /\ RequestIsFine(RequestOf(args))
        /\ RequestOf(args)["source-dir"] = "source"
        /\ Undefined \notin {source["all.json"], source["stats.json"]}
     THEN /\ prepare' = "reading"
          /\ request' = RequestOf(args)
          /\ UNCHANGED <<texts, parsed, license, written>>
     ELSE Ends("refused")
  /\ before' = output
  /\ steady' = TRUE
  /\ UNCHANGED <<source, output, replacements, made>>

\* Both files are read as text first.
ReadText(f) ==
  /\ prepare = "reading"
  /\ texts[f] = Undefined
  /\ f = "stats.json" => texts["all.json"] # Undefined
  /\ IF source[f] = Undefined
     THEN Ends("refused")
     ELSE texts' = [texts EXCEPT ![f] = Downloaded(source[f])]
          /\ UNCHANGED <<prepare, request, parsed, license, written>>
  /\ UNCHANGED <<source, output, replacements, before, made, steady>>

\* Then json() reads them once more.
ReadJson(f) ==
  /\ prepare = "reading"
  /\ texts["stats.json"] # Undefined
  /\ parsed[f] = Undefined
  /\ f = "stats.json" => parsed["all.json"] # Undefined
  /\ IF source[f] \in {Undefined, Odd}
     THEN Ends("refused")
     ELSE parsed' = [parsed EXCEPT ![f] = source[f]]
          /\ UNCHANGED <<prepare, request, texts, license, written>>
  /\ UNCHANGED <<source, output, replacements, before, made, steady>>

License ==
  LET text == IF Given(request["license-data"]) THEN request["license-data"] ELSE source["LICENSE-DATA"]
  IN  IF text \in {Undefined, "no such file"} THEN "CC0 fallback" ELSE text

SlipOverwrites ==
  /\ ValidSource(parsed["all.json"], parsed["stats.json"])
  /\ request.output # request["source-dir"]

\* The checks before the first output mutation.
MayMake ==
  /\ ValidSource(parsed["all.json"], parsed["stats.json"])
  /\ request.output # request["source-dir"]
  /\ output = Undefined

SlipMakesFirst ==
  /\ prepare = "reading"
  /\ parsed["stats.json"] # Undefined
  /\ output' = IF output = Undefined THEN <<>> ELSE output
  /\ IF MayMake
     THEN /\ prepare' = "writing"
          /\ license' = License
          /\ made' = [request |-> request, texts |-> texts, parsed |-> parsed, license |-> License]
          /\ UNCHANGED <<request, texts, parsed, written>>
     ELSE Ends("refused") /\ UNCHANGED made
  /\ UNCHANGED <<source, replacements, before, steady>>

MakeOutput ==
  /\ prepare = "reading"
  /\ parsed["stats.json"] # Undefined
  /\ IF MayMake
     THEN /\ prepare' = "writing"
          /\ license' = License
          /\ output' = IF output = Undefined THEN <<>> ELSE output
          /\ made' = [request |-> request, texts |-> texts, parsed |-> parsed, license |-> License]
          /\ UNCHANGED <<request, texts, parsed, written>>
     ELSE Ends("refused") /\ UNCHANGED <<output, made>>
  /\ UNCHANGED <<source, replacements, before, steady>>

NextPath == Outputs[written + 1]

\* The output directory with a file put in, or put in its place.
With(path, content) ==
  [p \in {path} \cup DOMAIN output |-> IF p = path THEN content ELSE output[p]]

WriteOutput ==
  /\ prepare = "writing" /\ written < Len(Outputs)
  /\ output' = With(NextPath, ContentOf(NextPath, request, texts, parsed, license))
  /\ written' = written + 1
  /\ UNCHANGED <<source, prepare, request, texts, parsed, license, replacements, before, made, steady>>

FinishPrepare ==
  /\ prepare = "writing" /\ written = Len(Outputs)
  /\ Ends("ok")
  /\ UNCHANGED <<source, output, replacements, before, made, steady>>

\* Killed between two steps, or with a file truncated.
KillPrepare ==
  /\ Preparing
  /\ Ends("killed")
  /\ \/ UNCHANGED output
     \/ /\ prepare = "writing" /\ written < Len(Outputs)
        /\ output' = With(NextPath, Undefined)
  /\ UNCHANGED <<source, replacements, before, made, steady>>

\* The operator makes room for another run.
RemoveOutput ==
  /\ ~Preparing
  /\ output # Undefined
  /\ output' = Undefined
  /\ before' = Undefined
  /\ prepare' = "idle"
  /\ UNCHANGED <<locals, source, replacements, made, steady>>

DistNext ==
  \/ \E f \in {"all.json", "stats.json"} : ReplaceSource(f) \/ ReadText(f) \/ ReadJson(f)
  \/ \E args \in Requests : BeginPrepare(args)
  \/ MakeOutput \/ WriteOutput \/ FinishPrepare \/ KillPrepare \/ RemoveOutput

DistSpec == DistInit /\ [][DistNext]_distVars

-----------------------------------------------------------------------------
(* Properties.                                                             *)

DistTypeOK ==
  /\ DOMAIN source = SourceFiles
  /\ prepare \in {"idle", "reading", "writing", "ok", "refused", "killed"}
  /\ DOMAIN request = RequestNames
  /\ written \in 0..Len(Outputs)
  /\ output # Undefined => DOMAIN output \subseteq ToSet(Outputs)
  /\ prepare = "writing" => output # Undefined /\ DOMAIN output = {Outputs[i] : i \in 1..written}
  /\ replacements \in 0..MaxReplacements
  /\ steady \in BOOLEAN

\* "Every input is parsed and validated before this first output mutation":
\* a run that is refused leaves the output directory as it found it, be it
\* missing, complete, or half made by a run that was killed.
RefusedLeavesOutput == prepare = "refused" => output = before

\* Whatever was killed and started again, the files of an output directory
\* are of one run over one validated pair, and a run that ends well has all.
OneSnapshot ==
  /\ output # Undefined =>
       \A path \in DOMAIN output :
         output[path] \in {Undefined, ContentOf(path, made.request, made.texts, made.parsed, made.license)}
  /\ prepare = "ok" =>
       /\ DOMAIN output = ToSet(Outputs)
       /\ \A path \in DOMAIN output :
            output[path] = ContentOf(path, made.request, made.texts, made.parsed, made.license)
       /\ ValidSource(made.parsed["all.json"], made.parsed["stats.json"])

\* The checksums of provenance.json are of the files from which the rows and
\* the time of observation were taken, if no file was replaced meanwhile.
ProvenanceIsTrue ==
  steady /\ prepare \in {"writing", "ok"} =>
    \A d \in ToSet(Datasets) :
      <<d, "provenance.json">> \in DOMAIN output =>
        LET p == output[<<d, "provenance.json">>]
            rows == output[<<d, "all.json">>].json
            stats == p.stats_json_sha256.sha256.json
        IN  /\ p.all_json_sha256 = Sha256(Downloaded(rows))
            /\ p.observed_at = stats.generated_at
            /\ ValidSource(rows, stats)
=============================================================================
