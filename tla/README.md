# Formal models of free-proxy-sdk

free-proxy-sdk retrieves a snapshot of public proxies over HTTP, normalises and
filters its rows, ranks them and returns them. It exists in eleven languages.
Four of the clients keep state between calls (a cached snapshot with an ETag and
an expiry); they are the core. Around them are a command line, the scripts that
generate code, copy READMEs and package the dataset, and the script that releases
the PHP package. This directory models all of these, checks the models with TLC
and proves with TLAPS the safety of the four clients, of rotation, of ranking and
the command line, of the PHP release, of the README sync, of the generated files
and of the dataset preparation.

## 1. Inventory

| Component | State | Operations | What is hard | What makes it correct |
|---|---|---|---|---|
| JavaScript client `packages/js/src/index.cjs` | `this.cache` (rows, etag, generatedAt, expiresAt) | `getProxies`, `pickBest`, `rotate` | calls overlap at every `await`; timer against answer; 304 against a cache that moved on | rows only from acceptable snapshots; bounded retention; failures change nothing; every call settles |
| Rust client `packages/rust/src/lib.rs` | `Mutex<Option<Cache>>` | `get_proxies`, `pick_best`, `rotate` | threads queue for a mutex held across the request; clock read before the lock; poisoning | one request at a time; ETag and entry stay together; the mutex always comes free |
| Go client `packages/go/client.go` | `cache` under `mu`, released around the request | `GetProxies`, `PickBest`, `Rotate`, `Next` | the interleavings of JavaScript, and a context that is cancelled before the body is read | as above |
| Python client `packages/python/.../client.py` | `self.cache`, no lock; monotonic expiry | `get_proxies`, `pick_best`, `rotate` (a generator) | every use of `self.cache` may see another entry | as above, unless an entry is replaced under a call |
| Rotation (in each of the four) | members, index | `next` | members age out while the index advances | each member that stays fresh is returned in turn; no stale one is |
| Row mapping, filters, ranking | none | `mapRow`, `validateFilters`, `sortProxies` | boundary and missing values; two sources that write them differently | the rows returned are the best that match, in a total order that does not depend on the snapshot's |
| Command line (JavaScript, Python) | none | one call and an exit status | the exit status of each kind of failure | the status tells rows, no rows and errors apart |
| PHP repository sync `scripts/sync-php-repository.mjs` | a GitHub branch and tag | copy, commit, tag | crash between requests; lost answers; re-runs; concurrent runs and pushes | a tag holds its package and never changes; a re-run completes a release |
| README sync `scripts/sync-readmes.mjs` | the READMEs | write, `--check` | blocks spliced into moving text; nested blocks; kills in the middle | what it says is so; nobody's own text is lost, but for an edit made between a read and its write |
| Generated files `generate-fields`, `build-jsr`, `build-js` | eleven generated files | write, `--check` | one script reads what another writes; kills; edits | what they say is so; drift is noticed |
| Dataset preparation `scripts/prepare-distribution.mjs` | an output directory | validate, write | the source is read twice; kills; re-runs into what is left | no output before validation; one snapshot per output; true checksums |
| Stateless clients (Dart, Elixir, PHP, Ruby, .NET, Perl, R) | none | fetch, filter | none of their own | same verdicts as the others |
| Release workflows | files | copy, publish | order of jobs | the CI job that checks generated files is modelled, the rest is not |

The clients do not talk to each other. Each one calls an injected *transport*
(an HTTP GET with an optional `If-None-Match`) and an injected *clock*; the
callers of one client share its cache. The endpoint publishes snapshots and
answers conditional requests. The scripts share files: `build-jsr` reads what
`generate-fields` writes, and the workflow `distribution-ci` runs and judges them.
`hazards` in `PROJECT.json` lists what is hard to test in this code, each at its
line, with the properties that cover it.

## 2. Plan

The order of the modules was the order of importance: what the callers of a
client rely on came first, then what publishes the packages.

1. `SnapshotServer` - clock, endpoint and network, shared by all clients.
2. `JsClient` + `JsClientProofs` - the JavaScript client.
3. `SnapshotService` - the abstract caching service, which `JsClient` and
   `RustClient` implement; `RustClient` + `RustClientProofs` - the Rust client.
4. `Rotation` + `RotationProofs` - rotating over the result of one call, in both
   designs.
5. `ThreadedClient`, `GoClient`, `PyClient` + `ThreadProofs` - the two clients
   whose threads meet between the uses of the cache.
6. `PhpSync` + `PhpSyncProofs` - the release of the PHP package.
7. `Rows`, `Cli` - mapping, filters, ranking and the command line.
8. `ReadmeBlocks`, `SyncReadmes` + `ReadmeProofs` - the script that copies blocks
   between READMEs.
9. `GeneratedFiles`, `Distribution` - the generated files and the preparation of the
   dataset; `Tools` + `ToolProofs` - these, the README sync and the command line side by
   side.

What is left of it: the verdicts of the other ports on odd numbers beside those of
`Rows`.

## 3. Modules

**SnapshotServer** (external). A snapshot is its number, which is also its
ETag; `snaps[v]` says when it was generated and when it went live. `Answers(tag)`
is the set of answers to a conditional GET: a 304 exactly when the tag is that of
the current snapshot, else a 200, plus the enabled `Faults`: `refused` (a status
outside 200..299), `broken` (the transport rejects), `NoTag` (a proxy strips the
ETag), `Spurious304` (a 304 to an unconditional GET). `CurrentSince(v, t)` says
that `v` was still the endpoint's current snapshot at some instant not before
`t`; retention properties are stated with it. A row is a natural number (its rank)
with an age relative to its snapshot.

**JsClient**. `pc[c]` is where call `c` of `getProxies` is:

| State and action | Code |
|---|---|
| `idle` -> `RejectFilters`, `Hit`, `Request` | validateFilters and the synchronous head of `_rows` and `_request`, one stretch without an `await` |
| `requested` -> `Answer` | outside the program |
| `answered` -> `Unsuccessful`, `NotModified`, `AwaitBody` | the race in `_request` won by the response; `_rows` up to the body |
| `requested`, `answered` -> `TimerFires` | the race won by the timer |
| `reading` -> `GoodBody`, `BadBody` | `normaliseResponse`, envelope, `mapRow`, write to `this.cache` |
| `selecting` -> `Select` | the rest of `getProxies`, with its own clock reading |
| `done` -> `Return` | the caller takes the result |

`Faults` adds `Malformed`, `Truncated`, `BadRow` for bodies. `crossed` is a
history variable: a 304 refreshed an entry other than the one it confirmed.

**RustClient**. The same states with `locking` between the clock reading and the
mutex. `holder` is the thread inside the critical section, which spans the
transport call; steps that take and release the mutex without waiting in between
(a hit) are one action. `poisoned` models a panic of a caller-supplied transport.
The transport's own timeout covers the body, as reqwest's does.

**SnapshotService**. What callers may rely on: a call that succeeds returns rows, each
`<<snapshot, proxy>>`, that were checked within the largest window, all from a snapshot that was current at most
`AgeCap` before the call; a call may fail at any time. The promise is void once
a 304 has been taken for the confirmation of a snapshot that it is not about, and
`Voidable` says whether that can happen: in Rust only if an intermediary answers an
unconditional request with one (the fault `Spurious304`), in JavaScript also where
calls overlap.

**Rotation**. `rotate` after its rows have come, for a caller that mixes `next()`
with the passing of time. `design = "skip"` is JavaScript, Go and Rust (one action
`NextSkip`: the loop over all members runs without interruption by one clock);
`"remove"` is the Python generator: `Resume`, then `ReadCutoff` (the loop's head)
and `Look` (its body, which reads the clock again) in turn until it yields or
returns; the clock may tick between any two. `waiting[m]` and `turns[m][x]` are history
variables: deliveries of others, and of `x`, since `m` was last delivered. Members are distinct here;
`list.remove`, which drops the first equal row, is `RemoveFirst`. A rotation belongs to one thread (Go's `Rotator` has no lock).

**ThreadedClient**, **GoClient**, **PyClient**. Threads share one client. What the
two ports have in common is in `ThreadedClient`: the clock reading, the request, the
timeout, the body, the failures. They differ in how they use the cache. Go takes
`mu` for each use, so each critical section is one step (`GoCheck`,
`GoNotModified`, the write in `GoDecode`), and `request()` cancels its context when
it returns, before the body is read: `GoReturnResponse` and then `GoDecode`, which
may find the body lost. Python has no lock, and the interpreter may switch threads
between any two uses of `self.cache`, so each use is a step:

| `pc[t]` | Use of `self.cache` in `_rows` |
|---|---|
| `begun` | the expiry (`PyCheck`) |
| `checked`, `validated` | the generatedAt of the entry, then its rows (`PyValidate`, `PyReturnRows`) |
| `tested`, `tagged` | the ETag tested, then read (`PyTestTag`, `PyRequestTagged`: None by then is urllib's TypeError) |
| `answered`, `confirmed` | a 304: generatedAt, then the new expiry (`PyNotModified`, `PyRefresh`), then the rows |
| `answered` | a 200: the body, and the entry replaced as a whole (`PyBody`) |

`torn` is a history variable: `"expiry"` when the entry whose expiry was checked, or
whose generatedAt was checked before its refresh, is not the one used then, `"window"`
when the rows that are returned are not those of the entry validated last. The
properties say what holds although entries are replaced, and name `torn` and
`crossed` where it does not.

**PhpSync**. One action per request of the script, in the order of the code; each
may fail, and one that takes effect may lose its answer (`TookEffect`). `commits`
is all that GitHub stores, with parents; `branch` and `tags` point into it.
`Push` is somebody else. A run that has ended may be started again, with another
package or version. `published` and `quiet` are history variables.

**Rows**. The table of fields, `mapRow`, `validateFilters`, `getProxies`'
selection and `sortProxies` as operators: numbers keep their limits and rounding,
text keeps what the code tests of it. A raw latency is the number JavaScript makes of it
and whether it is of another type: `Math.round` turns `"1200"` from the API into 1200,
where GitHub's list is rejected for it. `Sorted` says where the stable sort puts each of
the rows that match: after those that rank before it, and after the equal ones that
came before it. **Cli**: `parse()` (of two uses of an option the last counts), the call,
the output and the exit status, with the endpoint's listing written as the API and as
the list on GitHub write it (`Raw`), so that one run sees both mappings of one proxy.

**ReadmeBlocks**, **SyncReadmes**. A README is a sequence of tokens: marks, titles,
the banner and text. `Drafts` is the loop over the shared blocks, the README
after each round (`Replaced`, with `markedBlock`: both marks exactly once, in order), and
`Updated` its end with `assertBannerIsFirst`. `Words` is what a piece of text may say. The
script deals with one README after the other: `ReadPackage` reads and compares it, and
`WritePackage` writes it back after another `await`, from what was read (`original`). It
may be killed anywhere, in `writeFile` too. People edit READMEs at any time. An edit
between the two awaits is overwritten, and its text lost; `overtaken` is a history
variable that says so, and `OwnTextKept` makes this its one exception.

**GeneratedFiles**. A checkout with its sources and generated files; a file is a
version of a source in a form. The three scripts deal with one target after the
other, read what the code reads before its first target, and are killed, run in
any order and judged by `CheckPasses` (a clean checkout with `--check`) and
`DistributionCiPasses` (the job `jsr`).

**Distribution**. `parseArgs`, two readings of each source file (as text for the
checksum, as JSON for the content), `validateSource` with the totals and countries
it recomputes, and the fifteen output files in the order they are written. The
source may be downloaded again between any two steps. `made` is a history
variable: what the run that made the output directory knew.

**Tools** puts the README sync, the generated files, the dataset preparation and the
command side by side, one per behaviour: they share no state.

**MCJsClient**, **MCRustClient**, **MCRotation**, **MCThreads**, **MCPhpSync**,
**MCGeneratedFiles**, **MCTools** give constants their values. Definitions named
`Slip...` are plausible mistakes in the definition after them; no specification
uses them. They serve to show that the properties can fail.

Abstractions: rows keep rank and age and whether they match the filters; bodies
keep whether they are acceptable; ETags are snapshot numbers, so a server that
reuses an ETag is outside the model; `pickBest` is `getProxies` with a prefix and
has no action. A SHA-256 is the text it is of. The layout of JSON, the quoting of CSV
and the wording of the dataset card are left out, as are the two spellings of an IPv4
octet. `localeCompare` is some total order of URLs.

## 4. Runs

Time is in units of at least 5 s. Only the order of the constants matters
(`Future < Timeout < AgeCap < Past`, 5 < 10 < 60 < 120 s), so the smallest
numbers with that order are used.

| Run | Result | Shows |
|---|---|---|
| `js_client` | pass | safety of two overlapping calls under all faults; refinement to `SnapshotService` (3.4 million states) |
| `js_progress` | pass | every call settles, if bodies follow their headers |
| `js_crossed_304` | violation | retention past 60 s (JS README line 62): a 304 for snapshot 2 refreshes snapshot 1, stored meanwhile by a slower call |
| `js_endless_body` | violation | a body that never ends is not covered by `timeoutMs` (index.d.ts lines 135 and 201) |
| `js_late_snapshot` | violation | a snapshot generated while the request is under way is rejected as future (JS README line 60) |
| `rust_client` | pass | safety of two threads under all faults, panics included |
| `rust_service` | pass | refinement to `SnapshotService`; the mutex always comes free |
| `threads` | pass | safety of two threads on a Go or a Python client under all faults: which interleavings break the retention or the window, and that nothing else does (11.5 million states) |
| `php_sync` | pass | two overlapping runs, four starts, a push by others, every failure and lost answer (3.0 million states) |
| `tools` | pass | the scripts with edits, kills and re-runs, and the command line over all its argument lists and listings (1.5 million states) |
| `jsr_drift` | violation | the job that announces "JSR generation drift ... passed" (`test-jsr.mjs` line 19) builds the files before it checks them, so it passes with stale ones committed |
| `rotation` | pass | no fresh member is lost; keep-and-skip is the round robin `index.d.ts` line 228 promises: no member comes twice before one that stays fresh has come; the removing generator, whose index jumps when the list shrinks, passes a fresh member over at most `1 + (n-1)(n-2)/2` times |

Bounds. `MaxTime` lets an entry be stored, expire and be revalidated, and a call
outlast an entry; `MaxSnapshots = 2` gives an old and a new snapshot, which is
what staleness compares; two callers are the smallest number that can overlap,
and each may call any number of times. `MCFilters` holds the default filter and one
that is rejected. `SYMMETRY` over callers is used in safety runs only. At the end
of the clock a JavaScript call may not begin (`CanBegin`), so that its timer can
still fire; in the Rust model a request that is pending at the end times out
(`TimedOut`): `MaxTime` stands for all later time. `Lags` is `{0}` where snapshots go live
when they are generated, and `{1}` in `js_client`, so that snapshots age past the
`generatedAt` window within the bound. `MaxWithin` equals the default window in
`rust_service` and `js_client`, so that the service's rows age out within the bound, the
one row before the other; and the window is longer than `AgeCap`, so that rows of a
snapshot retained too long would still be returned.

`rotation`: members age out at four different times (`Within = 2`, `Future = 1`), so
each of the four can go at a moment of its own; nine calls are more than two
rounds, and `1 + (n-1)(n-2)/2` is attained. It sets `CHECK_DEADLOCK FALSE`
because a caller may stop asking: `MaxCalls` and the end of the clock.

`threads`: two threads tear and cross each other's entries; an ETag-less answer, a 304
nobody asked for and a snapshot that goes live late are all within two snapshots and
`MaxTime = 4`. `Timeout < AgeCap < Past` keep their order, `Future` is 0. A call does
not begin in the last `Timeout` of the clock, so that each can time out; at the end
all threads are idle, hence `CHECK_DEADLOCK FALSE`.

`php_sync`: four starts let a run fail, be repeated, overlap and release another
version; one push moves the branch under a run. Both trees occur in both versions, so
that a version may be asked for with the wrong package. It stops when starts and
pushes are used up, hence `CHECK_DEADLOCK FALSE`.

`tools`: two package READMEs are the first and the rest of the loop; two edits give a
README and the root different blocks. `MCReadmes` holds texts with a block missing,
doubled, nested either way, and without the banner. Two edits of sources let
`build-jsr` see an old table. `MCListings` sets one value at a time to its limits,
to an odd and to a missing one (a latency also to one of another type that reads as a
number), and combines up to three good rows; `MCSnapshots`
fails each check of `validateSource`; one download suffices for mixed readings.
`tools` and `jsr_drift` set `CHECK_DEADLOCK FALSE`: the command exits, and the
operator may leave the scripts alone.

Fairness. JavaScript: the clock runs, a due timer fires, a resumed continuation
runs - the event loop's promises - and in `LiveSpec` that a body ends once its
headers are there, which the code does not enforce (`js_endless_body`). Rust:
the clock runs and a transport honours the timeout it is given (`Transport::get`
receives it). Nothing is assumed of the endpoint or of who gets the mutex. The other runs state
safety only: Go and Python wait for nothing but a request that has a timeout, and the
scripts are sequences.

## 5. Proofs

Checked by TLAPS for every value of the constants that satisfies the named
assumptions: any number of callers, any faults, any schedule, any listing, any
arguments. `WindowAssumption` orders the four constants of the clients;
`ServerAssumption`, `ClientAssumption`, `ThreadAssumption`, `SyncAssumption`,
`RotationAssumption` and `EditsAssumption` give the other constants their types.
`ValuesAssumption` says that null, undefined and an odd value are no numbers and
differ; `ArgvsAssumption` that arguments are a sequence, in which `Number()` makes a
number or NaN of those of the five numeric options; `ListingsAssumption` that each
value of a listing has its form, or is odd, or is missing. `BlocksAssumption` says that
no shared block is called `banner`, which is set apart in the code too,
`ReadmesAssumption` that READMEs are texts, `ReplacementsAssumption` that downloads are
counted. `NoDirectory` - `Undefined`, which stands for the absence of a directory, is no
function and so no directory - is a hypothesis of `ToolsTypeOKHolds` and not an `ASSUME`,
because TLC cannot enumerate all functions.

* `SnapshotServerProofs`: time and publication only grow; being current since
  `t` is preserved by both and weakens with an earlier `t`.
* `JsClientProofs`: the safety properties of `js_client`, from the inductive
  invariant `IInv`. The properties speak of calls that have rows; `IInv` adds
  what makes them so: the answer in flight was current when the call began
  (`ServerHonest`), and the entry was current `AgeCap` before it expires unless
  a 304 crossed (`EntryOK`). `ImplementsServiceHolds` maps every step to a step of
  `SnapshotService` or a stutter. It needs two more facts (`ServiceInv`): a call
  selects with filters that were validated, and where there is one caller and no
  spurious 304, the ETag on the wire is the entry's and a 304 confirms the entry, so
  that none crosses. Hence `SequentialCallsRetainAtMostCap`: what `js_crossed_304`
  finds violated is true of calls that follow each other.
* `RustClientProofs`: the safety properties of `rust_client`, and
  `ImplementsServiceHolds`: initial states map to initial states, every step
  to a step or a stutter. `IInv` ties the request to the mutex (`Guarded`:
  the holder is the thread in flight and sent the cached ETag), which is why a
  304 cannot cross here: it confirms the ETag that was sent, that ETag is still
  the cached one, and an ETag is stored with its own snapshot.

* `ThreadProofs`: the safety properties of `threads`, each for `GoSpec` and for
  `PySpec`, from one inductive invariant that the steps of either client preserve.
  `EntryOK` says of the entry, and `CallOK` of every call, where it stands in its
  own terms: the answer on its way is honest (`RespOK`), the snapshot seen last was
  current recently enough for what was checked of it (`SeenOK`), the rows that are
  returned have what the properties claim (`RowsHonest`). `GoIsNeverTorn` shows that
  the mutex buys Go what Python lacks: there `torn` stays empty, so the window holds
  without condition. The proof made the definition of `torn` more precise: an entry
  that is replaced and put back between the check and the refresh of a 304 needs
  three threads, one more than the run has.
* `PhpSyncProofs`: `TagHoldsPackage` and `DoneMeansPublished`. The invariant adds
  what each run knows after each request - the commit it is going to tag has the
  tree of its package - and that commits and tags, once there, are never changed,
  which carries that knowledge over the steps of everybody else. `TagsOnBranch` and
  `BranchKeepsHistory` speak of `History`, a recursive function. Its unfolding is
  proved without an induction rule: parents are older than their children, so among
  the commits for which something failed there would be an oldest one, and its parent
  leads to a contradiction (`LeastOfNaturals`, `LineUnfolds`, `LineIsTransitive`).
  `AncestryInv` then adds what the runs have read: the head from which a run has
  compared contents, and the commit it is going to tag, are in the branch's history.
  `QuietInv` says what a run may rely on while nobody disturbs it - the head it read
  is the branch's, the tag it found missing still is, its commit's parent is the head -
  so that no request of it is refused.
* `RotationProofs`: `EndsOnlyStale`, `OneRound` and `NotStarved`, for any number of
  members. Where the list keeps its length, the index reaches the member at distance
  `d` after `d` looks, and different members are at different distances
  (`DistanceIsUnique`). The invariant is `InTurn`: since a fresh member was delivered, one
  that is nearer than it was not, and one that is further was at most once. A call moves
  the nearest fresh member to the end of the round and leaves the order of the rest
  that may still come; and a round that returns nothing has seen every member stale. Where
  stale members are removed
  the distance may grow when the list shrinks under the index; the
  potential `2 * (waiting + d) + Pending(Len(rows))`, where `Pending(k)` is what the
  removals that are still possible can add, does not grow between two deliveries of a
  member, and it starts within the bound of `NotStarved` after each.
* `ToolProofs`, on the command line: `PrintedAreBest`, `OrderIsIrrelevant`, `SourcesAgree` and `StatusIsTrue`,
  for every listing, clock and list of arguments. Each row has a key of ten integers;
  `Compare` gives the sign of the first difference (`CompareIsFirst`), so it is a total
  order of keys and, with the place in the listing, a strict order of the rows kept.
  In a strict order of a finite set each rank is taken exactly once (`RankIsTaken`,
  `PlacesInOrder`), so `Sorted` is a permutation in that order and `slice` a prefix of
  it: nothing that is left out is better than what is printed. For the reversed listing
  the order is the same up to a bijection of the places, if no two rows have one URL,
  and ranks do not change under a bijection (`PlacesCorrespond`). That mapped rows can
  be ranked and are public is proved of `MapRow` (`MappedIsRankable`, `PublicIsOutside`);
  `SourcesAgree` compares the two mappings field by field; they differ in the latency
  only (`LatenciesAgree`). The invariant `CliInv` ties options, rows,
  output and status to the arguments, step
  by step.
* `ReadmeProofs`: `SyncOutcomeIsTrue` and `OwnTextKept`, for any blocks, texts, edits and
  kills. What the loop over the blocks computes is a recursive function; it unfolds
  (`DraftsUnfold`) because there would be a first round at which it does not (`UpTo`).
  The hard half is that `--check` may believe an unchanged README: a block may contain
  another, so a later round could undo an earlier one and the README still end as it
  was. Call a *defect* a place where the README, followed alongside the root from a
  start marker on, departs from it. A round that changes the README leaves strictly
  fewer defects, so nothing can be undone, and a README that ends as it began was
  changed by no round: every block is the root's, nested or not. Where no block holds
  another, a splice only shifts what is outside it (`Moved`, `Shift`), so the blocks
  spliced before stay (hence a run that writes leaves the READMEs in sync), and
  `OwnTextMoved`: a shift keeps the order of the text outside all blocks, hence the
  text. `SyncInv` adds to the outcome what a run in the middle knows (`RunKnows`): with
  `--check`, that it has found drift exactly if a package behind it lacks a block of the
  root; else that flat READMEs stay flat and the packages behind it share every block.
  `WriterKnows` adds what it holds between reading a README and writing it: a text that
  can be synchronised, and the one that is still there unless it was overtaken.
* `ToolProofs`, on generated files: `OutcomeIsTrue` and `CheckPassesAfterwards`, for any
  edits, kills and order of the scripts. `Progress` says of a running script that nobody
  has disturbed that the input it holds is still what it would read, and that the
  targets behind it are what it wants; a script that checks has written nothing, so what
  it found stale still is. On the dataset: `RefusedLeavesOutput`, `OneSnapshot` and
  `ProvenanceIsTrue`, for every source, every argument list, and any sequence of
  downloads, runs, kills and removals. `ReadingOK` says that while it reads the script
  has touched nothing and, if no download came between, holds what is there;
  `WritingOK` that the files there are the first `written` ones, whole and of this run;
  `MadeOfOneReading` that without a download the text and the value of a file are of
  one version.
* `ToolProofs`, on types: `ToolsTypeOK`, with one invariant for each tool. `FilesInv` adds
  to the types of files that what a script holds is a file of its kind and form;
  `DistTyped` joins the types to the invariant of the output, which says which files are
  there; `CliTyped` adds that rows are those selected. `ToolsAreTools` carries these, and all
  that is said of one tool, over to `Tools`.

Only model-checked: `EveryCallSettles` and `MutexComesFree` (liveness and fairness are
outside the prover's reach), and the four disagreements above.

## 6. Not modelled

* The stateless clients (Dart, Elixir, PHP, Ruby, .NET, Perl, R): one request each and
  no state between calls; of their mapping and ranking `Rows` models one port.
* How the ports differ in reading numbers (`Number()` against `int()`, floats in Go).
* The Python command: the JavaScript one with argparse in front.
* The workflows, but for the job `jsr`; test scripts and `contract-test.mjs`.
* Clock steps: JavaScript, Go and Rust use the wall clock, which the models take as
  monotone; nothing says what a client should do when it is stepped back.
* Two runs of `prepare-distribution` or of the README sync at once, and quoting in its CSV.
* A Go `Rotator` shared by goroutines: it has no lock, and no doc or test shares it.
