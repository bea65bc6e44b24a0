--------------------------- MODULE ThreadedClient ---------------------------
(***************************************************************************)
(* What the Go and the Python client have in common: threads that call     *)
(* _rows() of one Client object and share its cache.  GoClient guards each *)
(* use of the cache with a mutex that it gives back while a request is     *)
(* under way; PyClient reads and writes it attribute by attribute, without *)
(* a lock.  Filters and ranking work on what _rows() returned and share    *)
(* nothing; JsClient has them.                                             *)
(***************************************************************************)
EXTENDS SnapshotServer

CONSTANTS
  Thread,       \* threads that use one client
  ThreadSources \* the sources clients are built with: "api", "github"

ASSUME ThreadAssumption == ThreadSources \subseteq {"api", "github"}

VARIABLES
  source,  \* the client's source
  cache,   \* the cached entry; snapshot 0: none
  pc,      \* where each call is
  start,   \* the clock as the call read it first
  sent,    \* the ETag sent as If-None-Match, 0 for none
  resp,    \* the response on its way, or received
  seen,    \* the cached snapshot that the call has looked at last
  got,     \* the snapshot whose rows the call returned
  outcome, \* how the call ended
  crossed, \* history: a 304 refreshed another entry than it confirmed
  torn     \* history: the checks that were made of another entry than was used then

callVars == <<pc, start, sent, resp, seen, got, outcome>>
threadVars == <<cache, callVars, crossed, torn>>
vars == <<now, snaps, source, threadVars>>

Entry == [ver : Nat, etag : Nat, expires : Int]
NoEntry == [ver |-> 0, etag |-> 0, expires |-> 0]

Outcome == {"none", "rows", "TimeoutError", "HTTPError", "RequestError", "TypeError",
            "NotModifiedWithoutCacheError", "SnapshotValidationError", "SnapshotTruncatedError"}

Phase == {"idle", "begun", "checked", "tested", "tagged", "requested", "answered", "decoding",
          "confirmed", "validated", "done"}

\* The header's max-age, at most AgeCap and AgeCap when it is missing.
CacheSeconds(maxAge) == IF maxAge = Absent \/ maxAge > AgeCap THEN AgeCap ELSE maxAge

SlipExpiresFromArrival(t) == now + CacheSeconds(resp[t].maxAge)

\* The expiry of an entry that the response of thread t stores or refreshes.
ExpiresAt(t) == start[t] + CacheSeconds(resp[t].maxAge)

SlipNoLowerEnd(v, time) == source = "api" => snaps[v].gen <= time + Future

GeneratedAtOk(v, time) ==
  source = "api" => snaps[v].gen \in (time - Past)..(time + Future)

Unexpired(e, time) == e.ver # 0 /\ time < e.expires

ThreadInit ==
  /\ source \in ThreadSources
  /\ cache = NoEntry
  /\ pc = [t \in Thread |-> "idle"]
  /\ start = [t \in Thread |-> 0]
  /\ sent = [t \in Thread |-> 0]
  /\ resp = [t \in Thread |-> NoResponse]
  /\ seen = [t \in Thread |-> 0]
  /\ got = [t \in Thread |-> 0]
  /\ outcome = [t \in Thread |-> "none"]
  /\ crossed = FALSE
  /\ torn = {}

-----------------------------------------------------------------------------
(* Steps that both clients have.                                           *)

Goto(t, phase) == pc' = [pc EXCEPT ![t] = phase]

\* What a call keeps while it runs is gone when it has returned.
Forget(t) ==
  /\ start' = [start EXCEPT ![t] = 0]
  /\ sent' = [sent EXCEPT ![t] = 0]
  /\ resp' = [resp EXCEPT ![t] = NoResponse]
  /\ seen' = [seen EXCEPT ![t] = 0]
  /\ got' = [got EXCEPT ![t] = 0]

SlipFailClearsCache(t, e) ==
  /\ Goto(t, "done")
  /\ outcome' = [outcome EXCEPT ![t] = e]
  /\ Forget(t)
  /\ cache' = NoEntry
  /\ UNCHANGED <<crossed, torn>>

\* The call fails with e; the cache stays.
Fail(t, e) ==
  /\ Goto(t, "done")
  /\ outcome' = [outcome EXCEPT ![t] = e]
  /\ Forget(t)
  /\ UNCHANGED <<cache, crossed, torn>>

SlipDeliverCached(t, v) ==
  /\ Goto(t, "done")
  /\ got' = [got EXCEPT ![t] = IF cache.ver = 0 THEN v ELSE cache.ver]
  /\ outcome' = [outcome EXCEPT ![t] = "rows"]
  /\ seen' = [seen EXCEPT ![t] = 0]
  /\ UNCHANGED <<start, sent, resp>>

\* The call returns the rows of snapshot v.
Deliver(t, v) ==
  /\ Goto(t, "done")
  /\ got' = [got EXCEPT ![t] = v]
  /\ outcome' = [outcome EXCEPT ![t] = "rows"]
  /\ seen' = [seen EXCEPT ![t] = 0]
  /\ UNCHANGED <<start, sent, resp>>

\* Bound: no call begins so late that the clock stops before its timeout.
ReadClock(t) ==
  /\ pc[t] = "idle"
  /\ now + Timeout <= MaxTime
  /\ start' = [start EXCEPT ![t] = now]
  /\ Goto(t, "begun")
  /\ UNCHANGED <<cache, sent, resp, seen, got, outcome, crossed, torn>>

Request(t, tag) ==
  /\ sent' = [sent EXCEPT ![t] = tag]
  /\ seen' = [seen EXCEPT ![t] = 0]
  /\ Goto(t, "requested")
  /\ UNCHANGED <<cache, start, resp, got, outcome, crossed, torn>>

\* The endpoint decides what to answer; the answer travels.
Answer(t) ==
  /\ pc[t] = "requested"
  /\ \E r \in Answers(sent[t]) : resp' = [resp EXCEPT ![t] = r]
  /\ sent' = [sent EXCEPT ![t] = 0]
  /\ Goto(t, "answered")
  /\ UNCHANGED <<cache, start, seen, got, outcome, crossed, torn>>

Unsuccessful(t) ==
  /\ pc[t] = "answered"
  /\ \/ resp[t].status = "broken" /\ Fail(t, "RequestError")
     \/ resp[t].status = "refused" /\ Fail(t, "HTTPError")

\* Nothing came for the length of the timeout: at the earliest now.
TimesOut(t) ==
  /\ pc[t] \in {"requested", "answered"}
  /\ now >= start[t] + Timeout
  /\ Fail(t, "TimeoutError")

\* A body is no JSON, truncated, of another shape, or has an invalid row.
BadBody(t) ==
  \/ "Malformed" \in Faults /\ Fail(t, "SnapshotValidationError")
  \/ "Truncated" \in Faults /\ source = "api" /\ Fail(t, "SnapshotTruncatedError")
  \/ /\ "BadRow" \in Faults
     /\ GeneratedAtOk(resp[t].ver, start[t])
     /\ Fail(t, "SnapshotValidationError")

\* A body that parses replaces the entry, whatever that is by now, and its
\* own rows are returned.
GoodBody(t) ==
  \/ /\ ~GeneratedAtOk(resp[t].ver, start[t])
     /\ Fail(t, "SnapshotValidationError")
  \/ /\ GeneratedAtOk(resp[t].ver, start[t])
     /\ cache' = [ver |-> resp[t].ver, etag |-> resp[t].etag, expires |-> ExpiresAt(t)]
     /\ Deliver(t, resp[t].ver)
     /\ UNCHANGED <<crossed, torn>>

\* The caller takes the result and may call again.
Return(t) ==
  /\ pc[t] = "done"
  /\ Goto(t, "idle")
  /\ outcome' = [outcome EXCEPT ![t] = "none"]
  /\ Forget(t)
  /\ UNCHANGED <<cache, crossed, torn>>

CommonStep(t) ==
  ReadClock(t) \/ Answer(t) \/ Unsuccessful(t) \/ TimesOut(t) \/ Return(t)

Environment == (Publish \/ Tick) /\ UNCHANGED <<source, threadVars>>

-----------------------------------------------------------------------------
(* Properties.                                                             *)

TypeOK ==
  /\ ServerTypeOK
  /\ source \in {"api", "github"}
  /\ cache \in Entry
  /\ pc \in [Thread -> Phase]
  /\ start \in [Thread -> Nat]
  /\ sent \in [Thread -> Nat]
  /\ resp \in [Thread -> Response]
  /\ seen \in [Thread -> Nat]
  /\ got \in [Thread -> Nat]
  /\ outcome \in [Thread -> Outcome]
  /\ crossed \in BOOLEAN
  /\ torn \subseteq {"expiry", "window"}

Succeeded(t) == pc[t] = "done" /\ outcome[t] = "rows"

\* Whatever the threads do to each other's entries, a call returns rows whose
\* generatedAt lies in the window around its clock, unless the entry was
\* replaced between its validation and the return (Python only).
WindowUnlessTorn ==
  "window" \notin torn /\ source = "api" =>
    \A t \in Thread :
      Succeeded(t) => snaps[got[t]].gen \in (start[t] - Past)..(start[t] + Future)

\* "Retained for at most 60 seconds": what a call returns was the endpoint's
\* current snapshot at most AgeCap before the call, unless a 304 refreshed
\* an entry it did not confirm, or an entry was replaced under a call.
RetainedUnlessCrossedOrTorn ==
  ~crossed /\ torn = {} =>
    \A t \in Thread : Succeeded(t) => CurrentSince(got[t], start[t] - AgeCap)

\* A call that was answered 200 returns what it was sent, however the cache
\* changed meanwhile.
FetchedIsCurrent ==
  \A t \in Thread :
    Succeeded(t) /\ resp[t].status = "200" => CurrentSince(got[t], start[t])

\* A thread that fails has left the entry alone: every change of the cache is
\* made by a call that then returns rows.
CacheWrittenOnlyBySuccess ==
  [][/\ cache' # cache =>
          \E t \in Thread :
            \/ pc'[t] = "done" /\ outcome'[t] = "rows" /\ pc[t] # "done"
            \/ pc[t] = "confirmed" /\ pc'[t] = "validated"
     /\ \A t \in Thread : pc[t] = "validated" => outcome'[t] \in {"none", "rows"}]_vars
=============================================================================
