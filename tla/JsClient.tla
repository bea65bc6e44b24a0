------------------------------ MODULE JsClient ------------------------------
(***************************************************************************)
(* The JavaScript client (packages/js/src/index.cjs): one Client object    *)
(* whose getProxies() is called by several asynchronous callers.  The      *)
(* event loop runs one synchronous stretch of a call at a time; a call     *)
(* gives up control while it waits for headers, while it waits for the     *)
(* body, and before it selects rows.  All calls share this.cache.          *)
(***************************************************************************)
EXTENDS SnapshotServer

CONSTANTS
  Caller,        \* asynchronous callers of one client
  Sources,       \* the sources clients are built with: "api", "github"
  Filters,       \* the filters callers pass
  DefaultWithin, \* checkedWithinMin when the caller gives none (30 min)
  MaxWithin      \* the largest checkedWithinMin (1440 min)

ASSUME ClientAssumption ==
  /\ Sources \subseteq {"api", "github"}
  /\ Filters \subseteq [within : Int \cup {Absent},
                        limit  : Nat \cup {Absent},
                        match  : SUBSET Proxy]
  /\ DefaultWithin \in Nat /\ MaxWithin \in Nat

VARIABLES
  source,   \* this.source
  cache,    \* this.cache: snapshot, ETag, expiresAt; snapshot 0: null
  pc,       \* where each call is
  start,    \* now read at the head of _rows()
  filter,   \* the validated filters of the call
  sent,     \* the ETag sent as If-None-Match, 0 for none
  resp,     \* the response on its way, or received
  got,      \* the snapshot whose rows _rows() returned
  outcome,  \* how the call ended
  rows,     \* the rows a successful call returned, each of a snapshot: <<v, p>>
  crossed   \* history: a 304 refreshed another entry than it confirmed

clientVars == <<cache, pc, start, filter, sent, resp, got, outcome, rows, crossed>>
vars == <<now, snaps, source, clientVars>>

Entry == [ver : Nat, etag : Nat, expires : Int]
NoEntry == [ver |-> 0, etag |-> 0, expires |-> 0]

Errors == {"TimeoutError", "HttpError", "FreeProxyError", "FilterValidationError",
           "NotModifiedWithoutCacheError", "SnapshotValidationError",
           "SnapshotTruncatedError"}
Outcome == Errors \cup {"none", "rows"}
Phase == {"idle", "requested", "answered", "reading", "selecting", "done"}

NoFilter == [within |-> DefaultWithin, limit |-> Absent, match |-> {}]

-----------------------------------------------------------------------------
(* Pure helpers.  A definition named Slip... is a plausible mistake in the  *)
(* definition after it; no specification uses one, the properties are      *)
(* tested with it put in the place of the correct definition.              *)

SlipNoCap(maxAge) == IF maxAge = Absent THEN AgeCap ELSE maxAge

\* The header's max-age, at most AgeCap and AgeCap when it is missing.
CacheSeconds(maxAge) ==
  IF maxAge = Absent \/ maxAge > AgeCap THEN AgeCap ELSE maxAge

SlipExpiresFromArrival(c) == now + CacheSeconds(resp[c].maxAge)

\* expiresAt of an entry that the response of call c stores or refreshes.
ExpiresAt(c) == start[c] + CacheSeconds(resp[c].maxAge)

SlipNoLowerEnd(v, t) == source = "api" => snaps[v].gen <= t + Future

\* _validateGeneratedAt: GitHub lists carry no generatedAt.
GeneratedAtOk(v, t) ==
  source = "api" => snaps[v].gen \in (t - Past)..(t + Future)

CheckedWithin(f) == IF f.within = Absent THEN DefaultWithin ELSE f.within

\* validateFilters: what makes it throw, and the filters it returns.
ValidFilters(f) == CheckedWithin(f) \in 1..MaxWithin
SlipDefaultDropped(f) == f
Validated(f) == [f EXCEPT !.within = CheckedWithin(f)]

\* The freshness filter of getProxies at time t.
Fresh(p, v, t, within) == LastChecked(p, v) \in (t - within)..(t + Future)

\* sortProxies(rows).slice(0, n): fewer than n members of M rank above p.
Best(M, n) ==
  {p \in M : n = Absent \/ Cardinality({q \in M : q < p}) < n}

Selection(v, f, t) ==
  {v} \X Best({p \in f.match : Fresh(p, v, t, f.within)}, f.limit)

-----------------------------------------------------------------------------
JsInit ==
  /\ source \in Sources
  /\ cache = NoEntry
  /\ pc = [c \in Caller |-> "idle"]
  /\ start = [c \in Caller |-> 0]
  /\ filter = [c \in Caller |-> NoFilter]
  /\ sent = [c \in Caller |-> 0]
  /\ resp = [c \in Caller |-> NoResponse]
  /\ got = [c \in Caller |-> 0]
  /\ outcome = [c \in Caller |-> "none"]
  /\ rows = [c \in Caller |-> {}]
  /\ crossed = FALSE

Init == ServerInit /\ JsInit

\* What a call keeps while it runs is gone when its promise has settled.
ForgetCall(c) ==
  /\ start' = [start EXCEPT ![c] = 0]
  /\ filter' = [filter EXCEPT ![c] = NoFilter]
  /\ sent' = [sent EXCEPT ![c] = 0]
  /\ resp' = [resp EXCEPT ![c] = NoResponse]
  /\ got' = [got EXCEPT ![c] = 0]

SlipFailClearsCache(c, e) ==
  /\ pc' = [pc EXCEPT ![c] = "done"]
  /\ outcome' = [outcome EXCEPT ![c] = e]
  /\ ForgetCall(c)
  /\ cache' = NoEntry
  /\ UNCHANGED <<rows, crossed>>

\* The call rejects with e; nothing the client keeps changes.
Fail(c, e) ==
  /\ pc' = [pc EXCEPT ![c] = "done"]
  /\ outcome' = [outcome EXCEPT ![c] = e]
  /\ ForgetCall(c)
  /\ UNCHANGED <<cache, rows, crossed>>

SlipDeliverCached(c, v) ==
  /\ pc' = [pc EXCEPT ![c] = "selecting"]
  /\ got' = [got EXCEPT ![c] = IF cache.ver = 0 THEN v ELSE cache.ver]
  /\ UNCHANGED <<outcome, rows>>

\* _rows() returns the rows of snapshot v; getProxies resumes later.
Deliver(c, v) ==
  /\ pc' = [pc EXCEPT ![c] = "selecting"]
  /\ got' = [got EXCEPT ![c] = v]
  /\ UNCHANGED <<outcome, rows>>

-----------------------------------------------------------------------------
(* The synchronous head of a call, up to its first await.                  *)

RejectFilters(c) ==
  /\ pc[c] = "idle"
  /\ \E f \in Filters : ~ValidFilters(f)
  /\ Fail(c, "FilterValidationError")

\* Bound: no call begins so late that the clock stops before its timer.
CanBegin(c, f) ==
  /\ pc[c] = "idle"
  /\ now + Timeout <= MaxTime
  /\ f \in Filters /\ ValidFilters(f)

Begin(c, f) ==
  /\ start' = [start EXCEPT ![c] = now]
  /\ filter' = [filter EXCEPT ![c] = Validated(f)]
  /\ UNCHANGED <<resp, rows>>

Unexpired(e, t) == e.ver # 0 /\ t < e.expires

\* The cached entry is still retained: validate it again and use it.
Hit(c, f) ==
  /\ CanBegin(c, f)
  /\ Unexpired(cache, now)
  /\ \/ /\ GeneratedAtOk(cache.ver, now)
        /\ Begin(c, f)
        /\ Deliver(c, cache.ver)
        /\ UNCHANGED <<cache, sent, crossed>>
     \/ /\ ~GeneratedAtOk(cache.ver, now)
        /\ Fail(c, "SnapshotValidationError")

\* Send a GET, conditional on the cached ETag, and arm the timer.
Request(c, f) ==
  /\ CanBegin(c, f)
  /\ ~Unexpired(cache, now)
  /\ Begin(c, f)
  /\ sent' = [sent EXCEPT ![c] = cache.etag]
  /\ pc' = [pc EXCEPT ![c] = "requested"]
  /\ UNCHANGED <<cache, got, outcome, crossed>>

-----------------------------------------------------------------------------
(* The endpoint decides what to answer; the answer travels.                *)
Answer(c) ==
  /\ pc[c] = "requested"
  /\ \E r \in Answers(sent[c]) : resp' = [resp EXCEPT ![c] = r]
  /\ sent' = [sent EXCEPT ![c] = 0]
  /\ pc' = [pc EXCEPT ![c] = "answered"]
  /\ UNCHANGED <<cache, start, filter, got, outcome, rows, crossed>>

-----------------------------------------------------------------------------
(* The race in _request() is decided: headers, or the timer.               *)

Unsuccessful(c) ==
  /\ pc[c] = "answered"
  /\ \/ resp[c].status = "broken" /\ Fail(c, "FreeProxyError")
     \/ resp[c].status = "refused" /\ Fail(c, "HttpError")

\* A 304 refreshes whatever entry this.cache holds when it arrives.
NotModified(c) ==
  /\ pc[c] = "answered"
  /\ resp[c].status = "304"
  /\ \/ /\ cache.ver = 0
        /\ Fail(c, "NotModifiedWithoutCacheError")
     \/ /\ cache.ver # 0
        /\ ~GeneratedAtOk(cache.ver, start[c])
        /\ Fail(c, "SnapshotValidationError")
     \/ /\ cache.ver # 0
        /\ GeneratedAtOk(cache.ver, start[c])
        /\ cache' = [cache EXCEPT !.expires = ExpiresAt(c)]
        /\ crossed' = (crossed \/ resp[c].ver # cache.ver)
        /\ Deliver(c, cache.ver)
        /\ UNCHANGED <<start, filter, sent, resp>>

\* The race is over, its timer cleared; the body is awaited without one.
AwaitBody(c) ==
  /\ pc[c] = "answered"
  /\ resp[c].status = "200"
  /\ pc' = [pc EXCEPT ![c] = "reading"]
  /\ UNCHANGED <<cache, start, filter, sent, resp, got, outcome, rows, crossed>>

SlipTimerOnlyForServer(c) == pc[c] = "requested"

\* Where the timer is armed: until the headers are there.
TimerArmed(c) == pc[c] \in {"requested", "answered"}

\* The call is over; a response that comes later is dropped.
TimerFires(c) ==
  /\ TimerArmed(c)
  /\ now >= start[c] + Timeout
  /\ Fail(c, "TimeoutError")

-----------------------------------------------------------------------------
(* What can be wrong with a body, in the order in which it is found.       *)

\* normaliseResponse: no JSON.
NoJson(c) == "Malformed" \in Faults /\ Fail(c, "SnapshotValidationError")

\* The envelope (or the list) has another shape, or its count is wrong; the
\* truncation of a wrong envelope is reported as such.
BadEnvelope(c) ==
  \/ "Malformed" \in Faults /\ Fail(c, "SnapshotValidationError")
  \/ "Truncated" \in Faults /\ source = "api" /\ Fail(c, "SnapshotTruncatedError")

\* mapRow: one invalid row rejects the snapshot, once generatedAt is accepted.
BadRow(c) ==
  /\ "BadRow" \in Faults
  /\ GeneratedAtOk(resp[c].ver, start[c])
  /\ Fail(c, "SnapshotValidationError")

BadBody(c) ==
  /\ pc[c] = "reading"
  /\ NoJson(c) \/ BadEnvelope(c) \/ BadRow(c)

\* The body parses: check generatedAt against the clock of the call's head,
\* then replace this.cache, whatever it holds by now.
GoodBody(c) ==
  /\ pc[c] = "reading"
  /\ \/ /\ ~GeneratedAtOk(resp[c].ver, start[c])
        /\ Fail(c, "SnapshotValidationError")
     \/ /\ GeneratedAtOk(resp[c].ver, start[c])
        /\ cache' = [ver |-> resp[c].ver, etag |-> resp[c].etag, expires |-> ExpiresAt(c)]
        /\ Deliver(c, resp[c].ver)
        /\ UNCHANGED <<start, filter, sent, resp, crossed>>

-----------------------------------------------------------------------------
SlipClockOfHead(c) == start[c]

\* The second reading of the clock, once _rows() has returned.
ClockAtEnd(c) == now

\* getProxies resumes: read the clock again, filter, sort, slice, copy.
Select(c) ==
  /\ pc[c] = "selecting"
  /\ rows' = [rows EXCEPT ![c] = Selection(got[c], filter[c], ClockAtEnd(c))]
  /\ outcome' = [outcome EXCEPT ![c] = "rows"]
  /\ pc' = [pc EXCEPT ![c] = "done"]
  /\ ForgetCall(c)
  /\ UNCHANGED <<cache, crossed>>

\* The caller takes the result and may call again.
Return(c) ==
  /\ pc[c] = "done"
  /\ pc' = [pc EXCEPT ![c] = "idle"]
  /\ outcome' = [outcome EXCEPT ![c] = "none"]
  /\ rows' = [rows EXCEPT ![c] = {}]
  /\ UNCHANGED <<cache, start, filter, sent, resp, got, crossed>>

Step(c) ==
  \/ RejectFilters(c)
  \/ \E f \in Filters : Hit(c, f) \/ Request(c, f)
  \/ Answer(c)
  \/ Unsuccessful(c) \/ NotModified(c) \/ AwaitBody(c) \/ TimerFires(c)
  \/ BadBody(c) \/ GoodBody(c)
  \/ Select(c) \/ Return(c)

ClientStep == \E c \in Caller : Step(c) /\ UNCHANGED <<now, snaps, source>>
Environment == (Publish \/ Tick) /\ UNCHANGED <<source, clientVars>>

Next == ClientStep \/ Environment

Spec == Init /\ [][Next]_vars

(***************************************************************************)
(* Fairness: the clock runs, a due timer fires and a resumed call goes on. *)
(* Nobody promises that an answer comes, or that a body does: LiveSpec     *)
(* adds the promise about bodies.                                          *)
(***************************************************************************)
CallStep(A) == A /\ UNCHANGED <<now, snaps, source>>

Fairness ==
  /\ WF_vars(Tick /\ UNCHANGED <<source, clientVars>>)
  /\ \A c \in Caller : /\ WF_vars(CallStep(TimerFires(c)))
                       /\ WF_vars(CallStep(Select(c)))

BodyFairness == \A c \in Caller : WF_vars(CallStep(GoodBody(c) \/ BadBody(c)))

FairSpec == Spec /\ Fairness
LiveSpec == FairSpec /\ BodyFairness

-----------------------------------------------------------------------------
(* Properties.                                                             *)

TypeOK ==
  /\ ServerTypeOK
  /\ source \in {"api", "github"}
  /\ cache \in Entry
  /\ pc \in [Caller -> Phase]
  /\ start \in [Caller -> Nat]
  /\ filter \in [Caller -> [within : Int, limit : Nat \cup {Absent}, match : SUBSET Proxy]]
  /\ sent \in [Caller -> Nat]
  /\ resp \in [Caller -> Response]
  /\ got \in [Caller -> Nat]
  /\ outcome \in [Caller -> Outcome]
  /\ rows \in [Caller -> SUBSET (Nat \X Proxy)]
  /\ crossed \in BOOLEAN

\* _rows() has succeeded: got[c] is the snapshot call c selects from.
Succeeded(c) == pc[c] = "selecting"

\* Cache, 304 and 200 alike: rows of the API source come from a snapshot
\* whose generatedAt lies in the window around the clock of their call
\* (_validateGeneratedAt is called on all three paths of _rows).
WindowOnEveryPath ==
  \A c \in Caller :
    Succeeded(c) /\ source = "api"
      => /\ snaps[got[c]].gen >= start[c] - Past
         /\ snaps[got[c]].gen <= start[c] + Future

\* "Retained for at most 60 seconds": what a call returns was the endpoint's
\* current snapshot at most AgeCap before the call, as the README says.
\* Two overlapping calls can break it.
RetainedAtMostCap ==
  \A c \in Caller : Succeeded(c) => CurrentSince(got[c], start[c] - AgeCap)

\* Nothing but a 304 that refreshed an entry it did not confirm breaks it:
\* not late bodies that overwrite newer entries, lost ETags or timeouts.
RetainedUnlessCrossed == ~crossed => RetainedAtMostCap

\* A call that was answered 200 returns what it was sent, however the cache
\* changed meanwhile: a snapshot as new as any published before the call.
FetchedIsCurrent ==
  \A c \in Caller :
    Succeeded(c) /\ resp[c].status = "200" => CurrentSince(got[c], start[c])

\* An entry is never retained past AgeCap from now, whatever max-age says
\* and however late its body arrived.
ExpiryBounded == cache.expires <= now + AgeCap

\* this.cache changes only together with the success of the call that made
\* the change: a call that rejects, for whatever reason and at whatever
\* point, and one whose timer has fired leave it alone.
CacheWrittenOnlyBySuccess ==
  [][cache' # cache =>
       \E c \in Caller : pc[c] \in {"answered", "reading"} /\ pc'[c] = "selecting"]_vars

\* getProxies filters by the clock at its end: a row that was acceptable when
\* the call began but aged out while the response travelled is not returned.
NoRowAgedOut ==
  [][\A c \in Caller : \A row \in rows'[c] \ rows[c] :
       LastChecked(row[2], row[1]) >= now - filter[c].within]_vars

\* index.d.ts: a snapshot that is current and inside the window when it is
\* checked is not rejected.  A slow answer breaks it.
NoFreshSnapshotRejected ==
  [][\A c \in Caller :
       pc[c] = "reading" /\ outcome'[c] = "SnapshotValidationError"
         => snaps[resp[c].ver].gen \notin (now - Past)..(now + Future)]_vars

\* The client is a SnapshotService: its callers never see the cache, nor each
\* other, but for a 304 that crosses.  It takes two overlapping calls to cross
\* one, or an endpoint that sends a 304 nobody asked for.
StatusOf(phase, end) ==
  CASE phase = "idle" -> "idle"
    [] phase = "done" -> IF end = "rows" THEN "succeeded" ELSE "failed"
    [] OTHER -> "active"

status == [c \in Caller |-> StatusOf(pc[c], outcome[c])]
Overlap == \E c, d \in Caller : c # d
Service == INSTANCE SnapshotService
  WITH since <- start, given <- rows, void <- crossed,
       Voidable <- Overlap \/ "Spurious304" \in Faults
ImplementsService == Service!Spec

\* Every request settles: with rows, or with an error.
EveryCallSettles == \A c \in Caller : pc[c] = "requested" ~> pc[c] = "done"
=============================================================================
