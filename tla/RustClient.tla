----------------------------- MODULE RustClient -----------------------------
(***************************************************************************)
(* The Rust client (packages/rust/src/lib.rs): one Client shared by        *)
(* threads.  rows() reads the clock, takes the cache mutex and keeps it    *)
(* through the transport call, so requests are serialised.                 *)
(***************************************************************************)
EXTENDS SnapshotServer

CONSTANTS
  Caller,        \* threads that share one client
  Sources,       \* the sources clients are built with: "api", "github"
  Filters,       \* the filters callers pass
  DefaultWithin, \* checked_within_min when the caller gives none (30 min)
  MaxWithin,     \* the largest checked_within_min (1440 min)
  Nobody         \* the mutex is free

ASSUME ThreadAssumption ==
  /\ Nobody \notin Caller
  /\ Sources \subseteq {"api", "github"}
  /\ Filters \subseteq [within : Nat \cup {Absent},
                        limit  : Nat \cup {Absent},
                        match  : SUBSET Proxy]
  /\ MaxWithin \in Nat /\ DefaultWithin \in 1..MaxWithin

VARIABLES
  source,   \* self.source
  cache,    \* the Option<Cache> in the mutex: snapshot 0 is None
  holder,   \* the thread that holds the mutex
  poisoned, \* a thread panicked while it held the mutex
  pc,       \* where each call is
  start,    \* now read at the head of rows(), before the lock
  sentAt,   \* when its request went out, while one is in flight
  filter,   \* the validated filters of the call
  sent,     \* the ETag sent as If-None-Match, 0 for none
  resp,     \* the response the transport is about to return
  got,      \* the snapshot whose rows rows() returned
  outcome,  \* how the call ended
  rows,     \* the rows a successful call returned, each of a snapshot: <<v, p>>
  crossed   \* history: a 304 refreshed another entry than it confirmed

mutexVars == <<cache, holder, poisoned>>
callVars == <<pc, start, sentAt, filter, sent, resp, got, outcome, rows, crossed>>
vars == <<now, snaps, source, mutexVars, callVars>>

Entry == [ver : Nat, etag : Nat, expires : Int]
NoEntry == [ver |-> 0, etag |-> 0, expires |-> 0]

\* "panicked" is a call that unwinds: its own transport's panic, or the
\* expect() on a poisoned mutex.
Errors == {"Timeout", "Http", "Transport", "FilterValidation", "NotModifiedWithoutCache",
           "SnapshotValidation", "SnapshotTruncated", "panicked"}
Outcome == Errors \cup {"none", "rows"}
Phase == {"idle", "locking", "requested", "answered", "selecting", "done"}

FilterType == [within : 1..MaxWithin, limit : Nat \cup {Absent}, match : SUBSET Proxy]
NoFilter == [within |-> DefaultWithin, limit |-> Absent, match |-> {}]

-----------------------------------------------------------------------------
(* Pure helpers; a definition named Slip... is a plausible mistake in the  *)
(* definition after it, used only to test the properties.                  *)

\* cache_seconds: clamp(0, 60), 60 when the directive is missing.
CacheSeconds(maxAge) ==
  IF maxAge = Absent \/ maxAge > AgeCap THEN AgeCap ELSE maxAge

SlipClockUnderLock(c) == now + CacheSeconds(resp[c].maxAge)

\* expires_at of an entry that the response of call c stores or refreshes.
ExpiresAt(c) == start[c] + CacheSeconds(resp[c].maxAge)

\* validate_generated_at: GitHub lists carry no generatedAt.
GeneratedAtOk(v, t) ==
  source = "api" => snaps[v].gen \in (t - Past)..(t + Future)

CheckedWithin(f) == IF f.within = Absent THEN DefaultWithin ELSE f.within

\* Filters::validate
ValidFilters(f) == CheckedWithin(f) \in 1..MaxWithin

SlipDefaultDropped(f) == f

Validated(f) == [f EXCEPT !.within = CheckedWithin(f)]

SlipWindowForgotten(p, v, t, within) == LastChecked(p, v) <= t + Future

\* The freshness filter of get_proxies_checked at time t.
Fresh(p, v, t, within) == LastChecked(p, v) \in (t - within)..(t + Future)

\* sort_by(sort_proxies), then truncate(n).
Best(M, n) ==
  {p \in M : n = Absent \/ Cardinality({q \in M : q < p}) < n}

Selection(v, f, t) ==
  {v} \X Best({p \in f.match : Fresh(p, v, t, f.within)}, f.limit)

-----------------------------------------------------------------------------
RustInit ==
  /\ source \in Sources
  /\ cache = NoEntry
  /\ holder = Nobody
  /\ poisoned = FALSE
  /\ pc = [c \in Caller |-> "idle"]
  /\ start = [c \in Caller |-> 0]
  /\ sentAt = [c \in Caller |-> 0]
  /\ filter = [c \in Caller |-> NoFilter]
  /\ sent = [c \in Caller |-> 0]
  /\ resp = [c \in Caller |-> NoResponse]
  /\ got = [c \in Caller |-> 0]
  /\ outcome = [c \in Caller |-> "none"]
  /\ rows = [c \in Caller |-> {}]
  /\ crossed = FALSE

Init == ServerInit /\ RustInit

\* The locals of rows() are gone when the call is over.
ForgetCall(c) ==
  /\ start' = [start EXCEPT ![c] = 0]
  /\ sentAt' = [sentAt EXCEPT ![c] = 0]
  /\ filter' = [filter EXCEPT ![c] = NoFilter]
  /\ sent' = [sent EXCEPT ![c] = 0]
  /\ resp' = [resp EXCEPT ![c] = NoResponse]
  /\ got' = [got EXCEPT ![c] = 0]

\* The call returns Err(e), or unwinds.
Fail(c, e) ==
  /\ pc' = [pc EXCEPT ![c] = "done"]
  /\ outcome' = [outcome EXCEPT ![c] = e]
  /\ ForgetCall(c)
  /\ UNCHANGED <<rows, crossed>>

\* rows() returns the rows of snapshot v and drops the guard.
Deliver(c, v) ==
  /\ pc' = [pc EXCEPT ![c] = "selecting"]
  /\ got' = [got EXCEPT ![c] = v]
  /\ sentAt' = [sentAt EXCEPT ![c] = 0]
  /\ UNCHANGED <<start, filter, sent, resp, outcome, rows>>

-----------------------------------------------------------------------------
RejectFilters(c) ==
  /\ pc[c] = "idle"
  /\ \E f \in Filters : ~ValidFilters(f)
  /\ Fail(c, "FilterValidation")
  /\ UNCHANGED mutexVars

\* rows() reads the clock, then waits for the mutex.
ReadClock(c, f) ==
  /\ pc[c] = "idle"
  /\ f \in Filters /\ ValidFilters(f)
  /\ pc' = [pc EXCEPT ![c] = "locking"]
  /\ start' = [start EXCEPT ![c] = now]
  /\ filter' = [filter EXCEPT ![c] = Validated(f)]
  /\ UNCHANGED <<mutexVars, sentAt, sent, resp, got, outcome, rows, crossed>>

SlipLockNotHeld(c) == pc[c] = "locking" /\ ~poisoned

\* c is granted the mutex.
Acquires(c) == pc[c] = "locking" /\ holder = Nobody /\ ~poisoned

\* expect("client cache mutex poisoned")
Poison(c) ==
  /\ pc[c] = "locking" /\ holder = Nobody /\ poisoned
  /\ Fail(c, "panicked")
  /\ UNCHANGED mutexVars

Unexpired(e, t) == e.ver # 0 /\ t < e.expires

\* The entry had not expired when the clock was read.
Hit(c) ==
  /\ Acquires(c)
  /\ Unexpired(cache, start[c])
  /\ \/ GeneratedAtOk(cache.ver, start[c]) /\ Deliver(c, cache.ver) /\ UNCHANGED crossed
     \/ ~GeneratedAtOk(cache.ver, start[c]) /\ Fail(c, "SnapshotValidation")
  /\ UNCHANGED mutexVars

\* Send the GET with the mutex held.
Request(c) ==
  /\ Acquires(c)
  /\ ~Unexpired(cache, start[c])
  /\ holder' = c
  /\ pc' = [pc EXCEPT ![c] = "requested"]
  /\ sentAt' = [sentAt EXCEPT ![c] = now]
  /\ sent' = [sent EXCEPT ![c] = cache.etag]
  /\ UNCHANGED <<cache, poisoned, start, filter, resp, got, outcome, rows, crossed>>

\* The endpoint decides what to answer; status line and body travel together
\* as far as the client can tell.
Answer(c) ==
  /\ pc[c] = "requested"
  /\ \E r \in Answers(sent[c]) : resp' = [resp EXCEPT ![c] = r]
  /\ pc' = [pc EXCEPT ![c] = "answered"]
  /\ UNCHANGED <<mutexVars, start, sentAt, filter, sent, got, outcome, rows, crossed>>

Release == holder' = Nobody /\ UNCHANGED poisoned

SlipHangs(c) == pc[c] = "requested" /\ FALSE

\* The transport's own timeout covers the exchange, the body included.
\* Bound: MaxTime stands for all later time, when every timeout is over.
TimedOut(c) ==
  /\ pc[c] \in {"requested", "answered"}
  /\ now >= sentAt[c] + Timeout \/ now = MaxTime

TransportTimesOut(c) ==
  /\ TimedOut(c)
  /\ Fail(c, "Timeout")
  /\ Release /\ UNCHANGED cache

\* A custom transport that panics unwinds through rows() with the mutex held.
TransportPanics(c) ==
  /\ "panic" \in Faults
  /\ pc[c] = "requested"
  /\ Fail(c, "panicked")
  /\ holder' = Nobody /\ poisoned' = TRUE
  /\ UNCHANGED cache

Unsuccessful(c) ==
  /\ pc[c] = "answered"
  /\ \/ resp[c].status = "broken" /\ Fail(c, "Transport")
     \/ resp[c].status = "refused" /\ Fail(c, "Http")
  /\ Release /\ UNCHANGED cache

NotModified(c) ==
  /\ pc[c] = "answered"
  /\ resp[c].status = "304"
  /\ \/ /\ cache.ver = 0
        /\ Fail(c, "NotModifiedWithoutCache")
        /\ UNCHANGED cache
     \/ /\ cache.ver # 0
        /\ ~GeneratedAtOk(cache.ver, start[c])
        /\ Fail(c, "SnapshotValidation")
        /\ UNCHANGED cache
     \/ /\ cache.ver # 0
        /\ GeneratedAtOk(cache.ver, start[c])
        /\ cache' = [cache EXCEPT !.expires = ExpiresAt(c)]
        /\ crossed' = (crossed \/ resp[c].ver # cache.ver)
        /\ Deliver(c, cache.ver)
  /\ Release

\* What can be wrong with a body, in the order in which it is found: no JSON,
NoJson(c) == "Malformed" \in Faults /\ Fail(c, "SnapshotValidation")

\* parse_snapshot: truncated, or an envelope (or list) of another shape,
BadEnvelope(c) ==
  \/ "Truncated" \in Faults /\ source = "api" /\ Fail(c, "SnapshotTruncated")
  \/ "Malformed" \in Faults /\ Fail(c, "SnapshotValidation")

\* map_row: one invalid row rejects the snapshot, once generatedAt is accepted.
BadRow(c) ==
  /\ "BadRow" \in Faults
  /\ GeneratedAtOk(resp[c].ver, start[c])
  /\ Fail(c, "SnapshotValidation")

BadBody(c) ==
  /\ pc[c] = "answered"
  /\ resp[c].status = "200"
  /\ NoJson(c) \/ BadEnvelope(c) \/ BadRow(c)
  /\ Release /\ UNCHANGED cache

\* The body parses: check generatedAt, then store it.
GoodBody(c) ==
  /\ pc[c] = "answered"
  /\ resp[c].status = "200"
  /\ \/ /\ ~GeneratedAtOk(resp[c].ver, start[c])
        /\ Fail(c, "SnapshotValidation")
        /\ UNCHANGED cache
     \/ /\ GeneratedAtOk(resp[c].ver, start[c])
        /\ cache' = [ver |-> resp[c].ver, etag |-> resp[c].etag, expires |-> ExpiresAt(c)]
        /\ Deliver(c, resp[c].ver)
        /\ UNCHANGED crossed
  /\ Release

-----------------------------------------------------------------------------
\* get_proxies_checked: read the clock again, filter, sort, truncate.
Select(c) ==
  /\ pc[c] = "selecting"
  /\ rows' = [rows EXCEPT ![c] = Selection(got[c], filter[c], now)]
  /\ outcome' = [outcome EXCEPT ![c] = "rows"]
  /\ pc' = [pc EXCEPT ![c] = "done"]
  /\ ForgetCall(c)
  /\ UNCHANGED <<mutexVars, crossed>>

\* The caller takes the result and may call again.
Return(c) ==
  /\ pc[c] = "done"
  /\ pc' = [pc EXCEPT ![c] = "idle"]
  /\ outcome' = [outcome EXCEPT ![c] = "none"]
  /\ rows' = [rows EXCEPT ![c] = {}]
  /\ UNCHANGED <<mutexVars, start, sentAt, filter, sent, resp, got, crossed>>

Step(c) ==
  \/ RejectFilters(c)
  \/ \E f \in Filters : ReadClock(c, f)
  \/ Poison(c) \/ Hit(c) \/ Request(c)
  \/ Answer(c) \/ TransportTimesOut(c) \/ TransportPanics(c)
  \/ Unsuccessful(c) \/ NotModified(c) \/ BadBody(c) \/ GoodBody(c)
  \/ Select(c) \/ Return(c)

ClientStep == \E c \in Caller : Step(c) /\ UNCHANGED <<now, snaps, source>>
Environment == (Publish \/ Tick) /\ UNCHANGED <<source, mutexVars, callVars>>

Next == ClientStep \/ Environment

Spec == Init /\ [][Next]_vars

(***************************************************************************)
(* Fairness: the clock runs and a transport honours the timeout it was     *)
(* given.  Nothing is assumed of the endpoint, nor of who gets the mutex.  *)
(***************************************************************************)
FairSpec ==
  /\ Spec
  /\ WF_vars(Tick /\ UNCHANGED <<source, mutexVars, callVars>>)
  /\ \A c \in Caller : WF_vars(TransportTimesOut(c) /\ UNCHANGED <<now, snaps, source>>)

-----------------------------------------------------------------------------
(* Properties.                                                             *)

InFlight(c) == pc[c] \in {"requested", "answered"}

TypeOK ==
  /\ ServerTypeOK
  /\ source \in {"api", "github"}
  /\ cache \in Entry
  /\ holder \in Caller \cup {Nobody}
  /\ poisoned \in BOOLEAN
  /\ pc \in [Caller -> Phase]
  /\ start \in [Caller -> Nat]
  /\ sentAt \in [Caller -> Nat]
  /\ filter \in [Caller -> FilterType]
  /\ sent \in [Caller -> Nat]
  /\ resp \in [Caller -> Response]
  /\ got \in [Caller -> Nat]
  /\ outcome \in [Caller -> Outcome]
  /\ rows \in [Caller -> SUBSET (Nat \X Proxy)]
  /\ crossed \in BOOLEAN

\* The mutex is held by the one thread that has a request in flight, whatever
\* way earlier requests ended: one request at a time, and no lock leaked.
OneRequestAtATime == \A c \in Caller : InFlight(c) <=> holder = c

\* While a request is in flight the entry whose ETag it carries stays in the
\* cache, so a 304 refreshes the entry it confirms.
EtagStaysCached == \A c \in Caller : InFlight(c) => sent[c] = cache.etag

\* README: "Responses remain in memory for no more than 60 seconds and
\* revalidate with ETags": what a call returns was current at most AgeCap
\* before the call, even to a thread that waited for the mutex.
RetainedAtMostCap ==
  \A c \in Caller :
    pc[c] = "selecting" /\ ~crossed => CurrentSince(got[c], start[c] - AgeCap)

\* The client is a SnapshotService.
StatusOf(phase, end) ==
  CASE phase = "idle" -> "idle"
    [] phase = "done" -> IF end = "rows" THEN "succeeded" ELSE "failed"
    [] OTHER -> "active"

status == [c \in Caller |-> StatusOf(pc[c], outcome[c])]
Service == INSTANCE SnapshotService
  WITH since <- start, given <- rows, void <- crossed, Voidable <- "Spurious304" \in Faults
ImplementsService == Service!Spec

\* Every request ends and gives the mutex back, though nobody answers.
MutexComesFree == holder # Nobody ~> holder = Nobody
=============================================================================
