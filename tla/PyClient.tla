------------------------------ MODULE PyClient ------------------------------
(***************************************************************************)
(* The Python client (client.py) shared by threads.  There is no lock: the *)
(* interpreter may switch threads between any two uses of self.cache, so   *)
(* each use is a step.  self.cache is replaced as a whole, never cleared;  *)
(* only "expires" of an entry is changed in place.  Expiries are on the    *)
(* monotonic clock; here both clocks agree.                                *)
(***************************************************************************)
EXTENDS ThreadedClient

\* A check was of another snapshot than the one the call uses now.
Tear(t, check) == torn' = IF seen[t] # cache.ver THEN torn \cup {check} ELSE torn

See(t) == seen' = [seen EXCEPT ![t] = cache.ver]

\* if self.cache and clock < self.cache["expires"]
PyCheck(t) ==
  /\ pc[t] = "begun"
  /\ Goto(t, IF Unexpired(cache, start[t]) THEN "checked" ELSE "tested")
  /\ See(t)
  /\ UNCHANGED <<cache, start, sent, resp, got, outcome, crossed, torn>>

\* _validate_generated_at(self.cache["generated_at"], now)
Validate(t, to) ==
  IF GeneratedAtOk(cache.ver, start[t])
  THEN /\ See(t)
       /\ Goto(t, to)
       /\ UNCHANGED <<cache, start, sent, resp, got, outcome, crossed>>
  ELSE Fail(t, "SnapshotValidationError")

PyValidate(t) ==
  /\ pc[t] = "checked"
  /\ Validate(t, "validated")
  /\ GeneratedAtOk(cache.ver, start[t]) => Tear(t, "expiry")

\* return self.cache["rows"]
PyReturnRows(t) ==
  /\ pc[t] = "validated"
  /\ Deliver(t, cache.ver)
  /\ Tear(t, "window")
  /\ UNCHANGED <<cache, crossed>>

\* if self.cache and self.cache["etag"]
PyRequestPlain(t) ==
  /\ pc[t] = "tested"
  /\ cache.etag = 0
  /\ Request(t, 0)

PyTestTag(t) ==
  /\ pc[t] = "tested"
  /\ cache.etag # 0
  /\ Goto(t, "tagged")
  /\ UNCHANGED <<cache, start, sent, resp, seen, got, outcome, crossed, torn>>

SlipSendsNone(t) ==
  /\ pc[t] = "tagged"
  /\ Request(t, IF cache.etag = 0 THEN Absent ELSE cache.etag)

\* {"If-None-Match": self.cache["etag"]}, which may be None by now: urllib
\* raises.
PyRequestTagged(t) ==
  /\ pc[t] = "tagged"
  /\ \/ cache.etag = 0 /\ Fail(t, "TypeError")
     \/ cache.etag # 0 /\ Request(t, cache.etag)

PyNotModified(t) ==
  /\ pc[t] = "answered"
  /\ resp[t].status = "304"
  /\ \/ /\ cache.ver = 0
        /\ Fail(t, "NotModifiedWithoutCacheError")
     \/ /\ cache.ver # 0
        /\ Validate(t, "confirmed")
        /\ UNCHANGED torn

\* self.cache["expires"] = ...
PyRefresh(t) ==
  /\ pc[t] = "confirmed"
  /\ cache' = [cache EXCEPT !.expires = ExpiresAt(t)]
  /\ crossed' = (crossed \/ resp[t].ver # cache.ver)
  /\ Tear(t, "expiry")
  /\ Goto(t, "validated")
  /\ UNCHANGED <<start, sent, resp, seen, got, outcome>>

\* The transport reads the body; a thread stores its own rows and returns
\* them from a local.
PyBody(t) ==
  /\ pc[t] = "answered"
  /\ resp[t].status = "200"
  /\ GoodBody(t) \/ BadBody(t)

PyStep(t) ==
  \/ CommonStep(t)
  \/ PyCheck(t) \/ PyValidate(t) \/ PyReturnRows(t)
  \/ PyRequestPlain(t) \/ PyTestTag(t) \/ PyRequestTagged(t)
  \/ PyNotModified(t) \/ PyRefresh(t) \/ PyBody(t)

PyNext == (\E t \in Thread : PyStep(t) /\ UNCHANGED <<now, snaps, source>>) \/ Environment

PySpec == ServerInit /\ ThreadInit /\ [][PyNext]_vars
=============================================================================
