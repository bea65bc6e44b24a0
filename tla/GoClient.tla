------------------------------ MODULE GoClient ------------------------------
(***************************************************************************)
(* The Go client (packages/go/client.go) shared by goroutines.  Each use   *)
(* of the cache is one critical section of c.mu, so it is one step; the    *)
(* mutex is free while the clock is read and while a request is under way. *)
(***************************************************************************)
EXTENDS ThreadedClient

\* The first critical section, and what follows it without shared state: the
\* entry is still retained and is validated, or its ETag is taken.
GoCheck(t) ==
  /\ pc[t] = "begun"
  /\ \/ /\ Unexpired(cache, start[t])
        /\ \/ /\ GeneratedAtOk(cache.ver, start[t])
              /\ Deliver(t, cache.ver)
              /\ UNCHANGED <<cache, crossed, torn>>
           \/ /\ ~GeneratedAtOk(cache.ver, start[t])
              /\ Fail(t, "SnapshotValidationError")
     \/ /\ ~Unexpired(cache, start[t])
        /\ Request(t, cache.etag)

\* A 304 refreshes whatever entry is cached when the mutex is taken again.
GoNotModified(t) ==
  /\ pc[t] = "answered"
  /\ resp[t].status = "304"
  /\ \/ /\ cache.ver = 0
        /\ Fail(t, "NotModifiedWithoutCacheError")
     \/ /\ cache.ver # 0 /\ ~GeneratedAtOk(cache.ver, start[t])
        /\ Fail(t, "SnapshotValidationError")
     \/ /\ cache.ver # 0 /\ GeneratedAtOk(cache.ver, start[t])
        /\ cache' = [cache EXCEPT !.expires = ExpiresAt(t)]
        /\ crossed' = (crossed \/ resp[t].ver # cache.ver)
        /\ Deliver(t, cache.ver)
        /\ UNCHANGED torn

\* request() returns, and its deferred cancel() cancels the request.
GoReturnResponse(t) ==
  /\ pc[t] = "answered"
  /\ resp[t].status = "200"
  /\ Goto(t, "decoding")
  /\ UNCHANGED <<cache, start, sent, resp, seen, got, outcome, crossed, torn>>

\* The body may have been buffered by then; what has not is lost.
GoDecode(t) ==
  /\ pc[t] = "decoding"
  /\ \/ GoodBody(t)
     \/ BadBody(t)
     \/ Fail(t, "SnapshotValidationError")

GoStep(t) ==
  CommonStep(t) \/ GoCheck(t) \/ GoNotModified(t) \/ GoReturnResponse(t) \/ GoDecode(t)

GoNext == (\E t \in Thread : GoStep(t) /\ UNCHANGED <<now, snaps, source>>) \/ Environment

GoSpec == ServerInit /\ ThreadInit /\ [][GoNext]_vars
=============================================================================
