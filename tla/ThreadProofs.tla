---------------------------- MODULE ThreadProofs ----------------------------
(***************************************************************************)
(* What holds of GoClient and of PyClient for every set of threads, every  *)
(* window, every set of faults and every schedule.  One invariant serves   *)
(* both: it is preserved by the steps of either.                           *)
(***************************************************************************)
EXTENDS GoClient, PyClient, SnapshotServerProofs

ThreadStep(t) == GoStep(t) \/ PyStep(t)

\* Before its answer a call has no response.
Waiting == {"idle", "begun", "checked", "tested", "tagged", "requested"}

\* What the endpoint sent to or confirmed for call t was current when asked.
RespOK(t) ==
  /\ pc[t] \in Waiting => resp[t] = NoResponse
  /\ resp[t].status = "200" => resp[t].ver # 0
  /\ resp[t].ver # 0 => CurrentSince(resp[t].ver, start[t])
  /\ pc[t] = "decoding" => resp[t].status = "200"
  /\ pc[t] \in {"confirmed", "validated"} => resp[t].status # "200"

\* What is known of the entry that a Python call has looked at last.
SeenOK(t) ==
  /\ pc[t] \in {"checked", "confirmed", "validated"} =>
       cache.ver # 0 /\ seen[t] \in 1..Len(snaps)
  /\ pc[t] \in {"confirmed", "validated"} => GeneratedAtOk(seen[t], start[t])
  /\ pc[t] = "checked" /\ ~crossed => CurrentSince(seen[t], start[t] - AgeCap)
  /\ pc[t] = "validated" /\ ~crossed /\ torn = {} => CurrentSince(seen[t], start[t] - AgeCap)

\* What call t returned.
RowsHonest(t) ==
  Succeeded(t) =>
    /\ got[t] \in 1..Len(snaps)
    /\ "window" \notin torn => GeneratedAtOk(got[t], start[t])
    /\ resp[t].status = "200" => CurrentSince(got[t], start[t])
    /\ ~crossed /\ torn = {} => CurrentSince(got[t], start[t] - AgeCap)

CallOK(t) ==
  /\ start[t] <= now
  /\ pc[t] # "done" => outcome[t] = "none"
  /\ RespOK(t) /\ SeenOK(t) /\ RowsHonest(t)

\* The entry was current AgeCap before it expires, unless a 304 was crossed.
EntryOK ==
  /\ cache.ver <= Len(snaps)
  /\ cache.expires <= now + AgeCap
  /\ ~crossed /\ cache.ver # 0 => CurrentSince(cache.ver, cache.expires - AgeCap)

\* The inductive invariant.
IInv == TypeOK /\ EntryOK /\ \A t \in Thread : CallOK(t)

USE DEF threadVars, callVars

-----------------------------------------------------------------------------
(* Type correctness. *)

\* The header's max-age is cut to between 0 and the cap.
LEMMA CacheSecondsBounded ==
  ASSUME NEW m \in Nat \cup {Absent}
  PROVE  CacheSeconds(m) \in Nat /\ CacheSeconds(m) <= AgeCap
  BY WindowAssumption, ServerAssumption DEF CacheSeconds

\* The retention an entry gets from a response of call t.
LEMMA ExpiryFromStart ==
  ASSUME TypeOK, NEW t \in Thread
  PROVE  /\ start[t] \in Nat /\ ExpiresAt(t) \in Int /\ AgeCap \in Nat
         /\ ExpiresAt(t) <= start[t] + AgeCap
  <1>1. start[t] \in Nat /\ resp[t].maxAge \in Nat \cup {Absent}
    BY DEF TypeOK, Response
  <1>2. CacheSeconds(resp[t].maxAge) \in Nat /\ CacheSeconds(resp[t].maxAge) <= AgeCap
    BY <1>1, CacheSecondsBounded
  <1>3. QED
    BY <1>1, <1>2, WindowAssumption DEF ExpiresAt

LEMMA NoResponseType == NoResponse \in Response
  BY DEF NoResponse, Response, Status

LEMMA InitTypeOK == ServerInit /\ ThreadInit => TypeOK
  <1> SUFFICES ASSUME ServerInit, ThreadInit PROVE TypeOK
    OBVIOUS
  <1>1. ServerTypeOK
    BY ServerAssumption DEF ServerInit, ServerTypeOK, Snapshot
  <1>2. NoEntry \in Entry
    BY DEF NoEntry, Entry
  <1>3. QED
    BY <1>1, <1>2, NoResponseType, ThreadAssumption DEF ThreadInit, TypeOK, Phase, Outcome

LEMMA ForgetTypeOK ==
  ASSUME TypeOK, NEW t \in Thread, NEW p \in Phase, NEW e \in Outcome,
         Goto(t, p), outcome' = [outcome EXCEPT ![t] = e], Forget(t),
         UNCHANGED <<now, snaps, source, cache, crossed, torn>>
  PROVE  TypeOK'
  BY NoResponseType DEF TypeOK, ServerTypeOK, Goto, Forget

LEMMA FailTypeOK ==
  ASSUME TypeOK, NEW t \in Thread, NEW e \in Outcome, Fail(t, e),
         UNCHANGED <<now, snaps, source>>
  PROVE  TypeOK'
  BY ForgetTypeOK DEF Fail, Phase

LEMMA DeliverTypeOK ==
  ASSUME TypeOK, NEW t \in Thread, NEW v \in Nat, Deliver(t, v), cache' \in Entry,
         crossed' \in BOOLEAN, torn' \subseteq {"expiry", "window"},
         UNCHANGED <<now, snaps, source>>
  PROVE  TypeOK'
  BY DEF TypeOK, ServerTypeOK, Deliver, Goto, Phase, Outcome

LEMMA RequestTypeOK ==
  ASSUME TypeOK, NEW t \in Thread, NEW tag \in Nat, Request(t, tag),
         UNCHANGED <<now, snaps, source>>
  PROVE  TypeOK'
  BY DEF TypeOK, ServerTypeOK, Request, Goto, Phase

LEMMA CommonTypeOK ==
  ASSUME TypeOK, NEW t \in Thread, CommonStep(t), UNCHANGED <<now, snaps, source>>
  PROVE  TypeOK'
  <1>1. CASE ReadClock(t)
    BY <1>1 DEF ReadClock, Goto, TypeOK, ServerTypeOK, Phase
  <1>2. CASE Answer(t)
    <2>1. PICK r \in Answers(sent[t]) : resp' = [resp EXCEPT ![t] = r]
      BY <1>2 DEF Answer
    <2>2. r \in Response
      BY <2>1, AnswersType DEF TypeOK
    <2>3. QED
      BY <1>2, <2>1, <2>2 DEF Answer, Goto, TypeOK, ServerTypeOK, Phase
  <1>3. CASE Unsuccessful(t)
    BY <1>3, FailTypeOK DEF Unsuccessful, Outcome
  <1>4. CASE TimesOut(t)
    BY <1>4, FailTypeOK DEF TimesOut, Outcome
  <1>5. CASE Return(t)
    BY <1>5, ForgetTypeOK DEF Return, Phase, Outcome
  <1>6. QED
    BY <1>1, <1>2, <1>3, <1>4, <1>5 DEF CommonStep

LEMMA BodyTypeOK ==
  ASSUME TypeOK, NEW t \in Thread, GoodBody(t) \/ BadBody(t), UNCHANGED <<now, snaps, source>>
  PROVE  TypeOK'
  <1>1. CASE BadBody(t) \/ ~GeneratedAtOk(resp[t].ver, start[t])
    BY <1>1, FailTypeOK DEF BadBody, GoodBody, Outcome
  <1>2. CASE GoodBody(t) /\ GeneratedAtOk(resp[t].ver, start[t])
    <2>1. resp[t].ver \in Nat /\ resp[t].etag \in Nat
      BY DEF TypeOK, Response
    <2>2. cache' \in Entry
      BY <1>2, <2>1, ExpiryFromStart DEF GoodBody, Entry
    <2>3. crossed' \in BOOLEAN /\ torn' \subseteq {"expiry", "window"}
      BY <1>2 DEF GoodBody, TypeOK
    <2>4. Deliver(t, resp[t].ver)
      BY <1>2 DEF GoodBody
    <2>5. QED
      BY <2>1, <2>2, <2>3, <2>4, DeliverTypeOK
  <1>3. QED
    BY <1>1, <1>2

LEMMA GoTypeOK ==
  ASSUME TypeOK, NEW t \in Thread, GoStep(t), UNCHANGED <<now, snaps, source>>
  PROVE  TypeOK'
  <1>0. /\ cache \in Entry /\ cache.ver \in Nat /\ cache.etag \in Nat
        /\ crossed \in BOOLEAN /\ torn \subseteq {"expiry", "window"}
    BY DEF TypeOK, Entry
  <1>1. CASE GoCheck(t)
    <2>1. CASE Fail(t, "SnapshotValidationError")
      BY <2>1, FailTypeOK DEF Outcome
    <2>2. CASE Deliver(t, cache.ver) /\ UNCHANGED <<cache, crossed, torn>>
      BY <1>0, <2>2, DeliverTypeOK
    <2>3. CASE Request(t, cache.etag)
      BY <1>0, <2>3, RequestTypeOK
    <2>4. QED
      BY <1>1, <2>1, <2>2, <2>3 DEF GoCheck
  <1>2. CASE GoNotModified(t)
    <2>1. CASE cache.ver = 0 \/ ~GeneratedAtOk(cache.ver, start[t])
      BY <1>2, <2>1, FailTypeOK DEF GoNotModified, Outcome
    <2>2. CASE cache.ver # 0 /\ GeneratedAtOk(cache.ver, start[t])
      <3>1. /\ cache' = [cache EXCEPT !.expires = ExpiresAt(t)]
            /\ crossed' = (crossed \/ resp[t].ver # cache.ver)
            /\ Deliver(t, cache.ver) /\ UNCHANGED torn
        BY <1>2, <2>2 DEF GoNotModified
      <3>2. cache' \in Entry
        BY <1>0, <3>1, ExpiryFromStart DEF Entry
      <3>3. QED
        BY <1>0, <3>1, <3>2, DeliverTypeOK
    <2>3. QED
      BY <2>1, <2>2
  <1>3. CASE GoReturnResponse(t)
    BY <1>3 DEF GoReturnResponse, Goto, TypeOK, ServerTypeOK, Phase
  <1>4. CASE GoDecode(t)
    BY <1>4, BodyTypeOK, FailTypeOK DEF GoDecode, Outcome
  <1>5. QED
    BY <1>1, <1>2, <1>3, <1>4, CommonTypeOK DEF GoStep

LEMMA ValidateTypeOK ==
  ASSUME TypeOK, NEW t \in Thread, NEW p \in Phase, Validate(t, p),
         torn' \subseteq {"expiry", "window"}, UNCHANGED <<now, snaps, source>>
  PROVE  TypeOK'
  <1>1. CASE GeneratedAtOk(cache.ver, start[t])
    <2>1. cache.ver \in Nat
      BY DEF TypeOK, Entry
    <2>2. QED
      BY <1>1, <2>1 DEF Validate, See, Goto, TypeOK, ServerTypeOK
  <1>2. CASE ~GeneratedAtOk(cache.ver, start[t])
    BY <1>2, FailTypeOK DEF Validate, Outcome
  <1>3. QED
    BY <1>1, <1>2

LEMMA PyTypeOK ==
  ASSUME TypeOK, NEW t \in Thread, PyStep(t), UNCHANGED <<now, snaps, source>>
  PROVE  TypeOK'
  <1>0. /\ cache \in Entry /\ cache.ver \in Nat /\ cache.etag \in Nat
        /\ crossed \in BOOLEAN /\ torn \subseteq {"expiry", "window"}
    BY DEF TypeOK, Entry
  <1>1. CASE PyCheck(t)
    BY <1>0, <1>1 DEF PyCheck, See, Goto, TypeOK, ServerTypeOK, Phase
  <1>2. CASE PyValidate(t)
    <2>1. torn' \subseteq {"expiry", "window"}
      BY <1>0, <1>2 DEF PyValidate, Validate, Tear, Fail
    <2>2. QED
      BY <1>2, <2>1, ValidateTypeOK DEF PyValidate, Phase
  <1>3. CASE PyReturnRows(t)
    <2>1. torn' \subseteq {"expiry", "window"}
      BY <1>0, <1>3 DEF PyReturnRows, Tear
    <2>2. QED
      BY <1>0, <1>3, <2>1, DeliverTypeOK DEF PyReturnRows
  <1>4. CASE PyRequestPlain(t)
    BY <1>4, RequestTypeOK DEF PyRequestPlain
  <1>5. CASE PyTestTag(t)
    BY <1>5 DEF PyTestTag, Goto, TypeOK, ServerTypeOK, Phase
  <1>6. CASE PyRequestTagged(t)
    BY <1>0, <1>6, RequestTypeOK, FailTypeOK DEF PyRequestTagged, Outcome
  <1>7. CASE PyNotModified(t)
    <2>1. CASE cache.ver = 0
      BY <1>7, <2>1, FailTypeOK DEF PyNotModified, Outcome
    <2>2. CASE cache.ver # 0
      BY <1>0, <1>7, <2>2, ValidateTypeOK DEF PyNotModified, Phase
    <2>3. QED
      BY <2>1, <2>2
  <1>8. CASE PyRefresh(t)
    <2>1. cache' \in Entry
      BY <1>0, <1>8, ExpiryFromStart DEF PyRefresh, Entry
    <2>2. torn' \subseteq {"expiry", "window"} /\ crossed' \in BOOLEAN
      BY <1>0, <1>8 DEF PyRefresh, Tear
    <2>3. QED
      BY <1>8, <2>1, <2>2 DEF PyRefresh, Goto, TypeOK, ServerTypeOK, Phase
  <1>9. CASE PyBody(t)
    BY <1>9, BodyTypeOK DEF PyBody
  <1>10. QED
    BY <1>1, <1>2, <1>3, <1>4, <1>5, <1>6, <1>7, <1>8, <1>9, CommonTypeOK DEF PyStep

LEMMA EnvironmentTypeOK ==
  ASSUME TypeOK, Environment
  PROVE  TypeOK'
  <1>1. ServerTypeOK'
    BY EnvironmentServerTypeOK DEF TypeOK, Environment
  <1>2. QED
    BY <1>1 DEF TypeOK, Environment
-----------------------------------------------------------------------------
(* The inductive invariant: the environment. *)

LEMMA InitIInv == ServerInit /\ ThreadInit => IInv
  <1> SUFFICES ASSUME ServerInit, ThreadInit PROVE IInv
    OBVIOUS
  <1>1. TypeOK
    BY InitTypeOK
  <1>2. EntryOK
    BY WindowAssumption DEF ServerInit, ThreadInit, EntryOK, NoEntry
  <1>3. \A t \in Thread : CallOK(t)
    BY DEF ServerInit, ThreadInit, CallOK, RespOK, SeenOK, RowsHonest, Succeeded, NoResponse
  <1>4. QED
    BY <1>1, <1>2, <1>3 DEF IInv

\* Time passing and a new publication disturb nothing.
LEMMA EnvironmentIInv ==
  ASSUME IInv, Environment
  PROVE  IInv'
  <1>1. TypeOK' /\ TypeOK /\ ServerTypeOK
    BY EnvironmentTypeOK DEF IInv, TypeOK
  <1>2. /\ now \in Nat /\ now' \in Nat /\ now <= now'
        /\ Len(snaps) \in Nat /\ Len(snaps') \in Nat /\ Len(snaps) <= Len(snaps')
        /\ \A v \in 1..Len(snaps) : snaps'[v] = snaps[v]
    BY <1>1, EnvironmentGrows DEF Environment
  <1>3. ASSUME NEW v \in Nat, NEW u \in Int, u <= now, CurrentSince(v, u)
        PROVE  CurrentSince(v, u)'
    BY <1>1, <1>3, EnvironmentKeepsCurrentSince DEF Environment
  <1>4. EntryOK'
    <2>1. cache.ver \in Nat /\ cache.expires \in Int /\ AgeCap \in Nat
      BY <1>1, WindowAssumption DEF TypeOK, Entry
    <2>2. EntryOK /\ UNCHANGED <<cache, crossed>>
      BY DEF IInv, Environment
    <2>3. cache.expires - AgeCap <= now /\ cache.expires - AgeCap \in Int
      BY <1>2, <2>1, <2>2 DEF EntryOK
    <2>4. ~crossed /\ cache.ver # 0 => CurrentSince(cache.ver, cache.expires - AgeCap)'
      BY <1>3, <2>1, <2>2, <2>3 DEF EntryOK, CurrentSince
    <2>5. QED
      BY <1>2, <2>1, <2>2, <2>4 DEF EntryOK, CurrentSince
  <1>5. ASSUME NEW t \in Thread PROVE CallOK(t)'
    <2>1. /\ start[t] \in Nat /\ got[t] \in Nat /\ seen[t] \in Nat /\ resp[t].ver \in Nat
          /\ AgeCap \in Nat /\ start[t] - AgeCap \in Int
      BY <1>1, WindowAssumption DEF TypeOK, Response
    <2>2. CallOK(t) /\ UNCHANGED <<source, cache, pc, start, resp, seen, got, outcome, crossed, torn>>
      BY DEF IInv, Environment
    <2>3. start[t] <= now /\ start[t] - AgeCap <= now /\ start'[t] <= now'
      BY <1>2, <2>1, <2>2 DEF CallOK
    <2>4. RespOK(t)'
      <3>1. CurrentSince(resp[t].ver, start[t]) => CurrentSince(resp[t].ver, start[t])'
        BY <1>3, <2>1, <2>2, <2>3 DEF CurrentSince
      <3> QED
        BY <2>2, <3>1 DEF CallOK, RespOK
    <2>5. ASSUME NEW v \in Nat, v \in 1..Len(snaps)
          PROVE  /\ v \in 1..Len(snaps')
                 /\ GeneratedAtOk(v, start[t]) => GeneratedAtOk(v, start[t])'
      BY <1>2, <2>2, <2>5 DEF GeneratedAtOk
    <2>6. ASSUME NEW v \in Nat
          PROVE  CurrentSince(v, start[t] - AgeCap) => CurrentSince(v, start[t] - AgeCap)'
      BY <1>3, <2>1, <2>2, <2>3 DEF CurrentSince
    <2>7. ASSUME NEW v \in Nat
          PROVE  CurrentSince(v, start[t]) => CurrentSince(v, start[t])'
      BY <1>3, <2>1, <2>2, <2>3 DEF CurrentSince
    <2>8. SeenOK(t)'
      BY <2>1, <2>2, <2>5, <2>6 DEF CallOK, SeenOK
    <2>9. RowsHonest(t)'
      BY <2>1, <2>2, <2>5, <2>6, <2>7 DEF CallOK, RowsHonest, Succeeded
    <2>10. QED
      BY <2>2, <2>3, <2>4, <2>8, <2>9 DEF CallOK
  <1>6. QED
    BY <1>1, <1>4, <1>5 DEF IInv

-----------------------------------------------------------------------------
(* The inductive invariant: other calls.  Thread t moves. *)

\* What a step of t leaves alone, and what it never forgets or withdraws.
Local(t, d) ==
  /\ pc'[d] = pc[d] /\ start'[d] = start[d] /\ resp'[d] = resp[d]
  /\ seen'[d] = seen[d] /\ got'[d] = got[d] /\ outcome'[d] = outcome[d]
  /\ crossed => crossed'
  /\ torn \subseteq torn'
  /\ cache.ver # 0 => cache'.ver # 0

LEMMA FailIsLocal ==
  ASSUME TypeOK, NEW t \in Thread, NEW d \in Thread, d # t, NEW e \in Outcome, Fail(t, e)
  PROVE  Local(t, d)
  BY DEF TypeOK, Fail, Goto, Forget, Local

LEMMA DeliverIsLocal ==
  ASSUME TypeOK, NEW t \in Thread, NEW d \in Thread, d # t, NEW v \in Nat, Deliver(t, v),
         crossed => crossed', torn \subseteq torn', cache.ver # 0 => cache'.ver # 0
  PROVE  Local(t, d)
  BY DEF TypeOK, Deliver, Goto, Local

LEMMA CommonIsLocal ==
  ASSUME TypeOK, NEW t \in Thread, NEW d \in Thread, d # t, CommonStep(t)
  PROVE  Local(t, d)
  <1>1. CASE ReadClock(t)
    BY <1>1 DEF ReadClock, Goto, TypeOK, Local
  <1>2. CASE Answer(t)
    BY <1>2 DEF Answer, Goto, TypeOK, Local
  <1>3. CASE Unsuccessful(t) \/ TimesOut(t)
    BY <1>3, FailIsLocal DEF Unsuccessful, TimesOut, Outcome
  <1>4. CASE Return(t)
    BY <1>4 DEF Return, Forget, Goto, TypeOK, Local
  <1>5. QED
    BY <1>1, <1>2, <1>3, <1>4 DEF CommonStep

\* A body is of a snapshot.
LEMMA BodyIsLocal ==
  ASSUME TypeOK, NEW t \in Thread, NEW d \in Thread, d # t, GoodBody(t) \/ BadBody(t),
         resp[t].ver # 0
  PROVE  Local(t, d)
  <1>1. CASE BadBody(t) \/ ~GeneratedAtOk(resp[t].ver, start[t])
    BY <1>1, FailIsLocal DEF BadBody, GoodBody, Outcome
  <1>2. CASE GoodBody(t) /\ GeneratedAtOk(resp[t].ver, start[t])
    <2>1. resp[t].ver \in Nat
      BY DEF TypeOK, Response
    <2>2. /\ cache'.ver = resp[t].ver
          /\ Deliver(t, resp[t].ver) /\ UNCHANGED <<crossed, torn>>
      BY <1>2 DEF GoodBody
    <2>3. QED
      BY <2>1, <2>2, DeliverIsLocal
  <1>3. QED
    BY <1>1, <1>2

LEMMA GoIsLocal ==
  ASSUME IInv, NEW t \in Thread, NEW d \in Thread, d # t, GoStep(t)
  PROVE  Local(t, d)
  <1>0. TypeOK /\ CallOK(t) /\ RespOK(t) /\ cache \in Entry /\ cache.ver \in Nat
    BY DEF IInv, CallOK, TypeOK, Entry
  <1>1. CASE GoCheck(t)
    <2>1. CASE Fail(t, "SnapshotValidationError")
      BY <1>0, <2>1, FailIsLocal DEF Outcome
    <2>2. CASE Deliver(t, cache.ver) /\ UNCHANGED <<cache, crossed, torn>>
      BY <1>0, <2>2, DeliverIsLocal
    <2>3. CASE Request(t, cache.etag)
      BY <1>0, <2>3 DEF Request, Goto, TypeOK, Local
    <2>4. QED
      BY <1>1, <2>1, <2>2, <2>3 DEF GoCheck
  <1>2. CASE GoNotModified(t)
    <2>1. CASE cache.ver = 0 \/ ~GeneratedAtOk(cache.ver, start[t])
      BY <1>0, <1>2, <2>1, FailIsLocal DEF GoNotModified, Outcome
    <2>2. CASE cache.ver # 0 /\ GeneratedAtOk(cache.ver, start[t])
      <3>1. /\ cache' = [cache EXCEPT !.expires = ExpiresAt(t)]
            /\ crossed' = (crossed \/ resp[t].ver # cache.ver)
            /\ Deliver(t, cache.ver) /\ UNCHANGED torn
        BY <1>2, <2>2 DEF GoNotModified
      <3>2. cache'.ver = cache.ver
        BY <1>0, <3>1 DEF Entry
      <3>3. QED
        BY <1>0, <3>1, <3>2, DeliverIsLocal
    <2>3. QED
      BY <2>1, <2>2
  <1>3. CASE GoReturnResponse(t)
    BY <1>0, <1>3 DEF GoReturnResponse, Goto, TypeOK, Local
  <1>4. CASE GoDecode(t)
    <2>1. resp[t].ver # 0
      BY <1>0, <1>4 DEF GoDecode, RespOK
    <2>2. QED
      BY <1>0, <1>4, <2>1, BodyIsLocal, FailIsLocal DEF GoDecode, Outcome
  <1>5. QED
    BY <1>0, <1>1, <1>2, <1>3, <1>4, CommonIsLocal DEF GoStep

LEMMA PyIsLocal ==
  ASSUME IInv, NEW t \in Thread, NEW d \in Thread, d # t, PyStep(t)
  PROVE  Local(t, d)
  <1>0. TypeOK /\ CallOK(t) /\ RespOK(t) /\ cache \in Entry /\ cache.ver \in Nat
    BY DEF IInv, CallOK, TypeOK, Entry
  <1>1. CASE PyCheck(t)
    BY <1>0, <1>1 DEF PyCheck, See, Goto, TypeOK, Local
  <1>2. ASSUME NEW p \in Phase, Validate(t, p), torn \subseteq torn'
        PROVE  Local(t, d)
    <2>1. CASE GeneratedAtOk(cache.ver, start[t])
      BY <1>0, <1>2, <2>1 DEF Validate, See, Goto, TypeOK, Local
    <2>2. CASE ~GeneratedAtOk(cache.ver, start[t])
      BY <1>0, <1>2, <2>2, FailIsLocal DEF Validate, Outcome
    <2>3. QED
      BY <2>1, <2>2
  <1>3. CASE PyValidate(t)
    <2>1. torn \subseteq torn'
      BY <1>3 DEF PyValidate, Validate, Tear, Fail
    <2>2. QED
      BY <1>2, <1>3, <2>1 DEF PyValidate, Phase
  <1>4. CASE PyReturnRows(t)
    <2>1. torn \subseteq torn'
      BY <1>4 DEF PyReturnRows, Tear
    <2>2. Deliver(t, cache.ver) /\ UNCHANGED <<cache, crossed>>
      BY <1>4 DEF PyReturnRows
    <2>3. QED
      BY <1>0, <2>1, <2>2, DeliverIsLocal
  <1>5. CASE PyRequestPlain(t)
    BY <1>0, <1>5 DEF PyRequestPlain, Request, Goto, TypeOK, Local
  <1>6. CASE PyTestTag(t)
    BY <1>0, <1>6 DEF PyTestTag, Goto, TypeOK, Local
  <1>7. CASE PyRequestTagged(t)
    <2>1. CASE Fail(t, "TypeError")
      BY <1>0, <2>1, FailIsLocal DEF Outcome
    <2>2. CASE Request(t, cache.etag)
      BY <1>0, <2>2 DEF Request, Goto, TypeOK, Local
    <2>3. QED
      BY <1>7, <2>1, <2>2 DEF PyRequestTagged
  <1>8. CASE PyNotModified(t)
    <2>1. CASE cache.ver = 0
      BY <1>0, <1>8, <2>1, FailIsLocal DEF PyNotModified, Outcome
    <2>2. CASE cache.ver # 0
      BY <1>2, <1>8, <2>2 DEF PyNotModified, Phase
    <2>3. QED
      BY <2>1, <2>2
  <1>9. CASE PyRefresh(t)
    <2>1. cache' = [cache EXCEPT !.expires = ExpiresAt(t)]
      BY <1>9 DEF PyRefresh
    <2>2. cache'.ver = cache.ver
      BY <1>0, <2>1 DEF Entry
    <2>3. torn \subseteq torn' /\ (crossed => crossed')
      BY <1>9 DEF PyRefresh, Tear
    <2>4. QED
      BY <1>0, <1>9, <2>2, <2>3 DEF PyRefresh, Goto, TypeOK, Local
  <1>10. CASE PyBody(t)
    <2>1. resp[t].ver # 0
      BY <1>0, <1>10 DEF PyBody, RespOK
    <2>2. QED
      BY <1>0, <1>10, <2>1, BodyIsLocal DEF PyBody
  <1>11. QED
    BY <1>0, <1>1, <1>3, <1>4, <1>5, <1>6, <1>7, <1>8, <1>9, <1>10, CommonIsLocal DEF PyStep

LEMMA OtherCallOK ==
  ASSUME IInv, NEW t \in Thread, NEW d \in Thread, Local(t, d),
         UNCHANGED <<now, snaps, source>>
  PROVE  CallOK(d)'
  <1>1. CallOK(d)
    BY DEF IInv
  <1>2. RespOK(d)'
    BY <1>1 DEF Local, CallOK, RespOK, CurrentSince
  <1>3. SeenOK(d)'
    BY <1>1 DEF Local, CallOK, SeenOK, CurrentSince, GeneratedAtOk
  <1>4. RowsHonest(d)'
    BY <1>1 DEF Local, CallOK, RowsHonest, Succeeded, CurrentSince, GeneratedAtOk
  <1>5. QED
    BY <1>1, <1>2, <1>3, <1>4 DEF Local, CallOK
-----------------------------------------------------------------------------
(* The inductive invariant: the thread that moves, and the entry. *)

\* A call that has failed or gone keeps nothing an obligation is about.
LEMMA ForgottenCallOK ==
  ASSUME IInv, NEW t \in Thread, NEW p \in {"done", "idle"}, Goto(t, p), Forget(t),
         NEW e \in Outcome \ {"rows"}, outcome' = [outcome EXCEPT ![t] = e],
         p = "idle" => e = "none",
         UNCHANGED <<now, snaps, source>>
  PROVE  CallOK(t)'
  <1>1. /\ pc'[t] = p /\ start'[t] = 0 /\ resp'[t] = NoResponse /\ outcome'[t] = e
        /\ now' \in Nat
    BY DEF IInv, TypeOK, ServerTypeOK, Forget, Goto
  <1>2. QED
    BY <1>1 DEF CallOK, RespOK, SeenOK, RowsHonest, Succeeded, NoResponse

LEMMA EntryStays ==
  ASSUME IInv, UNCHANGED <<now, snaps, cache, crossed>>
  PROVE  EntryOK'
  BY DEF IInv, EntryOK, CurrentSince

LEMMA FailIInv ==
  ASSUME IInv, NEW t \in Thread, NEW e \in Outcome \ {"none", "rows"}, Fail(t, e),
         UNCHANGED <<now, snaps, source>>
  PROVE  CallOK(t)' /\ EntryOK'
  BY ForgottenCallOK, EntryStays DEF Fail

\* What a call returns: its snapshot is a good one to return.
LEMMA DeliverCallOK ==
  ASSUME IInv, NEW t \in Thread, NEW v \in 1..Len(snaps), Deliver(t, v),
         "window" \notin torn' => GeneratedAtOk(v, start[t]),
         resp[t].status = "200" => CurrentSince(v, start[t]),
         ~crossed' /\ torn' = {} => CurrentSince(v, start[t] - AgeCap),
         UNCHANGED <<now, snaps, source>>
  PROVE  CallOK(t)'
  <1>1. /\ pc'[t] = "done" /\ got'[t] = v /\ outcome'[t] = "rows"
        /\ start' = start /\ resp' = resp
    BY DEF IInv, TypeOK, Deliver, Goto
  <1>2. RespOK(t) /\ start[t] <= now
    BY DEF IInv, CallOK
  <1>3. RespOK(t)'
    BY <1>1, <1>2 DEF RespOK, CurrentSince, Waiting
  <1>4. SeenOK(t)'
    BY <1>1 DEF SeenOK
  <1>5. RowsHonest(t)'
    BY <1>1 DEF RowsHonest, CurrentSince, GeneratedAtOk
  <1>6. QED
    BY <1>1, <1>2, <1>3, <1>4, <1>5 DEF CallOK

\* The times a response and an entry are about.
LEMMA Times ==
  ASSUME IInv, NEW t \in Thread
  PROVE  /\ ServerTypeOK /\ now \in Nat /\ Len(snaps) \in Nat /\ Len(snaps) >= 1
         /\ start[t] \in Nat /\ start[t] <= now /\ AgeCap \in Nat
         /\ start[t] - AgeCap \in Int /\ start[t] - AgeCap <= start[t]
         /\ ExpiresAt(t) \in Int /\ ExpiresAt(t) - AgeCap \in Int
         /\ ExpiresAt(t) - AgeCap <= start[t] /\ ExpiresAt(t) <= now + AgeCap
         /\ cache.ver \in Nat /\ cache.ver <= Len(snaps) /\ cache.expires \in Int
         /\ resp[t].ver \in Nat /\ seen[t] \in Nat
  <1>1. /\ start[t] \in Nat /\ ExpiresAt(t) \in Int /\ AgeCap \in Nat
        /\ ExpiresAt(t) <= start[t] + AgeCap
    BY ExpiryFromStart DEF IInv
  <1>2. /\ ServerTypeOK /\ now \in Nat /\ Len(snaps) \in Nat /\ Len(snaps) >= 1
        /\ cache.ver \in Nat /\ cache.expires \in Int /\ resp[t].ver \in Nat /\ seen[t] \in Nat
    BY DEF IInv, TypeOK, ServerTypeOK, Entry, Response
  <1>3. start[t] <= now /\ cache.ver <= Len(snaps)
    BY DEF IInv, CallOK, EntryOK
  <1>4. QED
    BY <1>1, <1>2, <1>3

\* What was current when the call began was current AgeCap before.
LEMMA CurrentBefore ==
  ASSUME IInv, NEW t \in Thread, NEW v \in Nat, CurrentSince(v, start[t])
  PROVE  CurrentSince(v, start[t] - AgeCap) /\ CurrentSince(v, ExpiresAt(t) - AgeCap)
  BY Times, CurrentSinceEarlier

\* An entry that has not expired was current AgeCap ago.
LEMMA UnexpiredIsRecent ==
  ASSUME IInv, NEW t \in Thread, Unexpired(cache, start[t])
  PROVE  /\ cache.ver \in 1..Len(snaps)
         /\ ~crossed => CurrentSince(cache.ver, start[t] - AgeCap)
  <1>1. /\ cache.ver # 0 /\ start[t] < cache.expires
        /\ ~crossed => CurrentSince(cache.ver, cache.expires - AgeCap)
    BY DEF Unexpired, IInv, EntryOK
  <1>2. /\ cache.expires - AgeCap \in Int /\ start[t] - AgeCap \in Int
        /\ start[t] - AgeCap <= cache.expires - AgeCap
    BY <1>1, Times
  <1>3. cache.ver \in 1..Len(snaps)
    BY <1>1, Times
  <1>4. QED
    BY <1>1, <1>2, <1>3, Times, CurrentSinceEarlier

\* A refresh: unless it is crossed, the entry is the one confirmed.
LEMMA RefreshEntryOK ==
  ASSUME IInv, NEW t \in Thread,
         cache' = [cache EXCEPT !.expires = ExpiresAt(t)],
         crossed' = (crossed \/ resp[t].ver # cache.ver),
         UNCHANGED <<now, snaps>>
  PROVE  /\ EntryOK'
         /\ ~crossed' /\ cache.ver # 0 => CurrentSince(cache.ver, start[t])
  <1>1. cache'.ver = cache.ver /\ cache'.expires = ExpiresAt(t)
    BY DEF IInv, TypeOK, Entry
  <1>2. ~crossed' /\ cache.ver # 0 => CurrentSince(cache.ver, start[t])
    BY DEF IInv, CallOK, RespOK
  <1>3. ~crossed' /\ cache.ver # 0 => CurrentSince(cache.ver, ExpiresAt(t) - AgeCap)
    BY <1>2, Times, CurrentBefore
  <1>4. EntryOK'
    BY <1>1, <1>3, Times DEF EntryOK, CurrentSince
  <1>5. QED
    BY <1>2, <1>4

\* A body: what is stored and returned was current when the call began.
LEMMA BodyIInv ==
  ASSUME IInv, NEW t \in Thread, GoodBody(t) \/ BadBody(t), resp[t].status = "200",
         UNCHANGED <<now, snaps, source>>
  PROVE  CallOK(t)' /\ EntryOK'
  <1>1. CASE BadBody(t) \/ ~GeneratedAtOk(resp[t].ver, start[t])
    BY <1>1, FailIInv DEF BadBody, GoodBody, Outcome
  <1>2. CASE GoodBody(t) /\ GeneratedAtOk(resp[t].ver, start[t])
    <2>1. /\ cache' = [ver |-> resp[t].ver, etag |-> resp[t].etag, expires |-> ExpiresAt(t)]
          /\ Deliver(t, resp[t].ver) /\ UNCHANGED <<crossed, torn>>
      BY <1>2 DEF GoodBody
    <2>2. CurrentSince(resp[t].ver, start[t])
      BY DEF IInv, CallOK, RespOK
    <2>3. /\ CurrentSince(resp[t].ver, start[t] - AgeCap)
          /\ CurrentSince(resp[t].ver, ExpiresAt(t) - AgeCap)
      BY <2>2, Times, CurrentBefore
    <2>4. resp[t].ver \in 1..Len(snaps)
      BY <2>2 DEF CurrentSince
    <2>5. CallOK(t)'
      BY <1>2, <2>1, <2>2, <2>3, <2>4, DeliverCallOK
    <2>6. EntryOK'
      BY <2>1, <2>3, <2>4, Times DEF EntryOK, CurrentSince
    <2>7. QED
      BY <2>5, <2>6
  <1>3. QED
    BY <1>1, <1>2

LEMMA RequestIInv ==
  ASSUME IInv, NEW t \in Thread, NEW tag \in Nat, Request(t, tag), pc[t] \in Waiting,
         UNCHANGED <<now, snaps, source>>
  PROVE  CallOK(t)' /\ EntryOK'
  <1>1. /\ pc'[t] = "requested"
        /\ UNCHANGED <<cache, start, resp, outcome, crossed>>
    BY DEF Request, Goto, IInv, TypeOK
  <1>2. CallOK(t)'
    BY <1>1 DEF IInv, CallOK, RespOK, SeenOK, RowsHonest, Succeeded, Waiting, NoResponse
  <1>3. QED
    BY <1>1, <1>2, EntryStays

LEMMA CommonIInv ==
  ASSUME IInv, NEW t \in Thread, CommonStep(t), UNCHANGED <<now, snaps, source>>
  PROVE  CallOK(t)' /\ EntryOK'
  <1>1. CASE ReadClock(t)
    <2>1. /\ pc[t] = "idle" /\ pc'[t] = "begun" /\ start'[t] = now /\ now \in Nat
          /\ UNCHANGED <<cache, resp, outcome, crossed>>
      BY <1>1 DEF ReadClock, Goto, IInv, TypeOK, ServerTypeOK
    <2>2. CallOK(t)'
      BY <2>1 DEF IInv, CallOK, RespOK, SeenOK, RowsHonest, Succeeded, Waiting, NoResponse
    <2>3. QED
      BY <2>1, <2>2, EntryStays
  <1>2. CASE Answer(t)
    <2>1. PICK r \in Answers(sent[t]) : resp' = [resp EXCEPT ![t] = r]
      BY <1>2 DEF Answer
    <2>2. /\ pc[t] = "requested" /\ pc'[t] = "answered" /\ resp'[t] = r
          /\ UNCHANGED <<cache, start, outcome, crossed>>
      BY <1>2, <2>1 DEF Answer, Goto, IInv, TypeOK
    <2>3. Current = Len(snaps) /\ Len(snaps) \in Nat /\ Len(snaps) >= 1
      BY Times DEF Current
    <2>4. /\ r.status = "200" => r.ver # 0
          /\ r.ver # 0 => r.ver = Len(snaps)
      BY <2>3 DEF Answers, NoResponse
    <2>5. r.ver # 0 => CurrentSince(r.ver, start[t])
      BY <2>3, <2>4 DEF CurrentSince
    <2>6. CallOK(t)'
      BY <2>2, <2>4, <2>5
         DEF IInv, CallOK, RespOK, SeenOK, RowsHonest, Succeeded, Waiting, CurrentSince
    <2>7. QED
      BY <2>2, <2>6, EntryStays
  <1>3. CASE Unsuccessful(t) \/ TimesOut(t)
    BY <1>3, FailIInv DEF Unsuccessful, TimesOut, Outcome
  <1>4. CASE Return(t)
    BY <1>4, ForgottenCallOK, EntryStays DEF Return, Outcome
  <1>5. QED
    BY <1>1, <1>2, <1>3, <1>4 DEF CommonStep

LEMMA GoIInv ==
  ASSUME IInv, NEW t \in Thread, GoStep(t), UNCHANGED <<now, snaps, source>>
  PROVE  CallOK(t)' /\ EntryOK'
  <1>0. CallOK(t) /\ RespOK(t)
    BY DEF IInv, CallOK
  <1>1. CASE GoCheck(t)
    <2>1. CASE Fail(t, "SnapshotValidationError")
      BY <2>1, FailIInv DEF Outcome
    <2>2. CASE /\ Unexpired(cache, start[t]) /\ GeneratedAtOk(cache.ver, start[t])
               /\ Deliver(t, cache.ver) /\ UNCHANGED <<cache, crossed, torn>>
      <3>1. resp[t].status # "200"
        BY <1>0, <1>1 DEF GoCheck, RespOK, Waiting, NoResponse
      <3>2. QED
        BY <2>2, <3>1, UnexpiredIsRecent, DeliverCallOK, EntryStays
    <2>3. CASE Request(t, cache.etag)
      <3>1. cache.etag \in Nat
        BY DEF IInv, TypeOK, Entry
      <3>2. QED
        BY <1>1, <2>3, <3>1, RequestIInv DEF GoCheck, Waiting
    <2>4. QED
      BY <1>1, <2>1, <2>2, <2>3 DEF GoCheck
  <1>2. CASE GoNotModified(t)
    <2>1. CASE cache.ver = 0 \/ ~GeneratedAtOk(cache.ver, start[t])
      BY <1>2, <2>1, FailIInv DEF GoNotModified, Outcome
    <2>2. CASE cache.ver # 0 /\ GeneratedAtOk(cache.ver, start[t])
      <3>1. /\ resp[t].status = "304"
            /\ cache' = [cache EXCEPT !.expires = ExpiresAt(t)]
            /\ crossed' = (crossed \/ resp[t].ver # cache.ver)
            /\ Deliver(t, cache.ver) /\ UNCHANGED torn
        BY <1>2, <2>2 DEF GoNotModified
      <3>2. EntryOK' /\ (~crossed' => CurrentSince(cache.ver, start[t]))
        BY <2>2, <3>1, RefreshEntryOK
      <3>3. ~crossed' => CurrentSince(cache.ver, start[t] - AgeCap)
        BY <3>2, Times, CurrentBefore
      <3>4. cache.ver \in 1..Len(snaps)
        BY <2>2, Times
      <3>5. QED
        BY <2>2, <3>1, <3>2, <3>3, <3>4, DeliverCallOK
    <2>3. QED
      BY <2>1, <2>2
  <1>3. CASE GoReturnResponse(t)
    <2>1. /\ pc[t] = "answered" /\ pc'[t] = "decoding" /\ resp[t].status = "200"
          /\ UNCHANGED <<cache, start, resp, outcome, crossed>>
      BY <1>3 DEF GoReturnResponse, Goto, IInv, TypeOK
    <2>2. CallOK(t)'
      BY <1>0, <2>1 DEF CallOK, RespOK, SeenOK, RowsHonest, Succeeded, Waiting, CurrentSince
    <2>3. QED
      BY <2>1, <2>2, EntryStays
  <1>4. CASE GoDecode(t)
    <2>1. resp[t].status = "200"
      BY <1>0, <1>4 DEF GoDecode, RespOK
    <2>2. QED
      BY <1>4, <2>1, BodyIInv, FailIInv DEF GoDecode, Outcome
  <1>5. QED
    BY <1>1, <1>2, <1>3, <1>4, CommonIInv DEF GoStep

\* A Python call that has validated an entry goes on.
LEMMA ValidateIInv ==
  ASSUME IInv, NEW t \in Thread, NEW p \in {"confirmed", "validated"}, Validate(t, p),
         pc[t] \in {"checked", "answered"}, cache.ver # 0, resp[t].status # "200",
         GeneratedAtOk(cache.ver, start[t]) /\ p = "validated" /\ ~crossed /\ torn' = {} =>
           CurrentSince(cache.ver, start[t] - AgeCap),
         UNCHANGED <<now, snaps, source>>
  PROVE  CallOK(t)' /\ EntryOK'
  <1>1. CASE GeneratedAtOk(cache.ver, start[t])
    <2>1. /\ pc'[t] = p /\ seen'[t] = cache.ver
          /\ UNCHANGED <<cache, start, resp, outcome, crossed>>
      BY <1>1 DEF Validate, See, Goto, IInv, TypeOK
    <2>2. cache.ver \in 1..Len(snaps)
      BY Times
    <2>3. SeenOK(t)'
      BY <1>1, <2>1, <2>2 DEF SeenOK, GeneratedAtOk, CurrentSince
    <2>4. RespOK(t)'
      BY <2>1 DEF IInv, CallOK, RespOK, Waiting, CurrentSince
    <2>5. CallOK(t)'
      BY <2>1, <2>3, <2>4 DEF IInv, CallOK, RowsHonest, Succeeded
    <2>6. QED
      BY <2>1, <2>5, EntryStays
  <1>2. CASE ~GeneratedAtOk(cache.ver, start[t])
    BY <1>2, FailIInv DEF Validate, Outcome
  <1>3. QED
    BY <1>1, <1>2

LEMMA PyIInv ==
  ASSUME IInv, NEW t \in Thread, PyStep(t), UNCHANGED <<now, snaps, source>>
  PROVE  CallOK(t)' /\ EntryOK'
  <1>0. CallOK(t) /\ RespOK(t) /\ SeenOK(t) /\ cache.etag \in Nat
    BY DEF IInv, CallOK, TypeOK, Entry
  <1>1. CASE PyCheck(t)
    <2>1. /\ pc[t] = "begun" /\ seen'[t] = cache.ver
          /\ pc'[t] = IF Unexpired(cache, start[t]) THEN "checked" ELSE "tested"
          /\ UNCHANGED <<cache, start, resp, outcome, crossed>>
      BY <1>1 DEF PyCheck, See, Goto, IInv, TypeOK
    <2>2. SeenOK(t)'
      <3>1. CASE Unexpired(cache, start[t])
        <4>1. /\ cache.ver \in 1..Len(snaps) /\ cache.ver # 0
              /\ ~crossed => CurrentSince(cache.ver, start[t] - AgeCap)
          BY <3>1, UnexpiredIsRecent
        <4>2. QED
          BY <2>1, <3>1, <4>1 DEF SeenOK, CurrentSince
      <3>2. CASE ~Unexpired(cache, start[t])
        BY <2>1, <3>2 DEF SeenOK
      <3>3. QED
        BY <3>1, <3>2
    <2>3. CallOK(t)'
      BY <1>0, <2>1, <2>2 DEF CallOK, RespOK, RowsHonest, Succeeded, Waiting, NoResponse
    <2>4. QED
      BY <2>1, <2>3, EntryStays
  <1>2. CASE PyValidate(t)
    <2>1. /\ cache.ver # 0 /\ resp[t].status # "200"
          /\ ~crossed => CurrentSince(seen[t], start[t] - AgeCap)
      BY <1>0, <1>2 DEF PyValidate, SeenOK, RespOK, Waiting, NoResponse
    <2>2. GeneratedAtOk(cache.ver, start[t]) /\ torn' = {} => seen[t] = cache.ver
      BY <1>2 DEF PyValidate, Tear
    <2>3. QED
      BY <1>2, <2>1, <2>2, ValidateIInv DEF PyValidate
  <1>3. CASE PyReturnRows(t)
    <2>1. /\ cache.ver \in 1..Len(snaps) /\ resp[t].status # "200"
          /\ GeneratedAtOk(seen[t], start[t])
          /\ ~crossed /\ torn = {} => CurrentSince(seen[t], start[t] - AgeCap)
      BY <1>0, <1>3, Times DEF PyReturnRows, SeenOK, RespOK
    <2>2. /\ "window" \notin torn' => seen[t] = cache.ver
          /\ torn' = {} => torn = {}
      BY <1>3 DEF PyReturnRows, Tear
    <2>3. Deliver(t, cache.ver) /\ UNCHANGED <<cache, crossed>>
      BY <1>3 DEF PyReturnRows
    <2>4. ~crossed' /\ torn' = {} => CurrentSince(cache.ver, start[t] - AgeCap)
      BY <2>1, <2>2, <2>3
    <2>5. "window" \notin torn' => GeneratedAtOk(cache.ver, start[t])
      BY <2>1, <2>2
    <2>6. QED
      BY <2>1, <2>3, <2>4, <2>5, DeliverCallOK, EntryStays
  <1>4. CASE PyRequestPlain(t)
    BY <1>4, RequestIInv DEF PyRequestPlain, Waiting
  <1>5. CASE PyTestTag(t)
    <2>1. /\ pc[t] = "tested" /\ pc'[t] = "tagged"
          /\ UNCHANGED <<cache, start, resp, outcome, crossed>>
      BY <1>5 DEF PyTestTag, Goto, IInv, TypeOK
    <2>2. CallOK(t)'
      BY <1>0, <2>1 DEF CallOK, RespOK, SeenOK, RowsHonest, Succeeded, Waiting, NoResponse
    <2>3. QED
      BY <2>1, <2>2, EntryStays
  <1>6. CASE PyRequestTagged(t)
    <2>1. CASE Fail(t, "TypeError")
      BY <2>1, FailIInv DEF Outcome
    <2>2. CASE Request(t, cache.etag)
      BY <1>0, <1>6, <2>2, RequestIInv DEF PyRequestTagged, Waiting
    <2>3. QED
      BY <1>6, <2>1, <2>2 DEF PyRequestTagged
  <1>7. CASE PyNotModified(t)
    <2>1. CASE cache.ver = 0
      BY <1>7, <2>1, FailIInv DEF PyNotModified, Outcome
    <2>2. CASE cache.ver # 0
      BY <1>7, <2>2, ValidateIInv DEF PyNotModified
    <2>3. QED
      BY <2>1, <2>2
  <1>8. CASE PyRefresh(t)
    <2>1. /\ pc[t] = "confirmed" /\ pc'[t] = "validated"
          /\ cache' = [cache EXCEPT !.expires = ExpiresAt(t)]
          /\ crossed' = (crossed \/ resp[t].ver # cache.ver)
          /\ UNCHANGED <<start, resp, seen, outcome>>
      BY <1>8 DEF PyRefresh, Goto, IInv, TypeOK
    <2>2. torn' = {} => seen[t] = cache.ver
      BY <1>8 DEF PyRefresh, Tear
    <2>3. cache'.ver = cache.ver
      BY <2>1 DEF IInv, TypeOK, Entry
    <2>4. EntryOK' /\ (~crossed' /\ cache.ver # 0 => CurrentSince(cache.ver, start[t]))
      BY <2>1, RefreshEntryOK
    <2>5. ~crossed' /\ cache.ver # 0 => CurrentSince(cache.ver, start[t] - AgeCap)
      BY <2>4, Times, CurrentBefore
    <2>6. SeenOK(t)'
      BY <1>0, <2>1, <2>2, <2>3, <2>5 DEF SeenOK, CurrentSince, GeneratedAtOk
    <2>7. RespOK(t)'
      BY <1>0, <2>1 DEF RespOK, Waiting, CurrentSince
    <2>8. QED
      BY <1>0, <2>1, <2>4, <2>6, <2>7 DEF CallOK, RowsHonest, Succeeded
  <1>9. CASE PyBody(t)
    BY <1>9, BodyIInv DEF PyBody
  <1>10. QED
    BY <1>1, <1>2, <1>3, <1>4, <1>5, <1>6, <1>7, <1>8, <1>9, CommonIInv DEF PyStep
-----------------------------------------------------------------------------
(* Both clients keep the invariant. *)

LEMMA StepIInv ==
  ASSUME IInv, NEW t \in Thread, ThreadStep(t), UNCHANGED <<now, snaps, source>>
  PROVE  IInv'
  <1>1. TypeOK'
    BY GoTypeOK, PyTypeOK DEF ThreadStep, IInv
  <1>2. CallOK(t)' /\ EntryOK'
    BY GoIInv, PyIInv DEF ThreadStep
  <1>3. ASSUME NEW d \in Thread, d # t PROVE CallOK(d)'
    <2>1. Local(t, d)
      BY <1>3, GoIsLocal, PyIsLocal DEF ThreadStep
    <2>2. QED
      BY <2>1, OtherCallOK
  <1>4. QED
    BY <1>1, <1>2, <1>3 DEF IInv

LEMMA StutterIInv == IInv /\ UNCHANGED vars => IInv'
  BY DEF vars, IInv, TypeOK, ServerTypeOK, EntryOK, CallOK, RespOK, SeenOK, RowsHonest,
         Succeeded, CurrentSince, GeneratedAtOk

LEMMA GoNextIInv == IInv /\ [GoNext]_vars => IInv'
  BY StepIInv, StutterIInv, EnvironmentIInv DEF GoNext, ThreadStep

LEMMA PyNextIInv == IInv /\ [PyNext]_vars => IInv'
  BY StepIInv, StutterIInv, EnvironmentIInv DEF PyNext, ThreadStep

\* The inductive invariant holds throughout, of the Go client ...
THEOREM GoInvariance == GoSpec => []IInv
  BY InitIInv, GoNextIInv, PTL DEF GoSpec

\* ... and of the Python client.
THEOREM PyInvariance == PySpec => []IInv
  BY InitIInv, PyNextIInv, PTL DEF PySpec

\* Every variable keeps its type.
THEOREM TypeCorrect == (GoSpec => []TypeOK) /\ (PySpec => []TypeOK)
  <1>1. IInv => TypeOK
    BY DEF IInv
  <1>2. QED
    BY <1>1, GoInvariance, PyInvariance, PTL

-----------------------------------------------------------------------------
(* The properties. *)

LEMMA IInvImplies == IInv => /\ WindowUnlessTorn
                             /\ RetainedUnlessCrossedOrTorn
                             /\ FetchedIsCurrent
  <1> SUFFICES ASSUME IInv
               PROVE  WindowUnlessTorn /\ RetainedUnlessCrossedOrTorn /\ FetchedIsCurrent
    OBVIOUS
  <1>1. \A t \in Thread : RowsHonest(t)
    BY DEF IInv, CallOK
  <1>2. WindowUnlessTorn
    BY <1>1 DEF WindowUnlessTorn, RowsHonest, GeneratedAtOk
  <1>3. RetainedUnlessCrossedOrTorn
    BY <1>1 DEF RetainedUnlessCrossedOrTorn, RowsHonest
  <1>4. FetchedIsCurrent
    BY <1>1 DEF FetchedIsCurrent, RowsHonest
  <1>5. QED
    BY <1>2, <1>3, <1>4

\* API rows come from a snapshot inside the window around the call's clock,
\* unless a Python call returned another entry than it had validated.
THEOREM WindowUnlessTornHolds ==
  (GoSpec => []WindowUnlessTorn) /\ (PySpec => []WindowUnlessTorn)
  BY IInvImplies, GoInvariance, PyInvariance, PTL

\* A snapshot that was replaced more than the cap before a call is returned
\* only if a 304 refreshed an entry it did not confirm, or, in Python, if an
\* entry was replaced between a check and a use of it.
THEOREM RetainedUnlessCrossedOrTornHolds ==
  (GoSpec => []RetainedUnlessCrossedOrTorn) /\ (PySpec => []RetainedUnlessCrossedOrTorn)
  BY IInvImplies, GoInvariance, PyInvariance, PTL

\* A call that was answered 200 returns what it was sent.
THEOREM FetchedIsCurrentHolds ==
  (GoSpec => []FetchedIsCurrent) /\ (PySpec => []FetchedIsCurrent)
  BY IInvImplies, GoInvariance, PyInvariance, PTL

\* No entry was replaced under a call.
Untorn == torn = {}

\* Go's critical sections do their job: no entry is ever replaced between a
\* check and a use of it.  So in Go the window holds without a condition.
THEOREM GoIsNeverTorn == GoSpec => []Untorn
  <1>1. ServerInit /\ ThreadInit => Untorn
    BY DEF ThreadInit, Untorn
  <1>2. Untorn /\ [GoNext]_vars => Untorn'
    <2> SUFFICES ASSUME [GoNext]_vars PROVE torn' = torn
      BY DEF Untorn
    <2>1. ASSUME NEW t \in Thread, GoStep(t) PROVE torn' = torn
      <3>1. CASE CommonStep(t)
        BY <3>1 DEF CommonStep, ReadClock, Answer, Unsuccessful, TimesOut, Return, Fail
      <3>2. CASE GoCheck(t) \/ GoNotModified(t) \/ GoReturnResponse(t)
        BY <3>2 DEF GoCheck, GoNotModified, GoReturnResponse, Request, Fail
      <3>3. CASE GoDecode(t)
        BY <3>3 DEF GoDecode, GoodBody, BadBody, Fail
      <3>4. QED
        BY <2>1, <3>1, <3>2, <3>3 DEF GoStep
    <2>2. QED
      BY <2>1 DEF GoNext, Environment, vars
  <1>3. QED
    BY <1>1, <1>2, PTL DEF GoSpec

-----------------------------------------------------------------------------
(* Who writes the entry. *)

\* The body of CacheWrittenOnlyBySuccess.
Accounted ==
  /\ cache' # cache =>
       \E t \in Thread :
         \/ pc'[t] = "done" /\ outcome'[t] = "rows" /\ pc[t] # "done"
         \/ pc[t] = "confirmed" /\ pc'[t] = "validated"
  /\ \A t \in Thread : pc[t] = "validated" => outcome'[t] \in {"none", "rows"}

\* A delivery ends its call with rows.
LEMMA DeliverEnds ==
  ASSUME TypeOK, NEW t \in Thread, NEW v \in Nat, Deliver(t, v)
  PROVE  pc'[t] = "done" /\ outcome'[t] = "rows"
  BY DEF TypeOK, Deliver, Goto

LEMMA WriterSucceeds ==
  ASSUME IInv, NEW t \in Thread, ThreadStep(t), cache' # cache
  PROVE  \/ pc'[t] = "done" /\ outcome'[t] = "rows" /\ pc[t] # "done"
         \/ pc[t] = "confirmed" /\ pc'[t] = "validated"
  <1>0. TypeOK /\ cache.ver \in Nat /\ resp[t].ver \in Nat
    BY DEF IInv, TypeOK, Entry, Response
  <1>1. \/ GoNotModified(t) \/ GoDecode(t) \/ PyRefresh(t) \/ PyBody(t)
    <2>1. ~CommonStep(t)
      BY DEF CommonStep, ReadClock, Answer, Unsuccessful, TimesOut, Return, Fail
    <2>2. ~GoCheck(t) /\ ~GoReturnResponse(t)
      BY DEF GoCheck, GoReturnResponse, Request, Fail
    <2>3. ~PyCheck(t) /\ ~PyReturnRows(t) /\ ~PyTestTag(t)
      BY DEF PyCheck, PyReturnRows, PyTestTag
    <2>4. ~PyRequestPlain(t) /\ ~PyRequestTagged(t)
      BY DEF PyRequestPlain, PyRequestTagged, Request, Fail
    <2>5. ~PyValidate(t) /\ ~PyNotModified(t)
      BY DEF PyValidate, PyNotModified, Validate, Fail
    <2>6. QED
      BY <2>1, <2>2, <2>3, <2>4, <2>5 DEF ThreadStep, GoStep, PyStep
  <1>2. CASE GoNotModified(t)
    <2>1. Deliver(t, cache.ver) /\ pc[t] = "answered"
      BY <1>2 DEF GoNotModified, Fail
    <2>2. QED
      BY <1>0, <2>1, DeliverEnds
  <1>3. CASE GoDecode(t) \/ PyBody(t)
    <2>1. Deliver(t, resp[t].ver) /\ pc[t] \in {"decoding", "answered"}
      BY <1>3 DEF GoDecode, PyBody, GoodBody, BadBody, Fail
    <2>2. QED
      BY <1>0, <2>1, DeliverEnds
  <1>4. CASE PyRefresh(t)
    BY <1>0, <1>4 DEF PyRefresh, Goto, TypeOK
  <1>5. QED
    BY <1>1, <1>2, <1>3, <1>4

LEMMA StepAccounted ==
  ASSUME IInv, NEW t \in Thread, ThreadStep(t)
  PROVE  Accounted
  <1>1. cache' # cache =>
          \E d \in Thread :
            \/ pc'[d] = "done" /\ outcome'[d] = "rows" /\ pc[d] # "done"
            \/ pc[d] = "confirmed" /\ pc'[d] = "validated"
    BY WriterSucceeds
  <1>2. ASSUME NEW d \in Thread, pc[d] = "validated"
        PROVE  outcome'[d] \in {"none", "rows"}
    <2>1. outcome[d] = "none" /\ TypeOK /\ cache.ver \in Nat
      BY <1>2 DEF IInv, CallOK, TypeOK, Entry
    <2>2. CASE d # t
      BY <2>1, <2>2, GoIsLocal, PyIsLocal DEF ThreadStep, Local
    <2>3. CASE d = t
      <3>1. PyReturnRows(t)
        BY <1>2, <2>3
           DEF ThreadStep, GoStep, PyStep, CommonStep, ReadClock, Answer, Unsuccessful, TimesOut,
               Return, GoCheck, GoNotModified, GoReturnResponse, GoDecode, PyCheck, PyValidate,
               PyRequestPlain, PyTestTag, PyRequestTagged, PyNotModified, PyRefresh, PyBody
      <3>2. QED
        BY <2>1, <2>3, <3>1, DeliverEnds DEF PyReturnRows
    <2>4. QED
      BY <2>2, <2>3
  <1>3. QED
    BY <1>1, <1>2 DEF Accounted

LEMMA OthersAccounted ==
  ASSUME IInv, Environment \/ UNCHANGED vars
  PROVE  Accounted
  <1>1. cache' = cache /\ outcome' = outcome
    BY DEF Environment, vars
  <1>2. \A t \in Thread : pc[t] = "validated" => outcome[t] = "none"
    BY DEF IInv, CallOK
  <1>3. QED
    BY <1>1, <1>2 DEF Accounted

\* The entry is changed by nothing but a call that goes on to return rows.
THEOREM CacheWrittenOnlyBySuccessHolds ==
  (GoSpec => CacheWrittenOnlyBySuccess) /\ (PySpec => CacheWrittenOnlyBySuccess)
  <1>1. IInv /\ [GoNext]_vars => Accounted
    BY StepAccounted, OthersAccounted DEF GoNext, ThreadStep
  <1>2. IInv /\ [PyNext]_vars => Accounted
    BY StepAccounted, OthersAccounted DEF PyNext, ThreadStep
  <1>3. ([][Accounted]_vars) => CacheWrittenOnlyBySuccess
    BY DEF Accounted, CacheWrittenOnlyBySuccess
  <1> HIDE DEF Accounted
  <1>4. QED
    BY <1>1, <1>2, <1>3, GoInvariance, PyInvariance, PTL DEF GoSpec, PySpec
=============================================================================
