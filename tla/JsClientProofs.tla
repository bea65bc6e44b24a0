--------------------------- MODULE JsClientProofs ---------------------------
(***************************************************************************)
(* What holds of JsClient for every set of callers, every window, every    *)
(* set of faults and every schedule.                                       *)
(***************************************************************************)
EXTENDS JsClient, SnapshotServerProofs

\* Only a call that waits for headers, for a body or to resume has a response.
NoStrayResponse(c) ==
  pc[c] \in {"idle", "requested", "done"} => resp[c] = NoResponse

\* What the endpoint sent to or confirmed for call c was current when asked.
ServerHonest(c) ==
  pc[c] \in {"answered", "reading"} =>
    /\ pc[c] = "reading" => resp[c].status = "200"
    /\ resp[c].status = "200" => resp[c].ver # 0
    /\ resp[c].ver # 0 => CurrentSince(resp[c].ver, start[c])

\* What _rows() of call c returned.
RowsHonest(c) ==
  Succeeded(c) =>
    /\ got[c] \in 1..Len(snaps)
    /\ GeneratedAtOk(got[c], start[c])
    /\ resp[c].status = "200" => CurrentSince(got[c], start[c])
    /\ ~crossed => CurrentSince(got[c], start[c] - AgeCap)

CallOK(c) ==
  start[c] <= now /\ NoStrayResponse(c) /\ ServerHonest(c) /\ RowsHonest(c)

\* The entry was current AgeCap before it expires, unless a 304 was crossed.
EntryOK ==
  /\ cache.ver <= Len(snaps)
  /\ cache.expires <= now + AgeCap
  /\ ~crossed /\ cache.ver # 0 => CurrentSince(cache.ver, cache.expires - AgeCap)

\* The inductive invariant.
IInv == TypeOK /\ EntryOK /\ \A c \in Caller : CallOK(c)

USE DEF clientVars

-----------------------------------------------------------------------------
(* Helpers. *)

\* cacheSeconds stays between 0 and the cap.
LEMMA CacheSecondsBounded ==
  ASSUME NEW m \in Nat \cup {Absent}
  PROVE  CacheSeconds(m) \in Nat /\ CacheSeconds(m) <= AgeCap
  BY WindowAssumption, ServerAssumption DEF CacheSeconds

\* validateFilters returns filters of the type the call keeps.
LEMMA ValidatedType ==
  ASSUME NEW f \in Filters
  PROVE  Validated(f) \in [within : Int, limit : Nat \cup {Absent}, match : SUBSET Proxy]
  BY ClientAssumption DEF Validated, CheckedWithin

-----------------------------------------------------------------------------
(* Type correctness. *)

LEMMA InitTypeOK == Init => TypeOK
  <1> SUFFICES ASSUME Init PROVE TypeOK
    OBVIOUS
  <1>1. ServerTypeOK
    BY ServerAssumption DEF Init, ServerInit, ServerTypeOK, Snapshot
  <1>2. NoFilter \in [within : Int, limit : Nat \cup {Absent}, match : SUBSET Proxy]
    BY ClientAssumption DEF NoFilter
  <1>3. NoResponse \in Response /\ NoEntry \in Entry
    BY DEF NoResponse, Response, Status, NoEntry, Entry
  <1>4. QED
    BY <1>1, <1>2, <1>3, ClientAssumption DEF Init, JsInit, TypeOK, Phase, Outcome

LEMMA FailTypeOK ==
  ASSUME TypeOK, NEW c \in Caller, NEW e \in Errors, Fail(c, e),
         UNCHANGED <<now, snaps, source>>
  PROVE  TypeOK'
  <1>1. NoFilter \in [within : Int, limit : Nat \cup {Absent}, match : SUBSET Proxy]
    BY ClientAssumption DEF NoFilter
  <1>2. NoResponse \in Response
    BY DEF NoResponse, Response, Status
  <1>3. QED
    BY <1>1, <1>2 DEF TypeOK, ServerTypeOK, Fail, ForgetCall, Phase, Outcome

LEMMA EnvironmentTypeOK ==
  ASSUME TypeOK, Environment
  PROVE  TypeOK'
  <1>1. ServerTypeOK'
    BY EnvironmentServerTypeOK DEF TypeOK, Environment
  <1>2. QED
    BY <1>1 DEF TypeOK, Environment

LEMMA StepTypeOK ==
  ASSUME TypeOK, NEW c \in Caller, Step(c), UNCHANGED <<now, snaps, source>>
  PROVE  TypeOK'
  <1> USE DEF Errors
  <1>1. CASE RejectFilters(c)
    BY <1>1, FailTypeOK DEF RejectFilters
  <1>2. ASSUME NEW f \in Filters, Hit(c, f)
        PROVE  TypeOK'
    <2>1. CASE ~GeneratedAtOk(cache.ver, now)
      BY <1>2, <2>1, FailTypeOK DEF Hit
    <2>2. CASE GeneratedAtOk(cache.ver, now)
      <3>1. cache.ver \in Nat /\ now \in Nat
        BY DEF TypeOK, ServerTypeOK, Entry
      <3>2. Validated(f) \in [within : Int, limit : Nat \cup {Absent}, match : SUBSET Proxy]
        BY ValidatedType
      <3>3. Begin(c, f) /\ Deliver(c, cache.ver) /\ UNCHANGED <<cache, sent, crossed>>
        BY <1>2, <2>2 DEF Hit
      <3>4. QED
        BY <3>1, <3>2, <3>3 DEF Begin, Deliver, TypeOK, ServerTypeOK, Phase
    <2>3. QED
      BY <2>1, <2>2
  <1>3. ASSUME NEW f \in Filters, Request(c, f)
        PROVE  TypeOK'
    <2>1. cache.etag \in Nat /\ now \in Nat
      BY DEF TypeOK, ServerTypeOK, Entry
    <2>2. QED
      BY <1>3, <2>1, ValidatedType DEF Request, Begin, TypeOK, ServerTypeOK, Phase
  <1>4. CASE Answer(c)
    <2>1. PICK r \in Answers(sent[c]) : resp' = [resp EXCEPT ![c] = r]
      BY <1>4 DEF Answer
    <2>2. r \in Response
      BY <2>1, AnswersType DEF TypeOK
    <2>3. QED
      BY <1>4, <2>1, <2>2 DEF Answer, TypeOK, ServerTypeOK, Phase
  <1>5. CASE Unsuccessful(c)
    BY <1>5, FailTypeOK DEF Unsuccessful
  <1>6. CASE NotModified(c)
    <2>1. CASE cache.ver = 0 \/ ~GeneratedAtOk(cache.ver, start[c])
      BY <1>6, <2>1, FailTypeOK DEF NotModified
    <2>2. CASE cache.ver # 0 /\ GeneratedAtOk(cache.ver, start[c])
      <3>1. start[c] \in Nat /\ resp[c].maxAge \in Nat \cup {Absent} /\ cache.ver \in Nat
        BY DEF TypeOK, Response, Entry
      <3>0. CacheSeconds(resp[c].maxAge) \in Nat
        BY <3>1, CacheSecondsBounded
      <3>2. ExpiresAt(c) \in Int
        BY <3>1, <3>0 DEF ExpiresAt
      <3>3. [cache EXCEPT !.expires = ExpiresAt(c)] \in Entry
        BY <3>2 DEF TypeOK, Entry
      <3>4. QED
        BY <1>6, <2>2, <3>1, <3>3 DEF NotModified, Deliver, TypeOK, ServerTypeOK, Phase
    <2>3. QED
      BY <2>1, <2>2
  <1>7. CASE AwaitBody(c)
    BY <1>7 DEF AwaitBody, TypeOK, ServerTypeOK, Phase
  <1>8. CASE TimerFires(c)
    BY <1>8, FailTypeOK DEF TimerFires
  <1>9. CASE BadBody(c)
    BY <1>9, FailTypeOK DEF BadBody, NoJson, BadEnvelope, BadRow
  <1>10. CASE GoodBody(c)
    <2>1. CASE ~GeneratedAtOk(resp[c].ver, start[c])
      BY <1>10, <2>1, FailTypeOK DEF GoodBody
    <2>2. CASE GeneratedAtOk(resp[c].ver, start[c])
      <3>1. /\ start[c] \in Nat /\ resp[c].maxAge \in Nat \cup {Absent}
            /\ resp[c].ver \in Nat /\ resp[c].etag \in Nat
        BY DEF TypeOK, Response
      <3>0. CacheSeconds(resp[c].maxAge) \in Nat
        BY <3>1, CacheSecondsBounded
      <3>2. ExpiresAt(c) \in Int
        BY <3>1, <3>0 DEF ExpiresAt
      <3>3. /\ cache' = [ver |-> resp[c].ver, etag |-> resp[c].etag, expires |-> ExpiresAt(c)]
            /\ Deliver(c, resp[c].ver)
            /\ UNCHANGED <<start, filter, sent, resp, crossed>>
        BY <1>10, <2>2 DEF GoodBody
      <3>4. cache' \in Entry
        BY <3>1, <3>2, <3>3 DEF Entry
      <3>5. QED
        BY <3>1, <3>3, <3>4 DEF Deliver, TypeOK, ServerTypeOK, Phase
    <2>3. QED
      BY <2>1, <2>2
  <1>11. CASE Select(c)
    <2>1. NoFilter \in [within : Int, limit : Nat \cup {Absent}, match : SUBSET Proxy]
      BY ClientAssumption DEF NoFilter
    <2>2. NoResponse \in Response
      BY DEF NoResponse, Response, Status
    <2>3. filter[c].match \subseteq Proxy /\ got[c] \in Nat
      BY DEF TypeOK
    <2>4. Selection(got[c], filter[c], ClockAtEnd(c)) \in SUBSET (Nat \X Proxy)
      BY <2>3 DEF Selection, Best
    <2>5. QED
      BY <1>11, <2>1, <2>2, <2>4 DEF Select, ForgetCall, TypeOK, ServerTypeOK, Phase, Outcome
  <1>12. CASE Return(c)
    BY <1>12 DEF Return, TypeOK, ServerTypeOK, Phase, Outcome
  <1>13. QED
    BY <1>1, <1>2, <1>3, <1>4, <1>5, <1>6, <1>7, <1>8, <1>9, <1>10, <1>11, <1>12 DEF Step

LEMMA NextTypeOK == TypeOK /\ [Next]_vars => TypeOK'
  <1>1. ASSUME TypeOK, UNCHANGED vars PROVE TypeOK'
    BY <1>1 DEF vars, TypeOK, ServerTypeOK
  <1>2. QED
    BY <1>1, EnvironmentTypeOK, StepTypeOK DEF Next, ClientStep

\* Every variable of the client keeps its type.
THEOREM TypeCorrect == Spec => []TypeOK
  BY InitTypeOK, NextTypeOK, PTL DEF Spec
-----------------------------------------------------------------------------
(* The inductive invariant. *)

LEMMA InitIInv == Init => IInv
  <1> SUFFICES ASSUME Init PROVE IInv
    OBVIOUS
  <1>1. TypeOK
    BY InitTypeOK
  <1>3. EntryOK
    BY WindowAssumption DEF Init, ServerInit, JsInit, EntryOK, NoEntry
  <1>4. \A c \in Caller : CallOK(c)
    BY DEF Init, ServerInit, JsInit, CallOK, NoStrayResponse, ServerHonest, RowsHonest, Succeeded
  <1>5. QED
    BY <1>1, <1>3, <1>4 DEF IInv

\* Time passing and a new publication disturb nothing.
LEMMA EnvironmentIInv ==
  ASSUME IInv, Environment
  PROVE  IInv'
  <1>1. TypeOK' /\ TypeOK /\ ServerTypeOK /\ now \in Nat /\ Len(snaps) \in Nat
    <2>1. TypeOK
      BY DEF IInv
    <2>2. TypeOK'
      BY <2>1, EnvironmentTypeOK
    <2>3. ServerTypeOK /\ now \in Nat /\ Len(snaps) \in Nat
      BY <2>1 DEF TypeOK, ServerTypeOK
    <2> QED
      BY <2>1, <2>2, <2>3
  <1>2. /\ now' \in Nat /\ now <= now' /\ Len(snaps) <= Len(snaps')
        /\ Len(snaps') \in Nat
        /\ \A v \in 1..Len(snaps) : snaps'[v] = snaps[v]
    BY <1>1, EnvironmentGrows DEF Environment
  <1>4. ASSUME NEW v \in Nat, NEW t \in Int, t <= now, CurrentSince(v, t)
        PROVE  CurrentSince(v, t)'
    BY <1>1, <1>4, EnvironmentKeepsCurrentSince DEF Environment
  <1>6. EntryOK'
    <2>1. cache.ver \in Nat /\ cache.expires \in Int /\ AgeCap \in Nat
      BY <1>1, WindowAssumption DEF TypeOK, Entry
    <2>2. EntryOK /\ UNCHANGED <<cache, crossed>>
      BY DEF IInv, Environment
    <2>3. cache.expires - AgeCap <= now /\ cache.expires - AgeCap \in Int
      BY <1>1, <2>1, <2>2 DEF EntryOK
    <2>4. ~crossed /\ cache.ver # 0 => CurrentSince(cache.ver, cache.expires - AgeCap)'
      BY <1>4, <2>1, <2>2, <2>3 DEF EntryOK, CurrentSince
    <2>5. QED
      BY <1>1, <1>2, <2>1, <2>2, <2>4 DEF EntryOK, CurrentSince
  <1>7. ASSUME NEW c \in Caller PROVE CallOK(c)'
    <2>1. /\ start[c] \in Nat /\ got[c] \in Nat /\ resp[c].ver \in Nat
          /\ AgeCap \in Nat /\ start[c] - AgeCap \in Int
      BY <1>1, WindowAssumption DEF TypeOK, Response
    <2>2. CallOK(c) /\ UNCHANGED <<pc, start, resp, got, crossed, source>>
      BY DEF IInv, Environment
    <2>3. start[c] <= now /\ start[c] - AgeCap <= now /\ start'[c] <= now'
      BY <1>1, <1>2, <2>1, <2>2 DEF CallOK
    <2>4. NoStrayResponse(c)'
      BY <2>2 DEF CallOK, NoStrayResponse
    <2>5. ServerHonest(c)'
      <3>1. ASSUME NEW v \in Nat, CurrentSince(v, start[c]) PROVE CurrentSince(v, start[c])'
        <4>1. start[c] \in Int /\ start'[c] = start[c]
          BY <2>1, <2>2
        <4> QED
          BY <1>4, <2>3, <3>1, <4>1 DEF CurrentSince
      <3> QED
        BY <2>1, <2>2, <3>1 DEF CallOK, ServerHonest
    <2>6. RowsHonest(c)'
      <3>1. SUFFICES ASSUME Succeeded(c) PROVE RowsHonest(c)'
        BY <2>2 DEF RowsHonest, Succeeded
      <3>2. RowsHonest(c)
        BY <2>2 DEF CallOK
      <3>3. got[c] \in 1..Len(snaps')
        BY <1>1, <1>2, <3>1, <3>2 DEF RowsHonest
      <3>4. GeneratedAtOk(got[c], start[c])'
        BY <1>2, <2>2, <3>1, <3>2 DEF RowsHonest, GeneratedAtOk
      <3>5. resp[c].status = "200" => CurrentSince(got[c], start[c])'
        BY <1>4, <2>1, <2>2, <2>3, <3>1, <3>2 DEF RowsHonest, CurrentSince
      <3>6. ~crossed => CurrentSince(got[c], start[c] - AgeCap)'
        BY <1>4, <2>1, <2>2, <2>3, <3>1, <3>2 DEF RowsHonest, CurrentSince
      <3>7. QED
        BY <2>2, <3>3, <3>4, <3>5, <3>6 DEF RowsHonest
    <2>7. QED
      BY <2>2, <2>3, <2>4, <2>5, <2>6 DEF CallOK
  <1>8. QED
    BY <1>1, <1>6, <1>7 DEF IInv
-----------------------------------------------------------------------------
(* Steps of the client.  Call c moves; d stands for another call. *)

\* A step of c leaves every other call alone and never forgets a crossing.
LEMMA StepIsLocal ==
  ASSUME TypeOK, NEW c \in Caller, Step(c), NEW d \in Caller, d # c
  PROVE  /\ pc'[d] = pc[d] /\ start'[d] = start[d] /\ resp'[d] = resp[d]
         /\ got'[d] = got[d]
         /\ crossed => crossed'
  <1> USE DEF TypeOK, Fail, ForgetCall, Deliver, Begin
  <1>1. CASE RejectFilters(c)
    BY <1>1 DEF RejectFilters
  <1>2. ASSUME NEW f \in Filters, Hit(c, f) \/ Request(c, f)
        PROVE  /\ pc'[d] = pc[d] /\ start'[d] = start[d] /\ resp'[d] = resp[d]
               /\ got'[d] = got[d]
               /\ crossed => crossed'
    BY <1>2 DEF Hit, Request
  <1>3. CASE Answer(c)
    BY <1>3 DEF Answer
  <1>4. CASE Unsuccessful(c)
    BY <1>4 DEF Unsuccessful
  <1>5. CASE NotModified(c)
    BY <1>5 DEF NotModified
  <1>6. CASE AwaitBody(c) \/ TimerFires(c)
    BY <1>6 DEF AwaitBody, TimerFires
  <1>7. CASE BadBody(c) \/ GoodBody(c)
    BY <1>7 DEF BadBody, NoJson, BadEnvelope, BadRow, GoodBody
  <1>8. CASE Select(c) \/ Return(c)
    BY <1>8 DEF Select, Return
  <1>9. QED
    BY <1>1, <1>2, <1>3, <1>4, <1>5, <1>6, <1>7, <1>8 DEF Step

LEMMA OtherCallOK ==
  ASSUME IInv, NEW c \in Caller, Step(c), UNCHANGED <<now, snaps, source>>,
         NEW d \in Caller, d # c
  PROVE  CallOK(d)'
  <1>1. /\ pc'[d] = pc[d] /\ start'[d] = start[d] /\ resp'[d] = resp[d]
        /\ got'[d] = got[d]
        /\ crossed => crossed'
    BY StepIsLocal DEF IInv
  <1>2. CallOK(d)
    BY DEF IInv
  <1>3. QED
    BY <1>1, <1>2
       DEF CallOK, NoStrayResponse, ServerHonest, RowsHonest, Succeeded, CurrentSince, GeneratedAtOk

\* A call that has settled keeps nothing an obligation is about.
LEMMA SettledCallOK ==
  ASSUME IInv, NEW c \in Caller, pc' = [pc EXCEPT ![c] = "done"], ForgetCall(c),
         UNCHANGED <<now, snaps, source>>
  PROVE  CallOK(c)'
  <1>1. pc'[c] = "done" /\ start'[c] = 0 /\ resp'[c] = NoResponse /\ now' \in Nat
    BY DEF IInv, TypeOK, ServerTypeOK, ForgetCall
  <1>2. QED
    BY <1>1 DEF CallOK, NoStrayResponse, ServerHonest, RowsHonest, Succeeded

LEMMA FailIInv ==
  ASSUME IInv, NEW c \in Caller, NEW e \in Errors, Fail(c, e),
         UNCHANGED <<now, snaps, source>>
  PROVE  CallOK(c)' /\ EntryOK'
  <1>1. CallOK(c)'
    BY SettledCallOK DEF Fail
  <1>2. EntryOK'
    BY DEF IInv, EntryOK, CurrentSince, Fail
  <1>3. QED
    BY <1>1, <1>2
\* The retention an entry gets from a response of call c.
LEMMA ExpiryFromStart ==
  ASSUME TypeOK, NEW c \in Caller
  PROVE  /\ start[c] \in Nat /\ ExpiresAt(c) \in Int /\ AgeCap \in Nat
         /\ ExpiresAt(c) <= start[c] + AgeCap
  <1>1. start[c] \in Nat /\ resp[c].maxAge \in Nat \cup {Absent}
    BY DEF TypeOK, Response
  <1>2. CacheSeconds(resp[c].maxAge) \in Nat /\ CacheSeconds(resp[c].maxAge) <= AgeCap
    BY <1>1, CacheSecondsBounded
  <1>3. QED
    BY <1>1, <1>2, WindowAssumption DEF ExpiresAt

\* A hit: the entry has not expired, so it was current AgeCap ago.
LEMMA HitIInv ==
  ASSUME IInv, NEW c \in Caller, NEW f \in Filters, Hit(c, f),
         UNCHANGED <<now, snaps, source>>
  PROVE  CallOK(c)' /\ EntryOK'
  <1> USE DEF IInv
  <1>1. CASE ~GeneratedAtOk(cache.ver, now)
    BY <1>1, FailIInv DEF Hit, Errors
  <1>2. CASE GeneratedAtOk(cache.ver, now)
    <2>1. Begin(c, f) /\ Deliver(c, cache.ver) /\ UNCHANGED <<cache, sent, crossed>>
      BY <1>2 DEF Hit
    <2>2. /\ pc[c] = "idle" /\ cache.ver # 0 /\ now < cache.expires
          /\ cache.ver \in Nat /\ cache.expires \in Int /\ now \in Nat
          /\ AgeCap \in Nat /\ Len(snaps) \in Nat /\ ServerTypeOK
      BY WindowAssumption DEF Hit, CanBegin, Unexpired, TypeOK, ServerTypeOK, Entry
    <2>3. /\ pc'[c] = "selecting" /\ start'[c] = now /\ got'[c] = cache.ver
          /\ resp'[c] = NoResponse
      BY <2>1, <2>2 DEF Begin, Deliver, TypeOK, CallOK, NoStrayResponse
    <2>4. ~crossed => CurrentSince(cache.ver, now - AgeCap)
      <3>1. cache.expires - AgeCap \in Int /\ now - AgeCap \in Int
            /\ now - AgeCap <= cache.expires - AgeCap
        BY <2>2
      <3>2. QED
        BY <2>2, <3>1, CurrentSinceEarlier DEF EntryOK
    <2>5. cache.ver \in 1..Len(snaps)
      BY <2>2 DEF EntryOK
    <2>6. RowsHonest(c)'
      BY <1>2, <2>1, <2>3, <2>4, <2>5
         DEF RowsHonest, GeneratedAtOk, CurrentSince, NoResponse
    <2>7. CallOK(c)'
      BY <2>2, <2>3, <2>6 DEF CallOK, NoStrayResponse, ServerHonest
    <2>8. EntryOK'
      BY <2>1 DEF EntryOK, CurrentSince
    <2>9. QED
      BY <2>7, <2>8
  <1>3. QED
    BY <1>1, <1>2

\* A 304: unless it is crossed, the entry it refreshes is the one confirmed.
LEMMA NotModifiedIInv ==
  ASSUME IInv, NEW c \in Caller, NotModified(c), UNCHANGED <<now, snaps, source>>
  PROVE  CallOK(c)' /\ EntryOK'
  <1> USE DEF IInv
  <1>1. CASE cache.ver = 0 \/ ~GeneratedAtOk(cache.ver, start[c])
    BY <1>1, FailIInv DEF NotModified, Errors
  <1>2. CASE cache.ver # 0 /\ GeneratedAtOk(cache.ver, start[c])
    <2>1. /\ pc[c] = "answered" /\ resp[c].status = "304"
          /\ cache' = [cache EXCEPT !.expires = ExpiresAt(c)]
          /\ crossed' = (crossed \/ resp[c].ver # cache.ver)
          /\ Deliver(c, cache.ver)
          /\ UNCHANGED <<start, filter, sent, resp>>
      BY <1>2 DEF NotModified
    <2>2. /\ cache.ver \in Nat /\ now \in Nat /\ Len(snaps) \in Nat /\ ServerTypeOK
          /\ start[c] \in Nat /\ start[c] <= now
          /\ AgeCap \in Nat /\ ExpiresAt(c) \in Int /\ ExpiresAt(c) <= start[c] + AgeCap
          /\ cache'.ver = cache.ver /\ cache'.expires = ExpiresAt(c)
      BY <2>1, ExpiryFromStart DEF TypeOK, ServerTypeOK, Entry, CallOK
    <2>3. pc'[c] = "selecting" /\ got'[c] = cache.ver
      BY <2>1 DEF Deliver, TypeOK
    <2>4. ~crossed' => CurrentSince(cache.ver, start[c])
      BY <1>2, <2>1 DEF CallOK, ServerHonest
    <2>5. ~crossed' => /\ CurrentSince(cache.ver, start[c] - AgeCap)
                       /\ CurrentSince(cache.ver, ExpiresAt(c) - AgeCap)
      <3>1. /\ start[c] - AgeCap \in Int /\ start[c] - AgeCap <= start[c]
            /\ ExpiresAt(c) - AgeCap \in Int /\ ExpiresAt(c) - AgeCap <= start[c]
        BY <2>2
      <3>2. QED
        BY <2>2, <2>4, <3>1, CurrentSinceEarlier
    <2>6. RowsHonest(c)'
      BY <1>2, <2>1, <2>2, <2>3, <2>5
         DEF RowsHonest, GeneratedAtOk, CurrentSince, EntryOK
    <2>7. CallOK(c)'
      BY <2>1, <2>2, <2>3, <2>6 DEF CallOK, NoStrayResponse, ServerHonest
    <2>8. EntryOK'
      BY <2>2, <2>5 DEF EntryOK, CurrentSince
    <2>9. QED
      BY <2>7, <2>8
  <1>3. QED
    BY <1>1, <1>2

\* A body: what is stored and returned was current when the call began.
LEMMA GoodBodyIInv ==
  ASSUME IInv, NEW c \in Caller, GoodBody(c), UNCHANGED <<now, snaps, source>>
  PROVE  CallOK(c)' /\ EntryOK'
  <1> USE DEF IInv
  <1>1. CASE ~GeneratedAtOk(resp[c].ver, start[c])
    BY <1>1, FailIInv DEF GoodBody, Errors
  <1>2. CASE GeneratedAtOk(resp[c].ver, start[c])
    <2>1. /\ pc[c] = "reading"
          /\ cache' = [ver |-> resp[c].ver, etag |-> resp[c].etag, expires |-> ExpiresAt(c)]
          /\ Deliver(c, resp[c].ver)
          /\ UNCHANGED <<start, filter, sent, resp, crossed>>
      BY <1>2 DEF GoodBody
    <2>2. /\ resp[c].ver \in Nat /\ now \in Nat /\ Len(snaps) \in Nat /\ ServerTypeOK
          /\ start[c] \in Nat /\ start[c] <= now
          /\ AgeCap \in Nat /\ ExpiresAt(c) \in Int /\ ExpiresAt(c) <= start[c] + AgeCap
          /\ cache'.ver = resp[c].ver /\ cache'.expires = ExpiresAt(c)
      BY <2>1, ExpiryFromStart DEF TypeOK, ServerTypeOK, Response, CallOK
    <2>3. pc'[c] = "selecting" /\ got'[c] = resp[c].ver
      BY <2>1 DEF Deliver, TypeOK
    <2>4. CurrentSince(resp[c].ver, start[c])
      BY <2>1 DEF CallOK, ServerHonest
    <2>5. /\ CurrentSince(resp[c].ver, start[c] - AgeCap)
          /\ CurrentSince(resp[c].ver, ExpiresAt(c) - AgeCap)
      <3>1. /\ start[c] - AgeCap \in Int /\ start[c] - AgeCap <= start[c]
            /\ ExpiresAt(c) - AgeCap \in Int /\ ExpiresAt(c) - AgeCap <= start[c]
        BY <2>2
      <3>2. QED
        BY <2>2, <2>4, <3>1, CurrentSinceEarlier
    <2>6. RowsHonest(c)'
      BY <1>2, <2>1, <2>2, <2>3, <2>4, <2>5
         DEF RowsHonest, GeneratedAtOk, CurrentSince
    <2>7. CallOK(c)'
      BY <2>1, <2>2, <2>3, <2>6 DEF CallOK, NoStrayResponse, ServerHonest
    <2>8. EntryOK'
      BY <2>2, <2>5 DEF EntryOK, CurrentSince
    <2>9. QED
      BY <2>7, <2>8
  <1>3. QED
    BY <1>1, <1>2
\* An answer sends or confirms the snapshot that is current at that moment.
LEMMA AnswerIInv ==
  ASSUME IInv, NEW c \in Caller, Answer(c), UNCHANGED <<now, snaps, source>>
  PROVE  CallOK(c)' /\ EntryOK'
  <1> USE DEF IInv
  <1>1. PICK r \in Answers(sent[c]) : resp' = [resp EXCEPT ![c] = r]
    BY DEF Answer
  <1>2. /\ pc'[c] = "answered" /\ resp'[c] = r /\ start'[c] = start[c]
        /\ UNCHANGED <<cache, crossed>>
    BY <1>1 DEF Answer, TypeOK
  <1>3. Current = Len(snaps) /\ Len(snaps) \in Nat /\ Len(snaps) >= 1
    BY DEF TypeOK, ServerTypeOK, Current
  <1>4. /\ r.status = "200" => r.ver # 0
        /\ r.ver # 0 => r.ver = Len(snaps)
    BY <1>3 DEF Answers, NoResponse
  <1>5. r.ver # 0 => CurrentSince(r.ver, start[c])
    BY <1>3, <1>4 DEF CurrentSince
  <1>6. CallOK(c)'
    BY <1>2, <1>4, <1>5
       DEF CallOK, NoStrayResponse, ServerHonest, RowsHonest, Succeeded, CurrentSince
  <1>7. EntryOK'
    BY <1>2 DEF EntryOK, CurrentSince
  <1>8. QED
    BY <1>6, <1>7

LEMMA StepIInv ==
  ASSUME IInv, NEW c \in Caller, Step(c), UNCHANGED <<now, snaps, source>>
  PROVE  CallOK(c)' /\ EntryOK'
  <1> USE DEF Errors
  <1>1. CASE RejectFilters(c)
    BY <1>1, FailIInv DEF RejectFilters
  <1>2. ASSUME NEW f \in Filters, Hit(c, f)
        PROVE  CallOK(c)' /\ EntryOK'
    BY <1>2, HitIInv
  <1>3. ASSUME NEW f \in Filters, Request(c, f)
        PROVE  CallOK(c)' /\ EntryOK'
    <2>1. /\ pc[c] = "idle" /\ pc'[c] = "requested" /\ start'[c] = now
          /\ resp'[c] = resp[c] /\ now \in Nat
          /\ UNCHANGED <<cache, crossed>>
      BY <1>3 DEF Request, CanBegin, Begin, IInv, TypeOK, ServerTypeOK
    <2>2. CallOK(c)'
      BY <2>1 DEF IInv, CallOK, NoStrayResponse, ServerHonest, RowsHonest, Succeeded
    <2>3. EntryOK'
      BY <2>1 DEF IInv, EntryOK, CurrentSince
    <2>4. QED
      BY <2>2, <2>3
  <1>4. CASE Answer(c)
    BY <1>4, AnswerIInv
  <1>5. CASE Unsuccessful(c)
    BY <1>5, FailIInv DEF Unsuccessful
  <1>6. CASE NotModified(c)
    BY <1>6, NotModifiedIInv
  <1>7. CASE AwaitBody(c)
    <2>1. /\ pc[c] = "answered" /\ resp[c].status = "200" /\ pc'[c] = "reading"
          /\ UNCHANGED <<cache, start, resp, crossed>>
      BY <1>7 DEF AwaitBody, IInv, TypeOK
    <2>2. CallOK(c)'
      BY <2>1 DEF IInv, CallOK, NoStrayResponse, ServerHonest, RowsHonest, Succeeded, CurrentSince
    <2>3. EntryOK'
      BY <2>1 DEF IInv, EntryOK, CurrentSince
    <2>4. QED
      BY <2>2, <2>3
  <1>8. CASE TimerFires(c)
    BY <1>8, FailIInv DEF TimerFires
  <1>9. CASE BadBody(c)
    BY <1>9, FailIInv DEF BadBody, NoJson, BadEnvelope, BadRow
  <1>10. CASE GoodBody(c)
    BY <1>10, GoodBodyIInv
  <1>11. CASE Select(c)
    <2>1. CallOK(c)'
      BY <1>11, SettledCallOK DEF Select
    <2>2. EntryOK'
      BY <1>11 DEF Select, IInv, EntryOK, CurrentSince
    <2>3. QED
      BY <2>1, <2>2
  <1>12. CASE Return(c)
    <2>1. /\ pc[c] = "done" /\ pc'[c] = "idle"
          /\ UNCHANGED <<cache, start, resp, crossed>>
      BY <1>12 DEF Return, IInv, TypeOK
    <2>2. CallOK(c)'
      BY <2>1 DEF IInv, CallOK, NoStrayResponse, ServerHonest, RowsHonest, Succeeded
    <2>3. EntryOK'
      BY <2>1 DEF IInv, EntryOK, CurrentSince
    <2>4. QED
      BY <2>2, <2>3
  <1>13. QED
    BY <1>1, <1>2, <1>3, <1>4, <1>5, <1>6, <1>7, <1>8, <1>9, <1>10, <1>11, <1>12 DEF Step

LEMMA NextIInv == IInv /\ [Next]_vars => IInv'
  <1> SUFFICES ASSUME IInv, [Next]_vars PROVE IInv'
    OBVIOUS
  <1>1. ASSUME UNCHANGED vars PROVE IInv'
    BY <1>1, NextTypeOK
       DEF vars, IInv, EntryOK, CallOK, NoStrayResponse, ServerHonest,
           RowsHonest, Succeeded, CurrentSince, GeneratedAtOk
  <1>2. ASSUME NEW c \in Caller, Step(c), UNCHANGED <<now, snaps, source>>
        PROVE  IInv'
    <2>1. TypeOK'
      BY <1>2, StepTypeOK DEF IInv
    <2>3. CallOK(c)' /\ EntryOK'
      BY <1>2, StepIInv
    <2>4. \A d \in Caller : CallOK(d)'
      BY <1>2, <2>3, OtherCallOK
    <2>5. QED
      BY <2>1, <2>3, <2>4 DEF IInv
  <1>3. QED
    BY <1>1, <1>2, EnvironmentIInv DEF Next, ClientStep

\* The inductive invariant holds throughout.
THEOREM Invariance == Spec => []IInv
  BY InitIInv, NextIInv, PTL DEF Spec

-----------------------------------------------------------------------------
(* The properties. *)

\* API rows come from a snapshot inside the window, on all three paths.
THEOREM WindowOnEveryPathHolds == Spec => []WindowOnEveryPath
  <1>1. IInv => WindowOnEveryPath
    <2> SUFFICES ASSUME IInv, NEW c \in Caller, Succeeded(c), source = "api"
                 PROVE  /\ snaps[got[c]].gen >= start[c] - Past
                        /\ snaps[got[c]].gen <= start[c] + Future
      BY DEF WindowOnEveryPath
    <2>1. got[c] \in 1..Len(snaps) /\ GeneratedAtOk(got[c], start[c])
      BY DEF IInv, CallOK, RowsHonest
    <2>2. snaps[got[c]].gen \in (start[c] - Past)..(start[c] + Future)
      BY <2>1 DEF GeneratedAtOk
    <2>3. start[c] \in Nat
      BY DEF IInv, TypeOK
    <2>4. QED
      BY <2>2, <2>3, WindowAssumption
  <1>2. QED
    BY <1>1, Invariance, PTL

\* A 200 gives its caller a snapshot as new as its call, whoever else runs.
THEOREM FetchedIsCurrentHolds == Spec => []FetchedIsCurrent
  <1>1. IInv => FetchedIsCurrent
    BY DEF IInv, CallOK, RowsHonest, FetchedIsCurrent
  <1>2. QED
    BY <1>1, Invariance, PTL

\* Retention past the cap needs a 304 that refreshed an entry it was not for:
\* no other interleaving, fault or delay of any number of calls causes it.
THEOREM RetainedUnlessCrossedHolds == Spec => []RetainedUnlessCrossed
  <1>1. IInv => RetainedUnlessCrossed
    BY DEF IInv, CallOK, RowsHonest, RetainedUnlessCrossed, RetainedAtMostCap
  <1>2. QED
    BY <1>1, Invariance, PTL

\* No entry outlives the cap, whatever the endpoint's max-age.
THEOREM ExpiryBoundedHolds == Spec => []ExpiryBounded
  <1>1. IInv => ExpiryBounded
    BY DEF IInv, EntryOK, ExpiryBounded
  <1>2. QED
    BY <1>1, Invariance, PTL

\* this.cache is only written by a call that succeeds.
THEOREM CacheWrittenOnlyBySuccessHolds == Spec => CacheWrittenOnlyBySuccess
  <1> DEFINE Written == cache' # cache =>
               \E c \in Caller : pc[c] \in {"answered", "reading"} /\ pc'[c] = "selecting"
  <1>1. ASSUME IInv, [Next]_vars PROVE Written
    <2>1. ASSUME NEW c \in Caller, Step(c), cache' # cache
          PROVE  pc[c] \in {"answered", "reading"} /\ pc'[c] = "selecting"
      <3>1. NotModified(c) \/ GoodBody(c)
        BY <2>1 DEF Step, RejectFilters, Hit, Request, Answer, Unsuccessful, AwaitBody,
                    TimerFires, BadBody, NoJson, BadEnvelope, BadRow, Select, Return, Fail, Deliver
      <3>2. pc[c] \in {"answered", "reading"}
        BY <3>1 DEF NotModified, GoodBody
      <3>3. \E v \in Nat \cup {cache.ver, resp[c].ver} : Deliver(c, v)
        BY <2>1, <3>1 DEF NotModified, GoodBody, Fail
      <3>4. QED
        BY <1>1, <3>2, <3>3 DEF Deliver, IInv, TypeOK
    <2>2. QED
      BY <1>1, <2>1 DEF Next, ClientStep, Environment, vars
  <1>2. QED
    BY <1>1, Invariance, PTL DEF Spec, CacheWrittenOnlyBySuccess

\* Only rows that are still acceptable when they are returned are returned.
THEOREM NoRowAgedOutHolds == Spec => NoRowAgedOut
  <1> DEFINE NotAged(c) == \A row \in rows'[c] \ rows[c] :
                             LastChecked(row[2], row[1]) >= now - filter[c].within
  <1>1. ASSUME IInv, [Next]_vars, NEW c \in Caller PROVE NotAged(c)
    <2>1. CASE rows' = rows
      BY <2>1
    <2>2. ASSUME NEW d \in Caller, Return(d) PROVE NotAged(c)
      BY <1>1, <2>2 DEF Return, IInv, TypeOK
    <2>3. ASSUME NEW d \in Caller, Select(d), NEW row \in rows'[c] \ rows[c]
          PROVE  LastChecked(row[2], row[1]) >= now - filter[c].within
      <3>1. d = c /\ row \in Selection(got[c], filter[c], ClockAtEnd(c))
        BY <1>1, <2>3 DEF Select, IInv, TypeOK
      <3> DEFINE p == row[2]
      <3>0. row[1] = got[c] /\ p \in Best({q \in filter[c].match : Fresh(q, got[c], now, filter[c].within)},
                                         filter[c].limit)
        BY <3>1 DEF Selection, ClockAtEnd
      <3> HIDE DEF p
      <3>2. p \in Proxy /\ Fresh(p, got[c], now, filter[c].within)
        BY <1>1, <3>0 DEF Best, IInv, TypeOK
      <3>3. got[c] \in 1..Len(snaps) /\ ServerTypeOK /\ now \in Nat
        BY <1>1, <2>3, <3>1
           DEF Select, IInv, CallOK, RowsHonest, Succeeded, TypeOK, ServerTypeOK
      <3>4. LastChecked(p, got[c]) \in Int /\ filter[c].within \in Int
        <4>1. snaps[got[c]].gen \in Int /\ RowAge[p] \in Nat
          BY <3>2, <3>3, SnapshotTimes, ServerAssumption
        <4>2. filter[c].within \in Int
          BY <1>1 DEF IInv, TypeOK
        <4>3. QED
          BY <4>1, <4>2 DEF LastChecked
      <3>5. LastChecked(p, got[c]) >= now - filter[c].within
        BY <3>2, <3>3, <3>4, WindowAssumption DEF Fresh
      <3>6. QED
        BY <3>0, <3>5 DEF p
    <2>4. ASSUME NEW d \in Caller, Step(d), ~Select(d), ~Return(d) PROVE rows' = rows
      BY <2>4 DEF Step, RejectFilters, Hit, Request, Begin, Answer, Unsuccessful,
                  NotModified, AwaitBody, TimerFires, BadBody, NoJson, BadEnvelope, BadRow, GoodBody, Fail, Deliver
    <2>5. QED
      BY <1>1, <2>1, <2>2, <2>3, <2>4 DEF Next, ClientStep, Environment, vars
  <1> DEFINE NoneAged == \A c \in Caller : NotAged(c)
  <1>2. IInv /\ [Next]_vars => NoneAged
    BY <1>1
  <1>3. ([][NoneAged]_vars) => NoRowAgedOut
    BY DEF NoRowAgedOut
  <1> HIDE DEF NoneAged
  <1>4. QED
    BY <1>2, <1>3, Invariance, PTL DEF Spec
-----------------------------------------------------------------------------
(* JsClient implements SnapshotService. *)

\* A call selects with filters that validateFilters has let through.
FilterOK(c) ==
  pc[c] \in {"requested", "answered", "reading", "selecting"} => filter[c].within \in 1..MaxWithin

\* What a call that is alone with the cache knows of it: the entry's ETag is
\* the one on the wire, and a 304 confirms the entry.
Tied(c) ==
  /\ resp[c].etag \in {0, resp[c].ver}
  /\ pc[c] = "requested" => sent[c] = cache.etag
  /\ pc[c] = "answered" /\ resp[c].status = "304" => resp[c].ver = cache.ver

\* Without overlapping calls, and without a 304 that nobody asked for, none
\* crosses.
NoneCrosses ==
  /\ ~crossed /\ cache.etag \in {0, cache.ver}
  /\ \A c \in Caller : Tied(c)

ServiceInv ==
  /\ \A c \in Caller : FilterOK(c)
  /\ Overlap \/ "Spurious304" \in Faults \/ NoneCrosses

LEMMA InitServiceInv == Init => ServiceInv
  BY DEF Init, JsInit, ServiceInv, FilterOK, NoneCrosses, Tied, NoEntry, NoResponse

LEMMA ValidFiltersBound ==
  ASSUME NEW f \in Filters, ValidFilters(f)
  PROVE  Validated(f).within \in 1..MaxWithin
  <1>1. f \in [within : Int \cup {Absent}, limit : Nat \cup {Absent}, match : SUBSET Proxy]
    BY ClientAssumption
  <1>2. Validated(f).within = CheckedWithin(f)
    BY <1>1 DEF Validated
  <1> QED
    BY <1>2 DEF ValidFilters

LEMMA StepFilterOK ==
  ASSUME IInv, ServiceInv, NEW c \in Caller, Step(c), NEW d \in Caller
  PROVE  FilterOK(d)'
  <1> USE DEF IInv, TypeOK, Fail, ForgetCall, Deliver, Begin
  <1>0. FilterOK(d)
    BY DEF ServiceInv
  <1>1. CASE RejectFilters(c)
    BY <1>0, <1>1 DEF RejectFilters, FilterOK
  <1>2. ASSUME NEW f \in Filters, Hit(c, f) \/ Request(c, f) PROVE FilterOK(d)'
    <2>1. Validated(f).within \in 1..MaxWithin
      BY <1>2, ValidFiltersBound DEF Hit, Request, CanBegin
    <2> QED
      BY <1>0, <1>2, <2>1 DEF Hit, Request, FilterOK
  <1>3. CASE Answer(c)
    BY <1>0, <1>3 DEF Answer, FilterOK
  <1>4. CASE Unsuccessful(c)
    BY <1>0, <1>4 DEF Unsuccessful, FilterOK
  <1>5. CASE NotModified(c)
    BY <1>0, <1>5 DEF NotModified, FilterOK
  <1>6. CASE AwaitBody(c) \/ TimerFires(c)
    BY <1>0, <1>6 DEF AwaitBody, TimerFires, FilterOK
  <1>7. CASE BadBody(c)
    BY <1>0, <1>7 DEF BadBody, NoJson, BadEnvelope, BadRow, FilterOK
  <1>8. CASE GoodBody(c)
    BY <1>0, <1>8 DEF GoodBody, FilterOK
  <1>9. CASE Select(c) \/ Return(c)
    BY <1>0, <1>9 DEF Select, Return, FilterOK
  <1> QED
    BY <1>1, <1>2, <1>3, <1>4, <1>5, <1>6, <1>7, <1>8, <1>9 DEF Step

\* An answer to a request that carries the ETag of the entry confirms the
\* entry or replaces it.
LEMMA AnswerIsTied ==
  ASSUME ServerTypeOK, "Spurious304" \notin Faults,
         cache.etag \in {0, cache.ver}, NEW r \in Answers(cache.etag)
  PROVE  /\ r.etag \in {0, r.ver}
         /\ r.status = "304" => r.ver = cache.ver
  <1>1. Current \in Nat /\ Current # 0
    BY DEF ServerTypeOK, Current
  <1> QED
    BY <1>1 DEF Answers, NoResponse

\* The one call moves.
LEMMA StepNoneCrosses ==
  ASSUME IInv, ~Overlap, "Spurious304" \notin Faults, NoneCrosses, NEW c \in Caller, Step(c)
  PROVE  NoneCrosses'
  <1> USE DEF Fail, ForgetCall, Deliver, Begin, NoneCrosses
  <1>0. \A d \in Caller : d = c
    BY DEF Overlap
  <1>1. SUFFICES ~crossed' /\ cache'.etag \in {0, cache'.ver} /\ Tied(c)'
    <2>1. ASSUME Tied(c)', NEW d \in Caller PROVE Tied(d)'
      BY <1>0, <2>1
    <2> QED
      BY <2>1
  <1>2. /\ Tied(c) /\ pc \in [Caller -> Phase] /\ cache \in Entry
        /\ resp \in [Caller -> Response] /\ sent \in [Caller -> Nat] /\ ServerTypeOK
    BY DEF IInv, TypeOK
  <1>3. CASE RejectFilters(c)
    BY <1>2, <1>3 DEF RejectFilters, Tied, NoResponse
  <1>4. ASSUME NEW f \in Filters, Hit(c, f) \/ Request(c, f)
        PROVE  ~crossed' /\ cache'.etag \in {0, cache'.ver} /\ Tied(c)'
    BY <1>2, <1>4 DEF Hit, Request, Tied, NoResponse
  <1>5. CASE Answer(c)
    <2>1. PICK r \in Answers(cache.etag) : resp' = [resp EXCEPT ![c] = r]
      BY <1>2, <1>5 DEF Answer, Tied
    <2>2. r.etag \in {0, r.ver} /\ (r.status = "304" => r.ver = cache.ver)
      BY <1>2, <2>1, AnswerIsTied
    <2>3. resp'[c] = r /\ pc'[c] = "answered" /\ UNCHANGED <<cache, crossed>>
      BY <1>2, <1>5, <2>1 DEF Answer
    <2> QED
      BY <2>2, <2>3 DEF Tied
  <1>6. CASE Unsuccessful(c)
    BY <1>2, <1>6 DEF Unsuccessful, Tied, NoResponse
  <1>7. CASE NotModified(c)
    <2>1. CASE UNCHANGED <<cache, crossed>>
      BY <1>2, <1>7, <2>1 DEF NotModified, Tied, NoResponse
    <2>2. CASE /\ cache' = [cache EXCEPT !.expires = ExpiresAt(c)]
               /\ crossed' = (crossed \/ resp[c].ver # cache.ver)
               /\ pc' = [pc EXCEPT ![c] = "selecting"]
               /\ UNCHANGED <<sent, resp>>
      <3>1. resp[c].ver = cache.ver
        BY <1>2, <1>7 DEF NotModified, Tied
      <3>2. ~crossed'
        BY <2>2, <3>1
      <3>3. cache'.ver = cache.ver /\ cache'.etag = cache.etag
        BY <1>2, <2>2 DEF Entry
      <3> QED
        BY <1>2, <2>2, <3>2, <3>3 DEF Tied
    <2> QED
      BY <1>7, <2>1, <2>2 DEF NotModified
  <1>8. CASE AwaitBody(c) \/ TimerFires(c)
    BY <1>2, <1>8 DEF AwaitBody, TimerFires, Tied, NoResponse
  <1>9. CASE BadBody(c)
    BY <1>2, <1>9 DEF BadBody, NoJson, BadEnvelope, BadRow, Tied, NoResponse
  <1>10. CASE GoodBody(c)
    BY <1>2, <1>10 DEF GoodBody, Tied, NoResponse
  <1>11. CASE Select(c) \/ Return(c)
    BY <1>2, <1>11 DEF Select, Return, Tied, NoResponse
  <1> QED
    BY <1>3, <1>4, <1>5, <1>6, <1>7, <1>8, <1>9, <1>10, <1>11 DEF Step

LEMMA NextServiceInv == IInv /\ ServiceInv /\ [Next]_vars => ServiceInv'
  <1> SUFFICES ASSUME IInv, ServiceInv, [Next]_vars PROVE ServiceInv'
    OBVIOUS
  <1>1. CASE UNCHANGED clientVars
    BY <1>1 DEF ServiceInv, FilterOK, NoneCrosses, Tied
  <1>2. ASSUME NEW c \in Caller, Step(c) PROVE ServiceInv'
    BY <1>2, StepFilterOK, StepNoneCrosses DEF ServiceInv
  <1> QED
    BY <1>1, <1>2 DEF Next, ClientStep, Environment, vars

\* Filters are validated, and only overlapping calls or a spurious 304 cross.
THEOREM ServiceInvariance == Spec => []ServiceInv
  BY Invariance, InitServiceInv, NextServiceInv, PTL DEF Spec

\* "Retained for at most 60 seconds" is true of calls that follow each other,
\* if the endpoint sends no 304 that nobody asked for.
THEOREM SequentialCallsRetainAtMostCap ==
  ASSUME ~Overlap, "Spurious304" \notin Faults
  PROVE  Spec => []RetainedAtMostCap
  <1>1. IInv /\ ServiceInv => RetainedAtMostCap
    BY DEF IInv, CallOK, RowsHonest, RetainedAtMostCap, ServiceInv, NoneCrosses
  <1> QED
    BY <1>1, Invariance, ServiceInvariance, PTL

\* A step that moves call c moves its status, and no other.
LEMMA StatusMoves ==
  ASSUME TypeOK, NEW c \in Caller, NEW p, NEW o,
         pc' = [pc EXCEPT ![c] = p],
         outcome' = [outcome EXCEPT ![c] = o]
  PROVE  status' = [status EXCEPT ![c] = StatusOf(p, o)]
  <1>1. \A d \in Caller : /\ pc'[d] = IF d = c THEN p ELSE pc[d]
                          /\ outcome'[d] = IF d = c THEN o ELSE outcome[d]
    BY DEF TypeOK
  <1>2. \A d \in Caller :
          StatusOf(pc'[d], outcome'[d]) =
            IF d = c THEN StatusOf(p, o) ELSE StatusOf(pc[d], outcome[d])
    BY <1>1
  <1>3. /\ status' = [d \in Caller |-> StatusOf(pc'[d], outcome'[d])]
        /\ status = [d \in Caller |-> StatusOf(pc[d], outcome[d])]
    BY DEF status
  <1>4. QED
    BY <1>2, <1>3

LEMMA StatusStays ==
  ASSUME TypeOK, NEW c \in Caller, NEW p,
         pc' = [pc EXCEPT ![c] = p], UNCHANGED outcome
  PROVE  status' = [status EXCEPT ![c] = StatusOf(p, outcome[c])]
  <1>1. outcome' = [outcome EXCEPT ![c] = outcome[c]]
    BY DEF TypeOK
  <1>2. QED
    BY <1>1, StatusMoves

\* A step within a call is invisible to the caller.
LEMMA StaysActive ==
  ASSUME TypeOK, NEW c \in Caller, NEW p,
         pc[c] \notin {"idle", "done"}, p \notin {"idle", "done"},
         pc' = [pc EXCEPT ![c] = p], UNCHANGED outcome
  PROVE  UNCHANGED status
  <1>1. status[c] = "active" /\ StatusOf(p, outcome[c]) = "active"
    BY DEF status, StatusOf
  <1>2. status' = [status EXCEPT ![c] = StatusOf(p, outcome[c])]
    BY StatusStays
  <1>3. status = [d \in Caller |-> status[d]]
    BY DEF status
  <1>4. QED
    BY <1>1, <1>2, <1>3

LEMMA InitImplements == Init => Service!Init
  BY DEF Init, JsInit, ServerInit, Service!Init, Service!ServerInit, status, StatusOf

\* Every rejection is a failure of the service.
LEMMA FailImplements ==
  ASSUME TypeOK, NEW c \in Caller, NEW e \in Errors, Fail(c, e), pc[c] # "done",
         UNCHANGED <<now, snaps>>
  PROVE  Service!Next
  <1>1. status' = [status EXCEPT ![c] = "failed"]
    BY StatusMoves DEF Fail, StatusOf, Errors
  <1>2. status[c] \in {"idle", "active"}
    BY DEF status, StatusOf
  <1>3. Service!Fail(c)
    BY <1>1, <1>2 DEF Service!Fail, Fail, ForgetCall
  <1> QED
    BY <1>3 DEF Service!Next, Service!ServiceStep

\* What a call selects the service may return.
LEMMA SelectionAcceptable ==
  ASSUME TypeOK, NEW c \in Caller, filter[c].within \in 1..MaxWithin, NEW v \in 1..Len(snaps)
  PROVE  Selection(v, filter[c], now) \subseteq Service!AcceptableRows(v)
  <1>1. filter[c].match \subseteq Proxy /\ now \in Nat /\ ServerTypeOK
    BY DEF TypeOK, ServerTypeOK
  <1>2. ASSUME NEW q \in Proxy, Fresh(q, v, now, filter[c].within)
        PROVE  <<v, q>> \in Service!AcceptableRows(v)
    <2>1. snaps[v].gen \in Int /\ RowAge[q] \in Nat
      BY <1>1, SnapshotTimes, ServerAssumption
    <2>2. LastChecked(q, v) \in Int
      BY <2>1 DEF LastChecked
    <2>3. LastChecked(q, v) \in (now - MaxWithin)..(now + Future)
      BY <1>1, <1>2, <2>2, ClientAssumption, WindowAssumption DEF Fresh
    <2> QED
      BY <2>3 DEF Service!AcceptableRows, Service!LastChecked, LastChecked
  <1> SUFFICES ASSUME NEW row \in Selection(v, filter[c], now)
               PROVE  row \in Service!AcceptableRows(v)
    OBVIOUS
  <1>3. PICK q \in Proxy : row = <<v, q>> /\ Fresh(q, v, now, filter[c].within)
    BY <1>1 DEF Selection, Best
  <1> QED
    BY <1>2, <1>3

LEMMA SelectImplements ==
  ASSUME IInv, ServiceInv, NEW c \in Caller, Select(c), UNCHANGED <<now, snaps>>
  PROVE  Service!Next
  <1>1. /\ pc[c] = "selecting" /\ UNCHANGED crossed
        /\ rows' = [rows EXCEPT ![c] = Selection(got[c], filter[c], now)]
    BY DEF Select, ClockAtEnd
  <1>2. got[c] \in 1..Len(snaps) /\ (~crossed => CurrentSince(got[c], start[c] - AgeCap))
    BY <1>1 DEF IInv, CallOK, RowsHonest, Succeeded
  <1>3. Selection(got[c], filter[c], now) \in SUBSET Service!AcceptableRows(got[c])
    BY <1>1, <1>2, SelectionAcceptable DEF IInv, ServiceInv, FilterOK
  <1>4. got[c] \in 1..Service!Current
    BY <1>2 DEF Service!Current
  <1>5. crossed \/ Service!CurrentSince(got[c], start[c] - AgeCap)
    BY <1>2 DEF CurrentSince, Service!CurrentSince
  <1>6. status[c] = "active"
    BY <1>1 DEF status, StatusOf
  <1>7. status' = [status EXCEPT ![c] = "succeeded"]
    BY StatusMoves DEF Select, StatusOf, IInv
  <1>8. start' = [start EXCEPT ![c] = 0]
    BY DEF Select, ForgetCall
  <1>9. Service!Succeed(c)
    BY <1>1, <1>3, <1>4, <1>5, <1>6, <1>7, <1>8 DEF Service!Succeed
  <1> QED
    BY <1>9 DEF Service!Next, Service!ServiceStep

\* A call begins, and may have its rows at once.
LEMMA BeginImplements ==
  ASSUME TypeOK, NEW c \in Caller, NEW p \in {"requested", "selecting"}, pc[c] = "idle",
         pc' = [pc EXCEPT ![c] = p], start' = [start EXCEPT ![c] = now],
         UNCHANGED <<now, snaps, outcome, rows, crossed>>
  PROVE  Service!Next
  <1>1. status[c] = "idle"
    BY DEF status, StatusOf
  <1>2. status' = [status EXCEPT ![c] = "active"]
    <2>1. status' = [status EXCEPT ![c] = StatusOf(p, outcome[c])]
      BY StatusStays
    <2> QED
      BY <2>1 DEF StatusOf
  <1>3. Service!Begin(c)
    BY <1>1, <1>2 DEF Service!Begin
  <1> QED
    BY <1>3 DEF Service!Next, Service!ServiceStep

\* A step in the middle of a call is invisible, but for a 304 that crosses.
LEMMA MiddleImplements ==
  ASSUME TypeOK, NEW c \in Caller, NEW p \in {"answered", "reading", "selecting"},
         pc[c] \notin {"idle", "done"},
         pc' = [pc EXCEPT ![c] = p], UNCHANGED <<now, snaps, start, outcome, rows>>,
         UNCHANGED crossed \/ (crossed' = TRUE /\ (Overlap \/ "Spurious304" \in Faults))
  PROVE  Service!Next \/ UNCHANGED Service!vars
  <1>1. UNCHANGED status
    BY StaysActive
  <1>2. CASE UNCHANGED crossed
    BY <1>1, <1>2 DEF Service!vars, Service!callVars
  <1>3. CASE crossed' = TRUE /\ (Overlap \/ "Spurious304" \in Faults)
    BY <1>1, <1>3 DEF Service!Next, Service!ServiceStep, Service!Void
  <1> QED
    BY <1>2, <1>3

LEMMA StepImplements ==
  ASSUME IInv, ServiceInv, IInv', ServiceInv', NEW c \in Caller, Step(c),
         UNCHANGED <<now, snaps, source>>
  PROVE  Service!Next \/ UNCHANGED Service!vars
  <1> USE DEF Errors
  <1>0. TypeOK
    BY DEF IInv
  <1>1. CASE RejectFilters(c)
    BY <1>0, <1>1, FailImplements DEF RejectFilters
  <1>2. ASSUME NEW f \in Filters, Hit(c, f) PROVE Service!Next
    <2>1. pc[c] = "idle"
      BY <1>2 DEF Hit, CanBegin
    <2>2. CASE Begin(c, f) /\ Deliver(c, cache.ver) /\ UNCHANGED crossed
      BY <1>0, <2>1, <2>2, BeginImplements DEF Begin, Deliver
    <2>3. CASE Fail(c, "SnapshotValidationError")
      BY <1>0, <2>1, <2>3, FailImplements
    <2> QED
      BY <1>2, <2>2, <2>3 DEF Hit
  <1>3. ASSUME NEW f \in Filters, Request(c, f) PROVE Service!Next
    BY <1>0, <1>3, BeginImplements DEF Request, CanBegin, Begin
  <1>4. CASE Answer(c) \/ AwaitBody(c)
    BY <1>0, <1>4, MiddleImplements DEF Answer, AwaitBody
  <1>5. CASE Unsuccessful(c) \/ TimerFires(c) \/ BadBody(c)
    BY <1>0, <1>5, FailImplements
       DEF Unsuccessful, TimerFires, TimerArmed, BadBody, NoJson, BadEnvelope, BadRow
  <1>6. CASE NotModified(c)
    <2>1. CASE cache.ver = 0 \/ ~GeneratedAtOk(cache.ver, start[c])
      BY <1>0, <1>6, <2>1, FailImplements DEF NotModified
    <2>2. CASE cache.ver # 0 /\ GeneratedAtOk(cache.ver, start[c])
      <3>1. /\ pc[c] = "answered" /\ Deliver(c, cache.ver) /\ UNCHANGED start
            /\ crossed' = (crossed \/ resp[c].ver # cache.ver)
        BY <1>6, <2>2 DEF NotModified
      <3>2. UNCHANGED crossed \/ (crossed' = TRUE /\ (Overlap \/ "Spurious304" \in Faults))
        <4>1. crossed' \in BOOLEAN /\ crossed \in BOOLEAN
          BY DEF IInv, TypeOK
        <4>2. crossed' => Overlap \/ "Spurious304" \in Faults
          BY DEF ServiceInv, NoneCrosses
        <4> QED
          BY <3>1, <4>1, <4>2
      <3> QED
        BY <1>0, <3>1, <3>2, MiddleImplements DEF Deliver
    <2> QED
      BY <2>1, <2>2
  <1>7. CASE GoodBody(c)
    <2>1. pc[c] = "reading"
      BY <1>7 DEF GoodBody
    <2>2. CASE Deliver(c, resp[c].ver) /\ UNCHANGED <<start, crossed>>
      BY <1>0, <2>1, <2>2, MiddleImplements DEF Deliver
    <2>3. CASE Fail(c, "SnapshotValidationError")
      BY <1>0, <2>1, <2>3, FailImplements
    <2> QED
      BY <1>7, <2>2, <2>3 DEF GoodBody
  <1>8. CASE Select(c)
    BY <1>8, SelectImplements
  <1>9. CASE Return(c)
    <2>1. /\ pc[c] = "done" /\ outcome' = [outcome EXCEPT ![c] = "none"]
          /\ pc' = [pc EXCEPT ![c] = "idle"]
      BY <1>9 DEF Return
    <2>2. status[c] \in {"succeeded", "failed"}
      BY <2>1 DEF status, StatusOf
    <2>3. status' = [status EXCEPT ![c] = "idle"]
      BY <1>0, <2>1, StatusMoves DEF StatusOf
    <2>4. Service!Return(c)
      BY <1>9, <2>2, <2>3 DEF Return, Service!Return
    <2> QED
      BY <1>9, <2>4 DEF Service!Next, Service!ServiceStep
  <1> QED
    BY <1>1, <1>2, <1>3, <1>4, <1>5, <1>6, <1>7, <1>8, <1>9 DEF Step

LEMMA NextImplements ==
  IInv /\ IInv' /\ ServiceInv /\ ServiceInv' /\ [Next]_vars => [Service!Next]_(Service!vars)
  <1> SUFFICES ASSUME IInv, IInv', ServiceInv, ServiceInv', [Next]_vars
               PROVE  Service!Next \/ UNCHANGED Service!vars
    OBVIOUS
  <1>1. ASSUME UNCHANGED vars PROVE UNCHANGED Service!vars
    BY <1>1 DEF vars, Service!vars, Service!callVars, status
  <1>2. ASSUME NEW c \in Caller, Step(c), UNCHANGED <<now, snaps, source>>
        PROVE  Service!Next \/ UNCHANGED Service!vars
    BY <1>2, StepImplements
  <1>3. CASE Environment
    <2>1. UNCHANGED <<status, start, rows, crossed>>
      BY <1>3 DEF Environment, status
    <2>2. Service!Publish \/ Service!Tick
      BY <1>3 DEF Environment, Publish, Tick, Service!Publish, Service!Tick,
                  Current, Service!Current
    <2> QED
      BY <2>1, <2>2 DEF Service!Next, Service!callVars
  <1> QED
    BY <1>1, <1>2, <1>3 DEF Next, ClientStep

\* The JavaScript client is a caching service, for any number of callers:
\* the cache, its ETags and the three ways _rows() returns are invisible to
\* them, until a 304 crosses; and that takes overlapping calls or a 304 that
\* nobody asked for.
THEOREM ImplementsServiceHolds == Spec => ImplementsService
  <1>1. Init => Service!Init
    BY InitImplements
  <1>2. IInv /\ IInv' /\ ServiceInv /\ ServiceInv' /\ [Next]_vars => [Service!Next]_(Service!vars)
    BY NextImplements
  <1> QED
    BY <1>1, <1>2, Invariance, ServiceInvariance, PTL DEF Spec, ImplementsService, Service!Spec
=============================================================================
