-------------------------- MODULE RustClientProofs --------------------------
(***************************************************************************)
(* What holds of RustClient for every set of threads, every window, every  *)
(* set of faults and every schedule, and that it is a SnapshotService.     *)
(***************************************************************************)
EXTENDS RustClient, SnapshotServerProofs

\* An ETag is stored with the snapshot it tags, or not at all.
\* The entry was current AgeCap before it expires, unless a 304 was crossed.
EntryOK ==
  /\ cache.ver <= Len(snaps)
  /\ cache.etag \in {0, cache.ver}
  /\ cache.expires <= now + AgeCap
  /\ ~crossed /\ cache.ver # 0 => CurrentSince(cache.ver, cache.expires - AgeCap)

\* What the endpoint sent to or confirmed for call c was current when asked;
\* a 304 that confirms nothing is the intermediary's.
ServerHonest(c) ==
  pc[c] = "answered" =>
    /\ resp[c].status = "200" => resp[c].ver # 0 /\ resp[c].etag \in {0, resp[c].ver}
    /\ resp[c].status = "304" => \/ resp[c].ver # 0 /\ resp[c].ver = sent[c]
                                 \/ resp[c].ver = 0 /\ "Spurious304" \in Faults
    /\ resp[c].ver # 0 => CurrentSince(resp[c].ver, start[c])

\* What rows() of call c returned.
RowsHonest(c) ==
  pc[c] = "selecting" =>
    /\ got[c] \in 1..Len(snaps)
    /\ ~crossed => CurrentSince(got[c], start[c] - AgeCap)

\* The mutex protects the request of c and the ETag it was sent with.
Guarded(c) ==
  /\ InFlight(c) <=> holder = c
  /\ InFlight(c) => sent[c] = cache.etag

CallOK(c) == start[c] <= now /\ Guarded(c) /\ ServerHonest(c) /\ RowsHonest(c)

\* The inductive invariant.
IInv ==
  /\ TypeOK
  /\ EntryOK
  /\ crossed => "Spurious304" \in Faults
  /\ \A c \in Caller : CallOK(c)

USE DEF mutexVars, callVars

-----------------------------------------------------------------------------
(* Helpers. *)

\* cache_seconds stays between 0 and the cap.
LEMMA CacheSecondsBounded ==
  ASSUME NEW m \in Nat \cup {Absent}
  PROVE  CacheSeconds(m) \in Nat /\ CacheSeconds(m) <= AgeCap
  BY WindowAssumption, ServerAssumption DEF CacheSeconds

\* Filters::validate returns a window between 1 and the maximum.
LEMMA ValidatedType ==
  ASSUME NEW f \in Filters, ValidFilters(f)
  PROVE  Validated(f) \in FilterType
  <1>1. f \in [within : Nat \cup {Absent}, limit : Nat \cup {Absent}, match : SUBSET Proxy]
    BY ThreadAssumption
  <1>2. CheckedWithin(f) \in 1..MaxWithin
    BY DEF ValidFilters
  <1>3. QED
    BY <1>1, <1>2 DEF Validated, FilterType

LEMMA NeutralValues ==
  NoFilter \in FilterType /\ NoResponse \in Response /\ NoEntry \in Entry
  BY ThreadAssumption
     DEF NoFilter, FilterType, NoResponse, Response, Status, NoEntry, Entry

\* The retention an entry gets from a response of call c.
LEMMA ExpiryFromStart ==
  ASSUME TypeOK, NEW c \in Caller
  PROVE  /\ start[c] \in Nat /\ ExpiresAt(c) \in Int /\ AgeCap \in Nat
         /\ ExpiresAt(c) <= start[c] + AgeCap
  <1>1. start[c] \in Nat /\ resp[c].maxAge \in Nat \cup {Absent}
    BY DEF TypeOK, Response
  <1>2. CacheSeconds(resp[c].maxAge) \in Nat /\ CacheSeconds(resp[c].maxAge) <= AgeCap
    BY <1>1, CacheSecondsBounded
  <1>3. QED
    BY <1>1, <1>2, WindowAssumption DEF ExpiresAt

-----------------------------------------------------------------------------
(* Type correctness. *)

LEMMA InitTypeOK == Init => TypeOK
  <1> SUFFICES ASSUME Init PROVE TypeOK
    OBVIOUS
  <1>1. ServerTypeOK
    BY ServerAssumption DEF Init, ServerInit, ServerTypeOK, Snapshot
  <1>2. QED
    BY <1>1, NeutralValues, ThreadAssumption DEF Init, RustInit, TypeOK, Phase, Outcome

\* A failing call leaves every variable it touches well typed.
LEMMA FailTypeOK ==
  ASSUME TypeOK, NEW c \in Caller, NEW e \in Errors, Fail(c, e), UNCHANGED cache,
         holder' \in {holder, Nobody}, poisoned' \in BOOLEAN,
         UNCHANGED <<now, snaps, source>>
  PROVE  TypeOK'
  BY NeutralValues DEF TypeOK, ServerTypeOK, Fail, ForgetCall, Phase, Outcome

LEMMA EnvironmentTypeOK ==
  ASSUME TypeOK, Environment
  PROVE  TypeOK'
  <1>1. ServerTypeOK'
    BY EnvironmentServerTypeOK DEF TypeOK, Environment
  <1>2. QED
    BY <1>1 DEF TypeOK, Environment

LEMMA StepTypeOK ==
  ASSUME TypeOK, NEW c \in Caller, Step(c), UNCHANGED <<now, snaps, source>>
  PROVE  TypeOK'
  <1> USE DEF Errors
  <1>0. /\ cache.ver \in Nat /\ cache.etag \in Nat /\ now \in Nat
        /\ resp[c] \in Response /\ resp[c].ver \in Nat /\ resp[c].etag \in Nat
        /\ start[c] \in Nat /\ poisoned \in BOOLEAN /\ ExpiresAt(c) \in Int
    BY ExpiryFromStart DEF TypeOK, ServerTypeOK, Entry, Response
  <1>1. CASE RejectFilters(c)
    BY <1>0, <1>1, FailTypeOK DEF RejectFilters
  <1>2. ASSUME NEW f \in Filters, ReadClock(c, f)
        PROVE  TypeOK'
    <2>1. Validated(f) \in FilterType
      BY <1>2, ValidatedType DEF ReadClock
    <2>2. QED
      BY <1>0, <1>2, <2>1 DEF ReadClock, TypeOK, ServerTypeOK, Phase
  <1>3. CASE Poison(c)
    BY <1>0, <1>3, FailTypeOK DEF Poison
  <1>4. CASE Hit(c)
    <2>1. CASE Deliver(c, cache.ver) /\ UNCHANGED <<crossed, cache, holder, poisoned>>
      BY <1>0, <2>1 DEF Deliver, TypeOK, ServerTypeOK, Phase
    <2>2. CASE Fail(c, "SnapshotValidation") /\ UNCHANGED <<cache, holder, poisoned>>
      BY <1>0, <2>2, FailTypeOK
    <2>3. QED
      BY <1>4, <2>1, <2>2 DEF Hit
  <1>5. CASE Request(c)
    BY <1>0, <1>5 DEF Request, TypeOK, ServerTypeOK, Phase
  <1>6. CASE Answer(c)
    <2>1. PICK r \in Answers(sent[c]) : resp' = [resp EXCEPT ![c] = r]
      BY <1>6 DEF Answer
    <2>2. r \in Response
      BY <2>1, AnswersType DEF TypeOK
    <2>3. QED
      BY <1>6, <2>1, <2>2 DEF Answer, TypeOK, ServerTypeOK, Phase
  <1>7. CASE TransportTimesOut(c)
    BY <1>0, <1>7, FailTypeOK DEF TransportTimesOut, Release
  <1>8. CASE TransportPanics(c)
    BY <1>0, <1>8, FailTypeOK DEF TransportPanics
  <1>9. CASE Unsuccessful(c)
    BY <1>0, <1>9, FailTypeOK DEF Unsuccessful, Release
  <1>10. CASE BadBody(c)
    BY <1>0, <1>10, FailTypeOK DEF BadBody, NoJson, BadEnvelope, BadRow, Release
  <1>11. CASE NotModified(c)
    <2>1. CASE cache.ver = 0 \/ ~GeneratedAtOk(cache.ver, start[c])
      BY <1>0, <1>11, <2>1, FailTypeOK DEF NotModified, Release
    <2>2. CASE cache.ver # 0 /\ GeneratedAtOk(cache.ver, start[c])
      <3>1. [cache EXCEPT !.expires = ExpiresAt(c)] \in Entry
        BY <1>0 DEF TypeOK, Entry
      <3>2. /\ cache' = [cache EXCEPT !.expires = ExpiresAt(c)]
            /\ crossed' = (crossed \/ resp[c].ver # cache.ver)
            /\ Deliver(c, cache.ver) /\ Release
        BY <1>11, <2>2 DEF NotModified
      <3>3. QED
        BY <1>0, <3>1, <3>2 DEF Deliver, Release, TypeOK, ServerTypeOK, Phase
    <2>3. QED
      BY <2>1, <2>2
  <1>12. CASE GoodBody(c)
    <2>1. CASE ~GeneratedAtOk(resp[c].ver, start[c])
      BY <1>0, <1>12, <2>1, FailTypeOK DEF GoodBody, Release
    <2>2. CASE GeneratedAtOk(resp[c].ver, start[c])
      <3>1. /\ cache' = [ver |-> resp[c].ver, etag |-> resp[c].etag, expires |-> ExpiresAt(c)]
            /\ Deliver(c, resp[c].ver) /\ UNCHANGED crossed /\ Release
        BY <1>12, <2>2 DEF GoodBody
      <3>2. cache' \in Entry
        BY <1>0, <3>1 DEF Entry
      <3>3. QED
        BY <1>0, <3>1, <3>2 DEF Deliver, Release, TypeOK, ServerTypeOK, Phase
    <2>3. QED
      BY <2>1, <2>2
  <1>13. CASE Select(c)
    <2>1. filter[c].match \subseteq Proxy /\ got[c] \in Nat
      BY DEF TypeOK, FilterType
    <2>2. Selection(got[c], filter[c], now) \in SUBSET (Nat \X Proxy)
      BY <2>1 DEF Selection, Best
    <2>3. QED
      BY <1>13, <2>2, NeutralValues
         DEF Select, ForgetCall, TypeOK, ServerTypeOK, Phase, Outcome
  <1>14. CASE Return(c)
    BY <1>14 DEF Return, TypeOK, ServerTypeOK, Phase, Outcome
  <1>15. QED
    BY <1>1, <1>2, <1>3, <1>4, <1>5, <1>6, <1>7, <1>8, <1>9, <1>10, <1>11, <1>12,
       <1>13, <1>14 DEF Step

LEMMA NextTypeOK == TypeOK /\ [Next]_vars => TypeOK'
  <1>1. ASSUME TypeOK, UNCHANGED vars PROVE TypeOK'
    BY <1>1 DEF vars, TypeOK, ServerTypeOK
  <1>2. QED
    BY <1>1, EnvironmentTypeOK, StepTypeOK DEF Next, ClientStep

\* Every variable of the client keeps its type; validated filters their bounds.
THEOREM TypeCorrect == Spec => []TypeOK
  BY InitTypeOK, NextTypeOK, PTL DEF Spec

-----------------------------------------------------------------------------
(* The inductive invariant. *)

LEMMA InitIInv == Init => IInv
  <1> SUFFICES ASSUME Init PROVE IInv
    OBVIOUS
  <1>1. TypeOK
    BY InitTypeOK
  <1>2. EntryOK
    BY WindowAssumption DEF Init, ServerInit, RustInit, EntryOK, NoEntry
  <1>3. \A c \in Caller : CallOK(c)
    BY ThreadAssumption
       DEF Init, ServerInit, RustInit, CallOK, Guarded, InFlight, ServerHonest, RowsHonest
  <1>4. QED
    BY <1>1, <1>2, <1>3 DEF IInv, Init, RustInit

\* Time passing and a new publication disturb nothing.
LEMMA EnvironmentIInv ==
  ASSUME IInv, Environment
  PROVE  IInv'
  <1>1. TypeOK' /\ TypeOK /\ ServerTypeOK /\ now \in Nat /\ Len(snaps) \in Nat
    <2>1. TypeOK
      BY DEF IInv
    <2>2. TypeOK'
      BY <2>1, EnvironmentTypeOK
    <2>3. ServerTypeOK /\ now \in Nat /\ Len(snaps) \in Nat
      BY <2>1 DEF TypeOK, ServerTypeOK
    <2> QED
      BY <2>1, <2>2, <2>3
  <1>2. /\ now' \in Nat /\ now <= now' /\ Len(snaps) <= Len(snaps') /\ Len(snaps') \in Nat
    BY <1>1, EnvironmentGrows DEF Environment
  <1>3. ASSUME NEW v \in Nat, NEW t \in Int, t <= now, CurrentSince(v, t)
        PROVE  CurrentSince(v, t)'
    BY <1>1, <1>3, EnvironmentKeepsCurrentSince DEF Environment
  <1>4. EntryOK'
    <2>1. cache.ver \in Nat /\ cache.expires \in Int /\ AgeCap \in Nat
      BY <1>1, WindowAssumption DEF TypeOK, Entry
    <2>2. EntryOK /\ UNCHANGED <<cache, crossed>>
      BY DEF IInv, Environment
    <2>3. cache.expires - AgeCap <= now /\ cache.expires - AgeCap \in Int
      BY <1>1, <2>1, <2>2 DEF EntryOK
    <2>4. ~crossed /\ cache.ver # 0 => CurrentSince(cache.ver, cache.expires - AgeCap)'
      BY <1>3, <2>1, <2>2, <2>3 DEF EntryOK, CurrentSince
    <2>5. QED
      BY <1>1, <1>2, <2>1, <2>2, <2>4 DEF EntryOK, CurrentSince
  <1>5. ASSUME NEW c \in Caller PROVE CallOK(c)'
    <2>1. /\ start[c] \in Nat /\ got[c] \in Nat /\ resp[c].ver \in Nat
          /\ AgeCap \in Nat /\ start[c] - AgeCap \in Int
      <3>1. start[c] \in Nat /\ got[c] \in Nat /\ resp[c] \in Response
        BY <1>1 DEF TypeOK
      <3>2. QED
        BY <3>1, WindowAssumption DEF Response
    <2>2. CallOK(c) /\ UNCHANGED <<pc, start, resp, got, sent, crossed, cache, holder>>
      BY DEF IInv, Environment
    <2>3. start[c] <= now /\ start[c] - AgeCap <= now /\ start'[c] <= now'
      BY <1>1, <1>2, <2>1, <2>2 DEF CallOK
    <2>4. Guarded(c)'
      BY <2>2 DEF CallOK, Guarded, InFlight
    <2>5. ServerHonest(c)'
      <3>1. CurrentSince(resp[c].ver, start[c]) => CurrentSince(resp[c].ver, start[c])'
        BY <1>3, <2>1, <2>2, <2>3 DEF CurrentSince
      <3> QED
        BY <2>2, <3>1 DEF CallOK, ServerHonest
    <2>6. RowsHonest(c)'
      <3>1. SUFFICES ASSUME pc[c] = "selecting" PROVE RowsHonest(c)'
        BY <2>2 DEF RowsHonest
      <3>2. RowsHonest(c)
        BY <2>2 DEF CallOK
      <3>3. got[c] \in 1..Len(snaps')
        BY <1>1, <1>2, <3>1, <3>2 DEF RowsHonest
      <3>4. ~crossed => CurrentSince(got[c], start[c] - AgeCap)'
        BY <1>3, <2>1, <2>2, <2>3, <3>1, <3>2 DEF RowsHonest, CurrentSince
      <3>5. QED
        BY <2>2, <3>3, <3>4 DEF RowsHonest
    <2>7. QED
      BY <2>3, <2>4, <2>5, <2>6 DEF CallOK
  <1>6. QED
    BY <1>1, <1>4, <1>5 DEF IInv, Environment

-----------------------------------------------------------------------------
(* Steps of the client.  Thread c moves; d stands for another thread. *)

\* While d has a request in flight, c can neither take the mutex nor release
\* it nor write the cache; and c never touches the call of d.
LEMMA StepIsLocal ==
  ASSUME IInv, NEW c \in Caller, Step(c), NEW d \in Caller, d # c
  PROVE  /\ pc'[d] = pc[d] /\ start'[d] = start[d] /\ resp'[d] = resp[d]
         /\ got'[d] = got[d] /\ sent'[d] = sent[d]
         /\ crossed => crossed'
         /\ InFlight(d) => UNCHANGED <<cache, holder>>
         /\ ~InFlight(d) => holder' # d
  <1>1. /\ InFlight(d) <=> holder = d
        /\ InFlight(c) <=> holder = c
        /\ c # Nobody /\ d # Nobody
    BY ThreadAssumption DEF IInv, CallOK, Guarded
  <1> USE DEF TypeOK, Fail, ForgetCall, Deliver, IInv
  <1>2. CASE RejectFilters(c) \/ Poison(c) \/ Hit(c)
    BY <1>1, <1>2 DEF RejectFilters, Poison, Hit
  <1>3. ASSUME NEW f \in Filters, ReadClock(c, f)
        PROVE  /\ pc'[d] = pc[d] /\ start'[d] = start[d] /\ resp'[d] = resp[d]
               /\ got'[d] = got[d] /\ sent'[d] = sent[d]
               /\ crossed => crossed'
               /\ InFlight(d) => UNCHANGED <<cache, holder>>
               /\ ~InFlight(d) => holder' # d
    BY <1>1, <1>3 DEF ReadClock
  <1>4. CASE Request(c) \/ Answer(c)
    BY <1>1, <1>4 DEF Request, Answer, Acquires
  <1>5. CASE TransportTimesOut(c) \/ TransportPanics(c)
    BY <1>1, <1>5 DEF TransportTimesOut, TransportPanics, TimedOut, Release, InFlight
  <1>6. CASE Unsuccessful(c) \/ BadBody(c)
    BY <1>1, <1>6 DEF Unsuccessful, BadBody, NoJson, BadEnvelope, BadRow, Release, InFlight
  <1>7. CASE NotModified(c)
    BY <1>1, <1>7 DEF NotModified, Release, InFlight
  <1>8. CASE GoodBody(c)
    BY <1>1, <1>8 DEF GoodBody, Release, InFlight
  <1>9. CASE Select(c) \/ Return(c)
    BY <1>1, <1>9 DEF Select, Return
  <1>10. QED
    BY <1>2, <1>3, <1>4, <1>5, <1>6, <1>7, <1>8, <1>9 DEF Step

LEMMA OtherCallOK ==
  ASSUME IInv, NEW c \in Caller, Step(c), UNCHANGED <<now, snaps, source>>,
         NEW d \in Caller, d # c
  PROVE  CallOK(d)'
  <1>1. /\ pc'[d] = pc[d] /\ start'[d] = start[d] /\ resp'[d] = resp[d]
        /\ got'[d] = got[d] /\ sent'[d] = sent[d]
        /\ crossed => crossed'
        /\ InFlight(d) => UNCHANGED <<cache, holder>>
        /\ ~InFlight(d) => holder' # d
    BY StepIsLocal
  <1>2. CallOK(d)
    BY DEF IInv
  <1>3. Guarded(d)'
    BY <1>1, <1>2 DEF CallOK, Guarded, InFlight
  <1>4. QED
    BY <1>1, <1>2, <1>3 DEF CallOK, ServerHonest, RowsHonest, CurrentSince

\* A call that is over keeps nothing, and does not keep the mutex.
LEMMA FailIInv ==
  ASSUME IInv, NEW c \in Caller, NEW e \in Errors, Fail(c, e), UNCHANGED cache,
         holder' # c, UNCHANGED <<now, snaps, source>>
  PROVE  CallOK(c)' /\ EntryOK' /\ (crossed' => "Spurious304" \in Faults)
  <1>1. pc'[c] = "done" /\ start'[c] = 0 /\ now' \in Nat /\ UNCHANGED crossed
    BY DEF IInv, TypeOK, ServerTypeOK, Fail, ForgetCall
  <1>2. CallOK(c)'
    BY <1>1 DEF CallOK, Guarded, InFlight, ServerHonest, RowsHonest
  <1>3. EntryOK'
    BY <1>1 DEF IInv, EntryOK, CurrentSince
  <1>4. QED
    BY <1>1, <1>2, <1>3 DEF IInv

\* A hit: the entry had not expired when c read the clock, so it was current
\* AgeCap before that, however long c then waited for the mutex.
LEMMA HitIInv ==
  ASSUME IInv, NEW c \in Caller, Hit(c), UNCHANGED <<now, snaps, source>>
  PROVE  CallOK(c)' /\ EntryOK' /\ (crossed' => "Spurious304" \in Faults)
  <1>1. /\ pc[c] = "locking" /\ holder = Nobody /\ UNCHANGED <<cache, holder>>
        /\ cache.ver # 0 /\ start[c] < cache.expires
    BY DEF Hit, Acquires, Unexpired
  <1>2. CASE Fail(c, "SnapshotValidation")
    BY <1>1, <1>2, FailIInv, ThreadAssumption DEF Errors
  <1>3. CASE Deliver(c, cache.ver) /\ UNCHANGED crossed
    <2>1. /\ cache.ver \in Nat /\ cache.expires \in Int /\ start[c] \in Nat
          /\ AgeCap \in Nat /\ Len(snaps) \in Nat /\ ServerTypeOK
      BY WindowAssumption DEF IInv, TypeOK, ServerTypeOK, Entry
    <2>2. /\ pc'[c] = "selecting" /\ start'[c] = start[c] /\ got'[c] = cache.ver
      BY <1>3 DEF Deliver, IInv, TypeOK
    <2>3. ~crossed => CurrentSince(cache.ver, start[c] - AgeCap)
      <3>1. cache.expires - AgeCap \in Int /\ start[c] - AgeCap \in Int
            /\ start[c] - AgeCap <= cache.expires - AgeCap
        BY <1>1, <2>1
      <3>2. QED
        BY <1>1, <2>1, <3>1, CurrentSinceEarlier DEF IInv, EntryOK
    <2>4. cache.ver \in 1..Len(snaps)
      BY <1>1, <2>1 DEF IInv, EntryOK
    <2>5. CallOK(c)'
      BY <1>1, <1>3, <2>2, <2>3, <2>4, ThreadAssumption
         DEF IInv, CallOK, Guarded, InFlight, ServerHonest, RowsHonest, CurrentSince
    <2>6. EntryOK'
      BY <1>1, <1>3 DEF IInv, EntryOK, CurrentSince
    <2>7. QED
      BY <1>3, <2>5, <2>6 DEF IInv
  <1>4. QED
    BY <1>2, <1>3 DEF Hit

\* An answer sends or confirms the snapshot that is current at that moment.
LEMMA AnswerIInv ==
  ASSUME IInv, NEW c \in Caller, Answer(c), UNCHANGED <<now, snaps, source>>
  PROVE  CallOK(c)' /\ EntryOK' /\ (crossed' => "Spurious304" \in Faults)
  <1>1. PICK r \in Answers(sent[c]) : resp' = [resp EXCEPT ![c] = r]
    BY DEF Answer
  <1>2. /\ pc[c] = "requested" /\ pc'[c] = "answered" /\ resp'[c] = r
        /\ UNCHANGED <<cache, holder, crossed, start, sent>>
    BY <1>1 DEF Answer, IInv, TypeOK
  <1>3. Current = Len(snaps) /\ Len(snaps) \in Nat /\ Len(snaps) >= 1
    BY DEF IInv, TypeOK, ServerTypeOK, Current
  <1>4. /\ r.status = "200" => r.ver # 0 /\ r.etag \in {0, r.ver}
        /\ r.status = "304" => \/ r.ver # 0 /\ r.ver = sent[c]
                               \/ r.ver = 0 /\ "Spurious304" \in Faults
        /\ r.ver # 0 => r.ver = Len(snaps)
    BY <1>1, <1>3 DEF Answers, NoResponse
  <1>5. r.ver # 0 => CurrentSince(r.ver, start[c])
    BY <1>3, <1>4 DEF CurrentSince
  <1>6. Guarded(c)'
    BY <1>2 DEF IInv, CallOK, Guarded, InFlight
  <1>7. CallOK(c)'
    BY <1>2, <1>4, <1>5, <1>6 DEF IInv, CallOK, ServerHonest, RowsHonest, CurrentSince
  <1>8. EntryOK'
    BY <1>2 DEF IInv, EntryOK, CurrentSince
  <1>9. QED
    BY <1>2, <1>7, <1>8 DEF IInv

\* What call c returns and stores, once it was current when c read the clock.
LEMMA CurrentEnough ==
  ASSUME TypeOK, NEW c \in Caller, NEW v \in Nat, CurrentSince(v, start[c])
  PROVE  /\ CurrentSince(v, start[c] - AgeCap)
         /\ CurrentSince(v, ExpiresAt(c) - AgeCap)
  <1>1. /\ start[c] \in Nat /\ AgeCap \in Nat /\ ServerTypeOK
        /\ ExpiresAt(c) \in Int /\ ExpiresAt(c) <= start[c] + AgeCap
    BY ExpiryFromStart DEF TypeOK
  <1>2. /\ start[c] - AgeCap \in Int /\ start[c] - AgeCap <= start[c]
        /\ ExpiresAt(c) - AgeCap \in Int /\ ExpiresAt(c) - AgeCap <= start[c]
    BY <1>1
  <1>3. QED
    BY <1>1, <1>2, CurrentSinceEarlier

\* A call has read the clock by now, and what it stores expires within the cap.
LEMMA TimesOfCall ==
  ASSUME IInv, NEW c \in Caller
  PROVE  /\ now \in Nat /\ Len(snaps) \in Nat
         /\ start[c] \in Nat /\ start[c] <= now /\ AgeCap \in Nat
         /\ ExpiresAt(c) \in Int /\ ExpiresAt(c) <= start[c] + AgeCap
  <1>1. now \in Nat /\ Len(snaps) \in Nat
    BY DEF IInv, TypeOK, ServerTypeOK
  <1>2. start[c] <= now
    BY DEF IInv, CallOK
  <1> QED
    BY <1>1, <1>2, ExpiryFromStart DEF IInv

\* A 304: the entry it refreshes is the one whose ETag c sent, unless the
\* request carried none.
LEMMA NotModifiedIInv ==
  ASSUME IInv, NEW c \in Caller, NotModified(c), UNCHANGED <<now, snaps, source>>
  PROVE  CallOK(c)' /\ EntryOK' /\ (crossed' => "Spurious304" \in Faults)
  <1>1. /\ pc[c] = "answered" /\ resp[c].status = "304"
        /\ holder' # c /\ sent[c] = cache.etag
    BY ThreadAssumption DEF NotModified, Release, IInv, CallOK, Guarded, InFlight
  <1>2. CASE cache.ver = 0 \/ ~GeneratedAtOk(cache.ver, start[c])
    BY <1>1, <1>2, FailIInv DEF NotModified, Errors
  <1>3. CASE cache.ver # 0 /\ GeneratedAtOk(cache.ver, start[c])
    <2>1. /\ cache' = [cache EXCEPT !.expires = ExpiresAt(c)]
          /\ crossed' = (crossed \/ resp[c].ver # cache.ver)
          /\ Deliver(c, cache.ver)
      BY <1>3 DEF NotModified
    <2>2. /\ cache.ver \in Nat /\ now \in Nat /\ Len(snaps) \in Nat
          /\ start[c] \in Nat /\ start[c] <= now /\ AgeCap \in Nat
          /\ ExpiresAt(c) \in Int /\ ExpiresAt(c) <= start[c] + AgeCap
          /\ cache'.ver = cache.ver /\ cache'.etag = cache.etag
          /\ cache'.expires = ExpiresAt(c)
      <3>1. cache \in Entry
        BY DEF IInv, TypeOK
      <3>2. /\ cache.ver \in Nat
            /\ cache'.ver = cache.ver /\ cache'.etag = cache.etag /\ cache'.expires = ExpiresAt(c)
        BY <2>1, <3>1 DEF Entry
      <3> QED
        BY <3>2, TimesOfCall
    <2>3. pc'[c] = "selecting" /\ got'[c] = cache.ver /\ start'[c] = start[c]
      BY <2>1 DEF Deliver, IInv, TypeOK
    <2>4. crossed' => "Spurious304" \in Faults
      BY <1>1, <1>3, <2>1 DEF IInv, EntryOK, CallOK, ServerHonest
    <2>5. ~crossed' => /\ CurrentSince(cache.ver, start[c] - AgeCap)
                       /\ CurrentSince(cache.ver, ExpiresAt(c) - AgeCap)
      <3>1. ~crossed' => CurrentSince(cache.ver, start[c])
        BY <1>1, <1>3, <2>1 DEF IInv, CallOK, ServerHonest
      <3>2. QED
        BY <2>2, <3>1, CurrentEnough DEF IInv
    <2>6. cache.ver \in 1..Len(snaps) /\ cache.etag \in {0, cache.ver}
      BY <1>3, <2>2 DEF IInv, EntryOK
    <2>7. CallOK(c)'
      BY <1>1, <2>2, <2>3, <2>5, <2>6
         DEF CallOK, Guarded, InFlight, ServerHonest, RowsHonest, CurrentSince
    <2>8. EntryOK'
      BY <2>2, <2>5, <2>6 DEF EntryOK, CurrentSince
    <2>9. QED
      BY <2>4, <2>7, <2>8
  <1>4. QED
    BY <1>2, <1>3

\* A body: what is stored and returned was current when c read the clock.
LEMMA GoodBodyIInv ==
  ASSUME IInv, NEW c \in Caller, GoodBody(c), UNCHANGED <<now, snaps, source>>
  PROVE  CallOK(c)' /\ EntryOK' /\ (crossed' => "Spurious304" \in Faults)
  <1>1. pc[c] = "answered" /\ resp[c].status = "200" /\ holder' # c
    BY ThreadAssumption DEF GoodBody, Release
  <1>2. CASE ~GeneratedAtOk(resp[c].ver, start[c])
    BY <1>1, <1>2, FailIInv DEF GoodBody, Errors
  <1>3. CASE GeneratedAtOk(resp[c].ver, start[c])
    <2>1. /\ cache' = [ver |-> resp[c].ver, etag |-> resp[c].etag, expires |-> ExpiresAt(c)]
          /\ Deliver(c, resp[c].ver)
          /\ UNCHANGED crossed
      BY <1>3 DEF GoodBody
    <2>2. resp[c] \in Response
      BY DEF IInv, TypeOK
    <2>3. /\ resp[c].ver \in Nat /\ now \in Nat /\ Len(snaps) \in Nat
          /\ start[c] \in Nat /\ start[c] <= now /\ AgeCap \in Nat
          /\ ExpiresAt(c) \in Int /\ ExpiresAt(c) <= start[c] + AgeCap
          /\ cache'.ver = resp[c].ver /\ cache'.etag = resp[c].etag
          /\ cache'.expires = ExpiresAt(c)
      <3>1. resp[c].ver \in Nat
        BY <2>2 DEF Response
      <3>2. /\ cache'.ver = resp[c].ver /\ cache'.etag = resp[c].etag
            /\ cache'.expires = ExpiresAt(c)
        BY <2>1
      <3> QED
        BY <3>1, <3>2, TimesOfCall
    <2>4. pc'[c] = "selecting" /\ got'[c] = resp[c].ver /\ start'[c] = start[c]
      BY <2>1 DEF Deliver, IInv, TypeOK
    <2>5. /\ CurrentSince(resp[c].ver, start[c])
          /\ resp[c].etag \in {0, resp[c].ver}
      BY <1>1 DEF IInv, CallOK, ServerHonest
    <2>6. /\ CurrentSince(resp[c].ver, start[c] - AgeCap)
          /\ CurrentSince(resp[c].ver, ExpiresAt(c) - AgeCap)
      BY <2>3, <2>5, CurrentEnough DEF IInv
    <2>7. CallOK(c)'
      BY <1>1, <2>3, <2>4, <2>5, <2>6
         DEF CallOK, Guarded, InFlight, ServerHonest, RowsHonest, CurrentSince
    <2>8. EntryOK'
      BY <2>3, <2>5, <2>6 DEF EntryOK, CurrentSince
    <2>9. QED
      BY <2>1, <2>7, <2>8 DEF IInv
  <1>4. QED
    BY <1>2, <1>3

LEMMA StepIInv ==
  ASSUME IInv, NEW c \in Caller, Step(c), UNCHANGED <<now, snaps, source>>
  PROVE  CallOK(c)' /\ EntryOK' /\ (crossed' => "Spurious304" \in Faults)
  <1>0. c # Nobody /\ CallOK(c) /\ now \in Nat
    BY ThreadAssumption DEF IInv, TypeOK, ServerTypeOK
  <1>1. CASE RejectFilters(c)
    BY <1>0, <1>1, FailIInv DEF RejectFilters, Errors, CallOK, Guarded, InFlight
  <1>2. ASSUME NEW f \in Filters, ReadClock(c, f)
        PROVE  CallOK(c)' /\ EntryOK' /\ (crossed' => "Spurious304" \in Faults)
    <2>1. /\ pc[c] = "idle" /\ pc'[c] = "locking" /\ start'[c] = now
          /\ UNCHANGED <<cache, holder, crossed>>
      BY <1>2 DEF ReadClock, IInv, TypeOK
    <2>2. CallOK(c)'
      BY <1>0, <2>1 DEF CallOK, Guarded, InFlight, ServerHonest, RowsHonest
    <2>3. EntryOK'
      BY <2>1 DEF IInv, EntryOK, CurrentSince
    <2>4. QED
      BY <2>1, <2>2, <2>3 DEF IInv
  <1>3. CASE Poison(c)
    BY <1>0, <1>3, FailIInv DEF Poison, Errors
  <1>4. CASE Hit(c)
    BY <1>4, HitIInv
  <1>5. CASE Request(c)
    <2>1. /\ pc[c] = "locking" /\ pc'[c] = "requested" /\ holder' = c
          /\ sent'[c] = cache.etag
          /\ UNCHANGED <<cache, start, crossed>>
      BY <1>5 DEF Request, Acquires, IInv, TypeOK
    <2>2. CallOK(c)'
      BY <1>0, <2>1 DEF CallOK, Guarded, InFlight, ServerHonest, RowsHonest
    <2>3. EntryOK'
      BY <2>1 DEF IInv, EntryOK, CurrentSince
    <2>4. QED
      BY <2>1, <2>2, <2>3 DEF IInv
  <1>6. CASE Answer(c)
    BY <1>6, AnswerIInv
  <1>7. CASE TransportTimesOut(c) \/ TransportPanics(c)
    BY <1>0, <1>7, FailIInv DEF TransportTimesOut, TransportPanics, Release, Errors
  <1>8. CASE Unsuccessful(c) \/ BadBody(c)
    BY <1>0, <1>8, FailIInv DEF Unsuccessful, BadBody, NoJson, BadEnvelope, BadRow, Release, Errors
  <1>9. CASE NotModified(c)
    BY <1>9, NotModifiedIInv
  <1>10. CASE GoodBody(c)
    BY <1>10, GoodBodyIInv
  <1>11. CASE Select(c)
    <2>1. /\ pc[c] = "selecting" /\ pc'[c] = "done" /\ start'[c] = 0
          /\ UNCHANGED <<cache, holder, crossed>>
      BY <1>11 DEF Select, ForgetCall, IInv, TypeOK
    <2>2. CallOK(c)'
      BY <1>0, <2>1 DEF CallOK, Guarded, InFlight, ServerHonest, RowsHonest
    <2>3. EntryOK'
      BY <2>1 DEF IInv, EntryOK, CurrentSince
    <2>4. QED
      BY <2>1, <2>2, <2>3 DEF IInv
  <1>12. CASE Return(c)
    <2>1. /\ pc[c] = "done" /\ pc'[c] = "idle"
          /\ UNCHANGED <<cache, holder, start, crossed>>
      BY <1>12 DEF Return, IInv, TypeOK
    <2>2. CallOK(c)'
      BY <1>0, <2>1 DEF CallOK, Guarded, InFlight, ServerHonest, RowsHonest
    <2>3. EntryOK'
      BY <2>1 DEF IInv, EntryOK, CurrentSince
    <2>4. QED
      BY <2>1, <2>2, <2>3 DEF IInv
  <1>13. QED
    BY <1>1, <1>2, <1>3, <1>4, <1>5, <1>6, <1>7, <1>8, <1>9, <1>10, <1>11, <1>12 DEF Step

LEMMA NextIInv == IInv /\ [Next]_vars => IInv'
  <1> SUFFICES ASSUME IInv, [Next]_vars PROVE IInv'
    OBVIOUS
  <1>1. ASSUME UNCHANGED vars PROVE IInv'
    BY <1>1, NextTypeOK
       DEF vars, IInv, EntryOK, CallOK, Guarded, InFlight, ServerHonest, RowsHonest,
           CurrentSince
  <1>2. ASSUME NEW c \in Caller, Step(c), UNCHANGED <<now, snaps, source>>
        PROVE  IInv'
    <2>1. TypeOK'
      BY <1>2, StepTypeOK DEF IInv
    <2>2. CallOK(c)' /\ EntryOK' /\ (crossed' => "Spurious304" \in Faults)
      BY <1>2, StepIInv
    <2>3. \A d \in Caller : CallOK(d)'
      BY <1>2, <2>2, OtherCallOK
    <2>4. QED
      BY <2>1, <2>2, <2>3 DEF IInv
  <1>3. QED
    BY <1>1, <1>2, EnvironmentIInv DEF Next, ClientStep

\* The inductive invariant holds throughout.
THEOREM Invariance == Spec => []IInv
  BY InitIInv, NextIInv, PTL DEF Spec

-----------------------------------------------------------------------------
(* The properties. *)

\* The mutex belongs to the one thread that has a request in flight: no
\* error, timeout or panic of any thread leaks it or lets a second one in.
THEOREM OneRequestAtATimeHolds == Spec => []OneRequestAtATime
  <1>1. IInv => OneRequestAtATime
    BY DEF IInv, CallOK, Guarded, OneRequestAtATime
  <1>2. QED
    BY <1>1, Invariance, PTL

\* The ETag on the wire is the ETag in the cache.
THEOREM EtagStaysCachedHolds == Spec => []EtagStaysCached
  <1>1. IInv => EtagStaysCached
    BY DEF IInv, CallOK, Guarded, EtagStaysCached
  <1>2. QED
    BY <1>1, Invariance, PTL

\* However many threads queue for the mutex, none is handed a snapshot that
\* was out of date AgeCap before its call.
THEOREM RetainedAtMostCapHolds == Spec => []RetainedAtMostCap
  <1>1. IInv => RetainedAtMostCap
    BY DEF IInv, CallOK, RowsHonest, RetainedAtMostCap
  <1>2. QED
    BY <1>1, Invariance, PTL

-----------------------------------------------------------------------------
(* RustClient implements SnapshotService. *)

\* A step that moves call c moves its status, and no other.
LEMMA StatusMoves ==
  ASSUME TypeOK, NEW c \in Caller, NEW p, NEW o,
         pc' = [pc EXCEPT ![c] = p],
         outcome' = [outcome EXCEPT ![c] = o]
  PROVE  status' = [status EXCEPT ![c] = StatusOf(p, o)]
  <1>1. \A d \in Caller : /\ pc'[d] = IF d = c THEN p ELSE pc[d]
                          /\ outcome'[d] = IF d = c THEN o ELSE outcome[d]
    BY DEF TypeOK
  <1>2. \A d \in Caller :
          StatusOf(pc'[d], outcome'[d]) =
            IF d = c THEN StatusOf(p, o) ELSE StatusOf(pc[d], outcome[d])
    BY <1>1
  <1>3. /\ status' = [d \in Caller |-> StatusOf(pc'[d], outcome'[d])]
        /\ status = [d \in Caller |-> StatusOf(pc[d], outcome[d])]
    BY DEF status
  <1>4. QED
    BY <1>2, <1>3

LEMMA StatusStays ==
  ASSUME TypeOK, NEW c \in Caller, NEW p,
         pc' = [pc EXCEPT ![c] = p], UNCHANGED outcome
  PROVE  status' = [status EXCEPT ![c] = StatusOf(p, outcome[c])]
  <1>1. outcome' = [outcome EXCEPT ![c] = outcome[c]]
    BY DEF TypeOK
  <1>2. QED
    BY <1>1, StatusMoves

\* A step within a call is invisible to the caller.
LEMMA StaysActive ==
  ASSUME TypeOK, NEW c \in Caller, NEW p,
         pc[c] \notin {"idle", "done"}, p \notin {"idle", "done"},
         pc' = [pc EXCEPT ![c] = p], UNCHANGED outcome
  PROVE  UNCHANGED status
  <1>1. status[c] = "active" /\ StatusOf(p, outcome[c]) = "active"
    BY DEF status, StatusOf
  <1>2. status' = [status EXCEPT ![c] = StatusOf(p, outcome[c])]
    BY StatusStays
  <1>3. status = [d \in Caller |-> status[d]]
    BY DEF status
  <1>4. QED
    BY <1>1, <1>2, <1>3

LEMMA InitImplements == Init => Service!Init
  BY DEF Init, RustInit, ServerInit, Service!Init, Service!ServerInit, status, StatusOf

\* Every error, and an unwinding, is a failure of the service.
LEMMA FailImplements ==
  ASSUME TypeOK, NEW c \in Caller, NEW e \in Errors, Fail(c, e), pc[c] # "done",
         UNCHANGED <<now, snaps>>
  PROVE  Service!Next
  <1>1. status' = [status EXCEPT ![c] = "failed"]
    BY StatusMoves DEF Fail, StatusOf, Errors
  <1>2. status[c] \in {"idle", "active"}
    BY DEF status, StatusOf
  <1>3. Service!Fail(c)
    BY <1>1, <1>2 DEF Service!Fail, Fail, ForgetCall
  <1>4. QED
    BY <1>3 DEF Service!Next, Service!ServiceStep

\* Rows selected from a snapshot are rows the service may return.
LEMMA SelectionAcceptable ==
  ASSUME TypeOK, NEW c \in Caller, NEW v \in 1..Len(snaps)
  PROVE  Selection(v, filter[c], now) \subseteq Service!AcceptableRows(v)
  <1>1. filter[c].within \in 1..MaxWithin /\ filter[c].match \subseteq Proxy
    BY DEF TypeOK, FilterType
  <1>2. now \in Nat /\ ServerTypeOK
    BY DEF TypeOK, ServerTypeOK
  <1>3. ASSUME NEW q \in Proxy, Fresh(q, v, now, filter[c].within)
        PROVE  <<v, q>> \in Service!AcceptableRows(v)
    <2>1. snaps[v].gen \in Int /\ RowAge[q] \in Nat
      BY <1>2, SnapshotTimes, ServerAssumption
    <2>2. LastChecked(q, v) \in Int
      BY <2>1 DEF LastChecked
    <2>3. LastChecked(q, v) \in (now - MaxWithin)..(now + Future)
      BY <1>1, <1>2, <1>3, <2>2, ThreadAssumption, WindowAssumption DEF Fresh
    <2>4. QED
      BY <2>3 DEF Service!AcceptableRows, Service!LastChecked, LastChecked
  <1> SUFFICES ASSUME NEW row \in Selection(v, filter[c], now)
               PROVE  row \in Service!AcceptableRows(v)
    OBVIOUS
  <1>4. PICK q \in Proxy : row = <<v, q>> /\ Fresh(q, v, now, filter[c].within)
    BY <1>1 DEF Selection, Best
  <1> QED
    BY <1>3, <1>4

LEMMA SelectImplements ==
  ASSUME IInv, NEW c \in Caller, Select(c), UNCHANGED <<now, snaps>>
  PROVE  Service!Next
  <1>1. pc[c] = "selecting" /\ rows' = [rows EXCEPT ![c] = Selection(got[c], filter[c], now)]
        /\ UNCHANGED crossed
    BY DEF Select
  <1>2. got[c] \in 1..Len(snaps) /\ (~crossed => CurrentSince(got[c], start[c] - AgeCap))
    BY <1>1 DEF IInv, CallOK, RowsHonest
  <1>3. Selection(got[c], filter[c], now) \in SUBSET Service!AcceptableRows(got[c])
    BY <1>2, SelectionAcceptable DEF IInv
  <1>4. got[c] \in 1..Service!Current
    BY <1>2 DEF Service!Current
  <1>5. crossed \/ Service!CurrentSince(got[c], start[c] - AgeCap)
    BY <1>2 DEF CurrentSince, Service!CurrentSince
  <1>6. status[c] = "active"
    BY <1>1 DEF status, StatusOf
  <1>7. status' = [status EXCEPT ![c] = "succeeded"]
    BY StatusMoves DEF Select, StatusOf, IInv
  <1>8. start' = [start EXCEPT ![c] = 0]
    BY DEF Select, ForgetCall
  <1>9. Service!Succeed(c)
    BY <1>1, <1>3, <1>4, <1>5, <1>6, <1>7, <1>8 DEF Service!Succeed
  <1>10. QED
    BY <1>9 DEF Service!Next, Service!ServiceStep

\* rows() hands a snapshot over: nothing happens to the caller yet, but a 304
\* to an unconditional request may void the promise.
LEMMA DeliverImplements ==
  ASSUME IInv, NEW c \in Caller, NEW v, Deliver(c, v), pc[c] \notin {"idle", "done"},
         UNCHANGED <<now, snaps>>,
         UNCHANGED crossed \/ (crossed' = TRUE /\ "Spurious304" \in Faults)
  PROVE  Service!Next \/ UNCHANGED Service!vars
  <1>1. UNCHANGED status /\ UNCHANGED <<start, rows>>
    BY StaysActive DEF IInv, Deliver
  <1>2. CASE UNCHANGED crossed
    BY <1>1, <1>2 DEF Service!vars, Service!callVars
  <1>3. CASE crossed' = TRUE /\ "Spurious304" \in Faults
    BY <1>1, <1>3 DEF Service!Next, Service!ServiceStep, Service!Void
  <1>4. QED
    BY <1>2, <1>3

LEMMA StepImplements ==
  ASSUME IInv, IInv', NEW c \in Caller, Step(c), UNCHANGED <<now, snaps, source>>
  PROVE  Service!Next \/ UNCHANGED Service!vars
  <1> USE DEF Errors
  <1>0. TypeOK
    BY DEF IInv
  <1>1. CASE RejectFilters(c)
    BY <1>0, <1>1, FailImplements DEF RejectFilters
  <1>2. ASSUME NEW f \in Filters, ReadClock(c, f)
        PROVE  Service!Next
    <2>1. status[c] = "idle"
      BY <1>2 DEF ReadClock, status, StatusOf
    <2>2. status' = [status EXCEPT ![c] = "active"]
      <3>1. status' = [status EXCEPT ![c] = StatusOf("locking", outcome[c])]
        BY <1>0, <1>2, StatusStays DEF ReadClock
      <3>2. QED
        BY <3>1 DEF StatusOf
    <2>3. Service!Begin(c)
      BY <1>2, <2>1, <2>2 DEF ReadClock, Service!Begin
    <2>4. QED
      BY <2>3 DEF Service!Next, Service!ServiceStep
  <1>3. CASE Poison(c)
    BY <1>0, <1>3, FailImplements DEF Poison
  <1>4. CASE Hit(c)
    <2>1. pc[c] = "locking"
      BY <1>4 DEF Hit, Acquires
    <2>2. CASE Deliver(c, cache.ver) /\ UNCHANGED crossed
      BY <2>1, <2>2, DeliverImplements
    <2>3. CASE Fail(c, "SnapshotValidation")
      BY <1>0, <2>1, <2>3, FailImplements
    <2>4. QED
      BY <1>4, <2>2, <2>3 DEF Hit
  <1>5. CASE Request(c)
    <2>1. UNCHANGED status
      BY <1>0, <1>5, StaysActive DEF Request, Acquires
    <2>2. QED
      BY <1>5, <2>1 DEF Request, Service!vars, Service!callVars
  <1>6. CASE Answer(c)
    <2>1. UNCHANGED status
      BY <1>0, <1>6, StaysActive DEF Answer
    <2>2. QED
      BY <1>6, <2>1 DEF Answer, Service!vars, Service!callVars
  <1>7. CASE TransportTimesOut(c) \/ TransportPanics(c)
    BY <1>0, <1>7, FailImplements DEF TransportTimesOut, TimedOut, TransportPanics
  <1>8. CASE Unsuccessful(c) \/ BadBody(c)
    BY <1>0, <1>8, FailImplements DEF Unsuccessful, BadBody, NoJson, BadEnvelope, BadRow
  <1>9. CASE NotModified(c)
    <2>1. CASE cache.ver = 0 \/ ~GeneratedAtOk(cache.ver, start[c])
      BY <1>0, <1>9, <2>1, FailImplements DEF NotModified
    <2>2. CASE cache.ver # 0 /\ GeneratedAtOk(cache.ver, start[c])
      <3>1. /\ pc[c] = "answered" /\ Deliver(c, cache.ver)
            /\ crossed' = (crossed \/ resp[c].ver # cache.ver)
        BY <1>9, <2>2 DEF NotModified
      <3>2. UNCHANGED crossed \/ (crossed' = TRUE /\ "Spurious304" \in Faults)
        <4>1. crossed' \in BOOLEAN /\ crossed \in BOOLEAN
          BY DEF IInv, TypeOK
        <4>2. crossed' => "Spurious304" \in Faults
          BY DEF IInv
        <4>3. QED
          BY <3>1, <4>1, <4>2
      <3>3. QED
        BY <3>1, <3>2, DeliverImplements
    <2>3. QED
      BY <2>1, <2>2
  <1>10. CASE GoodBody(c)
    <2>1. pc[c] = "answered"
      BY <1>10 DEF GoodBody
    <2>2. CASE Deliver(c, resp[c].ver) /\ UNCHANGED crossed
      BY <2>1, <2>2, DeliverImplements
    <2>3. CASE Fail(c, "SnapshotValidation")
      BY <1>0, <2>1, <2>3, FailImplements
    <2>4. QED
      BY <1>10, <2>2, <2>3 DEF GoodBody
  <1>11. CASE Select(c)
    BY <1>11, SelectImplements
  <1>12. CASE Return(c)
    <2>1. /\ pc[c] = "done" /\ outcome' = [outcome EXCEPT ![c] = "none"]
          /\ pc' = [pc EXCEPT ![c] = "idle"]
      BY <1>12 DEF Return
    <2>2. status[c] \in {"succeeded", "failed"}
      BY <2>1 DEF status, StatusOf
    <2>3. status' = [status EXCEPT ![c] = "idle"]
      BY <1>0, <2>1, StatusMoves DEF StatusOf
    <2>4. Service!Return(c)
      BY <1>12, <2>2, <2>3 DEF Return, Service!Return
    <2>5. QED
      BY <1>12, <2>4 DEF Service!Next, Service!ServiceStep
  <1>13. QED
    BY <1>1, <1>2, <1>3, <1>4, <1>5, <1>6, <1>7, <1>8, <1>9, <1>10, <1>11, <1>12 DEF Step

LEMMA NextImplements == IInv /\ IInv' /\ [Next]_vars => [Service!Next]_(Service!vars)
  <1> SUFFICES ASSUME IInv, IInv', [Next]_vars
               PROVE  Service!Next \/ UNCHANGED Service!vars
    OBVIOUS
  <1>1. ASSUME UNCHANGED vars PROVE UNCHANGED Service!vars
    BY <1>1 DEF vars, Service!vars, Service!callVars, status
  <1>2. ASSUME NEW c \in Caller, Step(c), UNCHANGED <<now, snaps, source>>
        PROVE  Service!Next \/ UNCHANGED Service!vars
    BY <1>2, StepImplements
  <1>3. CASE Environment
    <2>1. UNCHANGED <<status, start, rows, crossed>>
      BY <1>3 DEF Environment, status
    <2>2. Service!Publish \/ Service!Tick
      BY <1>3 DEF Environment, Publish, Tick, Service!Publish, Service!Tick,
                  Current, Service!Current
    <2>3. QED
      BY <2>1, <2>2 DEF Service!Next, Service!callVars
  <1>4. QED
    BY <1>1, <1>2, <1>3 DEF Next, ClientStep

\* The Rust client is a caching service: mutex, cache, ETags and the three
\* ways rows() returns are invisible to its callers, for any number of them.
THEOREM ImplementsServiceHolds == Spec => ImplementsService
  <1>1. Init => Service!Init
    BY InitImplements
  <1>2. IInv /\ IInv' /\ [Next]_vars => [Service!Next]_(Service!vars)
    BY NextImplements
  <1>3. QED
    BY <1>1, <1>2, Invariance, PTL DEF Spec, ImplementsService, Service!Spec
=============================================================================
