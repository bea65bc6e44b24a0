------------------------ MODULE SnapshotServerProofs ------------------------
(***************************************************************************)
(* Facts about the environment that the proofs about every client use.     *)
(***************************************************************************)
EXTENDS SnapshotServer, TLAPS

LEMMA AnswersType ==
  ASSUME ServerTypeOK, NEW tag \in Nat, NEW r \in Answers(tag)
  PROVE  r \in Response
  <1>1. Current \in Nat
    BY DEF ServerTypeOK, Current
  <1>2. NoResponse \in Response
    BY DEF NoResponse, Response, Status
  <1>3. MaxAges \subseteq Nat \cup {Absent}
    BY ServerAssumption
  <1>4. QED
    BY <1>1, <1>2, <1>3 DEF Answers, Response, Status, NoResponse

LEMMA SnapshotTimes ==
  ASSUME ServerTypeOK, NEW v \in 1..Len(snaps)
  PROVE  snaps[v].pub \in Nat /\ snaps[v].gen \in Int
  <1>1. snaps[v] \in Snapshot
    BY DEF ServerTypeOK
  <1>2. QED
    BY <1>1 DEF Snapshot

\* A publication adds one snapshot, published now, behind the others.
LEMMA PublishAppends ==
  ASSUME ServerTypeOK, Publish
  PROVE  /\ now' = now
         /\ Len(snaps) \in Nat /\ Len(snaps') = Len(snaps) + 1
         /\ \A v \in 1..Len(snaps) : snaps'[v] = snaps[v]
         /\ snaps'[Len(snaps) + 1].pub = now
  <1>1. PICK lag \in Lags : snaps' = Append(snaps, [gen |-> now - lag, pub |-> now])
    BY DEF Publish
  <1>2. [gen |-> now - lag, pub |-> now] \in Snapshot
    BY ServerAssumption DEF ServerTypeOK, Snapshot
  <1>3. QED
    BY <1>1, <1>2 DEF ServerTypeOK, Publish

\* The publication of another snapshot does not make v current later.
LEMMA PublishKeepsCurrentSince ==
  ASSUME ServerTypeOK, Publish, NEW v \in Nat, NEW t \in Int, t <= now,
         CurrentSince(v, t)
  PROVE  CurrentSince(v, t)'
  BY DEF ServerTypeOK, Publish, CurrentSince, Snapshot, Current

LEMMA CurrentSinceEarlier ==
  ASSUME ServerTypeOK, NEW v \in Nat, NEW t \in Int, NEW u \in Int, u <= t,
         CurrentSince(v, t)
  PROVE  CurrentSince(v, u)
  <1>1. ASSUME v < Len(snaps) PROVE snaps[v + 1].pub \in Nat
    <2>1. v + 1 \in 1..Len(snaps) /\ Len(snaps) \in Nat
      BY <1>1 DEF ServerTypeOK, CurrentSince
    <2>2. QED
      BY <2>1, SnapshotTimes
  <1>2. QED
    BY <1>1 DEF CurrentSince

\* Neither a publication nor the passing of time moves what was current.
LEMMA EnvironmentKeepsCurrentSince ==
  ASSUME ServerTypeOK, Publish \/ Tick, NEW v \in Nat, NEW t \in Int, t <= now,
         CurrentSince(v, t)
  PROVE  CurrentSince(v, t)'
  <1>1. CASE Publish
    BY <1>1, PublishKeepsCurrentSince
  <1>2. CASE Tick
    BY <1>2 DEF Tick, CurrentSince
  <1>3. QED
    BY <1>1, <1>2

\* The clock does not go back and no snapshot is withdrawn or changed.
LEMMA EnvironmentGrows ==
  ASSUME ServerTypeOK, Publish \/ Tick
  PROVE  /\ now \in Nat /\ now' \in Nat /\ now <= now'
         /\ Len(snaps) \in Nat /\ Len(snaps') \in Nat /\ Len(snaps) <= Len(snaps')
         /\ \A v \in 1..Len(snaps) : snaps'[v] = snaps[v]
  <1>1. CASE Publish
    BY <1>1, PublishAppends DEF ServerTypeOK
  <1>2. CASE Tick
    BY <1>2 DEF Tick, ServerTypeOK
  <1>3. QED
    BY <1>1, <1>2

LEMMA EnvironmentServerTypeOK ==
  ASSUME ServerTypeOK, Publish \/ Tick
  PROVE  ServerTypeOK'
  <1>1. CASE Publish
    <2>1. PICK lag \in Lags : snaps' = Append(snaps, [gen |-> now - lag, pub |-> now])
      BY <1>1 DEF Publish
    <2>2. [gen |-> now - lag, pub |-> now] \in Snapshot
      BY ServerAssumption DEF ServerTypeOK, Snapshot
    <2>3. QED
      BY <1>1, <2>1, <2>2 DEF ServerTypeOK, Publish
  <1>2. CASE Tick
    BY <1>2 DEF Tick, ServerTypeOK
  <1>3. QED
    BY <1>1, <1>2
=============================================================================
