--------------------------- MODULE SnapshotServer ---------------------------
(***************************************************************************)
(* What the clients of free-proxy-sdk see of the outside world: the wall   *)
(* clock, the endpoint that publishes numbered snapshots and answers       *)
(* conditional GETs, and the ways an exchange can go wrong.  Nothing here  *)
(* is code of the SDK; it is the environment as the clients use it.        *)
(*                                                                         *)
(* A snapshot is its number, which is also its ETag; 0 stands for "no      *)
(* snapshot" and for "no ETag header".  A row is a proxy: smaller numbers  *)
(* rank first, and row p of snapshot v was last checked RowAge[p] before v *)
(* was generated.                                                          *)
(***************************************************************************)
EXTENDS Integers, Sequences, FiniteSets

CONSTANTS
  Future,       \* a timestamp may lie this far in the future (5 s)
  Timeout,      \* the request timeout (10 s)
  AgeCap,       \* longest retention of a snapshot, and the default (60 s)
  Past,         \* oldest acceptable generatedAt (120 s)
  MaxTime,      \* bound: the clock stops here
  MaxSnapshots, \* bound: snapshots published
  Lags,         \* delays between generating and publishing a snapshot
  MaxAges,      \* max-age values the endpoint sends; Absent: no such header
  Faults,       \* the faults that can happen
  Absent,       \* a missing header or option
  Proxy,        \* the rows of a snapshot, in rank order
  RowAge        \* RowAge[p]: age of row p when its snapshot was generated

\* 5 s < 10 s < 60 s < 120 s in every client.
ASSUME WindowAssumption ==
  /\ Future \in Nat /\ Timeout \in Nat /\ AgeCap \in Nat /\ Past \in Nat
  /\ Future < Timeout /\ Timeout < AgeCap /\ AgeCap < Past

ASSUME ServerAssumption ==
  /\ MaxTime \in Nat /\ MaxSnapshots \in Nat
  /\ Lags \subseteq Nat
  /\ Absent \notin Int
  /\ MaxAges \subseteq Nat \cup {Absent}
  /\ Proxy \subseteq Nat
  /\ RowAge \in [Proxy -> Nat]

VARIABLES
  now,   \* the wall clock
  snaps  \* snaps[v]: when snapshot v was generated and published

Snapshot == [gen : Int, pub : Nat]

Current == Len(snaps)

\* The status of a response; "refused" stands for 429 and every other status
\* outside 200..299, "broken" for a transport that rejects.
Status == {"200", "304", "refused", "broken"}

Response == [status : Status, ver : Nat, etag : Nat, maxAge : Nat \cup {Absent}]

\* Nothing received yet.
NoResponse == [status |-> "broken", ver |-> 0, etag |-> 0, maxAge |-> Absent]

(***************************************************************************)
(* The answers to a GET that carries If-None-Match: tag (0: none).  A 304  *)
(* confirms the current snapshot.  "Spurious304" is an intermediary that   *)
(* answers 304 to an unconditional GET, "NoTag" one that strips ETags.     *)
(***************************************************************************)
Answers(tag) ==
  {[status |-> IF tag = Current THEN "304" ELSE "200", ver |-> Current,
    etag |-> Current, maxAge |-> m] : m \in MaxAges}
  \cup
  {[status |-> "200", ver |-> Current, etag |-> 0, maxAge |-> m] :
     m \in IF "NoTag" \in Faults THEN MaxAges ELSE {}}
  \cup
  {[status |-> "304", ver |-> 0, etag |-> 0, maxAge |-> m] :
     m \in IF "Spurious304" \in Faults /\ tag = 0 THEN MaxAges ELSE {}}
  \cup
  {[NoResponse EXCEPT !.status = s] : s \in Faults \cap {"refused", "broken"}}

(***************************************************************************)
(* Snapshot v was the current one at some instant not before t.            *)
(***************************************************************************)
CurrentSince(v, t) ==
  /\ v \in 1..Len(snaps)
  /\ v < Len(snaps) => snaps[v + 1].pub >= t

LastChecked(p, v) == snaps[v].gen - RowAge[p]

ServerInit ==
  /\ now = 0
  /\ \E lag \in Lags : snaps = <<[gen |-> 0 - lag, pub |-> 0]>>

Publish ==
  /\ Current < MaxSnapshots
  /\ \E lag \in Lags : snaps' = Append(snaps, [gen |-> now - lag, pub |-> now])
  /\ UNCHANGED now

Tick ==
  /\ now < MaxTime
  /\ now' = now + 1
  /\ UNCHANGED snaps

ServerTypeOK ==
  /\ now \in Nat
  /\ snaps \in Seq(Snapshot)
  /\ Len(snaps) >= 1

=============================================================================
