-------------------------- MODULE SnapshotService --------------------------
(***************************************************************************)
(* What a caching client promises its callers, without the cache: a call   *)
(* that succeeds returns acceptable rows of a snapshot that was current    *)
(* at most AgeCap before the call began.  The promise is void once a 304   *)
(* has been taken for the confirmation of a snapshot that it is not about. *)
(***************************************************************************)
EXTENDS SnapshotServer

CONSTANTS
  Caller,
  MaxWithin,
  Voidable \* can a 304 be about another snapshot than the cached one?

VARIABLES
  status, \* where each call is, as its caller sees it
  since,  \* when it began
  given,  \* the rows it returned, each of a snapshot: <<v, p>>
  void    \* a 304 was about another snapshot than the cached one

callVars == <<status, since, given, void>>
vars == <<now, snaps, callVars>>

Init ==
  /\ ServerInit
  /\ status = [c \in Caller |-> "idle"]
  /\ since = [c \in Caller |-> 0]
  /\ given = [c \in Caller |-> {}]
  /\ void = FALSE

Begin(c) ==
  /\ status[c] = "idle"
  /\ status' = [status EXCEPT ![c] = "active"]
  /\ since' = [since EXCEPT ![c] = now]
  /\ UNCHANGED <<given, void>>

AcceptableRows(v) ==
  {v} \X {p \in Proxy : LastChecked(p, v) \in (now - MaxWithin)..(now + Future)}

Succeed(c) ==
  /\ status[c] = "active"
  /\ \E v \in 1..Current :
       /\ void \/ CurrentSince(v, since[c] - AgeCap)
       /\ \E R \in SUBSET AcceptableRows(v) : given' = [given EXCEPT ![c] = R]
  /\ status' = [status EXCEPT ![c] = "succeeded"]
  /\ since' = [since EXCEPT ![c] = 0]
  /\ UNCHANGED void

\* A call may fail at any time, even before it did anything.
Fail(c) ==
  /\ status[c] \in {"idle", "active"}
  /\ status' = [status EXCEPT ![c] = "failed"]
  /\ since' = [since EXCEPT ![c] = 0]
  /\ UNCHANGED <<given, void>>

Return(c) ==
  /\ status[c] \in {"succeeded", "failed"}
  /\ status' = [status EXCEPT ![c] = "idle"]
  /\ given' = [given EXCEPT ![c] = {}]
  /\ UNCHANGED <<since, void>>

Void ==
  /\ Voidable
  /\ void' = TRUE
  /\ UNCHANGED <<status, since, given>>

ServiceStep ==
  /\ Void \/ \E c \in Caller : Begin(c) \/ Succeed(c) \/ Fail(c) \/ Return(c)
  /\ UNCHANGED <<now, snaps>>

Next ==
  \/ ServiceStep
  \/ (Publish \/ Tick) /\ UNCHANGED callVars

Spec == Init /\ [][Next]_vars
=============================================================================
