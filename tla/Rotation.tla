------------------------------ MODULE Rotation ------------------------------
(***************************************************************************)
(* Rotating over the proxies of one call of getProxies.  Two designs:      *)
(*   "skip"   (JavaScript, Go, Rust) next() looks at every member at most  *)
(*            once, by one reading of the clock, skipping the stale ones;  *)
(*   "remove" (Python) a generator looks at one member at a time, reads    *)
(*            the clock twice for each, and removes the stale ones.        *)
(* A member is its position in the initial ranking; next() of one rotation *)
(* is called by one thread.                                                *)
(***************************************************************************)
EXTENDS Integers, Sequences, SequencesExt, FiniteSetsExt

CONSTANTS
  Designs,    \* a subset of {"skip", "remove"}
  Future,     \* lastChecked may lie this far in the future (5 s)
  Within,     \* checkedWithinMin of the rotation's filters
  MaxMembers, \* bound: members of a rotation
  MaxCalls,   \* bound: calls of next()
  MaxTime     \* bound: the clock stops here

ASSUME RotationAssumption ==
  /\ Designs \subseteq {"skip", "remove"}
  /\ Future \in Nat /\ Within \in Nat
  /\ MaxMembers \in Nat /\ MaxCalls \in Nat /\ MaxTime \in Nat

VARIABLES
  design,  \* which of the two
  now,     \* the clock
  checked, \* checked[m]: lastChecked of member m
  rows,    \* the members still in the rotation, in order
  index,   \* the index, which only grows
  cutoff,  \* a generator that runs: the cutoff it has read, or Unread
  running, \* the generator has been resumed and has not yielded yet
  ended,   \* the last call found no member
  calls,   \* how often next() was called
  waiting, \* history: deliveries of others since member m was delivered
  turns    \* history: turns[m][x], those of them that delivered x

history == <<waiting, turns>>
vars ==
  <<design, now, checked, rows, index, cutoff, running, ended, calls, history>>

Members == DOMAIN checked

\* No cutoff is ever above the clock.
Unread == MaxTime + 1

\* lastChecked lies between a cutoff and the tolerance of the clock.
InWindow(m, low, high) == low <= checked[m] /\ checked[m] <= high + Future
Fresh(m) == InWindow(m, now - Within, now)

\* A rotation starts with the rows getProxies returned: all fresh.
Init ==
  /\ design \in Designs
  /\ now = 0
  /\ \E n \in 0..MaxMembers :
       /\ checked \in [1..n -> (0 - Within)..Future]
       /\ rows = [i \in 1..n |-> i]
       /\ waiting = [m \in 1..n |-> 0]
       /\ turns = [m \in 1..n |-> [x \in 1..n |-> 0]]
  /\ index = 0
  /\ cutoff = Unread
  /\ running = FALSE
  /\ ended = FALSE
  /\ calls = 0

\* The member k places behind the index.
At(k) == rows[((index + k) % Len(rows)) + 1]

SlipOncePerCall(k) == index' = index + 1

\* The index moves behind the member that was looked at last.
Advance(k) == index' = index + k + 1

\* next() returns member m.
Deliver(m) ==
  /\ waiting' = [i \in Members |-> IF i = m THEN 0 ELSE waiting[i] + 1]
  /\ turns' = [i \in Members |->
                IF i = m THEN [x \in Members |-> 0] ELSE [turns[i] EXCEPT ![m] = @ + 1]]
  /\ ended' = FALSE

Nothing ==
  /\ ended' = TRUE
  /\ UNCHANGED history

SlipLooksOneShort == 0..(Len(rows) - 2)

\* The places next() looks at: each member once.
Places == 0..(Len(rows) - 1)

Call == calls < MaxCalls /\ calls' = calls + 1

\* next() of JavaScript, Go and Rust.
NextSkip ==
  /\ design = "skip"
  /\ Call
  /\ LET hits == {k \in Places : Fresh(At(k))} IN
       \/ hits # {} /\ Advance(Min(hits)) /\ Deliver(At(Min(hits)))
       \/ hits = {} /\ index' = index + Len(rows) /\ Nothing
  /\ UNCHANGED <<design, now, checked, rows, cutoff, running>>

\* The generator of Python is resumed; once it has returned it stays so.
Resume ==
  /\ design = "remove"
  /\ ~running /\ ~ended
  /\ Call
  /\ running' = TRUE
  /\ UNCHANGED <<design, now, checked, rows, index, cutoff, ended, history>>

\* The head of its loop: is a member left, and the first reading of the clock.
ReadCutoff ==
  /\ running /\ cutoff = Unread
  /\ \/ rows # <<>> /\ cutoff' = now - Within
        /\ UNCHANGED <<running, ended, history>>
     \/ rows = <<>> /\ Nothing /\ running' = FALSE /\ UNCHANGED cutoff
  /\ UNCHANGED <<design, now, checked, rows, index, calls>>

SlipRemovesFirst(m) == Tail(rows)
SlipSwapsLastIn(m) ==
  [i \in 1..(Len(rows) - 1) |-> IF rows[i] = m THEN Last(rows) ELSE rows[i]]

\* list.remove: the members behind m move up one place.
Without(m) == RemoveFirst(rows, m)

\* Its body: the upper end of the window is tested by a later clock.
Look ==
  /\ running /\ cutoff # Unread
  /\ Advance(0)
  /\ \/ InWindow(At(0), cutoff, now)
        /\ Deliver(At(0)) /\ running' = FALSE /\ UNCHANGED rows
     \/ ~InWindow(At(0), cutoff, now)
        /\ rows' = Without(At(0)) /\ UNCHANGED <<running, ended, history>>
  /\ cutoff' = Unread
  /\ UNCHANGED <<design, now, checked, calls>>

Tick ==
  /\ now < MaxTime
  /\ now' = now + 1
  /\ UNCHANGED <<design, checked, rows, index, cutoff, running, ended, calls,
                 history>>

Next == NextSkip \/ Resume \/ ReadCutoff \/ Look \/ Tick

Spec == Init /\ [][Next]_vars

-----------------------------------------------------------------------------
(* Properties.                                                             *)

\* Every variable keeps its type.  The rows are members of the first ranking
\* in its order: a removal neither repeats nor reorders them.
TypeOK ==
  /\ design \in Designs
  /\ now \in 0..MaxTime /\ index \in Nat /\ calls \in 0..MaxCalls
  /\ checked \in Seq(Int)
  /\ rows \in Seq(Members)
  /\ \A i, j \in DOMAIN rows : i < j => rows[i] < rows[j]
  /\ cutoff \in (0 - Within)..Unread
  /\ running \in BOOLEAN /\ ended \in BOOLEAN
  /\ waiting \in [Members -> Nat] /\ turns \in [Members -> [Members -> Nat]]

\* A rotation ends only when every member has aged out (Go's "ok is false
\* when no records remain"): no member that is still fresh is lost, whatever
\* was skipped, removed or passed over before.
EndsOnlyStale == ended => \A m \in Members : ~Fresh(m)

\* next() of the skipping design is the round robin its documentation calls
\* it: a member that is still fresh comes, for the first time or again, before
\* any other is returned twice.
OneRound ==
  design = "skip" =>
    \A m, x \in Members : Fresh(m) => turns[m][x] <= 1

\* The removing design is no round robin: the index is taken modulo the
\* members that are left, so each removal may set it back behind a member
\* that was about to come.  While k are left at most k - 2 others come before
\* the next removal, or k - 1 if there is none: a fresh member is passed over
\* at most that often in all.
MostOthers(n) == 1 + ((n - 1) * (n - 2)) \div 2
NotStarved ==
  design = "remove" =>
    \A m \in Members : Fresh(m) => waiting[m] <= MostOthers(Len(checked))
=============================================================================
