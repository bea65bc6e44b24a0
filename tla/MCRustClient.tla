---------------------------- MODULE MCRustClient ----------------------------
(* A small instance of RustClient: time in units of 5 s or more. *)
EXTENDS RustClient, TLC

Threads == Permutations(Caller)

\* Row 1 ranks first and ages out first.
MCRowAge == [p \in Proxy |-> IF p = 1 THEN 1 ELSE 0]

\* The default filter with a limit, and one that is rejected.
MCFilters ==
  {[within |-> Absent, limit |-> 1, match |-> Proxy],
   [within |-> 0, limit |-> Absent, match |-> Proxy]}
=============================================================================
