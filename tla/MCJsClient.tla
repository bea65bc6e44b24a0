----------------------------- MODULE MCJsClient -----------------------------
(* Small instances of JsClient: time in units of 5 s or more. *)
EXTENDS JsClient, TLC

\* Row 1 ranks first and ages out first.
MCRowAge == [p \in Proxy |-> IF p = 1 THEN 1 ELSE 0]

\* The default filter, and one that is rejected.
MCFilters ==
  {[within |-> Absent, limit |-> Absent, match |-> Proxy],
   [within |-> 0, limit |-> Absent, match |-> Proxy]}

CallerSymmetry == Permutations(Caller)
=============================================================================
