----------------------------- MODULE MCThreads -----------------------------
(* Small instances of GoClient and PyClient.                               *)
EXTENDS GoClient, PyClient, TLC

VARIABLE design

Init == design \in {"go", "python"} /\ ServerInit /\ ThreadInit

Next ==
  /\ UNCHANGED design
  /\ \/ design = "go" /\ GoNext
     \/ design = "python" /\ PyNext

Spec == Init /\ [][Next]_<<design, vars>>

MCRowAge == [p \in Proxy |-> 0]
ThreadSymmetry == Permutations(Thread)
=============================================================================
