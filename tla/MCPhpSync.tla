----------------------------- MODULE MCPhpSync -----------------------------
(* Two overlapping runs, started four times in all. *)
EXTENDS PhpSync, TLC

JobSymmetry == Permutations(Job)
TreeSymmetry == Permutations(Tree)
Symmetry == JobSymmetry \cup TreeSymmetry
=============================================================================
