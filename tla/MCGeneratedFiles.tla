-------------------------- MODULE MCGeneratedFiles --------------------------
(* The generated files alone, for TLC.                                     *)
EXTENDS GeneratedFiles

Spec == FilesInit /\ [][FilesNext]_fileVars
=============================================================================
