------------------------------- MODULE Tools -------------------------------
(***************************************************************************)
(* The tools beside the clients: three kinds of scripts and the command.   *)
(* They share no state, so they are looked at one at a time.               *)
(***************************************************************************)
EXTENDS SyncReadmes, GeneratedFiles, Distribution, Cli

VARIABLE tool  \* the tool that is looked at

toolVars == <<tool, readmeVars, fileVars, distVars, cliVars>>

Init ==
  /\ tool \in {"sync-readmes", "generated files", "prepare-distribution", "cli"}
  /\ ReadmesInit /\ FilesInit /\ CliInit
  /\ DistInit
  /\ tool # "prepare-distribution" => source = [f \in SourceFiles |-> Undefined]

Next ==
  /\ UNCHANGED tool
  /\ \/ tool = "sync-readmes" /\ ReadmesNext /\ UNCHANGED <<fileVars, distVars, cliVars>>
     \/ tool = "generated files" /\ FilesNext /\ UNCHANGED <<readmeVars, distVars, cliVars>>
     \/ tool = "prepare-distribution" /\ DistNext /\ UNCHANGED <<readmeVars, fileVars, cliVars>>
     \/ tool = "cli" /\ CliNext /\ UNCHANGED <<readmeVars, fileVars, distVars>>

Spec == Init /\ [][Next]_toolVars

\* The state of every tool is well formed.
ToolsTypeOK == ReadmesTypeOK /\ FilesTypeOK /\ DistTypeOK /\ CliTypeOK
=============================================================================
