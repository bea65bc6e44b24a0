--------------------------- MODULE GeneratedFiles ---------------------------
(***************************************************************************)
(* The generated code of a checkout and the scripts that make it:          *)
(* generate-fields.mjs, build-jsr.mjs and build-js.mjs.  build-jsr reads   *)
(* a file that generate-fields writes; each script writes its targets one  *)
(* by one; one person edits the sources, runs the scripts in any order,    *)
(* with or without --check, and may kill them.  Continuous integration     *)
(* judges a clean checkout of what was committed, which may be any of the  *)
(* mixtures that come about.                                               *)
(***************************************************************************)
EXTENDS Integers, Sequences, SequencesExt

CONSTANT MaxSourceEdits  \* bound: edits of sources

ASSUME EditsAssumption == MaxSourceEdits \in Nat

VARIABLES
  file,   \* file[f]: the content of file f
  script, \* the script that runs or ran last
  check,  \* it was given --check
  phase,  \* "running", or how the last run ended
  done,   \* the targets it has dealt with
  input,  \* the files as it read them before its first target
  stale,  \* a target was out of date
  sourceEdits,
  quiet,  \* history: nothing was edited since the run began
  wrote   \* history: the run has written to a target

fileVars == <<file, script, check, phase, done, input, stale, sourceEdits, quiet, wrote>>

Tables == {"fields.generated.js", "fields.generated.cjs", "fields_generated.py"}
JsrFiles == {"jsr/mod.js", "jsr/fields.generated.js", "jsr/mod.d.ts"}
Sources == {"fields.json", "index.cjs", "cli.cjs", "index.d.ts"}

Targets ==
  [generate_fields |-> <<"fields.generated.js", "fields.generated.cjs", "fields_generated.py">>,
   build_jsr |-> <<"jsr/mod.js", "jsr/fields.generated.js", "jsr/mod.d.ts">>,
   build_js |-> <<"dist/index.cjs", "dist/fields.generated.cjs", "dist/cli.cjs",
                  "dist/index.d.ts", "dist/index.js">>]

Scripts == DOMAIN Targets

\* What the script reads before its first target.
Inputs ==
  [generate_fields |-> {"fields.json"},
   build_jsr |-> {"index.cjs", "fields.generated.js", "index.d.ts"},
   build_js |-> {}]

DistFiles == ToSet(Targets.build_js)
Derived == Tables \cup JsrFiles \cup DistFiles
Files == Sources \cup Derived

\* The file that a target is made from.
Origin(f) ==
  CASE f \in Tables -> "fields.json"
    [] f \in {"jsr/mod.js", "dist/index.cjs"} -> "index.cjs"
    [] f = "jsr/fields.generated.js" -> "fields.generated.js"
    [] f = "dist/fields.generated.cjs" -> "fields.generated.cjs"
    [] f = "dist/cli.cjs" -> "cli.cjs"
    [] f \in {"jsr/mod.d.ts", "dist/index.d.ts"} -> "index.d.ts"

(***************************************************************************)
(* A file holds a version of a source in some form.  "odd" is a source     *)
(* that build-jsr refuses: a line that it rewrites is not there exactly    *)
(* once, or CommonJS syntax would be left over.                            *)
(***************************************************************************)
Content ==
  [form : {"source", "odd", "esm", "wrapper"} \cup Tables, version : 0..MaxSourceEdits]
Nothing == [form |-> "nothing", version |-> 0]  \* missing, or truncated

\* What is made of the origin's content c.
Made(f, c) ==
  CASE f \in Tables -> [c EXCEPT !.form = f]
    [] f = "jsr/mod.js" /\ c.form = "source" -> [c EXCEPT !.form = "esm"]
    [] f = "dist/index.js" -> [form |-> "wrapper", version |-> 0]
    [] OTHER -> c  \* copied

-----------------------------------------------------------------------------
\* Exactly one of each line to rewrite, no CommonJS left over.
Acceptable(s, read) == \A f \in Inputs[s] : read[f].form # "odd"

SlipComparesWithSpec(s, f, read, now) ==
  IF f = "dist/index.js" THEN Made(f, Nothing)
  ELSE IF f = "jsr/fields.generated.js" THEN Made("fields.generated.js", now["fields.json"])
  ELSE Made(f, IF Origin(f) \in Inputs[s] THEN read[Origin(f)] ELSE now[Origin(f)])

\* What script s wants in target f, given what it read and what is there now.
Wanted(s, f, read, now) ==
  IF f = "dist/index.js" THEN Made(f, Nothing)
  ELSE Made(f, IF Origin(f) \in Inputs[s] THEN read[Origin(f)] ELSE now[Origin(f)])

Read(s, files) == [f \in Inputs[s] |-> files[f]]

\* Script s --check succeeds in a clean checkout of these files.
CheckPasses(s, files) ==
  /\ Acceptable(s, Read(s, files))
  /\ \A f \in ToSet(Targets[s]) : Wanted(s, f, Read(s, files), files) = files[f]

\* The checkout after script s has run to its end.
After(s, files) ==
  [f \in Files |->
     IF f \in ToSet(Targets[s]) THEN Wanted(s, f, Read(s, files), files) ELSE files[f]]

\* distribution-ci.yml, job jsr: build-jsr, then test-jsr, which runs
\* build-jsr --check and imports mod.js, which needs the table of fields.
DistributionCiPasses(files) ==
  LET built == After("build_jsr", files)
  IN  /\ Acceptable("build_jsr", Read("build_jsr", files))
      /\ CheckPasses("build_jsr", built)
      /\ built["jsr/fields.generated.js"] # Nothing

-----------------------------------------------------------------------------
\* dist/ is not committed.
FilesInit ==
  /\ file = [f \in Files |->
       IF f \in Sources THEN [form |-> "source", version |-> 0]
       ELSE IF f \in DistFiles THEN Nothing
       ELSE IF f = "jsr/fields.generated.js" THEN [form |-> "fields.generated.js", version |-> 0]
       ELSE Made(f, [form |-> "source", version |-> 0])]
  /\ script = "generate_fields"
  /\ check = TRUE
  /\ phase = "idle"
  /\ done = 0
  /\ input = <<>>
  /\ stale = FALSE
  /\ sourceEdits = 0
  /\ quiet = FALSE
  /\ wrote = FALSE

EditSource(f) ==
  /\ sourceEdits < MaxSourceEdits
  /\ sourceEdits' = sourceEdits + 1
  /\ \E form \in IF f \in Inputs.build_jsr THEN {"source", "odd"} ELSE {"source"} :
       file' = [file EXCEPT ![f] = [form |-> form, version |-> sourceEdits + 1]]
  /\ quiet' = FALSE
  /\ UNCHANGED <<script, check, phase, done, input, stale, wrote>>

\* build-js knows no --check.
BeginScript(s, verify) ==
  /\ phase # "running"
  /\ verify => s # "build_js"
  /\ script' = s
  /\ check' = verify
  /\ phase' = IF Acceptable(s, Read(s, file)) THEN "running" ELSE "refused"
  /\ done' = 0
  /\ input' = Read(s, file)
  /\ stale' = FALSE
  /\ quiet' = TRUE
  /\ wrote' = FALSE
  /\ UNCHANGED <<file, sourceEdits>>

AtTarget == phase = "running" /\ done < Len(Targets[script])
Target == Targets[script][done + 1]
Want == Wanted(script, Target, input, file)

\* Compare a target with what it should be and write it; build-js copies
\* without comparing.
DealWithTarget ==
  /\ AtTarget
  /\ done' = done + 1
  /\ stale' = (stale \/ Want # file[Target])
  /\ IF check \/ Want = file[Target]
     THEN UNCHANGED <<file, wrote>>
     ELSE file' = [file EXCEPT ![Target] = Want] /\ wrote' = TRUE
  /\ UNCHANGED <<script, check, phase, input, sourceEdits, quiet>>

FinishScript ==
  /\ phase = "running" /\ done = Len(Targets[script])
  /\ phase' = IF check /\ stale THEN "stale" ELSE "ok"
  /\ UNCHANGED <<file, script, check, done, input, stale, sourceEdits, quiet, wrote>>

\* Killed between two targets, or with the target truncated.
KillScript ==
  /\ phase = "running"
  /\ phase' = "killed"
  /\ \/ UNCHANGED <<file, wrote>>
     \/ /\ AtTarget /\ ~check /\ (Want # file[Target] \/ script = "build_js")
        /\ file' = [file EXCEPT ![Target] = Nothing]
        /\ wrote' = TRUE
  /\ UNCHANGED <<script, check, done, input, stale, sourceEdits, quiet>>

FilesNext ==
  \/ \E f \in Sources : EditSource(f)
  \/ \E s \in Scripts, verify \in BOOLEAN : BeginScript(s, verify)
  \/ DealWithTarget \/ FinishScript \/ KillScript

FilesSpec == FilesInit /\ [][FilesNext]_fileVars

-----------------------------------------------------------------------------
(* Properties.                                                             *)

\* Every target of s is what the files in the checkout make of it.
Current(s) ==
  \A f \in ToSet(Targets[s]) :
    file[f] = IF f = "dist/index.js" THEN Made(f, Nothing) ELSE Made(f, file[Origin(f)])

FilesTypeOK ==
  /\ file \in [Files -> Content \cup {Nothing}]
  /\ \A f \in JsrFiles : file[f].form # "odd"
  /\ \A f \in Tables : file[f].form \in {f, "nothing"}
  /\ script \in Scripts /\ check \in BOOLEAN
  /\ phase \in {"idle", "running", "ok", "stale", "refused", "killed"}
  /\ done \in 0..Len(Targets[script])
  /\ DOMAIN input \subseteq Sources \cup Derived
  /\ stale \in BOOLEAN /\ quiet \in BOOLEAN /\ wrote \in BOOLEAN
  /\ sourceEdits \in 0..MaxSourceEdits

\* A script that ends well has made, or in --check found, all its targets
\* current, whatever a killed run or another script had left in them; a
\* check that fails has a reason; a script that refuses has written nothing.
OutcomeIsTrue ==
  /\ quiet /\ phase = "ok" => Current(script)
  /\ quiet /\ phase = "stale" => ~Current(script)
  /\ phase \in {"stale", "refused"} => ~wrote

\* test-jsr.mjs:19 announces that "JSR generation drift [...] passed": where
\* distribution-ci passes, the committed JSR files are current.
DriftIsCaught == DistributionCiPasses(file) => Current("build_jsr")
=============================================================================
