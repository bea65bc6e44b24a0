----------------------------- MODULE ToolProofs -----------------------------
(***************************************************************************)
(* The tools beside the clients, but for sync-readmes.mjs: what the scripts*)
(* that generate files make of any sequence of edits, runs and kills; what *)
(* prepare-distribution.mjs makes of every source, list of arguments and   *)
(* sequence of downloads, runs, kills and removals; and what the command   *)
(* prints, for every snapshot, list of arguments and time.                 *)
(***************************************************************************)
EXTENDS Tools, ReadmeProofs

-----------------------------------------------------------------------------
(* prepare-distribution.mjs.                                               *)

\* What the run that made the output directory writes to a path.
MadeContent(path) ==
  ContentOf(path, made.request, made.texts, made.parsed, made.license)

Validated(values) == ValidSource(values["all.json"], values["stats.json"])

\* The script reads the texts before the values, and all.json first; what it
\* has read is what is there, if nothing was replaced since it began.
ReadingOK ==
  prepare = "reading" =>
    /\ output = before /\ written = 0
    /\ DOMAIN texts = {"all.json", "stats.json"} /\ DOMAIN parsed = {"all.json", "stats.json"}
    /\ texts["stats.json"] # Undefined => texts["all.json"] # Undefined
    /\ parsed["all.json"] # Undefined => texts["stats.json"] # Undefined
    /\ parsed["stats.json"] # Undefined => parsed["all.json"] # Undefined
    /\ steady =>
         \A f \in {"all.json", "stats.json"} :
           /\ texts[f] \in {Undefined, Downloaded(source[f])}
           /\ parsed[f] \in {Undefined, source[f]}

\* The files written so far are all there is, each whole and of this run.
WritingOK ==
  prepare = "writing" =>
    /\ made = [request |-> request, texts |-> texts, parsed |-> parsed, license |-> license]
    /\ written \in 0..Len(Outputs)
    /\ DOMAIN output = {Outputs[i] : i \in 1..written}
    /\ \A path \in DOMAIN output : output[path] = MadeContent(path)
    /\ Validated(made.parsed)

\* The checksums and the values of a run that nobody disturbed are of the same files.
MadeOfOneReading ==
  steady /\ prepare \in {"writing", "ok"} =>
    \A f \in {"all.json", "stats.json"} : made.texts[f] = Downloaded(made.parsed[f])

\* A script that does not run holds nothing.
IdleOK == ~Preparing => texts = Unread /\ parsed = Unread /\ written = 0

IInv ==
  /\ IdleOK
  /\ ReadingOK /\ WritingOK /\ MadeOfOneReading
  /\ RefusedLeavesOutput /\ OneSnapshot

-----------------------------------------------------------------------------
(* The list of files.                                                      *)

\* There are fifteen, and the first five are of one dataset.
LEMMA OutputsList ==
  /\ Len(Outputs) = 15 /\ DOMAIN Outputs = 1..15
  /\ Outputs[1] = <<"huggingface", "all.json">> /\ Outputs[6] = <<"kaggle-dataset", "all.json">>
  /\ \A i \in 1..5 : Outputs[i][1] = "huggingface"
  <1>1. DOMAIN Outputs = 1..15 /\ Outputs \in [1..15 -> {Outputs[i] : i \in 1..15}]
    BY DEF Outputs
  <1>2. Outputs \in Seq({Outputs[i] : i \in 1..15})
    BY <1>1, SeqDef
  <1>3. DOMAIN Outputs = 1..Len(Outputs) /\ Len(Outputs) \in Nat
    BY <1>2, LenProperties
  <1>4. Len(Outputs) = 15
    BY <1>1, <1>3
  <1>5. /\ Outputs[1] = <<"huggingface", "all.json">> /\ Outputs[6] = <<"kaggle-dataset", "all.json">>
        /\ \A i \in 1..5 : Outputs[i][1] = "huggingface"
    BY DEF Outputs, Datasets, Shared
  <1> QED
    BY <1>1, <1>4, <1>5

-----------------------------------------------------------------------------
(* The invariant holds at the start and is kept by every action.           *)

\* Before the script runs.
LEMMA InitInv == DistInit => IInv
  BY DEF DistInit, IInv, IdleOK, Preparing, ReadingOK, WritingOK, MadeOfOneReading, RefusedLeavesOutput, OneSnapshot

\* A download disturbs the run, and nothing else.
LEMMA ReplaceInv == ASSUME IInv, NEW f, ReplaceSource(f) PROVE IInv'
  <1>1. /\ steady' = FALSE
        /\ UNCHANGED <<request, texts, parsed, license, written, output, prepare, before, made>>
    BY DEF ReplaceSource, locals
  <1> QED
    BY <1>1 DEF IInv, IdleOK, Preparing, ReadingOK, WritingOK, MadeOfOneReading, RefusedLeavesOutput, OneSnapshot,
                MadeContent, Validated

\* Where the script ends without having touched the output, nothing breaks.
LEMMA EndInv ==
  ASSUME IInv, NEW how \in {"refused", "killed"}, Ends(how), UNCHANGED <<output, made>>,
         how = "refused" => output' = before'
  PROVE  IInv'
  <1>1. prepare' = how /\ texts' = Unread /\ parsed' = Unread /\ written' = 0
    BY DEF Ends, Unread
  <1> QED
    BY <1>1 DEF IInv, IdleOK, ReadingOK, WritingOK, MadeOfOneReading, RefusedLeavesOutput, OneSnapshot

\* A run begins.
LEMMA BeginInv == ASSUME IInv, NEW args, BeginPrepare(args) PROVE IInv'
  <1>1. UNCHANGED <<output, made, source>> /\ before' = output /\ ~Preparing
    BY DEF BeginPrepare
  <1>2. CASE Ends("refused")
    BY <1>1, <1>2, EndInv
  <1>3. CASE prepare' = "reading" /\ UNCHANGED <<texts, parsed, license, written>>
    <2>1. texts' = Unread /\ parsed' = Unread /\ written' = 0
      BY <1>1, <1>3 DEF IInv, IdleOK
    <2>2. ReadingOK'
      BY <1>1, <1>3, <2>1 DEF ReadingOK, Unread
    <2>3. OneSnapshot'
      BY <1>1, <1>3 DEF IInv, OneSnapshot
    <2> QED
      BY <1>3, <2>2, <2>3 DEF IInv, IdleOK, Preparing, WritingOK, MadeOfOneReading, RefusedLeavesOutput
  <1> QED
    BY <1>2, <1>3 DEF BeginPrepare

\* Reading: the texts, all.json before stats.json.
LEMMA ReadTextInv ==
  ASSUME IInv, NEW f \in {"all.json", "stats.json"}, ReadText(f)
  PROVE  IInv'
  <1>1. /\ prepare = "reading" /\ texts[f] = Undefined
        /\ f = "stats.json" => texts["all.json"] # Undefined
        /\ UNCHANGED <<source, output, before, made, steady>>
    BY DEF ReadText
  <1>2. CASE Ends("refused")
    BY <1>1, <1>2, EndInv DEF IInv, ReadingOK
  <1>3. CASE texts' = [texts EXCEPT ![f] = Downloaded(source[f])]
             /\ UNCHANGED <<prepare, request, parsed, license, written>>
    <2>1. DOMAIN texts = {"all.json", "stats.json"}
      BY <1>1 DEF IInv, ReadingOK
    <2>2. /\ texts'[f] = Downloaded(source[f])
          /\ \A g \in {"all.json", "stats.json"} \ {f} : texts'[g] = texts[g]
          /\ DOMAIN texts' = {"all.json", "stats.json"}
      BY <1>3, <2>1
    <2>3. ReadingOK'
      BY <1>1, <1>3, <2>2 DEF IInv, ReadingOK
    <2>4. OneSnapshot'
      BY <1>1, <1>3 DEF IInv, OneSnapshot
    <2> QED
      BY <1>1, <1>3, <2>3, <2>4 DEF IInv, IdleOK, Preparing, WritingOK, MadeOfOneReading, RefusedLeavesOutput
  <1> QED
    BY <1>2, <1>3 DEF ReadText

\* Then the values, in the same order.
LEMMA ReadJsonInv ==
  ASSUME IInv, NEW f \in {"all.json", "stats.json"}, ReadJson(f)
  PROVE  IInv'
  <1>1. /\ prepare = "reading" /\ parsed[f] = Undefined /\ texts["stats.json"] # Undefined
        /\ f = "stats.json" => parsed["all.json"] # Undefined
        /\ UNCHANGED <<source, output, before, made, steady>>
    BY DEF ReadJson
  <1>2. CASE Ends("refused")
    BY <1>1, <1>2, EndInv DEF IInv, ReadingOK
  <1>3. CASE parsed' = [parsed EXCEPT ![f] = source[f]]
             /\ UNCHANGED <<prepare, request, texts, license, written>>
    <2>1. DOMAIN parsed = {"all.json", "stats.json"}
      BY <1>1 DEF IInv, ReadingOK
    <2>2. /\ parsed'[f] = source[f]
          /\ \A g \in {"all.json", "stats.json"} \ {f} : parsed'[g] = parsed[g]
          /\ DOMAIN parsed' = {"all.json", "stats.json"}
      BY <1>3, <2>1
    <2>3. ReadingOK'
      BY <1>1, <1>3, <2>2 DEF IInv, ReadingOK
    <2>4. OneSnapshot'
      BY <1>1, <1>3 DEF IInv, OneSnapshot
    <2> QED
      BY <1>1, <1>3, <2>3, <2>4 DEF IInv, IdleOK, Preparing, WritingOK, MadeOfOneReading, RefusedLeavesOutput
  <1> QED
    BY <1>2, <1>3 DEF ReadJson

\* The first mutation of the output, after all checks.
LEMMA MakeInv == ASSUME IInv, MakeOutput PROVE IInv'
  <1>1. /\ prepare = "reading" /\ parsed["stats.json"] # Undefined
        /\ UNCHANGED <<source, before, steady>>
    BY DEF MakeOutput
  <1>2. CASE Ends("refused") /\ UNCHANGED <<output, made>>
    BY <1>1, <1>2, EndInv DEF IInv, ReadingOK
  <1>3. CASE /\ MayMake
             /\ prepare' = "writing"
             /\ license' = License
             /\ output' = IF output = Undefined THEN <<>> ELSE output
             /\ made' = [request |-> request, texts |-> texts, parsed |-> parsed, license |-> License]
             /\ UNCHANGED <<request, texts, parsed, written>>
    <2>1. output' = <<>> /\ Validated(parsed)
      BY <1>3 DEF MayMake, Validated
    <2>2. DOMAIN output' = {}
      BY <2>1
    <2>3. written = 0
      BY <1>1 DEF IInv, ReadingOK
    <2>4. WritingOK'
      <3>1. {Outputs[i] : i \in 1..0} = {}
        OBVIOUS
      <3>2. 0 \in 0..Len(Outputs)
        BY OutputsList
      <3>3. made' = [request |-> request', texts |-> texts', parsed |-> parsed', license |-> license']
        BY <1>3
      <3>4. Validated(made'.parsed)
        BY <1>3, <2>1
      <3>5. Validated(made.parsed)'
        BY <3>4 DEF Validated
      <3>6. Len(Outputs)' = Len(Outputs) /\ \A i : Outputs[i]' = Outputs[i]
        BY DEF Outputs, Datasets, Shared, Own
      <3> QED
        BY <1>3, <2>2, <2>3, <3>1, <3>2, <3>3, <3>5 DEF WritingOK
    <2>5. MadeOfOneReading'
      <3>1. ASSUME steady PROVE \A f \in {"all.json", "stats.json"} : texts[f] = Downloaded(parsed[f])
        BY <1>1, <3>1 DEF IInv, ReadingOK
      <3>2. \A f \in {"all.json", "stats.json"} : made'.texts[f] = texts[f] /\ made'.parsed[f] = parsed[f]
        BY <1>3
      <3> QED
        BY <1>1, <3>1, <3>2 DEF MadeOfOneReading, Downloaded
    <2>6. OneSnapshot'
      BY <1>3, <2>2 DEF OneSnapshot
    <2> QED
      BY <1>3, <2>4, <2>5, <2>6 DEF IInv, IdleOK, Preparing, ReadingOK, RefusedLeavesOutput
  <1> QED
    BY <1>2, <1>3 DEF MakeOutput

\* One more file, whole.
LEMMA WriteInv == ASSUME IInv, WriteOutput PROVE IInv'
  <1> DEFINE content == ContentOf(NextPath, request, texts, parsed, license)
  <1>1. /\ prepare = "writing" /\ written < Len(Outputs)
        /\ output' = With(NextPath, content)
        /\ written' = written + 1
        /\ UNCHANGED <<source, prepare, request, texts, parsed, license, replacements, before, made, steady>>
    BY DEF WriteOutput
  <1>2. /\ made = [request |-> request, texts |-> texts, parsed |-> parsed, license |-> license]
        /\ written \in 0..15 /\ written < 15
        /\ DOMAIN output = {Outputs[i] : i \in 1..written}
        /\ \A path \in DOMAIN output : output[path] = MadeContent(path)
        /\ Validated(made.parsed)
    BY <1>1, OutputsList DEF IInv, WritingOK
  <1>3. NextPath = Outputs[written + 1]
    BY DEF NextPath
  <1>4. content = MadeContent(NextPath)
    BY <1>2 DEF MadeContent
  <1> HIDE DEF content
  <1>5. /\ DOMAIN output' = {NextPath} \cup DOMAIN output
        /\ output'[NextPath] = content
        /\ \A path \in DOMAIN output \ {NextPath} : output'[path] = output[path]
    BY <1>1 DEF With
  <1>6. {NextPath} \cup {Outputs[i] : i \in 1..written} = {Outputs[i] : i \in 1..(written + 1)}
    BY <1>2, <1>3
  <1>7. \A path \in DOMAIN output' : output'[path] = MadeContent(path)
    BY <1>2, <1>4, <1>5
  <1>8. \A path : MadeContent(path)' = MadeContent(path)
    BY <1>1 DEF MadeContent
  <1>9. WritingOK'
    <2>1. DOMAIN output' = {Outputs[i] : i \in 1..(written + 1)}
      BY <1>2, <1>5, <1>6
    <2>2. written + 1 \in 0..15
      BY <1>2
    <2>3. Validated(made.parsed)'
      BY <1>1, <1>2 DEF Validated
    <2> QED
      BY <1>1, <1>2, <1>7, <1>8, <2>1, <2>2, <2>3, OutputsList DEF WritingOK
  <1>10. MadeOfOneReading'
    BY <1>1 DEF IInv, MadeOfOneReading, Downloaded
  <1>11. OneSnapshot'
    BY <1>1, <1>7, <1>8 DEF OneSnapshot, MadeContent
  <1> QED
    BY <1>1, <1>9, <1>10, <1>11 DEF IInv, IdleOK, Preparing, ReadingOK, RefusedLeavesOutput

\* The end: every file is there.
LEMMA FinishInv == ASSUME IInv, FinishPrepare PROVE IInv'
  <1>1. /\ prepare = "writing" /\ written = Len(Outputs) /\ prepare' = "ok"
        /\ texts' = Unread /\ parsed' = Unread /\ written' = 0
        /\ UNCHANGED <<source, output, before, made, steady>>
    BY DEF FinishPrepare, Ends, Unread
  <1>2. /\ DOMAIN output = {Outputs[i] : i \in 1..written}
        /\ \A path \in DOMAIN output : output[path] = MadeContent(path)
        /\ Validated(made.parsed)
    BY <1>1 DEF IInv, WritingOK
  <1>3. DOMAIN output = ToSet(Outputs)
    BY <1>1, <1>2, OutputsList DEF ToSet
  <1>4. OneSnapshot'
    BY <1>1, <1>2, <1>3 DEF OneSnapshot, MadeContent, Validated
  <1>5. MadeOfOneReading'
    BY <1>1 DEF IInv, MadeOfOneReading, Downloaded
  <1> QED
    BY <1>1, <1>4, <1>5 DEF IInv, IdleOK, ReadingOK, WritingOK, RefusedLeavesOutput, Unread

\* A kill leaves a truncated file at worst.
LEMMA KillInv == ASSUME IInv, KillPrepare PROVE IInv'
  <1>1. /\ Ends("killed") /\ UNCHANGED <<source, before, made, steady>>
    BY DEF KillPrepare
  <1>2. CASE UNCHANGED output
    BY <1>1, <1>2, EndInv
  <1>3. CASE prepare = "writing" /\ output' = With(NextPath, Undefined)
    <2>1. \A path \in DOMAIN output : output[path] = MadeContent(path)
      BY <1>3 DEF IInv, WritingOK
    <2>2. /\ DOMAIN output' = {NextPath} \cup DOMAIN output
          /\ output'[NextPath] = Undefined
          /\ \A path \in DOMAIN output \ {NextPath} : output'[path] = output[path]
      BY <1>3 DEF With
    <2>3. \A path \in DOMAIN output' : output'[path] \in {Undefined, MadeContent(path)}
      BY <2>1, <2>2
    <2>4. prepare' = "killed" /\ texts' = Unread /\ parsed' = Unread /\ written' = 0
      BY <1>1 DEF Ends, Unread
    <2>5. OneSnapshot'
      BY <1>1, <2>3, <2>4 DEF OneSnapshot, MadeContent
    <2> QED
      BY <2>4, <2>5 DEF IInv, IdleOK, ReadingOK, WritingOK, MadeOfOneReading, RefusedLeavesOutput, Unread
  <1> QED
    BY <1>2, <1>3 DEF KillPrepare

LEMMA RemoveInv == ASSUME IInv, RemoveOutput PROVE IInv'
  BY DEF RemoveOutput, locals, IInv, IdleOK, Preparing, ReadingOK, WritingOK, MadeOfOneReading,
         RefusedLeavesOutput, OneSnapshot, Unread

LEMMA StutterInv == ASSUME IInv, UNCHANGED distVars PROVE IInv'
  BY DEF distVars, IInv, IdleOK, Preparing, ReadingOK, WritingOK, MadeOfOneReading,
         RefusedLeavesOutput, OneSnapshot, MadeContent, Validated, Unread

LEMMA NextInv == IInv /\ [DistNext]_distVars => IInv'
  <1> SUFFICES ASSUME IInv, [DistNext]_distVars PROVE IInv'
    OBVIOUS
  <1>1. ASSUME NEW f \in {"all.json", "stats.json"}, ReplaceSource(f) \/ ReadText(f) \/ ReadJson(f)
        PROVE  IInv'
    BY <1>1, ReplaceInv, ReadTextInv, ReadJsonInv
  <1>2. ASSUME NEW args \in Requests, BeginPrepare(args) PROVE IInv'
    BY <1>2, BeginInv
  <1>3. CASE MakeOutput
    BY <1>3, MakeInv
  <1>4. CASE WriteOutput
    BY <1>4, WriteInv
  <1>5. CASE FinishPrepare
    BY <1>5, FinishInv
  <1>6. CASE KillPrepare
    BY <1>6, KillInv
  <1>7. CASE RemoveOutput
    BY <1>7, RemoveInv
  <1>8. CASE UNCHANGED distVars
    BY <1>8, StutterInv
  <1> QED
    BY <1>1, <1>2, <1>3, <1>4, <1>5, <1>6, <1>7, <1>8 DEF DistNext

-----------------------------------------------------------------------------
(* What a run makes of the output directory.                               *)

\* The strengthened invariant holds in every reachable state.
THEOREM Invariance == DistSpec => []IInv
  BY InitInv, NextInv, PTL DEF DistSpec

\* A run that is refused, for whichever argument or value, has not touched the
\* output directory.
THEOREM RefusedLeavesOutputHolds == DistSpec => []RefusedLeavesOutput
  <1>1. IInv => RefusedLeavesOutput
    BY DEF IInv
  <1> QED
    BY <1>1, Invariance, PTL

\* No output directory ever mixes two runs, and a run that ends well has
\* written all files, whole, from values that passed every check.
THEOREM OneSnapshotHolds == DistSpec => []OneSnapshot
  <1>1. IInv => OneSnapshot
    BY DEF IInv
  <1> QED
    BY <1>1, Invariance, PTL

\* If nothing is downloaded meanwhile, the checksums are of the files that
\* the rows, and the time of observation, come from.
THEOREM ProvenanceIsTrueHolds == DistSpec => []ProvenanceIsTrue
  <1>1. IInv => ProvenanceIsTrue
    <2> SUFFICES ASSUME IInv, steady, prepare \in {"writing", "ok"}, NEW d \in {"huggingface", "kaggle-dataset"},
                        <<d, "provenance.json">> \in DOMAIN output
                 PROVE  LET p == output[<<d, "provenance.json">>]
                            values == output[<<d, "all.json">>].json
                            stats == p.stats_json_sha256.sha256.json
                        IN  /\ p.all_json_sha256 = Sha256(Downloaded(values))
                            /\ p.observed_at = stats.generated_at
                            /\ ValidSource(values, stats)
      <3>1. ToSet(Datasets) = {"huggingface", "kaggle-dataset"}
        BY DEF ToSet, Datasets
      <3> QED
        BY <3>1 DEF ProvenanceIsTrue
    <2>1. /\ \A path \in DOMAIN output : output[path] = MadeContent(path)
          /\ Validated(made.parsed)
      BY DEF IInv, WritingOK, OneSnapshot, MadeContent, Validated
    <2>2. PICK w \in 1..15 : DOMAIN output = {Outputs[i] : i \in 1..w}
      <3>1. CASE prepare = "writing"
        <4>1. written \in 0..15 /\ DOMAIN output = {Outputs[i] : i \in 1..written}
          BY <3>1, OutputsList DEF IInv, WritingOK
        <4>2. written # 0
          BY <4>1
        <4>3. written \in 1..15
          BY <4>1, <4>2
        <4> QED
          BY <4>1, <4>3
      <3>2. CASE prepare = "ok"
        BY <3>2, OutputsList DEF IInv, OneSnapshot, ToSet
      <3> QED
        BY <3>1, <3>2
    <2>3. <<d, "all.json">> \in DOMAIN output
      <3>1. CASE d = "huggingface"
        BY <2>2, <3>1, OutputsList
      <3>2. CASE d = "kaggle-dataset"
        <4>1. PICK i \in 1..w : Outputs[i] = <<d, "provenance.json">>
          BY <2>2
        <4>2. i \notin 1..5
          BY <3>2, <4>1, OutputsList
        <4>3. 6 \in 1..w
          BY <2>2, <4>1, <4>2
        <4> QED
          BY <2>2, <3>2, <4>3, OutputsList
      <3> QED
        BY <3>1, <3>2
    <2>4. output[<<d, "all.json">>] = Indented(made.parsed["all.json"])
      BY <2>1, <2>3 DEF MadeContent, ContentOf
    <2>5. output[<<d, "provenance.json">>] =
            Provenance(made.request, made.texts, made.parsed["stats.json"].generated_at,
                       Len(made.parsed["all.json"]))
      BY <2>1 DEF MadeContent, ContentOf
    <2>6. /\ made.texts["all.json"] = Downloaded(made.parsed["all.json"])
          /\ made.texts["stats.json"] = Downloaded(made.parsed["stats.json"])
      BY DEF IInv, MadeOfOneReading
    <2> QED
      BY <2>1, <2>4, <2>5, <2>6 DEF Provenance, Sha256, Downloaded, Indented, Validated
  <1> QED
    BY <1>1, Invariance, PTL

-----------------------------------------------------------------------------
(* The state of the script is well formed.                                 *)

\* Undefined is no directory: it is not a function.
NoDirectory == \A f : [x \in DOMAIN f |-> f[x]] # Undefined

DistTyped == IInv /\ DistTypeOK

\* Before the script runs.
LEMMA InitTyped == DistInit => DistTyped
  <1> SUFFICES ASSUME DistInit PROVE DistTypeOK
    BY InitInv DEF DistTyped
  <1>1. DOMAIN source = SourceFiles
    BY DEF DistInit
  <1>2. 0 \in 0..Len(Outputs) /\ 0 \in 0..MaxReplacements
    BY OutputsList, ReplacementsAssumption
  <1> QED
    BY <1>1, <1>2 DEF DistInit, DistTypeOK, NoRequest

\* The script ends, and the directory is one it may leave.
LEMMA EndTyped ==
  ASSUME DistTypeOK, NEW how \in {"ok", "refused", "killed"}, Ends(how),
         UNCHANGED <<source, replacements, steady>>,
         output' # Undefined => DOMAIN output' \subseteq ToSet(Outputs)
  PROVE  DistTypeOK'
  <1>1. prepare' = how /\ written' = 0 /\ DOMAIN request' = RequestNames
    BY DEF Ends, NoRequest
  <1>2. 0 \in 0..Len(Outputs)
    BY OutputsList
  <1> QED
    BY <1>1, <1>2 DEF DistTypeOK

\* The directory while the script writes, and with the next file put in.
LEMMA WithNext ==
  ASSUME DistTyped, prepare = "writing", written < Len(Outputs), NEW content
  PROVE  /\ written + 1 \in 1..Len(Outputs) /\ written + 1 \in 0..Len(Outputs)
         /\ DOMAIN With(NextPath, content) = {Outputs[i] : i \in 1..(written + 1)}
         /\ DOMAIN With(NextPath, content) \subseteq ToSet(Outputs)
         /\ NoDirectory => With(NextPath, content) # Undefined
  <1>1. written \in 0..15 /\ DOMAIN output = {Outputs[i] : i \in 1..written}
    BY OutputsList DEF DistTyped, IInv, WritingOK
  <1>2. written + 1 \in 1..15 /\ Len(Outputs) = 15 /\ DOMAIN Outputs = 1..15
    BY <1>1, OutputsList
  <1>3. DOMAIN With(NextPath, content) = {NextPath} \cup DOMAIN output
    BY DEF With
  <1>4. \A i : i \in 1..(written + 1) <=> i \in 1..written \/ i = written + 1
    BY <1>1
  <1>5. DOMAIN With(NextPath, content) = {Outputs[i] : i \in 1..(written + 1)}
    BY <1>1, <1>3, <1>4 DEF NextPath
  <1>6. {Outputs[i] : i \in 1..(written + 1)} \subseteq ToSet(Outputs)
    BY <1>2 DEF ToSet
  <1>7. NoDirectory => With(NextPath, content) # Undefined
    <2> DEFINE d == With(NextPath, content)
    <2>1. d = [x \in DOMAIN d |-> d[x]]
      BY DEF With
    <2> HIDE DEF d
    <2>2. NoDirectory => [x \in DOMAIN d |-> d[x]] # Undefined
      BY DEF NoDirectory
    <2> QED
      BY <2>1, <2>2 DEF d
  <1> QED
    BY <1>2, <1>5, <1>6, <1>7

\* Every step keeps the state well formed.
LEMMA NextTyped == ASSUME NoDirectory PROVE DistTyped /\ [DistNext]_distVars => DistTyped'
  <1> SUFFICES ASSUME DistTyped, [DistNext]_distVars PROVE DistTypeOK'
    BY NextInv DEF DistTyped
  <1>0. DistTypeOK
    BY DEF DistTyped
  <1>1. ASSUME NEW f, ReplaceSource(f) PROVE DistTypeOK'
    <2>1. /\ replacements' = replacements + 1 /\ replacements < MaxReplacements
          /\ steady' = FALSE /\ UNCHANGED <<request, written, output, prepare>>
          /\ DOMAIN source' = DOMAIN source
      BY <1>1 DEF ReplaceSource, locals
    <2>2. replacements' \in 0..MaxReplacements
      BY <1>0, <2>1, ReplacementsAssumption DEF DistTypeOK
    <2> QED
      BY <1>0, <2>1, <2>2 DEF DistTypeOK
  <1>2. ASSUME NEW f, ReadText(f) PROVE DistTypeOK'
    <2>1. prepare = "reading" /\ UNCHANGED <<source, output, replacements, steady>>
      BY <1>2 DEF ReadText
    <2>2. CASE Ends("refused")
      BY <1>0, <2>1, <2>2, EndTyped DEF DistTypeOK
    <2>3. CASE UNCHANGED <<prepare, request, written>>
      BY <1>0, <2>1, <2>3 DEF DistTypeOK
    <2> QED
      BY <1>2, <2>2, <2>3 DEF ReadText
  <1>3. ASSUME NEW f, ReadJson(f) PROVE DistTypeOK'
    <2>1. prepare = "reading" /\ UNCHANGED <<source, output, replacements, steady>>
      BY <1>3 DEF ReadJson
    <2>2. CASE Ends("refused")
      BY <1>0, <2>1, <2>2, EndTyped DEF DistTypeOK
    <2>3. CASE UNCHANGED <<prepare, request, written>>
      BY <1>0, <2>1, <2>3 DEF DistTypeOK
    <2> QED
      BY <1>3, <2>2, <2>3 DEF ReadJson
  <1>4. ASSUME NEW args, BeginPrepare(args) PROVE DistTypeOK'
    <2>1. UNCHANGED <<source, output, replacements>> /\ steady' = TRUE
      BY <1>4 DEF BeginPrepare
    <2>2. DOMAIN RequestOf(args) = RequestNames
      BY DEF RequestOf, NoRequest
    <2>3. 0 \in 0..Len(Outputs)
      BY OutputsList
    <2>4. CASE Ends("refused")
      BY <1>0, <2>1, <2>3, <2>4 DEF DistTypeOK, Ends, NoRequest
    <2>5. CASE prepare' = "reading" /\ request' = RequestOf(args) /\ UNCHANGED written
      BY <1>0, <2>1, <2>2, <2>5 DEF DistTypeOK
    <2> QED
      BY <1>4, <2>4, <2>5 DEF BeginPrepare
  <1>5. CASE MakeOutput
    <2>1. prepare = "reading" /\ UNCHANGED <<source, replacements, steady>>
      BY <1>5 DEF MakeOutput
    <2>2. CASE Ends("refused") /\ UNCHANGED output
      BY <1>0, <2>1, <2>2, EndTyped DEF DistTypeOK
    <2>3. CASE MayMake /\ prepare' = "writing" /\ output' = (IF output = Undefined THEN <<>> ELSE output)
               /\ UNCHANGED <<request, written>>
      <3>1. output' = <<>> /\ written = 0
        BY <2>1, <2>3 DEF MayMake, DistTyped, IInv, ReadingOK
      <3>2. DOMAIN output' = {} /\ output' # Undefined
        <4>1. <<>> = [x \in DOMAIN <<>> |-> <<>>[x]] /\ DOMAIN <<>> = {}
          OBVIOUS
        <4>2. [x \in DOMAIN <<>> |-> <<>>[x]] # Undefined
          BY DEF NoDirectory
        <4> QED
          BY <3>1, <4>1, <4>2
      <3>3. {Outputs[i] : i \in 1..written} = {}
        BY <3>1
      <3> QED
        BY <1>0, <2>1, <2>3, <3>1, <3>2, <3>3 DEF DistTypeOK
    <2> QED
      BY <1>5, <2>2, <2>3 DEF MakeOutput
  <1>6. CASE WriteOutput
    <2> DEFINE content == ContentOf(NextPath, request, texts, parsed, license)
    <2>1. /\ prepare = "writing" /\ written < Len(Outputs)
          /\ output' = With(NextPath, content)
          /\ written' = written + 1
          /\ UNCHANGED <<source, prepare, request, replacements, steady>>
      BY <1>6 DEF WriteOutput
    <2> HIDE DEF content
    <2>2. /\ written' \in 0..Len(Outputs)
          /\ DOMAIN output' = {Outputs[i] : i \in 1..written'}
          /\ DOMAIN output' \subseteq ToSet(Outputs) /\ output' # Undefined
      BY <2>1, WithNext
    <2> QED
      BY <1>0, <2>1, <2>2 DEF DistTypeOK
  <1>7. CASE FinishPrepare
    <2>1. Ends("ok") /\ UNCHANGED <<source, output, replacements, steady>>
      BY <1>7 DEF FinishPrepare
    <2> QED
      BY <1>0, <2>1, EndTyped DEF DistTypeOK
  <1>8. CASE KillPrepare
    <2>1. Ends("killed") /\ UNCHANGED <<source, replacements, steady>>
      BY <1>8 DEF KillPrepare
    <2>2. output' # Undefined => DOMAIN output' \subseteq ToSet(Outputs)
      <3>1. CASE UNCHANGED output
        BY <1>0, <3>1 DEF DistTypeOK
      <3>2. CASE prepare = "writing" /\ written < Len(Outputs) /\ output' = With(NextPath, Undefined)
        BY <3>2, WithNext
      <3> QED
        BY <1>8, <3>1, <3>2 DEF KillPrepare
    <2> QED
      BY <1>0, <2>1, <2>2, EndTyped
  <1>9. CASE RemoveOutput
    <2>1. /\ output' = Undefined /\ prepare' = "idle"
          /\ UNCHANGED <<source, request, written, replacements, steady>>
      BY <1>9 DEF RemoveOutput, locals
    <2> QED
      BY <1>0, <2>1 DEF DistTypeOK
  <1>10. CASE UNCHANGED distVars
    BY <1>0, <1>10 DEF distVars, DistTypeOK
  <1> QED
    BY <1>1, <1>2, <1>3, <1>4, <1>5, <1>6, <1>7, <1>8, <1>9, <1>10 DEF DistNext

\* The script stays where it can be, and has written as many files as it has
\* counted and no others, for every source, list of arguments and kill.
THEOREM DistTypeOKHolds == ASSUME NoDirectory PROVE DistSpec => []DistTypeOK
  <1>1. DistTyped => DistTypeOK
    BY DEF DistTyped
  <1>2. DistTyped /\ [DistNext]_distVars => DistTyped'
    BY NextTyped
  <1> QED
    BY <1>1, <1>2, InitTyped, PTL DEF DistSpec

-----------------------------------------------------------------------------
(* The scripts that generate files: the lists of targets.                  *)

\* What target f should hold, given the files of a checkout.
Due(f, files) ==
  IF f = "dist/index.js" THEN Made(f, Nothing) ELSE Made(f, files[Origin(f)])

\* The first n targets of s are what they should be.
CurrentTo(s, n) == \A i \in 1..n : file[Targets[s][i]] = Due(Targets[s][i], file)

LEMMA ThreeScripts == Scripts = {"generate_fields", "build_jsr", "build_js"}
  BY DEF Scripts, Targets

\* A list of targets is a sequence of derived files.
LEMMA TargetList ==
  ASSUME NEW s \in Scripts
  PROVE  /\ Len(Targets[s]) \in Nat /\ DOMAIN Targets[s] = 1..Len(Targets[s])
         /\ Targets[s] \in Seq(Derived)
         /\ Inputs[s] \subseteq Files /\ Inputs[s] \cap ToSet(Targets[s]) = {}
  <1>1. CASE s = "generate_fields"
    <2>1. Targets[s] = <<"fields.generated.js", "fields.generated.cjs", "fields_generated.py">>
      BY <1>1 DEF Targets
    <2>2. Inputs[s] = {"fields.json"}
      BY <1>1 DEF Inputs
    <2> QED
      BY <2>1, <2>2 DEF ToSet, Derived, Tables, Files, Sources
  <1>2. CASE s = "build_jsr"
    <2>1. Targets[s] = <<"jsr/mod.js", "jsr/fields.generated.js", "jsr/mod.d.ts">>
      BY <1>2 DEF Targets
    <2>2. Inputs[s] = {"index.cjs", "fields.generated.js", "index.d.ts"}
      BY <1>2 DEF Inputs
    <2> QED
      BY <2>1, <2>2 DEF ToSet, Derived, Tables, JsrFiles, Files, Sources
  <1>3. CASE s = "build_js"
    <2>1. Targets[s] = <<"dist/index.cjs", "dist/fields.generated.cjs", "dist/cli.cjs",
                  "dist/index.d.ts", "dist/index.js">>
      BY <1>3 DEF Targets
    <2>2. Inputs[s] = {}
      BY <1>3 DEF Inputs
    <2>3. Targets[s] = Targets.build_js
      BY <1>3
    <2>4. \A i \in DOMAIN Targets[s] : Targets[s][i] \in Derived
      BY <2>3 DEF ToSet, Derived, DistFiles
    <2> QED
      BY <2>1, <2>2, <2>4
  <1> QED
    BY <1>1, <1>2, <1>3, ThreeScripts

\* No script makes a target out of another of its targets.
LEMMA OriginApart ==
  ASSUME NEW s \in Scripts, NEW f \in ToSet(Targets[s]), f # "dist/index.js"
  PROVE  Origin(f) \in Files /\ Origin(f) \notin ToSet(Targets[s])
  <1>1. CASE s = "generate_fields"
    <2>1. ToSet(Targets[s]) = {"fields.generated.js", "fields.generated.cjs", "fields_generated.py"}
      BY <1>1 DEF Targets, ToSet
    <2>2. Origin(f) = "fields.json"
      BY <2>1 DEF Origin, Tables
    <2> QED
      BY <2>1, <2>2 DEF Files, Sources
  <1>2. CASE s = "build_jsr"
    <2>1. ToSet(Targets[s]) = {"jsr/mod.js", "jsr/fields.generated.js", "jsr/mod.d.ts"}
      BY <1>2 DEF Targets, ToSet
    <2>2. Origin(f) \in {"index.cjs", "fields.generated.js", "index.d.ts"}
      BY <2>1 DEF Origin, Tables
    <2> QED
      BY <2>1, <2>2 DEF Files, Sources, Derived, Tables
  <1>3. CASE s = "build_js"
    <2>1. ToSet(Targets[s]) = {"dist/index.cjs", "dist/fields.generated.cjs", "dist/cli.cjs",
                  "dist/index.d.ts", "dist/index.js"}
      BY <1>3 DEF Targets, ToSet
    <2>2. Origin(f) \in {"index.cjs", "fields.generated.cjs", "cli.cjs", "index.d.ts"}
      BY <2>1 DEF Origin, Tables
    <2> QED
      BY <2>1, <2>2 DEF Files, Sources, Derived, Tables
  <1> QED
    BY <1>1, <1>2, <1>3, ThreeScripts

\* A target is what its origin makes of it.
LEMMA CurrentIsDue ==
  ASSUME NEW s \in Scripts
  PROVE  Current(s) <=> CurrentTo(s, Len(Targets[s]))
  <1>1. DOMAIN Targets[s] = 1..Len(Targets[s])
    BY TargetList
  <1> QED
    BY <1>1 DEF Current, CurrentTo, Due, ToSet

\* What was read and did not change is what is there.
LEMMA WantedIsDue ==
  ASSUME NEW s \in Scripts, NEW f, NEW files, NEW read, read = Read(s, files)
  PROVE  Wanted(s, f, read, files) = Due(f, files)
  BY DEF Wanted, Due, Read

-----------------------------------------------------------------------------
(* How far a run has come, and what it may say.                            *)

\* What an uninterrupted run has read is what is there; the targets it has
\* dealt with are current, unless --check found one that is not; and only a
\* run without --check writes.
Progress ==
  /\ script \in Scripts /\ done \in 0..Len(Targets[script]) /\ check \in BOOLEAN
  /\ DOMAIN file = Files
  /\ check => ~wrote
  /\ phase = "stale" => check
  /\ phase = "refused" => ~wrote
  /\ phase = "running" /\ quiet =>
       /\ input = Read(script, file)
       /\ Acceptable(script, input)
       /\ ~check \/ ~stale => CurrentTo(script, done)
       /\ check /\ stale => ~Current(script)
  /\ phase = "ok" /\ quiet => Current(script) /\ Acceptable(script, Read(script, file))
  /\ phase = "stale" /\ quiet => ~Current(script)

LEMMA InitProgress == FilesInit => Progress
  <1> SUFFICES ASSUME FilesInit PROVE Progress
    OBVIOUS
  <1>1. "generate_fields" \in Scripts
    BY ThreeScripts
  <1>2. 0 \in 0..Len(Targets["generate_fields"])
    BY <1>1, TargetList
  <1> QED
    BY <1>1, <1>2 DEF FilesInit, Progress

\* An edit ends the quiet of the run under way.
LEMMA EditProgress ==
  ASSUME Progress, NEW f \in Sources, EditSource(f)
  PROVE  Progress'
  <1>1. /\ quiet' = FALSE /\ DOMAIN file' = DOMAIN file
        /\ UNCHANGED <<script, check, phase, done, input, stale, wrote>>
    BY DEF EditSource
  <1> QED
    BY <1>1 DEF Progress

\* A run begins with what it reads, and with no target done.
LEMMA BeginProgress ==
  ASSUME Progress, NEW s \in Scripts, NEW verify \in BOOLEAN, BeginScript(s, verify)
  PROVE  Progress'
  <1>1. /\ script' = s /\ check' = verify /\ done' = 0 /\ input' = Read(s, file)
        /\ stale' = FALSE /\ quiet' = TRUE /\ wrote' = FALSE /\ file' = file
        /\ phase' = IF Acceptable(s, Read(s, file)) THEN "running" ELSE "refused"
    BY DEF BeginScript
  <1>2. done' \in 0..Len(Targets[script'])
    BY <1>1, TargetList
  <1>3. CurrentTo(script, done)'
    BY <1>1 DEF CurrentTo
  <1>4. Read(script, file)' = Read(s, file)
    BY <1>1 DEF Read
  <1>5. phase' = "running" => Acceptable(script, input)'
    BY <1>1 DEF Acceptable
  <1> QED
    BY <1>1, <1>2, <1>3, <1>4, <1>5 DEF Progress

\* Dealing with a target makes it current, and disturbs neither the inputs
\* nor any other target.
LEMMA TargetProgress ==
  ASSUME Progress, DealWithTarget
  PROVE  Progress'
  <1> DEFINE T == Targets[script]
             n == done + 1
             f == T[n]
  <1>1. /\ phase = "running" /\ done < Len(T) /\ done' = n
        /\ stale' = (stale \/ Want # file[f])
        /\ UNCHANGED <<script, check, phase, input, quiet>>
    BY DEF DealWithTarget, AtTarget, Target
  <1>2. /\ Len(T) \in Nat /\ DOMAIN T = 1..Len(T) /\ T \in Seq(Derived)
        /\ Inputs[script] \subseteq Files /\ Inputs[script] \cap ToSet(T) = {}
    BY TargetList DEF Progress
  <1>3. n \in 1..Len(T) /\ done' \in 0..Len(T) /\ f \in ToSet(T)
    BY <1>1, <1>2 DEF Progress, ToSet
  <1>4. \/ file' = file /\ wrote' = wrote /\ (check \/ Want = file[f])
        \/ ~check /\ file' = [file EXCEPT ![f] = Want]
    BY DEF DealWithTarget, Target
  <1>5. DOMAIN file' = Files /\ (check => ~wrote')
    BY <1>4 DEF Progress
  <1>6. ASSUME quiet
        PROVE  /\ input = Read(script, file)'
               /\ ~check \/ ~stale' => CurrentTo(script, done)'
               /\ check /\ stale' => ~Current(script)'
    <2>1. /\ input = Read(script, file)
          /\ ~check \/ ~stale => CurrentTo(script, done)
          /\ check /\ stale => ~Current(script)
      BY <1>1, <1>6 DEF Progress
    <2>2. Want = Due(f, file)
      BY <2>1, WantedIsDue DEF Want, Target, Progress
    <2>3. \A g \in Files \ ToSet(T) : file'[g] = file[g]
      BY <1>3, <1>4 DEF Progress
    <2>4. Read(script, file)' = Read(script, file)
      BY <1>1, <1>2, <2>3 DEF Read
    <2>5. \A g \in ToSet(T) : Due(g, file') = Due(g, file)
      <3>1. \A g \in ToSet(T) : g # "dist/index.js" => file'[Origin(g)] = file[Origin(g)]
        BY <2>3, OriginApart DEF Progress
      <3> QED
        BY <3>1 DEF Due
    <2>6. \A i \in 1..Len(T) : T[i] \in ToSet(T) /\ T[i] \in Files
      <3>1. \A i \in 1..Len(T) : T[i] \in ToSet(T)
        BY <1>2 DEF ToSet
      <3>2. \A i \in 1..Len(T) : T[i] \in Derived
        BY <1>2
      <3> QED
        BY <3>1, <3>2 DEF Files
    <2>7. ASSUME ~check \/ ~stale' PROVE CurrentTo(script, done)'
      <3>1. CurrentTo(script, done)
        BY <2>1, <2>7, <1>1
      <3>2. file'[f] = Due(f, file)
        <4>1. f \in DOMAIN file
          BY <1>3, <2>6 DEF Progress
        <4>2. CASE check
          <5>1. file' = file /\ Want = file[f]
            BY <1>1, <1>4, <2>7, <4>2
          <5> QED
            BY <2>2, <5>1
        <4>3. CASE ~check
          BY <1>4, <2>2, <4>1, <4>3
        <4> QED
          BY <4>2, <4>3
      <3>3. ASSUME NEW i \in 1..n PROVE file'[T[i]] = Due(T[i], file')
        <4>1. i \in 1..Len(T)
          BY <1>2, <1>3
        <4>2. CASE T[i] = f
          BY <3>2, <4>1, <4>2, <2>5, <2>6
        <4>3. CASE T[i] # f
          <5>1. i \in 1..done
            BY <4>3, <1>3 DEF Progress
          <5>2. file'[T[i]] = file[T[i]]
            <6>1. T[i] \in DOMAIN file
              BY <2>6, <4>1 DEF Progress
            <6> HIDE DEF f, T
            <6> QED
              BY <1>4, <4>3, <6>1
          <5> QED
            BY <3>1, <4>1, <5>1, <5>2, <2>5, <2>6 DEF CurrentTo
        <4> QED
          BY <4>2, <4>3
      <3> QED
        BY <1>1, <3>3 DEF CurrentTo
    <2>8. ASSUME check, stale' PROVE ~Current(script)'
      <3>1. file' = file
        BY <1>4, <2>8
      <3>2. ~Current(script)
        <4>1. CASE stale
          BY <2>1, <2>8, <4>1
        <4>2. CASE ~stale
          <5>1. file[f] # Due(f, file)
            BY <1>1, <2>2, <2>8, <4>2
          <5>2. ~CurrentTo(script, Len(T))
            BY <5>1, <1>3 DEF CurrentTo
          <5> QED
            BY <5>2, CurrentIsDue DEF Progress
        <4> QED
          BY <4>1, <4>2
      <3> QED
        BY <1>1, <3>1, <3>2 DEF Current
    <2> QED
      BY <2>1, <2>4, <2>7, <2>8
  <1>7. quiet => Acceptable(script, input)'
    BY <1>1 DEF Progress, Acceptable
  <1> QED
    BY <1>1, <1>3, <1>5, <1>6, <1>7 DEF Progress

\* At the end all targets are done.
LEMMA FinishProgress ==
  ASSUME Progress, FinishScript
  PROVE  Progress'
  <1>1. /\ phase = "running" /\ done = Len(Targets[script])
        /\ phase' = (IF check /\ stale THEN "stale" ELSE "ok")
        /\ UNCHANGED <<file, script, check, done, input, stale, quiet, wrote>>
    BY DEF FinishScript
  <1>2. CurrentTo(script, done) => Current(script)
    BY <1>1, CurrentIsDue DEF Progress
  <1>3. Current(script)' <=> Current(script)
    BY <1>1 DEF Current
  <1>4. Acceptable(script, Read(script, file))' <=> Acceptable(script, Read(script, file))
    BY <1>1 DEF Acceptable, Read
  <1>5. CASE check /\ stale
    BY <1>1, <1>3, <1>5 DEF Progress
  <1>6. CASE ~(check /\ stale)
    BY <1>1, <1>2, <1>3, <1>4, <1>6 DEF Progress
  <1> QED
    BY <1>5, <1>6

\* A killed run says nothing.
LEMMA KillProgress ==
  ASSUME Progress, KillScript
  PROVE  Progress'
  <1>1. /\ phase' = "killed" /\ DOMAIN file' = DOMAIN file
        /\ UNCHANGED <<script, check, done, input, stale, quiet>>
        /\ check => wrote' = wrote
    BY DEF KillScript
  <1> QED
    BY <1>1 DEF Progress

\* The inductive step, action by action.
LEMMA NextProgress == Progress /\ [FilesNext]_fileVars => Progress'
  <1> SUFFICES ASSUME Progress, [FilesNext]_fileVars PROVE Progress'
    OBVIOUS
  <1>1. CASE UNCHANGED fileVars
    BY <1>1 DEF fileVars, Progress, Read, Acceptable, CurrentTo, Current, Due
  <1> QED
    BY <1>1, EditProgress, BeginProgress, TargetProgress, FinishProgress, KillProgress DEF FilesNext

\* A script that ends well has made, or with --check found, its targets
\* current, and one that reports drift has found some.
THEOREM OutcomeIsTrueHolds == FilesSpec => []OutcomeIsTrue
  <1>1. Progress => OutcomeIsTrue
    BY DEF Progress, OutcomeIsTrue
  <1> QED
    BY <1>1, InitProgress, NextProgress, PTL DEF FilesSpec

\* Where a script has ended well and nobody has edited since, the same script
\* with --check succeeds: it wants nothing else of what it has made.
THEOREM CheckPassesAfterwards ==
  FilesSpec => [](phase = "ok" /\ quiet => CheckPasses(script, file))
  <1> DEFINE Passes == phase = "ok" /\ quiet => CheckPasses(script, file)
  <1>1. Progress => Passes
    <2> SUFFICES ASSUME Progress, phase = "ok", quiet PROVE CheckPasses(script, file)
      OBVIOUS
    <2>1. script \in Scripts /\ Current(script) /\ Acceptable(script, Read(script, file))
      BY DEF Progress
    <2>2. \A f \in ToSet(Targets[script]) : Wanted(script, f, Read(script, file), file) = Due(f, file)
      BY <2>1, WantedIsDue
    <2> QED
      BY <2>1, <2>2 DEF CheckPasses, Current, Due
  <1> HIDE DEF Passes
  <1>2. FilesSpec => []Passes
    BY <1>1, InitProgress, NextProgress, PTL DEF FilesSpec
  <1> QED
    BY <1>2 DEF Passes

-----------------------------------------------------------------------------
(* The files are well formed, whatever the scripts make of them.           *)

\* What a file may hold.
Held == Content \cup {Nothing}

\* What a script that runs has read, it can use.
ReadWell ==
  phase = "running" =>
    /\ DOMAIN input = Inputs[script]
    /\ \A f \in Inputs[script] : input[f] \in Held /\ input[f].form # "odd"

FilesInv == FilesTypeOK /\ ReadWell

\* What is made of a file's content is a file's content.
LEMMA MadeIsHeld ==
  ASSUME NEW c \in Held, NEW f \in Derived
  PROVE  /\ Made(f, c) \in Held
         /\ f \in Tables => Made(f, c).form = f
         /\ f \notin Tables /\ c.form # "odd" => Made(f, c).form # "odd"
  <1>1. c.version \in 0..MaxSourceEdits /\ c = [form |-> c.form, version |-> c.version]
    BY EditsAssumption DEF Held, Content, Nothing
  <1>2. CASE f \in Tables
    <2>1. Made(f, c) = [c EXCEPT !.form = f]
      <3>1. f # "jsr/mod.js" /\ f # "dist/index.js"
        BY <1>2 DEF Tables
      <3> QED
        BY <1>2, <3>1 DEF Made
    <2>2. [c EXCEPT !.form = f] = [form |-> f, version |-> c.version]
      BY <1>1
    <2> QED
      BY <1>1, <1>2, <2>1, <2>2 DEF Held, Content
  <1>3. CASE f \notin Tables
    <2>1. \/ Made(f, c) = [form |-> "esm", version |-> c.version]
          \/ Made(f, c) = [form |-> "wrapper", version |-> 0]
          \/ Made(f, c) = c
      BY <1>1, <1>3 DEF Made
    <2>2. 0 \in 0..MaxSourceEdits
      BY EditsAssumption
    <2> QED
      BY <1>1, <1>3, <2>1, <2>2 DEF Held, Content
  <1> QED
    BY <1>2, <1>3

\* What a script wants in a target, and what it may leave there.
LEMMA WantIsHeld ==
  ASSUME FilesInv, AtTarget
  PROVE  /\ done + 1 \in 1..Len(Targets[script])
         /\ Target \in Derived /\ Want \in Held
         /\ Target \in Tables => Want.form = Target
         /\ Target \in JsrFiles => Want.form # "odd"
  <1>1. /\ script \in Scripts /\ Len(Targets[script]) \in Nat
        /\ Targets[script] \in Seq(Derived) /\ DOMAIN Targets[script] = 1..Len(Targets[script])
    BY TargetList DEF FilesInv, FilesTypeOK
  <1>2. done + 1 \in 1..Len(Targets[script])
    BY <1>1 DEF AtTarget, FilesInv, FilesTypeOK
  <1>3. Target \in Derived /\ Target \in ToSet(Targets[script])
    BY <1>1, <1>2 DEF Target, ToSet
  <1>4. CASE Target = "dist/index.js"
    <2>1. Want = Made(Target, Nothing) /\ Nothing \in Held
      BY <1>4 DEF Want, Wanted, Held
    <2>2. Target \notin Tables /\ Target \notin JsrFiles
      BY <1>4 DEF Tables, JsrFiles
    <2> QED
      BY <1>2, <1>3, <2>1, <2>2, MadeIsHeld
  <1>5. CASE Target # "dist/index.js"
    <2> DEFINE c == IF Origin(Target) \in Inputs[script] THEN input[Origin(Target)] ELSE file[Origin(Target)]
    <2>1. Want = Made(Target, c)
      BY <1>5 DEF Want, Wanted
    <2>2. Origin(Target) \in Files
      BY <1>1, <1>3, <1>5, OriginApart
    <2>3. c \in Held
      BY <2>2 DEF FilesInv, FilesTypeOK, ReadWell, AtTarget, Held
    <2>4. Target \in JsrFiles => c.form # "odd" /\ Target \notin Tables
      <3> SUFFICES ASSUME Target \in JsrFiles PROVE c.form # "odd" /\ Target \notin Tables
        OBVIOUS
      <3>1. script = "build_jsr"
        <4>1. CASE script = "generate_fields"
          <5>1. ToSet(Targets[script]) = {"fields.generated.js", "fields.generated.cjs", "fields_generated.py"}
            BY <4>1 DEF Targets, ToSet
          <5> QED
            BY <1>3, <5>1 DEF JsrFiles
        <4>2. CASE script = "build_js"
          <5>1. ToSet(Targets[script]) = {"dist/index.cjs", "dist/fields.generated.cjs", "dist/cli.cjs",
                  "dist/index.d.ts", "dist/index.js"}
            BY <4>2 DEF Targets, ToSet
          <5> QED
            BY <1>3, <5>1 DEF JsrFiles
        <4> QED
          BY <1>1, <4>1, <4>2, ThreeScripts
      <3>2. Origin(Target) \in Inputs[script]
        BY <3>1 DEF Origin, Inputs, JsrFiles, Tables
      <3>3. c.form # "odd"
        BY <3>2 DEF FilesInv, ReadWell, AtTarget
      <3> QED
        BY <3>3 DEF JsrFiles, Tables
    <2> HIDE DEF c
    <2> QED
      BY <1>2, <1>3, <2>1, <2>3, <2>4, MadeIsHeld
  <1> QED
    BY <1>4, <1>5

\* A fresh checkout.
LEMMA InitFiles == FilesInit => FilesInv
  <1> SUFFICES ASSUME FilesInit PROVE FilesInv
    OBVIOUS
  <1> DEFINE first == [form |-> "source", version |-> 0]
             fields == [form |-> "fields.generated.js", version |-> 0]
             held == [f \in Files |-> IF f \in Sources THEN first
                                      ELSE IF f \in DistFiles THEN Nothing
                                      ELSE IF f = "jsr/fields.generated.js" THEN fields
                                      ELSE Made(f, first)]
  <1>1. file = held
    BY DEF FilesInit
  <1>2. first \in Held /\ fields \in Held /\ Nothing \in Held /\ first.form = "source" /\ fields.form # "odd"
    <2>1. 0 \in 0..MaxSourceEdits
      BY EditsAssumption
    <2> QED
      BY <2>1 DEF Held, Content, Tables
  <1> HIDE DEF first, fields
  <1>3. \A f \in Files : held[f] \in Held
    BY <1>2, MadeIsHeld DEF Files
  <1>4. \A f \in Tables \cup JsrFiles : f \in Derived /\ f \notin Sources /\ f \notin DistFiles
    <2>1. DistFiles = {"dist/index.cjs", "dist/fields.generated.cjs", "dist/cli.cjs", "dist/index.d.ts", "dist/index.js"}
      BY DEF DistFiles, Targets, ToSet
    <2> QED
      BY <2>1 DEF Tables, JsrFiles, Derived, Sources
  <1>5. \A f \in Tables : held[f].form = f
    <2>1. \A f \in Tables : f # "jsr/fields.generated.js" /\ f \in Files
      BY <1>4 DEF Tables, Files
    <2>2. \A f \in Tables : held[f] = Made(f, first)
      BY <1>4, <2>1
    <2> HIDE DEF held
    <2> QED
      BY <1>2, <1>4, <2>2, MadeIsHeld
  <1>6. \A f \in JsrFiles : held[f].form # "odd"
    <2>1. \A f \in JsrFiles : f \notin Tables /\ f \in Files
      BY <1>4 DEF Tables, JsrFiles, Files
    <2>2. \A f \in JsrFiles : held[f] = fields \/ held[f] = Made(f, first)
      BY <1>4, <2>1
    <2> HIDE DEF held
    <2> QED
      BY <1>2, <1>4, <2>1, <2>2, MadeIsHeld
  <1>7. "generate_fields" \in Scripts /\ 0 \in 0..Len(Targets["generate_fields"]) /\ 0 \in 0..MaxSourceEdits
    BY EditsAssumption, ThreeScripts, TargetList
  <1>8. file \in [Files -> Held]
    <2>1. held \in [Files -> Held]
      BY <1>3
    <2> QED
      BY <1>1, <2>1
  <1>9. DOMAIN input \subseteq Sources \cup Derived
    <2>1. input = <<>>
      BY DEF FilesInit
    <2>2. DOMAIN input = {}
      BY <2>1
    <2> QED
      BY <2>2
  <1> HIDE DEF held
  <1>10. /\ \A f \in JsrFiles : file[f].form # "odd"
         /\ \A f \in Tables : file[f].form \in {f, "nothing"}
    BY <1>1, <1>5, <1>6
  <1>11. /\ script \in Scripts /\ done \in 0..Len(Targets[script]) /\ sourceEdits \in 0..MaxSourceEdits
         /\ check \in BOOLEAN /\ stale \in BOOLEAN /\ quiet \in BOOLEAN /\ wrote \in BOOLEAN
         /\ phase = "idle"
    BY <1>7 DEF FilesInit
  <1> QED
    BY <1>8, <1>9, <1>10, <1>11 DEF FilesInv, FilesTypeOK, ReadWell, Held

\* People edit the sources only.
LEMMA EditFiles == ASSUME FilesInv, NEW f \in Sources, EditSource(f) PROVE FilesInv'
  <1>1. PICK form \in {"source", "odd"} :
          file' = [file EXCEPT ![f] = [form |-> form, version |-> sourceEdits + 1]]
    BY DEF EditSource
  <1>2. /\ sourceEdits' = sourceEdits + 1 /\ sourceEdits' \in 0..MaxSourceEdits /\ quiet' = FALSE
        /\ UNCHANGED <<script, check, phase, done, input, stale, wrote>>
    BY EditsAssumption DEF EditSource, FilesInv, FilesTypeOK
  <1>3. [form |-> form, version |-> sourceEdits + 1] \in Held
    BY <1>2 DEF Held, Content
  <1>4. f \notin JsrFiles /\ f \notin Tables
    BY DEF Sources, JsrFiles, Tables
  <1>5. file \in [Files -> Held]
    BY DEF FilesInv, FilesTypeOK, Held
  <1>6. file' \in [Files -> Held] /\ \A g \in Files \ {f} : file'[g] = file[g]
    BY <1>1, <1>3, <1>5
  <1>7. \A g \in JsrFiles \cup Tables : g \in Files /\ g # f
    BY <1>4 DEF Files, Derived
  <1>8. FilesTypeOK'
    BY <1>2, <1>6, <1>7 DEF FilesInv, FilesTypeOK, Held
  <1>9. ReadWell'
    BY <1>2 DEF FilesInv, ReadWell
  <1> QED
    BY <1>8, <1>9 DEF FilesInv

\* A run reads its inputs, or is refused.
LEMMA BeginFiles ==
  ASSUME FilesInv, NEW s \in Scripts, NEW verify \in BOOLEAN, BeginScript(s, verify)
  PROVE  FilesInv'
  <1>1. /\ script' = s /\ check' = verify /\ done' = 0 /\ input' = Read(s, file)
        /\ stale' = FALSE /\ quiet' = TRUE /\ wrote' = FALSE /\ file' = file /\ sourceEdits' = sourceEdits
        /\ phase' = IF Acceptable(s, Read(s, file)) THEN "running" ELSE "refused"
    BY DEF BeginScript
  <1>2. 0 \in 0..Len(Targets[s]) /\ Inputs[s] \subseteq Files
    BY TargetList
  <1>3. DOMAIN Read(s, file) = Inputs[s] /\ \A f \in Inputs[s] : Read(s, file)[f] = file[f]
    BY DEF Read
  <1>4. FilesTypeOK'
    <2>1. DOMAIN input' \subseteq Sources \cup Derived
      BY <1>1, <1>2, <1>3 DEF Files
    <2>2. done' \in 0..Len(Targets[script'])
      BY <1>1, <1>2
    <2> QED
      BY <1>1, <2>1, <2>2 DEF FilesInv, FilesTypeOK
  <1>5. ReadWell'
    <2> SUFFICES ASSUME Acceptable(s, Read(s, file)), NEW f \in Inputs[s]
                 PROVE  Read(s, file)[f] \in Held /\ Read(s, file)[f].form # "odd"
      BY <1>1, <1>3 DEF ReadWell
    <2> QED
      BY <1>2, <1>3 DEF Acceptable, FilesInv, FilesTypeOK, Held
  <1> QED
    BY <1>4, <1>5 DEF FilesInv

\* A target that is written, or truncated, stays well formed.
LEMMA PutFile ==
  ASSUME FilesInv, NEW f \in Derived, NEW c \in Held, f \in JsrFiles => c.form # "odd",
         f \in Tables => c.form \in {f, "nothing"}, file' = [file EXCEPT ![f] = c]
  PROVE  /\ file' \in [Files -> Held]
         /\ \A g \in JsrFiles : file'[g].form # "odd"
         /\ \A g \in Tables : file'[g].form \in {g, "nothing"}
  <1>1. file \in [Files -> Held] /\ f \in Files
    BY DEF FilesInv, FilesTypeOK, Held, Files
  <1>2. file' \in [Files -> Held] /\ file'[f] = c /\ \A g \in Files \ {f} : file'[g] = file[g]
    BY <1>1
  <1>3. \A g \in JsrFiles \cup Tables : g \in Files
    BY DEF Files, Derived
  <1> QED
    BY <1>2, <1>3 DEF FilesInv, FilesTypeOK

\* The next target is written, or compared.
LEMMA TargetFiles == ASSUME FilesInv, DealWithTarget PROVE FilesInv'
  <1>1. /\ AtTarget /\ done' = done + 1 /\ stale' = (stale \/ Want # file[Target])
        /\ UNCHANGED <<script, check, phase, input, sourceEdits, quiet>>
        /\ \/ file' = file /\ wrote' = wrote
           \/ file' = [file EXCEPT ![Target] = Want] /\ wrote' = TRUE
    BY DEF DealWithTarget
  <1>2. /\ done + 1 \in 1..Len(Targets[script])
        /\ Target \in Derived /\ Want \in Held
        /\ Target \in Tables => Want.form = Target
        /\ Target \in JsrFiles => Want.form # "odd"
    BY <1>1, WantIsHeld
  <1>3. /\ file' \in [Files -> Held]
        /\ \A g \in JsrFiles : file'[g].form # "odd"
        /\ \A g \in Tables : file'[g].form \in {g, "nothing"}
    <2>1. CASE file' = file
      BY <2>1 DEF FilesInv, FilesTypeOK, Held
    <2>2. CASE file' = [file EXCEPT ![Target] = Want]
      BY <1>2, <2>2, PutFile
    <2> QED
      BY <1>1, <2>1, <2>2
  <1>4. done' \in 0..Len(Targets[script'])
    <2>1. Len(Targets[script]) \in Nat
      BY TargetList DEF FilesInv, FilesTypeOK
    <2> QED
      BY <1>1, <1>2, <2>1
  <1>5. FilesTypeOK'
    BY <1>1, <1>3, <1>4 DEF FilesInv, FilesTypeOK, Held
  <1> QED
    BY <1>1, <1>5 DEF FilesInv, ReadWell

\* A script may leave a target truncated.
LEMMA KillFiles == ASSUME FilesInv, KillScript PROVE FilesInv'
  <1>1. /\ phase' = "killed" /\ UNCHANGED <<script, check, done, input, stale, sourceEdits, quiet>>
        /\ \/ file' = file /\ wrote' = wrote
           \/ AtTarget /\ file' = [file EXCEPT ![Target] = Nothing] /\ wrote' = TRUE
    BY DEF KillScript
  <1>2. /\ file' \in [Files -> Held]
        /\ \A g \in JsrFiles : file'[g].form # "odd"
        /\ \A g \in Tables : file'[g].form \in {g, "nothing"}
    <2>1. CASE file' = file
      BY <2>1 DEF FilesInv, FilesTypeOK, Held
    <2>2. CASE AtTarget /\ file' = [file EXCEPT ![Target] = Nothing]
      <3>1. Target \in Derived /\ Nothing \in Held /\ Nothing.form = "nothing"
        BY <2>2, WantIsHeld DEF Held, Nothing
      <3> QED
        BY <2>2, <3>1, PutFile
    <2> QED
      BY <1>1, <2>1, <2>2
  <1>3. FilesTypeOK'
    BY <1>1, <1>2 DEF FilesInv, FilesTypeOK, Held
  <1> QED
    BY <1>1, <1>3 DEF FilesInv, ReadWell

\* So every step keeps the files well formed.
LEMMA NextFiles == FilesInv /\ [FilesNext]_fileVars => FilesInv'
  <1> SUFFICES ASSUME FilesInv, [FilesNext]_fileVars PROVE FilesInv'
    OBVIOUS
  <1>1. CASE UNCHANGED fileVars
    BY <1>1 DEF fileVars, FilesInv, FilesTypeOK, ReadWell
  <1>2. CASE FinishScript
    BY <1>2 DEF FinishScript, FilesInv, FilesTypeOK, ReadWell
  <1> QED
    BY <1>1, <1>2, EditFiles, BeginFiles, TargetFiles, KillFiles DEF FilesNext

\* The files stay well formed, whatever is edited, made and killed: each table
\* of fields is of its own kind or missing, and no JSR file holds a form that
\* build-jsr would have refused.
THEOREM FilesTypeOKHolds == FilesSpec => []FilesTypeOK
  <1>1. FilesInv => FilesTypeOK
    BY DEF FilesInv
  <1> QED
    BY <1>1, InitFiles, NextFiles, PTL DEF FilesSpec

-----------------------------------------------------------------------------
(* The command: ranking the members of a finite set by a strict order.     *)

StrictOrder(D, R) ==
  /\ \A i \in D : <<i, i>> \notin R
  /\ \A i, j \in D : i # j => <<i, j>> \in R \/ <<j, i>> \in R
  /\ \A i, j, k \in D : <<i, j>> \in R /\ <<j, k>> \in R => <<i, k>> \in R

Below(D, R, i) == {j \in D : <<j, i>> \in R}
Rank(D, R, i) == Cardinality(Below(D, R, i))

\* Members that are different have different ranks, in their order.
LEMMA RankIsMonotone ==
  ASSUME NEW D, IsFiniteSet(D), NEW R, StrictOrder(D, R), NEW i \in D, NEW k \in D
  PROVE  /\ Rank(D, R, i) \in 0..(Cardinality(D) - 1)
         /\ <<i, k>> \in R => Rank(D, R, i) < Rank(D, R, k)
         /\ Rank(D, R, i) = Rank(D, R, k) => i = k
         /\ Rank(D, R, i) < Rank(D, R, k) => <<i, k>> \in R
  <1>1. ASSUME NEW x \in D, NEW y \in D, <<x, y>> \in R
        PROVE  Rank(D, R, x) < Rank(D, R, y)
    <2>1. Below(D, R, x) \subseteq Below(D, R, y)
      BY <1>1 DEF Below, StrictOrder
    <2>2. x \in Below(D, R, y) /\ x \notin Below(D, R, x)
      BY <1>1 DEF Below, StrictOrder
    <2>3. IsFiniteSet(Below(D, R, y))
      BY FS_Subset DEF Below
    <2>4. /\ Cardinality(Below(D, R, x)) <= Cardinality(Below(D, R, y))
          /\ Cardinality(Below(D, R, x)) # Cardinality(Below(D, R, y))
          /\ IsFiniteSet(Below(D, R, x))
      BY <2>1, <2>2, <2>3, FS_Subset
    <2>5. Cardinality(Below(D, R, x)) \in Nat /\ Cardinality(Below(D, R, y)) \in Nat
      BY <2>3, <2>4, FS_CardinalityType
    <2> QED
      BY <2>4, <2>5 DEF Rank
  <1>2. ASSUME NEW x \in D PROVE Rank(D, R, x) \in 0..(Cardinality(D) - 1)
    <2>1. Below(D, R, x) \subseteq D /\ x \notin Below(D, R, x)
      BY DEF Below, StrictOrder
    <2>2. /\ IsFiniteSet(Below(D, R, x))
          /\ Cardinality(Below(D, R, x)) <= Cardinality(D)
          /\ Cardinality(Below(D, R, x)) # Cardinality(D)
      BY <2>1, FS_Subset
    <2>3. Cardinality(Below(D, R, x)) \in Nat /\ Cardinality(D) \in Nat
      BY <2>2, FS_CardinalityType
    <2> QED
      BY <2>2, <2>3 DEF Rank
  <1>3. i = k \/ <<i, k>> \in R \/ <<k, i>> \in R
    BY DEF StrictOrder
  <1>4. Rank(D, R, i) \in Int /\ Rank(D, R, k) \in Int
    <2>1. Rank(D, R, i) \in 0..(Cardinality(D) - 1) /\ Rank(D, R, k) \in 0..(Cardinality(D) - 1)
      BY <1>2
    <2> QED
      BY <2>1
  <1>5. (<<i, k>> \in R => Rank(D, R, i) < Rank(D, R, k)) /\ (<<k, i>> \in R => Rank(D, R, k) < Rank(D, R, i))
    BY <1>1
  <1> QED
    BY <1>2, <1>3, <1>4, <1>5

\* Every rank is somebody's.
LEMMA RankIsTaken ==
  ASSUME NEW D, IsFiniteSet(D), NEW R, StrictOrder(D, R), NEW n \in 1..Cardinality(D)
  PROVE  \E i \in D : Rank(D, R, i) = n - 1
  <1> DEFINE m == Cardinality(D)
             T == (0..(m - 1)) \ {n - 1}
             f == [i \in D |-> Rank(D, R, i)]
  <1>1. m \in Nat /\ n - 1 \in 0..(m - 1)
    <2>1. m \in Nat
      BY FS_CardinalityType
    <2> QED
      BY <2>1
  <1> HIDE DEF m
  <1>2. IsFiniteSet(0..(m - 1)) /\ Cardinality(0..(m - 1)) = m
    <2>1. 0 \in Int /\ m - 1 \in Int
      BY <1>1
    <2>2. /\ IsFiniteSet(0..(m - 1))
          /\ Cardinality(0..(m - 1)) = IF 0 > m - 1 THEN 0 ELSE (m - 1) - 0 + 1
      BY <2>1, FS_Interval
    <2> QED
      BY <1>1, <2>2
  <1>3. IsFiniteSet(T) /\ Cardinality(T) = m - 1
    BY <1>1, <1>2, FS_RemoveElement
  <1> SUFFICES ASSUME \A i \in D : Rank(D, R, i) # n - 1 PROVE FALSE
    OBVIOUS
  <1>4. f \in [D -> T]
    BY RankIsMonotone DEF m
  <1>5. Cardinality(T) < Cardinality(D)
    BY <1>1, <1>3 DEF m
  <1> HIDE DEF T
  <1>6. PICK x \in D, y \in D : x # y /\ f[x] = f[y]
    <2> HIDE DEF f
    <2> QED
      BY <1>3, <1>4, <1>5, FS_PigeonHole
  <1>7. Rank(D, R, x) = Rank(D, R, y)
    BY <1>6
  <1> QED
    BY <1>6, <1>7, RankIsMonotone

\* The member that has the n-th place.
Place(D, R, n) == CHOOSE i \in D : Rank(D, R, i) = n - 1

\* Places are in the order, and everybody has one.
LEMMA PlacesInOrder ==
  ASSUME NEW D, IsFiniteSet(D), NEW R, StrictOrder(D, R)
  PROVE  /\ Cardinality(D) \in Nat
         /\ \A n \in 1..Cardinality(D) : Place(D, R, n) \in D /\ Rank(D, R, Place(D, R, n)) = n - 1
         /\ \A n, k \in 1..Cardinality(D) : n < k => <<Place(D, R, n), Place(D, R, k)>> \in R
         /\ \A i \in D : \E n \in 1..Cardinality(D) : i = Place(D, R, n)
  <1>1. Cardinality(D) \in Nat
    BY FS_CardinalityType
  <1>2. \A n \in 1..Cardinality(D) : Place(D, R, n) \in D /\ Rank(D, R, Place(D, R, n)) = n - 1
    BY RankIsTaken DEF Place
  <1>3. ASSUME NEW n \in 1..Cardinality(D), NEW k \in 1..Cardinality(D), n < k
        PROVE  <<Place(D, R, n), Place(D, R, k)>> \in R
    BY <1>2, <1>3, RankIsMonotone
  <1>4. ASSUME NEW i \in D PROVE \E n \in 1..Cardinality(D) : i = Place(D, R, n)
    <2>1. Rank(D, R, i) \in 0..(Cardinality(D) - 1)
      BY RankIsMonotone
    <2>2. Rank(D, R, i) + 1 \in 1..Cardinality(D) /\ (Rank(D, R, i) + 1) - 1 = Rank(D, R, i)
      BY <1>1, <2>1
    <2>3. i = Place(D, R, Rank(D, R, i) + 1)
      <3>1. Place(D, R, Rank(D, R, i) + 1) \in D
            /\ Rank(D, R, Place(D, R, Rank(D, R, i) + 1)) = Rank(D, R, i)
        BY <1>2, <2>2
      <3> QED
        BY <3>1, RankIsMonotone
    <2> QED
      BY <2>2, <2>3
  <1> QED
    BY <1>1, <1>2, <1>3, <1>4

-----------------------------------------------------------------------------
(* Comparing vectors of integers: the first difference decides.            *)

LexLess(m, u, v) == \E i \in 1..m : u[i] < v[i] /\ \A j \in 1..(i - 1) : u[j] = v[j]

\* A set of naturals that is not empty has a minimum, and Min is it.
LEMMA MinOfNaturals ==
  ASSUME NEW S \in SUBSET Nat, S # {}
  PROVE  /\ Min(S) \in S
         /\ \A x \in S : Min(S) <= x
  <1>1. PICK x \in S : \A y \in S : ~(<<y, x>> \in OpToRel(<, Nat))
    BY NatLessThanWellFounded, WFMin
  <1>2. ASSUME NEW y \in S PROVE x <= y
    <2>1. x \in Nat /\ y \in Nat
      OBVIOUS
    <2>2. y < x => <<y, x>> \in OpToRel(<, Nat)
      BY <2>1 DEF OpToRel
    <2>3. ~(y < x)
      BY <1>1, <2>2, Zenon
    <2> QED
      BY <2>1, <2>3
  <1> QED
    BY <1>1, <1>2 DEF Min

\* No vector is less than itself.
LEMMA LexIrreflexive ==
  ASSUME NEW m \in Nat, NEW u \in [1..m -> Int]
  PROVE  ~LexLess(m, u, u)
  BY DEF LexLess

\* The order of vectors is transitive.
LEMMA LexTransitive ==
  ASSUME NEW m \in Nat, NEW u \in [1..m -> Int], NEW v \in [1..m -> Int], NEW w \in [1..m -> Int],
         LexLess(m, u, v), LexLess(m, v, w)
  PROVE  LexLess(m, u, w)
  <1>1. PICK i \in 1..m : u[i] < v[i] /\ \A j \in 1..(i - 1) : u[j] = v[j]
    BY DEF LexLess
  <1>2. PICK k \in 1..m : v[k] < w[k] /\ \A j \in 1..(k - 1) : v[j] = w[j]
    BY DEF LexLess
  <1>3. \A x \in 1..m : u[x] \in Int /\ v[x] \in Int /\ w[x] \in Int
    OBVIOUS
  <1>4. CASE i < k
    <2>1. u[i] < w[i] /\ \A j \in 1..(i - 1) : u[j] = w[j]
      BY <1>1, <1>2, <1>3, <1>4
    <2> QED
      BY <2>1 DEF LexLess
  <1>5. CASE i = k
    <2>1. u[i] < w[i] /\ \A j \in 1..(i - 1) : u[j] = w[j]
      BY <1>1, <1>2, <1>3, <1>5
    <2> QED
      BY <2>1 DEF LexLess
  <1>6. CASE k < i
    <2>1. u[k] < w[k] /\ \A j \in 1..(k - 1) : u[j] = w[j]
      BY <1>1, <1>2, <1>3, <1>6
    <2> QED
      BY <2>1 DEF LexLess
  <1>7. i < k \/ i = k \/ k < i
    OBVIOUS
  <1> QED
    BY <1>4, <1>5, <1>6, <1>7

\* Vectors that differ are in one order or the other, not in both.
LEMMA LexTotal ==
  ASSUME NEW m \in Nat, NEW u \in [1..m -> Int], NEW v \in [1..m -> Int]
  PROVE  u = v \/ LexLess(m, u, v) \/ LexLess(m, v, u)
  <1> DEFINE D == {i \in 1..m : u[i] # v[i]}
  <1>1. CASE D = {}
    <2>1. \A i \in 1..m : u[i] = v[i]
      BY <1>1
    <2> QED
      BY <2>1
  <1>2. CASE D # {}
    <2>1. D \in SUBSET Nat
      OBVIOUS
    <2> DEFINE d == Min(D)
    <2>2. d \in D /\ \A x \in D : d <= x
      BY <1>2, <2>1, MinOfNaturals
    <2> HIDE DEF d
    <2>3. d \in 1..m /\ u[d] # v[d]
      BY <2>2
    <2>4. \A j \in 1..(d - 1) : u[j] = v[j]
      <3> SUFFICES ASSUME NEW j \in 1..(d - 1), u[j] # v[j] PROVE FALSE
        OBVIOUS
      <3>1. j \in D /\ ~(d <= j)
        BY <2>3
      <3> QED
        BY <2>2, <3>1
    <2>5. u[d] < v[d] \/ v[d] < u[d]
      <3>1. u[d] \in Int /\ v[d] \in Int
        BY <2>3
      <3> QED
        BY <2>3, <3>1
    <2> QED
      BY <2>3, <2>4, <2>5 DEF LexLess
  <1> QED
    BY <1>1, <1>2

-----------------------------------------------------------------------------
(* The comparator of sortProxies.                                          *)

\* The fields of a row that decide its rank have their types.
Rankable(p) ==
  /\ p.uptime7d \in Int \cup NoValue /\ p.latencyMs \in Int \cup NoValue
  /\ p.protocol \in Protocols /\ p.ip \in [1..4 -> Nat] /\ p.port \in Nat

\* What the comparator compares, most important first.
Key(p) ==
  [i \in 1..10 |->
     CASE i = 1 -> IF Given(p.uptime7d) THEN 0 ELSE 1
       [] i = 2 -> -Or0(p.uptime7d)
       [] i = 3 -> IF Given(p.latencyMs) THEN 0 ELSE 1
       [] i = 4 -> Or0(p.latencyMs)
       [] OTHER -> UrlKey(p)[i - 4]]

\* What stands for a missing or an odd value is no number.
LEMMA NoNumbers == Null \notin Int /\ Undefined \notin Int /\ Odd \notin Int
  BY ValuesAssumption DEF Missing

\* A function on 1..m is a sequence of length m.
LEMMA VectorIsSeq ==
  ASSUME NEW S, NEW m \in Nat, NEW v \in [1..m -> S]
  PROVE  v \in Seq(S) /\ Len(v) = m
  <1>1. v \in Seq(S)
    BY SeqDef
  <1>2. DOMAIN v = 1..m /\ DOMAIN v = 1..Len(v) /\ Len(v) \in Nat
    BY <1>1, LenProperties
  <1> QED
    BY <1>1, <1>2

\* The URL of a row is compared as six numbers.
LEMMA UrlKeyIsVector ==
  ASSUME NEW p, Rankable(p)
  PROVE  UrlKey(p) \in [1..6 -> Int]
  <1>1. ProtocolOrder[p.protocol] \in Int
    BY DEF Rankable, Protocols, ProtocolOrder
  <1>2. p.ip \in Seq(Int) /\ Len(p.ip) = 4
    <2>1. p.ip \in [1..4 -> Int]
      BY DEF Rankable
    <2> QED
      BY <2>1, VectorIsSeq
  <1>3. p.port \in Int
    BY DEF Rankable
  <1> DEFINE a == <<ProtocolOrder[p.protocol]>>
             c == <<p.port>>
  <1>4. a \in Seq(Int) /\ Len(a) = 1 /\ c \in Seq(Int) /\ Len(c) = 1
    BY <1>1, <1>3
  <1> HIDE DEF a, c
  <1> DEFINE q == p.ip
             e == a \o q
  <1>5. q \in Seq(Int) /\ Len(q) = 4
    BY <1>2
  <1> HIDE DEF q
  <1>6. e \in Seq(Int) /\ Len(e) = 5
    <2>1. e \in Seq(Int) /\ Len(e) = Len(a) + Len(q)
      BY <1>4, <1>5, ConcatProperties, Zenon
    <2> QED
      BY <1>4, <1>5, <2>1
  <1> HIDE DEF e
  <1>7. e \o c \in Seq(Int) /\ Len(e \o c) = 6
    <2>1. e \o c \in Seq(Int) /\ Len(e \o c) = Len(e) + Len(c)
      BY <1>4, <1>6, ConcatProperties, Zenon
    <2> QED
      BY <1>4, <1>6, <2>1
  <1>8. UrlKey(p) = e \o c
    BY DEF UrlKey, a, c, e, q
  <1> QED
    BY <1>7, <1>8, LenProperties

\* The whole row is compared as ten.
LEMMA KeyIsVector ==
  ASSUME NEW p, Rankable(p)
  PROVE  /\ Key(p) \in [1..10 -> Int]
         /\ Key(p)[1] = IF Given(p.uptime7d) THEN 0 ELSE 1
         /\ Key(p)[2] = -Or0(p.uptime7d)
         /\ Key(p)[3] = IF Given(p.latencyMs) THEN 0 ELSE 1
         /\ Key(p)[4] = Or0(p.latencyMs)
         /\ \A i \in 1..6 : Key(p)[i + 4] = UrlKey(p)[i]
  <1>1. UrlKey(p) \in [1..6 -> Int]
    BY UrlKeyIsVector
  <1>2. Or0(p.uptime7d) \in Int /\ Or0(p.latencyMs) \in Int
    BY DEF Rankable, Or0, Given
  <1>3. \A i \in 1..10 : i \notin 1..4 => i - 4 \in 1..6
    OBVIOUS
  <1>4. \A i \in 1..6 : i + 4 \in 1..10 /\ i + 4 \notin 1..4 /\ (i + 4) - 4 = i
    OBVIOUS
  <1>5. /\ Key(p)[1] = IF Given(p.uptime7d) THEN 0 ELSE 1
        /\ Key(p)[2] = -Or0(p.uptime7d)
        /\ Key(p)[3] = IF Given(p.latencyMs) THEN 0 ELSE 1
        /\ Key(p)[4] = Or0(p.latencyMs)
    BY DEF Key
  <1>6. \A i \in 1..10 : i \notin 1..4 => Key(p)[i] = UrlKey(p)[i - 4]
    BY DEF Key
  <1>7. \A i \in 1..10 : Key(p)[i] \in Int
    <2> SUFFICES ASSUME NEW i \in 1..10 PROVE Key(p)[i] \in Int
      OBVIOUS
    <2>1. CASE i \in 1..4
      BY <1>2, <1>5, <2>1
    <2>2. CASE i \notin 1..4
      BY <1>1, <1>3, <1>6, <2>2
    <2> QED
      BY <2>1, <2>2
  <1>8. Key(p) = [i \in 1..10 |-> Key(p)[i]]
    BY DEF Key
  <1>9. \A i \in 1..6 : Key(p)[i + 4] = UrlKey(p)[i]
    BY <1>4, <1>6
  <1> HIDE DEF Key
  <1> QED
    BY <1>5, <1>7, <1>8, <1>9

\* CompareUrls subtracts where the URLs first differ.
LEMMA UrlComparison ==
  ASSUME NEW a, NEW b, Rankable(a), Rankable(b)
  PROVE  \/ UrlKey(a) = UrlKey(b) /\ CompareUrls(a, b) = 0
         \/ \E d \in 1..6 :
              /\ UrlKey(a)[d] # UrlKey(b)[d]
              /\ \A j \in 1..(d - 1) : UrlKey(a)[j] = UrlKey(b)[j]
              /\ CompareUrls(a, b) = UrlKey(a)[d] - UrlKey(b)[d]
  <1> DEFINE u == UrlKey(a)
             v == UrlKey(b)
             D == {i \in DOMAIN u : u[i] # v[i]}
  <1>1. u \in [1..6 -> Int] /\ v \in [1..6 -> Int]
    BY UrlKeyIsVector
  <1>2. CompareUrls(a, b) = IF D = {} THEN 0 ELSE u[Min(D)] - v[Min(D)]
    BY DEF CompareUrls
  <1> HIDE DEF u, v
  <1>3. DOMAIN u = 1..6 /\ D \in SUBSET Nat
    BY <1>1
  <1>4. CASE D = {}
    <2>1. u = v
      BY <1>1, <1>4
    <2> QED
      BY <1>2, <1>4, <2>1 DEF u, v
  <1>5. CASE D # {}
    <2> DEFINE d == Min(D)
    <2>1. d \in D /\ \A x \in D : d <= x
      BY <1>3, <1>5, MinOfNaturals
    <2>2. CompareUrls(a, b) = u[d] - v[d]
      BY <1>2, <1>5
    <2> HIDE DEF d
    <2>3. d \in 1..6 /\ u[d] # v[d]
      BY <1>3, <2>1
    <2>4. ASSUME NEW j \in 1..(d - 1), u[j] # v[j] PROVE FALSE
      <3>1. j \in D /\ ~(d <= j)
        BY <1>3, <2>3, <2>4
      <3> QED
        BY <2>1, <3>1
    <2> QED
      BY <2>2, <2>3, <2>4 DEF u, v
  <1> QED
    BY <1>4, <1>5

\* (x == null) - (y == null)
LEMMA NullsDiffer ==
  ASSUME NEW x, NEW y
  PROVE  Cardinality({x} \cap NoValue) - Cardinality({y} \cap NoValue)
           = (IF Given(x) THEN 0 ELSE 1) - (IF Given(y) THEN 0 ELSE 1)
  <1>1. ASSUME NEW z PROVE Cardinality({z} \cap NoValue) = IF Given(z) THEN 0 ELSE 1
    <2>1. CASE Given(z)
      <3>1. {z} \cap NoValue = {}
        BY <2>1 DEF Given
      <3> QED
        BY <2>1, <3>1, FS_EmptySet
    <2>2. CASE ~Given(z)
      <3>1. {z} \cap NoValue = {z}
        BY <2>2 DEF Given
      <3> QED
        BY <2>2, <3>1, FS_Singleton
    <2> QED
      BY <2>1, <2>2
  <1> QED
    BY <1>1

\* Of five numbers the first that is not 0.
First5(k1, k2, k3, k4, k5) ==
  IF k1 # 0 THEN k1 ELSE IF k2 # 0 THEN k2 ELSE IF k3 # 0 THEN k3 ELSE IF k4 # 0 THEN k4 ELSE k5

\* As Compare looks for it.
FirstOf(keys) ==
  LET told == {i \in DOMAIN keys : keys[i] # 0} IN IF told = {} THEN 0 ELSE keys[Min(told)]

\* Compare's search, spelled out.
LEMMA FirstNotZero ==
  ASSUME NEW k1 \in Int, NEW k2 \in Int, NEW k3 \in Int, NEW k4 \in Int, NEW k5 \in Int
  PROVE  FirstOf(<<k1, k2, k3, k4, k5>>) = First5(k1, k2, k3, k4, k5)
  <1> DEFINE keys == <<k1, k2, k3, k4, k5>>
             told == {i \in DOMAIN keys : keys[i] # 0}
  <1>1. /\ DOMAIN keys = {1, 2, 3, 4, 5}
        /\ keys[1] = k1 /\ keys[2] = k2 /\ keys[3] = k3 /\ keys[4] = k4 /\ keys[5] = k5
    OBVIOUS
  <1>2. told \in SUBSET Nat
    BY <1>1
  <1>0. FirstOf(keys) = IF told = {} THEN 0 ELSE keys[Min(told)]
    BY DEF FirstOf
  <1> HIDE DEF keys
  <1>3. CASE told = {}
    <2>1. k1 = 0 /\ k2 = 0 /\ k3 = 0 /\ k4 = 0 /\ k5 = 0
      BY <1>1, <1>3
    <2> QED
      BY <1>0, <1>3, <2>1 DEF First5, keys
  <1>4. CASE told # {}
    <2> DEFINE d == Min(told)
    <2>1. d \in told /\ \A x \in told : d <= x
      BY <1>2, <1>4, MinOfNaturals
    <2> HIDE DEF d
    <2>2. d \in {1, 2, 3, 4, 5} /\ keys[d] # 0
      BY <1>1, <2>1
    <2>3. \A i \in {1, 2, 3, 4, 5} : keys[i] # 0 => d <= i
      BY <1>1, <2>1
    <2>4. keys[d] = First5(k1, k2, k3, k4, k5)
      BY <1>1, <2>2, <2>3 DEF First5
    <2> QED
      BY <1>0, <1>4, <2>4 DEF d, keys
  <1> QED
    BY <1>3, <1>4

\* Compare returns the first of the differences that is not 0.
LEMMA CompareIsFirst ==
  ASSUME NEW a, NEW b, Rankable(a), Rankable(b)
  PROVE  Compare(a, b) = First5(Key(a)[1] - Key(b)[1], Key(a)[2] - Key(b)[2],
                                Key(a)[3] - Key(b)[3], Key(a)[4] - Key(b)[4], CompareUrls(a, b))
  <1> DEFINE k1 == Cardinality({a.uptime7d} \cap NoValue) - Cardinality({b.uptime7d} \cap NoValue)
             k2 == Or0(b.uptime7d) - Or0(a.uptime7d)
             k3 == Cardinality({a.latencyMs} \cap NoValue) - Cardinality({b.latencyMs} \cap NoValue)
             k4 == Or0(a.latencyMs) - Or0(b.latencyMs)
             k5 == CompareUrls(a, b)
  <1>1. Or0(a.uptime7d) \in Int /\ Or0(b.uptime7d) \in Int /\ Or0(a.latencyMs) \in Int /\ Or0(b.latencyMs) \in Int
    BY DEF Rankable, Or0, Given
  <1>2. k1 = Key(a)[1] - Key(b)[1] /\ k1 \in Int
    BY NullsDiffer, KeyIsVector
  <1>3. k2 = Key(a)[2] - Key(b)[2] /\ k2 \in Int
    BY <1>1, KeyIsVector
  <1>4. k3 = Key(a)[3] - Key(b)[3] /\ k3 \in Int
    BY NullsDiffer, KeyIsVector
  <1>5. k4 = Key(a)[4] - Key(b)[4] /\ k4 \in Int
    BY <1>1, KeyIsVector
  <1>6. k5 \in Int
    <2>1. UrlKey(a) \in [1..6 -> Int] /\ UrlKey(b) \in [1..6 -> Int]
      BY UrlKeyIsVector
    <2> QED
      BY <2>1, UrlComparison
  <1>7. Compare(a, b) = FirstOf(<<k1, k2, k3, k4, k5>>)
    BY DEF Compare, FirstOf
  <1> HIDE DEF k1, k2, k3, k4, k5
  <1>8. Compare(a, b) = First5(k1, k2, k3, k4, k5)
    <2>1. k1 \in Int /\ k2 \in Int /\ k3 \in Int /\ k4 \in Int /\ k5 \in Int
      BY <1>2, <1>3, <1>4, <1>5, <1>6
    <2>2. FirstOf(<<k1, k2, k3, k4, k5>>) = First5(k1, k2, k3, k4, k5)
      BY <2>1, FirstNotZero
    <2> QED
      BY <1>7, <2>2
  <1> QED
    BY <1>2, <1>3, <1>4, <1>5, <1>8 DEF k5

\* So its sign is the lexicographic order of the keys.
LEMMA CompareHasSign ==
  ASSUME NEW a, NEW b, Rankable(a), Rankable(b)
  PROVE  /\ Compare(a, b) \in Int
         /\ Compare(a, b) < 0 => LexLess(10, Key(a), Key(b))
         /\ Compare(a, b) = 0 => Key(a) = Key(b)
         /\ Compare(a, b) > 0 => LexLess(10, Key(b), Key(a))
  <1> DEFINE u == Key(a)
             v == Key(b)
             c == Compare(a, b)
             k5 == CompareUrls(a, b)
  <1>1. c = First5(u[1] - v[1], u[2] - v[2], u[3] - v[3], u[4] - v[4], k5)
    BY CompareIsFirst
  <1>2. u \in [1..10 -> Int] /\ v \in [1..10 -> Int]
    BY KeyIsVector
  <1>3. \/ k5 = 0 /\ \A i \in 5..10 : u[i] = v[i]
        \/ \E d \in 5..10 : u[d] # v[d] /\ k5 = u[d] - v[d] /\ \A j \in 5..(d - 1) : u[j] = v[j]
    <2>1. \A i \in 1..6 : u[i + 4] = UrlKey(a)[i] /\ v[i + 4] = UrlKey(b)[i]
      BY KeyIsVector
    <2>2. \A j \in 5..10 : j - 4 \in 1..6 /\ (j - 4) + 4 = j
      OBVIOUS
    <2>3. \A j \in 5..10 : u[j] = UrlKey(a)[j - 4] /\ v[j] = UrlKey(b)[j - 4]
      BY <2>1, <2>2
    <2> HIDE DEF u, v, k5
    <2>4. CASE UrlKey(a) = UrlKey(b) /\ k5 = 0
      BY <2>3, <2>4
    <2>5. ASSUME NEW d \in 1..6, UrlKey(a)[d] # UrlKey(b)[d], k5 = UrlKey(a)[d] - UrlKey(b)[d],
                 \A j \in 1..(d - 1) : UrlKey(a)[j] = UrlKey(b)[j]
          PROVE  u[d + 4] # v[d + 4] /\ k5 = u[d + 4] - v[d + 4] /\ \A j \in 5..((d + 4) - 1) : u[j] = v[j]
      <3>1. \A j \in 5..((d + 4) - 1) : j \in 5..10 /\ j - 4 \in 1..(d - 1)
        OBVIOUS
      <3> QED
        BY <2>1, <2>3, <2>5, <3>1
    <2>6. \A d \in 1..6 : d + 4 \in 5..10
      OBVIOUS
    <2> QED
      BY <2>4, <2>5, <2>6, UrlComparison DEF k5
  <1> HIDE DEF u, v, c, k5
  <1>4. \A i \in 1..10 : u[i] \in Int /\ v[i] \in Int
    BY <1>2
  <1>5. ASSUME NEW i \in 1..10, u[i] # v[i], \A j \in 1..(i - 1) : u[j] = v[j], c = u[i] - v[i]
        PROVE  /\ c \in Int /\ c # 0
               /\ c < 0 => LexLess(10, u, v)
               /\ c > 0 => LexLess(10, v, u)
    <2>1. c \in Int /\ c # 0 /\ (c < 0 => u[i] < v[i]) /\ (c > 0 => v[i] < u[i])
      BY <1>4, <1>5
    <2> QED
      BY <1>5, <2>1 DEF LexLess
  <1>6. CASE u[1] # v[1]
    <2>0. u[1] - v[1] # 0 /\ 1 \in 1..10 /\ \A j \in 1..(1 - 1) : u[j] = v[j]
      <3>1. u[1] \in Int /\ v[1] \in Int
        BY <1>4
      <3> QED
        BY <1>6, <3>1
    <2>1. c = u[1] - v[1]
      BY <1>1, <2>0 DEF First5
    <2> QED
      BY <1>5, <1>6, <2>0, <2>1 DEF u, v, c
  <1>7. CASE u[1] = v[1] /\ u[2] # v[2]
    <2>1. c = u[2] - v[2] /\ \A j \in 1..(2 - 1) : u[j] = v[j]
      BY <1>1, <1>4, <1>7 DEF First5
    <2> QED
      BY <1>5, <1>7, <2>1 DEF u, v, c
  <1>8. CASE u[1] = v[1] /\ u[2] = v[2] /\ u[3] # v[3]
    <2>1. c = u[3] - v[3] /\ \A j \in 1..(3 - 1) : u[j] = v[j]
      BY <1>1, <1>4, <1>8 DEF First5
    <2> QED
      BY <1>5, <1>8, <2>1 DEF u, v, c
  <1>9. CASE u[1] = v[1] /\ u[2] = v[2] /\ u[3] = v[3] /\ u[4] # v[4]
    <2>1. c = u[4] - v[4] /\ \A j \in 1..(4 - 1) : u[j] = v[j]
      BY <1>1, <1>4, <1>9 DEF First5
    <2> QED
      BY <1>5, <1>9, <2>1 DEF u, v, c
  <1>10. CASE u[1] = v[1] /\ u[2] = v[2] /\ u[3] = v[3] /\ u[4] = v[4]
    <2>1. c = k5
      BY <1>1, <1>4, <1>10 DEF First5
    <2>2. CASE k5 = 0 /\ \A i \in 5..10 : u[i] = v[i]
      <3>1. \A i \in 1..10 : u[i] = v[i]
        BY <1>10, <2>2
      <3>2. u = v
        BY <1>2, <3>1
      <3> QED
        BY <2>1, <2>2, <3>2 DEF u, v, c
    <2>3. ASSUME NEW d \in 5..10, u[d] # v[d], k5 = u[d] - v[d], \A j \in 5..(d - 1) : u[j] = v[j]
          PROVE  /\ c \in Int /\ c # 0
                 /\ c < 0 => LexLess(10, u, v)
                 /\ c > 0 => LexLess(10, v, u)
      <3>1. \A j \in 1..(d - 1) : u[j] = v[j]
        BY <1>10, <2>3
      <3> QED
        BY <1>5, <2>1, <2>3, <3>1
    <2> QED
      BY <1>3, <2>2, <2>3 DEF u, v, c
  <1> QED
    BY <1>6, <1>7, <1>8, <1>9, <1>10

\* The order of sortProxies, of rows and of their places.
Before(rs, i, j) ==
  \/ LexLess(10, Key(rs[i]), Key(rs[j]))
  \/ Key(rs[i]) = Key(rs[j]) /\ i < j

\* Compare says which key is less, and is antisymmetric.
LEMMA CompareIsOrder ==
  ASSUME NEW a, NEW b, Rankable(a), Rankable(b)
  PROVE  /\ Compare(a, b) < 0 <=> LexLess(10, Key(a), Key(b))
         /\ Compare(a, b) = 0 <=> Key(a) = Key(b)
         /\ Compare(a, b) < 0 <=> Compare(b, a) > 0
  <1>1. /\ Compare(a, b) \in Int
        /\ Compare(a, b) < 0 => LexLess(10, Key(a), Key(b))
        /\ Compare(a, b) = 0 => Key(a) = Key(b)
        /\ Compare(a, b) > 0 => LexLess(10, Key(b), Key(a))
    BY CompareHasSign
  <1>2. /\ Compare(b, a) \in Int
        /\ Compare(b, a) < 0 => LexLess(10, Key(b), Key(a))
        /\ Compare(b, a) = 0 => Key(b) = Key(a)
        /\ Compare(b, a) > 0 => LexLess(10, Key(a), Key(b))
    BY CompareHasSign
  <1>3. Key(a) \in [1..10 -> Int] /\ Key(b) \in [1..10 -> Int]
    BY KeyIsVector
  <1>4. ~(LexLess(10, Key(a), Key(b)) /\ LexLess(10, Key(b), Key(a)))
    BY <1>3, LexTransitive, LexIrreflexive
  <1>5. Key(a) = Key(b) => ~LexLess(10, Key(a), Key(b)) /\ ~LexLess(10, Key(b), Key(a))
    BY <1>3, LexIrreflexive
  <1>6. \A x \in Int : x < 0 \/ x = 0 \/ x > 0
    OBVIOUS
  <1>7. \A x \in Int : ~(x < 0 /\ x > 0) /\ (x = 0 => ~(x < 0) /\ ~(x > 0))
    OBVIOUS
  <1> QED
    BY <1>1, <1>2, <1>4, <1>5, <1>6, <1>7

-----------------------------------------------------------------------------
(* What sort and slice return.                                             *)

AllRankable(rs, D) == \A i \in D : Rankable(rs[i])

Order(rs, D) == {x \in D \X D : Before(rs, x[1], x[2])}

\* The pairs of the order.
LEMMA OrderIsBefore ==
  ASSUME NEW rs, NEW D, NEW i \in D, NEW j \in D
  PROVE  <<i, j>> \in Order(rs, D) <=> Before(rs, i, j)
  BY DEF Order

\* The comparator, and the places where it is undecided, order the rows.
LEMMA OrderIsStrict ==
  ASSUME NEW rs, NEW D \in SUBSET Nat, AllRankable(rs, D)
  PROVE  StrictOrder(D, Order(rs, D))
  <1>1. \A i \in D : Key(rs[i]) \in [1..10 -> Int]
    BY KeyIsVector DEF AllRankable
  <1>2. ASSUME NEW i \in D PROVE ~Before(rs, i, i)
    <2>1. ~LexLess(10, Key(rs[i]), Key(rs[i]))
      BY <1>1, LexIrreflexive
    <2>2. ~(i < i)
      OBVIOUS
    <2> QED
      BY <2>1, <2>2 DEF Before
  <1>3. ASSUME NEW i \in D, NEW j \in D, i # j PROVE Before(rs, i, j) \/ Before(rs, j, i)
    <2>1. \/ Key(rs[i]) = Key(rs[j])
          \/ LexLess(10, Key(rs[i]), Key(rs[j])) \/ LexLess(10, Key(rs[j]), Key(rs[i]))
      BY <1>1, LexTotal
    <2>2. i < j \/ j < i
      BY <1>3
    <2> QED
      BY <2>1, <2>2 DEF Before
  <1>4. ASSUME NEW i \in D, NEW j \in D, NEW k \in D, Before(rs, i, j), Before(rs, j, k)
        PROVE  Before(rs, i, k)
    <2> DEFINE u == Key(rs[i])
               v == Key(rs[j])
               w == Key(rs[k])
    <2>1. u \in [1..10 -> Int] /\ v \in [1..10 -> Int] /\ w \in [1..10 -> Int]
      BY <1>1
    <2>2. LexLess(10, u, v) /\ LexLess(10, v, w) => LexLess(10, u, w)
      BY <2>1, LexTransitive
    <2>3. i < j /\ j < k => i < k
      OBVIOUS
    <2> QED
      BY <1>4, <2>2, <2>3 DEF Before
  <1> QED
    BY <1>2, <1>3, <1>4, OrderIsBefore DEF StrictOrder

\* sort puts at each place the row whose rank it is.
LEMMA SortedByPlace ==
  ASSUME NEW rs, NEW D \in SUBSET Nat, AllRankable(rs, D)
  PROVE  Sorted(rs, D) = [n \in 1..Cardinality(D) |-> rs[Place(D, Order(rs, D), n)]]
  <1> DEFINE R == Order(rs, D)
             earlier(i) == {j \in D : Compare(rs[j], rs[i]) < 0
                                     \/ (Compare(rs[j], rs[i]) = 0 /\ j < i)}
             chosen(n) == CHOOSE i \in D : Cardinality(earlier(i)) = n - 1
  <1>1. Sorted(rs, D) = [n \in 1..Cardinality(D) |-> rs[chosen(n)]]
    BY DEF Sorted
  <1>2. ASSUME NEW i \in D PROVE earlier(i) = Below(D, R, i)
    <2> SUFFICES ASSUME NEW j \in D
                 PROVE  (Compare(rs[j], rs[i]) < 0 \/ (Compare(rs[j], rs[i]) = 0 /\ j < i))
                          <=> <<j, i>> \in R
      BY DEF Below
    <2>1. /\ Compare(rs[j], rs[i]) < 0 <=> LexLess(10, Key(rs[j]), Key(rs[i]))
          /\ Compare(rs[j], rs[i]) = 0 <=> Key(rs[j]) = Key(rs[i])
      BY CompareIsOrder DEF AllRankable
    <2>2. <<j, i>> \in R <=> Before(rs, j, i)
      BY OrderIsBefore
    <2> HIDE DEF R
    <2> QED
      BY <2>1, <2>2 DEF Before
  <1> HIDE DEF R, earlier
  <1>3. \A i \in D : Cardinality(earlier(i)) = Rank(D, R, i)
    BY <1>2 DEF Rank
  <1>4. \A n : (CHOOSE i \in D : Cardinality(earlier(i)) = n - 1) = (CHOOSE i \in D : Rank(D, R, i) = n - 1)
    BY <1>3
  <1>5. \A n : chosen(n) = Place(D, R, n)
    BY <1>4 DEF Place
  <1> HIDE DEF chosen
  <1> QED
    BY <1>1, <1>5 DEF R

\* The first k members of s.
StartsAs(t, s, k, S) == t \in [1..k -> S] /\ \A n \in 1..k : t[n] = s[n]

NoneOnlyIf(k, m, limit) == k = 0 => m = 0 \/ limit \in {0, Null}

\* slice returns the first rows, and none only if there are none or none are
\* wanted.
LEMMA SliceIsPrefix ==
  ASSUME NEW S, NEW m \in Nat, NEW s \in [1..m -> S], NEW limit \in Nat \cup NoValue
  PROVE  \E k \in 0..m : StartsAs(Slice(s, limit), s, k, S) /\ NoneOnlyIf(k, m, limit)
  <1> USE DEF StartsAs, NoneOnlyIf
  <1>1. s \in Seq(S) /\ Len(s) = m
    BY VectorIsSeq
  <1>2. CASE limit = Undefined
    BY <1>2 DEF Slice
  <1>3. CASE limit = Null /\ limit # Undefined
    <2>1. Slice(s, limit) = <<>>
      BY <1>3 DEF Slice
    <2>2. <<>> \in [1..0 -> S] /\ \A n \in 1..0 : <<>>[n] = s[n]
      OBVIOUS
    <2>3. 0 \in 0..m
      OBVIOUS
    <2> QED
      BY <1>3, <2>1, <2>2, <2>3
  <1>4. CASE limit \in Nat /\ limit < m
    <2>1. limit # Undefined /\ limit # Null
      BY <1>4, NoNumbers
    <2>2. Slice(s, limit) = SubSeq(s, 1, limit)
      BY <1>1, <1>4, <2>1 DEF Slice
    <2>3. SubSeq(s, 1, limit) = [n \in 1..limit |-> s[n]]
      BY <1>1, <1>4
    <2>4. limit \in 0..m /\ 1..limit \subseteq 1..m
      BY <1>4
    <2>5. Slice(s, limit) \in [1..limit -> S] /\ \A n \in 1..limit : Slice(s, limit)[n] = s[n]
      BY <2>2, <2>3, <2>4
    <2> QED
      BY <2>1, <2>4, <2>5
  <1>5. CASE limit \in Nat /\ ~(limit < m)
    <2>1. limit # Undefined /\ limit # Null
      BY <1>5, NoNumbers
    <2>2. Slice(s, limit) = s
      BY <1>1, <1>5, <2>1 DEF Slice
    <2> QED
      BY <2>1, <2>2
  <1> QED
    BY <1>2, <1>3, <1>4, <1>5 DEF NoValue

-----------------------------------------------------------------------------
(* What mapRow makes of a listing.                                         *)

\* No two fields share a name, in the SDK, the API or the list.
LEMMA FieldsDiffer ==
  ASSUME NEW f \in Fields, NEW g \in Fields
  PROVE  /\ f[1] = g[1] => f = g
         /\ f[2] = g[2] => f = g
         /\ f[3] = g[3] => f = g
  <1>1. f[1] = g[1] => f = g
    BY DEF Fields
  <1>2. f[2] = g[2] /\ f[2] # Null /\ g[2] # Null => f = g
    BY DEF Fields
  <1>3. f[1] = "url" /\ g[1] = "url" => f = g
    BY <1>1
  <1>4. f[2] = Null <=> f[1] = "url"
    BY ValuesAssumption DEF Fields
  <1>5. g[2] = Null <=> g[1] = "url"
    BY ValuesAssumption DEF Fields
  <1>6. f[3] = g[3] => f = g
    BY DEF Fields
  <1> QED
    BY <1>1, <1>2, <1>3, <1>4, <1>5, <1>6, Zenon

Column(src) == IF src = "api" THEN 2 ELSE 3

\* A field is found by its name in the SDK.
LEMMA FieldIsFound ==
  ASSUME NEW f \in Fields, NEW src
  PROVE  /\ FieldByJs(f[1], src) = f[Column(src)]
         /\ FieldByJs(f[1], src) = Null => f[1] = "url"
  <1>1. (CHOOSE g \in Fields : g[1] = f[1]) = f
    BY FieldsDiffer
  <1>2. FieldByJs(f[1], src) = f[Column(src)]
    BY <1>1 DEF FieldByJs, Column
  <1> QED
    BY <1>2, ValuesAssumption DEF Column

\* A field is read where it was written.
LEMMA RawValue ==
  ASSUME NEW values, NEW src, NEW js \in FieldNames \ {"url"}
  PROVE  Raw(values, src)[FieldByJs(js, src)] = Written(js, values[js], src)
  <1> DEFINE name == FieldByJs(js, src)
  <1>1. PICK f \in Fields : f[1] = js
    BY DEF FieldNames
  <1>2. name = f[Column(src)] /\ name # Null
    BY <1>1, FieldIsFound
  <1>3. ASSUME NEW k \in FieldNames, FieldByJs(k, src) = name PROVE k = js
    <2>1. PICK g \in Fields : g[1] = k
      BY DEF FieldNames
    <2>2. g[Column(src)] = f[Column(src)]
      BY <1>2, <1>3, <2>1, FieldIsFound
    <2> QED
      BY <1>1, <2>1, <2>2, FieldsDiffer DEF Column
  <1>4. (CHOOSE k \in FieldNames : FieldByJs(k, src) = name) = js
    BY <1>3
  <1>5. name \in {FieldByJs(k, src) : k \in FieldNames} \ {Null}
    BY <1>2
  <1> HIDE DEF name
  <1>6. Raw(values, src)[name]
          = LET k == CHOOSE k \in FieldNames : FieldByJs(k, src) = name
            IN  Written(k, values[k], src)
    BY <1>5 DEF Raw
  <1> QED
    BY <1>4, <1>6 DEF name

\* The names of the fields in the SDK.
LEMMA FieldNamesAre ==
  FieldNames = {"protocol", "ip", "url", "port", "country", "region", "city", "timezone", "asn",
                "asnOrg", "anonymity", "https", "latencyMs", "latencyMedianMs", "uptime24h",
                "uptime7d", "checks7d", "exitIp", "sourcesCount", "firstSeen", "lastChecked"}
  BY DEF FieldNames, Fields

\* A row as mapRow has it before it is checked, in terms of what is known.
LEMMA MappedFields ==
  ASSUME NEW v, NEW src
  PROVE  LET p == Mapped(Raw(v, src), src)
         IN  /\ p = [js \in FieldNames \ {"url"} |-> p[js]]
             /\ p.country = Lower(Written("country", v.country, src))
             /\ p.asn = AsnNumber(Written("asn", v.asn, src))
             /\ p.latencyMs = Latency(v.latencyMs, src)
             /\ \A js \in FieldNames \ {"url", "country", "asn", "latencyMs"} : p[js] = v[js]
  <1> DEFINE p == Mapped(Raw(v, src), src)
             value(js) == Raw(v, src)[FieldByJs(js, src)]
  <1>1. p = [js \in FieldNames \ {"url"} |->
               CASE js = "country" -> Lower(value(js))
                 [] js = "asn" -> AsnNumber(value(js))
                 [] js = "latencyMs" -> Latency(value(js), src)
                 [] OTHER -> value(js)]
    BY DEF Mapped
  <1>2. \A js \in FieldNames \ {"url"} : value(js) = Written(js, v[js], src)
    BY RawValue
  <1> HIDE DEF p, value
  <1>3. {"country", "asn", "latencyMs"} \subseteq FieldNames \ {"url"}
    BY FieldNamesAre
  <1>4. p.country = Lower(Written("country", v.country, src))
    BY <1>1, <1>2, <1>3
  <1>5. p.asn = AsnNumber(Written("asn", v.asn, src))
    BY <1>1, <1>2, <1>3
  <1>6. p.latencyMs = Latency(v.latencyMs, src)
    BY <1>1, <1>2, <1>3 DEF Written
  <1>7. \A js \in FieldNames \ {"url", "country", "asn", "latencyMs"} : p[js] = v[js]
    BY <1>1, <1>2 DEF Written
  <1>8. p = [js \in FieldNames \ {"url"} |-> p[js]]
    BY <1>1
  <1> QED
    BY <1>4, <1>5, <1>6, <1>7, <1>8 DEF p

\* A row that passed the checks differs from the mapped one in its uptime at
\* most, and is no error.
LEMMA MapRowCases ==
  ASSUME NEW v, NEW src
  PROVE  LET p == Mapped(Raw(v, src), src)
             r == MapRow(Raw(v, src), src)
         IN  /\ ~ValidRow(p) => r = Invalid
             /\ ValidRow(p) =>
                  /\ r # Invalid
                  /\ r.uptime7d = IF p.checks7d < 50 THEN Null ELSE p.uptime7d
                  /\ \A js \in FieldNames \ {"url", "uptime7d"} : r[js] = p[js]
                  /\ r = TrustedUptime(p)
  <1> DEFINE p == Mapped(Raw(v, src), src)
             r == MapRow(Raw(v, src), src)
  <1>1. p = [js \in FieldNames \ {"url"} |-> p[js]]
    BY MappedFields
  <1>2. r = IF ValidRow(p) THEN TrustedUptime(p) ELSE Invalid
    BY DEF MapRow
  <1> HIDE DEF p, r
  <1>3. {"uptime7d", "protocol"} \subseteq FieldNames \ {"url"} /\ "field" \notin FieldNames
    BY FieldNamesAre
  <1>4. DOMAIN Invalid = {"field"}
    BY DEF Invalid
  <1>5. DOMAIN TrustedUptime(p) = FieldNames \ {"url"}
    BY <1>1 DEF TrustedUptime
  <1>6. TrustedUptime(p) # Invalid
    BY <1>3, <1>4, <1>5
  <1>7. TrustedUptime(p).uptime7d = IF p.checks7d < 50 THEN Null ELSE p.uptime7d
    BY <1>1, <1>3 DEF TrustedUptime
  <1>8. \A js \in FieldNames \ {"url", "uptime7d"} : TrustedUptime(p)[js] = p[js]
    BY <1>1, <1>3 DEF TrustedUptime
  <1> QED
    BY <1>2, <1>6, <1>7, <1>8 DEF p, r

\* No public address is of a reserved network, local or multicast.
LEMMA PublicIsOutside ==
  ASSUME NEW ip \in [1..4 -> Nat], PublicIpv4(ip)
  PROVE  ip[1] \notin {0, 10, 127} \cup (224..255)
  <1> DEFINE value == (ip[1] * 256 + ip[2]) * 256 + ip[3]
             Outside(net, bits) == value \div 2^(24 - bits) # net \div 2^(24 - bits)
  <1>1. ip[1] \in 0..255 /\ ip[2] \in 0..255 /\ ip[3] \in 0..255
    BY SMT DEF PublicIpv4
  <1>2. \A r \in SpecialRanges : Outside(r[1], r[2])
    BY SMT DEF PublicIpv4
  <1> HIDE DEF Outside
  <1>3. /\ Outside(0, 8) /\ Outside(\h0a0000, 8) /\ Outside(\h7f0000, 8)
        /\ Outside(\he00000, 4) /\ Outside(\hf00000, 4)
    BY <1>2, SMT DEF SpecialRanges
  <1> USE DEF Outside
  <1>4. ip[1] # 0
    BY <1>1, <1>3, SMT
  <1>5. ip[1] # 10
    BY <1>1, <1>3, SMT
  <1>6. ip[1] # 127
    BY <1>1, <1>3, SMT
  <1>7. ip[1] \notin 224..239
    BY <1>1, <1>3, SMT
  <1>8. ip[1] \notin 240..255
    BY <1>1, <1>3, SMT
  <1> QED
    BY <1>4, <1>5, <1>6, <1>7, <1>8, SMT

\* The checks of mapRow, one by one.
PortIsGood(port) == IsGood(port) /\ port \in Ports

\* A port is a number.
LEMMA PortIsNatural ==
  ASSUME NEW port, PortIsGood(port)
  PROVE  port \in Nat
  BY SMT DEF PortIsGood, Ports

\* A row is valid if all its fields are.
LEMMA ValidRowParts ==
  ASSUME NEW p
  PROVE  ValidRow(p) <=>
           /\ p.protocol \in Protocols /\ p.anonymity \in Anonymity
           /\ PublicIpv4(p.ip)
           /\ PortIsGood(p.port)
           /\ IsGood(p.firstSeen) /\ IsGood(p.lastChecked)
           /\ p.region # Odd /\ p.city # Odd /\ p.timezone # Odd /\ p.asnOrg # Odd /\ p.exitIp # Odd
           /\ p.country # Null => p.country.code # Odd
           /\ p.asn = Null \/ IsCount(p.asn)
           /\ p.https \in {Null, TRUE, FALSE}
           /\ p.latencyMs # Odd /\ p.latencyMedianMs # Odd /\ p.uptime24h # Odd /\ p.uptime7d # Odd
           /\ IsCount(p.checks7d) /\ IsCount(p.sourcesCount)
  <1> DEFINE strings == {p[js] : js \in {"region", "city", "timezone", "asnOrg", "exitIp"}}
             numbers == {p[js] : js \in {"latencyMs", "latencyMedianMs", "uptime24h", "uptime7d"}}
  <1>1. Odd \notin strings
          <=> p.region # Odd /\ p.city # Odd /\ p.timezone # Odd /\ p.asnOrg # Odd /\ p.exitIp # Odd
    BY SMT
  <1>2. Odd \notin numbers
          <=> p.latencyMs # Odd /\ p.latencyMedianMs # Odd /\ p.uptime24h # Odd /\ p.uptime7d # Odd
    BY SMT
  <1>3. PortIsGood(p.port) <=> IsGood(p.port) /\ p.port \in Ports
    BY DEF PortIsGood
  <1>4. ValidRow(p) <=>
           /\ p.protocol \in Protocols /\ p.anonymity \in Anonymity
           /\ PublicIpv4(p.ip)
           /\ IsGood(p.port) /\ p.port \in Ports
           /\ IsGood(p.firstSeen) /\ IsGood(p.lastChecked)
           /\ Odd \notin strings
           /\ p.country # Null => p.country.code # Odd
           /\ p.asn = Null \/ IsCount(p.asn)
           /\ p.https \in {Null, TRUE, FALSE}
           /\ Odd \notin numbers
           /\ IsCount(p.checks7d) /\ IsCount(p.sourcesCount)
    BY SMT DEF ValidRow
  <1> HIDE DEF strings, numbers
  <1> QED
    BY <1>1, <1>2, <1>3, <1>4, Zenon

\* A latency becomes a number, or is missing or an error.
LEMMA LatencyIsNumber ==
  ASSUME NEW v, Known(v), NEW src
  PROVE  Latency(v.latencyMs, src) \in Int \cup Missing
  <1> DEFINE x == v.latencyMs
  <1>1. CASE x \in NoValue
    BY <1>1 DEF Latency, Missing, NoValue
  <1>2. CASE x \notin NoValue
    <2>1. x.number \in Int \cup {Odd}
      BY <1>2 DEF Known
    <2>2. x.number # Odd => Round(x.number) \in Int
      BY <2>1 DEF Round
    <2> QED
      BY <1>2, <2>1, <2>2 DEF Latency, Missing
  <1> QED
    BY <1>1, <1>2

\* What GitHub accepts the API accepts, too, and rounds; what it accepts beyond
\* that is of another type.
LEMMA LatenciesAgree ==
  ASSUME NEW v, Known(v)
  PROVE  LET x == v.latencyMs
             api == Latency(x, "api")
             github == Latency(x, "github")
         IN  /\ github # Odd => api # Odd /\ api = IF Given(github) THEN Round(github) ELSE github
             /\ api # Odd => (github = Odd <=> Given(x) /\ x.text)
  <1> DEFINE x == v.latencyMs
  <1>1. CASE x \in NoValue
    <2>1. Latency(x, "api") = x /\ Latency(x, "github") = x /\ ~Given(x) /\ x # Odd
      BY <1>1, ValuesAssumption DEF Latency, Given, NoValue
    <2> QED
      BY <2>1
  <1>2. CASE x \notin NoValue
    <2>1. x.number \in Int \cup {Odd} /\ x.text \in BOOLEAN /\ Given(x)
      BY <1>2 DEF Known, Given
    <2>2. /\ Latency(x, "github") = IF x.text THEN Odd ELSE x.number
          /\ Latency(x, "api") = IF x.number # Odd THEN Round(x.number) ELSE Odd
      BY <1>2 DEF Latency
    <2>3. x.number # Odd => /\ x.number \in Int /\ Round(x.number) \in Int
                            /\ Given(x.number) /\ Round(x.number) # Odd
      <3>1. ASSUME x.number # Odd
            PROVE  x.number \in Int /\ Round(x.number) \in Int
        BY <2>1, <3>1 DEF Round
      <3>2. \A n \in Int : n # Odd /\ n \notin NoValue
        BY ValuesAssumption DEF Missing, NoValue
      <3> QED
        BY <3>1, <3>2 DEF Given
    <2> QED
      BY <2>1, <2>2, <2>3
  <1> QED
    BY <1>1, <1>2

\* What the ranking and the selection rely on in a row.
LEMMA MappedIsRankable ==
  ASSUME NEW v, Known(v), NEW src, MapRow(Raw(v, src), src) # Invalid
  PROVE  LET r == MapRow(Raw(v, src), src)
         IN  /\ Rankable(r)
             /\ r.ip[1] \notin {0, 10, 127} \cup (224..255)
             /\ Given(r.uptime7d) => r.checks7d >= 50
  <1> DEFINE p == Mapped(Raw(v, src), src)
             r == MapRow(Raw(v, src), src)
  <1>1. /\ p.latencyMs = Latency(v.latencyMs, src)
        /\ \A js \in FieldNames \ {"url", "country", "asn", "latencyMs"} : p[js] = v[js]
    BY MappedFields
  <1>2. /\ ValidRow(p)
        /\ r.uptime7d = IF p.checks7d < 50 THEN Null ELSE p.uptime7d
        /\ \A js \in FieldNames \ {"url", "uptime7d"} : r[js] = p[js]
    BY MapRowCases
  <1> HIDE DEF p, r
  <1>3. p.uptime7d = v.uptime7d /\ p.ip = v.ip /\ p.checks7d = v.checks7d
    BY <1>1, FieldNamesAre
  <1>4. /\ r.latencyMs = p.latencyMs /\ r.protocol = p.protocol /\ r.ip = p.ip /\ r.port = p.port
        /\ r.checks7d = p.checks7d
    BY <1>2, FieldNamesAre
  <1>5. p.latencyMs \in Int \cup NoValue
    <2>1. p.latencyMs # Odd
      BY <1>2, ValidRowParts
    <2>2. p.latencyMs \in Int \cup Missing
      BY <1>1, LatencyIsNumber
    <2> QED
      BY <2>1, <2>2 DEF Missing, NoValue
  <1>6. p.uptime7d \in Int \cup NoValue
    <2>1. p.uptime7d # Odd
      BY <1>2, ValidRowParts
    <2>2. p.uptime7d \in Int \cup Missing
      BY <1>3 DEF Known
    <2> QED
      BY <2>1, <2>2 DEF Missing, NoValue
  <1>7. p.checks7d \in Int
    <2>1. IsGood(p.checks7d)
      BY <1>2, ValidRowParts DEF IsCount
    <2>2. p.checks7d \in Int \cup Missing
      BY <1>3 DEF Known
    <2> QED
      BY <2>1, <2>2 DEF Missing, IsGood
  <1>8. p.ip \in [1..4 -> Nat] /\ PublicIpv4(p.ip)
    <2>1. PublicIpv4(p.ip) /\ IsGood(p.ip)
      BY <1>2, ValidRowParts DEF PublicIpv4
    <2>2. p.ip \in [1..4 -> Nat] \cup Missing
      BY <1>3 DEF Known
    <2> QED
      BY <2>1, <2>2 DEF Missing, IsGood
  <1>9. p.protocol \in Protocols /\ p.port \in Nat
    <2>1. p.protocol \in Protocols /\ PortIsGood(p.port)
      BY <1>2, ValidRowParts
    <2>2. p.port \in Nat
      BY <2>1, PortIsNatural
    <2> QED
      BY <2>1, <2>2
  <1>10. Rankable(r)
    BY <1>2, <1>4, <1>5, <1>6, <1>8, <1>9 DEF Rankable, NoValue
  <1>11. r.ip[1] \notin {0, 10, 127} \cup (224..255)
    BY <1>4, <1>8, PublicIsOutside
  <1>12. Given(r.uptime7d) => r.checks7d >= 50
    BY <1>2, <1>4, <1>7 DEF Given, NoValue
  <1> QED
    BY <1>10, <1>11, <1>12 DEF r

\* What both sources make of the same proxy.
LEMMA MappedAgree ==
  ASSUME NEW v, Known(v)
  PROVE  LET api == MapRow(Raw(v, "api"), "api")
             github == MapRow(Raw(v, "github"), "github")
         IN  /\ github # Invalid =>
                  api = [github EXCEPT !.latencyMs = IF Given(@) THEN Round(@) ELSE @]
             /\ api # Invalid => (github = Invalid <=> Given(v.latencyMs) /\ v.latencyMs.text)
  <1> DEFINE p == Mapped(Raw(v, "api"), "api")
             q == Mapped(Raw(v, "github"), "github")
             api == MapRow(Raw(v, "api"), "api")
             github == MapRow(Raw(v, "github"), "github")
             F == FieldNames \ {"url"}
  <1>1. /\ p = [js \in F |-> p[js]]
        /\ p.country = Lower(Written("country", v.country, "api"))
        /\ p.asn = AsnNumber(Written("asn", v.asn, "api"))
        /\ p.latencyMs = Latency(v.latencyMs, "api")
        /\ \A js \in FieldNames \ {"url", "country", "asn", "latencyMs"} : p[js] = v[js]
    BY MappedFields
  <1>2. /\ q = [js \in F |-> q[js]]
        /\ q.country = Lower(Written("country", v.country, "github"))
        /\ q.asn = AsnNumber(Written("asn", v.asn, "github"))
        /\ q.latencyMs = Latency(v.latencyMs, "github")
        /\ \A js \in FieldNames \ {"url", "country", "asn", "latencyMs"} : q[js] = v[js]
    BY MappedFields
  <1>3. /\ ~ValidRow(p) => api = Invalid
        /\ ValidRow(p) => api # Invalid /\ api = TrustedUptime(p)
    BY MapRowCases
  <1>4. /\ ~ValidRow(q) => github = Invalid
        /\ ValidRow(q) => github # Invalid /\ github = TrustedUptime(q)
    BY MapRowCases
  <1> HIDE DEF p, q, api, github
  <1>5. p.country = q.country
    <2>1. CASE v.country \in NoValue
      BY <1>1, <1>2, <2>1 DEF Written, IsGood, Lower, NoValue
    <2>2. CASE v.country = Odd
      BY <1>1, <1>2, <2>2 DEF Written, IsGood
    <2>3. CASE IsGood(v.country)
      <3> DEFINE c == v.country
                 a == [c EXCEPT !.capitals = TRUE]
                 g == [c EXCEPT !.capitals = FALSE]
      <3>1. Written("country", c, "api") = a /\ Written("country", c, "github") = g
        BY <2>3 DEF Written
      <3>2. DOMAIN c = {"code", "capitals"} /\ a \notin NoValue /\ g \notin NoValue
        BY <2>3 DEF Known, Missing, NoValue, IsGood
      <3>3. [a EXCEPT !.capitals = FALSE] = g /\ [g EXCEPT !.capitals = FALSE] = g
        BY <3>2
      <3> HIDE DEF a, g
      <3>4. Lower(a) = g /\ Lower(g) = g
        BY <3>2, <3>3 DEF Lower
      <3> QED
        BY <1>1, <1>2, <3>1, <3>4
    <2> QED
      BY <2>1, <2>2, <2>3 DEF IsGood, NoValue
  <1>6. p.asn = q.asn
    <2>1. CASE ~IsGood(v.asn)
      BY <1>1, <1>2, <2>1 DEF Written
    <2>2. CASE IsGood(v.asn)
      <3> DEFINE n == v.asn
                 g == [n EXCEPT !.text = FALSE]
      <3>1. Written("asn", n, "api") = n /\ Written("asn", n, "github") = g
        BY <2>2 DEF Written
      <3>2. DOMAIN n = {"number", "text"} /\ n \notin NoValue /\ g \notin NoValue
        BY <2>2 DEF Known, Missing, NoValue, IsGood
      <3>3. g.number = n.number
        BY <3>2
      <3> HIDE DEF g
      <3>4. AsnNumber(n) = n.number /\ AsnNumber(g) = g.number
        BY <3>2 DEF AsnNumber
      <3> QED
        BY <1>1, <1>2, <3>1, <3>3, <3>4
    <2> QED
      BY <2>1, <2>2
  <1>7. \A js \in F \ {"latencyMs"} : p[js] = q[js]
    BY <1>1, <1>2, <1>5, <1>6
  <1>8. /\ q.latencyMs # Odd =>
             /\ p.latencyMs # Odd
             /\ p.latencyMs = IF Given(q.latencyMs) THEN Round(q.latencyMs) ELSE q.latencyMs
        /\ p.latencyMs # Odd => (q.latencyMs = Odd <=> Given(v.latencyMs) /\ v.latencyMs.text)
    BY <1>1, <1>2, LatenciesAgree
  <1>9. /\ ValidRow(q) => ValidRow(p) /\ q.latencyMs # Odd
        /\ ValidRow(p) => p.latencyMs # Odd /\ (ValidRow(q) <=> q.latencyMs # Odd)
    <2>1. /\ p.protocol = q.protocol /\ p.anonymity = q.anonymity /\ p.ip = q.ip /\ p.port = q.port
          /\ p.firstSeen = q.firstSeen /\ p.lastChecked = q.lastChecked /\ p.https = q.https
          /\ p.checks7d = q.checks7d /\ p.sourcesCount = q.sourcesCount
          /\ p.region = q.region /\ p.city = q.city /\ p.timezone = q.timezone
          /\ p.asnOrg = q.asnOrg /\ p.exitIp = q.exitIp
          /\ p.latencyMedianMs = q.latencyMedianMs /\ p.uptime24h = q.uptime24h /\ p.uptime7d = q.uptime7d
      BY <1>7, FieldNamesAre
    <2> QED
      BY <1>5, <1>6, <1>8, <2>1, ValidRowParts
  <1>10. "latencyMs" \in F /\ "uptime7d" \in F /\ "checks7d" \in F
    BY FieldNamesAre
  <1> HIDE DEF F
  <1>11. ASSUME q.latencyMs # Odd
         PROVE  TrustedUptime(p)
                  = [TrustedUptime(q) EXCEPT !.latencyMs = IF Given(@) THEN Round(@) ELSE @]
    <2>1. p.checks7d = q.checks7d
      BY <1>7, <1>10
    <2>2. DOMAIN p = F /\ DOMAIN q = F
      BY <1>1, <1>2
    <2>3. p = [q EXCEPT !.latencyMs = IF Given(@) THEN Round(@) ELSE @]
      BY <1>1, <1>2, <1>7, <1>8, <1>10, <1>11
    <2>4. CASE p.checks7d < 50
      <3>1. /\ TrustedUptime(p) = [p EXCEPT !.uptime7d = Null]
            /\ TrustedUptime(q) = [q EXCEPT !.uptime7d = Null]
        BY <2>1, <2>4 DEF TrustedUptime
      <3> QED
        BY <1>10, <2>2, <2>3, <3>1
    <2>5. CASE ~(p.checks7d < 50)
      <3>1. TrustedUptime(p) = p /\ TrustedUptime(q) = q
        BY <2>1, <2>5 DEF TrustedUptime
      <3> QED
        BY <2>3, <3>1
    <2> QED
      BY <2>4, <2>5
  <1>12. ASSUME github # Invalid
         PROVE  api = [github EXCEPT !.latencyMs = IF Given(@) THEN Round(@) ELSE @]
    BY <1>3, <1>4, <1>9, <1>11, <1>12
  <1>13. ASSUME api # Invalid
         PROVE  github = Invalid <=> Given(v.latencyMs) /\ v.latencyMs.text
    BY <1>3, <1>4, <1>8, <1>9, <1>13
  <1> QED
    BY <1>12, <1>13 DEF api, github

-----------------------------------------------------------------------------
(* The selection.                                                          *)

Kept(mapped, filters, now) == {i \in DOMAIN mapped : Matches(mapped[i], Checked(filters), now)}

\* The rows at the places D, by rank, and none only if there are none or none
\* are wanted.
IsSelection(s, mapped, D, limit) ==
  /\ s \in Seq({mapped[i] : i \in D})
  /\ Len(s) \in 0..Cardinality(D)
  /\ \A n \in 1..Len(s) : s[n] = mapped[Place(D, Order(mapped, D), n)]
  /\ Len(s) = 0 => D = {} \/ limit \in {0, Null}

\* getProxies returns the kept rows by place, as many as the limit lets it.
LEMMA SelectedByPlace ==
  ASSUME NEW m \in Nat, NEW mapped, DOMAIN mapped = 1..m, AllRankable(mapped, 1..m),
         NEW filters, NEW now, filters.limit \in Nat \cup NoValue
  PROVE  /\ IsFiniteSet(Kept(mapped, filters, now))
         /\ Kept(mapped, filters, now) \subseteq 1..m
         /\ StrictOrder(Kept(mapped, filters, now), Order(mapped, Kept(mapped, filters, now)))
         /\ IsSelection(Selected(mapped, filters, now), mapped, Kept(mapped, filters, now), filters.limit)
  <1> DEFINE D == Kept(mapped, filters, now)
             R == Order(mapped, D)
             S == {mapped[i] : i \in D}
             c == Cardinality(D)
             s == [n \in 1..c |-> mapped[Place(D, R, n)]]
             limit == filters.limit
  <1>1. D \subseteq 1..m
    BY DEF Kept
  <1>2. IsFiniteSet(D) /\ c \in Nat
    <2>1. 1 \in Int /\ m \in Int
      OBVIOUS
    <2>2. IsFiniteSet(1..m)
      BY <2>1, FS_Interval
    <2>3. IsFiniteSet(D)
      BY <1>1, <2>2, FS_Subset
    <2> QED
      BY <2>3, FS_CardinalityType
  <1>3. D \in SUBSET Nat /\ AllRankable(mapped, D)
    BY <1>1 DEF AllRankable
  <1>4. StrictOrder(D, R)
    BY <1>3, OrderIsStrict
  <1>5. Sorted(mapped, D) = s
    BY <1>3, SortedByPlace
  <1>6. Selected(mapped, filters, now) = Slice(s, limit)
    BY <1>5 DEF Selected, Kept
  <1>7. \A n \in 1..c : Place(D, R, n) \in D
    BY <1>2, <1>4, PlacesInOrder
  <1>8. s \in [1..c -> S]
    BY <1>7
  <1>9. c = 0 => D = {}
    BY <1>2, FS_EmptySet
  <1>10. \A n \in 1..c : s[n] = mapped[Place(D, R, n)]
    OBVIOUS
  <1> HIDE DEF D, R, S, c, s, limit
  <1>11. PICK k \in 0..c :
           StartsAs(Slice(s, limit), s, k, S) /\ NoneOnlyIf(k, c, limit)
    <2>1. limit \in Nat \cup NoValue
      BY DEF limit
    <2>2. c \in Nat
      BY <1>2
    <2> QED
      BY <1>8, <2>1, <2>2, SliceIsPrefix
  <1>12. k \in Nat /\ 1..k \subseteq 1..c
    BY <1>2, <1>11
  <1>13. Slice(s, limit) \in Seq(S) /\ Len(Slice(s, limit)) = k
    BY <1>11, <1>12, VectorIsSeq DEF StartsAs
  <1>14. \A n \in 1..k : Slice(s, limit)[n] = mapped[Place(D, R, n)]
    BY <1>10, <1>11, <1>12 DEF StartsAs
  <1>15. k = 0 => D = {} \/ limit \in {0, Null}
    BY <1>9, <1>11 DEF NoneOnlyIf
  <1> QED
    BY <1>1, <1>2, <1>4, <1>6, <1>11, <1>13, <1>14, <1>15 DEF D, R, S, c, limit, IsSelection

\* Better, as the READMEs promise, is before, as the comparator has it.
LEMMA BetterIsLess ==
  ASSUME NEW a, NEW b, Rankable(a), Rankable(b), Better(a, b)
  PROVE  Compare(a, b) < 0
  <1> DEFINE k1 == Key(a)[1] - Key(b)[1]
             k2 == Key(a)[2] - Key(b)[2]
             k3 == Key(a)[3] - Key(b)[3]
             k4 == Key(a)[4] - Key(b)[4]
             k5 == CompareUrls(a, b)
  <1>1. Compare(a, b) = First5(k1, k2, k3, k4, k5)
    BY CompareIsFirst
  <1>2. /\ k1 = (IF Given(a.uptime7d) THEN 0 ELSE 1) - (IF Given(b.uptime7d) THEN 0 ELSE 1)
        /\ k2 = -Or0(a.uptime7d) - (-Or0(b.uptime7d))
        /\ k3 = (IF Given(a.latencyMs) THEN 0 ELSE 1) - (IF Given(b.latencyMs) THEN 0 ELSE 1)
        /\ k4 = Or0(a.latencyMs) - Or0(b.latencyMs)
    BY KeyIsVector
  <1>3. Or0(a.uptime7d) \in Int /\ Or0(b.uptime7d) \in Int /\ Or0(a.latencyMs) \in Int /\ Or0(b.latencyMs) \in Int
    BY DEF Rankable, Or0, Given
  <1> HIDE DEF k1, k2, k3, k4, k5
  <1>4. CASE Told(a) /\ ~Told(b)
    <2>1. k1 = 0 - 1
      BY <1>2, <1>4 DEF Told
    <2> QED
      BY <1>1, <2>1 DEF First5
  <1>5. CASE Told(a) /\ Told(b) /\ a.uptime7d > b.uptime7d
    <2>1. k1 = 0 /\ Or0(a.uptime7d) = a.uptime7d /\ Or0(b.uptime7d) = b.uptime7d
      BY <1>2, <1>5 DEF Told, Or0
    <2>2. k2 < 0 /\ k2 # 0
      BY <1>2, <1>3, <1>5, <2>1
    <2> QED
      BY <1>1, <2>1, <2>2 DEF First5
  <1>6. CASE a.uptime7d = b.uptime7d
    <2>1. k1 = 0 /\ k2 = 0
      BY <1>2, <1>3, <1>6
    <2>2. CASE Timed(a) /\ ~Timed(b)
      <3>1. k3 = 0 - 1
        BY <1>2, <2>2 DEF Timed
      <3> QED
        BY <1>1, <2>1, <3>1 DEF First5
    <2>3. CASE Timed(a) /\ Timed(b) /\ a.latencyMs < b.latencyMs
      <3>1. k3 = 0 /\ Or0(a.latencyMs) = a.latencyMs /\ Or0(b.latencyMs) = b.latencyMs
        BY <1>2, <2>3 DEF Timed, Or0
      <3>2. k4 < 0 /\ k4 # 0
        BY <1>2, <1>3, <2>3, <3>1
      <3> QED
        BY <1>1, <2>1, <3>1, <3>2 DEF First5
    <2>4. CASE a.latencyMs = b.latencyMs /\ CompareUrls(a, b) < 0
      <3>1. k3 = 0 /\ k4 = 0
        BY <1>2, <1>3, <2>4
      <3> QED
        BY <1>1, <2>1, <2>4, <3>1 DEF First5, k5
    <2>5. ~(Told(a) /\ ~Told(b))
      BY <1>6 DEF Told
    <2>6. ~(Told(a) /\ Told(b) /\ a.uptime7d > b.uptime7d)
      <3> SUFFICES ASSUME Told(a), a.uptime7d > b.uptime7d PROVE FALSE
        OBVIOUS
      <3>1. a.uptime7d \in Int
        BY DEF Told, Given, Rankable
      <3> QED
        BY <1>6, <3>1
    <2> QED
      BY <2>2, <2>3, <2>4, <2>5, <2>6 DEF Better
  <1> QED
    BY <1>4, <1>5, <1>6 DEF Better

\* So of two rows in order the later is not better.
LEMMA LaterIsNotBetter ==
  ASSUME NEW rs, NEW i, NEW j, Rankable(rs[i]), Rankable(rs[j]), Before(rs, i, j)
  PROVE  ~Better(rs[j], rs[i])
  <1> SUFFICES ASSUME Better(rs[j], rs[i]) PROVE FALSE
    OBVIOUS
  <1>1. LexLess(10, Key(rs[j]), Key(rs[i]))
    BY BetterIsLess, CompareIsOrder
  <1>2. Key(rs[i]) \in [1..10 -> Int] /\ Key(rs[j]) \in [1..10 -> Int]
    BY KeyIsVector
  <1>3. ~LexLess(10, Key(rs[i]), Key(rs[i])) /\ ~LexLess(10, Key(rs[j]), Key(rs[j]))
    BY <1>2, LexIrreflexive
  <1>4. ~LexLess(10, Key(rs[i]), Key(rs[j]))
    BY <1>1, <1>2, <1>3, LexTransitive
  <1> QED
    BY <1>1, <1>3, <1>4 DEF Before

-----------------------------------------------------------------------------
(* The arguments.                                                          *)

\* A set of naturals that is bounded and not empty has a maximum.
LEMMA MaxOfNaturals ==
  ASSUME NEW n \in Nat, NEW S \in SUBSET (0..n), S # {}
  PROVE  Max(S) \in S /\ \A x \in S : x <= Max(S)
  <1> DEFINE T == {n - x : x \in S}
  <1>1. T \in SUBSET Nat /\ T # {}
    <2>1. \A x \in S : n - x \in Nat
      OBVIOUS
    <2> QED
      BY <2>1
  <1>2. Min(T) \in T /\ \A y \in T : Min(T) <= y
    BY <1>1, MinOfNaturals
  <1>3. PICK m \in S : Min(T) = n - m
    BY <1>2
  <1>4. \A x \in S : n - m <= n - x
    BY <1>2, <1>3
  <1>5. \A x \in S : x <= m
    BY <1>4
  <1> QED
    BY <1>5 DEF Max

\* The limit is a number that the caller gave, or NaN, but never null.
LEMMA LimitIsNumber ==
  ASSUME NEW args \in Argvs, ~Unparsable(args)
  PROVE  Parsed(args).limit \in Int \cup {Odd, Undefined}
  <1> DEFINE uses == {i \in DOMAIN args : Flags[args[i][1]] = "limit"}
  <1>1. args \in Seq({args[i] : i \in DOMAIN args})
    BY ArgvsAssumption
  <1>2. DOMAIN args = 1..Len(args) /\ Len(args) \in Nat
    BY <1>1, LenProperties
  <1>3. "limit" \in OptionNames
    BY DEF OptionNames, FilterNames
  <1>4. Parsed(args).limit
          = IF uses = {} THEN Undefined ELSE Converted(args[Max(uses)][1], args[Max(uses)][2])
    BY <1>3 DEF Parsed
  <1>5. CASE uses = {}
    BY <1>4, <1>5
  <1>6. CASE uses # {}
    <2>1. uses \in SUBSET (0..Len(args))
      BY <1>2
    <2> DEFINE m == Max(uses)
    <2>2. m \in uses
      BY <1>2, <1>6, <2>1, MaxOfNaturals
    <2> HIDE DEF m
    <2>3. m \in DOMAIN args /\ Flags[args[m][1]] = "limit" /\ args[m][1] \in DOMAIN Flags
      BY <2>2 DEF Unparsable
    <2>4. args[m][1] = "limit"
      BY <2>3 DEF Flags
    <2>5. args[m][2] \in Int \cup {Odd, Undefined}
      BY <2>3, <2>4, ArgvsAssumption DEF NumberFlags
    <2>6. Converted(args[m][1], args[m][2]) = args[m][2]
      BY <2>4 DEF Converted
    <2> QED
      BY <1>4, <1>6, <2>5, <2>6 DEF m
  <1> QED
    BY <1>5, <1>6

-----------------------------------------------------------------------------
(* The invariant: what a run of the command has done so far.               *)

\* The rows are those that getProxies selects, and nothing had failed before.
Chosen ==
  LET mapped == MappedRows(listing, Source(options))
  IN  /\ argv \in Argvs /\ listing \in Listings
      /\ ~Unparsable(argv) /\ options = Parsed(argv)
      /\ ValidFilters(FiltersOf(options)) /\ Invalid \notin ToSet(mapped)
      /\ rows = Selected(mapped, FiltersOf(options), Clock)

Listed == listing = <<>> \/ listing \in Listings
Parsing == cli = "parse" => argv \in Argvs /\ listing \in Listings
Fetching ==
  cli = "fetch" => /\ argv \in Argvs /\ listing \in Listings
                   /\ ~Unparsable(argv) /\ options = Parsed(argv)
Printing == cli = "print" => Chosen
Unfinished == cli # "exited" => printed = <<>>
Finished ==
  cli = "exited" => \/ status = 1 /\ printed = <<>>
                    \/ Chosen /\ printed = rows /\ status = ExitStatus(Len(rows))

CliInv == Listed /\ Parsing /\ Fetching /\ Printing /\ Unfinished /\ Finished

\* Before the command runs.
LEMMA CliInvInit == CliInit => CliInv
  BY DEF CliInit, CliInv, Listed, Parsing, Fetching, Printing, Unfinished, Finished

\* Every step of main() keeps the invariant.
LEMMA CliInvNext == CliInv /\ [CliNext]_cliVars => CliInv'
  <1> SUFFICES ASSUME CliInv, [CliNext]_cliVars PROVE CliInv'
    OBVIOUS
  <1> USE DEF CliInv, Listed, Parsing, Fetching, Printing, Unfinished, Finished
  <1>1. CASE Invoke
    BY <1>1 DEF Invoke
  <1>2. CASE Parse
    BY <1>2 DEF Parse, Fails
  <1>3. CASE GetProxies
    <2> DEFINE mapped == MappedRows(listing, Source(options))
    <2>1. /\ cli = "fetch" /\ UNCHANGED <<argv, listing, options, printed>>
          /\ printed = <<>>
      BY <1>3 DEF GetProxies
    <2>2. CASE ~ValidFilters(FiltersOf(options)) \/ Invalid \in ToSet(mapped)
      BY <1>3, <2>1, <2>2 DEF GetProxies, Fails
    <2>3. CASE ~(~ValidFilters(FiltersOf(options)) \/ Invalid \in ToSet(mapped))
      <3>1. rows' = Selected(mapped, FiltersOf(options), Clock) /\ cli' = "print"
        BY <1>3, <2>3 DEF GetProxies
      <3>2. Chosen'
        BY <2>1, <2>3, <3>1 DEF Chosen
      <3> QED
        BY <2>1, <3>1, <3>2
    <2> QED
      BY <2>2, <2>3
  <1>4. CASE RequestFails
    BY <1>4 DEF RequestFails, Fails
  <1>5. CASE PrintRows
    <2>1. Chosen'
      BY <1>5 DEF PrintRows, Chosen
    <2> QED
      BY <1>5, <2>1 DEF PrintRows
  <1>6. CASE UNCHANGED cliVars
    <2>1. Chosen' <=> Chosen
      BY <1>6 DEF cliVars, Chosen
    <2> QED
      BY <1>6, <2>1 DEF cliVars
  <1> QED
    BY <1>1, <1>2, <1>3, <1>4, <1>5, <1>6 DEF CliNext

\* The rows that are to be printed, or were, are those that getProxies selects
\* for the arguments and the snapshot; nothing is printed before the end.
THEOREM CliInvHolds == CliSpec => []CliInv
  BY CliInvInit, CliInvNext, PTL DEF CliSpec

\* What is known of the rows that were selected.
LEMMA ChosenRows ==
  ASSUME Chosen
  PROVE  LET mapped == MappedRows(listing, Source(options))
             filters == FiltersOf(options)
         IN  /\ Len(listing) \in Nat /\ DOMAIN listing = 1..Len(listing)
             /\ DOMAIN mapped = 1..Len(listing)
             /\ AllRankable(mapped, 1..Len(listing))
             /\ \A i \in 1..Len(listing) :
                  /\ mapped[i].ip[1] \notin {0, 10, 127} \cup (224..255)
                  /\ Given(mapped[i].uptime7d) => mapped[i].checks7d >= 50
             /\ filters.limit = options.limit
             /\ filters.limit \in Nat \cup {Undefined}
  <1> DEFINE src == Source(options)
             mapped == MappedRows(listing, src)
             filters == FiltersOf(options)
  <1>1. /\ argv \in Argvs /\ listing \in Listings
        /\ ~Unparsable(argv) /\ options = Parsed(argv)
        /\ ValidFilters(filters) /\ Invalid \notin ToSet(mapped)
    BY DEF Chosen
  <1>2. Len(listing) \in Nat /\ DOMAIN listing = 1..Len(listing)
    <2>1. listing \in Seq({listing[i] : i \in DOMAIN listing})
      BY <1>1, ListingsAssumption
    <2> QED
      BY <2>1, LenProperties
  <1>3. DOMAIN mapped = 1..Len(listing)
    BY <1>2 DEF MappedRows
  <1>4. \A i \in 1..Len(listing) : Known(listing[i]) /\ mapped[i] = MapRow(Raw(listing[i], src), src)
    BY <1>1, <1>2, ListingsAssumption DEF MappedRows
  <1>5. \A i \in 1..Len(listing) : mapped[i] # Invalid
    BY <1>1, <1>3 DEF ToSet
  <1> HIDE DEF mapped, src
  <1>6. \A i \in 1..Len(listing) :
          /\ Rankable(mapped[i])
          /\ mapped[i].ip[1] \notin {0, 10, 127} \cup (224..255)
          /\ Given(mapped[i].uptime7d) => mapped[i].checks7d >= 50
    <2> SUFFICES ASSUME NEW i \in 1..Len(listing)
                 PROVE  /\ Rankable(mapped[i])
                        /\ mapped[i].ip[1] \notin {0, 10, 127} \cup (224..255)
                        /\ Given(mapped[i].uptime7d) => mapped[i].checks7d >= 50
      OBVIOUS
    <2>1. Known(listing[i]) /\ mapped[i] = MapRow(Raw(listing[i], src), src) /\ mapped[i] # Invalid
      BY <1>4, <1>5
    <2> QED
      BY <2>1, MappedIsRankable
  <1>7. filters.limit = options.limit
    BY DEF FiltersOf, FilterNames
  <1>8. filters.limit \in Nat \cup {Undefined}
    <2>1. filters.limit \in Int \cup {Odd, Undefined}
      BY <1>1, <1>7, LimitIsNumber
    <2>2. Given(filters.limit) => IsCount(filters.limit)
      BY <1>1, SMT DEF ValidFilters
    <2> QED
      BY <2>1, <2>2, NoNumbers, ValuesAssumption DEF Given, NoValue, IsCount, IsGood
  <1> QED
    BY <1>2, <1>3, <1>6, <1>7, <1>8 DEF AllRankable, mapped, src

-----------------------------------------------------------------------------
(* The properties.                                                         *)

\* Whatever the arguments and the snapshot, both sources yield the same rows
\* but for the rounding of the API's latencies, and reject the same ones but
\* for those whose latency is of another type than a number.
THEOREM SourcesAgreeHolds == CliSpec => []SourcesAgree
  <1>1. CliInv => SourcesAgree
    <2> SUFFICES ASSUME Listed, NEW i \in DOMAIN listing
                 PROVE  LET api == MappedRows(listing, "api")[i]
                            github == MappedRows(listing, "github")[i]
                            latency == listing[i].latencyMs
                        IN  /\ github # Invalid =>
                                 api = [github EXCEPT !.latencyMs = IF Given(@) THEN Round(@) ELSE @]
                            /\ api # Invalid => (github = Invalid <=> Given(latency) /\ latency.text)
      BY DEF CliInv, SourcesAgree
    <2>1. Known(listing[i])
      <3>1. listing # <<>>
        OBVIOUS
      <3> QED
        BY <3>1, ListingsAssumption DEF Listed
    <2>2. /\ MappedRows(listing, "api")[i] = MapRow(Raw(listing[i], "api"), "api")
          /\ MappedRows(listing, "github")[i] = MapRow(Raw(listing[i], "github"), "github")
      BY DEF MappedRows
    <2> QED
      BY <2>1, <2>2, MappedAgree
  <1> QED
    BY <1>1, CliInvHolds, PTL

\* Rows that were printed were selected.
LEMMA PrintedWereChosen == CliInv => printed = <<>> \/ (Chosen /\ printed = rows)
  BY DEF CliInv, Unfinished, Finished

\* The rows printed match, are public, and no better one was left out or
\* comes later: whatever the snapshot and the filters.
THEOREM PrintedAreBestHolds == CliSpec => []PrintedAreBest
  <1>1. CliInv => PrintedAreBest
    <2> SUFFICES ASSUME Chosen, printed = rows, NEW i \in DOMAIN printed
                 PROVE  LET filters == FiltersOf(options)
                            mapped == MappedRows(listing, Source(options))
                        IN  /\ Matches(printed[i], Checked(filters), Clock)
                            /\ printed[i].ip[1] \notin {0, 10, 127} \cup (224..255)
                            /\ Given(printed[i].uptime7d) => printed[i].checks7d >= 50
                            /\ \A j \in DOMAIN printed : j < i => ~Better(printed[i], printed[j])
                            /\ \A k \in DOMAIN listing :
                                 Matches(mapped[k], Checked(filters), Clock) /\ mapped[k] \notin ToSet(printed) =>
                                   ~Better(mapped[k], printed[i])
      BY PrintedWereChosen DEF PrintedAreBest
    <2> DEFINE mapped == MappedRows(listing, Source(options))
               filters == FiltersOf(options)
               m == Len(listing)
               D == Kept(mapped, filters, Clock)
               R == Order(mapped, D)
    <2>1. /\ m \in Nat /\ DOMAIN listing = 1..m /\ DOMAIN mapped = 1..m
          /\ AllRankable(mapped, 1..m)
          /\ \A k \in 1..m : /\ mapped[k].ip[1] \notin {0, 10, 127} \cup (224..255)
                             /\ Given(mapped[k].uptime7d) => mapped[k].checks7d >= 50
          /\ filters.limit \in Nat \cup NoValue
      BY ChosenRows DEF NoValue
    <2>2. printed = Selected(mapped, filters, Clock)
      BY DEF Chosen
    <2> HIDE DEF mapped, filters, m
    <2>3. /\ IsFiniteSet(D) /\ D \subseteq 1..m /\ StrictOrder(D, R)
          /\ IsSelection(printed, mapped, D, filters.limit)
      BY <2>1, <2>2, SelectedByPlace
    <2>4. \A k \in D : Matches(mapped[k], Checked(filters), Clock)
      BY DEF Kept
    <2>5. \A k \in DOMAIN mapped : Matches(mapped[k], Checked(filters), Clock) => k \in D
      BY DEF Kept
    <2>6. \A k, l \in D : <<k, l>> \in R => Before(mapped, k, l)
      BY OrderIsBefore
    <2>6a. /\ printed \in Seq({mapped[k] : k \in D}) /\ Len(printed) \in 0..Cardinality(D)
          /\ \A n \in 1..Len(printed) : printed[n] = mapped[Place(D, R, n)]
      BY <2>3 DEF IsSelection
    <2> HIDE DEF D, R
    <2> DEFINE c == Len(printed)
               at(n) == Place(D, R, n)
    <2>7. /\ c \in 0..Cardinality(D) /\ DOMAIN printed = 1..c
          /\ \A n \in 1..c : printed[n] = mapped[at(n)]
      <3>1. DOMAIN printed = 1..c
        BY <2>6a, LenProperties
      <3> QED
        BY <2>6a, <3>1
    <2>8. /\ Cardinality(D) \in Nat
          /\ \A n \in 1..Cardinality(D) : at(n) \in D
          /\ \A n, k \in 1..Cardinality(D) : n < k => <<at(n), at(k)>> \in R
          /\ \A k \in D : \E n \in 1..Cardinality(D) : k = at(n)
      BY <2>3, PlacesInOrder
    <2> HIDE DEF c, at
    <2>9. \A n \in 1..c : n \in 1..Cardinality(D) /\ at(n) \in D /\ at(n) \in 1..m
      <3>1. \A n \in 1..c : n \in 1..Cardinality(D)
        BY <2>7, <2>8
      <3> QED
        BY <2>3, <2>8, <3>1
    <2>10. \A n, k \in 1..Cardinality(D) : n < k => ~Better(mapped[at(k)], mapped[at(n)])
      <3> SUFFICES ASSUME NEW n \in 1..Cardinality(D), NEW k \in 1..Cardinality(D), n < k
                   PROVE  ~Better(mapped[at(k)], mapped[at(n)])
        OBVIOUS
      <3>1. at(n) \in D /\ at(k) \in D /\ <<at(n), at(k)>> \in R
        BY <2>8
      <3>2. Rankable(mapped[at(n)]) /\ Rankable(mapped[at(k)])
        BY <2>1, <2>3, <3>1 DEF AllRankable
      <3> QED
        BY <2>6, <3>1, <3>2, LaterIsNotBetter
    <2>11. i \in 1..c /\ printed[i] = mapped[at(i)] /\ at(i) \in D /\ at(i) \in 1..m
      BY <2>7, <2>9
    <2>12. /\ Matches(printed[i], Checked(filters), Clock)
           /\ printed[i].ip[1] \notin {0, 10, 127} \cup (224..255)
           /\ Given(printed[i].uptime7d) => printed[i].checks7d >= 50
      <3>1. Matches(mapped[at(i)], Checked(filters), Clock)
        BY <2>4, <2>11
      <3>2. /\ mapped[at(i)].ip[1] \notin {0, 10, 127} \cup (224..255)
            /\ Given(mapped[at(i)].uptime7d) => mapped[at(i)].checks7d >= 50
        BY <2>1, <2>11
      <3> QED
        BY <2>11, <3>1, <3>2
    <2>13. ASSUME NEW j \in DOMAIN printed, j < i PROVE ~Better(printed[i], printed[j])
      <3>1. j \in 1..c /\ printed[j] = mapped[at(j)]
        BY <2>7, <2>13
      <3>2. j \in 1..Cardinality(D) /\ i \in 1..Cardinality(D)
        BY <2>9, <2>11, <3>1
      <3> QED
        BY <2>10, <2>11, <2>13, <3>1, <3>2
    <2>14. ASSUME NEW k \in DOMAIN listing, Matches(mapped[k], Checked(filters), Clock),
                  mapped[k] \notin ToSet(printed)
           PROVE  ~Better(mapped[k], printed[i])
      <3>1. PICK n \in 1..Cardinality(D) : k = at(n)
        BY <2>1, <2>5, <2>8, <2>14
      <3>2. n \notin 1..c
        BY <2>7, <2>14, <3>1 DEF ToSet
      <3>3. i < n /\ i \in 1..Cardinality(D)
        BY <2>7, <2>9, <2>11, <3>2
      <3> QED
        BY <2>10, <2>11, <3>1, <3>3
    <2> QED
      BY <2>12, <2>13, <2>14 DEF mapped, filters
  <1> QED
    BY <1>1, CliInvHolds, PTL

\* The exit status tells scripts the truth about what was printed, and why
\* nothing was.
THEOREM StatusIsTrueHolds == CliSpec => []StatusIsTrue
  <1>1. CliInv => StatusIsTrue
    <2> SUFFICES ASSUME CliInv, cli = "exited"
                 PROVE  /\ status = 0 <=> printed # <<>>
                        /\ status = 2 =>
                             /\ ~Unparsable(argv) /\ ValidFilters(FiltersOf(options))
                             /\ options.limit = 0
                                \/ \A i \in DOMAIN listing :
                                     ~Matches(MappedRows(listing, Source(options))[i],
                                              Checked(FiltersOf(options)), Clock)
      BY DEF StatusIsTrue
    <2>1. CASE status = 1 /\ printed = <<>>
      BY <2>1
    <2>2. CASE Chosen /\ printed = rows /\ status = ExitStatus(Len(rows))
      <3> DEFINE mapped == MappedRows(listing, Source(options))
                 filters == FiltersOf(options)
                 m == Len(listing)
                 D == Kept(mapped, filters, Clock)
      <3>1. /\ m \in Nat /\ DOMAIN listing = 1..m /\ DOMAIN mapped = 1..m
            /\ AllRankable(mapped, 1..m)
            /\ filters.limit = options.limit
            /\ filters.limit \in Nat \cup NoValue /\ filters.limit # Null
        BY <2>2, ChosenRows, NoNumbers, ValuesAssumption DEF NoValue
      <3>2. printed = Selected(mapped, filters, Clock)
        BY <2>2 DEF Chosen
      <3>3. ~Unparsable(argv) /\ ValidFilters(filters)
        BY <2>2 DEF Chosen
      <3> HIDE DEF mapped, filters, m
      <3>4. IsSelection(printed, mapped, D, filters.limit)
        BY <3>1, <3>2, SelectedByPlace
      <3>5. D = {} => \A i \in DOMAIN mapped : ~Matches(mapped[i], Checked(filters), Clock)
        BY DEF Kept
      <3> HIDE DEF D
      <3>6. Len(printed) \in Nat /\ (Len(printed) = 0 <=> printed = <<>>)
        BY <3>4, EmptySeq, LenProperties DEF IsSelection
      <3>7. status = IF Len(printed) = 0 THEN 2 ELSE 0
        BY <2>2 DEF ExitStatus
      <3> QED
        BY <3>1, <3>3, <3>4, <3>5, <3>6, <3>7 DEF mapped, filters, IsSelection
    <2> QED
      BY <2>1, <2>2 DEF CliInv, Finished
  <1> QED
    BY <1>1, CliInvHolds, PTL

-----------------------------------------------------------------------------
(* The order of the snapshot.                                              *)

\* f takes the order R of D to the order Q.
Carries(D, R, f, Q) == \A i, j \in D : <<i, j>> \in R <=> <<f[i], f[j]>> \in Q

\* Orders of the same shape have the same places.
LEMMA PlacesCorrespond ==
  ASSUME NEW D, NEW E, NEW R, NEW Q, IsFiniteSet(D), StrictOrder(D, R), StrictOrder(E, Q),
         NEW f \in Bijection(D, E), Carries(D, R, f, Q)
  PROVE  /\ IsFiniteSet(E) /\ Cardinality(E) = Cardinality(D)
         /\ \A n \in 1..Cardinality(D) : Place(E, Q, n) = f[Place(D, R, n)]
  <1>1. f \in [D -> E] /\ (\A i, j \in D : f[i] = f[j] => i = j) /\ \A e \in E : \E i \in D : f[i] = e
    BY DEF Bijection, Injection, Surjection, IsInjective
  <1>2. IsFiniteSet(E) /\ Cardinality(E) = Cardinality(D)
    BY FS_Bijection DEF ExistsBijection
  <1>3. ASSUME NEW i \in D PROVE Rank(E, Q, f[i]) = Rank(D, R, i)
    <2> DEFINE A == Below(D, R, i)
               B == Below(E, Q, f[i])
               g == [j \in A |-> f[j]]
    <2>1. A \subseteq D /\ B \subseteq E /\ IsFiniteSet(A)
      BY FS_Subset DEF Below
    <2>2. \A j \in D : j \in A <=> f[j] \in B
      BY <1>1 DEF Below, Carries
    <2> HIDE DEF A, B
    <2>3. g \in [A -> B] /\ (\A j, k \in A : g[j] = g[k] => j = k) /\ \A e \in B : \E j \in A : g[j] = e
      <3>1. g \in [A -> B]
        BY <2>1, <2>2
      <3>2. \A j, k \in A : g[j] = g[k] => j = k
        BY <1>1, <2>1
      <3>3. ASSUME NEW e \in B PROVE \E j \in A : g[j] = e
        BY <1>1, <2>1, <2>2, <3>3
      <3> QED
        BY <3>1, <3>2, <3>3
    <2> HIDE DEF g
    <2>4. g \in Bijection(A, B)
      BY <2>3 DEF Bijection, Injection, Surjection, IsInjective
    <2>5. Cardinality(B) = Cardinality(A)
      BY <2>1, <2>4, FS_Bijection DEF ExistsBijection
    <2> QED
      BY <2>5 DEF Rank, A, B
  <1>4. ASSUME NEW n \in 1..Cardinality(D) PROVE Place(E, Q, n) = f[Place(D, R, n)]
    <2> DEFINE p == Place(D, R, n)
               q == Place(E, Q, n)
    <2>1. p \in D /\ Rank(D, R, p) = n - 1
      BY PlacesInOrder
    <2>2. q \in E /\ Rank(E, Q, q) = n - 1
      BY <1>2, PlacesInOrder
    <2> HIDE DEF p, q
    <2>3. f[p] \in E /\ Rank(E, Q, f[p]) = n - 1
      BY <1>1, <1>3, <2>1
    <2>4. Rank(E, Q, q) = Rank(E, Q, f[p])
      BY <2>2, <2>3
    <2>5. q = f[p]
      BY <1>2, <2>2, <2>3, <2>4, RankIsMonotone
    <2> QED
      BY <2>5 DEF p, q
  <1> QED
    BY <1>2, <1>4

\* Rows with different URLs are selected as they are in the reverse order.
LEMMA ReverseSelected ==
  ASSUME NEW S, NEW rs \in Seq(S), NEW filters, NEW now,
         AllRankable(rs, 1..Len(rs)),
         \A i, j \in 1..Len(rs) : i # j => CompareUrls(rs[i], rs[j]) # 0
  PROVE  Selected(Reverse(rs), filters, now) = Selected(rs, filters, now)
  <1> DEFINE m == Len(rs)
             rev == Reverse(rs)
             mir(i) == (m - i) + 1
             D == Kept(rs, filters, now)
             E == Kept(rev, filters, now)
             R == Order(rs, D)
             Q == Order(rev, E)
             f == [i \in D |-> mir(i)]
  <1>1. m \in Nat /\ DOMAIN rs = 1..m
    BY LenProperties
  <1>2. rev = [i \in 1..m |-> rs[mir(i)]]
    BY DEF Reverse
  <1>3. \A i \in 1..m : mir(i) \in 1..m /\ mir(mir(i)) = i
    BY <1>1
  <1>4. \A i, j \in 1..m : mir(i) = mir(j) => i = j
    BY <1>1
  <1> HIDE DEF m, rev, mir
  <1>5. \A i \in 1..m : rev[mir(i)] = rs[i]
    BY <1>2, <1>3
  <1>6. D \subseteq 1..m /\ E \subseteq 1..m /\ \A i \in 1..m : i \in D <=> mir(i) \in E
    BY <1>1, <1>2, <1>3, <1>5 DEF Kept
  <1>7. AllRankable(rs, D) /\ AllRankable(rev, E)
    <2>1. \A i \in 1..m : Rankable(rs[i])
      BY DEF AllRankable, m
    <2>2. \A i \in 1..m : Rankable(rev[i])
      BY <1>2, <1>3, <2>1
    <2> QED
      BY <1>6, <2>1, <2>2 DEF AllRankable
  <1> HIDE DEF D, E
  <1>8. D \in SUBSET Nat /\ E \in SUBSET Nat /\ IsFiniteSet(D)
    <2>1. 1 \in Int /\ m \in Int
      BY <1>1
    <2>2. IsFiniteSet(1..m)
      BY <2>1, FS_Interval
    <2>3. IsFiniteSet(D)
      BY <1>6, <2>2, FS_Subset
    <2> QED
      BY <1>6, <2>3
  <1>9. StrictOrder(D, R) /\ StrictOrder(E, Q)
    BY <1>7, <1>8, OrderIsStrict
  <1>10. f \in Bijection(D, E)
    <2>1. f \in [D -> E]
      BY <1>6
    <2>2. \A i, j \in D : f[i] = f[j] => i = j
      BY <1>4, <1>6
    <2>3. ASSUME NEW e \in E PROVE \E i \in D : f[i] = e
      <3>1. mir(e) \in D /\ mir(mir(e)) = e
        BY <1>3, <1>6
      <3> QED
        BY <3>1
    <2> HIDE DEF f
    <2> QED
      BY <2>1, <2>2, <2>3 DEF Bijection, Injection, Surjection, IsInjective
  <1>11. ASSUME NEW i \in D, NEW j \in D PROVE <<i, j>> \in R <=> <<f[i], f[j]>> \in Q
    <2>1. f[i] = mir(i) /\ f[j] = mir(j) /\ mir(i) \in E /\ mir(j) \in E
      BY <1>6
    <2>2. rev[mir(i)] = rs[i] /\ rev[mir(j)] = rs[j]
      BY <1>5, <1>6
    <2>3. Key(rs[i]) = Key(rs[j]) => i = j
      <3> SUFFICES ASSUME Key(rs[i]) = Key(rs[j]), i # j PROVE FALSE
        OBVIOUS
      <3>1. Rankable(rs[i]) /\ Rankable(rs[j])
        BY <1>7 DEF AllRankable
      <3>2. ASSUME NEW k \in 1..6 PROVE UrlKey(rs[i])[k] = UrlKey(rs[j])[k]
        <4>1. Key(rs[i])[k + 4] = UrlKey(rs[i])[k] /\ Key(rs[j])[k + 4] = UrlKey(rs[j])[k]
          BY <3>1, KeyIsVector
        <4> QED
          BY <4>1
      <3>3. CompareUrls(rs[i], rs[j]) = 0
        BY <3>1, <3>2, UrlComparison
      <3> QED
        BY <1>6, <3>3 DEF m
    <2>4. ~(i < i) /\ ~(mir(i) < mir(i))
      BY <1>3, <1>6
    <2>5. Before(rs, i, j) <=> Before(rev, mir(i), mir(j))
      BY <2>2, <2>3, <2>4 DEF Before
    <2> QED
      BY <2>1, <2>5, OrderIsBefore
  <1>12. /\ Cardinality(E) = Cardinality(D)
         /\ \A n \in 1..Cardinality(D) : Place(E, Q, n) = f[Place(D, R, n)]
    <2> HIDE DEF R, Q, f
    <2>1. Carries(D, R, f, Q)
      BY <1>11 DEF Carries
    <2> QED
      BY <1>8, <1>9, <1>10, <2>1, PlacesCorrespond
  <1>13. \A n \in 1..Cardinality(D) : Place(D, R, n) \in D
    BY <1>8, <1>9, PlacesInOrder
  <1>14. \A n \in 1..Cardinality(D) : rev[Place(E, Q, n)] = rs[Place(D, R, n)]
    BY <1>5, <1>6, <1>12, <1>13
  <1>15. /\ Sorted(rs, D) = [n \in 1..Cardinality(D) |-> rs[Place(D, R, n)]]
         /\ Sorted(rev, E) = [n \in 1..Cardinality(E) |-> rev[Place(E, Q, n)]]
    BY <1>7, <1>8, SortedByPlace
  <1>16. Sorted(rev, E) = Sorted(rs, D)
    <2> HIDE DEF R, Q
    <2> QED
      BY <1>12, <1>14, <1>15
  <1>17. /\ Selected(rev, filters, now) = Slice(Sorted(rev, E), filters.limit)
         /\ Selected(rs, filters, now) = Slice(Sorted(rs, D), filters.limit)
    BY DEF Selected, Kept, D, E
  <1> QED
    BY <1>16, <1>17 DEF rev

\* Whatever the order in which the snapshot lists the proxies, the rows are
\* the same, if no two have the same URL.
THEOREM OrderIsIrrelevantHolds == CliSpec => []OrderIsIrrelevant
  <1>1. CliInv => OrderIsIrrelevant
    <2> DEFINE mapped == MappedRows(listing, Source(options))
    <2> SUFFICES ASSUME Chosen, \A i, j \in DOMAIN listing : i # j => CompareUrls(mapped[i], mapped[j]) # 0
                 PROVE  Selected(Reverse(mapped), FiltersOf(options), Clock) = rows
      BY DEF CliInv, Printing, OrderIsIrrelevant
    <2>1. /\ Len(listing) \in Nat /\ DOMAIN listing = 1..Len(listing) /\ DOMAIN mapped = 1..Len(listing)
          /\ AllRankable(mapped, 1..Len(listing))
      BY ChosenRows
    <2>2. mapped = [i \in DOMAIN listing |-> mapped[i]]
      BY DEF MappedRows
    <2>3. rows = Selected(mapped, FiltersOf(options), Clock)
      BY DEF Chosen
    <2> HIDE DEF mapped
    <2>4. mapped \in [1..Len(listing) -> {mapped[i] : i \in 1..Len(listing)}]
      BY <2>1, <2>2
    <2>5. mapped \in Seq({mapped[i] : i \in 1..Len(listing)}) /\ Len(mapped) = Len(listing)
      BY <2>1, <2>4, VectorIsSeq
    <2> QED
      BY <2>1, <2>3, <2>5, ReverseSelected
  <1> QED
    BY <1>1, CliInvHolds, PTL

-----------------------------------------------------------------------------
(* The state of the command is well formed.                                *)

\* The time of a row is a number, and its port one that a host can have.
TypedRow(r) == r.lastChecked \in Int /\ PortIsGood(r.port)

\* A row that passed the checks has a time and a port.
LEMMA MappedIsTyped ==
  ASSUME NEW v, Known(v), NEW src, MapRow(Raw(v, src), src) # Invalid
  PROVE  TypedRow(MapRow(Raw(v, src), src))
  <1> DEFINE p == Mapped(Raw(v, src), src)
             r == MapRow(Raw(v, src), src)
  <1>1. \A js \in FieldNames \ {"url", "country", "asn", "latencyMs"} : p[js] = v[js]
    BY MappedFields
  <1>2. ValidRow(p) /\ \A js \in FieldNames \ {"url", "uptime7d"} : r[js] = p[js]
    BY MapRowCases
  <1> HIDE DEF p, r
  <1>3. p.lastChecked = v.lastChecked /\ r.lastChecked = p.lastChecked /\ r.port = p.port
    BY <1>1, <1>2, FieldNamesAre
  <1>4. IsGood(p.lastChecked) /\ PortIsGood(p.port)
    BY <1>2, ValidRowParts
  <1>5. v.lastChecked \in Int \cup Missing
    BY DEF Known
  <1>6. r.lastChecked \in Int
    BY <1>3, <1>4, <1>5 DEF Missing, IsGood
  <1>7. PortIsGood(r.port)
    BY <1>3, <1>4
  <1> QED
    BY <1>6, <1>7 DEF TypedRow, r

\* So have the rows that getProxies selects.
LEMMA ChosenAreTyped ==
  ASSUME Chosen
  PROVE  \A i \in DOMAIN rows : TypedRow(rows[i])
  <1> DEFINE mapped == MappedRows(listing, Source(options))
             filters == FiltersOf(options)
             m == Len(listing)
             D == Kept(mapped, filters, Clock)
  <1>1. /\ m \in Nat /\ DOMAIN listing = 1..m /\ DOMAIN mapped = 1..m
        /\ AllRankable(mapped, 1..m)
        /\ filters.limit \in Nat \cup NoValue
    BY ChosenRows DEF NoValue
  <1>2. rows = Selected(mapped, filters, Clock)
    BY DEF Chosen
  <1>3. \A k \in 1..m : TypedRow(mapped[k])
    <2> SUFFICES ASSUME NEW k \in 1..m PROVE TypedRow(mapped[k])
      OBVIOUS
    <2>1. Known(listing[k])
      BY <1>1, ListingsAssumption DEF Chosen
    <2>2. mapped[k] = MapRow(Raw(listing[k], Source(options)), Source(options))
      BY <1>1 DEF MappedRows
    <2>3. mapped[k] # Invalid
      BY <1>1 DEF Chosen, ToSet
    <2> HIDE DEF mapped
    <2> QED
      BY <2>1, <2>2, <2>3, MappedIsTyped
  <1> HIDE DEF mapped, filters, m
  <1>4. D \subseteq 1..m /\ IsSelection(rows, mapped, D, filters.limit)
    BY <1>1, <1>2, SelectedByPlace
  <1> HIDE DEF D
  <1>5. rows \in Seq({mapped[k] : k \in D})
    BY <1>4 DEF IsSelection
  <1>6. \A i \in DOMAIN rows : rows[i] \in {mapped[k] : k \in D}
    BY <1>5, LenProperties, ElementOfSeq
  <1> QED
    BY <1>3, <1>4, <1>6

\* There are no rows before getProxies has returned some; the status is of
\* the end.
CliTyped ==
  /\ cli \in {"idle", "parse", "fetch", "print", "exited"}
  /\ DOMAIN options = OptionNames
  /\ status \in {Null, 0, 1, 2}
  /\ status = Null <=> cli # "exited"
  /\ rows = <<>> \/ Chosen
  /\ cli \in {"idle", "parse", "fetch"} => rows = <<>>

\* Before the command runs.
LEMMA CliTypedInit == CliInit => CliTyped
  BY DEF CliInit, CliTyped, NoOptions

\* Every step of main() keeps the state well formed.
LEMMA CliTypedNext == CliInv /\ CliTyped /\ [CliNext]_cliVars => CliTyped'
  <1> SUFFICES ASSUME CliInv, CliTyped, [CliNext]_cliVars PROVE CliTyped'
    OBVIOUS
  <1> USE DEF CliTyped
  <1>0. Null \notin {0, 1, 2}
    BY NoNumbers
  <1>1. CASE Invoke
    BY <1>1 DEF Invoke
  <1>2. CASE Parse
    <2>1. rows' = <<>> /\ DOMAIN options' = OptionNames
      BY <1>2 DEF Parse, Parsed
    <2>2. (cli' = "exited" /\ status' = 1) \/ (cli' = "fetch" /\ status' = status /\ cli = "parse")
      BY <1>2 DEF Parse, Fails
    <2> QED
      BY <1>0, <2>1, <2>2
  <1>3. CASE GetProxies
    <2>1. cli = "fetch" /\ options' = options /\ CliInv'
      BY <1>3, CliInvNext DEF GetProxies
    <2>2. CASE cli' = "print"
      <3>1. Chosen'
        BY <2>1, <2>2 DEF CliInv, Printing
      <3>2. status' = status
        BY <1>3, <2>2 DEF GetProxies, Fails
      <3> QED
        BY <2>1, <2>2, <3>1, <3>2
    <2>3. CASE cli' # "print"
      <3>1. cli' = "exited" /\ status' = 1 /\ rows' = rows
        BY <1>3, <2>3 DEF GetProxies, Fails
      <3> QED
        BY <1>0, <2>1, <3>1
    <2> QED
      BY <2>2, <2>3
  <1>4. CASE RequestFails
    <2>1. /\ cli = "fetch" /\ cli' = "exited" /\ status' = 1
          /\ options' = options /\ rows' = rows
      BY <1>4 DEF RequestFails, Fails
    <2> QED
      BY <1>0, <2>1
  <1>5. CASE PrintRows
    <2>1. /\ cli' = "exited" /\ status' \in {0, 2}
          /\ UNCHANGED <<argv, listing, options, rows>>
      BY <1>5 DEF PrintRows, ExitStatus
    <2>2. Chosen' <=> Chosen
      BY <2>1 DEF Chosen
    <2> QED
      BY <1>0, <2>1, <2>2
  <1>6. CASE UNCHANGED cliVars
    <2>1. Chosen' <=> Chosen
      BY <1>6 DEF cliVars, Chosen
    <2> QED
      BY <1>6, <2>1 DEF cliVars
  <1> QED
    BY <1>1, <1>2, <1>3, <1>4, <1>5, <1>6 DEF CliNext

\* The rows have a time and a port, and there is a status if and only if the
\* command has ended, whatever its arguments and the snapshot.
THEOREM CliTypeOKHolds == CliSpec => []CliTypeOK
  <1>1. CliTyped => CliTypeOK
    BY ChosenAreTyped DEF CliTyped, CliTypeOK, TypedRow, PortIsGood
  <1> QED
    BY <1>1, CliInvHolds, CliTypedInit, CliTypedNext, PTL DEF CliSpec

-----------------------------------------------------------------------------
(* All tools.                                                              *)

\* The tool that is looked at takes its steps, and the others take none.
LEMMA OneToolMoves ==
  ASSUME [Next]_toolVars
  PROVE  /\ [ReadmesNext]_readmeVars /\ [FilesNext]_fileVars
         /\ [DistNext]_distVars /\ [CliNext]_cliVars
  BY Zenon DEF Next, toolVars

\* So what is proved of a tool holds where it is looked at.
THEOREM ToolsAreTools == Spec => ReadmesSpec /\ FilesSpec /\ DistSpec /\ CliSpec
  <1>1. Init => ReadmesInit /\ FilesInit /\ DistInit /\ CliInit
    BY DEF Init
  <1> QED
    BY <1>1, OneToolMoves, PTL DEF Spec, ReadmesSpec, FilesSpec, DistSpec, CliSpec

\* The state of every tool is well formed, whatever it is given.
THEOREM ToolsTypeOKHolds == ASSUME NoDirectory PROVE Spec => []ToolsTypeOK
  <1>1. ReadmesTypeOK /\ FilesTypeOK /\ DistTypeOK /\ CliTypeOK => ToolsTypeOK
    BY DEF ToolsTypeOK
  <1>2. DistSpec => []DistTypeOK
    BY DistTypeOKHolds
  <1> QED
    BY <1>1, <1>2, ToolsAreTools, ReadmesTypeOKHolds, FilesTypeOKHolds, CliTypeOKHolds, PTL
=============================================================================
