---------------------------- MODULE SyncReadmes ----------------------------
(***************************************************************************)
(* scripts/sync-readmes.mjs: copy the shared blocks of the root README     *)
(* into the READMEs of the packages, one after the other, or only look     *)
(* (--check).  People edit the READMEs, also while the script runs and     *)
(* between its reading a README and writing it back, and the script may be *)
(* killed with a README truncated and not yet written.                     *)
(***************************************************************************)
EXTENDS ReadmeBlocks

CONSTANTS
  Readmes,       \* texts that people may leave in a README
  FreshRoot, FreshPackage, \* the READMEs of a fresh checkout
  MaxReadmeEdits \* bound: edits

ASSUME ReadmesAssumption ==
  /\ Readmes \subseteq Seq(Token) /\ {FreshRoot, FreshPackage} \subseteq Seq(Token)
  /\ MaxReadmeEdits \in Nat

VARIABLES
  readme,    \* readme[r]: the content of README r
  checkOnly, \* --check
  sync,      \* "running", "writing" a README, or how the last run ended
  synced,    \* the package READMEs the run has dealt with
  rootContents, \* the root README as the run read it
  original,  \* the package README to be written, as the run read it
  drifted,   \* a package README was out of date (driftedFiles)
  readmeEdits,
  untouched, \* history: nobody edited a README since the run began
  tidy,      \* history: when it began, no README had blocks inside blocks
  overtaken  \* history: the README to be written was edited since it was read

readmeVars ==
  <<readme, checkOnly, sync, synced, rootContents, original, drifted, readmeEdits,
    untouched, tidy, overtaken>>

PackageReadmes == <<"packages/js", "packages/python">>
AllReadmes == {"root"} \cup ToSet(PackageReadmes)
Truncated == <<>>
NotRead == <<>>

ReadmesInit ==
  /\ readme = [r \in AllReadmes |-> IF r = "root" THEN FreshRoot ELSE FreshPackage]
  /\ checkOnly = FALSE
  /\ sync = "idle"
  /\ synced = 0
  /\ rootContents = FreshRoot
  /\ original = NotRead
  /\ drifted = FALSE
  /\ readmeEdits = 0
  /\ untouched = FALSE
  /\ tidy = FALSE
  /\ overtaken = FALSE

NextPackage == PackageReadmes[synced + 1]

EditReadme(r) ==
  /\ readmeEdits < MaxReadmeEdits
  /\ readmeEdits' = readmeEdits + 1
  /\ \E contents \in Readmes \ {readme[r]} : readme' = [readme EXCEPT ![r] = contents]
  /\ untouched' = FALSE
  /\ overtaken' = (overtaken \/ (sync = "writing" /\ r = NextPackage))
  /\ UNCHANGED <<checkOnly, sync, synced, rootContents, original, drifted, tidy>>

\* Other arguments than --check are refused before anything is read.
BeginSync(verify) ==
  /\ sync \notin {"running", "writing"}
  /\ checkOnly' = verify
  /\ rootContents' = readme["root"]
  /\ sync' = IF HasBlocks(readme["root"]) THEN "running" ELSE "refused"
  /\ synced' = 0
  /\ drifted' = FALSE
  /\ untouched' = TRUE
  /\ tidy' = \A r \in AllReadmes : Flat(readme[r])
  /\ UNCHANGED <<readme, original, readmeEdits, overtaken>>

\* updated, where the script does not throw.
Synchronised(contents) == Updated(contents, Canonical(rootContents))

SlipKeepsGoing(contents) == FALSE

\* markedBlock or assertBannerIsFirst throws.
CannotSync(contents) == Synchronised(contents) = Refused

SlipForgetsEarlier == Synchronised(readme[NextPackage]) # readme[NextPackage]

\* driftedFiles is not empty after this package.
DriftedNow == drifted \/ Synchronised(readme[NextPackage]) # readme[NextPackage]

MayWrite == ~checkOnly

AtPackage == sync = "running" /\ synced < Len(PackageReadmes)

\* The packages that come before keep what was written to them.
RefusePackage ==
  /\ AtPackage
  /\ CannotSync(readme[NextPackage])
  /\ sync' = "refused"
  /\ UNCHANGED <<readme, checkOnly, synced, rootContents, original, drifted, readmeEdits,
                 untouched, tidy, overtaken>>

\* The README is read and compared; one that is out of date is yet to be
\* written, unless the run only looks.
ReadPackage ==
  /\ AtPackage
  /\ ~CannotSync(readme[NextPackage])
  /\ drifted' = DriftedNow
  /\ \/ /\ MayWrite /\ Synchronised(readme[NextPackage]) # readme[NextPackage]
        /\ sync' = "writing" /\ original' = readme[NextPackage]
        /\ UNCHANGED synced
     \/ /\ ~MayWrite \/ Synchronised(readme[NextPackage]) = readme[NextPackage]
        /\ synced' = synced + 1
        /\ UNCHANGED <<sync, original>>
  /\ UNCHANGED <<readme, checkOnly, rootContents, readmeEdits, untouched, tidy, overtaken>>

\* writeFile, after an await: what an edit has made of the README meanwhile is
\* overwritten.
WritePackage ==
  /\ sync = "writing"
  /\ readme' = [readme EXCEPT ![NextPackage] = Synchronised(original)]
  /\ synced' = synced + 1
  /\ sync' = "running"
  /\ original' = NotRead
  /\ overtaken' = FALSE
  /\ UNCHANGED <<checkOnly, rootContents, drifted, readmeEdits, untouched, tidy>>

\* With --check, drifted files are an error.
FinishSync ==
  /\ sync = "running" /\ synced = Len(PackageReadmes)
  /\ sync' = IF checkOnly /\ drifted THEN "stale" ELSE "ok"
  /\ UNCHANGED <<readme, checkOnly, synced, rootContents, original, drifted, readmeEdits,
                 untouched, tidy, overtaken>>

\* Killed anywhere, in writeFile too.
KillSync ==
  /\ \/ sync \in {"running", "writing"} /\ UNCHANGED readme
     \/ sync = "writing" /\ readme' = [readme EXCEPT ![NextPackage] = Truncated]
  /\ sync' = "killed"
  /\ original' = NotRead
  /\ overtaken' = FALSE
  /\ UNCHANGED <<checkOnly, synced, rootContents, drifted, readmeEdits, untouched, tidy>>

ReadmesNext ==
  \/ \E r \in AllReadmes : EditReadme(r)
  \/ \E verify \in BOOLEAN : BeginSync(verify)
  \/ RefusePackage \/ ReadPackage \/ WritePackage \/ FinishSync \/ KillSync

ReadmesSpec == ReadmesInit /\ [][ReadmesNext]_readmeVars

-----------------------------------------------------------------------------
(* Properties.                                                             *)

ReadmesTypeOK ==
  /\ readme \in [AllReadmes -> Seq(Token)] /\ {rootContents, original} \subseteq Seq(Token)
  /\ checkOnly \in BOOLEAN
  /\ sync \in {"idle", "running", "writing", "ok", "stale", "refused", "killed"}
  /\ synced \in 0..Len(PackageReadmes)
  /\ drifted \in BOOLEAN
  /\ readmeEdits \in 0..MaxReadmeEdits
  /\ untouched \in BOOLEAN /\ tidy \in BOOLEAN /\ overtaken \in BOOLEAN

AllShare == \A p \in ToSet(PackageReadmes) : SharesBlocks(readme[p], readme["root"])

\* README.md:112: --check verifies that the package READMEs are in sync.  It
\* says so only if they are, and of READMEs it accepts at all it says the
\* opposite only if they are not, whatever killed runs left behind.  A run
\* that writes and ends well leaves every package README in sync where none
\* had blocks inside blocks.
SyncOutcomeIsTrue ==
  untouched =>
    /\ sync = "ok" /\ (checkOnly \/ tidy) => AllShare
    /\ sync = "stale" => ~AllShare

\* What a package README says outside its blocks survives every run that is
\* not killed, as long as nobody edits it between the run's reading it and
\* writing it back (that edit is lost); edits at any other time survive the
\* run, and --check changes nothing.
OwnTextKept ==
  [][\A p \in ToSet(PackageReadmes) :
       readmeEdits' = readmeEdits /\ readme'[p] # readme[p] =>
         /\ ~checkOnly
         /\ sync' = "killed" \/ (~overtaken /\ Flat(readme[p]) /\ Flat(rootContents) =>
                                   OwnText(readme'[p]) = OwnText(readme[p]))]_readmeVars
=============================================================================
