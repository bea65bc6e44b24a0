--------------------------- MODULE PhpSyncProofs ---------------------------
(***************************************************************************)
(* What a released version holds, that it stays on the branch, and that a  *)
(* run which is left alone publishes: proved for any number of overlapping *)
(* runs, versions, packages, pushes and crashes.                           *)
(***************************************************************************)
EXTENDS PhpSync, NaturalsInduction, WellFoundedInduction, TLAPS

USE DEF github, locals

\* Before the repository exists nothing refers to a commit.
Missing ==
  repo = "missing" =>
    /\ commits = <<>>
    /\ \A v \in Version : tags[v] = 0
    /\ \A j \in Job : pc[j] \in {"idle", "failed", "repo", "create"}

\* A repository that exists has a branch.
HasBranch == repo # "missing" => branch \in DOMAIN commits

\* A run that has read the head holds a commit.
HeadRead ==
  \A j \in Job :
    pc[j] \in {"tag", "commit", "patch", "tagging"} => head[j] \in DOMAIN commits

\* The commit a run is about to put on the branch, or to tag, holds its package.
ShaHolds ==
  \A j \in Job :
    pc[j] \in {"patch", "tagging"} =>
      /\ sha[j] \in DOMAIN commits
      /\ commits[sha[j]].tree = tree[j]

\* A run that only has to set topics has its version published.
TagFound ==
  \A j \in Job :
    pc[j] \in {"topics", "done"} =>
      /\ tags[version[j]] # 0
      /\ commits[tags[version[j]]].tree = tree[j]

IInv ==
  /\ TypeOK /\ Missing /\ HasBranch /\ HeadRead
  /\ ShaHolds /\ TagFound /\ TagHoldsPackage

\* The inductive invariant holds at the start.
LEMMA InitInv == Init => IInv
  <1> SUFFICES ASSUME Init PROVE IInv
    OBVIOUS
  <1> USE SyncAssumption
  <1>1. commits \in Seq([tree : AnyTree, parent : Nat]) /\ Len(commits) \in {0, 1}
    <2> DEFINE first == [tree |-> Empty, parent |-> 0]
    <2>1. first \in [tree : AnyTree, parent : Nat]
      BY DEF AnyTree
    <2>2. <<>> \in Seq([tree : AnyTree, parent : Nat]) /\ Len(<<>>) = 0
      OBVIOUS
    <2>3. <<first>> \in Seq([tree : AnyTree, parent : Nat]) /\ Len(<<first>>) = 1
      BY <2>1
    <2>4. commits = <<>> \/ commits = <<first>>
      BY DEF Init
    <2> QED
      BY <2>2, <2>3, <2>4
  <1>2. \A n \in DOMAIN commits : commits[n].parent < n
    BY DEF Init
  <1>3. TypeOK
    BY <1>1, <1>2 DEF Init, TypeOK, AnyTree, Over, Step
  <1>4. Missing /\ HasBranch
    BY DEF Init, Missing, HasBranch
  <1>5. HeadRead /\ ShaHolds /\ TagFound /\ TagHoldsPackage
    BY DEF Init, HeadRead, ShaHolds, TagFound, TagHoldsPackage
  <1> QED
    BY <1>3, <1>4, <1>5 DEF IInv

\* Commits are only added: what refers to one keeps its meaning.
LEMMA AppendKeeps ==
  ASSUME NEW t \in AnyTree, NEW p \in 0..Len(commits), TypeOK,
         commits' = Append(commits, [tree |-> t, parent |-> p])
  PROVE  /\ commits' \in Seq([tree : AnyTree, parent : Nat])
         /\ Len(commits') = Len(commits) + 1
         /\ \A n \in DOMAIN commits' : commits'[n].parent < n
         /\ \A n \in DOMAIN commits : n \in DOMAIN commits' /\ commits'[n] = commits[n]
         /\ commits'[Len(commits) + 1] = [tree |-> t, parent |-> p]
  BY DEF TypeOK

-----------------------------------------------------------------------------
(* One lemma per action of Next.                                           *)

\* A step that changes only where runs are keeps the invariant, if it puts
\* run j at a place whose conditions hold.
LEMMA PcStep ==
  ASSUME NEW j \in Job, NEW to \in Over \cup Step, IInv,
         pc' = [pc EXCEPT ![j] = to],
         quiet' \in [Job -> BOOLEAN],
         UNCHANGED <<github, locals, starts, pushes, published>>,
         repo = "missing" => to \in {"failed", "create"},
         to \in {"tag", "commit", "patch", "tagging"} => head[j] \in DOMAIN commits,
         to \in {"patch", "tagging"} =>
           sha[j] \in DOMAIN commits /\ commits[sha[j]].tree = tree[j],
         to \in {"topics", "done"} =>
           /\ tags[version[j]] # 0
           /\ commits[tags[version[j]]].tree = tree[j]
  PROVE  IInv'
  <1>1. TypeOK'
    BY DEF IInv, TypeOK
  <1>2. Missing' /\ HasBranch'
    BY DEF IInv, TypeOK, Missing, HasBranch
  <1>3. HeadRead' /\ ShaHolds'
    BY DEF IInv, TypeOK, HeadRead, ShaHolds
  <1>4. TagFound' /\ TagHoldsPackage'
    BY DEF IInv, TypeOK, TagFound, TagHoldsPackage
  <1> QED
    BY <1>1, <1>2, <1>3, <1>4 DEF IInv

\* A run that is refused, killed, or sets topics changes only its own place.
LEMMA QuietSteps ==
  ASSUME NEW j \in Job, IInv, FindRepo(j) \/ PutTopics(j) \/ Interrupted(j)
  PROVE  IInv'
  <1>1. CASE FindRepo(j)
    <2>1. pc[j] = "repo" /\ quiet' = quiet
          /\ UNCHANGED <<github, locals, starts, pushes, published>>
      BY <1>1 DEF FindRepo, Goes, Throws
    <2>2. PICK to \in {"create", "failed", "head"} :
            pc' = [pc EXCEPT ![j] = to] /\ (repo = "missing" => to = "create")
      BY <1>1 DEF FindRepo, Goes, Throws
    <2>3. to \in Over \cup Step /\ to \notin {"tag", "commit", "patch", "tagging", "topics", "done"}
      BY <2>2 DEF Over, Step
    <2>4. quiet' \in [Job -> BOOLEAN]
      BY <2>1 DEF IInv, TypeOK
    <2> QED
      BY <2>1, <2>2, <2>3, <2>4, PcStep
  <1>2. CASE PutTopics(j)
    <2>1. /\ pc[j] = "topics" /\ quiet' = quiet
          /\ pc' = [pc EXCEPT ![j] = "done"]
          /\ UNCHANGED <<github, locals, starts, pushes, published>>
      BY <1>2 DEF PutTopics, Goes
    <2>2. /\ tags[version[j]] # 0
          /\ commits[tags[version[j]]].tree = tree[j]
      BY <2>1 DEF IInv, TagFound
    <2>3. repo # "missing"
      BY <2>1 DEF IInv, Missing
    <2>4. quiet' \in [Job -> BOOLEAN] /\ "done" \in Over \cup Step
      BY <2>1 DEF IInv, TypeOK, Over
    <2> QED
      BY <2>1, <2>2, <2>3, <2>4, PcStep
  <1>3. CASE Interrupted(j)
    <2>1. /\ pc' = [pc EXCEPT ![j] = "failed"]
          /\ quiet' = [quiet EXCEPT ![j] = FALSE]
          /\ UNCHANGED <<github, locals, starts, pushes, published>>
      BY <1>3 DEF Interrupted
    <2>2. quiet' \in [Job -> BOOLEAN] /\ "failed" \in Over \cup Step
      BY <2>1 DEF IInv, TypeOK, Over
    <2> QED
      BY <2>1, <2>2, PcStep
  <1> QED
    BY <1>1, <1>2, <1>3

\* A new run holds nothing that could be wrong.
LEMMA StartStep ==
  ASSUME NEW j \in Job, IInv, Start(j)
  PROVE  IInv'
  <1> USE SyncAssumption
  <1>1. PICK v \in Version, t \in Tree :
          version' = [version EXCEPT ![j] = v] /\ tree' = [tree EXCEPT ![j] = t]
    BY DEF Start
  <1>2. /\ starts' = starts + 1 /\ starts < MaxStarts
        /\ head' = [head EXCEPT ![j] = 0] /\ sha' = [sha EXCEPT ![j] = 0]
        /\ pc' = [pc EXCEPT ![j] = "repo"] /\ quiet' = [quiet EXCEPT ![j] = TRUE]
        /\ UNCHANGED <<github, pushes, published>>
    BY DEF Start
  <1>3. TypeOK'
    BY <1>1, <1>2 DEF IInv, TypeOK, AnyTree, Step
  <1>4. Missing' /\ HasBranch' /\ TagHoldsPackage'
    BY <1>2 DEF IInv, TypeOK, Missing, HasBranch, TagHoldsPackage
  <1>5. HeadRead' /\ ShaHolds' /\ TagFound'
    BY <1>1, <1>2 DEF IInv, TypeOK, HeadRead, ShaHolds, TagFound
  <1> QED
    BY <1>3, <1>4, <1>5 DEF IInv

\* A new repository: nobody holds a commit yet.
LEMMA CreateRepoStep ==
  ASSUME NEW j \in Job, IInv, CreateRepo(j)
  PROVE  IInv'
  <1>1. CASE repo # "missing"
    <2>1. /\ pc' = [pc EXCEPT ![j] = "failed"] /\ quiet' = quiet
          /\ UNCHANGED <<github, locals, starts, pushes, published>>
      BY <1>1 DEF CreateRepo, Throws, Goes
    <2>2. quiet' \in [Job -> BOOLEAN] /\ "failed" \in Over \cup Step
      BY <2>1 DEF IInv, TypeOK, Over
    <2> QED
      BY <2>1, <2>2, <1>1, PcStep
  <1>2. CASE repo = "missing"
    <2> DEFINE first == [tree |-> Empty, parent |-> 0]
    <2>1. /\ repo' = "public" /\ commits' = <<first>> /\ branch' = 1
          /\ UNCHANGED <<tags, locals, starts, pushes, published>>
      BY <1>2 DEF CreateRepo
    <2>2. PICK to \in {"head", "failed"} : pc' = [pc EXCEPT ![j] = to]
      BY <1>2 DEF CreateRepo, TookEffect
    <2>3. quiet' \in [Job -> BOOLEAN]
      BY <1>2 DEF CreateRepo, TookEffect, IInv, TypeOK
    <2>4. /\ commits = <<>> /\ Len(commits) = 0
          /\ \A v \in Version : tags[v] = 0
          /\ \A k \in Job : pc[k] \in {"idle", "failed", "repo", "create"}
      BY <1>2 DEF IInv, Missing
    <2>5. first \in [tree : AnyTree, parent : Nat]
      BY DEF AnyTree
    <2>6. /\ commits' \in Seq([tree : AnyTree, parent : Nat]) /\ Len(commits') = 1
          /\ DOMAIN commits' = {1} /\ commits'[1] = first
      BY <2>1, <2>5
    <2>7. \A k \in Job : pc'[k] \in {"idle", "failed", "repo", "create", "head"}
      BY <2>2, <2>4 DEF IInv, TypeOK
    <2>8. TypeOK'
      <3>1. /\ repo' \in {"missing", "private", "public"}
            /\ \A n \in DOMAIN commits' : commits'[n].parent < n
            /\ branch' \in 0..Len(commits')
            /\ version' \in [Job -> Version] /\ tree' \in [Job -> AnyTree]
            /\ starts' \in 0..MaxStarts /\ pushes' \in 0..MaxPushes
            /\ published' \in [Version -> AnyTree]
        BY <2>1, <2>6 DEF IInv, TypeOK
      <3>2. tags' \in [Version -> 0..Len(commits')]
        BY <2>1, <2>4, <2>6 DEF IInv, TypeOK
      <3>3. head' \in [Job -> 0..Len(commits')] /\ sha' \in [Job -> 0..Len(commits')]
        BY <2>1, <2>4, <2>6 DEF IInv, TypeOK
      <3>4. pc' \in [Job -> Over \cup Step]
        BY <2>2 DEF IInv, TypeOK, Over, Step
      <3> QED
        BY <2>3, <2>6, <3>1, <3>2, <3>3, <3>4 DEF TypeOK
    <2>9. Missing' /\ HasBranch'
      BY <2>1, <2>6 DEF Missing, HasBranch
    <2>10. HeadRead' /\ ShaHolds' /\ TagFound' /\ TagHoldsPackage'
      BY <2>1, <2>4, <2>7 DEF HeadRead, ShaHolds, TagFound, TagHoldsPackage
    <2> QED
      BY <2>8, <2>9, <2>10 DEF IInv
  <1> QED
    BY <1>1, <1>2

\* The head that a run reads is a commit.
LEMMA ReadHeadStep ==
  ASSUME NEW j \in Job, IInv, ReadHead(j)
  PROVE  IInv'
  <1>1. /\ pc[j] = "head" /\ head' = [head EXCEPT ![j] = branch]
        /\ pc' = [pc EXCEPT ![j] = "tag"] /\ quiet' = quiet
        /\ UNCHANGED <<github, version, tree, sha, starts, pushes, published>>
    BY DEF ReadHead, Goes
  <1>2. repo # "missing" /\ branch \in DOMAIN commits
    BY <1>1 DEF IInv, Missing, HasBranch
  <1>3. TypeOK'
    BY <1>1 DEF IInv, TypeOK, Step
  <1>4. Missing' /\ HasBranch' /\ HeadRead'
    BY <1>1, <1>2 DEF IInv, TypeOK, Missing, HasBranch, HeadRead
  <1>5. ShaHolds' /\ TagFound' /\ TagHoldsPackage'
    BY <1>1 DEF IInv, TypeOK, ShaHolds, TagFound, TagHoldsPackage
  <1> QED
    BY <1>3, <1>4, <1>5 DEF IInv

\* A run leaves the tag's look-up with what its next step needs.
LEMMA FindTagStep ==
  ASSUME NEW j \in Job, IInv, FindTag(j)
  PROVE  IInv'
  <1>1. /\ pc[j] = "tag" /\ quiet' = quiet
        /\ UNCHANGED <<github, version, tree, head, starts, pushes, published>>
    BY DEF FindTag, Goes, Throws
  <1>2. repo # "missing" /\ head[j] \in DOMAIN commits
    BY <1>1 DEF IInv, Missing, HeadRead
  <1>3. quiet' \in [Job -> BOOLEAN]
    BY <1>1 DEF IInv, TypeOK
  <1>4. CASE sha' = sha
    <2>1. PICK to \in {"topics", "failed", "commit", "tagging"} : pc' = [pc EXCEPT ![j] = to]
      BY DEF FindTag, Goes, Throws
    <2>2. CASE to = "tagging"
      <3>1. sha' = [sha EXCEPT ![j] = head[j]] /\ Committed(j)
        BY <2>1, <2>2, <1>1 DEF FindTag, Goes, Throws, IInv, TypeOK
      <3>2. sha[j] = head[j]
        BY <3>1, <1>4 DEF IInv, TypeOK
      <3>3. to \in Over \cup Step
        BY <2>2 DEF Step
      <3> QED
        BY <1>1, <1>2, <1>3, <1>4, <2>1, <2>2, <3>1, <3>2, <3>3, PcStep DEF Committed
    <2>3. CASE to # "tagging"
      <3>1. to = "topics" =>
              /\ tags[version[j]] # 0
              /\ commits[tags[version[j]]].tree = tree[j]
        BY <2>1, <1>1 DEF FindTag, Goes, Throws, SameContents, IInv, TypeOK
      <3>2. to \in Over \cup Step
        BY <2>1 DEF Over, Step
      <3> QED
        BY <1>1, <1>2, <1>3, <1>4, <2>1, <2>3, <3>1, <3>2, PcStep
    <2> QED
      BY <2>2, <2>3
  <1>5. CASE sha' # sha
    <2>1. /\ sha' = [sha EXCEPT ![j] = head[j]] /\ Committed(j)
          /\ pc' = [pc EXCEPT ![j] = "tagging"]
      BY <1>5 DEF FindTag, Goes
    <2>2. TypeOK'
      BY <1>1, <2>1 DEF IInv, TypeOK, Step
    <2>3. Missing' /\ HasBranch' /\ HeadRead'
      BY <1>1, <1>2, <2>1 DEF IInv, TypeOK, Missing, HasBranch, HeadRead
    <2>4. ShaHolds'
      BY <1>1, <1>2, <2>1 DEF IInv, TypeOK, ShaHolds, Committed
    <2>5. TagFound' /\ TagHoldsPackage'
      BY <1>1, <2>1 DEF IInv, TypeOK, TagFound, TagHoldsPackage
    <2> QED
      BY <2>2, <2>3, <2>4, <2>5 DEF IInv
  <1> QED
    BY <1>4, <1>5

\* A run's own commit holds its package.
LEMMA PostCommitStep ==
  ASSUME NEW j \in Job, IInv, PostCommit(j)
  PROVE  IInv'
  <1>1. /\ pc[j] = "commit"
        /\ commits' = Append(commits, [tree |-> tree[j], parent |-> head[j]])
        /\ sha' = [sha EXCEPT ![j] = Len(commits) + 1]
        /\ UNCHANGED <<repo, branch, tags, version, tree, head, starts, pushes, published>>
    BY DEF PostCommit
  <1>2. PICK to \in {"patch", "failed"} :
          pc' = [pc EXCEPT ![j] = to] /\ quiet' = [quiet EXCEPT ![j] = quiet[j] /\ to = "patch"]
    BY DEF PostCommit
  <1>3. tree[j] \in AnyTree /\ head[j] \in 0..Len(commits) /\ head[j] \in DOMAIN commits
    BY <1>1 DEF IInv, TypeOK, HeadRead
  <1>4. /\ commits' \in Seq([tree : AnyTree, parent : Nat])
        /\ Len(commits') = Len(commits) + 1
        /\ \A n \in DOMAIN commits' : commits'[n].parent < n
        /\ \A n \in DOMAIN commits : n \in DOMAIN commits' /\ commits'[n] = commits[n]
        /\ commits'[Len(commits) + 1] = [tree |-> tree[j], parent |-> head[j]]
    BY <1>1, <1>3, AppendKeeps DEF IInv
  <1>5. Len(commits) \in Nat /\ DOMAIN commits = 1..Len(commits) /\ DOMAIN commits' = 1..Len(commits')
    BY <1>4 DEF IInv, TypeOK
  <1>6. TypeOK'
    <2>1. /\ branch' \in 0..Len(commits') /\ tags' \in [Version -> 0..Len(commits')]
          /\ head' \in [Job -> 0..Len(commits')] /\ sha' \in [Job -> 0..Len(commits')]
      BY <1>1, <1>4, <1>5 DEF IInv, TypeOK
    <2>2. pc' \in [Job -> Over \cup Step] /\ quiet' \in [Job -> BOOLEAN]
      BY <1>2 DEF IInv, TypeOK, Over, Step
    <2> QED
      BY <1>1, <1>4, <2>1, <2>2 DEF IInv, TypeOK
  <1>7. Missing' /\ HasBranch'
    BY <1>1, <1>2, <1>4 DEF IInv, TypeOK, Missing, HasBranch
  <1>8. HeadRead'
    BY <1>1, <1>2, <1>3, <1>4 DEF IInv, TypeOK, HeadRead
  <1>9. ShaHolds'
    BY <1>1, <1>2, <1>4, <1>5 DEF IInv, TypeOK, ShaHolds
  <1>10. TagFound' /\ TagHoldsPackage'
    <2>1. \A v \in Version : tags[v] # 0 => commits'[tags[v]] = commits[tags[v]]
      BY <1>4, <1>5 DEF IInv, TypeOK
    <2> QED
      BY <1>1, <1>2, <2>1 DEF IInv, TypeOK, TagFound, TagHoldsPackage
  <1> QED
    BY <1>6, <1>7, <1>8, <1>9, <1>10 DEF IInv

\* Moving the branch changes no commit.
LEMMA PatchBranchStep ==
  ASSUME NEW j \in Job, IInv, PatchBranch(j)
  PROVE  IInv'
  <1>1. /\ pc[j] = "patch"
        /\ UNCHANGED <<repo, commits, tags, locals, starts, pushes, published>>
    BY DEF PatchBranch
  <1>2. /\ repo # "missing" /\ head[j] \in DOMAIN commits /\ sha[j] \in DOMAIN commits
        /\ commits[sha[j]].tree = tree[j]
    BY <1>1 DEF IInv, Missing, HeadRead, ShaHolds
  <1>3. PICK to \in {"tagging", "failed"} :
          pc' = [pc EXCEPT ![j] = to] /\ quiet' \in [Job -> BOOLEAN]
    BY DEF PatchBranch, TookEffect, Throws, Goes, IInv, TypeOK
  <1>4. branch' \in DOMAIN commits
    BY <1>2 DEF PatchBranch, IInv, HasBranch
  <1>5. TypeOK'
    BY <1>1, <1>3, <1>4 DEF IInv, TypeOK, Over, Step
  <1>6. Missing' /\ HasBranch' /\ HeadRead' /\ ShaHolds'
    BY <1>1, <1>2, <1>3, <1>4 DEF IInv, TypeOK, Missing, HasBranch, HeadRead, ShaHolds
  <1>7. TagFound' /\ TagHoldsPackage'
    BY <1>1, <1>3 DEF IInv, TypeOK, TagFound, TagHoldsPackage
  <1> QED
    BY <1>5, <1>6, <1>7 DEF IInv

\* The tag is set to the commit that holds the package.
LEMMA CreateTagStep ==
  ASSUME NEW j \in Job, IInv, CreateTag(j)
  PROVE  IInv'
  <1>1. /\ pc[j] = "tagging"
        /\ UNCHANGED <<repo, commits, branch, locals, starts, pushes>>
    BY DEF CreateTag
  <1>2. /\ repo # "missing" /\ head[j] \in DOMAIN commits /\ sha[j] \in DOMAIN commits
        /\ commits[sha[j]].tree = tree[j]
    BY <1>1 DEF IInv, Missing, HeadRead, ShaHolds
  <1>3. CASE tags[version[j]] # 0
    <2>1. /\ pc' = [pc EXCEPT ![j] = "failed"] /\ quiet' = quiet
          /\ UNCHANGED <<github, locals, starts, pushes, published>>
      BY <1>1, <1>3 DEF CreateTag, Throws, Goes
    <2>2. quiet' \in [Job -> BOOLEAN] /\ "failed" \in Over \cup Step
      BY <2>1 DEF IInv, TypeOK, Over
    <2> QED
      BY <2>1, <2>2, PcStep
  <1>4. CASE tags[version[j]] = 0
    <2>1. /\ tags' = [tags EXCEPT ![version[j]] = sha[j]]
          /\ published' = [published EXCEPT ![version[j]] = tree[j]]
      BY <1>4 DEF CreateTag, TagTarget
    <2>2. PICK to \in {"topics", "failed"} :
            pc' = [pc EXCEPT ![j] = to] /\ quiet' \in [Job -> BOOLEAN]
      BY <1>4 DEF CreateTag, TookEffect, IInv, TypeOK
    <2>3. TypeOK'
      BY <1>1, <1>2, <2>1, <2>2 DEF IInv, TypeOK, Over, Step
    <2>4. Missing' /\ HasBranch' /\ HeadRead' /\ ShaHolds'
      BY <1>1, <1>2, <2>2 DEF IInv, TypeOK, Missing, HasBranch, HeadRead, ShaHolds
    <2>5. TagHoldsPackage'
      BY <1>1, <1>2, <2>1 DEF IInv, TypeOK, TagHoldsPackage
    <2>6. TagFound'
      <3> SUFFICES ASSUME NEW k \in Job, pc'[k] \in {"topics", "done"}
                   PROVE  /\ tags'[version[k]] # 0
                          /\ commits[tags'[version[k]]].tree = tree[k]
        BY <1>1 DEF TagFound
      <3>1. version[k] \in Version /\ version[j] \in Version /\ sha[j] # 0
        BY <1>2 DEF IInv, TypeOK
      <3>2. CASE k = j
        BY <1>2, <2>1, <3>1, <3>2 DEF IInv, TypeOK
      <3>3. CASE k # j
        <4>1. /\ tags[version[k]] # 0
              /\ commits[tags[version[k]]].tree = tree[k]
          BY <2>2, <3>3 DEF IInv, TypeOK, TagFound
        <4>2. version[k] # version[j]
          BY <1>4, <4>1
        <4> QED
          BY <2>1, <3>1, <4>1, <4>2 DEF IInv, TypeOK
      <3> QED
        BY <3>2, <3>3
    <2> QED
      BY <2>3, <2>4, <2>5, <2>6 DEF IInv
  <1> QED
    BY <1>3, <1>4

\* Somebody else's commit leaves every other one as it was.
LEMMA PushStep ==
  ASSUME IInv, Push
  PROVE  IInv'
  <1> USE SyncAssumption
  <1>1. PICK t \in AnyTree : commits' = Append(commits, [tree |-> t, parent |-> branch])
    BY DEF Push
  <1>2. /\ pushes' = pushes + 1 /\ pushes < MaxPushes /\ branch # 0
        /\ branch' = Len(commits) + 1 /\ quiet' = [j \in Job |-> FALSE]
        /\ UNCHANGED <<repo, tags, pc, locals, starts, published>>
    BY DEF Push
  <1>3. branch \in 0..Len(commits)
    BY DEF IInv, TypeOK
  <1>4. /\ commits' \in Seq([tree : AnyTree, parent : Nat])
        /\ Len(commits') = Len(commits) + 1
        /\ \A n \in DOMAIN commits' : commits'[n].parent < n
        /\ \A n \in DOMAIN commits : n \in DOMAIN commits' /\ commits'[n] = commits[n]
    BY <1>1, <1>3, AppendKeeps DEF IInv
  <1>5. Len(commits) \in Nat /\ DOMAIN commits = 1..Len(commits) /\ DOMAIN commits' = 1..Len(commits')
    BY <1>4 DEF IInv, TypeOK
  <1>6. repo # "missing"
    <2>1. repo = "missing" => commits = <<>> /\ Len(commits) = 0
      BY DEF IInv, Missing
    <2> QED
      BY <2>1, <1>2, <1>3
  <1>7. TypeOK'
    <2>1. /\ branch' \in 0..Len(commits') /\ tags' \in [Version -> 0..Len(commits')]
          /\ head' \in [Job -> 0..Len(commits')] /\ sha' \in [Job -> 0..Len(commits')]
      BY <1>2, <1>4, <1>5 DEF IInv, TypeOK
    <2> QED
      BY <1>2, <1>4, <2>1 DEF IInv, TypeOK
  <1>8. Missing' /\ HasBranch'
    BY <1>2, <1>4, <1>5, <1>6 DEF Missing, HasBranch
  <1>9. HeadRead' /\ ShaHolds'
    BY <1>2, <1>4 DEF IInv, HeadRead, ShaHolds
  <1>10. TagFound' /\ TagHoldsPackage'
    <2>1. \A v \in Version : tags[v] # 0 => commits'[tags[v]] = commits[tags[v]]
      BY <1>4, <1>5 DEF IInv, TypeOK
    <2> QED
      BY <1>2, <2>1 DEF IInv, TypeOK, TagFound, TagHoldsPackage
  <1> QED
    BY <1>7, <1>8, <1>9, <1>10 DEF IInv

-----------------------------------------------------------------------------
(* Every step keeps the invariant, and so do the properties hold.          *)

\* The inductive step, action by action.
LEMMA NextInv == IInv /\ [Next]_vars => IInv'
  <1> SUFFICES ASSUME IInv, [Next]_vars PROVE IInv'
    OBVIOUS
  <1>1. CASE Push
    BY <1>1, PushStep
  <1>2. ASSUME NEW j \in Job, Start(j) PROVE IInv'
    BY <1>2, StartStep
  <1>3. ASSUME NEW j \in Job, Request(j) \/ Interrupted(j) PROVE IInv'
    BY <1>3, QuietSteps, CreateRepoStep, ReadHeadStep, FindTagStep, PostCommitStep,
       PatchBranchStep, CreateTagStep DEF Request
  <1>4. CASE UNCHANGED vars
    BY <1>4 DEF vars, IInv, TypeOK, Missing, HasBranch, HeadRead, ShaHolds, TagFound,
                TagHoldsPackage
  <1> QED
    BY <1>1, <1>2, <1>3, <1>4 DEF Next

\* The strengthening that the two safety theorems rest on.
THEOREM Invariance == Spec => []IInv
  BY InitInv, NextInv, PTL DEF Spec

\* Every variable keeps its type: runs hold commits that exist.
THEOREM TypeCorrect == Spec => []TypeOK
  <1>1. IInv => TypeOK
    BY DEF IInv
  <1> QED
    BY Invariance, <1>1, PTL

\* A released version holds the package of the run that released it.
THEOREM TagHoldsPackageHolds == Spec => []TagHoldsPackage
  <1>1. IInv => TagHoldsPackage
    BY DEF IInv
  <1> QED
    BY Invariance, <1>1, PTL

\* A run that reports success has its package published under its version.
THEOREM DoneMeansPublishedHolds == Spec => []DoneMeansPublished
  <1>1. IInv => DoneMeansPublished
    BY DEF IInv, TagFound, DoneMeansPublished
  <1> QED
    BY Invariance, <1>1, PTL

-----------------------------------------------------------------------------
(* The history of a commit, as a function of the commits there are.        *)

\* Commits 1..n: parents are older than their children.
Rooted(cs, n) == \A k \in 1..n : cs[k].parent \in 0..(k - 1)

\* f is what History's recursive function must be, up to commit n.
Traces(f, cs, n) ==
  f = [k \in 0..n |-> IF k = 0 THEN {} ELSE {k} \cup f[cs[k].parent]]

\* A set of naturals that is not empty has a minimum.
LEMMA LeastOfNaturals ==
  ASSUME NEW S \in SUBSET Nat, S # {}
  PROVE  \E x \in S : \A y \in S : x <= y
  <1>1. PICK x \in S : \A y \in S : ~(<<y, x>> \in OpToRel(<, Nat))
    BY NatLessThanWellFounded, WFMin
  <1>2. ASSUME NEW y \in S PROVE x <= y
    <2>1. x \in Nat /\ y \in Nat
      OBVIOUS
    <2>2. y < x => <<y, x>> \in OpToRel(<, Nat)
      BY <2>1 DEF OpToRel
    <2>3. ~(y < x)
      BY <1>1, <2>2, Zenon
    <2> QED
      BY <2>1, <2>3
  <1> QED
    BY <1>2

\* One value of that function.
LEMMA TraceAt ==
  ASSUME NEW n \in Nat, NEW cs, NEW f, Traces(f, cs, n), NEW k \in 0..n
  PROVE  f[k] = IF k = 0 THEN {} ELSE {k} \cup f[cs[k].parent]
  <1> DEFINE F(i) == IF i = 0 THEN {} ELSE {i} \cup f[cs[i].parent]
  <1>1. f = [i \in 0..n |-> F(i)]
    BY DEF Traces
  <1> HIDE DEF F
  <1>2. f[k] = F(k)
    BY <1>1
  <1> QED
    BY <1>2 DEF F

\* There is such a function, ...
LEMMA TraceExists ==
  ASSUME NEW n \in Nat, NEW cs, Rooted(cs, n)
  PROVE  \E f : Traces(f, cs, n)
  <1> DEFINE Bad == {m \in 0..n : ~ \E f : Traces(f, cs, m)}
  <1>1. SUFFICES ASSUME Bad # {} PROVE FALSE
    <2>1. n \in Bad \/ \E f : Traces(f, cs, n)
      OBVIOUS
    <2> QED
      BY <2>1
  <1>2. PICK m \in Bad : \A y \in Bad : m <= y
    <2>1. Bad \in SUBSET Nat
      OBVIOUS
    <2> QED
      BY <1>1, <2>1, LeastOfNaturals
  <1>3. m \in 0..n /\ ~ \E f : Traces(f, cs, m)
    BY <1>2
  <1>4. m # 0
    <2>1. Traces([k \in 0..0 |-> {}], cs, 0)
      BY DEF Traces
    <2> QED
      BY <1>3, <2>1
  <1>5. PICK g : Traces(g, cs, m - 1)
    <2>1. m - 1 \in 0..n /\ ~(m <= m - 1)
      BY <1>3, <1>4
    <2>2. m - 1 \notin Bad
      BY <1>2, <2>1
    <2> QED
      BY <2>1, <2>2
  <1> DEFINE f == [k \in 0..m |-> IF k = m THEN {m} \cup g[cs[m].parent] ELSE g[k]]
  <1>6. Traces(f, cs, m)
    <2>1. ASSUME NEW k \in 0..m
          PROVE  f[k] = IF k = 0 THEN {} ELSE {k} \cup f[cs[k].parent]
      <3>1. CASE k = 0
        <4>1. g[0] = {}
          BY <1>3, <1>4, <1>5 DEF Traces
        <4> QED
          BY <3>1, <1>4, <4>1
      <3>2. CASE k # 0
        <4>1. k \in 1..n /\ cs[k].parent \in 0..(k - 1)
          BY <3>2, <1>3 DEF Rooted
        <4>2. f[cs[k].parent] = g[cs[k].parent]
          BY <4>1, <1>3
        <4>3. k # m => k \in 0..(m - 1)
          BY <4>1, <1>3
        <4>4. k # m => g[k] = {k} \cup g[cs[k].parent]
          BY <4>3, <3>2, <1>5 DEF Traces
        <4> QED
          BY <3>2, <4>2, <4>4
      <3> QED
        BY <3>1, <3>2
    <2>2. f = [k \in 0..m |-> f[k]]
      OBVIOUS
    <2> HIDE DEF f
    <2> QED
      BY <2>1, <2>2 DEF Traces
  <1> QED
    BY <1>3, <1>6

\* ... and commits that are added later do not change it.
LEMMA TraceIsUnique ==
  ASSUME NEW n \in Nat, NEW m \in 0..n, NEW cs, NEW ds, NEW f, NEW g,
         Rooted(cs, n), Rooted(ds, m), \A k \in 1..m : ds[k].parent = cs[k].parent,
         Traces(f, cs, n), Traces(g, ds, m)
  PROVE  \A k \in 0..m : g[k] = f[k]
  <1> DEFINE Bad == {k \in 0..m : g[k] # f[k]}
  <1>1. SUFFICES ASSUME Bad # {} PROVE FALSE
    OBVIOUS
  <1>2. PICK k \in Bad : \A y \in Bad : k <= y
    <2>1. Bad \in SUBSET Nat
      OBVIOUS
    <2> QED
      BY <1>1, <2>1, LeastOfNaturals
  <1>3. k \in 0..m /\ k \in 0..n /\ g[k] # f[k]
    BY <1>2
  <1>4. k # 0
    BY <1>3 DEF Traces
  <1> DEFINE p == cs[k].parent
  <1>5. p \in 0..(k - 1) /\ ds[k].parent = p
    BY <1>3, <1>4 DEF Rooted
  <1>6. g[k] = {k} \cup g[p] /\ f[k] = {k} \cup f[p]
    <2>1. g[k] = {k} \cup g[ds[k].parent]
      BY <1>3, <1>4 DEF Traces
    <2>2. f[k] = {k} \cup f[cs[k].parent]
      BY <1>3, <1>4 DEF Traces
    <2> QED
      BY <2>1, <2>2, <1>5
  <1>7. p \in 0..m /\ ~(k <= p)
    BY <1>3, <1>5
  <1>8. g[p] = f[p]
    BY <1>2, <1>7
  <1> QED
    BY <1>3, <1>6, <1>8

\* The history of commit n, for any sequence of commits.
Line(cs, n) == (CHOOSE f : Traces(f, cs, n))[n]

\* What the recursive function computes: a commit and the history of its parent.
LEMMA LineUnfolds ==
  ASSUME NEW n \in Nat, NEW cs, Rooted(cs, n)
  PROVE  /\ Line(cs, 0) = {}
         /\ n # 0 => Line(cs, n) = {n} \cup Line(cs, cs[n].parent)
  <1>1. Line(cs, 0) = {}
    <2>1. Traces([k \in 0..0 |-> {}], cs, 0)
      BY DEF Traces
    <2> DEFINE f == CHOOSE h : Traces(h, cs, 0)
    <2>2. Traces(f, cs, 0)
      BY <2>1
    <2> HIDE DEF f
    <2>3. f[0] = {}
      BY <2>2 DEF Traces
    <2> QED
      BY <2>3 DEF f, Line
  <1>2. ASSUME n # 0 PROVE Line(cs, n) = {n} \cup Line(cs, cs[n].parent)
    <2> DEFINE p == cs[n].parent
               f == CHOOSE h : Traces(h, cs, n)
               g == CHOOSE h : Traces(h, cs, p)
    <2>1. p \in 0..(n - 1) /\ p \in Nat /\ p \in 0..n
      BY <1>2 DEF Rooted
    <2>2. Rooted(cs, p)
      BY <2>1 DEF Rooted
    <2>3. Traces(f, cs, n)
      BY TraceExists
    <2>4. Traces(g, cs, p)
      BY <2>1, <2>2, TraceExists
    <2> HIDE DEF f, g
    <2>5. g[p] = f[p]
      BY <2>1, <2>2, <2>3, <2>4, TraceIsUnique
    <2>6. f[n] = {n} \cup f[p]
      <3>1. n \in 0..n
        OBVIOUS
      <3>2. f[n] = IF n = 0 THEN {} ELSE {n} \cup f[cs[n].parent]
        BY <2>3, <3>1, TraceAt
      <3> QED
        BY <3>2, <1>2
    <2> QED
      BY <2>5, <2>6 DEF f, g, Line
  <1> QED
    BY <1>1, <1>2

\* The history of a commit depends on the commits before it only.
LEMMA LineStays ==
  ASSUME NEW n \in Nat, NEW cs, NEW ds, Rooted(cs, n),
         \A k \in 1..n : ds[k].parent = cs[k].parent
  PROVE  Line(ds, n) = Line(cs, n)
  <1> DEFINE f == CHOOSE h : Traces(h, cs, n)
             g == CHOOSE h : Traces(h, ds, n)
  <1>1. Rooted(ds, n)
    BY DEF Rooted
  <1>2. Traces(f, cs, n) /\ Traces(g, ds, n)
    BY <1>1, TraceExists
  <1> HIDE DEF f, g
  <1>3. g[n] = f[n]
    BY <1>1, <1>2, TraceIsUnique
  <1> QED
    BY <1>3 DEF f, g, Line

\* History is transitive: what is before a commit of a history is in it.
LEMMA LineIsTransitive ==
  ASSUME NEW n \in Nat, NEW cs, Rooted(cs, n)
  PROVE  \A m \in Line(cs, n) : m \in 1..n /\ m \in Line(cs, m) /\ Line(cs, m) \subseteq Line(cs, n)
  <1> DEFINE Good(k) == \A m \in Line(cs, k) :
                          m \in 1..k /\ m \in Line(cs, m) /\ Line(cs, m) \subseteq Line(cs, k)
             Bad == {k \in 0..n : ~Good(k)}
  <1>1. SUFFICES ASSUME Bad # {} PROVE FALSE
    <2>1. n \in Bad \/ Good(n)
      OBVIOUS
    <2> QED
      BY <2>1
  <1>2. PICK k \in Bad : \A y \in Bad : k <= y
    <2>1. Bad \in SUBSET Nat
      OBVIOUS
    <2> HIDE DEF Bad
    <2> QED
      BY <1>1, <2>1, LeastOfNaturals
  <1>3. k \in 0..n /\ ~Good(k) /\ Rooted(cs, k)
    BY <1>2 DEF Rooted
  <1>4. k # 0
    BY <1>3, LineUnfolds
  <1> DEFINE p == cs[k].parent
  <1>5. p \in 0..(k - 1) /\ Line(cs, k) = {k} \cup Line(cs, p)
    BY <1>3, <1>4, LineUnfolds DEF Rooted
  <1>6. Good(p)
    <2>1. p \in 0..n /\ ~(k <= p)
      BY <1>3, <1>5
    <2> QED
      BY <1>2, <2>1
  <1>7. Good(k)
    BY <1>3, <1>4, <1>5, <1>6
  <1> QED
    BY <1>3, <1>7

-----------------------------------------------------------------------------
(* What a step does to the commits, the branch and the other runs.         *)

\* A run that has read the head holds a commit of the branch, and so does a
\* run that is about to tag.
ReadOnBranch ==
  \A j \in Job :
    /\ pc[j] = "tag" => head[j] \in History(branch)
    /\ pc[j] = "tagging" => sha[j] \in History(branch)

\* What run j may rely on while it met no fault and no change by others,
\* and the only reasons it may then fail for.
QuietFine(j) ==
  /\ pc[j] = "create" => repo = "missing"
  /\ pc[j] \in {"tag", "commit", "patch"} => head[j] = branch
  /\ pc[j] \in {"commit", "patch", "tagging"} => tags[version[j]] = 0
  /\ pc[j] = "patch" => commits[sha[j]].parent = branch
  /\ pc[j] = "failed" =>
       \/ repo = "private"
       \/ tags[version[j]] # 0 /\ commits[tags[version[j]]].tree # tree[j]

QuietInv == \A j \in Job : quiet[j] => QuietFine(j)

\* Parents are older than their children: such a sequence is rooted.
LEMMA ParentsRoot ==
  ASSUME NEW cs \in Seq([tree : AnyTree, parent : Nat]),
         \A n \in DOMAIN cs : cs[n].parent < n
  PROVE  \A n \in 0..Len(cs) : n \in Nat /\ Rooted(cs, n)
  <1>1. Len(cs) \in Nat /\ DOMAIN cs = 1..Len(cs)
    OBVIOUS
  <1>2. \A k \in 1..Len(cs) : cs[k].parent \in 0..(k - 1)
    <2> SUFFICES ASSUME NEW k \in 1..Len(cs) PROVE cs[k].parent \in 0..(k - 1)
      OBVIOUS
    <2>1. cs[k] \in [tree : AnyTree, parent : Nat]
      <3> DEFINE R == [tree : AnyTree, parent : Nat]
      <3>1. cs \in Seq(R)
        OBVIOUS
      <3> HIDE DEF R
      <3>2. cs[k] \in R
        BY <1>1, <3>1
      <3> QED
        BY <3>2 DEF R
    <2>2. cs[k].parent \in Nat /\ cs[k].parent < k
      BY <1>1, <2>1
    <2> QED
      BY <2>2
  <1> QED
    BY <1>1, <1>2 DEF Rooted

\* Hence so are the commits of the repository.
LEMMA CommitsRooted ==
  ASSUME TypeOK
  PROVE  \A n \in 0..Len(commits) : n \in Nat /\ Rooted(commits, n)
  BY ParentsRoot DEF TypeOK

\* The history of the branch, before and after a step.
LEMMA BranchLine ==
  ASSUME TypeOK, TypeOK'
  PROVE  /\ History(branch) = Line(commits, branch)
         /\ History(branch)' = Line(commits', branch')
  BY DEF History, Line, Traces

\* No step changes or removes a commit.
LEMMA CommitsStay ==
  ASSUME IInv, [Next]_vars
  PROVE  \A k \in DOMAIN commits : k \in DOMAIN commits' /\ commits'[k] = commits[k]
  <1>1. ASSUME NEW t \in AnyTree, NEW p \in 0..Len(commits),
               commits' = Append(commits, [tree |-> t, parent |-> p])
        PROVE  \A k \in DOMAIN commits : k \in DOMAIN commits' /\ commits'[k] = commits[k]
    BY <1>1, AppendKeeps DEF IInv
  <1>2. CASE Push
    <2>1. PICK t \in AnyTree : commits' = Append(commits, [tree |-> t, parent |-> branch])
      BY <1>2 DEF Push
    <2>2. branch \in 0..Len(commits)
      BY DEF IInv, TypeOK
    <2> QED
      BY <1>1, <2>1, <2>2
  <1>3. ASSUME NEW j \in Job, PostCommit(j)
        PROVE  \A k \in DOMAIN commits : k \in DOMAIN commits' /\ commits'[k] = commits[k]
    <2>1. commits' = Append(commits, [tree |-> tree[j], parent |-> head[j]])
      BY <1>3 DEF PostCommit
    <2>2. tree[j] \in AnyTree /\ head[j] \in 0..Len(commits)
      BY DEF IInv, TypeOK
    <2> QED
      BY <1>1, <2>1, <2>2
  <1>4. ASSUME NEW j \in Job, CreateRepo(j)
        PROVE  \A k \in DOMAIN commits : k \in DOMAIN commits' /\ commits'[k] = commits[k]
    BY <1>4 DEF CreateRepo, IInv, Missing
  <1>5. ASSUME NEW j \in Job,
               \/ Start(j) \/ FindRepo(j) \/ ReadHead(j) \/ FindTag(j) \/ PatchBranch(j)
               \/ CreateTag(j) \/ PutTopics(j) \/ Interrupted(j)
        PROVE  commits' = commits
    BY <1>5 DEF Start, FindRepo, ReadHead, FindTag, PatchBranch, CreateTag, PutTopics, Interrupted
  <1> QED
    BY <1>2, <1>3, <1>4, <1>5 DEF Next, Request, vars

\* So the history of a commit stays what it is.
LEMMA LinesStay ==
  ASSUME IInv, [Next]_vars, NEW n \in 0..Len(commits)
  PROVE  Line(commits', n) = Line(commits, n)
  <1>1. n \in Nat /\ Rooted(commits, n)
    BY CommitsRooted DEF IInv
  <1>2. \A k \in 1..n : commits'[k].parent = commits[k].parent
    <2>1. \A k \in 1..n : k \in DOMAIN commits
      BY DEF IInv, TypeOK
    <2> QED
      BY <2>1, CommitsStay
  <1> QED
    BY <1>1, <1>2, LineStays

\* The branch only moves to a descendant of its head: no commit leaves it.
LEMMA BranchGrows ==
  ASSUME IInv, [Next]_vars
  PROVE  Line(commits, branch) \subseteq Line(commits', branch')
  <1>0. branch \in 0..Len(commits) /\ Len(commits) \in Nat
    BY DEF IInv, TypeOK
  <1>1. CASE branch' = branch
    BY <1>0, <1>1, LinesStay
  <1>2. CASE Push
    <2>1. PICK t \in AnyTree : commits' = Append(commits, [tree |-> t, parent |-> branch])
      BY <1>2 DEF Push
    <2>2. branch' = Len(commits) + 1 /\ commits'[branch'].parent = branch
          /\ Len(commits') = Len(commits) + 1
      <3>1. /\ Len(commits') = Len(commits) + 1
            /\ commits'[Len(commits) + 1] = [tree |-> t, parent |-> branch]
        BY <1>0, <2>1, AppendKeeps DEF IInv
      <3> QED
        BY <1>2, <3>1 DEF Push
    <2>3. branch' \in Nat /\ Rooted(commits', branch')
      <3>1. TypeOK'
        BY NextInv DEF IInv
      <3>2. \A n \in 0..Len(commits') : n \in Nat /\ Rooted(commits', n)
        BY <3>1, ParentsRoot DEF TypeOK
      <3> QED
        BY <1>0, <2>2, <3>2
    <2>4. Line(commits', branch') = {branch'} \cup Line(commits', branch)
      BY <1>0, <2>2, <2>3, LineUnfolds
    <2> QED
      BY <1>0, <2>4, LinesStay
  <1>3. ASSUME NEW j \in Job, CreateRepo(j), branch' # branch
        PROVE  Line(commits, branch) = {}
    <2>1. branch = 0
      BY <1>0, <1>3 DEF CreateRepo, IInv, Missing
    <2> QED
      BY <2>1, CommitsRooted, LineUnfolds, <1>0 DEF IInv
  <1>4. ASSUME NEW j \in Job, PatchBranch(j), branch' # branch
        PROVE  Line(commits, branch) \subseteq Line(commits', branch')
    <2>1. branch' = sha[j] /\ branch \in History(sha[j]) /\ commits' = commits
      BY <1>4 DEF PatchBranch, MayMove
    <2>2. sha[j] \in 0..Len(commits)
      BY DEF IInv, TypeOK
    <2>3. sha[j] \in Nat /\ Rooted(commits, sha[j])
      BY <2>2, CommitsRooted DEF IInv
    <2>4. branch \in Line(commits, sha[j])
      BY <2>1 DEF History, Line, Traces
    <2> QED
      BY <2>1, <2>3, <2>4, LineIsTransitive
  <1>5. ASSUME NEW j \in Job,
               \/ Start(j) \/ FindRepo(j) \/ ReadHead(j) \/ FindTag(j) \/ PostCommit(j)
               \/ CreateTag(j) \/ PutTopics(j) \/ Interrupted(j)
        PROVE  branch' = branch
    BY <1>5 DEF Start, FindRepo, ReadHead, FindTag, PostCommit, CreateTag, PutTopics, Interrupted
  <1> QED
    BY <1>1, <1>2, <1>3, <1>4, <1>5 DEF Next, Request, vars

-----------------------------------------------------------------------------
(* Released versions stay on the branch.                                   *)

AncestryInv == TagsOnBranch /\ ReadOnBranch

\* The head of a branch that exists is in its own history.
LEMMA HeadInHistory ==
  ASSUME TypeOK, branch # 0
  PROVE  branch \in Line(commits, branch)
  <1>1. branch \in 0..Len(commits) /\ Len(commits) \in Nat
    BY DEF TypeOK
  <1>2. branch \in Nat /\ Rooted(commits, branch)
    BY <1>1, CommitsRooted
  <1> QED
    BY <1>2, LineUnfolds

\* A step of run j touches no other run, except that it may disturb it.
LEMMA OneRun ==
  ASSUME IInv, NEW j \in Job, Start(j) \/ Request(j) \/ Interrupted(j)
  PROVE  \A k \in Job \ {j} :
           /\ pc'[k] = pc[k] /\ version'[k] = version[k] /\ tree'[k] = tree[k]
           /\ head'[k] = head[k] /\ sha'[k] = sha[k]
           /\ quiet'[k] => quiet[k]
  <1>1. CASE Start(j)
    BY <1>1 DEF Start, IInv, TypeOK
  <1>2. CASE Interrupted(j)
    BY <1>2 DEF Interrupted, IInv, TypeOK
  <1>3. CASE FindRepo(j) \/ PutTopics(j)
    BY <1>3 DEF FindRepo, PutTopics, Goes, Throws, IInv, TypeOK
  <1>4. CASE CreateRepo(j)
    BY <1>4 DEF CreateRepo, TookEffect, Goes, Throws, IInv, TypeOK
  <1>5. CASE ReadHead(j)
    BY <1>5 DEF ReadHead, Goes, IInv, TypeOK
  <1>6. CASE FindTag(j)
    BY <1>6 DEF FindTag, Goes, Throws, IInv, TypeOK
  <1>7. CASE PostCommit(j)
    BY <1>7 DEF PostCommit, IInv, TypeOK
  <1>8. CASE PatchBranch(j)
    BY <1>8 DEF PatchBranch, TookEffect, Goes, Throws, IInv, TypeOK
  <1>9. CASE CreateTag(j)
    BY <1>9 DEF CreateTag, TookEffect, Goes, Throws, IInv, TypeOK
  <1> QED
    BY <1>1, <1>2, <1>3, <1>4, <1>5, <1>6, <1>7, <1>8, <1>9 DEF Request

\* A tag that is set was set before, or is set to the commit run j holds.
LEMMA TagsMove ==
  ASSUME IInv, [Next]_vars, NEW v \in Version, tags'[v] # tags[v]
  PROVE  \E j \in Job :
           /\ pc[j] = "tagging" /\ CreateTag(j) /\ v = version[j]
           /\ tags[v] = 0 /\ tags'[v] = sha[j] /\ branch' = branch
  <1>1. ASSUME NEW j \in Job,
               \/ Start(j) \/ FindRepo(j) \/ CreateRepo(j) \/ ReadHead(j) \/ FindTag(j)
               \/ PostCommit(j) \/ PatchBranch(j) \/ PutTopics(j) \/ Interrupted(j)
        PROVE  tags' = tags
    BY <1>1 DEF Start, FindRepo, CreateRepo, ReadHead, FindTag, PostCommit, PatchBranch,
                PutTopics, Interrupted
  <1>2. Push \/ UNCHANGED vars => tags' = tags
    BY DEF Push, vars
  <1>3. PICK j \in Job : CreateTag(j)
    BY <1>1, <1>2 DEF Next, Request
  <1>4. /\ pc[j] = "tagging" /\ branch' = branch /\ tags[version[j]] = 0
        /\ tags' = [tags EXCEPT ![version[j]] = sha[j]]
    BY <1>3 DEF CreateTag, TagTarget
  <1>5. v = version[j] /\ tags'[v] = sha[j]
    BY <1>4 DEF IInv, TypeOK
  <1> QED
    BY <1>3, <1>4, <1>5

\* What a run reads, or is about to tag, is on the branch.
LEMMA ReadsBranch ==
  ASSUME IInv, [Next]_vars, NEW j \in Job, Start(j) \/ Request(j) \/ Interrupted(j)
  PROVE  /\ pc'[j] = "tag" => branch # 0 /\ branch' = branch /\ head'[j] = branch
         /\ pc'[j] = "tagging" =>
              \/ pc[j] = "tag" /\ sha'[j] = head[j]
              \/ branch' # 0 /\ sha'[j] = branch'
  <1>1. CASE Start(j) \/ Interrupted(j) \/ FindRepo(j) \/ PutTopics(j)
    BY <1>1 DEF Start, Interrupted, FindRepo, PutTopics, Goes, Throws, IInv, TypeOK
  <1>2. CASE CreateRepo(j) \/ CreateTag(j)
    BY <1>2 DEF CreateRepo, CreateTag, TookEffect, Goes, Throws, IInv, TypeOK
  <1>3. CASE ReadHead(j)
    <2>1. /\ pc[j] = "head" /\ pc' = [pc EXCEPT ![j] = "tag"] /\ branch' = branch
          /\ head' = [head EXCEPT ![j] = branch]
      BY <1>3 DEF ReadHead, Goes
    <2>2. pc'[j] = "tag" /\ head'[j] = branch
      BY <2>1 DEF IInv, TypeOK
    <2>3. repo # "missing"
      BY <2>1 DEF IInv, Missing
    <2>4. branch # 0
      BY <2>3 DEF IInv, HasBranch, TypeOK
    <2> QED
      BY <2>1, <2>2, <2>4
  <1>4. CASE FindTag(j)
    BY <1>4 DEF FindTag, Goes, Throws, IInv, TypeOK
  <1>5. CASE PostCommit(j)
    BY <1>5 DEF PostCommit, IInv, TypeOK
  <1>6. CASE PatchBranch(j)
    BY <1>6 DEF PatchBranch, TookEffect, Goes, Throws, IInv, TypeOK, ShaHolds
  <1> QED
    BY <1>1, <1>2, <1>3, <1>4, <1>5, <1>6 DEF Request

\* At the start nothing is released and no run has read anything.
LEMMA InitAncestry == Init => AncestryInv
  BY DEF Init, AncestryInv, TagsOnBranch, ReadOnBranch

\* The branch only grows, so what was on it stays, and what joins it was read
\* from it or has just become its head.
LEMMA NextAncestry == IInv /\ AncestryInv /\ [Next]_vars => AncestryInv'
  <1> SUFFICES ASSUME IInv, AncestryInv, [Next]_vars PROVE AncestryInv'
    OBVIOUS
  <1> DEFINE old == Line(commits, branch)
             new == Line(commits', branch')
  <1>0. TypeOK /\ TypeOK'
    BY NextInv DEF IInv
  <1>1. History(branch) = old /\ History(branch)' = new
    BY <1>0, BranchLine
  <1>2. old \subseteq new
    BY BranchGrows
  <1>3. (branch # 0 => branch \in old) /\ (branch' # 0 => branch' \in new)
    <2>1. branch # 0 => branch \in old
      BY <1>0, HeadInHistory
    <2>2. branch' # 0 => branch' \in new
      <3>1. branch' \in 0..Len(commits') /\ Len(commits') \in Nat
        BY <1>0 DEF TypeOK
      <3>2. branch' \in Nat /\ Rooted(commits', branch')
        BY <1>0, <3>1, ParentsRoot DEF TypeOK
      <3> QED
        BY <3>2, LineUnfolds
    <2> QED
      BY <2>1, <2>2
  <1> HIDE DEF old, new
  <1>4. /\ \A v \in Version : tags[v] # 0 => tags[v] \in old
        /\ \A k \in Job : (pc[k] = "tag" => head[k] \in old) /\ (pc[k] = "tagging" => sha[k] \in old)
    BY <1>1 DEF AncestryInv, TagsOnBranch, ReadOnBranch
  <1>5. \A v \in Version : tags'[v] # 0 => tags'[v] \in new
    BY <1>2, <1>4, TagsMove
  <1>6. ASSUME NEW k \in Job
        PROVE  (pc'[k] = "tag" => head'[k] \in new) /\ (pc'[k] = "tagging" => sha'[k] \in new)
    <2>1. CASE Push \/ UNCHANGED vars
      BY <2>1, <1>2, <1>4 DEF Push, vars
    <2>2. ASSUME NEW j \in Job, Start(j) \/ Request(j) \/ Interrupted(j)
          PROVE  (pc'[k] = "tag" => head'[k] \in new) /\ (pc'[k] = "tagging" => sha'[k] \in new)
      <3>1. CASE k # j
        BY <2>2, <3>1, <1>2, <1>4, OneRun
      <3>2. CASE k = j
        BY <2>2, <3>2, <1>2, <1>3, <1>4, ReadsBranch
      <3> QED
        BY <3>1, <3>2
    <2> QED
      BY <2>1, <2>2 DEF Next
  <1> QED
    BY <1>1, <1>5, <1>6 DEF AncestryInv, TagsOnBranch, ReadOnBranch

-----------------------------------------------------------------------------
(* A run that is left alone publishes.                                     *)

\* A run that still counts as left alone saw the repository stay as it is,
\* but for commits that no branch holds.
LEMMA Undisturbed ==
  ASSUME IInv, NEW j \in Job, Start(j) \/ Request(j) \/ Interrupted(j),
         NEW k \in Job \ {j}, quiet'[k]
  PROVE  UNCHANGED <<repo, branch, tags>>
  <1>1. CASE Start(j) \/ Interrupted(j) \/ FindRepo(j) \/ PutTopics(j) \/ ReadHead(j) \/ FindTag(j)
             \/ PostCommit(j)
    BY <1>1 DEF Start, Interrupted, FindRepo, PutTopics, ReadHead, FindTag, PostCommit
  <1>2. CASE CreateRepo(j)
    BY <1>2 DEF CreateRepo, TookEffect
  <1>3. CASE PatchBranch(j)
    BY <1>3 DEF PatchBranch, TookEffect
  <1>4. CASE CreateTag(j)
    BY <1>4 DEF CreateTag, TookEffect
  <1> QED
    BY <1>1, <1>2, <1>3, <1>4 DEF Request

\* A run that is left alone keeps what it relies on, whatever the others do.
LEMMA OthersKeepQuiet ==
  ASSUME IInv, [Next]_vars, NEW j \in Job, Start(j) \/ Request(j) \/ Interrupted(j),
         NEW k \in Job \ {j}, quiet'[k], QuietFine(k)
  PROVE  QuietFine(k)'
  <1>1. /\ pc'[k] = pc[k] /\ version'[k] = version[k] /\ tree'[k] = tree[k]
        /\ head'[k] = head[k] /\ sha'[k] = sha[k]
    BY OneRun
  <1>2. repo' = repo /\ branch' = branch /\ tags' = tags
    BY Undisturbed
  <1>3. pc[k] = "patch" => commits'[sha[k]] = commits[sha[k]]
    BY CommitsStay DEF IInv, ShaHolds
  <1>4. tags[version[k]] # 0 => commits'[tags[version[k]]] = commits[tags[version[k]]]
    <2>1. version[k] \in Version /\ Len(commits) \in Nat /\ DOMAIN commits = 1..Len(commits)
      BY DEF IInv, TypeOK
    <2>2. tags[version[k]] \in 0..Len(commits)
      BY <2>1 DEF IInv, TypeOK
    <2> QED
      BY <2>1, <2>2, CommitsStay
  <1> QED
    BY <1>1, <1>2, <1>3, <1>4 DEF QuietFine

\* The commit that a run left alone made is a child of the branch's head, so
\* GitHub moves the branch.
LEMMA QuietMayMove ==
  ASSUME IInv, NEW j \in Job, pc[j] = "patch", QuietFine(j)
  PROVE  MayMove(j)
  <1>1. sha[j] \in DOMAIN commits /\ commits[sha[j]].parent = branch
    BY DEF IInv, ShaHolds, QuietFine
  <1>2. sha[j] \in 0..Len(commits) /\ sha[j] # 0
    BY <1>1 DEF IInv, TypeOK
  <1>3. sha[j] \in Nat /\ Rooted(commits, sha[j])
    BY <1>2, CommitsRooted DEF IInv
  <1>4. Line(commits, sha[j]) = {sha[j]} \cup Line(commits, branch)
    BY <1>1, <1>2, <1>3, LineUnfolds
  <1>5. repo # "missing" /\ branch # 0
    <2>1. repo # "missing"
      BY DEF IInv, Missing
    <2> QED
      BY <2>1 DEF IInv, HasBranch, TypeOK
  <1>6. branch \in Line(commits, branch)
    BY <1>5, HeadInHistory DEF IInv
  <1>7. History(sha[j]) = Line(commits, sha[j])
    BY DEF History, Line, Traces
  <1> QED
    BY <1>4, <1>6, <1>7 DEF MayMove

\* A step of the run itself: what it reads and makes is what it relies on,
\* and no request is refused.
LEMMA QuietRunStep ==
  ASSUME IInv, [Next]_vars, NEW j \in Job, Start(j) \/ Request(j) \/ Interrupted(j),
         quiet'[j], quiet[j] => QuietFine(j)
  PROVE  QuietFine(j)'
  <1>1. CASE Start(j)
    BY <1>1 DEF Start, QuietFine, IInv, TypeOK
  <1>2. CASE Interrupted(j)
    BY <1>2 DEF Interrupted, IInv, TypeOK
  <1>3. CASE FindRepo(j)
    BY <1>3 DEF FindRepo, Goes, Throws, QuietFine, IInv, TypeOK
  <1>4. CASE CreateRepo(j)
    BY <1>4 DEF CreateRepo, TookEffect, Goes, Throws, QuietFine, IInv, TypeOK
  <1>5. CASE ReadHead(j)
    BY <1>5 DEF ReadHead, Goes, QuietFine, IInv, TypeOK
  <1>6. CASE FindTag(j)
    BY <1>6 DEF FindTag, Goes, Throws, SameContents, QuietFine, IInv, TypeOK
  <1>7. CASE PostCommit(j)
    <2>1. /\ pc[j] = "commit"
          /\ commits' = Append(commits, [tree |-> tree[j], parent |-> head[j]])
          /\ sha' = [sha EXCEPT ![j] = Len(commits) + 1]
          /\ UNCHANGED <<repo, branch, tags, version, tree, head>>
      BY <1>7 DEF PostCommit
    <2>2. quiet[j] /\ pc' = [pc EXCEPT ![j] = "patch"]
      BY <1>7 DEF PostCommit, IInv, TypeOK
    <2>3. head[j] = branch /\ tags[version[j]] = 0
      BY <2>1, <2>2 DEF QuietFine
    <2>4. tree[j] \in AnyTree /\ head[j] \in 0..Len(commits)
      BY DEF IInv, TypeOK
    <2>5. commits'[Len(commits) + 1] = [tree |-> tree[j], parent |-> head[j]]
      BY <2>1, <2>4, AppendKeeps DEF IInv
    <2>6. sha'[j] = Len(commits) + 1 /\ pc'[j] = "patch"
      BY <2>1, <2>2 DEF IInv, TypeOK
    <2> QED
      BY <2>1, <2>3, <2>5, <2>6 DEF QuietFine
  <1>8. CASE PatchBranch(j)
    <2>1. pc[j] = "patch" /\ quiet[j] /\ UNCHANGED <<repo, commits, tags, locals>>
      BY <1>8 DEF PatchBranch, TookEffect, Goes, Throws
    <2>2. MayMove(j) /\ tags[version[j]] = 0
      BY <2>1, QuietMayMove DEF QuietFine
    <2>3. pc'[j] = "tagging"
      BY <1>8, <2>2 DEF PatchBranch, TookEffect, IInv, TypeOK
    <2> QED
      BY <2>1, <2>2, <2>3 DEF QuietFine
  <1>9. CASE CreateTag(j)
    BY <1>9 DEF CreateTag, TookEffect, Goes, Throws, QuietFine, IInv, TypeOK
  <1>10. CASE PutTopics(j)
    BY <1>10 DEF PutTopics, Goes, QuietFine, IInv, TypeOK
  <1> QED
    BY <1>1, <1>2, <1>3, <1>4, <1>5, <1>6, <1>7, <1>8, <1>9, <1>10 DEF Request

\* No run is under way at the start.
LEMMA InitQuiet == Init => QuietInv
  BY DEF Init, QuietInv

\* A push or the effect of another run's request ends every other run's quiet.
LEMMA NextQuiet == IInv /\ QuietInv /\ [Next]_vars => QuietInv'
  <1> SUFFICES ASSUME IInv, QuietInv, [Next]_vars, NEW k \in Job, quiet'[k]
               PROVE  QuietFine(k)'
    BY DEF QuietInv
  <1>1. quiet[k] => QuietFine(k)
    BY DEF QuietInv
  <1>2. CASE UNCHANGED vars
    BY <1>1, <1>2 DEF vars, QuietFine
  <1>3. CASE Push
    BY <1>3 DEF Push
  <1>4. ASSUME NEW j \in Job, Start(j) \/ Request(j) \/ Interrupted(j)
        PROVE  QuietFine(k)'
    <2>1. CASE j = k
      BY <1>1, <1>4, <2>1, QuietRunStep
    <2>2. CASE j # k
      <3>1. quiet[k]
        BY <1>4, <2>2, OneRun
      <3> QED
        BY <1>1, <1>4, <2>2, <3>1, OthersKeepQuiet
    <2> QED
      BY <2>1, <2>2
  <1> QED
    BY <1>2, <1>3, <1>4 DEF Next

-----------------------------------------------------------------------------

\* A released version stays in the history of the branch, however runs,
\* crashes and pushes interleave.
THEOREM TagsOnBranchHolds == Spec => []TagsOnBranch
  <1>1. AncestryInv => TagsOnBranch
    BY DEF AncestryInv
  <1>2. Spec => []AncestryInv
    BY Invariance, InitAncestry, NextAncestry, PTL DEF Spec
  <1> QED
    BY <1>1, <1>2, PTL

\* No commit ever leaves the branch: a step moves it to a descendant only.
THEOREM BranchKeepsHistory == Spec => [][History(branch) \subseteq History(branch)']_vars
  <1> DEFINE Grows == History(branch) \subseteq History(branch)'
  <1>1. IInv /\ [Next]_vars => [Grows]_vars
    <2> SUFFICES ASSUME IInv, [Next]_vars PROVE Grows
      OBVIOUS
    <2>1. TypeOK /\ TypeOK'
      BY NextInv DEF IInv
    <2>2. History(branch) = Line(commits, branch) /\ History(branch)' = Line(commits', branch')
      BY <2>1, BranchLine
    <2> QED
      BY <2>2, BranchGrows
  <1> HIDE DEF Grows
  <1> QED
    BY <1>1, Invariance, PTL DEF Spec, Grows

\* What earlier runs left behind never stops a run that is left alone.
THEOREM QuietRunPublishesHolds == Spec => []QuietRunPublishes
  <1>1. QuietInv => QuietRunPublishes
    BY DEF QuietInv, QuietFine, QuietRunPublishes
  <1>2. Spec => []QuietInv
    BY Invariance, InitQuiet, NextQuiet, PTL DEF Spec
  <1> QED
    BY <1>1, <1>2, PTL
=============================================================================
