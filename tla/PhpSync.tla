------------------------------- MODULE PhpSync -------------------------------
(***************************************************************************)
(* scripts/sync-php-repository.mjs: release a version of the PHP package   *)
(* to its own repository, by a sequence of GitHub API requests.  Nothing   *)
(* makes the sequence atomic: a run may be killed or refused between any   *)
(* two requests, the answer to a request that took effect may be lost,     *)
(* another run may overlap, and people push to the branch.  A run that     *)
(* failed is simply started again.                                         *)
(***************************************************************************)
EXTENDS Integers, Sequences

CONSTANTS
  Job,       \* runs of the script that may be under way at the same time
  Version,   \* versions that are released
  Tree,      \* contents of the package, or of the branch (a tree's SHA)
  Empty,     \* the tree of the first commit of a new repository (auto_init)
  MaxStarts, \* bound: runs of the script
  MaxPushes  \* bound: commits pushed by others

ASSUME SyncAssumption ==
  /\ Empty \notin Tree
  /\ MaxStarts \in Nat /\ MaxPushes \in Nat

VARIABLES
  repo,      \* the repository: "missing", "private" or "public"
  commits,   \* commits[n]: the tree and the parent of commit n
  branch,    \* the head of the default branch, 0: there is none
  tags,      \* tags[v]: the commit of tag v, 0: there is none
  pc,        \* what run j does next
  version,   \* --version of run j
  tree,      \* the tree that run j made of its checkout
  head,      \* the head that run j read
  sha,       \* the commit that run j tags
  starts,    \* runs started
  pushes,    \* commits pushed by others
  published, \* history: the tree of the run that created tag v
  quiet      \* history: run j met no fault and no change by anybody else

github == <<repo, commits, branch, tags>>
locals == <<version, tree, head, sha>>
vars == <<github, pc, locals, starts, pushes, published, quiet>>

AnyTree == Tree \cup {Empty}
Over == {"idle", "failed", "done"}
Step == {"repo", "create", "head", "tag", "commit", "patch", "tagging", "topics"}

Init ==
  /\ repo \in {"missing", "private", "public"}
  /\ commits = IF repo = "missing" THEN <<>> ELSE <<[tree |-> Empty, parent |-> 0]>>
  /\ branch = Len(commits)
  /\ tags = [v \in Version |-> 0]
  /\ pc = [j \in Job |-> "idle"]
  /\ version \in [Job -> Version]  \* a run that has not started holds nothing
  /\ tree = [j \in Job |-> Empty]
  /\ head = [j \in Job |-> 0]
  /\ sha = [j \in Job |-> 0]
  /\ starts = 0
  /\ pushes = 0
  /\ published = [v \in Version |-> Empty]
  /\ quiet = [j \in Job |-> FALSE]

\* A commit and everything before it.
History(n) ==
  LET before[k \in 0..n] == IF k = 0 THEN {} ELSE {k} \cup before[commits[k].parent]
  IN  before[n]

-----------------------------------------------------------------------------
(* How a step of run j ends.                                               *)

\* The answer to a read arrives, and the run goes on.
Goes(j, to) ==
  /\ pc' = [pc EXCEPT ![j] = to]
  /\ UNCHANGED quiet

\* The run throws what the code makes of the answer.
Throws(j) == Goes(j, "failed")

\* A request took effect: the run goes on, unless the answer is lost.
TookEffect(j, to) ==
  \E lost \in BOOLEAN :
    /\ pc' = [pc EXCEPT ![j] = IF lost THEN "failed" ELSE to]
    /\ quiet' = [k \in Job |-> k = j /\ quiet[j] /\ ~lost]

\* api() throws: an error status, no connection; or the run is killed.
Interrupted(j) ==
  /\ pc[j] \in Step
  /\ pc' = [pc EXCEPT ![j] = "failed"]
  /\ quiet' = [quiet EXCEPT ![j] = FALSE]
  /\ UNCHANGED <<github, locals, starts, pushes, published>>

-----------------------------------------------------------------------------
(* The requests, in order.                                                 *)

\* Arguments, token and package are checked before the first request.
Start(j) ==
  /\ pc[j] \in Over
  /\ starts < MaxStarts
  /\ starts' = starts + 1
  /\ \E v \in Version, t \in Tree :
       /\ version' = [version EXCEPT ![j] = v]
       /\ tree' = [tree EXCEPT ![j] = t]
  /\ head' = [head EXCEPT ![j] = 0]
  /\ sha' = [sha EXCEPT ![j] = 0]
  /\ pc' = [pc EXCEPT ![j] = "repo"]
  /\ quiet' = [quiet EXCEPT ![j] = TRUE]
  /\ UNCHANGED <<github, pushes, published>>

FindRepo(j) ==
  /\ pc[j] = "repo"
  /\ \/ repo = "missing" /\ Goes(j, "create")
     \/ repo = "private" /\ Throws(j)
     \/ repo = "public" /\ Goes(j, "head")
  /\ UNCHANGED <<github, locals, starts, pushes, published>>

\* GitHub refuses a name that is taken.
CreateRepo(j) ==
  /\ pc[j] = "create"
  /\ \/ /\ repo = "missing"
        /\ repo' = "public"
        /\ commits' = <<[tree |-> Empty, parent |-> 0]>>
        /\ branch' = 1
        /\ TookEffect(j, "head")
     \/ repo # "missing" /\ Throws(j) /\ UNCHANGED <<repo, commits, branch>>
  /\ UNCHANGED <<tags, locals, starts, pushes, published>>

\* The branch's head, its commit, and the tree of the package: commits and
\* trees never change, so it does not matter when they are read and written.
ReadHead(j) ==
  /\ pc[j] = "head"
  /\ head' = [head EXCEPT ![j] = branch]
  /\ Goes(j, "tag")
  /\ UNCHANGED <<github, version, tree, sha, starts, pushes, published>>

SlipTrustsTag(j) == TRUE
SlipTagIsTaken(j) == FALSE

\* The existing tag of the version holds this package.
SameContents(j) == commits[tags[version[j]]].tree = tree[j]

\* The branch already ends with this package.
Committed(j) == commits[head[j]].tree = tree[j]

FindTag(j) ==
  /\ pc[j] = "tag"
  /\ \/ /\ tags[version[j]] # 0 /\ SameContents(j)
        /\ Goes(j, "topics") /\ UNCHANGED sha
     \/ /\ tags[version[j]] # 0 /\ ~SameContents(j)
        /\ Throws(j) /\ UNCHANGED sha
     \/ /\ tags[version[j]] = 0 /\ Committed(j)
        /\ sha' = [sha EXCEPT ![j] = head[j]] /\ Goes(j, "tagging")
     \/ /\ tags[version[j]] = 0 /\ ~Committed(j)
        /\ Goes(j, "commit") /\ UNCHANGED sha
  /\ UNCHANGED <<github, version, tree, head, starts, pushes, published>>

\* A commit that no branch holds yet is nobody else's concern.
PostCommit(j) ==
  /\ pc[j] = "commit"
  /\ commits' = Append(commits, [tree |-> tree[j], parent |-> head[j]])
  /\ sha' = [sha EXCEPT ![j] = Len(commits) + 1]
  /\ \E to \in {"patch", "failed"} :
       /\ pc' = [pc EXCEPT ![j] = to]
       /\ quiet' = [quiet EXCEPT ![j] = quiet[j] /\ to = "patch"]
  /\ UNCHANGED <<repo, branch, tags, version, tree, head, starts, pushes, published>>

SlipForce(j) == TRUE

\* force: false - GitHub moves the branch only to a descendant of its head.
MayMove(j) == branch \in History(sha[j])

PatchBranch(j) ==
  /\ pc[j] = "patch"
  /\ \/ MayMove(j) /\ branch' = sha[j] /\ TookEffect(j, "tagging")
     \/ ~MayMove(j) /\ Throws(j) /\ UNCHANGED branch
  /\ UNCHANGED <<repo, commits, tags, locals, starts, pushes, published>>

SlipTagsBranch(j) == branch
SlipTagsTree(j) == tree[j]

TagTarget(j) == sha[j]

\* GitHub refuses a ref that exists.
CreateTag(j) ==
  /\ pc[j] = "tagging"
  /\ \/ /\ tags[version[j]] = 0
        /\ tags' = [tags EXCEPT ![version[j]] = TagTarget(j)]
        /\ published' = [published EXCEPT ![version[j]] = tree[j]]
        /\ TookEffect(j, "topics")
     \/ tags[version[j]] # 0 /\ Throws(j) /\ UNCHANGED <<tags, published>>
  /\ UNCHANGED <<repo, commits, branch, locals, starts, pushes>>

PutTopics(j) ==
  /\ pc[j] = "topics"
  /\ Goes(j, "done")
  /\ UNCHANGED <<github, locals, starts, pushes, published>>

\* Somebody else pushes to the branch.
Push ==
  /\ branch # 0
  /\ pushes < MaxPushes
  /\ pushes' = pushes + 1
  /\ \E t \in AnyTree : commits' = Append(commits, [tree |-> t, parent |-> branch])
  /\ branch' = Len(commits) + 1
  /\ quiet' = [j \in Job |-> FALSE]
  /\ UNCHANGED <<repo, tags, pc, locals, starts, published>>

Request(j) ==
  \/ FindRepo(j) \/ CreateRepo(j) \/ ReadHead(j) \/ FindTag(j)
  \/ PostCommit(j) \/ PatchBranch(j) \/ CreateTag(j) \/ PutTopics(j)

Next == Push \/ \E j \in Job : Start(j) \/ Request(j) \/ Interrupted(j)

Spec == Init /\ [][Next]_vars

-----------------------------------------------------------------------------
(* Properties.                                                             *)

\* Every variable keeps its type; parents are older than their children.
TypeOK ==
  /\ repo \in {"missing", "private", "public"}
  /\ commits \in Seq([tree : AnyTree, parent : Nat])
  /\ \A n \in DOMAIN commits : commits[n].parent < n
  /\ branch \in 0..Len(commits)
  /\ tags \in [Version -> 0..Len(commits)]
  /\ pc \in [Job -> Over \cup Step]
  /\ version \in [Job -> Version]
  /\ tree \in [Job -> AnyTree]
  /\ head \in [Job -> 0..Len(commits)]
  /\ sha \in [Job -> 0..Len(commits)]
  /\ starts \in 0..MaxStarts /\ pushes \in 0..MaxPushes
  /\ published \in [Version -> AnyTree]
  /\ quiet \in [Job -> BOOLEAN]

\* A version holds the package of the run that released it, whatever was
\* pushed to the branch between the reading of its head and the tag.
TagHoldsPackage ==
  \A v \in Version : tags[v] # 0 => commits[tags[v]].tree = published[v]

\* "Published" and "Already published" are true: the version a successful
\* run was given holds the package that run was given.
DoneMeansPublished ==
  \A j \in Job :
    pc[j] = "done" =>
      /\ tags[version[j]] # 0
      /\ commits[tags[version[j]]].tree = tree[j]

\* A released version stays in the history of the branch, however runs,
\* crashes and pushes interleave (force: false).
TagsOnBranch ==
  \A v \in Version : tags[v] # 0 => tags[v] \in History(branch)

\* Nothing an earlier run left behind - a repository without release, a
\* commit no branch holds, a branch without its tag, a tag without topics -
\* stops a later run that is left alone: it fails only if the repository is
\* private or the version already holds something else.
QuietRunPublishes ==
  \A j \in Job :
    pc[j] = "failed" /\ quiet[j] =>
      \/ repo = "private"
      \/ tags[version[j]] # 0 /\ commits[tags[version[j]]].tree # tree[j]

=============================================================================
