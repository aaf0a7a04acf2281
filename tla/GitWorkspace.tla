---------------------------- MODULE GitWorkspace ----------------------------
(***************************************************************************)
(* The worktree of one work unit under the two git backends:               *)
(* GitWorkspaceBackend (src/artifacts/workspaces.ts), which keeps it from  *)
(* OPEN to RELEASE, and GitArtifactBackend (src/artifacts/git.ts), which   *)
(* makes, uses and removes it in one EXECUTE.                              *)
(*                                                                         *)
(* An operation is a sequence of git commands and an action is one of      *)
(* them.  A command may fail having done its work: it is killed, or it     *)
(* prints more than execFileSync takes.  What a solver left running may    *)
(* write files between any two commands; history is moved only while a     *)
(* solver is invoked, that is between two operations.                      *)
(***************************************************************************)
EXTENDS Integers, FiniteSets

CONSTANTS
  Changes,     \* changes to the files that git tracks or would track
  MaxCommits,  \* bound: commits made in the worktree
  MaxOps       \* bound: operations requested

ASSUME WorkspaceAssumption ==
  IsFiniteSet(Changes) /\ MaxCommits \in Nat /\ MaxOps \in Nat

Commits == 0 .. MaxCommits    \* 0 is the base the unit was given
Elsewhere == -1               \* HEAD is not on the unit's branch

VARIABLES
  backend,   \* "workspace" or "execute"
  ready,     \* the repository was initialized
  pc,        \* "idle", or the git command that is next
  op,        \* the operation under way, or the last one
  answer,    \* its answer: "none", "ok", "failed", "dirty"
  thrown,    \* EXECUTE: its outcome is a failure so far
  assigned,  \* the unit's artifact: "none", "active", "cleaned"
  ref,       \* its artifact.ref
  head,      \* the commit HEAD and the unit's branch name, or Elsewhere
  content,   \* content[c]: the changes in commit c
  made,      \* commits made so far besides the base
  managed,   \* those that an operation made
  disk,      \* the worktree exists
  work,      \* changes in its files
  index,     \* changes that are staged
  ignored,   \* ignored files: "none", "there", "late" if written while they are removed
  since,     \* history: the changes in the files ever since the request
  ops        \* operations requested

call == <<backend, op, since, ops>>
artifact == <<assigned, ref>>
history == <<head, content, made, managed>>
files == <<disk, work, index, ignored>>
vars == <<ready, pc, answer, thrown, call, artifact, history, files>>

Supported == IF backend = "workspace"
             THEN {"INITIALIZE", "OPEN", "COMMIT", "CHECK", "RELEASE"}
             ELSE {"INITIALIZE", "EXECUTE"}

TypeOK ==
  /\ backend \in {"workspace", "execute"} /\ ready \in BOOLEAN
  /\ pc \in {"idle", "inspect", "resolve", "add", "identify", "callback", "stage",
             "compare", "commit", "read", "status", "settle", "remove"}
  /\ op \in Supported \cup {"none"}
  /\ answer \in {"none", "ok", "failed", "dirty"} /\ thrown \in BOOLEAN
  /\ assigned \in {"none", "active", "cleaned"} /\ ref \in Commits
  /\ head \in Commits \cup {Elsewhere} /\ made \in Commits /\ managed \subseteq 1 .. made
  /\ content \in [Commits -> SUBSET Changes]
  /\ disk \in BOOLEAN /\ work \subseteq Changes /\ index \subseteq Changes
  /\ ignored \in {"none", "there", "late"} /\ since \subseteq Changes /\ ops \in 0 .. MaxOps

Init ==
  /\ backend \in {"workspace", "execute"}
  /\ ready = FALSE /\ pc = "idle" /\ op = "none" /\ answer = "none" /\ thrown = FALSE
  /\ assigned = "none" /\ ref = 0
  /\ head = 0 /\ content = [c \in Commits |-> {}] /\ made = 0 /\ managed = {}
  /\ disk = FALSE /\ work = {} /\ index = {} /\ ignored = "none"
  /\ since = {} /\ ops = 0
-----------------------------------------------------------------------------
(* Outcomes of a command.                                                  *)

Goes(next) == pc' = next /\ UNCHANGED <<answer, thrown>>
Returns(a) == pc' = "idle" /\ answer' = a /\ UNCHANGED thrown

\* A command throws.  In EXECUTE the worktree, once created, is settled; what
\* throws in the commit helper may be caught by the callback that called it.
Throws ==
  IF op # "EXECUTE" \/ pc \in {"resolve", "add"} THEN Returns("failed")
  ELSE \/ pc' = "settle" /\ thrown' = TRUE /\ UNCHANGED answer
       \/ pc \in {"stage", "compare", "commit"} /\ Goes("callback")

\* git status --porcelain --untracked-files=all prints nothing.
Tidy == head # Elsewhere /\ work = content[head] /\ index = content[head]
-----------------------------------------------------------------------------
(* Requests.                                                               *)

\* Callers wait for the answer, so one operation is under way.  The engine opens
\* or executes a unit once and asks for the ref it was last told.
Request(kind) ==
  /\ pc = "idle" /\ ops < MaxOps
  /\ kind \in {"OPEN", "EXECUTE"} => assigned = "none" /\ ~disk
  /\ ops' = ops + 1 /\ op' = kind /\ since' = work /\ thrown' = FALSE
  /\ LET refused == \/ kind # "INITIALIZE" /\ ~ready
                    \/ kind \in {"COMMIT", "CHECK", "RELEASE"} /\ assigned # "active"
     IN  \/ refused /\ pc' = "idle" /\ answer' = "failed"
         \/ /\ ~refused /\ answer' = "none"
            /\ pc' = CASE kind = "INITIALIZE" -> "inspect"
                       [] kind \in {"OPEN", "EXECUTE"} -> "resolve"
                       [] OTHER -> "identify"
  /\ UNCHANGED <<backend, ready, artifact, history, files>>

\* INITIALIZE looks at the target, which is not the unit's worktree.
Inspect ==
  /\ pc = "inspect"
  /\ \/ ready' = TRUE /\ Returns("ok")
     \/ ready' = FALSE /\ \E a \in {"dirty", "failed"} : Returns(a)
  /\ UNCHANGED <<call, artifact, history, files>>

\* The base is a full commit id of the repository and the directory for temporary
\* files is outside of it.
Resolve ==
  /\ pc = "resolve"
  /\ Goes("add") \/ Throws
  /\ UNCHANGED <<ready, call, artifact, history, files>>

\* git worktree add -b <new branch> <new path> <base>.  OPEN assigns the artifact
\* when that succeeded, EXECUTE has it before.
Add ==
  /\ pc = "add"
  /\ \/ /\ disk' = TRUE /\ assigned' = "active"
        /\ IF op = "OPEN" THEN Returns("ok") ELSE Goes("callback")
     \/ /\ disk' \in BOOLEAN /\ assigned' = IF op = "OPEN" THEN "none" ELSE "active"
        /\ Throws
  /\ UNCHANGED <<ready, call, ref, history, work, index, ignored>>

\* Mutant of Identified: what HEAD names is not looked at.
IdentifiedByPath == disk

\* HEAD is the artifact's ref and names the artifact's branch.
Identified == disk /\ head = ref

Identify ==
  /\ pc = "identify"
  /\ \/ /\ Identified
        /\ Goes(IF op = "COMMIT" THEN "stage" ELSE "status")
     \/ Throws
  /\ UNCHANGED <<ready, call, artifact, history, files>>
-----------------------------------------------------------------------------
(* A commit, requested or made by the callback's helper.                   *)

AfterCommit == IF op = "COMMIT" THEN "read" ELSE "callback"

\* git add --all.  (A blank message was refused before.)
Stage ==
  /\ pc = "stage"
  /\ \/ index' = work /\ Goes("compare")
     \/ index' \in {index, work} /\ Throws
  /\ UNCHANGED <<ready, call, artifact, history, disk, work, ignored>>

\* write-tree against HEAD^{tree}: no empty commit.
Compare ==
  /\ pc = "compare"
  /\ Goes(IF index = content[head] THEN AfterCommit ELSE "commit") \/ Throws
  /\ UNCHANGED <<ready, call, artifact, history, files>>

CommitIndex ==
  /\ made < MaxCommits
  /\ made' = made + 1 /\ head' = made + 1
  /\ content' = [content EXCEPT ![made + 1] = index]

\* git commit.
Commit ==
  /\ pc = "commit"
  /\ \/ CommitIndex /\ managed' = managed \cup {made + 1} /\ (Goes(AfterCommit) \/ Throws)
     \/ UNCHANGED history /\ Throws
  /\ UNCHANGED <<ready, call, artifact, files>>

\* rev-parse HEAD: the artifact's ref advances.
Read ==
  /\ pc = "read"
  /\ \/ /\ ref' = head
        /\ IF op = "COMMIT" THEN Returns("ok") ELSE Goes("status")
     \/ UNCHANGED ref /\ Throws
  /\ UNCHANGED <<ready, call, assigned, history, files>>
-----------------------------------------------------------------------------
(* Checks, and the end of the worktree.                                    *)

\* Mutant of Removable: ignored files are not asked for.
RemovableIfTidy == Tidy

\* git status with --ignored: RELEASE removes nothing that is not committed.
Removable == Tidy /\ ignored = "none"

Status ==
  /\ pc = "status"
  /\ \/ op = "CHECK" /\ Returns(IF Tidy THEN "ok" ELSE "dirty")
     \/ op = "RELEASE" /\ (IF Removable THEN Goes("remove") ELSE Returns("ok"))
     \/ op = "EXECUTE" /\ Tidy /\ Goes("settle")
     \/ Throws
     \/ op = "EXECUTE" /\ ~Tidy /\ Throws
  /\ UNCHANGED <<ready, call, artifact, history, files>>

\* The callback of EXECUTE, trusted code: it edits, commits, returns or throws.
Callback ==
  /\ pc = "callback"
  /\ Goes("stage") \/ Goes("read") \/ Throws
  /\ UNCHANGED <<ready, call, artifact, history, files>>

\* EXECUTE ends with what HEAD names, also when it fails; an outcome that was a
\* success becomes a failure when the worktree cannot be removed.
Settle ==
  /\ pc = "settle"
  /\ \/ ref' = head /\ Goes("remove")
     \/ UNCHANGED ref /\ Returns("failed")
  /\ UNCHANGED <<ready, call, assigned, history, files>>

\* git worktree remove, without --force: git refuses what is not committed, but
\* deletes what is ignored.
Remove ==
  /\ pc = "remove"
  /\ \/ /\ Tidy
        /\ disk' = FALSE /\ work' = {} /\ index' = {} /\ ignored' = "none"
        /\ \/ assigned' = "cleaned" /\ Returns(IF thrown THEN "failed" ELSE "ok")
           \/ UNCHANGED assigned /\ Returns("failed")
     \/ UNCHANGED <<files, assigned>> /\ Returns("failed")
  /\ UNCHANGED <<ready, call, ref, history>>
-----------------------------------------------------------------------------
(* The solver.                                                             *)

Writable == disk /\ assigned = "active" /\ (backend = "workspace" \/ pc = "callback")

\* A file is written, reverted or ignored: by the solver, by what it left running,
\* or by the callback.
Edit ==
  /\ Writable
  /\ \/ \E c \in Changes :
          \/ work' = work \cup {c} /\ UNCHANGED since
          \/ work' = work \ {c} /\ since' = since \ {c}
        /\ UNCHANGED ignored
     \/ ignored' = (IF pc = "remove" /\ ignored # "there" THEN "late" ELSE "there")
        /\ UNCHANGED <<work, since>>
  /\ UNCHANGED <<ready, pc, answer, thrown, backend, op, ops, artifact, history, disk, index>>

\* "It must not perform unmanaged Git history operations" (README.md:158), but it
\* can: it stages, commits, resets its branch, leaves it or comes back.
MoveHistory ==
  /\ backend = "workspace" /\ pc = "idle" /\ Writable
  /\ \/ index' = work /\ UNCHANGED history
     \/ head # Elsewhere /\ CommitIndex /\ UNCHANGED <<managed, index>>
     \/ head' \in (0 .. made) \cup {Elsewhere} /\ UNCHANGED <<content, made, managed, index>>
  /\ UNCHANGED <<ready, pc, answer, thrown, call, artifact, disk, work, ignored>>

Over == pc = "idle" /\ ops = MaxOps /\ UNCHANGED vars

Next ==
  \/ \E kind \in Supported : Request(kind)
  \/ Inspect \/ Resolve \/ Add \/ Identify \/ Stage \/ Compare \/ Commit \/ Read
  \/ Status \/ Callback \/ Settle \/ Remove
  \/ Edit \/ MoveHistory \/ Over

Spec == Init /\ [][Next]_vars
-----------------------------------------------------------------------------
(* Properties.                                                             *)

\* D042, "Cleanup must not destroy dirty workspace state", and D028: a worktree
\* goes only when its branch has everything in it that git tracks, the unit's
\* artifact names that commit, and RELEASE found no ignored file.  (EXECUTE does
\* delete ignored files: README.)
WorkIsKept ==
  [][disk /\ ~disk' =>
       /\ Tidy /\ ref = head
       /\ op = "RELEASE" => ignored # "there"]_vars

\* What an operation reports as done is so: the artifact names the newest commit
\* of the unit's branch, made by an operation and never by the solver; COMMIT took
\* in every change that was there since it was requested, CHECK found nothing
\* beside the commit, EXECUTE left nothing behind. In particular a unit whose
\* commit was made but not read is answered with failures only.
AnswerIsTrue ==
  [][pc # "idle" /\ answer' = "ok" /\ op # "INITIALIZE" =>
       /\ ref' = head' /\ ref' \in managed' \cup {0}
       /\ op = "COMMIT" => since \subseteq content[ref']
       /\ op = "CHECK" => work = content[ref']
       /\ op = "EXECUTE" => ~disk' /\ assigned' = "cleaned"]_vars
=============================================================================
