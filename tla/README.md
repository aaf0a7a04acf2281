# Stirpi in TLA+

Stirpi runs an experiment: an engine grows a tree of *lineages* (by FORK) and of
*work units* inside a lineage (by SPAWN), asks an external executor what each unit
does next, gives every unit an isolated Git workspace, runs untrusted candidate
checks in containers, and keeps a record from which the run can be replayed.
These modules model the parts of it that keep state and have to keep it right
when steps of several actors meet, when an operation fails half way, or when a
limit is reached.

## 1. Inventory

| Component | State it keeps | Operations | Hard behaviour |
|---|---|---|---|
| Lineage engine (`src/engine`, `src/scheduler`, `src/supervision/run.ts`, `src/executor/protocol.ts`) | work units, lineages, queue numbers, consumption, artifacts, pending evidence | rounds; CONTINUE, FORK, SPAWN, BLOCK, COMPLETE; COMMIT, CHECK, VERIFY; budgets | a round is chosen before its units run; parents wait for children over several rounds; budget stops in the middle of everything; one effect of a response failing after another was done |
| Process executor and supervision (`src/executor/process.ts`, `src/supervision/index.ts`, `src/operational`) | supervisor counters, timers, the first stop, the termination code, the process group | one invocation: spawn, telemetry, output, abort, timers, exit, verdict | callbacks in any order; two stop causes; helpers that outlive the child; observers that throw |
| Artifact layer (`src/artifacts`) | one worktree and branch per work unit, the commit it is known to be at | INITIALIZE, EXECUTE, OPEN, COMMIT, CHECK, RELEASE, each several git commands | failure between two git commands; solvers that move history or leave processes behind |
| Codex adapter (`adapters/codex`) | the agent's process group, timer, event stream, invocation | options, invocation, probes, launch, stop, validation of the last message | handlers that overwrite each other's cause; helpers that hold the streams; lines cut into chunks; a second copy of the protocol |
| Candidate verification in Docker (`src/verification/index.ts`) | what it made in docker, what it knows it made | create, start, seed, probe, run, clean, inventory | a create whose answer is lost; the CLI killed while the daemon goes on; cleanup that fails |
| Trusted-local preparation (`src/experiments/preparation.ts`, `trusted-local-*.ts`) | preparation records, database containers on lease | prepare, bind, verify, evaluate, clean | candidate scripts that rewrite what was checked; drift; removals that fail |
| Dependency preparation and bundles (`src/verification/dependency-*.ts`) | a disposable network topology, a content-addressed store | prepare, seal, publish, load | two preparations publishing at once; a create whose answer is lost; cleanup of a topology half built |
| Preregistered run (`src/experiments/runtime-identity.ts`, `preregistration.ts`, `*-identity.ts`, `trusted-local-contract.ts`) | a temporary tree, a forked child, the evidence files | look, check out, compile, fork, abort, complete | files edited between two looks; either process dying; messages under way |
| Experiment harness (`src/experiments`) | execution directory, worlds and their archive, evidence files, state | run, human gate, post-run evaluation, replay of an experiment | evidence files written before and after each invocation; a gate that closes; archive transfers that fail |
| Replay (`src/replay`) | a record of operations with one cursor per stream | recordedOperations, replay | streams consumed in a different order, records that do not fit |
| Egress proxy (`proxy/*.go`) | connection slots, deadlines, the exchange with the resolvers | accept, classify, resolve, dial, relay | slots at their limit, deadlines racing answers, truncated and partial answers |
| Persistence (`src/persistence`) | a SQLite file | save, load | one transaction, nothing concurrent |
| Evaluation (`src/evaluation`) | none | run commands, read their summary | synchronous process I/O |
| Profiles, policies, release governance, CLI, rendering, scenarios | none | parsing and comparing documents | none: pure validation |

**How they interact.** The engine is a generator: it *yields* an operation
(INITIALIZE, an artifact effect, an invocation, an evaluation, a verification) and
its driver (`src/experiments/run.ts`, `src/replay/index.ts`, or a test) answers it.
The process executor is what the driver uses to answer invocations: the process it
starts speaks the executor protocol on stdout and telemetry on a second pipe; the
Codex adapter is such a process, with a coding agent under it. The workspace backend
answers artifact effects, one of the two verifiers answers VERIFY, and the egress proxy
and the dependency bundle are what a verifier's containers may use. A preregistered run
is the whole of it in a child process, compiled from a pinned commit. Everything the
engine was answered is recorded and can be answered again by `replay`.

**What makes each part correct.**

- *Engine*: nothing is scheduled over the head of an open child; parents resume
  exactly when their children are resolved, and a finished run leaves nothing
  open; a terminal status and its commit never change; a lineage's copied status
  and artifact never go stale; a unit's commit comes from itself or an ancestor;
  uncommitted edits are neither inherited nor lost; budgets are never exceeded and
  a reached one closes everything; the evidence a unit is shown is its newest.
- *Process executor*: the first stop cause is the one reported; a deadline is
  neither lost nor moved by late telemetry; a stop is answered by an end of the whole
  process group; an invocation ends; success means success.
- *Artifact layer*: what an operation reports as done is so, whatever its commands did
  before they failed and whatever the solver did to its branch; a worktree is removed
  only when the commit the unit is known by has everything in it.
- *Codex adapter*: a stopped agent's group is gone; a printed response is one the core
  accepts, of an agent that ended by itself and, when it left nobody behind, with HEAD and
  branch as they were; lines are counted once.
- *Verifiers*: what is left in docker is noticed, and nothing passes over it; checks on
  the host run on the package they were prepared with, under a live lease; every request
  is answered.
- *Preregistered run*: a run starts on what was registered, and under a contract (schema 3)
  so does every invocation (schema 2 looks at the executor only at the start); no abort and
  no message removes the tree under its child; only a whole run is accepted; nobody is left
  running.
- *Dependency preparation*: what is left behind is reported; preparations of one
  key leave one read-only bundle and describe that one.
- *Harness and replay*: work units see no object of a sibling; what work starts
  from is in the archive; a closed gate stays closed; a run without an error is
  completely exported; the record of any run it completes replays to the same
  state; a tampered one does not.
- *Egress proxy*: a connection is relayed only to an address of the policy; slots
  are returned; the relay transports what it was given.

## 2. Plan

The modules, in the order they were written, with what composes or refines them. All of them
are done; the eight modules of proofs are listed in section 5: one per component, that of
the engine in one module with that of the experiment, which rests on its lemmas.

1. `WorkForest`, the abstract specification, and `LineageEngine`, which implements it.
2. `ProcessExecutor` with its supervisor: one invocation.
3. `DependencyPreparation`: several preparations on one daemon and one bundle store.
4. `EgressProxy` over `NameResolution`: connections, and the exchange with the resolvers
   that each of them makes.
5. `ExperimentRun`: `LineageEngine` composed with its driver.
6. `CodexAdapter`: the external process `ProcessExecutor` starts, with its own group.
7. `DockerVerification`, `TrustedLocal`, and `Verifiers`, which composes them as the
   harness does: one or the other, fixed before the run.
8. `PinnedRuntime`: parent, child and channel of a preregistered run.
9. `GitWorkspace`: the git commands of one artifact operation, under both backends.

What the plan has left: bundles mounted by `DockerVerification` (the two meet in
`sealDependencyBundle` and `removeSealedDependencyBundle` only); the engine driven by
recorded streams (`src/replay`), for which `LineageEngine` would have to be a function of
its answers; an abstract "atomic workspace operation" which `GitWorkspace` implements and
`LineageEngine` assumes.

## 3. Modules and how they correspond to the code

### LineageEngine

`simulation` in `src/engine/index.ts` is sequential between two answers, so an action
is a stretch of code between two yields or one iteration of its loops: `Schedule`
is the head of the loop (resume, select, `checkpoint("schedule")`), `Invoke` and
`InvokeRefused` one iteration of the round up to the invocation, and the answers
(`Continue`, `Verify`, `Block`, `Complete`, `Fork`, `Spawn`, `ForkStopped`,
`AnswerFails`) everything from the answer to the end of the iteration, effects on
artifacts included. What the executor may do to its worktree while it runs is
`Edited`.

| State | Code |
|---|---|
| `status`, `lstatus`, `unit`, `lparent`, `works`, `lineages` | `state.work`, `state.lineages` |
| `ahead` | the queue numbers (`w.order`), abstracted to the order they give: unbounded numbers become a finite state |
| `ref`, `lref` | `w.artifact.ref`, `lineage.artifact.ref`: `<<w, n>>` is the n-th commit of unit w |
| `tree`, `attempted` | the worktree a unit has on disk, `artifactAttempted` |
| `checks`, `evidence` | which verification the pending evidence comes from |
| `exhausted`, `steps`, `invocations` | the budgets of `superviseRun`; an unconfigured budget is not counted, so runs without budgets have finitely many states |

Names, texts, DNA and the content of contexts are left out; that a name is in use is one of
the failures of `AnswerFails`. `Ancestry(w)`, the unit and those it descends from, is what
every set with w and the creators of its members has in common (a definition that needs no
recursion, so it can be reasoned about). With `Protocol = FALSE` the executor is the
scripted one, whose decisions lead to EXECUTE. A tree is "dirty" when it, or its branch, has
something that the unit's ref has not: uncommitted files, and also a commit that was made
but not read (`GitWorkspace` shows how). The code's `resume` walks `state.work` once, so a
parent whose last child is itself a waiting unit resumes in a later round; `Resumable` has
the same one-pass meaning because a unit that resumes becomes ACTIVE, which is not terminal.

### WorkForest

What the engine promises of its work without queues, rounds, budgets, artifacts or
lineages: units settle, branch, delegate and wait, resume when what they delegated
is resolved, or everything is abandoned at once.

### ProcessExecutor

One `ProcessExecutor.execute`. Node runs one callback at a time, so an action is a
callback: `Begin` (the admission: the record to the synchronous observers and the
supervisor's first check, before which time may pass), `Spawn` (the call of `spawn`; time
may pass before it too), `Launched`/`LaunchFails`, `Telemetry`, `ProviderTerminates`,
`Output`, `TimerFires`, `Abort`, `Escalate`, `Close`, `Finish`.
Within a callback the code threads the same few variables through `emit`, `refresh`
and `stop`; the operators `Observed`, `Refreshed`, `StopIfOverrun`, `StopObserver`
do so in the code's order. The environment is `Processes` (the child and members of
its group that hold its pipes, or do not, may fork and exit at any moment) and
`Tick`. Telemetry is abstracted to what the supervisor tells apart: is it progress, is
it about an item or command scope, which scope.

### DependencyPreparation

`prepare` runs one docker command after the other, each with the profile's wall time,
and remembers in `made` what it created; its `finally` removes that in reverse order.
An action is a command: `Images`, `Create` (the resources of `Plan` in turn, the
networks and volumes first), `BootProxy`, `Install`, `Export`, then the steps of
`sealDependencyBundle` (`Look`, `Copy`, `Chmod`, `Publish`, `Identify`), `CleanUp` for
each resource and `Return`. `Fails` is the failure of a command, which the daemon may
have carried out all the same. Preparations are processes of their own that meet in
the daemon (fixed subnets: `Refused`) and in the store (`target`); `Unseal` and
`Removed` are maintenance's removal of a bundle. All preparations have one bundle key
because bundles of different keys live in different directories.

### EgressProxy

`handle` is a goroutine per connection: `Accept` (the slot), `Request`, `RequestRefused`
(what the client has sent is enough for a refusal) or `RequestFails` (it says nothing more,
or the deadline has passed), `Resolve` with the policy's all-or-nothing check, `Connect` or
`DialFails` for one address after the other, and the tunnel with a copying goroutine
in each direction (`CopyUp`, `CopyUpEnds`, `CopyDown`, `CopyDownEnds`, `CloseTunnel`).
`Reply` is a response with the deferred functions that run at its `return`. `expired`
is the deadline set at line 319, which fails reads and writes of the client's
connection until it is lifted; `Client` and `Server` may close or send at any time.
Bytes are counted in units: `ClientLimit` stands for the 8193 bytes of the request
reader, which an admissible request leaves at least one of, `TunnelLimit` for the 2 GiB of
`io.CopyN`. An answer that is written after the deadline is lost, and `Reply` leaves
`answer` alone then.

`Resolve` is one answer of a resolver, `PassOver` a resolver that cannot be reached or
does not answer. What the exchange has come to is a record of `NameResolution`, whose
operators are the steps of `resolveDNS` and `dnsRequest`: A before AAAA, aliases up to
`MaxCname` and never twice the same, a truncated answer asked for again over TCP from the
first resolver, and the query that gets another length prefix at each TCP resolver.
`held` is a history field: what the resolvers' records were, shown or not, against which
`OnlyPublic` is stated.

### ExperimentRun

Extends `LineageEngine`: every action of the harness is a step of the engine conjoined
with what `runExperimentLocally` does in it, so the order in which work is opened,
invoked, committed and released is the engine's own. `Call` is the engine's `Invoke`
with the OPEN of `ExperimentArtifacts`; `Start` and `StartFails` are `execute` up to the
record "started" (gate, hand-over of spawned results, preparation, record);
`SolverFails`, `Blocks` and `Returns` the rest of it with the engine's reaction and the
COMMIT exports; `Release` the engine's end; `SaveEvidence`, `Conclude` and
`RemoveMarker` the end of the run. `Evaluate` and `EvaluationEnds` are the separate
evaluation command, `Accepts` what `replayExperiment` compares.

Commits are `LineageEngine`'s `Refs`; `history` has what is reachable from each, the
solver being free to merge anything its database holds, and a transfer copies that
closure. Of `invocations.jsonl` only the "started" records are kept, which are what
replay reads. An experiment always has an external executor and a backend, so
`ExperimentInit` has `Protocol /\ Backend`. `NoEditAccepted` has the edits of those
records that replay must notice: one dropped, added or given to another unit, or two
exchanged. A killed harness takes no further step, which the specification always allows.

### CodexAdapter

One run of `adapter.mjs`. Everything before the launch, and everything after the agent's
"close", is synchronous: an action is a stretch of it that can fail in a way of its own
(`Configure`, `ReadInvocation`, `CheckWorkspace`, `MakeState`, `ReadIdentity`,
`ReadVersion`, `Launch`; after "close" `Conclude` with the probe of HEAD, `CheckBranch`,
`Respond`), and a signal that comes in between is pending until the loop turns. Synchronous
is only the adapter: helpers the agent left behind act between any two of these stretches
and may move HEAD or the branch after it was probed. In between an action is a callback
(`HandleSignal`, `Timeout`, `LaunchFails`, `Output`, `Close`). `error` is the one variable
all of them write. `Terminate` and `Escalate` are the executor above it, which sends SIGTERM
and, later, SIGKILL to the adapter's group; the agent's group is another one. `events` is
the state of `CodexEvents`; bytes are units and a chunk has at most one line end (a chunk
with several is several chunks). `Contracts` and `Messages` are what `invocationFrom` can
project and an agent can write, up to which action, effects and ids they have; `Conforms` is
the adapter's schema and `CoreAccepts` the core's `validateResponse`, two texts that
`OutcomeIsEarned` relates.

### DockerVerification, TrustedLocal, Verifiers

`DockerVerification` is `VerificationRuntime.perform`: the docker commands of `Commands`
in turn, each of which may fail with its effect (`Fails`), the readiness loop, the check,
and then the cleanup: `Removals` gives each of its steps its place, `Planned` are those the
adapter has reason for (`known`) and always the inventories, and `Upcoming` is the first
of those in `pending`. `present` is what docker has, `known`
what the adapter was told; `LateExit` is a container that ends long after its client was
killed. A client that fails by itself, the candidate's included (`RunCandidate`), may leave
its container. What a command does, it has done when its client ends, or never does.

`TrustedLocal` is the same on the host: `prepare` with its seven steps and its drift, the
lease, the check and the evaluation in the live workspace, the authority's look at tools,
package and container at every use, and the cleanup that finds containers by the record of
the step. `Scripts` lets the steps that run code of the workspace (`Scripted`: npm ci, the
typecheck, and the two that load its `pg`) and the checks rewrite package.json, `Call` lets
the executor do so between calls. `pkg` is that of the workspace being served; any other
may be written until it is asked for.

`Verifiers` is the harness's choice between them. The assumptions of both on their
constants (`DockerAssumption`, `TrustedLocalAssumption`) are made there.

### PinnedRuntime

Parent (`pc`) and child (`child`) with the messages under way in `down` and `up`. The
parent's actions are the stretches between the commands it runs (`Read`, `Committed`,
`Checkout`, `Bind`, `Compile`, `Copy`, `Fork`) and its events (`Receive`, `Disconnected`,
`Abort`, `Exited`, `ChildError`), then the completion of the two evidence files and `Clean`,
which may fail and then answers with its own exception; the child's are `Boot`,
`TakeOptions`, `TakeCancel`, `Preflight`, `Invoke`, `Event`, `Finish`, `Leave`.
`ChildError` settles the promise and nothing else: the listeners stay, and the child goes
on without its tree (`Open`, `failed`). `ran` is the executor the last invocation ran.
`Edit` changes a named file, `ChildCrash` and `ParentCrash` end a process. A document is
"pinned" or "other", and `defect` is what is wrong from the start with preregistration or
options, if anything: which look finds it is `Registration`, `Authority`, `Options`.

### GitWorkspace

One unit's worktree under `GitWorkspaceBackend` (it lives from OPEN to RELEASE) or
`GitArtifactBackend` (made, used and removed by one EXECUTE). An action is a git command,
and each may fail with its work done: `Add` (the worktree), `Identify` (HEAD and branch
against what is known), `Stage`, `Compare`, `Commit`, `Read` (the ref), `Status`,
`Settle` and `Remove`. `Throws` is what a failure leads to: an answer, or in EXECUTE the
way out that settles the worktree; `Callback` is the trusted code inside EXECUTE, which
may also catch. `Request` carries the ref the engine was last told, so
`request.base !== artifact.ref` does not arise.

A process the solver left running may write files between any two commands (`Edit`);
history is moved only between two operations (`MoveHistory`), while a solver is invoked.
`Remove` is `git worktree remove` without `--force`: git refuses what is modified or
untracked and deletes what is ignored. `since` is a history variable: what has been in the
files ever since the request, which is what COMMIT owes.

## 4. Runs

| Run | Question | Result and bounds |
|---|---|---|
| `EngineTree` | Does the forest of work stay in order under every interleaving of rounds and answers, and is nobody starved? | pass, 55,830 states. Four units with rounds of two and two priorities under the scripted executor: a parent with a waiting child with children, a fork below a spawn, and a unit that is displaced from a round all occur with four |
| `EngineBudgets` | Do budgets stop everything, exactly once, and does the run end? Do commits and worktrees stay with their unit, and evidence with its newest check? Does the engine implement `WorkForest`? | pass, 195,623 states. Four units (a creator and three created, two lineages forked and a unit spawned in one of them, or generations), one commit and two checks per unit under an external executor. Limits 5 (steps) and 4 (invocations) are reached at both checkpoints of the rounds, with units of the round left and with waiting parents; limit 4 (lineages) takes a FORK of three exactly, so the next round is refused, and after a FORK of two, with rounds of two lineages, refuses another one in the middle of a round. That a FORK fills the limit in the middle of a round, so `checkpoint("work")` finds it, needs five lineages and is left to the theorem |
| `ExecutorLimits` | Does an invocation keep its first stop cause, is a stop answered by an end of its process group, and does it end with the right verdict? | pass, 148,370 states. Wall limit 3, quiet limit 2, items 2, commands 1, grace 2, clock to 4: each limit can be the first or the second to be reached, the time limits also before anything is started; an escalation that is due after the end of the clock happens at its end |
| `Preparations` | Are leftovers reported, do seals stay apart, does a key have one bundle? | pass. Two preparations with different trees, each command failing before or after it was carried out, one removal per cleanup failing for no reason of the model (more of them repeat it), one maintenance removal |
| `Proxy` | Do slots drift, does a tunnel leave the policy, is anything owed cut off, can silence hold the setup phase? | pass, 93,396 states. Two connections for one slot; three addresses of which one is refused and of both types; two resolvers, one alias, truncated and contradictory answers; requests that leave one unit of the reader; one unit each way, the limit of the copies. That a silent client's slot comes back rests on the deadline: a client that says nothing is neither refused nor answered before it |
| `ProxyTunnel` | Is what a client sends relayed, or the tunnel closed? | violation, see section 7 |
| `Codex` | Is a stopped agent's group gone, is a response earned, is a line counted once, does a stop end the adapter? | pass, 123,238 states. Three units of output with an output limit of two and a line limit of two: lines within, at and beyond both; two sets of offered actions, one check, one item; helpers that act between the probes and the print |
| `Verifications` | Does either verifier hide what is left, leave a lease, or check the wrong package; does it answer? | pass, 432,276 states. Clients that time out or fail by themselves; two readiness probes, one file; two workspaces, three packages of which one is not covered, two checks, three preparations: a lease given up by drift and taken again |
| `PinnedRun` | Does a run start on what was registered and, under a contract, invoke only that; does the parent leave the tree to its child, is only a whole run accepted, is nobody left running? | pass, 381,570 states. Both schemas, every kind of defect, two edits, two messages under way, crashes of either process, errors of the child object, removals that fail |
| `Workspaces` | Is a worktree removed with work in it, is what is answered true? | pass, 1,162,206 states. Either backend, two changes, two commits, five operations: after INITIALIZE and OPEN three more, so a commit made but not read is followed by any two of COMMIT, CHECK and RELEASE |
| `Experiment` | Do worlds stay separate, does the archive hold what work starts from, does the gate hold, is a run without error completely exported, is replay's verdict right, is only a finished run evaluated? | pass. Three units and four invocations: the least for a parent that resumes with the results of two siblings, or two forked lineages; conditions H and T (S is H with a gate nobody closes); two evaluation commands, interchangeable |
| `ExperimentReplay` | Does replay accept the evidence of every finished run? | violation, see section 7 |

`MaxWork`, `MaxCommits`, `MaxChecks`, `MaxTime`, `MaxRemovals`, `MaxFaults`, `MaxUnits`,
`MaxAttempts`, `MaxRecords`, `MaxEdits`, `MaxQueue` and `MaxOps` are bounds of the model,
not of the code; the theorems hold for every value of them. When the clock has reached
`MaxTime` it stands for every later time, so an escalation that is due then still
happens. `Proxy`, `ProxyTunnel`, `PinnedRun` and `Verifications` do not look for
deadlock: silent ends may keep a tunnel, a run comes to its end, nobody need ask again.

**Fairness.** `LineageEngine!FairSpec` assumes weak fairness of `Next`: the engine
never waits for anything but an answer, so this says that every yielded operation
is answered. The code does not guarantee it by itself (there is no default
timeout); with a wall-time limit it is what `Ends` of `ProcessExecutor` shows, and
`Answers` of `Verifiers` for VERIFY.
`ProcessExecutor!FairSpec` assumes that time passes, that the event loop runs what
is due (admission, spawn, its result, timers, close, finish), and that SIGKILL works. It
assumes nothing of the process: no output, no exit, no reaction to SIGTERM.
`CodexAdapter!FairSpec` assumes the same of the adapter's loop (signal handler, timer,
error, close and the probes and the print that follow it) and nothing of agent, helpers or
output.
`Verifiers!Spec` assumes that what is begun goes on until it is answered: every command is
run synchronously with a timeout. Nobody need ask again, and a container need not end.
`PinnedRuntime!FairSpec` assumes that parent and child take their next step and read their
messages, and that a running child reports events; neither that a run finishes nor that
anybody aborts it.
`EgressProxy!FairSpec` assumes that goroutines run, that the client deadline passes and
that resolutions and dials end (both have contexts with a timeout); nothing of clients
and servers: a client need neither complete its request nor say anything that is refused
(`Request` and `RequestRefused` have no fairness), and a tunnel with silent ends may stay
for ever. `ExperimentRun`,
`DependencyPreparation` and `GitWorkspace` state safety only.

## 5. What is proved

Everything here holds for all values of the constants, under each module's named
assumption on them only.

**`ExperimentRun_proofs`**, the engine (`EngineAssumption`: positive bounds, budgets
naturals or absent):

- `TypeCorrect`, `Invariance`: `EngineInv`, the conjunction of `TypeOK`,
  `Bookkeeping`, `Forest`, `ParentWaits`, `LineageFollowsMain`, `BudgetsHold` and
  `ExhaustionIsFinal`, is inductive. Each conjunct needs others: that FORK by a
  main unit leaves one main unit per lineage (`Forest`) needs ids to be handed out
  in order (`Bookkeeping`); that a unit leaving ACTIVE has no open child
  (`ParentWaits`) needs that the invoked unit is ACTIVE, which holds because a
  round only ever loses units and a budget stop ends it (`Bookkeeping` and
  `ExhaustionIsFinal`); that the copied status is right needs both.
- `ParentsWait`, `LineagesFollow`, `IdsFormForest`, `BudgetsAreHeld`,
  `ExhaustionCloses` and `RunsClose` (`NothingLeftBehind`): the last because a
  child is younger than its parent, so the youngest open unit has no open child
  and is ACTIVE or can resume; the loop cannot stop before it.
- `OutcomesStay` and `ResumptionIsInformed` (action properties),
  `EvidenceStaysCurrent` (with its own inductive invariant).

There is one lemma per action in the proof of `EngineInv`, so a change of one
handler touches one lemma.

- `LineageInvariance`: `LineageInv` adds to `EngineInv` where worktrees are (`WorktreeInv`:
  only with a backend, only after an attempt to open one, and without an external executor
  dirty only of a blocked unit) and that every lineage has a main unit (`LineagesLed`).
- `EditsStay` (`EditsAreKept`) from it: dirt leaves a worktree only by the commit that
  advances the ref. FORK and SPAWN come from a clean tree: under an external executor a
  CHECK precedes them, and without one only an EXECUTE that failed leaves dirt, whose unit
  is blocked (`WorktreeInv`).
- `WorldsAreOwn` (`OwnWorld`). A step changes at most one commit of a unit that exists, and
  copies the creator's to a new one, so it is enough that descent stays what it is
  (`StepGrows`) and that what a creator descends from, its creatures descend from. Of
  `Ancestry` the proof only uses that it is within every such set; that the creator is an
  existing unit needs `Forest` and `LineagesLed`.

`Refinement` proves `Spec => ImplementsWorkForest`: every step of the engine is, under the
mapping of section 3, a step of `WorkForest` or leaves it unchanged.

**`ExperimentRun_proofs`**, the experiment (`ExperimentAssumption` as well):

- `ExperimentRunsEngine`: `ExperimentSpec => Spec`. All theorems above are therefore theorems
  about every experiment, and the experiment's own invariant may use `LineageInv`.
- `ExperimentInvariance`: `ExperimentInv` is `LineageInv` and
  - `DriverInv`, where the driver is with respect to the engine: an invocation is under way
    exactly while the engine waits for its answer, and only in a run that is under way;
  - `RecordsInv`, why replay's verdict is right: records are numbered, there is never more
    than the one of the invocation under way beyond the operations, and one invocation
    without its record leaves them behind for good, so equal lengths mean equal content;
  - `EvidenceInv`, what the export that was carried to its end left;
  - `CommitsInOrder`: nobody is at a commit its maker has not reached. Without it a new
    commit could be one that somebody is at already, whose history it would then change, and
    `WorldInv` would not be inductive;
  - `WorldInv`: what `WorldsAreSeparate` says of databases, said of the history of each
    unit's commit too, because that is what a transfer copies.
- `ArchiveStays` (`ArchiveHoldsWork`), `WorldsStaySeparate`, `EvidenceStays`
  (`EvidenceIsComplete`), `VerdictsHold` (`ReplayVerdict`) from `ExperimentInv`. That a
  database which was fair to its unit stays so uses that ancestors and resolved units stay
  what they are (the engine's `StepGrows` and `TerminalStays`), that a child created by
  FORK or SPAWN has its creator's ancestors among its own, and that a parent that is ACTIVE
  has only resolved children, in its own lineage, to receive results of.
- `GateStays` (`GateHolds`) and `EvaluationIsAfterwards` (`EvaluatedWhenOver`), for any
  number of evaluation commands. The second rests on `HookInv`: the marker goes only when
  the run is finished, and nobody writes evidence then.

**`Verifiers_proofs`** (`DockerAssumption`, `TrustedLocalAssumption`): `NothingStaysHidden`,
`LeasesAreRemoved`, `ChecksHoldTheirLease`, from `VerifiersInvariance`. The two halves of
`VerifiersInv`:

- `DockerInv`: a container nobody waits for exists only of a command that was given up, and
  then the volume is known (`UnattendedIsKnown`), so its removal is among the steps; as long
  as no step is recorded as failed, whatever is present has a step in `pending` that will
  find it (`StepsVouch`). Without the inventories (the mutant) nothing vouches for a volume
  whose creation was not answered.
- `HostInv`: a lease names a record of its own workspace, which without an authority stays
  made until the final cleanup (`LeaseIsOwn`); a container that exists is one cleanup looks
  for (`MadeIsLeased`); the preparation under way is that of the newest record
  (`NewestIsOpen`); what the authority looked at is the record's package (`Authorised`) and
  still is at the check (`LeaseStands`); and
  what the final cleanup has passed is gone unless it failed (`VisitedIsRemoved`).

**`ProcessExecutor_proofs`**: `VerdictsAreRight`, `FirstCauseStays`. The inductive
`VerdictInv` says that code and stop evidence tell one story (`Paired`), that a running
invocation without a stop is within its limits (`WithinLimits`: without it a limit reached
only in the flush at close would be missed), and that a provider's own wall-time verdict
comes with its evidence. `RESOURCE_EXHAUSTED` with a stop that is no exhaustion is left by
the admission alone, which starts nothing. Each operator that threads the variables (`Stop`,
`Refreshed`, `Emitted`, ...) has a lemma on what it keeps.

**`DependencyPreparation_proofs`**: `LeftoversAreReported`, `OneAtTheStore`, `OneBundle`,
for any number of preparations. `PreparationInv`: what exists is what was made, up to the
one resource whose creation was not answered (`HasWhatItMade`, `Swept`); no network exists
twice (`Apart`), which is why only one preparation gets as far as the store and nothing is
published while it seals (`Unpublished`). `OneBundle` adds to it what the store holds and
what each preparation recorded of it.

**`EgressProxy_proofs`**: `ProxyTypes`, `SlotsDoNotDrift`, `TunnelsArePublic`,
`AnsweredOnce`, `TunnelsDrain`, for any number of connections, slots, addresses, resolvers
and aliases. `ProxyInv`: the slots taken are the connections being served; nothing is said
before a request is decided on; what is dialled comes from an exchange in which nothing the
resolvers held was hidden (`NothingHidden`), which holds because a cut answer is never used;
a copy that ended had a reason that stays (`CopiedBack` towards the client, `CopiedOn`
towards the server).

**`PinnedRuntime_proofs`**: `RegisteredRuns`, `TreeIsThere`, `AcceptedRunsAreWhole`.
`PinnedInv`: while the child works its parent waits or is dead, and the tree exists, unless
an error of the child object was reported (`Lifetimes`); what each look established stays
established for what rests on it (`Registered`); a result is under way or received only of a
finished run (`Whole`). What `RegisteredRuns` says of schema 2 is what its looks establish:
the executor is the registered one when the run starts, not at an invocation.

**`CodexAdapter_proofs`**: `StoppedAgentGone` (`GroupInv`: a stop empties the group, and a
group without its leader does not grow), `OutcomesAreEarned` (`VerdictInv`: each cause is
recorded when it happens, what a probe found stays so while nobody of the agent's group is
left, and the invocation is one of `Contracts`, for all of which the adapter's schema is
shown to be within the core's), `LinesCountOnce` (`CountInv`: counters,
line ends and the line being dropped add up).

**`GitWorkspace_proofs`**: `WorkOutlivesWorktree`, `AnswersAreTrue`. `WorkspaceInv`: which
command of which operation may be next (`Sequenced`), where HEAD is then with respect to
the ref (`Located`: after `Identify` they agree until the operation itself moves HEAD), and
where the changes are that COMMIT owes (`TakenIn`).

## 6. What is only model-checked

Every safety invariant and every action property of the passing runs has a theorem. Left to
the runs are the eight liveness properties, since fairness and ENABLED are out of the
prover's reach: `Terminates` and `NoStarvation` (`LineageEngine`), `Ends` and
`StopReapsGroup` (`ProcessExecutor`), `SlotsComeBack` (`EgressProxy`), `StoppedComesToEnd`
(`CodexAdapter`), `Answers` (`Verifiers`), `NobodyIsLeft` (`PinnedRuntime`); and the two
violations of section 7, each of which is a behaviour.

## 7. Where code and documents disagree

- `ProxyTunnel`: the tunnel reads the client through the request's `LimitReader`, so
  after 8193 bytes of request and tunnel together nothing more is relayed upwards, and
  since no deadline is set again the tunnel stays; the contract has idle and lifetime
  limits and 2 GiB (trusted-registry-egress-proxy-artifact-contract.md:284-296).
- `ExperimentReplay`: the engine records every operation, run.ts writes "started" only
  after the gate, the transfers and the preparation, and replay wants as many of one as
  of the other: evidence of an H run whose gate closed before all work was done is
  rejected (README.md:174-178, src/experiments/README.md:233).

Met while modelling, in the models, and not stated as a property of a run:

- An invocation that was shown evidence and answers CONTINUE with a VERIFY loses the new
  result: `src/engine/index.ts` stores it (421) and then deletes the entry because this
  invocation had been delivered one (478). The decision log says a verification "delivers
  bounded evidence to a subsequent invocation of the same work unit"
  (docs/DECISIONS.md:1053).
- "Observer callback failure terminates and reaps the owned process"
  (docs/operational-events.md:25-26) does not hold of the first record of an invocation,
  made before there is anything to stop (`src/executor/process.ts:150`), nor of the last,
  made after the failure flag was looked at (352). A stop that is found only when the
  telemetry is flushed at "close" (289) comes after the last kill (286): what is left of the
  group then is left.
- The admission of an invocation answers every stop the supervisor finds with
  RESOURCE_EXHAUSTED (`process.ts:158`), also NO_PROGRESS, when recording the admission
  took longer than the quiet limit; later the same stop is a failure of its own.
- The adapter "rejects ... changed managed HEAD/branch identity"
  (adapters/codex/README.md:83-84) as long as nobody outlives the agent: it probes HEAD
  (`adapter.mjs:377`), then the branch (378), and a helper that moves one of them after its
  probe has its change go unnoticed, and the response printed.
- An error of the child object (`runtime-identity.ts:331`) rejects the run and removes its
  tree whether or not the child still runs in it. A removal that throws (387) turns a run
  that was accepted, its evidence complete, into a rejection.
- Under schema 2 the executor's bytes are compared when the run starts and at no later
  invocation; under schema 3 at each.
- A resource of a dependency preparation whose creation was carried out but not answered
  is not in `made` (`dependency-preparation.ts:449`): it is neither removed nor reported.
  When it is a network, its fixed subnet makes every later preparation on the daemon fail.
- "Git refuses removal if work would be lost (including ignored files)"
  (`src/artifacts/git.ts:213`) is half true: `git worktree remove` refuses modified and
  untracked files and deletes ignored ones. EXECUTE therefore loses them, which is why
  `WorkIsKept` speaks of ignored files for RELEASE only; RELEASE asks for them first.
  An OPEN whose `git worktree add` fails after it was carried out leaves a worktree and a
  branch that nothing names.
- No command of `prepare` fills the input volume that its installation reads
  (`dependency-preparation.ts:275`).
- The proxy's deadline of five seconds from accept also covers its replies
  (`main.go:319`), so a 502 or 504 after a slow resolution is lost; a second resolver
  endpoint is sent a TCP query with two length prefixes (`dns.go:80`).
- Of two evaluation commands started together both run their hook, though only one report
  is kept, where hooks "may be invoked only once per run directory"
  (src/experiments/README.md:241-242).

## 8. What is not modelled

Section 2 lists what is left of the plan. Not planned: argument parsing, rendering, fixed
scenarios; what processes that candidate scripts leave behind do to package.json between the
look at it (`preparation.ts:293`) and the check (`trusted-local-verification.ts:107`);
docker commands whose effect appears after their client was given up, and the hook
`afterDatabaseBootstrap` that may stop a verification (`verification/index.ts:589-604`); the
process group of the executor under a pinned run, which its end does not reach; validation
of documents that keeps no state (trusted profile, egress policy, release governance), the
proxy's startup checks and DNS message format; the SQLite store, whose single transaction is
SQLite's to get right; hashing, sanitising and bounding of diagnostics; the smoke and
connectivity tools beside the Codex adapter and the scripts under `scripts/`, which run the
program and are not part of it.
