---------------------------- MODULE LineageEngine ----------------------------
(***************************************************************************)
(* The transition machine of src/engine/index.ts: one run grows a tree of  *)
(* lineages (by FORK) and of work units inside a lineage (by SPAWN), and   *)
(* schedules the ACTIVE work units in rounds, one executor invocation at a *)
(* time.  The machine is a generator: it gives up control only while an    *)
(* invocation is outstanding (pc = "invoke"), so an action is a stretch of *)
(* code between two such points, or one iteration of its loops.            *)
(*                                                                         *)
(* Work units and lineages are numbered in order of creation, as the ids   *)
(* w1, w2, ... and l1, l2, ... are.  The backend, the executor, the        *)
(* evaluator and the verifier answer nondeterministically.                 *)
(***************************************************************************)
EXTENDS Integers, FiniteSets

CONSTANTS
  MaxWork,          \* bound: work units one run creates
  MaxCommits,       \* bound: commits a work unit's workspace gains
  MaxChecks,        \* bound: verifications a work unit is granted
  MaxConcurrency,   \* config.maxConcurrency: the size of a round
  Priorities,       \* priorities an executor may give to the work it creates
  StepLimit, InvocationLimit, LineageLimit,   \* config.budgets
  Unlimited,        \* the value of a budget that is not configured
  Protocol,         \* an external executor (protocol 1), or a scripted one
  Backend,          \* an artifact backend is configured
  Verifier          \* a verification runtime is configured

ASSUME EngineAssumption ==
  /\ MaxWork \in Nat \ {0}
  /\ MaxCommits \in Nat
  /\ MaxChecks \in Nat
  /\ MaxConcurrency \in Nat \ {0}
  /\ Priorities \subseteq Int /\ 0 \in Priorities
  /\ Unlimited \notin Nat
  /\ {StepLimit, InvocationLimit, LineageLimit} \subseteq Nat \cup {Unlimited}
  /\ {Protocol, Backend, Verifier} \subseteq BOOLEAN

WorkId == 1 .. MaxWork
LineageId == 1 .. MaxWork
Open == {"ACTIVE", "WAITING"}
Terminal == {"BLOCKED", "COMPLETED", "BRANCHED"}
Status == Open \cup Terminal \cup {"ABSENT"}

\* <<w, n>> is the n-th commit made in the workspace of w; <<0, 0>> is the
\* commit the repository was at when the run began.
Refs == (0 .. MaxWork) \X (0 .. MaxCommits)
RootRef == <<0, 0>>

VARIABLES
  pc,           \* "start", "loop", "invoke" (executor running), "done"
  cur,          \* the work unit being invoked, 0 when there is none
  batch,        \* the work units of this round still to be run
  exhausted,    \* a run budget stopped the run
  steps, invocations,   \* consumption, counted when a budget is set
  works,        \* state.work.length
  unit,         \* parentId (0: main work), lineageId, priority of a work unit
  status,       \* status of a work unit, "ABSENT" until it is created
  ahead,        \* ahead[w]: the work units with a smaller queue number than w
  lineages,     \* state.lineages.length
  lparent,      \* parentId of a lineage, 0 for the root
  lstatus,      \* status of a lineage
  ref,          \* w.artifact.ref
  lref,         \* lineage.artifact.ref
  attempted,    \* artifactAttempted
  tree,         \* worktree of a work unit: "none", "clean", "removed", or "dirty"
                \* when it has changes, or its branch commits, that ref has not
  checks,       \* successful verification operations of a work unit so far
  evidence      \* the newest of them in its pending evidence, 0: no evidence

control == <<pc, cur, batch, exhausted, steps, invocations>>
genealogy == <<works, unit, status, ahead, lineages, lparent, lstatus>>
artifacts == <<ref, lref, attempted, tree>>
verification == <<checks, evidence>>
vars == <<control, genealogy, artifacts, verification>>

TypeOK ==
  /\ pc \in {"start", "loop", "invoke", "done"}
  /\ cur \in 0 .. MaxWork
  /\ batch \subseteq WorkId
  /\ exhausted \in BOOLEAN
  /\ steps \in Nat /\ invocations \in Nat
  /\ works \in WorkId
  /\ unit \in [WorkId -> [parent : 0 .. MaxWork, lineage : LineageId,
                          priority : Priorities]]
  /\ status \in [WorkId -> Status]
  /\ ahead \in [WorkId -> SUBSET WorkId]
  /\ lineages \in LineageId
  /\ lparent \in [LineageId -> 0 .. MaxWork]
  /\ lstatus \in [LineageId -> Status]
  /\ ref \in [WorkId -> Refs] /\ lref \in [LineageId -> Refs]
  /\ attempted \subseteq WorkId
  /\ tree \in [WorkId -> {"none", "clean", "dirty", "removed"}]
  /\ checks \in [WorkId -> 0 .. MaxChecks]
  /\ evidence \in [WorkId -> 0 .. MaxChecks]

Init ==
  /\ pc = "start" /\ cur = 0 /\ batch = {} /\ exhausted = FALSE
  /\ steps = 0 /\ invocations = 0
  /\ works = 1 /\ lineages = 1
  /\ unit = [w \in WorkId |-> [parent |-> 0, lineage |-> 1, priority |-> 0]]
  /\ status = [w \in WorkId |-> IF w = 1 THEN "ACTIVE" ELSE "ABSENT"]
  /\ lstatus = [l \in LineageId |-> IF l = 1 THEN "ACTIVE" ELSE "ABSENT"]
  /\ ahead = [w \in WorkId |-> {}]
  /\ lparent = [l \in LineageId |-> 0]
  /\ ref = [w \in WorkId |-> RootRef]
  /\ lref = [l \in LineageId |-> RootRef]
  /\ attempted = {}
  /\ tree = [w \in WorkId |-> "none"]
  /\ checks = [w \in WorkId |-> 0]
  /\ evidence = [w \in WorkId |-> 0]
-----------------------------------------------------------------------------
(* Status bookkeeping, scheduling order, budgets.                          *)

Created == {w \in WorkId : status[w] # "ABSENT"}
WithStatus(S) == {w \in WorkId : status[w] \in S}
Children(w) == {c \in Created : unit[c].parent = w}
IsMain(w) == unit[w].parent = 0

\* sync: the lineage of a main work unit takes over that unit's status.
Synced(S, st) ==
  [l \in LineageId |->
     IF \E w \in S : IsMain(w) /\ unit[w].lineage = l THEN st ELSE lstatus[l]]

\* Every work unit of S moves to status st, its lineage with it.
Moved(S, st) ==
  /\ status' = [w \in WorkId |-> IF w \in S THEN st ELSE status[w]]
  /\ lstatus' = Synced(S, st)

\* Mutant of ToBack: a unit that continues keeps its place in the queue.
ToBackNoMove(R, known) ==
  [w \in WorkId |-> IF w \in R /\ ahead[w] = {} THEN {v \in R : v < w} ELSE ahead[w]]

\* Work units R take the next queue numbers, in order of their ids.
ToBack(R, known) ==
  [w \in WorkId |-> IF w \in R THEN (known \ R) \cup {v \in R : v < w}
                               ELSE ahead[w] \ R]

Precedes(v, w, order) ==
  \/ unit[v].priority > unit[w].priority
  \/ unit[v].priority = unit[w].priority /\ v \in order[w]

\* scheduler.select: the first MaxConcurrency of the ready work units.
Selected(ready, order) ==
  {w \in ready :
     Cardinality({v \in ready : Precedes(v, w, order)}) < MaxConcurrency}

\* Mutant of Resumable: one terminal child is enough.
ResumableByAnyChild ==
  {w \in WithStatus({"WAITING"}) : \E c \in Children(w) : status[c] \in Terminal}

\* WAITING work units whose spawned work is all terminal.
Resumable ==
  {w \in WithStatus({"WAITING"}) : \A c \in Children(w) : status[c] \in Terminal}

\* Mutant of Ready: the loop looks for work before it resumes any.
ReadyBeforeResume == WithStatus({"ACTIVE"})

Ready == WithStatus({"ACTIVE"}) \cup Resumable

\* Mutant of Tick: consumption is not accumulated.
TickLost(limit, count) == IF limit = Unlimited THEN count ELSE 1

\* A counter no budget refers to is not counted.
Tick(limit, count) == IF limit = Unlimited THEN count ELSE count + 1
Reached(limit, count) == limit # Unlimited /\ count >= limit
RunStop ==
  \/ Reached(StepLimit, steps)
  \/ Reached(InvocationLimit, invocations)
  \/ Reached(LineageLimit, lineages)
ForkStop(k) ==
  /\ LineageLimit # Unlimited
  /\ lineages >= LineageLimit \/ lineages + k > LineageLimit

\* Mutant of Exhaust: lineages are not synced.
ExhaustUnsynced ==
  /\ exhausted' = TRUE
  /\ status' = [w \in WorkId |-> IF status[w] \in Open THEN "BLOCKED" ELSE status[w]]
  /\ UNCHANGED lstatus

\* checkpoint found a budget reached: all open work is blocked.
Exhaust ==
  /\ exhausted' = TRUE
  /\ Moved(WithStatus(Open), "BLOCKED")
-----------------------------------------------------------------------------
(* Artifact and verification effects of one response.                      *)

Opened(w) == tree[w] \in {"clean", "dirty"}

\* What the executor may have made of the worktree before it answered.
Edited(w) ==
  IF Protocol /\ Opened(w)
  THEN {t \in {"clean", "dirty"} : tree[w] = "dirty" => t = "dirty"}
  ELSE {tree[w]}

\* A commit exists only for a staged difference; the bound ends the edits.
Advance(w, t) ==
  IF t # "dirty" THEN ref[w]
  ELSE IF ref[w][1] = w THEN <<w, ref[w][2] + 1>> ELSE <<w, 1>>
Committable(w, t) == t = "dirty" => Advance(w, t)[2] <= MaxCommits

\* Worktree, ref and success after the COMMIT effects of a response: none
\* requested, all performed, one refused (possibly after another was done).
Unchanged(w) == {[tree |-> t, ref |-> ref[w], ok |-> TRUE] : t \in Edited(w)}
Performed(w) ==
  {[tree |-> "clean", ref |-> Advance(w, t), ok |-> TRUE] :
     t \in {t \in Edited(w) : Protocol /\ Opened(w) /\ Committable(w, t)}}
Refused(w) ==
  IF Protocol
  THEN {[tree |-> r.tree, ref |-> r.ref, ok |-> FALSE] :
          r \in Unchanged(w) \cup Performed(w)}
  ELSE {}
CommitOutcomes(w) == Unchanged(w) \cup Performed(w) \cup Refused(w)

\* Mutant of CheckedOutcomes: no CHECK effect before the action takes hold.
UncheckedOutcomes(w) == {r \in CommitOutcomes(w) : r.ok}

\* The outcomes that let FORK, SPAWN and COMPLETE pass the CHECK effect.
CheckedOutcomes(w) ==
  {r \in CommitOutcomes(w) : r.ok /\ (Protocol /\ Backend => r.tree = "clean")}

\* updateArtifact: main work carries its lineage's artifact along.
LineageRef(w, new) ==
  IF IsMain(w) THEN [lref EXCEPT ![unit[w].lineage] = new] ELSE lref
Settled(w, r) ==
  /\ tree' = [tree EXCEPT ![w] = r.tree]
  /\ ref' = [ref EXCEPT ![w] = r.ref]
  /\ lref' = LineageRef(w, r.ref)
  /\ UNCHANGED attempted

\* Mutant of Delivered: delivered evidence stays.
DeliveredForever(w, pending) ==
  [evidence EXCEPT ![w] = IF evidence[w] # 0 THEN evidence[w] ELSE pending]

\* Evidence that was delivered to this invocation is deleted at its end.
Delivered(w, pending) ==
  [evidence EXCEPT ![w] = IF evidence[w] # 0 THEN 0 ELSE pending]
-----------------------------------------------------------------------------
(* The run and its rounds.                                                 *)

\* INITIALIZE of the backend succeeded, or there is none.
Begin ==
  /\ pc = "start" /\ pc' = "loop"
  /\ UNCHANGED <<cur, batch, exhausted, steps, invocations>>
  /\ UNCHANGED <<genealogy, artifacts, verification>>

BeginRefused ==
  /\ pc = "start" /\ pc' = "loop"
  /\ Backend
  /\ Moved({1}, "BLOCKED")
  /\ UNCHANGED <<cur, batch, exhausted, steps, invocations>>
  /\ UNCHANGED <<works, unit, ahead, lineages, lparent, artifacts, verification>>

\* Head of the loop: resume, select, checkpoint("schedule").
Schedule ==
  LET order == ToBack(Resumable, Created)
  IN
  /\ pc = "loop" /\ batch = {} /\ Ready # {}
  /\ ~RunStop
  /\ Moved(Resumable, "ACTIVE")
  /\ ahead' = order
  /\ batch' = Selected(Ready, order)
  /\ UNCHANGED <<pc, cur, exhausted, steps, invocations>>
  /\ UNCHANGED <<works, unit, lineages, lparent, artifacts, verification>>

ScheduleStopped ==
  /\ pc = "loop" /\ batch = {} /\ Ready # {}
  /\ RunStop
  /\ Exhaust
  /\ ahead' = ToBack(Resumable, Created)
  /\ UNCHANGED <<pc, cur, batch, steps, invocations>>
  /\ UNCHANGED <<works, unit, lineages, lparent, artifacts, verification>>

\* The next work unit of the round.
IsNext(w) ==
  /\ pc = "loop"
  /\ w \in batch
  /\ \A v \in batch : ~Precedes(v, w, ahead)

\* checkpoint("work") ends the round.
RoundStopped ==
  /\ pc = "loop" /\ batch # {}
  /\ batch' = {}
  /\ \/ exhausted /\ UNCHANGED <<exhausted, status, lstatus>>
     \/ ~exhausted /\ RunStop /\ Exhaust
  /\ UNCHANGED <<pc, cur, steps, invocations>>
  /\ UNCHANGED <<works, unit, ahead, lineages, lparent, artifacts, verification>>

Step(w) ==
  /\ IsNext(w) /\ ~exhausted /\ ~RunStop
  /\ steps' = Tick(StepLimit, steps)

NeedsWorkspace(w) == Backend /\ w \notin attempted

\* What EXECUTE, the scripted executor's artifact effect, does to the artifact.
Executed(w) ==
  {r \in [tree : {"removed", "none", "dirty"}, ref : {ref[w], Advance(w, "dirty")}] :
     r.ref[2] <= MaxCommits /\ (r.tree = "none" => r.ref = ref[w])}

OpenOutcome(w, ok) ==
  IF ~NeedsWorkspace(w) THEN ok /\ UNCHANGED artifacts
  ELSE /\ attempted' = attempted \cup {w}
       /\ \/ /\ Protocol
             /\ tree' = [tree EXCEPT ![w] = IF ok THEN "clean" ELSE "none"]
             /\ UNCHANGED <<ref, lref>>
          \/ /\ ~Protocol
             /\ \E r \in Executed(w) :
                  /\ ok => r.tree = "removed"
                  /\ tree' = [tree EXCEPT ![w] = r.tree]
                  /\ ref' = [ref EXCEPT ![w] = r.ref]
                  /\ lref' = LineageRef(w, r.ref)

\* The work unit is admitted, has its workspace, and the executor is invoked.
Invoke(w) ==
  /\ Step(w)
  /\ OpenOutcome(w, TRUE)
  /\ invocations' = Tick(InvocationLimit, invocations)
  /\ pc' = "invoke" /\ cur' = w
  /\ UNCHANGED <<batch, exhausted, genealogy, verification>>

\* OPEN or EXECUTE failed: the work unit is blocked without an invocation.
InvokeRefused(w) ==
  /\ Step(w)
  /\ OpenOutcome(w, FALSE)
  /\ Moved({w}, "BLOCKED")
  /\ batch' = batch \ {w}
  /\ UNCHANGED <<pc, cur, exhausted, invocations>>
  /\ UNCHANGED <<works, unit, ahead, lineages, lparent, verification>>
-----------------------------------------------------------------------------
(* The executor's answer.                                                  *)

Answered(w) ==
  /\ pc = "invoke" /\ cur = w
  /\ pc' = "loop" /\ cur' = 0
  /\ batch' = batch \ {w}
  /\ UNCHANGED <<steps, invocations>>

Grown == UNCHANGED <<works, unit, lineages, lparent>>

\* Any failure up to the switch on the action: the executor's operation, an
\* invalid response or action, a name in use, COMMIT, CHECK, the evaluator,
\* VERIFY.  What was done before it stays done.
AnswerFails(w) ==
  /\ Answered(w)
  /\ \E r \in CommitOutcomes(w) : Settled(w, r)
  /\ Moved({w}, "BLOCKED")
  /\ Grown /\ UNCHANGED <<exhausted, ahead, verification>>

Continue(w) ==
  /\ Answered(w)
  /\ \E r \in CommitOutcomes(w) : r.ok /\ Settled(w, r)
  /\ ahead' = ToBack({w}, Created)
  /\ evidence' = Delivered(w, evidence[w])
  /\ Grown /\ UNCHANGED <<exhausted, status, lstatus, checks>>

\* CONTINUE with a VERIFY effect the verifier could carry out.
Verify(w) ==
  /\ Answered(w)
  /\ Protocol /\ Verifier /\ Opened(w)
  /\ checks[w] < MaxChecks
  /\ \E r \in CommitOutcomes(w) : r.ok /\ Settled(w, r)
  /\ ahead' = ToBack({w}, Created)
  /\ checks' = [checks EXCEPT ![w] = @ + 1]
  /\ evidence' = Delivered(w, checks[w] + 1)
  /\ Grown /\ UNCHANGED <<exhausted, status, lstatus>>

\* BLOCK, or COMPLETE with a public evaluation that did not pass.
Block(w) ==
  /\ Answered(w)
  /\ \E r \in CommitOutcomes(w) : r.ok /\ Settled(w, r)
  /\ Moved({w}, "BLOCKED")
  /\ evidence' = Delivered(w, evidence[w])
  /\ Grown /\ UNCHANGED <<exhausted, ahead, checks>>

Complete(w) ==
  /\ Answered(w)
  /\ \E r \in CheckedOutcomes(w) : Settled(w, r)
  /\ Moved({w}, "COMPLETED")
  /\ evidence' = Delivered(w, evidence[w])
  /\ Grown /\ UNCHANGED <<exhausted, ahead, checks>>

\* FORK that the lineage budget cannot take whole: the run is stopped before
\* any effect of the response.
ForkStopped(w) ==
  /\ Answered(w)
  /\ IsMain(w)
  /\ \E k \in 2 .. MaxWork : ForkStop(k)
  /\ Exhaust
  /\ \E t \in Edited(w) : tree' = [tree EXCEPT ![w] = t]
  /\ Grown /\ UNCHANGED <<ahead, ref, lref, attempted, verification>>

\* The k units a FORK or a SPAWN of w creates, with priorities p: a FORK puts
\* each into a lineage of its own, a SPAWN under w and into its lineage.
ForkedUnits(w, k, p) ==
  [v \in works + 1 .. works + k |->
     [parent |-> 0, lineage |-> lineages + v - works, priority |-> p[v]]]
SpawnedUnits(w, k, p) ==
  [v \in works + 1 .. works + k |->
     [parent |-> w, lineage |-> unit[w].lineage, priority |-> p[v]]]

\* Mutant of Added: new work starts from the newest unit's commit.
AddedFromNewest(w, r, New, inherited, newUnit) ==
  /\ unit' = [v \in WorkId |-> IF v \in New THEN newUnit[v] ELSE unit[v]]
  /\ ahead' = ToBack(New, Created)
  /\ tree' = [tree EXCEPT ![w] = r.tree]
  /\ ref' = [v \in WorkId |-> IF v = w THEN r.ref
                              ELSE IF v \in New THEN ref[works] ELSE ref[v]]
  /\ evidence' = Delivered(w, evidence[w])
  /\ UNCHANGED <<exhausted, attempted, checks>>

\* addWork for the units of New, which start with the ref inherited.
Added(w, r, New, inherited, newUnit) ==
  /\ unit' = [v \in WorkId |-> IF v \in New THEN newUnit[v] ELSE unit[v]]
  /\ ahead' = ToBack(New, Created)
  /\ tree' = [tree EXCEPT ![w] = r.tree]
  /\ ref' = [v \in WorkId |-> IF v = w THEN r.ref
                              ELSE IF v \in New THEN inherited ELSE ref[v]]
  /\ evidence' = Delivered(w, evidence[w])
  /\ UNCHANGED <<exhausted, attempted, checks>>

Fork(w, k) ==
  LET New == works + 1 .. works + k
      NewLineages == lineages + 1 .. lineages + k
      own == unit[w].lineage
  IN
  /\ Answered(w)
  /\ IsMain(w)
  /\ ~ForkStop(k)
  /\ works + k <= MaxWork
  /\ \E r \in CheckedOutcomes(w), p \in [New -> Priorities] :
       /\ Added(w, r, New, LineageRef(w, r.ref)[own],
                ForkedUnits(w, k, p))
       /\ lref' = [l \in LineageId |-> IF l \in NewLineages
                                       THEN LineageRef(w, r.ref)[own]
                                       ELSE LineageRef(w, r.ref)[l]]
  /\ works' = works + k /\ lineages' = lineages + k
  /\ lparent' = [l \in LineageId |-> IF l \in NewLineages THEN own ELSE lparent[l]]
  /\ status' = [v \in WorkId |-> IF v = w THEN "BRANCHED"
                                 ELSE IF v \in New THEN "ACTIVE" ELSE status[v]]
  /\ lstatus' = [l \in LineageId |-> IF l \in NewLineages THEN "ACTIVE"
                                     ELSE Synced({w}, "BRANCHED")[l]]

Spawn(w, k) ==
  LET New == works + 1 .. works + k
  IN
  /\ Answered(w)
  /\ works + k <= MaxWork
  /\ \E r \in CheckedOutcomes(w), p \in [New -> Priorities] :
       /\ Added(w, r, New, r.ref, SpawnedUnits(w, k, p))
       /\ lref' = LineageRef(w, r.ref)
  /\ status' = [v \in WorkId |-> IF v = w THEN "WAITING"
                                 ELSE IF v \in New THEN "ACTIVE" ELSE status[v]]
  /\ lstatus' = Synced({w}, "WAITING")
  /\ works' = works + k
  /\ UNCHANGED <<lineages, lparent>>

\* Nothing can be scheduled: workspaces are released (dirty ones and those
\* the release fails on are kept) and the run is finished.
Releasable == {w \in WorkId : Protocol /\ tree[w] = "clean"}
Finish ==
  /\ pc = "loop" /\ batch = {} /\ Ready = {}
  /\ pc' = "done"
  /\ \E released \in SUBSET Releasable :
       tree' = [w \in WorkId |-> IF w \in released THEN "removed" ELSE tree[w]]
  /\ UNCHANGED <<cur, batch, exhausted, steps, invocations>>
  /\ UNCHANGED <<genealogy, ref, lref, attempted, verification>>

Finished == pc = "done" /\ UNCHANGED vars

Next ==
  \/ Begin \/ BeginRefused
  \/ Schedule \/ ScheduleStopped \/ RoundStopped
  \/ \E w \in WorkId :
       \/ Invoke(w) \/ InvokeRefused(w)
       \/ AnswerFails(w) \/ Continue(w) \/ Verify(w) \/ Block(w) \/ Complete(w)
       \/ ForkStopped(w)
       \/ \E k \in 2 .. MaxWork : Fork(w, k)
       \/ \E k \in WorkId : Spawn(w, k)
  \/ Finish \/ Finished

Spec == Init /\ [][Next]_vars

\* The machine runs while it can, and an invocation is answered.
FairSpec == Spec /\ WF_vars(Next)
-----------------------------------------------------------------------------
(* Properties.                                                             *)

\* The ids give a forest: a spawned unit is younger than its parent and in the
\* same lineage, a lineage is younger than its parent and has one main unit.
Forest ==
  /\ \A w \in Created : ~IsMain(w) =>
       unit[w].parent < w /\ unit[w].lineage = unit[unit[w].parent].lineage
  /\ \A l \in 1 .. lineages : lparent[l] < l
  /\ \A v, w \in Created :
       IsMain(v) /\ IsMain(w) /\ unit[v].lineage = unit[w].lineage => v = w

\* Exactly the ids handed out have a status and a place in the forest, and the
\* unit being invoked is an ACTIVE one of the current round: nothing that
\* happens in a round takes a unit out of ACTIVE before its turn comes, a run
\* budget excepted.
Bookkeeping ==
  /\ \A w \in WorkId : status[w] # "ABSENT" <=> w <= works
  /\ \A l \in LineageId : lstatus[l] # "ABSENT" <=> l <= lineages
  /\ \A w \in Created : unit[w].lineage <= lineages
  /\ lineages <= works
  /\ pc = "start" => works = 1 /\ batch = {} /\ status[1] = "ACTIVE"
  /\ pc = "invoke" => cur \in batch
  /\ pc # "invoke" => cur = 0
  /\ ~exhausted => batch \subseteq WithStatus({"ACTIVE"})
  /\ exhausted => pc # "invoke"

\* D007, "The parent pauses while required spawned work is unresolved": work
\* that is not terminal has a WAITING parent, so no unit is ever scheduled,
\* completed or blocked on its own account over the head of a running child.
ParentWaits ==
  \A w \in WithStatus(Open) :
    ~IsMain(w) => status[unit[w].parent] = "WAITING"

\* A lineage's status and artifact are those of its main work unit after every
\* path through the engine, the error paths and the budget stops included.
LineageFollowsMain ==
  \A w \in Created : IsMain(w) =>
    /\ lstatus[unit[w].lineage] = status[w]
    /\ lref[unit[w].lineage] = ref[w]

\* The loop never gives up on a WAITING unit: a run that is done left no work
\* ACTIVE or WAITING, although it stops as soon as nothing can be selected.
NothingLeftBehind == pc = "done" => WithStatus(Open) = {}

\* The budgets of docs/operational-events.md: a step or invocation is refused
\* once its budget is reached, a FORK that does not fit whole is refused, and
\* nothing is invoked while the number of lineages is at its budget.
BudgetsHold ==
  /\ StepLimit # Unlimited => steps <= StepLimit
  /\ InvocationLimit # Unlimited => invocations <= InvocationLimit
  /\ LineageLimit # Unlimited =>
       /\ lineages <= LineageLimit \/ lineages = 1
       /\ pc = "invoke" => lineages < LineageLimit

\* Budget exhaustion stops the whole run: no open work survives it, whichever
\* of the three checkpoints noticed it and whatever part of a round remains.
ExhaustionIsFinal == exhausted => WithStatus(Open) = {}

\* The inductive invariant the theorems rest on.
EngineInv ==
  /\ TypeOK /\ Bookkeeping /\ Forest /\ ParentWaits /\ LineageFollowsMain
  /\ BudgetsHold /\ ExhaustionIsFinal

\* A terminal status is final, and so is the commit a terminal unit reported:
\* parents, forked lineages and replay read them long after the fact.
OutcomesAreFinal ==
  [][\A w \in WorkId : status[w] \in Terminal =>
       status'[w] = status[w] /\ ref'[w] = ref[w]]_vars

\* D007: a WAITING unit becomes ACTIVE again only when all the work it spawned
\* is terminal, and in a step that leaves those outcomes as they are.
ResumedWithOutcomes ==
  [][\A w \in WithStatus({"WAITING"}) : status'[w] = "ACTIVE" =>
       \A c \in Children(w) : status[c] \in Terminal /\ status'[c] = status[c]]_vars

\* The unit a FORK or SPAWN made w out of: its parent, or the main work of its
\* lineage's parent; 0 for the root.
Main(l) == CHOOSE w \in Created : IsMain(w) /\ unit[w].lineage = l
Creator(w) ==
  IF ~IsMain(w) THEN unit[w].parent
  ELSE IF lparent[unit[w].lineage] = 0 THEN 0
  ELSE Main(lparent[unit[w].lineage])

\* A set that has the creator of each of its members.
Lineal(S) == \A u \in S : Creator(u) \in S \cup {0}

\* w and the units it descends from: no lineal set with w leaves one of them out.
Ancestry(w) ==
  {v \in WorkId : \A S \in SUBSET (WorkId \ {v}) : w \in S => ~Lineal(S)}

\* D036, "artifacts, results": the commit a unit works on was made by itself or
\* by a unit it descends from, never by a sibling alternative or by a child.
OwnWorld == \A w \in Created : ref[w][1] \in {0} \cup Ancestry(w)

\* D042: no uncommitted edit is lost or left behind. A workspace is kept until
\* the run is over, edits leave it only by a commit that advances the unit's ref,
\* and FORK and SPAWN "must not silently inherit uncommitted workspace state":
\* new work starts from the creator's commit, the creator's worktree being clean.
EditsAreKept ==
  [][/\ \A w \in WorkId :
          /\ Opened(w) /\ pc' # "done" => Opened(w)'
          /\ tree[w] = "dirty" /\ tree'[w] # "dirty" => ref'[w] # ref[w]
     /\ \A c \in works + 1 .. works' :
          LET w == Creator(c)'
          IN  ref'[c] = ref'[w] /\ tree'[w] # "dirty"]_vars

\* Evidence an invocation is shown reflects every check the unit has had.
EvidenceIsCurrent ==
  \A w \in WorkId : evidence[w] \in {0, checks[w]}

\* With a step budget every run comes to an end.
Terminates == <>(pc = "done")

\* Rounds are fair: work of the highest priority is invoked or leaves ACTIVE
\* however often the other units CONTINUE.
NoStarvation ==
  \A w \in WorkId :
    (/\ status[w] = "ACTIVE"
     /\ \A p \in Priorities : p <= unit[w].priority)
      ~> (cur = w \/ status[w] # "ACTIVE")

\* The engine implements the abstract promise of WorkForest: FORK and SPAWN are
\* the only growth, resume the only way out of WAITING but for a budget stop.
Promise == INSTANCE WorkForest
  WITH Work <- WorkId, Root <- 1, None <- 0,
       parent <- [w \in WorkId |-> unit[w].parent]
ImplementsWorkForest == Promise!Spec
=============================================================================
