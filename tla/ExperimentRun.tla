---------------------------- MODULE ExperimentRun ----------------------------
(***************************************************************************)
(* One experiment (src/experiments): the driver of LineageEngine that      *)
(* answers its artifact effects with an object database per work unit and  *)
(* an audit archive (artifacts.ts, inputs.ts), its invocations with a      *)
(* process behind a human gate (run.ts), writes the evidence of the run,   *)
(* and the two commands that read it afterwards: replay and the post-run   *)
(* evaluation (evaluation.ts).                                             *)
(*                                                                         *)
(* A step of the engine is conjoined with what its driver does in it.  The *)
(* solver and the git commands answer nondeterministically, and the        *)
(* harness may be killed at any time, which is to take no further step:    *)
(* the specification has no fairness.                                      *)
(***************************************************************************)
EXTENDS LineageEngine, Sequences

CONSTANTS
  Conditions,   \* conditions an experiment may be run under
  Hooks,        \* processes that invoke the post-run evaluation command
  NoHook

ASSUME ExperimentAssumption ==
  /\ Conditions \subseteq {"H", "S", "T"}
  /\ NoHook \notin Hooks

VARIABLES
  condition,
  phase,      \* "setup", "running", "saving", "closing", "concluded",
              \* "finished"
  stage,      \* where execute() is for cur: "idle", "called", "started"
  gate,       \* humanGate
  started,    \* the "started" records of invocations.jsonl
  operations, \* work units of the EXECUTOR_OPERATION events, in order
  archive,    \* commits in the audit archive
  world,      \* world[w]: commits in the object database of w
  history,    \* history[r]: the commits reachable from r
  error,      \* the run reports an error
  saved,      \* state.json was written
  exported,   \* work units whose diff was written
  copies,     \* those whose workspace was copied to pending-workspaces
  result,     \* executorInvocations in result.json, -1 before it is written
  marker,     \* the file "running"
  hook,       \* hook[h]: "idle", "evaluating"
  report      \* the hook whose report is in post-evaluation.json

records == <<started, operations>>
objects == <<archive, world, history>>
ending == <<error, saved, exported, copies, result, marker>>
evaluation == <<hook, report>>
engine == <<control, genealogy, artifacts, verification>>
run == <<condition, phase, stage, gate, records, objects, ending, evaluation>>

ExperimentType ==
  /\ condition \in Conditions
  /\ phase \in {"setup", "running", "saving", "closing", "concluded", "finished"}
  /\ stage \in {"idle", "called", "started"}
  /\ gate \in BOOLEAN
  /\ started \in Seq([index : Nat, work : WorkId])
  /\ operations \in Seq(WorkId)
  /\ archive \subseteq Refs
  /\ world \in [WorkId -> SUBSET Refs]
  /\ history \in [Refs -> SUBSET Refs]
  /\ error \in BOOLEAN /\ saved \in BOOLEAN
  /\ exported \subseteq WorkId /\ copies \subseteq WorkId
  /\ result \in Nat \cup {-1}
  /\ marker \in BOOLEAN
  /\ hook \in [Hooks -> {"idle", "evaluating"}]
  /\ report \in Hooks \cup {NoHook}

\* An experiment gives its engine an executor and an artifact backend.
ExperimentInit ==
  /\ Protocol /\ Backend
  /\ Init
  /\ condition \in Conditions
  /\ phase = "setup" /\ stage = "idle" /\ gate = FALSE
  /\ started = <<>> /\ operations = <<>>
  /\ archive = {}
  /\ world = [w \in WorkId |-> {}]
  /\ history = [r \in Refs |-> IF r = RootRef THEN {r} ELSE {}]
  /\ error = FALSE /\ saved = FALSE
  /\ exported = {} /\ copies = {}
  /\ result = -1 /\ marker = TRUE
  /\ hook = [h \in Hooks |-> "idle"] /\ report = NoHook
-----------------------------------------------------------------------------
(* Objects.                                                                *)

\* Mutant of Loaded: an assignment is a clone of the archive.
LoadedWhole(w) == [world EXCEPT ![w] = @ \cup archive]

\* OPEN: a fresh database with the closure of the assigned base.
Loaded(w) == [world EXCEPT ![w] = @ \cup history[ref[w]]]

\* Commits the context offers the next invocation of w: those of its spawned work.
Results(w) == {ref[c] : c \in {c \in Children(w) : Opened(c)}}
Received(w, refs) == [world EXCEPT ![w] = @ \cup UNION {history[r] : r \in refs}]

\* Mutant of Audited: a commit is exported when its workspace is released.
AuditedAtRelease(r) == archive

Audited(r) == archive \cup history'[r]

\* COMMIT makes a commit on top of the unit's ref, or of everything its database
\* has when the solver merged it, and exports it; the export may fail.
Committed(w, ok) ==
  IF ref'[w] = ref[w] THEN UNCHANGED objects
  ELSE /\ \E base \in {history[ref[w]], world[w]} :
            history' = [history EXCEPT ![ref'[w]] = base \cup {ref'[w]}]
       /\ world' = [world EXCEPT ![w] = @ \cup {ref'[w]}]
       /\ archive' = IF ok THEN Audited(ref'[w]) ELSE archive
-----------------------------------------------------------------------------
(* The run.                                                                *)

Running == phase = "running"

\* prepareSource: the archive gets the source commit.
Prepare ==
  /\ phase = "setup"
  /\ \/ phase' = "running" /\ archive' = {RootRef} /\ UNCHANGED error
     \/ phase' = "closing" /\ error' = TRUE /\ UNCHANGED archive
  /\ UNCHANGED <<condition, stage, gate, records, world, history>>
  /\ UNCHANGED <<saved, exported, copies, result, marker, evaluation, engine>>

\* The engine between two answers.
Schedules ==
  /\ Running
  /\ Begin \/ BeginRefused \/ Schedule \/ ScheduleStopped \/ RoundStopped
  /\ UNCHANGED run

\* The engine's executor is called; a first call opened the workspace.
Call(w) ==
  /\ Running /\ stage = "idle"
  /\ Invoke(w)
  /\ IF NeedsWorkspace(w) THEN ref[w] \in archive /\ world' = Loaded(w)
                          ELSE UNCHANGED world
  /\ stage' = "called"
  /\ UNCHANGED <<condition, phase, gate, records, archive, history, ending, evaluation>>

OpenFails(w) ==
  /\ Running
  /\ InvokeRefused(w)
  /\ \/ UNCHANGED world
     \/ ref[w] \in archive /\ world' = Loaded(w)
  /\ UNCHANGED <<condition, phase, stage, gate, records, archive, history, ending, evaluation>>

\* The engine records the outcome of an invocation.
Recorded(w) ==
  /\ operations' = Append(operations, w)
  /\ stage' = "idle"
  /\ UNCHANGED <<condition, phase, ending, evaluation>>

\* Mutant of Closed: the gate is not looked at.
ClosedNever == FALSE

Closed == gate

Log(w) == Append(started, [index |-> Len(started) + 1, work |-> w])

\* execute() up to the solver: spawned results are handed over, the workspace is
\* prepared, and the record "started" is appended.
Start(w) ==
  /\ Running /\ stage = "called" /\ cur = w
  /\ ~Closed
  /\ Results(w) \subseteq archive
  /\ world' = Received(w, Results(w))
  /\ started' = Log(w)
  /\ stage' = "started"
  /\ UNCHANGED <<condition, phase, gate, operations, archive, history, ending, evaluation, engine>>

\* execute() throws before that: at the gate, at a transfer, or in preparation.
StartFails(w) ==
  /\ Running /\ stage = "called" /\ cur = w
  /\ \/ Closed /\ UNCHANGED world
     \/ ~Closed /\ \E got \in SUBSET (Results(w) \cap archive) : world' = Received(w, got)
  /\ AnswerFails(w) /\ ref' = ref /\ tree' = tree
  /\ Recorded(w)
  /\ UNCHANGED <<gate, started, archive, history>>

\* The solver fails, or its response is refused (FORK outside T).
SolverFails(w) ==
  /\ Running /\ stage = "started"
  /\ AnswerFails(w) /\ ref' = ref
  /\ Recorded(w)
  /\ UNCHANGED <<gate, started, objects>>

\* A BLOCK that requires a human decision closes the gate in H, whatever
\* becomes of the response's effects.
Gates == gate' = gate \/ (condition = "H" /\ gate' = TRUE)

Blocks(w) ==
  /\ Running /\ stage = "started"
  /\ Gates
  /\ \/ Block(w) /\ Committed(w, TRUE)
     \/ AnswerFails(w) /\ \E ok \in BOOLEAN : Committed(w, ok)
  /\ Recorded(w) /\ UNCHANGED started

Returns(w) ==
  /\ Running /\ stage = "started"
  /\ \/ Continue(w) \/ Verify(w) \/ Complete(w)
     \/ \E k \in WorkId : Spawn(w, k)
     \/ condition = "T" /\ (ForkStopped(w) \/ \E k \in 2 .. MaxWork : Fork(w, k))
  /\ Committed(w, TRUE)
  /\ Recorded(w) /\ UNCHANGED <<gate, started>>

\* RELEASE of every workspace exports its ref once more, unless that fails.
Release ==
  /\ Running
  /\ Finish
  /\ \E kept \in SUBSET {w \in WorkId : Opened(w)} :
       archive' = archive \cup UNION {history[ref[w]] : w \in kept}
  /\ phase' = "saving"
  /\ UNCHANGED <<condition, stage, gate, records, world, history, ending, evaluation>>
-----------------------------------------------------------------------------
(* The end of the run.                                                     *)

\* Mutant of Exportable: a missing commit leaves an empty diff.
ExportableAll(n) == TRUE

\* The diff of a work unit needs its commit in the archive.
Exportable(n) == \A w \in 1 .. n : ref[w] \in archive

Exported(n) == 1 .. n

\* The state is saved, and one work unit after the other is exported; the first
\* failure ends it.
SaveEvidence ==
  /\ phase = "saving"
  /\ \E n \in 0 .. works :
       /\ Exportable(n)
       /\ saved' \in {TRUE, n > 0}
       /\ exported' = Exported(n)
       /\ copies' = {w \in 1 .. n : Opened(w)}
       /\ error' = (n < works)
  /\ phase' = "closing"
  /\ UNCHANGED <<condition, stage, gate, records, objects, result, marker, evaluation, engine>>

\* The preparation is cleaned up and result.json is written.
Conclude ==
  /\ phase = "closing"
  /\ error' \in {error, TRUE}
  /\ result' = Len(started)
  /\ phase' = "concluded"
  /\ UNCHANGED <<condition, stage, gate, records, objects, saved, exported, copies, marker,
                 evaluation, engine>>

RemoveMarker ==
  /\ phase = "concluded"
  /\ marker' = FALSE /\ phase' = "finished"
  /\ UNCHANGED <<condition, stage, gate, records, objects, error, saved, exported, copies,
                 result, evaluation, engine>>

-----------------------------------------------------------------------------
(* After the run.                                                          *)

\* Mutant of Evaluable: result.json is enough.
EvaluableWithResult == result # -1 /\ report = NoHook

Evaluable == ~marker /\ result # -1 /\ report = NoHook

Evaluate(h) ==
  /\ hook[h] = "idle"
  /\ Evaluable
  /\ hook' = [hook EXCEPT ![h] = "evaluating"]
  /\ UNCHANGED <<condition, phase, stage, gate, records, objects, ending, report, engine>>

\* The report is created exclusively, if at all.
EvaluationEnds(h) ==
  /\ hook[h] = "evaluating"
  /\ report' \in {report, IF report = NoHook THEN h ELSE report}
  /\ hook' = [hook EXCEPT ![h] = "idle"]
  /\ UNCHANGED <<condition, phase, stage, gate, records, objects, ending, engine>>

\* Mutant of Fits: the work units are not compared.
FitsAny(rows, i) == rows[i].index = i

Fits(rows, i) == rows[i].index = i /\ rows[i].work = operations[i]

\* replayExperiment: the evidence of invocations against the recorded operations
\* and the reported count.
Accepts(rows) ==
  /\ saved
  /\ Len(rows) = Len(operations)
  /\ \A i \in DOMAIN rows : Fits(rows, i)
  /\ result = Len(rows)

Rest == phase = "finished" /\ UNCHANGED <<run, engine>>

ExperimentNext ==
  \/ Prepare \/ Schedules
  \/ \E w \in WorkId :
       \/ Call(w) \/ OpenFails(w) \/ Start(w) \/ StartFails(w)
       \/ SolverFails(w) \/ Blocks(w) \/ Returns(w)
  \/ Release \/ SaveEvidence \/ Conclude \/ RemoveMarker
  \/ \E h \in Hooks : Evaluate(h) \/ EvaluationEnds(h)
  \/ Rest

ExperimentSpec == ExperimentInit /\ [][ExperimentNext]_<<run, engine>>
-----------------------------------------------------------------------------
(* Properties.                                                             *)

\* Experiments README, "Input and Git isolation": what a unit's commit is built
\* from can be fetched when work starts from it.  Only a unit whose own export
\* failed has a commit the archive lacks, and it is blocked.
ArchiveHoldsWork ==
  archive # {} =>
    \A w \in Created : ref[w] \in archive \/ (status[w] = "BLOCKED" /\ ref[w][1] = w)

\* Same section, "sibling objects are never imported into each other's
\* databases": a database has commits of the unit, of its ancestors, and of
\* units that are resolved and belong to its own or an ancestor's lineage.
Lines(w) == {unit[v].lineage : v \in Ancestry(w)}
WorldsAreSeparate ==
  \A w \in Created :
    \A r \in world[w] :
      \/ r = RootRef
      \/ r[1] = w
      \/ r[1] \in Ancestry(w)
      \/ status[r[1]] \in Terminal /\ unit[r[1]].lineage \in Lines(w)

\* "stops further solver invocations in the run": once closed, the gate holds
\* for siblings, for resumed parents, and for rounds that were under way.
GateHolds == [][gate => started' = started /\ gate']_<<run, engine>>

\* A run that reports no error left the diff of every unit in its directory,
\* from archived commits, and a copy of every workspace that was not removed.
EvidenceIsComplete ==
  phase = "finished" /\ saved /\ ~error =>
    \A w \in Created :
      /\ w \in exported /\ ref[w] \in archive
      /\ Opened(w) => w \in copies

\* Edits of an accepted file of records: one dropped, added, or given to
\* another unit, two exchanged.
Dropped(rows, d) == [i \in 1 .. Len(rows) - 1 |-> rows[IF i < d THEN i ELSE i + 1]]
Forged(rows, w) == Append(rows, [index |-> Len(rows) + 1, work |-> w])
Given(rows, i, w) == [rows EXCEPT ![i].work = w]
Exchanged(rows, i, j) == [rows EXCEPT ![i] = rows[j], ![j] = rows[i]]
NoEditAccepted(rows) ==
  /\ \A d \in DOMAIN rows : ~Accepts(Dropped(rows, d))
  /\ \A w \in Created :
       /\ ~Accepts(Forged(rows, w))
       /\ \A i \in DOMAIN rows : rows[i].work # w => ~Accepts(Given(rows, i, w))
  /\ \A i, j \in DOMAIN rows : i < j => ~Accepts(Exchanged(rows, i, j))

\* Replay accepts a finished run exactly when every recorded operation had got
\* as far as its "started" record, and no edit of its evidence.
ReplayVerdict ==
  phase = "finished" /\ saved =>
    /\ Accepts(started) <=> Len(started) = Len(operations)
    /\ Accepts(started) => NoEditAccepted(started)

\* A run is evaluated only when it is over, and one report stays.
EvaluatedWhenOver ==
  [][\A h \in Hooks :
       /\ hook[h] # "idle" => phase = "finished" /\ UNCHANGED <<records, objects, ending>>
       /\ report = h => report' = h]_<<run, engine>>

\* "consistency between the incremental file and recorded operations": the
\* evidence of a run that finished is accepted by replay.
FinishedRunReplays == phase = "finished" /\ saved => Accepts(started)
=============================================================================
