---------------------------- MODULE TrustedLocal ----------------------------
(***************************************************************************)
(* The verifier of an experiment that runs on the host                     *)
(* (src/experiments/preparation.ts, trusted-local-authority.ts,            *)
(* trusted-local-verification.ts, src/evaluation/commands.ts): a workspace *)
(* is prepared once (npm ci, module resolution, typecheck, a PostgreSQL    *)
(* container) and its public checks then run in the live workspace, as     *)
(* long as package.json and its lockfile are those of the preparation.     *)
(*                                                                         *)
(* Every command is synchronous, so calls do not overlap; but some run the *)
(* candidate's own code, which may rewrite package.json under the harness, *)
(* and between calls the executor writes what it likes.  A process that    *)
(* such code leaves behind writes nothing here once its command is over.   *)
(***************************************************************************)
EXTENDS Integers, FiniteSets, Sequences, FiniteSetsExt

CONSTANTS
  Workspaces,
  Packages, Covered,    \* package.json contents; those the baseline covers
  CheckCount,           \* public checks of an evaluation
  MaxRecords            \* bound: preparations

TrustedLocalAssumption ==
  /\ Covered \subseteq Packages /\ Covered # {}
  /\ {CheckCount, MaxRecords} \subseteq Nat \ {0}

VARIABLES
  authority,   \* a trusted-local contract is bound
  stage,       \* "idle", where a call stands, "cleanup", "over"
  call,        \* "prepare", "verify", "environment", "none"
  ws,          \* the call's workspace
  rest,        \* checks still to run; records cleanup has visited
  failed,      \* a removal of the cleanup failed
  pkg,         \* package.json of ws; any other may be written until it is asked for
  tools,       \* the tools are the pinned ones
  records,     \* PreparationEvidence, oldest first
  assigned     \* the record a workspace's lease belongs to, 0: none

vars == <<authority, stage, call, ws, rest, failed, pkg, tools, records, assigned>>

StepIds == <<"dependencies", "module-resolution", "typecheck", "postgres",
             "postgres-identity", "database-connectivity", "prerequisites">>
Steps == {StepIds[i] : i \in DOMAIN StepIds}

Init ==
  /\ authority \in BOOLEAN
  /\ stage = "idle" /\ call = "none" /\ rest = 0 /\ failed = FALSE
  /\ ws = CHOOSE w \in Workspaces : TRUE
  /\ pkg = CHOOSE p \in Covered : TRUE
  /\ tools = TRUE /\ records = <<>> /\ assigned = [w \in Workspaces |-> 0]
-----------------------------------------------------------------------------
(* assertCandidate: the pinned tools, and a package.json that differs from *)
(* the baseline's in informational fields only.                            *)

Candidate == authority => tools /\ pkg \in Covered

\* A lease is kept as long as it is for the package.json of now.
Current == records[assigned[ws]].pkg = pkg

\* Mutant of Fits: the package.json is not looked at again.
FitsAny == assigned[ws] # 0

Fits == assigned[ws] # 0 /\ Current

\* A check, or the whole call, is over, in order or with an error: an evaluation
\* goes on with its next check in either case.
Finish ==
  IF rest > 1
  THEN rest' = rest - 1 /\ stage' = (IF authority THEN "ask" ELSE "compare") /\ UNCHANGED call
  ELSE rest' = 0 /\ stage' = "idle" /\ call' = "none"

\* prepare() returns to its caller.
Prepared ==
  CASE call = "prepare" -> Finish
    [] call = "verify"  -> stage' = "snapshot" /\ UNCHANGED <<call, rest>>
    [] OTHER            -> stage' = "compare" /\ UNCHANGED <<call, rest>>

At(place) == stage' = place /\ UNCHANGED <<call, rest>>

\* Saving the records may throw where it is called; the call then fails.
Observed(next) == next \/ Finish

NewRecord ==
  /\ records' = Append(records, [ws |-> ws, pkg |-> pkg, made |-> FALSE,
                                 postgres |-> "none", cleanup |-> "none"])
  /\ Observed(At(StepIds[1]))

Verify(w) ==
  /\ call' = "verify" /\ rest' = 1 /\ stage' = "ask" /\ ws' = w
Evaluate(w) ==
  /\ call' = "environment" /\ rest' = CheckCount /\ ws' = w
  /\ stage' = IF authority THEN "ask" ELSE "compare"
Prepare(w) ==
  /\ call' = "prepare" /\ rest' = 1 /\ stage' = "ask" /\ ws' = w

\* The harness prepares a workspace, answers a VERIFY or evaluates a COMPLETE.
\* Since the last call the executor has worked there, and may have reached the tools.
Call ==
  /\ stage = "idle" /\ Len(records) + 2 <= MaxRecords
  /\ \E w \in Workspaces : Prepare(w) \/ Verify(w) \/ Evaluate(w)
  /\ pkg' \in Packages
  /\ tools' \in {tools, FALSE}
  /\ UNCHANGED <<authority, failed, records, assigned>>
-----------------------------------------------------------------------------
(* prepare.                                                                *)

\* Refused: the candidate, the image or the leased container is not as it must be.
Refuse ==
  /\ stage = "ask" /\ authority
  /\ Finish
  /\ UNCHANGED <<authority, failed, ws, pkg, tools, records, assigned>>

Ask ==
  /\ stage = "ask" /\ Candidate
  /\ \/ /\ assigned[ws] # 0 /\ (authority => records[assigned[ws]].made)
        /\ IF ~authority \/ Current THEN Prepared ELSE At("drift")
        /\ UNCHANGED records
     \/ assigned[ws] = 0 /\ NewRecord
  /\ UNCHANGED <<authority, failed, ws, pkg, tools, assigned>>

\* A covered change of package.json: every container of the workspace is removed
\* before the lease is given up.  A removal that fails leaves the rest, and the
\* assignment, as they are.
Stale == {i \in DOMAIN records : records[i].ws = ws /\ records[i].cleanup = "none"}
Drift ==
  /\ stage = "drift"
  /\ IF Stale = {}
     THEN assigned' = [assigned EXCEPT ![ws] = 0] /\ NewRecord
     ELSE /\ UNCHANGED assigned
          /\ LET i == Min(Stale)
             IN  \/ /\ records' = [records EXCEPT ![i].made = FALSE, ![i].cleanup = "passed"]
                    /\ Observed(At("drift"))
                 \/ /\ \E m \in {records[i].made, FALSE} :
                         records' = [records EXCEPT ![i].made = m]
                    /\ Finish
  /\ UNCHANGED <<authority, failed, ws, pkg, tools>>

\* Steps that run code of the workspace: npm's scripts, and its pg module.
Scripted == {"dependencies", "typecheck", "database-connectivity", "prerequisites"}

\* What that code may do to package.json meanwhile.
Scripts == pkg' \in Packages

Latest == Len(records)
Step(s) ==
  /\ stage = s
  /\ LET i == CHOOSE k \in DOMAIN StepIds : StepIds[k] = s
         next == IF i = Len(StepIds) THEN "assign" ELSE StepIds[i + 1]
     IN  \/ /\ Candidate
            /\ IF s = "postgres"
               THEN records' = [records EXCEPT ![Latest].made = TRUE, ![Latest].postgres = "passed"]
               ELSE UNCHANGED records
            /\ Observed(At(next))
         \/ /\ \E m \in {FALSE, Candidate} :
                 IF s = "postgres"
                 THEN records' = [records EXCEPT ![Latest].made = m, ![Latest].postgres = "failed"]
                 ELSE UNCHANGED records
            /\ Finish
  /\ IF s \in Scripted THEN Scripts ELSE UNCHANGED pkg
  /\ UNCHANGED <<authority, failed, ws, tools, assigned>>

Assign ==
  /\ stage = "assign"
  /\ assigned' = [assigned EXCEPT ![ws] = Latest]
  /\ Observed(Prepared)
  /\ UNCHANGED <<authority, failed, ws, pkg, tools, records>>
-----------------------------------------------------------------------------
(* A verification or an evaluation.                                        *)

\* The workspace is digested; the environment of the check is asked for next,
\* which under an authority prepares once more.
Snapshot ==
  /\ stage = "snapshot"
  /\ \/ /\ call' = "environment" /\ stage' = (IF authority THEN "ask" ELSE "compare")
        /\ UNCHANGED rest
     \/ Finish
  /\ UNCHANGED <<authority, failed, ws, pkg, tools, records, assigned>>

Compare ==
  /\ stage = "compare"
  /\ IF Fits THEN At("check") ELSE Finish
  /\ UNCHANGED <<authority, failed, ws, pkg, tools, records, assigned>>

\* The check's own scripts run in the workspace.
Check ==
  /\ stage = "check"
  /\ Finish
  /\ Scripts
  /\ UNCHANGED <<authority, failed, ws, tools, records, assigned>>
-----------------------------------------------------------------------------
(* cleanup, at the end of the run.                                         *)

\* Mutant of Leased: only a container whose start was answered is removed.
LeasedOnly(r) == r.postgres = "passed" /\ r.cleanup # "passed"

Leased(r) == r.postgres # "none" /\ r.cleanup # "passed"

BeginCleanup ==
  /\ stage = "idle"
  /\ stage' = "cleanup" /\ rest' = 0 /\ failed' = FALSE
  /\ UNCHANGED <<authority, call, ws, pkg, tools, records, assigned>>

\* A removal that fails is remembered and the rest is visited.
Remove(i) ==
  \/ /\ records' = [records EXCEPT ![i].made = FALSE, ![i].cleanup = "passed"]
     /\ UNCHANGED failed
  \/ /\ \E m \in {records[i].made, FALSE} :
          records' = [records EXCEPT ![i].made = m, ![i].cleanup = "failed"]
     /\ failed' = TRUE

\* A save that throws ends it at once.
CleanupRecord ==
  /\ stage = "cleanup" /\ rest < Len(records)
  /\ IF Leased(records[rest + 1])
     THEN \/ Remove(rest + 1) /\ rest' = rest + 1 /\ UNCHANGED stage
          \/ /\ \E m \in {records[rest + 1].made, FALSE}, c \in {"passed", "failed"} :
                  /\ c = "passed" => ~m
                  /\ records' = [records EXCEPT ![rest + 1].made = m, ![rest + 1].cleanup = c]
             /\ failed' = TRUE /\ stage' = "over" /\ UNCHANGED rest
     ELSE rest' = rest + 1 /\ UNCHANGED <<records, stage, failed>>
  /\ UNCHANGED <<authority, call, ws, pkg, tools, assigned>>

EndCleanup ==
  /\ stage = "cleanup" /\ rest = Len(records)
  /\ assigned' = [w \in Workspaces |-> 0]
  /\ stage' = "over"
  /\ UNCHANGED <<authority, call, ws, rest, failed, pkg, tools, records>>

Works == \/ Refuse \/ Ask \/ Drift \/ (\E s \in Steps : Step(s)) \/ Assign
         \/ Snapshot \/ Compare \/ Check \/ CleanupRecord \/ EndCleanup

Next == Call \/ Works \/ BeginCleanup

Spec == Init /\ [][Next]_vars

\* Each call is synchronous; its commands answer or time out.
FairSpec == Spec /\ WF_vars(Works)
-----------------------------------------------------------------------------
(* Properties.                                                             *)

TypeOK ==
  /\ stage \in Steps \cup {"idle", "ask", "drift", "assign", "snapshot", "compare", "check",
                        "cleanup", "over"}
  /\ ws \in Workspaces /\ rest \in Nat /\ failed \in BOOLEAN
  /\ pkg \in Packages
  /\ assigned \in [Workspaces -> 0 .. Len(records)]
  /\ Len(records) <= MaxRecords

\* When cleanup returned without an error no container of any preparation is
\* left, also of one whose start was never answered or whose lease was given up
\* half-way because a removal failed.
NoLeaseIsLeft ==
  stage = "over" /\ ~failed => \A i \in DOMAIN records : ~records[i].made

\* A check only runs on the package.json its workspace was prepared with, against
\* the container of that preparation, and under an authority with pinned tools
\* and a covered package; whatever scripts or executors wrote in between.
CheckedUnderLease ==
  stage = "check" =>
    /\ assigned[ws] # 0
    /\ LET r == records[assigned[ws]]
       IN  r.ws = ws /\ r.pkg = pkg /\ r.made /\ r.cleanup = "none"
    /\ authority => tools /\ pkg \in Covered

\* Every call returns to the harness.
Returns == (stage \notin {"idle", "over"}) ~> (stage \in {"idle", "over"})
=============================================================================
