------------------------- MODULE ExperimentRun_proofs -------------------------
(***************************************************************************)
(* Theorems about the engine and about the experiment that drives it: the  *)
(* engine's inductive invariant and what follows from it (LineageEngine),  *)
(* that it implements WorkForest under the mapping of Promise, and, with   *)
(* the engine's lemmas, the evidence and the objects of an experiment      *)
(* (ExperimentRun).                                                        *)
(***************************************************************************)
EXTENDS ExperimentRun, FiniteSetTheorems, SequenceTheorems, WellFoundedInduction,
        NaturalsInduction, TLAPS

LEMMA ConstantTypes ==
  /\ MaxWork \in Nat /\ MaxWork >= 1
  /\ MaxCommits \in Nat /\ MaxChecks \in Nat
  /\ 0 \in Priorities
  /\ 1 \in WorkId /\ 1 \in LineageId
  /\ RootRef \in Refs
BY EngineAssumption DEF WorkId, LineageId, RootRef, Refs

-----------------------------------------------------------------------------
(* The operators the actions are built from.                               *)

LEMMA MovedType ==
  ASSUME TypeOK, NEW S, NEW st \in Status, Moved(S, st)
  PROVE  /\ status' \in [WorkId -> Status]
         /\ lstatus' \in [LineageId -> Status]
BY DEF TypeOK, Moved, Synced

LEMMA ToBackType ==
  ASSUME TypeOK, NEW R \in SUBSET WorkId, NEW known \in SUBSET WorkId
  PROVE  ToBack(R, known) \in [WorkId -> SUBSET WorkId]
BY DEF TypeOK, ToBack

LEMMA TickType ==
  ASSUME NEW limit, NEW count \in Nat
  PROVE  Tick(limit, count) \in Nat
BY DEF Tick

LEMMA AdvanceType ==
  ASSUME TypeOK, NEW w \in WorkId, NEW t, Committable(w, t)
  PROVE  Advance(w, t) \in Refs
<1>1. ref[w] \in Refs
  BY DEF TypeOK
<1>2. CASE t # "dirty"
  BY <1>1, <1>2 DEF Advance
<1>3. CASE t = "dirty" /\ ref[w][1] = w
  <2>1. Advance(w, t) = <<w, ref[w][2] + 1>>
    BY <1>3 DEF Advance
  <2>2. ref[w][2] + 1 \in 0 .. MaxCommits
    BY <1>1, <1>3, <2>1, ConstantTypes DEF Committable, Refs
  <2>3. QED
    BY <2>1, <2>2, ConstantTypes DEF Refs, WorkId
<1>4. CASE t = "dirty" /\ ref[w][1] # w
  <2>1. Advance(w, t) = <<w, 1>>
    BY <1>4 DEF Advance
  <2>2. 1 \in 0 .. MaxCommits
    BY <1>4, <2>1, ConstantTypes DEF Committable
  <2>3. QED
    BY <2>1, <2>2, ConstantTypes DEF Refs, WorkId
<1>5. QED
  BY <1>2, <1>3, <1>4

TreeState == {"none", "clean", "dirty", "removed"}

LEMMA OutcomeType ==
  ASSUME TypeOK, NEW w \in WorkId, NEW r \in CommitOutcomes(w)
  PROVE  r.tree \in TreeState /\ r.ref \in Refs /\ r.ok \in BOOLEAN
<1>1. \A t \in Edited(w) : t \in TreeState
  BY DEF Edited, TypeOK, TreeState
<1>2. \A q \in Unchanged(w) : q.tree \in TreeState /\ q.ref \in Refs /\ q.ok = TRUE
  BY <1>1 DEF Unchanged, TypeOK
<1>3. \A q \in Performed(w) : q.tree \in TreeState /\ q.ref \in Refs /\ q.ok = TRUE
  BY <1>1, AdvanceType DEF Performed, TreeState
<1>4. \A q \in Refused(w) : q.tree \in TreeState /\ q.ref \in Refs /\ q.ok = FALSE
  BY <1>2, <1>3 DEF Refused
<1>5. QED
  BY <1>2, <1>3, <1>4 DEF CommitOutcomes

LEMMA SettledType ==
  ASSUME TypeOK, NEW w \in WorkId, NEW r \in CommitOutcomes(w), Settled(w, r)
  PROVE  /\ tree' \in [WorkId -> TreeState]
         /\ ref' \in [WorkId -> Refs]
         /\ lref' \in [LineageId -> Refs]
         /\ attempted' \subseteq WorkId
BY OutcomeType DEF TypeOK, Settled, LineageRef, TreeState

LEMMA DeliveredType ==
  ASSUME TypeOK, NEW w \in WorkId, NEW n \in 0 .. MaxChecks
  PROVE  Delivered(w, n) \in [WorkId -> 0 .. MaxChecks]
BY ConstantTypes DEF TypeOK, Delivered
-----------------------------------------------------------------------------
(* Type correctness.                                                       *)

LEMMA InitType == Init => TypeOK
<1> SUFFICES ASSUME Init PROVE TypeOK
  OBVIOUS
<1>1. /\ status \in [WorkId -> Status] /\ lstatus \in [LineageId -> Status]
  BY DEF Init, Status, Open, Terminal
<1>2. unit \in [WorkId -> [parent : 0 .. MaxWork, lineage : LineageId,
                           priority : Priorities]]
  BY ConstantTypes DEF Init
<1>3. /\ ref \in [WorkId -> Refs] /\ lref \in [LineageId -> Refs]
      /\ checks \in [WorkId -> 0 .. MaxChecks]
      /\ evidence \in [WorkId -> 0 .. MaxChecks]
      /\ lparent \in [LineageId -> 0 .. MaxWork]
  BY ConstantTypes DEF Init
<1>4. QED
  BY <1>1, <1>2, <1>3, ConstantTypes DEF Init, TypeOK

LEMMA ExhaustType ==
  ASSUME TypeOK, Exhaust
  PROVE  /\ exhausted' \in BOOLEAN
         /\ status' \in [WorkId -> Status]
         /\ lstatus' \in [LineageId -> Status]
BY MovedType DEF Exhaust, Status, Terminal

\* FORK and SPAWN: the state addWork and addLineage leave is well typed.
LEMMA AddedType ==
  ASSUME TypeOK, NEW w \in WorkId, NEW k \in WorkId, works + k <= MaxWork,
         NEW r \in CommitOutcomes(w), NEW inherited \in Refs,
         NEW newUnit \in [works + 1 .. works + k ->
                            [parent : 0 .. MaxWork, lineage : LineageId, priority : Priorities]],
         Added(w, r, works + 1 .. works + k, inherited, newUnit)
  PROVE  /\ unit' \in [WorkId -> [parent : 0 .. MaxWork, lineage : LineageId,
                                   priority : Priorities]]
         /\ ahead' \in [WorkId -> SUBSET WorkId]
         /\ tree' \in [WorkId -> TreeState]
         /\ ref' \in [WorkId -> Refs]
         /\ evidence' \in [WorkId -> 0 .. MaxChecks]
         /\ exhausted' = exhausted /\ attempted' = attempted /\ checks' = checks
<1>1. works + 1 .. works + k \subseteq WorkId
  BY ConstantTypes DEF TypeOK, WorkId
<1>2. ahead' \in [WorkId -> SUBSET WorkId]
  BY <1>1, ToBackType DEF Added, Created
<1>3. r.tree \in TreeState /\ r.ref \in Refs
  BY OutcomeType
<1>4. evidence' \in [WorkId -> 0 .. MaxChecks]
  BY DeliveredType DEF Added, TypeOK
<1>5. unit' \in [WorkId -> [parent : 0 .. MaxWork, lineage : LineageId,
                            priority : Priorities]]
  BY <1>1 DEF Added, TypeOK
<1>6. ref' \in [WorkId -> Refs] /\ tree' \in [WorkId -> TreeState]
  BY <1>3 DEF Added, TypeOK, TreeState
<1>7. QED
  BY <1>2, <1>4, <1>5, <1>6 DEF Added

LEMMA TypeStep ==
  ASSUME TypeOK, lineages <= works, [Next]_vars
  PROVE  TypeOK'
<1> USE DEF TreeState, control, genealogy, artifacts, verification
<1>a. /\ {"ACTIVE", "BLOCKED", "COMPLETED", "WAITING", "BRANCHED"} \subseteq Status
      /\ Created \in SUBSET WorkId /\ Resumable \in SUBSET WorkId
  BY DEF Status, Open, Terminal, Created, Resumable, WithStatus
<1>1. CASE Begin
  BY <1>1 DEF Begin, TypeOK
<1>2. CASE BeginRefused
  BY <1>2, <1>a, MovedType DEF BeginRefused, TypeOK
<1>3. CASE Schedule
  <2>1. ToBack(Resumable, Created) \in [WorkId -> SUBSET WorkId]
    BY <1>a, ToBackType
  <2>2. status' \in [WorkId -> Status] /\ lstatus' \in [LineageId -> Status]
    BY <1>3, <1>a, MovedType DEF Schedule
  <2>3. batch' \subseteq WorkId
    BY <1>3, <1>a DEF Schedule, Selected, Ready, WithStatus
  <2>4. QED
    BY <1>3, <2>1, <2>2, <2>3 DEF Schedule, TypeOK
<1>4. CASE ScheduleStopped
  <2>1. ToBack(Resumable, Created) \in [WorkId -> SUBSET WorkId]
    BY <1>a, ToBackType
  <2>2. QED
    BY <1>4, <2>1, ExhaustType DEF ScheduleStopped, TypeOK
<1>5. CASE RoundStopped
  BY <1>5, ExhaustType DEF RoundStopped, TypeOK
<1>6. ASSUME NEW w \in WorkId, NEW ok \in BOOLEAN, OpenOutcome(w, ok)
      PROVE  /\ tree' \in [WorkId -> TreeState]
             /\ ref' \in [WorkId -> Refs] /\ lref' \in [LineageId -> Refs]
             /\ attempted' \subseteq WorkId
  <2>1. CASE ~NeedsWorkspace(w)
    BY <1>6, <2>1 DEF OpenOutcome, TypeOK
  <2>2. CASE NeedsWorkspace(w) /\ Protocol
    BY <1>6, <2>2 DEF OpenOutcome, TypeOK
  <2>3. CASE NeedsWorkspace(w) /\ ~Protocol
    <3>1. PICK r \in Executed(w) : /\ tree' = [tree EXCEPT ![w] = r.tree]
                                   /\ ref' = [ref EXCEPT ![w] = r.ref]
                                   /\ lref' = LineageRef(w, r.ref)
      BY <1>6, <2>3 DEF OpenOutcome
    <3>2. r.tree \in TreeState
      BY DEF Executed
    <3>3. r.ref \in Refs
      BY AdvanceType DEF Executed, Committable, TypeOK
    <3>4. QED
      BY <1>6, <2>3, <3>1, <3>2, <3>3 DEF OpenOutcome, TypeOK, LineageRef
  <2>4. QED
    BY <2>1, <2>2, <2>3
<1>7. ASSUME NEW w \in WorkId, Invoke(w)
      PROVE  TypeOK'
  <2>1. steps' \in Nat /\ invocations' \in Nat
    BY <1>7, TickType DEF Invoke, Step, TypeOK
  <2>2. QED
    <3>1. /\ tree' \in [WorkId -> TreeState] /\ attempted' \subseteq WorkId
          /\ ref' \in [WorkId -> Refs] /\ lref' \in [LineageId -> Refs]
      BY <1>6, <1>7 DEF Invoke
    <3>2. w \in 0 .. MaxWork
      BY ConstantTypes DEF WorkId
    <3>3. QED
      BY <1>7, <2>1, <3>1, <3>2 DEF Invoke, TypeOK
<1>8. ASSUME NEW w \in WorkId, InvokeRefused(w)
      PROVE  TypeOK'
  <2>1. steps' \in Nat
    BY <1>8, TickType DEF InvokeRefused, Step, TypeOK
  <2>2. status' \in [WorkId -> Status] /\ lstatus' \in [LineageId -> Status]
    BY <1>8, <1>a, MovedType DEF InvokeRefused
  <2>3. QED
    BY <1>6, <1>8, <2>1, <2>2 DEF InvokeRefused, TypeOK
<1>9. ASSUME NEW w \in WorkId, NEW r \in CommitOutcomes(w), Settled(w, r), Answered(w),
             Grown, exhausted' \in BOOLEAN,
             ahead' \in [WorkId -> SUBSET WorkId],
             status' \in [WorkId -> Status], lstatus' \in [LineageId -> Status],
             checks' \in [WorkId -> 0 .. MaxChecks],
             evidence' \in [WorkId -> 0 .. MaxChecks]
      PROVE  TypeOK'
  <2>1. /\ tree' \in [WorkId -> TreeState] /\ attempted' \subseteq WorkId
        /\ ref' \in [WorkId -> Refs] /\ lref' \in [LineageId -> Refs]
    BY <1>9, SettledType
  <2>2. /\ pc' = "loop" /\ cur' = 0 /\ batch' \subseteq WorkId
        /\ steps' = steps /\ invocations' = invocations
    BY <1>9 DEF Answered, TypeOK
  <2>3. QED
    BY <1>9, <2>1, <2>2, ConstantTypes DEF TypeOK, Grown
<1>10. ASSUME NEW w \in WorkId, AnswerFails(w) PROVE TypeOK'
  <2>1. status' \in [WorkId -> Status] /\ lstatus' \in [LineageId -> Status]
    BY <1>10, <1>a, MovedType DEF AnswerFails
  <2>2. QED
    BY <1>9, <1>10, <2>1 DEF AnswerFails, TypeOK
<1>11. ASSUME NEW w \in WorkId, Continue(w) PROVE TypeOK'
  <2>1. evidence' \in [WorkId -> 0 .. MaxChecks]
    BY <1>11, DeliveredType DEF Continue, TypeOK
  <2>2. ahead' \in [WorkId -> SUBSET WorkId]
    BY <1>11, <1>a, ToBackType DEF Continue
  <2>3. QED
    BY <1>9, <1>11, <2>1, <2>2 DEF Continue, TypeOK
<1>12. ASSUME NEW w \in WorkId, Verify(w) PROVE TypeOK'
  <2>1. checks[w] + 1 \in 0 .. MaxChecks
    BY <1>12, ConstantTypes DEF Verify, TypeOK
  <2>2. evidence' \in [WorkId -> 0 .. MaxChecks]
    BY <1>12, <2>1, DeliveredType DEF Verify
  <2>3. checks' \in [WorkId -> 0 .. MaxChecks]
    BY <1>12, <2>1 DEF Verify, TypeOK
  <2>4. ahead' \in [WorkId -> SUBSET WorkId]
    BY <1>12, <1>a, ToBackType DEF Verify
  <2>5. QED
    BY <1>9, <1>12, <2>2, <2>3, <2>4 DEF Verify, TypeOK
<1>13. ASSUME NEW w \in WorkId, Block(w) PROVE TypeOK'
  <2>1. status' \in [WorkId -> Status] /\ lstatus' \in [LineageId -> Status]
    BY <1>13, <1>a, MovedType DEF Block
  <2>2. evidence' \in [WorkId -> 0 .. MaxChecks]
    BY <1>13, DeliveredType DEF Block, TypeOK
  <2>3. QED
    BY <1>9, <1>13, <2>1, <2>2 DEF Block, TypeOK
<1>14. ASSUME NEW w \in WorkId, Complete(w) PROVE TypeOK'
  <2>1. status' \in [WorkId -> Status] /\ lstatus' \in [LineageId -> Status]
    BY <1>14, <1>a, MovedType DEF Complete
  <2>2. evidence' \in [WorkId -> 0 .. MaxChecks]
    BY <1>14, DeliveredType DEF Complete, TypeOK
  <2>3. QED
    BY <1>9, <1>14, <2>1, <2>2 DEF Complete, TypeOK, CheckedOutcomes
<1>15. ASSUME NEW w \in WorkId, ForkStopped(w) PROVE TypeOK'
  <2>1. tree' \in [WorkId -> TreeState]
    BY <1>15 DEF ForkStopped, Edited, TypeOK
  <2>2. /\ exhausted' \in BOOLEAN
        /\ status' \in [WorkId -> Status] /\ lstatus' \in [LineageId -> Status]
    BY <1>15, ExhaustType DEF ForkStopped
  <2>3. /\ pc' = "loop" /\ cur' = 0 /\ batch' \subseteq WorkId
        /\ steps' = steps /\ invocations' = invocations
    BY <1>15 DEF ForkStopped, Answered, TypeOK
  <2>4. QED
    BY <1>15, <2>1, <2>2, <2>3, ConstantTypes DEF ForkStopped, Grown, TypeOK
<1>16. ASSUME NEW w \in WorkId, NEW k \in 2 .. MaxWork, Fork(w, k) PROVE TypeOK'
  <2> DEFINE New == works + 1 .. works + k
  <2>1. PICK r \in CheckedOutcomes(w), p \in [New -> Priorities] :
          /\ Added(w, r, New, LineageRef(w, r.ref)[unit[w].lineage], ForkedUnits(w, k, p))
          /\ lref' = [l \in LineageId |-> IF l \in lineages + 1 .. lineages + k
                                          THEN LineageRef(w, r.ref)[unit[w].lineage]
                                          ELSE LineageRef(w, r.ref)[l]]
    BY <1>16 DEF Fork
  <2>2. r \in CommitOutcomes(w) /\ r.ref \in Refs
    BY OutcomeType DEF CheckedOutcomes
  <2>3. LineageRef(w, r.ref) \in [LineageId -> Refs] /\ unit[w].lineage \in LineageId
    BY <2>2 DEF LineageRef, TypeOK
  <2>4. works + k <= MaxWork /\ k \in WorkId /\ works \in Nat /\ lineages \in Nat
    BY <1>16, ConstantTypes DEF Fork, WorkId, LineageId, TypeOK
  <2>5. ForkedUnits(w, k, p) \in
          [New -> [parent : 0 .. MaxWork, lineage : LineageId, priority : Priorities]]
    BY <2>4, ConstantTypes DEF ForkedUnits, LineageId
  <2>6. /\ unit' \in [WorkId -> [parent : 0 .. MaxWork, lineage : LineageId,
                                 priority : Priorities]]
        /\ ahead' \in [WorkId -> SUBSET WorkId]
        /\ tree' \in [WorkId -> TreeState]
        /\ ref' \in [WorkId -> Refs]
        /\ evidence' \in [WorkId -> 0 .. MaxChecks]
        /\ exhausted' \in BOOLEAN /\ attempted' \subseteq WorkId
        /\ checks' \in [WorkId -> 0 .. MaxChecks]
    BY <2>1, <2>2, <2>3, <2>4, <2>5, AddedType DEF TypeOK
  <2>7. lref' \in [LineageId -> Refs]
    BY <2>1, <2>3
  <2>8. /\ works' \in WorkId /\ lineages' \in LineageId
        /\ lparent' \in [LineageId -> 0 .. MaxWork]
    <3>1. works + k \in WorkId /\ lineages + k \in LineageId
      BY <2>4, ConstantTypes DEF WorkId, LineageId
    <3>2. unit[w].lineage \in 0 .. MaxWork
      BY <2>3, ConstantTypes DEF LineageId
    <3>3. QED
      BY <1>16, <3>1, <3>2 DEF Fork, TypeOK
  <2>9. status' \in [WorkId -> Status] /\ lstatus' \in [LineageId -> Status]
    BY <1>16, <1>a DEF Fork, TypeOK, Synced
  <2>10. /\ pc' = "loop" /\ cur' \in 0 .. MaxWork /\ batch' \subseteq WorkId
         /\ steps' \in Nat /\ invocations' \in Nat
    BY <1>16, ConstantTypes DEF Fork, Answered, TypeOK
  <2>11. QED
    BY <2>6, <2>7, <2>8, <2>9, <2>10, ConstantTypes DEF TypeOK
<1>17. ASSUME NEW w \in WorkId, NEW k \in WorkId, Spawn(w, k) PROVE TypeOK'
  <2> DEFINE New == works + 1 .. works + k
  <2>1. PICK r \in CheckedOutcomes(w), p \in [New -> Priorities] :
          /\ Added(w, r, New, r.ref, SpawnedUnits(w, k, p))
          /\ lref' = LineageRef(w, r.ref)
    BY <1>17 DEF Spawn
  <2>2. r \in CommitOutcomes(w) /\ r.ref \in Refs
    BY OutcomeType DEF CheckedOutcomes
  <2>3. LineageRef(w, r.ref) \in [LineageId -> Refs] /\ unit[w].lineage \in LineageId
    BY <2>2 DEF LineageRef, TypeOK
  <2>4. works + k <= MaxWork /\ works \in Nat /\ works + k \in WorkId /\ w \in 0 .. MaxWork
    BY <1>17, ConstantTypes DEF Spawn, WorkId, TypeOK
  <2>5. SpawnedUnits(w, k, p) \in
          [New -> [parent : 0 .. MaxWork, lineage : LineageId, priority : Priorities]]
    BY <2>3, <2>4 DEF SpawnedUnits
  <2>6. /\ unit' \in [WorkId -> [parent : 0 .. MaxWork, lineage : LineageId,
                                 priority : Priorities]]
        /\ ahead' \in [WorkId -> SUBSET WorkId]
        /\ tree' \in [WorkId -> TreeState]
        /\ ref' \in [WorkId -> Refs]
        /\ evidence' \in [WorkId -> 0 .. MaxChecks]
        /\ exhausted' \in BOOLEAN /\ attempted' \subseteq WorkId
        /\ checks' \in [WorkId -> 0 .. MaxChecks]
    BY <2>1, <2>2, <2>4, <2>5, AddedType DEF TypeOK
  <2>7. status' \in [WorkId -> Status] /\ lstatus' \in [LineageId -> Status]
    BY <1>17, <1>a DEF Spawn, TypeOK, Synced
  <2>8. /\ pc' = "loop" /\ cur' \in 0 .. MaxWork /\ batch' \subseteq WorkId
        /\ steps' \in Nat /\ invocations' \in Nat
    BY <1>17, ConstantTypes DEF Spawn, Answered, TypeOK
  <2>9. /\ works' \in WorkId /\ lineages' \in LineageId
        /\ lparent' \in [LineageId -> 0 .. MaxWork]
        /\ lref' \in [LineageId -> Refs]
    BY <1>17, <2>1, <2>3, <2>4 DEF Spawn, TypeOK
  <2>10. QED
    BY <2>6, <2>7, <2>8, <2>9, ConstantTypes DEF TypeOK
<1>18. CASE Finish
  BY <1>18 DEF Finish, TypeOK
<1>19. CASE Finished \/ UNCHANGED vars
  BY <1>19 DEF Finished, TypeOK, vars
<1>20. QED
  BY <1>1, <1>2, <1>3, <1>4, <1>5, <1>7, <1>8, <1>10, <1>11, <1>12, <1>13, <1>14,
     <1>15, <1>16, <1>17, <1>18, <1>19 DEF Next

-----------------------------------------------------------------------------
(* The forest of work units and lineages under the steps of the engine.    *)

\* The parts of EngineInv about ids, and the two halves of LineageFollowsMain.
Ids ==
  /\ \A w \in WorkId : status[w] # "ABSENT" <=> w <= works
  /\ \A l \in LineageId : lstatus[l] # "ABSENT" <=> l <= lineages
  /\ \A w \in Created : unit[w].lineage <= lineages
  /\ lineages <= works
StatusFollows ==
  \A w \in Created : IsMain(w) => lstatus[unit[w].lineage] = status[w]
RefFollows ==
  \A w \in Created : IsMain(w) => lref[unit[w].lineage] = ref[w]

LEMMA ParentIsWork ==
  ASSUME TypeOK, NEW w \in WorkId, ~IsMain(w)
  PROVE  unit[w].parent \in WorkId
<1>1. unit[w] \in [parent : 0 .. MaxWork, lineage : LineageId, priority : Priorities]
  BY DEF TypeOK
<1>2. unit[w].parent \in 0 .. MaxWork /\ unit[w].parent # 0
  BY <1>1 DEF IsMain
<1>3. QED
  BY <1>2, ConstantTypes DEF WorkId

LEMMA ParentIsCreated ==
  ASSUME TypeOK, Ids, Forest, NEW v \in Created, ~IsMain(v)
  PROVE  unit[v].parent \in Created /\ unit[v].parent < v
<1>1. v \in WorkId /\ v <= works
  BY DEF Created, Ids
<1>2. unit[v].parent \in WorkId
  BY <1>1, ParentIsWork
<1>3. unit[v].parent < v
  BY DEF Forest
<1>4. unit[v].parent <= works
  <2>1. works \in Nat /\ v \in Nat /\ unit[v].parent \in Nat
    BY <1>1, <1>2, ConstantTypes DEF WorkId, TypeOK
  <2>2. QED
    BY <1>1, <1>3, <2>1
<1>5. QED
  BY <1>2, <1>3, <1>4 DEF Ids, Created

\* Moving created units from one status to another keeps ids, forest and sync.
LEMMA MovedKeepsForest ==
  ASSUME TypeOK, Ids, Forest, StatusFollows, Grown,
         NEW S \in SUBSET Created, NEW st \in Status, st # "ABSENT", Moved(S, st)
  PROVE  Created' = Created /\ Ids' /\ Forest' /\ StatusFollows'
<1>1. Created' = Created
  BY DEF TypeOK, Moved, Created
<1>2. Forest'
  BY <1>1 DEF Forest, Grown, IsMain
<1>3. \A w \in WorkId : status'[w] # "ABSENT" <=> w <= works'
  BY DEF TypeOK, Ids, Moved, Grown, Created
<1>4. \A l \in LineageId : lstatus'[l] # "ABSENT" <=> l <= lineages'
  <2>1. TAKE l \in LineageId
  <2>2. CASE \E w \in S : IsMain(w) /\ unit[w].lineage = l
    BY <2>2 DEF Ids, Moved, Synced, Grown
  <2>3. CASE ~ \E w \in S : IsMain(w) /\ unit[w].lineage = l
    BY <2>3 DEF Ids, Moved, Synced, Grown
  <2>4. QED
    BY <2>2, <2>3
<1>5. Ids'
  BY <1>1, <1>3, <1>4 DEF Ids, Grown
<1>6. StatusFollows'
  <2>1. SUFFICES ASSUME NEW w \in Created, IsMain(w)
                 PROVE  lstatus'[unit[w].lineage] = status'[w]
    BY <1>1 DEF StatusFollows, Grown, IsMain
  <2>2. unit[w].lineage \in LineageId /\ w \in WorkId
    BY DEF TypeOK, Created
  <2>3. CASE w \in S
    BY <2>1, <2>2, <2>3 DEF Moved, Synced
  <2>4. CASE w \notin S
    <3>1. ~ \E v \in S : IsMain(v) /\ unit[v].lineage = unit[w].lineage
      BY <2>1, <2>4 DEF Forest
    <3>2. QED
      BY <2>1, <2>2, <2>4, <3>1 DEF Moved, Synced, StatusFollows
  <2>5. QED
    BY <2>3, <2>4
<1>7. QED
  BY <1>1, <1>2, <1>5, <1>6

\* A unit's ref moves on, and its lineage's with it when it is main work.
LEMMA RefMoves ==
  ASSUME TypeOK, Forest, RefFollows, Grown, Created' = Created,
         NEW w \in Created, NEW c,
         ref' = [ref EXCEPT ![w] = c], lref' = LineageRef(w, c)
  PROVE  RefFollows'
<1>1. SUFFICES ASSUME NEW v \in Created, IsMain(v)
               PROVE  lref'[unit[v].lineage] = ref'[v]
  BY DEF RefFollows, Grown, IsMain
<1>2. v \in WorkId /\ unit[v].lineage \in LineageId /\ w \in WorkId
  BY DEF TypeOK, Created
<1>3. CASE v = w
  BY <1>1, <1>2, <1>3 DEF LineageRef, TypeOK
<1>4. CASE v # w
  <2>1. ref'[v] = ref[v]
    BY <1>2, <1>4 DEF TypeOK
  <2>2. IsMain(w) => unit[w].lineage # unit[v].lineage
    BY <1>1, <1>4 DEF Forest
  <2>3. lref'[unit[v].lineage] = lref[unit[v].lineage]
    BY <1>2, <2>2 DEF LineageRef, TypeOK
  <2>4. QED
    BY <1>1, <2>1, <2>3 DEF RefFollows
<1>5. QED
  BY <1>3, <1>4

\* An ACTIVE unit has no open children, so it can leave ACTIVE safely.
LEMMA ActiveHasNoOpenChild ==
  ASSUME TypeOK, Forest, ParentWaits, NEW w \in WorkId, status[w] = "ACTIVE",
         NEW c \in WithStatus(Open), ~IsMain(c)
  PROVE  unit[c].parent # w
BY DEF ParentWaits, WithStatus

LEMMA ActiveLeaves ==
  ASSUME TypeOK, Forest, ParentWaits, Grown,
         NEW w \in WorkId, status[w] = "ACTIVE",
         NEW st \in Terminal, Moved({w}, st)
  PROVE  ParentWaits'
<1>1. SUFFICES ASSUME NEW c \in WorkId, status'[c] \in Open, ~IsMain(c)
               PROVE  status'[unit[c].parent] = "WAITING"
  BY DEF ParentWaits, WithStatus, Grown, IsMain
<1>2. c # w /\ status[c] \in Open
  BY <1>1 DEF Moved, Terminal, Open
<1>3. status[unit[c].parent] = "WAITING" /\ unit[c].parent # w
  BY <1>1, <1>2 DEF ParentWaits, WithStatus
<1>4. unit[c].parent \in WorkId
  BY <1>1, ParentIsWork
<1>5. QED
  BY <1>3, <1>4 DEF Moved

LEMMA ParentsResume ==
  ASSUME TypeOK, Forest, ParentWaits, Grown, Moved(Resumable, "ACTIVE")
  PROVE  ParentWaits'
<1>1. SUFFICES ASSUME NEW c \in WorkId, status'[c] \in Open, ~IsMain(c)
               PROVE  status'[unit[c].parent] = "WAITING"
  BY DEF ParentWaits, WithStatus, Grown, IsMain
<1>2. status[c] \in Open
  BY <1>1 DEF Moved, Resumable, WithStatus, Open
<1>3. status[unit[c].parent] = "WAITING"
  BY <1>1, <1>2 DEF ParentWaits, WithStatus
<1>4. unit[c].parent \in WorkId
  BY <1>1, ParentIsWork
<1>5. c \in Children(unit[c].parent) /\ status[c] \notin Terminal
  BY <1>2 DEF Children, Created, Open, Terminal
<1>6. unit[c].parent \notin Resumable
  BY <1>5 DEF Resumable
<1>7. QED
  BY <1>3, <1>4, <1>6 DEF Moved

LEMMA ExhaustClosesAll ==
  ASSUME TypeOK, Ids, Forest, StatusFollows, Grown, Exhaust
  PROVE  /\ WithStatus(Open)' = {} /\ exhausted' = TRUE
         /\ Created' = Created /\ Ids' /\ Forest' /\ StatusFollows' /\ ParentWaits'
<1>1. WithStatus(Open) \in SUBSET Created
  BY DEF WithStatus, Open, Created
<1>2. "BLOCKED" \in Status /\ "BLOCKED" \notin Open
  BY DEF Status, Terminal, Open
<1>3. WithStatus(Open)' = {}
  BY <1>2 DEF Exhaust, Moved, WithStatus
<1>4. Created' = Created /\ Ids' /\ Forest' /\ StatusFollows'
  BY <1>1, <1>2, MovedKeepsForest DEF Exhaust
<1>5. QED
  BY <1>3, <1>4 DEF ParentWaits, Exhaust

\* What FORK and SPAWN have in common: the new ids, and the units before them.
LEMMA FreshUnits ==
  ASSUME TypeOK, Ids, NEW k \in Nat, NEW w \in WorkId, status[w] = "ACTIVE",
         NEW New, New = works + 1 .. works + k, works + k <= MaxWork,
         NEW st \in {"WAITING", "BRANCHED"},
         works' = works + k,
         status' = [v \in WorkId |-> IF v = w THEN st
                                     ELSE IF v \in New THEN "ACTIVE" ELSE status[v]]
  PROVE  /\ New \subseteq WorkId /\ w \notin New /\ w \in Created
         /\ Created \cap New = {} /\ Created' = Created \cup New
         /\ \A v \in WorkId : status'[v] # "ABSENT" <=> v <= works'
         /\ status'[w] = st /\ \A v \in New : status'[v] = "ACTIVE"
         /\ \A v \in WorkId \ (New \cup {w}) : status'[v] = status[v]
<1>1. works \in Nat /\ works \in WorkId
  BY ConstantTypes DEF TypeOK, WorkId
<1>2. New \subseteq WorkId /\ \A v \in New : v > works
  BY <1>1, ConstantTypes DEF WorkId
<1>3. w \in Created /\ w <= works
  BY DEF Created, Ids
<1>4. w \notin New
  BY <1>1, <1>2, <1>3, ConstantTypes DEF WorkId
<1>5. Created \cap New = {}
  BY <1>1, <1>2, ConstantTypes DEF Created, Ids, WorkId
<1>6. \A v \in WorkId : status'[v] # "ABSENT" <=> v <= works'
  <2>1. SUFFICES ASSUME NEW v \in WorkId PROVE status'[v] # "ABSENT" <=> v <= works + k
    OBVIOUS
  <2>2. v \in Nat
    BY ConstantTypes DEF WorkId
  <2>3. QED
    BY <1>1, <1>3, <2>1, <2>2 DEF Ids
<1>7. Created' = Created \cup New
  BY <1>2, <1>3 DEF Created
<1>8. QED
  BY <1>2, <1>3, <1>4, <1>5, <1>6, <1>7

LEMMA SpawnKeepsForest ==
  ASSUME TypeOK, Ids, Forest, StatusFollows, RefFollows, ParentWaits,
         NEW w \in WorkId, NEW k \in WorkId, status[w] = "ACTIVE", Spawn(w, k)
  PROVE  Ids' /\ Forest' /\ StatusFollows' /\ RefFollows' /\ ParentWaits'
<1> DEFINE New == works + 1 .. works + k
<1>1. k \in Nat /\ works + k <= MaxWork /\ works' = works + k
  BY ConstantTypes DEF Spawn, WorkId
<1>2. /\ New \subseteq WorkId /\ w \notin New /\ w \in Created
      /\ Created \cap New = {} /\ Created' = Created \cup New
      /\ \A v \in WorkId : status'[v] # "ABSENT" <=> v <= works'
      /\ status'[w] = "WAITING" /\ \A v \in New : status'[v] = "ACTIVE"
      /\ \A v \in WorkId \ (New \cup {w}) : status'[v] = status[v]
  BY <1>1, FreshUnits DEF Spawn
<1>3. PICK r \in CheckedOutcomes(w), p \in [New -> Priorities] :
        Added(w, r, New, r.ref, SpawnedUnits(w, k, p)) /\ lref' = LineageRef(w, r.ref)
  BY DEF Spawn
<1>4. /\ \A v \in New : unit'[v].parent = w /\ unit'[v].lineage = unit[w].lineage
      /\ \A v \in Created : unit'[v] = unit[v]
  BY <1>2, <1>3 DEF Added, SpawnedUnits, Created
<1>5. /\ \A v \in Created : IsMain(v)' <=> IsMain(v)
      /\ \A v \in New : ~IsMain(v)'
  <2>1. w # 0
    BY ConstantTypes DEF WorkId
  <2>2. QED
    BY <1>4, <2>1 DEF IsMain
<1>6. lineages' = lineages /\ lparent' = lparent
  BY DEF Spawn
<1>7. \A l \in LineageId : lstatus'[l] = IF IsMain(w) /\ unit[w].lineage = l
                                        THEN "WAITING" ELSE lstatus[l]
  BY DEF Spawn, Synced
<1>8. Ids'
  <2>1. \A l \in LineageId : lstatus'[l] # "ABSENT" <=> l <= lineages'
    BY <1>2, <1>6, <1>7 DEF Ids
  <2>2. \A v \in Created' : unit'[v].lineage <= lineages'
    BY <1>2, <1>4, <1>6 DEF Ids
  <2>3. lineages' <= works'
    BY <1>1, <1>6, ConstantTypes DEF Ids, TypeOK, WorkId, LineageId
  <2>4. QED
    BY <1>2, <2>1, <2>2, <2>3 DEF Ids
<1>9. Forest'
  <2>1. ASSUME NEW v \in Created', ~IsMain(v)'
        PROVE  unit'[v].parent < v /\ unit'[v].lineage = unit'[unit'[v].parent].lineage
    <3>1. CASE v \in New
      <4>1. w < v
        BY <1>1, <1>2, <3>1, ConstantTypes DEF Ids, Created, TypeOK, WorkId
      <4>2. QED
        BY <1>2, <1>4, <3>1, <4>1
    <3>2. CASE v \in Created
      <4>1. ~IsMain(v) /\ unit[v].parent \in WorkId /\ v \in WorkId
        BY <1>5, <2>1, <3>2, ParentIsWork DEF Created
      <4>2. unit[v].parent < v /\ unit[v].lineage = unit[unit[v].parent].lineage
        BY <3>2, <4>1 DEF Forest
      <4>3. unit[v].parent \in Created
        BY <3>2, <4>1, ParentIsCreated
      <4>4. QED
        BY <1>4, <3>2, <4>2, <4>3
    <3>3. QED
      BY <1>2, <2>1, <3>1, <3>2
  <2>2. \A l \in 1 .. lineages' : lparent'[l] < l
    BY <1>6 DEF Forest
  <2>3. ASSUME NEW u \in Created', NEW v \in Created', IsMain(u)', IsMain(v)',
               unit'[u].lineage = unit'[v].lineage
        PROVE  u = v
    BY <1>2, <1>4, <1>5, <2>3 DEF Forest
  <2>4. QED
    BY <2>1, <2>2, <2>3 DEF Forest
<1>10. ASSUME NEW v \in Created', IsMain(v)'
       PROVE  /\ v \in Created /\ IsMain(v) /\ unit'[v] = unit[v]
              /\ unit[v].lineage \in LineageId
  BY <1>2, <1>4, <1>5, <1>10 DEF TypeOK, Created
<1>11. StatusFollows'
  <2>1. SUFFICES ASSUME NEW v \in Created', IsMain(v)'
                 PROVE  lstatus'[unit'[v].lineage] = status'[v]
    BY DEF StatusFollows
  <2>2. CASE v = w
    BY <1>2, <1>7, <1>10, <2>1, <2>2
  <2>3. CASE v # w
    <3>1. ~(IsMain(w) /\ unit[w].lineage = unit[v].lineage)
      BY <1>2, <1>10, <2>1, <2>3 DEF Forest
    <3>2. v \in WorkId \ (New \cup {w})
      BY <1>2, <1>10, <2>1, <2>3 DEF Created
    <3>3. QED
      BY <1>2, <1>7, <1>10, <2>1, <3>1, <3>2 DEF StatusFollows
  <2>4. QED
    BY <2>2, <2>3
<1>12. RefFollows'
  <2>1. SUFFICES ASSUME NEW v \in Created', IsMain(v)'
                 PROVE  lref'[unit'[v].lineage] = ref'[v]
    BY DEF RefFollows
  <2>2. ref'[v] = IF v = w THEN r.ref ELSE ref[v]
    BY <1>2, <1>3, <1>10, <2>1 DEF Added, Created
  <2>3. lref'[unit[v].lineage] =
          IF IsMain(w) /\ unit[w].lineage = unit[v].lineage THEN r.ref
          ELSE lref[unit[v].lineage]
    BY <1>3, <1>10, <2>1 DEF LineageRef, TypeOK
  <2>4. IsMain(w) /\ unit[w].lineage = unit[v].lineage <=> v = w
    BY <1>2, <1>10, <2>1 DEF Forest
  <2>5. QED
    BY <1>10, <2>1, <2>2, <2>3, <2>4 DEF RefFollows
<1>13. ParentWaits'
  <2>1. SUFFICES ASSUME NEW c \in WorkId, status'[c] \in Open, ~IsMain(c)'
                 PROVE  status'[unit'[c].parent] = "WAITING"
    BY DEF ParentWaits, WithStatus
  <2>2. CASE c \in New
    BY <1>2, <1>4, <2>2
  <2>3. CASE c \notin New
    <3>1. c \in Created /\ ~IsMain(c) /\ unit'[c] = unit[c]
      <4>1. c \in Created
        BY <1>2, <2>1, <2>3 DEF Created, Open
      <4>2. QED
        BY <1>4, <1>5, <2>1, <4>1
    <3>2. status[c] \in Open
      BY <1>2, <2>1, <2>3 DEF Open
    <3>3. /\ status[unit[c].parent] = "WAITING"
          /\ unit[c].parent \in WorkId
      BY <3>1, <3>2, ParentIsWork DEF ParentWaits, WithStatus
    <3>4. unit[c].parent \in Created /\ unit[c].parent # w
      BY <3>3 DEF Created
    <3>5. QED
      BY <1>2, <3>1, <3>3, <3>4
  <2>4. QED
    BY <2>2, <2>3
<1>14. QED
  BY <1>8, <1>9, <1>11, <1>12, <1>13

LEMMA ForkKeepsForest ==
  ASSUME TypeOK, Ids, Forest, StatusFollows, RefFollows, ParentWaits,
         NEW w \in WorkId, NEW k \in 2 .. MaxWork, status[w] = "ACTIVE", Fork(w, k)
  PROVE  Ids' /\ Forest' /\ StatusFollows' /\ RefFollows' /\ ParentWaits'
<1> DEFINE New == works + 1 .. works + k
           NewLineages == lineages + 1 .. lineages + k
           own == unit[w].lineage
<1>1. k \in Nat /\ works + k <= MaxWork /\ works' = works + k
  BY ConstantTypes DEF Fork
<1>2. /\ New \subseteq WorkId /\ w \notin New /\ w \in Created
      /\ Created \cap New = {} /\ Created' = Created \cup New
      /\ \A v \in WorkId : status'[v] # "ABSENT" <=> v <= works'
      /\ status'[w] = "BRANCHED" /\ \A v \in New : status'[v] = "ACTIVE"
      /\ \A v \in WorkId \ (New \cup {w}) : status'[v] = status[v]
  BY <1>1, FreshUnits DEF Fork
<1>3. PICK r \in CheckedOutcomes(w), p \in [New -> Priorities] :
        /\ Added(w, r, New, LineageRef(w, r.ref)[own], ForkedUnits(w, k, p))
        /\ lref' = [l \in LineageId |-> IF l \in NewLineages
                                        THEN LineageRef(w, r.ref)[own]
                                        ELSE LineageRef(w, r.ref)[l]]
  BY DEF Fork
<1>4. /\ \A v \in New : unit'[v].parent = 0 /\ unit'[v].lineage = lineages + v - works
      /\ \A v \in Created : unit'[v] = unit[v]
  BY <1>2, <1>3 DEF Added, ForkedUnits, Created
<1>5. /\ \A v \in Created : IsMain(v)' <=> IsMain(v)
      /\ \A v \in New : IsMain(v)'
  BY <1>4 DEF IsMain
<1>6. IsMain(w) /\ own \in LineageId /\ own <= lineages
  BY <1>2 DEF Fork, TypeOK, Ids
<1>7. /\ lineages \in Nat /\ works \in Nat /\ lineages <= works
      /\ lineages' = lineages + k
      /\ NewLineages \subseteq LineageId
  BY <1>1, ConstantTypes DEF Fork, TypeOK, Ids, WorkId, LineageId
<1>8. \A v \in New : lineages + v - works \in NewLineages
  BY <1>1, <1>7
<1>9. \A l \in LineageId : /\ lparent'[l] = IF l \in NewLineages THEN own ELSE lparent[l]
                           /\ lstatus'[l] = IF l \in NewLineages THEN "ACTIVE"
                                            ELSE IF l = own THEN "BRANCHED" ELSE lstatus[l]
  BY <1>6 DEF Fork, Synced
<1>10. \A v \in Created : unit[v].lineage \in LineageId \ NewLineages
  <2>1. TAKE v \in Created
  <2>2. unit[v].lineage \in LineageId /\ unit[v].lineage <= lineages
    BY DEF TypeOK, Ids, Created
  <2>3. QED
    BY <1>7, <2>2, ConstantTypes DEF LineageId
<1>11. Ids'
  <2>1. \A l \in LineageId : lstatus'[l] # "ABSENT" <=> l <= lineages'
    <3>1. TAKE l \in LineageId
    <3>2. l \in Nat /\ (l \in NewLineages <=> lineages < l /\ l <= lineages + k)
      BY <1>1, <1>7, ConstantTypes DEF LineageId
    <3>3. lstatus[l] # "ABSENT" <=> l <= lineages
      BY DEF Ids
    <3>4. QED
      BY <1>1, <1>6, <1>7, <1>9, <3>2, <3>3
  <2>2. \A v \in Created' : unit'[v].lineage <= lineages'
    <3>1. TAKE v \in Created'
    <3>2. CASE v \in New
      BY <1>1, <1>4, <1>7, <1>8, <3>2
    <3>3. CASE v \in Created
      <4>1. unit[v].lineage \in LineageId /\ unit[v].lineage <= lineages
        BY <3>3 DEF TypeOK, Ids, Created
      <4>2. QED
        BY <1>1, <1>4, <1>7, <3>3, <4>1, ConstantTypes DEF LineageId
    <3>4. QED
      BY <1>2, <3>2, <3>3
  <2>3. lineages' <= works'
    BY <1>1, <1>7
  <2>4. QED
    BY <1>2, <2>1, <2>2, <2>3 DEF Ids
<1>12. Forest'
  <2>1. ASSUME NEW v \in Created', ~IsMain(v)'
        PROVE  unit'[v].parent < v /\ unit'[v].lineage = unit'[unit'[v].parent].lineage
    <3>1. v \in Created /\ ~IsMain(v)
      BY <1>2, <1>5, <2>1
    <3>2. unit[v].parent \in Created /\ unit[v].parent < v
      BY <3>1, ParentIsCreated
    <3>3. unit[v].lineage = unit[unit[v].parent].lineage
      BY <3>1 DEF Forest
    <3>4. QED
      BY <1>4, <3>1, <3>2, <3>3
  <2>2. \A l \in 1 .. lineages' : lparent'[l] < l
    <3>1. TAKE l \in 1 .. lineages'
    <3>2. l \in LineageId
      BY <1>1, <1>7, ConstantTypes DEF LineageId
    <3>3. CASE l \in NewLineages
      BY <1>6, <1>7, <1>9, <3>2, <3>3, ConstantTypes DEF LineageId
    <3>4. CASE l \notin NewLineages
      <4>1. l \in 1 .. lineages
        BY <1>1, <1>7, <3>4
      <4>2. QED
        BY <1>9, <3>2, <3>4, <4>1 DEF Forest
    <3>5. QED
      BY <3>3, <3>4
  <2>3. ASSUME NEW u \in Created', NEW v \in Created', IsMain(u)', IsMain(v)',
               unit'[u].lineage = unit'[v].lineage
        PROVE  u = v
    <3>1. CASE u \in New /\ v \in New
      <4>1. lineages + u - works = lineages + v - works
        BY <1>4, <2>3, <3>1
      <4>2. QED
        BY <1>7, <3>1, <4>1
    <3>2. CASE u \in Created /\ v \in Created
      BY <1>4, <1>5, <2>3, <3>2 DEF Forest
    <3>3. CASE u \in New /\ v \in Created
      BY <1>4, <1>8, <1>10, <2>3, <3>3
    <3>4. CASE u \in Created /\ v \in New
      BY <1>4, <1>8, <1>10, <2>3, <3>4
    <3>5. QED
      BY <1>2, <2>3, <3>1, <3>2, <3>3, <3>4
  <2>4. QED
    BY <2>1, <2>2, <2>3 DEF Forest
<1>13. ASSUME NEW v \in Created, IsMain(v), v # w
       PROVE  /\ unit[v].lineage # own
              /\ v \in WorkId \ (New \cup {w})
  BY <1>2, <1>6, <1>13 DEF Forest, Created
<1>14. StatusFollows'
  <2>1. SUFFICES ASSUME NEW v \in Created', IsMain(v)'
                 PROVE  lstatus'[unit'[v].lineage] = status'[v]
    BY DEF StatusFollows
  <2>2. CASE v \in New
    BY <1>2, <1>4, <1>7, <1>8, <1>9, <2>2
  <2>3. CASE v = w
    BY <1>2, <1>4, <1>6, <1>9, <1>10, <2>3
  <2>4. CASE v \in Created /\ v # w
    <3>1. IsMain(v) /\ unit'[v] = unit[v]
      BY <1>4, <1>5, <2>1, <2>4
    <3>2. lstatus'[unit[v].lineage] = lstatus[unit[v].lineage] /\ status'[v] = status[v]
      BY <1>2, <1>9, <1>10, <1>13, <2>4, <3>1
    <3>3. QED
      BY <2>4, <3>1, <3>2 DEF StatusFollows
  <2>5. QED
    BY <1>2, <2>1, <2>2, <2>3, <2>4
<1>15. RefFollows'
  <2>1. SUFFICES ASSUME NEW v \in Created', IsMain(v)'
                 PROVE  lref'[unit'[v].lineage] = ref'[v]
    BY DEF RefFollows
  <2>2. \A l \in LineageId : LineageRef(w, r.ref)[l] = IF l = own THEN r.ref ELSE lref[l]
    BY <1>6 DEF LineageRef, TypeOK
  <2>3. \A u \in WorkId : ref'[u] = IF u = w THEN r.ref ELSE IF u \in New
                                    THEN LineageRef(w, r.ref)[own] ELSE ref[u]
    BY <1>3 DEF Added
  <2>4. CASE v \in New
    BY <1>2, <1>3, <1>4, <1>7, <1>8, <2>3, <2>4
  <2>5. CASE v = w
    BY <1>2, <1>3, <1>4, <1>6, <1>10, <2>2, <2>3, <2>5
  <2>6. CASE v \in Created /\ v # w
    <3>1. IsMain(v) /\ unit'[v] = unit[v]
      BY <1>4, <1>5, <2>1, <2>6
    <3>2. lref'[unit[v].lineage] = lref[unit[v].lineage] /\ ref'[v] = ref[v]
      BY <1>3, <1>10, <1>13, <2>2, <2>3, <2>6, <3>1
    <3>3. QED
      BY <2>6, <3>1, <3>2 DEF RefFollows
  <2>7. QED
    BY <1>2, <2>1, <2>4, <2>5, <2>6
<1>16. ParentWaits'
  <2>1. SUFFICES ASSUME NEW c \in WorkId, status'[c] \in Open, ~IsMain(c)'
                 PROVE  status'[unit'[c].parent] = "WAITING"
    BY DEF ParentWaits, WithStatus
  <2>2. c \in Created /\ c # w /\ c \notin New
    <3>1. c \in Created' /\ c # w
      BY <1>2, <2>1 DEF Created, Open
    <3>2. QED
      BY <1>2, <1>5, <2>1, <3>1
  <2>3. ~IsMain(c) /\ unit'[c] = unit[c] /\ status[c] \in Open
    BY <1>2, <1>4, <1>5, <2>1, <2>2
  <2>4. status[unit[c].parent] = "WAITING" /\ unit[c].parent \in Created
    BY <2>2, <2>3, ParentIsCreated DEF ParentWaits, WithStatus
  <2>5. unit[c].parent \in WorkId \ (New \cup {w})
    BY <1>2, <2>4 DEF Created
  <2>6. QED
    BY <1>2, <2>3, <2>4, <2>5
<1>17. QED
  BY <1>11, <1>12, <1>14, <1>15, <1>16

-----------------------------------------------------------------------------
(* The inductive invariant.                                                *)

\* The part of Bookkeeping about the control state.
Control ==
  /\ pc = "start" => works = 1 /\ batch = {} /\ status[1] = "ACTIVE"
  /\ pc = "invoke" => cur \in batch
  /\ pc # "invoke" => cur = 0
  /\ ~exhausted => batch \subseteq WithStatus({"ACTIVE"})
  /\ exhausted => pc # "invoke"

LEMMA EngineInvParts ==
  EngineInv <=> /\ TypeOK /\ Ids /\ Control /\ Forest /\ ParentWaits
                /\ StatusFollows /\ RefFollows /\ BudgetsHold /\ ExhaustionIsFinal
BY DEF EngineInv, Bookkeeping, LineageFollowsMain, Ids, Control, StatusFollows, RefFollows

\* The unit an answer is about is an ACTIVE one, and the run goes on.
LEMMA AnsweredIsActive ==
  ASSUME TypeOK, Control, NEW w \in WorkId, Answered(w)
  PROVE  /\ status[w] = "ACTIVE" /\ ~exhausted /\ w \in Created /\ w \in batch
         /\ pc' = "loop" /\ cur' = 0 /\ batch' = batch \ {w}
         /\ steps' = steps /\ invocations' = invocations
BY DEF Control, Answered, WithStatus, Created

LEMMA InvokedIsActive ==
  ASSUME TypeOK, Control, NEW w \in WorkId, Step(w)
  PROVE  /\ status[w] = "ACTIVE" /\ ~exhausted /\ w \in Created /\ w \in batch /\ pc = "loop"
BY DEF Control, Step, IsNext, WithStatus, Created

\* Opening the workspace leaves ref alone or moves it together with the lineage.
LEMMA OpenMovesRef ==
  ASSUME TypeOK, NEW w \in WorkId, NEW ok \in BOOLEAN, OpenOutcome(w, ok)
  PROVE  \/ \E c : ref' = [ref EXCEPT ![w] = c] /\ lref' = LineageRef(w, c)
         \/ ref' = ref /\ lref' = lref
<1>1. CASE UNCHANGED <<ref, lref>>
  BY <1>1
<1>2. CASE NeedsWorkspace(w) /\ ~Protocol
  <2>1. PICK r \in Executed(w) : /\ ref' = [ref EXCEPT ![w] = r.ref]
                                 /\ lref' = LineageRef(w, r.ref)
    BY <1>2 DEF OpenOutcome
  <2>2. \E c : ref' = [ref EXCEPT ![w] = c] /\ lref' = LineageRef(w, c)
    <3>1. WITNESS r.ref
    <3>2. QED
      BY <2>1
  <2>3. QED
    BY <2>2
<1>3. QED
  BY <1>1, <1>2 DEF OpenOutcome, artifacts

LEMMA ForestStep ==
  ASSUME EngineInv, [Next]_vars
  PROVE  Ids' /\ Forest' /\ ParentWaits' /\ StatusFollows' /\ RefFollows'
<1> USE EngineInvParts DEF artifacts, genealogy
<1>a. /\ {"ACTIVE", "BLOCKED", "COMPLETED"} \subseteq Status \ {"ABSENT"}
      /\ {"BLOCKED", "COMPLETED"} \subseteq Terminal
  BY DEF Status, Open, Terminal
<1>1. ASSUME UNCHANGED <<genealogy, ref, lref>>
      PROVE  Ids' /\ Forest' /\ ParentWaits' /\ StatusFollows' /\ RefFollows'
  BY <1>1 DEF Ids, Forest, ParentWaits, StatusFollows, RefFollows, Created, WithStatus, IsMain
<1>2. ASSUME NEW S \in SUBSET Created, NEW st \in Status \ {"ABSENT"}, Moved(S, st), Grown,
             UNCHANGED <<ref, lref>>
      PROVE  Ids' /\ Forest' /\ StatusFollows' /\ RefFollows'
  <2>1. Created' = Created /\ Ids' /\ Forest' /\ StatusFollows'
    BY <1>2, MovedKeepsForest
  <2>2. RefFollows'
    BY <1>2, <2>1 DEF RefFollows, Grown, IsMain
  <2>3. QED
    BY <2>1, <2>2
<1>3. ASSUME NEW w \in Created, NEW c, Grown,
             ref' = [ref EXCEPT ![w] = c], lref' = LineageRef(w, c),
             status[w] = "ACTIVE", NEW st \in Terminal, Moved({w}, st)
      PROVE  Ids' /\ Forest' /\ ParentWaits' /\ StatusFollows' /\ RefFollows'
  <2>1. w \in WorkId /\ {w} \in SUBSET Created /\ st \in Status /\ st # "ABSENT"
    BY DEF Created, Status, Terminal
  <2>2. Created' = Created /\ Ids' /\ Forest' /\ StatusFollows'
    BY <1>3, <2>1, MovedKeepsForest
  <2>3. RefFollows'
    BY <1>3, <2>2, RefMoves
  <2>4. ParentWaits'
    BY <1>3, <2>1, ActiveLeaves
  <2>5. QED
    BY <2>2, <2>3, <2>4
<1>4. ASSUME NEW w \in Created, NEW c, Grown, status' = status, lstatus' = lstatus,
             ref' = [ref EXCEPT ![w] = c], lref' = LineageRef(w, c)
      PROVE  Ids' /\ Forest' /\ ParentWaits' /\ StatusFollows' /\ RefFollows'
  <2>1. Created' = Created
    BY <1>4 DEF Created
  <2>2. RefFollows'
    BY <1>4, <2>1, RefMoves
  <2>3. QED
    BY <1>4, <2>1, <2>2
       DEF Ids, Forest, ParentWaits, StatusFollows, WithStatus, IsMain, Grown
<1>5. ASSUME NEW w \in WorkId, status[w] = "ACTIVE", NEW st \in Terminal, Moved({w}, st), Grown,
             UNCHANGED <<ref, lref>>
      PROVE  Ids' /\ Forest' /\ ParentWaits' /\ StatusFollows' /\ RefFollows'
  <2>1. {w} \in SUBSET Created /\ st \in Status \ {"ABSENT"}
    BY <1>5 DEF Created, Status, Terminal
  <2>2. ParentWaits'
    BY <1>5, ActiveLeaves
  <2>3. QED
    BY <1>2, <1>5, <2>1, <2>2
<1>6. ASSUME Exhaust, Grown, UNCHANGED <<ref, lref>>
      PROVE  Ids' /\ Forest' /\ ParentWaits' /\ StatusFollows' /\ RefFollows'
  <2>1. Created' = Created /\ Ids' /\ Forest' /\ StatusFollows' /\ ParentWaits'
    BY <1>6, ExhaustClosesAll
  <2>2. QED
    BY <1>6, <2>1 DEF RefFollows, Grown, IsMain
<1>7. CASE BeginRefused
  <2>1. 1 \in WorkId /\ status[1] # "ABSENT" /\ works = 1
    BY <1>7, ConstantTypes DEF BeginRefused, Ids, Control
  <2>2. Grown /\ UNCHANGED <<ref, lref>> /\ Moved({1}, "BLOCKED")
    BY <1>7 DEF BeginRefused, Grown
  <2>3. Ids' /\ Forest' /\ StatusFollows' /\ RefFollows'
    BY <1>2, <1>a, <2>1, <2>2 DEF Created
  <2>4. \A w \in WorkId : status'[w] \notin Open
    <3>1. TAKE w \in WorkId
    <3>2. CASE w = 1
      BY <2>1, <2>2, <3>2 DEF Moved, Open
    <3>3. CASE w # 1
      BY <2>1, <2>2, <3>3, ConstantTypes DEF Moved, Open, Ids, WorkId
    <3>4. QED
      BY <3>2, <3>3
  <2>5. QED
    BY <2>3, <2>4 DEF ParentWaits, WithStatus
<1>8. CASE Schedule
  <2>1. Grown /\ UNCHANGED <<ref, lref>> /\ Moved(Resumable, "ACTIVE")
    BY <1>8 DEF Schedule, Grown
  <2>2. Resumable \in SUBSET Created
    BY DEF Resumable, WithStatus, Created
  <2>3. ParentWaits'
    BY <2>1, ParentsResume
  <2>4. QED
    BY <1>2, <1>a, <2>1, <2>2, <2>3
<1>9. CASE ScheduleStopped
  BY <1>6, <1>9 DEF ScheduleStopped, Grown
<1>10. CASE RoundStopped
  <2>1. CASE Exhaust
    BY <1>6, <1>10, <2>1 DEF RoundStopped, Grown
  <2>2. CASE UNCHANGED <<status, lstatus>>
    BY <1>1, <1>10, <2>2 DEF RoundStopped
  <2>3. QED
    BY <1>10, <2>1, <2>2 DEF RoundStopped
<1>11. ASSUME NEW w \in WorkId, Invoke(w)
       PROVE  Ids' /\ Forest' /\ ParentWaits' /\ StatusFollows' /\ RefFollows'
  <2>1. w \in Created /\ Grown /\ status' = status /\ lstatus' = lstatus
    BY <1>11, InvokedIsActive DEF Invoke, Grown
  <2>2. \/ \E c : ref' = [ref EXCEPT ![w] = c] /\ lref' = LineageRef(w, c)
        \/ ref' = ref /\ lref' = lref
    BY <1>11, OpenMovesRef DEF Invoke
  <2>3. CASE ref' = ref /\ lref' = lref
    BY <1>1, <1>11, <2>3 DEF Invoke
  <2>4. CASE \E c : ref' = [ref EXCEPT ![w] = c] /\ lref' = LineageRef(w, c)
    BY <1>4, <2>1, <2>4
  <2>5. QED
    BY <2>2, <2>3, <2>4
<1>12. ASSUME NEW w \in WorkId, InvokeRefused(w)
       PROVE  Ids' /\ Forest' /\ ParentWaits' /\ StatusFollows' /\ RefFollows'
  <2>1. w \in Created /\ Grown /\ status[w] = "ACTIVE" /\ Moved({w}, "BLOCKED")
    BY <1>12, InvokedIsActive DEF InvokeRefused, Grown
  <2>2. \/ \E c : ref' = [ref EXCEPT ![w] = c] /\ lref' = LineageRef(w, c)
        \/ ref' = ref /\ lref' = lref
    BY <1>12, OpenMovesRef DEF InvokeRefused
  <2>3. CASE ref' = ref /\ lref' = lref
    BY <1>5, <1>a, <2>1, <2>3
  <2>4. CASE \E c : ref' = [ref EXCEPT ![w] = c] /\ lref' = LineageRef(w, c)
    BY <1>3, <1>a, <2>1, <2>4
  <2>5. QED
    BY <2>2, <2>3, <2>4
<1>13. ASSUME NEW w \in WorkId, AnswerFails(w) \/ Block(w) \/ Complete(w)
       PROVE  Ids' /\ Forest' /\ ParentWaits' /\ StatusFollows' /\ RefFollows'
  <2>1. w \in Created /\ status[w] = "ACTIVE" /\ Grown
    BY <1>13, AnsweredIsActive DEF AnswerFails, Block, Complete
  <2>2. \E r : Settled(w, r)
    BY <1>13 DEF AnswerFails, Block, Complete
  <2>3. \E c : ref' = [ref EXCEPT ![w] = c] /\ lref' = LineageRef(w, c)
    BY <2>2 DEF Settled
  <2>4. \E st \in Terminal : Moved({w}, st)
    BY <1>13, <1>a DEF AnswerFails, Block, Complete
  <2>5. QED
    BY <1>3, <2>1, <2>3, <2>4
<1>14. ASSUME NEW w \in WorkId, Continue(w) \/ Verify(w)
       PROVE  Ids' /\ Forest' /\ ParentWaits' /\ StatusFollows' /\ RefFollows'
  <2>1. w \in Created /\ Grown /\ status' = status /\ lstatus' = lstatus
    BY <1>14, AnsweredIsActive DEF Continue, Verify
  <2>2. \E r : Settled(w, r)
    BY <1>14 DEF Continue, Verify
  <2>3. \E c : ref' = [ref EXCEPT ![w] = c] /\ lref' = LineageRef(w, c)
    BY <2>2 DEF Settled
  <2>4. QED
    BY <1>4, <2>1, <2>3
<1>15. ASSUME NEW w \in WorkId, ForkStopped(w)
       PROVE  Ids' /\ Forest' /\ ParentWaits' /\ StatusFollows' /\ RefFollows'
  BY <1>6, <1>15 DEF ForkStopped
<1>16. ASSUME NEW w \in WorkId, NEW k \in 2 .. MaxWork, Fork(w, k)
       PROVE  Ids' /\ Forest' /\ ParentWaits' /\ StatusFollows' /\ RefFollows'
  <2>1. status[w] = "ACTIVE"
    BY <1>16, AnsweredIsActive DEF Fork
  <2>2. QED
    BY <1>16, <2>1, ForkKeepsForest
<1>17. ASSUME NEW w \in WorkId, NEW k \in WorkId, Spawn(w, k)
       PROVE  Ids' /\ Forest' /\ ParentWaits' /\ StatusFollows' /\ RefFollows'
  <2>1. status[w] = "ACTIVE"
    BY <1>17, AnsweredIsActive DEF Spawn
  <2>2. QED
    BY <1>17, <2>1, SpawnKeepsForest
<1>18. CASE Begin \/ Finish \/ Finished \/ UNCHANGED vars
  BY <1>1, <1>18 DEF Begin, Finish, Finished, vars
<1>19. QED
  BY <1>7, <1>8, <1>9, <1>10, <1>11, <1>12, <1>13, <1>14, <1>15, <1>16, <1>17, <1>18
     DEF Next

LEMMA ControlStep ==
  ASSUME EngineInv, [Next]_vars
  PROVE  Control' /\ ExhaustionIsFinal'
<1> USE EngineInvParts DEF control, genealogy, artifacts
<1>1. ASSUME NEW w \in WorkId, Answered(w), exhausted' = exhausted,
             \A v \in WorkId : v # w /\ status[v] = "ACTIVE" => status'[v] = "ACTIVE"
      PROVE  Control' /\ ExhaustionIsFinal'
  <2>1. ~exhausted /\ pc' = "loop" /\ cur' = 0 /\ batch' = batch \ {w}
    BY <1>1, AnsweredIsActive
  <2>2. batch' \subseteq WithStatus({"ACTIVE"})'
    BY <1>1, <2>1 DEF Control, WithStatus
  <2>3. QED
    BY <1>1, <2>1, <2>2 DEF Control, ExhaustionIsFinal
<1>2. ASSUME Exhaust, Grown, pc' = "loop", cur' = 0
      PROVE  Control' /\ ExhaustionIsFinal'
  BY <1>2, ExhaustClosesAll DEF Control, ExhaustionIsFinal
<1>3. CASE Begin
  BY <1>3 DEF Begin, Control, ExhaustionIsFinal, WithStatus
<1>4. CASE BeginRefused
  <2>1. pc' = "loop" /\ cur' = 0 /\ batch' = {} /\ exhausted' = exhausted
    BY <1>4 DEF BeginRefused, Control
  <2>2. WithStatus(Open)' \subseteq WithStatus(Open)
    BY <1>4 DEF BeginRefused, Moved, WithStatus, Open
  <2>3. QED
    BY <2>1, <2>2 DEF Control, ExhaustionIsFinal
<1>5. CASE Schedule
  <2>1. \A w \in Ready : status'[w] = "ACTIVE"
    BY <1>5 DEF Schedule, Ready, Resumable, WithStatus, Moved
  <2>2. batch' \subseteq WithStatus({"ACTIVE"})'
    BY <1>5, <2>1 DEF Schedule, Selected, Ready, Resumable, WithStatus
  <2>3. ~exhausted
    BY <1>5 DEF Schedule, ExhaustionIsFinal, Ready, Resumable, WithStatus, Open
  <2>4. QED
    BY <1>5, <2>2, <2>3 DEF Schedule, Control, ExhaustionIsFinal
<1>6. CASE ScheduleStopped
  BY <1>2, <1>6 DEF ScheduleStopped, Grown, Control
<1>7. CASE RoundStopped
  <2>1. CASE Exhaust
    BY <1>2, <1>7, <2>1 DEF RoundStopped, Grown, Control
  <2>2. CASE UNCHANGED <<exhausted, status, lstatus>>
    BY <1>7, <2>2 DEF RoundStopped, Control, ExhaustionIsFinal, WithStatus
  <2>3. QED
    BY <1>7, <2>1, <2>2 DEF RoundStopped
<1>8. ASSUME NEW w \in WorkId, Invoke(w) PROVE Control' /\ ExhaustionIsFinal'
  <2>1. ~exhausted /\ w \in batch
    BY <1>8, InvokedIsActive DEF Invoke
  <2>2. QED
    BY <1>8, <2>1 DEF Invoke, Control, ExhaustionIsFinal, WithStatus
<1>9. ASSUME NEW w \in WorkId, InvokeRefused(w) PROVE Control' /\ ExhaustionIsFinal'
  <2>1. ~exhausted /\ pc = "loop"
    BY <1>9, InvokedIsActive DEF InvokeRefused
  <2>2. \A v \in WorkId : v # w => status'[v] = status[v]
    BY <1>9 DEF InvokeRefused, Moved
  <2>3. QED
    BY <1>9, <2>1, <2>2 DEF InvokeRefused, Control, ExhaustionIsFinal, WithStatus
<1>10. ASSUME NEW w \in WorkId, AnswerFails(w) \/ Block(w) \/ Complete(w)
       PROVE  Control' /\ ExhaustionIsFinal'
  BY <1>1, <1>10 DEF AnswerFails, Block, Complete, Moved
<1>11. ASSUME NEW w \in WorkId, Continue(w) \/ Verify(w)
       PROVE  Control' /\ ExhaustionIsFinal'
  BY <1>1, <1>11 DEF Continue, Verify
<1>12. ASSUME NEW w \in WorkId, ForkStopped(w) PROVE Control' /\ ExhaustionIsFinal'
  BY <1>2, <1>12 DEF ForkStopped, Answered
<1>13. ASSUME NEW w \in WorkId, NEW k \in 2 .. MaxWork, Fork(w, k)
       PROVE  Control' /\ ExhaustionIsFinal'
  <2>1. \A v \in WorkId : v # w /\ status[v] = "ACTIVE" => status'[v] = "ACTIVE"
    BY <1>13 DEF Fork
  <2>2. exhausted' = exhausted
    BY <1>13 DEF Fork, Added
  <2>3. QED
    BY <1>1, <1>13, <2>1, <2>2 DEF Fork
<1>14. ASSUME NEW w \in WorkId, NEW k \in WorkId, Spawn(w, k)
       PROVE  Control' /\ ExhaustionIsFinal'
  <2>1. \A v \in WorkId : v # w /\ status[v] = "ACTIVE" => status'[v] = "ACTIVE"
    BY <1>14 DEF Spawn
  <2>2. exhausted' = exhausted
    BY <1>14 DEF Spawn, Added
  <2>3. QED
    BY <1>1, <1>14, <2>1, <2>2 DEF Spawn
<1>15. CASE Finish
  BY <1>15 DEF Finish, Control, ExhaustionIsFinal, WithStatus
<1>16. CASE Finished \/ UNCHANGED vars
  BY <1>16 DEF Finished, vars, Control, ExhaustionIsFinal, WithStatus
<1>17. QED
  BY <1>3, <1>4, <1>5, <1>6, <1>7, <1>8, <1>9, <1>10, <1>11, <1>12, <1>13, <1>14,
     <1>15, <1>16 DEF Next

\* One more step, invocation or lineage stays within a budget not yet reached.
LEMMA TickBelow ==
  ASSUME NEW limit \in Nat \cup {Unlimited}, NEW count \in Nat,
         limit # Unlimited => count <= limit, ~Reached(limit, count)
  PROVE  limit # Unlimited => Tick(limit, count) <= limit
BY DEF Tick, Reached

LEMMA BudgetStep ==
  ASSUME EngineInv, [Next]_vars
  PROVE  BudgetsHold'
<1> USE EngineInvParts DEF control, genealogy, artifacts
<1>a. /\ StepLimit \in Nat \cup {Unlimited}
      /\ InvocationLimit \in Nat \cup {Unlimited}
      /\ LineageLimit \in Nat \cup {Unlimited}
      /\ steps \in Nat /\ invocations \in Nat /\ lineages \in Nat
  BY EngineAssumption, ConstantTypes DEF TypeOK, LineageId
<1>1. ASSUME UNCHANGED <<steps, invocations, lineages>>, pc' # "invoke" \/ pc' = pc
      PROVE  BudgetsHold'
  BY <1>1 DEF BudgetsHold
<1>2. ASSUME NEW w \in WorkId, Invoke(w) PROVE BudgetsHold'
  <2>1. ~Reached(StepLimit, steps) /\ ~Reached(InvocationLimit, invocations)
        /\ ~Reached(LineageLimit, lineages)
    BY <1>2 DEF Invoke, Step, RunStop
  <2>2. /\ StepLimit # Unlimited => steps' <= StepLimit
        /\ InvocationLimit # Unlimited => invocations' <= InvocationLimit
    BY <1>2, <1>a, <2>1, TickBelow DEF Invoke, Step, BudgetsHold
  <2>3. LineageLimit # Unlimited => lineages < LineageLimit
    BY <1>a, <2>1 DEF Reached
  <2>4. QED
    BY <1>2, <1>a, <2>2, <2>3 DEF Invoke, BudgetsHold
<1>3. ASSUME NEW w \in WorkId, InvokeRefused(w) PROVE BudgetsHold'
  <2>1. ~Reached(StepLimit, steps) /\ pc' = "loop"
    BY <1>3 DEF InvokeRefused, Step, RunStop, IsNext
  <2>2. StepLimit # Unlimited => steps' <= StepLimit
    BY <1>3, <1>a, <2>1, TickBelow DEF InvokeRefused, Step, BudgetsHold
  <2>3. QED
    BY <1>3, <2>1, <2>2 DEF InvokeRefused, BudgetsHold
<1>4. ASSUME NEW w \in WorkId, NEW k \in 2 .. MaxWork, Fork(w, k) PROVE BudgetsHold'
  <2>1. /\ pc' = "loop" /\ UNCHANGED <<steps, invocations>> /\ lineages' = lineages + k
        /\ LineageLimit # Unlimited => ~(lineages + k > LineageLimit)
    BY <1>4 DEF Fork, Answered, ForkStop
  <2>2. k \in Nat
    BY ConstantTypes
  <2>3. LineageLimit # Unlimited => lineages' <= LineageLimit
    BY <1>a, <2>1, <2>2
  <2>4. QED
    BY <2>1, <2>3 DEF BudgetsHold
<1>5. ASSUME NEW w \in WorkId,
             AnswerFails(w) \/ Continue(w) \/ Verify(w) \/ Block(w) \/ Complete(w)
             \/ ForkStopped(w) \/ \E k \in WorkId : Spawn(w, k)
      PROVE  BudgetsHold'
  <2>1. UNCHANGED <<steps, invocations, lineages>> /\ pc' # "invoke"
    BY <1>5 DEF AnswerFails, Continue, Verify, Block, Complete, ForkStopped, Spawn,
                Answered, Grown
  <2>2. QED
    BY <1>1, <2>1
<1>6. CASE Begin \/ BeginRefused \/ Schedule \/ ScheduleStopped \/ RoundStopped \/ Finish
  <2>2. UNCHANGED <<steps, invocations, lineages>>
    BY <1>6 DEF Begin, BeginRefused, Schedule, ScheduleStopped, RoundStopped, Finish
  <2>3. pc' # "invoke" \/ pc' = pc
    BY <1>6 DEF Begin, BeginRefused, Schedule, ScheduleStopped, RoundStopped, Finish
  <2>4. QED
    BY <1>1, <2>2, <2>3
<1>7. CASE Finished \/ UNCHANGED vars
  <2>1. UNCHANGED <<steps, invocations, lineages, pc>>
    BY <1>7 DEF Finished, vars
  <2>2. QED
    BY <1>1, <2>1
<1>8. QED
  BY <1>2, <1>3, <1>4, <1>5, <1>6, <1>7 DEF Next

LEMMA InvStep ==
  ASSUME EngineInv, [Next]_vars
  PROVE  EngineInv'
<1>1. TypeOK'
  BY TypeStep, EngineInvParts DEF Ids
<1>2. Ids' /\ Forest' /\ ParentWaits' /\ StatusFollows' /\ RefFollows'
  BY ForestStep
<1>3. Control' /\ ExhaustionIsFinal' /\ BudgetsHold'
  BY ControlStep, BudgetStep
<1>4. QED
  BY <1>1, <1>2, <1>3
     DEF EngineInv, Bookkeeping, LineageFollowsMain, Ids, Control, StatusFollows, RefFollows

LEMMA InitInv == Init => EngineInv
<1> SUFFICES ASSUME Init PROVE EngineInv
  OBVIOUS
<1>1. TypeOK
  BY InitType
<1>2. Created = {1}
  BY ConstantTypes DEF Init, Created
<1>3. Ids /\ Control
  BY <1>2, ConstantTypes DEF Init, Ids, Control, WorkId, LineageId, WithStatus
<1>4. Forest /\ ParentWaits /\ StatusFollows /\ RefFollows
  BY <1>2, ConstantTypes
     DEF Init, Forest, ParentWaits, StatusFollows, RefFollows, IsMain, WithStatus, Open
<1>5. BudgetsHold /\ ExhaustionIsFinal
  BY EngineAssumption DEF Init, BudgetsHold, ExhaustionIsFinal
<1>6. QED
  BY <1>1, <1>3, <1>4, <1>5, EngineInvParts
-----------------------------------------------------------------------------
(* A run that stops has no open work.                                      *)

\* Every nonempty set of work ids has a largest member.
LEMMA LargestWork ==
  ASSUME NEW W \in SUBSET WorkId, W # {}
  PROVE  \E w \in W : \A v \in W : v <= w
<1> DEFINE T == {MaxWork - w : w \in W}
<1>a. MaxWork \in Nat /\ \A v \in W : v \in Nat /\ v <= MaxWork
  BY ConstantTypes DEF WorkId
<1>1. T \subseteq Nat /\ T # {}
  BY <1>a
<1>2. PICK n \in T : \A m \in T : ~ (<<m, n>> \in OpToRel(<, Nat))
  <2>1. IsWellFoundedOn(OpToRel(<, Nat), Nat)
    BY NatLessThanWellFounded
  <2>2. QED
    BY <1>1, <2>1, WFMin
<1>3. \A m \in T : ~(m < n)
  BY <1>1, <1>2 DEF OpToRel
<1>4. PICK w \in W : n = MaxWork - w
  BY <1>2
<1>5. \A v \in W : v <= w
  <2>1. TAKE v \in W
  <2>2. ~(MaxWork - v < MaxWork - w)
    BY <1>3, <1>4
  <2>3. v \in Nat /\ w \in Nat
    BY <1>a
  <2>4. QED
    BY <1>a, <2>2, <2>3
<1>6. QED
  BY <1>5

\* An open unit that is neither ready nor going to be would need an open child;
\* the youngest open unit has none, because children are younger.
LEMMA QuiescenceIsClosure ==
  ASSUME TypeOK, Forest, Ready = {}
  PROVE  WithStatus(Open) = {}
<1> DEFINE W == WithStatus(Open)
<1>1. SUFFICES ASSUME W # {} PROVE FALSE
  OBVIOUS
<1>2. PICK w \in W : \A v \in W : v <= w
  BY <1>1, LargestWork DEF WithStatus
<1>3. w \in WorkId /\ status[w] = "WAITING" /\ w \notin Resumable
  BY <1>2 DEF WithStatus, Open, Ready
<1>4. PICK c \in Children(w) : status[c] \notin Terminal
  BY <1>3 DEF Resumable, WithStatus
<1>5. c \in WorkId /\ c \in Created /\ unit[c].parent = w
  BY DEF Children, Created
<1>6. c \in W
  BY <1>4, <1>5 DEF TypeOK, Status, Created, WithStatus
<1>7. ~IsMain(c)
  BY <1>3, <1>5, ConstantTypes DEF IsMain, WorkId
<1>8. w < c
  BY <1>5, <1>7 DEF Forest
<1>9. QED
  BY <1>2, <1>3, <1>5, <1>6, <1>8, ConstantTypes DEF WorkId

LEMMA QuiescentStep ==
  ASSUME EngineInv, NothingLeftBehind, [Next]_vars
  PROVE  NothingLeftBehind'
<1> USE DEF control, genealogy
<1>1. CASE Finish
  <2>1. WithStatus(Open) = {}
    BY <1>1, EngineInvParts, QuiescenceIsClosure DEF Finish
  <2>2. QED
    BY <1>1, <2>1 DEF Finish, NothingLeftBehind, WithStatus
<1>2. CASE Finished \/ UNCHANGED vars
  BY <1>2 DEF Finished, vars, NothingLeftBehind, WithStatus
<1>3. CASE Begin \/ BeginRefused \/ Schedule \/ ScheduleStopped \/ RoundStopped
  <2>1. pc' # "done"
    BY <1>3 DEF Begin, BeginRefused, Schedule, ScheduleStopped, RoundStopped
  <2>2. QED
    BY <2>1 DEF NothingLeftBehind
<1>4. ASSUME NEW w \in WorkId, Invoke(w) \/ InvokeRefused(w)
      PROVE  NothingLeftBehind'
  BY <1>4 DEF Invoke, InvokeRefused, Step, IsNext, NothingLeftBehind
<1>5. ASSUME NEW w \in WorkId,
             \/ AnswerFails(w) \/ Continue(w) \/ Verify(w) \/ Block(w) \/ Complete(w)
             \/ ForkStopped(w) \/ \E k \in 2 .. MaxWork : Fork(w, k)
             \/ \E k \in WorkId : Spawn(w, k)
      PROVE  NothingLeftBehind'
  <2>1. pc' = "loop"
    BY <1>5 DEF AnswerFails, Continue, Verify, Block, Complete, ForkStopped, Fork, Spawn,
                Answered
  <2>2. QED
    BY <2>1 DEF NothingLeftBehind
<1>6. QED
  BY <1>1, <1>2, <1>3, <1>4, <1>5 DEF Next
-----------------------------------------------------------------------------
(* What a step leaves alone.                                               *)

\* No step touches the status or the commit of a terminal unit: a step moves
\* open units, the ACTIVE unit it is about, and ids that were not handed out.
LEMMA TerminalStays ==
  ASSUME EngineInv, Next, NEW v \in WorkId, status[v] \in Terminal
  PROVE  status'[v] = status[v] /\ ref'[v] = ref[v]
<1> USE EngineInvParts DEF control, genealogy, artifacts
<1>a. status[v] \notin {"ACTIVE", "WAITING", "ABSENT"}
  BY DEF Terminal
<1>1. ASSUME Exhaust PROVE status'[v] = status[v]
  BY <1>1, <1>a DEF Exhaust, Moved, WithStatus, Open
<1>2. CASE Begin \/ Finish \/ Finished
  BY <1>2 DEF Begin, Finish, Finished, vars
<1>3. CASE BeginRefused
  <2>1. v # 1
    BY <1>3, <1>a DEF BeginRefused, Control
  <2>2. QED
    BY <1>3, <2>1 DEF BeginRefused, Moved
<1>4. CASE Schedule
  BY <1>4, <1>a DEF Schedule, Moved, Resumable, WithStatus
<1>5. CASE ScheduleStopped \/ RoundStopped
  BY <1>1, <1>5 DEF ScheduleStopped, RoundStopped
<1>6. ASSUME NEW w \in WorkId, Invoke(w) \/ InvokeRefused(w)
      PROVE  status'[v] = status[v] /\ ref'[v] = ref[v]
  <2>1. v # w
    BY <1>6, <1>a, InvokedIsActive DEF Invoke, InvokeRefused
  <2>2. ref'[v] = ref[v]
    <3>1. CASE \E c : ref' = [ref EXCEPT ![w] = c]
      BY <2>1, <3>1 DEF TypeOK
    <3>2. QED
      BY <1>6, <3>1, OpenMovesRef DEF Invoke, InvokeRefused
  <2>3. status'[v] = status[v]
    BY <1>6, <2>1 DEF Invoke, InvokeRefused, Moved
  <2>4. QED
    BY <2>2, <2>3
<1>7. ASSUME NEW w \in WorkId,
             AnswerFails(w) \/ Continue(w) \/ Verify(w) \/ Block(w) \/ Complete(w)
      PROVE  status'[v] = status[v] /\ ref'[v] = ref[v]
  <2>1. v # w
    BY <1>7, <1>a, AnsweredIsActive DEF AnswerFails, Continue, Verify, Block, Complete
  <2>2. \E r : ref' = [ref EXCEPT ![w] = r.ref]
    BY <1>7 DEF AnswerFails, Continue, Verify, Block, Complete, Settled
  <2>3. status'[v] = status[v]
    BY <1>7, <2>1 DEF AnswerFails, Continue, Verify, Block, Complete, Moved
  <2>4. QED
    BY <2>1, <2>2, <2>3 DEF TypeOK
<1>8. ASSUME NEW w \in WorkId, ForkStopped(w)
      PROVE  status'[v] = status[v] /\ ref'[v] = ref[v]
  BY <1>1, <1>8 DEF ForkStopped
<1>9. ASSUME NEW w \in WorkId, NEW k \in WorkId, Fork(w, k) \/ Spawn(w, k)
      PROVE  status'[v] = status[v] /\ ref'[v] = ref[v]
  <2>1. v # w
    BY <1>9, <1>a, AnsweredIsActive DEF Fork, Spawn
  <2>2. v \notin works + 1 .. works + k
    <3>1. v <= works
      BY <1>a DEF Ids
    <3>2. v \in Nat /\ works \in Nat /\ k \in Nat
      BY ConstantTypes DEF TypeOK, WorkId
    <3>3. QED
      BY <3>1, <3>2
  <2>3. status'[v] = status[v]
    BY <1>9, <2>1, <2>2 DEF Fork, Spawn
  <2>4. ref'[v] = ref[v]
    BY <1>9, <2>1, <2>2 DEF Fork, Spawn, Added
  <2>5. QED
    BY <2>3, <2>4
<1>10. ASSUME NEW w \in WorkId, NEW k \in 2 .. MaxWork, Fork(w, k)
       PROVE  status'[v] = status[v] /\ ref'[v] = ref[v]
  <2>1. k \in WorkId
    BY ConstantTypes DEF WorkId
  <2>2. QED
    BY <1>9, <1>10, <2>1
<1>11. QED
  BY <1>2, <1>3, <1>4, <1>5, <1>6, <1>7, <1>8, <1>9, <1>10 DEF Next

\* Only resume makes a WAITING unit ACTIVE.
LEMMA OnlyResumeActivates ==
  ASSUME EngineInv, Next, NEW w \in WithStatus({"WAITING"}), status'[w] = "ACTIVE"
  PROVE  w \in Resumable
<1> USE EngineInvParts DEF control, genealogy
<1>1. w \in WorkId /\ status[w] = "WAITING"
  BY DEF WithStatus
<1>2. CASE Schedule
  BY <1>1, <1>2 DEF Schedule, Moved
<1>3. CASE \/ Begin \/ BeginRefused \/ ScheduleStopped \/ RoundStopped
           \/ Finish \/ Finished
  BY <1>1, <1>3
     DEF Begin, BeginRefused, ScheduleStopped, RoundStopped, Finish, Finished, vars,
         Exhaust, Moved
<1>4. ASSUME NEW v \in WorkId,
             \/ Invoke(v) \/ InvokeRefused(v)
             \/ AnswerFails(v) \/ Continue(v) \/ Verify(v) \/ Block(v) \/ Complete(v)
             \/ ForkStopped(v)
      PROVE  FALSE
  BY <1>1, <1>4
     DEF Invoke, InvokeRefused, AnswerFails, Continue, Verify, Block, Complete,
         ForkStopped, Exhaust, Moved
<1>5. ASSUME NEW v \in WorkId, NEW k \in WorkId, Fork(v, k) \/ Spawn(v, k)
      PROVE  FALSE
  <2>1. w \notin works + 1 .. works + k
    <3>1. w \in Nat /\ works \in Nat /\ k \in Nat
      BY <1>1, ConstantTypes DEF TypeOK, WorkId
    <3>2. w <= works
      BY <1>1 DEF Ids
    <3>3. QED
      BY <3>1, <3>2
  <2>2. QED
    BY <1>1, <1>5, <2>1 DEF Fork, Spawn
<1>6. ASSUME NEW v \in WorkId, NEW k \in 2 .. MaxWork, Fork(v, k)
      PROVE  FALSE
  BY <1>5, <1>6, ConstantTypes DEF WorkId
<1>7. QED
  BY <1>2, <1>3, <1>4, <1>5, <1>6 DEF Next

LEMMA EvidenceStep ==
  ASSUME TypeOK, EvidenceIsCurrent, [Next]_vars
  PROVE  EvidenceIsCurrent'
<1> USE DEF verification
<1>1. CASE UNCHANGED verification
  BY <1>1 DEF EvidenceIsCurrent
<1>2. ASSUME NEW w \in WorkId, checks' = checks, evidence' = Delivered(w, evidence[w])
      PROVE  EvidenceIsCurrent'
  BY <1>2 DEF EvidenceIsCurrent, Delivered, TypeOK
<1>3. ASSUME NEW w \in WorkId, Verify(w)
      PROVE  EvidenceIsCurrent'
  <2>1. \A v \in WorkId : evidence'[v] \in {0, checks'[v]}
    BY <1>3 DEF Verify, EvidenceIsCurrent, Delivered, TypeOK
  <2>2. QED
    BY <2>1 DEF EvidenceIsCurrent
<1>4. ASSUME NEW w \in WorkId,
             \/ Continue(w) \/ Block(w) \/ Complete(w)
             \/ \E k \in 2 .. MaxWork : Fork(w, k)
             \/ \E k \in WorkId : Spawn(w, k)
      PROVE  EvidenceIsCurrent'
  <2>1. checks' = checks /\ evidence' = Delivered(w, evidence[w])
    BY <1>4 DEF Continue, Block, Complete, Fork, Spawn, Added
  <2>2. QED
    BY <1>2, <2>1
<1>5. CASE \/ Begin \/ BeginRefused \/ Schedule \/ ScheduleStopped \/ RoundStopped
           \/ Finish \/ Finished \/ UNCHANGED vars
  BY <1>1, <1>5
     DEF Begin, BeginRefused, Schedule, ScheduleStopped, RoundStopped, Finish, Finished, vars
<1>6. ASSUME NEW w \in WorkId,
             Invoke(w) \/ InvokeRefused(w) \/ AnswerFails(w) \/ ForkStopped(w)
      PROVE  EvidenceIsCurrent'
  BY <1>1, <1>6 DEF Invoke, InvokeRefused, AnswerFails, ForkStopped
<1>7. QED
  BY <1>3, <1>4, <1>5, <1>6 DEF Next
-----------------------------------------------------------------------------
(* The theorems.                                                           *)

\* Every reachable state satisfies the inductive invariant.
THEOREM Invariance == Spec => []EngineInv
<1>1. Init => EngineInv
  BY InitInv
<1>2. EngineInv /\ [Next]_vars => EngineInv'
  BY InvStep
<1>3. QED
  BY <1>1, <1>2, PTL DEF Spec

\* Every variable keeps the type its part of the engine's state has.
THEOREM TypeCorrect == Spec => []TypeOK
<1>1. EngineInv => TypeOK
  BY DEF EngineInv
<1>2. QED
  BY <1>1, Invariance, PTL

\* Work that is not terminal has a parent that waits for it (resume, SPAWN).
THEOREM ParentsWait == Spec => []ParentWaits
<1>1. EngineInv => ParentWaits
  BY DEF EngineInv
<1>2. QED
  BY <1>1, Invariance, PTL

\* sync and updateArtifact reach the lineage on every path.
THEOREM LineagesFollow == Spec => []LineageFollowsMain
<1>1. EngineInv => LineageFollowsMain
  BY DEF EngineInv
<1>2. QED
  BY <1>1, Invariance, PTL

\* Work ids and lineage ids form the forest their parentIds describe.
THEOREM IdsFormForest == Spec => []Forest
<1>1. EngineInv => Forest
  BY DEF EngineInv
<1>2. QED
  BY <1>1, Invariance, PTL

\* checkpoint admits nothing over the configured budgets.
THEOREM BudgetsAreHeld == Spec => []BudgetsHold
<1>1. EngineInv => BudgetsHold
  BY DEF EngineInv
<1>2. QED
  BY <1>1, Invariance, PTL

\* Once a budget has stopped the run no unit is open again.
THEOREM ExhaustionCloses == Spec => []ExhaustionIsFinal
<1>1. EngineInv => ExhaustionIsFinal
  BY DEF EngineInv
<1>2. QED
  BY <1>1, Invariance, PTL

\* When the loop finds nothing to select, no unit is ACTIVE or WAITING.
THEOREM RunsClose == Spec => []NothingLeftBehind
<1>1. Init => NothingLeftBehind
  BY DEF Init, NothingLeftBehind
<1>2. EngineInv /\ NothingLeftBehind /\ [Next]_vars => NothingLeftBehind'
  BY QuiescentStep
<1>3. QED
  BY <1>1, <1>2, Invariance, PTL DEF Spec

\* A terminal unit keeps its status and the commit it reported.
THEOREM OutcomesStay == Spec => OutcomesAreFinal
<1>1. EngineInv /\ Next => \A w \in WorkId : status[w] \in Terminal =>
                             status'[w] = status[w] /\ ref'[w] = ref[w]
  BY TerminalStays
<1>2. QED
  BY <1>1, Invariance, PTL DEF Spec, OutcomesAreFinal

\* A parent is resumed only with the outcomes of all the work it spawned.
THEOREM ResumptionIsInformed == Spec => ResumedWithOutcomes
<1>1. ASSUME EngineInv, Next, NEW w \in WithStatus({"WAITING"}), status'[w] = "ACTIVE",
             NEW c \in Children(w)
      PROVE  status[c] \in Terminal /\ status'[c] = status[c]
  <2>1. status[c] \in Terminal
    BY <1>1, OnlyResumeActivates DEF Resumable
  <2>2. QED
    BY <1>1, <2>1, TerminalStays DEF Children, Created
<1>2. EngineInv /\ Next => \A w \in WithStatus({"WAITING"}) : status'[w] = "ACTIVE" =>
        \A c \in Children(w) : status[c] \in Terminal /\ status'[c] = status[c]
  BY <1>1
<1>3. QED
  BY <1>2, Invariance, PTL DEF Spec, ResumedWithOutcomes

\* Evidence pending for an invocation is that of the latest verification.
THEOREM EvidenceStaysCurrent == Spec => []EvidenceIsCurrent
<1>1. Init => EvidenceIsCurrent
  BY DEF Init, EvidenceIsCurrent
<1>2. TypeOK /\ EvidenceIsCurrent /\ [Next]_vars => EvidenceIsCurrent'
  BY EvidenceStep
<1>3. QED
  BY <1>1, <1>2, TypeCorrect, PTL DEF Spec
-----------------------------------------------------------------------------
(* The engine implements WorkForest: ids stand for themselves, parentId    *)
(* for parent.                                                             *)

parent == [w \in WorkId |-> unit[w].parent]

LEMMA InitRefines == Init => Promise!Init
BY ConstantTypes DEF Init, Promise!Init, WorkId

\* A step that leaves every status and every unit alone is a stutter.
LEMMA Stutters ==
  ASSUME status' = status, unit' = unit
  PROVE  UNCHANGED <<status, parent>>
BY DEF parent

LEMMA SettleRefines ==
  ASSUME TypeOK, NEW w \in WorkId, status[w] = "ACTIVE",
         NEW st \in {"BLOCKED", "COMPLETED"}, Moved({w}, st), unit' = unit
  PROVE  Promise!Settle(w)
<1>1. status' = [status EXCEPT ![w] = st]
  BY DEF TypeOK, Moved
<1>2. QED
  BY <1>1 DEF Promise!Settle

LEMMA AbandonRefines ==
  ASSUME Exhaust, unit' = unit, TypeOK
  PROVE  Promise!Abandon
<1>1. status' = [w \in WorkId |-> IF status[w] \in {"ACTIVE", "WAITING"}
                                  THEN "BLOCKED" ELSE status[w]]
  BY DEF Exhaust, Moved, WithStatus, Open
<1>2. QED
  BY <1>1 DEF Promise!Abandon

LEMMA ResumeRefines ==
  ASSUME TypeOK, Moved(Resumable, "ACTIVE"), unit' = unit
  PROVE  \/ UNCHANGED <<status, parent>>
         \/ \E S \in SUBSET Promise!Having("WAITING") : Promise!Resume(S)
<1>1. CASE Resumable = {}
  <2>1. status' = status
    BY <1>1 DEF Moved, TypeOK
  <2>2. QED
    BY <2>1, Stutters
<1>2. CASE Resumable # {}
  <2>1. Resumable \in SUBSET Promise!Having("WAITING")
    BY DEF Resumable, WithStatus, Promise!Having
  <2>2. \A w \in Resumable : \A c \in Promise!Spawned(w) : status[c] \in Promise!Resolved
    BY DEF Resumable, WithStatus, Children, Created, Terminal, Promise!Spawned, Promise!Resolved
  <2>3. Promise!Resume(Resumable)
    BY <1>2, <2>2 DEF Promise!Resume, Moved
  <2>4. QED
    BY <2>1, <2>3
<1>3. QED
  BY <1>1, <1>2

\* The ids FORK and SPAWN hand out were ABSENT.
LEMMA NewIsAbsent ==
  ASSUME EngineInv, NEW k \in WorkId, works + k <= MaxWork
  PROVE  /\ works + 1 .. works + k \in SUBSET Promise!Having("ABSENT")
         /\ works + 1 .. works + k # {}
<1>1. works \in Nat /\ k \in Nat /\ k >= 1
  BY ConstantTypes, EngineInvParts DEF TypeOK, WorkId
<1>2. \A v \in works + 1 .. works + k : v \in WorkId /\ ~(v <= works)
  BY <1>1, ConstantTypes DEF WorkId
<1>3. \A v \in works + 1 .. works + k : status[v] = "ABSENT"
  BY <1>2, EngineInvParts DEF Ids
<1>4. works + 1 \in works + 1 .. works + k
  BY <1>1
<1>5. QED
  BY <1>2, <1>3, <1>4 DEF Promise!Having

LEMMA ForkRefines ==
  ASSUME EngineInv, NEW w \in WorkId, NEW k \in 2 .. MaxWork, Fork(w, k)
  PROVE  \E C \in SUBSET Promise!Having("ABSENT") : Promise!Branch(w, C)
<1> DEFINE New == works + 1 .. works + k
<1>1. New \in SUBSET Promise!Having("ABSENT") /\ New # {}
  BY NewIsAbsent, ConstantTypes DEF Fork, WorkId
<1>2. status[w] = "ACTIVE"
  BY AnsweredIsActive, EngineInvParts DEF Fork
<1>3. PICK p \in [New -> Priorities] :
        unit' = [v \in WorkId |-> IF v \in New THEN ForkedUnits(w, k, p)[v] ELSE unit[v]]
  BY DEF Fork, Added
<1>4. parent' = [v \in WorkId |-> IF v \in New THEN 0 ELSE parent[v]]
  BY <1>3 DEF parent, ForkedUnits
<1>5. Promise!Branch(w, New)
  BY <1>1, <1>2, <1>4 DEF Fork, Promise!Branch, Promise!Grow, parent
<1>6. QED
  BY <1>1, <1>5

LEMMA SpawnRefines ==
  ASSUME EngineInv, NEW w \in WorkId, NEW k \in WorkId, Spawn(w, k)
  PROVE  \E C \in SUBSET Promise!Having("ABSENT") : Promise!Delegate(w, C)
<1> DEFINE New == works + 1 .. works + k
<1>1. New \in SUBSET Promise!Having("ABSENT") /\ New # {}
  BY NewIsAbsent DEF Spawn
<1>2. status[w] = "ACTIVE"
  BY AnsweredIsActive, EngineInvParts DEF Spawn
<1>3. PICK p \in [New -> Priorities] :
        unit' = [v \in WorkId |-> IF v \in New THEN SpawnedUnits(w, k, p)[v] ELSE unit[v]]
  BY DEF Spawn, Added
<1>4. parent' = [v \in WorkId |-> IF v \in New THEN w ELSE parent[v]]
  BY <1>3 DEF parent, SpawnedUnits
<1>5. Promise!Delegate(w, New)
  BY <1>1, <1>2, <1>4 DEF Spawn, Promise!Delegate, Promise!Grow, parent
<1>6. QED
  BY <1>1, <1>5

LEMMA StepRefines ==
  ASSUME EngineInv, [Next]_vars
  PROVE  Promise!Next \/ UNCHANGED <<status, parent>>
<1> USE EngineInvParts DEF control, genealogy
<1>1. CASE Begin \/ Finish \/ Finished \/ UNCHANGED vars
  BY <1>1, Stutters DEF Begin, Finish, Finished, vars
<1>2. CASE BeginRefused
  <2>1. 1 \in WorkId /\ status[1] = "ACTIVE" /\ unit' = unit /\ Moved({1}, "BLOCKED")
    BY <1>2, ConstantTypes DEF BeginRefused, Control
  <2>2. QED
    BY <2>1, SettleRefines DEF Promise!Next
<1>3. CASE Schedule
  BY <1>3, ResumeRefines DEF Schedule, Promise!Next
<1>4. ASSUME Exhaust, unit' = unit
      PROVE  Promise!Next
  BY <1>4, AbandonRefines DEF Promise!Next
<1>5. CASE ScheduleStopped \/ RoundStopped
  <2>1. unit' = unit /\ (Exhaust \/ status' = status)
    BY <1>5 DEF ScheduleStopped, RoundStopped
  <2>2. QED
    BY <1>4, <2>1, Stutters
<1>6. ASSUME NEW w \in WorkId, Invoke(w) \/ Continue(w) \/ Verify(w)
      PROVE  UNCHANGED <<status, parent>>
  BY <1>6, Stutters DEF Invoke, Continue, Verify, Grown
<1>7. ASSUME NEW w \in WorkId,
             InvokeRefused(w) \/ AnswerFails(w) \/ Block(w) \/ Complete(w)
      PROVE  Promise!Next
  <2>1. status[w] = "ACTIVE" /\ unit' = unit
    BY <1>7, InvokedIsActive, AnsweredIsActive
       DEF InvokeRefused, AnswerFails, Block, Complete, Grown
  <2>2. \E st \in {"BLOCKED", "COMPLETED"} : Moved({w}, st)
    BY <1>7 DEF InvokeRefused, AnswerFails, Block, Complete
  <2>3. QED
    BY <2>1, <2>2, SettleRefines DEF Promise!Next
<1>8. ASSUME NEW w \in WorkId, ForkStopped(w)
      PROVE  Promise!Next
  BY <1>4, <1>8 DEF ForkStopped, Grown
<1>9. ASSUME NEW w \in WorkId, NEW k \in 2 .. MaxWork, Fork(w, k)
      PROVE  Promise!Next
  BY <1>9, ForkRefines DEF Promise!Next
<1>10. ASSUME NEW w \in WorkId, NEW k \in WorkId, Spawn(w, k)
       PROVE  Promise!Next
  BY <1>10, SpawnRefines DEF Promise!Next
<1>11. QED
  BY <1>1, <1>2, <1>3, <1>5, <1>6, <1>7, <1>8, <1>9, <1>10 DEF Next

\* The engine, started and run in any way, is a behaviour of WorkForest.
THEOREM Refinement == Spec => ImplementsWorkForest
<1>1. Init => Promise!Init
  BY InitRefines
<1>2. EngineInv /\ [Next]_vars => [Promise!Next]_<<status, parent>>
  BY StepRefines
<1>3. QED
  BY <1>1, <1>2, Invariance, PTL DEF Spec, ImplementsWorkForest, Promise!Spec, parent
-----------------------------------------------------------------------------
(* What a step does to the commits and the worktrees.                      *)

\* A worktree is there only once it was attempted, and a scripted executor leaves
\* edits behind only in a unit it blocked.
WorktreeInv ==
  \A w \in WorkId :
    /\ tree[w] # "none" => Backend /\ w \in attempted
    /\ tree[w] = "dirty" /\ ~Protocol => status[w] = "BLOCKED"

\* The unit w, which a step is about, keeps its commit or makes one of its own.
OwnCommit(w) == ref'[w] = ref[w] \/ (ref'[w][1] = w /\ ref'[w] = Advance(w, "dirty"))

\* Edits leave the worktree of w only by a commit.
WorktreeKept(w) ==
  /\ Opened(w) => tree'[w] \in {"clean", "dirty"}
  /\ tree[w] = "dirty" /\ tree'[w] # "dirty" => ref'[w] # ref[w]
  /\ tree'[w] # "none" => Backend /\ w \in attempted'

LEMMA AdvanceMoves ==
  ASSUME TypeOK, NEW w \in WorkId
  PROVE  /\ Advance(w, "dirty")[1] = w
         /\ Advance(w, "dirty") # ref[w]
<1>1. ref[w] \in (0 .. MaxWork) \X (0 .. MaxCommits)
  BY DEF TypeOK, Refs
<1>2. ref[w][2] \in Nat
  BY <1>1, ConstantTypes
<1>3. QED
  BY <1>2 DEF Advance

\* The worktree, ref and success of the effects of a response.
LEMMA OutcomeMoves ==
  ASSUME TypeOK, NEW w \in WorkId, NEW r \in CommitOutcomes(w)
  PROVE  /\ r.ref = ref[w] \/ (Protocol /\ r.ref = Advance(w, "dirty"))
         /\ Opened(w) => r.tree \in {"clean", "dirty"}
         /\ tree[w] = "dirty" /\ r.tree # "dirty" => r.ref # ref[w]
         /\ r.tree # "none" => tree[w] # "none"
         /\ ~Protocol => r.tree = tree[w]
<1>1. \A t \in Edited(w) : /\ Opened(w) => t \in {"clean", "dirty"}
                           /\ tree[w] = "dirty" => t = "dirty"
                           /\ t # "none" => tree[w] # "none"
                           /\ ~Protocol => t = tree[w]
  BY DEF Edited, Opened
<1>2. Advance(w, "dirty") # ref[w]
  BY AdvanceMoves
<1>3. \A t : Advance(w, t) = IF t = "dirty" THEN Advance(w, "dirty") ELSE ref[w]
  BY DEF Advance
<1>4. \A s \in Unchanged(w) : s.ref = ref[w] /\ s.tree \in Edited(w)
  BY DEF Unchanged
<1>5. \A s \in Performed(w) :
        /\ Protocol /\ Opened(w) /\ s.tree = "clean"
        /\ \E t \in Edited(w) : s.ref = Advance(w, t)
  BY DEF Performed
<1>6. \E s \in Unchanged(w) \cup Performed(w) : r.tree = s.tree /\ r.ref = s.ref
  BY DEF CommitOutcomes, Refused
<1>7. PICK s \in Unchanged(w) \cup Performed(w) : r.tree = s.tree /\ r.ref = s.ref
  BY <1>6
<1>8. CASE s \in Unchanged(w)
  BY <1>1, <1>4, <1>7, <1>8
<1>9. CASE s \in Performed(w)
  <2>1. PICK t \in Edited(w) : s.ref = Advance(w, t)
    BY <1>5, <1>9
  <2>2. tree[w] = "dirty" => s.ref = Advance(w, "dirty")
    BY <1>1, <1>3, <2>1
  <2>3. QED
    BY <1>2, <1>3, <1>5, <1>7, <1>9, <2>1, <2>2 DEF Opened
<1>10. QED
  BY <1>7, <1>8, <1>9

\* A step is about one unit: no other unit's worktree changes, and of the units
\* there already are no other's commit.
Subject(w) ==
  /\ \A v \in WorkId \ {w} : tree'[v] = tree[v]
  /\ \A v \in Created \ {w} : ref'[v] = ref[v]
  /\ attempted \subseteq attempted'
  /\ OwnCommit(w) /\ WorktreeKept(w)
  /\ tree'[w] = "dirty" /\ ~Protocol => status'[w] = "BLOCKED"

LEMMA QuietSubject ==
  ASSUME EngineInv, WorktreeInv, Next, UNCHANGED artifacts
  PROVE  1 \in Created /\ Subject(1)
<1>1. 1 \in Created
  BY EngineInvParts, ConstantTypes DEF Created, Ids, TypeOK, WorkId
<1>2. status[1] = "BLOCKED" => status'[1] = "BLOCKED"
  BY <1>1, TerminalStays DEF Terminal, Created
<1>3. 1 \in WorkId /\ UNCHANGED <<tree, ref, attempted>>
  BY <1>1 DEF artifacts, Created
<1>4. OwnCommit(1) /\ WorktreeKept(1)
  BY <1>3 DEF OwnCommit, WorktreeKept, WorktreeInv, Opened
<1>5. QED
  BY <1>1, <1>2, <1>3, <1>4 DEF Subject, WorktreeInv

LEMMA SettledSubject ==
  ASSUME TypeOK, WorktreeInv, NEW w \in WorkId, status[w] = "ACTIVE",
         NEW r \in CommitOutcomes(w), tree' = [tree EXCEPT ![w] = r.tree],
         \A v \in Created \ {w} : ref'[v] = ref[v], ref'[w] = r.ref, attempted' = attempted
  PROVE  Subject(w)
<1>1. tree'[w] = r.tree /\ \A v \in WorkId \ {w} : tree'[v] = tree[v]
  BY DEF TypeOK
<1>2. OwnCommit(w)
  BY OutcomeMoves, AdvanceMoves DEF OwnCommit
<1>3. WorktreeKept(w)
  BY <1>1, OutcomeMoves DEF WorktreeKept, WorktreeInv
<1>4. ~Protocol => tree'[w] # "dirty"
  BY <1>1, OutcomeMoves DEF WorktreeInv
<1>5. QED
  BY <1>1, <1>2, <1>3, <1>4 DEF Subject

LEMMA OpenSubject ==
  ASSUME EngineInv, WorktreeInv, NEW w \in WorkId, Invoke(w) \/ InvokeRefused(w)
  PROVE  Subject(w)
<1> USE EngineInvParts
<1>1. status[w] = "ACTIVE" /\ w \in Created
  BY InvokedIsActive DEF Invoke, InvokeRefused
<1>2. CASE UNCHANGED artifacts
  <2>1. UNCHANGED <<tree, ref, attempted>>
    BY <1>2 DEF artifacts
  <2>2. QED
    BY <1>1, <2>1 DEF Subject, OwnCommit, WorktreeKept, WorktreeInv, Opened
<1>3. PICK ok \in BOOLEAN : OpenOutcome(w, ok) /\ (Invoke(w) => ok) /\ (~ok => InvokeRefused(w))
  BY DEF Invoke, InvokeRefused
<1>4. CASE NeedsWorkspace(w)
  <2>1. Backend /\ w \notin attempted /\ attempted' = attempted \cup {w} /\ tree[w] = "none"
    BY <1>3, <1>4 DEF OpenOutcome, NeedsWorkspace, WorktreeInv
  <2>2. CASE Protocol
    <3>1. /\ tree' = [tree EXCEPT ![w] = IF ok THEN "clean" ELSE "none"]
          /\ ref' = ref
      BY <1>3, <1>4, <2>2 DEF OpenOutcome
    <3>2. tree'[w] \in {"clean", "none"} /\ \A v \in WorkId \ {w} : tree'[v] = tree[v]
      BY <3>1 DEF TypeOK
    <3>3. QED
      BY <2>1, <2>2, <3>1, <3>2 DEF Subject, OwnCommit, WorktreeKept, Opened
  <2>3. CASE ~Protocol
    <3>1. PICK r \in Executed(w) :
            /\ ok => r.tree = "removed"
            /\ tree' = [tree EXCEPT ![w] = r.tree] /\ ref' = [ref EXCEPT ![w] = r.ref]
      BY <1>3, <1>4, <2>3 DEF OpenOutcome
    <3>2. /\ tree'[w] = r.tree /\ \A v \in WorkId \ {w} : tree'[v] = tree[v]
          /\ ref'[w] = r.ref /\ \A v \in WorkId \ {w} : ref'[v] = ref[v]
      BY <3>1 DEF TypeOK
    <3>3. r.ref = ref[w] \/ r.ref = Advance(w, "dirty")
      BY DEF Executed
    <3>4. OwnCommit(w) /\ WorktreeKept(w)
      BY <2>1, <3>2, <3>3, AdvanceMoves DEF OwnCommit, WorktreeKept, Opened
    <3>5. tree'[w] = "dirty" => status'[w] = "BLOCKED"
      BY <1>3, <3>1, <3>2 DEF InvokeRefused, Moved
    <3>6. QED
      BY <2>1, <3>2, <3>4, <3>5 DEF Subject, Created
  <2>4. QED
    BY <2>2, <2>3
<1>5. QED
  BY <1>2, <1>3, <1>4 DEF OpenOutcome

LEMMA GrowthSubject ==
  ASSUME EngineInv, WorktreeInv, NEW w \in WorkId, NEW k \in WorkId, Fork(w, k) \/ Spawn(w, k)
  PROVE  Subject(w) /\ w \in Created
<1> USE EngineInvParts
<1> DEFINE New == works + 1 .. works + k
<1>1. status[w] = "ACTIVE" /\ w \in Created
  BY AnsweredIsActive DEF Fork, Spawn
<1>2. \A v \in Created : v \notin New
  <2>1. TAKE v \in Created
  <2>2. v <= works
    BY DEF Created, Ids
  <2>3. v \in Nat /\ works \in Nat /\ k \in Nat
    BY ConstantTypes DEF Created, TypeOK, WorkId
  <2>4. QED
    BY <2>2, <2>3
<1>3. PICK r \in CheckedOutcomes(w) :
        /\ tree' = [tree EXCEPT ![w] = r.tree] /\ attempted' = attempted
        /\ \E inherited : ref' = [v \in WorkId |-> IF v = w THEN r.ref
                                    ELSE IF v \in New THEN inherited ELSE ref[v]]
  <2>1. CASE Fork(w, k)
    <3>1. PICK r \in CheckedOutcomes(w), p \in [New -> Priorities] :
            Added(w, r, New, LineageRef(w, r.ref)[unit[w].lineage], ForkedUnits(w, k, p))
      BY <2>1 DEF Fork
    <3>2. QED
      BY <3>1 DEF Added
  <2>2. CASE Spawn(w, k)
    <3>1. PICK r \in CheckedOutcomes(w), p \in [New -> Priorities] :
            Added(w, r, New, r.ref, SpawnedUnits(w, k, p))
      BY <2>2 DEF Spawn
    <3>2. QED
      BY <3>1 DEF Added
  <2>3. QED
    BY <2>1, <2>2
<1> HIDE DEF New
<1>4. r \in CommitOutcomes(w)
  BY DEF CheckedOutcomes
<1>5. ref'[w] = r.ref /\ \A v \in Created \ {w} : ref'[v] = ref[v]
  BY <1>2, <1>3 DEF Created
<1>6. QED
  BY <1>1, <1>3, <1>4, <1>5, SettledSubject

LEMMA AnswerSubject ==
  ASSUME EngineInv, WorktreeInv, NEW w \in WorkId,
         \/ AnswerFails(w) \/ Continue(w) \/ Verify(w) \/ Block(w) \/ Complete(w)
         \/ ForkStopped(w)
  PROVE  Subject(w) /\ w \in Created
<1> USE EngineInvParts
<1>1. status[w] = "ACTIVE" /\ w \in Created
  BY AnsweredIsActive DEF AnswerFails, Continue, Verify, Block, Complete, ForkStopped
<1>2. CASE \E r \in CommitOutcomes(w) : Settled(w, r)
  <2>1. PICK r \in CommitOutcomes(w) : Settled(w, r)
    BY <1>2
  <2>2. /\ tree' = [tree EXCEPT ![w] = r.tree] /\ attempted' = attempted
        /\ ref'[w] = r.ref /\ \A v \in Created \ {w} : ref'[v] = ref[v]
    BY <2>1 DEF Settled, TypeOK, Created
  <2>3. QED
    BY <1>1, <2>2, SettledSubject
<1>3. CASE ForkStopped(w)
  <2>1. PICK t \in Edited(w) : tree' = [tree EXCEPT ![w] = t]
    BY <1>3 DEF ForkStopped
  <2>2. [tree |-> t, ref |-> ref[w], ok |-> TRUE] \in CommitOutcomes(w)
    BY DEF CommitOutcomes, Unchanged
  <2>3. attempted' = attempted /\ ref' = ref
    BY <1>3 DEF ForkStopped
  <2>4. QED
    BY <1>1, <2>1, <2>2, <2>3, SettledSubject DEF Created
<1>4. QED
  BY <1>1, <1>2, <1>3
     DEF AnswerFails, Continue, Verify, Block, Complete, CheckedOutcomes

LEMMA StepSubject ==
  ASSUME EngineInv, WorktreeInv, Next, ~Finish
  PROVE  \E w \in Created : Subject(w)
<1>1. CASE \/ Begin \/ BeginRefused \/ Schedule \/ ScheduleStopped \/ RoundStopped \/ Finished
  <2>1. UNCHANGED artifacts
    BY <1>1
       DEF Begin, BeginRefused, Schedule, ScheduleStopped, RoundStopped, Finished, vars
  <2>2. QED
    BY <2>1, QuietSubject
<1>2. ASSUME NEW w \in WorkId, Invoke(w) \/ InvokeRefused(w)
      PROVE  Subject(w) /\ w \in Created
  BY <1>2, OpenSubject, InvokedIsActive, EngineInvParts DEF Invoke, InvokeRefused
<1>3. ASSUME NEW w \in WorkId, NEW k \in 2 .. MaxWork, Fork(w, k)
      PROVE  Subject(w) /\ w \in Created
  <2>1. k \in WorkId
    BY ConstantTypes DEF WorkId
  <2>2. QED
    BY <1>3, <2>1, GrowthSubject
<1>4. QED
  BY <1>1, <1>2, <1>3, AnswerSubject, GrowthSubject DEF Next

\* The end of the run removes worktrees that hold no edit.
LEMMA FinishKeeps ==
  ASSUME Finish, TypeOK
  PROVE  /\ \A v \in WorkId : /\ tree'[v] = tree[v] \/ (tree[v] = "clean" /\ tree'[v] = "removed")
                              /\ ref'[v] = ref[v]
         /\ UNCHANGED <<ref, attempted, status, works>> /\ pc' = "done"
BY DEF Finish, Releasable, genealogy

LEMMA WorktreeStep ==
  ASSUME EngineInv, WorktreeInv, [Next]_vars
  PROVE  WorktreeInv'
<1>1. CASE UNCHANGED vars
  BY <1>1 DEF WorktreeInv, vars, artifacts, genealogy
<1>2. CASE Finish
  BY <1>2, FinishKeeps, EngineInvParts DEF WorktreeInv
<1>3. CASE Next /\ ~Finish
  <2>1. PICK w \in Created : Subject(w)
    BY <1>3, StepSubject
  <2>2. \A v \in WorkId : status[v] = "BLOCKED" => status'[v] = "BLOCKED"
    BY <1>3, TerminalStays DEF Terminal
  <2>3. QED
    BY <2>1, <2>2 DEF WorktreeInv, Subject, WorktreeKept
<1>4. QED
  BY <1>1, <1>2, <1>3
-----------------------------------------------------------------------------
(* Creators and ancestry.                                                  *)

\* Every lineage has its main unit.
LineagesLed ==
  \A l \in 1 .. lineages : \E w \in Created : IsMain(w) /\ unit[w].lineage = l

LEMMA MainIs ==
  ASSUME Forest, NEW w \in Created, IsMain(w)
  PROVE  Main(unit[w].lineage) = w
BY DEF Main, Forest

LEMMA LeaderOf ==
  ASSUME LineagesLed, NEW l \in 1 .. lineages
  PROVE  Main(l) \in Created /\ IsMain(Main(l)) /\ unit[Main(l)].lineage = l
BY DEF Main, LineagesLed

LEMMA ParentLineage ==
  ASSUME TypeOK, Ids, Forest, NEW u \in Created
  PROVE  /\ unit[u].lineage \in 1 .. lineages
         /\ lparent[unit[u].lineage] = 0 \/ lparent[unit[u].lineage] \in 1 .. lineages
<1> DEFINE l == unit[u].lineage
<1>1. l \in LineageId /\ l <= lineages /\ lineages \in LineageId
  BY DEF TypeOK, Ids, Created
<1>a. lparent[l] \in 0 .. MaxWork
  BY <1>1 DEF TypeOK
<1> HIDE DEF l
<1>2. l \in Nat /\ l >= 1 /\ lineages \in Nat /\ lparent[l] \in Nat
  BY <1>1, <1>a, ConstantTypes DEF LineageId
<1>3. l \in 1 .. lineages
  BY <1>1, <1>2
<1>4. lparent[l] < l
  BY <1>3 DEF Forest
<1>5. lparent[l] = 0 \/ lparent[l] \in 1 .. lineages
  BY <1>1, <1>2, <1>4
<1>6. QED
  BY <1>3, <1>5 DEF l

LEMMA CreatorIsCreated ==
  ASSUME TypeOK, Ids, Forest, LineagesLed, NEW u \in Created
  PROVE  Creator(u) \in Created \cup {0}
<1>1. CASE ~IsMain(u)
  BY <1>1, ParentIsCreated DEF Creator
<1>2. CASE IsMain(u)
  BY <1>2, ParentLineage, LeaderOf DEF Creator
<1>3. QED
  BY <1>1, <1>2

\* What a FORK or SPAWN of w adds: units made out of w, and the lineages they lead.
MadeOf(c, w) ==
  \/ unit'[c].parent = w
  \/ /\ unit'[c].parent = 0 /\ IsMain(w)
     /\ unit'[c].lineage \in lineages + 1 .. lineages'
     /\ lparent'[unit'[c].lineage] = unit[w].lineage

\* A step keeps the units and lineages there are, and what it adds w makes.
Grows(w) ==
  /\ Created \subseteq Created'
  /\ \A v \in Created : unit'[v] = unit[v]
  /\ lineages <= lineages' /\ \A l \in 1 .. lineages : lparent'[l] = lparent[l]
  /\ \A l \in lineages + 1 .. lineages' :
       \E c \in Created' : unit'[c].parent = 0 /\ unit'[c].lineage = l
  /\ \A c \in Created' \ Created : MadeOf(c, w) /\ ref'[c] = ref'[w] /\ tree'[w] # "dirty"
  /\ \A c \in works + 1 .. works' : c \in Created' \ Created

LEMMA QuietGrows ==
  ASSUME TypeOK, Ids, Grown, Created' = Created, NEW w
  PROVE  Grows(w)
<1>1. lineages \in Nat /\ works \in Nat
  BY ConstantTypes DEF TypeOK, LineageId, WorkId
<1>2. lineages + 1 .. lineages' = {} /\ works + 1 .. works' = {}
  BY <1>1 DEF Grown
<1>3. QED
  BY <1>1, <1>2 DEF Grows, Grown

\* The outcome of a response that passed the CHECK effect leaves no edit.
LEMMA CheckedIsClean ==
  ASSUME TypeOK, WorktreeInv, NEW w \in WorkId, status[w] = "ACTIVE",
         NEW r \in CheckedOutcomes(w)
  PROVE  r \in CommitOutcomes(w) /\ r.tree # "dirty"
<1>1. r \in CommitOutcomes(w) /\ (Protocol /\ Backend => r.tree = "clean")
  BY DEF CheckedOutcomes
<1>2. r.tree = "dirty" => tree[w] # "none"
  BY <1>1, OutcomeMoves
<1>3. tree[w] # "none" => Backend
  BY DEF WorktreeInv
<1>4. ~Protocol => r.tree = tree[w]
  BY <1>1, OutcomeMoves
<1>5. QED
  BY <1>1, <1>2, <1>3, <1>4 DEF WorktreeInv

LEMMA SpawnGrows ==
  ASSUME EngineInv, WorktreeInv, NEW w \in WorkId, NEW k \in WorkId, Spawn(w, k)
  PROVE  w \in Created /\ Grows(w)
<1> USE EngineInvParts
<1> DEFINE New == works + 1 .. works + k
<1>1. k \in Nat /\ works \in Nat /\ works' = works + k /\ works + k <= MaxWork
  BY ConstantTypes DEF Spawn, WorkId, TypeOK
<1>2. status[w] = "ACTIVE" /\ w \in Created
  BY AnsweredIsActive DEF Spawn
<1>3. /\ New \subseteq WorkId /\ w \notin New
      /\ Created \cap New = {} /\ Created' = Created \cup New
  <2>1. /\ TypeOK /\ Ids
        /\ status' = [v \in WorkId |-> IF v = w THEN "WAITING"
                                     ELSE IF v \in New THEN "ACTIVE" ELSE status[v]]
    BY DEF Spawn
  <2>2. /\ New \subseteq WorkId /\ w \notin New /\ w \in Created
        /\ Created \cap New = {} /\ Created' = Created \cup New
        /\ \A v \in WorkId : status'[v] # "ABSENT" <=> v <= works'
        /\ status'[w] = "WAITING" /\ \A v \in New : status'[v] = "ACTIVE"
        /\ \A v \in WorkId \ (New \cup {w}) : status'[v] = status[v]
    BY <1>1, <1>2, <2>1, FreshUnits
  <2>3. QED
    BY <2>2
<1>4. PICK r \in CheckedOutcomes(w), p \in [New -> Priorities] :
        Added(w, r, New, r.ref, SpawnedUnits(w, k, p))
  BY DEF Spawn
<1>5. r.tree # "dirty"
  BY <1>2, CheckedIsClean
<1>6. \A c \in New : unit'[c].parent = w /\ ref'[c] = ref'[w]
  BY <1>3, <1>4 DEF Added, SpawnedUnits
<1>7. \A v \in Created : unit'[v] = unit[v]
  BY <1>3, <1>4 DEF Added, Created
<1>8. tree'[w] # "dirty"
  BY <1>4, <1>5 DEF Added, TypeOK
<1>a. lineages \in LineageId
  BY DEF TypeOK
<1>9. lineages' = lineages /\ lparent' = lparent /\ lineages \in Nat
  BY <1>a, ConstantTypes DEF Spawn, LineageId
<1>10. lineages + 1 .. lineages' = {}
  BY <1>9
<1>11. works + 1 .. works' = New
  BY <1>1
<1> HIDE DEF New
<1>12. Created' \ Created = New /\ Created \subseteq Created'
  BY <1>3
<1>13. \A c \in New : MadeOf(c, w) /\ ref'[c] = ref'[w] /\ tree'[w] # "dirty"
  BY <1>6, <1>8 DEF MadeOf
<1>14. lineages <= lineages' /\ \A l \in 1 .. lineages : lparent'[l] = lparent[l]
  BY <1>9
<1>15. QED
  BY <1>2, <1>7, <1>10, <1>11, <1>12, <1>13, <1>14 DEF Grows

LEMMA ForkGrows ==
  ASSUME EngineInv, WorktreeInv, NEW w \in WorkId, NEW k \in 2 .. MaxWork, Fork(w, k)
  PROVE  w \in Created /\ Grows(w)
<1> USE EngineInvParts
<1> DEFINE New == works + 1 .. works + k
           NewLineages == lineages + 1 .. lineages + k
           own == unit[w].lineage
<1>1. /\ k \in Nat /\ works \in Nat /\ works' = works + k /\ works + k <= MaxWork
      /\ lineages \in Nat /\ lineages' = lineages + k /\ lineages <= works
  <2>1. works \in WorkId /\ lineages \in LineageId /\ lineages <= works
    BY DEF TypeOK, Ids
  <2>2. QED
    BY <2>1, ConstantTypes DEF Fork, WorkId, LineageId
<1>2. status[w] = "ACTIVE" /\ w \in Created /\ IsMain(w)
  BY AnsweredIsActive DEF Fork
<1>3. /\ New \subseteq WorkId /\ w \notin New
      /\ Created \cap New = {} /\ Created' = Created \cup New
  <2>1. /\ TypeOK /\ Ids
        /\ status' = [v \in WorkId |-> IF v = w THEN "BRANCHED"
                                     ELSE IF v \in New THEN "ACTIVE" ELSE status[v]]
    BY DEF Fork
  <2>2. QED
    BY <1>1, <1>2, <2>1, FreshUnits
<1>4. PICK r \in CheckedOutcomes(w), p \in [New -> Priorities] :
        Added(w, r, New, LineageRef(w, r.ref)[own], ForkedUnits(w, k, p))
  BY DEF Fork
<1>5. r.tree # "dirty"
  BY <1>2, CheckedIsClean
<1>6. own \in LineageId
  BY DEF TypeOK
<1>7. LineageRef(w, r.ref)[own] = r.ref
  BY <1>2, <1>6 DEF LineageRef, TypeOK
<1>8. \A c \in New : /\ unit'[c].parent = 0 /\ unit'[c].lineage = lineages + c - works
                     /\ ref'[c] = ref'[w]
  BY <1>3, <1>4, <1>7 DEF Added, ForkedUnits
<1>9. \A v \in Created : unit'[v] = unit[v]
  BY <1>3, <1>4 DEF Added, Created
<1>10. tree'[w] # "dirty"
  BY <1>4, <1>5 DEF Added, TypeOK
<1>11. NewLineages \subseteq LineageId /\ 1 .. lineages \subseteq LineageId
  BY <1>1, ConstantTypes DEF LineageId
<1>12. \A l \in LineageId : lparent'[l] = IF l \in NewLineages THEN own ELSE lparent[l]
  BY DEF Fork
<1>13. \A l \in 1 .. lineages : l \notin NewLineages
  BY <1>1
<1>14. \A c \in New : lineages + c - works \in NewLineages
  BY <1>1
<1>15. ASSUME NEW l \in NewLineages
       PROVE  \E c \in New : lineages + c - works = l
  <2>1. works + l - lineages \in New /\ lineages + (works + l - lineages) - works = l
    BY <1>1
  <2>2. QED
    BY <2>1
<1>16. lineages + 1 .. lineages' = NewLineages /\ works + 1 .. works' = New
       /\ lineages <= lineages'
  BY <1>1
<1> HIDE DEF New, NewLineages
<1>17. \A c \in New : MadeOf(c, w)
  BY <1>2, <1>8, <1>11, <1>12, <1>14, <1>16 DEF MadeOf
<1>18. \A l \in NewLineages : \E c \in Created' : unit'[c].parent = 0 /\ unit'[c].lineage = l
  BY <1>3, <1>8, <1>15
<1>19. \A l \in 1 .. lineages : lparent'[l] = lparent[l]
  BY <1>11, <1>12, <1>13
<1>20. QED
  BY <1>2, <1>3, <1>8, <1>9, <1>10, <1>16, <1>17, <1>18, <1>19 DEF Grows

\* Only FORK and SPAWN create units and lineages.
Settles(w) ==
  \/ Invoke(w) \/ InvokeRefused(w)
  \/ AnswerFails(w) \/ Continue(w) \/ Verify(w) \/ Block(w) \/ Complete(w)
  \/ ForkStopped(w)
Turns ==
  \/ Begin \/ BeginRefused \/ Schedule \/ ScheduleStopped \/ RoundStopped
  \/ Finish \/ Finished

LEMMA NoGrowth ==
  ASSUME EngineInv, Turns \/ (\E w \in WorkId : Settles(w)) \/ UNCHANGED vars
  PROVE  Grown /\ Created' = Created
<1> USE EngineInvParts DEF genealogy
<1>0. 1 \in Created
  BY ConstantTypes DEF Created, Ids, TypeOK, WorkId
<1>1. ASSUME Grown, NEW S \in SUBSET Created, NEW st \in Status \ {"ABSENT"}, Moved(S, st)
      PROVE  Grown /\ Created' = Created
  BY <1>1, MovedKeepsForest
<1>2. ASSUME Grown, status' = status
      PROVE  Grown /\ Created' = Created
  BY <1>2 DEF Created
<1>3. ASSUME Grown, Exhaust
      PROVE  Grown /\ Created' = Created
  BY <1>3, ExhaustClosesAll
<1>a. /\ {"ACTIVE", "BLOCKED", "COMPLETED"} \subseteq Status \ {"ABSENT"}
      /\ Resumable \in SUBSET Created
      /\ \A w \in Created : {w} \in SUBSET Created
  BY DEF Status, Open, Terminal, Resumable, WithStatus, Created
<1>4. CASE Begin \/ Finish \/ Finished \/ UNCHANGED vars
  BY <1>2, <1>4 DEF Begin, Finish, Finished, vars, Grown
<1>5. CASE BeginRefused
  BY <1>0, <1>1, <1>5, <1>a DEF BeginRefused, Grown
<1>6. CASE Schedule
  BY <1>1, <1>6, <1>a DEF Schedule, Grown
<1>7. CASE ScheduleStopped \/ RoundStopped
  BY <1>2, <1>3, <1>7 DEF ScheduleStopped, RoundStopped, Grown
<1>8. ASSUME NEW w \in WorkId, Invoke(w) \/ Continue(w) \/ Verify(w)
      PROVE  Grown /\ Created' = Created
  BY <1>2, <1>8 DEF Invoke, Continue, Verify, Grown
<1>9. ASSUME NEW w \in WorkId, InvokeRefused(w)
      PROVE  Grown /\ Created' = Created
  <2>1. w \in Created
    BY <1>9, InvokedIsActive DEF InvokeRefused
  <2>2. Moved({w}, "BLOCKED") /\ Grown
    BY <1>9 DEF InvokeRefused, Grown
  <2>3. QED
    BY <1>1, <1>a, <2>1, <2>2
<1>10. ASSUME NEW w \in WorkId, AnswerFails(w) \/ Block(w) \/ Complete(w)
       PROVE  Grown /\ Created' = Created
  <2>1. w \in Created
    BY <1>10, AnsweredIsActive DEF AnswerFails, Block, Complete
  <2>2. (Moved({w}, "BLOCKED") \/ Moved({w}, "COMPLETED")) /\ Grown
    BY <1>10 DEF AnswerFails, Block, Complete
  <2>3. QED
    BY <1>1, <1>a, <2>1, <2>2
<1>11. ASSUME NEW w \in WorkId, ForkStopped(w)
       PROVE  Grown /\ Created' = Created
  BY <1>3, <1>11 DEF ForkStopped
<1>12. QED
  BY <1>4, <1>5, <1>6, <1>7, <1>8, <1>9, <1>10, <1>11 DEF Turns, Settles

LEMMA StepGrows ==
  ASSUME EngineInv, WorktreeInv, [Next]_vars
  PROVE  \E w \in Created : Grows(w)
<1> USE EngineInvParts
<1>1. CASE Turns \/ (\E w \in WorkId : Settles(w)) \/ UNCHANGED vars
  <2>1. Grown /\ Created' = Created
    BY <1>1, NoGrowth
  <2>2. 1 \in Created
    BY ConstantTypes DEF Created, Ids, TypeOK, WorkId
  <2>3. QED
    BY <2>1, <2>2, QuietGrows
<1>2. ASSUME NEW w \in WorkId, NEW k \in 2 .. MaxWork, Fork(w, k)
      PROVE  \E u \in Created : Grows(u)
  BY <1>2, ForkGrows
<1>3. ASSUME NEW w \in WorkId, NEW k \in WorkId, Spawn(w, k)
      PROVE  \E u \in Created : Grows(u)
  BY <1>3, SpawnGrows
<1>4. QED
  BY <1>1, <1>2, <1>3 DEF Next, Turns, Settles

LEMMA LedStep ==
  ASSUME LineagesLed, TypeOK, NEW w \in Created, Grows(w)
  PROVE  LineagesLed'
<1>1. SUFFICES ASSUME NEW l \in 1 .. lineages'
               PROVE  \E v \in Created' : unit'[v].parent = 0 /\ unit'[v].lineage = l
  BY DEF LineagesLed, IsMain
<1>2. lineages \in Nat
  BY ConstantTypes DEF TypeOK, LineageId
<1>3. l \in 1 .. lineages \/ l \in lineages + 1 .. lineages'
  BY <1>1, <1>2
<1>4. CASE l \in 1 .. lineages
  <2>1. PICK v \in Created : IsMain(v) /\ unit[v].lineage = l
    BY <1>4 DEF LineagesLed
  <2>2. v \in Created' /\ unit'[v] = unit[v]
    BY DEF Grows
  <2>3. QED
    BY <2>1, <2>2 DEF IsMain
<1>5. CASE l \in lineages + 1 .. lineages'
  BY <1>5 DEF Grows
<1>6. QED
  BY <1>3, <1>4, <1>5

\* The units there are keep their creators.
LEMMA CreatorStays ==
  ASSUME TypeOK, Ids, Forest, LineagesLed, NEW w \in Created, Grows(w), Forest',
         NEW u \in Created
  PROVE  Creator(u)' = Creator(u)
<1>1. unit'[u] = unit[u] /\ (IsMain(u)' <=> IsMain(u))
  BY DEF Grows, IsMain
<1>2. CASE ~IsMain(u)
  BY <1>1, <1>2 DEF Creator
<1>3. CASE IsMain(u)
  <2> DEFINE p == lparent[unit[u].lineage]
  <2>1. unit[u].lineage \in 1 .. lineages /\ (p = 0 \/ p \in 1 .. lineages)
    BY ParentLineage
  <2>2. lparent'[unit'[u].lineage] = p
    BY <1>1, <2>1 DEF Grows
  <2>3. CASE p = 0
    BY <1>1, <1>3, <2>2, <2>3 DEF Creator
  <2>4. CASE p # 0
    <3>1. p \in 1 .. lineages
      BY <2>1, <2>4
    <3>2. Main(p) \in Created /\ IsMain(Main(p)) /\ unit[Main(p)].lineage = p
      BY <3>1, LeaderOf
    <3>3. /\ Main(p) \in Created' /\ unit'[Main(p)].parent = 0
          /\ unit'[Main(p)].lineage = p
      BY <3>2 DEF Grows, IsMain
    <3>4. \A v \in Created' : unit'[v].parent = 0 /\ unit'[v].lineage = p => v = Main(p)
      BY <3>3 DEF Forest, IsMain
    <3>5. Creator(u)' = CHOOSE v \in Created' : unit'[v].parent = 0 /\ unit'[v].lineage = p
      BY <1>1, <1>3, <2>2, <2>4 DEF Creator, Main, IsMain
    <3>6. (CHOOSE v \in Created' : unit'[v].parent = 0 /\ unit'[v].lineage = p) = Main(p)
      BY <3>3, <3>4
    <3>7. Creator(u) = Main(p)
      BY <1>3, <2>4 DEF Creator
    <3>8. QED
      BY <3>5, <3>6, <3>7
  <2>5. QED
    BY <2>3, <2>4
<1>4. QED
  BY <1>2, <1>3

LEMMA CreatorOfMade ==
  ASSUME TypeOK, Ids, Forest', NEW w \in Created, Grows(w), NEW c \in Created' \ Created
  PROVE  Creator(c)' = w
<1>1. /\ w # 0 /\ w \in Created' /\ unit'[w] = unit[w] /\ MadeOf(c, w)
  BY ConstantTypes DEF Grows, Created, WorkId
<1>2. CASE unit'[c].parent = w
  BY <1>1, <1>2 DEF Creator, IsMain
<1>3. CASE unit'[c].parent # w
  <2> DEFINE own == unit[w].lineage
  <2>1. /\ unit'[c].parent = 0 /\ unit'[w].parent = 0
        /\ lparent'[unit'[c].lineage] = own
    BY <1>1, <1>3 DEF MadeOf, IsMain
  <2>2. own # 0
    <3>1. own \in LineageId
      BY DEF TypeOK, Created
    <3>2. QED
      BY <3>1, ConstantTypes DEF LineageId
  <2>3. \A v \in Created' : unit'[v].parent = 0 /\ unit'[v].lineage = own => v = w
    BY <1>1, <2>1 DEF Forest, IsMain
  <2>4. Creator(c)' = CHOOSE v \in Created' : unit'[v].parent = 0 /\ unit'[v].lineage = own
    BY <2>1, <2>2 DEF Creator, Main, IsMain
  <2>5. (CHOOSE v \in Created' : unit'[v].parent = 0 /\ unit'[v].lineage = own) = w
    BY <1>1, <2>1, <2>3
  <2>6. QED
    BY <2>4, <2>5
<1>4. QED
  BY <1>2, <1>3

LEMMA AncestryHas ==
  ASSUME NEW w \in WorkId
  PROVE  w \in Ancestry(w)
BY DEF Ancestry

\* What a lineal set with w has that Ancestry(w) is about.
LEMMA AncestryWithin ==
  ASSUME NEW w, NEW S \in SUBSET WorkId, w \in S, Lineal(S)
  PROVE  Ancestry(w) \subseteq S
<1>1. SUFFICES ASSUME NEW v \in Ancestry(w), v \notin S PROVE FALSE
  OBVIOUS
<1>2. S \in SUBSET (WorkId \ {v})
  BY <1>1
<1>3. QED
  BY <1>1, <1>2 DEF Ancestry

LEMMA AncestryIsCreated ==
  ASSUME TypeOK, Ids, Forest, LineagesLed, NEW w \in Created
  PROVE  Ancestry(w) \subseteq Created
<1>1. Created \in SUBSET WorkId /\ Lineal(Created)
  BY CreatorIsCreated DEF Lineal, Created
<1>2. QED
  BY <1>1, AncestryWithin

\* The ancestry of the units there are stays what it was, and that of a unit made
\* by w takes in that of w.
LEMMA AncestryGrows ==
  ASSUME TypeOK, Ids, Forest, LineagesLed, NEW u \in Created, Grows(u), Forest',
         NEW w \in Created
  PROVE  Ancestry(w) \subseteq Ancestry(w)'
<1>1. ASSUME NEW v \in Ancestry(w), NEW S \in SUBSET (WorkId \ {v}), w \in S, Lineal(S)'
      PROVE  FALSE
  <2>1. \A x \in S : Creator(x)' \in S \cup {0}
    BY <1>1 DEF Lineal
  <2>2. \A x \in S \cap Created : Creator(x) \in (S \cap Created) \cup {0}
    BY <2>1, CreatorStays, CreatorIsCreated
  <2>3. Lineal(S \cap Created)
    BY <2>2 DEF Lineal
  <2>4. Ancestry(w) \subseteq S \cap Created
    BY <1>1, <2>3, AncestryWithin
  <2>5. QED
    BY <1>1, <2>4
<1>2. Ancestry(w) \subseteq WorkId
  BY DEF Ancestry
<1>3. QED
  BY <1>1, <1>2 DEF Ancestry

LEMMA AncestryInherits ==
  ASSUME TypeOK, Ids, Forest', NEW w \in Created, Grows(w), NEW c \in Created' \ Created
  PROVE  Ancestry(w)' \subseteq Ancestry(c)'
<1>1. w # 0 /\ Creator(c)' = w
  BY CreatorOfMade, ConstantTypes DEF Created, WorkId
<1>2. \A S \in SUBSET WorkId : c \in S /\ Lineal(S)' => w \in S
  BY <1>1 DEF Lineal
<1>3. QED
  BY <1>2 DEF Ancestry
-----------------------------------------------------------------------------
(* Uncommitted edits, and the commits units work on.                       *)

LEMMA EditsStep ==
  ASSUME EngineInv, WorktreeInv, Next
  PROVE  /\ \A w \in WorkId :
              /\ Opened(w) /\ pc' # "done" => Opened(w)'
              /\ tree[w] = "dirty" /\ tree'[w] # "dirty" => ref'[w] # ref[w]
         /\ \A c \in works + 1 .. works' :
              ref'[c] = ref'[Creator(c)'] /\ tree'[Creator(c)'] # "dirty"
<1> USE EngineInvParts
<1>1. /\ \A w \in WorkId :
           /\ Opened(w) /\ pc' # "done" => Opened(w)'
           /\ tree[w] = "dirty" /\ tree'[w] # "dirty" => ref'[w] # ref[w]
  <2>1. CASE Finish
    BY <2>1, FinishKeeps
  <2>2. CASE ~Finish
    <3>1. PICK w \in Created : Subject(w)
      BY <2>2, StepSubject
    <3>2. QED
      BY <3>1 DEF Subject, WorktreeKept, Opened
  <2>3. QED
    BY <2>1, <2>2
<1>2. ASSUME NEW c \in works + 1 .. works'
      PROVE  ref'[c] = ref'[Creator(c)'] /\ tree'[Creator(c)'] # "dirty"
  <2>1. PICK w \in Created : Grows(w)
    BY StepGrows
  <2>2. c \in Created' \ Created
    BY <1>2, <2>1 DEF Grows
  <2>3. Creator(c)' = w
    BY <2>1, <2>2, CreatorOfMade, ForestStep
  <2>4. QED
    BY <2>1, <2>2, <2>3 DEF Grows
<1>3. QED
  BY <1>1, <1>2

LEMMA OwnWorldStep ==
  ASSUME EngineInv, WorktreeInv, LineagesLed, OwnWorld, [Next]_vars
  PROVE  OwnWorld'
<1> USE EngineInvParts
<1>1. PICK u \in Created : Grows(u)
  BY StepGrows
<1>2. Forest' /\ Created \subseteq Created' /\ Created' \subseteq WorkId
  BY <1>1, ForestStep DEF Grows, Created
<1>3. ASSUME NEW w \in Created
      PROVE  ref'[w][1] \in {0} \cup Ancestry(w)'
  <2>1. ref'[w] = ref[w] \/ ref'[w][1] = w
    <3>1. CASE UNCHANGED vars
      BY <3>1 DEF vars, artifacts
    <3>2. CASE Finish
      BY <3>2, FinishKeeps
    <3>3. CASE Next /\ ~Finish
      BY <3>3, StepSubject DEF Subject, OwnCommit
    <3>4. QED
      BY <3>1, <3>2, <3>3
  <2>2. Ancestry(w) \subseteq Ancestry(w)'
    BY <1>1, <1>2, AncestryGrows
  <2>3. w \in Ancestry(w)
    BY AncestryHas DEF Created
  <2>4. QED
    BY <2>1, <2>2, <2>3 DEF OwnWorld
<1>4. ASSUME NEW c \in Created' \ Created
      PROVE  ref'[c][1] \in {0} \cup Ancestry(c)'
  <2>1. ref'[c] = ref'[u]
    BY <1>1 DEF Grows
  <2>2. Ancestry(u)' \subseteq Ancestry(c)'
    BY <1>1, <1>2, AncestryInherits
  <2>3. QED
    BY <1>3, <2>1, <2>2
<1>5. QED
  BY <1>3, <1>4 DEF OwnWorld

\* The inductive invariant with the worktrees and the leaders of lineages.
LineageInv == EngineInv /\ WorktreeInv /\ LineagesLed

LEMMA LineageInvInit == Init => LineageInv
<1> SUFFICES ASSUME Init PROVE LineageInv
  OBVIOUS
<1>1. WorktreeInv
  BY DEF Init, WorktreeInv
<1>2. 1 \in Created /\ IsMain(1) /\ unit[1].lineage = 1
  BY ConstantTypes DEF Init, Created, IsMain
<1>3. \A l \in 1 .. lineages : l = 1
  BY DEF Init
<1>4. QED
  BY <1>1, <1>2, <1>3, InitInv DEF LineageInv, LineagesLed

LEMMA LineageInvStep == LineageInv /\ [Next]_vars => LineageInv'
<1> SUFFICES ASSUME LineageInv, [Next]_vars PROVE LineageInv'
  OBVIOUS
<1>1. EngineInv'
  BY InvStep DEF LineageInv
<1>2. WorktreeInv'
  BY WorktreeStep DEF LineageInv
<1>3. LineagesLed'
  BY StepGrows, LedStep, EngineInvParts DEF LineageInv
<1>4. QED
  BY <1>1, <1>2, <1>3 DEF LineageInv

\* Every reachable state satisfies it: besides EngineInv, no worktree without an
\* attempt to open it, and no lineage without its main unit.
THEOREM LineageInvariance == Spec => []LineageInv
<1>1. QED
  BY LineageInvInit, LineageInvStep, PTL DEF Spec

\* D042: the engine keeps every workspace and every uncommitted edit until the end
\* of the run, and FORK and SPAWN start from committed state.
THEOREM EditsStay == Spec => EditsAreKept
<1>1. LineageInv /\ Next =>
        /\ \A w \in WorkId :
             /\ Opened(w) /\ pc' # "done" => Opened(w)'
             /\ tree[w] = "dirty" /\ tree'[w] # "dirty" => ref'[w] # ref[w]
        /\ \A c \in works + 1 .. works' :
             LET w == Creator(c)'
             IN  ref'[c] = ref'[w] /\ tree'[w] # "dirty"
  BY EditsStep DEF LineageInv
<1>2. QED
  BY <1>1, LineageInvariance, PTL DEF Spec, EditsAreKept

\* D036: a unit works on commits of its own and of the units it descends from.
THEOREM WorldsAreOwn == Spec => []OwnWorld
<1>1. Init => OwnWorld
  BY DEF Init, OwnWorld, RootRef, Created
<1>2. LineageInv /\ OwnWorld /\ [Next]_vars => OwnWorld'
  BY OwnWorldStep DEF LineageInv
<1>3. QED
  BY <1>1, <1>2, LineageInvariance, PTL DEF Spec
-----------------------------------------------------------------------------
(* The experiment that drives the engine.                                  *)

\* What execute() is doing, and what the phases say of the engine and the evidence.
DriverInv ==
  /\ Protocol /\ Backend
  /\ stage = "idle" <=> pc # "invoke"
  /\ phase = "setup" => works = 1 /\ ref[1] = RootRef
  /\ phase # "running" => pc # "invoke"
  /\ phase \in {"running", "saving"} => archive # {}
  /\ phase \in {"setup", "running", "saving"} => ~saved
  /\ history \in [Refs -> SUBSET Refs]
  /\ world \in [WorkId -> SUBSET Refs]

\* Commits are numbered in the order their unit made them: nobody is at a commit
\* of w that w itself has not reached.
CommitsInOrder ==
  \A v \in Created : ref[v] # RootRef =>
    LET w == ref[v][1]
    IN  w \in Created /\ ref[w][1] = w /\ ref[v][2] <= ref[w][2]

\* The commits the database of w may have.
Fair(w, r) ==
  \/ r = RootRef
  \/ r[1] \in Ancestry(w)
  \/ r[1] \in Created /\ status[r[1]] \in Terminal /\ unit[r[1]].lineage \in Lines(w)

\* They are what its own commit is built from, too.
WorldInv ==
  /\ \A w \in Created : \A r \in world[w] \cup history[ref[w]] : Fair(w, r)
  /\ \A w \in WorkId \ Created : world[w] = {}

\* A run that reports no error has its evidence as soon as the driver saved it.
EvidenceInv ==
  phase \in {"closing", "concluded", "finished"} /\ saved /\ ~error =>
    \A w \in Created : w \in exported /\ ref[w] \in archive /\ (Opened(w) => w \in copies)

\* One record "started" and one operation per invocation, the record first; an
\* invocation that got no record leaves the records behind for good.
Paired(n) == \A i \in 1 .. n : started[i].work = operations[i]
RecordsInv ==
  /\ started \in Seq([index : Nat, work : WorkId]) /\ operations \in Seq(WorkId)
  /\ \A i \in 1 .. Len(started) : started[i].index = i
  /\ stage # "started" => /\ Len(started) <= Len(operations)
                          /\ Len(started) = Len(operations) => Paired(Len(operations))
  /\ stage = "started" =>
       /\ Len(started) <= Len(operations) + 1
       /\ Len(started) = Len(operations) + 1 =>
            Paired(Len(operations)) /\ started[Len(started)].work = cur
  /\ phase \in {"concluded", "finished"} => result = Len(started)

\* A hook is at work only in a run that is over.
HookInv ==
  /\ marker \in BOOLEAN
  /\ ~marker => phase = "finished"
  /\ \A h \in Hooks : hook[h] # "idle" => phase = "finished"

\* Every step of the experiment is a step of its engine, or leaves it alone.
LEMMA DrivesEngine ==
  ASSUME [ExperimentNext]_<<run, engine>>
  PROVE  [Next]_vars
<1>1. ASSUME UNCHANGED engine PROVE [Next]_vars
  BY <1>1 DEF engine, vars
<1>2. CASE UNCHANGED <<run, engine>> \/ Rest
  BY <1>1, <1>2 DEF Rest
<1>3. CASE \/ Prepare \/ SaveEvidence \/ Conclude \/ RemoveMarker
           \/ \E h \in Hooks : Evaluate(h) \/ EvaluationEnds(h)
  BY <1>1, <1>3
     DEF Prepare, SaveEvidence, Conclude, RemoveMarker, Evaluate, EvaluationEnds
<1>4. CASE Schedules
  BY <1>4 DEF Schedules, Next
<1>5. CASE Release
  BY <1>5 DEF Release, Next
<1>6. ASSUME NEW w \in WorkId, Call(w) \/ OpenFails(w) \/ Start(w) \/ StartFails(w)
      PROVE  [Next]_vars
  BY <1>1, <1>6 DEF Call, OpenFails, Start, StartFails, Next
<1>7. ASSUME NEW w \in WorkId, SolverFails(w) \/ Blocks(w) \/ Returns(w)
      PROVE  [Next]_vars
  BY <1>7 DEF SolverFails, Blocks, Returns, Next
<1>8. QED
  BY <1>2, <1>3, <1>4, <1>5, <1>6, <1>7 DEF ExperimentNext
-----------------------------------------------------------------------------
(* The gate and the evaluation.                                            *)

LEMMA GateStep ==
  ASSUME ExperimentNext, gate
  PROVE  started' = started /\ gate'
BY DEF ExperimentNext, Prepare, Schedules, Call, OpenFails, Start, StartFails, SolverFails,
       Blocks, Returns, Release, SaveEvidence, Conclude, RemoveMarker, Evaluate,
       EvaluationEnds, Rest, Recorded, Gates, Closed, run, records, evaluation

LEMMA HookStep ==
  ASSUME HookInv, [ExperimentNext]_<<run, engine>>
  PROVE  HookInv'
<1>1. CASE \/ Prepare \/ Schedules \/ Release \/ SaveEvidence \/ Conclude \/ RemoveMarker
           \/ \E w \in WorkId :
                \/ Call(w) \/ OpenFails(w) \/ Start(w) \/ StartFails(w)
                \/ SolverFails(w) \/ Blocks(w) \/ Returns(w)
  BY <1>1 DEF HookInv, Prepare, Schedules, Call, OpenFails, Start, StartFails, SolverFails,
       Blocks, Returns, Release, SaveEvidence, Conclude, RemoveMarker, Recorded, Running,
       run, ending, evaluation
<1>2. CASE UNCHANGED <<run, engine>> \/ Rest
  BY <1>2 DEF HookInv, Rest, run, ending, evaluation
<1>3. ASSUME NEW h \in Hooks, Evaluate(h) \/ EvaluationEnds(h)
      PROVE  HookInv'
  BY <1>3 DEF HookInv, Evaluate, EvaluationEnds, Evaluable, ending
<1>4. QED
  BY <1>1, <1>2, <1>3 DEF ExperimentNext

LEMMA EvaluatedStep ==
  ASSUME HookInv, ExperimentNext, NEW h \in Hooks
  PROVE  /\ hook[h] # "idle" => phase = "finished" /\ UNCHANGED <<records, objects, ending>>
         /\ report = h => report' = h
<1>1. h # NoHook
  BY ExperimentAssumption
<1>2. ASSUME hook[h] # "idle"
      PROVE  phase = "finished" /\ UNCHANGED <<records, objects, ending>>
  <2>1. phase = "finished"
    BY <1>2 DEF HookInv
  <2>2. \/ \E g \in Hooks : Evaluate(g) \/ EvaluationEnds(g)
        \/ Rest
    BY <2>1 DEF ExperimentNext, Prepare, Schedules, Call, OpenFails, Start, StartFails,
         SolverFails, Blocks, Returns, Release, SaveEvidence, Conclude, RemoveMarker, Running
  <2>3. QED
    BY <2>1, <2>2 DEF Evaluate, EvaluationEnds, Rest, run
<1>3. ASSUME report = h
      PROVE  report' = h
  <2>1. CASE \E g \in Hooks : EvaluationEnds(g)
    BY <1>1, <1>3, <2>1 DEF EvaluationEnds
  <2>2. CASE ~ \E g \in Hooks : EvaluationEnds(g)
    BY <1>3, <2>2 DEF ExperimentNext, Prepare, Schedules, Call, OpenFails, Start, StartFails,
         SolverFails, Blocks, Returns, Release, SaveEvidence, Conclude, RemoveMarker,
         Evaluate, Rest, Recorded, run, evaluation
  <2>3. QED
    BY <2>1, <2>2
<1>4. QED
  BY <1>2, <1>3

\* execute(): once the human gate is closed nothing is recorded as started, and it
\* never opens again.
THEOREM GateStays == ExperimentSpec => GateHolds
<1>1. ExperimentNext => (gate => started' = started /\ gate')
  BY GateStep
<1>2. gate /\ UNCHANGED <<run, engine>> => started' = started /\ gate'
  BY DEF run, records
<1>3. QED
  BY <1>1, <1>2, PTL DEF ExperimentSpec, GateHolds

\* evaluate: its hooks find the evidence of a run that is over, nobody changes it
\* under them, and the report that is there stays.
THEOREM EvaluationIsAfterwards == ExperimentSpec => EvaluatedWhenOver
<1>1. ExperimentInit => HookInv
  BY DEF ExperimentInit, HookInv
<1>2. HookInv /\ [ExperimentNext]_<<run, engine>> => HookInv'
  BY HookStep
<1>3. HookInv /\ ExperimentNext => \A h \in Hooks :
        /\ hook[h] # "idle" => phase = "finished" /\ UNCHANGED <<records, objects, ending>>
        /\ report = h => report' = h
  BY EvaluatedStep
<1>4. QED
  BY <1>1, <1>2, <1>3, PTL DEF ExperimentSpec, EvaluatedWhenOver
-----------------------------------------------------------------------------
(* The driver.                                                             *)

\* The engine takes an answer.
EngineAnswers(w) ==
  \/ AnswerFails(w) \/ Continue(w) \/ Verify(w) \/ Block(w) \/ Complete(w)
  \/ ForkStopped(w)
  \/ \E k \in 2 .. MaxWork : Fork(w, k)
  \/ \E k \in WorkId : Spawn(w, k)

\* Where the engine is in an answered, an opened and a scheduling step.
LEMMA EnginePlace ==
  /\ Begin \/ BeginRefused \/ Schedule \/ ScheduleStopped \/ RoundStopped =>
       pc # "invoke" /\ pc' = "loop"
  /\ \A w \in WorkId :
       /\ Invoke(w) => pc = "loop" /\ pc' = "invoke"
       /\ InvokeRefused(w) => pc = "loop" /\ pc' = "loop"
       /\ EngineAnswers(w) => pc = "invoke" /\ cur = w /\ pc' = "loop"
  /\ Finish => pc = "loop" /\ pc' = "done"
<1>1. Begin \/ BeginRefused \/ Schedule \/ ScheduleStopped \/ RoundStopped =>
        pc # "invoke" /\ pc' = "loop"
  BY DEF Begin, BeginRefused, Schedule, ScheduleStopped, RoundStopped
<1>2. ASSUME NEW w \in WorkId
      PROVE  /\ Invoke(w) => pc = "loop" /\ pc' = "invoke"
             /\ InvokeRefused(w) => pc = "loop" /\ pc' = "loop"
  BY DEF Invoke, InvokeRefused, Step, IsNext
<1>3. ASSUME NEW w \in WorkId, EngineAnswers(w)
      PROVE  Answered(w)
  BY <1>3 DEF EngineAnswers, AnswerFails, Continue, Verify, Block, Complete, ForkStopped, Fork, Spawn
<1>4. QED
  BY <1>1, <1>2, <1>3 DEF Answered, Finish

\* The steps in which the engine takes an answer.
Answers(w) == StartFails(w) \/ SolverFails(w) \/ Blocks(w) \/ Returns(w)

LEMMA AnswersPlace ==
  ASSUME NEW w \in WorkId, Answers(w)
  PROVE  /\ phase = "running" /\ pc = "invoke" /\ cur = w /\ pc' = "loop"
         /\ Recorded(w)
<1>1. EngineAnswers(w)
  BY DEF EngineAnswers, Answers, StartFails, SolverFails, Blocks, Returns
<1>2. pc = "invoke" /\ cur = w /\ pc' = "loop"
  BY <1>1, EnginePlace
<1>3. QED
  BY <1>2 DEF Answers, StartFails, SolverFails, Blocks, Returns, Running

LEMMA CommittedType ==
  ASSUME TypeOK, TypeOK', DriverInv, NEW w \in WorkId, NEW ok \in BOOLEAN, Committed(w, ok)
  PROVE  /\ history' \in [Refs -> SUBSET Refs] /\ world' \in [WorkId -> SUBSET Refs]
         /\ archive \subseteq archive'
<1>1. ref[w] \in Refs /\ ref'[w] \in Refs
  BY DEF TypeOK
<1>2. CASE ref'[w] = ref[w]
  BY <1>2 DEF Committed, DriverInv, objects
<1>3. CASE ref'[w] # ref[w]
  <2>1. PICK base \in {history[ref[w]], world[w]} :
          history' = [history EXCEPT ![ref'[w]] = base \cup {ref'[w]}]
    BY <1>3 DEF Committed
  <2>2. base \subseteq Refs
    BY <1>1, <2>1 DEF DriverInv
  <2>3. world' = [world EXCEPT ![w] = @ \cup {ref'[w]}]
    BY <1>3 DEF Committed
  <2>4. archive \subseteq archive'
    BY <1>3 DEF Committed, Audited
  <2>5. history' \in [Refs -> SUBSET Refs]
    BY <1>1, <2>1, <2>2 DEF DriverInv
  <2>6. world' \in [WorkId -> SUBSET Refs]
    BY <1>1, <2>3 DEF DriverInv
  <2>7. QED
    BY <2>4, <2>5, <2>6
<1>4. QED
  BY <1>2, <1>3

\* Objects only come to databases and archive, of the commits there are.
LEMMA ObjectsStep ==
  ASSUME TypeOK, TypeOK', DriverInv, [ExperimentNext]_<<run, engine>>
  PROVE  /\ history' \in [Refs -> SUBSET Refs] /\ world' \in [WorkId -> SUBSET Refs]
         /\ archive \subseteq archive' \/ phase = "setup"
<1>1. ASSUME UNCHANGED <<history, world, archive>>
      PROVE  /\ history' \in [Refs -> SUBSET Refs] /\ world' \in [WorkId -> SUBSET Refs]
             /\ archive \subseteq archive'
  BY <1>1 DEF DriverInv
<1>2. CASE Prepare
  BY <1>2 DEF Prepare, DriverInv
<1>3. CASE Release
  BY <1>3 DEF Release, DriverInv
<1>4. ASSUME NEW w \in WorkId, Call(w) \/ OpenFails(w) \/ Start(w) \/ StartFails(w)
      PROVE  /\ history' \in [Refs -> SUBSET Refs] /\ world' \in [WorkId -> SUBSET Refs]
             /\ archive \subseteq archive'
  <2>1. \A refs \in SUBSET Refs : Received(w, refs) \in [WorkId -> SUBSET Refs]
    BY DEF Received, DriverInv
  <2>2. Loaded(w) \in [WorkId -> SUBSET Refs]
    BY DEF Loaded, DriverInv, TypeOK
  <2>3. Results(w) \subseteq Refs
    BY DEF Results, TypeOK, Children, Created
  <2>4. CASE Start(w)
    BY <2>1, <2>3, <2>4 DEF Start, DriverInv
  <2>5. CASE StartFails(w)
    <3>1. world' = world \/ \E got \in SUBSET (Results(w) \cap archive) : world' = Received(w, got)
      BY <2>5 DEF StartFails
    <3>2. QED
      BY <2>1, <2>3, <2>5, <3>1 DEF StartFails, DriverInv
  <2>6. QED
    BY <1>4, <2>2, <2>4, <2>5 DEF Call, OpenFails, Start, StartFails, DriverInv
<1>5. ASSUME NEW w \in WorkId, Blocks(w) \/ Returns(w)
      PROVE  /\ history' \in [Refs -> SUBSET Refs] /\ world' \in [WorkId -> SUBSET Refs]
             /\ archive \subseteq archive'
  <2>1. \E ok \in BOOLEAN : Committed(w, ok)
    BY <1>5 DEF Blocks, Returns
  <2>2. QED
    BY <2>1, CommittedType
<1>6. ASSUME NEW w \in WorkId, SolverFails(w)
      PROVE  /\ history' \in [Refs -> SUBSET Refs] /\ world' \in [WorkId -> SUBSET Refs]
             /\ archive \subseteq archive'
  BY <1>1, <1>6 DEF SolverFails, objects
<1>7. CASE \/ Schedules \/ SaveEvidence \/ Conclude \/ RemoveMarker \/ Rest
           \/ UNCHANGED <<run, engine>>
           \/ \E h \in Hooks : Evaluate(h) \/ EvaluationEnds(h)
  BY <1>1, <1>7 DEF Schedules, SaveEvidence, Conclude, RemoveMarker, Rest, Evaluate,
       EvaluationEnds, run, objects
<1>8. QED
  BY <1>2, <1>3, <1>4, <1>5, <1>6, <1>7 DEF ExperimentNext

LEMMA DriverStep ==
  ASSUME TypeOK, TypeOK', DriverInv, [ExperimentNext]_<<run, engine>>
  PROVE  DriverInv'
<1> USE DEF DriverInv
<1>1. history' \in [Refs -> SUBSET Refs] /\ world' \in [WorkId -> SUBSET Refs]
      /\ (archive \subseteq archive' \/ phase = "setup")
  BY ObjectsStep
<1>2. CASE Prepare
  BY <1>1, <1>2 DEF Prepare, engine, control, genealogy, artifacts
<1>3. CASE Schedules
  BY <1>1, <1>3, EnginePlace DEF Schedules, Running, run, ending
<1>4. ASSUME NEW w \in WorkId, Call(w) \/ OpenFails(w)
      PROVE  DriverInv'
  BY <1>1, <1>4, EnginePlace DEF Call, OpenFails, Running, ending
<1>5. ASSUME NEW w \in WorkId, Start(w)
      PROVE  DriverInv'
  BY <1>1, <1>5 DEF Start, Running, ending, engine, control
<1>6. ASSUME NEW w \in WorkId, Answers(w)
      PROVE  DriverInv'
  BY <1>1, <1>6, AnswersPlace DEF Recorded, ending
<1>7. CASE Release
  BY <1>1, <1>7, EnginePlace DEF Release, Running, ending
<1>8. CASE SaveEvidence \/ Conclude \/ RemoveMarker
  BY <1>1, <1>8 DEF SaveEvidence, Conclude, RemoveMarker, engine, control, objects
<1>9. CASE \/ Rest \/ UNCHANGED <<run, engine>>
           \/ \E h \in Hooks : Evaluate(h) \/ EvaluationEnds(h)
  BY <1>1, <1>9 DEF Rest, Evaluate, EvaluationEnds, run, engine, control, genealogy, artifacts,
       ending, objects
<1>10. QED
  BY <1>2, <1>3, <1>4, <1>5, <1>6, <1>7, <1>8, <1>9 DEF ExperimentNext, Answers
-----------------------------------------------------------------------------
(* The evidence of a run.                                                  *)

LEMMA EvidenceKept ==
  ASSUME TypeOK, Ids, DriverInv, EvidenceInv, [ExperimentNext]_<<run, engine>>
  PROVE  EvidenceInv'
<1>1. ASSUME UNCHANGED <<status, ref, tree, archive, exported, copies, saved>>,
             phase \in {"closing", "concluded", "finished"}, error' = error \/ error'
      PROVE  EvidenceInv'
  BY <1>1 DEF EvidenceInv, Created, Opened
<1>2. ASSUME phase' \in {"setup", "running", "saving"} \/ ~saved'
      PROVE  EvidenceInv'
  BY <1>2 DEF EvidenceInv
<1>3. CASE Prepare
  BY <1>2, <1>3 DEF Prepare, DriverInv
<1>4. CASE \/ Schedules \/ Release
           \/ \E w \in WorkId :
                \/ Call(w) \/ OpenFails(w) \/ Start(w) \/ StartFails(w)
                \/ SolverFails(w) \/ Blocks(w) \/ Returns(w)
  <2>1. phase' \in {"running", "saving"}
    BY <1>4 DEF Schedules, Release, Call, OpenFails, Start, StartFails, SolverFails, Blocks,
         Returns, Recorded, Running, run
  <2>2. QED
    BY <1>2, <2>1
<1>5. CASE SaveEvidence
  <2>1. PICK n \in 0 .. works :
          /\ Exportable(n) /\ exported' = Exported(n)
          /\ copies' = {w \in 1 .. n : Opened(w)} /\ error' = (n < works)
    BY <1>5 DEF SaveEvidence
  <2>2. UNCHANGED <<status, ref, tree, archive, works>>
    BY <1>5 DEF SaveEvidence, engine, genealogy, artifacts, objects
  <2>3. ASSUME ~error', NEW w \in Created
        PROVE  w \in 1 .. n
    <3>1. w \in Nat /\ w >= 1 /\ w <= works /\ works \in Nat
      BY ConstantTypes DEF Created, Ids, WorkId, TypeOK
    <3>2. ~(n < works)
      BY <2>1, <2>3
    <3>3. QED
      BY <3>1, <3>2
  <2>4. QED
    BY <2>1, <2>2, <2>3 DEF EvidenceInv, Exportable, Exported, Created, Opened
<1>6. CASE Conclude \/ RemoveMarker
  <2>1. /\ UNCHANGED <<status, ref, tree, archive, exported, copies, saved>>
        /\ phase \in {"closing", "concluded", "finished"} /\ (error' = error \/ error')
    BY <1>6 DEF Conclude, RemoveMarker, engine, genealogy, artifacts, objects
  <2>2. QED
    BY <1>1, <2>1
<1>7. CASE \/ Rest \/ UNCHANGED <<run, engine>>
           \/ \E h \in Hooks : Evaluate(h) \/ EvaluationEnds(h)
  <2>1. /\ UNCHANGED <<status, ref, tree, archive, exported, copies, saved, phase, error>>
    BY <1>7 DEF Rest, Evaluate, EvaluationEnds, run, engine, genealogy, artifacts, objects,
         ending
  <2>2. QED
    BY <2>1 DEF EvidenceInv, Created, Opened
<1>8. QED
  BY <1>3, <1>4, <1>5, <1>6, <1>7 DEF ExperimentNext

LEMMA LogIs ==
  ASSUME RecordsInv, NEW w \in WorkId
  PROVE  /\ Log(w) \in Seq([index : Nat, work : WorkId])
         /\ Len(Log(w)) = Len(started) + 1
         /\ \A i \in 1 .. Len(started) : Log(w)[i] = started[i]
         /\ Log(w)[Len(started) + 1].index = Len(started) + 1
         /\ Log(w)[Len(started) + 1].work = w
<1> DEFINE row == [index |-> Len(started) + 1, work |-> w]
<1>1. started \in Seq([index : Nat, work : WorkId]) /\ Len(started) \in Nat
  BY DEF RecordsInv
<1>2. row \in [index : Nat, work : WorkId] /\ row.index = Len(started) + 1 /\ row.work = w
  BY <1>1
<1>3. Log(w) = Append(started, row)
  BY DEF Log
<1> HIDE DEF row
<1>4. QED
  BY <1>1, <1>2, <1>3

LEMMA RecordsStep ==
  ASSUME DriverInv, RecordsInv, [ExperimentNext]_<<run, engine>>
  PROVE  RecordsInv'
<1> DEFINE Rows == [index : Nat, work : WorkId]
<1>0. /\ started \in Seq(Rows) /\ operations \in Seq(WorkId)
      /\ Len(started) \in Nat /\ Len(operations) \in Nat
      /\ \A i \in 1 .. Len(started) : started[i].index = i
  BY DEF RecordsInv
<1>1. ASSUME UNCHANGED <<records, stage, cur>>,
             phase' \in {"concluded", "finished"} => result' = Len(started)
      PROVE  RecordsInv'
  BY <1>1 DEF RecordsInv, records, Paired
<1>2. ASSUME NEW w \in WorkId, Start(w)
      PROVE  RecordsInv'
  <2>1. /\ started' = Log(w) /\ operations' = operations /\ stage # "started"
        /\ stage' = "started" /\ phase' = "running" /\ cur' = cur /\ cur = w
    BY <1>2 DEF Start, Running, engine, control
  <2>2. /\ started' \in Seq(Rows) /\ Len(started') = Len(started) + 1
        /\ \A i \in 1 .. Len(started) : started'[i] = started[i]
        /\ started'[Len(started) + 1].index = Len(started) + 1
        /\ started'[Len(started) + 1].work = w
    BY <2>1, LogIs
  <2>3. \A i \in 1 .. Len(started') : started'[i].index = i
    BY <1>0, <2>2
  <2>4. /\ Len(started') <= Len(operations) + 1
        /\ Len(started') = Len(operations) + 1 =>
             /\ \A i \in 1 .. Len(operations) : started'[i].work = operations[i]
             /\ started'[Len(started')].work = cur
    <3>1. /\ Len(started) <= Len(operations)
          /\ Len(started) = Len(operations) => Paired(Len(operations))
      BY <2>1 DEF RecordsInv
    <3>2. QED
      BY <1>0, <2>1, <2>2, <3>1 DEF Paired
  <2>5. QED
    BY <1>0, <2>1, <2>2, <2>3, <2>4 DEF RecordsInv, Paired
<1>3. ASSUME NEW w \in WorkId, Answers(w)
      PROVE  RecordsInv'
  <2>1. /\ operations' = Append(operations, w) /\ cur = w /\ stage' = "idle"
        /\ phase' = "running"
    BY <1>3, AnswersPlace DEF Recorded
  <2>2. started' = started
    BY <1>3 DEF Answers, StartFails, SolverFails, Blocks, Returns
  <2>3. /\ operations' \in Seq(WorkId) /\ Len(operations') = Len(operations) + 1
        /\ \A i \in 1 .. Len(operations) : operations'[i] = operations[i]
        /\ operations'[Len(operations) + 1] = w
    BY <1>0, <2>1
  <2>4. /\ Len(started) <= Len(operations')
        /\ Len(started) = Len(operations') =>
             \A i \in 1 .. Len(operations') : started[i].work = operations'[i]
    <3>1. CASE stage # "started"
      BY <1>0, <2>3, <3>1 DEF RecordsInv
    <3>2. CASE stage = "started"
      <4>1. /\ Len(started) <= Len(operations) + 1
            /\ Len(started) = Len(operations) + 1 =>
                 Paired(Len(operations)) /\ started[Len(started)].work = w
        BY <2>1, <3>2 DEF RecordsInv
      <4>2. QED
        <5>1. CASE Len(started) = Len(operations')
          <6>1. /\ Len(started) = Len(operations) + 1
                /\ \A i \in 1 .. Len(operations) : started[i].work = operations[i]
                /\ started[Len(operations) + 1].work = w
            BY <1>0, <2>3, <4>1, <5>1 DEF Paired
          <6>2. \A i \in 1 .. Len(operations) : started[i].work = operations'[i]
            BY <2>3, <6>1
          <6>3. started[Len(operations) + 1].work = operations'[Len(operations) + 1]
            BY <2>3, <6>1
          <6>4. \A i \in 1 .. Len(operations) + 1 :
                  i \in 1 .. Len(operations) \/ i = Len(operations) + 1
            BY <1>0
          <6>5. QED
            BY <2>3, <6>1, <6>2, <6>3, <6>4
        <5>2. CASE Len(started) # Len(operations')
          BY <2>3, <4>1, <5>2
        <5>3. QED
          BY <5>1, <5>2
    <3>3. QED
      BY <3>1, <3>2
  <2>5. QED
    BY <1>0, <2>1, <2>2, <2>3, <2>4 DEF RecordsInv, Paired
<1>4. ASSUME NEW w \in WorkId, Call(w)
      PROVE  RecordsInv'
  BY <1>4 DEF Call, RecordsInv, Running, records, Paired
<1>5. CASE Schedules \/ Release \/ \E w \in WorkId : OpenFails(w)
  <2>1. /\ UNCHANGED <<records, stage>> /\ phase' \in {"running", "saving"}
    BY <1>5 DEF Schedules, Release, OpenFails, Running, run
  <2>2. pc # "invoke"
    BY <1>5, EnginePlace DEF Schedules, Release, OpenFails
  <2>3. stage # "started"
    BY <2>2 DEF DriverInv
  <2>4. QED
    BY <2>1, <2>3 DEF RecordsInv, Paired, records
<1>6. CASE Prepare \/ SaveEvidence \/ Conclude \/ RemoveMarker
  BY <1>1, <1>6 DEF RecordsInv, Prepare, SaveEvidence, Conclude, RemoveMarker, engine, control
<1>7. CASE \/ Rest \/ UNCHANGED <<run, engine>>
           \/ \E h \in Hooks : Evaluate(h) \/ EvaluationEnds(h)
  <2>1. UNCHANGED <<records, stage, cur, phase, result>>
    BY <1>7 DEF Rest, Evaluate, EvaluationEnds, run, engine, control, ending
  <2>2. QED
    BY <1>1, <2>1 DEF RecordsInv
<1>8. QED
  BY <1>2, <1>3, <1>4, <1>5, <1>6, <1>7 DEF ExperimentNext, Answers

\* Replay notices every edit of a file of records it accepts.
LEMMA EditsAreNoticed ==
  ASSUME RecordsInv, Accepts(started)
  PROVE  NoEditAccepted(started)
<1> DEFINE n == Len(started)
<1>1. /\ n \in Nat /\ n = Len(operations) /\ DOMAIN started = 1 .. n
      /\ \A i \in 1 .. n : started[i].index = i /\ started[i].work = operations[i]
      /\ started \in Seq([index : Nat, work : WorkId])
      /\ \A i \in 1 .. n : started[i] \in [index : Nat, work : WorkId]
  <2>1. started \in Seq([index : Nat, work : WorkId])
    BY DEF RecordsInv
  <2>2. /\ n \in Nat /\ DOMAIN started = 1 .. n
        /\ \A i \in 1 .. n : started[i] \in [index : Nat, work : WorkId]
    <3> DEFINE Rows == [index : Nat, work : WorkId]
    <3> HIDE DEF Rows
    <3>1. started \in Seq(Rows)
      BY <2>1 DEF Rows
    <3>2. n \in Nat /\ DOMAIN started = 1 .. n /\ \A i \in 1 .. n : started[i] \in Rows
      BY <3>1
    <3>3. QED
      BY <3>2 DEF Rows
  <2>3. n = Len(operations) /\ \A i \in 1 .. n : started[i].work = operations[i]
    BY <2>2 DEF Accepts, Fits
  <2>4. QED
    BY <2>1, <2>2, <2>3 DEF RecordsInv
<1>2. \A rows : Accepts(rows) => /\ Len(rows) = n
                                /\ \A i \in DOMAIN rows : /\ rows[i].index = i
                                                          /\ rows[i].work = operations[i]
  BY <1>1 DEF Accepts, Fits
<1> HIDE DEF n
<1>3. ASSUME NEW d \in 1 .. n
      PROVE  ~Accepts(Dropped(started, d))
  <2>1. n - 1 \in Nat
    BY <1>1, <1>3
  <2>2. Len(Dropped(started, d)) = n - 1
    BY <2>1 DEF Dropped, n
  <2>3. QED
    BY <1>1, <1>2, <2>2
<1>4. ASSUME NEW w \in Created
      PROVE  ~Accepts(Forged(started, w))
  <2>1. Len(Forged(started, w)) = n + 1
    BY <1>1 DEF Created, Forged, n
  <2>2. QED
    BY <1>1, <1>2, <2>1
<1>5. ASSUME NEW i \in 1 .. n, NEW w \in Created, started[i].work # w
      PROVE  ~Accepts(Given(started, i, w))
  <2>1. started[i] \in [index : Nat, work : WorkId]
    BY <1>1
  <2>2. Given(started, i, w)[i].work = w /\ i \in DOMAIN Given(started, i, w)
    BY <1>1, <2>1 DEF Given
  <2>3. QED
    BY <1>1, <1>2, <1>5, <2>2
<1>6. ASSUME NEW i \in 1 .. n, NEW j \in 1 .. n, i < j
      PROVE  ~Accepts(Exchanged(started, i, j))
  <2>1. Exchanged(started, i, j)[i] = started[j] /\ i \in DOMAIN Exchanged(started, i, j)
    BY <1>1, <1>6 DEF Exchanged
  <2>2. Exchanged(started, i, j)[i].index # i
    BY <1>1, <1>6, <2>1
  <2>3. QED
    BY <1>2, <2>1, <2>2
<1>7. QED
  BY <1>1, <1>3, <1>4, <1>5, <1>6 DEF NoEditAccepted

LEMMA VerdictIs ==
  ASSUME DriverInv, RecordsInv, phase = "finished", saved
  PROVE  Accepts(started) <=> Len(started) = Len(operations)
<1>1. stage # "started"
  BY DEF DriverInv
<1>2. started \in Seq([index : Nat, work : WorkId]) /\ DOMAIN started = 1 .. Len(started)
  BY DEF RecordsInv
<1>3. Len(started) = Len(operations) => \A i \in DOMAIN started : Fits(started, i)
  BY <1>1, <1>2 DEF RecordsInv, Fits, Paired
<1>4. result = Len(started)
  BY DEF RecordsInv
<1>5. QED
  BY <1>3, <1>4 DEF Accepts
-----------------------------------------------------------------------------
(* Commits, the archive and the object databases.                          *)

\* Blocks and Returns are the steps that may make a commit.
LEMMA CommitStep ==
  ASSUME LineageInv, DriverInv, NEW w \in WorkId, Blocks(w) \/ Returns(w)
  PROVE  /\ w \in Created /\ status[w] = "ACTIVE" /\ phase = "running"
         /\ Subject(w) /\ Grows(w)
         /\ \E ok \in BOOLEAN : Committed(w, ok) /\ (ok \/ status'[w] = "BLOCKED")
<1> USE EngineInvParts DEF LineageInv
<1>1. phase = "running" /\ EngineAnswers(w)
  BY DEF Blocks, Returns, Running, EngineAnswers
<1>2. \E ok \in BOOLEAN : Committed(w, ok) /\ (ok \/ status'[w] = "BLOCKED")
  BY DEF Blocks, Returns, AnswerFails, Moved
<1>3. CASE \/ AnswerFails(w) \/ Continue(w) \/ Verify(w) \/ Block(w) \/ Complete(w)
           \/ ForkStopped(w)
  <2>1. Settles(w)
    BY <1>3 DEF Settles
  <2>2. Grows(w)
    BY <2>1, NoGrowth, QuietGrows
  <2>3. Subject(w) /\ w \in Created
    BY <1>3, AnswerSubject
  <2>4. status[w] = "ACTIVE"
    BY <1>3, AnsweredIsActive DEF AnswerFails, Continue, Verify, Block, Complete, ForkStopped
  <2>5. QED
    BY <1>1, <1>2, <2>2, <2>3, <2>4
<1>4. ASSUME NEW k \in 2 .. MaxWork, Fork(w, k)
      PROVE  w \in Created /\ status[w] = "ACTIVE" /\ Subject(w) /\ Grows(w)
  <2>1. k \in WorkId
    BY ConstantTypes DEF WorkId
  <2>2. status[w] = "ACTIVE"
    BY <1>4, AnsweredIsActive DEF Fork
  <2>3. QED
    BY <1>4, <2>1, <2>2, GrowthSubject, ForkGrows
<1>5. ASSUME NEW k \in WorkId, Spawn(w, k)
      PROVE  w \in Created /\ status[w] = "ACTIVE" /\ Subject(w) /\ Grows(w)
  <2>1. status[w] = "ACTIVE"
    BY <1>5, AnsweredIsActive DEF Spawn
  <2>2. QED
    BY <1>5, <2>1, GrowthSubject, SpawnGrows
<1>6. QED
  BY <1>1, <1>2, <1>3, <1>4, <1>5 DEF EngineAnswers

\* All others keep the commits, and the units there are.
LEMMA QuietStep ==
  ASSUME LineageInv, DriverInv, [ExperimentNext]_<<run, engine>>,
         ~ \E w \in WorkId : Blocks(w) \/ Returns(w)
  PROVE  Created' = Created /\ unit' = unit /\ ref' = ref /\ history' = history
<1> USE EngineInvParts DEF LineageInv, DriverInv, genealogy, artifacts
<1>1. ASSUME UNCHANGED engine, history' = history
      PROVE  Created' = Created /\ unit' = unit /\ ref' = ref /\ history' = history
  BY <1>1 DEF engine, Created
<1>2. CASE \/ Prepare \/ SaveEvidence \/ Conclude \/ RemoveMarker \/ Rest
           \/ UNCHANGED <<run, engine>>
           \/ (\E h \in Hooks : Evaluate(h) \/ EvaluationEnds(h))
           \/ (\E w \in WorkId : Start(w))
  BY <1>1, <1>2 DEF Prepare, SaveEvidence, Conclude, RemoveMarker, Rest, Evaluate,
       EvaluationEnds, Start, run, objects
<1>3. CASE Schedules \/ Release
  <2>1. Turns /\ history' = history
    BY <1>3 DEF Schedules, Release, Turns, run, objects
  <2>2. ref' = ref
    BY <1>3 DEF Schedules, Release, Begin, BeginRefused, Schedule, ScheduleStopped,
         RoundStopped, Finish
  <2>3. QED
    BY <2>1, <2>2, NoGrowth DEF Grown
<1>4. ASSUME NEW w \in WorkId, Call(w) \/ OpenFails(w)
      PROVE  Created' = Created /\ unit' = unit /\ ref' = ref /\ history' = history
  <2>1. (Invoke(w) \/ InvokeRefused(w)) /\ history' = history
    BY <1>4 DEF Call, OpenFails
  <2>2. ref' = ref
    BY <2>1 DEF Invoke, InvokeRefused, OpenOutcome
  <2>3. QED
    BY <2>1, <2>2, NoGrowth DEF Grown, Settles
<1>5. ASSUME NEW w \in WorkId, StartFails(w) \/ SolverFails(w)
      PROVE  Created' = Created /\ unit' = unit /\ ref' = ref /\ history' = history
  <2>1. AnswerFails(w) /\ ref' = ref /\ history' = history
    BY <1>5 DEF StartFails, SolverFails, objects
  <2>2. QED
    BY <2>1, NoGrowth DEF Grown, Settles
<1>6. QED
  BY <1>2, <1>3, <1>4, <1>5 DEF ExperimentNext

LEMMA OrderStep ==
  ASSUME LineageInv, DriverInv, CommitsInOrder, [ExperimentNext]_<<run, engine>>
  PROVE  CommitsInOrder'
<1> USE EngineInvParts DEF LineageInv
<1>1. CASE ~ \E w \in WorkId : Blocks(w) \/ Returns(w)
  BY <1>1, QuietStep DEF CommitsInOrder
<1>2. ASSUME NEW w \in WorkId, Blocks(w) \/ Returns(w)
      PROVE  CommitsInOrder'
  <2>1. w \in Created /\ Subject(w) /\ Grows(w)
    BY <1>2, CommitStep
  <2>2. w # 0 /\ \A v \in Created : ref[v][2] \in Nat
    <3>1. \A v \in Created : ref[v] \in Refs
      BY DEF TypeOK, Created
    <3>2. \A x \in Refs : x[2] \in Nat
      BY ConstantTypes DEF Refs
    <3>3. QED
      BY <3>1, <3>2, ConstantTypes DEF WorkId
  <2>3. \/ ref'[w] = ref[w]
        \/ /\ ref'[w][1] = w
           /\ ref[w][1] = w => ref'[w][2] = ref[w][2] + 1
    BY <2>1 DEF Subject, OwnCommit, Advance
  <2>4. /\ \A v \in Created \ {w} : ref'[v] = ref[v]
        /\ Created \subseteq Created'
        /\ \A c \in Created' \ Created : ref'[c] = ref'[w]
    BY <2>1 DEF Subject, Grows
  <2> DEFINE Ordered(r) == r # RootRef => /\ r[1] \in Created'
                                         /\ ref'[r[1]][1] = r[1] /\ r[2] <= ref'[r[1]][2]
  <2>5. ASSUME NEW v \in Created
        PROVE  Ordered(ref[v]) \/ v = w
    <3>1. CASE ref[v] = RootRef
      BY <3>1
    <3>2. CASE ref[v] # RootRef
      <4>1. /\ ref[v][1] \in Created /\ ref[ref[v][1]][1] = ref[v][1]
            /\ ref[v][2] <= ref[ref[v][1]][2]
        BY <3>2 DEF CommitsInOrder
      <4>2. CASE ref[v][1] # w
        BY <2>4, <4>1, <4>2
      <4>3. CASE ref[v][1] = w
        <5>1. ref[w][1] = w /\ ref[v][2] <= ref[w][2]
          BY <4>1, <4>3
        <5>2. ref'[w][1] = w /\ (ref'[w][2] = ref[w][2] \/ ref'[w][2] = ref[w][2] + 1)
          BY <2>3, <5>1
        <5>3. ref[v][2] <= ref'[w][2]
          BY <2>1, <2>2, <5>1, <5>2
        <5>4. QED
          BY <2>1, <2>4, <4>3, <5>2, <5>3
      <4>4. QED
        BY <4>2, <4>3
    <3>3. QED
      BY <3>1, <3>2
  <2>6. Ordered(ref'[w])
    <3>1. CASE ref'[w] = ref[w]
      <4>1. CASE ref[w] = RootRef
        BY <3>1, <4>1
      <4>2. CASE ref[w] # RootRef
        <5>1. /\ ref[w][1] \in Created /\ ref[ref[w][1]][1] = ref[w][1]
              /\ ref[w][2] <= ref[ref[w][1]][2]
          BY <2>1, <4>2 DEF CommitsInOrder
        <5>2. ref'[ref[w][1]] = ref[ref[w][1]]
          BY <2>4, <3>1, <5>1
        <5>3. QED
          BY <2>4, <3>1, <5>1, <5>2
      <4>3. QED
        BY <4>1, <4>2
    <3>2. CASE ref'[w][1] = w
      <4>1. ref'[w] \in Refs /\ ref'[w][2] <= ref'[w][2]
        <5>1. TypeOK'
          BY DrivesEngine, InvStep, EngineInvParts DEF EngineInv
        <5>2. ref'[w] \in Refs
          BY <5>1 DEF TypeOK
        <5>3. QED
          BY <5>2, ConstantTypes DEF Refs
      <4>2. QED
        BY <2>1, <2>4, <3>2, <4>1
    <3>3. QED
      BY <2>3, <3>1, <3>2
  <2>7. \A v \in Created' : Ordered(ref'[v])
    BY <2>4, <2>5, <2>6
  <2>8. QED
    BY <2>7 DEF CommitsInOrder
<1>3. QED
  BY <1>1, <1>2

LEMMA ArchiveStep ==
  ASSUME LineageInv, DriverInv, ArchiveHoldsWork, [ExperimentNext]_<<run, engine>>
  PROVE  ArchiveHoldsWork'
<1> USE EngineInvParts DEF LineageInv
<1>0. /\ TypeOK /\ TypeOK'
      /\ \A v \in Created : status[v] = "BLOCKED" => status'[v] = "BLOCKED"
  <2>1. TypeOK /\ TypeOK'
    BY DrivesEngine, InvStep, EngineInvParts DEF EngineInv
  <2>2. \A v \in WorkId : Next /\ status[v] = "BLOCKED" => status'[v] = "BLOCKED"
    BY TerminalStays DEF Terminal
  <2>3. UNCHANGED vars => status' = status
    BY DEF vars, genealogy
  <2>4. QED
    BY <2>1, <2>2, <2>3, DrivesEngine DEF Created
<1>1. CASE phase = "setup"
  <2>1. \A w \in Created : w = 1
    BY <1>1, ConstantTypes DEF DriverInv, Ids, Created, WorkId
  <2>2. ~ \E w \in WorkId : Blocks(w) \/ Returns(w)
    BY <1>1 DEF Blocks, Returns, Running
  <2>3. Created' = Created /\ ref' = ref
    BY <2>2, QuietStep
  <2>4. archive' = {RootRef} \/ archive' = archive
    BY <1>1 DEF ExperimentNext, Prepare, Schedules, Call, OpenFails, Start, StartFails,
         SolverFails, Blocks, Returns, Release, SaveEvidence, Conclude, RemoveMarker,
         Evaluate, EvaluationEnds, Rest, Running, run, objects
  <2>5. ref[1] = RootRef
    BY <1>1 DEF DriverInv
  <2>6. CASE archive' = {RootRef}
    BY <2>1, <2>3, <2>5, <2>6 DEF ArchiveHoldsWork
  <2>7. CASE archive' = archive
    BY <1>0, <2>3, <2>7 DEF ArchiveHoldsWork
  <2>8. QED
    BY <2>4, <2>6, <2>7
<1>2. CASE phase # "setup" /\ ~ \E w \in WorkId : Blocks(w) \/ Returns(w)
  <2>1. Created' = Created /\ ref' = ref
    BY <1>2, QuietStep
  <2>2. archive \subseteq archive'
    BY <1>0, <1>2, ObjectsStep
  <2>3. archive # {} \/ archive' = archive
    <3>1. phase \in {"running", "saving"} => archive # {}
      BY DEF DriverInv
    <3>2. phase \notin {"setup", "running", "saving"} => archive' = archive
      BY DEF ExperimentNext, Prepare, Schedules, Call, OpenFails, Start, StartFails,
           SolverFails, Blocks, Returns, Release, SaveEvidence, Conclude, RemoveMarker,
           Evaluate, EvaluationEnds, Rest, Running, run, objects
    <3>3. QED
      BY <1>2, <3>1, <3>2
  <2>4. QED
    BY <1>0, <2>1, <2>2, <2>3 DEF ArchiveHoldsWork
<1>3. ASSUME NEW w \in WorkId, Blocks(w) \/ Returns(w)
      PROVE  ArchiveHoldsWork'
  <2>1. /\ w \in Created /\ status[w] = "ACTIVE" /\ phase = "running"
        /\ Subject(w) /\ Grows(w)
    BY <1>3, CommitStep
  <2>2. PICK ok \in BOOLEAN : Committed(w, ok) /\ (ok \/ status'[w] = "BLOCKED")
    BY <1>3, CommitStep
  <2>3. archive \subseteq archive' /\ archive # {}
    BY <1>0, <2>1, <2>2, CommittedType DEF DriverInv
  <2>4. ref[w] \in archive
    BY <2>1, <2>3 DEF ArchiveHoldsWork
  <2>5. ref'[w] \in archive' \/ (status'[w] = "BLOCKED" /\ ref'[w][1] = w)
    <3>1. CASE ref'[w] = ref[w]
      BY <2>3, <2>4, <3>1
    <3>2. CASE ref'[w] # ref[w]
      <4>1. ref'[w] \in Refs
        BY <1>0 DEF TypeOK
      <4>2. ref'[w] \in history'[ref'[w]]
        BY <2>2, <3>2, <4>1 DEF Committed, DriverInv
      <4>3. ok => ref'[w] \in archive'
        BY <2>2, <3>2, <4>2 DEF Committed, Audited
      <4>4. ref'[w][1] = w
        BY <2>1, <3>2 DEF Subject, OwnCommit
      <4>5. QED
        BY <2>2, <4>3, <4>4
    <3>3. QED
      BY <3>1, <3>2
  <2>6. ASSUME NEW v \in Created'
        PROVE  ref'[v] \in archive' \/ (status'[v] = "BLOCKED" /\ ref'[v][1] = v)
    <3>1. CASE v = w
      BY <2>5, <3>1
    <3>2. CASE v \in Created \ {w}
      BY <1>0, <2>1, <2>3, <3>2 DEF Subject, ArchiveHoldsWork
    <3>3. CASE v \in Created' \ Created
      <4>1. /\ ref'[v] = ref'[w] /\ MadeOf(v, w)
        BY <2>1, <3>3 DEF Grows
      <4>2. status'[w] # "BLOCKED"
        <5>1. ~Settles(w)
          BY <3>3, NoGrowth
        <5>2. EngineAnswers(w)
          BY <1>3 DEF Blocks, Returns, EngineAnswers
        <5>3. (\E k \in 2 .. MaxWork : Fork(w, k)) \/ (\E k \in WorkId : Spawn(w, k))
          BY <5>1, <5>2 DEF EngineAnswers, Settles
        <5>4. QED
          BY <5>3 DEF Fork, Spawn
      <4>3. QED
        BY <2>5, <4>1, <4>2
    <3>4. QED
      BY <2>6, <3>1, <3>2, <3>3
  <2>7. QED
    BY <2>6 DEF ArchiveHoldsWork
<1>4. QED
  BY <1>1, <1>2, <1>3

\* What a database may have, it may have for good.
LEMMA FairStays ==
  ASSUME LineageInv, [Next]_vars, NEW w \in Created, NEW r, Fair(w, r)
  PROVE  Fair(w, r)'
<1> USE EngineInvParts DEF LineageInv
<1>1. PICK u \in Created : Grows(u)
  BY StepGrows
<1>2. Ancestry(w) \subseteq Ancestry(w)'
  BY <1>1, AncestryGrows, ForestStep
<1>3. Ancestry(w) \subseteq Created
  BY AncestryIsCreated
<1>4. Lines(w) \subseteq Lines(w)'
  BY <1>1, <1>2, <1>3 DEF Lines, Grows
<1>5. ASSUME r[1] \in Created, status[r[1]] \in Terminal, unit[r[1]].lineage \in Lines(w)
      PROVE  Fair(w, r)'
  <2>1. status'[r[1]] \in Terminal
    <3>1. CASE Next
      BY <1>5, <3>1, TerminalStays DEF Created
    <3>2. CASE UNCHANGED vars
      BY <1>5, <3>2 DEF vars, genealogy
    <3>3. QED
      BY <3>1, <3>2
  <2>2. r[1] \in Created' /\ unit'[r[1]] = unit[r[1]]
    BY <1>1, <1>5 DEF Grows
  <2>3. QED
    BY <1>4, <1>5, <2>1, <2>2 DEF Fair
<1>6. QED
  BY <1>2, <1>5 DEF Fair

\* New work may have what the unit it is made out of may have.
LEMMA FairInherits ==
  ASSUME LineageInv, [Next]_vars, NEW w \in Created, Grows(w), NEW c \in Created' \ Created,
         NEW r, Fair(w, r)'
  PROVE  Fair(c, r)'
<1> USE EngineInvParts DEF LineageInv
<1>1. Ancestry(w)' \subseteq Ancestry(c)'
  BY AncestryInherits, ForestStep
<1>2. Lines(w)' \subseteq Lines(c)'
  BY <1>1 DEF Lines
<1>3. QED
  BY <1>1, <1>2 DEF Fair

\* A unit that is invoked may have what its spawned work may have, which is resolved.
LEMMA FairFromChild ==
  ASSUME LineageInv, NEW w \in WorkId, status[w] = "ACTIVE", NEW c \in Children(w),
         NEW r, Fair(c, r)
  PROVE  Fair(w, r)
<1> USE EngineInvParts DEF LineageInv
<1>1. c \in Created /\ c \in WorkId /\ unit[c].parent = w /\ w # 0 /\ ~IsMain(c)
  BY ConstantTypes DEF Children, Created, WorkId, IsMain
<1>2. status[c] \in Terminal
  <2>1. c \notin WithStatus(Open)
    BY <1>1, ActiveHasNoOpenChild
  <2>2. status[c] \in Status /\ status[c] # "ABSENT"
    BY <1>1 DEF TypeOK, Created
  <2>3. QED
    BY <1>1, <2>1, <2>2 DEF WithStatus, Status
<1>3. w \in Ancestry(w) /\ unit[c].lineage = unit[w].lineage
  BY <1>1, AncestryHas DEF Forest
<1>4. Ancestry(c) \subseteq Ancestry(w) \cup {c}
  <2>1. SUFFICES ASSUME NEW v \in Ancestry(c), v # c,
                        NEW S \in SUBSET (WorkId \ {v}), w \in S, Lineal(S)
                 PROVE  FALSE
    BY DEF Ancestry
  <2>2. Lineal(S \cup {c}) /\ S \cup {c} \in SUBSET WorkId
    BY <1>1, <2>1 DEF Lineal, Creator
  <2>3. Ancestry(c) \subseteq S \cup {c}
    BY <2>2, AncestryWithin
  <2>4. QED
    BY <2>1, <2>3
<1>5. Lines(c) \subseteq Lines(w)
  BY <1>3, <1>4 DEF Lines
<1>6. unit[c].lineage \in Lines(w)
  BY <1>3 DEF Lines
<1>7. QED
  BY <1>1, <1>2, <1>4, <1>5, <1>6 DEF Fair

\* A step that makes no commit brings a unit's database commits it may have.
LEMMA QuietWorld ==
  ASSUME LineageInv, DriverInv, WorldInv, [Next]_vars,
         Created' = Created, ref' = ref, history' = history,
         \A w \in Created : \A r \in world'[w] : r \in world[w] \/ Fair(w, r),
         \A w \in WorkId \ Created : world'[w] = world[w]
  PROVE  WorldInv'
<1>1. ASSUME NEW w \in Created, NEW r \in world'[w] \cup history'[ref'[w]]
      PROVE  Fair(w, r)'
  <2>1. Fair(w, r)
    BY <1>1 DEF WorldInv
  <2>2. QED
    BY <2>1, FairStays
<1>2. QED
  BY <1>1 DEF WorldInv

LEMMA LoadedWorld ==
  ASSUME DriverInv, WorldInv, NEW w \in Created,
         NEW more, \A r \in more : Fair(w, r),
         world' = world \/ world' = [world EXCEPT ![w] = @ \cup more]
  PROVE  /\ \A v \in Created : \A r \in world'[v] : r \in world[v] \/ Fair(v, r)
         /\ \A v \in WorkId \ Created : world'[v] = world[v]
<1>1. w \in WorkId
  BY DEF Created
<1>2. \A v \in WorkId : world'[v] = world[v] \/ (v = w /\ world'[v] = world[v] \cup more)
  BY <1>1 DEF DriverInv
<1>3. QED
  BY <1>2 DEF Created

\* The commits of spawned work that execute() hands over.
LEMMA HandedOver ==
  ASSUME LineageInv, WorldInv, NEW w \in WorkId, status[w] = "ACTIVE",
         NEW got \in SUBSET Results(w)
  PROVE  \A r \in UNION {history[x] : x \in got} : Fair(w, r)
<1>1. TAKE r \in UNION {history[x] : x \in got}
<1>2. PICK x \in got : r \in history[x]
  OBVIOUS
<1>3. PICK c \in Children(w) : x = ref[c]
  BY DEF Results
<1>4. c \in Created
  BY DEF Children
<1>5. Fair(c, r)
  BY <1>2, <1>3, <1>4 DEF WorldInv
<1>6. QED
  BY <1>5, FairFromChild

\* A commit is built from what the unit's database has, and nobody else is at it.
LEMMA CommittedWorld ==
  ASSUME LineageInv, DriverInv, CommitsInOrder, WorldInv, [Next]_vars,
         NEW w \in Created, Subject(w), Grows(w), NEW ok \in BOOLEAN, Committed(w, ok)
  PROVE  WorldInv'
<1> USE EngineInvParts DEF LineageInv
<1>0. TypeOK' /\ w \in WorkId
  BY InvStep DEF EngineInv, Created
<1>1. /\ Created \subseteq Created' /\ Created' \subseteq WorkId
      /\ \A v \in Created \ {w} : ref'[v] = ref[v]
      /\ \A c \in Created' \ Created : ref'[c] = ref'[w]
  BY DEF Subject, Grows, Created
<1>2. ASSUME NEW v \in Created \ {w}, ref'[w] # ref[w]
      PROVE  ref[v] # ref'[w]
  <2>1. ref'[w][1] = w /\ ref'[w] = Advance(w, "dirty") /\ w # 0
    BY <1>0, <1>2, ConstantTypes DEF Subject, OwnCommit, WorkId
  <2>2. SUFFICES ASSUME ref[v] = ref'[w] PROVE FALSE
    OBVIOUS
  <2>3. ref[v] # RootRef
    BY <2>1, <2>2 DEF RootRef
  <2>4. ref[w][1] = w /\ ref[v][2] <= ref[w][2]
    BY <2>1, <2>2, <2>3 DEF CommitsInOrder
  <2>5. ref[v][2] = ref[w][2] + 1
    BY <2>1, <2>2, <2>4 DEF Advance
  <2>6. ref[w][2] \in Nat
    <3>1. ref[w] \in Refs
      BY <1>0 DEF TypeOK
    <3>2. QED
      BY <3>1, ConstantTypes DEF Refs
  <2>7. QED
    BY <2>4, <2>5, <2>6
<1>3. /\ \A v \in Created \ {w} : history'[ref'[v]] = history[ref[v]] /\ world'[v] = world[v]
      /\ \A v \in WorkId \ Created : world'[v] = world[v]
      /\ \A r \in world'[w] \cup history'[ref'[w]] :
           r \in world[w] \cup history[ref[w]] \/ r[1] = w
  <2>1. CASE ref'[w] = ref[w]
    BY <1>1, <2>1 DEF Committed, objects
  <2>2. CASE ref'[w] # ref[w]
    <3>1. PICK base \in {history[ref[w]], world[w]} :
            history' = [history EXCEPT ![ref'[w]] = base \cup {ref'[w]}]
      BY <2>2 DEF Committed
    <3>2. world' = [world EXCEPT ![w] = @ \cup {ref'[w]}]
      BY <2>2 DEF Committed
    <3>3. ref'[w] \in Refs /\ ref'[w][1] = w /\ \A v \in Created : ref[v] \in Refs
      BY <1>0, <2>2 DEF TypeOK, Subject, OwnCommit, Created
    <3>4. \A v \in Created \ {w} : history'[ref'[v]] = history[ref[v]]
      BY <1>1, <1>2, <2>2, <3>1, <3>3 DEF DriverInv
    <3>5. \A v \in WorkId \ {w} : world'[v] = world[v]
      BY <3>2 DEF DriverInv
    <3>6. /\ history'[ref'[w]] = base \cup {ref'[w]}
          /\ world'[w] = world[w] \cup {ref'[w]}
      BY <1>0, <3>1, <3>2, <3>3 DEF DriverInv
    <3>7. \A r \in world'[w] \cup history'[ref'[w]] :
            r \in world[w] \cup history[ref[w]] \/ r[1] = w
      BY <3>1, <3>3, <3>6
    <3>8. QED
      BY <3>4, <3>5, <3>7 DEF Created
  <2>3. QED
    BY <2>1, <2>2
<1>4. ASSUME NEW v \in Created, NEW r \in world'[v] \cup history'[ref'[v]]
      PROVE  Fair(v, r)'
  <2>1. CASE r \in world[v] \cup history[ref[v]]
    BY <2>1, FairStays DEF WorldInv
  <2>2. CASE r \notin world[v] \cup history[ref[v]]
    <3>1. v = w /\ r[1] = w
      BY <1>3, <1>4, <2>2
    <3>2. w \in Ancestry(w)
      BY <1>0, AncestryHas
    <3>3. Fair(w, r)
      BY <3>1, <3>2 DEF Fair
    <3>4. QED
      BY <3>1, <3>3, FairStays
  <2>3. QED
    BY <2>1, <2>2
<1>5. ASSUME NEW c \in Created' \ Created, NEW r \in world'[c] \cup history'[ref'[c]]
      PROVE  Fair(c, r)'
  <2>1. world'[c] = {}
    BY <1>1, <1>3 DEF WorldInv
  <2>2. r \in history'[ref'[w]]
    BY <1>1, <1>5, <2>1
  <2>3. Fair(w, r)'
    BY <1>4, <2>2
  <2>4. QED
    BY <2>3, FairInherits
<1>6. \A v \in WorkId \ Created' : world'[v] = {}
  BY <1>1, <1>3 DEF WorldInv
<1>7. QED
  BY <1>4, <1>5, <1>6 DEF WorldInv

LEMMA WorldStep ==
  ASSUME LineageInv, DriverInv, CommitsInOrder, WorldInv, [ExperimentNext]_<<run, engine>>
  PROVE  WorldInv'
<1> USE EngineInvParts DEF LineageInv
<1>0. [Next]_vars
  BY DrivesEngine
<1>1. ASSUME NEW w \in WorkId, Blocks(w) \/ Returns(w)
      PROVE  WorldInv'
  BY <1>0, <1>1, CommitStep, CommittedWorld
<1>2. CASE ~ \E w \in WorkId : Blocks(w) \/ Returns(w)
  <2>1. Created' = Created /\ ref' = ref /\ history' = history
    BY <1>2, QuietStep
  <2>2. ASSUME NEW w \in WorkId, Call(w) \/ OpenFails(w)
        PROVE  WorldInv'
    <3>1. w \in Created
      BY <2>2, InvokedIsActive DEF Call, OpenFails, Invoke, InvokeRefused
    <3>2. world' = world \/ world' = [world EXCEPT ![w] = @ \cup history[ref[w]]]
      BY <2>2 DEF Call, OpenFails, Loaded
    <3>3. \A r \in history[ref[w]] : Fair(w, r)
      BY <3>1 DEF WorldInv
    <3>4. QED
      BY <1>0, <2>1, <3>1, <3>2, <3>3, LoadedWorld, QuietWorld
  <2>3. ASSUME NEW w \in WorkId, Start(w) \/ StartFails(w)
        PROVE  WorldInv'
    <3>1. status[w] = "ACTIVE" /\ w \in Created
      <4>1. CASE Start(w)
        <5>1. pc = "invoke" /\ cur = w
          BY <4>1 DEF Start, DriverInv
        <5>2. QED
          BY <5>1 DEF Control, WithStatus, Created
      <4>2. CASE StartFails(w)
        BY <4>2, AnsweredIsActive DEF StartFails, AnswerFails
      <4>3. QED
        BY <2>3, <4>1, <4>2
    <3>2. \E got \in SUBSET Results(w) : world' = world \/ world' = Received(w, got)
      BY <2>3 DEF Start, StartFails
    <3>3. PICK got \in SUBSET Results(w) : world' = world \/ world' = Received(w, got)
      BY <3>2
    <3> DEFINE more == UNION {history[x] : x \in got}
    <3>4. \A r \in more : Fair(w, r)
      BY <3>1, HandedOver
    <3>5. world' = world \/ world' = [world EXCEPT ![w] = @ \cup more]
      BY <3>3 DEF Received
    <3> HIDE DEF more
    <3>6. /\ \A v \in Created : \A r \in world'[v] : r \in world[v] \/ Fair(v, r)
          /\ \A v \in WorkId \ Created : world'[v] = world[v]
      BY <3>1, <3>4, <3>5, LoadedWorld
    <3>7. QED
      BY <1>0, <2>1, <3>6, QuietWorld
  <2>4. CASE world' = world
    BY <1>0, <2>1, <2>4, QuietWorld
  <2>5. \/ world' = world
        \/ \E w \in WorkId : Call(w) \/ OpenFails(w) \/ Start(w) \/ StartFails(w)
    BY <1>2 DEF ExperimentNext, Prepare, Schedules, SolverFails, Release, SaveEvidence,
         Conclude, RemoveMarker, Evaluate, EvaluationEnds, Rest, run, objects
  <2>6. QED
    BY <2>2, <2>3, <2>4, <2>5
<1>3. QED
  BY <1>1, <1>2

LEMMA WorldsFollow ==
  ASSUME WorldInv
  PROVE  WorldsAreSeparate
BY DEF WorldInv, WorldsAreSeparate, Fair
-----------------------------------------------------------------------------
(* The experiment's theorems.                                              *)

\* The inductive invariant: that of the engine, what the driver does with it, and
\* the state of records, evidence, archive and databases.
ExperimentInv ==
  /\ LineageInv /\ DriverInv
  /\ EvidenceInv /\ RecordsInv
  /\ ArchiveHoldsWork /\ CommitsInOrder /\ WorldInv

LEMMA ExperimentInvInit == ExperimentInit => ExperimentInv
<1> SUFFICES ASSUME ExperimentInit PROVE ExperimentInv
  OBVIOUS
<1>1. Init /\ LineageInv
  BY LineageInvInit DEF ExperimentInit
<1>2. DriverInv
  BY ConstantTypes DEF DriverInv, ExperimentInit, Init
<1>3. EvidenceInv /\ RecordsInv
  BY DEF EvidenceInv, RecordsInv, ExperimentInit, Paired
<1>4. ArchiveHoldsWork /\ CommitsInOrder
  BY DEF ArchiveHoldsWork, CommitsInOrder, ExperimentInit, Init, Created
<1>5. WorldInv
  <2>1. \A w \in WorkId : ref[w] = RootRef /\ world[w] = {}
    BY <1>1 DEF Init, ExperimentInit
  <2>2. history[RootRef] = {RootRef}
    BY ConstantTypes DEF ExperimentInit
  <2>3. QED
    BY <2>1, <2>2 DEF WorldInv, Fair, Created
<1>6. QED
  BY <1>1, <1>2, <1>3, <1>4, <1>5 DEF ExperimentInv

LEMMA ExperimentInvStep ==
  ExperimentInv /\ [ExperimentNext]_<<run, engine>> => ExperimentInv'
<1> SUFFICES ASSUME ExperimentInv, [ExperimentNext]_<<run, engine>> PROVE ExperimentInv'
  OBVIOUS
<1>1. LineageInv'
  BY DrivesEngine, LineageInvStep DEF ExperimentInv
<1>2. TypeOK /\ TypeOK' /\ Ids
  BY <1>1, EngineInvParts DEF ExperimentInv, LineageInv, EngineInv
<1>3. DriverInv'
  BY <1>2, DriverStep DEF ExperimentInv
<1>4. EvidenceInv' /\ RecordsInv'
  BY <1>2, EvidenceKept, RecordsStep DEF ExperimentInv
<1>5. ArchiveHoldsWork' /\ CommitsInOrder' /\ WorldInv'
  BY ArchiveStep, OrderStep, WorldStep DEF ExperimentInv
<1>6. QED
  BY <1>1, <1>3, <1>4, <1>5 DEF ExperimentInv

\* Every reachable state of an experiment satisfies it.
THEOREM ExperimentInvariance == ExperimentSpec => []ExperimentInv
<1>1. QED
  BY ExperimentInvInit, ExperimentInvStep, PTL DEF ExperimentSpec

\* An experiment drives its engine through runs of the engine: all that is proved of
\* the engine holds in every experiment.
THEOREM ExperimentRunsEngine == ExperimentSpec => Spec
<1>1. ExperimentInit => Init
  BY DEF ExperimentInit
<1>2. [ExperimentNext]_<<run, engine>> => [Next]_vars
  BY DrivesEngine
<1>3. QED
  BY <1>1, <1>2, PTL DEF ExperimentSpec, Spec

\* A run that reports no error left all of its evidence, from archived commits.
THEOREM EvidenceStays == ExperimentSpec => []EvidenceIsComplete
<1>1. ExperimentInv => EvidenceIsComplete
  BY DEF ExperimentInv, EvidenceInv, EvidenceIsComplete
<1>2. QED
  BY <1>1, ExperimentInvariance, PTL

\* Replay accepts exactly the runs whose every operation had its "started" record,
\* and none of the edits of their evidence.
THEOREM VerdictsHold == ExperimentSpec => []ReplayVerdict
<1>1. ExperimentInv => ReplayVerdict
  BY VerdictIs, EditsAreNoticed DEF ExperimentInv, ReplayVerdict
<1>2. QED
  BY <1>1, ExperimentInvariance, PTL

\* The commit of a unit can be fetched from the archive whenever work starts from it;
\* only a blocked unit whose own export failed has one the archive lacks.
THEOREM ArchiveStays == ExperimentSpec => []ArchiveHoldsWork
<1>1. ExperimentInv => ArchiveHoldsWork
  BY DEF ExperimentInv
<1>2. QED
  BY <1>1, ExperimentInvariance, PTL

\* No database gets a commit of a sibling alternative: it has those of the unit and
\* its ancestors, and of resolved units in their lineages.
THEOREM WorldsStaySeparate == ExperimentSpec => []WorldsAreSeparate
<1>1. ExperimentInv => WorldsAreSeparate
  BY WorldsFollow DEF ExperimentInv
<1>2. QED
  BY <1>1, ExperimentInvariance, PTL
=============================================================================
