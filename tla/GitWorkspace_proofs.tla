------------------------- MODULE GitWorkspace_proofs -------------------------
(***************************************************************************)
(* Proofs about GitWorkspace: what goes with a worktree and what an        *)
(* operation that reports success has done, for any number of commits,     *)
(* operations and changes.                                                 *)
(***************************************************************************)
EXTENDS GitWorkspace, TLAPS

\* Which operation a command belongs to.
Sequenced ==
  /\ backend = "workspace" => op \in {"none", "INITIALIZE", "OPEN", "COMMIT", "CHECK", "RELEASE"}
  /\ backend = "execute" => op \in {"none", "INITIALIZE", "EXECUTE"}
  /\ backend \in {"workspace", "execute"}
  /\ pc # "idle" => answer = "none"
  /\ pc = "inspect" => op = "INITIALIZE"
  /\ pc \in {"resolve", "add"} => op \in {"OPEN", "EXECUTE"} /\ assigned = "none" /\ ~disk
  /\ pc \notin {"idle", "inspect", "resolve", "add"} => assigned # "none"
  /\ pc = "identify" => op \in {"COMMIT", "CHECK", "RELEASE"}
  /\ pc \in {"callback", "settle"} => op = "EXECUTE"
  /\ pc \in {"stage", "compare", "commit", "read"} => op \in {"COMMIT", "EXECUTE"}
  /\ pc = "status" => op \in {"CHECK", "RELEASE", "EXECUTE"}
  /\ pc = "remove" => op \in {"RELEASE", "EXECUTE"}

\* What HEAD is known to be while an operation is under way.
Located ==
  /\ assigned = "none" => ref = 0 /\ head = 0
  /\ op \in {"COMMIT", "CHECK", "RELEASE"} /\ pc \in {"stage", "compare", "commit", "status"} =>
       head = ref
  /\ pc = "remove" => head = ref
  /\ op = "COMMIT" /\ pc = "read" => head \in managed \cup {ref}
  /\ backend = "execute" => head \in managed \cup {0}
  /\ ref \in managed \cup {0}
  /\ op = "RELEASE" /\ pc = "remove" => ignored # "there"

\* What a commit has taken in so far.
TakenIn ==
  /\ pc # "idle" => since \subseteq work
  /\ op = "COMMIT" /\ pc \in {"compare", "commit"} => since \subseteq index
  /\ op = "COMMIT" /\ pc = "read" => since \subseteq content[head]

Typed == made \in Nat /\ DOMAIN content = Commits

WorkspaceInv == Sequenced /\ Located /\ TakenIn /\ Typed

LEMMA WorkspaceInvInit ==
  Init => WorkspaceInv
BY DEF Init, WorkspaceInv, Sequenced, Located, TakenIn, Typed, Commits

LEMMA SequencedStep ==
  ASSUME Sequenced, [Next]_vars
  PROVE  Sequenced'
<1> USE DEF Sequenced, call, artifact, files, Goes, Returns, Throws
<1>1. CASE \E kind \in Supported : Request(kind)
  BY <1>1 DEF Request, Supported
<1>2. CASE Inspect \/ Resolve \/ Add
  BY <1>2 DEF Inspect, Resolve, Add
<1>3. CASE Identify \/ Stage
  BY <1>3 DEF Identify, Stage
<1>4. CASE Compare \/ Commit
  BY <1>4 DEF Compare, Commit, AfterCommit
<1>5. CASE Read \/ Callback \/ Settle
  BY <1>5 DEF Read, Callback, Settle
<1>6. CASE Status
  BY <1>6 DEF Status
<1>7. CASE Remove
  BY <1>7 DEF Remove
<1>8. CASE Edit \/ MoveHistory \/ Over \/ UNCHANGED vars
  BY <1>8 DEF Edit, MoveHistory, Over, vars
<1>9. QED
  BY <1>1, <1>2, <1>3, <1>4, <1>5, <1>6, <1>7, <1>8 DEF Next

LEMMA LocatedStep ==
  ASSUME Sequenced, Located, [Next]_vars
  PROVE  Located'
<1> USE DEF Sequenced, Located, call, artifact, history, files, Goes, Returns, Throws
<1>1. CASE \E kind \in Supported : Request(kind)
  BY <1>1 DEF Request, Supported
<1>2. CASE Inspect \/ Resolve \/ Add
  BY <1>2 DEF Inspect, Resolve, Add
<1>3. CASE Identify \/ Stage
  BY <1>3 DEF Identify, Stage, Identified
<1>4. CASE Compare
  BY <1>4 DEF Compare, AfterCommit
<1>5. CASE Commit
  <2>1. CASE UNCHANGED history /\ Throws
    BY <1>5, <2>1 DEF Commit
  <2>2. CASE CommitIndex /\ managed' = managed \cup {made + 1}
    <3>1. head' \in managed' /\ (\A c \in managed : c \in managed')
      BY <2>2 DEF CommitIndex
    <3>2. UNCHANGED <<backend, op, assigned, ref, ignored>> /\ pc = "commit"
          /\ pc' \in {"read", "callback", "idle", "settle"}
          /\ (pc' = "read" => op = "COMMIT")
      BY <1>5 DEF Commit, AfterCommit
    <3>3. QED
      BY <3>1, <3>2
  <2>3. QED
    BY <1>5, <2>1, <2>2 DEF Commit
<1>6. CASE Read \/ Callback \/ Settle
  BY <1>6 DEF Read, Callback, Settle
<1>7. CASE Status
  BY <1>7 DEF Status, Removable
<1>8. CASE Remove
  BY <1>8 DEF Remove
<1>9. CASE Edit
  BY <1>9 DEF Edit
<1>10. CASE MoveHistory
  BY <1>10 DEF MoveHistory, Writable, CommitIndex
<1>11. CASE Over \/ UNCHANGED vars
  BY <1>11 DEF Over, vars
<1>12. QED
  BY <1>1, <1>2, <1>3, <1>4, <1>5, <1>6, <1>7, <1>8, <1>9, <1>10, <1>11 DEF Next

LEMMA TakenInStep ==
  ASSUME WorkspaceInv, [Next]_vars
  PROVE  TakenIn' /\ Typed'
<1> USE DEF WorkspaceInv, Sequenced, TakenIn, Typed, call, artifact, history, files,
            Goes, Returns, Throws
<1>1. CASE \E kind \in Supported : Request(kind)
  BY <1>1 DEF Request, Supported
<1>2. CASE Inspect \/ Resolve \/ Add
  BY <1>2 DEF Inspect, Resolve, Add
<1>3. CASE Identify \/ Stage
  BY <1>3 DEF Identify, Stage
<1>4. CASE Compare
  BY <1>4 DEF Compare, AfterCommit
<1>5. CASE Commit
  <2>1. CASE UNCHANGED history /\ Throws
    BY <1>5, <2>1 DEF Commit
  <2>2. CASE CommitIndex
    <3>1. made + 1 \in Commits
      BY <2>2, WorkspaceAssumption DEF CommitIndex, Commits
    <3>2. made' \in Nat /\ DOMAIN content' = Commits /\ content'[head'] = index
      BY <2>2, <3>1 DEF CommitIndex
    <3>3. QED
      BY <1>5, <3>2 DEF Commit
  <2>3. QED
    BY <1>5, <2>1, <2>2 DEF Commit
<1>6. CASE Read \/ Callback \/ Settle
  BY <1>6 DEF Read, Callback, Settle
<1>7. CASE Status
  BY <1>7 DEF Status
<1>8. CASE Remove
  BY <1>8 DEF Remove
<1>9. CASE Edit
  BY <1>9 DEF Edit
<1>10. CASE MoveHistory
  BY <1>10 DEF MoveHistory, CommitIndex
<1>11. CASE Over \/ UNCHANGED vars
  BY <1>11 DEF Over, vars
<1>12. QED
  BY <1>1, <1>2, <1>3, <1>4, <1>5, <1>6, <1>7, <1>8, <1>9, <1>10, <1>11 DEF Next

LEMMA WorkspaceInvHolds ==
  Spec => []WorkspaceInv
<1>1. WorkspaceInv /\ [Next]_vars => WorkspaceInv'
  BY SequencedStep, LocatedStep, TakenInStep DEF WorkspaceInv
<1>2. QED
  BY <1>1, WorkspaceInvInit, PTL DEF Spec
-----------------------------------------------------------------------------
\* A worktree goes only with nothing in it that its branch has not, on the commit
\* the artifact names, and RELEASE deletes no ignored file it has seen.
THEOREM WorkOutlivesWorktree ==
  Spec => WorkIsKept
<1>1. ASSUME WorkspaceInv, [Next]_vars
      PROVE  [disk /\ ~disk' => /\ Tidy /\ ref = head
                                /\ op = "RELEASE" => ignored # "there"]_vars
  <2>1. CASE Remove
    BY <1>1, <2>1 DEF Remove, WorkspaceInv, Located, files
  <2>2. CASE Add
    BY <1>1, <2>2 DEF Add, WorkspaceInv, Sequenced
  <2>3. CASE ~Remove /\ ~Add
    BY <1>1, <2>3
       DEF Next, Request, Inspect, Resolve, Identify, Stage, Compare, Commit, Read, Status,
           Callback, Settle, Edit, MoveHistory, Over, vars, files
  <2>4. QED
    BY <2>1, <2>2, <2>3
<1>2. QED
  BY <1>1, WorkspaceInvHolds, PTL DEF Spec, WorkIsKept

\* What an operation reports as done is so, whatever the solver did to the history.
THEOREM AnswersAreTrue ==
  Spec => AnswerIsTrue
<1> DEFINE Done == /\ ref' = head' /\ ref' \in managed' \cup {0}
                   /\ op = "COMMIT" => since \subseteq content[ref']
                   /\ op = "CHECK" => work = content[ref']
                   /\ op = "EXECUTE" => ~disk' /\ assigned' = "cleaned"
<1>1. ASSUME WorkspaceInv, [Next]_vars, pc # "idle", answer' = "ok", op # "INITIALIZE"
      PROVE  Done
  <2>1. answer = "none"
    BY <1>1 DEF WorkspaceInv, Sequenced
  <2>2. Add \/ Read \/ Status \/ Remove
    BY <1>1, <2>1
       DEF Next, Request, Inspect, Resolve, Identify, Stage, Compare, Commit, Callback, Settle,
           Edit, MoveHistory, Over, vars, Goes, Returns, Throws, WorkspaceInv, Sequenced
  <2>3. CASE Add
    BY <1>1, <2>1, <2>3
       DEF Add, WorkspaceInv, Sequenced, Located, Goes, Returns, Throws, history, call
  <2>4. CASE Read
    BY <1>1, <2>1, <2>4
       DEF Read, WorkspaceInv, Sequenced, Located, TakenIn, Goes, Returns, Throws, history
  <2>5. CASE Status
    BY <1>1, <2>1, <2>5
       DEF Status, Tidy, WorkspaceInv, Sequenced, Located, Goes, Returns, Throws, history, artifact
  <2>6. CASE Remove
    BY <1>1, <2>1, <2>6 DEF Remove, WorkspaceInv, Sequenced, Located, Goes, Returns, history
  <2>7. QED
    BY <2>2, <2>3, <2>4, <2>5, <2>6
<1>2. ASSUME WorkspaceInv, [Next]_vars
      PROVE  [pc # "idle" /\ answer' = "ok" /\ op # "INITIALIZE" => Done]_vars
  BY <1>1, <1>2
<1>3. QED
  BY <1>2, WorkspaceInvHolds, PTL DEF Spec, AnswerIsTrue
=============================================================================
