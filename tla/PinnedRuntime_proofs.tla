------------------------ MODULE PinnedRuntime_proofs ------------------------
(***************************************************************************)
(* Proofs about PinnedRuntime, for every number of edits and of messages   *)
(* under way.                                                              *)
(***************************************************************************)
EXTENDS PinnedRuntime, TLAPS

Early == {"read", "commit", "checkout", "bind", "compile", "copy", "fork"}
Late == {"wait", "preflight.json", "metadata.json", "clean", "done", "dead"}
Active == {"booting", "ready", "preflight", "running"}
Evidence == {"preflight.json", "metadata.json"}

Shape ==
  /\ TypeOK
  /\ schema \in {2, 3} /\ defect \in Defects
  /\ pc \in Early \cup Late /\ child \in Active \cup {"none", "sent", "gone"}
  /\ tree \in BOOLEAN /\ result \in BOOLEAN /\ finished \in BOOLEAN /\ failed \in BOOLEAN

\* Parent and child: while the child has work to do the parent waits, or is dead, or
\* was told of an error of the child object.
Lifetimes ==
  /\ pc \in Early => child = "none" /\ verdict = "none" /\ ~finished /\ ~result /\ ran = "none"
  /\ child \in Active => failed \/ (pc \in {"wait", "dead"} /\ tree)
  /\ child \in {"booting", "ready", "preflight"} => ran = "none"
  /\ pc \in Early \cup {"wait"} \cup Evidence => ~failed
  /\ pc \in {"bind", "compile", "copy", "fork", "wait"} => tree

\* What each look established, for as long as something rests on it.
Registered ==
  /\ pc \in {"checkout", "bind", "compile", "copy", "fork", "wait"} \/ child \in Active =>
       kept["pilot"] = "pinned" /\ defect \notin Registration
  /\ (pc \in {"compile", "copy", "fork", "wait"} \/ child \in Active) /\ schema = 3 =>
       kept["manifest"] = "pinned" /\ kept["evaluator"] = "pinned"
  /\ RunsAsRegistered

\* A result under way, or received, is that of a finished run.
Whole ==
  /\ finished => child \in {"sent", "gone"} /\ defect = "none"
  /\ \A i \in 1 .. Len(up) : up[i] = "result" => finished
  /\ result => finished
  /\ pc \in Evidence => child = "gone" /\ result
  /\ pc = "metadata.json" => "preflight.json" \in patched
  /\ verdict = "accepted" =>
       /\ pc \in {"clean", "done", "dead"} /\ child = "gone" /\ finished /\ ~failed
       /\ patched = Evidence /\ (pc = "done" => ~tree)

PinnedInv == Shape /\ Lifetimes /\ Registered /\ Whole

\* The messages of the child arrive in the order they were sent in.
LEMMA ToParentEffect ==
  ASSUME up \in Seq({"event", "result", "error"}), NEW m \in {"event", "result", "error"}, ToParent(m)
  PROVE  /\ up' \in Seq({"event", "result", "error"})
         /\ \A i \in 1 .. Len(up') : up'[i] = m \/ (i \in 1 .. Len(up) /\ up'[i] = up[i])
BY DEF ToParent

LEMMA KeepEffect ==
  ASSUME Shape, NEW files \in SUBSET Files, Keep(files)
  PROVE  /\ kept' \in [Files -> {"none", "pinned", "other"}]
         /\ \A f \in files : kept'[f] = file[f]
         /\ \A f \in Files \ files : kept'[f] = kept[f]
BY DEF Keep, Shape, TypeOK

LEMMA PinnedInit ==
  Init => PinnedInv
<1> SUFFICES ASSUME Init PROVE PinnedInv
  OBVIOUS
<1>1. Shape
  <2>1. TypeOK
    BY DEF Init, TypeOK
  <2>2. QED
    BY <2>1 DEF Init, Shape, Early
<1>2. Lifetimes /\ Registered /\ Whole
  BY DEF Init, Lifetimes, Registered, RunsAsRegistered, Whole, Early, Active, Evidence
<1>3. QED
  BY <1>1, <1>2 DEF PinnedInv

\* A step of the parent that is about its promise and its evidence only.
LEMMA ParentShape ==
  ASSUME Shape, UNCHANGED <<schema, defect, kept, file, code, down, up, child, tree, result, finished,
                        failed, ran>>,
         pc' \in Early \cup Late, verdict' \in {verdict, "accepted", "rejected"},
         patched' \subseteq Evidence
  PROVE  Shape'
BY DEF Shape, TypeOK, Defects, Authority, Evidence

LEMMA ShapeStep ==
  ASSUME Shape, Next
  PROVE  Shape'
<1>1. CASE Committed \/ Checkout \/ Compile \/ Exited \/ PatchPreflight \/ PatchMetadata \/
             Clean \/ Disconnected \/ ParentCrash
  <2>1. CASE Committed \/ Checkout \/ Compile
    <3>1. CASE Committed
      BY <3>1 DEF Committed, Step, Reject, Shape, TypeOK, Early, Late, Active, Defects,
             Authority, runtime, world, heard
    <3>2. CASE Checkout
      BY <3>2 DEF Checkout, Step, Reject, Shape, TypeOK, Early, Late, Active, Defects,
             Authority, runtime, world, heard
    <3>3. CASE Compile
      BY <3>3 DEF Compile, Step, Reject, Shape, TypeOK, Early, Late, Active, Defects, Authority,
             runtime, world, heard
    <3>4. QED
      BY <2>1, <3>1, <3>2, <3>3
  <2>2. CASE Exited \/ PatchPreflight \/ PatchMetadata
    <3>1. CASE Exited
      BY <3>1 DEF Exited, Reject, Shape, TypeOK, Early, Late, Active, Defects, Authority,
             runtime, world, heard
    <3>2. CASE PatchPreflight
      <4>1. pc' \in Late /\ verdict' \in {verdict, "rejected"} /\ patched' \subseteq Evidence
        BY <3>2 DEF PatchPreflight, Step, Reject, Late, Evidence, Shape, TypeOK
      <4>2. QED
        BY <3>2, <4>1, ParentShape DEF PatchPreflight, runtime, world, heard
    <3>3. CASE PatchMetadata
      <4>1. pc' \in Late /\ verdict' \in {"accepted", "rejected"} /\ patched' \subseteq Evidence
        BY <3>3 DEF PatchMetadata, Reject, Late, Evidence, Shape, TypeOK
      <4>2. QED
        BY <3>3, <4>1, ParentShape DEF PatchMetadata, runtime, world, heard
    <3>4. QED
      BY <2>2, <3>1, <3>2, <3>3
  <2>3. CASE Clean \/ Disconnected \/ ParentCrash
    <3>1. CASE Clean
      <4>1. tree' \in BOOLEAN /\ verdict' \in {"none", "accepted", "rejected"}
            /\ pc' \in Late
        BY <3>1 DEF Clean, Shape, TypeOK, Late
      <4>2. QED
        BY <3>1, <4>1 DEF Clean, Shape, TypeOK, Defects, Authority, runtime, world, heard
    <3>2. CASE Disconnected
      BY <3>2 DEF Disconnected, Shape, TypeOK, Early, Late, Active, Defects, Authority, runtime,
             world, heard
    <3>3. CASE ParentCrash
      BY <3>3 DEF ParentCrash, Shape, TypeOK, Early, Late, Active, Defects, Authority, runtime,
             world, heard
    <3>4. QED
      BY <2>3, <3>1, <3>2, <3>3
  <2>4. QED
    BY <1>1, <2>1, <2>2, <2>3
<1>2. CASE Read
  <2>1. kept' \in [Files -> {"none", "pinned", "other"}]
    BY <1>2, KeepEffect DEF Read, Files
  <2>2. QED
    BY <1>2, <2>1 DEF Read, Step, Shape, TypeOK, Early, Late, Active, Defects, Authority, runtime, world, heard
<1>3. CASE Bind
  BY <1>3 DEF Bind, Step, Reject, Shape, TypeOK, Early, Late, Active, Defects, Authority,
         runtime, world, heard
<1>4. CASE Copy
  <2>1. kept' \in [Files -> {"none", "pinned", "other"}]
    BY <1>4, KeepEffect DEF Copy, Files, Shape, TypeOK
  <2>2. QED
    BY <1>4, <2>1 DEF Copy, Step, Shape, TypeOK, Early, Late, Active, Defects, Authority, runtime, world, heard
<1>5. CASE Fork
  <2>1. down' \in Seq({"options", "cancel"})
    <3>1. Sent \in Seq({"options", "cancel"})
      <4> DEFINE first == <<"options">>
                 T == {"options", "cancel"}
      <4>1. Sent = first \/ Sent = Append(first, "cancel")
        BY DEF Sent
      <4>2. first \in Seq(T) /\ "cancel" \in T
        OBVIOUS
      <4>3. Sent \in Seq(T)
        <5> HIDE DEF first, T
        <5>1. QED
          BY <4>1, <4>2
      <4>4. QED
        BY <4>3
    <3>2. QED
      BY <1>5, <3>1 DEF Fork, Shape, TypeOK
  <2>2. QED
    BY <1>5, <2>1 DEF Fork, Step, Reject, Shape, TypeOK, Early, Late, Active, Defects, Authority, world, heard
<1>6. CASE Receive \/ ChildError \/ Abort
  <2>1. CASE Receive
    BY <2>1 DEF Receive, Shape, TypeOK, Early, Late, Active, Defects, Authority, runtime, world, heard
  <2>2. CASE Abort
    <3>1. down' \in Seq({"options", "cancel"}) /\ UNCHANGED <<pc, verdict>>
      <4>1. down \in Seq({"options", "cancel"})
        BY DEF Shape, TypeOK
      <4>2. Append(down, "cancel") \in Seq({"options", "cancel"})
        BY <4>1
      <4>3. UNCHANGED <<pc, verdict>> /\ down' \in {down, Append(down, "cancel")}
        BY <2>2 DEF Abort, Cancel
      <4>4. QED
        BY <4>1, <4>2, <4>3
    <3>2. failed' = failed
      BY <2>2 DEF Abort
    <3>3. QED
      BY <2>2, <3>1, <3>2 DEF Abort, Shape, TypeOK, Early, Late, Active, Defects, Authority, runtime,
             world
  <2>3. CASE ChildError
    BY <2>3 DEF ChildError, Reject, Shape, TypeOK, Early, Late, Active, Defects, Authority,
           runtime, world, heard
  <2>4. QED
    BY <1>6, <2>1, <2>2, <2>3
<1>7. CASE Boot \/ TakeOptions \/ TakeCancel \/ Leave \/ Edit \/ ChildCrash
  <2>1. CASE Boot \/ Leave \/ ChildCrash
    <3>1. CASE Boot
      BY <3>1 DEF Boot, Dies, Shape, TypeOK, Early, Late, Active, Defects, Authority, parent,
             world, heard
    <3>2. CASE Leave
      BY <3>2 DEF Leave, Dies, Shape, TypeOK, Early, Late, Active, Defects, Authority, parent,
             world, heard
    <3>3. CASE ChildCrash
      BY <3>3 DEF ChildCrash, Dies, Alive, Shape, TypeOK, Early, Late, Active, Defects,
             Authority, parent, world, heard
    <3>4. QED
      BY <2>1, <3>1, <3>2, <3>3
  <2>2. CASE TakeOptions
    BY <2>2 DEF TakeOptions, Shape, TypeOK, Early, Late, Active, Defects, Authority, parent,
           runtime, world, heard
  <2>3. CASE TakeCancel
    BY <2>3 DEF TakeCancel, Shape, TypeOK, Early, Late, Active, Defects, Authority, parent,
           runtime, world, heard
  <2>4. CASE Edit
    BY <2>4 DEF Edit, Shape, TypeOK, Early, Late, Active, Defects, Authority, parent, runtime,
           world, heard, heard
  <2>5. QED
    BY <1>7, <2>1, <2>2, <2>3, <2>4
<1>8. CASE Preflight
  <2> DEFINE files == {"executor"} \cup IF schema = 2 THEN {"manifest"} ELSE {"tools"}
  <2>1. kept' \in [Files -> {"none", "pinned", "other"}]
    <3>1. files \in SUBSET Files
      BY DEF Files
    <3>2. Keep(files) \/ UNCHANGED kept
      BY <1>8 DEF Preflight
    <3> HIDE DEF files
    <3>3. QED
      BY <3>1, <3>2, KeepEffect DEF Shape, TypeOK
  <2>2. up' \in Seq({"event", "result", "error"})
    BY <1>8, ToParentEffect DEF Preflight, Shape, TypeOK
  <2>3. QED
    BY <1>8, <2>1, <2>2 DEF Preflight, Shape, TypeOK, Early, Late, Active, Defects, Authority, parent, world, heard
<1>9. CASE Invoke
  BY <1>9 DEF Invoke, Files, Shape, TypeOK, Early, Late, Active, Defects, Authority, parent, runtime, world, heard
<1>10. CASE Event \/ Finish
  <2>1. CASE Event
    BY <2>1, ToParentEffect DEF Event, Orphaned, Dies, Shape, TypeOK, Early, Late, Active,
           Defects, Authority, parent, world, heard
  <2>2. CASE Finish
    BY <2>2, ToParentEffect DEF Finish, Shape, TypeOK, Early, Late, Active, Defects, Authority,
           parent, world, heard
  <2>3. QED
    BY <1>10, <2>1, <2>2
<1>11. QED
  BY <1>1, <1>2, <1>3, <1>4, <1>5, <1>6, <1>7, <1>8, <1>9, <1>10 DEF Next, Preparing, Settling

\* The parent moves on from the fork only when the child is gone or was reported in
\* error; the tree goes only after that.
LEMMA LifetimesStep ==
  ASSUME Shape, Lifetimes, Next
  PROVE  Lifetimes'
<1>1. CASE Read \/ Committed \/ Checkout \/ Bind \/ Compile \/ Copy \/ Fork
  BY <1>1 DEF Read, Committed, Checkout, Bind, Compile, Copy, Fork, Step, Reject, Shape,
         Lifetimes, Early, Late, Active, Evidence, runtime, heard
<1>2. CASE Exited \/ PatchPreflight \/ PatchMetadata \/ Clean \/ ParentCrash
  <2>1. CASE Exited \/ PatchPreflight \/ PatchMetadata
    BY <2>1 DEF Exited, PatchPreflight, PatchMetadata, Reject, Step, Shape, Lifetimes, Early, Late,
           Active, Evidence, runtime, heard
  <2>2. CASE Clean
    BY <2>2 DEF Clean, Shape, Lifetimes, Early, Late, Active, Evidence, runtime, heard
  <2>3. CASE ParentCrash
    BY <2>3 DEF ParentCrash, Shape, Lifetimes, Early, Late, Active, Evidence, runtime, heard
  <2>4. QED
    BY <1>2, <2>1, <2>2, <2>3
<1>3. CASE Receive \/ Disconnected \/ ChildError \/ Abort
  BY <1>3 DEF Receive, Disconnected, ChildError, Abort, Cancel, Listening, Open, Evidence, heard,
         Reject, Shape, Lifetimes, Early, Late,
         Active, runtime
<1>4. CASE Boot \/ TakeOptions \/ TakeCancel \/ Preflight \/ Invoke \/ Event \/ Finish \/ Leave
             \/ Edit \/ ChildCrash
  BY <1>4 DEF Boot, TakeOptions, TakeCancel, Preflight, Invoke, Event, Finish, Leave, Edit,
         ChildCrash, Dies, Orphaned, Alive, Shape, Lifetimes, Early, Late, Active, parent,
         Evidence, runtime, heard
<1>5. QED
  BY <1>1, <1>2, <1>3, <1>4 DEF Next, Preparing, Settling

\* What one look established is not undone before the next.
LEMMA RegisteredStep ==
  ASSUME Shape, Lifetimes, Registered, Next
  PROVE  Registered'
<1>1. CASE Read
  BY <1>1, KeepEffect DEF Read, Step, Shape, TypeOK, Lifetimes, Registered, RunsAsRegistered,
         Early, Active, runtime, world, heard
<1>2. CASE Committed \/ Checkout \/ Compile \/ Fork
  BY <1>2 DEF Committed, Checkout, Compile, Fork, Step, Reject, Shape, TypeOK, Lifetimes,
         Registered, RunsAsRegistered, Early, Active, runtime, world, heard
<1>3. CASE Bind
  <2>1. CASE schema = 3 /\ pc' = "compile"
    <3>1. kept' = [kept EXCEPT !["manifest"] = "pinned", !["evaluator"] = "pinned"]
          /\ pc = "bind" /\ UNCHANGED <<schema, defect, child>>
      BY <1>3, <2>1 DEF Bind, Step, Reject, runtime, heard
    <3>2. kept'["manifest"] = "pinned" /\ kept'["evaluator"] = "pinned" /\ kept'["pilot"] = kept["pilot"]
      BY <3>1 DEF Shape, TypeOK, Files
    <3>3. child \notin Active /\ child # "running"
      BY <3>1 DEF Lifetimes, Early, Active
    <3>4. QED
      BY <2>1, <3>1, <3>2, <3>3 DEF Registered, RunsAsRegistered
  <2>2. CASE UNCHANGED kept /\ ~(schema = 3 /\ pc' = "compile")
    <3>1. pc = "bind" /\ pc' \in {"compile", "clean"} /\ UNCHANGED <<schema, defect, child, kept>>
          /\ (pc' = "compile" => schema # 3)
      BY <1>3, <2>2 DEF Bind, Step, Reject, runtime, heard
    <3>2. child \notin Active /\ child # "running"
      BY <3>1 DEF Lifetimes, Early, Active
    <3>3. QED
      BY <3>1, <3>2 DEF Registered, RunsAsRegistered
  <2>3. QED
    BY <1>3, <2>1, <2>2 DEF Bind, Step, Reject
<1>4. CASE Copy
  <2>1. /\ pc = "copy" /\ pc' = "fork" /\ UNCHANGED <<schema, defect, child>>
        /\ IF schema = 2 THEN Keep({"evaluator"}) ELSE UNCHANGED kept
    BY <1>4 DEF Copy, Step, runtime, heard
  <2>2. kept'["pilot"] = kept["pilot"] /\ (schema = 3 => kept' = kept)
    <3>1. {"evaluator"} \in SUBSET Files /\ "pilot" \in Files \ {"evaluator"}
      BY DEF Files
    <3>2. QED
      BY <2>1, <3>1, KeepEffect
  <2>3. child \notin Active /\ child # "running"
    BY <2>1 DEF Lifetimes, Early, Active
  <2>4. QED
    BY <2>1, <2>2, <2>3 DEF Registered, RunsAsRegistered
<1>5. CASE Exited \/ PatchPreflight \/ PatchMetadata \/ Clean \/ Receive \/ Disconnected \/
             ChildError \/ Abort \/ ParentCrash
  BY <1>5 DEF ChildError, Listening, Open, Exited, PatchPreflight, PatchMetadata, Clean, Receive, Disconnected, Abort,
         ParentCrash, Reject, Step, Cancel, Shape, TypeOK, Lifetimes, Registered,
         RunsAsRegistered, Early, Active, runtime, world, heard
<1>6. CASE Boot \/ TakeOptions \/ TakeCancel \/ Event \/ Finish \/ Leave \/ Edit \/ ChildCrash
  BY <1>6 DEF Boot, TakeOptions, TakeCancel, Event, Finish, Leave, Edit, ChildCrash, Dies,
         Orphaned, Alive, Shape, TypeOK, Lifetimes, Registered, RunsAsRegistered, Early, Active,
         parent, runtime, world, heard
<1>7. CASE Preflight
  <2> DEFINE files == {"executor"} \cup IF schema = 2 THEN {"manifest"} ELSE {"tools"}
  <2>1. child = "preflight" /\ UNCHANGED <<schema, defect, pc>>
    BY <1>7 DEF Preflight, parent
  <2>2. CASE child' = "running"
    <3>1. defect \notin ChildRefuses /\ Fits /\ Keep(files)
      BY <1>7, <2>2 DEF Preflight
    <3>2. defect = "none"
      BY <2>1, <3>1 DEF Registered, Active, Shape, Defects, ChildRefuses
    <3>3. files \in SUBSET Files /\ {"pilot", "evaluator"} \subseteq Files \ files
      BY DEF Files
    <3>4. kept'["pilot"] = kept["pilot"] /\ kept'["evaluator"] = kept["evaluator"]
          /\ \A f \in files : kept'[f] = file[f]
      <4> HIDE DEF files
      <4>1. QED
        BY <3>1, <3>3, KeepEffect
    <3>5. schema = 3 => /\ kept'["manifest"] = kept["manifest"]
                       /\ kept'["executor"] = file["executor"] /\ kept'["tools"] = file["tools"]
      <4>1. schema = 3 => "executor" \in files /\ "tools" \in files
                          /\ "manifest" \in Files \ files
        BY DEF Files
      <4> HIDE DEF files
      <4>2. QED
        BY <3>1, <3>3, <3>4, <4>1, KeepEffect
    <3>6. ran' = "none" /\ kept'["executor"] = file["executor"]
      <4>1. ran' = ran /\ "executor" \in files
        BY <1>7 DEF Preflight
      <4>2. QED
        BY <2>1, <3>4, <4>1 DEF Lifetimes
    <3> HIDE DEF files
    <3>7. QED
      BY <2>1, <2>2, <3>1, <3>2, <3>4, <3>5, <3>6
         DEF Registered, RunsAsRegistered, Fits, Active, Files
  <2>3. CASE child' = "sent" /\ UNCHANGED kept
    BY <2>1, <2>3 DEF Registered, RunsAsRegistered, Active
  <2>4. QED
    BY <1>7, <2>2, <2>3 DEF Preflight
<1>8. CASE Invoke
  <2>1. /\ child = "running" /\ UNCHANGED <<schema, defect, kept, pc, child>>
        /\ schema = 3 => ran' = "pinned"
    BY <1>8 DEF Invoke, parent
  <2>2. QED
    BY <2>1 DEF Registered, RunsAsRegistered, Active
<1>9. QED
  BY <1>1, <1>2, <1>3, <1>4, <1>5, <1>6, <1>7, <1>8 DEF Next, Preparing, Settling

\* Only a running child finishes, and what runs is registered; a result is received
\* only if it was sent, and accepted only from a child that is gone.
LEMMA WholeStep ==
  ASSUME Shape, Lifetimes, Registered, Whole, Next
  PROVE  Whole'
<1>1. CASE Read \/ Committed \/ Checkout \/ Bind \/ Compile \/ Copy \/ Fork
  BY <1>1 DEF Read, Committed, Checkout, Bind, Compile, Copy, Fork, Step, Reject, Shape, TypeOK,
         Whole, Active, Evidence, Lifetimes, Early, runtime, heard
<1>2. CASE Exited \/ PatchPreflight \/ PatchMetadata \/ Clean \/ ParentCrash
  <2>1. CASE Exited
    BY <2>1 DEF Exited, Reject, Shape, TypeOK, Whole, Active, Evidence, Accepts, runtime, heard
  <2>2. CASE PatchPreflight
    BY <2>2 DEF PatchPreflight, Step, Reject, Shape, TypeOK, Whole, Active, Evidence, runtime, heard
  <2>3. CASE PatchMetadata
    BY <2>3 DEF PatchMetadata, Reject, Shape, TypeOK, Lifetimes, Whole, Active, Evidence, runtime,
           heard
  <2>4. CASE Clean \/ ParentCrash
    BY <2>4 DEF Clean, ParentCrash, Shape, TypeOK, Whole, Active, Evidence, runtime, heard
  <2>5. QED
    BY <1>2, <2>1, <2>2, <2>3, <2>4
<1>3. CASE Receive \/ Disconnected \/ ChildError \/ Abort
  <2>1. CASE Receive
    BY <2>1 DEF Receive, Shape, TypeOK, Whole, Active, Evidence, runtime, heard
  <2>2. CASE Disconnected \/ ChildError \/ Abort
    BY <2>2 DEF Disconnected, ChildError, Abort, Cancel, Reject, Listening, Open, Shape, TypeOK,
           Lifetimes, Whole, Active, Evidence, runtime, heard
  <2>3. QED
    BY <1>3, <2>1, <2>2
<1>4. CASE Boot \/ TakeOptions \/ TakeCancel \/ Invoke \/ Leave \/ Edit \/ ChildCrash
  BY <1>4 DEF Boot, TakeOptions, TakeCancel, Invoke, Leave, Edit, ChildCrash, Dies, Alive,
         Shape, TypeOK, Whole, Active, Evidence, Lifetimes, parent, runtime, heard
<1>5. CASE Preflight \/ Event \/ Finish
  <2>1. CASE Preflight
    <3>1. \/ UNCHANGED up /\ child' = "running"
          \/ ToParent("error") /\ child' = "sent"
      BY <2>1 DEF Preflight
    <3>2. \A i \in 1 .. Len(up') : up'[i] = "result" => i \in 1 .. Len(up) /\ up'[i] = up[i]
      BY <3>1, ToParentEffect DEF Shape, TypeOK
    <3>3. QED
      BY <2>1, <3>2 DEF Preflight, Whole, Evidence, parent
  <2>2. CASE Event
    <3>1. UNCHANGED up \/ ToParent("event")
      BY <2>2 DEF Event
    <3>2. \A i \in 1 .. Len(up') : up'[i] = "result" => i \in 1 .. Len(up) /\ up'[i] = up[i]
      BY <3>1, ToParentEffect DEF Shape, TypeOK
    <3>3. QED
      BY <2>2, <3>2 DEF Event, Orphaned, Dies, Whole, Evidence, parent
  <2>3. CASE Finish
    BY <2>3 DEF Finish, Whole, Evidence, Registered, RunsAsRegistered, Lifetimes, parent
  <2>4. QED
    BY <1>5, <2>1, <2>2, <2>3
<1>6. QED
  BY <1>1, <1>2, <1>3, <1>4, <1>5 DEF Next, Preparing, Settling
-----------------------------------------------------------------------------
(* The theorems.                                                           *)

LEMMA PinnedInvHolds ==
  Spec => []PinnedInv
<1>1. PinnedInv /\ [Next]_vars => PinnedInv'
  <2>1. ASSUME PinnedInv, Next PROVE PinnedInv'
    BY <2>1, ShapeStep, LifetimesStep, RegisteredStep, WholeStep DEF PinnedInv
  <2>2. ASSUME PinnedInv, UNCHANGED vars PROVE PinnedInv'
    <3> USE DEF vars, parent, runtime, world, heard
    <3>1. Shape'
      BY <2>2 DEF PinnedInv, Shape, TypeOK, Defects, Authority
    <3>2. Lifetimes'
      BY <2>2 DEF PinnedInv, Lifetimes
    <3>3. Registered'
      BY <2>2 DEF PinnedInv, Registered, RunsAsRegistered
    <3>4. Whole'
      BY <2>2 DEF PinnedInv, Whole
    <3>5. QED
      BY <3>1, <3>2, <3>3, <3>4 DEF PinnedInv
  <2>3. QED
    BY <2>1, <2>2
<1>2. QED
  BY <1>1, PinnedInit, PTL DEF Spec

\* A run starts and goes on only with the registered document, evaluator and executor,
\* and under a contract with the registered manifest and tools and an executor that is
\* the registered one at every invocation, however often the files are edited.
THEOREM RegisteredRuns ==
  Spec => []RunsAsRegistered
<1>1. PinnedInv => RunsAsRegistered
  BY DEF PinnedInv, Registered
<1>2. QED
  BY <1>1, PinnedInvHolds, PTL

\* The parent never removes the tree under a child that works in it, unless an error of
\* the child object has rejected the run before.
THEOREM TreeIsThere ==
  Spec => []TreeStays
<1>1. PinnedInv => TreeStays
  BY DEF PinnedInv, Lifetimes, TreeStays, Active
<1>2. QED
  BY <1>1, PinnedInvHolds, PTL

\* An accepted run is finished, registered and complete and its tree is gone, whatever
\* the order in which exit, disconnection, messages, errors and an abort are seen.
THEOREM AcceptedRunsAreWhole ==
  Spec => []AcceptedIsWhole
<1>1. PinnedInv => AcceptedIsWhole
  BY DEF PinnedInv, Whole, AcceptedIsWhole, Evidence
<1>2. QED
  BY <1>1, PinnedInvHolds, PTL
=============================================================================
