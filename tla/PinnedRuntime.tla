---------------------------- MODULE PinnedRuntime ----------------------------
(***************************************************************************)
(* A preregistered run (src/experiments/runtime-identity.ts,               *)
(* preregistration.ts, trusted-local-contract.ts,                          *)
(* trusted-local-identity.ts, executor-identity.ts): the parent checks the *)
(* preregistration, checks out and compiles the pinned commit in a         *)
(* temporary tree and forks it; the child checks everything again, runs    *)
(* the experiment and sends its result; the parent completes the evidence  *)
(* and removes the tree.                                                   *)
(*                                                                         *)
(* Parent and child exchange messages over the fork's channel.  Meanwhile  *)
(* somebody may edit the files the preregistration names, the run may be   *)
(* aborted, and either process may die.                                    *)
(***************************************************************************)
EXTENDS Integers, Sequences

CONSTANTS
  MaxEdits,    \* bound: edits of the files during the run
  MaxQueue     \* bound: messages of the child under way

ASSUME PinnedAssumption == MaxEdits \in Nat /\ MaxQueue \in Nat \ {0}

VARIABLES
  schema,      \* of the preregistration: 2, or 3 (trusted-local contract)
  defect,      \* what is wrong with the preregistration or the options, if anything
  file,        \* each file now: "pinned" (what the preregistration pins) or "other"
  kept,        \* each file as the run has it: "none", "pinned", "other"
  edits,
  pc,          \* of the parent
  connected,   \* the parent believes in the channel
  verdict,     \* of runPinnedRuntime: "none", "accepted", "rejected"
  tree,        \* the temporary tree exists
  result,      \* a result was received
  patched,     \* evidence files completed
  aborted,     \* the caller's signal
  failed,      \* history: the parent was told of an error of the child object
  child,       \* "none", "booting", "ready", "preflight", "running", "sent", "gone"
  code,        \* its exit code
  cancelled,   \* its controller
  finished,    \* its run came to an end
  ran,         \* what its last invocation ran: "none", "pinned", "other"
  down, up     \* messages to and from the child

parent == <<pc, connected, verdict, tree, result, patched>>
runtime == <<child, code, cancelled, finished, ran>>
heard == <<aborted, failed>>
world == <<file, edits>>
vars == <<schema, defect, kept, heard, parent, runtime, world, down, up>>

Files == {"pilot", "manifest", "evaluator", "executor", "tools"}

\* Where a defect is looked for.  The child looks again at what the parent has
\* seen, in the tree and the copies it was given.
Registration == {"uncommitted", "no such commit"}
Authority == IF schema = 3 THEN {"contract", "inputs", "argv"} ELSE {"profile"}
Options == {"identity", "limits", "override", "evaluator config", "executor version"}

ChildRefuses == Authority \cup Options

Defects == Registration \cup Authority \cup Options \cup {"none"}

Init ==
  /\ schema \in {2, 3} /\ defect \in Defects
  /\ file = [f \in Files |-> "pinned"] /\ kept = [f \in Files |-> "none"] /\ edits = 0
  /\ pc = "read" /\ connected = FALSE /\ verdict = "none" /\ tree = FALSE
  /\ result = FALSE /\ patched = {} /\ aborted \in BOOLEAN /\ failed = FALSE
  /\ child = "none" /\ code = 0 /\ cancelled = FALSE /\ finished = FALSE /\ ran = "none"
  /\ down = <<>> /\ up = <<>>

Alive == child \in {"booting", "ready", "preflight", "running", "sent"}

Edit ==
  /\ edits < MaxEdits /\ edits' = edits + 1
  /\ \E f \in Files, c \in {"pinned", "other"} : file' = [file EXCEPT ![f] = c]
  /\ UNCHANGED <<schema, defect, kept, heard, parent, runtime, down, up>>
-----------------------------------------------------------------------------
(* The parent's preflight.                                                 *)

Keep(files) == kept' = [f \in Files |-> IF f \in files THEN file[f] ELSE kept[f]]

\* An exception: the tree is removed on the way out, if there is one.
Reject == verdict' = "rejected" /\ pc' = "clean"
Step(here, next) == pc = here /\ pc' = next /\ UNCHANGED verdict

\* The file is read once; all later uses are of these bytes.
Read ==
  /\ Step("read", "commit") /\ Keep({"pilot"})
  /\ UNCHANGED <<schema, defect, heard, connected, tree, result, patched, runtime, world,
                 down, up>>

\* They must be the committed ones, and the pin a commit of the repository.
Committed ==
  /\ \/ /\ Step("commit", "checkout")
        /\ kept["pilot"] = "pinned" /\ defect \notin Registration
     \/ /\ pc = "commit" /\ Reject
        /\ kept["pilot"] # "pinned" \/ defect \in Registration
  /\ UNCHANGED <<schema, defect, kept, heard, connected, tree, result, patched, runtime,
                 world, down, up>>

Checkout ==
  /\ tree' = TRUE
  /\ Step("checkout", "bind") \/ (pc = "checkout" /\ Reject)
  /\ UNCHANGED <<schema, defect, kept, heard, connected, result, patched, runtime, world,
                 down, up>>

\* The contract's inputs come from the pinned tree, and the files beside the
\* preregistration must agree with them; the profile must be in the tree.
Bind ==
  /\ IF /\ defect \notin Authority
        /\ schema = 3 => file["manifest"] = "pinned" /\ file["tools"] = "pinned"
     THEN /\ Step("bind", "compile")
          /\ IF schema = 3
             THEN kept' = [kept EXCEPT !["manifest"] = "pinned", !["evaluator"] = "pinned"]
             ELSE UNCHANGED kept
     ELSE pc = "bind" /\ Reject /\ UNCHANGED kept
  /\ UNCHANGED <<schema, defect, heard, connected, tree, result, patched, runtime, world,
                 down, up>>

\* What the compilation leaves in the tree is noticed.
Compile ==
  /\ Step("compile", "copy") \/ (pc = "compile" /\ Reject)
  /\ UNCHANGED <<schema, defect, kept, heard, connected, tree, result, patched, runtime,
                 world, down, up>>

\* A pinned evaluator is copied from beside the preregistration.
Copy ==
  /\ Step("copy", "fork")
  /\ IF schema = 2 THEN Keep({"evaluator"}) ELSE UNCHANGED kept
  /\ UNCHANGED <<schema, defect, heard, connected, tree, result, patched, runtime, world,
                 down, up>>

\* Mutant of Sent: the signal is only listened to.
SentUnasked == <<"options">>

\* The listener does not hear of a signal that was aborted before.
Sent == IF aborted THEN <<"options", "cancel">> ELSE <<"options">>

Fork ==
  /\ \/ /\ Step("fork", "wait") /\ connected' = TRUE
        /\ child' = "booting" /\ down' = Sent
     \/ /\ pc = "fork" /\ Reject
        /\ UNCHANGED <<connected, child, down>>
  /\ UNCHANGED <<schema, defect, kept, heard, tree, result, patched, code, cancelled,
                 finished, ran, world, up>>
-----------------------------------------------------------------------------
(* The child.                                                              *)

\* The listeners stay until the exit is seen, also when an error of the child
\* object has settled the promise; messages nobody reads any more are lost.
Open == pc = "wait" \/ (failed /\ pc # "dead")
Listening == Open /\ pc # "clean"
ToParent(m) == up' = IF Open THEN Append(up, m) ELSE up
Dies(c) == child' = "gone" /\ code' = c

\* The bridge looks at the tree and at the copy of the preregistration.
Boot ==
  /\ child = "booting"
  /\ (tree /\ child' = "ready" /\ UNCHANGED code) \/ Dies(1)
  /\ UNCHANGED <<schema, defect, kept, heard, parent, cancelled, finished, ran, world,
                 down, up>>

TakeOptions ==
  /\ child = "ready" /\ down # <<>> /\ Head(down) = "options"
  /\ child' = "preflight" /\ down' = Tail(down)
  /\ UNCHANGED <<schema, defect, kept, heard, parent, code, cancelled, finished, ran,
                 world, up>>

TakeCancel ==
  /\ child \in {"preflight", "running", "sent"} /\ down # <<>>
  /\ cancelled' = TRUE /\ down' = Tail(down)
  /\ UNCHANGED <<schema, defect, kept, heard, parent, child, code, finished, ran, world,
                 up>>

\* Mutant of Fits: the executor's bytes are not looked at.
FitsUnhashed == kept["evaluator"] = "pinned" /\ (schema = 3 => file["tools"] = "pinned")

\* Of the copies and of the files as they are now; under schema 2 the manifest is
\* the caller's file, of which only the id is registered.
Fits ==
  /\ kept["evaluator"] = "pinned" /\ file["executor"] = "pinned"
  /\ schema = 3 => file["tools"] = "pinned"

\* The child's own preflight, on which its run starts.
Preflight ==
  /\ child = "preflight"
  /\ IF defect \notin ChildRefuses /\ Fits /\ tree
     THEN /\ child' = "running" /\ UNCHANGED up
          /\ Keep({"executor"} \cup IF schema = 2 THEN {"manifest"} ELSE {"tools"})
     ELSE child' = "sent" /\ ToParent("error") /\ UNCHANGED kept
  /\ UNCHANGED <<schema, defect, heard, parent, code, cancelled, finished, ran, world,
                 down>>

\* An invocation of the solver.  Under a contract tools and executor are looked at
\* each time; an invocation that finds them changed fails and the run goes on.
Invoke ==
  /\ child = "running"
  /\ schema = 3 => tree /\ file["executor"] = "pinned" /\ file["tools"] = "pinned"
  /\ ran' = file["executor"]
  /\ UNCHANGED <<schema, defect, kept, heard, parent, child, code, cancelled, finished,
                 world, down, up>>

\* Mutant of Orphaned: what fails in sending an event is swallowed.
OrphanedUnaware == UNCHANGED <<child, code>>

\* Without a parent the channel is closed: the error of sending kills the child.
Orphaned == Dies(1)

\* An event of the run.
Event ==
  /\ child = "running"
  /\ IF pc = "dead" THEN Orphaned /\ UNCHANGED up
     ELSE (Open => Len(up) < MaxQueue) /\ ToParent("event") /\ UNCHANGED <<child, code>>
  /\ UNCHANGED <<schema, defect, kept, heard, parent, cancelled, finished, ran, world,
                 down>>

Finish ==
  /\ child = "running"
  /\ child' = "sent" /\ finished' = TRUE /\ ToParent("result")
  /\ UNCHANGED <<schema, defect, kept, heard, parent, code, cancelled, ran, world, down>>

\* It has disconnected and has nothing left to do.
Leave ==
  /\ child = "sent" /\ Dies(0)
  /\ UNCHANGED <<schema, defect, kept, heard, parent, cancelled, finished, ran, world,
                 down, up>>

ChildCrash ==
  /\ Alive /\ Dies(1)
  /\ UNCHANGED <<schema, defect, kept, heard, parent, cancelled, finished, ran, world,
                 down, up>>
-----------------------------------------------------------------------------
(* The parent waits.                                                       *)

\* Mutant of Cancel: an abort settles the promise at once.
CancelAtOnce == UNCHANGED down /\ Reject

\* What is sent to a child that has closed its side is lost.
Cancel ==
  /\ down' = IF child \in {"sent", "gone"} THEN down ELSE Append(down, "cancel")
  /\ UNCHANGED <<pc, verdict>>

\* An error of the child object, whatever the child does, rejects the promise.
ChildError ==
  /\ pc = "wait" /\ Reject /\ failed' = TRUE
  /\ UNCHANGED <<schema, defect, kept, aborted, connected, tree, result, patched, runtime,
                 world, down, up>>

Abort ==
  /\ Listening /\ ~aborted /\ aborted' = TRUE
  /\ IF connected THEN Cancel ELSE UNCHANGED <<down, pc, verdict>>
  /\ UNCHANGED <<schema, defect, kept, failed, connected, tree, result, patched, runtime,
                 world, up>>

\* What the caller's observer throws on an event is an uncaught exception.
Receive ==
  /\ Listening /\ up # <<>>
  /\ up' = Tail(up)
  /\ result' = (result \/ Head(up) = "result")
  /\ \/ UNCHANGED pc
     \/ Head(up) = "event" /\ pc' = "dead"
  /\ UNCHANGED <<schema, defect, kept, heard, connected, verdict, tree, patched, runtime,
                 world, down>>

Disconnected ==
  /\ Listening /\ connected /\ child \in {"sent", "gone"}
  /\ connected' = FALSE
  /\ UNCHANGED <<schema, defect, kept, heard, pc, verdict, tree, result, patched,
                 runtime, world, down, up>>

\* Mutant of Accepts: the exit code alone decides.
AcceptsCode == code = 0

Accepts == code = 0 /\ result

\* The exit may be seen before the last messages are read.
Exited ==
  /\ pc = "wait" /\ child = "gone"
  /\ IF Accepts THEN pc' = "preflight.json" /\ UNCHANGED verdict ELSE Reject
  /\ UNCHANGED <<schema, defect, kept, heard, connected, tree, result, patched, runtime,
                 world, down, up>>

\* The evidence of the run is completed, one file after the other.
PatchPreflight ==
  /\ \/ Step("preflight.json", "metadata.json") /\ patched' = patched \cup {"preflight.json"}
     \/ pc = "preflight.json" /\ Reject /\ UNCHANGED patched
  /\ UNCHANGED <<schema, defect, kept, heard, connected, tree, result, runtime, world,
                 down, up>>

PatchMetadata ==
  /\ pc = "metadata.json"
  /\ \/ verdict' = "accepted" /\ pc' = "clean" /\ patched' = patched \cup {"metadata.json"}
     \/ Reject /\ UNCHANGED patched
  /\ UNCHANGED <<schema, defect, kept, heard, connected, tree, result, runtime, world,
                 down, up>>

\* A removal that fails leaves something or nothing, and its exception takes the
\* place of what was to be answered.
Clean ==
  /\ pc = "clean" /\ pc' = "done"
  /\ tree' = FALSE \/ UNCHANGED tree
  /\ verdict' = "rejected" \/ (tree' = FALSE /\ UNCHANGED verdict)
  /\ UNCHANGED <<schema, defect, kept, heard, connected, result, patched, runtime, world,
                 down, up>>

\* The parent is killed, or its program ends after the answer: nothing is undone.
ParentCrash ==
  /\ pc # "dead" /\ pc' = "dead"
  /\ UNCHANGED <<schema, defect, kept, heard, connected, verdict, tree, result, patched,
                 runtime, world, down, up>>

Preparing == Read \/ Committed \/ Checkout \/ Bind \/ Compile \/ Copy \/ Fork
Settling == Exited \/ PatchPreflight \/ PatchMetadata \/ Clean
Next == \/ Preparing \/ Settling \/ Receive \/ Disconnected \/ ChildError \/ Abort
        \/ Boot \/ TakeOptions \/ TakeCancel \/ Preflight \/ Invoke \/ Event \/ Finish \/ Leave
        \/ Edit \/ ChildCrash \/ ParentCrash

Spec == Init /\ [][Next]_vars

\* Both processes go on and read their messages, and a run reports events; but no
\* run need come to an end by itself.
FairSpec ==
  /\ Spec
  /\ WF_vars(Preparing \/ Settling) /\ WF_vars(Receive)
  /\ WF_vars(Boot \/ TakeOptions \/ Preflight \/ Leave)
  /\ WF_vars(TakeCancel) /\ WF_vars(Event)
-----------------------------------------------------------------------------
(* Properties.                                                             *)

TypeOK ==
  /\ file \in [Files -> {"pinned", "other"}]
  /\ kept \in [Files -> {"none", "pinned", "other"}]
  /\ verdict \in {"none", "accepted", "rejected"} /\ code \in {0, 1}
  /\ patched \subseteq {"preflight.json", "metadata.json"}
  /\ ran \in {"none", "pinned", "other"}
  /\ down \in Seq({"options", "cancel"}) /\ up \in Seq({"event", "result", "error"})

\* A run goes on only as registered, whatever was edited between the parent's look,
\* the child's look and an invocation: nothing is wrong with preregistration or
\* options, and what the child's preflight took is the registered document,
\* evaluator and executor.  Only under a contract (schema 3) does that hold of the
\* manifest and the tools, and of the executor of every invocation: under schema 2
\* an invocation runs whatever executor is there.
RunsAsRegistered ==
  child = "running" =>
    /\ defect = "none"
    /\ \A f \in {"pilot", "evaluator", "executor"} : kept[f] = "pinned"
    /\ schema = 3 => ran # "other" /\ \A f \in Files : kept[f] = "pinned"

\* The compiled tree is there as long as the child runs in it, unless an error of
\* the child object has settled the promise first: neither an abort nor a message
\* makes the parent remove it.
TreeStays == child \in {"booting", "ready", "preflight", "running"} => tree \/ failed

\* What is accepted is the whole of a finished, registered run that has left, and
\* the caller is told so only when the tree is removed as well.
AcceptedIsWhole ==
  verdict = "accepted" =>
    /\ finished /\ child = "gone" /\ defect = "none" /\ ~failed
    /\ patched = {"preflight.json", "metadata.json"}
    /\ pc = "done" => ~tree

\* Nobody is left to run: an abort reaches the child wherever it stands; the child
\* of a dead parent does not go on, and a parent settles once its child is gone.
NobodyIsLeft ==
  /\ (aborted /\ Alive) ~> (cancelled \/ ~Alive \/ pc = "dead")
  /\ (pc = "dead" /\ child = "running") ~> (child # "running")
  /\ (child = "gone") ~> (pc \in {"done", "dead"})
=============================================================================
