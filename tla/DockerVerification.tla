------------------------- MODULE DockerVerification -------------------------
(***************************************************************************)
(* VerificationRuntime.perform over DockerVerifierAdapter.execute          *)
(* (src/verification/index.ts): one verification in a disposable container *)
(* on a copy of the workspace, with a disposable PostgreSQL if the check   *)
(* wants one, and the removal of everything the docker commands may have   *)
(* made.                                                                   *)
(*                                                                         *)
(* Commands run one after the other, each with the check's timeout.  One   *)
(* that fails may have had its effect: its answer is lost, and whatever a  *)
(* "docker run" started lives on when the client is killed.  An effect is  *)
(* there by the time the client has ended, or never.                       *)
(***************************************************************************)
EXTENDS Integers, FiniteSets, Sequences

CONSTANTS
  MaxFiles, MaxBytes,   \* limits of a snapshot
  ReadyAttempts,        \* how often the server is asked whether it is ready
  MaxAttempts           \* bound: verifications that end in evidence

DockerAssumption ==
  {MaxFiles, MaxBytes, ReadyAttempts, MaxAttempts} \subseteq Nat

VARIABLES
  pc,         \* "idle", a command, "cleanup", "report"
  database,   \* the check requires a database
  present,    \* what exists in Docker of this execution
  known,      \* ...Created and databaseStarted: what the adapter knows it made
  tries,      \* readiness probes
  primary,    \* the result: "none", a failure code, or how the check ended
  thrown,     \* an exception left execute: no result is returned
  envFile,    \* the file with the database's address exists
  snapshot,   \* the copy of the workspace exists
  pending,    \* cleanup steps still to run
  recorded,   \* cleanupFailures is not empty
  attempts,   \* evidence delivered so far
  outcome     \* of the last operation: "none", "evidence", or a failure code

docker == <<present, known, tries, primary, thrown, envFile, pending, recorded>>
vars == <<pc, database, docker, snapshot, attempts, outcome>>

Volumes == {"workspace", "data", "socket"}
Containers == {"stage", "postgres", "candidate", "helper"}

\* Commands in the order they run; the second part only with a database.
Transfer == <<"volume", "stage", "copy", "owner">>
Lease == <<"data", "socket", "mode", "postgres", "ready", "setup", "hba", "rules", "env", "login">>
Commands == Transfer \o Lease
FailureCode == {"VERIFIER_LAUNCH_FAILED", "VERIFIER_SNAPSHOT_TRANSFER_FAILED",
                "VERIFIER_DB_LAUNCH_FAILED", "VERIFIER_DB_BOOTSTRAP_FAILED",
                "VERIFIER_DB_CONNECTIVITY_FAILED", "VERIFIER_CLEANUP_FAILED",
                "VERIFIER_SNAPSHOT_FAILED", "VERIFIER_SIGNALLED", "ETIMEDOUT",
                "UNKNOWN_VERIFICATION_ID"}
Exits == {"passed", "failed", "signalled"}
\* Cleanup steps, with their place in the order they run.
Removals == [stage |-> 1, sessions |-> 2, database |-> 3, role |-> 4, postgres |-> 5,
             data |-> 6, socket |-> 7, workspace |-> 8, containers |-> 9, volumes |-> 10]

Init ==
  /\ pc = "idle" /\ database = FALSE
  /\ present = {} /\ known = {} /\ tries = 0
  /\ primary = "none" /\ thrown = FALSE /\ envFile = FALSE
  /\ pending = {} /\ recorded = FALSE
  /\ snapshot = FALSE /\ attempts = 0 /\ outcome = "none"
-----------------------------------------------------------------------------
(* The request and the snapshot.                                           *)

\* What of a workspace decides whether it can be copied: .git, node_modules and
\* special files are skipped, links refused, files and bytes bounded.
Snapshots == [links : BOOLEAN, files : 0 .. MaxFiles + 1, bytes : 0 .. MaxBytes + 1]
Copied(w) == ~w.links /\ w.files <= MaxFiles /\ w.bytes <= MaxBytes

\* A new execution names everything afresh: what an earlier one left is not its own.
Request ==
  /\ pc = "idle" /\ attempts < MaxAttempts
  /\ database' \in BOOLEAN
  /\ present' = {} /\ known' = {} /\ tries' = 0
  /\ primary' = "none" /\ thrown' = FALSE /\ envFile' = FALSE
  /\ pending' = {} /\ recorded' = FALSE
  /\ \/ /\ pc' = "idle" /\ UNCHANGED snapshot /\ outcome' = "UNKNOWN_VERIFICATION_ID"
     \/ \E w \in Snapshots :
          IF Copied(w)
          THEN pc' = Commands[1] /\ snapshot' = TRUE /\ UNCHANGED outcome
          ELSE pc' = "idle" /\ UNCHANGED snapshot /\ outcome' = "VERIFIER_SNAPSHOT_FAILED"
  /\ UNCHANGED attempts
-----------------------------------------------------------------------------
(* The commands.                                                           *)

Codes ==
  [c \in {Commands[i] : i \in DOMAIN Commands} |->
     CASE c \in {"volume", "stage"} -> "VERIFIER_LAUNCH_FAILED"
       [] c \in {"copy", "owner"} -> "VERIFIER_SNAPSHOT_TRANSFER_FAILED"
       [] c \in {"data", "socket", "postgres"} -> "VERIFIER_DB_LAUNCH_FAILED"
       [] c = "login" -> "VERIFIER_DB_CONNECTIVITY_FAILED"
       [] OTHER -> "VERIFIER_DB_BOOTSTRAP_FAILED"]

\* What a command makes, and what is left running when its client is killed.
Makes(c) ==
  CASE c = "volume" -> {"workspace"}
    [] c \in {"stage", "data", "socket", "postgres"} -> {c}
    [] OTHER -> {}
Leaves(c) == IF c \in {"owner", "mode"} THEN {"helper"} ELSE Makes(c)

\* The stage container is not remembered: it is removed in any case.
Remembered(c) == Makes(c) \ {"stage"}

Following(c) ==
  LET i == CHOOSE k \in DOMAIN Commands : Commands[k] = c
  IN  IF i = Len(Commands) \/ (i = Len(Transfer) /\ ~database) THEN "candidate"
      ELSE Commands[i + 1]

\* The removals that apply to what is known to exist, then both inventories.
Applies(step) ==
  CASE step \in {"sessions", "database", "role", "postgres"} -> "postgres" \in known
    [] step \in Volumes -> step \in known
    [] OTHER -> TRUE
\* Mutant of Planned: the inventories at the end are left out.
PlannedBlind == {step \in DOMAIN Removals \ {"containers", "volumes"} : Applies(step)}
Planned == {step \in DOMAIN Removals : Applies(step)}

\* The finally block begins.
Unwind(result) == pc' = "cleanup" /\ primary' = result /\ pending' = Planned

Succeeds(c) ==
  /\ pc = c /\ c \notin {"ready", "env"}
  /\ present' = present \cup Makes(c)
  /\ known' = known \cup Remembered(c)
  /\ pc' = Following(c)
  /\ UNCHANGED <<database, tries, primary, thrown, envFile, pending, recorded, snapshot,
                 attempts, outcome>>

Fails(c) ==
  /\ pc = c /\ c \notin {"ready", "env"}
  /\ present' \in {present, present \cup Leaves(c)}
  /\ Unwind(Codes[c])
  /\ UNCHANGED <<database, known, tries, thrown, envFile, recorded, snapshot, attempts,
                 outcome>>

\* Mutant of Probed: the count starts anew when the temporary server answers.
ProbedFreely == tries' \in {tries + 1, 0}

Probed == tries' = tries + 1

\* The final server is asked for its marker; the temporary one of the image's
\* initialization does not know it.
ProbeReady ==
  /\ pc = "ready"
  /\ Probed
  /\ \/ pc' = Following(pc) /\ UNCHANGED <<known, primary, pending>>
     \/ tries' < ReadyAttempts /\ UNCHANGED <<pc, known, primary, pending>>
     \/ tries' >= ReadyAttempts /\ Unwind(Codes["ready"]) /\ UNCHANGED known
  /\ UNCHANGED <<database, present, thrown, envFile, recorded, snapshot, attempts,
                 outcome>>

\* The address file: what throws here leaves execute without a result.
WriteAddress ==
  /\ pc = "env"
  /\ \/ pc' = Following(pc) /\ envFile' = TRUE /\ UNCHANGED <<known, thrown, primary, pending>>
     \/ Unwind("none") /\ thrown' = TRUE /\ UNCHANGED <<known, envFile>>
  /\ UNCHANGED <<database, present, tries, recorded, snapshot, attempts, outcome>>

\* The check. Killing the client on a timeout does not stop its container, and a
\* client that fails by itself leaves it too: its exit code is taken for the check's.
RunCandidate ==
  /\ pc = "candidate"
  /\ \/ Unwind("passed") /\ UNCHANGED present
     \/ \E e \in {"failed", "ETIMEDOUT", "signalled"} :
          Unwind(e) /\ present' \in {present, present \cup {"candidate"}}
  /\ UNCHANGED <<database, known, tries, thrown, envFile, recorded, snapshot, attempts,
                 outcome>>
-----------------------------------------------------------------------------
(* Cleanup.                                                                *)

\* Containers that keep a volume from being removed.
Users(v) ==
  CASE v = "workspace" -> {"stage", "candidate", "helper"}
    [] v = "data"      -> {"postgres"}
    [] OTHER           -> {"postgres", "candidate", "helper"}
Held(v) == Users(v) \cap present # {}

\* Whether a step can succeed; an inventory must also find nothing.
Possible(step) ==
  CASE step \in Volumes -> ~Held(step)
    [] step = "containers" -> "postgres" \notin present
    [] step = "volumes" -> present \cap Volumes = {}
    [] OTHER -> TRUE

Removes(step) == IF step \in Volumes \cup {"stage", "postgres"} THEN {step} ELSE {}

Upcoming(step) ==
  step \in pending /\ \A other \in pending : Removals[step] <= Removals[other]

CleanupStep ==
  /\ pc = "cleanup"
  /\ \E step \in DOMAIN Removals :
       /\ Upcoming(step)
       /\ pending' = pending \ {step}
       /\ \/ /\ Possible(step)
             /\ present' = present \ Removes(step) /\ UNCHANGED recorded
          \/ /\ present' \in IF Possible(step) THEN {present, present \ Removes(step)}
                             ELSE {present}
             /\ recorded' = TRUE
  /\ UNCHANGED <<pc, database, known, tries, primary, thrown, envFile, snapshot,
                 attempts, outcome>>

\* A result with no failure of its own takes the cleanup's; one that was thrown
\* away takes the recorded steps with it.
CleanupEnds ==
  /\ pc = "cleanup" /\ pending = {}
  /\ envFile' = FALSE
  /\ primary' = IF recorded /\ primary \in Exits THEN "VERIFIER_CLEANUP_FAILED" ELSE primary
  /\ pc' = "report"
  /\ UNCHANGED <<database, present, known, tries, thrown, pending, recorded, snapshot,
                 attempts, outcome>>

Reported ==
  CASE thrown -> "VERIFIER_SNAPSHOT_FAILED"
    [] ~thrown /\ primary = "signalled" -> "VERIFIER_SIGNALLED"
    [] ~thrown /\ primary \in {"passed", "failed"} -> "evidence"
    [] OTHER -> primary

\* perform returns; the copy of the workspace is removed.
Report ==
  /\ pc = "report"
  /\ pc' = "idle"
  /\ outcome' = Reported
  /\ attempts' = IF outcome' = "evidence" THEN attempts + 1 ELSE attempts
  /\ snapshot' = FALSE
  /\ UNCHANGED <<database, docker>>

\* A container nobody waits for any more ends when it likes and is removed.
LateExit ==
  /\ \E c \in present \cap {"candidate", "helper"} : present' = present \ {c}
  /\ UNCHANGED <<pc, database, known, tries, primary, thrown, envFile, pending, recorded,
                 snapshot, attempts, outcome>>

Command == \/ \E c \in DOMAIN Codes : Succeeds(c) \/ Fails(c)
           \/ ProbeReady \/ WriteAddress \/ RunCandidate
Perform == Command \/ CleanupStep \/ CleanupEnds \/ Report

\* Nobody need ask again.
Next == Request \/ Perform \/ LateExit

Spec == Init /\ [][Next]_vars

\* perform is synchronous: its commands answer or time out.
FairSpec == Spec /\ WF_vars(Perform)
-----------------------------------------------------------------------------
(* Properties.                                                             *)

TypeOK ==
  /\ pc \in DOMAIN Codes \cup {"idle", "candidate", "cleanup", "report"}
  /\ present \subseteq Volumes \cup Containers /\ known \subseteq Volumes \cup {"postgres"}
  /\ primary \in FailureCode \cup Exits \cup {"none"}
  /\ tries \in 0 .. ReadyAttempts /\ attempts \in 0 .. MaxAttempts
  /\ outcome \in FailureCode \cup {"none", "evidence"}

\* Whatever is left in Docker when cleanup is over was noticed by a cleanup step,
\* also what only a lost answer made; and evidence is not delivered over it, nor
\* over a container that a failed client left running.  (What is thrown while the
\* address file is written drops the noticed steps: only the failure itself is then
\* reported.)
NothingIsHidden ==
  pc = "report" =>
    /\ present # {} => recorded
    /\ Reported = "evidence" => present = {} /\ ~recorded /\ ~envFile

\* Every request is answered, however the server, the check or the removals fare.
Answers == (pc # "idle") ~> (pc = "idle" /\ ~snapshot)
=============================================================================
