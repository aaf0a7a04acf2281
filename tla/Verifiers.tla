------------------------------ MODULE Verifiers ------------------------------
(***************************************************************************)
(* The VerificationExecutor of a run: the disposable container of          *)
(* VerificationRuntime, or the host of an experiment in trusted-local mode *)
(* (src/experiments/run.ts).  Which of the two is fixed before the run.    *)
(***************************************************************************)
EXTENDS Integers, FiniteSets, Sequences

CONSTANTS MaxFiles, MaxBytes, ReadyAttempts, MaxAttempts,
          Workspaces, Packages, Covered, CheckCount, MaxRecords

VARIABLES
  verificationMode,
  pc, database, present, known, tries, primary, thrown, envFile, pending, recorded,
  snapshot, attempts, outcome,
  authority, stage, call, ws, rest, failed, pkg, tools, records, assigned

Docker == INSTANCE DockerVerification
Host == INSTANCE TrustedLocal

ASSUME VerifierAssumption == Docker!DockerAssumption /\ Host!TrustedLocalAssumption

container == <<pc, database, present, known, tries, primary, thrown, envFile, pending, recorded,
               snapshot, attempts, outcome>>
host == <<authority, stage, call, ws, rest, failed, pkg, tools, records, assigned>>
vars == <<verificationMode, container, host>>

Init ==
  /\ verificationMode \in {"docker", "trusted-local"}
  /\ Docker!Init /\ Host!Init

InContainer(step) == verificationMode = "docker" /\ step /\ UNCHANGED <<verificationMode, host>>
OnHost(step) == verificationMode = "trusted-local" /\ step /\ UNCHANGED <<verificationMode, container>>

Next == InContainer(Docker!Next) \/ OnHost(Host!Next)

\* Both are synchronous: what is begun goes on until it is answered.
Spec ==
  /\ Init /\ [][Next]_vars
  /\ WF_vars(InContainer(Docker!Perform)) /\ WF_vars(OnHost(Host!Works))
-----------------------------------------------------------------------------
\* What docker still holds when a verification is over is told (DockerVerification).
NothingIsHidden == Docker!NothingIsHidden

\* A cleanup that returned left no container of any preparation (TrustedLocal).
NoLeaseIsLeft == Host!NoLeaseIsLeft

\* Checks on the host run under the lease and the package.json of their preparation.
CheckedUnderLease == Host!CheckedUnderLease

\* Whichever verifier is asked answers: the container's copy of the workspace is
\* gone, the host's call has returned.
Answers == Docker!Answers /\ Host!Returns
=============================================================================
