--------------------------- MODULE Verifiers_proofs ---------------------------
(***************************************************************************)
(* Theorems about Verifiers: what the container's cleanup may leave        *)
(* unsaid, and under what the checks on the host run and are taken down.   *)
(***************************************************************************)
EXTENDS Verifiers, SequenceTheorems, TLAPS

-----------------------------------------------------------------------------
(* The inductive invariant of the container (DockerVerification).          *)

Cleaning == {"cleanup", "report"}
Unattended == {"candidate", "helper"}
Running == (DOMAIN Docker!Codes \cup {"candidate"})

DockerType ==
  /\ pc \in Running \cup Cleaning \cup {"idle"}
  /\ present \subseteq Docker!Volumes \cup Docker!Containers
  /\ primary \in Docker!FailureCode \cup Docker!Exits \cup {"none"}
  /\ {thrown, recorded, envFile} \subseteq BOOLEAN

\* A container that nobody waits for exists only after its command was given up,
\* and then the adapter knows the volume it runs in.
UnattendedIsKnown ==
  /\ pc \in Running => present \cap Unattended = {}
  /\ pc \in Running \ {"volume"} => "workspace" \in known
  /\ present \cap Unattended # {} => "workspace" \in known

\* As long as no step is noticed to have failed, each step that has run vouches
\* for what it looked at: the two inventories for what was never known as well.
StepsVouch ==
  pc = "cleanup" /\ ~recorded =>
    /\ "stage" \in present => "stage" \in pending
    /\ present \cap Unattended # {} => "workspace" \in pending
    /\ "postgres" \in present => "containers" \in pending
    /\ present \cap Docker!Volumes # {} => "volumes" \in pending

Concluded ==
  pc = "report" =>
    /\ ~recorded => present = {}
    /\ recorded => primary \notin Docker!Exits
    /\ ~envFile

DockerInv == DockerType /\ UnattendedIsKnown /\ StepsVouch /\ Concluded
-----------------------------------------------------------------------------
(* The inductive invariant of the host (TrustedLocal).                     *)

Over == {"cleanup", "over"}
\* Steps before and after the one that makes the container.
Before == {"dependencies", "module-resolution", "typecheck", "postgres"}
After == {"postgres-identity", "database-connectivity", "prerequisites"}
Making == Before \cup After \cup {"assign"}
Index == 1 .. Len(records)

Record == [ws : Workspaces, pkg : Packages, made : BOOLEAN,
           postgres : {"none", "passed", "failed"}, cleanup : {"none", "passed", "failed"}]

HostType ==
  /\ authority \in BOOLEAN /\ tools \in BOOLEAN /\ failed \in BOOLEAN
  /\ stage \in Making \cup Over \cup {"idle", "ask", "drift", "snapshot", "compare", "check"}
  /\ stage \notin Over \cup {"idle"} => ws \in Workspaces
  /\ rest \in Nat
  /\ pkg \in Packages
  /\ records \in Seq(Record)
  /\ assigned \in [Workspaces -> Nat]

\* A lease is the workspace's own, and without an authority it is never given up
\* before the final cleanup.
LeaseIsOwn ==
  \A w \in Workspaces : assigned[w] # 0 =>
    /\ assigned[w] \in Index
    /\ records[assigned[w]].ws = w
    /\ ~authority /\ stage \notin Over => records[assigned[w]].made

\* A container that exists is one cleanup will look for; no removal fails but in
\* the final cleanup.
MadeIsLeased ==
  \A i \in Index :
    /\ records[i].made => Host!Leased(records[i])
    /\ stage \notin Over => records[i].cleanup # "failed"

\* The authority looked at the tools and at the package.json of this record.
Authorised(record) == authority => tools /\ record.pkg \in Covered

\* A preparation under way is that of the newest record, which no lease has yet.
NewestIsOpen ==
  /\ stage \in Making =>
       /\ assigned[ws] = 0
       /\ Len(records) > 0
       /\ records[Len(records)].ws = ws /\ records[Len(records)].cleanup = "none"
       /\ Authorised(records[Len(records)])
  /\ stage \in After \cup {"assign"} => records[Len(records)].made
  /\ stage = "drift" => authority /\ Host!Candidate

\* What was asked for before a check is looked at still holds.
LeaseStands ==
  stage = "compare" /\ assigned[ws] # 0 =>
    records[assigned[ws]].made /\ Authorised(records[assigned[ws]])

VisitedIsRemoved ==
  stage \in Over /\ ~failed =>
    \A i \in Index : i <= rest \/ stage = "over" => ~records[i].made

HostInv ==
  /\ HostType /\ LeaseIsOwn /\ MadeIsLeased /\ NewestIsOpen /\ LeaseStands
  /\ VisitedIsRemoved /\ Host!CheckedUnderLease

VerifiersInv == DockerInv /\ HostInv
-----------------------------------------------------------------------------
(* The container.                                                          *)

CommandNames ==
  {"volume", "stage", "copy", "owner", "data", "socket", "mode", "postgres", "ready", "setup",
   "hba", "rules", "env", "login"}

LEMMA CommandList ==
  /\ Len(Docker!Commands) = 14
  /\ DOMAIN Docker!Commands = 1 .. 14
  /\ Docker!Commands[1] = "volume"
  /\ \A i \in 1 .. 14 : Docker!Commands[i] \in CommandNames
  /\ \A i \in 2 .. 14 : Docker!Commands[i] \in CommandNames \ {"volume"}
  /\ \A c \in CommandNames : \E i \in 1 .. 14 : Docker!Commands[i] = c
<1> DEFINE T == Docker!Transfer
           L == Docker!Lease
<1>1. /\ T \in Seq(CommandNames) /\ L \in Seq(CommandNames)
      /\ Len(T) = 4 /\ Len(L) = 10
  BY DEF Docker!Transfer, Docker!Lease, CommandNames
<1>2. /\ T[1] = "volume" /\ T[2] = "stage" /\ T[3] = "copy" /\ T[4] = "owner"
      /\ L[1] = "data" /\ L[2] = "socket" /\ L[3] = "mode" /\ L[4] = "postgres"
      /\ L[5] = "ready" /\ L[6] = "setup" /\ L[7] = "hba" /\ L[8] = "rules"
      /\ L[9] = "env" /\ L[10] = "login"
  BY DEF Docker!Transfer, Docker!Lease
<1> HIDE DEF T, L
<1>3. /\ T \o L \in Seq(CommandNames) /\ Len(T \o L) = 14
      /\ \A i \in 1 .. 14 : (T \o L)[i] = IF i <= 4 THEN T[i] ELSE L[i - 4]
  <2>1. /\ T \o L \in Seq(CommandNames) /\ Len(T \o L) = Len(T) + Len(L)
        /\ \A i \in 1 .. Len(T) + Len(L) :
             (T \o L)[i] = IF i <= Len(T) THEN T[i] ELSE L[i - Len(T)]
    BY <1>1, ConcatProperties, Zenon
  <2>2. Len(T) + Len(L) = 14
    BY <1>1
  <2>3. QED
    BY <1>1, <2>1, <2>2, Zenon
<1> DEFINE C == Docker!Commands
<1>4. C = T \o L
  BY DEF Docker!Commands, T, L
<1>5. DOMAIN C = 1 .. 14 /\ Len(C) = 14
  BY <1>3, <1>4, LenProperties
<1> HIDE DEF C
<1>6. /\ C[1] = "volume" /\ C[2] = "stage" /\ C[3] = "copy" /\ C[4] = "owner"
      /\ C[5] = "data" /\ C[6] = "socket" /\ C[7] = "mode" /\ C[8] = "postgres"
      /\ C[9] = "ready" /\ C[10] = "setup" /\ C[11] = "hba" /\ C[12] = "rules"
      /\ C[13] = "env" /\ C[14] = "login"
  <2>1. /\ C[1] = T[1] /\ C[2] = T[2] /\ C[3] = T[3] /\ C[4] = T[4]
        /\ C[5] = L[1] /\ C[6] = L[2] /\ C[7] = L[3] /\ C[8] = L[4]
        /\ C[9] = L[5] /\ C[10] = L[6] /\ C[11] = L[7] /\ C[12] = L[8]
        /\ C[13] = L[9] /\ C[14] = L[10]
    <3>1. \A i \in 1 .. 14 : C[i] = IF i <= 4 THEN T[i] ELSE L[i - 4]
      BY <1>3, <1>4, Zenon
    <3>2. QED
      BY <3>1
  <2>2. QED
    BY <1>2, <2>1, Zenon
<1>7. \A i \in 2 .. 14 : C[i] \in CommandNames \ {"volume"}
  BY <1>6 DEF CommandNames
<1>8. \A c \in CommandNames : \E i \in 1 .. 14 : C[i] = c
  BY <1>6 DEF CommandNames
<1>9. \A i \in 1 .. 14 : C[i] \in CommandNames
  BY <1>6, <1>7 DEF CommandNames
<1>10. QED
  BY <1>5, <1>6, <1>7, <1>8, <1>9 DEF C

LEMMA CommandDomain == DOMAIN Docker!Codes = CommandNames
BY CommandList DEF Docker!Codes

\* No command is followed by the first one.
LEMMA FollowingType ==
  ASSUME NEW c \in CommandNames
  PROVE  Docker!Following(c) \in Running \ {"volume"}
<1> DEFINE i == CHOOSE k \in DOMAIN Docker!Commands : Docker!Commands[k] = c
<1>1. i \in 1 .. 14
  BY CommandList
<1> HIDE DEF i
<1>2. i # 14 => i + 1 \in 2 .. 14
  BY <1>1
<1>3. i # 14 => Docker!Commands[i + 1] \in CommandNames \ {"volume"}
  BY <1>2, CommandList
<1>4. Docker!Following(c) = IF i = 14 \/ (i = Len(Docker!Transfer) /\ ~database) THEN "candidate"
                           ELSE Docker!Commands[i + 1]
  BY CommandList DEF Docker!Following, i
<1>5. QED
  BY <1>3, <1>4, CommandDomain DEF Running, CommandNames

\* What the cleanup vouches for is still open when it begins.
LEMMA UnwindInv ==
  ASSUME pc \in Running, DockerType, UnattendedIsKnown,
         NEW result \in Docker!FailureCode \cup Docker!Exits \cup {"none"},
         Docker!Unwind(result), known' = known, recorded' = recorded, envFile' = envFile,
         thrown' \in BOOLEAN,
         present' \subseteq Docker!Volumes \cup Docker!Containers,
         present' \cap Unattended # {} => "workspace" \in known
  PROVE  DockerInv'
<1>1. {"stage", "containers", "volumes"} \subseteq pending'
  BY DEF Docker!Unwind, Docker!Planned, Docker!Removals, Docker!Applies, Docker!Volumes
<1>2. "workspace" \in known => "workspace" \in pending'
  BY DEF Docker!Unwind, Docker!Planned, Docker!Removals, Docker!Applies, Docker!Volumes
<1>3. pc' = "cleanup" /\ primary' = result
  BY DEF Docker!Unwind
<1>4. DockerType'
  BY <1>3 DEF DockerType, Running, Cleaning
<1>5. UnattendedIsKnown'
  BY <1>3, CommandDomain DEF UnattendedIsKnown, Running, CommandNames
<1>6. StepsVouch'
  BY <1>1, <1>2 DEF StepsVouch
<1>7. Concluded'
  BY <1>3 DEF Concluded
<1>8. QED
  BY <1>4, <1>5, <1>6, <1>7 DEF DockerInv

\* A command is over and the next one follows.
LEMMA OnwardInv ==
  ASSUME pc \in CommandNames, DockerType, UnattendedIsKnown, pc' = Docker!Following(pc),
         present' = present \cup Docker!Makes(pc), known' = known \cup Docker!Remembered(pc),
         primary' = primary, thrown' = thrown, recorded' = recorded, envFile' \in BOOLEAN
  PROVE  DockerInv'
<1>1. pc' \in Running \ {"volume"}
  BY FollowingType
<1>2. Docker!Makes(pc) \subseteq Docker!Volumes \cup {"stage", "postgres"}
  BY DEF Docker!Makes, CommandNames, Docker!Volumes
<1>3. "workspace" \in known'
  BY CommandDomain DEF Docker!Remembered, Docker!Makes, UnattendedIsKnown, Running
<1>4. DockerType'
  BY <1>1, <1>2 DEF DockerType, Docker!Containers
<1>5. present' \cap Unattended = {}
  BY <1>2, CommandDomain DEF UnattendedIsKnown, Unattended, Docker!Volumes, Running
<1>6. UnattendedIsKnown'
  BY <1>1, <1>3, <1>5 DEF UnattendedIsKnown
<1>7. pc' \notin Cleaning
  BY <1>1, CommandDomain DEF Running, Cleaning, CommandNames
<1>8. QED
  BY <1>4, <1>6, <1>7 DEF DockerInv, StepsVouch, Concluded, Cleaning

LEMMA CommandStep ==
  ASSUME DockerInv, Docker!Command
  PROVE  DockerInv'
<1> USE DEF DockerInv
<1>0. CommandNames \subseteq Running
  BY CommandDomain DEF Running
<1>1. ASSUME NEW c \in CommandNames, Docker!Succeeds(c)
      PROVE  DockerInv'
  <2>1. pc = c /\ envFile' \in BOOLEAN
    BY <1>1 DEF Docker!Succeeds, DockerType
  <2>2. QED
    BY <1>1, <2>1, OnwardInv DEF Docker!Succeeds
<1>2. ASSUME NEW c \in CommandNames, Docker!Fails(c)
      PROVE  DockerInv'
  <2>1. pc \in CommandNames /\ pc \in Running
    BY <1>0, <1>2 DEF Docker!Fails
  <2>2. Docker!Codes[c] \in Docker!FailureCode
    BY CommandDomain, CommandList DEF Docker!Codes, Docker!FailureCode, CommandNames
  <2>3. /\ present' \subseteq Docker!Volumes \cup Docker!Containers
        /\ present' \cap Unattended # {} => c \in {"owner", "mode"}
    BY <1>2, <2>1 DEF Docker!Fails, Docker!Leaves, Docker!Makes, DockerType, Unattended,
       UnattendedIsKnown, Docker!Volumes, Docker!Containers, CommandNames
  <2>4. c \in {"owner", "mode"} => "workspace" \in known
    BY <1>2, <2>1 DEF UnattendedIsKnown, Docker!Fails
  <2>5. QED
    BY <1>2, <2>1, <2>2, <2>3, <2>4, UnwindInv DEF Docker!Fails, DockerType
<1>3. ASSUME Docker!ProbeReady
      PROVE  DockerInv'
  <2>1. pc = "ready" /\ pc \in CommandNames /\ pc \in Running
    BY <1>0, <1>3 DEF Docker!ProbeReady, CommandNames
  <2>2. Docker!Codes["ready"] \in Docker!FailureCode
    BY CommandDomain, CommandList DEF Docker!Codes, Docker!FailureCode, CommandNames
  <2>3. CASE pc' = Docker!Following(pc) /\ UNCHANGED <<known, primary, pending>>
    <3>1. Docker!Makes(pc) = {} /\ Docker!Remembered(pc) = {}
      BY <2>1 DEF Docker!Makes, Docker!Remembered
    <3>2. QED
      BY <1>3, <2>1, <2>3, <3>1, OnwardInv DEF Docker!ProbeReady, DockerType
  <2>4. CASE UNCHANGED <<pc, known, primary, pending>>
    BY <1>3, <2>4 DEF Docker!ProbeReady, DockerType, UnattendedIsKnown, StepsVouch, Concluded
  <2>5. CASE Docker!Unwind(Docker!Codes["ready"]) /\ UNCHANGED known
    <3>1. present' = present /\ present' \cap Unattended = {}
      BY <1>3, <2>1 DEF Docker!ProbeReady, UnattendedIsKnown
    <3>2. QED
      BY <1>3, <2>1, <2>2, <2>5, <3>1, UnwindInv DEF Docker!ProbeReady, DockerType
  <2>6. QED
    BY <1>3, <2>3, <2>4, <2>5 DEF Docker!ProbeReady
<1>4. ASSUME Docker!WriteAddress
      PROVE  DockerInv'
  <2>1. pc = "env" /\ pc \in CommandNames /\ pc \in Running
    BY <1>0, <1>4 DEF Docker!WriteAddress, CommandNames
  <2>2. Docker!Makes(pc) = {} /\ Docker!Remembered(pc) = {}
    BY <2>1 DEF Docker!Makes, Docker!Remembered
  <2>3. CASE pc' = Docker!Following(pc) /\ envFile' = TRUE /\ UNCHANGED <<known, thrown, primary, pending>>
    BY <1>4, <2>1, <2>2, <2>3, OnwardInv DEF Docker!WriteAddress, DockerType
  <2>4. CASE Docker!Unwind("none") /\ thrown' = TRUE /\ UNCHANGED <<known, envFile>>
    <3>1. present' = present /\ present' \cap Unattended = {}
      BY <1>4, <2>1 DEF Docker!WriteAddress, UnattendedIsKnown
    <3>2. QED
      BY <1>4, <2>1, <2>4, <3>1, UnwindInv DEF Docker!WriteAddress, DockerType
  <2>5. QED
    BY <1>4, <2>3, <2>4 DEF Docker!WriteAddress
<1>5. ASSUME Docker!RunCandidate
      PROVE  DockerInv'
  <2>1. pc = "candidate" /\ pc \in Running \ {"volume"}
    BY <1>5 DEF Docker!RunCandidate, Running
  <2>2. PICK e \in {"passed", "failed", "ETIMEDOUT", "signalled"} :
          Docker!Unwind(e) /\ present' \in {present, present \cup {"candidate"}}
    BY <1>5 DEF Docker!RunCandidate
  <2>3. e \in Docker!FailureCode \cup Docker!Exits \cup {"none"}
    BY DEF Docker!FailureCode, Docker!Exits
  <2>4. "workspace" \in known
    BY <2>1 DEF UnattendedIsKnown
  <2>5. QED
    BY <1>5, <2>1, <2>2, <2>3, <2>4, UnwindInv
       DEF Docker!RunCandidate, DockerType, Docker!Containers
<1>6. QED
  BY <1>1, <1>2, <1>3, <1>4, <1>5, CommandDomain DEF Docker!Command

\* A removal step either does what it vouches for or is recorded.
LEMMA CleanupStepInv ==
  ASSUME DockerInv, Docker!CleanupStep
  PROVE  DockerInv'
<1> USE DEF DockerInv
<1>1. PICK step \in DOMAIN Docker!Removals :
        /\ pending' = pending \ {step}
        /\ \/ /\ Docker!Possible(step)
              /\ present' = present \ Docker!Removes(step) /\ UNCHANGED recorded
           \/ /\ present' \in {present, present \ Docker!Removes(step)}
              /\ recorded' = TRUE
  BY DEF Docker!CleanupStep
<1>2. /\ pc = "cleanup" /\ pc' = pc
      /\ UNCHANGED <<known, primary, thrown, envFile>>
  BY DEF Docker!CleanupStep
<1>3. present' \subseteq present
  BY <1>1
<1>4. DockerType'
  BY <1>1, <1>2, <1>3 DEF DockerType
<1>5. UnattendedIsKnown'
  BY <1>2, <1>3, CommandDomain DEF UnattendedIsKnown, Running, CommandNames
<1>6. ASSUME ~recorded'
      PROVE  /\ ~recorded /\ Docker!Possible(step)
             /\ present' = present \ Docker!Removes(step)
  BY <1>1, <1>6
<1>7. StepsVouch'
  <2> SUFFICES ASSUME ~recorded'
               PROVE  /\ "stage" \in present' => "stage" \in pending'
                      /\ present' \cap Unattended # {} => "workspace" \in pending'
                      /\ "postgres" \in present' => "containers" \in pending'
                      /\ present' \cap Docker!Volumes # {} => "volumes" \in pending'
    BY DEF StepsVouch
  <2>1. "stage" \in present' => "stage" \in pending'
    BY <1>1, <1>2, <1>3, <1>6 DEF StepsVouch, Docker!Removes
  <2>2. present' \cap Unattended # {} => "workspace" \in pending'
    <3>1. step = "workspace" => present \cap Unattended = {}
      BY <1>6 DEF Docker!Possible, Docker!Held, Docker!Users, Docker!Volumes, Unattended
    <3>2. QED
      BY <1>1, <1>2, <1>3, <1>6, <3>1 DEF StepsVouch
  <2>3. "postgres" \in present' => "containers" \in pending'
    <3>1. step = "containers" => "postgres" \notin present
      BY <1>6 DEF Docker!Possible, Docker!Volumes
    <3>2. QED
      BY <1>1, <1>2, <1>3, <1>6, <3>1 DEF StepsVouch
  <2>4. present' \cap Docker!Volumes # {} => "volumes" \in pending'
    <3>1. step = "volumes" => present \cap Docker!Volumes = {}
      BY <1>6 DEF Docker!Possible, Docker!Volumes
    <3>2. QED
      BY <1>1, <1>2, <1>3, <1>6, <3>1 DEF StepsVouch
  <2>5. QED
    BY <2>1, <2>2, <2>3, <2>4
<1>8. Concluded'
  BY <1>2 DEF Concluded
<1>9. QED
  BY <1>4, <1>5, <1>7, <1>8

\* When every step has run without a failure nothing is left to vouch for.
LEMMA CleanupEndsInv ==
  ASSUME DockerInv, Docker!CleanupEnds
  PROVE  DockerInv'
<1> USE DEF DockerInv
<1>1. /\ pc = "cleanup" /\ pc' = "report" /\ pending = {} /\ envFile' = FALSE
      /\ UNCHANGED <<present, known, thrown, recorded>>
  BY DEF Docker!CleanupEnds
<1>2. /\ primary' \in Docker!FailureCode \cup Docker!Exits \cup {"none"}
      /\ recorded' => primary' \notin Docker!Exits
  BY DEF Docker!CleanupEnds, Docker!FailureCode, Docker!Exits, DockerType
<1>3. ~recorded => present = {}
  BY <1>1 DEF StepsVouch, DockerType, Docker!Volumes, Docker!Containers, Unattended
<1>4. DockerType'
  BY <1>1, <1>2 DEF DockerType, Cleaning
<1>5. UnattendedIsKnown'
  BY <1>1, CommandDomain DEF UnattendedIsKnown, Running, CommandNames
<1>6. QED
  BY <1>1, <1>2, <1>3, <1>4, <1>5 DEF StepsVouch, Concluded

\* An execution begins with nothing of its own in Docker.
LEMMA FreshInv ==
  ASSUME pc' \in {"idle", "volume"}, present' = {}, known' = {}, primary' = "none",
         thrown' = FALSE, envFile' = FALSE, recorded' = FALSE
  PROVE  DockerInv'
<1>1. DockerType'
  BY CommandDomain DEF DockerType, Running, CommandNames
<1>2. UnattendedIsKnown'
  BY CommandDomain DEF UnattendedIsKnown, Running, CommandNames
<1>3. QED
  BY <1>1, <1>2 DEF DockerInv, StepsVouch, Concluded

LEMMA DockerStep ==
  ASSUME DockerInv, Docker!Next
  PROVE  DockerInv'
<1>1. ASSUME Docker!Request
      PROVE  DockerInv'
  BY <1>1, CommandList, FreshInv DEF Docker!Request
<1>2. ASSUME Docker!Report
      PROVE  DockerInv'
  <2>1. /\ pc' = "idle"
        /\ UNCHANGED <<present, known, primary, thrown, envFile, recorded>>
    BY <1>2 DEF Docker!Report, Docker!docker
  <2>2. DockerType' /\ UnattendedIsKnown'
    BY <2>1, CommandDomain
       DEF DockerInv, DockerType, UnattendedIsKnown, Running, CommandNames
  <2>3. QED
    BY <2>1, <2>2 DEF DockerInv, StepsVouch, Concluded
<1>3. ASSUME Docker!LateExit
      PROVE  DockerInv'
  <2>1. present' \subseteq present
    BY <1>3 DEF Docker!LateExit
  <2>2. UNCHANGED <<pc, known, primary, thrown, envFile, recorded, pending>>
    BY <1>3 DEF Docker!LateExit
  <2>3. DockerType' /\ UnattendedIsKnown'
    BY <2>1, <2>2 DEF DockerInv, DockerType, UnattendedIsKnown
  <2>4. StepsVouch' /\ Concluded'
    BY <2>1, <2>2 DEF DockerInv, StepsVouch, Concluded
  <2>5. QED
    BY <2>3, <2>4 DEF DockerInv
<1>4. QED
  BY <1>1, <1>2, <1>3, CommandStep, CleanupStepInv, CleanupEndsInv
     DEF Docker!Next, Docker!Perform

LEMMA DockerReports == DockerInv => NothingIsHidden
<1> SUFFICES ASSUME DockerInv, pc = "report"
             PROVE  /\ present # {} => recorded
                    /\ Docker!Reported = "evidence" => present = {} /\ ~recorded /\ ~envFile
  BY DEF NothingIsHidden, Docker!NothingIsHidden
<1>1. Docker!Reported = "evidence" => primary \in Docker!Exits
  BY DEF Docker!Reported, Docker!Exits, Docker!FailureCode, DockerInv, DockerType
<1>2. QED
  BY <1>1 DEF DockerInv, Concluded, DockerType
-----------------------------------------------------------------------------
(* The host: records, and what follows a step.                             *)

\* What a change of one record leaves of the records.
Rewritten(i, m, c) ==
  /\ records' \in Seq(Record) /\ Len(records') = Len(records)
  /\ \A j \in Index :
       /\ records'[j].ws = records[j].ws /\ records'[j].postgres = records[j].postgres
       /\ j # i => records'[j] = records[j]
       /\ j = i => records'[j].made = m /\ records'[j].cleanup = c

LEMMA RecordsAre ==
  ASSUME HostType
  PROVE  /\ Len(records) \in Nat /\ DOMAIN records = Index
         /\ \A i \in Index : records[i] \in Record
BY LenProperties, ElementOfSeq DEF HostType, Index

LEMMA ReplaceRecord ==
  ASSUME HostType, NEW i \in Index, NEW r \in Record, records' = [records EXCEPT ![i] = r]
  PROVE  /\ records' \in Seq(Record) /\ Len(records') = Len(records)
         /\ \A j \in Index : records'[j] = IF j = i THEN r ELSE records[j]
<1>1. records \in Seq(Record) /\ i \in 1 .. Len(records)
  BY DEF HostType, Index
<1>2. /\ [records EXCEPT ![i] = r] \in Seq(Record)
      /\ Len([records EXCEPT ![i] = r]) = Len(records)
      /\ \A j \in 1 .. Len(records) :
           [records EXCEPT ![i] = r][j] = IF j = i THEN r ELSE records[j]
  BY <1>1, ExceptSeq
<1>3. QED
  BY <1>2, Zenon DEF Index

LEMMA RewriteRecord ==
  ASSUME HostType, NEW i \in Index, NEW m \in BOOLEAN, NEW c \in {"none", "passed", "failed"},
         records' = [records EXCEPT ![i].made = m, ![i].cleanup = c]
  PROVE  Rewritten(i, m, c)
<1> DEFINE r == [records[i] EXCEPT !.made = m, !.cleanup = c]
<1>1. records[i] \in Record /\ r \in Record
  BY RecordsAre DEF Record
<1>2. /\ r.ws = records[i].ws /\ r.postgres = records[i].postgres
      /\ r.made = m /\ r.cleanup = c
  BY <1>1 DEF Record
<1>3. records' = [records EXCEPT ![i] = r]
  BY RecordsAre
<1> HIDE DEF r
<1>4. /\ records' \in Seq(Record) /\ Len(records') = Len(records)
      /\ \A j \in Index : records'[j] = IF j = i THEN r ELSE records[j]
  BY <1>1, <1>3, ReplaceRecord
<1>5. QED
  BY <1>2, <1>4 DEF Rewritten

LEMMA RewriteMade ==
  ASSUME HostType, NEW i \in Index, NEW m \in BOOLEAN,
         records' = [records EXCEPT ![i].made = m]
  PROVE  Rewritten(i, m, records[i].cleanup)
<1> DEFINE r == [records[i] EXCEPT !.made = m]
<1>1. records[i] \in Record /\ r \in Record
  BY RecordsAre DEF Record
<1>2. /\ r.ws = records[i].ws /\ r.postgres = records[i].postgres
      /\ r.made = m /\ r.cleanup = records[i].cleanup
  BY <1>1 DEF Record
<1>3. records' = [records EXCEPT ![i] = r]
  BY RecordsAre
<1> HIDE DEF r
<1>4. /\ records' \in Seq(Record) /\ Len(records') = Len(records)
      /\ \A j \in Index : records'[j] = IF j = i THEN r ELSE records[j]
  BY <1>1, <1>3, ReplaceRecord
<1>5. QED
  BY <1>2, <1>4 DEF Rewritten

\* The record the container's step writes to.
LEMMA RewritePostgres ==
  ASSUME HostType, Len(records) > 0, NEW m \in BOOLEAN, NEW o \in {"passed", "failed"},
         records' = [records EXCEPT ![Len(records)].made = m, ![Len(records)].postgres = o]
  PROVE  /\ records' \in Seq(Record) /\ Len(records') = Len(records)
         /\ \A j \in Index :
              /\ records'[j].ws = records[j].ws /\ records'[j].cleanup = records[j].cleanup
              /\ records'[j].pkg = records[j].pkg
              /\ j # Len(records) => records'[j] = records[j]
              /\ j = Len(records) => records'[j].made = m /\ records'[j].postgres = o
<1> DEFINE n == Len(records)
           r == [records[n] EXCEPT !.made = m, !.postgres = o]
<1>0. n \in Index
  BY RecordsAre DEF Index
<1>1. records[n] \in Record /\ r \in Record
  BY <1>0, RecordsAre DEF Record
<1>2. /\ r.ws = records[n].ws /\ r.cleanup = records[n].cleanup /\ r.pkg = records[n].pkg
      /\ r.made = m /\ r.postgres = o
  BY <1>1 DEF Record
<1>3. records' = [records EXCEPT ![n] = r]
  BY <1>0, RecordsAre
<1> HIDE DEF r
<1>4. /\ records' \in Seq(Record) /\ Len(records') = Len(records)
      /\ \A j \in Index : records'[j] = IF j = n THEN r ELSE records[j]
  BY <1>0, <1>1, <1>3, ReplaceRecord
<1>5. QED
  BY <1>2, <1>4

LEMMA StepList ==
  /\ DOMAIN Host!StepIds = 1 .. 7 /\ Len(Host!StepIds) = 7
  /\ Host!StepIds[1] = "dependencies" /\ Host!StepIds[2] = "module-resolution"
  /\ Host!StepIds[3] = "typecheck" /\ Host!StepIds[4] = "postgres"
  /\ Host!StepIds[5] = "postgres-identity" /\ Host!StepIds[6] = "database-connectivity"
  /\ Host!StepIds[7] = "prerequisites"
  /\ Host!Steps = Before \cup After
BY DEF Host!StepIds, Host!Steps, Before, After

\* The step after s, as Step of TrustedLocal has it.
NextStep(s) ==
  LET i == CHOOSE k \in DOMAIN Host!StepIds : Host!StepIds[k] = s
  IN  IF i = Len(Host!StepIds) THEN "assign" ELSE Host!StepIds[i + 1]

LEMMA NextStepType ==
  ASSUME NEW s \in Host!Steps
  PROVE  /\ s \in Before \ {"postgres"} => NextStep(s) \in Before
         /\ s = "postgres" => NextStep(s) \in After
         /\ s \in After => NextStep(s) \in After \cup {"assign"}
         /\ NextStep(s) = "assign" => s = "prerequisites"
         /\ NextStep(s) \in Making
<1> DEFINE i == CHOOSE k \in DOMAIN Host!StepIds : Host!StepIds[k] = s
<1>1. i \in 1 .. 7 /\ Host!StepIds[i] = s
  BY StepList DEF Before, After
<1>2. NextStep(s) = IF i = 7 THEN "assign" ELSE Host!StepIds[i + 1]
  BY StepList DEF NextStep
<1> HIDE DEF i
<1>3. i = 1 \/ i = 2 \/ i = 3 \/ i = 4 \/ i = 5 \/ i = 6 \/ i = 7
  BY <1>1
<1>4. QED
  BY <1>1, <1>2, <1>3, StepList DEF Before, After, Making
-----------------------------------------------------------------------------
(* The host: where a call goes on.                                         *)

Data == HostType /\ LeaseIsOwn /\ MadeIsLeased

\* A check, or the call, is over: what comes next is asked for anew, unless
\* without an authority the next check compares at once.
LEMMA FinishGoes ==
  ASSUME HostType, Host!Finish
  PROVE  /\ stage' \in {"idle", "ask", "compare"} /\ rest' \in Nat
         /\ stage' = "compare" => ~authority
BY DEF Host!Finish, HostType

LEMMA GoesOn ==
  ASSUME Data', stage' \in {"idle", "ask", "compare", "snapshot"},
         stage' = "compare" => ~authority'
  PROVE  HostInv'
<1>1. NewestIsOpen' /\ VisitedIsRemoved' /\ Host!CheckedUnderLease'
  BY DEF NewestIsOpen, Making, Before, After, VisitedIsRemoved, Over, Host!CheckedUnderLease
<1>2. LeaseStands'
  BY DEF LeaseStands, Data, LeaseIsOwn, HostType, Over, Authorised
<1>3. QED
  BY <1>1, <1>2 DEF HostInv, Data

\* The data do not change, nor who holds what.
LEMMA DataStays ==
  ASSUME Data, UNCHANGED <<authority, failed, tools, records, assigned>>, ws' \in Workspaces,
         pkg' \in Packages, rest' \in Nat, stage \notin Over,
         stage' \in Making \cup {"idle", "ask", "drift", "snapshot", "compare", "check"}
  PROVE  Data'
BY DEF Data, HostType, LeaseIsOwn, MadeIsLeased, Index, Making, Before, After, Over, Host!Leased

LEMMA NewRecordInv ==
  ASSUME HostInv, Host!NewRecord, stage \in {"ask", "drift"}, Host!Candidate,
         UNCHANGED <<authority, failed, ws, pkg, tools>>,
         assigned' = [assigned EXCEPT ![ws] = 0]
  PROVE  HostInv'
<1> USE DEF HostInv
<1> DEFINE r == [ws |-> ws, pkg |-> pkg, made |-> FALSE, postgres |-> "none",
                 cleanup |-> "none"]
<1>1. /\ ws \in Workspaces /\ stage \notin Over /\ r \in Record
      /\ ~r.made /\ r.cleanup = "none" /\ r.ws = ws /\ r.pkg = pkg
  BY DEF HostType, Over, Record
<1>2. records' = Append(records, r) /\ (Host!At(Host!StepIds[1]) \/ Host!Finish)
  BY DEF Host!NewRecord, Host!Observed
<1> HIDE DEF r
<1>3. /\ records' \in Seq(Record) /\ Len(records') = Len(records) + 1
      /\ \A i \in Index : records'[i] = records[i]
      /\ records'[Len(records) + 1] = r
  BY <1>1, <1>2, AppendProperties DEF HostType, Index
<1>4. stage' \in {"dependencies", "idle", "ask", "compare"} /\ rest' \in Nat
  BY <1>2, FinishGoes, StepList DEF Host!At, HostType
<1>5. Len(records) \in Nat
  BY RecordsAre
<1>6. Index' = Index \cup {Len(records) + 1} /\ Len(records') \in Index'
  BY <1>3, <1>5 DEF Index
<1>7. HostType'
  BY <1>1, <1>3, <1>4 DEF HostType, Making, Before, Over
<1>8. \A w \in Workspaces : assigned'[w] # 0 => assigned'[w] = assigned[w] /\ w # ws
  BY <1>1 DEF HostType
<1>9. LeaseIsOwn'
  BY <1>1, <1>3, <1>6, <1>8 DEF LeaseIsOwn
<1>10. MadeIsLeased'
  BY <1>1, <1>3, <1>6 DEF MadeIsLeased
<1>11. CASE Host!Finish
  BY <1>7, <1>9, <1>10, <1>11, FinishGoes, GoesOn DEF Data
<1>12. CASE Host!At(Host!StepIds[1])
  <2>1. stage' = "dependencies"
    BY <1>12, StepList DEF Host!At
  <2>2. NewestIsOpen'
    BY <1>1, <1>3, <1>5, <2>1
       DEF NewestIsOpen, Making, Before, After, HostType, Authorised, Host!Candidate
  <2>3. LeaseStands' /\ VisitedIsRemoved' /\ Host!CheckedUnderLease'
    BY <2>1 DEF LeaseStands, VisitedIsRemoved, Over, Host!CheckedUnderLease
  <2>4. QED
    BY <1>7, <1>9, <1>10, <2>2, <2>3
<1>13. QED
  BY <1>2, <1>11, <1>12

\* prepare() returns to the call it was made for.
LEMMA PreparedInv ==
  ASSUME Data', Host!Prepared, HostType, authority' = authority,
         (assigned[ws] # 0 => records[assigned[ws]].made /\ Authorised(records[assigned[ws]]))'
  PROVE  HostInv'
<1>1. CASE Host!Finish
  BY <1>1, FinishGoes, GoesOn
<1>2. CASE stage' = "snapshot"
  BY <1>2, GoesOn
<1>3. CASE stage' = "compare"
  BY <1>3 DEF HostInv, Data, NewestIsOpen, Making, Before, After, LeaseStands, VisitedIsRemoved,
     Over, Host!CheckedUnderLease
<1>4. QED
  BY <1>1, <1>2, <1>3 DEF Host!Prepared
-----------------------------------------------------------------------------
(* The host: one lemma per kind of step.                                   *)

LEMMA CallInv ==
  ASSUME HostInv, Host!Call
  PROVE  HostInv'
<1> USE DEF HostInv
<1>1. PICK w \in Workspaces : Host!Prepare(w) \/ Host!Verify(w) \/ Host!Evaluate(w)
  BY DEF Host!Call
<1>2. /\ stage = "idle" /\ pkg' \in Packages /\ tools' \in {tools, FALSE}
      /\ UNCHANGED <<authority, failed, records, assigned>>
  BY DEF Host!Call
<1>3. /\ stage' \in {"ask", "compare"}
      /\ stage' = "compare" => ~authority
      /\ ws' = w
  BY <1>1 DEF Host!Prepare, Host!Verify, Host!Evaluate
<1>4. rest' \in Nat
  BY <1>1, VerifierAssumption
     DEF Host!Prepare, Host!Verify, Host!Evaluate, Host!TrustedLocalAssumption
<1>5. HostType'
  BY <1>1, <1>2, <1>3, <1>4 DEF HostType
<1>6. LeaseIsOwn' /\ MadeIsLeased'
  BY <1>2, <1>3 DEF LeaseIsOwn, MadeIsLeased, Index, Over, Host!Leased
<1>7. QED
  BY <1>2, <1>3, <1>5, <1>6, GoesOn DEF Data

\* Steps that only move the call on: a refusal, the digest, a check.
LEMMA PassingInv ==
  ASSUME HostInv, Host!Refuse \/ Host!Snapshot \/ Host!Check
  PROVE  HostInv'
<1> USE DEF HostInv
<1>1. /\ UNCHANGED <<authority, failed, ws, tools, records, assigned>>
      /\ stage \in {"ask", "snapshot", "check"}
  BY DEF Host!Refuse, Host!Snapshot, Host!Check
<1>2. stage \notin Over /\ ws \in Workspaces
  BY <1>1 DEF HostType, Over
<1>3. pkg' \in Packages
  BY DEF Host!Refuse, Host!Snapshot, Host!Check, Host!Scripts, HostType
<1>4. /\ stage' \in {"idle", "ask", "compare"} /\ rest' \in Nat
      /\ stage' = "compare" => ~authority
  BY FinishGoes DEF Host!Refuse, Host!Snapshot, Host!Check, HostType
<1>5. Data'
  BY <1>1, <1>2, <1>3, <1>4, DataStays DEF Data
<1>6. QED
  BY <1>1, <1>4, <1>5, GoesOn

\* The lease found is the one the call goes on with.
LEMMA AskInv ==
  ASSUME HostInv, Host!Ask
  PROVE  HostInv'
<1> USE DEF HostInv
<1>1. /\ UNCHANGED <<authority, failed, ws, pkg, tools, assigned>>
      /\ stage = "ask" /\ Host!Candidate
  BY DEF Host!Ask
<1>2. stage \notin Over /\ ws \in Workspaces
  BY <1>1 DEF HostType, Over
<1>3. Host!Candidate'
  BY <1>1 DEF Host!Candidate
<1>4. CASE /\ assigned[ws] # 0 /\ (authority => records[assigned[ws]].made)
           /\ IF ~authority \/ Host!Current THEN Host!Prepared ELSE Host!At("drift")
           /\ UNCHANGED records
  <2>1. records[assigned[ws]].made
    BY <1>2, <1>4 DEF LeaseIsOwn, HostType
  <2>2. CASE (~authority \/ Host!Current) /\ Host!Prepared
    <3>1. stage' \in {"idle", "ask", "compare", "snapshot"} /\ rest' \in Nat
      BY <2>2, FinishGoes DEF Host!Prepared, HostType
    <3>2. Data'
      BY <1>1, <1>2, <1>4, <3>1, DataStays DEF Data, HostType
    <3>3. (records[assigned[ws]].made /\ Authorised(records[assigned[ws]]))'
      BY <1>1, <1>4, <2>1, <2>2
         DEF Authorised, Host!Current, Host!Candidate
    <3>4. QED
      BY <1>1, <1>4, <2>2, <3>2, <3>3, PreparedInv
  <2>3. CASE authority /\ Host!At("drift")
    <3>1. stage' = "drift" /\ rest' \in Nat
      BY <2>3 DEF Host!At, HostType
    <3>2. Data'
      BY <1>1, <1>2, <1>4, <3>1, DataStays DEF Data, HostType
    <3>3. QED
      BY <1>1, <1>3, <2>3, <3>1, <3>2
         DEF Data, NewestIsOpen, Making, Before, After, LeaseStands, VisitedIsRemoved, Over,
             Host!CheckedUnderLease
  <2>4. QED
    BY <1>4, <2>2, <2>3
<1>5. CASE assigned[ws] = 0 /\ Host!NewRecord
  <2>1. assigned' = [assigned EXCEPT ![ws] = 0]
    BY <1>1, <1>2, <1>5 DEF HostType
  <2>2. QED
    BY <1>1, <1>5, <2>1, NewRecordInv
<1>6. QED
  BY <1>4, <1>5 DEF Host!Ask

\* Giving up a lease touches only containers of the workspace, and they are not
\* leased any more once the drift is over.
LEMMA DriftInv ==
  ASSUME HostInv, Host!Drift
  PROVE  HostInv'
<1> USE DEF HostInv
<1>1. /\ UNCHANGED <<authority, failed, ws, pkg, tools>>
      /\ stage = "drift" /\ authority /\ Host!Candidate /\ Host!Candidate'
  BY DEF Host!Drift, NewestIsOpen, Host!Candidate
<1>2. stage \notin Over /\ ws \in Workspaces
  BY <1>1 DEF HostType, Over
<1>3. CASE Host!Stale = {}
  BY <1>1, <1>3, NewRecordInv DEF Host!Drift
<1>4. CASE Host!Stale # {}
  <2> DEFINE i == Host!Min(Host!Stale)
  <2>1. /\ assigned' = assigned
        /\ \/ /\ records' = [records EXCEPT ![i].made = FALSE, ![i].cleanup = "passed"]
              /\ Host!Observed(Host!At("drift"))
           \/ /\ \E m \in {records[i].made, FALSE} : records' = [records EXCEPT ![i].made = m]
              /\ Host!Finish
    BY <1>4 DEF Host!Drift
  <2> HIDE DEF i
  <2>2. /\ stage' \in {"drift", "idle", "ask", "compare"} /\ rest' \in Nat
        /\ stage' = "compare" => ~authority
    BY <2>1, FinishGoes DEF Host!Observed, Host!At, HostType
  <2>3. Data'
    <3>1. CASE i \notin Index
      <4>1. records' = records
        BY <2>1, <3>1, RecordsAre DEF HostType
      <4>2. QED
        BY <1>1, <1>2, <2>1, <2>2, <4>1, DataStays DEF Data, HostType
    <3>2. CASE i \in Index
      <4>1. PICK m \in BOOLEAN, c \in {"passed", records[i].cleanup} :
              /\ Rewritten(i, m, c)
              /\ m => records[i].made /\ c = records[i].cleanup
        <5>1. records[i].made \in BOOLEAN /\ records[i].cleanup \in {"none", "passed", "failed"}
          BY <3>2, RecordsAre DEF Record
        <5>2. CASE records' = [records EXCEPT ![i].made = FALSE, ![i].cleanup = "passed"]
          BY <3>2, <5>2, RewriteRecord
        <5>3. ASSUME NEW m \in {records[i].made, FALSE},
                     records' = [records EXCEPT ![i].made = m]
              PROVE  \E n \in BOOLEAN, c \in {"passed", records[i].cleanup} :
                       Rewritten(i, n, c) /\ (n => records[i].made /\ c = records[i].cleanup)
          BY <3>2, <5>1, <5>3, RewriteMade
        <5>4. QED
          BY <2>1, <5>2, <5>3
      <4>2. HostType'
        BY <1>1, <1>2, <2>1, <2>2, <4>1 DEF HostType, Rewritten, Over
      <4>3. LeaseIsOwn'
        BY <1>1, <2>1, <4>1 DEF LeaseIsOwn, Rewritten, Index
      <4>4. MadeIsLeased'
        BY <1>2, <3>2, <4>1 DEF MadeIsLeased, Rewritten, Index, Host!Leased
      <4>5. QED
        BY <4>2, <4>3, <4>4 DEF Data
    <3>3. QED
      BY <3>1, <3>2
  <2>4. CASE stage' = "drift"
    BY <1>1, <2>3, <2>4
       DEF Data, NewestIsOpen, Making, Before, After, LeaseStands, VisitedIsRemoved, Over,
           Host!CheckedUnderLease
  <2>5. QED
    BY <1>1, <2>2, <2>3, <2>4, GoesOn
<1>5. QED
  BY <1>3, <1>4

\* A step of the preparation, which works on the newest record.
LEMMA StepInv ==
  ASSUME HostInv, NEW s \in Host!Steps, Host!Step(s)
  PROVE  HostInv'
<1> USE DEF HostInv
<1>1. /\ UNCHANGED <<authority, failed, ws, tools, assigned>>
      /\ stage = s /\ s \in Before \cup After /\ pkg' \in Packages
  BY StepList DEF Host!Step, Host!Scripts, HostType
<1>2. stage \in Making /\ stage \notin Over /\ ws \in Workspaces
  BY <1>1 DEF HostType, Over, Making, Before, After
<1>3. /\ assigned[ws] = 0 /\ Len(records) > 0 /\ Len(records) \in Index
      /\ records[Len(records)].ws = ws /\ records[Len(records)].cleanup = "none"
  BY <1>2, RecordsAre DEF NewestIsOpen, Index
<1>4. Host!At(NextStep(s)) \/ Host!Finish
  BY DEF Host!Step, NextStep, Host!Observed
<1>5. /\ stage' \in {NextStep(s), "idle", "ask", "compare"} /\ rest' \in Nat
      /\ stage' = "compare" => ~authority
  BY <1>4, FinishGoes, NextStepType DEF Host!At, HostType, Making, Before, After
<1>6. stage' \notin Over /\ stage' \in Making \cup {"idle", "ask", "compare"}
  BY <1>5, NextStepType DEF Making, Before, After, Over
\* What the step made of the newest record.
<1>7. /\ records' \in Seq(Record) /\ Len(records') = Len(records)
      /\ \A j \in Index :
           /\ records'[j].ws = records[j].ws /\ records'[j].cleanup = records[j].cleanup
           /\ records'[j].pkg = records[j].pkg
           /\ j # Len(records) => records'[j] = records[j]
           /\ records'[j] = records[j] \/ Host!Leased(records'[j])
      /\ s # "postgres" => records' = records
      /\ s = "postgres" /\ stage' = NextStep(s) => records'[Len(records)].made
  <2>1. CASE s # "postgres"
    BY <1>1, <2>1 DEF Host!Step, HostType
  <2>2. CASE s = "postgres"
    <3>1. PICK m \in {TRUE, FALSE, Host!Candidate}, o \in {"passed", "failed"} :
            /\ records' = [records EXCEPT ![Len(records)].made = m,
                                          ![Len(records)].postgres = o]
            /\ stage' = NextStep(s) => m = TRUE
      <4>1. CASE records' = [records EXCEPT ![Len(records)].made = TRUE,
                                            ![Len(records)].postgres = "passed"]
        BY <4>1
      <4>2. CASE Host!Finish /\ \E m \in {FALSE, Host!Candidate} :
                   records' = [records EXCEPT ![Len(records)].made = m,
                                              ![Len(records)].postgres = "failed"]
        <5>1. stage' # NextStep(s)
          BY <2>2, <4>2, FinishGoes, NextStepType DEF After
        <5>2. QED
          BY <4>2, <5>1
      <4>3. QED
        BY <2>2, <4>1, <4>2 DEF Host!Step, Host!Latest
    <3>2. m \in BOOLEAN
      BY DEF Host!Candidate, HostType
    <3>3. /\ records' \in Seq(Record) /\ Len(records') = Len(records)
          /\ \A j \in Index :
               /\ records'[j].ws = records[j].ws /\ records'[j].cleanup = records[j].cleanup
               /\ records'[j].pkg = records[j].pkg
               /\ j # Len(records) => records'[j] = records[j]
               /\ j = Len(records) => records'[j].made = m /\ records'[j].postgres = o
      BY <1>3, <3>1, <3>2, RewritePostgres
    <3>4. Host!Leased(records'[Len(records)])
      BY <1>3, <3>3 DEF Host!Leased
    <3>5. s = "postgres" /\ stage' = NextStep(s) => records'[Len(records)].made
      BY <1>3, <3>1, <3>3
    <3>6. QED
      BY <2>2, <3>3, <3>4, <3>5
  <2>3. QED
    BY <2>1, <2>2
<1>8. HostType'
  BY <1>1, <1>2, <1>5, <1>6, <1>7 DEF HostType
<1>9. LeaseIsOwn'
  <2>1. \A w \in Workspaces : assigned[w] # 0 => assigned[w] # Len(records)
    BY <1>3 DEF LeaseIsOwn
  <2>2. QED
    BY <1>1, <1>2, <1>7, <2>1 DEF LeaseIsOwn, Index
<1>10. MadeIsLeased'
  BY <1>2, <1>7 DEF MadeIsLeased, Index
<1>11. CASE stage' \in {"idle", "ask", "compare"}
  BY <1>1, <1>5, <1>8, <1>9, <1>10, <1>11, GoesOn DEF Data
<1>12. CASE stage' = NextStep(s)
  <2>1. stage' \in After \cup {"assign"} => records'[Len(records')].made
    <3>1. s \in After => records[Len(records)].made
      BY <1>1 DEF NewestIsOpen
    <3>2. s \in Before \ {"postgres"} => stage' \in Before
      BY <1>12, NextStepType
    <3>3. QED
      BY <1>1, <1>7, <1>12, <3>1, <3>2 DEF Before, After
  <2>2. Authorised(records[Len(records)])'
    BY <1>1, <1>2, <1>3, <1>7 DEF NewestIsOpen, Authorised
  <2>3. NewestIsOpen'
    BY <1>1, <1>3, <1>5, <1>7, <1>12, <2>1, <2>2, NextStepType
       DEF NewestIsOpen, Making, Before, After
  <2>4. LeaseStands' /\ VisitedIsRemoved' /\ Host!CheckedUnderLease'
    BY <1>12, NextStepType
       DEF LeaseStands, VisitedIsRemoved, Over, Host!CheckedUnderLease, Making, Before, After
  <2>5. QED
    BY <1>8, <1>9, <1>10, <2>3, <2>4
<1>13. QED
  BY <1>5, <1>11, <1>12

LEMMA AssignInv ==
  ASSUME HostInv, Host!Assign
  PROVE  HostInv'
<1> USE DEF HostInv
<1> DEFINE n == Len(records)
<1>1. /\ UNCHANGED <<authority, failed, ws, pkg, tools, records>>
      /\ stage = "assign" /\ assigned' = [assigned EXCEPT ![ws] = n]
      /\ Host!Prepared \/ Host!Finish
  BY DEF Host!Assign, Host!Latest, Host!Observed
<1>2. stage \notin Over /\ ws \in Workspaces
  BY <1>1 DEF HostType, Over
<1>3. /\ n \in Index /\ records[n].ws = ws /\ records[n].made /\ Authorised(records[n])
  BY <1>1, RecordsAre DEF NewestIsOpen, Making, Index
<1>4. stage' \in {"idle", "ask", "compare", "snapshot"} /\ rest' \in Nat
  BY <1>1, FinishGoes DEF Host!Prepared, HostType
<1>5. n \in Nat
  BY RecordsAre
<1>6. \A w \in Workspaces : assigned'[w] = IF w = ws THEN n ELSE assigned[w]
  BY <1>1 DEF HostType
<1> HIDE DEF n
<1>7. HostType'
  BY <1>1, <1>2, <1>4, <1>5 DEF HostType
<1>8. LeaseIsOwn'
  BY <1>1, <1>2, <1>3, <1>6 DEF LeaseIsOwn, Index
<1>9. MadeIsLeased'
  BY <1>1, <1>2 DEF MadeIsLeased, Index
<1>10. CASE Host!Finish
  BY <1>1, <1>7, <1>8, <1>9, <1>10, FinishGoes, GoesOn DEF Data
<1>11. CASE Host!Prepared
  <2>1. (records[assigned[ws]].made /\ Authorised(records[assigned[ws]]))'
    BY <1>1, <1>2, <1>3, <1>6 DEF Authorised
  <2>2. QED
    BY <1>1, <1>7, <1>8, <1>9, <1>11, <2>1, PreparedInv DEF Data
<1>12. QED
  BY <1>1, <1>10, <1>11

\* The comparison is what makes the check's promise whole.
LEMMA CompareInv ==
  ASSUME HostInv, Host!Compare
  PROVE  HostInv'
<1> USE DEF HostInv
<1>1. /\ UNCHANGED <<authority, failed, ws, pkg, tools, records, assigned>>
      /\ stage = "compare"
  BY DEF Host!Compare
<1>2. stage \notin Over /\ ws \in Workspaces
  BY <1>1 DEF HostType, Over
<1>3. CASE Host!Finish
  <2>1. Data'
    BY <1>1, <1>2, <1>3, FinishGoes, DataStays DEF Data, HostType
  <2>2. QED
    BY <1>1, <1>3, <2>1, FinishGoes, GoesOn
<1>4. CASE Host!Fits /\ Host!At("check")
  <2>1. stage' = "check" /\ rest' \in Nat
    BY <1>4 DEF Host!At, HostType
  <2>2. Data'
    BY <1>1, <1>2, <2>1, DataStays DEF Data, HostType
  <2>3. /\ assigned[ws] # 0 /\ records[assigned[ws]].pkg = pkg
        /\ records[assigned[ws]].made /\ Host!Candidate
    BY <1>1, <1>4 DEF Host!Fits, Host!Current, LeaseStands, Authorised, Host!Candidate
  <2>4. assigned[ws] \in Index /\ records[assigned[ws]].ws = ws
    BY <1>2, <2>3 DEF LeaseIsOwn
  <2>5. records[assigned[ws]].cleanup = "none"
    <3>1. records[assigned[ws]].cleanup \in {"none", "passed", "failed"}
      BY <2>4, RecordsAre DEF Record
    <3>2. QED
      BY <1>2, <2>3, <2>4, <3>1 DEF MadeIsLeased, Host!Leased
  <2>6. Host!CheckedUnderLease'
    BY <1>1, <2>3, <2>4, <2>5 DEF Host!CheckedUnderLease, Host!Candidate
  <2>7. NewestIsOpen' /\ LeaseStands' /\ VisitedIsRemoved'
    BY <2>1 DEF NewestIsOpen, Making, Before, After, LeaseStands, VisitedIsRemoved, Over
  <2>8. QED
    BY <2>2, <2>6, <2>7 DEF Data
<1>5. QED
  BY <1>3, <1>4 DEF Host!Compare
-----------------------------------------------------------------------------
(* The host: the final cleanup.                                            *)

LEMMA BeginCleanupInv ==
  ASSUME HostInv, Host!BeginCleanup
  PROVE  HostInv'
<1> USE DEF HostInv
<1>1. /\ UNCHANGED <<authority, ws, pkg, tools, records, assigned>>
      /\ stage = "idle" /\ stage' = "cleanup" /\ rest' = 0 /\ failed' = FALSE
  BY DEF Host!BeginCleanup
<1>2. HostType'
  BY <1>1 DEF HostType, Over
<1>3. LeaseIsOwn' /\ MadeIsLeased'
  BY <1>1 DEF LeaseIsOwn, MadeIsLeased, Index, Over
<1>4. VisitedIsRemoved'
  BY <1>1, RecordsAre DEF VisitedIsRemoved, Index
<1>5. NewestIsOpen' /\ LeaseStands' /\ Host!CheckedUnderLease'
  BY <1>1 DEF NewestIsOpen, Making, Before, After, LeaseStands, Host!CheckedUnderLease
<1>6. QED
  BY <1>2, <1>3, <1>4, <1>5

\* Cleanup visits one record: it is removed, or the failure is remembered.
LEMMA CleanupRecordInv ==
  ASSUME HostInv, Host!CleanupRecord
  PROVE  HostInv'
<1> USE DEF HostInv
<1> DEFINE i == rest + 1
<1>1. /\ UNCHANGED <<authority, ws, pkg, tools, assigned>>
      /\ stage = "cleanup" /\ i \in Index /\ rest \in Nat
  BY RecordsAre DEF Host!CleanupRecord, HostType, Index
<1>2. records[i].made \in BOOLEAN
  BY <1>1, RecordsAre DEF Record
<1>3. CASE ~Host!Leased(records[i])
  <2>1. /\ rest' = i /\ UNCHANGED <<records, stage, failed>> /\ ~records[i].made
    BY <1>1, <1>3 DEF Host!CleanupRecord, MadeIsLeased
  <2> HIDE DEF i
  <2>2. HostType' /\ LeaseIsOwn' /\ MadeIsLeased'
    BY <1>1, <2>1, RecordsAre DEF HostType, LeaseIsOwn, MadeIsLeased, Index
  <2>3. \A j \in Index : j <= rest' => j <= rest \/ j = i
    BY <1>1, <2>1, RecordsAre DEF Index, i
  <2>4. VisitedIsRemoved'
    BY <1>1, <2>1, <2>3 DEF VisitedIsRemoved, Index, Over
  <2>5. QED
    BY <1>1, <2>1, <2>2, <2>4
       DEF NewestIsOpen, Making, Before, After, LeaseStands, Host!CheckedUnderLease
<1>4. CASE Host!Leased(records[i])
  <2>1. PICK m \in BOOLEAN, c \in {"passed", "failed"} :
          /\ records' = [records EXCEPT ![i].made = m, ![i].cleanup = c]
          /\ c = "passed" => ~m
          /\ \/ rest' = i /\ stage' = stage /\ (failed' \/ (failed' = failed /\ ~m))
             \/ rest' = rest /\ stage' = "over" /\ failed'
          /\ failed' \in BOOLEAN
    BY <1>2, <1>4 DEF Host!CleanupRecord, Host!Remove, HostType
  <2> HIDE DEF i
  <2>2. Rewritten(i, m, c)
    BY <1>1, <2>1, RewriteRecord
  <2>3. stage' \in Over /\ rest' \in Nat
    BY <1>1, <2>1 DEF Over, i
  <2>4. HostType'
    BY <1>1, <2>1, <2>2, <2>3 DEF HostType, Rewritten, Over
  <2>5. LeaseIsOwn'
    BY <1>1, <2>2, <2>3 DEF LeaseIsOwn, Rewritten, Index, Over
  <2>6. MadeIsLeased'
    <3>1. ASSUME NEW j \in Index, records'[j].made
          PROVE  Host!Leased(records'[j])
      <4>1. CASE j = i
        BY <1>4, <2>1, <2>2, <3>1, <4>1 DEF Rewritten, Host!Leased
      <4>2. CASE j # i
        BY <2>2, <3>1, <4>2 DEF Rewritten, MadeIsLeased
      <4>3. QED
        BY <4>1, <4>2
    <3>2. QED
      BY <2>2, <2>3, <3>1 DEF MadeIsLeased, Rewritten, Index
  <2>7. VisitedIsRemoved'
    <3>1. CASE rest' = i /\ stage' = stage /\ failed' = failed /\ ~m
      <4>1. \A j \in Index : j <= rest' => j <= rest \/ j = i
        BY <1>1, <3>1, RecordsAre DEF Index, i
      <4>2. QED
        BY <1>1, <2>2, <3>1, <4>1 DEF VisitedIsRemoved, Index, Rewritten, Over
    <3>2. CASE failed'
      BY <3>2 DEF VisitedIsRemoved
    <3>3. QED
      BY <2>1, <3>1, <3>2
  <2>8. QED
    BY <2>3, <2>4, <2>5, <2>6, <2>7
       DEF Over, NewestIsOpen, Making, Before, After, LeaseStands, Host!CheckedUnderLease
<1>5. QED
  BY <1>3, <1>4

LEMMA EndCleanupInv ==
  ASSUME HostInv, Host!EndCleanup
  PROVE  HostInv'
<1> USE DEF HostInv
<1>1. /\ UNCHANGED <<authority, rest, failed, ws, pkg, tools, records>>
      /\ stage = "cleanup" /\ stage' = "over" /\ rest = Len(records)
      /\ assigned' = [w \in Workspaces |-> 0]
  BY DEF Host!EndCleanup
<1>2. HostType' /\ LeaseIsOwn' /\ MadeIsLeased'
  BY <1>1 DEF HostType, LeaseIsOwn, MadeIsLeased, Index, Over
<1>3. VisitedIsRemoved'
  BY <1>1, RecordsAre DEF VisitedIsRemoved, Index, Over
<1>4. QED
  BY <1>1, <1>2, <1>3 DEF NewestIsOpen, Making, Before, After, LeaseStands, Host!CheckedUnderLease

LEMMA HostStep ==
  ASSUME HostInv, Host!Next
  PROVE  HostInv'
BY CallInv, PassingInv, AskInv, DriftInv, StepInv, AssignInv, CompareInv, BeginCleanupInv,
   CleanupRecordInv, EndCleanupInv DEF Host!Next, Host!Works
-----------------------------------------------------------------------------
(* Both, and the theorems.                                                 *)

LEMMA VerifiersInit == Init => VerifiersInv
<1> SUFFICES ASSUME Init
             PROVE  VerifiersInv
  OBVIOUS
<1>1. DockerInv
  BY CommandDomain
     DEF Init, Docker!Init, DockerInv, DockerType, UnattendedIsKnown, StepsVouch, Concluded,
         Running, CommandNames, Unattended
<1>2. Covered \subseteq Packages /\ (CHOOSE p \in Covered : TRUE) \in Covered
  BY VerifierAssumption DEF Host!TrustedLocalAssumption
<1>3. records = <<>> /\ Len(records) = 0 /\ records \in Seq(Record)
  BY EmptySeq DEF Init, Host!Init
<1>4. HostType
  BY <1>2, <1>3 DEF Init, Host!Init, HostType
<1>5. HostInv
  BY <1>3, <1>4
     DEF Init, Host!Init, HostInv, LeaseIsOwn, MadeIsLeased, NewestIsOpen, LeaseStands,
         VisitedIsRemoved, Index, Making, Before, After, Over, Host!CheckedUnderLease
<1>6. QED
  BY <1>1, <1>5 DEF VerifiersInv

LEMMA VerifiersStep == VerifiersInv /\ [Next]_vars => VerifiersInv'
<1> SUFFICES ASSUME VerifiersInv, [Next]_vars
             PROVE  VerifiersInv'
  OBVIOUS
<1>1. ASSUME UNCHANGED container
      PROVE  DockerInv'
  BY <1>1 DEF container, VerifiersInv, DockerInv, DockerType, UnattendedIsKnown, StepsVouch,
     Concluded
<1>2. ASSUME UNCHANGED host
      PROVE  HostInv'
  BY <1>2 DEF host, VerifiersInv, HostInv, HostType, LeaseIsOwn, MadeIsLeased, NewestIsOpen,
     LeaseStands, VisitedIsRemoved, Index, Host!CheckedUnderLease, Host!Candidate, Authorised
<1>3. CASE InContainer(Docker!Next)
  BY <1>2, <1>3, DockerStep DEF InContainer, VerifiersInv
<1>4. CASE OnHost(Host!Next)
  BY <1>1, <1>4, HostStep DEF OnHost, VerifiersInv
<1>5. CASE UNCHANGED vars
  BY <1>1, <1>2, <1>5 DEF vars, VerifiersInv
<1>6. QED
  BY <1>3, <1>4, <1>5 DEF Next

\* Every reachable state of either verifier satisfies the inductive invariant.
THEOREM VerifiersInvariance == Spec => []VerifiersInv
<1>1. QED
  BY VerifiersInit, VerifiersStep, PTL DEF Spec

\* What a cleanup of docker left behind was recorded, and no evidence covers it.
THEOREM NothingStaysHidden == Spec => []NothingIsHidden
<1>1. VerifiersInv => NothingIsHidden
  BY DockerReports DEF VerifiersInv
<1>2. QED
  BY <1>1, VerifiersInvariance, PTL

\* A final cleanup that reports no failure left no container of a preparation.
THEOREM LeasesAreRemoved == Spec => []NoLeaseIsLeft
<1>1. VerifiersInv => NoLeaseIsLeft
  BY RecordsAre
     DEF VerifiersInv, HostInv, VisitedIsRemoved, Over, NoLeaseIsLeft, Host!NoLeaseIsLeft
<1>2. QED
  BY <1>1, VerifiersInvariance, PTL

\* A check on the host runs under the lease and the package.json it was prepared with.
THEOREM ChecksHoldTheirLease == Spec => []CheckedUnderLease
<1>1. VerifiersInv => CheckedUnderLease
  BY DEF VerifiersInv, HostInv, CheckedUnderLease
<1>2. QED
  BY <1>1, VerifiersInvariance, PTL
=============================================================================
