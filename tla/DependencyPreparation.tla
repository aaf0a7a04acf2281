------------------------ MODULE DependencyPreparation ------------------------
(***************************************************************************)
(* Preparations of a dependency bundle (DockerDependencyPreparationService *)
(* in src/verification/dependency-preparation.ts) by several processes on  *)
(* one Docker daemon, and the store they seal their bundles in             *)
(* (src/verification/dependency-bundle.ts).  All preparations here have    *)
(* the same bundle key: bundles of other keys live in other directories.   *)
(*                                                                         *)
(* A preparation runs one docker command after the other; each returns     *)
(* within the profile's wall time, and one that is reported as failed may  *)
(* have been carried out all the same.                                     *)
(***************************************************************************)
EXTENDS Integers, FiniteSets, Sequences

CONSTANTS
  Preparations,   \* calls of prepare(), each in a process of its own
  Trees,          \* what an installation may leave in node_modules
  NoTree,
  MaxRemovals,    \* bound: removals of the bundle by store maintenance
  MaxFaults       \* bound: removals of one cleanup that fail without a cause
                  \* in the model

ASSUME PreparationAssumption ==
  /\ NoTree \notin Trees
  /\ MaxRemovals \in Nat
  /\ MaxFaults \in Nat

\* The resources of a preparation, in the order they are created.
Plan == <<"internal", "outbound", "input", "output", "proxy", "preparer">>
Resource == {Plan[i] : i \in DOMAIN Plan}
Networks == {"internal", "outbound"}
Volumes == {"input", "output"}

NoBundle == [tree |-> NoTree, sealed |-> FALSE]
Bundle == [tree : Trees, sealed : BOOLEAN]

VARIABLES
  pc,         \* where a preparation is
  made,       \* made[p] of Plan's resources were reported as created
  booted,     \* the proxy was connected, started and inspected
  real,       \* real[p]: the resources of p the daemon has
  installed,  \* node_modules in the export directory of p
  primary,    \* the first failure
  left,       \* how many made resources the cleanup still has to visit
  kept,       \* those it could not remove (cleanupFailures)
  staging,    \* the staging directory of p in the store
  target,     \* the directory of the bundle key in the store
  removals,
  result      \* the tree a returned provenance records

vars == <<pc, made, booted, real, installed, primary, left, kept, staging, target,
          removals, result>>

Failures == {"none", "IMAGE_UNAVAILABLE", "NETWORK_CREATE_FAILED", "PROXY_STARTUP_FAILED",
             "TOPOLOGY_MISMATCH", "REGISTRY_INSTALL_FAILED", "BUNDLE_OUTPUT_MISSING",
             "BUNDLE_SEAL_FAILED"}

TypeOK ==
  /\ pc \in [Preparations -> {"images", "topology", "install", "export", "look", "copy",
                              "chmod", "publish", "identify", "cleanup", "done"}]
  /\ made \in [Preparations -> 0 .. Len(Plan)]
  /\ booted \in [Preparations -> BOOLEAN]
  /\ real \in [Preparations -> SUBSET Resource]
  /\ installed \in [Preparations -> Trees \cup {NoTree}]
  /\ primary \in [Preparations -> Failures]
  /\ left \in [Preparations -> 0 .. Len(Plan)]
  /\ kept \in [Preparations -> SUBSET Resource]
  /\ staging \in [Preparations -> Bundle \cup {NoBundle}]
  /\ target \in Bundle \cup {NoBundle}
  /\ removals \in 0 .. MaxRemovals
  /\ result \in [Preparations -> Bundle \cup {NoBundle}]

Init ==
  /\ pc = [p \in Preparations |-> "images"]
  /\ made = [p \in Preparations |-> 0]
  /\ booted = [p \in Preparations |-> FALSE]
  /\ real = [p \in Preparations |-> {}]
  /\ installed = [p \in Preparations |-> NoTree]
  /\ primary = [p \in Preparations |-> "none"]
  /\ left = [p \in Preparations |-> 0]
  /\ kept = [p \in Preparations |-> {}]
  /\ staging = [p \in Preparations |-> NoBundle]
  /\ target = NoBundle
  /\ removals = 0
  /\ result = [p \in Preparations |-> NoBundle]
-----------------------------------------------------------------------------
(* Control: a command that fails throws, and the finally block cleans up.  *)

Goes(p, next) == pc' = [pc EXCEPT ![p] = next] /\ UNCHANGED <<primary, left>>

\* Mutant of Fails: the cleanup leaves out the newest resource that was made.
FailsPastLast(p, code) ==
  /\ pc' = [pc EXCEPT ![p] = "cleanup"]
  /\ primary' = [primary EXCEPT ![p] = code]
  /\ left' = [left EXCEPT ![p] = IF made[p] = 0 THEN 0 ELSE made[p] - 1]

Fails(p, code) ==
  /\ pc' = [pc EXCEPT ![p] = "cleanup"]
  /\ primary' = [primary EXCEPT ![p] = code]
  /\ left' = [left EXCEPT ![p] = made[p]]

Bundles == <<staging, target, removals, result>>

\* docker image inspect, for both images.
Images(p) ==
  /\ pc[p] = "images"
  /\ Goes(p, "topology") \/ Fails(p, "IMAGE_UNAVAILABLE")
  /\ UNCHANGED <<made, booted, real, installed, kept, Bundles>>

\* Mutant of Subnet: every preparation has subnets of its own.
SubnetPerPreparation(p, r) == <<p, r>>

\* The subnets of both networks are fixed.
Subnet(p, r) == r

\* The daemon refuses a network that overlaps an existing one.
Refused(p, r) ==
  \E q \in Preparations \ {p} : \E n \in Networks \cap real[q] :
    r \in Networks /\ Subnet(q, n) = Subnet(p, r)

CreateFailure(r) ==
  CASE r = "proxy" -> "PROXY_STARTUP_FAILED"
    [] r = "preparer" -> "REGISTRY_INSTALL_FAILED"
    [] OTHER -> "NETWORK_CREATE_FAILED"

\* The next resource is created; when that fails it may exist all the same.
Create(p) ==
  LET r == Plan[made[p] + 1]
      existing == real[p] \cup {r}
  IN
  /\ pc[p] = "topology"
  /\ made[p] < Len(Plan)
  /\ r = "preparer" => booted[p]
  /\ \/ /\ ~Refused(p, r)
        /\ real' = [real EXCEPT ![p] = existing]
        /\ made' = [made EXCEPT ![p] = @ + 1]
        /\ Goes(p, "topology")
     \/ /\ \/ ~Refused(p, r) /\ real' = [real EXCEPT ![p] = existing]
           \/ UNCHANGED real
        /\ Fails(p, CreateFailure(r))
        /\ UNCHANGED made
  /\ UNCHANGED <<booted, installed, kept, Bundles>>

\* network connect, start and inspect of the proxy.
BootProxy(p) ==
  /\ pc[p] = "topology"
  /\ made[p] = Len(Plan) - 1 /\ ~booted[p]
  /\ \/ booted' = [booted EXCEPT ![p] = TRUE] /\ Goes(p, "topology")
     \/ /\ \E code \in {"PROXY_STARTUP_FAILED", "TOPOLOGY_MISMATCH"} : Fails(p, code)
        /\ UNCHANGED booted
  /\ UNCHANGED <<made, real, installed, kept, Bundles>>

\* inspect of the preparer, then start -a: the installation itself.
Install(p) ==
  /\ pc[p] = "topology"
  /\ made[p] = Len(Plan)
  /\ \/ Goes(p, "export")
     \/ \E code \in {"TOPOLOGY_MISMATCH", "REGISTRY_INSTALL_FAILED"} : Fails(p, code)
  /\ UNCHANGED <<made, booted, real, installed, kept, Bundles>>

\* docker cp of node_modules out of the preparer.
Export(p) ==
  /\ pc[p] = "export"
  /\ \/ /\ \E t \in Trees : installed' = [installed EXCEPT ![p] = t]
        /\ Goes(p, "look")
     \/ Fails(p, "BUNDLE_OUTPUT_MISSING") /\ UNCHANGED installed
  /\ UNCHANGED <<made, booted, real, kept, Bundles>>
-----------------------------------------------------------------------------
(* sealDependencyBundle, one access to the store at a time.                *)

Topology == <<made, booted, real, installed, kept>>

\* The export is verified and the key is looked up.
Look(p) ==
  /\ pc[p] = "look"
  /\ \/ Goes(p, IF target = NoBundle THEN "copy" ELSE "identify")
     \/ Fails(p, "BUNDLE_SEAL_FAILED")
  /\ UNCHANGED <<Topology, Bundles>>

\* An error removes the staging directory, unless that fails too.
SealFails(p) ==
  /\ Fails(p, "BUNDLE_SEAL_FAILED")
  /\ staging' = [staging EXCEPT ![p] = NoBundle] \/ UNCHANGED staging

Copy(p) ==
  /\ pc[p] = "copy"
  /\ \/ /\ staging' = [staging EXCEPT ![p] = [tree |-> installed[p], sealed |-> FALSE]]
        /\ Goes(p, "chmod")
     \/ SealFails(p)
  /\ UNCHANGED <<Topology, target, removals, result>>

Chmod(p) ==
  /\ pc[p] = "chmod"
  /\ \/ staging' = [staging EXCEPT ![p].sealed = TRUE] /\ Goes(p, "publish")
     \/ SealFails(p)
  /\ UNCHANGED <<Topology, target, removals, result>>

\* rename of the staging directory; it fails on an existing bundle.
Publish(p) ==
  /\ pc[p] = "publish"
  /\ \/ /\ target = NoBundle
        /\ target' = staging[p]
        /\ staging' = [staging EXCEPT ![p] = NoBundle]
        /\ Goes(p, "identify")
     \/ SealFails(p) /\ UNCHANGED target
  /\ UNCHANGED <<Topology, removals, result>>

\* Mutant of Provenance: it records what this preparation exported.
ProvenanceOfExport(p) == [tree |-> installed[p], sealed |-> TRUE]

\* The provenance records the tree that is in the store.
Provenance(p) == target

\* Nothing of prepare()'s work is left but the cleanup.
Identify(p) ==
  /\ pc[p] = "identify"
  /\ \/ /\ target # NoBundle
        /\ result' = [result EXCEPT ![p] = Provenance(p)]
        /\ pc' = [pc EXCEPT ![p] = "cleanup"]
        /\ left' = [left EXCEPT ![p] = made[p]]
        /\ UNCHANGED primary
     \/ Fails(p, "BUNDLE_SEAL_FAILED") /\ UNCHANGED result
  /\ UNCHANGED <<Topology, staging, target, removals>>

\* removeSealedDependencyBundle: the bundle is made writable, then removed.
Unseal ==
  /\ target # NoBundle /\ removals < MaxRemovals
  /\ target' = [target EXCEPT !.sealed = FALSE]
  /\ removals' = removals + 1
  /\ UNCHANGED <<pc, Topology, primary, left, staging, result>>
Removed ==
  /\ target # NoBundle /\ ~target.sealed
  /\ target' = NoBundle
  /\ UNCHANGED <<pc, Topology, primary, left, staging, removals, result>>
-----------------------------------------------------------------------------
(* The finally block.                                                      *)

\* A volume is not removed while a container uses it.
Removable(p, r) == r \in Volumes => "preparer" \notin real[p]

\* The resources that were made are removed in reverse order; a removal that
\* fails is recorded, and may have happened all the same.
CleanUp(p) ==
  LET r == Plan[left[p]]
      remaining == [real EXCEPT ![p] = @ \ {r}]
  IN
  /\ pc[p] = "cleanup" /\ left[p] > 0
  /\ \/ Removable(p, r) /\ real' = remaining /\ UNCHANGED kept
     \/ /\ Removable(p, r) => Cardinality(kept[p]) < MaxFaults
        /\ \/ Removable(p, r) /\ real' = remaining
           \/ UNCHANGED real
        /\ kept' = [kept EXCEPT ![p] = @ \cup {r}]
  /\ left' = [left EXCEPT ![p] = @ - 1]
  /\ UNCHANGED <<pc, made, booted, installed, primary, Bundles>>

\* prepare() returns, throws its primary failure, or DEPENDENCY_CLEANUP_FAILED.
Return(p) ==
  /\ pc[p] = "cleanup" /\ left[p] = 0
  /\ Goes(p, "done")
  /\ UNCHANGED <<Topology, Bundles>>

Prepare(p) ==
  \/ Images(p) \/ Create(p) \/ BootProxy(p) \/ Install(p) \/ Export(p)
  \/ Look(p) \/ Copy(p) \/ Chmod(p) \/ Publish(p) \/ Identify(p)
  \/ CleanUp(p) \/ Return(p)

Finished == (\A p \in Preparations : pc[p] = "done") /\ UNCHANGED vars

Next ==
  \/ \E p \in Preparations : Prepare(p)
  \/ Unseal \/ Removed
  \/ Finished

Spec == Init /\ [][Next]_vars
-----------------------------------------------------------------------------
(* Properties.                                                             *)

Returned(p) == pc[p] = "done" /\ primary[p] = "none" /\ kept[p] = {}

\* The one thing that can be kept without being reported is a resource whose
\* creation was reported as failed; a preparation that returns left nothing.
KeptIsReported ==
  \A p \in Preparations : pc[p] = "done" =>
    /\ \A r \in real[p] \ kept[p] :
         /\ primary[p] \in {"NETWORK_CREATE_FAILED", "PROXY_STARTUP_FAILED",
                            "REGISTRY_INSTALL_FAILED"}
         /\ made[p] < Len(Plan) /\ r = Plan[made[p] + 1]
    /\ Returned(p) => real[p] = {}

\* The fixed subnets exclude preparations from each other, so that the rename
\* of sealDependencyBundle never meets a bundle that was published since its
\* lookup: nothing in the store itself would keep two of them apart.
SealsAlone ==
  \A p, q \in Preparations :
    /\ pc[p] \in {"copy", "chmod", "publish"} => target = NoBundle
    /\ {pc[p], pc[q]} \subseteq {"look", "copy", "chmod", "publish", "identify"} => p = q

\* A key has one bundle: until maintenance removes it, every preparation that
\* returns records the same read-only tree, whatever its own installation was.
OneBundlePerKey ==
  \A p \in Preparations :
    Returned(p) /\ removals = 0 => result[p] = target /\ target.sealed

=============================================================================
