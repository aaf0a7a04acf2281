-------------------- MODULE DependencyPreparation_proofs --------------------
(***************************************************************************)
(* Proofs about DependencyPreparation, for every number of preparations,   *)
(* of installations' outcomes, of removals by maintenance and of faults.   *)
(***************************************************************************)
EXTENDS DependencyPreparation, TLAPS

AtStore == {"look", "copy", "chmod", "publish", "identify"}
Sealing == {"copy", "chmod", "publish"}
Working == {"images", "topology", "export"} \cup AtStore
Steps == Working \cup {"cleanup", "done"}
CreateFailures == {"NETWORK_CREATE_FAILED", "PROXY_STARTUP_FAILED", "REGISTRY_INSTALL_FAILED"}

\* The part of TypeOK that the proofs rest on, with what is in the store while
\* a bundle is being sealed.
Shape ==
  /\ pc \in [Preparations -> Steps]
  /\ made \in [Preparations -> 0 .. Len(Plan)]
  /\ left \in [Preparations -> 0 .. Len(Plan)]
  /\ real \in [Preparations -> SUBSET Resource]
  /\ kept \in [Preparations -> SUBSET Resource]
  /\ primary \in [Preparations -> Failures]

\* While a preparation works, the daemon has exactly what was made for it, and
\* nothing has failed.
HasWhatItMade ==
  \A p \in Preparations :
    /\ pc[p] \in Working =>
         real[p] = {Plan[i] : i \in 1 .. made[p]} /\ kept[p] = {} /\ primary[p] = "none"
    /\ pc[p] = "images" => made[p] = 0
    /\ pc[p] \in AtStore \cup {"export"} => made[p] = Len(Plan)

\* The daemon never has two networks on the same subnet.
Apart ==
  \A p, q \in Preparations : \A n \in Networks : n \in real[p] /\ n \in real[q] => p = q

\* What the cleanup has passed by is gone, kept, or was never known to exist.
Swept ==
  \A p \in Preparations : pc[p] \in {"cleanup", "done"} =>
    /\ pc[p] = "done" => left[p] = 0
    /\ \A r \in real[p] \ kept[p] :
         \/ \E i \in 1 .. left[p] : r = Plan[i]
         \/ primary[p] \in CreateFailures /\ made[p] < Len(Plan) /\ r = Plan[made[p] + 1]

\* Between its look and its rename nobody publishes the key.
Unpublished == \A p \in Preparations : pc[p] \in Sealing => target = NoBundle

PreparationInv == Shape /\ HasWhatItMade /\ Apart /\ Swept /\ Unpublished

LEMMA PlanFacts ==
  /\ Len(Plan) = 6 /\ Plan[1] = "internal" /\ "internal" \in Networks
  /\ \A i \in 1 .. 6 : Plan[i] \in Resource
  /\ \A i \in 1 .. 6 : Plan[i] \in Networks => i \in {1, 2}
BY DEF Plan, Resource, Networks

LEMMA FailureNames ==
  /\ CreateFailures \subseteq Failures /\ "none" \in Failures /\ "none" \notin CreateFailures
  /\ \A r \in Resource : CreateFailure(r) \in CreateFailures
BY DEF CreateFailures, Failures, CreateFailure

\* What follows for two preparations at the store.
LEMMA AloneAtStore ==
  ASSUME Shape, HasWhatItMade, Apart,
         NEW p \in Preparations, NEW q \in Preparations,
         pc[p] \in AtStore, pc[q] \in AtStore
  PROVE  p = q
<1>1. real[p] = {Plan[i] : i \in 1 .. made[p]} /\ made[p] = 6
  BY PlanFacts DEF HasWhatItMade, Working
<1>2. real[q] = {Plan[i] : i \in 1 .. made[q]} /\ made[q] = 6
  BY PlanFacts DEF HasWhatItMade, Working
<1>3. "internal" \in real[p] /\ "internal" \in real[q]
  BY <1>1, <1>2, PlanFacts
<1>4. QED
  BY <1>3, PlanFacts DEF Apart

\* The two ways a step of prepare() ends.
Moves(p) == \E next \in Working : Goes(p, next)
Throws(p) == \E code \in Failures : Fails(p, code)

LEMMA GoesShape ==
  ASSUME Shape, NEW p \in Preparations, Moves(p) \/ Throws(p)
  PROVE  /\ pc' \in [Preparations -> Steps] /\ left' \in [Preparations -> 0 .. Len(Plan)]
         /\ primary' \in [Preparations -> Failures]
         /\ \A q \in Preparations \ {p} :
              pc'[q] = pc[q] /\ left'[q] = left[q] /\ primary'[q] = primary[q]
<1>1. CASE Moves(p)
  BY <1>1 DEF Moves, Goes, Shape, Steps
<1>2. CASE Throws(p)
  BY <1>2 DEF Throws, Fails, Shape, Steps
<1>3. QED
  BY <1>1, <1>2

\* A step that neither creates nor removes anything, and its failure.
LEMMA QuietStep ==
  ASSUME Shape, HasWhatItMade, Apart, Swept, NEW p \in Preparations, pc[p] \in Working,
         Moves(p) \/ Throws(p), UNCHANGED <<made, real, kept>>,
         pc'[p] \in AtStore \cup {"export"} => made[p] = Len(Plan), pc'[p] # "images"
  PROVE  Shape' /\ HasWhatItMade' /\ Apart' /\ Swept'
<1>1. Shape'
  BY GoesShape DEF Shape
<1>2. Apart'
  BY DEF Apart
<1>3. CASE Moves(p)
  <2>1. PICK next \in Working : pc' = [pc EXCEPT ![p] = next] /\ UNCHANGED <<primary, left>>
    BY <1>3 DEF Moves, Goes
  <2>2. HasWhatItMade'
    BY <2>1 DEF HasWhatItMade, Shape
  <2>3. Swept'
    BY <2>1 DEF Swept, Shape, Working, AtStore
  <2>4. QED
    BY <1>1, <1>2, <2>2, <2>3
<1>4. CASE Throws(p)
  <2>1. /\ pc' = [pc EXCEPT ![p] = "cleanup"] /\ left' = [left EXCEPT ![p] = made[p]]
        /\ \A q \in Preparations \ {p} : primary'[q] = primary[q]
    BY <1>4, GoesShape DEF Throws, Fails
  <2>2. HasWhatItMade'
    BY <2>1 DEF HasWhatItMade, Shape, Working, AtStore
  <2>3. \A r \in real[p] : \E i \in 1 .. left'[p] : r = Plan[i]
    BY <2>1 DEF HasWhatItMade, Shape
  <2>4. Swept'
    BY <2>1, <2>3 DEF Swept, Shape
  <2>5. QED
    BY <1>1, <1>2, <2>2, <2>4
<1>5. QED
  BY <1>3, <1>4
-----------------------------------------------------------------------------
(* The steps of a preparation.                                             *)

LEMMA CreateStep ==
  ASSUME Shape, HasWhatItMade, Apart, Swept, NEW p \in Preparations, Create(p)
  PROVE  Shape' /\ HasWhatItMade' /\ Apart' /\ Swept'
<1> DEFINE r == Plan[made[p] + 1]
           existing == real[p] \cup {r}
<1>1. /\ pc[p] = "topology" /\ made[p] < 6 /\ made[p] \in Nat /\ UNCHANGED kept
      /\ real[p] = {Plan[i] : i \in 1 .. made[p]} /\ kept[p] = {} /\ primary[p] = "none"
      /\ r \in Resource
  BY PlanFacts DEF Create, Shape, HasWhatItMade, Working
<1>2. Moves(p) \/ Throws(p)
  <2>1. Goes(p, "topology") \/ Fails(p, CreateFailure(r))
    BY DEF Create
  <2>2. QED
    BY <1>1, <2>1, FailureNames DEF Moves, Throws, Working
<1>3. \/ real' = [real EXCEPT ![p] = existing] /\ ~Refused(p, r)
     \/ UNCHANGED real
  BY DEF Create
<1>4. real' \in [Preparations -> SUBSET Resource]
  <2>1. existing \in SUBSET Resource
    BY <1>1 DEF Shape
  <2>2. QED
    BY <2>1, <1>3 DEF Shape
<1>5. Apart'
  <2>1. CASE UNCHANGED real
    BY <2>1 DEF Apart
  <2>2. CASE real' = [real EXCEPT ![p] = existing] /\ ~Refused(p, r)
    <3>1. \A q \in Preparations \ {p} : r \in Networks => r \notin real[q]
      BY <2>2 DEF Refused, Subnet
    <3>2. \A q \in Preparations : real'[q] = IF q = p THEN existing ELSE real[q]
      BY <2>2 DEF Shape
    <3> HIDE DEF r
    <3>3. QED
      BY <3>1, <3>2 DEF Apart
  <2>3. QED
    BY <1>3, <2>1, <2>2
<1>6. CASE /\ made' = [made EXCEPT ![p] = @ + 1] /\ real' = [real EXCEPT ![p] = existing]
           /\ Goes(p, "topology")
  <2>1. made' \in [Preparations -> 0 .. Len(Plan)] /\ made'[p] = made[p] + 1
        /\ \A q \in Preparations \ {p} : made'[q] = made[q] /\ real'[q] = real[q] /\ pc'[q] = pc[q]
    BY <1>1, <1>6, PlanFacts DEF Shape, Goes
  <2>2. pc'[p] = "topology" /\ UNCHANGED <<primary, left>> /\ real'[p] = existing
    BY <1>6 DEF Goes, Shape
  <2>3. existing = {Plan[i] : i \in 1 .. made'[p]}
    <3>1. \A i \in 1 .. made[p] + 1 : i \in 1 .. made[p] \/ i = made[p] + 1
      BY <1>1
    <3>2. 1 .. made[p] \subseteq 1 .. made[p] + 1 /\ made[p] + 1 \in 1 .. made[p] + 1
      BY <1>1
    <3>3. QED
      BY <1>1, <2>1, <3>1, <3>2
  <2>4. HasWhatItMade'
    BY <1>1, <2>1, <2>2, <2>3 DEF HasWhatItMade, Working, AtStore
  <2>5. Swept'
    BY <1>1, <2>1, <2>2 DEF Swept
  <2>6. Shape'
    BY <1>1, <1>2, <1>4, <2>1, GoesShape DEF Shape
  <2>7. QED
    BY <1>5, <2>4, <2>5, <2>6
<1>7. CASE Fails(p, CreateFailure(r)) /\ UNCHANGED made
  <2>1. /\ pc' = [pc EXCEPT ![p] = "cleanup"] /\ left' = [left EXCEPT ![p] = made[p]]
        /\ primary' = [primary EXCEPT ![p] = CreateFailure(r)]
    BY <1>7 DEF Fails
  <2>2. pc'[p] = "cleanup" /\ left'[p] = made[p] /\ primary'[p] \in CreateFailures
    BY <1>1, <2>1, FailureNames DEF Shape
  <2>3. \A q \in Preparations \ {p} : pc'[q] = pc[q] /\ left'[q] = left[q] /\ primary'[q] = primary[q]
                                      /\ real'[q] = real[q]
    BY <1>3, <2>1 DEF Shape
  <2>4. HasWhatItMade'
    BY <1>1, <1>7, <2>2, <2>3 DEF HasWhatItMade, Working, AtStore
  <2>5. \A x \in real'[p] : x = r \/ \E i \in 1 .. left'[p] : x = Plan[i]
    BY <1>1, <1>3, <2>2 DEF Shape
  <2>6. Swept'
    BY <1>1, <1>7, <2>2, <2>3, <2>5, PlanFacts DEF Swept
  <2>7. Shape'
    BY <1>1, <1>2, <1>4, <1>7, GoesShape DEF Shape
  <2>8. QED
    BY <1>5, <2>4, <2>6, <2>7
<1>8. QED
  BY <1>6, <1>7 DEF Create

\* The steps between a preparation's first and last that leave the daemon alone.
Quiet(p) ==
  Images(p) \/ BootProxy(p) \/ Install(p) \/ Export(p)
  \/ Look(p) \/ Copy(p) \/ Chmod(p) \/ Publish(p) \/ Identify(p)

LEMMA QuietEffect ==
  ASSUME Shape, HasWhatItMade, Apart, Swept, NEW p \in Preparations, Quiet(p)
  PROVE  Shape' /\ HasWhatItMade' /\ Apart' /\ Swept'
<1>1. pc[p] \in Working /\ UNCHANGED <<made, real, kept>>
  BY DEF Quiet, Images, BootProxy, Install, Export, Look, Copy, Chmod, Publish, Identify,
         Working, AtStore, Topology
<1>2. Moves(p) \/ Throws(p)
  <2>1. CASE Images(p)
    BY <2>1 DEF Images, Moves, Throws, Working, Failures
  <2>2. CASE BootProxy(p)
    BY <2>2 DEF BootProxy, Moves, Throws, Working, Failures
  <2>3. CASE Install(p)
    BY <2>3 DEF Install, Moves, Throws, Working, Failures
  <2>4. CASE Export(p)
    BY <2>4 DEF Export, Moves, Throws, Working, AtStore, Failures
  <2>5. CASE Look(p) \/ Copy(p) \/ Chmod(p) \/ Publish(p)
    BY <2>5 DEF Look, Copy, Chmod, Publish, SealFails, Moves, Throws, Working, AtStore, Failures
  <2>6. CASE Identify(p)
    <3>1. CASE Fails(p, "BUNDLE_SEAL_FAILED")
      BY <3>1 DEF Throws, Failures
    <3>2. CASE pc' = [pc EXCEPT ![p] = "cleanup"] /\ left' = [left EXCEPT ![p] = made[p]]
               /\ UNCHANGED primary
      <4>1. primary[p] = "none"
        BY <1>1 DEF HasWhatItMade
      <4>2. primary' = [primary EXCEPT ![p] = "none"]
        BY <3>2, <4>1 DEF Shape
      <4>3. QED
        BY <3>2, <4>2, FailureNames DEF Throws, Fails
    <3>3. QED
      BY <2>6, <3>1, <3>2 DEF Identify
  <2>7. QED
    BY <2>1, <2>2, <2>3, <2>4, <2>5, <2>6 DEF Quiet
<1>3. pc'[p] # "images" /\ (pc'[p] \in AtStore \cup {"export"} => made[p] = Len(Plan))
  <2>1. CASE Images(p) \/ BootProxy(p)
    BY <2>1 DEF Images, BootProxy, Goes, Fails, Shape, AtStore
  <2>2. CASE Install(p)
    BY <2>2 DEF Install, Goes, Fails, Shape, AtStore
  <2>3. CASE Export(p) \/ Look(p) \/ Copy(p) \/ Chmod(p) \/ Publish(p) \/ Identify(p)
    <3>1. made[p] = Len(Plan)
      BY <2>3 DEF HasWhatItMade, Export, Look, Copy, Chmod, Publish, Identify, AtStore
    <3>2. pc'[p] # "images"
      BY <2>3 DEF Export, Look, Copy, Chmod, Publish, Identify, SealFails, Goes, Fails, Shape
    <3>3. QED
      BY <3>1, <3>2
  <2>4. QED
    BY <2>1, <2>2, <2>3 DEF Quiet
<1>4. QED
  BY <1>1, <1>2, <1>3, QuietStep

\* The cleanup visits one resource after the other, the newest first.
LEMMA CleanUpStep ==
  ASSUME Shape, HasWhatItMade, Apart, Swept, NEW p \in Preparations, CleanUp(p)
  PROVE  Shape' /\ HasWhatItMade' /\ Apart' /\ Swept'
<1> DEFINE r == Plan[left[p]]
<1>1. /\ pc[p] = "cleanup" /\ left[p] \in 1 .. 6 /\ left' = [left EXCEPT ![p] = left[p] - 1]
      /\ UNCHANGED <<pc, made, primary>> /\ r \in Resource
  BY PlanFacts DEF CleanUp, Shape
<1>2. /\ UNCHANGED real \/ real' = [real EXCEPT ![p] = @ \ {r}]
      /\ UNCHANGED kept \/ kept' = [kept EXCEPT ![p] = @ \cup {r}]
      /\ real' = [real EXCEPT ![p] = @ \ {r}] \/ kept' = [kept EXCEPT ![p] = @ \cup {r}]
  BY DEF CleanUp
<1> HIDE DEF r
<1>3. left' \in [Preparations -> 0 .. Len(Plan)] /\ left'[p] = left[p] - 1
      /\ \A q \in Preparations \ {p} : left'[q] = left[q]
  BY <1>1, PlanFacts DEF Shape
<1>4. /\ real' \in [Preparations -> SUBSET Resource] /\ kept' \in [Preparations -> SUBSET Resource]
      /\ \A q \in Preparations : real'[q] \subseteq real[q]
      /\ \A q \in Preparations \ {p} : real'[q] = real[q] /\ kept'[q] = kept[q]
      /\ real'[p] \ kept'[p] \subseteq (real[p] \ kept[p]) \ {r}
  <2>1. real' \in [Preparations -> SUBSET Resource] /\ kept' \in [Preparations -> SUBSET Resource]
    BY <1>1, <1>2 DEF Shape
  <2>2. \A q \in Preparations : real'[q] \subseteq real[q]
    BY <1>2 DEF Shape
  <2>3. \A q \in Preparations \ {p} : real'[q] = real[q] /\ kept'[q] = kept[q]
    BY <1>2 DEF Shape
  <2>4. real'[p] \ kept'[p] \subseteq (real[p] \ kept[p]) \ {r}
    BY <1>2 DEF Shape
  <2>5. QED
    BY <2>1, <2>2, <2>3, <2>4
<1>5. Shape' /\ Apart'
  BY <1>1, <1>3, <1>4 DEF Shape, Apart
<1>6. HasWhatItMade'
  BY <1>1, <1>4 DEF HasWhatItMade, Working, AtStore
<1>7. \A x \in real'[p] \ kept'[p] :
        \/ \E i \in 1 .. left'[p] : x = Plan[i]
        \/ primary[p] \in CreateFailures /\ made[p] < Len(Plan) /\ x = Plan[made[p] + 1]
  <2>1. TAKE x \in real'[p] \ kept'[p]
  <2>2. x \in real[p] \ kept[p] /\ x # r
    BY <1>4
  <2>3. ASSUME NEW i \in 1 .. left[p], x = Plan[i] PROVE i \in 1 .. left'[p]
    BY <1>1, <1>3, <2>2, <2>3 DEF r
  <2>4. QED
    BY <1>1, <2>2, <2>3 DEF Swept
<1>8. Swept'
  BY <1>1, <1>3, <1>4, <1>7 DEF Swept
<1>9. QED
  BY <1>5, <1>6, <1>8

LEMMA ReturnStep ==
  ASSUME Shape, HasWhatItMade, Apart, Swept, NEW p \in Preparations, Return(p)
  PROVE  Shape' /\ HasWhatItMade' /\ Apart' /\ Swept'
<1>1. /\ pc[p] = "cleanup" /\ left[p] = 0 /\ pc' = [pc EXCEPT ![p] = "done"]
      /\ UNCHANGED <<made, real, kept, primary, left>>
  BY DEF Return, Goes, Topology
<1>2. \A q \in Preparations : pc'[q] = IF q = p THEN "done" ELSE pc[q]
  BY <1>1 DEF Shape
<1>3. Shape' /\ Apart'
  BY <1>1 DEF Shape, Steps, Apart
<1>4. HasWhatItMade'
  BY <1>1, <1>2 DEF HasWhatItMade, Working, AtStore
<1>5. Swept'
  BY <1>1, <1>2 DEF Swept
<1>6. QED
  BY <1>3, <1>4, <1>5

LEMMA UnpublishedStep ==
  ASSUME Shape, HasWhatItMade, Apart, Unpublished, Next
  PROVE  Unpublished'
<1>1. CASE UNCHANGED pc /\ (target = NoBundle => target' = NoBundle)
  BY <1>1 DEF Unpublished
<1>2. CASE Unseal \/ Removed \/ Finished
  BY <1>1, <1>2 DEF Unseal, Removed, Finished, vars
<1>3. ASSUME NEW p \in Preparations, Prepare(p) PROVE Unpublished'
  <2>1. CASE Publish(p)
    <3>1. /\ pc[p] = "publish" /\ \E next \in {"identify", "cleanup"} : pc' = [pc EXCEPT ![p] = next]
      BY <2>1 DEF Publish, Goes, SealFails, Fails
    <3>2. \A q \in Preparations : pc'[q] \in Sealing => q # p /\ pc[q] \in Sealing
      BY <3>1 DEF Shape, Sealing
    <3>3. \A q \in Preparations : pc'[q] \notin Sealing
      BY <3>1, <3>2, AloneAtStore DEF Sealing, AtStore
    <3>4. QED
      BY <3>3 DEF Unpublished
  <2>2. CASE Look(p)
    <3>1. UNCHANGED target /\ \E next \in {"copy", "identify", "cleanup"} :
            pc' = [pc EXCEPT ![p] = next] /\ (next = "copy" => target = NoBundle)
      BY <2>2 DEF Look, Goes, Fails, Bundles
    <3>2. QED
      BY <3>1 DEF Unpublished, Shape, Sealing
  <2>3. CASE Copy(p) \/ Chmod(p)
    <3>1. UNCHANGED target /\ pc[p] \in Sealing /\ \E next \in Steps : pc' = [pc EXCEPT ![p] = next]
      BY <2>3 DEF Copy, Chmod, SealFails, Goes, Fails, Sealing, Steps, Working, AtStore
    <3>2. QED
      BY <3>1 DEF Unpublished, Shape
  <2>4. CASE Images(p) \/ Create(p) \/ BootProxy(p) \/ Install(p) \/ Export(p) \/ Identify(p)
             \/ CleanUp(p) \/ Return(p)
    <3>1. UNCHANGED target /\ \/ UNCHANGED pc
                              \/ \E next \in Steps \ Sealing : pc' = [pc EXCEPT ![p] = next]
      BY <2>4 DEF Images, Create, BootProxy, Install, Export, Identify, CleanUp, Return, Goes,
                  Fails, Bundles, Sealing, Steps, Working, AtStore
    <3>2. QED
      BY <3>1 DEF Unpublished, Shape
  <2>5. QED
    BY <1>3, <2>1, <2>2, <2>3, <2>4 DEF Prepare
<1>4. QED
  BY <1>2, <1>3 DEF Next
-----------------------------------------------------------------------------
(* The store.                                                              *)

Content == [tree : Trees \cup {NoTree}, sealed : BOOLEAN]

StoreShape ==
  /\ installed \in [Preparations -> Trees \cup {NoTree}]
  /\ staging \in [Preparations -> Content]
  /\ result = [p \in Preparations |-> result[p]]
  /\ removals \in Nat

\* What is published is sealed, until maintenance comes; and what a preparation
\* recorded before that is still there.
Recorded ==
  /\ removals = 0 /\ target # NoBundle => target.sealed
  /\ \A p \in Preparations :
       /\ pc[p] = "publish" => staging[p].sealed
       /\ pc[p] \in {"cleanup", "done"} /\ primary[p] = "none" /\ removals = 0 =>
            result[p] = target /\ target # NoBundle

WithSeal(b, sealed) == [b EXCEPT !.sealed = sealed]

LEMMA WithSealEffect ==
  ASSUME NEW b \in Content, NEW sealed \in BOOLEAN
  PROVE  WithSeal(b, sealed) \in Content /\ WithSeal(b, sealed).sealed = sealed
BY DEF WithSeal, Content

\* Some step of p, and what it may do to the store.
LEMMA OtherSteps ==
  ASSUME Shape, StoreShape, HasWhatItMade, Recorded, NEW p \in Preparations,
         UNCHANGED <<target, removals, result, staging>>,
         \/ UNCHANGED <<pc, primary>>
         \/ Moves(p) /\ pc'[p] # "publish"
         \/ \E code \in Failures \ {"none"} : Fails(p, code)
         \/ Goes(p, "done") /\ pc[p] = "cleanup"
  PROVE  Recorded'
<1>1. CASE UNCHANGED <<pc, primary>>
  BY <1>1 DEF Recorded
<1>2. CASE Moves(p) /\ pc'[p] # "publish"
  BY <1>2 DEF Moves, Goes, Shape, Recorded, Working, AtStore
<1>3. CASE \E code \in Failures \ {"none"} : Fails(p, code)
  BY <1>3 DEF Fails, Shape, Recorded
<1>4. CASE Goes(p, "done") /\ pc[p] = "cleanup"
  BY <1>4 DEF Goes, Shape, Recorded
<1>5. QED
  BY <1>1, <1>2, <1>3, <1>4

LEMMA SealFailsEffect ==
  ASSUME Shape, StoreShape, Recorded, NEW p \in Preparations, pc[p] \in Sealing, SealFails(p),
         UNCHANGED <<target, removals, result>>
  PROVE  Recorded' /\ staging' \in [Preparations -> Content]
<1>1. NoBundle \in Content
  BY Zenon DEF NoBundle, Content
<1>2. staging' \in [Preparations -> Content] /\ \A q \in Preparations \ {p} : staging'[q] = staging[q]
  BY <1>1 DEF SealFails, StoreShape
<1>3. /\ pc' = [pc EXCEPT ![p] = "cleanup"]
      /\ primary' = [primary EXCEPT ![p] = "BUNDLE_SEAL_FAILED"]
  BY DEF SealFails, Fails
<1>4. \A q \in Preparations :
        /\ pc'[q] = "publish" => q # p /\ pc[q] = "publish"
        /\ pc'[q] \in {"cleanup", "done"} /\ primary'[q] = "none" =>
             pc[q] \in {"cleanup", "done"} /\ primary[q] = "none"
  BY <1>3 DEF Shape
<1>5. QED
  BY <1>2, <1>4 DEF Recorded

LEMMA StoreStep ==
  ASSUME Shape, StoreShape, HasWhatItMade, Apart, Unpublished, Recorded, Next
  PROVE  StoreShape' /\ Recorded'
<1>1. CASE Finished
  BY <1>1 DEF Finished, vars, StoreShape, Recorded
<1>2. CASE Unseal
  <2>1. removals' = removals + 1 /\ UNCHANGED <<pc, primary, staging, installed, result>>
    BY <1>2 DEF Unseal, Topology
  <2>2. removals' \in Nat /\ removals' # 0
    BY <2>1 DEF StoreShape
  <2>3. QED
    BY <2>1, <2>2 DEF StoreShape, Recorded
<1>3. CASE Removed
  <2>1. UNCHANGED <<pc, primary, staging, removals, installed, result>> /\ target # NoBundle /\ ~target.sealed
    BY <1>3 DEF Removed, Topology
  <2>2. removals # 0
    BY <2>1 DEF Recorded
  <2>3. QED
    BY <2>1, <2>2 DEF StoreShape, Recorded
<1>4. ASSUME NEW p \in Preparations, Prepare(p) PROVE StoreShape' /\ Recorded'
  <2>1. CASE Copy(p)
    <3>1. installed' = installed /\ UNCHANGED <<target, removals, result>> /\ pc[p] \in Sealing
      BY <2>1 DEF Copy, Topology, Sealing
    <3>2. CASE SealFails(p)
      BY <3>1, <3>2, SealFailsEffect DEF StoreShape
    <3>3. CASE staging' = [staging EXCEPT ![p] = [tree |-> installed[p], sealed |-> FALSE]]
               /\ Goes(p, "chmod")
      <4>1. [tree |-> installed[p], sealed |-> FALSE] \in Content
        <5>1. installed[p] \in Trees \cup {NoTree}
          BY DEF StoreShape
        <5>2. QED
          BY <5>1, Zenon DEF Content
      <4>2. staging' \in [Preparations -> Content] /\ \A q \in Preparations \ {p} : staging'[q] = staging[q]
        BY <3>3, <4>1 DEF StoreShape
      <4>3. \A q \in Preparations :
              /\ pc'[q] = "publish" => q # p /\ pc[q] = "publish"
              /\ pc'[q] \in {"cleanup", "done"} => pc[q] \in {"cleanup", "done"}
        BY <3>3 DEF Goes, Shape
      <4>4. Recorded'
        BY <3>1, <3>3, <4>2, <4>3 DEF Goes, Recorded
      <4>5. QED
        BY <3>1, <4>2, <4>4 DEF StoreShape
    <3>4. QED
      BY <2>1, <3>2, <3>3 DEF Copy
  <2>2. CASE Chmod(p)
    <3>1. installed' = installed /\ UNCHANGED <<target, removals, result>> /\ pc[p] \in Sealing
      BY <2>2 DEF Chmod, Topology, Sealing
    <3>2. CASE SealFails(p)
      BY <3>1, <3>2, SealFailsEffect DEF StoreShape
    <3>3. CASE staging' = [staging EXCEPT ![p].sealed = TRUE] /\ Goes(p, "publish")
      <4> DEFINE b == WithSeal(staging[p], TRUE)
      <4>1. staging' = [staging EXCEPT ![p] = b]
        BY <3>3 DEF WithSeal
      <4>2. staging[p] \in Content /\ TRUE \in BOOLEAN
        BY DEF StoreShape
      <4>3. b \in Content /\ b.sealed
        BY <4>2, WithSealEffect, Zenon
      <4> HIDE DEF b
      <4>4. staging' \in [Preparations -> Content] /\ staging'[p].sealed
            /\ \A q \in Preparations \ {p} : staging'[q] = staging[q]
        BY <4>1, <4>3 DEF StoreShape
      <4>5. \A q \in Preparations :
              /\ pc'[q] = "publish" => q = p \/ pc[q] = "publish"
              /\ pc'[q] \in {"cleanup", "done"} => pc[q] \in {"cleanup", "done"}
        BY <3>3 DEF Goes, Shape
      <4>6. Recorded'
        BY <3>1, <3>3, <4>4, <4>5 DEF Goes, Recorded
      <4>7. QED
        BY <3>1, <4>4, <4>6 DEF StoreShape
    <3>4. QED
      BY <2>2, <3>2, <3>3 DEF Chmod
  <2>3. CASE Publish(p)
    <3>1. installed' = installed /\ UNCHANGED <<removals, result>> /\ pc[p] = "publish"
      BY <2>3 DEF Publish, Topology
    <3>2. CASE SealFails(p) /\ UNCHANGED target
      BY <3>1, <3>2, SealFailsEffect DEF StoreShape, Sealing
    <3>3. CASE /\ target = NoBundle /\ target' = staging[p]
               /\ staging' = [staging EXCEPT ![p] = NoBundle] /\ Goes(p, "identify")
      <4>1. staging[p].sealed /\ ~NoBundle.sealed /\ NoBundle \in Content
        BY <3>1, Zenon DEF Recorded, NoBundle, Content
      <4>2. staging' \in [Preparations -> Content] /\ \A q \in Preparations \ {p} : staging'[q] = staging[q]
        BY <3>3, <4>1 DEF StoreShape
      <4>3. \A q \in Preparations :
              /\ pc'[q] = "publish" => q # p /\ pc[q] = "publish"
              /\ pc'[q] \in {"cleanup", "done"} => pc[q] \in {"cleanup", "done"}
        BY <3>3 DEF Goes, Shape
      <4>4. \A q \in Preparations :
              ~(pc[q] \in {"cleanup", "done"} /\ primary[q] = "none" /\ removals = 0)
        BY <3>3 DEF Recorded
      <4>5. Recorded'
        BY <3>1, <3>3, <4>1, <4>2, <4>3, <4>4 DEF Goes, Recorded
      <4>6. QED
        BY <3>1, <4>2, <4>5 DEF StoreShape
    <3>4. QED
      BY <2>3, <3>2, <3>3 DEF Publish
  <2>4. CASE Identify(p)
    <3>1. UNCHANGED <<installed, staging, target, removals>> /\ pc[p] = "identify"
      BY <2>4 DEF Identify, Topology
    <3>3. CASE Fails(p, "BUNDLE_SEAL_FAILED") /\ UNCHANGED result
      BY <3>1, <3>3, OtherSteps DEF Failures, StoreShape
    <3>4. CASE /\ target # NoBundle /\ result' = [result EXCEPT ![p] = target]
               /\ pc' = [pc EXCEPT ![p] = "cleanup"] /\ UNCHANGED primary
      <4>1. \A q \in Preparations : result'[q] = IF q = p THEN target ELSE result[q]
        BY <3>4 DEF StoreShape
      <4>2. result' = [q \in Preparations |-> result'[q]]
        BY <3>4 DEF StoreShape
      <4>3. \A q \in Preparations : pc'[q] = IF q = p THEN "cleanup" ELSE pc[q]
        BY <3>4 DEF Shape
      <4>4. Recorded'
        BY <3>1, <3>4, <4>1, <4>3 DEF Recorded
      <4>5. QED
        BY <3>1, <4>2, <4>4 DEF StoreShape
    <3>5. QED
      BY <2>4, <3>3, <3>4 DEF Identify, Provenance
  <2>5. CASE Export(p)
    <3>1. installed' \in [Preparations -> Trees \cup {NoTree}] /\ UNCHANGED <<target, removals, result, staging>>
      BY <2>5 DEF Export, StoreShape, Bundles
    <3>2. Goes(p, "look") \/ Fails(p, "BUNDLE_OUTPUT_MISSING")
      BY <2>5 DEF Export
    <3>3. \/ Moves(p) /\ pc'[p] # "publish"
          \/ \E code \in Failures \ {"none"} : Fails(p, code)
      BY <3>2 DEF Moves, Goes, Working, AtStore, Failures, Shape
    <3>4. QED
      BY <3>1, <3>3, OtherSteps DEF StoreShape
  <2>6. CASE Images(p) \/ Create(p) \/ BootProxy(p) \/ Install(p) \/ Look(p)
    <3>1. UNCHANGED <<target, removals, result, staging, installed>>
      BY <2>6 DEF Images, Create, BootProxy, Install, Look, Bundles, Topology
    <3>2. CASE \E next \in Working \ {"publish"} : Goes(p, next)
      <4>1. Moves(p) /\ pc'[p] # "publish"
        BY <3>2 DEF Moves, Goes, Shape
      <4>2. QED
        BY <3>1, <4>1, OtherSteps DEF StoreShape
    <3>3. CASE \E code \in Failures \ {"none"} : Fails(p, code)
      BY <3>1, <3>3, OtherSteps DEF StoreShape
    <3>4. CASE Create(p)
      <4>1. \A r : CreateFailure(r) \in Failures \ {"none"}
        BY DEF CreateFailure, Failures
      <4>2. QED
        BY <3>2, <3>3, <3>4, <4>1 DEF Create, Working
    <3>5. CASE Images(p) \/ BootProxy(p) \/ Install(p) \/ Look(p)
      BY <3>2, <3>3, <3>5 DEF Images, BootProxy, Install, Look, Working, AtStore, Failures
    <3>6. QED
      BY <2>6, <3>4, <3>5
  <2>7. CASE CleanUp(p) \/ Return(p)
    <3>1. UNCHANGED <<target, removals, result, staging, installed>>
      BY <2>7 DEF CleanUp, Return, Bundles, Topology
    <3>2. UNCHANGED <<pc, primary>> \/ (Goes(p, "done") /\ pc[p] = "cleanup")
      BY <2>7 DEF CleanUp, Return
    <3>3. QED
      BY <3>1, <3>2, OtherSteps DEF StoreShape
  <2>8. QED
    BY <1>4, <2>1, <2>2, <2>3, <2>4, <2>5, <2>6, <2>7 DEF Prepare
<1>5. QED
  BY <1>1, <1>2, <1>3, <1>4 DEF Next
-----------------------------------------------------------------------------
(* The theorems.                                                           *)

FullInv == PreparationInv /\ StoreShape /\ Recorded

LEMMA PreparationInit ==
  Init => FullInv
<1> SUFFICES ASSUME Init PROVE FullInv
  OBVIOUS
<1>1. Shape
  BY PlanFacts, FailureNames DEF Init, Shape, Steps, Working
<1>2. HasWhatItMade
  BY PlanFacts DEF Init, HasWhatItMade, AtStore
<1>3. Apart /\ Swept /\ Unpublished
  BY DEF Init, Apart, Swept, Unpublished, Sealing
<1>4. StoreShape
  <2>1. NoBundle \in Content
    BY Zenon DEF NoBundle, Content
  <2>2. QED
    BY <2>1 DEF Init, StoreShape
<1>5. Recorded
  BY DEF Init, Recorded
<1>6. QED
  BY <1>1, <1>2, <1>3, <1>4, <1>5 DEF FullInv, PreparationInv

LEMMA PreparationStep ==
  FullInv /\ [Next]_vars => FullInv'
<1> SUFFICES ASSUME FullInv, [Next]_vars PROVE FullInv'
  OBVIOUS
<1> USE DEF FullInv, PreparationInv
<1>1. CASE Next
  <2>1. Shape' /\ HasWhatItMade' /\ Apart' /\ Swept'
    <3>1. ASSUME NEW p \in Preparations, Prepare(p)
          PROVE  Shape' /\ HasWhatItMade' /\ Apart' /\ Swept'
      BY <3>1, CreateStep, QuietEffect, CleanUpStep, ReturnStep DEF Prepare, Quiet
    <3>2. CASE Unseal \/ Removed \/ Finished
      BY <3>2 DEF Unseal, Removed, Finished, vars, Topology, Shape, HasWhatItMade, Apart, Swept
    <3>3. QED
      BY <1>1, <3>1, <3>2 DEF Next
  <2>2. Unpublished'
    BY <1>1, UnpublishedStep
  <2>3. StoreShape' /\ Recorded'
    BY <1>1, StoreStep
  <2>4. QED
    BY <2>1, <2>2, <2>3
<1>2. CASE UNCHANGED vars
  BY <1>2 DEF vars, Shape, HasWhatItMade, Apart, Swept, Unpublished, StoreShape, Recorded
<1>3. QED
  BY <1>1, <1>2

LEMMA PreparationInvHolds ==
  Spec => []FullInv
BY PreparationInit, PreparationStep, PTL DEF Spec

\* Whatever fails, and however often, a preparation that is over has reported every
\* resource it leaves behind, but for the one whose creation failed.
THEOREM LeftoversAreReported ==
  Spec => []KeptIsReported
<1>1. FullInv => KeptIsReported
  <2> SUFFICES ASSUME FullInv, NEW p \in Preparations, pc[p] = "done"
               PROVE  /\ \A r \in real[p] \ kept[p] :
                           /\ primary[p] \in CreateFailures
                           /\ made[p] < Len(Plan) /\ r = Plan[made[p] + 1]
                      /\ Returned(p) => real[p] = {}
    BY DEF KeptIsReported, CreateFailures
  <2>1. \A r \in real[p] \ kept[p] :
          primary[p] \in CreateFailures /\ made[p] < Len(Plan) /\ r = Plan[made[p] + 1]
    BY DEF FullInv, PreparationInv, Swept
  <2>2. Returned(p) => real[p] = {}
    BY <2>1, FailureNames DEF Returned
  <2>3. QED
    BY <2>1, <2>2
<1>2. QED
  BY <1>1, PreparationInvHolds, PTL

\* However many preparations run on one daemon, one at a time is at the store, and
\* its rename never meets a bundle that is already there.
THEOREM OneAtTheStore ==
  Spec => []SealsAlone
<1>1. FullInv => SealsAlone
  BY AloneAtStore DEF FullInv, PreparationInv, Unpublished, SealsAlone, Sealing, AtStore
<1>2. QED
  BY <1>1, PreparationInvHolds, PTL

\* Until maintenance removes it, a key has one sealed bundle, which is what every
\* preparation that returned has recorded.
THEOREM OneBundle ==
  Spec => []OneBundlePerKey
<1>1. FullInv => OneBundlePerKey
  BY DEF FullInv, Recorded, OneBundlePerKey, Returned
<1>2. QED
  BY <1>1, PreparationInvHolds, PTL
=============================================================================
