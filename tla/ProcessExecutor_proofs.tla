----------------------- MODULE ProcessExecutor_proofs -----------------------
(***************************************************************************)
(* Proofs about ProcessExecutor, for every supervision policy, grace and   *)
(* set of telemetry scopes.                                                *)
(***************************************************************************)
EXTENDS ProcessExecutor, TLAPS

Limits == Exhaustion \cup {"NO_PROGRESS"}

\* Code and stop evidence of a verdict tell one story; a stop without a code is a limit's.
Paired(v) ==
  /\ v.termination = "none" => v.stopped \in Limits \cup {"none"}
  /\ v.termination = "NO_PROGRESS" => v.stopped = "NO_PROGRESS"
  /\ v.termination = "RESOURCE_EXHAUSTED" =>
       v.stopped \in Exhaustion \/ (v.stopped = "NO_PROGRESS" /\ leader = "none")
  /\ v.termination = "EXECUTOR_WALL_TIME_EXHAUSTED" =>
       (TimeoutOption /\ v.stopped = "wallTimeMs") \/ providerStop
  /\ v.stopped = "CALLER_CANCELLED" => v.termination = "EXECUTOR_CANCELLED"

\* w says no other first cause than v.
Keeps(v, w) ==
  /\ v.stopped # "none" => w.stopped = v.stopped
  /\ v.termination # "none" => w.termination = v.termination

WithinLimits ==
  ~Reached(ItemLimit, Cardinality(items)) /\ ~Reached(CommandLimit, Cardinality(commands))

\* The provider's own wall-time verdict comes with its evidence.
Told ==
  /\ providerCode \in {"none", "EXECUTOR_CANCELLED", "EXECUTOR_WALL_TIME_EXHAUSTED",
                       "INVALID_RESOURCE_EVIDENCE"}
  /\ providerCode = "EXECUTOR_WALL_TIME_EXHAUSTED" => providerStop

VerdictInv ==
  /\ Paired(Verdict)
  /\ phase \in {"start", "admitted"} =>
       stopped = "none" /\ termination = "none" /\ leader = "none"
  /\ phase = "running" => leader # "none"
  /\ phase \in {"admitted", "running", "closed"} /\ stopped = "none" => WithinLimits
  /\ Told
  /\ VerdictIsRight

LEMMA VerdictFields ==
  Verdict.stopped = stopped /\ Verdict.termination = termination
BY DEF Verdict

\* The limits are looked at one by one, so none was reached when none is found.
LEMMA OverrunFindsLimits ==
  ASSUME NEW i, NEW c, NEW p
  PROVE  /\ Overrun(i, c, p) \in Limits \cup {"none"}
         /\ Overrun(i, c, p) = "none" =>
              ~Reached(ItemLimit, Cardinality(i)) /\ ~Reached(CommandLimit, Cardinality(c))
BY DEF Overrun, Limits, Exhaustion

LEMMA CodeOfLimits ==
  ASSUME NEW kind \in Limits
  PROVE  /\ CodeOf(kind) # "none" /\ CodeOf(kind) # "EXECUTOR_CANCELLED"
         /\ CodeOf(kind) = "NO_PROGRESS" => kind = "NO_PROGRESS"
         /\ CodeOf(kind) = "RESOURCE_EXHAUSTED" => kind \in Exhaustion
         /\ CodeOf(kind) = "EXECUTOR_WALL_TIME_EXHAUSTED" => TimeoutOption /\ kind = "wallTimeMs"
BY DEF CodeOf, Limits, Exhaustion

LEMMA LimitNames ==
  /\ "none" \notin Limits /\ "CALLER_CANCELLED" \notin Limits
  /\ "PROCESS_PROTOCOL_FAILURE" \notin Limits
  /\ Exhaustion \subseteq Limits /\ "NO_PROGRESS" \notin Exhaustion
BY DEF Limits, Exhaustion

\* stop() for a limit that was found.
LEMMA StopAtLimit ==
  ASSUME NEW v, Paired(v)
  PROVE  LET w == StopIfOverrun(v) IN Paired(w) /\ Keeps(v, w) /\ w.stopped = v.stopped
<1>1. CASE v.stopped = "none" \/ v.termination # "none"
  BY <1>1 DEF StopIfOverrun, Stop, Keeps
<1>2. CASE v.stopped # "none" /\ v.termination = "none"
  <2> DEFINE w == StopIfOverrun(v)
  <2>1. v.stopped \in Limits
    BY <1>2 DEF Paired
  <2>2. w.stopped = v.stopped /\ w.termination = CodeOf(v.stopped)
    BY <1>2 DEF StopIfOverrun, Stop, First
  <2> HIDE DEF w
  <2>3. Paired(w) /\ Keeps(v, w)
    BY <1>2, <2>1, <2>2, CodeOfLimits, LimitNames DEF Paired, Keeps
  <2>4. QED
    BY <2>2, <2>3 DEF w
<1>3. QED
  BY <1>1, <1>2

\* stop() for another cause.
Causes == {<<"EXECUTOR_CANCELLED", "CALLER_CANCELLED">>,
           <<"PROCESS_OBSERVER_FAILED", "PROCESS_PROTOCOL_FAILURE">>,
           <<"PROCESS_OUTPUT_LIMIT", "PROCESS_PROTOCOL_FAILURE">>}

LEMMA StopForCause ==
  ASSUME NEW v, Paired(v), NEW code, NEW kind, <<code, kind>> \in Causes
  PROVE  LET w == Stop(v, code, kind)
         IN  Paired(w) /\ Keeps(v, w) /\ (w.stopped = "none" => v.stopped = "none")
<1>1. CASE v.termination # "none"
  BY <1>1 DEF Stop, Keeps
<1>2. CASE v.termination = "none"
  <2> DEFINE w == Stop(v, code, kind)
  <2>1. w.stopped = First(v.stopped, kind) /\ w.termination = code
    BY <1>2 DEF Stop
  <2> HIDE DEF w
  <2>2. /\ code \in {"EXECUTOR_CANCELLED", "PROCESS_OBSERVER_FAILED", "PROCESS_OUTPUT_LIMIT"}
        /\ kind \in {"CALLER_CANCELLED", "PROCESS_PROTOCOL_FAILURE"}
        /\ kind = "CALLER_CANCELLED" => code = "EXECUTOR_CANCELLED"
    BY DEF Causes
  <2>3. v.stopped \in Limits \cup {"none"}
    BY <1>2 DEF Paired
  <2>4. w.stopped = v.stopped \/ (v.stopped = "none" /\ w.stopped = kind)
    BY <2>1 DEF First
  <2>5. Paired(w)
    BY <2>1, <2>2, <2>3, <2>4, LimitNames DEF Paired
  <2>6. Keeps(v, w)
    BY <1>2, <2>4 DEF Keeps
  <2>7. w.stopped = "none" => v.stopped = "none"
    BY <2>4
  <2>8. QED
    BY <2>5, <2>6, <2>7 DEF w
<1>3. QED
  BY <1>1, <1>2

LEMMA KeepsChain ==
  ASSUME NEW u, NEW v, NEW w, Keeps(u, v), Keeps(v, w)
  PROVE  Keeps(u, w)
BY DEF Keeps
-----------------------------------------------------------------------------
(* One callback.                                                           *)

\* The verdict as an event finds it: a limit that is found becomes the stop.
Found(x) == [Verdict EXCEPT !.stopped = x]

LEMMA FoundFields ==
  ASSUME NEW x
  PROVE  Found(x).stopped = x /\ Found(x).termination = termination
BY DEF Found, Verdict

LEMMA FoundPaired ==
  ASSUME Paired(Verdict), NEW x,
         x = stopped \/ (stopped = "none" /\ x \in Limits \cup {"none"})
  PROVE  Paired(Found(x)) /\ Keeps(Verdict, Found(x))
BY FoundFields, VerdictFields, LimitNames DEF Paired, Keeps

LEMMA ObservedEffect ==
  ASSUME NEW e
  PROVE  LET o == Observed(e)
         IN  /\ o.stopped = stopped \/ (stopped = "none" /\ o.stopped \in Limits \cup {"none"})
             /\ o.stopped = "none" =>
                  /\ ~Reached(ItemLimit, Cardinality(o.items))
                  /\ ~Reached(CommandLimit, Cardinality(o.commands))
<1> DEFINE i == IF e.kind # "other" THEN items \cup {e.scope} ELSE items
           c == IF e.kind = "command" THEN commands \cup {e.scope} ELSE commands
           p == IF e.progress THEN now ELSE progressAt
           before == First(stopped, Overrun(items, commands, progressAt))
           o == Observed(e)
<1>1. CASE before # "none"
  <2>1. o.stopped = before
    BY <1>1 DEF Observed
  <2>2. before = stopped \/ (stopped = "none" /\ before \in Limits)
    BY <1>1, OverrunFindsLimits DEF First
  <2> HIDE DEF before, o
  <2>3. QED
    BY <1>1, <2>1, <2>2 DEF o
<1>2. CASE before = "none"
  <2>1. stopped = "none"
    BY <1>2 DEF First
  <2>2. o.stopped = Overrun(i, c, p) /\ o.items = i /\ o.commands = c
    BY <1>2 DEF Observed
  <2> HIDE DEF o, i, c, p, before
  <2>3. QED
    BY <2>1, <2>2, OverrunFindsLimits DEF o
<1>3. QED
  BY <1>1, <1>2

\* An event of a supervised process, with observers that may throw.
LEMMA EmittedEffect ==
  ASSUME Paired(Verdict), NEW e, NEW fails \in BOOLEAN
  PROVE  LET w == Emitted(e, fails)
         IN  Paired(w) /\ Keeps(Verdict, w) /\ (w.stopped = "none" => Observed(e).stopped = "none")
<1> DEFINE x == Observed(e).stopped
           u == Found(x)
           v == StopIfOverrun(u)
           w == StopObserver(v, fails)
<1>1. Emitted(e, fails) = w
  BY DEF Emitted, Found
<1>2. Paired(u) /\ Keeps(Verdict, u) /\ u.stopped = x
  BY ObservedEffect, FoundPaired, FoundFields
<1>3. Paired(v) /\ Keeps(u, v) /\ v.stopped = x
  <2> HIDE DEF u
  <2>1. QED
    BY <1>2, StopAtLimit
<1>4. Paired(w) /\ Keeps(v, w) /\ (w.stopped = "none" => v.stopped = "none")
  <2> HIDE DEF v
  <2>1. CASE ~fails
    BY <1>3, <2>1 DEF StopObserver, Keeps
  <2>2. CASE fails
    <3>1. <<"PROCESS_OBSERVER_FAILED", "PROCESS_PROTOCOL_FAILURE">> \in Causes
      BY DEF Causes
    <3>2. w = Stop(v, "PROCESS_OBSERVER_FAILED", "PROCESS_PROTOCOL_FAILURE")
      BY <2>2 DEF StopObserver
    <3> HIDE DEF w
    <3>3. QED
      BY <1>3, <3>1, <3>2, StopForCause
  <2>3. QED
    BY <2>1, <2>2
<1> HIDE DEF u, v, w
<1>5. QED
  BY <1>1, <1>2, <1>3, <1>4, KeepsChain

\* What a callback leaves is the verdict of the next state.
LEMMA BecomesEffect ==
  ASSUME NEW w, Paired(w), Keeps(Verdict, w), Becomes(w), providerStop => providerStop',
         leader = "none" => leader' = "none"
  PROVE  Paired(Verdict)' /\ Keeps(Verdict, Verdict')
<1>1. Verdict.stopped' = w.stopped /\ Verdict.termination' = w.termination
  BY DEF Verdict, Becomes
<1>2. QED
  BY <1>1, Zenon DEF Paired, Keeps
-----------------------------------------------------------------------------
(* The steps.                                                              *)

LEMMA RunningStep ==
  ASSUME VerdictInv, phase = "running", UNCHANGED phase,
         NEW w, Paired(w), Keeps(Verdict, w), Becomes(w),
         w.stopped = "none" => WithinLimits', providerStop => providerStop', Told',
         leader' # "none"
  PROVE  VerdictInv' /\ Keeps(Verdict, Verdict')
<1>1. Paired(Verdict)' /\ Keeps(Verdict, Verdict')
  BY BecomesEffect DEF VerdictInv
<1>2. stopped' = "none" => WithinLimits'
  BY DEF Becomes
<1>3. VerdictIsRight'
  BY DEF VerdictIsRight
<1>4. QED
  BY <1>1, <1>2, <1>3 DEF VerdictInv, Told

LEMMA DeliverEffect ==
  ASSUME NEW e, NEW fails \in BOOLEAN, Deliver(e, fails), Paired(Verdict)
  PROVE  Emitted(e, fails).stopped = "none" => WithinLimits'
<1>1. items' = Observed(e).items /\ commands' = Observed(e).commands
  BY DEF Deliver, Counted
<1>2. QED
  BY <1>1, ObservedEffect, EmittedEffect DEF WithinLimits

LEMMA EventStep ==
  ASSUME VerdictInv, Launched \/ Telemetry \/ ProviderTerminates \/ Output
  PROVE  VerdictInv' /\ Keeps(Verdict, Verdict')
<1>1. Paired(Verdict) /\ Told
  BY DEF VerdictInv, Told
<1>2. phase = "running" /\ UNCHANGED phase /\ leader' # "none"
  BY DEF Launched, Telemetry, ProviderTerminates, Output, VerdictInv, processes
<1>3. (providerStop => providerStop') /\ Told'
  <2>1. CASE UNCHANGED <<providerCode, providerStop>>
    BY <1>1, <2>1 DEF Told
  <2>2. CASE \E kind \in {"complete", "incomplete", "cancelled"} : ProviderSays(kind)
    BY <2>2 DEF ProviderSays, Told
  <2>3. QED
    BY <2>1, <2>2 DEF Launched, Telemetry, ProviderTerminates, Output
<1>4. ASSUME NEW e, NEW fails \in BOOLEAN, Deliver(e, fails), Becomes(Emitted(e, fails))
      PROVE  VerdictInv' /\ Keeps(Verdict, Verdict')
  <2> DEFINE w == Emitted(e, fails)
  <2>1. Paired(w) /\ Keeps(Verdict, w) /\ (w.stopped = "none" => WithinLimits') /\ Becomes(w)
    BY <1>1, <1>4, EmittedEffect, DeliverEffect
  <2> HIDE DEF w
  <2>2. QED
    BY <1>2, <1>3, <2>1, RunningStep
<1>5. CASE Launched \/ Telemetry \/ ProviderTerminates
  BY <1>4, <1>5 DEF Launched, Telemetry, ProviderTerminates
<1>6. CASE Output
  <2>1. PICK fails \in BOOLEAN, s \in Scopes, over \in BOOLEAN :
          LET e == [progress |-> FALSE, kind |-> "other", scope |-> s]
              v == Emitted(e, fails)
          IN  /\ Deliver(e, fails)
              /\ Becomes(IF over THEN Stop(v, "PROCESS_OUTPUT_LIMIT", "PROCESS_PROTOCOL_FAILURE")
                                 ELSE v)
    BY <1>6 DEF Output
  <2> DEFINE e == [progress |-> FALSE, kind |-> "other", scope |-> s]
             v == Emitted(e, fails)
             w == Stop(v, "PROCESS_OUTPUT_LIMIT", "PROCESS_PROTOCOL_FAILURE")
  <2>2. CASE ~over
    BY <1>4, <2>1, <2>2
  <2>3. CASE over
    <3>1. Deliver(e, fails) /\ Becomes(w)
      BY <2>1, <2>3
    <3> HIDE DEF e
    <3>2. Paired(v) /\ Keeps(Verdict, v) /\ (v.stopped = "none" => WithinLimits')
      BY <1>1, <3>1, EmittedEffect, DeliverEffect
    <3>3. <<"PROCESS_OUTPUT_LIMIT", "PROCESS_PROTOCOL_FAILURE">> \in Causes
      BY DEF Causes
    <3> HIDE DEF v
    <3>4. Paired(w) /\ Keeps(v, w) /\ (w.stopped = "none" => v.stopped = "none")
      BY <3>2, <3>3, StopForCause
    <3> HIDE DEF w
    <3>5. Keeps(Verdict, w)
      BY <3>2, <3>4, KeepsChain
    <3>6. QED
      BY <1>2, <1>3, <3>1, <3>2, <3>4, <3>5, RunningStep
  <2>4. QED
    BY <2>2, <2>3
<1>7. QED
  BY <1>5, <1>6

LEMMA TimerStep ==
  ASSUME VerdictInv, TimerFires
  PROVE  VerdictInv' /\ Keeps(Verdict, Verdict')
<1> DEFINE reason == First(stopped, Overrun(items, commands, progressAt))
           u == Found(reason)
           v == StopIfOverrun(u)
<1>1. /\ phase = "running" /\ UNCHANGED <<phase, items, commands, providerCode, providerStop>>
      /\ leader' # "none"
      /\ \E fails \in BOOLEAN : Becomes(StopObserver(v, fails))
  BY DEF TimerFires, Found, VerdictInv, processes
<1>2. reason = stopped \/ (stopped = "none" /\ reason \in Limits \cup {"none"})
  BY OverrunFindsLimits DEF First
<1>3. reason = "none" => stopped = "none"
  BY DEF First
<1> HIDE DEF reason
<1>4. Paired(u) /\ Keeps(Verdict, u) /\ u.stopped = reason
  BY <1>2, FoundPaired, FoundFields DEF VerdictInv
<1> HIDE DEF u
<1>5. Paired(v) /\ Keeps(u, v) /\ v.stopped = reason
  BY <1>4, StopAtLimit
<1> HIDE DEF v
<1>6. PICK fails \in BOOLEAN : Becomes(StopObserver(v, fails))
  BY <1>1
<1> DEFINE w == StopObserver(v, fails)
<1>7. Paired(w) /\ Keeps(v, w) /\ (w.stopped = "none" => v.stopped = "none")
  <2>1. <<"PROCESS_OBSERVER_FAILED", "PROCESS_PROTOCOL_FAILURE">> \in Causes
    BY DEF Causes
  <2>2. CASE fails
    BY <1>5, <2>1, <2>2, StopForCause DEF StopObserver
  <2>3. CASE ~fails
    BY <1>5, <2>3 DEF StopObserver, Keeps
  <2>4. QED
    BY <2>2, <2>3
<1>8. WithinLimits' = WithinLimits /\ Told'
  BY <1>1 DEF WithinLimits, Told, VerdictInv
<1> HIDE DEF w
<1>9. Keeps(Verdict, w)
  BY <1>4, <1>5, <1>7, KeepsChain
<1>10. w.stopped = "none" => WithinLimits'
  BY <1>1, <1>3, <1>5, <1>7, <1>8 DEF VerdictInv
<1>11. QED
  BY <1>1, <1>6, <1>7, <1>8, <1>9, <1>10, RunningStep DEF w

LEMMA AbortStep ==
  ASSUME VerdictInv, Abort
  PROVE  VerdictInv' /\ Keeps(Verdict, Verdict')
<1> DEFINE w == Stop(Verdict, "EXECUTOR_CANCELLED", "CALLER_CANCELLED")
<1>1. /\ phase = "running" /\ UNCHANGED <<phase, items, commands, providerCode, providerStop>>
      /\ leader' # "none"
      /\ Becomes(w)
  BY DEF Abort, VerdictInv, processes
<1>2. <<"EXECUTOR_CANCELLED", "CALLER_CANCELLED">> \in Causes
  BY DEF Causes
<1>3. Paired(w) /\ Keeps(Verdict, w) /\ (w.stopped = "none" => stopped = "none")
  BY <1>2, StopForCause, VerdictFields DEF VerdictInv
<1> HIDE DEF w
<1>4. Told' /\ (w.stopped = "none" => WithinLimits')
  BY <1>1, <1>3 DEF VerdictInv, Told, WithinLimits
<1>5. QED
  BY <1>1, <1>3, <1>4, RunningStep

LEMMA LaunchFailsStep ==
  ASSUME VerdictInv, LaunchFails
  PROVE  VerdictInv' /\ Keeps(Verdict, Verdict')
<1>1. /\ phase = "running" /\ UNCHANGED <<phase, items, commands, stopped, providerCode, providerStop>>
      /\ termination' = First(termination, "PROCESS_LAUNCH_FAILED")
      /\ leader # "none" /\ leader' = "failed"
  BY DEF LaunchFails, supervisor
<1>2. Verdict.stopped' = Verdict.stopped
      /\ Verdict.termination' = IF termination # "none" THEN termination ELSE "PROCESS_LAUNCH_FAILED"
  BY <1>1 DEF First, Verdict
<1>3. Paired(Verdict)' /\ Keeps(Verdict, Verdict')
  BY <1>1, <1>2, VerdictFields, LimitNames DEF Paired, Keeps, VerdictInv
<1>4. QED
  BY <1>1, <1>3 DEF VerdictInv, Told, WithinLimits, VerdictIsRight

LEMMA QuietStep ==
  ASSUME VerdictInv, Escalate \/ Processes \/ Tick \/ Finished \/ UNCHANGED vars
  PROVE  VerdictInv' /\ Keeps(Verdict, Verdict')
<1>1. UNCHANGED <<phase, items, commands, stopped, termination, providerCode, providerStop, published>>
  BY DEF Escalate, Processes, Tick, Finished, vars, supervisor
<1>2. Verdict.stopped' = Verdict.stopped /\ Verdict.termination' = Verdict.termination
  BY <1>1 DEF Verdict
<1>3. leader' = "none" <=> leader = "none"
  BY DEF Escalate, Killed, Processes, Tick, Finished, vars, processes
<1>4. Paired(Verdict)' /\ Keeps(Verdict, Verdict')
  BY <1>1, <1>2, <1>3 DEF Paired, Keeps, VerdictInv
<1>5. phase = "done" => leader' = leader \/ leader = "up"
  BY DEF Escalate, Processes, Tick, Finished, vars, processes
<1>6. VerdictIsRight'
  BY <1>1, <1>5 DEF VerdictInv, Told, VerdictIsRight
<1>7. QED
  BY <1>1, <1>3, <1>4, <1>6 DEF VerdictInv, Told, WithinLimits

\* Before the process is spawned any limit may be found, and gets the same code.
LEMMA BeginStep ==
  ASSUME VerdictInv, Begin
  PROVE  VerdictInv' /\ Keeps(Verdict, Verdict')
<1> DEFINE found == Overrun(items, commands, progressAt)
           reason == IF aborted THEN "CALLER_CANCELLED" ELSE found
<1>1. /\ phase = "start" /\ stopped = "none" /\ termination = "none"
      /\ leader = "none" /\ leader' = "none"
      /\ UNCHANGED <<items, commands, providerCode, providerStop>>
  BY DEF Begin, VerdictInv, processes
<1>2. Keeps(Verdict, Verdict')
  BY <1>1, VerdictFields DEF Keeps
<1>3. found \in Exhaustion \cup {"NO_PROGRESS", "none"}
  BY OverrunFindsLimits DEF Limits
<1>4. found = "none" => WithinLimits
  BY OverrunFindsLimits DEF WithinLimits
<1> HIDE DEF found
<1>5. CASE /\ reason # "none" /\ phase' = "closed" /\ stopped' = reason
           /\ termination' = IF aborted THEN "EXECUTOR_CANCELLED" ELSE "RESOURCE_EXHAUSTED"
  <2>1. Verdict.stopped' = reason
        /\ Verdict.termination' = IF aborted THEN "EXECUTOR_CANCELLED" ELSE "RESOURCE_EXHAUSTED"
    BY <1>5 DEF Verdict
  <2>2. Paired(Verdict)'
    BY <1>1, <1>3, <1>5, <2>1, LimitNames DEF Paired
  <2>3. QED
    BY <1>1, <1>2, <1>5, <2>2 DEF VerdictInv, Told, VerdictIsRight
<1>6. CASE reason = "none" /\ phase' = "admitted" /\ UNCHANGED <<stopped, termination>>
  <2>1. stopped' = "none" /\ termination' = "none" /\ Verdict.stopped' = "none"
        /\ Verdict.termination' = "none"
    BY <1>1, <1>6 DEF Verdict
  <2>2. Paired(Verdict)'
    BY <2>1 DEF Paired
  <2>3. WithinLimits'
    BY <1>1, <1>4, <1>6 DEF WithinLimits
  <2>4. QED
    BY <1>1, <1>2, <1>6, <2>1, <2>2, <2>3 DEF VerdictInv, Told, VerdictIsRight
<1>7. QED
  BY <1>5, <1>6 DEF Begin, found

\* From the spawn on, a limit that is found has the code of its own.
LEMMA SpawnStep ==
  ASSUME VerdictInv, Spawn
  PROVE  VerdictInv' /\ Keeps(Verdict, Verdict')
<1> DEFINE found == Overrun(items, commands, progressAt)
           w == StopIfOverrun(Found(found))
<1>1. /\ phase = "admitted" /\ phase' = "running" /\ leader' = "launching"
      /\ stopped = "none" /\ termination = "none"
      /\ UNCHANGED <<items, commands, providerCode, providerStop>>
      /\ Becomes(w)
  BY DEF Spawn, VerdictInv, Found
<1>2. found \in Limits \cup {"none"} /\ (found = "none" => WithinLimits)
  BY OverrunFindsLimits DEF WithinLimits
<1> HIDE DEF found
<1>3. w.stopped = found /\ w.termination = IF found = "none" THEN "none" ELSE CodeOf(found)
  <2>1. Found(found).stopped = found /\ Found(found).termination = "none"
    BY <1>1, FoundFields
  <2>2. QED
    BY <2>1 DEF StopIfOverrun, Stop, First
<1> HIDE DEF w
<1>4. /\ Verdict.stopped' = found /\ stopped' = found
      /\ Verdict.termination' = IF found = "none" THEN "none" ELSE CodeOf(found)
  BY <1>1, <1>3 DEF Becomes, Verdict
<1>5. Keeps(Verdict, Verdict')
  BY <1>1, VerdictFields DEF Keeps
<1>6. Paired(Verdict)'
  <2>1. CASE found = "none"
    BY <1>4, <2>1 DEF Paired
  <2>2. CASE found \in Limits
    BY <1>4, <2>2, CodeOfLimits, LimitNames DEF Paired
  <2>3. QED
    BY <1>2, <2>1, <2>2
<1>7. stopped' = "none" => WithinLimits'
  BY <1>1, <1>2, <1>4 DEF WithinLimits
<1>8. QED
  BY <1>1, <1>5, <1>6, <1>7 DEF VerdictInv, Told, VerdictIsRight

\* The outcome at "close", of what is left on the pipe and of the exit.
LEMMA CloseStep ==
  ASSUME VerdictInv, Close
  PROVE  VerdictInv' /\ Keeps(Verdict, Verdict')
<1>1. phase = "running" /\ phase' = "closed" /\ leader # "none"
  BY DEF Close
<1>2. ASSUME NEW o,
             o.stopped = stopped \/ (stopped = "none" /\ o.stopped \in Limits \cup {"none"}),
             o.stopped = "none" => WithinLimits',
             Becomes(CloseOutcome(o, providerCode', providerStop')),
             providerStop => providerStop', Told'
      PROVE  VerdictInv' /\ Keeps(Verdict, Verdict')
  <2> DEFINE failed == termination = "none" /\ leader # "zero"
  <2>1. /\ stopped' = IF failed /\ providerStop' THEN First(o.stopped, "wallTimeMs") ELSE o.stopped
        /\ termination' = IF failed THEN providerCode' ELSE termination
    BY <1>2 DEF CloseOutcome, Becomes
  <2>2. Verdict.stopped' = stopped' /\ Verdict.termination' = termination'
    BY DEF Verdict
  <2>3. "wallTimeMs" \in Exhaustion /\ "wallTimeMs" \in Limits
    BY DEF Limits, Exhaustion
  <2>4. Paired(Verdict)
    BY DEF VerdictInv
  <2>5. CASE failed
    <3>1. stopped \in Limits \cup {"none"} /\ o.stopped \in Limits \cup {"none"}
      BY <1>2, <2>4, <2>5, VerdictFields DEF Paired
    <3>2. stopped' \in Limits \cup {"none"} /\ (stopped # "none" => stopped' = stopped)
          /\ (stopped' = "none" => o.stopped = "none")
      BY <1>2, <2>1, <2>3, <3>1 DEF First
    <3>3. Paired(Verdict)'
      BY <1>2, <2>1, <2>2, <2>5, <3>2, LimitNames DEF Paired, Told
    <3>4. Keeps(Verdict, Verdict')
      BY <2>2, <2>5, <3>2, VerdictFields DEF Keeps
    <3>5. QED
      BY <1>1, <1>2, <3>2, <3>3, <3>4 DEF VerdictInv, VerdictIsRight, Told
  <2>6. CASE ~failed
    <3>1. stopped' = o.stopped /\ termination' = termination
      BY <2>1, <2>6
    <3>2. Keeps(Verdict, Verdict')
      BY <1>2, <2>2, <3>1, VerdictFields DEF Keeps
    <3>3. Paired(Verdict)'
      BY <1>1, <1>2, <2>2, <2>4, <3>1, VerdictFields, LimitNames DEF Paired
    <3>4. QED
      BY <1>1, <1>2, <3>1, <3>2, <3>3 DEF VerdictInv, VerdictIsRight, Told
  <2>7. QED
    BY <2>5, <2>6
<1>3. CASE /\ Becomes(CloseOutcome([stopped |-> stopped], providerCode, providerStop))
           /\ UNCHANGED <<items, commands, providerCode, providerStop>>
  <2> DEFINE o == [stopped |-> stopped]
  <2>1. o.stopped = stopped /\ Becomes(CloseOutcome(o, providerCode', providerStop'))
    BY <1>3
  <2> HIDE DEF o
  <2>2. stopped = "none" => WithinLimits'
    BY <1>1, <1>3 DEF VerdictInv, WithinLimits
  <2>3. Told'
    BY <1>3 DEF VerdictInv, Told
  <2>4. QED
    BY <1>2, <1>3, <2>1, <2>2, <2>3
<1>4. ASSUME NEW e, Counted(Observed(e)),
             \/ /\ UNCHANGED <<providerCode, providerStop>>
                /\ Becomes(CloseOutcome(Observed(e), providerCode, providerStop))
             \/ /\ \E kind \in {"complete", "incomplete", "cancelled"} : ProviderSays(kind)
                /\ Becomes(CloseOutcome(Observed(e), providerCode', providerStop'))
      PROVE  VerdictInv' /\ Keeps(Verdict, Verdict')
  <2> DEFINE o == Observed(e)
  <2>1. (providerStop => providerStop') /\ Told'
    <3>1. CASE UNCHANGED <<providerCode, providerStop>>
      BY <3>1 DEF VerdictInv, Told
    <3>2. CASE \E kind \in {"complete", "incomplete", "cancelled"} : ProviderSays(kind)
      BY <3>2 DEF ProviderSays, Told
    <3>3. QED
      BY <1>4, <3>1, <3>2
  <2>2. items' = o.items /\ commands' = o.commands
    BY <1>4 DEF Counted
  <2>3. o.stopped = stopped \/ (stopped = "none" /\ o.stopped \in Limits \cup {"none"})
    BY ObservedEffect
  <2>4. o.stopped = "none" => WithinLimits'
    BY <2>2, ObservedEffect DEF WithinLimits
  <2> HIDE DEF o
  <2>5. Becomes(CloseOutcome(o, providerCode', providerStop'))
    BY <1>4 DEF o
  <2>6. QED
    BY <1>2, <2>1, <2>3, <2>4, <2>5
<1>5. QED
  BY <1>3, <1>4 DEF Close

\* The final verdict, whatever the last observers do.
LEMMA FinishStep ==
  ASSUME VerdictInv, Finish
  PROVE  VerdictInv' /\ Keeps(Verdict, Verdict')
<1>1. PICK json \in BOOLEAN, failed \in BOOLEAN :
        /\ published' = IF Settled(json) = "EXECUTOR_CANCELLED" THEN "cancelled"
                        ELSE IF StopOf(Settled(json)) \in Exhaustion THEN "resource_exhausted"
                        ELSE IF Settled(json) # "none" THEN "failed" ELSE "completed"
        /\ termination' = IF failed THEN First(Settled(json), "PROCESS_OBSERVER_FAILED")
                          ELSE Settled(json)
        /\ stopped' = IF failed THEN First(StopOf(Settled(json)), "PROCESS_PROTOCOL_FAILURE")
                      ELSE StopOf(Settled(json))
  <2>1. \E json \in BOOLEAN, failed \in BOOLEAN :
        /\ published' = IF Settled(json) = "EXECUTOR_CANCELLED" THEN "cancelled"
                        ELSE IF StopOf(Settled(json)) \in Exhaustion THEN "resource_exhausted"
                        ELSE IF Settled(json) # "none" THEN "failed" ELSE "completed"
        /\ termination' = IF failed THEN First(Settled(json), "PROCESS_OBSERVER_FAILED")
                          ELSE Settled(json)
        /\ stopped' = IF failed THEN First(StopOf(Settled(json)), "PROCESS_PROTOCOL_FAILURE")
                      ELSE StopOf(Settled(json))
    BY Zenon DEF Finish
  <2>2. QED
    BY <2>1
<1> DEFINE code == Settled(json)
           stop == StopOf(code)
<1>2. /\ phase = "closed" /\ phase' = "done"
      /\ UNCHANGED <<items, commands, providerCode, providerStop, leader>>
  BY DEF Finish, processes
<1>3. /\ termination # "none" => code = termination
      /\ termination = "none" /\ stopped # "none" =>
           code = IF stopped = "NO_PROGRESS" THEN "NO_PROGRESS" ELSE "RESOURCE_EXHAUSTED"
      /\ termination = "none" /\ stopped = "none" =>
           code \in {"PROCESS_EXIT_FAILED", "INVALID_EXECUTOR_JSON", "none"}
      /\ code = "none" => termination = "none" /\ stopped = "none" /\ leader = "zero"
  BY DEF Settled
<1>4. /\ stopped # "none" => stop = stopped
      /\ code = "none" => stop = stopped
      /\ code # "none" /\ stopped = "none" =>
           stop = IF code = "EXECUTOR_CANCELLED" THEN "CALLER_CANCELLED" ELSE "PROCESS_PROTOCOL_FAILURE"
  BY DEF StopOf, First
<1> HIDE DEF code, stop
<1>5. /\ termination' = IF failed /\ code = "none" THEN "PROCESS_OBSERVER_FAILED" ELSE code
      /\ stopped' = IF failed /\ stop = "none" THEN "PROCESS_PROTOCOL_FAILURE" ELSE stop
      /\ code = "none" /\ stop = "none" => published' = "completed"
  BY <1>1, LimitNames DEF First, code, stop
<1>6. Verdict.stopped' = stopped' /\ Verdict.termination' = termination'
  BY DEF Verdict
<1>7. Keeps(Verdict, Verdict')
  BY <1>3, <1>4, <1>5, <1>6, VerdictFields DEF Keeps
<1>8. Paired(Verdict)'
  <2>1. Paired(Verdict)
    BY DEF VerdictInv
  <2>2. CASE termination # "none"
    <3>1. code = termination /\ termination' = termination
          /\ (stopped' = stopped \/ (stopped = "none" /\
                stopped' = IF code = "EXECUTOR_CANCELLED" THEN "CALLER_CANCELLED"
                           ELSE "PROCESS_PROTOCOL_FAILURE"))
      BY <1>3, <1>4, <1>5, <2>2
    <3>2. QED
      BY <1>2, <1>6, <2>1, <2>2, <3>1, VerdictFields, LimitNames DEF Paired
  <2>3. CASE termination = "none" /\ stopped # "none"
    <3>1. stopped \in Limits /\ stopped' = stopped
          /\ termination' = IF stopped = "NO_PROGRESS" THEN "NO_PROGRESS" ELSE "RESOURCE_EXHAUSTED"
      BY <1>3, <1>4, <1>5, <2>1, <2>3, VerdictFields DEF Paired
    <3>2. stopped = "NO_PROGRESS" \/ stopped \in Exhaustion
      BY <3>1 DEF Limits
    <3>3. QED
      BY <1>6, <3>1, <3>2, LimitNames DEF Paired
  <2>4. CASE termination = "none" /\ stopped = "none"
    <3>1. termination' \in {"PROCESS_OBSERVER_FAILED", "PROCESS_EXIT_FAILED",
                            "INVALID_EXECUTOR_JSON", "none"}
          /\ stopped' = IF termination' = "none" THEN "none" ELSE "PROCESS_PROTOCOL_FAILURE"
      BY <1>3, <1>4, <1>5, <2>4
    <3>2. QED
      BY <1>6, <3>1, LimitNames DEF Paired
  <2>5. QED
    BY <2>2, <2>3, <2>4
<1>9. termination' = "none" =>
        leader' = "zero" /\ stopped' = "none" /\ published' = "completed" /\ WithinLimits'
  BY <1>2, <1>3, <1>4, <1>5 DEF VerdictInv, WithinLimits
<1>10. VerdictIsRight'
  BY <1>6, <1>8, <1>9 DEF Paired, VerdictIsRight, WithinLimits
<1>11. QED
  BY <1>2, <1>7, <1>8, <1>10 DEF VerdictInv, Told
-----------------------------------------------------------------------------
(* The theorems.                                                           *)

LEMMA VerdictInvInit ==
  Init => VerdictInv
<1> SUFFICES ASSUME Init PROVE VerdictInv
  OBVIOUS
<1>1. Paired(Verdict)
  BY VerdictFields DEF Init, Paired
<1>2. QED
  BY <1>1 DEF Init, VerdictInv, Told, VerdictIsRight

LEMMA VerdictInvStep ==
  ASSUME VerdictInv, [Next]_vars
  PROVE  VerdictInv' /\ Keeps(Verdict, Verdict')
BY EventStep, TimerStep, AbortStep, LaunchFailsStep, QuietStep, BeginStep, SpawnStep, CloseStep,
   FinishStep
   DEF Next

LEMMA VerdictInvHolds ==
  Spec => []VerdictInv
<1>1. VerdictInv /\ [Next]_vars => VerdictInv'
  BY VerdictInvStep
<1>2. QED
  BY <1>1, VerdictInvInit, PTL DEF Spec

\* A response is returned only within the limits and for an exit with 0, and code
\* and stop evidence agree, under every policy.
THEOREM VerdictsAreRight ==
  Spec => []VerdictIsRight
<1>1. VerdictInv => VerdictIsRight
  BY DEF VerdictInv
<1>2. QED
  BY <1>1, VerdictInvHolds, PTL

\* The first stop cause is retained through the whole of the cleanup.
THEOREM FirstCauseStays ==
  Spec => FirstCauseKept
<1>1. ASSUME VerdictInv, [Next]_vars
      PROVE  [/\ stopped # "none" => stopped' = stopped
              /\ termination # "none" => termination' = termination]_vars
  <2>1. Keeps(Verdict, Verdict')
    BY <1>1, VerdictInvStep
  <2>2. Verdict.stopped' = stopped' /\ Verdict.termination' = termination'
    BY DEF Verdict
  <2>3. (stopped # "none" => stopped' = stopped) /\ (termination # "none" => termination' = termination)
    BY <2>1, <2>2, VerdictFields DEF Keeps
  <2>4. QED
    BY <2>3
<1>2. QED
  BY <1>1, VerdictInvHolds, PTL DEF Spec, FirstCauseKept
=============================================================================
