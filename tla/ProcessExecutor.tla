---------------------------- MODULE ProcessExecutor ----------------------------
(***************************************************************************)
(* One ProcessExecutor.execute of src/executor/process.ts with its         *)
(* InvocationSupervisor (src/supervision/index.ts): an external process in *)
(* a group of its own, telemetry and output arriving in any order, item,   *)
(* command, wall-time and no-progress limits, cancellation, observers that *)
(* throw, SIGTERM and its escalation, and the verdict on the invocation.   *)
(*                                                                         *)
(* The event loop runs one callback at a time, so an action is a callback. *)
(* Time is counted in ticks; a timer fires at its deadline or later.       *)
(***************************************************************************)
EXTENDS Integers, FiniteSets

CONSTANTS
  Scopes,          \* telemetry scopes the process may name
  ItemLimit, CommandLimit, WallLimit, QuietLimit,   \* the supervision policy
  Unlimited,       \* the value of a limit that is not configured
  TimeoutOption,   \* the wall limit came as ProcessOptions.timeoutMs
  Grace,           \* ticks between SIGTERM and SIGKILL
  MaxTime          \* bound: the clock stops here

ASSUME ExecutorAssumption ==
  /\ IsFiniteSet(Scopes)
  /\ Unlimited \notin Nat
  /\ {ItemLimit, CommandLimit, WallLimit} \subseteq Nat \cup {Unlimited}
  /\ QuietLimit \in (Nat \ {0}) \cup {Unlimited}
  /\ TimeoutOption \in BOOLEAN
  /\ Grace \in Nat \ {0}
  /\ MaxTime \in Nat

Off == -1     \* a timer that is not set
Exhaustion == {"items", "commands", "wallTimeMs"}
StopKind == Exhaustion \cup {"NO_PROGRESS", "CALLER_CANCELLED", "PROCESS_PROTOCOL_FAILURE"}
Code == {"EXECUTOR_CANCELLED", "RESOURCE_EXHAUSTED", "EXECUTOR_WALL_TIME_EXHAUSTED",
         "NO_PROGRESS", "PROCESS_OBSERVER_FAILED", "PROCESS_OUTPUT_LIMIT",
         "PROCESS_LAUNCH_FAILED", "INVALID_RESOURCE_EVIDENCE", "PROCESS_EXIT_FAILED",
         "INVALID_EXECUTOR_JSON"}

VARIABLES
  phase,        \* "start", "admitted", "running", "closed", "done"
  now,          \* the clock
  progressAt,   \* supervisor.lastProgress
  items, commands,      \* scopes the supervisor has counted
  stopped,      \* supervisor.stopped: "none" or the kind of the first stop
  termination,  \* "none" or the code the invocation is terminated for
  timer,        \* deadline of the supervision timer
  cleanup,      \* deadline of the SIGKILL escalation
  providerCode, providerStop,   \* what the process said of its own termination
  aborted,      \* the caller's AbortSignal
  observerFailed,
  leader,       \* the child: "none", "launching", "up", "failed", "zero", "nonzero"
  helpers,      \* other members of its group: "piped" hold its streams, "quiet" do not
  published     \* status of the final process event

supervisor == <<progressAt, items, commands, stopped>>
processes == <<leader, helpers>>
vars == <<phase, now, supervisor, termination, timer, cleanup, providerCode, providerStop,
          aborted, observerFailed, processes, published>>

TypeOK ==
  /\ phase \in {"start", "admitted", "running", "closed", "done"}
  /\ now \in 0 .. MaxTime /\ progressAt \in 0 .. MaxTime
  /\ items \subseteq Scopes /\ commands \subseteq Scopes
  /\ stopped \in StopKind \cup {"none"}
  /\ termination \in Code \cup {"none"}
  /\ timer \in Nat \cup {Off} /\ cleanup \in Nat \cup {Off}
  /\ providerCode \in {"none", "EXECUTOR_CANCELLED", "EXECUTOR_WALL_TIME_EXHAUSTED",
                       "INVALID_RESOURCE_EVIDENCE"}
  /\ providerStop \in BOOLEAN /\ aborted \in BOOLEAN /\ observerFailed \in BOOLEAN
  /\ leader \in {"none", "launching", "up", "failed", "zero", "nonzero"}
  /\ helpers \subseteq {"piped", "quiet"}
  /\ published \in {"none", "cancelled", "resource_exhausted", "failed", "completed"}

Init ==
  /\ phase = "start" /\ now = 0 /\ progressAt = 0
  /\ items = {} /\ commands = {}
  /\ stopped = "none" /\ termination = "none"
  /\ timer = Off /\ cleanup = Off
  /\ providerCode = "none" /\ providerStop = FALSE
  /\ aborted \in BOOLEAN /\ observerFailed = FALSE
  /\ leader = "none" /\ helpers = {} /\ published = "none"
-----------------------------------------------------------------------------
(* The supervisor.                                                         *)

Reached(limit, amount) == limit # Unlimited /\ amount >= limit

\* check() on the consumption <<i, c>> and the last progress p: the limits are
\* looked at in this order.
Overrun(i, c, p) ==
  IF Reached(ItemLimit, Cardinality(i)) THEN "items"
  ELSE IF Reached(CommandLimit, Cardinality(c)) THEN "commands"
  ELSE IF Reached(WallLimit, now) THEN "wallTimeMs"
  ELSE IF Reached(QuietLimit, now - p) THEN "NO_PROGRESS"
  ELSE "none"

First(old, new) == IF old # "none" THEN old ELSE new

\* The kinds of telemetry the supervisor tells apart: a transition not seen
\* before (progress) or not, in a scope of an item, of a command, or in none.
Events == [progress : BOOLEAN, kind : {"item", "command", "other"}, scope : Scopes]

\* observe(e): a deadline that has passed wins over the event.
Observed(e) ==
  LET i == IF e.kind # "other" THEN items \cup {e.scope} ELSE items
      c == IF e.kind = "command" THEN commands \cup {e.scope} ELSE commands
      p == IF e.progress THEN now ELSE progressAt
      before == First(stopped, Overrun(items, commands, progressAt))
  IN  IF before # "none"
      THEN [progressAt |-> progressAt, items |-> items, commands |-> commands,
            stopped |-> before]
      ELSE [progressAt |-> p, items |-> i, commands |-> c, stopped |-> Overrun(i, c, p)]

Counted(o) == progressAt' = o.progressAt /\ items' = o.items /\ commands' = o.commands

\* delay(): the next deadline.
Deadline(p) ==
  LET times == (IF WallLimit = Unlimited THEN {} ELSE {WallLimit})
               \cup (IF QuietLimit = Unlimited THEN {} ELSE {p + QuietLimit})
  IN  IF times = {} THEN Off
      ELSE CHOOSE t \in times : \A u \in times : t <= u

\* The code stop() is called with when check() finds a stop.
CodeOf(kind) ==
  CASE kind = "NO_PROGRESS" -> "NO_PROGRESS"
    [] kind = "wallTimeMs" /\ TimeoutOption -> "EXECUTOR_WALL_TIME_EXHAUSTED"
    [] OTHER -> "RESOURCE_EXHAUSTED"
-----------------------------------------------------------------------------
(* Stopping: v is the verdict so far within one callback.                  *)

Verdict == [stopped |-> stopped, termination |-> termination, cleanup |-> cleanup]
Becomes(v) ==
  stopped' = v.stopped /\ termination' = v.termination /\ cleanup' = v.cleanup

\* Mutant of Stop: a later cause replaces the code.
StopAgain(v, code, kind) ==
  [stopped |-> First(v.stopped, kind), termination |-> code, cleanup |-> now + Grace]

\* stop(code): SIGTERM to the group (its members may exit at any time anyway),
\* escalation later.  The first cause stays.
Stop(v, code, kind) ==
  IF v.termination # "none" THEN v
  ELSE [stopped |-> First(v.stopped, kind), termination |-> code,
        cleanup |-> now + Grace]

\* refresh(): the timer is set anew unless there is a stop.
Refreshed(v, o) == IF v.stopped # "none" THEN Off ELSE Deadline(o.progressAt)
StopIfOverrun(v) ==
  IF v.stopped # "none" THEN Stop(v, CodeOf(v.stopped), v.stopped) ELSE v

StopObserver(v, fails) ==
  IF fails THEN Stop(v, "PROCESS_OBSERVER_FAILED", "PROCESS_PROTOCOL_FAILURE") ELSE v
ObserverMayFail(fails) == observerFailed' = (observerFailed \/ fails)

\* channel.emit of event e while the child is supervised; an observer may throw.
Emitted(e, fails) ==
  LET o == Observed(e)
  IN  StopObserver(StopIfOverrun([Verdict EXCEPT !.stopped = o.stopped]), fails)

Deliver(e, fails) ==
  /\ Counted(Observed(e))
  /\ timer' = Refreshed([Verdict EXCEPT !.stopped = Observed(e).stopped], Observed(e))
  /\ ObserverMayFail(fails)
-----------------------------------------------------------------------------
(* The invocation.                                                         *)

\* The first record(), whose observers may take their time, then the caller's
\* signal and the limits; whatever limit is found here, the code is the same.
Begin ==
  LET reason == IF aborted THEN "CALLER_CANCELLED" ELSE Overrun(items, commands, progressAt)
  IN
  /\ phase = "start"
  /\ \E fails \in BOOLEAN : ObserverMayFail(fails)
  /\ \/ /\ reason # "none"
        /\ phase' = "closed"
        /\ stopped' = reason
        /\ termination' = IF aborted THEN "EXECUTOR_CANCELLED" ELSE "RESOURCE_EXHAUSTED"
     \/ /\ reason = "none"
        /\ phase' = "admitted"
        /\ UNCHANGED <<stopped, termination>>
  /\ UNCHANGED <<now, progressAt, items, commands, timer, cleanup, providerCode,
                 providerStop, aborted, processes, published>>

\* The child is spawned, and the first refresh() looks at the limits again.
Spawn ==
  LET checked == [Verdict EXCEPT !.stopped = Overrun(items, commands, progressAt)]
  IN
  /\ phase = "admitted" /\ phase' = "running"
  /\ leader' = "launching"
  /\ timer' = Refreshed(checked, [progressAt |-> progressAt])
  /\ Becomes(StopIfOverrun(checked))
  /\ UNCHANGED <<now, progressAt, items, commands, providerCode, providerStop, aborted,
                 observerFailed, helpers, published>>

Launched ==
  /\ phase = "running" /\ leader = "launching"
  /\ leader' = "up"
  /\ \E fails \in BOOLEAN, s \in Scopes :
       LET e == [progress |-> TRUE, kind |-> "other", scope |-> s]
       IN  Deliver(e, fails) /\ Becomes(Emitted(e, fails))
  /\ UNCHANGED <<phase, now, providerCode, providerStop, aborted, helpers, published>>

LaunchFails ==
  /\ phase = "running" /\ leader = "launching"
  /\ leader' = "failed"
  /\ termination' = First(termination, "PROCESS_LAUNCH_FAILED")
  /\ UNCHANGED <<phase, now, supervisor, timer, cleanup, providerCode, providerStop,
                 aborted, observerFailed, helpers, published>>

\* Streams stay open while the child or a helper that inherited them is alive.
Streaming == leader = "up" \/ "piped" \in helpers

\* A line on the operational pipe.
Telemetry ==
  /\ phase = "running" /\ Streaming
  /\ \E e \in Events, fails \in BOOLEAN :
       Deliver(e, fails) /\ Becomes(Emitted(e, fails))
  /\ UNCHANGED <<phase, now, providerCode, providerStop, aborted, processes, published>>

\* What a termination event makes of the provider's own verdict: evidence of its
\* wall-time budget (complete or not) or of a cancellation.
ProviderSays(kind) ==
  /\ providerCode' = CASE kind = "complete" -> "EXECUTOR_WALL_TIME_EXHAUSTED"
                       [] kind = "incomplete" -> "INVALID_RESOURCE_EVIDENCE"
                       [] OTHER -> "EXECUTOR_CANCELLED"
  /\ providerStop' = (providerStop \/ kind = "complete")

ProviderTerminates ==
  /\ phase = "running" /\ Streaming
  /\ \E kind \in {"complete", "incomplete", "cancelled"} : ProviderSays(kind)
  /\ \E fails \in BOOLEAN, s \in Scopes, progress \in BOOLEAN :
       LET e == [progress |-> progress, kind |-> "other", scope |-> s]
       IN  Deliver(e, fails) /\ Becomes(Emitted(e, fails))
  /\ UNCHANGED <<phase, now, aborted, processes, published>>

\* stdout or stderr; past the capture limit the invocation is stopped.
Output ==
  /\ phase = "running" /\ Streaming
  /\ \E fails \in BOOLEAN, s \in Scopes, over \in BOOLEAN :
       LET e == [progress |-> FALSE, kind |-> "other", scope |-> s]
           v == Emitted(e, fails)
       IN  /\ Deliver(e, fails)
           /\ Becomes(IF over THEN Stop(v, "PROCESS_OUTPUT_LIMIT", "PROCESS_PROTOCOL_FAILURE")
                              ELSE v)
  /\ UNCHANGED <<phase, now, providerCode, providerStop, aborted, processes, published>>

\* The supervision timer: refresh(), then record().
TimerFires ==
  LET reason == First(stopped, Overrun(items, commands, progressAt))
      checked == [Verdict EXCEPT !.stopped = reason]
  IN
  /\ phase = "running" /\ timer # Off /\ timer <= now
  /\ timer' = Refreshed(checked, [progressAt |-> progressAt])
  /\ \E fails \in BOOLEAN :
       /\ Becomes(StopObserver(StopIfOverrun(checked), fails))
       /\ ObserverMayFail(fails)
  /\ UNCHANGED <<phase, now, progressAt, items, commands, providerCode, providerStop,
                 aborted, processes, published>>

Abort ==
  /\ phase = "running" /\ ~aborted
  /\ aborted' = TRUE
  /\ Becomes(Stop(Verdict, "EXECUTOR_CANCELLED", "CALLER_CANCELLED"))
  /\ UNCHANGED <<phase, now, progressAt, items, commands, timer, providerCode,
                 providerStop, observerFailed, processes, published>>

\* Mutant of Killed: only the child is signalled.
LeaderKilled ==
  /\ leader' = IF leader \in {"launching", "up"} THEN "nonzero" ELSE leader
  /\ UNCHANGED helpers

\* SIGKILL to the group: no member survives it.
Killed ==
  /\ helpers' = {}
  /\ leader' = IF leader \in {"launching", "up"} THEN "nonzero" ELSE leader

\* When the clock has stopped, it stands for every later time.
Escalate ==
  /\ phase = "running" /\ cleanup # Off
  /\ cleanup <= now \/ now = MaxTime
  /\ cleanup' = Off
  /\ Killed
  /\ UNCHANGED <<phase, now, supervisor, termination, timer, providerCode, providerStop,
                 aborted, observerFailed, published>>

\* The child forks helpers, exits, or is ended by a signal; so do its helpers.
Processes ==
  /\ phase \in {"running", "closed", "done"}
  /\ \/ /\ leader = "up"
        /\ \/ leader' \in {"zero", "nonzero"} /\ UNCHANGED helpers
           \/ \E h \in {"piped", "quiet"} : helpers' = helpers \cup {h} /\ UNCHANGED leader
     \/ /\ \E h \in helpers : helpers' = helpers \ {h}
        /\ UNCHANGED leader
  /\ UNCHANGED <<phase, now, supervisor, termination, timer, cleanup, providerCode,
                 providerStop, aborted, observerFailed, published>>

\* "close": the child is gone and its streams have ended.  What is left of the
\* pipe is flushed with the supervisor still observing, the timers are gone.
CloseOutcome(o, code, byProvider) ==
  LET failed == termination = "none" /\ leader # "zero"
  IN  [stopped |-> IF failed /\ byProvider THEN First(o.stopped, "wallTimeMs") ELSE o.stopped,
       termination |-> IF failed THEN code ELSE termination,
       cleanup |-> Off]

\* Mutant of KilledIfStopped: what survives the child is left alone.
NeverKilled == UNCHANGED helpers
KilledIfStopped == helpers' = IF termination # "none" THEN {} ELSE helpers

Close ==
  /\ phase = "running"
  /\ leader \in {"failed", "zero", "nonzero"} /\ "piped" \notin helpers
  /\ phase' = "closed" /\ timer' = Off
  /\ KilledIfStopped
  /\ \/ /\ Becomes(CloseOutcome([stopped |-> stopped], providerCode, providerStop))
        /\ UNCHANGED <<progressAt, items, commands, providerCode, providerStop,
                       observerFailed>>
     \/ /\ leader # "failed"
        /\ \E e \in Events, fails \in BOOLEAN :
             /\ Counted(Observed(e)) /\ ObserverMayFail(fails)
             /\ \/ /\ UNCHANGED <<providerCode, providerStop>>
                   /\ Becomes(CloseOutcome(Observed(e), providerCode, providerStop))
                \/ /\ e.kind = "other"
                   /\ \E kind \in {"complete", "incomplete", "cancelled"} : ProviderSays(kind)
                   /\ Becomes(CloseOutcome(Observed(e), providerCode', providerStop'))
  /\ UNCHANGED <<now, aborted, leader, published>>

\* Mutant of Settled: a stop found while flushing is overlooked.
SettledIgnoringStop(json) ==
  IF termination # "none" THEN termination
  ELSE IF leader # "zero" THEN "PROCESS_EXIT_FAILED"
  ELSE IF ~json THEN "INVALID_EXECUTOR_JSON"
  ELSE "none"

\* The termination code after a stop found while flushing, the exit status and
\* the response have been looked at.
Settled(json) ==
  IF termination # "none" THEN termination
  ELSE IF stopped # "none" THEN IF stopped = "NO_PROGRESS" THEN "NO_PROGRESS"
                                ELSE "RESOURCE_EXHAUSTED"
  ELSE IF leader # "zero" THEN "PROCESS_EXIT_FAILED"
  ELSE IF ~json THEN "INVALID_EXECUTOR_JSON"
  ELSE "none"
StopOf(code) ==
  IF code = "none" THEN stopped
  ELSE First(stopped, IF code = "EXECUTOR_CANCELLED" THEN "CALLER_CANCELLED"
                      ELSE "PROCESS_PROTOCOL_FAILURE")

\* The verdict, the final process event (whose observers may throw), and a last
\* record() (which may throw too).
Finish ==
  /\ phase = "closed" /\ phase' = "done"
  /\ \E json, lastEvent, lastRecord \in BOOLEAN :
       LET code == Settled(json)
           failed == observerFailed \/ lastEvent
       IN  /\ published' = IF code = "EXECUTOR_CANCELLED" THEN "cancelled"
                           ELSE IF StopOf(code) \in Exhaustion THEN "resource_exhausted"
                           ELSE IF code # "none" THEN "failed" ELSE "completed"
           /\ termination' = IF failed THEN First(code, "PROCESS_OBSERVER_FAILED") ELSE code
           /\ stopped' = IF failed THEN First(StopOf(code), "PROCESS_PROTOCOL_FAILURE")
                                   ELSE StopOf(code)
           /\ observerFailed' = (failed \/ lastRecord)
  /\ UNCHANGED <<now, progressAt, items, commands, timer, cleanup, providerCode,
                 providerStop, aborted, processes>>

Tick ==
  /\ phase \in {"start", "admitted", "running"} /\ now < MaxTime
  /\ now' = now + 1
  /\ UNCHANGED <<phase, supervisor, termination, timer, cleanup, providerCode,
                 providerStop, aborted, observerFailed, processes, published>>

Finished == phase = "done" /\ UNCHANGED vars

Next ==
  \/ Begin \/ Spawn \/ Launched \/ LaunchFails
  \/ Telemetry \/ ProviderTerminates \/ Output
  \/ TimerFires \/ Abort \/ Escalate \/ Processes
  \/ Close \/ Finish \/ Tick \/ Finished

Spec == Init /\ [][Next]_vars

\* Time passes and the event loop serves what is due; nothing is assumed of the
\* external process but that SIGKILL ends it.
FairSpec ==
  /\ Spec
  /\ WF_vars(Tick) /\ WF_vars(Begin) /\ WF_vars(Spawn) /\ WF_vars(Launched \/ LaunchFails)
  /\ WF_vars(TimerFires) /\ WF_vars(Escalate) /\ WF_vars(Close) /\ WF_vars(Finish)
-----------------------------------------------------------------------------
(* Properties.                                                             *)

\* docs/operational-events.md, "The first stop cause is retained through process
\* cleanup": neither the kind nor the code of a stop is replaced later, whatever
\* other limit, signal, output or exit follows.
FirstCauseKept ==
  [][/\ stopped # "none" => stopped' = stopped
     /\ termination # "none" => termination' = termination]_vars

\* An invocation that is stopped while its process is supervised comes to its end,
\* and then nobody of the process group is left: neither what ignores SIGTERM, nor
\* a helper that keeps the pipes open and so delays "close", nor one that lets go
\* of them, so that "close" comes first and puts an end to the escalation.
StopReapsGroup ==
  (phase = "running" /\ termination # "none") ~> (phase = "done" /\ helpers = {})

\* The verdict is right. A response is returned only for a process that exited
\* with 0 and was never over a limit, nor found to be at its very end. The code
\* and the stop evidence tell one story: a limit's code comes with that limit's
\* evidence or with the process's own account, and the caller's cancellation is
\* never reported as anything else. Only an invocation that never had a process
\* is RESOURCE_EXHAUSTED for want of progress.
VerdictIsRight ==
  phase = "done" =>
    /\ termination = "none" =>
         /\ leader = "zero" /\ stopped = "none" /\ published = "completed"
         /\ ~Reached(ItemLimit, Cardinality(items))
         /\ ~Reached(CommandLimit, Cardinality(commands))
    /\ termination = "NO_PROGRESS" => stopped = "NO_PROGRESS"
    /\ termination = "RESOURCE_EXHAUSTED" =>
         stopped \in Exhaustion \/ (stopped = "NO_PROGRESS" /\ leader = "none")
    /\ termination = "EXECUTOR_WALL_TIME_EXHAUSTED" =>
         (TimeoutOption /\ stopped = "wallTimeMs") \/ providerStop
    /\ stopped = "CALLER_CANCELLED" => termination = "EXECUTOR_CANCELLED"

\* With a wall-time limit every invocation ends, whatever the process does.
Ends == <>(phase = "done")
=============================================================================
