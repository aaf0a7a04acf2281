---------------------------- MODULE CodexAdapter ----------------------------
(***************************************************************************)
(* One run of adapters/codex/adapter.mjs: it reads one invocation          *)
(* (contract.mjs), checks the assigned worktree, launches the coding agent *)
(* in a process group of its own, reads its event stream (events.mjs) and  *)
(* turns its last message into the response the core validates             *)
(* (src/executor/protocol.ts).                                             *)
(*                                                                         *)
(* Everything before the launch and after the agent's "close" is one       *)
(* synchronous block of the event loop: a signal that arrives there is     *)
(* pending until the loop turns, and is lost when the program ends first.  *)
(* Other processes run on in between.                                      *)
(* Bytes are counted in units; a chunk with several line ends is several   *)
(* chunks here.                                                            *)
(***************************************************************************)
EXTENDS Integers, FiniteSets

CONSTANTS
  Actions,      \* the actions of protocol version 1
  Offers,       \* what context.control may offer, as sets of actions
  Checks,       \* verification ids that exist
  Items,        \* item ids the agent may name
  OutputLimit,  \* units of output before the agent is stopped
  LineLimit,    \* units of a decoded line before it is dropped
  MaxErrors,    \* error events kept as diagnostics
  MaxUnits      \* bound: units of output the agent writes

ASSUME AdapterAssumption ==
  /\ Actions = {"CONTINUE", "FORK", "SPAWN", "COMPLETE", "BLOCK"}
  /\ Offers \subseteq SUBSET Actions /\ {} \notin Offers
  /\ IsFiniteSet(Checks) /\ IsFiniteSet(Items)
  /\ {OutputLimit, LineLimit, MaxErrors, MaxUnits} \subseteq Nat

VARIABLES
  pc,           \* Setup, "refused", "running", Conclusion, "exited" or "killed"
  timed,        \* a timeout is configured
  invocation,   \* what invocationFrom projected: the actions and ids offered
  temporary,    \* the directory with the agent's homes and files exists
  signalled,    \* the caller has sent SIGTERM
  cancelled, expired, overrun, unlaunched,  \* handler, timer, limit, "error" have run
  error,        \* the variable of run(): the last cause recorded
  group,        \* members of the agent's process group: "leader", and helpers
                \* that hold its streams ("piped") or do not ("loose")
  status,       \* the leader's exit status, or that it could not be spawned
  moved,        \* "head" or "branch" when HEAD, or the branch only, is not the
                \* one the agent was given
  alone,        \* history: nobody of the group was left when the agent closed
  size,         \* units of output
  events,       \* the state of CodexEvents
  ended,        \* history: lines of the agent that are over
  outcome,      \* the record's failure code, "ok", or "none"
  response      \* the messages written to standard output

agent == <<group, status, moved>>
causes == <<cancelled, expired, overrun, unlaunched, error>>
stream == <<size, events, ended>>
vars == <<pc, timed, invocation, temporary, signalled, causes, agent, alone, stream, outcome,
          response>>

Conclusion == {"closed", "branch", "response"}
Setup == {"config", "input", "workspace", "state", "git", "version", "launch"}
SetupCode == {"INVALID_CONFIGURATION", "INVALID_INPUT", "UNSUPPORTED_PROTOCOL_VERSION",
              "WORKSPACE_REQUIRED", "INVALID_WORKSPACE", "STATE_INSIDE_WORKSPACE",
              "INVALID_AUTH_FILE", "AGENT_UNAVAILABLE", "AGENT_LAUNCH_FAILED", "ADAPTER_FAILED"}
StopCode == {"AGENT_CANCELLED", "AGENT_WALL_TIME_EXHAUSTED", "AGENT_OUTPUT_LIMIT",
             "AGENT_LAUNCH_FAILED", "AGENT_UNAVAILABLE"}
EndCode == {"AGENT_EXIT_FAILED", "GIT_IDENTITY_CHANGED", "INVALID_WORKSPACE",
            "INVALID_AGENT_RESPONSE", "ACTION_UNAVAILABLE"}
None == "none"

NoInvocation == [actions |-> {}, ids |-> {}]
NoEvents == [pending |-> 0, dropping |-> FALSE, recognized |-> 0, unknown |-> 0,
             malformed |-> 0, blank |-> 0, turn |-> 0, open |-> FALSE, started |-> {},
             durations |-> {}, errors |-> 0]

Init ==
  /\ pc = "config" /\ timed = FALSE /\ invocation = NoInvocation /\ temporary = FALSE
  /\ signalled = FALSE /\ cancelled = FALSE /\ expired = FALSE /\ overrun = FALSE
  /\ unlaunched = FALSE /\ error = None
  /\ group = {} /\ status = None /\ moved = None /\ alone = FALSE
  /\ size = 0 /\ events = NoEvents /\ ended = 0
  /\ outcome = None /\ response = {}
-----------------------------------------------------------------------------
(* The invocation and its contract.                                        *)

\* What of an invocation decides: the parts invocationFrom looks at, in order.
Invocations ==
  [version : BOOLEAN, context : BOOLEAN, worktree : BOOLEAN, valid : BOOLEAN,
   actions : Offers, ids : SUBSET Checks]

\* Refusals of invocationFrom: version, shape of the context, assigned worktree,
\* then governance, verification, control and the fields that carry text.
InvocationCode(i) ==
  IF ~i.version THEN "UNSUPPORTED_PROTOCOL_VERSION"
  ELSE IF ~i.context THEN "INVALID_INPUT"
  ELSE IF ~i.worktree THEN "WORKSPACE_REQUIRED"
  ELSE IF ~i.valid THEN "INVALID_INPUT"
  ELSE "ok"

\* The parts of a last message the schemas and validators tell apart.
Messages ==
  {m \in [shape     : BOOLEAN,                  \* the rest of the envelope and action
          action    : Actions \cup {"other"},
          entries   : 0 .. 2,                   \* alternatives, or spawned work
          priority  : {"absent", "null", "integer"},
          objective : {"absent", "null", "text"},
          commits   : {"none", "text", "blank"},
          verifies  : 0 .. 2,                   \* VERIFY effects, and the id they name
          id        : Checks \cup {"other"}] :
     m.verifies = 0 => m.id = "other"}

Contracts == [actions : Offers, ids : SUBSET Checks]

\* Fields are required by the closed schemas; null stands for an absent one.
EntriesConform(r) ==
  CASE r.action = "FORK"  -> /\ r.entries >= 2 /\ r.priority \in {"null", "integer"}
                             /\ r.objective \in {"null", "text"}
    [] r.action = "SPAWN" -> /\ r.entries >= 1 /\ r.priority \in {"null", "integer"}
                             /\ r.objective = "text"
    [] OTHER -> r.entries = 0 /\ r.priority = "absent" /\ r.objective = "absent"

\* conforms(value, schema) for the schema responseContract derives.
Conforms(r, i) ==
  /\ r.shape
  /\ r.action \in i.actions /\ EntriesConform(r)
  /\ r.commits # "blank"
  /\ r.verifies > 0 => r.id \in i.ids

\* Mutant of Accepted: the two rules the schema cannot express are forgotten.
AcceptedBySchema(r, i) == Conforms(r, i)

\* responseFrom: the schema, at most one VERIFY, and that with CONTINUE only.
Accepted(r, i) ==
  /\ Conforms(r, i)
  /\ r.verifies <= 1
  /\ r.verifies = 1 => r.action = "CONTINUE"

AcceptedMessages == [i \in Contracts |-> {m \in Messages : Accepted(m, i)}]

\* responseFrom removes the nulls of the entries of FORK and SPAWN.
Projected(r) ==
  LET given(x) == IF x = "null" THEN "absent" ELSE x
  IN  [r EXCEPT !.priority = given(@), !.objective = given(@)]

\* validateResponse and validateAction of the core, given the same ids.
CoreAccepts(r, i) ==
  /\ r.shape /\ r.action \in Actions
  /\ r.action = "FORK" =>
       /\ r.entries >= 2 /\ r.priority \in {"absent", "integer"}
       /\ r.objective \in {"absent", "text"}
  /\ r.action = "SPAWN" =>
       /\ r.entries >= 1 /\ r.priority \in {"absent", "integer"} /\ r.objective = "text"
  /\ r.commits # "blank"
  /\ r.verifies <= 1
  /\ r.verifies = 1 => r.action = "CONTINUE" /\ r.id \in i.ids
-----------------------------------------------------------------------------
(* The event stream.                                                       *)

\* What a line may be to CodexEvents.map: a native type with the parts it
\* needs or without them, an unknown type, or nothing it can read.
Lines ==
  [kind : {"blank", "garbage", "unknown", "thread.started", "turn.started",
           "turn.completed"}, item : {None}, status : {None}, good : {TRUE}]
  \cup [kind : {"error", "turn.failed"}, item : {None}, status : {None}, good : BOOLEAN]
  \cup [kind : {"item"}, item : Items, status : {"started", "updated", "completed"},
        good : BOOLEAN]

Class(l) ==
  CASE l.kind \in {"blank", "garbage", "unknown"} ->
         [blank |-> "blank", garbage |-> "malformed", unknown |-> "unknown"][l.kind]
    [] OTHER -> IF l.good THEN "recognized" ELSE "malformed"

\* The turn is a local ordinal: a second turn.started of an open turn is not one.
Turned(e, l) ==
  [e EXCEPT !.turn = IF l.kind = "turn.started" /\ ~e.open THEN @ + 1 ELSE @,
            !.open = CASE l.kind = "turn.started" -> TRUE
                       [] l.kind \in {"turn.completed", "turn.failed"} -> FALSE
                       [] OTHER -> @]

\* An item is timed from its first "started" in a turn to its first "completed".
Timed(e, l) ==
  LET scope == <<e.turn, l.item>>
  IN  IF l.kind # "item" \/ ~l.good THEN e
      ELSE [e EXCEPT !.started = IF l.status = "started" THEN @ \cup {scope} ELSE @,
                     !.durations = IF l.status = "completed" /\ scope \in e.started
                                   THEN @ \cup {scope} ELSE @]

\* line() and map(): the pending text is consumed, the event counted once.
Read(e, l) ==
  LET counted == [e EXCEPT !.pending = 0, ![Class(l)] = @ + 1,
                           !.errors = IF l.kind \in {"error", "turn.failed"} /\ @ < MaxErrors
                                      THEN @ + 1 ELSE @]
  IN  Timed(Turned(counted, l), l)

\* Mutant of Appended: every chunk of an oversized line is malformed again.
AppendedAgain(e, n) ==
  IF e.pending + n > LineLimit \/ e.dropping
  THEN [e EXCEPT !.pending = 0, !.dropping = TRUE, !.malformed = @ + 1]
  ELSE [e EXCEPT !.pending = @ + n]

\* consume(): a line over the limit is malformed once and dropped to its end.
Appended(e, n) ==
  IF e.dropping THEN e
  ELSE IF e.pending + n > LineLimit
  THEN [e EXCEPT !.pending = 0, !.dropping = TRUE, !.malformed = @ + 1]
  ELSE [e EXCEPT !.pending = @ + n]

\* A line that is over: read, unless it was dropped.
LineEnds(e) ==
  IF e.dropping THEN {[e EXCEPT !.dropping = FALSE]}
  ELSE {Read(e, l) : l \in IF e.pending = 0 THEN {k \in Lines : k.kind = "blank"} ELSE Lines}
-----------------------------------------------------------------------------
(* Setup.                                                                  *)

\* Mutant of Kill: the leader alone is killed.
KillLeader(members) == members \ {"leader"}

\* kill(): SIGKILL to what is left of the group while run() knows its child.
Kill(members) == {}

\* The catch and finally blocks: the record is written, and child being unset
\* by now, the kill in finally reaches nobody.
Ends(code) == pc' = "exited" /\ outcome' = code /\ temporary' = FALSE

Stage(from, to) == pc = from /\ pc' = to /\ UNCHANGED <<temporary, outcome>>

Untouched == UNCHANGED <<causes, agent, alone, stream, response>>

\* Options: the tool, model and effort exactly once, the timeout in range.
Configure ==
  /\ \/ Stage("config", "input") /\ timed' \in BOOLEAN
     \/ pc = "config" /\ Ends("INVALID_CONFIGURATION") /\ UNCHANGED timed
  /\ UNCHANGED <<invocation, signalled>> /\ Untouched

ReadInvocation ==
  /\ pc = "input"
  /\ \E i \in Invocations :
       IF InvocationCode(i) = "ok"
       THEN /\ Stage("input", "workspace")
            /\ invocation' = [actions |-> i.actions, ids |-> i.ids]
       ELSE Ends(InvocationCode(i)) /\ UNCHANGED invocation
  /\ UNCHANGED <<timed, signalled>> /\ Untouched

\* An absolute path that is the working directory and a linked worktree, with
\* the directory for temporary files outside of it; then that directory is made.
CheckWorkspace ==
  /\ \/ Stage("workspace", "state")
     \/ pc = "workspace" /\ \E code \in {"WORKSPACE_REQUIRED", "INVALID_WORKSPACE",
                                         "STATE_INSIDE_WORKSPACE"} : Ends(code)
  /\ UNCHANGED <<timed, invocation, signalled>> /\ Untouched

MakeState ==
  /\ \/ /\ pc = "state" /\ temporary' = TRUE
        /\ pc' \in {"git", "refused"} /\ UNCHANGED outcome
     \/ pc = "state" /\ Ends("ADAPTER_FAILED")
     \/ pc = "refused" /\ \E code \in {"INVALID_AUTH_FILE", "ADAPTER_FAILED"} : Ends(code)
  /\ UNCHANGED <<timed, invocation, signalled>> /\ Untouched

\* HEAD, the branch and the top level are read. SIGTERM goes to the adapter's
\* whole group, the git command that is running included.
ReadIdentity ==
  /\ \/ Stage("git", "version")
     \/ pc = "git" /\ Ends("INVALID_WORKSPACE")
  /\ UNCHANGED <<timed, invocation, signalled>> /\ Untouched

\* The tool's --version: only a tool that cannot be started is refused.
ReadVersion ==
  /\ \/ Stage("version", "launch")
     \/ pc = "version" /\ \E code \in {"AGENT_UNAVAILABLE", "AGENT_LAUNCH_FAILED"} : Ends(code)
  /\ UNCHANGED <<timed, invocation, signalled>> /\ Untouched

\* The schema is written and the agent spawned; a spawn that fails is told later.
Launch ==
  /\ \/ /\ Stage("launch", "running")
        /\ \/ group' = {"leader"} /\ UNCHANGED status
           \/ group' = {} /\ status' = "unspawned"
     \/ pc = "launch" /\ Ends("ADAPTER_FAILED") /\ UNCHANGED <<group, status>>
  /\ UNCHANGED <<timed, invocation, signalled, causes, moved, alone, stream, response>>
-----------------------------------------------------------------------------
(* The callbacks of run().                                                 *)

\* Every one that stops the agent records its cause and kills.
Stops(code) ==
  /\ error' = code
  /\ group' = Kill(group)
  /\ status' = IF "leader" \in group /\ "leader" \notin group' THEN "nonzero" ELSE status

Kept == UNCHANGED <<pc, timed, invocation, temporary, signalled, alone, outcome, response>>

\* The signal handler: the cause is recorded when the agent has closed.
HandleSignal ==
  /\ pc = "running" /\ signalled /\ ~cancelled
  /\ cancelled' = TRUE
  /\ Stops(error)
  /\ UNCHANGED <<expired, overrun, unlaunched, moved, stream>> /\ Kept

Timeout ==
  /\ pc = "running" /\ timed /\ ~expired
  /\ expired' = TRUE
  /\ Stops("AGENT_WALL_TIME_EXHAUSTED")
  /\ UNCHANGED <<cancelled, overrun, unlaunched, moved, stream>> /\ Kept

\* The child's "error" event.
LaunchFails ==
  /\ pc = "running" /\ status = "unspawned" /\ ~unlaunched
  /\ unlaunched' = TRUE
  /\ error' \in {"AGENT_UNAVAILABLE", "AGENT_LAUNCH_FAILED"}
  /\ UNCHANGED <<cancelled, expired, overrun, agent, stream>> /\ Kept

\* collect(): over the limit the agent is stopped and the chunk not parsed.
Collected(n) ==
  /\ pc = "running" /\ status # "unspawned"
  /\ size + n <= MaxUnits
  /\ size' = size + n
  /\ IF size' > OutputLimit
     THEN overrun' = TRUE /\ Stops("AGENT_OUTPUT_LIMIT")
     ELSE UNCHANGED <<overrun, error, group, status>>
  /\ UNCHANGED <<cancelled, expired, unlaunched, moved>> /\ Kept

\* Units of invalid text take three times their room once decoded.
Output ==
  \E n \in 1 .. 2 :
    /\ Collected(n)
    /\ \/ UNCHANGED <<events, ended>>      \* on stderr, or over the limit
       \/ /\ size' <= OutputLimit
          /\ \E room \in {1, 3} :
               \/ events' = Appended(events, n * room) /\ UNCHANGED ended
               \/ /\ events' \in LineEnds(Appended(events, (n - 1) * room))
                  /\ ended' = ended + 1

\* "close": the leader is gone and nobody holds its streams any more.
Closable == group \cap {"leader", "piped"} = {} /\ (status = "unspawned" => unlaunched)

\* A cancellation overrides the last cause recorded.
Verdict == IF cancelled THEN "AGENT_CANCELLED" ELSE error

Close ==
  /\ pc = "running" /\ Closable
  /\ pc' = "closed"
  /\ error' = Verdict
  /\ alone' = (group = {})
  /\ events' \in LineEnds(events) /\ ended' = ended + 1
  /\ UNCHANGED <<timed, invocation, temporary, signalled, cancelled, expired, overrun,
                 unlaunched, agent, size, outcome, response>>

\* Git answers for HEAD, or for the branch, as it did before the launch.
Finds(part) == moved # part

\* What follows the agent's end, in this order: its causes and its exit, HEAD,
Conclude ==
  /\ pc = "closed"
  /\ IF error # None THEN Ends(error)
     ELSE IF status # "zero" THEN Ends("AGENT_EXIT_FAILED")
     ELSE \/ Ends("INVALID_WORKSPACE")
          \/ ~Finds("head") /\ Ends("GIT_IDENTITY_CHANGED")
          \/ Finds("head") /\ Stage("closed", "branch")
  /\ UNCHANGED <<timed, invocation, signalled>> /\ Untouched

\* the branch,
CheckBranch ==
  /\ pc = "branch"
  /\ \/ Ends("INVALID_WORKSPACE")
     \/ ~Finds("branch") /\ Ends("GIT_IDENTITY_CHANGED")
     \/ Finds("branch") /\ Stage("branch", "response")
  /\ UNCHANGED <<timed, invocation, signalled>> /\ Untouched

\* and the last message, which is printed when it conforms.
Respond ==
  /\ pc = "response"
  /\ \/ Ends("INVALID_AGENT_RESPONSE") /\ UNCHANGED response
     \/ /\ \E r \in AcceptedMessages[invocation] : response' = {Projected(r)}
        /\ Ends("ok")
  /\ UNCHANGED <<timed, invocation, signalled, causes, agent, alone, stream>>
-----------------------------------------------------------------------------
(* The agent and the caller.                                               *)

AgentActs ==
  /\ "leader" \in group
  /\ \/ \E code \in {"zero", "nonzero"} : status' = code /\ group' = group \ {"leader"}
     \/ \E h \in {"piped", "loose"} \ group : group' = group \cup {h} /\ UNCHANGED status
  /\ UNCHANGED <<moved, causes, stream>> /\ pc = "running" /\ Kept

\* A member of the group, or a helper that outlived the leader.
GroupActs ==
  /\ \/ \E h \in group \ {"leader"} : group' = group \ {h} /\ UNCHANGED moved
     \/ /\ group # {} /\ pc \in {"running"} \cup Conclusion
        /\ moved' \in {None, "head", "branch"} /\ UNCHANGED group
  /\ UNCHANGED <<status, causes, stream>> /\ Kept

\* ProcessExecutor sends SIGTERM to the adapter's group, and SIGKILL after its
\* grace. Neither reaches the agent's group.
Terminate ==
  /\ pc \notin {"exited", "killed"} /\ ~signalled
  /\ signalled' = TRUE
  /\ UNCHANGED <<pc, timed, invocation, temporary, causes, agent, alone, stream, outcome,
                 response>>

Escalate ==
  /\ pc \notin {"exited", "killed"} /\ signalled
  /\ pc' = "killed"
  /\ UNCHANGED <<timed, invocation, temporary, signalled, causes, agent, alone,
                 stream, outcome, response>>

Over == pc \in {"exited", "killed"} /\ UNCHANGED vars

Prepare == \/ Configure \/ ReadInvocation \/ CheckWorkspace \/ MakeState
           \/ ReadIdentity \/ ReadVersion \/ Launch
Callback == HandleSignal \/ Timeout \/ LaunchFails \/ Output \/ Close

Next == \/ Prepare \/ Callback \/ Conclude \/ CheckBranch \/ Respond
        \/ AgentActs \/ GroupActs \/ Terminate \/ Escalate \/ Over

Spec == Init /\ [][Next]_vars

\* The event loop runs what is due; agent and caller do as they please.
FairSpec ==
  /\ Spec
  /\ WF_vars(HandleSignal) /\ WF_vars(Timeout)
  /\ WF_vars(LaunchFails) /\ WF_vars(Close)
  /\ WF_vars(Conclude) /\ WF_vars(CheckBranch) /\ WF_vars(Respond)
-----------------------------------------------------------------------------
(* Properties.                                                             *)

TypeOK ==
  /\ pc \in Setup \cup {"refused", "running", "exited", "killed"} \cup Conclusion
  /\ error \in StopCode \cup {None}
  /\ outcome \in SetupCode \cup StopCode \cup EndCode \cup {"ok", None}
  /\ group \subseteq {"leader", "piped", "loose"}
  /\ status \in {None, "unspawned", "zero", "nonzero"}
  /\ moved \in {None, "head", "branch"} /\ alone \in BOOLEAN
  /\ size \in 0 .. MaxUnits
  /\ response \subseteq Messages

\* README, "Both terminate the owned agent process group" and "removed on exit":
\* once a signal, the timer or the output limit has stopped the agent, nothing of
\* its group is left when the adapter is gone, not even if the adapter is killed
\* then; and the agent's directory is left only by an adapter that is killed.
StoppedAgentIsGone ==
  /\ pc \in {"exited", "killed"} \cup Conclusion /\ (cancelled \/ expired \/ overrun)
       => group = {}
  /\ pc = "exited" => ~temporary

\* A response is printed only for an agent that ended by itself, and the core
\* accepts it as it is printed; the git identity is then the one the agent was
\* given, unless it left a helper behind, which may move HEAD or the branch as
\* soon as the adapter has looked; a failure is reported with a cause that
\* occurred, a handled cancellation before all.
OutcomeIsEarned ==
  [][outcome' # outcome =>
       /\ outcome' = "ok" <=> response' # {}
       /\ outcome' = "ok" => /\ ~cancelled /\ ~expired /\ ~overrun /\ ~unlaunched
                             /\ status = "zero" /\ (alone => moved = None)
                             /\ \A r \in response' : CoreAccepts(r, invocation)
       /\ cancelled <=> outcome' = "AGENT_CANCELLED"
       /\ outcome' = "AGENT_WALL_TIME_EXHAUSTED" => expired
       /\ outcome' = "AGENT_OUTPUT_LIMIT" => overrun]_vars

\* Every line of the agent is counted once, whatever chunks it comes in, also
\* when it is dropped for its size, and also the last one without a line end.
LinesAreCounted ==
  events.recognized + events.unknown + events.malformed + events.blank
    = ended + (IF events.dropping /\ pc \in {"running", "killed"} THEN 1 ELSE 0)

\* A stopped agent's adapter comes to an end: no helper that holds the agent's
\* streams can keep it waiting.
StoppedComesToEnd ==
  (pc = "running" /\ (timed \/ signalled)) ~> pc \in {"exited", "killed"}
=============================================================================
