------------------------- MODULE CodexAdapter_proofs -------------------------
(***************************************************************************)
(* Proofs about CodexAdapter: what the adapter leaves behind, when it      *)
(* prints a response, and what its counters count, for every contract,     *)
(* every limit and every agent.                                            *)
(***************************************************************************)
EXTENDS CodexAdapter, TLAPS

-----------------------------------------------------------------------------
(* The agent's group.                                                      *)

Stopped == cancelled \/ expired \/ overrun

\* A group without leader grows no more; one that was killed has no member, and
\* the directory is there until the adapter has ended.
GroupInv ==
  /\ pc \in Setup \cup {"refused", "running", "exited", "killed"} \cup Conclusion
  /\ pc \in Setup \cup {"refused"} => ~Stopped
  /\ Stopped => group = {}
  /\ pc = "exited" => ~temporary
  /\ pc \in {"config", "input", "workspace", "state"} => ~temporary

LEMMA GroupInvStep ==
  ASSUME GroupInv, [Next]_vars
  PROVE  GroupInv'
<1>1. CASE Configure
  BY <1>1 DEF Configure, Stage, Ends, Untouched, causes, agent, stream, GroupInv, Stopped, Setup, Conclusion
<1>2. CASE ReadInvocation
  BY <1>2 DEF ReadInvocation, Stage, Ends, Untouched, causes, agent, stream, GroupInv, Stopped, Setup, Conclusion
<1>3. CASE CheckWorkspace
  BY <1>3 DEF CheckWorkspace, Stage, Ends, Untouched, causes, agent, stream, GroupInv, Stopped, Setup, Conclusion
<1>4. CASE MakeState
  BY <1>4 DEF MakeState, Stage, Ends, Untouched, causes, agent, stream, GroupInv, Stopped, Setup, Conclusion
<1>5. CASE ReadIdentity \/ ReadVersion
  BY <1>5 DEF ReadIdentity, ReadVersion, Stage, Ends, Untouched, causes, agent, stream,
              GroupInv, Stopped, Setup, Conclusion
<1>6. CASE Launch
  BY <1>6 DEF Launch, Stage, Ends, causes, stream, GroupInv, Stopped, Setup, Conclusion
<1>7. CASE HandleSignal \/ Timeout
  BY <1>7 DEF HandleSignal, Timeout, Stops, Kill, Kept, GroupInv, Stopped, Setup, Conclusion
<1>8. CASE LaunchFails
  BY <1>8 DEF LaunchFails, Kept, agent, GroupInv, Stopped, Setup, Conclusion
<1>9. CASE Output
  BY <1>9 DEF Output, Collected, Stops, Kill, Kept, GroupInv, Stopped, Setup, Conclusion
<1>10. CASE Close
  BY <1>10 DEF Close, agent, GroupInv, Stopped, Setup, Conclusion
<1>11. CASE Conclude \/ CheckBranch \/ Respond
  BY <1>11 DEF Conclude, CheckBranch, Respond, Stage, Ends, Untouched, causes, agent, stream,
               GroupInv, Stopped, Setup, Conclusion
<1>12. CASE AgentActs \/ GroupActs
  BY <1>12 DEF AgentActs, GroupActs, Kept, causes, GroupInv, Stopped, Setup, Conclusion
<1>13. CASE Terminate \/ Escalate \/ Over \/ UNCHANGED vars
  BY <1>13 DEF Terminate, Escalate, Over, vars, causes, agent, GroupInv, Stopped, Setup, Conclusion
<1>14. QED
  BY <1>1, <1>2, <1>3, <1>4, <1>5, <1>6, <1>7, <1>8, <1>9, <1>10, <1>11, <1>12, <1>13
     DEF Next, Prepare, Callback

\* Nothing of a stopped agent's group is left when its adapter is gone, and its
\* directory is left only by an adapter that was killed.
THEOREM StoppedAgentGone ==
  Spec => []StoppedAgentIsGone
<1>1. Init => GroupInv
  BY DEF Init, GroupInv, Stopped, Setup, Conclusion
<1>2. GroupInv /\ [Next]_vars => GroupInv'
  BY GroupInvStep
<1>3. GroupInv => StoppedAgentIsGone
  BY DEF GroupInv, Stopped, Conclusion, StoppedAgentIsGone
<1>4. QED
  BY <1>1, <1>2, <1>3, PTL DEF Spec
-----------------------------------------------------------------------------
(* The verdict.                                                            *)

\* While the agent is there the causes that have occurred are the only ones that
\* can have been recorded; once it has closed, the cancellation is before all.
VerdictInv ==
  /\ pc \in Setup \cup {"refused"} =>
       ~cancelled /\ ~expired /\ ~overrun /\ ~unlaunched /\ error = None
  /\ pc # "exited" => outcome = None /\ response = {}
  /\ pc \in (Setup \ {"config", "input"}) \cup {"refused", "running"} \cup Conclusion =>
       invocation \in Contracts
  /\ error = None => ~expired /\ ~overrun /\ ~unlaunched
  /\ error = "AGENT_WALL_TIME_EXHAUSTED" => expired
  /\ error = "AGENT_OUTPUT_LIMIT" => overrun
  /\ error \in StopCode \cup {None}
  /\ pc = "running" => error # "AGENT_CANCELLED"
  /\ pc \in Conclusion => (cancelled <=> error = "AGENT_CANCELLED")
  /\ pc \in {"branch", "response"} => error = None /\ status = "zero"
  /\ pc \in Conclusion /\ alone => group = {}
  /\ pc = "branch" /\ alone => moved # "head"
  /\ pc = "response" /\ alone => moved = None
  /\ moved \in {None, "head", "branch"}

LEMMA VerdictInvStep ==
  ASSUME VerdictInv, [Next]_vars
  PROVE  VerdictInv'
<1> USE DEF VerdictInv, Setup, Conclusion, StopCode, None
<1>1. CASE Configure
  BY <1>1 DEF Configure, Stage, Ends, Untouched, causes, agent, stream
<1>2. CASE ReadInvocation
  <2>1. \A i \in Invocations : [actions |-> i.actions, ids |-> i.ids] \in Contracts
    BY DEF Invocations, Contracts
  <2>2. QED
    BY <1>2, <2>1 DEF ReadInvocation, Stage, Ends, Untouched, causes, agent, stream
<1>3. CASE CheckWorkspace
  BY <1>3 DEF CheckWorkspace, Stage, Ends, Untouched, causes, agent, stream
<1>4. CASE MakeState
  BY <1>4 DEF MakeState, Stage, Ends, Untouched, causes, agent, stream
<1>5. CASE ReadIdentity \/ ReadVersion
  BY <1>5 DEF ReadIdentity, ReadVersion, Stage, Ends, Untouched, causes, agent, stream
<1>6. CASE Launch
  BY <1>6 DEF Launch, Stage, Ends, causes, stream
<1>7. CASE HandleSignal \/ Timeout
  BY <1>7 DEF HandleSignal, Timeout, Stops, Kept
<1>8. CASE LaunchFails
  BY <1>8 DEF LaunchFails, Kept, agent
<1>9. CASE Output
  BY <1>9 DEF Output, Collected, Stops, Kept
<1>10. CASE Close
  BY <1>10 DEF Close, Verdict, agent
<1>11. CASE Conclude \/ CheckBranch \/ Respond
  BY <1>11 DEF Conclude, CheckBranch, Respond, Finds, Stage, Ends, Untouched, causes, agent, stream
<1>12. CASE AgentActs \/ GroupActs
  BY <1>12 DEF AgentActs, GroupActs, Kept, causes
<1>13. CASE Terminate \/ Escalate \/ Over \/ UNCHANGED vars
  BY <1>13 DEF Terminate, Escalate, Over, vars, causes, agent
<1>14. QED
  BY <1>1, <1>2, <1>3, <1>4, <1>5, <1>6, <1>7, <1>8, <1>9, <1>10, <1>11, <1>12, <1>13
     DEF Next, Prepare, Callback

\* The two readings of one message: what the adapter accepts against its schema is
\* accepted by the core as it is projected, for every set of actions offered.
LEMMA ProjectionIsAccepted ==
  ASSUME NEW i \in Contracts, NEW r \in Messages, Accepted(r, i)
  PROVE  CoreAccepts(Projected(r), i)
<1> DEFINE given(x) == IF x = "null" THEN "absent" ELSE x
           p == Projected(r)
<1>1. /\ r.shape \in BOOLEAN /\ r.entries \in 0 .. 2 /\ r.verifies \in 0 .. 2
      /\ r.commits \in {"none", "text", "blank"}
      /\ r.priority \in {"absent", "null", "integer"}
      /\ r.objective \in {"absent", "null", "text"}
  BY DEF Messages
<1>2. /\ p.shape = r.shape /\ p.action = r.action /\ p.entries = r.entries
      /\ p.commits = r.commits /\ p.verifies = r.verifies /\ p.id = r.id
      /\ p.priority = given(r.priority) /\ p.objective = given(r.objective)
  BY DEF Messages, Projected
<1>3. i.actions \subseteq Actions
  BY AdapterAssumption DEF Contracts
<1>4. r.shape /\ r.action \in Actions /\ EntriesConform(r) /\ r.commits # "blank"
      /\ (r.verifies > 0 => r.id \in i.ids) /\ r.verifies <= 1
      /\ (r.verifies = 1 => r.action = "CONTINUE")
  BY <1>3 DEF Accepted, Conforms
<1> HIDE DEF p
<1>5. p.action = "FORK" => p.entries >= 2 /\ p.priority \in {"absent", "integer"}
                           /\ p.objective \in {"absent", "text"}
  BY <1>1, <1>2, <1>4 DEF EntriesConform
<1>6. p.action = "SPAWN" => p.entries >= 1 /\ p.priority \in {"absent", "integer"}
                            /\ p.objective = "text"
  BY <1>1, <1>2, <1>4 DEF EntriesConform
<1>7. QED
  BY <1>1, <1>2, <1>4, <1>5, <1>6 DEF CoreAccepts, p

\* What OutcomeIsEarned says of a step that decides the outcome.
Earned ==
  /\ outcome' = "ok" <=> response' # {}
  /\ outcome' = "ok" => /\ ~cancelled /\ ~expired /\ ~overrun /\ ~unlaunched
                        /\ status = "zero" /\ (alone => moved = None)
                        /\ \A r \in response' : CoreAccepts(r, invocation)
  /\ cancelled <=> outcome' = "AGENT_CANCELLED"
  /\ outcome' = "AGENT_WALL_TIME_EXHAUSTED" => expired
  /\ outcome' = "AGENT_OUTPUT_LIMIT" => overrun

\* The steps that follow the agent's end.
LEMMA ConclusionIsEarned ==
  ASSUME VerdictInv, Conclude \/ CheckBranch \/ Respond, outcome' # outcome
  PROVE  Earned
<1>1. pc \in Conclusion
  BY DEF Conclude, CheckBranch, Respond, Conclusion
<1>2. cancelled <=> error = "AGENT_CANCELLED"
  BY <1>1, Zenon DEF VerdictInv
<1>3. response = {} /\ invocation \in Contracts /\ error \in StopCode \cup {None}
      /\ (error = None => ~expired /\ ~overrun /\ ~unlaunched)
      /\ (error = "AGENT_WALL_TIME_EXHAUSTED" => expired)
      /\ (error = "AGENT_OUTPUT_LIMIT" => overrun)
  BY <1>1, SMT DEF VerdictInv, Conclusion
<1>4. CASE pc = "closed" /\ error # None
  <2>1. outcome' = error /\ response' = response
    BY <1>4, Conclude \/ CheckBranch \/ Respond
       DEF Conclude, CheckBranch, Respond, Finds, Stage, Ends, Untouched
  <2>2. QED
    BY <1>2, <1>3, <1>4, <2>1 DEF Earned, StopCode, None
<1>5. CASE pc = "response" \/ error = None
  <2>1. error = None /\ ~cancelled
    BY <1>2, <1>5 DEF VerdictInv, None
  <2>2. CASE outcome' \in EndCode /\ response' = response
    BY <1>3, <2>1, <2>2 DEF Earned, EndCode
  <2>3. CASE Respond /\ outcome' = "ok"
    <3>1. pc = "response" /\ status = "zero" /\ (alone => moved = None)
      BY <2>3 DEF VerdictInv, Respond
    <3>2. PICK r \in Messages : Accepted(r, invocation) /\ response' = {Projected(r)}
      BY <1>3, <2>3 DEF Respond, Ends, AcceptedMessages
    <3>3. CoreAccepts(Projected(r), invocation)
      BY <1>3, <3>2, ProjectionIsAccepted
    <3>4. QED
      BY <1>3, <2>1, <2>3, <3>1, <3>2, <3>3 DEF Earned
  <2>4. QED
    BY <2>1, <2>2, <2>3, outcome' # outcome, Conclude \/ CheckBranch \/ Respond
       DEF Conclude, CheckBranch, Respond, Stage, Ends, Untouched, EndCode
<1>6. QED
  BY <1>1, <1>4, <1>5 DEF VerdictInv, Conclusion

\* Setup's refusals have codes of their own.
LEMMA SetupIsRefused ==
  ASSUME VerdictInv, Prepare, outcome' # outcome
  PROVE  outcome' \in SetupCode /\ response' = {} /\ ~cancelled
<1> USE DEF VerdictInv, Setup, SetupCode, Stage, Ends, Untouched
<1>1. CASE Configure \/ CheckWorkspace \/ MakeState \/ ReadIdentity \/ ReadVersion
  BY <1>1 DEF Configure, CheckWorkspace, MakeState, ReadIdentity, ReadVersion
<1>2. CASE ReadInvocation
  BY <1>2 DEF ReadInvocation, InvocationCode
<1>3. CASE Launch
  BY <1>3 DEF Launch
<1>4. QED
  BY <1>1, <1>2, <1>3 DEF Prepare

\* A response is printed only for an agent that ended by itself, and the core accepts
\* it; HEAD and branch are then the agent's own unless it left a helper behind;
\* failures are reported with what occurred.
THEOREM OutcomesAreEarned ==
  Spec => OutcomeIsEarned
<1>1. Init => VerdictInv
  BY DEF Init, VerdictInv, Setup, Conclusion, StopCode, None
<1>2. VerdictInv /\ [Next]_vars => VerdictInv'
  BY VerdictInvStep
<1>3. ASSUME VerdictInv, [Next]_vars
      PROVE  [outcome' # outcome => Earned]_vars
  <2>1. CASE Prepare
    BY <1>3, <2>1, SetupIsRefused DEF SetupCode, Earned
  <2>2. CASE Conclude \/ CheckBranch \/ Respond
    BY <1>3, <2>2, ConclusionIsEarned
  <2>3. CASE Callback
    BY <2>3 DEF Callback, HandleSignal, Timeout, LaunchFails, Output, Collected, Close, Kept
  <2>4. CASE AgentActs \/ GroupActs \/ Terminate \/ Escalate \/ Over \/ UNCHANGED vars
    BY <2>4 DEF AgentActs, GroupActs, Terminate, Escalate, Over, vars, Kept
  <2>5. QED
    BY <1>3, <2>1, <2>2, <2>3, <2>4 DEF Next
<1>4. QED
  BY <1>1, <1>2, <1>3, PTL DEF Spec, OutcomeIsEarned, Earned
-----------------------------------------------------------------------------
(* The counters.                                                           *)

Counters == {"recognized", "unknown", "malformed", "blank"}
Fields == Counters \cup {"pending", "dropping", "turn", "open", "started", "durations", "errors"}

\* A state of CodexEvents as far as counting goes.
Counting(e) ==
  DOMAIN e = Fields /\ e.dropping \in BOOLEAN /\ \A c \in Counters : e[c] \in Int

Total(e) == e.recognized + e.unknown + e.malformed + e.blank
Dropped(e) == IF e.dropping THEN 1 ELSE 0

\* The line that is being dropped is already counted; nothing is dropped when the
\* stream has not begun or has ended.
CountInv ==
  /\ Counting(events) /\ ended \in Int
  /\ Total(events) = ended + Dropped(events)
  /\ pc \notin {"running", "killed"} => ~events.dropping

LEMMA CountingFields ==
  ASSUME NEW e
  PROVE  Counting(e) <=> /\ DOMAIN e = Fields /\ e.dropping \in BOOLEAN
                         /\ e.recognized \in Int /\ e.unknown \in Int
                         /\ e.malformed \in Int /\ e.blank \in Int
BY DEF Counting, Counters

LEMMA AppendCounts ==
  ASSUME NEW e, Counting(e), NEW n
  PROVE  /\ Counting(Appended(e, n))
         /\ Total(Appended(e, n)) - Dropped(Appended(e, n)) = Total(e) - Dropped(e)
<1>1. CASE e.dropping
  BY <1>1 DEF Appended, Total, Dropped, Counting, Counters
<1>2. CASE ~e.dropping /\ e.pending + n > LineLimit
  <2> DEFINE a == [e EXCEPT !.pending = 0, !.dropping = TRUE, !.malformed = @ + 1]
  <2>1. Appended(e, n) = a
    BY <1>2 DEF Appended
  <2>2. /\ DOMAIN a = Fields /\ a.dropping = TRUE /\ a.malformed = e.malformed + 1
        /\ a.recognized = e.recognized /\ a.unknown = e.unknown /\ a.blank = e.blank
    BY DEF Counting, Fields, Counters
  <2> HIDE DEF a
  <2>3. e.recognized \in Int /\ e.unknown \in Int /\ e.malformed \in Int /\ e.blank \in Int
    BY CountingFields
  <2>4. Counting(a)
    <3>1. a.dropping \in BOOLEAN
      BY <2>2, Zenon
    <3>2. QED
      BY <2>2, <2>3, <3>1, CountingFields
  <2>5. QED
    BY <1>2, <2>1, <2>2, <2>3, <2>4 DEF Total, Dropped
<1>3. CASE ~e.dropping /\ ~(e.pending + n > LineLimit)
  <2> DEFINE a == [e EXCEPT !.pending = @ + n]
  <2>1. Appended(e, n) = a
    BY <1>3 DEF Appended
  <2>2. /\ DOMAIN a = Fields /\ a.dropping = e.dropping /\ \A c \in Counters : a[c] = e[c]
    BY DEF Counting, Fields, Counters
  <2> HIDE DEF a
  <2>3. QED
    BY <1>3, <2>1, <2>2 DEF Total, Dropped, Counting, Counters
<1>4. QED
  BY <1>1, <1>2, <1>3

\* Turns and item durations are kept beside the counters.
LEMMA TurnsDoNotCount ==
  ASSUME NEW e, Counting(e), NEW l
  PROVE  LET t == Timed(Turned(e, l), l)
         IN  DOMAIN t = Fields /\ t.dropping = e.dropping /\ \A c \in Counters : t[c] = e[c]
<1> DEFINE u == Turned(e, l)
<1>1. DOMAIN u = Fields /\ u.dropping = e.dropping /\ \A c \in Counters : u[c] = e[c]
  BY DEF Turned, Counting, Fields, Counters
<1> HIDE DEF u
<1>2. DOMAIN Timed(u, l) = Fields /\ Timed(u, l).dropping = u.dropping
      /\ \A c \in Counters : Timed(u, l)[c] = u[c]
  BY <1>1 DEF Timed, Fields, Counters
<1>3. QED
  BY <1>1, <1>2 DEF u

LEMMA ReadCounts ==
  ASSUME NEW e, Counting(e), NEW l \in Lines
  PROVE  /\ Counting(Read(e, l)) /\ Read(e, l).dropping = e.dropping
         /\ Total(Read(e, l)) = Total(e) + 1
<1> DEFINE c == [e EXCEPT !.pending = 0, ![Class(l)] = @ + 1,
                          !.errors = IF l.kind \in {"error", "turn.failed"} /\ @ < MaxErrors
                                     THEN @ + 1 ELSE @]
           t == Timed(Turned(c, l), l)
<1>1. Class(l) \in Counters
  BY DEF Class, Lines, Counters
<1>2. /\ DOMAIN c = Fields /\ c.dropping = e.dropping
      /\ \A k \in Counters : c[k] = IF k = Class(l) THEN e[k] + 1 ELSE e[k]
  BY <1>1 DEF Counting, Fields, Counters
<1>3. Read(e, l) = t
  BY DEF Read
<1> HIDE DEF c
<1>4. Counting(c)
  BY <1>2 DEF Counting
<1>5. DOMAIN t = Fields /\ t.dropping = c.dropping /\ \A k \in Counters : t[k] = c[k]
  BY <1>4, TurnsDoNotCount
<1> HIDE DEF t
<1>6. \A k \in Counters : t[k] = (IF k = Class(l) THEN e[k] + 1 ELSE e[k]) /\ e[k] \in Int
  BY <1>2, <1>5 DEF Counting
<1>7. Total(t) = Total(e) + 1
  BY <1>1, <1>6 DEF Total, Counters
<1>8. QED
  BY <1>2, <1>3, <1>5, <1>6, <1>7 DEF Counting

\* A line that is over has been counted once: now, or when it was dropped.
LEMMA LineEndCounts ==
  ASSUME NEW e, Counting(e), NEW f \in LineEnds(e)
  PROVE  Counting(f) /\ ~f.dropping /\ Total(f) = Total(e) - Dropped(e) + 1
<1>1. CASE e.dropping
  <2> DEFINE a == [e EXCEPT !.dropping = FALSE]
  <2>1. f = a
    BY <1>1 DEF LineEnds
  <2>2. DOMAIN a = Fields /\ a.dropping = FALSE /\ \A c \in Counters : a[c] = e[c]
    BY DEF Counting, Fields, Counters
  <2> HIDE DEF a
  <2>3. Counting(a)
    BY <2>2 DEF Counting
  <2>4. a.recognized = e.recognized /\ a.unknown = e.unknown /\ a.malformed = e.malformed
        /\ a.blank = e.blank
    BY <2>2 DEF Counters
  <2>5. QED
    BY <1>1, <2>1, <2>2, <2>3, <2>4, CountingFields DEF Total, Dropped
<1>2. CASE ~e.dropping
  <2>1. PICK l \in Lines : f = Read(e, l)
    BY <1>2 DEF LineEnds
  <2>2. QED
    BY <1>2, <2>1, ReadCounts DEF Dropped, Total, Counting, Counters
<1>3. QED
  BY <1>1, <1>2 DEF Counting

LEMMA CountInvStep ==
  ASSUME CountInv, [Next]_vars
  PROVE  CountInv'
<1>1. Counting(events) /\ ended \in Int /\ Total(events) = ended + Dropped(events)
      /\ Total(events) \in Int
  BY DEF CountInv, Counting, Total, Counters
<1>2. CASE UNCHANGED <<events, ended>>
  <2>1. pc' \notin {"running", "killed"} => ~events.dropping
    <3>1. CASE Prepare
      BY <3>1 DEF Prepare, Configure, ReadInvocation, CheckWorkspace, MakeState, ReadIdentity,
                  ReadVersion, Launch, Stage, Ends, CountInv
    <3>2. CASE Conclude \/ CheckBranch \/ Respond
      BY <3>2 DEF Conclude, CheckBranch, Respond, Stage, Ends, CountInv
    <3>3. CASE Close
      <4>1. PICK f \in LineEnds(events) : events' = f
        BY <3>3 DEF Close
      <4>2. QED
        BY <1>1, <1>2, <4>1, LineEndCounts
    <3>4. CASE pc' = pc \/ Escalate
      BY <3>4 DEF Escalate, CountInv
    <3>5. QED
      BY <3>1, <3>2, <3>3, <3>4
         DEF Next, Callback, HandleSignal, Timeout, LaunchFails, Output, Collected, AgentActs,
             GroupActs, Terminate, Over, vars, Kept
  <2>2. QED
    BY <1>1, <1>2, <2>1 DEF CountInv, Counting, Total, Dropped
<1>3. CASE Output /\ ~UNCHANGED <<events, ended>>
  <2>1. PICK n, m :
          \/ events' = Appended(events, n) /\ ended' = ended
          \/ events' \in LineEnds(Appended(events, m)) /\ ended' = ended + 1
    BY <1>3 DEF Output
  <2>2. pc' = "running"
    BY <1>3 DEF Output, Collected, Kept
  <2>3. CASE events' = Appended(events, n) /\ ended' = ended
    <3>1. Counting(events') /\ Total(events') - Dropped(events') = Total(events) - Dropped(events)
      BY <1>1, <2>3, AppendCounts
    <3>2. Total(events') \in Int
      BY <3>1, CountingFields DEF Total
    <3>3. Total(events') = ended' + Dropped(events')
      BY <1>1, <2>3, <3>1, <3>2 DEF Dropped
    <3>4. QED
      BY <1>1, <2>2, <2>3, <3>1, <3>3 DEF CountInv
  <2>4. CASE events' \in LineEnds(Appended(events, m)) /\ ended' = ended + 1
    <3> DEFINE a == Appended(events, m)
    <3>1. Counting(a) /\ Total(a) - Dropped(a) = Total(events) - Dropped(events)
      BY <1>1, AppendCounts
    <3> HIDE DEF a
    <3>2. Counting(events') /\ ~events'.dropping /\ Total(events') = Total(a) - Dropped(a) + 1
      BY <2>4, <3>1, LineEndCounts DEF a
    <3>3. QED
      BY <1>1, <2>2, <2>4, <3>1, <3>2 DEF CountInv, Dropped
  <2>5. QED
    BY <2>1, <2>3, <2>4
<1>4. CASE Close
  <2>1. events' \in LineEnds(events) /\ ended' = ended + 1
    BY <1>4 DEF Close
  <2>2. Counting(events') /\ ~events'.dropping /\ Total(events') = Total(events) - Dropped(events) + 1
    BY <1>1, <2>1, LineEndCounts
  <2>3. QED
    BY <1>1, <2>1, <2>2 DEF CountInv, Dropped
<1>5. QED
  BY <1>2, <1>3, <1>4
     DEF Next, Prepare, Callback, Configure, ReadInvocation, CheckWorkspace, MakeState,
         ReadIdentity, ReadVersion, Launch, HandleSignal, Timeout, LaunchFails, Conclude,
         CheckBranch, Respond, AgentActs, GroupActs, Terminate, Escalate, Over, vars, Untouched, stream

\* Every line of the agent is counted exactly once, for every limit and chunking.
THEOREM LinesCountOnce ==
  Spec => []LinesAreCounted
<1>1. Init => CountInv
  BY DEF Init, NoEvents, CountInv, Counting, Total, Dropped, Fields, Counters
<1>2. CountInv /\ [Next]_vars => CountInv'
  BY CountInvStep
<1>3. CountInv => LinesAreCounted
  BY DEF CountInv, LinesAreCounted, Total, Dropped
<1>4. QED
  BY <1>1, <1>2, <1>3, PTL DEF Spec
=============================================================================
