------------------------------ MODULE WorkForest ------------------------------
(***************************************************************************)
(* What src/engine/index.ts promises about the work of a run, without      *)
(* queues, rounds, budgets, workspaces or executors: a forest of work      *)
(* units that only grows below ACTIVE units, in which a unit that spawned  *)
(* work waits until all of it is resolved, a resolved unit stays resolved, *)
(* and a stop resolves everything that is still open at once.              *)
(***************************************************************************)
CONSTANTS
  Work,     \* work units
  Root,     \* the one a run begins with
  None      \* not a work unit: the parent of lineage main work

VARIABLES
  status,   \* status of a work unit, "ABSENT" until it is created
  parent    \* the unit that spawned it; None for lineage main work

Resolved == {"BLOCKED", "COMPLETED", "BRANCHED"}
Having(st) == {w \in Work : status[w] = st}
Spawned(w) == {c \in Work : status[c] # "ABSENT" /\ parent[c] = w}

Init ==
  /\ status = [w \in Work |-> IF w = Root THEN "ACTIVE" ELSE "ABSENT"]
  /\ parent = [w \in Work |-> None]

\* A unit fails, blocks itself or completes.
Settle(w) ==
  /\ status[w] = "ACTIVE"
  /\ \E st \in {"BLOCKED", "COMPLETED"} : status' = [status EXCEPT ![w] = st]
  /\ UNCHANGED parent

\* New units C under p (or under nobody); w takes status st.
Grow(w, C, st, p) ==
  /\ status[w] = "ACTIVE"
  /\ C # {}
  /\ status' = [v \in Work |-> IF v = w THEN st
                               ELSE IF v \in C THEN "ACTIVE" ELSE status[v]]
  /\ parent' = [v \in Work |-> IF v \in C THEN p ELSE parent[v]]
Branch(w, C) == Grow(w, C, "BRANCHED", None)
Delegate(w, C) == Grow(w, C, "WAITING", w)

\* Units whose spawned work is resolved go on, with its outcomes.
Resume(S) ==
  /\ S # {}
  /\ \A w \in S : \A c \in Spawned(w) : status[c] \in Resolved
  /\ status' = [w \in Work |-> IF w \in S THEN "ACTIVE" ELSE status[w]]
  /\ UNCHANGED parent

Abandon ==
  /\ status' = [w \in Work |-> IF status[w] \in {"ACTIVE", "WAITING"}
                               THEN "BLOCKED" ELSE status[w]]
  /\ UNCHANGED parent

Next ==
  \/ \E w \in Work : Settle(w)
  \/ \E w \in Work, C \in SUBSET Having("ABSENT") : Branch(w, C) \/ Delegate(w, C)
  \/ \E S \in SUBSET Having("WAITING") : Resume(S)
  \/ Abandon

Spec == Init /\ [][Next]_<<status, parent>>
=============================================================================
