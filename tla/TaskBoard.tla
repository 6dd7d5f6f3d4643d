----------------------------- MODULE TaskBoard -----------------------------
(* What one session promises to whoever reads its State Board between two   *)
(* commands: rows follow the arrows, a task is completed from an eligible    *)
(* state only, and the close of the session, together with the tasks it     *)
(* carries away, is one step that nothing takes back.                       *)
EXTENDS Integers

CONSTANTS Tasks, Row0, Policies, Arrows,
          Dests   \* continuations a task may move to

\* The states a task may be completed from, and the final ones.
AtWork  == {"in_progress", "implemented_untested", "tested_needs_spec_validation"}
Settled == {"done", "moved"}

VARIABLES
  rows,     \* [Tasks -> row]
  closed    \* the session is closed

Init == rows = [t \in Tasks |-> Row0] /\ closed = FALSE

\* Entering in_progress or problem opens a new attempt of the task.
Enter(row, s) ==
  [row EXCEPT !.state = s, !.attempt = IF s \in {"in_progress", "problem"} THEN @ + 1 ELSE @]

Start(S) ==
  /\ ~closed /\ \A t \in S : "in_progress" \in Arrows[rows[t].state]
  /\ rows' = [t \in Tasks |-> IF t \in S THEN Enter(rows[t], "in_progress") ELSE rows[t]]
  /\ UNCHANGED closed

Transition(t, s, policy) ==
  /\ ~closed /\ s # "done" /\ s \in Arrows[rows[t].state]
  /\ rows' = [rows EXCEPT ![t] = [Enter(@, s) EXCEPT !.policy = policy]]
  /\ UNCHANGED closed

\* Tasks of one command; when it is killed, those it had reached.
Complete(S) ==
  /\ ~closed /\ \A t \in S : rows[t].state \in AtWork
  /\ rows' = [t \in Tasks |-> IF t \in S THEN [rows[t] EXCEPT !.state = "done"] ELSE rows[t]]
  /\ UNCHANGED closed

\* The rows once the open tasks have moved to session dest; work in hand is given up first.
Leave(row) == Enter(IF row.state \in {"pending", "problem"} THEN row ELSE Enter(row, "problem"), "moved")
Handed(dest) ==
  [t \in Tasks |-> IF rows[t].state \in Settled THEN rows[t]
                   ELSE [Leave(rows[t]) EXCEPT !.dest = dest]]

\* Open tasks go to a continuation, also when the close that moved them did not come about.
Carry(dest) == ~closed /\ rows' = Handed(dest) /\ UNCHANGED closed

Close(dest) == ~closed /\ rows' = Handed(dest) /\ closed' = TRUE

Next ==
  \/ \E S \in SUBSET Tasks : Start(S) \/ Complete(S)
  \/ \E t \in Tasks, policy \in Policies : \E s \in Arrows[rows[t].state] : Transition(t, s, policy)
  \/ \E dest \in Dests : Carry(dest) \/ Close(dest)

Spec == Init /\ [][Next]_<<rows, closed>>
=============================================================================
