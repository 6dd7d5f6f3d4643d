------------------------- MODULE TaskSettlementProofs -------------------------
(***************************************************************************)
(* The task rows of TaskLifecycle: a closed session has only settled rows, *)
(* a settled row is final, a done row is backed by evidence of its         *)
(* attempt, every completion passes the strict verification of close, and  *)
(* evidence is filed under the attempt it was produced in; and the module  *)
(* implements the abstract board of TaskBoard.                             *)
(***************************************************************************)
EXTENDS TaskLifecycleProofs

\* Between these two writes of a handler the session is open.
Opened == {"batchEvidence", "batchDone", "batchUndo", "carry", "carried", "remap"}

\* What a process between two writes knows of the session's close.
KnowsClose(p) ==
  /\ w[p].pc \in Opened => ~closed
  /\ w[p].pc = "carried" => Blocking = {}
  /\ w[p].pc = "closing" => closed /\ ~closeLogged
  /\ w[p].pc = "logging" => closed

CloseInv == TypeInv /\ ClosedIsSettled /\ \A p \in Procs : KnowsClose(p)

-----------------------------------------------------------------------------

\* Entry i backs a done row of task t, as the ledgers are.
Backs(i, row, t) ==
  /\ evidence[i].task = t /\ evidence[i].attempt = row.attempt
  /\ Passing(evidence[i], row.policy)
  /\ evidence[i].run # 0 =>
       LET r == evidence[i].run IN
       /\ r \in 1..Len(runs) /\ runs[r].task = t /\ runs[r].attempt = row.attempt
       /\ CompleteRun(r) /\ runs[r].term = "passed" /\ runs[r].steps[Steps] = i

\* The done rows of a board are backed by the first n entries.
BoardBacked(board, n) ==
  \A t \in Tasks : board[t].state = "done" => \E i \in 1..n : Backs(i, board[t], t)

Remembering == Batching \cup {"carry", "carried", "closing"}

\* The entry just filed for the only task of a `done` with one command.
JustFiled(p) ==
  LET t == w[p].t IN
  /\ w[p].ev \in 1..Len(evidence) /\ w[p].ev = Len(evidence)
  /\ evidence[w[p].ev].task = t /\ evidence[w[p].ev].attempt = task[t].attempt
  /\ evidence[w[p].ev].auth = task[t].policy /\ evidence[w[p].ev].run = 0

\* What a batch has filed so far: one entry for each task, of its current attempt.
BatchFiled(p) ==
  /\ \A i \in 1..Len(evidence) : i > w[p].len =>
       LET e == evidence[i] IN
       /\ e.task \in w[p].ts /\ e.attempt = task[e.task].attempt
       /\ e.kind = "observed" /\ e.ok = w[p].ok /\ e.run = 0
       /\ \A j \in 1..Len(evidence) : j > w[p].len /\ evidence[j].task = e.task => j = i
  /\ w[p].ok => \A t \in w[p].ts : task[t].policy = "execution" /\ task[t].state \in Eligible \cup {"done"}

\* What a process between two writes knows of the rows.
KnowsRows(p) ==
  /\ w[p].pc \in Remembering =>
       \A t \in Tasks : w[p].rows[t].state = "done" => task[t] = w[p].rows[t]
  /\ w[p].pc \in Batching => BoardBacked(w[p].rows, w[p].len)
  /\ w[p].pc = "batchUndo" => task = w[p].rows
  /\ w[p].pc = "finish" => JustFiled(p)
  /\ w[p].pc \in {"batchEvidence", "batchDone"} => BatchFiled(p)
  /\ w[p].pc = "batchDone" => w[p].ok /\ \A t \in w[p].ts : Filed(p, t)

BackInv == RunInv /\ DoneIsBacked /\ \A p \in Procs : KnowsRows(p)

-----------------------------------------------------------------------------

\* Attempts as a process has seen them, when nothing takes an attempt back.
KnowsAttempt(p) ==
  /\ w[p].pc \notin {"carry", "carried", "remap"}
  /\ w[p].pc \in {"prepare", "reconcile", "step"} => w[p].mode = "multi"
  /\ w[p].pc = "closing" => w[p].rows = task
  /\ w[p].pc \in Batching => \A t \in Tasks : w[p].rows[t].attempt = task[t].attempt
  /\ w[p].pc = "batchEvidence" => \A t \in w[p].ts : w[p].began[t] = task[t].attempt
  /\ w[p].pc \in {"verify", "running"} /\ w[p].mode # "multi" =>
       \A t \in Tasks : w[p].snap[t] <= task[t].attempt
  /\ Stepping(p) => runs[w[p].run].attempt <= task[w[p].t].attempt
  /\ w[p].pc = "running" =>
       \A t \in Tasks : /\ w[p].began[t] <= task[t].attempt
                        /\ w[p].mode # "multi" => w[p].snap[t] <= w[p].began[t]
  /\ w[p].pc = "running" /\ w[p].mode = "multi" => runs[w[p].run].attempt <= w[p].began[w[p].t]

AttemptInv == RunInv /\ EvidenceIsOfItsAttempt /\ \A p \in Procs : KnowsAttempt(p)

-----------------------------------------------------------------------------
(* The shapes of a step of p.                                              *)

Only(p) == \A q \in Procs : q # p => w'[q] = w[q]

\* Places between two writes at which a process owes the rows or the close something.
Owing == Batching \cup {"finish", "carry", "carried", "closing", "remap", "logging"}

QuietStep(p) ==
  \/ \E mode \in Modes, S \in SUBSET Tasks : DoneBegin(p, mode, S)
  \/ AcquireLease(p) \/ Busy(p) \/ LockTimeout(p) \/ Snapshot(p) \/ VerifyBegin(p)
  \/ LeaseLost(p) \/ BatchEnd(p) \/ Crash(p)

RunStep(p) ==
  \/ Prepare(p) \/ Reconcile(p) \/ Recover(p) \/ Supersede(p) \/ StartRun(p)
  \/ \E ok \in BOOLEAN : CommitStep(p, ok)
  \/ \E io \in BOOLEAN : RecordStep(p, io)
  \/ FailRun(p) \/ FailTerminal(p) \/ CompleteBegin(p) \/ Finalize(p)

\* What the step makes of the place of p.
LEMMA PlaceAfter ==
  ASSUME TypeOK, NEW p \in Procs, NEW x, w' = [w EXCEPT ![p] = x]
  PROVE  w'[p] = x /\ Only(p)
  BY DEF TypeOK, Only

LEMMA ReturnIsOnly ==
  ASSUME TypeOK, NEW p \in Procs, Return(p)
  PROVE  w'[p] = Idle /\ w'[p].pc = "idle" /\ Only(p)
<1>1. w' = [w EXCEPT ![p] = Idle]
  BY DEF Return
<1>2. Idle.pc = "idle"
  BY DEF Idle
<1> QED
  BY <1>1, <1>2, PlaceAfter

LEMMA GotoIsOnly ==
  ASSUME TypeOK, NEW p \in Procs, NEW pc, Goto(p, pc)
  PROVE  /\ w'[p].pc = pc /\ Only(p)
         /\ w'[p].t = w[p].t /\ w'[p].ts = w[p].ts /\ w'[p].mode = w[p].mode /\ w'[p].ok = w[p].ok
         /\ w'[p].snap = w[p].snap /\ w'[p].began = w[p].began /\ w'[p].run = w[p].run
         /\ w'[p].rows = w[p].rows /\ w'[p].len = w[p].len
<1>1. PICK x \in Worker : x = w[p]
  BY DEF TypeOK
<1>2. w' = [w EXCEPT ![p] = [x EXCEPT !.pc = pc]]
  BY <1>1 DEF Goto
<1>3. w'[p] = [x EXCEPT !.pc = pc] /\ Only(p)
  BY <1>2, PlaceAfter
<1> QED
  BY <1>1, <1>3 DEF Worker

\* While nobody else has the session lock, no other process is between two writes.
LEMMA NobodyBetween ==
  ASSUME TypeInv, NEW p \in Procs, lock = NoProc \/ lock = p \/ w[p].pc \in Holding
  PROVE  \A q \in Procs : w[q].pc \in Holding => q = p
  BY ProcsAssumption DEF TypeInv, LockHeld

\* The steps that change neither rows nor closed, and end at a place that owes them nothing.
LEMMA Undemanding ==
  ASSUME TypeInv, NEW p \in Procs, QuietStep(p) \/ RunStep(p)
  PROVE  UNCHANGED <<task, closed, closeLogged>> /\ Only(p) /\ w'[p].pc \notin Owing
<1> USE DEF TypeInv
<1>1. w \in [Procs -> Worker] /\ w[p] \in Worker
  BY DEF TypeOK
<1>2. UNCHANGED <<task, closed, closeLogged>>
  BY DEF QuietStep, RunStep, DoneBegin, AcquireLease, Busy, LockTimeout, Snapshot, VerifyBegin,
         LeaseLost, BatchEnd, Crash, Prepare, Reconcile, Recover, Supersede, StartRun, CommitStep,
         RecordStep, FailRun, FailTerminal, CompleteBegin, Finalize, Keep, files
<1> SUFFICES Only(p) /\ w'[p].pc \notin Owing
  BY <1>2
<1>3. ASSUME NEW x, w' = [w EXCEPT ![p] = x], x.pc \notin Owing
      PROVE  Only(p) /\ w'[p].pc \notin Owing
  BY <1>3, PlaceAfter
<1>4. ASSUME Return(p) PROVE Only(p) /\ w'[p].pc \notin Owing
  BY <1>4, ReturnIsOnly DEF Owing, Batching
<1>5. ASSUME NEW pc, pc \notin Owing, Goto(p, pc) PROVE Only(p) /\ w'[p].pc \notin Owing
  BY <1>5, GotoIsOnly
<1>6. ASSUME w' = w, w[p].pc \notin Owing PROVE Only(p) /\ w'[p].pc \notin Owing
  BY <1>6 DEF Only
<1>7. CASE Busy(p) \/ LeaseLost(p) \/ Crash(p) \/ BatchEnd(p)
  BY <1>4, <1>7 DEF Busy, LeaseLost, Crash, BatchEnd
<1>8. CASE \E mode \in Modes, S \in SUBSET Tasks : DoneBegin(p, mode, S)
  <2>1. PICK mode \in Modes, S \in SUBSET Tasks, t \in Tasks :
          w' = [w EXCEPT ![p] = [Idle EXCEPT !.pc = "acquire", !.mode = mode, !.ts = S, !.t = t]]
    BY <1>8 DEF DoneBegin
  <2>2. [Idle EXCEPT !.pc = "acquire", !.mode = mode, !.ts = S, !.t = t].pc \notin Owing
    BY DEF Idle, Owing, Batching
  <2> QED
    BY <1>3, <2>1, <2>2
<1>9. CASE AcquireLease(p)
  <2>1. CASE Goto(p, "snapshot")
    BY <1>5, <2>1 DEF Owing, Batching
  <2>2. ASSUME NEW u, w' = [w EXCEPT ![p].t = u] PROVE Only(p) /\ w'[p].pc \notin Owing
    <3>1. [w[p] EXCEPT !.t = u].pc \notin Owing
      BY <1>1, <1>9 DEF AcquireLease, At, Worker, Owing, Batching
    <3> QED
      BY <1>3, <2>2, <3>1
  <2> QED
    BY <1>9, <2>1, <2>2 DEF AcquireLease
<1>10. ASSUME NEW y, w' = [w EXCEPT ![p] = [w[p] EXCEPT !.pc = "fail", !.term = y]]
       PROVE  Only(p) /\ w'[p].pc \notin Owing
  <2>1. [w[p] EXCEPT !.pc = "fail", !.term = y].pc \notin Owing
    BY <1>1 DEF Worker, Owing, Batching
  <2> QED
    BY <1>3, <1>10, <2>1
<1>11. CASE LockTimeout(p)
  BY <1>4, <1>10, <1>11 DEF LockTimeout
<1>12. CASE Snapshot(p)
  <2>1. CASE Return(p)
    BY <1>4, <2>1
  <2>2. ASSUME NEW snap, NEW pc, pc \in {"prepare", "verify"}, w' = [w EXCEPT ![p] = [w[p] EXCEPT !.snap = snap, !.pc = pc]]
        PROVE  Only(p) /\ w'[p].pc \notin Owing
    <3>1. [w[p] EXCEPT !.snap = snap, !.pc = pc].pc \notin Owing
      BY <1>1, <2>2 DEF Worker, Owing, Batching
    <3> QED
      BY <1>3, <2>2, <3>1
  <2>3. CASE ~Return(p)
    <3>1. PICK pc \in {"prepare", "verify"} : pc = IF w[p].mode = "multi" THEN "prepare" ELSE "verify"
      OBVIOUS
    <3>2. w' = [w EXCEPT ![p] = [w[p] EXCEPT !.snap = [t \in Tasks |-> task[t].attempt], !.pc = pc]]
      BY <1>12, <2>3, <3>1 DEF Snapshot
    <3> QED
      BY <2>2, <3>2
  <2> QED
    BY <2>1, <2>3
<1>13. CASE VerifyBegin(p)
  <2>1. ASSUME NEW began, w' = [w EXCEPT ![p] = [w[p] EXCEPT !.pc = "running", !.began = began]]
        PROVE  Only(p) /\ w'[p].pc \notin Owing
    <3>1. [w[p] EXCEPT !.pc = "running", !.began = began].pc \notin Owing
      BY <1>1 DEF Worker, Owing, Batching
    <3> QED
      BY <1>3, <2>1, <3>1
  <2> QED
    BY <1>13, <2>1 DEF VerifyBegin
<1>14. CASE Prepare(p)
  <2>1. ASSUME NEW r, w' = [w EXCEPT ![p] = [w[p] EXCEPT !.pc = "reconcile", !.run = r]]
        PROVE  Only(p) /\ w'[p].pc \notin Owing
    <3>1. [w[p] EXCEPT !.pc = "reconcile", !.run = r].pc \notin Owing
      BY <1>1 DEF Worker, Owing, Batching
    <3> QED
      BY <1>3, <2>1, <3>1
  <2> QED
    BY <1>4, <1>14, <2>1 DEF Prepare
<1>15. CASE Reconcile(p) \/ Supersede(p)
  <2>1. w[p].pc \notin Owing
    BY <1>15 DEF Reconcile, Supersede, At, Owing, Batching
  <2> QED
    BY <1>4, <1>6, <1>15, <2>1 DEF Reconcile, Supersede
<1>16. CASE Recover(p) \/ FailRun(p) \/ CompleteBegin(p) \/ Finalize(p)
  BY <1>4, <1>5, <1>16 DEF Recover, FailRun, CompleteBegin, Finalize, Owing, Batching
<1>17. CASE StartRun(p)
  <2>1. ASSUME NEW r, w' = [w EXCEPT ![p] = [w[p] EXCEPT !.pc = "verify", !.run = r, !.step = 1]]
        PROVE  Only(p) /\ w'[p].pc \notin Owing
    <3>1. [w[p] EXCEPT !.pc = "verify", !.run = r, !.step = 1].pc \notin Owing
      BY <1>1 DEF Worker, Owing, Batching
    <3> QED
      BY <1>3, <2>1, <3>1
  <2> QED
    BY <1>4, <1>17, <2>1 DEF StartRun
<1>18. ASSUME NEW ok \in BOOLEAN, CommitStep(p, ok) PROVE Only(p) /\ w'[p].pc \notin Owing
  <2>1. ASSUME NEW n, w' = [w EXCEPT ![p] = [w[p] EXCEPT !.pc = "step", !.ok = ok, !.ev = n]]
        PROVE  Only(p) /\ w'[p].pc \notin Owing
    <3>1. [w[p] EXCEPT !.pc = "step", !.ok = ok, !.ev = n].pc \notin Owing
      BY <1>1 DEF Worker, Owing, Batching
    <3> QED
      BY <1>3, <2>1, <3>1
  <2>2. \/ w' = [w EXCEPT ![p] = [w[p] EXCEPT !.pc = "step", !.ok = ok, !.ev = Len(evidence) + 1]]
        \/ w' = [w EXCEPT ![p] = [w[p] EXCEPT !.pc = "fail", !.term = "interrupted"]]
    BY <1>18 DEF CommitStep
  <2> QED
    BY <1>10, <2>1, <2>2
<1>19. CASE \E io \in BOOLEAN : RecordStep(p, io)
  <2>1. ASSUME NEW pc \in {"fail", "complete", "verify"}, NEW s, NEW y,
               w' = [w EXCEPT ![p] = [w[p] EXCEPT !.pc = pc, !.step = s, !.term = y]]
        PROVE  Only(p) /\ w'[p].pc \notin Owing
    <3>1. [w[p] EXCEPT !.pc = pc, !.step = s, !.term = y].pc \notin Owing
      BY <1>1 DEF Worker, Owing, Batching
    <3> QED
      BY <1>3, <2>1, <3>1
  <2>2. PICK io \in BOOLEAN : RecordStep(p, io)
    BY <1>19
  <2>3. CASE io /\ Owns(p)
    <3>1. PICK pc \in {"fail", "complete", "verify"} :
            pc = CASE ~w[p].ok -> "fail"
                   [] w[p].ok /\ w[p].step = Steps -> "complete"
                   [] OTHER -> "verify"
      OBVIOUS
    <3>2. w' = [w EXCEPT ![p] = [w[p] EXCEPT !.pc = pc,
                                   !.step = IF w[p].ok /\ w[p].step < Steps THEN w[p].step + 1 ELSE w[p].step,
                                   !.term = IF w[p].ok THEN "none" ELSE "failed"]]
      BY <2>2, <2>3, <3>1 DEF RecordStep
    <3> QED
      BY <2>1, <3>2
  <2> QED
    BY <1>10, <2>2, <2>3 DEF RecordStep
<1>20. CASE FailTerminal(p)
  BY <1>4, <1>20 DEF FailTerminal
<1> QED
  BY <1>2, <1>7, <1>8, <1>9, <1>11, <1>12, <1>13, <1>14, <1>15, <1>16, <1>17, <1>18, <1>19,
     <1>20 DEF QuietStep, RunStep

\* The steps that write rows, or file what rows rest on.
RowStep(p) ==
  \/ \E ok \in BOOLEAN : CommitSingle(p, ok)
  \/ FinishSingle(p) \/ DoneBare(p) \/ CommitRun(p)

BatchStep(p) ==
  \/ \E ok \in BOOLEAN : CommitBatch(p, ok)
  \/ \E t \in Tasks : BatchEvidence(p, t) \/ BatchDone(p, t)
  \/ BatchUndo(p) \/ BatchUndoEvidence(p)

CloseStep(p) ==
  \/ CloseOpen(p) \/ CarryOpen(p) \/ CloseAgain(p) \/ CarryRows(p) \/ CarryClose(p)
  \/ \E io \in BOOLEAN : ClosePlan(p, io) \/ CloseEvent(p, io)

\* Every step of a process is one of these.
LEMMA StepKinds ==
  ASSUME NEW p \in Procs, Begin(p) \/ Continue(p) \/ Crash(p)
  PROVE  QuietStep(p) \/ RunStep(p) \/ RowStep(p) \/ BatchStep(p) \/ CloseStep(p)
  BY DEF Begin, Continue, QuietStep, RunStep, RowStep, BatchStep, CloseStep

\* doneTask changes the state of one row, if any.
LEMMA OneDone ==
  ASSUME TypeOK, NEW p \in Procs, FinishSingle(p) \/ DoneBare(p) \/ CommitRun(p)
  PROVE  /\ \A u \in Tasks : \/ task'[u] = task[u]
                            \/ /\ task'[u].state = "done" /\ task[u].state \in Eligible
                               /\ task'[u].attempt = task[u].attempt
                               /\ task'[u].policy = task[u].policy /\ u = w[p].t
         /\ w'[p].pc = "idle" /\ Only(p)
         /\ UNCHANGED <<evidence, runs, closed, closeLogged>>
<1>1. /\ \/ task' = task
         \/ task' = [task EXCEPT ![w[p].t].state = "done"] /\ task[w[p].t].state \in Eligible
      /\ Return(p) /\ UNCHANGED <<evidence, runs, closed, closeLogged>>
  BY DEF FinishSingle, DoneBare, CommitRun, Eligible
<1>2. \A u \in Tasks : task[u] \in Row
  BY DEF TypeOK
<1>3. task \in [Tasks -> Row]
  BY DEF TypeOK
<1>4. ASSUME task' = [task EXCEPT ![w[p].t].state = "done"], NEW u \in Tasks, u = w[p].t
      PROVE  /\ task'[u].state = "done" /\ task'[u].attempt = task[u].attempt
             /\ task'[u].policy = task[u].policy
  BY <1>2, <1>3, <1>4 DEF Row
<1>5. ASSUME task' = [task EXCEPT ![w[p].t].state = "done"], NEW u \in Tasks, u # w[p].t
      PROVE  task'[u] = task[u]
  BY <1>3, <1>5
<1> QED
  BY <1>1, <1>4, <1>5, ReturnIsOnly

\* What transitionTaskStateChains makes of a row.
LEMMA Moved ==
  ASSUME NEW row \in Row, NEW s \in States
  PROVE  /\ Move(row, s) \in Row /\ Move(row, s).state = s /\ Move(row, s).policy = row.policy
         /\ Move(row, s).attempt = row.attempt + Bump(s) /\ Bump(s) \in {0, 1}
         /\ row.attempt \in Nat /\ Move(row, s).attempt >= row.attempt
<1>1. Bump(s) \in {0, 1}
  BY DEF Bump
<1>2. row.attempt \in Nat
  BY DEF Row
<1>3. PICK n \in Nat : n = row.attempt + Bump(s)
  BY <1>1, <1>2
<1>4. Move(row, s) = [row EXCEPT !.state = s, !.attempt = n]
  BY <1>3 DEF Move
<1>5. \A x \in Row : /\ [x EXCEPT !.state = s, !.attempt = n] \in Row
                     /\ [x EXCEPT !.state = s, !.attempt = n].state = s
                     /\ [x EXCEPT !.state = s, !.attempt = n].policy = x.policy
                     /\ [x EXCEPT !.state = s, !.attempt = n].attempt = n
  BY DEF Row
<1>6. PICK b \in {0, 1} : b = Bump(s)
  BY <1>1
<1>7. row.attempt + b >= row.attempt
  BY <1>2
<1> QED
  BY <1>1, <1>2, <1>3, <1>4, <1>5, <1>6, <1>7

\* The operator's arrows leave open states only, and never lead to done.
LEMMA OperatorRows ==
  ASSUME TypeOK, Operator, NEW t \in Tasks
  PROVE  \/ task'[t] = task[t]
         \/ /\ task[t].state \notin Settled /\ task'[t].state # "done"
            /\ task'[t].attempt >= task[t].attempt
<1>1. task[t] \in Row
  BY DEF TypeOK
<1>2. ASSUME NEW S \in SUBSET Tasks, StartTasks(S), t \in S
      PROVE  /\ task[t].state \notin Settled /\ task'[t].state # "done"
             /\ task'[t].attempt >= task[t].attempt
  <2>1. task'[t] = Move(task[t], "in_progress") /\ task[t].state \notin Settled
    BY <1>2 DEF StartTasks, Arrows, Settled
  <2> QED
    BY <1>1, <2>1, Moved DEF States
<1>3. ASSUME NEW S \in SUBSET Tasks, StartTasks(S), t \notin S
      PROVE  task'[t] = task[t]
  BY <1>3 DEF StartTasks
<1>4. ASSUME NEW u \in Tasks, NEW s \in States, NEW policy \in Policies, TransitionTask(u, s, policy), u = t
      PROVE  /\ task[t].state \notin Settled /\ task'[t].state # "done"
             /\ task'[t].attempt >= task[t].attempt
  <2>1. /\ task' = [task EXCEPT ![t] = [Move(task[t], s) EXCEPT !.policy = policy]] /\ s # "done"
        /\ task[t].state \notin Settled
    BY <1>4 DEF TransitionTask, Arrows, Settled
  <2>2. PICK x \in Row : x = Move(task[t], s) /\ x.state = s /\ x.attempt >= task[t].attempt
    BY <1>1, Moved
  <2>3. /\ [x EXCEPT !.policy = policy].state = s
        /\ [x EXCEPT !.policy = policy].attempt = x.attempt
    BY <2>2 DEF Row
  <2>4. task'[t] = [x EXCEPT !.policy = policy]
    BY <2>1, <2>2 DEF TypeOK
  <2> QED
    BY <2>1, <2>2, <2>3, <2>4
<1>5. ASSUME NEW u \in Tasks, NEW s \in States, NEW policy \in Policies, TransitionTask(u, s, policy), u # t
      PROVE  task'[t] = task[t]
  BY <1>5 DEF TransitionTask, TypeOK
<1> QED
  BY <1>2, <1>3, <1>4, <1>5 DEF Operator, DeclareEvidence, Reverify, EditArtifact, Archive, files

\* The rows that carry-open moves are the open ones, and they stay in place or go on.
LEMMA CarriedRows ==
  ASSUME TypeOK, NEW p \in Procs, CarryRows(p)
  PROVE  /\ \A u \in Tasks :
              IF task[u].state \in Settled THEN task'[u] = task[u]
              ELSE task'[u].state = "moved" /\ task'[u].attempt >= task[u].attempt
         /\ Only(p) /\ w'[p].pc = IF At(p, "carry") THEN "carried" ELSE "idle"
         /\ w'[p].pc = "carried" => w'[p].rows = w[p].rows
         /\ UNCHANGED <<evidence, runs, closed, closeLogged>>
<1>1. ASSUME NEW row \in Row
      PROVE  /\ Move(row, "moved").state = "moved" /\ Move(row, "moved").attempt = row.attempt
             /\ Move(Move(row, "problem"), "moved").state = "moved"
             /\ Move(Move(row, "problem"), "moved").attempt = row.attempt + 1
             /\ Move(row, "moved") \in Row /\ Move(Move(row, "problem"), "moved") \in Row
  <2>1. "moved" \in States /\ "problem" \in States /\ Bump("moved") = 0 /\ Bump("problem") = 1
    BY DEF States, Bump
  <2>2. PICK x \in Row : x = Move(row, "problem") /\ x.attempt = row.attempt + 1 /\ row.attempt \in Nat
    BY <2>1, Moved
  <2>3. Move(x, "moved") \in Row /\ Move(x, "moved").state = "moved" /\ Move(x, "moved").attempt = x.attempt + 0
    BY <2>1, Moved
  <2>4. Move(row, "moved") \in Row /\ Move(row, "moved").state = "moved" /\ Move(row, "moved").attempt = row.attempt + 0
    BY <2>1, Moved
  <2> QED
    BY <2>2, <2>3, <2>4
<1>2. ASSUME NEW row \in Row
      PROVE  Carried(row).state = "moved" /\ Carried(row).attempt >= row.attempt
  <2>1. PICK x \in Row : /\ Carried(row) = [x EXCEPT !.dest = conts]
                          /\ x.state = "moved" /\ x.attempt \in {row.attempt, row.attempt + 1}
    BY <1>1 DEF Carried
  <2>2. row.attempt \in Nat
    BY DEF Row
  <2> QED
    BY <2>1, <2>2 DEF Row
<1>3. \A u \in Tasks : task[u] \in Row /\ task'[u] = IF u \in Blocking THEN Carried(task[u]) ELSE task[u]
  BY DEF CarryRows, TypeOK
<1>4. \A u \in Tasks : IF task[u].state \in Settled THEN task'[u] = task[u]
                      ELSE task'[u].state = "moved" /\ task'[u].attempt >= task[u].attempt
  BY <1>2, <1>3 DEF Blocking
<1>5. UNCHANGED <<evidence, runs, closed, closeLogged>>
  BY DEF CarryRows
<1>6. CASE At(p, "carry")
  BY <1>4, <1>5, <1>6, GotoIsOnly DEF CarryRows
<1>7. CASE ~At(p, "carry")
  BY <1>4, <1>5, <1>7, ReturnIsOnly DEF CarryRows
<1> QED
  BY <1>6, <1>7

-----------------------------------------------------------------------------
(* A closed session has only settled rows.                                 *)

\* Between two writes nobody loses sight of the close when rows and marks stand.
LEMMA CloseQuiet ==
  ASSUME CloseInv, TypeInv', NEW p \in Procs, Only(p), KnowsClose(p)',
         UNCHANGED <<task, closed, closeLogged>>
  PROVE  CloseInv'
<1>1. ClosedIsSettled'
  BY DEF CloseInv, ClosedIsSettled
<1>2. ASSUME NEW q \in Procs, q # p PROVE KnowsClose(q)'
  BY <1>2 DEF Only, CloseInv, KnowsClose, Blocking
<1> QED
  BY <1>1, <1>2 DEF CloseInv

\* A step that writes them meets nobody between two writes.
LEMMA CloseAlone ==
  ASSUME CloseInv, TypeInv', NEW p \in Procs, Only(p), KnowsClose(p)', ClosedIsSettled',
         lock = NoProc \/ lock = p \/ w[p].pc \in Holding
  PROVE  CloseInv'
<1>1. ASSUME NEW q \in Procs, q # p PROVE KnowsClose(q)'
  <2>1. w'[q] = w[q] /\ w[q].pc \notin Holding
    BY <1>1, NobodyBetween DEF Only, CloseInv
  <2> QED
    BY <2>1 DEF KnowsClose, Holding, Opened
<1> QED
  BY <1>1 DEF CloseInv

LEMMA CloseOperator ==
  ASSUME CloseInv, TypeInv', Operator \/ (\E t \in Tasks : LoseLease(t)) \/ UNCHANGED vars
  PROVE  CloseInv'
<1>1. w' = w
  BY DEF Operator, StartTasks, TransitionTask, DeclareEvidence, Reverify, EditArtifact, Archive,
         LoseLease, vars
<1>2. CASE UNCHANGED <<task, closed, closeLogged>>
  BY <1>1, <1>2 DEF CloseInv, ClosedIsSettled, KnowsClose, Blocking
<1>3. CASE lock = NoProc /\ ~closed /\ UNCHANGED <<closed, closeLogged>>
  <2>1. \A q \in Procs : w[q].pc \notin Holding
    BY <1>3, ProcsAssumption DEF CloseInv, TypeInv, LockHeld
  <2>2. \A q \in Procs : KnowsClose(q)'
    BY <1>1, <2>1 DEF KnowsClose, Holding, Opened
  <2> QED
    BY <1>3, <2>2 DEF CloseInv, ClosedIsSettled
<1> QED
  BY <1>2, <1>3 DEF Operator, StartTasks, TransitionTask, DeclareEvidence, Reverify, EditArtifact,
     Archive, LoseLease, vars, files, Free

LEMMA CloseRow ==
  ASSUME CloseInv, TypeInv', NEW p \in Procs, QuietStep(p) \/ RunStep(p) \/ RowStep(p)
  PROVE  CloseInv'
<1> USE DEF CloseInv, TypeInv
<1>1. CASE QuietStep(p) \/ RunStep(p)
  <2>1. UNCHANGED <<task, closed, closeLogged>> /\ Only(p) /\ w'[p].pc \notin Owing
    BY <1>1, Undemanding
  <2>2. KnowsClose(p)'
    BY <2>1 DEF KnowsClose, Owing, Opened, Batching
  <2> QED
    BY <2>1, <2>2, CloseQuiet
<1>2. CASE FinishSingle(p) \/ DoneBare(p) \/ CommitRun(p)
  <2>1. /\ \A u \in Tasks : task'[u] = task[u] \/ task'[u].state = "done"
        /\ w'[p].pc = "idle" /\ Only(p) /\ UNCHANGED <<closed, closeLogged>>
    BY <1>2, OneDone
  <2>2. ClosedIsSettled'
    BY <2>1 DEF ClosedIsSettled
  <2>3. KnowsClose(p)'
    BY <2>1 DEF KnowsClose, Opened
  <2>4. lock = NoProc \/ w[p].pc \in Holding
    BY <1>2 DEF FinishSingle, DoneBare, CommitRun, At, Free, Holding
  <2> QED
    BY <2>1, <2>2, <2>3, <2>4, CloseAlone
<1>3. ASSUME NEW ok \in BOOLEAN, CommitSingle(p, ok) PROVE CloseInv'
  <2>1. Only(p) /\ w'[p].pc \in {"idle", "finish"}
    <3>1. ASSUME NEW n, w' = [w EXCEPT ![p] = [w[p] EXCEPT !.pc = "finish", !.ev = n]]
          PROVE  Only(p) /\ w'[p].pc = "finish"
      <4>1. [w[p] EXCEPT !.pc = "finish", !.ev = n].pc = "finish"
        BY DEF TypeOK, Worker
      <4> QED
        BY <3>1, <4>1, PlaceAfter
    <3> QED
      BY <1>3, <3>1, ReturnIsOnly DEF CommitSingle
  <2>2. KnowsClose(p)'
    BY <2>1 DEF KnowsClose, Opened
  <2> QED
    BY <1>3, <2>1, <2>2, CloseQuiet DEF CommitSingle
<1> QED
  BY <1>1, <1>2, <1>3 DEF RowStep

LEMMA CloseBatch ==
  ASSUME CloseInv, TypeInv', NEW p \in Procs, BatchStep(p)
  PROVE  CloseInv'
<1> USE DEF CloseInv, TypeInv
<1>1. ASSUME UNCHANGED <<task, closed, closeLogged>>, Only(p), w'[p].pc \in Opened => ~closed,
             w'[p].pc \in {"idle", "batchEvidence", "batchDone"}
      PROVE  CloseInv'
  <2>1. KnowsClose(p)'
    BY <1>1 DEF KnowsClose
  <2> QED
    BY <1>1, <2>1, CloseQuiet
<1>2. ASSUME NEW ok \in BOOLEAN, CommitBatch(p, ok) PROVE CloseInv'
  <2>1. CASE Return(p)
    BY <1>1, <1>2, <2>1, ReturnIsOnly DEF CommitBatch, Keep, files, Opened
  <2>2. CASE ~Return(p)
    <3>1. /\ w' = [w EXCEPT ![p] = [w[p] EXCEPT !.pc = "batchEvidence", !.ok = ok,
                                                !.rows = task, !.len = Len(evidence)]]
          /\ ~closed /\ UNCHANGED <<task, closed, closeLogged>>
      BY <1>2, <2>2 DEF CommitBatch, Keep, files
    <3>2. [w[p] EXCEPT !.pc = "batchEvidence", !.ok = ok,
                       !.rows = task, !.len = Len(evidence)].pc = "batchEvidence"
      BY DEF TypeOK, Worker
    <3> QED
      BY <1>1, <3>1, <3>2, PlaceAfter
  <2> QED
    BY <2>1, <2>2
<1>3. ASSUME NEW t \in Tasks, BatchEvidence(p, t) PROVE CloseInv'
  <2>1. /\ w[p].pc = "batchEvidence" /\ UNCHANGED <<task, closed, closeLogged>>
        /\ Goto(p, "batchDone") \/ Return(p) \/ w' = w
    BY <1>3 DEF BatchEvidence, At
  <2>2. ~closed
    BY <2>1 DEF KnowsClose, Opened
  <2>3. Only(p) /\ w'[p].pc \in {"idle", "batchEvidence", "batchDone"}
    BY <2>1, GotoIsOnly, ReturnIsOnly DEF Only
  <2> QED
    BY <1>1, <2>1, <2>2, <2>3
<1>4. ASSUME NEW t \in Tasks, BatchDone(p, t) PROVE CloseInv'
  <2>1. w[p].pc = "batchDone" /\ w' = w /\ UNCHANGED <<closed, closeLogged>>
    BY <1>4 DEF BatchDone, At
  <2>2. ~closed
    BY <2>1 DEF KnowsClose, Opened
  <2>3. KnowsClose(p)' /\ ClosedIsSettled' /\ Only(p)
    BY <2>1, <2>2 DEF KnowsClose, ClosedIsSettled, Only
  <2> QED
    BY <2>1, <2>3, CloseAlone DEF Holding
<1>5. CASE BatchUndo(p)
  <2>1. w[p].pc \in {"batchEvidence", "batchDone"} /\ Goto(p, "batchUndo") /\ UNCHANGED <<closed, closeLogged>>
    BY <1>5 DEF BatchUndo
  <2>2. ~closed
    BY <2>1 DEF KnowsClose, Opened
  <2>3. Only(p) /\ w'[p].pc = "batchUndo"
    BY <2>1, GotoIsOnly
  <2>4. KnowsClose(p)' /\ ClosedIsSettled'
    BY <2>1, <2>2, <2>3 DEF KnowsClose, ClosedIsSettled
  <2> QED
    BY <2>1, <2>3, <2>4, CloseAlone DEF Holding
<1>6. CASE BatchUndoEvidence(p)
  BY <1>1, <1>6, ReturnIsOnly DEF BatchUndoEvidence, Opened
<1> QED
  BY <1>2, <1>3, <1>4, <1>5, <1>6 DEF BatchStep

LEMMA CloseClose ==
  ASSUME CloseInv, TypeInv', NEW p \in Procs, CloseStep(p)
  PROVE  CloseInv'
<1> USE DEF CloseInv, TypeInv
<1>1. ASSUME NEW rows, lock = NoProc \/ w[p].pc \in Holding, ~closed, Blocking = {},
             MarkClosed(p, rows)
      PROVE  CloseInv'
  <2>1. /\ w' = [w EXCEPT ![p] = [w[p] EXCEPT !.pc = "closing", !.rows = rows]]
        /\ closed' = TRUE /\ UNCHANGED <<task, closeLogged>>
    BY <1>1 DEF MarkClosed
  <2>2. [w[p] EXCEPT !.pc = "closing", !.rows = rows].pc = "closing"
    BY DEF TypeOK, Worker
  <2>3. Only(p) /\ w'[p].pc = "closing"
    BY <2>1, <2>2, PlaceAfter
  <2>4. ClosedIsSettled' /\ ~closeLogged'
    BY <1>1, <2>1 DEF ClosedIsSettled, Blocking, Settled
  <2>5. KnowsClose(p)'
    BY <2>1, <2>3, <2>4 DEF KnowsClose, Opened
  <2> QED
    BY <1>1, <2>3, <2>4, <2>5, CloseAlone
<1>2. CASE CloseOpen(p)
  BY <1>1, <1>2 DEF CloseOpen, Free
<1>3. CASE CarryOpen(p)
  <2>1. /\ w' = [w EXCEPT ![p] = [w[p] EXCEPT !.pc = "carry", !.rows = task]]
        /\ ~closed /\ UNCHANGED <<task, closed, closeLogged>>
    BY <1>3 DEF CarryOpen
  <2>2. [w[p] EXCEPT !.pc = "carry", !.rows = task].pc = "carry"
    BY DEF TypeOK, Worker
  <2>3. Only(p) /\ w'[p].pc = "carry"
    BY <2>1, <2>2, PlaceAfter
  <2>4. KnowsClose(p)'
    BY <2>1, <2>3 DEF KnowsClose
  <2> QED
    BY <2>1, <2>3, <2>4, CloseQuiet
<1>4. CASE CloseAgain(p)
  <2>1. Goto(p, "logging") /\ closed /\ UNCHANGED <<task, closed, closeLogged>>
    BY <1>4 DEF CloseAgain, files
  <2>2. Only(p) /\ w'[p].pc = "logging"
    BY <2>1, GotoIsOnly
  <2>3. KnowsClose(p)'
    BY <2>1, <2>2 DEF KnowsClose, Opened
  <2> QED
    BY <2>1, <2>2, <2>3, CloseQuiet
<1>5. CASE CarryRows(p)
  <2>1. /\ \A u \in Tasks : task'[u].state \in Settled
        /\ Only(p) /\ w'[p].pc = IF At(p, "carry") THEN "carried" ELSE "idle"
        /\ UNCHANGED <<closed, closeLogged>>
    BY <1>5, CarriedRows DEF Settled
  <2>2. w[p].pc \in {"carry", "remap"}
    BY <1>5 DEF CarryRows
  <2>3. ~closed
    BY <2>2 DEF KnowsClose, Opened
  <2>4. ClosedIsSettled' /\ KnowsClose(p)'
    BY <2>1, <2>3 DEF ClosedIsSettled, KnowsClose, Blocking
  <2> QED
    BY <2>1, <2>2, <2>4, CloseAlone DEF Holding
<1>6. CASE CarryClose(p)
  <2>1. w[p].pc = "carried" /\ (MarkClosed(p, w[p].rows) \/ (Return(p) /\ Keep))
    BY <1>6 DEF CarryClose, At
  <2>2. ~closed /\ Blocking = {}
    BY <2>1 DEF KnowsClose, Opened
  <2>3. CASE MarkClosed(p, w[p].rows)
    BY <1>1, <2>1, <2>2, <2>3 DEF Holding
  <2>4. CASE Return(p) /\ Keep
    <3>1. Only(p) /\ w'[p].pc = "idle"
      BY <2>4, ReturnIsOnly
    <3>2. KnowsClose(p)'
      BY <3>1 DEF KnowsClose, Opened
    <3> QED
      BY <2>4, <3>1, <3>2, CloseQuiet DEF Keep, files
  <2> QED
    BY <2>1, <2>3, <2>4
<1>7. ASSUME NEW io \in BOOLEAN, ClosePlan(p, io) PROVE CloseInv'
  <2>1. w[p].pc = "closing" /\ closed /\ ~closeLogged /\ UNCHANGED closeLogged
    BY <1>7 DEF ClosePlan, At, KnowsClose
  <2>2. CASE io
    <3>1. Goto(p, "logging") /\ UNCHANGED <<task, closed>>
      BY <1>7, <2>2 DEF ClosePlan
    <3>2. Only(p) /\ w'[p].pc = "logging"
      BY <3>1, GotoIsOnly
    <3>3. KnowsClose(p)'
      BY <2>1, <3>1, <3>2 DEF KnowsClose, Opened
    <3> QED
      BY <2>1, <3>1, <3>2, <3>3, CloseQuiet
  <2>3. CASE ~io
    <3>1. closed' = FALSE /\ (Return(p) \/ Goto(p, "remap"))
      BY <1>7, <2>3 DEF ClosePlan
    <3>2. Only(p) /\ w'[p].pc \in {"idle", "remap"}
      BY <3>1, GotoIsOnly, ReturnIsOnly
    <3>3. ClosedIsSettled' /\ KnowsClose(p)'
      BY <2>1, <3>1, <3>2 DEF ClosedIsSettled, KnowsClose
    <3> QED
      BY <2>1, <3>2, <3>3, CloseAlone DEF Holding
  <2> QED
    BY <2>2, <2>3
<1>8. ASSUME NEW io \in BOOLEAN, CloseEvent(p, io) PROVE CloseInv'
  <2>1. w[p].pc = "logging" /\ closed /\ UNCHANGED <<task, closed>> /\ Return(p)
    BY <1>8 DEF CloseEvent, At, KnowsClose
  <2>2. Only(p) /\ w'[p].pc = "idle"
    BY <2>1, ReturnIsOnly
  <2>3. ClosedIsSettled' /\ KnowsClose(p)'
    BY <2>1, <2>2 DEF ClosedIsSettled, KnowsClose, Opened
  <2> QED
    BY <2>1, <2>2, <2>3, CloseAlone DEF Holding
<1> QED
  BY <1>2, <1>3, <1>4, <1>5, <1>6, <1>7, <1>8 DEF CloseStep

LEMMA CloseInit == Init => CloseInv
  BY TypeInit DEF Init, CloseInv, ClosedIsSettled, KnowsClose, Opened, Idle

LEMMA CloseKept == CloseInv /\ [Next]_vars => CloseInv'
<1> SUFFICES ASSUME CloseInv, [Next]_vars PROVE CloseInv'
  OBVIOUS
<1>1. TypeInv'
  BY TypeStep DEF CloseInv
<1>2. ASSUME NEW p \in Procs, Begin(p) \/ Continue(p) \/ Crash(p) PROVE CloseInv'
  BY <1>1, <1>2, StepKinds, CloseRow, CloseBatch, CloseClose
<1> QED
  BY <1>1, <1>2, CloseOperator DEF Next

\* Whatever was in flight when a session was closed leaves it with settled rows only, and a
\* logged close stands (ensureSessionOpenForMutation; closeSession writes its event last).
THEOREM ClosedIsSettledHolds == Spec => []ClosedIsSettled
<1>1. CloseInv => ClosedIsSettled
  BY DEF CloseInv
<1> QED
  BY <1>1, CloseInit, CloseKept, PTL DEF Spec

-----------------------------------------------------------------------------
(* A settled row is final.                                                 *)

RowsGoOn == \A t \in Tasks : /\ task[t].state \in Settled => task'[t] = task[t]
                            /\ task'[t].attempt >= task[t].attempt

\* The steps of a batch or of a close that failed, which may restore rows.
Restoring == \E p \in Procs : \/ BatchUndo(p) \/ \E t \in Tasks : BatchDone(p, t)
                             \/ \E io \in BOOLEAN : ClosePlan(p, io)

\* The rows change by the operator's arrows, by doneTask and by carry-open, or are restored.
LEMMA StepGoesOn ==
  ASSUME TypeInv, [Next]_vars, ~Restoring
  PROVE  RowsGoOn
<1> USE DEF TypeInv
<1>1. \A t \in Tasks : task[t] \in Row /\ task[t].attempt \in Nat
  BY DEF TypeOK, Row
<1>2. CASE task' = task
  BY <1>1, <1>2 DEF RowsGoOn
<1>3. ASSUME NEW p \in Procs, FinishSingle(p) \/ DoneBare(p) \/ CommitRun(p) PROVE RowsGoOn
  <2>1. \A u \in Tasks : \/ task'[u] = task[u]
                         \/ task[u].state \in Eligible /\ task'[u].attempt = task[u].attempt
    BY <1>3, OneDone
  <2> QED
    BY <1>1, <2>1 DEF RowsGoOn, Eligible, Settled
<1>4. ASSUME NEW p \in Procs, CarryRows(p) PROVE RowsGoOn
  BY <1>1, <1>4, CarriedRows DEF RowsGoOn
<1>5. ASSUME NEW p \in Procs, Begin(p) \/ Continue(p) \/ Crash(p) PROVE RowsGoOn
  <2>1. CASE QuietStep(p) \/ RunStep(p)
    BY <1>2, <2>1, Undemanding
  <2>2. CASE RowStep(p)
    BY <1>2, <1>3, <2>2 DEF RowStep, CommitSingle
  <2>3. CASE BatchStep(p)
    BY <1>2, <2>3 DEF BatchStep, CommitBatch, Keep, files, BatchEvidence, BatchUndoEvidence, Restoring
  <2>4. CASE CloseStep(p)
    BY <1>2, <1>4, <2>4 DEF CloseStep, CloseOpen, MarkClosed, CarryOpen, CloseAgain, CarryClose,
       CloseEvent, Keep, files, Restoring
  <2> QED
    BY <1>5, <2>1, <2>2, <2>3, <2>4, StepKinds
<1>6. CASE Operator
  BY <1>1, <1>6, OperatorRows DEF RowsGoOn
<1> QED
  BY <1>2, <1>5, <1>6 DEF Next, LoseLease, files, vars

\* A batch, or the durable close, is under way and its rows may still be restored.
Undoable == \E p \in Procs : w[p].pc \in {"batchDone", "batchEvidence", "batchUndo", "closing"}

\* A settled row is final and attempts never go back, except that a failed batch or
\* close restores the rows it found.
SettledIsFinal ==
  [][~Undoable => \A t \in Tasks : /\ task[t].state \in Settled => task'[t] = task[t]
                                  /\ task'[t].attempt >= task[t].attempt]_vars

\* A settled row never changes and attempts never go back, except while a batch or a close
\* that failed restores the task file it found (TASK_STATE_TRANSITIONS; completeObservedTasks,
\* closeSession).
THEOREM SettledIsFinalHolds == Spec => SettledIsFinal
<1>1. TypeInv /\ [Next]_vars => [~Undoable => RowsGoOn]_vars
  <2>1. Restoring => Undoable
    BY DEF Restoring, Undoable, BatchUndo, BatchDone, ClosePlan, At
  <2> QED
    BY <2>1, StepGoesOn
<1>2. SettledIsFinal <=> [][~Undoable => RowsGoOn]_vars
  BY PTL DEF SettledIsFinal, RowsGoOn
<1> QED
  BY <1>1, <1>2, TypeInit, TypeStep, PTL DEF Spec

-----------------------------------------------------------------------------
(* Done rows are backed by evidence.                                       *)

\* What backs a row is what the ledgers say of the row's attempt and policy.
LEMMA BackedIs ==
  /\ \A i, t : Backed(i, t) <=> i \in 1..Len(evidence) /\ Backs(i, task[t], t)
  /\ \A i, t : Backed(i, t)' <=> i \in 1..Len(evidence') /\ Backs(i, task[t], t)'
  BY DEF Backed, Files, RunBacks, RunAuthorizes, Backs, CompleteRun

\* An entry goes on backing a row while the ledger keeps it and the steps of its run.
LEMMA BacksStand ==
  ASSUME RunInv, RunsGrow, Len(evidence') \in Nat, NEW n \in Nat,
         n <= Len(evidence), n <= Len(evidence'),
         \A i \in 1..n : evidence'[i] = evidence[i],
         \A r \in 1..Len(runs), s \in 1..Steps : runs[r].steps[s] <= n,
         NEW i \in 1..n, NEW row, NEW t, Backs(i, row, t)
  PROVE  Backs(i, row, t)'
<1>1. evidence'[i] = evidence[i] /\ Len(evidence) \in Nat /\ Len(runs) \in Nat
  BY Lengths DEF RunInv, TypeInv
<1>2. CASE evidence[i].run = 0
  BY <1>1, <1>2 DEF Backs
<1>3. CASE evidence[i].run # 0
  <2>1. PICK r \in 1..Len(runs) :
          /\ r = evidence[i].run /\ runs[r].task = t /\ runs[r].attempt = row.attempt
          /\ CompleteRun(r) /\ runs[r].term = "passed" /\ runs[r].steps[Steps] = i
    BY <1>3 DEF Backs
  <2>2. /\ r \in 1..Len(runs') /\ runs'[r].task = t /\ runs'[r].attempt = row.attempt
        /\ runs'[r].term = "passed"
        /\ \A s \in 1..Steps : runs[r].steps[s] # 0 => runs'[r].steps[s] = runs[r].steps[s]
    <3>1. r \in 1..Len(runs')
      BY <1>1 DEF RunsGrow
    <3> QED
      BY <2>1, <3>1 DEF RunsGrow
  <2>3. ASSUME NEW s \in 1..Steps
        PROVE  /\ runs'[r].steps[s] = runs[r].steps[s] /\ runs[r].steps[s] \in 1..n
               /\ evidence'[runs'[r].steps[s]].ok /\ runs'[r].steps[s] \in 1..Len(evidence')
    <3>1. runs[r].steps[s] \in 1..Len(evidence) /\ evidence[runs[r].steps[s]].ok
      BY <2>1 DEF CompleteRun
    <3>2. runs[r].steps[s] <= n
      OBVIOUS
    <3>3. runs[r].steps[s] \in 1..n
      BY <1>1, <3>1, <3>2
    <3>4. runs'[r].steps[s] = runs[r].steps[s]
      BY <1>1, <2>2, <3>1
    <3> QED
      BY <1>1, <3>1, <3>3, <3>4, SMTT(30)
  <2>4. CompleteRun(r)'
    BY <2>3 DEF CompleteRun
  <2>5. Steps \in 1..Steps
    BY SizeAssumption
  <2>6. runs'[r].steps[Steps] = i
    BY <2>1, <2>3, <2>5
  <2> QED
    BY <1>1, <2>1, <2>2, <2>4, <2>6 DEF Backs
<1> QED
  BY <1>2, <1>3

\* So does a board's backing by the first entries.
LEMMA BoardStands ==
  ASSUME RunInv, RunsGrow, Len(evidence') \in Nat, NEW n \in Nat,
         n <= Len(evidence), n <= Len(evidence'),
         \A i \in 1..n : evidence'[i] = evidence[i],
         \A r \in 1..Len(runs), s \in 1..Steps : runs[r].steps[s] <= n,
         NEW board, NEW m \in Nat, m <= n, BoardBacked(board, m)
  PROVE  BoardBacked(board, m)'
<1>1. ASSUME NEW t \in Tasks, board[t].state = "done"
      PROVE  \E i \in 1..m : Backs(i, board[t], t)'
  <2>1. PICK i \in 1..m : Backs(i, board[t], t)
    BY <1>1 DEF BoardBacked
  <2>2. i \in 1..n
    OBVIOUS
  <2>3. Backs(i, board[t], t)'
    BY <2>1, <2>2, BacksStand
  <2> QED
    BY <2>3
<1> QED
  BY <1>1 DEF BoardBacked

\* No step record points beyond the ledger.
LEMMA StepsWithin ==
  ASSUME RunInv
  PROVE  \A r \in 1..Len(runs), s \in 1..Steps : runs[r].steps[s] <= Len(evidence)
<1>1. Len(evidence) \in Nat
  BY Lengths DEF RunInv, TypeInv
<1> QED
  BY <1>1, StepsPointBack

\* The ledger keeps what it has.
Extended == /\ Len(evidence') \in Nat /\ Len(evidence') >= Len(evidence)
            /\ \A i \in 1..Len(evidence) : evidence'[i] = evidence[i]

\* Done rows stay backed when the ledger grows and a row newly done brings its evidence.
LEMMA DoneStands ==
  ASSUME BackInv, RunsGrow, Extended,
         \A t \in Tasks : task'[t].state = "done" =>
            \/ /\ task[t].state = "done" /\ task'[t].attempt = task[t].attempt
               /\ task'[t].policy = task[t].policy
            \/ \E i \in 1..Len(evidence') : Backs(i, task[t], t)'
  PROVE  DoneIsBacked'
<1>1. Len(evidence) \in Nat
  BY Lengths DEF BackInv, RunInv, TypeInv
<1>2. ASSUME NEW t \in Tasks, task'[t].state = "done"
      PROVE  \E i \in 1..Len(evidence') : Backs(i, task[t], t)'
  <2>1. CASE /\ task[t].state = "done" /\ task'[t].attempt = task[t].attempt
             /\ task'[t].policy = task[t].policy
    <3>1. PICK i \in 1..Len(evidence) : Backs(i, task[t], t)
      BY <2>1, BackedIs DEF BackInv, DoneIsBacked
    <3>2. PICK row : row = task[t]
      OBVIOUS
    <3>3. Backs(i, row, t)'
      BY <1>1, <3>1, <3>2, StepsWithin, BacksStand DEF BackInv, Extended
    <3>4. Backs(i, task[t], t)'
      BY <2>1, <3>2, <3>3 DEF Backs
    <3> QED
      BY <1>1, <3>4 DEF Extended
  <2> QED
    BY <1>2, <2>1
<1> QED
  BY <1>2, BackedIs DEF DoneIsBacked

\* A step that writes nothing leaves the others with what they know.
LEMMA RowsQuiet ==
  ASSUME BackInv, RunInv', NEW p \in Procs, Only(p), KnowsRows(p)',
         UNCHANGED <<task, evidence, runs>>
  PROVE  BackInv'
<1>1. DoneIsBacked'
  BY DEF BackInv, DoneIsBacked, Backed, Files, RunBacks, RunAuthorizes, CompleteRun
<1>2. ASSUME NEW q \in Procs, q # p PROVE KnowsRows(q)'
  BY <1>2, SMTT(30) DEF Only, BackInv, KnowsRows, BoardBacked, Backs, CompleteRun, JustFiled, BatchFiled, Filed
<1> QED
  BY <1>1, <1>2 DEF BackInv

\* A step that writes meets nobody between two writes.
LEMMA RowsAlone ==
  ASSUME BackInv, RunInv', NEW p \in Procs, Only(p), KnowsRows(p)', DoneIsBacked',
         lock = NoProc \/ lock = p \/ w[p].pc \in Holding
  PROVE  BackInv'
<1>1. ASSUME NEW q \in Procs, q # p PROVE KnowsRows(q)'
  <2>1. w'[q] = w[q] /\ w[q].pc \notin Holding
    BY <1>1, NobodyBetween DEF Only, BackInv, RunInv
  <2> QED
    BY <2>1 DEF KnowsRows, Holding, Remembering, Batching
<1> QED
  BY <1>1 DEF BackInv

\* At these places a process owes the rows nothing.
LEMMA NothingKnown ==
  ASSUME NEW p \in Procs, w'[p].pc \notin Remembering \cup {"finish"}
  PROVE  KnowsRows(p)'
  BY DEF KnowsRows, Remembering, Batching

\* What recordEvidence leaves of the ledger.
LEMMA AppendExtends ==
  ASSUME TypeOK, \/ UNCHANGED evidence
                 \/ \E e \in Evidence : evidence' = Append(evidence, e)
  PROVE  Extended
<1>1. Len(evidence) \in Nat
  BY Lengths
<1>2. CASE UNCHANGED evidence
  BY <1>1, <1>2 DEF Extended
<1>3. ASSUME NEW e \in Evidence, evidence' = Append(evidence, e) PROVE Extended
  BY <1>1, <1>3, AppendedAt DEF Extended
<1> QED
  BY <1>2, <1>3

\* Every filing appends one entry; only an undone batch takes entries back.
LEMMA StepExtends ==
  ASSUME RunInv, [Next]_vars, \A p \in Procs : ~BatchUndoEvidence(p)
  PROVE  Extended
<1> USE DEF RunInv, TypeInv
<1>1. /\ \A t \in Tasks : task[t].attempt \in Nat
      /\ \A p \in Procs : /\ w[p].t \in Tasks /\ w[p].ts \subseteq Tasks /\ w[p].ok \in BOOLEAN
                          /\ w[p].run \in Nat /\ w[p].step \in Nat
                          /\ \A t \in Tasks : w[p].began[t] \in Nat
  BY SMTT(30) DEF TypeOK, Row, Worker
<1>2. ASSUME NEW t \in Tasks, NEW kind \in {"observed", "declared"}, NEW ok \in BOOLEAN,
             NEW r \in Nat, NEW s \in Nat, NEW note \in Contents \cup {0}, NEW b \in Nat,
             evidence' = Append(evidence, Entry(t, kind, ok, r, s, note, b))
      PROVE  Extended
  BY <1>2, EntryType, AppendExtends DEF TypeOK
<1>3. CASE UNCHANGED evidence
  BY <1>3, AppendExtends
<1>4. ASSUME NEW p \in Procs, Begin(p) \/ Continue(p) \/ Crash(p) PROVE Extended
  <2>1. ASSUME NEW ok \in BOOLEAN, CommitSingle(p, ok) \/ CommitStep(p, ok) PROVE Extended
    <3>1. \/ UNCHANGED evidence
          \/ \E s, r \in Nat : evidence' = Append(evidence, Entry(w[p].t, "observed", ok, r, s, 0, w[p].began[w[p].t]))
      BY <1>1, <2>1 DEF CommitSingle, CommitStep
    <3>2. ASSUME NEW s \in Nat, NEW r \in Nat,
                 evidence' = Append(evidence, Entry(w[p].t, "observed", ok, r, s, 0, w[p].began[w[p].t]))
          PROVE  Extended
      BY <1>1, <1>2, <3>2
    <3> QED
      BY <1>3, <3>1, <3>2
  <2>2. ASSUME NEW t \in Tasks, BatchEvidence(p, t) PROVE Extended
    BY <1>1, <1>2, <2>2 DEF BatchEvidence
  <2>3. CASE QuietStep(p)
    BY <1>3, <2>3 DEF QuietStep, DoneBegin, AcquireLease, Busy, LockTimeout, Snapshot, VerifyBegin,
       LeaseLost, BatchEnd, Crash, Keep, files
  <2>4. CASE RunStep(p)
    BY <1>3, <2>1, <2>4 DEF RunStep, Prepare, Reconcile, Recover, Supersede, StartRun, RecordStep,
       FailRun, FailTerminal, CompleteBegin, Finalize, Keep, files
  <2>5. CASE RowStep(p)
    BY <1>3, <2>1, <2>5 DEF RowStep, FinishSingle, DoneBare, CommitRun
  <2>6. CASE BatchStep(p)
    BY <1>3, <2>2, <2>6 DEF BatchStep, CommitBatch, BatchDone, BatchUndo, Keep, files
  <2>7. CASE CloseStep(p)
    BY <1>3, <2>7 DEF CloseStep, CloseOpen, MarkClosed, CarryOpen, CloseAgain, CarryRows, CarryClose,
       ClosePlan, CloseEvent, Keep, files
  <2> QED
    BY <1>4, <2>3, <2>4, <2>5, <2>6, <2>7, StepKinds
<1>5. CASE Operator
  <2>1. ASSUME NEW t \in Tasks, NEW ok \in BOOLEAN, NEW note \in Contents, DeclareEvidence(t, ok, note)
        PROVE  Extended
    BY <1>1, <1>2, <2>1 DEF DeclareEvidence
  <2>2. ASSUME NEW t \in Tasks, NEW ok \in BOOLEAN, Reverify(t, ok) PROVE Extended
    BY <1>1, <1>2, <2>2 DEF Reverify
  <2> QED
    BY <1>3, <1>5, <2>1, <2>2 DEF Operator, StartTasks, TransitionTask, EditArtifact, Archive, files
<1> QED
  BY <1>3, <1>4, <1>5 DEF Next, LoseLease, files, vars

\* The operator, the leases: no row becomes done.
LEMMA RowsOperator ==
  ASSUME BackInv, RunInv', RunsGrow, Operator \/ (\E t \in Tasks : LoseLease(t)) \/ UNCHANGED vars
  PROVE  BackInv'
<1> USE DEF BackInv, RunInv, TypeInv
<1>1. w' = w
  BY DEF Operator, StartTasks, TransitionTask, DeclareEvidence, Reverify, EditArtifact, Archive,
         LoseLease, vars
<1>2. CASE UNCHANGED <<task, evidence, runs>>
  <2>1. DoneIsBacked'
    BY <1>2 DEF DoneIsBacked, Backed, Files, RunBacks, RunAuthorizes, CompleteRun
  <2>2. \A q \in Procs : KnowsRows(q)'
    BY <1>1, <1>2 DEF KnowsRows, BoardBacked, Backs, CompleteRun, JustFiled, BatchFiled, Filed
  <2> QED
    BY <2>1, <2>2
<1>3. CASE Operator /\ lock = NoProc
  <2>1. \A q \in Procs : w[q].pc \notin Holding
    BY <1>3, ProcsAssumption DEF LockHeld
  <2>2. \A q \in Procs : KnowsRows(q)'
    BY <1>1, <2>1, NothingKnown DEF Holding, Remembering, Batching
  <2>3. \A q \in Procs : ~BatchUndoEvidence(q)
    BY <2>1 DEF BatchUndoEvidence, At, Holding
  <2>4. Extended
    BY <1>3, <2>3, StepExtends DEF Next
  <2>5. \A t \in Tasks : task'[t].state = "done" => task'[t] = task[t]
    BY <1>3, OperatorRows
  <2>6. DoneIsBacked'
    BY <2>4, <2>5, DoneStands
  <2> QED
    BY <2>2, <2>6
<1> QED
  BY <1>2, <1>3 DEF Operator, StartTasks, TransitionTask, DeclareEvidence, Reverify, EditArtifact,
     Archive, LoseLease, vars, files, Free

\* One command, verification runs and doneTask.
LEMMA RowsRow ==
  ASSUME BackInv, RunInv', RunsGrow, [Next]_vars, NEW p \in Procs,
         QuietStep(p) \/ RunStep(p) \/ RowStep(p), \A q \in Procs : ~BatchUndoEvidence(q)
  PROVE  BackInv'
<1> USE DEF BackInv, RunInv, TypeInv
<1> DEFINE t == w[p].t
<1>1. Extended
  BY StepExtends
<1>2. CASE QuietStep(p)
  <2>1. Only(p) /\ w'[p].pc \notin Owing
    BY <1>2, Undemanding
  <2>2. KnowsRows(p)'
    BY <2>1, NothingKnown DEF Owing, Remembering
  <2>3. UNCHANGED <<task, evidence, runs>>
    BY <1>2 DEF QuietStep, DoneBegin, AcquireLease, Busy, LockTimeout, Snapshot, VerifyBegin,
       LeaseLost, BatchEnd, Crash, Keep, files
  <2> QED
    BY <2>1, <2>2, <2>3, RowsQuiet
<1>3. CASE RunStep(p)
  <2>1. Only(p) /\ w'[p].pc \notin Owing /\ UNCHANGED task
    BY <1>3, Undemanding
  <2>2. KnowsRows(p)'
    BY <2>1, NothingKnown DEF Owing, Remembering
  <2>3. lock = NoProc \/ w[p].pc \in Holding
    BY <1>3 DEF RunStep, Prepare, Reconcile, Recover, Supersede, StartRun, CommitStep, RecordStep,
       FailRun, FailTerminal, CompleteBegin, Finalize, Free, At, Holding
  <2>4. DoneIsBacked'
    BY <1>1, <2>1, DoneStands
  <2> QED
    BY <2>1, <2>2, <2>3, <2>4, RowsAlone
<1>4. ASSUME NEW ok \in BOOLEAN, CommitSingle(p, ok) PROVE BackInv'
  <2>1. lock = NoProc /\ UNCHANGED task
    BY <1>4 DEF CommitSingle, Free
  <2>2. DoneIsBacked'
    BY <1>1, <2>1, DoneStands
  <2>3. CASE Return(p)
    <3>1. Only(p) /\ w'[p].pc = "idle"
      BY <2>3, ReturnIsOnly
    <3>2. KnowsRows(p)'
      BY <3>1, NothingKnown DEF Remembering, Batching
    <3> QED
      BY <2>1, <2>2, <3>1, <3>2, RowsAlone
  <2>4. CASE ~Return(p)
    <3> DEFINE e == Entry(t, "observed", ok, 0, 0, 0, w[p].began[t])
    <3>1. /\ evidence' = Append(evidence, e)
          /\ w' = [w EXCEPT ![p] = [w[p] EXCEPT !.pc = "finish", !.ev = Len(evidence) + 1]]
      BY <1>4, <2>4 DEF CommitSingle
    <3>2. w[p] \in Worker /\ Len(evidence) \in Nat /\ t \in Tasks
      BY Lengths DEF TypeOK, Worker
    <3>3. /\ [w[p] EXCEPT !.pc = "finish", !.ev = Len(evidence) + 1].pc = "finish"
          /\ [w[p] EXCEPT !.pc = "finish", !.ev = Len(evidence) + 1].ev = Len(evidence) + 1
          /\ [w[p] EXCEPT !.pc = "finish", !.ev = Len(evidence) + 1].t = t
      BY <3>2 DEF Worker
    <3>4. Only(p) /\ w'[p].pc = "finish" /\ w'[p].ev = Len(evidence) + 1 /\ w'[p].t = t
      BY <3>1, <3>3, PlaceAfter
    <3>5. e \in Evidence
      BY <3>2, EntryType DEF TypeOK, Worker
    <3>6. Len(evidence') = Len(evidence) + 1 /\ evidence'[Len(evidence) + 1] = e
      BY <3>1, <3>5, AppendedAt
    <3>7. e.task = t /\ e.attempt = task[t].attempt /\ e.auth = task[t].policy /\ e.run = 0
      BY DEF Entry
    <3>8. JustFiled(p)'
      <4> HIDE DEF e
      <4> QED
        BY <2>1, <3>2, <3>4, <3>6, <3>7 DEF JustFiled
    <3>9. KnowsRows(p)'
      BY <3>4, <3>8 DEF KnowsRows, Remembering, Batching
    <3> QED
      BY <2>1, <2>2, <3>4, <3>9, RowsAlone
  <2> QED
    BY <2>3, <2>4
<1>5. CASE FinishSingle(p) \/ DoneBare(p) \/ CommitRun(p)
  <2>1. /\ \A u \in Tasks : \/ task'[u] = task[u]
                           \/ /\ task'[u].state = "done" /\ task[u].state \in Eligible
                              /\ task'[u].attempt = task[u].attempt
                              /\ task'[u].policy = task[u].policy /\ u = t
        /\ w'[p].pc = "idle" /\ Only(p) /\ UNCHANGED <<evidence, runs>>
    BY <1>5, OneDone
  <2>2. KnowsRows(p)'
    BY <2>1, NothingKnown DEF Remembering, Batching
  <2>3. lock = NoProc \/ w[p].pc \in Holding
    BY <1>5 DEF FinishSingle, DoneBare, CommitRun, At, Free, Holding
  <2>4. ASSUME NEW u \in Tasks, u = t, task'[u] # task[u]
        PROVE  \E i \in 1..Len(evidence) : Backs(i, task[u], u)
    <3>1. CASE FinishSingle(p)
      <4>1. /\ JustFiled(p) /\ Passing(evidence[w[p].ev], evidence[w[p].ev].auth)
        BY <2>4, <3>1 DEF FinishSingle, At, KnowsRows
      <4> QED
        BY <2>4, <4>1 DEF JustFiled, Backs
    <3>2. CASE DoneBare(p) \/ CommitRun(p)
      <4>1. PICK i \in 1..Len(evidence) : Authorizes(i, u) /\ RunBacks(i, u)
        BY <2>4, <3>2 DEF DoneBare, CommitRun
      <4>2. Backed(i, u)
        BY <4>1 DEF Backed, Authorizes
      <4> QED
        BY <4>2, BackedIs
    <3> QED
      BY <1>5, <3>1, <3>2
  <2>5. ASSUME NEW u \in Tasks, task'[u].state = "done"
        PROVE  \/ /\ task[u].state = "done" /\ task'[u].attempt = task[u].attempt
                  /\ task'[u].policy = task[u].policy
               \/ \E i \in 1..Len(evidence') : Backs(i, task[u], u)'
    <3>1. CASE task'[u] = task[u]
      BY <2>5, <3>1
    <3>2. CASE task'[u] # task[u]
      <4>1. PICK i \in 1..Len(evidence) : Backs(i, task[u], u)
        BY <2>1, <2>4, <3>2
      <4>2. Backs(i, task[u], u)'
        BY <2>1, <3>2, <4>1 DEF Backs, CompleteRun
      <4> QED
        BY <2>1, <4>2
    <3> QED
      BY <3>1, <3>2
  <2>6. DoneIsBacked'
    BY <1>1, <2>5, DoneStands
  <2> QED
    BY <2>1, <2>2, <2>3, <2>6, RowsAlone
<1> QED
  BY <1>2, <1>3, <1>4, <1>5 DEF RowStep

\* A batch begins to write: it remembers the board and the length of the ledger.
LEMMA RowsBatchBegin ==
  ASSUME BackInv, RunInv', RunsGrow, [Next]_vars, NEW p \in Procs,
         NEW ok \in BOOLEAN, CommitBatch(p, ok)
  PROVE  BackInv'
<1> USE DEF BackInv, RunInv, TypeInv
<1>1. UNCHANGED <<task, evidence, runs>>
  BY DEF CommitBatch, Keep, files
<1>2. CASE Return(p)
  <2>1. Only(p) /\ w'[p].pc = "idle"
    BY <1>2, ReturnIsOnly
  <2>2. KnowsRows(p)'
    BY <2>1, NothingKnown DEF Remembering, Batching
  <2> QED
    BY <1>1, <2>1, <2>2, RowsQuiet
<1>3. CASE ~Return(p)
  <2>1. /\ w' = [w EXCEPT ![p] = [w[p] EXCEPT !.pc = "batchEvidence", !.ok = ok,
                                             !.rows = task, !.len = Len(evidence)]]
        /\ ok => BatchReady(w[p].ts)
    BY <1>3 DEF CommitBatch
  <2>2. PICK x : x = [w[p] EXCEPT !.pc = "batchEvidence", !.ok = ok, !.rows = task, !.len = Len(evidence)]
    OBVIOUS
  <2>3. x.pc = "batchEvidence" /\ x.ok = ok /\ x.rows = task /\ x.len = Len(evidence) /\ x.ts = w[p].ts
    BY <2>2 DEF TypeOK, Worker
  <2>4. w'[p] = x /\ Only(p)
    BY <2>1, <2>2, PlaceAfter
  <2>5. BoardBacked(w[p].rows, w[p].len)'
    <3>1. BoardBacked(task, Len(evidence))
      BY BackedIs DEF DoneIsBacked, BoardBacked
    <3> QED
      BY <1>1, <2>3, <2>4, <3>1, SMTT(30) DEF BoardBacked, Backs, CompleteRun
  <2>6. BatchFiled(p)'
    <3>1. Len(evidence) \in Nat
      BY Lengths
    <3>2. \A i \in 1..Len(evidence) : ~(i > Len(evidence))
      BY <3>1
    <3>3. ok => \A t \in w[p].ts : task[t].policy = "execution" /\ task[t].state \in Eligible \cup {"done"}
      BY <2>1 DEF BatchReady
    <3> QED
      BY <1>1, <2>3, <2>4, <3>2, <3>3 DEF BatchFiled
  <2>7. KnowsRows(p)'
    BY <1>1, <2>3, <2>4, <2>5, <2>6 DEF KnowsRows, Remembering, Batching
  <2> QED
    BY <1>1, <2>4, <2>7, RowsQuiet
<1> QED
  BY <1>2, <1>3

\* It files one entry for each task.
LEMMA RowsBatchEvidence ==
  ASSUME BackInv, RunInv', RunsGrow, [Next]_vars, NEW p \in Procs,
         NEW t \in Tasks, BatchEvidence(p, t)
  PROVE  BackInv'
<1> USE DEF BackInv, RunInv, TypeInv
<1> DEFINE e == Entry(t, "observed", w[p].ok, 0, 0, 0, w[p].began[t])
<1>1. /\ w[p].pc = "batchEvidence" /\ evidence' = Append(evidence, e) /\ UNCHANGED <<task, runs>>
      /\ t \in w[p].ts /\ ~Filed(p, t) /\ \A u \in w[p].ts : u < t => Filed(p, u)
  BY DEF BatchEvidence, At
<1>2. w[p] \in Worker /\ Len(evidence) \in Nat /\ w[p].len \in Nat /\ w[p].len <= Len(evidence)
  BY <1>1, Lengths DEF TypeOK, Worker, UndoFits, Batching
<1>3. e \in Evidence
  BY <1>2, EntryType DEF TypeOK, Worker
<1>4. /\ e.task = t /\ e.attempt = task[t].attempt /\ e.kind = "observed"
      /\ e.ok = w[p].ok /\ e.run = 0
  BY DEF Entry
<1> HIDE DEF e
<1>5. /\ Extended /\ Len(evidence') = Len(evidence) + 1 /\ evidence'[Len(evidence) + 1] = e
      /\ \A i \in 1..Len(evidence') : i \in 1..Len(evidence) \/ i = Len(evidence) + 1
  BY <1>1, <1>3, AppendedAt, AppendExtends
<1>6. DoneIsBacked'
  BY <1>1, <1>5, DoneStands
<1>7. CASE Return(p)
  <2>1. Only(p) /\ w'[p].pc = "idle"
    BY <1>7, ReturnIsOnly
  <2>2. KnowsRows(p)'
    BY <2>1, NothingKnown DEF Remembering, Batching
  <2> QED
    BY <1>1, <1>6, <2>1, <2>2, RowsAlone DEF Holding
<1>8. CASE ~Return(p)
  <2>1. /\ Only(p) /\ w'[p].rows = w[p].rows /\ w'[p].len = w[p].len
        /\ w'[p].ts = w[p].ts /\ w'[p].ok = w[p].ok
        /\ \/ w'[p].pc = "batchEvidence"
           \/ w'[p].pc = "batchDone" /\ w[p].ok /\ \A u \in w[p].ts : u <= t
    <3>1. \/ w' = w
          \/ Goto(p, "batchDone") /\ w[p].ok /\ \A u \in w[p].ts : u <= t
      BY <1>8 DEF BatchEvidence
    <3>2. CASE w' = w
      BY <1>1, <3>2 DEF Only
    <3>3. CASE Goto(p, "batchDone") /\ w[p].ok /\ \A u \in w[p].ts : u <= t
      BY <3>3, GotoIsOnly
    <3> QED
      BY <3>1, <3>2, <3>3
  <2>2. BoardBacked(w[p].rows, w[p].len)'
    <3>1. PICK board : board = w[p].rows
      OBVIOUS
    <3>2. PICK m \in Nat : m = w[p].len
      BY <1>2
    <3>3. BoardBacked(board, m) /\ m <= Len(evidence)
      BY <1>1, <1>2, <3>1, <3>2 DEF KnowsRows, Batching
    <3>4. BoardBacked(board, m)'
      BY <1>2, <1>5, <3>3, StepsWithin, BoardStands DEF Extended
    <3> QED
      BY <2>1, <3>1, <3>2, <3>4 DEF BoardBacked
  <2>3. BatchFiled(p)
    BY <1>1 DEF KnowsRows
  <2>4. BatchFiled(p)'
    <3>1. ASSUME NEW i \in 1..Len(evidence'), i > w[p].len
          PROVE  /\ evidence'[i].task \in w[p].ts /\ evidence'[i].attempt = task[evidence'[i].task].attempt
                 /\ evidence'[i].kind = "observed" /\ evidence'[i].ok = w[p].ok /\ evidence'[i].run = 0
                 /\ i \in 1..Len(evidence) <=> evidence'[i].task # t
      <4>1. CASE i \in 1..Len(evidence)
        <5>1. evidence'[i] = evidence[i] /\ i \in w[p].len+1..Len(evidence)
          BY <1>2, <1>5, <3>1, <4>1 DEF Extended
        <5>2. evidence[i].task # t
          BY <1>1, <5>1 DEF Filed
        <5> QED
          BY <2>3, <3>1, <4>1, <5>1, <5>2 DEF BatchFiled
      <4>2. CASE i = Len(evidence) + 1
        BY <1>1, <1>2, <1>4, <1>5, <4>2
      <4> QED
        BY <1>5, <4>1, <4>2
    <3>2. ASSUME NEW i \in 1..Len(evidence'), NEW j \in 1..Len(evidence'), i > w[p].len, j > w[p].len,
                 evidence'[j].task = evidence'[i].task
          PROVE  j = i
      <4>1. CASE evidence'[i].task = t
        BY <1>5, <3>1, <3>2, <4>1
      <4>2. CASE evidence'[i].task # t
        <5>1. /\ i \in 1..Len(evidence) /\ j \in 1..Len(evidence)
              /\ evidence'[i] = evidence[i] /\ evidence'[j] = evidence[j]
          BY <1>5, <3>1, <3>2, <4>2 DEF Extended
        <5> QED
          BY <2>3, <3>2, <5>1 DEF BatchFiled
      <4> QED
        BY <4>1, <4>2
    <3>3. w[p].ok => \A u \in w[p].ts : task[u].policy = "execution" /\ task[u].state \in Eligible \cup {"done"}
      BY <2>3 DEF BatchFiled
    <3> QED
      BY <1>1, <2>1, <3>1, <3>2, <3>3 DEF BatchFiled
  <2>5. ASSUME w'[p].pc = "batchDone", NEW u \in w[p].ts PROVE Filed(p, u)'
    <3>1. u \in Tasks /\ t \in Tasks /\ u \in Int /\ t \in Int
      BY <1>2, SizeAssumption DEF Worker, Tasks
    <3>2. CASE u = t
      <4>1. Len(evidence) + 1 \in w[p].len+1..Len(evidence')
        BY <1>2, <1>5
      <4>2. evidence'[Len(evidence) + 1].task = u
        BY <1>4, <1>5, <3>2
      <4> QED
        BY <2>1, <4>1, <4>2 DEF Filed
    <3>3. CASE u < t
      <4>1. PICK i \in w[p].len+1..Len(evidence) : evidence[i].task = u
        BY <1>1, <3>3 DEF Filed
      <4>2. i \in w[p].len+1..Len(evidence') /\ evidence'[i] = evidence[i]
        BY <1>2, <1>5 DEF Extended
      <4>3. evidence'[i].task = u
        BY <4>1, <4>2
      <4> QED
        BY <2>1, <4>2, <4>3 DEF Filed
    <3> QED
      BY <2>1, <2>5, <3>1, <3>2, <3>3
  <2>6. KnowsRows(p)'
    <3>1. \A u \in Tasks : w[p].rows[u].state = "done" => task[u] = w[p].rows[u]
      BY <1>1 DEF KnowsRows, Remembering, Batching
    <3> QED
      BY <1>1, <2>1, <2>2, <2>4, <2>5, <3>1 DEF KnowsRows
  <2> QED
    BY <1>1, <1>6, <2>1, <2>6, RowsAlone DEF Holding
<1> QED
  BY <1>7, <1>8

\* It marks one row after the other, restores the board, or takes its entries back.
LEMMA RowsBatchDone ==
  ASSUME BackInv, RunInv', RunsGrow, [Next]_vars, NEW p \in Procs,
         NEW t \in Tasks, BatchDone(p, t)
  PROVE  BackInv'
<1> USE DEF BackInv, RunInv, TypeInv
<1>1. /\ w[p].pc = "batchDone" /\ t \in w[p].ts /\ task[t].state # "done"
      /\ task' = [task EXCEPT ![t].state = "done"] /\ UNCHANGED <<evidence, runs, w>>
  BY DEF BatchDone, At
<1>2. /\ BatchFiled(p) /\ w[p].ok /\ BoardBacked(w[p].rows, w[p].len)
      /\ \A u \in w[p].ts : Filed(p, u)
      /\ \A u \in Tasks : w[p].rows[u].state = "done" => task[u] = w[p].rows[u]
  BY <1>1 DEF KnowsRows, Remembering, Batching
<1>3. /\ \A u \in Tasks : u # t => task'[u] = task[u]
      /\ task'[t].state = "done" /\ task'[t].attempt = task[t].attempt /\ task'[t].policy = task[t].policy
  BY <1>1 DEF TypeOK, Row
<1>4. \E i \in 1..Len(evidence) : Backs(i, task[t], t)
  <2>1. PICK i \in w[p].len+1..Len(evidence) : evidence[i].task = t
    BY <1>1, <1>2 DEF Filed
  <2>2. i \in 1..Len(evidence) /\ i > w[p].len
    <3>1. w[p].len \in Nat /\ Len(evidence) \in Nat
      BY Lengths DEF TypeOK, Worker
    <3> QED
      BY <2>1, <3>1
  <2>3. /\ evidence[i].attempt = task[t].attempt /\ evidence[i].kind = "observed" /\ evidence[i].ok
        /\ evidence[i].run = 0 /\ task[t].policy = "execution"
    BY <1>1, <1>2, <2>1, <2>2 DEF BatchFiled
  <2> QED
    BY <2>1, <2>2, <2>3 DEF Backs, Passing
<1>5. Extended
  BY <1>1, AppendExtends
<1>6. DoneIsBacked'
  <2>1. PICK i \in 1..Len(evidence) : Backs(i, task[t], t)
    BY <1>4
  <2>2. Backs(i, task[t], t)'
    BY <1>1, <1>3, <2>1 DEF Backs, CompleteRun
  <2>3. \E j \in 1..Len(evidence') : Backs(j, task[t], t)'
    BY <1>1, <2>2
  <2>4. ASSUME NEW u \in Tasks, task'[u].state = "done", u # t
        PROVE  /\ task[u].state = "done" /\ task'[u].attempt = task[u].attempt
               /\ task'[u].policy = task[u].policy
    BY <1>3, <2>4
  <2> QED
    BY <1>5, <2>3, <2>4, DoneStands
<1>7. KnowsRows(p)'
  <2>1. BoardBacked(w[p].rows, w[p].len)'
    BY <1>1, <1>2 DEF BoardBacked, Backs, CompleteRun
  <2>2. BatchFiled(p)'
    <3>1. \A u \in Tasks : task'[u].attempt = task[u].attempt /\ task'[u].policy = task[u].policy
      BY <1>3
    <3>2. \A u \in Tasks : task[u].state \in Eligible \cup {"done"} => task'[u].state \in Eligible \cup {"done"}
      BY <1>3
    <3>3. w[p].ts \subseteq Tasks
      BY DEF TypeOK, Worker
    <3>4. ASSUME NEW i \in 1..Len(evidence), i > w[p].len
          PROVE  /\ evidence[i].task \in w[p].ts /\ evidence[i].attempt = task'[evidence[i].task].attempt
                 /\ evidence[i].kind = "observed" /\ evidence[i].ok = w[p].ok /\ evidence[i].run = 0
                 /\ \A j \in 1..Len(evidence) : j > w[p].len /\ evidence[j].task = evidence[i].task => j = i
      <4>1. /\ evidence[i].task \in w[p].ts /\ evidence[i].attempt = task[evidence[i].task].attempt
            /\ evidence[i].kind = "observed" /\ evidence[i].ok = w[p].ok /\ evidence[i].run = 0
            /\ \A j \in 1..Len(evidence) : j > w[p].len /\ evidence[j].task = evidence[i].task => j = i
        BY <1>2, <3>4 DEF BatchFiled
      <4> QED
        BY <3>1, <3>3, <4>1
    <3>5. \A u \in w[p].ts : task'[u].policy = "execution" /\ task'[u].state \in Eligible \cup {"done"}
      <4>1. \A u \in w[p].ts : task[u].policy = "execution" /\ task[u].state \in Eligible \cup {"done"}
        BY <1>2 DEF BatchFiled
      <4> QED
        BY <3>1, <3>2, <3>3, <4>1
    <3> QED
      BY <1>1, <3>4, <3>5 DEF BatchFiled
  <2>3. \A u \in w[p].ts : Filed(p, u)'
    BY <1>1, <1>2 DEF Filed
  <2>4. \A u \in Tasks : w[p].rows[u].state = "done" => task'[u] = w[p].rows[u]
    BY <1>1, <1>2, <1>3
  <2> QED
    BY <1>1, <1>2, <2>1, <2>2, <2>3, <2>4 DEF KnowsRows
<1>8. Only(p)
  BY <1>1 DEF Only
<1> QED
  BY <1>1, <1>6, <1>7, <1>8, RowsAlone DEF Holding

LEMMA RowsBatchUndo ==
  ASSUME BackInv, RunInv', RunsGrow, [Next]_vars, NEW p \in Procs, BatchUndo(p)
  PROVE  BackInv'
<1> USE DEF BackInv, RunInv, TypeInv
<1>1. /\ w[p].pc \in {"batchEvidence", "batchDone"} /\ task' = w[p].rows
      /\ Goto(p, "batchUndo") /\ UNCHANGED <<evidence, runs>>
  BY DEF BatchUndo
<1>2. /\ BoardBacked(w[p].rows, w[p].len) /\ w[p].len <= Len(evidence) /\ w[p].len \in Nat
      /\ Len(evidence) \in Nat
  BY <1>1, Lengths DEF KnowsRows, Batching, UndoFits, TypeOK, Worker
<1>3. w'[p].pc = "batchUndo" /\ Only(p) /\ w'[p].rows = w[p].rows /\ w'[p].len = w[p].len
  BY <1>1, GotoIsOnly
<1>4. BoardBacked(w[p].rows, w[p].len)'
  BY <1>1, <1>2, <1>3 DEF BoardBacked, Backs, CompleteRun
<1>5. DoneIsBacked'
  <2>1. ASSUME NEW t \in Tasks, task'[t].state = "done"
        PROVE  \E i \in 1..Len(evidence') : Backs(i, task[t], t)'
    <3>1. PICK i \in 1..w[p].len : Backs(i, w[p].rows[t], t)'
      BY <1>1, <1>3, <1>4, <2>1 DEF BoardBacked
    <3>2. i \in 1..Len(evidence')
      BY <1>1, <1>2
    <3>3. Backs(i, task[t], t)'
      BY <1>1, <1>3, <3>1 DEF Backs
    <3> QED
      BY <3>2, <3>3
  <2> QED
    BY <2>1, BackedIs DEF DoneIsBacked
<1>6. KnowsRows(p)'
  BY <1>1, <1>3, <1>4 DEF KnowsRows
<1> QED
  BY <1>1, <1>3, <1>5, <1>6, RowsAlone DEF Holding

LEMMA RowsBatchUndoEvidence ==
  ASSUME BackInv, RunInv', RunsGrow, [Next]_vars, NEW p \in Procs, BatchUndoEvidence(p)
  PROVE  BackInv'
<1> USE DEF BackInv, RunInv, TypeInv
<1>1. /\ w[p].pc = "batchUndo" /\ task = w[p].rows /\ UNCHANGED <<task, runs>>
      /\ evidence' = SubSeq(evidence, 1, w[p].len) /\ Return(p)
  BY DEF BatchUndoEvidence, At, KnowsRows
<1>2. /\ BoardBacked(w[p].rows, w[p].len) /\ w[p].len <= Len(evidence) /\ w[p].len \in Nat
      /\ Len(evidence) \in Nat
  BY <1>1, Lengths DEF KnowsRows, Batching, UndoFits, TypeOK, Worker
<1>3. PICK n \in Nat : n = w[p].len
  BY <1>2
<1>4. PICK board : board = w[p].rows
  OBVIOUS
<1>5. Len(evidence') = n /\ \A i \in 1..n : evidence'[i] = evidence[i]
  BY <1>1, <1>2, <1>3 DEF TypeOK
<1>6. \A r \in 1..Len(runs), s \in 1..Steps : runs[r].steps[s] <= n
  BY <1>1, <1>3 DEF BatchIsUntagged, Batching
<1>7. BoardBacked(board, n)'
  <2>1. BoardBacked(board, n) /\ n <= n
    BY <1>2, <1>3, <1>4
  <2>2. n <= Len(evidence) /\ Len(evidence') \in Nat /\ n <= Len(evidence')
    BY <1>2, <1>3, <1>5
  <2> QED
    BY <1>5, <1>6, <2>1, <2>2, BoardStands
<1>8. DoneIsBacked'
  <2>1. ASSUME NEW t \in Tasks, task'[t].state = "done"
        PROVE  \E i \in 1..Len(evidence') : Backs(i, task[t], t)'
    <3>1. PICK i \in 1..n : Backs(i, board[t], t)'
      BY <1>1, <1>4, <1>7, <2>1 DEF BoardBacked
    <3>2. Backs(i, task[t], t)'
      BY <1>1, <1>4, <3>1 DEF Backs
    <3> QED
      BY <1>5, <3>2
  <2> QED
    BY <2>1, BackedIs DEF DoneIsBacked
<1>9. Only(p) /\ w'[p].pc = "idle"
  BY <1>1, ReturnIsOnly
<1>10. KnowsRows(p)'
  BY <1>9, NothingKnown DEF Remembering, Batching
<1> QED
  BY <1>1, <1>8, <1>9, <1>10, RowsAlone DEF Holding

\* close and carry-open: a settled row stays, and a failed close restores what it found.
LEMMA RowsClose ==
  ASSUME BackInv, RunInv', RunsGrow, [Next]_vars, NEW p \in Procs, CloseStep(p)
  PROVE  BackInv'
<1> USE DEF BackInv, RunInv, TypeInv
<1>1. UNCHANGED <<evidence, runs>>
  BY DEF CloseStep, CloseOpen, MarkClosed, CarryOpen, CloseAgain, CarryRows, CarryClose,
     ClosePlan, CloseEvent, Keep, files
<1>2. Extended
  BY <1>1, AppendExtends
<1>3. ASSUME Only(p), UNCHANGED task, w'[p].pc \notin Remembering \cup {"finish"} PROVE BackInv'
  BY <1>1, <1>3, NothingKnown, RowsQuiet
<1>4. ASSUME NEW x, w' = [w EXCEPT ![p] = x], x.pc \in {"carry", "closing"}, UNCHANGED task,
             \A t \in Tasks : x.rows[t].state = "done" => task[t] = x.rows[t]
      PROVE  BackInv'
  <2>1. w'[p] = x /\ Only(p)
    BY <1>4, PlaceAfter
  <2>2. KnowsRows(p)'
    BY <1>4, <2>1 DEF KnowsRows, Batching
  <2> QED
    BY <1>1, <1>4, <2>1, <2>2, RowsQuiet
<1>5. w[p] \in Worker
  BY DEF TypeOK
<1>6. ASSUME NEW rows, MarkClosed(p, rows),
             \A t \in Tasks : rows[t].state = "done" => task[t] = rows[t]
      PROVE  BackInv'
  <2>1. PICK x : x = [w[p] EXCEPT !.pc = "closing", !.rows = rows]
    OBVIOUS
  <2>2. x.pc = "closing" /\ x.rows = rows
    BY <1>5, <2>1 DEF Worker
  <2> QED
    BY <1>4, <1>6, <2>1, <2>2, ZenonT(60) DEF MarkClosed
<1>7. CASE CloseOpen(p)
  BY <1>6, <1>7 DEF CloseOpen
<1>8. CASE CarryOpen(p)
  <2>1. PICK x : x = [w[p] EXCEPT !.pc = "carry", !.rows = task]
    OBVIOUS
  <2>2. x.pc = "carry" /\ x.rows = task
    BY <1>5, <2>1 DEF Worker
  <2> QED
    BY <1>4, <1>8, <2>1, <2>2 DEF CarryOpen
<1>9. CASE CloseAgain(p)
  BY <1>3, <1>9, GotoIsOnly DEF CloseAgain, files, Remembering, Batching
<1>10. CASE CarryRows(p)
  <2>1. /\ \A t \in Tasks : IF task[t].state \in Settled THEN task'[t] = task[t]
                           ELSE task'[t].state = "moved"
        /\ Only(p) /\ w'[p].pc = IF At(p, "carry") THEN "carried" ELSE "idle"
        /\ w'[p].pc = "carried" => w'[p].rows = w[p].rows
    BY <1>10, CarriedRows
  <2>2. \A t \in Tasks : task'[t].state = "done" => task'[t] = task[t]
    BY <2>1 DEF Settled
  <2>3. DoneIsBacked'
    BY <1>2, <2>2, DoneStands
  <2>4. w[p].pc \in {"carry", "remap"}
    BY <1>10 DEF CarryRows
  <2>5. CASE At(p, "carry")
    <3>1. \A t \in Tasks : w[p].rows[t].state = "done" => task[t] = w[p].rows[t]
      BY <2>5 DEF At, KnowsRows, Remembering
    <3>2. \A t \in Tasks : w[p].rows[t].state = "done" => task'[t] = w[p].rows[t]
      BY <2>1, <3>1 DEF Settled
    <3>3. KnowsRows(p)'
      BY <2>1, <2>5, <3>2 DEF KnowsRows, Batching
    <3> QED
      BY <2>1, <2>3, <2>4, <3>3, RowsAlone DEF Holding
  <2>6. CASE ~At(p, "carry")
    <3>1. KnowsRows(p)'
      BY <2>1, <2>6, NothingKnown DEF Remembering, Batching
    <3> QED
      BY <2>1, <2>3, <2>4, <3>1, RowsAlone DEF Holding
  <2> QED
    BY <2>5, <2>6
<1>11. CASE CarryClose(p)
  <2>1. \A t \in Tasks : w[p].rows[t].state = "done" => task[t] = w[p].rows[t]
    BY <1>11 DEF CarryClose, At, KnowsRows, Remembering
  <2>2. CASE MarkClosed(p, w[p].rows)
    BY <1>6, <2>1, <2>2
  <2>3. CASE Return(p) /\ Keep
    BY <1>3, <2>3, ReturnIsOnly DEF Keep, files, Remembering, Batching
  <2> QED
    BY <1>11, <2>2, <2>3 DEF CarryClose
<1>12. ASSUME NEW io \in BOOLEAN, ClosePlan(p, io) PROVE BackInv'
  <2>1. /\ w[p].pc = "closing"
        /\ \A t \in Tasks : w[p].rows[t].state = "done" => task[t] = w[p].rows[t]
    BY <1>12 DEF ClosePlan, At, KnowsRows, Remembering
  <2>2. CASE io
    BY <1>3, <1>12, <2>2, GotoIsOnly DEF ClosePlan, Remembering, Batching
  <2>3. CASE ~io
    <3>1. task' = w[p].rows /\ (Return(p) \/ Goto(p, "remap"))
      BY <1>12, <2>3 DEF ClosePlan
    <3>2. Only(p) /\ w'[p].pc \in {"idle", "remap"}
      BY <3>1, GotoIsOnly, ReturnIsOnly
    <3>3. KnowsRows(p)'
      BY <3>2, NothingKnown DEF Remembering, Batching
    <3>4. \A t \in Tasks : task'[t].state = "done" => task'[t] = task[t]
      BY <2>1, <3>1
    <3>5. DoneIsBacked'
      BY <1>2, <3>4, DoneStands
    <3> QED
      BY <2>1, <3>2, <3>3, <3>5, RowsAlone DEF Holding
  <2> QED
    BY <2>2, <2>3
<1>13. ASSUME NEW io \in BOOLEAN, CloseEvent(p, io) PROVE BackInv'
  BY <1>3, <1>13, ReturnIsOnly DEF CloseEvent, Remembering, Batching
<1> QED
  BY <1>7, <1>8, <1>9, <1>10, <1>11, <1>12, <1>13 DEF CloseStep

LEMMA BackInit == Init => BackInv
  BY RunsInit DEF Init, BackInv, DoneIsBacked, Row0, KnowsRows, Remembering, Batching, Idle

LEMMA BackKept == BackInv /\ [Next]_vars => BackInv'
<1> SUFFICES ASSUME BackInv, [Next]_vars PROVE BackInv'
  OBVIOUS
<1>1. RunInv' /\ RunsGrow
  BY RunsStep, StepGrows DEF BackInv
<1>2. ASSUME NEW p \in Procs, BatchUndoEvidence(p) PROVE BackInv'
  BY <1>1, <1>2, RowsBatchUndoEvidence
<1>3. ASSUME NEW p \in Procs, BatchStep(p), \A q \in Procs : ~BatchUndoEvidence(q) PROVE BackInv'
  BY <1>1, <1>3, RowsBatchBegin, RowsBatchEvidence, RowsBatchDone, RowsBatchUndo DEF BatchStep
<1>4. ASSUME NEW p \in Procs, Begin(p) \/ Continue(p) \/ Crash(p), \A q \in Procs : ~BatchUndoEvidence(q)
      PROVE  BackInv'
  BY <1>1, <1>3, <1>4, StepKinds, RowsRow, RowsClose
<1> QED
  BY <1>1, <1>2, <1>4, RowsOperator DEF Next

\* No crash, lost lease, restart, undone batch or failed close leaves a done row without
\* passing evidence of its attempt (doneTask; the strict verification of closeSession).
THEOREM DoneIsBackedHolds == Spec => []DoneIsBacked
<1>1. BackInv => DoneIsBacked
  BY DEF BackInv
<1> QED
  BY <1>1, BackInit, BackKept, PTL DEF Spec

-----------------------------------------------------------------------------
(* Every completion passes the verification that close applies.            *)

CompletionsVerified ==
  \A t \in Tasks : task[t].state # "done" /\ task'[t].state = "done" => Verified(t)'

\* Only doneTask and a batch complete a task.
LEMMA StepVerifies ==
  ASSUME BackInv, [Next]_vars
  PROVE  CompletionsVerified
<1> USE DEF BackInv, RunInv, TypeInv
<1>1. CASE \A t \in Tasks : task'[t].state = "done" => task[t].state = "done"
  BY <1>1 DEF CompletionsVerified
<1>2. ASSUME NEW p \in Procs, FinishSingle(p) \/ DoneBare(p) \/ CommitRun(p)
      PROVE  CompletionsVerified
  <2> DEFINE t == w[p].t
  <2>1. /\ \A u \in Tasks : \/ task'[u] = task[u]
                           \/ /\ task'[u].attempt = task[u].attempt
                              /\ task'[u].policy = task[u].policy /\ u = t
        /\ UNCHANGED <<evidence, runs>>
    BY <1>2, OneDone
  <2>2. ASSUME NEW u \in Tasks, task[u].state # "done", task'[u].state = "done"
        PROVE  Verified(u)'
    <3>1. u = t /\ task'[u].attempt = task[u].attempt /\ task'[u].policy = task[u].policy
      BY <2>1, <2>2
    <3>2. \E i \in 1..Len(evidence) : Authorizes(i, u) /\ RunBacks(i, u)
      <4>1. CASE FinishSingle(p)
        <5>1. JustFiled(p) /\ Passing(evidence[w[p].ev], evidence[w[p].ev].auth)
          BY <2>2, <3>1, <4>1 DEF FinishSingle, At, KnowsRows
        <5>2. /\ w[p].ev \in 1..Len(evidence) /\ w[p].ev + 1..Len(evidence) = {}
          BY <5>1, Lengths DEF JustFiled
        <5> QED
          BY <3>1, <5>1, <5>2 DEF JustFiled, Authorizes, Files, RunBacks
      <4>2. CASE DoneBare(p) \/ CommitRun(p)
        BY <2>2, <3>1, <4>2 DEF DoneBare, CommitRun
      <4> QED
        BY <1>2, <4>1, <4>2
    <3>3. PICK i \in 1..Len(evidence) : Authorizes(i, u) /\ RunBacks(i, u)
      BY <3>2
    <3>4. Authorizes(i, u)' /\ RunBacks(i, u)'
      BY <2>1, <3>1, <3>3 DEF Authorizes, Files, RunBacks, RunAuthorizes, CompleteRun
    <3> QED
      BY <2>1, <3>4 DEF Verified
  <2> QED
    BY <2>2 DEF CompletionsVerified
<1>3. ASSUME NEW p \in Procs, NEW t \in Tasks, BatchDone(p, t) PROVE CompletionsVerified
  <2>1. /\ w[p].pc = "batchDone" /\ t \in w[p].ts /\ UNCHANGED <<evidence, runs>>
        /\ task' = [task EXCEPT ![t].state = "done"]
    BY <1>3 DEF BatchDone, At
  <2>2. BatchFiled(p) /\ w[p].ok /\ Filed(p, t)
    BY <2>1 DEF KnowsRows
  <2>3. /\ \A u \in Tasks : u # t => task'[u] = task[u]
        /\ task'[t].attempt = task[t].attempt /\ task'[t].policy = task[t].policy
    BY <2>1 DEF TypeOK, Row
  <2>4. w[p].len \in Nat /\ Len(evidence) \in Nat
    BY Lengths DEF TypeOK, Worker
  <2>5. PICK i \in w[p].len+1..Len(evidence) : evidence[i].task = t
    BY <2>2 DEF Filed
  <2>6. i \in 1..Len(evidence) /\ i > w[p].len
    BY <2>4, <2>5
  <2>7. /\ evidence[i].attempt = task[t].attempt /\ evidence[i].kind = "observed" /\ evidence[i].ok
        /\ evidence[i].run = 0 /\ task[t].policy = "execution"
        /\ \A j \in 1..Len(evidence) : j > w[p].len /\ evidence[j].task = t => j = i
    BY <2>1, <2>2, <2>5, <2>6 DEF BatchFiled
  <2>8. \A j \in i+1..Len(evidence) : evidence[j].task # t
    <3>1. SUFFICES ASSUME NEW j \in i+1..Len(evidence), evidence[j].task = t PROVE FALSE
      OBVIOUS
    <3>2. j \in 1..Len(evidence) /\ j > w[p].len /\ j # i
      BY <2>4, <2>6
    <3> QED
      BY <2>7, <3>1, <3>2
  <2>9. Authorizes(i, t)'
    BY <2>1, <2>3, <2>5, <2>6, <2>7, <2>8 DEF Authorizes, Files, Passing
  <2>10. RunBacks(i, t)'
    BY <2>1, <2>7 DEF RunBacks
  <2>11. Verified(t)'
    BY <2>1, <2>6, <2>9, <2>10 DEF Verified
  <2> QED
    BY <2>3, <2>11 DEF CompletionsVerified
<1>4. ASSUME NEW p \in Procs, BatchUndo(p) PROVE CompletionsVerified
  <2>1. task' = w[p].rows /\ \A t \in Tasks : w[p].rows[t].state = "done" => task[t] = w[p].rows[t]
    BY <1>4 DEF BatchUndo, KnowsRows, Remembering, Batching
  <2> QED
    BY <1>1, <2>1
<1>5. ASSUME NEW p \in Procs, NEW io \in BOOLEAN, ClosePlan(p, io) PROVE CompletionsVerified
  <2>1. \A t \in Tasks : w[p].rows[t].state = "done" => task[t] = w[p].rows[t]
    BY <1>5 DEF ClosePlan, At, KnowsRows, Remembering
  <2>2. task' = task \/ task' = w[p].rows
    BY <1>5 DEF ClosePlan
  <2> QED
    BY <1>1, <2>1, <2>2
<1>6. ASSUME NEW p \in Procs, CarryRows(p) PROVE CompletionsVerified
  <2>1. \A u \in Tasks : task'[u] = task[u] \/ task'[u].state = "moved"
    BY <1>6, CarriedRows
  <2> QED
    BY <1>1, <2>1
<1>7. CASE task' = task
  BY <1>1, <1>7
<1>8. ASSUME NEW p \in Procs, Begin(p) \/ Continue(p) \/ Crash(p) PROVE CompletionsVerified
  <2>1. CASE QuietStep(p) \/ RunStep(p)
    BY <1>7, <2>1, Undemanding
  <2>2. CASE RowStep(p)
    BY <1>2, <1>7, <2>2 DEF RowStep, CommitSingle
  <2>3. CASE BatchStep(p)
    BY <1>3, <1>4, <1>7, <2>3 DEF BatchStep, CommitBatch, Keep, files, BatchEvidence, BatchUndoEvidence
  <2>4. CASE CloseStep(p)
    BY <1>5, <1>6, <1>7, <2>4 DEF CloseStep, CloseOpen, MarkClosed, CarryOpen, CloseAgain, CarryClose,
       CloseEvent, Keep, files
  <2> QED
    BY <1>8, <2>1, <2>2, <2>3, <2>4, StepKinds
<1>9. CASE Operator
  BY <1>1, <1>9, OperatorRows
<1> QED
  BY <1>7, <1>8, <1>9 DEF Next, LoseLease, files, vars

\* Whatever doneTask looked at when it completed a task, the last decisive entry of the
\* ledger authorizes it, so a later close does not refuse it (completeObservedTask,
\* completeObservedTasks and doneTask against evidenceCompletionAuthorization).
THEOREM CompletionSatisfiesCloseHolds == Spec => CompletionSatisfiesClose
<1>1. BackInv /\ [Next]_vars => [CompletionsVerified]_vars
  BY StepVerifies
<1>2. CompletionSatisfiesClose <=> [][CompletionsVerified]_vars
  BY PTL DEF CompletionSatisfiesClose, CompletionsVerified
<1> QED
  BY <1>1, <1>2, BackInit, BackKept, PTL DEF Spec

-----------------------------------------------------------------------------
(* Evidence is filed under the attempt its command began in.               *)

AttemptsGrow == \A t \in Tasks : task'[t].attempt >= task[t].attempt

\* Without carry-open no rollback takes an attempt back.
LEMMA StepBumps ==
  ASSUME AttemptInv, [Next]_vars
  PROVE  AttemptsGrow
<1> USE DEF AttemptInv, RunInv, TypeInv
<1>1. \A t \in Tasks : task[t].attempt \in Nat
  BY DEF TypeOK, Row
<1>2. CASE ~Restoring
  BY <1>2, StepGoesOn DEF RowsGoOn, AttemptsGrow
<1>3. ASSUME NEW p \in Procs, BatchUndo(p) PROVE AttemptsGrow
  BY <1>1, <1>3 DEF BatchUndo, KnowsAttempt, Batching, AttemptsGrow
<1>4. ASSUME NEW p \in Procs, NEW t \in Tasks, BatchDone(p, t) PROVE AttemptsGrow
  <2>1. task' = [task EXCEPT ![t].state = "done"]
    BY <1>4 DEF BatchDone
  <2>2. \A u \in Tasks : task'[u].attempt = task[u].attempt
    BY <2>1 DEF TypeOK, Row
  <2> QED
    BY <1>1, <2>2 DEF AttemptsGrow
<1>5. ASSUME NEW p \in Procs, NEW io \in BOOLEAN, ClosePlan(p, io) PROVE AttemptsGrow
  <2>1. task' = task
    BY <1>5 DEF ClosePlan, At, KnowsAttempt
  <2> QED
    BY <1>1, <2>1 DEF AttemptsGrow
<1> QED
  BY <1>2, <1>3, <1>4, <1>5 DEF Restoring

\* A process that does not move still knows the attempts, if it is not between two writes
\* or the rows stand.
LEMMA AttemptOthers ==
  ASSUME AttemptInv, TypeOK', RunsGrow, AttemptsGrow, NEW q \in Procs, w'[q] = w[q],
         UNCHANGED task \/ w[q].pc \notin Holding
  PROVE  KnowsAttempt(q)'
<1> USE DEF AttemptInv, RunInv, TypeInv
<1>1. /\ \A t \in Tasks : task[t].attempt \in Nat
      /\ w[q].t \in Tasks /\ \A t \in Tasks : w[q].snap[t] \in Nat /\ w[q].began[t] \in Nat
  <2>1. task \in [Tasks -> Row] /\ w[q] \in Worker
    BY DEF TypeOK
  <2> QED
    BY <2>1 DEF Row, Worker
<1>2. \A t \in Tasks : task'[t].attempt \in Nat /\ task'[t].attempt >= task[t].attempt
  BY DEF TypeOK, Row, AttemptsGrow
<1>3. Stepping(q)' <=> Stepping(q)
  BY DEF Stepping
<1>4. KnowsAttempt(q)
  OBVIOUS
<1>5. ASSUME Stepping(q)
      PROVE  /\ w[q].run \in 1..Len(runs) /\ runs'[w[q].run].attempt = runs[w[q].run].attempt
             /\ runs[w[q].run].attempt \in Nat
  <2>1. w[q].run \in 1..Len(runs)
    BY <1>5 DEF StepsInOrder
  <2>2. runs[w[q].run] \in Run
    BY <2>1, ElementOfSeq DEF TypeOK
  <2> QED
    BY <2>1, <2>2 DEF RunsGrow, Run
<1>6. /\ w'[q].pc \notin {"carry", "carried", "remap"}
      /\ w'[q].pc \in {"prepare", "reconcile", "step"} => w'[q].mode = "multi"
      /\ w'[q].pc = "closing" => w'[q].rows = task'
      /\ w'[q].pc \in Batching => \A t \in Tasks : w'[q].rows[t].attempt = task'[t].attempt
      /\ w'[q].pc = "batchEvidence" => \A t \in w'[q].ts : w'[q].began[t] = task'[t].attempt
  BY <1>4 DEF KnowsAttempt, Holding, Batching
<1>7. /\ w'[q].pc \in {"verify", "running"} /\ w'[q].mode # "multi" =>
            \A t \in Tasks : w'[q].snap[t] <= task'[t].attempt
      /\ w'[q].pc = "running" =>
            \A t \in Tasks : /\ w'[q].began[t] <= task'[t].attempt
                             /\ w'[q].mode # "multi" => w'[q].snap[t] <= w'[q].began[t]
  <2>1. ASSUME NEW t \in Tasks, w[q].pc \in {"verify", "running"}, w[q].mode # "multi"
        PROVE  w[q].snap[t] <= task'[t].attempt
    <3>1. w[q].snap[t] <= task[t].attempt
      BY <1>4, <2>1 DEF KnowsAttempt
    <3> QED
      BY <1>1, <1>2, <3>1
  <2>2. ASSUME NEW t \in Tasks, w[q].pc = "running"
        PROVE  w[q].began[t] <= task'[t].attempt /\ (w[q].mode # "multi" => w[q].snap[t] <= w[q].began[t])
    <3>1. w[q].began[t] <= task[t].attempt /\ (w[q].mode # "multi" => w[q].snap[t] <= w[q].began[t])
      BY <1>4, <2>2 DEF KnowsAttempt
    <3> QED
      BY <1>1, <1>2, <3>1
  <2> QED
    BY <2>1, <2>2
<1>8. Stepping(q)' => runs'[w'[q].run].attempt <= task'[w'[q].t].attempt
  <2>1. SUFFICES ASSUME Stepping(q) PROVE runs'[w[q].run].attempt <= task'[w[q].t].attempt
    BY <1>3
  <2>2. runs[w[q].run].attempt <= task[w[q].t].attempt
    BY <1>4, <2>1 DEF KnowsAttempt
  <2> QED
    BY <1>1, <1>2, <1>5, <2>1, <2>2
<1>9. w'[q].pc = "running" /\ w'[q].mode = "multi" => runs'[w'[q].run].attempt <= w'[q].began[w'[q].t]
  <2>1. SUFFICES ASSUME w[q].pc = "running", w[q].mode = "multi"
                 PROVE  runs'[w[q].run].attempt <= w[q].began[w[q].t]
    OBVIOUS
  <2>2. Stepping(q) /\ runs[w[q].run].attempt <= w[q].began[w[q].t]
    BY <1>4, <2>1 DEF KnowsAttempt, Stepping
  <2> QED
    BY <1>5, <2>2
<1> QED
  BY <1>6, <1>7, <1>8, <1>9 DEF KnowsAttempt

\* A step of p that leaves it where it owes no attempt anything.
AttemptPlaces == Owing \cup {"prepare", "reconcile", "verify", "running", "step"}

LEMMA NoAttemptKnown ==
  ASSUME NEW p \in Procs, w'[p].pc \notin AttemptPlaces
  PROVE  KnowsAttempt(p)'
  BY DEF KnowsAttempt, AttemptPlaces, Owing, Batching, Stepping

\* The attempts of the ledger after one more entry.
LEMMA AttemptFiled ==
  ASSUME AttemptInv, NEW e \in Evidence, e.began = e.attempt, evidence' = Append(evidence, e)
  PROVE  EvidenceIsOfItsAttempt'
<1>1. /\ \A i \in 1..Len(evidence) : evidence'[i] = evidence[i]
      /\ evidence'[Len(evidence) + 1] = e
      /\ \A i \in 1..Len(evidence') : i \in 1..Len(evidence) \/ i = Len(evidence) + 1
  BY AppendedAt DEF AttemptInv, RunInv, TypeInv
<1> QED
  BY <1>1 DEF EvidenceIsOfItsAttempt, AttemptInv

\* How the other steps outside the lock end.
LEMMA QuietPlaces ==
  ASSUME TypeOK, NEW p \in Procs, QuietStep(p), ~Snapshot(p), ~VerifyBegin(p)
  PROVE  w'[p].pc \notin AttemptPlaces
<1> USE DEF AttemptPlaces, Owing, Batching
<1>1. w[p] \in Worker
  BY DEF TypeOK
<1>2. CASE Return(p)
  BY <1>2, ReturnIsOnly
<1>3. CASE \E mode \in Modes, S \in SUBSET Tasks : DoneBegin(p, mode, S)
  <2>1. PICK mode \in Modes, S \in SUBSET Tasks, t \in Tasks :
          w' = [w EXCEPT ![p] = [Idle EXCEPT !.pc = "acquire", !.mode = mode, !.ts = S, !.t = t]]
    BY <1>3 DEF DoneBegin
  <2>2. [Idle EXCEPT !.pc = "acquire", !.mode = mode, !.ts = S, !.t = t].pc = "acquire"
    BY DEF Idle
  <2> QED
    BY <2>1, <2>2, PlaceAfter
<1>4. CASE AcquireLease(p)
  <2>1. CASE Goto(p, "snapshot")
    BY <2>1, GotoIsOnly
  <2>2. ASSUME NEW u, w' = [w EXCEPT ![p].t = u] PROVE w'[p].pc \notin AttemptPlaces
    <3>1. [w[p] EXCEPT !.t = u].pc = "acquire"
      BY <1>1, <1>4 DEF AcquireLease, At, Worker
    <3> QED
      BY <2>2, <3>1, PlaceAfter
  <2> QED
    BY <1>4, <2>1, <2>2 DEF AcquireLease
<1>5. CASE LockTimeout(p) /\ ~Return(p)
  <2>1. w' = [w EXCEPT ![p] = [w[p] EXCEPT !.pc = "fail", !.term = "interrupted"]]
    BY <1>5 DEF LockTimeout
  <2>2. [w[p] EXCEPT !.pc = "fail", !.term = "interrupted"].pc = "fail"
    BY <1>1 DEF Worker
  <2> QED
    BY <2>1, <2>2, PlaceAfter
<1> QED
  BY <1>2, <1>3, <1>4, <1>5 DEF QuietStep, Busy, LeaseLost, BatchEnd, Crash

\* A step of a run is followed by the next, by the end of the run, or by a failure.
LEMMA RecordPlaces ==
  ASSUME TypeOK, NEW p \in Procs, NEW io \in BOOLEAN, RecordStep(p, io)
  PROVE  /\ w'[p].pc \in {"fail", "complete", "verify"}
         /\ w'[p].mode = w[p].mode /\ w'[p].run = w[p].run /\ w'[p].t = w[p].t
<1>1. PICK y \in Worker : y = w[p]
  BY DEF TypeOK
<1>2. ASSUME NEW pc \in {"fail", "complete", "verify"}, NEW s, NEW x,
             w' = [w EXCEPT ![p] = [w[p] EXCEPT !.pc = pc, !.step = s, !.term = x]]
      PROVE  /\ w'[p].pc \in {"fail", "complete", "verify"}
             /\ w'[p].mode = w[p].mode /\ w'[p].run = w[p].run /\ w'[p].t = w[p].t
  <2>1. w'[p] = [y EXCEPT !.pc = pc, !.step = s, !.term = x]
    BY <1>1, <1>2, PlaceAfter
  <2>2. w'[p].pc = pc /\ w'[p].mode = y.mode /\ w'[p].run = y.run /\ w'[p].t = y.t
    BY <2>1 DEF Worker
  <2> QED
    BY <1>1, <2>2
<1>3. CASE io /\ Owns(p)
  <2>1. PICK pc \in {"fail", "complete", "verify"} :
          pc = CASE ~w[p].ok -> "fail"
                 [] w[p].ok /\ w[p].step = Steps -> "complete"
                 [] OTHER -> "verify"
    OBVIOUS
  <2>2. w' = [w EXCEPT ![p] = [w[p] EXCEPT !.pc = pc,
                                 !.step = IF w[p].ok /\ w[p].step < Steps THEN w[p].step + 1 ELSE w[p].step,
                                 !.term = IF w[p].ok THEN "none" ELSE "failed"]]
    BY <1>3, <2>1 DEF RecordStep
  <2> QED
    BY <1>2, <2>2
<1>4. CASE ~(io /\ Owns(p))
  <2>1. w' = [w EXCEPT ![p] = [y EXCEPT !.pc = "fail", !.term = "interrupted"]]
    BY <1>1, <1>4 DEF RecordStep
  <2>2. w'[p] = [y EXCEPT !.pc = "fail", !.term = "interrupted"]
    BY <2>1, PlaceAfter
  <2>3. w'[p].pc = "fail" /\ w'[p].mode = y.mode /\ w'[p].run = y.run /\ w'[p].t = y.t
    BY <2>2 DEF Worker
  <2> QED
    BY <1>1, <2>3
<1> QED
  BY <1>3, <1>4

\* The attempts after a step of p that respects the session lock.
LEMMA AttemptMove ==
  ASSUME AttemptInv, RunInv', RunsGrow, AttemptsGrow, NEW p \in Procs, Only(p),
         KnowsAttempt(p)', EvidenceIsOfItsAttempt',
         UNCHANGED task \/ lock = NoProc \/ w[p].pc \in Holding
  PROVE  AttemptInv'
<1>1. ASSUME NEW q \in Procs, q # p PROVE KnowsAttempt(q)'
  <2>1. w'[q] = w[q] /\ (UNCHANGED task \/ w[q].pc \notin Holding)
    BY <1>1, NobodyBetween DEF Only, AttemptInv, RunInv
  <2> QED
    BY <2>1, AttemptOthers DEF RunInv, TypeInv
<1> QED
  BY <1>1 DEF AttemptInv

\* The operator files evidence of the current attempt.
LEMMA AttemptOperator ==
  ASSUME AttemptInv, RunInv', RunsGrow, AttemptsGrow,
         Operator \/ (\E t \in Tasks : LoseLease(t)) \/ UNCHANGED vars
  PROVE  AttemptInv'
<1> USE DEF AttemptInv, RunInv, TypeInv
<1>1. w' = w
  BY DEF Operator, StartTasks, TransitionTask, DeclareEvidence, Reverify, EditArtifact, Archive,
         LoseLease, vars
<1>2. UNCHANGED task \/ lock = NoProc
  BY DEF Operator, StartTasks, TransitionTask, DeclareEvidence, Reverify, EditArtifact,
         Archive, LoseLease, vars, files, Free
<1>3. \A q \in Procs : UNCHANGED task \/ w[q].pc \notin Holding
  BY <1>2, ProcsAssumption DEF LockHeld
<1>4. SUFFICES EvidenceIsOfItsAttempt'
  BY <1>1, <1>3, AttemptOthers
<1>5. \A t \in Tasks : task[t].attempt \in Nat
  BY DEF TypeOK, Row
<1>6. ASSUME NEW t \in Tasks, NEW kind \in {"observed", "declared"}, NEW ok \in BOOLEAN,
             NEW note \in Contents \cup {0},
             evidence' = Append(evidence, Entry(t, kind, ok, 0, 0, note, task[t].attempt))
      PROVE  EvidenceIsOfItsAttempt'
  <2>1. PICK e \in Evidence : e = Entry(t, kind, ok, 0, 0, note, task[t].attempt)
    BY <1>5, EntryType DEF TypeOK
  <2>2. e.began = e.attempt
    BY <2>1 DEF Entry
  <2> QED
    BY <1>6, <2>1, <2>2, AttemptFiled
<1>7. ASSUME NEW t \in Tasks, NEW ok \in BOOLEAN, NEW note \in Contents, DeclareEvidence(t, ok, note)
      PROVE  EvidenceIsOfItsAttempt'
  BY <1>6, <1>7 DEF DeclareEvidence
<1>8. ASSUME NEW t \in Tasks, NEW ok \in BOOLEAN, Reverify(t, ok) PROVE EvidenceIsOfItsAttempt'
  BY <1>6, <1>8 DEF Reverify
<1>9. CASE UNCHANGED evidence
  BY <1>9 DEF EvidenceIsOfItsAttempt
<1> QED
  BY <1>7, <1>8, <1>9 DEF Operator, StartTasks, TransitionTask, EditArtifact, Archive,
     LoseLease, vars, files

\* A command takes its snapshot, begins, and files under the attempt it began in.
LEMMA AttemptCommand ==
  ASSUME AttemptInv, RunInv', RunsGrow, AttemptsGrow, NEW p \in Procs,
         QuietStep(p) \/ RunStep(p) \/ RowStep(p)
  PROVE  AttemptInv'
<1> USE DEF AttemptInv, RunInv, TypeInv
<1> DEFINE t == w[p].t
           r == w[p].run
<1>1. PICK y \in Worker : y = w[p]
  BY DEF TypeOK
<1>2. /\ y.t \in Tasks /\ t = y.t /\ r = y.run /\ \A u \in Tasks : y.snap[u] \in Nat /\ y.began[u] \in Nat
      /\ task \in [Tasks -> Row] /\ \A u \in Tasks : task[u].attempt \in Nat
      /\ y.run \in Nat /\ y.step \in Nat
  BY <1>1 DEF TypeOK, Worker, Row
<1>3. CASE QuietStep(p)
  <2>1. UNCHANGED <<task, evidence, runs>>
    BY <1>3 DEF QuietStep, DoneBegin, AcquireLease, Busy, LockTimeout, Snapshot, VerifyBegin,
       LeaseLost, BatchEnd, Crash, Keep, files
  <2>2. EvidenceIsOfItsAttempt'
    BY <2>1 DEF EvidenceIsOfItsAttempt
  <2>3. Only(p)
    BY <1>3, Undemanding
  <2>4. SUFFICES KnowsAttempt(p)'
    BY <2>1, <2>2, <2>3, AttemptMove
  <2>5. CASE w'[p].pc \notin AttemptPlaces
    BY <2>5, NoAttemptKnown
  <2>6. CASE Snapshot(p) /\ ~Return(p)
    <3>1. PICK pc, snap : /\ pc = IF y.mode = "multi" THEN "prepare" ELSE "verify"
                          /\ snap = [u \in Tasks |-> task[u].attempt]
      OBVIOUS
    <3>2. w' = [w EXCEPT ![p] = [y EXCEPT !.snap = snap, !.pc = pc]]
      BY <1>1, <2>6, <3>1 DEF Snapshot
    <3>3. w'[p] = [y EXCEPT !.snap = snap, !.pc = pc]
      BY <3>2, PlaceAfter
    <3>4. w'[p].pc = pc /\ w'[p].snap = snap /\ w'[p].mode = y.mode
      BY <3>3 DEF Worker
    <3>5. \A u \in Tasks : w'[p].snap[u] <= task'[u].attempt
      BY <1>2, <2>1, <3>1, <3>4
    <3> QED
      BY <3>1, <3>4, <3>5 DEF KnowsAttempt, Stepping, Batching
  <2>7. CASE VerifyBegin(p)
    <3>1. PICK began : began = [u \in Tasks |-> task[u].attempt]
      OBVIOUS
    <3>2. w' = [w EXCEPT ![p] = [y EXCEPT !.pc = "running", !.began = began]] /\ y.pc = "verify"
      BY <1>1, <2>7, <3>1 DEF VerifyBegin, At
    <3>3. w'[p] = [y EXCEPT !.pc = "running", !.began = began]
      BY <3>2, PlaceAfter
    <3>4. /\ w'[p].pc = "running" /\ w'[p].began = began /\ w'[p].mode = y.mode
          /\ w'[p].snap = y.snap /\ w'[p].t = y.t /\ w'[p].run = y.run
      BY <3>3 DEF Worker
    <3>5. \A u \in Tasks : w'[p].began[u] = task'[u].attempt /\ w'[p].began[u] <= task'[u].attempt
      BY <1>2, <2>1, <3>1, <3>4
    <3>6. y.mode # "multi" => \A u \in Tasks : /\ w'[p].snap[u] <= task'[u].attempt
                                              /\ w'[p].snap[u] <= w'[p].began[u]
      BY <1>1, <2>1, <3>2, <3>4, <3>5 DEF KnowsAttempt
    <3>7. y.mode = "multi" => /\ runs'[w'[p].run].attempt <= task'[w'[p].t].attempt
                              /\ runs'[w'[p].run].attempt <= w'[p].began[w'[p].t]
      BY <1>1, <1>2, <2>1, <3>2, <3>4, <3>5 DEF KnowsAttempt, Stepping
    <3> QED
      BY <3>4, <3>5, <3>6, <3>7 DEF KnowsAttempt, Stepping, Batching
  <2>8. CASE ~Snapshot(p) /\ ~VerifyBegin(p)
    BY <1>3, <2>5, <2>8, QuietPlaces
  <2>9. CASE Snapshot(p) /\ Return(p)
    BY <2>5, <2>9, ReturnIsOnly DEF AttemptPlaces, Owing, Batching
  <2> QED
    BY <2>6, <2>7, <2>8, <2>9
<1>4. KnowsAttempt(p)
  OBVIOUS
<1>5. r \in 1..Len(runs) => runs[r].attempt \in Nat /\ runs'[r].attempt = runs[r].attempt
  <2>1. r \in 1..Len(runs) => runs[r] \in Run
    BY ElementOfSeq DEF TypeOK
  <2> QED
    BY <2>1 DEF Run, RunsGrow
<1>6. ASSUME RunStep(p), KnowsAttempt(p)', EvidenceIsOfItsAttempt' PROVE AttemptInv'
  BY <1>6, Undemanding, AttemptMove
<1>7. CASE Prepare(p) \/ Reconcile(p) \/ Supersede(p)
  <2>1. UNCHANGED evidence
    BY <1>7 DEF Prepare, Reconcile, Supersede, Keep, files
  <2>2. EvidenceIsOfItsAttempt'
    BY <2>1 DEF EvidenceIsOfItsAttempt
  <2>3. CASE Return(p)
    BY <1>6, <1>7, <2>2, <2>3, ReturnIsOnly, NoAttemptKnown DEF RunStep, AttemptPlaces, Owing, Batching
  <2>4. CASE ~Return(p)
    <3>1. CASE Prepare(p)
      <4>1. PICK q : w' = [w EXCEPT ![p] = [y EXCEPT !.pc = "reconcile", !.run = q]] /\ y.pc = "prepare"
        BY <1>1, <2>4, <3>1 DEF Prepare, At
      <4>2. w'[p] = [y EXCEPT !.pc = "reconcile", !.run = q]
        BY <4>1, PlaceAfter
      <4>3. w'[p].mode = "multi" /\ w'[p].pc = "reconcile"
        <5>1. y.mode = "multi"
          BY <1>1, <1>4, <4>1 DEF KnowsAttempt
        <5> QED
          BY <4>2, <5>1 DEF Worker
      <4>4. KnowsAttempt(p)'
        BY <4>3 DEF KnowsAttempt, Stepping, Batching
      <4> QED
        BY <1>6, <2>2, <3>1, <4>4 DEF RunStep
    <3>2. CASE Reconcile(p) \/ Supersede(p)
      <4>1. w' = w /\ w[p].pc \in {"reconcile", "failing"}
        BY <2>4, <3>2 DEF Reconcile, Supersede, At
      <4>2. KnowsAttempt(p)'
        BY <1>4, <4>1 DEF KnowsAttempt, Stepping, Batching
      <4> QED
        BY <1>6, <2>2, <3>2, <4>2 DEF RunStep
    <3> QED
      BY <1>7, <3>1, <3>2
  <2> QED
    BY <2>3, <2>4
<1>8. CASE StartRun(p)
  <2>1. EvidenceIsOfItsAttempt'
    BY <1>8 DEF StartRun, EvidenceIsOfItsAttempt
  <2>2. CASE Return(p)
    BY <1>6, <1>8, <2>1, <2>2, ReturnIsOnly, NoAttemptKnown DEF RunStep, AttemptPlaces, Owing, Batching
  <2>3. CASE ~Return(p)
    <3> DEFINE new == [task |-> t, attempt |-> task[t].attempt,
                       steps |-> [s \in 1..Steps |-> 0], term |-> "none"]
    <3>1. /\ w' = [w EXCEPT ![p] = [y EXCEPT !.pc = "verify", !.run = Len(runs) + 1, !.step = 1]]
          /\ runs' = Append(runs, new) /\ y.pc = "reconcile" /\ UNCHANGED task
      BY <1>1, <1>8, <2>3 DEF StartRun, At
    <3>2. w'[p] = [y EXCEPT !.pc = "verify", !.run = Len(runs) + 1, !.step = 1]
      BY <3>1, PlaceAfter
    <3>3. /\ w'[p].pc = "verify" /\ w'[p].run = Len(runs) + 1 /\ w'[p].mode = "multi"
          /\ w'[p].t = y.t
      <4>1. y.mode = "multi"
        BY <1>1, <1>4, <3>1 DEF KnowsAttempt
      <4> QED
        BY <3>2, <4>1 DEF Worker
    <3>4. new.attempt = task[y.t].attempt
      BY <1>2
    <3>5. runs'[Len(runs) + 1] = new
      <4> HIDE DEF new
      <4> QED
        BY <3>1, Lengths DEF TypeOK
    <3>6. KnowsAttempt(p)'
      <4> HIDE DEF new
      <4>1. runs'[w'[p].run].attempt <= task'[w'[p].t].attempt
        BY <1>2, <3>1, <3>3, <3>4, <3>5
      <4> QED
        BY <3>3, <4>1 DEF KnowsAttempt, Stepping, Batching
    <3> QED
      BY <1>6, <1>8, <2>1, <3>6 DEF RunStep
  <2> QED
    BY <2>2, <2>3
<1>9. ASSUME NEW ok \in BOOLEAN, CommitStep(p, ok) PROVE AttemptInv'
  <2>1. CASE StepCurrent(t, r) /\ task[t].policy # "waiver" /\ Room
    <3>1. /\ evidence' = Append(evidence, Entry(t, "observed", ok, r, y.step, 0, y.began[t]))
          /\ w' = [w EXCEPT ![p] = [y EXCEPT !.pc = "step", !.ok = ok, !.ev = Len(evidence) + 1]]
          /\ y.pc = "running" /\ y.mode = "multi" /\ UNCHANGED <<task, runs>>
          /\ task[t].attempt = runs[r].attempt
      BY <1>1, <1>9, <2>1 DEF CommitStep, At, StepCurrent
    <3>2. w'[p] = [y EXCEPT !.pc = "step", !.ok = ok, !.ev = Len(evidence) + 1]
      BY <3>1, PlaceAfter
    <3>3. w'[p].pc = "step" /\ w'[p].mode = "multi" /\ w'[p].run = r /\ w'[p].t = t
      <4>1. w'[p].pc = "step" /\ w'[p].mode = y.mode /\ w'[p].run = y.run /\ w'[p].t = y.t
        BY <3>2 DEF Worker
      <4> QED
        BY <1>2, <3>1, <4>1
    <3>4. KnowsAttempt(p)'
      <4>1. runs'[w'[p].run].attempt <= task'[w'[p].t].attempt
        BY <1>2, <3>1, <3>3
      <4> QED
        BY <3>3, <4>1 DEF KnowsAttempt, Stepping, Batching
    <3>5. y.began[t] = task[t].attempt
      BY <1>1, <1>2, <1>4, <3>1 DEF KnowsAttempt
    <3>6. PICK e \in Evidence : e = Entry(t, "observed", ok, r, y.step, 0, y.began[t])
      BY <1>2, EntryType DEF TypeOK
    <3>7. e.began = e.attempt
      BY <3>5, <3>6 DEF Entry
    <3>8. EvidenceIsOfItsAttempt'
      BY <3>1, <3>6, <3>7, AttemptFiled
    <3> QED
      BY <1>6, <1>9, <3>4, <3>8 DEF RunStep
  <2>2. CASE ~(StepCurrent(t, r) /\ task[t].policy # "waiver" /\ Room)
    <3>1. /\ w' = [w EXCEPT ![p] = [y EXCEPT !.pc = "fail", !.term = "interrupted"]]
          /\ UNCHANGED evidence
      BY <1>1, <1>9, <2>2 DEF CommitStep
    <3>2. w'[p] = [y EXCEPT !.pc = "fail", !.term = "interrupted"]
      BY <3>1, PlaceAfter
    <3>3. w'[p].pc = "fail"
      BY <3>2 DEF Worker
    <3>4. KnowsAttempt(p)' /\ EvidenceIsOfItsAttempt'
      BY <3>1, <3>3, NoAttemptKnown DEF AttemptPlaces, Owing, Batching, EvidenceIsOfItsAttempt
    <3> QED
      BY <1>6, <1>9, <3>4 DEF RunStep
  <2> QED
    BY <2>1, <2>2
<1>10. ASSUME NEW io \in BOOLEAN, RecordStep(p, io) PROVE AttemptInv'
  <2>1. w'[p].pc \in {"fail", "complete", "verify"} /\ w'[p].mode = y.mode /\ w'[p].run = r /\ w'[p].t = t
    BY <1>1, <1>10, RecordPlaces
  <2>2. y.pc = "step" /\ UNCHANGED <<task, evidence>>
    BY <1>1, <1>10 DEF RecordStep, At
  <2>3. r \in 1..Len(runs) /\ runs[r].attempt <= task[t].attempt /\ y.mode = "multi"
    BY <1>1, <1>4, <2>2 DEF StepsInOrder, Stepping, KnowsAttempt
  <2>4. runs'[w'[p].run].attempt <= task'[w'[p].t].attempt
    BY <1>5, <2>1, <2>2, <2>3
  <2>5. KnowsAttempt(p)'
    BY <2>1, <2>3, <2>4 DEF KnowsAttempt, Batching
  <2>6. EvidenceIsOfItsAttempt'
    BY <2>2 DEF EvidenceIsOfItsAttempt
  <2> QED
    BY <1>6, <1>10, <2>5, <2>6 DEF RunStep
<1>11. CASE Recover(p) \/ FailRun(p) \/ FailTerminal(p) \/ CompleteBegin(p) \/ Finalize(p)
  <2>1. \/ Return(p) \/ Goto(p, "finalize") \/ Goto(p, "failing") \/ Goto(p, "commit")
    BY <1>11 DEF Recover, FailRun, FailTerminal, CompleteBegin, Finalize
  <2>2. w'[p].pc \in {"idle", "finalize", "failing", "commit"}
    BY <2>1, ReturnIsOnly, GotoIsOnly
  <2>3. UNCHANGED evidence
    BY <1>11 DEF Recover, FailRun, FailTerminal, CompleteBegin, Finalize, Keep, files
  <2>4. KnowsAttempt(p)' /\ EvidenceIsOfItsAttempt'
    BY <2>2, <2>3, NoAttemptKnown DEF AttemptPlaces, Owing, Batching, EvidenceIsOfItsAttempt
  <2> QED
    BY <1>6, <1>11, <2>4 DEF RunStep
<1>12. CASE FinishSingle(p) \/ DoneBare(p) \/ CommitRun(p)
  <2>1. w'[p].pc = "idle" /\ Only(p) /\ UNCHANGED evidence
    BY <1>12, OneDone
  <2>2. KnowsAttempt(p)' /\ EvidenceIsOfItsAttempt'
    BY <2>1, NoAttemptKnown DEF AttemptPlaces, Owing, Batching, EvidenceIsOfItsAttempt
  <2>3. lock = NoProc \/ w[p].pc \in Holding
    BY <1>12 DEF FinishSingle, DoneBare, CommitRun, At, Free, Holding
  <2> QED
    BY <2>1, <2>2, <2>3, AttemptMove
<1>13. ASSUME NEW ok \in BOOLEAN, CommitSingle(p, ok) PROVE AttemptInv'
  <2>1. /\ UNCHANGED task /\ (Return(p) \/ ~Return(p)) /\ y.pc = "running" /\ y.mode = "single"
        /\ \/ UNCHANGED evidence
           \/ /\ evidence' = Append(evidence, Entry(t, "observed", ok, 0, 0, 0, y.began[t]))
              /\ Fresh(p, t)
    BY <1>1, <1>13 DEF CommitSingle, At
  <2>2. EvidenceIsOfItsAttempt'
    <3>1. CASE UNCHANGED evidence
      BY <3>1 DEF EvidenceIsOfItsAttempt
    <3>2. CASE /\ evidence' = Append(evidence, Entry(t, "observed", ok, 0, 0, 0, y.began[t]))
               /\ Fresh(p, t)
      <4>1. y.began[t] = task[t].attempt
        BY <1>1, <1>2, <1>4, <2>1, <3>2 DEF KnowsAttempt, Fresh
      <4>2. PICK e \in Evidence : e = Entry(t, "observed", ok, 0, 0, 0, y.began[t])
        BY <1>2, EntryType DEF TypeOK
      <4>3. e.began = e.attempt
        BY <4>1, <4>2 DEF Entry
      <4> QED
        BY <3>2, <4>2, <4>3, AttemptFiled
    <3> QED
      BY <2>1, <3>1, <3>2
  <2>3. Only(p) /\ w'[p].pc \in {"idle", "finish"}
    <3>1. CASE Return(p)
      BY <3>1, ReturnIsOnly
    <3>2. CASE ~Return(p)
      <4>1. w' = [w EXCEPT ![p] = [y EXCEPT !.pc = "finish", !.ev = Len(evidence) + 1]]
        BY <1>1, <1>13, <3>2 DEF CommitSingle
      <4>2. w'[p] = [y EXCEPT !.pc = "finish", !.ev = Len(evidence) + 1] /\ Only(p)
        BY <4>1, PlaceAfter
      <4> QED
        BY <4>2 DEF Worker
    <3> QED
      BY <3>1, <3>2
  <2>4. KnowsAttempt(p)'
    BY <2>3 DEF KnowsAttempt, Stepping, Batching
  <2> QED
    BY <2>1, <2>2, <2>3, <2>4, AttemptMove
<1> QED
  BY <1>3, <1>7, <1>8, <1>9, <1>10, <1>11, <1>12, <1>13 DEF RunStep, RowStep

\* A batch files under the attempt it found and, undone, leaves the attempts as they are.
LEMMA AttemptBatch ==
  ASSUME AttemptInv, RunInv', RunsGrow, AttemptsGrow, NEW p \in Procs, BatchStep(p)
  PROVE  AttemptInv'
<1> USE DEF AttemptInv, RunInv, TypeInv
<1>1. PICK y \in Worker : y = w[p]
  BY DEF TypeOK
<1>2. /\ y.ts \subseteq Tasks /\ y.ok \in BOOLEAN /\ \A u \in Tasks : y.snap[u] \in Nat /\ y.began[u] \in Nat
      /\ task \in [Tasks -> Row] /\ \A u \in Tasks : task[u].attempt \in Nat
  BY <1>1 DEF TypeOK, Worker, Row
<1>3. KnowsAttempt(p)
  OBVIOUS
<1>4. ASSUME NEW ok \in BOOLEAN, CommitBatch(p, ok) PROVE AttemptInv'
  <2>1. UNCHANGED <<task, evidence>>
    BY <1>4 DEF CommitBatch, Keep, files
  <2>2. EvidenceIsOfItsAttempt'
    BY <2>1 DEF EvidenceIsOfItsAttempt
  <2>3. CASE Return(p)
    BY <2>1, <2>2, <2>3, ReturnIsOnly, NoAttemptKnown, AttemptMove DEF AttemptPlaces, Owing, Batching
  <2>4. CASE ~Return(p)
    <3>1. /\ w' = [w EXCEPT ![p] = [y EXCEPT !.pc = "batchEvidence", !.ok = ok, !.rows = task, !.len = Len(evidence)]]
          /\ y.pc = "running" /\ y.mode = "batch" /\ \A u \in y.ts : Fresh(p, u)
      BY <1>1, <1>4, <2>4 DEF CommitBatch, At
    <3>2. w'[p] = [y EXCEPT !.pc = "batchEvidence", !.ok = ok, !.rows = task, !.len = Len(evidence)] /\ Only(p)
      BY <3>1, PlaceAfter
    <3>3. w'[p].pc = "batchEvidence" /\ w'[p].rows = task /\ w'[p].ts = y.ts /\ w'[p].began = y.began
      BY <3>2 DEF Worker
    <3>4. ASSUME NEW u \in y.ts PROVE y.began[u] = task[u].attempt
      <4>1. u \in Tasks /\ task[u].attempt = y.snap[u]
        BY <1>1, <1>2, <3>1 DEF Fresh
      <4>2. y.snap[u] <= y.began[u] /\ y.began[u] <= task[u].attempt
        BY <1>1, <1>3, <3>1, <4>1 DEF KnowsAttempt
      <4> QED
        BY <1>2, <4>1, <4>2
    <3>5. KnowsAttempt(p)'
      BY <2>1, <3>3, <3>4 DEF KnowsAttempt, Stepping, Batching
    <3> QED
      BY <2>1, <2>2, <3>2, <3>5, AttemptMove
  <2> QED
    BY <2>3, <2>4
<1>5. ASSUME NEW t \in Tasks, BatchEvidence(p, t) PROVE AttemptInv'
  <2>1. /\ y.pc = "batchEvidence" /\ t \in y.ts /\ UNCHANGED task
        /\ evidence' = Append(evidence, Entry(t, "observed", y.ok, 0, 0, 0, y.began[t]))
        /\ Goto(p, "batchDone") \/ Return(p) \/ w' = w
    BY <1>1, <1>5 DEF BatchEvidence, At
  <2>2. y.began[t] = task[t].attempt
    BY <1>1, <1>3, <2>1 DEF KnowsAttempt
  <2>3. PICK e \in Evidence : e = Entry(t, "observed", y.ok, 0, 0, 0, y.began[t])
    BY <1>2, EntryType DEF TypeOK
  <2>4. e.began = e.attempt
    BY <2>2, <2>3 DEF Entry
  <2>5. EvidenceIsOfItsAttempt'
    BY <2>1, <2>3, <2>4, AttemptFiled
  <2>6. CASE Return(p)
    BY <2>1, <2>5, <2>6, ReturnIsOnly, NoAttemptKnown, AttemptMove DEF AttemptPlaces, Owing, Batching
  <2>7. CASE Goto(p, "batchDone") \/ w' = w
    <3>1. /\ Only(p) /\ w'[p].pc \in {"batchEvidence", "batchDone"} /\ w'[p].rows = y.rows
          /\ w'[p].began = y.began /\ w'[p].ts = y.ts
      BY <1>1, <2>1, <2>7, GotoIsOnly DEF Only
    <3>2. \A u \in Tasks : y.rows[u].attempt = task[u].attempt
      BY <1>1, <1>3, <2>1 DEF KnowsAttempt, Batching
    <3>3. \A u \in y.ts : y.began[u] = task[u].attempt
      BY <1>1, <1>3, <2>1 DEF KnowsAttempt
    <3>4. KnowsAttempt(p)'
      BY <2>1, <3>1, <3>2, <3>3 DEF KnowsAttempt, Stepping, Batching
    <3> QED
      BY <2>1, <2>5, <3>1, <3>4, AttemptMove
  <2> QED
    BY <2>1, <2>6, <2>7
<1>6. ASSUME NEW t \in Tasks, BatchDone(p, t) PROVE AttemptInv'
  <2>1. w[p].pc = "batchDone" /\ w' = w /\ UNCHANGED evidence /\ task' = [task EXCEPT ![t].state = "done"]
    BY <1>6 DEF BatchDone, At
  <2>2. \A u \in Tasks : task'[u].attempt = task[u].attempt
    BY <1>2, <2>1 DEF Row
  <2>3. \A u \in Tasks : w[p].rows[u].attempt = task[u].attempt
    BY <1>3, <2>1 DEF KnowsAttempt, Batching
  <2>4. KnowsAttempt(p)' /\ EvidenceIsOfItsAttempt' /\ Only(p)
    BY <2>1, <2>2, <2>3 DEF KnowsAttempt, Stepping, EvidenceIsOfItsAttempt, Only
  <2> QED
    BY <2>1, <2>4, AttemptMove DEF Holding
<1>7. CASE BatchUndo(p)
  <2>1. /\ w[p].pc \in {"batchEvidence", "batchDone"} /\ Goto(p, "batchUndo") /\ UNCHANGED evidence
        /\ task' = w[p].rows
    BY <1>7 DEF BatchUndo
  <2>2. Only(p) /\ w'[p].pc = "batchUndo" /\ w'[p].rows = task'
    BY <2>1, GotoIsOnly
  <2>3. KnowsAttempt(p)' /\ EvidenceIsOfItsAttempt'
    BY <2>1, <2>2 DEF KnowsAttempt, Stepping, EvidenceIsOfItsAttempt
  <2> QED
    BY <2>1, <2>2, <2>3, AttemptMove DEF Holding
<1>8. CASE BatchUndoEvidence(p)
  <2>1. /\ w[p].pc = "batchUndo" /\ evidence' = SubSeq(evidence, 1, w[p].len) /\ Return(p)
        /\ UNCHANGED task
    BY <1>8 DEF BatchUndoEvidence, At
  <2>2. w[p].len <= Len(evidence) /\ w[p].len \in Nat /\ Len(evidence) \in Nat
    BY <2>1, Lengths DEF Batching, UndoFits, TypeOK, Worker
  <2>3. Len(evidence') = w[p].len /\ \A i \in 1..w[p].len : evidence'[i] = evidence[i]
    BY <2>1, <2>2 DEF TypeOK
  <2>4. EvidenceIsOfItsAttempt'
    BY <2>2, <2>3 DEF EvidenceIsOfItsAttempt
  <2> QED
    BY <2>1, <2>4, ReturnIsOnly, NoAttemptKnown, AttemptMove DEF AttemptPlaces, Owing, Batching
<1> QED
  BY <1>4, <1>5, <1>6, <1>7, <1>8 DEF BatchStep

\* Without carry-open a close that failed restores the rows as they are.
LEMMA AttemptClose ==
  ASSUME AttemptInv, RunInv', RunsGrow, AttemptsGrow, "carry" \notin Ops,
         NEW p \in Procs, CloseStep(p)
  PROVE  AttemptInv'
<1> USE DEF AttemptInv, RunInv, TypeInv
<1>1. KnowsAttempt(p) /\ w[p] \in Worker
  BY DEF TypeOK
<1>2. ~CarryOpen(p) /\ ~CarryRows(p) /\ ~CarryClose(p)
  BY <1>1 DEF CarryOpen, CarryRows, CarryClose, At, KnowsAttempt
<1>3. UNCHANGED evidence
  BY DEF CloseStep, CloseOpen, MarkClosed, CarryOpen, CloseAgain, CarryRows, CarryClose,
     ClosePlan, CloseEvent, Keep, files
<1>4. EvidenceIsOfItsAttempt'
  BY <1>3 DEF EvidenceIsOfItsAttempt
<1>5. UNCHANGED task
  BY <1>1, <1>2 DEF CloseStep, CloseOpen, MarkClosed, CloseAgain, ClosePlan, CloseEvent, files,
     KnowsAttempt, At
<1>6. SUFFICES KnowsAttempt(p)' /\ Only(p)
  BY <1>4, <1>5, AttemptMove
<1>7. CASE CloseOpen(p)
  <2>1. w' = [w EXCEPT ![p] = [w[p] EXCEPT !.pc = "closing", !.rows = task]]
    BY <1>7 DEF CloseOpen, MarkClosed
  <2>2. PICK x : x = [w[p] EXCEPT !.pc = "closing", !.rows = task]
    OBVIOUS
  <2>3. x.pc = "closing" /\ x.rows = task
    BY <1>1, <2>2 DEF Worker
  <2>4. w'[p] = x /\ Only(p)
    BY <2>1, <2>2, PlaceAfter
  <2> QED
    BY <1>5, <2>3, <2>4 DEF KnowsAttempt, Stepping, Batching
<1>8. CASE Return(p) \/ Goto(p, "logging")
  <2>1. Only(p) /\ w'[p].pc \in {"idle", "logging"}
    BY <1>8, ReturnIsOnly, GotoIsOnly
  <2> QED
    BY <2>1 DEF KnowsAttempt, Stepping, Batching
<1>9. ASSUME NEW io \in BOOLEAN, ClosePlan(p, io) PROVE Return(p) \/ Goto(p, "logging")
  BY <1>1, <1>9 DEF ClosePlan, At, KnowsAttempt
<1> QED
  BY <1>2, <1>7, <1>8, <1>9 DEF CloseStep, CloseAgain, CloseEvent

LEMMA AttemptInit == Init => AttemptInv
<1> SUFFICES ASSUME Init PROVE AttemptInv
  OBVIOUS
<1>1. \A p \in Procs : w[p].pc = "idle"
  BY DEF Init, Idle
<1>2. \A p \in Procs : KnowsAttempt(p)
  BY <1>1 DEF KnowsAttempt, Stepping, Batching
<1>3. EvidenceIsOfItsAttempt
  BY DEF Init, EvidenceIsOfItsAttempt
<1> QED
  BY <1>2, <1>3, RunsInit DEF AttemptInv

LEMMA AttemptKept == "carry" \notin Ops => (AttemptInv /\ [Next]_vars => AttemptInv')
<1> SUFFICES ASSUME "carry" \notin Ops, AttemptInv, [Next]_vars PROVE AttemptInv'
  OBVIOUS
<1>1. RunInv' /\ RunsGrow /\ AttemptsGrow
  BY RunsStep, StepGrows, StepBumps DEF AttemptInv
<1>2. ASSUME NEW p \in Procs, Begin(p) \/ Continue(p) \/ Crash(p) PROVE AttemptInv'
  BY <1>1, <1>2, StepKinds, AttemptCommand, AttemptBatch, AttemptClose
<1> QED
  BY <1>1, <1>2, AttemptOperator DEF Next

\* Unless close may carry tasks over (its rollback takes an attempt back), every observed
\* result is filed under the attempt in which its command began: a restart meanwhile
\* discards it (taskAttemptSnapshot, recordVerificationRunStep, completeObservedTasks).
THEOREM EvidenceIsOfItsAttemptHolds ==
  ASSUME "carry" \notin Ops
  PROVE  Spec => []EvidenceIsOfItsAttempt
<1>1. AttemptInv => EvidenceIsOfItsAttempt
  BY DEF AttemptInv
<1>2. AttemptInv /\ [Next]_vars => AttemptInv'
  BY AttemptKept
<1> QED
  BY <1>1, <1>2, AttemptInit, PTL DEF Spec

-----------------------------------------------------------------------------
(* Seen between two commands, the session is the abstract board.           *)

\* The rows once carry-open has moved the open ones.
HandedFrom(rows) ==
  [t \in Tasks |-> IF rows[t].state \in Settled THEN rows[t] ELSE Carried(rows[t])]

\* How far the rows on disk have left those that the process remembers.
KnowsBoard(p) ==
  /\ w[p].pc = "finish" => ~closed
  /\ w[p].pc \in {"carry", "batchEvidence", "batchUndo", "remap"} => task = w[p].rows
  /\ w[p].pc \in {"carried", "closing"} => task = HandedFrom(w[p].rows)
  /\ w[p].pc \in {"batchEvidence", "batchDone"} /\ w[p].ok =>
       \A t \in w[p].ts : w[p].rows[t].state \in Eligible \cup {"done"}
  /\ w[p].pc = "batchDone" =>
       /\ w[p].ok
       /\ \A t \in Tasks : \/ task[t] = w[p].rows[t]
                           \/ t \in w[p].ts /\ task[t] = [w[p].rows[t] EXCEPT !.state = "done"]

BoardInv == CloseInv /\ conts \in 0..MaxConts /\ \A p \in Procs : KnowsBoard(p)

\* The places at which KnowsBoard asks for something.
Boarding == {"finish", "carry", "carried", "closing", "remap"} \cup Batching

LEMMA NoBoardKnown ==
  ASSUME NEW p \in Procs, w[p].pc \notin Boarding
  PROVE  KnowsBoard(p)
  BY DEF KnowsBoard, Boarding, Batching

\* A step that leaves the board alone, and a step that meets nobody between two writes.
LEMMA BoardQuiet ==
  ASSUME BoardInv, CloseInv', NEW p \in Procs, Only(p), KnowsBoard(p)',
         UNCHANGED <<task, closed, conts>>
  PROVE  BoardInv'
<1>1. ASSUME NEW q \in Procs, q # p PROVE KnowsBoard(q)'
  <2>1. w'[q] = w[q] /\ KnowsBoard(q)
    BY <1>1 DEF Only, BoardInv
  <2>2. task' = task /\ closed' = closed /\ HandedFrom(w[q].rows)' = HandedFrom(w[q].rows)
    BY <2>1 DEF HandedFrom, Carried
  <2> QED
    BY <2>1, <2>2 DEF KnowsBoard
<1> QED
  BY <1>1 DEF BoardInv

LEMMA BoardAlone ==
  ASSUME BoardInv, CloseInv', NEW p \in Procs, Only(p), KnowsBoard(p)', conts' \in 0..MaxConts,
         lock = NoProc \/ lock = p \/ w[p].pc \in Holding
  PROVE  BoardInv'
<1>1. ASSUME NEW q \in Procs, q # p PROVE KnowsBoard(q)'
  <2>1. w'[q] = w[q] /\ w[q].pc \notin Holding
    BY <1>1, NobodyBetween DEF Only, BoardInv, CloseInv
  <2> QED
    BY <2>1 DEF KnowsBoard, Holding
<1> QED
  BY <1>1 DEF BoardInv

LEMMA BoardOperator ==
  ASSUME BoardInv, CloseInv', Operator \/ (\E t \in Tasks : LoseLease(t)) \/ UNCHANGED vars
  PROVE  BoardInv'
<1>1. w' = w /\ conts' = conts
  BY DEF Operator, StartTasks, TransitionTask, DeclareEvidence, Reverify, EditArtifact, Archive,
         LoseLease, vars, files
<1>2. CASE UNCHANGED <<task, closed>>
  <2>1. ASSUME NEW q \in Procs PROVE KnowsBoard(q)'
    <3>1. HandedFrom(w[q].rows)' = HandedFrom(w[q].rows)
      BY <1>1 DEF HandedFrom, Carried
    <3> QED
      BY <1>1, <1>2, <3>1 DEF BoardInv, KnowsBoard
  <2> QED
    BY <1>1, <2>1 DEF BoardInv
<1>3. CASE lock = NoProc
  <2>1. \A q \in Procs : w[q].pc \notin Holding
    BY <1>3, ProcsAssumption DEF BoardInv, CloseInv, TypeInv, LockHeld
  <2>2. \A q \in Procs : KnowsBoard(q)'
    BY <1>1, <2>1 DEF KnowsBoard, Holding
  <2> QED
    BY <1>1, <2>2 DEF BoardInv
<1> QED
  BY <1>2, <1>3 DEF Operator, StartTasks, TransitionTask, DeclareEvidence, Reverify, EditArtifact,
     Archive, LoseLease, vars, files, Free

LEMMA ContsStay ==
  ASSUME NEW p \in Procs, QuietStep(p) \/ RunStep(p)
  PROVE  conts' = conts
<1>1. CASE QuietStep(p)
  BY <1>1 DEF QuietStep, DoneBegin, AcquireLease, Busy, LockTimeout, Snapshot, VerifyBegin,
     LeaseLost, BatchEnd, Crash, Keep, files
<1>2. CASE RunStep(p)
  BY <1>2 DEF RunStep, Prepare, Reconcile, Recover, Supersede, StartRun, CommitStep, RecordStep,
     FailRun, FailTerminal, CompleteBegin, Finalize, Keep, files
<1> QED
  BY <1>1, <1>2

\* Steps outside batch and close ask nothing of the rows, but a commit of one task.
LEMMA BoardRow ==
  ASSUME BoardInv, CloseInv', NEW p \in Procs, QuietStep(p) \/ RunStep(p) \/ RowStep(p)
  PROVE  BoardInv'
<1> USE DEF BoardInv, CloseInv, TypeInv
<1>1. CASE QuietStep(p) \/ RunStep(p)
  <2>1. UNCHANGED <<task, closed>> /\ Only(p) /\ w'[p].pc \notin Owing
    BY <1>1, Undemanding
  <2>2. conts' = conts
    BY <1>1, ContsStay
  <2>3. KnowsBoard(p)'
    BY <2>1 DEF KnowsBoard, Owing, Batching
  <2> QED
    BY <2>1, <2>2, <2>3, BoardQuiet
<1>2. CASE FinishSingle(p) \/ DoneBare(p) \/ CommitRun(p)
  <2>1. w'[p].pc = "idle" /\ Only(p)
    BY <1>2, OneDone
  <2>2. KnowsBoard(p)'
    BY <2>1 DEF KnowsBoard
  <2>3. (lock = NoProc \/ w[p].pc \in Holding) /\ conts' = conts
    BY <1>2 DEF FinishSingle, DoneBare, CommitRun, At, Free, Holding
  <2> QED
    BY <2>1, <2>2, <2>3, BoardAlone
<1>3. ASSUME NEW ok \in BOOLEAN, CommitSingle(p, ok) PROVE BoardInv'
  <2>1. Only(p) /\ (w'[p].pc = "idle" \/ (w'[p].pc = "finish" /\ ~closed))
    <3>1. ASSUME NEW n, w' = [w EXCEPT ![p] = [w[p] EXCEPT !.pc = "finish", !.ev = n]]
          PROVE  Only(p) /\ w'[p].pc = "finish"
      <4>1. [w[p] EXCEPT !.pc = "finish", !.ev = n].pc = "finish"
        BY DEF TypeOK, Worker
      <4> QED
        BY <3>1, <4>1, PlaceAfter
    <3>2. CASE Return(p)
      BY <3>2, ReturnIsOnly
    <3>3. CASE ~Return(p)
      <4>1. ~closed /\ w' = [w EXCEPT ![p] = [w[p] EXCEPT !.pc = "finish", !.ev = Len(evidence) + 1]]
        BY <1>3, <3>3 DEF CommitSingle
      <4> QED
        BY <3>1, <4>1
    <3> QED
      BY <3>2, <3>3
  <2>2. UNCHANGED <<task, closed, conts>>
    BY <1>3 DEF CommitSingle
  <2>3. KnowsBoard(p)'
    BY <2>1, <2>2 DEF KnowsBoard
  <2> QED
    BY <2>1, <2>2, <2>3, BoardQuiet
<1> QED
  BY <1>1, <1>2, <1>3 DEF RowStep

LEMMA BoardBatch ==
  ASSUME BoardInv, CloseInv', NEW p \in Procs, BatchStep(p)
  PROVE  BoardInv'
<1> USE DEF BoardInv, CloseInv, TypeInv
<1>1. w[p] \in Worker /\ w \in [Procs -> Worker] /\ task \in [Tasks -> Row]
  BY DEF TypeOK
<1>2. ASSUME Only(p), w'[p].pc = "idle", UNCHANGED <<task, closed, conts>>
      PROVE  BoardInv'
  <2>1. KnowsBoard(p)'
    BY <1>2 DEF KnowsBoard
  <2> QED
    BY <1>2, <2>1, BoardQuiet
<1>3. ASSUME NEW ok \in BOOLEAN, CommitBatch(p, ok) PROVE BoardInv'
  <2>1. UNCHANGED <<task, closed, conts>>
    BY <1>3 DEF CommitBatch, Keep, files
  <2>2. CASE Return(p)
    BY <1>2, <2>1, <2>2, ReturnIsOnly
  <2>3. CASE ~Return(p)
    <3>1. /\ w' = [w EXCEPT ![p] = [w[p] EXCEPT !.pc = "batchEvidence", !.ok = ok,
                                                !.rows = task, !.len = Len(evidence)]]
          /\ ok => BatchReady(w[p].ts)
      BY <1>3, <2>3 DEF CommitBatch
    <3>2. PICK x : x = [w[p] EXCEPT !.pc = "batchEvidence", !.ok = ok,
                                    !.rows = task, !.len = Len(evidence)]
      OBVIOUS
    <3>3. x.pc = "batchEvidence" /\ x.ok = ok /\ x.rows = task /\ x.ts = w[p].ts
      BY <1>1, <3>2 DEF Worker
    <3>4. w'[p] = x /\ Only(p)
      BY <3>1, <3>2, PlaceAfter
    <3>5. KnowsBoard(p)'
      BY <2>1, <3>1, <3>3, <3>4 DEF KnowsBoard, BatchReady
    <3> QED
      BY <2>1, <3>4, <3>5, BoardQuiet
  <2> QED
    BY <2>2, <2>3
<1>4. ASSUME NEW t \in Tasks, BatchEvidence(p, t) PROVE BoardInv'
  <2>1. w[p].pc = "batchEvidence" /\ UNCHANGED <<task, closed, conts>>
    BY <1>4 DEF BatchEvidence, At
  <2>2. CASE Return(p)
    BY <1>2, <2>1, <2>2, ReturnIsOnly
  <2>3. CASE Goto(p, "batchDone") /\ w[p].ok
    <3>1. /\ Only(p) /\ w'[p].pc = "batchDone" /\ w'[p].ok = w[p].ok
          /\ w'[p].rows = w[p].rows /\ w'[p].ts = w[p].ts
      BY <2>3, GotoIsOnly
    <3>2. KnowsBoard(p)'
      BY <2>1, <2>3, <3>1 DEF KnowsBoard
    <3> QED
      BY <2>1, <3>1, <3>2, BoardQuiet
  <2>4. CASE w' = w
    <3>1. KnowsBoard(p)'
      BY <2>1, <2>4 DEF KnowsBoard
    <3> QED
      BY <2>1, <2>4, <3>1, BoardQuiet DEF Only
  <2> QED
    BY <1>4, <2>2, <2>3, <2>4 DEF BatchEvidence
<1>5. ASSUME NEW t \in Tasks, BatchDone(p, t) PROVE BoardInv'
  <2>1. /\ w[p].pc = "batchDone" /\ w' = w /\ t \in w[p].ts /\ task[t].state # "done"
        /\ task' = [task EXCEPT ![t].state = "done"] /\ UNCHANGED <<closed, conts>>
    BY <1>5 DEF BatchDone, At
  <2>2. w[p].rows[t] \in Row /\ task[t] \in Row
    BY <1>1 DEF Worker
  <2>3. task[t] = w[p].rows[t]
    BY <2>1, <2>2 DEF KnowsBoard, Row
  <2>4. task'[t] = [w[p].rows[t] EXCEPT !.state = "done"] /\ \A u \in Tasks : u # t => task'[u] = task[u]
    BY <1>1, <2>1, <2>3
  <2>5. KnowsBoard(p)'
    BY <2>1, <2>4 DEF KnowsBoard
  <2> QED
    BY <2>1, <2>5, BoardAlone DEF Only, Holding
<1>6. CASE BatchUndo(p)
  <2>1. w[p].pc \in Holding /\ task' = w[p].rows /\ Goto(p, "batchUndo") /\ conts' = conts
    BY <1>6 DEF BatchUndo, Holding
  <2>2. Only(p) /\ w'[p].pc = "batchUndo" /\ w'[p].rows = w[p].rows
    BY <2>1, GotoIsOnly
  <2>3. KnowsBoard(p)'
    BY <2>1, <2>2 DEF KnowsBoard
  <2> QED
    BY <2>1, <2>2, <2>3, BoardAlone
<1>7. CASE BatchUndoEvidence(p)
  BY <1>2, <1>7, ReturnIsOnly DEF BatchUndoEvidence
<1> QED
  BY <1>3, <1>4, <1>5, <1>6, <1>7 DEF BatchStep

\* The rows that carry-open leaves are the handed ones.
LEMMA CarriesAll ==
  ASSUME NEW p \in Procs, CarryRows(p)
  PROVE  task' = HandedFrom(task)
<1>1. \A t \in Tasks : t \in Blocking <=> task[t].state \notin Settled
  BY DEF Blocking
<1> QED
  BY <1>1 DEF CarryRows, HandedFrom

\* With no task open there is nothing to hand over.
LEMMA NothingCarried ==
  ASSUME TypeOK, Blocking = {}
  PROVE  task = HandedFrom(task)
<1>1. \A t \in Tasks : task[t].state \in Settled
  BY DEF Blocking
<1> QED
  BY <1>1 DEF HandedFrom, TypeOK

LEMMA BoardClose ==
  ASSUME BoardInv, CloseInv', NEW p \in Procs, CloseStep(p)
  PROVE  BoardInv'
<1> USE DEF BoardInv, CloseInv, TypeInv
<1>1. w[p] \in Worker /\ w \in [Procs -> Worker] /\ task \in [Tasks -> Row]
  BY DEF TypeOK
<1>2. ASSUME Only(p), w'[p].pc \in {"idle", "logging"}, conts' = conts,
             lock = NoProc \/ w[p].pc \in Holding
      PROVE  BoardInv'
  <2>1. KnowsBoard(p)'
    BY <1>2 DEF KnowsBoard
  <2> QED
    BY <1>2, <2>1, BoardAlone
<1>3. ASSUME NEW rows, lock = NoProc \/ w[p].pc \in Holding, task = HandedFrom(rows),
             MarkClosed(p, rows)
      PROVE  BoardInv'
  <2>1. /\ w' = [w EXCEPT ![p] = [w[p] EXCEPT !.pc = "closing", !.rows = rows]]
        /\ UNCHANGED <<task, conts>>
    BY <1>3 DEF MarkClosed
  <2>2. [w[p] EXCEPT !.pc = "closing", !.rows = rows].pc = "closing"
        /\ [w[p] EXCEPT !.pc = "closing", !.rows = rows].rows = rows
    BY <1>1 DEF Worker
  <2>3. Only(p) /\ w'[p].pc = "closing" /\ w'[p].rows = rows
    BY <2>1, <2>2, PlaceAfter
  <2>4. HandedFrom(w[p].rows)' = HandedFrom(rows)
    BY <2>1, <2>3 DEF HandedFrom, Carried
  <2>5. KnowsBoard(p)'
    BY <1>3, <2>1, <2>3, <2>4 DEF KnowsBoard
  <2> QED
    BY <1>3, <2>1, <2>3, <2>5, BoardAlone
<1>4. CASE CloseOpen(p)
  <2>1. task = HandedFrom(task)
    BY <1>4, NothingCarried DEF CloseOpen
  <2> QED
    BY <1>3, <1>4, <2>1 DEF CloseOpen, Free
<1>5. CASE CarryOpen(p)
  <2>1. /\ w' = [w EXCEPT ![p] = [w[p] EXCEPT !.pc = "carry", !.rows = task]]
        /\ lock = NoProc /\ task' = task /\ conts < MaxConts /\ conts' = conts + 1
    BY <1>5 DEF CarryOpen, Free
  <2>2. [w[p] EXCEPT !.pc = "carry", !.rows = task].pc = "carry"
        /\ [w[p] EXCEPT !.pc = "carry", !.rows = task].rows = task
    BY <1>1 DEF Worker
  <2>3. Only(p) /\ w'[p].pc = "carry" /\ w'[p].rows = task
    BY <2>1, <2>2, PlaceAfter
  <2>4. KnowsBoard(p)'
    BY <2>1, <2>3 DEF KnowsBoard
  <2>5. conts' \in 0..MaxConts
    BY <2>1, SizeAssumption
  <2> QED
    BY <2>1, <2>3, <2>4, <2>5, BoardAlone
<1>6. CASE CloseAgain(p)
  <2>1. Goto(p, "logging") /\ lock = NoProc /\ conts' = conts
    BY <1>6 DEF CloseAgain, Free, files
  <2> QED
    BY <1>2, <2>1, GotoIsOnly
<1>7. CASE CarryRows(p)
  <2>1. /\ w[p].pc \in {"carry", "remap"} /\ conts' = conts /\ task' = HandedFrom(task)
        /\ task = w[p].rows
    BY <1>7, CarriesAll DEF CarryRows, KnowsBoard
  <2>2. /\ Only(p) /\ w'[p].pc = IF At(p, "carry") THEN "carried" ELSE "idle"
        /\ w'[p].pc = "carried" => w'[p].rows = w[p].rows
    BY <1>7, CarriedRows
  <2>3. CASE w'[p].pc = "idle"
    BY <1>2, <2>1, <2>2, <2>3 DEF Holding
  <2>4. CASE w'[p].pc = "carried"
    <3>1. w'[p].rows = w[p].rows
      BY <2>2, <2>4
    <3>2. HandedFrom(w[p].rows)' = HandedFrom(task)
      BY <2>1, <3>1 DEF HandedFrom, Carried
    <3>3. KnowsBoard(p)'
      BY <2>1, <2>4, <3>2 DEF KnowsBoard
    <3> QED
      BY <2>1, <2>2, <3>3, BoardAlone DEF Holding
  <2> QED
    BY <2>2, <2>3, <2>4
<1>8. CASE CarryClose(p)
  <2>1. w[p].pc = "carried" /\ (MarkClosed(p, w[p].rows) \/ (Return(p) /\ conts' = conts))
    BY <1>8 DEF CarryClose, At, Keep, files
  <2>2. CASE MarkClosed(p, w[p].rows)
    <3>1. task = HandedFrom(w[p].rows)
      BY <2>1 DEF KnowsBoard
    <3> QED
      BY <1>3, <2>1, <2>2, <3>1 DEF Holding
  <2>3. CASE Return(p) /\ conts' = conts
    BY <1>2, <2>1, <2>3, ReturnIsOnly DEF Holding
  <2> QED
    BY <2>1, <2>2, <2>3
<1>9. ASSUME NEW io \in BOOLEAN, ClosePlan(p, io) PROVE BoardInv'
  <2>1. w[p].pc = "closing" /\ conts' = conts
    BY <1>9 DEF ClosePlan, At
  <2>2. CASE Goto(p, "logging") \/ Return(p)
    BY <1>2, <2>1, <2>2, GotoIsOnly, ReturnIsOnly DEF Holding
  <2>3. CASE Goto(p, "remap") /\ task' = w[p].rows
    <3>1. Only(p) /\ w'[p].pc = "remap" /\ w'[p].rows = w[p].rows
      BY <2>3, GotoIsOnly
    <3>2. KnowsBoard(p)'
      BY <2>3, <3>1 DEF KnowsBoard
    <3> QED
      BY <2>1, <3>1, <3>2, BoardAlone DEF Holding
  <2> QED
    BY <1>9, <2>2, <2>3 DEF ClosePlan
<1>10. ASSUME NEW io \in BOOLEAN, CloseEvent(p, io) PROVE BoardInv'
  BY <1>2, <1>10, ReturnIsOnly DEF CloseEvent, At, Holding
<1> QED
  BY <1>4, <1>5, <1>6, <1>7, <1>8, <1>9, <1>10 DEF CloseStep

LEMMA BoardInit == Init => BoardInv
<1> SUFFICES ASSUME Init PROVE BoardInv
  OBVIOUS
<1>1. \A p \in Procs : w[p].pc = "idle"
  BY DEF Init, Idle
<1>2. \A p \in Procs : KnowsBoard(p)
  BY <1>1 DEF KnowsBoard
<1> QED
  BY <1>2, CloseInit, SizeAssumption DEF Init, BoardInv

LEMMA BoardKept == BoardInv /\ [Next]_vars => BoardInv'
<1> SUFFICES ASSUME BoardInv, [Next]_vars PROVE BoardInv'
  OBVIOUS
<1>1. CloseInv'
  BY CloseKept DEF BoardInv
<1>2. ASSUME NEW p \in Procs, Begin(p) \/ Continue(p) \/ Crash(p) PROVE BoardInv'
  BY <1>1, <1>2, StepKinds, BoardRow, BoardBatch, BoardClose
<1> QED
  BY <1>1, <1>2, BoardOperator DEF Next

-----------------------------------------------------------------------------
(* The refinement: every step is a step of the abstract board, or none.    *)

BoardStep == Board!Next \/ UNCHANGED <<seenRows, seenClosed>>

\* A row of the abstract board moves as a row of the file does.
LEMMA SameMoves ==
  ASSUME NEW row \in Row
  PROVE  /\ \A s \in States : Board!Enter(row, s) = Move(row, s)
         /\ Carried(row) = [Board!Leave(row) EXCEPT !.dest = conts]
<1>1. ASSUME NEW x \in Row, NEW s \in States PROVE Board!Enter(x, s) = Move(x, s)
  <2>1. x.attempt \in Nat
    BY DEF Row
  <2>2. x.attempt + Bump(s) = IF s \in {"in_progress", "problem"} THEN x.attempt + 1 ELSE x.attempt
    BY <2>1 DEF Bump
  <2> QED
    BY <2>2 DEF Board!Enter, Move
<1>2. "moved" \in States /\ "problem" \in States
  BY DEF States
<1>3. Move(row, "problem") \in Row
  BY <1>2, Moved
<1>4. Board!Leave(row) = IF row.state \in {"pending", "problem"} THEN Move(row, "moved")
                         ELSE Move(Move(row, "problem"), "moved")
  BY <1>1, <1>2, <1>3 DEF Board!Leave
<1>5. Carried(row) = [Board!Leave(row) EXCEPT !.dest = conts]
  BY <1>4 DEF Carried
<1> QED
  BY <1>1, <1>5

\* What a step of the board is, in the words of the detailed specification.
LEMMA Completes ==
  ASSUME NEW S \in SUBSET Tasks, ~seenClosed, UNCHANGED seenClosed,
         \A t \in S : seenRows[t].state \in Eligible,
         seenRows' = [t \in Tasks |-> IF t \in S THEN [seenRows[t] EXCEPT !.state = "done"]
                                      ELSE seenRows[t]]
  PROVE  BoardStep
<1>1. Board!Complete(S)
  BY DEF Board!Complete, Board!AtWork, Eligible
<1> QED
  BY <1>1 DEF BoardStep, Board!Next

LEMMA Hands ==
  ASSUME seenRows \in [Tasks -> Row], conts \in 0..MaxConts, ~seenClosed, seenClosed' \in BOOLEAN,
         seenRows' = HandedFrom(seenRows)
  PROVE  BoardStep
<1>1. \A t \in Tasks : Carried(seenRows[t]) = [Board!Leave(seenRows[t]) EXCEPT !.dest = conts]
  BY SameMoves
<1>2. HandedFrom(seenRows) = Board!Handed(conts)
  BY <1>1 DEF HandedFrom, Board!Handed, Board!Settled, Settled
<1>3. CASE seenClosed'
  <2>1. Board!Close(conts)
    BY <1>2, <1>3 DEF Board!Close
  <2> QED
    BY <2>1 DEF BoardStep, Board!Next
<1>4. CASE ~seenClosed'
  <2>1. UNCHANGED seenClosed
    BY <1>4 DEF seenClosed
  <2>2. Board!Carry(conts)
    BY <1>2, <2>1 DEF Board!Carry
  <2> QED
    BY <2>2 DEF BoardStep, Board!Next
<1> QED
  BY <1>3, <1>4

\* While p has the session lock or nobody has it, the board is what p leaves to see.
LEMMA SeenHere ==
  ASSUME TypeInv, TypeInv', NEW p \in Procs, lock \in {NoProc, p}, lock' \in {NoProc, p}
  PROVE  /\ seenRows = IF w[p].pc \in Provisional THEN w[p].rows ELSE task
         /\ seenClosed = (closed /\ w[p].pc # "closing")
         /\ seenRows' = IF w'[p].pc \in Provisional THEN w'[p].rows ELSE task'
         /\ seenClosed' = (closed' /\ w'[p].pc # "closing")
         /\ seenRows \in [Tasks -> Row] /\ closed \in BOOLEAN /\ closed' \in BOOLEAN
<1>1. NoProc \notin Procs /\ Provisional \subseteq Holding /\ "closing" \in Holding
  BY ProcsAssumption DEF Provisional, Holding
<1>2. (w[p].pc \in Holding => lock = p) /\ (w'[p].pc \in Holding => lock' = p)
  BY DEF TypeInv, LockHeld
<1>3. w[p].rows \in [Tasks -> Row] /\ task \in [Tasks -> Row] /\ closed \in BOOLEAN /\ closed' \in BOOLEAN
  BY DEF TypeInv, TypeOK, Worker
<1>4. seenRows = IF w[p].pc \in Provisional THEN w[p].rows ELSE task
  BY <1>1, <1>2 DEF seenRows
<1>5. seenClosed = (closed /\ w[p].pc # "closing")
  BY <1>1, <1>2, <1>3 DEF seenClosed
<1>6. seenRows' = IF w'[p].pc \in Provisional THEN w'[p].rows ELSE task'
  BY <1>1, <1>2 DEF seenRows
<1>7. seenClosed' = (closed' /\ w'[p].pc # "closing")
  BY <1>1, <1>2, <1>3 DEF seenClosed
<1> QED
  BY <1>3, <1>4, <1>5, <1>6, <1>7

\* Who lets rows be seen as they are on disk makes one step of the board: an unfinished
\* batch completes what it had reached, a carry or a close hands over what it had moved.
LEMMA Reveals ==
  ASSUME BoardInv, TypeInv', NEW p \in Procs, lock \in {NoProc, p}, lock' \in {NoProc, p},
         w[p].pc \in Provisional, w'[p].pc \notin Provisional, UNCHANGED <<task, closed>>
  PROVE  BoardStep
<1> USE DEF BoardInv, CloseInv
<1>1. /\ seenRows = w[p].rows /\ seenRows \in [Tasks -> Row] /\ seenRows' = task
      /\ seenClosed = (closed /\ w[p].pc # "closing") /\ seenClosed' = closed /\ closed \in BOOLEAN
  BY SeenHere DEF Provisional
<1>2. task \in [Tasks -> Row]
  BY DEF TypeInv, TypeOK
<1>3. CASE w[p].pc \in {"batchEvidence", "batchUndo", "remap"}
  BY <1>1, <1>3 DEF KnowsBoard, BoardStep
<1>4. CASE w[p].pc = "batchDone"
  <2> DEFINE S == {t \in Tasks : task[t] # w[p].rows[t]}
  <2>1. ~seenClosed /\ UNCHANGED seenClosed
    BY <1>1, <1>4 DEF KnowsClose, Opened
  <2>2. \A t \in S : task[t] = [w[p].rows[t] EXCEPT !.state = "done"] /\ w[p].rows[t].state \in Eligible
    <3>1. SUFFICES ASSUME NEW t \in S
                   PROVE  task[t] = [w[p].rows[t] EXCEPT !.state = "done"] /\ w[p].rows[t].state \in Eligible
      OBVIOUS
    <3>2. /\ t \in w[p].ts /\ task[t] = [w[p].rows[t] EXCEPT !.state = "done"]
          /\ w[p].rows[t].state \in Eligible \cup {"done"}
      BY <1>4, <3>1 DEF KnowsBoard
    <3>3. w[p].rows[t] \in Row
      BY <1>1, <3>1
    <3>4. w[p].rows[t].state = "done" => [w[p].rows[t] EXCEPT !.state = "done"] = w[p].rows[t]
      BY <3>3 DEF Row
    <3> QED
      BY <3>1, <3>2, <3>4
  <2>3. seenRows' = [t \in Tasks |-> IF t \in S THEN [seenRows[t] EXCEPT !.state = "done"] ELSE seenRows[t]]
    BY <1>1, <1>2, <2>2
  <2>4. \A t \in S : seenRows[t].state \in Eligible
    BY <1>1, <2>2
  <2>5. S \in SUBSET Tasks
    OBVIOUS
  <2> HIDE DEF S
  <2> QED
    BY <2>1, <2>3, <2>4, <2>5, Completes
<1>5. CASE w[p].pc \in {"carried", "closing"}
  <2>1. ~seenClosed /\ seenClosed' \in BOOLEAN
    BY <1>1, <1>5 DEF KnowsClose, Opened
  <2>2. seenRows' = HandedFrom(seenRows)
    BY <1>1, <1>5 DEF KnowsBoard
  <2> QED
    BY <1>1, <2>1, <2>2, Hands
<1> QED
  BY <1>3, <1>4, <1>5 DEF Provisional

\* Who writes outside such places, or goes on with rows it still hides, shows nothing new.
LEMMA ShowsNothing ==
  ASSUME TypeInv, TypeInv', NEW p \in Procs, lock \in {NoProc, p}, lock' \in {NoProc, p},
         (IF w'[p].pc \in Provisional THEN w'[p].rows ELSE task')
           = (IF w[p].pc \in Provisional THEN w[p].rows ELSE task),
         (closed' /\ w'[p].pc # "closing") = (closed /\ w[p].pc # "closing")
  PROVE  BoardStep
<1>1. seenRows' = seenRows /\ seenClosed' = seenClosed
  BY SeenHere
<1> QED
  BY <1>1 DEF BoardStep

\* A step of p takes the session lock from nobody, and writes rows or marks under it only.
LEMMA LockOfQuiet ==
  ASSUME TypeInv, NEW p \in Procs, QuietStep(p) \/ RunStep(p)
  PROVE  IF lock \in {NoProc, p} THEN lock' \in {NoProc, p} ELSE lock' = lock
<1>1. ASSUME Return(p) PROVE IF lock \in {NoProc, p} THEN lock' \in {NoProc, p} ELSE lock' = lock
  BY <1>1 DEF Return
<1>2. CASE QuietStep(p)
  BY <1>1, <1>2 DEF QuietStep, DoneBegin, AcquireLease, Busy, LockTimeout, Snapshot, VerifyBegin,
     LeaseLost, BatchEnd, Crash
<1>3. CASE Prepare(p) \/ StartRun(p) \/ FailRun(p) \/ CompleteBegin(p) \/ \E ok \in BOOLEAN : CommitStep(p, ok)
  <2>1. lock = NoProc \/ lock = p
    BY <1>3 DEF Prepare, StartRun, FailRun, CompleteBegin, CommitStep, Free, At, TypeInv, LockHeld, Holding
  <2> QED
    BY <1>1, <1>3, <2>1 DEF Prepare, StartRun, FailRun, CompleteBegin, CommitStep
<1>4. CASE Reconcile(p) \/ Recover(p) \/ Supersede(p) \/ FailTerminal(p) \/ Finalize(p)
  BY <1>1, <1>4 DEF Reconcile, Recover, Supersede, FailTerminal, Finalize
<1>5. ASSUME NEW io \in BOOLEAN, RecordStep(p, io)
      PROVE  IF lock \in {NoProc, p} THEN lock' \in {NoProc, p} ELSE lock' = lock
  BY <1>5 DEF RecordStep, At, TypeInv, LockHeld, Holding
<1> QED
  BY <1>2, <1>3, <1>4, <1>5 DEF RunStep

LEMMA LockOfWriters ==
  ASSUME TypeInv, NEW p \in Procs, RowStep(p) \/ BatchStep(p) \/ CloseStep(p)
  PROVE  lock \in {NoProc, p} /\ lock' \in {NoProc, p}
<1>1. ASSUME Return(p), lock \in {NoProc, p} PROVE lock' \in {NoProc, p}
  BY <1>1 DEF Return
<1>2. lock = NoProc \/ w[p].pc \in Holding
  <2>1. CASE RowStep(p)
    BY <2>1 DEF RowStep, CommitSingle, FinishSingle, DoneBare, CommitRun, Free, At, Holding
  <2>2. CASE BatchStep(p)
    BY <2>2 DEF BatchStep, CommitBatch, BatchEvidence, BatchDone, BatchUndo, BatchUndoEvidence,
       Free, At, Holding
  <2>3. CASE CloseStep(p)
    BY <2>3 DEF CloseStep, CloseOpen, CarryOpen, CloseAgain, CarryRows, CarryClose, ClosePlan,
       CloseEvent, Free, At, Holding
  <2> QED
    BY <2>1, <2>2, <2>3
<1>3. lock \in {NoProc, p}
  BY <1>2 DEF TypeInv, LockHeld
<1>4. CASE RowStep(p)
  BY <1>1, <1>3, <1>4 DEF RowStep, CommitSingle, FinishSingle, DoneBare, CommitRun
<1>5. CASE BatchStep(p)
  BY <1>1, <1>3, <1>5 DEF BatchStep, CommitBatch, BatchEvidence, BatchDone, BatchUndo, BatchUndoEvidence
<1>6. CASE CloseStep(p)
  BY <1>1, <1>3, <1>6 DEF CloseStep, CloseOpen, CarryOpen, CloseAgain, CarryRows, CarryClose, ClosePlan,
     CloseEvent, MarkClosed
<1> QED
  BY <1>3, <1>4, <1>5, <1>6

\* A step of p, while another process holds the session lock, is hidden from the board or
\* does not touch it.
LEMMA SeenElsewhere ==
  ASSUME TypeInv, NEW p \in Procs, Only(p), lock \notin {NoProc, p}, UNCHANGED <<task, closed, lock>>
  PROVE  BoardStep
<1>1. lock \in Procs /\ w'[lock] = w[lock] /\ lock' = lock
  BY DEF TypeInv, TypeOK, Only
<1>2. seenRows' = seenRows
  BY <1>1 DEF seenRows
<1>3. seenClosed' = seenClosed
  BY <1>1 DEF seenClosed
<1> QED
  BY <1>2, <1>3 DEF BoardStep

LEMMA SeenQuiet ==
  ASSUME BoardInv, TypeInv', NEW p \in Procs, QuietStep(p) \/ RunStep(p)
  PROVE  BoardStep
<1> USE DEF BoardInv, CloseInv
<1>1. UNCHANGED <<task, closed>> /\ Only(p) /\ w'[p].pc \notin Owing
  BY Undemanding
<1>2. w'[p].pc \notin Provisional /\ w'[p].pc # "closing"
  BY <1>1 DEF Owing, Batching, Provisional
<1>3. IF lock \in {NoProc, p} THEN lock' \in {NoProc, p} ELSE lock' = lock
  BY LockOfQuiet
<1>4. CASE lock \notin {NoProc, p}
  BY <1>1, <1>3, <1>4, SeenElsewhere
<1>5. CASE lock \in {NoProc, p} /\ w[p].pc \in Provisional
  BY <1>1, <1>2, <1>3, <1>5, Reveals
<1>6. CASE lock \in {NoProc, p} /\ w[p].pc \notin Provisional
  <2>1. w[p].pc # "closing"
    BY <1>6 DEF Provisional
  <2> QED
    BY <1>1, <1>2, <1>3, <1>6, <2>1, ShowsNothing
<1> QED
  BY <1>4, <1>5, <1>6

LEMMA SeenRow ==
  ASSUME BoardInv, TypeInv', NEW p \in Procs, RowStep(p)
  PROVE  BoardStep
<1> USE DEF BoardInv, CloseInv
<1>1. lock \in {NoProc, p} /\ lock' \in {NoProc, p}
  BY LockOfWriters
<1>2. task \in [Tasks -> Row] /\ w[p] \in Worker
  BY DEF TypeInv, TypeOK
<1>3. CASE FinishSingle(p) \/ DoneBare(p) \/ CommitRun(p)
  <2>1. w[p].pc \in {"finish", "snapshot", "commit"} /\ w'[p].pc = "idle" /\ UNCHANGED closed
    BY <1>3, OneDone DEF FinishSingle, DoneBare, CommitRun, At, TypeInv
  <2>2. /\ seenRows = task /\ seenRows' = task' /\ seenClosed = closed /\ seenClosed' = closed
        /\ closed \in BOOLEAN
    BY <1>1, <2>1, SeenHere DEF Provisional
  <2>3. CASE task' = task
    BY <2>1, <2>2, <2>3 DEF BoardStep
  <2>4. CASE task' # task
    <3>1. /\ task' = [task EXCEPT ![w[p].t].state = "done"] /\ task[w[p].t].state \in Eligible /\ ~closed
      BY <1>3, <2>1, <2>4 DEF FinishSingle, DoneBare, CommitRun, Eligible, KnowsBoard, At
    <3>2. PICK t \in Tasks : t = w[p].t
      BY <1>2 DEF Worker
    <3>3. PICK S \in SUBSET Tasks : S = {t}
      OBVIOUS
    <3>4. seenRows' = [u \in Tasks |-> IF u \in S THEN [seenRows[u] EXCEPT !.state = "done"] ELSE seenRows[u]]
      BY <1>2, <2>2, <3>1, <3>2, <3>3
    <3>5. UNCHANGED seenClosed /\ ~seenClosed /\ \A u \in S : seenRows[u].state \in Eligible
      BY <2>2, <3>1, <3>2, <3>3
    <3> QED
      BY <3>4, <3>5, Completes
  <2> QED
    BY <2>3, <2>4
<1>4. ASSUME NEW ok \in BOOLEAN, CommitSingle(p, ok) PROVE BoardStep
  <2>1. w[p].pc = "running" /\ UNCHANGED <<task, closed>>
    BY <1>4 DEF CommitSingle, At
  <2>2. w'[p].pc \in {"idle", "finish"}
    <3>1. CASE Return(p)
      BY <3>1, ReturnIsOnly DEF TypeInv
    <3>2. CASE ~Return(p)
      <4>1. w' = [w EXCEPT ![p] = [w[p] EXCEPT !.pc = "finish", !.ev = Len(evidence) + 1]]
        BY <1>4, <3>2 DEF CommitSingle
      <4>2. [w[p] EXCEPT !.pc = "finish", !.ev = Len(evidence) + 1].pc = "finish"
        BY <1>2 DEF Worker
      <4> QED
        BY <4>1, <4>2, PlaceAfter DEF TypeInv
    <3> QED
      BY <3>1, <3>2
  <2> QED
    BY <1>1, <2>1, <2>2, ShowsNothing DEF Provisional
<1> QED
  BY <1>3, <1>4 DEF RowStep

LEMMA SeenBatch ==
  ASSUME BoardInv, TypeInv', NEW p \in Procs, BatchStep(p)
  PROVE  BoardStep
<1> USE DEF BoardInv, CloseInv
<1>1. lock \in {NoProc, p} /\ lock' \in {NoProc, p}
  BY LockOfWriters
<1>2. w[p] \in Worker /\ TypeOK
  BY DEF TypeInv, TypeOK
<1>3. ASSUME NEW ok \in BOOLEAN, CommitBatch(p, ok) PROVE BoardStep
  <2>1. w[p].pc = "running" /\ UNCHANGED <<task, closed>>
    BY <1>3 DEF CommitBatch, At, Keep, files
  <2>2. w'[p].pc = "idle" \/ (w'[p].pc = "batchEvidence" /\ w'[p].rows = task)
    <3>1. CASE Return(p)
      BY <1>2, <3>1, ReturnIsOnly
    <3>2. CASE ~Return(p)
      <4>1. w' = [w EXCEPT ![p] = [w[p] EXCEPT !.pc = "batchEvidence", !.ok = ok,
                                               !.rows = task, !.len = Len(evidence)]]
        BY <1>3, <3>2 DEF CommitBatch
      <4>2. PICK x : x = [w[p] EXCEPT !.pc = "batchEvidence", !.ok = ok,
                                      !.rows = task, !.len = Len(evidence)]
        OBVIOUS
      <4>3. x.pc = "batchEvidence" /\ x.rows = task
        BY <1>2, <4>2 DEF Worker
      <4> QED
        BY <1>2, <4>1, <4>2, <4>3, PlaceAfter
    <3> QED
      BY <3>1, <3>2
  <2> QED
    BY <1>1, <2>1, <2>2, ShowsNothing DEF Provisional
<1>4. ASSUME w[p].pc \in Batching, w'[p].pc \in Batching, w'[p].rows = w[p].rows, UNCHANGED closed
      PROVE  BoardStep
  BY <1>1, <1>4, ShowsNothing DEF Provisional, Batching
<1>5. ASSUME NEW t \in Tasks, BatchEvidence(p, t) PROVE BoardStep
  <2>1. w[p].pc = "batchEvidence" /\ UNCHANGED <<task, closed>>
        /\ (Return(p) \/ Goto(p, "batchDone") \/ w' = w)
    BY <1>5 DEF BatchEvidence, At
  <2>2. CASE Return(p)
    <3>1. w'[p].pc \notin Provisional
      BY <1>2, <2>2, ReturnIsOnly DEF Provisional
    <3> QED
      BY <1>1, <2>1, <3>1, Reveals DEF Provisional
  <2>3. CASE Goto(p, "batchDone")
    <3>1. w'[p].pc = "batchDone" /\ w'[p].rows = w[p].rows
      BY <1>2, <2>3, GotoIsOnly
    <3> QED
      BY <1>4, <2>1, <3>1 DEF Batching
  <2>4. CASE w' = w
    BY <1>4, <2>1, <2>4 DEF Batching
  <2> QED
    BY <2>1, <2>2, <2>3, <2>4
<1>6. ASSUME NEW t \in Tasks, BatchDone(p, t) PROVE BoardStep
  BY <1>4, <1>6 DEF BatchDone, At, Batching
<1>7. CASE BatchUndo(p)
  <2>1. w[p].pc \in Batching /\ Goto(p, "batchUndo") /\ UNCHANGED closed
    BY <1>7 DEF BatchUndo, Batching
  <2>2. w'[p].pc = "batchUndo" /\ w'[p].rows = w[p].rows
    BY <1>2, <2>1, GotoIsOnly
  <2> QED
    BY <1>4, <2>1, <2>2 DEF Batching
<1>8. CASE BatchUndoEvidence(p)
  <2>1. w[p].pc = "batchUndo" /\ UNCHANGED <<task, closed>> /\ Return(p)
    BY <1>8 DEF BatchUndoEvidence, At
  <2>2. w'[p].pc \notin Provisional
    BY <1>2, <2>1, ReturnIsOnly DEF Provisional
  <2> QED
    BY <1>1, <2>1, <2>2, Reveals DEF Provisional
<1> QED
  BY <1>3, <1>5, <1>6, <1>7, <1>8 DEF BatchStep

LEMMA SeenClose ==
  ASSUME BoardInv, TypeInv', NEW p \in Procs, CloseStep(p)
  PROVE  BoardStep
<1> USE DEF BoardInv, CloseInv
<1>1. lock \in {NoProc, p} /\ lock' \in {NoProc, p}
  BY LockOfWriters
<1>2. w[p] \in Worker /\ TypeOK /\ task \in [Tasks -> Row] /\ closed \in BOOLEAN
  BY DEF TypeInv, TypeOK
<1>3. ASSUME NEW rows, MarkClosed(p, rows), ~closed,
             rows = IF w[p].pc \in Provisional THEN w[p].rows ELSE task
      PROVE  BoardStep
  <2>1. /\ w' = [w EXCEPT ![p] = [w[p] EXCEPT !.pc = "closing", !.rows = rows]]
    BY <1>3 DEF MarkClosed
  <2>2. [w[p] EXCEPT !.pc = "closing", !.rows = rows].pc = "closing"
        /\ [w[p] EXCEPT !.pc = "closing", !.rows = rows].rows = rows
    BY <1>2 DEF Worker
  <2>3. w'[p].pc = "closing" /\ w'[p].rows = rows
    BY <1>2, <2>1, <2>2, PlaceAfter
  <2> QED
    BY <1>1, <1>3, <2>3, ShowsNothing DEF Provisional
<1>4. CASE CloseOpen(p)
  BY <1>3, <1>4 DEF CloseOpen, At, Provisional
<1>5. CASE CarryOpen(p)
  <2>1. /\ w' = [w EXCEPT ![p] = [w[p] EXCEPT !.pc = "carry", !.rows = task]]
        /\ w[p].pc = "idle" /\ UNCHANGED <<task, closed>>
    BY <1>5 DEF CarryOpen, At
  <2>2. [w[p] EXCEPT !.pc = "carry", !.rows = task].pc = "carry"
    BY <1>2 DEF Worker
  <2>3. w'[p].pc = "carry"
    BY <1>2, <2>1, <2>2, PlaceAfter
  <2> QED
    BY <1>1, <2>1, <2>3, ShowsNothing DEF Provisional
<1>6. CASE CloseAgain(p)
  <2>1. w[p].pc = "idle" /\ Goto(p, "logging") /\ UNCHANGED <<task, closed>>
    BY <1>6 DEF CloseAgain, At, files
  <2>2. w'[p].pc = "logging"
    BY <1>2, <2>1, GotoIsOnly
  <2> QED
    BY <1>1, <2>1, <2>2, ShowsNothing DEF Provisional
<1>7. CASE CarryRows(p)
  <2>1. /\ w[p].pc \in {"carry", "remap"} /\ task' = HandedFrom(task) /\ task = w[p].rows
        /\ UNCHANGED closed /\ ~closed
    BY <1>7, CarriesAll DEF CarryRows, KnowsBoard, KnowsClose, Opened
  <2>2. /\ w'[p].pc = IF w[p].pc = "carry" THEN "carried" ELSE "idle"
        /\ w'[p].pc = "carried" => w'[p].rows = w[p].rows
    BY <1>2, <1>7, CarriedRows DEF At
  <2>3. CASE w[p].pc = "carry"
    BY <1>1, <2>1, <2>2, <2>3, ShowsNothing DEF Provisional
  <2>4. CASE w[p].pc = "remap"
    <3>1. /\ seenRows = task /\ seenRows' = task' /\ seenClosed = closed /\ seenClosed' = closed
      BY <1>1, <1>2, <2>1, <2>2, <2>4, SeenHere DEF Provisional
    <3> QED
      BY <1>2, <2>1, <3>1, Hands
  <2> QED
    BY <2>1, <2>3, <2>4
<1>8. CASE CarryClose(p)
  <2>1. /\ w[p].pc = "carried" /\ ~closed
        /\ MarkClosed(p, w[p].rows) \/ (Return(p) /\ UNCHANGED <<task, closed>>)
    BY <1>8 DEF CarryClose, At, Keep, files, KnowsClose, Opened
  <2>2. CASE MarkClosed(p, w[p].rows)
    BY <1>3, <2>1, <2>2 DEF Provisional
  <2>3. CASE Return(p) /\ UNCHANGED <<task, closed>>
    <3>1. w'[p].pc \notin Provisional
      BY <1>2, <2>3, ReturnIsOnly DEF Provisional
    <3> QED
      BY <1>1, <2>1, <2>3, <3>1, Reveals DEF Provisional
  <2> QED
    BY <2>1, <2>2, <2>3
<1>9. ASSUME NEW io \in BOOLEAN, ClosePlan(p, io) PROVE BoardStep
  <2>1. w[p].pc = "closing" /\ closed
    BY <1>9 DEF ClosePlan, At, KnowsClose
  <2>2. CASE Goto(p, "logging") /\ UNCHANGED <<task, closed>>
    <3>1. w'[p].pc \notin Provisional
      BY <1>2, <2>2, GotoIsOnly DEF Provisional
    <3> QED
      BY <1>1, <2>1, <2>2, <3>1, Reveals DEF Provisional
  <2>3. CASE closed' = FALSE /\ task' = w[p].rows /\ Return(p)
    <3>1. w'[p].pc = "idle"
      BY <1>2, <2>3, ReturnIsOnly
    <3> QED
      BY <1>1, <2>1, <2>3, <3>1, ShowsNothing DEF Provisional
  <2>4. CASE closed' = FALSE /\ task' = w[p].rows /\ Goto(p, "remap")
    <3>1. w'[p].pc = "remap" /\ w'[p].rows = w[p].rows
      BY <1>2, <2>4, GotoIsOnly
    <3> QED
      BY <1>1, <2>1, <2>4, <3>1, ShowsNothing DEF Provisional
  <2> QED
    BY <1>9, <2>2, <2>3, <2>4 DEF ClosePlan
<1>10. ASSUME NEW io \in BOOLEAN, CloseEvent(p, io) PROVE BoardStep
  <2>1. w[p].pc = "logging" /\ UNCHANGED <<task, closed>> /\ Return(p)
    BY <1>10 DEF CloseEvent, At
  <2>2. w'[p].pc = "idle"
    BY <1>2, <2>1, ReturnIsOnly
  <2> QED
    BY <1>1, <2>1, <2>2, ShowsNothing DEF Provisional
<1> QED
  BY <1>4, <1>5, <1>6, <1>7, <1>8, <1>9, <1>10 DEF CloseStep

\* The operator's commands on rows are the board's, and the others it does not see.
LEMMA SeenOperator ==
  ASSUME BoardInv, Operator \/ (\E t \in Tasks : LoseLease(t)) \/ UNCHANGED vars
  PROVE  BoardStep
<1> USE DEF BoardInv, CloseInv
<1>1. task \in [Tasks -> Row] /\ NoProc \notin Procs /\ closed \in BOOLEAN
  BY ProcsAssumption DEF TypeInv, TypeOK
<1>2. CASE UNCHANGED <<task, closed, lock, w>>
  <2>1. seenRows' = seenRows
    BY <1>2 DEF seenRows
  <2>2. seenClosed' = seenClosed
    BY <1>2 DEF seenClosed
  <2> QED
    BY <2>1, <2>2 DEF BoardStep
<1>3. ASSUME lock = NoProc, UNCHANGED <<closed, lock>>
      PROVE  /\ seenRows = task /\ seenRows' = task'
             /\ seenClosed = closed /\ seenClosed' = seenClosed
  BY <1>1, <1>3 DEF seenRows, seenClosed
<1>4. ASSUME NEW S \in SUBSET Tasks, StartTasks(S) PROVE BoardStep
  <2>1. /\ lock = NoProc /\ ~closed /\ UNCHANGED <<closed, lock>>
        /\ \A t \in S : "in_progress" \in Arrows[task[t].state]
        /\ task' = [t \in Tasks |-> IF t \in S THEN Move(task[t], "in_progress") ELSE task[t]]
    BY <1>4 DEF StartTasks, Free
  <2>2. \A t \in Tasks : Board!Enter(task[t], "in_progress") = Move(task[t], "in_progress")
    BY <1>1, SameMoves DEF States
  <2>3. seenRows = task /\ seenRows' = task' /\ seenClosed = closed /\ seenClosed' = seenClosed
    BY <1>3, <2>1
  <2>4. seenRows' = [t \in Tasks |-> IF t \in S THEN Board!Enter(seenRows[t], "in_progress") ELSE seenRows[t]]
    BY <2>1, <2>2, <2>3
  <2>5. Board!Start(S)
    BY <2>1, <2>3, <2>4 DEF Board!Start
  <2> QED
    BY <2>5 DEF BoardStep, Board!Next
<1>5. ASSUME NEW t \in Tasks, NEW s \in States, NEW policy \in Policies, TransitionTask(t, s, policy)
      PROVE  BoardStep
  <2>1. /\ lock = NoProc /\ ~closed /\ UNCHANGED <<closed, lock>>
        /\ s # "done" /\ s \in Arrows[task[t].state]
        /\ task' = [task EXCEPT ![t] = [Move(task[t], s) EXCEPT !.policy = policy]]
    BY <1>5 DEF TransitionTask, Free
  <2>2. Board!Enter(task[t], s) = Move(task[t], s)
    BY <1>1, SameMoves
  <2>3. seenRows = task /\ seenRows' = task' /\ seenClosed = closed /\ seenClosed' = seenClosed
    BY <1>3, <2>1
  <2>4. seenRows' = [seenRows EXCEPT ![t] = [Board!Enter(seenRows[t], s) EXCEPT !.policy = policy]]
    BY <2>1, <2>2, <2>3
  <2>5. Board!Transition(t, s, policy) /\ s \in Arrows[seenRows[t].state]
    BY <2>1, <2>3, <2>4 DEF Board!Transition
  <2> QED
    BY <2>5 DEF BoardStep, Board!Next
<1>6. CASE ~(\E S \in SUBSET Tasks : StartTasks(S))
           /\ ~(\E t \in Tasks, s \in States, policy \in Policies : TransitionTask(t, s, policy))
  <2>1. UNCHANGED <<task, closed, lock, w>>
    BY <1>6 DEF Operator, DeclareEvidence, Reverify, EditArtifact, Archive, LoseLease, vars, files
  <2> QED
    BY <1>2, <2>1
<1> QED
  BY <1>4, <1>5, <1>6

LEMMA SeenInit == Init => Board!Init
<1> SUFFICES ASSUME Init PROVE Board!Init
  OBVIOUS
<1>1. lock = NoProc /\ closed = FALSE /\ task = [t \in Tasks |-> Row0] /\ NoProc \notin Procs
  BY ProcsAssumption DEF Init
<1>2. seenRows = task /\ seenClosed = FALSE
  BY <1>1 DEF seenRows, seenClosed
<1> QED
  BY <1>1, <1>2 DEF Board!Init

LEMMA StepSeen == BoardInv /\ [Next]_vars => BoardStep
<1> SUFFICES ASSUME BoardInv, [Next]_vars PROVE BoardStep
  OBVIOUS
<1>1. TypeInv'
  BY TypeStep DEF BoardInv, CloseInv
<1>2. ASSUME NEW p \in Procs, Begin(p) \/ Continue(p) \/ Crash(p) PROVE BoardStep
  BY <1>1, <1>2, StepKinds, SeenQuiet, SeenRow, SeenBatch, SeenClose
<1> QED
  BY <1>2, SeenOperator DEF Next

\* TaskLifecycle implements TaskBoard: to whoever takes the session lock, every command,
\* with its crashes, restores and retries, is one step of the abstract board or none
\* (completeObservedTasks, closeSession, withSessionLock).
THEOREM ImplementsTaskBoardHolds == Spec => ImplementsTaskBoard
<1>1. Spec => []BoardInv
  BY BoardInit, BoardKept, PTL DEF Spec
<1>2. BoardInv /\ [Next]_vars => [Board!Next]_<<seenRows, seenClosed>>
  BY StepSeen DEF BoardStep
<1> QED
  BY <1>1, <1>2, SeenInit, PTL DEF Spec, ImplementsTaskBoard, Board!Spec

\* What the abstract board never takes back.
SeenGoesOn ==
  /\ seenClosed => seenClosed' /\ seenRows' = seenRows
  /\ \A t \in Tasks : /\ seenRows[t].state \in Settled => seenRows'[t] = seenRows[t]
                      /\ seenRows'[t].attempt >= seenRows[t].attempt
SeenIsFinal == [][SeenGoesOn]_<<seenRows, seenClosed>>

\* A row that leaves for another session loses no attempt.
LEMMA LeaveIsMove ==
  ASSUME NEW row \in Row
  PROVE  Board!Leave(row) \in Row /\ Board!Leave(row).attempt >= row.attempt
<1>1. "moved" \in States /\ "problem" \in States
  BY DEF States
<1>2. PICK x \in Row : x = Move(row, "problem") /\ x.attempt >= row.attempt
  BY <1>1, Moved
<1>3. Move(x, "moved") \in Row /\ Move(x, "moved").attempt >= x.attempt
  BY <1>1, Moved
<1>4. Move(row, "moved") \in Row /\ Move(row, "moved").attempt >= row.attempt
  BY <1>1, Moved
<1>5. \A y \in Row, s \in States : Board!Enter(y, s) = Move(y, s)
  BY SameMoves
<1>6. Board!Leave(row) \in {Move(row, "moved"), Move(x, "moved")}
  BY <1>1, <1>2, <1>5 DEF Board!Leave
<1>7. row.attempt \in Nat /\ x.attempt \in Nat /\ Move(x, "moved").attempt \in Nat
  BY <1>3 DEF Row
<1>8. Move(x, "moved").attempt >= row.attempt
  BY <1>2, <1>3, <1>7
<1> QED
  BY <1>3, <1>4, <1>6, <1>8

LEMMA BoardGoesOn ==
  ASSUME seenRows \in [Tasks -> Row], BoardStep
  PROVE  SeenGoesOn
<1>1. \A t \in Tasks : seenRows[t] \in Row /\ seenRows[t].attempt \in Nat
  BY DEF Row
<1>2. CASE UNCHANGED <<seenRows, seenClosed>>
  BY <1>1, <1>2 DEF SeenGoesOn
<1>3. ASSUME NEW S \in SUBSET Tasks, Board!Start(S) PROVE SeenGoesOn
  <2>1. ~seenClosed
    BY <1>3 DEF Board!Start
  <2>2. ASSUME NEW t \in Tasks, t \in S
        PROVE  seenRows[t].state \notin Settled /\ seenRows'[t].attempt >= seenRows[t].attempt
    <3>1. "in_progress" \in Arrows[seenRows[t].state] /\ seenRows'[t] = Move(seenRows[t], "in_progress")
      BY <1>1, <1>3, <2>2, SameMoves DEF Board!Start, States
    <3> QED
      BY <1>1, <3>1, Moved DEF Arrows, Settled, States
  <2>3. ASSUME NEW t \in Tasks, t \notin S PROVE seenRows'[t] = seenRows[t]
    BY <1>3, <2>3 DEF Board!Start
  <2> QED
    BY <1>1, <2>1, <2>2, <2>3 DEF SeenGoesOn
<1>4. ASSUME NEW S \in SUBSET Tasks, Board!Complete(S) PROVE SeenGoesOn
  <2>1. ~seenClosed
    BY <1>4 DEF Board!Complete
  <2>2. ASSUME NEW t \in Tasks, t \in S
        PROVE  seenRows[t].state \notin Settled /\ seenRows'[t].attempt = seenRows[t].attempt
    <3>1. seenRows[t].state \in Board!AtWork /\ seenRows'[t] = [seenRows[t] EXCEPT !.state = "done"]
      BY <1>4, <2>2 DEF Board!Complete
    <3> QED
      BY <1>1, <3>1 DEF Row, Board!AtWork, Settled
  <2>3. ASSUME NEW t \in Tasks, t \notin S PROVE seenRows'[t] = seenRows[t]
    BY <1>4, <2>3 DEF Board!Complete
  <2> QED
    BY <1>1, <2>1, <2>2, <2>3 DEF SeenGoesOn
<1>5. ASSUME NEW t \in Tasks, NEW policy \in Policies, NEW s \in Arrows[seenRows[t].state],
             Board!Transition(t, s, policy)
      PROVE  SeenGoesOn
  <2>1. /\ ~seenClosed /\ \A u \in Tasks : u # t => seenRows'[u] = seenRows[u]
        /\ seenRows'[t] = [Board!Enter(seenRows[t], s) EXCEPT !.policy = policy]
    BY <1>5 DEF Board!Transition
  <2>2. seenRows[t].state \in States
    BY <1>1 DEF Row
  <2>3. s \in States /\ seenRows[t].state \notin Settled
    BY <2>2 DEF Arrows, Settled, States
  <2>4. Board!Enter(seenRows[t], s) = Move(seenRows[t], s)
    BY <1>1, <2>3, SameMoves
  <2>5. PICK x \in Row : x = Move(seenRows[t], s) /\ x.attempt >= seenRows[t].attempt
    BY <1>1, <2>3, Moved
  <2>6. [x EXCEPT !.policy = policy].attempt = x.attempt
    BY DEF Row
  <2>7. seenRows'[t].attempt >= seenRows[t].attempt
    BY <2>1, <2>4, <2>5, <2>6
  <2>8. ASSUME NEW u \in Tasks
        PROVE  /\ seenRows[u].state \in Settled => seenRows'[u] = seenRows[u]
               /\ seenRows'[u].attempt >= seenRows[u].attempt
    <3>1. CASE u = t
      BY <2>3, <2>7, <3>1
    <3>2. CASE u # t
      <4>1. seenRows'[u] = seenRows[u] /\ seenRows[u].attempt \in Nat
        BY <1>1, <2>1, <3>2
      <4> QED
        BY <4>1
    <3> QED
      BY <3>1, <3>2
  <2> QED
    BY <2>1, <2>8 DEF SeenGoesOn
<1>6. ASSUME NEW dest \in 0..MaxConts, Board!Carry(dest) \/ Board!Close(dest) PROVE SeenGoesOn
  <2>1. ~seenClosed /\ seenRows' = Board!Handed(dest)
    BY <1>6 DEF Board!Carry, Board!Close
  <2>2. ASSUME NEW t \in Tasks, seenRows[t].state \in Settled PROVE seenRows'[t] = seenRows[t]
    BY <2>1, <2>2 DEF Board!Handed, Board!Settled, Settled
  <2>3. ASSUME NEW t \in Tasks, seenRows[t].state \notin Settled
        PROVE  seenRows'[t].attempt >= seenRows[t].attempt
    <3>1. seenRows'[t] = [Board!Leave(seenRows[t]) EXCEPT !.dest = dest]
      BY <2>1, <2>3 DEF Board!Handed, Board!Settled, Settled
    <3>2. PICK x \in Row : x = Board!Leave(seenRows[t]) /\ x.attempt >= seenRows[t].attempt
      BY <1>1, LeaveIsMove
    <3>3. [x EXCEPT !.dest = dest].attempt = x.attempt
      BY DEF Row
    <3> QED
      BY <3>1, <3>2, <3>3
  <2> QED
    BY <1>1, <2>1, <2>2, <2>3 DEF SeenGoesOn
<1> QED
  BY <1>2, <1>3, <1>4, <1>5, <1>6 DEF BoardStep, Board!Next

LEMMA SeenRowsType ==
  ASSUME TypeInv PROVE seenRows \in [Tasks -> Row]
<1>1. task \in [Tasks -> Row] /\ \A p \in Procs : w[p].rows \in [Tasks -> Row]
  BY DEF TypeInv, TypeOK, Worker
<1> QED
  BY <1>1 DEF seenRows

\* To whoever takes the session lock, a done or moved row and a closed session are final,
\* without the exception that restores make on disk, and attempts never go back.
THEOREM SeenIsFinalHolds == Spec => SeenIsFinal
<1>1. Spec => []BoardInv
  BY BoardInit, BoardKept, PTL DEF Spec
<1>2. BoardInv /\ [Next]_vars => [SeenGoesOn]_<<seenRows, seenClosed>>
  BY StepSeen, SeenRowsType, BoardGoesOn DEF BoardInv, CloseInv
<1> QED
  BY <1>1, <1>2, PTL DEF Spec, SeenIsFinal

=============================================================================
