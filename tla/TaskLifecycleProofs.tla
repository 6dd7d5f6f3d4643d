------------------------ MODULE TaskLifecycleProofs ------------------------
(***************************************************************************)
(* Theorems about the types and the verification runs of TaskLifecycle, for *)
(* any number of processes, tasks, steps, attempts, entries and runs.       *)
(*                                                                         *)
(* TypeOK is not inductive by itself: an undone batch truncates the ledger  *)
(* to a length it remembered, which must not exceed the ledger's.  That     *)
(* holds since nobody else writes evidence while the batch holds the        *)
(* session lock, so the lock discipline is part of the invariant.           *)
(***************************************************************************)
EXTENDS TaskLifecycle, SequenceTheorems, TLAPS

\* Program counters between two writes of a handler: the session lock is held.
Holding == {"finish", "reconcile", "step", "failing", "finalize", "commit",
            "batchEvidence", "batchDone", "batchUndo",
            "carry", "carried", "closing", "remap", "logging"}
Batching == {"batchEvidence", "batchDone", "batchUndo"}

LockHeld == \A p \in Procs : w[p].pc \in Holding => lock = p
UndoFits == \A p \in Procs : w[p].pc \in Batching => w[p].len <= Len(evidence)

TypeInv == TypeOK /\ LockHeld /\ UndoFits

-----------------------------------------------------------------------------
(* Values.                                                                 *)

\* A fresh row of the State Board is a row.
LEMMA RowType == Row0 \in Row
  BY PolicyAssumption DEF Row0, Row, States

\* What an idle process remembers has its type.
LEMMA IdleType == Idle \in Worker
<1>1. 1 \in Tasks
  BY SizeAssumption DEF Tasks
<1> QED
  BY <1>1, RowType DEF Idle, Worker, PCs, Terminals

\* transitionTaskStateChains makes a row of a row.
LEMMA MoveType ==
  ASSUME NEW row \in Row, NEW s \in States
  PROVE  Move(row, s) \in Row
<1>1. Bump(s) \in Nat
  BY DEF Bump
<1>2. row.attempt \in Nat
  BY DEF Row
<1>3. row.attempt + Bump(s) \in Nat
  BY <1>1, <1>2
<1> QED
  BY <1>3 DEF Move, Row

\* So does the chain of arrows of a carried task.
LEMMA CarriedType ==
  ASSUME NEW row \in Row, conts \in Nat
  PROVE  Carried(row) \in Row
<1>1. Move(row, "moved") \in Row /\ Move(Move(row, "problem"), "moved") \in Row
  BY MoveType DEF States
<1>2. \A x \in Row : [x EXCEPT !.dest = conts] \in Row
  BY DEF Row
<1> QED
  BY <1>1, <1>2 DEF Carried

\* Marking one row done keeps the board a board.
LEMMA DoneType ==
  ASSUME task \in [Tasks -> Row], NEW t \in Tasks
  PROVE  [task EXCEPT ![t].state = "done"] \in [Tasks -> Row]
<1>1. \A x \in Row : [x EXCEPT !.state = "done"] \in Row
  BY DEF Row, States
<1> QED
  BY <1>1

\* What recordEvidence files is an evidence entry.
LEMMA EntryType ==
  ASSUME task \in [Tasks -> Row], artifact \in {0, 1},
         NEW t \in Tasks, NEW kind \in {"observed", "declared"}, NEW ok \in BOOLEAN,
         NEW r \in Nat, NEW s \in Nat, NEW note \in Contents \cup {0}, NEW b \in Nat
  PROVE  Entry(t, kind, ok, r, s, note, b) \in Evidence
<1>1. task[t].attempt \in Nat /\ task[t].policy \in Policies
  BY DEF Row
<1>2. Artful(t) \in {0, 1}
  BY DEF Artful
<1> QED
  BY <1>1, <1>2 DEF Entry, Evidence

\* An update of a sequence at an index that may lie outside it.
LEMMA SeqUpdate ==
  ASSUME NEW S, NEW s \in Seq(S), NEW r \in Nat, NEW x, r \in 1..Len(s) => x \in S
  PROVE  [s EXCEPT ![r] = x] \in Seq(S) /\ Len([s EXCEPT ![r] = x]) = Len(s)
<1>1. CASE r \in 1..Len(s)
  BY <1>1, ExceptSeq
<1>2. CASE r \notin 1..Len(s)
  <2>1. [s EXCEPT ![r] = x] = s
    BY <1>2, LenProperties
  <2> QED
    BY <2>1
<1> QED
  BY <1>1, <1>2

\* A step record keeps the run ledger a ledger.
LEMMA RunStepType ==
  ASSUME runs \in Seq(Run), NEW r \in Nat, NEW s \in Nat, NEW e \in Nat
  PROVE  [runs EXCEPT ![r].steps[s] = e] \in Seq(Run)
<1>1. \A x \in Run : [x EXCEPT !.steps[s] = e] \in Run
  BY DEF Run
<1>2. r \in 1..Len(runs) => runs[r] \in Run
  BY ElementOfSeq
<1>3. r \in 1..Len(runs) => [runs[r] EXCEPT !.steps[s] = e] \in Run
  BY <1>1, <1>2
<1> QED
  BY <1>3, SeqUpdate

\* The terminal record of a run keeps the ledger a ledger.
LEMMA RunTermType ==
  ASSUME runs \in Seq(Run), NEW r \in Nat, NEW term \in Terminals
  PROVE  [runs EXCEPT ![r].term = term] \in Seq(Run)
<1>1. \A x \in Run : [x EXCEPT !.term = term] \in Run
  BY DEF Run
<1>2. r \in 1..Len(runs) => runs[r] \in Run
  BY ElementOfSeq
<1>3. r \in 1..Len(runs) => [runs[r] EXCEPT !.term = term] \in Run
  BY <1>1, <1>2
<1> QED
  BY <1>3, SeqUpdate

-----------------------------------------------------------------------------
(* A step of process p, whatever its action: what it must respect.          *)

\* A step of one process keeps the invariant if it respects the session lock.
LEMMA StepKeeps ==
  ASSUME TypeInv, NEW p \in Procs, NEW x \in Worker, w' = [w EXCEPT ![p] = x],
         x.pc \in Holding => lock' = p,
         lock' = lock \/ lock = NoProc \/ lock = p,
         Len(evidence') >= Len(evidence) \/ lock = p,
         x.pc \in Batching => x.len <= Len(evidence'),
         Len(evidence') \in Nat
  PROVE  w' \in [Procs -> Worker] /\ LockHeld' /\ UndoFits'
<1>1. /\ w' \in [Procs -> Worker] /\ w'[p] = x
      /\ \A q \in Procs : q # p => w'[q] = w[q]
  BY DEF TypeInv, TypeOK
<1>2. \A q \in Procs : w[q].pc \in Holding => q = p \/ lock' = q
  BY ProcsAssumption DEF TypeInv, LockHeld
<1>3. LockHeld'
  BY <1>1, <1>2 DEF LockHeld
<1>4. ASSUME NEW q \in Procs, q # p, w[q].pc \in Batching
      PROVE  w[q].len <= Len(evidence')
  <2>1. lock = q
    BY <1>4 DEF TypeInv, LockHeld, Holding, Batching
  <2>2. w[q].len \in Nat /\ Len(evidence) \in Nat
    BY LenProperties DEF TypeInv, TypeOK, Worker
  <2>3. w[q].len <= Len(evidence)
    BY <1>4 DEF TypeInv, UndoFits
  <2> QED
    BY <1>4, <2>1, <2>2, <2>3
<1>5. UndoFits'
  BY <1>1, <1>4 DEF UndoFits
<1> QED
  BY <1>1, <1>3, <1>5

\* Going on to the next write of the handler keeps the session lock.
LEMMA GotoKeeps ==
  ASSUME TypeInv, NEW p \in Procs, NEW pc \in PCs, Goto(p, pc),
         pc \in Holding => lock' = p,
         lock' = lock \/ lock = NoProc \/ lock = p,
         pc \in Batching => w[p].pc \in Batching,
         UNCHANGED evidence
  PROVE  w' \in [Procs -> Worker] /\ LockHeld' /\ UndoFits'
<1>1. \A y \in Worker : /\ [y EXCEPT !.pc = pc] \in Worker
                        /\ [y EXCEPT !.pc = pc].pc = pc
                        /\ [y EXCEPT !.pc = pc].len = y.len
  BY DEF Worker
<1>2. w[p] \in Worker
  BY DEF TypeInv, TypeOK
<1>3. PICK x \in Worker : x = [w[p] EXCEPT !.pc = pc] /\ x.pc = pc /\ x.len = w[p].len
  BY <1>1, <1>2
<1>4. w' = [w EXCEPT ![p] = x]
  BY <1>3 DEF Goto
<1>5. Len(evidence') \in Nat /\ Len(evidence') >= Len(evidence)
  BY LenProperties DEF TypeInv, TypeOK
<1>6. x.pc \in Batching => x.len <= Len(evidence')
  BY <1>3 DEF TypeInv, UndoFits
<1>7. x.pc \in Holding => lock' = p
  BY <1>3
<1> QED
  BY <1>4, <1>5, <1>6, <1>7, StepKeeps

\* A command that ends lets its lock and leases go.
LEMMA ReturnKeeps ==
  ASSUME TypeInv, NEW p \in Procs, Return(p),
         Len(evidence') \in Nat,
         Len(evidence') >= Len(evidence) \/ lock = p
  PROVE  /\ w' \in [Procs -> Worker]
         /\ lease' \in [Tasks -> Procs \cup {NoProc}]
         /\ lock' \in Procs \cup {NoProc}
         /\ LockHeld' /\ UndoFits'
<1>1. PICK x \in Worker : x = Idle
  BY IdleType
<1>2. x.pc \notin Holding /\ x.pc \notin Batching
  BY <1>1 DEF Idle, Holding, Batching
<1>3. w' = [w EXCEPT ![p] = x] /\ (lock' = lock \/ lock = p)
  BY <1>1 DEF Return
<1>4. w' \in [Procs -> Worker] /\ LockHeld' /\ UndoFits'
  BY <1>2, <1>3, StepKeeps
<1> QED
  BY <1>4 DEF Return, TypeInv, TypeOK

\* A command that writes nothing and ends.
LEMMA QuietReturn ==
  ASSUME TypeInv, NEW p \in Procs, Return(p), Keep, UNCHANGED artifact
  PROVE  TypeInv'
<1>1. Len(evidence) \in Nat /\ evidence' = evidence
  BY LenProperties DEF TypeInv, TypeOK, Keep, files
<1> QED
  BY <1>1, ReturnKeeps DEF TypeInv, TypeOK, Keep, files

\* A command that files nothing and holds no lock while it works.
LEMMA WorkKeeps ==
  ASSUME TypeInv, NEW p \in Procs, NEW x \in Worker, w' = [w EXCEPT ![p] = x],
         x.pc \notin Holding, lock' = lock \/ (lock = p /\ lock' = NoProc),
         UNCHANGED evidence
  PROVE  w' \in [Procs -> Worker] /\ LockHeld' /\ UndoFits'
<1>1. Len(evidence') \in Nat /\ Len(evidence') >= Len(evidence)
  BY LenProperties DEF TypeInv, TypeOK
<1>2. x.pc \notin Batching
  BY DEF Holding, Batching
<1> QED
  BY <1>1, <1>2, StepKeeps

\* A handler of p that takes or keeps the session lock and files nothing.
LEMMA HandlerKeeps ==
  ASSUME TypeInv, NEW p \in Procs, NEW x \in Worker, w' = [w EXCEPT ![p] = x],
         x.pc \notin Batching, lock' = p, lock = NoProc \/ lock = p,
         UNCHANGED evidence
  PROVE  w' \in [Procs -> Worker] /\ LockHeld' /\ UndoFits'
<1>1. Len(evidence') \in Nat /\ Len(evidence') >= Len(evidence)
  BY LenProperties DEF TypeInv, TypeOK
<1> QED
  BY <1>1, StepKeeps

\* The commands of the operator change neither lock nor processes.
LEMMA OperatorKeeps ==
  ASSUME TypeInv, UNCHANGED <<lock, w>>, Len(evidence') \in Nat,
         Len(evidence') >= Len(evidence)
  PROVE  LockHeld' /\ UndoFits'
<1>1. Len(evidence) \in Nat /\ \A q \in Procs : w[q].len \in Nat
  BY LenProperties DEF TypeInv, TypeOK, Worker
<1> QED
  BY <1>1 DEF TypeInv, LockHeld, UndoFits

\* A ledger grows by one entry.
LEMMA Appended ==
  ASSUME evidence \in Seq(Evidence), NEW e \in Evidence, evidence' = Append(evidence, e)
  PROVE  /\ evidence' \in Seq(Evidence) /\ Len(evidence') = Len(evidence) + 1
         /\ Len(evidence) \in Nat /\ Len(evidence') \in Nat /\ Len(evidence') >= Len(evidence)
  BY LenProperties

\* A command that ends and files nothing.
LEMMA EndKeeps ==
  ASSUME TypeInv, NEW p \in Procs, Return(p), UNCHANGED evidence
  PROVE  /\ w' \in [Procs -> Worker]
         /\ lease' \in [Tasks -> Procs \cup {NoProc}]
         /\ lock' \in Procs \cup {NoProc}
         /\ LockHeld' /\ UndoFits'
<1>1. Len(evidence') \in Nat /\ Len(evidence') >= Len(evidence)
  BY LenProperties DEF TypeInv, TypeOK
<1> QED
  BY <1>1, ReturnKeeps

\* Giving up a multi-test run keeps the types of what the process remembers.
LEMMA FailType ==
  ASSUME NEW y \in Worker
  PROVE  [y EXCEPT !.pc = "fail", !.term = "interrupted"] \in {z \in Worker : z.pc = "fail"}
<1>1. "fail" \in PCs /\ "interrupted" \in Terminals
  BY DEF PCs, Terminals
<1> QED
  BY <1>1 DEF Worker

-----------------------------------------------------------------------------

\* The invariant holds of a new session.
THEOREM TypeInit == Init => TypeInv
<1> SUFFICES ASSUME Init PROVE TypeInv
  OBVIOUS
<1>1. /\ w \in [Procs -> Worker] /\ \A p \in Procs : w[p] = Idle
      /\ task \in [Tasks -> Row]
  BY IdleType, RowType DEF Init
<1>2. evidence \in Seq(Evidence) /\ runs \in Seq(Run)
  BY DEF Init
<1>3. TypeOK
  BY <1>1, <1>2 DEF Init, TypeOK
<1>4. LockHeld /\ UndoFits
  BY <1>1 DEF LockHeld, UndoFits, Holding, Batching, Idle
<1> QED
  BY <1>3, <1>4 DEF TypeInv

\* The single-write commands.
LEMMA TypeOperator == TypeInv /\ Operator => TypeInv'
<1> SUFFICES ASSUME TypeInv, Operator PROVE TypeInv'
  OBVIOUS
<1> USE DEF TypeInv
<1>1. /\ Len(evidence) \in Nat
      /\ \A t \in Tasks : /\ task[t] \in Row
                          /\ task[t].attempt \in Nat /\ task[t].policy \in Policies
  BY LenProperties DEF TypeOK, Row
<1>2. ASSUME NEW S \in SUBSET Tasks, StartTasks(S) PROVE TypeInv'
  <2>1. task' \in [Tasks -> Row]
    BY <1>1, <1>2, MoveType DEF StartTasks, TypeOK, States
  <2> QED
    BY <1>1, <1>2, <2>1, OperatorKeeps DEF StartTasks, TypeOK
<1>3. ASSUME NEW t \in Tasks, NEW s \in States, NEW policy \in Policies,
             TransitionTask(t, s, policy)
      PROVE  TypeInv'
  <2>1. \A row \in Row : [row EXCEPT !.policy = policy] \in Row
    BY DEF Row
  <2>2. [Move(task[t], s) EXCEPT !.policy = policy] \in Row
    BY <1>1, <2>1, MoveType
  <2>3. task' \in [Tasks -> Row]
    BY <1>3, <2>2 DEF TransitionTask, TypeOK
  <2> QED
    BY <1>1, <1>3, <2>3, OperatorKeeps DEF TransitionTask, TypeOK
<1>4. ASSUME NEW t \in Tasks, NEW ok \in BOOLEAN, NEW note \in Contents,
             DeclareEvidence(t, ok, note)
      PROVE  TypeInv'
  <2>1. Entry(t, "declared", ok, 0, 0, note, task[t].attempt) \in Evidence
    BY <1>1, EntryType DEF TypeOK
  <2> QED
    BY <1>4, <2>1, Appended, OperatorKeeps DEF DeclareEvidence, TypeOK
<1>5. ASSUME NEW t \in Tasks, NEW ok \in BOOLEAN, Reverify(t, ok) PROVE TypeInv'
  <2>1. Entry(t, "observed", ok, 0, 0, 0, task[t].attempt) \in Evidence
    BY <1>1, EntryType DEF TypeOK
  <2> QED
    BY <1>5, <2>1, Appended, OperatorKeeps DEF Reverify, TypeOK
<1>6. CASE EditArtifact
  BY <1>1, <1>6, OperatorKeeps DEF EditArtifact, TypeOK, files
<1>7. ASSUME NEW a \in BOOLEAN, Archive(a) PROVE TypeInv'
  BY <1>1, <1>7, OperatorKeeps DEF Archive, TypeOK
<1> QED
  BY <1>2, <1>3, <1>4, <1>5, <1>6, <1>7 DEF Operator

\* How a command begins, gets its leases and runs its tests.
LEMMA TypeCommand ==
  ASSUME TypeInv, NEW p \in Procs,
         \/ Begin(p) \/ AcquireLease(p) \/ Busy(p) \/ LockTimeout(p) \/ Snapshot(p)
         \/ VerifyBegin(p) \/ LeaseLost(p) \/ Crash(p)
  PROVE  TypeInv'
<1> USE DEF TypeInv
<1>1. /\ w[p] \in Worker /\ Len(evidence) \in Nat
      /\ [t \in Tasks |-> task[t].attempt] \in [Tasks -> Nat]
  BY LenProperties DEF TypeOK, Row
<1>2. ASSUME NEW mode \in Modes, NEW S \in SUBSET Tasks, DoneBegin(p, mode, S) PROVE TypeInv'
  <2>1. PICK t \in S : w' = [w EXCEPT ![p] = [Idle EXCEPT !.pc = "acquire", !.mode = mode,
                                                        !.ts = S, !.t = t]]
    BY <1>2 DEF DoneBegin
  <2>2. \A y \in Worker : [y EXCEPT !.pc = "acquire", !.mode = mode, !.ts = S, !.t = t] \in
                           {z \in Worker : z.pc = "acquire"}
    BY ZenonT(60) DEF Worker, PCs
  <2>3. PICK x \in Worker : x.pc = "acquire" /\ w' = [w EXCEPT ![p] = x]
    BY <2>1, <2>2, IdleType
  <2>4. x.pc \notin Holding
    BY <2>3 DEF Holding
  <2> QED
    BY <1>2, <2>3, <2>4, WorkKeeps DEF DoneBegin, TypeOK, files
<1>3. CASE CloseOpen(p)
  <2>1. lock = NoProc /\ lock' = p /\ closed' \in BOOLEAN
        /\ UNCHANGED <<task, evidence, runs, artifact, closeLogged, archived, conts, lease>>
        /\ w' = [w EXCEPT ![p] = [w[p] EXCEPT !.pc = "closing", !.rows = task]]
    BY <1>3 DEF CloseOpen, MarkClosed, Free
  <2>2. \A y \in Worker : [y EXCEPT !.pc = "closing", !.rows = task] \in
                           {z \in Worker : z.pc = "closing"}
    BY ZenonT(60) DEF Worker, PCs, TypeOK
  <2>3. PICK x \in Worker : x.pc = "closing" /\ w' = [w EXCEPT ![p] = x]
    BY <1>1, <2>1, <2>2
  <2>4. x.pc \notin Batching
    BY <2>3 DEF Batching
  <2>5. w' \in [Procs -> Worker] /\ LockHeld' /\ UndoFits'
    BY <2>1, <2>3, <2>4, HandlerKeeps
  <2> QED
    BY <2>1, <2>5 DEF TypeOK
<1>4. CASE CarryOpen(p)
  <2>1. lock = NoProc /\ lock' = p /\ conts' = conts + 1
        /\ UNCHANGED <<task, evidence, runs, artifact, closed, closeLogged, archived, lease>>
        /\ w' = [w EXCEPT ![p] = [w[p] EXCEPT !.pc = "carry", !.rows = task]]
    BY <1>4 DEF CarryOpen, Free, TypeOK
  <2>2. \A y \in Worker : [y EXCEPT !.pc = "carry", !.rows = task] \in
                           {z \in Worker : z.pc = "carry"}
    BY ZenonT(60) DEF Worker, PCs, TypeOK
  <2>3. PICK x \in Worker : x.pc = "carry" /\ w' = [w EXCEPT ![p] = x]
    BY <1>1, <2>1, <2>2
  <2>4. x.pc \notin Batching
    BY <2>3 DEF Batching
  <2>5. w' \in [Procs -> Worker] /\ LockHeld' /\ UndoFits'
    BY <2>1, <2>3, <2>4, HandlerKeeps
  <2>6. conts' \in Nat
    BY <2>1 DEF TypeOK
  <2> QED
    BY <2>1, <2>5, <2>6 DEF TypeOK
<1>5. CASE CloseAgain(p)
  BY <1>5, GotoKeeps DEF CloseAgain, Free, TypeOK, PCs, Batching, files
<1>6. CASE AcquireLease(p)
  <2>1. w[p].t \in Tasks /\ w[p].ts \in SUBSET Tasks
    BY <1>1 DEF Worker
  <2>2. lease' \in [Tasks -> Procs \cup {NoProc}]
    BY <1>6, <2>1 DEF AcquireLease, TypeOK
  <2>3. CASE Goto(p, "snapshot")
    BY <1>6, <2>2, <2>3, GotoKeeps DEF AcquireLease, TypeOK, PCs, Holding, Batching, files
  <2>4. ASSUME NEW u \in w[p].ts, w' = [w EXCEPT ![p].t = u] PROVE TypeInv'
    <3>1. \A y \in Worker, v \in Tasks : [y EXCEPT !.t = v] \in Worker /\ [y EXCEPT !.t = v].pc = y.pc
      BY DEF Worker
    <3>2. PICK x \in Worker : x.pc = "acquire" /\ w' = [w EXCEPT ![p] = x]
      BY <1>1, <1>6, <2>1, <2>4, <3>1 DEF AcquireLease, At
    <3>3. x.pc \notin Holding
      BY <3>2 DEF Holding
    <3> QED
      BY <1>6, <2>2, <3>2, <3>3, WorkKeeps DEF AcquireLease, TypeOK, files
  <2> QED
    BY <1>6, <2>3, <2>4 DEF AcquireLease
<1>7. CASE Busy(p)
  BY <1>7, QuietReturn DEF Busy
<1>8. CASE LockTimeout(p)
  <2>1. CASE Return(p)
    BY <1>8, <2>1, QuietReturn DEF LockTimeout
  <2>2. CASE ~Return(p)
    <3>1. UNCHANGED <<files, artifact, lease, lock>>
          /\ w' = [w EXCEPT ![p] = [w[p] EXCEPT !.pc = "fail", !.term = "interrupted"]]
      BY <1>8, <2>2 DEF LockTimeout, Keep
    <3>2. PICK x \in Worker : x.pc = "fail" /\ w' = [w EXCEPT ![p] = x]
      BY <1>1, <3>1, FailType
    <3>3. x.pc \notin Holding
      BY <3>2 DEF Holding
    <3> QED
      BY <3>1, <3>2, <3>3, WorkKeeps DEF TypeOK, files
  <2> QED
    BY <2>1, <2>2
<1>9. CASE Snapshot(p)
  <2>1. CASE Return(p)
    BY <1>9, <2>1, QuietReturn DEF Snapshot
  <2>2. CASE ~Return(p)
    <3> DEFINE snap == [t \in Tasks |-> task[t].attempt]
    <3>1. \A y \in Worker, pc \in {"prepare", "verify"} :
            [y EXCEPT !.snap = snap, !.pc = pc] \in {z \in Worker : z.pc = pc}
      BY <1>1, ZenonT(60) DEF Worker, PCs
    <3>2. \E pc \in {"prepare", "verify"} :
            w' = [w EXCEPT ![p] = [w[p] EXCEPT !.snap = snap, !.pc = pc]]
      BY <1>9, <2>2 DEF Snapshot
    <3>3. PICK x \in Worker : x.pc \in {"prepare", "verify"} /\ w' = [w EXCEPT ![p] = x]
      BY <1>1, <3>1, <3>2
    <3>4. x.pc \notin Holding
      BY <3>3 DEF Holding
    <3> QED
      BY <1>9, <2>2, <3>3, <3>4, WorkKeeps DEF Snapshot, Keep, TypeOK, files
  <2> QED
    BY <2>1, <2>2
<1>10. CASE VerifyBegin(p)
  <2> DEFINE began == [t \in Tasks |-> task[t].attempt]
  <2>1. UNCHANGED <<files, artifact, lease, lock>>
        /\ w' = [w EXCEPT ![p] = [w[p] EXCEPT !.pc = "running", !.began = began]]
    BY <1>10 DEF VerifyBegin
  <2>2. \A y \in Worker : [y EXCEPT !.pc = "running", !.began = began] \in
                           {z \in Worker : z.pc = "running"}
    BY <1>1, ZenonT(60) DEF Worker, PCs
  <2>3. PICK x \in Worker : x.pc = "running" /\ w' = [w EXCEPT ![p] = x]
    BY <1>1, <2>1, <2>2
  <2>4. x.pc \notin Holding
    BY <2>3 DEF Holding
  <2> QED
    BY <2>1, <2>3, <2>4, WorkKeeps DEF TypeOK, files
<1>11. CASE LeaseLost(p)
  BY <1>11, QuietReturn DEF LeaseLost
<1>12. CASE Crash(p)
  BY <1>12, QuietReturn DEF Crash
<1> QED
  BY <1>2, <1>3, <1>4, <1>5, <1>6, <1>7, <1>8, <1>9, <1>10, <1>11, <1>12 DEF Begin

\* `done` with one command or none.
LEMMA TypeSingle ==
  ASSUME TypeInv, NEW p \in Procs,
         (\E ok \in BOOLEAN : CommitSingle(p, ok)) \/ FinishSingle(p) \/ DoneBare(p)
  PROVE  TypeInv'
<1> USE DEF TypeInv
<1> DEFINE t == w[p].t
<1>0. w[p] \in Worker /\ t \in Tasks /\ w[p].began \in [Tasks -> Nat]
  BY DEF TypeOK, Worker
<1>1. /\ w[p] \in Worker /\ t \in Tasks /\ Len(evidence) \in Nat
      /\ [task EXCEPT ![t].state = "done"] \in [Tasks -> Row]
      /\ w[p].began[t] \in Nat
  BY <1>0, LenProperties, DoneType DEF TypeOK
<1>2. ASSUME NEW ok \in BOOLEAN, CommitSingle(p, ok) PROVE TypeInv'
  <2>1. CASE UNCHANGED evidence /\ Return(p)
    BY <1>2, <2>1, EndKeeps DEF CommitSingle, TypeOK
  <2>2. CASE evidence' = Append(evidence, Entry(t, "observed", ok, 0, 0, 0, w[p].began[t]))
    <3>1. Entry(t, "observed", ok, 0, 0, 0, w[p].began[t]) \in Evidence
      BY <1>1, EntryType DEF TypeOK
    <3>2. /\ evidence' \in Seq(Evidence) /\ Len(evidence') \in Nat
          /\ Len(evidence') >= Len(evidence)
      BY <2>2, <3>1, Appended DEF TypeOK
    <3>3. CASE Return(p)
      BY <1>2, <3>2, <3>3, ReturnKeeps DEF CommitSingle, TypeOK
    <3>4. CASE ~Return(p)
      <4> DEFINE k == Len(evidence) + 1
      <4>1. /\ lock = NoProc /\ lock' = p
            /\ w' = [w EXCEPT ![p] = [w[p] EXCEPT !.pc = "finish", !.ev = k]]
            /\ UNCHANGED <<task, runs, artifact, closed, closeLogged, archived, conts, lease>>
        BY <1>2, <3>4 DEF CommitSingle, Free
      <4>2. \A y \in Worker, n \in Nat :
              [y EXCEPT !.pc = "finish", !.ev = n] \in {z \in Worker : z.pc = "finish"}
        BY ZenonT(60) DEF Worker, PCs
      <4>6. k \in Nat
        BY <1>1
      <4> HIDE DEF k
      <4>3. PICK x \in Worker : x.pc = "finish" /\ w' = [w EXCEPT ![p] = x]
        BY <1>1, <4>1, <4>2, <4>6
      <4>4. x.pc \notin Batching
        BY <4>3 DEF Batching
      <4>5. w' \in [Procs -> Worker] /\ LockHeld' /\ UndoFits'
        BY <3>2, <4>1, <4>3, <4>4, StepKeeps
      <4> QED
        BY <3>2, <4>1, <4>5 DEF TypeOK
    <3> QED
      BY <3>3, <3>4
  <2> QED
    BY <1>2, <2>1, <2>2 DEF CommitSingle
<1>3. CASE FinishSingle(p)
  <2>1. task' \in [Tasks -> Row]
    BY <1>1, <1>3 DEF FinishSingle, TypeOK
  <2> QED
    BY <1>3, <2>1, EndKeeps DEF FinishSingle, TypeOK
<1>4. CASE DoneBare(p)
  <2>1. task' \in [Tasks -> Row]
    BY <1>1, <1>4 DEF DoneBare, TypeOK
  <2> QED
    BY <1>4, <2>1, EndKeeps DEF DoneBare, TypeOK
<1> QED
  BY <1>2, <1>3, <1>4

\* `done` with several commands: the start of a run.
LEMMA TypeRunStart ==
  ASSUME TypeInv, NEW p \in Procs,
         Prepare(p) \/ Reconcile(p) \/ Recover(p) \/ Supersede(p) \/ StartRun(p)
  PROVE  TypeInv'
<1> USE DEF TypeInv
<1> DEFINE t == w[p].t
           r == w[p].run
<1>1. /\ w[p] \in Worker /\ t \in Tasks /\ r \in Nat
      /\ Len(runs) \in Nat /\ w[p].pc \in Holding => lock = p
      /\ task[t].attempt \in Nat
  BY LenProperties DEF TypeOK, Worker, Row, LockHeld
<1>2. CASE Prepare(p)
  <2>1. CASE Return(p)
    BY <1>2, <2>1, QuietReturn DEF Prepare
  <2>2. CASE ~Return(p)
    <3>1. PICK n \in 0..Len(runs) :
            w' = [w EXCEPT ![p] = [w[p] EXCEPT !.pc = "reconcile", !.run = n]]
      BY <1>2, <2>2 DEF Prepare
    <3>2. /\ lock = NoProc /\ lock' = p
          /\ UNCHANGED <<files, artifact, lease>>
      BY <1>2, <2>2 DEF Prepare, Free, Keep
    <3>3. \A y \in Worker, m \in Nat :
            [y EXCEPT !.pc = "reconcile", !.run = m] \in {z \in Worker : z.pc = "reconcile"}
      BY ZenonT(60) DEF Worker, PCs
    <3>4. n \in Nat
      BY <1>1
    <3>5. PICK x \in Worker : x.pc = "reconcile" /\ w' = [w EXCEPT ![p] = x]
      BY <1>1, <3>1, <3>3, <3>4
    <3>6. x.pc \notin Batching
      BY <3>5 DEF Batching
    <3>7. w' \in [Procs -> Worker] /\ LockHeld' /\ UndoFits'
      BY <3>2, <3>5, <3>6, HandlerKeeps DEF files
    <3> QED
      BY <3>2, <3>7 DEF TypeOK, files
  <2> QED
    BY <2>1, <2>2
<1>3. CASE Reconcile(p)
  <2>1. CASE Return(p) /\ UNCHANGED runs
    BY <1>3, <2>1, EndKeeps DEF Reconcile, TypeOK
  <2>2. ASSUME NEW i \in 1..Len(evidence), runs' = [runs EXCEPT ![r].steps[evidence[i].step] = i],
               UNCHANGED <<lease, lock, w>>
        PROVE  TypeInv'
    <3>1. evidence[i] \in Evidence /\ Len(evidence) \in Nat
      BY ElementOfSeq, LenProperties DEF TypeOK
    <3>2. evidence[i].step \in Nat /\ i \in Nat
      BY <3>1 DEF Evidence
    <3>3. runs' \in Seq(Run)
      BY <1>1, <2>2, <3>2, RunStepType DEF TypeOK
    <3>4. LockHeld' /\ UndoFits'
      BY <1>3, <2>2 DEF Reconcile, LockHeld, UndoFits
    <3> QED
      BY <1>3, <2>2, <3>3, <3>4 DEF Reconcile, TypeOK
  <2> QED
    BY <1>3, <2>1, <2>2 DEF Reconcile
<1>4. CASE Recover(p)
  <2>1. lock = p
    BY <1>1, <1>4 DEF Recover, At, Holding
  <2> QED
    BY <1>4, <2>1, GotoKeeps DEF Recover, TypeOK, PCs, Batching, files
<1>5. CASE Supersede(p)
  <2>1. CASE Return(p) /\ UNCHANGED runs
    BY <1>5, <2>1, EndKeeps DEF Supersede, TypeOK
  <2>2. CASE runs' = [runs EXCEPT ![r].term = "superseded"] /\ UNCHANGED <<lease, lock, w>>
    <3>1. runs' \in Seq(Run)
      BY <1>1, <2>2, RunTermType DEF TypeOK, Terminals
    <3>2. LockHeld' /\ UndoFits'
      BY <1>5, <2>2 DEF Supersede, LockHeld, UndoFits
    <3> QED
      BY <1>5, <2>2, <3>1, <3>2 DEF Supersede, TypeOK
  <2> QED
    BY <1>5, <2>1, <2>2 DEF Supersede
<1>6. CASE StartRun(p)
  <2>1. CASE Return(p) /\ UNCHANGED runs
    BY <1>6, <2>1, EndKeeps DEF StartRun, TypeOK
  <2>2. CASE ~(Return(p) /\ UNCHANGED runs)
    <3> DEFINE run == [task |-> t, attempt |-> task[t].attempt,
                       steps |-> [s \in 1..Steps |-> 0], term |-> "none"]
               k == Len(runs) + 1
    <3>0. lock = p
      BY <1>1, <1>6 DEF StartRun, At, Holding
    <3>1. /\ lock = p /\ lock' = NoProc /\ runs' = Append(runs, run)
          /\ w' = [w EXCEPT ![p] = [w[p] EXCEPT !.pc = "verify", !.run = k, !.step = 1]]
          /\ UNCHANGED <<task, evidence, artifact, closed, closeLogged, archived, conts, lease>>
      BY <1>6, <2>2, <3>0 DEF StartRun
    <3>2. run \in Run
      BY <1>1 DEF Run, Terminals
    <3>3. runs' \in Seq(Run)
      BY <3>1, <3>2 DEF TypeOK
    <3>4. \A y \in Worker, m \in Nat :
            [y EXCEPT !.pc = "verify", !.run = m, !.step = 1] \in {z \in Worker : z.pc = "verify"}
      BY ZenonT(60) DEF Worker, PCs
    <3>8. k \in Nat
      BY <1>1
    <3> HIDE DEF k
    <3>5. PICK x \in Worker : x.pc = "verify" /\ w' = [w EXCEPT ![p] = x]
      BY <1>1, <3>1, <3>4, <3>8
    <3>6. x.pc \notin Holding
      BY <3>5 DEF Holding
    <3>7. w' \in [Procs -> Worker] /\ LockHeld' /\ UndoFits'
      BY <3>1, <3>5, <3>6, WorkKeeps
    <3> QED
      BY <3>1, <3>3, <3>7 DEF TypeOK
  <2> QED
    BY <2>1, <2>2
<1> QED
  BY <1>2, <1>3, <1>4, <1>5, <1>6

\* `done` with several commands: the steps of a run and its end.
LEMMA TypeRunSteps ==
  ASSUME TypeInv, NEW p \in Procs,
         \/ \E ok \in BOOLEAN : CommitStep(p, ok)
         \/ \E io \in BOOLEAN : RecordStep(p, io)
         \/ FailRun(p) \/ FailTerminal(p) \/ CompleteBegin(p) \/ Finalize(p) \/ CommitRun(p)
  PROVE  TypeInv'
<1> USE DEF TypeInv
<1> DEFINE t == w[p].t
           r == w[p].run
<1>1. /\ w[p] \in Worker /\ t \in Tasks /\ r \in Nat /\ w[p].step \in Nat /\ w[p].ev \in Nat
      /\ w[p].began \in [Tasks -> Nat] /\ w[p].term \in Terminals
  BY DEF TypeOK, Worker
<1>2. /\ Len(evidence) \in Nat /\ w[p].began[t] \in Nat
      /\ w[p].pc \in Holding => lock = p
  BY <1>1, LenProperties DEF TypeOK, LockHeld
<1>3. ASSUME NEW ok \in BOOLEAN, CommitStep(p, ok) PROVE TypeInv'
  <2> DEFINE e == Entry(t, "observed", ok, r, w[p].step, 0, w[p].began[t])
             k == Len(evidence) + 1
  <2>1. CASE evidence' = Append(evidence, e)
    <3>1. e \in Evidence
      BY <1>1, <1>2, EntryType DEF TypeOK
    <3>2. /\ evidence' \in Seq(Evidence) /\ Len(evidence') \in Nat
          /\ Len(evidence') >= Len(evidence) /\ Len(evidence') # Len(evidence)
      BY <2>1, <3>1, Appended DEF TypeOK
    <3>3. /\ lock = NoProc /\ lock' = p
          /\ w' = [w EXCEPT ![p] = [w[p] EXCEPT !.pc = "step", !.ok = ok, !.ev = k]]
          /\ UNCHANGED <<task, runs, artifact, closed, closeLogged, archived, conts, lease>>
      BY <1>3, <3>2 DEF CommitStep, Free
    <3>4. \A y \in Worker, n \in Nat :
            [y EXCEPT !.pc = "step", !.ok = ok, !.ev = n] \in {z \in Worker : z.pc = "step"}
      BY ZenonT(60) DEF Worker, PCs
    <3>5. k \in Nat
      BY <1>2
    <3> HIDE DEF k
    <3>6. PICK x \in Worker : x.pc = "step" /\ w' = [w EXCEPT ![p] = x]
      BY <1>1, <3>3, <3>4, <3>5
    <3>7. x.pc \notin Batching
      BY <3>6 DEF Batching
    <3>8. w' \in [Procs -> Worker] /\ LockHeld' /\ UndoFits'
      BY <3>2, <3>3, <3>6, <3>7, StepKeeps
    <3> QED
      BY <3>2, <3>3, <3>8 DEF TypeOK
  <2>2. CASE UNCHANGED <<evidence, lock>>
    <3>1. CASE w' = [w EXCEPT ![p] = [w[p] EXCEPT !.pc = "fail", !.term = "interrupted"]]
      <4>1. PICK x \in Worker : x.pc = "fail" /\ w' = [w EXCEPT ![p] = x]
        BY <1>1, <3>1, FailType
      <4>2. x.pc \notin Holding
        BY <4>1 DEF Holding
      <4> QED
        BY <1>3, <2>2, <4>1, <4>2, WorkKeeps DEF CommitStep, TypeOK
    <3>2. CASE evidence' = Append(evidence, e)
      BY <2>1, <3>2
    <3> QED
      BY <1>3, <3>1, <3>2 DEF CommitStep
  <2> QED
    BY <1>3, <2>1, <2>2 DEF CommitStep
<1>4. ASSUME NEW io \in BOOLEAN, RecordStep(p, io) PROVE TypeInv'
  <2>1. lock = p /\ lock' = NoProc
    BY <1>2, <1>4 DEF RecordStep, At, Holding
  <2>2. runs' \in Seq(Run)
    <3>1. PICK a \in Nat, b \in Nat, c \in Nat : a = r /\ b = w[p].step /\ c = w[p].ev
      BY <1>1
    <3>2. runs' = [runs EXCEPT ![a].steps[b] = c] \/ runs' = runs
      BY <1>4, <3>1 DEF RecordStep
    <3>3. [runs EXCEPT ![a].steps[b] = c] \in Seq(Run)
      BY RunStepType DEF TypeOK
    <3> QED
      BY <3>2, <3>3 DEF TypeOK
  <2>3. \E pc \in {"fail", "complete", "verify"}, n \in Nat, term \in Terminals :
          w' = [w EXCEPT ![p] = [w[p] EXCEPT !.pc = pc, !.step = n, !.term = term]]
    <3>1. CASE w' = [w EXCEPT ![p].pc = "fail", ![p].term = "interrupted"]
      <4>1. w' = [w EXCEPT ![p] = [w[p] EXCEPT !.pc = "fail", !.step = w[p].step,
                                               !.term = "interrupted"]]
        BY <1>1, <3>1 DEF Worker
      <4> QED
        BY <1>1, <4>1 DEF Terminals
    <3>2. CASE ~(w' = [w EXCEPT ![p].pc = "fail", ![p].term = "interrupted"])
      <4> DEFINE pc == CASE ~w[p].ok -> "fail"
                         [] w[p].ok /\ w[p].step = Steps -> "complete"
                         [] OTHER -> "verify"
                 n == IF w[p].ok /\ w[p].step < Steps THEN w[p].step + 1 ELSE w[p].step
                 term == IF w[p].ok THEN "none" ELSE "failed"
      <4>1. w' = [w EXCEPT ![p] = [w[p] EXCEPT !.pc = pc, !.step = n, !.term = term]]
        BY <1>4, <3>2 DEF RecordStep
      <4>2. pc \in {"fail", "complete", "verify"} /\ n \in Nat /\ term \in Terminals
        BY <1>1 DEF Terminals
      <4> HIDE DEF pc, n, term
      <4> QED
        BY <4>1, <4>2
    <3> QED
      BY <3>1, <3>2
  <2>5. PICK x \in Worker : x.pc \in {"fail", "complete", "verify"} /\ w' = [w EXCEPT ![p] = x]
    <3>1. PICK pc \in {"fail", "complete", "verify"}, n \in Nat, term \in Terminals :
            w' = [w EXCEPT ![p] = [w[p] EXCEPT !.pc = pc, !.step = n, !.term = term]]
      BY <2>3
    <3>2. pc \in PCs
      BY DEF PCs
    <3>3. PICK y \in Worker : y = w[p]
      BY <1>1
    <3>4. /\ [y EXCEPT !.pc = pc, !.step = n, !.term = term] \in Worker
          /\ [y EXCEPT !.pc = pc, !.step = n, !.term = term].pc = pc
      BY <3>2 DEF Worker
    <3> QED
      BY <3>1, <3>3, <3>4
  <2>6. x.pc \notin Holding
    BY <2>5 DEF Holding
  <2>7. UNCHANGED <<task, evidence, artifact, closed, closeLogged, archived, conts, lease>>
    BY <1>4 DEF RecordStep
  <2>8. w' \in [Procs -> Worker] /\ LockHeld' /\ UndoFits'
    BY <2>1, <2>5, <2>6, <2>7, WorkKeeps
  <2> QED
    BY <2>1, <2>2, <2>7, <2>8 DEF TypeOK
<1>5. CASE FailRun(p)
  <2>1. CASE Return(p)
    BY <1>5, <2>1, QuietReturn DEF FailRun
  <2>2. CASE ~Return(p)
    BY <1>5, <2>2, GotoKeeps DEF FailRun, Free, Keep, TypeOK, PCs, Batching, files
  <2> QED
    BY <2>1, <2>2
<1>6. CASE FailTerminal(p)
  <2>1. runs' \in Seq(Run)
    BY <1>1, <1>6, RunTermType DEF FailTerminal, TypeOK
  <2> QED
    BY <1>6, <2>1, EndKeeps DEF FailTerminal, TypeOK
<1>7. CASE CompleteBegin(p)
  <2>1. CASE Return(p)
    BY <1>7, <2>1, QuietReturn DEF CompleteBegin
  <2>2. CASE ~Return(p)
    BY <1>7, <2>2, GotoKeeps DEF CompleteBegin, Free, Keep, TypeOK, PCs, Batching, files
  <2> QED
    BY <2>1, <2>2
<1>8. CASE Finalize(p)
  <2>1. CASE Return(p) /\ UNCHANGED runs
    BY <1>8, <2>1, EndKeeps DEF Finalize, TypeOK
  <2>2. CASE ~(Return(p) /\ UNCHANGED runs)
    <3>1. /\ runs' = [runs EXCEPT ![r].term = IF @ = "none" THEN "passed" ELSE @]
          /\ Goto(p, "commit")
          /\ UNCHANGED <<task, evidence, artifact, closed, closeLogged, archived, conts, lease, lock>>
      BY <1>8, <2>2 DEF Finalize
    <3>2. runs' \in Seq(Run)
      <4>1. \A y \in Run : [y EXCEPT !.term = IF @ = "none" THEN "passed" ELSE @] \in Run
        BY DEF Run, Terminals
      <4>2. r \in 1..Len(runs) => runs[r] \in Run
        BY ElementOfSeq DEF TypeOK
      <4> QED
        BY <1>1, <3>1, <4>1, <4>2, SeqUpdate DEF TypeOK
    <3>3. lock = p
      BY <1>2, <1>8 DEF Finalize, At, Holding
    <3>4. w' \in [Procs -> Worker] /\ LockHeld' /\ UndoFits'
      BY <3>1, <3>3, GotoKeeps DEF PCs, Batching
    <3> QED
      BY <3>1, <3>2, <3>4 DEF TypeOK
  <2> QED
    BY <2>1, <2>2
<1>9. CASE CommitRun(p)
  <2>1. task' \in [Tasks -> Row]
    BY <1>1, <1>9, DoneType DEF CommitRun, TypeOK
  <2> QED
    BY <1>9, <2>1, EndKeeps DEF CommitRun, TypeOK
<1> QED
  BY <1>3, <1>4, <1>5, <1>6, <1>7, <1>8, <1>9

\* A batch.
LEMMA TypeBatch ==
  ASSUME TypeInv, NEW p \in Procs,
         \/ \E ok \in BOOLEAN : CommitBatch(p, ok)
         \/ \E t \in Tasks : BatchEvidence(p, t) \/ BatchDone(p, t)
         \/ BatchEnd(p) \/ BatchUndo(p) \/ BatchUndoEvidence(p)
  PROVE  TypeInv'
<1> USE DEF TypeInv
<1>1. /\ w[p] \in Worker /\ w[p].began \in [Tasks -> Nat] /\ w[p].len \in Nat
      /\ w[p].ok \in BOOLEAN /\ w[p].rows \in [Tasks -> Row]
  BY DEF TypeOK, Worker
<1>2. /\ Len(evidence) \in Nat
      /\ w[p].pc \in Holding => lock = p
      /\ w[p].pc \in Batching => w[p].len <= Len(evidence)
  BY LenProperties DEF TypeOK, LockHeld, UndoFits
<1>3. ASSUME NEW ok \in BOOLEAN, CommitBatch(p, ok) PROVE TypeInv'
  <2>1. CASE Return(p)
    BY <1>3, <2>1, QuietReturn DEF CommitBatch
  <2>2. CASE ~Return(p)
    <3> DEFINE k == Len(evidence)
    <3>1. /\ lock = NoProc /\ lock' = p /\ UNCHANGED <<files, artifact, lease>>
          /\ w' = [w EXCEPT ![p] = [w[p] EXCEPT !.pc = "batchEvidence", !.ok = ok,
                                                !.rows = task, !.len = k]]
      BY <1>3, <2>2 DEF CommitBatch, Free, Keep
    <3>2. PICK y \in Worker, n \in Nat, rows \in [Tasks -> Row] :
            y = w[p] /\ n = Len(evidence) /\ rows = task
      BY <1>1, <1>2 DEF TypeOK
    <3>3. /\ [y EXCEPT !.pc = "batchEvidence", !.ok = ok, !.rows = rows, !.len = n] \in Worker
          /\ [y EXCEPT !.pc = "batchEvidence", !.ok = ok, !.rows = rows, !.len = n].len = n
      BY DEF Worker, PCs
    <3>4. PICK x \in Worker : x.len = Len(evidence) /\ w' = [w EXCEPT ![p] = x]
      BY <3>1, <3>2, <3>3
    <3>5. Len(evidence') \in Nat /\ Len(evidence') >= Len(evidence) /\ x.len <= Len(evidence')
      BY <1>2, <3>1, <3>4 DEF files
    <3>6. w' \in [Procs -> Worker] /\ LockHeld' /\ UndoFits'
      BY <3>1, <3>4, <3>5, StepKeeps
    <3> QED
      BY <3>1, <3>6 DEF TypeOK, files
  <2> QED
    BY <2>1, <2>2
<1>4. ASSUME NEW t \in Tasks, BatchEvidence(p, t) PROVE TypeInv'
  <2>1. w[p].began[t] \in Nat
    BY <1>1
  <2>2. Entry(t, "observed", w[p].ok, 0, 0, 0, w[p].began[t]) \in Evidence
    BY <1>1, <2>1, EntryType DEF TypeOK
  <2>3. /\ evidence' \in Seq(Evidence) /\ Len(evidence') \in Nat
        /\ Len(evidence') >= Len(evidence)
    BY <1>4, <2>2, Appended DEF BatchEvidence, TypeOK
  <2>4. lock = p /\ w[p].len <= Len(evidence) /\ w[p].len <= Len(evidence')
    BY <1>1, <1>2, <1>4, <2>3 DEF BatchEvidence, At, Holding, Batching
  <2>5. UNCHANGED <<task, runs, artifact, closed, closeLogged, archived, conts>>
    BY <1>4 DEF BatchEvidence
  <2>6. CASE Return(p)
    BY <2>3, <2>5, <2>6, ReturnKeeps DEF TypeOK
  <2>7. CASE Goto(p, "batchDone") /\ UNCHANGED <<lease, lock>>
    <3>1. PICK y \in Worker : y = w[p]
      BY <1>1
    <3>2. /\ [y EXCEPT !.pc = "batchDone"] \in Worker
          /\ [y EXCEPT !.pc = "batchDone"].len = y.len
      BY DEF Worker, PCs
    <3>3. PICK x \in Worker : x.len = w[p].len /\ w' = [w EXCEPT ![p] = x]
      BY <2>7, <3>1, <3>2 DEF Goto
    <3>4. w' \in [Procs -> Worker] /\ LockHeld' /\ UndoFits'
      BY <2>3, <2>4, <2>7, <3>3, StepKeeps
    <3> QED
      BY <2>3, <2>5, <2>7, <3>4 DEF TypeOK
  <2>8. CASE UNCHANGED <<lease, lock, w>>
    <3>1. LockHeld' /\ UndoFits'
      BY <2>3, <2>8, OperatorKeeps
    <3> QED
      BY <2>3, <2>5, <2>8, <3>1 DEF TypeOK
  <2> QED
    BY <1>4, <2>6, <2>7, <2>8 DEF BatchEvidence
<1>5. ASSUME NEW t \in Tasks, BatchDone(p, t) PROVE TypeInv'
  <2>1. task' \in [Tasks -> Row]
    BY <1>5, DoneType DEF BatchDone, TypeOK
  <2> QED
    BY <1>2, <1>5, <2>1, OperatorKeeps DEF BatchDone, TypeOK
<1>6. CASE BatchEnd(p)
  BY <1>6, QuietReturn DEF BatchEnd
<1>7. CASE BatchUndo(p)
  <2>1. lock = p /\ w[p].pc \in Batching
    BY <1>2, <1>7 DEF BatchUndo, Holding, Batching
  <2> QED
    BY <1>1, <1>7, <2>1, GotoKeeps DEF BatchUndo, TypeOK, PCs, Batching
<1>8. CASE BatchUndoEvidence(p)
  <2>1. lock = p /\ w[p].len <= Len(evidence)
    BY <1>2, <1>8 DEF BatchUndoEvidence, At, Holding, Batching
  <2>2. \A i \in 1..w[p].len : evidence[i] \in Evidence
    BY <1>1, <1>2, <2>1, ElementOfSeq DEF TypeOK
  <2>3. evidence' \in Seq(Evidence) /\ Len(evidence') \in Nat
    BY <1>1, <1>8, <2>2, SubSeqProperties, LenProperties DEF BatchUndoEvidence
  <2> QED
    BY <1>8, <2>1, <2>3, ReturnKeeps DEF BatchUndoEvidence, TypeOK
<1> QED
  BY <1>3, <1>4, <1>5, <1>6, <1>7, <1>8

\* The close, with and without carry-open.
LEMMA TypeClose ==
  ASSUME TypeInv, NEW p \in Procs,
         \/ CarryRows(p) \/ CarryClose(p)
         \/ \E io \in BOOLEAN : ClosePlan(p, io) \/ CloseEvent(p, io)
  PROVE  TypeInv'
<1> USE DEF TypeInv
<1>1. /\ w[p] \in Worker /\ w[p].rows \in [Tasks -> Row]
      /\ w[p].pc \in Holding => lock = p
  BY DEF TypeOK, Worker, LockHeld
<1>2. CASE CarryRows(p)
  <2>1. task' \in [Tasks -> Row]
    BY <1>2, CarriedType DEF CarryRows, TypeOK
  <2>2. lock = p
    BY <1>1, <1>2 DEF CarryRows, Holding
  <2>3. CASE Return(p)
    BY <1>2, <2>1, <2>3, EndKeeps DEF CarryRows, TypeOK
  <2>4. CASE ~Return(p)
    BY <1>2, <2>1, <2>2, <2>4, GotoKeeps DEF CarryRows, TypeOK, PCs, Batching
  <2> QED
    BY <2>3, <2>4
<1>3. CASE CarryClose(p)
  <2>1. CASE Return(p) /\ Keep /\ UNCHANGED artifact
    BY <2>1, QuietReturn
  <2>2. CASE MarkClosed(p, w[p].rows)
    <3>1. lock = p
      BY <1>1, <1>3 DEF CarryClose, At, Holding
    <3>2. /\ lock' = p /\ closed' \in BOOLEAN
          /\ UNCHANGED <<task, evidence, runs, artifact, closeLogged, archived, conts, lease>>
      BY <2>2 DEF MarkClosed
    <3>3. PICK y \in Worker, rows \in [Tasks -> Row] : y = w[p] /\ rows = w[p].rows
      BY <1>1
    <3>4. /\ [y EXCEPT !.pc = "closing", !.rows = rows] \in Worker
          /\ [y EXCEPT !.pc = "closing", !.rows = rows].pc = "closing"
      BY DEF Worker, PCs
    <3>5. PICK x \in Worker : x.pc = "closing" /\ w' = [w EXCEPT ![p] = x]
      BY <2>2, <3>3, <3>4 DEF MarkClosed
    <3>6. x.pc \notin Batching
      BY <3>5 DEF Batching
    <3>7. w' \in [Procs -> Worker] /\ LockHeld' /\ UndoFits'
      BY <3>1, <3>2, <3>5, <3>6, HandlerKeeps
    <3> QED
      BY <3>2, <3>7 DEF TypeOK
  <2> QED
    BY <1>3, <2>1, <2>2 DEF CarryClose
<1>4. ASSUME NEW io \in BOOLEAN, ClosePlan(p, io) PROVE TypeInv'
  <2>1. /\ task' \in [Tasks -> Row] /\ closed' \in BOOLEAN
        /\ UNCHANGED <<evidence, runs, artifact, closeLogged, archived, conts>>
    BY <1>1, <1>4 DEF ClosePlan, TypeOK
  <2>2. lock = p
    BY <1>1, <1>4 DEF ClosePlan, At, Holding
  <2>3. CASE Return(p)
    BY <2>1, <2>3, EndKeeps DEF TypeOK
  <2>4. CASE ~Return(p)
    BY <1>4, <2>1, <2>2, <2>4, GotoKeeps DEF ClosePlan, TypeOK, PCs, Batching
  <2> QED
    BY <2>3, <2>4
<1>5. ASSUME NEW io \in BOOLEAN, CloseEvent(p, io) PROVE TypeInv'
  BY <1>5, EndKeeps DEF CloseEvent, TypeOK
<1> QED
  BY <1>2, <1>3, <1>4, <1>5

\* Steps by nobody, and steps that change nothing.
LEMMA TypeRest ==
  ASSUME TypeInv, (\E t \in Tasks : LoseLease(t)) \/ UNCHANGED vars
  PROVE  TypeInv'
<1> USE DEF TypeInv
<1>1. Len(evidence) \in Nat
  BY LenProperties DEF TypeOK
<1>2. ASSUME NEW t \in Tasks, LoseLease(t) PROVE TypeInv'
  BY <1>1, <1>2, OperatorKeeps DEF LoseLease, TypeOK, files
<1>3. CASE UNCHANGED vars
  BY <1>1, <1>3, OperatorKeeps DEF vars, TypeOK
<1> QED
  BY <1>2, <1>3

\* Every step of every process preserves the types and the lock discipline.
THEOREM TypeStep == TypeInv /\ [Next]_vars => TypeInv'
<1> SUFFICES ASSUME TypeInv, [Next]_vars PROVE TypeInv'
  OBVIOUS
<1>1. ASSUME NEW p \in Procs, Continue(p) PROVE TypeInv'
  BY <1>1, TypeCommand, TypeSingle, TypeRunStart, TypeRunSteps, TypeBatch, TypeClose DEF Continue
<1>2. ASSUME NEW p \in Procs, Begin(p) \/ Crash(p) PROVE TypeInv'
  BY <1>2, TypeCommand
<1> QED
  BY <1>1, <1>2, TypeOperator, TypeRest DEF Next

\* Every value has its type, however many processes, tasks and steps there are, and a
\* handler that is between two writes holds the session lock (withSessionLock).
THEOREM TypeCorrect == Spec => []TypeOK
<1>1. TypeInv => TypeOK
  BY DEF TypeInv
<1> QED
  BY <1>1, TypeInit, TypeStep, PTL DEF Spec

-----------------------------------------------------------------------------
(* The verification runs: only the latest run of a task is open, no evidence *)
(* is stranded, every step record names the evidence it stands for, and what *)
(* was recorded is never rewritten. The invariant says what a process may    *)
(* rely on between its steps: the run it found is the latest while it holds  *)
(* the session lock, and the steps it has not run yet are in nobody's        *)
(* evidence.                                                                 *)

\* The process runs, or files, a step of its own run.
Stepping(p) == \/ w[p].pc \in {"verify", "running"} /\ w[p].mode = "multi"
               \/ w[p].pc = "step"

\* The run found by prepareVerificationRun is the latest while the lock is held.
LatestAtHand ==
  \A p \in Procs : w[p].pc = "reconcile" =>
    w[p].run \in 0..Len(runs) /\ IsLatestRun(w[p].t, w[p].run)

\* Tagged evidence belongs to its run.
EvidenceOfRun ==
  \A i \in 1..Len(evidence) : evidence[i].run # 0 =>
    /\ evidence[i].run \in 1..Len(runs) /\ evidence[i].step \in 1..Steps
    /\ evidence[i].task = runs[evidence[i].run].task
    /\ evidence[i].attempt = runs[evidence[i].run].attempt

\* Nobody else steps through the run of p, and its next step has no evidence yet.
StepsInOrder ==
  \A p \in Procs : Stepping(p) =>
    /\ w[p].run \in 1..Len(runs) /\ w[p].step \in 1..Steps
    /\ \A q \in Procs : Stepping(q) /\ w[q].run = w[p].run => q = p
    /\ \A i \in 1..Len(evidence) : evidence[i].run = w[p].run =>
         IF w[p].pc = "step" THEN evidence[i].step <= w[p].step ELSE evidence[i].step < w[p].step

\* Between the two writes of a step: the evidence is there, its record is not.
StepHalfDone ==
  \A p \in Procs : w[p].pc = "step" =>
    /\ w[p].ev \in 1..Len(evidence)
    /\ evidence[w[p].ev].run = w[p].run /\ evidence[w[p].ev].step = w[p].step
    /\ runs[w[p].run].term = "none" /\ runs[w[p].run].steps[w[p].step] = 0

FailsOnly == \A p \in Procs : w[p].pc \in {"fail", "failing"} => w[p].term \in {"failed", "interrupted"}

\* A batch that may be undone has put nothing in the ledger that a run refers to.
BatchIsUntagged ==
  \A p \in Procs : w[p].pc \in Batching =>
    /\ \A i \in 1..Len(evidence) : i > w[p].len => evidence[i].run = 0
    /\ \A r \in 1..Len(runs), s \in 1..Steps : runs[r].steps[s] <= w[p].len

RunInv == /\ TypeInv
          /\ OnlyLatestRunIsOpen /\ NoStrandedEvidence /\ RunsAreCoherent
          /\ LatestAtHand /\ EvidenceOfRun /\ StepsInOrder /\ StepHalfDone
          /\ FailsOnly /\ BatchIsUntagged

-----------------------------------------------------------------------------
(* Steps that leave the run ledger alone.                                   *)

Plain == PCs \ (Batching \cup {"reconcile", "verify", "running", "step", "fail", "failing"})

\* What a step may make of process q without touching the ledgers.
Steady(q) == \/ w'[q] = w[q]
             \/ w'[q].pc \in Plain
             \/ w'[q].pc \in Batching /\ w[q].pc \in Batching /\ w'[q].len = w[q].len

Moves(q) ==
  \/ Steady(q)
  \/ w'[q].pc = "reconcile" /\ w'[q].run \in 0..Len(runs) /\ IsLatestRun(w'[q].t, w'[q].run)
  \/ w'[q].pc \in {"fail", "failing"} /\ w'[q].term \in {"failed", "interrupted"}
  \/ w'[q].pc = "verify" /\ w'[q].mode # "multi"
  \/ /\ w'[q].pc = "running" /\ w[q].pc = "verify" /\ w'[q].mode = w[q].mode
     /\ w'[q].run = w[q].run /\ w'[q].step = w[q].step
  \/ w'[q].pc = "batchEvidence" /\ w'[q].len = Len(evidence)

\* The ledgers are finite.
LEMMA Lengths ==
  ASSUME TypeOK
  PROVE  Len(evidence) \in Nat /\ Len(runs) \in Nat
  BY LenProperties DEF TypeOK

\* A step record points into the ledger.
LEMMA StepsPointBack ==
  ASSUME RunInv, NEW r \in 1..Len(runs), NEW s \in 1..Steps
  PROVE  runs[r].steps[s] \in Nat /\ (runs[r].steps[s] # 0 => runs[r].steps[s] \in 1..Len(evidence))
<1>1. Len(evidence) \in Nat
  BY Lengths DEF RunInv, TypeInv
<1>2. runs[r] \in Run
  BY ElementOfSeq DEF RunInv, TypeInv, TypeOK
<1>3. runs[r].steps[s] \in Nat
  BY <1>2 DEF Run
<1>4. runs[r].steps[s] # 0 => runs[r].steps[s] <= Len(evidence)
  BY DEF RunInv, RunsAreCoherent
<1> QED
  BY <1>1, <1>3, <1>4

\* What Append leaves in place.
LEMMA AppendedAt ==
  ASSUME TypeOK, NEW e \in Evidence, evidence' = Append(evidence, e)
  PROVE  /\ Len(evidence') = Len(evidence) + 1
         /\ \A i \in 1..Len(evidence) : evidence'[i] = evidence[i]
         /\ evidence'[Len(evidence) + 1] = e
         /\ \A i \in 1..Len(evidence') : i \in 1..Len(evidence) \/ i = Len(evidence) + 1
<1>1. Len(evidence) \in Nat
  BY Lengths
<1>2. Len(evidence') = Len(evidence) + 1
  BY DEF TypeOK
<1>3. \A i \in 1..Len(evidence') : i \in 1..Len(evidence) \/ i = Len(evidence) + 1
  BY <1>1, <1>2
<1> QED
  BY <1>2, <1>3 DEF TypeOK

\* A step that writes neither ledger preserves the invariant.
LEMMA MovesKeep ==
  ASSUME RunInv, TypeInv', UNCHANGED <<evidence, runs>>, \A q \in Procs : Moves(q)
  PROVE  RunInv'
<1> USE DEF RunInv
<1>1. Len(evidence) \in Nat /\ Len(runs) \in Nat
  BY Lengths DEF TypeInv
<1>2. OnlyLatestRunIsOpen'
  BY DEF OnlyLatestRunIsOpen
<1>3. NoStrandedEvidence'
  BY DEF NoStrandedEvidence, HasOrphan, Orphan
<1>4. RunsAreCoherent'
  BY DEF RunsAreCoherent, CompleteRun
<1>5. LatestAtHand'
  BY DEF LatestAtHand, IsLatestRun, Moves, Steady, Plain, Batching
<1>6. EvidenceOfRun'
  BY DEF EvidenceOfRun
<1>7. ASSUME NEW q \in Procs, Stepping(q)'
      PROVE  /\ Stepping(q) /\ w'[q].run = w[q].run /\ w'[q].step = w[q].step
             /\ w'[q].pc = "step" => w'[q] = w[q]
             /\ w[q].pc = "step" => w'[q].pc = "step"
  BY <1>7 DEF Stepping, Moves, Steady, Plain, Batching
<1>8. StepsInOrder'
  BY <1>7 DEF StepsInOrder
<1>9. StepHalfDone'
  BY <1>7 DEF StepHalfDone, Stepping
<1>10. FailsOnly'
  BY DEF FailsOnly, Moves, Steady, Plain, Batching
<1>11. \A r \in 1..Len(runs), s \in 1..Steps : runs[r].steps[s] <= Len(evidence)
  BY <1>1, StepsPointBack
<1>12. BatchIsUntagged'
  BY <1>1, <1>11, SMTT(30) DEF BatchIsUntagged, Moves, Steady, Plain, Batching
<1> QED
  BY <1>2, <1>3, <1>4, <1>5, <1>6, <1>8, <1>9, <1>10, <1>12

\* Evidence outside any run does not disturb the runs.
LEMMA UntaggedKeeps ==
  ASSUME RunInv, TypeInv', UNCHANGED runs, \A q \in Procs : Steady(q),
         NEW e \in Evidence, evidence' = Append(evidence, e), e.run = 0
  PROVE  RunInv'
<1> USE DEF RunInv
<1>1. Len(evidence) \in Nat /\ Len(runs) \in Nat
  BY Lengths DEF TypeInv
<1>2. /\ Len(evidence') = Len(evidence) + 1
      /\ \A i \in 1..Len(evidence) : evidence'[i] = evidence[i]
      /\ evidence'[Len(evidence) + 1] = e
      /\ \A i \in 1..Len(evidence') : i \in 1..Len(evidence) \/ i = Len(evidence) + 1
  BY AppendedAt DEF TypeInv
<1>3. \A i \in 1..Len(evidence') : evidence'[i].run # 0 =>
        i \in 1..Len(evidence) /\ evidence'[i] = evidence[i]
  BY <1>2
<1>4. \A r \in 1..Len(runs) : CompleteRun(r)' <=> CompleteRun(r)
  <2>1. ASSUME NEW r \in 1..Len(runs), NEW s \in 1..Steps
        PROVE  runs[r].steps[s] \in 1..Len(evidence') <=> runs[r].steps[s] \in 1..Len(evidence)
    <3>1. runs[r].steps[s] # 0 => runs[r].steps[s] <= Len(evidence)
      BY DEF RunsAreCoherent
    <3> QED
      BY <1>1, <1>2, <3>1
  <2> QED
    BY <1>2, <2>1 DEF CompleteRun
<1>5. OnlyLatestRunIsOpen'
  BY DEF OnlyLatestRunIsOpen
<1>6. NoStrandedEvidence'
  <2>1. ASSUME NEW r \in 1..Len(runs), HasOrphan(r)' PROVE HasOrphan(r)
    BY <1>1, <1>3, <2>1 DEF HasOrphan, Orphan
  <2> QED
    BY <2>1 DEF NoStrandedEvidence
<1>7. RunsAreCoherent'
  BY <1>1, <1>2, <1>4, StepsPointBack, SMTT(30) DEF RunsAreCoherent
<1>8. LatestAtHand'
  BY DEF LatestAtHand, IsLatestRun, Steady, Plain, Batching
<1>9. EvidenceOfRun'
  BY <1>3 DEF EvidenceOfRun
<1>10. ASSUME NEW q \in Procs, Stepping(q)' PROVE Stepping(q) /\ w'[q] = w[q]
  BY <1>10 DEF Stepping, Steady, Plain, Batching
<1>11. StepsInOrder'
  <2>1. \A q \in Procs : Stepping(q) => w[q].run # 0
    BY <1>1 DEF StepsInOrder
  <2> QED
    BY <1>3, <1>10, <2>1, SMTT(30) DEF StepsInOrder
<1>12. StepHalfDone'
  <2>1. ASSUME NEW q \in Procs, w'[q].pc = "step"
        PROVE  w'[q] = w[q] /\ w[q].pc = "step"
    BY <1>10, <2>1 DEF Stepping
  <2> QED
    BY <1>1, <1>2, <2>1, SMTT(30) DEF StepHalfDone
<1>13. FailsOnly'
  BY DEF FailsOnly, Steady, Plain, Batching
<1>14. BatchIsUntagged'
  BY <1>3 DEF BatchIsUntagged, Steady, Plain, Batching
<1> QED
  BY <1>5, <1>6, <1>7, <1>8, <1>9, <1>11, <1>12, <1>13, <1>14

\* The first write of a step.
LEMMA StepEvidenceKeeps ==
  ASSUME RunInv, TypeInv', NEW p \in Procs, NEW ok \in BOOLEAN, CommitStep(p, ok),
         evidence' # evidence
  PROVE  RunInv'
<1> USE DEF RunInv
<1> DEFINE t == w[p].t
           r == w[p].run
<1>1. Len(evidence) \in Nat /\ Len(runs) \in Nat
  BY Lengths DEF TypeInv
<1>2. PICK e \in Evidence : /\ evidence' = Append(evidence, e)
                            /\ e.task = t /\ e.attempt = task[t].attempt
                            /\ e.run = r /\ e.step = w[p].step
  <2>1. w[p] \in Worker
    BY DEF TypeInv, TypeOK
  <2>2. t \in Tasks /\ r \in Nat /\ w[p].step \in Nat /\ w[p].began \in [Tasks -> Nat]
    BY <2>1 DEF Worker
  <2>3. w[p].began[t] \in Nat
    BY <2>2
  <2>4. Entry(t, "observed", ok, r, w[p].step, 0, w[p].began[t]) \in Evidence
    BY <2>2, <2>3, EntryType DEF TypeInv, TypeOK
  <2>5. evidence' = Append(evidence, Entry(t, "observed", ok, r, w[p].step, 0, w[p].began[t]))
    BY DEF CommitStep
  <2> QED
    BY <2>4, <2>5 DEF Entry
<1>3. /\ w[p].pc = "running" /\ w[p].mode = "multi" /\ lock = NoProc
      /\ StepCurrent(t, r) /\ UNCHANGED runs
      /\ w' = [w EXCEPT ![p] = [w[p] EXCEPT !.pc = "step", !.ok = ok, !.ev = Len(evidence) + 1]]
  BY DEF CommitStep, At, Free
<1>4. /\ w'[p].pc = "step" /\ w'[p].ev = Len(evidence) + 1
      /\ w'[p].run = r /\ w'[p].step = w[p].step
      /\ \A q \in Procs : q # p => w'[q] = w[q]
  <2>1. w[p] \in Worker /\ w \in [Procs -> Worker]
    BY DEF TypeInv, TypeOK
  <2>2. PICK y \in Worker : y = w[p]
    BY <2>1
  <2>3. w'[p] = [y EXCEPT !.pc = "step", !.ok = ok, !.ev = Len(evidence) + 1]
    BY <1>3, <2>1, <2>2
  <2>4. /\ w'[p].pc = "step" /\ w'[p].ev = Len(evidence) + 1
        /\ w'[p].run = y.run /\ w'[p].step = y.step
    BY <2>3 DEF Worker
  <2> QED
    BY <1>3, <2>1, <2>2, <2>4
<1>5. /\ Len(evidence') = Len(evidence) + 1
      /\ \A i \in 1..Len(evidence) : evidence'[i] = evidence[i]
      /\ evidence'[Len(evidence) + 1] = e
      /\ \A i \in 1..Len(evidence') : i \in 1..Len(evidence) \/ i = Len(evidence) + 1
  BY <1>2, AppendedAt DEF TypeInv
<1>6. \A i \in 1..Len(evidence') :
        \/ i \in 1..Len(evidence) /\ evidence'[i] = evidence[i]
        \/ i = Len(evidence) + 1 /\ evidence'[i] = e
  BY <1>5
<1>7. r \in 1..Len(runs) /\ w[p].step \in 1..Steps /\ Stepping(p)
  BY <1>3 DEF StepsInOrder, Stepping
<1>8. runs[r].task = t /\ runs[r].attempt = task[t].attempt /\ runs[r].term = "none"
  BY <1>1, <1>3, <1>7 DEF StepCurrent, IsLatestRun
<1>9. \A q \in Procs : w[q].pc \notin Holding
  BY <1>3, ProcsAssumption DEF TypeInv, LockHeld
<1>10. ASSUME NEW n \in 1..Len(runs), NEW s \in 1..Steps, runs[n].steps[s] # 0
       PROVE  runs[n].steps[s] \in 1..Len(evidence)
  BY <1>10, StepsPointBack
<1>11. OnlyLatestRunIsOpen'
  BY <1>3 DEF OnlyLatestRunIsOpen
<1>12. NoStrandedEvidence'
  <2>1. ASSUME NEW n \in 1..Len(runs), runs[n].term # "none", HasOrphan(n)' PROVE HasOrphan(n)
    <3>1. PICK i \in 1..Len(evidence') : evidence'[i].run = n /\ runs[n].steps[evidence'[i].step] = 0
      BY <1>3, <2>1 DEF HasOrphan, Orphan
    <3>2. i \in 1..Len(evidence) /\ evidence'[i] = evidence[i]
      BY <1>2, <1>6, <1>8, <2>1, <3>1
    <3> QED
      BY <1>1, <3>1, <3>2 DEF HasOrphan, Orphan
  <2> QED
    BY <1>3, <2>1 DEF NoStrandedEvidence
<1>13. RunsAreCoherent'
  <2>1. ASSUME NEW n \in 1..Len(runs), CompleteRun(n) PROVE CompleteRun(n)'
    BY <1>1, <1>3, <1>5, <2>1 DEF CompleteRun
  <2> QED
    BY <1>1, <1>3, <1>5, <1>10, <2>1 DEF RunsAreCoherent
<1>14. LatestAtHand'
  BY <1>3, <1>4 DEF LatestAtHand, IsLatestRun
<1>15. EvidenceOfRun'
  BY <1>2, <1>3, <1>6, <1>7, <1>8 DEF EvidenceOfRun
<1>16. ASSUME NEW q \in Procs, Stepping(q)'
       PROVE  /\ Stepping(q) /\ w'[q].run = w[q].run /\ w'[q].step = w[q].step
              /\ q # p => w'[q] = w[q] /\ w[q].run # r
  BY <1>4, <1>7, <1>16 DEF Stepping, StepsInOrder
<1>17. StepsInOrder'
  <2>1. ASSUME NEW q \in Procs, Stepping(q)', NEW i \in 1..Len(evidence'),
               evidence'[i].run = w'[q].run
        PROVE  IF w'[q].pc = "step" THEN evidence'[i].step <= w'[q].step
                                    ELSE evidence'[i].step < w'[q].step
    <3>1. CASE i \in 1..Len(evidence) /\ evidence'[i] = evidence[i]
      <4>0. evidence[i] \in Evidence /\ w[q] \in Worker
        BY <3>1, ElementOfSeq DEF TypeInv, TypeOK
      <4>1. evidence[i].step \in Nat /\ w[q].step \in Nat
        BY <4>0 DEF Evidence, Worker
      <4>2. IF w[q].pc = "step" THEN evidence[i].step <= w[q].step ELSE evidence[i].step < w[q].step
        BY <1>16, <2>1, <3>1 DEF StepsInOrder
      <4> QED
        BY <1>4, <1>16, <2>1, <3>1, <4>1, <4>2
    <3>2. CASE i = Len(evidence) + 1 /\ evidence'[i] = e
      <4>1. q = p
        BY <1>2, <1>16, <2>1, <3>2
      <4> QED
        BY <1>2, <1>4, <1>7, <3>2, <4>1
    <3> QED
      BY <1>6, <3>1, <3>2
  <2> QED
    BY <1>3, <1>7, <1>16, <2>1 DEF StepsInOrder
<1>18. StepHalfDone'
  <2>1. runs[r].steps[w[p].step] = 0
    <3>1. SUFFICES ASSUME runs[r].steps[w[p].step] # 0 PROVE FALSE
      OBVIOUS
    <3>2. PICK i \in 1..Len(evidence) : evidence[i].run = r /\ evidence[i].step = w[p].step
      BY <1>7, <1>10, <3>1, ZenonT(60) DEF RunsAreCoherent
    <3>3. evidence[i].step < w[p].step
      BY <1>3, <1>7, <3>2 DEF StepsInOrder
    <3> QED
      BY <1>7, <3>2, <3>3
  <2>2. \A q \in Procs : w'[q].pc = "step" => q = p
    BY <1>4, <1>9 DEF Holding
  <2>3. /\ w'[p].ev \in 1..Len(evidence')
        /\ evidence'[w'[p].ev].run = w'[p].run /\ evidence'[w'[p].ev].step = w'[p].step
    BY <1>1, <1>2, <1>4, <1>5
  <2>4. runs'[w'[p].run].term = "none" /\ runs'[w'[p].run].steps[w'[p].step] = 0
    BY <1>3, <1>4, <1>8, <2>1
  <2> QED
    BY <2>2, <2>3, <2>4 DEF StepHalfDone
<1>19. FailsOnly'
  BY <1>4 DEF FailsOnly
<1>20. BatchIsUntagged'
  BY <1>4, <1>9 DEF BatchIsUntagged, Batching, Holding
<1> QED
  BY <1>11, <1>12, <1>13, <1>14, <1>15, <1>17, <1>18, <1>19, <1>20

\* Restoring the evidence file of a failed batch takes nothing a run refers to.
LEMMA UndoKeeps ==
  ASSUME RunInv, TypeInv', NEW p \in Procs, BatchUndoEvidence(p)
  PROVE  RunInv'
<1> USE DEF RunInv
<1> DEFINE n == w[p].len
<1>1. /\ Len(evidence) \in Nat /\ Len(runs) \in Nat
      /\ w[p].pc = "batchUndo" /\ lock = p /\ n \in Nat /\ n <= Len(evidence)
  <2>1. w[p].pc = "batchUndo" /\ w[p] \in Worker
    BY DEF BatchUndoEvidence, At, TypeInv, TypeOK
  <2>2. lock = p /\ n <= Len(evidence)
    BY <2>1 DEF TypeInv, LockHeld, UndoFits, Holding, Batching
  <2> QED
    BY <2>1, <2>2, Lengths DEF TypeInv, Worker
<1>2. /\ Len(evidence') = n
      /\ \A i \in 1..n : i \in 1..Len(evidence) /\ evidence'[i] = evidence[i]
  <2>1. \A i \in 1..n : i \in 1..Len(evidence) /\ evidence[i] \in Evidence
    BY <1>1, ElementOfSeq DEF TypeInv, TypeOK
  <2>2. evidence' = SubSeq(evidence, 1, n)
    BY DEF BatchUndoEvidence
  <2> HIDE DEF n
  <2>3. /\ Len(SubSeq(evidence, 1, n)) = n
        /\ \A i \in 1..n : SubSeq(evidence, 1, n)[i] = evidence[i]
    BY <1>1, <2>1, SubSeqProperties
  <2> QED
    BY <2>1, <2>2, <2>3
<1>3. UNCHANGED runs /\ w' = [w EXCEPT ![p] = Idle]
  BY DEF BatchUndoEvidence, Return
<1>4. /\ w'[p].pc = "idle" /\ \A q \in Procs : q # p => w'[q] = w[q]
      /\ \A q \in Procs : w[q].pc \in Holding => q = p
  BY <1>1, <1>3 DEF TypeInv, TypeOK, LockHeld, Idle
<1>5. \A r \in 1..Len(runs), s \in 1..Steps : runs[r].steps[s] <= n
  BY <1>1 DEF BatchIsUntagged, Batching
<1>6. ASSUME NEW r \in 1..Len(runs), NEW s \in 1..Steps
      PROVE  /\ runs[r].steps[s] # 0 => runs[r].steps[s] \in 1..n
             /\ runs[r].steps[s] \in 1..n <=> runs[r].steps[s] \in 1..Len(evidence)
  BY <1>1, <1>5, StepsPointBack
<1> HIDE DEF n
<1>7. \A r \in 1..Len(runs) : CompleteRun(r)' <=> CompleteRun(r)
  BY <1>2, <1>3, <1>6 DEF CompleteRun
<1>8. OnlyLatestRunIsOpen'
  BY <1>3 DEF OnlyLatestRunIsOpen
<1>9. NoStrandedEvidence'
  BY <1>2, <1>3 DEF NoStrandedEvidence, HasOrphan, Orphan
<1>10. RunsAreCoherent'
  BY <1>2, <1>3, <1>6, <1>7, SMTT(30) DEF RunsAreCoherent
<1>11. LatestAtHand'
  BY <1>3, <1>4 DEF LatestAtHand, IsLatestRun
<1>12. EvidenceOfRun'
  BY <1>2, <1>3 DEF EvidenceOfRun
<1>13. ASSUME NEW q \in Procs, Stepping(q)'
       PROVE  Stepping(q) /\ w'[q] = w[q] /\ w[q].pc # "step"
  BY <1>1, <1>4, <1>13 DEF Stepping, Holding
<1>14. StepsInOrder'
  BY <1>2, <1>3, <1>13 DEF StepsInOrder
<1>15. StepHalfDone'
  BY <1>13 DEF StepHalfDone, Stepping
<1>16. FailsOnly'
  BY <1>4 DEF FailsOnly
<1>17. BatchIsUntagged'
  BY <1>4 DEF BatchIsUntagged, Batching, Holding
<1> QED
  BY <1>8, <1>9, <1>10, <1>11, <1>12, <1>14, <1>15, <1>16, <1>17

-----------------------------------------------------------------------------
(* Steps that write the run ledger.                                         *)

\* What a terminal record leaves in place.
LEMMA TermSet ==
  ASSUME TypeOK, NEW r \in 1..Len(runs), NEW x \in Terminals,
         runs' = [runs EXCEPT ![r].term = x]
  PROVE  /\ Len(runs') = Len(runs) /\ runs'[r].term = x
         /\ \A n \in 1..Len(runs) :
              /\ n # r => runs'[n] = runs[n]
              /\ runs'[n].task = runs[n].task /\ runs'[n].attempt = runs[n].attempt
              /\ runs'[n].steps = runs[n].steps
<1>1. runs \in Seq(Run) /\ runs[r] \in Run
  BY ElementOfSeq DEF TypeOK
<1>2. PICK y \in Run : y = runs[r]
  BY <1>1
<1>3. /\ [y EXCEPT !.term = x] \in Run /\ [y EXCEPT !.term = x].term = x
      /\ [y EXCEPT !.term = x].task = y.task /\ [y EXCEPT !.term = x].attempt = y.attempt
      /\ [y EXCEPT !.term = x].steps = y.steps
  BY DEF Run
<1>4. PICK z \in Run : z = [y EXCEPT !.term = x]
  BY <1>3
<1>5. runs' = [runs EXCEPT ![r] = z]
  BY <1>2, <1>4
<1>6. Len(runs') = Len(runs) /\ \A n \in 1..Len(runs) : runs'[n] = IF n = r THEN z ELSE runs[n]
  BY <1>1, <1>5, ExceptSeq
<1> QED
  BY <1>2, <1>3, <1>4, <1>6

\* What a step record leaves in place.
LEMMA StepSet ==
  ASSUME TypeOK, NEW r \in 1..Len(runs), NEW s \in 1..Steps, NEW e \in Nat,
         runs' = [runs EXCEPT ![r].steps[s] = e]
  PROVE  /\ Len(runs') = Len(runs)
         /\ \A n \in 1..Len(runs) :
              /\ runs'[n].task = runs[n].task /\ runs'[n].attempt = runs[n].attempt
              /\ runs'[n].term = runs[n].term
              /\ \A u \in 1..Steps :
                   runs'[n].steps[u] = IF n = r /\ u = s THEN e ELSE runs[n].steps[u]
<1>1. runs \in Seq(Run) /\ runs[r] \in Run
  BY ElementOfSeq DEF TypeOK
<1>2. PICK y \in Run : y = runs[r]
  BY <1>1
<1>3. /\ [y EXCEPT !.steps[s] = e] \in Run
      /\ [y EXCEPT !.steps[s] = e].task = y.task /\ [y EXCEPT !.steps[s] = e].attempt = y.attempt
      /\ [y EXCEPT !.steps[s] = e].term = y.term
      /\ \A u \in 1..Steps : [y EXCEPT !.steps[s] = e].steps[u] = IF u = s THEN e ELSE y.steps[u]
  BY DEF Run
<1>4. PICK z \in Run : z = [y EXCEPT !.steps[s] = e]
  BY <1>3
<1>5. runs' = [runs EXCEPT ![r] = z]
  BY <1>2, <1>4
<1>6. Len(runs') = Len(runs) /\ \A n \in 1..Len(runs) : runs'[n] = IF n = r THEN z ELSE runs[n]
  BY <1>1, <1>5, ExceptSeq, SMTT(30)
<1> QED
  BY <1>2, <1>3, <1>4, <1>6

\* While p holds the session lock no other process is between two writes.
LEMMA Alone ==
  ASSUME TypeInv, NEW p \in Procs, lock = p
  PROVE  \A q \in Procs : w[q].pc \in Holding => q = p
  BY DEF TypeInv, LockHeld

\* A terminal record for an open run without orphans.
LEMMA TermKeeps ==
  ASSUME RunInv, TypeInv', NEW p \in Procs, lock = p, w[p].pc # "step",
         UNCHANGED evidence, \A q \in Procs : Steady(q),
         NEW r \in 1..Len(runs), NEW x \in Terminals \ {"none"},
         runs' = [runs EXCEPT ![r].term = x],
         runs[r].term = "none", ~HasOrphan(r), x = "passed" => CompleteRun(r)
  PROVE  RunInv'
<1> USE DEF RunInv
<1>1. /\ Len(runs') = Len(runs) /\ runs'[r].term = x
      /\ \A n \in 1..Len(runs) :
           /\ n # r => runs'[n] = runs[n]
           /\ runs'[n].task = runs[n].task /\ runs'[n].attempt = runs[n].attempt
           /\ runs'[n].steps = runs[n].steps
  BY TermSet DEF TypeInv
<1>2. Len(runs) \in Nat
  BY Lengths DEF TypeInv
<1>3. \A q \in Procs : w[q].pc \in Holding => q = p
  BY Alone
<1>4. OnlyLatestRunIsOpen'
  BY <1>1 DEF OnlyLatestRunIsOpen
<1>5. NoStrandedEvidence'
  <2>1. \A n \in 1..Len(runs) : HasOrphan(n)' <=> HasOrphan(n)
    BY <1>1 DEF HasOrphan, Orphan
  <2> QED
    BY <1>1, <2>1 DEF NoStrandedEvidence
<1>6. RunsAreCoherent'
  <2>1. \A n \in 1..Len(runs) : CompleteRun(n)' <=> CompleteRun(n)
    BY <1>1 DEF CompleteRun
  <2> QED
    BY <1>1, <2>1 DEF RunsAreCoherent
<1>7. LatestAtHand'
  <2>1. ASSUME NEW q \in Procs, w'[q].pc = "reconcile" PROVE w'[q] = w[q]
    BY <2>1 DEF Steady, Plain, Batching
  <2>2. \A t \in Tasks, n \in 0..Len(runs) : IsLatestRun(t, n) => IsLatestRun(t, n)'
    BY <1>1, <1>2 DEF IsLatestRun
  <2>3. \A q \in Procs : w[q].t \in Tasks
    BY DEF TypeInv, TypeOK, Worker
  <2> QED
    BY <1>1, <2>1, <2>2, <2>3 DEF LatestAtHand
<1>8. EvidenceOfRun'
  BY <1>1 DEF EvidenceOfRun
<1>9. ASSUME NEW q \in Procs, Stepping(q)'
      PROVE  Stepping(q) /\ w'[q] = w[q] /\ w[q].pc # "step"
  <2>1. Stepping(q) /\ w'[q] = w[q]
    BY <1>9 DEF Stepping, Steady, Plain, Batching
  <2> QED
    BY <1>3, <2>1 DEF Holding
<1>10. StepsInOrder'
  BY <1>1, <1>9 DEF StepsInOrder
<1>11. StepHalfDone'
  BY <1>9 DEF StepHalfDone, Stepping
<1>12. FailsOnly'
  BY DEF FailsOnly, Steady, Plain, Batching
<1>13. BatchIsUntagged'
  BY <1>1 DEF BatchIsUntagged, Steady, Plain, Batching
<1> QED
  BY <1>4, <1>5, <1>6, <1>7, <1>8, <1>10, <1>11, <1>12, <1>13

\* A step record for evidence of an open run: what becomes of the ledgers.
LEMMA RecordKeeps ==
  ASSUME RunInv, UNCHANGED evidence,
         NEW r \in 1..Len(runs), NEW s \in 1..Steps, NEW e \in 1..Len(evidence),
         runs' = [runs EXCEPT ![r].steps[s] = e],
         runs[r].term = "none", evidence[e].run = r, evidence[e].step = s
  PROVE  /\ OnlyLatestRunIsOpen' /\ NoStrandedEvidence' /\ RunsAreCoherent' /\ EvidenceOfRun'
         /\ \A t \in Tasks, n \in 0..Len(runs) : IsLatestRun(t, n) => IsLatestRun(t, n)'
         /\ Len(runs') = Len(runs)
<1> USE DEF RunInv
<1>1. Len(runs) \in Nat /\ Len(evidence) \in Nat /\ e \in Nat
  BY Lengths DEF TypeInv
<1>2. /\ Len(runs') = Len(runs)
      /\ \A n \in 1..Len(runs) :
           /\ runs'[n].task = runs[n].task /\ runs'[n].attempt = runs[n].attempt
           /\ runs'[n].term = runs[n].term
           /\ \A u \in 1..Steps :
                runs'[n].steps[u] = IF n = r /\ u = s THEN e ELSE runs[n].steps[u]
  BY <1>1, StepSet, ZenonT(60) DEF TypeInv
<1>3. OnlyLatestRunIsOpen'
  BY <1>2 DEF OnlyLatestRunIsOpen
<1>4. EvidenceOfRun'
  BY <1>2 DEF EvidenceOfRun
<1>5. NoStrandedEvidence'
  <2>1. ASSUME NEW n \in 1..Len(runs), runs[n].term # "none", HasOrphan(n)' PROVE HasOrphan(n)
    <3>1. PICK i \in 1..Len(evidence) : evidence[i].run = n /\ runs'[n].steps[evidence[i].step] = 0
      BY <2>1 DEF HasOrphan, Orphan
    <3>2. evidence[i].step \in 1..Steps
      BY <1>1, <3>1 DEF EvidenceOfRun
    <3>3. runs[n].steps[evidence[i].step] = 0
      BY <1>2, <2>1, <3>1, <3>2
    <3> QED
      BY <1>1, <3>1, <3>3 DEF HasOrphan, Orphan
  <2> QED
    BY <1>2, <2>1 DEF NoStrandedEvidence
<1>6. RunsAreCoherent'
  <2>1. ASSUME NEW n \in 1..Len(runs), runs[n].term = "passed" PROVE CompleteRun(n)'
    <3>1. CompleteRun(n) /\ n # r
      BY <2>1 DEF RunsAreCoherent
    <3> QED
      BY <1>2, <3>1 DEF CompleteRun
  <2>2. ASSUME NEW n \in 1..Len(runs), NEW u \in 1..Steps, runs'[n].steps[u] # 0
        PROVE  LET d == evidence[runs'[n].steps[u]] IN
               /\ runs'[n].steps[u] <= Len(evidence)
               /\ d.task = runs[n].task /\ d.attempt = runs[n].attempt /\ d.run = n /\ d.step = u
    <3>1. CASE n = r /\ u = s
      BY <1>1, <1>2, <3>1 DEF EvidenceOfRun
    <3>2. CASE ~(n = r /\ u = s)
      BY <1>2, <2>2, <3>2, SMTT(30) DEF RunsAreCoherent
    <3> QED
      BY <3>1, <3>2
  <2> QED
    BY <1>2, <2>1, <2>2 DEF RunsAreCoherent
<1>7. \A t \in Tasks, n \in 0..Len(runs) : IsLatestRun(t, n) => IsLatestRun(t, n)'
  BY <1>1, <1>2 DEF IsLatestRun
<1> QED
  BY <1>2, <1>3, <1>4, <1>5, <1>6, <1>7

\* reconcileVerificationEvidenceOrphans preserves the invariant.
LEMMA ReconcileKeeps ==
  ASSUME RunInv, TypeInv', NEW p \in Procs, Reconcile(p), UNCHANGED w
  PROVE  RunInv'
<1> USE DEF RunInv
<1> DEFINE r == w[p].run
<1>1. PICK i \in 1..Len(evidence) :
        /\ Orphan(i, r) /\ runs' = [runs EXCEPT ![r].steps[evidence[i].step] = i]
  <2>1. w[p].pc # "idle" /\ w' = w
    BY DEF Reconcile
  <2>2. ~Return(p)
    BY <2>1 DEF Return, Idle, TypeInv, TypeOK
  <2> QED
    BY <2>2 DEF Reconcile
<1>2. /\ w[p].pc \in {"reconcile", "failing"} /\ HasOrphan(r) /\ UNCHANGED evidence
      /\ runs[r].term = "none"
  <2>1. ~Return(p)
    BY DEF Reconcile, Return, Idle, TypeInv, TypeOK
  <2> QED
    BY <2>1 DEF Reconcile, Unreconciled
<1>3. r \in 1..Len(runs) /\ evidence[i].step \in 1..Steps /\ evidence[i].run = r
  BY <1>1, <1>2 DEF HasOrphan, Orphan, EvidenceOfRun
<1>4. lock = p
  BY <1>2 DEF TypeInv, LockHeld, Holding
<1>5. \A q \in Procs : w[q].pc \in Holding => q = p
  BY <1>4, Alone
<1>6. /\ OnlyLatestRunIsOpen' /\ NoStrandedEvidence' /\ RunsAreCoherent' /\ EvidenceOfRun'
      /\ \A t \in Tasks, n \in 0..Len(runs) : IsLatestRun(t, n) => IsLatestRun(t, n)'
      /\ Len(runs') = Len(runs)
  BY <1>1, <1>2, <1>3, RecordKeeps
<1>7. LatestAtHand'
  <2>1. \A q \in Procs : w[q].t \in Tasks
    BY DEF TypeInv, TypeOK, Worker
  <2> QED
    BY <1>6, <2>1 DEF LatestAtHand
<1>8. StepsInOrder'
  BY <1>2, <1>6 DEF StepsInOrder, Stepping
<1>9. StepHalfDone'
  BY <1>2, <1>5 DEF StepHalfDone, Holding
<1>10. FailsOnly'
  BY DEF FailsOnly
<1>11. BatchIsUntagged'
  BY <1>2, <1>5 DEF BatchIsUntagged, Batching, Holding
<1> QED
  BY <1>6, <1>7, <1>8, <1>9, <1>10, <1>11

\* The second write of a step.
LEMMA RecordStepKeeps ==
  ASSUME RunInv, TypeInv', NEW p \in Procs, NEW io \in BOOLEAN, RecordStep(p, io)
  PROVE  RunInv'
<1> USE DEF RunInv
<1> DEFINE r == w[p].run
           s == w[p].step
<1>1. /\ w[p].pc = "step" /\ w[p] \in Worker /\ UNCHANGED evidence /\ lock = p
      /\ \A q \in Procs : q # p => w'[q] = w[q]
      /\ \A q \in Procs : w[q].pc \in Holding => q = p
  <2>1. w[p].pc = "step" /\ UNCHANGED evidence /\ \A q \in Procs : q # p => w'[q] = w[q]
    BY DEF RecordStep, At, TypeInv, TypeOK
  <2>2. lock = p
    BY <2>1 DEF TypeInv, LockHeld, Holding
  <2> QED
    BY <2>1, <2>2, Alone DEF TypeInv, TypeOK
<1>2. CASE io /\ Owns(p)
  <2> DEFINE pc == CASE ~w[p].ok -> "fail"
                     [] w[p].ok /\ s = Steps -> "complete"
                     [] OTHER -> "verify"
             n == IF w[p].ok /\ s < Steps THEN s + 1 ELSE s
             term == IF w[p].ok THEN "none" ELSE "failed"
  <2>1. /\ runs' = [runs EXCEPT ![r].steps[s] = w[p].ev]
        /\ w' = [w EXCEPT ![p] = [w[p] EXCEPT !.pc = pc, !.step = n, !.term = term]]
    BY <1>2 DEF RecordStep
  <2>2. /\ w'[p].pc = pc /\ w'[p].step = n /\ w'[p].term = term
        /\ w'[p].run = r /\ w'[p].mode = w[p].mode
    <3> HIDE DEF pc, n, term
    <3>1. PICK y \in Worker : y = w[p]
      BY <1>1
    <3>2. w'[p] = [y EXCEPT !.pc = pc, !.step = n, !.term = term]
      BY <2>1, <3>1 DEF TypeInv, TypeOK
    <3>3. /\ w'[p].pc = pc /\ w'[p].step = n /\ w'[p].term = term
          /\ w'[p].run = y.run /\ w'[p].mode = y.mode
      BY <3>2 DEF Worker
    <3> QED
      BY <3>1, <3>3
  <2>3. /\ r \in 1..Len(runs) /\ s \in 1..Steps /\ w[p].ev \in 1..Len(evidence)
        /\ evidence[w[p].ev].run = r /\ evidence[w[p].ev].step = s /\ runs[r].term = "none"
        /\ w[p].ok \in BOOLEAN
    BY <1>1 DEF StepsInOrder, StepHalfDone, Stepping, Worker
  <2>4. /\ OnlyLatestRunIsOpen' /\ NoStrandedEvidence' /\ RunsAreCoherent' /\ EvidenceOfRun'
        /\ Len(runs') = Len(runs)
    BY <1>1, <2>1, <2>3, RecordKeeps
  <2>5. LatestAtHand'
    BY <1>1, <2>2 DEF LatestAtHand, Holding
  <2>6. ASSUME NEW q \in Procs, Stepping(q)'
        PROVE  Stepping(q) /\ w'[q].run = w[q].run /\ w'[q].pc # "step"
    BY <1>1, <2>2, <2>6 DEF Stepping, Holding
  <2>7. StepsInOrder'
    <3>1. ASSUME NEW q \in Procs, Stepping(q)', q # p
          PROVE  /\ w'[q].run \in 1..Len(runs') /\ w'[q].step \in 1..Steps
                 /\ \A i \in 1..Len(evidence') : evidence'[i].run = w'[q].run =>
                      evidence'[i].step < w'[q].step
      BY <1>1, <2>4, <2>6, <3>1 DEF StepsInOrder
    <3>2. ASSUME Stepping(p)'
          PROVE  /\ w'[p].run \in 1..Len(runs') /\ w'[p].step \in 1..Steps
                 /\ \A i \in 1..Len(evidence') : evidence'[i].run = w'[p].run =>
                      evidence'[i].step < w'[p].step
      <4>1. w[p].ok /\ s # Steps
        BY <2>2, <2>3, <3>2 DEF Stepping
      <4>2. w'[p].step = s + 1 /\ s + 1 \in 1..Steps
        <5>1. s \in 1..Steps /\ s # Steps /\ Steps \in Nat
          BY <2>3, <4>1, SizeAssumption
        <5>2. s < Steps /\ s + 1 \in 1..Steps
          <6> HIDE DEF s
          <6> QED
            BY ONLY <5>1
        <5>3. n = s + 1
          BY <4>1, <5>2
        <5> QED
          BY <2>2, <5>2, <5>3
      <4>3. ASSUME NEW i \in 1..Len(evidence), evidence[i].run = r PROVE evidence[i].step < s + 1
        <5>1. evidence[i].step <= s
          BY <1>1, <4>3 DEF StepsInOrder, Stepping
        <5>2. evidence[i] \in Evidence
          BY ElementOfSeq DEF TypeInv, TypeOK
        <5>3. evidence[i].step \in Nat
          BY <5>2 DEF Evidence
        <5> QED
          BY <2>3, <5>1, <5>3
      <4> QED
        BY <1>1, <2>2, <2>3, <2>4, <4>2, <4>3
    <3>3. \A q, u \in Procs : Stepping(q)' /\ Stepping(u)' /\ w'[q].run = w'[u].run => q = u
      BY <2>6 DEF StepsInOrder
    <3> QED
      BY <2>6, <3>1, <3>2, <3>3 DEF StepsInOrder
  <2>8. StepHalfDone'
    BY <2>6 DEF StepHalfDone, Stepping
  <2>9. FailsOnly'
    BY <1>1, <2>2 DEF FailsOnly
  <2>10. BatchIsUntagged'
    BY <1>1, <2>2 DEF BatchIsUntagged, Batching, Holding
  <2> QED
    BY <2>4, <2>5, <2>7, <2>8, <2>9, <2>10
<1>3. CASE ~(io /\ Owns(p))
  <2>1. UNCHANGED runs /\ w' = [w EXCEPT ![p] = [w[p] EXCEPT !.pc = "fail", !.term = "interrupted"]]
    BY <1>3 DEF RecordStep
  <2>2. w'[p].pc = "fail" /\ w'[p].term = "interrupted"
    BY <1>1, <2>1 DEF TypeInv, TypeOK, Worker
  <2>3. \A q \in Procs : Moves(q)
    BY <1>1, <2>2 DEF Moves, Steady
  <2> QED
    BY <1>1, <2>1, <2>3, MovesKeep
<1> QED
  BY <1>2, <1>3

\* A run is started only after the one before it was settled.
LEMMA StartKeeps ==
  ASSUME RunInv, TypeInv', NEW p \in Procs, StartRun(p), runs' # runs
  PROVE  RunInv'
<1> USE DEF RunInv
<1> DEFINE t == w[p].t
           r == w[p].run
           k == Len(runs) + 1
           new == [task |-> t, attempt |-> task[t].attempt,
                   steps |-> [s \in 1..Steps |-> 0], term |-> "none"]
<1>1. /\ w[p].pc = "reconcile" /\ ~OpenRun(r) /\ UNCHANGED evidence
      /\ runs' = Append(runs, new)
      /\ w' = [w EXCEPT ![p] = [w[p] EXCEPT !.pc = "verify", !.run = k, !.step = 1]]
  BY DEF StartRun, At
<1>2. Len(evidence) \in Nat /\ Len(runs) \in Nat /\ w[p] \in Worker
  BY Lengths DEF TypeInv, TypeOK
<1>3. /\ w'[p].pc = "verify" /\ w'[p].run = k /\ w'[p].step = 1
      /\ \A q \in Procs : q # p => w'[q] = w[q]
  <2>1. PICK y \in Worker, n \in Nat : y = w[p] /\ n = k
    BY <1>2
  <2>2. w'[p] = [y EXCEPT !.pc = "verify", !.run = n, !.step = 1]
    BY <1>1, <2>1 DEF TypeInv, TypeOK
  <2>3. w'[p].pc = "verify" /\ w'[p].run = n /\ w'[p].step = 1
    BY <2>2 DEF Worker
  <2> QED
    BY <1>1, <2>1, <2>3 DEF TypeInv, TypeOK
<1>4. lock = p /\ \A q \in Procs : w[q].pc \in Holding => q = p
  <2>1. lock = p
    BY <1>1 DEF TypeInv, LockHeld, Holding
  <2> QED
    BY <2>1, Alone
<1>5. /\ Len(runs') = k /\ runs'[k] = new
      /\ \A n \in 1..Len(runs) : runs'[n] = runs[n]
  <2> HIDE DEF new
  <2> QED
    BY <1>1 DEF TypeInv, TypeOK
<1>6. \A n \in 1..Len(runs') : n \in 1..Len(runs) \/ n = k
  BY <1>2, <1>5
<1>7. /\ new.task = t /\ new.term = "none" /\ \A s \in 1..Steps : new.steps[s] = 0
  OBVIOUS
<1>8. r \in 0..Len(runs) /\ IsLatestRun(t, r)
  BY <1>1 DEF LatestAtHand
<1> HIDE DEF new
<1>9. OnlyLatestRunIsOpen'
  <2>1. ASSUME NEW n \in 1..Len(runs), runs[n].task = t PROVE runs[n].term # "none"
    <3>1. r # 0 /\ n <= r
      BY <1>2, <1>8, <2>1 DEF IsLatestRun
    <3>2. runs[r].task = t /\ runs[r].term # "none"
      BY <1>1, <1>8, <3>1 DEF IsLatestRun, OpenRun
    <3>3. CASE n = r
      BY <3>2, <3>3
    <3>4. CASE n < r
      BY <1>2, <1>8, <2>1, <3>1, <3>2, <3>4 DEF OnlyLatestRunIsOpen
    <3> QED
      BY <1>2, <1>8, <3>1, <3>3, <3>4
  <2>2. ASSUME NEW n \in 1..Len(runs'), NEW m \in 1..Len(runs'), n < m,
               runs'[n].task = runs'[m].task
        PROVE  runs'[n].term # "none"
    <3>1. CASE m \in 1..Len(runs)
      BY <1>2, <1>5, <1>6, <2>2, <3>1 DEF OnlyLatestRunIsOpen
    <3>2. CASE m = k
      <4>1. n \in 1..Len(runs)
        BY <1>2, <1>6, <2>2, <3>2
      <4> QED
        BY <1>5, <1>7, <2>1, <2>2, <3>2, <4>1
    <3> QED
      BY <1>6, <3>1, <3>2
  <2> QED
    BY <2>2 DEF OnlyLatestRunIsOpen
<1>10. NoStrandedEvidence'
  <2>1. ASSUME NEW n \in 1..Len(runs), HasOrphan(n)' PROVE HasOrphan(n)
    BY <1>1, <1>5, <2>1 DEF HasOrphan, Orphan
  <2> QED
    BY <1>5, <1>6, <1>7, <2>1 DEF NoStrandedEvidence
<1>11. RunsAreCoherent'
  <2>1. \A n \in 1..Len(runs) : CompleteRun(n)' <=> CompleteRun(n)
    BY <1>1, <1>5 DEF CompleteRun
  <2> QED
    BY <1>1, <1>5, <1>6, <1>7, <2>1 DEF RunsAreCoherent
<1>12. LatestAtHand'
  BY <1>3, <1>4 DEF LatestAtHand, Holding
<1>13. EvidenceOfRun'
  BY <1>1, <1>2, <1>5 DEF EvidenceOfRun
<1>14. ASSUME NEW q \in Procs, Stepping(q)', q # p
       PROVE  Stepping(q) /\ w'[q] = w[q] /\ w[q].pc # "step" /\ w[q].run \in 1..Len(runs)
  <2>1. Stepping(q) /\ w'[q] = w[q]
    BY <1>3, <1>14 DEF Stepping
  <2> QED
    BY <1>4, <1>14, <2>1 DEF StepsInOrder, Holding
<1>15. StepsInOrder'
  <2>1. \A q \in Procs : Stepping(q)' /\ q # p => w'[q].run # k
    BY <1>2, <1>14
  <2>2. \A i \in 1..Len(evidence) : evidence[i].run # k
    BY <1>2 DEF EvidenceOfRun
  <2>3. k \in 1..Len(runs') /\ 1 \in 1..Steps
    BY <1>2, <1>5, SizeAssumption
  <2>4. ASSUME NEW q \in Procs, Stepping(q)', q # p
        PROVE  /\ w'[q].run \in 1..Len(runs') /\ w'[q].step \in 1..Steps
               /\ \A u \in Procs : Stepping(u)' /\ w'[u].run = w'[q].run => u = q
               /\ \A i \in 1..Len(evidence') : evidence'[i].run = w'[q].run =>
                    evidence'[i].step < w'[q].step
    BY <1>1, <1>2, <1>3, <1>5, <1>14, <2>1, <2>4 DEF StepsInOrder
  <2> QED
    BY <1>1, <1>3, <1>14, <2>1, <2>2, <2>3, <2>4 DEF StepsInOrder
<1>16. StepHalfDone'
  BY <1>3, <1>14 DEF StepHalfDone, Stepping
<1>17. FailsOnly'
  BY <1>3 DEF FailsOnly
<1>18. BatchIsUntagged'
  BY <1>3, <1>4 DEF BatchIsUntagged, Batching, Holding
<1> QED
  BY <1>9, <1>10, <1>11, <1>12, <1>13, <1>15, <1>16, <1>17, <1>18

-----------------------------------------------------------------------------
(* Every action.                                                            *)

\* A command that ends leaves the other processes where they are.
LEMMA ReturnIsSteady ==
  ASSUME TypeOK, NEW p \in Procs, Return(p)
  PROVE  \A q \in Procs : Steady(q) /\ Moves(q)
  BY DEF Return, TypeOK, Idle, Steady, Moves, Plain, PCs, Batching

\* So does a command that goes on to a place without obligations.
LEMMA GotoIsSteady ==
  ASSUME TypeOK, NEW p \in Procs, NEW pc \in Plain, Goto(p, pc)
  PROVE  \A q \in Procs : Steady(q) /\ Moves(q)
<1>1. w'[p].pc = pc /\ \A q \in Procs : q # p => w'[q] = w[q]
  BY DEF Goto, TypeOK, Worker
<1> QED
  BY <1>1 DEF Steady, Moves

\* The invariant holds of a new session.
LEMMA RunsInit == Init => RunInv
<1> SUFFICES ASSUME Init PROVE RunInv
  OBVIOUS
<1>1. \A p \in Procs : w[p].pc = "idle"
  BY DEF Init, Idle
<1>2. Len(runs) = 0 /\ Len(evidence) = 0
  BY DEF Init
<1>3. OnlyLatestRunIsOpen /\ NoStrandedEvidence /\ RunsAreCoherent /\ EvidenceOfRun
  BY <1>2 DEF OnlyLatestRunIsOpen, NoStrandedEvidence, RunsAreCoherent, EvidenceOfRun
<1>4. LatestAtHand /\ StepsInOrder /\ StepHalfDone /\ FailsOnly /\ BatchIsUntagged
  BY <1>1 DEF LatestAtHand, StepsInOrder, StepHalfDone, FailsOnly, BatchIsUntagged, Stepping, Batching
<1> QED
  BY <1>3, <1>4, TypeInit DEF RunInv

\* The single-write commands.
LEMMA RunsOperator ==
  ASSUME RunInv, TypeInv', Operator
  PROVE  RunInv'
<1>1. /\ \A t \in Tasks : task[t] \in Row
      /\ \A t \in Tasks : task[t].attempt \in Nat
  BY DEF RunInv, TypeInv, TypeOK, Row
<1>2. ASSUME UNCHANGED <<evidence, runs, w>> PROVE RunInv'
  <2>1. \A q \in Procs : Moves(q)
    BY <1>2 DEF Moves, Steady
  <2> QED
    BY <1>2, <2>1, MovesKeep
<1>3. ASSUME UNCHANGED <<runs, w>>, NEW e \in Evidence, e.run = 0, evidence' = Append(evidence, e)
      PROVE  RunInv'
  <2>1. \A q \in Procs : Steady(q)
    BY <1>3 DEF Steady
  <2> QED
    BY <1>3, <2>1, UntaggedKeeps
<1>4. ASSUME NEW t \in Tasks, NEW ok \in BOOLEAN, NEW note \in Contents, DeclareEvidence(t, ok, note)
      PROVE  RunInv'
  <2>1. PICK e \in Evidence : e.run = 0 /\ evidence' = Append(evidence, e)
    <3>1. Entry(t, "declared", ok, 0, 0, note, task[t].attempt) \in Evidence
      BY <1>1, EntryType DEF RunInv, TypeInv, TypeOK
    <3> QED
      BY <1>4, <3>1 DEF DeclareEvidence, Entry
  <2> QED
    BY <1>3, <1>4, <2>1 DEF DeclareEvidence
<1>5. ASSUME NEW t \in Tasks, NEW ok \in BOOLEAN, Reverify(t, ok) PROVE RunInv'
  <2>1. PICK e \in Evidence : e.run = 0 /\ evidence' = Append(evidence, e)
    <3>1. Entry(t, "observed", ok, 0, 0, 0, task[t].attempt) \in Evidence
      BY <1>1, EntryType DEF RunInv, TypeInv, TypeOK
    <3> QED
      BY <1>5, <3>1 DEF Reverify, Entry
  <2> QED
    BY <1>3, <1>5, <2>1 DEF Reverify
<1> QED
  BY <1>2, <1>4, <1>5 DEF Operator, StartTasks, TransitionTask, EditArtifact, Archive, files

\* How a command begins, gets its leases and runs its tests.
LEMMA RunsCommand ==
  ASSUME RunInv, TypeInv', NEW p \in Procs,
         \/ Begin(p) \/ AcquireLease(p) \/ Busy(p) \/ LockTimeout(p) \/ Snapshot(p)
         \/ VerifyBegin(p) \/ LeaseLost(p) \/ Crash(p)
  PROVE  RunInv'
<1> USE DEF RunInv, TypeInv
<1>1. w \in [Procs -> Worker] /\ w[p] \in Worker
  BY DEF TypeOK
<1>2. UNCHANGED <<evidence, runs>>
  BY DEF Begin, DoneBegin, CloseOpen, MarkClosed, CarryOpen, CloseAgain, AcquireLease, Busy,
         LockTimeout, Snapshot, VerifyBegin, LeaseLost, Crash, Keep, files
<1>3. SUFFICES \A q \in Procs : Moves(q)
  BY <1>2, MovesKeep
<1>4. ASSUME NEW x, w' = [w EXCEPT ![p] = x], x.pc \in Plain PROVE \A q \in Procs : Moves(q)
  BY <1>1, <1>4 DEF Moves, Steady
<1>5. ASSUME NEW mode \in Modes, NEW S \in SUBSET Tasks, DoneBegin(p, mode, S)
      PROVE  \A q \in Procs : Moves(q)
  <2>1. PICK t \in S : w' = [w EXCEPT ![p] = [Idle EXCEPT !.pc = "acquire", !.mode = mode,
                                                        !.ts = S, !.t = t]]
    BY <1>5 DEF DoneBegin
  <2>2. [Idle EXCEPT !.pc = "acquire", !.mode = mode, !.ts = S, !.t = t].pc \in Plain
    BY DEF Idle, Plain, PCs, Batching
  <2> QED
    BY <1>4, <2>1, <2>2
<1>6. CASE CloseOpen(p)
  <2>1. [w[p] EXCEPT !.pc = "closing", !.rows = task].pc \in Plain
    BY <1>1 DEF Worker, Plain, PCs, Batching
  <2> QED
    BY <1>4, <1>6, <2>1 DEF CloseOpen, MarkClosed
<1>7. CASE CarryOpen(p)
  <2>1. [w[p] EXCEPT !.pc = "carry", !.rows = task].pc \in Plain
    BY <1>1 DEF Worker, Plain, PCs, Batching
  <2> QED
    BY <1>4, <1>7, <2>1 DEF CarryOpen
<1>8. CASE CloseAgain(p)
  BY <1>8, GotoIsSteady DEF CloseAgain, Plain, PCs, Batching
<1>9. CASE AcquireLease(p)
  <2>1. CASE Goto(p, "snapshot")
    BY <2>1, GotoIsSteady DEF Plain, PCs, Batching
  <2>2. ASSUME NEW u, w' = [w EXCEPT ![p].t = u] PROVE \A q \in Procs : Moves(q)
    <3>1. [w[p] EXCEPT !.t = u].pc \in Plain
      BY <1>1, <1>9 DEF AcquireLease, At, Worker, Plain, PCs, Batching
    <3> QED
      BY <1>4, <2>2, <3>1
  <2> QED
    BY <1>9, <2>1, <2>2 DEF AcquireLease
<1>10. CASE Busy(p) \/ LeaseLost(p) \/ Crash(p)
  BY <1>10, ReturnIsSteady DEF Busy, LeaseLost, Crash
<1>11. CASE LockTimeout(p)
  <2>1. CASE Return(p)
    BY <2>1, ReturnIsSteady
  <2>2. CASE ~Return(p)
    <3>1. w' = [w EXCEPT ![p] = [w[p] EXCEPT !.pc = "fail", !.term = "interrupted"]]
      BY <1>11, <2>2 DEF LockTimeout
    <3>2. w'[p].pc = "fail" /\ w'[p].term = "interrupted" /\ \A q \in Procs : q # p => w'[q] = w[q]
      BY <1>1, <3>1 DEF Worker
    <3> QED
      BY <3>2 DEF Moves, Steady
  <2> QED
    BY <2>1, <2>2
<1>12. CASE Snapshot(p)
  <2>1. CASE Return(p)
    BY <2>1, ReturnIsSteady
  <2>2. CASE ~Return(p)
    <3> DEFINE pc == IF w[p].mode = "multi" THEN "prepare" ELSE "verify"
               snap == [t \in Tasks |-> task[t].attempt]
    <3>1. w' = [w EXCEPT ![p] = [w[p] EXCEPT !.snap = snap, !.pc = pc]]
      BY <1>12, <2>2 DEF Snapshot
    <3>2. w'[p].pc = pc /\ w'[p].mode = w[p].mode /\ \A q \in Procs : q # p => w'[q] = w[q]
      <4> HIDE DEF pc, snap
      <4> QED
        BY <1>1, <3>1 DEF Worker
    <3> QED
      BY <3>2 DEF Moves, Steady, Plain, PCs, Batching
  <2> QED
    BY <2>1, <2>2
<1>13. CASE VerifyBegin(p)
  <2> DEFINE began == [t \in Tasks |-> task[t].attempt]
  <2>1. w' = [w EXCEPT ![p] = [w[p] EXCEPT !.pc = "running", !.began = began]] /\ w[p].pc = "verify"
    BY <1>13 DEF VerifyBegin, At
  <2>2. /\ w'[p].pc = "running" /\ w'[p].mode = w[p].mode
        /\ w'[p].run = w[p].run /\ w'[p].step = w[p].step
        /\ \A q \in Procs : q # p => w'[q] = w[q]
    <3> HIDE DEF began
    <3> QED
      BY <1>1, <2>1 DEF Worker
  <2> QED
    BY <2>1, <2>2 DEF Moves, Steady
<1> QED
  BY <1>5, <1>6, <1>7, <1>8, <1>9, <1>10, <1>11, <1>12, <1>13 DEF Begin

\* `done` with one command or none.
LEMMA RunsSingle ==
  ASSUME RunInv, TypeInv', NEW p \in Procs,
         (\E ok \in BOOLEAN : CommitSingle(p, ok)) \/ FinishSingle(p) \/ DoneBare(p)
  PROVE  RunInv'
<1> USE DEF RunInv, TypeInv
<1>1. w \in [Procs -> Worker] /\ w[p] \in Worker
  BY DEF TypeOK
<1>2. ASSUME NEW ok \in BOOLEAN, CommitSingle(p, ok) PROVE RunInv'
  <2>1. \A q \in Procs : Steady(q) /\ Moves(q)
    <3>1. CASE Return(p)
      BY <3>1, ReturnIsSteady
    <3>2. CASE ~Return(p)
      <4>1. w' = [w EXCEPT ![p] = [w[p] EXCEPT !.pc = "finish", !.ev = Len(evidence) + 1]]
        BY <1>2, <3>2 DEF CommitSingle
      <4>2. w'[p].pc = "finish" /\ \A q \in Procs : q # p => w'[q] = w[q]
        BY <1>1, <4>1 DEF Worker
      <4> QED
        BY <4>2 DEF Steady, Moves, Plain, PCs, Batching
    <3> QED
      BY <3>1, <3>2
  <2>2. UNCHANGED runs
    BY <1>2 DEF CommitSingle
  <2>3. CASE UNCHANGED evidence
    BY <2>1, <2>2, <2>3, MovesKeep
  <2>4. CASE evidence' # evidence
    <3>1. w[p].t \in Tasks /\ w[p].began \in [Tasks -> Nat]
      BY <1>1 DEF Worker
    <3>2. w[p].began[w[p].t] \in Nat
      BY <3>1
    <3>3. Entry(w[p].t, "observed", ok, 0, 0, 0, w[p].began[w[p].t]) \in Evidence
      BY <3>1, <3>2, EntryType DEF TypeOK
    <3>4. evidence' = Append(evidence, Entry(w[p].t, "observed", ok, 0, 0, 0, w[p].began[w[p].t]))
      BY <1>2, <2>4 DEF CommitSingle
    <3>5. PICK e \in Evidence : e.run = 0 /\ evidence' = Append(evidence, e)
      BY <3>3, <3>4 DEF Entry
    <3> QED
      BY <2>1, <2>2, <3>5, UntaggedKeeps
  <2> QED
    BY <2>3, <2>4
<1>3. CASE FinishSingle(p) \/ DoneBare(p)
  BY <1>3, ReturnIsSteady, MovesKeep DEF FinishSingle, DoneBare
<1> QED
  BY <1>2, <1>3

\* `done` with several commands.
LEMMA RunsRun ==
  ASSUME RunInv, TypeInv', NEW p \in Procs,
         \/ Prepare(p) \/ Reconcile(p) \/ Recover(p) \/ Supersede(p) \/ StartRun(p)
         \/ \E ok \in BOOLEAN : CommitStep(p, ok)
         \/ \E io \in BOOLEAN : RecordStep(p, io)
         \/ FailRun(p) \/ FailTerminal(p) \/ CompleteBegin(p) \/ Finalize(p) \/ CommitRun(p)
  PROVE  RunInv'
<1> USE DEF RunInv, TypeInv
<1> DEFINE r == w[p].run
<1>1. /\ w \in [Procs -> Worker] /\ w[p] \in Worker /\ r \in Nat
      /\ w[p].pc \in Holding => lock = p
  BY DEF TypeOK, Worker, LockHeld
<1>2. ASSUME Return(p), UNCHANGED <<evidence, runs>> PROVE RunInv'
  BY <1>2, ReturnIsSteady, MovesKeep
<1>3. ASSUME NEW pc \in Plain, Goto(p, pc), UNCHANGED <<evidence, runs>> PROVE RunInv'
  BY <1>3, GotoIsSteady, MovesKeep
<1>4. CASE Prepare(p)
  <2>1. UNCHANGED <<evidence, runs>>
    BY <1>4 DEF Prepare, Keep, files
  <2>2. CASE ~Return(p)
    <3>1. PICK n \in 0..Len(runs) :
            /\ IsLatestRun(w[p].t, n)
            /\ w' = [w EXCEPT ![p] = [w[p] EXCEPT !.pc = "reconcile", !.run = n]]
      BY <1>4, <2>2 DEF Prepare
    <3>2. /\ w'[p].pc = "reconcile" /\ w'[p].run = n /\ w'[p].t = w[p].t
          /\ \A q \in Procs : q # p => w'[q] = w[q]
      BY <1>1, <3>1 DEF Worker
    <3>3. \A q \in Procs : Moves(q)
      BY <3>1, <3>2 DEF Moves, Steady
    <3> QED
      BY <2>1, <3>3, MovesKeep
  <2> QED
    BY <1>2, <2>1, <2>2
<1>5. CASE Reconcile(p)
  <2>1. (Return(p) /\ UNCHANGED runs) \/ UNCHANGED w
    BY <1>5 DEF Reconcile
  <2> QED
    BY <1>2, <1>5, <2>1, ReconcileKeeps DEF Reconcile
<1>6. CASE Recover(p)
  BY <1>3, <1>6 DEF Recover, Plain, PCs, Batching, files
<1>7. CASE Supersede(p)
  <2>1. CASE Return(p) /\ UNCHANGED runs
    BY <1>2, <1>7, <2>1 DEF Supersede
  <2>2. CASE runs' = [runs EXCEPT ![r].term = "superseded"] /\ UNCHANGED w
    <3>1. /\ w[p].pc = "reconcile" /\ ~HasOrphan(r) /\ r # 0 /\ runs[r].term = "none"
          /\ UNCHANGED evidence
      BY <1>7 DEF Supersede, At, Unreconciled, OpenRun
    <3>2. lock = p /\ r \in 1..Len(runs)
      BY <1>1, <3>1 DEF Holding, LatestAtHand
    <3>3. \A q \in Procs : Steady(q)
      BY <2>2 DEF Steady
    <3>4. "superseded" \in Terminals \ {"none"}
      BY DEF Terminals
    <3> QED
      BY <2>2, <3>1, <3>2, <3>3, <3>4, TermKeeps
  <2> QED
    BY <1>7, <2>1, <2>2 DEF Supersede
<1>8. CASE StartRun(p)
  <2>1. CASE runs' # runs
    BY <1>8, <2>1, StartKeeps
  <2>2. CASE runs' = runs
    <3>1. Append(runs, [task |-> w[p].t, attempt |-> task[w[p].t].attempt,
                        steps |-> [s \in 1..Steps |-> 0], term |-> "none"]) # runs
      BY Lengths DEF TypeOK
    <3> QED
      BY <1>2, <1>8, <2>2, <3>1 DEF StartRun
  <2> QED
    BY <2>1, <2>2
<1>9. ASSUME NEW ok \in BOOLEAN, CommitStep(p, ok) PROVE RunInv'
  <2>1. CASE evidence' # evidence
    BY <1>9, <2>1, StepEvidenceKeeps
  <2>2. CASE evidence' = evidence
    <3>1. \A e : Append(evidence, e) # evidence
      BY Lengths DEF TypeOK
    <3>2. w' = [w EXCEPT ![p] = [w[p] EXCEPT !.pc = "fail", !.term = "interrupted"]]
      BY <1>9, <2>2, <3>1 DEF CommitStep
    <3>3. w'[p].pc = "fail" /\ w'[p].term = "interrupted" /\ \A q \in Procs : q # p => w'[q] = w[q]
      BY <1>1, <3>2 DEF Worker
    <3>4. \A q \in Procs : Moves(q)
      BY <3>3 DEF Moves, Steady
    <3> QED
      BY <1>9, <2>2, <3>4, MovesKeep DEF CommitStep
  <2> QED
    BY <2>1, <2>2
<1>10. ASSUME NEW io \in BOOLEAN, RecordStep(p, io) PROVE RunInv'
  BY <1>10, RecordStepKeeps
<1>11. CASE FailRun(p)
  <2>1. UNCHANGED <<evidence, runs>>
    BY <1>11 DEF FailRun, Keep, files
  <2>2. CASE ~Return(p)
    <3>1. Goto(p, "failing") /\ w[p].pc = "fail"
      BY <1>11, <2>2 DEF FailRun, At
    <3>2. w'[p].pc = "failing" /\ w'[p].term = w[p].term /\ \A q \in Procs : q # p => w'[q] = w[q]
      BY <1>1, <3>1 DEF Goto, Worker
    <3>3. \A q \in Procs : Moves(q)
      BY <3>1, <3>2 DEF Moves, Steady, FailsOnly
    <3> QED
      BY <2>1, <3>3, MovesKeep
  <2> QED
    BY <1>2, <2>1, <2>2
<1>12. CASE FailTerminal(p)
  <2>1. /\ w[p].pc = "failing" /\ ~HasOrphan(r) /\ UNCHANGED evidence /\ Return(p)
        /\ w[p].term \in {"failed", "interrupted"}
    BY <1>12 DEF FailTerminal, At, Unreconciled, FailsOnly
  <2>2. CASE UNCHANGED runs
    BY <1>2, <2>1, <2>2
  <2>3. CASE ~UNCHANGED runs
    <3>1. runs' = [runs EXCEPT ![r].term = w[p].term] /\ OpenRun(r)
      BY <1>12, <2>3 DEF FailTerminal
    <3>2. r \in 1..Len(runs)
      <4>1. SUFFICES ASSUME r \notin 1..Len(runs) PROVE FALSE
        OBVIOUS
      <4>2. [runs EXCEPT ![r].term = w[p].term] = runs
        BY <4>1, LenProperties DEF TypeOK
      <4> QED
        BY <2>3, <3>1, <4>2
    <3>3. lock = p /\ w[p].pc # "step"
      BY <1>1, <2>1 DEF Holding
    <3>4. \A q \in Procs : Steady(q)
      BY <2>1, ReturnIsSteady
    <3>5. w[p].term \in Terminals \ {"none"} /\ w[p].term # "passed"
      BY <2>1 DEF Terminals
    <3>6. runs[r].term = "none"
      BY <3>1 DEF OpenRun
    <3>7. PICK x \in Terminals \ {"none"} : x = w[p].term
      BY <3>5
    <3>8. runs' = [runs EXCEPT ![r].term = x]
      BY <3>1, <3>7
    <3> QED
      BY <2>1, <3>2, <3>3, <3>4, <3>5, <3>6, <3>7, <3>8, TermKeeps
  <2> QED
    BY <2>2, <2>3
<1>13. CASE CompleteBegin(p)
  BY <1>2, <1>3, <1>13 DEF CompleteBegin, Keep, files, Plain, PCs, Batching
<1>14. CASE Finalize(p)
  <2>1. CASE Return(p) /\ UNCHANGED runs
    BY <1>2, <1>14, <2>1 DEF Finalize
  <2>2. CASE ~(Return(p) /\ UNCHANGED runs)
    <3>1. /\ w[p].pc = "finalize" /\ CompleteRun(r) /\ Goto(p, "commit") /\ UNCHANGED evidence
          /\ runs' = [runs EXCEPT ![r].term = IF @ = "none" THEN "passed" ELSE @]
      BY <1>14, <2>2 DEF Finalize, At
    <3>2. CASE runs' = runs
      BY <1>3, <3>1, <3>2 DEF Plain, PCs, Batching
    <3>3. CASE runs' # runs
      <4>1. r \in 1..Len(runs)
        <5>1. SUFFICES ASSUME r \notin 1..Len(runs) PROVE FALSE
          OBVIOUS
        <5>2. [runs EXCEPT ![r].term = IF @ = "none" THEN "passed" ELSE @] = runs
          BY <5>1, LenProperties DEF TypeOK
        <5> QED
          BY <3>1, <3>3, <5>2
      <4>2. runs \in Seq(Run) /\ runs[r] \in Run
        BY <4>1, ElementOfSeq DEF TypeOK
      <4>3. runs[r].term = "none"
        <5>1. SUFFICES ASSUME runs[r].term # "none" PROVE FALSE
          OBVIOUS
        <5>2. [runs[r] EXCEPT !.term = runs[r].term] = runs[r]
          BY <4>2 DEF Run
        <5>3. runs' = [runs EXCEPT ![r] = runs[r]]
          BY <3>1, <5>1, <5>2
        <5>4. [runs EXCEPT ![r] = runs[r]] = runs
          BY <4>1, <4>2, LenProperties
        <5> QED
          BY <3>3, <5>3, <5>4
      <4>4. runs' = [runs EXCEPT ![r].term = "passed"]
        BY <3>1, <4>3
      <4>5. ~HasOrphan(r)
        <5>1. \A i \in 1..Len(evidence) : evidence[i].run = r => evidence[i].step \in 1..Steps
          BY <4>1 DEF EvidenceOfRun
        <5>2. \A s \in 1..Steps : runs[r].steps[s] # 0
          BY <3>1 DEF CompleteRun
        <5> QED
          BY <5>1, <5>2 DEF HasOrphan, Orphan
      <4>6. lock = p /\ w[p].pc # "step"
        BY <1>1, <3>1 DEF Holding
      <4>7. \A q \in Procs : Steady(q)
        BY <3>1, GotoIsSteady DEF Plain, PCs, Batching
      <4>8. "passed" \in Terminals \ {"none"}
        BY DEF Terminals
      <4> QED
        BY <3>1, <4>1, <4>3, <4>4, <4>5, <4>6, <4>7, <4>8, TermKeeps
    <3> QED
      BY <3>2, <3>3
  <2> QED
    BY <2>1, <2>2
<1>15. CASE CommitRun(p)
  BY <1>2, <1>15 DEF CommitRun
<1> QED
  BY <1>4, <1>5, <1>6, <1>7, <1>8, <1>9, <1>10, <1>11, <1>12, <1>13, <1>14, <1>15

\* A batch.
LEMMA RunsBatch ==
  ASSUME RunInv, TypeInv', NEW p \in Procs,
         \/ \E ok \in BOOLEAN : CommitBatch(p, ok)
         \/ \E t \in Tasks : BatchEvidence(p, t) \/ BatchDone(p, t)
         \/ BatchEnd(p) \/ BatchUndo(p) \/ BatchUndoEvidence(p)
  PROVE  RunInv'
<1> USE DEF RunInv, TypeInv
<1>1. w \in [Procs -> Worker] /\ w[p] \in Worker
  BY DEF TypeOK
<1>2. ASSUME Return(p), UNCHANGED <<evidence, runs>> PROVE RunInv'
  BY <1>2, ReturnIsSteady, MovesKeep
<1>3. ASSUME NEW pc \in Batching, Goto(p, pc), w[p].pc \in Batching
      PROVE  \A q \in Procs : Steady(q) /\ Moves(q)
  <2>1. w'[p].pc = pc /\ w'[p].len = w[p].len /\ \A q \in Procs : q # p => w'[q] = w[q]
    BY <1>1, <1>3 DEF Goto, Worker
  <2> QED
    BY <1>3, <2>1 DEF Steady, Moves
<1>4. ASSUME NEW ok \in BOOLEAN, CommitBatch(p, ok) PROVE RunInv'
  <2>1. UNCHANGED <<evidence, runs>>
    BY <1>4 DEF CommitBatch, Keep, files
  <2>2. CASE ~Return(p)
    <3>1. w' = [w EXCEPT ![p] = [w[p] EXCEPT !.pc = "batchEvidence", !.ok = ok,
                                             !.rows = task, !.len = Len(evidence)]]
      BY <1>4, <2>2 DEF CommitBatch
    <3>2. /\ w'[p].pc = "batchEvidence" /\ w'[p].len = Len(evidence)
          /\ \A q \in Procs : q # p => w'[q] = w[q]
      BY <1>1, <3>1 DEF Worker
    <3>3. \A q \in Procs : Moves(q)
      BY <3>2 DEF Moves, Steady
    <3> QED
      BY <2>1, <3>3, MovesKeep
  <2> QED
    BY <1>2, <2>1, <2>2
<1>5. ASSUME NEW t \in Tasks, BatchEvidence(p, t) PROVE RunInv'
  <2>1. w[p].pc = "batchEvidence" /\ UNCHANGED runs
    BY <1>5 DEF BatchEvidence, At
  <2>2. \A q \in Procs : Steady(q)
    <3>1. CASE Goto(p, "batchDone")
      BY <1>3, <2>1, <3>1 DEF Batching
    <3>2. CASE Return(p)
      BY <3>2, ReturnIsSteady
    <3>3. CASE UNCHANGED w
      BY <3>3 DEF Steady
    <3> QED
      BY <1>5, <3>1, <3>2, <3>3 DEF BatchEvidence
  <2>3. PICK e \in Evidence : e.run = 0 /\ evidence' = Append(evidence, e)
    <3>1. w[p].began \in [Tasks -> Nat] /\ w[p].ok \in BOOLEAN
      BY <1>1 DEF Worker
    <3>2. w[p].began[t] \in Nat
      BY <3>1
    <3>3. Entry(t, "observed", w[p].ok, 0, 0, 0, w[p].began[t]) \in Evidence
      BY <3>1, <3>2, EntryType DEF TypeOK
    <3> QED
      BY <1>5, <3>3 DEF BatchEvidence, Entry
  <2> QED
    BY <2>1, <2>2, <2>3, UntaggedKeeps
<1>6. ASSUME NEW t \in Tasks, BatchDone(p, t) PROVE RunInv'
  <2>1. \A q \in Procs : Moves(q)
    BY <1>6 DEF BatchDone, Moves, Steady
  <2> QED
    BY <1>6, <2>1, MovesKeep DEF BatchDone
<1>7. CASE BatchEnd(p)
  BY <1>2, <1>7 DEF BatchEnd, Keep, files
<1>8. CASE BatchUndo(p)
  <2>1. \A q \in Procs : Moves(q)
    BY <1>3, <1>8 DEF BatchUndo, Batching
  <2> QED
    BY <1>8, <2>1, MovesKeep DEF BatchUndo
<1>9. CASE BatchUndoEvidence(p)
  BY <1>9, UndoKeeps
<1> QED
  BY <1>4, <1>5, <1>6, <1>7, <1>8, <1>9

\* The close, with and without carry-open.
LEMMA RunsClose ==
  ASSUME RunInv, TypeInv', NEW p \in Procs,
         \/ CarryRows(p) \/ CarryClose(p)
         \/ \E io \in BOOLEAN : ClosePlan(p, io) \/ CloseEvent(p, io)
  PROVE  RunInv'
<1> USE DEF RunInv, TypeInv
<1>1. UNCHANGED <<evidence, runs>>
  BY DEF CarryRows, CarryClose, MarkClosed, ClosePlan, CloseEvent, Keep, files
<1>2. w \in [Procs -> Worker] /\ w[p] \in Worker
  BY DEF TypeOK
<1>3. {"carried", "remap", "logging"} \subseteq Plain
  BY DEF Plain, PCs, Batching
<1>4. \/ Return(p)
      \/ \E pc \in {"carried", "remap", "logging"} : Goto(p, pc)
      \/ w' = [w EXCEPT ![p] = [w[p] EXCEPT !.pc = "closing", !.rows = w[p].rows]]
  <2>1. CASE CarryRows(p)
    BY <2>1 DEF CarryRows
  <2>2. CASE CarryClose(p)
    BY <2>2 DEF CarryClose, MarkClosed
  <2>3. ASSUME NEW io \in BOOLEAN, ClosePlan(p, io) PROVE Return(p) \/ Goto(p, "remap") \/ Goto(p, "logging")
    BY <2>3 DEF ClosePlan
  <2>4. ASSUME NEW io \in BOOLEAN, CloseEvent(p, io) PROVE Return(p)
    BY <2>4 DEF CloseEvent
  <2> QED
    BY <2>1, <2>2, <2>3, <2>4
<1>5. CASE w' = [w EXCEPT ![p] = [w[p] EXCEPT !.pc = "closing", !.rows = w[p].rows]]
  <2>1. w'[p].pc = "closing" /\ \A q \in Procs : q # p => w'[q] = w[q]
    BY <1>2, <1>5 DEF Worker
  <2>2. \A q \in Procs : Moves(q)
    BY <2>1 DEF Moves, Steady, Plain, PCs, Batching
  <2> QED
    BY <1>1, <2>2, MovesKeep
<1>6. CASE Return(p)
  BY <1>1, <1>6, ReturnIsSteady, MovesKeep
<1>7. CASE \E pc \in {"carried", "remap", "logging"} : Goto(p, pc)
  BY <1>1, <1>3, <1>7, GotoIsSteady, MovesKeep
<1> QED
  BY <1>4, <1>5, <1>6, <1>7

\* A lost lease, and steps that change nothing.
LEMMA RunsRest ==
  ASSUME RunInv, TypeInv', UNCHANGED vars \/ \E t \in Tasks : LoseLease(t)
  PROVE  RunInv'
<1>1. UNCHANGED <<evidence, runs, w>>
  BY DEF LoseLease, vars, files
<1>2. \A q \in Procs : Moves(q)
  BY <1>1 DEF Moves, Steady
<1> QED
  BY <1>1, <1>2, MovesKeep

-----------------------------------------------------------------------------
(* The theorems.                                                            *)

\* Every step of every process preserves what the processes rely on.
THEOREM RunsStep == RunInv /\ [Next]_vars => RunInv'
<1> SUFFICES ASSUME RunInv, [Next]_vars PROVE RunInv'
  OBVIOUS
<1>1. TypeInv'
  BY TypeStep DEF RunInv
<1>2. CASE Operator
  BY <1>1, <1>2, RunsOperator
<1>3. ASSUME NEW p \in Procs, Begin(p) \/ Continue(p) \/ Crash(p) PROVE RunInv'
  BY <1>1, <1>3, RunsCommand, RunsSingle, RunsRun, RunsBatch, RunsClose DEF Continue
<1>4. CASE UNCHANGED vars \/ \E t \in Tasks : LoseLease(t)
  BY <1>1, <1>4, RunsRest
<1> QED
  BY <1>2, <1>3, <1>4 DEF Next

\* At any time only the latest run of a task is without a terminal record, however many
\* processes run, crash and retry (prepareVerificationRun settles the one it finds).
THEOREM OnlyLatestRunIsOpenHolds == Spec => []OnlyLatestRunIsOpen
<1>1. RunInv => OnlyLatestRunIsOpen
  BY DEF RunInv
<1> QED
  BY <1>1, RunsInit, RunsStep, PTL DEF Spec

\* No terminal record is written over evidence without a step record, so no retry of
\* `done` meets evidence it cannot reconcile (reconcileVerificationEvidenceOrphans).
THEOREM NoStrandedEvidenceHolds == Spec => []NoStrandedEvidence
<1>1. RunInv => NoStrandedEvidence
  BY DEF RunInv
<1> QED
  BY <1>1, RunsInit, RunsStep, PTL DEF Spec

\* A step record names evidence of its own task, attempt, run and step, and a passed
\* record stands for steps that all passed, also when another process finished the run.
THEOREM RunsAreCoherentHolds == Spec => []RunsAreCoherent
<1>1. RunInv => RunsAreCoherent
  BY DEF RunInv
<1> QED
  BY <1>1, RunsInit, RunsStep, PTL DEF Spec

-----------------------------------------------------------------------------
(* What a single step may do to the run ledger.                             *)

RunsGrow == /\ Len(runs') >= Len(runs)
            /\ \A r \in 1..Len(runs) :
                 /\ runs'[r].task = runs[r].task /\ runs'[r].attempt = runs[r].attempt
                 /\ runs[r].term # "none" => runs'[r].term = runs[r].term
                 /\ \A s \in 1..Steps : runs[r].steps[s] # 0 => runs'[r].steps[s] = runs[r].steps[s]

\* A terminal record for an open run, a step record for a missing one.
LEMMA WritesGrow ==
  ASSUME TypeOK, NEW r \in 1..Len(runs),
         \/ /\ runs[r].term = "none"
            /\ \E x \in Terminals : runs' = [runs EXCEPT ![r].term = x]
         \/ \E s \in 1..Steps, e \in Nat :
              runs[r].steps[s] = 0 /\ runs' = [runs EXCEPT ![r].steps[s] = e]
  PROVE  RunsGrow
<1>1. Len(runs) \in Nat
  BY Lengths
<1>2. ASSUME NEW x \in Terminals, runs[r].term = "none", runs' = [runs EXCEPT ![r].term = x]
      PROVE  RunsGrow
  BY <1>1, <1>2, TermSet DEF RunsGrow
<1>3. ASSUME NEW s \in 1..Steps, NEW e \in Nat, runs[r].steps[s] = 0,
             runs' = [runs EXCEPT ![r].steps[s] = e]
      PROVE  RunsGrow
  BY <1>1, <1>3, StepSet DEF RunsGrow
<1> QED
  BY <1>2, <1>3

\* The five actions that write the run ledger.
LEMMA RunActionsGrow ==
  ASSUME RunInv, NEW p \in Procs,
         \/ Reconcile(p) \/ Supersede(p) \/ StartRun(p) \/ FailTerminal(p) \/ Finalize(p)
         \/ \E io \in BOOLEAN : RecordStep(p, io)
  PROVE  RunsGrow
<1> USE DEF RunInv, TypeInv
<1> DEFINE r == w[p].run
<1>1. Len(runs) \in Nat /\ Len(evidence) \in Nat /\ w[p] \in Worker
  BY Lengths DEF TypeOK
<1>2. CASE runs' = runs
  BY <1>1, <1>2 DEF RunsGrow
<1>3. ASSUME NEW x \in Terminals, runs' # runs, runs[r].term = "none",
             runs' = [runs EXCEPT ![r].term = x]
      PROVE  RunsGrow
  <2>1. CASE r \in 1..Len(runs)
    BY <1>3, <2>1, WritesGrow
  <2>2. CASE r \notin 1..Len(runs)
    <3>1. [runs EXCEPT ![r].term = x] = runs
      BY <2>2, LenProperties DEF TypeOK
    <3> QED
      BY <1>3, <3>1
  <2> QED
    BY <2>1, <2>2
<1>4. CASE Reconcile(p) /\ runs' # runs
  <2>1. PICK i \in 1..Len(evidence) :
          Orphan(i, r) /\ runs' = [runs EXCEPT ![r].steps[evidence[i].step] = i]
    BY <1>4 DEF Reconcile
  <2>2. HasOrphan(r)
    BY <1>4 DEF Reconcile, Unreconciled
  <2>3. r \in 1..Len(runs) /\ evidence[i].step \in 1..Steps /\ runs[r].steps[evidence[i].step] = 0
    BY <2>1, <2>2 DEF HasOrphan, Orphan, EvidenceOfRun
  <2>4. PICK s \in 1..Steps, e \in Nat : s = evidence[i].step /\ e = i
    BY <1>1, <2>3
  <2>5. runs[r].steps[s] = 0 /\ runs' = [runs EXCEPT ![r].steps[s] = e]
    BY <2>1, <2>3, <2>4
  <2> QED
    BY <2>3, <2>5, WritesGrow
<1>5. CASE Supersede(p) /\ runs' # runs
  <2>1. runs' = [runs EXCEPT ![r].term = "superseded"] /\ runs[r].term = "none"
    BY <1>5 DEF Supersede, OpenRun
  <2>2. "superseded" \in Terminals
    BY DEF Terminals
  <2> QED
    BY <1>3, <1>5, <2>1, <2>2
<1>6. CASE StartRun(p) /\ runs' # runs
  <2> DEFINE new == [task |-> w[p].t, attempt |-> task[w[p].t].attempt,
                     steps |-> [s \in 1..Steps |-> 0], term |-> "none"]
  <2>1. runs' = Append(runs, new)
    BY <1>6 DEF StartRun
  <2>2. Len(runs') = Len(runs) + 1 /\ \A n \in 1..Len(runs) : runs'[n] = runs[n]
    <3> HIDE DEF new
    <3> QED
      BY <2>1 DEF TypeOK
  <2> QED
    BY <1>1, <2>2 DEF RunsGrow
<1>7. CASE FailTerminal(p) /\ runs' # runs
  <2>1. runs' = [runs EXCEPT ![r].term = w[p].term] /\ runs[r].term = "none"
    BY <1>7 DEF FailTerminal, OpenRun
  <2>2. PICK x \in Terminals : x = w[p].term
    BY <1>1 DEF Worker
  <2> QED
    BY <1>3, <1>7, <2>1, <2>2
<1>8. CASE Finalize(p) /\ runs' # runs
  <2>1. runs' = [runs EXCEPT ![r].term = IF @ = "none" THEN "passed" ELSE @] /\ CompleteRun(r)
    BY <1>8 DEF Finalize
  <2>2. PICK x \in {"passed", runs[r].term} : /\ runs' = [runs EXCEPT ![r].term = x]
                                              /\ runs[r].term = "none" => x = "passed"
                                              /\ runs[r].term # "none" => x = runs[r].term
    BY <2>1
  <2>3. r \in 1..Len(runs)
    <3>1. SUFFICES ASSUME r \notin 1..Len(runs) PROVE FALSE
      OBVIOUS
    <3>2. [runs EXCEPT ![r].term = x] = runs
      BY <3>1, LenProperties DEF TypeOK
    <3> QED
      BY <1>8, <2>2, <3>2
  <2>4. runs[r] \in Run
    BY <2>3, ElementOfSeq DEF TypeOK
  <2>5. x \in Terminals
    BY <2>2, <2>4 DEF Run, Terminals
  <2>6. CASE runs[r].term = "none"
    BY <2>2, <2>3, <2>5, <2>6, WritesGrow
  <2>7. CASE runs[r].term # "none"
    BY <1>1, <2>2, <2>3, <2>5, <2>7, TermSet DEF RunsGrow
  <2> QED
    BY <2>6, <2>7
<1>9. ASSUME NEW io \in BOOLEAN, RecordStep(p, io), runs' # runs PROVE RunsGrow
  <2>1. w[p].pc = "step" /\ runs' = [runs EXCEPT ![r].steps[w[p].step] = w[p].ev]
    BY <1>9 DEF RecordStep, At
  <2>2. /\ r \in 1..Len(runs) /\ w[p].step \in 1..Steps /\ w[p].ev \in Nat
        /\ runs[r].steps[w[p].step] = 0
    BY <1>1, <2>1 DEF StepsInOrder, StepHalfDone, Stepping, Worker
  <2> QED
    BY <2>1, <2>2, WritesGrow
<1> QED
  BY <1>2, <1>4, <1>5, <1>6, <1>7, <1>8, <1>9

\* Whatever a process does, the records the ledger holds stand.
LEMMA StepGrows == RunInv /\ [Next]_vars => RunsGrow
<1> SUFFICES ASSUME RunInv, [Next]_vars PROVE RunsGrow
  OBVIOUS
<1>1. Len(runs) \in Nat
  BY Lengths DEF RunInv, TypeInv
<1>2. CASE runs' = runs
  BY <1>1, <1>2 DEF RunsGrow
<1>3. CASE runs' # runs
  <2>1. ~Operator
    BY <1>3 DEF Operator, StartTasks, TransitionTask, DeclareEvidence, Reverify, EditArtifact,
                Archive, files
  <2>2. \A p \in Procs : ~Begin(p) /\ ~Crash(p)
    BY <1>3 DEF Begin, DoneBegin, CloseOpen, MarkClosed, CarryOpen, CloseAgain, Crash, Keep, files
  <2>3. \A t \in Tasks : ~LoseLease(t)
    BY <1>3 DEF LoseLease, files
  <2>4. PICK p \in Procs : Continue(p)
    BY <1>3, <2>1, <2>2, <2>3 DEF Next, vars
  <2>5. \A ok \in BOOLEAN : ~CommitSingle(p, ok) /\ ~CommitStep(p, ok) /\ ~CommitBatch(p, ok)
    BY <1>3 DEF CommitSingle, CommitStep, CommitBatch, Keep, files
  <2>6. /\ ~AcquireLease(p) /\ ~Busy(p) /\ ~LockTimeout(p) /\ ~Snapshot(p) /\ ~VerifyBegin(p)
        /\ ~LeaseLost(p)
    BY <1>3 DEF AcquireLease, Busy, LockTimeout, Snapshot, VerifyBegin, LeaseLost, Keep, files
  <2>7. /\ ~FinishSingle(p) /\ ~DoneBare(p) /\ ~Prepare(p) /\ ~Recover(p)
        /\ ~FailRun(p) /\ ~CompleteBegin(p) /\ ~CommitRun(p)
    BY <1>3 DEF FinishSingle, DoneBare, Prepare, Recover, FailRun, CompleteBegin, CommitRun,
                Keep, files
  <2>8. /\ \A t \in Tasks : ~BatchEvidence(p, t) /\ ~BatchDone(p, t)
        /\ ~BatchEnd(p) /\ ~BatchUndo(p) /\ ~BatchUndoEvidence(p)
    BY <1>3 DEF BatchEvidence, BatchDone, BatchEnd, BatchUndo, BatchUndoEvidence, Keep, files
  <2>9. /\ ~CarryRows(p) /\ ~CarryClose(p)
        /\ \A io \in BOOLEAN : ~ClosePlan(p, io) /\ ~CloseEvent(p, io)
    BY <1>3 DEF CarryRows, CarryClose, MarkClosed, ClosePlan, CloseEvent, Keep, files
  <2> QED
    BY <2>4, <2>5, <2>6, <2>7, <2>8, <2>9, RunActionsGrow DEF Continue
<1> QED
  BY <1>2, <1>3

\* A step or terminal record, once written, is never changed or taken back: not by a
\* retry, a recovery, a failed batch or a second process on the same task.
THEOREM RunLedgerOnlyGrowsHolds == Spec => RunLedgerOnlyGrows
<1>1. RunInv /\ [Next]_vars => [RunsGrow]_vars
  BY StepGrows
<1>2. RunLedgerOnlyGrows <=> [][RunsGrow]_vars
  BY PTL DEF RunLedgerOnlyGrows, RunsGrow
<1> QED
  BY <1>1, <1>2, RunsInit, RunsStep, PTL DEF Spec
=============================================================================
