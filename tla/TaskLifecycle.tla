--------------------------- MODULE TaskLifecycle ---------------------------
(***************************************************************************)
(* One workbench session: the task rows of its State Board, its evidence   *)
(* ledger, its verification-run ledger and its closed/archived marks, as    *)
(* changed by concurrent `afol` processes.                                  *)
(*                                                                         *)
(* Every handler runs under the session lock (withSessionLock), assumed     *)
(* exclusive here and studied in module SessionLock.  A handler that makes  *)
(* one durable write is one action.  A handler that makes several keeps     *)
(* `lock` between them, so a crash can fall between any two.  The test      *)
(* commands of `done` run with no lock held, under the completion lease of  *)
(* the task only (module CompletionLease).                                  *)
(***************************************************************************)
EXTENDS Integers, Sequences

CONSTANTS
  Procs,        \* concurrent afol processes
  NoProc,       \* "nobody"
  NumTasks,     \* task rows of the session
  Steps,        \* commands given to a multi-test `done`
  Policies,     \* completion policies in use
  Contents,     \* distinguishable texts of a declared evidence entry
  Modes,        \* forms of `done` in use
  Ops,          \* optional commands in use
  MaxAttempt, MaxEvidence, MaxRuns, MaxConts   \* bounds on the counters

ASSUME ProcsAssumption == NoProc \notin Procs
ASSUME SizeAssumption ==
  /\ NumTasks \in Nat \ {0} /\ Steps \in Nat \ {0}
  /\ MaxAttempt \in Nat /\ MaxEvidence \in Nat /\ MaxRuns \in Nat /\ MaxConts \in Nat
ASSUME PolicyAssumption == "execution" \in Policies
                           /\ Policies \subseteq {"execution", "artifact", "waiver"}

Tasks == 1..NumTasks

States == {"pending", "in_progress", "implemented_untested",
           "tested_needs_spec_validation", "problem", "done", "moved"}

\* TASK_STATE_TRANSITIONS
Arrows == [pending                      |-> {"in_progress", "moved"},
           in_progress                  |-> {"implemented_untested", "problem", "moved"},
           implemented_untested         |-> {"tested_needs_spec_validation", "problem"},
           tested_needs_spec_validation |-> {"done", "problem"},
           problem                      |-> {"in_progress", "moved"},
           done                         |-> {},
           moved                        |-> {}]

\* Mutated form: an observed test completes a moved row.
EligibleOrMoved == {"in_progress", "implemented_untested", "tested_needs_spec_validation", "moved"}

\* The states from which an observed test may carry a task to done.
Eligible == {"in_progress", "implemented_untested", "tested_needs_spec_validation"}
Settled  == {"done", "moved"}

VARIABLES
  task,         \* [Tasks -> row]: the State Board
  evidence,     \* .evidence.jsonl; an entry's id is its position
  runs,         \* .verification-runs.jsonl, one record per run
  artifact,     \* current content of the artifact file
  closed,       \* the task file's frontmatter says closed
  closeLogged,  \* the ledger holds the workbench.close event
  archived,     \* the ledger's last archive/restore event says archived
  conts,        \* continuation sessions created by carry-open
  lease,        \* [Tasks -> holder of the completion lease]
  lock,         \* holder of the session lock
  w             \* [Procs -> what the process remembers]

files  == <<task, evidence, runs, closed, closeLogged, archived, conts>>
vars   == <<task, evidence, runs, artifact, closed, closeLogged, archived, conts,
            lease, lock, w>>

Row == [state : States, attempt : Nat, policy : Policies, dest : Nat]

Evidence == [task : Tasks, attempt : Nat, kind : {"observed", "declared"},
             ok : BOOLEAN, auth : Policies, art : {0, 1}, run : Nat, step : Nat,
             note : Contents \cup {0},
             began : Nat]   \* history: the task's attempt when the command began

Terminals == {"none", "passed", "failed", "interrupted", "superseded"}
Run == [task : Tasks, attempt : Nat, steps : [1..Steps -> Nat], term : Terminals]

PCs == {"idle", "acquire", "snapshot", "verify", "running", "finish",
        "prepare", "reconcile", "step", "fail", "failing", "complete", "finalize", "commit",
        "batchEvidence", "batchDone", "batchUndo",
        "carry", "carried", "closing", "remap", "logging"}

Worker == [pc : PCs, mode : Modes \cup {"none"}, t : Tasks, ts : SUBSET Tasks,
           snap : [Tasks -> Nat], began : [Tasks -> Nat], ok : BOOLEAN,
           run : Nat, step : Nat, ev : Nat, rows : [Tasks -> Row], len : Nat,
           term : Terminals]

Row0  == [state |-> "pending", attempt |-> 0, policy |-> "execution", dest |-> 0]
Idle  == [pc |-> "idle", mode |-> "none", t |-> 1, ts |-> {},
          snap |-> [t \in Tasks |-> 0], began |-> [t \in Tasks |-> 0], ok |-> FALSE,
          run |-> 0, step |-> 0, ev |-> 0, rows |-> [t \in Tasks |-> Row0], len |-> 0,
          term |-> "none"]

TypeOK ==
  /\ task \in [Tasks -> Row]
  /\ evidence \in Seq(Evidence)
  /\ runs \in Seq(Run)
  /\ artifact \in {0, 1}
  /\ closed \in BOOLEAN /\ closeLogged \in BOOLEAN /\ archived \in BOOLEAN
  /\ conts \in Nat
  /\ lease \in [Tasks -> Procs \cup {NoProc}]
  /\ lock \in Procs \cup {NoProc}
  /\ w \in [Procs -> Worker]

Init ==
  /\ task = [t \in Tasks |-> Row0]
  /\ evidence = <<>> /\ runs = <<>>
  /\ artifact = 0
  /\ closed = FALSE /\ closeLogged = FALSE /\ archived = FALSE
  /\ conts = 0
  /\ lease = [t \in Tasks |-> NoProc]
  /\ lock = NoProc
  /\ w = [p \in Procs |-> Idle]

-----------------------------------------------------------------------------
(* Rows, evidence and runs: what the handlers read.                        *)

\* Mutated form: the attempt is counted down.
BumpDown(s) == IF s \in {"in_progress", "problem"} THEN -1 ELSE 0

\* transitionTaskStateChains: entering in_progress or problem opens a new attempt.
Bump(s) == IF s \in {"in_progress", "problem"} THEN 1 ELSE 0
Move(row, s) == [row EXCEPT !.state = s, !.attempt = @ + Bump(s)]

\* evidenceCompletionAuthorization, entry by entry.
Passing(e, policy)  == e.ok /\ IF policy = "execution" THEN e.kind = "observed"
                                                       ELSE e.auth = policy
Decisive(e, policy) == ~e.ok \/ Passing(e, policy)
Files(i, t) == /\ i \in 1..Len(evidence)
               /\ evidence[i].task = t /\ evidence[i].attempt = task[t].attempt

\* Mutated forms: evidence of any attempt counts; evidence of any kind counts.
AuthorizesAnyAttempt(i, t) ==
  i \in 1..Len(evidence) /\ evidence[i].task = t /\ Passing(evidence[i], task[t].policy)
AuthorizesAnyKind(i, t) == Files(i, t) /\ evidence[i].ok

\* The last decisive entry of the task's current attempt is entry i, and it passes.
Authorizes(i, t) ==
  /\ Files(i, t) /\ Passing(evidence[i], task[t].policy)
  /\ \A j \in i+1..Len(evidence) : Files(j, t) => ~Decisive(evidence[j], task[t].policy)

\* runHasCompletePassedSteps
CompleteRun(r) == \A s \in 1..Steps : /\ runs[r].steps[s] \in 1..Len(evidence)
                                      /\ evidence[runs[r].steps[s]].ok

\* verificationRunRecordsAuthorize
RunAuthorizes(r, i, t) ==
  /\ r \in 1..Len(runs)
  /\ runs[r].task = t /\ runs[r].attempt = task[t].attempt
  /\ CompleteRun(r) /\ runs[r].term = "passed" /\ runs[r].steps[Steps] = i

RunBacks(i, t) == evidence[i].run # 0 => RunAuthorizes(evidence[i].run, i, t)

\* doneTaskEvidenceIssue finds nothing: the strict verification of one done task.
Verified(t) == \E i \in 1..Len(evidence) : Authorizes(i, t) /\ RunBacks(i, t)
StrictOk    == \A t \in Tasks : task[t].state = "done" => Verified(t)

\* latestRunForTask; 0 when the task has none.
IsLatestRun(t, r) ==
  /\ r # 0 => runs[r].task = t
  /\ \A q \in r+1..Len(runs) : runs[q].task # t

\* Mutated form: the run id of an orphan is not compared.
OrphanOfAnyRun(i, r) == /\ i \in 1..Len(evidence) /\ evidence[i].step # 0
                        /\ runs[r].steps[evidence[i].step] = 0

\* Evidence tagged with run r whose step record is missing.
Orphan(i, r) == /\ i \in 1..Len(evidence) /\ evidence[i].run = r
                /\ runs[r].steps[evidence[i].step] = 0
HasOrphan(r) == r # 0 /\ \E i \in 1..Len(evidence) : Orphan(i, r)

\* Mutated forms: runs of older attempts are not settled; a settled run is settled again.
OpenRunOfAttempt(r) == /\ r # 0 /\ runs[r].term = "none"
                       /\ runs[r].attempt = task[runs[r].task].attempt
AnyRun(r) == r # 0

\* terminalForRun finds nothing.
OpenRun(r) == r # 0 /\ runs[r].term = "none"

Artful(t) == IF task[t].policy = "artifact" THEN artifact ELSE 0

\* What recordEvidence files: under the attempt and the policy the row has now.
Entry(t, kind, ok, run, step, note, began) ==
  [task |-> t, attempt |-> task[t].attempt, kind |-> kind, ok |-> ok,
   auth |-> task[t].policy, art |-> Artful(t), run |-> run, step |-> step,
   note |-> note, began |-> began]

Room == Len(evidence) < MaxEvidence

-----------------------------------------------------------------------------
(* Processes, the session lock and the leases.                             *)

Free == lock = NoProc
Owns(p) == \A t \in w[p].ts : lease[t] = p     \* lease.assertOwned

Goto(p, pc) == w' = [w EXCEPT ![p].pc = pc]

\* The command ends, well or with an error: its locks and leases are released.
Return(p) ==
  /\ w' = [w EXCEPT ![p] = Idle]
  /\ lease' = [t \in Tasks |-> IF lease[t] = p THEN NoProc ELSE lease[t]]
  /\ lock' = IF lock = p THEN NoProc ELSE lock

At(p, pc) == w[p].pc = pc

\* The task is still in the attempt the process took its snapshot of.
Fresh(p, t) == task[t].attempt = w[p].snap[t]
Keep == UNCHANGED files

-----------------------------------------------------------------------------
(* Commands that make a single write.                                      *)

\* startTasks: all the selected rows or none.
StartTasks(S) ==
  /\ Free /\ ~closed /\ S # {}
  /\ \A t \in S : /\ "in_progress" \in Arrows[task[t].state]
                  /\ task[t].attempt < MaxAttempt
  /\ task' = [t \in Tasks |-> IF t \in S THEN Move(task[t], "in_progress") ELSE task[t]]
  /\ UNCHANGED <<evidence, runs, artifact, closed, closeLogged, archived, conts, lease, lock, w>>

\* transitionTask; `done` has its own command.
TransitionTask(t, s, policy) ==
  /\ Free /\ ~closed /\ s # "done" /\ s \in Arrows[task[t].state]
  /\ task[t].attempt + Bump(s) <= MaxAttempt
  /\ task' = [task EXCEPT ![t] = [Move(@, s) EXCEPT !.policy = policy]]
  /\ UNCHANGED <<evidence, runs, artifact, closed, closeLogged, archived, conts, lease, lock, w>>

\* recordEvidence of a declared result: an identical entry is not written again.
DeclareEvidence(t, ok, note) ==
  LET e == Entry(t, "declared", ok, 0, 0, note, task[t].attempt) IN
  /\ "declare" \in Ops /\ Free /\ ~closed /\ Room
  /\ \A i \in 1..Len(evidence) : evidence[i] # e
  /\ evidence' = Append(evidence, e)
  /\ UNCHANGED <<task, runs, artifact, closed, closeLogged, archived, conts, lease, lock, w>>

\* recordClosedTaskReverification: it passes neither artifact nor approval.
Reverify(t, ok) ==
  /\ "close" \in Ops /\ Free /\ closed /\ ~archived /\ Room
  /\ task[t].state = "done" /\ task[t].policy = "execution"
  /\ evidence' = Append(evidence, Entry(t, "observed", ok, 0, 0, 0, task[t].attempt))
  /\ UNCHANGED <<task, runs, artifact, closed, closeLogged, archived, conts, lease, lock, w>>

\* Somebody edits the artifact an artifact-policy task is judged by.
EditArtifact ==
  /\ "artifact" \in Policies
  /\ artifact' = 1 - artifact
  /\ UNCHANGED <<files, lease, lock, w>>

\* archiveSessions and restoreSessions, seen from the session.
Archive(a) ==
  /\ "archive" \in Ops /\ Free /\ closed /\ archived = ~a
  /\ archived' = a
  /\ UNCHANGED <<task, evidence, runs, artifact, closed, closeLogged, conts, lease, lock, w>>

-----------------------------------------------------------------------------
(* `done`: leases, snapshot, then the commands outside every lock.         *)

Forms(S) == (IF \E t \in Tasks : S = {t} THEN Modes \ {"batch"} ELSE Modes \cap {"batch"})

DoneBegin(p, mode, S) ==
  /\ At(p, "idle") /\ mode \in Forms(S)
  /\ \E t \in S :
       /\ \A u \in S : t <= u
       /\ w' = [w EXCEPT ![p] = [Idle EXCEPT !.pc = "acquire", !.mode = mode, !.ts = S, !.t = t]]
  /\ UNCHANGED <<files, artifact, lease, lock>>

\* withTaskCompletionLocks takes the leases in the order of the task ids.
AcquireLease(p) ==
  LET t == w[p].t
      later == {u \in w[p].ts : u > t} IN
  /\ At(p, "acquire") /\ lease[t] = NoProc
  /\ lease' = [lease EXCEPT ![t] = p]
  /\ \/ later = {} /\ Goto(p, "snapshot")
     \/ \E u \in later : (\A v \in later : u <= v) /\ w' = [w EXCEPT ![p].t = u]
  /\ UNCHANGED <<files, artifact, lock>>

\* TaskCompletionBusyError after the lease timeout.
Busy(p) ==
  /\ At(p, "acquire") /\ lease[w[p].t] # NoProc
  /\ Return(p) /\ Keep /\ UNCHANGED artifact

\* The session lock stays taken until withSessionLock times out.
LockTimeout(p) ==
  /\ ~Free
  /\ \/ /\ \/ w[p].pc \in {"snapshot", "prepare", "fail", "complete"}
           \/ At(p, "running") /\ w[p].mode # "multi"
        /\ Return(p)
     \/ /\ At(p, "running") /\ w[p].mode = "multi"
        /\ w' = [w EXCEPT ![p].pc = "fail", ![p].term = "interrupted"]
        /\ UNCHANGED <<lease, lock>>
  /\ Keep /\ UNCHANGED artifact

\* taskAttemptSnapshot, or assertObservedBatchTasksReady for a batch.
BatchReady(S) == \A t \in S : task[t].state \in Eligible \cup {"done"} /\ task[t].policy = "execution"

Snapshot(p) ==
  /\ At(p, "snapshot") /\ w[p].mode \in {"single", "multi", "batch"} /\ Free
  /\ IF closed \/ (w[p].mode = "batch" /\ ~(Owns(p) /\ BatchReady(w[p].ts)))
     THEN Return(p)
     ELSE /\ w' = [w EXCEPT ![p].snap = [t \in Tasks |-> task[t].attempt],
                            ![p].pc = IF w[p].mode = "multi" THEN "prepare" ELSE "verify"]
          /\ UNCHANGED <<lease, lock>>
  /\ Keep /\ UNCHANGED artifact

\* runVerificationAsync starts the next command.
VerifyBegin(p) ==
  /\ At(p, "verify")
  /\ w' = [w EXCEPT ![p].pc = "running", ![p].began = [t \in Tasks |-> task[t].attempt]]
  /\ UNCHANGED <<files, artifact, lease, lock>>

\* The lease is gone when the command ends: DoneLockLostError.
LeaseLost(p) ==
  /\ At(p, "running") /\ ~Owns(p)
  /\ Return(p) /\ Keep /\ UNCHANGED artifact

-----------------------------------------------------------------------------
(* One command (completeObservedTask) and no command (doneTask alone).     *)

\* Mutated form: the session lock is let go between the evidence and the row.
CommitSingleUnlocked(p, ok) ==
  LET t == w[p].t IN
  /\ At(p, "running") /\ w[p].mode = "single" /\ Owns(p) /\ Free
  /\ ~closed /\ Fresh(p, t) /\ task[t].policy # "waiver" /\ Room
  /\ evidence' = Append(evidence, Entry(t, "observed", ok, 0, 0, 0, w[p].began[t]))
  /\ w' = [w EXCEPT ![p].pc = "finish", ![p].ev = Len(evidence) + 1]
  /\ UNCHANGED <<task, runs, artifact, closed, closeLogged, archived, conts, lease, lock>>

\* File the observed result under the attempt the snapshot was taken in.
CommitSingle(p, ok) ==
  LET t == w[p].t IN
  /\ At(p, "running") /\ w[p].mode = "single" /\ Owns(p) /\ Free
  /\ IF closed \/ ~Fresh(p, t) \/ task[t].policy = "waiver" \/ ~Room
     THEN Return(p) /\ UNCHANGED evidence
     ELSE /\ evidence' = Append(evidence, Entry(t, "observed", ok, 0, 0, 0, w[p].began[t]))
          /\ IF ok THEN /\ w' = [w EXCEPT ![p].pc = "finish", ![p].ev = Len(evidence) + 1]
                        /\ lock' = p /\ UNCHANGED lease
                   ELSE Return(p)
  /\ UNCHANGED <<task, runs, artifact, closed, closeLogged, archived, conts>>

\* doneTask on that entry alone: it passes the fence, its artifact is unchanged.
FinishSingle(p) ==
  LET t == w[p].t
      e == evidence[w[p].ev] IN
  /\ At(p, "finish")
  /\ task' = IF /\ Passing(e, e.auth) /\ (e.auth = "artifact" => e.art = artifact)
                /\ task[t].state \in Eligible /\ Owns(p)
             THEN [task EXCEPT ![t].state = "done"] ELSE task
  /\ Return(p)
  /\ UNCHANGED <<evidence, runs, artifact, closed, closeLogged, archived, conts>>

\* doneTask on the whole ledger; without an observed test only the last arrow is taken.
DoneBare(p) ==
  LET t == w[p].t IN
  /\ At(p, "snapshot") /\ w[p].mode = "bare" /\ Free
  /\ task' = IF /\ ~closed /\ Owns(p) /\ task[t].state = "tested_needs_spec_validation"
                /\ \E i \in 1..Len(evidence) :
                     /\ Authorizes(i, t) /\ RunBacks(i, t)
                     /\ task[t].policy = "artifact" => evidence[i].art = artifact
             THEN [task EXCEPT ![t].state = "done"] ELSE task
  /\ Return(p)
  /\ UNCHANGED <<evidence, runs, artifact, closed, closeLogged, archived, conts>>

-----------------------------------------------------------------------------
(* Several commands: a verification run.                                   *)

\* prepareVerificationRun: the checks, then the latest run of the task is reconciled.
Prepare(p) ==
  LET t == w[p].t IN
  /\ At(p, "prepare") /\ Free
  /\ IF /\ Owns(p) /\ ~closed /\ Fresh(p, t)
        /\ task[t].state \in Eligible \cup {"done"}
     THEN /\ \E r \in 0..Len(runs) :
               IsLatestRun(t, r) /\ w' = [w EXCEPT ![p].pc = "reconcile", ![p].run = r]
          /\ lock' = p /\ UNCHANGED lease
     ELSE Return(p)
  /\ Keep /\ UNCHANGED artifact

\* Mutated form: orphans are ignored.
NeverUnreconciled(p) == FALSE

Unreconciled(p) == HasOrphan(w[p].run)

\* reconcileVerificationEvidenceOrphans writes the missing step records one by one.
Reconcile(p) ==
  LET r == w[p].run IN
  /\ w[p].pc \in {"reconcile", "failing"} /\ Unreconciled(p)
  /\ IF Owns(p) /\ runs[r].term = "none"    \* a terminal run refuses steps
     THEN /\ \E i \in 1..Len(evidence) :
               /\ Orphan(i, r) /\ \A j \in 1..i-1 : ~Orphan(j, r)
               /\ runs' = [runs EXCEPT ![r].steps[evidence[i].step] = i]
          /\ UNCHANGED <<lease, lock, w>>
     ELSE Return(p) /\ UNCHANGED runs
  /\ UNCHANGED <<task, evidence, artifact, closed, closeLogged, archived, conts>>

Recoverable(t, r) == /\ r # 0 /\ runs[r].attempt = task[t].attempt
                     /\ CompleteRun(r) /\ runs[r].term \in {"none", "passed"}

\* A previous process completed every step and died: finish its run instead.
Recover(p) ==
  /\ At(p, "reconcile") /\ ~Unreconciled(p) /\ Recoverable(w[p].t, w[p].run)
  /\ Goto(p, "finalize")
  /\ UNCHANGED <<files, artifact, lease, lock>>

\* An open run that cannot be recovered is superseded.
Supersede(p) ==
  LET r == w[p].run IN
  /\ At(p, "reconcile") /\ ~Unreconciled(p) /\ OpenRun(r) /\ ~Recoverable(w[p].t, r)
  /\ IF Owns(p) THEN /\ runs' = [runs EXCEPT ![r].term = "superseded"]
                     /\ UNCHANGED <<lease, lock, w>>
                ELSE Return(p) /\ UNCHANGED runs
  /\ UNCHANGED <<task, evidence, artifact, closed, closeLogged, archived, conts>>

StartRun(p) ==
  LET t == w[p].t
      r == w[p].run IN
  /\ At(p, "reconcile") /\ ~Unreconciled(p) /\ ~OpenRun(r) /\ ~Recoverable(t, r)
  /\ IF task[t].state # "done" /\ Owns(p) /\ Len(runs) < MaxRuns
     THEN /\ runs' = Append(runs, [task |-> t, attempt |-> task[t].attempt,
                                   steps |-> [s \in 1..Steps |-> 0], term |-> "none"])
          /\ w' = [w EXCEPT ![p].pc = "verify", ![p].run = Len(runs) + 1, ![p].step = 1]
          /\ lock' = NoProc /\ UNCHANGED lease
     ELSE Return(p) /\ UNCHANGED runs
  /\ UNCHANGED <<task, evidence, artifact, closed, closeLogged, archived, conts>>

\* Mutated form: the attempt of the run is not compared with the row's.
StepOfAnyAttempt(t, r) == /\ ~closed /\ task[t].state \in Eligible
                          /\ IsLatestRun(t, r) /\ runs[r].term = "none"

\* recordVerificationRunStep accepts a result only for the current, open run.
StepCurrent(t, r) == /\ ~closed /\ task[t].attempt = runs[r].attempt
                     /\ task[t].state \in Eligible
                     /\ IsLatestRun(t, r) /\ runs[r].term = "none"

\* The first write of recordVerificationRunStep: the evidence entry.
CommitStep(p, ok) ==
  LET t == w[p].t
      r == w[p].run IN
  /\ At(p, "running") /\ w[p].mode = "multi" /\ Owns(p) /\ Free
  /\ IF StepCurrent(t, r) /\ task[t].policy # "waiver" /\ Room
     THEN /\ evidence' = Append(evidence, Entry(t, "observed", ok, r, w[p].step, 0, w[p].began[t]))
          /\ w' = [w EXCEPT ![p].pc = "step", ![p].ok = ok, ![p].ev = Len(evidence) + 1]
          /\ lock' = p
     ELSE /\ w' = [w EXCEPT ![p].pc = "fail", ![p].term = "interrupted"]
          /\ UNCHANGED <<evidence, lock>>
  /\ UNCHANGED <<task, runs, artifact, closed, closeLogged, archived, conts, lease>>

\* Its second write, the step record; an I/O error leaves an orphan behind.
RecordStep(p, io) ==
  LET r == w[p].run
      s == w[p].step IN
  /\ At(p, "step")
  /\ IF io /\ Owns(p)
     THEN /\ runs' = [runs EXCEPT ![r].steps[s] = w[p].ev]
          /\ w' = [w EXCEPT ![p].pc = CASE ~w[p].ok -> "fail"
                                        [] w[p].ok /\ s = Steps -> "complete"
                                        [] OTHER -> "verify",
                            ![p].step = IF w[p].ok /\ s < Steps THEN s + 1 ELSE s,
                            ![p].term = IF w[p].ok THEN "none" ELSE "failed"]
     ELSE /\ w' = [w EXCEPT ![p].pc = "fail", ![p].term = "interrupted"]
          /\ UNCHANGED runs
  /\ lock' = NoProc
  /\ UNCHANGED <<task, evidence, artifact, closed, closeLogged, archived, conts, lease>>

\* Mutated form: it waits for a lease it has lost.
FailRunOwned(p) ==
  /\ At(p, "fail") /\ Free /\ Owns(p)
  /\ Goto(p, "failing") /\ lock' = p /\ UNCHANGED lease
  /\ Keep /\ UNCHANGED artifact

\* failVerificationRun: only the fence is checked, neither attempt nor session.
FailRun(p) ==
  /\ At(p, "fail") /\ Free
  /\ IF Owns(p) THEN Goto(p, "failing") /\ lock' = p /\ UNCHANGED lease ELSE Return(p)
  /\ Keep /\ UNCHANGED artifact

FailTerminal(p) ==
  LET r == w[p].run IN
  /\ At(p, "failing") /\ ~Unreconciled(p)
  /\ runs' = IF Owns(p) /\ OpenRun(r)
             THEN [runs EXCEPT ![r].term = w[p].term] ELSE runs
  /\ Return(p)
  /\ UNCHANGED <<task, evidence, artifact, closed, closeLogged, archived, conts>>

CompleteBegin(p) ==
  /\ At(p, "complete") /\ Free
  /\ IF Owns(p) THEN Goto(p, "finalize") /\ lock' = p /\ UNCHANGED lease ELSE Return(p)
  /\ Keep /\ UNCHANGED artifact

\* finalizeRecoveredRun, first write: the run's terminal record.
Finalize(p) ==
  LET t == w[p].t
      r == w[p].run IN
  /\ At(p, "finalize")
  /\ IF /\ task[t].attempt = runs[r].attempt /\ CompleteRun(r) /\ Owns(p)
        /\ task[t].state \in Eligible \/ (task[t].state = "done" /\ runs[r].term = "passed")
     THEN /\ runs' = [runs EXCEPT ![r].term = IF @ = "none" THEN "passed" ELSE @]
          /\ Goto(p, "commit") /\ UNCHANGED <<lease, lock>>
     ELSE Return(p) /\ UNCHANGED runs
  /\ UNCHANGED <<task, evidence, artifact, closed, closeLogged, archived, conts>>

\* Its second write, doneTask on the whole ledger with the run's id.
CommitRun(p) ==
  LET t == w[p].t IN
  /\ At(p, "commit")
  /\ task' = IF /\ ~closed /\ Owns(p) /\ task[t].state \in Eligible
                /\ \E i \in 1..Len(evidence) :
                     /\ Authorizes(i, t) /\ RunBacks(i, t)
                     /\ evidence[i].run \in {0, w[p].run}
                     /\ task[t].policy = "artifact" => evidence[i].art = artifact
             THEN [task EXCEPT ![t].state = "done"] ELSE task
  /\ Return(p)
  /\ UNCHANGED <<evidence, runs, artifact, closed, closeLogged, archived, conts>>

-----------------------------------------------------------------------------
(* Several tasks, one command: completeObservedTasks.                      *)

CommitBatch(p, ok) ==
  LET S == w[p].ts IN
  /\ At(p, "running") /\ w[p].mode = "batch" /\ Owns(p) /\ Free
  /\ IF closed \/ (\E t \in S : ~Fresh(p, t)) \/ (ok /\ ~BatchReady(S))
     THEN Return(p)
     ELSE /\ w' = [w EXCEPT ![p].pc = "batchEvidence", ![p].ok = ok,
                            ![p].rows = task, ![p].len = Len(evidence)]
          /\ lock' = p /\ UNCHANGED lease
  /\ Keep /\ UNCHANGED artifact

Filed(p, t) == \E i \in w[p].len+1..Len(evidence) : evidence[i].task = t

\* Every task's evidence is written before any row.
BatchEvidence(p, t) ==
  LET S == w[p].ts IN
  /\ At(p, "batchEvidence") /\ t \in S /\ ~Filed(p, t) /\ task[t].policy # "waiver" /\ Room
  /\ \A u \in S : u < t => Filed(p, u)
  /\ evidence' = Append(evidence, Entry(t, "observed", w[p].ok, 0, 0, 0, w[p].began[t]))
  /\ IF \A u \in S : u <= t
     THEN IF w[p].ok THEN Goto(p, "batchDone") /\ UNCHANGED <<lease, lock>> ELSE Return(p)
     ELSE UNCHANGED <<lease, lock, w>>
  /\ UNCHANGED <<task, runs, artifact, closed, closeLogged, archived, conts>>

BatchDone(p, t) ==
  LET S == w[p].ts IN
  /\ At(p, "batchDone") /\ t \in S /\ task[t].state # "done"
  /\ \A u \in S : u < t => task[u].state = "done"
  /\ task' = [task EXCEPT ![t].state = "done"]
  /\ UNCHANGED <<evidence, runs, artifact, closed, closeLogged, archived, conts, lease, lock, w>>

BatchEnd(p) ==
  /\ At(p, "batchDone") /\ \A t \in w[p].ts : task[t].state = "done"
  /\ Return(p) /\ Keep /\ UNCHANGED artifact

\* Mutated form: the rows are not restored.
BatchUndoKeepsRows(p) ==
  /\ w[p].pc \in {"batchEvidence", "batchDone"}
  /\ Goto(p, "batchUndo")
  /\ UNCHANGED <<task, evidence, runs, artifact, closed, closeLogged, archived, conts, lease, lock>>

\* An error in the middle restores the task file, then the evidence file.
BatchUndo(p) ==
  /\ w[p].pc \in {"batchEvidence", "batchDone"}
  /\ task' = w[p].rows
  /\ Goto(p, "batchUndo")
  /\ UNCHANGED <<evidence, runs, artifact, closed, closeLogged, archived, conts, lease, lock>>

BatchUndoEvidence(p) ==
  /\ At(p, "batchUndo")
  /\ evidence' = SubSeq(evidence, 1, w[p].len)
  /\ Return(p)
  /\ UNCHANGED <<task, runs, artifact, closed, closeLogged, archived, conts>>

-----------------------------------------------------------------------------
(* closeSession.                                                           *)

\* Mutated form: a task in problem does not block.
BlockingButProblem == {t \in Tasks : task[t].state \notin Settled \cup {"problem"}}

Blocking == {t \in Tasks : task[t].state \notin Settled}

\* The durable close, once the strict verification finds nothing.
MarkClosed(p, rows) ==
  /\ closed' = TRUE
  /\ w' = [w EXCEPT ![p].pc = "closing", ![p].rows = rows]
  /\ lock' = p
  /\ UNCHANGED <<task, evidence, runs, artifact, closeLogged, archived, conts, lease>>

CloseOpen(p) ==
  /\ "close" \in Ops /\ At(p, "idle") /\ Free /\ ~closed
  /\ Blocking = {} /\ StrictOk
  /\ MarkClosed(p, task)

\* --carry-open: newWorkstream creates the continuation before anything is moved.
CarryOpen(p) ==
  /\ "carry" \in Ops /\ At(p, "idle") /\ Free /\ ~closed
  /\ Blocking # {} /\ conts < MaxConts
  /\ conts' = conts + 1
  /\ w' = [w EXCEPT ![p].pc = "carry", ![p].rows = task]
  /\ lock' = p
  /\ UNCHANGED <<task, evidence, runs, artifact, closed, closeLogged, archived, lease>>

\* carryOpenTransitionChain: work in hand passes through problem.
Carried(row) == [IF row.state \in {"pending", "problem"} THEN Move(row, "moved")
                 ELSE Move(Move(row, "problem"), "moved") EXCEPT !.dest = conts]

CarryRows(p) ==
  /\ w[p].pc \in {"carry", "remap"}
  /\ task' = [t \in Tasks |-> IF t \in Blocking THEN Carried(task[t]) ELSE task[t]]
  /\ IF At(p, "carry") THEN Goto(p, "carried") /\ UNCHANGED <<lease, lock>> ELSE Return(p)
  /\ UNCHANGED <<evidence, runs, artifact, closed, closeLogged, archived, conts>>

CarryClose(p) ==
  /\ At(p, "carried")
  /\ IF StrictOk THEN MarkClosed(p, w[p].rows)
                 ELSE Return(p) /\ Keep /\ UNCHANGED artifact

\* Mutated form: the close goes on after the task file was restored.
ClosePlanGoesOn(p, io) ==
  /\ At(p, "closing")
  /\ closed' = io /\ Goto(p, "logging")
  /\ UNCHANGED <<task, evidence, runs, artifact, closeLogged, archived, conts, lease, lock>>

\* The plan's mark follows.  If it fails the whole task file is restored, which opens
\* the session again and un-moves carried rows; preserveContinuation moves them back.
ClosePlan(p, io) ==
  /\ At(p, "closing")
  /\ IF io THEN Goto(p, "logging") /\ UNCHANGED <<task, closed, lease, lock>>
           ELSE /\ closed' = FALSE /\ task' = w[p].rows
                /\ IF w[p].rows = task THEN Return(p)
                   ELSE Goto(p, "remap") /\ UNCHANGED <<lease, lock>>
  /\ UNCHANGED <<evidence, runs, artifact, closeLogged, archived, conts>>

\* The close event is an auxiliary write: its failure is a warning.
CloseEvent(p, io) ==
  /\ At(p, "logging")
  /\ closeLogged' = io
  /\ Return(p)
  /\ UNCHANGED <<task, evidence, runs, artifact, closed, archived, conts>>

\* Closing a closed session records a missing event, if the close is coherent.
CloseAgain(p) ==
  /\ "close" \in Ops /\ At(p, "idle") /\ Free /\ closed /\ ~closeLogged
  /\ Blocking = {} /\ StrictOk
  /\ Goto(p, "logging") /\ lock' = p
  /\ UNCHANGED <<files, artifact, lease>>

-----------------------------------------------------------------------------
(* A process may die at any point; its locks are then reclaimed.  A lease   *)
(* can also be lost by a live process, when its lock file is replaced.      *)

Crash(p) ==
  /\ ~At(p, "idle")
  /\ Return(p) /\ Keep /\ UNCHANGED artifact

LoseLease(t) ==
  /\ "lose" \in Ops /\ lease[t] # NoProc
  /\ lease' = [lease EXCEPT ![t] = NoProc]
  /\ UNCHANGED <<files, artifact, lock, w>>


-----------------------------------------------------------------------------

Operator ==
  \/ \E S \in SUBSET Tasks : StartTasks(S)
  \/ \E t \in Tasks, s \in States, policy \in Policies : TransitionTask(t, s, policy)
  \/ \E t \in Tasks, ok \in BOOLEAN, note \in Contents : DeclareEvidence(t, ok, note)
  \/ \E t \in Tasks, ok \in BOOLEAN : Reverify(t, ok)
  \/ EditArtifact
  \/ \E a \in BOOLEAN : Archive(a)

\* What process p does once it has begun, crashes apart.
Continue(p) ==
  \/ AcquireLease(p) \/ Busy(p) \/ LockTimeout(p) \/ Snapshot(p) \/ VerifyBegin(p) \/ LeaseLost(p)
  \/ \E ok \in BOOLEAN : CommitSingle(p, ok) \/ CommitStep(p, ok) \/ CommitBatch(p, ok)
  \/ FinishSingle(p) \/ DoneBare(p)
  \/ Prepare(p) \/ Reconcile(p) \/ Recover(p) \/ Supersede(p) \/ StartRun(p)
  \/ \E io \in BOOLEAN : RecordStep(p, io) \/ ClosePlan(p, io) \/ CloseEvent(p, io)
  \/ FailRun(p) \/ FailTerminal(p) \/ CompleteBegin(p) \/ Finalize(p) \/ CommitRun(p)
  \/ \E t \in Tasks : BatchEvidence(p, t) \/ BatchDone(p, t)
  \/ BatchEnd(p) \/ BatchUndo(p) \/ BatchUndoEvidence(p)
  \/ CarryRows(p) \/ CarryClose(p)

Begin(p) ==
  \/ \E mode \in Modes, S \in SUBSET Tasks : DoneBegin(p, mode, S)
  \/ CloseOpen(p) \/ CarryOpen(p) \/ CloseAgain(p)

Next ==
  \/ Operator
  \/ \E p \in Procs : Begin(p) \/ Continue(p) \/ Crash(p)
  \/ \E t \in Tasks : LoseLease(t)

Spec == Init /\ [][Next]_vars

\* A process that is not killed keeps going: its commands end by the verification
\* timeout, and its waits by the lock and the lease timeouts.
FairSpec == Spec /\ \A p \in Procs : WF_vars(Continue(p))

-----------------------------------------------------------------------------
(* Properties.                                                             *)

\* A done row keeps, in its current attempt, passing evidence that was filed for
\* it, and evidence tagged with a verification run counts only through a complete
\* run with a passed terminal record (doneTask, the strict verification of close).
\* No crash, restart, lost lease or undone batch leaves a done row without one.
Backed(i, t) == Files(i, t) /\ Passing(evidence[i], task[t].policy) /\ RunBacks(i, t)
DoneIsBacked == \A t \in Tasks : task[t].state = "done" => \E i \in 1..Len(evidence) : Backed(i, t)

\* Every completion passes the strict verification that close will apply, although
\* doneTask may have looked at one entry only (completeObservedTask, batches).
CompletionSatisfiesClose ==
  [][\A t \in Tasks : task[t].state # "done" /\ task'[t].state = "done" => Verified(t)']_vars

\* Evidence is filed under the attempt during which its command began: a problem or
\* restart while a command runs discards the result (taskAttemptSnapshot).  For runs
\* without carry-open, whose undone close takes an attempt back.
EvidenceIsOfItsAttempt ==
  \A i \in 1..Len(evidence) : evidence[i].began = evidence[i].attempt

\* Only the latest run of a task is without a terminal record: whoever starts a run
\* first settles the one a dead or conflicting process left (prepareVerificationRun).
OnlyLatestRunIsOpen ==
  \A r, q \in 1..Len(runs) : r < q /\ runs[r].task = runs[q].task => runs[r].term # "none"

\* A terminal run has a step record for all its evidence.  appendVerificationRunStep
\* refuses a terminal run, so evidence stranded by a crash between the two writes of
\* a step would make every later `done` of the task fail.
NoStrandedEvidence == \A r \in 1..Len(runs) : runs[r].term # "none" => ~HasOrphan(r)

\* A step record names evidence of the same task, attempt, run and step, and a passed
\* terminal record stands for a run all of whose steps passed, in order.
RunsAreCoherent ==
  \A r \in 1..Len(runs) :
    /\ \A s \in 1..Steps : runs[r].steps[s] # 0 =>
         LET e == evidence[runs[r].steps[s]] IN
         /\ runs[r].steps[s] <= Len(evidence)
         /\ e.task = runs[r].task /\ e.attempt = runs[r].attempt
         /\ e.run = r /\ e.step = s
    /\ runs[r].term = "passed" => CompleteRun(r)

\* A closed session has no task left to work on, whatever was in flight when it was
\* closed (ensureSessionOpenForMutation in every handler that writes a row); and the close
\* event follows the durable close: a logged close is never undone.
ClosedIsSettled ==
  /\ closeLogged => closed
  /\ closed => \A t \in Tasks : task[t].state \in {"done", "moved"}

\* The run ledger only grows: a run stays that of its task and attempt, and a step or
\* terminal record, once written, stands.
RunLedgerOnlyGrows ==
  [][/\ Len(runs') >= Len(runs)
     /\ \A r \in 1..Len(runs) :
          /\ runs'[r].task = runs[r].task /\ runs'[r].attempt = runs[r].attempt
          /\ runs[r].term # "none" => runs'[r].term = runs[r].term
          /\ \A s \in 1..Steps : runs[r].steps[s] # 0 => runs'[r].steps[s] = runs[r].steps[s]
    ]_vars

\* Between these two writes of its holder the session lock hides rows that may still be
\* restored, or a close that may be taken back; a reader that takes the lock never sees them.
Provisional == {"batchEvidence", "batchDone", "batchUndo", "carried", "closing", "remap"}

seenRows   == IF lock \in Procs /\ w[lock].pc \in Provisional THEN w[lock].rows ELSE task
seenClosed == closed /\ ~(lock \in Procs /\ w[lock].pc = "closing")

\* Seen between two commands, the session is the abstract board: a batch, or a close with
\* the tasks it carries away, is one step, a settled row is final without exception, no
\* command reopens a closed session, and a row gets to done from an eligible state only
\* (completeObservedTasks and closeSession with their restores, withSessionLock).
Board == INSTANCE TaskBoard WITH rows <- seenRows, closed <- seenClosed, Dests <- 0..MaxConts
ImplementsTaskBoard == Board!Spec

\* One continuation takes over the open tasks of a session, also when close is killed
\* and tried again.
OneContinuation == conts <= 1

\* Every command that begins and is not killed ends, whatever the other processes hold.
CommandsEnd == \A p \in Procs : ~At(p, "idle") ~> At(p, "idle")
=============================================================================
