---------------------------- MODULE PendingSpecs ----------------------------
(*****************************************************************************)
(* A session's pending spec: said in the frontmatter of its plan and of      *)
(* its task file, and in the governance index. `governance resolve-spec`     *)
(* and `bulk-waive` rewrite all three under the governance lock, and put     *)
(* back what they read at the start if anything fails; `repair` makes the    *)
(* index anew. The task file also holds the state board, which lifecycle     *)
(* commands rewrite under the session's lock: two locks, one file.           *)
(*****************************************************************************)
EXTENDS Naturals

CONSTANTS
  Governors, NoGovernor,
  MaxMoves,      \* bound on task transitions
  MaxFaults      \* bound on crashes and I/O errors

ASSUME SpecsAssumption == MaxMoves \in Nat /\ MaxFaults \in Nat /\ NoGovernor \notin Governors

VARIABLES
  planFile,      \* the plan's pending_spec_status
  taskFile,      \* the task file: its pending_spec_status, and the transitions on its board
  specIndex,     \* the entry of the session in the governance index
  govLock,       \* the holder of the governance lock,
  sessLock,      \* and of the session's lock
  governor,      \* [Governors -> what the process does and has read]
  moves,         \* history: transitions that lifecycle commands made
  crossed,       \* history: a lifecycle command put an older frontmatter back
  indexSpoiled,  \* history: a crash, or an error while putting back
  specFaults

specVars == <<planFile, taskFile, specIndex, govLock, sessLock, governor, moves, crossed,
              indexSpoiled, specFaults>>

Specs == {"open", "settled"}
TaskFiles == [spec : Specs, row : 0..MaxMoves]
GovernorPCs == {"idle", "create", "move", "repair", "plan", "read", "task", "index",
                "undoPlan", "undoTask", "undoIndex"}
\* was: the files as they were at the start; seen: the task file, and for repair the entry
\* made from the files.
Governor == [pc : GovernorPCs, was : [plan : Specs, task : TaskFiles], seen : TaskFiles]
NewTask == [spec |-> "open", row |-> 0]
NoAction == [pc |-> "idle", was |-> [plan |-> "open", task |-> NewTask], seen |-> NewTask]
specHistory == <<moves, crossed>>

SpecTypeOK ==
  /\ planFile \in Specs /\ taskFile \in TaskFiles /\ specIndex \in Specs \cup {"none"}
  /\ govLock \in Governors \cup {NoGovernor} /\ sessLock \in Governors \cup {NoGovernor}
  /\ governor \in [Governors -> Governor]
  /\ moves \in 0..MaxMoves /\ crossed \in BOOLEAN /\ indexSpoiled \in BOOLEAN
  /\ specFaults \in 0..MaxFaults

\* newWorkstream has written the files of the session and holds its lock.
SpecInit ==
  /\ planFile = "open" /\ taskFile = NewTask /\ specIndex = "none" /\ govLock = NoGovernor
  /\ \E p \in Governors :
       /\ sessLock = p
       /\ governor = [q \in Governors |-> IF q = p THEN [NoAction EXCEPT !.pc = "create"] ELSE NoAction]
  /\ moves = 0 /\ crossed = FALSE /\ indexSpoiled = FALSE /\ specFaults = 0

GovernorAt(p, pc) == governor[p].pc = pc
GovernorGoto(p, pc) == governor' = [governor EXCEPT ![p].pc = pc]
GovernorRests(p)   == governor' = [governor EXCEPT ![p] = NoAction]

\* recordPendingSpecForSession, the last thing newWorkstream does; an error is a warning.
RecordSpec(p, ok) ==
  /\ GovernorAt(p, "create") /\ govLock = NoGovernor
  /\ specIndex' = IF ok THEN "open" ELSE specIndex
  /\ specFaults' = specFaults + (IF ok THEN 0 ELSE 1)
  /\ GovernorRests(p) /\ sessLock' = NoGovernor
  /\ UNCHANGED <<planFile, taskFile, govLock, indexSpoiled, specHistory>>

-----------------------------------------------------------------------------
\* Lifecycle commands: transitionTaskStateChains reads the file, and writes it whole; so does
\* closeSession, to mark it closed.

BeginTransition(p) ==
  /\ GovernorAt(p, "idle") /\ sessLock = NoGovernor /\ moves < MaxMoves
  /\ sessLock' = p /\ governor' = [governor EXCEPT ![p].pc = "move", ![p].seen = taskFile]
  /\ UNCHANGED <<planFile, taskFile, specIndex, govLock, indexSpoiled, specHistory, specFaults>>

WriteTransition(p) ==
  /\ GovernorAt(p, "move")
  /\ taskFile' = [governor[p].seen EXCEPT !.row = @ + 1] /\ moves' = moves + 1
  /\ crossed' = (crossed \/ governor[p].seen.spec # taskFile.spec)
  /\ GovernorRests(p) /\ sessLock' = NoGovernor
  /\ UNCHANGED <<planFile, specIndex, govLock, indexSpoiled, specFaults>>

-----------------------------------------------------------------------------
\* resolvePendingSpec, with or without --no-spec-required.

BeginResolve(p) ==
  /\ GovernorAt(p, "idle") /\ govLock = NoGovernor /\ specIndex = "open" /\ govLock' = p
  /\ governor' = [governor EXCEPT ![p] = [pc |-> "plan", was |-> [plan |-> planFile, task |-> taskFile], seen |-> taskFile]]
  /\ UNCHANGED <<planFile, taskFile, specIndex, sessLock, indexSpoiled, specHistory, specFaults>>

\* updateSessionFrontmatter, file by file.
WritePlan(p) == /\ GovernorAt(p, "plan") /\ planFile' = "settled" /\ GovernorGoto(p, "read")
                /\ UNCHANGED <<taskFile, specIndex, govLock, sessLock, indexSpoiled, specHistory, specFaults>>
ReadTask(p)  == /\ GovernorAt(p, "read") /\ governor' = [governor EXCEPT ![p].pc = "task", ![p].seen = taskFile]
                /\ UNCHANGED <<planFile, taskFile, specIndex, govLock, sessLock, indexSpoiled, specHistory, specFaults>>
WriteTask(p) == /\ GovernorAt(p, "task") /\ taskFile' = [governor[p].seen EXCEPT !.spec = "settled"] /\ GovernorGoto(p, "index")
                /\ UNCHANGED <<planFile, specIndex, govLock, sessLock, indexSpoiled, specHistory, specFaults>>
WriteSpecIndex(p) == /\ GovernorAt(p, "index") /\ specIndex' = "settled" /\ GovernorRests(p) /\ govLock' = NoGovernor
                 /\ UNCHANGED <<planFile, taskFile, sessLock, indexSpoiled, specHistory, specFaults>>

\* The spec is not in the catalogue (at "plan", nothing written yet), or a write fails,
\* which may be after the rename (the directory is flushed last).
ResolveFails(p, done) ==
  /\ governor[p].pc \in {"plan", "task", "index"} /\ GovernorGoto(p, "undoPlan")
  /\ specFaults' = specFaults + 1
  /\ planFile' = IF done /\ GovernorAt(p, "plan") THEN "settled" ELSE planFile
  /\ taskFile' = IF done /\ GovernorAt(p, "task") THEN [governor[p].seen EXCEPT !.spec = "settled"] ELSE taskFile
  /\ specIndex' = IF done /\ GovernorAt(p, "index") THEN "settled" ELSE specIndex
  /\ UNCHANGED <<govLock, sessLock, indexSpoiled, specHistory>>

\* Mutated form: only the files are put back.
OldIndexKept(p) == specIndex

\* The index read before the action; it is open, or resolve-spec would not have begun.
OldIndex(p) == "open"

\* withGovernanceRollback: every file, and then the index, as they were.
PutBack(p) ==
  /\ \/ GovernorAt(p, "undoPlan") /\ planFile' = governor[p].was.plan /\ GovernorGoto(p, "undoTask")
        /\ UNCHANGED <<taskFile, specIndex, govLock>>
     \/ GovernorAt(p, "undoTask") /\ taskFile' = governor[p].was.task /\ GovernorGoto(p, "undoIndex")
        /\ UNCHANGED <<planFile, specIndex, govLock>>
     \/ GovernorAt(p, "undoIndex") /\ specIndex' = OldIndex(p) /\ GovernorRests(p) /\ govLock' = NoGovernor
        /\ UNCHANGED <<planFile, taskFile>>
  /\ UNCHANGED <<sessLock, indexSpoiled, specHistory, specFaults>>

-----------------------------------------------------------------------------
\* repairPendingSpecIndex: a file that says open outweighs one that says settled.

RepairRead(p) ==
  /\ GovernorAt(p, "idle") /\ govLock = NoGovernor /\ govLock' = p
  /\ governor' = [governor EXCEPT ![p].pc = "repair",
                      ![p].seen.spec = IF planFile = "open" THEN planFile ELSE taskFile.spec]
  /\ crossed' = FALSE /\ indexSpoiled' = FALSE
  /\ UNCHANGED <<planFile, taskFile, specIndex, sessLock, moves, specFaults>>

RepairWrite(p) ==
  /\ GovernorAt(p, "repair") /\ specIndex' = governor[p].seen.spec /\ GovernorRests(p) /\ govLock' = NoGovernor
  /\ UNCHANGED <<planFile, taskFile, sessLock, indexSpoiled, specHistory, specFaults>>

\* A crash, or an error that ends the command: a write of repair or of PutBack fails.
FreeLock(lock, p) == IF lock = p THEN NoGovernor ELSE lock
GovernorStops(p) ==
  /\ ~GovernorAt(p, "idle") /\ specFaults < MaxFaults /\ specFaults' = specFaults + 1
  /\ GovernorRests(p) /\ govLock' = FreeLock(govLock, p) /\ sessLock' = FreeLock(sessLock, p)
  /\ indexSpoiled' = (indexSpoiled \/ governor[p].pc \in {"repair", "undoPlan", "undoTask", "undoIndex"})
  /\ UNCHANGED <<planFile, taskFile, specIndex, specHistory>>

SpecNext == \E p \in Governors :
  \/ BeginTransition(p) \/ WriteTransition(p) \/ BeginResolve(p) \/ WritePlan(p) \/ ReadTask(p) \/ WriteTask(p)
  \/ WriteSpecIndex(p) \/ PutBack(p) \/ RepairRead(p) \/ RepairWrite(p) \/ GovernorStops(p)
  \/ RecordSpec(p, TRUE)
  \/ specFaults < MaxFaults /\ (RecordSpec(p, FALSE) \/ \E done \in BOOLEAN : ResolveFails(p, done))

PendingSpec == SpecInit /\ [][SpecNext]_specVars

-----------------------------------------------------------------------------
\* The index calls a spec settled only when both files do, crashes in the middle of
\* resolve-spec included: the index is written last, and put back with the files
\* (resolvePendingSpec, withGovernanceRollback).  Not so after the putting back itself
\* was cut short, or after a lifecycle command wrote an older file, until a repair.
SettledEverywhere ==
  specIndex = "settled" /\ ~crossed /\ ~indexSpoiled
  /\ ~(\E p \in Governors : governor[p].pc \in {"repair", "undoPlan", "undoTask", "undoIndex"})
     => planFile = "settled" /\ taskFile.spec = "settled"

\* A transition, or a close, that a lifecycle command made under the session's lock stays
\* in the task file: no other command puts an older file back (CHANGELOG.md:11-12).
TransitionIsKept == taskFile.row = moves
=============================================================================
