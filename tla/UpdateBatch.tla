---------------------------- MODULE UpdateBatch ----------------------------
(*****************************************************************************)
(* `afol update apply` and `afol update rollback`: the files of the          *)
(* template are brought to the version of the tool, all or none, and back.   *)
(* The plan is made from the managed hashes in .agents/lock.json, which is   *)
(* one of the files that are written. A command holds the lock of the        *)
(* project, of the update and of the mutation journal, so that one runs at   *)
(* a time; it may die or meet an I/O error between any two of its writes.    *)
(*****************************************************************************)
EXTENDS Integers, Sequences, FiniteSets

CONSTANTS
  MaxFiles,      \* template files, numbered in the order in which they are written
  HashFile,      \* .agents/lock.json
  RemovedFile,   \* one that the template has no more from version 2 on
  MaxVersions, MaxBatches, MaxTreeEdits, MaxUpdateFaults   \* bounds

ASSUME UpdateAssumption ==
  /\ {MaxFiles, MaxBatches, MaxTreeEdits, MaxUpdateFaults} \subseteq Nat
  /\ MaxVersions \in Nat \ {0} /\ {HashFile, RemovedFile} \subseteq 1..MaxFiles

VARIABLES
  tool,      \* the template version of the tool
  tree,      \* [TemplateFiles -> content]: the version it was written at, Edited or NotThere
  batches,   \* what each batch planned: its files, before and after
  backups,   \* [BatchIds -> [TemplateFiles -> content]]: the backups directory
  batchLog,  \* mutations.jsonl; the records of a batch are appended together
  updater,   \* the command that holds the locks
  missed,    \* history: a write of the batch failed after it had taken effect
  treeEdits, updateFaults

updateVars ==
  <<tool, tree, batches, backups, batchLog, updater, missed, treeEdits, updateFaults>>

TemplateFiles == 1..MaxFiles
BatchIds      == 1..MaxBatches
NotThere      == 0
Edited        == MaxVersions + 1
Versions      == 0..Edited
NoUpdate      == [pc |-> "idle", kind |-> "update", batch |-> 0, left |-> {}, done |-> {}]

Plan == [files : SUBSET TemplateFiles, before : [TemplateFiles -> Versions],
         after : [TemplateFiles -> Versions]]
BatchRecord == [batch : BatchIds, kind : {"update", "undo"},
                status : {"prepared", "committed", "rolled_back"}]
UpdateSteps == {"check", "prepare", "backup", "write", "commit", "restore"}

UpdateTypeOK ==
  /\ tool \in 1..MaxVersions /\ tree \in [TemplateFiles -> Versions]
  /\ batches \in Seq(Plan) /\ Len(batches) <= MaxBatches
  /\ backups \in [BatchIds -> [TemplateFiles -> Versions]] /\ batchLog \in Seq(BatchRecord)
  /\ updater \in {NoUpdate} \cup
       [pc : UpdateSteps, kind : {"update", "undo"}, batch : 1..Len(batches),
        left : SUBSET TemplateFiles, done : SUBSET TemplateFiles]
  /\ missed \in BOOLEAN /\ treeEdits \in 0..MaxTreeEdits /\ updateFaults \in 0..MaxUpdateFaults

UpdateInit ==
  /\ tool = 1 /\ tree \in [TemplateFiles -> {NotThere, 1}] /\ tree[HashFile] = 1
  /\ batches = <<>> /\ backups = [b \in BatchIds |-> [p \in TemplateFiles |-> NotThere]]
  /\ batchLog = <<>> /\ updater = NoUpdate /\ missed = FALSE
  /\ treeEdits = 0 /\ updateFaults = 0

-----------------------------------------------------------------------------
(* The plan: planUpdateOperations, collectRemovedTemplateOperations.        *)

Template(v, p) == IF p = RemovedFile /\ v > 1 THEN NotThere ELSE v

\* The hash in the lock file; merging the template's hashes keeps that of the removed file.
Managed(p) == IF p = RemovedFile THEN 1 ELSE tree[HashFile]

Conflict(p) ==
  /\ tree[p] \notin {NotThere, Template(tool, p)}
  /\ IF p = HashFile THEN tree[p] = Edited ELSE tree[p] # Managed(p)

Planned  == {p \in TemplateFiles : tree[p] # Template(tool, p)}
BatchOf(files) ==
  [files |-> files, before |-> tree,
   after |-> [p \in TemplateFiles |-> IF p \in files THEN Template(tool, p) ELSE tree[p]]]

-----------------------------------------------------------------------------
(* The journal.                                                            *)

BatchHas(b, kind, status) == [batch |-> b, kind |-> kind, status |-> status]
                               \in {batchLog[i] : i \in 1..Len(batchLog)}
BatchesSettled == \A b \in BatchIds, kind \in {"update", "undo"} :
  BatchHas(b, kind, "prepared") =>
    BatchHas(b, kind, "committed") \/ BatchHas(b, kind, "rolled_back")

\* appendMutationRecords: "kept" when the bytes are in the file although the sync failed.
UpdateOutcomes == {"ok", "lost", "kept"}
LogBatch(status, how) ==
  batchLog' = IF how = "lost" THEN batchLog
              ELSE Append(batchLog,
                          [batch |-> updater.batch, kind |-> updater.kind, status |-> status])
CountsFault(how) == updateFaults' = updateFaults + (IF how = "ok" THEN 0 ELSE 1)

TheBatch == batches[updater.batch]
UpdateGoto(pc) == updater' = [updater EXCEPT !.pc = pc]
\* The catch clauses: apply puts back what it has written, rollback every file.
CatchUpdate ==
  updater' = [updater EXCEPT !.pc = "restore",
                             !.left = IF updater.kind = "update" THEN updater.done
                                                                 ELSE TheBatch.files]

-----------------------------------------------------------------------------
(* applyUpdateOperations and rollbackUpdateBatch.                           *)

\* The plan is made again under the lock of the update, and staged.
StageBatch ==
  /\ updater = NoUpdate /\ Len(batches) < MaxBatches
  /\ Planned # {} /\ ~\E p \in TemplateFiles : Conflict(p)
  /\ batches' = Append(batches, BatchOf(Planned))
  /\ updater' = [NoUpdate EXCEPT !.pc = "check", !.batch = Len(batches) + 1, !.left = Planned]
  /\ missed' = FALSE
  /\ UNCHANGED <<tool, tree, backups, batchLog, treeEdits, updateFaults>>

\* Under the locks of the files: each is still what was staged, or the command ends.
CheckFiles ==
  /\ updater.pc = "check"
  /\ IF \A p \in TheBatch.files : tree[p] = TheBatch.before[p] THEN UpdateGoto("prepare")
                                                             ELSE updater' = NoUpdate
  /\ UNCHANGED <<tool, tree, batches, backups, batchLog, missed, treeEdits, updateFaults>>

\* loadMutationJournal refuses a journal with a record that is neither committed nor rolled
\* back; a file that is not as the batch left it is drift.
RollbackBatch(b) ==
  /\ updater = NoUpdate /\ BatchesSettled
  /\ BatchHas(b, "update", "committed") /\ ~BatchHas(b, "undo", "committed")
  /\ \A p \in batches[b].files : tree[p] = batches[b].after[p]
  /\ updater' = [NoUpdate EXCEPT !.pc = "prepare", !.kind = "undo", !.batch = b,
                                 !.left = batches[b].files]
  /\ UNCHANGED <<tool, tree, batches, backups, batchLog, missed, treeEdits, updateFaults>>

\* In rollback this append stands before the try.
PrepareBatch(how) ==
  /\ updater.pc = "prepare" /\ LogBatch("prepared", how) /\ CountsFault(how)
  /\ IF how = "ok" THEN UpdateGoto(IF updater.kind = "update" THEN "backup" ELSE "write")
     ELSE IF updater.kind = "update" THEN CatchUpdate ELSE updater' = NoUpdate
  /\ UNCHANGED <<tool, tree, batches, backups, missed, treeEdits>>

BackUpBatch(how) ==
  /\ updater.pc = "backup" /\ updater.kind = "update" /\ CountsFault(how)
  /\ IF how = "ok"
     THEN backups' = [backups EXCEPT ![updater.batch] = TheBatch.before] /\ UpdateGoto("write")
     ELSE backups' = backups /\ CatchUpdate
  /\ UNCHANGED <<tool, tree, batches, batchLog, missed, treeEdits>>

WriteGoal(p) == IF updater.kind = "update" THEN TheBatch.after[p] ELSE backups[updater.batch][p]

\* A write can fail with its effect in place: the directory is flushed after the rename.
WriteFile(p, how) ==
  /\ updater.pc = "write" /\ p \in updater.left /\ \A q \in updater.left : p <= q
  /\ tree' = IF how = "lost" THEN tree ELSE [tree EXCEPT ![p] = WriteGoal(p)]
  /\ missed' = (missed \/ (how = "kept" /\ updater.kind = "update")) /\ CountsFault(how)
  /\ IF how # "ok" THEN CatchUpdate
     ELSE updater' = [updater EXCEPT !.left = @ \ {p}, !.done = @ \cup {p},
                           !.pc = IF updater.left = {p} THEN "commit" ELSE "write"]
  /\ UNCHANGED <<tool, batches, backups, batchLog, treeEdits>>

CommitBatch(how) ==
  /\ updater.pc = "commit" /\ LogBatch("committed", how) /\ CountsFault(how)
  /\ IF how = "ok" THEN updater' = NoUpdate ELSE CatchUpdate
  /\ UNCHANGED <<tool, tree, batches, backups, missed, treeEdits>>

\* Mutated form: a file that the batch created stays.
RestoreForgets(p, how) ==
  /\ updater.pc = "restore" /\ p \in updater.left /\ \A q \in updater.left : p >= q
  /\ tree' = IF how = "lost" \/ (updater.kind = "update" /\ TheBatch.before[p] = NotThere) THEN tree
             ELSE [tree EXCEPT ![p] = IF updater.kind = "update" THEN TheBatch.before[p]
                                                                  ELSE TheBatch.after[p]]
  /\ CountsFault(how)
  /\ IF how = "ok" THEN updater' = [updater EXCEPT !.left = @ \ {p}] ELSE updater' = NoUpdate
  /\ UNCHANGED <<tool, batches, backups, batchLog, missed, treeEdits>>

\* restoreAppliedOperations, or the snapshots that rollback took; a failure here ends the
\* command without a last record.
RestoreFile(p, how) ==
  /\ updater.pc = "restore" /\ p \in updater.left /\ \A q \in updater.left : p >= q
  /\ tree' = IF how = "lost" THEN tree
             ELSE [tree EXCEPT ![p] = IF updater.kind = "update" THEN TheBatch.before[p]
                                                                  ELSE TheBatch.after[p]]
  /\ CountsFault(how)
  /\ IF how = "ok" THEN updater' = [updater EXCEPT !.left = @ \ {p}] ELSE updater' = NoUpdate
  /\ UNCHANGED <<tool, batches, backups, batchLog, missed, treeEdits>>

NoteBatchUndone(how) ==
  /\ updater.pc = "restore" /\ updater.left = {} /\ LogBatch("rolled_back", how)
  /\ updater' = NoUpdate /\ CountsFault(how)
  /\ UNCHANGED <<tool, tree, batches, backups, missed, treeEdits>>

-----------------------------------------------------------------------------

UpdateCrash ==
  /\ updater # NoUpdate /\ updater' = NoUpdate /\ updateFaults' = updateFaults + 1
  /\ UNCHANGED <<tool, tree, batches, backups, batchLog, missed, treeEdits>>

\* A new version of the tool, with its template.
Upgrade ==
  /\ updater = NoUpdate /\ tool < MaxVersions /\ tool' = tool + 1
  /\ UNCHANGED <<tree, batches, backups, batchLog, updater, missed, treeEdits, updateFaults>>

\* An editor knows of no lock; it is assumed quiet from the check of the files on.
EditTree(p) ==
  /\ updater.pc \in {"idle", "check"} /\ treeEdits < MaxTreeEdits /\ treeEdits' = treeEdits + 1
  /\ tree' = [tree EXCEPT ![p] = Edited] /\ tree # tree'
  /\ UNCHANGED <<tool, batches, backups, batchLog, updater, missed, updateFaults>>

UpdateNext ==
  \/ StageBatch \/ CheckFiles \/ Upgrade
  \/ \E b \in 1..Len(batches) : RollbackBatch(b)
  \/ \E p \in TemplateFiles : EditTree(p)
  \/ updateFaults < MaxUpdateFaults /\ UpdateCrash
  \/ \E how \in IF updateFaults < MaxUpdateFaults THEN UpdateOutcomes ELSE {"ok"} :
       \/ PrepareBatch(how) \/ BackUpBatch(how) \/ CommitBatch(how) \/ NoteBatchUndone(how)
       \/ \E p \in TemplateFiles : WriteFile(p, how) \/ RestoreFile(p, how)

UpdateSpec == UpdateInit /\ [][UpdateNext]_updateVars

-----------------------------------------------------------------------------

\* The last record of a batch says what became of every file of it: "committed" that all of
\* them are as planned, with the backups that a rollback needs, "rolled_back" that all are
\* as before; and the other way round for the records of a rollback.  Not so when a write of
\* the batch failed after it had taken effect: apply does not put that file back.
BatchTellsTheTruth ==
  [][\A i \in Len(batchLog) + 1 .. Len(batchLog') :
       LET r == batchLog'[i]
           b == batches[r.batch]
           All(content) == \A p \in b.files : tree[p] = content[p] IN
       r.status # "prepared" =>
         IF (r.kind = "update") = (r.status = "committed")
         THEN All(b.after) /\ \A p \in b.files : backups[r.batch][p] = b.before[p]
         ELSE (r.kind = "update" /\ missed) \/ All(b.before)]_batchLog
=============================================================================
