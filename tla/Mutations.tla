----------------------------- MODULE Mutations -----------------------------
(*****************************************************************************)
(* `afol file`: patch, move, archive and undo of project files. A handler    *)
(* holds the lock of the mutation journal from its checks to its last        *)
(* append, so one handler runs at a time; it may die or meet an I/O error    *)
(* between any two of its writes. The journal says "prepared" before the     *)
(* first change of a file and "committed" or "rolled_back" after the last.   *)
(*****************************************************************************)
EXTENDS Integers, Sequences

CONSTANTS
  Paths,      \* project files
  Texts,      \* what a patch appends
  MaxText,    \* bound on the length of a file, in patches
  MaxMuts,    \* bound on the number of mutations and undos
  MaxEdits    \* bound on the changes made by editors

Missing      == <<0>>                            \* the file does not exist
FileContents == UNION {[1..n -> Texts] : n \in 0..MaxText}
MutIds       == 1..MaxMuts
Places       == Paths \cup MutIds                 \* archiveDestination is named after the id

ASSUME MutationAssumption == /\ {MaxText, MaxMuts, MaxEdits} \subseteq Nat
                             /\ Paths \cap MutIds = {} /\ 0 \notin Texts

VARIABLES
  files,     \* [Places -> content or Missing]
  backup,    \* [MutIds -> content or Missing]: the mutation backups directory
  journal,   \* mutations.jsonl
  handler,   \* the handler that holds the journal lock
  edits      \* number of changes made by editors

mutationVars == <<files, backup, journal, handler, edits>>

Kinds    == {"patch", "move", "archive", "undo"}
Statuses == {"prepared", "committed", "rolled_back"}
\* `existed` is beforeExisted of a patch and destinationExisted of a move.
Record == [id : MutIds, kind : Kinds, status : Statuses, src : Places, dst : Places,
           before : FileContents \cup {Missing}, after : FileContents \cup {Missing},
           existed : BOOLEAN, target : MutIds \cup {0}]
NoOp   == [pc |-> "idle"]

MutationTypeOK ==
  /\ files \in [Places -> FileContents \cup {Missing}]
  /\ backup \in [MutIds -> FileContents \cup {Missing}]
  /\ journal \in Seq(Record)
  /\ handler \in {NoOp} \cup
       [pc : {"effect", "overwritten", "commit", "rollback", "putback", "note"},
        rec : Record, was : [Places -> FileContents \cup {Missing}]]
  /\ edits \in 0..MaxEdits

MutationInit ==
  /\ files \in [Places -> {Missing, <<>>}] /\ \A i \in MutIds : files[i] = Missing
  /\ backup = [i \in MutIds |-> Missing]
  /\ journal = <<>> /\ handler = NoOp /\ edits = 0

-----------------------------------------------------------------------------
(* The journal.                                                            *)

Has(id, statuses) == \E i \in 1..Len(journal) : journal[i].id = id /\ journal[i].status \in statuses
Settled(id) == Has(id, {"committed", "rolled_back"})
\* The first record of a mutation: the later ones only repeat it with another status.
Mutation(id) == LET first == CHOOSE j \in 1..Len(journal) :
                              journal[j].id = id /\ \A k \in 1..(j - 1) : journal[k].id # id
                IN journal[first]
Undone(id)  == \E i \in 1..Len(journal) : /\ journal[i].kind = "undo" /\ journal[i].target = id
                                         /\ journal[i].status = "committed"
Started == {journal[i].id : i \in 1..Len(journal)}

\* assertMutationJournalIntegrity, once recovery has done what it can.
Clean == \A id \in Started : Settled(id)

\* Mutated form: what became of the destination is not asked.
StatusFromSource(r) ==
  IF files[r.src] = r.after \/ (r.kind # "patch" /\ files[r.src] = Missing) THEN "committed"
  ELSE IF files[r.src] = r.before \/ (~r.existed /\ files[r.src] = Missing) THEN "rolled_back"
  ELSE "prepared"

\* preparedRecoveryStatus: only what the bytes on disk prove; "prepared" when they prove nothing.
RecoveryStatus(r) ==
  IF r.kind = "undo" THEN "prepared"
  ELSE IF r.kind = "patch"
  THEN IF files[r.src] = r.after THEN "committed"
       ELSE IF files[r.src] = IF r.existed THEN r.before ELSE Missing THEN "rolled_back"
       ELSE "prepared"
  ELSE IF files[r.src] = Missing /\ files[r.dst] = r.after THEN "committed"
  ELSE IF /\ files[r.src] = r.before
          /\ \/ ~r.existed /\ files[r.dst] = Missing
             \/ r.existed /\ backup[r.id] # Missing /\ files[r.dst] = backup[r.id]
       THEN "rolled_back" ELSE "prepared"

\* recoverPreparedMutations appends what it can prove, record by record, at the start
\* of the next command.
Recover(id) ==
  /\ handler = NoOp /\ id \in Started /\ ~Settled(id)
  /\ RecoveryStatus(Mutation(id)) # "prepared"
  /\ journal' = Append(journal, [Mutation(id) EXCEPT !.status = RecoveryStatus(Mutation(id))])
  /\ UNCHANGED <<files, backup, handler, edits>>

-----------------------------------------------------------------------------
(* The start of a handler: checks under the locks, backup, "prepared".     *)

Fresh == \E i \in MutIds : i \notin Started
NextId == CHOOSE i \in MutIds : i \notin Started /\ \A j \in MutIds : j < i => j \in Started

\* Mutated form: the overwritten destination is not backed up.
NoBackup(r, content) == UNCHANGED backup

\* cpSync or atomicWriteBytes into the backups directory, before the record is written.
Backup(r, content) == backup' = [backup EXCEPT ![r.id] = content]

Prepare(r, overwritten) ==
  /\ handler = NoOp /\ Clean
  /\ Backup(r, overwritten)
  /\ journal' = Append(journal, r)
  /\ handler' = [pc |-> "effect", rec |-> r, was |-> files]
  /\ UNCHANGED <<files, edits>>

Rec(kind, src, dst, after, existed, target) ==
  [id |-> NextId, kind |-> kind, status |-> "prepared", src |-> src, dst |-> dst,
   before |-> IF files[src] = Missing THEN <<>> ELSE files[src], after |-> after,
   existed |-> existed, target |-> target]

\* runPatchMutation: the text is appended to what the file holds under the lock.
Patch(p, text) ==
  LET now == IF files[p] = Missing THEN <<>> ELSE files[p] IN
  /\ Fresh /\ Len(now) < MaxText
  /\ Prepare(Rec("patch", p, p, Append(now, text), files[p] # Missing, 0), files[p])

\* runMoveMutation: an existing destination must be named with its hash.
Move(p, q) ==
  /\ Fresh /\ p # q /\ files[p] # Missing
  /\ Prepare(Rec("move", p, q, files[p], files[q] # Missing, 0), files[q])

\* runArchiveMutation
Archive(p) ==
  /\ Fresh /\ files[p] # Missing
  /\ Prepare(Rec("archive", p, NextId, files[p], FALSE, 0), Missing)

\* What undoPatchMutation, undoMoveMutation and undoArchiveMutation ask first.
Undoable(m) ==
  IF m.kind = "patch" THEN files[m.src] = m.after /\ (m.existed => backup[m.id] # Missing)
  ELSE files[m.src] = Missing /\ files[m.dst] = m.after /\ (m.existed => backup[m.id] # Missing)

\* findMutationById, findLatestSupportedMutation: committed and not undone.
Undo(id) ==
  /\ Fresh /\ id \in Started /\ Mutation(id).kind # "undo"
  /\ Has(id, {"committed"}) /\ ~Undone(id) /\ Undoable(Mutation(id))
  /\ Prepare([Rec("undo", Mutation(id).src, Mutation(id).dst, Missing, FALSE, id)
                EXCEPT !.before = files[Mutation(id).src]], Missing)

-----------------------------------------------------------------------------
(* The rest of a handler.                                                  *)

HandlerGoto(pc) == handler' = [handler EXCEPT !.pc = pc]
Renamed(f, a, b) == [f EXCEPT ![b] = f[a], ![a] = Missing]

\* atomicWriteText, rmSync or renameSync.
Changed(r) ==
  IF r.kind = "patch" THEN [files EXCEPT ![r.src] = r.after]
  ELSE IF r.kind # "undo" THEN Renamed(files, r.src, r.dst)
  ELSE LET m == Mutation(r.target) IN
       IF m.kind = "patch" THEN [files EXCEPT ![r.src] = backup[m.id]]
                           ELSE Renamed(files, r.dst, r.src)

Effect(ok) ==
  /\ handler.pc = "effect"
  /\ IF ok THEN /\ files' = Changed(handler.rec)
                /\ HandlerGoto(IF /\ handler.rec.kind = "undo"
                                  /\ Mutation(handler.rec.target).kind = "move"
                               THEN "overwritten" ELSE "commit")
           ELSE files' = files /\ HandlerGoto("rollback")
  /\ UNCHANGED <<backup, journal, edits>>

\* undoMoveMutation puts the overwritten destination back.
Overwritten(ok) ==
  LET m == Mutation(handler.rec.target) IN
  /\ handler.pc = "overwritten"
  /\ IF ok THEN /\ files' = IF m.existed THEN [files EXCEPT ![m.dst] = backup[m.id]] ELSE files
                /\ HandlerGoto("commit")
           ELSE files' = files /\ HandlerGoto("rollback")
  /\ UNCHANGED <<backup, journal, edits>>

\* appendMutationRecord: "kept" when the bytes are in the file although the sync failed.
NoteOutcomes == {"ok", "lost", "kept"}
Note(status, how) ==
  journal' = IF how = "lost" THEN journal
             ELSE Append(journal, [handler.rec EXCEPT !.status = status])

Commit(how) ==
  /\ handler.pc = "commit" /\ Note("committed", how)
  /\ IF how = "ok" THEN handler' = NoOp ELSE HandlerGoto("rollback")
  /\ UNCHANGED <<files, backup, edits>>

\* The catch clauses: the file goes back to what it was under the lock, by a write or by
\* the opposite rename.  A failure here ends the handler with its record unsettled.
RollbackChange(ok) ==
  LET r == handler.rec
      applied == files # handler.was IN
  /\ handler.pc = "rollback"
  /\ IF ~ok THEN files' = files /\ handler' = NoOp
     ELSE /\ files' = IF r.kind = "patch" THEN [files EXCEPT ![r.src] = handler.was[r.src]]
                     ELSE IF ~applied THEN files
                     ELSE IF r.kind = "undo"
                     THEN IF Mutation(r.target).kind = "patch"
                          THEN [files EXCEPT ![r.src] = handler.was[r.src]]
                          ELSE Renamed(files, r.src, r.dst)
                     ELSE Renamed(files, r.dst, r.src)
          /\ HandlerGoto(IF r.kind = "move" /\ r.existed THEN "putback" ELSE "note")
  /\ UNCHANGED <<backup, journal, edits>>

\* runMoveMutation then writes the overwritten destination again.
PutOverwritten(ok) ==
  /\ handler.pc = "putback"
  /\ IF ok THEN /\ files' = [files EXCEPT ![handler.rec.dst] = handler.was[handler.rec.dst]]
                /\ HandlerGoto("note")
           ELSE files' = files /\ handler' = NoOp
  /\ UNCHANGED <<backup, journal, edits>>

NoteRollback(how) ==
  /\ handler.pc = "note" /\ Note("rolled_back", how) /\ handler' = NoOp
  /\ UNCHANGED <<files, backup, edits>>

\* The process dies; its locks are reclaimed (module SessionLock).
MutationCrash ==
  /\ handler # NoOp /\ handler' = NoOp
  /\ UNCHANGED <<files, backup, journal, edits>>

\* An editor, which knows of no lock, changes a file between two commands.
Edit(p, c) ==
  /\ handler = NoOp /\ edits < MaxEdits /\ files[p] # c
  /\ files' = [files EXCEPT ![p] = c] /\ edits' = edits + 1
  /\ UNCHANGED <<backup, journal, handler>>

MutationNext ==
  \/ \E id \in MutIds : Recover(id) \/ Undo(id)
  \/ \E p \in Paths : \/ \E t \in Texts : Patch(p, t)
                      \/ \E q \in Paths : Move(p, q)
                      \/ Archive(p)
                      \/ \E c \in FileContents \cup {Missing} : Edit(p, c)
  \/ \E ok \in BOOLEAN : Effect(ok) \/ Overwritten(ok) \/ RollbackChange(ok) \/ PutOverwritten(ok)
  \/ \E how \in NoteOutcomes : Commit(how) \/ NoteRollback(how)
  \/ MutationCrash

MutationSpec == MutationInit /\ [][MutationNext]_mutationVars

-----------------------------------------------------------------------------

\* The files of mutation m are as it found them, or as it left them.
AsBefore(m) == IF m.kind = "patch" THEN files[m.src] = IF m.existed THEN m.before ELSE Missing
               ELSE files[m.src] = m.before /\ files[m.dst] = backup[m.id]
AsAfter(m)  == IF m.kind = "patch" THEN files[m.src] = m.after
               ELSE files[m.src] = Missing /\ files[m.dst] = m.after

\* A terminal record says what is on disk when it is written, whether the handler wrote it
\* or a later command recovered it: "committed" that the change is there, "rolled_back" that
\* nothing of it is, a committed undo that the files are as the undone mutation found them.
JournalTellsTheTruth ==
  [][\A i \in Len(journal) + 1 .. Len(journal') :
       LET r == journal'[i]
           m == IF r.kind = "undo" THEN Mutation(r.target) ELSE r IN
       r.status # "prepared" =>
         IF (r.status = "committed") = (r.kind = "undo") THEN AsBefore(m) ELSE AsAfter(m)]_journal

\* Whatever fails or dies, what a mutation took away is still to be had: in its place, at
\* the destination or in the backup.
NothingIsLost ==
  \A id \in Started :
    LET m == Mutation(id) IN
    m.kind # "undo" =>
      /\ m.kind = "patch" /\ m.existed => backup[id] = m.before
      /\ m.kind = "move" /\ m.existed => backup[id] # Missing
      /\ handler # NoOp /\ m.kind # "patch" /\ id \in {handler.rec.id, handler.rec.target} =>
           m.after \in {files[m.src], files[m.dst]}
=============================================================================
