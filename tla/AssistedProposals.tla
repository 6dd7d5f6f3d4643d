--------------------------- MODULE AssistedProposals ---------------------------
(*****************************************************************************)
(* One version of an assisted proposal of `afol evolve`: it is prepared,     *)
(* decided upon and applied. Applying it writes several files under one      *)
(* batch of the mutation journal and then says "applied" in                  *)
(* assisted-proposals.jsonl; a later call takes up what a death left         *)
(* behind. The journals' locks are held throughout, so that only editors,    *)
(* which take no lock, act meanwhile.                                        *)
(*****************************************************************************)
EXTENDS Integers, Sequences, FiniteSetsExt

CONSTANTS
  Targets,                       \* the number of files the proposal changes
  MaxTries, MaxTouched, MaxDecisions, MaxMisses    \* bounds

ASSUME ProposalBounds == Targets \in Nat \ {0} /\ MaxTries \in Nat /\ MaxMisses \in Nat

VARIABLES
  events,    \* what assisted-proposals.jsonl says of the version, after "prepared"
  batch,     \* the records of mutations.jsonl with the proposal's batch id
  text,      \* [Files -> "before" (what was approved to be changed), "after" or "other"]
  run,       \* the call of applyAssistedProposal: its step, attempt and files
  touched,   \* the files an editor or `afol undo` has changed
  broken,    \* what went wrong: "rollback" was interrupted, "applied" kept by a failed append
  misses     \* number of I/O errors and deaths

proposalVars == <<events, batch, text, run, touched, broken, misses>>

Files == 1..Targets
Tries == 1..MaxTries
Decisions == {"approve", "defer", "reject"}
BatchLine == [file : Files, try : Tries, is : {"prepared", "committed", "rolled_back"}]
Resting == [pc |-> "idle"]
Run == {Resting} \cup [pc : {"prepare", "commit"}, try : Tries]
       \cup [pc : {"write"}, try : Tries, at : Files]
       \cup [pc : {"receipt"}, try : Tries, fresh : BOOLEAN]
       \cup [pc : {"undo"}, try : Tries, todo : SUBSET Files, files : SUBSET Files,
             then : {"throw", "retry"}]

ProposalTypeOK ==
  /\ events \in Seq(Decisions \cup {"applied", "evaluation", "revoked"})
  /\ batch \in Seq(BatchLine) /\ run \in Run
  /\ text \in [Files -> {"before", "after", "other"}]
  /\ touched \subseteq Files /\ broken \subseteq {"rollback", "applied"} /\ misses \in 0..MaxMisses

ProposalInit ==
  /\ events = <<>> /\ batch = <<>> /\ text = [f \in Files |-> "before"]
  /\ run = Resting /\ touched = {} /\ broken = {} /\ misses = 0

-----------------------------------------------------------------------------
(* What the journals say.                                                  *)

Wrote(e) == \E i \in 1..Len(events) : events[i] = e
Decided  == SelectSeq(events, LAMBDA e : e \in Decisions)
Standing == IF Decided = <<>> THEN "none" ELSE Decided[Len(Decided)]
InBatch(f, t, is) == \E i \in 1..Len(batch) : batch[i] = [file |-> f, try |-> t, is |-> is]

\* unmatched-prepared issues of loadMutationJournalStrict
Unsettled(f, t) == InBatch(f, t, "prepared") /\ ~InBatch(f, t, "committed")
                     /\ ~InBatch(f, t, "rolled_back")
OpenRecords == {p \in Files \X Tries : Unsettled(p[1], p[2])}
LastTry(f) == Max({0} \cup {t \in Tries : InBatch(f, t, "prepared")})
Terminal(f) == batch[Max({i \in 1..Len(batch) : batch[i].file = f /\ batch[i].try = LastTry(f)})].is

\* One line for each file, in order.
RecordLines(files, try, is) == [i \in 1..Cardinality(files) |->
  [file |-> CHOOSE f \in files : Cardinality({g \in files : g <= f}) = i, try |-> try, is |-> is]]
NoRun == run.pc = "idle"
Miss == misses < MaxMisses /\ misses' = misses + 1

-----------------------------------------------------------------------------
(* appendAssistedProposalEvent: decisions, evaluations, revocation.        *)

\* Only an approval that reconsiders takes a rejection back.
Decide(d) ==
  /\ NoRun /\ Len(Decided) < MaxDecisions /\ ~Wrote("applied")
  /\ Standing = "reject" => d = "approve"
  /\ events' = Append(events, d)
  /\ UNCHANGED <<batch, text, run, touched, broken, misses>>

\* recorded once here, though an evaluation may be repeated
Follow(e) ==
  /\ NoRun /\ Wrote("applied") /\ ~Wrote(e) /\ events' = Append(events, e)
  /\ UNCHANGED <<batch, text, run, touched, broken, misses>>

-----------------------------------------------------------------------------
(* applyAssistedProposal.                                                  *)

\* Mutated form: one committed file stands for all.
AnyCommitted == \E f \in Files : Terminal(f) = "committed"
AllCommitted == \A f \in Files : Terminal(f) = "committed"

\* reconcileInterruptedMutationBatch refuses a batch that lacks a file and a file that
\* is not as its last record says.
Reconcilable == \A f \in Files :
  LastTry(f) # 0 /\ text[f] = IF Terminal(f) = "committed" THEN "after" ELSE "before"

\* preflightOperation finds every file as it was approved.
Start(try) == IF (\A f \in Files : text[f] = "before") /\ try \in Tries
              THEN [pc |-> "prepare", try |-> try] ELSE Resting

ApplyProposal ==
  /\ NoRun /\ Standing = "approve" /\ ~Wrote("applied") /\ OpenRecords = {}
  /\ run' = IF batch = <<>> THEN Start(1)
            ELSE IF ~Reconcilable THEN Resting
            ELSE IF AllCommitted THEN [pc |-> "receipt", try |-> LastTry(1), fresh |-> FALSE]
            ELSE LET done == {f \in Files : Terminal(f) = "committed"} IN
                 IF done = {} THEN Start(LastTry(1) + 1)
                 ELSE [pc |-> "undo", try |-> LastTry(1), todo |-> done, files |-> done, then |-> "retry"]
  /\ run' # Resting
  /\ UNCHANGED <<events, batch, text, touched, broken, misses>>

\* rollbackWrittenFiles, from the last file to the first, and then the records of `files`.
Back(try, files, then) == run' = [pc |-> "undo", try |-> try, todo |-> files, files |-> files, then |-> then]

\* The backups are made and "prepared" recorded.
PrepareRecords ==
  /\ run.pc = "prepare" /\ batch' = batch \o RecordLines(Files, run.try, "prepared")
  /\ run' = [pc |-> "write", try |-> run.try, at |-> 1]
  /\ UNCHANGED <<events, text, touched, broken, misses>>

\* An error: if the records are there although the append failed, they are settled, unless a
\* file has changed or that fails too.
PrepareFails(there, cleaned) ==
  /\ run.pc = "prepare" /\ Miss /\ run' = Resting
  /\ cleaned => there /\ \A f \in Files : text[f] = "before"
  /\ batch' = batch \o (IF there THEN RecordLines(Files, run.try, "prepared") ELSE <<>>)
                    \o (IF cleaned THEN RecordLines(Files, run.try, "rolled_back") ELSE <<>>)
  /\ UNCHANGED <<events, text, touched, broken>>

WriteNext ==
  /\ run.pc = "write" /\ text' = [text EXCEPT ![run.at] = "after"]
  /\ run' = IF run.at = Targets THEN [pc |-> "commit", try |-> run.try] ELSE [run EXCEPT !.at = @ + 1]
  /\ UNCHANGED <<events, batch, touched, broken, misses>>

CommitRecords ==
  /\ run.pc = "commit" /\ batch' = batch \o RecordLines(Files, run.try, "committed")
  /\ run' = [pc |-> "receipt", try |-> run.try, fresh |-> TRUE]
  /\ UNCHANGED <<events, text, touched, broken, misses>>

\* A write fails, or the append of "committed", whose lines may be there all the same.
Fails(there) ==
  /\ run.pc \in {"write", "commit"} /\ Miss /\ Back(run.try, Files, "throw")
  /\ there => run.pc = "commit"
  /\ batch' = batch \o (IF there THEN RecordLines(Files, run.try, "committed") ELSE <<>>)
  /\ UNCHANGED <<events, text, touched, broken>>

\* appendAppliedReceipt
AppendApplied ==
  /\ run.pc = "receipt" /\ events' = Append(events, "applied") /\ run' = Resting
  /\ UNCHANGED <<batch, text, touched, broken, misses>>

\* The line is truncated away, unless only the directory's sync failed; a call that has taken
\* up an earlier one leaves the files alone.
ReceiptFails(there) ==
  /\ run.pc = "receipt" /\ Miss
  /\ IF there THEN events' = Append(events, "applied") /\ broken' = broken \cup {"applied"}
              ELSE UNCHANGED <<events, broken>>
  /\ IF run.fresh THEN Back(run.try, Files, "throw") ELSE run' = Resting
  /\ UNCHANGED <<batch, text, touched>>

\* The next file is put back; one that is neither as before nor as written stops the rollback.
Restore ==
  /\ run.pc = "undo" /\ run.todo # {}
  /\ LET f == Max(run.todo) IN
     IF text[f] = "other" THEN /\ run' = Resting /\ broken' = broken \cup {"rollback"} /\ text' = text
     ELSE /\ text' = [text EXCEPT ![f] = "before"] /\ run' = [run EXCEPT !.todo = @ \ {f}]
          /\ broken' = broken
  /\ UNCHANGED <<events, batch, touched, misses>>

\* Mutated form: the rollback is not recorded.
RestoredUnsaid ==
  /\ run.pc = "undo" /\ run.todo = {}
  /\ run' = IF run.then = "throw" THEN Resting ELSE Start(run.try + 1)
  /\ UNCHANGED <<events, batch, text, touched, broken, misses>>

Restored ==
  /\ run.pc = "undo" /\ run.todo = {} /\ batch' = batch \o RecordLines(run.files, run.try, "rolled_back")
  /\ run' = IF run.then = "throw" THEN Resting ELSE Start(run.try + 1)
  /\ UNCHANGED <<events, text, touched, broken, misses>>

\* The process dies, in an append after the first n of its lines; or a rollback fails.
Die(n) ==
  /\ ~NoRun /\ Miss /\ run' = Resting
  /\ LET lines == CASE run.pc = "prepare" -> RecordLines(Files, run.try, "prepared")
                    [] run.pc = "commit"  -> RecordLines(Files, run.try, "committed")
                    [] OTHER -> <<>>
     IN n \in 0..Len(lines) /\ batch' = batch \o SubSeq(lines, 1, n)
  /\ broken' = IF run.pc = "undo" THEN broken \cup {"rollback"} ELSE broken
  /\ UNCHANGED <<events, text, touched>>

-----------------------------------------------------------------------------

\* recoverPreparedMutations, which `afol file` commands run: settled by what the file shows.
RecoverRecord(f, t) ==
  /\ NoRun /\ <<f, t>> \in OpenRecords /\ text[f] # "other"
  /\ batch' = Append(batch, [file |-> f, try |-> t,
                             is |-> IF text[f] = "after" THEN "committed" ELSE "rolled_back"])
  /\ UNCHANGED <<events, text, run, touched, broken, misses>>

\* An editor at any time, or `afol undo` of a record of the batch.
Touch(f) ==
  /\ f \notin touched /\ Cardinality(touched) < MaxTouched /\ touched' = touched \cup {f}
  /\ \/ text' = [text EXCEPT ![f] = "other"]
     \/ NoRun /\ OpenRecords = {} /\ text[f] = "after" /\ text' = [text EXCEPT ![f] = "before"]
  /\ UNCHANGED <<events, batch, run, broken, misses>>

ProposalNext ==
  \/ \E d \in Decisions : Decide(d)
  \/ \E e \in {"evaluation", "revoked"} : Follow(e)
  \/ ApplyProposal \/ PrepareRecords \/ WriteNext \/ CommitRecords \/ AppendApplied \/ Restore \/ Restored
  \/ \E there \in BOOLEAN : Fails(there) \/ ReceiptFails(there) \/ \E c \in BOOLEAN : PrepareFails(there, c)
  \/ \E n \in 0..Targets : Die(n)
  \/ \E f \in Files : Touch(f) \/ \E t \in Tries : RecoverRecord(f, t)

ProposalSpec == ProposalInit /\ [][ProposalNext]_proposalVars

-----------------------------------------------------------------------------

\* Whatever was interrupted, taken up again or decided anew on the way: when the journal says
\* "applied", every file has its approved text, but for what an editor did to it and for an
\* append that failed with its line in the journal.
AppliedIsWhole ==
  Wrote("applied") /\ "applied" \notin broken =>
    \A f \in Files : text[f] = "after" \/ f \in touched

\* An apply that came to an end or died, once its records are settled, can be tried again: its
\* files are as the records say.  It takes an editor or an interrupted rollback, or first
\* records cut short of a file, to make that impossible.
HalfAppliedIsRepaired ==
  NoRun /\ OpenRecords = {} /\ batch # <<>> /\ touched = {} /\ "rollback" \notin broken
    /\ (\A f \in Files : LastTry(f) # 0) => Reconcilable
=============================================================================
