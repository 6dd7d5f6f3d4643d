--------------------------- MODULE EvolutionApply ---------------------------
(*****************************************************************************)
(* Applying an approved proposal of `afol evolve`: one new file, written     *)
(* by a patch mutation and bracketed by "prepare" and a terminal in          *)
(* applies.jsonl; rolling it back by undoing the mutation; and the           *)
(* recovery that every command runs first. A command holds the lock          *)
(* "__evolution-apply__" throughout, and the lock of the mutation journal    *)
(* only while it patches or undoes: `afol file` commands run in between.     *)
(*****************************************************************************)
EXTENDS Integers, Sequences

CONSTANTS MaxMutations, MaxArtifactEdits, MaxApplyFaults    \* bounds

ASSUME ApplyAssumption == {MaxMutations, MaxArtifactEdits, MaxApplyFaults} \subseteq Nat

VARIABLES
  applies,    \* applies.jsonl
  mutations,  \* the records of mutations.jsonl about the target
  artifact,   \* the target file: "absent", "ours" (the proposal's content) or "drift"
  cmd,        \* the command that holds the apply lock
  artifactEdits,  \* number of changes made by editors
  failures    \* number of I/O errors and deaths

applyVars == <<applies, mutations, artifact, cmd, artifactEdits, failures>>

Muts      == 1..MaxMutations
ApplyEnds == {"commit", "abort", "rollback"}
ApplyEvent == [m : Muts, phase : ApplyEnds \cup {"prepare"}]
\* `of` is the mutation an undo undoes, 0 for the patch itself.
MutRecord  == [id : Muts, of : Muts \cup {0}, status : {"prepared", "committed", "rolled_back"}]
NoCmd      == [pc |-> "idle"]
\* `undo` is the mutation that undoes m.
ApplySteps == {"prepare", "patch", "write", "written", "unwrite", "validate", "catch", "check",
               "terminal", "undo", "remove", "removed", "restore"}
ApplyCommand ==
  {NoCmd} \cup [pc : {"recover"}, want : {"apply", "rollback"}]
  \cup [pc : ApplySteps, m : Muts, phase : ApplyEnds]
  \cup [pc : ApplySteps, m : Muts, phase : ApplyEnds, recovering : {TRUE}]
  \cup [pc : ApplySteps, m : Muts, phase : ApplyEnds, undo : Muts]

ApplyTypeOK ==
  /\ applies \in Seq(ApplyEvent) /\ mutations \in Seq(MutRecord)
  /\ artifact \in {"absent", "ours", "drift"} /\ cmd \in ApplyCommand
  /\ artifactEdits \in 0..MaxArtifactEdits /\ failures \in 0..MaxApplyFaults

ApplyInit ==
  /\ applies = <<>> /\ mutations = <<>> /\ artifact = "absent"
  /\ cmd = NoCmd /\ artifactEdits = 0 /\ failures = 0

-----------------------------------------------------------------------------
(* What the two journals say.                                              *)

MutRecords == {mutations[i] : i \in 1..Len(mutations)}
Noted(m, phase) == \E i \in 1..Len(applies) : applies[i] = [m |-> m, phase |-> phase]
MutIs(id, status) == \E r \in MutRecords : r.id = id /\ r.status = status
MutUndone(m) == \E r \in MutRecords : r.of = m /\ r.status = "committed"
\* unmatched-prepared issues of loadMutationJournalStrict
Unmatched == {r \in MutRecords : /\ r.status = "prepared"
                              /\ ~MutIs(r.id, "committed") /\ ~MutIs(r.id, "rolled_back")}
\* unmatchedApplyPrepares
Pending == {m \in Muts : /\ Noted(m, "prepare")
                         /\ ~\E p \in ApplyEnds : Noted(m, p)}
\* exactCommittedApply
Live == {m \in Muts : Noted(m, "commit") /\ ~Noted(m, "rollback")}
NextMut == {i \in Muts : i \notin {r.id : r \in MutRecords} /\ ~Noted(i, "prepare")
              /\ \A j \in 1..(i - 1) : j \in {r.id : r \in MutRecords} \/ Noted(j, "prepare")}

\* recoverPreparedMutations: a patch is settled by what the bytes prove, an undo never is.
Provable == IF \E r \in Unmatched : r.of # 0 THEN {}
            ELSE {[r EXCEPT !.status = IF artifact = "ours" THEN "committed" ELSE "rolled_back"] :
                    r \in {u \in Unmatched : artifact # "drift"}}

LogMut(r) == mutations' = Append(mutations, r)
ApplyGoto(pc) == cmd' = [cmd EXCEPT !.pc = pc]
ApplyFault == failures < MaxApplyFaults /\ failures' = failures + 1
NoFault    == failures' = failures

-----------------------------------------------------------------------------
(* applyEvolutionProposal, rollbackEvolutionProposal.                      *)

\* Both recover first; `want` is what comes after.
StartApply(want) ==
  /\ cmd = NoCmd /\ cmd' = [pc |-> "recover", want |-> want] /\ NoFault
  /\ UNCHANGED <<applies, mutations, artifact, artifactEdits>>

Recovered == Unmatched = {} /\ Pending = {}

\* Mutated form: only the target is looked at.
ProposeAgain ==
  /\ cmd.pc = "recover" /\ cmd.want = "apply" /\ Recovered /\ NoFault
  /\ IF artifact # "absent" \/ NextMut = {} THEN cmd' = NoCmd
     ELSE \E m \in NextMut : cmd' = [pc |-> "prepare", m |-> m, phase |-> "abort"]
  /\ UNCHANGED <<applies, mutations, artifact, artifactEdits>>

\* A live commit of the same proposal is a duplicate; the target must be new.
Propose ==
  /\ cmd.pc = "recover" /\ cmd.want = "apply" /\ Recovered /\ NoFault
  /\ IF Live # {} \/ artifact # "absent" \/ NextMut = {} THEN cmd' = NoCmd
     ELSE \E m \in NextMut : cmd' = [pc |-> "prepare", m |-> m, phase |-> "abort"]
  /\ UNCHANGED <<applies, mutations, artifact, artifactEdits>>

\* The last commit is rolled back: at once when its mutation was undone already.
Withdraw ==
  LET m == CHOOSE i \in Muts : Noted(i, "commit") /\ \A j \in Muts : Noted(j, "commit") => j <= i IN
  /\ cmd.pc = "recover" /\ cmd.want = "rollback" /\ Recovered /\ NoFault
  /\ cmd' = IF ~\E i \in Muts : Noted(i, "commit") THEN NoCmd
            ELSE IF Noted(m, "rollback") THEN NoCmd
            ELSE IF MutUndone(m) /\ artifact = "absent"
                 THEN [pc |-> "terminal", m |-> m, phase |-> "rollback"]
            ELSE IF artifact = "ours" THEN [pc |-> "undo", m |-> m, phase |-> "rollback"]
            ELSE NoCmd
  /\ UNCHANGED <<applies, mutations, artifact, artifactEdits>>

\* beforePrepared: "prepare" is written under the mutation journal's lock, behind a last
\* look at that journal.  The checkpoint behind it may fail like the append itself.
PrepareApply(how) ==
  /\ cmd.pc = "prepare"
  /\ IF Unmatched # {} THEN cmd' = NoCmd /\ applies' = applies /\ NoFault
     ELSE /\ applies' = IF how = "lost" THEN applies
                        ELSE Append(applies, [m |-> cmd.m, phase |-> "prepare"])
          /\ IF how = "ok" THEN ApplyGoto("patch") /\ NoFault ELSE ApplyGoto("catch") /\ ApplyFault
  /\ UNCHANGED <<mutations, artifact, artifactEdits>>

\* runPatchMutation (module Mutations) for the new file.
PatchTarget ==
  /\ cmd.pc = "patch" /\ LogMut([id |-> cmd.m, of |-> 0, status |-> "prepared"])
  /\ ApplyGoto("write") /\ NoFault /\ UNCHANGED <<applies, artifact, artifactEdits>>

WriteTarget(ok) ==
  /\ cmd.pc = "write"
  /\ IF ok THEN artifact' = "ours" /\ ApplyGoto("written") /\ NoFault
     ELSE artifact' = artifact /\ ApplyGoto("unwrite") /\ ApplyFault
  /\ UNCHANGED <<applies, mutations, artifactEdits>>

TargetWritten(how) ==
  /\ cmd.pc = "written"
  /\ IF how = "lost" THEN mutations' = mutations
     ELSE LogMut([id |-> cmd.m, of |-> 0, status |-> "committed"])
  /\ IF how = "ok" THEN ApplyGoto("validate") /\ NoFault ELSE ApplyGoto("unwrite") /\ ApplyFault
  /\ UNCHANGED <<applies, artifact, artifactEdits>>

\* The patch is taken back; a failure of that leaves its record unmatched.
UnwriteTarget(how) ==
  /\ cmd.pc = "unwrite" /\ ApplyGoto("catch")
  /\ IF how = "ok"
     THEN /\ artifact' = "absent" /\ NoFault
          /\ LogMut([id |-> cmd.m, of |-> 0, status |-> "rolled_back"])
     ELSE /\ artifact' = IF how = "kept" THEN "absent" ELSE artifact
          /\ mutations' = mutations /\ ApplyFault
  /\ UNCHANGED <<applies, artifactEdits>>

\* validateArtifact
ValidateTarget ==
  /\ cmd.pc = "validate" /\ NoFault
  /\ IF artifact = "ours" THEN cmd' = [cmd EXCEPT !.pc = "terminal", !.phase = "commit"]
     ELSE ApplyGoto("catch")
  /\ UNCHANGED <<applies, mutations, artifact, artifactEdits>>

\* The catch clause: compensate, then abort.
CatchApply ==
  /\ cmd.pc = "catch" /\ NoFault
  /\ cmd' = [cmd EXCEPT !.pc = IF artifact = "ours" THEN "undo" ELSE "check", !.phase = "abort"]
  /\ UNCHANGED <<applies, mutations, artifact, artifactEdits>>

\* Drift that prevents compensation ends the command with its prepare pending.
CheckTarget ==
  /\ cmd.pc = "check" /\ NoFault
  /\ IF artifact = "absent" THEN ApplyGoto("terminal") ELSE cmd' = NoCmd
  /\ UNCHANGED <<applies, mutations, artifact, artifactEdits>>

\* assertTransition
MayFollow == /\ Noted(cmd.m, "prepare")
             /\ IF cmd.phase = "rollback" THEN Noted(cmd.m, "commit") /\ ~Noted(cmd.m, "rollback")
                ELSE \A p \in ApplyEnds : ~Noted(cmd.m, p)

\* appendTerminal: an error behind the append ("kept") sends an apply to its catch clause.
AppendTerminal(how) ==
  /\ cmd.pc = "terminal"
  /\ IF ~MayFollow THEN applies' = applies /\ cmd' = NoCmd /\ NoFault
     ELSE /\ applies' = IF how = "lost" THEN applies
                        ELSE Append(applies, [m |-> cmd.m, phase |-> cmd.phase])
          /\ IF how = "ok" THEN cmd' = NoCmd /\ NoFault
             ELSE /\ ApplyFault
                  /\ IF cmd.phase = "commit" /\ "recovering" \notin DOMAIN cmd
                     THEN ApplyGoto("catch") ELSE cmd' = NoCmd
  /\ UNCHANGED <<mutations, artifact, artifactEdits>>

-----------------------------------------------------------------------------
(* undoBoundMutation: runUndoMutation of the patch, under the journal lock. *)

\* Refused unless the journal is sound, the patch committed and its content in place.
UndoTarget ==
  LET ids == {i \in Muts : i \notin {r.id : r \in MutRecords} /\ ~Noted(i, "prepare")} IN
  /\ cmd.pc = "undo" /\ NoFault
  /\ IF \/ Unmatched # {} \/ ~MutIs(cmd.m, "committed") \/ MutUndone(cmd.m)
        \/ artifact # "ours" \/ ids = {}
     THEN cmd' = NoCmd /\ mutations' = mutations
     ELSE \E i \in ids : /\ \A j \in ids : i <= j
                         /\ LogMut([id |-> i, of |-> cmd.m, status |-> "prepared"])
                         /\ cmd' = [pc |-> "remove", m |-> cmd.m, phase |-> cmd.phase, undo |-> i]
  /\ UNCHANGED <<applies, artifact, artifactEdits>>

RemoveTarget ==
  /\ cmd.pc = "remove" /\ artifact' = "absent" /\ ApplyGoto("removed") /\ NoFault
  /\ UNCHANGED <<applies, mutations, artifactEdits>>

TargetRemoved(how) ==
  /\ cmd.pc = "removed"
  /\ IF how = "lost" THEN mutations' = mutations
     ELSE LogMut([id |-> cmd.undo, of |-> cmd.m, status |-> "committed"])
  /\ IF how = "ok" THEN ApplyGoto(IF cmd.phase = "abort" THEN "check" ELSE "terminal") /\ NoFault
     ELSE ApplyGoto("restore") /\ ApplyFault
  /\ UNCHANGED <<applies, artifact, artifactEdits>>

\* The undo is taken back and its error ends the command.
RestoreTarget ==
  /\ cmd.pc = "restore" /\ artifact' = "ours" /\ NoFault
  /\ LogMut([id |-> cmd.undo, of |-> cmd.m, status |-> "rolled_back"])
  /\ cmd' = NoCmd /\ UNCHANGED <<applies, artifactEdits>>

-----------------------------------------------------------------------------
(* recoverEvolutionAppliesUnlocked                                         *)

\* recoverDanglingEvolutionUndos
RecoverUndo ==
  /\ cmd.pc = "recover" /\ NoFault
  /\ \E u \in Unmatched :
       /\ u.of # 0 /\ artifact # "drift"
       /\ LogMut([u EXCEPT !.status = IF artifact = "absent" THEN "committed" ELSE "rolled_back"])
       /\ cmd' = IF artifact = "absent" /\ Noted(u.of, "commit") /\ ~Noted(u.of, "rollback")
                 THEN [pc |-> "terminal", m |-> u.of, phase |-> "rollback", recovering |-> TRUE]
                 ELSE cmd
  /\ UNCHANGED <<applies, artifact, artifactEdits>>

FinishApply(m, pc, phase) == cmd' = [pc |-> pc, m |-> m, phase |-> phase, recovering |-> TRUE]
NoUndoLeft == \A u \in Unmatched : u.of = 0

\* Mutated form: the file is taken as the proof that its mutation committed.
RecoverCommitByFile(m, stale) ==
  /\ cmd.pc = "recover" /\ NoUndoLeft /\ m \in Pending /\ NoFault
  /\ artifact = "ours" /\ ~MutUndone(m)
  /\ IF stale THEN FinishApply(m, "undo", "abort") ELSE FinishApply(m, "terminal", "commit")
  /\ UNCHANGED <<applies, mutations, artifact, artifactEdits>>

\* The file is there and its mutation committed: commit, or undo when the proposal is stale.
RecoverCommit(m, stale) ==
  /\ cmd.pc = "recover" /\ NoUndoLeft /\ m \in Pending /\ NoFault
  /\ artifact = "ours" /\ MutIs(m, "committed") /\ ~MutUndone(m)
  /\ IF stale THEN FinishApply(m, "undo", "abort") ELSE FinishApply(m, "terminal", "commit")
  /\ UNCHANGED <<applies, mutations, artifact, artifactEdits>>

\* Nothing was begun.
RecoverUnbegun(m) ==
  /\ cmd.pc = "recover" /\ NoUndoLeft /\ m \in Pending /\ NoFault
  /\ artifact = "absent" /\ ~MutUndone(m) /\ \A r \in MutRecords : r.id # m
  /\ FinishApply(m, "terminal", "abort")
  /\ UNCHANGED <<applies, mutations, artifact, artifactEdits>>

\* A mutation that is only prepared is rolled back, its file removed if it was written.  A
\* prepared record that was settled since is refused as ambiguous.
RecoverPrepared(m) ==
  /\ cmd.pc = "recover" /\ NoUndoLeft /\ m \in Pending /\ NoFault
  /\ artifact # "drift" /\ MutIs(m, "prepared") /\ ~MutIs(m, "committed") /\ ~MutUndone(m)
  /\ ~MutIs(m, "rolled_back")
  /\ artifact' = "absent" /\ LogMut([id |-> m, of |-> 0, status |-> "rolled_back"])
  /\ FinishApply(m, "terminal", "abort")
  /\ UNCHANGED <<applies, artifactEdits>>

\* The file is gone and the committed mutation was taken back.
RecoverGone(m) ==
  /\ cmd.pc = "recover" /\ NoUndoLeft /\ m \in Pending /\ NoFault
  /\ artifact = "absent" /\ MutIs(m, "committed") /\ (MutIs(m, "rolled_back") \/ MutUndone(m))
  /\ FinishApply(m, "terminal", "abort")
  /\ UNCHANGED <<applies, mutations, artifact, artifactEdits>>

CanRecover ==
  \/ \E u \in Unmatched : u.of # 0 /\ artifact # "drift"
  \/ NoUndoLeft /\ \E m \in Pending :
       \/ artifact = "ours" /\ MutIs(m, "committed") /\ ~MutUndone(m)
       \/ artifact = "absent" /\ ~MutUndone(m) /\ \A r \in MutRecords : r.id # m
       \/ /\ artifact # "drift" /\ MutIs(m, "prepared")
          /\ ~MutIs(m, "committed") /\ ~MutIs(m, "rolled_back")
       \/ artifact = "absent" /\ MutIs(m, "committed") /\ (MutIs(m, "rolled_back") \/ MutUndone(m))

\* Recovery throws: drift, ambiguity, or a journal it does not understand.
RecoveryThrows ==
  /\ cmd.pc = "recover" /\ ~Recovered /\ ~CanRecover /\ cmd' = NoCmd /\ NoFault
  /\ UNCHANGED <<applies, mutations, artifact, artifactEdits>>

-----------------------------------------------------------------------------
(* Everybody else.                                                         *)

JournalLockFree ==
  cmd.pc \notin {"patch", "write", "written", "unwrite", "remove", "removed", "restore"}

\* The start of any `afol file` command.
FileCommandRecovers ==
  /\ JournalLockFree
  /\ \E r \in Provable : LogMut(r)
  /\ NoFault /\ UNCHANGED <<applies, artifact, cmd, artifactEdits>>

\* `afol file` undo of the mutation, which may die half-way.
FileUndo(m, how) ==
  LET ids == {i \in Muts : i \notin {r.id : r \in MutRecords} /\ ~Noted(i, "prepare")}
      u == CHOOSE i \in ids : \A j \in ids : i <= j
      begun == Append(mutations, [id |-> u, of |-> m, status |-> "prepared"]) IN
  /\ JournalLockFree /\ Unmatched = {} /\ ids # {}
  /\ MutIs(m, "committed") /\ ~MutUndone(m) /\ artifact = "ours"
  /\ \A r \in MutRecords : r.id = m => r.of = 0
  /\ artifact' = IF how = "died" THEN artifact ELSE "absent"
  /\ mutations' = IF how = "ok" THEN Append(begun, [id |-> u, of |-> m, status |-> "committed"])
                  ELSE begun
  /\ IF how = "ok" THEN NoFault ELSE ApplyFault
  /\ UNCHANGED <<applies, cmd, artifactEdits>>

ApplyCrash ==
  /\ cmd # NoCmd /\ cmd' = NoCmd /\ ApplyFault
  /\ UNCHANGED <<applies, mutations, artifact, artifactEdits>>

EditArtifact(c) ==
  /\ artifactEdits < MaxArtifactEdits /\ artifactEdits' = artifactEdits + 1
  /\ artifact # c /\ artifact' = c
  /\ UNCHANGED <<applies, mutations, cmd, failures>>

ApplyNext ==
  \/ StartApply("apply") \/ StartApply("rollback") \/ Propose \/ Withdraw
  \/ PatchTarget \/ ValidateTarget \/ CatchApply \/ CheckTarget
  \/ UndoTarget \/ RemoveTarget \/ RestoreTarget
  \/ \E ok \in BOOLEAN : WriteTarget(ok)
  \/ \E how \in {"ok", "lost", "kept"} :
       \/ PrepareApply(how) \/ TargetWritten(how) \/ UnwriteTarget(how)
       \/ AppendTerminal(how) \/ TargetRemoved(how)
  \/ RecoverUndo \/ RecoveryThrows
  \/ \E m \in Muts : \/ RecoverUnbegun(m) \/ RecoverPrepared(m) \/ RecoverGone(m)
                     \/ \E stale \in BOOLEAN : RecoverCommit(m, stale)
                     \/ \E how \in {"ok", "died", "removed"} : FileUndo(m, how)
  \/ FileCommandRecovers \/ ApplyCrash
  \/ \E c \in {"absent", "drift"} : EditArtifact(c)

ApplySpec == ApplyInit /\ [][ApplyNext]_applyVars

-----------------------------------------------------------------------------

\* The apply journal tells the truth about the file: a commit is written over a committed
\* mutation, an abort or a rollback only when the proposal's content is not there any more,
\* whatever editors and `afol file` commands do meanwhile.
TerminalsTellTheTruth ==
  [][\A i \in Len(applies) + 1 .. Len(applies') :
       LET e == applies'[i] IN
       /\ e.phase = "commit" => MutIs(e.m, "committed")
       /\ e.phase \in {"abort", "rollback"} => artifact # "ours"]_applies

\* At most one application of the proposal is live, whatever is retried.
OneLiveApply == \A m, n \in Live : m = n

\* As long as nobody edits the file, what a command that failed or died left pending can be
\* settled by the next one.
RecoveryIsNeverStuck == cmd = NoCmd /\ artifactEdits = 0 => Recovered \/ CanRecover
=============================================================================
