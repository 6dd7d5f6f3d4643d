------------------------- MODULE EvolutionJournals -------------------------
(*****************************************************************************)
(* The canonical journals of `afol evolve` (production days, observations,   *)
(* receipts of daily suggestions), the database projected from them and      *)
(* the checkpoint that certifies the projection. Every writer holds the      *)
(* lock "__evolution-journal__" for the whole of its handler, so one         *)
(* handler runs at a time; it may fail or die between any two writes.        *)
(* Terminals of applied proposals and evaluations rewrite the checkpoint     *)
(* too.                                                                      *)
(*****************************************************************************)
EXTENDS Integers, Sequences, FiniteSets

CONSTANTS
  Dates,      \* local dates
  Samples,    \* qualifying evidence of one date
  Prints,     \* fingerprints of observations
  Claimers,   \* sessions that show suggestions
  NoClaim,    \* no claim token
  MaxDays, MaxObs, MaxReceipts, MaxOthers,   \* bounds on the journals' lengths
  MaxJournalLines,    \* bound on the lines of all of them
  MaxJournalFaults    \* bound on failures and deaths

Evidence == Dates \X Samples

ASSUME JournalBounds ==
  MaxDays \in Nat /\ MaxObs \in Nat /\ MaxReceipts \in Nat /\ MaxOthers \in Nat

VARIABLES
  days, obs, rec,   \* production-days.jsonl, observations.jsonl, receipts.jsonl
  others,           \* lines of applies.jsonl and evaluations.jsonl
  torn,             \* journals whose last line is incomplete
  db,               \* evolution.db: what is projected, and the watermarks
  check,            \* the last line of checkpoints.jsonl
  expired,          \* claims whose expiry has passed
  tokens,           \* [Claimers -> claim a session holds the token of]
  acked,            \* history: appends reported as done
  job,              \* the handler that holds the lock
  faults            \* number of failures and deaths so far

evoVars == <<days, obs, rec, others, torn, db, check, expired, tokens, acked, job, faults>>

Observation == [type : {"observation"}, print : Prints, occurrence : 1..MaxObs, day : 0..MaxDays]
Recurrence  == [type : {"decision"}, print : Prints, members : SUBSET (1..MaxObs)]
Receipt     == [date : Dates, status : {"claimed", "shown", "decided"}, by : Claimers,
                gen : 1..MaxReceipts]
Journals == {"days", "obs", "rec"}
NoJob  == [pc |-> "idle"]
NoMark == <<>>       \* no watermark: none is ever taken of an empty journal

\* A tail digest chains over the whole journal, so it stands for its content.
Tails == [obs |-> obs, rec |-> rec, others |-> others]
\* readActiveSuggestionProjection, activeReceiptIntegrityDigest
Active(d) == <<d.obs, d.rec>>
Blank == [days |-> <<>>, obs |-> <<>>, rec |-> <<>>, wobs |-> NoMark, wrec |-> NoMark]

EvolutionDb == [days : Seq(Evidence), obs : Seq(Observation \cup Recurrence), rec : Seq(Receipt),
             wobs : Seq(Observation \cup Recurrence), wrec : Seq(Receipt)]
AppendSteps == {"append", "project", "checkpoint"}
Job == {NoJob} \cup [pc : {"repair"}, next : Journals]
       \cup [pc : AppendSteps, j : {"days"}, ev : Evidence]
       \cup [pc : AppendSteps, j : {"obs"}, ev : Observation \cup Recurrence]
       \cup [pc : AppendSteps, j : {"rec"}, ev : Receipt]

EvoTypeOK ==
  /\ days \in Seq(Evidence) /\ obs \in Seq(Observation \cup Recurrence) /\ rec \in Seq(Receipt)
  /\ others \in 0..MaxOthers /\ torn \subseteq Journals \cup {"check"}
  /\ db \in EvolutionDb /\ job \in Job
  /\ expired \subseteq Dates \X (1..MaxReceipts)
  /\ tokens \in [Claimers -> (Dates \X (1..MaxReceipts)) \cup {NoClaim}]

EvoInit ==
  /\ days = <<>> /\ obs = <<>> /\ rec = <<>> /\ others = 0 /\ torn = {}
  /\ db = Blank /\ check = <<>> /\ expired = {}
  /\ tokens = [c \in Claimers |-> NoClaim] /\ acked = {} /\ job = NoJob /\ faults = 0

-----------------------------------------------------------------------------
(* Validation.                                                             *)

Elements(s) == {s[i] : i \in 1..Len(s)}
\* allocateProductionDayUnsafe: one row per date, numbered as the dates first come.
Ordinals(s) == Cardinality({s[i][1] : i \in 1..Len(s)})
\* validateProductionDayProjection
DaysValid == db.days = days
\* assertEvolutionProjectionCheckpoint
CheckpointOk ==
  /\ "check" \notin torn /\ check # <<>>
  /\ check.tails = Tails /\ check.active = Active(db)

Whole == DaysValid /\ db.obs = obs /\ db.rec = rec /\ CheckpointOk

\* prepareReceiptProjection: the receipts projected when it does not throw.
ReceiptRows == IF db.wrec = NoMark /\ db.rec = <<>> THEN rec ELSE db.rec
\* Mutated form: the tail of the journal is not asked for.
ReceiptsReadyUnmarked == db.rec # <<>> \/ db.wrec = NoMark
ReceiptsReady ==
  \/ db.wrec = NoMark /\ db.rec = <<>>
  \/ db.wrec = rec /\ rec # <<>> /\ Len(db.rec) = Len(rec)

Current(rows, d) ==
  LET of == {i \in 1..Len(rows) : rows[i].date = d} IN
  IF of = {} THEN {} ELSE {rows[CHOOSE i \in of : \A j \in of : j <= i]}

-----------------------------------------------------------------------------
(* The starts of the handlers.                                             *)

Unlocked == job = NoJob
Append1(j, e) ==
  /\ Len(days) + Len(obs) + Len(rec) < MaxJournalLines
  /\ job' = [pc |-> "append", j |-> j, ev |-> e] /\ faults' = faults
EndHandler == job' = NoJob /\ faults' = faults
Fault == faults < MaxJournalFaults /\ faults' = faults + 1

\* appendProductionDayAllocation: refused while rows and journal differ.
AllocateDay(e) ==
  /\ Unlocked /\ "days" \notin torn /\ Len(days) < MaxDays /\ DaysValid /\ e \notin Elements(days)
  /\ Append1("days", e)
  /\ UNCHANGED <<days, obs, rec, others, torn, db, check, expired, tokens, acked>>

Replayed == [db EXCEPT !.obs = obs, !.wobs = obs]

\* appendObservationJournalEvent replays the projection, then looks for the occurrence.
Observe(p, n, day) ==
  LET o == [type |-> "observation", print |-> p, occurrence |-> n, day |-> day]
      known == \E x \in Elements(obs) : x.type = "observation" /\ x.occurrence = n IN
  /\ Unlocked /\ torn \cap {"days", "obs"} = {} /\ Len(obs) < MaxObs
  /\ DaysValid /\ day <= Ordinals(db.days)
  /\ db' = Replayed
  /\ IF known THEN EndHandler ELSE Append1("obs", o)
  /\ UNCHANGED <<days, obs, rec, others, torn, check, expired, tokens, acked>>

\* appendRecurrenceDecisionReceipt: the decision names the observations it was taken on.
DecideRecurrence(p) ==
  LET members == {x.occurrence : x \in {y \in Elements(obs) : y.type = "observation" /\ y.print = p}}
      r == [type |-> "decision", print |-> p, members |-> members] IN
  /\ Unlocked /\ torn \cap {"days", "obs"} = {} /\ Len(obs) < MaxObs /\ DaysValid /\ members # {}
  /\ db' = Replayed
  /\ IF r \in Elements(obs) THEN EndHandler ELSE Append1("obs", r)
  /\ UNCHANGED <<days, obs, rec, others, torn, check, expired, tokens, acked>>

\* claimDailySuggestion
Claim(c, d) ==
  LET cur == Current(ReceiptRows, d)
      gen == IF cur = {} THEN 1 ELSE (CHOOSE r \in cur : TRUE).gen + 1 IN
  /\ Unlocked /\ "rec" \notin torn /\ Len(rec) < MaxReceipts /\ ReceiptsReady
  /\ \A r \in cur : r.status = "claimed" /\ <<d, r.gen>> \in expired
  /\ db' = [db EXCEPT !.rec = ReceiptRows, !.wrec = rec]
  /\ Append1("rec", [date |-> d, status |-> "claimed", by |-> c, gen |-> gen])
  /\ UNCHANGED <<days, obs, rec, others, torn, check, expired, tokens, acked>>

\* A token is good for the claim it was issued with.
Fenced(c, r) == r.by = c /\ tokens[c] = <<r.date, r.gen>>

\* acknowledgeDailySuggestion: "shown" by the session that holds the token of a live
\* claim, then a decision by the user; the row is the last line of the journal.
Acknowledge(c, d, status) ==
  /\ Unlocked /\ "rec" \notin torn /\ Len(rec) < MaxReceipts /\ ReceiptsReady
  /\ \E r \in Current(ReceiptRows, d) :
       /\ IF status = "shown"
          THEN r.status = "claimed" /\ Fenced(c, r) /\ <<d, r.gen>> \notin expired
          ELSE r.status = "shown" /\ r.by = c
       /\ r = ReceiptRows[Len(ReceiptRows)]
       /\ Append1("rec", [r EXCEPT !.status = status])
  /\ db' = [db EXCEPT !.rec = ReceiptRows, !.wrec = rec]
  /\ UNCHANGED <<days, obs, rec, others, torn, check, expired, tokens, acked>>

-----------------------------------------------------------------------------
(* The rest of an append: the line, the projection, the checkpoint.        *)

Put(j, s) ==
  /\ days' = IF j = "days" THEN s ELSE days
  /\ obs'  = IF j = "obs" THEN s ELSE obs
  /\ rec'  = IF j = "rec" THEN s ELSE rec
JobLine == IF job.j = "days" THEN days ELSE IF job.j = "obs" THEN obs ELSE rec
\* Mutated form: the size to go back to was taken before an earlier line.
CutStale(s) == SubSeq(s, 1, Len(s) - 2)
Cut(s) == SubSeq(s, 1, Len(s) - 1)

\* An append that fails is truncated; when that fails too, the line or a part of it stays.
AppendLine(how) ==
  /\ job.pc = "append"
  /\ Put(job.j, IF how \in {"ok", "kept"} THEN Append(JobLine, job.ev) ELSE JobLine)
  /\ torn' = IF how = "torn" THEN torn \cup {job.j} ELSE torn
  /\ IF how = "ok" THEN job' = [job EXCEPT !.pc = "project"] /\ faults' = faults
     ELSE job' = NoJob /\ Fault
  /\ UNCHANGED <<others, db, check, expired, tokens, acked>>

\* The session learns the token of its claim when the append is reported as done.
Report ==
  /\ acked' = acked \cup {<<job.j, job.ev>>}
  /\ tokens' = IF job.j = "rec" /\ job.ev.status = "claimed"
               THEN [tokens EXCEPT ![job.ev.by] = <<job.ev.date, job.ev.gen>>] ELSE tokens
  /\ EndHandler

Projected == CASE job.j = "days" -> [db EXCEPT !.days = days]
               [] job.j = "obs"  -> [db EXCEPT !.obs = Append(db.obs, job.ev), !.wobs = obs]
               [] job.j = "rec"  -> [db EXCEPT !.rec = Append(db.rec, job.ev), !.wrec = rec]

\* One transaction; a production day has no checkpoint.
ProjectLine ==
  /\ job.pc = "project" /\ db' = Projected
  /\ IF job.j = "days" THEN Report
     ELSE job' = [job EXCEPT !.pc = "checkpoint"] /\ UNCHANGED <<tokens, acked, faults>>
  /\ UNCHANGED <<days, obs, rec, others, torn, check, expired>>

\* The transaction or the checkpoint fails: the line is truncated, unless that fails as
\* well, and the rows of an earlier commit are restored, unless that fails as well.
FailAppend(cut, restored) ==
  LET s == IF cut THEN Cut(JobLine) ELSE JobLine IN
  /\ job.pc \in {"project", "checkpoint"}
  /\ Put(job.j, s)
  /\ db' = CASE job.j = "obs" /\ job.pc = "checkpoint" /\ restored ->
                  [db EXCEPT !.obs = Cut(db.obs), !.wobs = s]
             [] job.j = "rec" /\ restored ->
                  [db EXCEPT !.rec = IF job.pc = "checkpoint" THEN Cut(db.rec) ELSE db.rec,
                             !.wrec = IF Len(JobLine) = 1 THEN NoMark ELSE s]
             [] OTHER -> db
  /\ job' = NoJob /\ Fault /\ UNCHANGED <<others, torn, check, expired, tokens, acked>>

\* writeEvolutionProjectionCheckpoint: the tails and the projection as they are.
Certificate == [tails |-> Tails, active |-> Active(db)]
WriteCheckpoint == "check" \notin torn /\ check' = Certificate

Certify ==
  /\ job.pc = "checkpoint" /\ WriteCheckpoint /\ Report
  /\ UNCHANGED <<days, obs, rec, others, torn, db, expired>>

\* refreshApplyCheckpointBestEffort, projectEvaluationJournalUnlocked: the journal of
\* applied proposals or of evaluations grows, and the checkpoint is written if it can be.
OtherTerminal(certified) ==
  /\ Unlocked /\ others < MaxOthers /\ others' = others + 1
  /\ IF certified THEN "check" \notin torn /\ check' = [Certificate EXCEPT !.tails.others = others + 1]
     ELSE check' = check
  /\ UNCHANGED <<days, obs, rec, torn, db, expired, tokens, acked, job, faults>>

\* The holder dies, possibly with a line of the journal or of the checkpoint half written.
EvoCrash(half) ==
  /\ ~Unlocked /\ job' = NoJob /\ Fault
  /\ torn' = IF half THEN torn \cup {IF job.pc = "append" THEN job.j ELSE "check"} ELSE torn
  /\ half => job.pc \in {"append", "checkpoint"}
  /\ UNCHANGED <<days, obs, rec, others, db, check, expired, tokens, acked>>

\* Time passes: a claim outlives its expiry.
Expire(d) ==
  \E r \in Current(rec, d) :
    /\ r.status = "claimed" /\ expired' = expired \cup {<<d, r.gen>>} /\ expired' # expired
    /\ UNCHANGED <<days, obs, rec, others, torn, db, check, tokens, acked, job, faults>>

-----------------------------------------------------------------------------
(* repairEvolutionDerivedState                                             *)

\* The tail of the checkpoint is repaired; nothing else when everything is valid.
RepairDerived ==
  /\ Unlocked /\ torn \cap Journals = {} /\ torn' = {}
  /\ LET valid == /\ DaysValid /\ db.obs = obs /\ db.rec = rec
                  /\ check # <<>> /\ check.tails = Tails /\ check.active = Active(db) IN
     job' = IF valid THEN NoJob ELSE [pc |-> "repair", next |-> "days"]
  /\ UNCHANGED <<days, obs, rec, others, db, check, expired, tokens, acked, faults>>

\* Mutated form: the production days are taken to be right.
RebuildWithoutDays(part, certified) ==
  /\ job.pc = "repair" /\ job.next = part /\ certified /\ faults' = faults
  /\ db' = CASE part = "days" -> db
             [] part = "obs" -> Replayed
             [] part = "rec" -> [db EXCEPT !.rec = rec, !.wrec = rec]
  /\ check' = IF part = "days" THEN check ELSE [tails |-> Tails, active |-> Active(db')]
  /\ job' = IF part = "rec" THEN NoJob
            ELSE [job EXCEPT !.next = IF part = "days" THEN "obs" ELSE "rec"]
  /\ UNCHANGED <<days, obs, rec, others, torn, expired, tokens, acked>>

\* Each projection is rebuilt in a transaction; behind the last two a checkpoint is
\* written, and the repair ends when it cannot be.
RebuildPart(part, certified) ==
  /\ job.pc = "repair" /\ job.next = part
  /\ db' = CASE part = "days" -> [db EXCEPT !.days = days]
             [] part = "obs" -> Replayed
             [] part = "rec" -> [db EXCEPT !.rec = rec, !.wrec = rec]
  /\ check' = IF part = "days" \/ ~certified THEN check
              ELSE [tails |-> Tails, active |-> Active(db')]
  /\ IF ~certified THEN job' = NoJob /\ Fault
     ELSE /\ faults' = faults
          /\ job' = IF part = "rec" THEN NoJob
                    ELSE [job EXCEPT !.next = IF part = "days" THEN "obs" ELSE "rec"]
  /\ UNCHANGED <<days, obs, rec, others, torn, expired, tokens, acked>>

EvoNext ==
  \/ \E e \in Evidence : AllocateDay(e)
  \/ \E p \in Prints : \/ \E n \in 1..MaxObs, day \in 0..MaxDays : Observe(p, n, day)
                       \/ DecideRecurrence(p)
  \/ \E d \in Dates : \/ Expire(d)
                      \/ \E c \in Claimers : \/ Claim(c, d)
                                             \/ Acknowledge(c, d, "shown")
                                             \/ Acknowledge(c, d, "decided")
  \/ \E how \in {"ok", "failed", "kept", "torn"} : AppendLine(how)
  \/ ProjectLine \/ Certify \/ RepairDerived
  \/ \E cut, restored \in BOOLEAN : FailAppend(cut, restored)
  \/ \E b \in BOOLEAN : OtherTerminal(b) \/ EvoCrash(b)
  \/ \E part \in Journals, ok \in BOOLEAN : RebuildPart(part, ok)

EvoSpec == EvoInit /\ [][EvoNext]_evoVars

-----------------------------------------------------------------------------

\* What was reported as recorded stays in its journal, whatever fails or dies later: a
\* failing append takes away its own line and no other.
AckedIsKept ==
  \A a \in acked : \/ a[1] = "days" /\ a[2] \in Elements(days)
                   \/ a[1] = "obs" /\ a[2] \in Elements(obs)
                   \/ a[1] = "rec" /\ a[2] \in Elements(rec)

\* A receipt is built on the canonical journal only: whenever the database is good enough
\* to claim or acknowledge on, its rows are those of the journal, also after rollbacks that
\* failed by half.
ReceiptsAreCanonical == Unlocked /\ ReceiptsReady => ReceiptRows = rec

\* A repair that has ended leaves rows and checkpoint that
\* every reader accepts, from whatever failures and deaths left behind.
RepairMakesWhole ==
  [][job.pc = "repair" /\ job.next = "rec" /\ check' # check => Whole']_evoVars

\* A checkpoint that a reader accepts certifies rows that are those of the journals.
CheckpointCertifies == CheckpointOk => db.obs = obs /\ db.rec = rec
=============================================================================
