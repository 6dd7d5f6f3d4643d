--------------------------- MODULE HistoryBackfill ---------------------------
(*****************************************************************************)
(* Turning the failures of one session into observations, while the          *)
(* session goes on. `evolve backfill` reads the session's telemetry, board   *)
(* and evidence, and keeps a cursor: a complete one with the hash of the     *)
(* sources means that nothing is left to do. A session with more telemetry   *)
(* than may be read at once is done in pages. `evolve observe` does the      *)
(* same for finished sessions, without a cursor. None of them holds the      *)
(* session's lock.                                                           *)
(*****************************************************************************)
EXTENDS Integers, Sequences

CONSTANTS
  Observers,
  PageLimit,                                   \* OBSERVE_TELEMETRY_LIMITS, in events
  MaxTelemetry, MaxResults, MaxObserverFaults  \* bounds

ASSUME BackfillBounds == {PageLimit, MaxTelemetry, MaxResults, MaxObserverFaults} \subseteq Nat

VARIABLES
  telemetry,     \* the session's error and blocker events, in the order of the ledger
  evidence,      \* its evidence: observed completion results of one task and command
  filed,         \* number of entries ever filed: their ids
  complete,      \* all its tasks are done
  group,         \* the batch completion that is under way
  observations,  \* the observation journal: occurrences with their production day
  writing,       \* the observer inside an append that has written its line, but not its rows
  productionDays,  \* the evidence that production days were allocated for
  cursor,        \* the row of history_backfill_cursors
  observer,      \* [Observers -> the run it is in]
  slipped,       \* what an observer may have read was taken back while it ran
  observerFaults  \* number of failures and deaths

backfillVars == <<telemetry, evidence, filed, complete, group, observations, writing, productionDays,
                  cursor, observer, slipped, observerFaults>>

\* "plain": without an error type; a failed result of its task and command says the same.
Event      == {"plain", "typed"}
Entry      == [id : 1..MaxResults, ok : BOOLEAN]
Occurrence == {<<"telemetry", i>> : i \in 1..MaxTelemetry} \cup {<<"evidence", i>> : i \in 1..MaxResults}
Sources    == [telemetry |-> telemetry, evidence |-> evidence, complete |-> complete]
NoGroup    == [step |-> "none"]
NoCursor   == [status |-> "none"]
Unoccupied == [pc |-> "idle"]
Nobody     == {}

Telemetry == {s \in Seq(Event) : Len(s) <= MaxTelemetry}
Source    == [telemetry : Telemetry, evidence : Seq(Entry), complete : BOOLEAN]
CursorRow == {NoCursor} \cup [status : {"pending", "complete"}, hash : Source, offset : Nat]
Observing == {Unoccupied} \cup [pc : {"task"}, telemetry : Telemetry]
  \cup [pc : {"evidence"}, telemetry : Telemetry, complete : BOOLEAN]
  \cup [pc : {"retask"}, row : CursorRow] \cup [pc : {"reread"}, row : CursorRow, complete : BOOLEAN]
  \cup [pc : {"journal"}, row : CursorRow, evidence : Seq(Entry), day : SUBSET (1..MaxResults)]
  \cup [pc : {"day", "append", "undo", "done"}, todo : SUBSET Occurrence, day : SUBSET (1..MaxResults),
        seq : {0, 1}, row : CursorRow, skipped : BOOLEAN]

BackfillTypeOK ==
  /\ telemetry \in Telemetry /\ evidence \in Seq(Entry) /\ filed \in 0..MaxResults
  /\ complete \in BOOLEAN
  /\ group \in {NoGroup} \cup [step : {"file", "undo"}, ok : BOOLEAN, kept : Seq(Entry)]
  /\ observations \subseteq Occurrence \X {0, 1} /\ writing \subseteq Observers \X Occurrence
  /\ productionDays \subseteq 1..MaxResults /\ cursor \in CursorRow
  /\ observer \in [Observers -> Observing]
  /\ slipped \in BOOLEAN /\ observerFaults \in 0..MaxObserverFaults

BackfillInit ==
  /\ telemetry = <<>> /\ evidence = <<>> /\ filed = 0 /\ complete = FALSE /\ group = NoGroup
  /\ observations = {} /\ writing = Nobody /\ productionDays = {} /\ cursor = NoCursor
  /\ observer = [w \in Observers |-> Unoccupied]
  /\ slipped = FALSE /\ observerFaults = 0

Known == {o[1] : o \in observations}    \* by their occurrence

sessionVars == <<telemetry, evidence, filed, complete, group>>
derivedVars == <<observations, writing, productionDays, cursor>>

-----------------------------------------------------------------------------
(* The session, as far as its failures are concerned.                      *)

ReportEvent(kind) ==
  /\ Len(telemetry) < MaxTelemetry /\ telemetry' = Append(telemetry, kind)
  /\ UNCHANGED <<evidence, filed, complete, group, derivedVars, observer, slipped, observerFaults>>

FileResult(ok) ==
  /\ filed < MaxResults /\ filed' = filed + 1
  /\ evidence' = Append(evidence, [id |-> filed + 1, ok |-> ok])

\* One result, with the row it completes.
Result(ok, finishes) ==
  /\ group = NoGroup /\ ~complete /\ FileResult(ok) /\ (finishes => ok) /\ complete' = finishes
  /\ UNCHANGED <<telemetry, group, derivedVars, observer, slipped, observerFaults>>

\* A batch: all results first, then the rows; an error takes back the rows, then the results.
BatchResult(ok) ==
  /\ ~complete /\ FileResult(ok)
  /\ \/ group = NoGroup /\ group' = [step |-> "file", ok |-> ok, kept |-> evidence]
     \/ group.step = "file" /\ group.ok = ok /\ UNCHANGED group
  /\ UNCHANGED <<telemetry, complete, derivedVars, observer, slipped, observerFaults>>

BatchRows ==
  /\ group.step = "file" /\ group.ok /\ complete' = TRUE
  /\ UNCHANGED <<telemetry, evidence, filed, group, derivedVars, observer, slipped, observerFaults>>

BatchEnd ==
  /\ group.step = "file" /\ (group.ok => complete) /\ group' = NoGroup
  /\ UNCHANGED <<telemetry, evidence, filed, complete, derivedVars, observer, slipped, observerFaults>>

Busy == \E w \in Observers : observer[w] # Unoccupied

BatchUndo ==
  /\ group.step = "file" /\ observerFaults < MaxObserverFaults /\ observerFaults' = observerFaults + 1
  /\ complete' = FALSE /\ group' = [group EXCEPT !.step = "undo"]
  /\ UNCHANGED <<telemetry, evidence, filed, derivedVars, observer, slipped>>

Taken == {evidence[i].id : i \in DOMAIN evidence} \ {group.kept[i].id : i \in DOMAIN group.kept}

BatchUndoEvidence ==
  /\ group.step = "undo" /\ evidence' = group.kept /\ group' = NoGroup
  /\ slipped' = (slipped \/ Busy \/ \E i \in Taken : i \in productionDays \/ <<"evidence", i>> \in Known)
  /\ UNCHANGED <<telemetry, filed, complete, derivedVars, observer, observerFaults>>

-----------------------------------------------------------------------------
(* What is derived from the sources.                                       *)

Failed(ev)  == {ev[i].id : i \in {j \in DOMAIN ev : ~ev[j].ok}}

\* telemetryMatchesEvidence leaves out what a failed result says already.
Candidates(tel, range, ev) ==
  {<<"evidence", i>> : i \in Failed(ev)} \cup
  {<<"telemetry", i>> : i \in {j \in range : tel[j] = "plain" => Failed(ev) = {}}}

\* The evidence that qualifies for a production day: the first passed result of a finished session.
Qualifying(done, ev) ==
  LET passed == {j \in DOMAIN ev : ev[j].ok} IN
  IF done /\ passed # {} THEN {ev[CHOOSE j \in passed : \A k \in passed : j <= k].id} ELSE {}

\* Every day must still have its evidence when the journal of days is read.
Passed == {evidence[i].id : i \in {j \in DOMAIN evidence : evidence[j].ok}}
DaysReadable == productionDays \subseteq Passed

-----------------------------------------------------------------------------
(* processHistorySession.                                                  *)

Turn(w, rec) == observer' = [observer EXCEPT ![w] = rec]
ObserverAt(w, pc) == observer[w].pc = pc
Reads == UNCHANGED <<sessionVars, derivedVars, slipped, observerFaults>>

Scan(w) ==
  /\ observer[w] = Unoccupied /\ Turn(w, [pc |-> "task", telemetry |-> telemetry]) /\ Reads

ReadTasks(w) ==
  /\ ObserverAt(w, "task")
  /\ Turn(w, [pc |-> "evidence", telemetry |-> observer[w].telemetry, complete |-> complete]) /\ Reads

\* Ready to write: what is to be observed, the day's evidence, and the cursor in the end.
Ready(pc, todo, day, row) ==
  [pc |-> pc, todo |-> todo, day |-> day, seq |-> 0, row |-> row, skipped |-> FALSE]

\* A pending offset counts only while the sources are the same.
Offset(hash) ==
  IF cursor.status = "pending" /\ cursor.hash = hash THEN cursor.offset ELSE 0

ReadEvidence(w) ==
  LET tel  == observer[w].telemetry
      done == observer[w].complete
      hash == [telemetry |-> tel, evidence |-> evidence, complete |-> done]
      from == Offset(hash)
      to   == IF from + PageLimit < Len(tel) THEN from + PageLimit ELSE Len(tel)
      row  == [status |-> IF to = Len(tel) THEN "complete" ELSE "pending", hash |-> hash, offset |-> to]
  IN
  /\ ObserverAt(w, "evidence")
  /\ Turn(w, IF cursor.status = "complete" /\ cursor.hash = hash THEN Unoccupied
             ELSE IF Len(tel) > PageLimit THEN
               Ready("day", Candidates(tel, from+1..to, evidence), Qualifying(done, evidence), row)
             ELSE [pc |-> "retask", row |-> [row EXCEPT !.status = "complete", !.offset = Len(tel)]])
  /\ Reads

-----------------------------------------------------------------------------
(* ingestObservationsForSession, which reads the sources on its own.        *)

ObserveFinished(w) ==
  /\ observer[w] = Unoccupied /\ Turn(w, [pc |-> "retask", row |-> NoCursor]) /\ Reads

\* A session that is not finished is nothing for `observe`.
Retask(w) ==
  /\ ObserverAt(w, "retask")
  /\ Turn(w, IF complete \/ observer[w].row # NoCursor
             THEN [pc |-> "reread", row |-> observer[w].row, complete |-> complete] ELSE Unoccupied)
  /\ Reads

Reread(w) ==
  /\ ObserverAt(w, "reread")
  /\ Turn(w, [pc |-> "journal", row |-> observer[w].row, evidence |-> evidence,
              day |-> Qualifying(observer[w].complete, evidence)])
  /\ Reads

\* The telemetry within its limits, and then the journal, without its lock: what an append in
\* progress has written counts as observed.
ReadJournal(w) ==
  LET todo == Candidates(telemetry, 1..Len(telemetry), observer[w].evidence) \ Known IN
  /\ ObserverAt(w, "journal")
  /\ Turn(w, IF Len(telemetry) > PageLimit THEN Unoccupied
             ELSE IF todo = {} /\ observer[w].day = {} THEN Ready("done", {}, {}, observer[w].row)
             ELSE Ready("day", todo, observer[w].day, observer[w].row))
  /\ slipped' = (slipped \/ writing # Nobody)
  /\ UNCHANGED <<sessionVars, derivedVars, observerFaults>>

-----------------------------------------------------------------------------
(* The writes, which both ways share.                                      *)

\* ensureProductionDaySequence.
EnsureDay(w) ==
  LET me == observer[w] IN
  /\ ObserverAt(w, "day")
  /\ \/ me.day = {} /\ Turn(w, [me EXCEPT !.pc = "append"]) /\ UNCHANGED productionDays
     \/ /\ me.day # {} /\ DaysReadable /\ me.day \subseteq Passed
        /\ productionDays' = productionDays \cup me.day
        /\ Turn(w, [me EXCEPT !.pc = "append", !.seq = 1])
     \/ /\ me.day # {} /\ ~(DaysReadable /\ me.day \subseteq Passed)
        /\ Turn(w, Unoccupied) /\ UNCHANGED productionDays
  /\ UNCHANGED <<sessionVars, observations, writing, cursor, slipped, observerFaults>>

\* Evidence is appended before telemetry, each in the order of its source.
Before(o, q) == IF o[1] = q[1] THEN o[2] <= q[2] ELSE o[1] = "evidence"
First(o, todo) == o \in todo /\ \A q \in todo : Before(o, q)

Skip(w, o) == Turn(w, [observer[w] EXCEPT !.todo = @ \ {o}, !.skipped = TRUE])
Took(w, o) == Turn(w, [observer[w] EXCEPT !.todo = @ \ {o}])

\* appendObservationJournalEventWithStatus, under the journal's lock.  An occurrence that is
\* there with another production day has other content, and is refused.
AppendOne(w, o) ==
  LET row == <<o, observer[w].seq>> IN
  /\ ObserverAt(w, "append") /\ First(o, observer[w].todo) /\ writing = Nobody
  /\ \/ /\ ~DaysReadable \/ (o \in Known /\ row \notin observations)
        /\ Skip(w, o) /\ UNCHANGED observations
     \/ /\ DaysReadable /\ (o \in Known => row \in observations)
        /\ Took(w, o) /\ observations' = observations \cup {row}
  /\ UNCHANGED <<sessionVars, writing, productionDays, cursor, slipped, observerFaults>>

\* The line is written, but its rows will fail: meanwhile everybody can read it.
LineFails(w, o) ==
  LET me == observer[w] IN
  /\ ObserverAt(w, "append") /\ First(o, me.todo) /\ o \notin Known /\ writing = Nobody /\ DaysReadable
  /\ observerFaults < MaxObserverFaults /\ observerFaults' = observerFaults + 1
  /\ observations' = observations \cup {<<o, me.seq>>} /\ writing' = {<<w, o>>}
  /\ Turn(w, [me EXCEPT !.pc = "undo"])
  /\ UNCHANGED <<sessionVars, productionDays, cursor, slipped>>

UndoAppend(w, o) ==
  LET me == observer[w] IN
  /\ ObserverAt(w, "undo") /\ <<w, o>> \in writing
  /\ observations' = observations \ {<<o, me.seq>>} /\ writing' = Nobody
  /\ Turn(w, [me EXCEPT !.pc = "append", !.todo = @ \ {o}, !.skipped = TRUE])
  /\ UNCHANGED <<sessionVars, productionDays, cursor, slipped, observerFaults>>

\* Mutated forms: the cursor moves although observations were skipped; the sources are hashed
\* when the cursor is written.
FinishAnyhow(w) ==
  LET me == observer[w] IN
  /\ me.pc \in {"append", "done"} /\ me.todo = {} /\ Turn(w, Unoccupied)
  /\ cursor' = IF me.row = NoCursor THEN cursor ELSE me.row
  /\ UNCHANGED <<sessionVars, observations, writing, productionDays, slipped, observerFaults>>
FinishAsNow(w) ==
  LET me == observer[w] IN
  /\ me.pc \in {"append", "done"} /\ me.todo = {} /\ Turn(w, Unoccupied)
  /\ cursor' = IF me.skipped \/ me.row = NoCursor THEN cursor ELSE [me.row EXCEPT !.hash = Sources]
  /\ UNCHANGED <<sessionVars, observations, writing, productionDays, slipped, observerFaults>>

\* The cursor moves when nothing was skipped.
Finish(w) ==
  LET me == observer[w] IN
  /\ me.pc \in {"append", "done"} /\ me.todo = {} /\ Turn(w, Unoccupied)
  /\ cursor' = IF me.skipped \/ me.row = NoCursor THEN cursor ELSE me.row
  /\ UNCHANGED <<sessionVars, observations, writing, productionDays, slipped, observerFaults>>

\* An error outside the appends, or a death, in a run that writes; the line of a dead writer stays.
Quit(w) ==
  /\ observer[w].pc \in {"append", "undo"}
  /\ observerFaults < MaxObserverFaults /\ observerFaults' = observerFaults + 1
  /\ Turn(w, Unoccupied) /\ writing' = {r \in writing : r[1] # w}
  /\ UNCHANGED <<sessionVars, observations, productionDays, cursor, slipped>>

BackfillNext ==
  \/ \E kind \in Event : ReportEvent(kind)
  \/ \E ok \in BOOLEAN : BatchResult(ok) \/ \E finishes \in BOOLEAN : Result(ok, finishes)
  \/ BatchRows \/ BatchEnd \/ BatchUndo \/ BatchUndoEvidence
  \/ \E w \in Observers :
       \/ Scan(w) \/ ReadTasks(w) \/ ReadEvidence(w) \/ ObserveFinished(w) \/ Retask(w) \/ Reread(w)
       \/ ReadJournal(w) \/ EnsureDay(w) \/ Finish(w) \/ Quit(w)
       \/ \E o \in Occurrence : AppendOne(w, o) \/ LineFails(w, o) \/ UndoAppend(w, o)

BackfillSpec == BackfillInit /\ [][BackfillNext]_backfillVars

-----------------------------------------------------------------------------

\* A complete cursor with the hash of the sources as they are, which makes every later backfill
\* pass the session by, means that each of its failures is in the journal, and that a finished
\* session has its production day; unless a failed append, or a batch's results, were taken back
\* while another observer was at work.
CompleteMeansObserved ==
  ~slipped /\ cursor.status = "complete" /\ cursor.hash = Sources =>
    /\ Candidates(telemetry, 1..Len(telemetry), evidence) \subseteq Known
    /\ Qualifying(complete, evidence) \subseteq productionDays
=============================================================================
