----------------------------- MODULE Evaluations -----------------------------
(*****************************************************************************)
(* Recording how an applied proposal has worked out, and by which later      *)
(* one it is superseded. `afol evolve evaluate` derives the state from the   *)
(* apply journal and the observations, and appends it to                     *)
(* evaluations.jsonl, under the locks of both journals; every reader         *)
(* checks each line against the apply journal as it is by then. The          *)
(* projection of the lines into the database is left out: a failure of it    *)
(* is no error.                                                              *)
(*****************************************************************************)
EXTENDS Integers, Sequences

CONSTANTS
  Raters,
  MaxApplies, MaxVerdicts, MaxRatingFaults    \* bounds

VARIABLES
  contract,   \* [Applied -> whether it carries an evaluation contract (v2)]; all of one cluster
  history,    \* applies.jsonl
  facts,      \* what the observations and production days since the apply have shown
  verdicts,   \* evaluations.jsonl
  lineCut,    \* a line of it was not written to its end
  rater,      \* [Raters -> the line it is about to append]
  ratingFaults

ratingVars == <<contract, history, facts, verdicts, lineCut, rater, ratingFaults>>

Applied == 1..MaxApplies
\* "window": the days of the window are over, and three sessions, if there are, have all metrics;
\* "better": three comparable sessions, and a scorecard that is accepted against the baseline.
Facts   == {"window", "better", "recurred"}
Phases  == {"prepare", "commit", "abort", "rollback"}
States  == {"canary", "stable", "regressed", "needs_more_data", "not_evaluable", "rolled_back", "superseded"}
\* anchor: the length of the apply journal; seen: the facts the state and the event's id stand for.
Verdict == [type : {"evaluation", "supersession"}, m : Applied, state : States, successor : Applied \cup {0},
            anchor : Nat, seen : SUBSET Facts]
Rest    == [pc |-> "idle"]

RatingTypeOK ==
  /\ contract \in [Applied -> BOOLEAN] /\ history \in Seq([m : Applied, phase : Phases])
  /\ facts \subseteq Facts /\ verdicts \in Seq(Verdict) /\ lineCut \in BOOLEAN
  /\ rater \in [Raters -> {Rest} \cup [pc : {"append"}, line : Verdict]]
  /\ ratingFaults \in 0..MaxRatingFaults

RatingInit ==
  /\ contract \in [Applied -> BOOLEAN] /\ history = <<>> /\ facts = {} /\ verdicts = <<>>
  /\ lineCut = FALSE /\ rater = [p \in Raters |-> Rest] /\ ratingFaults = 0

-----------------------------------------------------------------------------
(* The apply journal.                                                      *)

Said(m, phase) == \E i \in DOMAIN history : history[i] = [m |-> m, phase |-> phase]
Place(m, phase) == CHOOSE i \in DOMAIN history : history[i] = [m |-> m, phase |-> phase]
RolledBack(m) == Said(m, "rollback")

\* assertTransition; each mutation id is prepared once.
Allowed(m, phase) ==
  CASE phase = "prepare"  -> ~Said(m, "prepare") /\ \A k \in 1..(m - 1) : Said(k, "prepare")
    [] phase = "rollback" -> Said(m, "commit") /\ ~RolledBack(m)
    [] OTHER              -> Said(m, "prepare") /\ ~Said(m, "commit") /\ ~Said(m, "abort")

\* withApplyLock and withEvaluationLock: both kinds of record hold them throughout.
Locked == \E p \in Raters : rater[p] # Rest

AppendApply(m, phase) ==
  /\ ~Locked /\ Allowed(m, phase) /\ history' = Append(history, [m |-> m, phase |-> phase])
  /\ UNCHANGED <<contract, facts, verdicts, lineCut, rater, ratingFaults>>

\* Observations and days are added under the lock of the evaluations, and stay; what they and the
\* sessions' evidence, which has other locks, say of the scorecard may change either way.
Learn(f) ==
  /\ IF f = "better" THEN "window" \in facts ELSE ~Locked /\ f \notin facts
  /\ facts' = IF f \in facts THEN facts \ {f} ELSE facts \cup {f}
  /\ UNCHANGED <<contract, history, verdicts, lineCut, rater, ratingFaults>>

-----------------------------------------------------------------------------
(* validateBase: what every read and every append asks of a line.          *)

\* Mutated form: the apply journal is judged as it is now.
RolledBackBySoon(m, anchor) == RolledBack(m)

\* Rolled back as far as the line's author had read the apply journal.
RolledBackBy(m, anchor) == RolledBack(m) /\ Place(m, "rollback") <= anchor

Valid(v, earlier) ==
  /\ Said(v.m, "commit") /\ v.anchor \in Place(v.m, "commit")..Len(history)
  /\ v.type = "evaluation" =>
       (v.state = "rolled_back" <=> RolledBackBy(v.m, v.anchor)) /\ v.state # "superseded"
  /\ v.type = "supersession" =>
       /\ Said(v.successor, "commit") /\ contract[v.m] /\ contract[v.successor]
       /\ Place(v.m, "commit") < Place(v.successor, "commit") /\ Place(v.successor, "commit") <= v.anchor
       /\ ~RolledBackBy(v.m, v.anchor) /\ ~RolledBackBy(v.successor, v.anchor)
       /\ ~\E e \in earlier : e.type = "supersession" /\ e.m = v.m

Lines(n) == {verdicts[i] : i \in 1..n}
Readable == ~lineCut /\ \A i \in DOMAIN verdicts : Valid(verdicts[i], Lines(i - 1))

-----------------------------------------------------------------------------
(* recordProposalEvaluation, recordProposalSupersession.                   *)

\* The state of a live apply that has a contract: a recurrence goes before everything else.
StateOf(seen) ==
  IF "recurred" \in seen THEN "regressed"
  ELSE IF "window" \notin seen THEN "canary"
  ELSE IF "better" \in seen THEN "stable" ELSE "needs_more_data"

Line(type, m, state, successor, seen) ==
  [type |-> type, m |-> m, state |-> state, successor |-> successor, anchor |-> Len(history), seen |-> seen]

\* previewProposalEvaluationUnlocked of a committed mutation.
PreviewOf(m) ==
  IF RolledBack(m) THEN Line("evaluation", m, "rolled_back", 0, {})
  ELSE IF ~contract[m] THEN Line("evaluation", m, "not_evaluable", 0, {})
  ELSE Line("evaluation", m, StateOf(facts), 0, facts)

\* The idempotency digest leaves the anchor out.
SameAs(v, e) == [v EXCEPT !.anchor = 0] = [e EXCEPT !.anchor = 0]
Recorded(v) == \E e \in Lines(Len(verdicts)) : SameAs(v, e)

\* Mutated form: an earlier supersession is not looked for.
NeverSuperseded(m) == FALSE

Superseded(m) == \E e \in Lines(Len(verdicts)) : e.type = "supersession" /\ e.m = m

Hold(p, line) == rater' = [rater EXCEPT ![p] = [pc |-> "append", line |-> line]]

\* What was recorded before is answered again, and so is a supersession of a live apply.
Evaluate(p, m) ==
  /\ ~Locked /\ Readable /\ Said(m, "commit") /\ Len(verdicts) < MaxVerdicts
  /\ RolledBack(m) \/ ~Superseded(m)
  /\ ~Recorded(PreviewOf(m)) /\ Hold(p, PreviewOf(m))
  /\ UNCHANGED <<contract, history, facts, verdicts, lineCut, ratingFaults>>

Supersede(p, m, successor) ==
  /\ ~Locked /\ Readable /\ Len(verdicts) < MaxVerdicts
  /\ m # successor /\ \A k \in {m, successor} : Said(k, "commit") /\ ~RolledBack(k) /\ contract[k]
  /\ ~Superseded(m) /\ Place(m, "commit") < Place(successor, "commit")
  /\ Hold(p, Line("supersession", m, "superseded", successor, {}))
  /\ UNCHANGED <<contract, history, facts, verdicts, lineCut, ratingFaults>>

\* appendEvaluationEventUnlocked, which reads and checks once more under the same locks.  A failed
\* append is undone, unless its undoing fails too or the process dies: the line stays whole, or cut.
AppendVerdict(p, how) ==
  LET v == rater[p].line IN
  /\ rater[p] # Rest /\ Valid(v, Lines(Len(verdicts)))
  /\ verdicts' = IF how \in {"ok", "kept"} THEN Append(verdicts, v) ELSE verdicts
  /\ lineCut' = (how = "cut") /\ rater' = [rater EXCEPT ![p] = Rest]
  /\ how # "ok" => ratingFaults < MaxRatingFaults
  /\ ratingFaults' = IF how = "ok" THEN ratingFaults ELSE ratingFaults + 1
  /\ UNCHANGED <<contract, history, facts>>

RatingNext ==
  \/ \E m \in Applied, phase \in Phases : AppendApply(m, phase)
  \/ \E f \in Facts : Learn(f)
  \/ \E p \in Raters, m \in Applied :
       \/ Evaluate(p, m)
       \/ \E successor \in Applied : Supersede(p, m, successor)
  \/ \E p \in Raters, how \in {"ok", "undone", "kept", "cut"} : AppendVerdict(p, how)

RatingSpec == RatingInit /\ [][RatingNext]_ratingVars

-----------------------------------------------------------------------------

\* Whatever is applied and rolled back later, every recorded line stays acceptable to the checks
\* of a reader: no commit, abort or rollback makes the evaluations unreadable.
RatingsStayValid == \A i \in DOMAIN verdicts : Valid(verdicts[i], Lines(i - 1))

\* The lines about a mutation never go back: a rollback is the last word; behind a supersession
\* only a rollback may follow; a regression stays one; and no line is recorded twice, also when
\* an append that failed had left its line.
VerdictsNeverGoBack ==
  \A i, j \in DOMAIN verdicts : i < j /\ verdicts[i].m = verdicts[j].m =>
    /\ ~SameAs(verdicts[i], verdicts[j]) /\ verdicts[i].state # "rolled_back"
    /\ verdicts[i].type = "supersession" => verdicts[j].state = "rolled_back"
    /\ verdicts[i].state = "regressed" => verdicts[j].state \in {"regressed", "superseded", "rolled_back"}
=============================================================================
