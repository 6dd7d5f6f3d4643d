---------------------------- MODULE EventLedger ----------------------------
(*****************************************************************************)
(* The project event ledger, a JSONL file shared by every command. Appends   *)
(* hold the resource lock of the file (withResourceLocks, module             *)
(* SessionLock), write a whole batch, sync it, and truncate the file back    *)
(* if anything fails. Nothing repairs a damaged tail.                        *)
(*****************************************************************************)
EXTENDS Integers, Sequences

CONSTANTS
  Appenders, NoAppender,
  Batches,     \* the batches that are appended: sequences of event ids
  MaxLines,    \* EVENT_LEDGER_LIMITS
  MaxOps       \* bound on the number of appends

Ids == UNION {{b[i] : i \in DOMAIN b} : b \in Batches}

\* An append of no records returns at once and is none of these.
ASSUME BatchesAssumption == \A b \in Batches : b \in Seq(Ids) /\ b # <<>>
ASSUME LedgerAssumption == MaxLines \in Nat /\ MaxOps \in Nat /\ NoAppender \notin Appenders

VARIABLES
  ledger,      \* the lines of the file, in order
  synced,      \* how many lines a power loss cannot take
  ops,         \* what became of each append
  ledgerLock,  \* holder of the resource lock
  appender     \* [Appenders -> the append it is doing]

ledgerVars == <<ledger, synced, ops, ledgerLock, appender>>

\* "lf": the line is whole; "json": only the final newline is missing; "cut": a part of it.
Ends == {"lf", "json", "cut"}
LedgerLine == [id : Ids, op : 1..MaxOps, end : Ends]

\* "failed": the caller got an error after a rollback; "unclosed": an error although
\* the batch is durable; "unknown": the rollback failed too.
Outcomes == {"open", "acked", "failed", "unclosed", "unknown", "crashed"}
Op == [batch : Batches, status : Outcomes]
Appender == [pc : {"idle", "write", "short", "sync", "rollback", "close"}, op : 0..MaxOps, size : Nat]
NoAppend == [pc |-> "idle", op |-> 0, size |-> 0]

LedgerTypeOK ==
  /\ ledger \in Seq(LedgerLine) /\ synced \in 0..Len(ledger)
  /\ ops \in Seq(Op) /\ Len(ops) <= MaxOps
  /\ ledgerLock \in Appenders \cup {NoAppender}
  /\ appender \in [Appenders -> Appender]

LedgerInit ==
  /\ ledger = <<>> /\ synced = 0 /\ ops = <<>>
  /\ ledgerLock = NoAppender
  /\ appender = [p \in Appenders |-> NoAppend]

-----------------------------------------------------------------------------

AppendAt(p, pc) == appender[p].pc = pc
Batch(p)  == ops[appender[p].op].batch

\* Mutated form: the tail is not looked at.
AnyTail == TRUE

HasLfTail == ledger # <<>> => ledger[Len(ledger)].end = "lf"

\* Mutated forms: the lines already there are not compared with, or not counted with,
\* the new ones.
NoHistory(b) == \A i, j \in 1..Len(b) : b[i] = b[j] => i = j
NoExisting(b) == Len(b) <= MaxLines

\* inspectEventLedgerText finds no error, and no id of the batch is in the ledger.
ValidBatch(b) ==
  /\ \A i \in 1..Len(ledger) : ledger[i].end # "cut"
  /\ \A i, j \in 1..Len(ledger) : ledger[i].id = ledger[j].id => i = j
  /\ \A i, j \in 1..Len(b) : b[i] = b[j] => i = j
  /\ \A i \in 1..Len(ledger), j \in 1..Len(b) : ledger[i].id # b[j]

\* assertAppendWithinLimits
WithinLimits(b) == Len(ledger) + Len(b) <= MaxLines

\* Events with new random ids are appended without validation.
NewIds(b) ==
  /\ \A i, j \in 1..Len(b) : b[i] = b[j] => i = j
  /\ \A o \in 1..Len(ops) : \A i \in 1..Len(b), j \in 1..Len(ops[o].batch) : ops[o].batch[j] # b[i]

\* append(Validated)EventLedgerRecords up to the first byte; a refusal changes nothing.
BeginAppend(p, b, validated) ==
  /\ AppendAt(p, "idle") /\ ledgerLock = NoAppender /\ Len(ops) < MaxOps
  /\ IF validated THEN ValidBatch(b) ELSE NewIds(b)
  /\ HasLfTail /\ WithinLimits(b)
  /\ ledgerLock' = p
  /\ ops' = Append(ops, [batch |-> b, status |-> "open"])
  /\ appender' = [appender EXCEPT ![p] = [pc |-> "write", op |-> Len(ops) + 1, size |-> Len(ledger)]]
  /\ UNCHANGED <<ledger, synced>>

\* The file after the first n lines of p's batch, the last of which ends with `end`.
Written(p, n, end) ==
  SubSeq(ledger, 1, appender[p].size)
    \o [i \in 1..n |-> [id |-> Batch(p)[i], op |-> appender[p].op,
                        end |-> IF i = n THEN end ELSE "lf"]]

\* writeAll may write a part, and then the rest.
WriteLines(p, n, end) ==
  /\ appender[p].pc \in {"write", "short"} /\ n <= Len(Batch(p))
  /\ AppendAt(p, "short") => n = Len(Batch(p)) /\ end = "lf"
  /\ ledger' = Written(p, n, end)
  /\ appender' = [appender EXCEPT ![p].pc = IF n = Len(Batch(p)) /\ end = "lf" THEN "sync" ELSE "short"]
  /\ UNCHANGED <<synced, ops, ledgerLock>>

\* A write makes no progress, fails, or the size is not what it should be.
WriteFails(p) ==
  /\ appender[p].pc \in {"write", "short", "sync"}
  /\ appender' = [appender EXCEPT ![p].pc = "rollback"]
  /\ UNCHANGED <<ledger, synced, ops, ledgerLock>>

\* Mutated form: success is returned without the sync.
Unsynced(p, io) ==
  /\ AppendAt(p, "sync")
  /\ appender' = [appender EXCEPT ![p].pc = "close"]
  /\ UNCHANGED <<ledger, synced, ops, ledgerLock>>

\* fsync of the file and of a new directory entry, and the last look at the target:
\* a failure after the sync also rolls back.
Sync(p, io) ==
  /\ AppendAt(p, "sync")
  /\ synced' = Len(ledger)
  /\ appender' = [appender EXCEPT ![p].pc = IF io THEN "close" ELSE "rollback"]
  /\ UNCHANGED <<ledger, ops, ledgerLock>>

EndAppend(p, status) ==
  /\ ops' = [ops EXCEPT ![appender[p].op].status = status]
  /\ appender' = [appender EXCEPT ![p] = NoAppend]
  /\ ledgerLock' = NoAppender

\* Mutated form: the last line is truncated, not the batch.
RollbackLine(p, io) ==
  /\ AppendAt(p, "rollback")
  /\ IF io THEN /\ ledger' = SubSeq(ledger, 1, IF Len(ledger) > appender[p].size THEN Len(ledger) - 1 ELSE Len(ledger))
                /\ synced' = Len(ledger') /\ EndAppend(p, "failed")
           ELSE UNCHANGED <<ledger, synced>> /\ EndAppend(p, "unknown")

\* The file is truncated to its size before the append, and synced.
Rollback(p, io) ==
  /\ AppendAt(p, "rollback")
  /\ IF io THEN /\ ledger' = SubSeq(ledger, 1, appender[p].size)
                /\ synced' = appender[p].size /\ EndAppend(p, "failed")
           ELSE UNCHANGED <<ledger, synced>> /\ EndAppend(p, "unknown")

Close(p, io) ==
  /\ AppendAt(p, "close")
  /\ EndAppend(p, IF io THEN "acked" ELSE "unclosed")
  /\ UNCHANGED <<ledger, synced>>

\* The process dies: the bytes written so far stay, the lock is reclaimed.
AppendCrash(p) ==
  /\ ~AppendAt(p, "idle") /\ EndAppend(p, "crashed")
  /\ UNCHANGED <<ledger, synced>>

\* The machine loses power: what was not synced may be lost, wholly or in part.
PowerLoss(n, end) ==
  /\ n \in synced..Len(ledger)
  /\ (n = synced => end = "lf")
  /\ ledger' = [i \in 1..n |-> IF i = n /\ n > synced /\ ledger[i].end = "lf"
                              THEN [ledger[i] EXCEPT !.end = end] ELSE ledger[i]]
  /\ synced' = n
  /\ ops' = [o \in DOMAIN ops |-> IF ops[o].status = "open"
                                  THEN [ops[o] EXCEPT !.status = "crashed"] ELSE ops[o]]
  /\ appender' = [p \in Appenders |-> NoAppend]
  /\ ledgerLock' = NoAppender

LedgerNext ==
  \/ \E p \in Appenders :
       \/ \E b \in Batches, validated \in BOOLEAN : BeginAppend(p, b, validated)
       \/ \E n \in 1..MaxLines, end \in Ends : WriteLines(p, n, end)
       \/ WriteFails(p) \/ AppendCrash(p)
       \/ \E io \in BOOLEAN : Sync(p, io) \/ Rollback(p, io) \/ Close(p, io)
  \/ \E n \in 0..Len(ledger), end \in Ends : PowerLoss(n, end)

LedgerSpec == LedgerInit /\ [][LedgerNext]_ledgerVars

-----------------------------------------------------------------------------

\* The batch of append o is in the ledger, whole and in order, behind the first k lines.
StandsAt(o, k) ==
  LET b == ops[o].batch IN
  /\ k + Len(b) <= Len(ledger)
  /\ \A i \in 1..Len(b) : ledger[k + i] = [id |-> b[i], op |-> o, end |-> "lf"]
  /\ \A i \in 1..Len(ledger) : ledger[i].op = o => i \in k+1..k+Len(b)

\* EventLedger: a batch whose append returned stays in the ledger, whole and in order, whatever
\* fails, dies or loses power afterwards; one that failed and was rolled back left no line behind.
AnswersAreTrue ==
  \A o \in 1..Len(ops) :
    /\ ops[o].status = "acked" => \E k \in 0..Len(ledger) : StandsAt(o, k)
    /\ ops[o].status = "failed" => \A i \in 1..Len(ledger) : ledger[i].op # o

\* EventLedger: the ledger stays readable: it keeps within the limits; no line follows a line
\* without its newline, so that a damaged tail can be told apart and repaired; and no event id
\* is there twice, also after crashes that left part of a batch.
StaysReadable ==
  /\ Len(ledger) <= MaxLines
  /\ \A i \in 1..Len(ledger)-1 : ledger[i].end = "lf"
  /\ \A i, j \in 1..Len(ledger) : ledger[i].id = ledger[j].id => i = j
=============================================================================
