---------------------------- MODULE ReceiptIngest ----------------------------
(*****************************************************************************)
(* Ingesting the receipt of a run that an external harness made: it is       *)
(* reserved in external.jsonl, an evidence entry is recorded, and the        *)
(* receipt is committed with the entry's id. A call holds the session lock   *)
(* of the receipt's id, which a death frees (module SessionLock), and a      *)
(* lock file of its own, which a death leaves behind. Receipts of            *)
(* different ids share the journal and are ingested side by side.            *)
(*****************************************************************************)
EXTENDS Integers, Sequences

CONSTANTS
  Workers, NoWorker,
  Receipts,                 \* receipt ids
  MaxEntries, MaxFailures   \* bounds on the evidence and on errors and deaths

ASSUME IngestAssumption == MaxEntries \in Nat /\ MaxFailures \in Nat /\ NoWorker \notin Workers

VARIABLES
  receipts,     \* the whole lines of external.jsonl
  receiptsCut,  \* a line was cut: the journal cannot be read any more
  entries,      \* the evidence entries that name a receipt, in the order of their ids
  busy,         \* [Receipts -> the worker that holds the session lock of the id]
  lockFiles,    \* [Receipts -> its lock file]
  call,         \* [Workers -> the call it is in]
  receiptFailures

receiptVars == <<receipts, receiptsCut, entries, busy, lockFiles, call, receiptFailures>>

\* Two contents that a receipt of the same id can have: their digests differ.
Contents == {1, 2}
NoFile   == [is |-> "none", stale |-> FALSE]
NoCall   == [pc |-> "idle"]

LineOf   == [receipt : Receipts, content : Contents, entry : 0..MaxEntries]
EntryOf  == [receipt : Receipts, content : Contents]
LockFiles == [is : {"none", "empty", "written"}, stale : BOOLEAN]
CallPCs  == {"lock", "own", "read", "reserve", "find", "record", "commit", "release"}
Call     == [pc : CallPCs, receipt : Receipts, content : Contents, entry : 0..MaxEntries] \cup {NoCall}

ReceiptTypeOK ==
  /\ receipts \in Seq(LineOf) /\ receiptsCut \in BOOLEAN
  /\ entries \in Seq(EntryOf) /\ Len(entries) <= MaxEntries
  /\ busy \in [Receipts -> Workers \cup {NoWorker}]
  /\ lockFiles \in [Receipts -> LockFiles]
  /\ call \in [Workers -> Call]
  /\ receiptFailures \in 0..MaxFailures

ReceiptInit ==
  /\ receipts = <<>> /\ receiptsCut = FALSE /\ entries = <<>> /\ receiptFailures = 0
  /\ busy = [r \in Receipts |-> NoWorker] /\ lockFiles = [r \in Receipts |-> NoFile]
  /\ call = [w \in Workers |-> NoCall]

CallAt(w, pc) == call[w].pc = pc
CallGoto(w, pc) == call' = [call EXCEPT ![w].pc = pc]
LinesOf(r) == {i \in 1..Len(receipts) : receipts[i].receipt = r}
\* recordedEvidenceId looks for the id, the harness and the run, not for the digest.
EntriesOf(r) == {i \in 1..Len(entries) : entries[i].receipt = r}
Failing == receiptFailures < MaxFailures /\ receiptFailures' = receiptFailures + 1

-----------------------------------------------------------------------------
(* withReceiptLock.                                                        *)

BeginIngest(w, r, c) ==
  /\ CallAt(w, "idle") /\ busy[r] = NoWorker /\ busy' = [busy EXCEPT ![r] = w]
  /\ call' = [call EXCEPT ![w] = [pc |-> "lock", receipt |-> r, content |-> c, entry |-> 0]]
  /\ UNCHANGED <<receipts, receiptsCut, entries, lockFiles, receiptFailures>>

\* The finally block, or an error before it: the worker's own lock file is removed if it can
\* be read.
EndIngest(w) ==
  LET r == call[w].receipt IN
  /\ busy' = [busy EXCEPT ![r] = NoWorker] /\ call' = [call EXCEPT ![w] = NoCall]
  /\ lockFiles' = [lockFiles EXCEPT ![r] = IF ~CallAt(w, "lock") /\ @.is = "written" THEN NoFile ELSE @]

LockFile(w) ==
  LET r == call[w].receipt IN
  /\ CallAt(w, "lock")
  /\ \/ /\ lockFiles[r] = NoFile /\ CallGoto(w, "own")
        /\ lockFiles' = [lockFiles EXCEPT ![r] = [is |-> "empty", stale |-> FALSE]]
        /\ UNCHANGED busy
     \/ /\ lockFiles[r].is = "written" /\ lockFiles[r].stale    \* a minute old: removed, and tried again
        /\ lockFiles' = [lockFiles EXCEPT ![r] = NoFile] /\ UNCHANGED <<busy, call>>
     \/ lockFiles[r] # NoFile /\ (lockFiles[r].is = "empty" \/ ~lockFiles[r].stale) /\ EndIngest(w)
  /\ UNCHANGED <<receipts, receiptsCut, entries, receiptFailures>>

OwnFile(w) ==
  /\ CallAt(w, "own") /\ lockFiles' = [lockFiles EXCEPT ![call[w].receipt].is = "written"] /\ CallGoto(w, "read")
  /\ UNCHANGED <<receipts, receiptsCut, entries, busy, receiptFailures>>

-----------------------------------------------------------------------------
(* ingestExternalReceipt.                                                  *)

\* receiptState: another content, a receipt that is committed already, and a journal that
\* cannot be read end the call.
ReadReceipts(w) ==
  LET own == LinesOf(call[w].receipt) IN
  /\ CallAt(w, "read")
  /\ IF receiptsCut \/ \E i \in own : receipts[i].content # call[w].content \/ receipts[i].entry # 0
     THEN EndIngest(w) ELSE CallGoto(w, IF own = {} THEN "reserve" ELSE "find") /\ UNCHANGED <<busy, lockFiles>>
  /\ UNCHANGED <<receipts, receiptsCut, entries, receiptFailures>>

ReceiptLine(w) == [receipt |-> call[w].receipt, content |-> call[w].content, entry |-> call[w].entry]

ReserveReceipt(w) ==
  /\ CallAt(w, "reserve") /\ receipts' = Append(receipts, ReceiptLine(w)) /\ CallGoto(w, "find")
  /\ UNCHANGED <<receiptsCut, entries, busy, lockFiles, receiptFailures>>

\* Mutated form: what an interrupted call has recorded is not looked for.
FindNothing(w) ==
  /\ CallAt(w, "find") /\ CallGoto(w, "record")
  /\ UNCHANGED <<receipts, receiptsCut, entries, busy, lockFiles, receiptFailures>>

FindEntry(w) ==
  LET found == EntriesOf(call[w].receipt) IN
  /\ CallAt(w, "find")
  /\ \/ found = {} /\ CallGoto(w, "record") /\ UNCHANGED <<busy, lockFiles>>
     \/ \E i \in found : /\ found = {i} /\ UNCHANGED <<busy, lockFiles>>
                         /\ call' = [call EXCEPT ![w].pc = "commit", ![w].entry = i]
     \/ (\E i, j \in found : i # j) /\ EndIngest(w)
  /\ UNCHANGED <<receipts, receiptsCut, entries, receiptFailures>>

RecordEntry(w) ==
  /\ CallAt(w, "record") /\ Len(entries) < MaxEntries
  /\ entries' = Append(entries, [receipt |-> call[w].receipt, content |-> call[w].content])
  /\ call' = [call EXCEPT ![w].pc = "commit", ![w].entry = Len(entries) + 1]
  /\ UNCHANGED <<receipts, receiptsCut, busy, lockFiles, receiptFailures>>

CommitReceipt(w) ==
  /\ CallAt(w, "commit") /\ receipts' = Append(receipts, ReceiptLine(w)) /\ CallGoto(w, "release")
  /\ UNCHANGED <<receiptsCut, entries, busy, lockFiles, receiptFailures>>

ReleaseReceipt(w) == CallAt(w, "release") /\ EndIngest(w) /\ UNCHANGED <<receipts, receiptsCut, entries, receiptFailures>>

-----------------------------------------------------------------------------

\* An error, before or after the bytes of the step are out, or in the middle of them; or the
\* death of the process, which leaves the lock file.
IngestFails(w, dies, done) ==
  /\ call[w].pc \notin {"idle", "lock"} /\ Failing
  /\ IF dies THEN /\ busy' = [busy EXCEPT ![call[w].receipt] = NoWorker]
                  /\ call' = [call EXCEPT ![w] = NoCall] /\ UNCHANGED lockFiles
     ELSE EndIngest(w)
  /\ LET appends == call[w].pc \in {"reserve", "commit"} IN
     /\ receipts' = IF appends /\ done = "whole" THEN Append(receipts, ReceiptLine(w)) ELSE receipts
     /\ receiptsCut' = (receiptsCut \/ (appends /\ done = "cut"))
     /\ entries' = IF CallAt(w, "record") /\ done = "whole" /\ Len(entries) < MaxEntries
                   THEN Append(entries, [receipt |-> call[w].receipt, content |-> call[w].content])
                   ELSE entries

\* A minute passes.
LockFileAges(r) ==
  /\ lockFiles[r].is = "written" /\ ~lockFiles[r].stale /\ lockFiles' = [lockFiles EXCEPT ![r].stale = TRUE]
  /\ UNCHANGED <<receipts, receiptsCut, entries, busy, call, receiptFailures>>

ReceiptNext ==
  \/ \E w \in Workers :
       \/ LockFile(w) \/ OwnFile(w) \/ ReadReceipts(w) \/ ReserveReceipt(w) \/ FindEntry(w) \/ RecordEntry(w)
       \/ CommitReceipt(w) \/ ReleaseReceipt(w)
       \/ \E r \in Receipts, c \in Contents : BeginIngest(w, r, c)
       \/ \E dies \in BOOLEAN, done \in {"nothing", "cut", "whole"} : IngestFails(w, dies, done)
  \/ \E r \in Receipts : LockFileAges(r)

ReceiptSpec == ReceiptInit /\ [][ReceiptNext]_receiptVars

-----------------------------------------------------------------------------

\* However often its ingestion is interrupted and tried again, a receipt has one evidence entry
\* at most, and what the journal has committed is the content that entry was recorded for,
\* although the entry is found again without its content.
OneEntryPerReceipt ==
  /\ \A i, j \in 1..Len(entries) : entries[i].receipt = entries[j].receipt => i = j
  /\ \A i \in 1..Len(receipts) : receipts[i].entry # 0 =>
       /\ receipts[i].entry \in 1..Len(entries)
       /\ entries[receipts[i].entry] = [receipt |-> receipts[i].receipt, content |-> receipts[i].content]
=============================================================================
