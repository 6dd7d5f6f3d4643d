---------------------------- MODULE RecordsProofs ----------------------------
(***************************************************************************)
(* Records that several processes keep in several places, for every number *)
(* of processes, records and faults. ReceiptIngest: OneEntryPerReceipt,    *)
(* for which a call knows what it has found of its receipt while it holds  *)
(* the lock of the id. WorkbenchIndex: IndexFollowsSessions, for which a   *)
(* rebuild, until it has written the index, has read of every session that *)
(* rests what is still so. PendingSpecs: SettledEverywhere, for which a    *)
(* process that is writing the three places knows, under the locks it      *)
(* holds, what each of them says. ArtifactCapture: SavedOnce, for which a  *)
(* command knows what the step it has come to expects of the two files.    *)
(* HistoryBackfill: CompleteMeansObserved, for which every row of the      *)
(* cursor, written or still to be, covers its sources or will never be     *)
(* seen again, because the session has outrun them.                        *)
(***************************************************************************)
EXTENDS ReceiptIngest, WorkbenchIndex, PendingSpecs, ArtifactCapture, HistoryBackfill,
        SequenceTheorems, FiniteSetTheorems, WellFoundedInduction, TLAPS

-----------------------------------------------------------------------------
(* ReceiptIngest: the inductive invariant.                                   *)

HasLine(r, c) == \E i \in 1..Len(receipts) : receipts[i].receipt = r /\ receipts[i].content = c
NoEntryOf(r)  == \A i \in 1..Len(entries) : entries[i].receipt # r

\* What a worker in a call has seen of the journal and the evidence still holds, since it has
\* the receipt's id to itself.
CallKnows(w) ==
  LET k == call[w] IN
  /\ k.pc # "idle" => busy[k.receipt] = w
  /\ k.pc \in {"lock", "own", "read", "reserve", "find", "record"} => k.entry = 0
  /\ k.pc = "reserve" => \A i \in 1..Len(receipts) : receipts[i].receipt # k.receipt
  /\ k.pc \in {"find", "record", "commit", "release"} => HasLine(k.receipt, k.content)
  /\ k.pc = "record" => NoEntryOf(k.receipt)
  /\ k.pc = "commit" => /\ k.entry \in 1..Len(entries)
                        /\ entries[k.entry] = [receipt |-> k.receipt, content |-> k.content]

\* The lines of one receipt have one content, and an entry has the content of a line.
LinesAgree ==
  \A i, j \in 1..Len(receipts) : receipts[i].receipt = receipts[j].receipt => receipts[i].content = receipts[j].content
EntriesReserved == \A i \in 1..Len(entries) : HasLine(entries[i].receipt, entries[i].content)

Recorded == LinesAgree /\ EntriesReserved /\ OneEntryPerReceipt
ReceiptInv == ReceiptTypeOK /\ Recorded /\ \A w \in Workers : CallKnows(w)

-----------------------------------------------------------------------------

LEMMA ReceiptLengths ==
  ASSUME ReceiptTypeOK
  PROVE  /\ Len(receipts) \in Nat /\ Len(entries) \in 0..MaxEntries
         /\ \A i \in 1..Len(receipts) : receipts[i] \in LineOf
         /\ \A i \in 1..Len(entries) : entries[i] \in EntryOf
         /\ \A w \in Workers : call[w].pc # "idle" =>
              call[w] \in [pc : CallPCs, receipt : Receipts, content : Contents, entry : 0..MaxEntries]
  <1>1. \A w \in Workers : call[w] \in Call
    BY DEF ReceiptTypeOK
  <1>2. QED
    BY <1>1, ElementOfSeq, LenProperties, IngestAssumption DEF ReceiptTypeOK, Call, NoCall

\* A line is added.
LEMMA LineIsAdded ==
  ASSUME ReceiptTypeOK, NEW l \in LineOf, receipts' = Append(receipts, l)
  PROVE  /\ receipts' \in Seq(LineOf) /\ Len(receipts') = Len(receipts) + 1
         /\ receipts'[Len(receipts) + 1] = l
         /\ \A i \in 1..Len(receipts) : receipts'[i] = receipts[i]
  BY AppendProperties DEF ReceiptTypeOK

\* An entry is added.
LEMMA EntryIsAdded ==
  ASSUME ReceiptTypeOK, NEW e \in EntryOf, entries' = Append(entries, e)
  PROVE  /\ entries' \in Seq(EntryOf) /\ Len(entries') = Len(entries) + 1
         /\ entries'[Len(entries) + 1] = e
         /\ \A i \in 1..Len(entries) : entries'[i] = entries[i]
  BY AppendProperties DEF ReceiptTypeOK

\* A reservation, or a commit with the entry of the receipt's content.
LEMMA LineRecorded ==
  ASSUME ReceiptInv, NEW l \in LineOf, receipts' = Append(receipts, l), entries' = entries,
         \A i \in 1..Len(receipts) : receipts[i].receipt = l.receipt => receipts[i].content = l.content,
         l.entry # 0 => /\ l.entry \in 1..Len(entries)
                        /\ entries[l.entry] = [receipt |-> l.receipt, content |-> l.content]
  PROVE  Recorded'
  <1>1. /\ Len(receipts') = Len(receipts) + 1 /\ receipts'[Len(receipts) + 1] = l
        /\ \A i \in 1..Len(receipts) : receipts'[i] = receipts[i]
        /\ Len(receipts) \in Nat /\ Len(entries) \in Nat
    BY LineIsAdded, ReceiptLengths, IngestAssumption DEF ReceiptInv
  <1>2. \A i \in 1..Len(receipts') : i \in 1..Len(receipts) \/ i = Len(receipts) + 1
    BY <1>1
  <1>3. LinesAgree'
    BY <1>1, <1>2 DEF ReceiptInv, Recorded, LinesAgree
  <1>4. EntriesReserved'
    BY <1>1 DEF ReceiptInv, Recorded, EntriesReserved, HasLine
  <1>5. OneEntryPerReceipt'
    BY <1>1, <1>2 DEF ReceiptInv, Recorded, OneEntryPerReceipt
  <1>6. QED
    BY <1>3, <1>4, <1>5 DEF Recorded

\* The first entry of a reserved receipt.
LEMMA EntryRecorded ==
  ASSUME ReceiptInv, NEW e \in EntryOf, entries' = Append(entries, e), receipts' = receipts,
         HasLine(e.receipt, e.content), NoEntryOf(e.receipt)
  PROVE  Recorded'
  <1>1. /\ Len(entries') = Len(entries) + 1 /\ entries'[Len(entries) + 1] = e
        /\ \A i \in 1..Len(entries) : entries'[i] = entries[i]
        /\ Len(receipts) \in Nat /\ Len(entries) \in Nat
    BY EntryIsAdded, ReceiptLengths, IngestAssumption DEF ReceiptInv
  <1>2. \A i \in 1..Len(entries') : i \in 1..Len(entries) \/ i = Len(entries) + 1
    BY <1>1
  <1>3. LinesAgree'
    BY DEF ReceiptInv, Recorded, LinesAgree
  <1>4. EntriesReserved'
    BY <1>1, <1>2 DEF ReceiptInv, Recorded, EntriesReserved, HasLine
  <1>5. OneEntryPerReceipt'
    BY <1>1, <1>2 DEF ReceiptInv, Recorded, OneEntryPerReceipt, NoEntryOf
  <1>6. QED
    BY <1>3, <1>4, <1>5 DEF Recorded

LEMMA NothingRecorded ==
  ASSUME ReceiptInv, receipts' = receipts, entries' = entries
  PROVE  Recorded'
  BY DEF ReceiptInv, Recorded, LinesAgree, EntriesReserved, HasLine, OneEntryPerReceipt

\* What is added to the journal and to the evidence is of receipt r.
Adds(r) ==
  /\ Len(receipts') \in Nat /\ Len(entries') \in Nat
  /\ Len(receipts) <= Len(receipts') /\ Len(entries) <= Len(entries')
  /\ \A i \in 1..Len(receipts) : receipts'[i] = receipts[i]
  /\ \A i \in 1..Len(entries) : entries'[i] = entries[i]
  /\ \A i \in 1..Len(receipts') : i > Len(receipts) => receipts'[i].receipt = r
  /\ \A i \in 1..Len(entries') : i > Len(entries) => entries'[i].receipt = r

\* The other workers are in calls for other receipts.
LEMMA OthersKnow ==
  ASSUME ReceiptInv, NEW w \in Workers, NEW r \in Receipts, busy[r] \in {w, NoWorker}, Adds(r),
         NEW v \in Workers, v # w, call'[v] = call[v],
         \A s \in Receipts : s # r => busy'[s] = busy[s]
  PROVE  CallKnows(v)'
  <1>1. CASE call[v].pc = "idle"
    BY <1>1 DEF CallKnows
  <1>2. CASE call[v].pc # "idle"
    <2> /\ call[v].receipt \in Receipts
        /\ Len(receipts) \in Nat /\ Len(entries) \in Nat
      BY <1>2, ReceiptLengths, IngestAssumption DEF ReceiptInv
    <2>0. busy[call[v].receipt] = v
      BY <1>2 DEF ReceiptInv, CallKnows
    <2>1. call[v].receipt # r
      BY <2>0, IngestAssumption
    <2>2. CallKnows(v) /\ busy'[call[v].receipt] = v
      BY <2>0, <2>1 DEF ReceiptInv
    <2>3. HasLine(call[v].receipt, call[v].content) => HasLine(call[v].receipt, call[v].content)'
      BY <2>1 DEF HasLine, Adds
    <2>4. NoEntryOf(call[v].receipt) => NoEntryOf(call[v].receipt)'
      BY <2>1 DEF NoEntryOf, Adds
    <2>5. QED
      BY <2>1, <2>2, <2>3, <2>4, SMTT(30) DEF CallKnows, Adds
  <1>3. QED
    BY <1>1, <1>2

LEMMA AddsNothing ==
  ASSUME ReceiptInv, receipts' = receipts, entries' = entries
  PROVE  \A r \in Receipts : Adds(r)
  BY ReceiptLengths, IngestAssumption DEF Adds, ReceiptInv

LEMMA AddsLine ==
  ASSUME ReceiptInv, NEW l \in LineOf, receipts' = Append(receipts, l), entries' = entries
  PROVE  Adds(l.receipt)
  <1>1. Len(receipts) \in Nat /\ Len(entries) \in Nat
    BY ReceiptLengths, IngestAssumption DEF ReceiptInv
  <1>2. \A i \in 1..Len(receipts') : i > Len(receipts) => i = Len(receipts) + 1
    BY <1>1, LineIsAdded DEF ReceiptInv
  <1>3. QED
    BY <1>1, <1>2, LineIsAdded DEF Adds, ReceiptInv

LEMMA AddsEntry ==
  ASSUME ReceiptInv, NEW e \in EntryOf, entries' = Append(entries, e), receipts' = receipts
  PROVE  Adds(e.receipt)
  <1>1. Len(receipts) \in Nat /\ Len(entries) \in Nat
    BY ReceiptLengths, IngestAssumption DEF ReceiptInv
  <1>2. \A i \in 1..Len(entries') : i > Len(entries) => i = Len(entries) + 1
    BY <1>1, EntryIsAdded DEF ReceiptInv
  <1>3. QED
    BY <1>1, <1>2, EntryIsAdded DEF Adds, ReceiptInv

-----------------------------------------------------------------------------
(* ReceiptIngest: the steps.                                                 *)

\* A call ends: what it wrote must be recorded soundly, and nothing else matters.
LEMMA CallEnds ==
  ASSUME ReceiptInv, NEW w \in Workers, call[w].pc # "idle",
         busy' = [busy EXCEPT ![call[w].receipt] = NoWorker], call' = [call EXCEPT ![w] = NoCall],
         Recorded', Adds(call[w].receipt),
         receipts' \in Seq(LineOf), receiptsCut' \in BOOLEAN,
         entries' \in Seq(EntryOf), Len(entries') <= MaxEntries,
         lockFiles' \in [Receipts -> LockFiles], receiptFailures' \in 0..MaxFailures
  PROVE  ReceiptInv'
  <1>1. call[w].receipt \in Receipts /\ busy[call[w].receipt] = w
    BY ReceiptLengths DEF ReceiptInv, CallKnows
  <1>2. ReceiptTypeOK'
    BY DEF ReceiptInv, ReceiptTypeOK, Call
  <1>3. call'[w] = NoCall /\ \A v \in Workers : v # w => call'[v] = call[v]
    BY DEF ReceiptInv, ReceiptTypeOK
  <1>4. \A s \in Receipts : s # call[w].receipt => busy'[s] = busy[s]
    BY DEF ReceiptInv, ReceiptTypeOK
  <1>5. CallKnows(w)'
    BY <1>3 DEF CallKnows, NoCall
  <1>6. ASSUME NEW v \in Workers, v # w
        PROVE  CallKnows(v)'
    BY <1>1, <1>3, <1>4, <1>6, OthersKnow
  <1>7. QED
    BY <1>2, <1>5, <1>6 DEF ReceiptInv

\* EndIngest after nothing was written.
LEMMA IngestEnds ==
  ASSUME ReceiptInv, NEW w \in Workers, call[w].pc # "idle", EndIngest(w),
         UNCHANGED <<receipts, receiptsCut, entries, receiptFailures>>
  PROVE  ReceiptInv'
  <1>1. call[w].receipt \in Receipts
    BY ReceiptLengths DEF ReceiptInv
  <1>2. lockFiles' \in [Receipts -> LockFiles]
    BY <1>1 DEF EndIngest, ReceiptInv, ReceiptTypeOK, LockFiles, NoFile
  <1>3. Recorded' /\ Adds(call[w].receipt)
    BY <1>1, NothingRecorded, AddsNothing
  <1>4. QED
    BY <1>2, <1>3, CallEnds DEF EndIngest, ReceiptInv, ReceiptTypeOK

\* A call goes on.
LEMMA CallGoesOn ==
  ASSUME ReceiptInv, NEW w \in Workers, call[w].pc # "idle",
         NEW pc \in CallPCs, NEW n \in 0..MaxEntries,
         call' = [call EXCEPT ![w] = [call[w] EXCEPT !.pc = pc, !.entry = n]],
         UNCHANGED <<receiptsCut, busy, receiptFailures>>,
         Recorded', Adds(call[w].receipt), receipts' \in Seq(LineOf),
         entries' \in Seq(EntryOf), Len(entries') <= MaxEntries,
         lockFiles' \in [Receipts -> LockFiles],
         CallKnows(w)'
  PROVE  ReceiptInv'
  <1>1. /\ call[w].receipt \in Receipts /\ busy[call[w].receipt] = w
        /\ call[w] \in [pc : CallPCs, receipt : Receipts, content : Contents, entry : 0..MaxEntries]
    BY ReceiptLengths DEF ReceiptInv, CallKnows
  <1>2. [call[w] EXCEPT !.pc = pc, !.entry = n] \in Call
    BY <1>1 DEF Call
  <1>3. ReceiptTypeOK'
    BY <1>2 DEF ReceiptInv, ReceiptTypeOK
  <1>4. ASSUME NEW v \in Workers, v # w
        PROVE  CallKnows(v)'
    BY <1>1, <1>4, OthersKnow DEF ReceiptInv, ReceiptTypeOK
  <1>5. QED
    BY <1>3, <1>4 DEF ReceiptInv

\* What the worker's own call is afterwards.
LEMMA OwnCall ==
  ASSUME ReceiptTypeOK, NEW w \in Workers, call[w].pc # "idle", NEW pc, NEW n,
         call' = [call EXCEPT ![w] = [call[w] EXCEPT !.pc = pc, !.entry = n]]
  PROVE  /\ call'[w].pc = pc /\ call'[w].entry = n
         /\ call'[w].receipt = call[w].receipt /\ call'[w].content = call[w].content
  <1>1. call[w] \in [pc : CallPCs, receipt : Receipts, content : Contents, entry : 0..MaxEntries]
    BY ReceiptLengths
  <1>2. call'[w] = [call[w] EXCEPT !.pc = pc, !.entry = n]
    BY DEF ReceiptTypeOK
  <1>3. QED
    BY <1>1, <1>2

\* CallGoto keeps the entry.
LEMMA GotoIs ==
  ASSUME ReceiptTypeOK, NEW w \in Workers, call[w].pc # "idle", NEW pc, CallGoto(w, pc)
  PROVE  call' = [call EXCEPT ![w] = [call[w] EXCEPT !.pc = pc, !.entry = call[w].entry]]
  <1>1. call[w] \in [pc : CallPCs, receipt : Receipts, content : Contents, entry : 0..MaxEntries]
    BY ReceiptLengths
  <1>2. [call[w] EXCEPT !.pc = pc] = [call[w] EXCEPT !.pc = pc, !.entry = call[w].entry]
    BY <1>1
  <1>3. QED
    BY <1>2 DEF CallGoto

LEMMA ReceiptInitInv == ReceiptInit => ReceiptInv
  <1> SUFFICES ASSUME ReceiptInit PROVE ReceiptInv
    OBVIOUS
  <1>1. receipts = <<>> /\ entries = <<>> /\ Len(receipts) = 0 /\ Len(entries) = 0
    BY EmptySeq DEF ReceiptInit
  <1>2. ReceiptTypeOK
    <2>1. receipts \in Seq(LineOf) /\ entries \in Seq(EntryOf) /\ Len(entries) <= MaxEntries
      BY <1>1, EmptySeq, IngestAssumption
    <2>2. NoFile \in LockFiles /\ NoCall \in Call
      BY DEF NoFile, LockFiles, Call
    <2>3. /\ call \in [Workers -> Call] /\ lockFiles \in [Receipts -> LockFiles]
          /\ busy \in [Receipts -> Workers \cup {NoWorker}]
      BY <2>2 DEF ReceiptInit
    <2>4. receiptFailures \in 0..MaxFailures
      BY IngestAssumption DEF ReceiptInit
    <2>5. receiptsCut \in BOOLEAN
      BY DEF ReceiptInit
    <2>6. QED
      BY <2>1, <2>3, <2>4, <2>5 DEF ReceiptTypeOK
  <1>3. Recorded
    BY <1>1 DEF Recorded, LinesAgree, EntriesReserved, OneEntryPerReceipt
  <1>4. \A w \in Workers : CallKnows(w)
    BY DEF ReceiptInit, CallKnows, NoCall
  <1>5. QED
    BY <1>2, <1>3, <1>4 DEF ReceiptInv

LEMMA BeginIngestInv ==
  ASSUME ReceiptInv, NEW w \in Workers, NEW r \in Receipts, NEW c \in Contents, BeginIngest(w, r, c)
  PROVE  ReceiptInv'
  <1> USE DEF BeginIngest
  <1>1. [pc |-> "lock", receipt |-> r, content |-> c, entry |-> 0] \in Call
    BY IngestAssumption DEF Call, CallPCs
  <1>2. ReceiptTypeOK'
    BY <1>1 DEF ReceiptInv, ReceiptTypeOK
  <1>3. Recorded' /\ Adds(r)
    BY NothingRecorded, AddsNothing
  <1>4. CallKnows(w)'
    BY DEF CallKnows, ReceiptInv, ReceiptTypeOK
  <1>5. ASSUME NEW v \in Workers, v # w
        PROVE  CallKnows(v)'
    BY <1>3, <1>5, OthersKnow DEF ReceiptInv, ReceiptTypeOK
  <1>6. QED
    BY <1>2, <1>3, <1>4, <1>5 DEF ReceiptInv

\* A step that writes neither to the journal nor to the evidence.
LEMMA CallWritesNothing ==
  ASSUME ReceiptInv, NEW w \in Workers, call[w].pc # "idle",
         NEW pc \in CallPCs, NEW n \in 0..MaxEntries,
         call' = [call EXCEPT ![w] = [call[w] EXCEPT !.pc = pc, !.entry = n]],
         UNCHANGED <<receipts, receiptsCut, entries, busy, receiptFailures>>,
         lockFiles' \in [Receipts -> LockFiles],
         pc \in {"own", "read", "reserve", "find", "record"} => n = 0,
         pc = "reserve" => \A i \in 1..Len(receipts) : receipts[i].receipt # call[w].receipt,
         pc \in {"find", "record", "commit", "release"} => HasLine(call[w].receipt, call[w].content),
         pc = "record" => NoEntryOf(call[w].receipt),
         pc = "commit" => /\ n \in 1..Len(entries)
                          /\ entries[n] = [receipt |-> call[w].receipt, content |-> call[w].content],
         pc # "lock"
  PROVE  ReceiptInv'
  <1>1. /\ call'[w].pc = pc /\ call'[w].entry = n
        /\ call'[w].receipt = call[w].receipt /\ call'[w].content = call[w].content
    BY OwnCall DEF ReceiptInv
  <1>2. /\ Recorded' /\ Adds(call[w].receipt)
        /\ busy[call[w].receipt] = w
    BY NothingRecorded, AddsNothing, ReceiptLengths DEF ReceiptInv, CallKnows
  <1>3. HasLine(call[w].receipt, call[w].content) => HasLine(call[w].receipt, call[w].content)'
    BY <1>1 DEF HasLine
  <1>4. NoEntryOf(call[w].receipt) => NoEntryOf(call[w].receipt)'
    BY <1>1 DEF NoEntryOf
  <1>5. CallKnows(w)'
    BY <1>1, <1>2, <1>3, <1>4 DEF CallKnows
  <1>6. QED
    BY <1>2, <1>5, CallGoesOn DEF ReceiptInv, ReceiptTypeOK

LEMMA PlacesOfCalls == {"own", "reserve", "find", "read", "record", "commit", "release"} \subseteq CallPCs /\ 0 \in 0..MaxEntries
  BY IngestAssumption DEF CallPCs

LEMMA LockFileInv ==
  ASSUME ReceiptInv, NEW w \in Workers, LockFile(w)
  PROVE  ReceiptInv'
  <1> DEFINE r == call[w].receipt
  <1>1. call[w].pc = "lock" /\ call[w].pc # "idle" /\ r \in Receipts /\ call[w].entry = 0
    BY ReceiptLengths DEF LockFile, CallAt, ReceiptInv, CallKnows
  <1>2. CASE lockFiles[r] = NoFile /\ CallGoto(w, "own")
             /\ lockFiles' = [lockFiles EXCEPT ![r] = [is |-> "empty", stale |-> FALSE]] /\ UNCHANGED busy
    <2>1. lockFiles' \in [Receipts -> LockFiles]
      BY <1>2 DEF ReceiptInv, ReceiptTypeOK, LockFiles
    <2>2. call' = [call EXCEPT ![w] = [call[w] EXCEPT !.pc = "own", !.entry = 0]]
      BY <1>1, <1>2, GotoIs DEF ReceiptInv
    <2>3. UNCHANGED <<receipts, receiptsCut, entries, busy, receiptFailures>>
      BY <1>2 DEF LockFile
    <2>4. QED
      BY <1>1, <2>1, <2>2, <2>3, CallWritesNothing, PlacesOfCalls
  <1>3. CASE lockFiles' = [lockFiles EXCEPT ![r] = NoFile] /\ UNCHANGED <<busy, call>>
    <2>1. ReceiptTypeOK'
      BY <1>3 DEF LockFile, ReceiptInv, ReceiptTypeOK, LockFiles, NoFile
    <2>2. Recorded'
      BY NothingRecorded DEF LockFile
    <2>3. \A v \in Workers : CallKnows(v)'
      BY <1>3 DEF LockFile, ReceiptInv, CallKnows, HasLine, NoEntryOf
    <2>4. QED
      BY <2>1, <2>2, <2>3 DEF ReceiptInv
  <1>4. CASE EndIngest(w)
    BY <1>1, <1>4, IngestEnds DEF LockFile
  <1>5. QED
    BY <1>2, <1>3, <1>4 DEF LockFile

LEMMA OwnFileInv ==
  ASSUME ReceiptInv, NEW w \in Workers, OwnFile(w)
  PROVE  ReceiptInv'
  <1>1. call[w].pc # "idle" /\ call[w].receipt \in Receipts /\ call[w].entry = 0
    BY ReceiptLengths DEF OwnFile, CallAt, ReceiptInv, CallKnows
  <1>2. lockFiles' \in [Receipts -> LockFiles]
    BY <1>1 DEF OwnFile, ReceiptInv, ReceiptTypeOK, LockFiles
  <1>3. call' = [call EXCEPT ![w] = [call[w] EXCEPT !.pc = "read", !.entry = 0]]
    BY <1>1, GotoIs DEF OwnFile, ReceiptInv
  <1>4. QED
    BY <1>1, <1>2, <1>3, CallWritesNothing, PlacesOfCalls DEF OwnFile

LEMMA ReadReceiptsInv ==
  ASSUME ReceiptInv, NEW w \in Workers, ReadReceipts(w)
  PROVE  ReceiptInv'
  <1> DEFINE own == LinesOf(call[w].receipt)
  <1>1. call[w].pc # "idle" /\ call[w].receipt \in Receipts /\ call[w].entry = 0
    BY ReceiptLengths DEF ReadReceipts, CallAt, ReceiptInv, CallKnows
  <1>2. CASE receiptsCut \/ \E i \in own : receipts[i].content # call[w].content \/ receipts[i].entry # 0
    BY <1>1, <1>2, IngestEnds DEF ReadReceipts
  <1>3. CASE ~(receiptsCut \/ \E i \in own : receipts[i].content # call[w].content \/ receipts[i].entry # 0)
    <2>0. UNCHANGED <<receipts, receiptsCut, entries, busy, receiptFailures, lockFiles>>
      BY <1>3 DEF ReadReceipts
    <2>1. CASE own = {}
      <3>1. call' = [call EXCEPT ![w] = [call[w] EXCEPT !.pc = "reserve", !.entry = 0]]
        BY <1>1, <1>3, <2>1, GotoIs DEF ReadReceipts, ReceiptInv
      <3>2. \A i \in 1..Len(receipts) : receipts[i].receipt # call[w].receipt
        BY <2>1 DEF LinesOf
      <3>3. QED
        BY <1>1, <2>0, <3>1, <3>2, CallWritesNothing, PlacesOfCalls DEF ReceiptInv, ReceiptTypeOK
    <2>2. CASE own # {}
      <3>1. call' = [call EXCEPT ![w] = [call[w] EXCEPT !.pc = "find", !.entry = 0]]
        BY <1>1, <1>3, <2>2, GotoIs DEF ReadReceipts, ReceiptInv
      <3>2. HasLine(call[w].receipt, call[w].content)
        BY <1>3, <2>2 DEF LinesOf, HasLine
      <3>3. QED
        BY <1>1, <2>0, <3>1, <3>2, CallWritesNothing, PlacesOfCalls DEF ReceiptInv, ReceiptTypeOK
    <2>3. QED
      BY <2>1, <2>2
  <1>4. QED
    BY <1>2, <1>3

\* The reservation, written whole.
LEMMA Reserves ==
  ASSUME ReceiptInv, NEW w \in Workers, call[w].pc = "reserve",
         receipts' = Append(receipts, ReceiptLine(w)), entries' = entries
  PROVE  /\ Recorded' /\ Adds(call[w].receipt) /\ receipts' \in Seq(LineOf)
         /\ \E i \in 1..Len(receipts') :
              receipts'[i].receipt = call[w].receipt /\ receipts'[i].content = call[w].content
  <1>1. /\ ReceiptLine(w) \in LineOf /\ ReceiptLine(w).receipt = call[w].receipt
        /\ ReceiptLine(w).content = call[w].content /\ ReceiptLine(w).entry = 0
    BY ReceiptLengths DEF ReceiptLine, LineOf, ReceiptInv, CallKnows
  <1>2. \A i \in 1..Len(receipts) : receipts[i].receipt # call[w].receipt
    BY DEF ReceiptInv, CallKnows
  <1>3. /\ receipts' \in Seq(LineOf) /\ Len(receipts') = Len(receipts) + 1
        /\ receipts'[Len(receipts) + 1] = ReceiptLine(w) /\ Len(receipts) \in Nat
    BY <1>1, LineIsAdded, ReceiptLengths DEF ReceiptInv
  <1>4. Recorded' /\ Adds(call[w].receipt)
    BY <1>1, <1>2, LineRecorded, AddsLine
  <1>5. Len(receipts) + 1 \in 1..Len(receipts')
    BY <1>3
  <1>6. QED
    BY <1>1, <1>3, <1>4, <1>5

\* The commit, written whole.
LEMMA Commits ==
  ASSUME ReceiptInv, NEW w \in Workers, call[w].pc = "commit",
         receipts' = Append(receipts, ReceiptLine(w)), entries' = entries
  PROVE  Recorded' /\ Adds(call[w].receipt) /\ receipts' \in Seq(LineOf)
  <1>1. /\ ReceiptLine(w) \in LineOf /\ ReceiptLine(w).receipt = call[w].receipt
        /\ ReceiptLine(w).content = call[w].content /\ ReceiptLine(w).entry = call[w].entry
    BY ReceiptLengths DEF ReceiptLine, LineOf, ReceiptInv
  <1>2. /\ HasLine(call[w].receipt, call[w].content) /\ call[w].entry \in 1..Len(entries)
        /\ entries[call[w].entry] = [receipt |-> call[w].receipt, content |-> call[w].content]
    BY DEF ReceiptInv, CallKnows
  <1>3. \A i \in 1..Len(receipts) :
          receipts[i].receipt = call[w].receipt => receipts[i].content = call[w].content
    BY <1>2 DEF HasLine, ReceiptInv, Recorded, LinesAgree
  <1>4. QED
    BY <1>1, <1>2, <1>3, LineRecorded, AddsLine, LineIsAdded DEF ReceiptInv

\* The entry, recorded.
LEMMA Records ==
  ASSUME ReceiptInv, NEW w \in Workers, call[w].pc = "record", Len(entries) < MaxEntries,
         entries' = Append(entries, [receipt |-> call[w].receipt, content |-> call[w].content]),
         receipts' = receipts
  PROVE  /\ Recorded' /\ Adds(call[w].receipt) /\ entries' \in Seq(EntryOf)
         /\ Len(entries') = Len(entries) + 1 /\ Len(entries') <= MaxEntries
         /\ entries'[Len(entries')] = [receipt |-> call[w].receipt, content |-> call[w].content]
  <1> DEFINE e == [receipt |-> call[w].receipt, content |-> call[w].content]
  <1>1. e \in EntryOf /\ e.receipt = call[w].receipt /\ e.content = call[w].content
    BY ReceiptLengths DEF EntryOf, ReceiptInv
  <1>2. HasLine(e.receipt, e.content) /\ NoEntryOf(e.receipt)
    BY <1>1 DEF ReceiptInv, CallKnows
  <1>3. Len(entries) \in Nat
    BY ReceiptLengths, IngestAssumption DEF ReceiptInv
  <1> HIDE DEF e
  <1>4. entries' = Append(entries, e)
    BY DEF e
  <1>5. /\ entries' \in Seq(EntryOf) /\ Len(entries') = Len(entries) + 1 /\ entries'[Len(entries) + 1] = e
    BY <1>1, <1>4, EntryIsAdded DEF ReceiptInv
  <1>6. Recorded' /\ Adds(e.receipt)
    BY <1>1, <1>2, <1>4, EntryRecorded, AddsEntry
  <1>7. QED
    BY <1>1, <1>3, <1>5, <1>6, IngestAssumption DEF e

LEMMA ReserveReceiptInv ==
  ASSUME ReceiptInv, NEW w \in Workers, ReserveReceipt(w)
  PROVE  ReceiptInv'
  <1>1. call[w].pc = "reserve" /\ call[w].pc # "idle" /\ call[w].entry = 0 /\ busy[call[w].receipt] = w
    BY DEF ReserveReceipt, CallAt, ReceiptInv, CallKnows
  <1>2. call' = [call EXCEPT ![w] = [call[w] EXCEPT !.pc = "find", !.entry = 0]]
    BY <1>1, GotoIs DEF ReserveReceipt, ReceiptInv
  <1>3. /\ Recorded' /\ Adds(call[w].receipt) /\ receipts' \in Seq(LineOf)
        /\ \E i \in 1..Len(receipts') :
             receipts'[i].receipt = call[w].receipt /\ receipts'[i].content = call[w].content
    BY <1>1, Reserves DEF ReserveReceipt
  <1>4. CallKnows(w)'
    <2>0. call'[w] = [call[w] EXCEPT !.pc = "find", !.entry = 0]
      BY <1>2 DEF ReceiptInv, ReceiptTypeOK
    <2>1. /\ call'[w].pc = "find" /\ call'[w].entry = 0
          /\ call'[w].receipt = call[w].receipt /\ call'[w].content = call[w].content
      BY <1>1, <2>0, ReceiptLengths DEF ReceiptInv
    <2>2. busy' = busy
      BY DEF ReserveReceipt
    <2>3. QED
      BY <1>1, <1>3, <2>1, <2>2 DEF CallKnows, HasLine
  <1>5. QED
    BY <1>1, <1>2, <1>3, <1>4, CallGoesOn, PlacesOfCalls DEF ReserveReceipt, ReceiptInv, ReceiptTypeOK

LEMMA FindEntryInv ==
  ASSUME ReceiptInv, NEW w \in Workers, FindEntry(w)
  PROVE  ReceiptInv'
  <1> DEFINE found == EntriesOf(call[w].receipt)
  <1>1. /\ call[w].pc = "find" /\ call[w].pc # "idle" /\ call[w].entry = 0
        /\ HasLine(call[w].receipt, call[w].content)
    BY DEF FindEntry, CallAt, ReceiptInv, CallKnows
  <1>2. UNCHANGED <<receipts, receiptsCut, entries, receiptFailures>> /\ lockFiles \in [Receipts -> LockFiles]
    BY DEF FindEntry, ReceiptInv, ReceiptTypeOK
  <1>3. CASE found = {} /\ CallGoto(w, "record") /\ UNCHANGED <<busy, lockFiles>>
    <2>1. call' = [call EXCEPT ![w] = [call[w] EXCEPT !.pc = "record", !.entry = 0]]
      BY <1>1, <1>3, GotoIs DEF ReceiptInv
    <2>2. NoEntryOf(call[w].receipt)
      BY <1>3 DEF EntriesOf, NoEntryOf
    <2>3. QED
      BY <1>1, <1>2, <1>3, <2>1, <2>2, CallWritesNothing, PlacesOfCalls
  <1>4. ASSUME NEW i \in found, UNCHANGED <<busy, lockFiles>>,
               call' = [call EXCEPT ![w].pc = "commit", ![w].entry = i]
        PROVE  ReceiptInv'
    <2>1. i \in 1..Len(entries) /\ entries[i].receipt = call[w].receipt /\ i \in 0..MaxEntries
      BY ReceiptLengths, IngestAssumption DEF EntriesOf, ReceiptInv
    <2>2. entries[i].content = call[w].content
      BY <1>1, <2>1 DEF ReceiptInv, Recorded, EntriesReserved, LinesAgree, HasLine
    <2>3. entries[i] = [receipt |-> call[w].receipt, content |-> call[w].content]
      BY <2>1, <2>2, ReceiptLengths DEF EntryOf, ReceiptInv
    <2>4. call' = [call EXCEPT ![w] = [call[w] EXCEPT !.pc = "commit", !.entry = i]]
      BY <1>4 DEF ReceiptInv, ReceiptTypeOK
    <2>5. UNCHANGED <<receipts, receiptsCut, entries, busy, receiptFailures>> /\ lockFiles' \in [Receipts -> LockFiles]
      BY <1>2, <1>4
    <2>6. "commit" \in CallPCs
      BY PlacesOfCalls
    <2>7. QED
      BY <1>1, <2>1, <2>3, <2>4, <2>5, <2>6, CallWritesNothing
  <1>5. CASE EndIngest(w)
    BY <1>1, <1>2, <1>5, IngestEnds
  <1>6. QED
    BY <1>3, <1>4, <1>5 DEF FindEntry

LEMMA RecordEntryInv ==
  ASSUME ReceiptInv, NEW w \in Workers, RecordEntry(w)
  PROVE  ReceiptInv'
  <1>1. /\ call[w].pc = "record" /\ call[w].pc # "idle" /\ busy[call[w].receipt] = w
        /\ HasLine(call[w].receipt, call[w].content) /\ Len(entries) \in Nat
    BY ReceiptLengths, IngestAssumption DEF RecordEntry, CallAt, ReceiptInv, CallKnows
  <1>2. /\ Recorded' /\ Adds(call[w].receipt) /\ entries' \in Seq(EntryOf)
        /\ Len(entries') = Len(entries) + 1 /\ Len(entries') <= MaxEntries
        /\ entries'[Len(entries')] = [receipt |-> call[w].receipt, content |-> call[w].content]
    BY <1>1, Records DEF RecordEntry
  <1> DEFINE n == Len(entries) + 1
  <1>3. n \in 0..MaxEntries /\ n \in 1..Len(entries')
    BY <1>1, <1>2, IngestAssumption
  <1>4. call' = [call EXCEPT ![w] = [call[w] EXCEPT !.pc = "commit", !.entry = n]]
    BY DEF RecordEntry, ReceiptInv, ReceiptTypeOK
  <1>5. CallKnows(w)'
    <2>1. /\ call'[w].pc = "commit" /\ call'[w].entry = n
          /\ call'[w].receipt = call[w].receipt /\ call'[w].content = call[w].content
      BY <1>1, <1>4, OwnCall DEF ReceiptInv
    <2>2. busy' = busy /\ receipts' = receipts
      BY DEF RecordEntry
    <2>3. HasLine(call[w].receipt, call[w].content)'
      BY <1>1, <2>1, <2>2 DEF HasLine
    <2>4. QED
      BY <1>1, <1>2, <1>3, <2>1, <2>2, <2>3 DEF CallKnows
  <1>6. QED
    BY <1>1, <1>2, <1>3, <1>4, <1>5, CallGoesOn, PlacesOfCalls DEF RecordEntry, ReceiptInv, ReceiptTypeOK

LEMMA CommitReceiptInv ==
  ASSUME ReceiptInv, NEW w \in Workers, CommitReceipt(w)
  PROVE  ReceiptInv'
  <1>1. /\ call[w].pc = "commit" /\ call[w].pc # "idle" /\ busy[call[w].receipt] = w
        /\ HasLine(call[w].receipt, call[w].content)
    BY DEF CommitReceipt, CallAt, ReceiptInv, CallKnows
  <1>2. call[w].entry \in 0..MaxEntries /\ Len(receipts) \in Nat
    BY <1>1, ReceiptLengths DEF ReceiptInv
  <1>3. call' = [call EXCEPT ![w] = [call[w] EXCEPT !.pc = "release", !.entry = call[w].entry]]
    BY <1>1, GotoIs DEF CommitReceipt, ReceiptInv
  <1>4. Recorded' /\ Adds(call[w].receipt) /\ receipts' \in Seq(LineOf)
    BY <1>1, Commits DEF CommitReceipt
  <1>5. CallKnows(w)'
    <2>1. /\ call'[w].pc = "release"
          /\ call'[w].receipt = call[w].receipt /\ call'[w].content = call[w].content
      BY <1>1, <1>3, OwnCall DEF ReceiptInv
    <2>2. busy' = busy
      BY DEF CommitReceipt
    <2>3. \E i \in 1..Len(receipts') :
            receipts'[i].receipt = call[w].receipt /\ receipts'[i].content = call[w].content
      BY <1>1, <1>2, <1>4, SMTT(30) DEF HasLine, Adds
    <2>4. QED
      BY <1>1, <2>1, <2>2, <2>3 DEF CallKnows, HasLine
  <1>6. QED
    BY <1>1, <1>2, <1>3, <1>4, <1>5, CallGoesOn, PlacesOfCalls DEF CommitReceipt, ReceiptInv, ReceiptTypeOK

LEMMA ReleaseReceiptInv ==
  ASSUME ReceiptInv, NEW w \in Workers, ReleaseReceipt(w)
  PROVE  ReceiptInv'
  BY IngestEnds DEF ReleaseReceipt, CallAt

LEMMA IngestFailsInv ==
  ASSUME ReceiptInv, NEW w \in Workers, NEW dies \in BOOLEAN,
         NEW done \in {"nothing", "cut", "whole"}, IngestFails(w, dies, done)
  PROVE  ReceiptInv'
  <1>1. call[w].pc # "idle" /\ call[w].receipt \in Receipts /\ receiptFailures' \in 0..MaxFailures
    BY ReceiptLengths, IngestAssumption DEF IngestFails, Failing, ReceiptInv, ReceiptTypeOK
  <1>2. /\ busy' = [busy EXCEPT ![call[w].receipt] = NoWorker] /\ call' = [call EXCEPT ![w] = NoCall]
        /\ lockFiles' \in [Receipts -> LockFiles]
    <2>1. CASE dies
      BY <2>1 DEF IngestFails, ReceiptInv, ReceiptTypeOK
    <2>2. CASE ~dies
      <3>1. EndIngest(w)
        BY <2>2 DEF IngestFails
      <3>2. QED
        BY <1>1, <3>1 DEF EndIngest, ReceiptInv, ReceiptTypeOK, LockFiles, NoFile
    <2>3. QED
      BY <2>1, <2>2
  <1>5. receiptsCut' \in BOOLEAN
    BY DEF IngestFails
  <1>3. /\ Recorded' /\ Adds(call[w].receipt) /\ receipts' \in Seq(LineOf)
        /\ entries' \in Seq(EntryOf) /\ Len(entries') <= MaxEntries
    <2>0. /\ receipts \in Seq(LineOf) /\ entries \in Seq(EntryOf) /\ Len(entries) <= MaxEntries
      BY DEF ReceiptInv, ReceiptTypeOK
    <2>1. CASE call[w].pc = "reserve" /\ done = "whole"
      <3>1. receipts' = Append(receipts, ReceiptLine(w)) /\ entries' = entries
        BY <2>1 DEF IngestFails, CallAt
      <3>2. QED
        BY <2>0, <2>1, <3>1, Reserves
    <2>2. CASE call[w].pc = "commit" /\ done = "whole"
      <3>1. receipts' = Append(receipts, ReceiptLine(w)) /\ entries' = entries
        BY <2>2 DEF IngestFails, CallAt
      <3>2. QED
        BY <2>0, <2>2, <3>1, Commits
    <2>3. CASE call[w].pc = "record" /\ done = "whole" /\ Len(entries) < MaxEntries
      <3>1. /\ entries' = Append(entries, [receipt |-> call[w].receipt, content |-> call[w].content])
            /\ receipts' = receipts
        BY <2>3 DEF IngestFails, CallAt
      <3>2. QED
        BY <2>0, <2>3, <3>1, Records
    <2>4. CASE ~(call[w].pc = "reserve" /\ done = "whole") /\ ~(call[w].pc = "commit" /\ done = "whole")
               /\ ~(call[w].pc = "record" /\ done = "whole" /\ Len(entries) < MaxEntries)
      <3>1. receipts' = receipts /\ entries' = entries
        BY <2>4 DEF IngestFails, CallAt
      <3>2. QED
        BY <1>1, <2>0, <3>1, NothingRecorded, AddsNothing
    <2>5. QED
      BY <2>1, <2>2, <2>3, <2>4
  <1>6. QED
    BY <1>1, <1>2, <1>3, <1>5, CallEnds

LEMMA LockFileAgesInv ==
  ASSUME ReceiptInv, NEW r \in Receipts, LockFileAges(r)
  PROVE  ReceiptInv'
  <1>1. ReceiptTypeOK'
    BY DEF LockFileAges, ReceiptInv, ReceiptTypeOK, LockFiles
  <1>2. Recorded'
    BY NothingRecorded DEF LockFileAges
  <1>3. \A v \in Workers : CallKnows(v)'
    BY DEF LockFileAges, ReceiptInv, CallKnows, HasLine, NoEntryOf
  <1>4. QED
    BY <1>1, <1>2, <1>3 DEF ReceiptInv

LEMMA ReceiptStepInv == ReceiptInv /\ [ReceiptNext]_receiptVars => ReceiptInv'
  <1> SUFFICES ASSUME ReceiptInv, [ReceiptNext]_receiptVars PROVE ReceiptInv'
    OBVIOUS
  <1>1. ASSUME NEW w \in Workers,
               \/ LockFile(w) \/ OwnFile(w) \/ ReadReceipts(w) \/ ReserveReceipt(w) \/ FindEntry(w)
               \/ RecordEntry(w) \/ CommitReceipt(w) \/ ReleaseReceipt(w)
        PROVE  ReceiptInv'
    BY <1>1, LockFileInv, OwnFileInv, ReadReceiptsInv, ReserveReceiptInv, FindEntryInv, RecordEntryInv,
       CommitReceiptInv, ReleaseReceiptInv
  <1>2. CASE UNCHANGED receiptVars
    BY <1>2, NothingRecorded DEF receiptVars, ReceiptInv, ReceiptTypeOK, CallKnows, HasLine, NoEntryOf
  <1>3. QED
    BY <1>1, <1>2, BeginIngestInv, IngestFailsInv, LockFileAgesInv DEF ReceiptNext

LEMMA ReceiptInvHolds == ReceiptSpec => []ReceiptInv
  BY ReceiptInitInv, ReceiptStepInv, PTL DEF ReceiptSpec

\* ReceiptIngest: whatever is interrupted and tried again by any number of processes, a receipt
\* has one evidence entry at most, and its commit names an entry of its content.
THEOREM OneEntryPerReceiptHolds == ReceiptSpec => []OneEntryPerReceipt
  <1>1. ReceiptInv => OneEntryPerReceipt
    BY DEF ReceiptInv, Recorded
  <1>2. QED
    BY <1>1, ReceiptInvHolds, PTL

-----------------------------------------------------------------------------
(* WorkbenchIndex: the inductive invariant.                                  *)

\* IndexTypeOK, with all the commands in one set.
Derived == UNION {[ss -> IndexEntry] : ss \in SUBSET Sessions}
Command == [pc : {"tell", "index", "load", "read"}, mine : SUBSET Sessions, all : BOOLEAN,
            tell : BOOLEAN, got : Derived, seen : [Sessions -> Nat], old : Derived]
IndexTypes ==
  /\ board \in [Sessions -> 0..MaxChanges] /\ sessionLog \in [Sessions -> Nat]
  /\ indexFile = NoIndex \/ indexFile \in [Sessions -> IndexEntry]
  /\ indexLock \in Writers \cup {NoWriter} /\ sessionOwner \in [Sessions -> Writers \cup {NoWriter}]
  /\ behind \subseteq Sessions /\ archives \in 0..MaxArchives /\ indexLost \in 0..MaxLost
  /\ indexing \in [Writers -> Command \cup {NoCommand}]
  /\ \A w \in Writers : indexing[w].mine = {s \in Sessions : sessionOwner[s] = w}

\* Nobody else's command is under way in the session, and none was cut off.
Steady(w, s) == s \notin behind /\ sessionOwner[s] \in {NoWriter, w}

\* What a rebuild has read is still so wherever no other command is under way.
ReadSoFar(w) ==
  LET k == indexing[w] IN
  k.pc = "read" =>
    /\ indexLock = w
    /\ k.all \/ k.old \in [Sessions -> IndexEntry]
    /\ \A s \in Sessions : Steady(w, s) =>
         /\ k.seen[s] = sessionLog[s]
         /\ s \in DOMAIN k.got => k.got[s] = EntryNow(s)
         /\ k.all \/ s \in k.mine \/ k.old[s] = EntryNow(s)

\* A session has a board before it has events, and before a command holds it.
BoardsFirst ==
  \A s \in Sessions : board[s] = 0 => sessionLog[s] = 0 /\ sessionOwner[s] = NoWriter

Begun(w) ==
  /\ indexing[w].pc = "load" => indexLock = w
  /\ indexing[w].pc \in {"tell", "index", "load"} => DOMAIN indexing[w].got = {}

IndexInv ==
  /\ IndexTypes /\ BoardsFirst /\ IndexFollowsSessions
  /\ \A w \in Writers : ReadSoFar(w) /\ Begun(w)

-----------------------------------------------------------------------------
(* WorkbenchIndex: the steps.                                                *)

\* A session without a command of others had none before the step, and is as it was.
Undisturbed(w, s) ==
  s \notin behind' /\ sessionOwner'[s] \in {NoWriter, w} =>
    /\ s \notin behind /\ sessionOwner[s] \in {NoWriter, w}
    /\ sessionOwner'[s] = NoWriter => sessionOwner[s] = NoWriter
    /\ board'[s] = board[s] /\ sessionLog'[s] = sessionLog[s]

LEMMA RebuildUndisturbed ==
  ASSUME NEW w \in Writers, ReadSoFar(w), indexing'[w] = indexing[w],
         indexing[w].pc = "read" => indexLock' = indexLock,
         \A s \in Sessions : Undisturbed(w, s)
  PROVE  ReadSoFar(w)'
  BY DEF ReadSoFar, Steady, Undisturbed, EntryNow

LEMMA IndexStillFollows ==
  ASSUME NEW w \in Writers, IndexFollowsSessions, indexFile' = indexFile,
         \A s \in Sessions : Undisturbed(w, s)
  PROVE  IndexFollowsSessions'
  BY DEF IndexFollowsSessions, Undisturbed, EntryNow

LEMMA CommandFields ==
  ASSUME IndexTypes, NEW w \in Writers
  PROVE  /\ indexing[w].pc # "idle" => indexing[w] \in Command
         /\ indexing[w].pc = "idle" => indexing[w] = NoCommand
         /\ indexing[w].mine \subseteq Sessions
         /\ indexing[w].mine = {s \in Sessions : sessionOwner[s] = w}
  BY DEF IndexTypes, Command, NoCommand

LEMMA EmptyIndex == NoIndex \in Derived /\ DOMAIN NoIndex = {}
  <1>1. NoIndex \in [{} -> IndexEntry] /\ {} \in SUBSET Sessions
    BY DEF NoIndex
  <1>2. QED
    BY <1>1 DEF Derived, NoIndex

LEMMA WholeIndex == [Sessions -> IndexEntry] \subseteq Derived
  BY DEF Derived

\* A command begins: it takes sessions that nobody holds.
LEMMA CommandBegins ==
  ASSUME IndexInv, NEW w \in Writers, NEW ss \in SUBSET Sessions, NEW k \in Command,
         k.pc \in {"tell", "index"}, k.mine = ss, DOMAIN k.got = {},
         indexing[w] = NoCommand, \A s \in ss : sessionOwner[s] = NoWriter,
         SessionsOwned(ss, w), indexing' = [indexing EXCEPT ![w] = k],
         UNCHANGED <<sessionLog, indexFile, indexLock, behind, indexLost>>,
         board' \in [Sessions -> 0..MaxChanges], archives' \in 0..MaxArchives,
         \A s \in Sessions : board'[s] = board[s] \/ (s \in ss /\ board'[s] # 0),
         \A s \in ss : board'[s] # 0
  PROVE  IndexInv'
  <1> USE IndexAssumption
  <1>1. /\ sessionOwner' \in [Sessions -> Writers \cup {NoWriter}]
        /\ \A s \in Sessions : sessionOwner'[s] = IF s \in ss THEN w ELSE sessionOwner[s]
    BY DEF SessionsOwned, IndexInv, IndexTypes
  <1>2. /\ indexing' \in [Writers -> Command \cup {NoCommand}]
        /\ indexing'[w] = k /\ \A v \in Writers : v # w => indexing'[v] = indexing[v]
    BY DEF IndexInv, IndexTypes
  <1>3. \A v \in Writers : indexing'[v].mine = {s \in Sessions : sessionOwner'[s] = v}
    <2>1. \A s \in Sessions : sessionOwner[s] # w
      BY CommandFields DEF IndexInv, NoCommand
    <2>2. {s \in Sessions : sessionOwner'[s] = w} = ss
      BY <1>1, <2>1
    <2>3. ASSUME NEW v \in Writers, v # w
          PROVE  {s \in Sessions : sessionOwner'[s] = v} = {s \in Sessions : sessionOwner[s] = v}
      BY <1>1, <2>3
    <2>4. QED
      BY <1>2, <2>2, <2>3 DEF IndexInv, IndexTypes
  <1>4. IndexTypes'
    BY <1>1, <1>2, <1>3 DEF IndexInv, IndexTypes
  <1>5. BoardsFirst'
    BY <1>1 DEF IndexInv, BoardsFirst
  <1>6. \A v \in Writers : v # w => \A s \in Sessions : Undisturbed(v, s)
    BY <1>1 DEF Undisturbed
  <1>7. IndexFollowsSessions'
    BY <1>1 DEF IndexInv, IndexFollowsSessions, EntryNow
  <1>8. ASSUME NEW v \in Writers
        PROVE  ReadSoFar(v)' /\ Begun(v)'
    <2>1. CASE v = w
      BY <1>2, <2>1 DEF ReadSoFar, Begun
    <2>2. CASE v # w
      BY <1>2, <1>6, <2>2, RebuildUndisturbed DEF IndexInv, Begun
    <2>3. QED
      BY <2>1, <2>2
  <1>9. QED
    BY <1>4, <1>5, <1>7, <1>8 DEF IndexInv

LEMMA ChangeSessionInv ==
  ASSUME IndexInv, NEW w \in Writers, NEW s \in Sessions, NEW first \in BOOLEAN, ChangeSession(w, s, first)
  PROVE  IndexInv'
  <1> DEFINE k == [pc |-> IF first THEN "tell" ELSE "index", mine |-> {s}, all |-> FALSE,
                   tell |-> ~first, got |-> NoIndex, seen |-> sessionLog, old |-> NoIndex]
  <1>1. k \in Command /\ k.pc \in {"tell", "index"} /\ k.mine = {s} /\ DOMAIN k.got = {}
    BY EmptyIndex DEF Command, IndexInv, IndexTypes
  <1>2. indexing' = [indexing EXCEPT ![w] = k]
    BY DEF ChangeSession
  <1> HIDE DEF k
  <1>3. /\ board' \in [Sessions -> 0..MaxChanges] /\ board'[s] # 0
        /\ \A t \in Sessions : t # s => board'[t] = board[t]
    BY IndexAssumption DEF ChangeSession, IndexInv, IndexTypes
  <1>4. /\ indexing[w] = NoCommand /\ sessionOwner[s] = NoWriter /\ SessionsOwned({s}, w)
        /\ UNCHANGED <<sessionLog, indexFile, indexLock, behind, indexLost>>
    BY DEF ChangeSession
  <1>5. archives' \in 0..MaxArchives
    BY DEF ChangeSession, IndexInv, IndexTypes
  <1>6. {s} \in SUBSET Sessions /\ \A t \in {s} : sessionOwner[t] = NoWriter /\ board'[t] # 0
    BY <1>3, <1>4
  <1>7. \A t \in Sessions : board'[t] = board[t] \/ (t \in {s} /\ board'[t] # 0)
    BY <1>3
  <1>8. QED
    BY <1>1, <1>2, <1>3, <1>4, <1>5, <1>6, <1>7, CommandBegins

LEMMA SessionBatchInv ==
  ASSUME IndexInv, NEW w \in Writers, NEW ss \in SUBSET Sessions, SessionBatch(w, ss)
  PROVE  IndexInv'
  <1> DEFINE k == [pc |-> "index", mine |-> ss, all |-> TRUE, tell |-> ss # {},
                   got |-> NoIndex, seen |-> sessionLog, old |-> NoIndex]
  <1>1. k \in Command /\ k.pc \in {"tell", "index"} /\ k.mine = ss /\ DOMAIN k.got = {}
    BY EmptyIndex DEF Command, IndexInv, IndexTypes
  <1>2. indexing' = [indexing EXCEPT ![w] = k]
    BY DEF SessionBatch
  <1> HIDE DEF k
  <1>3. archives' \in 0..MaxArchives
    BY IndexAssumption DEF SessionBatch, IndexInv, IndexTypes
  <1>4. /\ indexing[w] = NoCommand /\ SessionsOwned(ss, w)
        /\ UNCHANGED <<board, sessionLog, indexFile, indexLock, behind, indexLost>>
        /\ \A s \in ss : sessionOwner[s] = NoWriter /\ board[s] > 0
    BY DEF SessionBatch
  <1>5. \A s \in ss : board'[s] # 0
    BY <1>4 DEF IndexInv, IndexTypes
  <1>6. QED
    BY <1>1, <1>2, <1>3, <1>4, <1>5, CommandBegins DEF IndexInv, IndexTypes

\* A command goes on with the sessions it holds; it may add events of these.
LEMMA CommandGoesOn ==
  ASSUME IndexInv, NEW w \in Writers, NEW k \in Command,
         indexing[w] # NoCommand, k.mine = indexing[w].mine,
         indexing' = [indexing EXCEPT ![w] = k],
         UNCHANGED <<board, indexFile, sessionOwner, behind, archives, indexLost>>,
         indexLock' \in Writers \cup {NoWriter},
         indexLock' = indexLock \/ indexLock = NoWriter,
         sessionLog' = sessionLog \/ TellLedger(indexing[w].mine),
         ReadSoFar(w)', Begun(w)'
  PROVE  IndexInv'
  <1> USE IndexAssumption
  <1>1. \A s \in indexing[w].mine : s \in Sessions /\ sessionOwner[s] = w
    BY CommandFields DEF IndexInv
  <1>2. /\ sessionLog' \in [Sessions -> Nat]
        /\ \A s \in Sessions : sessionLog'[s] = sessionLog[s] \/ s \in indexing[w].mine
    BY DEF TellLedger, IndexInv, IndexTypes
  <1>3. /\ indexing' \in [Writers -> Command \cup {NoCommand}]
        /\ indexing'[w] = k /\ \A v \in Writers : v # w => indexing'[v] = indexing[v]
    BY DEF IndexInv, IndexTypes
  <1>4. IndexTypes'
    BY <1>2, <1>3 DEF IndexInv, IndexTypes
  <1>5. BoardsFirst'
    BY <1>1, <1>2 DEF IndexInv, BoardsFirst
  <1>6. \A v \in Writers : v # w => \A s \in Sessions : Undisturbed(v, s)
    BY <1>1, <1>2 DEF Undisturbed
  <1>7. IndexFollowsSessions'
    BY <1>1, <1>2 DEF IndexInv, IndexFollowsSessions, EntryNow
  <1>8. ASSUME NEW v \in Writers
        PROVE  ReadSoFar(v)' /\ Begun(v)'
    <2>1. CASE v = w
      BY <2>1
    <2>2. CASE v # w
      <3>1. indexing[v].pc \in {"load", "read"} => indexLock = v
        BY DEF IndexInv, ReadSoFar, Begun
      <3>2. indexing[v].pc \in {"load", "read"} => indexLock' = indexLock
        BY <3>1
      <3>3. ReadSoFar(v) /\ Begun(v)
        BY DEF IndexInv
      <3>4. Begun(v)'
        BY <1>3, <2>2, <3>1, <3>2, <3>3 DEF Begun
      <3>5. QED
        BY <1>3, <1>6, <2>2, <3>1, <3>2, <3>3, <3>4, RebuildUndisturbed
    <2>3. QED
      BY <2>1, <2>2
  <1>9. QED
    BY <1>4, <1>5, <1>7, <1>8 DEF IndexInv

LEMMA AppendSessionEventInv ==
  ASSUME IndexInv, NEW w \in Writers, AppendSessionEvent(w)
  PROVE  IndexInv'
  <1> DEFINE k == [indexing[w] EXCEPT !.pc = "index"]
  <1>1. indexing[w] \in Command /\ indexing[w] # NoCommand
    BY CommandFields DEF AppendSessionEvent, IndexInv, NoCommand
  <1>2. k \in Command /\ k.mine = indexing[w].mine /\ k.pc = "index" /\ k.got = indexing[w].got
    BY <1>1 DEF Command
  <1>3. indexing' = [indexing EXCEPT ![w] = k] /\ indexing'[w] = k
    BY DEF AppendSessionEvent, IndexGoto, IndexInv, IndexTypes
  <1> HIDE DEF k
  <1>4. ReadSoFar(w)' /\ Begun(w)'
    BY <1>2, <1>3 DEF ReadSoFar, Begun, IndexInv, AppendSessionEvent
  <1>5. QED
    BY <1>1, <1>2, <1>3, <1>4, CommandGoesOn DEF AppendSessionEvent, IndexInv, IndexTypes

LEMMA LockIndexInv ==
  ASSUME IndexInv, NEW w \in Writers, LockIndex(w)
  PROVE  IndexInv'
  <1> DEFINE k == [indexing[w] EXCEPT !.pc = "load"]
  <1>1. indexing[w] \in Command /\ indexing[w] # NoCommand
    BY CommandFields DEF LockIndex, IndexInv, NoCommand
  <1>2. k \in Command /\ k.mine = indexing[w].mine /\ k.pc = "load" /\ k.got = indexing[w].got
    BY <1>1 DEF Command
  <1>3. indexing' = [indexing EXCEPT ![w] = k] /\ indexing'[w] = k
    BY DEF LockIndex, IndexGoto, IndexInv, IndexTypes
  <1> HIDE DEF k
  <1>4. ReadSoFar(w)' /\ Begun(w)'
    BY <1>2, <1>3 DEF ReadSoFar, Begun, IndexInv, LockIndex
  <1>5. sessionLog' = sessionLog \/ TellLedger(indexing[w].mine)
    BY DEF LockIndex
  <1>6. indexLock' = w /\ indexLock = NoWriter
        /\ UNCHANGED <<board, indexFile, sessionOwner, behind, archives, indexLost>>
    BY DEF LockIndex
  <1>7. QED
    BY <1>1, <1>2, <1>3, <1>4, <1>5, <1>6, CommandGoesOn

\* The rebuild begins: the index as it was found says the truth of all resting sessions.
LEMMA LoadIndexInv ==
  ASSUME IndexInv, NEW w \in Writers, LoadIndex(w)
  PROVE  IndexInv'
  <1> DEFINE k == [indexing[w] EXCEPT !.pc = "read", !.old = indexFile, !.seen = sessionLog,
                                      !.all = @ \/ indexFile = NoIndex]
  <1>1. indexing[w] \in Command /\ indexing[w] # NoCommand
    BY CommandFields DEF LoadIndex, IndexInv, NoCommand
  <1>2. k \in Command /\ k.mine = indexing[w].mine /\ k.pc = "read"
    BY <1>1, EmptyIndex, WholeIndex DEF Command, IndexInv, IndexTypes
  <1>3. indexing' = [indexing EXCEPT ![w] = k] /\ indexing'[w] = k
    BY DEF LoadIndex, IndexInv, IndexTypes
  <1>4. k.old = indexFile /\ k.seen = sessionLog /\ k.got = indexing[w].got /\ (k.all \/ indexFile # NoIndex)
    BY <1>1 DEF Command
  <1> HIDE DEF k
  <1>5. UNCHANGED <<board, sessionLog, indexFile, indexLock, sessionOwner, behind, archives, indexLost>>
    BY DEF LoadIndex
  <1>6. ReadSoFar(w)'
    <2>1. indexLock = w /\ DOMAIN k.got = {} /\ (k.all \/ k.old \in [Sessions -> IndexEntry])
      BY <1>4 DEF LoadIndex, IndexInv, Begun, IndexTypes
    <2>2. ASSUME NEW s \in Sessions, Steady(w, s), ~k.all, s \notin k.mine
          PROVE  k.old[s] = EntryNow(s)
      <3>1. sessionOwner[s] # w
        BY <1>2, <2>2, CommandFields DEF IndexInv
      <3>2. QED
        BY <1>4, <2>2, <3>1 DEF Steady, IndexInv, IndexFollowsSessions
    <2>3. k.pc = "read" /\ k.seen = sessionLog
      BY <1>2, <1>4
    <2>4. QED
      BY <1>3, <1>5, <2>1, <2>2, <2>3 DEF ReadSoFar, Steady, EntryNow
  <1>7. Begun(w)'
    BY <1>2, <1>3 DEF Begun
  <1>8. indexLock' \in Writers \cup {NoWriter}
    BY <1>5 DEF IndexInv, IndexTypes
  <1>9. QED
    BY <1>1, <1>2, <1>3, <1>5, <1>6, <1>7, <1>8, CommandGoesOn

LEMMA ReadBoardInv ==
  ASSUME IndexInv, NEW w \in Writers, NEW s \in Sessions, ReadBoard(w, s)
  PROVE  IndexInv'
  <1> DEFINE g == [t \in DOMAIN indexing[w].got \cup {s} |->
                     IF t = s THEN [board |-> board[s], log |-> IF board[s] = 0 THEN 0 ELSE indexing[w].seen[s]]
                     ELSE indexing[w].got[t]]
             k == [indexing[w] EXCEPT !.got = g]
  <1>1. indexing[w] \in Command /\ indexing[w] # NoCommand /\ indexing[w].pc = "read"
    BY CommandFields DEF ReadBoard, IndexInv, NoCommand
  <1>2. g \in Derived
    <2>1. PICK ss \in SUBSET Sessions : indexing[w].got \in [ss -> IndexEntry]
      BY <1>1 DEF Command, Derived
    <2>2. [board |-> board[s], log |-> IF board[s] = 0 THEN 0 ELSE indexing[w].seen[s]] \in IndexEntry
      BY <1>1 DEF Command, IndexInv, IndexTypes, IndexEntry
    <2>3. g \in [ss \cup {s} -> IndexEntry] /\ ss \cup {s} \in SUBSET Sessions
      BY <2>1, <2>2
    <2>4. QED
      BY <2>3 DEF Derived
  <1>3. indexing' = [indexing EXCEPT ![w] = k] /\ indexing'[w] = k
    BY DEF ReadBoard, IndexInv, IndexTypes
  <1>4. /\ DOMAIN g = DOMAIN indexing[w].got \cup {s}
        /\ g[s] = [board |-> board[s], log |-> IF board[s] = 0 THEN 0 ELSE indexing[w].seen[s]]
        /\ \A t \in DOMAIN indexing[w].got : t # s => g[t] = indexing[w].got[t]
    OBVIOUS
  <1> HIDE DEF g
  <1>5. /\ k \in Command /\ k.mine = indexing[w].mine /\ k.pc = "read" /\ k.got = g
        /\ k.seen = indexing[w].seen /\ k.old = indexing[w].old /\ k.all = indexing[w].all
    BY <1>1, <1>2 DEF Command
  <1> HIDE DEF k
  <1>6. UNCHANGED <<board, sessionLog, indexFile, indexLock, sessionOwner, behind, archives, indexLost>>
    BY DEF ReadBoard
  <1>7. ReadSoFar(w)'
    <2>1. ReadSoFar(w)
      BY DEF IndexInv
    <2>2. Steady(w, s) => g[s] = EntryNow(s)
      BY <1>1, <1>4, <2>1 DEF ReadSoFar, EntryNow, IndexInv, BoardsFirst
    <2>3. \A t \in Sessions : Steady(w, t) => (t \in DOMAIN g => g[t] = EntryNow(t))
      BY <1>1, <1>4, <2>1, <2>2 DEF ReadSoFar
    <2>4. QED
      BY <1>1, <1>3, <1>5, <1>6, <2>1, <2>3 DEF ReadSoFar, Steady, EntryNow
  <1>8. Begun(w)'
    BY <1>3, <1>5 DEF Begun
  <1>9. indexLock' \in Writers \cup {NoWriter}
    BY <1>6 DEF IndexInv, IndexTypes
  <1>10. QED
    BY <1>1, <1>3, <1>5, <1>6, <1>7, <1>8, <1>9, CommandGoesOn

\* A command ends: its sessions are free again.
LEMMA CommandEnds ==
  ASSUME IndexInv, NEW w \in Writers, indexing[w] # NoCommand,
         indexing' = [indexing EXCEPT ![w] = NoCommand], SessionsOwned(indexing[w].mine, NoWriter),
         indexLock' = IF indexLock = w THEN NoWriter ELSE indexLock,
         UNCHANGED <<board, sessionLog, archives>>,
         indexFile' = NoIndex \/ indexFile' \in [Sessions -> IndexEntry],
         behind' \subseteq Sessions, indexLost' \in 0..MaxLost,
         IndexFollowsSessions',
         \A v \in Writers : v # w /\ indexing[v].pc = "read" => behind \cup indexing[w].mine \subseteq behind'
  PROVE  IndexInv'
  <1> USE IndexAssumption
  <1> DEFINE m == indexing[w].mine
  <1>1. m \subseteq Sessions /\ \A s \in Sessions : s \in m <=> sessionOwner[s] = w
    BY CommandFields DEF IndexInv
  <1>2. /\ sessionOwner' \in [Sessions -> Writers \cup {NoWriter}]
        /\ \A s \in Sessions : sessionOwner'[s] = IF sessionOwner[s] = w THEN NoWriter ELSE sessionOwner[s]
    BY <1>1 DEF SessionsOwned, IndexInv, IndexTypes
  <1>3. /\ indexing' \in [Writers -> Command \cup {NoCommand}]
        /\ indexing'[w] = NoCommand /\ \A v \in Writers : v # w => indexing'[v] = indexing[v]
    BY DEF IndexInv, IndexTypes
  <1>4. \A v \in Writers : indexing'[v].mine = {s \in Sessions : sessionOwner'[s] = v}
    <2>1. {s \in Sessions : sessionOwner'[s] = w} = {}
      BY <1>2
    <2>2. ASSUME NEW v \in Writers, v # w
          PROVE  {s \in Sessions : sessionOwner'[s] = v} = {s \in Sessions : sessionOwner[s] = v}
      BY <1>2, <2>2
    <2>3. QED
      BY <1>3, <2>1, <2>2 DEF IndexInv, IndexTypes, NoCommand
  <1>5. IndexTypes'
    BY <1>2, <1>3, <1>4 DEF IndexInv, IndexTypes
  <1>6. BoardsFirst'
    BY <1>2 DEF IndexInv, BoardsFirst
  <1>7. ASSUME NEW v \in Writers
        PROVE  ReadSoFar(v)' /\ Begun(v)'
    <2>1. CASE v = w
      BY <1>3, <2>1 DEF NoCommand, ReadSoFar, Begun
    <2>2. CASE v # w
      <3>1. /\ indexing[v].pc \in {"load", "read"} => indexLock = v
            /\ ReadSoFar(v) /\ Begun(v)
        BY DEF IndexInv, ReadSoFar, Begun
      <3>2. indexing[v].pc \in {"load", "read"} => indexLock' = indexLock
        BY <2>2, <3>1
      <3>3. Begun(v)'
        BY <1>3, <2>2, <3>1, <3>2 DEF Begun
      <3>4. CASE indexing[v].pc = "read"
        <4>1. \A s \in Sessions : Undisturbed(v, s)
          BY <1>1, <1>2, <2>2, <3>4 DEF Undisturbed
        <4>2. QED
          BY <1>3, <2>2, <3>1, <3>2, <3>3, <4>1, RebuildUndisturbed
      <3>5. CASE indexing[v].pc # "read"
        BY <1>3, <2>2, <3>3, <3>5 DEF ReadSoFar
      <3>6. QED
        BY <3>4, <3>5
    <2>3. QED
      BY <2>1, <2>2
  <1>8. QED
    BY <1>5, <1>6, <1>7 DEF IndexInv

LEMMA SaveIndexInv ==
  ASSUME IndexInv, NEW w \in Writers, SaveIndex(w)
  PROVE  IndexInv'
  <1> DEFINE k == indexing[w]
  <1>1. /\ k \in Command /\ k # NoCommand /\ k.pc = "read" /\ ReadSoFar(w) /\ indexLock = w
        /\ DOMAIN k.got = (IF k.all THEN Sessions ELSE k.mine)
    BY CommandFields DEF SaveIndex, WantedEntries, IndexInv, NoCommand, ReadSoFar
  <1>2. \A s \in Sessions : s \in k.mine <=> sessionOwner[s] = w
    BY CommandFields DEF IndexInv
  <1>3. \A s \in Sessions : indexFile'[s] = IF s \in DOMAIN k.got THEN k.got[s] ELSE k.old[s]
    BY DEF SaveIndex
  <1>4. indexFile' \in [Sessions -> IndexEntry]
    <2>1. \A s \in DOMAIN k.got : k.got[s] \in IndexEntry
      <3>1. PICK ss \in SUBSET Sessions : k.got \in [ss -> IndexEntry]
        BY <1>1 DEF Command, Derived
      <3>2. QED
        BY <3>1
    <2>2. \A s \in Sessions : s \notin DOMAIN k.got => k.old[s] \in IndexEntry
      BY <1>1 DEF ReadSoFar
    <2>3. QED
      BY <2>1, <2>2 DEF SaveIndex
  <1>5. \A s \in Sessions : sessionOwner'[s] = IF sessionOwner[s] = w THEN NoWriter ELSE sessionOwner[s]
    BY <1>2 DEF SaveIndex, SessionsOwned
  <1>6. UNCHANGED <<board, sessionLog, archives, indexLost>> /\ behind' = {s \in behind : indexFile'[s] # EntryNow(s)}
    BY DEF SaveIndex
  <1>7. IndexFollowsSessions'
    <2>1. SUFFICES ASSUME NEW s \in Sessions, s \notin behind', sessionOwner'[s] = NoWriter
                   PROVE  indexFile'[s] = EntryNow(s)
      BY <1>6 DEF IndexFollowsSessions, EntryNow
    <2>2. CASE s \in behind
      BY <1>6, <2>1, <2>2
    <2>3. CASE s \notin behind
      <3>1. Steady(w, s)
        BY <1>5, <2>1, <2>3 DEF Steady, IndexInv, IndexTypes
      <3>2. CASE s \in DOMAIN k.got
        BY <1>1, <1>3, <3>1, <3>2 DEF ReadSoFar
      <3>3. CASE s \notin DOMAIN k.got
        BY <1>1, <1>3, <3>1, <3>3 DEF ReadSoFar
      <3>4. QED
        BY <3>2, <3>3
    <2>4. QED
      BY <2>2, <2>3
  <1>8. \A v \in Writers : v # w => indexing[v].pc # "read"
    BY <1>1 DEF IndexInv, ReadSoFar
  <1>9. behind' \subseteq Sessions /\ indexLost' \in 0..MaxLost
    BY <1>6 DEF IndexInv, IndexTypes
  <1>10. QED
    BY <1>1, <1>4, <1>6, <1>7, <1>8, <1>9, CommandEnds DEF SaveIndex

LEMMA LoseCommandInv ==
  ASSUME IndexInv, NEW w \in Writers, LoseCommand(w)
  PROVE  IndexInv'
  <1>1. /\ indexing[w] # NoCommand /\ indexing' = [indexing EXCEPT ![w] = NoCommand]
        /\ SessionsOwned(indexing[w].mine, NoWriter)
        /\ indexLock' = IF indexLock = w THEN NoWriter ELSE indexLock
        /\ UNCHANGED <<board, sessionLog, indexFile, archives>>
        /\ behind' = behind \cup indexing[w].mine
    BY DEF LoseCommand, LeaveIndex
  <1>2. \A s \in Sessions : s \in indexing[w].mine <=> sessionOwner[s] = w
    BY CommandFields DEF IndexInv
  <1>3. behind' \subseteq Sessions /\ indexLost' \in 0..MaxLost
    BY <1>1, CommandFields, IndexAssumption DEF LoseCommand, IndexInv, IndexTypes
  <1>4. \A s \in Sessions : sessionOwner'[s] = IF sessionOwner[s] = w THEN NoWriter ELSE sessionOwner[s]
    BY <1>1, <1>2 DEF SessionsOwned
  <1>5. IndexFollowsSessions'
    BY <1>1, <1>2, <1>4 DEF IndexInv, IndexFollowsSessions, EntryNow
  <1>6. indexFile' = NoIndex \/ indexFile' \in [Sessions -> IndexEntry]
    BY <1>1 DEF IndexInv, IndexTypes
  <1>7. QED
    BY <1>1, <1>3, <1>5, <1>6, CommandEnds

LEMMA LoseIndexInv ==
  ASSUME IndexInv, LoseIndex
  PROVE  IndexInv'
  <1>1. IndexTypes'
    BY IndexAssumption DEF LoseIndex, IndexInv, IndexTypes
  <1>2. IndexFollowsSessions'
    BY DEF LoseIndex, IndexFollowsSessions, NoIndex
  <1>3. BoardsFirst' /\ \A w \in Writers : ReadSoFar(w)' /\ Begun(w)'
    BY DEF LoseIndex, IndexInv, BoardsFirst, ReadSoFar, Steady, EntryNow, Begun
  <1>4. QED
    BY <1>1, <1>2, <1>3 DEF IndexInv

LEMMA IndexInitInv == IndexInit => IndexInv
  <1> SUFFICES ASSUME IndexInit PROVE IndexInv
    OBVIOUS
  <1> USE IndexAssumption DEF IndexInit
  <1>1. \A w \in Writers : indexing[w].mine = {s \in Sessions : sessionOwner[s] = w}
    BY DEF NoCommand
  <1>2. IndexTypes
    BY <1>1 DEF IndexTypes
  <1>3. BoardsFirst /\ IndexFollowsSessions
    BY DEF BoardsFirst, IndexFollowsSessions
  <1>4. \A w \in Writers : ReadSoFar(w) /\ Begun(w)
    BY DEF ReadSoFar, Begun, NoCommand
  <1>5. QED
    BY <1>2, <1>3, <1>4 DEF IndexInv

LEMMA IndexStepInv == IndexInv /\ [IndexNext]_indexVars => IndexInv'
  <1> SUFFICES ASSUME IndexInv, [IndexNext]_indexVars PROVE IndexInv'
    OBVIOUS
  <1>1. CASE UNCHANGED indexVars
    <2>1. IndexTypes' /\ BoardsFirst' /\ IndexFollowsSessions'
      BY <1>1 DEF indexVars, IndexInv, IndexTypes, BoardsFirst, IndexFollowsSessions, EntryNow
    <2>2. \A w \in Writers : ReadSoFar(w)' /\ Begun(w)'
      BY <1>1 DEF indexVars, IndexInv, ReadSoFar, Steady, EntryNow, Begun
    <2>3. QED
      BY <2>1, <2>2 DEF IndexInv
  <1>2. QED
    BY <1>1, ChangeSessionInv, SessionBatchInv, AppendSessionEventInv, LockIndexInv, LoadIndexInv,
       ReadBoardInv, SaveIndexInv, LoseCommandInv, LoseIndexInv DEF IndexNext

LEMMA IndexInvHolds == IndexSpec => []IndexInv
  BY IndexInitInv, IndexStepInv, PTL DEF IndexSpec

LEMMA IndexTypesFit == IndexTypes => IndexTypeOK
  <1> SUFFICES ASSUME IndexTypes PROVE IndexTypeOK
    OBVIOUS
  <1>1. ASSUME NEW f \in Derived
        PROVE  DOMAIN f \in SUBSET Sessions /\ f \in [DOMAIN f -> IndexEntry]
    BY <1>1 DEF Derived
  <1>2. ASSUME NEW k \in Command
        PROVE  \E got, old \in SUBSET Sessions : k \in CommandOf(got, old)
    <2>1. k.got \in Derived /\ k.old \in Derived
      BY <1>2 DEF Command
    <2>2. k \in CommandOf(DOMAIN k.got, DOMAIN k.old)
      BY <1>1, <1>2, <2>1 DEF Command, CommandOf
    <2>3. QED
      BY <1>1, <2>1, <2>2
  <1>3. DOMAIN indexing = Writers /\ \A w \in Writers : indexing[w] \in Command \cup {NoCommand}
    BY DEF IndexTypes
  <1>4. QED
    BY <1>2, <1>3 DEF IndexTypes, IndexTypeOK

\* WorkbenchIndex: every variable has its type; the commands' owned sessions are those they locked.
THEOREM IndexTypeCorrect == IndexSpec => []IndexTypeOK
  <1>1. IndexInv => IndexTypeOK
    BY IndexTypesFit DEF IndexInv
  <1>2. QED
    BY <1>1, IndexInvHolds, PTL

\* WorkbenchIndex: whatever other commands, batches and rebuilds of any number of processes and
\* sessions do at the same time, the index says of a session at rest what its files say.
THEOREM IndexFollowsSessionsHolds == IndexSpec => []IndexFollowsSessions
  <1>1. IndexInv => IndexFollowsSessions
    BY DEF IndexInv
  <1>2. QED
    BY <1>1, IndexInvHolds, PTL

-----------------------------------------------------------------------------
(* PendingSpecs: the inductive invariant.                                    *)

Governing == {"repair", "plan", "read", "task", "index", "undoPlan", "undoTask", "undoIndex"}
PuttingBack == {"repair", "undoPlan", "undoTask", "undoIndex"}

\* Whoever governs holds the governance lock, whoever changes the board the session's; rows are
\* not ahead of the transitions made.
SpecLocks ==
  /\ \A p \in Governors : governor[p].pc \in Governing => govLock = p
  /\ \A p \in Governors : governor[p].pc \in {"create", "move"} => sessLock = p
Rows ==
  /\ taskFile.row <= moves
  /\ \A p \in Governors :
       /\ governor[p].seen.row <= moves /\ governor[p].was.task.row <= moves
       /\ governor[p].pc = "move" => moves < MaxMoves

\* How far resolve-spec has come; only a lifecycle command's older file can undo it.
Resolving(p) ==
  LET pc == governor[p].pc IN
  /\ pc \in {"plan", "read", "task", "index"} => specIndex = "open"
  /\ pc \in {"read", "task", "index"} => planFile = "settled"
  /\ pc = "index" => taskFile.spec = "settled" \/ crossed
\* What repair makes of the files holds of them until it is written.
Repairing(p) ==
  governor[p].pc = "repair" /\ governor[p].seen.spec = "settled" =>
    planFile = "settled" /\ (taskFile.spec = "settled" \/ crossed)

SpecInv ==
  /\ SpecTypeOK /\ SpecLocks /\ Rows /\ SettledEverywhere
  /\ \A p \in Governors : Resolving(p) /\ Repairing(p)

-----------------------------------------------------------------------------

USE SpecsAssumption

\* The states of the files and of one process after a step.
LEMMA GovernorIs ==
  ASSUME SpecTypeOK, NEW p \in Governors, NEW k \in Governor, governor' = [governor EXCEPT ![p] = k]
  PROVE  /\ governor' \in [Governors -> Governor] /\ governor'[p] = k
         /\ \A q \in Governors : q # p => governor'[q] = governor[q]
  BY DEF SpecTypeOK

LEMMA GoesTo ==
  ASSUME SpecTypeOK, NEW p \in Governors, NEW pc \in GovernorPCs, GovernorGoto(p, pc)
  PROVE  /\ governor' \in [Governors -> Governor]
         /\ governor'[p].pc = pc /\ governor'[p].was = governor[p].was /\ governor'[p].seen = governor[p].seen
         /\ \A q \in Governors : q # p => governor'[q] = governor[q]
  <1>1. [governor[p] EXCEPT !.pc = pc] \in Governor
    BY DEF SpecTypeOK, Governor
  <1>2. governor' = [governor EXCEPT ![p] = [governor[p] EXCEPT !.pc = pc]]
    BY DEF GovernorGoto
  <1>3. QED
    BY <1>1, <1>2, GovernorIs DEF SpecTypeOK, Governor

LEMMA Rests ==
  ASSUME SpecTypeOK, NEW p \in Governors, GovernorRests(p)
  PROVE  /\ governor' \in [Governors -> Governor]
         /\ governor'[p].pc = "idle" /\ governor'[p].was.task.row = 0 /\ governor'[p].seen.row = 0
         /\ \A q \in Governors : q # p => governor'[q] = governor[q]
  <1>1. NoAction \in Governor
    BY DEF NoAction, Governor, Specs, TaskFiles, NewTask, GovernorPCs
  <1>2. QED
    BY <1>1, GovernorIs DEF GovernorRests, NoAction, NewTask

LEMMA FilesHaveTypes ==
  ASSUME SpecTypeOK
  PROVE  /\ taskFile \in [spec : Specs, row : 0..MaxMoves] /\ planFile \in Specs
         /\ specIndex \in Specs \cup {"none"} /\ moves \in 0..MaxMoves /\ specFaults \in 0..MaxFaults
         /\ \A p \in Governors :
              /\ governor[p].pc \in GovernorPCs /\ governor[p].was.plan \in Specs
              /\ governor[p].was.task \in [spec : Specs, row : 0..MaxMoves]
              /\ governor[p].seen \in [spec : Specs, row : 0..MaxMoves]
  BY DEF SpecTypeOK, Governor, TaskFiles

LEMMA SpecInitInv == SpecInit => SpecInv
  <1> SUFFICES ASSUME SpecInit PROVE SpecInv
    OBVIOUS
  <1>1. PICK p \in Governors :
          /\ sessLock = p
          /\ governor = [q \in Governors |-> IF q = p THEN [NoAction EXCEPT !.pc = "create"] ELSE NoAction]
    BY DEF SpecInit
  <1>2. /\ NoAction \in Governor /\ [NoAction EXCEPT !.pc = "create"] \in Governor /\ NewTask \in TaskFiles
        /\ NewTask.row = 0
    BY DEF NoAction, Governor, Specs, TaskFiles, NewTask, GovernorPCs
  <1>3. \A q \in Governors :
          /\ governor[q].pc \in {"idle", "create"} /\ (governor[q].pc = "create" => q = p)
          /\ governor[q].was.task = NewTask /\ governor[q].seen = NewTask
    BY <1>1 DEF NoAction, NewTask
  <1>4. SpecTypeOK
    <2>1. governor \in [Governors -> Governor]
      BY <1>1, <1>2
    <2>2. crossed \in BOOLEAN /\ indexSpoiled \in BOOLEAN
      BY DEF SpecInit
    <2>3. moves \in 0..MaxMoves /\ specFaults \in 0..MaxFaults
      BY DEF SpecInit
    <2>4. QED
      BY <1>1, <1>2, <2>1, <2>2, <2>3 DEF SpecInit, SpecTypeOK, Specs
  <1>5. SpecLocks /\ Rows
    BY <1>1, <1>2, <1>3 DEF SpecInit, SpecLocks, Rows, Governing
  <1>6. SettledEverywhere /\ \A q \in Governors : Resolving(q) /\ Repairing(q)
    BY <1>3 DEF SpecInit, SettledEverywhere, Resolving, Repairing
  <1>7. QED
    BY <1>4, <1>5, <1>6 DEF SpecInv

-----------------------------------------------------------------------------
(* PendingSpecs: the steps.                                                  *)

\* One process at a time governs, and one changes the board.
LEMMA OneGoverns ==
  ASSUME SpecInv, NEW p \in Governors, governor[p].pc \in Governing
  PROVE  govLock = p /\ \A q \in Governors : q # p => governor[q].pc \in {"idle", "create", "move"}
  BY DEF SpecInv, SpecLocks, SpecTypeOK, Governor, GovernorPCs, Governing

\* A step of p that leaves the files alone.
LEMMA RecordSpecInv ==
  ASSUME SpecInv, NEW p \in Governors, NEW ok \in BOOLEAN, RecordSpec(p, ok), ok \/ specFaults < MaxFaults
  PROVE  SpecInv'
  <1>1. /\ governor[p].pc = "create" /\ govLock = NoGovernor /\ sessLock' = NoGovernor /\ GovernorRests(p)
        /\ UNCHANGED <<planFile, taskFile, govLock, indexSpoiled, moves, crossed>>
        /\ specIndex' \in {"open", specIndex} /\ specFaults' \in {specFaults, specFaults + 1}
        /\ specFaults' <= MaxFaults
    BY FilesHaveTypes DEF RecordSpec, GovernorAt, specHistory, SpecInv
  <1>2. /\ governor' \in [Governors -> Governor]
        /\ governor'[p].pc = "idle" /\ governor'[p].was.task.row = 0 /\ governor'[p].seen.row = 0
        /\ \A q \in Governors : q # p => governor'[q] = governor[q]
    BY <1>1, Rests DEF SpecInv
  <1>3. SpecTypeOK'
    BY <1>1, <1>2 DEF SpecInv, SpecTypeOK, Specs
  <1>4. SpecLocks' /\ Rows'
    BY <1>1, <1>2, FilesHaveTypes DEF SpecInv, SpecLocks, Rows, Governing
  <1>5. \A q \in Governors : governor[q].pc \notin Governing
    BY <1>1 DEF SpecInv, SpecLocks
  <1>6. \A q \in Governors : Resolving(q)' /\ Repairing(q)'
    BY <1>1, <1>2, <1>5 DEF Resolving, Repairing, Governing
  <1>7. SettledEverywhere'
    BY <1>1, <1>2, <1>5 DEF SpecInv, SettledEverywhere, Governing
  <1>8. QED
    BY <1>3, <1>4, <1>6, <1>7 DEF SpecInv

LEMMA BeginTransitionInv ==
  ASSUME SpecInv, NEW p \in Governors, BeginTransition(p)
  PROVE  SpecInv'
  <1> DEFINE k == [governor[p] EXCEPT !.pc = "move", !.seen = taskFile]
  <1>1. k \in Governor /\ k.pc = "move" /\ k.seen = taskFile /\ k.was = governor[p].was
    BY DEF SpecInv, SpecTypeOK, Governor, GovernorPCs
  <1>2. governor' = [governor EXCEPT ![p] = k]
    BY DEF BeginTransition, SpecInv, SpecTypeOK
  <1> HIDE DEF k
  <1>3. /\ governor' \in [Governors -> Governor] /\ governor'[p] = k
        /\ \A q \in Governors : q # p => governor'[q] = governor[q]
    BY <1>1, <1>2, GovernorIs DEF SpecInv
  <1>4. /\ governor[p].pc = "idle" /\ sessLock = NoGovernor /\ sessLock' = p /\ moves < MaxMoves
        /\ UNCHANGED <<planFile, taskFile, specIndex, govLock, indexSpoiled, moves, crossed, specFaults>>
    BY DEF BeginTransition, GovernorAt, specHistory
  <1>5. SpecTypeOK'
    BY <1>3, <1>4 DEF SpecInv, SpecTypeOK
  <1>6. SpecLocks'
    BY <1>1, <1>3, <1>4 DEF SpecInv, SpecLocks, Governing
  <1>7. Rows'
    BY <1>1, <1>3, <1>4 DEF SpecInv, Rows
  <1>8. \A q \in Governors : Resolving(q)' /\ Repairing(q)'
    BY <1>1, <1>3, <1>4 DEF SpecInv, Resolving, Repairing
  <1>9. SettledEverywhere'
    <2>1. \A q \in Governors : governor[q].pc \in PuttingBack => governor'[q].pc = governor[q].pc
      BY <1>3, <1>4 DEF PuttingBack
    <2>2. QED
      BY <1>4, <2>1 DEF SpecInv, SettledEverywhere, PuttingBack
  <1>10. QED
    BY <1>5, <1>6, <1>7, <1>8, <1>9 DEF SpecInv

\* An older frontmatter is put back only with a note of it.
LEMMA WriteTransitionInv ==
  ASSUME SpecInv, NEW p \in Governors, WriteTransition(p)
  PROVE  SpecInv'
  <1>1. /\ governor[p].pc = "move" /\ sessLock = p /\ sessLock' = NoGovernor /\ GovernorRests(p)
        /\ moves' = moves + 1 /\ moves < MaxMoves /\ governor[p].seen.row <= moves
        /\ UNCHANGED <<planFile, specIndex, govLock, indexSpoiled, specFaults>>
    BY DEF WriteTransition, GovernorAt, SpecInv, SpecLocks, Rows
  <1>2. /\ governor' \in [Governors -> Governor]
        /\ governor'[p].pc = "idle" /\ governor'[p].was.task.row = 0 /\ governor'[p].seen.row = 0
        /\ \A q \in Governors : q # p => governor'[q] = governor[q]
    BY <1>1, Rests DEF SpecInv
  <1>3. /\ taskFile' = [governor[p].seen EXCEPT !.row = @ + 1]
        /\ governor[p].seen \in [spec : Specs, row : 0..MaxMoves] /\ moves \in Nat
    BY FilesHaveTypes DEF WriteTransition, SpecInv
  <1>4. /\ taskFile'.spec = governor[p].seen.spec /\ taskFile'.row = governor[p].seen.row + 1
        /\ taskFile' \in TaskFiles
    BY <1>1, <1>3 DEF TaskFiles
  <1>5. crossed' \in BOOLEAN /\ (crossed => crossed') /\ (~crossed' => taskFile'.spec = taskFile.spec)
    BY <1>4 DEF WriteTransition
  <1>6. SpecTypeOK'
    BY <1>1, <1>2, <1>4, <1>5, FilesHaveTypes DEF SpecInv, SpecTypeOK
  <1>7. SpecLocks'
    BY <1>1, <1>2 DEF SpecInv, SpecLocks, Governing
  <1>8. Rows'
    <2>1. \A q \in Governors : q # p => governor[q].pc # "move"
      BY <1>1 DEF SpecInv, SpecLocks
    <2>2. taskFile'.row <= moves'
      BY <1>1, <1>3, <1>4
    <2>3. \A q \in Governors : governor[q].seen.row <= moves' /\ governor[q].was.task.row <= moves'
      BY <1>1, FilesHaveTypes DEF SpecInv, Rows
    <2>4. QED
      BY <1>1, <1>2, <1>3, <2>1, <2>2, <2>3 DEF Rows
  <1>9. \A q \in Governors : Resolving(q)' /\ Repairing(q)'
    BY <1>1, <1>2, <1>5 DEF SpecInv, Resolving, Repairing
  <1>10. SettledEverywhere'
    <2>1. \A q \in Governors : governor[q].pc \in PuttingBack => governor'[q].pc = governor[q].pc
      BY <1>1, <1>2 DEF PuttingBack
    <2>2. QED
      BY <1>1, <1>5, <2>1 DEF SpecInv, SettledEverywhere, PuttingBack
  <1>11. QED
    BY <1>6, <1>7, <1>8, <1>9, <1>10 DEF SpecInv

\* resolve-spec or repair begins.
LEMMA GovernorBegins ==
  ASSUME SpecInv, NEW p \in Governors, governor[p].pc = "idle", govLock = NoGovernor, govLock' = p,
         UNCHANGED <<planFile, taskFile, specIndex, sessLock, moves, specFaults>>,
         crossed' \in BOOLEAN, indexSpoiled' \in BOOLEAN,
         NEW k \in Governor, governor' = [governor EXCEPT ![p] = k],
         k.pc \in {"plan", "repair"}, k.seen.row <= moves, k.was.task.row <= moves,
         Resolving(p)', Repairing(p)',
         k.pc = "repair" \/ specIndex = "open"
  PROVE  SpecInv'
  <1>1. /\ governor' \in [Governors -> Governor] /\ governor'[p] = k
        /\ \A q \in Governors : q # p => governor'[q] = governor[q]
    BY GovernorIs DEF SpecInv
  <1>2. SpecTypeOK'
    BY <1>1 DEF SpecInv, SpecTypeOK
  <1>3. \A q \in Governors : governor[q].pc \notin Governing
    BY DEF SpecInv, SpecLocks
  <1>4. SpecLocks'
    BY <1>1, <1>3 DEF SpecInv, SpecLocks, Governing
  <1>5. Rows'
    BY <1>1 DEF SpecInv, Rows
  <1>6. ASSUME NEW q \in Governors, q # p
        PROVE  Resolving(q)' /\ Repairing(q)'
    BY <1>1, <1>3, <1>6 DEF Resolving, Repairing, Governing
  <1>7. SettledEverywhere'
    BY <1>1 DEF SettledEverywhere
  <1>8. QED
    BY <1>2, <1>4, <1>5, <1>6, <1>7 DEF SpecInv

LEMMA BeginResolveInv ==
  ASSUME SpecInv, NEW p \in Governors, BeginResolve(p)
  PROVE  SpecInv'
  <1> DEFINE k == [pc |-> "plan", was |-> [plan |-> planFile, task |-> taskFile], seen |-> taskFile]
  <1>1. k \in Governor /\ k.pc = "plan" /\ k.seen = taskFile /\ k.was.task = taskFile
    BY DEF SpecInv, SpecTypeOK, Governor, GovernorPCs
  <1>2. governor' = [governor EXCEPT ![p] = k] /\ governor'[p] = k
    BY DEF BeginResolve, SpecInv, SpecTypeOK
  <1> HIDE DEF k
  <1>3. /\ governor[p].pc = "idle" /\ govLock = NoGovernor /\ govLock' = p /\ specIndex = "open"
        /\ UNCHANGED <<planFile, taskFile, specIndex, sessLock, moves, specFaults, crossed, indexSpoiled>>
    BY DEF BeginResolve, GovernorAt, specHistory
  <1>4. crossed' \in BOOLEAN /\ indexSpoiled' \in BOOLEAN
    BY <1>3 DEF SpecInv, SpecTypeOK
  <1>5. Resolving(p)' /\ Repairing(p)'
    BY <1>1, <1>2, <1>3 DEF Resolving, Repairing
  <1>6. taskFile.row <= moves
    BY DEF SpecInv, Rows
  <1>7. QED
    BY <1>1, <1>2, <1>3, <1>4, <1>5, <1>6, GovernorBegins

LEMMA RepairReadInv ==
  ASSUME SpecInv, NEW p \in Governors, RepairRead(p)
  PROVE  SpecInv'
  <1> DEFINE e == IF planFile = "open" THEN planFile ELSE taskFile.spec
             k == [governor[p] EXCEPT !.pc = "repair", !.seen = [governor[p].seen EXCEPT !.spec = e]]
  <1>0. e \in Specs /\ (e = "settled" => planFile = "settled" /\ taskFile.spec = "settled")
    BY FilesHaveTypes DEF SpecInv, Specs
  <1>1. governor' = [governor EXCEPT ![p].pc = "repair", ![p].seen.spec = e]
    BY DEF RepairRead
  <1> HIDE DEF e
  <1>2. /\ k \in Governor /\ k.pc = "repair" /\ k.seen.row = governor[p].seen.row /\ k.was = governor[p].was
        /\ k.seen.spec = e
    BY <1>0, FilesHaveTypes, ZenonT(60) DEF SpecInv, SpecTypeOK, Governor, GovernorPCs, TaskFiles
  <1>3. governor' = [governor EXCEPT ![p] = k] /\ governor'[p] = k
    BY <1>1, ZenonT(60) DEF SpecInv, SpecTypeOK
  <1> HIDE DEF k
  <1>4. /\ governor[p].pc = "idle" /\ govLock = NoGovernor /\ govLock' = p
        /\ UNCHANGED <<planFile, taskFile, specIndex, sessLock, moves, specFaults>>
        /\ crossed' = FALSE /\ indexSpoiled' = FALSE
    BY DEF RepairRead, GovernorAt
  <1>5. crossed' \in BOOLEAN /\ indexSpoiled' \in BOOLEAN
    BY <1>4
  <1>6. Resolving(p)' /\ Repairing(p)'
    BY <1>0, <1>2, <1>3, <1>4 DEF Resolving, Repairing
  <1>7. governor[p].seen.row <= moves /\ governor[p].was.task.row <= moves
    BY DEF SpecInv, Rows
  <1>8. QED
    BY <1>2, <1>3, <1>4, <1>5, <1>6, <1>7, GovernorBegins

\* A step of the process that governs.
LEMMA GovernorGoesOn ==
  ASSUME SpecInv, NEW p \in Governors, governor[p].pc \in Governing,
         governor' \in [Governors -> Governor], \A q \in Governors : q # p => governor'[q] = governor[q],
         governor'[p].pc \in Governing \cup {"idle"},
         govLock' = govLock \/ (governor'[p].pc = "idle" /\ govLock' = NoGovernor),
         UNCHANGED <<sessLock, moves, crossed, indexSpoiled>>,
         planFile' \in Specs, taskFile' \in TaskFiles, specIndex' \in Specs \cup {"none"}, specFaults' \in 0..MaxFaults,
         taskFile'.row <= moves, governor'[p].seen.row <= moves, governor'[p].was.task.row <= moves,
         Resolving(p)', Repairing(p)',
         governor'[p].pc = "idle" /\ specIndex' = "settled" /\ ~crossed =>
           planFile' = "settled" /\ taskFile'.spec = "settled"
  PROVE  SpecInv'
  <1>1. govLock = p /\ \A q \in Governors : q # p => governor[q].pc \in {"idle", "create", "move"}
    BY OneGoverns
  <1>2. SpecTypeOK'
    BY DEF SpecInv, SpecTypeOK
  <1>3. SpecLocks'
    BY <1>1 DEF SpecInv, SpecLocks, Governing
  <1>4. Rows'
    BY <1>1 DEF SpecInv, Rows, Governing
  <1>5. ASSUME NEW q \in Governors, q # p
        PROVE  Resolving(q)' /\ Repairing(q)'
    BY <1>1, <1>5 DEF Resolving, Repairing
  <1>6. SettledEverywhere'
    <2>1. CASE governor'[p].pc \in PuttingBack
      BY <2>1 DEF SettledEverywhere, PuttingBack
    <2>2. CASE governor'[p].pc \in {"plan", "read", "task", "index"}
      BY <2>2 DEF SettledEverywhere, Resolving
    <2>3. CASE governor'[p].pc = "idle"
      BY <2>3 DEF SettledEverywhere
    <2>4. QED
      BY <2>1, <2>2, <2>3 DEF Governing, PuttingBack
  <1>7. QED
    BY <1>2, <1>3, <1>4, <1>5, <1>6 DEF SpecInv

LEMMA RowsAre ==
  ASSUME SpecInv, NEW p \in Governors
  PROVE  taskFile.row <= moves /\ governor[p].seen.row <= moves /\ governor[p].was.task.row <= moves
  BY DEF SpecInv, Rows

LEMMA WritePlanInv ==
  ASSUME SpecInv, NEW p \in Governors, WritePlan(p)
  PROVE  SpecInv'
  <1>1. /\ governor[p].pc = "plan" /\ planFile' = "settled" /\ GovernorGoto(p, "read") /\ specIndex = "open"
        /\ UNCHANGED <<taskFile, specIndex, govLock, sessLock, indexSpoiled, moves, crossed, specFaults>>
    BY DEF WritePlan, GovernorAt, specHistory, SpecInv, Resolving
  <1>2. /\ governor' \in [Governors -> Governor]
        /\ governor'[p].pc = "read" /\ governor'[p].was = governor[p].was /\ governor'[p].seen = governor[p].seen
        /\ \A q \in Governors : q # p => governor'[q] = governor[q]
    BY <1>1, GoesTo DEF SpecInv, GovernorPCs
  <1>3. Resolving(p)' /\ Repairing(p)'
    BY <1>1, <1>2 DEF Resolving, Repairing
  <1>4. planFile' \in Specs /\ taskFile' \in TaskFiles /\ specIndex' \in Specs \cup {"none"} /\ specFaults' \in 0..MaxFaults
    BY <1>1 DEF SpecInv, SpecTypeOK, Specs
  <1>5. QED
    BY <1>1, <1>2, <1>3, <1>4, RowsAre, GovernorGoesOn DEF Governing

LEMMA ReadTaskInv ==
  ASSUME SpecInv, NEW p \in Governors, ReadTask(p)
  PROVE  SpecInv'
  <1> DEFINE k == [governor[p] EXCEPT !.pc = "task", !.seen = taskFile]
  <1>1. k \in Governor /\ k.pc = "task" /\ k.seen = taskFile /\ k.was = governor[p].was
    BY DEF SpecInv, SpecTypeOK, Governor, GovernorPCs
  <1>2. governor' = [governor EXCEPT ![p] = k]
    BY DEF ReadTask, SpecInv, SpecTypeOK
  <1> HIDE DEF k
  <1>3. /\ governor' \in [Governors -> Governor] /\ governor'[p] = k
        /\ \A q \in Governors : q # p => governor'[q] = governor[q]
    BY <1>1, <1>2, GovernorIs DEF SpecInv
  <1>4. /\ governor[p].pc = "read" /\ specIndex = "open" /\ planFile = "settled"
        /\ UNCHANGED <<planFile, taskFile, specIndex, govLock, sessLock, indexSpoiled, moves, crossed, specFaults>>
    BY DEF ReadTask, GovernorAt, specHistory, SpecInv, Resolving
  <1>5. Resolving(p)' /\ Repairing(p)'
    BY <1>1, <1>3, <1>4 DEF Resolving, Repairing
  <1>6. planFile' \in Specs /\ taskFile' \in TaskFiles /\ specIndex' \in Specs \cup {"none"} /\ specFaults' \in 0..MaxFaults
    BY <1>4 DEF SpecInv, SpecTypeOK, Specs
  <1>7. QED
    BY <1>1, <1>3, <1>4, <1>5, <1>6, RowsAre, GovernorGoesOn DEF Governing

\* The task file settled, as WriteTask and a write that fails late leave it.
LEMMA TaskSettled ==
  ASSUME SpecInv, NEW p \in Governors
  PROVE  LET t == [governor[p].seen EXCEPT !.spec = "settled"]
         IN  t \in TaskFiles /\ t.spec = "settled" /\ t.row <= moves
  BY RowsAre, FilesHaveTypes DEF SpecInv, TaskFiles, Specs

LEMMA WriteTaskInv ==
  ASSUME SpecInv, NEW p \in Governors, WriteTask(p)
  PROVE  SpecInv'
  <1>1. /\ governor[p].pc = "task" /\ GovernorGoto(p, "index") /\ specIndex = "open" /\ planFile = "settled"
        /\ UNCHANGED <<planFile, specIndex, govLock, sessLock, indexSpoiled, moves, crossed, specFaults>>
    BY DEF WriteTask, GovernorAt, specHistory, SpecInv, Resolving
  <1>2. /\ governor' \in [Governors -> Governor]
        /\ governor'[p].pc = "index" /\ governor'[p].was = governor[p].was /\ governor'[p].seen = governor[p].seen
        /\ \A q \in Governors : q # p => governor'[q] = governor[q]
    BY <1>1, GoesTo DEF SpecInv, GovernorPCs
  <1>3. taskFile' \in TaskFiles /\ taskFile'.spec = "settled" /\ taskFile'.row <= moves
    BY TaskSettled DEF WriteTask
  <1>4. Resolving(p)' /\ Repairing(p)'
    BY <1>1, <1>2, <1>3 DEF Resolving, Repairing
  <1>5. planFile' \in Specs /\ specIndex' \in Specs \cup {"none"} /\ specFaults' \in 0..MaxFaults
    BY <1>1 DEF SpecInv, SpecTypeOK, Specs
  <1>6. QED
    BY <1>1, <1>2, <1>3, <1>4, <1>5, RowsAre, GovernorGoesOn DEF Governing

LEMMA WriteSpecIndexInv ==
  ASSUME SpecInv, NEW p \in Governors, WriteSpecIndex(p)
  PROVE  SpecInv'
  <1>1. /\ governor[p].pc = "index" /\ GovernorRests(p) /\ specIndex' = "settled" /\ planFile = "settled"
        /\ taskFile.spec = "settled" \/ crossed
        /\ govLock' = NoGovernor
        /\ UNCHANGED <<planFile, taskFile, sessLock, indexSpoiled, moves, crossed, specFaults>>
    BY DEF WriteSpecIndex, GovernorAt, specHistory, SpecInv, Resolving
  <1>2. /\ governor' \in [Governors -> Governor]
        /\ governor'[p].pc = "idle" /\ governor'[p].was.task.row = 0 /\ governor'[p].seen.row = 0
        /\ \A q \in Governors : q # p => governor'[q] = governor[q]
    BY <1>1, Rests DEF SpecInv
  <1>3. Resolving(p)' /\ Repairing(p)'
    BY <1>2 DEF Resolving, Repairing
  <1>4. planFile' \in Specs /\ taskFile' \in TaskFiles /\ specIndex' \in Specs \cup {"none"} /\ specFaults' \in 0..MaxFaults
    BY <1>1 DEF SpecInv, SpecTypeOK, Specs
  <1>5. 0 <= moves
    BY FilesHaveTypes DEF SpecInv
  <1>6. QED
    BY <1>1, <1>2, <1>3, <1>4, <1>5, RowsAre, GovernorGoesOn DEF Governing

LEMMA ResolveFailsInv ==
  ASSUME SpecInv, NEW p \in Governors, NEW done \in BOOLEAN, ResolveFails(p, done), specFaults < MaxFaults
  PROVE  SpecInv'
  <1>1. /\ governor[p].pc \in {"plan", "task", "index"} /\ GovernorGoto(p, "undoPlan") /\ specIndex = "open"
        /\ UNCHANGED <<govLock, sessLock, indexSpoiled, moves, crossed>>
    BY DEF ResolveFails, specHistory, SpecInv, Resolving
  <1>2. /\ governor' \in [Governors -> Governor]
        /\ governor'[p].pc = "undoPlan" /\ governor'[p].was = governor[p].was /\ governor'[p].seen = governor[p].seen
        /\ \A q \in Governors : q # p => governor'[q] = governor[q]
    BY <1>1, GoesTo DEF SpecInv, GovernorPCs
  <1>3. planFile' \in Specs /\ specIndex' \in Specs \cup {"none"}
    BY <1>1, FilesHaveTypes DEF ResolveFails, SpecInv, Specs
  <1>4. specFaults' \in 0..MaxFaults
    BY FilesHaveTypes DEF ResolveFails, SpecInv
  <1>5. taskFile' \in TaskFiles /\ taskFile'.row <= moves
    BY TaskSettled, RowsAre DEF ResolveFails, SpecInv, SpecTypeOK
  <1>6. Resolving(p)' /\ Repairing(p)'
    BY <1>2 DEF Resolving, Repairing
  <1>7. QED
    BY <1>1, <1>2, <1>3, <1>4, <1>5, <1>6, RowsAre, GovernorGoesOn DEF Governing

LEMMA PutBackInv ==
  ASSUME SpecInv, NEW p \in Governors, PutBack(p)
  PROVE  SpecInv'
  <1>1. UNCHANGED <<sessLock, indexSpoiled, moves, crossed, specFaults>> /\ specFaults' \in 0..MaxFaults
    BY FilesHaveTypes DEF PutBack, specHistory, SpecInv
  <1>2. ASSUME NEW pc \in {"undoTask", "undoIndex"}, governor[p].pc \in Governing, GovernorGoto(p, pc),
               planFile' \in {planFile, governor[p].was.plan}, taskFile' \in {taskFile, governor[p].was.task},
               UNCHANGED <<specIndex, govLock>>
        PROVE  SpecInv'
    <2>1. /\ governor' \in [Governors -> Governor]
          /\ governor'[p].pc = pc /\ governor'[p].was = governor[p].was /\ governor'[p].seen = governor[p].seen
          /\ \A q \in Governors : q # p => governor'[q] = governor[q]
      BY <1>2, GoesTo DEF SpecInv, GovernorPCs
    <2>2. /\ planFile' \in Specs /\ taskFile' \in TaskFiles /\ specIndex' \in Specs \cup {"none"}
          /\ taskFile'.row <= moves
      BY <1>2, FilesHaveTypes, RowsAre DEF SpecInv, TaskFiles
    <2>3. Resolving(p)' /\ Repairing(p)'
      BY <2>1 DEF Resolving, Repairing
    <2>4. QED
      BY <1>1, <1>2, <2>1, <2>2, <2>3, RowsAre, GovernorGoesOn DEF Governing
  <1>3. CASE /\ governor[p].pc = "undoIndex" /\ specIndex' = "open" /\ GovernorRests(p) /\ govLock' = NoGovernor
             /\ UNCHANGED <<planFile, taskFile>>
    <2>1. /\ governor' \in [Governors -> Governor]
          /\ governor'[p].pc = "idle" /\ governor'[p].was.task.row = 0 /\ governor'[p].seen.row = 0
          /\ \A q \in Governors : q # p => governor'[q] = governor[q]
      BY <1>3, Rests DEF SpecInv
    <2>2. Resolving(p)' /\ Repairing(p)'
      BY <2>1 DEF Resolving, Repairing
    <2>3. planFile' \in Specs /\ taskFile' \in TaskFiles /\ specIndex' \in Specs \cup {"none"} /\ 0 <= moves
      BY <1>3, FilesHaveTypes DEF SpecInv, SpecTypeOK, Specs
    <2>4. QED
      BY <1>1, <1>3, <2>1, <2>2, <2>3, RowsAre, GovernorGoesOn DEF Governing
  <1>4. QED
    BY <1>2, <1>3 DEF PutBack, GovernorAt, OldIndex, Governing

LEMMA RepairWriteInv ==
  ASSUME SpecInv, NEW p \in Governors, RepairWrite(p)
  PROVE  SpecInv'
  <1>1. /\ governor[p].pc = "repair" /\ GovernorRests(p) /\ specIndex' = governor[p].seen.spec
        /\ specIndex' = "settled" => planFile = "settled" /\ (taskFile.spec = "settled" \/ crossed)
        /\ govLock' = NoGovernor
        /\ UNCHANGED <<planFile, taskFile, sessLock, indexSpoiled, moves, crossed, specFaults>>
    BY DEF RepairWrite, GovernorAt, specHistory, SpecInv, Repairing
  <1>2. /\ governor' \in [Governors -> Governor]
        /\ governor'[p].pc = "idle" /\ governor'[p].was.task.row = 0 /\ governor'[p].seen.row = 0
        /\ \A q \in Governors : q # p => governor'[q] = governor[q]
    BY <1>1, Rests DEF SpecInv
  <1>3. Resolving(p)' /\ Repairing(p)'
    BY <1>2 DEF Resolving, Repairing
  <1>4. /\ planFile' \in Specs /\ taskFile' \in TaskFiles /\ specIndex' \in Specs \cup {"none"}
        /\ specFaults' \in 0..MaxFaults /\ 0 <= moves
    BY <1>1, FilesHaveTypes DEF SpecInv, SpecTypeOK
  <1>5. QED
    BY <1>1, <1>2, <1>3, <1>4, RowsAre, GovernorGoesOn DEF Governing

\* A death in the middle of resolve-spec leaves the index open; one while putting back is noted.
LEMMA GovernorStopsInv ==
  ASSUME SpecInv, NEW p \in Governors, GovernorStops(p)
  PROVE  SpecInv'
  <1>1. /\ governor[p].pc # "idle" /\ GovernorRests(p)
        /\ govLock' = FreeLock(govLock, p) /\ sessLock' = FreeLock(sessLock, p)
        /\ UNCHANGED <<planFile, taskFile, specIndex, moves, crossed>>
    BY DEF GovernorStops, GovernorAt, specHistory
  <1>2. /\ governor' \in [Governors -> Governor]
        /\ governor'[p].pc = "idle" /\ governor'[p].was.task.row = 0 /\ governor'[p].seen.row = 0
        /\ \A q \in Governors : q # p => governor'[q] = governor[q]
    BY <1>1, Rests DEF SpecInv
  <1>3. /\ specFaults' \in 0..MaxFaults /\ indexSpoiled' \in BOOLEAN
        /\ govLock' \in Governors \cup {NoGovernor} /\ sessLock' \in Governors \cup {NoGovernor}
    <2>1. specFaults' \in 0..MaxFaults
      BY FilesHaveTypes DEF GovernorStops, SpecInv
    <2>2. indexSpoiled' \in BOOLEAN
      BY DEF GovernorStops
    <2>3. QED
      BY <1>1, <2>1, <2>2 DEF FreeLock, SpecInv, SpecTypeOK
  <1>4. SpecTypeOK'
    BY <1>1, <1>2, <1>3 DEF SpecInv, SpecTypeOK
  <1>5. SpecLocks'
    BY <1>1, <1>2 DEF SpecInv, SpecLocks, FreeLock, Governing
  <1>6. Rows'
    BY <1>1, <1>2, FilesHaveTypes DEF SpecInv, Rows
  <1>7. ASSUME NEW q \in Governors
        PROVE  Resolving(q)' /\ Repairing(q)'
    BY <1>1, <1>2 DEF SpecInv, Resolving, Repairing
  <1>8. SettledEverywhere'
    <2>1. SUFFICES ASSUME specIndex = "settled", ~crossed, ~indexSpoiled',
                          \A q \in Governors : governor'[q].pc \notin PuttingBack
                   PROVE  planFile = "settled" /\ taskFile.spec = "settled"
      BY <1>1 DEF SettledEverywhere, PuttingBack
    <2>2. ~indexSpoiled /\ governor[p].pc \notin PuttingBack
      BY <2>1 DEF GovernorStops, PuttingBack
    <2>3. \A q \in Governors : governor[q].pc \notin PuttingBack
      BY <1>2, <2>1, <2>2
    <2>4. QED
      BY <2>1, <2>2, <2>3 DEF SpecInv, SettledEverywhere, PuttingBack
  <1>9. QED
    BY <1>4, <1>5, <1>6, <1>7, <1>8 DEF SpecInv

LEMMA SpecStepInv == SpecInv /\ [SpecNext]_specVars => SpecInv'
  <1> SUFFICES ASSUME SpecInv, [SpecNext]_specVars PROVE SpecInv'
    OBVIOUS
  <1>1. CASE UNCHANGED specVars
    <2>1. SpecTypeOK' /\ SpecLocks' /\ Rows' /\ SettledEverywhere'
      BY <1>1 DEF specVars, SpecInv, SpecTypeOK, SpecLocks, Rows, SettledEverywhere
    <2>2. \A p \in Governors : Resolving(p)' /\ Repairing(p)'
      BY <1>1 DEF specVars, SpecInv, Resolving, Repairing
    <2>3. QED
      BY <2>1, <2>2 DEF SpecInv
  <1>2. QED
    BY <1>1, RecordSpecInv, BeginTransitionInv, WriteTransitionInv, BeginResolveInv, WritePlanInv, ReadTaskInv,
       WriteTaskInv, WriteSpecIndexInv, ResolveFailsInv, PutBackInv, RepairReadInv, RepairWriteInv,
       GovernorStopsInv DEF SpecNext

LEMMA SpecInvHolds == PendingSpec => []SpecInv
  BY SpecInitInv, SpecStepInv, PTL DEF PendingSpec

\* PendingSpecs: the index calls a spec settled only when both files do, wherever resolve-spec
\* fails or dies, until putting back is cut short or an older file is written over the new one.
THEOREM SettledEverywhereHolds == PendingSpec => []SettledEverywhere
  <1>1. SpecInv => SettledEverywhere
    BY DEF SpecInv
  <1>2. QED
    BY <1>1, SpecInvHolds, PTL

-----------------------------------------------------------------------------
(* ArtifactCapture: the inductive invariant.                                 *)

\* Files and answers are of the artifact that the marker names.
OneArtifact ==
  IF marker.state = "none" THEN answers = {} /\ \A i \in Arts : temp[i] = Absent /\ final[i] = Absent
  ELSE /\ answers \subseteq {marker.art}
       /\ \A i \in Arts : i # marker.art.id => temp[i] = Absent /\ final[i] = Absent

\* How the files of the artifact go together while nobody meddles with them.
Untouched ==
  tampers = 0 /\ marker.state # "none" =>
    LET i == marker.art.id IN
    /\ final[i] \in {Absent, marker.art.body}
    /\ temp[i] \in {"part", "whole"} => final[i] = Absent
    /\ temp[i] = "pair" => final[i] = marker.art.body
    /\ marker.state = "committed" \/ answers # {} => final[i] = marker.art.body /\ temp[i] = Absent

\* What the step that a command has come to expects of the files.
Expected(pc, t, f, body) ==
  /\ pc \in {"check", "intent", "open", "read", "commit"} => t = Absent
  /\ pc \in {"intent", "open", "write", "link"} => f = Absent
  /\ pc = "unlink" => t = "pair"
  /\ pc \in {"read", "commit"} => f = body

\* A command works for the artifact of the marker, which it is alone to change.
SaverKnows(p) ==
  saver[p] # NoSave =>
    /\ marker.state = "none" => SaverAt(p, "intent")
    /\ marker.state # "none" => Art(p) = marker.art
    /\ saver[p].pc \in {"recover", "check"} => saver[p].prior = marker.state
    /\ SaverAt(p, "recover") => marker.state = "prepared"
    /\ tampers = 0 => Expected(saver[p].pc, temp[Art(p).id], final[Art(p).id], Art(p).body)

OneSaver == \A p, q \in Savers : saver[p] # NoSave /\ saver[q] # NoSave => p = q

CaptureInv ==
  /\ CaptureTypeOK /\ OneArtifact /\ Untouched /\ (alarms => tampers > 0)
  /\ OneSaver /\ \A p \in Savers : SaverKnows(p)

-----------------------------------------------------------------------------

SaverRec == [pc : SaveSteps, art : Artifact, prior : {"none", "prepared", "committed"}]

LEMMA CaptureTypes ==
  ASSUME CaptureTypeOK
  PROVE  /\ marker.state \in {"none", "prepared", "committed"}
         /\ marker.state = "none" <=> marker = NoMarker
         /\ marker.state # "none" => marker.art \in Artifact
         /\ \A p \in Savers : saver[p] = NoSave \/ saver[p] \in SaverRec
         /\ \A p \in Savers : saver[p] # NoSave <=> saver[p].pc # "idle"
         /\ tampers \in Nat /\ saves \in Nat
  <1>1. marker = NoMarker \/ marker \in [state : {"prepared", "committed"}, art : Artifact]
    BY DEF CaptureTypeOK, Marker
  <1>2. /\ marker.state \in {"none", "prepared", "committed"}
        /\ marker.state = "none" <=> marker = NoMarker
        /\ marker.state # "none" => marker.art \in Artifact
    BY <1>1 DEF NoMarker
  <1>3. \A p \in Savers : saver[p] = NoSave \/ saver[p] \in SaverRec
    BY DEF CaptureTypeOK, SaverRec
  <1>4. \A p \in Savers : saver[p] # NoSave <=> saver[p].pc # "idle"
    BY <1>3 DEF NoSave, SaverRec, SaveSteps
  <1>5. tampers \in Nat /\ saves \in Nat
    BY DEF CaptureTypeOK
  <1>6. QED
    BY <1>2, <1>3, <1>4, <1>5

\* Everybody but the one that works rests.
LEMMA OthersRest ==
  ASSUME CaptureInv, NEW p \in Savers, saver[p] # NoSave \/ ~MarkerLocked,
         NEW x \in {NoSave} \cup SaverRec, saver' = [saver EXCEPT ![p] = x]
  PROVE  /\ saver' \in [Savers -> {NoSave} \cup SaverRec] /\ saver'[p] = x
         /\ \A q \in Savers : q # p => saver'[q] = NoSave
         /\ OneSaver'
  <1>1. \A q \in Savers : q # p => saver[q] = NoSave
    BY DEF CaptureInv, OneSaver, MarkerLocked
  <1>2. saver \in [Savers -> {NoSave} \cup SaverRec]
    BY DEF CaptureInv, CaptureTypeOK, SaverRec
  <1>3. /\ saver' \in [Savers -> {NoSave} \cup SaverRec] /\ saver'[p] = x
        /\ \A q \in Savers : q # p => saver'[q] = NoSave
    BY <1>1, <1>2
  <1>4. QED
    BY <1>3 DEF OneSaver

\* A command goes on from one step to the next.
LEMMA GoesOn ==
  ASSUME CaptureInv, NEW p \in Savers, saver[p] # NoSave, NEW pc \in SaveSteps, SaverGoto(p, pc)
  PROVE  /\ saver' \in [Savers -> {NoSave} \cup SaverRec] /\ saver'[p] \in SaverRec
         /\ saver'[p].pc = pc /\ saver'[p].art = saver[p].art /\ saver'[p].prior = saver[p].prior
         /\ \A q \in Savers : q # p => saver'[q] = NoSave
         /\ OneSaver' /\ saver'[p] # NoSave
  <1>1. saver[p] \in SaverRec
    BY CaptureTypes DEF CaptureInv
  <1>2. PICK x : x = [saver[p] EXCEPT !.pc = pc]
    OBVIOUS
  <1>3. x \in SaverRec /\ x.pc = pc /\ x.art = saver[p].art /\ x.prior = saver[p].prior
    BY <1>1, <1>2 DEF SaverRec
  <1>4. saver' = [saver EXCEPT ![p] = x]
    BY <1>2 DEF SaverGoto
  <1>5. /\ saver' \in [Savers -> {NoSave} \cup SaverRec] /\ saver'[p] = x
        /\ \A q \in Savers : q # p => saver'[q] = NoSave
        /\ OneSaver'
    BY <1>3, <1>4, OthersRest
  <1>6. x # NoSave
    BY <1>3 DEF NoSave, SaveSteps
  <1>7. QED
    BY <1>3, <1>5, <1>6

\* A command ends.
LEMMA StopsSaving ==
  ASSUME CaptureInv, NEW p \in Savers, saver[p] # NoSave, SaveFails(p)
  PROVE  /\ saver' \in [Savers -> {NoSave} \cup SaverRec] /\ OneSaver'
         /\ \A q \in Savers : saver'[q] = NoSave /\ SaverKnows(q)'
  <1>1. /\ saver' \in [Savers -> {NoSave} \cup SaverRec] /\ saver'[p] = NoSave
        /\ \A q \in Savers : q # p => saver'[q] = NoSave
        /\ OneSaver'
    BY OthersRest DEF SaveFails
  <1>2. \A q \in Savers : saver'[q] = NoSave
    BY <1>1
  <1>3. QED
    BY <1>1, <1>2 DEF SaverKnows

\* What a working command knows.
LEMMA Working ==
  ASSUME CaptureInv, NEW p \in Savers, saver[p] # NoSave
  PROVE  /\ saver[p] \in SaverRec /\ Art(p) \in Artifact /\ Art(p).id \in Arts /\ Art(p).body \in Bodies
         /\ Art(p).body # Absent /\ Art(p).body # Spoiled
         /\ ~SaverAt(p, "intent") => marker.state # "none" /\ marker.art = Art(p)
         /\ \A i \in Arts : i # Art(p).id => temp[i] = Absent /\ final[i] = Absent
         /\ answers \subseteq {Art(p)}
         /\ temp \in [Arts -> Temps] /\ final \in [Arts -> Bodies \cup {Absent, Spoiled}]
  <1>1. saver[p] \in SaverRec
    BY CaptureTypes DEF CaptureInv
  <1>2. Art(p) \in Artifact /\ Art(p).id \in Arts /\ Art(p).body \in Bodies
    BY <1>1 DEF SaverRec, Art, Artifact
  <1>3. Art(p).body # Absent /\ Art(p).body # Spoiled
    BY <1>2, CaptureAssumption DEF Absent, Spoiled
  <1>4. /\ marker.state = "none" => SaverAt(p, "intent")
        /\ marker.state # "none" => Art(p) = marker.art
    BY DEF CaptureInv, SaverKnows
  <1>5. /\ \A i \in Arts : i # Art(p).id => temp[i] = Absent /\ final[i] = Absent
        /\ answers \subseteq {Art(p)}
    BY <1>4 DEF CaptureInv, OneArtifact
  <1>6. QED
    BY <1>1, <1>2, <1>3, <1>4, <1>5 DEF CaptureInv, CaptureTypeOK

\* A step of p that leaves the marker, the answers and the other artifacts' files alone.
LEMMA FilesStep ==
  ASSUME CaptureInv, NEW p \in Savers, saver[p] # NoSave, ~SaverAt(p, "intent"),
         marker' = marker, answers' = answers, saves' = saves, saveFaults' = saveFaults, tampers' = tampers,
         NEW t \in Temps, temp' = [temp EXCEPT ![Art(p).id] = t],
         NEW f \in Bodies \cup {Absent, Spoiled}, final' = [final EXCEPT ![Art(p).id] = f],
         tampers = 0 =>
           /\ f \in {Absent, Art(p).body}
           /\ t \in {"part", "whole"} => f = Absent
           /\ t = "pair" => f = Art(p).body
           /\ marker.state = "committed" \/ answers # {} => f = Art(p).body /\ t = Absent,
         \/ SaveFails(p)
         \/ \E pc \in SaveSteps \ {"recover"} :
              SaverGoto(p, pc) /\ (pc = "check" => SaverAt(p, "recover"))
              /\ (tampers = 0 => Expected(pc, t, f, Art(p).body)),
         alarms' = alarms \/ (alarms' \in BOOLEAN /\ tampers > 0)
  PROVE  CaptureInv'
  <1> DEFINE i == Art(p).id
  <1>1. /\ i \in Arts /\ marker.state # "none" /\ marker.art = Art(p) /\ Art(p) = saver[p].art
        /\ \A j \in Arts : j # i => temp[j] = Absent /\ final[j] = Absent
        /\ temp \in [Arts -> Temps] /\ final \in [Arts -> Bodies \cup {Absent, Spoiled}]
    BY Working DEF Art
  <1>2. /\ temp' \in [Arts -> Temps] /\ final' \in [Arts -> Bodies \cup {Absent, Spoiled}]
        /\ temp'[i] = t /\ final'[i] = f
        /\ \A j \in Arts : j # i => temp'[j] = Absent /\ final'[j] = Absent
    BY <1>1
  <1>3. /\ saver' \in [Savers -> {NoSave} \cup SaverRec] /\ OneSaver'
        /\ \A q \in Savers : SaverKnows(q)'
    <2>1. CASE SaveFails(p)
      BY <2>1, StopsSaving
    <2>2. ASSUME NEW pc \in SaveSteps \ {"recover"}, SaverGoto(p, pc), pc = "check" => SaverAt(p, "recover"),
                 tampers = 0 => Expected(pc, t, f, Art(p).body)
          PROVE  /\ saver' \in [Savers -> {NoSave} \cup SaverRec] /\ OneSaver'
                 /\ \A q \in Savers : SaverKnows(q)'
      <3>1. /\ saver' \in [Savers -> {NoSave} \cup SaverRec] /\ OneSaver'
            /\ saver'[p].pc = pc /\ saver'[p].art = saver[p].art /\ saver'[p].prior = saver[p].prior
            /\ \A q \in Savers : q # p => saver'[q] = NoSave
        BY <2>2, GoesOn
      <3>2. saver[p].pc \in {"recover", "check"} => saver[p].prior = marker.state
        BY DEF CaptureInv, SaverKnows
      <3>3. Art(p)' = Art(p) /\ Art(p)' = marker'.art
        BY <1>1, <3>1 DEF Art
      <3>4. SaverKnows(p)'
        BY <1>1, <1>2, <2>2, <3>1, <3>2, <3>3 DEF SaverKnows, SaverAt
      <3>5. \A q \in Savers : q # p => SaverKnows(q)'
        BY <3>1 DEF SaverKnows
      <3>6. QED
        BY <3>1, <3>4, <3>5
    <2>3. QED
      BY <2>1, <2>2
  <1>4. CaptureTypeOK'
    BY <1>2, <1>3 DEF CaptureInv, CaptureTypeOK, SaverRec
  <1>5. OneArtifact'
    BY <1>1, <1>2 DEF CaptureInv, OneArtifact
  <1>6. Untouched'
    BY <1>1, <1>2 DEF Untouched
  <1>7. alarms' => tampers' > 0
    BY DEF CaptureInv
  <1>8. QED
    BY <1>3, <1>4, <1>5, <1>6, <1>7 DEF CaptureInv

\* A step of p that leaves the files alone, too.
LEMMA LookStep ==
  ASSUME CaptureInv, NEW p \in Savers, saver[p] # NoSave, ~SaverAt(p, "intent"),
         UNCHANGED <<marker, temp, final, answers, saves, saveFaults, tampers>>,
         \/ SaveFails(p)
         \/ \E pc \in SaveSteps \ {"recover"} :
              SaverGoto(p, pc) /\ (pc = "check" => SaverAt(p, "recover"))
              /\ (tampers = 0 => Expected(pc, temp[Art(p).id], final[Art(p).id], Art(p).body)),
         alarms' = alarms \/ (alarms' \in BOOLEAN /\ tampers > 0)
  PROVE  CaptureInv'
  <1> DEFINE i == Art(p).id
  <1>1. /\ i \in Arts /\ marker.state # "none" /\ marker.art = Art(p)
        /\ temp \in [Arts -> Temps] /\ final \in [Arts -> Bodies \cup {Absent, Spoiled}]
    BY Working
  <1>2. temp' = [temp EXCEPT ![i] = temp[i]] /\ final' = [final EXCEPT ![i] = final[i]]
    BY <1>1
  <1>3. tampers = 0 =>
           /\ final[i] \in {Absent, Art(p).body}
           /\ temp[i] \in {"part", "whole"} => final[i] = Absent
           /\ temp[i] = "pair" => final[i] = Art(p).body
           /\ marker.state = "committed" \/ answers # {} => final[i] = Art(p).body /\ temp[i] = Absent
    BY <1>1 DEF CaptureInv, Untouched
  <1>4. temp[i] \in Temps /\ final[i] \in Bodies \cup {Absent, Spoiled}
    BY <1>1
  <1>5. QED
    BY <1>2, <1>3, <1>4, FilesStep

\* What the files are while nobody meddles with them.
LEMMA Expecting ==
  ASSUME CaptureInv, NEW p \in Savers, saver[p] # NoSave
  PROVE  LET t == temp[Art(p).id]
             f == final[Art(p).id] IN
         /\ t \in Temps /\ f \in Bodies \cup {Absent, Spoiled}
         /\ tampers = 0 => Expected(saver[p].pc, t, f, Art(p).body)
         /\ ~SaverAt(p, "intent") /\ tampers = 0 =>
              /\ f \in {Absent, Art(p).body}
              /\ t \in {"part", "whole"} => f = Absent
              /\ t = "pair" => f = Art(p).body
              /\ marker.state = "committed" \/ answers # {} => f = Art(p).body /\ t = Absent
         /\ tampers # 0 => tampers > 0
  <1>1. /\ Art(p).id \in Arts
        /\ ~SaverAt(p, "intent") => marker.state # "none" /\ marker.art = Art(p)
        /\ temp \in [Arts -> Temps] /\ final \in [Arts -> Bodies \cup {Absent, Spoiled}]
    BY Working
  <1>2. tampers \in Nat
    BY CaptureTypes DEF CaptureInv
  <1>3. SaverKnows(p)
    BY DEF CaptureInv
  <1>4. QED
    BY <1>1, <1>2, <1>3 DEF CaptureInv, SaverKnows, Untouched

-----------------------------------------------------------------------------
(* ArtifactCapture: the steps of a command.                                  *)

LEMMA RecoverTempInv ==
  ASSUME CaptureInv, NEW p \in Savers, RecoverTemp(p)
  PROVE  CaptureInv'
  <1> DEFINE i == Art(p).id
  <1>1. saver[p] # NoSave /\ SaverAt(p, "recover") /\ ~SaverAt(p, "intent")
    BY CaptureTypes DEF CaptureInv, RecoverTemp, SaverAt
  <1>2. marker.state = "prepared"
    BY <1>1 DEF CaptureInv, SaverKnows
  <1>3. CASE temp[i] = Absent \/ OwnTemp(i, Art(p).body)
    <2>1. temp' = [temp EXCEPT ![i] = Absent] /\ SaverGoto(p, "check")
      BY <1>3 DEF RecoverTemp
    <2>2. final' = [final EXCEPT ![i] = final[i]]
      BY <1>1, Working DEF RecoverTemp
    <2>3. /\ final[i] \in Bodies \cup {Absent, Spoiled} /\ Absent \in Temps
          /\ tampers = 0 => final[i] \in {Absent, Art(p).body}
          /\ tampers = 0 => (answers # {} => final[i] = Art(p).body)
      BY <1>1, Expecting DEF Temps
    <2>4. Expected("check", Absent, final[i], Art(p).body)
      BY DEF Expected
    <2>5. "check" \in SaveSteps \ {"recover"}
      BY DEF SaveSteps
    <2>6. UNCHANGED <<marker, alarms, saves, answers, saveFaults, tampers>>
      BY <1>3 DEF RecoverTemp
    <2>7. Absent \notin {"part", "whole", "pair"}
      BY DEF Absent
    <2>8. QED
      BY <1>1, <1>2, <2>1, <2>2, <2>3, <2>4, <2>5, <2>6, <2>7, FilesStep
  <1>4. CASE ~(temp[i] = Absent \/ OwnTemp(i, Art(p).body))
    <2>1. SaveFails(p) /\ UNCHANGED <<marker, temp, final, saves, answers, saveFaults, tampers>> /\ alarms' = TRUE
      BY <1>4 DEF RecoverTemp
    <2>2. tampers > 0
      BY <1>1, <1>4, Expecting DEF OwnTemp, Temps
    <2>3. QED
      BY <1>1, <2>1, <2>2, LookStep
  <1>5. QED
    BY <1>3, <1>4

LEMMA CheckPriorInv ==
  ASSUME CaptureInv, NEW p \in Savers, CheckPrior(p)
  PROVE  CaptureInv'
  <1> DEFINE i == Art(p).id
  <1>1. saver[p] # NoSave /\ SaverAt(p, "check") /\ ~SaverAt(p, "intent")
    BY CaptureTypes DEF CaptureInv, CheckPrior, SaverAt
  <1>2. saver[p].prior = marker.state
    BY <1>1 DEF CaptureInv, SaverKnows, SaverAt
  <1>3. UNCHANGED <<marker, temp, final, saves, answers, saveFaults, tampers>>
    BY DEF CheckPrior
  <1>4. tampers = 0 => temp[i] = Absent
    BY <1>1, Expecting DEF Expected, SaverAt
  <1>5. {"commit", "intent"} \subseteq SaveSteps \ {"recover"}
    BY DEF SaveSteps
  <1>6. CASE final[i] = Art(p).body /\ SaverGoto(p, "commit") /\ UNCHANGED alarms
    <2>1. tampers = 0 => Expected("commit", temp[i], final[i], Art(p).body)
      BY <1>4, <1>6 DEF Expected
    <2>2. QED
      BY <1>1, <1>3, <1>5, <1>6, <2>1, LookStep
  <1>7. CASE final[i] = Absent /\ saver[p].prior = "prepared" /\ SaverGoto(p, "intent") /\ UNCHANGED alarms
    <2>1. tampers = 0 => Expected("intent", temp[i], final[i], Art(p).body)
      BY <1>4, <1>7 DEF Expected
    <2>2. QED
      BY <1>1, <1>3, <1>5, <1>7, <2>1, LookStep
  <1>8. CASE /\ final[i] = Spoiled \/ temp[i] = "pair" \/ (final[i] = Absent /\ saver[p].prior # "prepared")
             /\ alarms' = TRUE /\ SaveFails(p)
    <2>1. marker.state \in {"prepared", "committed"} /\ Art(p).body # Absent /\ Art(p).body # Spoiled
      BY <1>1, Working, CaptureTypes DEF CaptureInv
    <2>2. Absent # "pair" /\ Absent # Spoiled
      BY DEF Absent, Spoiled
    <2>3. tampers > 0
      BY <1>1, <1>2, <1>4, <1>8, <2>1, <2>2, Expecting
    <2>4. QED
      BY <1>1, <1>3, <1>8, <2>3, LookStep
  <1>9. QED
    BY <1>6, <1>7, <1>8 DEF CheckPrior

LEMMA OpenTempInv ==
  ASSUME CaptureInv, NEW p \in Savers, OpenTemp(p)
  PROVE  CaptureInv'
  <1> DEFINE i == Art(p).id
  <1>1. saver[p] # NoSave /\ SaverAt(p, "open") /\ ~SaverAt(p, "intent")
    BY CaptureTypes DEF CaptureInv, OpenTemp, SaverAt
  <1>2. UNCHANGED <<marker, final, saves, answers, alarms, saveFaults, tampers>>
    BY DEF OpenTemp
  <1>3. CASE temp[i] = Absent
    <2>1. temp' = [temp EXCEPT ![i] = "part"] /\ SaverGoto(p, "write")
      BY <1>3 DEF OpenTemp
    <2>2. final' = [final EXCEPT ![i] = final[i]] /\ final[i] \in Bodies \cup {Absent, Spoiled}
      BY <1>1, <1>2, Working, Expecting
    <2>3. /\ "part" \in Temps /\ "part" # "pair" /\ Art(p).body # Absent
          /\ "write" \in SaveSteps \ {"recover"} /\ "write" # "check"
      BY <1>1, Working DEF Temps, SaveSteps
    <2>4. tampers = 0 => /\ final[i] = Absent
                         /\ ~(marker.state = "committed" \/ answers # {})
      BY <1>1, <2>3, Expecting DEF Expected, SaverAt
    <2>5. tampers = 0 => Expected("write", "part", final[i], Art(p).body)
      BY <2>4 DEF Expected
    <2>6. QED
      BY <1>1, <1>2, <2>1, <2>2, <2>3, <2>4, <2>5, FilesStep
  <1>4. CASE temp[i] # Absent
    <2>1. SaveFails(p) /\ UNCHANGED temp
      BY <1>4 DEF OpenTemp
    <2>2. QED
      BY <1>1, <1>2, <2>1, LookStep
  <1>5. QED
    BY <1>3, <1>4

LEMMA WriteTempInv ==
  ASSUME CaptureInv, NEW p \in Savers, WriteTemp(p)
  PROVE  CaptureInv'
  <1> DEFINE i == Art(p).id
  <1>1. saver[p] # NoSave /\ SaverAt(p, "write") /\ ~SaverAt(p, "intent")
    BY CaptureTypes DEF CaptureInv, WriteTemp, SaverAt
  <1>2. /\ UNCHANGED <<marker, final, saves, answers, alarms, saveFaults, tampers>>
        /\ temp' = [temp EXCEPT ![i] = "whole"] /\ SaverGoto(p, "link")
    BY DEF WriteTemp
  <1>3. final' = [final EXCEPT ![i] = final[i]] /\ final[i] \in Bodies \cup {Absent, Spoiled}
    BY <1>1, <1>2, Working, Expecting
  <1>4. /\ "whole" \in Temps /\ "whole" # "pair" /\ Art(p).body # Absent
        /\ "link" \in SaveSteps \ {"recover"} /\ "link" # "check"
    BY <1>1, Working DEF Temps, SaveSteps
  <1>5. tampers = 0 => /\ final[i] = Absent
                       /\ ~(marker.state = "committed" \/ answers # {})
    BY <1>1, <1>4, Expecting DEF Expected, SaverAt
  <1>6. tampers = 0 => Expected("link", "whole", final[i], Art(p).body)
    BY <1>5 DEF Expected
  <1>7. QED
    BY <1>1, <1>2, <1>3, <1>4, <1>5, <1>6, FilesStep

LEMMA LinkFinalInv ==
  ASSUME CaptureInv, NEW p \in Savers, LinkFinal(p)
  PROVE  CaptureInv'
  <1> DEFINE i == Art(p).id
  <1>1. saver[p] # NoSave /\ SaverAt(p, "link") /\ ~SaverAt(p, "intent")
    BY CaptureTypes DEF CaptureInv, LinkFinal, SaverAt
  <1>2. UNCHANGED <<marker, saves, answers, alarms, saveFaults, tampers>>
    BY DEF LinkFinal
  <1>3. CASE final[i] = Absent /\ temp[i] = "whole"
    <2>1. /\ final' = [final EXCEPT ![i] = Art(p).body] /\ temp' = [temp EXCEPT ![i] = "pair"]
          /\ SaverGoto(p, "unlink")
      BY <1>3 DEF LinkFinal
    <2>2. /\ "pair" \in Temps /\ Art(p).body \in Bodies /\ Art(p).body # Absent
          /\ "unlink" \in SaveSteps \ {"recover"} /\ "unlink" # "check"
          /\ "pair" \notin {"part", "whole"}
      BY <1>1, Working DEF Temps, SaveSteps
    <2>3. tampers = 0 => ~(marker.state = "committed" \/ answers # {})
      BY <1>1, <1>3, <2>2, Expecting
    <2>4. Expected("unlink", "pair", Art(p).body, Art(p).body)
      BY DEF Expected
    <2>5. QED
      BY <1>1, <1>2, <2>1, <2>2, <2>3, <2>4, FilesStep
  <1>4. CASE ~(final[i] = Absent /\ temp[i] = "whole")
    <2>1. SaveFails(p) /\ UNCHANGED <<final, temp>>
      BY <1>4 DEF LinkFinal
    <2>2. QED
      BY <1>1, <1>2, <2>1, LookStep
  <1>5. QED
    BY <1>3, <1>4

LEMMA UnlinkTempInv ==
  ASSUME CaptureInv, NEW p \in Savers, UnlinkTemp(p)
  PROVE  CaptureInv'
  <1> DEFINE i == Art(p).id
  <1>1. saver[p] # NoSave /\ SaverAt(p, "unlink") /\ ~SaverAt(p, "intent")
    BY CaptureTypes DEF CaptureInv, UnlinkTemp, SaverAt
  <1>2. UNCHANGED <<marker, final, saves, answers, alarms, saveFaults, tampers>>
    BY DEF UnlinkTemp
  <1>3. CASE temp[i] = "pair" /\ temp' = [temp EXCEPT ![i] = Absent] /\ SaverGoto(p, "read")
    <2>1. final' = [final EXCEPT ![i] = final[i]] /\ final[i] \in Bodies \cup {Absent, Spoiled}
      BY <1>1, <1>2, Working, Expecting
    <2>2. /\ Absent \in Temps /\ "read" \in SaveSteps \ {"recover"} /\ "read" # "check"
          /\ Absent \notin {"part", "whole", "pair"}
      BY DEF Temps, SaveSteps, Absent
    <2>3. tampers = 0 => final[i] = Art(p).body
      BY <1>1, <1>3, Expecting
    <2>4. tampers = 0 => Expected("read", Absent, final[i], Art(p).body)
      BY <2>3 DEF Expected
    <2>5. QED
      BY <1>1, <1>2, <1>3, <2>1, <2>2, <2>3, <2>4, FilesStep
  <1>4. CASE SaveFails(p) /\ UNCHANGED temp
    BY <1>1, <1>2, <1>4, LookStep
  <1>5. QED
    BY <1>3, <1>4 DEF UnlinkTemp

LEMMA ReadBackInv ==
  ASSUME CaptureInv, NEW p \in Savers, ReadBack(p)
  PROVE  CaptureInv'
  <1> DEFINE i == Art(p).id
  <1>1. saver[p] # NoSave /\ SaverAt(p, "read") /\ ~SaverAt(p, "intent")
    BY CaptureTypes DEF CaptureInv, ReadBack, SaverAt
  <1>2. UNCHANGED <<marker, temp, final, saves, answers, saveFaults, tampers>>
    BY DEF ReadBack
  <1>3. tampers = 0 => temp[i] = Absent /\ final[i] = Art(p).body
    BY <1>1, Expecting DEF Expected, SaverAt
  <1>4. CASE final[i] = Art(p).body
    <2>1. SaverGoto(p, "commit") /\ UNCHANGED alarms
      BY <1>4 DEF ReadBack
    <2>2. tampers = 0 => Expected("commit", temp[i], final[i], Art(p).body)
      BY <1>3 DEF Expected
    <2>3. "commit" \in SaveSteps \ {"recover"} /\ "commit" # "check"
      BY DEF SaveSteps
    <2>4. QED
      BY <1>1, <1>2, <2>1, <2>2, <2>3, LookStep
  <1>5. CASE final[i] # Art(p).body
    <2>1. SaveFails(p) /\ alarms' = TRUE
      BY <1>5 DEF ReadBack
    <2>2. tampers > 0
      BY <1>1, <1>3, <1>5, Expecting
    <2>3. QED
      BY <1>1, <1>2, <2>1, <2>2, LookStep
  <1>6. QED
    BY <1>4, <1>5

\* The marker that p writes.
LEMMA MarkerWritten ==
  ASSUME CaptureInv, NEW p \in Savers, saver[p] # NoSave,
         NEW state \in {"prepared", "committed"}, WriteMarker(p, state)
  PROVE  marker' \in Marker /\ marker'.state = state /\ marker'.art = Art(p) /\ state # "none"
  BY Working DEF WriteMarker, Marker

\* The command has written its intent, and goes on or dies.
LEMMA Intended ==
  ASSUME CaptureInv, NEW p \in Savers, SaverAt(p, "intent"), WriteMarker(p, "prepared"),
         SaverGoto(p, "open") \/ SaveFails(p), saveFaults' \in 0..MaxSaveFaults,
         UNCHANGED <<temp, final, saves, answers, alarms, tampers>>
  PROVE  CaptureInv'
  <1> DEFINE i == Art(p).id
  <1>1. saver[p] # NoSave
    BY CaptureTypes DEF CaptureInv, SaverAt
  <1>2. /\ marker' \in Marker /\ marker'.state = "prepared" /\ marker'.art = Art(p)
        /\ i \in Arts /\ Art(p).body # Absent
        /\ \A j \in Arts : j # i => temp[j] = Absent /\ final[j] = Absent
        /\ answers \subseteq {Art(p)}
    BY <1>1, MarkerWritten, Working
  <1>3. tampers = 0 => temp[i] = Absent /\ final[i] = Absent /\ answers = {}
    <2>1. tampers = 0 => temp[i] = Absent /\ final[i] = Absent
      BY <1>1, Expecting DEF Expected, SaverAt
    <2>2. marker.state = "none" => answers = {}
      BY DEF CaptureInv, OneArtifact
    <2>3. marker.state # "none" => marker.art = Art(p)
      BY <1>1 DEF CaptureInv, SaverKnows
    <2>4. QED
      BY <1>2, <2>1, <2>2, <2>3 DEF CaptureInv, Untouched
  <1>4. /\ saver' \in [Savers -> {NoSave} \cup SaverRec] /\ OneSaver'
        /\ \A q \in Savers : SaverKnows(q)'
    <2>1. CASE SaveFails(p)
      BY <1>1, <2>1, StopsSaving
    <2>2. CASE SaverGoto(p, "open")
      <3>1. /\ saver' \in [Savers -> {NoSave} \cup SaverRec] /\ OneSaver'
            /\ saver'[p].pc = "open" /\ saver'[p].art = saver[p].art
            /\ \A q \in Savers : q # p => saver'[q] = NoSave
        BY <1>1, <2>2, GoesOn DEF SaveSteps
      <3>2. Art(p)' = Art(p)
        BY <3>1 DEF Art
      <3>3. tampers = 0 => Expected("open", temp[i], final[i], Art(p).body)
        BY <1>3 DEF Expected
      <3>4. SaverKnows(p)'
        BY <1>2, <3>1, <3>2, <3>3 DEF SaverKnows, SaverAt
      <3>5. \A q \in Savers : q # p => SaverKnows(q)'
        BY <3>1 DEF SaverKnows
      <3>6. QED
        BY <3>1, <3>4, <3>5
    <2>3. QED
      BY <2>1, <2>2
  <1>5. CaptureTypeOK'
    BY <1>2, <1>4 DEF CaptureInv, CaptureTypeOK, SaverRec
  <1>6. OneArtifact'
    BY <1>2 DEF OneArtifact
  <1>7. Untouched'
    BY <1>2, <1>3 DEF Untouched, Absent
  <1>8. QED
    BY <1>4, <1>5, <1>6, <1>7 DEF CaptureInv

LEMMA IntendInv ==
  ASSUME CaptureInv, NEW p \in Savers, Intend(p)
  PROVE  CaptureInv'
  <1>1. saveFaults' \in 0..MaxSaveFaults
    BY DEF CaptureInv, CaptureTypeOK, Intend
  <1>2. QED
    BY <1>1, Intended DEF Intend

\* The command ends, with or without its answer, and with the marker committed or as it was.
LEMMA Committed ==
  ASSUME CaptureInv, NEW p \in Savers, SaverAt(p, "commit"), SaveFails(p),
         WriteMarker(p, "committed") \/ UNCHANGED marker,
         answers' \in {answers, answers \cup {Art(p)}}, saveFaults' \in 0..MaxSaveFaults,
         UNCHANGED <<temp, final, saves, alarms, tampers>>
  PROVE  CaptureInv'
  <1> DEFINE i == Art(p).id
  <1>1. saver[p] # NoSave /\ ~SaverAt(p, "intent")
    BY CaptureTypes DEF CaptureInv, SaverAt
  <1>2. /\ marker.state # "none" /\ marker.art = Art(p) /\ Art(p) \in Artifact
        /\ i \in Arts /\ answers \subseteq {Art(p)}
        /\ \A j \in Arts : j # i => temp[j] = Absent /\ final[j] = Absent
    BY <1>1, Working
  <1>3. marker' \in Marker /\ marker'.state # "none" /\ marker'.art = Art(p)
    BY <1>1, <1>2, MarkerWritten DEF CaptureInv, CaptureTypeOK
  <1>4. tampers = 0 => temp[i] = Absent /\ final[i] = Art(p).body
    BY <1>1, Expecting DEF Expected, SaverAt
  <1>5. /\ saver' \in [Savers -> {NoSave} \cup SaverRec] /\ OneSaver'
        /\ \A q \in Savers : SaverKnows(q)'
    BY <1>1, StopsSaving
  <1>6. answers' \subseteq {Art(p)} /\ answers' \subseteq Artifact
    BY <1>2
  <1>7. CaptureTypeOK'
    BY <1>3, <1>5, <1>6 DEF CaptureInv, CaptureTypeOK, SaverRec
  <1>8. OneArtifact'
    BY <1>2, <1>3, <1>6 DEF OneArtifact
  <1>9. Untouched'
    BY <1>3, <1>4 DEF Untouched, Absent
  <1>10. QED
    BY <1>5, <1>7, <1>8, <1>9 DEF CaptureInv

LEMMA CompleteSaveInv ==
  ASSUME CaptureInv, NEW p \in Savers, NEW io \in BOOLEAN, CompleteSave(p, io)
  PROVE  CaptureInv'
  <1>1. saveFaults' \in 0..MaxSaveFaults
    BY CaptureAssumption DEF CaptureInv, CaptureTypeOK, CompleteSave
  <1>2. QED
    BY <1>1, Committed DEF CompleteSave

LEMMA SaveFaultInv ==
  ASSUME CaptureInv, NEW p \in Savers, SaveFault(p)
  PROVE  CaptureInv'
  <1> DEFINE i == Art(p).id
  <1>1. saver[p] # NoSave /\ SaveFails(p) /\ UNCHANGED <<saves, answers, alarms, tampers>>
    BY DEF SaveFault
  <1>2. saveFaults' \in 0..MaxSaveFaults
    BY CaptureAssumption DEF CaptureInv, CaptureTypeOK, SaveFault
  <1>3. /\ saver' \in [Savers -> {NoSave} \cup SaverRec] /\ OneSaver'
        /\ \A q \in Savers : SaverKnows(q)'
    BY <1>1, StopsSaving
  <1>4. CASE UNCHANGED <<marker, temp, final>>
    <2>1. CaptureTypeOK'
      BY <1>1, <1>2, <1>3, <1>4 DEF CaptureInv, CaptureTypeOK, SaverRec
    <2>2. OneArtifact' /\ Untouched'
      BY <1>1, <1>4 DEF CaptureInv, OneArtifact, Untouched
    <2>3. QED
      BY <1>1, <1>3, <2>1, <2>2 DEF CaptureInv
  <1>5. CASE SaverAt(p, "intent") /\ WriteMarker(p, "prepared") /\ UNCHANGED <<temp, final>>
    BY <1>1, <1>2, <1>5, Intended
  <1>6. CASE SaverAt(p, "recover") /\ temp' = [temp EXCEPT ![i] = Absent] /\ UNCHANGED <<marker, final>>
    <2>1. /\ marker.state # "none" /\ marker.art = Art(p) /\ i \in Arts
          /\ temp \in [Arts -> Temps] /\ final \in [Arts -> Bodies \cup {Absent, Spoiled}]
      BY <1>1, <1>6, Working DEF SaverAt
    <2>2. temp' \in [Arts -> Temps] /\ temp'[i] = Absent /\ \A j \in Arts : j # i => temp'[j] = temp[j]
      BY <1>6, <2>1 DEF Temps
    <2>3. CaptureTypeOK'
      BY <1>1, <1>2, <1>3, <1>6, <2>2 DEF CaptureInv, CaptureTypeOK, SaverRec
    <2>4. OneArtifact'
      BY <1>1, <1>6, <2>1, <2>2 DEF CaptureInv, OneArtifact
    <2>5. Untouched'
      BY <1>1, <1>6, <2>1, <2>2 DEF CaptureInv, Untouched, Absent
    <2>6. QED
      BY <1>1, <1>3, <2>3, <2>4, <2>5 DEF CaptureInv
  <1>7. CASE SaverAt(p, "commit") /\ WriteMarker(p, "committed") /\ UNCHANGED <<temp, final>>
    BY <1>1, <1>2, <1>7, Committed
  <1>8. QED
    BY <1>4, <1>5, <1>6, <1>7 DEF SaveFault

LEMMA BeginSaveInv ==
  ASSUME CaptureInv, NEW p \in Savers, NEW route \in Routes, NEW body \in Bodies, BeginSave(p, route, body)
  PROVE  CaptureInv'
  <1>1. PICK id : id = IF marker = NoMarker THEN saves + 1 ELSE marker.art.id
    OBVIOUS
  <1>2. PICK owner \in Owners(route) :
          /\ SamePayload([id |-> id, owner |-> owner, body |-> body])
          /\ saver' = [saver EXCEPT ![p] =
               [pc |-> CASE marker.state = "none" -> "intent" [] marker.state = "prepared" -> "recover"
                         [] OTHER -> "check",
                art |-> [id |-> id, owner |-> owner, body |-> body], prior |-> marker.state]]
    BY <1>1 DEF BeginSave
  <1>3. PICK pc : pc = CASE marker.state = "none" -> "intent" [] marker.state = "prepared" -> "recover"
                         [] OTHER -> "check"
    OBVIOUS
  <1>4. PICK art : art = [id |-> id, owner |-> owner, body |-> body]
    OBVIOUS
  <1>5. PICK x : x = [pc |-> pc, art |-> art, prior |-> marker.state]
    OBVIOUS
  <1>6. saver' = [saver EXCEPT ![p] = x]
    BY <1>2, <1>3, <1>4, <1>5
  <1>7. /\ ~MarkerLocked /\ id <= MaxSaves /\ saver[p] = NoSave
        /\ saves' = (IF marker = NoMarker THEN id ELSE saves)
        /\ UNCHANGED <<marker, temp, final, answers, alarms, saveFaults, tampers>>
    BY <1>1 DEF BeginSave
  <1>8. /\ marker.state \in {"none", "prepared", "committed"}
        /\ marker.state = "none" <=> marker = NoMarker
        /\ marker.state # "none" => marker.art \in Artifact
        /\ saves \in Nat
    BY CaptureTypes DEF CaptureInv
  <1>9. owner \in RecordOwner
    <2>1. marker.state # "none" => marker.art.owner \in RecordOwner
      BY <1>8 DEF Artifact
    <2>2. QED
      BY <1>2, <1>8, <2>1 DEF Owners, RecordOwner
  <1>10. id \in Arts /\ saves' \in 0..MaxSaves
    <2>1. CASE marker = NoMarker
      BY <1>1, <1>7, <1>8, <2>1 DEF Arts
    <2>2. CASE marker # NoMarker
      <3>1. marker.art.id \in Arts
        BY <1>8, <2>2 DEF Artifact
      <3>2. QED
        BY <1>1, <1>7, <2>2, <3>1 DEF CaptureInv, CaptureTypeOK
    <2>3. QED
      BY <2>1, <2>2
  <1>11. art \in Artifact /\ art.id = id
    BY <1>4, <1>9, <1>10 DEF Artifact
  <1>12. pc \in {"intent", "recover", "check"} /\ pc \in SaveSteps
    BY <1>3 DEF SaveSteps
  <1>13. x \in SaverRec /\ x.pc = pc /\ x.art = art /\ x.prior = marker.state
    BY <1>5, <1>8, <1>11, <1>12 DEF SaverRec
  <1>14. /\ saver' \in [Savers -> {NoSave} \cup SaverRec] /\ saver'[p] = x
         /\ \A q \in Savers : q # p => saver'[q] = NoSave
         /\ OneSaver'
    BY <1>6, <1>7, <1>13, OthersRest
  <1>15. marker.state # "none" => marker.art = art
    BY <1>2, <1>4, <1>8 DEF SamePayload
  <1>16. tampers = 0 => Expected(pc, temp[id], final[id], art.body)
    <2>1. CASE marker.state = "none"
      BY <1>3, <1>10, <2>1 DEF CaptureInv, OneArtifact, Expected
    <2>2. CASE marker.state = "prepared"
      BY <1>3, <2>2 DEF Expected
    <2>3. CASE marker.state = "committed"
      <3>1. tampers = 0 => temp[id] = Absent
        BY <1>11, <1>15, <2>3 DEF CaptureInv, Untouched
      <3>2. pc = "check"
        BY <1>3, <2>3
      <3>3. QED
        BY <3>1, <3>2 DEF Expected
    <2>4. QED
      BY <1>8, <2>1, <2>2, <2>3
  <1>17. SaverKnows(p)'
    <2>1. Art(p)' = art /\ saver'[p].pc = pc /\ saver'[p].prior = marker.state
      BY <1>13, <1>14 DEF Art
    <2>2. /\ marker.state = "none" => pc = "intent"
          /\ pc = "recover" => marker.state = "prepared"
      BY <1>3, <1>8
    <2>3. QED
      BY <1>7, <1>11, <1>15, <1>16, <2>1, <2>2 DEF SaverKnows, SaverAt
  <1>18. \A q \in Savers : SaverKnows(q)'
    BY <1>14, <1>17 DEF SaverKnows
  <1>19. CaptureTypeOK'
    BY <1>7, <1>10, <1>14 DEF CaptureInv, CaptureTypeOK, SaverRec
  <1>20. OneArtifact' /\ Untouched' /\ (alarms' => tampers' > 0)
    BY <1>7 DEF CaptureInv, OneArtifact, Untouched
  <1>21. QED
    BY <1>14, <1>18, <1>19, <1>20 DEF CaptureInv

\* Somebody meddles with the file.
LEMMA TamperInv ==
  ASSUME CaptureInv, NEW i \in Arts, Tamper(i)
  PROVE  CaptureInv'
  <1>1. /\ final[i] \in Bodies /\ tampers < MaxTampers /\ tampers' = tampers + 1
        /\ UNCHANGED <<marker, saver, saves, answers, alarms, saveFaults>>
    BY DEF Tamper
  <1>2. tampers' \in 0..MaxTampers /\ tampers' > 0
    BY <1>1, CaptureAssumption DEF CaptureInv, CaptureTypeOK
  <1>3. temp \in [Arts -> Temps] /\ final \in [Arts -> Bodies \cup {Absent, Spoiled}]
    BY DEF CaptureInv, CaptureTypeOK
  <1>4. /\ temp' \in [Arts -> Temps] /\ final' \in [Arts -> Bodies \cup {Absent, Spoiled}]
        /\ \A j \in Arts : j # i => temp'[j] = temp[j] /\ final'[j] = final[j]
    <2>1. CASE final' = [final EXCEPT ![i] = Spoiled] /\ UNCHANGED temp
      BY <1>3, <2>1
    <2>2. CASE /\ \E f \in {Spoiled, Absent} : final' = [final EXCEPT ![i] = f]
               /\ temp' = [temp EXCEPT ![i] = IF @ = "pair" THEN "whole" ELSE @]
      BY <1>3, <2>2 DEF Temps
    <2>3. QED
      BY <2>1, <2>2 DEF Tamper
  <1>5. final[i] # Absent
    BY <1>1, CaptureAssumption DEF Absent
  <1>6. marker.state # "none" /\ i = marker.art.id
    BY <1>5 DEF CaptureInv, OneArtifact
  <1>7. OneArtifact'
    BY <1>1, <1>4, <1>6 DEF CaptureInv, OneArtifact
  <1>8. Untouched' /\ (alarms' => tampers' > 0)
    BY <1>1, <1>2 DEF Untouched
  <1>9. OneSaver' /\ \A p \in Savers : SaverKnows(p)'
    BY <1>1, <1>2 DEF CaptureInv, OneSaver, SaverKnows, SaverAt, Art
  <1>10. CaptureTypeOK'
    BY <1>1, <1>2, <1>4 DEF CaptureInv, CaptureTypeOK
  <1>11. QED
    BY <1>7, <1>8, <1>9, <1>10 DEF CaptureInv

-----------------------------------------------------------------------------

LEMMA CaptureInitInv ==
  ASSUME CaptureInit
  PROVE  CaptureInv
  <1>1. \A p \in Savers : saver[p] = NoSave
    BY DEF CaptureInit
  <1>2. OneSaver /\ \A p \in Savers : SaverKnows(p)
    BY <1>1 DEF OneSaver, SaverKnows
  <1>3. marker = NoMarker /\ marker.state = "none" /\ answers = {} /\ alarms = FALSE
    BY DEF CaptureInit, NoMarker
  <1>4. OneArtifact /\ Untouched
    BY <1>3 DEF CaptureInit, OneArtifact, Untouched
  <1>5. CaptureTypeOK
    <2>1. marker \in Marker /\ answers \subseteq Artifact /\ alarms \in BOOLEAN
      BY <1>3 DEF Marker
    <2>2. /\ temp \in [Arts -> Temps] /\ final \in [Arts -> Bodies \cup {Absent, Spoiled}]
          /\ saver \in [Savers -> {NoSave} \cup SaverRec]
      BY DEF CaptureInit, Temps
    <2>3. saves \in 0..MaxSaves /\ saveFaults \in 0..MaxSaveFaults /\ tampers \in 0..MaxTampers
      BY CaptureAssumption DEF CaptureInit
    <2>4. QED
      BY <2>1, <2>2, <2>3 DEF CaptureTypeOK, SaverRec
  <1>6. QED
    BY <1>2, <1>3, <1>4, <1>5 DEF CaptureInv

LEMMA CaptureStep ==
  ASSUME CaptureInv, [CaptureNext]_captureVars
  PROVE  CaptureInv'
  <1>1. CASE UNCHANGED captureVars
    <2>1. CaptureTypeOK' /\ OneArtifact' /\ Untouched' /\ (alarms' => tampers' > 0)
      BY <1>1 DEF CaptureInv, CaptureTypeOK, OneArtifact, Untouched, captureVars
    <2>2. OneSaver' /\ \A p \in Savers : SaverKnows(p)'
      BY <1>1 DEF CaptureInv, OneSaver, SaverKnows, SaverAt, Art, captureVars
    <2>3. QED
      BY <2>1, <2>2 DEF CaptureInv
  <1>2. ASSUME NEW p \in Savers,
               \/ RecoverTemp(p) \/ CheckPrior(p) \/ Intend(p) \/ OpenTemp(p) \/ WriteTemp(p)
               \/ LinkFinal(p) \/ UnlinkTemp(p) \/ ReadBack(p) \/ SaveFault(p)
        PROVE  CaptureInv'
    BY <1>2, RecoverTempInv, CheckPriorInv, IntendInv, OpenTempInv, WriteTempInv, LinkFinalInv,
       UnlinkTempInv, ReadBackInv, SaveFaultInv
  <1>3. ASSUME NEW p \in Savers, NEW io \in BOOLEAN, CompleteSave(p, io)
        PROVE  CaptureInv'
    BY <1>3, CompleteSaveInv
  <1>4. ASSUME NEW p \in Savers, NEW route \in Routes, NEW body \in Bodies, BeginSave(p, route, body)
        PROVE  CaptureInv'
    BY <1>4, BeginSaveInv
  <1>5. ASSUME NEW i \in Arts, Tamper(i)
        PROVE  CaptureInv'
    BY <1>5, TamperInv
  <1>6. QED
    BY <1>1, <1>2, <1>3, <1>4, <1>5 DEF CaptureNext

LEMMA CaptureInvImplies ==
  ASSUME CaptureInv
  PROVE  SavedOnce
  <1>1. /\ marker.state # "none" => marker.art \in Artifact /\ answers \subseteq {marker.art}
        /\ marker.state = "none" => answers = {}
    BY CaptureTypes DEF CaptureInv, OneArtifact
  <1>2. \E i \in Int : {j \in Arts : final[j] # Absent} \subseteq {i}
    <2>1. CASE marker.state = "none"
      <3>1. {j \in Arts : final[j] # Absent} \subseteq {0}
        BY <2>1 DEF CaptureInv, OneArtifact
      <3>2. QED
        BY <3>1
    <2>2. CASE marker.state # "none"
      <3>1. marker.art.id \in Int
        BY <1>1, <2>2 DEF Artifact, Arts
      <3>2. {j \in Arts : final[j] # Absent} \subseteq {marker.art.id}
        BY <2>2 DEF CaptureInv, OneArtifact
      <3>3. QED
        BY <3>1, <3>2
    <2>3. QED
      BY <2>1, <2>2
  <1>3. \E a : answers \subseteq {a}
    BY <1>1
  <1>4. \A S, a : S \subseteq {a} => Cardinality(S) <= 1
    <2>1. ASSUME NEW S, NEW a, S \subseteq {a}
          PROVE  Cardinality(S) <= 1
      <3>1. IsFiniteSet({a}) /\ Cardinality({a}) = 1
        BY FS_Singleton
      <3>2. IsFiniteSet(S) /\ Cardinality(S) <= Cardinality({a})
        BY <2>1, <3>1, FS_Subset
      <3>3. QED
        BY <3>1, <3>2
    <2>2. QED
      BY <2>1
  <1>5. Cardinality({i \in Arts : final[i] # Absent}) <= 1 /\ Cardinality(answers) <= 1
    BY <1>2, <1>3, <1>4
  <1>6. \A a \in answers : tampers = 0 => final[a.id] = a.body
    BY <1>1 DEF CaptureInv, Untouched
  <1>7. marker.state = "committed" => answers \subseteq {marker.art}
    BY <1>1
  <1>8. QED
    BY <1>5, <1>6, <1>7 DEF CaptureInv, SavedOnce

\* However many processes try a request, whatever of it fails, dies or is meddled with, at any
\* step of the marker, the temporary file and the link: one artifact is published at most, every
\* answer names it, and nothing that a try left is taken for damage.
THEOREM SavedOnceHolds == CaptureSpec => []SavedOnce
  <1>1. CaptureInit => CaptureInv
    BY CaptureInitInv
  <1>2. CaptureInv /\ [CaptureNext]_captureVars => CaptureInv'
    BY CaptureStep
  <1>3. CaptureInv => SavedOnce
    BY CaptureInvImplies
  <1>4. QED
    BY <1>1, <1>2, <1>3, PTL DEF CaptureSpec

-----------------------------------------------------------------------------
(* HistoryBackfill: a helper.                                             *)

\* A non-empty set of natural numbers has a least member.
LEMMA LeastMember ==
  ASSUME NEW S \in SUBSET Nat, S # {}
  PROVE  \E n \in S : \A m \in S : n <= m
  <1> DEFINE R == {ss \in Nat \X Nat : ss[1] < ss[2]}
  <1>1. IsWellFoundedOn(R, Nat)
    BY NatLessThanWellFounded DEF OpToRel
  <1>2. \A x, y \in Nat : <<y, x>> \notin R => x <= y
    OBVIOUS
  <1> HIDE DEF R
  <1>3. PICK x \in S : \A y \in S : <<y, x>> \notin R
    BY <1>1, WFMin
  <1>4. QED
    BY <1>2, <1>3

-----------------------------------------------------------------------------
(* HistoryBackfill: the inductive invariant.                               *)

Begins(s, t) == Len(s) <= Len(t) /\ \A i \in 1..Len(s) : s[i] = t[i]

\* The session, and the observations that nobody will take back.
Group   == {NoGroup} \cup [step : {"file", "undo"}, ok : BOOLEAN, kept : Seq(Entry)]
Story   == [telemetry : Telemetry, evidence : Seq(Entry), filed : Nat, complete : BOOLEAN, group : Group]
Session == [telemetry |-> telemetry, evidence |-> evidence, filed |-> filed, complete |-> complete,
            group |-> group]
KeptLines == Known \ {r[2] : r \in writing}

\* The ids of the results rise, and a batch has added its own results to those it will keep.
StoryOK(s) ==
  /\ s \in Story /\ \A i \in 1..Len(s.evidence) : s.evidence[i].id <= s.filed
  /\ \A i, k \in 1..Len(s.evidence) : i < k => s.evidence[i].id < s.evidence[k].id
  /\ s.group.step # "none" => Begins(s.group.kept, s.evidence) /\ Len(s.group.kept) < Len(s.evidence)
  /\ s.group.step = "undo" => ~s.complete

\* The failures of sources h, up to a place in their telemetry, are all in S.
Covers(h, to, S) == Candidates(h.telemetry, 1..to, h.evidence) \subseteq S

\* Nobody will see sources h again in session s, unless somebody takes back what was observed:
\* a failure of S has been added, or a result of h was taken back or is about to be.
Outrun(h, S, s) ==
  \/ /\ Begins(h.evidence, s.evidence)
     /\ \E i \in 1..Len(s.evidence) :
          i > Len(h.evidence) /\ ~s.evidence[i].ok /\ <<"evidence", s.evidence[i].id>> \in S
  \/ \E i \in 1..Len(h.evidence) :
       /\ h.evidence[i].id <= s.filed
       /\ \A k \in 1..Len(s.evidence) : s.evidence[k].id # h.evidence[i].id
  \/ /\ h.complete /\ s.group.step = "undo"
     /\ Begins(h.evidence, s.evidence) /\ Len(s.group.kept) < Len(h.evidence)

\* What a row of the cursor, written or still to be, may say.
HonestRow(row, S, D, s) ==
  row # NoCursor =>
    /\ row.status = "complete" => row.offset = Len(row.hash.telemetry)
    /\ \/ Covers(row.hash, row.offset, S) /\ Qualifying(row.hash.complete, row.hash.evidence) \subseteq D
       \/ Outrun(row.hash, S, s)

\* Sources that were read by a run that is still at work, and the row of one that reads them again.
Fresh(h, s) ==
  /\ Begins(h.telemetry, s.telemetry) /\ Begins(h.evidence, s.evidence)
  /\ h.complete => h.evidence = s.evidence /\ (s.complete \/ s.group.step = "undo")
Rereads(row, s) ==
  row # NoCursor => row.status = "complete" /\ row.offset = Len(row.hash.telemetry) /\ Fresh(row.hash, s)

\* What a run knows at its step, when the lines of K and the days of D are there to stay.
Writing == {"day", "append", "undo", "done"}
RunReads(me, s) ==
  /\ me.pc \in {"task", "evidence"} => Begins(me.telemetry, s.telemetry)
  /\ me.pc = "evidence" /\ me.complete => s.complete \/ s.group.step = "undo"
  /\ me.pc \in {"retask", "reread", "journal"} => Rereads(me.row, s)
  /\ me.pc = "reread" /\ me.row # NoCursor /\ me.row.hash.complete /\ ~me.complete => s.group.step = "undo"
  /\ me.pc = "journal" => Begins(me.evidence, s.evidence)
  /\ me.pc = "journal" /\ me.row # NoCursor =>
       /\ Begins(me.row.hash.evidence, me.evidence)
       /\ me.row.hash.complete =>
            Qualifying(TRUE, me.row.hash.evidence) \subseteq me.day \/ s.group.step = "undo"
RunWrites(me, K, D, s) ==
  me.pc \in Writing /\ ~me.skipped =>
    HonestRow(me.row, K \cup me.todo, IF me.pc = "day" THEN me.day ELSE D, s)

BackfillInv ==
  /\ BackfillTypeOK /\ StoryOK(Session)
  /\ ~slipped =>
       /\ HonestRow(cursor, KeptLines, productionDays, Session)
       /\ \A w \in Observers : /\ RunReads(observer[w], Session)
                               /\ RunWrites(observer[w], KeptLines, productionDays, Session)

-----------------------------------------------------------------------------
(* HistoryBackfill: how a session goes on.                                 *)

\* Nothing is taken back: results have new ids, and there is none while a finished session is
\* finished or its completion is being undone.
Goes(s, t) ==
  /\ Begins(s.telemetry, t.telemetry) /\ Begins(s.evidence, t.evidence) /\ s.filed <= t.filed
  /\ \A k \in 1..Len(t.evidence) : k > Len(s.evidence) => t.evidence[k].id > s.filed
  /\ s.complete \/ s.group.step = "undo" => t.evidence = s.evidence /\ (t.complete \/ t.group.step = "undo")
  /\ s.group.step = "undo" => t.group = s.group

LEMMA BeginsSelf == ASSUME NEW S, NEW s \in Seq(S) PROVE Begins(s, s)
  BY DEF Begins

LEMMA BeginsOn ==
  ASSUME NEW S, NEW r \in Seq(S), NEW s \in Seq(S), NEW t \in Seq(S), Begins(r, s), Begins(s, t)
  PROVE  Begins(r, t)
  BY DEF Begins

LEMMA StoryTypes ==
  ASSUME NEW s \in Story
  PROVE  /\ s.telemetry \in Seq(Event) /\ s.evidence \in Seq(Entry) /\ s.filed \in Nat
         /\ s.complete \in BOOLEAN /\ s.group \in Group /\ Len(s.evidence) \in Nat
         /\ \A i \in 1..Len(s.evidence) : s.evidence[i] \in Entry /\ s.evidence[i].id \in Nat
         /\ s.group.step # "none" => s.group.kept \in Seq(Entry)
  <1>1. /\ s.telemetry \in Seq(Event) /\ s.evidence \in Seq(Entry) /\ s.filed \in Nat
        /\ s.complete \in BOOLEAN /\ s.group \in Group
    BY DEF Story, Telemetry
  <1>2. \A i \in 1..Len(s.evidence) : s.evidence[i] \in Entry
    BY <1>1, ElementOfSeq
  <1>3. s.group.step # "none" => s.group.kept \in Seq(Entry)
    BY <1>1 DEF Group, NoGroup
  <1>4. QED
    BY <1>1, <1>2, <1>3 DEF Entry

LEMMA SourceTypes ==
  ASSUME NEW h \in Source
  PROVE  /\ h.telemetry \in Seq(Event) /\ Len(h.telemetry) <= MaxTelemetry /\ h.evidence \in Seq(Entry)
         /\ h.complete \in BOOLEAN /\ Len(h.telemetry) \in Nat /\ Len(h.evidence) \in Nat
         /\ \A i \in 1..Len(h.evidence) : h.evidence[i] \in Entry /\ h.evidence[i].id \in Nat
  <1>1. /\ h.telemetry \in Seq(Event) /\ Len(h.telemetry) <= MaxTelemetry /\ h.evidence \in Seq(Entry)
        /\ h.complete \in BOOLEAN
    BY DEF Source, Telemetry
  <1>2. \A i \in 1..Len(h.evidence) : h.evidence[i] \in Entry
    BY <1>1, ElementOfSeq
  <1>3. QED
    BY <1>1, <1>2 DEF Entry

LEMMA RowTypes ==
  ASSUME NEW row \in CursorRow, row # NoCursor
  PROVE  row.hash \in Source /\ row.offset \in Nat /\ row.status \in {"pending", "complete"}
  BY DEF CursorRow

LEMMA RunShapes ==
  ASSUME NEW me \in Observing
  PROVE  /\ me.pc \in {"idle", "task", "evidence", "retask", "reread", "journal"} \cup Writing
         /\ me = Unoccupied <=> me.pc = "idle"
         /\ me.pc \in {"task", "evidence"} => me.telemetry \in Telemetry /\ me.telemetry \in Seq(Event)
         /\ me.pc \in {"evidence", "reread"} => me.complete \in BOOLEAN
         /\ me.pc \in {"retask", "reread", "journal"} \cup Writing => me.row \in CursorRow
         /\ me.pc = "journal" => me.evidence \in Seq(Entry) /\ me.day \in SUBSET (1..MaxResults)
         /\ me.pc \in Writing =>
              /\ me = [pc |-> me.pc, todo |-> me.todo, day |-> me.day, seq |-> me.seq, row |-> me.row,
                       skipped |-> me.skipped]
              /\ me.todo \in SUBSET Occurrence /\ me.day \in SUBSET (1..MaxResults) /\ me.seq \in {0, 1}
              /\ me.skipped \in BOOLEAN
  BY DEF Observing, Unoccupied, Writing, Telemetry

LEMMA GoesSelf == ASSUME NEW s \in Story PROVE Goes(s, s)
  <1>1. Begins(s.telemetry, s.telemetry) /\ Begins(s.evidence, s.evidence)
    BY StoryTypes, BeginsSelf
  <1>2. QED
    BY <1>1, StoryTypes DEF Goes

LEMMA OutrunGoes ==
  ASSUME NEW s \in Story, NEW t \in Story, Goes(s, t), NEW h \in Source, NEW S, NEW T, S \subseteq T,
         Outrun(h, S, s)
  PROVE  Outrun(h, T, t)
  <1>1. /\ s.evidence \in Seq(Entry) /\ t.evidence \in Seq(Entry) /\ h.evidence \in Seq(Entry)
        /\ Len(s.evidence) \in Nat /\ Len(t.evidence) \in Nat /\ Len(h.evidence) \in Nat
        /\ s.filed \in Nat /\ t.filed \in Nat
    BY StoryTypes, SourceTypes
  <1>2. /\ Len(s.evidence) <= Len(t.evidence) /\ s.filed <= t.filed
        /\ \A i \in 1..Len(s.evidence) : i \in 1..Len(t.evidence) /\ t.evidence[i] = s.evidence[i]
    BY <1>1 DEF Goes, Begins
  <1>3. CASE /\ Begins(h.evidence, s.evidence)
             /\ \E i \in 1..Len(s.evidence) :
                  i > Len(h.evidence) /\ ~s.evidence[i].ok /\ <<"evidence", s.evidence[i].id>> \in S
    <2>1. Begins(h.evidence, t.evidence)
      BY <1>1, <1>3, BeginsOn DEF Goes
    <2>2. QED
      BY <1>2, <1>3, <2>1 DEF Outrun
  <1>4. CASE \E i \in 1..Len(h.evidence) :
               /\ h.evidence[i].id <= s.filed
               /\ \A k \in 1..Len(s.evidence) : s.evidence[k].id # h.evidence[i].id
    <2>1. PICK i \in 1..Len(h.evidence) :
            /\ h.evidence[i].id <= s.filed
            /\ \A k \in 1..Len(s.evidence) : s.evidence[k].id # h.evidence[i].id
      BY <1>4
    <2>2. h.evidence[i].id \in Nat
      BY SourceTypes
    <2>3. ASSUME NEW k \in 1..Len(t.evidence) PROVE t.evidence[k].id # h.evidence[i].id
      <3>1. CASE k \in 1..Len(s.evidence)
        BY <1>2, <2>1, <3>1
      <3>2. CASE k > Len(s.evidence)
        <4>1. t.evidence[k].id > s.filed /\ t.evidence[k].id \in Nat
          BY <3>2, StoryTypes DEF Goes
        <4>2. QED
          BY <1>1, <2>1, <2>2, <4>1
      <3>3. QED
        BY <1>1, <3>1, <3>2
    <2>4. h.evidence[i].id <= t.filed
      BY <1>1, <1>2, <2>1, <2>2
    <2>5. QED
      BY <2>3, <2>4 DEF Outrun
  <1>5. CASE /\ h.complete /\ s.group.step = "undo"
             /\ Begins(h.evidence, s.evidence) /\ Len(s.group.kept) < Len(h.evidence)
    BY <1>5 DEF Goes, Outrun
  <1>6. QED
    BY <1>3, <1>4, <1>5 DEF Outrun

LEMMA HonestGoes ==
  ASSUME NEW s \in Story, NEW t \in Story, Goes(s, t), NEW row \in CursorRow,
         NEW S, NEW T, S \subseteq T, NEW D, NEW E, D \subseteq E, HonestRow(row, S, D, s)
  PROVE  HonestRow(row, T, E, t)
  <1> SUFFICES ASSUME row # NoCursor PROVE HonestRow(row, T, E, t)
    BY DEF HonestRow
  <1>1. row.hash \in Source
    BY RowTypes
  <1>2. Outrun(row.hash, S, s) => Outrun(row.hash, T, t)
    BY <1>1, OutrunGoes
  <1>3. Covers(row.hash, row.offset, S) => Covers(row.hash, row.offset, T)
    BY DEF Covers
  <1>4. QED
    BY <1>2, <1>3 DEF HonestRow

LEMMA FreshGoes ==
  ASSUME NEW s \in Story, NEW t \in Story, Goes(s, t), NEW h \in Source, Fresh(h, s)
  PROVE  Fresh(h, t)
  <1>1. Begins(h.telemetry, t.telemetry) /\ Begins(h.evidence, t.evidence)
    BY StoryTypes, SourceTypes, BeginsOn DEF Goes, Fresh
  <1>2. QED
    BY <1>1 DEF Goes, Fresh

LEMMA RunGoes ==
  ASSUME NEW s \in Story, NEW t \in Story, Goes(s, t), NEW me \in Observing,
         NEW K, NEW L, K \subseteq L, NEW D, NEW E, D \subseteq E
  PROVE  /\ RunReads(me, s) => RunReads(me, t)
         /\ RunWrites(me, K, D, s) => RunWrites(me, L, E, t)
  <1>1. ASSUME RunReads(me, s) PROVE RunReads(me, t)
    <2>1. me.pc \in {"task", "evidence"} => Begins(me.telemetry, t.telemetry)
      <3>1. me.pc \in {"task", "evidence"} => me.telemetry \in Seq(Event) /\ Begins(me.telemetry, s.telemetry)
        BY <1>1, RunShapes DEF RunReads
      <3>2. QED
        BY <3>1, StoryTypes, BeginsOn DEF Goes
    <2>2. me.pc = "evidence" /\ me.complete => t.complete \/ t.group.step = "undo"
      BY <1>1 DEF RunReads, Goes
    <2>3. me.pc \in {"retask", "reread", "journal"} => Rereads(me.row, t)
      <3> SUFFICES ASSUME me.pc \in {"retask", "reread", "journal"}, me.row # NoCursor PROVE Rereads(me.row, t)
        BY DEF Rereads
      <3>1. me.row.hash \in Source
        BY RunShapes, RowTypes
      <3>2. Rereads(me.row, s)
        BY <1>1 DEF RunReads
      <3>3. QED
        BY <3>1, <3>2, FreshGoes DEF Rereads
    <2>4. s.group.step = "undo" => t.group.step = "undo"
      BY DEF Goes
    <2>5. me.pc = "journal" => Begins(me.evidence, t.evidence)
      <3>1. me.pc = "journal" => me.evidence \in Seq(Entry) /\ Begins(me.evidence, s.evidence)
        BY <1>1, RunShapes DEF RunReads
      <3>2. QED
        BY <3>1, StoryTypes, BeginsOn DEF Goes
    <2>6. QED
      BY <1>1, <2>1, <2>2, <2>3, <2>4, <2>5 DEF RunReads
  <1>2. ASSUME RunWrites(me, K, D, s) PROVE RunWrites(me, L, E, t)
    <2> SUFFICES ASSUME me.pc \in Writing, ~me.skipped
                 PROVE  HonestRow(me.row, L \cup me.todo, IF me.pc = "day" THEN me.day ELSE E, t)
      BY DEF RunWrites
    <2>1. HonestRow(me.row, K \cup me.todo, IF me.pc = "day" THEN me.day ELSE D, s)
      BY <1>2 DEF RunWrites
    <2>2. me.row \in CursorRow
      BY RunShapes
    <2>3. /\ K \cup me.todo \subseteq L \cup me.todo
          /\ (IF me.pc = "day" THEN me.day ELSE D) \subseteq (IF me.pc = "day" THEN me.day ELSE E)
      OBVIOUS
    <2>4. QED
      BY <2>1, <2>2, <2>3, HonestGoes
  <1>3. QED
    BY <1>1, <1>2

-----------------------------------------------------------------------------
(* HistoryBackfill: types.                                                 *)

LEMMA EntryIds ==
  ASSUME NEW ev \in Seq(Entry)
  PROVE  /\ DOMAIN ev = 1..Len(ev) /\ Len(ev) \in Nat /\ DOMAIN ev \subseteq Nat
         /\ \A i \in DOMAIN ev : ev[i] \in Entry /\ ev[i].id \in 1..MaxResults /\ ev[i].ok \in BOOLEAN
  <1>1. DOMAIN ev = 1..Len(ev) /\ Len(ev) \in Nat
    BY LenProperties
  <1>2. \A i \in DOMAIN ev : ev[i] \in Entry
    BY <1>1, ElementOfSeq
  <1>3. QED
    BY <1>1, <1>2 DEF Entry

LEMMA CandidatesTyped ==
  ASSUME NEW tel \in Telemetry, NEW range, range \subseteq 1..Len(tel), NEW ev \in Seq(Entry)
  PROVE  Candidates(tel, range, ev) \in SUBSET Occurrence
  <1>1. tel \in Seq(Event) /\ Len(tel) \in Nat /\ Len(tel) <= MaxTelemetry /\ MaxTelemetry \in Nat
    BY BackfillBounds DEF Telemetry
  <1>2. range \subseteq 1..MaxTelemetry
    BY <1>1
  <1>3. \A i \in DOMAIN ev : ev[i].id \in 1..MaxResults
    BY EntryIds
  <1>4. Failed(ev) \subseteq 1..MaxResults
    BY <1>3 DEF Failed
  <1>5. QED
    BY <1>2, <1>4 DEF Candidates, Occurrence

LEMMA QualifyingTyped ==
  ASSUME NEW done, NEW ev \in Seq(Entry)
  PROVE  Qualifying(done, ev) \in SUBSET (1..MaxResults)
  <1> DEFINE good == {j \in DOMAIN ev : ev[j].ok}
  <1>1. DOMAIN ev \subseteq Nat /\ \A i \in DOMAIN ev : ev[i].id \in 1..MaxResults
    BY EntryIds
  <1>2. CASE done /\ good # {}
    <2>1. \E n \in good : \A k \in good : n <= k
      <3>1. good \in SUBSET Nat
        BY <1>1
      <3> HIDE DEF good
      <3>2. QED
        BY <1>2, <3>1, LeastMember
    <2>2. (CHOOSE n \in good : \A k \in good : n <= k) \in good
      BY <2>1
    <2>3. ev[CHOOSE n \in good : \A k \in good : n <= k].id \in 1..MaxResults
      BY <1>1, <2>2
    <2>4. QED
      BY <1>2, <2>3 DEF Qualifying
  <1>3. QED
    BY <1>2 DEF Qualifying

LEMMA SessionTyped ==
  ASSUME BackfillTypeOK
  PROVE  Session \in Story
  BY BackfillBounds DEF BackfillTypeOK, Session, Story, Group

LEMMA BackfillStarts == BackfillInit => BackfillInv
  <1> SUFFICES ASSUME BackfillInit PROVE BackfillInv
    OBVIOUS
  <1>1. <<>> \in Seq(Event) /\ <<>> \in Seq(Entry) /\ Len(<<>>) = 0
    OBVIOUS
  <1>2. BackfillTypeOK
    <2>1. <<>> \in Telemetry /\ NoCursor \in CursorRow /\ Unoccupied \in Observing
      BY <1>1, BackfillBounds DEF Telemetry, CursorRow, Observing
    <2>2. observer \in [Observers -> Observing]
      BY <2>1 DEF BackfillInit
    <2>3. 0 \in 0..MaxResults /\ 0 \in 0..MaxObserverFaults
      BY BackfillBounds
    <2>4. QED
      BY <1>1, <2>1, <2>2, <2>3 DEF BackfillInit, BackfillTypeOK, Nobody
  <1>3. StoryOK(Session)
    BY <1>1, <1>2, SessionTyped DEF StoryOK, BackfillInit, Session, NoGroup
  <1>4. \A w \in Observers : observer[w].pc = "idle"
    <2>1. observer = [w \in Observers |-> Unoccupied]
      BY Zenon DEF BackfillInit
    <2>2. Unoccupied.pc = "idle"
      BY DEF Unoccupied
    <2>3. QED
      BY <2>1, <2>2
  <1>5. QED
    BY <1>2, <1>3, <1>4 DEF BackfillInv, HonestRow, RunReads, RunWrites, Writing, BackfillInit

LEMMA RunEdits ==
  ASSUME NEW me \in Observing, me.pc \in Writing
  PROVE  /\ [me EXCEPT !.pc = "append"] \in Observing /\ [me EXCEPT !.pc = "undo"] \in Observing
         /\ [me EXCEPT !.pc = "append", !.seq = 1] \in Observing
         /\ \A o : /\ [me EXCEPT !.todo = @ \ {o}, !.skipped = TRUE] \in Observing
                   /\ [me EXCEPT !.todo = @ \ {o}] \in Observing
                   /\ [me EXCEPT !.pc = "append", !.todo = @ \ {o}, !.skipped = TRUE] \in Observing
  <1> DEFINE Runs == [pc : Writing, todo : SUBSET Occurrence, day : SUBSET (1..MaxResults), seq : {0, 1},
                      row : CursorRow, skipped : BOOLEAN]
  <1>1. Runs \subseteq Observing
    BY DEF Observing, Writing
  <1>2. me \in Runs
    BY RunShapes
  <1> HIDE DEF Runs
  <1>3. [me EXCEPT !.pc = "append"] \in Runs /\ [me EXCEPT !.pc = "undo"] \in Runs
    BY <1>2 DEF Runs, Writing
  <1>4. [me EXCEPT !.pc = "append", !.seq = 1] \in Runs
    BY <1>2 DEF Runs, Writing
  <1>5. ASSUME NEW o
        PROVE  /\ [me EXCEPT !.todo = @ \ {o}, !.skipped = TRUE] \in Runs
               /\ [me EXCEPT !.todo = @ \ {o}] \in Runs
               /\ [me EXCEPT !.pc = "append", !.todo = @ \ {o}, !.skipped = TRUE] \in Runs
    <2>1. me.todo \ {o} \in SUBSET Occurrence
      BY <1>2 DEF Runs
    <2>2. QED
      BY <1>2, <2>1 DEF Runs, Writing
  <1>6. QED
    BY <1>1, <1>3, <1>4, <1>5

\* What a step of a run that writes finds, and what it leaves alone.
LEMMA BackfillWriters ==
  ASSUME NEW w, NEW o,
         EnsureDay(w) \/ AppendOne(w, o) \/ LineFails(w, o) \/ UndoAppend(w, o)
  PROVE  observer[w].pc \in Writing /\ UNCHANGED sessionVars /\ UNCHANGED cursor /\ UNCHANGED slipped
  <1>1. CASE EnsureDay(w)
    BY <1>1 DEF EnsureDay, ObserverAt, Writing
  <1>2. CASE AppendOne(w, o)
    BY <1>2 DEF AppendOne, ObserverAt, Writing
  <1>3. CASE LineFails(w, o)
    BY <1>3 DEF LineFails, ObserverAt, Writing
  <1>4. CASE UndoAppend(w, o)
    BY <1>4 DEF UndoAppend, ObserverAt, Writing
  <1>5. QED
    BY <1>1, <1>2, <1>3, <1>4

LEMMA BackfillTypeStep ==
  ASSUME BackfillTypeOK, [BackfillNext]_backfillVars
  PROVE  BackfillTypeOK'
  <1>1. /\ telemetry \in Telemetry /\ telemetry \in Seq(Event) /\ evidence \in Seq(Entry) /\ filed \in 0..MaxResults
        /\ complete \in BOOLEAN /\ Len(telemetry) \in Nat /\ Len(telemetry) <= MaxTelemetry
        /\ {PageLimit, MaxTelemetry, MaxResults, MaxObserverFaults} \subseteq Nat
    BY BackfillBounds DEF BackfillTypeOK, Telemetry
  <1> DEFINE SessionTypes ==
        /\ telemetry \in Telemetry /\ evidence \in Seq(Entry) /\ filed \in 0..MaxResults /\ complete \in BOOLEAN
        /\ group \in {NoGroup} \cup [step : {"file", "undo"}, ok : BOOLEAN, kept : Seq(Entry)]
  <1>2. SessionTypes
    BY DEF BackfillTypeOK
  <1>3. ASSUME UNCHANGED sessionVars PROVE SessionTypes'
    BY <1>2, <1>3 DEF sessionVars
  <1>4. ASSUME UNCHANGED <<derivedVars, observer>>, SessionTypes', slipped' \in BOOLEAN,
               observerFaults' \in 0..MaxObserverFaults
        PROVE  BackfillTypeOK'
    BY <1>4 DEF BackfillTypeOK, derivedVars
  <1>5. ASSUME NEW w \in Observers, NEW rec \in Observing, Turn(w, rec)
        PROVE  observer' \in [Observers -> Observing]
    BY <1>5 DEF BackfillTypeOK, Turn
  <1>6. ASSUME NEW w \in Observers, NEW rec \in Observing, Turn(w, rec), Reads
        PROVE  BackfillTypeOK'
    BY <1>3, <1>5, <1>6 DEF BackfillTypeOK, Reads, derivedVars
  <1>7. \A w \in Observers : observer[w] \in Observing
    BY DEF BackfillTypeOK
  <1>8. Unoccupied \in Observing
    BY DEF Observing
  <1>9. \A ok \in BOOLEAN : FileResult(ok) => filed' \in 0..MaxResults /\ evidence' \in Seq(Entry)
    <2> SUFFICES ASSUME NEW ok \in BOOLEAN, FileResult(ok) PROVE filed' \in 0..MaxResults /\ evidence' \in Seq(Entry)
      OBVIOUS
    <2>1. filed + 1 \in 1..MaxResults
      BY <1>1 DEF FileResult
    <2>2. [id |-> filed + 1, ok |-> ok] \in Entry
      BY <2>1 DEF Entry
    <2>3. Append(evidence, [id |-> filed + 1, ok |-> ok]) \in Seq(Entry)
      BY <1>1, <2>2, AppendProperties
    <2>4. QED
      BY <2>1, <2>3, <1>1 DEF FileResult
  <1>10. ASSUME NEW kind \in Event, ReportEvent(kind) PROVE BackfillTypeOK'
    <2>1. telemetry' \in Seq(Event) /\ Len(telemetry') = Len(telemetry) + 1
      BY <1>1, <1>10, AppendProperties DEF ReportEvent
    <2>2. telemetry' \in Telemetry
      BY <1>1, <1>10, <2>1 DEF Telemetry, ReportEvent
    <2>3. SessionTypes'
      BY <1>2, <1>10, <2>2 DEF ReportEvent
    <2>4. QED
      BY <1>4, <1>10, <2>3 DEF ReportEvent, BackfillTypeOK
  <1>11. ASSUME NEW ok \in BOOLEAN, BatchResult(ok) PROVE BackfillTypeOK'
    <2>1. group' \in {NoGroup} \cup [step : {"file", "undo"}, ok : BOOLEAN, kept : Seq(Entry)]
      BY <1>2, <1>11 DEF BatchResult
    <2>2. SessionTypes'
      BY <1>2, <1>9, <1>11, <2>1 DEF BatchResult
    <2>3. QED
      BY <1>4, <1>11, <2>2 DEF BatchResult, BackfillTypeOK
  <1>12. ASSUME NEW ok \in BOOLEAN, NEW finishes \in BOOLEAN, Result(ok, finishes) PROVE BackfillTypeOK'
    <2>1. SessionTypes'
      BY <1>2, <1>9, <1>12 DEF Result
    <2>2. QED
      BY <1>4, <1>12, <2>1 DEF Result, BackfillTypeOK
  <1>13. ASSUME BatchRows \/ BatchEnd \/ BatchUndo \/ BatchUndoEvidence PROVE BackfillTypeOK'
    <2>1. CASE BatchRows
      BY <1>2, <1>4, <2>1 DEF BatchRows, BackfillTypeOK
    <2>2. CASE BatchEnd
      BY <1>2, <1>4, <2>2 DEF BatchEnd, BackfillTypeOK
    <2>3. CASE BatchUndo
      <3>1. group \in [step : {"file", "undo"}, ok : BOOLEAN, kept : Seq(Entry)]
        BY <1>2, <2>3 DEF BatchUndo, NoGroup
      <3>2. SessionTypes'
        BY <1>2, <2>3, <3>1 DEF BatchUndo
      <3>3. observerFaults' \in 0..MaxObserverFaults
        BY <1>1, <2>3 DEF BatchUndo, BackfillTypeOK
      <3>4. QED
        BY <1>4, <2>3, <3>2, <3>3 DEF BatchUndo, BackfillTypeOK
    <2>4. CASE BatchUndoEvidence
      <3>1. group \in [step : {"file", "undo"}, ok : BOOLEAN, kept : Seq(Entry)]
        BY <1>2, <2>4 DEF BatchUndoEvidence, NoGroup
      <3>2. SessionTypes'
        BY <1>2, <2>4, <3>1 DEF BatchUndoEvidence
      <3>3. slipped' \in BOOLEAN
        BY <2>4 DEF BatchUndoEvidence, BackfillTypeOK
      <3>4. QED
        BY <1>4, <2>4, <3>2, <3>3 DEF BatchUndoEvidence, BackfillTypeOK
    <2>5. QED
      BY <1>13, <2>1, <2>2, <2>3, <2>4
  <1> HIDE DEF SessionTypes
  <1>14. ASSUME NEW w \in Observers,
                Scan(w) \/ ReadTasks(w) \/ ObserveFinished(w) \/ Retask(w) \/ Reread(w)
         PROVE  BackfillTypeOK'
    <2> DEFINE me == observer[w]
    <2>1. CASE Scan(w)
      <3>1. [pc |-> "task", telemetry |-> telemetry] \in Observing
        BY <1>1 DEF Observing
      <3>2. QED
        BY <1>6, <2>1, <3>1 DEF Scan
    <2>2. CASE ReadTasks(w)
      <3>1. me.telemetry \in Telemetry
        BY <1>7, <2>2, RunShapes DEF ReadTasks, ObserverAt
      <3>2. [pc |-> "evidence", telemetry |-> me.telemetry, complete |-> complete] \in Observing
        BY <1>1, <3>1 DEF Observing
      <3>3. QED
        BY <1>6, <2>2, <3>2 DEF ReadTasks
    <2>3. CASE ObserveFinished(w)
      <3>1. [pc |-> "retask", row |-> NoCursor] \in Observing
        BY DEF Observing, CursorRow
      <3>2. QED
        BY <1>6, <2>3, <3>1 DEF ObserveFinished
    <2>4. CASE Retask(w)
      <3>1. me.row \in CursorRow
        BY <1>7, <2>4, RunShapes DEF Retask, ObserverAt
      <3>2. [pc |-> "reread", row |-> me.row, complete |-> complete] \in Observing
        BY <1>1, <3>1 DEF Observing
      <3>3. QED
        BY <1>6, <1>8, <2>4, <3>2 DEF Retask
    <2>5. CASE Reread(w)
      <3>1. me.row \in CursorRow
        BY <1>7, <2>5, RunShapes DEF Reread, ObserverAt
      <3>2. [pc |-> "journal", row |-> me.row, evidence |-> evidence,
             day |-> Qualifying(me.complete, evidence)] \in Observing
        BY <1>1, <3>1, QualifyingTyped DEF Observing
      <3>3. QED
        BY <1>6, <2>5, <3>2 DEF Reread
    <2>6. QED
      BY <1>14, <2>1, <2>2, <2>3, <2>4, <2>5
  <1>15. ASSUME NEW w \in Observers, ReadEvidence(w) PROVE BackfillTypeOK'
    <2> DEFINE tel  == observer[w].telemetry
               done == observer[w].complete
               hash == [telemetry |-> tel, evidence |-> evidence, complete |-> done]
               from == Offset(hash)
               to   == IF from + PageLimit < Len(tel) THEN from + PageLimit ELSE Len(tel)
               row  == [status |-> IF to = Len(tel) THEN "complete" ELSE "pending", hash |-> hash, offset |-> to]
               again == [pc |-> "retask", row |-> [row EXCEPT !.status = "complete", !.offset = Len(tel)]]
    <2>1. tel \in Telemetry /\ done \in BOOLEAN
      BY <1>7, <1>15, RunShapes DEF ReadEvidence, ObserverAt
    <2>2. hash \in Source /\ Len(tel) \in Nat
      BY <1>1, <2>1 DEF Source, Telemetry
    <2>3. from \in Nat
      BY DEF Offset, BackfillTypeOK, CursorRow, NoCursor
    <2>4. to \in Nat /\ from+1..to \subseteq 1..Len(tel)
      <3>1. PageLimit \in Nat /\ Len(tel) \in Nat /\ from \in Nat
        BY <1>1, <2>2, <2>3
      <3> HIDE DEF from, tel
      <3>2. QED
        BY ONLY <3>1
    <2>5. row \in CursorRow /\ [row EXCEPT !.status = "complete", !.offset = Len(tel)] \in CursorRow
      <3> HIDE DEF hash, to, tel
      <3>1. QED
        BY <2>2, <2>4 DEF CursorRow
    <2>6. again \in Observing
      BY <2>5 DEF Observing
    <2>7. Ready("day", Candidates(tel, from+1..to, evidence), Qualifying(done, evidence), row) \in Observing
      <3>1. /\ Candidates(tel, from+1..to, evidence) \in SUBSET Occurrence
            /\ Qualifying(done, evidence) \in SUBSET (1..MaxResults)
        BY <1>1, <2>1, <2>4, CandidatesTyped, QualifyingTyped
      <3> HIDE DEF row, tel, from, to, done
      <3>2. QED
        BY <2>5, <3>1 DEF Observing, Ready
    <2>8. Turn(w, IF cursor.status = "complete" /\ cursor.hash = hash THEN Unoccupied
                  ELSE IF Len(tel) > PageLimit THEN
                    Ready("day", Candidates(tel, from+1..to, evidence), Qualifying(done, evidence), row)
                  ELSE again) /\ Reads
      BY <1>15 DEF ReadEvidence
    <2> HIDE DEF row, tel, from, to, done, hash, again
    <2>9. QED
      BY <1>6, <1>8, <2>6, <2>7, <2>8
  <1>16. ASSUME NEW w \in Observers, ReadJournal(w) PROVE BackfillTypeOK'
    <2> DEFINE me == observer[w]
               todo == Candidates(telemetry, 1..Len(telemetry), me.evidence) \ Known
    <2>1. me.row \in CursorRow /\ me.evidence \in Seq(Entry) /\ me.day \in SUBSET (1..MaxResults)
      BY <1>7, <1>16, RunShapes DEF ReadJournal, ObserverAt
    <2>2. todo \in SUBSET Occurrence
      BY <1>1, <2>1, CandidatesTyped
    <2>3. /\ Ready("done", {}, {}, me.row) \in Observing
          /\ Ready("day", todo, me.day, me.row) \in Observing
      <3> HIDE DEF todo
      <3>1. QED
        BY <2>1, <2>2 DEF Observing, Ready
    <2>4. observer' \in [Observers -> Observing]
      <3>1. Turn(w, IF Len(telemetry) > PageLimit THEN Unoccupied
                    ELSE IF todo = {} /\ me.day = {} THEN Ready("done", {}, {}, me.row)
                    ELSE Ready("day", todo, me.day, me.row))
        BY <1>16 DEF ReadJournal
      <3> HIDE DEF todo, me
      <3>2. QED
        BY <1>5, <1>8, <2>3, <3>1
    <2>5. UNCHANGED sessionVars /\ UNCHANGED derivedVars /\ UNCHANGED observerFaults
      BY <1>16, Zenon DEF ReadJournal
    <2>6. slipped' \in BOOLEAN
      BY <1>16 DEF ReadJournal, BackfillTypeOK
    <2>7. SessionTypes'
      BY <1>3, <2>5, Zenon
    <2>8. QED
      BY <2>4, <2>5, <2>6, <2>7 DEF BackfillTypeOK, derivedVars, SessionTypes
  <1>17. ASSUME NEW w \in Observers, observer[w].pc \in Writing
         PROVE  /\ [observer[w] EXCEPT !.pc = "append"] \in Observing
                /\ [observer[w] EXCEPT !.pc = "undo"] \in Observing
                /\ [observer[w] EXCEPT !.pc = "append", !.seq = 1] \in Observing
                /\ observer[w].seq \in {0, 1} /\ observer[w].day \in SUBSET (1..MaxResults)
                /\ observer[w].row \in CursorRow
                /\ \A o : /\ [observer[w] EXCEPT !.todo = @ \ {o}, !.skipped = TRUE] \in Observing
                          /\ [observer[w] EXCEPT !.todo = @ \ {o}] \in Observing
                          /\ [observer[w] EXCEPT !.pc = "append", !.todo = @ \ {o}, !.skipped = TRUE] \in Observing
    BY <1>7, <1>17, RunEdits, RunShapes
  <1>18. ASSUME NEW w \in Observers, EnsureDay(w) PROVE BackfillTypeOK'
    <2> DEFINE me == observer[w]
    <2>1. me.pc \in Writing /\ SessionTypes' /\ UNCHANGED cursor /\ UNCHANGED slipped
      BY <1>3, <1>18, BackfillWriters, Zenon
    <2>2. /\ [me EXCEPT !.pc = "append"] \in Observing /\ [me EXCEPT !.pc = "append", !.seq = 1] \in Observing
          /\ Unoccupied \in Observing /\ me.day \in SUBSET (1..MaxResults)
      BY <1>8, <1>17, <2>1
    <2> HIDE DEF me
    <2>3. \E rec \in Observing : Turn(w, rec)
      BY <1>18, <2>2 DEF EnsureDay, me
    <2>4. observer' \in [Observers -> Observing]
      BY <1>5, <2>3
    <2>5. productionDays' = productionDays \/ productionDays' = productionDays \cup me.day
      BY <1>18 DEF EnsureDay, me
    <2>6. productionDays' \subseteq 1..MaxResults
      BY <2>2, <2>5 DEF BackfillTypeOK
    <2>7. UNCHANGED <<observations, writing, observerFaults>>
      BY <1>18 DEF EnsureDay
    <2>8. QED
      BY <2>1, <2>4, <2>6, <2>7 DEF BackfillTypeOK, SessionTypes
  <1>19. ASSUME NEW w \in Observers, NEW o \in Occurrence,
                AppendOne(w, o) \/ LineFails(w, o) \/ UndoAppend(w, o)
         PROVE  BackfillTypeOK'
    <2> DEFINE me == observer[w]
               line == <<o, observer[w].seq>>
    <2>1. me.pc \in Writing /\ SessionTypes' /\ UNCHANGED cursor /\ UNCHANGED slipped
      BY <1>3, <1>19, BackfillWriters, Zenon
    <2>2. /\ [me EXCEPT !.todo = @ \ {o}, !.skipped = TRUE] \in Observing
          /\ [me EXCEPT !.todo = @ \ {o}] \in Observing /\ [me EXCEPT !.pc = "undo"] \in Observing
          /\ [me EXCEPT !.pc = "append", !.todo = @ \ {o}, !.skipped = TRUE] \in Observing
          /\ line \in Occurrence \X {0, 1}
      BY <1>17, <2>1
    <2> HIDE DEF me, line
    <2>3. CASE AppendOne(w, o)
      <3>1. \E rec \in Observing : Turn(w, rec)
        BY <2>2, <2>3 DEF AppendOne, Skip, Took, me
      <3>2. observer' \in [Observers -> Observing]
        BY <1>5, <3>1
      <3>3. /\ observations' \in {observations, observations \cup {line}}
            /\ UNCHANGED <<writing, productionDays, observerFaults>>
        BY <2>3 DEF AppendOne, line
      <3>4. QED
        BY <2>1, <2>2, <3>2, <3>3 DEF BackfillTypeOK, SessionTypes
    <2>4. CASE LineFails(w, o)
      <3>1. Turn(w, [me EXCEPT !.pc = "undo"])
        BY <2>4 DEF LineFails, me
      <3>2. observer' \in [Observers -> Observing]
        BY <1>5, <2>2, <3>1
      <3>3. /\ observations' = observations \cup {line} /\ writing' = {<<w, o>>}
            /\ observerFaults < MaxObserverFaults /\ observerFaults' = observerFaults + 1
            /\ UNCHANGED productionDays
        BY <2>4 DEF LineFails, line
      <3>4. observerFaults' \in 0..MaxObserverFaults
        BY <1>1, <3>3 DEF BackfillTypeOK
      <3>5. QED
        BY <2>1, <2>2, <3>2, <3>3, <3>4 DEF BackfillTypeOK, SessionTypes
    <2>5. CASE UndoAppend(w, o)
      <3>1. Turn(w, [me EXCEPT !.pc = "append", !.todo = @ \ {o}, !.skipped = TRUE])
        BY <2>5 DEF UndoAppend, me
      <3>2. observer' \in [Observers -> Observing]
        BY <1>5, <2>2, <3>1
      <3>3. /\ observations' = observations \ {line} /\ writing' = Nobody
            /\ UNCHANGED <<productionDays, observerFaults>>
        BY <2>5 DEF UndoAppend, line
      <3>4. QED
        BY <2>1, <3>2, <3>3 DEF BackfillTypeOK, SessionTypes, Nobody
    <2>6. QED
      BY <1>19, <2>3, <2>4, <2>5
  <1>20. ASSUME NEW w \in Observers, Finish(w) \/ Quit(w) PROVE BackfillTypeOK'
    <2>1. Turn(w, Unoccupied) /\ UNCHANGED sessionVars /\ UNCHANGED <<observations, productionDays, slipped>>
      BY <1>20 DEF Finish, Quit
    <2>2. observer' \in [Observers -> Observing] /\ SessionTypes'
      BY <1>3, <1>5, <1>8, <2>1
    <2>3. CASE Finish(w)
      <3>1. observer[w].pc \in Writing
        BY <2>3 DEF Finish, Writing
      <3>2. observer[w].row \in CursorRow
        BY <1>17, <3>1
      <3>3. cursor' \in {cursor, observer[w].row} /\ UNCHANGED <<writing, observerFaults>>
        BY <2>3 DEF Finish
      <3>4. QED
        BY <2>1, <2>2, <3>2, <3>3 DEF BackfillTypeOK, SessionTypes
    <2>4. CASE Quit(w)
      <3>1. /\ observerFaults < MaxObserverFaults /\ observerFaults' = observerFaults + 1
            /\ writing' \subseteq writing /\ UNCHANGED cursor
        BY <2>4 DEF Quit
      <3>2. observerFaults' \in 0..MaxObserverFaults
        BY <1>1, <3>1 DEF BackfillTypeOK
      <3>3. QED
        BY <2>1, <2>2, <3>1, <3>2 DEF BackfillTypeOK, SessionTypes
    <2>5. QED
      BY <1>20, <2>3, <2>4
  <1>21. CASE UNCHANGED backfillVars
    BY <1>21 DEF backfillVars, BackfillTypeOK
  <1>22. QED
    BY <1>10, <1>11, <1>12, <1>13, <1>14, <1>15, <1>16, <1>18, <1>19, <1>20, <1>21 DEF BackfillNext

-----------------------------------------------------------------------------
(* HistoryBackfill: the steps of the session.                              *)

LEMMA SessionFields ==
  /\ Session.telemetry = telemetry /\ Session.evidence = evidence /\ Session.filed = filed
  /\ Session.complete = complete /\ Session.group = group
  BY DEF Session

LEMMA FiledResult ==
  ASSUME BackfillTypeOK, StoryOK(Session), NEW ok \in BOOLEAN, FileResult(ok)
  PROVE  /\ Begins(evidence, evidence') /\ filed <= filed' /\ evidence' \in Seq(Entry)
         /\ Len(evidence) \in Nat /\ Len(evidence') = Len(evidence) + 1
         /\ \A k \in 1..Len(evidence') : k > Len(evidence) => evidence'[k].id > filed
         /\ \A i \in 1..Len(evidence') : evidence'[i].id <= filed'
         /\ \A i, k \in 1..Len(evidence') : i < k => evidence'[i].id < evidence'[k].id
  <1> DEFINE e == [id |-> filed + 1, ok |-> ok]
  <1>1. filed \in 0..MaxResults /\ evidence \in Seq(Entry) /\ MaxResults \in Nat
    BY BackfillBounds DEF BackfillTypeOK
  <1>2. e \in Entry /\ e.id = filed + 1 /\ filed' = filed + 1 /\ evidence' = Append(evidence, e)
    BY <1>1 DEF FileResult, Entry
  <1> HIDE DEF e
  <1>3. /\ evidence' \in Seq(Entry) /\ Len(evidence) \in Nat /\ Len(evidence') = Len(evidence) + 1
        /\ \A i \in 1..Len(evidence) : evidence'[i] = evidence[i]
        /\ evidence'[Len(evidence) + 1] = e
    BY <1>1, <1>2, AppendProperties
  <1>4. \A i \in 1..Len(evidence) : evidence[i].id \in Nat /\ evidence[i].id <= filed
    BY <1>1, EntryIds, SessionFields DEF StoryOK
  <1>5. \A i, k \in 1..Len(evidence) : i < k => evidence[i].id < evidence[k].id
    BY SessionFields DEF StoryOK
  <1>6. \A i \in 1..Len(evidence') : i \in 1..Len(evidence) \/ i = Len(evidence) + 1
    BY <1>3
  <1>7. \A i \in 1..Len(evidence') : evidence'[i].id \in Nat /\ evidence'[i].id <= filed'
    BY <1>1, <1>2, <1>3, <1>4, <1>6
  <1>8. ASSUME NEW i \in 1..Len(evidence'), NEW k \in 1..Len(evidence'), i < k
        PROVE  evidence'[i].id < evidence'[k].id
    <2>1. i \in 1..Len(evidence)
      BY <1>3, <1>8
    <2>2. CASE k \in 1..Len(evidence)
      BY <1>3, <1>5, <1>8, <2>1, <2>2
    <2>3. CASE k = Len(evidence) + 1
      <3>1. evidence'[i].id \in Nat /\ evidence'[i].id <= filed /\ evidence'[k].id = filed + 1
        BY <1>2, <1>3, <1>4, <2>1, <2>3
      <3>2. QED
        BY <1>1, <3>1
    <2>4. QED
      BY <1>6, <2>2, <2>3
  <1>9. \A k \in 1..Len(evidence') : k > Len(evidence) => evidence'[k].id > filed
    BY <1>1, <1>2, <1>3, <1>6
  <1>10. QED
    BY <1>1, <1>2, <1>3, <1>7, <1>8, <1>9 DEF Begins

\* Steps of the session that take nothing back.
LEMMA SessionGoes ==
  ASSUME BackfillTypeOK, BackfillTypeOK', StoryOK(Session), Goes(Session, Session'), StoryOK(Session'),
         BackfillInv, UNCHANGED <<derivedVars, observer, slipped>>
  PROVE  BackfillInv'
  <1>1. Session \in Story /\ Session' \in Story
    BY DEF StoryOK
  <1>2. KeptLines' = KeptLines /\ productionDays' = productionDays /\ cursor' = cursor
    BY DEF KeptLines, Known, derivedVars
  <1>3. ASSUME ~slipped' PROVE HonestRow(cursor', KeptLines', productionDays', Session')
    <2>1. HonestRow(cursor, KeptLines, productionDays, Session) /\ cursor \in CursorRow
      BY <1>3 DEF BackfillInv, BackfillTypeOK
    <2>2. QED
      BY <1>1, <1>2, <2>1, HonestGoes
  <1>4. ASSUME ~slipped', NEW w \in Observers
        PROVE  RunReads(observer'[w], Session') /\ RunWrites(observer'[w], KeptLines', productionDays', Session')
    <2>1. /\ RunReads(observer[w], Session) /\ RunWrites(observer[w], KeptLines, productionDays, Session)
          /\ observer[w] \in Observing
      BY <1>4 DEF BackfillInv, BackfillTypeOK
    <2>2. QED
      BY <1>1, <1>2, <2>1, RunGoes
  <1>5. QED
    BY <1>3, <1>4 DEF BackfillInv

LEMMA SessionSteps ==
  ASSUME BackfillInv, BackfillTypeOK',
         \/ \E kind \in Event : ReportEvent(kind)
         \/ \E ok \in BOOLEAN : BatchResult(ok) \/ \E finishes \in BOOLEAN : Result(ok, finishes)
         \/ BatchRows \/ BatchEnd \/ BatchUndo
  PROVE  BackfillInv'
  <1>1. BackfillTypeOK /\ StoryOK(Session)
    BY DEF BackfillInv
  <1>2. /\ telemetry \in Seq(Event) /\ evidence \in Seq(Entry) /\ filed \in Nat /\ complete \in BOOLEAN
        /\ group \in Group /\ (group.step # "none" => group.kept \in Seq(Entry)) /\ Session \in Story
    BY <1>1, StoryTypes, SessionFields DEF StoryOK
  <1>3. Session' \in Story
    BY BackfillBounds DEF BackfillTypeOK, Session, Story, Group
  <1>4. /\ Session'.telemetry = telemetry' /\ Session'.evidence = evidence' /\ Session'.filed = filed'
        /\ Session'.complete = complete' /\ Session'.group = group'
    BY DEF Session
  <1>5. /\ \A i \in 1..Len(evidence) : evidence[i].id <= filed
        /\ \A i, k \in 1..Len(evidence) : i < k => evidence[i].id < evidence[k].id
        /\ group.step # "none" => Begins(group.kept, evidence) /\ Len(group.kept) < Len(evidence)
        /\ group.step = "undo" => ~complete
    BY <1>1, SessionFields DEF StoryOK
  <1>6. Begins(telemetry, telemetry) /\ Begins(evidence, evidence) /\ Len(evidence) \in Nat
    BY <1>2, BeginsSelf
  <1>7. ASSUME NEW kind \in Event, ReportEvent(kind)
        PROVE  Goes(Session, Session') /\ StoryOK(Session') /\ UNCHANGED <<derivedVars, observer, slipped>>
    <2>1. Begins(telemetry, telemetry')
      BY <1>2, <1>7, AppendProperties DEF ReportEvent, Begins
    <2>2. UNCHANGED <<evidence, filed, complete, group>>
      BY <1>7 DEF ReportEvent
    <2>3. Goes(Session, Session')
      BY <1>2, <1>4, <1>6, <2>1, <2>2, SessionFields DEF Goes
    <2>4. StoryOK(Session')
      BY <1>3, <1>4, <1>5, <2>2 DEF StoryOK
    <2>5. QED
      BY <1>7, <2>3, <2>4 DEF ReportEvent
  <1>8. ASSUME NEW ok \in BOOLEAN, NEW finishes \in BOOLEAN, Result(ok, finishes)
        PROVE  Goes(Session, Session') /\ StoryOK(Session') /\ UNCHANGED <<derivedVars, observer, slipped>>
    <2>1. FileResult(ok) /\ ~complete /\ group = NoGroup /\ UNCHANGED <<telemetry, group>>
      BY <1>8 DEF Result
    <2>2. group.step = "none"
      BY <2>1 DEF NoGroup
    <2>3. Goes(Session, Session')
      BY <1>1, <1>4, <1>6, <2>1, <2>2, SessionFields, FiledResult DEF Goes
    <2>4. StoryOK(Session')
      BY <1>1, <1>3, <1>4, <2>1, <2>2, FiledResult DEF StoryOK
    <2>5. QED
      BY <1>8, <2>3, <2>4 DEF Result
  <1>9. ASSUME NEW ok \in BOOLEAN, BatchResult(ok)
        PROVE  Goes(Session, Session') /\ StoryOK(Session') /\ UNCHANGED <<derivedVars, observer, slipped>>
    <2>1. FileResult(ok) /\ ~complete /\ UNCHANGED <<telemetry, complete>>
      BY <1>9 DEF BatchResult
    <2>2. group.step # "undo" /\ group'.step # "undo"
      BY <1>9 DEF BatchResult, NoGroup
    <2>3. Goes(Session, Session')
      BY <1>1, <1>4, <1>6, <2>1, <2>2, SessionFields, FiledResult DEF Goes
    <2>4. Begins(group'.kept, evidence') /\ Len(group'.kept) < Len(evidence')
      <3>1. CASE group'.kept = evidence
        BY <1>1, <2>1, <3>1, FiledResult
      <3>2. CASE group.step = "file" /\ group' = group
        <4>1. /\ group.kept \in Seq(Entry) /\ Begins(group.kept, evidence) /\ Len(group.kept) < Len(evidence)
              /\ Len(group.kept) \in Nat
          BY <1>2, <1>5, <3>2
        <4>2. /\ Begins(evidence, evidence') /\ evidence' \in Seq(Entry) /\ Len(evidence) \in Nat
              /\ Len(evidence') = Len(evidence) + 1
          BY <1>1, <2>1, FiledResult
        <4>3. Begins(group.kept, evidence')
          BY <1>2, <4>1, <4>2, BeginsOn
        <4>4. QED
          BY <3>2, <4>1, <4>2, <4>3
      <3>3. QED
        BY <1>9, <3>1, <3>2 DEF BatchResult
    <2>5. StoryOK(Session')
      BY <1>1, <1>3, <1>4, <2>1, <2>2, <2>4, FiledResult DEF StoryOK
    <2>6. QED
      BY <1>9, <2>3, <2>5 DEF BatchResult
  <1>10. ASSUME BatchRows \/ BatchEnd \/ BatchUndo
         PROVE  Goes(Session, Session') /\ StoryOK(Session') /\ UNCHANGED <<derivedVars, observer, slipped>>
    <2>1. /\ UNCHANGED <<telemetry, evidence, filed, derivedVars, observer, slipped>> /\ group.step = "file"
          /\ complete' = complete \/ complete' \/ group'.step = "undo"
          /\ group'.step = "undo" => ~complete'
          /\ group'.step # "none" => group'.kept = group.kept
      <3>1. CASE BatchRows
        BY <3>1 DEF BatchRows
      <3>2. CASE BatchEnd
        BY <3>2 DEF BatchEnd, NoGroup
      <3>3. CASE BatchUndo
        <4>1. group' = [group EXCEPT !.step = "undo"] /\ group \in [step : {"file", "undo"}, ok : BOOLEAN, kept : Seq(Entry)]
          BY <1>2, <3>3 DEF BatchUndo, Group, NoGroup
        <4>2. group'.step = "undo" /\ group'.kept = group.kept
          BY <4>1
        <4>3. QED
          BY <3>3, <4>2 DEF BatchUndo
      <3>4. QED
        BY <1>10, <3>1, <3>2, <3>3
    <2>2. Goes(Session, Session')
      BY <1>2, <1>4, <1>6, <2>1, SessionFields DEF Goes
    <2>3. StoryOK(Session')
      BY <1>3, <1>4, <1>5, <2>1 DEF StoryOK
    <2>4. QED
      BY <2>1, <2>2, <2>3
  <1>11. QED
    BY <1>1, <1>7, <1>8, <1>9, <1>10, SessionGoes

LEMMA UndoneEvidence ==
  ASSUME BackfillInv, BackfillTypeOK', BatchUndoEvidence
  PROVE  BackfillInv'
  <1>1. BackfillTypeOK /\ StoryOK(Session)
    BY DEF BackfillInv
  <1>2. /\ evidence \in Seq(Entry) /\ filed \in Nat /\ group.kept \in Seq(Entry) /\ Session \in Story
        /\ Len(evidence) \in Nat /\ Len(group.kept) \in Nat
    BY <1>1, StoryTypes, SessionFields DEF StoryOK, BatchUndoEvidence
  <1>3. Session' \in Story
    BY BackfillBounds DEF BackfillTypeOK, Session, Story, Group
  <1>4. /\ Session'.evidence = group.kept /\ Session'.filed = filed /\ Session'.group = NoGroup
        /\ group.step = "undo" /\ UNCHANGED <<observations, writing, productionDays, cursor, observer>>
    BY DEF Session, BatchUndoEvidence, derivedVars
  <1>5. /\ \A i \in 1..Len(evidence) : evidence[i].id <= filed /\ evidence[i].id \in Nat
        /\ \A i, k \in 1..Len(evidence) : i < k => evidence[i].id < evidence[k].id
        /\ Begins(group.kept, evidence) /\ Len(group.kept) < Len(evidence)
    <2>1. /\ \A i \in 1..Len(evidence) : evidence[i].id <= filed
          /\ \A i, k \in 1..Len(evidence) : i < k => evidence[i].id < evidence[k].id
      BY <1>1, SessionFields DEF StoryOK
    <2>2. Begins(group.kept, evidence) /\ Len(group.kept) < Len(evidence)
      BY <1>1, <1>4, SessionFields DEF StoryOK
    <2>3. \A i \in 1..Len(evidence) : evidence[i].id \in 1..MaxResults /\ MaxResults \in Nat
      BY <1>2, EntryIds, BackfillBounds
    <2>4. \A i \in 1..Len(evidence) : evidence[i].id \in Nat
      BY <2>3
    <2>5. QED
      BY <2>1, <2>2, <2>4
  <1>6. \A i \in 1..Len(group.kept) : i \in 1..Len(evidence) /\ group.kept[i] = evidence[i]
    BY <1>2, <1>5 DEF Begins
  <1>7. StoryOK(Session')
    <2>1. \A i \in 1..Len(group.kept) : group.kept[i].id <= filed
      BY <1>5, <1>6
    <2>2. \A i, k \in 1..Len(group.kept) : i < k => group.kept[i].id < group.kept[k].id
      BY <1>5, <1>6
    <2>3. Session'.group.step = "none"
      BY <1>4 DEF NoGroup
    <2>4. QED
      BY <1>3, <1>4, <2>1, <2>2, <2>3 DEF StoryOK
  <1>8. KeptLines' = KeptLines /\ KeptLines \subseteq Known
    BY <1>4 DEF KeptLines, Known
  <1>9. \A i \in 1..Len(evidence) : i > Len(group.kept) =>
          \A k \in 1..Len(group.kept) : group.kept[k].id # evidence[i].id
    <2> SUFFICES ASSUME NEW i \in 1..Len(evidence), i > Len(group.kept), NEW k \in 1..Len(group.kept)
                 PROVE  group.kept[k].id # evidence[i].id
      OBVIOUS
    <2>1. group.kept[k] = evidence[k] /\ k \in 1..Len(evidence) /\ k < i
      BY <1>2, <1>6
    <2>2. evidence[k].id < evidence[i].id /\ evidence[k].id \in Nat /\ evidence[i].id \in Nat
      BY <1>5, <2>1
    <2>3. QED
      BY <2>1, <2>2
  <1>10. ASSUME ~slipped' PROVE HonestRow(cursor', KeptLines', productionDays', Session')
    <2>1. /\ HonestRow(cursor, KeptLines, productionDays, Session) /\ cursor \in CursorRow
          /\ \A i \in Taken : <<"evidence", i>> \notin Known
      BY <1>10 DEF BackfillInv, BackfillTypeOK, BatchUndoEvidence
    <2> DEFINE h == cursor.hash
    <2>2. ASSUME cursor # NoCursor, Outrun(h, KeptLines, Session) PROVE Outrun(h, KeptLines, Session')
      <3>1. h \in Source /\ h.evidence \in Seq(Entry) /\ Len(h.evidence) \in Nat
        BY <2>1, <2>2, RowTypes, SourceTypes
      <3>2. CASE /\ Begins(h.evidence, evidence)
                 /\ \E i \in 1..Len(evidence) :
                      i > Len(h.evidence) /\ ~evidence[i].ok /\ <<"evidence", evidence[i].id>> \in KeptLines
        <4>1. PICK i \in 1..Len(evidence) :
                i > Len(h.evidence) /\ ~evidence[i].ok /\ <<"evidence", evidence[i].id>> \in KeptLines
          BY <3>2
        <4>2. evidence[i].id \notin Taken
          BY <1>8, <2>1, <4>1
        <4>3. i <= Len(group.kept)
          <5>1. DOMAIN evidence = 1..Len(evidence) /\ DOMAIN group.kept = 1..Len(group.kept)
            BY <1>2, LenProperties
          <5>2. ~(i > Len(group.kept))
            BY <1>9, <4>2, <5>1 DEF Taken
          <5>3. QED
            BY <1>2, <5>2
        <4>4. i \in 1..Len(group.kept) /\ group.kept[i] = evidence[i]
          BY <1>2, <1>6, <4>3
        <4>5. Begins(h.evidence, group.kept)
          <5>1. Len(h.evidence) <= Len(group.kept)
            BY <1>2, <3>1, <4>1, <4>3
          <5>2. \A k \in 1..Len(h.evidence) : h.evidence[k] = group.kept[k]
            BY <1>2, <1>6, <3>1, <3>2, <5>1, SMTT(30) DEF Begins
          <5>3. QED
            BY <5>1, <5>2 DEF Begins
        <4>6. QED
          BY <1>4, <4>1, <4>4, <4>5 DEF Outrun
      <3>3. CASE \E i \in 1..Len(h.evidence) :
                   /\ h.evidence[i].id <= filed
                   /\ \A k \in 1..Len(evidence) : evidence[k].id # h.evidence[i].id
        BY <1>4, <1>6, <3>3 DEF Outrun
      <3>4. CASE Begins(h.evidence, evidence) /\ Len(group.kept) < Len(h.evidence)
        <4> DEFINE i == Len(group.kept) + 1
        <4>1. i \in 1..Len(h.evidence) /\ i \in 1..Len(evidence) /\ i > Len(group.kept)
          BY <1>2, <3>1, <3>4 DEF Begins
        <4>2. h.evidence[i] = evidence[i]
          BY <3>4, <4>1 DEF Begins
        <4> HIDE DEF i
        <4>3. /\ h.evidence[i].id <= filed
              /\ \A k \in 1..Len(group.kept) : group.kept[k].id # h.evidence[i].id
          BY <1>5, <1>9, <4>1, <4>2
        <4>4. QED
          BY <1>4, <4>1, <4>3 DEF Outrun
      <3>5. QED
        BY <1>4, <2>2, <3>2, <3>3, <3>4, SessionFields DEF Outrun
    <2>3. QED
      BY <1>4, <1>8, <2>1, <2>2 DEF HonestRow
  <1>11. ASSUME ~slipped', NEW w \in Observers
         PROVE  RunReads(observer'[w], Session') /\ RunWrites(observer'[w], KeptLines', productionDays', Session')
    <2>1. observer'[w] = Unoccupied
      BY <1>4, <1>11 DEF BatchUndoEvidence, Busy
    <2>2. QED
      BY <2>1 DEF RunReads, RunWrites, Unoccupied, Writing
  <1>12. QED
    BY <1>7, <1>10, <1>11 DEF BackfillInv

-----------------------------------------------------------------------------
(* HistoryBackfill: the steps of the observers.                            *)

\* A step of one observer, while the session rests: nothing that the others rely on is lost.
LEMMA ObserverStep ==
  ASSUME BackfillInv, BackfillTypeOK', UNCHANGED sessionVars, slipped => slipped',
         NEW w \in Observers, NEW rec, Turn(w, rec),
         KeptLines \subseteq KeptLines', productionDays \subseteq productionDays',
         ~slipped' => /\ cursor' = cursor \/ HonestRow(cursor', KeptLines', productionDays', Session)
                      /\ RunReads(rec, Session) /\ RunWrites(rec, KeptLines', productionDays', Session)
  PROVE  BackfillInv'
  <1>1. Session' = Session /\ Session \in Story /\ Goes(Session, Session)
    BY GoesSelf DEF sessionVars, Session, BackfillInv, StoryOK
  <1>2. StoryOK(Session')
    BY <1>1 DEF BackfillInv
  <1>3. ASSUME ~slipped' PROVE HonestRow(cursor', KeptLines', productionDays', Session')
    <2>1. HonestRow(cursor, KeptLines, productionDays, Session) /\ cursor \in CursorRow
      BY <1>3 DEF BackfillInv, BackfillTypeOK
    <2>2. HonestRow(cursor, KeptLines', productionDays', Session)
      BY <1>1, <2>1, HonestGoes
    <2>3. QED
      BY <1>1, <1>3, <2>2
  <1>4. ASSUME ~slipped', NEW v \in Observers
        PROVE  RunReads(observer'[v], Session') /\ RunWrites(observer'[v], KeptLines', productionDays', Session')
    <2>1. /\ RunReads(observer[v], Session) /\ RunWrites(observer[v], KeptLines, productionDays, Session)
          /\ observer[v] \in Observing /\ observer \in [Observers -> Observing]
      BY <1>4 DEF BackfillInv, BackfillTypeOK
    <2>2. CASE v = w
      <3>1. observer'[v] = rec
        BY <2>1, <2>2 DEF Turn
      <3>2. QED
        BY <1>1, <1>4, <3>1
    <2>3. CASE v # w
      <3>1. observer'[v] = observer[v]
        BY <2>1, <2>3 DEF Turn
      <3>2. QED
        BY <1>1, <2>1, <3>1, RunGoes
    <2>4. QED
      BY <2>2, <2>3
  <1>5. QED
    BY <1>2, <1>3, <1>4 DEF BackfillInv

LEMMA Unread == RunReads(Unoccupied, Session) /\ \A K, D : RunWrites(Unoccupied, K, D, Session)
  BY DEF RunReads, RunWrites, Unoccupied, Writing

LEMMA SessionNow ==
  ASSUME BackfillInv
  PROVE  /\ BackfillTypeOK /\ StoryOK(Session) /\ Session \in Story
         /\ telemetry \in Telemetry /\ telemetry \in Seq(Event) /\ evidence \in Seq(Entry)
         /\ complete \in BOOLEAN /\ filed \in Nat
         /\ Begins(telemetry, telemetry) /\ Begins(evidence, evidence)
         /\ \A w \in Observers : observer[w] \in Observing
         /\ ~slipped => \A w \in Observers : /\ RunReads(observer[w], Session)
                                             /\ RunWrites(observer[w], KeptLines, productionDays, Session)
  <1>1. telemetry \in Seq(Event) /\ evidence \in Seq(Entry)
    BY DEF BackfillInv, BackfillTypeOK, Telemetry
  <1>2. QED
    BY <1>1, BeginsSelf, BackfillBounds DEF BackfillInv, BackfillTypeOK, StoryOK

LEMMA ReadSteps ==
  ASSUME BackfillInv, BackfillTypeOK', NEW w \in Observers,
         Scan(w) \/ ReadTasks(w) \/ ObserveFinished(w) \/ Retask(w) \/ Reread(w)
  PROVE  BackfillInv'
  <1> DEFINE me == observer[w]
  <1>1. /\ me \in Observing /\ (~slipped => RunReads(me, Session)) /\ complete \in BOOLEAN
        /\ telemetry \in Seq(Event) /\ evidence \in Seq(Entry)
        /\ Begins(telemetry, telemetry) /\ Begins(evidence, evidence)
    BY SessionNow
  <1>2. ASSUME NEW rec, Turn(w, rec), Reads, ~slipped => RunReads(rec, Session), rec.pc \notin Writing
        PROVE  BackfillInv'
    <2>1. \A K, D : RunWrites(rec, K, D, Session)
      BY <1>2 DEF RunWrites
    <2>2. UNCHANGED <<sessionVars, slipped, cursor, productionDays>> /\ KeptLines' = KeptLines
      BY <1>2 DEF Reads, derivedVars, KeptLines, Known
    <2>3. QED
      BY <1>2, <2>1, <2>2, ObserverStep
  <1>3. CASE Scan(w)
    <2> DEFINE rec == [pc |-> "task", telemetry |-> telemetry]
    <2>1. RunReads(rec, Session)
      BY <1>1, SessionFields DEF RunReads
    <2>2. QED
      BY <1>2, <1>3, <2>1 DEF Scan, Writing
  <1>4. CASE ReadTasks(w)
    <2> DEFINE rec == [pc |-> "evidence", telemetry |-> me.telemetry, complete |-> complete]
    <2>1. ~slipped => RunReads(rec, Session)
      BY <1>1, <1>4, SessionFields DEF RunReads, ReadTasks, ObserverAt
    <2>2. QED
      BY <1>2, <1>4, <2>1 DEF ReadTasks, Writing
  <1>5. CASE ObserveFinished(w)
    <2>1. RunReads([pc |-> "retask", row |-> NoCursor], Session)
      BY DEF RunReads, Rereads
    <2>2. QED
      BY <1>2, <1>5, <2>1 DEF ObserveFinished, Writing
  <1>6. CASE Retask(w)
    <2> DEFINE rec == [pc |-> "reread", row |-> me.row, complete |-> complete]
    <2>1. ~slipped => RunReads(rec, Session)
      <3> SUFFICES ASSUME ~slipped PROVE RunReads(rec, Session)
        OBVIOUS
      <3>1. Rereads(me.row, Session)
        BY <1>1, <1>6 DEF RunReads, Retask, ObserverAt
      <3>2. me.row # NoCursor /\ me.row.hash.complete /\ ~complete => group.step = "undo"
        BY <3>1, SessionFields DEF Rereads, Fresh
      <3>3. QED
        BY <3>1, <3>2, SessionFields DEF RunReads
    <2>2. RunReads(Unoccupied, Session) /\ Unoccupied.pc \notin Writing
      BY Unread DEF Unoccupied, Writing
    <2>3. rec.pc \notin Writing /\ Reads /\ (Turn(w, rec) \/ Turn(w, Unoccupied))
      BY <1>6 DEF Retask, Writing
    <2> HIDE DEF rec
    <2>4. QED
      BY <1>2, <2>1, <2>2, <2>3
  <1>7. CASE Reread(w)
    <2> DEFINE rec == [pc |-> "journal", row |-> me.row, evidence |-> evidence,
                       day |-> Qualifying(me.complete, evidence)]
    <2>1. ~slipped => RunReads(rec, Session)
      <3> SUFFICES ASSUME ~slipped PROVE RunReads(rec, Session)
        OBVIOUS
      <3>1. /\ Rereads(me.row, Session) /\ me.complete \in BOOLEAN
            /\ me.row # NoCursor /\ me.row.hash.complete /\ ~me.complete => group.step = "undo"
        BY <1>1, <1>7, RunShapes, SessionFields DEF RunReads, Reread, ObserverAt
      <3>2. me.row # NoCursor => Begins(me.row.hash.evidence, evidence)
        BY <3>1, SessionFields DEF Rereads, Fresh
      <3>3. ASSUME me.row # NoCursor, me.row.hash.complete
            PROVE  Qualifying(TRUE, me.row.hash.evidence) \subseteq Qualifying(me.complete, evidence)
                     \/ group.step = "undo"
        <4>1. me.row.hash.evidence = evidence
          BY <3>1, <3>3, SessionFields DEF Rereads, Fresh
        <4>2. CASE me.complete = TRUE
          BY <4>1, <4>2
        <4>3. QED
          BY <3>1, <3>3, <4>2
      <3>4. QED
        BY <1>1, <3>1, <3>2, <3>3, SessionFields DEF RunReads
    <2>2. rec.pc \notin Writing /\ Reads /\ Turn(w, rec)
      BY <1>7 DEF Reread, Writing
    <2> HIDE DEF rec
    <2>3. QED
      BY <1>2, <2>1, <2>2
  <1>8. QED
    BY <1>3, <1>4, <1>5, <1>6, <1>7

LEMMA EvidenceRead ==
  ASSUME BackfillInv, BackfillTypeOK', NEW w \in Observers, ReadEvidence(w)
  PROVE  BackfillInv'
  <1> DEFINE tel  == observer[w].telemetry
             done == observer[w].complete
             hash == [telemetry |-> tel, evidence |-> evidence, complete |-> done]
             from == Offset(hash)
             to   == IF from + PageLimit < Len(tel) THEN from + PageLimit ELSE Len(tel)
             row  == [status |-> IF to = Len(tel) THEN "complete" ELSE "pending", hash |-> hash, offset |-> to]
             again == [row EXCEPT !.status = "complete", !.offset = Len(tel)]
             todo == Candidates(tel, from+1..to, evidence)
             day  == Qualifying(done, evidence)
  <1>1. /\ observer[w] \in Observing /\ (~slipped => RunReads(observer[w], Session)) /\ ObserverAt(w, "evidence")
        /\ evidence \in Seq(Entry) /\ Begins(evidence, evidence)
    BY SessionNow DEF ReadEvidence
  <1>2. tel \in Telemetry /\ tel \in Seq(Event) /\ done \in BOOLEAN /\ Len(tel) \in Nat
    BY <1>1, RunShapes DEF ObserverAt, Telemetry
  <1>3. from \in Nat /\ PageLimit \in Nat
    BY BackfillBounds DEF Offset, BackfillInv, BackfillTypeOK, CursorRow, NoCursor
  <1>4. to \in Nat
    BY <1>2, <1>3
  <1>5. /\ row.status = (IF to = Len(tel) THEN "complete" ELSE "pending") /\ row.hash = hash /\ row.offset = to
        /\ again.status = "complete" /\ again.hash = hash /\ again.offset = Len(tel)
        /\ hash.telemetry = tel /\ hash.evidence = evidence /\ hash.complete = done
        /\ row # NoCursor /\ again # NoCursor
    BY DEF NoCursor
  <1>6. ASSUME ~slipped PROVE HonestRow(row, KeptLines \cup todo, day, Session)
    <2>1. HonestRow(cursor, KeptLines, productionDays, Session)
      BY <1>6 DEF BackfillInv
    <2>2. CASE Outrun(hash, KeptLines, Session)
      <3>1. Session \in Story /\ hash \in Source /\ Goes(Session, Session)
        <4>1. Session \in Story /\ Goes(Session, Session)
          BY SessionNow, GoesSelf
        <4>2. hash \in Source
          BY <1>1, <1>2 DEF Source
        <4>3. QED
          BY <4>1, <4>2
      <3>2. Outrun(hash, KeptLines \cup todo, Session)
        BY <2>2, <3>1, OutrunGoes
      <3>3. QED
        BY <1>5, <3>2 DEF HonestRow
    <2>3. CASE ~Outrun(hash, KeptLines, Session)
      <3>1. Covers(hash, from, KeptLines) \/ from = 0
        <4>1. CASE from # 0
          <5>1. cursor.status = "pending" /\ cursor.hash = hash /\ cursor.offset = from
            BY <4>1 DEF Offset
          <5>2. cursor # NoCursor
            BY <5>1 DEF NoCursor
          <5>3. QED
            BY <2>1, <2>3, <5>1, <5>2 DEF HonestRow
        <4>2. QED
          BY <4>1
      <3>2. Covers(hash, to, KeptLines \cup todo)
        <4>1. {<<"evidence", i>> : i \in Failed(evidence)} \subseteq todo
          BY DEF Candidates
        <4>2. ASSUME NEW i \in 1..to, tel[i] = "plain" => Failed(evidence) = {}
              PROVE  <<"telemetry", i>> \in KeptLines \cup todo
          <5>1. CASE i \in from+1..to
            BY <4>2, <5>1 DEF Candidates
          <5>2. CASE i \in 1..from
            <6>1. from # 0
              BY <1>3, <5>2
            <6>2. <<"telemetry", i>> \in Candidates(tel, 1..from, evidence)
              BY <4>2, <5>2 DEF Candidates
            <6>3. QED
              BY <1>5, <3>1, <6>1, <6>2 DEF Covers
          <5>3. QED
            BY <1>3, <1>4, <5>1, <5>2
        <4> HIDE DEF todo, to, tel, from
        <4>3. Candidates(tel, 1..to, evidence) \subseteq KeptLines \cup todo
          BY <4>1, <4>2 DEF Candidates
        <4>4. QED
          BY <1>5, <4>3 DEF Covers
      <3>3. QED
        BY <1>5, <3>2 DEF HonestRow
    <2>4. QED
      BY <2>2, <2>3
  <1>7. ASSUME ~slipped PROVE Rereads(again, Session)
    <2>1. /\ Begins(tel, telemetry)
          /\ done => complete \/ group.step = "undo"
      BY <1>1, <1>6, <1>7, SessionFields DEF RunReads, ObserverAt
    <2>2. Fresh(hash, Session)
      BY <1>1, <1>5, <2>1, SessionFields DEF Fresh
    <2>3. QED
      BY <1>5, <2>2 DEF Rereads
  <1> HIDE DEF row, again
  <1>8. /\ UNCHANGED <<sessionVars, slipped, cursor, productionDays>> /\ KeptLines' = KeptLines
        /\ \/ Turn(w, Unoccupied) \/ Turn(w, Ready("day", todo, day, row))
           \/ Turn(w, [pc |-> "retask", row |-> again])
    BY DEF ReadEvidence, Reads, derivedVars, KeptLines, Known, row, again
  <1> HIDE DEF todo, day
  <1>9. CASE Turn(w, Unoccupied)
    BY <1>8, <1>9, Unread, ObserverStep
  <1>10. CASE Turn(w, Ready("day", todo, day, row))
    <2> DEFINE rec == Ready("day", todo, day, row)
    <2>1. RunReads(rec, Session)
      BY DEF RunReads, Ready
    <2>2. ~slipped => RunWrites(rec, KeptLines, productionDays, Session)
      BY <1>6 DEF RunWrites, Ready
    <2> HIDE DEF rec
    <2>3. QED
      BY <1>8, <1>10, <2>1, <2>2, ObserverStep DEF rec
  <1>11. CASE Turn(w, [pc |-> "retask", row |-> again])
    <2> DEFINE rec == [pc |-> "retask", row |-> again]
    <2>1. ~slipped => RunReads(rec, Session)
      BY <1>7 DEF RunReads
    <2>2. \A K, D : RunWrites(rec, K, D, Session)
      BY DEF RunWrites, Writing
    <2> HIDE DEF rec
    <2>3. QED
      BY <1>8, <1>11, <2>1, <2>2, ObserverStep DEF rec
  <1>12. QED
    BY <1>8, <1>9, <1>10, <1>11

\* What an earlier reading of the evidence has seen, a later one sees, too.
LEMMA FailedBegins ==
  ASSUME NEW e \in Seq(Entry), NEW f \in Seq(Entry), Begins(e, f)
  PROVE  /\ Failed(e) \subseteq Failed(f)
         /\ Failed(e) = {} /\ Failed(f) # {} => \E i \in 1..Len(f) : i > Len(e) /\ ~f[i].ok
  <1>1. /\ DOMAIN e = 1..Len(e) /\ DOMAIN f = 1..Len(f) /\ Len(e) \in Nat /\ Len(f) \in Nat /\ Len(e) <= Len(f)
        /\ \A i \in 1..Len(e) : i \in 1..Len(f) /\ e[i] = f[i]
    BY LenProperties DEF Begins
  <1>2. Failed(e) \subseteq Failed(f)
    BY <1>1 DEF Failed
  <1>3. ASSUME Failed(e) = {}, Failed(f) # {} PROVE \E i \in 1..Len(f) : i > Len(e) /\ ~f[i].ok
    <2>1. PICK i \in 1..Len(f) : ~f[i].ok
      BY <1>1, <1>3 DEF Failed
    <2>2. i \notin 1..Len(e)
      BY <1>1, <1>3, <2>1 DEF Failed
    <2>3. QED
      BY <1>1, <2>1, <2>2
  <1>4. QED
    BY <1>2, <1>3

LEMMA JournalRead ==
  ASSUME BackfillInv, BackfillTypeOK', NEW w \in Observers, ReadJournal(w)
  PROVE  BackfillInv'
  <1> DEFINE me   == observer[w]
             seen == Candidates(telemetry, 1..Len(telemetry), me.evidence)
             todo == seen \ Known
  <1>1. /\ me \in Observing /\ me.pc = "journal" /\ evidence \in Seq(Entry) /\ telemetry \in Seq(Event)
        /\ Session \in Story
    BY SessionNow DEF ReadJournal, ObserverAt
  <1>2. me.evidence \in Seq(Entry) /\ me.row \in CursorRow
    BY <1>1, RunShapes
  <1>3. ASSUME ~slipped', NEW S, seen \subseteq S PROVE HonestRow(me.row, S, me.day, Session)
    <2> SUFFICES ASSUME me.row # NoCursor PROVE HonestRow(me.row, S, me.day, Session)
      BY DEF HonestRow
    <2> DEFINE h == me.row.hash
    <2>1. RunReads(me, Session)
      BY <1>3, SessionNow DEF ReadJournal
    <2>2. /\ me.row.status = "complete" /\ me.row.offset = Len(h.telemetry)
          /\ Begins(h.telemetry, telemetry) /\ Begins(h.evidence, evidence)
          /\ h.complete => h.evidence = evidence
          /\ Begins(me.evidence, evidence) /\ Begins(h.evidence, me.evidence)
          /\ h.complete => Qualifying(TRUE, h.evidence) \subseteq me.day \/ group.step = "undo"
      BY <1>1, <2>1, SessionFields DEF RunReads, Rereads, Fresh
    <2>3. /\ h \in Source /\ h.evidence \in Seq(Entry) /\ h.telemetry \in Seq(Event) /\ h.complete \in BOOLEAN
          /\ Len(h.evidence) \in Nat /\ Len(h.telemetry) \in Nat
      BY <1>2, RowTypes, SourceTypes
    <2> HIDE DEF h
    <2>4. Failed(h.evidence) \subseteq Failed(me.evidence)
      BY <1>2, <2>2, <2>3, FailedBegins
    <2>5. CASE Failed(h.evidence) = {} /\ Failed(me.evidence) # {}
      <3>1. PICK i \in 1..Len(me.evidence) : i > Len(h.evidence) /\ ~me.evidence[i].ok
        BY <1>2, <2>2, <2>3, <2>5, FailedBegins
      <3>2. i \in 1..Len(evidence) /\ evidence[i] = me.evidence[i]
        BY <1>1, <1>2, <2>2, <3>1, LenProperties DEF Begins
      <3>3. <<"evidence", evidence[i].id>> \in seen
        <4>1. i \in DOMAIN me.evidence
          BY <1>2, <3>1, LenProperties
        <4>2. evidence[i].id \in Failed(me.evidence)
          BY <3>1, <3>2, <4>1 DEF Failed
        <4>3. QED
          BY <4>2 DEF Candidates
      <3>4. Outrun(h, S, Session)
        BY <1>3, <2>2, <3>1, <3>2, <3>3, SessionFields DEF Outrun
      <3>5. QED
        BY <2>2, <3>4 DEF HonestRow, h
    <2>6. CASE ~(Failed(h.evidence) = {} /\ Failed(me.evidence) # {})
      <3>1. Covers(h, Len(h.telemetry), seen)
        <4>1. Failed(h.evidence) = {} => Failed(me.evidence) = {}
          BY <2>6
        <4>2. \A i \in 1..Len(h.telemetry) : i \in 1..Len(telemetry) /\ h.telemetry[i] = telemetry[i]
          BY <1>1, <2>2, <2>3, LenProperties DEF Begins
        <4>3. QED
          BY <2>4, <4>1, <4>2 DEF Covers, Candidates
      <3>2. Covers(h, me.row.offset, S)
        BY <1>3, <2>2, <3>1 DEF Covers
      <3>3. CASE Qualifying(h.complete, h.evidence) \subseteq me.day
        BY <2>2, <3>2, <3>3 DEF HonestRow, h
      <3>4. CASE ~(Qualifying(h.complete, h.evidence) \subseteq me.day)
        <4>1. h.complete = TRUE
          BY <2>3, <3>4 DEF Qualifying
        <4>2. group.step = "undo" /\ h.evidence = evidence
          BY <2>2, <3>4, <4>1
        <4>3. Len(group.kept) < Len(evidence)
          BY <4>2, SessionFields DEF BackfillInv, StoryOK
        <4>4. Outrun(h, S, Session)
          BY <2>2, <4>1, <4>2, <4>3, SessionFields DEF Outrun
        <4>5. QED
          BY <2>2, <4>4 DEF HonestRow, h
      <3>5. QED
        BY <3>3, <3>4
    <2>7. QED
      BY <2>5, <2>6
  <1>4. ASSUME ~slipped' PROVE ~slipped /\ KeptLines = Known
    BY <1>4 DEF ReadJournal, KeptLines, Nobody
  <1>5. /\ UNCHANGED <<sessionVars, cursor, productionDays>> /\ KeptLines' = KeptLines /\ (slipped => slipped')
        /\ \/ Turn(w, Unoccupied) \/ Turn(w, Ready("day", todo, me.day, me.row))
           \/ todo = {} /\ me.day = {} /\ Turn(w, Ready("done", {}, {}, me.row))
    BY DEF ReadJournal, derivedVars, KeptLines, Known
  <1>6. CASE Turn(w, Unoccupied)
    BY <1>5, <1>6, Unread, ObserverStep
  <1>7. CASE Turn(w, Ready("day", todo, me.day, me.row))
    <2> DEFINE rec == Ready("day", todo, me.day, me.row)
    <2>1. RunReads(rec, Session)
      BY DEF RunReads, Ready
    <2>2. ~slipped' => RunWrites(rec, KeptLines, productionDays, Session)
      <3>1. ~slipped' => HonestRow(me.row, KeptLines \cup todo, me.day, Session)
        BY <1>3, <1>4
      <3>2. QED
        BY <3>1 DEF RunWrites, Ready
    <2> HIDE DEF rec
    <2>3. QED
      BY <1>5, <1>7, <2>1, <2>2, ObserverStep DEF rec
  <1>8. CASE todo = {} /\ me.day = {} /\ Turn(w, Ready("done", {}, {}, me.row))
    <2> DEFINE rec == Ready("done", {}, {}, me.row)
    <2>1. RunReads(rec, Session)
      BY DEF RunReads, Ready
    <2>2. ~slipped' => RunWrites(rec, KeptLines, productionDays, Session)
      <3> SUFFICES ASSUME ~slipped' PROVE HonestRow(me.row, KeptLines \cup {}, productionDays, Session)
        BY DEF RunWrites, Ready
      <3>1. HonestRow(me.row, KeptLines, me.day, Session)
        BY <1>3, <1>4, <1>8
      <3>2. Goes(Session, Session) /\ me.day \subseteq productionDays /\ KeptLines \subseteq KeptLines \cup {}
        BY <1>1, <1>8, GoesSelf
      <3>3. QED
        BY <1>1, <1>2, <3>1, <3>2, HonestGoes
    <2> HIDE DEF rec
    <2>3. QED
      BY <1>5, <1>8, <2>1, <2>2, ObserverStep DEF rec
  <1>9. QED
    BY <1>5, <1>6, <1>7, <1>8

LEMMA KnownGrows ==
  ASSUME NEW o, NEW q, observations' = observations \cup {<<o, q>>}
  PROVE  Known' = Known \cup {o}
  <1>1. Known' = {p[1] : p \in observations'}
    BY DEF Known
  <1>2. {p[1] : p \in observations \cup {<<o, q>>}} = {p[1] : p \in observations} \cup {o}
    <2>1. <<o, q>>[1] = o
      OBVIOUS
    <2>2. \A x : x \in {p[1] : p \in observations \cup {<<o, q>>}}
                   <=> x \in {p[1] : p \in observations} \/ x = o
      BY <2>1
    <2>3. QED
      BY <2>2
  <1>3. QED
    BY <1>1, <1>2 DEF Known

LEMMA WriteSteps ==
  ASSUME BackfillInv, BackfillTypeOK', NEW w \in Observers,
         \/ EnsureDay(w) \/ Finish(w) \/ Quit(w)
         \/ \E o \in Occurrence : AppendOne(w, o) \/ LineFails(w, o) \/ UndoAppend(w, o)
  PROVE  BackfillInv'
  <1> DEFINE me == observer[w]
  <1>1. /\ me \in Observing /\ Session \in Story /\ Goes(Session, Session)
        /\ ~slipped => RunWrites(me, KeptLines, productionDays, Session)
    BY SessionNow, GoesSelf
  <1>2. me.pc \in Writing
    BY DEF EnsureDay, Finish, Quit, AppendOne, LineFails, UndoAppend, ObserverAt, Writing
  <1>3. /\ me = [pc |-> me.pc, todo |-> me.todo, day |-> me.day, seq |-> me.seq, row |-> me.row,
                 skipped |-> me.skipped]
        /\ me.row \in CursorRow /\ me.skipped \in BOOLEAN
    BY <1>1, <1>2, RunShapes
  <1>4. UNCHANGED <<sessionVars, slipped>>
    BY DEF EnsureDay, Finish, Quit, AppendOne, LineFails, UndoAppend
  \* A run that goes on with its row has something to do, or it is done, or it skipped something.
  <1>5. ASSUME NEW rec, Turn(w, rec), rec.pc \in {"append", "undo"}, rec.row = me.row,
               ~rec.skipped => /\ ~me.skipped /\ KeptLines \cup me.todo \subseteq KeptLines' \cup rec.todo
                               /\ me.pc = "day" => me.day \subseteq productionDays',
               KeptLines \subseteq KeptLines', productionDays \subseteq productionDays', UNCHANGED cursor
        PROVE  BackfillInv'
    <2>1. RunReads(rec, Session)
      BY <1>5 DEF RunReads
    <2>2. ASSUME ~slipped PROVE RunWrites(rec, KeptLines', productionDays', Session)
      <3> SUFFICES ASSUME ~rec.skipped
                   PROVE  HonestRow(me.row, KeptLines' \cup rec.todo, productionDays', Session)
        BY <1>5 DEF RunWrites
      <3>1. HonestRow(me.row, KeptLines \cup me.todo, IF me.pc = "day" THEN me.day ELSE productionDays, Session)
        BY <1>1, <1>2, <1>5, <2>2 DEF RunWrites
      <3>2. (IF me.pc = "day" THEN me.day ELSE productionDays) \subseteq productionDays'
        BY <1>5
      <3>3. KeptLines \cup me.todo \subseteq KeptLines' \cup rec.todo
        BY <1>5
      <3>4. QED
        BY <1>1, <1>3, <3>1, <3>2, <3>3, HonestGoes
    <2>3. QED
      BY <1>4, <1>5, <2>1, <2>2, ObserverStep
  <1>6. ASSUME Turn(w, Unoccupied), KeptLines \subseteq KeptLines', productionDays \subseteq productionDays',
               ~slipped => cursor' = cursor \/ HonestRow(cursor', KeptLines', productionDays', Session)
        PROVE  BackfillInv'
    BY <1>4, <1>6, Unread, ObserverStep
  <1>7. CASE EnsureDay(w)
    <2>1. /\ KeptLines' = KeptLines /\ cursor' = cursor /\ productionDays \subseteq productionDays'
      BY <1>7 DEF EnsureDay, KeptLines, Known
    <2>2. CASE Turn(w, Unoccupied)
      BY <1>6, <2>1, <2>2
    <2>3. CASE me.day = {} /\ Turn(w, [me EXCEPT !.pc = "append"])
      <3> DEFINE rec == [me EXCEPT !.pc = "append"]
      <3>1. rec.pc = "append" /\ rec.row = me.row /\ rec.skipped = me.skipped /\ rec.todo = me.todo
        BY <1>3
      <3> HIDE DEF rec
      <3>2. QED
        BY <1>5, <2>1, <2>3, <3>1 DEF rec
    <2>4. CASE productionDays' = productionDays \cup me.day /\ Turn(w, [me EXCEPT !.pc = "append", !.seq = 1])
      <3> DEFINE rec == [me EXCEPT !.pc = "append", !.seq = 1]
      <3>1. rec.pc = "append" /\ rec.row = me.row /\ rec.skipped = me.skipped /\ rec.todo = me.todo
        BY <1>3
      <3> HIDE DEF rec
      <3>2. QED
        BY <1>5, <2>1, <2>4, <3>1 DEF rec
    <2>5. QED
      BY <1>7, <2>2, <2>3, <2>4 DEF EnsureDay
  <1>8. CASE Finish(w)
    <2>1. KeptLines' = KeptLines /\ productionDays' = productionDays /\ Turn(w, Unoccupied)
      BY <1>8 DEF Finish, KeptLines, Known
    <2>2. ASSUME ~slipped PROVE cursor' = cursor \/ HonestRow(cursor', KeptLines', productionDays', Session)
      <3>1. CASE me.skipped \/ me.row = NoCursor
        BY <1>8, <3>1 DEF Finish
      <3>2. CASE ~me.skipped /\ me.row # NoCursor
        <4>1. HonestRow(me.row, KeptLines \cup me.todo, productionDays, Session)
          BY <1>1, <1>2, <1>8, <2>2, <3>2 DEF RunWrites, Finish
        <4>2. KeptLines \cup me.todo = KeptLines /\ cursor' = me.row
          BY <1>8, <3>2 DEF Finish
        <4>3. QED
          BY <2>1, <4>1, <4>2
      <3>3. QED
        BY <3>1, <3>2
    <2>3. QED
      BY <1>6, <2>1, <2>2
  <1>9. CASE Quit(w)
    <2>1. KeptLines \subseteq KeptLines' /\ UNCHANGED <<productionDays, cursor>> /\ Turn(w, Unoccupied)
      BY <1>9 DEF Quit, KeptLines, Known
    <2>2. QED
      BY <1>6, <2>1
  <1>10. ASSUME NEW o \in Occurrence, AppendOne(w, o) PROVE BackfillInv'
    <2>1. /\ UNCHANGED <<productionDays, cursor, writing>> /\ me.pc = "append" /\ writing = {}
      BY <1>10 DEF AppendOne, ObserverAt, Nobody
    <2>2. CASE Skip(w, o) /\ UNCHANGED observations
      <3> DEFINE rec == [me EXCEPT !.todo = @ \ {o}, !.skipped = TRUE]
      <3>1. rec.pc = "append" /\ rec.row = me.row /\ rec.skipped = TRUE
        BY <1>3, <2>1
      <3>2. KeptLines' = KeptLines /\ Turn(w, rec)
        BY <2>1, <2>2 DEF Skip, KeptLines, Known
      <3> HIDE DEF rec
      <3>3. QED
        BY <1>5, <2>1, <3>1, <3>2
    <2>3. CASE Took(w, o) /\ observations' = observations \cup {<<o, me.seq>>}
      <3> DEFINE rec == [me EXCEPT !.todo = @ \ {o}]
      <3>1. rec.pc = "append" /\ rec.row = me.row /\ rec.skipped = me.skipped /\ rec.todo = me.todo \ {o}
        BY <1>3, <2>1
      <3>2. KeptLines' = KeptLines \cup {o} /\ Turn(w, rec)
        <4>1. Known' = Known \cup {o}
          BY <2>3, KnownGrows
        <4>2. KeptLines = Known /\ KeptLines' = Known'
          BY <2>1 DEF KeptLines
        <4>3. QED
          BY <2>3, <4>1, <4>2 DEF Took
      <3> HIDE DEF rec
      <3>3. KeptLines \cup me.todo \subseteq KeptLines' \cup rec.todo
        BY <3>1, <3>2
      <3>4. QED
        BY <1>5, <2>1, <3>1, <3>2, <3>3
    <2>4. QED
      BY <1>10, <2>2, <2>3 DEF AppendOne
  <1>11. ASSUME NEW o \in Occurrence, LineFails(w, o) PROVE BackfillInv'
    <2> DEFINE rec == [me EXCEPT !.pc = "undo"]
    <2>1. rec.pc = "undo" /\ rec.row = me.row /\ rec.skipped = me.skipped /\ rec.todo = me.todo
      BY <1>3
    <2>2. /\ UNCHANGED <<productionDays, cursor>> /\ me.pc = "append" /\ Turn(w, rec)
          /\ observations' = observations \cup {<<o, me.seq>>} /\ writing' = {<<w, o>>} /\ writing = {}
          /\ o \notin Known
      BY <1>11 DEF LineFails, ObserverAt, Nobody
    <2>3. KeptLines' = KeptLines
      <3>1. Known' = Known \cup {o}
        BY <2>2, KnownGrows
      <3>2. {r[2] : r \in writing'} = {o}
        BY <2>2
      <3>3. {r[2] : r \in writing} = {}
        BY <2>2
      <3>4. QED
        BY <2>2, <3>1, <3>2, <3>3 DEF KeptLines
    <2> HIDE DEF rec
    <2>4. QED
      BY <1>5, <2>1, <2>2, <2>3
  <1>12. ASSUME NEW o \in Occurrence, UndoAppend(w, o) PROVE BackfillInv'
    <2> DEFINE rec == [me EXCEPT !.pc = "append", !.todo = @ \ {o}, !.skipped = TRUE]
    <2>1. rec.pc = "append" /\ rec.row = me.row /\ rec.skipped = TRUE
      BY <1>3
    <2>2. /\ UNCHANGED <<productionDays, cursor>> /\ Turn(w, rec) /\ <<w, o>> \in writing
          /\ observations' = observations \ {<<o, me.seq>>} /\ writing' = {}
      BY <1>12 DEF UndoAppend, Nobody
    <2>3. KeptLines \subseteq KeptLines'
      <3>1. o \in {r[2] : r \in writing}
        BY <2>2
      <3>2. Known \ {o} \subseteq Known'
        BY <2>2 DEF Known
      <3>3. QED
        BY <2>2, <3>1, <3>2 DEF KeptLines
    <2> HIDE DEF rec
    <2>4. QED
      BY <1>5, <2>1, <2>2, <2>3
  <1>13. QED
    BY <1>7, <1>8, <1>9, <1>10, <1>11, <1>12

LEMMA BackfillStep ==
  ASSUME BackfillInv, [BackfillNext]_backfillVars
  PROVE  BackfillInv'
  <1>1. BackfillTypeOK'
    BY BackfillTypeStep DEF BackfillInv
  <1>2. CASE UNCHANGED backfillVars
    <2>1. UNCHANGED <<derivedVars, observer, slipped>> /\ Session' = Session
      BY <1>2 DEF backfillVars, derivedVars, Session
    <2>2. Goes(Session, Session') /\ StoryOK(Session')
      BY <2>1, SessionNow, GoesSelf
    <2>3. QED
      BY <1>1, <2>1, <2>2, SessionGoes DEF BackfillInv
  <1>3. CASE BackfillNext
    BY <1>1, <1>3, SessionSteps, UndoneEvidence, ReadSteps, EvidenceRead, JournalRead, WriteSteps
       DEF BackfillNext
  <1>4. QED
    BY <1>2, <1>3

THEOREM BackfillInvariant == BackfillSpec => []BackfillInv
  <1>1. BackfillInit => BackfillInv
    BY BackfillStarts
  <1>2. BackfillInv /\ [BackfillNext]_backfillVars => BackfillInv'
    BY BackfillStep
  <1>3. QED
    BY <1>1, <1>2, PTL DEF BackfillSpec

\* Sources that nobody will see again are not the session's.
LEMMA NotOutrun ==
  ASSUME BackfillInv, NEW S
  PROVE  ~Outrun(Sources, S, Session)
  <1>1. evidence \in Seq(Entry) /\ Len(evidence) \in Nat /\ (group.step = "undo" => ~complete)
    BY SessionFields DEF BackfillInv, BackfillTypeOK, StoryOK
  <1>2. Sources.evidence = evidence /\ Sources.complete = complete
    BY DEF Sources
  <1>3. \A i \in 1..Len(evidence) : ~(i > Len(evidence))
    BY <1>1
  <1>4. QED
    BY <1>1, <1>2, <1>3, SessionFields DEF Outrun

\* The session, the journals and the observers keep their types.
THEOREM BackfillTypeCorrect == BackfillSpec => []BackfillTypeOK
  <1>1. BackfillInv => BackfillTypeOK
    BY DEF BackfillInv
  <1>2. QED
    BY <1>1, BackfillInvariant, PTL

\* No cursor lies: whatever the observers read while the session went on, a complete one with the
\* hash of the sources as they are means that each failure is in the journal and the finished
\* session has its day.
THEOREM CompleteMeansObservedHolds == BackfillSpec => []CompleteMeansObserved
  <1>1. BackfillInv => CompleteMeansObserved
    <2> SUFFICES ASSUME BackfillInv, ~slipped, cursor.status = "complete", cursor.hash = Sources
                 PROVE  /\ Candidates(telemetry, 1..Len(telemetry), evidence) \subseteq Known
                        /\ Qualifying(complete, evidence) \subseteq productionDays
      BY DEF CompleteMeansObserved
    <2>1. cursor # NoCursor /\ HonestRow(cursor, KeptLines, productionDays, Session)
      BY DEF BackfillInv, NoCursor
    <2>2. /\ Sources.telemetry = telemetry /\ Sources.evidence = evidence /\ Sources.complete = complete
          /\ cursor.offset = Len(telemetry)
      BY <2>1 DEF Sources, HonestRow
    <2>3. /\ Covers(Sources, Len(telemetry), KeptLines)
          /\ Qualifying(complete, evidence) \subseteq productionDays
      BY <2>1, <2>2, NotOutrun DEF HonestRow
    <2>4. KeptLines \subseteq Known
      BY DEF KeptLines
    <2>5. QED
      BY <2>2, <2>3, <2>4 DEF Covers
  <1>2. QED
    BY <1>1, BackfillInvariant, PTL
=============================================================================
