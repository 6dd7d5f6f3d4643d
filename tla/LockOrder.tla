------------------------------ MODULE LockOrder ------------------------------
(***************************************************************************)
(* Which lock is taken under which.  A command nests its locks: it holds a   *)
(* sequence of them while it waits for one more, and lets go of all of them   *)
(* when a wait times out.  A command is the set of the longest sequences it    *)
(* goes through; a lock its process holds already is not taken again           *)
(* (heldLocks) and is left out.                                             *)
(*                                                                         *)
(* evolution.db has a lock and leases: opening it takes a lease while its     *)
(* lock is free, copying it takes the lock and waits until the leases of all   *)
(* others are gone.                                                         *)
(***************************************************************************)
EXTENDS Integers, Sequences

CONSTANTS
  Callers,
  MaxNumber    \* of sessions, of tasks and of files

ASSUME NumberOfNames == MaxNumber \in Nat

Numbers == 1..MaxNumber    \* sessions, tasks and files in the order of their names

VARIABLES
  held,    \* [Callers -> the locks it holds, the innermost last]
  want     \* [Callers -> the lock it waits for, or Nothing]

orderVars == <<held, want>>

Only(kind) == <<kind, 0>>       \* a lock there is only one of
Project    == Only("project")   \* withExternalPathLock of the project root
Update     == Only("update")
Apply      == Only("apply")
Assisted   == Only("assisted")
NewLock    == Only("new")
Governance == Only("governance")
Mutations  == Only("mutations")
Lessons    == Only("lessons")
Adoption   == Only("adoption")
Journal    == Only("journal")
Checkpoint == Only("checkpoint")
Index      == Only("index")
Ledger     == Only("ledger")
Database   == Only("database")
Lease      == Only("lease")
Drain      == Only("drain")     \* not a lock: the wait for the leases of others
Session(s) == <<"session", s>>
Task(t)    == <<"task", t>>
FileLock(f) == <<"file", f>>
Nothing    == <<"nothing", 0>>

-----------------------------------------------------------------------------
(* The commands.                                                           *)

\* withSessionLocks, withResourceLocks, withTaskCompletionLocks: in sorted order.
Sorted(kind) == {<< <<kind, n>> >> : n \in Numbers}
                  \cup {<< <<kind, m[1]>>, <<kind, m[2]>> >> :
                          m \in {p \in Numbers \X Numbers : p[1] < p[2]}}

\* Whatever changes a session appends an event and refreshes the index of all sessions.
Told(outer) == {outer \o <<Ledger>>, outer \o <<Index, Ledger>>}

\* `afol start`, `evidence`, `problem`, ...
TaskCommands == UNION {Told(<<Session(s)>>) : s \in Numbers}

\* `afol done`: the completion leases are taken first.
DoneCommands == UNION {Told(ts \o <<Session(s)>>) : ts \in Sorted("task"), s \in Numbers}

\* newWorkstream: the lock of the session it has just created is taken under the lock of
\* session creation.
NewSession == UNION {{<<NewLock, Governance>>} \cup Told(<<NewLock, Session(s)>>) : s \in Numbers}

\* closeSession: the ledger is read, a continuation created and told about, and the
\* observations of the session are written to evolution.db and its journals.
CloseSession == UNION {Told(<<Session(s)>>) \cup Told(<<Session(s), Session(t)>>)
                         \cup {<<Session(s), NewLock>>, <<Session(s), Lease, Journal>>} :
                         s \in Numbers, t \in Numbers}

ArchiveSessions == UNION {Told(ss) \cup {ss \o <<Adoption>>} : ss \in Sorted("session")}

\* Mutated form: the files are locked before the journal.
FilesFirst == {<<Project, Session(s)>> \o fs \o <<Mutations>> : s \in Numbers, fs \in Sorted("file")}

\* `afol file`: project, task, journal, files.
FileCommands == {<<Project, Session(s), Mutations>> \o fs : s \in Numbers, fs \in Sorted("file")}

\* applyUpdateOperations, rollbackUpdateBatch
UpdateCommands == {<<Project, Update, Mutations>> \o fs : fs \in Sorted("file")}

\* applyEvolutionProposal, rollbackEvolutionProposal: the task is looked at, the proposal
\* computed from a copy of the database, and "prepare" written behind the patch's locks.
ApplyCommands == {<<Apply, Session(s)>> : s \in Numbers}
                   \cup {<<Apply, Mutations, FileLock(f), Lease, Checkpoint>> : f \in Numbers}
                   \cup {<<Apply, Database, Drain>>, <<Apply, Lease, Checkpoint>>}

\* recordProposalEvaluation
EvaluateCommands == {<<Apply, Journal, Lease, Checkpoint>>}

\* repairEvolutionDerivedState
RepairCommand == {<<Journal, Lease, Checkpoint>>}

\* runSuggest, imports, history backfill: the journal is locked with the database open.
JournalCommands == {<<Lease, Journal, Checkpoint>>}

\* openEvolutionDbSnapshot
SnapshotCommands == {<<Database, Drain>>}

\* applyAssistedProposal
AssistedCommands == {<<Assisted, Mutations>> \o fs \o <<Lessons>> : fs \in Sorted("file")}

Commands == TaskCommands \cup DoneCommands \cup NewSession \cup CloseSession \cup ArchiveSessions
              \cup FileCommands \cup UpdateCommands \cup ApplyCommands \cup EvaluateCommands
              \cup RepairCommand \cup JournalCommands \cup SnapshotCommands \cup AssistedCommands

-----------------------------------------------------------------------------

Holds(p, l) == \E i \in 1..Len(held[p]) : held[p][i] = l

\* q keeps p from going on.
WaitsFor(p, q) ==
  /\ p # q
  /\ IF want[p] = Lease THEN Holds(q, Database)
     ELSE IF want[p] = Drain THEN Holds(q, Lease)
     ELSE want[p] # Nothing /\ Holds(q, want[p])

OrderInit == held = [p \in Callers |-> <<>>] /\ want = [p \in Callers |-> Nothing]

Try(p, c) ==
  /\ want[p] = Nothing /\ Len(held[p]) < Len(c) /\ held[p] = SubSeq(c, 1, Len(held[p]))
  /\ ~Holds(p, c[Len(held[p]) + 1])
  /\ want' = [want EXCEPT ![p] = c[Len(held[p]) + 1]]
  /\ UNCHANGED held

Take(p) ==
  /\ want[p] # Nothing /\ \A q \in Callers : ~WaitsFor(p, q)
  /\ held' = [held EXCEPT ![p] = Append(@, want[p])]
  /\ want' = [want EXCEPT ![p] = Nothing]

\* The innermost block ends.
LeaveBlock(p) ==
  /\ want[p] = Nothing /\ held[p] # <<>>
  /\ held' = [held EXCEPT ![p] = SubSeq(@, 1, Len(@) - 1)]
  /\ UNCHANGED want

\* A wait times out, or the process dies: its locks are removed or reclaimed.
DropAll(p) ==
  /\ held[p] # <<>> \/ want[p] # Nothing
  /\ held' = [held EXCEPT ![p] = <<>>] /\ want' = [want EXCEPT ![p] = Nothing]

OrderNext == \E p \in Callers : (\E c \in Commands : Try(p, c)) \/ Take(p) \/ LeaveBlock(p) \/ DropAll(p)

OrderSpec == OrderInit /\ [][OrderNext]_orderVars

-----------------------------------------------------------------------------

LockKinds == {"project", "update", "apply", "assisted", "new", "governance", "mutations", "lessons",
              "adoption", "journal", "checkpoint", "index", "ledger", "database", "lease", "drain",
              "session", "task", "file", "nothing"}

OrderTypeOK == /\ held \in [Callers -> Seq(LockKinds \X (Numbers \cup {0}))]
              /\ want \in [Callers -> LockKinds \X (Numbers \cup {0})]

Circle(D) == D # {} /\ \A p \in D : \E q \in D : WaitsFor(p, q)

\* p waits for the lock of a session it has created a moment ago: newWorkstream, or
\* closeSession and its continuation, which may sort before it.
WaitsForCreated(p) ==
  /\ want[p][1] = "session" /\ held[p] # <<>>
  /\ LET last == held[p][Len(held[p])] IN last = NewLock \/ (last[1] = "session" /\ last[2] >= want[p][2])

\* The locks of the commands have an order: whoever waits in a circle, the circle goes through
\* the copying of evolution.db or through the lock of a session being created, and only a
\* timeout ends it.  No other commands keep each other waiting.
OnlyKnownCircles ==
  \A D \in SUBSET Callers : Circle(D) => \E p \in D : want[p] = Drain \/ WaitsForCreated(p)
=============================================================================
