---------------------------- MODULE DatabaseLeases ----------------------------
(*****************************************************************************)
(* evolution.db is copied file by file while other processes may want to     *)
(* write it. Whoever opens it leaves a lease file for as long as it has it   *)
(* open; whoever copies it keeps new openers out and waits for the leases    *)
(* of other processes to go away.                                            *)
(*****************************************************************************)
EXTENDS Integers

CONSTANTS
  Openers, NoOpener,
  MaxCommits, MaxLeases    \* bounds on the transactions and on the leases at one time

ASSUME LeasesAssumption == MaxCommits \in Nat /\ MaxLeases \in Nat /\ NoOpener \notin Openers

VARIABLES
  dbMain,   \* the last transaction in the database file
  dbWal,    \* the write-ahead log: transactions base+1..top
  dbLock,   \* the process that holds the external path lock of the database
  leases,   \* [LeaseIds -> a lease file, or NoLease]
  opener    \* [Openers -> where the process is, its lease, the copy it makes]

leaseVars == <<dbMain, dbWal, dbLock, leases, opener>>

DbCommits  == 0..MaxCommits
LeaseIds == 1..MaxLeases
\* `old`: beyond the age at which it may be reclaimed.
LeaseFile == [is : {"empty", "written"}, owner : Openers, dead : BOOLEAN, old : BOOLEAN]
NoLease   == [is |-> "none", owner |-> NoOpener, dead |-> FALSE, old |-> FALSE]
Wal     == [base : DbCommits, top : DbCommits]
Copy    == [main : DbCommits, wal : Wal, seen : (DbCommits \X Wal) \cup {<<>>}]
OpenerPCs == {"idle", "lease", "opening", "open", "release", "drain", "main", "wal", "compare", "copied"}
Opener  == [pc : OpenerPCs, lease : 0..MaxLeases, copy : Copy]
NoCopy  == [main |-> 0, wal |-> [base |-> 0, top |-> 0], seen |-> <<>>]
NoOpening == [pc |-> "idle", lease |-> 0, copy |-> NoCopy]

LeasesTypeOK ==
  /\ dbMain \in DbCommits /\ dbWal \in Wal
  /\ dbLock \in Openers \cup {NoOpener}
  /\ leases \in [LeaseIds -> LeaseFile \cup {NoLease}]
  /\ opener \in [Openers -> Opener]

LeasesInit ==
  /\ dbMain = 0 /\ dbWal = [base |-> 0, top |-> 0] /\ dbLock = NoOpener
  /\ leases = [i \in LeaseIds |-> NoLease]
  /\ opener = [p \in Openers |-> NoOpening]

OpenerAt(p, pc)   == opener[p].pc = pc
OpenerGoto(p, pc) == opener' = [opener EXCEPT ![p].pc = pc]
TakenLeases == {i \in LeaseIds : leases[i] # NoLease}
RemoveLease(i) == leases' = [leases EXCEPT ![i] = NoLease]
\* A lease that names this very process.
OwnLease(p, i) == leases[i].is = "written" /\ leases[i].owner = p /\ ~leases[i].dead
UnlockDb == dbLock' = NoOpener

-----------------------------------------------------------------------------
(* openEvolutionDb.                                                        *)

\* establishExternalPathLeaseSync: the lease file is created under the lock ...
OpenDb(p) ==
  /\ OpenerAt(p, "idle") /\ dbLock = NoOpener /\ TakenLeases # LeaseIds
  /\ LET n == CHOOSE i \in LeaseIds \ TakenLeases : TRUE IN
     /\ leases' = [leases EXCEPT ![n] = [is |-> "empty", owner |-> p, dead |-> FALSE, old |-> FALSE]]
     /\ opener' = [opener EXCEPT ![p].pc = "lease", ![p].lease = n]
  /\ dbLock' = p /\ UNCHANGED <<dbMain, dbWal>>

\* ... and then written; an error leaves it behind, empty or whole.
WriteLease(p, is, ok) ==
  /\ OpenerAt(p, "lease") /\ (ok => is = "written")
  /\ leases' = [leases EXCEPT ![opener[p].lease].is = is]
  /\ IF ok THEN OpenerGoto(p, "opening") /\ dbLock' = dbLock
     ELSE opener' = [opener EXCEPT ![p] = NoOpening] /\ UnlockDb
  /\ UNCHANGED <<dbMain, dbWal>>

\* The database is opened and migrated before the lock is released; an error closes it and
\* removes the lease, still under the lock.
Opened(p, ok) ==
  /\ OpenerAt(p, "opening") /\ UnlockDb /\ UNCHANGED <<dbMain, dbWal>>
  /\ IF ok THEN OpenerGoto(p, "open") /\ leases' = leases
     ELSE RemoveLease(opener[p].lease) /\ opener' = [opener EXCEPT ![p] = NoOpening]

\* SQLite in WAL mode: a transaction goes to the log; now and then the log is copied into
\* the database file, and started afresh when all of it is there.
CommitDb(p) ==
  /\ OpenerAt(p, "open") /\ dbWal.top < MaxCommits /\ dbWal' = [dbWal EXCEPT !.top = @ + 1]
  /\ UNCHANGED <<dbMain, dbLock, leases, opener>>

BackfillWal(p) ==
  /\ OpenerAt(p, "open") /\ dbMain < dbWal.top /\ dbMain' \in (dbMain + 1)..dbWal.top
  /\ dbWal' \in {dbWal, IF dbMain' = dbWal.top THEN [base |-> dbMain', top |-> dbMain'] ELSE dbWal}
  /\ UNCHANGED <<dbLock, leases, opener>>

\* The database is closed first, then the lease is removed.
CloseDb(p) ==
  /\ OpenerAt(p, "open") /\ OpenerGoto(p, "release") /\ UNCHANGED <<dbMain, dbWal, dbLock, leases>>

ReleaseLease(p) ==
  /\ OpenerAt(p, "release") /\ RemoveLease(opener[p].lease)
  /\ opener' = [opener EXCEPT ![p] = NoOpening] /\ UNCHANGED <<dbMain, dbWal, dbLock>>

-----------------------------------------------------------------------------
(* openEvolutionDbSnapshot; the process may have the database open itself.   *)

BackFromCopy(p) == IF opener[p].lease = 0 THEN "idle" ELSE "open"

BeginSnapshot(p) ==
  /\ opener[p].pc \in {"idle", "open"} /\ dbLock = NoOpener /\ dbLock' = p /\ OpenerGoto(p, "drain")
  /\ UNCHANGED <<dbMain, dbWal, leases>>

\* Mutated form: a lease is reclaimed for its age, whatever became of its owner.
ReclaimableByAge(i) == leases[i].old

\* shouldRecoverStaleLock: an old lease that names no process, or one that is gone.
Reclaimable(i) == leases[i].old /\ (leases[i].is = "empty" \/ (leases[i].is = "written" /\ leases[i].dead))

ReclaimLease(p, i) ==
  /\ OpenerAt(p, "drain") /\ i \in TakenLeases /\ ~OwnLease(p, i) /\ Reclaimable(i)
  /\ RemoveLease(i)
  /\ UNCHANGED <<dbMain, dbWal, dbLock, opener>>

\* waitForExternalPathLeasesToDrainSync passes over the leases of its own process.
Drained(p) ==
  /\ OpenerAt(p, "drain")
  /\ \A i \in TakenLeases : OwnLease(p, i)
  /\ opener' = [opener EXCEPT ![p].pc = "main", ![p].copy.seen = <<dbMain, dbWal>>]
  /\ UNCHANGED <<dbMain, dbWal, dbLock, leases>>

CopyMain(p) ==
  /\ OpenerAt(p, "main") /\ opener' = [opener EXCEPT ![p].pc = "wal", ![p].copy.main = dbMain]
  /\ UNCHANGED <<dbMain, dbWal, dbLock, leases>>

CopyWal(p) ==
  /\ OpenerAt(p, "wal") /\ opener' = [opener EXCEPT ![p].pc = "compare", ![p].copy.wal = dbWal]
  /\ UNCHANGED <<dbMain, dbWal, dbLock, leases>>

\* The sources' size and time are compared with those before the copy; a change within the
\* clock's resolution does not show.
CompareSources(p, shows) ==
  /\ OpenerAt(p, "compare") /\ UnlockDb
  /\ IF shows /\ opener[p].copy.seen # <<dbMain, dbWal>>
     THEN opener' = [opener EXCEPT ![p].pc = BackFromCopy(p), ![p].copy = NoCopy] ELSE OpenerGoto(p, "copied")
  /\ UNCHANGED <<dbMain, dbWal, leases>>

\* The copy is read and removed; or a wait timed out, or a copy failed.
SnapshotDone(p) ==
  /\ opener[p].pc \in {"copied", "drain", "main", "wal"} /\ opener' = [opener EXCEPT ![p].pc = BackFromCopy(p), ![p].copy = NoCopy]
  /\ dbLock' = IF OpenerAt(p, "copied") THEN dbLock ELSE NoOpener
  /\ UNCHANGED <<dbMain, dbWal, leases>>

\* A process dies and another takes its place; its lock is reclaimed (module SessionLock).
OpenerDies(p) ==
  /\ opener[p] # NoOpening /\ opener' = [opener EXCEPT ![p] = NoOpening]
  /\ leases' = [i \in LeaseIds |-> IF leases[i].owner = p THEN [leases[i] EXCEPT !.dead = TRUE] ELSE leases[i]]
  /\ dbLock' = IF dbLock = p THEN NoOpener ELSE dbLock
  /\ UNCHANGED <<dbMain, dbWal>>

LeaseAges(i) ==
  /\ i \in TakenLeases /\ ~leases[i].old /\ leases' = [leases EXCEPT ![i].old = TRUE]
  /\ UNCHANGED <<dbMain, dbWal, dbLock, opener>>

LeasesNext ==
  \/ \E p \in Openers :
       \/ OpenDb(p) \/ CommitDb(p) \/ BackfillWal(p) \/ CloseDb(p) \/ ReleaseLease(p) \/ OpenerDies(p)
       \/ BeginSnapshot(p) \/ Drained(p) \/ CopyMain(p) \/ CopyWal(p) \/ SnapshotDone(p)
       \/ \E i \in LeaseIds : ReclaimLease(p, i)
       \/ \E ok \in BOOLEAN : Opened(p, ok) \/ CompareSources(p, ok)
                              \/ \E is \in {"empty", "written"} : WriteLease(p, is, ok)
  \/ \E i \in LeaseIds : LeaseAges(i)

LeasesSpec == LeasesInit /\ [][LeasesNext]_leaseVars

-----------------------------------------------------------------------------

\* A copy that is handed out is the database as it was at one moment: the log reaches back
\* to what the copied file holds, so that no transaction is missing between the two, and it
\* ends at a transaction that had been committed when the copy was begun.
CopyIsOfOneMoment ==
  \A p \in Openers : OpenerAt(p, "copied") =>
    LET c == opener[p].copy IN
    /\ c.wal.base <= c.main /\ c.main <= c.wal.top
    /\ c.seen = <<c.main, c.wal>>
=============================================================================
