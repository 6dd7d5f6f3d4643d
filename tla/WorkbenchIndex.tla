--------------------------- MODULE WorkbenchIndex ---------------------------
(*****************************************************************************)
(* The index of all sessions, a file derived from the sessions' boards and   *)
(* from their events. A command changes the board of its session and adds    *)
(* an event while it holds the session's lock, and then derives the entry    *)
(* of that session anew and puts it into the index as it finds it; others    *)
(* derive all entries, one session after the other, while commands go on.    *)
(* Only one process rewrites the index at a time.                            *)
(*****************************************************************************)
EXTENDS Integers, FiniteSets

CONSTANTS
  Writers, NoWriter,
  Sessions,
  MaxChanges, MaxArchives, MaxLost    \* bounds

ASSUME IndexAssumption ==
  MaxChanges \in Nat /\ MaxArchives \in Nat /\ MaxLost \in Nat /\ NoWriter \notin Writers

VARIABLES
  board,         \* [Sessions -> the number of times its task files were changed; 0: none yet]
  sessionLog,    \* [Sessions -> the number of its events in the ledger]
  indexFile,     \* [Sessions -> an entry], or NoIndex when the file is missing or malformed
  indexLock,
  sessionOwner,  \* [Sessions -> the writer that holds its lock]
  indexing,      \* [Writers -> the command it runs]
  behind,        \* the sessions whose last command ended without its rebuild
  archives, indexLost  \* number of batches; of failures, deaths and index files lost

indexVars == <<board, sessionLog, indexFile, indexLock, sessionOwner, indexing, behind, archives, indexLost>>

IndexEntry == [board : 0..MaxChanges, log : Nat]
BlankEntry == [board |-> 0, log |-> 0]
NoIndex == [s \in {} |-> BlankEntry]
NoCommand == [pc |-> "idle", mine |-> {}]
\* `mine`: the sessions it holds; `all`: it derives every entry; `tell`: it adds its event
\* together with the rebuild; `got`: the entries derived so far; `seen`, `old`: the ledger and
\* the index as it has read them.
CommandOf(got, old) ==
  [pc : {"tell", "index", "load", "read"}, mine : SUBSET Sessions, all : BOOLEAN, tell : BOOLEAN,
   got : [got -> IndexEntry], seen : [Sessions -> Nat], old : [old -> IndexEntry]]
EntryNow(s) == [board |-> board[s], log |-> sessionLog[s]]

IndexTypeOK ==
  /\ board \in [Sessions -> 0..MaxChanges] /\ sessionLog \in [Sessions -> Nat]
  /\ indexFile = NoIndex \/ indexFile \in [Sessions -> IndexEntry]
  /\ indexLock \in Writers \cup {NoWriter} /\ sessionOwner \in [Sessions -> Writers \cup {NoWriter}]
  /\ behind \subseteq Sessions /\ archives \in 0..MaxArchives /\ indexLost \in 0..MaxLost
  /\ DOMAIN indexing = Writers
  /\ \A w \in Writers :
       indexing[w] = NoCommand \/ \E got, old \in SUBSET Sessions : indexing[w] \in CommandOf(got, old)
  /\ \A w \in Writers : indexing[w].mine = {s \in Sessions : sessionOwner[s] = w}

IndexInit ==
  /\ board = [s \in Sessions |-> 0] /\ sessionLog = [s \in Sessions |-> 0] /\ indexFile = NoIndex
  /\ indexLock = NoWriter /\ sessionOwner = [s \in Sessions |-> NoWriter]
  /\ indexing = [w \in Writers |-> NoCommand] /\ behind = {} /\ archives = 0 /\ indexLost = 0

IndexGoto(w, pc) == indexing' = [indexing EXCEPT ![w].pc = pc]
TellLedger(ss) == sessionLog' = [s \in Sessions |-> IF s \in ss THEN sessionLog[s] + 1 ELSE sessionLog[s]]
SessionsOwned(ss, w) == sessionOwner' = [s \in Sessions |-> IF s \in ss THEN w ELSE sessionOwner[s]]

\* The command lets go of its locks; with its rebuild undone its sessions fall behind.
LeaveIndex(w, done) ==
  /\ indexing' = [indexing EXCEPT ![w] = NoCommand] /\ SessionsOwned(indexing[w].mine, NoWriter)
  /\ indexLock' = IF indexLock = w THEN NoWriter ELSE indexLock
  /\ behind' = IF done THEN behind ELSE behind \cup indexing[w].mine

-----------------------------------------------------------------------------
(* The commands.                                                           *)

\* A lifecycle command: the board first.  `first`: its event goes to the ledger at once, and
\* not together with the rebuild.
ChangeSession(w, s, first) ==
  /\ indexing[w] = NoCommand /\ sessionOwner[s] = NoWriter /\ board[s] < MaxChanges
  /\ board' = [board EXCEPT ![s] = @ + 1] /\ SessionsOwned({s}, w)
  /\ indexing' = [indexing EXCEPT ![w] = [pc |-> IF first THEN "tell" ELSE "index", mine |-> {s}, all |-> FALSE,
                               tell |-> ~first, got |-> NoIndex, seen |-> sessionLog, old |-> NoIndex]]
  /\ UNCHANGED <<sessionLog, indexFile, indexLock, behind, archives, indexLost>>

AppendSessionEvent(w) ==
  /\ indexing[w].pc = "tell" /\ TellLedger(indexing[w].mine) /\ IndexGoto(w, "index")
  /\ UNCHANGED <<board, indexFile, indexLock, sessionOwner, behind, archives, indexLost>>

\* archiveSessions, restoreSessions: the events of a batch, and a rebuild of everything;
\* `afol local-state rebuild`: of no session.
SessionBatch(w, ss) ==
  /\ indexing[w] = NoCommand /\ archives < MaxArchives /\ archives' = archives + 1
  /\ \A s \in ss : sessionOwner[s] = NoWriter /\ board[s] > 0
  /\ SessionsOwned(ss, w)
  /\ indexing' = [indexing EXCEPT ![w] = [pc |-> "index", mine |-> ss, all |-> TRUE, tell |-> ss # {},
                              got |-> NoIndex, seen |-> sessionLog, old |-> NoIndex]]
  /\ UNCHANGED <<board, sessionLog, indexFile, indexLock, behind, indexLost>>

-----------------------------------------------------------------------------
(* appendEventsAndRebuildWorkBenchIndex and rebuildWorkBenchIndex.         *)

\* Mutated form: the index is read before its lock is taken.
LockIndexUnheld(w) ==
  /\ indexing[w].pc = "index" /\ IndexGoto(w, "load")
  /\ IF indexing[w].tell THEN TellLedger(indexing[w].mine) ELSE sessionLog' = sessionLog
  /\ UNCHANGED <<board, indexFile, indexLock, sessionOwner, behind, archives, indexLost>>

LockIndex(w) ==
  /\ indexing[w].pc = "index" /\ indexLock = NoWriter /\ indexLock' = w /\ IndexGoto(w, "load")
  /\ IF indexing[w].tell THEN TellLedger(indexing[w].mine) ELSE sessionLog' = sessionLog
  /\ UNCHANGED <<board, indexFile, sessionOwner, behind, archives, indexLost>>

\* Without an index to put the entry into, all are derived.  The ledger is read first.
LoadIndex(w) ==
  /\ indexing[w].pc = "load"
  /\ indexing' = [indexing EXCEPT ![w].pc = "read", ![w].old = indexFile, ![w].seen = sessionLog,
                      ![w].all = @ \/ indexFile = NoIndex]
  /\ UNCHANGED <<board, sessionLog, indexFile, indexLock, sessionOwner, behind, archives, indexLost>>

WantedEntries(w) == IF indexing[w].all THEN Sessions ELSE indexing[w].mine

\* buildSessionsSnapshot: one session's board after the other.
ReadBoard(w, s) ==
  LET got == indexing[w].got IN
  /\ indexing[w].pc = "read" /\ s \in WantedEntries(w) \ DOMAIN got
  /\ indexing' = [indexing EXCEPT ![w].got = [t \in DOMAIN got \cup {s} |->
       IF t = s THEN [board |-> board[s], log |-> IF board[s] = 0 THEN 0 ELSE indexing[w].seen[s]] ELSE got[t]]]
  /\ UNCHANGED <<board, sessionLog, indexFile, indexLock, sessionOwner, behind, archives, indexLost>>

SaveIndex(w) ==
  LET got == indexing[w].got IN
  /\ indexing[w].pc = "read" /\ DOMAIN got = WantedEntries(w)
  /\ indexFile' = [s \in Sessions |-> IF s \in DOMAIN got THEN got[s] ELSE indexing[w].old[s]]
  /\ indexing' = [indexing EXCEPT ![w] = NoCommand] /\ SessionsOwned(indexing[w].mine, NoWriter)
  /\ indexLock' = IF indexLock = w THEN NoWriter ELSE indexLock
  /\ behind' = {s \in behind : indexFile'[s] # EntryNow(s)}
  /\ UNCHANGED <<board, sessionLog, archives, indexLost>>

-----------------------------------------------------------------------------

\* An error, which the commands only warn of, or a death.
LoseCommand(w) ==
  /\ indexing[w] # NoCommand /\ indexLost < MaxLost /\ indexLost' = indexLost + 1 /\ LeaveIndex(w, FALSE)
  /\ UNCHANGED <<board, sessionLog, indexFile, archives>>

\* The derived file is deleted or damaged.
LoseIndex ==
  /\ indexFile # NoIndex /\ indexLost < MaxLost /\ indexLost' = indexLost + 1 /\ indexFile' = NoIndex
  /\ UNCHANGED <<board, sessionLog, indexLock, sessionOwner, indexing, behind, archives>>

IndexNext ==
  \/ \E w \in Writers :
       \/ AppendSessionEvent(w) \/ LockIndex(w) \/ LoadIndex(w) \/ SaveIndex(w) \/ LoseCommand(w)
       \/ \E ss \in SUBSET Sessions : SessionBatch(w, ss)
       \/ \E s \in Sessions : ReadBoard(w, s) \/ \E first \in BOOLEAN : ChangeSession(w, s, first)
  \/ LoseIndex

IndexSpec == IndexInit /\ [][IndexNext]_indexVars

-----------------------------------------------------------------------------

\* Once no command of a session is under way, and its last one was not cut off before its
\* rebuild, the index says of it what its board and its events say, whatever other commands,
\* batches and rebuilds were reading and writing at the same time.
IndexFollowsSessions ==
  indexFile # NoIndex => \A s \in Sessions \ behind : sessionOwner[s] = NoWriter => indexFile[s] = EntryNow(s)
=============================================================================
