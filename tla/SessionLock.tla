---------------------------- MODULE SessionLock ----------------------------
(***************************************************************************)
(* withSessionLock: an exclusive lock made of a file created with `wx` and   *)
(* of a `.reclaim` marker, also created with `wx`, that admits one process   *)
(* at a time to the removal of a dead owner's file.                          *)
(*                                                                         *)
(* Each file-system call is a step.  Files are inodes: an inode may be used  *)
(* again once no path names it and no process has it open.  A process that   *)
(* crashes comes back as a new process.                                      *)
(***************************************************************************)
EXTENDS Naturals

CONSTANTS
  Procs, Inodes, NoInode,
  MaxDepth,       \* bound on the nesting of withSessionLock in one process
  MarkerCrash,    \* a process may leave the reclaim marker behind: it dies, or its write fails
  SlowWriters     \* a file may stay without metadata beyond the ownerless age

ASSUME InodesAssumption == NoInode \notin Inodes
ASSUME SwitchAssumption == /\ MaxDepth \in Nat \ {0}
                           /\ MarkerCrash \in BOOLEAN /\ SlowWriters \in BOOLEAN

VARIABLES
  path,   \* ["lock" / "marker" -> the inode of that name, or NoInode]
  file,   \* [Inodes -> metadata written?, owner dead?, stale age reached?]
  me      \* [Procs -> what the process knows]

vars == <<path, file, me>>

Names == {"lock", "marker"}
File  == [written : BOOLEAN, dead : BOOLEAN, old : BOOLEAN]
New   == [written |-> FALSE, dead |-> FALSE, old |-> FALSE]

PCs == {"idle", "try", "judge", "mark", "markJudge", "markOpen", "markUnlink", "marked",
        "recheck", "lockOpen", "lockUnlink", "unmarkOpen", "unmarkUnlink", "wait",
        "created", "cs", "relOpen", "relUnlink"}

\* exp: the inode judged stale; same: its signature is still the one read then;
\* own, mark: the lock and the marker created (and held open); got: reclaimed.
Proc == [pc : PCs, exp : Inodes \cup {NoInode}, same : BOOLEAN,
         own : Inodes \cup {NoInode}, mark : Inodes \cup {NoInode},
         got : BOOLEAN, depth : 0..MaxDepth]

Idle == [pc |-> "idle", exp |-> NoInode, same |-> FALSE, own |-> NoInode,
         mark |-> NoInode, got |-> FALSE, depth |-> 0]

TypeOK == /\ path \in [Names -> Inodes \cup {NoInode}]
          /\ file \in [Inodes -> File]
          /\ me \in [Procs -> Proc]

Init == /\ path = [n \in Names |-> NoInode]
        /\ file = [i \in Inodes |-> New]
        /\ me = [p \in Procs |-> Idle]

-----------------------------------------------------------------------------

At(p, pc)   == me[p].pc = pc
Goto(p, pc) == me' = [me EXCEPT ![p].pc = pc]

\* Mutated form: the age alone makes a lock stale.
StaleByAge(n) == path[n] # NoInode /\ file[path[n]].old

\* shouldRecoverStaleLock: an old file whose owner is dead, or was never written.
Stale(n) == /\ path[n] # NoInode /\ file[path[n]].old
            /\ file[path[n]].written => file[path[n]].dead

Open(i) == \E p \in Procs : i \in {me[p].own, me[p].mark}
                            \/ (me[p].pc \in {"lockUnlink", "markUnlink"} /\ me[p].exp = i)
Unused(i) == ~Open(i) /\ \A n \in Names : path[n] # i

\* Whoever judged inode i has now a signature that will not be met again.
Outdated(i) == [q \in Procs |-> IF me[q].exp = i THEN [me[q] EXCEPT !.same = FALSE] ELSE me[q]]

\* openSync(path, "wx") succeeds on a free path: a new inode.
CreateLock(p) ==
  /\ At(p, "try") /\ path["lock"] = NoInode
  /\ \E i \in Inodes :
       /\ Unused(i)
       /\ path' = [path EXCEPT !["lock"] = i]
       /\ file' = [file EXCEPT ![i] = New]
       /\ me' = [me EXCEPT ![p].pc = "created", ![p].own = i]

CreateMarker(p) ==
  /\ At(p, "mark") /\ path["marker"] = NoInode
  /\ \E i \in Inodes :
       /\ Unused(i)
       /\ path' = [path EXCEPT !["marker"] = i]
       /\ file' = [file EXCEPT ![i] = New]
       /\ me' = [me EXCEPT ![p].pc = "marked", ![p].mark = i]

\* EEXIST.
Occupied(p) ==
  /\ \/ At(p, "try") /\ path["lock"] # NoInode /\ Goto(p, "judge")
     \/ At(p, "mark") /\ path["marker"] # NoInode /\ Goto(p, "markJudge")
  /\ UNCHANGED <<path, file>>

\* The metadata is written and synced; the action, or the reclaim, may begin.  If the
\* write fails the lock is released, but a marker stays where it is.
Write(p, io) ==
  LET i == IF At(p, "created") THEN me[p].own ELSE me[p].mark IN
  /\ \/ At(p, "created") /\ me' = [Outdated(i) EXCEPT ![p].pc = IF io THEN "cs" ELSE "relOpen",
                                                     ![p].depth = IF io THEN 1 ELSE 0]
     \/ At(p, "marked") /\ io /\ me' = [Outdated(i) EXCEPT ![p].pc = "recheck"]
     \/ At(p, "marked") /\ ~io /\ MarkerCrash
        /\ me' = [Outdated(i) EXCEPT ![p] = [Idle EXCEPT !.pc = "wait"]]
  /\ file' = [file EXCEPT ![i].written = io, ![i].dead = ~io /\ At(p, "marked")]
  /\ UNCHANGED path

\* Mutated form: a stale marker is never removed.
JudgeLockOnly(p) ==
  /\ \/ At(p, "judge") /\ Stale("lock")
        /\ me' = [me EXCEPT ![p].pc = "mark", ![p].exp = path["lock"], ![p].same = TRUE]
     \/ At(p, "judge") /\ ~Stale("lock") /\ Goto(p, "wait")
     \/ At(p, "markJudge") /\ Goto(p, "wait")
  /\ UNCHANGED <<path, file>>

\* shouldRecoverStaleLock on the lock, or on the marker that is in the way.
Judge(p) ==
  /\ \E n \in Names, pc \in {"judge", "markJudge"} :
       /\ At(p, pc) /\ (n = "lock" <=> pc = "judge")
       /\ IF Stale(n)
          THEN me' = [me EXCEPT ![p].pc = IF pc = "judge" THEN "mark" ELSE "markOpen",
                                ![p].exp = path[n], ![p].same = TRUE]
          ELSE Goto(p, "wait")
  /\ UNCHANGED <<path, file>>

\* Under the marker the lock file must still be the one that was judged.
Recheck(p) ==
  /\ At(p, "recheck")
  /\ Goto(p, IF path["lock"] = me[p].exp /\ me[p].same THEN "lockOpen" ELSE "unmarkOpen")
  /\ UNCHANGED <<path, file>>

\* unlinkIfIdentityMatches opens the path and compares inodes ...
Compare(p) ==
  /\ \/ At(p, "lockOpen") /\ Goto(p, IF path["lock"] = me[p].exp THEN "lockUnlink" ELSE "unmarkOpen")
     \/ At(p, "markOpen") /\ Goto(p, IF path["marker"] = me[p].exp THEN "markUnlink" ELSE "wait")
     \/ At(p, "unmarkOpen") /\ path["marker"] = me[p].mark /\ Goto(p, "unmarkUnlink")
     \/ At(p, "relOpen") /\ path["lock"] = me[p].own /\ Goto(p, "relUnlink")
  /\ UNCHANGED <<path, file>>

\* ... and then unlinks the path, whatever it names by now.
Gone(p, n) ==
  /\ path' = [path EXCEPT ![n] = NoInode]
  /\ UNCHANGED file

After(p) == [Idle EXCEPT !.pc = IF me[p].got THEN "try" ELSE "wait"]

Reclaim(p) ==
  /\ At(p, "lockUnlink") /\ Gone(p, "lock")
  /\ me' = [Outdated(path["lock"]) EXCEPT ![p].pc = "unmarkOpen",
                                          ![p].got = path["lock"] # NoInode]

ReclaimMarker(p) ==
  /\ At(p, "markUnlink") /\ Gone(p, "marker")
  /\ me' = [Outdated(path["marker"]) EXCEPT
              ![p] = [Idle EXCEPT !.pc = IF path["marker"] # NoInode THEN "try" ELSE "wait"]]

\* The marker goes in the finally clause; then withSessionLock tries again or waits.
Unmark(p) ==
  /\ \/ At(p, "unmarkOpen") /\ path["marker"] # me[p].mark
        /\ me' = [me EXCEPT ![p] = After(p)] /\ UNCHANGED <<path, file>>
     \/ At(p, "unmarkUnlink") /\ Gone(p, "marker")
        /\ me' = [Outdated(path["marker"]) EXCEPT ![p] = After(p)]

Retry(p)  == At(p, "wait") /\ Goto(p, "try") /\ UNCHANGED <<path, file>>

\* Timed out waiting for session lock.
GiveUp(p) == At(p, "wait") /\ me' = [me EXCEPT ![p] = Idle] /\ UNCHANGED <<path, file>>

\* heldLocks: a nested withSessionLock of the same process only counts.
Reenter(p) ==
  /\ At(p, "cs") /\ me[p].depth < MaxDepth
  /\ me' = [me EXCEPT ![p].depth = @ + 1] /\ UNCHANGED <<path, file>>

\* Mutated form: the end of a nested action releases the lock.
LeaveAtOnce(p) ==
  /\ At(p, "cs") /\ me[p].depth > 1
  /\ path' = [path EXCEPT !["lock"] = NoInode]
  /\ me' = [me EXCEPT ![p].depth = @ - 1]
  /\ UNCHANGED file

\* Mutated form: the count is compared before it is taken down.
LeaveOffByOne(p) ==
  /\ At(p, "cs")
  /\ me' = [me EXCEPT ![p].depth = @ - 1, ![p].pc = IF me[p].depth = 0 THEN "relOpen" ELSE "cs"]
  /\ UNCHANGED <<path, file>>

\* releaseHeldLock: the outermost action's end releases the file.
Leave(p) ==
  /\ At(p, "cs")
  /\ me' = [me EXCEPT ![p].depth = @ - 1, ![p].pc = IF me[p].depth = 1 THEN "relOpen" ELSE "cs"]
  /\ UNCHANGED <<path, file>>

Release(p) ==
  /\ \/ At(p, "relOpen") /\ path["lock"] # me[p].own
        /\ me' = [me EXCEPT ![p] = Idle] /\ UNCHANGED <<path, file>>
     \/ At(p, "relUnlink") /\ Gone(p, "lock")
        /\ me' = [Outdated(path["lock"]) EXCEPT ![p] = Idle]

-----------------------------------------------------------------------------

Begin(p) == At(p, "idle") /\ Goto(p, "try") /\ UNCHANGED <<path, file>>

\* The process dies; what it created now has a dead owner.
Crash(p) ==
  /\ ~At(p, "idle") /\ (MarkerCrash \/ me[p].mark = NoInode)
  /\ file' = [i \in Inodes |-> IF i \in {me[p].own, me[p].mark}
                               THEN [file[i] EXCEPT !.dead = TRUE] ELSE file[i]]
  /\ me' = [me EXCEPT ![p] = Idle]
  /\ UNCHANGED path

\* Time passes.  A live process writes its metadata before the ownerless age.
Age(i) ==
  /\ ~file[i].old /\ \E n \in Names : path[n] = i
  /\ file[i].written \/ file[i].dead \/ SlowWriters
  /\ file' = [file EXCEPT ![i].old = TRUE]
  /\ UNCHANGED <<path, me>>

Step(p) ==
  \/ CreateLock(p) \/ CreateMarker(p) \/ Occupied(p) \/ (\E io \in BOOLEAN : Write(p, io)) \/ Judge(p) \/ Recheck(p)
  \/ Compare(p) \/ Reclaim(p) \/ ReclaimMarker(p) \/ Unmark(p) \/ Retry(p)
  \/ Leave(p) \/ Release(p)

Next ==
  \/ \E p \in Procs : Begin(p) \/ Step(p) \/ GiveUp(p) \/ Reenter(p) \/ Crash(p)
  \/ \E i \in Inodes : Age(i)

Spec == Init /\ [][Next]_vars

\* A live process goes on; its action ends, however many actions it nests; files grow old.
FairSpec == /\ Spec
            /\ \A p \in Procs : WF_vars(Step(p)) /\ SF_vars(me[p].depth = 1 /\ Leave(p))
            /\ \A i \in Inodes : WF_vars(Age(i))

-----------------------------------------------------------------------------

Inside == {p \in Procs : At(p, "cs")}

\* Two actions never run at the same time under the lock of one session.
MutualExclusion == \A p, q \in Inside : p = q

\* The lock implements the exclusive lock its callers rely on.
Exclusive == INSTANCE ExclusiveLock WITH holders <- Inside
ImplementsExclusiveLock == Exclusive!Spec

\* While an action runs the lock file is in place and is the file of that process,
\* so that no later `wx` succeeds and observeSessionLock reports the lock as active.
HolderOwnsTheFile == \A p \in Inside : path["lock"] = me[p].own /\ ~file[me[p].own].dead

\* If processes do not die, nor their writes fail, for ever, a lock file left by a dead
\* process does not outlast the processes that want the lock: stale locks and stale
\* markers are reclaimed.
FailuresStop == <>[][~\E p \in Procs : Crash(p) \/ Write(p, FALSE)]_vars
DeadLockIsReclaimed ==
  FailuresStop =>
    ((\E i \in Inodes : path["lock"] = i /\ file[i].dead)
       ~> \/ path["lock"] = NoInode \/ ~file[path["lock"]].dead
          \/ \A p \in Procs : At(p, "idle"))
=============================================================================
