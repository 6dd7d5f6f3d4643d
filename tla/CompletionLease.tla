-------------------------- MODULE CompletionLease --------------------------
(***************************************************************************)
(* withTaskCompletionLock: the lease under which `done` runs its commands.   *)
(* A lock file made with `wx+` names the holder; a fence file counts the     *)
(* leases granted.  The lock of a dead holder is unlinked by whoever wants   *)
(* it, without a marker: two processes may do so at once, and the one whose  *)
(* lock was unlinked must find out before it commits (assertOwned).          *)
(*                                                                         *)
(* A commit is one step: it runs under the session lock, which a later       *)
(* holder needs for its own commits (module SessionLock).                    *)
(***************************************************************************)
EXTENDS Naturals

CONSTANTS
  Procs, NoProc, Inodes, NoInode,
  MaxGen         \* bound on the generation

ASSUME NamesAssumption == NoProc \notin Procs /\ NoInode \notin Inodes
ASSUME LeaseAssumption == MaxGen \in Nat \ {0}

VARIABLES
  path,    \* the inode the lock's path names
  file,    \* [Inodes -> metadata readable?, owner dead?]
  fence,   \* the fence file: generation, whether readable, who knows its identity
  me,      \* [Procs -> what the process knows]
  latest,  \* history: the process that created the lock last
  torn     \* history: a process died, or a rewrite failed for good, half way through a
           \* rewrite of the lock or the fence

vars == <<path, file, fence, me, latest, torn>>

PCs == {"idle", "try", "compare", "unlink", "wait", "fence", "fresh", "truncate", "write", "check",
        "meta", "cleanup", "cleanUnlink", "held", "beat", "probe", "relUnlink"}

\* own: the lock file created; exp, same: the dead owner's file, and whether its
\* identity (which includes ctime) is unchanged; gen: the generation read or granted.
Proc == [pc : PCs, own : Inodes \cup {NoInode}, exp : Inodes \cup {NoInode}, same : BOOLEAN,
         gen : 0..MaxGen, lost : BOOLEAN]
Idle == [pc |-> "idle", own |-> NoInode, exp |-> NoInode, same |-> FALSE,
         gen |-> 0, lost |-> FALSE]

TypeOK == /\ path \in Inodes \cup {NoInode}
          /\ file \in [Inodes -> [meta : BOOLEAN, dead : BOOLEAN]]
          /\ fence \in [gen : 0..MaxGen, ok : BOOLEAN, known : SUBSET Procs]
          /\ me \in [Procs -> Proc]
          /\ latest \in Procs \cup {NoProc} /\ torn \in BOOLEAN

Init == /\ path = NoInode
        /\ file = [i \in Inodes |-> [meta |-> FALSE, dead |-> FALSE]]
        /\ fence = [gen |-> 0, ok |-> TRUE, known |-> {}]
        /\ me = [p \in Procs |-> Idle]
        /\ latest = NoProc /\ torn = FALSE

-----------------------------------------------------------------------------

At(p, pc)   == me[p].pc = pc
Goto(p, pc) == me' = [me EXCEPT ![p].pc = pc]

Unused(i) == path # i /\ \A p \in Procs : i # me[p].own

\* A write or an unlink changes the ctime: identities taken before do not match.
Changed(i) == [q \in Procs |-> IF me[q].exp = i THEN [me[q] EXCEPT !.same = FALSE] ELSE me[q]]

Create(p) ==
  /\ At(p, "try") /\ path = NoInode
  /\ \E i \in Inodes :
       /\ Unused(i) /\ path' = i
       /\ file' = [file EXCEPT ![i] = [meta |-> FALSE, dead |-> FALSE]]
       /\ me' = [me EXCEPT ![p] = [Idle EXCEPT !.pc = "fence", !.own = i]]
  /\ latest' = p
  /\ UNCHANGED <<fence, torn>>

\* Mutated form: a process that is gone (ESRCH) is taken for alive.
NeverDead(i) == FALSE

\* The metadata can be parsed and names a process of this host that is dead.
Dead(i) == file[i].meta /\ file[i].dead

\* reclaimDeadOwner reads the lock that is in the way.
ReadOwner(p) ==
  /\ At(p, "try") /\ path # NoInode
  /\ IF Dead(path) THEN me' = [me EXCEPT ![p].pc = "compare", ![p].exp = path, ![p].same = TRUE]
                   ELSE Goto(p, "wait")
  /\ UNCHANGED <<path, file, fence, latest, torn>>

\* unlinkOwned opens the path and compares identities ...
Compare(p) ==
  /\ \/ At(p, "compare") /\ Goto(p, IF path = me[p].exp /\ me[p].same THEN "unlink" ELSE "wait")
     \/ At(p, "cleanup") /\ path = me[p].own /\ Goto(p, "cleanUnlink")
     \/ At(p, "cleanup") /\ path # me[p].own /\ me' = [me EXCEPT ![p] = Idle]
  /\ UNCHANGED <<path, file, fence, latest, torn>>

\* ... and unlinks whatever the path names by then.
Unlink(p) ==
  /\ me[p].pc \in {"unlink", "cleanUnlink", "relUnlink"}
  /\ path' = NoInode
  /\ me' = [Changed(path) EXCEPT ![p] =
              [Idle EXCEPT !.pc = CASE ~At(p, "unlink") -> "idle"
                                    [] At(p, "unlink") /\ path = NoInode -> "wait"
                                    [] OTHER -> "try"]]
  /\ UNCHANGED <<file, fence, latest, torn>>

Retry(p) == At(p, "wait") /\ Goto(p, "try") /\ UNCHANGED <<path, file, fence, latest, torn>>

\* TaskCompletionBusyError.
GiveUp(p) == At(p, "wait") /\ me' = [me EXCEPT ![p] = Idle] /\ UNCHANGED <<path, file, fence, latest, torn>>

-----------------------------------------------------------------------------
(* incrementGeneration.  The first fence, 1, is published with a link.      *)

Absent == fence.gen = 0 /\ fence.ok

\* An error may come before the link, or after it.
Publish(p, io) ==
  /\ At(p, "fresh")
  /\ IF io /\ Absent
     THEN /\ fence' = [gen |-> 1, ok |-> TRUE, known |-> {p}]
          /\ me' = [me EXCEPT ![p].pc = "meta", ![p].gen = 1]
     ELSE /\ fence' \in {fence, IF Absent THEN [gen |-> 1, ok |-> TRUE, known |-> {}] ELSE fence}
          /\ Goto(p, "cleanup")
  /\ UNCHANGED <<path, file, latest, torn>>

\* An existing fence is read; one that cannot be parsed is an error.
ReadFence(p) ==
  /\ At(p, "fence")
  /\ IF Absent THEN Goto(p, "fresh")
     ELSE IF fence.ok /\ fence.gen < MaxGen
     THEN me' = [me EXCEPT ![p].pc = "truncate", ![p].gen = fence.gen]
     ELSE Goto(p, "cleanup")
  /\ UNCHANGED <<path, file, fence, latest, torn>>

Truncate(p) ==
  /\ At(p, "truncate")
  /\ fence' = [fence EXCEPT !.ok = FALSE, !.known = {}]
  /\ Goto(p, "write")
  /\ UNCHANGED <<path, file, latest, torn>>

\* Mutated form: a failed write leaves the fence as it is.
WriteUnrestored(p, io) ==
  /\ At(p, "write")
  /\ fence' = IF io THEN [gen |-> me[p].gen + 1, ok |-> TRUE, known |-> {}] ELSE fence
  /\ Goto(p, IF io THEN "check" ELSE "cleanup")
  /\ UNCHANGED <<path, file, latest, torn>>

\* A failed write restores the generation that was read, and then fails; the restore
\* itself may fail too.
Write(p, io) ==
  /\ At(p, "write")
  /\ \/ /\ fence' = [gen |-> IF io THEN me[p].gen + 1 ELSE me[p].gen, ok |-> TRUE, known |-> {}]
        /\ UNCHANGED torn
     \/ ~io /\ torn' = TRUE /\ UNCHANGED fence
  /\ Goto(p, IF io THEN "check" ELSE "cleanup")
  /\ UNCHANGED <<path, file, latest>>

\* The identity of the fence is taken from the descriptor, then its content is read.
Check(p) ==
  /\ At(p, "check")
  /\ IF fence.ok /\ fence.gen = me[p].gen + 1
     THEN /\ fence' = [fence EXCEPT !.known = @ \cup {p}]
          /\ me' = [me EXCEPT ![p].pc = "meta", ![p].gen = @ + 1]
     ELSE Goto(p, "cleanup") /\ UNCHANGED fence
  /\ UNCHANGED <<path, file, latest, torn>>

\* The lease is granted when its metadata is written.
Grant(p, io) ==
  /\ At(p, "meta")
  /\ file' = [file EXCEPT ![me[p].own].meta = io]
  /\ me' = [Changed(me[p].own) EXCEPT ![p].pc = IF io THEN "held" ELSE "cleanup"]
  /\ UNCHANGED <<path, fence, latest, torn>>

-----------------------------------------------------------------------------

\* Mutated form: the fence alone is looked at.
OwnedByFence(p) == fence.ok /\ fence.gen = me[p].gen

\* assertOwned: the lock and the fence are still the files, and say what, p wrote.
Owned(p) == /\ ~me[p].lost
            /\ path = me[p].own /\ file[me[p].own].meta
            /\ fence.ok /\ fence.gen = me[p].gen /\ p \in fence.known

\* A commit of the action: it goes through only if assertOwned does.
Commit(p) == At(p, "held") /\ Owned(p) /\ UNCHANGED vars

\* The heartbeat rewrites the metadata, in two steps.
Beat(p) ==
  /\ At(p, "held")
  /\ IF Owned(p) THEN /\ file' = [file EXCEPT ![me[p].own].meta = FALSE]
                      /\ me' = [Changed(me[p].own) EXCEPT ![p].pc = "beat"]
                 ELSE me' = [me EXCEPT ![p].lost = TRUE] /\ UNCHANGED file
  /\ UNCHANGED <<path, fence, latest, torn>>

Beaten(p, io) ==
  /\ At(p, "beat") /\ torn' = (torn \/ ~io)
  /\ file' = [file EXCEPT ![me[p].own].meta = io]
  /\ me' = [Changed(me[p].own) EXCEPT ![p].pc = "held", ![p].lost = ~io]
  /\ UNCHANGED <<path, fence, latest>>

\* The process ends and leaves its file, if it is still there, to whoever finds it.
Leaves(p) == [file EXCEPT ![me[p].own].dead = TRUE]

\* The action is over: a last assertOwned, a probe written and read back, the unlink.
Finish(p) ==
  /\ At(p, "held")
  /\ IF Owned(p) THEN /\ file' = [file EXCEPT ![me[p].own].meta = FALSE]
                      /\ me' = [Changed(me[p].own) EXCEPT ![p].pc = "probe"]
                 ELSE me' = [me EXCEPT ![p] = Idle] /\ file' = Leaves(p)
  /\ UNCHANGED <<path, fence, latest, torn>>

Probe(p, io) ==
  /\ At(p, "probe") /\ torn' = (torn \/ ~io)
  /\ IF io /\ path = me[p].own
     THEN /\ file' = [file EXCEPT ![path].meta = TRUE]
          /\ me' = [Changed(path) EXCEPT ![p].pc = "relUnlink"]
     ELSE me' = [me EXCEPT ![p] = Idle] /\ file' = Leaves(p)
  /\ UNCHANGED <<path, fence, latest>>

-----------------------------------------------------------------------------

Begin(p) == At(p, "idle") /\ Goto(p, "try") /\ UNCHANGED <<path, file, fence, latest, torn>>

Rewriting(p) == me[p].pc \in {"fence", "fresh", "truncate", "write", "check", "meta", "beat", "probe",
                              "cleanup", "cleanUnlink"}

Crash(p) ==
  /\ ~At(p, "idle") /\ torn' = (torn \/ Rewriting(p))
  /\ file' = IF me[p].own \in Inodes THEN Leaves(p) ELSE file
  /\ me' = [me EXCEPT ![p] = Idle]
  /\ fence' = [fence EXCEPT !.known = @ \ {p}]
  /\ UNCHANGED <<path, latest>>

Step(p) ==
  \/ Create(p) \/ ReadOwner(p) \/ Compare(p) \/ Unlink(p) \/ Retry(p)
  \/ ReadFence(p) \/ Truncate(p) \/ Check(p) \/ Finish(p)
  \/ \E io \in BOOLEAN : Publish(p, io) \/ Write(p, io) \/ Grant(p, io) \/ Beaten(p, io) \/ Probe(p, io)

Next == \E p \in Procs : Begin(p) \/ Step(p) \/ GiveUp(p) \/ Commit(p) \/ Beat(p) \/ Crash(p)

Spec == Init /\ [][Next]_vars
FairSpec == Spec /\ \A p \in Procs : WF_vars(Step(p))

-----------------------------------------------------------------------------

\* Only the process that created the lock last can commit: whoever lost its lock to
\* another reclaimer of the same dead owner is fenced off.
OnlyLatestCommits == \A p \in Procs : At(p, "held") /\ Owned(p) => latest = p

\* Unless a process died in the middle, or the restore failed too, a fence that cannot
\* be parsed is being written: I/O errors restore it, so that no later lease is refused
\* on its account (restoreGeneration).
FenceIsRestored == ~fence.ok => torn \/ \E p \in Procs : At(p, "write")

\* If processes do not die for ever, and none died or failed half way through a rewrite,
\* the lock of a dead holder goes away (reclaimDeadOwner).
CrashesStop == <>[][~\E p \in Procs : Crash(p)]_vars
DeadOwnerIsReclaimed ==
  CrashesStop /\ []~torn =>
    ((\E i \in Inodes : path = i /\ file[i].dead)
       ~> (path = NoInode \/ ~file[path].dead \/ \A p \in Procs : At(p, "idle")))
=============================================================================
