-------------------------- MODULE SessionLockProofs --------------------------
(*****************************************************************************)
(* The session lock is an exclusive lock, as long as no process leaves its   *)
(* reclaim marker behind and none stays between the creation of its file     *)
(* and the metadata beyond the ownerless age.                                *)
(*****************************************************************************)
EXTENDS SessionLock, TLAPS

USE InodesAssumption, SwitchAssumption

\* The steps at which a process has its marker in place, and its lock.
Marking == {"marked", "recheck", "lockOpen", "lockUnlink", "unmarkOpen", "unmarkUnlink"}
Owning  == {"created", "cs", "relOpen", "relUnlink"}

\* What a process may know at any time. Markers are never found stale, and a lock is only
\* opened and unlinked while it is the one that was judged.
Fits(x) ==
  /\ x \in Proc
  /\ x.pc \in Marking <=> x.mark # NoInode
  /\ x.pc \in Owning <=> x.own # NoInode
  /\ x.pc = "cs" => x.depth > 0
  /\ x.pc \notin {"markOpen", "markUnlink"}
  /\ x.pc \in {"lockOpen", "lockUnlink"} => x.same
Placed == \A p \in Procs : Fits(me[p])

\* A path names the file of whoever holds it, and that process lives.
Named ==
  /\ \A p \in Procs : me[p].own # NoInode => path["lock"] = me[p].own /\ ~file[me[p].own].dead
  /\ \A p \in Procs : me[p].mark # NoInode => path["marker"] = me[p].mark /\ ~file[me[p].mark].dead
  /\ \A p \in Procs : me[p].pc = "created" => ~file[me[p].own].written

\* No two processes have created the same file.
Alone ==
  /\ \A p, q \in Procs : me[p].own = me[q].own /\ me[p].own # NoInode => p = q
  /\ \A p, q \in Procs : me[p].mark = me[q].mark /\ me[p].mark # NoInode => p = q

\* A marker has a process that will remove it; a file only grows old with its metadata, or dead.
Kept ==
  /\ path["lock"] = path["marker"] => path["lock"] = NoInode
  /\ path["marker"] # NoInode => \E p \in Procs : me[p].mark = path["marker"]
  /\ \A i \in Inodes : file[i].old => file[i].written \/ file[i].dead

\* A signature that still holds is that of the lock in place, and its owner is dead.
Judged ==
  \A p \in Procs : me[p].same =>
    path["lock"] # NoInode /\ me[p].exp = path["lock"] /\ file[path["lock"]].dead

FilesTyped == path \in [Names -> Inodes \cup {NoInode}] /\ file \in [Inodes -> File]
LockInv == FilesTyped /\ me \in [Procs -> Proc] /\ Placed /\ Named /\ Alone /\ Kept /\ Judged

-----------------------------------------------------------------------------

LEMMA ForgetKeeps ==
  ASSUME NEW x \in Proc
  PROVE  LET y == [x EXCEPT !.same = FALSE] IN
         /\ y \in Proc /\ ~y.same /\ y.pc = x.pc /\ y.exp = x.exp /\ y.own = x.own
         /\ y.mark = x.mark /\ y.got = x.got /\ y.depth = x.depth
  BY DEF Proc

\* Whoever judged the inode i forgets its signature; nothing else changes.
LEMMA OutdatedKeeps ==
  ASSUME me \in [Procs -> Proc], NEW i
  PROVE  /\ Outdated(i) \in [Procs -> Proc]
         /\ \A q \in Procs : LET y == Outdated(i)[q] IN
              /\ y.pc = me[q].pc /\ y.exp = me[q].exp /\ y.own = me[q].own
              /\ y.mark = me[q].mark /\ y.got = me[q].got /\ y.depth = me[q].depth
              /\ y.same <=> me[q].same /\ me[q].exp # i
  <1>1. ASSUME NEW q \in Procs
        PROVE  LET y == Outdated(i)[q] IN
              /\ y \in Proc
              /\ y.pc = me[q].pc /\ y.exp = me[q].exp /\ y.own = me[q].own
              /\ y.mark = me[q].mark /\ y.got = me[q].got /\ y.depth = me[q].depth
              /\ y.same <=> me[q].same /\ me[q].exp # i
    <2>1. me[q] \in Proc
      OBVIOUS
    <2>2. Outdated(i)[q] = IF me[q].exp = i THEN [me[q] EXCEPT !.same = FALSE] ELSE me[q]
      BY DEF Outdated
    <2>3. QED
      BY <2>1, <2>2, ForgetKeeps
  <1>2. QED
    BY <1>1 DEF Outdated

\* The other processes stay where they are; those that judged inode i forget its signature.
Others(p, i) ==
  \A q \in Procs \ {p} :
    /\ Fits(me'[q]) /\ me'[q].pc = me[q].pc /\ me'[q].own = me[q].own /\ me'[q].mark = me[q].mark
    /\ me'[q].exp = me[q].exp
    /\ me'[q].same => me[q].same /\ me[q].exp # i

Stays(p) == \A q \in Procs \ {p} : me'[q] = me[q]

\* The step of p that makes it x.
Becomes(p, x) == me' \in [Procs -> Proc] /\ me'[p] = x /\ Fits(x)

LEMMA PutAlone ==
  ASSUME LockInv, NEW p \in Procs, NEW x, Fits(x), me' = [me EXCEPT ![p] = x]
  PROVE  Becomes(p, x) /\ Stays(p)
  <1>1. me \in [Procs -> Proc] /\ x \in Proc
    BY DEF LockInv, Fits
  <1>2. QED
    BY <1>1 DEF Becomes, Stays

LEMMA PutOutdating ==
  ASSUME LockInv, NEW p \in Procs, NEW x, Fits(x), NEW i, me' = [Outdated(i) EXCEPT ![p] = x],
         \A q \in Procs \ {p} : me[q].same /\ me[q].exp = i => me[q].pc \notin {"lockOpen", "lockUnlink"}
  PROVE  Becomes(p, x) /\ Others(p, i)
  <1>1. me \in [Procs -> Proc] /\ x \in Proc /\ \A q \in Procs : Fits(me[q])
    BY DEF LockInv, Fits, Placed
  <1>2. Becomes(p, x) /\ \A q \in Procs \ {p} : me'[q] = Outdated(i)[q]
    BY <1>1, OutdatedKeeps DEF Becomes
  <1>3. ASSUME NEW q \in Procs \ {p}
        PROVE  /\ Fits(me'[q]) /\ me'[q].pc = me[q].pc /\ me'[q].own = me[q].own
               /\ me'[q].mark = me[q].mark /\ me'[q].exp = me[q].exp
               /\ me'[q].same => me[q].same /\ me[q].exp # i
    <2>1. PICK y : y = me'[q]
      OBVIOUS
    <2>2. /\ y \in Proc /\ y.pc = me[q].pc /\ y.exp = me[q].exp /\ y.own = me[q].own
          /\ y.mark = me[q].mark /\ y.depth = me[q].depth
          /\ y.same <=> me[q].same /\ me[q].exp # i
      BY <1>1, <1>2, <2>1, OutdatedKeeps
    <2>3. me[q].pc \in {"lockOpen", "lockUnlink"} => me[q].exp # i
      BY <1>1 DEF Fits
    <2>4. Fits(y)
      BY <1>1, <2>2, <2>3 DEF Fits
    <2>5. QED
      BY <2>1, <2>2, <2>4
  <1>4. QED
    BY <1>2, <1>3 DEF Others

LEMMA InitInv == Init => LockInv
  <1> SUFFICES ASSUME Init PROVE LockInv
    OBVIOUS
  <1>1. Idle \in Proc /\ Fits(Idle) /\ Idle.own = NoInode /\ Idle.mark = NoInode /\ Idle.pc = "idle" /\ ~Idle.same
    BY DEF Idle, Proc, PCs, Fits, Marking, Owning
  <1>2. me \in [Procs -> Proc] /\ \A p \in Procs : me[p] = Idle
    BY <1>1 DEF Init
  <1>3. FilesTyped
    BY DEF Init, FilesTyped, File, New, Names
  <1>4. path["lock"] = NoInode /\ path["marker"] = NoInode /\ \A i \in Inodes : ~file[i].old
    BY DEF Init, Names, New
  <1>5. QED
    BY <1>1, <1>2, <1>3, <1>4 DEF LockInv, Placed, Named, Alone, Kept, Judged

-----------------------------------------------------------------------------
(* The steps that look, and change no file.                                 *)

LEMMA Walk ==
  ASSUME LockInv, NEW p \in Procs, NEW x, Becomes(p, x), Stays(p), UNCHANGED <<path, file>>,
         x.own = me[p].own, x.mark = me[p].mark, x.pc = "created" => me[p].pc = "created",
         x.same => path["lock"] # NoInode /\ x.exp = path["lock"] /\ file[path["lock"]].dead
  PROVE  LockInv'
  <1>1. \A q \in Procs : me'[q].own = me[q].own /\ me'[q].mark = me[q].mark
    BY DEF Becomes, Stays
  <1>2. Placed'
    BY DEF Becomes, Stays, LockInv, Placed
  <1>3. Named'
    BY <1>1 DEF Becomes, Stays, LockInv, Named
  <1>4. Alone'
    BY <1>1 DEF LockInv, Alone
  <1>5. Kept'
    BY <1>1 DEF LockInv, Kept
  <1>6. Judged'
    BY DEF Becomes, Stays, LockInv, Judged
  <1>7. QED
    BY <1>2, <1>3, <1>4, <1>5, <1>6 DEF LockInv, FilesTyped, Becomes

LEMMA MoveFits ==
  ASSUME NEW y, Fits(y), NEW pc \in PCs,
         y.pc \in Marking <=> pc \in Marking, y.pc \in Owning <=> pc \in Owning,
         pc # "cs", pc \notin {"markOpen", "markUnlink"}, pc \in {"lockOpen", "lockUnlink"} => y.same
  PROVE  LET x == [y EXCEPT !.pc = pc] IN
         /\ Fits(x) /\ x.pc = pc /\ x.own = y.own /\ x.mark = y.mark /\ x.same = y.same /\ x.exp = y.exp
  BY DEF Fits, Proc

\* A process that goes on to another step, and learns nothing.
LEMMA GotoKeeps ==
  ASSUME LockInv, NEW p \in Procs, NEW pc \in PCs, Goto(p, pc), UNCHANGED <<path, file>>,
         me[p].pc \in Marking <=> pc \in Marking, me[p].pc \in Owning <=> pc \in Owning,
         pc \notin {"cs", "created", "markOpen", "markUnlink"},
         pc \in {"lockOpen", "lockUnlink"} => me[p].same
  PROVE  LockInv'
  <1>1. Fits(me[p])
    BY DEF LockInv, Placed
  <1>2. PICK x : x = [me[p] EXCEPT !.pc = pc]
    OBVIOUS
  <1>3. /\ Fits(x) /\ x.pc = pc /\ x.own = me[p].own /\ x.mark = me[p].mark
        /\ x.same = me[p].same /\ x.exp = me[p].exp
    BY <1>1, <1>2, MoveFits
  <1>4. Becomes(p, x) /\ Stays(p)
    BY <1>2, <1>3, PutAlone DEF Goto
  <1>5. QED
    BY <1>3, <1>4, Walk DEF LockInv, Judged

LEMMA IdleFits ==
  ASSUME NEW pc \in {"idle", "try", "wait"}
  PROVE  LET x == [Idle EXCEPT !.pc = pc] IN
         Fits(x) /\ x.pc = pc /\ x.own = NoInode /\ x.mark = NoInode /\ ~x.same
  <1>1. PICK x : x = [Idle EXCEPT !.pc = pc]
    OBVIOUS
  <1>2. x = [pc |-> pc, exp |-> NoInode, same |-> FALSE, own |-> NoInode,
             mark |-> NoInode, got |-> FALSE, depth |-> 0]
    BY <1>1 DEF Idle
  <1>3. x \in Proc
    BY <1>2 DEF Proc, PCs
  <1>4. QED
    BY <1>1, <1>2, <1>3 DEF Fits, Marking, Owning

LEMMA IdleItself ==
  Fits(Idle) /\ Idle.pc = "idle" /\ Idle.own = NoInode /\ Idle.mark = NoInode /\ ~Idle.same
  <1>1. Idle \in Proc
    BY DEF Idle, Proc, PCs
  <1>2. QED
    BY <1>1 DEF Idle, Fits, Marking, Owning

\* No marker is ever found stale: whoever made it is alive, and wrote it in time.
LEMMA MarkersAreFresh ==
  ASSUME LockInv PROVE ~Stale("marker")
  BY DEF LockInv, Kept, Named, Stale, FilesTyped, Names

\* A lock that is found stale is that of a dead process.
LEMMA StaleIsDead ==
  ASSUME LockInv, Stale("lock") PROVE path["lock"] # NoInode /\ file[path["lock"]].dead
  BY DEF LockInv, Kept, Stale, FilesTyped, Names

LEMMA LooksKeep ==
  ASSUME LockInv, NEW p \in Procs,
         \/ Begin(p) \/ Occupied(p) \/ Judge(p) \/ Recheck(p) \/ Compare(p) \/ Retry(p) \/ GiveUp(p)
         \/ Reenter(p) \/ Leave(p)
  PROVE  LockInv'
  <1>1. Fits(me[p]) /\ me \in [Procs -> Proc]
    BY DEF LockInv, Placed
  <1>2. CASE Begin(p) \/ Retry(p)
    BY <1>2, GotoKeeps DEF Begin, Retry, At, PCs, Marking, Owning
  <1>3. CASE Occupied(p)
    BY <1>3, GotoKeeps DEF Occupied, At, PCs, Marking, Owning
  <1>4. CASE Judge(p)
    <2>1. CASE At(p, "judge") /\ Stale("lock")
      <3>1. PICK x : x = [me[p] EXCEPT !.pc = "mark", !.exp = path["lock"], !.same = TRUE]
        OBVIOUS
      <3>2. me' = [me EXCEPT ![p] = x] /\ UNCHANGED <<path, file>>
        BY <1>4, <2>1, <3>1, ZenonT(60) DEF Judge, At, Names
      <3>3. path["lock"] # NoInode /\ file[path["lock"]].dead /\ path["lock"] \in Inodes \cup {NoInode}
        BY <2>1, StaleIsDead DEF LockInv, FilesTyped, Names
      <3>4. x \in Proc /\ x.pc = "mark" /\ x.exp = path["lock"] /\ x.own = me[p].own /\ x.mark = me[p].mark
        BY <1>1, <3>1, <3>3, ZenonT(60) DEF Proc, PCs
      <3>5. Fits(x)
        BY <1>1, <2>1, <3>4 DEF Fits, At, Marking, Owning
      <3>6. Becomes(p, x) /\ Stays(p)
        BY <3>2, <3>5, PutAlone
      <3>7. QED
        BY <3>2, <3>3, <3>4, <3>6, Walk
    <2>2. CASE ~(At(p, "judge") /\ Stale("lock"))
      <3>1. (At(p, "judge") \/ At(p, "markJudge")) /\ Goto(p, "wait") /\ UNCHANGED <<path, file>>
        BY <1>4, <2>2, MarkersAreFresh DEF Judge, At, Names
      <3>2. QED
        BY <3>1, GotoKeeps DEF At, PCs, Marking, Owning
    <2>3. QED
      BY <2>1, <2>2
  <1>5. CASE Recheck(p)
    BY <1>5, GotoKeeps DEF Recheck, At, PCs, Marking, Owning
  <1>6. CASE Compare(p)
    <2>1. me[p].pc \notin {"markOpen", "markUnlink"} /\ (me[p].pc = "lockOpen" => me[p].same)
      BY <1>1 DEF Fits
    <2>2. QED
      BY <1>6, <2>1, GotoKeeps DEF Compare, At, PCs, Marking, Owning
  <1>7. CASE GiveUp(p)
    <2>1. me' = [me EXCEPT ![p] = Idle] /\ At(p, "wait") /\ UNCHANGED <<path, file>>
      BY <1>7 DEF GiveUp
    <2>2. Fits(Idle) /\ Idle.pc = "idle" /\ Idle.own = NoInode /\ Idle.mark = NoInode /\ ~Idle.same
      BY IdleItself
    <2>3. Becomes(p, Idle) /\ Stays(p)
      BY <2>1, <2>2, PutAlone
    <2>4. me[p].own = NoInode /\ me[p].mark = NoInode
      BY <1>1, <2>1 DEF Fits, At, Marking, Owning
    <2>5. QED
      BY <2>1, <2>2, <2>3, <2>4, Walk
  <1>8. CASE Reenter(p)
    <2>1. PICK x : x = [me[p] EXCEPT !.depth = @ + 1]
      OBVIOUS
    <2>2. me' = [me EXCEPT ![p] = x] /\ UNCHANGED <<path, file>> /\ me[p].pc = "cs" /\ me[p].depth < MaxDepth
      BY <1>8, <2>1 DEF Reenter, At
    <2>3. me[p].depth \in 0..MaxDepth
      BY <1>1 DEF Proc
    <2>4. me[p].depth + 1 \in 0..MaxDepth /\ me[p].depth + 1 > 0
      BY <2>2, <2>3
    <2>5. /\ x \in Proc /\ x.pc = "cs" /\ x.own = me[p].own /\ x.mark = me[p].mark
          /\ x.exp = me[p].exp /\ x.same = me[p].same /\ x.depth > 0
      BY <1>1, <2>1, <2>2, <2>4 DEF Proc
    <2>6. Fits(x)
      BY <1>1, <2>2, <2>5 DEF Fits, Marking, Owning
    <2>7. Becomes(p, x) /\ Stays(p)
      BY <2>2, <2>6, PutAlone
    <2>8. QED
      BY <2>2, <2>5, <2>7, Walk DEF LockInv, Judged
  <1>9. CASE Leave(p)
    <2>1. PICK pc \in {"relOpen", "cs"} : pc = IF me[p].depth = 1 THEN "relOpen" ELSE "cs"
      OBVIOUS
    <2>2. PICK x : x = [me[p] EXCEPT !.depth = @ - 1, !.pc = pc]
      OBVIOUS
    <2>3. me' = [me EXCEPT ![p] = x] /\ UNCHANGED <<path, file>> /\ me[p].pc = "cs"
      BY <1>9, <2>1, <2>2 DEF Leave, At
    <2>4. me[p].depth \in 0..MaxDepth /\ me[p].depth > 0
      BY <1>1, <2>3 DEF Fits, Proc
    <2>5. me[p].depth - 1 \in 0..MaxDepth /\ (pc = "cs" => me[p].depth - 1 > 0)
      BY <2>1, <2>4
    <2>6. /\ x \in Proc /\ x.pc = pc /\ x.own = me[p].own /\ x.mark = me[p].mark
          /\ x.exp = me[p].exp /\ x.same = me[p].same /\ x.depth = me[p].depth - 1
      BY <1>1, <2>1, <2>2, <2>5, ZenonT(60) DEF Proc, PCs
    <2>7. Fits(x)
      BY <1>1, <2>1, <2>3, <2>5, <2>6 DEF Fits, Marking, Owning
    <2>8. Becomes(p, x) /\ Stays(p)
      BY <2>3, <2>7, PutAlone
    <2>9. QED
      BY <2>1, <2>3, <2>6, <2>8, Walk DEF LockInv, Judged
  <1>10. QED
    BY <1>2, <1>3, <1>4, <1>5, <1>6, <1>7, <1>8, <1>9

-----------------------------------------------------------------------------
(* The steps that create, write or remove a file.                           *)

LEMMA CreateLockKeeps ==
  ASSUME LockInv, NEW p \in Procs, CreateLock(p) PROVE LockInv'
  <1>1. Fits(me[p]) /\ me \in [Procs -> Proc] /\ FilesTyped
    BY DEF LockInv, Placed
  <1>2. PICK i \in Inodes : /\ Unused(i) /\ path' = [path EXCEPT !["lock"] = i]
                            /\ file' = [file EXCEPT ![i] = New]
                            /\ me' = [me EXCEPT ![p].pc = "created", ![p].own = i]
    BY DEF CreateLock
  <1>3. PICK x : x = [me[p] EXCEPT !.pc = "created", !.own = i]
    OBVIOUS
  <1>4. /\ x \in Proc /\ x.pc = "created" /\ x.own = i /\ x.mark = me[p].mark
        /\ x.same = me[p].same /\ x.exp = me[p].exp
    BY <1>1, <1>3, ZenonT(60) DEF Proc, PCs
  <1>5. At(p, "try") /\ path["lock"] = NoInode
    BY DEF CreateLock
  <1>6. Fits(x)
    BY <1>1, <1>4, <1>5 DEF Fits, At, Marking, Owning
  <1>7. Becomes(p, x) /\ Stays(p)
    BY <1>2, <1>3, <1>6, PutAlone
  <1>8. /\ path'["lock"] = i /\ path'["marker"] = path["marker"] /\ path["marker"] # i
        /\ file'[i] = New /\ \A j \in Inodes \ {i} : file'[j] = file[j]
        /\ FilesTyped'
    BY <1>1, <1>2 DEF FilesTyped, Unused, Names, File, New
  <1>9. \A q \in Procs : me[q].own # i /\ me[q].mark # i
    BY <1>2 DEF Unused, Open
  <1>10. \A q \in Procs : me[q].own = NoInode /\ ~me[q].same
    BY <1>5 DEF LockInv, Named, Judged
  <1>11. \A q \in Procs : me'[q].mark = me[q].mark /\ ~me'[q].same
    BY <1>4, <1>7, <1>10 DEF Becomes, Stays
  <1>12. \A q \in Procs \ {p} : me'[q].own = NoInode /\ me'[q].pc # "created"
    BY <1>7, <1>10 DEF Stays, LockInv, Placed, Fits, Owning
  <1>13. \A q \in Procs : me[q].mark # NoInode => me[q].mark \in Inodes \ {i}
    BY <1>1, <1>9 DEF Proc
  <1>14. Placed'
    BY <1>7 DEF Becomes, Stays, LockInv, Placed
  <1>15. Named'
    BY <1>4, <1>7, <1>8, <1>11, <1>12, <1>13 DEF Becomes, LockInv, Named, New
  <1>16. Alone'
    BY <1>11, <1>12 DEF LockInv, Alone
  <1>17. Kept'
    BY <1>8, <1>11 DEF LockInv, Kept, New
  <1>18. Judged'
    BY <1>11 DEF Judged
  <1>19. QED
    BY <1>7, <1>8, <1>14, <1>15, <1>16, <1>17, <1>18 DEF LockInv, Becomes

LEMMA CreateMarkerKeeps ==
  ASSUME LockInv, NEW p \in Procs, CreateMarker(p) PROVE LockInv'
  <1>1. Fits(me[p]) /\ me \in [Procs -> Proc] /\ FilesTyped
    BY DEF LockInv, Placed
  <1>2. PICK i \in Inodes : /\ Unused(i) /\ path' = [path EXCEPT !["marker"] = i]
                            /\ file' = [file EXCEPT ![i] = New]
                            /\ me' = [me EXCEPT ![p].pc = "marked", ![p].mark = i]
    BY DEF CreateMarker
  <1>3. PICK x : x = [me[p] EXCEPT !.pc = "marked", !.mark = i]
    OBVIOUS
  <1>4. /\ x \in Proc /\ x.pc = "marked" /\ x.own = me[p].own /\ x.mark = i
        /\ x.same = me[p].same /\ x.exp = me[p].exp
    BY <1>1, <1>3, ZenonT(60) DEF Proc, PCs
  <1>5. At(p, "mark") /\ path["marker"] = NoInode
    BY DEF CreateMarker
  <1>6. Fits(x)
    BY <1>1, <1>4, <1>5 DEF Fits, At, Marking, Owning
  <1>7. Becomes(p, x) /\ Stays(p)
    BY <1>2, <1>3, <1>6, PutAlone
  <1>8. /\ path'["marker"] = i /\ path'["lock"] = path["lock"] /\ path["lock"] # i
        /\ file'[i] = New /\ \A j \in Inodes \ {i} : file'[j] = file[j]
        /\ FilesTyped'
    BY <1>1, <1>2 DEF FilesTyped, Unused, Names, File, New
  <1>9. \A q \in Procs : me[q].own # i /\ me[q].mark # i
    BY <1>2 DEF Unused, Open
  <1>10. \A q \in Procs : me[q].mark = NoInode
    BY <1>5 DEF LockInv, Named
  <1>11. \A q \in Procs : me'[q].own = me[q].own /\ me'[q].same = me[q].same /\ me'[q].exp = me[q].exp
    BY <1>4, <1>7 DEF Becomes, Stays
  <1>12. \A q \in Procs \ {p} : me'[q].mark = NoInode
    BY <1>7, <1>10 DEF Stays
  <1>13. \A q \in Procs : me[q].own # NoInode => me[q].own \in Inodes \ {i}
    BY <1>1, <1>9 DEF Proc
  <1>14. Placed'
    BY <1>7 DEF Becomes, Stays, LockInv, Placed
  <1>15. \A q \in Procs : me'[q].pc = "created" => q # p /\ me[q].pc = "created" /\ me[q].own # NoInode
    BY <1>4, <1>7 DEF Becomes, Stays, LockInv, Placed, Fits, Owning
  <1>16. Named'
    BY <1>4, <1>7, <1>8, <1>11, <1>12, <1>13, <1>15 DEF Becomes, LockInv, Named, New
  <1>17. Alone'
    BY <1>11, <1>12 DEF LockInv, Alone
  <1>18. Kept'
    BY <1>4, <1>7, <1>8 DEF LockInv, Kept, New, Becomes
  <1>19. path["lock"] # NoInode => path["lock"] \in Inodes \ {i}
    BY <1>1, <1>8 DEF FilesTyped, Names
  <1>20. Judged'
    BY <1>8, <1>11, <1>19 DEF LockInv, Judged
  <1>21. QED
    BY <1>7, <1>8, <1>14, <1>16, <1>17, <1>18, <1>20 DEF LockInv, Becomes

\* A signature that holds is not that of a live process's file.
LEMMA JudgedIsDead ==
  ASSUME LockInv, NEW p \in Procs, NEW q \in Procs, me[q].same
  PROVE  /\ me[p].own # NoInode => me[q].exp # me[p].own
         /\ me[p].mark # NoInode => me[q].exp # me[p].mark
  BY DEF LockInv, Judged, Named, Kept

\* The owner, or the maker of the marker, has written its file.
LEMMA WriteKeeps ==
  ASSUME LockInv, ~MarkerCrash, NEW p \in Procs, NEW io \in BOOLEAN, Write(p, io)
  PROVE  LockInv'
  <1>1. Fits(me[p]) /\ me \in [Procs -> Proc] /\ FilesTyped /\ \A q \in Procs : me[q] \in Proc
    BY DEF LockInv, Placed
  <1>2. PICK i : i = IF At(p, "created") THEN me[p].own ELSE me[p].mark
    OBVIOUS
  <1>3. At(p, "created") \/ (At(p, "marked") /\ io)
    BY DEF Write
  <1>4. i \in Inodes
    BY <1>1, <1>2, <1>3 DEF Fits, At, Marking, Owning, Proc
  <1>5. PICK pc \in {"cs", "relOpen", "recheck"} : pc = IF At(p, "marked") THEN "recheck" ELSE IF io THEN "cs" ELSE "relOpen"
    OBVIOUS
  <1>6. PICK y : y = Outdated(i)[p]
    OBVIOUS
  <1>7. /\ y \in Proc /\ y.pc = me[p].pc /\ y.exp = me[p].exp /\ y.own = me[p].own
        /\ y.mark = me[p].mark /\ y.depth = me[p].depth
        /\ y.same <=> me[p].same /\ me[p].exp # i
    BY <1>1, <1>6, OutdatedKeeps
  <1>8. PICK n \in 0..MaxDepth : n = IF pc = "recheck" THEN me[p].depth ELSE IF pc = "cs" THEN 1 ELSE 0
    <2>1. me[p].depth \in 0..MaxDepth
      BY <1>1 DEF Proc
    <2>2. 0 \in 0..MaxDepth /\ 1 \in 0..MaxDepth
      BY SwitchAssumption
    <2>3. (IF pc = "recheck" THEN me[p].depth ELSE IF pc = "cs" THEN 1 ELSE 0) \in 0..MaxDepth
      BY <2>1, <2>2
    <2>4. QED
      BY <2>3
  <1>9. PICK x : x = [y EXCEPT !.pc = pc, !.depth = n]
    OBVIOUS
  <1>10. /\ x \in Proc /\ x.pc = pc /\ x.exp = me[p].exp /\ x.own = me[p].own
         /\ x.mark = me[p].mark /\ x.same = y.same /\ x.depth = n
    BY <1>5, <1>7, <1>8, <1>9, ZenonT(60) DEF Proc, PCs
  <1>11. me' = [Outdated(i) EXCEPT ![p] = x]
    <2>1. CASE At(p, "created")
      BY <1>2, <1>5, <1>6, <1>8, <1>9, <2>1, ZenonT(60) DEF Write, At
    <2>2. CASE At(p, "marked")
      <3>1. me' = [Outdated(i) EXCEPT ![p].pc = "recheck"]
        BY <1>2, <1>3, <2>2 DEF Write, At
      <3>2. [y EXCEPT !.pc = "recheck"] = x
        BY <1>5, <1>7, <1>8, <1>9, <2>2 DEF Proc
      <3>3. QED
        BY <1>6, <3>1, <3>2
    <2>3. QED
      BY <1>3, <2>1, <2>2
  <1>12. Fits(x)
    BY <1>1, <1>3, <1>5, <1>8, <1>10 DEF Fits, At, Marking, Owning
  <1>13. \A q \in Procs : me[q].same => me[q].exp # i
    BY <1>1, <1>2, <1>3, JudgedIsDead DEF Fits, At, Marking, Owning
  <1>14. Becomes(p, x) /\ Others(p, i)
    BY <1>11, <1>12, <1>13, PutOutdating
  <1>15. \A q \in Procs : /\ me'[q].own = me[q].own /\ me'[q].mark = me[q].mark /\ me'[q].exp = me[q].exp
                          /\ me'[q].same => me[q].same
                          /\ me'[q].pc = "created" => q # p /\ me[q].pc = "created"
    BY <1>5, <1>7, <1>10, <1>14 DEF Becomes, Others
  <1>16. path' = path /\ file' = [file EXCEPT ![i].written = io, ![i].dead = ~io /\ At(p, "marked")]
    BY <1>2 DEF Write
  <1>17. PICK f : f = [file[i] EXCEPT !.written = io, !.dead = ~io /\ At(p, "marked")]
    OBVIOUS
  <1>18. f \in File /\ f.written = io /\ ~f.dead /\ f.old = file[i].old
    BY <1>1, <1>3, <1>4, <1>17 DEF FilesTyped, File, At
  <1>19. file' = [file EXCEPT ![i] = f]
    BY <1>16, <1>17
  <1>20. file'[i] = f /\ (\A j \in Inodes \ {i} : file'[j] = file[j]) /\ FilesTyped'
    BY <1>1, <1>4, <1>16, <1>18, <1>19, ZenonT(60) DEF FilesTyped
  <1>21. f.old => f.written
    <2>1. CASE At(p, "created")
      BY <1>1, <1>2, <1>4, <1>18, <2>1 DEF LockInv, Named, Kept, At, Fits, Owning
    <2>2. QED
      BY <1>3, <1>18, <2>1
  <1>22. Placed'
    BY <1>14 DEF Becomes, Others, LockInv, Placed
  <1>23. Named'
    <2>1. \A j \in Inodes : ~file[j].dead => ~file'[j].dead
      BY <1>18, <1>20
    <2>2. \A q \in Procs : me[q].own \in Inodes \cup {NoInode} /\ me[q].mark \in Inodes \cup {NoInode}
      BY <1>1 DEF Proc
    <2>3. \A q \in Procs : me'[q].pc = "created" => me[q].own \in Inodes \ {i}
      <3>1. SUFFICES ASSUME NEW q \in Procs, q # p, me[q].pc = "created" PROVE me[q].own \in Inodes \ {i}
        BY <1>15
      <3>2. me[q].own # NoInode /\ path["lock"] = me[q].own
        BY <3>1 DEF LockInv, Placed, Fits, Owning, Named
      <3>3. me[q].own # i
        BY <1>1, <1>2, <1>3, <3>1, <3>2 DEF LockInv, Named, Alone, Kept, Fits, At, Marking, Owning
      <3>4. QED
        BY <2>2, <3>2, <3>3
    <2>4. ASSUME NEW q \in Procs, me[q].own # NoInode
          PROVE  path["lock"] = me[q].own /\ ~file'[me[q].own].dead
      BY <2>1, <2>2, <2>4 DEF LockInv, Named
    <2>5. ASSUME NEW q \in Procs, me[q].mark # NoInode
          PROVE  path["marker"] = me[q].mark /\ ~file'[me[q].mark].dead
      BY <2>1, <2>2, <2>5 DEF LockInv, Named
    <2>6. ASSUME NEW q \in Procs, me'[q].pc = "created" PROVE ~file'[me[q].own].written
      BY <1>15, <1>20, <2>3, <2>6 DEF LockInv, Named
    <2>7. QED
      BY <1>15, <1>16, <2>4, <2>5, <2>6 DEF Named
  <1>24. Alone'
    BY <1>15 DEF LockInv, Alone
  <1>25. Kept'
    BY <1>15, <1>16, <1>18, <1>20, <1>21 DEF LockInv, Kept
  <1>26. Judged'
    <2>1. \A q \in Procs : me'[q].same => me[q].same /\ path["lock"] # i /\ path["lock"] \in Inodes
      BY <1>1, <1>13, <1>15 DEF LockInv, Judged, FilesTyped, Names
    <2>2. QED
      BY <1>15, <1>16, <1>20, <2>1, ZenonT(60) DEF LockInv, Judged
  <1>27. QED
    BY <1>14, <1>20, <1>22, <1>23, <1>24, <1>25, <1>26 DEF LockInv, Becomes

\* The lock of the dead owner is removed, under the marker.
LEMMA ReclaimKeeps ==
  ASSUME LockInv, NEW p \in Procs, Reclaim(p) PROVE LockInv'
  <1>1. Fits(me[p]) /\ me \in [Procs -> Proc] /\ FilesTyped
    BY DEF LockInv, Placed
  <1>2. At(p, "lockUnlink") /\ path' = [path EXCEPT !["lock"] = NoInode] /\ UNCHANGED file
    BY DEF Reclaim, Gone
  <1>3. PICK i : i = path["lock"]
    OBVIOUS
  <1>4. PICK y : y = Outdated(i)[p]
    OBVIOUS
  <1>5. /\ y \in Proc /\ y.pc = me[p].pc /\ y.exp = me[p].exp /\ y.own = me[p].own
        /\ y.mark = me[p].mark /\ y.depth = me[p].depth
        /\ y.same <=> me[p].same /\ me[p].exp # i
    BY <1>1, <1>4, OutdatedKeeps
  <1>6. PICK x : x = [y EXCEPT !.pc = "unmarkOpen", !.got = path["lock"] # NoInode]
    OBVIOUS
  <1>7. /\ x \in Proc /\ x.pc = "unmarkOpen" /\ x.own = me[p].own /\ x.mark = me[p].mark
        /\ x.same <=> me[p].same /\ me[p].exp # i
    BY <1>5, <1>6 DEF Proc, PCs
  <1>8. me' = [Outdated(i) EXCEPT ![p] = x]
    BY <1>3, <1>4, <1>6 DEF Reclaim
  <1>9. Fits(x)
    BY <1>1, <1>2, <1>7 DEF Fits, At, Marking, Owning
  <1>10. me[p].mark # NoInode /\ me[p].same
    BY <1>1, <1>2 DEF Fits, At, Marking
  <1>11. \A q \in Procs \ {p} : me[q].pc \notin {"lockOpen", "lockUnlink"}
    BY <1>10 DEF LockInv, Placed, Fits, Marking, Named, Alone
  <1>12. Becomes(p, x) /\ Others(p, i)
    BY <1>8, <1>9, <1>11, PutOutdating
  <1>13. \A q \in Procs : me[q].own = NoInode
    BY <1>10 DEF LockInv, Judged, Named
  <1>14. \A q \in Procs : me'[q].own = NoInode /\ me'[q].mark = me[q].mark /\ ~me'[q].same
    BY <1>3, <1>7, <1>12, <1>13 DEF Becomes, Others, LockInv, Judged
  <1>15. path'["lock"] = NoInode /\ path'["marker"] = path["marker"] /\ FilesTyped'
    BY <1>1, <1>2 DEF FilesTyped, Names
  <1>16. Placed'
    BY <1>12 DEF Becomes, Others, LockInv, Placed
  <1>17. Named'
    BY <1>2, <1>14, <1>15, <1>16 DEF LockInv, Named, Placed, Fits, Owning
  <1>18. Alone' /\ Judged'
    BY <1>14 DEF LockInv, Alone, Judged
  <1>19. Kept'
    BY <1>2, <1>14, <1>15 DEF LockInv, Kept
  <1>20. QED
    BY <1>12, <1>15, <1>16, <1>17, <1>18, <1>19 DEF LockInv, Becomes

\* Nobody gets as far as to remove a marker that is not its own.
LEMMA NoMarkerReclaimed ==
  ASSUME LockInv, NEW p \in Procs PROVE ~ReclaimMarker(p)
  BY DEF LockInv, Placed, Fits, ReclaimMarker, At

\* The marker is removed by the process that made it.
LEMMA UnmarkKeeps ==
  ASSUME LockInv, NEW p \in Procs, Unmark(p) PROVE LockInv'
  <1>1. Fits(me[p]) /\ me \in [Procs -> Proc] /\ FilesTyped
    BY DEF LockInv, Placed
  <1>2. me[p].mark # NoInode /\ path["marker"] = me[p].mark /\ me[p].own = NoInode
    BY <1>1 DEF Unmark, At, Fits, Marking, Owning, LockInv, Named
  <1>3. PICK i : i = path["marker"]
    OBVIOUS
  <1>4. PICK x : x = After(p)
    OBVIOUS
  <1>5. /\ path' = [path EXCEPT !["marker"] = NoInode] /\ UNCHANGED file
        /\ me' = [Outdated(i) EXCEPT ![p] = x]
    BY <1>2, <1>3, <1>4 DEF Unmark, Gone
  <1>6. Fits(x) /\ x.own = NoInode /\ x.mark = NoInode /\ ~x.same /\ x.pc # "created"
    <2>1. PICK pc \in {"try", "wait"} : x = [Idle EXCEPT !.pc = pc]
      BY <1>4 DEF After
    <2>2. QED
      BY <2>1, IdleFits
  <1>7. \A q \in Procs : me[q].same => me[q].exp # i
    BY <1>2, <1>3, JudgedIsDead
  <1>8. Becomes(p, x) /\ Others(p, i)
    BY <1>5, <1>6, <1>7, PutOutdating
  <1>9. \A q \in Procs \ {p} : me[q].mark = NoInode
    BY <1>2 DEF LockInv, Named, Alone
  <1>10. \A q \in Procs : /\ me'[q].own = me[q].own /\ me'[q].mark = NoInode
                          /\ me'[q].pc = "created" => me[q].pc = "created"
                          /\ me'[q].same => me[q].same /\ me'[q].exp = me[q].exp
    BY <1>2, <1>6, <1>8, <1>9 DEF Becomes, Others
  <1>11. path'["lock"] = path["lock"] /\ path'["marker"] = NoInode /\ FilesTyped'
    BY <1>1, <1>5 DEF FilesTyped, Names
  <1>12. Placed'
    BY <1>8 DEF Becomes, Others, LockInv, Placed
  <1>13. Named' /\ Alone' /\ Judged'
    BY <1>5, <1>10, <1>11 DEF LockInv, Named, Alone, Judged
  <1>14. Kept'
    BY <1>5, <1>11 DEF LockInv, Kept
  <1>15. QED
    BY <1>8, <1>11, <1>12, <1>13, <1>14 DEF LockInv, Becomes

\* The holder removes its own file.
LEMMA ReleaseKeeps ==
  ASSUME LockInv, NEW p \in Procs, Release(p) PROVE LockInv'
  <1>1. Fits(me[p]) /\ me \in [Procs -> Proc] /\ FilesTyped
    BY DEF LockInv, Placed
  <1>2. me[p].own # NoInode /\ path["lock"] = me[p].own /\ me[p].mark = NoInode
    BY <1>1 DEF Release, At, Fits, Marking, Owning, LockInv, Named
  <1>3. PICK i : i = path["lock"]
    OBVIOUS
  <1>4. /\ path' = [path EXCEPT !["lock"] = NoInode] /\ UNCHANGED file
        /\ me' = [Outdated(i) EXCEPT ![p] = Idle]
    BY <1>2, <1>3 DEF Release, Gone
  <1>5. Fits(Idle) /\ Idle.pc = "idle" /\ Idle.own = NoInode /\ Idle.mark = NoInode /\ ~Idle.same
    BY IdleItself
  <1>6. \A q \in Procs : ~me[q].same
    BY <1>2 DEF LockInv, Judged, Named
  <1>7. Becomes(p, Idle) /\ Others(p, i)
    BY <1>4, <1>5, <1>6, PutOutdating
  <1>8. \A q \in Procs \ {p} : me[q].own = NoInode
    BY <1>2 DEF LockInv, Named, Alone
  <1>9. \A q \in Procs : me'[q].own = NoInode /\ me'[q].mark = me[q].mark /\ ~me'[q].same
    BY <1>2, <1>5, <1>6, <1>7, <1>8 DEF Becomes, Others
  <1>10. path'["lock"] = NoInode /\ path'["marker"] = path["marker"] /\ FilesTyped'
    BY <1>1, <1>4 DEF FilesTyped, Names
  <1>11. Placed'
    BY <1>7 DEF Becomes, Others, LockInv, Placed
  <1>12. Named'
    BY <1>4, <1>9, <1>10, <1>11 DEF LockInv, Named, Placed, Fits, Owning
  <1>13. Alone' /\ Judged'
    BY <1>9 DEF LockInv, Alone, Judged
  <1>14. Kept'
    BY <1>4, <1>9, <1>10 DEF LockInv, Kept
  <1>15. QED
    BY <1>7, <1>10, <1>11, <1>12, <1>13, <1>14 DEF LockInv, Becomes

\* A process that dies takes no marker with it, and leaves a file with a dead owner.
LEMMA CrashKeeps ==
  ASSUME LockInv, ~MarkerCrash, NEW p \in Procs, Crash(p) PROVE LockInv'
  <1>1. Fits(me[p]) /\ me \in [Procs -> Proc] /\ FilesTyped /\ me[p].mark = NoInode
    BY DEF LockInv, Placed, Crash
  <1>2. /\ file' = [i \in Inodes |-> IF i = me[p].own THEN [file[i] EXCEPT !.dead = TRUE] ELSE file[i]]
        /\ me' = [me EXCEPT ![p] = Idle] /\ path' = path
    BY <1>1 DEF Crash
  <1>3. Fits(Idle) /\ Idle.pc = "idle" /\ Idle.own = NoInode /\ Idle.mark = NoInode /\ ~Idle.same
    BY IdleItself
  <1>4. Becomes(p, Idle) /\ Stays(p)
    BY <1>2, <1>3, PutAlone
  <1>5. ASSUME NEW i \in Inodes
        PROVE  /\ file'[i] \in File /\ file'[i].old = file[i].old /\ file'[i].written = file[i].written
               /\ file[i].dead => file'[i].dead
               /\ i # me[p].own => file'[i] = file[i]
    <2>1. file[i] \in File
      BY <1>1 DEF FilesTyped
    <2>2. file'[i] = IF i = me[p].own THEN [file[i] EXCEPT !.dead = TRUE] ELSE file[i]
      BY <1>2
    <2>3. QED
      BY <2>1, <2>2 DEF File
  <1>6. FilesTyped'
    BY <1>1, <1>2, <1>5 DEF FilesTyped
  <1>7. \A q \in Procs : /\ me'[q].own # NoInode => me'[q].own = me[q].own /\ me[q].own # me[p].own
                         /\ me'[q].mark = me[q].mark
                         /\ me'[q].same => me[q].same /\ me'[q].exp = me[q].exp
                         /\ me'[q].pc = "created" => q # p /\ me[q].pc = "created" /\ me'[q].own # NoInode
    <2>1. \A q \in Procs \ {p} : me[q].own # NoInode => me[q].own # me[p].own
      BY DEF LockInv, Alone
    <2>2. Placed
      BY DEF LockInv
    <2>3. QED
      BY <1>1, <1>3, <1>4, <2>1, <2>2 DEF Becomes, Stays, Placed, Fits, Owning
  <1>8. \A q \in Procs : me[q].own \in Inodes \cup {NoInode} /\ me[q].mark \in Inodes \cup {NoInode}
    BY <1>1 DEF Proc
  <1>9. \A q \in Procs : me[q].mark # NoInode => me[q].mark # me[p].own
    BY DEF LockInv, Named, Kept
  <1>10. Placed'
    BY <1>4 DEF Becomes, Stays, LockInv, Placed
  <1>11. Named'
    BY <1>2, <1>5, <1>7, <1>8, <1>9 DEF LockInv, Named
  <1>12. Alone'
    BY <1>7 DEF LockInv, Alone
  <1>13. Kept'
    BY <1>2, <1>5, <1>7 DEF LockInv, Kept
  <1>14. Judged'
    BY <1>1, <1>2, <1>5, <1>7 DEF LockInv, Judged, FilesTyped, Names
  <1>15. QED
    BY <1>4, <1>6, <1>10, <1>11, <1>12, <1>13, <1>14 DEF LockInv, Becomes

\* Files grow old.
LEMMA AgeKeeps ==
  ASSUME LockInv, ~SlowWriters, NEW i \in Inodes, Age(i) PROVE LockInv'
  <1>1. FilesTyped /\ path' = path /\ me' = me /\ file' = [file EXCEPT ![i].old = TRUE]
    BY DEF LockInv, Age
  <1>2. ASSUME NEW j \in Inodes
        PROVE  /\ file'[j] \in File /\ file'[j].written = file[j].written /\ file'[j].dead = file[j].dead
               /\ file'[j].old => file[j].old \/ file[j].written \/ file[j].dead
    BY <1>1, ZenonT(60) DEF FilesTyped, File, Age
  <1>3. FilesTyped'
    BY <1>1, <1>2 DEF FilesTyped
  <1>4. Placed' /\ Alone'
    BY <1>1 DEF LockInv, Placed, Alone
  <1>5. \A q \in Procs : me[q].own \in Inodes \cup {NoInode} /\ me[q].mark \in Inodes \cup {NoInode}
    BY DEF LockInv, Proc
  <1>6. Named'
    BY <1>1, <1>2, <1>5 DEF LockInv, Named, Placed, Fits, Owning
  <1>7. Kept'
    BY <1>1, <1>2 DEF LockInv, Kept
  <1>8. Judged'
    BY <1>1, <1>2 DEF LockInv, Judged, FilesTyped, Names
  <1>9. QED
    BY <1>1, <1>3, <1>4, <1>6, <1>7, <1>8 DEF LockInv

-----------------------------------------------------------------------------

LEMMA StepKeeps ==
  ASSUME ~MarkerCrash, ~SlowWriters, LockInv, [Next]_vars PROVE LockInv'
  <1>1. CASE UNCHANGED vars
    BY <1>1 DEF vars, LockInv, FilesTyped, Placed, Named, Alone, Kept, Judged
  <1>2. ASSUME NEW p \in Procs, Begin(p) \/ Step(p) \/ GiveUp(p) \/ Reenter(p) \/ Crash(p)
        PROVE  LockInv'
    BY <1>2, LooksKeep, CreateLockKeeps, CreateMarkerKeeps, WriteKeeps, ReclaimKeeps,
       NoMarkerReclaimed, UnmarkKeeps, ReleaseKeeps, CrashKeeps DEF Step
  <1>3. QED
    BY <1>1, <1>2, AgeKeeps DEF Next

LEMMA LockInvariant ==
  ASSUME ~MarkerCrash, ~SlowWriters PROVE Spec => []LockInv
  BY InitInv, StepKeeps, PTL DEF Spec

\* While an action runs the lock file is in place and is that of the running process, which
\* lives: the reclaim of another's lock has not removed it, whoever died before and however far
\* a reclaimer had come (withSessionLock, recoverStaleLock).
THEOREM HolderOwnsTheFileHolds ==
  ASSUME ~MarkerCrash, ~SlowWriters PROVE Spec => []HolderOwnsTheFile
  <1>1. LockInv => HolderOwnsTheFile
    BY DEF LockInv, Placed, Fits, Named, Owning, HolderOwnsTheFile, Inside, At
  <1>2. QED
    BY <1>1, LockInvariant, PTL

-----------------------------------------------------------------------------
(* Every step is one of the abstract lock, or leaves its holders alone.     *)

\* There is one process at most past the creation of the lock file.
LEMMA OneOwner ==
  ASSUME LockInv, NEW p \in Procs, NEW q \in Procs, me[p].pc \in Owning, me[q].pc \in Owning
  PROVE  p = q
  BY DEF LockInv, Placed, Fits, Named, Alone

\* The processes other than p stay inside, or outside.
LEMMA OthersStay ==
  ASSUME LockInv, NEW p \in Procs, Begin(p) \/ Step(p) \/ GiveUp(p) \/ Reenter(p) \/ Crash(p)
  PROVE  \A q \in Procs \ {p} : me'[q].pc = me[q].pc
  <1>1. me \in [Procs -> Proc]
    BY DEF LockInv
  <1>2. ASSUME NEW i
        PROVE  Outdated(i) \in [Procs -> Proc] /\ \A q \in Procs : Outdated(i)[q].pc = me[q].pc
    BY <1>1, OutdatedKeeps
  <1>3. CASE Begin(p) \/ GiveUp(p) \/ Reenter(p) \/ Crash(p)
    BY <1>1, <1>3 DEF Begin, GiveUp, Reenter, Crash, Goto
  <1>4. CASE CreateLock(p) \/ CreateMarker(p) \/ Occupied(p) \/ Judge(p)
    BY <1>1, <1>4 DEF CreateLock, CreateMarker, Occupied, Judge, Goto
  <1>5. CASE Recheck(p) \/ Compare(p) \/ Retry(p) \/ Leave(p)
    BY <1>1, <1>5 DEF Recheck, Compare, Retry, Leave, Goto
  <1>6. CASE Reclaim(p) \/ ReclaimMarker(p)
    BY <1>2, <1>6 DEF Reclaim, ReclaimMarker
  <1>7. CASE Unmark(p) \/ Release(p)
    BY <1>1, <1>2, <1>7 DEF Unmark, Release
  <1>8. ASSUME NEW io \in BOOLEAN, Write(p, io) PROVE \A q \in Procs \ {p} : me'[q].pc = me[q].pc
    BY <1>2, <1>8 DEF Write
  <1>9. QED
    BY <1>3, <1>4, <1>5, <1>6, <1>7, <1>8 DEF Step

\* Whoever goes in has created the lock file and written it.
LEMMA EntersFromCreated ==
  ASSUME LockInv, NEW p \in Procs, Begin(p) \/ Step(p) \/ GiveUp(p) \/ Reenter(p) \/ Crash(p),
         me'[p].pc = "cs", me[p].pc # "cs"
  PROVE  me[p].pc = "created"
  <1>1. me \in [Procs -> Proc]
    BY DEF LockInv
  <1>2. CASE Begin(p) \/ GiveUp(p) \/ Reenter(p) \/ Crash(p)
    BY <1>1, <1>2, IdleItself DEF Begin, GiveUp, Reenter, Crash, Goto, At, Proc
  <1>3. CASE CreateLock(p) \/ CreateMarker(p) \/ Occupied(p)
    BY <1>1, <1>3 DEF CreateLock, CreateMarker, Occupied, Goto, Proc
  <1>4. CASE Judge(p) \/ Recheck(p) \/ Compare(p) \/ Retry(p) \/ Leave(p)
    <2>1. me[p] \in Proc /\ ~Leave(p)
      BY <1>1 DEF Leave, At
    <2>2. CASE Recheck(p) \/ Retry(p)
      BY <1>1, <2>1, <2>2 DEF Recheck, Retry, Goto, Proc
    <2>3. CASE Compare(p)
      BY <1>1, <2>1, <2>3 DEF Compare, Goto, Proc
    <2>4. CASE Judge(p)
      <3>1. PICK pc \in {"mark", "markOpen"}, i \in {path[n] : n \in Names} : \/ Goto(p, "wait")
                   \/ me' = [me EXCEPT ![p].pc = pc, ![p].exp = i, ![p].same = TRUE]
        BY <2>4 DEF Judge
      <3>2. QED
        BY <1>1, <2>1, <3>1 DEF Goto, Proc
    <2>5. QED
      BY <1>4, <2>1, <2>2, <2>3, <2>4
  <1>5. ASSUME NEW i
        PROVE  Outdated(i) \in [Procs -> Proc]
    BY <1>1, OutdatedKeeps
  <1>6. CASE Reclaim(p)
    BY <1>5, <1>6 DEF Reclaim, Proc
  <1>7. CASE Unmark(p)
    <2>1. me'[p] = After(p)
      BY <1>1, <1>5, <1>7 DEF Unmark
    <2>2. QED
      BY <2>1, IdleFits DEF After
  <1>8. CASE Release(p)
    BY <1>1, <1>5, <1>8, IdleItself DEF Release
  <1>9. ASSUME NEW io \in BOOLEAN, Write(p, io), me[p].pc # "created" PROVE FALSE
    <2>1. me'[p].pc = "recheck" \/ me'[p] = [Idle EXCEPT !.pc = "wait"]
      BY <1>5, <1>9 DEF Write, At, Proc
    <2>2. QED
      BY <2>1, IdleFits
  <1>10. QED
    BY <1>2, <1>3, <1>4, <1>6, <1>7, <1>8, <1>9, NoMarkerReclaimed DEF Step

LEMMA StepImplements ==
  ASSUME LockInv, [Next]_vars PROVE [Exclusive!Next]_Inside
  <1>1. CASE UNCHANGED vars
    BY <1>1 DEF vars, Inside, At
  <1>2. ASSUME NEW p \in Procs, Begin(p) \/ Step(p) \/ GiveUp(p) \/ Reenter(p) \/ Crash(p)
        PROVE  Exclusive!Next \/ Inside' = Inside
    <2>1. \A q \in Procs \ {p} : me'[q].pc = me[q].pc
      BY <1>2, OthersStay
    <2>2. CASE me[p].pc = "cs" <=> me'[p].pc = "cs"
      BY <2>1, <2>2 DEF Inside, At
    <2>3. CASE me[p].pc = "cs" /\ me'[p].pc # "cs"
      <3>1. p \in Inside /\ Inside' = Inside \ {p}
        BY <2>1, <2>3 DEF Inside, At
      <3>2. QED
        BY <3>1 DEF Exclusive!Next, Exclusive!Release
    <2>4. CASE me[p].pc # "cs" /\ me'[p].pc = "cs"
      <3>1. me[p].pc = "created"
        BY <1>2, <2>4, EntersFromCreated
      <3>2. Inside = {}
        BY <2>4, <3>1, OneOwner DEF Inside, At, Owning
      <3>3. Inside' = {p}
        BY <2>1, <2>4, <3>2 DEF Inside, At
      <3>4. QED
        BY <3>2, <3>3 DEF Exclusive!Next, Exclusive!Acquire
    <2>5. QED
      BY <2>2, <2>3, <2>4
  <1>3. ASSUME NEW i \in Inodes, Age(i) PROVE Inside' = Inside
    BY <1>3 DEF Age, Inside, At
  <1>4. QED
    BY <1>1, <1>2, <1>3 DEF Next

\* The lock file and its marker implement the exclusive lock the callers of withSessionLock rely
\* on: a process begins its action only while no other runs one, and holds the lock until the
\* outermost action ends or it dies.
THEOREM ImplementsExclusiveLockHolds ==
  ASSUME ~MarkerCrash, ~SlowWriters PROVE Spec => ImplementsExclusiveLock
  <1>1. Init => Exclusive!Init
    BY IdleItself DEF Init, Exclusive!Init, Inside, At
  <1>2. QED
    BY <1>1, StepImplements, LockInvariant, PTL DEF Spec, ImplementsExclusiveLock, Exclusive!Spec

=============================================================================
