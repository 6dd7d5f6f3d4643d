----------------------- MODULE CompletionLeaseProofs -----------------------
(*****************************************************************************)
(* The lease under which `done` runs: who may still commit, and what an      *)
(* interrupted rewrite of the fence leaves behind.                           *)
(*****************************************************************************)
EXTENDS CompletionLease, TLAPS

USE NamesAssumption, LeaseAssumption

-----------------------------------------------------------------------------
(* What the steps keep about the types.                                      *)

\* A generation is only counted on from one that was read below the bound.
CountsOn == \A p \in Procs : me[p].pc \in {"truncate", "write", "check"} => me[p].gen < MaxGen

\* Whoever is past the creation of its lock file knows it.
Searching == {"idle", "try", "compare", "unlink", "wait"}
OwnsFrom == \A p \in Procs : me[p].pc \notin Searching => me[p].own \in Inodes

\* The file that the path names, if it is a process's own, is that of the latest one.
PathIsLatest == \A p \in Procs : path # NoInode /\ me[p].own = path => latest = p

LeaseInv == TypeOK /\ CountsOn /\ OwnsFrom /\ PathIsLatest

\* What a process may know, at any time.
Known(x) == /\ x \in Proc
            /\ x.pc \in {"truncate", "write", "check"} => x.gen < MaxGen
            /\ x.pc \notin Searching => x.own \in Inodes

LockFiles == [Inodes -> [meta : BOOLEAN, dead : BOOLEAN]]
Fences == [gen : 0..MaxGen, ok : BOOLEAN, known : SUBSET Procs]

Act(p) == Begin(p) \/ Step(p) \/ GiveUp(p) \/ Commit(p) \/ Beat(p) \/ Crash(p)

USE DEF LockFiles, Fences

LEMMA ForgetKeeps ==
  ASSUME NEW x \in Proc
  PROVE  LET y == [x EXCEPT !.same = FALSE] IN
         y \in Proc /\ y.pc = x.pc /\ y.gen = x.gen /\ y.own = x.own /\ y.lost = x.lost /\ y.exp = x.exp
  BY DEF Proc

LEMMA ChangedKeeps ==
  ASSUME me \in [Procs -> Proc], NEW i
  PROVE  /\ Changed(i) \in [Procs -> Proc]
         /\ \A q \in Procs : /\ Changed(i)[q].pc = me[q].pc /\ Changed(i)[q].gen = me[q].gen
                             /\ Changed(i)[q].own = me[q].own /\ Changed(i)[q].lost = me[q].lost
                             /\ Changed(i)[q].exp = me[q].exp
  <1>1. ASSUME NEW q \in Procs
        PROVE  /\ Changed(i)[q] \in Proc
               /\ Changed(i)[q].pc = me[q].pc /\ Changed(i)[q].gen = me[q].gen
               /\ Changed(i)[q].own = me[q].own /\ Changed(i)[q].lost = me[q].lost
               /\ Changed(i)[q].exp = me[q].exp
    <2>1. me[q] \in Proc
      OBVIOUS
    <2>2. Changed(i)[q] = IF me[q].exp = i THEN [me[q] EXCEPT !.same = FALSE] ELSE me[q]
      BY DEF Changed
    <2>3. QED
      BY <2>1, <2>2, ForgetKeeps
  <1>2. QED
    BY <1>1 DEF Changed

LEMMA InitInv == Init => LeaseInv
  <1> SUFFICES ASSUME Init PROVE LeaseInv
    OBVIOUS
  <1>1. Idle \in Proc /\ Idle.pc = "idle" /\ Idle.own = NoInode
    BY DEF Idle, Proc, PCs
  <1>2. me \in [Procs -> Proc] /\ \A p \in Procs : me[p] = Idle
    BY <1>1 DEF Init
  <1>3. TypeOK
    <2>1. fence \in Fences
      BY DEF Init
    <2>2. file \in LockFiles
      BY DEF Init
    <2>3. path \in Inodes \cup {NoInode} /\ latest \in Procs \cup {NoProc} /\ torn \in BOOLEAN
      BY DEF Init
    <2>4. QED
      BY <1>2, <2>1, <2>2, <2>3 DEF TypeOK
  <1>4. CountsOn /\ OwnsFrom /\ PathIsLatest
    BY <1>1, <1>2 DEF Init, CountsOn, OwnsFrom, PathIsLatest, Searching
  <1>5. QED
    BY <1>3, <1>4 DEF LeaseInv

\* The other processes forget an identity at most.
Others(p) == \A q \in Procs \ {p} : /\ me'[q] \in Proc /\ me'[q].pc = me[q].pc
                                    /\ me'[q].gen = me[q].gen /\ me'[q].own = me[q].own
Fine(p) == me' \in [Procs -> Proc] /\ Known(me'[p]) /\ Others(p)

LEMMA PutFine ==
  ASSUME LeaseInv, NEW p \in Procs, NEW x, Known(x),
         \/ me' = [me EXCEPT ![p] = x]
         \/ \E i : me' = [Changed(i) EXCEPT ![p] = x]
  PROVE  Fine(p) /\ me'[p] = x
  <1>1. me \in [Procs -> Proc] /\ x \in Proc
    BY DEF LeaseInv, TypeOK, Known
  <1>2. CASE me' = [me EXCEPT ![p] = x]
    BY <1>1, <1>2 DEF Fine, Others
  <1>3. ASSUME NEW i, me' = [Changed(i) EXCEPT ![p] = x] PROVE Fine(p) /\ me'[p] = x
    BY <1>1, <1>3, ChangedKeeps DEF Fine, Others
  <1>4. QED
    BY <1>2, <1>3

\* A process that moves on and takes with it what it knows.
LEMMA MoveFine ==
  ASSUME LeaseInv, NEW p \in Procs, NEW pc \in PCs,
         \/ me' = [me EXCEPT ![p].pc = pc]
         \/ \E i : me' = [Changed(i) EXCEPT ![p].pc = pc],
         pc \notin Searching => me[p].own \in Inodes,
         pc \in {"truncate", "write", "check"} => me[p].gen < MaxGen
  PROVE  Fine(p) /\ me'[p].pc = pc /\ me'[p].own = me[p].own
  <1>1. me \in [Procs -> Proc]
    BY DEF LeaseInv, TypeOK
  <1>2. ASSUME NEW y \in Proc, y.own = me[p].own, y.gen = me[p].gen
        PROVE  LET x == [y EXCEPT !.pc = pc] IN Known(x) /\ x.pc = pc /\ x.own = me[p].own
    BY <1>2 DEF Known, Proc
  <1>3. CASE me' = [me EXCEPT ![p].pc = pc]
    <2>1. PICK x : x = [me[p] EXCEPT !.pc = pc]
      OBVIOUS
    <2>2. me' = [me EXCEPT ![p] = x]
      BY <1>3, <2>1
    <2>3. QED
      BY <1>1, <1>2, <2>1, <2>2, PutFine
  <1>4. ASSUME NEW i, me' = [Changed(i) EXCEPT ![p].pc = pc]
        PROVE  Fine(p) /\ me'[p].pc = pc /\ me'[p].own = me[p].own
    <2>1. PICK x : x = [Changed(i)[p] EXCEPT !.pc = pc]
      OBVIOUS
    <2>2. me' = [Changed(i) EXCEPT ![p] = x]
      BY <1>4, <2>1
    <2>3. /\ Changed(i)[p] \in Proc /\ Changed(i)[p].own = me[p].own
          /\ Changed(i)[p].gen = me[p].gen
      BY <1>1, ChangedKeeps
    <2>4. Known(x) /\ x.pc = pc /\ x.own = me[p].own
      BY <1>2, <2>1, <2>3
    <2>5. QED
      BY <2>2, <2>4, PutFine
  <1>5. QED
    BY <1>3, <1>4

LEMMA Steps ==
  ASSUME LeaseInv, NEW p \in Procs, Act(p)
  PROVE  Fine(p)
  <1>1. Known(Idle) /\ Idle.pc = "idle"
    BY DEF Idle, Proc, PCs, Known, Searching
  <1>2. me[p] \in Proc /\ me \in [Procs -> Proc] /\ Known(me[p])
    BY DEF LeaseInv, TypeOK, CountsOn, OwnsFrom, Known
  <1>3. ASSUME NEW x, Known(x), me' = [me EXCEPT ![p] = x] \/ \E i : me' = [Changed(i) EXCEPT ![p] = x]
        PROVE  Fine(p)
    BY <1>3, PutFine
  <1>4. ASSUME NEW pc \in PCs, me' = [me EXCEPT ![p].pc = pc],
               pc \notin Searching => me[p].own \in Inodes,
               pc \in {"truncate", "write", "check"} => me[p].gen < MaxGen
        PROVE  Fine(p)
    BY <1>4, MoveFine
  <1>5. ASSUME NEW pc \in PCs, NEW i, me' = [Changed(i) EXCEPT ![p].pc = pc],
               pc \notin Searching => me[p].own \in Inodes, pc \notin {"truncate", "write", "check"}
        PROVE  Fine(p)
    BY <1>5, MoveFine
  <1>6. /\ At(p, "truncate") \/ At(p, "write") \/ At(p, "check") => me[p].gen < MaxGen
        /\ me[p].pc \notin Searching => me[p].own \in Inodes
    BY <1>2 DEF Known, At
  <1>7. CASE Begin(p) \/ Retry(p) \/ GiveUp(p)
    BY <1>1, <1>3, <1>4, <1>7 DEF Begin, Retry, GiveUp, Goto, PCs, Searching
  <1>8. CASE Commit(p)
    BY <1>2, <1>8 DEF Commit, vars, Fine, Others
  <1>9. CASE ReadOwner(p)
    <2>1. PICK x : x = [me[p] EXCEPT !.pc = "compare", !.exp = path, !.same = TRUE]
      OBVIOUS
    <2>2. Known(x)
      BY <1>2, <1>9, <2>1 DEF Known, Proc, PCs, Searching, LeaseInv, TypeOK
    <2>3. me' = [me EXCEPT ![p] = x] \/ Goto(p, "wait")
      BY <1>9, <2>1 DEF ReadOwner
    <2>4. QED
      BY <1>3, <1>4, <2>2, <2>3 DEF Goto, PCs, Searching
  <1>10. CASE Create(p)
    <2>1. PICK i \in Inodes : me' = [me EXCEPT ![p] = [Idle EXCEPT !.pc = "fence", !.own = i]]
      BY <1>10 DEF Create
    <2>2. PICK x : x = [Idle EXCEPT !.pc = "fence", !.own = i]
      OBVIOUS
    <2>3. x = [pc |-> "fence", own |-> i, exp |-> NoInode, same |-> FALSE, gen |-> 0, lost |-> FALSE]
      BY <2>2 DEF Idle
    <2>4. x \in Proc
      BY <2>3 DEF Proc, PCs
    <2>5. Known(x)
      BY <2>3, <2>4 DEF Known
    <2>6. QED
      BY <1>3, <2>1, <2>2, <2>5
  <1>11. CASE Compare(p)
    BY <1>1, <1>3, <1>4, <1>6, <1>11 DEF Compare, Goto, At, PCs, Searching
  <1>12. CASE Finish(p)
    BY <1>1, <1>3, <1>5, <1>6, <1>12 DEF Finish, At, PCs, Searching
  <1>13. CASE Beat(p)
    <2>1. PICK x : x = [me[p] EXCEPT !.lost = TRUE]
      OBVIOUS
    <2>2. Known(x)
      BY <1>2, <2>1 DEF Known, Proc
    <2>3. me' = [me EXCEPT ![p] = x] \/ me' = [Changed(me[p].own) EXCEPT ![p].pc = "beat"]
      BY <1>13, <2>1 DEF Beat
    <2>4. QED
      BY <1>3, <1>5, <1>6, <1>13, <2>2, <2>3 DEF Beat, At, PCs, Searching
  <1>14. CASE Crash(p)
    BY <1>1, <1>3, <1>14 DEF Crash
  <1>15. CASE Unlink(p)
    <2>1. PICK pc \in {"idle", "wait", "try"} : me' = [Changed(path) EXCEPT ![p] = [Idle EXCEPT !.pc = pc]]
      BY <1>15 DEF Unlink, At
    <2>2. PICK x : x = [Idle EXCEPT !.pc = pc]
      OBVIOUS
    <2>3. x = [pc |-> pc, own |-> NoInode, exp |-> NoInode, same |-> FALSE, gen |-> 0, lost |-> FALSE]
      BY <2>2 DEF Idle
    <2>4. x \in Proc
      BY <2>3 DEF Proc, PCs
    <2>5. Known(x)
      BY <2>3, <2>4 DEF Known, Searching
    <2>6. QED
      BY <1>3, <2>1, <2>2, <2>5
  <1>16. CASE ReadFence(p)
    <2>1. PICK x : x = [me[p] EXCEPT !.pc = "truncate", !.gen = fence.gen]
      OBVIOUS
    <2>2. fence.gen \in 0..MaxGen
      BY DEF LeaseInv, TypeOK
    <2>3. fence.gen < MaxGen => Known(x)
      BY <1>2, <1>6, <1>16, <2>1, <2>2 DEF ReadFence, At, Known, Proc, PCs, Searching
    <2>4. (fence.gen < MaxGen /\ me' = [me EXCEPT ![p] = x]) \/ Goto(p, "fresh") \/ Goto(p, "cleanup")
      BY <1>16, <2>1 DEF ReadFence
    <2>5. QED
      BY <1>3, <1>4, <1>6, <1>16, <2>3, <2>4 DEF ReadFence, At, Goto, PCs, Searching
  <1>17. CASE Truncate(p)
    BY <1>4, <1>6, <1>17 DEF Truncate, Goto, At, PCs, Searching
  <1>18. CASE Check(p)
    <2>1. PICK x : x = [me[p] EXCEPT !.pc = "meta", !.gen = @ + 1]
      OBVIOUS
    <2>2. Known(x)
      <3>1. me[p].own \in Inodes /\ me[p].gen < MaxGen
        BY <1>6, <1>18 DEF Check, At, Searching
      <3>2. me[p].gen \in 0..MaxGen
        BY <1>2 DEF Proc
      <3>3. me[p].gen + 1 \in 0..MaxGen
        BY <3>1, <3>2
      <3>4. x \in Proc /\ x.pc = "meta" /\ x.own = me[p].own
        BY <1>2, <2>1, <3>3 DEF Proc, PCs
      <3>5. QED
        BY <3>1, <3>4 DEF Known
    <2>3. me' = [me EXCEPT ![p] = x] \/ Goto(p, "cleanup")
      BY <1>18, <2>1 DEF Check
    <2>4. QED
      BY <1>3, <1>4, <1>6, <1>18, <2>2, <2>3 DEF Check, At, Goto, PCs, Searching
  <1>19. ASSUME NEW io \in BOOLEAN, Publish(p, io) PROVE Fine(p)
    <2>1. PICK x : x = [me[p] EXCEPT !.pc = "meta", !.gen = 1]
      OBVIOUS
    <2>2. Known(x)
      <3>1. me[p].own \in Inodes 
        BY <1>6, <1>19 DEF Publish, At, Searching
      <3>2. me[p].gen \in 0..MaxGen
        BY <1>2 DEF Proc
      <3>3. 1 \in 0..MaxGen
        BY <3>1, <3>2
      <3>4. x \in Proc /\ x.pc = "meta" /\ x.own = me[p].own
        BY <1>2, <2>1, <3>3 DEF Proc, PCs
      <3>5. QED
        BY <3>1, <3>4 DEF Known
    <2>3. me' = [me EXCEPT ![p] = x] \/ Goto(p, "cleanup")
      BY <1>19, <2>1 DEF Publish
    <2>4. QED
      BY <1>3, <1>4, <1>6, <1>19, <2>2, <2>3 DEF Publish, At, Goto, PCs, Searching
  <1>20. ASSUME NEW io \in BOOLEAN, Write(p, io) PROVE Fine(p)
    BY <1>4, <1>6, <1>20 DEF Write, Goto, At, PCs, Searching
  <1>21. ASSUME NEW io \in BOOLEAN, Grant(p, io) PROVE Fine(p)
    BY <1>5, <1>6, <1>21 DEF Grant, At, PCs, Searching
  <1>22. ASSUME NEW io \in BOOLEAN, Beaten(p, io) PROVE Fine(p)
    <2>1. PICK y : y = Changed(me[p].own)[p]
      OBVIOUS
    <2>2. y \in Proc /\ y.own = me[p].own /\ y.gen = me[p].gen
      BY <1>2, <2>1, ChangedKeeps
    <2>3. PICK x : x = [y EXCEPT !.pc = "held", !.lost = ~io]
      OBVIOUS
    <2>4. Known(x)
      BY <1>6, <1>22, <2>2, <2>3 DEF Beaten, At, Known, Proc, PCs, Searching
    <2>5. me' = [Changed(me[p].own) EXCEPT ![p] = x]
      BY <1>22, <2>1, <2>3 DEF Beaten
    <2>6. QED
      BY <1>3, <2>4, <2>5
  <1>23. ASSUME NEW io \in BOOLEAN, Probe(p, io) PROVE Fine(p)
    BY <1>1, <1>3, <1>5, <1>6, <1>23 DEF Probe, At, PCs, Searching
  <1>24. QED
    BY <1>7, <1>8, <1>9, <1>10, <1>11, <1>12, <1>13, <1>14, <1>15, <1>16, <1>17, <1>18, <1>19,
       <1>20, <1>21, <1>22, <1>23 DEF Act, Step

-----------------------------------------------------------------------------

LEMMA StepTyped ==
  ASSUME LeaseInv, NEW p \in Procs, Act(p)
  PROVE  TypeOK'
  <1> USE DEF LeaseInv, TypeOK
  <1>1. me' \in [Procs -> Proc]
    BY Steps DEF Fine
  <1>2. path' \in Inodes \cup {NoInode}
    BY DEF Act, Step, Begin, Create, ReadOwner, Compare, Unlink, Retry, GiveUp, Publish, ReadFence, Truncate,
       Write, Check, Grant, Commit, Beat, Beaten, Finish, Probe, Crash, vars
  <1>3. latest' \in Procs \cup {NoProc}
    BY DEF Act, Step, Begin, Create, ReadOwner, Compare, Unlink, Retry, GiveUp, Publish, ReadFence, Truncate,
       Write, Check, Grant, Commit, Beat, Beaten, Finish, Probe, Crash, vars
  <1>4. torn' \in BOOLEAN
    BY DEF Act, Step, Begin, Create, ReadOwner, Compare, Unlink, Retry, GiveUp, Publish, ReadFence, Truncate,
       Write, Check, Grant, Commit, Beat, Beaten, Finish, Probe, Crash, vars
  <1>5. file' \in LockFiles
    <2>1. ASSUME NEW i, NEW b \in BOOLEAN
          PROVE  /\ [file EXCEPT ![i].meta = b] \in LockFiles
                 /\ [file EXCEPT ![i].dead = b] \in LockFiles
                 /\ [file EXCEPT ![i] = [meta |-> FALSE, dead |-> FALSE]]
                      \in LockFiles
      OBVIOUS
    <2>2. ASSUME NEW q \in Procs PROVE Leaves(q) \in LockFiles
      BY <2>1 DEF Leaves
    <2>3. CASE Create(p)
      BY <2>1, <2>3 DEF Create
    <2>4. \A b \in BOOLEAN : [file EXCEPT ![me[p].own].meta = b] \in LockFiles
      BY <2>1
    <2>5. [file EXCEPT ![path].meta = TRUE] \in LockFiles
      BY <2>1
    <2>6. CASE Beat(p) \/ Finish(p) \/ Crash(p)
      <3>1. \/ file' = file \/ file' = Leaves(p) \/ file' = [file EXCEPT ![me[p].own].meta = FALSE]
        BY <2>6 DEF Beat, Finish, Crash
      <3>2. QED
        BY <2>2, <2>4, <3>1
    <2>7. ASSUME NEW io \in BOOLEAN, Grant(p, io) \/ Beaten(p, io) \/ Probe(p, io)
          PROVE  file' \in LockFiles
      <3>1. \/ file' = [file EXCEPT ![me[p].own].meta = io]
            \/ file' = [file EXCEPT ![path].meta = TRUE] \/ file' = Leaves(p)
        BY <2>7 DEF Grant, Beaten, Probe
      <3>2. [file EXCEPT ![me[p].own].meta = io] \in LockFiles /\ Leaves(p) \in LockFiles
        BY <2>2, <2>4
      <3>3. QED
        BY <2>5, <3>1, <3>2
    <2>8. QED
      BY <2>3, <2>6, <2>7 DEF Act, Step, Begin, ReadOwner, Compare, Unlink, Retry, GiveUp,
         Publish, ReadFence, Truncate, Write, Check, Commit, vars
  <1>6. fence' \in Fences
    <2>1. ASSUME NEW s \in SUBSET Procs
          PROVE  /\ [fence EXCEPT !.known = s] \in Fences
                 /\ [fence EXCEPT !.ok = FALSE, !.known = s] \in Fences
                 /\ fence.known \in SUBSET Procs
      OBVIOUS
    <2>2. CASE UNCHANGED fence \/ Truncate(p) \/ Check(p) \/ Crash(p)
      <3>1. fence.known \cup {p} \in SUBSET Procs /\ fence.known \ {p} \in SUBSET Procs
        BY <2>1
      <3>2. CASE Truncate(p)
        BY <2>1, <3>2 DEF Truncate
      <3>3. CASE Check(p)
        BY <2>1, <3>1, <3>3, ZenonT(60) DEF Check
      <3>4. CASE Crash(p)
        BY <2>1, <3>1, <3>4 DEF Crash
      <3>5. QED
        BY <2>2, <3>2, <3>3, <3>4
    <2>3. ASSUME NEW io \in BOOLEAN, Publish(p, io)
          PROVE  fence' \in Fences
      <3>1. /\ [gen |-> 1, ok |-> TRUE, known |-> {p}] \in Fences
            /\ [gen |-> 1, ok |-> TRUE, known |-> {}] \in Fences
        OBVIOUS
      <3>2. fence' \in {fence, [gen |-> 1, ok |-> TRUE, known |-> {p}], [gen |-> 1, ok |-> TRUE, known |-> {}]}
        BY <2>3 DEF Publish
      <3>3. QED
        BY <3>1, <3>2
    <2>4. ASSUME NEW io \in BOOLEAN, Write(p, io)
          PROVE  fence' \in Fences
      <3>1. me[p].gen \in 0..MaxGen /\ me[p].gen < MaxGen
        BY <2>4 DEF Write, At, CountsOn, Proc
      <3>2. me[p].gen + 1 \in 0..MaxGen
        BY <3>1
      <3>3. ASSUME NEW g \in 0..MaxGen
            PROVE  [gen |-> g, ok |-> TRUE, known |-> {}] \in Fences
        OBVIOUS
      <3>4. fence' = fence \/ \E g \in 0..MaxGen : fence' = [gen |-> g, ok |-> TRUE, known |-> {}]
        BY <2>4, <3>1, <3>2 DEF Write
      <3>5. QED
        BY <3>3, <3>4
    <2>5. QED
      BY <2>2, <2>3, <2>4 DEF Act, Step, Begin, Create, ReadOwner, Compare, Unlink, Retry, GiveUp, ReadFence,
         Grant, Commit, Beat, Beaten, Finish, Probe, vars
  <1>7. QED
    BY <1>1, <1>2, <1>3, <1>4, <1>5, <1>6

LEMMA StepLatest ==
  ASSUME LeaseInv, NEW p \in Procs, Act(p)
  PROVE  PathIsLatest'
  <1>1. Fine(p)
    BY Steps
  <1>2. ASSUME Create(p) PROVE PathIsLatest'
    <2>1. PICK i \in Inodes : /\ Unused(i) /\ path' = i
                              /\ me' = [me EXCEPT ![p] = [Idle EXCEPT !.pc = "fence", !.own = i]]
      BY <1>2 DEF Create
    <2>2. \A q \in Procs \ {p} : me'[q].own # i
      BY <1>1, <2>1 DEF Unused, Fine, Others
    <2>3. latest' = p
      BY <1>2 DEF Create
    <2>4. QED
      BY <2>1, <2>2, <2>3 DEF PathIsLatest
  <1>3. ASSUME ~Create(p), path' # NoInode
        PROVE  path' = path /\ latest' = latest /\ me'[p].own \in {me[p].own, NoInode}
    <2> USE DEF LeaseInv, TypeOK
    <2>1. path' = path /\ latest' = latest
      BY <1>3 DEF Act, Step, Begin, ReadOwner, Compare, Unlink, Retry, GiveUp, Publish, ReadFence, Truncate,
         Write, Check, Grant, Commit, Beat, Beaten, Finish, Probe, Crash, vars
    <2>2. ASSUME NEW i
          PROVE  Changed(i)[p].own = me[p].own /\ Changed(i) \in [Procs -> Proc]
      BY ChangedKeeps
    <2>3. Idle.own = NoInode
      BY DEF Idle
    <2>4. CASE Begin(p) \/ ReadOwner(p) \/ Compare(p) \/ Retry(p) \/ GiveUp(p) \/ Commit(p)
      BY <2>3, <2>4 DEF Begin, ReadOwner, Compare, Retry, GiveUp, Commit, Goto, vars, Proc
    <2>5. CASE ReadFence(p) \/ Truncate(p) \/ Check(p) \/ Crash(p)
      BY <2>3, <2>5 DEF ReadFence, Truncate, Check, Crash, Goto, Proc
    <2>6. CASE Beat(p) \/ Finish(p)
      BY <2>2, <2>3, <2>6 DEF Beat, Finish, Proc
    <2>7. ASSUME NEW io \in BOOLEAN, Publish(p, io) \/ Write(p, io)
          PROVE  me'[p].own \in {me[p].own, NoInode}
      BY <2>7 DEF Publish, Write, Goto, Proc
    <2>8. ASSUME NEW io \in BOOLEAN, Grant(p, io) \/ Beaten(p, io) \/ Probe(p, io)
          PROVE  me'[p].own \in {me[p].own, NoInode}
      BY <2>2, <2>3, <2>8 DEF Grant, Beaten, Probe, Proc
    <2>9. ~Unlink(p)
      BY <1>3 DEF Unlink
    <2>10. me'[p].own \in {me[p].own, NoInode}
      BY <1>3, <2>4, <2>5, <2>6, <2>7, <2>8, <2>9 DEF Act, Step
    <2>11. QED
      BY <2>1, <2>10
  <1>4. ASSUME ~Create(p) PROVE PathIsLatest'
    BY <1>1, <1>3, <1>4 DEF PathIsLatest, Fine, Others, LeaseInv
  <1>5. QED
    BY <1>2, <1>4

THEOREM LeaseInvariant == Spec => []LeaseInv
  <1>1. ASSUME LeaseInv, [Next]_vars PROVE LeaseInv'
    <2>1. CASE UNCHANGED vars
      BY <1>1, <2>1 DEF vars, LeaseInv, TypeOK, CountsOn, OwnsFrom, PathIsLatest
    <2>2. ASSUME NEW p \in Procs, Act(p)
          PROVE  LeaseInv'
      <3>1. Fine(p) /\ TypeOK' /\ PathIsLatest'
        BY <1>1, <2>2, Steps, StepTyped, StepLatest
      <3>2. CountsOn' /\ OwnsFrom'
        BY <1>1, <3>1 DEF Fine, Known, Others, LeaseInv, CountsOn, OwnsFrom
      <3>3. QED
        BY <3>1, <3>2 DEF LeaseInv
    <2>3. QED
      BY <1>1, <2>1, <2>2 DEF Next, Act
  <1>2. QED
    BY <1>1, InitInv, PTL DEF Spec

\* Only the process that created the lock last passes assertOwned: a process whose lock was
\* unlinked by another reclaimer of the same dead owner is refused at its next commit, however
\* many reclaim, die or come back in between (reclaimDeadOwner, assertOwned).
THEOREM OnlyLatestCommitsHolds == Spec => []OnlyLatestCommits
  <1>1. LeaseInv => OnlyLatestCommits
    BY DEF LeaseInv, TypeOK, OwnsFrom, PathIsLatest, OnlyLatestCommits, At, Owned, Searching
  <1>2. QED
    BY <1>1, LeaseInvariant, PTL

\* A fence that cannot be parsed is being written by somebody, or a process died over it, or its
\* restore failed too: no I/O error alone leaves one behind (incrementGeneration,
\* restoreGeneration).
THEOREM FenceIsRestoredHolds == Spec => []FenceIsRestored
  <1>1. ASSUME LeaseInv, FenceIsRestored, NEW p \in Procs,
               Act(p)
        PROVE  FenceIsRestored'
    <2>1. SUFFICES ASSUME ~fence'.ok, ~torn' PROVE \E q \in Procs : me'[q].pc = "write"
      BY DEF FenceIsRestored, At
    <2>2. Fine(p) /\ TypeOK'
      BY <1>1, Steps, StepTyped
    <2>3. CASE Truncate(p)
      <3>1. me'[p].pc = "write"
        BY <1>1, <2>3 DEF Truncate, Goto, LeaseInv, TypeOK, Proc
      <3>2. QED
        BY <3>1
    <2>4. CASE ~Truncate(p)
      <3> DEFINE Left == ~fence.ok /\ ~torn /\ me[p].pc # "write"
      <3>0. torn \in BOOLEAN /\ fence \in Fences
        BY <1>1 DEF LeaseInv, TypeOK
      <3>1. ASSUME Begin(p) \/ ReadOwner(p) \/ Compare(p) \/ Unlink(p) \/ Retry(p) \/ GiveUp(p) PROVE Left
        <4>1. fence' = fence /\ torn' = torn
          BY <3>1 DEF Begin, ReadOwner, Compare, Unlink, Retry, GiveUp
        <4>2. me[p].pc # "write"
          BY <3>1 DEF Begin, ReadOwner, Compare, Unlink, Retry, GiveUp, At
        <4>3. QED
          BY <2>1, <4>1, <4>2
      <3>2. ASSUME ReadFence(p) \/ Commit(p) \/ Beat(p) \/ Finish(p) PROVE Left
        BY <2>1, <3>2 DEF ReadFence, Commit, Beat, Finish, At, vars
      <3>3. ASSUME Check(p) PROVE Left
        BY <2>1, <3>0, <3>3 DEF Check, At
      <3>4. ASSUME Crash(p) PROVE Left
        BY <2>1, <3>0, <3>4 DEF Crash, At, Rewriting
      <3>5. ASSUME NEW io \in BOOLEAN, Publish(p, io) PROVE Left
        BY <2>1, <3>0, <3>5 DEF Publish, At
      <3>6. ASSUME NEW io \in BOOLEAN PROVE ~Write(p, io)
        BY <2>1 DEF Write
      <3>7. ASSUME NEW io \in BOOLEAN, Grant(p, io) \/ Beaten(p, io) \/ Probe(p, io) PROVE Left
        BY <2>1, <3>0, <3>7 DEF Grant, Beaten, Probe, At
      <3>8. ASSUME Create(p) PROVE Left
        BY <2>1, <3>8 DEF Create, At
      <3>9. Left
        BY <1>1, <2>4, <3>8, <3>1, <3>2, <3>3, <3>4, <3>5, <3>6, <3>7 DEF Act, Step
      <3>10. PICK q \in Procs : me[q].pc = "write"
        BY <1>1, <3>9 DEF FenceIsRestored, At
      <3>11. me'[q].pc = "write"
        BY <2>2, <3>9, <3>10 DEF Fine, Others
      <3>12. QED
        BY <3>11
    <2>5. QED
      BY <2>3, <2>4
  <1>2. ASSUME LeaseInv, FenceIsRestored, [Next]_vars PROVE FenceIsRestored'
    <2>1. CASE UNCHANGED vars
      BY <1>2, <2>1 DEF vars, FenceIsRestored, At
    <2>2. QED
      BY <1>1, <1>2, <2>1 DEF Next, Act
  <1>3. Init => FenceIsRestored
    BY DEF Init, FenceIsRestored
  <1>4. QED
    BY <1>2, <1>3, LeaseInvariant, PTL DEF Spec
=============================================================================
