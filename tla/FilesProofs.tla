----------------------------- MODULE FilesProofs -----------------------------
(***************************************************************************)
(* What the records of a project say of its files, for every number of     *)
(* files, records and faults. Mutations: NothingIsLost and                 *)
(* JournalTellsTheTruth, for which a handler, at each place in its code,   *)
(* knows what the files of its mutation hold. UpdateBatch:                 *)
(* BatchTellsTheTruth, for which an update or an undo knows which files of *)
(* its batch it has come to. EventLedger: what callers were told stays     *)
(* true, and what is written stays readable. AssistedProposals:            *)
(* AppliedIsWhole and HalfAppliedIsRepaired, for which the records of each *)
(* file are in order, and the call that applies a proposal knows the last  *)
(* record of every file.                                                   *)
(***************************************************************************)
EXTENDS Mutations, UpdateBatch, EventLedger, AssistedProposals,
        SequenceTheorems, FiniteSetTheorems, WellFoundedInduction, TLAPS

-----------------------------------------------------------------------------
(* Mutations: the inductive invariant.                                       *)

\* What the files were that a patch found.
Original(m) == IF m.existed THEN m.before ELSE Missing

\* The first record of a mutation, and its backup.
MutationFacts(id) ==
  LET m == Mutation(id) IN
  /\ {m.src, m.dst} \subseteq Paths \cup Started
  /\ m.kind = "patch" => backup[id] = Original(m)
  /\ m.kind \in {"move", "archive"} =>
       /\ m.before = m.after /\ m.after # Missing /\ m.src # m.dst
       /\ m.existed <=> backup[id] # Missing
  /\ m.kind = "archive" => ~m.existed

\* What the handler found when it wrote its record.
HandlerFound(r, was) ==
  LET m == Mutation(r.target) IN
  CASE r.kind = "patch" -> was[r.src] = Original(r)
    [] r.kind \in {"move", "archive"} -> was[r.src] = r.after /\ was[r.dst] = backup[r.id]
    [] r.kind = "undo" -> /\ r.target \in Started /\ m.kind # "undo"
                          /\ r.src = m.src /\ r.dst = m.dst
                          /\ IF m.kind = "patch" THEN was[r.src] = m.after
                             ELSE was[r.src] = Missing /\ was[r.dst] = m.after

\* How far it has come, by what the files are.
HandlerStands(r, was, pc) ==
  LET m == Mutation(r.target) IN
  /\ pc = "effect" => files = was
  /\ pc = "overwritten" => /\ r.kind = "undo" /\ m.kind = "move"
                           /\ files = Renamed(was, r.dst, r.src)
  /\ pc = "commit" => IF r.kind # "undo" THEN AsAfter(r)
                      ELSE AsBefore(m) /\ (m.kind # "patch" => files[r.src] = m.after)
  /\ pc = "rollback" /\ r.kind \in {"move", "archive"} => files = was \/ AsAfter(r)
  /\ pc = "rollback" /\ r.kind = "undo" /\ m.kind # "patch" => files = was \/ files[r.src] = m.after
  /\ pc = "putback" => r.kind = "move" /\ r.existed /\ files[r.src] = r.before
  /\ pc = "note" => IF r.kind = "undo" THEN AsAfter(m) ELSE AsBefore(r)

HandlerKnows ==
  handler # NoOp =>
    /\ handler.rec.id \in Started /\ Mutation(handler.rec.id) = handler.rec
    /\ handler.rec.target = 0 <=> handler.rec.kind # "undo"
    /\ HandlerFound(handler.rec, handler.was)
    /\ HandlerStands(handler.rec, handler.was, handler.pc)

\* The archive of a mutation that has not begun is empty.
ArchivesAreFree == \A i \in MutIds \ Started : files[i] = Missing

MutationInv ==
  /\ MutationTypeOK /\ ArchivesAreFree /\ HandlerKnows
  /\ \A id \in Started : MutationFacts(id)

-----------------------------------------------------------------------------
(* Mutations: the journal.                                                   *)

\* A non-empty set of natural numbers has a least member.
LEMMA LeastMember ==
  ASSUME NEW S \in SUBSET Nat, S # {}
  PROVE  \E n \in S : \A m \in S : n <= m
  <1> DEFINE R == {ss \in Nat \X Nat : ss[1] < ss[2]}
  <1>1. IsWellFoundedOn(R, Nat)
    BY NatLessThanWellFounded DEF OpToRel
  <1>2. \A x, y \in Nat : <<y, x>> \notin R => x <= y
    OBVIOUS
  <1> HIDE DEF R
  <1>3. PICK x \in S : \A y \in S : <<y, x>> \notin R
    BY <1>1, WFMin
  <1>4. QED
    BY <1>2, <1>3

First(id, i) == i \in 1..Len(journal) /\ journal[i].id = id /\ \A k \in 1..(i - 1) : journal[k].id # id

\* The first record of a mutation.
LEMMA FirstRecord ==
  ASSUME journal \in Seq(Record), NEW id \in Started
  PROVE  \E i : First(id, i) /\ Mutation(id) = journal[i]
  <1> DEFINE S == {i \in 1..Len(journal) : journal[i].id = id}
  <1>1. Len(journal) \in Nat
    BY LenProperties
  <1>2. S \in SUBSET Nat /\ S # {}
    BY <1>1 DEF Started
  <1>3. PICK i \in S : \A j \in S : i <= j
    BY <1>2, LeastMember
  <1>4. First(id, i)
    BY <1>1, <1>3 DEF First
  <1>5. \A j : First(id, j) => j = i
    BY <1>1, <1>4 DEF First
  <1>6. Mutation(id) = journal[i]
    BY <1>4, <1>5 DEF Mutation, First
  <1>7. QED
    BY <1>4, <1>6

LEMMA FirstIsMutation ==
  ASSUME journal \in Seq(Record), NEW id, NEW i, First(id, i)
  PROVE  id \in Started /\ Mutation(id) = journal[i]
  <1>1. Len(journal) \in Nat
    BY LenProperties
  <1>2. \A j : First(id, j) => j = i
    BY <1>1 DEF First
  <1>3. id \in Started
    BY DEF First, Started
  <1>4. QED
    BY <1>2, <1>3, FirstRecord

LEMMA MutationIsRecord ==
  ASSUME journal \in Seq(Record), NEW id \in Started
  PROVE  Mutation(id) \in Record /\ Mutation(id).id = id
  BY FirstRecord, ElementOfSeq DEF First

\* An append leaves the first records alone, and may be the first one of its mutation.
LEMMA JournalGrows ==
  ASSUME journal \in Seq(Record), NEW r \in Record, journal' = Append(journal, r)
  PROVE  /\ journal' \in Seq(Record) /\ Started' = Started \cup {r.id}
         /\ \A id \in Started : Mutation(id)' = Mutation(id)
         /\ r.id \notin Started => Mutation(r.id)' = r
         /\ Len(journal') = Len(journal) + 1 /\ Len(journal) \in Nat
         /\ journal'[Len(journal) + 1] = r
  <1>1. /\ journal' \in Seq(Record) /\ Len(journal') = Len(journal) + 1 /\ Len(journal) \in Nat
        /\ \A i \in 1..Len(journal) : journal'[i] = journal[i]
        /\ journal'[Len(journal) + 1] = r
    BY AppendProperties, LenProperties
  <1>2. Started' = Started \cup {r.id}
    BY <1>1 DEF Started
  <1>3. ASSUME NEW id, NEW i \in 1..Len(journal'), journal'[i].id = id,
               \A k \in 1..(i - 1) : journal'[k].id # id
        PROVE  Mutation(id)' = journal'[i]
    <2>1. \A j \in 1..Len(journal') :
            journal'[j].id = id /\ (\A k \in 1..(j - 1) : journal'[k].id # id) => j = i
      BY <1>1, <1>3
    <2>2. QED
      BY <1>3, <2>1 DEF Mutation
  <1>4. ASSUME NEW id \in Started PROVE Mutation(id)' = Mutation(id)
    <2>1. PICK i : First(id, i) /\ Mutation(id) = journal[i]
      BY FirstRecord
    <2>2. /\ i \in 1..Len(journal') /\ journal'[i].id = id
          /\ \A k \in 1..(i - 1) : journal'[k].id # id
      BY <1>1, <2>1 DEF First
    <2>3. Mutation(id)' = journal'[i]
      BY <1>3, <2>2
    <2>4. QED
      BY <1>1, <2>1, <2>3 DEF First
  <1>5. ASSUME r.id \notin Started PROVE Mutation(r.id)' = r
    <2>1. /\ Len(journal) + 1 \in 1..Len(journal') /\ journal'[Len(journal) + 1].id = r.id
          /\ \A k \in 1..Len(journal) : journal'[k].id # r.id
      BY <1>1, <1>5 DEF Started
    <2>2. (Len(journal) + 1) - 1 = Len(journal)
      BY <1>1
    <2>3. QED
      BY <1>1, <1>3, <2>1, <2>2
  <1>6. QED
    BY <1>1, <1>2, <1>4, <1>5

LEMMA JournalRests ==
  ASSUME journal' = journal
  PROVE  Started' = Started /\ \A id : Mutation(id)' = Mutation(id)
  BY DEF Started, Mutation

FilesType == [Places -> FileContents \cup {Missing}]
HandlerSteps == {"effect", "overwritten", "commit", "rollback", "putback", "note"}

\* What is known of a handler at work, and of the mutation it undoes.
LEMMA HandlerAtWork ==
  ASSUME MutationInv, handler # NoOp
  PROVE  /\ handler = [pc |-> handler.pc, rec |-> handler.rec, was |-> handler.was]
         /\ handler.pc \in HandlerSteps /\ handler.rec \in Record /\ handler.was \in FilesType
         /\ handler.rec.id \in Started /\ Mutation(handler.rec.id) = handler.rec
         /\ handler.rec.target = 0 <=> handler.rec.kind # "undo"
         /\ HandlerFound(handler.rec, handler.was)
         /\ HandlerStands(handler.rec, handler.was, handler.pc)
         /\ MutationFacts(handler.rec.id)
         /\ handler.rec.kind = "undo" =>
              /\ handler.rec.target \in Started /\ MutationFacts(handler.rec.target)
              /\ Mutation(handler.rec.target) \in Record
              /\ Mutation(handler.rec.target).id = handler.rec.target
  <1>1. /\ handler = [pc |-> handler.pc, rec |-> handler.rec, was |-> handler.was]
        /\ handler.pc \in HandlerSteps /\ handler.rec \in Record /\ handler.was \in FilesType
    BY DEF MutationInv, MutationTypeOK, NoOp, HandlerSteps, FilesType
  <1>2. /\ handler.rec.id \in Started /\ Mutation(handler.rec.id) = handler.rec
        /\ handler.rec.target = 0 <=> handler.rec.kind # "undo"
        /\ HandlerFound(handler.rec, handler.was)
        /\ HandlerStands(handler.rec, handler.was, handler.pc)
        /\ MutationFacts(handler.rec.id)
    BY DEF MutationInv, HandlerKnows
  <1>3. handler.rec.kind = "undo" => handler.rec.target \in Started
    BY <1>2 DEF HandlerFound
  <1>4. QED
    BY <1>1, <1>2, <1>3, MutationIsRecord DEF MutationInv, MutationTypeOK

\* What the journal and the backups say does not change while they rest.
LEMMA FactsRest ==
  ASSUME MutationInv, UNCHANGED <<backup, journal>>
  PROVE  \A id \in Started' : MutationFacts(id)'
  BY JournalRests DEF MutationInv, MutationFacts, Original

\* A step of a handler that writes no record.
LEMMA HandlerGoesOn ==
  ASSUME MutationInv, handler # NoOp, NEW pc \in HandlerSteps, HandlerGoto(pc),
         UNCHANGED <<backup, journal, edits>>,
         files' \in FilesType, \A i \in MutIds \ Started : files'[i] = files[i],
         NEW r, r = handler.rec, NEW was, was = handler.was, HandlerStands(r, was, pc)'
  PROVE  MutationInv'
  <1>1. Started' = Started /\ \A id : Mutation(id)' = Mutation(id)
    BY JournalRests
  <1>2. handler' = [pc |-> pc, rec |-> r, was |-> was]
    BY HandlerAtWork DEF HandlerGoto
  <1>3. MutationTypeOK'
    BY <1>2, HandlerAtWork DEF MutationInv, MutationTypeOK, FilesType, HandlerSteps
  <1>4. ArchivesAreFree'
    BY <1>1 DEF MutationInv, ArchivesAreFree
  <1>5. HandlerFound(r, was)'
    BY <1>1, HandlerAtWork DEF HandlerFound, Original
  <1>6. HandlerKnows'
    BY <1>1, <1>2, <1>5, HandlerAtWork DEF HandlerKnows
  <1>7. QED
    BY <1>3, <1>4, <1>6, FactsRest DEF MutationInv

\* A handler that ends without a word leaves all as it is.
LEMMA HandlerEnds ==
  ASSUME MutationInv, handler' = NoOp, UNCHANGED <<files, backup, journal, edits>>
  PROVE  MutationInv'
  <1>1. Started' = Started
    BY JournalRests
  <1>2. MutationTypeOK'
    BY DEF MutationInv, MutationTypeOK
  <1>3. ArchivesAreFree' /\ HandlerKnows'
    BY <1>1 DEF MutationInv, ArchivesAreFree, HandlerKnows
  <1>4. QED
    BY <1>2, <1>3, FactsRest DEF MutationInv

-----------------------------------------------------------------------------
(* Mutations: the steps of a handler.                                        *)

LEMMA EffectInv == MutationInv /\ (\E ok \in BOOLEAN : Effect(ok)) => MutationInv'
  <1> SUFFICES ASSUME MutationInv, NEW ok \in BOOLEAN, Effect(ok) PROVE MutationInv'
    OBVIOUS
  <1>1. PICK r, was, m : r = handler.rec /\ was = handler.was /\ m = Mutation(r.target)
    OBVIOUS
  <1>2. handler # NoOp /\ handler.pc = "effect" /\ Mutation(r.target)' = m
    BY <1>1, JournalRests DEF Effect, NoOp
  <1>3. /\ r \in Record /\ was \in FilesType /\ files = was
        /\ HandlerFound(r, was) /\ MutationFacts(r.id) /\ Mutation(r.id) = r
        /\ {r.src, r.dst} \subseteq Paths \cup Started
        /\ r.kind = "undo" => m \in Record /\ MutationFacts(r.target) /\ m.id = r.target
    BY <1>1, <1>2, HandlerAtWork DEF HandlerStands, MutationFacts
  <1>4. backup \in [MutIds -> FileContents \cup {Missing}]
    BY DEF MutationInv, MutationTypeOK
  <1>5. CASE ~ok
    <2>1. HandlerStands(r, was, "rollback")'
      BY <1>1, <1>2, <1>3, <1>5 DEF HandlerStands, Effect
    <2>2. QED
      BY <1>1, <1>2, <1>3, <1>5, <2>1, HandlerGoesOn DEF Effect, HandlerSteps
  <1>6. CASE ok
    <2> DEFINE pc == IF r.kind = "undo" /\ m.kind = "move" THEN "overwritten" ELSE "commit"
    <2>1. files' = Changed(r) /\ HandlerGoto(pc) /\ UNCHANGED <<backup, journal, edits>>
      BY <1>1, <1>6 DEF Effect
    <2>2. /\ files' \in FilesType
          /\ \A i \in Places : i # r.src /\ i # r.dst => files'[i] = files[i]
      <3>1. CASE r.kind = "patch"
        BY <1>1, <1>3, <2>1, <3>1 DEF Changed, FilesType, Record
      <3>2. CASE r.kind \notin {"patch", "undo"}
        BY <1>1, <1>3, <2>1, <3>2 DEF Changed, Renamed, FilesType, Record
      <3>3. CASE r.kind = "undo" /\ m.kind = "patch"
        BY <1>1, <1>3, <1>4, <2>1, <3>3 DEF Changed, FilesType, Record
      <3>4. CASE r.kind = "undo" /\ m.kind # "patch"
        BY <1>1, <1>3, <2>1, <3>4 DEF Changed, Renamed, FilesType, Record
      <3>5. QED
        BY <3>1, <3>2, <3>3, <3>4
    <2>3. HandlerStands(r, was, pc)'
      <3>1. CASE r.kind # "undo"
        BY <1>1, <1>2, <1>3, <2>1, <3>1
        DEF HandlerStands, Changed, Renamed, FilesType, Record, HandlerFound, AsAfter, Kinds, MutationFacts
      <3>2. CASE r.kind = "undo" /\ m.kind = "patch"
        BY <1>1, <1>2, <1>3, <2>1, <3>2
        DEF HandlerStands, Changed, FilesType, Record, HandlerFound, AsBefore, MutationFacts, Original
      <3>3. CASE r.kind = "undo" /\ m.kind = "move"
        BY <1>1, <1>2, <1>3, <2>1, <3>3
        DEF HandlerStands, Changed, FilesType, Record, HandlerFound, MutationFacts
      <3>4. CASE r.kind = "undo" /\ m.kind = "archive"
        BY <1>1, <1>2, <1>3, <2>1, <3>4
        DEF HandlerStands, Changed, Renamed, FilesType, Record, HandlerFound, AsBefore, MutationFacts
      <3>5. r.kind = "undo" => m.kind \in {"patch", "move", "archive"}
        BY <1>1, <1>3 DEF Record, Kinds, HandlerFound
      <3>6. QED
        BY <3>1, <3>2, <3>3, <3>4, <3>5
    <2>4. \A i \in MutIds \ Started : files'[i] = files[i]
      BY <1>3, <2>2, MutationAssumption DEF Places
    <2>5. pc \in HandlerSteps
      BY DEF HandlerSteps
    <2> HIDE DEF pc
    <2>6. QED
      BY <1>1, <1>2, <2>1, <2>2, <2>3, <2>4, <2>5, HandlerGoesOn
  <1>7. QED
    BY <1>5, <1>6

LEMMA OverwrittenInv == MutationInv /\ (\E ok \in BOOLEAN : Overwritten(ok)) => MutationInv'
  <1> SUFFICES ASSUME MutationInv, NEW ok \in BOOLEAN, Overwritten(ok) PROVE MutationInv'
    OBVIOUS
  <1>1. PICK r, was, m : r = handler.rec /\ was = handler.was /\ m = Mutation(r.target)
    OBVIOUS
  <1>2. handler # NoOp /\ handler.pc = "overwritten" /\ Mutation(r.target)' = m
    BY <1>1, JournalRests DEF Overwritten, NoOp
  <1>3. /\ r \in Record /\ was \in FilesType /\ r.kind = "undo" /\ m.kind = "move"
        /\ files = Renamed(was, r.dst, r.src)
        /\ HandlerFound(r, was) /\ MutationFacts(r.id) /\ Mutation(r.id) = r
        /\ {r.src, r.dst} \subseteq Paths \cup Started
        /\ m \in Record /\ MutationFacts(r.target) /\ m.id = r.target
    BY <1>1, <1>2, HandlerAtWork DEF HandlerStands, MutationFacts
  <1>4. backup \in [MutIds -> FileContents \cup {Missing}]
    BY DEF MutationInv, MutationTypeOK
  <1>5. /\ r.src = m.src /\ r.dst = m.dst /\ m.src # m.dst
        /\ was[m.dst] = m.after /\ m.after = m.before
        /\ files[m.src] = m.after /\ files[m.dst] = Missing
        /\ m.existed <=> backup[m.id] # Missing
    BY <1>1, <1>3 DEF HandlerFound, MutationFacts, Renamed, FilesType, Record
  <1>6. PICK pc \in {"rollback", "commit"} :
          /\ HandlerGoto(pc) /\ UNCHANGED <<backup, journal, edits>>
          /\ IF pc = "rollback" THEN files' = files
             ELSE files' = IF m.existed THEN [files EXCEPT ![m.dst] = backup[m.id]] ELSE files
    BY <1>1 DEF Overwritten
  <1>7. files \in FilesType
    BY DEF MutationInv, MutationTypeOK, FilesType
  <1>8. files' \in FilesType /\ \A i \in Places : i # r.dst => files'[i] = files[i]
    BY <1>3, <1>4, <1>5, <1>6, <1>7 DEF FilesType, Record
  <1>9. HandlerStands(r, was, pc)'
    BY <1>2, <1>3, <1>5, <1>6, <1>7 DEF HandlerStands, AsBefore, FilesType, Record
  <1>10. \A i \in MutIds \ Started : files'[i] = files[i]
    BY <1>3, <1>8, MutationAssumption DEF Places
  <1>11. QED
    BY <1>1, <1>2, <1>6, <1>8, <1>9, <1>10, HandlerGoesOn DEF HandlerSteps

LEMMA RollbackChangeInv == MutationInv /\ (\E ok \in BOOLEAN : RollbackChange(ok)) => MutationInv'
  <1> SUFFICES ASSUME MutationInv, NEW ok \in BOOLEAN, RollbackChange(ok) PROVE MutationInv'
    OBVIOUS
  <1>1. PICK r, was, m : r = handler.rec /\ was = handler.was /\ m = Mutation(r.target)
    OBVIOUS
  <1>2. handler # NoOp /\ handler.pc = "rollback" /\ Mutation(r.target)' = m
    BY <1>1, JournalRests DEF RollbackChange, NoOp
  <1>3. /\ r \in Record /\ was \in FilesType
        /\ HandlerFound(r, was) /\ MutationFacts(r.id) /\ Mutation(r.id) = r
        /\ {r.src, r.dst} \subseteq Paths \cup Started
        /\ r.kind = "undo" => m \in Record /\ MutationFacts(r.target) /\ m.id = r.target
        /\ r.kind \in {"move", "archive"} => files = was \/ AsAfter(r)
        /\ r.kind = "undo" /\ m.kind # "patch" => files = was \/ files[r.src] = m.after
    BY <1>1, <1>2, HandlerAtWork DEF HandlerStands, MutationFacts
  <1>4. files \in FilesType
    BY DEF MutationInv, MutationTypeOK, FilesType
  <1>5. CASE ~ok
    BY <1>5, HandlerEnds DEF RollbackChange
  <1>6. CASE ok
    <2> DEFINE pc == IF r.kind = "move" /\ r.existed THEN "putback" ELSE "note"
    <2>1. HandlerGoto(pc) /\ UNCHANGED <<backup, journal, edits>>
      BY <1>1, <1>6 DEF RollbackChange
    <2>2. files' = IF r.kind = "patch" THEN [files EXCEPT ![r.src] = was[r.src]]
                   ELSE IF files = was THEN files
                   ELSE IF r.kind = "undo"
                   THEN IF m.kind = "patch" THEN [files EXCEPT ![r.src] = was[r.src]]
                                            ELSE Renamed(files, r.src, r.dst)
                   ELSE Renamed(files, r.dst, r.src)
      BY <1>1, <1>6 DEF RollbackChange
    <2>3. /\ files' \in FilesType
          /\ \A i \in Places : i # r.src /\ i # r.dst => files'[i] = files[i]
      <3>1. CASE files' = files
        BY <1>4, <3>1
      <3>2. CASE files' = [files EXCEPT ![r.src] = was[r.src]]
        BY <1>3, <1>4, <3>2 DEF FilesType, Record
      <3>3. CASE files' = Renamed(files, r.src, r.dst)
        BY <1>3, <1>4, <3>3 DEF FilesType, Record, Renamed
      <3>4. CASE files' = Renamed(files, r.dst, r.src)
        BY <1>3, <1>4, <3>4 DEF FilesType, Record, Renamed
      <3>5. QED
        BY <2>2, <3>1, <3>2, <3>3, <3>4
    <2>4. HandlerStands(r, was, pc)'
      <3>1. CASE r.kind = "patch"
        BY <1>2, <1>3, <1>4, <2>2, <3>1
        DEF HandlerStands, FilesType, Record, HandlerFound, AsBefore, Original
      <3>2. CASE r.kind \in {"move", "archive"}
        <4>1. /\ was[r.src] = r.after /\ was[r.dst] = backup[r.id] /\ r.before = r.after
              /\ r.src # r.dst /\ r.src \in Places /\ r.dst \in Places
              /\ r.existed <=> backup[r.id] # Missing
              /\ r.kind = "archive" => ~r.existed
          BY <1>3, <3>2 DEF HandlerFound, MutationFacts, Record
        <4>2. files = was \/ files[r.dst] = r.after
          BY <1>3, <3>2 DEF AsAfter
        <4>3. /\ files'[r.src] = r.before
              /\ files'[r.dst] = backup[r.id] \/ (r.kind = "move" /\ r.existed)
          BY <1>4, <2>2, <3>2, <4>1, <4>2 DEF Renamed, FilesType
        <4>4. QED
          BY <1>2, <2>1, <3>2, <4>3 DEF HandlerStands, AsBefore
      <3>3. CASE r.kind = "undo"
        <4>1. /\ r.src = m.src /\ r.dst = m.dst /\ m.src \in Places /\ m.dst \in Places
              /\ m.kind = "patch" => was[m.src] = m.after
              /\ m.kind # "patch" =>
                   /\ was[m.src] = Missing /\ was[m.dst] = m.after /\ m.src # m.dst
                   /\ files = was \/ files[m.src] = m.after
          BY <1>1, <1>3, <3>3 DEF HandlerFound, MutationFacts, Record, Kinds
        <4>2. IF m.kind = "patch" THEN files'[m.src] = m.after
              ELSE files'[m.src] = Missing /\ files'[m.dst] = m.after
          BY <1>4, <2>2, <3>3, <4>1 DEF Renamed, FilesType
        <4>3. QED
          BY <1>2, <3>3, <4>2 DEF HandlerStands, AsAfter
      <3>4. QED
        BY <1>3, <3>1, <3>2, <3>3 DEF Record, Kinds
    <2>5. \A i \in MutIds \ Started : files'[i] = files[i]
      BY <1>3, <2>3, MutationAssumption DEF Places
    <2>6. pc \in HandlerSteps
      BY DEF HandlerSteps
    <2> HIDE DEF pc
    <2>7. QED
      BY <1>1, <1>2, <2>1, <2>3, <2>4, <2>5, <2>6, HandlerGoesOn
  <1>7. QED
    BY <1>5, <1>6

LEMMA PutOverwrittenInv == MutationInv /\ (\E ok \in BOOLEAN : PutOverwritten(ok)) => MutationInv'
  <1> SUFFICES ASSUME MutationInv, NEW ok \in BOOLEAN, PutOverwritten(ok) PROVE MutationInv'
    OBVIOUS
  <1>1. PICK r, was : r = handler.rec /\ was = handler.was
    OBVIOUS
  <1>2. handler # NoOp /\ handler.pc = "putback"
    BY DEF PutOverwritten, NoOp
  <1>3. /\ r \in Record /\ was \in FilesType /\ r.kind = "move" /\ r.existed
        /\ files[r.src] = r.before /\ was[r.dst] = backup[r.id] /\ r.src # r.dst
        /\ {r.src, r.dst} \subseteq Paths \cup Started
    <2>1. /\ r \in Record /\ was \in FilesType /\ Mutation(r.id) = r
          /\ HandlerFound(r, was) /\ HandlerStands(r, was, "putback") /\ MutationFacts(r.id)
      BY <1>1, <1>2, HandlerAtWork
    <2>2. r.kind = "move" /\ r.existed /\ files[r.src] = r.before
      BY ONLY <2>1 DEF HandlerStands
    <2>3. was[r.dst] = backup[r.id]
      BY ONLY <2>1, <2>2 DEF HandlerFound
    <2>4. r.src # r.dst /\ {r.src, r.dst} \subseteq Paths \cup Started
      BY ONLY <2>1, <2>2 DEF MutationFacts
    <2>5. QED
      BY <2>1, <2>2, <2>3, <2>4
  <1>4. CASE ~ok
    BY <1>4, HandlerEnds DEF PutOverwritten
  <1>5. CASE ok
    <2>1. /\ files' = [files EXCEPT ![r.dst] = was[r.dst]] /\ HandlerGoto("note")
          /\ UNCHANGED <<backup, journal, edits>>
      BY <1>1, <1>5 DEF PutOverwritten
    <2>2. files \in FilesType
      BY DEF MutationInv, MutationTypeOK, FilesType
    <2>3. files' \in FilesType /\ \A i \in Places : i # r.dst => files'[i] = files[i]
      BY <1>3, <2>1, <2>2 DEF FilesType, Record
    <2>4. HandlerStands(r, was, "note")'
      BY <1>3, <2>1, <2>2 DEF HandlerStands, AsBefore, FilesType, Record
    <2>5. \A i \in MutIds \ Started : files'[i] = files[i]
      BY <1>3, <2>3, MutationAssumption DEF Places
    <2>6. QED
      BY <1>1, <1>2, <2>1, <2>3, <2>4, <2>5, HandlerGoesOn DEF HandlerSteps
  <1>6. QED
    BY <1>4, <1>5

\* An editor is at work only when no handler is.
LEMMA EditInv ==
  MutationInv /\ (\E p \in Paths, c \in FileContents \cup {Missing} : Edit(p, c)) => MutationInv'
  <1> SUFFICES ASSUME MutationInv, NEW p \in Paths, NEW c \in FileContents \cup {Missing}, Edit(p, c)
               PROVE  MutationInv'
    OBVIOUS
  <1>1. Started' = Started
    BY JournalRests DEF Edit
  <1>2. MutationTypeOK'
    <2>1. edits' \in 0..MaxEdits
      BY MutationAssumption DEF MutationInv, MutationTypeOK, Edit
    <2>2. QED
      BY <2>1 DEF MutationInv, MutationTypeOK, Edit
  <1>3. ArchivesAreFree' /\ HandlerKnows'
    BY <1>1, MutationAssumption
    DEF MutationInv, MutationTypeOK, Places, ArchivesAreFree, HandlerKnows, Edit
  <1>4. QED
    BY <1>2, <1>3, FactsRest DEF MutationInv, Edit

\* Another record of a mutation that has begun changes nothing of what is known.
LEMMA StatusRecorded ==
  ASSUME MutationInv, NEW id \in Started, NEW status \in Statuses,
         journal' = Append(journal, [Mutation(id) EXCEPT !.status = status]),
         UNCHANGED <<files, backup, edits>>
  PROVE  /\ journal' \in Seq(Record) /\ Started' = Started
         /\ \A i \in Started : Mutation(i)' = Mutation(i)
         /\ ArchivesAreFree' /\ \A i \in Started' : MutationFacts(i)'
  <1>1. journal \in Seq(Record)
    BY DEF MutationInv, MutationTypeOK
  <1>2. PICK r : r = [Mutation(id) EXCEPT !.status = status]
    OBVIOUS
  <1>3. r \in Record /\ r.id = id
    <2>1. PICK m : m = Mutation(id)
      OBVIOUS
    <2>2. m \in Record /\ m.id = id /\ r = [m EXCEPT !.status = status]
      BY <1>1, <1>2, <2>1, MutationIsRecord
    <2>3. QED
      BY ONLY <2>2, status \in Statuses DEF Record
  <1>4. /\ journal' \in Seq(Record) /\ Started' = Started
        /\ \A i \in Started : Mutation(i)' = Mutation(i)
    <2>1. journal' = Append(journal, r)
      BY <1>2
    <2>2. journal' \in Seq(Record) /\ Started' = Started \cup {r.id}
      BY <1>1, <1>3, <2>1, JournalGrows
    <2>3. \A i \in Started : Mutation(i)' = Mutation(i)
      BY <1>1, <1>3, <2>1, JournalGrows
    <2>4. QED
      BY <1>3, <2>2, <2>3
  <1>5. \A i \in Started' : MutationFacts(i)'
    BY <1>4 DEF MutationInv, MutationFacts, Original
  <1>6. QED
    BY <1>4, <1>5 DEF MutationInv, ArchivesAreFree

\* A handler that has died, or is done, leaves the rest as it must be.
LEMMA NobodyAtWork ==
  ASSUME MutationInv, journal' \in Seq(Record), UNCHANGED <<files, backup, edits>>,
         handler' = NoOp, ArchivesAreFree', \A i \in Started' : MutationFacts(i)'
  PROVE  MutationInv'
  <1>1. MutationTypeOK'
    BY DEF MutationInv, MutationTypeOK
  <1>2. QED
    BY <1>1 DEF MutationInv, HandlerKnows

LEMMA RecoverInv == MutationInv /\ (\E id \in MutIds : Recover(id)) => MutationInv'
  <1> SUFFICES ASSUME MutationInv, NEW id \in MutIds, Recover(id) PROVE MutationInv'
    OBVIOUS
  <1>1. PICK status : status = RecoveryStatus(Mutation(id))
    OBVIOUS
  <1>2. status \in Statuses
    BY <1>1 DEF RecoveryStatus, Statuses
  <1>3. /\ id \in Started /\ journal' = Append(journal, [Mutation(id) EXCEPT !.status = status])
        /\ UNCHANGED <<files, backup, edits>> /\ handler' = NoOp
    BY <1>1 DEF Recover
  <1>4. /\ journal' \in Seq(Record) /\ ArchivesAreFree'
        /\ \A i \in Started' : MutationFacts(i)'
    BY <1>2, <1>3, StatusRecorded
  <1>5. QED
    BY <1>3, <1>4, NobodyAtWork

\* A record that the handler writes, or loses.
LEMMA Noted ==
  ASSUME MutationInv, handler # NoOp, NEW status \in Statuses, NEW how, Note(status, how),
         UNCHANGED <<files, backup, edits>>
  PROVE  /\ journal' \in Seq(Record) /\ Started' = Started
         /\ \A i \in Started : Mutation(i)' = Mutation(i)
         /\ ArchivesAreFree' /\ \A i \in Started' : MutationFacts(i)'
  <1>1. CASE journal' = journal
    BY <1>1, JournalRests, FactsRest DEF MutationInv, MutationTypeOK, ArchivesAreFree
  <1>2. CASE journal' = Append(journal, [handler.rec EXCEPT !.status = status])
    <2>1. PICK id \in Started : Mutation(id) = handler.rec
      BY HandlerAtWork
    <2>2. QED
      BY <1>2, <2>1, StatusRecorded
  <1>3. QED
    BY <1>1, <1>2 DEF Note

LEMMA CommitInv == MutationInv /\ (\E how \in NoteOutcomes : Commit(how)) => MutationInv'
  <1> SUFFICES ASSUME MutationInv, NEW how \in NoteOutcomes, Commit(how) PROVE MutationInv'
    OBVIOUS
  <1>1. handler # NoOp /\ handler.pc = "commit" /\ "committed" \in Statuses
    BY DEF Commit, NoOp, Statuses
  <1>2. /\ journal' \in Seq(Record) /\ Started' = Started
        /\ \A i \in Started : Mutation(i)' = Mutation(i)
        /\ ArchivesAreFree' /\ \A i \in Started' : MutationFacts(i)'
    BY <1>1, Noted DEF Commit
  <1>3. CASE handler' = NoOp
    BY <1>2, <1>3, NobodyAtWork DEF Commit
  <1>4. CASE HandlerGoto("rollback")
    <2>1. PICK r, was, m : r = handler.rec /\ was = handler.was /\ m = Mutation(r.target)
      OBVIOUS
    <2>2. handler' = [pc |-> "rollback", rec |-> r, was |-> was]
      BY <1>1, <1>4, <2>1, HandlerAtWork DEF HandlerGoto
    <2>3. MutationTypeOK'
      BY <1>1, <1>2, <2>1, <2>2, HandlerAtWork DEF MutationInv, MutationTypeOK, FilesType, Commit
    <2>4. r.kind = "undo" => r.target \in Started /\ Mutation(r.target)' = m
      BY <1>1, <1>2, <2>1, HandlerAtWork
    <2>5. HandlerFound(r, was)'
      BY <1>1, <1>2, <2>1, <2>4, HandlerAtWork DEF HandlerFound, Original, Commit
    <2>6. HandlerStands(r, was, "commit")
      BY <1>1, <2>1, HandlerAtWork
    <2>7. HandlerStands(r, was, "rollback")'
      BY <2>1, <2>4, <2>6 DEF HandlerStands, AsAfter, Commit
    <2>8. HandlerKnows'
      BY <1>1, <1>2, <2>1, <2>2, <2>5, <2>7, HandlerAtWork DEF HandlerKnows
    <2>9. QED
      BY <1>2, <2>3, <2>8 DEF MutationInv
  <1>5. QED
    BY <1>3, <1>4 DEF Commit

LEMMA NoteRollbackInv == MutationInv /\ (\E how \in NoteOutcomes : NoteRollback(how)) => MutationInv'
  <1> SUFFICES ASSUME MutationInv, NEW how \in NoteOutcomes, NoteRollback(how) PROVE MutationInv'
    OBVIOUS
  <1>1. handler # NoOp /\ "rolled_back" \in Statuses
    BY DEF NoteRollback, NoOp, Statuses
  <1>2. QED
    BY <1>1, Noted, NobodyAtWork DEF NoteRollback

LEMMA MutationCrashInv == MutationInv /\ MutationCrash => MutationInv'
  BY HandlerEnds DEF MutationCrash

-----------------------------------------------------------------------------
(* Mutations: the start of a handler.                                        *)

\* There is a first free id, and nothing has been recorded or kept under it.
LEMMA NextIdIsFree ==
  ASSUME MutationInv, Fresh
  PROVE  NextId \in MutIds /\ NextId \notin Started
  <1> DEFINE S == {i \in MutIds : i \notin Started}
  <1>1. S \in SUBSET Nat /\ S # {}
    BY MutationAssumption DEF Fresh, MutIds
  <1>2. PICK n \in S : \A m \in S : n <= m
    BY <1>1, LeastMember
  <1>3. n \in MutIds /\ n \notin Started /\ \A j \in MutIds : j < n => j \in Started
    BY <1>1, <1>2, MutationAssumption DEF MutIds
  <1>4. QED
    BY <1>3 DEF NextId

\* The record r and the backup are those of a mutation that may begin.
MayBegin(r, content) ==
  LET m == Mutation(r.target) IN
  /\ r \in Record /\ r.id \notin Started
  /\ {r.src, r.dst} \subseteq Paths \cup Started \cup {r.id}
  /\ r.target = 0 <=> r.kind # "undo"
  /\ content \in FileContents \cup {Missing}
  /\ r.kind = "patch" => content = Original(r) /\ files[r.src] = content
  /\ r.kind \in {"move", "archive"} =>
       /\ r.before = r.after /\ r.after # Missing /\ r.src # r.dst
       /\ r.existed <=> content # Missing
       /\ files[r.src] = r.after /\ files[r.dst] = content
  /\ r.kind = "archive" => ~r.existed
  /\ r.kind = "undo" =>
       /\ r.target \in Started /\ m.kind # "undo" /\ r.src = m.src /\ r.dst = m.dst
       /\ IF m.kind = "patch" THEN files[r.src] = m.after
          ELSE files[r.src] = Missing /\ files[r.dst] = m.after

LEMMA PrepareInv ==
  ASSUME MutationInv, NEW r, NEW content, Prepare(r, content), MayBegin(r, content)
  PROVE  MutationInv'
  <1>1. /\ r \in Record /\ r.id \notin Started /\ r.id \in MutIds
        /\ journal \in Seq(Record) /\ backup \in [MutIds -> FileContents \cup {Missing}]
        /\ files \in FilesType
    BY DEF MayBegin, MutationInv, MutationTypeOK, FilesType, Record
  <1>2. journal' = Append(journal, r)
    BY DEF Prepare
  <1>3. journal' \in Seq(Record) /\ Started' = Started \cup {r.id} /\ Mutation(r.id)' = r
    BY <1>1, <1>2, JournalGrows
  <1>4. \A i \in Started : Mutation(i)' = Mutation(i)
    BY <1>1, <1>2, JournalGrows
  <1>5. /\ files' = files /\ backup'[r.id] = content
        /\ \A i \in Started : backup'[i] = backup[i]
        /\ backup' \in [MutIds -> FileContents \cup {Missing}]
    <2>1. Started \subseteq MutIds
      BY <1>1, MutationIsRecord DEF Record
    <2>2. QED
      BY <1>1, <2>1 DEF Prepare, Backup, MayBegin
  <1>6. PICK was : was = files /\ handler' = [pc |-> "effect", rec |-> r, was |-> was]
    BY DEF Prepare
  <1>7. MutationTypeOK'
    BY <1>1, <1>3, <1>5, <1>6 DEF MutationInv, MutationTypeOK, FilesType, Prepare
  <1>8. ArchivesAreFree'
    BY <1>3, <1>5 DEF MutationInv, ArchivesAreFree
  <1>9. \A i \in Started' : MutationFacts(i)'
    <2>1. MutationFacts(r.id)'
      BY <1>1, <1>3, <1>5 DEF MutationFacts, Original, MayBegin
    <2>2. ASSUME NEW i \in Started PROVE MutationFacts(i)'
      BY <1>3, <1>4, <1>5, <2>2 DEF MutationFacts, Original, MutationInv
    <2>3. QED
      BY <1>3, <2>1, <2>2
  <1>10. HandlerFound(r, was)'
    <2>1. CASE r.kind = "patch"
      BY <1>6, <2>1 DEF HandlerFound, Original, MayBegin
    <2>2. CASE r.kind \in {"move", "archive"}
      BY <1>5, <1>6, <2>2 DEF HandlerFound, MayBegin
    <2>3. CASE r.kind = "undo"
      BY <1>3, <1>4, <1>6, <2>3 DEF HandlerFound, MayBegin
    <2>4. QED
      BY <1>1, <2>1, <2>2, <2>3 DEF Record, Kinds
  <1>11. HandlerStands(r, was, "effect")'
    BY <1>5, <1>6 DEF HandlerStands
  <1>12. HandlerKnows'
    BY <1>3, <1>6, <1>10, <1>11 DEF HandlerKnows, MayBegin
  <1>13. QED
    BY <1>7, <1>8, <1>9, <1>12 DEF MutationInv

\* A text is not the mark of a file that does not exist.
LEMMA TextsAreContents ==
  /\ <<>> \in FileContents /\ Missing \notin FileContents
  /\ \A c \in FileContents, t \in Texts : Len(c) < MaxText => Append(c, t) \in FileContents
  <1>1. <<>> \in FileContents
    <2>1. <<>> \in [1..0 -> Texts] /\ 0 \in 0..MaxText
      BY MutationAssumption
    <2>2. QED
      BY <2>1 DEF FileContents
  <1>2. Missing \notin FileContents
    <2>1. ASSUME NEW n \in 0..MaxText, Missing \in [1..n -> Texts] PROVE FALSE
      <3>1. DOMAIN Missing = 1..1 /\ Missing[1] = 0
        BY DEF Missing
      <3>2. DOMAIN Missing = 1..n
        BY <2>1
      <3>3. 1 \in 1..n
        BY <3>1, <3>2
      <3>4. QED
        BY <2>1, <3>1, <3>3, MutationAssumption
    <2>2. QED
      BY <2>1 DEF FileContents
  <1>3. ASSUME NEW c \in FileContents, NEW t \in Texts, Len(c) < MaxText
        PROVE  Append(c, t) \in FileContents
    <2>1. PICK n \in 0..MaxText : c \in [1..n -> Texts]
      BY DEF FileContents
    <2>2. n \in Nat /\ c \in Seq(Texts) /\ Len(c) = n
      <3>1. n \in Nat
        BY <2>1, MutationAssumption
      <3>2. c \in Seq(Texts)
        BY <2>1, <3>1
      <3>3. QED
        BY <2>1, <3>1, <3>2
    <2>3. n + 1 \in 0..MaxText
      BY <1>3, <2>2, MutationAssumption
    <2>4. Append(c, t) \in [1..(n + 1) -> Texts]
      BY <2>2, AppendProperties, LenProperties, ElementOfSeq
    <2>5. QED
      BY <2>3, <2>4 DEF FileContents
  <1>4. QED
    BY <1>1, <1>2, <1>3

LEMMA PatchInv == MutationInv /\ (\E p \in Paths, t \in Texts : Patch(p, t)) => MutationInv'
  <1> SUFFICES ASSUME MutationInv, NEW p \in Paths, NEW t \in Texts, Patch(p, t) PROVE MutationInv'
    OBVIOUS
  <1> DEFINE now == IF files[p] = Missing THEN <<>> ELSE files[p]
  <1>1. PICK r : r = Rec("patch", p, p, Append(now, t), files[p] # Missing, 0)
    OBVIOUS
  <1>2. Fresh /\ Len(now) < MaxText /\ Prepare(r, files[p])
    BY <1>1 DEF Patch
  <1>3. NextId \in MutIds /\ NextId \notin Started
    BY <1>2, NextIdIsFree
  <1>4. p \in Places /\ files[p] \in FileContents \cup {Missing}
    BY DEF MutationInv, MutationTypeOK, Places
  <1>5. now \in FileContents /\ Append(now, t) \in FileContents
    BY <1>2, <1>4, TextsAreContents
  <1> HIDE DEF now
  <1>6. r \in Record
    BY <1>1, <1>3, <1>4, <1>5, TextsAreContents DEF Rec, Record, Kinds, Statuses
  <1>7. MayBegin(r, files[p])
    BY <1>1, <1>3, <1>4, <1>6 DEF MayBegin, Rec, Original
  <1>8. QED
    BY <1>2, <1>7, PrepareInv

LEMMA MoveInv == MutationInv /\ (\E p, q \in Paths : Move(p, q)) => MutationInv'
  <1> SUFFICES ASSUME MutationInv, NEW p \in Paths, NEW q \in Paths, Move(p, q) PROVE MutationInv'
    OBVIOUS
  <1>1. PICK r : r = Rec("move", p, q, files[p], files[q] # Missing, 0)
    OBVIOUS
  <1>2. Fresh /\ p # q /\ files[p] # Missing /\ Prepare(r, files[q])
    BY <1>1 DEF Move
  <1>3. NextId \in MutIds /\ NextId \notin Started
    BY <1>2, NextIdIsFree
  <1>4. /\ {p, q} \subseteq Places
        /\ files[p] \in FileContents \cup {Missing} /\ files[q] \in FileContents \cup {Missing}
    BY DEF MutationInv, MutationTypeOK, Places
  <1>5. r \in Record
    BY <1>1, <1>2, <1>3, <1>4 DEF Rec, Record, Kinds, Statuses
  <1>6. MayBegin(r, files[q])
    BY <1>1, <1>2, <1>3, <1>4, <1>5 DEF MayBegin, Rec
  <1>7. QED
    BY <1>2, <1>6, PrepareInv

LEMMA ArchiveInv == MutationInv /\ (\E p \in Paths : Archive(p)) => MutationInv'
  <1> SUFFICES ASSUME MutationInv, NEW p \in Paths, Archive(p) PROVE MutationInv'
    OBVIOUS
  <1>1. PICK r : r = Rec("archive", p, NextId, files[p], FALSE, 0)
    OBVIOUS
  <1>2. Fresh /\ files[p] # Missing /\ Prepare(r, Missing)
    BY <1>1 DEF Archive
  <1>3. NextId \in MutIds /\ NextId \notin Started
    BY <1>2, NextIdIsFree
  <1>4. /\ {p, NextId} \subseteq Places /\ p # NextId
        /\ files[p] \in FileContents \cup {Missing} /\ files[NextId] = Missing
    BY <1>3, MutationAssumption DEF MutationInv, MutationTypeOK, Places, ArchivesAreFree
  <1>5. r \in Record
    BY <1>1, <1>2, <1>3, <1>4 DEF Rec, Record, Kinds, Statuses
  <1>6. MayBegin(r, Missing)
    BY <1>1, <1>2, <1>3, <1>4, <1>5 DEF MayBegin, Rec
  <1>7. QED
    BY <1>2, <1>6, PrepareInv

LEMMA UndoInv == MutationInv /\ (\E id \in MutIds : Undo(id)) => MutationInv'
  <1> SUFFICES ASSUME MutationInv, NEW id \in MutIds, Undo(id) PROVE MutationInv'
    OBVIOUS
  <1>1. PICK m : m = Mutation(id)
    OBVIOUS
  <1>2. PICK r : r = [Rec("undo", m.src, m.dst, Missing, FALSE, id) EXCEPT !.before = files[m.src]]
    OBVIOUS
  <1>3. Fresh /\ id \in Started /\ m.kind # "undo" /\ Undoable(m) /\ Prepare(r, Missing)
    BY <1>1, <1>2 DEF Undo
  <1>4. NextId \in MutIds /\ NextId \notin Started
    BY <1>3, NextIdIsFree
  <1>5. /\ m \in Record /\ {m.src, m.dst} \subseteq Paths \cup Started /\ id # 0
        /\ {m.src, m.dst} \subseteq Places /\ files[m.src] \in FileContents \cup {Missing}
    BY <1>1, <1>3, MutationIsRecord
    DEF MutationInv, MutationTypeOK, MutationFacts, Record, MutIds
  <1>6. r = [id |-> NextId, kind |-> "undo", status |-> "prepared", src |-> m.src, dst |-> m.dst,
             before |-> files[m.src], after |-> Missing, existed |-> FALSE, target |-> id]
    BY <1>2 DEF Rec
  <1>7. r \in Record
    BY <1>4, <1>5, <1>6 DEF Record, Kinds, Statuses
  <1>8. MayBegin(r, Missing)
    BY <1>1, <1>3, <1>4, <1>5, <1>6, <1>7 DEF MayBegin, Undoable
  <1>9. QED
    BY <1>3, <1>8, PrepareInv

-----------------------------------------------------------------------------
(* Mutations: the specification.                                             *)

LEMMA MutationInitInv == MutationInit => MutationInv
  <1> SUFFICES ASSUME MutationInit PROVE MutationInv
    OBVIOUS
  <1>1. Started = {}
    BY DEF MutationInit, Started
  <1>2. MutationTypeOK
    BY TextsAreContents, MutationAssumption DEF MutationInit, MutationTypeOK
  <1>3. ArchivesAreFree /\ HandlerKnows
    BY DEF MutationInit, ArchivesAreFree, HandlerKnows
  <1>4. QED
    BY <1>1, <1>2, <1>3 DEF MutationInv

LEMMA MutationStepInv == MutationInv /\ [MutationNext]_mutationVars => MutationInv'
  <1> SUFFICES ASSUME MutationInv, [MutationNext]_mutationVars PROVE MutationInv'
    OBVIOUS
  <1>1. CASE UNCHANGED mutationVars
    <2>1. Started' = Started /\ \A id : Mutation(id)' = Mutation(id)
      BY <1>1, JournalRests DEF mutationVars
    <2>2. MutationTypeOK' /\ ArchivesAreFree'
      BY <1>1, <2>1 DEF mutationVars, MutationInv, MutationTypeOK, ArchivesAreFree
    <2>3. HandlerKnows'
      BY <1>1, <2>1
      DEF mutationVars, MutationInv, HandlerKnows, HandlerFound, HandlerStands, Original, AsBefore, AsAfter
    <2>4. QED
      BY <1>1, <2>2, <2>3, FactsRest DEF mutationVars, MutationInv
  <1>2. CASE MutationNext
    <2>1. CASE \E id \in MutIds : Recover(id) \/ Undo(id)
      BY <2>1, RecoverInv, UndoInv
    <2>2. CASE \E p \in Paths : \/ \E t \in Texts : Patch(p, t)
                                \/ \E q \in Paths : Move(p, q)
                                \/ Archive(p)
                                \/ \E c \in FileContents \cup {Missing} : Edit(p, c)
      BY <2>2, PatchInv, MoveInv, ArchiveInv, EditInv
    <2>3. CASE \E ok \in BOOLEAN :
                 Effect(ok) \/ Overwritten(ok) \/ RollbackChange(ok) \/ PutOverwritten(ok)
      BY <2>3, EffectInv, OverwrittenInv, RollbackChangeInv, PutOverwrittenInv
    <2>4. CASE \E how \in NoteOutcomes : Commit(how) \/ NoteRollback(how)
      BY <2>4, CommitInv, NoteRollbackInv
    <2>5. CASE MutationCrash
      BY <2>5, MutationCrashInv
    <2>6. QED
      BY <1>2, <2>1, <2>2, <2>3, <2>4, <2>5 DEF MutationNext
  <1>3. QED
    BY <1>1, <1>2

LEMMA MutationInvHolds == MutationSpec => []MutationInv
  BY MutationInitInv, MutationStepInv, PTL DEF MutationSpec

-----------------------------------------------------------------------------
(* Mutations: the theorems.                                                  *)

LEMMA KeptByTheInvariant == MutationInv => NothingIsLost
  <1> SUFFICES ASSUME MutationInv, NEW id \in Started, Mutation(id).kind # "undo"
               PROVE  LET m == Mutation(id) IN
                      /\ m.kind = "patch" /\ m.existed => backup[id] = m.before
                      /\ m.kind = "move" /\ m.existed => backup[id] # Missing
                      /\ (handler # NoOp /\ m.kind # "patch" /\ id \in {handler.rec.id, handler.rec.target} =>
                            m.after \in {files[m.src], files[m.dst]})
    BY DEF NothingIsLost
  <1>1. PICK m : m = Mutation(id)
    OBVIOUS
  <1>2. m \in Record /\ m.id = id /\ MutationFacts(id)
    BY <1>1, MutationIsRecord DEF MutationInv, MutationTypeOK
  <1>3. /\ m.kind = "patch" /\ m.existed => backup[id] = m.before
        /\ m.kind = "move" /\ m.existed => backup[id] # Missing
    BY <1>1, <1>2 DEF MutationFacts, Original
  <1>4. ASSUME handler # NoOp, m.kind # "patch", id \in {handler.rec.id, handler.rec.target}
        PROVE  m.after \in {files[m.src], files[m.dst]}
    <2>1. PICK r, was, pc : r = handler.rec /\ was = handler.was /\ pc = handler.pc
      OBVIOUS
    <2>2. /\ r \in Record /\ was \in FilesType /\ pc \in HandlerSteps /\ Mutation(r.id) = r
          /\ HandlerFound(r, was) /\ HandlerStands(r, was, pc)
          /\ r.target = 0 <=> r.kind # "undo"
      BY <1>4, <2>1, HandlerAtWork
    <2>3. m.kind \in {"move", "archive"} /\ m.src # m.dst /\ m.before = m.after /\ id # 0
      BY <1>1, <1>2, <1>4 DEF Record, Kinds, MutationFacts, MutIds
    <2>4. CASE id = r.id
      <3>1. m = r
        BY <1>1, <2>2, <2>4
      <3>2. was[m.src] = m.after
        BY <2>2, <2>3, <3>1 DEF HandlerFound
      <3>3. QED
        BY <2>2, <2>3, <3>1, <3>2 DEF HandlerStands, HandlerSteps, AsAfter, AsBefore
    <2>5. CASE id = r.target
      <3>1. r.kind = "undo" /\ m = Mutation(r.target)
        BY <1>1, <2>2, <2>3, <2>5
      <3>2. r.src = m.src /\ r.dst = m.dst /\ was[m.dst] = m.after
        BY <2>2, <2>3, <3>1 DEF HandlerFound
      <3>3. pc = "overwritten" => files[m.src] = m.after
        BY <2>2, <2>3, <3>1, <3>2 DEF HandlerStands, Renamed, FilesType, Record
      <3>4. QED
        BY <2>2, <2>3, <3>1, <3>2, <3>3 DEF HandlerStands, HandlerSteps, AsAfter, AsBefore
    <2>6. QED
      BY <1>4, <2>1, <2>4, <2>5
  <1>5. QED
    BY <1>1, <1>3, <1>4

\* Whatever fails or dies, and whatever editors do between commands, what a mutation took away
\* is still to be had: a patched file's former text in its backup, an overwritten destination's
\* too, and a moved file, while a handler moves it or puts it back, in one of its two places.
THEOREM NothingIsLostHolds == MutationSpec => []NothingIsLost
  BY MutationInvHolds, KeptByTheInvariant, PTL

\* The terminal record that a step appends says what is on disk.
TellsTheTruth(r) ==
  LET m == IF r.kind = "undo" THEN Mutation(r.target) ELSE r IN
  r.status # "prepared" =>
    IF (r.status = "committed") = (r.kind = "undo") THEN AsBefore(m) ELSE AsAfter(m)

LEMMA RecoveredIsTrue ==
  ASSUME MutationInv, NEW id \in MutIds, Recover(id)
  PROVE  \E r \in Record : journal' = Append(journal, r) /\ TellsTheTruth(r)
  <1>1. PICK m, status : m = Mutation(id) /\ status = RecoveryStatus(m)
    OBVIOUS
  <1>2. PICK r : r = [m EXCEPT !.status = status]
    OBVIOUS
  <1>3. /\ id \in Started /\ status # "prepared" /\ journal' = Append(journal, r)
    BY <1>1, <1>2 DEF Recover
  <1>4. m \in Record /\ m.id = id /\ MutationFacts(id)
    BY <1>1, <1>3, MutationIsRecord DEF MutationInv, MutationTypeOK
  <1>5. status \in Statuses /\ m.kind # "undo"
    BY <1>1, <1>3 DEF RecoveryStatus, Statuses
  <1>6. /\ r \in Record /\ r.status = status /\ r.kind = m.kind /\ r.src = m.src /\ r.dst = m.dst
        /\ r.before = m.before /\ r.after = m.after /\ r.existed = m.existed /\ r.id = m.id
    BY <1>2, <1>4, <1>5 DEF Record
  <1>7. IF status = "committed" THEN AsAfter(r) ELSE AsBefore(r)
    <2>1. CASE m.kind = "patch"
      BY <1>1, <1>3, <1>6, <2>1 DEF RecoveryStatus, AsAfter, AsBefore
    <2>2. CASE m.kind \in {"move", "archive"}
      BY <1>1, <1>3, <1>4, <1>6, <2>2 DEF RecoveryStatus, AsAfter, AsBefore, MutationFacts
    <2>3. QED
      BY <1>4, <1>5, <2>1, <2>2 DEF Record, Kinds
  <1>8. TellsTheTruth(r)
    BY <1>5, <1>6, <1>7 DEF TellsTheTruth
  <1>9. QED
    BY <1>3, <1>6, <1>8

LEMMA NotedIsTrue ==
  ASSUME MutationInv, handler # NoOp, NEW status \in {"committed", "rolled_back"}, NEW how,
         Note(status, how), handler.pc = IF status = "committed" THEN "commit" ELSE "note"
  PROVE  \/ journal' = journal
         \/ \E r \in Record : journal' = Append(journal, r) /\ TellsTheTruth(r)
  <1>1. PICK h, m, r : /\ h = handler.rec /\ m = Mutation(h.target)
                       /\ r = [h EXCEPT !.status = status]
    OBVIOUS
  <1>2. h \in Record /\ HandlerStands(h, handler.was, handler.pc)
    BY <1>1, HandlerAtWork
  <1>3. /\ r \in Record /\ r.status = status /\ r.kind = h.kind /\ r.src = h.src /\ r.dst = h.dst
        /\ r.before = h.before /\ r.after = h.after /\ r.existed = h.existed /\ r.id = h.id
        /\ r.target = h.target
    BY <1>1, <1>2 DEF Record, Statuses
  <1>4. TellsTheTruth(r)
    <2>1. CASE status = "committed"
      BY <1>1, <1>2, <1>3, <2>1 DEF HandlerStands, TellsTheTruth, AsAfter
    <2>2. CASE status = "rolled_back"
      BY <1>1, <1>2, <1>3, <2>2 DEF HandlerStands, TellsTheTruth, AsBefore
    <2>3. QED
      BY <2>1, <2>2
  <1>5. QED
    BY <1>1, <1>3, <1>4 DEF Note

\* A step appends at most one record, and a terminal one says what is on disk.
LEMMA AppendedIsTrue ==
  MutationInv /\ [MutationNext]_mutationVars =>
    \/ journal' = journal
    \/ \E r \in Record : journal' = Append(journal, r) /\ TellsTheTruth(r)
  <1> SUFFICES ASSUME MutationInv, [MutationNext]_mutationVars, journal' # journal
               PROVE  \E r \in Record : journal' = Append(journal, r) /\ TellsTheTruth(r)
    OBVIOUS
  <1>1. \/ \E id \in MutIds : Recover(id)
        \/ \E r, content : Prepare(r, content) /\ r.status = "prepared"
        \/ \E how \in NoteOutcomes : Commit(how) \/ NoteRollback(how)
    <2> DEFINE Begins == \E r, content : Prepare(r, content) /\ r.status = "prepared"
    <2>1. CASE \E p \in Paths, t \in Texts : Patch(p, t)
      <3>1. Begins
        BY <2>1 DEF Patch, Rec
      <3>2. QED
        BY <3>1
    <2>2. CASE \E p, q \in Paths : Move(p, q)
      <3>1. Begins
        BY <2>2 DEF Move, Rec
      <3>2. QED
        BY <3>1
    <2>3. CASE \E p \in Paths : Archive(p)
      <3>1. Begins
        BY <2>3 DEF Archive, Rec
      <3>2. QED
        BY <3>1
    <2>4. CASE \E id \in MutIds : Undo(id)
      <3>1. Begins
        BY <2>4 DEF Undo, Rec
      <3>2. QED
        BY <3>1
    <2>5. CASE \E ok \in BOOLEAN :
                 Effect(ok) \/ Overwritten(ok) \/ RollbackChange(ok) \/ PutOverwritten(ok)
      BY <2>5 DEF Effect, Overwritten, RollbackChange, PutOverwritten
    <2> HIDE DEF Begins
    <2>6. QED
      BY <2>1, <2>2, <2>3, <2>4, <2>5 DEF MutationNext, mutationVars, Edit, MutationCrash
  <1>2. CASE \E id \in MutIds : Recover(id)
    BY <1>2, RecoveredIsTrue
  <1>3. CASE \E r, content : Prepare(r, content) /\ r.status = "prepared"
    <2>1. PICK r : journal' = Append(journal, r) /\ r.status = "prepared"
      BY <1>3 DEF Prepare
    <2>2. r \in Record
      <3>1. journal' \in Seq(Record)
        BY MutationStepInv DEF MutationInv, MutationTypeOK
      <3>2. QED
        BY <2>1, <3>1, AppendProperties, ElementOfSeq DEF MutationInv, MutationTypeOK
    <2>3. QED
      BY <2>1, <2>2 DEF TellsTheTruth
  <1>4. CASE \E how \in NoteOutcomes : Commit(how) \/ NoteRollback(how)
    BY <1>4, NotedIsTrue DEF Commit, NoteRollback, NoOp
  <1>5. QED
    BY <1>1, <1>2, <1>3, <1>4

\* A terminal record says what is on disk when it is written, whether its handler wrote it or a
\* later command recovered it, whatever had failed or died in between.
THEOREM JournalTellsTheTruthHolds == MutationSpec => JournalTellsTheTruth
  <1>1. ASSUME MutationInv, [MutationNext]_mutationVars
        PROVE  [\A i \in Len(journal) + 1 .. Len(journal') :
                  LET r == journal'[i]
                      m == IF r.kind = "undo" THEN Mutation(r.target) ELSE r IN
                  r.status # "prepared" =>
                    IF (r.status = "committed") = (r.kind = "undo") THEN AsBefore(m) ELSE AsAfter(m)]_journal
    <2>1. CASE journal' = journal
      BY <2>1
    <2>2. CASE \E r \in Record : journal' = Append(journal, r) /\ TellsTheTruth(r)
      <3>1. PICK r \in Record : journal' = Append(journal, r) /\ TellsTheTruth(r)
        BY <2>2
      <3>2. \A i \in Len(journal) + 1 .. Len(journal') : journal'[i] = r
        BY <3>1, AppendProperties, LenProperties DEF MutationInv, MutationTypeOK
      <3>3. QED
        BY <3>1, <3>2 DEF TellsTheTruth
    <2>3. QED
      BY <1>1, <2>1, <2>2, AppendedIsTrue
  <1>2. QED
    BY <1>1, MutationInvHolds, PTL DEF MutationSpec, JournalTellsTheTruth

\* The files, the backups, the journal and the handler have their types, for any paths and texts.
THEOREM MutationTypeCorrect == MutationSpec => []MutationTypeOK
  BY MutationInvHolds, PTL DEF MutationInv

-----------------------------------------------------------------------------
(* UpdateBatch: the inductive invariant.                                     *)

\* The backups of batch i are its files as it found them.
BackedUp(i) == \A p \in batches[i].files : backups[i][p] = batches[i].before[p]

\* What the command that holds the locks has reached: the files it has not come to are as
\* the batch found them, those it has written as it wants them, those it has put back again
\* as before.
CommandStands ==
  updater # NoUpdate =>
    LET b == TheBatch IN
    /\ updater.kind = "undo" => updater.pc \notin {"check", "backup"}
    /\ updater.kind = "undo" \/ updater.pc \in {"write", "commit"} => BackedUp(updater.batch)
    /\ updater.pc \in {"check", "prepare", "backup"} => updater.done = {}
    /\ updater.pc \in {"check", "prepare", "backup", "write"} => b.files \subseteq updater.left \cup updater.done
    /\ updater.pc = "commit" => b.files \subseteq updater.done
    /\ updater.pc \in {"prepare", "backup", "write", "commit"} /\ updater.kind = "update" =>
         \A p \in b.files \ updater.done : tree[p] = b.before[p]
    /\ updater.pc \in {"write", "commit"} =>
         \A p \in b.files \cap updater.done :
           tree[p] = IF updater.kind = "update" THEN b.after[p] ELSE b.before[p]
    /\ updater.pc = "restore" =>
         \A p \in b.files \ updater.left :
           IF updater.kind = "update" THEN missed \/ tree[p] = b.before[p] ELSE tree[p] = b.after[p]

\* A rollback finds the backups of what it takes back.
CommittedIsBackedUp ==
  \A i \in BatchIds : BatchHas(i, "update", "committed") => i <= Len(batches) /\ BackedUp(i)

UpdateInv == UpdateTypeOK /\ CommandStands /\ CommittedIsBackedUp

-----------------------------------------------------------------------------

UpdaterRec == [pc : UpdateSteps, kind : {"update", "undo"}, batch : 1..Len(batches),
               left : SUBSET TemplateFiles, done : SUBSET TemplateFiles]

LEMMA UpdateTypes ==
  ASSUME UpdateTypeOK
  PROVE  /\ Len(batches) \in Nat /\ Len(batches) <= MaxBatches /\ MaxBatches \in Nat
         /\ 1..Len(batches) \subseteq BatchIds
         /\ \A i \in 1..Len(batches) :
              /\ batches[i] \in Plan /\ batches[i].files \subseteq TemplateFiles
              /\ batches[i].before \in [TemplateFiles -> Versions]
              /\ batches[i].after \in [TemplateFiles -> Versions]
         /\ updater # NoUpdate => updater \in UpdaterRec /\ TheBatch \in Plan
         /\ updater = NoUpdate \/ updater.pc # "idle"
         /\ updater.pc = "idle" => updater = NoUpdate
         /\ NoUpdate.pc = "idle"
  <1>1. /\ Len(batches) \in Nat /\ Len(batches) <= MaxBatches /\ MaxBatches \in Nat
        /\ \A i \in 1..Len(batches) : batches[i] \in Plan
    BY UpdateAssumption, LenProperties, ElementOfSeq DEF UpdateTypeOK
  <1>2. updater \in {NoUpdate} \cup UpdaterRec
    BY DEF UpdateTypeOK, UpdaterRec
  <1>3. updater # NoUpdate => updater \in UpdaterRec /\ updater.pc # "idle" /\ updater.batch \in 1..Len(batches)
    BY <1>2 DEF UpdaterRec, UpdateSteps
  <1>4. NoUpdate.pc = "idle"
    BY DEF NoUpdate
  <1>5. 1..Len(batches) \subseteq BatchIds
    BY <1>1 DEF BatchIds
  <1>6. \A b \in Plan : /\ b.files \subseteq TemplateFiles /\ b.before \in [TemplateFiles -> Versions]
                        /\ b.after \in [TemplateFiles -> Versions]
    BY DEF Plan
  <1>7. QED
    BY <1>1, <1>3, <1>4, <1>5, <1>6 DEF TheBatch

\* What an append makes of the journal.
LEMMA BatchLogged ==
  ASSUME UpdateTypeOK, updater # NoUpdate, NEW status \in {"prepared", "committed", "rolled_back"},
         NEW how, LogBatch(status, how)
  PROVE  /\ batchLog' \in Seq(BatchRecord)
         /\ \A b, kind, s : BatchHas(b, kind, s)' =>
              BatchHas(b, kind, s) \/ (b = updater.batch /\ kind = updater.kind /\ s = status)
         /\ \A i \in Len(batchLog) + 1 .. Len(batchLog') :
              batchLog'[i] = [batch |-> updater.batch, kind |-> updater.kind, status |-> status]
  <1> DEFINE r == [batch |-> updater.batch, kind |-> updater.kind, status |-> status]
  <1>1. updater.batch \in BatchIds /\ updater.kind \in {"update", "undo"}
    BY UpdateTypes DEF UpdaterRec
  <1>2. r \in BatchRecord
    BY <1>1 DEF BatchRecord
  <1>3. batchLog \in Seq(BatchRecord) /\ Len(batchLog) \in Nat
    BY LenProperties DEF UpdateTypeOK
  <1>4. CASE how = "lost"
    <2>1. batchLog' = batchLog
      BY <1>4 DEF LogBatch
    <2>2. QED
      BY <1>3, <2>1 DEF BatchHas
  <1>5. CASE how # "lost"
    <2>1. batchLog' = Append(batchLog, r)
      BY <1>5 DEF LogBatch
    <2>2. /\ batchLog' \in Seq(BatchRecord) /\ Len(batchLog') = Len(batchLog) + 1
          /\ \A i \in 1..Len(batchLog) : batchLog'[i] = batchLog[i]
          /\ batchLog'[Len(batchLog) + 1] = r
      BY <1>2, <1>3, <2>1, AppendProperties
    <2>3. ASSUME NEW b, NEW kind, NEW s, BatchHas(b, kind, s)'
          PROVE  BatchHas(b, kind, s) \/ (b = updater.batch /\ kind = updater.kind /\ s = status)
      <3>1. PICK i \in 1..Len(batchLog') : [batch |-> b, kind |-> kind, status |-> s] = batchLog'[i]
        BY <2>3 DEF BatchHas
      <3>2. CASE i \in 1..Len(batchLog)
        BY <2>2, <3>1, <3>2 DEF BatchHas
      <3>3. CASE i = Len(batchLog) + 1
        <4>1. [batch |-> b, kind |-> kind, status |-> s] = r
          BY <2>2, <3>1, <3>3
        <4>2. /\ [batch |-> b, kind |-> kind, status |-> s].batch = r.batch
              /\ [batch |-> b, kind |-> kind, status |-> s].kind = r.kind
              /\ [batch |-> b, kind |-> kind, status |-> s].status = r.status
          BY <4>1
        <4>3. QED
          BY <4>2
      <3>4. QED
        BY <1>3, <2>2, <3>2, <3>3
    <2>4. QED
      BY <1>3, <2>2, <2>3
  <1>6. QED
    BY <1>4, <1>5

\* A fault is counted while the bound allows.
LEMMA BatchFaultCounted ==
  ASSUME UpdateTypeOK, NEW how \in IF updateFaults < MaxUpdateFaults THEN UpdateOutcomes ELSE {"ok"},
         CountsFault(how)
  PROVE  updateFaults' \in 0..MaxUpdateFaults
  BY UpdateAssumption DEF UpdateTypeOK, CountsFault, UpdateOutcomes

Outcome == IF updateFaults < MaxUpdateFaults THEN UpdateOutcomes ELSE {"ok"}

LEMMA UpdateInitInv == UpdateInit => UpdateInv
  <1> SUFFICES ASSUME UpdateInit PROVE UpdateInv
    OBVIOUS
  <1>1. {MaxFiles, MaxBatches, MaxTreeEdits, MaxUpdateFaults} \subseteq Nat /\ MaxVersions \in Nat \ {0}
    BY UpdateAssumption
  <1>2. tree \in [TemplateFiles -> Versions] /\ tool \in 1..MaxVersions
    BY <1>1 DEF UpdateInit, NotThere, Versions, Edited
  <1>3. batches \in Seq(Plan) /\ Len(batches) = 0 /\ batchLog \in Seq(BatchRecord) /\ Len(batchLog) = 0
    BY EmptySeq DEF UpdateInit
  <1>4. backups \in [BatchIds -> [TemplateFiles -> Versions]]
    BY <1>1 DEF UpdateInit, NotThere, Versions, Edited
  <1>a. /\ updater = NoUpdate /\ missed \in BOOLEAN
        /\ treeEdits \in 0..MaxTreeEdits /\ updateFaults \in 0..MaxUpdateFaults
    <2>1. updater = NoUpdate /\ missed = FALSE /\ treeEdits = 0 /\ updateFaults = 0
      BY DEF UpdateInit
    <2>2. MaxTreeEdits \in Nat /\ MaxUpdateFaults \in Nat
      BY <1>1
    <2>3. treeEdits \in 0..MaxTreeEdits /\ updateFaults \in 0..MaxUpdateFaults
      BY <2>1, <2>2
    <2>4. QED
      BY <2>1, <2>3
  <1>5. UpdateTypeOK
    BY <1>1, <1>2, <1>3, <1>4, <1>a DEF UpdateTypeOK
  <1>6. CommandStands
    BY DEF UpdateInit, CommandStands
  <1>7. CommittedIsBackedUp
    BY <1>3 DEF CommittedIsBackedUp, BatchHas
  <1>8. QED
    BY <1>5, <1>6, <1>7 DEF UpdateInv

-----------------------------------------------------------------------------
(* UpdateBatch: the steps.                                                   *)

LEMMA StageBatchInv == UpdateInv /\ StageBatch => UpdateInv'
  <1> SUFFICES ASSUME UpdateInv, StageBatch PROVE UpdateInv'
    OBVIOUS
  <1> DEFINE n == Len(batches) + 1
  <1>1. /\ n \in Nat /\ n <= MaxBatches /\ MaxBatches \in Nat /\ tree \in [TemplateFiles -> Versions]
        /\ batches \in Seq(Plan) /\ Len(batches) \in Nat
    BY UpdateTypes DEF UpdateInv, UpdateTypeOK, StageBatch
  <1>2. \A p \in TemplateFiles : Template(tool, p) \in Versions
    BY UpdateAssumption DEF UpdateInv, UpdateTypeOK, Template, NotThere, Versions, Edited
  <1>3. BatchOf(Planned) \in Plan /\ BatchOf(Planned).files = Planned /\ Planned \subseteq TemplateFiles
    <2>1. Planned \subseteq TemplateFiles
      BY DEF Planned
    <2>2. [p \in TemplateFiles |-> IF p \in Planned THEN Template(tool, p) ELSE tree[p]]
            \in [TemplateFiles -> Versions]
      BY <1>1, <1>2
    <2>3. QED
      BY <1>1, <2>1, <2>2 DEF BatchOf, Plan
  <1>4. /\ batches' \in Seq(Plan) /\ Len(batches') = n
        /\ \A i \in 1..Len(batches) : batches'[i] = batches[i]
        /\ batches'[n] = BatchOf(Planned)
    BY <1>1, <1>3, AppendProperties DEF StageBatch
  <1>5. updater' = [pc |-> "check", kind |-> "update", batch |-> n, left |-> Planned, done |-> {}]
    BY DEF StageBatch, NoUpdate
  <1>6. UpdateTypeOK'
    <2>1. updater' \in UpdaterRec'
      BY <1>1, <1>3, <1>4, <1>5 DEF UpdaterRec, UpdateSteps
    <2>2. QED
      BY <1>1, <1>4, <2>1 DEF UpdateInv, UpdateTypeOK, UpdaterRec, StageBatch
  <1>7. CommandStands'
    BY <1>3, <1>4, <1>5 DEF CommandStands, TheBatch
  <1>8. CommittedIsBackedUp'
    <2>1. batchLog' = batchLog /\ backups' = backups
      BY DEF StageBatch
    <2>2. ASSUME NEW i \in BatchIds, BatchHas(i, "update", "committed")'
          PROVE  i <= Len(batches') /\ BackedUp(i)'
      <3>1. BatchHas(i, "update", "committed")
        BY <2>1, <2>2 DEF BatchHas
      <3>2. i \in 1..Len(batches) /\ BackedUp(i)
        BY <1>1, <3>1 DEF UpdateInv, CommittedIsBackedUp, BatchIds
      <3>3. QED
        BY <1>1, <1>4, <2>1, <3>2 DEF BackedUp
    <2>3. QED
      BY <2>2 DEF CommittedIsBackedUp
  <1>9. QED
    BY <1>6, <1>7, <1>8 DEF UpdateInv

\* A command that ends leaves what it has recorded.
LEMMA UpdaterStops ==
  ASSUME UpdateInv, updater' = NoUpdate, UNCHANGED <<batches, backups, batchLog>>,
         tree' \in [TemplateFiles -> Versions], tool' = tool, missed' \in BOOLEAN,
         treeEdits' = treeEdits, updateFaults' \in 0..MaxUpdateFaults
  PROVE  UpdateInv'
  BY DEF UpdateInv, UpdateTypeOK, CommandStands, CommittedIsBackedUp, BatchHas, BackedUp

\* The fields of a command that goes on.
LEMMA UpdaterGoes ==
  ASSUME UpdateTypeOK, updater # NoUpdate, NEW pc \in UpdateSteps,
         NEW left \in SUBSET TemplateFiles, NEW done \in SUBSET TemplateFiles,
         updater' = [updater EXCEPT !.pc = pc, !.left = left, !.done = done], batches' = batches
  PROVE  /\ updater' \in UpdaterRec' /\ updater'.pc = pc /\ updater'.kind = updater.kind
         /\ updater'.batch = updater.batch /\ updater'.left = left /\ updater'.done = done
         /\ TheBatch' = TheBatch
  BY UpdateTypes DEF UpdaterRec, TheBatch

LEMMA UpdaterMoves ==
  ASSUME UpdateTypeOK, updater # NoUpdate
  PROVE  /\ \A pc : UpdateGoto(pc) => updater' = [updater EXCEPT !.pc = pc, !.left = updater.left, !.done = updater.done]
         /\ CatchUpdate => updater' = [updater EXCEPT !.pc = "restore", !.done = updater.done,
                             !.left = IF updater.kind = "update" THEN updater.done ELSE TheBatch.files]
         /\ updater.left \in SUBSET TemplateFiles /\ updater.done \in SUBSET TemplateFiles
         /\ TheBatch.files \in SUBSET TemplateFiles
         /\ updater.batch \in 1..Len(batches) /\ updater.kind \in {"update", "undo"}
  BY UpdateTypes DEF UpdaterRec, UpdateGoto, CatchUpdate, Plan

\* A command that goes on: types and records.
LEMMA UpdaterStep ==
  ASSUME UpdateInv, updater # NoUpdate, NEW pc \in UpdateSteps,
         NEW left \in SUBSET TemplateFiles, NEW done \in SUBSET TemplateFiles,
         updater' = [updater EXCEPT !.pc = pc, !.left = left, !.done = done],
         UNCHANGED <<batches, tool, treeEdits>>, missed' \in BOOLEAN,
         tree' \in [TemplateFiles -> Versions], backups' \in [BatchIds -> [TemplateFiles -> Versions]],
         batchLog' \in Seq(BatchRecord), updateFaults' \in 0..MaxUpdateFaults
  PROVE  UpdateTypeOK'
  <1>1. updater' \in UpdaterRec'
    BY UpdaterGoes DEF UpdateInv
  <1>2. QED
    BY <1>1 DEF UpdateInv, UpdateTypeOK, UpdaterRec

\* The records of a step that is not the commit of an update.
LEMMA RecordsStay ==
  ASSUME UpdateInv, UNCHANGED <<batches, backups>>,
         \A b \in BatchIds : BatchHas(b, "update", "committed")' =>
           BatchHas(b, "update", "committed") \/ (b <= Len(batches) /\ BackedUp(b))
  PROVE  CommittedIsBackedUp'
  BY DEF UpdateInv, CommittedIsBackedUp, BackedUp

LEMMA CheckFilesInv == UpdateInv /\ CheckFiles => UpdateInv'
  <1> SUFFICES ASSUME UpdateInv, CheckFiles PROVE UpdateInv'
    OBVIOUS
  <1> USE DEF UpdateInv
  <1>1. updater # NoUpdate /\ updater.pc = "check"
    BY UpdateTypes DEF CheckFiles
  <1>2. /\ UNCHANGED <<tool, tree, batches, backups, batchLog, missed, treeEdits, updateFaults>>
    BY DEF CheckFiles
  <1>3. CASE updater' = NoUpdate
    BY <1>2, <1>3, UpdaterStops DEF UpdateTypeOK
  <1>4. CASE /\ UpdateGoto("prepare")
             /\ \A p \in TheBatch.files : tree[p] = TheBatch.before[p]
    <2>1. /\ updater' = [updater EXCEPT !.pc = "prepare", !.left = updater.left, !.done = updater.done]
          /\ updater.left \in SUBSET TemplateFiles /\ updater.done \in SUBSET TemplateFiles
      BY <1>1, <1>4, UpdaterMoves
    <2>2. UpdateTypeOK'
      BY <1>1, <1>2, <2>1, UpdaterStep DEF UpdateTypeOK, UpdateSteps
    <2>3. /\ updater'.pc = "prepare" /\ updater'.kind = updater.kind /\ updater'.batch = updater.batch
          /\ updater'.left = updater.left /\ updater'.done = updater.done /\ TheBatch' = TheBatch
      <3>1. "prepare" \in UpdateSteps /\ UpdateTypeOK /\ updater # NoUpdate /\ batches' = batches
        BY <1>1, <1>2 DEF UpdateSteps
      <3>2. PICK left \in SUBSET TemplateFiles, done \in SUBSET TemplateFiles :
              left = updater.left /\ done = updater.done
        BY <2>1
      <3>3. updater' = [updater EXCEPT !.pc = "prepare", !.left = left, !.done = done]
        BY <2>1, <3>2
      <3>4. QED
        BY <3>1, <3>2, <3>3, UpdaterGoes
    <2>4. CommandStands'
      BY <1>1, <1>2, <1>4, <2>3 DEF CommandStands, BackedUp
    <2>5. CommittedIsBackedUp'
      BY <1>2, RecordsStay DEF BatchHas
    <2>6. QED
      BY <2>2, <2>4, <2>5
  <1>5. QED
    BY <1>3, <1>4 DEF CheckFiles

\* The catch clauses of both commands.
LEMMA CatchUpdateInv ==
  ASSUME UpdateInv, updater # NoUpdate, CatchUpdate, UNCHANGED <<batches, tool, backups, treeEdits>>,
         missed' \in BOOLEAN, tree' \in [TemplateFiles -> Versions], updateFaults' \in 0..MaxUpdateFaults,
         batchLog' \in Seq(BatchRecord), CommittedIsBackedUp',
         updater.kind = "update" =>
           \A p \in TheBatch.files \ updater.done : missed' \/ tree'[p] = TheBatch.before[p]
  PROVE  UpdateInv'
  <1> USE DEF UpdateInv
  <1> DEFINE left == IF updater.kind = "update" THEN updater.done ELSE TheBatch.files
  <1>1. /\ updater' = [updater EXCEPT !.pc = "restore", !.left = left, !.done = updater.done]
        /\ left \in SUBSET TemplateFiles /\ updater.done \in SUBSET TemplateFiles
        /\ "restore" \in UpdateSteps
    BY UpdaterMoves DEF UpdateSteps
  <1> HIDE DEF left
  <1>2. UpdateTypeOK'
    BY <1>1, UpdaterStep DEF UpdateTypeOK
  <1>3. /\ updater'.pc = "restore" /\ updater'.kind = updater.kind /\ updater'.batch = updater.batch
        /\ updater'.left = left /\ updater'.done = updater.done /\ TheBatch' = TheBatch
    BY <1>1, UpdateTypes DEF UpdaterRec, TheBatch
  <1>4. CommandStands'
    BY <1>3 DEF CommandStands, BackedUp, left
  <1>5. QED
    BY <1>2, <1>4

LEMMA RollbackBatchInv ==
  ASSUME UpdateInv, NEW b \in 1..Len(batches), RollbackBatch(b)
  PROVE  UpdateInv'
  <1> USE DEF UpdateInv
  <1>1. /\ UNCHANGED <<tool, tree, batches, backups, batchLog, missed, treeEdits, updateFaults>>
        /\ BackedUp(b) /\ b \in BatchIds
    BY UpdateTypes DEF RollbackBatch, CommittedIsBackedUp
  <1>2. updater' = [pc |-> "prepare", kind |-> "undo", batch |-> b, left |-> batches[b].files, done |-> {}]
    BY DEF RollbackBatch, NoUpdate
  <1>3. UpdateTypeOK'
    <2>1. updater' \in UpdaterRec'
      BY <1>1, <1>2, UpdateTypes DEF UpdaterRec, UpdateSteps
    <2>2. QED
      BY <1>1, <2>1 DEF UpdateTypeOK, UpdaterRec
  <1>4. CommandStands'
    BY <1>1, <1>2 DEF CommandStands, TheBatch, BackedUp
  <1>5. CommittedIsBackedUp'
    BY <1>1, RecordsStay DEF BatchHas
  <1>6. QED
    BY <1>3, <1>4, <1>5

LEMMA PrepareBatchInv ==
  ASSUME UpdateInv, NEW how \in Outcome, PrepareBatch(how)
  PROVE  UpdateInv'
  <1> USE DEF UpdateInv
  <1>1. updater # NoUpdate /\ updater.pc = "prepare" /\ updateFaults' \in 0..MaxUpdateFaults
    BY UpdateTypes, BatchFaultCounted DEF PrepareBatch, Outcome
  <1>2. UNCHANGED <<tool, tree, batches, backups, missed, treeEdits>> /\ LogBatch("prepared", how)
    BY DEF PrepareBatch
  <1>3. batchLog' \in Seq(BatchRecord) /\ CommittedIsBackedUp'
    BY <1>1, <1>2, BatchLogged, RecordsStay
  <1>4. CASE updater' = NoUpdate
    <2>1. CommandStands' /\ UpdateTypeOK'
      BY <1>1, <1>2, <1>3, <1>4 DEF UpdateTypeOK, CommandStands
    <2>2. QED
      BY <1>3, <2>1
  <1>5. CASE CatchUpdate /\ updater.kind = "update"
    BY <1>1, <1>2, <1>3, <1>5, CatchUpdateInv DEF UpdateTypeOK, CommandStands
  <1>6. ASSUME NEW pc, UpdateGoto(pc), pc = IF updater.kind = "update" THEN "backup" ELSE "write"
        PROVE  UpdateInv'
    <2>1. /\ updater' = [updater EXCEPT !.pc = pc, !.left = updater.left, !.done = updater.done]
          /\ updater.left \in SUBSET TemplateFiles /\ updater.done \in SUBSET TemplateFiles
          /\ pc \in UpdateSteps /\ updater.kind \in {"update", "undo"}
      BY <1>1, <1>6, UpdaterMoves DEF UpdateSteps
    <2>2. UpdateTypeOK'
      BY <1>1, <1>2, <1>3, <2>1, UpdaterStep DEF UpdateTypeOK
    <2>3. /\ updater'.pc = pc /\ updater'.kind = updater.kind /\ updater'.batch = updater.batch
          /\ updater'.left = updater.left /\ updater'.done = updater.done /\ TheBatch' = TheBatch
      BY <1>1, <1>2, <2>1, UpdateTypes DEF UpdaterRec, TheBatch
    <2>4. CommandStands'
      BY <1>1, <1>2, <1>6, <2>1, <2>3 DEF CommandStands, BackedUp
    <2>5. QED
      BY <1>3, <2>2, <2>4
  <1>7. QED
    BY <1>4, <1>5, <1>6 DEF PrepareBatch

LEMMA BackUpBatchInv ==
  ASSUME UpdateInv, NEW how \in Outcome, BackUpBatch(how)
  PROVE  UpdateInv'
  <1> USE DEF UpdateInv
  <1>1. /\ updater # NoUpdate /\ updater.pc = "backup" /\ updater.kind = "update"
        /\ updateFaults' \in 0..MaxUpdateFaults
    BY UpdateTypes, BatchFaultCounted DEF BackUpBatch, Outcome
  <1>2. UNCHANGED <<tool, tree, batches, batchLog, missed, treeEdits>>
    BY DEF BackUpBatch
  <1>3. CASE backups' = backups /\ CatchUpdate
    <2>1. CommittedIsBackedUp' /\ batchLog' \in Seq(BatchRecord)
      BY <1>2, <1>3, RecordsStay DEF BatchHas, UpdateTypeOK
    <2>2. QED
      BY <1>1, <1>2, <1>3, <2>1, CatchUpdateInv DEF UpdateTypeOK, CommandStands
  <1>4. CASE backups' = [backups EXCEPT ![updater.batch] = TheBatch.before] /\ UpdateGoto("write")
    <2>1. /\ updater' = [updater EXCEPT !.pc = "write", !.left = updater.left, !.done = updater.done]
          /\ updater.left \in SUBSET TemplateFiles /\ updater.done \in SUBSET TemplateFiles
          /\ "write" \in UpdateSteps /\ updater.batch \in BatchIds
          /\ TheBatch.before \in [TemplateFiles -> Versions]
      BY <1>1, <1>4, UpdaterMoves, UpdateTypes DEF UpdateSteps, UpdaterRec, TheBatch
    <2>2. backups' \in [BatchIds -> [TemplateFiles -> Versions]]
      BY <1>4, <2>1 DEF UpdateTypeOK
    <2>3. UpdateTypeOK'
      BY <1>1, <1>2, <2>1, <2>2, UpdaterStep DEF UpdateTypeOK
    <2>4. /\ updater'.pc = "write" /\ updater'.kind = updater.kind /\ updater'.batch = updater.batch
          /\ updater'.left = updater.left /\ updater'.done = updater.done /\ TheBatch' = TheBatch
      BY <1>1, <1>2, <2>1, UpdaterGoes
    <2>5. /\ \A i \in BatchIds : BackedUp(i) => BackedUp(i)'
          /\ BackedUp(updater.batch)'
      BY <1>2, <1>4, <2>1 DEF BackedUp, TheBatch, UpdateTypeOK
    <2>6. CommandStands'
      BY <1>1, <1>2, <2>4, <2>5 DEF CommandStands
    <2>7. CommittedIsBackedUp'
      BY <1>2, <2>5 DEF CommittedIsBackedUp, BatchHas
    <2>8. QED
      BY <2>3, <2>6, <2>7
  <1>5. QED
    BY <1>3, <1>4 DEF BackUpBatch

LEMMA WriteFileInv ==
  ASSUME UpdateInv, NEW p \in TemplateFiles, NEW how \in Outcome, WriteFile(p, how)
  PROVE  UpdateInv'
  <1> USE DEF UpdateInv
  <1>1. /\ updater # NoUpdate /\ updater.pc = "write" /\ p \in updater.left
        /\ updateFaults' \in 0..MaxUpdateFaults
    BY UpdateTypes, BatchFaultCounted DEF WriteFile, Outcome
  <1>2. /\ UNCHANGED <<tool, batches, backups, batchLog, treeEdits>>
        /\ missed' \in BOOLEAN /\ (missed => missed')
    BY DEF WriteFile, UpdateTypeOK
  <1>3. /\ updater.batch \in 1..Len(batches) /\ updater.batch \in BatchIds
        /\ TheBatch.before \in [TemplateFiles -> Versions] /\ TheBatch.after \in [TemplateFiles -> Versions]
        /\ updater.left \in SUBSET TemplateFiles /\ updater.done \in SUBSET TemplateFiles
        /\ updater.kind \in {"update", "undo"}
    BY <1>1, UpdaterMoves, UpdateTypes DEF TheBatch
  <1>4. WriteGoal(p) \in Versions
    BY <1>3 DEF WriteGoal, UpdateTypeOK
  <1>5. tree' \in [TemplateFiles -> Versions]
    BY <1>4 DEF WriteFile, UpdateTypeOK
  <1>6. CommittedIsBackedUp' /\ batchLog' \in Seq(BatchRecord)
    BY <1>2, RecordsStay DEF BatchHas, UpdateTypeOK
  <1>7. CASE how # "ok"
    <2>1. CatchUpdate
      BY <1>7 DEF WriteFile
    <2>2. updater.kind = "update" => missed' \/ tree' = tree
      BY <1>7 DEF WriteFile, Outcome, UpdateOutcomes
    <2>3. updater.kind = "update" => \A q \in TheBatch.files \ updater.done : missed' \/ tree'[q] = TheBatch.before[q]
      BY <1>1, <2>2 DEF CommandStands
    <2>4. QED
      BY <1>1, <1>2, <1>5, <1>6, <2>1, <2>3, CatchUpdateInv
  <1>8. CASE how = "ok"
    <2> DEFINE pc == IF updater.left = {p} THEN "commit" ELSE "write"
               left == updater.left \ {p}
               done == updater.done \cup {p}
    <2>1. updater' = [updater EXCEPT !.pc = pc, !.left = left, !.done = done]
      BY <1>1, <1>8, UpdateTypes DEF WriteFile, UpdaterRec
    <2>2. /\ pc \in UpdateSteps /\ left \in SUBSET TemplateFiles /\ done \in SUBSET TemplateFiles
          /\ pc \in {"write", "commit"} /\ (pc = "commit" => updater.left = {p})
          /\ left \cup done = updater.left \cup updater.done
      BY <1>1, <1>3 DEF UpdateSteps
    <2>3. \A q \in done : q = p \/ (q # p /\ q \in updater.done)
      OBVIOUS
    <2>4. \A q : q \notin done => q # p /\ q \notin updater.done
      OBVIOUS
    <2>5. pc = "commit" => updater.left \cup updater.done = done
      BY <2>2
    <2> HIDE DEF pc, left, done
    <2>6. /\ updater'.pc = pc /\ updater'.kind = updater.kind /\ updater'.batch = updater.batch
          /\ updater'.left = left /\ updater'.done = done /\ TheBatch' = TheBatch
      BY <1>1, <1>2, <2>1, UpdateTypes DEF UpdaterRec, TheBatch
    <2>7. UpdateTypeOK'
      BY <1>1, <1>2, <1>5, <1>6, <2>1, <2>2, UpdaterStep DEF UpdateTypeOK
    <2>8. tree' = [tree EXCEPT ![p] = WriteGoal(p)] /\ tree \in [TemplateFiles -> Versions]
      BY <1>8 DEF WriteFile, UpdateTypeOK
    <2>9. TheBatch.files \subseteq TemplateFiles /\ BackedUp(updater.batch) /\ TheBatch.files \subseteq left \cup done
      BY <1>1, <2>2, UpdaterMoves DEF CommandStands
    <2>10. \A q \in TheBatch.files \cap done :
             tree'[q] = IF updater.kind = "update" THEN TheBatch.after[q] ELSE TheBatch.before[q]
      <3> SUFFICES ASSUME NEW q \in TheBatch.files \cap done
                   PROVE  tree'[q] = IF updater.kind = "update" THEN TheBatch.after[q] ELSE TheBatch.before[q]
        OBVIOUS
      <3>1. CASE q = p
        BY <1>1, <1>3, <2>8, <2>9, <3>1 DEF WriteGoal, BackedUp, TheBatch
      <3>2. CASE q # p /\ q \in updater.done
        BY <1>1, <2>8, <2>9, <3>2 DEF CommandStands
      <3>3. QED
        BY <2>3, <3>1, <3>2
    <2>11. updater.kind = "update" => \A q \in TheBatch.files \ done : tree'[q] = TheBatch.before[q]
      BY <1>1, <2>4, <2>8, <2>9 DEF CommandStands
    <2>12. BackedUp(updater.batch)'
      BY <1>2, <2>6, <2>9 DEF BackedUp
    <2>13. CommandStands'
      BY <2>2, <2>5, <2>6, <2>9, <2>10, <2>11, <2>12 DEF CommandStands
    <2>14. QED
      BY <1>6, <2>7, <2>13
  <1>9. QED
    BY <1>7, <1>8

LEMMA RestoreFileInv ==
  ASSUME UpdateInv, NEW p \in TemplateFiles, NEW how \in Outcome, RestoreFile(p, how)
  PROVE  UpdateInv'
  <1> USE DEF UpdateInv
  <1>1. /\ updater # NoUpdate /\ updater.pc = "restore" /\ p \in updater.left
        /\ updateFaults' \in 0..MaxUpdateFaults
        /\ UNCHANGED <<tool, batches, backups, batchLog, missed, treeEdits>>
    BY UpdateTypes, BatchFaultCounted DEF RestoreFile, Outcome
  <1>2. /\ updater.batch \in 1..Len(batches) /\ TheBatch.files \subseteq TemplateFiles
        /\ TheBatch.before \in [TemplateFiles -> Versions] /\ TheBatch.after \in [TemplateFiles -> Versions]
        /\ updater.left \in SUBSET TemplateFiles /\ updater.done \in SUBSET TemplateFiles
        /\ updater.kind \in {"update", "undo"}
    BY <1>1, UpdaterMoves, UpdateTypes DEF TheBatch
  <1> DEFINE old == IF updater.kind = "update" THEN TheBatch.before[p] ELSE TheBatch.after[p]
  <1>3. tree' \in [TemplateFiles -> Versions] /\ tree \in [TemplateFiles -> Versions]
    <2>1. old \in Versions
      BY <1>2
    <2>2. tree' = tree \/ tree' = [tree EXCEPT ![p] = old]
      BY DEF RestoreFile
    <2>3. QED
      BY <2>1, <2>2 DEF UpdateTypeOK
  <1>4. CASE updater' = NoUpdate
    BY <1>1, <1>3, <1>4, UpdaterStops DEF UpdateTypeOK
  <1>5. CASE how = "ok"
    <2> DEFINE left == updater.left \ {p}
    <2>1. /\ updater' = [updater EXCEPT !.pc = "restore", !.left = left, !.done = updater.done]
          /\ left \in SUBSET TemplateFiles /\ "restore" \in UpdateSteps
      BY <1>1, <1>2, <1>5, UpdateTypes DEF RestoreFile, UpdaterRec, UpdateSteps
    <2>2. \A q : q \notin left => q = p \/ (q # p /\ q \notin updater.left)
      OBVIOUS
    <2> HIDE DEF left
    <2>3. /\ updater'.pc = "restore" /\ updater'.kind = updater.kind /\ updater'.batch = updater.batch
          /\ updater'.left = left /\ updater'.done = updater.done /\ TheBatch' = TheBatch
      BY <1>1, <2>1, UpdateTypes DEF UpdaterRec, TheBatch
    <2>4. UpdateTypeOK'
      BY <1>1, <1>2, <1>3, <2>1, UpdaterStep DEF UpdateTypeOK
    <2>5. tree' = [tree EXCEPT ![p] = old]
      BY <1>5 DEF RestoreFile
    <2>6. \A q \in TheBatch.files \ left :
            IF updater.kind = "update" THEN missed' \/ tree'[q] = TheBatch.before[q]
                                       ELSE tree'[q] = TheBatch.after[q]
      <3> SUFFICES ASSUME NEW q \in TheBatch.files \ left
                   PROVE  IF updater.kind = "update" THEN missed' \/ tree'[q] = TheBatch.before[q]
                                                     ELSE tree'[q] = TheBatch.after[q]
        OBVIOUS
      <3>1. CASE q = p
        BY <1>3, <2>5, <3>1
      <3>2. CASE q # p /\ q \notin updater.left
        <4>1. tree'[q] = tree[q]
          BY <1>2, <1>3, <2>5, <3>2
        <4>2. QED
          BY <1>1, <3>2, <4>1 DEF CommandStands
      <3>3. QED
        BY <2>2, <3>1, <3>2
    <2>7. updater.kind = "undo" => BackedUp(updater.batch)'
      BY <1>1, <2>3 DEF BackedUp, CommandStands
    <2>8. CommandStands'
      BY <2>3, <2>6, <2>7 DEF CommandStands, BackedUp
    <2>9. CommittedIsBackedUp'
      BY <1>1, RecordsStay DEF BatchHas
    <2>10. QED
      BY <2>4, <2>8, <2>9
  <1>6. QED
    BY <1>4, <1>5 DEF RestoreFile

LEMMA CommitBatchInv ==
  ASSUME UpdateInv, NEW how \in Outcome, CommitBatch(how)
  PROVE  UpdateInv'
  <1> USE DEF UpdateInv
  <1>1. /\ updater # NoUpdate /\ updater.pc = "commit" /\ updateFaults' \in 0..MaxUpdateFaults
        /\ updater.batch <= Len(batches)
    BY UpdateTypes, BatchFaultCounted DEF CommitBatch, Outcome, UpdaterRec
  <1>2. UNCHANGED <<tool, tree, batches, backups, missed, treeEdits>> /\ LogBatch("committed", how)
    BY DEF CommitBatch
  <1>3. BackedUp(updater.batch) /\ TheBatch.files \subseteq updater.done
    BY <1>1 DEF CommandStands
  <1>4. batchLog' \in Seq(BatchRecord) /\ CommittedIsBackedUp'
    BY <1>1, <1>2, <1>3, BatchLogged, RecordsStay
  <1>5. CASE updater' = NoUpdate
    BY <1>1, <1>2, <1>4, <1>5 DEF UpdateTypeOK, CommandStands
  <1>6. CASE CatchUpdate
    BY <1>1, <1>2, <1>3, <1>4, <1>6, CatchUpdateInv DEF UpdateTypeOK
  <1>7. QED
    BY <1>5, <1>6 DEF CommitBatch

LEMMA NoteBatchUndoneInv ==
  ASSUME UpdateInv, NEW how \in Outcome, NoteBatchUndone(how)
  PROVE  UpdateInv'
  <1> USE DEF UpdateInv
  <1>1. updater # NoUpdate /\ updateFaults' \in 0..MaxUpdateFaults
    BY UpdateTypes, BatchFaultCounted DEF NoteBatchUndone, Outcome
  <1>2. /\ UNCHANGED <<tool, tree, batches, backups, missed, treeEdits>>
        /\ LogBatch("rolled_back", how) /\ updater' = NoUpdate
    BY DEF NoteBatchUndone
  <1>3. batchLog' \in Seq(BatchRecord) /\ CommittedIsBackedUp'
    BY <1>1, <1>2, BatchLogged, RecordsStay
  <1>4. QED
    BY <1>1, <1>2, <1>3 DEF UpdateTypeOK, CommandStands

-----------------------------------------------------------------------------
(* UpdateBatch: everybody else, and the theorems.                            *)

LEMMA UpdateOthersInv ==
  ASSUME UpdateInv,
         \/ Upgrade \/ \E p \in TemplateFiles : EditTree(p)
         \/ (updateFaults < MaxUpdateFaults /\ UpdateCrash) \/ UNCHANGED updateVars
  PROVE  UpdateInv'
  <1> USE DEF UpdateInv
  <1>1. CASE Upgrade
    BY <1>1, UpdateAssumption
      DEF Upgrade, UpdateTypeOK, CommandStands, CommittedIsBackedUp, BatchHas, BackedUp, TheBatch
  <1>2. ASSUME NEW p \in TemplateFiles, EditTree(p) PROVE UpdateInv'
    <2>1. updater = NoUpdate \/ updater.pc = "check"
      BY <1>2, UpdateTypes DEF EditTree
    <2>2. /\ tree' \in [TemplateFiles -> Versions] /\ treeEdits' \in 0..MaxTreeEdits
          /\ UNCHANGED <<tool, batches, backups, batchLog, updater, missed, updateFaults>>
      BY <1>2, UpdateAssumption DEF EditTree, UpdateTypeOK, Versions, Edited
    <2>3. QED
      BY <2>1, <2>2 DEF UpdateTypeOK, CommandStands, CommittedIsBackedUp, BatchHas, BackedUp, TheBatch
  <1>3. CASE updateFaults < MaxUpdateFaults /\ UpdateCrash
    BY <1>3, UpdaterStops, UpdateAssumption DEF UpdateCrash, UpdateTypeOK
  <1>4. CASE UNCHANGED updateVars
    BY <1>4 DEF updateVars, UpdateTypeOK, CommandStands, CommittedIsBackedUp, BatchHas, BackedUp, TheBatch
  <1>5. QED
    BY <1>1, <1>2, <1>3, <1>4

LEMMA UpdateStepInv == UpdateInv /\ [UpdateNext]_updateVars => UpdateInv'
  BY StageBatchInv, CheckFilesInv, RollbackBatchInv, PrepareBatchInv, BackUpBatchInv, CommitBatchInv,
     NoteBatchUndoneInv, WriteFileInv, RestoreFileInv, UpdateOthersInv DEF UpdateNext, Outcome

LEMMA UpdateInvHolds == UpdateSpec => []UpdateInv
  BY UpdateInitInv, UpdateStepInv, PTL DEF UpdateSpec

\* What a new record of a batch says of its files.
RecordIsTrue(r) ==
  LET b == batches[r.batch]
      All(content) == \A p \in b.files : tree[p] = content[p] IN
  r.status # "prepared" =>
    IF (r.kind = "update") = (r.status = "committed")
    THEN All(b.after) /\ \A p \in b.files : backups[r.batch][p] = b.before[p]
    ELSE (r.kind = "update" /\ missed) \/ All(b.before)

LEMMA NewRecordIsTrue ==
  ASSUME UpdateInv, UpdateNext, NEW i \in Len(batchLog) + 1 .. Len(batchLog')
  PROVE  RecordIsTrue(batchLog'[i])
  <1> USE DEF UpdateInv
  <1>1. batchLog' # batchLog
    <2>1. Len(batchLog) \in Nat
      BY LenProperties DEF UpdateTypeOK
    <2>2. QED
      BY ONLY <2>1, i \in Len(batchLog) + 1 .. Len(batchLog')
  <1>2. PICK how : PrepareBatch(how) \/ CommitBatch(how) \/ NoteBatchUndone(how)
    BY <1>1 DEF UpdateNext, StageBatch, CheckFiles, Upgrade, RollbackBatch, EditTree, UpdateCrash,
                BackUpBatch, WriteFile, RestoreFile
  <1>3. updater # NoUpdate /\ updater.kind \in {"update", "undo"}
    BY <1>2, UpdateTypes DEF PrepareBatch, CommitBatch, NoteBatchUndone, UpdaterRec
  <1>4. CASE PrepareBatch(how)
    <2>1. batchLog'[i] = [batch |-> updater.batch, kind |-> updater.kind, status |-> "prepared"]
      BY <1>3, <1>4, BatchLogged DEF PrepareBatch
    <2>2. QED
      BY <2>1 DEF RecordIsTrue
  <1>5. CASE CommitBatch(how)
    <2>1. batchLog'[i] = [batch |-> updater.batch, kind |-> updater.kind, status |-> "committed"]
      BY <1>3, <1>5, BatchLogged DEF CommitBatch
    <2>2. /\ BackedUp(updater.batch)
          /\ \A p \in TheBatch.files :
               tree[p] = IF updater.kind = "update" THEN TheBatch.after[p] ELSE TheBatch.before[p]
      BY <1>3, <1>5 DEF CommitBatch, CommandStands
    <2>3. CASE updater.kind = "update"
      BY <2>1, <2>2, <2>3 DEF RecordIsTrue, BackedUp, TheBatch
    <2>4. CASE updater.kind = "undo"
      BY <2>1, <2>2, <2>4 DEF RecordIsTrue, TheBatch
    <2>5. QED
      BY <1>3, <2>3, <2>4
  <1>6. CASE NoteBatchUndone(how)
    <2>1. batchLog'[i] = [batch |-> updater.batch, kind |-> updater.kind, status |-> "rolled_back"]
      BY <1>3, <1>6, BatchLogged DEF NoteBatchUndone
    <2>2. /\ updater.kind = "undo" => BackedUp(updater.batch)
          /\ \A p \in TheBatch.files :
               IF updater.kind = "update" THEN missed \/ tree[p] = TheBatch.before[p]
                                          ELSE tree[p] = TheBatch.after[p]
      BY <1>3, <1>6 DEF NoteBatchUndone, CommandStands
    <2>3. CASE updater.kind = "update"
      BY <2>1, <2>2, <2>3 DEF RecordIsTrue, TheBatch
    <2>4. CASE updater.kind = "undo"
      BY <2>1, <2>2, <2>4 DEF RecordIsTrue, BackedUp, TheBatch
    <2>5. QED
      BY <1>3, <2>3, <2>4
  <1>7. QED
    BY <1>2, <1>4, <1>5, <1>6

\* Whatever of an update or its rollback fails or dies, at any write of any file: the last
\* record of a batch says of all its files what became of them.
THEOREM BatchTellsTheTruthHolds == UpdateSpec => BatchTellsTheTruth
  <1> DEFINE Truth == \A i \in Len(batchLog) + 1 .. Len(batchLog') : RecordIsTrue(batchLog'[i])
  <1>1. UpdateInv /\ [UpdateNext]_updateVars => [Truth]_batchLog
    BY NewRecordIsTrue DEF updateVars
  <1>2. UpdateSpec => [][Truth]_batchLog
    BY <1>1, UpdateInvHolds, PTL DEF UpdateSpec
  <1>3. QED
    BY <1>2 DEF BatchTellsTheTruth, RecordIsTrue

\* The command, the plans, the backups and the records have their types.
THEOREM UpdateTypeCorrect == UpdateSpec => []UpdateTypeOK
  <1>1. UpdateInv => UpdateTypeOK
    BY DEF UpdateInv
  <1>2. QED
    BY <1>1, UpdateInvHolds, PTL

-----------------------------------------------------------------------------
(* EventLedger: the inductive invariant.                                     *)

USE BatchesAssumption, LedgerAssumption

\* Whoever appends holds the lock.
OneAppends == \A p \in Appenders : appender[p].pc # "idle" => ledgerLock = p

Distinct(b) == \A i, j \in 1..Len(b) : b[i] = b[j] => i = j

\* The last append is p's: the lines up to the size it found are whole and of earlier
\* appends, and those behind are its own, from the first one on.
Appending(p) ==
  LET o == appender[p].op
      s == appender[p].size
      b == ops[o].batch IN
  /\ o = Len(ops) /\ o > 0 /\ ops[o].status = "open"
  /\ s <= Len(ledger) /\ Len(ledger) <= s + Len(b) /\ s + Len(b) <= MaxLines
  /\ \A i \in 1..s : ledger[i].end = "lf" /\ ledger[i].op < o
  /\ \A i \in 1..Len(ledger) : i > s => ledger[i].op = o /\ ledger[i].id = b[i - s]
  /\ Distinct(b)
  /\ \A i \in 1..s, j \in 1..Len(b) : ledger[i].id # b[j]
  /\ appender[p].pc \in {"write", "short"} => synced <= s
  /\ appender[p].pc \in {"sync", "close"} =>
       Len(ledger) = s + Len(b) /\ \A i \in 1..Len(ledger) : ledger[i].end = "lf"
  /\ appender[p].pc = "close" => synced = Len(ledger)

Working == \A p \in Appenders : appender[p].pc # "idle" => Appending(p)

\* A line carries an id of its append's batch.
CarriedBy(o, id) == \E j \in 1..Len(ops[o].batch) : ops[o].batch[j] = id
FromBatches == \A i \in 1..Len(ledger) : ledger[i].op <= Len(ops) /\ CarriedBy(ledger[i].op, ledger[i].id)

\* What was acknowledged is beyond the reach of a power loss.
IsDurable(o) ==
  /\ ops[o].status = "acked" =>
       \E k \in 0..Len(ledger) : StandsAt(o, k) /\ k + Len(ops[o].batch) <= synced
  /\ ops[o].status = "failed" => \A i \in 1..Len(ledger) : ledger[i].op # o
Durable == \A o \in 1..Len(ops) : IsDurable(o)

LedgerInv ==
  LedgerTypeOK /\ OneAppends /\ Working /\ FromBatches /\ StaysReadable /\ Durable

-----------------------------------------------------------------------------
(* The shapes of the steps.                                                  *)

LEMMA Lengths ==
  ASSUME LedgerTypeOK
  PROVE  /\ Len(ledger) \in Nat /\ Len(ops) \in Nat /\ synced \in Nat
         /\ \A i \in 1..Len(ledger) : ledger[i] \in LedgerLine
         /\ \A o \in 1..Len(ops) :
              ops[o] \in Op /\ ops[o].batch \in Seq(Ids) /\ Len(ops[o].batch) \in Nat \ {0}
  <1>1. \A b \in Batches : b \in Seq(Ids) /\ Len(b) \in Nat \ {0}
    BY EmptySeq, LenProperties
  <1>2. \A o \in 1..Len(ops) : ops[o] \in Op
    BY ElementOfSeq DEF LedgerTypeOK
  <1>3. \A x \in Op : x.batch \in Batches
    BY DEF Op
  <1>4. \A i \in 1..Len(ledger) : ledger[i] \in LedgerLine
    BY ElementOfSeq DEF LedgerTypeOK
  <1>5. Len(ledger) \in Nat /\ Len(ops) \in Nat
    BY LenProperties DEF LedgerTypeOK
  <1>6. QED
    BY <1>1, <1>2, <1>3, <1>4, <1>5 DEF LedgerTypeOK

\* The process at work is the only one.
LEMMA Alone ==
  ASSUME LedgerInv, NEW p \in Appenders, appender[p].pc # "idle"
  PROVE  /\ Appending(p) /\ appender[p] \in Appender /\ appender[p].op \in 1..Len(ops)
         /\ \A q \in Appenders : q # p => appender[q].pc = "idle"
  <1>1. appender[p] \in Appender
    BY DEF LedgerInv, LedgerTypeOK
  <1>2. Appending(p) /\ appender[p].op \in 1..Len(ops)
    BY <1>1, Lengths DEF LedgerInv, Working, Appending, Appender
  <1>3. QED
    BY <1>1, <1>2 DEF LedgerInv, OneAppends

\* p goes on with its append.
LEMMA GoesOn ==
  ASSUME LedgerInv, NEW p \in Appenders, appender[p].pc # "idle",
         NEW pc \in {"write", "short", "sync", "rollback", "close"},
         appender' = [appender EXCEPT ![p].pc = pc], ledgerLock' = ledgerLock
  PROVE  /\ appender' \in [Appenders -> Appender] /\ OneAppends'
         /\ appender'[p] = [appender[p] EXCEPT !.pc = pc] /\ appender'[p].pc = pc
         /\ appender'[p].op = appender[p].op /\ appender'[p].size = appender[p].size
         /\ \A q \in Appenders : q # p => appender'[q].pc = "idle"
  <1>1. /\ appender \in [Appenders -> Appender] /\ appender[p] \in Appender
        /\ \A q \in Appenders : q # p => appender[q].pc = "idle"
    BY Alone DEF LedgerInv, LedgerTypeOK
  <1>2. /\ appender'[p] = [appender[p] EXCEPT !.pc = pc]
        /\ \A q \in Appenders : q # p => appender'[q] = appender[q]
    BY <1>1
  <1>3. appender'[p] \in Appender
    BY <1>1, <1>2 DEF Appender
  <1>4. QED
    BY <1>1, <1>2, <1>3 DEF LedgerInv, OneAppends, Appender

\* p is done with its append.
LEMMA AppendEnds ==
  ASSUME LedgerInv, NEW p \in Appenders, appender[p].pc # "idle",
         NEW status \in Outcomes, EndAppend(p, status)
  PROVE  /\ ops' \in Seq(Op) /\ Len(ops') = Len(ops)
         /\ ledgerLock' \in Appenders \cup {NoAppender}
         /\ appender' \in [Appenders -> Appender]
         /\ \A q \in Appenders : appender'[q].pc = "idle"
         /\ \A o \in 1..Len(ops) :
              /\ ops'[o].batch = ops[o].batch
              /\ ops'[o].status = IF o = appender[p].op THEN status ELSE ops[o].status
  <1> DEFINE o == appender[p].op
  <1>1. o \in 1..Len(ops) /\ ops \in Seq(Op) /\ \A q \in Appenders : q # p => appender[q].pc = "idle"
    BY Alone DEF LedgerInv, LedgerTypeOK
  <1>2. ops' = [ops EXCEPT ![o] = [ops[o] EXCEPT !.status = status]]
    BY DEF EndAppend
  <1>3. ops[o] \in Op /\ [ops[o] EXCEPT !.status = status] \in Op
    BY <1>1, Lengths DEF Op, LedgerInv
  <1>4. ops' \in Seq(Op) /\ Len(ops') = Len(ops)
    BY <1>1, <1>2, <1>3, ExceptSeq
  <1>5. \A x \in 1..Len(ops) : ops'[x] = IF x = o THEN [ops[o] EXCEPT !.status = status] ELSE ops[x]
    BY <1>1, <1>2, LenProperties
  <1>6. NoAppend \in Appender /\ NoAppend.pc = "idle"
    BY DEF NoAppend, Appender
  <1>7. appender' = [appender EXCEPT ![p] = NoAppend] /\ ledgerLock' = NoAppender
    BY DEF EndAppend
  <1>8. appender' \in [Appenders -> Appender] /\ \A q \in Appenders : appender'[q].pc = "idle"
    BY <1>1, <1>6, <1>7 DEF LedgerInv, LedgerTypeOK
  <1> HIDE DEF o
  <1>9. [ops[o] EXCEPT !.status = status].batch = ops[o].batch /\ [ops[o] EXCEPT !.status = status].status = status
    BY ONLY <1>3 DEF Op
  <1>10. \A x \in 1..Len(ops) :
           /\ ops'[x].batch = ops[x].batch
           /\ ops'[x].status = IF x = o THEN status ELSE ops[x].status
    BY ONLY <1>5, <1>9
  <1>11. ledgerLock' \in Appenders \cup {NoAppender}
    BY ONLY <1>7
  <1>12. QED
    BY <1>4, <1>8, <1>10, <1>11 DEF o

\* A durable batch stays as long as its lines do, and none is added to it.
LEMMA StandsStill ==
  ASSUME LedgerInv, NEW o \in 1..Len(ops), ops[o].status = "acked",
         ops'[o].batch = ops[o].batch, Len(ledger') \in Nat,
         \A i \in 1..Len(ledger) : ledger[i].op = o /\ i <= synced =>
           i <= Len(ledger') /\ i <= synced' /\ ledger'[i] = ledger[i],
         \A i \in 1..Len(ledger') : ledger'[i].op = o => i <= Len(ledger) /\ ledger[i].op = o
  PROVE  \E k \in 0..Len(ledger') : StandsAt(o, k)' /\ k + Len(ops'[o].batch) <= synced'
  <1> DEFINE b == ops[o].batch
  <1>0. Len(b) \in Nat \ {0} /\ Len(ledger) \in Nat /\ synced \in Nat /\ synced <= Len(ledger)
    BY Lengths DEF LedgerInv, LedgerTypeOK
  <1>1. PICK k \in 0..Len(ledger) : StandsAt(o, k) /\ k + Len(b) <= synced
    BY DEF LedgerInv, Durable, IsDurable
  <1>2. ASSUME NEW i \in 1..Len(b)
        PROVE  /\ k + i <= Len(ledger') /\ k + i <= synced'
               /\ ledger'[k + i] = [id |-> b[i], op |-> o, end |-> "lf"]
    <2>1. k + i \in 1..Len(ledger) /\ k + i <= synced
      <3>1. k \in Nat /\ k + Len(b) <= synced
        BY ONLY <1>0, <1>1, k \in 0..Len(ledger)
      <3> HIDE DEF b
      <3>2. QED
        BY ONLY <1>0, <3>1, i \in 1..Len(b)
    <2>2. ledger[k + i] = [id |-> b[i], op |-> o, end |-> "lf"]
      BY <1>1 DEF StandsAt
    <2>3. QED
      BY <2>1, <2>2
  <1>3. ASSUME NEW i \in 1..Len(ledger'), ledger'[i].op = o
        PROVE  i \in k+1..k+Len(b)
    BY <1>1, <1>3 DEF StandsAt
  <1>4. k \in 0..Len(ledger') /\ k + Len(b) <= Len(ledger') /\ k + Len(b) <= synced'
    <2>1. Len(b) \in 1..Len(b) /\ k \in Nat
      BY <1>0
    <2>2. k + Len(b) <= Len(ledger') /\ k + Len(b) <= synced'
      BY <1>2, <2>1
    <2>3. QED
      BY <1>0, <2>1, <2>2
  <1>5. QED
    BY <1>2, <1>3, <1>4 DEF StandsAt

\* The durable parts of an append that leaves the others' lines and answers alone.
LEMMA StaysDurable ==
  ASSUME LedgerInv, Len(ledger') \in Nat,
         NEW o \in 1..Len(ops), ops'[o].batch = ops[o].batch,
         ops'[o].status \in {ops[o].status, "crashed", "unclosed", "unknown"},
         \A i \in 1..Len(ledger) : ledger[i].op = o /\ i <= synced =>
           i <= Len(ledger') /\ i <= synced' /\ ledger'[i] = ledger[i],
         \A i \in 1..Len(ledger') : ledger'[i].op = o => i <= Len(ledger) /\ ledger[i].op = o
  PROVE  IsDurable(o)'
  <1>1. CASE ops'[o].status = "acked"
    <2>1. ops[o].status = "acked"
      BY <1>1
    <2>2. QED
      BY <1>1, <2>1, StandsStill DEF IsDurable
  <1>2. CASE ops'[o].status = "failed"
    <2>1. ops[o].status = "failed" /\ ops'[o].status # "acked"
      BY <1>2
    <2>2. \A i \in 1..Len(ledger) : ledger[i].op # o
      BY <2>1 DEF LedgerInv, Durable, IsDurable
    <2>3. \A i \in 1..Len(ledger') : ledger'[i].op # o
      BY <2>2
    <2>4. QED
      BY <2>1, <2>3 DEF IsDurable
  <1>3. QED
    BY <1>1, <1>2 DEF IsDurable

LEMMA StaysUnwritten ==
  ASSUME LedgerInv, UNCHANGED ledger, synced' \in Nat, synced' >= synced,
         NEW o \in 1..Len(ops), ops'[o].batch = ops[o].batch,
         ops'[o].status \in {ops[o].status, "crashed", "unclosed", "unknown"}
  PROVE  IsDurable(o)'
  <1>1. Len(ledger) \in Nat /\ synced \in Nat
    BY Lengths DEF LedgerInv
  <1>2. \A i \in 1..Len(ledger) : i <= synced => i <= Len(ledger') /\ i <= synced' /\ ledger'[i] = ledger[i]
    BY <1>1
  <1>3. \A i \in 1..Len(ledger') : ledger'[i].op = o => i <= Len(ledger) /\ ledger[i].op = o
    BY <1>1
  <1>4. QED
    BY <1>1, <1>2, <1>3, StaysDurable

-----------------------------------------------------------------------------
(* The steps.                                                                *)

LEMMA LedgerInitInv == LedgerInit => LedgerInv
  <1> SUFFICES ASSUME LedgerInit PROVE LedgerInv
    OBVIOUS
  <1>1. Len(ledger) = 0 /\ Len(ops) = 0 /\ synced = 0 /\ ledger \in Seq(LedgerLine) /\ ops \in Seq(Op)
    BY EmptySeq DEF LedgerInit
  <1>2. NoAppend \in Appender /\ NoAppend.pc = "idle"
    BY DEF NoAppend, Appender
  <1>3. appender \in [Appenders -> Appender] /\ \A p \in Appenders : appender[p].pc = "idle"
    BY <1>2 DEF LedgerInit
  <1>4. QED
    BY <1>1, <1>3 DEF LedgerInit, LedgerInv, LedgerTypeOK, OneAppends, Working, FromBatches, StaysReadable,
       Durable, IsDurable

LEMMA BeginKeeps ==
  ASSUME LedgerInv, NEW p \in Appenders, NEW b \in Batches, NEW validated \in BOOLEAN,
         BeginAppend(p, b, validated)
  PROVE  LedgerInv'
  <1> DEFINE n == Len(ops) + 1
             op == [batch |-> b, status |-> "open"]
             me == [pc |-> "write", op |-> n, size |-> Len(ledger)]
  <1>0. /\ LedgerTypeOK /\ Len(ledger) \in Nat /\ Len(ops) \in Nat /\ Len(ops) < MaxOps
        /\ ledger' = ledger /\ synced' = synced
        /\ b \in Seq(Ids) /\ Len(b) \in Nat \ {0}
    BY Lengths, EmptySeq, LenProperties DEF LedgerInv, BeginAppend
  <1>1. /\ ops' \in Seq(Op) /\ Len(ops') = n /\ ops'[n] = op
        /\ \A o \in 1..Len(ops) : ops'[o] = ops[o]
    BY <1>0, AppendProperties DEF BeginAppend, LedgerTypeOK, Op, Outcomes
  <1>2. me \in Appender
    BY <1>0 DEF Appender
  <1>3. /\ appender' \in [Appenders -> Appender] /\ appender'[p] = me /\ ledgerLock' = p
        /\ \A q \in Appenders : q # p => appender'[q].pc = "idle"
    BY <1>0, <1>2 DEF BeginAppend, LedgerInv, LedgerTypeOK, OneAppends
  <1>4. LedgerTypeOK'
    BY <1>0, <1>1, <1>3 DEF LedgerTypeOK
  <1>5. OneAppends'
    BY <1>3 DEF OneAppends
  <1>6. \A i \in 1..Len(ledger) : ledger[i].op \in 1..Len(ops) /\ CarriedBy(ledger[i].op, ledger[i].id)
    BY <1>0, Lengths DEF LedgerInv, FromBatches, LedgerLine
  <1>7. Distinct(b) /\ \A i \in 1..Len(ledger), j \in 1..Len(b) : ledger[i].id # b[j]
    <2>1. CASE validated
      BY <2>1 DEF BeginAppend, ValidBatch, Distinct
    <2>2. CASE ~validated
      <3>1. NewIds(b)
        BY <2>2 DEF BeginAppend
      <3>2. ASSUME NEW i \in 1..Len(ledger), NEW j \in 1..Len(b)
            PROVE  ledger[i].id # b[j]
        <4>1. PICK k \in 1..Len(ops[ledger[i].op].batch) : ops[ledger[i].op].batch[k] = ledger[i].id
          BY <1>6 DEF CarriedBy
        <4>2. QED
          BY <1>6, <3>1, <4>1 DEF NewIds
      <3>3. QED
        BY <3>1, <3>2 DEF NewIds, Distinct
    <2>3. QED
      BY <2>1, <2>2
  <1>8. \A i \in 1..Len(ledger) : ledger[i].end = "lf"
    <2>1. \A i \in 1..Len(ledger)-1 : ledger[i].end = "lf"
      BY DEF LedgerInv, StaysReadable
    <2>2. Len(ledger) > 0 => ledger[Len(ledger)].end = "lf"
      BY <1>0, EmptySeq DEF BeginAppend, HasLfTail
    <2>3. QED
      BY <1>0, <2>1, <2>2
  <1>9. Working'
    <2>1. Appending(p)'
      <3>1. appender'[p].op = n /\ appender'[p].size = Len(ledger) /\ appender'[p].pc = "write"
        BY <1>3
      <3>2. ops'[n].batch = b /\ ops'[n].status = "open"
        BY <1>1
      <3>3. synced <= Len(ledger) /\ Len(ledger) + Len(b) <= MaxLines
        BY <1>0 DEF LedgerTypeOK, BeginAppend, WithinLimits
      <3>4. /\ n = Len(ops') /\ n > 0
            /\ \A i \in 1..Len(ledger) : ledger[i].end = "lf" /\ ledger[i].op < n /\ ~(i > Len(ledger))
        BY <1>0, <1>1, <1>6, <1>8
      <3>5. Len(ledger) <= Len(ledger) + Len(b)
        BY <1>0
      <3>6. ledger' = ledger /\ synced' = synced /\ Len(ledger) <= Len(ledger)
        BY <1>0
      <3> HIDE DEF n, op, me
      <3>7. QED
        BY <1>7, <3>1, <3>2, <3>3, <3>4, <3>5, <3>6 DEF Appending
    <2>2. QED
      BY <1>3, <2>1 DEF Working
  <1>10. FromBatches'
    <2>1. ASSUME NEW i \in 1..Len(ledger)
          PROVE  CarriedBy(ledger[i].op, ledger[i].id)' /\ ledger[i].op <= n
      <3>1. PICK x, id : x = ledger[i].op /\ id = ledger[i].id
        OBVIOUS
      <3>2. x \in 1..Len(ops) /\ CarriedBy(x, id)
        BY <1>6, <3>1
      <3>3. ops'[x] = ops[x] /\ x <= n
        BY <1>0, <1>1, <3>2
      <3>4. \E j \in 1..Len(ops'[x].batch) : ops'[x].batch[j] = id
        BY <3>2, <3>3 DEF CarriedBy
      <3>5. ledger'[i].op = x /\ ledger'[i].id = id
        BY <1>0, <3>1
      <3>6. QED
        BY ONLY <3>3, <3>4, <3>1, <3>5, <1>0 DEF CarriedBy
    <2>2. QED
      BY <1>0, <1>1, <2>1 DEF FromBatches
  <1>11. Durable'
    <2>1. ASSUME NEW o \in 1..Len(ops)
          PROVE  IsDurable(o)'
      <3>1. ops'[o].batch = ops[o].batch /\ ops'[o].status = ops[o].status
        BY <1>1
      <3>2. synced' \in Nat /\ synced' >= synced
        BY <1>0 DEF LedgerTypeOK
      <3>3. QED
        BY <1>0, <3>1, <3>2, StaysUnwritten
    <2>2. ASSUME NEW o, o = n
          PROVE  IsDurable(o)'
      BY <1>1, <2>2 DEF IsDurable
    <2>3. \A o \in 1..n : o = n \/ o \in 1..Len(ops)
      BY <1>0
    <2>4. QED
      BY <1>1, <2>1, <2>2, <2>3 DEF Durable
  <1>12. QED
    BY <1>0, <1>4, <1>5, <1>9, <1>10, <1>11 DEF LedgerInv, StaysReadable

\* A step that goes on without writing: p knows what it knew, unless it gives up or has synced.
LEMMA MovesOn ==
  ASSUME LedgerInv, NEW p \in Appenders, NEW io \in BOOLEAN, WriteFails(p) \/ Sync(p, io)
  PROVE  LedgerInv'
  <1>0. /\ LedgerTypeOK /\ Len(ledger) \in Nat /\ synced \in Nat /\ appender[p].pc # "idle"
        /\ UNCHANGED <<ledger, ops, ledgerLock>>
    BY Lengths DEF LedgerInv, WriteFails, Sync, AppendAt
  <1>1. Appending(p)
    BY <1>0, Alone
  <1>2. PICK pc \in {"rollback", "close"} : appender' = [appender EXCEPT ![p].pc = pc]
    BY DEF WriteFails, Sync
  <1>3. /\ appender' \in [Appenders -> Appender] /\ OneAppends' /\ appender'[p].pc = pc
        /\ appender'[p].op = appender[p].op /\ appender'[p].size = appender[p].size
        /\ \A q \in Appenders : q # p => appender'[q].pc = "idle"
    BY <1>0, <1>2, GoesOn
  <1>4. synced' \in 0..Len(ledger) /\ synced' >= synced
    BY <1>0 DEF WriteFails, Sync, LedgerTypeOK
  <1>5. LedgerTypeOK'
    BY <1>0, <1>3, <1>4 DEF LedgerTypeOK
  <1>6. pc = "close" => appender[p].pc = "sync" /\ synced' = Len(ledger)
    <2>1. CASE WriteFails(p)
      <3>1. appender'[p].pc = "rollback"
        BY <1>0, <2>1 DEF WriteFails, LedgerTypeOK, Appender
      <3>2. QED
        BY <1>3, <3>1
    <2>2. CASE Sync(p, io)
      BY <2>2 DEF Sync, AppendAt
    <2>3. QED
      BY <2>1, <2>2
  <1>7. Appending(p)'
    BY <1>0, <1>1, <1>3, <1>6 DEF Appending
  <1>8. Working'
    BY <1>3, <1>7 DEF Working
  <1>9. Durable'
    <2>1. ASSUME NEW o \in 1..Len(ops)
          PROVE  IsDurable(o)'
      BY <1>0, <1>4, StaysUnwritten
    <2>2. QED
      BY <1>0, <2>1 DEF Durable
  <1>10. QED
    BY <1>0, <1>3, <1>5, <1>8, <1>9 DEF LedgerInv, FromBatches, CarriedBy, StaysReadable

\* The file after a write: what was there, and the first n lines of the batch.
LEMMA FcnIsSeq ==
  ASSUME NEW S, NEW n \in Nat, NEW f \in [1..n -> S]
  PROVE  f \in Seq(S) /\ Len(f) = n
  BY SeqDef, LenProperties

LEMMA Joined ==
  ASSUME NEW S, NEW a \in Seq(S), NEW b \in Seq(S), NEW i \in 1..Len(a)+Len(b)
  PROVE  /\ i <= Len(a) => (a \o b)[i] = a[i]
         /\ i > Len(a) => (a \o b)[i] = b[i - Len(a)]
  <1>1. (a \o b)[i] = IF i <= Len(a) THEN a[i] ELSE b[i - Len(a)]
    BY ConcatProperties
  <1>2. Len(a) \in Nat /\ i \in Int
    BY LenProperties
  <1>3. QED
    BY <1>1, <1>2

LEMMA WrittenIs ==
  ASSUME LedgerInv, NEW p \in Appenders, appender[p].pc # "idle",
         NEW n \in 1..MaxLines, n <= Len(Batch(p)), NEW end \in Ends,
         NEW f, f = Written(p, n, end), NEW s, s = appender[p].size
  PROVE  /\ f \in Seq(LedgerLine) /\ Len(f) = s + n
         /\ \A i \in 1..s : f[i] = ledger[i]
         /\ \A i \in 1..s+n : i > s =>
              f[i] = [id |-> Batch(p)[i - s], op |-> appender[p].op, end |-> IF i = s + n THEN end ELSE "lf"]
  <1> DEFINE new == [i \in 1..n |-> [id |-> Batch(p)[i], op |-> appender[p].op,
                                     end |-> IF i = n THEN end ELSE "lf"]]
             old == SubSeq(ledger, 1, s)
  <1>1. /\ LedgerTypeOK /\ Appending(p) /\ s \in Nat /\ s <= Len(ledger) /\ n \in Nat
        /\ appender[p].op \in 1..Len(ops) /\ Len(ops) <= MaxOps /\ Len(ops) \in Nat /\ Len(ledger) \in Nat
    <2>1. /\ LedgerTypeOK /\ Appending(p) /\ appender[p] \in Appender /\ appender[p].op \in 1..Len(ops)
      BY Alone DEF LedgerInv
    <2>2. Len(ops) <= MaxOps /\ Len(ops) \in Nat /\ Len(ledger) \in Nat
      BY <2>1, Lengths DEF LedgerTypeOK
    <2>3. s \in Nat /\ s <= Len(ledger)
      BY <2>1 DEF Appending, Appender
    <2>4. QED
      BY <2>1, <2>2, <2>3
  <1>0. s \in Nat /\ n \in Nat
    BY ONLY <1>1
  <1>2. Batch(p) \in Seq(Ids) /\ Len(Batch(p)) \in Nat
    BY <1>1, Lengths DEF Batch
  <1>3. \A i \in 1..n : Batch(p)[i] \in Ids
    BY <1>1, <1>2, ElementOfSeq
  <1>4. \A i \in 1..n : new[i] \in LedgerLine
    BY <1>1, <1>3 DEF LedgerLine, Ends
  <1>5. new \in Seq(LedgerLine) /\ Len(new) = n
    <2>1. new \in [1..n -> LedgerLine]
      BY <1>4
    <2>2. QED
      BY <1>1, <2>1, FcnIsSeq
  <1>6. old \in Seq(LedgerLine) /\ Len(old) = s /\ \A i \in 1..s : old[i] = ledger[i]
    BY <1>1, Lengths, SubSeqProperties, SMTT(30)
  <1>7. Written(p, n, end) = old \o new
    BY DEF Written
  <1>12. \A i \in 1..n : new[i] = [id |-> Batch(p)[i], op |-> appender[p].op,
                                   end |-> IF i = n THEN end ELSE "lf"]
    OBVIOUS
  <1> HIDE DEF old, new
  <1>8. /\ old \o new \in Seq(LedgerLine) /\ Len(old \o new) = s + n
        /\ \A i \in 1..s+n : (old \o new)[i] = IF i <= s THEN old[i] ELSE new[i - s]
    <2>1. s \in Nat /\ n \in Nat /\ old \in Seq(LedgerLine) /\ new \in Seq(LedgerLine)
          /\ Len(old) = s /\ Len(new) = n
      BY <1>1, <1>5, <1>6
    <2>2. old \o new \in Seq(LedgerLine) /\ Len(old \o new) = s + n
      BY ONLY <2>1, ConcatProperties
    <2>3. ASSUME NEW i \in 1..s+n
          PROVE  (old \o new)[i] = IF i <= s THEN old[i] ELSE new[i - s]
      <3>1. i \in 1..Len(old)+Len(new)
        BY <2>1
      <3>2. /\ i <= Len(old) => (old \o new)[i] = old[i]
            /\ i > Len(old) => (old \o new)[i] = new[i - Len(old)]
        BY ONLY <2>1, <3>1, Joined
      <3>3. QED
        BY <2>1, <3>2
    <2>4. QED
      BY <2>2, <2>3
  <1>9. ASSUME NEW i \in 1..s
        PROVE  (old \o new)[i] = ledger[i]
    <2>1. i \in 1..s+n /\ i <= s
      BY ONLY <1>0, i \in 1..s
    <2>2. QED
      BY <1>6, <1>8, <2>1
  <1>10. ASSUME NEW i \in 1..s+n, i > s
         PROVE  (old \o new)[i] =
                  [id |-> Batch(p)[i - s], op |-> appender[p].op, end |-> IF i = s + n THEN end ELSE "lf"]
    <2>1. i - s \in 1..n /\ (i - s = n <=> i = s + n) /\ ~(i <= s)
      BY ONLY <1>0, <1>10, i \in 1..s+n
    <2>2. (old \o new)[i] = new[i - s]
      BY <1>8, <2>1
    <2>3. QED
      BY <1>12, <2>1, <2>2
  <1>11. QED
    BY <1>7, <1>8, <1>9, <1>10

LEMMA WriteKeeps ==
  ASSUME LedgerInv, NEW p \in Appenders, NEW n \in 1..MaxLines, NEW end \in Ends, WriteLines(p, n, end)
  PROVE  LedgerInv'
  <1> DEFINE s == appender[p].size
             o == appender[p].op
             b == Batch(p)
  <1>0. /\ LedgerTypeOK /\ appender[p].pc \in {"write", "short"} /\ n \in Nat
        /\ UNCHANGED <<synced, ops, ledgerLock>> /\ ledger' = Written(p, n, end)
        /\ n <= Len(b) /\ appender[p] \in Appender
    BY Alone DEF LedgerInv, WriteLines
  <1>1. /\ Appending(p) /\ s \in Nat /\ o \in 1..Len(ops) /\ Len(ops) \in Nat /\ o = Len(ops)
        /\ s <= Len(ledger) /\ s + Len(b) <= MaxLines /\ synced <= s
    BY <1>0, Alone, Lengths DEF Appending, Appender, LedgerInv, Batch
  <1>2. /\ Len(ledger) \in Nat /\ synced \in Nat /\ b \in Seq(Ids) /\ Len(b) \in Nat \ {0}
        /\ b = ops[o].batch /\ \A i \in 1..Len(ledger) : ledger[i] \in LedgerLine
    BY <1>0, <1>1, Lengths DEF Batch
  <1>3. /\ ledger' \in Seq(LedgerLine) /\ Len(ledger') = s + n
        /\ \A i \in 1..s : ledger'[i] = ledger[i]
        /\ \A i \in 1..s+n : i > s =>
             ledger'[i] = [id |-> b[i - s], op |-> o, end |-> IF i = s + n THEN end ELSE "lf"]
    <2>1. appender[p].pc # "idle"
      BY <1>0
    <2>2. QED
      BY ONLY LedgerInv, p \in Appenders, n \in 1..MaxLines, end \in Ends, <1>0, <2>1, WrittenIs
  <1>4. PICK pc \in {"sync", "short"} :
          /\ appender' = [appender EXCEPT ![p].pc = pc]
          /\ pc = "sync" => n = Len(b) /\ end = "lf"
    BY DEF WriteLines
  <1>5. /\ appender' \in [Appenders -> Appender] /\ OneAppends' /\ appender'[p].pc = pc
        /\ appender'[p].op = o /\ appender'[p].size = s
        /\ \A q \in Appenders : q # p => appender'[q].pc = "idle"
    BY <1>0, <1>4, GoesOn
  <1>6. LedgerTypeOK'
    BY <1>0, <1>1, <1>2, <1>3, <1>5 DEF LedgerTypeOK
  <1>a. /\ s \in Nat /\ n \in Nat \ {0} /\ Len(b) \in Nat /\ Len(ledger) \in Nat /\ synced \in Nat
        /\ n <= Len(b) /\ s + Len(b) <= MaxLines /\ synced <= s /\ s <= Len(ledger)
        /\ Len(ops) \in Nat /\ o \in 1..Len(ops) /\ o = Len(ops)
    BY ONLY <1>0, <1>1, <1>2, n \in 1..MaxLines
  <1>b. /\ ops[o].status = "open" /\ Distinct(b)
        /\ \A i \in 1..s : ledger[i].end = "lf" /\ ledger[i].op < o
        /\ \A i \in 1..s, j \in 1..Len(b) : ledger[i].id # b[j]
    BY <1>1, <1>2 DEF Appending
  <1>c. \A i \in 1..s : i \in 1..Len(ledger) /\ i \in 1..s+n
    BY ONLY <1>a
  <1>d. \A i \in 1..s+n : i \in 1..s \/ i > s
    BY ONLY <1>a
  <1> HIDE DEF s, o, b
  <1>7. ASSUME NEW i \in 1..s+n, i > s
        PROVE  /\ i - s \in 1..Len(b) /\ ledger'[i].id = b[i - s] /\ ledger'[i].op = o
               /\ ledger'[i].end = IF i = s + n THEN end ELSE "lf"
    <2>1. i - s \in 1..Len(b)
      BY ONLY <1>a, <1>7, i \in 1..s+n
    <2>2. ledger'[i] = [id |-> b[i - s], op |-> o, end |-> IF i = s + n THEN end ELSE "lf"]
      BY ONLY <1>3, <1>7, i \in 1..s+n
    <2>3. QED
      BY <2>1, <2>2
  <1>8. \A i \in 1..s+n : (i < s + n \/ end = "lf") => ledger'[i].end = "lf"
    <2>1. \A i \in 1..s : ledger'[i].end = "lf"
      BY ONLY <1>3, <1>b
    <2>2. ASSUME NEW i \in 1..s+n, i > s, i < s + n \/ end = "lf"
          PROVE  ledger'[i].end = "lf"
      <3>1. ledger'[i].end = IF i = s + n THEN end ELSE "lf"
        BY ONLY <1>7, <2>2, i \in 1..s+n
      <3>2. i = s + n => end = "lf"
        BY ONLY <1>a, <2>2, i \in 1..s+n
      <3>3. QED
        BY ONLY <3>1, <3>2
    <2>3. QED
      BY ONLY <1>d, <2>1, <2>2
  <1>9. Appending(p)'
    <2>1. \A i \in 1..s : ledger'[i].end = "lf" /\ ledger'[i].op < o
      BY ONLY <1>3, <1>b
    <2>2. Distinct(b) /\ \A i \in 1..s, j \in 1..Len(b) : ledger'[i].id # b[j]
      BY ONLY <1>3, <1>b
    <2>3. pc = "sync" => s + n = s + Len(b) /\ \A i \in 1..s+n : ledger'[i].end = "lf"
      BY ONLY <1>4, <1>8
    <2>4. o > 0 /\ s + n <= s + Len(b) /\ s <= s + n
      BY ONLY <1>a
    <2>5. \A i \in 1..s+n : i > s => ledger'[i].op = o /\ ledger'[i].id = b[i - s]
      BY ONLY <1>7
    <2>6. /\ pc \in {"sync", "short"} /\ pc # "close" /\ ops' = ops /\ synced' = synced
          /\ b = ops[o].batch /\ Len(ledger') = s + n
      BY ONLY <1>0, <1>2, <1>3, pc \in {"sync", "short"}
    <2>7. appender'[p].pc = pc /\ appender'[p].op = o /\ appender'[p].size = s
      BY <1>5
    <2>8. QED
      BY ONLY <1>a, <1>b, <2>1, <2>2, <2>3, <2>4, <2>5, <2>6, <2>7 DEF Appending
  <1>10. Working'
    BY <1>5, <1>9 DEF Working
  <1>11. FromBatches'
    <2>1. ASSUME NEW i \in 1..s
          PROVE  ledger'[i].op <= Len(ops) /\ CarriedBy(ledger'[i].op, ledger'[i].id)
      BY <1>3, <1>c DEF LedgerInv, FromBatches
    <2>2. ASSUME NEW i \in 1..s+n, i > s
          PROVE  ledger'[i].op <= Len(ops) /\ CarriedBy(ledger'[i].op, ledger'[i].id)
      <3>1. i - s \in 1..Len(ops[o].batch) /\ ops[o].batch[i - s] = ledger'[i].id /\ ledger'[i].op = o
        BY <1>2, <1>7, <2>2
      <3>2. CarriedBy(o, ledger'[i].id)
        BY <3>1 DEF CarriedBy
      <3>3. QED
        BY <1>a, <3>1, <3>2
    <2>3. \A x, id : CarriedBy(x, id)' <=> CarriedBy(x, id)
      BY <1>0 DEF CarriedBy
    <2>4. ops' = ops /\ Len(ledger') = s + n
      BY <1>0, <1>3
    <2>5. QED
      BY ONLY <1>d, <2>1, <2>2, <2>3, <2>4 DEF FromBatches
  <1>12. StaysReadable'
    <2>1. s + n <= MaxLines
      <3>1. MaxLines \in Nat
        BY LedgerAssumption
      <3>2. QED
        BY ONLY <1>a, <3>1
    <2>2. \A i \in 1..(s+n)-1 : ledger'[i].end = "lf"
      <3>1. \A i \in 1..(s+n)-1 : i \in 1..s+n /\ i < s + n
        BY ONLY <1>a
      <3>2. QED
        BY ONLY <1>8, <3>1
    <2>3. ASSUME NEW i \in 1..s+n, NEW j \in 1..s+n, i <= j, ledger'[i].id = ledger'[j].id
          PROVE  i = j
      <3>1. CASE j \in 1..s
        <4>1. i \in 1..s
          BY ONLY <1>a, <2>3, <3>1, i \in 1..s+n
        <4>2. i \in 1..Len(ledger) /\ j \in 1..Len(ledger) /\ ledger[i].id = ledger[j].id
          BY ONLY <1>3, <1>c, <2>3, <3>1, <4>1
        <4>3. QED
          BY <4>2 DEF LedgerInv, StaysReadable
      <3>2. CASE i \in 1..s /\ j > s
        <4>1. j - s \in 1..Len(b) /\ ledger'[j].id = b[j - s] /\ ledger'[i] = ledger[i]
          BY ONLY <1>3, <1>7, <3>2, j \in 1..s+n
        <4>2. ledger[i].id # b[j - s]
          BY ONLY <1>b, <3>2, <4>1
        <4>3. QED
          BY ONLY <2>3, <4>1, <4>2
      <3>3. CASE i > s /\ j > s
        <4>1. /\ ledger'[i].id = b[i - s] /\ ledger'[j].id = b[j - s]
              /\ i - s \in 1..Len(b) /\ j - s \in 1..Len(b)
          BY ONLY <1>7, <3>3, i \in 1..s+n, j \in 1..s+n
        <4>2. i - s = j - s
          BY ONLY <1>b, <2>3, <4>1 DEF Distinct
        <4>3. QED
          BY ONLY <1>a, <4>2, i \in 1..s+n, j \in 1..s+n
      <3>4. i > s => j > s
        BY ONLY <1>a, <2>3, i \in 1..s+n, j \in 1..s+n
      <3>5. QED
        BY ONLY <1>d, <3>1, <3>2, <3>3, <3>4, i \in 1..s+n, j \in 1..s+n
    <2>4. ASSUME NEW i \in 1..s+n, NEW j \in 1..s+n, ledger'[i].id = ledger'[j].id
          PROVE  i = j
      <3>1. i <= j \/ j <= i
        BY ONLY <1>a, i \in 1..s+n, j \in 1..s+n
      <3>2. QED
        BY ONLY <2>3, <2>4, <3>1, i \in 1..s+n, j \in 1..s+n
    <2>5. QED
      BY <1>3, <2>1, <2>2, <2>4 DEF StaysReadable
  <1>13. Durable'
    <2>1. ASSUME NEW x \in 1..Len(ops)
          PROVE  IsDurable(x)'
      <3>1. CASE x = o
        <4>1. ops'[x].status = "open"
          BY <1>0, <1>b, <3>1
        <4>2. QED
          BY ONLY <4>1 DEF IsDurable
      <3>2. CASE x # o
        <4>1. ASSUME NEW i \in 1..Len(ledger), ledger[i].op = x, i <= synced
              PROVE  i <= Len(ledger') /\ i <= synced' /\ ledger'[i] = ledger[i]
          <5>1. i \in 1..s /\ i <= s + n
            BY ONLY <1>a, <4>1, i \in 1..Len(ledger)
          <5>2. QED
            BY <1>0, <1>3, <4>1, <5>1
        <4>2. ASSUME NEW i \in 1..Len(ledger'), ledger'[i].op = x
              PROVE  i <= Len(ledger) /\ ledger[i].op = x
          <5>1. i \in 1..s+n
            BY <1>3
          <5>2. ~(i > s)
            BY ONLY <1>7, <3>2, <4>2, <5>1
          <5>3. i \in 1..s /\ i <= Len(ledger)
            BY ONLY <1>a, <1>d, <5>1, <5>2
          <5>4. QED
            BY ONLY <1>3, <4>2, <5>3
        <4>3. Len(ledger') \in Nat
          BY ONLY <1>a, <1>3
        <4>4. QED
          BY <1>0, <4>1, <4>2, <4>3, StaysDurable
      <3>3. QED
        BY <3>1, <3>2
    <2>2. QED
      BY <1>0, <2>1 DEF Durable
  <1>14. QED
    BY <1>5, <1>6, <1>10, <1>11, <1>12, <1>13 DEF LedgerInv

\* The append is over, or cut off, and the file is what is left of it.
LEMMA CutKeeps ==
  ASSUME LedgerInv, ops' \in Seq(Op), Len(ops') = Len(ops),
         appender' \in [Appenders -> Appender], ledgerLock' \in Appenders \cup {NoAppender},
         \A q \in Appenders : appender'[q].pc = "idle",
         NEW n \in 0..Len(ledger), ledger' \in Seq(LedgerLine), Len(ledger') = n, synced' \in 0..n,
         \A i \in 1..n : /\ ledger'[i].id = ledger[i].id /\ ledger'[i].op = ledger[i].op
                         /\ i < n => ledger'[i].end = ledger[i].end,
         \A o \in 1..Len(ops) : ops'[o].batch = ops[o].batch, Durable'
  PROVE  LedgerInv'
  <1>0. LedgerTypeOK /\ Len(ledger) \in Nat /\ Len(ops) \in Nat /\ synced \in Nat
    BY Lengths DEF LedgerInv
  <1>1. LedgerTypeOK'
    BY <1>0 DEF LedgerTypeOK
  <1>2. OneAppends' /\ Working'
    BY DEF OneAppends, Working
  <1>3. FromBatches'
    <2>1. ASSUME NEW i \in 1..n
          PROVE  ledger'[i].op <= Len(ops) /\ CarriedBy(ledger[i].op, ledger[i].id)'
      <3>1. i \in 1..Len(ledger)
        BY <1>0
      <3>2. ledger[i].op \in 1..Len(ops) /\ CarriedBy(ledger[i].op, ledger[i].id)
        BY <1>0, <3>1, Lengths DEF LedgerInv, FromBatches, LedgerLine
      <3>3. ledger'[i].op = ledger[i].op /\ ledger'[i].id = ledger[i].id
        OBVIOUS
      <3>4. PICK j \in 1..Len(ops[ledger[i].op].batch) : ops[ledger[i].op].batch[j] = ledger[i].id
        BY <3>2 DEF CarriedBy
      <3>5. ops'[ledger[i].op].batch = ops[ledger[i].op].batch
        BY <3>2
      <3>6. CarriedBy(ledger[i].op, ledger[i].id)'
        BY <3>3, <3>4, <3>5 DEF CarriedBy
      <3>7. ledger[i].op <= Len(ops)
        BY <1>0, <3>2
      <3>8. QED
        BY <3>3, <3>6, <3>7
    <2>2. QED
      BY <2>1 DEF FromBatches
  <1>4. StaysReadable'
    <2>1. \A i \in 1..n-1 : i \in 1..Len(ledger)-1 /\ i \in 1..n /\ i < n
      BY <1>0
    <2>2. \A i \in 1..n : i \in 1..Len(ledger)
      BY <1>0
    <2>3. n <= MaxLines
      BY <1>0 DEF LedgerInv, StaysReadable
    <2>4. \A i \in 1..n-1 : ledger'[i].end = "lf"
      BY <2>1 DEF LedgerInv, StaysReadable
    <2>5. QED
      BY <2>2, <2>3, <2>4 DEF LedgerInv, StaysReadable
  <1>5. QED
    BY <1>1, <1>2, <1>3, <1>4 DEF LedgerInv

LEMMA RollbackKeeps ==
  ASSUME LedgerInv, NEW p \in Appenders, NEW io \in BOOLEAN, Rollback(p, io)
  PROVE  LedgerInv'
  <1> DEFINE s == appender[p].size
             o == appender[p].op
             status == IF io THEN "failed" ELSE "unknown"
  <1>0. /\ LedgerTypeOK /\ appender[p].pc = "rollback" /\ EndAppend(p, status) /\ status \in Outcomes
        /\ Len(ledger) \in Nat /\ synced \in Nat
    BY Lengths DEF LedgerInv, Rollback, AppendAt, Outcomes
  <1>1. /\ Appending(p) /\ s \in Nat /\ o \in 1..Len(ops) /\ s <= Len(ledger)
    BY <1>0, Alone DEF Appending, Appender
  <1>2. /\ ops' \in Seq(Op) /\ Len(ops') = Len(ops)
        /\ ledgerLock' \in Appenders \cup {NoAppender}
        /\ appender' \in [Appenders -> Appender]
        /\ \A q \in Appenders : appender'[q].pc = "idle"
        /\ \A x \in 1..Len(ops) :
             /\ ops'[x].batch = ops[x].batch
             /\ ops'[x].status = IF x = o THEN status ELSE ops[x].status
    BY <1>0, AppendEnds
  <1>3. CASE io
    <2>1. ledger' = SubSeq(ledger, 1, s) /\ synced' = s
      BY <1>3 DEF Rollback
    <2>2. ledger' \in Seq(LedgerLine) /\ Len(ledger') = s /\ \A i \in 1..s : ledger'[i] = ledger[i]
      <3>1. ledger \in Seq(LedgerLine) /\ \A i \in 1..s : i \in 1..Len(ledger)
        BY <1>0, <1>1 DEF LedgerTypeOK
      <3>2. \A i \in 1..s : ledger[i] \in LedgerLine
        BY <3>1, ElementOfSeq
      <3>3. /\ SubSeq(ledger, 1, s) \in Seq(LedgerLine)
            /\ Len(SubSeq(ledger, 1, s)) = IF 1 <= s THEN s - 1 + 1 ELSE 0
            /\ \A i \in 1..(s - 1 + 1) : SubSeq(ledger, 1, s)[i] = ledger[1 + i - 1]
        BY <1>1, <3>2, SubSeqProperties
      <3>4. s - 1 + 1 = s /\ \A i \in 1..s : 1 + i - 1 = i
        BY <1>1
      <3>5. QED
        BY <1>1, <2>1, <3>3, <3>4
    <2>3. \A i \in 1..s : ledger[i].op # o
      BY <1>1 DEF Appending
    <2>4. ASSUME NEW x \in 1..Len(ops), x # o, NEW i \in 1..Len(ledger), ledger[i].op = x
          PROVE  i <= s
      BY <1>1, <2>4 DEF Appending
    <2>5. s \in 0..Len(ledger) /\ synced' \in 0..s
      BY <1>0, <1>1, <2>1
    <2>6. ASSUME NEW x \in 1..Len(ops)
          PROVE  IsDurable(x)'
      <3>1. CASE x = o
        <4>1. ops'[x].status = "failed"
          BY <1>2, <1>3, <3>1
        <4>2. \A i \in 1..Len(ledger') : ledger'[i].op # x
          BY <2>2, <2>3, <3>1
        <4>3. QED
          BY <4>1, <4>2 DEF IsDurable
      <3>2. CASE x # o
        <4>1. ops'[x].status = ops[x].status /\ ops'[x].batch = ops[x].batch
          BY <1>2, <3>2
        <4>2. \A i \in 1..Len(ledger) : ledger[i].op = x /\ i <= synced =>
                i <= Len(ledger') /\ i <= synced' /\ ledger'[i] = ledger[i]
          BY <2>1, <2>2, <2>4, <3>2
        <4>3. \A i \in 1..Len(ledger') : ledger'[i].op = x => i <= Len(ledger) /\ ledger[i].op = x
          BY <1>0, <1>1, <2>2
        <4>4. QED
          BY <1>1, <2>2, <4>1, <4>2, <4>3, StaysDurable
      <3>3. QED
        BY <3>1, <3>2
    <2>7. Durable'
      BY <1>2, <2>6 DEF Durable
    <2>8. QED
      BY <1>2, <2>2, <2>5, <2>7, CutKeeps
  <1>4. CASE ~io
    <2>1. ledger' = ledger /\ synced' = synced
      BY <1>4 DEF Rollback
    <2>2. \A x \in 1..Len(ops) : ops'[x].batch = ops[x].batch /\ ops'[x].status \in {ops[x].status, "unknown"}
      BY <1>2, <1>4
    <2>3. Durable'
      BY <1>0, <1>2, <2>1, <2>2, StaysUnwritten DEF Durable
    <2>4. QED
      BY <1>0, <1>2, <2>1, <2>3, CutKeeps DEF LedgerTypeOK
  <1>5. QED
    BY <1>3, <1>4

LEMMA Shifted ==
  ASSUME NEW m \in Nat, NEW n \in Nat, NEW i \in 1..n
  PROVE  m + i \in 1..m+n /\ m + i > m /\ (m + i) - m = i
  OBVIOUS

LEMMA CloseKeeps ==
  ASSUME LedgerInv, NEW p \in Appenders, NEW io \in BOOLEAN, Close(p, io)
  PROVE  LedgerInv'
  <1> DEFINE s == appender[p].size
             o == appender[p].op
             b == ops[o].batch
             status == IF io THEN "acked" ELSE "unclosed"
  <1>0. /\ LedgerTypeOK /\ appender[p].pc = "close" /\ EndAppend(p, status) /\ status \in Outcomes
        /\ Len(ledger) \in Nat /\ synced \in Nat /\ ledger' = ledger /\ synced' = synced
    BY Lengths DEF LedgerInv, Close, AppendAt, Outcomes
  <1>1. /\ Appending(p) /\ s \in Nat /\ o \in 1..Len(ops) /\ Len(b) \in Nat
    BY <1>0, Alone, Lengths DEF Appender
  <1>2. /\ ops' \in Seq(Op) /\ Len(ops') = Len(ops)
        /\ ledgerLock' \in Appenders \cup {NoAppender}
        /\ appender' \in [Appenders -> Appender]
        /\ \A q \in Appenders : appender'[q].pc = "idle"
        /\ \A x \in 1..Len(ops) :
             /\ ops'[x].batch = ops[x].batch
             /\ ops'[x].status = IF x = o THEN status ELSE ops[x].status
    BY <1>0, AppendEnds
  <1>3. Len(ledger) = s + Len(b) /\ synced = Len(ledger) /\ \A i \in 1..Len(ledger) : ledger[i].end = "lf"
    BY <1>0, <1>1 DEF Appending
  <1>4. StandsAt(o, s)
    <2>1. ASSUME NEW i \in 1..Len(b)
          PROVE  ledger[s + i] = [id |-> b[i], op |-> o, end |-> "lf"]
      <3>1. s + i \in 1..Len(ledger) /\ s + i > s /\ (s + i) - s = i
        BY <1>1, <1>3, Shifted
      <3>2. ledger[s + i] \in LedgerLine
        BY <1>0, <3>1, Lengths
      <3>3. ledger[s + i].id = b[i] /\ ledger[s + i].op = o /\ ledger[s + i].end = "lf"
        BY <1>1, <1>3, <3>1 DEF Appending
      <3>4. QED
        BY <3>2, <3>3 DEF LedgerLine
    <2>2. ASSUME NEW i \in 1..Len(ledger), ledger[i].op = o
          PROVE  i \in s+1..s+Len(b)
      BY <1>0, <1>1, <1>3, <2>2 DEF Appending
    <2>3. QED
      BY <1>1, <1>3, <2>1, <2>2 DEF StandsAt
  <1>5. ops'[o].batch = b
    BY <1>1, <1>2
  <1>6. /\ s + Len(b) <= Len(ledger')
        /\ \A i \in 1..Len(b) : ledger'[s + i] = [id |-> b[i], op |-> o, end |-> "lf"]
        /\ \A i \in 1..Len(ledger') : ledger'[i].op = o => i \in s+1..s+Len(b)
    BY <1>0, <1>4 DEF StandsAt
  <1>7. s \in 0..Len(ledger) /\ s + Len(b) <= synced'
    BY <1>0, <1>1, <1>3
  <1>8. ASSUME NEW x \in 1..Len(ops)
        PROVE  IsDurable(x)'
    <2>1. CASE x = o /\ io
      <3>1. ops'[x].status = "acked"
        BY <1>2, <2>1
      <3>2. PICK k \in 0..Len(ledger) : k = s
        BY <1>7
      <3>3. StandsAt(x, k)'
        BY <1>5, <1>6, <2>1, <3>2 DEF StandsAt
      <3>4. QED
        BY <1>0, <1>5, <1>7, <2>1, <3>1, <3>2, <3>3 DEF IsDurable
    <2>2. CASE ~(x = o /\ io)
      <3>1. ops'[x].batch = ops[x].batch /\ ops'[x].status \in {ops[x].status, "unclosed"}
        BY <1>2, <2>2
      <3>2. QED
        BY <1>0, <3>1, StaysUnwritten
    <2>3. QED
      BY <2>1, <2>2
  <1>9. Durable'
    BY <1>2, <1>8 DEF Durable
  <1>10. ledger' \in Seq(LedgerLine) /\ synced' \in 0..Len(ledger)
    BY <1>0 DEF LedgerTypeOK
  <1>11. QED
    BY <1>0, <1>2, <1>9, <1>10, CutKeeps

LEMMA CrashKeeps ==
  ASSUME LedgerInv, NEW p \in Appenders, AppendCrash(p)
  PROVE  LedgerInv'
  <1>0. /\ LedgerTypeOK /\ appender[p].pc # "idle" /\ EndAppend(p, "crashed") /\ "crashed" \in Outcomes
        /\ Len(ledger) \in Nat /\ synced \in Nat /\ ledger' = ledger /\ synced' = synced
    BY Lengths DEF LedgerInv, AppendCrash, AppendAt, Outcomes
  <1>1. /\ ops' \in Seq(Op) /\ Len(ops') = Len(ops)
        /\ ledgerLock' \in Appenders \cup {NoAppender}
        /\ appender' \in [Appenders -> Appender]
        /\ \A q \in Appenders : appender'[q].pc = "idle"
        /\ \A x \in 1..Len(ops) :
             /\ ops'[x].batch = ops[x].batch
             /\ ops'[x].status \in {ops[x].status, "crashed"}
    BY <1>0, AppendEnds
  <1>2. Durable'
    BY <1>0, <1>1, StaysUnwritten DEF Durable
  <1>3. PICK n \in 0..Len(ledger) : n = Len(ledger)
    BY ONLY <1>0
  <1>4. ledger' \in Seq(LedgerLine) /\ Len(ledger') = n /\ synced' \in 0..n
    BY ONLY <1>0, <1>3 DEF LedgerTypeOK
  <1>5. /\ \A i \in 1..n : /\ ledger'[i].id = ledger[i].id /\ ledger'[i].op = ledger[i].op
                           /\ i < n => ledger'[i].end = ledger[i].end
        /\ \A x \in 1..Len(ops) : ops'[x].batch = ops[x].batch
    BY ONLY <1>0, <1>1
  <1>6. QED
    BY <1>1, <1>2, <1>4, <1>5, CutKeeps

LEMMA PowerLossKeeps ==
  ASSUME LedgerInv, NEW n \in 0..Len(ledger), NEW end \in Ends, PowerLoss(n, end)
  PROVE  LedgerInv'
  <1>0. /\ LedgerTypeOK /\ Len(ledger) \in Nat /\ Len(ops) \in Nat /\ synced \in Nat /\ n \in Nat
        /\ synced <= n /\ synced' = n
        /\ \A i \in 1..Len(ledger) : ledger[i] \in LedgerLine
    BY Lengths DEF LedgerInv, PowerLoss
  <1>1. ASSUME NEW i \in 1..n
        PROVE  /\ ledger'[i] \in LedgerLine
               /\ ledger'[i].id = ledger[i].id /\ ledger'[i].op = ledger[i].op
               /\ i < n => ledger'[i].end = ledger[i].end
               /\ i <= synced => ledger'[i] = ledger[i]
    <2>1. ledger[i] \in LedgerLine /\ i \in Nat
      BY <1>0
    <2>2. ledger'[i] = IF i = n /\ n > synced /\ ledger[i].end = "lf"
                       THEN [ledger[i] EXCEPT !.end = end] ELSE ledger[i]
      BY DEF PowerLoss
    <2>3. PICK x : x = ledger[i]
      OBVIOUS
    <2>4. /\ [x EXCEPT !.end = end] \in LedgerLine
          /\ [x EXCEPT !.end = end].id = x.id /\ [x EXCEPT !.end = end].op = x.op
      BY ONLY <2>1, <2>3, end \in Ends DEF LedgerLine
    <2>5. CASE i = n /\ n > synced /\ ledger[i].end = "lf"
      <3>1. ledger'[i] = [x EXCEPT !.end = end] /\ ~(i < n) /\ ~(i <= synced)
        BY ONLY <1>0, <2>1, <2>2, <2>3, <2>5
      <3>2. QED
        BY ONLY <2>3, <2>4, <3>1
    <2>6. CASE ~(i = n /\ n > synced /\ ledger[i].end = "lf")
      BY ONLY <2>1, <2>2, <2>6
    <2>7. QED
      BY <2>5, <2>6
  <1>2. ledger' \in Seq(LedgerLine) /\ Len(ledger') = n
    <2>1. ledger' \in [1..n -> LedgerLine]
      BY <1>1 DEF PowerLoss
    <2>2. QED
      BY <1>0, <2>1, FcnIsSeq
  <1>3. ASSUME NEW o \in 1..Len(ops)
        PROVE  ops'[o] \in Op /\ ops'[o].batch = ops[o].batch /\ ops'[o].status \in {ops[o].status, "crashed"}
    <2>1. ops[o] \in Op /\ o \in DOMAIN ops
      BY <1>0, Lengths, LenProperties DEF LedgerTypeOK
    <2>2. ops'[o] = IF ops[o].status = "open" THEN [ops[o] EXCEPT !.status = "crashed"] ELSE ops[o]
      BY <2>1 DEF PowerLoss
    <2>3. QED
      BY <2>1, <2>2 DEF Op, Outcomes
  <1>4. ops' \in Seq(Op) /\ Len(ops') = Len(ops)
    <2>1. DOMAIN ops = 1..Len(ops)
      BY <1>0, LenProperties DEF LedgerTypeOK
    <2>2. ops' \in [1..Len(ops) -> Op]
      BY <1>3, <2>1 DEF PowerLoss
    <2>3. QED
      BY <1>0, <2>2, FcnIsSeq
  <1>5. NoAppend \in Appender /\ NoAppend.pc = "idle"
    BY DEF NoAppend, Appender
  <1>6. /\ appender' \in [Appenders -> Appender] /\ \A q \in Appenders : appender'[q].pc = "idle"
        /\ ledgerLock' = NoAppender
    BY <1>5 DEF PowerLoss
  <1>7. ASSUME NEW o \in 1..Len(ops)
        PROVE  IsDurable(o)'
    <2>1. \A i \in 1..Len(ledger) : ledger[i].op = o /\ i <= synced =>
            i <= Len(ledger') /\ i <= synced' /\ ledger'[i] = ledger[i]
      BY <1>0, <1>1, <1>2
    <2>2. \A i \in 1..Len(ledger') : ledger'[i].op = o => i <= Len(ledger) /\ ledger[i].op = o
      BY <1>0, <1>1, <1>2
    <2>3. Len(ledger') \in Nat /\ ops'[o].batch = ops[o].batch
          /\ ops'[o].status \in {ops[o].status, "crashed", "unclosed", "unknown"}
      BY <1>0, <1>2, <1>3
    <2>4. QED
      BY <2>1, <2>2, <2>3, StaysDurable
  <1>8. Durable'
    BY <1>4, <1>7 DEF Durable
  <1>9. n \in 0..Len(ledger) /\ synced' \in 0..n /\ ledgerLock' \in Appenders \cup {NoAppender}
    BY <1>0, <1>6
  <1>10. /\ \A i \in 1..n : /\ ledger'[i].id = ledger[i].id /\ ledger'[i].op = ledger[i].op
                            /\ i < n => ledger'[i].end = ledger[i].end
         /\ \A o \in 1..Len(ops) : ops'[o].batch = ops[o].batch
    BY <1>1, <1>3
  <1>11. QED
    BY <1>2, <1>4, <1>6, <1>8, <1>9, <1>10, CutKeeps

-----------------------------------------------------------------------------

THEOREM LedgerInvariant == LedgerSpec => []LedgerInv
  <1>1. ASSUME LedgerInv, [LedgerNext]_ledgerVars PROVE LedgerInv'
    <2>1. CASE UNCHANGED ledgerVars
      BY <1>1, <2>1 DEF ledgerVars, LedgerInv, LedgerTypeOK, OneAppends, Working, Appending, FromBatches,
         StaysReadable, Durable, IsDurable, StandsAt, CarriedBy
    <2>2. CASE LedgerNext
      BY <1>1, <2>2, BeginKeeps, WriteKeeps, MovesOn, RollbackKeeps, CloseKeeps, CrashKeeps, PowerLossKeeps
         DEF LedgerNext
    <2>3. QED
      BY <1>1, <2>1, <2>2
  <1>2. QED
    BY <1>1, LedgerInitInv, PTL DEF LedgerSpec

\* A batch whose append returned stays in the ledger, whole and in order, whatever writes, syncs
\* and rollbacks fail and whatever dies or loses power afterwards; a batch that was refused after
\* a rollback has left no line (appendEventLedgerRecords, appendValidatedEventLedgerRecords).
THEOREM AnswersAreTrueHolds == LedgerSpec => []AnswersAreTrue
  <1>1. LedgerInv => AnswersAreTrue
    BY DEF LedgerInv, Durable, IsDurable, AnswersAreTrue
  <1>2. QED
    BY <1>1, LedgerInvariant, PTL

\* The ledger keeps within its limits, no line follows a damaged one, and no event id is there
\* twice, after any sequence of partial appends (inspectEventLedgerText, assertAppendWithinLimits).
THEOREM StaysReadableHolds == LedgerSpec => []StaysReadable
  <1>1. LedgerInv => StaysReadable
    BY DEF LedgerInv
  <1>2. QED
    BY <1>1, LedgerInvariant, PTL

-----------------------------------------------------------------------------
(* AssistedProposals: the records of a batch.                              *)

\* A non-empty set of numbers up to N has a greatest member.
LEMMA GreatestMember ==
  ASSUME NEW N \in Nat, NEW S \in SUBSET (0..N), S # {}
  PROVE  \E n \in S : \A m \in S : m <= n
  <1> DEFINE T == {N - n : n \in S}
  <1>1. \A n \in S : n \in 0..N /\ N - n \in Nat
    OBVIOUS
  <1>2. T \in SUBSET Nat /\ T # {}
    BY <1>1
  <1>3. \A m \in S : N - m \in T
    OBVIOUS
  <1>4. \A k \in T : \E n \in S : k = N - n
    OBVIOUS
  <1> HIDE DEF T
  <1>5. PICK k \in T : \A l \in T : k <= l
    BY <1>2, LeastMember
  <1>6. PICK n \in S : k = N - n
    BY <1>4
  <1>7. \A m \in S : N - n <= N - m
    BY <1>3, <1>5, <1>6
  <1>8. QED
    BY <1>1, <1>7

\* The last record of a file among those of b, if it has any.
SpokenOf(b, f) == \E i \in 1..Len(b) : b[i].file = f
IsLast(b, f, i) == i \in 1..Len(b) /\ b[i].file = f /\ \A k \in 1..Len(b) : b[k].file = f => k <= i
LastRecord(b, f) == b[CHOOSE i \in 1..Len(b) : IsLast(b, f, i)]
HasRecord(b, f, t, is) == \E i \in 1..Len(b) : b[i] = [file |-> f, try |-> t, is |-> is]
IsOpen(b, f, t) == HasRecord(b, f, t, "prepared") /\ ~HasRecord(b, f, t, "committed")
                     /\ ~HasRecord(b, f, t, "rolled_back")

\* The records of a file are in the order of the attempts, each begins with "prepared", only
\* the last one may be unsettled, and the first file is in every attempt.
InOrder(b) ==
  /\ \A i, k \in 1..Len(b) : i <= k /\ b[i].file = b[k].file => b[i].try <= b[k].try
  /\ \A i \in 1..Len(b) : HasRecord(b, b[i].file, b[i].try, "prepared")
OpenIsLast(b) == \A f \in Files, t \in Tries :
  IsOpen(b, f, t) <=> SpokenOf(b, f) /\ LastRecord(b, f) = [file |-> f, try |-> t, is |-> "prepared"]
FirstLeads(b) == \A f \in Files : SpokenOf(b, f) =>
  /\ SpokenOf(b, 1) /\ LastRecord(b, f).try <= LastRecord(b, 1).try
  /\ LastRecord(b, f).is # "rolled_back" => LastRecord(b, f).try = LastRecord(b, 1).try
BatchOK(b) == b \in Seq(BatchLine) /\ InOrder(b) /\ OpenIsLast(b) /\ FirstLeads(b)

\* The lines x say once of each of the files fs, and of no other, what became of it.
Say(x, fs, t, is) ==
  /\ x \in Seq(BatchLine) /\ fs \subseteq Files
  /\ \A i \in 1..Len(x) : x[i] = [file |-> x[i].file, try |-> t, is |-> is] /\ x[i].file \in fs
  /\ \A f \in fs : \E i \in 1..Len(x) : x[i].file = f

LEMMA LastExists ==
  ASSUME NEW b \in Seq(BatchLine), NEW f, SpokenOf(b, f)
  PROVE  /\ \E i \in 1..Len(b) : IsLast(b, f, i) /\ LastRecord(b, f) = b[i]
         /\ LastRecord(b, f) \in BatchLine /\ LastRecord(b, f).file = f
  <1> DEFINE of == {i \in 1..Len(b) : b[i].file = f}
  <1>1. Len(b) \in Nat /\ of \in SUBSET (0..Len(b)) /\ of # {} /\ of \subseteq 1..Len(b)
    BY DEF SpokenOf
  <1>2. \E i \in of : \A k \in of : k <= i
    <2> HIDE DEF of
    <2> QED
      BY <1>1, GreatestMember
  <1>3. \E i \in 1..Len(b) : IsLast(b, f, i)
    BY <1>2 DEF IsLast
  <1> DEFINE last == CHOOSE i \in 1..Len(b) : IsLast(b, f, i)
  <1>4. last \in 1..Len(b) /\ IsLast(b, f, last) /\ LastRecord(b, f) = b[last]
    BY <1>3 DEF LastRecord
  <1>5. b[last] \in BatchLine /\ b[last].file = f
    BY <1>4, ElementOfSeq DEF IsLast
  <1>6. QED
    BY <1>4, <1>5

LEMMA LastIsUnique ==
  ASSUME NEW b \in Seq(BatchLine), NEW f, NEW i, IsLast(b, f, i)
  PROVE  SpokenOf(b, f) /\ LastRecord(b, f) = b[i]
  <1>1. SpokenOf(b, f)
    BY DEF SpokenOf, IsLast
  <1>2. PICK k \in 1..Len(b) : IsLast(b, f, k) /\ LastRecord(b, f) = b[k]
    BY <1>1, LastExists
  <1>3. i <= k /\ k <= i /\ i \in 1..Len(b) /\ Len(b) \in Nat
    BY <1>2, LenProperties DEF IsLast
  <1>4. i = k
    BY <1>3
  <1>5. QED
    BY <1>1, <1>2, <1>4

\* What lines that are added say of each file.
LEMMA SayExtends ==
  ASSUME NEW b \in Seq(BatchLine), NEW x, NEW fs, NEW t, NEW is, Say(x, fs, t, is)
  PROVE  /\ b \o x \in Seq(BatchLine)
         /\ \A f \in fs : /\ SpokenOf(b \o x, f)
                          /\ LastRecord(b \o x, f) = [file |-> f, try |-> t, is |-> is]
         /\ \A f : f \notin fs => /\ SpokenOf(b \o x, f) <=> SpokenOf(b, f)
                                  /\ SpokenOf(b, f) => LastRecord(b \o x, f) = LastRecord(b, f)
         /\ \A f, u, js : HasRecord(b \o x, f, u, js) <=>
              HasRecord(b, f, u, js) \/ (f \in fs /\ u = t /\ js = is)
  <1> DEFINE c == b \o x
  <1>1. /\ c \in Seq(BatchLine) /\ Len(c) = Len(b) + Len(x) /\ Len(b) \in Nat /\ Len(x) \in Nat
        /\ \A i \in 1..Len(b) : i \in 1..Len(c) /\ c[i] = b[i]
        /\ \A i \in 1..Len(x) : Len(b) + i \in 1..Len(c) /\ c[Len(b) + i] = x[i]
        /\ \A i \in 1..Len(c) : i \in 1..Len(b) \/ i - Len(b) \in 1..Len(x)
    BY ConcatProperties, LenProperties DEF Say
  <1> HIDE DEF c
  <1>2. \A i \in 1..Len(c) : \/ i \in 1..Len(b) /\ c[i] = b[i]
                             \/ /\ i > Len(b) /\ i - Len(b) \in 1..Len(x) /\ c[i] = x[i - Len(b)]
    <2> TAKE i \in 1..Len(c)
    <2>1. CASE i \in 1..Len(b)
      BY <1>1, <2>1
    <2>2. CASE i - Len(b) \in 1..Len(x)
      <3> DEFINE k == i - Len(b)
      <3>1. k \in 1..Len(x) /\ Len(b) + k = i /\ i > Len(b)
        BY <1>1, <2>2
      <3>2. QED
        BY <1>1, <3>1
    <2>3. QED
      BY <1>1, <2>1, <2>2
  <1>3. ASSUME NEW f \in fs
        PROVE  SpokenOf(c, f) /\ LastRecord(c, f) = [file |-> f, try |-> t, is |-> is]
    <2>1. PICK i \in 1..Len(x) : x[i].file = f
      BY DEF Say
    <2>2. Len(b) + i \in 1..Len(c) /\ c[Len(b) + i].file = f
      BY <1>1, <2>1
    <2>3. SpokenOf(c, f)
      BY <2>2 DEF SpokenOf
    <2>4. PICK k \in 1..Len(c) : IsLast(c, f, k) /\ LastRecord(c, f) = c[k]
      BY <1>1, <2>3, LastExists
    <2>5. k >= Len(b) + i /\ c[k].file = f
      BY <2>2, <2>4 DEF IsLast
    <2>6. k > Len(b) /\ k - Len(b) \in 1..Len(x) /\ c[k] = x[k - Len(b)]
      BY <1>1, <1>2, <2>4, <2>5
    <2>7. c[k] = [file |-> f, try |-> t, is |-> is]
      BY <2>5, <2>6 DEF Say
    <2>8. QED
      BY <2>3, <2>4, <2>7
  <1>4. ASSUME NEW f, f \notin fs
        PROVE  /\ SpokenOf(c, f) <=> SpokenOf(b, f)
               /\ SpokenOf(b, f) => LastRecord(c, f) = LastRecord(b, f)
    <2>1. \A i \in 1..Len(x) : x[i].file # f
      BY <1>4 DEF Say
    <2>2. \A i \in 1..Len(c) : c[i].file = f => i \in 1..Len(b) /\ c[i] = b[i]
      BY <1>2, <2>1
    <2>3. SpokenOf(c, f) <=> SpokenOf(b, f)
      BY <1>1, <2>2 DEF SpokenOf
    <2>4. ASSUME SpokenOf(b, f) PROVE LastRecord(c, f) = LastRecord(b, f)
      <3>1. PICK i \in 1..Len(b) : IsLast(b, f, i) /\ LastRecord(b, f) = b[i]
        BY <2>4, LastExists
      <3>2. IsLast(c, f, i) /\ c[i] = b[i]
        BY <1>1, <2>2, <3>1 DEF IsLast
      <3>3. QED
        BY <1>1, <3>1, <3>2, LastIsUnique
    <2>5. QED
      BY <2>3, <2>4
  <1>5. ASSUME NEW f, NEW u, NEW js
        PROVE  HasRecord(c, f, u, js) <=> HasRecord(b, f, u, js) \/ (f \in fs /\ u = t /\ js = is)
    <2>1. HasRecord(b, f, u, js) => HasRecord(c, f, u, js)
      BY <1>1 DEF HasRecord
    <2>2. ASSUME f \in fs, u = t, js = is PROVE HasRecord(c, f, u, js)
      <3>1. PICK i \in 1..Len(x) : x[i].file = f
        BY <2>2 DEF Say
      <3>2. x[i] = [file |-> f, try |-> t, is |-> is]
        BY <3>1 DEF Say
      <3>3. QED
        BY <1>1, <2>2, <3>2 DEF HasRecord
    <2>3. ASSUME HasRecord(c, f, u, js) PROVE HasRecord(b, f, u, js) \/ (f \in fs /\ u = t /\ js = is)
      <3>1. PICK i \in 1..Len(c) : c[i] = [file |-> f, try |-> u, is |-> js]
        BY <2>3 DEF HasRecord
      <3>2. CASE i \in 1..Len(b) /\ c[i] = b[i]
        BY <3>1, <3>2 DEF HasRecord
      <3>3. CASE i - Len(b) \in 1..Len(x) /\ c[i] = x[i - Len(b)]
        <4> DEFINE k == i - Len(b)
        <4>1. x[k] = [file |-> x[k].file, try |-> t, is |-> is] /\ x[k].file \in fs
          BY <3>3 DEF Say
        <4>2. x[k].file = f /\ x[k].try = u /\ x[k].is = js
          BY <3>1, <3>3
        <4>3. x[k].try = t /\ x[k].is = is
          BY <4>1
        <4>4. QED
          BY <4>1, <4>2, <4>3
      <3>4. QED
        BY <1>2, <3>2, <3>3
    <2>4. QED
      BY <2>1, <2>2, <2>3
  <1>6. QED
    BY <1>1, <1>3, <1>4, <1>5 DEF c

\* The lines of a set of files: one for each of them, in order.
LEMMA LinesSay ==
  ASSUME NEW some \in SUBSET Files, NEW t \in Tries, NEW is \in {"prepared", "committed", "rolled_back"}
  PROVE  Say(RecordLines(some, t, is), some, t, is)
  <1> DEFINE upTo(f) == {g \in some : g <= f}
             C == Cardinality(some)
             rank == [f \in some |-> Cardinality(upTo(f))]
             nth(i) == CHOOSE f \in some : Cardinality(upTo(f)) = i
             x == RecordLines(some, t, is)
  <1>1. IsFiniteSet(some) /\ C \in Nat /\ \A f \in some : f \in Nat
    <2>1. IsFiniteSet(Files)
      BY ProposalBounds, FS_Interval DEF Files
    <2>2. IsFiniteSet(some)
      BY <2>1, FS_Subset
    <2>3. QED
      BY <2>2, FS_CardinalityType DEF Files
  <1>2. \A f \in some : rank[f] \in 1..C
    <2> TAKE f \in some
    <2>1. upTo(f) \in SUBSET some /\ f \in upTo(f)
      BY <1>1
    <2>2. IsFiniteSet(upTo(f)) /\ Cardinality(upTo(f)) <= C
      BY <1>1, <2>1, FS_Subset
    <2>3. Cardinality(upTo(f)) \in Nat /\ Cardinality(upTo(f)) # 0
      BY <2>1, <2>2, FS_CardinalityType, FS_EmptySet
    <2>4. QED
      BY <1>1, <2>2, <2>3
  <1>3. \A f, g \in some : f < g => rank[f] # rank[g]
    <2> SUFFICES ASSUME NEW f \in some, NEW g \in some, f < g PROVE rank[f] # rank[g]
      OBVIOUS
    <2>1. upTo(f) \in SUBSET upTo(g) /\ g \in upTo(g) /\ g \notin upTo(f) /\ upTo(g) \in SUBSET some
      BY <1>1
    <2>2. IsFiniteSet(upTo(g))
      BY <1>1, <2>1, FS_Subset
    <2>3. Cardinality(upTo(g)) = Cardinality(upTo(f)) => upTo(g) = upTo(f)
      BY <2>1, <2>2, FS_Subset
    <2>4. QED
      BY <2>1, <2>3
  <1>4. \A f, g \in some : rank[f] = rank[g] => f = g
    <2> HIDE DEF rank
    <2>1. \A f, g \in some : f = g \/ f < g \/ g < f
      BY <1>1
    <2>2. QED
      BY <1>3, <2>1
  <1>5. rank \in Injection(some, 1..C)
    BY <1>2, <1>4 DEF Injection, IsInjective
  <1>6. rank \in Surjection(some, 1..C)
    <2>1. IsFiniteSet(1..C) /\ Cardinality(1..C) = C
      BY <1>1, FS_Interval
    <2>2. QED
      BY <1>5, <2>1, FS_Injection
  <1>7. \A i \in 1..C : nth(i) \in some /\ rank[nth(i)] = i
    <2> TAKE i \in 1..C
    <2>1. \E f \in some : rank[f] = i
      BY <1>6 DEF Surjection
    <2>2. \E f \in some : Cardinality(upTo(f)) = i
      BY <2>1
    <2>3. QED
      BY <2>2
  <1>8. \A f \in some : nth(rank[f]) = f
    BY <1>2, <1>4, <1>7
  <1>9. x = [i \in 1..C |-> [file |-> nth(i), try |-> t, is |-> is]]
    BY DEF RecordLines
  <1> HIDE DEF nth, rank, x
  <1>10. x \in [1..C -> BatchLine]
    BY <1>7, <1>9 DEF BatchLine
  <1>11. x \in Seq(BatchLine) /\ Len(x) = C
    BY <1>1, <1>10
  <1>12. \A i \in 1..Len(x) : x[i] = [file |-> x[i].file, try |-> t, is |-> is] /\ x[i].file \in some
    BY <1>7, <1>9, <1>11
  <1>13. \A f \in some : \E i \in 1..Len(x) : x[i].file = f
    BY <1>2, <1>8, <1>9, <1>11
  <1>14. QED
    BY <1>11, <1>12, <1>13 DEF Say, x

\* The lines of all files stand in the order of the files, so that a part of them is of the first.
LEMMA LinesOfAll ==
  ASSUME NEW t, NEW is
  PROVE  /\ Len(RecordLines(Files, t, is)) = Targets
         /\ \A i \in Files : RecordLines(Files, t, is)[i] = [file |-> i, try |-> t, is |-> is]
  <1>1. \A f \in Files : {g \in Files : g <= f} = 1..f
    BY ProposalBounds DEF Files
  <1>2. Cardinality(Files) = Targets /\ \A f \in Files : Cardinality(1..f) = f
    BY ProposalBounds, FS_Interval DEF Files
  <1>3. \A i \in Files : (CHOOSE f \in Files : Cardinality({g \in Files : g <= f}) = i) = i
    BY <1>1, <1>2
  <1>4. RecordLines(Files, t, is) = [i \in 1..Targets |-> [file |-> i, try |-> t, is |-> is]]
    BY <1>2, <1>3 DEF RecordLines, Files
  <1>5. QED
    BY <1>4, ProposalBounds DEF Files

LEMMA PartSays ==
  ASSUME NEW t \in Tries, NEW is \in {"prepared", "committed", "rolled_back"}, NEW n \in 0..Targets
  PROVE  Say(SubSeq(RecordLines(Files, t, is), 1, n), 1..n, t, is)
  <1> DEFINE x == RecordLines(Files, t, is)
             y == SubSeq(x, 1, n)
  <1>1. Len(x) = Targets /\ \A i \in 1..Targets : x[i] = [file |-> i, try |-> t, is |-> is]
    BY LinesOfAll DEF Files
  <1>2. n \in Nat /\ 1..n \subseteq 1..Targets
    BY ProposalBounds
  <1> HIDE DEF x
  <1>3. \A i \in 1..n : x[i] \in BatchLine
    BY <1>1, <1>2 DEF BatchLine, Files
  <1>4. /\ y \in Seq(BatchLine) /\ Len(y) = IF 1 <= n THEN n - 1 + 1 ELSE 0
        /\ \A i \in 1..(n - 1 + 1) : y[i] = x[1 + i - 1]
    BY <1>2, <1>3, SubSeqProperties
  <1>5. Len(y) = n /\ \A i \in 1..n : y[i] = x[i]
    BY <1>2, <1>4
  <1>6. \A i \in 1..n : y[i] = [file |-> i, try |-> t, is |-> is]
    BY <1>1, <1>2, <1>5
  <1>7. y \in Seq(BatchLine)
    BY <1>4
  <1> HIDE DEF y
  <1>8. Say(y, 1..n, t, is)
    BY <1>2, <1>5, <1>6, <1>7 DEF Say, Files
  <1>9. QED
    BY <1>8 DEF x, y

\* No attempt of a file is behind that of its last record, which has begun.
LEMMA LastHasBegun ==
  ASSUME NEW b, BatchOK(b), NEW f, SpokenOf(b, f)
  PROVE  /\ LastRecord(b, f) \in BatchLine /\ LastRecord(b, f).file = f
         /\ HasRecord(b, f, LastRecord(b, f).try, "prepared")
         /\ HasRecord(b, f, LastRecord(b, f).try, LastRecord(b, f).is)
         /\ \A i \in 1..Len(b) : b[i].file = f => b[i].try <= LastRecord(b, f).try
  <1>1. PICK i \in 1..Len(b) : IsLast(b, f, i) /\ LastRecord(b, f) = b[i]
    BY LastExists DEF BatchOK
  <1>2. b[i] \in BatchLine /\ b[i].file = f
    BY <1>1, ElementOfSeq DEF IsLast, BatchOK
  <1>3. \A k \in 1..Len(b) : b[k].file = f => b[k].try <= b[i].try
    BY <1>1, <1>2 DEF IsLast, BatchOK, InOrder
  <1>4. HasRecord(b, f, b[i].try, "prepared")
    BY <1>2 DEF BatchOK, InOrder
  <1>5. HasRecord(b, f, b[i].try, b[i].is)
    BY <1>2 DEF HasRecord, BatchLine
  <1>6. QED
    BY <1>1, <1>2, <1>3, <1>4, <1>5

\* Where the added lines stand.
LEMMA AddedPlaces ==
  ASSUME NEW b \in Seq(BatchLine), NEW x \in Seq(BatchLine)
  PROVE  \A i \in 1..Len(b \o x) :
           \/ i \in 1..Len(b) /\ (b \o x)[i] = b[i]
           \/ i > Len(b) /\ i - Len(b) \in 1..Len(x) /\ (b \o x)[i] = x[i - Len(b)]
  <1>1. /\ Len(b \o x) = Len(b) + Len(x) /\ Len(b) \in Nat /\ Len(x) \in Nat
        /\ \A i \in 1..(Len(b) + Len(x)) : (b \o x)[i] = IF i <= Len(b) THEN b[i] ELSE x[i - Len(b)]
    BY ConcatProperties, LenProperties
  <1>2. QED
    BY <1>1

\* Lines of an attempt that is not behind any of theirs keep the records in order.
LEMMA SayInOrder ==
  ASSUME NEW b, BatchOK(b), NEW x, NEW fs, NEW t \in Tries, NEW is, Say(x, fs, t, is),
         \A f \in fs : SpokenOf(b, f) => LastRecord(b, f).try <= t,
         \A f \in fs : is = "prepared" \/ HasRecord(b, f, t, "prepared")
  PROVE  InOrder(b \o x)
  <1>3. \A i \in 1..Len(x) : x[i].try = t /\ x[i].is = is /\ x[i].file \in fs
    <2> TAKE i \in 1..Len(x)
    <2>1. PICK f : f = x[i].file
      OBVIOUS
    <2>2. x[i] = [file |-> f, try |-> t, is |-> is] /\ f \in fs
      BY <2>1 DEF Say
    <2>3. QED
      BY <2>1, <2>2
  <1> DEFINE c == b \o x
  <1>1. b \in Seq(BatchLine) /\ x \in Seq(BatchLine) /\ c \in Seq(BatchLine)
    BY SayExtends DEF BatchOK, Say
  <1>2. \A i \in 1..Len(c) :
           \/ i \in 1..Len(b) /\ c[i] = b[i]
           \/ i > Len(b) /\ i - Len(b) \in 1..Len(x) /\ c[i] = x[i - Len(b)]
    BY <1>1, AddedPlaces
  <1>4. \A i \in 1..Len(c) : c[i].try \in Nat /\ c[i] \in BatchLine
    <2> HIDE DEF c
    <2>1. \A i \in 1..Len(c) : c[i] \in BatchLine
      BY <1>1, ElementOfSeq
    <2>2. QED
      BY <2>1 DEF BatchLine, Tries
  <1>5. \A f, u, js : HasRecord(c, f, u, js) <=> HasRecord(b, f, u, js) \/ (f \in fs /\ u = t /\ js = is)
    BY <1>1, SayExtends
  <1> HIDE DEF c
  <1>6. ASSUME NEW i \in 1..Len(c), NEW k \in 1..Len(c), i <= k, c[i].file = c[k].file
        PROVE  c[i].try <= c[k].try
    <2>1. CASE k \in 1..Len(b) /\ c[k] = b[k]
      <3>1. i \in 1..Len(b) /\ c[i] = b[i]
        BY <1>1, <1>2, <1>6, <2>1, LenProperties
      <3>2. QED
        BY <1>6, <2>1, <3>1 DEF BatchOK, InOrder
    <2>2. CASE k - Len(b) \in 1..Len(x) /\ c[k] = x[k - Len(b)]
      <3>1. c[k].try = t /\ c[k].file \in fs
        BY <1>3, <2>2
      <3>2. CASE i \in 1..Len(b) /\ c[i] = b[i]
        <4>1. SpokenOf(b, c[k].file) /\ b[i].file = c[k].file
          BY <1>6, <3>2 DEF SpokenOf
        <4>2. /\ b[i].try <= LastRecord(b, c[k].file).try /\ LastRecord(b, c[k].file).try <= t
              /\ LastRecord(b, c[k].file).try \in Nat
          BY <3>1, <3>2, <4>1, LastHasBegun DEF BatchLine, Tries
        <4>3. QED
          BY <1>4, <3>1, <3>2, <4>2
      <3>3. CASE i - Len(b) \in 1..Len(x) /\ c[i] = x[i - Len(b)]
        BY <1>3, <1>4, <3>1, <3>3
      <3>4. QED
        BY <1>2, <3>2, <3>3
    <2>3. QED
      BY <1>2, <2>1, <2>2
  <1>7. ASSUME NEW i \in 1..Len(c)
        PROVE  HasRecord(c, c[i].file, c[i].try, "prepared")
    <2>1. CASE i \in 1..Len(b) /\ c[i] = b[i]
      BY <1>5, <2>1 DEF BatchOK, InOrder
    <2>2. CASE i - Len(b) \in 1..Len(x) /\ c[i] = x[i - Len(b)]
      BY <1>3, <1>5, <2>2
    <2>3. QED
      BY <1>2, <2>1, <2>2
  <1>8. InOrder(c)
    BY <1>6, <1>7 DEF InOrder
  <1>9. QED
    BY <1>8 DEF c

\* A new attempt begins with a record of the first file, and after all others were settled.
LEMMA PreparedKeeps ==
  ASSUME NEW b, BatchOK(b), NEW x, NEW fs, NEW t \in Tries, Say(x, fs, t, "prepared"),
         fs # {} => 1 \in fs,
         \A f \in Files : SpokenOf(b, f) =>
           LastRecord(b, f).is = "rolled_back" /\ LastRecord(b, f).try < t
  PROVE  BatchOK(b \o x)
  <1> DEFINE c == b \o x
  <1>0. b \in Seq(BatchLine) /\ fs \subseteq Files
    BY DEF BatchOK, Say
  <1>1. /\ c \in Seq(BatchLine)
        /\ \A f \in fs : SpokenOf(c, f) /\ LastRecord(c, f) = [file |-> f, try |-> t, is |-> "prepared"]
        /\ \A f : f \notin fs => /\ SpokenOf(c, f) <=> SpokenOf(b, f)
                                 /\ SpokenOf(b, f) => LastRecord(c, f) = LastRecord(b, f)
        /\ \A f, u, js : HasRecord(c, f, u, js) <=>
             HasRecord(b, f, u, js) \/ (f \in fs /\ u = t /\ js = "prepared")
    BY <1>0, SayExtends
  <1>2. \A f \in Files : SpokenOf(b, f) => LastRecord(b, f) \in BatchLine
    BY LastHasBegun
  <1>3. InOrder(c)
    BY <1>0, <1>1, <1>2, SayInOrder DEF BatchLine, Tries
  <1> HIDE DEF c
  <1>4. ASSUME NEW f \in Files, NEW is PROVE ~HasRecord(b, f, t, is)
    <2>1. SUFFICES ASSUME HasRecord(b, f, t, is) PROVE FALSE
      OBVIOUS
    <2>2. PICK i \in 1..Len(b) : b[i] = [file |-> f, try |-> t, is |-> is]
      BY <2>1 DEF HasRecord
    <2>3. SpokenOf(b, f)
      BY <2>2 DEF SpokenOf
    <2>4. t <= LastRecord(b, f).try /\ LastRecord(b, f).try < t /\ LastRecord(b, f).try \in Nat
      BY <1>2, <2>2, <2>3, LastHasBegun DEF BatchLine, Tries
    <2>5. QED
      BY <2>4 DEF Tries
  <1>5. OpenIsLast(c)
    <2> SUFFICES ASSUME NEW f \in Files, NEW u \in Tries
                 PROVE  IsOpen(c, f, u) <=>
                          SpokenOf(c, f) /\ LastRecord(c, f) = [file |-> f, try |-> u, is |-> "prepared"]
      BY DEF OpenIsLast
    <2>1. IsOpen(b, f, u) <=>
            SpokenOf(b, f) /\ LastRecord(b, f) = [file |-> f, try |-> u, is |-> "prepared"]
      BY DEF BatchOK, OpenIsLast
    <2>2. CASE f \notin fs
      BY <1>1, <2>1, <2>2 DEF IsOpen
    <2>3. CASE f \in fs /\ u = t
      BY <1>1, <1>4, <2>3 DEF IsOpen
    <2>4. CASE f \in fs /\ u # t
      <3>1. IsOpen(c, f, u) <=> IsOpen(b, f, u)
        BY <1>1, <2>4 DEF IsOpen
      <3>2. ~IsOpen(b, f, u)
        BY <2>1
      <3>3. LastRecord(c, f).try = t
        BY <1>1, <2>4
      <3>4. QED
        BY <2>4, <3>1, <3>2, <3>3
    <2>5. QED
      BY <2>2, <2>3, <2>4
  <1>6. FirstLeads(c)
    <2> SUFFICES ASSUME NEW f \in Files, SpokenOf(c, f)
                 PROVE  /\ SpokenOf(c, 1) /\ LastRecord(c, f).try <= LastRecord(c, 1).try
                        /\ LastRecord(c, f).is # "rolled_back" => LastRecord(c, f).try = LastRecord(c, 1).try
      BY DEF FirstLeads
    <2>1. CASE fs = {}
      BY <1>1, <2>1 DEF BatchOK, FirstLeads
    <2>2. CASE fs # {}
      <3>1. SpokenOf(c, 1) /\ LastRecord(c, 1).try = t
        BY <1>1, <2>2
      <3>2. CASE f \in fs
        BY <1>1, <3>1, <3>2 DEF Tries
      <3>3. CASE f \notin fs
        <4>1. SpokenOf(b, f) /\ LastRecord(c, f) = LastRecord(b, f)
          BY <1>1, <3>3
        <4>2. LastRecord(b, f).try \in Nat /\ t \in Nat
          BY <1>2, <4>1 DEF BatchLine, Tries
        <4>3. QED
          BY <3>1, <4>1, <4>2
      <3>4. QED
        BY <3>2, <3>3
    <2>3. QED
      BY <2>1, <2>2
  <1>7. QED
    BY <1>0, <1>1, <1>3, <1>5, <1>6 DEF BatchOK, c

\* Records that settle, or settle anew, the last attempt of files that are not yet rolled back.
LEMMA SettledKeeps ==
  ASSUME NEW b, BatchOK(b), NEW x, NEW fs, NEW t \in Tries, NEW is \in {"committed", "rolled_back"},
         Say(x, fs, t, is),
         \A f \in fs : /\ SpokenOf(b, f) /\ LastRecord(b, f).try = t
                       /\ LastRecord(b, f).is # "rolled_back"
  PROVE  BatchOK(b \o x)
  <1> DEFINE c == b \o x
  <1>0. b \in Seq(BatchLine) /\ fs \subseteq Files
    BY DEF BatchOK, Say
  <1>1. /\ c \in Seq(BatchLine)
        /\ \A f \in fs : SpokenOf(c, f) /\ LastRecord(c, f) = [file |-> f, try |-> t, is |-> is]
        /\ \A f : f \notin fs => /\ SpokenOf(c, f) <=> SpokenOf(b, f)
                                 /\ SpokenOf(b, f) => LastRecord(c, f) = LastRecord(b, f)
        /\ \A f, u, js : HasRecord(c, f, u, js) <=>
             HasRecord(b, f, u, js) \/ (f \in fs /\ u = t /\ js = is)
    BY <1>0, SayExtends
  <1>2. \A f \in fs : HasRecord(b, f, t, "prepared")
    BY <1>0, <1>1, LastHasBegun
  <1>3. InOrder(c)
    BY <1>0, <1>2, SayInOrder DEF Tries
  <1> HIDE DEF c
  <1>4. OpenIsLast(c)
    <2> SUFFICES ASSUME NEW f \in Files, NEW u \in Tries
                 PROVE  IsOpen(c, f, u) <=>
                          SpokenOf(c, f) /\ LastRecord(c, f) = [file |-> f, try |-> u, is |-> "prepared"]
      BY DEF OpenIsLast
    <2>1. IsOpen(b, f, u) <=>
            SpokenOf(b, f) /\ LastRecord(b, f) = [file |-> f, try |-> u, is |-> "prepared"]
      BY DEF BatchOK, OpenIsLast
    <2>2. CASE f \notin fs
      BY <1>1, <2>1, <2>2 DEF IsOpen
    <2>3. CASE f \in fs /\ u = t
      BY <1>1, <2>3 DEF IsOpen
    <2>4. CASE f \in fs /\ u # t
      <3>1. IsOpen(c, f, u) <=> IsOpen(b, f, u)
        BY <1>1, <2>4 DEF IsOpen
      <3>2. ~IsOpen(b, f, u)
        BY <2>1, <2>4
      <3>3. LastRecord(c, f).try = t
        BY <1>1, <2>4
      <3>4. QED
        BY <2>4, <3>1, <3>2, <3>3
    <2>5. QED
      BY <2>2, <2>3, <2>4
  <1>5. FirstLeads(c)
    <2>1. \A f : SpokenOf(c, f) <=> SpokenOf(b, f)
      BY <1>1
    <2>2. \A f \in Files : SpokenOf(b, f) => LastRecord(c, f).try = LastRecord(b, f).try
      BY <1>1
    <2>3. \A f \in Files : SpokenOf(b, f) /\ LastRecord(c, f).is # "rolled_back" =>
            LastRecord(b, f).is # "rolled_back"
      BY <1>1
    <2>4. 1 \in Files
      BY ProposalBounds DEF Files
    <2>5. QED
      BY <2>1, <2>2, <2>3, <2>4 DEF BatchOK, FirstLeads
  <1>6. QED
    BY <1>0, <1>1, <1>3, <1>4, <1>5 DEF BatchOK, c

\* The operators of the model in terms of the last record.
LEMMA GreatestIs ==
  ASSUME NEW S \in SUBSET Nat, NEW m \in S, \A n \in S : n <= m
  PROVE  Max(S) = m
  <1>1. m \in S /\ \A n \in S : m >= n
    OBVIOUS
  <1>2. Max(S) \in S /\ \A n \in S : Max(S) >= n
    BY <1>1 DEF Max
  <1>3. \A p, q \in Nat : p <= q /\ q <= p => p = q
    OBVIOUS
  <1>4. Max(S) \in Nat /\ m \in Nat /\ Max(S) <= m /\ m <= Max(S)
    <2>1. Max(S) \in Nat /\ m \in Nat /\ Max(S) <= m
      BY <1>2
    <2>2. Max(S) >= m
      BY <1>2
    <2>3. QED
      BY <2>1, <2>2
  <1>5. QED
    BY <1>3, <1>4

LEMMA LastTryIs ==
  ASSUME BatchOK(batch), NEW f \in Files
  PROVE  /\ ~SpokenOf(batch, f) => LastTry(f) = 0
         /\ SpokenOf(batch, f) => LastTry(f) = LastRecord(batch, f).try /\ LastTry(f) \in Tries
  <1> DEFINE S == {0} \cup {t \in Tries : InBatch(f, t, "prepared")}
  <1>1. LastTry(f) = Max(S) /\ S \in SUBSET Nat
    BY DEF LastTry, Tries
  <1>2. ASSUME ~SpokenOf(batch, f) PROVE LastTry(f) = 0
    <2>1. S = {0}
      BY <1>2 DEF InBatch, SpokenOf
    <2> HIDE DEF S
    <2>2. QED
      BY <1>1, <2>1, GreatestIs
  <1>3. ASSUME SpokenOf(batch, f) PROVE LastTry(f) = LastRecord(batch, f).try /\ LastTry(f) \in Tries
    <2> DEFINE t == LastRecord(batch, f).try
    <2>1. t \in Tries /\ InBatch(f, t, "prepared")
      <3>1. LastRecord(batch, f) \in BatchLine /\ HasRecord(batch, f, t, "prepared")
        BY <1>3, LastHasBegun
      <3>2. t \in Tries
        BY ONLY <3>1 DEF BatchLine
      <3>3. QED
        BY ONLY <3>1, <3>2 DEF HasRecord, InBatch
    <2>2. \A u \in Tries : InBatch(f, u, "prepared") => u <= t
      BY <1>3, LastHasBegun DEF InBatch
    <2>3. t \in S /\ \A n \in S : n <= t
      BY <2>1, <2>2 DEF Tries
    <2> HIDE DEF S
    <2>4. QED
      BY <1>1, <2>1, <2>3, GreatestIs
  <1>4. QED
    BY <1>2, <1>3

LEMMA TerminalIs ==
  ASSUME BatchOK(batch), NEW f \in Files, SpokenOf(batch, f)
  PROVE  Terminal(f) = LastRecord(batch, f).is
  <1>1. PICK i \in 1..Len(batch) : IsLast(batch, f, i) /\ LastRecord(batch, f) = batch[i]
    BY LastExists DEF BatchOK
  <1> DEFINE S == {k \in 1..Len(batch) : batch[k].file = f /\ batch[k].try = LastTry(f)}
  <1>2. S \in SUBSET Nat /\ i \in S /\ \A k \in S : k <= i
    BY <1>1, LastTryIs DEF IsLast
  <1>3. Max(S) = i
    <2> HIDE DEF S
    <2> QED
      BY <1>2, GreatestIs
  <1>4. QED
    BY <1>1, <1>3 DEF Terminal

LEMMA OpenAre ==
  ASSUME BatchOK(batch), NEW f \in Files, NEW t \in Tries
  PROVE  <<f, t>> \in OpenRecords <=>
           SpokenOf(batch, f) /\ LastRecord(batch, f) = [file |-> f, try |-> t, is |-> "prepared"]
  <1>1. <<f, t>> \in OpenRecords <=> Unsettled(f, t)
    BY DEF OpenRecords
  <1>2. Unsettled(f, t) <=> IsOpen(batch, f, t)
    BY DEF Unsettled, InBatch, IsOpen, HasRecord
  <1>3. QED
    BY <1>1, <1>2 DEF BatchOK, OpenIsLast

-----------------------------------------------------------------------------
(* AssistedProposals: the call that applies a proposal.                    *)

\* What a call knows of the records of the batch.
RunKnows ==
  /\ run.pc = "prepare" => \A f \in Files : SpokenOf(batch, f) =>
       LastRecord(batch, f).is = "rolled_back" /\ LastRecord(batch, f).try < run.try
  /\ run.pc \in {"write", "commit"} => \A f \in Files :
       SpokenOf(batch, f) /\ LastRecord(batch, f) = [file |-> f, try |-> run.try, is |-> "prepared"]
  /\ run.pc = "receipt" => \A f \in Files :
       SpokenOf(batch, f) /\ LastRecord(batch, f) = [file |-> f, try |-> run.try, is |-> "committed"]
  /\ run.pc = "undo" => \A f \in Files :
       /\ SpokenOf(batch, f)
       /\ f \in run.files => /\ LastRecord(batch, f).is \in {"prepared", "committed"}
                             /\ LastRecord(batch, f).try = run.try
       /\ f \notin run.files => /\ LastRecord(batch, f).is = "rolled_back"
                                /\ LastRecord(batch, f).try <= run.try

\* What the records say of a file, while no editor and no interrupted rollback came between.
Untouched == touched = {} /\ "rollback" \notin broken
AsSaid(f) ==
  /\ ~SpokenOf(batch, f) \/ LastRecord(batch, f).is = "rolled_back" => text[f] = "before"
  /\ SpokenOf(batch, f) /\ LastRecord(batch, f).is = "committed" => text[f] = "after"
FilesAsSaid == Untouched =>
  /\ \A f \in Files : text[f] # "other"
  /\ run.pc # "undo" => \A f \in Files : AsSaid(f)
  /\ run.pc = "prepare" => \A f \in Files : text[f] = "before"
  /\ run.pc = "undo" => \A f \in Files : f \in run.todo \/ text[f] = "before"

\* What a call has written so far, and that a second "applied" is never on its way.
AllDone == \A f \in Files : text[f] = "after" \/ f \in touched
AppliesTrue ==
  /\ run.pc # "idle" => ~Wrote("applied") \/ "applied" \in broken
  /\ run.pc = "write" => \A f \in Files : f < run.at => text[f] = "after" \/ f \in touched
  /\ run.pc \in {"commit", "receipt"} => AllDone

ProposalInv ==
  /\ ProposalTypeOK /\ BatchOK(batch) /\ RunKnows
  /\ FilesAsSaid /\ AppliesTrue /\ AppliedIsWhole

LEMMA RunShape ==
  ASSUME NEW w \in Run
  PROVE  /\ w.pc \in {"idle", "prepare", "write", "commit", "receipt", "undo"}
         /\ w = Resting <=> w.pc = "idle"
         /\ w.pc # "idle" => w.try \in Tries
         /\ w.pc = "write" => w = [pc |-> "write", try |-> w.try, at |-> w.at] /\ w.at \in Files
         /\ w.pc = "receipt" => w.fresh \in BOOLEAN
         /\ w.pc = "undo" =>
              /\ w = [pc |-> "undo", try |-> w.try, todo |-> w.todo, files |-> w.files, then |-> w.then]
              /\ w.todo \in SUBSET Files /\ w.files \in SUBSET Files /\ w.then \in {"throw", "retry"}
  BY DEF Run, Resting

LEMMA RestingRun == Resting \in Run /\ Resting.pc = "idle"
  BY DEF Run, Resting

LEMMA EmptyBatch == BatchOK(<<>>) /\ \A f : ~SpokenOf(<<>>, f)
  <1>1. <<>> \in Seq(BatchLine) /\ Len(<<>>) = 0
    BY EmptySeq
  <1>2. 1..0 = {}
    OBVIOUS
  <1>3. (\A f : ~SpokenOf(<<>>, f)) /\ \A f, t, is : ~HasRecord(<<>>, f, t, is)
    BY <1>1, <1>2 DEF SpokenOf, HasRecord
  <1>4. InOrder(<<>>)
    BY <1>1, <1>2 DEF InOrder
  <1>5. OpenIsLast(<<>>) /\ FirstLeads(<<>>)
    BY <1>3 DEF OpenIsLast, FirstLeads, IsOpen
  <1>6. QED
    BY <1>1, <1>3, <1>4, <1>5 DEF BatchOK

LEMMA ProposalInitInv == ProposalInit => ProposalInv
  <1> SUFFICES ASSUME ProposalInit PROVE ProposalInv
    OBVIOUS
  <1>1. ProposalTypeOK
    BY EmptySeq, ProposalBounds DEF ProposalInit, ProposalTypeOK, Run
  <1>2. BatchOK(batch) /\ \A f : ~SpokenOf(batch, f)
    BY EmptyBatch DEF ProposalInit
  <1>3. run.pc = "idle"
    BY RestingRun DEF ProposalInit
  <1>4. ~Wrote("applied")
    BY DEF ProposalInit, Wrote
  <1>5. RunKnows /\ AppliesTrue /\ AppliedIsWhole
    BY <1>3, <1>4 DEF RunKnows, AppliesTrue, AppliedIsWhole
  <1>6. FilesAsSaid
    BY <1>2, <1>3 DEF FilesAsSaid, AsSaid, ProposalInit
  <1>7. QED
    BY <1>1, <1>2, <1>5, <1>6 DEF ProposalInv

LEMMA WroteAppend ==
  ASSUME NEW S, events \in Seq(S), NEW e \in S, events' = Append(events, e)
  PROVE  \A x : Wrote(x)' <=> Wrote(x) \/ x = e
  <1>1. /\ Len(events') = Len(events) + 1 /\ Len(events) \in Nat /\ events'[Len(events) + 1] = e
        /\ \A i \in 1..Len(events) : events'[i] = events[i]
    OBVIOUS
  <1>2. \A i \in 1..Len(events') : i \in 1..Len(events) \/ i = Len(events) + 1
    BY <1>1
  <1>3. QED
    BY <1>1, <1>2 DEF Wrote

\* A line of the proposals' journal other than "applied" changes nothing of this.
LEMMA OtherLineKeeps ==
  ASSUME ProposalInv, NEW e \in Decisions \cup {"evaluation", "revoked"}, events' = Append(events, e),
         UNCHANGED <<batch, text, run, touched, broken, misses>>
  PROVE  ProposalInv'
  <1> DEFINE S == Decisions \cup {"applied", "evaluation", "revoked"}
  <1>1. e \in S /\ e # "applied" /\ events \in Seq(S)
    BY DEF Decisions, ProposalInv, ProposalTypeOK
  <1>2. Wrote("applied")' <=> Wrote("applied")
    BY <1>1, WroteAppend
  <1>3. events' \in Seq(S)
    BY <1>1
  <1>4. ProposalTypeOK'
    BY <1>3 DEF ProposalInv, ProposalTypeOK
  <1>5. BatchOK(batch)' /\ RunKnows' /\ FilesAsSaid'
    BY DEF ProposalInv, RunKnows, FilesAsSaid, Untouched, AsSaid
  <1>6. AppliesTrue' /\ AppliedIsWhole'
    BY <1>2 DEF ProposalInv, AppliesTrue, AllDone, AppliedIsWhole
  <1>7. QED
    BY <1>4, <1>5, <1>6 DEF ProposalInv

LEMMA DecideKeeps == ASSUME ProposalInv, NEW d \in Decisions, Decide(d) PROVE ProposalInv'
  BY OtherLineKeeps DEF Decide

LEMMA FollowKeeps == ASSUME ProposalInv, NEW e \in {"evaluation", "revoked"}, Follow(e) PROVE ProposalInv'
  BY OtherLineKeeps DEF Follow

\* The start of an attempt: the files are as approved, and their records are settled.
LEMMA StartCases ==
  ASSUME NEW try
  PROVE  \/ Start(try) = Resting
         \/ /\ Start(try) = [pc |-> "prepare", try |-> try] /\ try \in Tries
            /\ \A f \in Files : text[f] = "before"
  BY DEF Start

LEMMA ApplyProposalKeeps == ASSUME ProposalInv, ApplyProposal PROVE ProposalInv'
  <1>1. UNCHANGED <<events, batch, text, touched, broken, misses>> /\ OpenRecords = {} /\ ~Wrote("applied")
        /\ run.pc = "idle" /\ run' # Resting
    BY DEF ApplyProposal, NoRun
  <1>2. BatchOK(batch) /\ ProposalTypeOK
    BY DEF ProposalInv
  <1>3. 1 \in Files /\ Tries \subseteq Nat
    BY ProposalBounds DEF Files, Tries
  <1>4. \A f \in Files : SpokenOf(batch, f) =>
          /\ LastRecord(batch, f) \in BatchLine /\ LastRecord(batch, f).file = f
          /\ LastTry(f) = LastRecord(batch, f).try /\ LastTry(f) \in Tries
          /\ Terminal(f) = LastRecord(batch, f).is /\ Terminal(f) \in {"committed", "rolled_back"}
    <2> SUFFICES ASSUME NEW f \in Files, SpokenOf(batch, f)
                 PROVE  /\ LastRecord(batch, f) \in BatchLine /\ LastRecord(batch, f).file = f
                        /\ LastTry(f) = LastRecord(batch, f).try /\ LastTry(f) \in Tries
                        /\ Terminal(f) = LastRecord(batch, f).is /\ Terminal(f) \in {"committed", "rolled_back"}
      OBVIOUS
    <2>1. LastRecord(batch, f) \in BatchLine /\ LastRecord(batch, f).file = f
      BY <1>2, LastHasBegun
    <2>2. LastTry(f) = LastRecord(batch, f).try /\ LastTry(f) \in Tries /\ Terminal(f) = LastRecord(batch, f).is
      BY <1>2, LastTryIs, TerminalIs
    <2>3. <<f, LastTry(f)>> \notin OpenRecords
      BY <1>1
    <2>4. LastRecord(batch, f) # [file |-> f, try |-> LastTry(f), is |-> "prepared"]
      BY <1>2, <2>2, <2>3, OpenAre
    <2>5. LastRecord(batch, f).is # "prepared"
      BY <2>1, <2>2, <2>4 DEF BatchLine
    <2>6. QED
      BY <2>1, <2>2, <2>5 DEF BatchLine
  <1>5. Reconcilable => \A f \in Files : SpokenOf(batch, f) /\ text[f] = IF Terminal(f) = "committed" THEN "after" ELSE "before"
    BY <1>2, LastTryIs DEF Reconcilable
  <1>6. \A f \in Files : SpokenOf(batch, f) => LastTry(f) <= LastTry(1) /\ (Terminal(f) = "committed" => LastTry(f) = LastTry(1))
    BY <1>2, <1>3, <1>4 DEF BatchOK, FirstLeads
  <1>7. \/ batch = <<>> /\ run' = Start(1)
        \/ Reconcilable /\ AllCommitted /\ run' = [pc |-> "receipt", try |-> LastTry(1), fresh |-> FALSE]
        \/ Reconcilable /\ {f \in Files : Terminal(f) = "committed"} = {} /\ run' = Start(LastTry(1) + 1)
        \/ /\ Reconcilable
           /\ run' = [pc |-> "undo", try |-> LastTry(1), todo |-> {f \in Files : Terminal(f) = "committed"},
                      files |-> {f \in Files : Terminal(f) = "committed"}, then |-> "retry"]
    BY <1>1 DEF ApplyProposal
  <1>8. SUFFICES ASSUME run' \in Run, RunKnows', run'.pc \in {"prepare", "receipt", "undo"},
                        run'.pc = "receipt" => AllDone,
                        run'.pc = "prepare" => \A f \in Files : text[f] = "before",
                        run'.pc = "undo" => \A f \in Files : f \in run'.todo \/ text[f] = "before"
                 PROVE  ProposalInv'
    <2>1. CASE batch = <<>> /\ run' = Start(1)
      <3>1. run' = [pc |-> "prepare", try |-> 1] /\ 1 \in Tries /\ \A f \in Files : text[f] = "before"
        BY <1>1, <2>1, StartCases
      <3>2. \A f : ~SpokenOf(batch', f)
        BY <1>1, <2>1, EmptyBatch
      <3>3. run' \in Run /\ RunKnows'
        BY <3>1, <3>2 DEF Run, RunKnows
      <3>4. QED
        BY <1>8, <3>1, <3>3
    <2>2. CASE Reconcilable /\ AllCommitted /\ run' = [pc |-> "receipt", try |-> LastTry(1), fresh |-> FALSE]
      <3>1. \A f \in Files : /\ SpokenOf(batch, f) /\ Terminal(f) = "committed" /\ text[f] = "after"
                             /\ LastTry(f) = LastTry(1)
        BY <1>5, <1>6, <2>2 DEF AllCommitted
      <3>2. LastTry(1) \in Tries /\ run' \in Run
        BY <1>3, <1>4, <2>2, <3>1 DEF Run
      <3>3. \A f \in Files : LastRecord(batch, f) = [file |-> f, try |-> LastTry(1), is |-> "committed"]
        BY <1>4, <3>1 DEF BatchLine
      <3>4. RunKnows'
        BY <1>1, <2>2, <3>1, <3>3 DEF RunKnows
      <3>5. QED
        BY <1>8, <2>2, <3>1, <3>2, <3>4 DEF AllDone
    <2>3. CASE Reconcilable /\ {f \in Files : Terminal(f) = "committed"} = {} /\ run' = Start(LastTry(1) + 1)
      <3>1. run' = [pc |-> "prepare", try |-> LastTry(1) + 1] /\ LastTry(1) + 1 \in Tries /\ \A f \in Files : text[f] = "before"
        BY <1>1, <2>3, StartCases
      <3>2. \A f \in Files : /\ SpokenOf(batch, f) /\ LastRecord(batch, f).is = "rolled_back"
                             /\ LastRecord(batch, f).try <= LastTry(1)
        BY <1>4, <1>5, <1>6, <2>3
      <3>3. \A f \in Files : LastRecord(batch, f).try < LastTry(1) + 1
        <4>1. \A f \in Files : LastRecord(batch, f).try \in Nat /\ LastTry(1) \in Nat
          BY <1>3, <1>4, <3>2
        <4>2. \A p, q \in Nat : p <= q => p < q + 1
          OBVIOUS
        <4>3. QED
          BY <3>2, <4>1, <4>2
      <3>4. run' \in Run /\ RunKnows'
        BY <1>1, <3>1, <3>2, <3>3 DEF Run, RunKnows
      <3>5. QED
        BY <1>8, <3>1, <3>4
    <2>4. CASE /\ Reconcilable
               /\ run' = [pc |-> "undo", try |-> LastTry(1), todo |-> {f \in Files : Terminal(f) = "committed"},
                          files |-> {f \in Files : Terminal(f) = "committed"}, then |-> "retry"]
      <3>1. \A f \in Files : SpokenOf(batch, f)
        BY <1>5, <2>4
      <3>2. LastTry(1) \in Tries /\ run' \in Run
        BY <1>3, <1>4, <2>4, <3>1 DEF Run
      <3>3. /\ run'.pc = "undo" /\ run'.try = LastTry(1)
            /\ run'.todo = {f \in Files : Terminal(f) = "committed"}
            /\ run'.files = {f \in Files : Terminal(f) = "committed"}
        BY <2>4
      <3>4. RunKnows'
        BY <1>1, <1>4, <1>6, <3>1, <3>3 DEF RunKnows
      <3>5. \A f \in Files : f \in run'.todo \/ text[f] = "before"
        BY <1>5, <2>4, <3>3
      <3>6. QED
        BY <1>8, <3>2, <3>3, <3>4, <3>5
    <2>5. QED
      BY <1>7, <2>1, <2>2, <2>3, <2>4
  <1>9. ProposalTypeOK'
    BY <1>1, <1>2, <1>8 DEF ProposalTypeOK
  <1>10. FilesAsSaid'
    <2>1. \A f \in Files : AsSaid(f)' <=> AsSaid(f)
      BY <1>1 DEF AsSaid
    <2>2. QED
      BY <1>1, <1>8, <2>1 DEF ProposalInv, FilesAsSaid, Untouched
  <1>11. AppliesTrue' /\ AppliedIsWhole'
    <2>1. ~Wrote("applied")' /\ (AllDone => AllDone')
      BY <1>1 DEF Wrote, AllDone
    <2>2. QED
      BY <1>8, <2>1 DEF AppliesTrue, AppliedIsWhole
  <1>12. QED
    BY <1>1, <1>2, <1>8, <1>9, <1>10, <1>11 DEF ProposalInv

\* Records that are added to the batch while the journal of proposals says nothing.
LEMMA PrepareRecordsKeeps == ASSUME ProposalInv, PrepareRecords PROVE ProposalInv'
  <1> DEFINE x == RecordLines(Files, run.try, "prepared")
  <1>1. UNCHANGED <<events, text, touched, broken, misses>> /\ run.pc = "prepare" /\ batch' = batch \o x
        /\ run' = [pc |-> "write", try |-> run.try, at |-> 1]
    BY DEF PrepareRecords
  <1>2. ProposalTypeOK /\ BatchOK(batch) /\ batch \in Seq(BatchLine) /\ run.try \in Tries
    BY <1>1, RunShape DEF ProposalInv, ProposalTypeOK
  <1>3. Say(x, Files, run.try, "prepared")
    BY <1>2, LinesSay
  <1>4. /\ batch' \in Seq(BatchLine)
        /\ \A f \in Files : SpokenOf(batch', f) /\ LastRecord(batch', f) = [file |-> f, try |-> run.try, is |-> "prepared"]
    BY <1>1, <1>2, <1>3, SayExtends
  <1>5. 1 \in Files
    BY ProposalBounds DEF Files
  <1>6. BatchOK(batch')
    BY <1>1, <1>2, <1>3, <1>5, PreparedKeeps DEF ProposalInv, RunKnows
  <1>7. ProposalTypeOK'
    BY <1>1, <1>2, <1>4, <1>5 DEF ProposalTypeOK, Run
  <1>8. RunKnows'
    BY <1>1, <1>4 DEF RunKnows
  <1>9. FilesAsSaid'
    <2>1. \A f \in Files : AsSaid(f)'
      BY <1>4 DEF AsSaid
    <2>2. QED
      BY <1>1, <2>1 DEF ProposalInv, FilesAsSaid, Untouched
  <1>10. AppliesTrue' /\ AppliedIsWhole'
    <2>1. \A f \in Files : ~(f < 1)
      BY DEF Files
    <2>2. QED
      BY <1>1, <2>1 DEF ProposalInv, AppliesTrue, AppliedIsWhole, Wrote
  <1>11. QED
    BY <1>6, <1>7, <1>8, <1>9, <1>10 DEF ProposalInv

LEMMA CommitRecordsKeeps == ASSUME ProposalInv, CommitRecords PROVE ProposalInv'
  <1> DEFINE x == RecordLines(Files, run.try, "committed")
  <1>1. UNCHANGED <<events, text, touched, broken, misses>> /\ run.pc = "commit" /\ batch' = batch \o x
        /\ run' = [pc |-> "receipt", try |-> run.try, fresh |-> TRUE]
    BY DEF CommitRecords
  <1>2. ProposalTypeOK /\ BatchOK(batch) /\ batch \in Seq(BatchLine) /\ run.try \in Tries
    BY <1>1, RunShape DEF ProposalInv, ProposalTypeOK
  <1>3. Say(x, Files, run.try, "committed")
    BY <1>2, LinesSay
  <1>4. /\ batch' \in Seq(BatchLine)
        /\ \A f \in Files : SpokenOf(batch', f) /\ LastRecord(batch', f) = [file |-> f, try |-> run.try, is |-> "committed"]
    BY <1>1, <1>2, <1>3, SayExtends
  <1>5. BatchOK(batch')
    BY <1>1, <1>2, <1>3, SettledKeeps DEF ProposalInv, RunKnows
  <1>6. ProposalTypeOK'
    BY <1>1, <1>2, <1>4 DEF ProposalTypeOK, Run
  <1>7. RunKnows'
    BY <1>1, <1>4 DEF RunKnows
  <1>8. AllDone
    BY <1>1 DEF ProposalInv, AppliesTrue
  <1>9. FilesAsSaid'
    <2>1. Untouched => \A f \in Files : text'[f] = "after"
      BY <1>1, <1>8 DEF AllDone, Untouched
    <2>2. \A f \in Files : LastRecord(batch', f).is = "committed" /\ SpokenOf(batch', f)
      BY <1>4
    <2>3. Untouched => \A f \in Files : AsSaid(f)'
      BY <2>1, <2>2 DEF AsSaid
    <2>4. QED
      BY <1>1, <2>3 DEF ProposalInv, FilesAsSaid, Untouched
  <1>10. AppliesTrue' /\ AppliedIsWhole'
    BY <1>1, <1>8 DEF ProposalInv, AppliesTrue, AppliedIsWhole, Wrote, AllDone
  <1>11. QED
    BY <1>5, <1>6, <1>7, <1>9, <1>10 DEF ProposalInv

LEMMA WriteNextKeeps == ASSUME ProposalInv, WriteNext PROVE ProposalInv'
  <1>1. UNCHANGED <<events, batch, touched, broken, misses>> /\ run.pc = "write"
        /\ text' = [text EXCEPT ![run.at] = "after"]
        /\ run' = IF run.at = Targets THEN [pc |-> "commit", try |-> run.try] ELSE [run EXCEPT !.at = @ + 1]
    BY DEF WriteNext
  <1>2. ProposalTypeOK /\ BatchOK(batch)
    BY DEF ProposalInv
  <1>3. run = [pc |-> "write", try |-> run.try, at |-> run.at] /\ run.try \in Tries /\ run.at \in Files
    BY <1>1, <1>2, RunShape DEF ProposalTypeOK
  <1>4. \/ run.at = Targets /\ run' = [pc |-> "commit", try |-> run.try]
        \/ run.at # Targets /\ run' = [pc |-> "write", try |-> run.try, at |-> run.at + 1] /\ run.at + 1 \in Files
    <2>1. run.at # Targets => run.at + 1 \in Files
      BY <1>3, ProposalBounds DEF Files
    <2>2. run.at # Targets => [run EXCEPT !.at = @ + 1] = [pc |-> "write", try |-> run.try, at |-> run.at + 1]
      BY <1>3
    <2>3. QED
      BY <1>1, <2>1, <2>2
  <1>5. /\ text' \in [Files -> {"before", "after", "other"}] /\ text'[run.at] = "after"
        /\ \A f \in Files : f # run.at => text'[f] = text[f]
    BY <1>1, <1>2, <1>3 DEF ProposalTypeOK
  <1>6. ProposalTypeOK'
    BY <1>1, <1>2, <1>3, <1>4, <1>5 DEF ProposalTypeOK, Run
  <1>7. RunKnows'
    BY <1>1, <1>3, <1>4 DEF ProposalInv, RunKnows
  <1>8. \A f \in Files : f < run.at => text[f] = "after" \/ f \in touched
    BY <1>1 DEF ProposalInv, AppliesTrue
  <1>9. \A f \in Files : f < run.at \/ f = run.at => text'[f] = "after" \/ f \in touched'
    BY <1>1, <1>5, <1>8
  <1>10. AppliesTrue'
    <2>1. run.at = Targets => \A f \in Files : f < run.at \/ f = run.at
      BY ProposalBounds DEF Files
    <2>2. \A f \in Files : f < run.at + 1 => f < run.at \/ f = run.at
      BY <1>3 DEF Files
    <2>3. Wrote("applied")' <=> Wrote("applied")
      BY <1>1 DEF Wrote
    <2>4. QED
      BY <1>1, <1>4, <1>9, <2>1, <2>2, <2>3 DEF ProposalInv, AppliesTrue, AllDone
  <1>11. AppliedIsWhole'
    BY <1>1 DEF ProposalInv, AppliesTrue, AppliedIsWhole, Wrote
  <1>12. FilesAsSaid'
    <2>1. \A f \in Files : SpokenOf(batch, f) /\ LastRecord(batch, f).is = "prepared"
      BY <1>1 DEF ProposalInv, RunKnows
    <2>2. \A f \in Files : AsSaid(f)'
      BY <1>1, <2>1 DEF AsSaid
    <2>3. Untouched' => \A f \in Files : text'[f] # "other"
      BY <1>1, <1>5 DEF ProposalInv, FilesAsSaid, Untouched
    <2>4. run'.pc \in {"write", "commit"}
      BY <1>4
    <2>5. QED
      BY <2>2, <2>3, <2>4 DEF FilesAsSaid
  <1>13. QED
    BY <1>1, <1>2, <1>6, <1>7, <1>10, <1>11, <1>12 DEF ProposalInv

\* A call that ends, where it may, leaves files that are as the records say.
LEMMA CallEnds ==
  ASSUME ProposalInv, run' = Resting, UNCHANGED <<events, text, touched>>, broken \subseteq broken',
         ProposalTypeOK', BatchOK(batch'), Untouched' => \A f \in Files : AsSaid(f)'
  PROVE  ProposalInv'
  <1>1. run'.pc = "idle"
    BY RestingRun
  <1>2. RunKnows'
    BY <1>1 DEF RunKnows
  <1>3. FilesAsSaid'
    BY <1>1 DEF ProposalInv, FilesAsSaid, Untouched
  <1>4. AppliesTrue' /\ AppliedIsWhole'
    BY <1>1 DEF ProposalInv, AppliesTrue, AppliedIsWhole, Wrote
  <1>5. QED
    BY <1>2, <1>3, <1>4 DEF ProposalInv

LEMMA MissTyped == ASSUME ProposalTypeOK, Miss PROVE misses' \in 0..MaxMisses
  BY ProposalBounds DEF ProposalTypeOK, Miss

LEMMA PrepareFailsKeeps ==
  ASSUME ProposalInv, NEW there \in BOOLEAN, NEW cleaned \in BOOLEAN, PrepareFails(there, cleaned)
  PROVE  ProposalInv'
  <1> DEFINE x == RecordLines(Files, run.try, "prepared")
             y == RecordLines(Files, run.try, "rolled_back")
             b == batch \o x
  <1>1. /\ UNCHANGED <<events, text, touched, broken>> /\ run.pc = "prepare" /\ Miss /\ run' = Resting
        /\ cleaned => there /\ \A f \in Files : text[f] = "before"
        /\ batch' = (batch \o (IF there THEN x ELSE <<>>)) \o (IF cleaned THEN y ELSE <<>>)
    BY DEF PrepareFails
  <1>2. ProposalTypeOK /\ BatchOK(batch) /\ batch \in Seq(BatchLine) /\ run.try \in Tries /\ misses' \in 0..MaxMisses
    BY <1>1, RunShape, MissTyped DEF ProposalInv, ProposalTypeOK
  <1>3. Say(x, Files, run.try, "prepared") /\ Say(y, Files, run.try, "rolled_back")
    BY <1>2, LinesSay
  <1>4. /\ b \in Seq(BatchLine)
        /\ \A f \in Files : SpokenOf(b, f) /\ LastRecord(b, f) = [file |-> f, try |-> run.try, is |-> "prepared"]
    BY <1>2, <1>3, SayExtends
  <1>5. 1 \in Files
    BY ProposalBounds DEF Files
  <1>6. BatchOK(b)
    BY <1>1, <1>2, <1>3, <1>5, PreparedKeeps DEF ProposalInv, RunKnows
  <1> HIDE DEF b
  <1>7. BatchOK(b \o y)
    BY <1>2, <1>3, <1>4, <1>6, SettledKeeps
  <1>8. \A f \in Files : /\ SpokenOf(b \o y, f)
                         /\ LastRecord(b \o y, f) = [file |-> f, try |-> run.try, is |-> "rolled_back"]
    BY <1>3, <1>4, SayExtends
  <1>9. \/ ~there /\ ~cleaned /\ batch' = batch
        \/ there /\ ~cleaned /\ batch' = b
        \/ there /\ cleaned /\ batch' = b \o y
    <2>1. b \o <<>> = b /\ (batch \o <<>>) \o <<>> = batch
      BY <1>2, <1>4, ConcatEmptySeq
    <2>2. QED
      BY <1>1, <2>1 DEF b
  <1>10. BatchOK(batch')
    BY <1>2, <1>6, <1>7, <1>9
  <1>11. Untouched => \A f \in Files : AsSaid(f)
    BY <1>1 DEF ProposalInv, FilesAsSaid
  <1>12. Untouched' => \A f \in Files : AsSaid(f)'
    <2>1. CASE batch' = batch
      BY <1>1, <1>11, <2>1 DEF AsSaid, Untouched
    <2>2. CASE batch' = b
      <3>1. \A f \in Files : SpokenOf(batch', f) /\ LastRecord(batch', f).is = "prepared"
        BY <1>4, <2>2
      <3>2. QED
        BY <3>1 DEF AsSaid
    <2>3. CASE cleaned /\ batch' = b \o y
      <3> HIDE DEF y
      <3>0. \A f \in Files : LastRecord(b \o y, f).is = "rolled_back"
        BY <1>8
      <3>1. \A f \in Files : LastRecord(batch', f).is = "rolled_back"
        BY <2>3, <3>0
      <3>2. \A f \in Files : text'[f] = "before"
        BY <1>1, <2>3
      <3>3. QED
        BY <3>1, <3>2 DEF AsSaid
    <2>4. QED
      BY <1>9, <2>1, <2>2, <2>3
  <1>13. ProposalTypeOK'
    BY <1>1, <1>2, <1>10, RestingRun DEF ProposalTypeOK, BatchOK
  <1>14. QED
    BY <1>1, <1>10, <1>12, <1>13, CallEnds

\* A rollback that begins knows of every file that it may put back.
LEMMA BackBegins ==
  ASSUME ProposalInv, NEW try \in Tries, Back(try, Files, "throw"),
         UNCHANGED <<text, touched>>, ProposalTypeOK', BatchOK(batch'), broken \subseteq broken',
         ~Wrote("applied")' \/ "applied" \in broken',
         \A f \in Files : SpokenOf(batch', f) /\ LastRecord(batch', f).is \in {"prepared", "committed"}
                          /\ LastRecord(batch', f).try = try
  PROVE  ProposalInv'
  <1>1. run' = [pc |-> "undo", try |-> try, todo |-> Files, files |-> Files, then |-> "throw"]
    BY DEF Back
  <1>2. RunKnows'
    BY <1>1 DEF RunKnows
  <1>3. FilesAsSaid'
    BY <1>1 DEF ProposalInv, FilesAsSaid, Untouched
  <1>4. AppliesTrue' /\ AppliedIsWhole'
    BY <1>1 DEF AppliesTrue, AppliedIsWhole
  <1>5. QED
    BY <1>2, <1>3, <1>4 DEF ProposalInv

LEMMA UndoRun ==
  ASSUME NEW try \in Tries
  PROVE  [pc |-> "undo", try |-> try, todo |-> Files, files |-> Files, then |-> "throw"] \in Run
  BY DEF Run

LEMMA FailsKeeps == ASSUME ProposalInv, NEW there \in BOOLEAN, Fails(there) PROVE ProposalInv'
  <1> DEFINE x == RecordLines(Files, run.try, "committed")
  <1>1. /\ UNCHANGED <<events, text, touched, broken>> /\ run.pc \in {"write", "commit"} /\ Miss
        /\ Back(run.try, Files, "throw") /\ batch' = batch \o (IF there THEN x ELSE <<>>)
    BY DEF Fails
  <1>2. ProposalTypeOK /\ BatchOK(batch) /\ batch \in Seq(BatchLine) /\ run.try \in Tries /\ misses' \in 0..MaxMisses
    BY <1>1, RunShape, MissTyped DEF ProposalInv, ProposalTypeOK
  <1>3. \A f \in Files : SpokenOf(batch, f) /\ LastRecord(batch, f) = [file |-> f, try |-> run.try, is |-> "prepared"]
    BY <1>1 DEF ProposalInv, RunKnows
  <1>4. CASE there
    <2>1. batch' = batch \o x /\ Say(x, Files, run.try, "committed")
      BY <1>1, <1>2, <1>4, LinesSay
    <2>2. BatchOK(batch')
      BY <1>2, <1>3, <2>1, SettledKeeps
    <2>3. \A f \in Files : SpokenOf(batch', f) /\ LastRecord(batch', f) = [file |-> f, try |-> run.try, is |-> "committed"]
      BY <1>2, <2>1, SayExtends
    <2>4. ProposalTypeOK'
      BY <1>1, <1>2, <2>2, UndoRun DEF ProposalTypeOK, BatchOK, Back
    <2>5. \A f \in Files : SpokenOf(batch', f) /\ LastRecord(batch', f).is \in {"prepared", "committed"}
                           /\ LastRecord(batch', f).try = run.try
      BY <2>3
    <2>6. ~Wrote("applied")' \/ "applied" \in broken'
      BY <1>1 DEF ProposalInv, AppliesTrue, Wrote
    <2>7. QED
      BY <1>1, <1>2, <2>2, <2>4, <2>5, <2>6, BackBegins
  <1>5. CASE ~there
    <2>1. batch' = batch
      BY <1>1, <1>2, <1>5, ConcatEmptySeq
    <2>2. ProposalTypeOK'
      BY <1>1, <1>2, <2>1, UndoRun DEF ProposalTypeOK, Back
    <2>3. \A f \in Files : SpokenOf(batch', f) /\ LastRecord(batch', f).is \in {"prepared", "committed"}
                           /\ LastRecord(batch', f).try = run.try
      BY <1>3, <2>1
    <2>4. ~Wrote("applied")' \/ "applied" \in broken'
      BY <1>1 DEF ProposalInv, AppliesTrue, Wrote
    <2>5. QED
      BY <1>1, <1>2, <2>1, <2>2, <2>3, <2>4, BackBegins
  <1>6. QED
    BY <1>4, <1>5

\* The line "applied" is written when every file has its text.
LEMMA AppliedTyped ==
  ASSUME ProposalTypeOK, events' = Append(events, "applied")
  PROVE  events' \in Seq(Decisions \cup {"applied", "evaluation", "revoked"})
  BY DEF ProposalTypeOK

LEMMA AppendAppliedKeeps == ASSUME ProposalInv, AppendApplied PROVE ProposalInv'
  <1>1. /\ run.pc = "receipt" /\ events' = Append(events, "applied") /\ run' = Resting
        /\ UNCHANGED <<batch, text, touched, broken, misses>> /\ run'.pc = "idle"
    BY RestingRun DEF AppendApplied
  <1>2. ProposalTypeOK'
    BY <1>1, AppliedTyped, RestingRun DEF ProposalInv, ProposalTypeOK
  <1>3. RunKnows'
    BY <1>1 DEF RunKnows
  <1>4. AppliesTrue' /\ AppliedIsWhole'
    BY <1>1 DEF ProposalInv, AppliesTrue, AppliedIsWhole, AllDone
  <1>5. FilesAsSaid'
    <2>1. \A f \in Files : AsSaid(f)' <=> AsSaid(f)
      BY <1>1 DEF AsSaid
    <2>2. QED
      BY <1>1, <2>1 DEF ProposalInv, FilesAsSaid, Untouched
  <1>6. QED
    BY <1>1, <1>2, <1>3, <1>4, <1>5 DEF ProposalInv

LEMMA ReceiptFailsKeeps == ASSUME ProposalInv, NEW there \in BOOLEAN, ReceiptFails(there) PROVE ProposalInv'
  <1>1. /\ run.pc = "receipt" /\ Miss /\ UNCHANGED <<batch, text, touched>>
        /\ there => events' = Append(events, "applied") /\ broken' = broken \cup {"applied"}
        /\ ~there => events' = events /\ broken' = broken
        /\ IF run.fresh THEN Back(run.try, Files, "throw") ELSE run' = Resting
    BY DEF ReceiptFails
  <1>2. ProposalTypeOK /\ BatchOK(batch) /\ run.try \in Tries /\ misses' \in 0..MaxMisses
    BY <1>1, RunShape, MissTyped DEF ProposalInv, ProposalTypeOK
  <1>3. run' \in Run
    BY <1>1, <1>2, RestingRun, UndoRun DEF Back
  <1>4. ProposalTypeOK'
    <2>1. events' \in Seq(Decisions \cup {"applied", "evaluation", "revoked"}) /\ broken' \subseteq {"rollback", "applied"}
      BY <1>1, <1>2, AppliedTyped DEF ProposalTypeOK
    <2>2. QED
      BY <1>1, <1>2, <1>3, <2>1 DEF ProposalTypeOK
  <1>5. \A f \in Files : SpokenOf(batch, f) /\ LastRecord(batch, f) = [file |-> f, try |-> run.try, is |-> "committed"]
    BY <1>1 DEF ProposalInv, RunKnows
  <1>6. ~Wrote("applied")' \/ "applied" \in broken'
    BY <1>1 DEF ProposalInv, AppliesTrue, Wrote
  <1>7. CASE run.fresh
    <2>1. \A f \in Files : SpokenOf(batch', f) /\ LastRecord(batch', f).is \in {"prepared", "committed"}
                           /\ LastRecord(batch', f).try = run.try
      BY <1>1, <1>5
    <2>2. Back(run.try, Files, "throw") /\ BatchOK(batch') /\ broken \subseteq broken'
      BY <1>1, <1>2, <1>7
    <2>3. QED
      BY <1>1, <1>2, <1>4, <1>6, <2>1, <2>2, BackBegins
  <1>8. CASE ~run.fresh
    <2>1. run' = Resting /\ run'.pc = "idle"
      BY <1>1, <1>8, RestingRun
    <2>2. RunKnows' /\ AppliesTrue' /\ AppliedIsWhole'
      BY <1>6, <2>1 DEF RunKnows, AppliesTrue, AppliedIsWhole
    <2>3. FilesAsSaid'
      <3>1. \A f \in Files : AsSaid(f)' <=> AsSaid(f)
        BY <1>1 DEF AsSaid
      <3>2. Untouched' => Untouched
        BY <1>1 DEF Untouched
      <3>3. QED
        BY <1>1, <2>1, <3>1, <3>2 DEF ProposalInv, FilesAsSaid
    <2>4. QED
      BY <1>1, <1>2, <1>4, <2>2, <2>3 DEF ProposalInv
  <1>9. QED
    BY <1>7, <1>8

LEMMA RestoreKeeps == ASSUME ProposalInv, Restore PROVE ProposalInv'
  <1> DEFINE f == Max(run.todo)
  <1>1. /\ run.pc = "undo" /\ run.todo # {} /\ UNCHANGED <<events, batch, touched, misses>>
        /\ IF text[f] = "other" THEN run' = Resting /\ broken' = broken \cup {"rollback"} /\ text' = text
           ELSE /\ text' = [text EXCEPT ![f] = "before"] /\ run' = [run EXCEPT !.todo = @ \ {f}]
                /\ broken' = broken
    BY DEF Restore
  <1>2. ProposalTypeOK /\ BatchOK(batch)
    BY DEF ProposalInv
  <1>3. CASE text[f] = "other"
    <2>1. ProposalTypeOK'
      BY <1>1, <1>2, <1>3, RestingRun DEF ProposalTypeOK
    <2>2. ~Untouched'
      BY <1>1, <1>3 DEF Untouched
    <2>3. QED
      BY <1>1, <1>2, <1>3, <2>1, <2>2, CallEnds
  <1>4. CASE text[f] # "other"
    <2>1. /\ run = [pc |-> "undo", try |-> run.try, todo |-> run.todo, files |-> run.files, then |-> run.then]
          /\ run.todo \in SUBSET Files /\ run.files \in SUBSET Files /\ run.try \in Tries
          /\ run.then \in {"throw", "retry"}
      BY <1>1, <1>2, RunShape DEF ProposalTypeOK
    <2> HIDE DEF f
    <2>2. run' = [pc |-> "undo", try |-> run.try, todo |-> run.todo \ {f}, files |-> run.files, then |-> run.then]
      BY <1>1, <1>4, <2>1
    <2>3. run' \in Run
      BY <2>1, <2>2 DEF Run
    <2>4. /\ text' \in [Files -> {"before", "after", "other"}]
          /\ \A g \in Files : text'[g] = IF g = f THEN "before" ELSE text[g]
      BY <1>1, <1>2, <1>4 DEF ProposalTypeOK
    <2>5. ProposalTypeOK'
      BY <1>1, <1>2, <1>4, <2>3, <2>4 DEF ProposalTypeOK
    <2>6. RunKnows'
      BY <1>1, <2>2 DEF ProposalInv, RunKnows
    <2>7. FilesAsSaid'
      BY <1>1, <1>4, <2>2, <2>4 DEF ProposalInv, FilesAsSaid, Untouched
    <2>8. ~Wrote("applied")' \/ "applied" \in broken'
      BY <1>1, <1>4 DEF ProposalInv, AppliesTrue, Wrote
    <2>9. AppliesTrue' /\ AppliedIsWhole'
      BY <2>2, <2>8 DEF AppliesTrue, AppliedIsWhole
    <2>10. QED
      BY <1>1, <1>2, <2>5, <2>6, <2>7, <2>9 DEF ProposalInv
  <1>5. QED
    BY <1>3, <1>4

LEMMA RestoredKeeps == ASSUME ProposalInv, Restored PROVE ProposalInv'
  <1> DEFINE x == RecordLines(run.files, run.try, "rolled_back")
  <1>1. /\ run.pc = "undo" /\ run.todo = {} /\ batch' = batch \o x
        /\ run' = IF run.then = "throw" THEN Resting ELSE Start(run.try + 1)
        /\ UNCHANGED <<events, text, touched, broken, misses>>
    BY DEF Restored
  <1>2. /\ ProposalTypeOK /\ BatchOK(batch) /\ batch \in Seq(BatchLine)
        /\ run.files \in SUBSET Files /\ run.try \in Tries
    BY <1>1, RunShape DEF ProposalInv, ProposalTypeOK
  <1>3. Say(x, run.files, run.try, "rolled_back")
    BY <1>2, LinesSay
  <1>4. \A f \in Files :
          /\ SpokenOf(batch, f)
          /\ f \in run.files => LastRecord(batch, f).is \in {"prepared", "committed"} /\ LastRecord(batch, f).try = run.try
          /\ f \notin run.files => LastRecord(batch, f).is = "rolled_back" /\ LastRecord(batch, f).try <= run.try
    BY <1>1 DEF ProposalInv, RunKnows
  <1>5. BatchOK(batch')
    <2>1. \A f \in run.files : SpokenOf(batch, f) /\ LastRecord(batch, f).try = run.try /\ LastRecord(batch, f).is # "rolled_back"
      BY <1>2, <1>4
    <2>2. QED
      BY <1>1, <1>2, <1>3, <2>1, SettledKeeps
  <1>6. /\ \A f \in run.files : /\ SpokenOf(batch', f)
                                /\ LastRecord(batch', f) = [file |-> f, try |-> run.try, is |-> "rolled_back"]
        /\ \A f : f \notin run.files => /\ SpokenOf(batch', f) <=> SpokenOf(batch, f)
                                        /\ SpokenOf(batch, f) => LastRecord(batch', f) = LastRecord(batch, f)
    BY <1>1, <1>2, <1>3, SayExtends
  <1>7. \A f \in Files : SpokenOf(batch', f) /\ LastRecord(batch', f).is = "rolled_back" /\ LastRecord(batch', f).try <= run.try
    <2> TAKE f \in Files
    <2>1. CASE f \in run.files
      BY <1>2, <1>6, <2>1 DEF Tries
    <2>2. CASE f \notin run.files
      BY <1>4, <1>6, <2>2
    <2>3. QED
      BY <2>1, <2>2
  <1>8. Untouched' => \A f \in Files : AsSaid(f)'
    <2>1. Untouched => \A f \in Files : text[f] = "before"
      BY <1>1 DEF ProposalInv, FilesAsSaid
    <2>2. QED
      BY <1>1, <1>7, <2>1 DEF AsSaid, Untouched
  <1>9. CASE run' = Resting
    <2>1. ProposalTypeOK'
      BY <1>1, <1>2, <1>5, <1>9, RestingRun DEF ProposalTypeOK, BatchOK
    <2>2. QED
      BY <1>1, <1>5, <1>8, <1>9, <2>1, CallEnds
  <1>10. CASE run' # Resting
    <2>1. /\ run' = [pc |-> "prepare", try |-> run.try + 1] /\ run.try + 1 \in Tries
          /\ \A f \in Files : text[f] = "before"
      BY <1>1, <1>10, StartCases
    <2>2. ProposalTypeOK'
      BY <1>1, <1>2, <1>5, <2>1 DEF ProposalTypeOK, BatchOK, Run
    <2>3. \A f \in Files : LastRecord(batch', f).try < run.try + 1
      <3>1. \A f \in Files : LastRecord(batch', f) \in BatchLine
        BY <1>5, <1>7, LastHasBegun
      <3>2. \A f \in Files : LastRecord(batch', f).try \in Nat /\ run.try \in Nat
        BY <1>2, <3>1 DEF BatchLine, Tries
      <3>3. \A p, q \in Nat : p <= q => p < q + 1
        OBVIOUS
      <3>4. QED
        BY <1>7, <3>2, <3>3
    <2>4. RunKnows'
      BY <1>7, <2>1, <2>3 DEF RunKnows
    <2>5. FilesAsSaid'
      BY <1>1, <1>8, <2>1 DEF ProposalInv, FilesAsSaid, Untouched
    <2>6. ~Wrote("applied")' \/ "applied" \in broken'
      BY <1>1 DEF ProposalInv, AppliesTrue, Wrote
    <2>7. AppliesTrue' /\ AppliedIsWhole'
      BY <2>1, <2>6 DEF AppliesTrue, AppliedIsWhole
    <2>8. QED
      BY <1>5, <2>2, <2>4, <2>5, <2>7 DEF ProposalInv
  <1>11. QED
    BY <1>9, <1>10

LEMMA DieKeeps == ASSUME ProposalInv, NEW n \in 0..Targets, Die(n) PROVE ProposalInv'
  <1> DEFINE P == RecordLines(Files, run.try, "prepared")
             C == RecordLines(Files, run.try, "committed")
  <1>1. /\ run.pc # "idle" /\ Miss /\ run' = Resting /\ UNCHANGED <<events, text, touched>>
        /\ broken' = IF run.pc = "undo" THEN broken \cup {"rollback"} ELSE broken
        /\ run.pc = "prepare" => batch' = batch \o SubSeq(P, 1, n)
        /\ run.pc = "commit" => batch' = batch \o SubSeq(C, 1, n)
        /\ run.pc \notin {"prepare", "commit"} => batch' = batch \o SubSeq(<<>>, 1, n) /\ n \in 0..Len(<<>>)
    BY DEF Die, NoRun
  <1>2. ProposalTypeOK /\ BatchOK(batch) /\ batch \in Seq(BatchLine) /\ run.try \in Tries /\ misses' \in 0..MaxMisses
    BY <1>1, RunShape, MissTyped DEF ProposalInv, ProposalTypeOK
  <1>3. SUFFICES ASSUME BatchOK(batch'), Untouched' => \A f \in Files : AsSaid(f)'
                 PROVE  ProposalInv'
    <2>1. CASE run.pc = "prepare"
      <3>1. Say(SubSeq(P, 1, n), 1..n, run.try, "prepared") /\ batch' = batch \o SubSeq(P, 1, n)
        BY <1>1, <1>2, <2>1, PartSays
      <3>2. 1..n # {} => 1 \in 1..n
        BY ProposalBounds
      <3>3. BatchOK(batch')
        BY <1>2, <2>1, <3>1, <3>2, PreparedKeeps DEF ProposalInv, RunKnows
      <3>4. /\ \A f \in 1..n : SpokenOf(batch', f) /\ LastRecord(batch', f) = [file |-> f, try |-> run.try, is |-> "prepared"]
            /\ \A f : f \notin 1..n => /\ SpokenOf(batch', f) <=> SpokenOf(batch, f)
                                       /\ SpokenOf(batch, f) => LastRecord(batch', f) = LastRecord(batch, f)
        BY <1>2, <3>1, SayExtends
      <3>5. Untouched' => \A f \in Files : AsSaid(f)'
        <4> SUFFICES ASSUME Untouched', NEW f \in Files PROVE AsSaid(f)'
          OBVIOUS
        <4>1. AsSaid(f) /\ text[f] = "before"
          BY <1>1, <2>1 DEF ProposalInv, FilesAsSaid, Untouched
        <4>2. CASE f \in 1..n
          <5>1. LastRecord(batch', f).is = "prepared"
            BY <3>4, <4>2
          <5>2. QED
            BY <1>1, <4>1, <5>1 DEF AsSaid
        <4>3. CASE f \notin 1..n
          BY <1>1, <3>4, <4>1, <4>3 DEF AsSaid
        <4>4. QED
          BY <4>2, <4>3
      <3>6. QED
        BY <1>3, <3>3, <3>5
    <2>2. CASE run.pc = "commit"
      <3>1. Say(SubSeq(C, 1, n), 1..n, run.try, "committed") /\ batch' = batch \o SubSeq(C, 1, n)
        BY <1>1, <1>2, <2>2, PartSays
      <3>2. \A f \in Files : SpokenOf(batch, f) /\ LastRecord(batch, f) = [file |-> f, try |-> run.try, is |-> "prepared"]
        BY <2>2 DEF ProposalInv, RunKnows
      <3>3. BatchOK(batch')
        <4>1. 1..n \subseteq Files
          BY ProposalBounds DEF Files
        <4>2. QED
          BY <1>2, <3>1, <3>2, <4>1, SettledKeeps
      <3>4. /\ \A f \in 1..n : SpokenOf(batch', f) /\ LastRecord(batch', f) = [file |-> f, try |-> run.try, is |-> "committed"]
            /\ \A f : f \notin 1..n => /\ SpokenOf(batch', f) <=> SpokenOf(batch, f)
                                       /\ SpokenOf(batch, f) => LastRecord(batch', f) = LastRecord(batch, f)
        BY <1>2, <3>1, SayExtends
      <3>5. Untouched' => \A f \in Files : AsSaid(f)'
        <4> SUFFICES ASSUME Untouched', NEW f \in Files PROVE AsSaid(f)'
          OBVIOUS
        <4>1. text[f] = "after"
          BY <1>1, <2>2 DEF ProposalInv, AppliesTrue, AllDone, Untouched
        <4>2. SpokenOf(batch', f) /\ LastRecord(batch', f).is \in {"prepared", "committed"}
          BY <3>2, <3>4
        <4>3. QED
          BY <1>1, <4>1, <4>2 DEF AsSaid
      <3>6. QED
        BY <1>3, <3>3, <3>5
    <2>3. CASE run.pc \notin {"prepare", "commit"}
      <3>1. batch' = batch
        <4>1. n = 0 /\ batch' = batch \o SubSeq(<<>>, 1, n)
          BY <1>1, <2>3, EmptySeq
        <4>2. SubSeq(<<>>, 1, n) = <<>>
          BY <4>1, SubSeqEmpty
        <4>3. QED
          BY <1>2, <4>1, <4>2, ConcatEmptySeq
      <3>2. Untouched' => \A f \in Files : AsSaid(f)'
        <4> SUFFICES ASSUME Untouched', NEW f \in Files PROVE AsSaid(f)'
          OBVIOUS
        <4>1. run.pc # "undo" /\ Untouched
          BY <1>1 DEF Untouched
        <4>2. AsSaid(f)
          BY <4>1 DEF ProposalInv, FilesAsSaid
        <4>3. QED
          BY <1>1, <3>1, <4>2 DEF AsSaid
      <3>3. QED
        BY <1>2, <1>3, <3>1, <3>2
    <2>4. QED
      BY <2>1, <2>2, <2>3
  <1>4. ProposalTypeOK'
    BY <1>1, <1>2, <1>3, RestingRun DEF ProposalTypeOK, BatchOK
  <1>5. broken \subseteq broken'
    BY <1>1
  <1>6. QED
    BY <1>1, <1>3, <1>4, <1>5, CallEnds

\* A later command settles a record by what its file shows.
LEMMA OneLine ==
  ASSUME NEW b \in Seq(BatchLine), NEW e \in BatchLine
  PROVE  \E x : Append(b, e) = b \o x /\ Say(x, {e.file}, e.try, e.is)
  <1> DEFINE x == Append(<< >>, e)
  <1>1. x \in Seq(BatchLine) /\ Len(x) = 1 /\ x[1] = e
    OBVIOUS
  <1>2. Append(b, e) = b \o x
    OBVIOUS
  <1>3. e = [file |-> e.file, try |-> e.try, is |-> e.is] /\ e.file \in Files
    BY DEF BatchLine
  <1> HIDE DEF x
  <1>4. Say(x, {e.file}, e.try, e.is)
    BY <1>1, <1>3 DEF Say
  <1>5. QED
    BY <1>2, <1>4

LEMMA RecoverRecordKeeps ==
  ASSUME ProposalInv, NEW f \in Files, NEW t \in Tries, RecoverRecord(f, t)
  PROVE  ProposalInv'
  <1> DEFINE is == IF text[f] = "after" THEN "committed" ELSE "rolled_back"
             e == [file |-> f, try |-> t, is |-> is]
  <1>1. /\ run.pc = "idle" /\ <<f, t>> \in OpenRecords /\ text[f] # "other" /\ batch' = Append(batch, e)
        /\ UNCHANGED <<events, text, run, touched, broken, misses>>
    BY DEF RecoverRecord, NoRun
  <1>2. ProposalTypeOK /\ BatchOK(batch) /\ batch \in Seq(BatchLine)
    BY DEF ProposalInv, ProposalTypeOK
  <1>3. e \in BatchLine /\ is \in {"committed", "rolled_back"} /\ e.file = f /\ e.try = t /\ e.is = is
    BY DEF BatchLine
  <1>4. is = "committed" => text[f] = "after"
    OBVIOUS
  <1>5. is = "rolled_back" => text[f] = "before"
    BY <1>1, <1>2 DEF ProposalTypeOK
  <1> HIDE DEF is, e
  <1>6. PICK x : batch' = batch \o x /\ Say(x, {f}, t, is)
    BY <1>1, <1>2, <1>3, OneLine
  <1>7. SpokenOf(batch, f) /\ LastRecord(batch, f) = [file |-> f, try |-> t, is |-> "prepared"]
    BY <1>1, <1>2, OpenAre
  <1>8. BatchOK(batch')
    <2>1. \A g \in {f} : /\ SpokenOf(batch, g) /\ LastRecord(batch, g).try = t
                         /\ LastRecord(batch, g).is # "rolled_back"
      BY <1>7
    <2>2. BatchOK(batch \o x)
      BY <1>2, <1>3, <1>6, <2>1, SettledKeeps
    <2>3. QED
      BY <1>6, <2>2
  <1>9. /\ LastRecord(batch', f) = [file |-> f, try |-> t, is |-> is]
        /\ \A g : g # f => /\ SpokenOf(batch', g) <=> SpokenOf(batch, g)
                           /\ SpokenOf(batch, g) => LastRecord(batch', g) = LastRecord(batch, g)
    BY <1>2, <1>6, SayExtends
  <1>10. run' = Resting
    BY <1>1, <1>2, RunShape DEF ProposalTypeOK
  <1>11. ProposalTypeOK'
    BY <1>1, <1>2, <1>8 DEF ProposalTypeOK, BatchOK
  <1>12. Untouched' => \A g \in Files : AsSaid(g)'
    <2> SUFFICES ASSUME Untouched', NEW g \in Files PROVE AsSaid(g)'
      OBVIOUS
    <2>1. AsSaid(g)
      BY <1>1 DEF ProposalInv, FilesAsSaid, Untouched
    <2>2. CASE g = f
      <3>1. LastRecord(batch', f).is = is /\ SpokenOf(batch', f)
        BY <1>2, <1>6, <1>9, SayExtends
      <3>2. QED
        BY <1>1, <1>3, <1>4, <1>5, <2>2, <3>1 DEF AsSaid
    <2>3. CASE g # f
      BY <1>1, <1>9, <2>1, <2>3 DEF AsSaid
    <2>4. QED
      BY <2>2, <2>3
  <1>13. QED
    BY <1>1, <1>8, <1>10, <1>11, <1>12, CallEnds

\* An editor's change is remembered, so that nothing more is claimed of the file.
LEMMA TouchKeeps == ASSUME ProposalInv, NEW f \in Files, Touch(f) PROVE ProposalInv'
  <1>1. /\ UNCHANGED <<events, batch, run, broken, misses>> /\ touched' = touched \cup {f}
        /\ text' = [text EXCEPT ![f] = "other"] \/ text' = [text EXCEPT ![f] = "before"]
    BY DEF Touch
  <1>2. ProposalTypeOK /\ BatchOK(batch)
    BY DEF ProposalInv
  <1>3. /\ text' \in [Files -> {"before", "after", "other"}]
        /\ \A g \in Files : text'[g] = text[g] \/ g = f
    BY <1>1, <1>2 DEF ProposalTypeOK
  <1>4. ProposalTypeOK'
    BY <1>1, <1>2, <1>3 DEF ProposalTypeOK
  <1>5. ~Untouched'
    BY <1>1 DEF Untouched
  <1>6. RunKnows' /\ FilesAsSaid'
    BY <1>1, <1>5 DEF ProposalInv, RunKnows, FilesAsSaid
  <1>7. \A g \in Files : text[g] = "after" \/ g \in touched => text'[g] = "after" \/ g \in touched'
    BY <1>1, <1>3
  <1>8. Wrote("applied")' <=> Wrote("applied")
    BY <1>1 DEF Wrote
  <1>9. AllDone => AllDone'
    BY <1>7 DEF AllDone
  <1>10. AppliesTrue'
    <2>1. run.pc = "write" => \A g \in Files : g < run.at => text'[g] = "after" \/ g \in touched'
      BY <1>7 DEF ProposalInv, AppliesTrue
    <2>2. QED
      BY <1>1, <1>8, <1>9, <2>1 DEF ProposalInv, AppliesTrue
  <1>11. AppliedIsWhole'
    BY <1>1, <1>7, <1>8 DEF ProposalInv, AppliedIsWhole
  <1>12. QED
    BY <1>1, <1>2, <1>4, <1>6, <1>10, <1>11 DEF ProposalInv

LEMMA ProposalStutter == ASSUME ProposalInv, UNCHANGED proposalVars PROVE ProposalInv'
  <1>1. UNCHANGED <<events, batch, text, run, touched, broken, misses>>
    BY DEF proposalVars
  <1>2. ProposalTypeOK' /\ BatchOK(batch') /\ RunKnows'
    BY <1>1 DEF ProposalInv, ProposalTypeOK, RunKnows
  <1>3. FilesAsSaid' /\ AppliesTrue' /\ AppliedIsWhole'
    BY <1>1 DEF ProposalInv, FilesAsSaid, Untouched, AsSaid, AppliesTrue, AllDone, AppliedIsWhole, Wrote
  <1>4. QED
    BY <1>1, <1>2, <1>3 DEF ProposalInv

LEMMA ProposalStep == ProposalInv /\ [ProposalNext]_proposalVars => ProposalInv'
  <1> SUFFICES ASSUME ProposalInv, [ProposalNext]_proposalVars PROVE ProposalInv'
    OBVIOUS
  <1>1. ASSUME NEW d \in Decisions, Decide(d) PROVE ProposalInv'
    BY <1>1, DecideKeeps
  <1>2. ASSUME NEW e \in {"evaluation", "revoked"}, Follow(e) PROVE ProposalInv'
    BY <1>2, FollowKeeps
  <1>3. CASE ApplyProposal
    BY <1>3, ApplyProposalKeeps
  <1>4. CASE PrepareRecords
    BY <1>4, PrepareRecordsKeeps
  <1>5. CASE WriteNext
    BY <1>5, WriteNextKeeps
  <1>6. CASE CommitRecords
    BY <1>6, CommitRecordsKeeps
  <1>7. CASE AppendApplied
    BY <1>7, AppendAppliedKeeps
  <1>8. CASE Restore
    BY <1>8, RestoreKeeps
  <1>9. CASE Restored
    BY <1>9, RestoredKeeps
  <1>10. ASSUME NEW there \in BOOLEAN, Fails(there) PROVE ProposalInv'
    BY <1>10, FailsKeeps
  <1>11. ASSUME NEW there \in BOOLEAN, ReceiptFails(there) PROVE ProposalInv'
    BY <1>11, ReceiptFailsKeeps
  <1>12. ASSUME NEW there \in BOOLEAN, NEW c \in BOOLEAN, PrepareFails(there, c) PROVE ProposalInv'
    BY <1>12, PrepareFailsKeeps
  <1>13. ASSUME NEW n \in 0..Targets, Die(n) PROVE ProposalInv'
    BY <1>13, DieKeeps
  <1>14. ASSUME NEW f \in Files, Touch(f) PROVE ProposalInv'
    BY <1>14, TouchKeeps
  <1>15. ASSUME NEW f \in Files, NEW t \in Tries, RecoverRecord(f, t) PROVE ProposalInv'
    BY <1>15, RecoverRecordKeeps
  <1>16. CASE UNCHANGED proposalVars
    BY <1>16, ProposalStutter
  <1>17. QED
    BY <1>1, <1>2, <1>3, <1>4, <1>5, <1>6, <1>7, <1>8, <1>9, <1>10, <1>11, <1>12, <1>13, <1>14, <1>15, <1>16
       DEF ProposalNext

LEMMA ProposalInvHolds == ProposalSpec => []ProposalInv
  <1>1. ProposalInit => ProposalInv
    BY ProposalInitInv
  <1>2. ProposalInv /\ [ProposalNext]_proposalVars => ProposalInv'
    BY ProposalStep
  <1>3. QED
    BY <1>1, <1>2, PTL DEF ProposalSpec

\* The state of a proposal stays in its types, for any number of files, attempts and failures.
THEOREM ProposalTypeCorrect == ProposalSpec => []ProposalTypeOK
  <1>1. ProposalInv => ProposalTypeOK
    BY DEF ProposalInv
  <1>2. QED
    BY <1>1, ProposalInvHolds, PTL

\* AppliedIsWhole for any number of files, attempts and failures: when the journal says
\* "applied", every file has its approved text, but for what an editor did to it.
THEOREM AppliedIsWholeHolds == ProposalSpec => []AppliedIsWhole
  <1>1. ProposalInv => AppliedIsWhole
    BY DEF ProposalInv
  <1>2. QED
    BY <1>1, ProposalInvHolds, PTL

\* HalfAppliedIsRepaired for any number of files, attempts and failures: once the records of an
\* apply that failed or died are settled, the files are as its records say.
THEOREM HalfAppliedIsRepairedHolds == ProposalSpec => []HalfAppliedIsRepaired
  <1>1. ASSUME ProposalInv PROVE HalfAppliedIsRepaired
    <2> SUFFICES ASSUME NoRun, OpenRecords = {}, Untouched, \A f \in Files : LastTry(f) # 0, NEW f \in Files
                 PROVE  LastTry(f) # 0 /\ text[f] = IF Terminal(f) = "committed" THEN "after" ELSE "before"
      BY DEF HalfAppliedIsRepaired, Reconcilable, Untouched
    <2>1. BatchOK(batch) /\ AsSaid(f)
      BY <1>1 DEF ProposalInv, FilesAsSaid, NoRun
    <2>2. SpokenOf(batch, f) /\ LastTry(f) \in Tries /\ LastTry(f) = LastRecord(batch, f).try
      BY <2>1, LastTryIs
    <2>3. Terminal(f) = LastRecord(batch, f).is /\ LastRecord(batch, f) \in BatchLine /\ LastRecord(batch, f).file = f
      BY <2>1, <2>2, TerminalIs, LastHasBegun
    <2>4. LastRecord(batch, f) # [file |-> f, try |-> LastTry(f), is |-> "prepared"]
      BY <2>1, <2>2, OpenAre
    <2>5. LastRecord(batch, f).is \in {"committed", "rolled_back"}
      BY <2>2, <2>3, <2>4 DEF BatchLine
    <2>6. QED
      BY <2>1, <2>2, <2>3, <2>5 DEF AsSaid
  <1>2. QED
    BY <1>1, ProposalInvHolds, PTL
==============================================================================
