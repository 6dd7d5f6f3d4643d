------------------------------- MODULE Imports -------------------------------
(*****************************************************************************)
(* `afol evolve import`: a session export of another tool is kept as an      *)
(* artifact directory, as an event of import-events.jsonl and as rows of     *)
(* evolution.db, in that order. The links to local sessions are evaluated    *)
(* before `__evolution-journal__` is taken, the rest happens under it; any   *)
(* step may fail, and the process may die after each.                        *)
(*****************************************************************************)
EXTENDS Naturals

CONSTANTS Importers, Imports, MaxImportFaults

VARIABLES
  linked,      \* the local session and the commit that an export names exist
  artifacts,   \* [Imports -> links in the artifact, None without one]
  importLog,   \* [Imports -> links in the acceptance event, None without one]
  cut,         \* the journal ends in a part of a line
  rows,        \* [Imports -> links in the database]
  importer,    \* [Importers -> the confirmation it works on]
  confirmed,   \* imports whose confirmation has returned
  importFaults

importVars == <<linked, artifacts, importLog, cut, rows, importer, confirmed, importFaults>>

None     == "none"
Links    == {"pending", "auto_verified"}
NoImport == [pc |-> "idle", import |-> None, links |-> None, installed |-> FALSE]
LockedAt == {"install", "accept", "append", "project", "rebuild", "return"}
Calls    == [pc : LockedAt \cup {"wait", "idle"}, import : Imports \cup {None},
             links : Links \cup {None}, installed : BOOLEAN]

ImportTypeOK ==
  /\ linked \in BOOLEAN /\ cut \in BOOLEAN /\ confirmed \subseteq Imports
  /\ {artifacts, importLog, rows} \subseteq [Imports -> Links \cup {None}]
  /\ importer \in [Importers -> Calls] /\ importFaults \in Nat

ImportInit ==
  /\ linked \in BOOLEAN /\ cut = FALSE /\ confirmed = {} /\ importFaults = 0
  /\ artifacts = [i \in Imports |-> None] /\ importLog = artifacts /\ rows = artifacts
  /\ importer = [p \in Importers |-> NoImport]

Free     == \A p \in Importers : importer[p].pc \notin LockedAt
ImportGoto(p, pc) == importer' = [importer EXCEPT ![p].pc = pc]
Return(p) == importer' = [importer EXCEPT ![p] = NoImport]
Spend    == importFaults < MaxImportFaults /\ importFaults' = importFaults + 1

\* Mutated form: the artifact goes whoever has written it.
FailAndRemove(p) ==
  /\ artifacts' = [artifacts EXCEPT ![importer[p].import] = None] /\ Return(p)

\* The catch clause: an artifact that this call has put in place is removed.
Fail(p) ==
  /\ artifacts' = IF importer[p].installed THEN [artifacts EXCEPT ![importer[p].import] = None]
                  ELSE artifacts
  /\ Return(p)

-----------------------------------------------------------------------------

\* Mutated form: the links are read again although the journal has accepted others.
LinksOfNow(p) == importer[p].links

\* What the journal has accepted counts, not what the links would be now.
Accepted(p) == LET e == importLog[importer[p].import] IN IF e = None THEN importer[p].links ELSE e

Preview(p, i) ==
  /\ importer[p] = NoImport
  /\ importer' = [importer EXCEPT ![p] = [pc |-> "wait", import |-> i, installed |-> FALSE,
                                  links |-> IF linked THEN "auto_verified" ELSE "pending"]]
  /\ UNCHANGED <<linked, artifacts, importLog, cut, rows, confirmed, importFaults>>

\* An artifact that is there must be the one this import would write (readArtifact).
Enter(p) ==
  /\ importer[p].pc = "wait" /\ Free
  /\ LET found == artifacts[importer[p].import] IN
     IF cut \/ found \notin {None, Accepted(p)} THEN Return(p)
     ELSE importer' = [importer EXCEPT ![p].pc = IF found = None THEN "install" ELSE "accept",
                               ![p].links = Accepted(p)]
  /\ UNCHANGED <<linked, artifacts, importLog, cut, rows, confirmed, importFaults>>

\* Written beside its place and renamed into it.
Install(p) ==
  /\ importer[p].pc = "install"
  /\ artifacts' = [artifacts EXCEPT ![importer[p].import] = importer[p].links]
  /\ importer' = [importer EXCEPT ![p].pc = "accept", ![p].installed = TRUE]
  /\ UNCHANGED <<linked, importLog, cut, rows, confirmed, importFaults>>

\* validatePayload refuses a verified link that is not eligible for learning, and the links
\* of an import never are.
Accept(p) ==
  /\ importer[p].pc = "accept"
  /\ LET i == importer[p].import IN
     IF rows[i] = None /\ importLog[i] = None
     THEN IF importer[p].links = "pending" THEN ImportGoto(p, "append") /\ artifacts' = artifacts ELSE Fail(p)
     ELSE IF importLog[i] # importer[p].links THEN Fail(p)
     ELSE ImportGoto(p, IF rows[i] = None THEN "rebuild" ELSE "return") /\ artifacts' = artifacts
  /\ UNCHANGED <<linked, importLog, cut, rows, confirmed, importFaults>>

AppendEvent(p) ==
  /\ importer[p].pc = "append" /\ ImportGoto(p, "project")
  /\ importLog' = [importLog EXCEPT ![importer[p].import] = importer[p].links]
  /\ UNCHANGED <<linked, artifacts, cut, rows, confirmed, importFaults>>

\* An append that fails is taken back, or not when that fails too; it may have written a part.
AppendFails(p) ==
  /\ importer[p].pc = "append" /\ Spend /\ Fail(p)
  /\ \/ UNCHANGED <<importLog, cut>>
     \/ cut' = TRUE /\ importLog' = importLog
     \/ importLog' = [importLog EXCEPT ![importer[p].import] = importer[p].links] /\ cut' = cut
  /\ UNCHANGED <<linked, rows, confirmed>>

ProjectRows(p) ==
  /\ importer[p].pc = "project" /\ ImportGoto(p, "return")
  /\ rows' = [rows EXCEPT ![importer[p].import] = importer[p].links]
  /\ UNCHANGED <<linked, artifacts, importLog, cut, confirmed, importFaults>>

\* The event is cut off again; a failure of that is ignored.
ProjectFails(p) ==
  /\ importer[p].pc = "project" /\ Spend /\ Fail(p)
  /\ \/ importLog' = [importLog EXCEPT ![importer[p].import] = None]
     \/ importLog' = importLog
  /\ UNCHANGED <<linked, cut, rows, confirmed>>

Rebuild(p) ==
  /\ importer[p].pc = "rebuild" /\ ImportGoto(p, "return") /\ rows' = importLog
  /\ UNCHANGED <<linked, artifacts, importLog, cut, confirmed, importFaults>>

Confirm(p) ==
  /\ importer[p].pc = "return" /\ Return(p) /\ confirmed' = confirmed \cup {importer[p].import}
  /\ UNCHANGED <<linked, artifacts, importLog, cut, rows, importFaults>>

\* The stage, the rebuild, or the read of the checkpoint after the commit.
StepFails(p) ==
  /\ importer[p].pc \in {"install", "rebuild", "return"} /\ Spend /\ Fail(p)
  /\ UNCHANGED <<linked, importLog, cut, rows, confirmed>>

-----------------------------------------------------------------------------

\* In the middle of an append a part of the line may be in the file.
ImportCrash(p) ==
  /\ importer[p] # NoImport /\ Spend /\ Return(p)
  /\ cut' \in {cut, cut \/ importer[p].pc = "append"}
  /\ UNCHANGED <<linked, artifacts, importLog, rows, confirmed>>

\* repairEvolutionDerivedState, in one transaction.
Repair == Free /\ ~cut /\ rows' = importLog
          /\ UNCHANGED <<linked, artifacts, importLog, cut, importer, confirmed, importFaults>>

LoseDatabase == Free /\ Spend /\ rows' = [i \in Imports |-> None]
                /\ UNCHANGED <<linked, artifacts, importLog, cut, importer, confirmed>>

\* The local session is created, or archived.
Relink == linked' = ~linked
          /\ UNCHANGED <<artifacts, importLog, cut, rows, importer, confirmed, importFaults>>

ImportNext ==
  \/ Repair \/ LoseDatabase \/ Relink
  \/ \E p \in Importers :
       \/ \E i \in Imports : Preview(p, i)
       \/ Enter(p) \/ Install(p) \/ Accept(p) \/ AppendEvent(p) \/ ProjectRows(p)
       \/ Rebuild(p) \/ Confirm(p)
       \/ AppendFails(p) \/ ProjectFails(p) \/ StepFails(p) \/ ImportCrash(p)

ImportSpec == ImportInit /\ [][ImportNext]_importVars

-----------------------------------------------------------------------------

\* The three places never contradict each other, whatever fails and whenever the links are
\* evaluated: rows are of an accepted event, an artifact beside an event has its links, and
\* what was confirmed keeps both.
ImportsAgree == \A i \in Imports :
  /\ rows[i] # None => rows[i] = importLog[i]
  /\ importLog[i] # None => artifacts[i] \in {None, importLog[i]}
  /\ i \in confirmed => importLog[i] # None /\ artifacts[i] # None
=============================================================================
