--------------------------- MODULE EvolutionProofs ---------------------------
(***************************************************************************)
(* The invariants of the evolution components, for every number of         *)
(* processes, records and faults. Imports: ImportsAgree, for which a call  *)
(* between two of its writes must know what it has found or written, and   *)
(* an artifact that a call may remove is confirmed by nobody. Evaluations: *)
(* RatingsStayValid, which rests on the order of the apply journal (what   *)
(* was said keeps its place, and what is said later has a place behind     *)
(* every anchor), and VerdictsNeverGoBack, which needs what a recorded     *)
(* line proves of the journals and what a rater knows that has not yet     *)
(* written its line. DatabaseLeases: CopyIsOfOneMoment, for which a living *)
(* process has a lease of its own that nobody may reclaim, and nobody else *)
(* has the database open while its files are copied. EvolutionApply:       *)
(* OneLiveApply, for which at most one application is either prepared and  *)
(* not settled or live, and TerminalsTellTheTruth, for which a command     *)
(* knows, at its terminal, of the mutation and of the file.                *)
(* EvolutionJournals: AckedIsKept, ReceiptsAreCanonical and                *)
(* RepairMakesWhole, for which rows that claim the place of the journal's  *)
(* lines are these lines, and an append and a repair know what they have   *)
(* written so far.                                                         *)
(***************************************************************************)
EXTENDS Imports, Evaluations, DatabaseLeases, EvolutionApply, EvolutionJournals,
        SequenceTheorems, WellFoundedInduction, TLAPS

-----------------------------------------------------------------------------
(* Imports.                                                                *)

\* What a call knows of its import.
Found(c) ==
  LET i == c.import IN
  /\ c.pc # "idle" => i \in Imports /\ c.links \in Links
  /\ c.installed => c.pc \in LockedAt /\ i \notin confirmed
  /\ c.pc = "install" => artifacts[i] = None /\ importLog[i] \in {None, c.links}
  /\ c.pc = "accept" => artifacts[i] = c.links /\ importLog[i] \in {None, c.links}
  /\ c.pc = "append" => /\ artifacts[i] = c.links
                        /\ importLog[i] = None /\ rows[i] = None /\ i \notin confirmed
  /\ c.pc = "project" => /\ artifacts[i] = c.links /\ importLog[i] = c.links
                         /\ rows[i] = None /\ i \notin confirmed
  /\ c.pc \in {"rebuild", "return"} => artifacts[i] = c.links /\ importLog[i] = c.links
ImporterKnows(p) == Found(importer[p])

OneImporter == \A p, q \in Importers :
  importer[p].pc \in LockedAt /\ importer[q].pc \in LockedAt => p = q

ImportInv == ImportTypeOK /\ OneImporter /\ (\A p \in Importers : ImporterKnows(p)) /\ ImportsAgree

LEMMA NoneIsNoLink == None \notin Links
  BY DEF None, Links

LEMMA ImportInitInv == ImportInit => ImportInv
  <1> SUFFICES ASSUME ImportInit PROVE ImportInv
    OBVIOUS
  <1>1. ImportTypeOK
    BY DEF ImportInit, ImportTypeOK, NoImport, Calls
  <1>2. \A p \in Importers : importer[p].pc = "idle" /\ importer[p].installed = FALSE
    BY DEF ImportInit, NoImport
  <1>3. OneImporter /\ \A p \in Importers : ImporterKnows(p)
    BY <1>2 DEF OneImporter, ImporterKnows, Found, LockedAt
  <1>4. ImportsAgree
    BY DEF ImportInit, ImportsAgree
  <1>5. QED
    BY <1>1, <1>3, <1>4 DEF ImportInv

\* What a call outside the lock knows does not depend on the three places.
LEMMA OutsideKnows ==
  ASSUME ImportInv, NEW q \in Importers, importer[q].pc \notin LockedAt, importer'[q] = importer[q]
  PROVE  ImporterKnows(q)' /\ importer'[q].pc \notin LockedAt
  <1>1. ImporterKnows(q) /\ importer[q] \in Calls
    BY DEF ImportInv, ImportTypeOK
  <1>2. ~importer[q].installed
    BY <1>1 DEF ImporterKnows, Found
  <1>3. QED
    BY <1>1, <1>2 DEF ImporterKnows, Found, LockedAt

\* A step of p while nobody else is under the lock.
LEMMA Alone ==
  ASSUME ImportInv, NEW p \in Importers,
         \A q \in Importers \ {p} : importer'[q] = importer[q] /\ importer[q].pc \notin LockedAt,
         ImportTypeOK', ImporterKnows(p)', ImportsAgree'
  PROVE  ImportInv'
  <1>1. \A q \in Importers \ {p} : importer'[q].pc \notin LockedAt /\ ImporterKnows(q)'
    BY OutsideKnows
  <1>2. OneImporter'
    BY <1>1 DEF OneImporter
  <1>3. QED
    BY <1>1, <1>2 DEF ImportInv

\* A step of a call that ends outside the lock.
LEMMA Apart ==
  ASSUME ImportInv, NEW p \in Importers, \A q \in Importers \ {p} : importer'[q] = importer[q],
         UNCHANGED <<artifacts, importLog, rows, confirmed>>, importer'[p].pc \notin LockedAt,
         ImportTypeOK', ImporterKnows(p)'
  PROVE  ImportInv'
  <1>1. \A q \in Importers \ {p} : ImporterKnows(q)'
    BY DEF ImportInv, ImporterKnows, Found
  <1>2. OneImporter'
    BY DEF ImportInv, OneImporter
  <1>3. ImportsAgree'
    BY DEF ImportInv, ImportsAgree
  <1>4. QED
    BY <1>1, <1>2, <1>3 DEF ImportInv

\* The facts that each of the steps below needs.
LEMMA ImportFacts ==
  ASSUME ImportInv, NEW p \in Importers, importer[p].pc # "idle"
  PROVE  /\ importer \in [Importers -> Calls] /\ importer[p] \in Calls /\ importFaults \in Nat
         /\ artifacts \in [Imports -> Links \cup {None}] /\ importLog \in [Imports -> Links \cup {None}]
         /\ rows \in [Imports -> Links \cup {None}] /\ confirmed \subseteq Imports
         /\ importer[p].import \in Imports /\ importer[p].links \in Links /\ Found(importer[p])
         /\ \A q \in Importers \ {p} : importer[p].pc \in LockedAt => importer[q].pc \notin LockedAt
  BY DEF ImportInv, ImportTypeOK, OneImporter, ImporterKnows, Found

LEMMA PreviewInv ==
  ASSUME ImportInv, NEW p \in Importers, NEW i \in Imports, Preview(p, i)
  PROVE  ImportInv'
  <1>1. importer \in [Importers -> Calls] /\ importFaults \in Nat
    BY DEF ImportInv, ImportTypeOK
  <1> DEFINE c == [pc |-> "wait", import |-> i, installed |-> FALSE,
                   links |-> IF linked THEN "auto_verified" ELSE "pending"]
  <1>2. c \in Calls /\ c.pc = "wait" /\ c.import = i /\ c.links \in Links /\ ~c.installed
    BY DEF Calls, Links
  <1>3. importer' = [importer EXCEPT ![p] = c]
    BY DEF Preview
  <1> HIDE DEF c
  <1>4. importer'[p] = c /\ \A q \in Importers \ {p} : importer'[q] = importer[q]
    BY <1>1, <1>3
  <1>5. ImportTypeOK'
    BY <1>1, <1>2, <1>3 DEF ImportInv, ImportTypeOK, Preview
  <1>6. ImporterKnows(p)' /\ importer'[p].pc \notin LockedAt
    BY <1>2, <1>4 DEF ImporterKnows, Found, LockedAt
  <1>7. QED
    BY <1>4, <1>5, <1>6, Apart DEF Preview

LEMMA EnterInv ==
  ASSUME ImportInv, NEW p \in Importers, Enter(p)
  PROVE  ImportInv'
  <1> DEFINE i == importer[p].import
             c == [importer[p] EXCEPT !.pc = IF artifacts[i] = None THEN "install" ELSE "accept",
                                  !.links = Accepted(p)]
  <1>1. /\ importer \in [Importers -> Calls] /\ importer[p] \in Calls /\ importFaults \in Nat
        /\ artifacts \in [Imports -> Links \cup {None}] /\ importLog \in [Imports -> Links \cup {None}]
        /\ i \in Imports /\ importer[p].links \in Links /\ Found(importer[p])
    BY ImportFacts DEF Enter
  <1>2. \A q \in Importers \ {p} : importer[q].pc \notin LockedAt
    BY DEF Enter, Free
  <1>3. UNCHANGED <<linked, artifacts, importLog, cut, rows, confirmed, importFaults>>
    BY DEF Enter
  <1>4. CASE Return(p)
    <2>1. importer'[p] = NoImport /\ \A q \in Importers \ {p} : importer'[q] = importer[q]
      BY <1>1, <1>4 DEF Return
    <2>2. NoImport \in Calls /\ NoImport.pc = "idle" /\ ~NoImport.installed
      BY DEF NoImport, Calls
    <2>3. ImportTypeOK'
      BY <1>1, <1>3, <1>4, <2>2 DEF ImportInv, ImportTypeOK, Return
    <2>4. ImporterKnows(p)' /\ importer'[p].pc \notin LockedAt
      BY <2>1, <2>2 DEF ImporterKnows, Found, LockedAt
    <2>5. QED
      BY <2>1, <2>3, <2>4, <1>3, Apart
  <1>5. CASE artifacts[i] \in {None, Accepted(p)} /\ importer' = [importer EXCEPT ![p] = c]
    <2>1. Accepted(p) \in Links /\ importLog[i] \in {None, Accepted(p)}
      BY <1>1 DEF Accepted
    <2>2. /\ c \in Calls /\ c.pc = (IF artifacts[i] = None THEN "install" ELSE "accept")
          /\ c.import = i /\ c.links = Accepted(p) /\ c.installed = importer[p].installed
      BY <1>1, <2>1 DEF Calls, LockedAt
    <2>3. ~importer[p].installed
      BY <1>1 DEF Found, Enter, LockedAt
    <2> HIDE DEF c
    <2>4. importer'[p] = c /\ \A q \in Importers \ {p} : importer'[q] = importer[q]
      BY <1>1, <1>5
    <2>5. ImportTypeOK'
      BY <1>1, <1>3, <1>5, <2>2 DEF ImportInv, ImportTypeOK
    <2>6. ImporterKnows(p)'
      <3> DEFINE d == importer'[p]
      <3>1. d.import = i /\ d.links = Accepted(p) /\ ~d.installed
              /\ d.pc = (IF artifacts[i] = None THEN "install" ELSE "accept")
        BY <2>2, <2>3, <2>4
      <3>2. artifacts[i] # None => artifacts[i] = Accepted(p)
        BY <1>5
      <3> HIDE DEF d, i
      <3>3. /\ d.pc # "idle" => d.import \in Imports /\ d.links \in Links
            /\ d.pc = "install" => artifacts[d.import] = None /\ importLog[d.import] \in {None, d.links}
            /\ d.pc = "accept" => artifacts[d.import] = d.links /\ importLog[d.import] \in {None, d.links}
            /\ d.pc \in {"install", "accept"}
        BY <3>1, <3>2, <2>1, <1>1
      <3>4. QED
        BY <3>1, <3>3, <1>3 DEF ImporterKnows, Found, d
    <2>7. ImportsAgree'
      BY <1>3 DEF ImportInv, ImportsAgree
    <2>8. QED
      BY <1>2, <2>4, <2>5, <2>6, <2>7, Alone
  <1>6. QED
    BY <1>4, <1>5 DEF Enter

\* A call that fails leaves an artifact that agrees with the event, or none, and it removes
\* none that was confirmed.
LEMMA FailInv ==
  ASSUME ImportInv, NEW p \in Importers, importer[p].pc \in LockedAt, Fail(p),
         linked' \in BOOLEAN, cut' \in BOOLEAN, importFaults' \in Nat, UNCHANGED <<rows, confirmed>>,
         importLog' \in [Imports -> Links \cup {None}],
         \A j \in Imports \ {importer[p].import} : importLog'[j] = importLog[j],
         importLog'[importer[p].import] \in {None, importer[p].links},
         importer[p].import \in confirmed \/ rows[importer[p].import] # None =>
           importLog'[importer[p].import] = importLog[importer[p].import]
  PROVE  ImportInv'
  <1> DEFINE i == importer[p].import
  <1>1. importer[p].pc # "idle"
    BY DEF LockedAt
  <1>2. /\ importer \in [Importers -> Calls] /\ artifacts \in [Imports -> Links \cup {None}]
        /\ rows \in [Imports -> Links \cup {None}] /\ confirmed \subseteq Imports
        /\ i \in Imports /\ importer[p].links \in Links /\ Found(importer[p])
        /\ \A q \in Importers \ {p} : importer[q].pc \notin LockedAt
    BY <1>1, ImportFacts
  <1>3. importer'[p] = NoImport /\ \A q \in Importers \ {p} : importer'[q] = importer[q]
    BY <1>2 DEF Fail, Return
  <1>4. NoImport \in Calls /\ NoImport.pc = "idle" /\ ~NoImport.installed
    BY DEF NoImport, Calls
  <1>5. /\ artifacts' \in [Imports -> Links \cup {None}]
        /\ \A j \in Imports \ {i} : artifacts'[j] = artifacts[j]
        /\ artifacts'[i] = IF importer[p].installed THEN None ELSE artifacts[i]
    BY <1>2 DEF Fail
  <1>6. ImportTypeOK'
    BY <1>2, <1>4, <1>5 DEF ImportTypeOK, Fail, Return
  <1>7. ImporterKnows(p)' /\ importer'[p].pc \notin LockedAt
    BY <1>3, <1>4 DEF ImporterKnows, Found, LockedAt
  <1>8. ImportsAgree'
    <2>1. artifacts[i] \in {None, importer[p].links}
      BY <1>2 DEF Found, LockedAt
    <2>2. i \in confirmed => ~importer[p].installed
      BY <1>2 DEF Found
    <2>3. \A j \in Imports :
            /\ rows[j] # None => rows[j] = importLog[j]
            /\ importLog[j] # None => artifacts[j] \in {None, importLog[j]}
            /\ j \in confirmed => importLog[j] # None /\ artifacts[j] # None
      BY DEF ImportInv, ImportsAgree
    <2>4. \A j \in Imports \ {i} :
            /\ rows'[j] # None => rows'[j] = importLog'[j]
            /\ importLog'[j] # None => artifacts'[j] \in {None, importLog'[j]}
            /\ j \in confirmed' => importLog'[j] # None /\ artifacts'[j] # None
      BY <2>3, <1>5
    <2>5. /\ rows'[i] # None => rows'[i] = importLog'[i]
          /\ importLog'[i] # None => artifacts'[i] \in {None, importLog'[i]}
          /\ i \in confirmed' => importLog'[i] # None /\ artifacts'[i] # None
      BY <2>1, <2>2, <2>3, <1>2, <1>5
    <2>6. QED
      BY <2>4, <2>5 DEF ImportsAgree
  <1>9. QED
    BY <1>2, <1>3, <1>6, <1>7, <1>8, Alone

LEMMA InstallInv ==
  ASSUME ImportInv, NEW p \in Importers, Install(p)
  PROVE  ImportInv'
  <1> DEFINE i == importer[p].import
             c == importer'[p]
  <1>1. /\ importer \in [Importers -> Calls] /\ importer[p] \in Calls /\ importFaults \in Nat
        /\ artifacts \in [Imports -> Links \cup {None}] /\ importLog \in [Imports -> Links \cup {None}]
        /\ i \in Imports /\ importer[p].links \in Links /\ Found(importer[p])
        /\ \A q \in Importers \ {p} : importer[q].pc \notin LockedAt
    BY ImportFacts DEF Install, LockedAt
  <1>2. /\ c \in Calls /\ c.pc = "accept" /\ c.import = i /\ c.links = importer[p].links
        /\ \A q \in Importers \ {p} : importer'[q] = importer[q]
    BY <1>1 DEF Install, Calls, LockedAt
  <1>3. /\ artifacts' \in [Imports -> Links \cup {None}] /\ artifacts'[i] = c.links
        /\ \A j \in Imports \ {i} : artifacts'[j] = artifacts[j]
        /\ UNCHANGED <<linked, importLog, cut, rows, confirmed, importFaults>>
    BY <1>1, <1>2 DEF Install
  <1>4. artifacts[i] = None /\ importLog[i] \in {None, c.links} /\ i \notin confirmed
    BY <1>1, <1>2, NoneIsNoLink DEF Found, Install, ImportInv, ImportsAgree
  <1>5. importer' \in [Importers -> Calls]
    BY <1>1, <1>2 DEF Install
  <1>6. ImportTypeOK'
    BY <1>3, <1>5 DEF ImportInv, ImportTypeOK
  <1> HIDE DEF i, c
  <1>7. ImporterKnows(p)'
    BY <1>1, <1>2, <1>3, <1>4 DEF ImporterKnows, Found, LockedAt, c
  <1>8. ImportsAgree'
    BY <1>3, <1>4 DEF ImportInv, ImportsAgree
  <1>9. QED
    BY <1>1, <1>2, <1>6, <1>7, <1>8, Alone

\* A call under the lock goes on to another step.
LEMMA GotoFields ==
  ASSUME ImportInv, NEW p \in Importers, importer[p].pc \in LockedAt,
         NEW pc \in LockedAt, ImportGoto(p, pc)
  PROVE  /\ importer' \in [Importers -> Calls] /\ \A q \in Importers \ {p} : importer'[q] = importer[q]
         /\ importer'[p].pc = pc /\ importer'[p].import = importer[p].import
         /\ importer'[p].links = importer[p].links /\ importer'[p].installed = importer[p].installed
  <1>1. importer \in [Importers -> Calls] /\ importer[p] \in Calls
    BY DEF ImportInv, ImportTypeOK
  <1>2. QED
    BY <1>1 DEF ImportGoto, Calls

LEMMA AcceptInv ==
  ASSUME ImportInv, NEW p \in Importers, Accept(p)
  PROVE  ImportInv'
  <1> DEFINE i == importer[p].import
  <1>1. importer[p].pc = "accept" /\ UNCHANGED <<linked, importLog, cut, rows, confirmed, importFaults>>
    BY DEF Accept
  <1>2. importer[p].pc \in LockedAt /\ importer[p].pc # "idle"
    BY <1>1 DEF LockedAt
  <1>3. /\ i \in Imports /\ importer[p].links \in Links /\ Found(importer[p]) /\ importFaults \in Nat
        /\ importLog \in [Imports -> Links \cup {None}]
        /\ \A q \in Importers \ {p} : importer[q].pc \notin LockedAt
    BY <1>2, ImportFacts
  <1>4. artifacts[i] = importer[p].links /\ importLog[i] \in {None, importer[p].links}
    BY <1>1, <1>3 DEF Found
  <1>5. rows[i] # None => rows[i] = importLog[i]
    BY <1>3 DEF ImportInv, ImportsAgree
  <1>6. CASE Fail(p)
    BY <1>1, <1>2, <1>3, <1>4, <1>6, FailInv DEF ImportInv, ImportTypeOK
  <1>7. ASSUME NEW pc \in {"append", "rebuild", "return"}, ImportGoto(p, pc), artifacts' = artifacts,
               pc = "append" => importLog[i] = None /\ rows[i] = None,
               pc # "append" => importLog[i] = importer[p].links
        PROVE  ImportInv'
    <2>1. /\ importer' \in [Importers -> Calls] /\ \A q \in Importers \ {p} : importer'[q] = importer[q]
          /\ importer'[p].pc = pc /\ importer'[p].import = i
          /\ importer'[p].links = importer[p].links /\ importer'[p].installed = importer[p].installed
      BY <1>2, <1>7, GotoFields DEF LockedAt
    <2>2. ImportTypeOK'
      BY <1>1, <1>7, <2>1 DEF ImportInv, ImportTypeOK
    <2>3. importLog[i] = None => i \notin confirmed
      BY <1>3 DEF ImportInv, ImportsAgree
    <2> HIDE DEF i
    <2>4. ImporterKnows(p)'
      BY <1>1, <1>3, <1>4, <1>7, <2>1, <2>3 DEF ImporterKnows, Found, LockedAt, i
    <2>5. ImportsAgree'
      BY <1>1, <1>7 DEF ImportInv, ImportsAgree
    <2>6. QED
      BY <1>3, <2>1, <2>2, <2>4, <2>5, Alone
  <1>8. CASE rows[i] = None /\ importLog[i] = None /\ ImportGoto(p, "append") /\ artifacts' = artifacts
    BY <1>7, <1>8, <1>3, NoneIsNoLink
  <1>9. CASE /\ ~(rows[i] = None /\ importLog[i] = None) /\ importLog[i] = importer[p].links
             /\ artifacts' = artifacts /\ ImportGoto(p, IF rows[i] = None THEN "rebuild" ELSE "return")
    BY <1>7, <1>9
  <1>10. QED
    BY <1>6, <1>8, <1>9 DEF Accept

LEMMA AppendInv ==
  ASSUME ImportInv, NEW p \in Importers, AppendEvent(p)
  PROVE  ImportInv'
  <1> DEFINE i == importer[p].import
  <1>1. /\ importer[p].pc = "append" /\ ImportGoto(p, "project")
        /\ UNCHANGED <<linked, artifacts, cut, rows, confirmed, importFaults>>
    BY DEF AppendEvent
  <1>2. importer[p].pc \in LockedAt /\ importer[p].pc # "idle" /\ "project" \in LockedAt
    BY <1>1 DEF LockedAt
  <1>3. /\ i \in Imports /\ importer[p].links \in Links /\ Found(importer[p])
        /\ importLog \in [Imports -> Links \cup {None}]
        /\ \A q \in Importers \ {p} : importer[q].pc \notin LockedAt
    BY <1>2, ImportFacts
  <1>4. artifacts[i] = importer[p].links /\ rows[i] = None /\ i \notin confirmed
    BY <1>1, <1>3 DEF Found
  <1>5. /\ importer' \in [Importers -> Calls] /\ \A q \in Importers \ {p} : importer'[q] = importer[q]
        /\ importer'[p].pc = "project" /\ importer'[p].import = i
        /\ importer'[p].links = importer[p].links /\ importer'[p].installed = importer[p].installed
    BY <1>1, <1>2, GotoFields
  <1>6. /\ importLog' \in [Imports -> Links \cup {None}] /\ importLog'[i] = importer[p].links
        /\ \A j \in Imports \ {i} : importLog'[j] = importLog[j]
    BY <1>3 DEF AppendEvent
  <1>7. ImportTypeOK'
    BY <1>1, <1>5, <1>6 DEF ImportInv, ImportTypeOK
  <1> HIDE DEF i
  <1>8. ImporterKnows(p)'
    BY <1>1, <1>3, <1>4, <1>5, <1>6 DEF ImporterKnows, Found, LockedAt
  <1>9. ImportsAgree'
    BY <1>1, <1>3, <1>4, <1>6 DEF ImportInv, ImportsAgree
  <1>10. QED
    BY <1>3, <1>5, <1>7, <1>8, <1>9, Alone

LEMMA ProjectInv ==
  ASSUME ImportInv, NEW p \in Importers, ProjectRows(p)
  PROVE  ImportInv'
  <1> DEFINE i == importer[p].import
  <1>1. /\ importer[p].pc = "project" /\ ImportGoto(p, "return")
        /\ UNCHANGED <<linked, artifacts, importLog, cut, confirmed, importFaults>>
    BY DEF ProjectRows
  <1>2. importer[p].pc \in LockedAt /\ importer[p].pc # "idle" /\ "return" \in LockedAt
    BY <1>1 DEF LockedAt
  <1>3. /\ i \in Imports /\ importer[p].links \in Links /\ Found(importer[p])
        /\ rows \in [Imports -> Links \cup {None}]
        /\ \A q \in Importers \ {p} : importer[q].pc \notin LockedAt
    BY <1>2, ImportFacts
  <1>4. artifacts[i] = importer[p].links /\ importLog[i] = importer[p].links
    BY <1>1, <1>3 DEF Found
  <1>5. /\ importer' \in [Importers -> Calls] /\ \A q \in Importers \ {p} : importer'[q] = importer[q]
        /\ importer'[p].pc = "return" /\ importer'[p].import = i
        /\ importer'[p].links = importer[p].links /\ importer'[p].installed = importer[p].installed
    BY <1>1, <1>2, GotoFields
  <1>6. /\ rows' \in [Imports -> Links \cup {None}] /\ rows'[i] = importer[p].links
        /\ \A j \in Imports \ {i} : rows'[j] = rows[j]
    BY <1>3 DEF ProjectRows
  <1>7. ImportTypeOK'
    BY <1>1, <1>5, <1>6 DEF ImportInv, ImportTypeOK
  <1> HIDE DEF i
  <1>8. ImporterKnows(p)'
    <2>1. /\ importer'[p].pc # "idle" => importer'[p].import \in Imports /\ importer'[p].links \in Links
          /\ importer'[p].installed => importer'[p].pc \in LockedAt /\ importer'[p].import \notin confirmed'
      BY <1>1, <1>2, <1>3, <1>5 DEF Found, i
    <2>2. artifacts'[importer'[p].import] = importer'[p].links /\ importLog'[importer'[p].import] = importer'[p].links
      BY <1>1, <1>4, <1>5
    <2>3. QED
      BY <2>1, <2>2, <1>5 DEF ImporterKnows, Found
  <1>9. ImportsAgree'
    BY <1>1, <1>3, <1>4, <1>6 DEF ImportInv, ImportsAgree
  <1>10. QED
    BY <1>3, <1>5, <1>7, <1>8, <1>9, Alone

LEMMA RebuildInv ==
  ASSUME ImportInv, NEW p \in Importers, Rebuild(p)
  PROVE  ImportInv'
  <1> DEFINE i == importer[p].import
  <1>1. /\ importer[p].pc = "rebuild" /\ ImportGoto(p, "return") /\ rows' = importLog
        /\ UNCHANGED <<linked, artifacts, importLog, cut, confirmed, importFaults>>
    BY DEF Rebuild
  <1>2. importer[p].pc \in LockedAt /\ importer[p].pc # "idle" /\ "return" \in LockedAt
    BY <1>1 DEF LockedAt
  <1>3. /\ i \in Imports /\ importer[p].links \in Links /\ Found(importer[p])
        /\ importLog \in [Imports -> Links \cup {None}]
        /\ \A q \in Importers \ {p} : importer[q].pc \notin LockedAt
    BY <1>2, ImportFacts
  <1>4. artifacts[i] = importer[p].links /\ importLog[i] = importer[p].links
    BY <1>1, <1>3 DEF Found
  <1>5. /\ importer' \in [Importers -> Calls] /\ \A q \in Importers \ {p} : importer'[q] = importer[q]
        /\ importer'[p].pc = "return" /\ importer'[p].import = i
        /\ importer'[p].links = importer[p].links /\ importer'[p].installed = importer[p].installed
    BY <1>1, <1>2, GotoFields
  <1>6. ImportTypeOK'
    BY <1>1, <1>3, <1>5 DEF ImportInv, ImportTypeOK
  <1> HIDE DEF i
  <1>7. ImporterKnows(p)'
    <2>1. /\ importer'[p].pc # "idle" => importer'[p].import \in Imports /\ importer'[p].links \in Links
          /\ importer'[p].installed => importer'[p].pc \in LockedAt /\ importer'[p].import \notin confirmed'
      BY <1>1, <1>2, <1>3, <1>5 DEF Found, i
    <2>2. artifacts'[importer'[p].import] = importer'[p].links /\ importLog'[importer'[p].import] = importer'[p].links
      BY <1>1, <1>4, <1>5
    <2>3. QED
      BY <2>1, <2>2, <1>5 DEF ImporterKnows, Found
  <1>8. ImportsAgree'
    BY <1>1 DEF ImportInv, ImportsAgree
  <1>9. QED
    BY <1>3, <1>5, <1>6, <1>7, <1>8, Alone

LEMMA ConfirmInv ==
  ASSUME ImportInv, NEW p \in Importers, Confirm(p)
  PROVE  ImportInv'
  <1> DEFINE i == importer[p].import
  <1>1. /\ importer[p].pc = "return" /\ Return(p) /\ confirmed' = confirmed \cup {i}
        /\ UNCHANGED <<linked, artifacts, importLog, cut, rows, importFaults>>
    BY DEF Confirm
  <1>2. importer[p].pc \in LockedAt /\ importer[p].pc # "idle"
    BY <1>1 DEF LockedAt
  <1>3. /\ i \in Imports /\ importer[p].links \in Links /\ Found(importer[p]) /\ confirmed \subseteq Imports
        /\ importer \in [Importers -> Calls]
        /\ \A q \in Importers \ {p} : importer[q].pc \notin LockedAt
    BY <1>2, ImportFacts
  <1>4. artifacts[i] = importer[p].links /\ importLog[i] = importer[p].links
    BY <1>1, <1>3 DEF Found
  <1>5. importer'[p] = NoImport /\ \A q \in Importers \ {p} : importer'[q] = importer[q]
    BY <1>1, <1>3 DEF Return
  <1>6. NoImport \in Calls /\ NoImport.pc = "idle" /\ ~NoImport.installed
    BY DEF NoImport, Calls
  <1>7. ImportTypeOK'
    BY <1>1, <1>3, <1>6 DEF ImportInv, ImportTypeOK, Return
  <1>8. ImporterKnows(p)'
    BY <1>5, <1>6 DEF ImporterKnows, Found, LockedAt
  <1>9. ImportsAgree'
    BY <1>1, <1>3, <1>4, NoneIsNoLink DEF ImportInv, ImportsAgree
  <1>10. QED
    BY <1>3, <1>5, <1>7, <1>8, <1>9, Alone

\* The steps that fail.
LEMMA FailuresInv ==
  ASSUME ImportInv, NEW p \in Importers, AppendFails(p) \/ ProjectFails(p) \/ StepFails(p)
  PROVE  ImportInv'
  <1> DEFINE i == importer[p].import
  <1>1. /\ importer[p].pc \in LockedAt /\ importer[p].pc # "idle" /\ Fail(p)
        /\ UNCHANGED <<linked, rows, confirmed>> /\ importFaults' = importFaults + 1
    BY DEF AppendFails, ProjectFails, StepFails, Spend, LockedAt
  <1>2. /\ i \in Imports /\ importer[p].links \in Links /\ Found(importer[p]) /\ importFaults \in Nat
        /\ importLog \in [Imports -> Links \cup {None}]
    BY <1>1, ImportFacts
  <1>3. linked \in BOOLEAN /\ cut \in BOOLEAN
    BY DEF ImportInv, ImportTypeOK
  <1>4. CASE AppendFails(p)
    <2>1. i \notin confirmed /\ rows[i] = None /\ importLog[i] = None /\ cut' \in BOOLEAN
      BY <1>2, <1>3, <1>4 DEF Found, AppendFails
    <2>2. /\ importLog' \in [Imports -> Links \cup {None}] /\ importLog'[i] \in {None, importer[p].links}
          /\ \A j \in Imports \ {i} : importLog'[j] = importLog[j]
      BY <1>2, <1>4, <2>1 DEF AppendFails
    <2>3. QED
      BY <1>1, <1>2, <1>3, <2>1, <2>2, FailInv
  <1>5. CASE ProjectFails(p)
    <2>1. i \notin confirmed /\ rows[i] = None /\ importLog[i] = importer[p].links /\ cut' \in BOOLEAN
      BY <1>2, <1>3, <1>5 DEF Found, ProjectFails
    <2>2. /\ importLog' \in [Imports -> Links \cup {None}] /\ importLog'[i] \in {None, importer[p].links}
          /\ \A j \in Imports \ {i} : importLog'[j] = importLog[j]
      BY <1>2, <1>5, <2>1 DEF ProjectFails
    <2>3. QED
      BY <1>1, <1>2, <1>3, <2>1, <2>2, FailInv
  <1>6. CASE StepFails(p)
    <2>1. importLog[i] \in {None, importer[p].links} /\ UNCHANGED <<importLog, cut>>
      BY <1>2, <1>6 DEF Found, StepFails
    <2>2. QED
      BY <1>1, <1>2, <1>3, <2>1, FailInv
  <1>7. QED
    BY <1>4, <1>5, <1>6

LEMMA CrashInv ==
  ASSUME ImportInv, NEW p \in Importers, ImportCrash(p)
  PROVE  ImportInv'
  <1>1. /\ Return(p) /\ UNCHANGED <<linked, artifacts, importLog, rows, confirmed>>
        /\ importFaults' = importFaults + 1 /\ importer[p] # NoImport /\ cut' \in {cut, cut \/ importer[p].pc = "append"}
    BY DEF ImportCrash, Spend
  <1>2. importer \in [Importers -> Calls] /\ importFaults \in Nat /\ cut' \in BOOLEAN
    BY <1>1 DEF ImportInv, ImportTypeOK
  <1>3. importer'[p] = NoImport /\ \A q \in Importers \ {p} : importer'[q] = importer[q]
    BY <1>1, <1>2 DEF Return
  <1>4. NoImport \in Calls /\ NoImport.pc = "idle" /\ ~NoImport.installed
    BY DEF NoImport, Calls
  <1>5. ImportTypeOK'
    BY <1>1, <1>2, <1>4 DEF ImportInv, ImportTypeOK, Return
  <1>6. ImporterKnows(p)' /\ importer'[p].pc \notin LockedAt
    BY <1>3, <1>4 DEF ImporterKnows, Found, LockedAt
  <1>7. QED
    BY <1>1, <1>3, <1>5, <1>6, Apart

\* Repairs and the loss of the database; links that are evaluated differently from now on.
LEMMA DatabaseInv ==
  ASSUME ImportInv, Repair \/ LoseDatabase \/ Relink
  PROVE  ImportInv'
  <1>1. importer' = importer /\ UNCHANGED <<artifacts, importLog, confirmed>>
    BY DEF Repair, LoseDatabase, Relink
  <1>2. ImportTypeOK'
    <2>1. ImportTypeOK
      BY DEF ImportInv
    <2>2. CASE Repair
      BY <2>1, <2>2 DEF ImportTypeOK, Repair
    <2>3. CASE LoseDatabase
      BY <2>1, <2>3 DEF ImportTypeOK, LoseDatabase, Spend
    <2>4. CASE Relink
      BY <2>1, <2>4 DEF ImportTypeOK, Relink
    <2>5. QED
      BY <2>2, <2>3, <2>4
  <1>3. OneImporter'
    BY <1>1 DEF ImportInv, OneImporter
  <1>4. ASSUME NEW q \in Importers PROVE ImporterKnows(q)'
    <2>1. CASE Relink
      BY <2>1 DEF ImportInv, ImporterKnows, Found, Relink
    <2>2. CASE Free
      BY <2>2, <1>1, OutsideKnows DEF Free
    <2>3. QED
      BY <2>1, <2>2 DEF Repair, LoseDatabase
  <1>5. ImportsAgree'
    <2>1. \A i \in Imports : rows'[i] \in {None, rows[i], importLog[i]}
      BY DEF Repair, LoseDatabase, Relink
    <2>2. QED
      BY <2>1, <1>1 DEF ImportInv, ImportsAgree
  <1>6. QED
    BY <1>2, <1>3, <1>4, <1>5 DEF ImportInv

LEMMA ImportStepInv == ImportInv /\ [ImportNext]_importVars => ImportInv'
  <1> SUFFICES ASSUME ImportInv, [ImportNext]_importVars PROVE ImportInv'
    OBVIOUS
  <1>1. CASE UNCHANGED importVars
    BY <1>1 DEF importVars, ImportInv, ImportTypeOK, OneImporter, ImporterKnows, Found, ImportsAgree
  <1>2. CASE ImportNext
    BY <1>2, DatabaseInv, PreviewInv, EnterInv, InstallInv, AcceptInv, AppendInv, ProjectInv,
       RebuildInv, ConfirmInv, FailuresInv, CrashInv DEF ImportNext
  <1>3. QED
    BY <1>1, <1>2

LEMMA ImportInvHolds == ImportSpec => []ImportInv
  BY ImportInitInv, ImportStepInv, PTL DEF ImportSpec

\* Every variable has its type.
THEOREM ImportTypeCorrect == ImportSpec => []ImportTypeOK
  <1>1. ImportInv => ImportTypeOK
    BY DEF ImportInv
  <1>2. QED
    BY <1>1, ImportInvHolds, PTL

\* Whatever fails and whoever dies, for any number of imports and importers, the artifact, the
\* event and the rows of an import do not contradict each other.
THEOREM ImportsAgreeHolds == ImportSpec => []ImportsAgree
  <1>1. ImportInv => ImportsAgree
    BY DEF ImportInv
  <1>2. QED
    BY <1>1, ImportInvHolds, PTL

-----------------------------------------------------------------------------
(* Evaluations.                                                            *)

Entries == [m : Applied, phase : Phases]

\* Every record of the apply journal is there once.
Once == \A i, j \in DOMAIN history : history[i] = history[j] => i = j

HistoryOK == history \in Seq(Entries) /\ Once

RatingTypes ==
  /\ HistoryOK /\ verdicts \in Seq(Verdict) /\ facts \subseteq Facts
  /\ rater \in [Raters -> {Rest} \cup [pc : {"append"}, line : Verdict]]

ValidInv == RatingTypes /\ RatingsStayValid

\* What a line proves of the journals, when it is written and ever after.
Honest(v) ==
  /\ v.state = "rolled_back" => /\ RolledBack(v.m)
                                /\ v.type = "evaluation" /\ v.successor = 0 /\ v.seen = {}
  /\ v.type = "supersession" => v.state = "superseded"
  /\ v.state = "regressed" => "recurred" \in facts /\ contract[v.m]

\* How a line may follow an earlier one of its mutation.
Follows(v, e) ==
  e.m = v.m =>
    /\ ~SameAs(e, v) /\ e.state # "rolled_back"
    /\ e.type = "supersession" => v.state = "rolled_back"
    /\ e.state = "regressed" => v.state \in {"regressed", "superseded", "rolled_back"}

\* What a rater knows that holds the locks.
RaterKnows(p) ==
  rater[p] # Rest => /\ Honest(rater[p].line)
                     /\ \A i \in DOMAIN verdicts : Follows(rater[p].line, verdicts[i])

OneRater == \A p, q \in Raters : rater[p] # Rest /\ rater[q] # Rest => p = q

BackInv ==
  /\ RatingTypes /\ OneRater /\ (\A p \in Raters : RaterKnows(p))
  /\ \A i \in DOMAIN verdicts : Honest(verdicts[i])
  /\ VerdictsNeverGoBack

-----------------------------------------------------------------------------
(* The apply journal.                                                      *)

LEMMA PlaceIs ==
  ASSUME HistoryOK, NEW m, NEW ph, Said(m, ph)
  PROVE  /\ Place(m, ph) \in 1..Len(history) /\ history[Place(m, ph)] = [m |-> m, phase |-> ph]
         /\ \A i \in DOMAIN history : history[i] = [m |-> m, phase |-> ph] => i = Place(m, ph)
  <1>1. PICK i \in DOMAIN history : history[i] = [m |-> m, phase |-> ph]
    BY DEF Said
  <1>2. Place(m, ph) \in DOMAIN history /\ history[Place(m, ph)] = [m |-> m, phase |-> ph]
    BY <1>1 DEF Place
  <1>3. DOMAIN history = 1..Len(history)
    BY DEF HistoryOK
  <1>4. QED
    BY <1>2, <1>3 DEF HistoryOK, Once

\* What was said keeps its place; what is new is behind everything else.
LEMMA HistoryGrows ==
  ASSUME HistoryOK, NEW m \in Applied, NEW phase \in Phases, AppendApply(m, phase)
  PROVE  /\ HistoryOK' /\ Len(history') = Len(history) + 1
         /\ \A k, ph : Said(k, ph) => Said(k, ph)' /\ Place(k, ph)' = Place(k, ph)
         /\ \A k, ph : ~Said(k, ph) /\ Said(k, ph)' => Place(k, ph)' = Len(history) + 1
  <1> DEFINE new == [m |-> m, phase |-> phase]
  <1>1. history' = Append(history, new) /\ new \in Entries /\ history \in Seq(Entries)
    BY DEF AppendApply, Entries, HistoryOK
  <1>2. /\ history' \in Seq(Entries) /\ Len(history') = Len(history) + 1 /\ Len(history) \in Nat
        /\ DOMAIN history = 1..Len(history) /\ DOMAIN history' = 1..(Len(history) + 1)
        /\ history'[Len(history) + 1] = new /\ \A i \in 1..Len(history) : history'[i] = history[i]
    BY <1>1
  <1>3. ~Said(m, phase)
    BY DEF AppendApply, Allowed, RolledBack, Phases
  <1>4. \A i \in 1..Len(history) : history[i] # new
    BY <1>2, <1>3 DEF Said
  <1>5. Once'
    <2>1. SUFFICES ASSUME NEW i \in DOMAIN history', NEW j \in DOMAIN history', history'[i] = history'[j]
                   PROVE  i = j
      BY DEF Once
    <2>2. CASE i \in 1..Len(history) /\ j \in 1..Len(history)
      BY <1>2, <2>1, <2>2 DEF HistoryOK, Once
    <2>3. CASE i = Len(history) + 1 \/ j = Len(history) + 1
      BY <1>2, <1>4, <2>1, <2>3
    <2>4. QED
      BY <1>2, <2>2, <2>3
  <1>6. HistoryOK'
    BY <1>2, <1>5 DEF HistoryOK
  <1>7. ASSUME NEW k, NEW ph, Said(k, ph) PROVE Said(k, ph)' /\ Place(k, ph)' = Place(k, ph)
    <2>1. Place(k, ph) \in 1..Len(history) /\ history[Place(k, ph)] = [m |-> k, phase |-> ph]
      BY <1>7, PlaceIs
    <2>2. Place(k, ph) \in DOMAIN history' /\ history'[Place(k, ph)] = [m |-> k, phase |-> ph]
      BY <1>2, <2>1
    <2>3. Said(k, ph)'
      BY <2>2 DEF Said
    <2>4. Place(k, ph)' \in DOMAIN history' /\ history'[Place(k, ph)'] = [m |-> k, phase |-> ph]
      BY <2>2 DEF Place
    <2>5. QED
      BY <1>6, <2>2, <2>3, <2>4 DEF HistoryOK, Once
  <1>8. ASSUME NEW k, NEW ph, ~Said(k, ph), Said(k, ph)' PROVE Place(k, ph)' = Len(history) + 1
    <2>1. PICK i \in DOMAIN history' : history'[i] = [m |-> k, phase |-> ph]
      BY <1>8 DEF Said
    <2>2. Place(k, ph)' \in DOMAIN history' /\ history'[Place(k, ph)'] = [m |-> k, phase |-> ph]
      BY <2>1 DEF Place
    <2>3. Place(k, ph)' \notin 1..Len(history)
      BY <1>2, <1>8, <2>2 DEF Said
    <2>4. QED
      BY <1>2, <2>2, <2>3
  <1>9. QED
    BY <1>2, <1>6, <1>7, <1>8

-----------------------------------------------------------------------------
(* RatingsStayValid.                                                       *)

\* No step of the apply journal takes the validity of a line away.
LEMMA ValidStays ==
  ASSUME RatingTypes, NEW m \in Applied, NEW phase \in Phases, AppendApply(m, phase),
         NEW v \in Verdict, NEW E, Valid(v, E)
  PROVE  Valid(v, E)'
  <1>1. HistoryOK /\ Len(history) \in Nat /\ v.anchor \in Nat /\ contract' = contract
    BY DEF RatingTypes, HistoryOK, Verdict, AppendApply
  <1>2. /\ Len(history') = Len(history) + 1
        /\ \A k, ph : Said(k, ph) => Said(k, ph)' /\ Place(k, ph)' = Place(k, ph)
        /\ \A k, ph : ~Said(k, ph) /\ Said(k, ph)' => Place(k, ph)' = Len(history) + 1
    BY <1>1, HistoryGrows
  <1>3. Said(v.m, "commit") /\ Place(v.m, "commit") \in 1..Len(history)
    BY <1>1, PlaceIs DEF Valid
  <1>4. v.anchor \in Place(v.m, "commit")..Len(history)
    BY DEF Valid
  <1>5. ASSUME NEW k PROVE RolledBackBy(k, v.anchor)' <=> RolledBackBy(k, v.anchor)
    <2>1. CASE RolledBack(k)
      BY <1>2, <2>1 DEF RolledBackBy, RolledBack
    <2>2. CASE ~RolledBack(k)
      <3>1. RolledBack(k)' => Place(k, "rollback")' = Len(history) + 1
        BY <1>2, <2>2 DEF RolledBack
      <3>2. ~RolledBackBy(k, v.anchor)'
        BY <1>1, <1>3, <1>4, <3>1 DEF RolledBackBy
      <3>3. QED
        BY <2>2, <3>2 DEF RolledBackBy
    <2>3. QED
      BY <2>1, <2>2
  <1>6. Said(v.m, "commit")' /\ v.anchor \in Place(v.m, "commit")'..Len(history')
    BY <1>1, <1>2, <1>3, <1>4
  <1>7. v.type = "evaluation" =>
          (v.state = "rolled_back" <=> RolledBackBy(v.m, v.anchor)') /\ v.state # "superseded"
    BY <1>5 DEF Valid
  <1>8. ASSUME v.type = "supersession"
        PROVE  /\ Said(v.successor, "commit")' /\ contract'[v.m] /\ contract'[v.successor]
               /\ Place(v.m, "commit")' < Place(v.successor, "commit")'
               /\ Place(v.successor, "commit")' <= v.anchor
               /\ ~RolledBackBy(v.m, v.anchor)' /\ ~RolledBackBy(v.successor, v.anchor)'
               /\ ~\E e \in E : e.type = "supersession" /\ e.m = v.m
    BY <1>1, <1>2, <1>3, <1>5, <1>8 DEF Valid
  <1>9. QED
    BY <1>6, <1>7, <1>8 DEF Valid

LEMMA NewTypes ==
  ASSUME RatingTypes, NEW m \in Applied
  PROVE  /\ PreviewOf(m) \in Verdict
         /\ \A s \in Applied : Line("supersession", m, "superseded", s, {}) \in Verdict
  <1>1. Len(history) \in Nat /\ facts \in SUBSET Facts
    BY DEF RatingTypes, HistoryOK
  <1>2. StateOf(facts) \in States
    BY DEF StateOf, States
  <1>3. QED
    BY <1>1, <1>2 DEF PreviewOf, Line, Verdict, States

LEMMA RatingInitTypes == RatingInit => RatingTypes
  BY DEF RatingInit, RatingTypes, HistoryOK, Once, Entries, Facts, Rest

LEMMA RatingNextTypes == RatingTypes /\ [RatingNext]_ratingVars => RatingTypes'
  <1> SUFFICES ASSUME RatingTypes, [RatingNext]_ratingVars PROVE RatingTypes'
    OBVIOUS
  <1>1. CASE UNCHANGED ratingVars
    BY <1>1 DEF ratingVars, RatingTypes, HistoryOK, Once
  <1>2. ASSUME NEW m \in Applied, NEW phase \in Phases, AppendApply(m, phase) PROVE RatingTypes'
    <2>1. HistoryOK'
      BY <1>2, HistoryGrows DEF RatingTypes
    <2>2. QED
      BY <1>2, <2>1 DEF RatingTypes, AppendApply
  <1>3. ASSUME NEW f \in Facts, Learn(f) PROVE RatingTypes'
    BY <1>3 DEF RatingTypes, HistoryOK, Once, Learn
  <1>4. ASSUME NEW p \in Raters, NEW line \in Verdict, Hold(p, line),
               UNCHANGED <<history, facts, verdicts>>
        PROVE  RatingTypes'
    BY <1>4 DEF RatingTypes, HistoryOK, Once, Hold
  <1>5. ASSUME NEW p \in Raters, NEW m \in Applied, Evaluate(p, m) PROVE RatingTypes'
    BY <1>4, <1>5, NewTypes DEF Evaluate
  <1>6. ASSUME NEW p \in Raters, NEW m \in Applied, NEW s \in Applied, Supersede(p, m, s)
        PROVE  RatingTypes'
    BY <1>4, <1>6, NewTypes DEF Supersede
  <1>7. ASSUME NEW p \in Raters, NEW how \in {"ok", "undone", "kept", "cut"}, AppendVerdict(p, how)
        PROVE  RatingTypes'
    <2>1. rater[p].line \in Verdict
      BY <1>7 DEF AppendVerdict, RatingTypes
    <2>2. verdicts' \in Seq(Verdict)
      BY <1>7, <2>1 DEF AppendVerdict, RatingTypes
    <2>3. rater' \in [Raters -> {Rest} \cup [pc : {"append"}, line : Verdict]]
      BY <1>7 DEF AppendVerdict, RatingTypes
    <2>4. QED
      BY <1>7, <2>2, <2>3 DEF AppendVerdict, RatingTypes, HistoryOK, Once
  <1>8. QED
    BY <1>1, <1>2, <1>3, <1>5, <1>6, <1>7 DEF RatingNext

\* Lines of the journal do not change when one is added behind them.
LEMMA LinesStay ==
  ASSUME RatingTypes, NEW v \in Verdict, verdicts' = Append(verdicts, v)
  PROVE  /\ DOMAIN verdicts = 1..Len(verdicts) /\ DOMAIN verdicts' = 1..(Len(verdicts) + 1)
         /\ Len(verdicts) \in Nat /\ verdicts'[Len(verdicts) + 1] = v
         /\ \A i \in DOMAIN verdicts : verdicts'[i] = verdicts[i]
         /\ \A n \in 0..Len(verdicts) : Lines(n)' = Lines(n)
  <1>1. verdicts \in Seq(Verdict)
    BY DEF RatingTypes
  <1>2. /\ DOMAIN verdicts = 1..Len(verdicts) /\ DOMAIN verdicts' = 1..(Len(verdicts) + 1)
        /\ Len(verdicts) \in Nat /\ verdicts'[Len(verdicts) + 1] = v
        /\ \A i \in 1..Len(verdicts) : verdicts'[i] = verdicts[i]
    BY <1>1
  <1>3. ASSUME NEW n \in 0..Len(verdicts) PROVE Lines(n)' = Lines(n)
    BY <1>2 DEF Lines
  <1>4. QED
    BY <1>2, <1>3

\* Validity looks at the line, the earlier ones, the apply journal and the contracts only.
LEMMA ValidSame ==
  ASSUME UNCHANGED <<history, contract>>, NEW v, NEW E, Valid(v, E)
  PROVE  Valid(v, E)'
  BY DEF Valid, RolledBackBy, RolledBack, Said, Place

LEMMA ValidNext == ValidInv /\ [RatingNext]_ratingVars => ValidInv'
  <1> SUFFICES ASSUME ValidInv, [RatingNext]_ratingVars PROVE ValidInv'
    OBVIOUS
  <1>1. RatingTypes /\ RatingTypes' /\ RatingsStayValid
    BY RatingNextTypes DEF ValidInv
  <1>2. verdicts \in Seq(Verdict)
    BY <1>1 DEF RatingTypes
  <1>3. ASSUME UNCHANGED verdicts, \A v \in Verdict : \A E : Valid(v, E) => Valid(v, E)'
        PROVE  RatingsStayValid'
    <2>1. SUFFICES ASSUME NEW i \in DOMAIN verdicts PROVE Valid(verdicts[i], Lines(i - 1))'
      BY <1>3 DEF RatingsStayValid
    <2>2. Lines(i - 1)' = Lines(i - 1) /\ verdicts[i] \in Verdict
      BY <1>2, <1>3 DEF Lines
    <2>3. Valid(verdicts[i], Lines(i - 1))
      BY <1>1 DEF RatingsStayValid
    <2>4. QED
      BY <1>3, <2>2, <2>3
  <1>4. ASSUME UNCHANGED <<history, contract>>
        PROVE  \A v \in Verdict : \A E : Valid(v, E) => Valid(v, E)'
    BY <1>4, ValidSame
  <1>5. ASSUME NEW m \in Applied, NEW phase \in Phases, AppendApply(m, phase) PROVE RatingsStayValid'
    BY <1>1, <1>3, <1>5, ValidStays DEF AppendApply
  <1>6. ASSUME NEW p \in Raters, NEW how \in {"ok", "undone", "kept", "cut"}, AppendVerdict(p, how)
        PROVE  RatingsStayValid'
    <2> DEFINE v == rater[p].line
    <2>1. v \in Verdict /\ Valid(v, Lines(Len(verdicts))) /\ UNCHANGED <<history, contract>>
      BY <1>1, <1>6 DEF AppendVerdict, RatingTypes
    <2>2. CASE UNCHANGED verdicts
      BY <1>3, <1>4, <2>1, <2>2
    <2>3. CASE verdicts' = Append(verdicts, v)
      <3>1. /\ DOMAIN verdicts = 1..Len(verdicts) /\ DOMAIN verdicts' = 1..(Len(verdicts) + 1)
            /\ Len(verdicts) \in Nat /\ verdicts'[Len(verdicts) + 1] = v
            /\ \A i \in DOMAIN verdicts : verdicts'[i] = verdicts[i]
            /\ \A n \in 0..Len(verdicts) : Lines(n)' = Lines(n)
        BY <1>1, <2>1, <2>3, LinesStay
      <3>2. SUFFICES ASSUME NEW i \in DOMAIN verdicts'
                     PROVE  Valid(verdicts[i], Lines(i - 1))'
        BY DEF RatingsStayValid
      <3>3. CASE i \in DOMAIN verdicts
        <4>1. Valid(verdicts[i], Lines(i - 1)) /\ Lines(i - 1)' = Lines(i - 1) /\ verdicts'[i] = verdicts[i]
          BY <1>1, <3>1, <3>3 DEF RatingsStayValid
        <4>2. QED
          BY <1>2, <1>4, <2>1, <3>3, <4>1
      <3>4. CASE i = Len(verdicts) + 1
        <4>1. Lines(i - 1)' = Lines(Len(verdicts)) /\ verdicts'[i] = v
          BY <3>1, <3>4
        <4>2. QED
          BY <1>4, <2>1, <4>1
      <3>5. QED
        BY <3>1, <3>3, <3>4
    <2>4. QED
      BY <1>6, <2>2, <2>3 DEF AppendVerdict
  <1>7. ASSUME UNCHANGED ratingVars PROVE RatingsStayValid'
    BY <1>3, <1>4, <1>7 DEF ratingVars
  <1>8. ASSUME NEW f \in Facts, Learn(f) PROVE RatingsStayValid'
    BY <1>3, <1>4, <1>8 DEF Learn
  <1>9. ASSUME NEW p \in Raters, NEW m \in Applied,
               Evaluate(p, m) \/ \E s \in Applied : Supersede(p, m, s)
        PROVE  RatingsStayValid'
    BY <1>3, <1>4, <1>9 DEF Evaluate, Supersede
  <1>10. RatingsStayValid'
    BY <1>5, <1>6, <1>7, <1>8, <1>9 DEF RatingNext
  <1>11. QED
    BY <1>1, <1>10 DEF ValidInv

\* Whatever is applied, aborted or rolled back later, the lines of evaluations.jsonl remain
\* acceptable to validateBase, for any number of applies and lines.
THEOREM RatingsStayValidHolds == RatingSpec => []RatingsStayValid
  <1>1. RatingInit => ValidInv
    BY RatingInitTypes DEF RatingInit, ValidInv, RatingsStayValid
  <1>2. ValidInv => RatingsStayValid
    BY DEF ValidInv
  <1>3. QED
    BY <1>1, <1>2, ValidNext, PTL DEF RatingSpec

-----------------------------------------------------------------------------
(* VerdictsNeverGoBack.                                                    *)

LEMMA SameFields ==
  ASSUME NEW v \in Verdict, NEW e \in Verdict
  PROVE  SameAs(v, e) <=> /\ v.type = e.type /\ v.m = e.m /\ v.state = e.state
                          /\ v.successor = e.successor /\ v.seen = e.seen
  <1>1. SameAs(v, e) => /\ v.type = e.type /\ v.m = e.m /\ v.state = e.state
                        /\ v.successor = e.successor /\ v.seen = e.seen
    <2>1. /\ [v EXCEPT !.anchor = 0].type = v.type /\ [v EXCEPT !.anchor = 0].m = v.m
          /\ [v EXCEPT !.anchor = 0].state = v.state
          /\ [v EXCEPT !.anchor = 0].successor = v.successor /\ [v EXCEPT !.anchor = 0].seen = v.seen
      BY DEF Verdict
    <2>2. /\ [e EXCEPT !.anchor = 0].type = e.type /\ [e EXCEPT !.anchor = 0].m = e.m
          /\ [e EXCEPT !.anchor = 0].state = e.state
          /\ [e EXCEPT !.anchor = 0].successor = e.successor /\ [e EXCEPT !.anchor = 0].seen = e.seen
      BY DEF Verdict
    <2>3. QED
      BY <2>1, <2>2 DEF SameAs
  <1>2. QED
    BY <1>1 DEF SameAs, Verdict

\* A line that is not recorded yet, found while the locks are held, may follow all others.
LEMMA EvaluationFollows ==
  ASSUME BackInv, NEW m \in Applied, RolledBack(m) \/ ~Superseded(m), ~Recorded(PreviewOf(m))
  PROVE  Honest(PreviewOf(m)) /\ \A i \in DOMAIN verdicts : Follows(PreviewOf(m), verdicts[i])
  <1> DEFINE v == PreviewOf(m)
  <1>1. v \in Verdict /\ RatingTypes /\ v.m = m /\ v.type = "evaluation"
    BY NewTypes DEF BackInv, PreviewOf, Line
  <1>2. Honest(v)
    BY DEF Honest, PreviewOf, Line, StateOf
  <1>3. ASSUME NEW i \in DOMAIN verdicts PROVE Follows(v, verdicts[i])
    <2> DEFINE e == verdicts[i]
    <2>1. e \in Verdict /\ Honest(e) /\ e \in Lines(Len(verdicts))
      BY <1>1 DEF RatingTypes, BackInv, Lines
    <2>2. ~SameAs(e, v)
      BY <2>1 DEF Recorded, SameAs
    <2>3. SUFFICES ASSUME e.m = m
                   PROVE  /\ e.state # "rolled_back"
                          /\ e.type = "supersession" => v.state = "rolled_back"
                          /\ e.state = "regressed" => v.state \in {"regressed", "superseded", "rolled_back"}
      BY <1>1, <2>2 DEF Follows
    <2>4. CASE RolledBack(m)
      <3>1. /\ v.state = "rolled_back" /\ v.successor = 0 /\ v.seen = {}
        BY <2>4 DEF PreviewOf, Line
      <3>2. e.state # "rolled_back"
        <4> HIDE DEF v, e
        <4>1. SUFFICES ASSUME e.state = "rolled_back" PROVE FALSE
          OBVIOUS
        <4>2. e.type = "evaluation" /\ e.successor = 0 /\ e.seen = {}
          BY <2>1, <4>1 DEF Honest
        <4>3. SameAs(e, v)
          BY <1>1, <2>1, <2>3, <3>1, <4>1, <4>2, SameFields
        <4>4. QED
          BY <2>2, <4>3
      <3>3. QED
        BY <3>1, <3>2
    <2>5. CASE ~RolledBack(m)
      <3>1. e.state # "rolled_back" /\ e.type # "supersession"
        BY <2>1, <2>3, <2>5 DEF Honest, Superseded
      <3>2. ASSUME e.state = "regressed" PROVE v.state = "regressed"
        <4>1. "recurred" \in facts /\ contract[m]
          BY <2>1, <2>3, <3>2 DEF Honest
        <4>2. v = Line("evaluation", m, StateOf(facts), 0, facts)
          BY <2>5, <4>1 DEF PreviewOf
        <4>3. StateOf(facts) = "regressed"
          BY <4>1 DEF StateOf
        <4>4. QED
          BY <4>2, <4>3 DEF Line
      <3>3. QED
        BY <3>1, <3>2
    <2>6. QED
      BY <2>4, <2>5
  <1>4. QED
    BY <1>2, <1>3

LEMMA SupersessionFollows ==
  ASSUME BackInv, NEW m \in Applied, NEW s \in Applied, ~RolledBack(m), ~Superseded(m)
  PROVE  LET v == Line("supersession", m, "superseded", s, {}) IN
         Honest(v) /\ \A i \in DOMAIN verdicts : Follows(v, verdicts[i])
  <1> DEFINE v == Line("supersession", m, "superseded", s, {})
  <1>1. v \in Verdict /\ RatingTypes /\ v.m = m /\ v.type = "supersession" /\ v.state = "superseded"
    BY NewTypes DEF BackInv, Line
  <1>2. Honest(v)
    BY <1>1 DEF Honest
  <1>3. ASSUME NEW i \in DOMAIN verdicts PROVE Follows(v, verdicts[i])
    <2>1. verdicts[i] \in Verdict /\ Honest(verdicts[i]) /\ verdicts[i] \in Lines(Len(verdicts))
      BY <1>1 DEF RatingTypes, BackInv, Lines
    <2>2. verdicts[i].m = m => verdicts[i].type # "supersession" /\ verdicts[i].state # "rolled_back"
      BY <2>1 DEF Superseded, Honest
    <2>3. ~(verdicts[i].m = m /\ SameAs(verdicts[i], v))
      BY <1>1, <2>1, <2>2, SameFields
    <2>4. QED
      BY <1>1, <2>2, <2>3 DEF Follows
  <1>4. QED
    BY <1>2, <1>3

\* What is true of a line stays true, whatever is learnt, applied or rolled back.
LEMMA HonestStays ==
  ASSUME RatingTypes, [RatingNext]_ratingVars, NEW v, Honest(v) PROVE Honest(v)'
  <1>1. \A k : RolledBack(k) => RolledBack(k)'
    <2>1. ASSUME NEW m \in Applied, NEW phase \in Phases, AppendApply(m, phase), NEW k, RolledBack(k)
          PROVE  RolledBack(k)'
      BY <2>1, HistoryGrows DEF RatingTypes, RolledBack
    <2>2. ASSUME UNCHANGED history, NEW k, RolledBack(k) PROVE RolledBack(k)'
      BY <2>2 DEF RolledBack, Said
    <2>3. (\E m \in Applied, phase \in Phases : AppendApply(m, phase)) \/ UNCHANGED history
      BY DEF RatingNext, ratingVars, Learn, Evaluate, Supersede, AppendVerdict
    <2>4. QED
      BY <2>1, <2>2, <2>3
  <1>2. contract' = contract /\ ("recurred" \in facts => "recurred" \in facts')
    BY DEF RatingNext, ratingVars, AppendApply, Learn, Evaluate, Supersede, AppendVerdict
  <1>3. QED
    BY <1>1, <1>2 DEF Honest

LEMMA BackNext == BackInv /\ [RatingNext]_ratingVars => BackInv'
  <1> SUFFICES ASSUME BackInv, [RatingNext]_ratingVars PROVE BackInv'
    OBVIOUS
  <1>1. RatingTypes /\ RatingTypes'
    BY RatingNextTypes DEF BackInv
  <1>2. ASSUME UNCHANGED <<verdicts, rater>> PROVE BackInv'
    <2>1. \A p \in Raters : RaterKnows(p)'
      BY <1>1, <1>2, HonestStays DEF BackInv, RaterKnows, Follows, SameAs
    <2>2. \A i \in DOMAIN verdicts' : Honest(verdicts[i])'
      BY <1>1, <1>2, HonestStays DEF BackInv
    <2>3. OneRater' /\ VerdictsNeverGoBack'
      BY <1>2 DEF BackInv, OneRater, VerdictsNeverGoBack, SameAs
    <2>4. QED
      BY <1>1, <2>1, <2>2, <2>3 DEF BackInv
  <1>3. ASSUME NEW p \in Raters, NEW v \in Verdict, Hold(p, v), ~Locked, UNCHANGED verdicts,
               Honest(v), \A i \in DOMAIN verdicts : Follows(v, verdicts[i])
        PROVE  BackInv'
    <2>1. /\ rater'[p].line = v /\ \A q \in Raters \ {p} : rater'[q] = Rest
      BY <1>1, <1>3 DEF RatingTypes, Hold, Locked
    <2>2. OneRater'
      BY <2>1 DEF OneRater
    <2>3. RaterKnows(p)'
      <3>1. Honest(v)'
        BY <1>1, <1>3, HonestStays
      <3>2. QED
        BY <1>3, <2>1, <3>1 DEF RaterKnows, Follows, SameAs, Honest, RolledBack, Said
    <2>4. \A q \in Raters \ {p} : RaterKnows(q)'
      BY <2>1 DEF RaterKnows
    <2>5. \A i \in DOMAIN verdicts' : Honest(verdicts[i])'
      BY <1>1, <1>3, HonestStays DEF BackInv
    <2>6. VerdictsNeverGoBack'
      BY <1>3 DEF BackInv, VerdictsNeverGoBack, SameAs
    <2>7. QED
      BY <1>1, <2>2, <2>3, <2>4, <2>5, <2>6 DEF BackInv
  <1>4. ASSUME NEW p \in Raters, NEW how \in {"ok", "undone", "kept", "cut"}, NEW v \in Verdict,
               v = rater[p].line, AppendVerdict(p, how)
        PROVE  BackInv'
    <2>1. rater[p] # Rest /\ rater' = [rater EXCEPT ![p] = Rest]
      BY <1>4 DEF AppendVerdict
    <2>2. \A q \in Raters : rater'[q] = Rest
      BY <1>1, <2>1 DEF BackInv, OneRater, RatingTypes
    <2>3. OneRater' /\ \A q \in Raters : RaterKnows(q)'
      BY <2>2 DEF OneRater, RaterKnows
    <2>4. Honest(v) /\ \A x : Honest(x) => Honest(x)'
      <3>1. \A x : Honest(x) => Honest(x)'
        BY <1>1, HonestStays
      <3>2. QED
        BY <1>4, <2>1, <3>1 DEF BackInv, RaterKnows
    <2>5. CASE UNCHANGED verdicts
      <3>1. VerdictsNeverGoBack' /\ \A i \in DOMAIN verdicts' : Honest(verdicts[i])'
        BY <1>1, <2>5, HonestStays DEF BackInv, VerdictsNeverGoBack, SameAs
      <3>2. QED
        BY <1>1, <2>3, <3>1 DEF BackInv
    <2>6. CASE verdicts' = Append(verdicts, v)
      <3>1. /\ DOMAIN verdicts = 1..Len(verdicts) /\ DOMAIN verdicts' = 1..(Len(verdicts) + 1)
            /\ Len(verdicts) \in Nat /\ verdicts'[Len(verdicts) + 1] = v
            /\ \A i \in DOMAIN verdicts : verdicts'[i] = verdicts[i]
        BY <1>1, <2>1, <2>6, LinesStay
      <3>2. \A i \in DOMAIN verdicts' : Honest(verdicts[i])'
        <4>1. SUFFICES ASSUME NEW i \in DOMAIN verdicts' PROVE Honest(verdicts[i])'
          OBVIOUS
        <4>2. PICK x : x = verdicts'[i]
          OBVIOUS
        <4>3. Honest(x)
          BY <2>4, <3>1, <4>2 DEF BackInv
        <4>4. Honest(x)'
          BY <2>4, <4>3
        <4>5. QED
          BY <4>2, <4>4 DEF Honest
      <3>3. \A i \in DOMAIN verdicts : Follows(v, verdicts[i])
        BY <1>4, <2>1 DEF BackInv, RaterKnows
      <3>4. VerdictsNeverGoBack'
        <4>1. SUFFICES ASSUME NEW i \in DOMAIN verdicts', NEW j \in DOMAIN verdicts', i < j,
                              verdicts'[i].m = verdicts'[j].m
                       PROVE  LET e == verdicts'[i] l == verdicts'[j] IN
                              /\ ~SameAs(e, l) /\ e.state # "rolled_back"
                              /\ e.type = "supersession" => l.state = "rolled_back"
                              /\ e.state = "regressed" =>
                                   l.state \in {"regressed", "superseded", "rolled_back"}
          BY DEF VerdictsNeverGoBack, SameAs
        <4>2. i \in DOMAIN verdicts /\ (j \in DOMAIN verdicts \/ j = Len(verdicts) + 1)
          BY <3>1, <4>1
        <4>3. verdicts'[i] = verdicts[i] /\ (j \in DOMAIN verdicts => verdicts'[j] = verdicts[j])
          BY <3>1, <4>2
        <4>4. CASE j \in DOMAIN verdicts
          BY <4>1, <4>2, <4>3, <4>4 DEF BackInv, VerdictsNeverGoBack
        <4>5. CASE j = Len(verdicts) + 1
          <5>1. Follows(v, verdicts[i]) /\ verdicts'[j] = v
            BY <3>1, <3>3, <4>2, <4>5
          <5>2. QED
            BY <4>1, <4>3, <5>1 DEF Follows
        <4>6. QED
          BY <4>2, <4>4, <4>5
      <3>5. QED
        BY <1>1, <2>3, <3>2, <3>4 DEF BackInv
    <2>7. QED
      BY <1>4, <2>5, <2>6 DEF AppendVerdict
  <1>5. ASSUME NEW p \in Raters, NEW m \in Applied, Evaluate(p, m) PROVE BackInv'
    BY <1>1, <1>3, <1>5, NewTypes, EvaluationFollows DEF Evaluate
  <1>6. ASSUME NEW p \in Raters, NEW m \in Applied, NEW s \in Applied, Supersede(p, m, s)
        PROVE  BackInv'
    <2>1. ~RolledBack(m) /\ ~Superseded(m)
      BY <1>6 DEF Supersede
    <2>2. QED
      BY <1>1, <1>3, <1>6, <2>1, NewTypes, SupersessionFollows DEF Supersede
  <1>7. ASSUME NEW m \in Applied, NEW phase \in Phases, AppendApply(m, phase) PROVE BackInv'
    BY <1>2, <1>7 DEF AppendApply
  <1>8. ASSUME NEW f \in Facts, Learn(f) PROVE BackInv'
    BY <1>2, <1>8 DEF Learn
  <1>9. ASSUME UNCHANGED ratingVars PROVE BackInv'
    BY <1>2, <1>9 DEF ratingVars
  <1>10. ASSUME NEW p \in Raters, NEW how \in {"ok", "undone", "kept", "cut"}, AppendVerdict(p, how)
         PROVE  BackInv'
    <2>1. rater[p].line \in Verdict
      BY <1>1, <1>10 DEF AppendVerdict, RatingTypes
    <2>2. QED
      BY <1>4, <1>10, <2>1
  <1>11. QED
    BY <1>5, <1>6, <1>7, <1>8, <1>9, <1>10 DEF RatingNext

\* Nothing that was recorded of a mutation is taken back by what is recorded later, and nothing
\* is recorded twice, for any number of raters, applies, lines, failures and deaths.
THEOREM VerdictsNeverGoBackHolds == RatingSpec => []VerdictsNeverGoBack
  <1>1. RatingInit => BackInv
    BY RatingInitTypes DEF RatingInit, BackInv, OneRater, RaterKnows, VerdictsNeverGoBack
  <1>2. BackInv => VerdictsNeverGoBack
    BY DEF BackInv
  <1>3. QED
    BY <1>1, <1>2, BackNext, PTL DEF RatingSpec

-----------------------------------------------------------------------------
(* DatabaseLeases: the inductive invariant.                                  *)

\* The lease of a living process names it, and nobody may reclaim it.
LeaseHeld(p) ==
  LET n == opener[p].lease
      pc == opener[p].pc
  IN
  /\ pc = "idle" => n = 0
  /\ pc \in {"lease", "opening", "open", "release"} => n # 0
  /\ n # 0 => /\ leases[n].owner = p /\ ~leases[n].dead
              /\ leases[n].is = IF pc = "lease" THEN "empty" ELSE "written"

DbLocked(p) ==
  opener[p].pc \in {"lease", "opening", "drain", "main", "wal", "compare"} => dbLock = p

\* While the files are copied no other process has the database open.
Copying(p) ==
  LET pc == opener[p].pc
      c == opener[p].copy
  IN
  /\ pc \in {"main", "wal", "compare"} =>
       /\ c.seen = <<dbMain, dbWal>>
       /\ \A q \in Openers : q # p => opener[q].lease = 0
  /\ pc \in {"wal", "compare"} => c.main = dbMain
  /\ pc = "compare" => c.wal = dbWal

\* The log reaches back to what is in the database file.
WalReachesBack == dbWal.base <= dbMain /\ dbMain <= dbWal.top

IsOfOneMoment(p) ==
  OpenerAt(p, "copied") =>
    LET c == opener[p].copy IN
    c.wal.base <= c.main /\ c.main <= c.wal.top /\ c.seen = <<c.main, c.wal>>

LeasesInv ==
  /\ LeasesTypeOK /\ WalReachesBack
  /\ \A p \in Openers : LeaseHeld(p) /\ DbLocked(p) /\ Copying(p) /\ IsOfOneMoment(p)

-----------------------------------------------------------------------------
(* DatabaseLeases: the steps.                                                *)

USE LeasesAssumption

LEMMA OpenerTypes ==
  ASSUME LeasesTypeOK, NEW p \in Openers
  PROVE  /\ opener[p] \in Opener
         /\ opener[p].pc \in OpenerPCs
         /\ opener[p].lease \in 0..MaxLeases /\ opener[p].copy \in Copy
         /\ opener[p].lease # 0 => opener[p].lease \in LeaseIds
  BY DEF LeasesTypeOK, Opener, LeaseIds

\* The other processes do not feel a step of p that leaves the database and their leases alone.
LEMMA OpenerGoesOn ==
  ASSUME LeasesInv, NEW p \in Openers, NEW k \in Opener, opener' = [opener EXCEPT ![p] = k],
         UNCHANGED <<dbMain, dbWal>>,
         dbLock' \in Openers \cup {NoOpener}, leases' \in [LeaseIds -> LeaseFile \cup {NoLease}],
         \A q \in Openers : q # p /\ dbLock = q => dbLock' = q,
         \A q \in Openers : q # p /\ opener[q].lease # 0 => leases'[opener[q].lease] = leases[opener[q].lease],
         k.lease \in {0, opener[p].lease} \/ dbLock = NoOpener,
         LeaseHeld(p)', DbLocked(p)', Copying(p)', IsOfOneMoment(p)'
  PROVE  LeasesInv'
  <1>1. /\ opener' \in [Openers -> Opener] /\ opener'[p] = k
        /\ \A q \in Openers : q # p => opener'[q] = opener[q]
    BY DEF LeasesInv, LeasesTypeOK
  <1>2. LeasesTypeOK' /\ WalReachesBack'
    BY <1>1 DEF LeasesInv, LeasesTypeOK, WalReachesBack
  <1>3. ASSUME NEW q \in Openers, q # p
        PROVE  LeaseHeld(q)' /\ DbLocked(q)' /\ Copying(q)' /\ IsOfOneMoment(q)'
    <2>1. LeaseHeld(q) /\ DbLocked(q) /\ Copying(q) /\ IsOfOneMoment(q) /\ opener'[q] = opener[q]
      BY <1>1, <1>3 DEF LeasesInv
    <2>2. LeaseHeld(q)'
      BY <1>3, <2>1 DEF LeaseHeld
    <2>3. DbLocked(q)' /\ IsOfOneMoment(q)'
      BY <1>3, <2>1 DEF DbLocked, IsOfOneMoment, OpenerAt
    <2>4. opener[q].pc \in {"main", "wal", "compare"} => k.lease = 0
      BY <1>3, <2>1 DEF DbLocked, Copying
    <2>5. Copying(q)'
      BY <1>1, <2>1, <2>4 DEF Copying
    <2>6. QED
      BY <2>2, <2>3, <2>5
  <1>4. QED
    BY <1>2, <1>3 DEF LeasesInv

\* Two processes have different leases.
LEMMA LeasesDiffer ==
  ASSUME LeasesInv, NEW p \in Openers, NEW q \in Openers, p # q, opener[p].lease # 0
  PROVE  opener[q].lease # opener[p].lease
  BY DEF LeasesInv, LeaseHeld

LEMMA OpenDbInv ==
  ASSUME LeasesInv, NEW p \in Openers, OpenDb(p)
  PROVE  LeasesInv'
  <1> DEFINE n == CHOOSE i \in LeaseIds \ TakenLeases : TRUE
             k == [opener[p] EXCEPT !.pc = "lease", !.lease = n]
  <1>1. n \in LeaseIds /\ leases[n] = NoLease
    BY DEF OpenDb, TakenLeases
  <1>0. /\ opener' = [opener EXCEPT ![p].pc = "lease", ![p].lease = n]
        /\ leases' = [leases EXCEPT ![n] = [is |-> "empty", owner |-> p, dead |-> FALSE, old |-> FALSE]]
        /\ dbLock = NoOpener /\ dbLock' = p /\ UNCHANGED <<dbMain, dbWal>>
    BY DEF OpenDb
  <1> HIDE DEF n
  <1>2. opener' = [opener EXCEPT ![p] = k] /\ opener'[p] = k
    BY <1>0 DEF LeasesInv, LeasesTypeOK
  <1>3. k \in Opener /\ k.pc = "lease" /\ k.lease = n /\ n # 0
    <2>1. opener[p] \in Opener /\ n \in 0..MaxLeases /\ n # 0
      BY <1>1, OpenerTypes DEF LeasesInv, LeaseIds
    <2>2. QED
      BY <2>1 DEF Opener, OpenerPCs
  <1> HIDE DEF k
  <1>4. /\ leases' \in [LeaseIds -> LeaseFile \cup {NoLease}]
        /\ leases'[n] = [is |-> "empty", owner |-> p, dead |-> FALSE, old |-> FALSE]
        /\ \A i \in LeaseIds : i # n => leases'[i] = leases[i]
    BY <1>0, <1>1 DEF LeasesInv, LeasesTypeOK, LeaseFile
  <1>5. \A q \in Openers : opener[q].lease # 0 => opener[q].lease # n /\ opener[q].lease \in LeaseIds
    BY <1>1, OpenerTypes DEF LeasesInv, LeaseHeld, NoLease
  <1>6. LeaseHeld(p)'
    <2>1. leases'[n].owner = p /\ ~leases'[n].dead /\ leases'[n].is = "empty"
      BY <1>4
    <2> HIDE DEF n
    <2>2. QED
      BY <1>2, <1>3, <2>1 DEF LeaseHeld
  <1>7. DbLocked(p)' /\ Copying(p)' /\ IsOfOneMoment(p)'
    BY <1>0, <1>2, <1>3 DEF DbLocked, Copying, IsOfOneMoment, OpenerAt
  <1>8. dbLock = NoOpener /\ dbLock' \in Openers \cup {NoOpener} /\ \A q \in Openers : dbLock # q
    BY <1>0
  <1>9. \A q \in Openers : q # p /\ opener[q].lease # 0 => leases'[opener[q].lease] = leases[opener[q].lease]
    BY <1>4, <1>5
  <1>10. leases' \in [LeaseIds -> LeaseFile \cup {NoLease}]
    BY <1>4
  <1>11. dbMain' = dbMain /\ dbWal' = dbWal
    BY <1>0
  <1>12. k \in Opener /\ opener' = [opener EXCEPT ![p] = k]
    BY <1>2, <1>3
  <1>13. QED
    BY <1>6, <1>7, <1>8, <1>9, <1>10, <1>11, <1>12, OpenerGoesOn

\* A process that has neither the lock nor a lease knows nothing.
LEMMA Forgets ==
  ASSUME NEW p \in Openers, opener'[p] = NoOpening
  PROVE  LeaseHeld(p)' /\ DbLocked(p)' /\ Copying(p)' /\ IsOfOneMoment(p)'
  BY DEF NoOpening, LeaseHeld, DbLocked, Copying, IsOfOneMoment, OpenerAt

LEMMA FreshIsOpener == NoOpening \in Opener /\ NoOpening.lease = 0
  BY DEF NoOpening, NoCopy, Opener, OpenerPCs, Copy, Wal, DbCommits

\* The lock is let go, or kept, by its holder.
LEMMA WriteLeaseInv ==
  ASSUME LeasesInv, NEW p \in Openers, NEW is \in {"empty", "written"}, NEW ok \in BOOLEAN, WriteLease(p, is, ok)
  PROVE  LeasesInv'
  <1> DEFINE n == opener[p].lease
  <1>1. /\ opener[p].pc = "lease" /\ n \in LeaseIds /\ n # 0 /\ dbLock = p
        /\ leases[n].owner = p /\ ~leases[n].dead /\ UNCHANGED <<dbMain, dbWal>>
    BY OpenerTypes DEF WriteLease, OpenerAt, LeasesInv, LeaseHeld, DbLocked
  <1>2. leases[n] \in LeaseFile
    BY <1>1 DEF LeasesInv, LeasesTypeOK, NoLease
  <1>3. /\ leases' \in [LeaseIds -> LeaseFile \cup {NoLease}]
        /\ leases'[n] = [leases[n] EXCEPT !.is = is]
        /\ \A i \in LeaseIds : i # n => leases'[i] = leases[i]
    BY <1>1, <1>2 DEF WriteLease, LeasesInv, LeasesTypeOK, LeaseFile
  <1>4. leases'[n].owner = p /\ ~leases'[n].dead /\ leases'[n].is = is
    BY <1>1, <1>2, <1>3 DEF LeaseFile
  <1>5. \A q \in Openers : q # p /\ opener[q].lease # 0 => opener[q].lease # n /\ opener[q].lease \in LeaseIds
    BY <1>1, OpenerTypes, LeasesDiffer DEF LeasesInv
  <1>6. CASE ok
    <2> DEFINE k == [opener[p] EXCEPT !.pc = "opening"]
    <2>1. k \in Opener /\ k.pc = "opening" /\ k.lease = n
      BY OpenerTypes DEF LeasesInv, Opener, OpenerPCs
    <2>2. opener' = [opener EXCEPT ![p] = k] /\ opener'[p] = k /\ dbLock' = dbLock /\ is = "written"
      BY <1>6 DEF WriteLease, OpenerGoto, LeasesInv, LeasesTypeOK
    <2> HIDE DEF k
    <2>3. LeaseHeld(p)' /\ DbLocked(p)' /\ Copying(p)' /\ IsOfOneMoment(p)'
      BY <1>1, <1>4, <2>1, <2>2 DEF LeaseHeld, DbLocked, Copying, IsOfOneMoment, OpenerAt
    <2>4. QED
      BY <1>1, <1>3, <1>5, <2>1, <2>2, <2>3, OpenerGoesOn DEF LeasesInv, LeasesTypeOK
  <1>7. CASE ~ok
    <2>1. opener' = [opener EXCEPT ![p] = NoOpening] /\ opener'[p] = NoOpening /\ dbLock' = NoOpener
      BY <1>7 DEF WriteLease, UnlockDb, LeasesInv, LeasesTypeOK
    <2>2. QED
      BY <1>1, <1>3, <1>5, <2>1, Forgets, FreshIsOpener, OpenerGoesOn
  <1>8. QED
    BY <1>6, <1>7

\* A step of p that changes no lease.
LEMMA OpenerMoves ==
  ASSUME LeasesInv, NEW p \in Openers, NEW k \in Opener, opener' = [opener EXCEPT ![p] = k],
         UNCHANGED <<dbMain, dbWal, leases>>, k.lease = opener[p].lease,
         k.pc \in {"idle"} => k.lease = 0,
         k.pc \in {"opening", "open", "release"} => k.lease # 0,
         k.pc # "lease", opener[p].pc # "lease",
         dbLock' \in {p, dbLock, NoOpener}, dbLock' # dbLock => dbLock \in {p, NoOpener},
         k.pc \in {"opening", "drain", "main", "wal", "compare"} => dbLock' = p,
         Copying(p)', IsOfOneMoment(p)'
  PROVE  LeasesInv'
  <1>1. opener'[p] = k
    BY DEF LeasesInv, LeasesTypeOK
  <1>2. LeaseHeld(p)
    BY DEF LeasesInv
  <1>3. LeaseHeld(p)' /\ DbLocked(p)'
    BY <1>1, <1>2 DEF LeaseHeld, DbLocked
  <1>4. \A q \in Openers : q # p /\ dbLock = q => dbLock' = q
    OBVIOUS
  <1>5. QED
    BY <1>3, <1>4, OpenerGoesOn DEF LeasesInv, LeasesTypeOK

LEMMA GotoIsPlace ==
  ASSUME LeasesTypeOK, NEW p \in Openers, NEW pc, OpenerGoto(p, pc)
  PROVE  opener' = [opener EXCEPT ![p] = [opener[p] EXCEPT !.pc = pc, !.copy = opener[p].copy]]
  <1>1. opener[p] \in Opener
    BY OpenerTypes
  <1>2. [opener[p] EXCEPT !.pc = pc] = [opener[p] EXCEPT !.pc = pc, !.copy = opener[p].copy]
    BY <1>1 DEF Opener
  <1>3. QED
    BY <1>2 DEF OpenerGoto

\* p's own record after such a step.
LEMMA OwnPlace ==
  ASSUME LeasesTypeOK, NEW p \in Openers, NEW pc \in OpenerPCs,
         NEW c \in Copy, opener' = [opener EXCEPT ![p] = [opener[p] EXCEPT !.pc = pc, !.copy = c]]
  PROVE  /\ opener'[p].pc = pc /\ opener'[p].copy = c /\ opener'[p].lease = opener[p].lease
         /\ opener'[p] \in Opener /\ opener' = [opener EXCEPT ![p] = opener'[p]]
         /\ \A q \in Openers : q # p => opener'[q] = opener[q]
  <1> DEFINE k == [opener[p] EXCEPT !.pc = pc, !.copy = c]
  <1>1. opener[p] \in Opener
    BY OpenerTypes
  <1>2. k.pc = pc /\ k.copy = c /\ k.lease = opener[p].lease /\ k \in Opener
    BY <1>1 DEF Opener
  <1>3. opener' = [opener EXCEPT ![p] = k]
    OBVIOUS
  <1> HIDE DEF k
  <1>4. opener'[p] = k /\ \A q \in Openers : q # p => opener'[q] = opener[q]
    BY <1>3 DEF LeasesTypeOK
  <1>5. QED
    BY <1>2, <1>3, <1>4

\* The steps that copy nothing and lead to a place where nothing was copied.
LEMMA OpenerRests ==
  ASSUME LeasesInv, NEW p \in Openers, NEW pc \in OpenerPCs, NEW c \in Copy,
         pc \in {"idle", "open", "release", "drain"},
         opener' = [opener EXCEPT ![p] = [opener[p] EXCEPT !.pc = pc, !.copy = c]],
         UNCHANGED <<dbMain, dbWal, leases>>, opener[p].pc # "lease",
         pc = "idle" => opener[p].lease = 0,
         pc \in {"open", "release"} => opener[p].lease # 0,
         dbLock' \in {p, dbLock, NoOpener}, dbLock' # dbLock => dbLock \in {p, NoOpener},
         pc = "drain" => dbLock' = p
  PROVE  LeasesInv'
  <1> DEFINE k == opener'[p]
  <1>1. k \in Opener /\ k.pc = pc /\ k.lease = opener[p].lease /\ opener' = [opener EXCEPT ![p] = k]
    BY OwnPlace DEF LeasesInv
  <1>2. Copying(p)' /\ IsOfOneMoment(p)'
    BY <1>1 DEF Copying, IsOfOneMoment, OpenerAt
  <1> HIDE DEF k
  <1>3. QED
    BY <1>1, <1>2, OpenerMoves

LEMMA OpenedInv ==
  ASSUME LeasesInv, NEW p \in Openers, NEW ok \in BOOLEAN, Opened(p, ok)
  PROVE  LeasesInv'
  <1>1. /\ opener[p].pc = "opening" /\ dbLock = p /\ dbLock' = NoOpener /\ UNCHANGED <<dbMain, dbWal>>
        /\ opener[p].lease # 0 /\ opener[p].lease \in LeaseIds /\ opener[p].copy \in Copy
    BY OpenerTypes DEF Opened, OpenerAt, UnlockDb, LeasesInv, LeaseHeld, DbLocked
  <1>2. CASE ok
    <2>1. OpenerGoto(p, "open") /\ leases' = leases
      BY <1>2 DEF Opened
    <2>2. QED
      <3>1. opener' = [opener EXCEPT ![p] = [opener[p] EXCEPT !.pc = "open", !.copy = opener[p].copy]]
        BY <2>1, GotoIsPlace DEF LeasesInv
      <3>2. "open" \in OpenerPCs
        BY DEF OpenerPCs
      <3>3. QED
        BY <1>1, <2>1, <3>1, <3>2, OpenerRests
  <1>3. CASE ~ok
    <2>1. opener' = [opener EXCEPT ![p] = NoOpening] /\ opener'[p] = NoOpening
          /\ leases' = [leases EXCEPT ![opener[p].lease] = NoLease]
      BY <1>3 DEF Opened, RemoveLease, LeasesInv, LeasesTypeOK
    <2>2. /\ leases' \in [LeaseIds -> LeaseFile \cup {NoLease}]
          /\ \A i \in LeaseIds : i # opener[p].lease => leases'[i] = leases[i]
      BY <1>1, <2>1 DEF LeasesInv, LeasesTypeOK
    <2>3. \A q \in Openers : q # p /\ opener[q].lease # 0 =>
            opener[q].lease # opener[p].lease /\ opener[q].lease \in LeaseIds
      BY <1>1, OpenerTypes, LeasesDiffer DEF LeasesInv
    <2>4. \A q \in Openers : q # p /\ opener[q].lease # 0 => leases'[opener[q].lease] = leases[opener[q].lease]
      BY <2>2, <2>3
    <2>5. LeaseHeld(p)' /\ DbLocked(p)' /\ Copying(p)' /\ IsOfOneMoment(p)'
      BY <2>1, Forgets
    <2>6. QED
      BY <1>1, <2>1, <2>2, <2>4, <2>5, FreshIsOpener, OpenerGoesOn
  <1>4. QED
    BY <1>2, <1>3

LEMMA ReleaseLeaseInv ==
  ASSUME LeasesInv, NEW p \in Openers, ReleaseLease(p)
  PROVE  LeasesInv'
  <1>1. /\ opener[p].pc = "release" /\ UNCHANGED <<dbMain, dbWal, dbLock>>
        /\ opener[p].lease # 0 /\ opener[p].lease \in LeaseIds
    BY OpenerTypes DEF ReleaseLease, OpenerAt, LeasesInv, LeaseHeld
  <1>2. opener' = [opener EXCEPT ![p] = NoOpening] /\ opener'[p] = NoOpening
        /\ leases' = [leases EXCEPT ![opener[p].lease] = NoLease]
    BY DEF ReleaseLease, RemoveLease, LeasesInv, LeasesTypeOK
  <1>3. /\ leases' \in [LeaseIds -> LeaseFile \cup {NoLease}]
        /\ \A i \in LeaseIds : i # opener[p].lease => leases'[i] = leases[i]
    BY <1>1, <1>2 DEF LeasesInv, LeasesTypeOK
  <1>4. \A q \in Openers : q # p /\ opener[q].lease # 0 =>
          opener[q].lease # opener[p].lease /\ opener[q].lease \in LeaseIds
    BY <1>1, OpenerTypes, LeasesDiffer DEF LeasesInv
  <1>5. LeaseHeld(p)' /\ DbLocked(p)' /\ Copying(p)' /\ IsOfOneMoment(p)'
    BY <1>2, Forgets
  <1>6. \A q \in Openers : q # p /\ opener[q].lease # 0 => leases'[opener[q].lease] = leases[opener[q].lease]
    BY <1>3, <1>4
  <1>7. dbLock' \in Openers \cup {NoOpener} /\ \A q \in Openers : q # p /\ dbLock = q => dbLock' = q
    BY <1>1 DEF LeasesInv, LeasesTypeOK
  <1>8. NoOpening \in Opener /\ NoOpening.lease \in {0, opener[p].lease}
    BY FreshIsOpener
  <1>9. QED
    BY <1>1, <1>2, <1>3, <1>5, <1>6, <1>7, <1>8, OpenerGoesOn

\* A transaction is made by a process that has the database open: nobody is copying.
LEMMA DatabaseChanges ==
  ASSUME LeasesInv, NEW p \in Openers, CommitDb(p) \/ BackfillWal(p)
  PROVE  LeasesInv'
  <1>1. opener[p].pc = "open" /\ opener[p].lease # 0 /\ UNCHANGED <<dbLock, leases, opener>>
    BY DEF CommitDb, BackfillWal, OpenerAt, LeasesInv, LeaseHeld
  <1>2. \A q \in Openers : opener[q].pc \notin {"main", "wal", "compare"}
    BY <1>1 DEF LeasesInv, Copying
  <1>3. dbMain \in 0..MaxCommits /\ dbWal \in [base : 0..MaxCommits, top : 0..MaxCommits]
        /\ dbWal.base <= dbMain /\ dbMain <= dbWal.top
    BY DEF LeasesInv, LeasesTypeOK, DbCommits, Wal, WalReachesBack
  <1>4. dbMain' \in DbCommits /\ dbWal' \in Wal /\ WalReachesBack'
    <2>1. CASE CommitDb(p)
      BY <1>3, <2>1 DEF CommitDb, WalReachesBack, DbCommits, Wal
    <2>2. CASE BackfillWal(p)
      <3>1. dbMain' \in DbCommits /\ dbMain' > dbMain /\ dbMain' <= dbWal.top
        BY <1>3, <2>2 DEF BackfillWal, DbCommits
      <3>2. dbWal' = dbWal \/ dbWal' = [base |-> dbMain', top |-> dbMain']
        BY <2>2 DEF BackfillWal
      <3>3. QED
        BY <1>3, <3>1, <3>2 DEF WalReachesBack, DbCommits, Wal
    <2>3. QED
      BY <2>1, <2>2
  <1>5. LeasesTypeOK'
    BY <1>1, <1>4 DEF LeasesInv, LeasesTypeOK
  <1>6. \A q \in Openers : LeaseHeld(q)' /\ DbLocked(q)' /\ Copying(q)' /\ IsOfOneMoment(q)'
    BY <1>1, <1>2 DEF LeasesInv, LeaseHeld, DbLocked, Copying, IsOfOneMoment, OpenerAt
  <1>7. QED
    BY <1>4, <1>5, <1>6 DEF LeasesInv

LEMMA CloseDbInv ==
  ASSUME LeasesInv, NEW p \in Openers, CloseDb(p)
  PROVE  LeasesInv'
  <1>1. /\ opener[p].pc = "open" /\ opener[p].lease # 0 /\ opener[p].copy \in Copy
        /\ OpenerGoto(p, "release") /\ "release" \in OpenerPCs /\ UNCHANGED <<dbMain, dbWal, leases, dbLock>>
    BY OpenerTypes DEF CloseDb, OpenerPCs, OpenerAt, LeasesInv, LeaseHeld
  <1>2. opener' = [opener EXCEPT ![p] = [opener[p] EXCEPT !.pc = "release", !.copy = opener[p].copy]]
    BY <1>1, GotoIsPlace DEF LeasesInv
  <1>3. QED
    BY <1>1, <1>2, OpenerRests

LEMMA BeginSnapshotInv ==
  ASSUME LeasesInv, NEW p \in Openers, BeginSnapshot(p)
  PROVE  LeasesInv'
  <1>1. /\ opener[p].pc # "lease" /\ opener[p].copy \in Copy /\ dbLock = NoOpener /\ dbLock' = p
        /\ OpenerGoto(p, "drain") /\ "drain" \in OpenerPCs /\ UNCHANGED <<dbMain, dbWal, leases>>
    BY OpenerTypes DEF BeginSnapshot, OpenerPCs, LeasesInv
  <1>2. opener' = [opener EXCEPT ![p] = [opener[p] EXCEPT !.pc = "drain", !.copy = opener[p].copy]]
    BY <1>1, GotoIsPlace DEF LeasesInv
  <1>3. QED
    BY <1>1, <1>2, OpenerRests

\* The lease of a living process is neither dead nor, outside the lock, empty.
LEMMA ReclaimLeaseInv ==
  ASSUME LeasesInv, NEW p \in Openers, NEW i \in LeaseIds, ReclaimLease(p, i)
  PROVE  LeasesInv'
  <1>1. /\ opener[p].pc = "drain" /\ dbLock = p /\ UNCHANGED <<dbMain, dbWal, dbLock, opener>>
        /\ leases' = [leases EXCEPT ![i] = NoLease]
        /\ leases[i].is = "empty" \/ leases[i].dead
    BY DEF ReclaimLease, OpenerAt, RemoveLease, Reclaimable, LeasesInv, DbLocked
  <1>2. ASSUME NEW q \in Openers, opener[q].lease # 0
        PROVE  opener[q].lease # i
    <2>1. opener[q].pc # "lease"
      BY <1>1 DEF LeasesInv, DbLocked
    <2>2. QED
      BY <1>1, <1>2, <2>1 DEF LeasesInv, LeaseHeld
  <1>3. LeasesTypeOK' /\ WalReachesBack' /\ \A j \in LeaseIds : j # i => leases'[j] = leases[j]
    BY <1>1 DEF LeasesInv, LeasesTypeOK, WalReachesBack
  <1>4. \A q \in Openers : LeaseHeld(q)'
    BY <1>1, <1>2, <1>3, OpenerTypes DEF LeasesInv, LeaseHeld
  <1>5. \A q \in Openers : DbLocked(q)' /\ Copying(q)' /\ IsOfOneMoment(q)'
    BY <1>1 DEF LeasesInv, DbLocked, Copying, IsOfOneMoment, OpenerAt
  <1>6. QED
    BY <1>3, <1>4, <1>5 DEF LeasesInv

LEMMA CopyTypes ==
  ASSUME NEW c \in Copy
  PROVE  /\ \A m \in DbCommits : [c EXCEPT !.main = m] \in Copy /\ [c EXCEPT !.main = m].main = m
                                 /\ [c EXCEPT !.main = m].seen = c.seen
         /\ \A w \in Wal : [c EXCEPT !.wal = w] \in Copy /\ [c EXCEPT !.wal = w].wal = w
                           /\ [c EXCEPT !.wal = w].main = c.main /\ [c EXCEPT !.wal = w].seen = c.seen
         /\ \A s \in DbCommits \X Wal : [c EXCEPT !.seen = s] \in Copy /\ [c EXCEPT !.seen = s].seen = s
  BY DEF Copy

\* The steps of the copying itself: nobody else has the database open.
LEMMA Copies ==
  ASSUME LeasesInv, NEW p \in Openers, NEW pc \in OpenerPCs, NEW c \in Copy,
         opener' = [opener EXCEPT ![p] = [opener[p] EXCEPT !.pc = pc, !.copy = c]],
         pc \in {"main", "wal", "compare"}, opener[p].pc # "lease", dbLock = p,
         UNCHANGED <<dbMain, dbWal, dbLock, leases>>,
         \A q \in Openers : q # p => opener[q].lease = 0,
         c.seen = <<dbMain, dbWal>>,
         pc \in {"wal", "compare"} => c.main = dbMain,
         pc = "compare" => c.wal = dbWal
  PROVE  LeasesInv'
  <1> DEFINE k == opener'[p]
  <1>0. LeasesTypeOK
    BY DEF LeasesInv
  <1>1. /\ k \in Opener /\ k.pc = pc /\ k.copy = c /\ k.lease = opener[p].lease
        /\ opener' = [opener EXCEPT ![p] = k] /\ \A q \in Openers : q # p => opener'[q] = opener[q]
    <2>1. /\ opener'[p].pc = pc /\ opener'[p].copy = c /\ opener'[p].lease = opener[p].lease
          /\ opener'[p] \in Opener /\ opener' = [opener EXCEPT ![p] = opener'[p]]
          /\ \A q \in Openers : q # p => opener'[q] = opener[q]
      BY ONLY <1>0, p \in Openers, pc \in OpenerPCs, c \in Copy, OwnPlace,
              opener' = [opener EXCEPT ![p] = [opener[p] EXCEPT !.pc = pc, !.copy = c]], ZenonT(60)
    <2>2. QED
      BY ONLY <2>1, Zenon
  <1>2. Copying(p)'
    BY <1>1 DEF Copying
  <1>3. IsOfOneMoment(p)'
    BY <1>1 DEF IsOfOneMoment, OpenerAt
  <1> HIDE DEF k
  <1>4. QED
    BY <1>1, <1>2, <1>3, OpenerMoves

\* Once the leases are drained, no other process has one.
LEMMA DrainedInv ==
  ASSUME LeasesInv, NEW p \in Openers, Drained(p)
  PROVE  LeasesInv'
  <1> DEFINE c == [opener[p].copy EXCEPT !.seen = <<dbMain, dbWal>>]
  <1>1. /\ opener[p].pc = "drain" /\ dbLock = p /\ UNCHANGED <<dbMain, dbWal, dbLock, leases>>
        /\ \A i \in TakenLeases : OwnLease(p, i)
    BY DEF Drained, OpenerAt, LeasesInv, DbLocked
  <1>2. ASSUME NEW q \in Openers, q # p
        PROVE  opener[q].lease = 0
    <2>1. SUFFICES ASSUME opener[q].lease # 0 PROVE FALSE
      OBVIOUS
    <2>2. opener[q].lease \in LeaseIds
      BY <2>1, OpenerTypes DEF LeasesInv
    <2>3. leases[opener[q].lease].owner = q
      BY <2>1 DEF LeasesInv, LeaseHeld
    <2>4. leases[opener[q].lease] # NoLease
      BY <2>3 DEF NoLease
    <2>5. QED
      BY <1>1, <1>2, <2>2, <2>3, <2>4 DEF TakenLeases, OwnLease
  <1>3. c \in Copy /\ c.seen = <<dbMain, dbWal>>
    BY OpenerTypes, CopyTypes DEF LeasesInv, LeasesTypeOK
  <1>4. opener' = [opener EXCEPT ![p] = [opener[p] EXCEPT !.pc = "main", !.copy = c]]
    <2>1. opener[p] \in Opener
      BY OpenerTypes DEF LeasesInv
    <2>2. QED
      BY <2>1 DEF Drained, Opener, Copy, LeasesInv, LeasesTypeOK
  <1> HIDE DEF c
  <1>5. "main" \in OpenerPCs
    BY DEF OpenerPCs
  <1>6. QED
    BY <1>1, <1>2, <1>3, <1>4, <1>5, Copies

LEMMA CopyMainInv ==
  ASSUME LeasesInv, NEW p \in Openers, CopyMain(p)
  PROVE  LeasesInv'
  <1> DEFINE c == [opener[p].copy EXCEPT !.main = dbMain]
  <1>1. /\ opener[p].pc = "main" /\ dbLock = p /\ UNCHANGED <<dbMain, dbWal, dbLock, leases>>
        /\ opener[p].copy.seen = <<dbMain, dbWal>> /\ \A q \in Openers : q # p => opener[q].lease = 0
    BY DEF CopyMain, OpenerAt, LeasesInv, DbLocked, Copying
  <1>2. c \in Copy /\ c.main = dbMain /\ c.seen = <<dbMain, dbWal>>
    BY <1>1, OpenerTypes, CopyTypes DEF LeasesInv, LeasesTypeOK
  <1>3. opener' = [opener EXCEPT ![p] = [opener[p] EXCEPT !.pc = "wal", !.copy = c]]
    <2>1. opener[p] \in Opener
      BY OpenerTypes DEF LeasesInv
    <2>2. QED
      BY <2>1 DEF CopyMain, Opener, Copy, LeasesInv, LeasesTypeOK
  <1> HIDE DEF c
  <1>4. "wal" \in OpenerPCs
    BY DEF OpenerPCs
  <1>5. QED
    BY <1>1, <1>2, <1>3, <1>4, Copies

LEMMA CopyWalInv ==
  ASSUME LeasesInv, NEW p \in Openers, CopyWal(p)
  PROVE  LeasesInv'
  <1> DEFINE c == [opener[p].copy EXCEPT !.wal = dbWal]
  <1>1. /\ opener[p].pc = "wal" /\ dbLock = p /\ UNCHANGED <<dbMain, dbWal, dbLock, leases>>
        /\ opener[p].copy.seen = <<dbMain, dbWal>> /\ opener[p].copy.main = dbMain
        /\ \A q \in Openers : q # p => opener[q].lease = 0
    BY DEF CopyWal, OpenerAt, LeasesInv, DbLocked, Copying
  <1>2. c \in Copy /\ c.wal = dbWal /\ c.main = dbMain /\ c.seen = <<dbMain, dbWal>>
    BY <1>1, OpenerTypes, CopyTypes DEF LeasesInv, LeasesTypeOK
  <1>3. opener' = [opener EXCEPT ![p] = [opener[p] EXCEPT !.pc = "compare", !.copy = c]]
    <2>1. opener[p] \in Opener
      BY OpenerTypes DEF LeasesInv
    <2>2. QED
      BY <2>1 DEF CopyWal, Opener, Copy, LeasesInv, LeasesTypeOK
  <1> HIDE DEF c
  <1>4. "compare" \in OpenerPCs
    BY DEF OpenerPCs
  <1>5. QED
    BY <1>1, <1>2, <1>3, <1>4, Copies

LEMMA CompareSourcesInv ==
  ASSUME LeasesInv, NEW p \in Openers, NEW shows \in BOOLEAN, CompareSources(p, shows)
  PROVE  LeasesInv'
  <1>1. /\ opener[p].pc = "compare" /\ dbLock = p /\ dbLock' = NoOpener /\ UNCHANGED <<dbMain, dbWal, leases>>
        /\ opener[p].copy.seen = <<dbMain, dbWal>> /\ opener[p].copy.main = dbMain /\ opener[p].copy.wal = dbWal
    BY DEF CompareSources, UnlockDb, OpenerAt, LeasesInv, DbLocked, Copying
  <1>2. OpenerGoto(p, "copied")
    BY <1>1 DEF CompareSources
  <1>3. opener' = [opener EXCEPT ![p] = [opener[p] EXCEPT !.pc = "copied", !.copy = opener[p].copy]]
    BY <1>2, GotoIsPlace DEF LeasesInv
  <1>4. "copied" \in OpenerPCs /\ opener[p].copy \in Copy
    BY OpenerTypes DEF OpenerPCs, LeasesInv
  <1> DEFINE k == opener'[p]
  <1>5. /\ k \in Opener /\ k.pc = "copied" /\ k.copy = opener[p].copy /\ k.lease = opener[p].lease
        /\ opener' = [opener EXCEPT ![p] = k]
    <2>1. LeasesTypeOK
      BY DEF LeasesInv
    <2>2. QED
      BY <1>3, <1>4, <2>1, OwnPlace, ZenonT(60)
  <1>6. Copying(p)'
    BY <1>5 DEF Copying
  <1>7. IsOfOneMoment(p)'
    BY <1>1, <1>5 DEF IsOfOneMoment, OpenerAt, LeasesInv, WalReachesBack
  <1> HIDE DEF k
  <1>8. QED
    BY <1>1, <1>5, <1>6, <1>7, OpenerMoves

LEMMA SnapshotDoneInv ==
  ASSUME LeasesInv, NEW p \in Openers, SnapshotDone(p)
  PROVE  LeasesInv'
  <1>1. /\ opener[p].pc \in {"copied", "drain", "main", "wal"} /\ UNCHANGED <<dbMain, dbWal, leases>>
        /\ opener' = [opener EXCEPT ![p].pc = BackFromCopy(p), ![p].copy = NoCopy]
        /\ dbLock' = IF opener[p].pc = "copied" THEN dbLock ELSE NoOpener
    BY DEF SnapshotDone, OpenerAt
  <1>2. opener[p].pc # "copied" => dbLock = p
    BY <1>1 DEF LeasesInv, DbLocked
  <1>3. BackFromCopy(p) \in OpenerPCs /\ BackFromCopy(p) \in {"idle", "open"}
        /\ (BackFromCopy(p) = "idle" <=> opener[p].lease = 0)
    BY DEF BackFromCopy, OpenerPCs
  <1>4. NoCopy \in Copy
    BY DEF NoCopy, Copy, Wal, DbCommits
  <1>5. opener' = [opener EXCEPT ![p] = [opener[p] EXCEPT !.pc = BackFromCopy(p), !.copy = NoCopy]]
    <2>1. opener[p] \in Opener
      BY OpenerTypes DEF LeasesInv
    <2>2. QED
      BY <1>1, <2>1 DEF Opener, LeasesInv, LeasesTypeOK
  <1>6. QED
    BY <1>1, <1>2, <1>3, <1>4, <1>5, OpenerRests

\* Only the leases of the dead are marked, and the dead one has forgotten its lease.
LEMMA OpenerDiesInv ==
  ASSUME LeasesInv, NEW p \in Openers, OpenerDies(p)
  PROVE  LeasesInv'
  <1>1. /\ UNCHANGED <<dbMain, dbWal>> /\ opener' = [opener EXCEPT ![p] = NoOpening]
        /\ leases' = [i \in LeaseIds |-> IF leases[i].owner = p THEN [leases[i] EXCEPT !.dead = TRUE] ELSE leases[i]]
        /\ dbLock' = IF dbLock = p THEN NoOpener ELSE dbLock
    BY DEF OpenerDies
  <1>2. opener'[p] = NoOpening
    BY <1>1 DEF LeasesInv, LeasesTypeOK
  <1>3. \A i \in LeaseIds : leases'[i] \in LeaseFile \cup {NoLease}
    <2>1. TAKE i \in LeaseIds
    <2>2. leases[i] \in LeaseFile \cup {NoLease}
      BY DEF LeasesInv, LeasesTypeOK
    <2>3. leases[i].owner = p => leases[i] \in LeaseFile
      BY <2>2 DEF NoLease
    <2>4. leases[i] \in LeaseFile => [leases[i] EXCEPT !.dead = TRUE] \in LeaseFile
      BY DEF LeaseFile
    <2>5. QED
      BY <1>1, <2>2, <2>3, <2>4
  <1>4. leases' \in [LeaseIds -> LeaseFile \cup {NoLease}]
    BY <1>1, <1>3
  <1>5. \A q \in Openers : q # p /\ opener[q].lease # 0 => leases'[opener[q].lease] = leases[opener[q].lease]
    BY <1>1, OpenerTypes DEF LeasesInv, LeaseHeld
  <1>6. dbLock' \in Openers \cup {NoOpener} /\ \A q \in Openers : q # p /\ dbLock = q => dbLock' = q
    BY <1>1 DEF LeasesInv, LeasesTypeOK
  <1>7. LeaseHeld(p)' /\ DbLocked(p)' /\ Copying(p)' /\ IsOfOneMoment(p)'
    BY <1>2, Forgets
  <1>8. QED
    BY <1>1, <1>4, <1>5, <1>6, <1>7, FreshIsOpener, OpenerGoesOn

LEMMA LeaseAgesInv ==
  ASSUME LeasesInv, NEW i \in LeaseIds, LeaseAges(i)
  PROVE  LeasesInv'
  <1>1. /\ leases[i] # NoLease /\ leases' = [leases EXCEPT ![i] = [leases[i] EXCEPT !.old = TRUE]]
        /\ UNCHANGED <<dbMain, dbWal, dbLock, opener>>
    BY DEF LeaseAges, TakenLeases
  <1>2. leases[i] \in LeaseFile
    BY <1>1 DEF LeasesInv, LeasesTypeOK
  <1> DEFINE l == [leases[i] EXCEPT !.old = TRUE]
  <1>3. l \in LeaseFile /\ l.owner = leases[i].owner /\ l.dead = leases[i].dead /\ l.is = leases[i].is
    BY <1>2 DEF LeaseFile
  <1>4. leases' = [leases EXCEPT ![i] = l]
    BY <1>1
  <1> HIDE DEF l
  <1>5. /\ leases' \in [LeaseIds -> LeaseFile \cup {NoLease}]
        /\ leases'[i] = l /\ \A j \in LeaseIds : j # i => leases'[j] = leases[j]
    BY <1>3, <1>4 DEF LeasesInv, LeasesTypeOK
  <1>6. LeasesTypeOK' /\ WalReachesBack'
    BY <1>1, <1>5 DEF LeasesInv, LeasesTypeOK, WalReachesBack
  <1>7. ASSUME NEW q \in Openers
        PROVE  LeaseHeld(q)'
    <2>1. opener[q].lease # 0 => opener[q].lease \in LeaseIds
      BY OpenerTypes DEF LeasesInv
    <2>2. QED
      BY <1>1, <1>3, <1>5, <2>1 DEF LeasesInv, LeaseHeld
  <1>8. \A q \in Openers : DbLocked(q)' /\ Copying(q)' /\ IsOfOneMoment(q)'
    BY <1>1 DEF LeasesInv, DbLocked, Copying, IsOfOneMoment, OpenerAt
  <1>9. QED
    BY <1>6, <1>7, <1>8 DEF LeasesInv

LEMMA LeasesInitInv ==
  ASSUME LeasesInit
  PROVE  LeasesInv
  <1>1. LeasesTypeOK
    BY FreshIsOpener DEF LeasesInit, LeasesTypeOK, DbCommits, Wal
  <1>2. WalReachesBack
    BY DEF LeasesInit, WalReachesBack
  <1>3. \A p \in Openers : LeaseHeld(p) /\ DbLocked(p) /\ Copying(p) /\ IsOfOneMoment(p)
    BY DEF LeasesInit, NoOpening, LeaseHeld, DbLocked, Copying, IsOfOneMoment, OpenerAt
  <1>4. QED
    BY <1>1, <1>2, <1>3 DEF LeasesInv

LEMMA LeasesStep ==
  ASSUME LeasesInv, [LeasesNext]_leaseVars
  PROVE  LeasesInv'
  <1>1. CASE UNCHANGED leaseVars
    BY <1>1 DEF leaseVars, LeasesInv, LeasesTypeOK, WalReachesBack, LeaseHeld, DbLocked, Copying, IsOfOneMoment,
                OpenerAt
  <1>2. ASSUME NEW i \in LeaseIds, LeaseAges(i)
        PROVE  LeasesInv'
    BY <1>2, LeaseAgesInv
  <1>3. ASSUME NEW p \in Openers,
               \/ OpenDb(p) \/ CommitDb(p) \/ BackfillWal(p) \/ CloseDb(p) \/ ReleaseLease(p) \/ OpenerDies(p)
               \/ BeginSnapshot(p) \/ Drained(p) \/ CopyMain(p) \/ CopyWal(p) \/ SnapshotDone(p)
        PROVE  LeasesInv'
    BY <1>3, OpenDbInv, DatabaseChanges, CloseDbInv, ReleaseLeaseInv, OpenerDiesInv, BeginSnapshotInv, DrainedInv,
       CopyMainInv, CopyWalInv, SnapshotDoneInv
  <1>4. ASSUME NEW p \in Openers, NEW i \in LeaseIds, ReclaimLease(p, i)
        PROVE  LeasesInv'
    BY <1>4, ReclaimLeaseInv
  <1>5. ASSUME NEW p \in Openers, NEW ok \in BOOLEAN,
               Opened(p, ok) \/ CompareSources(p, ok) \/ \E is \in {"empty", "written"} : WriteLease(p, is, ok)
        PROVE  LeasesInv'
    BY <1>5, OpenedInv, CompareSourcesInv, WriteLeaseInv
  <1>6. QED
    BY <1>1, <1>2, <1>3, <1>4, <1>5 DEF LeasesNext

\* Whatever the interleaving of opening, committing, log copying, dying and lease reclaiming, a copy
\* of evolution.db that is handed out holds no transaction twice and lacks none up to one moment,
\* for any number of processes, transactions and leases.
THEOREM CopyIsOfOneMomentHolds == LeasesSpec => []CopyIsOfOneMoment
  <1>1. LeasesInit => LeasesInv
    BY LeasesInitInv
  <1>2. LeasesInv /\ [LeasesNext]_leaseVars => LeasesInv'
    BY LeasesStep
  <1>3. LeasesInv => CopyIsOfOneMoment
    BY DEF LeasesInv, IsOfOneMoment, CopyIsOfOneMoment
  <1>4. QED
    BY <1>1, <1>2, <1>3, PTL DEF LeasesSpec

-----------------------------------------------------------------------------
\* A non-empty set of natural numbers has a least member.
LEMMA LeastMember ==
  ASSUME NEW S \in SUBSET Nat, S # {}
  PROVE  \E n \in S : \A m \in S : n <= m
  <1> DEFINE R == {ss \in Nat \X Nat : ss[1] < ss[2]}
  <1>1. IsWellFoundedOn(R, Nat)
    BY NatLessThanWellFounded DEF OpToRel
  <1>2. \A x, y \in Nat : <<y, x>> \notin R => x <= y
    OBVIOUS
  <1> HIDE DEF R
  <1>3. PICK x \in S : \A y \in S : <<y, x>> \notin R
    BY <1>1, WFMin
  <1>4. QED
    BY <1>2, <1>3

\* A non-empty set of numbers up to N has a greatest member.
LEMMA GreatestMember ==
  ASSUME NEW N \in Nat, NEW S \in SUBSET (0..N), S # {}
  PROVE  \E n \in S : \A m \in S : m <= n
  <1> DEFINE T == {N - n : n \in S}
  <1>1. \A n \in S : n \in 0..N /\ N - n \in Nat
    OBVIOUS
  <1>2. T \in SUBSET Nat /\ T # {}
    BY <1>1
  <1>3. \A m \in S : N - m \in T
    OBVIOUS
  <1>4. \A k \in T : \E n \in S : k = N - n
    OBVIOUS
  <1> HIDE DEF T
  <1>5. PICK k \in T : \A l \in T : k <= l
    BY <1>2, LeastMember
  <1>6. PICK n \in S : k = N - n
    BY <1>4
  <1>7. \A m \in S : N - n <= N - m
    BY <1>3, <1>5, <1>6
  <1>8. QED
    BY <1>1, <1>7

-----------------------------------------------------------------------------
(* EvolutionApply: the inductive invariant.                                  *)

UndoCommand == [pc : ApplySteps, m : Muts, phase : ApplyEnds, undo : Muts]

\* What a command at its step has made sure of; nobody but a command brings the content.
CommandKnows(c) ==
  /\ c.pc \in {"remove", "removed", "restore"} => c \in UndoCommand
  /\ c.pc = "validate" => MutIs(c.m, "committed")
  /\ c.pc = "terminal" => IF c.phase = "commit" THEN MutIs(c.m, "committed") ELSE artifact # "ours"
  /\ c.pc = "removed" => artifact # "ours"
  /\ c.pc \in {"undo", "remove", "removed"} => c.phase # "commit"
  /\ c.pc = "check" => c.phase = "abort"

\* One application is live or under way, none when a command is about to prepare one.
OneOpenApply ==
  /\ \A m, n \in Live \cup Pending : m = n
  /\ cmd.pc = "prepare" => Live \cup Pending = {}

ApplyInv == ApplyTypeOK /\ OneOpenApply /\ CommandKnows(cmd)

-----------------------------------------------------------------------------

\* A command in the middle.
LEMMA CommandTypes ==
  ASSUME ApplyTypeOK
  PROVE  /\ cmd.pc \in ApplySteps => cmd.m \in Muts /\ cmd.phase \in ApplyEnds
         /\ cmd.pc \in ApplySteps \cup {"idle", "recover"}
         /\ cmd.pc = "idle" => cmd = NoCmd
  <1>1. CASE cmd = NoCmd
    BY <1>1 DEF NoCmd, ApplySteps
  <1>2. CASE cmd \in [pc : {"recover"}, want : {"apply", "rollback"}]
    BY <1>2 DEF ApplySteps
  <1>3. ASSUME cmd.pc \in ApplySteps, cmd.m \in Muts, cmd.phase \in ApplyEnds
        PROVE  cmd.pc # "idle"
    BY <1>3 DEF ApplySteps
  <1>4. QED
    BY <1>1, <1>2, <1>3 DEF ApplyTypeOK, ApplyCommand

\* A command goes on.
LEMMA CommandGoes ==
  ASSUME ApplyTypeOK, cmd.pc \in ApplySteps, NEW pc \in ApplySteps, NEW ph \in ApplyEnds,
         \/ ApplyGoto(pc) /\ ph = cmd.phase
         \/ cmd' = [cmd EXCEPT !.pc = pc, !.phase = ph]
  PROVE  /\ cmd' \in ApplyCommand /\ cmd'.pc = pc /\ cmd'.m = cmd.m /\ cmd'.phase = ph
         /\ cmd \in UndoCommand => cmd' \in UndoCommand
  <1>1. CASE cmd \in [pc : ApplySteps, m : Muts, phase : ApplyEnds]
    BY <1>1 DEF ApplyGoto, ApplyCommand, UndoCommand
  <1>2. CASE cmd \in [pc : ApplySteps, m : Muts, phase : ApplyEnds, recovering : {TRUE}]
    BY <1>2 DEF ApplyGoto, ApplyCommand, UndoCommand
  <1>3. CASE cmd \in UndoCommand
    BY <1>3 DEF ApplyGoto, ApplyCommand, UndoCommand
  <1>4. cmd \notin [pc : {"recover"}, want : {"apply", "rollback"}] /\ cmd # NoCmd
    BY DEF ApplySteps, NoCmd
  <1>5. QED
    BY <1>1, <1>2, <1>3, <1>4 DEF ApplyTypeOK, ApplyCommand, UndoCommand

LEMMA FaultsCounted ==
  ASSUME ApplyTypeOK, NoFault \/ ApplyFault
  PROVE  failures' \in 0..MaxApplyFaults
  BY ApplyAssumption DEF ApplyTypeOK, NoFault, ApplyFault

LEMMA JournalLengths ==
  ASSUME ApplyTypeOK
  PROVE  /\ Len(applies) \in Nat /\ Len(mutations) \in Nat
         /\ \A i \in 1..Len(applies) : applies[i] \in ApplyEvent
         /\ MutRecords \subseteq MutRecord
  BY LenProperties, ElementOfSeq DEF ApplyTypeOK, MutRecords

\* The mutation journal only grows.
Recording ==
  /\ mutations' \in Seq(MutRecord)
  /\ \A id, status : MutIs(id, status) => MutIs(id, status)'

LEMMA MutationLogged ==
  ASSUME ApplyTypeOK, NEW r \in MutRecord, LogMut(r)
  PROVE  Recording /\ MutIs(r.id, r.status)'
  <1>1. /\ mutations' \in Seq(MutRecord) /\ Len(mutations') = Len(mutations) + 1
        /\ mutations'[Len(mutations) + 1] = r
        /\ \A i \in 1..Len(mutations) : mutations'[i] = mutations[i]
        /\ Len(mutations) \in Nat
    BY AppendProperties, LenProperties DEF ApplyTypeOK, LogMut
  <1>2. MutRecords \subseteq MutRecords' /\ r \in MutRecords'
    BY <1>1 DEF MutRecords
  <1>3. QED
    BY <1>1, <1>2 DEF Recording, MutIs

LEMMA NothingLogged ==
  ASSUME ApplyTypeOK, mutations' = mutations
  PROVE  Recording
  BY DEF ApplyTypeOK, Recording, MutIs, MutRecords

\* An event is added to the apply journal.
LEMMA EventNoted ==
  ASSUME ApplyTypeOK, NEW e \in ApplyEvent, applies' = Append(applies, e)
  PROVE  /\ applies' \in Seq(ApplyEvent) /\ Len(applies') = Len(applies) + 1
         /\ applies'[Len(applies) + 1] = e
         /\ \A m, phase : Noted(m, phase)' <=> Noted(m, phase) \/ e = [m |-> m, phase |-> phase]
  <1>1. /\ applies' \in Seq(ApplyEvent) /\ Len(applies') = Len(applies) + 1
        /\ applies'[Len(applies) + 1] = e
        /\ \A i \in 1..Len(applies) : applies'[i] = applies[i]
        /\ Len(applies) \in Nat
    BY AppendProperties, LenProperties DEF ApplyTypeOK
  <1>2. \A i \in 1..Len(applies') : i \in 1..Len(applies) \/ i = Len(applies) + 1
    BY <1>1
  <1>3. ASSUME NEW m, NEW phase
        PROVE  Noted(m, phase)' <=> Noted(m, phase) \/ e = [m |-> m, phase |-> phase]
    <2>1. Noted(m, phase)' => Noted(m, phase) \/ e = [m |-> m, phase |-> phase]
      BY <1>1, <1>2 DEF Noted
    <2>2. Noted(m, phase) => Noted(m, phase)'
      BY <1>1 DEF Noted
    <2>3. e = [m |-> m, phase |-> phase] => Noted(m, phase)'
      BY <1>1 DEF Noted
    <2>4. QED
      BY <2>1, <2>2, <2>3
  <1>4. QED
    BY <1>1, <1>3

\* A step that leaves the apply journal alone.
LEMMA JournalRests ==
  ASSUME ApplyInv, applies' = applies, Recording, artifact' \in {"absent", "ours", "drift"},
         cmd' \in ApplyCommand, artifactEdits' \in 0..MaxArtifactEdits, NoFault \/ ApplyFault,
         cmd'.pc = "prepare" => cmd.pc = "prepare" \/ Live \cup Pending = {}, CommandKnows(cmd)'
  PROVE  ApplyInv'
  <1>1. Live' = Live /\ Pending' = Pending
    BY DEF Live, Pending, Noted
  <1>2. OneOpenApply'
    BY <1>1 DEF ApplyInv, OneOpenApply
  <1>3. ApplyTypeOK'
    BY FaultsCounted DEF ApplyInv, ApplyTypeOK, Recording
  <1>4. QED
    BY <1>2, <1>3 DEF ApplyInv

\* A step of others, which do not bring the content.
LEMMA OthersStep ==
  ASSUME ApplyInv, UNCHANGED <<applies, cmd>>, Recording,
         artifact' \in {"absent", "ours", "drift"}, artifact' = "ours" => artifact = "ours",
         artifactEdits' \in 0..MaxArtifactEdits, NoFault \/ ApplyFault
  PROVE  ApplyInv'
  <1>1. CommandKnows(cmd)'
    BY DEF ApplyInv, CommandKnows, Recording
  <1>2. cmd' \in ApplyCommand
    BY DEF ApplyInv, ApplyTypeOK
  <1>3. QED
    BY <1>1, <1>2, JournalRests

\* A command ends without a word.
LEMMA CommandEnds ==
  ASSUME ApplyInv, cmd' = NoCmd, applies' = applies, Recording,
         artifact' \in {"absent", "ours", "drift"},
         artifactEdits' \in 0..MaxArtifactEdits, NoFault \/ ApplyFault
  PROVE  ApplyInv'
  <1>1. cmd' \in ApplyCommand /\ cmd'.pc = "idle"
    BY DEF NoCmd, ApplyCommand
  <1>2. CommandKnows(cmd)'
    BY <1>1 DEF CommandKnows
  <1>3. QED
    BY <1>1, <1>2, JournalRests

-----------------------------------------------------------------------------
(* EvolutionApply: applying and rolling back.                                *)

LEMMA StartApplyInv ==
  ASSUME ApplyInv, NEW want \in {"apply", "rollback"}, StartApply(want)
  PROVE  ApplyInv'
  <1>1. /\ cmd' = [pc |-> "recover", want |-> want] /\ NoFault
        /\ UNCHANGED <<applies, mutations, artifact, artifactEdits>>
    BY DEF StartApply
  <1>2. cmd' \in ApplyCommand /\ cmd'.pc = "recover"
    BY <1>1 DEF ApplyCommand
  <1>3. Recording /\ CommandKnows(cmd)'
    BY <1>1, <1>2, NothingLogged DEF ApplyInv, CommandKnows
  <1>4. QED
    BY <1>1, <1>2, <1>3, JournalRests DEF ApplyInv, ApplyTypeOK

\* A command that has recovered goes on with mutation m.
LEMMA CommandSetOut ==
  ASSUME ApplyInv, NEW m \in Muts, NEW pc \in ApplySteps, NEW ph \in ApplyEnds,
         \/ cmd' = [pc |-> pc, m |-> m, phase |-> ph]
         \/ cmd' = [pc |-> pc, m |-> m, phase |-> ph, recovering |-> TRUE]
  PROVE  cmd' \in ApplyCommand /\ cmd'.pc = pc /\ cmd'.m = m /\ cmd'.phase = ph
  <1>1. CASE cmd' = [pc |-> pc, m |-> m, phase |-> ph]
    BY <1>1 DEF ApplyCommand
  <1>2. CASE cmd' = [pc |-> pc, m |-> m, phase |-> ph, recovering |-> TRUE]
    BY <1>2 DEF ApplyCommand
  <1>3. QED
    BY <1>1, <1>2

LEMMA ProposeInv ==
  ASSUME ApplyInv, Propose
  PROVE  ApplyInv'
  <1>1. NoFault /\ UNCHANGED <<applies, mutations, artifact, artifactEdits>> /\ Recovered
    BY DEF Propose
  <1>2. Recording
    BY <1>1, NothingLogged DEF ApplyInv
  <1>3. CASE cmd' = NoCmd
    BY <1>1, <1>2, <1>3, CommandEnds DEF ApplyInv, ApplyTypeOK
  <1>4. ASSUME NEW m \in NextMut, Live = {}, cmd' = [pc |-> "prepare", m |-> m, phase |-> "abort"]
        PROVE  ApplyInv'
    <2>1. m \in Muts /\ "prepare" \in ApplySteps /\ "abort" \in ApplyEnds
      BY DEF NextMut, ApplySteps, ApplyEnds
    <2>2. cmd' \in ApplyCommand /\ cmd'.pc = "prepare"
      BY <1>4, <2>1, CommandSetOut
    <2>3. Live \cup Pending = {}
      BY <1>1, <1>4 DEF Recovered
    <2>4. CommandKnows(cmd)'
      BY <2>2 DEF CommandKnows
    <2>5. QED
      BY <1>1, <1>2, <2>2, <2>3, <2>4, JournalRests DEF ApplyInv, ApplyTypeOK
  <1>5. QED
    BY <1>3, <1>4 DEF Propose

LEMMA WithdrawInv ==
  ASSUME ApplyInv, Withdraw
  PROVE  ApplyInv'
  <1> DEFINE Done == {i \in Muts : Noted(i, "commit")}
             m == CHOOSE i \in Muts : Noted(i, "commit") /\ \A j \in Muts : Noted(j, "commit") => j <= i
  <1>1. NoFault /\ UNCHANGED <<applies, mutations, artifact, artifactEdits>>
    BY DEF Withdraw
  <1>2. Recording
    BY <1>1, NothingLogged DEF ApplyInv
  <1>3. CASE cmd' = NoCmd
    BY <1>1, <1>2, <1>3, CommandEnds DEF ApplyInv, ApplyTypeOK
  <1>4. ASSUME Done # {}
        PROVE  m \in Muts
    <2>1. Done \in SUBSET (0..MaxMutations) /\ MaxMutations \in Nat
      BY ApplyAssumption DEF Muts
    <2>2. PICK i \in Done : \A j \in Done : j <= i
      BY <1>4, <2>1, GreatestMember
    <2>3. QED
      BY <2>2
  <1>5. ASSUME Done # {}, artifact # "ours", cmd' = [pc |-> "terminal", m |-> m, phase |-> "rollback"]
        PROVE  ApplyInv'
    <2>1. "terminal" \in ApplySteps /\ "rollback" \in ApplyEnds
      BY DEF ApplySteps, ApplyEnds
    <2>2. cmd' \in ApplyCommand /\ cmd'.pc = "terminal" /\ cmd'.phase = "rollback"
      BY <1>4, <1>5, <2>1, CommandSetOut
    <2>3. CommandKnows(cmd)'
      BY <1>1, <1>5, <2>2 DEF CommandKnows
    <2>4. QED
      BY <1>1, <1>2, <2>2, <2>3, JournalRests DEF ApplyInv, ApplyTypeOK
  <1>6. ASSUME Done # {}, cmd' = [pc |-> "undo", m |-> m, phase |-> "rollback"]
        PROVE  ApplyInv'
    <2>1. "undo" \in ApplySteps /\ "rollback" \in ApplyEnds
      BY DEF ApplySteps, ApplyEnds
    <2>2. cmd' \in ApplyCommand /\ cmd'.pc = "undo" /\ cmd'.phase = "rollback"
      BY <1>4, <1>6, <2>1, CommandSetOut
    <2>3. CommandKnows(cmd)'
      BY <2>2 DEF CommandKnows
    <2>4. QED
      BY <1>1, <1>2, <2>2, <2>3, JournalRests DEF ApplyInv, ApplyTypeOK
  <1>7. Done = {} <=> ~\E i \in Muts : Noted(i, "commit")
    OBVIOUS
  <1>8. \/ cmd' = NoCmd
        \/ Done # {} /\ artifact = "absent" /\ cmd' = [pc |-> "terminal", m |-> m, phase |-> "rollback"]
        \/ Done # {} /\ cmd' = [pc |-> "undo", m |-> m, phase |-> "rollback"]
    BY <1>7 DEF Withdraw
  <1>9. QED
    BY <1>3, <1>5, <1>6, <1>8

\* A command in the middle goes on to pc, with nothing in the journal.
LEMMA StepTo ==
  ASSUME ApplyInv, cmd.pc \in ApplySteps, NEW pc \in ApplySteps \ {"prepare"}, NEW ph \in ApplyEnds,
         \/ ApplyGoto(pc) /\ ph = cmd.phase
         \/ cmd' = [cmd EXCEPT !.pc = pc, !.phase = ph],
         applies' = applies, Recording, artifact' \in {"absent", "ours", "drift"},
         artifactEdits' \in 0..MaxArtifactEdits, NoFault \/ ApplyFault,
         pc \in {"remove", "removed", "restore"} => cmd \in UndoCommand,
         pc = "validate" => MutIs(cmd.m, "committed")',
         pc = "terminal" => IF ph = "commit" THEN MutIs(cmd.m, "committed") ELSE artifact' # "ours",
         pc = "removed" => artifact' # "ours",
         pc \in {"undo", "remove", "removed"} => ph # "commit",
         pc = "check" => ph = "abort"
  PROVE  ApplyInv'
  <1>1. /\ cmd' \in ApplyCommand /\ cmd'.pc = pc /\ cmd'.m = cmd.m /\ cmd'.phase = ph
        /\ cmd \in UndoCommand => cmd' \in UndoCommand
    BY CommandGoes DEF ApplyInv
  <1>2. CommandKnows(cmd)'
    BY <1>1 DEF CommandKnows, Recording
  <1>3. QED
    BY <1>1, <1>2, JournalRests

\* The patch and its undo.
LEMMA PatchTargetInv ==
  ASSUME ApplyInv, PatchTarget
  PROVE  ApplyInv'
  <1>1. cmd.pc = "patch" /\ cmd.pc \in ApplySteps /\ cmd.m \in Muts /\ cmd.phase \in ApplyEnds
    BY CommandTypes DEF ApplyInv, PatchTarget, ApplySteps
  <1>2. PICK r \in MutRecord : LogMut(r)
    BY <1>1 DEF PatchTarget, MutRecord
  <1>3. Recording
    BY <1>2, MutationLogged DEF ApplyInv
  <1>4. /\ ApplyGoto("write") /\ NoFault /\ UNCHANGED <<applies, artifact, artifactEdits>>
        /\ "write" \in ApplySteps \ {"prepare"}
    BY DEF PatchTarget, ApplySteps
  <1>5. QED
    BY <1>1, <1>3, <1>4, StepTo DEF ApplyInv, ApplyTypeOK

LEMMA WriteTargetInv ==
  ASSUME ApplyInv, NEW ok \in BOOLEAN, WriteTarget(ok)
  PROVE  ApplyInv'
  <1>1. cmd.pc = "write" /\ cmd.pc \in ApplySteps /\ cmd.phase \in ApplyEnds
    BY CommandTypes DEF ApplyInv, WriteTarget, ApplySteps
  <1>2. Recording
    BY NothingLogged DEF ApplyInv, WriteTarget
  <1>3. /\ ApplyGoto("written") \/ ApplyGoto("unwrite")
        /\ NoFault \/ ApplyFault
        /\ artifact' \in {"absent", "ours", "drift"} /\ UNCHANGED <<applies, artifactEdits>>
        /\ {"written", "unwrite"} \subseteq ApplySteps \ {"prepare"}
    BY DEF WriteTarget, ApplySteps, ApplyInv, ApplyTypeOK
  <1>4. artifactEdits' \in 0..MaxArtifactEdits
    BY <1>3 DEF ApplyInv, ApplyTypeOK
  <1>5. QED
    BY <1>1, <1>2, <1>3, <1>4, StepTo

LEMMA TargetWrittenInv ==
  ASSUME ApplyInv, NEW how \in {"ok", "lost", "kept"}, TargetWritten(how)
  PROVE  ApplyInv'
  <1>1. cmd.pc = "written" /\ cmd.pc \in ApplySteps /\ cmd.m \in Muts /\ cmd.phase \in ApplyEnds
    BY CommandTypes DEF ApplyInv, TargetWritten, ApplySteps
  <1> DEFINE committed == [id |-> cmd.m, of |-> 0, status |-> "committed"]
  <1>a. committed \in MutRecord
    BY <1>1 DEF MutRecord
  <1>b. committed.id = cmd.m /\ committed.status = "committed"
    OBVIOUS
  <1>2. PICK r \in MutRecord : /\ r = [id |-> cmd.m, of |-> 0, status |-> "committed"]
                              /\ r.id = cmd.m /\ r.status = "committed"
    BY <1>a, <1>b, Zenon
  <1>3. mutations' = mutations \/ LogMut(r)
    BY <1>2 DEF TargetWritten
  <1>4. Recording
    BY <1>2, <1>3, MutationLogged, NothingLogged DEF ApplyInv
  <1>5. how = "ok" => MutIs(cmd.m, "committed")'
    <2>1. ASSUME how = "ok"
          PROVE  MutIs(r.id, r.status)'
      <3>1. LogMut(r)
        BY <1>2, <2>1 DEF TargetWritten
      <3>2. ApplyTypeOK
        BY DEF ApplyInv
      <3>3. QED
        BY ONLY <1>2, <3>1, <3>2, MutationLogged, ZenonT(60)
    <2>2. how = "ok" => cmd'.m = cmd.m
      BY <1>1, CommandGoes DEF ApplyInv, TargetWritten, ApplySteps
    <2>3. QED
      BY <1>2, <2>1, <2>2
  <1>6. /\ UNCHANGED <<applies, artifact, artifactEdits>>
        /\ {"validate", "unwrite"} \subseteq ApplySteps \ {"prepare"}
        /\ how = "ok" => ApplyGoto("validate") /\ NoFault
        /\ how # "ok" => ApplyGoto("unwrite") /\ ApplyFault
    BY DEF TargetWritten, ApplySteps
  <1>7. artifactEdits' \in 0..MaxArtifactEdits /\ artifact' \in {"absent", "ours", "drift"}
    BY <1>6 DEF ApplyInv, ApplyTypeOK
  <1>8. CASE how = "ok"
    BY <1>1, <1>4, <1>5, <1>6, <1>7, <1>8, StepTo
  <1>9. CASE how # "ok"
    BY <1>1, <1>4, <1>6, <1>7, <1>9, StepTo
  <1>10. QED
    BY <1>8, <1>9

LEMMA UnwriteTargetInv ==
  ASSUME ApplyInv, NEW how \in {"ok", "lost", "kept"}, UnwriteTarget(how)
  PROVE  ApplyInv'
  <1>1. cmd.pc = "unwrite" /\ cmd.pc \in ApplySteps /\ cmd.m \in Muts /\ cmd.phase \in ApplyEnds
    BY CommandTypes DEF ApplyInv, UnwriteTarget, ApplySteps
  <1> DEFINE r == [id |-> cmd.m, of |-> 0, status |-> "rolled_back"]
  <1>2. r \in MutRecord
    BY <1>1 DEF MutRecord
  <1>3. mutations' = mutations \/ LogMut(r)
    BY DEF UnwriteTarget
  <1>4. Recording
    BY <1>2, <1>3, MutationLogged, NothingLogged DEF ApplyInv
  <1>5. /\ ApplyGoto("catch") /\ (NoFault \/ ApplyFault)
        /\ UNCHANGED <<applies, artifactEdits>>
        /\ artifact' \in {"absent", artifact} /\ "catch" \in ApplySteps \ {"prepare"}
    BY DEF UnwriteTarget, ApplySteps
  <1>6. artifactEdits' \in 0..MaxArtifactEdits /\ artifact' \in {"absent", "ours", "drift"}
    BY <1>5 DEF ApplyInv, ApplyTypeOK
  <1>7. QED
    BY <1>1, <1>4, <1>5, <1>6, StepTo

LEMMA ValidateTargetInv ==
  ASSUME ApplyInv, ValidateTarget
  PROVE  ApplyInv'
  <1>1. cmd.pc = "validate" /\ cmd.pc \in ApplySteps /\ cmd.phase \in ApplyEnds
    BY CommandTypes DEF ApplyInv, ValidateTarget, ApplySteps
  <1>2. MutIs(cmd.m, "committed")
    BY <1>1 DEF ApplyInv, CommandKnows
  <1>3. /\ NoFault /\ UNCHANGED <<applies, mutations, artifact, artifactEdits>> /\ Recording
        /\ {"terminal", "catch"} \subseteq ApplySteps \ {"prepare"} /\ "commit" \in ApplyEnds
    BY NothingLogged DEF ApplyInv, ValidateTarget, ApplySteps, ApplyEnds
  <1>4. artifactEdits' \in 0..MaxArtifactEdits /\ artifact' \in {"absent", "ours", "drift"}
    BY <1>3 DEF ApplyInv, ApplyTypeOK
  <1>5. CASE cmd' = [cmd EXCEPT !.pc = "terminal", !.phase = "commit"]
    BY <1>1, <1>2, <1>3, <1>4, <1>5, StepTo
  <1>6. CASE ApplyGoto("catch")
    BY <1>1, <1>3, <1>4, <1>6, StepTo
  <1>7. QED
    BY <1>5, <1>6 DEF ValidateTarget

LEMMA CatchApplyInv ==
  ASSUME ApplyInv, CatchApply
  PROVE  ApplyInv'
  <1>1. cmd.pc = "catch" /\ cmd.pc \in ApplySteps /\ cmd.phase \in ApplyEnds
    BY CommandTypes DEF ApplyInv, CatchApply, ApplySteps
  <1>2. /\ NoFault /\ UNCHANGED <<applies, mutations, artifact, artifactEdits>> /\ Recording
        /\ {"undo", "check"} \subseteq ApplySteps \ {"prepare"} /\ "abort" \in ApplyEnds
    BY NothingLogged DEF ApplyInv, CatchApply, ApplySteps, ApplyEnds
  <1>3. artifactEdits' \in 0..MaxArtifactEdits /\ artifact' \in {"absent", "ours", "drift"}
    BY <1>2 DEF ApplyInv, ApplyTypeOK
  <1>4. PICK pc \in {"undo", "check"} : cmd' = [cmd EXCEPT !.pc = pc, !.phase = "abort"]
    BY DEF CatchApply
  <1>5. QED
    BY <1>1, <1>2, <1>3, <1>4, StepTo

LEMMA CheckTargetInv ==
  ASSUME ApplyInv, CheckTarget
  PROVE  ApplyInv'
  <1>1. cmd.pc = "check" /\ cmd.pc \in ApplySteps /\ cmd.phase \in ApplyEnds
    BY CommandTypes DEF ApplyInv, CheckTarget, ApplySteps
  <1>2. cmd.phase = "abort"
    BY <1>1 DEF ApplyInv, CommandKnows
  <1>3. /\ NoFault /\ UNCHANGED <<applies, mutations, artifact, artifactEdits>> /\ Recording
        /\ "terminal" \in ApplySteps \ {"prepare"}
    BY NothingLogged DEF ApplyInv, CheckTarget, ApplySteps
  <1>4. artifactEdits' \in 0..MaxArtifactEdits /\ artifact' \in {"absent", "ours", "drift"}
    BY <1>3 DEF ApplyInv, ApplyTypeOK
  <1>5. CASE artifact = "absent" /\ ApplyGoto("terminal")
    BY <1>1, <1>2, <1>3, <1>4, <1>5, StepTo
  <1>6. CASE cmd' = NoCmd
    BY <1>3, <1>4, <1>6, CommandEnds
  <1>7. QED
    BY <1>5, <1>6 DEF CheckTarget

LEMMA UndoTargetInv ==
  ASSUME ApplyInv, UndoTarget
  PROVE  ApplyInv'
  <1>1. cmd.pc = "undo" /\ cmd.pc \in ApplySteps /\ cmd.m \in Muts /\ cmd.phase \in ApplyEnds
    BY CommandTypes DEF ApplyInv, UndoTarget, ApplySteps
  <1>2. cmd.phase # "commit"
    BY <1>1 DEF ApplyInv, CommandKnows
  <1>3. NoFault /\ UNCHANGED <<applies, artifact, artifactEdits>>
    BY DEF UndoTarget
  <1>4. artifactEdits' \in 0..MaxArtifactEdits /\ artifact' \in {"absent", "ours", "drift"}
    BY <1>3 DEF ApplyInv, ApplyTypeOK
  <1>5. CASE cmd' = NoCmd /\ mutations' = mutations
    BY <1>3, <1>4, <1>5, NothingLogged, CommandEnds DEF ApplyInv
  <1>6. ASSUME NEW i \in Muts, LogMut([id |-> i, of |-> cmd.m, status |-> "prepared"]),
               cmd' = [pc |-> "remove", m |-> cmd.m, phase |-> cmd.phase, undo |-> i]
        PROVE  ApplyInv'
    <2>1. [id |-> i, of |-> cmd.m, status |-> "prepared"] \in MutRecord
      BY <1>1 DEF MutRecord
    <2>2. Recording
      BY <1>6, <2>1, MutationLogged DEF ApplyInv
    <2>3. /\ cmd' \in UndoCommand /\ cmd' \in ApplyCommand
          /\ cmd'.pc = "remove" /\ cmd'.phase = cmd.phase
      BY <1>1, <1>6 DEF UndoCommand, ApplyCommand, ApplySteps
    <2>4. CommandKnows(cmd)'
      BY <1>2, <2>3 DEF CommandKnows
    <2>5. QED
      BY <1>3, <1>4, <2>2, <2>3, <2>4, JournalRests
  <1>7. QED
    BY <1>5, <1>6 DEF UndoTarget

LEMMA RemoveTargetInv ==
  ASSUME ApplyInv, RemoveTarget
  PROVE  ApplyInv'
  <1>1. cmd.pc = "remove" /\ cmd.pc \in ApplySteps /\ cmd.phase \in ApplyEnds
    BY CommandTypes DEF ApplyInv, RemoveTarget, ApplySteps
  <1>2. cmd.phase # "commit" /\ cmd \in UndoCommand
    BY <1>1 DEF ApplyInv, CommandKnows
  <1>3. /\ NoFault /\ UNCHANGED <<applies, mutations, artifactEdits>> /\ Recording
        /\ artifact' = "absent" /\ ApplyGoto("removed") /\ "removed" \in ApplySteps \ {"prepare"}
    BY NothingLogged DEF ApplyInv, RemoveTarget, ApplySteps
  <1>4. artifactEdits' \in 0..MaxArtifactEdits
    BY <1>3 DEF ApplyInv, ApplyTypeOK
  <1>5. QED
    BY <1>1, <1>2, <1>3, <1>4, StepTo

LEMMA TargetRemovedInv ==
  ASSUME ApplyInv, NEW how \in {"ok", "lost", "kept"}, TargetRemoved(how)
  PROVE  ApplyInv'
  <1>1. cmd.pc = "removed" /\ cmd.pc \in ApplySteps /\ cmd.m \in Muts /\ cmd.phase \in ApplyEnds
    BY CommandTypes DEF ApplyInv, TargetRemoved, ApplySteps
  <1>2. cmd.phase # "commit" /\ cmd \in UndoCommand /\ artifact # "ours"
    BY <1>1 DEF ApplyInv, CommandKnows
  <1> DEFINE r == [id |-> cmd.undo, of |-> cmd.m, status |-> "committed"]
  <1>3. r \in MutRecord
    BY <1>1, <1>2 DEF MutRecord, UndoCommand
  <1>4. mutations' = mutations \/ LogMut(r)
    BY DEF TargetRemoved
  <1>5. Recording
    BY <1>3, <1>4, MutationLogged, NothingLogged DEF ApplyInv
  <1>6. /\ UNCHANGED <<applies, artifact, artifactEdits>>
        /\ {"check", "terminal", "restore"} \subseteq ApplySteps \ {"prepare"}
    BY DEF TargetRemoved, ApplySteps
  <1>7. artifactEdits' \in 0..MaxArtifactEdits /\ artifact' \in {"absent", "ours", "drift"}
    BY <1>6 DEF ApplyInv, ApplyTypeOK
  <1>8. CASE how = "ok" /\ cmd.phase = "abort"
    <2>1. ApplyGoto("check") /\ NoFault
      BY <1>8 DEF TargetRemoved
    <2>2. QED
      BY <1>1, <1>5, <1>6, <1>7, <1>8, <2>1, StepTo
  <1>9. CASE how = "ok" /\ cmd.phase # "abort"
    <2>1. ApplyGoto("terminal") /\ NoFault
      BY <1>9 DEF TargetRemoved
    <2>2. QED
      BY <1>1, <1>2, <1>5, <1>6, <1>7, <2>1, StepTo
  <1>10. CASE how # "ok"
    <2>1. ApplyGoto("restore") /\ ApplyFault
      BY <1>10 DEF TargetRemoved
    <2>2. QED
      BY <1>1, <1>2, <1>5, <1>6, <1>7, <2>1, StepTo
  <1>11. QED
    BY <1>8, <1>9, <1>10

LEMMA RestoreTargetInv ==
  ASSUME ApplyInv, RestoreTarget
  PROVE  ApplyInv'
  <1>1. cmd.pc = "restore" /\ cmd.pc \in ApplySteps /\ cmd.m \in Muts
    BY CommandTypes DEF ApplyInv, RestoreTarget, ApplySteps
  <1>2. cmd \in UndoCommand
    BY <1>1 DEF ApplyInv, CommandKnows
  <1>3. [id |-> cmd.undo, of |-> cmd.m, status |-> "rolled_back"] \in MutRecord
    BY <1>1, <1>2 DEF MutRecord, UndoCommand
  <1>4. Recording
    BY <1>3, MutationLogged DEF ApplyInv, RestoreTarget
  <1>5. /\ artifact' = "ours" /\ cmd' = NoCmd /\ NoFault /\ UNCHANGED <<applies, artifactEdits>>
    BY DEF RestoreTarget
  <1>6. artifactEdits' \in 0..MaxArtifactEdits
    BY <1>5 DEF ApplyInv, ApplyTypeOK
  <1>7. QED
    BY <1>4, <1>5, <1>6, CommandEnds

-----------------------------------------------------------------------------
(* EvolutionApply: the appends to the apply journal.                         *)

\* What PrepareApply and AppendTerminal append.
LEMMA EventOfCommand ==
  ASSUME ApplyInv, cmd.pc \in ApplySteps, NEW phase \in ApplyEnds \cup {"prepare"}
  PROVE  [m |-> cmd.m, phase |-> phase] \in ApplyEvent
  BY CommandTypes DEF ApplyInv, ApplyEvent

\* The command is behind its append, which may have failed.
LEMMA BehindAppend ==
  ASSUME ApplyInv, cmd.pc \in ApplySteps, applies' \in Seq(ApplyEvent),
         UNCHANGED <<mutations, artifact, artifactEdits>>, NoFault \/ ApplyFault,
         cmd' = NoCmd \/ ApplyGoto("patch") \/ ApplyGoto("catch")
  PROVE  ApplyTypeOK' /\ cmd'.pc # "prepare" /\ CommandKnows(cmd)'
  <1>1. {"patch", "catch"} \subseteq ApplySteps /\ cmd.phase \in ApplyEnds
    BY CommandTypes DEF ApplyInv, ApplySteps
  <1>2. cmd' \in ApplyCommand /\ cmd'.pc \in {"idle", "patch", "catch"}
    <2>1. CASE cmd' = NoCmd
      BY <2>1 DEF NoCmd, ApplyCommand
    <2>2. CASE ApplyGoto("patch") \/ ApplyGoto("catch")
      BY <1>1, <2>2, CommandGoes DEF ApplyInv
    <2>3. QED
      BY <2>1, <2>2
  <1>3. CommandKnows(cmd)'
    BY <1>2 DEF CommandKnows
  <1>4. ApplyTypeOK'
    BY <1>2, FaultsCounted DEF ApplyInv, ApplyTypeOK
  <1>5. QED
    BY <1>2, <1>3, <1>4

LEMMA PrepareApplyInv ==
  ASSUME ApplyInv, NEW how \in {"ok", "lost", "kept"}, PrepareApply(how)
  PROVE  ApplyInv'
  <1>1. cmd.pc = "prepare" /\ cmd.pc \in ApplySteps /\ cmd.m \in Muts
    BY CommandTypes DEF ApplyInv, PrepareApply, ApplySteps
  <1>2. PICK e : e = [m |-> cmd.m, phase |-> "prepare"]
    OBVIOUS
  <1>3. e \in ApplyEvent /\ e.phase = "prepare" /\ e.m = cmd.m
    BY <1>1, <1>2, EventOfCommand
  <1>4. /\ applies' = applies \/ applies' = Append(applies, e)
        /\ UNCHANGED <<mutations, artifact, artifactEdits>> /\ (NoFault \/ ApplyFault)
        /\ cmd' = NoCmd \/ ApplyGoto("patch") \/ ApplyGoto("catch")
    BY <1>2 DEF PrepareApply
  <1>5. /\ applies' \in Seq(ApplyEvent)
        /\ \A m, phase : Noted(m, phase) => Noted(m, phase)'
        /\ \A m, phase : Noted(m, phase)' => Noted(m, phase) \/ (m = cmd.m /\ phase = "prepare")
    <2>1. CASE applies' = applies
      BY <2>1 DEF ApplyInv, ApplyTypeOK, Noted
    <2>2. CASE applies' = Append(applies, e)
      BY <1>2, <1>3, <2>2, EventNoted DEF ApplyInv
    <2>3. QED
      BY <1>4, <2>1, <2>2
  <1>6. Live \cup Pending = {}
    BY <1>1 DEF ApplyInv, OneOpenApply
  <1>7. ApplyTypeOK' /\ cmd'.pc # "prepare" /\ CommandKnows(cmd)'
    BY <1>1, <1>4, <1>5, BehindAppend
  <1>8. Live' \cup Pending' \subseteq {cmd.m}
    <2>1. Live' \subseteq Live
      BY <1>5 DEF Live
    <2>2. Pending' \subseteq Pending \cup {cmd.m}
      BY <1>5 DEF Pending, ApplyEnds
    <2>3. QED
      BY <1>6, <2>1, <2>2
  <1>9. QED
    BY <1>7, <1>8 DEF ApplyInv, OneOpenApply

LEMMA AppendTerminalInv ==
  ASSUME ApplyInv, NEW how \in {"ok", "lost", "kept"}, AppendTerminal(how)
  PROVE  ApplyInv'
  <1>1. cmd.pc = "terminal" /\ cmd.pc \in ApplySteps /\ cmd.m \in Muts /\ cmd.phase \in ApplyEnds
    BY CommandTypes DEF ApplyInv, AppendTerminal, ApplySteps
  <1>2. PICK e : e = [m |-> cmd.m, phase |-> cmd.phase]
    OBVIOUS
  <1>3. e \in ApplyEvent /\ e.phase = cmd.phase /\ e.m = cmd.m
    BY <1>1, <1>2, EventOfCommand
  <1>4. /\ UNCHANGED <<mutations, artifact, artifactEdits>> /\ (NoFault \/ ApplyFault)
        /\ cmd' = NoCmd \/ ApplyGoto("catch")
        /\ applies' = applies \/ (MayFollow /\ applies' = Append(applies, e))
    BY <1>2 DEF AppendTerminal
  <1>5. CASE applies' = applies
    <2>1. applies' \in Seq(ApplyEvent)
      BY <1>5 DEF ApplyInv, ApplyTypeOK
    <2>2. ApplyTypeOK' /\ cmd'.pc # "prepare" /\ CommandKnows(cmd)'
      BY <1>1, <1>4, <2>1, BehindAppend
    <2>3. Live' = Live /\ Pending' = Pending
      BY <1>5 DEF Live, Pending, Noted
    <2>4. QED
      BY <2>2, <2>3 DEF ApplyInv, OneOpenApply
  <1>6. CASE MayFollow /\ applies' = Append(applies, e)
    <2>1. /\ applies' \in Seq(ApplyEvent)
          /\ \A m, phase : Noted(m, phase)' <=> Noted(m, phase) \/ (m = cmd.m /\ phase = cmd.phase)
      BY <1>2, <1>3, <1>6, EventNoted DEF ApplyInv
    <2>2. ApplyTypeOK' /\ cmd'.pc # "prepare" /\ CommandKnows(cmd)'
      BY <1>1, <1>4, <2>1, BehindAppend
    <2>3. Live' \cup Pending' \subseteq Live \cup Pending
      <3>1. Pending' \subseteq Pending
        BY <1>1, <2>1 DEF Pending, ApplyEnds
      <3>2. ASSUME NEW m \in Live'
            PROVE  m \in Live \cup Pending
        <4>1. m \in Muts /\ Noted(m, "commit")' /\ ~Noted(m, "rollback")'
          BY <3>2 DEF Live
        <4>2. ~Noted(m, "rollback")
          BY <2>1, <4>1
        <4>3. CASE Noted(m, "commit")
          BY <4>1, <4>2, <4>3 DEF Live
        <4>4. CASE ~Noted(m, "commit")
          <5>1. m = cmd.m /\ cmd.phase = "commit"
            BY <2>1, <4>1, <4>4
          <5>2. Noted(m, "prepare") /\ \A p \in ApplyEnds : ~Noted(m, p)
            BY <1>6, <5>1 DEF MayFollow
          <5>3. QED
            BY <4>1, <5>2 DEF Pending
        <4>5. QED
          BY <4>3, <4>4
      <3>3. QED
        BY <3>1, <3>2
    <2>4. QED
      BY <2>2, <2>3 DEF ApplyInv, OneOpenApply
  <1>7. QED
    BY <1>4, <1>5, <1>6

-----------------------------------------------------------------------------
(* EvolutionApply: recovery, and everybody else.                             *)

\* Recovery settles a record: it is of the journal but for its status.
LEMMA Settles ==
  ASSUME ApplyTypeOK, NEW u \in Unmatched, NEW status \in {"committed", "rolled_back"}
  PROVE  [u EXCEPT !.status = status] \in MutRecord /\ u.of \in Muts \cup {0}
  BY JournalLengths DEF Unmatched, MutRecord

\* Recovery has found the terminal for mutation m.
LEMMA FinishesWith ==
  ASSUME ApplyInv, NEW m \in Muts, NEW pc \in {"terminal", "undo"}, NEW ph \in ApplyEnds,
         \/ FinishApply(m, pc, ph)
         \/ cmd' = [pc |-> pc, m |-> m, phase |-> ph, recovering |-> TRUE],
         applies' = applies, Recording, artifact' \in {"absent", "ours", "drift"},
         artifactEdits' = artifactEdits, NoFault,
         ph = "commit" => pc = "terminal" /\ MutIs(m, "committed"),
         pc = "terminal" /\ ph # "commit" => artifact' # "ours"
  PROVE  ApplyInv'
  <1>1. {"terminal", "undo"} \subseteq ApplySteps
    BY DEF ApplySteps
  <1>2. cmd' \in ApplyCommand /\ cmd'.pc = pc /\ cmd'.m = m /\ cmd'.phase = ph
    BY <1>1, CommandSetOut DEF FinishApply
  <1>3. CommandKnows(cmd)'
    BY <1>2 DEF CommandKnows, Recording
  <1>4. artifactEdits' \in 0..MaxArtifactEdits
    BY DEF ApplyInv, ApplyTypeOK
  <1>5. QED
    BY <1>2, <1>3, <1>4, JournalRests

LEMMA RecoverUndoInv ==
  ASSUME ApplyInv, RecoverUndo
  PROVE  ApplyInv'
  <1>1. /\ cmd.pc = "recover" /\ NoFault /\ UNCHANGED <<applies, artifact, artifactEdits>>
    BY DEF RecoverUndo
  <1>2. PICK u \in Unmatched :
          /\ u.of # 0
          /\ LogMut([u EXCEPT !.status = IF artifact = "absent" THEN "committed" ELSE "rolled_back"])
          /\ cmd' = IF artifact = "absent" /\ Noted(u.of, "commit") /\ ~Noted(u.of, "rollback")
                    THEN [pc |-> "terminal", m |-> u.of, phase |-> "rollback", recovering |-> TRUE]
                    ELSE cmd
    BY DEF RecoverUndo
  <1>3. PICK status \in {"committed", "rolled_back"} :
          status = IF artifact = "absent" THEN "committed" ELSE "rolled_back"
    OBVIOUS
  <1>4. [u EXCEPT !.status = status] \in MutRecord /\ u.of \in Muts
    BY <1>2, Settles DEF ApplyInv
  <1>5. Recording
    BY <1>2, <1>3, <1>4, MutationLogged DEF ApplyInv
  <1>6. artifactEdits' \in 0..MaxArtifactEdits /\ artifact' \in {"absent", "ours", "drift"}
    BY <1>1 DEF ApplyInv, ApplyTypeOK
  <1>7. CASE cmd' = cmd
    BY <1>1, <1>5, <1>6, <1>7, OthersStep
  <1>8. CASE /\ artifact = "absent"
             /\ cmd' = [pc |-> "terminal", m |-> u.of, phase |-> "rollback", recovering |-> TRUE]
    <2>1. "rollback" \in ApplyEnds
      BY DEF ApplyEnds
    <2>2. QED
      BY <1>1, <1>4, <1>5, <1>6, <1>8, <2>1, FinishesWith
  <1>9. QED
    BY <1>2, <1>7, <1>8

LEMMA RecoverCommitInv ==
  ASSUME ApplyInv, NEW m \in Muts, NEW stale \in BOOLEAN, RecoverCommit(m, stale)
  PROVE  ApplyInv'
  <1>1. /\ NoFault /\ UNCHANGED <<applies, mutations, artifact, artifactEdits>>
        /\ MutIs(m, "committed")
        /\ FinishApply(m, "undo", "abort") \/ FinishApply(m, "terminal", "commit")
    BY DEF RecoverCommit
  <1>2. /\ Recording /\ {"abort", "commit"} \subseteq ApplyEnds
        /\ artifact' \in {"absent", "ours", "drift"}
    BY <1>1, NothingLogged DEF ApplyInv, ApplyTypeOK, ApplyEnds
  <1>3. QED
    BY <1>1, <1>2, FinishesWith

LEMMA RecoverAbortInv ==
  ASSUME ApplyInv, NEW m \in Muts, RecoverUnbegun(m) \/ RecoverGone(m)
  PROVE  ApplyInv'
  <1>1. /\ NoFault /\ UNCHANGED <<applies, mutations, artifact, artifactEdits>>
        /\ artifact = "absent" /\ FinishApply(m, "terminal", "abort")
    BY DEF RecoverUnbegun, RecoverGone
  <1>2. Recording /\ "abort" \in ApplyEnds
    BY <1>1, NothingLogged DEF ApplyInv, ApplyEnds
  <1>3. QED
    BY <1>1, <1>2, FinishesWith

LEMMA RecoverPreparedInv ==
  ASSUME ApplyInv, NEW m \in Muts, RecoverPrepared(m)
  PROVE  ApplyInv'
  <1>1. [id |-> m, of |-> 0, status |-> "rolled_back"] \in MutRecord
    BY DEF MutRecord
  <1>2. /\ NoFault /\ UNCHANGED <<applies, artifactEdits>> /\ artifact' = "absent"
        /\ LogMut([id |-> m, of |-> 0, status |-> "rolled_back"])
        /\ FinishApply(m, "terminal", "abort")
    BY DEF RecoverPrepared
  <1>3. Recording /\ "abort" \in ApplyEnds
    BY <1>1, <1>2, MutationLogged DEF ApplyInv, ApplyEnds
  <1>4. QED
    BY <1>2, <1>3, FinishesWith

LEMMA FileCommandRecoversInv ==
  ASSUME ApplyInv, FileCommandRecovers
  PROVE  ApplyInv'
  <1>1. PICK r \in Provable : LogMut(r)
    BY DEF FileCommandRecovers
  <1>2. r \in MutRecord
    <2>1. PICK u \in Unmatched :
            r = [u EXCEPT !.status = IF artifact = "ours" THEN "committed" ELSE "rolled_back"]
      BY DEF Provable
    <2>2. QED
      BY <2>1, Settles DEF ApplyInv
  <1>3. Recording
    BY <1>1, <1>2, MutationLogged DEF ApplyInv
  <1>4. QED
    BY <1>3, OthersStep DEF FileCommandRecovers, ApplyInv, ApplyTypeOK

LEMMA FileUndoInv ==
  ASSUME ApplyInv, NEW m \in Muts, NEW how \in {"ok", "died", "removed"}, FileUndo(m, how)
  PROVE  ApplyInv'
  <1> DEFINE ids == {i \in Muts : i \notin {r.id : r \in MutRecords} /\ ~Noted(i, "prepare")}
             u == CHOOSE i \in ids : \A j \in ids : i <= j
  <1>1. ids \in SUBSET Nat /\ ids # {}
    BY DEF FileUndo, Muts
  <1>2. u \in Muts
    <2>1. PICK i \in ids : \A j \in ids : i <= j
      BY <1>1, LeastMember
    <2>2. QED
      BY <2>1
  <1>3. PICK begun : begun = Append(mutations, [id |-> u, of |-> m, status |-> "prepared"])
    OBVIOUS
  <1> HIDE DEF u
  <1>4. /\ [id |-> u, of |-> m, status |-> "prepared"] \in MutRecord
        /\ [id |-> u, of |-> m, status |-> "committed"] \in MutRecord
    BY <1>2 DEF MutRecord
  <1>5. mutations' = begun \/ mutations' = Append(begun, [id |-> u, of |-> m, status |-> "committed"])
    BY <1>3 DEF FileUndo, u
  <1>6. /\ begun \in Seq(MutRecord) /\ Len(begun) = Len(mutations) + 1
        /\ \A i \in 1..Len(mutations) : begun[i] = mutations[i]
        /\ Len(mutations) \in Nat
    BY <1>3, <1>4, AppendProperties, LenProperties DEF ApplyInv, ApplyTypeOK
  <1>7. /\ mutations' \in Seq(MutRecord) /\ Len(mutations') >= Len(begun)
        /\ \A i \in 1..Len(begun) : mutations'[i] = begun[i]
    <2>1. CASE mutations' = begun
      BY <1>6, <2>1
    <2>2. CASE mutations' = Append(begun, [id |-> u, of |-> m, status |-> "committed"])
      BY <1>4, <1>6, <2>2, AppendProperties
    <2>3. QED
      BY <1>5, <2>1, <2>2
  <1>8. Len(mutations') \in Nat
    BY <1>7, LenProperties
  <1>9. MutRecords \subseteq MutRecords'
    BY <1>6, <1>7, <1>8 DEF MutRecords
  <1>10. Recording
    BY <1>7, <1>9 DEF Recording, MutIs
  <1>11. /\ UNCHANGED <<applies, cmd, artifactEdits>> /\ (NoFault \/ ApplyFault)
         /\ artifact' \in {artifact, "absent"}
    BY DEF FileUndo
  <1>12. artifactEdits' \in 0..MaxArtifactEdits /\ artifact' \in {"absent", "ours", "drift"}
    BY <1>11 DEF ApplyInv, ApplyTypeOK
  <1>13. QED
    BY <1>10, <1>11, <1>12, OthersStep

LEMMA EditArtifactInv ==
  ASSUME ApplyInv, NEW c \in {"absent", "drift"}, EditArtifact(c)
  PROVE  ApplyInv'
  <1>1. artifactEdits' \in 0..MaxArtifactEdits
    BY ApplyAssumption DEF ApplyInv, ApplyTypeOK, EditArtifact
  <1>2. Recording
    BY NothingLogged DEF ApplyInv, EditArtifact
  <1>3. QED
    BY <1>1, <1>2, OthersStep DEF EditArtifact, NoFault

\* A command is refused, or dies.
LEMMA CommandStops ==
  ASSUME ApplyInv, RecoveryThrows \/ ApplyCrash
  PROVE  ApplyInv'
  <1>1. /\ cmd' = NoCmd /\ (NoFault \/ ApplyFault)
        /\ UNCHANGED <<applies, mutations, artifact, artifactEdits>>
    BY DEF RecoveryThrows, ApplyCrash
  <1>2. QED
    BY <1>1, NothingLogged, CommandEnds DEF ApplyInv, ApplyTypeOK

-----------------------------------------------------------------------------

LEMMA ApplyInitInv ==
  ASSUME ApplyInit
  PROVE  ApplyInv
  <1>1. /\ applies = <<>> /\ mutations = <<>> /\ artifact = "absent" /\ cmd = NoCmd
        /\ artifactEdits = 0 /\ failures = 0
    BY DEF ApplyInit
  <1>2. ApplyTypeOK
    BY <1>1, ApplyAssumption, EmptySeq DEF ApplyTypeOK, ApplyCommand
  <1>3. Live \cup Pending = {}
    BY <1>1, EmptySeq DEF Live, Pending, Noted
  <1>4. CommandKnows(cmd)
    BY <1>1 DEF CommandKnows, NoCmd
  <1>5. QED
    BY <1>2, <1>3, <1>4 DEF ApplyInv, OneOpenApply

LEMMA ApplyStep ==
  ASSUME ApplyInv, [ApplyNext]_applyVars
  PROVE  ApplyInv'
  <1>1. CASE UNCHANGED applyVars
    BY <1>1, NothingLogged, OthersStep DEF applyVars, ApplyInv, ApplyTypeOK, NoFault
  <1>2. CASE \/ StartApply("apply") \/ StartApply("rollback") \/ Propose \/ Withdraw
             \/ PatchTarget \/ ValidateTarget \/ CatchApply \/ CheckTarget
             \/ UndoTarget \/ RemoveTarget \/ RestoreTarget
    BY <1>2, StartApplyInv, ProposeInv, WithdrawInv, PatchTargetInv, ValidateTargetInv, CatchApplyInv,
       CheckTargetInv, UndoTargetInv, RemoveTargetInv, RestoreTargetInv
  <1>3. ASSUME NEW ok \in BOOLEAN, WriteTarget(ok)
        PROVE  ApplyInv'
    BY <1>3, WriteTargetInv
  <1>4. ASSUME NEW how \in {"ok", "lost", "kept"},
               \/ PrepareApply(how) \/ TargetWritten(how) \/ UnwriteTarget(how)
               \/ AppendTerminal(how) \/ TargetRemoved(how)
        PROVE  ApplyInv'
    BY <1>4, PrepareApplyInv, TargetWrittenInv, UnwriteTargetInv, AppendTerminalInv, TargetRemovedInv
  <1>5. CASE RecoverUndo \/ RecoveryThrows \/ FileCommandRecovers \/ ApplyCrash
    BY <1>5, RecoverUndoInv, CommandStops, FileCommandRecoversInv
  <1>6. ASSUME NEW m \in Muts, RecoverUnbegun(m) \/ RecoverPrepared(m) \/ RecoverGone(m)
        PROVE  ApplyInv'
    BY <1>6, RecoverAbortInv, RecoverPreparedInv
  <1>7. ASSUME NEW m \in Muts, NEW stale \in BOOLEAN, RecoverCommit(m, stale)
        PROVE  ApplyInv'
    BY <1>7, RecoverCommitInv
  <1>8. ASSUME NEW m \in Muts, NEW how \in {"ok", "died", "removed"}, FileUndo(m, how)
        PROVE  ApplyInv'
    BY <1>8, FileUndoInv
  <1>9. ASSUME NEW c \in {"absent", "drift"}, EditArtifact(c)
        PROVE  ApplyInv'
    BY <1>9, EditArtifactInv
  <1>10. QED
    BY <1>1, <1>2, <1>3, <1>4, <1>5, <1>6, <1>7, <1>8, <1>9 DEF ApplyNext

\* Only two steps write the apply journal, and only one of them a terminal.
LEMMA OnlyTerminalsEnd ==
  ASSUME ApplyInv, [ApplyNext]_applyVars, applies' # applies
  PROVE  \E how \in {"ok", "lost", "kept"} : PrepareApply(how) \/ AppendTerminal(how)
  BY DEF ApplyNext, applyVars, StartApply, Propose, Withdraw, PatchTarget, ValidateTarget, CatchApply,
         CheckTarget, UndoTarget, RemoveTarget, RestoreTarget, WriteTarget, TargetWritten, UnwriteTarget,
         TargetRemoved, RecoverUndo, RecoveryThrows, RecoverUnbegun, RecoverPrepared, RecoverGone,
         RecoverCommit, FileUndo, FileCommandRecovers, ApplyCrash, EditArtifact

LEMMA TerminalStep ==
  ASSUME ApplyInv, [ApplyNext]_applyVars, applies' # applies,
         NEW i \in Len(applies) + 1 .. Len(applies')
  PROVE  /\ applies'[i].phase = "commit" => MutIs(applies'[i].m, "committed")
         /\ applies'[i].phase \in {"abort", "rollback"} => artifact # "ours"
  <1>1. PICK how \in {"ok", "lost", "kept"} : PrepareApply(how) \/ AppendTerminal(how)
    BY OnlyTerminalsEnd
  <1>2. cmd.pc \in {"prepare", "terminal"} /\ cmd.pc \in ApplySteps /\ cmd.phase \in ApplyEnds
    BY <1>1, CommandTypes DEF ApplyInv, PrepareApply, AppendTerminal, ApplySteps
  <1>3. PICK phase \in {"prepare", cmd.phase} :
          /\ applies' = Append(applies, [m |-> cmd.m, phase |-> phase])
          /\ phase # "prepare" => cmd.pc = "terminal"
    BY <1>1 DEF PrepareApply, AppendTerminal
  <1>4. PICK e \in ApplyEvent : e = [m |-> cmd.m, phase |-> phase] /\ e.m = cmd.m /\ e.phase = phase
    BY <1>2, <1>3, EventOfCommand
  <1>5. i = Len(applies) + 1 /\ applies'[i] = e
    <2>1. Len(applies') = Len(applies) + 1 /\ applies'[Len(applies) + 1] = e
      BY <1>3, <1>4, EventNoted DEF ApplyInv
    <2>2. Len(applies) \in Nat
      BY JournalLengths DEF ApplyInv
    <2>3. QED
      BY <2>1, <2>2
  <1>6. CASE phase = "prepare"
    BY <1>4, <1>5, <1>6
  <1>7. CASE phase = cmd.phase /\ cmd.pc = "terminal"
    BY <1>4, <1>5, <1>7 DEF ApplyInv, CommandKnows
  <1>8. QED
    BY <1>3, <1>6, <1>7

\* Of any number of applications, retries, rollbacks, failures and deaths, at most one is live.
THEOREM OneLiveApplyHolds == ApplySpec => []OneLiveApply
  <1>1. ApplyInit => ApplyInv
    BY ApplyInitInv
  <1>2. ApplyInv /\ [ApplyNext]_applyVars => ApplyInv'
    BY ApplyStep
  <1>3. ApplyInv => OneLiveApply
    BY DEF ApplyInv, OneOpenApply, OneLiveApply
  <1>4. QED
    BY <1>1, <1>2, <1>3, PTL DEF ApplySpec

\* Every commit in the apply journal is written over a committed mutation, every abort and
\* rollback when the content is gone, whoever else writes the file or the mutation journal.
THEOREM TerminalsTellTheTruthHolds == ApplySpec => TerminalsTellTheTruth
  <1> DEFINE Truth == \A i \in Len(applies) + 1 .. Len(applies') :
                        LET e == applies'[i] IN
                        /\ e.phase = "commit" => MutIs(e.m, "committed")
                        /\ e.phase \in {"abort", "rollback"} => artifact # "ours"
  <1>1. ApplyInit => ApplyInv
    BY ApplyInitInv
  <1>2. ApplyInv /\ [ApplyNext]_applyVars => ApplyInv'
    BY ApplyStep
  <1>3. ApplyInv /\ [ApplyNext]_applyVars => [Truth]_applies
    BY TerminalStep
  <1>4. QED
    BY <1>1, <1>2, <1>3, PTL DEF ApplySpec, TerminalsTellTheTruth

\* The types of the two journals, of the target file and of the command at every step of it.
THEOREM ApplyTypeCorrect == ApplySpec => []ApplyTypeOK
  <1>1. ApplyInit => ApplyInv
    BY ApplyInitInv
  <1>2. ApplyInv /\ [ApplyNext]_applyVars => ApplyInv'
    BY ApplyStep
  <1>3. ApplyInv => ApplyTypeOK
    BY DEF ApplyInv
  <1>4. QED
    BY <1>1, <1>2, <1>3, PTL DEF ApplySpec

-----------------------------------------------------------------------------
(* EvolutionJournals: the inductive invariant.                             *)

\* Every claim is numbered by a line that is not before its own.
NumberedByPlace == \A i \in 1..Len(rec) : rec[i].gen <= i

\* Rows with the journal's watermark and length are the journal's.
Aligned == (db.wrec = rec /\ rec # <<>> /\ Len(db.rec) = Len(rec)) => db.rec = rec

\* What the handler of an append knows of its journal and its rows.
AppendKnows ==
  /\ (job.pc = "append" /\ job.j = "rec") =>
       db.rec = rec /\ db.wrec = rec /\ job.ev.gen <= Len(rec) + 1
  /\ (job.pc = "project" /\ job.j = "rec") =>
       rec = Append(db.rec, job.ev) /\ db.wrec = db.rec
  /\ job.pc = "checkpoint" =>
       job.j # "days" /\ (job.j = "rec" => db.rec = rec /\ db.wrec = rec)
  /\ job.pc \in {"project", "checkpoint"} =>
       /\ JobLine # <<>> /\ JobLine[Len(JobLine)] = job.ev
       /\ \A a \in acked : a[1] = job.j => a[2] \in Elements(Cut(JobLine))

\* What a repair has made right so far.
RepairKnows ==
  job.pc = "repair" =>
    /\ torn = {}
    /\ job.next # "days" => db.days = days
    /\ job.next = "rec" => db.obs = obs

JournalsInv == EvoTypeOK /\ NumberedByPlace /\ Aligned /\ AppendKnows /\ RepairKnows /\ AckedIsKept

-----------------------------------------------------------------------------

LEMMA JobShape ==
  ASSUME NEW w \in Job
  PROVE  /\ w.pc \in AppendSteps \cup {"idle", "repair"}
         /\ w = NoJob <=> w.pc = "idle"
         /\ w.pc \in AppendSteps =>
              /\ w = [pc |-> w.pc, j |-> w.j, ev |-> w.ev] /\ w.j \in Journals
              /\ w.j = "days" => w.ev \in Evidence
              /\ w.j = "obs" => w.ev \in Observation \cup Recurrence
              /\ w.j = "rec" => w.ev \in Receipt
         /\ w.pc = "repair" => w = [pc |-> "repair", next |-> w.next] /\ w.next \in Journals
  BY DEF Job, NoJob, AppendSteps, Journals

\* An append adds its own line behind the others, and taking it away leaves those.
LEMMA CutOfAppend ==
  ASSUME NEW S, NEW s \in Seq(S), NEW e \in S
  PROVE  /\ Append(s, e) \in Seq(S) /\ Append(s, e) # <<>> /\ Append(s, e) # s
         /\ Len(Append(s, e)) = Len(s) + 1 /\ Append(s, e)[Len(Append(s, e))] = e
         /\ \A i \in 1..Len(s) : Append(s, e)[i] = s[i]
         /\ Cut(Append(s, e)) = s
         /\ Elements(s) \subseteq Elements(Append(s, e)) /\ e \in Elements(Append(s, e))
  <1> DEFINE t == Append(s, e)
  <1>1. /\ t \in Seq(S) /\ Len(t) = Len(s) + 1 /\ t[Len(t)] = e /\ Len(s) \in Nat
        /\ \A i \in 1..Len(s) : t[i] = s[i]
    OBVIOUS
  <1>2. t # <<>> /\ t # s
    BY <1>1
  <1>3. Cut(t) \in Seq(S) /\ Len(Cut(t)) = Len(s) /\ \A i \in 1..Len(s) : Cut(t)[i] = s[i]
    <2>1. \A i \in 1..(Len(t) - 1) : t[i] \in S
      BY <1>1, ElementOfSeq
    <2>2. /\ Cut(t) \in Seq(S) /\ Len(Cut(t)) = IF 1 <= Len(t) - 1 THEN Len(t) - 1 ELSE 0
          /\ \A i \in 1..(Len(t) - 1) - 1 + 1 : Cut(t)[i] = t[1 + i - 1]
      BY <1>1, <2>1, SubSeqProperties DEF Cut
    <2>3. QED
      BY <1>1, <2>2
  <1>4. Cut(t) = s
    BY <1>3, SeqEqual
  <1>5. Elements(s) \subseteq Elements(t) /\ e \in Elements(t)
    BY <1>1 DEF Elements
  <1>6. QED
    BY <1>1, <1>2, <1>4, <1>5

LEMMA CutProperties ==
  ASSUME NEW S, NEW s \in Seq(S)
  PROVE  /\ Cut(s) \in Seq(S) /\ Elements(Cut(s)) \subseteq Elements(s)
         /\ s # <<>> => Len(Cut(s)) = Len(s) - 1 /\ Len(s) > 0
         /\ \A i \in 1..Len(Cut(s)) : i \in 1..Len(s) /\ Cut(s)[i] = s[i]
  <1>1. Len(s) \in Nat /\ \A i \in 1..(Len(s) - 1) : s[i] \in S
    BY ElementOfSeq
  <1>2. /\ Cut(s) \in Seq(S) /\ Len(Cut(s)) = IF 1 <= Len(s) - 1 THEN (Len(s) - 1) - 1 + 1 ELSE 0
        /\ \A i \in 1..((Len(s) - 1) - 1 + 1) : Cut(s)[i] = s[1 + i - 1]
    BY <1>1, SubSeqProperties DEF Cut
  <1>3. s # <<>> => Len(Cut(s)) = Len(s) - 1 /\ Len(s) > 0
    <2>1. s # <<>> => Len(s) \in Nat \ {0}
      BY EmptySeq
    <2>2. Len(Cut(s)) = IF 1 <= Len(s) - 1 THEN Len(s) - 1 ELSE 0
      BY <1>1, <1>2
    <2>3. \A n \in Nat \ {0} : (IF 1 <= n - 1 THEN n - 1 ELSE 0) = n - 1 /\ n > 0
      OBVIOUS
    <2>4. QED
      BY <1>1, <2>1, <2>2, <2>3
  <1>4. \A i \in 1..Len(Cut(s)) : i \in 1..Len(s) /\ Cut(s)[i] = s[i]
    BY <1>1, <1>2
  <1>5. Elements(Cut(s)) \subseteq Elements(s)
    BY <1>4 DEF Elements
  <1>6. QED
    BY <1>1, <1>2, <1>3, <1>4, <1>5

\* The row of a date in force is a row of that date.
LEMMA CurrentIsARow ==
  ASSUME NEW S, NEW found \in Seq(S), NEW d, NEW r \in Current(found, d)
  PROVE  \E i \in 1..Len(found) : r = found[i] /\ r.date = d
  <1> DEFINE of == {i \in 1..Len(found) : found[i].date = d}
             last == CHOOSE i \in of : \A j \in of : j <= i
  <1>1. of # {} /\ r = found[last]
    BY DEF Current
  <1>2. Len(found) \in Nat /\ of \in SUBSET (0..Len(found)) /\ of \subseteq 1..Len(found)
    OBVIOUS
  <1>3. \E i \in of : \A j \in of : j <= i
    <2> HIDE DEF of
    <2> QED
      BY <1>1, <1>2, GreatestMember
  <1>4. last \in of
    BY <1>3
  <1>5. QED
    BY <1>1, <1>4

LEMMA JournalsInit == EvoInit => JournalsInv
  <1> SUFFICES ASSUME EvoInit PROVE JournalsInv
    OBVIOUS
  <1>1. EvoTypeOK
    BY JournalBounds, EmptySeq DEF EvoInit, EvoTypeOK, EvolutionDb, Blank, NoMark, Job
  <1>2. job.pc = "idle"
    BY DEF EvoInit, NoJob
  <1>3. NumberedByPlace /\ Aligned /\ AckedIsKept
    BY DEF EvoInit, NumberedByPlace, Aligned, AckedIsKept
  <1>4. QED
    BY <1>1, <1>2, <1>3 DEF JournalsInv, AppendKnows, RepairKnows

\* A handler that ends leaves nothing to be known.
LEMMA EndKeeps ==
  ASSUME job' = NoJob, EvoTypeOK', NumberedByPlace', Aligned', AckedIsKept'
  PROVE  JournalsInv'
  <1>1. job'.pc = "idle"
    BY DEF NoJob
  <1>2. QED
    BY <1>1 DEF JournalsInv, AppendKnows, RepairKnows

\* An append starts while its projection is that of the journal.
LEMMA StartKeeps ==
  ASSUME JournalsInv, NEW j \in Journals, NEW e,
         job' = [pc |-> "append", j |-> j, ev |-> e],
         j = "days" => e \in Evidence, j = "obs" => e \in Observation \cup Recurrence,
         j = "rec" => e \in Receipt /\ e.gen <= Len(rec) + 1 /\ db'.rec = rec /\ db'.wrec = rec,
         db' \in EvolutionDb, j # "rec" => db'.rec = db.rec /\ db'.wrec = db.wrec,
         UNCHANGED <<days, obs, rec, others, torn, expired, tokens, acked>>
  PROVE  JournalsInv'
  <1>1. EvoTypeOK'
    <2>1. job' \in Job
      BY DEF Job, AppendSteps, Journals
    <2>2. QED
      BY <2>1 DEF JournalsInv, EvoTypeOK
  <1>2. NumberedByPlace' /\ AckedIsKept'
    BY DEF JournalsInv, NumberedByPlace, AckedIsKept
  <1>3. Aligned'
    BY DEF JournalsInv, Aligned
  <1>4. job'.pc = "append" /\ job'.j = j /\ job'.ev = e
    OBVIOUS
  <1>5. AppendKnows' /\ RepairKnows'
    BY <1>4 DEF AppendKnows, RepairKnows
  <1>6. QED
    BY <1>1, <1>2, <1>3, <1>5 DEF JournalsInv

\* Replaying the observations leaves the receipts' rows alone.
LEMMA ReplayKeeps ==
  ASSUME EvoTypeOK, db' = Replayed
  PROVE  db' \in EvolutionDb /\ db'.rec = db.rec /\ db'.wrec = db.wrec /\ db'.obs = obs /\ db'.days = db.days
  BY DEF EvoTypeOK, EvolutionDb, Replayed

\* Rows that are good enough to write receipts on are those of the journal.
LEMMA ReadyRows ==
  ASSUME Aligned, ReceiptsReady
  PROVE  ReceiptRows = rec
  BY DEF Aligned, ReceiptsReady, ReceiptRows, NoMark

LEMMA AllocateDayKeeps == ASSUME JournalsInv, NEW e \in Evidence, AllocateDay(e) PROVE JournalsInv'
  BY StartKeeps DEF AllocateDay, Append1, Journals, JournalsInv, EvoTypeOK

LEMMA ReplayOrStart ==
  ASSUME JournalsInv, NEW o \in Observation \cup Recurrence, db' = Replayed,
         EndHandler \/ Append1("obs", o),
         UNCHANGED <<days, obs, rec, others, torn, check, expired, tokens, acked>>
  PROVE  JournalsInv'
  <1>1. db' \in EvolutionDb /\ db'.rec = db.rec /\ db'.wrec = db.wrec
    BY ReplayKeeps DEF JournalsInv
  <1>2. CASE Append1("obs", o)
    <2>1. job' = [pc |-> "append", j |-> "obs", ev |-> o] /\ "obs" \in Journals
      BY <1>2 DEF Append1, Journals
    <2>2. QED
      BY <1>1, <2>1, StartKeeps
  <1>3. CASE EndHandler
    <2>1. job' = NoJob /\ NoJob \in Job
      BY <1>3 DEF EndHandler, Job
    <2>2. EvoTypeOK'
      BY <1>1, <2>1 DEF JournalsInv, EvoTypeOK
    <2>3. NumberedByPlace' /\ Aligned' /\ AckedIsKept'
      BY <1>1 DEF JournalsInv, NumberedByPlace, Aligned, AckedIsKept
    <2>4. QED
      BY <2>1, <2>2, <2>3, EndKeeps
  <1>4. QED
    BY <1>2, <1>3

LEMMA ObserveKeeps ==
  ASSUME JournalsInv, NEW p \in Prints, NEW n \in 1..MaxObs, NEW day \in 0..MaxDays, Observe(p, n, day)
  PROVE  JournalsInv'
  <1> DEFINE o == [type |-> "observation", print |-> p, occurrence |-> n, day |-> day]
  <1>1. o \in Observation \cup Recurrence
    BY DEF Observation
  <1>2. QED
    BY <1>1, ReplayOrStart DEF Observe

LEMMA DecideRecurrenceKeeps ==
  ASSUME JournalsInv, NEW p \in Prints, DecideRecurrence(p)
  PROVE  JournalsInv'
  <1> DEFINE seen == {y \in Elements(obs) : y.type = "observation" /\ y.print = p}
             members == {x.occurrence : x \in seen}
             r == [type |-> "decision", print |-> p, members |-> members]
  <1>1. \A y \in seen : y \in Observation
    <2>1. \A y \in Elements(obs) : y \in Observation \cup Recurrence
      BY ElementOfSeq DEF JournalsInv, EvoTypeOK, Elements
    <2>2. QED
      BY <2>1 DEF Recurrence
  <1>2. members \subseteq 1..MaxObs
    BY <1>1 DEF Observation
  <1>3. r \in Observation \cup Recurrence
    BY <1>2 DEF Recurrence
  <1>4. QED
    BY <1>3, ReplayOrStart DEF DecideRecurrence

\* A receipt is written on the rows of the journal, behind the rows it follows.
LEMMA ReceiptStartKeeps ==
  ASSUME JournalsInv, ReceiptsReady, NEW e \in Receipt, e.gen <= Len(rec) + 1,
         db' = [db EXCEPT !.rec = ReceiptRows, !.wrec = rec], Append1("rec", e),
         UNCHANGED <<days, obs, rec, others, torn, check, expired, tokens, acked>>
  PROVE  JournalsInv'
  <1>1. ReceiptRows = rec
    BY ReadyRows DEF JournalsInv
  <1>2. db' \in EvolutionDb /\ db'.rec = rec /\ db'.wrec = rec
    BY <1>1 DEF JournalsInv, EvoTypeOK, EvolutionDb
  <1>3. job' = [pc |-> "append", j |-> "rec", ev |-> e] /\ "rec" \in Journals
    BY DEF Append1, Journals
  <1>4. QED
    BY <1>2, <1>3, StartKeeps

LEMMA CurrentReceipt ==
  ASSUME JournalsInv, NEW d, NEW r \in Current(rec, d)
  PROVE  r \in Receipt /\ r.date = d /\ r.gen <= Len(rec) /\ Len(rec) \in Nat
  <1>1. PICK i \in 1..Len(rec) : r = rec[i] /\ r.date = d
    BY CurrentIsARow DEF JournalsInv, EvoTypeOK
  <1>2. rec[i] \in Receipt /\ Len(rec) \in Nat
    BY ElementOfSeq DEF JournalsInv, EvoTypeOK
  <1>3. rec[i].gen <= i /\ rec[i].gen \in Nat
    BY <1>2 DEF JournalsInv, NumberedByPlace, Receipt
  <1>4. QED
    BY <1>1, <1>2, <1>3

LEMMA ClaimKeeps ==
  ASSUME JournalsInv, NEW c \in Claimers, NEW d \in Dates, Claim(c, d)
  PROVE  JournalsInv'
  <1> DEFINE cur == Current(ReceiptRows, d)
             gen == IF cur = {} THEN 1 ELSE (CHOOSE r \in cur : TRUE).gen + 1
             e   == [date |-> d, status |-> "claimed", by |-> c, gen |-> gen]
  <1>1. ReceiptRows = rec
    BY ReadyRows DEF Claim, JournalsInv
  <1>2. gen \in 1..MaxReceipts /\ gen <= Len(rec) + 1
    <2>1. Len(rec) \in Nat /\ Len(rec) < MaxReceipts
      BY LenProperties DEF Claim, JournalsInv, EvoTypeOK
    <2>2. CASE cur = {}
      BY <2>1, <2>2, JournalBounds
    <2>3. CASE cur # {}
      <3> DEFINE r == CHOOSE x \in cur : TRUE
      <3>1. r \in cur /\ gen = r.gen + 1
        BY <2>3
      <3>2. r \in Receipt /\ r.gen <= Len(rec)
        BY <1>1, <3>1, CurrentReceipt
      <3>3. r.gen \in 1..MaxReceipts
        BY <3>2 DEF Receipt
      <3>4. QED
        BY <2>1, <3>1, <3>2, <3>3, JournalBounds
    <2>4. QED
      BY <2>2, <2>3
  <1>3. e \in Receipt /\ e.gen = gen
    BY <1>2 DEF Receipt
  <1>4. Append1("rec", e) /\ ReceiptsReady
    BY DEF Claim
  <1>5. QED
    BY <1>2, <1>3, <1>4, ReceiptStartKeeps DEF Claim

LEMMA AcknowledgeKeeps ==
  ASSUME JournalsInv, NEW c \in Claimers, NEW d \in Dates, NEW status \in {"shown", "decided"},
         Acknowledge(c, d, status)
  PROVE  JournalsInv'
  <1>1. ReceiptRows = rec
    BY ReadyRows DEF Acknowledge, JournalsInv
  <1>2. PICK r \in Current(rec, d) : Append1("rec", [r EXCEPT !.status = status])
    BY <1>1 DEF Acknowledge
  <1> DEFINE e == [r EXCEPT !.status = status]
  <1>3. r \in Receipt /\ r.gen <= Len(rec) /\ Len(rec) \in Nat
    BY CurrentReceipt
  <1>4. e \in Receipt /\ e.gen <= Len(rec) + 1
    BY <1>3, JournalBounds DEF Receipt
  <1>5. QED
    BY <1>2, <1>4, ReceiptStartKeeps DEF Acknowledge

-----------------------------------------------------------------------------

\* The lines of each journal, and what an append adds to one.
LinesOf(j) == IF j = "days" THEN days ELSE IF j = "obs" THEN obs ELSE rec
LineSet(j) == IF j = "days" THEN Evidence
              ELSE IF j = "obs" THEN Observation \cup Recurrence ELSE Receipt

LEMMA LinesTyped ==
  ASSUME EvoTypeOK, NEW j \in Journals
  PROVE  LinesOf(j) \in Seq(LineSet(j))
  BY DEF EvoTypeOK, LinesOf, LineSet, Journals

LEMMA JobTyped ==
  ASSUME EvoTypeOK, job.pc \in AppendSteps
  PROVE  /\ job.j \in Journals /\ job.ev \in LineSet(job.j) /\ JobLine = LinesOf(job.j)
         /\ job = [pc |-> job.pc, j |-> job.j, ev |-> job.ev]
  <1>1. job \in Job
    BY DEF EvoTypeOK
  <1>2. QED
    BY <1>1, JobShape DEF LineSet, LinesOf, JobLine, Journals

\* What is in a journal, and in no other place, when one of them is replaced.
LEMMA PutLines ==
  ASSUME NEW j \in Journals, NEW s, Put(j, s)
  PROVE  LinesOf(j)' = s /\ \A k \in Journals : k # j => LinesOf(k)' = LinesOf(k)
  BY DEF Put, LinesOf, Journals

LEMMA AckedByJournal ==
  AckedIsKept <=> \A a \in acked : a[1] \in Journals /\ a[2] \in Elements(LinesOf(a[1]))
  BY DEF AckedIsKept, LinesOf, Journals

\* A journal may be replaced by one that still has what was acknowledged of it.
LEMMA PutKeepsAcked ==
  ASSUME AckedIsKept, NEW j \in Journals, NEW s, Put(j, s), acked' = acked,
         \A a \in acked : a[1] = j => a[2] \in Elements(s)
  PROVE  AckedIsKept'
  <1>1. LinesOf(j)' = s /\ \A k \in Journals : k # j => LinesOf(k)' = LinesOf(k)
    BY PutLines
  <1>2. \A a \in acked : a[1] \in Journals /\ a[2] \in Elements(LinesOf(a[1]))
    BY AckedByJournal
  <1>3. \A a \in acked : a[2] \in Elements(LinesOf(a[1])')
    BY <1>1, <1>2
  <1>4. QED
    BY <1>2, <1>3 DEF AckedIsKept, LinesOf, Journals, Elements

\* Replacing a journal by another one of its lines keeps the types.
LEMMA PutTyped ==
  ASSUME EvoTypeOK, NEW j \in Journals, NEW s \in Seq(LineSet(j)), Put(j, s),
         others' = others, torn' \subseteq Journals \cup {"check"}, db' \in EvolutionDb, job' \in Job,
         expired' = expired, tokens' = tokens
  PROVE  EvoTypeOK'
  BY DEF EvoTypeOK, Put, LineSet, Journals

LEMMA AppendLineKeeps ==
  ASSUME JournalsInv, NEW how \in {"ok", "failed", "kept", "torn"}, AppendLine(how)
  PROVE  JournalsInv'
  <1>0. PICK j \in Journals : j = job.j
    BY JobTyped DEF AppendLine, AppendSteps, JournalsInv
  <1> DEFINE e == job.ev
             s == IF how \in {"ok", "kept"} THEN Append(JobLine, e) ELSE JobLine
  <1>1. /\ j \in Journals /\ e \in LineSet(j) /\ JobLine = LinesOf(j) /\ JobLine \in Seq(LineSet(j))
        /\ job = [pc |-> "append", j |-> j, ev |-> e]
    BY <1>0, JobTyped, LinesTyped DEF AppendLine, AppendSteps, JournalsInv
  <1>2. Put(j, s) /\ db' = db /\ acked' = acked
    BY <1>0 DEF AppendLine
  <1>3. /\ s \in Seq(LineSet(j)) /\ Elements(JobLine) \subseteq Elements(s)
        /\ s = JobLine \/ (s = Append(JobLine, e) /\ s # JobLine)
    BY <1>1, CutOfAppend
  <1>4. LinesOf(j)' = s /\ \A k \in Journals : k # j => LinesOf(k)' = LinesOf(k)
    BY <1>1, <1>2, PutLines
  <1>5. rec' = LinesOf("rec")' /\ rec = LinesOf("rec") /\ "rec" \in Journals
    BY DEF LinesOf, Journals
  <1>6. AckedIsKept'
    <2>1. \A a \in acked : a[1] = j => a[2] \in Elements(s)
      BY <1>1, <1>3, AckedByJournal DEF JournalsInv
    <2>2. QED
      BY <1>1, <1>2, <2>1, PutKeepsAcked DEF JournalsInv
  <1>7. j = "rec" => db.rec = rec /\ db.wrec = rec /\ e.gen <= Len(rec) + 1
    BY <1>0 DEF AppendLine, JournalsInv, AppendKnows
  <1>8. rec' = rec \/ (j = "rec" /\ rec' = Append(rec, e) /\ rec' # rec)
    BY <1>1, <1>3, <1>4, <1>5
  <1>9. Aligned'
    BY <1>2, <1>7, <1>8 DEF Aligned, JournalsInv
  <1>10. NumberedByPlace'
    <2>1. CASE rec' = rec
      BY <2>1 DEF NumberedByPlace, JournalsInv
    <2>2. CASE rec' # rec
      <3>1. j = "rec" /\ rec' = Append(rec, e) /\ e \in Receipt /\ rec \in Seq(Receipt)
        BY <1>1, <1>8, <2>2 DEF LineSet, JournalsInv, EvoTypeOK
      <3>2. /\ Len(rec') = Len(rec) + 1 /\ Len(rec) \in Nat /\ rec'[Len(rec')] = e
            /\ \A i \in 1..Len(rec) : rec'[i] = rec[i]
        BY <3>1, CutOfAppend
      <3>3. \A i \in 1..Len(rec') : i = Len(rec') \/ i \in 1..Len(rec)
        BY <3>2
      <3>4. QED
        BY <1>7, <3>1, <3>2, <3>3 DEF NumberedByPlace, JournalsInv
    <2>3. QED
      BY <2>1, <2>2
  <1>11. torn' \subseteq Journals \cup {"check"}
    BY <1>0, <1>1 DEF AppendLine, JournalsInv, EvoTypeOK
  <1>12. CASE how = "ok"
    <2>1. job' = [job EXCEPT !.pc = "project"]
      BY <1>12 DEF AppendLine
    <2>2. job' = [pc |-> "project", j |-> j, ev |-> e] /\ job' \in Job
      BY <1>1, <2>1 DEF Job, AppendSteps, LineSet, Journals
    <2>3. EvoTypeOK'
      BY <1>1, <1>2, <1>3, <1>11, <2>2, PutTyped DEF AppendLine, JournalsInv, EvoTypeOK
    <2>4. JobLine' = s /\ s = Append(JobLine, e)
      BY <1>1, <1>4, <1>12, <2>2, JobTyped DEF LinesOf, JobLine, Journals
    <2>5. s # <<>> /\ s[Len(s)] = e /\ Cut(s) = JobLine
      BY <1>1, <2>4, CutOfAppend
    <2>6. \A a \in acked' : a[1] = j => a[2] \in Elements(JobLine)
      BY <1>1, <1>2, AckedByJournal DEF JournalsInv
    <2>7. j = "rec" => rec' = Append(db'.rec, e) /\ db'.wrec = db'.rec
      BY <1>1, <1>2, <1>4, <1>5, <1>7, <2>4
    <2>8. AppendKnows'
      <3>1. job'.pc = "project" /\ job'.j = j /\ job'.ev = e
        BY <2>2
      <3>2. JobLine' # <<>> /\ (JobLine[Len(JobLine)])' = job'.ev /\ Cut(JobLine)' = JobLine
        BY <2>4, <2>5, <3>1 DEF Cut
      <3>3. \A a \in acked' : a[1] = job'.j => a[2] \in Elements(Cut(JobLine))'
        BY <2>6, <3>1, <3>2 DEF Elements
      <3>4. QED
        BY <2>7, <3>1, <3>2, <3>3 DEF AppendKnows
    <2>9. RepairKnows'
      BY <2>2 DEF RepairKnows
    <2>10. QED
      BY <1>6, <1>9, <1>10, <2>3, <2>8, <2>9 DEF JournalsInv
  <1>13. CASE how # "ok"
    <2>1. job' = NoJob /\ job' \in Job
      BY <1>13 DEF AppendLine, Job
    <2>2. EvoTypeOK'
      BY <1>1, <1>2, <1>3, <1>11, <2>1, PutTyped DEF AppendLine, JournalsInv, EvoTypeOK
    <2>3. QED
      BY <1>6, <1>9, <1>10, <2>1, <2>2, EndKeeps
  <1>14. QED
    BY <1>12, <1>13

\* What is reported as done is the last line of its journal.
LEMMA ReportKeeps ==
  ASSUME JournalsInv, job.pc \in {"project", "checkpoint"}, Report, UNCHANGED <<days, obs, rec>>
  PROVE  /\ AckedIsKept' /\ job' = NoJob
         /\ tokens' \in [Claimers -> (Dates \X (1..MaxReceipts)) \cup {NoClaim}]
  <1>1. PICK j \in Journals : j = job.j
    BY JobTyped DEF AppendSteps, JournalsInv
  <1> DEFINE e == job.ev
  <1>2. /\ e \in LineSet(j) /\ JobLine = LinesOf(j) /\ JobLine \in Seq(LineSet(j))
        /\ JobLine # <<>> /\ JobLine[Len(JobLine)] = e
    BY <1>1, JobTyped, LinesTyped DEF AppendSteps, JournalsInv, AppendKnows
  <1>3. e \in Elements(JobLine)
    BY <1>2, EmptySeq DEF Elements
  <1>4. \A k \in Journals : LinesOf(k)' = LinesOf(k)
    BY DEF LinesOf
  <1>5. \A a \in acked' : a \in acked \/ a = <<j, e>>
    BY <1>1 DEF Report
  <1>6. \A a \in acked' : a[1] \in Journals /\ a[2] \in Elements(LinesOf(a[1]))
    BY <1>2, <1>3, <1>5, AckedByJournal DEF JournalsInv
  <1>7. AckedIsKept'
    BY <1>6 DEF AckedIsKept, LinesOf, Journals, Elements
  <1>8. tokens' \in [Claimers -> (Dates \X (1..MaxReceipts)) \cup {NoClaim}]
    <2>1. j = "rec" => e \in Receipt
      BY <1>2 DEF LineSet
    <2>2. j = "rec" => e.by \in Claimers /\ <<e.date, e.gen>> \in Dates \X (1..MaxReceipts)
      BY <2>1 DEF Receipt
    <2>3. QED
      BY <1>1, <2>2 DEF Report, JournalsInv, EvoTypeOK
  <1>9. QED
    BY <1>7, <1>8 DEF Report, EndHandler

LEMMA ProjectLineKeeps == ASSUME JournalsInv, ProjectLine PROVE JournalsInv'
  <1>1. PICK j \in Journals : j = job.j
    BY JobTyped DEF AppendSteps, JournalsInv, ProjectLine
  <1> DEFINE e == job.ev
  <1>2. /\ e \in LineSet(j) /\ JobLine = LinesOf(j) /\ JobLine \in Seq(LineSet(j))
        /\ job = [pc |-> "project", j |-> j, ev |-> e]
    BY <1>1, JobTyped, LinesTyped DEF AppendSteps, JournalsInv, ProjectLine
  <1>3. UNCHANGED <<days, obs, rec, others, torn, check, expired>>
    BY DEF ProjectLine
  <1>4. NumberedByPlace'
    BY <1>3 DEF NumberedByPlace, JournalsInv
  <1>5. CASE j = "days"
    <2>1. db' = [db EXCEPT !.days = days] /\ Report
      BY <1>1, <1>5 DEF ProjectLine, Projected
    <2>2. AckedIsKept' /\ job' = NoJob /\ tokens' \in [Claimers -> (Dates \X (1..MaxReceipts)) \cup {NoClaim}]
      BY <1>3, <2>1, ReportKeeps DEF ProjectLine
    <2>3. db' \in EvolutionDb /\ db'.rec = db.rec /\ db'.wrec = db.wrec
      BY <2>1 DEF JournalsInv, EvoTypeOK, EvolutionDb
    <2>4. EvoTypeOK'
      BY <1>3, <2>2, <2>3 DEF JournalsInv, EvoTypeOK, Job
    <2>5. Aligned'
      BY <1>3, <2>3 DEF Aligned, JournalsInv
    <2>6. QED
      BY <1>4, <2>2, <2>4, <2>5, EndKeeps
  <1>6. CASE j # "days"
    <2>1. job' = [job EXCEPT !.pc = "checkpoint"] /\ UNCHANGED <<tokens, acked, faults>>
      BY <1>1, <1>6 DEF ProjectLine
    <2>2. job' = [pc |-> "checkpoint", j |-> j, ev |-> e] /\ job' \in Job
      BY <1>2, <1>6, <2>1 DEF Job, AppendSteps, LineSet, Journals
    <2>3. ASSUME j = "obs"
          PROVE  db' \in EvolutionDb /\ Aligned' /\ (j = "rec" => db'.rec = rec' /\ db'.wrec = rec')
      <3>1. db' = [db EXCEPT !.obs = Append(db.obs, e), !.wobs = obs]
        BY <1>1, <2>3 DEF ProjectLine, Projected
      <3>2. e \in Observation \cup Recurrence
        BY <1>2, <2>3 DEF LineSet
      <3>3. db' \in EvolutionDb /\ db'.rec = db.rec /\ db'.wrec = db.wrec
        <4>1. db \in EvolutionDb /\ Append(db.obs, e) \in Seq(Observation \cup Recurrence)
          BY <3>2, CutOfAppend DEF JournalsInv, EvoTypeOK, EvolutionDb
        <4>2. QED
          BY <3>1, <4>1 DEF JournalsInv, EvoTypeOK, EvolutionDb
      <3>4. QED
        BY <1>3, <2>3, <3>3 DEF Aligned, JournalsInv
    <2>4. ASSUME j = "rec"
          PROVE  db' \in EvolutionDb /\ Aligned' /\ (j = "rec" => db'.rec = rec' /\ db'.wrec = rec')
      <3>1. db' = [db EXCEPT !.rec = Append(db.rec, e), !.wrec = rec]
        BY <1>1, <2>4 DEF ProjectLine, Projected
      <3>2. e \in Receipt /\ rec = Append(db.rec, e)
        BY <1>1, <1>2, <2>4 DEF LineSet, JournalsInv, AppendKnows, ProjectLine
      <3>3. db' \in EvolutionDb /\ db'.rec = rec /\ db'.wrec = rec
        BY <3>1, <3>2 DEF JournalsInv, EvoTypeOK, EvolutionDb
      <3>4. QED
        BY <1>3, <3>3 DEF Aligned
    <2>5. db' \in EvolutionDb /\ Aligned' /\ (j = "rec" => db'.rec = rec' /\ db'.wrec = rec')
      BY <1>3, <1>6, <2>3, <2>4 DEF Journals
    <2>6. EvoTypeOK'
      BY <1>3, <2>1, <2>2, <2>5 DEF JournalsInv, EvoTypeOK
    <2>7. AckedIsKept'
      BY <1>3, <2>1 DEF JournalsInv, AckedIsKept, Elements
    <2>8. AppendKnows'
      <3>1. job'.pc = "checkpoint" /\ job'.j = j /\ job'.ev = e
        BY <2>2
      <3>2. JobLine' = JobLine
        BY <1>1, <1>3, <3>1 DEF JobLine
      <3>3. /\ JobLine # <<>> /\ JobLine[Len(JobLine)] = e
            /\ \A a \in acked : a[1] = j => a[2] \in Elements(Cut(JobLine))
        BY <1>1, <1>2 DEF JournalsInv, AppendKnows
      <3>4. Elements(Cut(JobLine))' = Elements(Cut(JobLine)) /\ (JobLine[Len(JobLine)])' = e
        BY <3>2, <3>3 DEF Elements, Cut
      <3>5. /\ JobLine' # <<>> /\ (JobLine[Len(JobLine)])' = job'.ev
            /\ \A a \in acked' : a[1] = job'.j => a[2] \in Elements(Cut(JobLine))'
        BY <2>1, <3>1, <3>2, <3>3, <3>4
      <3>6. QED
        BY <1>6, <2>5, <3>1, <3>5 DEF AppendKnows
    <2>9. RepairKnows'
      BY <2>2 DEF RepairKnows
    <2>10. QED
      BY <1>4, <2>5, <2>6, <2>7, <2>8, <2>9 DEF JournalsInv
  <1>7. QED
    BY <1>5, <1>6

LEMMA CertifyKeeps == ASSUME JournalsInv, Certify PROVE JournalsInv'
  <1>1. UNCHANGED <<days, obs, rec, others, torn, db, expired>>
    BY DEF Certify
  <1>2. AckedIsKept' /\ job' = NoJob /\ tokens' \in [Claimers -> (Dates \X (1..MaxReceipts)) \cup {NoClaim}]
    BY <1>1, ReportKeeps DEF Certify
  <1>3. EvoTypeOK'
    BY <1>1, <1>2 DEF JournalsInv, EvoTypeOK, Job
  <1>4. NumberedByPlace' /\ Aligned'
    BY <1>1 DEF NumberedByPlace, Aligned, JournalsInv
  <1>5. QED
    BY <1>2, <1>3, <1>4, EndKeeps

\* The rows that stay behind a failed append are those of the journal or too few or too many.
LEMMA FailAppendAligned ==
  ASSUME JournalsInv, NEW shortened \in BOOLEAN, NEW restored \in BOOLEAN, FailAppend(shortened, restored)
  PROVE  db' \in EvolutionDb /\ Aligned'
  <1>1. PICK j \in Journals : j = job.j
    BY JobTyped DEF AppendSteps, JournalsInv, FailAppend
  <1> DEFINE e == job.ev
             L == LinesOf(j)
             s == IF shortened THEN Cut(L) ELSE L
  <1>2. /\ e \in LineSet(j) /\ JobLine = L /\ L \in Seq(LineSet(j)) /\ L # <<>>
        /\ job.pc \in {"project", "checkpoint"}
    BY <1>1, JobTyped, LinesTyped DEF AppendSteps, JournalsInv, AppendKnows, FailAppend
  <1>3. s \in Seq(LineSet(j)) /\ Put(j, s)
    BY <1>1, <1>2, CutProperties DEF FailAppend
  <1>4. db \in EvolutionDb /\ Cut(db.obs) \in Seq(Observation \cup Recurrence) /\ Cut(db.rec) \in Seq(Receipt)
    BY CutProperties DEF JournalsInv, EvoTypeOK, EvolutionDb
  <1>5. CASE j # "rec"
    <2>1. rec' = rec
      BY <1>3, <1>5 DEF Put
    <2>2. db' = db \/ (j = "obs" /\ db' = [db EXCEPT !.obs = Cut(db.obs), !.wobs = s])
      BY <1>1, <1>2, <1>5 DEF FailAppend
    <2>3. db' \in EvolutionDb /\ db'.rec = db.rec /\ db'.wrec = db.wrec
      BY <1>3, <1>4, <2>2 DEF EvolutionDb, LineSet
    <2>4. QED
      BY <2>1, <2>3 DEF Aligned, JournalsInv
  <1>6. CASE j = "rec"
    <2>1. L = rec /\ s \in Seq(Receipt) /\ rec \in Seq(Receipt) /\ e \in Receipt /\ rec' = s
      BY <1>2, <1>3, <1>6 DEF LineSet, LinesOf, Put
    <2>2. /\ restored => db' = [db EXCEPT !.rec = IF job.pc = "checkpoint" THEN Cut(db.rec) ELSE db.rec,
                                          !.wrec = IF Len(L) = 1 THEN NoMark ELSE s]
          /\ ~restored => db' = db
      BY <1>1, <1>2, <1>6 DEF FailAppend
    <2>3. NoMark \in Seq(Receipt)
      BY EmptySeq DEF NoMark
    <2>4. db' \in EvolutionDb /\ db'.rec = IF restored /\ job.pc = "checkpoint" THEN Cut(db.rec) ELSE db.rec
      BY <1>4, <2>1, <2>2, <2>3 DEF EvolutionDb
    <2>5. Len(Cut(rec)) = Len(rec) - 1 /\ Len(rec) \in Nat
      BY <1>2, <2>1, CutProperties, LenProperties
    <2>6. CASE job.pc = "project"
      <3>1. rec = Append(db.rec, e) /\ db.rec \in Seq(Receipt)
        BY <1>1, <1>4, <1>6, <2>6 DEF JournalsInv, AppendKnows, EvolutionDb
      <3>2. Cut(rec) = db.rec
        BY <2>1, <3>1, CutOfAppend
      <3>3. db'.rec = s \/ Len(db'.rec) # Len(s)
        BY <2>1, <2>4, <2>5, <2>6, <3>2
      <3>4. QED
        BY <2>1, <2>4, <3>3 DEF Aligned
    <2>7. CASE job.pc = "checkpoint"
      <3>1. db.rec = rec
        BY <1>1, <1>6, <2>7 DEF JournalsInv, AppendKnows
      <3>2. db'.rec = s \/ Len(db'.rec) # Len(s)
        BY <2>1, <2>4, <2>5, <2>7, <3>1
      <3>3. QED
        BY <2>1, <2>4, <3>2 DEF Aligned
    <2>8. QED
      BY <1>2, <2>6, <2>7
  <1>7. QED
    BY <1>5, <1>6

LEMMA FailAppendKeeps ==
  ASSUME JournalsInv, NEW shortened \in BOOLEAN, NEW restored \in BOOLEAN, FailAppend(shortened, restored)
  PROVE  JournalsInv'
  <1>1. PICK j \in Journals : j = job.j
    BY JobTyped DEF AppendSteps, JournalsInv, FailAppend
  <1> DEFINE L == LinesOf(j)
             s == IF shortened THEN Cut(L) ELSE L
  <1>2. JobLine = L /\ L \in Seq(LineSet(j)) /\ job.pc \in {"project", "checkpoint"}
    BY <1>1, JobTyped, LinesTyped DEF AppendSteps, JournalsInv, FailAppend
  <1>3. s \in Seq(LineSet(j)) /\ Put(j, s) /\ job' = NoJob /\ acked' = acked
    BY <1>1, <1>2, CutProperties DEF FailAppend
  <1>4. db' \in EvolutionDb /\ Aligned'
    BY FailAppendAligned
  <1>5. EvoTypeOK'
    BY <1>3, <1>4, PutTyped DEF FailAppend, JournalsInv, EvoTypeOK, Job
  <1>6. AckedIsKept'
    <2>1. \A a \in acked : a[1] = j => a[2] \in Elements(L) /\ a[2] \in Elements(Cut(L))
      BY <1>1, <1>2, AckedByJournal DEF JournalsInv, AppendKnows
    <2>2. QED
      BY <1>3, <2>1, PutKeepsAcked DEF JournalsInv
  <1>7. NumberedByPlace'
    <2>1. rec' = rec \/ rec' = Cut(rec)
      BY <1>3 DEF Put, LinesOf
    <2>2. Len(rec) \in Nat /\ \A i \in 1..Len(Cut(rec)) : i \in 1..Len(rec) /\ Cut(rec)[i] = rec[i]
      BY CutProperties, LenProperties DEF JournalsInv, EvoTypeOK
    <2>3. QED
      BY <2>1, <2>2 DEF NumberedByPlace, JournalsInv
  <1>8. QED
    BY <1>3, <1>4, <1>5, <1>6, <1>7, EndKeeps

LEMMA OtherTerminalKeeps ==
  ASSUME JournalsInv, NEW certified \in BOOLEAN, OtherTerminal(certified)
  PROVE  JournalsInv'
  <1>1. UNCHANGED <<days, obs, rec, torn, db, expired, tokens, acked, job>> /\ job' = NoJob
    BY DEF OtherTerminal, Unlocked
  <1>2. others' \in 0..MaxOthers
    BY JournalBounds DEF OtherTerminal, JournalsInv, EvoTypeOK
  <1>3. EvoTypeOK'
    BY <1>1, <1>2 DEF JournalsInv, EvoTypeOK
  <1>4. NumberedByPlace' /\ Aligned' /\ AckedIsKept'
    BY <1>1 DEF NumberedByPlace, Aligned, AckedIsKept, JournalsInv, Elements
  <1>5. QED
    BY <1>1, <1>3, <1>4, EndKeeps

LEMMA EvoCrashKeeps == ASSUME JournalsInv, NEW half \in BOOLEAN, EvoCrash(half) PROVE JournalsInv'
  <1>1. UNCHANGED <<days, obs, rec, others, db, expired, tokens, acked>> /\ job' = NoJob
    BY DEF EvoCrash
  <1>2. job.pc = "append" => job.j \in Journals
    BY JobTyped DEF AppendSteps, JournalsInv
  <1>3. torn' \subseteq Journals \cup {"check"}
    BY <1>2 DEF EvoCrash, JournalsInv, EvoTypeOK
  <1>4. EvoTypeOK'
    BY <1>1, <1>3 DEF JournalsInv, EvoTypeOK, Job
  <1>5. NumberedByPlace' /\ Aligned' /\ AckedIsKept'
    BY <1>1 DEF NumberedByPlace, Aligned, AckedIsKept, JournalsInv, Elements
  <1>6. QED
    BY <1>1, <1>4, <1>5, EndKeeps

\* A step that leaves the journals, the rows and the handler alone.
LEMMA JournalsRest ==
  ASSUME JournalsInv, UNCHANGED <<days, obs, rec, torn, db, acked, job>>, EvoTypeOK'
  PROVE  JournalsInv'
  <1>1. NumberedByPlace' /\ Aligned' /\ AckedIsKept' /\ RepairKnows'
    BY DEF NumberedByPlace, Aligned, AckedIsKept, JournalsInv, Elements, RepairKnows
  <1>2. JobLine' = JobLine
    BY DEF JobLine
  <1>3. AppendKnows'
    BY <1>2 DEF JournalsInv, AppendKnows, Elements, Cut
  <1>4. QED
    BY <1>1, <1>3 DEF JournalsInv

LEMMA ExpireKeeps == ASSUME JournalsInv, NEW d \in Dates, Expire(d) PROVE JournalsInv'
  <1>1. PICK r \in Current(rec, d) :
          /\ expired' = expired \cup {<<d, r.gen>>}
          /\ UNCHANGED <<days, obs, rec, others, torn, db, check, tokens, acked, job, faults>>
    BY DEF Expire
  <1>2. r.gen \in 1..MaxReceipts
    BY CurrentReceipt DEF Receipt
  <1>3. EvoTypeOK'
    BY <1>1, <1>2 DEF JournalsInv, EvoTypeOK
  <1>4. QED
    BY <1>1, <1>3, JournalsRest

LEMMA RepairDerivedKeeps == ASSUME JournalsInv, RepairDerived PROVE JournalsInv'
  <1>1. UNCHANGED <<days, obs, rec, others, db, check, expired, tokens, acked, faults>> /\ torn' = {}
    BY DEF RepairDerived
  <1>2. job' = NoJob \/ job' = [pc |-> "repair", next |-> "days"]
    BY DEF RepairDerived
  <1>3. EvoTypeOK'
    BY <1>1, <1>2 DEF JournalsInv, EvoTypeOK, Job, Journals
  <1>4. NumberedByPlace' /\ Aligned' /\ AckedIsKept'
    BY <1>1 DEF NumberedByPlace, Aligned, AckedIsKept, JournalsInv, Elements
  <1>5. job'.pc # "repair" \/ job'.next = "days"
    BY <1>2 DEF NoJob
  <1>6. job'.pc \in {"idle", "repair"}
    BY <1>2 DEF NoJob
  <1>7. AppendKnows' /\ RepairKnows'
    BY <1>1, <1>5, <1>6 DEF AppendKnows, RepairKnows
  <1>8. QED
    BY <1>3, <1>4, <1>7 DEF JournalsInv

LEMMA RebuildPartKeeps ==
  ASSUME JournalsInv, NEW part \in Journals, NEW certified \in BOOLEAN, RebuildPart(part, certified)
  PROVE  JournalsInv'
  <1>1. UNCHANGED <<days, obs, rec, others, torn, expired, tokens, acked>> /\ job.pc = "repair" /\ job.next = part
    BY DEF RebuildPart
  <1>2. /\ part = "days" => db' = [db EXCEPT !.days = days]
        /\ part = "obs" => db' = [db EXCEPT !.obs = obs, !.wobs = obs]
        /\ part = "rec" => db' = [db EXCEPT !.rec = rec, !.wrec = rec]
    BY DEF RebuildPart, Replayed
  <1>3. /\ db' \in EvolutionDb
        /\ part = "days" => db'.days = days /\ db'.rec = db.rec /\ db'.wrec = db.wrec
        /\ part = "obs" => db'.days = db.days /\ db'.obs = obs /\ db'.rec = db.rec /\ db'.wrec = db.wrec
        /\ part = "rec" => db'.days = db.days /\ db'.obs = db.obs /\ db'.rec = rec /\ db'.wrec = rec
    BY <1>2 DEF JournalsInv, EvoTypeOK, EvolutionDb, Journals
  <1>4. \/ job' = NoJob
        \/ part = "days" /\ job' = [pc |-> "repair", next |-> "obs"]
        \/ part = "obs" /\ job' = [pc |-> "repair", next |-> "rec"]
    <2>1. job = [pc |-> "repair", next |-> part]
      BY <1>1, JobShape DEF JournalsInv, EvoTypeOK
    <2>2. QED
      BY <2>1 DEF RebuildPart, Journals
  <1>5. EvoTypeOK'
    BY <1>1, <1>3, <1>4 DEF JournalsInv, EvoTypeOK, Job, Journals
  <1>6. Aligned'
    BY <1>1, <1>3 DEF Aligned, JournalsInv, Journals
  <1>7. NumberedByPlace' /\ AckedIsKept'
    BY <1>1 DEF NumberedByPlace, AckedIsKept, JournalsInv, Elements
  <1>8. AppendKnows'
    BY <1>4 DEF AppendKnows, NoJob
  <1>9. RepairKnows'
    BY <1>1, <1>3, <1>4 DEF RepairKnows, JournalsInv, NoJob
  <1>10. QED
    BY <1>5, <1>6, <1>7, <1>8, <1>9 DEF JournalsInv

LEMMA JournalsStep == JournalsInv /\ [EvoNext]_evoVars => JournalsInv'
  <1> SUFFICES ASSUME JournalsInv, [EvoNext]_evoVars PROVE JournalsInv'
    OBVIOUS
  <1>1. ASSUME NEW e \in Evidence, AllocateDay(e) PROVE JournalsInv'
    BY <1>1, AllocateDayKeeps
  <1>2. ASSUME NEW p \in Prints, NEW n \in 1..MaxObs, NEW day \in 0..MaxDays, Observe(p, n, day)
        PROVE  JournalsInv'
    BY <1>2, ObserveKeeps
  <1>3. ASSUME NEW p \in Prints, DecideRecurrence(p) PROVE JournalsInv'
    BY <1>3, DecideRecurrenceKeeps
  <1>4. ASSUME NEW d \in Dates, Expire(d) PROVE JournalsInv'
    BY <1>4, ExpireKeeps
  <1>5. ASSUME NEW d \in Dates, NEW c \in Claimers, Claim(c, d) PROVE JournalsInv'
    BY <1>5, ClaimKeeps
  <1>6. ASSUME NEW d \in Dates, NEW c \in Claimers, Acknowledge(c, d, "shown") \/ Acknowledge(c, d, "decided")
        PROVE  JournalsInv'
    BY <1>6, AcknowledgeKeeps
  <1>7. ASSUME NEW how \in {"ok", "failed", "kept", "torn"}, AppendLine(how) PROVE JournalsInv'
    BY <1>7, AppendLineKeeps
  <1>8. CASE ProjectLine
    BY <1>8, ProjectLineKeeps
  <1>9. CASE Certify
    BY <1>9, CertifyKeeps
  <1>10. CASE RepairDerived
    BY <1>10, RepairDerivedKeeps
  <1>11. ASSUME NEW shortened \in BOOLEAN, NEW restored \in BOOLEAN, FailAppend(shortened, restored) PROVE JournalsInv'
    BY <1>11, FailAppendKeeps
  <1>12. ASSUME NEW b \in BOOLEAN, OtherTerminal(b) PROVE JournalsInv'
    BY <1>12, OtherTerminalKeeps
  <1>13. ASSUME NEW b \in BOOLEAN, EvoCrash(b) PROVE JournalsInv'
    BY <1>13, EvoCrashKeeps
  <1>14. ASSUME NEW part \in Journals, NEW ok \in BOOLEAN, RebuildPart(part, ok) PROVE JournalsInv'
    BY <1>14, RebuildPartKeeps
  <1>15. CASE UNCHANGED evoVars
    <2>1. UNCHANGED <<days, obs, rec, others, torn, db, expired, tokens, acked, job>>
      BY <1>15 DEF evoVars
    <2>2. EvoTypeOK'
      BY <2>1 DEF JournalsInv, EvoTypeOK
    <2>3. QED
      BY <2>1, <2>2, JournalsRest
  <1>16. QED
    BY <1>1, <1>2, <1>3, <1>4, <1>5, <1>6, <1>7, <1>8, <1>9, <1>10, <1>11, <1>12, <1>13, <1>14, <1>15 DEF EvoNext

\* What was reported as recorded stays in its journal.
THEOREM AckedIsKeptHolds == EvoSpec => []AckedIsKept
  <1>1. JournalsInv => AckedIsKept
    BY DEF JournalsInv
  <1>2. QED
    BY <1>1, JournalsInit, JournalsStep, PTL DEF EvoSpec

\* A receipt is built on the rows of the journal only.
THEOREM ReceiptsAreCanonicalHolds == EvoSpec => []ReceiptsAreCanonical
  <1>1. JournalsInv => ReceiptsAreCanonical
    BY ReadyRows DEF JournalsInv, ReceiptsAreCanonical
  <1>2. QED
    BY <1>1, JournalsInit, JournalsStep, PTL DEF EvoSpec

\* A step that writes the last checkpoint of a repair ends with everything right.
LEMMA RepairStep ==
  ASSUME JournalsInv, [EvoNext]_evoVars, job.pc = "repair", job.next = "rec", check' # check
  PROVE  Whole'
  <1>1. PICK part \in Journals, certified \in BOOLEAN : RebuildPart(part, certified)
    <2>1. job # NoJob /\ job.pc \notin AppendSteps
      BY DEF NoJob, AppendSteps
    <2>2. ~Unlocked
      BY <2>1 DEF Unlocked
    <2>3. QED
      BY <2>1, <2>2 DEF EvoNext, evoVars, AppendSteps, AllocateDay, Observe, DecideRecurrence, Claim,
         Acknowledge, Expire, AppendLine, ProjectLine, Certify, RepairDerived, FailAppend,
         OtherTerminal, EvoCrash
  <1>2. part = "rec" /\ torn' = torn /\ UNCHANGED <<days, obs, rec, others>>
    BY <1>1 DEF RebuildPart
  <1>3. check' = [tails |-> Tails, active |-> Active(db')] /\ db' = [db EXCEPT !.rec = rec, !.wrec = rec]
    BY <1>1, <1>2 DEF RebuildPart
  <1>4. torn' = {} /\ db.days = days /\ db.obs = obs /\ db \in EvolutionDb
    BY <1>2 DEF JournalsInv, RepairKnows, EvoTypeOK
  <1>5. db'.days = days' /\ db'.obs = obs' /\ db'.rec = rec'
    BY <1>2, <1>3, <1>4 DEF EvolutionDb
  <1>6. check' # <<>> /\ check'.tails = Tails' /\ check'.active = Active(db)'
    <2>1. DOMAIN check' = {"tails", "active"} /\ DOMAIN <<>> = {}
      BY <1>3
    <2>2. Tails' = Tails
      BY <1>2 DEF Tails
    <2>3. Active(db)' = Active(db')
      BY DEF Active
    <2>4. QED
      BY <1>3, <2>1, <2>2, <2>3
  <1>7. QED
    BY <1>4, <1>5, <1>6 DEF Whole, DaysValid, CheckpointOk

\* A repair that writes its last checkpoint leaves what every reader accepts.
THEOREM RepairMakesWholeHolds == EvoSpec => RepairMakesWhole
  <1>1. JournalsInv /\ [EvoNext]_evoVars => [job.pc = "repair" /\ job.next = "rec" /\ check' # check => Whole']_evoVars
    BY RepairStep
  <1>2. QED
    BY <1>1, JournalsInit, JournalsStep, PTL DEF EvoSpec, RepairMakesWhole

\* Every variable of the journals has its type.
THEOREM JournalsTypeCorrect == EvoSpec => []EvoTypeOK
  <1>1. JournalsInv => EvoTypeOK
    BY DEF JournalsInv
  <1>2. QED
    BY <1>1, JournalsInit, JournalsStep, PTL DEF EvoSpec
=============================================================================
