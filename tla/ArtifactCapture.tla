--------------------------- MODULE ArtifactCapture ---------------------------
(*****************************************************************************)
(* Saving an artifact under a request id, which makes the save safe to be    *)
(* tried again. Under the lock of the request's marker a command writes      *)
(* what it is going to do into the marker, publishes the file through a      *)
(* temporary one that it links to the final name, reads it back, and marks   *)
(* the request as committed. A command that fails or dies leaves all of it   *)
(* as it is: the next command of the same request finds out how far it       *)
(* came.                                                                     *)
(*****************************************************************************)
EXTENDS Integers, FiniteSets

CONSTANTS
  Savers,
  Bodies,                           \* contents, titles and kinds that a command may be given
  MaxSaves, MaxSaveFaults, MaxTampers     \* bounds

ASSUME CaptureAssumption == /\ {MaxSaves, MaxSaveFaults, MaxTampers} \subseteq Nat
                            /\ {"absent", "spoiled"} \cap Bodies = {}

VARIABLES
  marker,     \* the marker of the request
  temp,       \* [Arts -> the temporary file]
  final,      \* [Arts -> the published file]
  saver,      \* [Savers -> the command it runs]
  saves,      \* number of artifact ids that were made up
  answers,    \* what commands have reported as persisted
  alarms,     \* an integrity error was reported
  saveFaults, \* number of failures and deaths
  tampers     \* number of published files edited or removed by others

captureVars == <<marker, temp, final, saver, saves, answers, alarms, saveFaults, tampers>>

Arts     == 1..MaxSaves
\* "new": a record of its own, made up together with the artifact's id.
RecordOwner == {"session", "record", "new"}
Routes   == {"session", "record", "standalone", "env", "none"}
Absent   == "absent"
Spoiled  == "spoiled"
Artifact == [id : Arts, owner : RecordOwner, body : Bodies]
NoMarker == [state |-> "none"]
Marker   == {NoMarker} \cup [state : {"prepared", "committed"}, art : Artifact]
\* "pair": linked with the final file, so that both have the same content.
Temps    == {Absent, "part", "whole", "pair"}
NoSave   == [pc |-> "idle"]
SaveSteps == {"recover", "check", "intent", "open", "write", "link", "unlink", "read", "commit"}

CaptureTypeOK ==
  /\ marker \in Marker /\ temp \in [Arts -> Temps]
  /\ final \in [Arts -> Bodies \cup {Absent, Spoiled}]
  /\ saver \in [Savers -> {NoSave} \cup [pc : SaveSteps, art : Artifact, prior : {"none", "prepared", "committed"}]]
  /\ saves \in 0..MaxSaves /\ answers \subseteq Artifact /\ alarms \in BOOLEAN
  /\ saveFaults \in 0..MaxSaveFaults /\ tampers \in 0..MaxTampers

CaptureInit ==
  /\ marker = NoMarker /\ temp = [i \in Arts |-> Absent] /\ final = [i \in Arts |-> Absent]
  /\ saver = [p \in Savers |-> NoSave] /\ saves = 0 /\ answers = {} /\ alarms = FALSE
  /\ saveFaults = 0 /\ tampers = 0

-----------------------------------------------------------------------------

SaverAt(p, pc) == saver[p].pc = pc
Art(p) == saver[p].art
SaverGoto(p, pc) == saver' = [saver EXCEPT ![p].pc = pc]
SaveFails(p) == saver' = [saver EXCEPT ![p] = NoSave]

\* Mutated form: the marker is read without its lock.
NeverLocked == FALSE

\* withResourceLocks over the marker; the lock of the dead is reclaimed.
MarkerLocked == \E p \in Savers : saver[p] # NoSave

\* routeOwner: a prior request keeps its owner unless another one is named.
Owners(route) ==
  IF route \in {"session", "record"} THEN {route}
  ELSE IF marker # NoMarker THEN
         {marker.art.owner} \ (IF route = "standalone" THEN {"session"} ELSE {})
  ELSE IF route \in {"standalone", "none"} THEN {"new"}
  ELSE {"session"}

\* The request was used for the same payload and destination.
SamePayload(art) == marker # NoMarker => marker.art = art

\* saveLocked up to the first write; a conflicting request ends here.
BeginSave(p, route, body) ==
  LET id == IF marker = NoMarker THEN saves + 1 ELSE marker.art.id IN
  /\ saver[p] = NoSave /\ ~MarkerLocked /\ id <= MaxSaves
  /\ \E owner \in Owners(route) :
       LET art == [id |-> id, owner |-> owner, body |-> body] IN
       /\ SamePayload(art)
       /\ saver' = [saver EXCEPT ![p] =
            [pc |-> CASE marker.state = "none" -> "intent" [] marker.state = "prepared" -> "recover"
                      [] OTHER -> "check",
             art |-> art, prior |-> marker.state]]
  /\ saves' = IF marker = NoMarker THEN id ELSE saves
  /\ UNCHANGED <<marker, temp, final, answers, alarms, saveFaults, tampers>>

\* Mutated form: a file with a second link is somebody else's.
OwnTempAlone(i, body) == temp[i] \in {"part", "whole"} /\ final[i] = Absent

\* Its own temporary file, in a form that its own request left: alone, or linked.
OwnTemp(i, body) ==
  \/ temp[i] \in {"part", "whole"} /\ final[i] = Absent
  \/ temp[i] = "pair" /\ final[i] = body

\* recoverPublicationTemp.
RecoverTemp(p) ==
  LET i == Art(p).id IN
  /\ SaverAt(p, "recover")
  /\ IF temp[i] = Absent \/ OwnTemp(i, Art(p).body)
     THEN /\ temp' = [temp EXCEPT ![i] = Absent] /\ SaverGoto(p, "check") /\ UNCHANGED alarms
     ELSE /\ alarms' = TRUE /\ SaveFails(p) /\ UNCHANGED temp
  /\ UNCHANGED <<marker, final, saves, answers, saveFaults, tampers>>

\* The file of a prior request: complete, missing as it was never published, or not as saved.
CheckPrior(p) ==
  LET i == Art(p).id IN
  /\ SaverAt(p, "check")
  /\ \/ final[i] = Art(p).body /\ temp[i] # "pair" /\ SaverGoto(p, "commit") /\ UNCHANGED alarms
     \/ final[i] = Absent /\ saver[p].prior = "prepared" /\ SaverGoto(p, "intent") /\ UNCHANGED alarms
     \/ /\ final[i] = Spoiled \/ temp[i] = "pair" \/ (final[i] = Absent /\ saver[p].prior # "prepared")
        /\ alarms' = TRUE /\ SaveFails(p)
  /\ UNCHANGED <<marker, temp, final, saves, answers, saveFaults, tampers>>

WriteMarker(p, state) == marker' = [state |-> state, art |-> Art(p)]

Intend(p) ==
  /\ SaverAt(p, "intent") /\ WriteMarker(p, "prepared") /\ SaverGoto(p, "open")
  /\ UNCHANGED <<temp, final, saves, answers, alarms, saveFaults, tampers>>

-----------------------------------------------------------------------------
(* publish: O_EXCL, write, link, unlink.                                   *)

OpenTemp(p) ==
  /\ SaverAt(p, "open")
  /\ IF temp[Art(p).id] = Absent
     THEN temp' = [temp EXCEPT ![Art(p).id] = "part"] /\ SaverGoto(p, "write")
     ELSE SaveFails(p) /\ UNCHANGED temp
  /\ UNCHANGED <<marker, final, saves, answers, alarms, saveFaults, tampers>>

WriteTemp(p) ==
  /\ SaverAt(p, "write") /\ temp' = [temp EXCEPT ![Art(p).id] = "whole"] /\ SaverGoto(p, "link")
  /\ UNCHANGED <<marker, final, saves, answers, alarms, saveFaults, tampers>>

LinkFinal(p) ==
  LET i == Art(p).id IN
  /\ SaverAt(p, "link")
  /\ IF final[i] = Absent /\ temp[i] = "whole"
     THEN /\ final' = [final EXCEPT ![i] = Art(p).body] /\ temp' = [temp EXCEPT ![i] = "pair"]
          /\ SaverGoto(p, "unlink")
     ELSE SaveFails(p) /\ UNCHANGED <<final, temp>>
  /\ UNCHANGED <<marker, saves, answers, alarms, saveFaults, tampers>>

UnlinkTemp(p) ==
  LET i == Art(p).id IN
  /\ SaverAt(p, "unlink")
  /\ \/ temp[i] = "pair" /\ temp' = [temp EXCEPT ![i] = Absent] /\ SaverGoto(p, "read")
     \/ (temp[i] # "pair" \/ final[i] = Spoiled) /\ SaveFails(p) /\ UNCHANGED temp
  /\ UNCHANGED <<marker, final, saves, answers, alarms, saveFaults, tampers>>

\* The read-back; what is missing or different is an integrity error.
ReadBack(p) ==
  /\ SaverAt(p, "read")
  /\ IF final[Art(p).id] = Art(p).body THEN SaverGoto(p, "commit") /\ UNCHANGED alarms
                                       ELSE alarms' = TRUE /\ SaveFails(p)
  /\ UNCHANGED <<marker, temp, final, saves, answers, saveFaults, tampers>>

-----------------------------------------------------------------------------

\* complete: the answer is "persisted" also when the marker could not be written.
CompleteSave(p, io) ==
  /\ SaverAt(p, "commit") /\ answers' = answers \cup {Art(p)} /\ SaveFails(p)
  /\ \/ WriteMarker(p, "committed")
     \/ io /\ UNCHANGED marker
  /\ io => saveFaults < MaxSaveFaults
  /\ saveFaults' = IF io THEN saveFaults + 1 ELSE saveFaults
  /\ UNCHANGED <<temp, final, saves, alarms, tampers>>

\* A step throws, before or after it has taken effect, or the process dies.
SaveFault(p) ==
  LET i == Art(p).id IN
  /\ saver[p] # NoSave /\ saveFaults < MaxSaveFaults /\ saveFaults' = saveFaults + 1 /\ SaveFails(p)
  /\ \/ UNCHANGED <<marker, temp, final>>
     \/ SaverAt(p, "intent") /\ WriteMarker(p, "prepared") /\ UNCHANGED <<temp, final>>
     \/ SaverAt(p, "recover") /\ OwnTemp(i, Art(p).body) /\ temp' = [temp EXCEPT ![i] = Absent]
        /\ UNCHANGED <<marker, final>>
     \/ SaverAt(p, "commit") /\ WriteMarker(p, "committed") /\ UNCHANGED <<temp, final>>
  /\ UNCHANGED <<saves, answers, alarms, tampers>>

\* Somebody edits or removes the published file: in place (a linked temporary file changes with
\* it), or by another file in its stead.
Tamper(i) ==
  /\ final[i] \in Bodies /\ tampers < MaxTampers /\ tampers' = tampers + 1
  /\ \/ final' = [final EXCEPT ![i] = Spoiled] /\ UNCHANGED temp
     \/ /\ \E f \in {Spoiled, Absent} : final' = [final EXCEPT ![i] = f]
        /\ temp' = [temp EXCEPT ![i] = IF @ = "pair" THEN "whole" ELSE @]
  /\ UNCHANGED <<marker, saver, saves, answers, alarms, saveFaults>>

CaptureNext ==
  \/ \E p \in Savers :
       \/ RecoverTemp(p) \/ CheckPrior(p) \/ Intend(p) \/ OpenTemp(p) \/ WriteTemp(p) \/ LinkFinal(p)
       \/ UnlinkTemp(p) \/ ReadBack(p) \/ SaveFault(p)
       \/ \E io \in BOOLEAN : CompleteSave(p, io)
       \/ \E route \in Routes, body \in Bodies : BeginSave(p, route, body)
  \/ \E i \in Arts : Tamper(i)

CaptureSpec == CaptureInit /\ [][CaptureNext]_captureVars

-----------------------------------------------------------------------------

\* However often a request is tried, by however many processes, and wherever the tries fail or
\* die, it publishes one artifact at most; every answer names that artifact, and as long as
\* nobody meddles with the file its content is what was answered, and nothing that a failed or
\* dead try left is taken for damage.
SavedOnce ==
  /\ Cardinality({i \in Arts : final[i] # Absent}) <= 1 /\ Cardinality(answers) <= 1
  /\ \A a \in answers : tampers = 0 => final[a.id] = a.body
  /\ marker.state = "committed" => answers \subseteq {marker.art}
  /\ alarms => tampers > 0
=============================================================================
