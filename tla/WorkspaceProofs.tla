--------------------------- MODULE WorkspaceProofs ---------------------------
(***************************************************************************)
(* Theorems about the parts of a workspace, for any instances of their     *)
(* parameters.  focus never changes, so that each component is proved by   *)
(* itself.                                                                 *)
(***************************************************************************)
EXTENDS ContentProofs, ContextProofs, SequenceTheorems, TLAPS

(***************************************************************************)
(* The managed installation.  While an update is unfinished the wheel that *)
(* is installed is the candidate, one of the old version, or broken; this  *)
(* is why a candidate of another version that is verified is exactly the   *)
(* candidate, and why any process can go back.                             *)
(***************************************************************************)
Unfinished == {"STAGED", "ACTIVATING", "VERIFYING"}
Phases == Unfinished \cup {"NEW_HEALTHY", "OLD_RESTORED", "RECOVERY_REQUIRED"}
Updates == [from : I!Versions \cup {None}, was : Wheels \cup {None}, to : Wheels,
            way : Wheels \cup {None}, phase : Phases]

Preparing == {"mkdir", "mark", "place", "rollback", "journal"}
Running == {"activating", "install", "verifying", "verify", "restore", "restored", "removed",
            "cleanup", "healthy"}

WellMade(u) ==
  /\ u \in Updates /\ u.from = I!VersionOf(u.was)
  /\ u.from # None => u.way # None /\ Version[u.way] = u.from
  /\ u.from = None => u.way = None

Says(u) ==
  /\ u.phase \in Unfinished =>
       /\ installed \in {u.to, "broken"} \/ I!VersionOf(installed) = u.from
       /\ u.from # None => rollbacks[u.from] # None
  /\ u.phase = "NEW_HEALTHY" /\ Version[u.to] # u.from => installed = u.to
  /\ u.phase = "OLD_RESTORED" => I!VersionOf(installed) = u.from

AtStep ==
  /\ ipc # "idle" => WellMade(update)
  /\ ipc \in Preparing => installed = update.was
  /\ ipc = "rollback" => update.way # None
  /\ ipc = "journal" /\ update.from # None => rollbacks[update.from] # None
  /\ ipc \in Running => log = update /\ update.phase \in Unfinished
  /\ ipc \in {"cleanup", "healthy"} => I!VersionOf(installed) = Version[update.to]
  /\ ipc = "removed" => I!VersionOf(installed) = update.from

InstallTypes ==
  /\ installed \in Wheels \cup {None, "broken"}
  /\ cache \in [Wheels -> {"none", "dir", "marked", "full"}]
  /\ rollbacks \in [I!Versions -> Wheels \cup {None}]
  /\ \A v \in I!Versions : rollbacks[v] # None => Version[rollbacks[v]] = v
  /\ ipc \in Preparing \cup Running \cup {"idle", "drop"}

InstallInv ==
  /\ InstallTypes /\ AtStep
  /\ log # None \/ ipc \in Running => WellMade(log) /\ Says(log)

\* Each wheel has a version of its own kind, and only wheels have one.
LEMMA VersionsOfWheels ==
  /\ \A w \in Wheels : I!VersionOf(w) = Version[w] /\ Version[w] \in I!Versions /\ Version[w] # None
  /\ I!VersionOf(None) = None /\ I!VersionOf("broken") = None
  BY WheelAssumption DEF I!VersionOf, I!Versions

LEMMA InstallInit == I!Init => InstallInv
  BY WheelAssumption DEF I!Init, InstallInv, InstallTypes, AtStep, Preparing, Running

LEMMA InstallBegin ==
  ASSUME InstallInv, NEW w \in Wheels, NEW r \in Wheels \cup {None}, I!Update(w, r)
  PROVE  InstallInv'
<1> DEFINE u == [from |-> I!VersionOf(installed), was |-> installed, to |-> w, way |-> r,
                 phase |-> "STAGED"]
<1>1. /\ update' = u /\ UNCHANGED <<installed, cache, rollbacks, log>>
      /\ ipc' \in {"mkdir", "place"}
      /\ installed \in Wheels \cup {None}
  BY DEF I!Update, I!files, InstallInv, InstallTypes
<1>2. IF installed = None THEN r = None ELSE r # None /\ Version[r] = Version[installed]
  BY <1>1, WheelAssumption DEF I!Update
<1>3. WellMade(u)
  <2>1. /\ u.from = I!VersionOf(installed) /\ u.was = installed /\ u.way = r
        /\ u.from \in I!Versions \cup {None}
    BY <1>1, VersionsOfWheels
  <2>2. u \in Updates
    BY <1>1, <2>1 DEF Updates, Phases, Unfinished
  <2>3. QED
    BY <1>1, <1>2, <2>1, <2>2, VersionsOfWheels DEF WellMade
<1>4. u.was = installed
  OBVIOUS
<1> HIDE DEF u
<1>5. AtStep'
  BY <1>1, <1>3, <1>4 DEF AtStep, WellMade, I!VersionOf, Preparing, Running
<1>6. QED
  BY <1>1, <1>5 DEF InstallInv, InstallTypes, WellMade, Says, I!VersionOf, Preparing, Running

\* What the primed plan says is decided by its own fields.
LEMMA WellMadeStays == \A u : WellMade(u) => WellMade(u)'
  BY DEF WellMade, Updates, I!VersionOf, I!Versions

\* Artifacts are placed and the way back is kept before the journal is written.
LEMMA InstallPlaces ==
  ASSUME InstallInv, I!MakeCache \/ I!PlaceCandidate \/ I!PlaceRollback
  PROVE  InstallInv'
<1>1. /\ UNCHANGED <<installed, log, update>> /\ ipc \in Preparing
      /\ WellMade(update) /\ update \in Updates /\ installed = update.was
      /\ ipc' \in Preparing /\ InstallTypes /\ (ipc' = "mark" => TRUE)
  BY DEF I!MakeCache, I!PlaceCandidate, I!PlaceRollback, InstallInv, AtStep, WellMade, Preparing
<1>2. CASE I!MakeCache \/ I!PlaceCandidate
  <2>1. rollbacks' = rollbacks /\ cache' \in [Wheels -> {"none", "dir", "marked", "full"}]
    BY <1>1, <1>2 DEF I!MakeCache, I!PlaceCandidate, InstallTypes
  <2>2. InstallTypes'
    BY <1>1, <2>1 DEF InstallTypes, Preparing
  <2>3. /\ ipc' = "rollback" => update.way # None
        /\ ipc' = "journal" => update.way = None
    BY <1>2 DEF I!MakeCache, I!PlaceCandidate
  <2>4. AtStep'
    BY <1>1, <2>1, <2>3, WellMadeStays DEF AtStep, WellMade, Preparing, Running
  <2>5. log # None => WellMade(log)' /\ Says(log)'
    BY <1>1, <2>1, WellMadeStays DEF InstallInv, Says, I!VersionOf
  <2>6. QED
    BY <1>1, <2>2, <2>4, <2>5 DEF InstallInv, Preparing, Running
<1>3. CASE I!PlaceRollback
  <2>1. /\ rollbacks' = [rollbacks EXCEPT ![update.from] = update.way] /\ cache' = cache
        /\ ipc' = "journal" /\ ipc = "rollback" /\ update.way # None
    BY <1>3 DEF I!PlaceRollback, InstallInv, AtStep
  <2>2. /\ update.from # None /\ update.from \in I!Versions /\ update.way \in Wheels
        /\ Version[update.way] = update.from
    BY <1>1, <2>1 DEF WellMade, Updates
  <2>3. /\ rollbacks' \in [I!Versions -> Wheels \cup {None}]
        /\ \A v \in I!Versions :
             rollbacks'[v] = IF v = update.from THEN update.way ELSE rollbacks[v]
    BY <1>1, <2>1, <2>2 DEF InstallTypes
  <2>4. InstallTypes'
    BY <1>1, <2>1, <2>2, <2>3 DEF InstallTypes, Preparing
  <2>5. AtStep'
    BY <1>1, <2>1, <2>2, <2>3, WellMadeStays DEF AtStep, Preparing, Running
  <2>6. ASSUME log # None PROVE WellMade(log)' /\ Says(log)'
    <3>1. WellMade(log) /\ Says(log)
      BY <2>6 DEF InstallInv
    <3>2. log.from # None => log.from \in I!Versions
      BY <3>1 DEF WellMade, Updates
    <3>3. WellMade(log)'
      BY <1>1, <3>1, WellMadeStays
    <3>4. log.from # None /\ rollbacks[log.from] # None => rollbacks'[log.from] # None
      BY <2>1, <2>3, <3>2
    <3>5. QED
      BY <1>1, <3>1, <3>3, <3>4 DEF Says, I!VersionOf
  <2>7. QED
    BY <1>1, <2>4, <2>5, <2>6 DEF InstallInv, Preparing, Running
<1>4. QED
  BY <1>2, <1>3

\* From the first journal on, memory and journal agree.
LEMMA InstallJournal == ASSUME InstallInv, I!Journal PROVE InstallInv'
<1>1. /\ log' = update' /\ UNCHANGED <<installed, cache, rollbacks>>
      /\ ipc \in {"journal", "activating", "verifying"}
      /\ InstallTypes /\ WellMade(update) /\ update \in Updates
  BY DEF I!Journal, InstallInv, AtStep, WellMade
<1>2. ipc' \in {"activating", "install", "verify"}
      /\ \E p \in Unfinished : update' = [update EXCEPT !.phase = p]
  <2>1. CASE ipc = "journal"
    BY <2>1 DEF I!Journal, Unfinished
  <2>2. CASE ipc = "activating"
    BY <2>2 DEF I!Journal, Unfinished
  <2>3. CASE ipc = "verifying"
    BY <2>3 DEF I!Journal, Unfinished
  <2>4. QED
    BY <1>1, <2>1, <2>2, <2>3
<1>3. PICK u : u = update' /\ \E p \in Unfinished : u = [update EXCEPT !.phase = p]
  BY <1>2
<1>4. /\ u \in Updates /\ u.phase \in Unfinished /\ u.from = update.from /\ u.to = update.to
      /\ u.was = update.was /\ u.way = update.way
  BY <1>1, <1>3 DEF Updates, Phases
<1>5. WellMade(u) /\ WellMade(u)'
  <2>1. WellMade(u)
    BY <1>1, <1>4 DEF WellMade
  <2>2. QED
    BY <2>1, WellMadeStays
<1>6. /\ installed \in {u.to, "broken"} \/ I!VersionOf(installed) = u.from
      /\ u.from # None => rollbacks[u.from] # None
  <2>1. CASE ipc = "journal"
    BY <1>1, <1>4, <1>5, <2>1 DEF InstallInv, AtStep, Preparing, WellMade
  <2>2. CASE ipc # "journal"
    <3>1. log = update /\ update.phase \in Unfinished /\ ipc \in Running
      BY <1>1, <2>2 DEF InstallInv, AtStep, Running
    <3>2. QED
      BY <1>4, <3>1 DEF InstallInv, Says
  <2>3. QED
    BY <2>1, <2>2
<1>7. Says(u)'
  <2>1. I!VersionOf(installed)' = I!VersionOf(installed)
    BY <1>1 DEF I!VersionOf
  <2>2. u.phase \notin {"NEW_HEALTHY", "OLD_RESTORED"}
    BY <1>4 DEF Unfinished
  <2>3. QED
    BY <1>1, <1>6, <2>1, <2>2 DEF Says
<1>8. update' = u /\ log' = u
  BY <1>1, <1>3
<1>9. AtStep'
  BY <1>2, <1>4, <1>5, <1>8 DEF AtStep, Preparing, Running
<1>10. InstallTypes'
  BY <1>1, <1>2 DEF InstallTypes, Running
<1>11. QED
  BY <1>5, <1>7, <1>8, <1>9, <1>10 DEF InstallInv

\* The package manager and the verification: the journal stays unfinished.
LEMMA InstallActs ==
  ASSUME InstallInv, I!Install \/ I!Verify \/ I!Cleanup \/ I!Restore
  PROVE  InstallInv'
<1>1. /\ UNCHANGED <<log, update, rollbacks>> /\ InstallTypes /\ ipc \in Running
      /\ WellMade(update) /\ update \in Updates /\ log = update /\ Says(update)
      /\ update.phase \in Unfinished
  BY DEF I!Install, I!Verify, I!Cleanup, I!Restore, I!files, InstallInv, AtStep, WellMade, Running
<1>2. ASSUME installed' \in {update.to, "broken"} \/ I!VersionOf(installed)' = update.from,
             installed' \in Wheels \cup {None, "broken"},
             cache' \in [Wheels -> {"none", "dir", "marked", "full"}], ipc' \in Running,
             ipc' \in {"cleanup", "healthy"} => I!VersionOf(installed)' = Version[update.to],
             ipc' = "removed" => I!VersionOf(installed)' = update.from
      PROVE  InstallInv'
  <2>1. update.phase \notin {"NEW_HEALTHY", "OLD_RESTORED"}
    BY <1>1 DEF Unfinished
  <2>2. PICK u : u = update /\ update' = u /\ log' = u
    BY <1>1
  <2>3. WellMade(u)' /\ Says(u)'
    BY <1>1, <1>2, <2>1, <2>2, WellMadeStays DEF Says
  <2>4. AtStep'
    BY <1>1, <1>2, <2>2, <2>3 DEF AtStep, Preparing, Running
  <2>5. InstallTypes'
    BY <1>1, <1>2 DEF InstallTypes
  <2>6. QED
    BY <2>2, <2>3, <2>4, <2>5 DEF InstallInv
<1>3. CASE I!Install
  <2>1. /\ cache' = cache /\ ipc' \in {"verifying", "restore"}
        /\ installed' = update.to \/ installed' = installed
    BY <1>3 DEF I!Install, I!files
  <2>2. installed' \in {update.to, "broken"} \/ I!VersionOf(installed)' = update.from
    BY <1>1, <2>1 DEF Says, I!VersionOf
  <2>3. installed' \in Wheels \cup {None, "broken"}
    BY <1>1, <2>1 DEF InstallTypes, Updates
  <2>4. QED
    BY <1>1, <1>2, <2>1, <2>2, <2>3 DEF InstallTypes, Running
<1>4. CASE I!Verify
  <2>1. /\ cache' = cache /\ installed' = installed /\ ipc' \in {"cleanup", "restore"}
        /\ ipc' = "cleanup" => I!VersionOf(installed) = Version[update.to]
    BY <1>4 DEF I!Verify, I!files
  <2>2. QED
    BY <1>1, <1>2, <2>1 DEF InstallTypes, Running, Says, I!VersionOf
<1>5. CASE I!Cleanup
  <2>1. /\ installed' = installed /\ ipc = "cleanup" /\ ipc' = "healthy"
        /\ cache' = [w \in Wheels |-> IF w # update.to /\ cache[w] \in {"marked", "full"}
                                      THEN "none" ELSE cache[w]]
    BY <1>5 DEF I!Cleanup
  <2>2. cache' \in [Wheels -> {"none", "dir", "marked", "full"}]
    BY <1>1, <2>1 DEF InstallTypes
  <2>3. I!VersionOf(installed) = Version[update.to]
    BY <2>1 DEF InstallInv, AtStep
  <2>4. QED
    BY <1>1, <1>2, <2>1, <2>2, <2>3 DEF InstallTypes, Running, Says, I!VersionOf
<1>6. CASE I!Restore
  <2>1. CASE update.from = None /\ installed' = None /\ ipc' = "removed"
    <3>1. cache' = cache /\ I!VersionOf(installed)' = None
      BY <1>6, <2>1, VersionsOfWheels DEF I!Restore, I!files, I!VersionOf
    <3>2. QED
      BY <1>1, <1>2, <2>1, <3>1 DEF InstallTypes, Running
  <2>2. CASE /\ update.from # None /\ rollbacks[update.from] # None
             /\ installed' = rollbacks[update.from] /\ ipc' = "restored"
    <3>1. cache' = cache /\ update.from \in I!Versions
      BY <1>1, <1>6, <2>2 DEF I!Restore, I!files, Updates
    <3>2. installed' \in Wheels /\ Version[installed'] = update.from
      BY <1>1, <2>2, <3>1 DEF InstallTypes
    <3>3. I!VersionOf(installed)' = update.from
      BY <3>2 DEF I!VersionOf
    <3>4. QED
      BY <1>1, <1>2, <2>2, <3>1, <3>2, <3>3 DEF InstallTypes, Running
  <2>3. QED
    BY <1>6, <2>1, <2>2 DEF I!Restore
<1>7. QED
  BY <1>3, <1>4, <1>5, <1>6

\* Healthy, restored or left to the owner: what the last journal says is so.
LEMMA InstallEnds ==
  ASSUME InstallInv, I!Healthy \/ I!RestoreFails \/ I!OldRestored
  PROVE  InstallInv'
<1>1. /\ UNCHANGED <<installed, cache, rollbacks>> /\ InstallTypes /\ ipc \in Running
      /\ WellMade(update) /\ update \in Updates /\ Says(update)
      /\ update.phase \in Unfinished /\ log' = update'
  BY DEF I!Healthy, I!RestoreFails, I!OldRestored, I!EndWith, InstallInv, AtStep, WellMade, Running
<1>2. PICK p \in {"NEW_HEALTHY", "RECOVERY_REQUIRED", "OLD_RESTORED"} :
        /\ update' = [update EXCEPT !.phase = p] /\ ipc' \in {"idle", "drop"}
        /\ p = "NEW_HEALTHY" => ipc = "healthy"
        /\ p = "OLD_RESTORED" => ipc = "removed" \/ I!VersionOf(installed) = update.from
  <2>1. CASE I!Healthy
    BY <2>1 DEF I!Healthy, I!EndWith
  <2>2. CASE I!RestoreFails
    BY <2>2 DEF I!RestoreFails, I!EndWith
  <2>3. CASE I!OldRestored
    BY <2>3 DEF I!OldRestored, I!EndWith
  <2>4. QED
    BY <2>1, <2>2, <2>3
<1>3. PICK u : u = update' /\ u = [update EXCEPT !.phase = p]
  BY <1>2
<1>4. /\ u \in Updates /\ u.phase = p /\ u.from = update.from /\ u.to = update.to
      /\ u.was = update.was /\ u.way = update.way
  BY <1>1, <1>3 DEF Updates, Phases
<1>5. WellMade(u) /\ WellMade(u)'
  BY <1>1, <1>4, WellMadeStays DEF WellMade
<1>6. p = "NEW_HEALTHY" /\ Version[u.to] # u.from => installed = u.to
  BY <1>1, <1>2, <1>4, VersionsOfWheels DEF InstallInv, AtStep, Says, Updates
<1>7. p = "OLD_RESTORED" => I!VersionOf(installed) = u.from
  BY <1>2, <1>4 DEF InstallInv, AtStep
<1>8. Says(u)'
  <2>1. I!VersionOf(installed)' = I!VersionOf(installed) /\ u.phase \notin Unfinished
    BY <1>1, <1>4 DEF I!VersionOf, Unfinished
  <2>2. QED
    BY <1>1, <1>4, <1>6, <1>7, <2>1 DEF Says
<1>9. AtStep'
  BY <1>2, <1>3, <1>5 DEF AtStep, Preparing, Running
<1>10. InstallTypes'
  BY <1>1, <1>2 DEF InstallTypes
<1>11. QED
  BY <1>1, <1>3, <1>5, <1>8, <1>9, <1>10 DEF InstallInv

LEMMA InstallDrops == ASSUME InstallInv, I!DropCandidate PROVE InstallInv'
<1>1. /\ UNCHANGED <<installed, rollbacks, log, update>> /\ ipc = "drop"
      /\ ipc' \in {"drop", "idle"}
      /\ WellMade(update) /\ InstallTypes
  BY DEF I!DropCandidate, InstallInv, AtStep
<1>2. cache' \in [Wheels -> {"none", "dir", "marked", "full"}]
  <2>1. \E x \in {"none", "dir", "marked"} : cache' = [cache EXCEPT ![update.to] = x]
    <3>1. CASE cache[update.to] = "full"
      BY <3>1 DEF I!DropCandidate
    <3>2. CASE cache[update.to] = "marked"
      BY <3>2 DEF I!DropCandidate
    <3>3. CASE cache[update.to] \notin {"full", "marked"}
      BY <3>3 DEF I!DropCandidate
    <3>4. QED
      BY <3>1, <3>2, <3>3
  <2>2. QED
    BY <1>1, <2>1 DEF InstallTypes
<1>3. AtStep'
  BY <1>1, WellMadeStays DEF AtStep, Preparing, Running
<1>4. log # None => WellMade(log)' /\ Says(log)'
  BY <1>1, WellMadeStays DEF InstallInv, Says, I!VersionOf
<1>5. QED
  BY <1>1, <1>2, <1>3, <1>4 DEF InstallInv, InstallTypes, Running

\* A fresh process goes on where the journal says the dead one was.
LEMMA InstallResumes == ASSUME InstallInv, I!Resume PROVE InstallInv'
<1>1. /\ UNCHANGED <<installed, cache, rollbacks, log>> /\ update' = log /\ ipc' = "verify"
      /\ log # None /\ WellMade(log) /\ Says(log) /\ InstallTypes
      /\ log.phase \notin {"NEW_HEALTHY", "OLD_RESTORED", "RECOVERY_REQUIRED"}
  BY DEF I!Resume, I!files, InstallInv
<1>2. log.phase \in Unfinished
  BY <1>1 DEF WellMade, Updates, Phases
<1>3. WellMade(log)' /\ Says(log)'
  BY <1>1, WellMadeStays DEF Says, I!VersionOf
<1>4. AtStep'
  BY <1>1, <1>2, <1>3, WellMadeStays DEF AtStep, Preparing, Running
<1>5. QED
  BY <1>1, <1>3, <1>4 DEF InstallInv, InstallTypes, Running

\* Killed inside the package manager it leaves the candidate, the old runtime
\* or a broken one; elsewhere it leaves what there was.
LEMMA InstallKilled == ASSUME InstallInv, I!Killed PROVE InstallInv'
<1>1. /\ UNCHANGED <<cache, rollbacks, log>> /\ ipc' = "idle" /\ InstallTypes
  BY DEF I!Killed, I!files, InstallInv
<1>2. /\ ipc \notin {"install", "restore"} => installed' = installed
      /\ installed' # installed =>
           installed' \in {update.to, "broken"} /\ WellMade(update) /\ log = update
           /\ update.phase \in Unfinished
  <2>1. CASE ipc = "install"
    BY <2>1 DEF I!Killed, InstallInv, AtStep, Running
  <2>2. CASE ipc = "restore"
    BY <2>2 DEF I!Killed, InstallInv, AtStep, Running
  <2>3. CASE ipc \notin {"install", "restore"}
    BY <2>3 DEF I!Killed
  <2>4. QED
    BY <2>1, <2>2, <2>3
<1>3. installed' \in Wheels \cup {None, "broken"}
  BY <1>1, <1>2 DEF InstallTypes, WellMade, Updates
<1>4. ASSUME log # None PROVE WellMade(log)' /\ Says(log)'
  <2>1. WellMade(log) /\ Says(log)
    BY <1>4 DEF InstallInv
  <2>2. CASE installed' = installed
    BY <1>1, <2>1, <2>2, WellMadeStays DEF Says, I!VersionOf
  <2>3. CASE installed' # installed
    <3>1. log.phase \notin {"NEW_HEALTHY", "OLD_RESTORED"} /\ installed' \in {log.to, "broken"}
      BY <1>2, <2>3 DEF Unfinished
    <3>2. QED
      BY <1>1, <2>1, <3>1, WellMadeStays DEF Says
  <2>4. QED
    BY <2>2, <2>3
<1>5. AtStep'
  BY <1>1 DEF AtStep, Preparing, Running
<1>6. QED
  BY <1>1, <1>3, <1>4, <1>5 DEF InstallInv, InstallTypes, Running

LEMMA InstallInvariant == Spec => [](focus = "install" => InstallInv)
<1>1. Init => (focus = "install" => InstallInv)
  BY InstallInit DEF Init
<1>2. (focus = "install" => InstallInv) /\ [Next]_vars => (focus = "install" => InstallInv)'
  <2> SUFFICES ASSUME focus = "install", InstallInv, [Next]_vars PROVE InstallInv'
    BY DEF Next, InstallationNext, ContentNext, vars
  <2>1. CASE I!Next
    BY <2>1, InstallBegin, InstallPlaces, InstallJournal, InstallActs, InstallEnds, InstallDrops,
       InstallResumes, InstallKilled DEF I!Next
  <2>2. CASE UNCHANGED installVars
    BY <2>2 DEF installVars, InstallInv, InstallTypes, AtStep, WellMade, Says, I!VersionOf,
                Updates, I!Versions
  <2>3. QED
    BY <2>1, <2>2 DEF Next, InstallationNext, ContentNext, vars
<1>3. QED
  BY <1>1, <1>2, PTL DEF Spec

\* Wherever an update of the installation is cut short: any process finds the
\* wheel that leads back, and a journal that says new or old says what is so.
THEOREM JournalTrue == Spec => []InstallJournalTrue
<1>1. (focus = "install" => InstallInv) => InstallJournalTrue
  <2> SUFFICES ASSUME InstallInv PROVE I!WayBack /\ I!OutcomeIsTrue
    BY DEF InstallJournalTrue
  <2>1. QED
    BY DEF InstallInv, Says, Unfinished, I!WayBack, I!OutcomeIsTrue
<1>2. QED
  BY <1>1, InstallInvariant, PTL

-----------------------------------------------------------------------------
(***************************************************************************)
(* The update of several components.  The original of a component is in    *)
(* one of its places wherever the holder dies, because a step that         *)
(* overwrites one of them stands at a place where another has it.          *)
(***************************************************************************)
Applying == {"replay", "check", "backup", "staging", "journal", "retire", "activate", "runtime",
             "keepStaging", "keepRetired", "receipt", "completed"}
Restoring == {"restore", "dropStaging", "dropRetired", "rolledBack", "forget"}

UpdateTypes ==
  /\ active \in [U!Components -> {None, "old", "new", "part"}]
  /\ retired \in [U!Components -> {None, "old"}]
  /\ backup \in [U!Components -> {None, "old", "part"}]
  /\ staging \in [U!Components -> {None, "new", "part"}]
  /\ roots \in SUBSET {"retired", "staging"}
  /\ journal \in BOOLEAN /\ receipt \in BOOLEAN /\ intent \in BOOLEAN /\ utorn \in BOOLEAN
  /\ upc \in {"idle", "recover"} \cup Applying \cup Restoring
  /\ uitem \in 0 .. LastItem /\ back \in {"idle", "replay", "check"}
  /\ upc \in {"backup", "staging", "retire", "activate", "restore"} => uitem \in 1 .. LastItem

Pristine(c) == active[c] = "old" /\ retired[c] = None
Staged(c) == backup[c] = "old" /\ staging[c] = "new"
New(c) == active[c] = "new" /\ backup[c] = "old"

\* A part is left by a kill only; a directory of retired originals has a journal.
Places ==
  /\ U!OriginalKept
  /\ ~utorn => \A c \in U!Components :
                 active[c] # "part" /\ backup[c] # "part" /\ staging[c] # "part"
  /\ \A c \in U!Components : retired[c] # None => "retired" \in roots
  /\ "retired" \in roots => journal
  /\ receipt /\ ~intent => roots = {} /\ \A c \in U!Components : New(c)

ApplyingAt ==
  /\ upc \in Applying => ~intent
  /\ upc \in Applying \ {"replay", "completed"} => ~receipt
  /\ upc = "check" => \A c \in U!Components : retired[c] = None
  /\ upc \in {"backup", "staging", "journal"} => \A c \in U!Components : Pristine(c)
  /\ upc \in {"backup", "staging"} => \A c \in U!Components : c < uitem => Staged(c)
  /\ upc = "staging" => backup[uitem] = "old"
  /\ upc = "journal" => \A c \in U!Components : Staged(c)
  /\ upc \in {"retire", "activate"} =>
       /\ journal
       /\ \A c \in U!Components : c < uitem => New(c)
       /\ \A c \in U!Components : c > uitem => Pristine(c) /\ Staged(c)
  /\ upc = "retire" => Pristine(uitem) /\ Staged(uitem)
  /\ upc = "activate" => Staged(uitem)
  /\ upc \in {"runtime", "keepStaging", "keepRetired", "receipt", "completed"} =>
       \A c \in U!Components : New(c)

RestoringAt ==
  /\ upc \in Restoring => intent /\ \A c \in U!Components : backup[c] # "part"
  /\ upc = "restore" => \A c \in U!Components : c > uitem => Pristine(c)
  /\ upc \in Restoring \ {"restore"} => \A c \in U!Components : active[c] = "old"
  /\ upc \in {"keepRetired", "dropRetired"} => "staging" \notin roots
  /\ upc \in {"receipt", "completed", "rolledBack", "forget"} => roots = {}
  /\ upc = "forget" => ~receipt

UpdateInv == UpdateTypes /\ Places /\ ApplyingAt /\ RestoringAt

LEMMA UpdateInit == U!Init => UpdateInv
<1> SUFFICES ASSUME U!Init PROVE UpdateInv
  OBVIOUS
<1>1. /\ \A c \in U!Components : /\ active[c] = "old" /\ retired[c] = None
                                 /\ backup[c] = None /\ staging[c] = None
      /\ roots = {} /\ ~receipt /\ ~intent /\ upc = "idle"
  BY DEF U!Init, U!Nowhere
<1>2. active \in [U!Components -> {None, "old", "new", "part"}]
  BY DEF U!Init
<1>3. /\ retired \in [U!Components -> {None, "old"}]
      /\ backup \in [U!Components -> {None, "old", "part"}]
      /\ staging \in [U!Components -> {None, "new", "part"}]
  BY DEF U!Init, U!Nowhere
<1>4. UpdateTypes
  <2>1. journal \in BOOLEAN /\ receipt \in BOOLEAN /\ intent \in BOOLEAN /\ utorn \in BOOLEAN
    BY DEF U!Init
  <2>2. upc = "idle" /\ uitem \in 0 .. LastItem /\ back = "idle" /\ roots = {}
    BY ComponentAssumption DEF U!Init
  <2>3. QED
    BY <1>2, <1>3, <2>1, <2>2 DEF UpdateTypes
<1>5. Places
  BY <1>1, ComponentAssumption DEF Places, U!OriginalKept
<1>6. ApplyingAt /\ RestoringAt
  BY <1>1 DEF ApplyingAt, RestoringAt, Applying, Restoring
<1>7. QED
  BY <1>4, <1>5, <1>6 DEF UpdateInv

\* Steps that only move on, and leave every place as it is.
LEMMA UpdateMoves ==
  ASSUME UpdateInv,
         U!Apply \/ U!Replay \/ U!Check \/ U!RuntimeCheck \/ U!ApplyFails \/ U!Recover
           \/ U!Restored \/ U!Stop
  PROVE  UpdateInv'
<1> USE ComponentAssumption DEF U!Goto, U!places, U!marks, U!Components
<1>1. UNCHANGED <<active, retired, backup, staging, roots, journal, receipt, intent, utorn>>
  BY DEF U!Apply, U!Replay, U!Check, U!RuntimeCheck, U!ApplyFails, U!Recover, U!Restored, U!Stop
<1>2. Places'
  BY <1>1 DEF UpdateInv, Places, U!OriginalKept, New
<1>3. ASSUME upc' \in {"idle", "recover"}, uitem' = 0, back' \in {"idle", "replay", "check"}
      PROVE  UpdateInv'
  BY <1>1, <1>2, <1>3
  DEF UpdateInv, UpdateTypes, ApplyingAt, RestoringAt, Applying, Restoring
<1>4. back \in {"idle", "replay", "check"} /\ uitem \in 0 .. LastItem
  BY DEF UpdateInv, UpdateTypes
<1>5. CASE U!Apply
  <2>1. CASE intent
    BY <1>3, <1>5, <2>1 DEF U!Apply
  <2>2. CASE ~intent
    <3>1. upc' = "replay" /\ uitem' = 0 /\ back' = "replay"
      BY <1>5, <2>2 DEF U!Apply
    <3>2. QED
      BY <1>1, <1>2, <2>2, <3>1
      DEF UpdateInv, UpdateTypes, ApplyingAt, RestoringAt, Applying, Restoring
  <2>3. QED
    BY <2>1, <2>2
<1>6. CASE U!Replay
  <2>1. CASE receipt \/ (journal /\ roots # {})
    BY <1>3, <1>4, <1>6, <2>1 DEF U!Replay
  <2>2. CASE ~receipt /\ ~(journal /\ roots # {})
    <3>1. upc = "replay" /\ upc' = "check" /\ uitem' = 0 /\ back' = back
      BY <1>6, <2>2 DEF U!Replay
    <3>2. ~intent /\ \A c \in U!Components : retired[c] = None
      BY <2>2, <3>1 DEF UpdateInv, ApplyingAt, Applying, Places
    <3>3. QED
      BY <1>1, <1>2, <1>4, <2>2, <3>1, <3>2
      DEF UpdateInv, UpdateTypes, ApplyingAt, RestoringAt, Applying, Restoring
  <2>3. QED
    BY <2>1, <2>2
<1>7. CASE U!Check
  <2>1. CASE active = [c \in U!Components |-> "old"] /\ upc' = "backup" /\ uitem' = 1
    <3>1. upc = "check" /\ back' = back
      BY <1>7 DEF U!Check
    <3>2. \A c \in U!Components : Pristine(c)
      BY <2>1, <3>1 DEF UpdateInv, ApplyingAt, Pristine
    <3>3. QED
      BY <1>1, <1>2, <1>4, <2>1, <3>1, <3>2
      DEF UpdateInv, UpdateTypes, ApplyingAt, RestoringAt, Applying, Restoring, Pristine
  <2>2. CASE upc' = "idle" /\ uitem' = 0
    BY <1>3, <1>4, <1>7, <2>2 DEF U!Check
  <2>3. QED
    BY <1>7, <2>1, <2>2 DEF U!Check
<1>8. CASE U!RuntimeCheck
  <2>1. upc = "runtime" /\ upc' = "keepStaging" /\ uitem' = 0 /\ back' = back
    BY <1>8 DEF U!RuntimeCheck
  <2>2. QED
    BY <1>1, <1>2, <1>4, <2>1
    DEF UpdateInv, UpdateTypes, ApplyingAt, RestoringAt, Applying, Restoring, New
<1>9. CASE U!ApplyFails \/ U!Recover \/ U!Stop
  BY <1>3, <1>4, <1>9 DEF U!ApplyFails, U!Recover, U!Stop
<1>10. CASE U!Restored
  <2>1. /\ upc = "restore" /\ active[uitem] = "old" /\ retired[uitem] = None /\ back' = back
        /\ uitem \in 1 .. LastItem /\ Pristine(uitem)
    BY <1>10 DEF U!Restored, UpdateInv, UpdateTypes, Pristine
  <2>2. CASE uitem > 1
    <3>1. upc' = "restore" /\ uitem' = uitem - 1
      BY <1>10, <2>2 DEF U!Restored
    <3>2. \A c \in U!Components : c > uitem - 1 => Pristine(c)
      BY <2>1 DEF UpdateInv, RestoringAt
    <3>3. QED
      BY <1>1, <1>2, <1>4, <2>1, <2>2, <3>1, <3>2
      DEF UpdateInv, UpdateTypes, ApplyingAt, RestoringAt, Applying, Restoring, Pristine
  <2>3. CASE ~(uitem > 1)
    <3>1. upc' = "dropStaging" /\ uitem' = 0
      BY <1>10, <2>3 DEF U!Restored
    <3>2. \A c \in U!Components : active[c] = "old"
      BY <2>1, <2>3 DEF UpdateInv, RestoringAt, Pristine
    <3>3. QED
      BY <1>1, <1>2, <1>4, <2>1, <3>1, <3>2
      DEF UpdateInv, UpdateTypes, ApplyingAt, RestoringAt, Applying, Restoring
  <2>4. QED
    BY <2>2, <2>3
<1>11. QED
  BY <1>5, <1>6, <1>7, <1>8, <1>9, <1>10

\* Originals are copied, candidates are copied, and the journal is written.
LEMMA UpdateCopies ==
  ASSUME UpdateInv, U!CopyBackup \/ U!CopyStaging \/ U!StagedVerified
  PROVE  UpdateInv'
<1> USE ComponentAssumption DEF U!Goto, U!places, U!marks, U!Components
<1>1. /\ UNCHANGED <<active, retired, receipt, intent, back, utorn>> /\ UpdateTypes
      /\ \A c \in U!Components : Pristine(c)
      /\ upc \in {"backup", "staging", "journal"} /\ ~intent /\ ~receipt
  BY DEF U!CopyBackup, U!CopyStaging, U!StagedVerified, UpdateInv, ApplyingAt, Applying
<1>2. CASE U!CopyBackup
  <2>1. /\ upc = "backup" /\ upc' = "staging" /\ uitem' = uitem /\ uitem \in 1 .. LastItem
        /\ backup' = [backup EXCEPT ![uitem] = "old"] /\ UNCHANGED <<staging, roots, journal>>
    BY <1>1, <1>2 DEF U!CopyBackup, UpdateTypes
  <2>2. /\ backup' \in [U!Components -> {None, "old", "part"}]
        /\ \A c \in U!Components : backup'[c] = IF c = uitem THEN "old" ELSE backup[c]
    BY <1>1, <2>1 DEF UpdateTypes
  <2>3. UpdateTypes'
    BY <1>1, <2>1, <2>2 DEF UpdateTypes, Applying
  <2>4. Places'
    BY <1>1, <2>1, <2>2 DEF UpdateInv, Places, U!OriginalKept, New
  <2>5. ApplyingAt'
    BY <1>1, <2>1, <2>2 DEF UpdateInv, ApplyingAt, Applying, Pristine, Staged
  <2>6. RestoringAt'
    BY <1>1, <2>1, <2>2 DEF RestoringAt, Restoring
  <2>7. QED
    BY <2>3, <2>4, <2>5, <2>6 DEF UpdateInv
<1>3. CASE U!CopyStaging
  <2>1. /\ upc = "staging" /\ uitem \in 1 .. LastItem /\ backup[uitem] = "old"
        /\ staging' = [staging EXCEPT ![uitem] = "new"] /\ roots' = roots \cup {"staging"}
        /\ UNCHANGED <<backup, journal>>
    BY <1>1, <1>3 DEF U!CopyStaging, UpdateTypes, UpdateInv, ApplyingAt
  <2>2. /\ staging' \in [U!Components -> {None, "new", "part"}]
        /\ \A c \in U!Components : staging'[c] = IF c = uitem THEN "new" ELSE staging[c]
    BY <1>1, <2>1 DEF UpdateTypes
  <2>3. \/ uitem < LastItem /\ upc' = "backup" /\ uitem' = uitem + 1
        \/ uitem = LastItem /\ upc' = "journal" /\ uitem' = 1
    BY <1>3, <2>1 DEF U!CopyStaging
  <2>4. UpdateTypes'
    BY <1>1, <2>1, <2>2, <2>3 DEF UpdateTypes, Applying
  <2>5. Places'
    BY <1>1, <2>1, <2>2 DEF UpdateInv, Places, U!OriginalKept, New
  <2>6. \A c \in U!Components : c <= uitem => Staged(c)'
    BY <1>1, <2>1, <2>2 DEF UpdateInv, ApplyingAt, Staged
  <2>7. ApplyingAt'
    BY <1>1, <2>1, <2>3, <2>6 DEF ApplyingAt, Applying, Pristine
  <2>8. RestoringAt'
    BY <1>1, <2>1, <2>3 DEF RestoringAt, Restoring
  <2>9. QED
    BY <2>4, <2>5, <2>7, <2>8 DEF UpdateInv
<1>4. CASE U!StagedVerified
  <2>1. /\ upc = "journal" /\ upc' = "retire" /\ uitem' = 1 /\ journal' = TRUE
        /\ UNCHANGED <<backup, staging, roots>>
        /\ \A c \in U!Components : Staged(c)
    BY <1>4 DEF U!StagedVerified, UpdateInv, ApplyingAt
  <2>2. UpdateTypes'
    BY <1>1, <2>1 DEF UpdateTypes, Applying
  <2>3. Places'
    BY <1>1, <2>1 DEF UpdateInv, Places, U!OriginalKept, New
  <2>4. ApplyingAt'
    BY <1>1, <2>1 DEF ApplyingAt, Applying, Pristine, Staged
  <2>5. RestoringAt'
    BY <1>1, <2>1 DEF RestoringAt, Restoring
  <2>6. QED
    BY <2>2, <2>3, <2>4, <2>5 DEF UpdateInv
<1>5. QED
  BY <1>2, <1>3, <1>4

\* One component after the other: the original steps back, the candidate in.
LEMMA UpdateSwaps == ASSUME UpdateInv, U!Retire \/ U!Activate PROVE UpdateInv'
<1> USE ComponentAssumption DEF U!Goto, U!places, U!marks, U!Components
<1>1. /\ UNCHANGED <<backup, journal, receipt, intent, back, utorn>> /\ UpdateTypes
      /\ upc \in {"retire", "activate"} /\ uitem \in 1 .. LastItem /\ Staged(uitem)
      /\ journal /\ ~intent /\ ~receipt
      /\ \A c \in U!Components : c < uitem => New(c)
      /\ \A c \in U!Components : c > uitem => Pristine(c) /\ Staged(c)
  BY DEF U!Retire, U!Activate, UpdateInv, UpdateTypes, ApplyingAt, Applying
<1>2. CASE U!Retire
  <2>1. /\ Pristine(uitem) /\ upc' = "activate" /\ uitem' = uitem
        /\ retired' = [retired EXCEPT ![uitem] = "old"]
        /\ active' = [active EXCEPT ![uitem] = None]
        /\ roots' = roots \cup {"retired"} /\ UNCHANGED staging
    BY <1>2 DEF U!Retire, UpdateInv, ApplyingAt, Pristine
  <2>2. /\ active' \in [U!Components -> {None, "old", "new", "part"}]
        /\ retired' \in [U!Components -> {None, "old"}]
        /\ \A c \in U!Components : /\ active'[c] = IF c = uitem THEN None ELSE active[c]
                                   /\ retired'[c] = IF c = uitem THEN "old" ELSE retired[c]
    BY <1>1, <2>1 DEF UpdateTypes
  <2>3. UpdateTypes'
    BY <1>1, <2>1, <2>2 DEF UpdateTypes, Applying
  <2>4. Places'
    BY <1>1, <2>1, <2>2 DEF UpdateInv, Places, U!OriginalKept
  <2>5. ApplyingAt'
    BY <1>1, <2>1, <2>2 DEF ApplyingAt, Applying, Pristine, Staged, New
  <2>6. RestoringAt'
    BY <2>1 DEF RestoringAt, Restoring
  <2>7. QED
    BY <2>3, <2>4, <2>5, <2>6 DEF UpdateInv
<1>3. CASE U!Activate
  <2>1. /\ active' = [active EXCEPT ![uitem] = "new"]
        /\ staging' = [staging EXCEPT ![uitem] = None] /\ UNCHANGED <<retired, roots>>
    BY <1>1, <1>3 DEF U!Activate, Staged
  <2>2. /\ active' \in [U!Components -> {None, "old", "new", "part"}]
        /\ staging' \in [U!Components -> {None, "new", "part"}]
        /\ \A c \in U!Components : /\ active'[c] = IF c = uitem THEN "new" ELSE active[c]
                                   /\ staging'[c] = IF c = uitem THEN None ELSE staging[c]
    BY <1>1, <2>1 DEF UpdateTypes
  <2>3. \/ uitem < LastItem /\ upc' = "retire" /\ uitem' = uitem + 1
        \/ uitem = LastItem /\ upc' = "runtime" /\ uitem' = 0
    BY <1>1, <1>3 DEF U!Activate
  <2>4. UpdateTypes'
    BY <1>1, <2>1, <2>2, <2>3 DEF UpdateTypes, Applying
  <2>5. Places'
    BY <1>1, <2>1, <2>2 DEF UpdateInv, Places, U!OriginalKept, Staged
  <2>6. \A c \in U!Components : c <= uitem => New(c)'
    BY <1>1, <2>1, <2>2 DEF New, Staged
  <2>7. \A c \in U!Components : c > uitem => Pristine(c)' /\ Staged(c)'
    BY <1>1, <2>1, <2>2 DEF Pristine, Staged
  <2>8. ApplyingAt'
    BY <1>1, <2>1, <2>3, <2>6, <2>7 DEF ApplyingAt, Applying
  <2>9. RestoringAt'
    BY <2>3 DEF RestoringAt, Restoring
  <2>10. QED
    BY <2>4, <2>5, <2>8, <2>9 DEF UpdateInv
<1>4. QED
  BY <1>2, <1>3

\* Whole directories are renamed away once nothing in them is needed.
LEMMA UpdateKeeps == ASSUME UpdateInv, U!KeepStaging \/ U!KeepRetired PROVE UpdateInv'
<1> USE ComponentAssumption DEF U!Goto, U!places, U!marks, U!Components
<1>1. /\ UNCHANGED <<active, backup, journal, receipt, intent, back, utorn>> /\ UpdateTypes
      /\ uitem' = 0
      /\ receipt => intent
  BY DEF U!KeepStaging, U!KeepRetired, UpdateInv, ApplyingAt, RestoringAt, Applying, Restoring
<1>2. CASE U!KeepStaging
  <2>1. /\ staging' = U!Nowhere /\ roots' = roots \ {"staging"} /\ UNCHANGED retired
        /\ \/ upc = "keepStaging" /\ upc' = "keepRetired"
           \/ upc = "dropStaging" /\ upc' = "dropRetired"
    BY <1>2 DEF U!KeepStaging
  <2>2. /\ staging' \in [U!Components -> {None, "new", "part"}]
        /\ \A c \in U!Components : staging'[c] = None
    BY <2>1 DEF U!Nowhere
  <2>3. UpdateTypes'
    BY <1>1, <2>1, <2>2 DEF UpdateTypes, Applying, Restoring
  <2>4. Places'
    BY <1>1, <2>1, <2>2 DEF UpdateInv, Places, U!OriginalKept
  <2>5. ApplyingAt'
    BY <1>1, <2>1 DEF UpdateInv, ApplyingAt, Applying, New
  <2>6. RestoringAt'
    BY <1>1, <2>1 DEF UpdateInv, RestoringAt, Restoring
  <2>7. QED
    BY <2>3, <2>4, <2>5, <2>6 DEF UpdateInv
<1>3. CASE U!KeepRetired
  <2>1. /\ retired' = U!Nowhere /\ roots' = roots \ {"retired"} /\ UNCHANGED staging
        /\ \/ upc = "keepRetired" /\ upc' = "receipt"
           \/ upc = "dropRetired" /\ upc' = "rolledBack"
    BY <1>3 DEF U!KeepRetired
  <2>2. /\ retired' \in [U!Components -> {None, "old"}]
        /\ \A c \in U!Components : retired'[c] = None
    BY <2>1 DEF U!Nowhere
  <2>3. UpdateTypes'
    BY <1>1, <2>1, <2>2 DEF UpdateTypes, Applying, Restoring
  <2>4. roots' = {}
    BY <1>1, <2>1 DEF UpdateInv, RestoringAt, UpdateTypes
  <2>5. \A c \in U!Components : active[c] = "old" \/ backup[c] = "old"
    BY <2>1 DEF UpdateInv, ApplyingAt, RestoringAt, Restoring, New
  <2>6. Places'
    BY <1>1, <2>1, <2>2, <2>4, <2>5 DEF UpdateInv, Places, U!OriginalKept
  <2>7. ApplyingAt'
    BY <1>1, <2>1 DEF UpdateInv, ApplyingAt, Applying, New
  <2>8. RestoringAt'
    BY <1>1, <2>1, <2>4 DEF UpdateInv, RestoringAt, Restoring
  <2>9. QED
    BY <2>3, <2>6, <2>7, <2>8 DEF UpdateInv
<1>4. QED
  BY <1>2, <1>3

\* The receipt comes last, and goes when the update is taken back.
LEMMA UpdateMarks ==
  ASSUME UpdateInv,
         U!Complete \/ U!Completed \/ U!WriteIntent \/ U!ArchiveReceipt \/ U!ForgetIntent
  PROVE  UpdateInv'
<1> USE ComponentAssumption DEF U!Goto, U!places, U!marks, U!Components
<1>1. /\ UNCHANGED <<active, retired, backup, staging, roots, back, utorn>> /\ UpdateTypes
  BY DEF U!Complete, U!Completed, U!WriteIntent, U!ArchiveReceipt, U!ForgetIntent, UpdateInv
<1>2. CASE U!Complete
  <2>1. /\ upc = "receipt" /\ upc' = "completed" /\ uitem' = 0 /\ receipt' = TRUE
        /\ UNCHANGED <<journal, intent>>
        /\ ~intent /\ roots = {} /\ \A c \in U!Components : New(c)
    BY <1>2 DEF U!Complete, UpdateInv, ApplyingAt, RestoringAt, Applying
  <2>2. UpdateTypes' /\ Places'
    BY <1>1, <2>1 DEF UpdateInv, UpdateTypes, Places, U!OriginalKept, New, Applying
  <2>3. QED
    BY <1>1, <2>1, <2>2 DEF UpdateInv, ApplyingAt, RestoringAt, Applying, Restoring, New
<1>3. CASE U!Completed
  <2>1. /\ upc' = "idle" /\ uitem' = 0 /\ journal' = TRUE /\ UNCHANGED <<receipt, intent>>
    BY <1>3 DEF U!Completed
  <2>2. UpdateTypes' /\ Places'
    BY <1>1, <2>1 DEF UpdateInv, UpdateTypes, Places, U!OriginalKept, New
  <2>3. QED
    BY <1>1, <2>1, <2>2 DEF UpdateInv, ApplyingAt, RestoringAt, Applying, Restoring
<1>4. CASE U!WriteIntent
  <2>1. CASE U!Preflight
    <3>1. /\ upc' = "restore" /\ uitem' = LastItem /\ intent' = TRUE
          /\ UNCHANGED <<journal, receipt>>
      BY <1>4, <2>1 DEF U!WriteIntent
    <3>2. \A c \in U!Components : backup[c] # "part"
      BY <2>1 DEF U!Preflight
    <3>3. UpdateTypes' /\ Places'
      BY <1>1, <3>1 DEF UpdateInv, UpdateTypes, Places, U!OriginalKept, New, Restoring
    <3>4. QED
      BY <1>1, <3>1, <3>2, <3>3 DEF UpdateInv, ApplyingAt, RestoringAt, Applying, Restoring
  <2>2. CASE ~U!Preflight
    <3>1. /\ upc' = "idle" /\ uitem' = 0 /\ UNCHANGED <<intent, journal, receipt>>
      BY <1>4, <2>2 DEF U!WriteIntent
    <3>2. UpdateTypes' /\ Places'
      BY <1>1, <3>1 DEF UpdateInv, UpdateTypes, Places, U!OriginalKept, New
    <3>3. QED
      BY <1>1, <3>1, <3>2 DEF UpdateInv, ApplyingAt, RestoringAt, Applying, Restoring
  <2>3. QED
    BY <2>1, <2>2
<1>5. CASE U!ArchiveReceipt
  <2>1. /\ upc = "rolledBack" /\ upc' = "forget" /\ uitem' = 0 /\ journal' = TRUE
        /\ receipt' = FALSE /\ UNCHANGED intent
    BY <1>5 DEF U!ArchiveReceipt
  <2>2. UpdateTypes' /\ Places'
    <3>1. UpdateTypes'
      <4>1. journal' \in BOOLEAN /\ receipt' \in BOOLEAN /\ intent' \in BOOLEAN
        BY <1>1, <2>1 DEF UpdateTypes
      <4>2. upc' \in Restoring /\ upc' = "forget" /\ uitem' \in 0 .. LastItem
        BY <2>1 DEF Restoring
      <4>3. QED
        BY <1>1, <4>1, <4>2 DEF UpdateTypes
    <3>2. Places'
      BY <1>1, <2>1 DEF UpdateInv, Places, U!OriginalKept
    <3>3. QED
      BY <3>1, <3>2
  <2>3. QED
    BY <1>1, <2>1, <2>2 DEF UpdateInv, ApplyingAt, RestoringAt, Applying, Restoring
<1>6. CASE U!ForgetIntent
  <2>1. /\ upc = "forget" /\ upc' = back /\ uitem' = 0 /\ intent' = FALSE
        /\ UNCHANGED <<journal, receipt>> /\ ~receipt /\ roots = {}
        /\ back \in {"idle", "replay", "check"}
    BY <1>1, <1>6 DEF U!ForgetIntent, UpdateInv, RestoringAt, UpdateTypes
  <2>2. \A c \in U!Components : retired[c] = None
    BY <2>1 DEF UpdateInv, Places
  <2>3. UpdateTypes' /\ Places'
    <3>1. UpdateTypes'
      <4>1. journal' \in BOOLEAN /\ receipt' \in BOOLEAN /\ intent' \in BOOLEAN
        BY <1>1, <2>1 DEF UpdateTypes
      <4>2. /\ upc' \in {"idle"} \cup Applying /\ uitem' \in 0 .. LastItem
            /\ upc' \notin {"backup", "staging", "retire", "activate", "restore"}
        BY <2>1 DEF Applying
      <4>3. QED
        BY <1>1, <4>1, <4>2 DEF UpdateTypes
    <3>2. Places'
      BY <1>1, <2>1 DEF UpdateInv, Places, U!OriginalKept
    <3>3. QED
      BY <3>1, <3>2
  <2>4. QED
    BY <1>1, <2>1, <2>2, <2>3 DEF UpdateInv, ApplyingAt, RestoringAt, Applying, Restoring
<1>7. QED
  BY <1>2, <1>3, <1>4, <1>5, <1>6

\* What is active makes way for an original that is elsewhere.
LEMMA UpdateRestores == ASSUME UpdateInv, U!MoveAside \/ U!PutBack PROVE UpdateInv'
<1> USE ComponentAssumption DEF U!Goto, U!places, U!marks, U!Components
<1>1. /\ UNCHANGED <<backup, staging, roots, journal, receipt, intent, upc, uitem, back, utorn>>
      /\ UpdateTypes /\ upc = "restore" /\ uitem \in 1 .. LastItem
      /\ intent /\ backup[uitem] # "part"
  BY DEF U!MoveAside, U!PutBack, UpdateInv, UpdateTypes, RestoringAt, Restoring
<1>2. ASSUME NEW x \in {None, "old"}, NEW y \in {None, "old"},
             active' = [active EXCEPT ![uitem] = x], retired' = [retired EXCEPT ![uitem] = y],
             y = None \/ retired[uitem] = y, "old" \in {x, y, backup[uitem]}
      PROVE  UpdateInv'
  <2>1. /\ active' \in [U!Components -> {None, "old", "new", "part"}]
        /\ retired' \in [U!Components -> {None, "old"}]
        /\ \A c \in U!Components : /\ active'[c] = IF c = uitem THEN x ELSE active[c]
                                   /\ retired'[c] = IF c = uitem THEN y ELSE retired[c]
    BY <1>1, <1>2 DEF UpdateTypes
  <2>2. UpdateTypes'
    BY <1>1, <2>1 DEF UpdateTypes
  <2>3. Places'
    BY <1>1, <1>2, <2>1 DEF UpdateInv, Places, U!OriginalKept
  <2>4. ApplyingAt'
    BY <1>1 DEF ApplyingAt, Applying
  <2>5. RestoringAt'
    BY <1>1, <2>1 DEF UpdateInv, RestoringAt, Restoring, Pristine
  <2>6. QED
    BY <2>2, <2>3, <2>4, <2>5 DEF UpdateInv
<1>3. CASE U!MoveAside
  <2>1. /\ active' = [active EXCEPT ![uitem] = None] /\ retired' = retired
        /\ retired[uitem] # None \/ backup[uitem] # None
    BY <1>3 DEF U!MoveAside
  <2>2. /\ retired[uitem] \in {None, "old"} /\ backup[uitem] \in {None, "old"}
        /\ retired' = [retired EXCEPT ![uitem] = retired[uitem]]
    BY <1>1, <2>1 DEF UpdateTypes
  <2>3. QED
    BY <1>2, <2>1, <2>2
<1>4. CASE U!PutBack
  <2>1. /\ active' = [active EXCEPT ![uitem] = IF retired[uitem] # None THEN retired[uitem]
                                               ELSE backup[uitem]]
        /\ retired' = [retired EXCEPT ![uitem] = None]
        /\ retired[uitem] # None \/ backup[uitem] # None
    BY <1>4 DEF U!PutBack
  <2>2. retired[uitem] \in {None, "old"} /\ backup[uitem] \in {None, "old"}
    BY <1>1 DEF UpdateTypes
  <2>3. active' = [active EXCEPT ![uitem] = "old"]
    BY <2>1, <2>2
  <2>4. QED
    BY <1>2, <2>1, <2>3
<1>5. QED
  BY <1>3, <1>4

\* A copy is cut short only where the original is elsewhere.
LEMMA UpdateTorn == ASSUME UpdateInv, U!StopCopying PROVE UpdateInv'
<1> USE ComponentAssumption DEF U!Goto, U!places, U!marks, U!Components
<1>1. /\ UNCHANGED <<retired, journal, receipt, intent, back>> /\ UpdateTypes
      /\ utorn' = TRUE /\ upc' = "idle" /\ uitem' = 0
      /\ upc \in {"backup", "staging", "restore"} /\ uitem \in 1 .. LastItem
      /\ receipt => intent
  BY DEF U!StopCopying, UpdateInv, UpdateTypes, ApplyingAt, RestoringAt, Applying, Restoring
<1>2. ApplyingAt' /\ RestoringAt'
  BY <1>1 DEF ApplyingAt, RestoringAt, Applying, Restoring
<1>3. CASE upc = "backup"
  <2>1. /\ backup' = [backup EXCEPT ![uitem] = "part"] /\ UNCHANGED <<active, staging, roots>>
        /\ backup[uitem] = None
    BY <1>3 DEF U!StopCopying
  <2>2. /\ backup' \in [U!Components -> {None, "old", "part"}]
        /\ \A c \in U!Components : backup'[c] = IF c = uitem THEN "part" ELSE backup[c]
    BY <1>1, <2>1 DEF UpdateTypes
  <2>3. UpdateTypes'
    BY <1>1, <2>1, <2>2 DEF UpdateTypes
  <2>4. Places'
    BY <1>1, <2>1, <2>2 DEF UpdateInv, Places, U!OriginalKept
  <2>5. QED
    BY <1>2, <2>3, <2>4 DEF UpdateInv
<1>4. CASE upc = "staging"
  <2>1. /\ staging' = [staging EXCEPT ![uitem] = "part"] /\ roots' = roots \cup {"staging"}
        /\ UNCHANGED <<active, backup>>
    BY <1>4 DEF U!StopCopying
  <2>2. staging' \in [U!Components -> {None, "new", "part"}]
    BY <1>1, <2>1 DEF UpdateTypes
  <2>3. UpdateTypes'
    BY <1>1, <2>1, <2>2 DEF UpdateTypes
  <2>4. Places'
    BY <1>1, <2>1 DEF UpdateInv, Places, U!OriginalKept
  <2>5. QED
    BY <1>2, <2>3, <2>4 DEF UpdateInv
<1>5. CASE upc = "restore"
  <2>1. /\ active' = [active EXCEPT ![uitem] = "part"] /\ UNCHANGED <<backup, staging, roots>>
        /\ active[uitem] = None /\ retired[uitem] = None
    BY <1>5 DEF U!StopCopying
  <2>2. /\ active' \in [U!Components -> {None, "old", "new", "part"}]
        /\ \A c \in U!Components : active'[c] = IF c = uitem THEN "part" ELSE active[c]
    BY <1>1, <2>1 DEF UpdateTypes
  <2>3. UpdateTypes'
    BY <1>1, <2>1, <2>2 DEF UpdateTypes
  <2>4. Places'
    BY <1>1, <2>1, <2>2 DEF UpdateInv, Places, U!OriginalKept
  <2>5. QED
    BY <1>2, <2>3, <2>4 DEF UpdateInv
<1>6. QED
  BY <1>1, <1>3, <1>4, <1>5

LEMMA UpdateInvariant == Spec => [](focus = "update" => UpdateInv)
<1>1. Init => (focus = "update" => UpdateInv)
  BY UpdateInit DEF Init
<1>2. (focus = "update" => UpdateInv) /\ [Next]_vars => (focus = "update" => UpdateInv)'
  <2> SUFFICES ASSUME focus = "update", UpdateInv, [Next]_vars PROVE UpdateInv'
    BY DEF Next, InstallationNext, ContentNext, vars
  <2>1. CASE U!Next
    BY <2>1, UpdateMoves, UpdateCopies, UpdateSwaps, UpdateKeeps, UpdateMarks, UpdateRestores,
       UpdateTorn DEF U!Next
  <2>2. CASE UNCHANGED updateVars
    BY <2>2 DEF updateVars, UpdateInv, UpdateTypes, Places, ApplyingAt, RestoringAt, U!OriginalKept,
                Pristine, Staged, New
  <2>3. QED
    BY <2>1, <2>2 DEF Next, InstallationNext, ContentNext, vars
<1>3. QED
  BY <1>1, <1>2, PTL DEF Spec

\* Wherever the holder of an update of several components is killed: each
\* original is whole in one of its places, and a recovery is not refused as
\* long as no copy was cut short.
THEOREM Recoverability == Spec => []UpdateRecoverable
<1>1. (focus = "update" => UpdateInv) => UpdateRecoverable
  <2> SUFFICES ASSUME UpdateInv PROVE U!OriginalKept /\ U!Recoverable
    BY DEF UpdateRecoverable
  <2>1. U!OriginalKept
    BY DEF UpdateInv, Places
  <2>2. ASSUME ~utorn, NEW c \in U!Components
        PROVE  /\ active[c] # "part" /\ retired[c] \in {None, "old"}
               /\ backup[c] \in {None, "old"} /\ staging[c] \in {None, "new"}
    BY <2>2 DEF UpdateInv, UpdateTypes, Places
  <2>3. ASSUME NEW c \in U!Components, retired[c] = None, backup[c] = None
        PROVE  active[c] = "old"
    BY <2>1, <2>3, ComponentAssumption DEF U!OriginalKept
  <2>4. QED
    BY <2>1, <2>2, <2>3 DEF U!Recoverable, U!Preflight
<1>2. QED
  BY <1>1, UpdateInvariant, PTL

\* A success receipt that no recovery is taking back is the truth: the target
\* is active, nothing is left over, and a backup is there.
THEOREM ReceiptTrue == Spec => []UpdateReceiptTrue
<1>1. (focus = "update" => UpdateInv) => UpdateReceiptTrue
  <2> SUFFICES ASSUME UpdateInv, receipt, ~intent PROVE U!Postflight = "GREEN"
    BY DEF UpdateReceiptTrue, U!ReceiptIsTrue
  <2>1. roots = {} /\ \A c \in U!Components : active[c] = "new" /\ backup[c] = "old"
    BY DEF UpdateInv, Places, New
  <2>2. 1 \in U!Components
    BY ComponentAssumption DEF U!Components
  <2>3. backup # U!Nowhere
    BY <2>1, <2>2, ComponentAssumption DEF U!Nowhere
  <2>4. U!Generation = "TARGET"
    <3>1. /\ ~(\A c \in U!Components : active[c] = "old")
          /\ (\A c \in U!Components : active[c] = "new")
      BY <2>1, <2>2
    <3>2. QED
      BY <3>1 DEF U!Generation
  <2>5. QED
    BY <2>1, <2>3, <2>4 DEF U!Postflight
<1>2. QED
  BY <1>1, UpdateInvariant, PTL

(***************************************************************************)
(* The layout plan.  A manifest whose sources or destinations overlap is   *)
(* blocked for good, and while nothing changes each operation that was     *)
(* verified still fits.                                                    *)
(***************************************************************************)
Moves == {o \in P!Operations : o.src # o.dst}

\* Operation i of the manifest finds what it was planned for.
FitsNow(i) == P!Snapshot(manifest[i].src) = planned[i] /\ world[manifest[i].dst] = Gone

LayoutInv ==
  /\ manifest \in [1 .. 2 -> Moves]
  /\ P!Conflict(manifest) => phase = "BLOCKED"
  /\ phase = "verify" => at \in 1 .. 2 /\ (quiet /\ at = 2 => FitsNow(1))
  /\ phase = "VERIFIED" /\ quiet => FitsNow(1) /\ FitsNow(2)

LEMMA LayoutInit == P!Init => LayoutInv
  BY DEF P!Init, LayoutInv, Moves

LEMMA LayoutStep == ASSUME LayoutInv, P!Next PROVE LayoutInv'
<1>1. /\ manifest' = manifest /\ manifest \in [1 .. 2 -> Moves] /\ Len(manifest) = 2
      /\ phase = "BLOCKED" => phase' = "BLOCKED"
  <2>1. manifest \in Seq(Moves) /\ DOMAIN manifest = 1 .. 2
    BY SeqDef DEF LayoutInv
  <2>2. Len(manifest) = 2
    BY <2>1, LenProperties
  <2>3. QED
    BY <2>2 DEF LayoutInv, P!Next, P!PlanOperation, P!StartVerify, P!VerifyOperation, P!Edit
<1>2. manifest' \in [1 .. 2 -> Moves] /\ (P!Conflict(manifest)' => phase' = "BLOCKED")
  BY <1>1 DEF LayoutInv, P!Conflict
<1>3. ASSUME \/ P!PlanOperation \/ P!StartVerify
             \/ \E p \in LayoutPaths, c \in FileContents \cup {Gone} : P!Edit(p, c)
      PROVE  /\ phase' = "verify" => at' \in 1 .. 2 /\ (quiet' => at' = 1)
             /\ phase' = "VERIFIED" => ~quiet'
  <2>1. CASE P!PlanOperation
    BY <2>1 DEF P!PlanOperation
  <2>2. CASE P!StartVerify
    BY <2>2 DEF P!StartVerify
  <2>3. CASE \E p \in LayoutPaths, c \in FileContents \cup {Gone} : P!Edit(p, c)
    BY <2>3 DEF P!Edit, LayoutInv
  <2>4. QED
    BY <1>3, <2>1, <2>2, <2>3
<1>4. ASSUME P!VerifyOperation
      PROVE  /\ phase' = "verify" => at' \in 1 .. 2 /\ (quiet' /\ at' = 2 => FitsNow(1)')
             /\ phase' = "VERIFIED" /\ quiet' => FitsNow(1)' /\ FitsNow(2)'
  <2>1. /\ UNCHANGED <<manifest, world, planned, quiet>> /\ at' = at + 1 /\ at \in 1 .. 2
        /\ quiet /\ at = 2 => FitsNow(1)
    BY <1>4 DEF P!VerifyOperation, LayoutInv
  <2>2. phase' \in {"verify", "VERIFIED"} => FitsNow(at)
    BY <1>4 DEF P!VerifyOperation, FitsNow
  <2>3. phase' \in {"STALE", "verify", "VERIFIED"} /\ (phase' = "verify" => at # 2)
        /\ (phase' = "VERIFIED" => at = 2)
    BY <1>1, <1>4 DEF P!VerifyOperation
  <2>4. \A i : FitsNow(i) => FitsNow(i)'
    BY <2>1 DEF FitsNow, P!Snapshot
  <2>5. QED
    BY <2>1, <2>2, <2>3, <2>4
<1>5. QED
  BY <1>2, <1>3, <1>4 DEF LayoutInv, P!Next

\* Only a workspace whose layout runs has a plan that is not idle.
LayoutSafe == phase = "idle" \/ (focus = "layout" /\ LayoutInv)

LEMMA LayoutInvariant == Spec => []LayoutSafe
<1>1. Init => LayoutSafe
  BY LayoutInit DEF Init, FixedPlan, LayoutSafe
<1>2. LayoutSafe /\ [Next]_vars => LayoutSafe'
  <2> SUFFICES ASSUME LayoutSafe, [Next]_vars PROVE LayoutSafe'
    OBVIOUS
  <2>1. CASE focus = "layout" /\ P!Next /\ LayoutInv
    BY <2>1, LayoutStep DEF Next, LayoutSafe, vars
  <2>2. CASE phase = "idle" /\ P!Next
    BY <2>2 DEF P!Next, P!PlanOperation, P!StartVerify, P!VerifyOperation, P!Edit
  <2>3. CASE UNCHANGED layoutVars
    <3>1. LayoutInv => LayoutInv'
      BY <2>3 DEF layoutVars, LayoutInv, FitsNow, P!Snapshot, P!Conflict
    <3>2. QED
      BY <2>3, <3>1 DEF layoutVars, Next, vars, LayoutSafe
  <2>4. QED
    BY <2>1, <2>2, <2>3 DEF LayoutSafe, Next, InstallationNext, ContentNext, vars
<1>3. QED
  BY <1>1, <1>2, PTL DEF Spec

\* Moves that were verified while nothing changed can be made in their order: the
\* first takes nothing of what the second was planned for, unless it moves into it.
LEMMA MovesApart ==
  ASSUME NEW first \in P!Operations, NEW second \in P!Operations,
         ~P!Overlap(first.dst, second.dst), ~P!Overlap(first.src, second.src),
         first.dst \notin Below[second.src], world[second.dst] = Gone
  PROVE  P!Fits(P!Moved(world, first), second, P!Snapshot(second.src))
<1> DEFINE w == P!Moved(world, first)
<1>1. /\ first.src \in LayoutPaths /\ first.dst \in LayoutPaths
      /\ second.src \in LayoutPaths /\ second.dst \in LayoutPaths
  BY DEF P!Operations
<1>2. \A q \in LayoutPaths :
        w[q] = IF q \in Below[first.src] THEN Gone
               ELSE IF first.dst \in Below[q] /\ world[q] = Gone THEN "moved" ELSE world[q]
  BY DEF P!Moved
<1> HIDE DEF w
<1>3. ASSUME NEW q \in Below[second.src] PROVE w[q] = P!Snapshot(second.src)[q]
  <2>1. q \in LayoutPaths
    BY <1>1, PathAssumption
  <2>2. q \notin Below[first.src]
    BY <1>1, PathAssumption DEF P!Overlap
  <2>3. first.dst \notin Below[q]
    BY <1>1, PathAssumption
  <2>4. QED
    BY <1>2, <2>1, <2>2, <2>3 DEF P!Snapshot
<1>4. w[second.dst] = Gone
  BY <1>1, <1>2 DEF P!Overlap
<1>5. QED
  BY <1>3, <1>4 DEF w, P!Fits

\* A plan that was verified while nothing changed can be carried out.
THEOREM Layout == Spec => []LayoutPlanApplies
<1>1. LayoutSafe => LayoutPlanApplies
  <2> SUFFICES ASSUME LayoutInv, phase = "VERIFIED", quiet PROVE P!VerifiedApplies
    BY DEF LayoutSafe, LayoutPlanApplies, P!VerifiedApplies
  <2>1. /\ FitsNow(1) /\ FitsNow(2) /\ ~P!Conflict(manifest)
        /\ manifest[1] \in P!Operations /\ manifest[2] \in P!Operations /\ DOMAIN manifest = 1 .. 2
    BY DEF LayoutInv, Moves
  <2>2. /\ ~P!Overlap(manifest[1].dst, manifest[2].dst)
        /\ ~P!Overlap(manifest[1].src, manifest[2].src)
    BY <2>1 DEF P!Conflict
  <2>3. P!Fits(world, manifest[1], planned[1])
    BY <2>1 DEF FitsNow, P!Fits, P!Snapshot
  <2>4. manifest[1].dst \notin Below[manifest[2].src] =>
          P!Fits(P!Moved(world, manifest[1]), manifest[2], planned[2])
    BY <2>1, <2>2, MovesApart DEF FitsNow
  <2>5. QED
    BY <2>3, <2>4 DEF P!VerifiedApplies
<1>2. QED
  BY <1>1, LayoutInvariant, PTL

(***************************************************************************)
(* The types of the component that runs.                                   *)
(***************************************************************************)
\* transactional_update.py: the types of an update.
LEMMA UpdateTyped == Spec => [](focus = "update" => U!TypeOK)
<1>1. UpdateInv => U!TypeOK
  BY DEF UpdateInv, UpdateTypes, U!TypeOK, U!Conditions
<1>2. QED
  BY <1>1, UpdateInvariant, PTL

\* install_manager.py: the types of an installation.
LEMMA InstallTyped == Spec => [](focus = "install" => I!TypeOK)
<1>1. InstallInv => I!TypeOK
  BY DEF InstallInv, InstallTypes, I!TypeOK
<1>2. QED
  BY <1>1, InstallInvariant, PTL

\* Whichever component runs, its state has its types: copies and versions are
\* what they can be, and neither the storage limit nor the limit of attempts is
\* passed, for any number of workers and any limits.
THEOREM WorkspaceTyped == Spec => []TypeOK
<1>1. Spec => []/\ focus = "update" => U!TypeOK
                /\ focus = "install" => I!TypeOK
                /\ focus = "lifecycle" => L!TypeOK
                /\ focus = "library" => M!TypeOK
                /\ focus = "executor" => X!TypeOK
                /\ focus = "context" => C!TypeOK
                /\ focus = "search" => S!TypeOK
  BY UpdateTyped, InstallTyped, CleanupTyped, LibraryTyped, ExecutorTyped, ContextTyped,
     SearchTyped, PTL
<1>2. (/\ focus = "update" => U!TypeOK
       /\ focus = "install" => I!TypeOK
       /\ focus = "lifecycle" => L!TypeOK
       /\ focus = "library" => M!TypeOK
       /\ focus = "executor" => X!TypeOK
       /\ focus = "context" => C!TypeOK
       /\ focus = "search" => S!TypeOK) => TypeOK
  BY DEF TypeOK
<1>3. QED
  BY <1>1, <1>2, PTL
=============================================================================
