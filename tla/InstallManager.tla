--------------------------- MODULE InstallManager --------------------------
(***************************************************************************)
(* The managed installation of install_manager.py: one wheel replaced by   *)
(* another through the package manager, with a journal from which a fresh  *)
(* process ends an update that was cut short.  operation.lock is a kernel  *)
(* lock, so one variable, pc, says where its holder is; the holder may be  *)
(* killed anywhere.                                                        *)
(*                                                                         *)
(* A wheel is told apart by its hash; several may carry one version.  The  *)
(* package manager either installs what it is given or leaves things as    *)
(* they were and fails; killed, it may also leave an unreadable runtime,   *)
(* "broken".  Only the newest journal is kept: resume_update is given no   *)
(* older plan.                                                             *)
(***************************************************************************)
EXTENDS Naturals

CONSTANTS
  Wheels,
  Version,   \* Version[w]: the version in the metadata of wheel w
  None

VARIABLES
  installed,  \* the wheel in the environment, "broken", or None
  cache,      \* cache[w]: what is left of artifacts/<w>: "none", "dir",
              \* "marked" by its owner file, "full"
  rollbacks,  \* rollbacks[v]: the wheel kept to go back to version v, or None
  journal,    \* the newest journal, or None
  plan,       \* what the holder of the lock has in memory, or None
  pc

files == <<cache, rollbacks, journal>>
vars == <<installed, files, plan, pc>>

Versions == {Version[w] : w \in Wheels}
VersionOf(w) == IF w \in Wheels THEN Version[w] ELSE None

Init ==
  /\ installed \in Wheels \cup {None}
  /\ cache = [w \in Wheels |-> "none"]
  /\ rollbacks = [v \in Versions |-> None]
  /\ journal = None /\ plan = None /\ pc = "idle"

\* The kernel lock of the state directory is free: nobody waits for it.
Free == pc = "idle"

(***************************************************************************)
(* managed_update                                                          *)
(***************************************************************************)
\* For a wheel of the version that is installed already, the way back is the
\* exact wheel that is installed; else any wheel of the old version will do.
\* Artifacts are hashed and opened before anything durable changes; the wheel
\* that is installed already is only verified again.
Update(w, r) ==
  /\ Free /\ installed # "broken" /\ installed # w
  /\ IF installed = None THEN r = None
     ELSE IF Version[installed] = Version[w] THEN r = installed
     ELSE r # None /\ Version[r] = Version[installed]
  /\ cache[w] # "dir"
  /\ plan' = [from |-> VersionOf(installed), was |-> installed, to |-> w, way |-> r,
              phase |-> "STAGED"]
  /\ pc' = IF cache[w] = "none" THEN "mkdir" ELSE "place"
  /\ UNCHANGED <<installed, files>>

MakeCache ==
  /\ pc \in {"mkdir", "mark"}
  /\ cache' = [cache EXCEPT ![plan.to] = IF pc = "mkdir" THEN "dir" ELSE "marked"]
  /\ pc' = IF pc = "mkdir" THEN "mark" ELSE "place"
  /\ UNCHANGED <<installed, rollbacks, journal, plan>>

\* A failing rename takes the candidate and its directory away again; that is left out.
PlaceCandidateOnly ==  \* goes on without keeping the way back
  /\ pc = "place"
  /\ cache' = [cache EXCEPT ![plan.to] = "full"]
  /\ pc' = "journal"
  /\ UNCHANGED <<installed, rollbacks, journal, plan>>

PlaceCandidate ==
  /\ pc = "place"
  /\ cache' = [cache EXCEPT ![plan.to] = "full"]
  /\ pc' = IF plan.way = None THEN "journal" ELSE "rollback"
  /\ UNCHANGED <<installed, rollbacks, journal, plan>>

PlaceRollbackOfTarget ==  \* keeps the candidate under the old version's name
  /\ pc = "rollback"
  /\ rollbacks' = [rollbacks EXCEPT ![plan.from] = plan.to]
  /\ pc' = "journal"
  /\ UNCHANGED <<installed, cache, journal, plan>>

PlaceRollback ==
  /\ pc = "rollback"
  /\ rollbacks' = [rollbacks EXCEPT ![plan.from] = plan.way]
  /\ pc' = "journal"
  /\ UNCHANGED <<installed, cache, journal, plan>>

\* The journal is written before each phase is entered.
Journal ==
  /\ pc \in {"journal", "activating", "verifying"}
  /\ plan' = [plan EXCEPT !.phase = CASE pc = "journal" -> "STAGED"
                                      [] pc = "activating" -> "ACTIVATING"
                                      [] pc = "verifying" -> "VERIFYING"]
  /\ journal' = plan'
  /\ pc' = CASE pc = "journal" -> "activating"
             [] pc = "activating" -> "install"
             [] pc = "verifying" -> "verify"
  /\ UNCHANGED <<installed, cache, rollbacks>>

Install ==
  /\ pc = "install"
  /\ \/ installed' = plan.to /\ pc' = "verifying"
     \/ installed' = installed /\ pc' = "restore"
  /\ UNCHANGED <<files, plan>>

\* verify_runtime compares versions, runs the program and reopens a
\* checkpoint; a runtime of the right version may still be unhealthy.
Verify ==
  /\ pc = "verify"
  /\ \/ VersionOf(installed) = Version[plan.to] /\ pc' = "cleanup"
     \/ pc' = "restore"
  /\ UNCHANGED <<installed, files, plan>>

\* The other candidates are removed, each with its directory.
Cleanup ==
  /\ pc = "cleanup"
  /\ cache' = [w \in Wheels |-> IF w # plan.to /\ cache[w] \in {"marked", "full"}
                                THEN "none" ELSE cache[w]]
  /\ pc' = "healthy"
  /\ UNCHANGED <<installed, rollbacks, journal, plan>>

EndWith(phase) ==
  /\ plan' = [plan EXCEPT !.phase = phase]
  /\ journal' = plan'

Healthy ==
  /\ pc = "healthy"
  /\ EndWith("NEW_HEALTHY")
  /\ pc' = "idle"
  /\ UNCHANGED <<installed, cache, rollbacks>>

(***************************************************************************)
(* _restore and resume_update                                              *)
(***************************************************************************)
\* Nothing was installed before: uninstall.  Else the kept wheel is put back.
Restore ==
  /\ pc = "restore"
  /\ \/ plan.from = None /\ installed' = None /\ pc' = "removed"
     \/ /\ plan.from # None /\ rollbacks[plan.from] # None
        /\ installed' = rollbacks[plan.from] /\ pc' = "restored"
  /\ UNCHANGED <<files, plan>>

\* The package manager fails, the kept wheel is missing or unhealthy.
RestoreFails ==
  /\ pc \in {"restore", "restored"}
  /\ EndWith("RECOVERY_REQUIRED")
  /\ pc' = "idle"
  /\ UNCHANGED <<installed, cache, rollbacks>>

OldRestored ==
  /\ \/ pc = "removed" /\ pc' = "idle"
     \/ pc = "restored" /\ VersionOf(installed) = plan.from /\ pc' = "drop"
  /\ EndWith("OLD_RESTORED")
  /\ UNCHANGED <<installed, cache, rollbacks>>

\* The candidate, its owner file and its directory go one after the other.
DropCandidate ==
  /\ pc = "drop"
  /\ cache' = [cache EXCEPT ![plan.to] = CASE @ = "full" -> "marked"
                                           [] @ = "marked" -> "dir"
                                           [] OTHER -> "none"]
  /\ pc' = IF cache[plan.to] \in {"full", "marked"} THEN "drop" ELSE "idle"
  /\ UNCHANGED <<installed, rollbacks, journal, plan>>

\* A fresh process ends the newest update, unless it has ended already.
Resume ==
  /\ Free /\ journal # None
  /\ journal.phase \notin {"NEW_HEALTHY", "OLD_RESTORED", "RECOVERY_REQUIRED"}
  /\ plan' = journal
  /\ pc' = "verify"
  /\ UNCHANGED <<installed, files>>

Killed ==
  /\ ~Free
  /\ installed' \in CASE pc = "install" -> {installed, plan.to, "broken"}
                      [] pc = "restore" -> {installed, "broken"}
                      [] OTHER -> {installed}
  /\ pc' = "idle"
  /\ plan' = None
  /\ UNCHANGED files

Next ==
  \/ \E w \in Wheels, r \in Wheels \cup {None} : Update(w, r)
  \/ MakeCache \/ PlaceCandidate \/ PlaceRollback \/ Journal \/ Install \/ Verify
  \/ Cleanup \/ Healthy \/ Restore \/ RestoreFails \/ OldRestored \/ DropCandidate
  \/ Resume \/ Killed

Spec == Init /\ [][Next]_vars

(***************************************************************************)
(* Properties                                                              *)
(***************************************************************************)
TypeOK ==
  /\ installed \in Wheels \cup {None, "broken"}
  /\ cache \in [Wheels -> {"none", "dir", "marked", "full"}]
  /\ \A v \in Versions : rollbacks[v] = None \/ Version[rollbacks[v]] = v

\* While an update is unfinished, the wheel that leads back to the version it
\* started from is at hand, so that any process can end it.
WayBack ==
  journal # None /\ journal.phase \in {"STAGED", "ACTIVATING", "VERIFYING"} /\ journal.from # None
    => rollbacks[journal.from] # None

\* What the newest journal says is what is installed: a healthy update that
\* changes the version put exactly its candidate in place, and a restored one
\* has the old version back - until the next update touches the environment.
OutcomeIsTrue ==
  (Free /\ journal # None) =>
    /\ journal.phase = "NEW_HEALTHY" /\ Version[journal.to] # journal.from
         => installed = journal.to
    /\ journal.phase = "OLD_RESTORED" => VersionOf(installed) = journal.from
=============================================================================
