---------------------------- MODULE HostedStorage ----------------------------
(***************************************************************************)
(* How the hosted service gets its database: src/hosted/storage.py, called *)
(* by src/hosted/server.py.  The first start publishes a copy of the seed  *)
(* under the name of the database, by a hard link; later starts use what   *)
(* is there after validating it.  A start that fails takes away what it    *)
(* published.  A process can die after any step, and any call of the file  *)
(* system can fail.                                                        *)
(*                                                                         *)
(* One process starts at a time, as the deployment documents require.  The *)
(* artifact is the right one: another digest is one of the faults.  A      *)
(* temporary copy has a new name each time; those of dead processes are    *)
(* never looked at again, and are left out.                                *)
(***************************************************************************)
EXTENDS Naturals

CONSTANTS
    NoFile,       \* no file
    MaxDeaths,    \* bound: processes that die
    MaxFaults     \* bound: calls of the file system that fail

ASSUME StorageAssumption == MaxDeaths \in Nat /\ MaxFaults \in Nat
ASSUME NoFileAssumption ==
    NoFile \notin {"part", "whole"} \cup [links: 1 .. 2, whole: BOOLEAN, used: BOOLEAN]

VARIABLES
    target,      \* the database file, or NoFile: its names, whether it is the
                 \* whole seed, whether the service has written to it
    sidecars,    \* which of its WAL files exist
    temporary,   \* the copy under way: NoFile, "part" or "whole"
    published,   \* whether this start made the target
    stage,       \* what the process does next; "down" where there is none
    refused,     \* whether the last start gave up without a fault of its own
    halfway,     \* history: whether a process ended where its files were halfway
    deaths, faults

storage == <<target, sidecars, temporary, published, stage, refused, halfway, deaths,
             faults>>

Starting == {"layout", "seed", "copy", "link", "unlink", "check", "wal", "shm", "final"}

Undoing == {"undo", "undo wal", "undo shm", "undo target"}

\* The seed has two names, or one of the two WAL files is there.
Halfway == {"unlink", "shm"} \cup Undoing

StorageInit ==
    /\ target = NoFile
    /\ sidecars = {}
    /\ temporary = NoFile
    /\ published = FALSE
    /\ stage = "down"
    /\ refused = FALSE
    /\ halfway = FALSE
    /\ deaths = 0 /\ faults = 0

-----------------------------------------------------------------------------
(* The validations.                                                        *)

\* _validate_layout: a regular file of one name, and no WAL files without it.
LayoutOK ==
    IF target = NoFile THEN sidecars = {} ELSE target.links = 1

\* Mutant: No WAL files may be there, as beside the artifact.
RuntimeAsSeed == LayoutOK /\ target.whole /\ (stage = "final" \/ sidecars = {})

\* validate_runtime_database: both WAL files or none, and the content intact.
RuntimeOK ==
    LayoutOK /\ target.whole /\ sidecars \in {{}, {"wal", "shm"}}

\* The process ends, having removed its temporary copy.
Down ==
    /\ stage' = "down"
    /\ temporary' = NoFile
    /\ published' = FALSE

\* Mutant: Whatever database is there is removed when a start fails.
FailRemovesAny ==
    /\ IF target # NoFile
       THEN stage' = "undo" /\ UNCHANGED <<temporary, published>>
       ELSE Down
    /\ UNCHANGED <<target, sidecars, deaths>>

\* except: what this start published goes, anything else stays.
Fail ==
    /\ IF published
       THEN stage' = "undo" /\ UNCHANGED <<temporary, published>>
       ELSE Down
    /\ UNCHANGED <<target, sidecars, deaths>>

Refuse ==
    /\ refused' = TRUE
    /\ Fail
    /\ UNCHANGED <<halfway, faults>>

Goto(next) ==
    /\ stage' = next
    /\ UNCHANGED <<published, refused, halfway, deaths, faults>>

-----------------------------------------------------------------------------
(* bootstrap_hosted_storage, step by step.                                 *)

Start ==
    /\ stage = "down"
    /\ stage' = "layout"
    /\ refused' = FALSE
    /\ UNCHANGED <<target, sidecars, temporary, published, halfway, deaths, faults>>

Layout ==
    /\ stage = "layout"
    /\ IF LayoutOK
       THEN /\ Goto(IF target = NoFile THEN "seed" ELSE "check")
            /\ UNCHANGED <<target, sidecars, temporary>>
       ELSE Refuse

\* Mutant: The seed is copied to its place, without a temporary file.
SeedInPlace ==
    /\ stage = "seed"
    /\ target' = [links |-> 1, whole |-> FALSE, used |-> FALSE]
    /\ temporary' = "part"
    /\ Goto("copy")
    /\ UNCHANGED sidecars

\* _copy_artifact creates the temporary file, and fills it.
Seed ==
    /\ stage = "seed"
    /\ temporary' = "part"
    /\ Goto("copy")
    /\ UNCHANGED <<target, sidecars>>

Copy ==
    /\ stage = "copy"
    /\ temporary' = "whole"
    /\ Goto("link")
    /\ UNCHANGED <<target, sidecars>>

\* _publish_seed: the copy, validated, gets its second name.
Publish ==
    /\ stage = "link"
    /\ target' = [links |-> 2, whole |-> temporary = "whole", used |-> FALSE]
    /\ published' = TRUE
    /\ stage' = "unlink"
    /\ UNCHANGED <<sidecars, temporary, refused, halfway, deaths, faults>>

\* temporary.unlink.
Unlink ==
    /\ stage = "unlink"
    /\ target' = [target EXCEPT !.links = 1]
    /\ temporary' = NoFile
    /\ Goto("check")
    /\ UNCHANGED sidecars

Check ==
    /\ stage = "check"
    /\ IF RuntimeOK
       THEN Goto("wal") /\ UNCHANGED <<target, sidecars, temporary>>
       ELSE Refuse

\* _initialize_runtime: SQLite makes the WAL file, then its index.
Open ==
    \/ /\ stage = "wal"
       /\ sidecars' = sidecars \cup {"wal"}
       /\ Goto("shm")
       /\ UNCHANGED <<target, temporary>>
    \/ /\ stage = "shm"
       /\ sidecars' = sidecars \cup {"shm"}
       /\ Goto("final")
       /\ UNCHANGED <<target, temporary>>

\* The second validation, and the first look of readiness_reason; from here
\* the requests write to the ledger of the database.
Serve ==
    /\ stage = "final"
    /\ IF RuntimeOK /\ sidecars = {"wal", "shm"}
       THEN /\ target' = [target EXCEPT !.used = TRUE]
            /\ stage' = "serving"
            /\ published' = FALSE
            /\ UNCHANGED <<sidecars, temporary, refused, halfway, deaths, faults>>
       ELSE Refuse

-----------------------------------------------------------------------------
(* Failures.                                                               *)

\* A call of a start raises.
Fault ==
    /\ stage \in Starting
    /\ faults < MaxFaults
    /\ faults' = faults + 1
    /\ halfway' = (halfway \/ stage = "shm")
    /\ Fail
    /\ UNCHANGED refused

\* The temporary name first; then the layout is validated before anything is
\* removed.
Undo ==
    /\ stage = "undo"
    /\ temporary' = NoFile
    /\ target' = [target EXCEPT !.links = 1]
    /\ stage' = "undo wal"
    /\ UNCHANGED <<sidecars, published, refused, halfway, deaths, faults>>

\* for path in (*sidecars(target), target).
UndoFile ==
    /\ \/ /\ stage = "undo wal"
          /\ sidecars' = sidecars \ {"wal"}
          /\ stage' = "undo shm"
          /\ UNCHANGED <<target, temporary, published>>
       \/ /\ stage = "undo shm"
          /\ sidecars' = sidecars \ {"shm"}
          /\ stage' = "undo target"
          /\ UNCHANGED <<target, temporary, published>>
       \/ /\ stage = "undo target"
          /\ target' = NoFile
          /\ Down
          /\ UNCHANGED sidecars
    /\ UNCHANGED <<refused, halfway, deaths, faults>>

\* except Exception: the removal gives up; "finally" still removes the
\* temporary name, unless that fails too.
UndoFails ==
    /\ stage \in Undoing
    /\ faults < MaxFaults
    /\ faults' = faults + 1
    /\ halfway' = TRUE
    /\ target' \in IF stage = "undo" THEN {target, [target EXCEPT !.links = 1]}
                                     ELSE {target}
    /\ Down
    /\ UNCHANGED <<sidecars, refused, deaths>>

\* The process is killed, or the machine stops.
Die ==
    /\ stage # "down"
    /\ deaths < MaxDeaths
    /\ deaths' = deaths + 1
    /\ halfway' = (halfway \/ stage \in Halfway)
    /\ Down
    /\ UNCHANGED <<target, sidecars, refused, faults>>

\* The service is told to stop: storage.close leaves the WAL files.
Stop ==
    /\ stage = "serving"
    /\ Down
    /\ UNCHANGED <<target, sidecars, refused, halfway, deaths, faults>>

Bootstrap ==
    \/ Start \/ Layout \/ Seed \/ Copy \/ Publish \/ Unlink \/ Check \/ Open \/ Serve
    \/ Fault \/ Undo \/ UndoFile \/ UndoFails

StorageNext == Bootstrap \/ Die \/ Stop

-----------------------------------------------------------------------------
(* What the module promises.                                               *)

StorageTypeOK ==
    /\ target \in {NoFile} \cup [links: 1 .. 2, whole: BOOLEAN, used: BOOLEAN]
    /\ sidecars \subseteq {"wal", "shm"}
    /\ temporary \in {NoFile, "part", "whole"}
    /\ published \in BOOLEAN
    /\ stage \in {"down", "serving"} \cup Starting \cup Undoing
    /\ refused \in BOOLEAN
    /\ halfway \in BOOLEAN
    /\ deaths \in 0 .. MaxDeaths
    /\ faults \in 0 .. MaxFaults

(***************************************************************************)
(* Whenever a process dies, there is no database or the whole one: what a  *)
(* start finds under the name of the database is never a part of the seed. *)
(***************************************************************************)
PublishedWhole == target # NoFile => target.whole

(***************************************************************************)
(* A database the service has written to is never removed, also not when   *)
(* its start fails ("A pre-existing target is never removed").             *)
(***************************************************************************)
UsedIsKept ==
    [][(target # NoFile /\ target.used) => (target' # NoFile /\ target'.used)]_storage

(***************************************************************************)
(* A start refuses to serve without a fault of its own only where an       *)
(* earlier process died while the seed had two names, while SQLite made    *)
(* its files or while they were removed, or could not finish the removal:  *)
(* dying at any other point, also while serving, needs no operator.        *)
(***************************************************************************)
RefusedForACause == refused => halfway
=============================================================================
