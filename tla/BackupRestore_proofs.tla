------------------------ MODULE BackupRestore_proofs ------------------------
(***************************************************************************)
(* What holds of backups and restorations for every value of the           *)
(* constants of BackupRestore: any number of files, contents, backups,     *)
(* edits, crashes and faults.                                              *)
(***************************************************************************)
EXTENDS BackupRestore, TLAPS

-----------------------------------------------------------------------------
(* The inductive invariant.                                                *)

RestorePhases ==
    {"staged", "saved", "moved", "switched", "done", "failing", "aside", "back"}

Tasked == {Idle} \cup [pc : {"storing"}, item : Items, content : Versions]
                 \cup [pc : {"clearing", "deleting"}, item : Items]

\* What the steps under way remember.
WorkOK ==
    /\ edit \in Tasked
    /\ copy \in {Idle} \cup [pc : {"copying"}, rows : Cells, files : Cells, todo : SUBSET Items]
    /\ restore \in {Idle} \cup [pc : RestorePhases, source : Backups]

\* Without the service nobody edits or copies, and only without it there is a
\* restoration.
Offline ==
    /\ ~service => edit = Idle /\ copy = Idle
    /\ restore # Idle => ~service

Held(x) == \E n \in Backups : backups[n] # None /\ Same(backups[n], x)

\* Until the directory is moved away it is the one the restoration began with;
\* as long as it may have to come back, something of it is there.
InPlace ==
    /\ restore.pc \in {"staged", "saved"} => data # None /\ before # None /\ Same(data, before)
    /\ restore.pc \in {"moved", "switched", "failing", "aside"} => rollback # None

\* From the pre-restore backup on a backup holds the library, and it still does
\* when the service starts on another one.
Saved ==
    before # None /\ (restore.pc \in RestorePhases \ {"staged"} \/ service) => Held(before)

\* The backup is the one that was validated, and it is what was put in place.
Sourced ==
    /\ restore # Idle => backups[restore.source] # None /\ Valid(backups[restore.source])
    /\ restore.pc \in {"switched", "done"} => data = Restored(restore.source)

IndInv ==
    /\ TypeOK /\ WorkOK /\ Offline /\ InPlace
    /\ Saved /\ LibraryKept /\ BackupsAreWhole /\ Sourced

-----------------------------------------------------------------------------
(***************************************************************************)
(* The tasks under way are told apart by their first field.                *)
(***************************************************************************)
LEMMA Tasks ==
    ASSUME WorkOK
    PROVE  /\ (edit = Idle) <=> (edit.pc = "idle")
           /\ (copy = Idle) <=> (copy.pc = "idle")
           /\ (restore = Idle) <=> (restore.pc = "idle")
           /\ restore # Idle => restore.pc \in RestorePhases /\ restore.source \in Backups
  BY DEF WorkOK, Tasked, Idle, RestorePhases

(***************************************************************************)
(* Libraries without interrupted work, and those in which it is settled.   *)
(***************************************************************************)
LEMMA SettledTyped ==
    ASSUME NEW x \in Libraries
    PROVE  Settled(x) \in Libraries
  BY DEF Settled, Libraries, Cells, Empty

LEMMA RestoredTyped ==
    ASSUME BackupAssumption, TypeOK, NEW n \in Backups, backups[n] # None
    PROVE  Restored(n) \in Libraries
  BY DEF Restored, Libraries, BackupDirs, Cells, Empty, TypeOK

(***************************************************************************)
(* The invariant holds of a library that is just set up, beside a backup   *)
(* that may have been damaged.                                             *)
(***************************************************************************)
LEMMA Initially ==
    ASSUME BackupAssumption, NoneAssumption, Init
    PROVE  IndInv
<1>1. TypeOK
  BY DEF Init, TypeOK, Idle, Libraries, BackupDirs, Cells, BackupAssumption
<1>2. WorkOK /\ Offline /\ InPlace /\ Saved /\ LibraryKept /\ Sourced
  BY DEF Init, WorkOK, Tasked, Offline, InPlace, Saved, LibraryKept, Sourced, Idle
<1>3. BackupsAreWhole
  BY DEF Init, BackupsAreWhole, Whole, Cells, BackupAssumption
<1> QED
  BY <1>1, <1>2, <1>3 DEF IndInv

(***************************************************************************)
(* A file of a library, or what a row names, replaced by another.          *)
(***************************************************************************)
LEMMA Replaced ==
    ASSUME NEW x \in Libraries, NEW i \in Items, NEW v \in Versions \cup {None},
           NEW w \in Versions \cup {None}
    PROVE  /\ [x EXCEPT !.files[i] = v] \in Libraries
           /\ [x EXCEPT !.rows[i] = v] \in Libraries
           /\ [x EXCEPT !.files[i] = v, !.held[i] = w] \in Libraries
           /\ [x EXCEPT !.rows[i] = v, !.held[i] = w] \in Libraries
           /\ x.rows[i] \in Versions \cup {None}
           /\ x.files[i] \in Versions \cup {None}
           /\ x.held[i] \in Versions \cup {None}
  BY DEF Libraries, Cells

(***************************************************************************)
(* A change begins, or it ends, in the running service.                    *)
(***************************************************************************)
LEMMA EditShape ==
    ASSUME IndInv, EditStep
    PROVE  /\ service /\ restore = Idle /\ data \in Libraries
           /\ \E e \in Tasked, library \in Libraries :
                 (MayEdit /\ Edits(e, library)) \/ (e = Idle /\ Ends(library))
<1> DEFINE Goal == \E e \in Tasked, library \in Libraries :
                      (MayEdit /\ Edits(e, library)) \/ (e = Idle /\ Ends(library))
<1> USE DEF Tasked
<1>1. service
  BY Tasks DEF EditStep, StoreFile, ClearRow, MoveFile, StoreRow, ClearFile, DeleteRow, MoveBack,
               MayEdit, IndInv, Offline
<1>2. restore = Idle /\ data \in Libraries
  BY <1>1 DEF IndInv, Offline, TypeOK
<1>3. ASSUME NEW i \in Items, NEW v \in Versions, StoreFile(i, v) PROVE Goal
  BY <1>2, <1>3, Replaced DEF StoreFile
<1>4. ASSUME NEW i \in Items, ClearRow(i) PROVE Goal
  BY <1>2, <1>4, Replaced DEF ClearRow
<1>5. ASSUME NEW i \in Items, MoveFile(i) PROVE Goal
  BY <1>2, <1>5, Replaced DEF MoveFile
<1>6. edit # Idle => edit.item \in Items /\ (edit.pc = "storing" => edit.content \in Versions)
  BY DEF IndInv, WorkOK, Tasked
<1>7. ASSUME StoreRow PROVE Goal
  BY <1>2, <1>6, <1>7, Tasks, Replaced DEF StoreRow, IndInv, Idle
<1>8. ASSUME ClearFile PROVE Goal
  BY <1>2, <1>6, <1>8, Tasks, Replaced DEF ClearFile, IndInv, Idle
<1>9. ASSUME DeleteRow PROVE Goal
  BY <1>2, <1>6, <1>9, Tasks, Replaced DEF DeleteRow, IndInv, Idle
<1>10. ASSUME MoveBack PROVE Goal
  BY <1>2, <1>6, <1>10, Tasks, Replaced DEF MoveBack, IndInv, Idle
<1> QED
  BY <1>1, <1>2, <1>3, <1>4, <1>5, <1>7, <1>8, <1>9, <1>10 DEF EditStep

(***************************************************************************)
(* A change in the service keeps the invariant, which asks nothing of the  *)
(* library of a running service but its type.                              *)
(***************************************************************************)
LEMMA EditKeeps ==
    ASSUME BackupAssumption, NoneAssumption, IndInv, EditStep
    PROVE  IndInv'
<1>1. service /\ restore = Idle
  BY EditShape
<1>2. PICK e \in Tasked, library \in Libraries :
          (MayEdit /\ Edits(e, library)) \/ (e = Idle /\ Ends(library))
  BY EditShape
<1>3. /\ UNCHANGED <<backups, service, copy, restore, rollback, before, told, crashes, faults>>
      /\ data' = library /\ edit' = e
  BY <1>2 DEF Edits, Ends
<1>4. edits' \in 0..MaxEdits
  BY <1>2 DEF Edits, Ends, MayEdit, IndInv, TypeOK, BackupAssumption
<1>5. TypeOK' /\ WorkOK'
  BY <1>3, <1>4, NoneAssumption DEF IndInv, TypeOK, WorkOK, Tasked, Idle
<1>6. Offline' /\ InPlace' /\ Sourced'
  BY <1>1, <1>3 DEF IndInv, Offline, InPlace, Sourced, Idle
<1>7. Saved' /\ LibraryKept' /\ BackupsAreWhole'
  BY <1>1, <1>3 DEF IndInv, Saved, LibraryKept, BackupsAreWhole, Held, Idle
<1> QED
  BY <1>5, <1>6, <1>7 DEF IndInv

(***************************************************************************)
(* The service stops when nobody edits or copies, and its start gives up   *)
(* the library of the last restoration only if it found it in place.       *)
(***************************************************************************)
LEMMA ServiceKeeps ==
    ASSUME BackupAssumption, NoneAssumption, IndInv, StopService \/ StartService
    PROVE  IndInv'
<1>1. CASE StopService
  <2>1. restore = Idle
    BY <1>1 DEF StopService, IndInv, Offline
  <2>2. TypeOK' /\ WorkOK' /\ Offline'
    BY <1>1, <2>1 DEF StopService, IndInv, TypeOK, WorkOK, Offline
  <2>3. InPlace' /\ Saved' /\ LibraryKept' /\ BackupsAreWhole' /\ Sourced'
    BY <1>1, <2>1 DEF StopService, IndInv, InPlace, Saved, LibraryKept, BackupsAreWhole, Sourced,
                      Held, Idle, RestorePhases
  <2> QED
    BY <2>2, <2>3 DEF IndInv
<1>2. CASE StartService
  <2>1. /\ restore = Idle /\ restore' = Idle /\ service'
        /\ UNCHANGED <<backups, edit, copy, rollback, edits, crashes, faults>>
    BY <1>2 DEF StartService
  <2>2. data' \in Libraries
    BY <1>2, SettledTyped DEF StartService, IndInv, TypeOK, Libraries, Cells, Empty
  <2>3. before' \in Libraries \cup {None} /\ told' = "none"
    BY <1>2 DEF StartService, IndInv, TypeOK
  <2>4. TypeOK' /\ WorkOK' /\ Offline'
    BY <2>1, <2>2, <2>3, NoneAssumption DEF IndInv, TypeOK, WorkOK, Offline
  <2>5. before' # None => before' = before /\ Held(before)
    BY <1>2 DEF StartService, IndInv, LibraryKept, Held
  <2>6. Saved' /\ LibraryKept'
    BY <2>1, <2>5 DEF Saved, LibraryKept, Held
  <2>7. InPlace' /\ BackupsAreWhole' /\ Sourced'
    BY <2>1 DEF IndInv, InPlace, BackupsAreWhole, Sourced, Idle
  <2> QED
    BY <2>4, <2>6, <2>7 DEF IndInv
<1> QED
  BY <1>1, <1>2

(***************************************************************************)
(* A backup is written into an empty directory: what the others hold, and  *)
(* what was validated in them, stays.                                      *)
(***************************************************************************)
LEMMA Filled ==
    ASSUME BackupAssumption, NoneAssumption, TypeOK, BackupsAreWhole,
           NEW n \in Backups, NEW rows \in Cells, NEW files \in Cells,
           Room(n), Written(n, rows, files), Whole([rows |-> rows, files |-> files])
    PROVE  /\ backups' \in [Backups -> BackupDirs \cup {None}]
           /\ \A m \in Backups : backups[m] # None => backups'[m] = backups[m]
           /\ backups'[n] = [rows |-> rows, files |-> files, listed |-> files]
           /\ backups'[n] # None
           /\ BackupsAreWhole'
<1> DEFINE new == [rows |-> rows, files |-> files, listed |-> files]
<1>1. new \in BackupDirs
  BY DEF BackupDirs
<1>2. backups' = [backups EXCEPT ![n] = new]
  BY DEF Written
<1>3. Whole(new)
  BY DEF Whole
<1> QED
  BY <1>1, <1>2, <1>3, NoneAssumption DEF TypeOK, BackupsAreWhole, Room

(***************************************************************************)
(* Taking a backup keeps the invariant: only a copy that holds all its     *)
(* rows name becomes one.                                                  *)
(***************************************************************************)
LEMMA BackupKeeps ==
    ASSUME BackupAssumption, NoneAssumption, IndInv, BackupStep
    PROVE  IndInv'
<1>1. service /\ restore = Idle
  BY Tasks DEF BackupStep, BeginBackup, CopyFile, FinishBackup, BackupFails, IndInv, Offline
<1>2. UNCHANGED <<data, service, edit, restore, rollback, before, told, edits, crashes>>
  BY DEF BackupStep, BeginBackup, CopyFile, FinishBackup, BackupFails
<1>3. /\ copy' \in {Idle} \cup [pc : {"copying"}, rows : Cells, files : Cells, todo : SUBSET Items]
      /\ copy'.pc \in {"idle", "copying"}
  <2>1. CASE BeginBackup
    BY <1>1, <2>1 DEF BeginBackup, IndInv, TypeOK, Libraries, Cells, Empty
  <2>2. ASSUME NEW i \in Items, CopyFile(i)
        PROVE  copy' \in [pc : {"copying"}, rows : Cells, files : Cells, todo : SUBSET Items]
    <3>1. copy \in [pc : {"copying"}, rows : Cells, files : Cells, todo : SUBSET Items]
      BY <2>2, Tasks DEF CopyFile, IndInv, WorkOK, Idle
    <3>2. data.files[i] \in Versions \cup {None}
      BY <1>1 DEF IndInv, TypeOK, Libraries, Cells
    <3> QED
      BY <2>2, <3>1, <3>2 DEF CopyFile, Cells
  <2>3. CASE FinishBackup \/ BackupFails
    BY <2>3 DEF FinishBackup, BackupFails, Idle
  <2> QED
    BY <2>1, <2>2, <2>3 DEF BackupStep
<1>4. faults' \in 0..MaxFaults
  <2>1. UNCHANGED faults \/ Fault
    BY DEF BackupStep, BeginBackup, CopyFile, FinishBackup, BackupFails
  <2> QED
    BY <2>1 DEF Fault, IndInv, TypeOK, BackupAssumption
<1>5. /\ backups' \in [Backups -> BackupDirs \cup {None}]
      /\ \A m \in Backups : backups[m] # None => backups'[m] = backups[m]
      /\ BackupsAreWhole'
  <2>1. CASE UNCHANGED backups
    BY <2>1 DEF IndInv, TypeOK, BackupsAreWhole
  <2>2. CASE FinishBackup
    <3>1. copy.rows \in Cells /\ copy.files \in Cells
      BY <2>2, Tasks DEF FinishBackup, IndInv, WorkOK, Idle
    <3>2. Whole([rows |-> copy.rows, files |-> copy.files])
      BY <2>2 DEF FinishBackup, Whole
    <3>3. PICK n \in Backups : Room(n) /\ Written(n, copy.rows, copy.files)
      BY <2>2 DEF FinishBackup
    <3> QED
      BY <3>1, <3>2, <3>3, Filled DEF IndInv
  <2> QED
    BY <2>1, <2>2 DEF BackupStep, BeginBackup, CopyFile, BackupFails
<1>6. TypeOK' /\ WorkOK' /\ Offline'
  BY <1>1, <1>2, <1>3, <1>4, <1>5 DEF IndInv, TypeOK, WorkOK, Offline
<1>7. InPlace' /\ Saved' /\ LibraryKept' /\ Sourced'
  BY <1>1, <1>2, <1>5 DEF IndInv, InPlace, Saved, LibraryKept, Sourced, Held, Idle
<1> QED
  BY <1>5, <1>6, <1>7 DEF IndInv

-----------------------------------------------------------------------------
(***************************************************************************)
(* A restoration, step by step.  No step touches a backup but the one that *)
(* saves the library first, and none runs with the service.                *)
(***************************************************************************)
LEMMA RestoreShape ==
    ASSUME BackupAssumption, IndInv, RestoreStep
    PROVE  /\ ~service
           /\ UNCHANGED <<service, edit, copy, edits, crashes>>
           /\ faults' \in 0..MaxFaults
           /\ told' \in {"none", "restored", "failed", "stuck"}
           /\ restore' \in {Idle} \cup [pc : RestorePhases, source : Backups]
<1>1. ~service
  BY Tasks DEF RestoreStep, BeginRestore, PreRestore, RestoreFails, MoveAway, Switch, SwitchFails,
               RemoveRollback, EndRestore, CheckFails, RemovalFails, MoveAside, PutBack,
               RemoveAside, WayBackFails, IndInv, Offline, Idle, RestorePhases
<1>2. UNCHANGED <<service, edit, copy, edits, crashes>>
  BY DEF RestoreStep, BeginRestore, PreRestore, RestoreFails, MoveAway, Switch, SwitchFails,
         RemoveRollback, EndRestore, CheckFails, RemovalFails, MoveAside, PutBack,
         RemoveAside, WayBackFails
<1>3. faults' \in 0..MaxFaults
  <2>1. \/ UNCHANGED faults \/ Fault
        \/ faults' \in {faults + 1, faults + 2} /\ faults' <= MaxFaults
    BY DEF RestoreStep, BeginRestore, PreRestore, RestoreFails, MoveAway, Switch, SwitchFails,
           RemoveRollback, EndRestore, CheckFails, RemovalFails, MoveAside, PutBack,
           RemoveAside, WayBackFails
  <2> QED
    BY <2>1 DEF Fault, IndInv, TypeOK, BackupAssumption
<1>4. told' \in {"none", "restored", "failed", "stuck"}
  <2>1. UNCHANGED told \/ told' \in {"none", "restored", "failed", "stuck"}
    BY DEF RestoreStep, BeginRestore, PreRestore, RestoreFails, MoveAway, Switch, SwitchFails,
           RemoveRollback, EndRestore, CheckFails, RemovalFails, MoveAside, PutBack,
           RemoveAside, WayBackFails, Report
  <2> QED
    BY <2>1 DEF IndInv, TypeOK
<1>5. restore' \in {Idle} \cup [pc : RestorePhases, source : Backups]
  <2>1. CASE \E n \in Backups : BeginRestore(n)
    BY <2>1 DEF BeginRestore, RestorePhases
  <2>2. CASE restore # Idle /\ \E pc \in RestorePhases : Goto(pc)
    BY <2>2 DEF Goto, IndInv, WorkOK
  <2>3. CASE restore' = Idle
    BY <2>3
  <2> QED
    BY <2>1, <2>2, <2>3, Tasks
    DEF RestoreStep, PreRestore, RestoreFails, MoveAway, Switch, SwitchFails,
        RemoveRollback, EndRestore, CheckFails, RemovalFails, MoveAside, PutBack,
        RemoveAside, WayBackFails, Report, RestorePhases, IndInv
<1> QED
  BY <1>1, <1>2, <1>3, <1>4, <1>5

(***************************************************************************)
(* With these the phase decides the rest of the type invariant.            *)
(***************************************************************************)
LEMMA RestoreTyped ==
    ASSUME BackupAssumption, NoneAssumption, IndInv, RestoreStep,
           data' \in Libraries \cup {None}, rollback' \in Libraries \cup {None},
           before' \in Libraries \cup {None},
           backups' \in [Backups -> BackupDirs \cup {None}]
    PROVE  TypeOK' /\ WorkOK' /\ Offline'
<1>1. restore'.pc \in {"idle"} \cup RestorePhases
  BY RestoreShape DEF Idle
<1>2. TypeOK'
  BY <1>1, RestoreShape DEF IndInv, TypeOK, RestorePhases
<1>3. WorkOK' /\ Offline'
  BY RestoreShape DEF IndInv, WorkOK, Offline
<1> QED
  BY <1>2, <1>3

(***************************************************************************)
(* The phase after a step, and the backup it works from.                   *)
(***************************************************************************)
LEMMA Phase ==
    ASSUME IndInv, NEW pc \in RestorePhases, Goto(pc), restore.pc \in RestorePhases
    PROVE  /\ restore'.pc = pc /\ restore' # Idle /\ restore # Idle
           /\ restore'.source = restore.source /\ restore.source \in Backups
           /\ backups[restore.source] # None /\ Valid(backups[restore.source])
  BY DEF Goto, IndInv, WorkOK, Sourced, Idle, RestorePhases

(***************************************************************************)
(* The restoration begins with the library in place, and saves it before   *)
(* it touches it.                                                          *)
(***************************************************************************)
LEMMA BeginKeeps ==
    ASSUME BackupAssumption, NoneAssumption, IndInv, NEW n \in Backups, BeginRestore(n)
    PROVE  IndInv'
<1>1. TypeOK' /\ WorkOK' /\ Offline'
  BY RestoreTyped DEF RestoreStep, BeginRestore, IndInv, TypeOK
<1>2. InPlace' /\ Saved' /\ LibraryKept' /\ BackupsAreWhole' /\ Sourced'
  BY DEF BeginRestore, IndInv, InPlace, Saved, LibraryKept, BackupsAreWhole, Sourced, Held, Same,
         Idle, RestorePhases
<1> QED
  BY <1>1, <1>2 DEF IndInv

(***************************************************************************)
(* The pre-restore backup holds the rows and the files of the library that *)
(* is in place, which is the one the restoration began with.               *)
(***************************************************************************)
LEMMA PreRestoreKeeps ==
    ASSUME BackupAssumption, NoneAssumption, IndInv, PreRestore
    PROVE  IndInv'
<1>1. data \in Libraries /\ before # None /\ Same(data, before) /\ Whole(data)
  BY DEF PreRestore, IndInv, TypeOK, InPlace
<1>2. data.rows \in Cells /\ data.files \in Cells
      /\ Whole([rows |-> data.rows, files |-> data.files])
  BY <1>1 DEF Libraries, Whole
<1>3. PICK n \in Backups : Room(n) /\ Written(n, data.rows, data.files)
  BY DEF PreRestore
<1>4. /\ backups' \in [Backups -> BackupDirs \cup {None}]
      /\ \A m \in Backups : backups[m] # None => backups'[m] = backups[m]
      /\ backups'[n] = [rows |-> data.rows, files |-> data.files, listed |-> data.files]
      /\ backups'[n] # None
      /\ BackupsAreWhole'
  BY <1>2, <1>3, Filled DEF IndInv
<1>5. TypeOK' /\ WorkOK' /\ Offline'
  BY <1>4, RestoreTyped DEF RestoreStep, PreRestore, IndInv, TypeOK
<1>6. Held(before)'
  BY <1>1, <1>4 DEF PreRestore, Held, Same
<1>7. Saved' /\ LibraryKept'
  BY <1>6 DEF Saved, LibraryKept, Held
<1>8. InPlace' /\ Sourced'
  BY <1>1, <1>4, Phase DEF PreRestore, InPlace, Sourced, RestorePhases
<1> QED
  BY <1>4, <1>5, <1>7, <1>8 DEF IndInv

(***************************************************************************)
(* From then on a backup holds the library, whatever becomes of the data   *)
(* directory; no later step touches the backups.                           *)
(***************************************************************************)
LEMMA LaterKeeps ==
    ASSUME BackupAssumption, NoneAssumption, IndInv, RestoreStep, UNCHANGED <<backups, before>>,
           restore.pc \in RestorePhases,
           restore.pc = "staged" => UNCHANGED data /\ restore' = Idle,
           data' \in Libraries \cup {None}, rollback' \in Libraries \cup {None},
           InPlace', Sourced'
    PROVE  IndInv'
<1>1. TypeOK' /\ WorkOK' /\ Offline'
  BY RestoreTyped DEF IndInv, TypeOK
<1>2. BackupsAreWhole'
  BY DEF IndInv, BackupsAreWhole
<1>3. CASE restore.pc = "staged"
  <2>1. Saved'
    BY <1>3, RestoreShape DEF Saved, Idle, RestorePhases
  <2>2. LibraryKept'
    BY <1>3 DEF IndInv, LibraryKept
  <2> QED
    BY <1>1, <1>2, <2>1, <2>2 DEF IndInv
<1>4. CASE restore.pc # "staged"
  <2>1. before # None => Held(before)
    BY <1>4 DEF IndInv, Saved
  <2>2. Saved' /\ LibraryKept'
    BY <2>1 DEF Saved, LibraryKept, Held
  <2> QED
    BY <1>1, <1>2, <2>2 DEF IndInv
<1> QED
  BY <1>3, <1>4

(***************************************************************************)
(* Each of the later steps: the phase it leads to, and the directories it  *)
(* leaves.  The way back always has a directory to move.                   *)
(***************************************************************************)
LEMMA LaterSteps ==
    ASSUME BackupAssumption, NoneAssumption, IndInv,
           RestoreStep, ~PreRestore, \A n \in Backups : ~BeginRestore(n)
    PROVE  IndInv'
<1> DEFINE Typed == data' \in Libraries \cup {None} /\ rollback' \in Libraries \cup {None}
<1>1. data \in Libraries \cup {None} /\ rollback \in Libraries \cup {None}
  BY DEF IndInv, TypeOK
<1>2. UNCHANGED <<backups, before>> /\ restore.pc \in RestorePhases
  BY DEF RestoreStep, RestoreFails, MoveAway, Switch, SwitchFails, RemoveRollback, EndRestore,
         CheckFails, RemovalFails, MoveAside, PutBack, RemoveAside, WayBackFails, RestorePhases
<1>3. restore.pc = "staged" => UNCHANGED data /\ restore' = Idle
  BY DEF RestoreStep, RestoreFails, MoveAway, Switch, SwitchFails, RemoveRollback, EndRestore,
         CheckFails, RemovalFails, MoveAside, PutBack, RemoveAside, WayBackFails, Report
<1>4. ASSUME restore' = Idle PROVE InPlace' /\ Sourced'
  BY <1>4 DEF InPlace, Sourced, Idle
<1>5. CASE RestoreFails
  <2>1. restore' = Idle /\ Typed
    BY <1>1, <1>5 DEF RestoreFails, Report
  <2> QED
    BY <1>2, <1>3, <1>4, <2>1, LaterKeeps
<1>6. CASE MoveAway
  <2>1. Typed /\ InPlace' /\ Sourced'
    BY <1>1, <1>6, Phase DEF MoveAway, InPlace, Sourced, IndInv, RestorePhases
  <2> QED
    BY <1>2, <1>3, <2>1, LaterKeeps
<1>7. CASE Switch
  <2>1. /\ restore'.pc = "switched" /\ restore'.source = restore.source
        /\ restore.source \in Backups
        /\ backups[restore.source] # None /\ Valid(backups[restore.source])
    BY <1>7, Phase DEF Switch, RestorePhases
  <2>2. data' = Restored(restore.source) /\ data' \in Libraries
    BY <1>7, <2>1, RestoredTyped DEF Switch, IndInv
  <2>3. Typed /\ InPlace'
    BY <1>1, <1>7, <2>1, <2>2 DEF Switch, InPlace, IndInv
  <2>4. Sourced'
    BY <1>2, <2>1, <2>2 DEF Sourced, Restored
  <2> QED
    BY <1>2, <1>3, <2>3, <2>4, LaterKeeps
<1>8. CASE SwitchFails
  <2>1. restore' = Idle /\ Typed
    BY <1>1, <1>8 DEF SwitchFails, Report
  <2> QED
    BY <1>2, <1>3, <1>4, <2>1, LaterKeeps
<1>9. CASE RemoveRollback \/ CheckFails
  <2>1. \E pc \in {"done", "failing"} : Goto(pc) /\ (pc = "failing" => UNCHANGED rollback)
    BY <1>9 DEF RemoveRollback, CheckFails
  <2>2. restore.pc = "switched" /\ UNCHANGED data /\ Typed
    BY <1>1, <1>9 DEF RemoveRollback, CheckFails
  <2>3. InPlace'
    BY <2>1, <2>2, Phase DEF InPlace, IndInv, RestorePhases
  <2>4. Sourced'
    BY <1>2, <2>1, <2>2, Phase DEF Sourced, IndInv, RestorePhases, Restored
  <2> QED
    BY <1>2, <1>3, <2>2, <2>3, <2>4, LaterKeeps
<1>10. CASE EndRestore \/ RemoveAside \/ WayBackFails
  <2>1. restore' = Idle /\ Typed
    BY <1>1, <1>10 DEF EndRestore, RemoveAside, WayBackFails, Report
  <2> QED
    BY <1>2, <1>3, <1>4, <2>1, LaterKeeps
<1>11. CASE RemovalFails
  <2>1. rollback \in Libraries
    BY <1>1, <1>11 DEF RemovalFails, IndInv, InPlace
  <2>2. rollback' \in Libraries
    <3>1. PICK gone \in SUBSET Items, rows \in {rollback.rows, Empty} :
              rollback' = [rollback EXCEPT !.rows = rows,
                               !.files = [i \in Items |-> IF i \in gone THEN None ELSE @[i]]]
      BY <1>11 DEF RemovalFails
    <3>2. rows \in Cells
      BY <2>1 DEF Libraries, Cells, Empty
    <3> QED
      BY <2>1, <3>1, <3>2 DEF Libraries, Cells
  <2>3. restore.pc = "switched" /\ Goto("failing") /\ UNCHANGED data
    BY <1>11 DEF RemovalFails
  <2>4. InPlace' /\ Sourced'
    BY <1>2, <2>2, <2>3, Phase, NoneAssumption DEF InPlace, Sourced, RestorePhases
  <2> QED
    BY <1>1, <1>2, <1>3, <2>2, <2>3, <2>4, LaterKeeps
<1>12. CASE MoveAside
  <2>1. Typed /\ InPlace' /\ Sourced'
    BY <1>1, <1>2, <1>12, Phase DEF MoveAside, InPlace, Sourced, IndInv, RestorePhases
  <2> QED
    BY <1>2, <1>3, <2>1, LaterKeeps
<1>13. CASE PutBack
  <2>1. Typed /\ InPlace' /\ Sourced'
    BY <1>1, <1>2, <1>13, Phase DEF PutBack, InPlace, Sourced, IndInv, RestorePhases
  <2> QED
    BY <1>2, <1>3, <2>1, LaterKeeps
<1> QED
  BY <1>5, <1>6, <1>7, <1>8, <1>9, <1>10, <1>11, <1>12, <1>13 DEF RestoreStep

(***************************************************************************)
(* Service and script die: the backups and the data directory stay.        *)
(***************************************************************************)
LEMMA CrashKeeps ==
    ASSUME BackupAssumption, NoneAssumption, IndInv, Crash
    PROVE  IndInv'
<1>1. TypeOK' /\ WorkOK' /\ Offline'
  <2>1. crashes' \in 0..MaxCrashes
    BY DEF Crash, IndInv, TypeOK, BackupAssumption
  <2>2. TypeOK'
    BY <2>1 DEF Crash, IndInv, TypeOK, Idle
  <2> QED
    BY <2>2 DEF Crash, IndInv, WorkOK, Tasked, Offline
<1>2. InPlace' /\ Saved' /\ LibraryKept' /\ BackupsAreWhole' /\ Sourced'
  BY DEF Crash, IndInv, InPlace, Saved, LibraryKept, BackupsAreWhole, Sourced, Idle, RestorePhases
<1> QED
  BY <1>1, <1>2 DEF IndInv

(***************************************************************************)
(* Every step keeps the invariant.                                         *)
(***************************************************************************)
LEMMA Keeps ==
    ASSUME BackupAssumption, NoneAssumption, IndInv, [Next]_vars
    PROVE  IndInv'
<1>1. CASE EditStep
  BY <1>1, EditKeeps
<1>2. CASE StopService \/ StartService
  BY <1>2, ServiceKeeps
<1>3. CASE BackupStep
  BY <1>3, BackupKeeps
<1>4. CASE RestoreStep
  BY <1>4, BeginKeeps, PreRestoreKeeps, LaterSteps
<1>5. CASE Crash
  BY <1>5, CrashKeeps
<1>6. CASE UNCHANGED vars
  BY <1>6 DEF vars, IndInv, TypeOK, WorkOK, Offline, InPlace, Saved, LibraryKept, BackupsAreWhole,
              Sourced, Held, Restored
<1> QED
  BY <1>1, <1>2, <1>3, <1>4, <1>5, <1>6 DEF Next

-----------------------------------------------------------------------------
(***************************************************************************)
(* The invariant holds of every behaviour.                                 *)
(***************************************************************************)
THEOREM Invariance == Spec => []IndInv
<1>1. Init => IndInv
  BY Initially, BackupAssumption, NoneAssumption
<1>2. IndInv /\ [Next]_vars => IndInv'
  BY Keeps, BackupAssumption, NoneAssumption
<1> QED
  BY <1>1, <1>2, PTL DEF Spec

(***************************************************************************)
(* Directories, backups, tasks and counters keep their types.              *)
(***************************************************************************)
THEOREM Typing == Spec => []TypeOK
<1>1. IndInv => TypeOK
  BY DEF IndInv
<1> QED
  BY <1>1, Invariance, PTL

(***************************************************************************)
(* Every backup create_backup has finished holds every file its own rows   *)
(* name, whatever was imported, edited or deleted while it was copied.     *)
(***************************************************************************)
THEOREM FinishedBackupsAreWhole == Spec => []BackupsAreWhole
<1>1. IndInv => BackupsAreWhole
  BY DEF IndInv
<1> QED
  BY <1>1, Invariance, PTL

(***************************************************************************)
(* No crash and no failure of a restoration, or of its way back, loses the *)
(* library it began with.                                                  *)
(***************************************************************************)
THEOREM RestorationLosesNothing == Spec => []LibraryKept
<1>1. IndInv => LibraryKept
  BY DEF IndInv
<1> QED
  BY <1>1, Invariance, PTL

(***************************************************************************)
(* A restoration reported as done put a whole library in place, the very   *)
(* one the manifest of its backup lists.                                   *)
(***************************************************************************)
THEOREM ReportedRestorationIsTheBackup == Spec => []RestoredIsBackup
<1>1. IndInv => RestoredIsBackup
  BY DEF IndInv, Sourced, RestoredIsBackup, Restored, Valid, Whole, Idle
<1> QED
  BY <1>1, Invariance, PTL

(***************************************************************************)
(* No step changes or removes a finished backup: what it held once it      *)
(* holds for good, the restoration that reads it included.                 *)
(***************************************************************************)
THEOREM FinishedBackupsStay ==
    Spec => [][\A n \in Backups : backups[n] # None => backups'[n] = backups[n]]_vars
<1> DEFINE Stay == \A n \in Backups : backups[n] # None => backups'[n] = backups[n]
<1>1. ASSUME IndInv, Next PROVE Stay
  <2>1. CASE UNCHANGED backups
    BY <2>1
  <2>2. ASSUME NEW n \in Backups, NEW rows, NEW files, Room(n), Written(n, rows, files)
        PROVE  Stay
    BY <2>2, <1>1 DEF Room, Written, IndInv, TypeOK
  <2>3. CASE FinishBackup \/ PreRestore
    BY <2>2, <2>3 DEF FinishBackup, PreRestore
  <2>4. UNCHANGED backups \/ FinishBackup \/ PreRestore
    BY <1>1 DEF Next, EditStep, StoreFile, StoreRow, ClearRow, ClearFile, MoveFile, DeleteRow,
                MoveBack, Edits, Ends, StopService, StartService, BackupStep, BeginBackup, CopyFile,
                BackupFails, RestoreStep, BeginRestore, RestoreFails, MoveAway, Switch, SwitchFails,
                RemoveRollback, EndRestore, CheckFails, RemovalFails, MoveAside, PutBack,
                RemoveAside, WayBackFails, Crash
  <2> QED
    BY <2>1, <2>3, <2>4
<1> QED
  BY <1>1, Invariance, PTL DEF Spec
=============================================================================
