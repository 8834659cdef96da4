----------------------------- MODULE BackupRestore -----------------------------
(***************************************************************************)
(* Backups of the data directory taken while the service is in use, and    *)
(* the offline restoration of one of them (src/src/backup_service.py,      *)
(* src/scripts/restore_backup.py).                                         *)
(*                                                                         *)
(* A backup takes one snapshot of the database and then copies the files   *)
(* one by one, while sessions import, edit and delete.  A restoration      *)
(* swaps the whole directory by renames and must bring the old one back    *)
(* when anything fails; the process can die between any two of them.       *)
(***************************************************************************)
EXTENDS Naturals, FiniteSets

CONSTANTS
    Items,      \* paths a row can name: originals, page images, Markdown
    Originals,  \* those whose content the row fixes by its SHA-256
    Versions,   \* contents
    First,      \* the content of an original
    None,       \* no row, no file, no directory
    Backups,    \* numbers of the backup directories
    MaxEdits,   \* changes made in the service
    MaxCrashes, MaxFaults

ASSUME BackupAssumption ==
    /\ Originals \subseteq Items
    /\ First \in Versions /\ None \notin Versions
    /\ Backups \subseteq Nat /\ 1 \in Backups
    /\ MaxEdits \in Nat /\ MaxCrashes \in Nat /\ MaxFaults \in Nat

VARIABLES
    data,      \* the data directory
    backups,   \* the finished backups
    service,   \* is the service running?
    edit,      \* the change a session is making
    copy,      \* the backup a session is making
    restore,   \* the restoration under way
    rollback,  \* the data directory it moved away
    before,    \* ghost: the data directory a restoration began with
    told,      \* what the last restoration reported
    edits, crashes, faults

vars == <<data, backups, service, edit, copy, restore, rollback, before, told, edits, crashes,
          faults>>

Cells == [Items -> Versions \cup {None}]
Empty == [i \in Items |-> None]

(* rows: what the rows name, with the content they were written for.
   held: files a deletion has moved to the quarantine. *)
Libraries == [rows : Cells, files : Cells, held : Cells]

(* listed: the hashes in the manifest. *)
BackupDirs == [rows : Cells, files : Cells, listed : Cells]

ASSUME NoneAssumption == None \notin Libraries /\ None \notin BackupDirs

Idle == [pc |-> "idle"]

Same(x, y) == x.rows = y.rows /\ x.files = y.files

Fault == /\ faults < MaxFaults
         /\ faults' = faults + 1

(***************************************************************************)
(* _validate_database_asset_links: every file a row names is there, and    *)
(* the original is the one the row was made for.                           *)
(***************************************************************************)
Whole(x) ==
    \A i \in Items : x.rows[i] # None =>
        /\ x.files[i] # None
        /\ i \in Originals => x.files[i] = x.rows[i]

(* Mutant: the files are not compared with the manifest. *)
ValidUnhashed(b) == Whole(b)

Valid(b) == b.files = b.listed /\ Whole(b)

-----------------------------------------------------------------------------
(***************************************************************************)
(* The service: changes that write a row and a file one after the other.   *)
(***************************************************************************)
MayEdit == service /\ edit = Idle /\ edits < MaxEdits

Edits(e, library) ==
    /\ edits' = edits + 1
    /\ edit' = e
    /\ data' = library
    /\ UNCHANGED <<backups, service, copy, restore, rollback, before, told, crashes,
                   faults>>

(* The second write of a change. *)
Ends(library) ==
    /\ edit' = Idle
    /\ data' = library
    /\ UNCHANGED <<backups, service, copy, restore, rollback, before, told, edits,
                   crashes, faults>>

(* An import or a save: the file, then the row. *)
StoreFile(i, v) ==
    /\ MayEdit
    /\ i \in Originals => v = First /\ data.rows[i] = None
    /\ Edits([pc |-> "storing", item |-> i, content |-> v], [data EXCEPT !.files[i] = v])

StoreRow ==
    /\ edit.pc = "storing"
    /\ Ends([data EXCEPT !.rows[edit.item] = edit.content])

(* Clearing a text: the row, then the file. *)
ClearRow(i) ==
    /\ MayEdit
    /\ i \notin Originals /\ data.rows[i] # None
    /\ Edits([pc |-> "clearing", item |-> i], [data EXCEPT !.rows[i] = None])

ClearFile ==
    /\ edit.pc = "clearing"
    /\ Ends([data EXCEPT !.files[edit.item] = None])

(* A deletion moves the file away, deletes the row, then removes the file. *)
MoveFile(i) ==
    /\ MayEdit
    /\ data.rows[i] # None /\ data.files[i] # None
    /\ Edits([pc |-> "deleting", item |-> i],
             [data EXCEPT !.files[i] = None, !.held[i] = data.files[i]])

DeleteRow ==
    /\ edit.pc = "deleting"
    /\ Ends([data EXCEPT !.rows[edit.item] = None, !.held[edit.item] = None])

MoveBack ==
    /\ edit.pc = "deleting"
    /\ Ends([data EXCEPT !.files[edit.item] = data.held[edit.item], !.held[edit.item] = None])

(***************************************************************************)
(* The service stops, and starts with empty directories where there are    *)
(* none; an interrupted deletion is settled.                               *)
(***************************************************************************)
StopService ==
    /\ service /\ edit = Idle /\ copy = Idle
    /\ service' = FALSE
    /\ UNCHANGED <<data, backups, edit, copy, restore, rollback, before, told, edits, crashes,
                   faults>>

Settled(x) ==
    [x EXCEPT !.files = [i \in Items |-> IF x.rows[i] # None /\ x.files[i] = None
                                         THEN x.held[i] ELSE x.files[i]],
              !.held = Empty]

StartService ==
    /\ ~service /\ restore = Idle
    /\ service' = TRUE
    /\ data' = IF data = None THEN [rows |-> Empty, files |-> Empty, held |-> Empty]
                              ELSE Settled(data)
    /\ before' = IF before # None /\ data # None /\ Same(data, before) THEN None ELSE before
    /\ told' = "none"
    /\ UNCHANGED <<backups, edit, copy, restore, rollback, edits, crashes, faults>>

-----------------------------------------------------------------------------
(***************************************************************************)
(* create_backup                                                           *)
(***************************************************************************)
Room(n) == n \in Backups /\ backups[n] = None /\ \A m \in Backups : m < n => backups[m] # None

BeginBackup ==
    /\ service /\ copy = Idle
    /\ \E n \in Backups : Room(n)
    /\ copy' = [pc |-> "copying", rows |-> data.rows, files |-> Empty, todo |-> Items]
    /\ UNCHANGED <<data, backups, service, edit, restore, rollback, before, told, edits, crashes,
                   faults>>

(* A file that is not there when the directory is listed is not copied. *)
CopyFile(i) ==
    /\ copy.pc = "copying"
    /\ i \in copy.todo
    /\ copy' = [copy EXCEPT !.files[i] = data.files[i], !.todo = @ \ {i}]
    /\ UNCHANGED <<data, backups, service, edit, restore, rollback, before, told, edits, crashes,
                   faults>>

Written(n, rows, files) ==
    backups' = [backups EXCEPT ![n] = [rows |-> rows, files |-> files, listed |-> files]]

(* Mutant: what the rows name is not looked for. *)
FinishBackupUnlinked ==
    /\ copy.pc = "copying" /\ copy.todo = {}
    /\ \E n \in Backups : Room(n) /\ Written(n, copy.rows, copy.files)
    /\ copy' = Idle
    /\ UNCHANGED <<data, service, edit, restore, rollback, before, told, edits, crashes,
                   faults>>

FinishBackup ==
    /\ copy.pc = "copying" /\ copy.todo = {}
    /\ Whole(copy)
    /\ \E n \in Backups : Room(n) /\ Written(n, copy.rows, copy.files)
    /\ copy' = Idle
    /\ UNCHANGED <<data, service, edit, restore, rollback, before, told, edits, crashes,
                   faults>>

(* A file is missing, a listed file is gone, or an error. *)
BackupFails ==
    /\ copy.pc = "copying"
    /\ \/ copy.todo = {} /\ ~Whole(copy) /\ UNCHANGED faults
       \/ (\E i \in copy.todo : data.files[i] = None) /\ UNCHANGED faults
       \/ Fault
    /\ copy' = Idle
    /\ UNCHANGED <<data, backups, service, edit, restore, rollback, before, told, edits,
                   crashes>>

-----------------------------------------------------------------------------
(***************************************************************************)
(* restore_backup, with the service stopped                                *)
(***************************************************************************)
Goto(pc) == restore' = [restore EXCEPT !.pc = pc]
Report(answer) == restore' = Idle /\ told' = answer

(* Refused without a write if the backup is not valid, the service is
   running or there is no database.  All files are staged and verified. *)
BeginRestore(n) ==
    /\ restore = Idle /\ ~service /\ data # None
    /\ backups[n] # None /\ Valid(backups[n])
    /\ restore' = [pc |-> "staged", source |-> n]
    /\ before' = data
    /\ told' = "none"
    /\ rollback' = None
    /\ UNCHANGED <<data, backups, service, edit, copy, edits, crashes, faults>>

(* Mutant: a library that is not whole is not backed up. *)
PreRestoreIfWhole ==
    /\ restore.pc = "staged"
    /\ IF Whole(data) THEN \E n \in Backups : Room(n) /\ Written(n, data.rows, data.files)
                      ELSE UNCHANGED backups
    /\ Goto("saved")
    /\ UNCHANGED <<data, service, edit, copy, rollback, before, told, edits, crashes,
                   faults>>

(* The pre-restore backup is created like any other. *)
PreRestore ==
    /\ restore.pc = "staged"
    /\ Whole(data)
    /\ \E n \in Backups : Room(n) /\ Written(n, data.rows, data.files)
    /\ Goto("saved")
    /\ UNCHANGED <<data, service, edit, copy, rollback, before, told, edits, crashes,
                   faults>>

RestoreFails ==
    /\ \/ restore.pc = "staged" /\ ~Whole(data) /\ UNCHANGED faults
       \/ restore.pc \in {"staged", "saved"} /\ Fault
    /\ Report("failed")
    /\ UNCHANGED <<data, backups, service, edit, copy, rollback, before, edits, crashes>>

MoveAway ==
    /\ restore.pc = "saved"
    /\ rollback' = data
    /\ data' = None
    /\ Goto("moved")
    /\ UNCHANGED <<backups, service, edit, copy, before, told, edits, crashes, faults>>

Restored(n) == [rows |-> backups[n].rows, files |-> backups[n].files, held |-> Empty]

Switch ==
    /\ restore.pc = "moved"
    /\ data' = Restored(restore.source)
    /\ Goto("switched")
    /\ UNCHANGED <<backups, service, edit, copy, rollback, before, told, edits, crashes,
                   faults>>

(* The old directory is moved back at once; if that fails too, the report
   is the same. *)
SwitchFails ==
    /\ restore.pc = "moved"
    /\ \/ faults' = faults + 1 /\ data' = rollback /\ rollback' = None
       \/ faults' = faults + 2 /\ UNCHANGED <<data, rollback>>
    /\ faults' <= MaxFaults
    /\ Report("failed")
    /\ UNCHANGED <<backups, service, edit, copy, before, edits, crashes>>

(* The restored directory is checked, then the old one removed. *)
RemoveRollback ==
    /\ restore.pc = "switched"
    /\ rollback' = None
    /\ told' = "restored"
    /\ Goto("done")
    /\ UNCHANGED <<data, backups, service, edit, copy, before, edits, crashes, faults>>

EndRestore ==
    /\ restore.pc = "done"
    /\ restore' = Idle
    /\ UNCHANGED <<data, backups, service, edit, copy, rollback, before, told, edits, crashes,
                   faults>>

(* The check of the restored directory fails. *)
CheckFails ==
    /\ restore.pc = "switched"
    /\ Fault
    /\ Goto("failing")
    /\ UNCHANGED <<data, backups, service, edit, copy, rollback, before, told, edits,
                   crashes>>

(* The removal stops halfway: the database or some files are already gone. *)
RemovalFails ==
    /\ restore.pc = "switched"
    /\ Fault
    /\ \E gone \in SUBSET Items, rows \in {rollback.rows, Empty} :
          rollback' = [rollback EXCEPT !.rows = rows,
                                       !.files = [i \in Items |-> IF i \in gone THEN None ELSE @[i]]]
    /\ Goto("failing")
    /\ UNCHANGED <<data, backups, service, edit, copy, before, told, edits, crashes>>

(***************************************************************************)
(* The way back: the restored directory is moved aside, the old one moved  *)
(* to its place, the other removed.                                        *)
(***************************************************************************)
MoveAside ==
    /\ restore.pc = "failing"
    /\ data' = None
    /\ Goto("aside")
    /\ UNCHANGED <<backups, service, edit, copy, rollback, before, told, edits, crashes,
                   faults>>

PutBack ==
    /\ restore.pc = "aside"
    /\ data' = rollback
    /\ rollback' = None
    /\ Goto("back")
    /\ UNCHANGED <<backups, service, edit, copy, before, told, edits, crashes, faults>>

RemoveAside ==
    /\ restore.pc = "back"
    /\ Report("failed")
    /\ UNCHANGED <<data, backups, service, edit, copy, rollback, before, edits, crashes,
                   faults>>

WayBackFails ==
    /\ restore.pc \in {"failing", "aside", "back"}
    /\ Fault
    /\ Report("stuck")
    /\ UNCHANGED <<data, backups, service, edit, copy, rollback, before, edits, crashes>>

-----------------------------------------------------------------------------
(* Service and script die.  A rollback directory left behind is never read. *)
Crash ==
    /\ crashes < MaxCrashes
    /\ crashes' = crashes + 1
    /\ service' = FALSE
    /\ edit' = Idle /\ copy' = Idle /\ restore' = Idle
    /\ rollback' = None
    /\ UNCHANGED <<data, backups, before, told, edits, faults>>

(* A library without interrupted work, and a backup of other content that
   may have been damaged since. *)
Init ==
    /\ data \in {x \in Libraries : x.held = Empty /\ x.files = x.rows
                                   /\ \A i \in Originals : x.rows[i] \in {First, None}}
    /\ \E damaged \in Cells :
          /\ Cardinality({i \in Items : damaged[i] # First}) <= 1
          /\ backups = [n \in Backups |->
                 IF n = 1 THEN [rows |-> [i \in Items |-> First], files |-> damaged,
                                 listed |-> [i \in Items |-> First]]
                           ELSE None]
    /\ service = TRUE
    /\ edit = Idle /\ copy = Idle /\ restore = Idle
    /\ rollback = None /\ before = None /\ told = "none"
    /\ edits = 0 /\ crashes = 0 /\ faults = 0

EditStep ==
    \/ \E i \in Items : (\E v \in Versions : StoreFile(i, v)) \/ ClearRow(i) \/ MoveFile(i)
    \/ StoreRow \/ ClearFile \/ DeleteRow \/ MoveBack

BackupStep ==
    BeginBackup \/ (\E i \in Items : CopyFile(i)) \/ FinishBackup \/ BackupFails

RestoreStep ==
    \/ \E n \in Backups : BeginRestore(n)
    \/ PreRestore \/ RestoreFails \/ MoveAway \/ Switch \/ SwitchFails
    \/ RemoveRollback \/ EndRestore \/ CheckFails \/ RemovalFails
    \/ MoveAside \/ PutBack \/ RemoveAside \/ WayBackFails

Next == EditStep \/ StopService \/ StartService \/ BackupStep \/ RestoreStep \/ Crash

Spec == Init /\ [][Next]_vars

-----------------------------------------------------------------------------
TypeOK ==
    /\ data \in Libraries \cup {None}
    /\ backups \in [Backups -> BackupDirs \cup {None}]
    /\ service \in BOOLEAN /\ (service => data # None)
    /\ edit.pc \in {"idle", "storing", "clearing", "deleting"}
    /\ copy.pc \in {"idle", "copying"}
    /\ restore.pc \in {"idle", "staged", "saved", "moved", "switched", "done", "failing", "aside",
                       "back"}
    /\ rollback \in Libraries \cup {None} /\ before \in Libraries \cup {None}
    /\ told \in {"none", "restored", "failed", "stuck"}
    /\ edits \in 0..MaxEdits /\ crashes \in 0..MaxCrashes /\ faults \in 0..MaxFaults

(***************************************************************************)
(* A backup that was finished while sessions imported, edited and deleted  *)
(* holds every file that its own rows name, so that it can be restored.    *)
(***************************************************************************)
BackupsAreWhole ==
    \A n \in Backups : backups[n] # None /\ backups[n].files = backups[n].listed
                           => Whole(backups[n])

(***************************************************************************)
(* From the moment a restoration begins the library it began with is never *)
(* without a copy: it is in place, or a backup holds its rows and files.   *)
(* No crash and no failure, of the way back either, loses it.              *)
(***************************************************************************)
LibraryKept ==
    before # None =>
        \/ data # None /\ Same(data, before)
        \/ \E n \in Backups : backups[n] # None /\ Same(backups[n], before)

(***************************************************************************)
(* A restoration that reports success has put the very library in place    *)
(* that was backed up, although the backup may have been damaged since.    *)
(***************************************************************************)
RestoredIsBackup ==
    restore.pc = "done" =>
        /\ data.rows = backups[restore.source].rows
        /\ data.files = backups[restore.source].listed
        /\ Whole(data)

(***************************************************************************)
(* A restoration that failed has "kept the original data"                  *)
(* (src/src/backup_service.py:364): they are in place as they were.  It    *)
(* does not hold when their removal stops halfway (README, section 3).     *)
(***************************************************************************)
FailedRestoreKeepsData == told = "failed" => data # None /\ Same(data, before)
=============================================================================
