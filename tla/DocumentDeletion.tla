-------------------------- MODULE DocumentDeletion --------------------------
(***************************************************************************)
(* The staged deletion of an imported document                             *)
(* (src/src/document_deletion_service.py) and the reconciliation of        *)
(* interrupted deletions (src/src/deletion_recovery.py).                   *)
(*                                                                         *)
(* A deletion quarantines the document's files one rename at a time under  *)
(* an operation directory, deletes the database rows in one transaction,   *)
(* and only then removes the directory, entry by entry.  Every step may    *)
(* fail, and the process may die between any two of them.  Reconciliation  *)
(* later decides from the manifest, the files and the document row whether *)
(* to put the files back or to finish the deletion.                        *)
(*                                                                         *)
(* Sessions are the Streamlit script threads of one process.  The code     *)
(* takes no lock between them; Overlap says which kinds of work the users  *)
(* start in one session while another session is still at work.            *)
(***************************************************************************)
EXTENDS Naturals, FiniteSets

CONSTANTS
    Docs,        \* document ids (AUTOINCREMENT: an id is used once)
    Paths,       \* recorded file paths
    FilesOf,     \* [Docs -> SUBSET Paths]: the files a document records
    Editable,    \* the paths rewritten by saving Markdown; the others never change
    Contents,    \* file contents, which SHA-256 tells apart
    RawContent,  \* the content of every file that is not editable
    Missing,     \* there is no file
    NoManifest,  \* the directory has no manifest.json
    Ops,         \* names of operation directories
    Sessions,
    Overlap,     \* kinds of work started while another session works
    MaxCrashes, MaxFaults

Kinds == {"import", "edit", "delete", "reconcile"}

Cell == Contents \cup {Missing}
Manifests == [doc : Docs, hash : [Paths -> Cell]]

ASSUME DeletionAssumption ==
    /\ FilesOf \in [Docs -> SUBSET Paths]
    /\ Editable \subseteq Paths
    /\ RawContent \in Contents
    /\ Missing \notin Contents
    /\ NoManifest \notin Manifests
    /\ \A d, e \in Docs : d # e => FilesOf[d] \cap FilesOf[e] \cap Editable = {}
    /\ Overlap \subseteq Kinds
    /\ Docs # {} /\ Ops # {}
    /\ MaxCrashes \in Nat /\ MaxFaults \in Nat

VARIABLES
    documents,   \* ids with a row in the documents table
    usedIds,     \* ids ever given out
    original,    \* path -> content at the recorded path
    saved,       \* ghost: path -> what its document last stored there
    dirs,        \* operation directories that exist
    manifest,    \* op -> its manifest.json
    quarantine,  \* op -> path -> content under op-<id>/files
    pc, op, plan, todo, bad, queue,  \* the work of each session
    contended,   \* history: the files of documents two sessions were at work on at once
    crashes, faults

store == <<documents, usedIds, original, saved>>
area == <<dirs, manifest, quarantine>>
work == <<pc, op, plan, todo, bad, queue>>
vars == <<documents, usedIds, original, saved, dirs, manifest, quarantine,
          pc, op, plan, todo, bad, queue, contended, crashes, faults>>

Empty == [p \in Paths |-> Missing]

DeletePhases == {"prepared", "moving", "deleting", "restoring", "purging"}
ReconcilePhases == {"scan", "recovering", "verifying", "clearing"}
Phases == {"idle"} \cup DeletePhases \cup ReconcilePhases

(***************************************************************************)
(* The files a manifest lists.                                             *)
(***************************************************************************)
Planned(m) == {p \in Paths : m.hash[p] # Missing}

Present(d) == {p \in FilesOf[d] : original[p] # Missing}

(***************************************************************************)
(* What the users do: work of kind k starts in session s.                  *)
(***************************************************************************)
MayStart(s, k) ==
    /\ pc[s] = "idle"
    /\ k \in Overlap \/ \A t \in Sessions \ {s} : pc[t] = "idle"

(***************************************************************************)
(* An I/O or database error nobody caused: at most MaxFaults of them.      *)
(***************************************************************************)
Fault == /\ faults < MaxFaults
         /\ faults' = faults + 1

NoFault == faults' = faults

(***************************************************************************)
(* Session s goes to a phase with the files f still to treat.              *)
(***************************************************************************)
Goto(s, phase, f) ==
    /\ pc' = [pc EXCEPT ![s] = phase]
    /\ todo' = [todo EXCEPT ![s] = f]

(***************************************************************************)
(* Session s is done with an operation: its local variables are gone.      *)
(***************************************************************************)
AnyOp == CHOOSE o \in Ops : TRUE
NoPlan == [doc |-> CHOOSE d \in Docs : TRUE, hash |-> Empty]

Leave(s, phase) ==
    /\ Goto(s, phase, {})
    /\ op' = [op EXCEPT ![s] = AnyOp]
    /\ plan' = [plan EXCEPT ![s] = NoPlan]
    /\ bad' = [bad EXCEPT ![s] = FALSE]

Treated(s, p) == todo' = [todo EXCEPT ![s] = @ \ {p}]

SetOriginal(p, c) == original' = [original EXCEPT ![p] = c]
SetHeld(o, p, c) == quarantine' = [quarantine EXCEPT ![o][p] = c]

(***************************************************************************)
(* Session s is at work on an operation.                                   *)
(***************************************************************************)
Engaged(s) == pc[s] \notin {"idle", "scan"}

(***************************************************************************)
(* Session s turns to document d; when another session is at work on it,   *)
(* the code of neither notices.                                            *)
(***************************************************************************)
Contend(s, d) ==
    contended' = IF \E t \in Sessions \ {s} : Engaged(t) /\ plan[t].doc = d
                 THEN contended \cup FilesOf[d]
                 ELSE contended

-----------------------------------------------------------------------------
(***************************************************************************)
(* The library around the deletion: importing a document and saving the    *)
(* Markdown of one of its pages.  Both are one step here; their own steps  *)
(* belong to other modules.                                                *)
(***************************************************************************)

(* documents.sha256 is UNIQUE: no living document records the same PDF. *)
Import(s, d) ==
    /\ MayStart(s, "import")
    /\ d \notin usedIds
    /\ \A e \in documents : FilesOf[d] \cap FilesOf[e] = {}
    /\ documents' = documents \cup {d}
    /\ usedIds' = usedIds \cup {d}
    /\ LET fixed == FilesOf[d] \ Editable
       IN  /\ original' = [p \in Paths |-> IF p \in fixed THEN RawContent ELSE original[p]]
           /\ saved' = [p \in Paths |-> IF p \in fixed THEN RawContent ELSE saved[p]]
    /\ UNCHANGED <<dirs, manifest, quarantine, pc, op, plan, todo, bad, queue,
                   contended, crashes, faults>>

SaveMarkdown(s, d, p, c) ==
    /\ MayStart(s, "edit")
    /\ d \in documents
    /\ p \in FilesOf[d] \cap Editable
    /\ SetOriginal(p, c)
    /\ saved' = [saved EXCEPT ![p] = c]
    /\ Contend(s, d)
    /\ UNCHANGED <<documents, usedIds, dirs, manifest, quarantine, pc, op, plan, todo,
                   bad, queue, crashes, faults>>

-----------------------------------------------------------------------------
(***************************************************************************)
(* delete_document                                                         *)
(***************************************************************************)

(* uuid4: a name no directory has and no session remembers. *)
Fresh(o) ==
    /\ o \notin dirs
    /\ \A t \in Sessions : (Engaged(t) => op[t] # o) /\ o \notin queue[t]

(* Preview, then mkdir.  Only the files present now will be moved. *)
BeginDelete(s, d, o) ==
    /\ MayStart(s, "delete")
    /\ d \in documents
    /\ Fresh(o)
    /\ dirs' = dirs \cup {o}
    /\ op' = [op EXCEPT ![s] = o]
    /\ plan' = [plan EXCEPT ![s] = [doc |-> d, hash |-> Empty]]
    /\ Goto(s, "prepared", Present(d))
    /\ bad' = [bad EXCEPT ![s] = FALSE]
    /\ Contend(s, d)
    /\ UNCHANGED <<store, manifest, quarantine, queue, crashes, faults>>

(* sha256_file raises outside any handler: the directory stays, without a
   manifest. *)
HashFails(s) ==
    /\ pc[s] = "prepared"
    /\ \/ Fault
       \/ /\ \E p \in todo[s] : original[p] = Missing
          /\ NoFault
    /\ Leave(s, "idle")
    /\ UNCHANGED <<store, area, queue, contended, crashes>>

WriteManifest(s) ==
    LET hashed == [p \in Paths |-> IF p \in todo[s] THEN original[p] ELSE Missing]
        m == [doc |-> plan[s].doc, hash |-> hashed]
    IN  /\ pc[s] = "prepared"
        /\ \A p \in todo[s] : original[p] # Missing
        /\ op[s] \in dirs
        /\ plan' = [plan EXCEPT ![s] = m]
        /\ manifest' = [manifest EXCEPT ![op[s]] = m]
        /\ pc' = [pc EXCEPT ![s] = "moving"]
        /\ UNCHANGED <<store, dirs, quarantine, op, todo, bad, queue, contended, crashes,
                       faults>>

(* The manifest cannot be written: the directory is removed, or kept when
   that fails too. *)
ManifestFails(s) ==
    /\ pc[s] = "prepared"
    /\ Fault
    /\ dirs' \in {dirs, dirs \ {op[s]}}
    /\ Leave(s, "idle")
    /\ UNCHANGED <<store, manifest, quarantine, queue, contended, crashes>>

MoveFile(s, p) ==
    /\ pc[s] = "moving"
    /\ p \in todo[s]
    /\ original[p] # Missing
    /\ op[s] \in dirs
    /\ SetHeld(op[s], p, original[p])
    /\ SetOriginal(p, Missing)
    /\ Treated(s, p)
    /\ UNCHANGED <<documents, usedIds, saved, dirs, manifest, pc, op, plan, bad, queue,
                   contended, crashes, faults>>

Moved(s) == Planned(plan[s]) \ todo[s]

MoveFails(s, p) ==
    /\ pc[s] = "moving"
    /\ p \in todo[s]
    /\ \/ Fault
       \/ /\ original[p] = Missing \/ op[s] \notin dirs
          /\ NoFault
    /\ Goto(s, "restoring", Moved(s))
    /\ UNCHANGED <<store, area, op, plan, bad, queue, contended, crashes>>

(* Every file is moved: the phase update rewrites the whole manifest. *)
Quarantined(s) ==
    /\ pc[s] = "moving"
    /\ todo[s] = {}
    /\ manifest' = [o \in Ops |-> IF o = op[s] /\ o \in dirs THEN plan[s] ELSE manifest[o]]
    /\ pc' = [pc EXCEPT ![s] = "deleting"]
    /\ UNCHANGED <<store, dirs, quarantine, op, plan, todo, bad, queue, contended,
                   crashes, faults>>

(* One transaction; then the second phase update of the manifest. *)
CommitRecords(s) ==
    LET d == plan[s].doc
    IN  /\ pc[s] = "deleting"
        /\ d \in documents
        /\ documents' = documents \ {d}
        /\ saved' = [p \in Paths |-> IF p \in FilesOf[d] THEN Missing ELSE saved[p]]
        /\ manifest' = [o \in Ops |-> IF o = op[s] /\ o \in dirs THEN plan[s] ELSE manifest[o]]
        /\ pc' = [pc EXCEPT ![s] = "purging"]
        /\ UNCHANGED <<usedIds, original, dirs, quarantine, op, plan, todo, bad, queue,
                       contended, crashes, faults>>

(* rowcount 0, residue found, or a database error: rolled back. *)
CommitFails(s) ==
    /\ pc[s] = "deleting"
    /\ \/ Fault
       \/ plan[s].doc \notin documents /\ NoFault
    /\ Goto(s, "restoring", Planned(plan[s]))
    /\ UNCHANGED <<store, area, op, plan, bad, queue, contended, crashes>>

(* os.replace puts the file back over whatever is there now. *)
RestoreFile(s, p) ==
    /\ pc[s] = "restoring"
    /\ p \in todo[s]
    /\ quarantine[op[s]][p] # Missing
    /\ SetOriginal(p, quarantine[op[s]][p])
    /\ SetHeld(op[s], p, Missing)
    /\ Treated(s, p)
    /\ UNCHANGED <<documents, usedIds, saved, dirs, manifest, pc, op, plan, bad, queue,
                   contended, crashes, faults>>

RestoreFails(s, p) ==
    /\ pc[s] = "restoring"
    /\ p \in todo[s]
    /\ \/ Fault
       \/ quarantine[op[s]][p] = Missing /\ NoFault
    /\ bad' = [bad EXCEPT ![s] = TRUE]
    /\ Treated(s, p)
    /\ UNCHANGED <<store, area, pc, op, plan, queue, contended, crashes>>

(* Mutant: the directory is removed although a file is not back. *)
RestoredAnyway(s) ==
    /\ pc[s] = "restoring"
    /\ todo[s] = {}
    /\ Goto(s, "purging", {})
    /\ UNCHANGED <<store, area, op, plan, bad, queue, contended, crashes, faults>>

(* With every file back the directory is removed; otherwise it is kept. *)
Restored(s) ==
    /\ pc[s] = "restoring"
    /\ todo[s] = {}
    /\ \/ bad[s] /\ Leave(s, "idle")
       \/ ~bad[s] /\ Goto(s, "purging", {}) /\ UNCHANGED <<op, plan, bad>>
    /\ UNCHANGED <<store, area, queue, contended, crashes, faults>>

-----------------------------------------------------------------------------
(***************************************************************************)
(* shutil.rmtree of the operation directory, by a deletion ("purging") or  *)
(* by a reconciliation ("clearing"): one entry at a time, in directory     *)
(* order, which is any order.                                              *)
(***************************************************************************)
Removing(s) == pc[s] \in {"purging", "clearing"}
AfterRemoval(s) == IF pc[s] = "purging" THEN "idle" ELSE "scan"

RemoveManifest(s) ==
    /\ Removing(s)
    /\ op[s] \in dirs
    /\ manifest[op[s]] # NoManifest
    /\ manifest' = [manifest EXCEPT ![op[s]] = NoManifest]
    /\ UNCHANGED <<store, dirs, quarantine, work, contended, crashes, faults>>

RemoveFile(s, p) ==
    /\ Removing(s)
    /\ op[s] \in dirs
    /\ quarantine[op[s]][p] # Missing
    /\ SetHeld(op[s], p, Missing)
    /\ UNCHANGED <<store, dirs, manifest, work, contended, crashes, faults>>

RemoveDir(s) ==
    /\ Removing(s)
    /\ op[s] \in dirs
    /\ manifest[op[s]] = NoManifest
    /\ quarantine[op[s]] = Empty
    /\ dirs' = dirs \ {op[s]}
    /\ Leave(s, AfterRemoval(s))
    /\ UNCHANGED <<store, manifest, quarantine, queue, contended, crashes, faults>>

(* A warning, or an attention report; what is left of the directory stays. *)
RemovalFails(s) ==
    /\ Removing(s)
    /\ \/ Fault
       \/ op[s] \notin dirs /\ NoFault
    /\ Leave(s, AfterRemoval(s))
    /\ UNCHANGED <<store, area, queue, contended, crashes>>

-----------------------------------------------------------------------------
(***************************************************************************)
(* reconcile_quarantine                                                    *)
(***************************************************************************)

(* The directory listing is read once. *)
BeginReconcile(s) ==
    /\ MayStart(s, "reconcile")
    /\ dirs # {}
    /\ queue' = [queue EXCEPT ![s] = dirs]
    /\ pc' = [pc EXCEPT ![s] = "scan"]
    /\ UNCHANGED <<store, area, op, plan, todo, bad, contended, crashes, faults>>

Take(s, o) ==
    /\ pc[s] = "scan"
    /\ o \in queue[s]
    /\ queue' = [queue EXCEPT ![s] = @ \ {o}]

(* No directory, no manifest, or an unreadable database: attention. *)
Undecidable(s, o) ==
    /\ Take(s, o)
    /\ \/ (o \notin dirs \/ manifest[o] = NoManifest) /\ NoFault
       \/ Fault
    /\ UNCHANGED <<store, area, pc, op, plan, todo, bad, contended, crashes>>

(* Mutant: files are put back whether or not the document row exists. *)
DecideRecovers(s, o) ==
    /\ Take(s, o)
    /\ o \in dirs
    /\ manifest[o] # NoManifest
    /\ op' = [op EXCEPT ![s] = o]
    /\ plan' = [plan EXCEPT ![s] = manifest[o]]
    /\ Goto(s, "recovering", Planned(manifest[o]))
    /\ bad' = [bad EXCEPT ![s] = FALSE]
    /\ Contend(s, manifest[o].doc)
    /\ UNCHANGED <<store, area, crashes, faults>>

(* The document row decides, and is not read again. *)
Decide(s, o) ==
    /\ Take(s, o)
    /\ o \in dirs
    /\ manifest[o] # NoManifest
    /\ op' = [op EXCEPT ![s] = o]
    /\ plan' = [plan EXCEPT ![s] = manifest[o]]
    /\ Goto(s, IF manifest[o].doc \in documents THEN "recovering" ELSE "verifying",
            Planned(manifest[o]))
    /\ bad' = [bad EXCEPT ![s] = FALSE]
    /\ Contend(s, manifest[o].doc)
    /\ UNCHANGED <<store, area, crashes, faults>>

Here(s, p) == original[p]
Held(s, p) == quarantine[op[s]][p]
Recorded(s, p) == plan[s].hash[p]

(* Mutant: os.replace without a look at the original path. *)
RecoverFileOver(s, p) ==
    /\ pc[s] = "recovering"
    /\ p \in todo[s]
    /\ Held(s, p) = Recorded(s, p)
    /\ SetOriginal(p, Held(s, p))
    /\ SetHeld(op[s], p, Missing)
    /\ Treated(s, p)
    /\ UNCHANGED <<documents, usedIds, saved, dirs, manifest, pc, op, plan, bad, queue,
                   contended, crashes, faults>>

(* The quarantined copy is right and nothing is at the original path. *)
RecoverFile(s, p) ==
    /\ pc[s] = "recovering"
    /\ p \in todo[s]
    /\ Held(s, p) = Recorded(s, p)
    /\ Here(s, p) = Missing
    /\ SetOriginal(p, Held(s, p))
    /\ SetHeld(op[s], p, Missing)
    /\ Treated(s, p)
    /\ UNCHANGED <<documents, usedIds, saved, dirs, manifest, pc, op, plan, bad, queue,
                   contended, crashes, faults>>

(* Both copies are the recorded file: the quarantined one is unlinked. *)
DropCopy(s, p) ==
    /\ pc[s] = "recovering"
    /\ p \in todo[s]
    /\ Held(s, p) = Recorded(s, p)
    /\ Here(s, p) = Recorded(s, p)
    /\ SetHeld(op[s], p, Missing)
    /\ Treated(s, p)
    /\ UNCHANGED <<store, dirs, manifest, pc, op, plan, bad, queue, contended, crashes,
                   faults>>

(* An earlier run already put the file back. *)
AlreadyBack(s, p) ==
    /\ pc[s] = "recovering"
    /\ p \in todo[s]
    /\ Held(s, p) = Missing
    /\ Here(s, p) = Recorded(s, p)
    /\ Treated(s, p)
    /\ UNCHANGED <<store, area, pc, op, plan, bad, queue, contended, crashes, faults>>

(* A copy differs from the manifest, or both are missing. *)
Conflict(s, p) ==
    \/ Held(s, p) \notin {Missing, Recorded(s, p)}
    \/ Here(s, p) \notin {Missing, Recorded(s, p)}
    \/ Held(s, p) = Missing /\ Here(s, p) = Missing

(* A conflict, or a rename or unlink that fails: a problem is noted, and
   the next file is treated all the same. *)
NoteProblem(s, p) ==
    /\ pc[s] = "recovering"
    /\ p \in todo[s]
    /\ \/ Conflict(s, p) /\ NoFault
       \/ /\ Held(s, p) = Recorded(s, p)
          /\ Here(s, p) \in {Missing, Recorded(s, p)}
          /\ Fault
    /\ bad' = [bad EXCEPT ![s] = TRUE]
    /\ Treated(s, p)
    /\ UNCHANGED <<store, area, pc, op, plan, queue, contended, crashes>>

(* A problem makes the operation "attention"; without one its directory is
   removed. *)
Recovered(s) ==
    /\ pc[s] = "recovering"
    /\ todo[s] = {}
    /\ \/ bad[s] /\ Leave(s, "scan")
       \/ ~bad[s] /\ Goto(s, "clearing", {}) /\ UNCHANGED <<op, plan, bad>>
    /\ UNCHANGED <<store, area, queue, contended, crashes, faults>>

(* Mutant: a file an earlier removal already took counts as unsound. *)
VerifiedStrictly(s) ==
    /\ pc[s] = "verifying"
    /\ LET sound == \A p \in todo[s] : Held(s, p) = Recorded(s, p)
       IN  \/ sound /\ Goto(s, "clearing", {}) /\ UNCHANGED <<op, plan, bad>>
           \/ ~sound /\ Leave(s, "scan")
    /\ UNCHANGED <<store, area, queue, contended, crashes, faults>>

(* Case 2: only verified copies are destroyed. *)
Verified(s) ==
    /\ pc[s] = "verifying"
    /\ LET sound == \A p \in todo[s] : Held(s, p) \in {Missing, Recorded(s, p)}
       IN  \/ sound /\ Goto(s, "clearing", {}) /\ UNCHANGED <<op, plan, bad>>
           \/ ~sound /\ Leave(s, "scan")
    /\ UNCHANGED <<store, area, queue, contended, crashes, faults>>

EndReconcile(s) ==
    /\ pc[s] = "scan"
    /\ queue[s] = {}
    /\ pc' = [pc EXCEPT ![s] = "idle"]
    /\ UNCHANGED <<store, area, op, plan, todo, bad, queue, contended, crashes, faults>>

-----------------------------------------------------------------------------
(* The process dies: only the database and the files survive. *)
Crash ==
    /\ crashes < MaxCrashes
    /\ crashes' = crashes + 1
    /\ \E s \in Sessions : pc[s] # "idle"
    /\ pc' = [s \in Sessions |-> "idle"]
    /\ todo' = [s \in Sessions |-> {}]
    /\ queue' = [s \in Sessions |-> {}]
    /\ op' = [s \in Sessions |-> AnyOp]
    /\ plan' = [s \in Sessions |-> NoPlan]
    /\ bad' = [s \in Sessions |-> FALSE]
    /\ UNCHANGED <<store, area, contended, faults>>

Init ==
    /\ documents = {}
    /\ usedIds = {}
    /\ original = Empty
    /\ saved = Empty
    /\ dirs = {}
    /\ manifest = [o \in Ops |-> NoManifest]
    /\ quarantine = [o \in Ops |-> Empty]
    /\ pc = [s \in Sessions |-> "idle"]
    /\ op = [s \in Sessions |-> AnyOp]
    /\ plan = [s \in Sessions |-> NoPlan]
    /\ todo = [s \in Sessions |-> {}]
    /\ bad = [s \in Sessions |-> FALSE]
    /\ queue = [s \in Sessions |-> {}]
    /\ contended = {}
    /\ crashes = 0
    /\ faults = 0

DeleteStep(s) ==
    \/ HashFails(s) \/ WriteManifest(s) \/ ManifestFails(s)
    \/ \E p \in Paths : \/ MoveFile(s, p) \/ MoveFails(s, p)
                        \/ RestoreFile(s, p) \/ RestoreFails(s, p)
    \/ Quarantined(s) \/ CommitRecords(s) \/ CommitFails(s) \/ Restored(s)

RemovalStep(s) ==
    \/ RemoveManifest(s) \/ RemoveDir(s) \/ RemovalFails(s)
    \/ \E p \in Paths : RemoveFile(s, p)

ReconcileStep(s) ==
    \/ \E o \in Ops : Undecidable(s, o) \/ Decide(s, o)
    \/ \E p \in Paths : \/ RecoverFile(s, p) \/ DropCopy(s, p)
                        \/ AlreadyBack(s, p) \/ NoteProblem(s, p)
    \/ Recovered(s) \/ Verified(s) \/ EndReconcile(s)

UserStep(s) ==
    \E d \in Docs :
        \/ Import(s, d)
        \/ \E p \in Paths, c \in Contents : SaveMarkdown(s, d, p, c)
        \/ \E o \in Ops : BeginDelete(s, d, o)

Work(s) == DeleteStep(s) \/ RemovalStep(s) \/ ReconcileStep(s)

Next ==
    \/ \E s \in Sessions : UserStep(s) \/ BeginReconcile(s) \/ Work(s)
    \/ Crash

Spec == Init /\ [][Next]_vars

(***************************************************************************)
(* A running session does not stop halfway, and the home page or the       *)
(* maintenance page is opened again as long as there is something left.    *)
(* Users owe nothing else.                                                 *)
(***************************************************************************)
Fairness ==
    /\ \A s \in Sessions : WF_vars(Work(s))
    /\ WF_vars(\E s \in Sessions : BeginReconcile(s))

FairSpec == Spec /\ Fairness

-----------------------------------------------------------------------------
TypeOK ==
    /\ documents \subseteq usedIds /\ usedIds \subseteq Docs
    /\ original \in [Paths -> Cell]
    /\ saved \in [Paths -> Cell]
    /\ dirs \subseteq Ops
    /\ manifest \in [Ops -> Manifests \cup {NoManifest}]
    /\ quarantine \in [Ops -> [Paths -> Cell]]
    /\ pc \in [Sessions -> Phases]
    /\ op \in [Sessions -> Ops]
    /\ plan \in [Sessions -> Manifests]
    /\ todo \in [Sessions -> SUBSET Paths]
    /\ bad \in [Sessions -> BOOLEAN]
    /\ queue \in [Sessions -> SUBSET Ops]
    /\ contended \subseteq Paths
    /\ crashes \in 0..MaxCrashes /\ faults \in 0..MaxFaults

(***************************************************************************)
(* The copy of p that operation o holds can be put back for document d.    *)
(***************************************************************************)
Holds(o, d, p, c) ==
    /\ o \in dirs
    /\ manifest[o] # NoManifest
    /\ manifest[o].doc = d
    /\ manifest[o].hash[p] = c
    /\ quarantine[o][p] = c

(***************************************************************************)
(* Whatever was last stored for a document that still has its row exists:  *)
(* at its recorded path, or in an operation directory whose manifest leads *)
(* a reconciliation to it.  Neither a failure, a crash nor the removal of  *)
(* a directory half done may lose it, whatever other sessions do to other  *)
(* documents.  Two sessions at work on the document itself do lose files:  *)
(* they take no lock, and contended names those files.                     *)
(***************************************************************************)
LivingFilesKept ==
    \A d \in documents : \A p \in FilesOf[d] \ contended :
        saved[p] # Missing =>
            \/ original[p] = saved[p]
            \/ \E o \in Ops : Holds(o, d, p, saved[p])

(***************************************************************************)
(* No file stands at a recorded path that no document owns: a deletion     *)
(* that has committed leaves nothing behind there, and nothing a           *)
(* reconciliation or an abort does brings such a file back, unless two     *)
(* sessions were at work on the document at once.                          *)
(***************************************************************************)
NoOrphans ==
    \A p \in Paths \ contended :
        original[p] # Missing => \E d \in documents : p \in FilesOf[d]

(***************************************************************************)
(* The two invariants above follow from IndInv: what each phase of a       *)
(* session says of its operation directory, of the original paths and of   *)
(* the document row, for the files that are not contended.                 *)
(***************************************************************************)
Disjoint == \A d, e \in documents : d = e \/ FilesOf[d] \cap FilesOf[e] = {}

Known(m) == m.doc \in usedIds /\ Planned(m) \subseteq FilesOf[m.doc]

ManifestsKnown == \A o \in Ops : manifest[o] # NoManifest => Known(manifest[o])

(* A name that is not a directory holds nothing. *)
Removed ==
    \A o \in Ops \ dirs : manifest[o] = NoManifest /\ quarantine[o] = Empty

(* Nothing is known of a file no document has owned yet. *)
Unused ==
    \A d \in Docs \ usedIds : \A p \in FilesOf[d] \cap Editable : saved[p] = Missing

HeldOf(s) == quarantine[op[s]]
Claim(s) == FilesOf[plan[s].doc]

(* Two sessions in one directory follow the same plan, which neither is
   still making; two sessions at work on one document contend for it. *)
Exclusive(s, t) ==
    s # t /\ Engaged(s) /\ Engaged(t) =>
        /\ op[s] = op[t] => plan[s] = plan[t] /\ pc[s] # "prepared"
        /\ plan[s].doc = plan[t].doc => Claim(s) \subseteq contended

(* The manifest of the directory, if it is still there, is the plan. *)
Claimed(s) ==
    Engaged(s) =>
        /\ Known(plan[s])
        /\ todo[s] \subseteq Claim(s)
        /\ pc[s] # "prepared" => todo[s] \subseteq Planned(plan[s])
        /\ manifest[op[s]] \in {plan[s], NoManifest}

(* The phases before the outcome is decided: the row is there. *)
Undecided(s) ==
    pc[s] \in {"prepared", "moving", "deleting", "restoring", "recovering"} =>
        plan[s].doc \in documents \/ Claim(s) \subseteq contended

Preparing(s) ==
    pc[s] = "prepared" =>
        /\ manifest[op[s]] = NoManifest
        /\ HeldOf(s) = Empty
        /\ \A p \in Claim(s) \ contended : p \in todo[s] <=> original[p] # Missing

Registered(s) ==
    pc[s] = "moving" => manifest[op[s]] = plan[s] \/ Claim(s) \subseteq contended

NothingElse(s) ==
    pc[s] \in {"moving", "deleting"} =>
        \A p \in Claim(s) \ contended : original[p] # Missing => p \in todo[s]

Moving(s) ==
    pc[s] \in {"moving", "deleting"} =>
        \A p \in Planned(plan[s]) \ contended :
            IF p \in todo[s]
            THEN original[p] = plan[s].hash[p] /\ HeldOf(s)[p] = Missing
            ELSE original[p] = Missing /\ HeldOf(s)[p] = plan[s].hash[p]

PuttingBack(s) ==
    pc[s] = "restoring" =>
        \A p \in todo[s] \ contended :
            original[p] = Missing /\ HeldOf(s)[p] = plan[s].hash[p]

PutBack(s) ==
    pc[s] \in {"restoring", "recovering"} /\ ~bad[s] =>
        \A p \in Planned(plan[s]) \ (todo[s] \cup contended) : HeldOf(s)[p] = Missing

Emptied(s) ==
    pc[s] = "deleting" => todo[s] = {}

Disposable(s) ==
    pc[s] \in {"purging", "clearing", "verifying"} /\ plan[s].doc \in documents =>
        \A p \in Planned(plan[s]) \ contended : HeldOf(s)[p] = Missing

SessionInv(s) ==
    /\ Claimed(s) /\ Undecided(s) /\ Preparing(s) /\ Registered(s) /\ NothingElse(s)
    /\ Moving(s) /\ PuttingBack(s) /\ PutBack(s) /\ Emptied(s) /\ Disposable(s)

IndInv ==
    /\ TypeOK /\ Disjoint /\ ManifestsKnown /\ Removed /\ Unused
    /\ \A s, t \in Sessions : Exclusive(s, t)
    /\ \A s \in Sessions : SessionInv(s)
    /\ LivingFilesKept /\ NoOrphans

(***************************************************************************)
(* A document's file is only ever replaced by the user: no step of a       *)
(* deletion or reconciliation puts other content over a file that is there *)
(* (an abort renames over whatever it finds), unless two sessions were at  *)
(* work on the document at once.                                           *)
(***************************************************************************)
NothingOverwritten ==
    [][\A p \in Paths \ contended :
          original[p] \notin {Missing, original'[p]} => original'[p] \in {Missing, saved'[p]}]_vars

(***************************************************************************)
(* An operation is left alone as long as another manifest claims one of    *)
(* its files (docs/design-v0.3.2.md:314-321): which of two quarantined     *)
(* versions is the latest cannot be told.  The code does not do so: this   *)
(* does not hold (README, section 3).                                      *)
(***************************************************************************)
Rivals(o, r) ==
    /\ o # r /\ manifest[o] # NoManifest /\ manifest[r] # NoManifest
    /\ Planned(manifest[o]) \cap Planned(manifest[r]) # {}

RivalsUntouched ==
    [][\A s \in Sessions :
          pc[s] = "recovering" /\ (\E r \in dirs : Rivals(op[s], r))
              => quarantine' = quarantine]_vars

(***************************************************************************)
(* What only a human can settle: the manifest is gone, a file saved since  *)
(* stands where the recorded one belongs, or two sessions were at work on  *)
(* the document at once.                                                   *)
(***************************************************************************)
NeedsHuman(o) ==
    \/ manifest[o] = NoManifest
    \/ \E p \in Planned(manifest[o]) :
          p \in contended \/ original[p] \notin {Missing, manifest[o].hash[p]}

(***************************************************************************)
(* Every interrupted operation that can be settled is settled: its         *)
(* directory disappears, by a retry if a first reconciliation failed.      *)
(***************************************************************************)
Settled == \A o \in Ops : o \in dirs ~> (o \notin dirs \/ NeedsHuman(o))
=============================================================================
