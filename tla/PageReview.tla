------------------------------ MODULE PageReview ------------------------------
(***************************************************************************)
(* Reviewing the pages of an imported document: saving and clearing their  *)
(* Markdown, recognising their image, processing them again                *)
(* (src/src/document_service.py), and changing the status, the tags or the *)
(* projects of many at once (src/src/batch_service.py).                    *)
(*                                                                         *)
(* The Markdown of a page is kept twice, in its row and in a file, and no  *)
(* transaction spans both.  Recognition and reprocessing work for a long   *)
(* time on a page they read before.  Sessions are Streamlit script threads *)
(* and take no lock.                                                       *)
(***************************************************************************)
EXTENDS Naturals, FiniteSets

CONSTANTS
    Sessions, Pages,
    Targets,     \* ids that tags and projects may get
    Contents,    \* Markdown that is not empty
    NoText,      \* no Markdown, no file
    Unsure,      \* a save or a clear did not end
    MaxWrites,   \* writes to page rows
    MaxCrashes, MaxFaults

ASSUME ReviewAssumption ==
    /\ NoText \notin Contents /\ Unsure \notin Contents \cup {NoText}
    /\ MaxWrites \in Nat /\ MaxCrashes \in Nat /\ MaxFaults \in Nat

Statuses == {"pending", "draft", "reviewed", "skipped", "failed"}

VARIABLES
    page,    \* page -> its row
    file,    \* page -> content of its Markdown file
    saved,   \* ghost: page -> Markdown its user was last told is stored
    job,     \* session -> what it is doing
    phase,   \* id -> whether its tag or project is still to come, exists or is deleted
    related, \* the tags and projects that are assigned to pages directly
    overlapped,    \* ghost: whether one session worked while another did
    writes, crashes, faults

classes == <<phase, related>>
vars == <<page, file, saved, job, classes, overlapped, writes, crashes, faults>>

(* stamp stands for updated_at; it differs after every write, as long as the
   clock moves between two writes of one page. *)
Rows == [markdown : Contents \cup {NoText},
         path : BOOLEAN,                     \* markdown_path is recorded
         status : Statuses,
         text : BOOLEAN,                     \* extracted_text is long enough
         recognised : BOOLEAN,               \* ocr_text is reusable
         errors : SUBSET {"page", "ocr"},    \* segments of processing_error
         stamp : 0..MaxWrites]

Idle == [kind |-> "idle"]
Kinds == {"idle", "writing", "updating", "clearing", "unlinking", "recognising",
          "reprocessing", "planned", "sorting"}
Plans == {"planned", "sorting"}

(* A session starts work j; a preview that waits is no work. *)
Start(s, j) ==
    /\ job[s] = Idle
    /\ job' = [job EXCEPT ![s] = j]
    /\ overlapped' = (overlapped \/
          (j.kind \notin Plans /\ \E t \in Sessions \ {s} : job[t].kind \notin Plans \cup {"idle"}))

Continue(s, j) ==
    /\ job' = [job EXCEPT ![s] = j]
    /\ UNCHANGED overlapped

Done(s) == Continue(s, Idle)

Doing(s, kind) == job[s].kind = kind

Fault == /\ faults < MaxFaults
         /\ faults' = faults + 1
NoFault == faults' = faults

(* update_page: p gets the row r, with a new updated_at. *)
Update(p, r) ==
    /\ writes < MaxWrites
    /\ writes' = writes + 1
    /\ page' = [page EXCEPT ![p] = [r EXCEPT !.stamp = writes + 1]]

Tell(p, m) == saved' = [saved EXCEPT ![p] = m]

-----------------------------------------------------------------------------
(***************************************************************************)
(* save_page_markdown: the file, then the row.                             *)
(***************************************************************************)
Stored(p, c, status) ==
    page[p].markdown = c /\ page[p].path /\ page[p].status = status

(* Mutant: the file is not looked at. *)
NothingToSaveByRow(p, c, status) == Stored(p, c, status)

NothingToSave(p, c, status) == Stored(p, c, status) /\ file[p] = c

SaveNothing(s, p, c, status) ==
    /\ Start(s, Idle)
    /\ NothingToSave(p, c, status)
    /\ Tell(p, c)
    /\ UNCHANGED <<page, file, writes, crashes, faults>>

BeginSave(s, p, c, status) ==
    /\ Start(s, [kind |-> "writing", page |-> p, content |-> c, status |-> status])
    /\ ~NothingToSave(p, c, status)
    /\ Tell(p, Unsure)
    /\ UNCHANGED <<page, file, writes, crashes, faults>>

WriteFile(s) ==
    /\ Doing(s, "writing")
    /\ file' = [file EXCEPT ![job[s].page] = job[s].content]
    /\ Continue(s, [job[s] EXCEPT !.kind = "updating"])
    /\ UNCHANGED <<page, saved, writes, crashes, faults>>

(* update_page_markdown reads the row again and skips an equal one. *)
UpdateRow(s) ==
    /\ Doing(s, "updating")
    /\ LET p == job[s].page
           c == job[s].content
       IN  /\ IF Stored(p, c, job[s].status)
              THEN UNCHANGED <<page, writes>>
              ELSE Update(p, [page[p] EXCEPT !.markdown = c, !.path = TRUE,
                                             !.status = job[s].status])
           /\ Tell(p, c)
    /\ Done(s)
    /\ UNCHANGED <<file, crashes, faults>>

(* The user is told that the save failed; a file that was replaced stays. *)
SaveFails(s) ==
    /\ Doing(s, "writing") \/ Doing(s, "updating")
    /\ Fault
    /\ Done(s)
    /\ UNCHANGED <<page, file, saved, writes, crashes>>

(***************************************************************************)
(* clear_page_markdown: the row, then the file the row named when it was   *)
(* read.                                                                   *)
(***************************************************************************)
BeginClear(s, p) ==
    /\ Start(s, [kind |-> "clearing", page |-> p, path |-> page[p].path])
    /\ Tell(p, Unsure)
    /\ UNCHANGED <<page, file, writes, crashes, faults>>

ClearRow(s) ==
    /\ Doing(s, "clearing")
    /\ Update(job[s].page, [page[job[s].page] EXCEPT !.markdown = NoText, !.path = FALSE,
                                                     !.status = "pending"])
    /\ Continue(s, [job[s] EXCEPT !.kind = "unlinking"])
    /\ UNCHANGED <<file, saved, crashes, faults>>

Unlink(s) ==
    /\ Doing(s, "unlinking")
    /\ file' = [file EXCEPT ![job[s].page] = IF job[s].path THEN NoText ELSE @]
    /\ Tell(job[s].page, NoText)
    /\ Done(s)
    /\ UNCHANGED <<page, writes, crashes, faults>>

ClearFails(s) ==
    /\ Doing(s, "clearing") \/ (Doing(s, "unlinking") /\ job[s].path)
    /\ Fault
    /\ Done(s)
    /\ UNCHANGED <<page, file, saved, writes, crashes>>

(***************************************************************************)
(* mark_page_reviewed and skip_page: one write each.                       *)
(***************************************************************************)
MarkReviewed(s, p) ==
    /\ Start(s, Idle)
    /\ Update(p, [page[p] EXCEPT !.status = "reviewed", !.errors = {}])
    /\ UNCHANGED <<file, saved, crashes, faults>>

Skip(s, p) ==
    /\ Start(s, Idle)
    /\ Update(p, [page[p] EXCEPT !.status = "skipped"])
    /\ UNCHANGED <<file, saved, crashes, faults>>

-----------------------------------------------------------------------------
(***************************************************************************)
(* run_page_ocr: the page is read, the engine works, the result is merged  *)
(* into what was read.                                                     *)
(***************************************************************************)
(* Mutant: text that was recognised before is not looked at. *)
EligibleAgain(p) == ~page[p].text

Eligible(p) == ~page[p].text /\ ~page[p].recognised

BeginOcr(s, p) ==
    /\ Start(s, [kind |-> "recognising", page |-> p, errors |-> page[p].errors])
    /\ Eligible(p)
    /\ UNCHANGED <<page, file, saved, writes, crashes, faults>>

(* The recognised text may have no effective character.  processing_error is
   written only when an OCR error was read. *)
OcrDone(s) ==
    /\ Doing(s, "recognising")
    /\ LET p == job[s].page
           cleared == job[s].errors \ {"ocr"}
       IN  \E reusable \in BOOLEAN :
              Update(p, [page[p] EXCEPT
                            !.recognised = reusable,
                            !.errors = IF "ocr" \in job[s].errors THEN cleared ELSE @])
    /\ Done(s)
    /\ UNCHANGED <<file, saved, crashes, faults>>

OcrFails(s) ==
    /\ Doing(s, "recognising")
    /\ Update(job[s].page, [page[job[s].page] EXCEPT !.errors = job[s].errors \cup {"ocr"}])
    /\ Done(s)
    /\ UNCHANGED <<file, saved, crashes, faults>>

(***************************************************************************)
(* reprocess_page, offered for a page with an error: the page is rendered  *)
(* and its text extracted again.                                           *)
(***************************************************************************)
BeginReprocess(s, p) ==
    /\ Start(s, [kind |-> "reprocessing", page |-> p])
    /\ page[p].errors # {}
    /\ UNCHANGED <<page, file, saved, writes, crashes, faults>>

Reprocessed(s) ==
    /\ Doing(s, "reprocessing")
    /\ LET p == job[s].page
       IN  \/ Update(p, [page[p] EXCEPT !.errors = {"page"}, !.status = "failed"])
           \/ \E enough \in BOOLEAN :
                 Update(p, [page[p] EXCEPT !.errors = {}, !.status = "pending", !.text = enough])
    /\ Done(s)
    /\ UNCHANGED <<file, saved, crashes, faults>>

(* The database, the original or the engine is not available. *)
LongWorkFails(s) ==
    /\ Doing(s, "recognising") \/ Doing(s, "reprocessing")
    /\ Fault
    /\ Done(s)
    /\ UNCHANGED <<page, file, saved, writes, crashes>>

-----------------------------------------------------------------------------
(***************************************************************************)
(* Batches of status changes: a plan with the rows it was made from is     *)
(* shown, and executed only if none of them has changed since.             *)
(***************************************************************************)
Sources(target) ==
    CASE target = "pending" -> {"reviewed", "skipped"}
      [] target \in {"reviewed", "skipped"} -> {"pending"}

Executable(ps, target) ==
    \A p \in ps : page[p].status \in Sources(target) \cup {target}

(* The one plan that a session has waiting, bound to the selected pages; it is
   dropped before it is executed, so that no rerun executes it again. *)
Pend(s, plan) == Start(s, plan)
Consume(s, kind) == Doing(s, kind) /\ Done(s)

(* PageBatchSnapshot: no content. *)
Snapshot(ps) == [p \in ps |-> <<page[p].status, page[p].stamp>>]

Existing == {t \in Targets : phase[t] = "exists"}

(* A plan that is not executable is refused without a write. *)
Plan(s, ps, target) ==
    /\ ps # {}
    /\ Executable(ps, target)
    /\ Pend(s, [kind |-> "planned", pages |-> ps, target |-> target,
                 snapshot |-> Snapshot(ps)])
    /\ UNCHANGED <<page, file, saved, writes, crashes, faults>>

(* Mutant: only the status is compared. *)
FreshByStatus(s) ==
    \A p \in job[s].pages : job[s].snapshot[p][1] = page[p].status

Fresh(s) ==
    \A p \in job[s].pages : job[s].snapshot[p] = <<page[p].status, page[p].stamp>>

(* The targets still exist and the assignments are those of the preview. *)
SameRelations(s) ==
    /\ job[s].targets \subseteq Existing
    /\ related \cap (job[s].pages \X job[s].targets) = job[s].existing

Execute(s) ==
    /\ Consume(s, "planned")
    /\ Fresh(s)
    /\ LET changed == {p \in job[s].pages : page[p].status # job[s].target}
       IN  /\ writes < MaxWrites
           /\ writes' = writes + 1
           /\ page' = [p \in Pages |->
                          IF p \in changed
                          THEN [page[p] EXCEPT !.status = job[s].target, !.stamp = writes + 1]
                          ELSE page[p]]
    /\ UNCHANGED <<file, saved, crashes, faults>>

(* A conflict, an error that rolls the transaction back, or the user selects
   other pages or another operation, or leaves. *)
Abandon(s) ==
    /\ job[s].kind \in Plans
    /\ Done(s)
    /\ UNCHANGED <<page, file, saved, writes, crashes, faults>>

-----------------------------------------------------------------------------
(***************************************************************************)
(* Tags and projects.  Their ids are never used again (AUTOINCREMENT), and *)
(* deleting one deletes its assignments (ON DELETE CASCADE).  None of this *)
(* touches updated_at of a page.                                           *)
(***************************************************************************)
CreateTarget(s, t) ==
    /\ Start(s, Idle)
    /\ phase[t] = "free"
    /\ phase' = [phase EXCEPT ![t] = "exists"]
    /\ UNCHANGED related

DeleteTarget(s, t) ==
    /\ Start(s, Idle)
    /\ phase[t] = "exists"
    /\ phase' = [phase EXCEPT ![t] = "deleted"]
    /\ related' = {r \in related : r[2] # t}

(* The assignments of a page are replaced by those that were ticked; one that
   no longer exists rolls the replacement back. *)
Classify(s, p, ts) ==
    /\ Start(s, Idle)
    /\ ts \subseteq Existing
    /\ related' = {r \in related : r[1] # p} \cup ({p} \X ts)
    /\ UNCHANGED phase

(***************************************************************************)
(* Batches that add or remove assignments: the plan holds the pages and    *)
(* the assignments it was made from.                                       *)
(***************************************************************************)
PlanRelations(s, ps, ts, add) ==
    /\ ps # {} /\ ts # {}
    /\ ts \subseteq Existing
    /\ Pend(s, [kind |-> "sorting", pages |-> ps, targets |-> ts, add |-> add,
                 snapshot |-> Snapshot(ps), existing |-> related \cap (ps \X ts)])
    /\ UNCHANGED classes

ExecuteRelations(s) ==
    /\ Consume(s, "sorting")
    /\ Fresh(s)
    /\ SameRelations(s)
    /\ LET pairs == job[s].pages \X job[s].targets
       IN  related' = IF job[s].add THEN related \cup pairs ELSE related \ pairs
    /\ UNCHANGED phase

-----------------------------------------------------------------------------
Crash ==
    /\ crashes < MaxCrashes
    /\ crashes' = crashes + 1
    /\ \E s \in Sessions : job[s] # Idle
    /\ job' = [s \in Sessions |-> Idle]
    /\ UNCHANGED <<page, file, saved, classes, overlapped, writes, faults>>

(* The pages as an import leaves them. *)
Imported ==
    {r \in Rows : /\ r.markdown = NoText /\ ~r.path /\ ~r.recognised /\ r.stamp = 0
                  /\ \/ r.status = "pending" /\ r.errors = {}
                     \/ r.status = "failed" /\ r.errors = {"page"} /\ ~r.text}

Init ==
    /\ page \in [Pages -> Imported]
    /\ file = [p \in Pages |-> NoText]
    /\ saved = [p \in Pages |-> NoText]
    /\ job = [s \in Sessions |-> Idle]
    /\ phase \in [Targets -> {"free", "deleted"}]
    /\ related = {}
    /\ overlapped = FALSE
    /\ writes \in 0..MaxWrites /\ crashes = 0 /\ faults = 0

EditStep(s) ==
    \/ \E p \in Pages, c \in Contents, status \in {"draft", "reviewed"} :
          SaveNothing(s, p, c, status) \/ BeginSave(s, p, c, status)
    \/ WriteFile(s) \/ UpdateRow(s) \/ SaveFails(s)
    \/ \E p \in Pages : BeginClear(s, p) \/ MarkReviewed(s, p) \/ Skip(s, p)
    \/ ClearRow(s) \/ Unlink(s) \/ ClearFails(s)

OcrStep(s) ==
    (\E p \in Pages : BeginOcr(s, p)) \/ OcrDone(s) \/ OcrFails(s)

ReprocessStep(s) ==
    (\E p \in Pages : BeginReprocess(s, p)) \/ Reprocessed(s) \/ LongWorkFails(s)

StatusBatchStep(s) ==
    \/ \E ps \in SUBSET Pages, status \in {"pending", "reviewed", "skipped"} :
          Plan(s, ps, status)
    \/ Execute(s) \/ Abandon(s)

ClassStep(s) ==
    \/ \E t \in Targets : CreateTarget(s, t) \/ DeleteTarget(s, t)
    \/ \E p \in Pages, ts \in SUBSET Targets : Classify(s, p, ts)

RelationBatchStep(s) ==
    \/ \E ps \in SUBSET Pages, ts \in SUBSET Targets, add \in BOOLEAN :
          PlanRelations(s, ps, ts, add)
    \/ ExecuteRelations(s)

Next ==
    \/ \E s \in Sessions :
          \/ (EditStep(s) \/ OcrStep(s) \/ ReprocessStep(s) \/ StatusBatchStep(s))
                /\ UNCHANGED classes
          \/ (ClassStep(s) \/ RelationBatchStep(s))
                /\ UNCHANGED <<page, file, saved, writes, crashes, faults>>
    \/ Crash

Spec == Init /\ [][Next]_vars

-----------------------------------------------------------------------------
TypeOK ==
    /\ page \in [Pages -> Rows]
    /\ file \in [Pages -> Contents \cup {NoText}]
    /\ saved \in [Pages -> Contents \cup {NoText, Unsure}]
    /\ \A s \in Sessions : job[s].kind \in Kinds
    /\ phase \in [Targets -> {"free", "exists", "deleted"}]
    /\ related \subseteq Pages \X Existing
    /\ overlapped \in BOOLEAN
    /\ writes \in 0..MaxWrites /\ crashes \in 0..MaxCrashes /\ faults \in 0..MaxFaults

(***************************************************************************)
(* What a user was told is stored is stored, in the row and in the file;   *)
(* what was cleared is in neither.  A save of what the row already holds   *)
(* repairs a file that an interrupted save left different.  Two sessions   *)
(* at work on one page at once can leave its row and its file different.   *)
(***************************************************************************)
SavedIsStored ==
    ~overlapped => \A p \in Pages : saved[p] # Unsure =>
        /\ page[p].markdown = saved[p]
        /\ page[p].path = (saved[p] # NoText)
        /\ page[p].path => file[p] = saved[p]

(***************************************************************************)
(* A page that has been recognised carries no OCR error, as long as no two *)
(* sessions recognise at once.                                             *)
(***************************************************************************)
RecognisedWithoutError ==
    ~overlapped => \A p \in Pages : page[p].recognised => "ocr" \notin page[p].errors

(***************************************************************************)
(* A batch writes what its preview showed, as it showed it, whatever other *)
(* sessions write in between.  Of status changes: no page that another     *)
(* session has written since, and never the draft or the failure of one.   *)
(* Of assignments, which do not show in the pages the preview remembers:   *)
(* all that was missing is added, or all that was there is removed, and    *)
(* nothing else, although tags and projects are deleted meanwhile.         *)
(***************************************************************************)
StatusesAsPreviewed(s) ==
    \A p \in Pages : page'[p] # page[p] =>
        /\ p \in job[s].pages
        /\ page[p].stamp = job[s].snapshot[p][2]
        /\ page[p].status \notin {"draft", "failed"}

RelationsAsPreviewed(s) ==
    LET pairs == job[s].pages \X job[s].targets
        added == related' \ related
        removed == related \ related'
    IN  IF job[s].add THEN removed = {} /\ added = pairs \ job[s].existing
                      ELSE added = {} /\ removed = job[s].existing

BatchAsPreviewed ==
    [][\A s \in Sessions : job'[s] = Idle =>
          /\ Doing(s, "planned") => StatusesAsPreviewed(s)
          /\ Doing(s, "sorting") /\ related' # related => RelationsAsPreviewed(s)]_vars
=============================================================================
