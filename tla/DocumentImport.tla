---------------------------- MODULE DocumentImport ----------------------------
(***************************************************************************)
(* The import of one PDF (src/src/document_service.py) with the rendering  *)
(* of its pages (src/src/pdf_service.py), repeated by the user after a     *)
(* crash, a failure, or in a second session while the first is at work.    *)
(*                                                                         *)
(* The raw file and each page image are written to a temporary file and    *)
(* renamed; the document row, every page row and the final status are      *)
(* transactions of their own.  Nothing locks one import against another.   *)
(***************************************************************************)
EXTENDS Naturals, FiniteSets

CONSTANTS
    Sessions,
    PageCount,   \* pages of the PDF
    MaxCrashes, MaxFaults

ASSUME ImportAssumption ==
    /\ PageCount \in Nat \ {0}
    /\ MaxCrashes \in Nat /\ MaxFaults \in Nat

Pages == 1..PageCount

VARIABLES
    raw,        \* the original is at its content-addressed path
    rawTemp,    \* sessions whose temporary raw file exists
    status,     \* import_status of the document row, "none" without a row
    pageCount,  \* its page_count
    row,        \* status of each page row
    image,      \* pages with a complete PNG
    imageTemp,  \* page -> sessions whose temporary PNG exists
    record,     \* the import record of each session's latest import
    told,       \* what that import told the user
    pc,
    resume,     \* the import found an unfinished document
    holds,      \* the import has a document to mark as failed,
    known,      \* with this page_count when it was last read
    at,         \* next page to render or to store
    bad,        \* pages whose rendering failed
    seen,       \* pages with a row when the rows were read
    crashes, faults

library == <<raw, status, pageCount, row, image>>
temps == <<rawTemp, imageTemp>>
locals == <<resume, holds, known, at, bad, seen>>
vars == <<raw, rawTemp, status, pageCount, row, image, imageTemp, record, told, pc,
          resume, holds, known, at, bad, seen, crashes, faults>>

Finished == {"completed", "partial", "failed"}
Phases == {"idle", "recording", "saving", "writing", "creating", "opening", "rendering",
           "replacing", "listing", "storing", "finishing", "reporting", "failing"}

Listed == {p \in Pages : row[p] # "none"}
FailedPages == {p \in Pages : row[p] = "failed"}

Fault == /\ faults < MaxFaults
         /\ faults' = faults + 1
NoFault == faults' = faults

Goto(s, phase) == pc' = [pc EXCEPT ![s] = phase]

(* The import of session s ends. *)
Tell(s, answer) ==
    /\ Goto(s, "idle")
    /\ told' = [told EXCEPT ![s] = answer]
    /\ resume' = [resume EXCEPT ![s] = FALSE]
    /\ holds' = [holds EXCEPT ![s] = FALSE]
    /\ known' = [known EXCEPT ![s] = 0]
    /\ at' = [at EXCEPT ![s] = 1]
    /\ bad' = [bad EXCEPT ![s] = {}]
    /\ seen' = [seen EXCEPT ![s] = {}]

Hold(s, count) ==
    /\ holds' = [holds EXCEPT ![s] = TRUE]
    /\ known' = [known EXCEPT ![s] = count]

-----------------------------------------------------------------------------
(***************************************************************************)
(* import_pdf up to the document row                                       *)
(***************************************************************************)
(* Mutant: a document nobody has counted the pages of is complete. *)
CompleteWithoutPages == Cardinality(Listed) = pageCount

Complete == pageCount > 0 /\ Cardinality(Listed) = pageCount

(* A complete duplicate is answered without a write. *)
Duplicate(s) ==
    /\ pc[s] = "idle"
    /\ status # "none" /\ Complete
    /\ Tell(s, "duplicate")
    /\ UNCHANGED <<library, temps, record, crashes, faults>>

(* Mutant: an unfinished document is not resumed. *)
BeginAfresh(s) ==
    /\ pc[s] = "idle"
    /\ ~(status # "none" /\ Complete)
    /\ Goto(s, "recording")
    /\ told' = [told EXCEPT ![s] = "none"]
    /\ UNCHANGED <<library, temps, record, resume, holds, known, at, bad, seen, crashes,
                   faults>>

Begin(s) ==
    /\ pc[s] = "idle"
    /\ ~(status # "none" /\ Complete)
    /\ Goto(s, "recording")
    /\ resume' = [resume EXCEPT ![s] = status # "none"]
    /\ known' = [known EXCEPT ![s] = pageCount]
    /\ told' = [told EXCEPT ![s] = "none"]
    /\ UNCHANGED <<library, temps, record, holds, at, bad, seen, crashes, faults>>

(* The probe or the creation of the record fails: a failed record is all
   that is left, if even that can be written. *)
BeginFails(s) ==
    /\ pc[s] \in {"idle", "recording"}
    /\ Fault
    /\ Tell(s, "error")
    /\ \E r \in {"processing", "failed", record[s]} : record' = [record EXCEPT ![s] = r]
    /\ UNCHANGED <<library, temps, crashes>>

CreateRecord(s) ==
    /\ pc[s] = "recording"
    /\ record' = [record EXCEPT ![s] = "processing"]
    /\ IF resume[s] THEN Goto(s, "opening") /\ Hold(s, known[s])
                    ELSE Goto(s, "saving") /\ UNCHANGED <<holds, known>>
    /\ UNCHANGED <<library, temps, told, resume, at, bad, seen, crashes, faults>>

(* A sound file is reused.  Otherwise temporary files found beside it are
   taken for leftovers of a killed run and removed, whoever's they are. *)
SaveRaw(s) ==
    /\ pc[s] = "saving"
    /\ IF raw THEN Goto(s, "creating") /\ UNCHANGED rawTemp
              ELSE Goto(s, "writing") /\ rawTemp' = {s}
    /\ UNCHANGED <<library, imageTemp, record, told, locals, crashes, faults>>

ReplaceRaw(s) ==
    /\ pc[s] = "writing"
    /\ s \in rawTemp
    /\ raw' = TRUE
    /\ rawTemp' = rawTemp \ {s}
    /\ Goto(s, "creating")
    /\ UNCHANGED <<status, pageCount, row, image, imageTemp, record, told, locals, crashes,
                   faults>>

RawFails(s) ==
    /\ pc[s] \in {"saving", "writing"}
    /\ \/ Fault
       \/ pc[s] = "writing" /\ s \notin rawTemp /\ NoFault
    /\ rawTemp' = rawTemp \ {s}
    /\ Goto(s, "failing")
    /\ UNCHANGED <<library, imageTemp, record, told, locals, crashes>>

CreateDocument(s) ==
    /\ pc[s] = "creating"
    /\ status = "none"
    /\ status' = "processing"
    /\ pageCount' = 0
    /\ Hold(s, 0)
    /\ Goto(s, "opening")
    /\ UNCHANGED <<raw, row, image, temps, record, told, resume, at, bad, seen, crashes,
                   faults>>

(* documents.sha256 is UNIQUE: another session was first. *)
CreateDocumentFails(s) ==
    /\ pc[s] = "creating"
    /\ \/ status # "none" /\ NoFault
       \/ Fault
    /\ Goto(s, "failing")
    /\ UNCHANGED <<library, temps, record, told, locals, crashes>>

-----------------------------------------------------------------------------
(***************************************************************************)
(* _process_document: first every page is rendered, then the rows are      *)
(* read, then the missing ones are created.                                *)
(***************************************************************************)
Open(s) ==
    /\ pc[s] = "opening"
    /\ raw
    /\ Goto(s, "rendering")
    /\ UNCHANGED <<library, temps, record, told, locals, crashes, faults>>

NextPage(s, rendered, stored) ==
    IF at[s] < PageCount
    THEN Goto(s, rendered) /\ at' = [at EXCEPT ![s] = @ + 1]
    ELSE Goto(s, stored) /\ at' = [at EXCEPT ![s] = 1]

(* A complete image is reused, by a resumed import only. *)
ReuseImage(s) ==
    /\ pc[s] = "rendering"
    /\ resume[s] /\ at[s] \in image
    /\ NextPage(s, "rendering", "listing")
    /\ UNCHANGED <<library, temps, record, told, resume, holds, known, bad, seen, crashes,
                   faults>>

(* Temporary images of this page are removed, whoever's they are. *)
RenderPage(s) ==
    /\ pc[s] = "rendering"
    /\ at[s] \notin image
    /\ imageTemp' = [imageTemp EXCEPT ![at[s]] = {s}]
    /\ Goto(s, "replacing")
    /\ UNCHANGED <<library, rawTemp, record, told, locals, crashes, faults>>

ReplaceImage(s) ==
    /\ pc[s] = "replacing"
    /\ s \in imageTemp[at[s]]
    /\ image' = image \cup {at[s]}
    /\ imageTemp' = [imageTemp EXCEPT ![at[s]] = @ \ {s}]
    /\ NextPage(s, "rendering", "listing")
    /\ UNCHANGED <<raw, status, pageCount, row, rawTemp, record, told, resume, holds, known,
                   bad, seen, crashes, faults>>

(* The failure of one page does not stop the import. *)
PageFails(s) ==
    /\ \/ pc[s] = "replacing" /\ s \notin imageTemp[at[s]] /\ NoFault
       \/ pc[s] = "replacing" /\ Fault
       \/ pc[s] = "rendering" /\ resume[s] /\ at[s] \in image /\ Fault
    /\ bad' = [bad EXCEPT ![s] = @ \cup {at[s]}]
    /\ imageTemp' = [imageTemp EXCEPT ![at[s]] = @ \ {s}]
    /\ NextPage(s, "rendering", "listing")
    /\ UNCHANGED <<library, rawTemp, record, told, resume, holds, known, seen, crashes>>

ListRows(s) ==
    /\ pc[s] = "listing"
    /\ seen' = [seen EXCEPT ![s] = Listed]
    /\ Goto(s, "storing")
    /\ UNCHANGED <<library, temps, record, told, resume, holds, known, at, bad, crashes,
                   faults>>

(* Mutant: a page whose rendering failed is stored like the others. *)
StorePageAsGood(s) ==
    /\ pc[s] = "storing"
    /\ \/ at[s] \in seen[s] /\ UNCHANGED row
       \/ at[s] \notin seen[s] \cup Listed /\ row' = [row EXCEPT ![at[s]] = "pending"]
    /\ NextPage(s, "storing", "finishing")
    /\ UNCHANGED <<raw, status, pageCount, image, temps, record, told, resume, holds, known,
                   bad, seen, crashes, faults>>

StorePage(s) ==
    /\ pc[s] = "storing"
    /\ \/ at[s] \in seen[s] /\ UNCHANGED row
       \/ /\ at[s] \notin seen[s] \cup Listed
          /\ row' = [row EXCEPT ![at[s]] = IF at[s] \in bad[s] THEN "failed" ELSE "pending"]
    /\ NextPage(s, "storing", "finishing")
    /\ UNCHANGED <<raw, status, pageCount, image, temps, record, told, resume, holds, known,
                   bad, seen, crashes, faults>>

Outcome ==
    IF FailedPages = Pages THEN "failed"
    ELSE IF FailedPages # {} THEN "partial" ELSE "completed"

Finish(s) ==
    /\ pc[s] = "finishing"
    /\ status' = Outcome
    /\ pageCount' = PageCount
    /\ Hold(s, PageCount)
    /\ Goto(s, "reporting")
    /\ UNCHANGED <<raw, row, image, temps, record, told, resume, at, bad, seen, crashes,
                   faults>>

(* The original is gone, an image of a new document already exists, a page
   row was created by another session, or an error. *)
ProcessFails(s) ==
    /\ \/ pc[s] = "opening" /\ ~raw /\ NoFault
       \/ pc[s] = "rendering" /\ ~resume[s] /\ at[s] \in image /\ NoFault
       \/ pc[s] = "storing" /\ at[s] \in Listed \ seen[s] /\ NoFault
       \/ pc[s] \in {"opening", "listing", "storing", "finishing", "reporting"} /\ Fault
    /\ Goto(s, "failing")
    /\ UNCHANGED <<library, temps, record, told, locals, crashes>>

-----------------------------------------------------------------------------
Report(s) ==
    /\ pc[s] = "reporting"
    /\ record' = [record EXCEPT ![s] = status]
    /\ Tell(s, "imported")
    /\ UNCHANGED <<library, temps, crashes, faults>>

(* _record_failure: the record, then the document with the page_count this
   import last read. *)
Fail(s) ==
    /\ pc[s] = "failing"
    /\ record' = [record EXCEPT ![s] = "failed"]
    /\ IF holds[s] THEN status' = "failed" /\ pageCount' = known[s]
                   ELSE UNCHANGED <<status, pageCount>>
    /\ Tell(s, "error")
    /\ UNCHANGED <<raw, row, image, temps, crashes, faults>>

(* The failure itself is recorded in part or not at all. *)
FailureLost(s) ==
    /\ pc[s] = "failing"
    /\ Fault
    /\ record' \in {record, [record EXCEPT ![s] = "failed"]}
    /\ Tell(s, "error")
    /\ UNCHANGED <<library, temps, crashes>>

(* The process dies.  The temporary files of dead sessions have no effect. *)
Crash ==
    /\ crashes < MaxCrashes
    /\ crashes' = crashes + 1
    /\ \E s \in Sessions : pc[s] # "idle"
    /\ pc' = [s \in Sessions |-> "idle"]
    /\ told' = [s \in Sessions |-> "none"]
    /\ resume' = [s \in Sessions |-> FALSE]
    /\ holds' = [s \in Sessions |-> FALSE]
    /\ known' = [s \in Sessions |-> 0]
    /\ at' = [s \in Sessions |-> 1]
    /\ bad' = [s \in Sessions |-> {}]
    /\ seen' = [s \in Sessions |-> {}]
    /\ rawTemp' = {}
    /\ imageTemp' = [p \in Pages |-> {}]
    /\ UNCHANGED <<library, record, faults>>

Init ==
    /\ raw = FALSE /\ rawTemp = {}
    /\ status = "none" /\ pageCount = 0
    /\ row = [p \in Pages |-> "none"]
    /\ image = {} /\ imageTemp = [p \in Pages |-> {}]
    /\ record = [s \in Sessions |-> "none"]
    /\ told = [s \in Sessions |-> "none"]
    /\ pc = [s \in Sessions |-> "idle"]
    /\ resume = [s \in Sessions |-> FALSE]
    /\ holds = [s \in Sessions |-> FALSE]
    /\ known = [s \in Sessions |-> 0]
    /\ at = [s \in Sessions |-> 1]
    /\ bad = [s \in Sessions |-> {}]
    /\ seen = [s \in Sessions |-> {}]
    /\ crashes = 0 /\ faults = 0

Start(s) == Duplicate(s) \/ Begin(s) \/ BeginFails(s)

Work(s) ==
    \/ CreateRecord(s) \/ SaveRaw(s) \/ ReplaceRaw(s) \/ RawFails(s)
    \/ CreateDocument(s) \/ CreateDocumentFails(s)
    \/ Open(s) \/ ReuseImage(s) \/ RenderPage(s) \/ ReplaceImage(s) \/ PageFails(s)
    \/ ListRows(s) \/ StorePage(s) \/ Finish(s) \/ ProcessFails(s)
    \/ Report(s) \/ Fail(s) \/ FailureLost(s)

Next == (\E s \in Sessions : Start(s) \/ Work(s)) \/ Crash

Spec == Init /\ [][Next]_vars

(* A running import does not stop halfway, and the user imports the file
   again as long as the import is not answered as a duplicate. *)
FairSpec ==
    /\ Spec
    /\ \A s \in Sessions : WF_vars(Work(s))
    /\ WF_vars(\E s \in Sessions : Begin(s))

-----------------------------------------------------------------------------
TypeOK ==
    /\ raw \in BOOLEAN /\ rawTemp \subseteq Sessions
    /\ status \in {"none", "processing"} \cup Finished
    /\ pageCount \in 0..PageCount
    /\ row \in [Pages -> {"none", "pending", "failed"}]
    /\ image \subseteq Pages /\ imageTemp \in [Pages -> SUBSET Sessions]
    /\ record \in [Sessions -> {"none", "processing"} \cup Finished]
    /\ told \in [Sessions -> {"none", "imported", "duplicate", "error"}]
    /\ pc \in [Sessions -> Phases]
    /\ resume \in [Sessions -> BOOLEAN] /\ holds \in [Sessions -> BOOLEAN]
    /\ known \in [Sessions -> 0..PageCount] /\ at \in [Sessions -> Pages]
    /\ bad \in [Sessions -> SUBSET Pages] /\ seen \in [Sessions -> SUBSET Pages]
    /\ crashes \in 0..MaxCrashes /\ faults \in 0..MaxFaults

(***************************************************************************)
(* A document that counts as imported is whole: its original is there, it  *)
(* has a row for every page, and an image for every page that did not      *)
(* fail.  Its status says whether a page failed.                           *)
(***************************************************************************)
ImportedIsWhole ==
    /\ status # "none" => raw
    /\ \A p \in Pages : row[p] = "pending" => p \in image
    /\ status \in {"completed", "partial"} =>
           /\ pageCount = PageCount
           /\ Listed = Pages
           /\ status = Outcome

(***************************************************************************)
(* No user is told that the file is in the library while a page has no     *)
(* row.                                                                    *)
(***************************************************************************)
AnswerIsTrue ==
    \A s \in Sessions : told[s] \in {"imported", "duplicate"} => status # "none" /\ Listed = Pages

(***************************************************************************)
(* A page only fails if its rendering fails, or the database or the disk,  *)
(* since the temporary images that are removed are those "left by killed   *)
(* earlier runs" (src/src/pdf_service.py:165).  It does not hold: those of *)
(* a running session are removed too (README, section 3).                  *)
(***************************************************************************)
PagesFailForACause == faults = 0 => FailedPages = {}

(***************************************************************************)
(* "Already imported" is only said of a document whose import succeeded    *)
(* (docs/v0.2.3-release-notes.md:21).  It does not hold after an error at  *)
(* the very end of an import (README, section 3).                          *)
(***************************************************************************)
DuplicateSucceeded ==
    \A s \in Sessions : told[s] = "duplicate" => status \in {"completed", "partial"}

(***************************************************************************)
(* The import implements what ImportPromise says, with its fairness: after *)
(* any crash or failure, importing the file again completes its rows.      *)
(***************************************************************************)
Promise == INSTANCE ImportPromise WITH entered <- status # "none", listed <- Listed
KeepsPromise == Promise!Spec
=============================================================================
