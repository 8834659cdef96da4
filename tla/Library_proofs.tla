--------------------------- MODULE Library_proofs ---------------------------
(***************************************************************************)
(* Theorems about what enters the library: the documents that are imported *)
(* (DocumentImport), and the databases that earlier programs have left     *)
(* (Migrations).                                                           *)
(***************************************************************************)
EXTENDS DocumentImport, Migrations, FiniteSetTheorems, FunctionTheorems, TLAPS

-----------------------------------------------------------------------------
(* The inductive invariant.                                                *)

\* The import works on a document that has a row.
Processing ==
    {"opening", "rendering", "replacing", "listing", "storing", "finishing", "reporting"}

\* It has not begun with the pages, or is done with all of them.
AtFirst == {"idle", "recording", "saving", "writing", "creating", "opening", "listing"}

\* The document row is there, and with it the original.
HasDocument(s) ==
    /\ resume[s] \/ holds[s] \/ pc[s] \in Processing => status # "none"
    /\ pc[s] = "creating" => raw

\* The pages that were rendered have an image or are known to have failed.
HasImages(s) ==
    /\ pc[s] \in AtFirst => at[s] = 1
    /\ \A p \in Pages :
          \/ pc[s] \in {"rendering", "replacing"} /\ p < at[s]
          \/ pc[s] \in {"listing", "storing"}
          => p \in image \cup bad[s]

\* The pages that were stored, by whichever session, have a row.
HasRows(s) ==
    /\ seen[s] \subseteq Listed
    /\ \A p \in Pages :
          \/ pc[s] = "storing" /\ p < at[s]
          \/ pc[s] \in {"finishing", "reporting"}
          => p \in Listed

\* A page count is that of the file, or the count of nothing yet.
Counts(s) == known[s] \in {0, PageCount}

Kept(s) == HasDocument(s) /\ HasImages(s) /\ HasRows(s) /\ Counts(s)

SessionsKeep == \A s \in Sessions : Kept(s)

IndInv ==
    /\ TypeOK /\ SessionsKeep /\ pageCount \in {0, PageCount}
    /\ ImportedIsWhole /\ AnswerIsTrue

-----------------------------------------------------------------------------
(***************************************************************************)
(* As many rows as pages: every page has one.                              *)
(***************************************************************************)
LEMMA CompleteMeansAll ==
    ASSUME ImportAssumption, pageCount \in {0, PageCount}, Complete
    PROVE  Listed = Pages
<1>1. pageCount = PageCount /\ Cardinality(Listed) = PageCount
  BY DEF Complete, ImportAssumption
<1>2. IsFiniteSet(Pages) /\ Cardinality(Pages) = PageCount
  BY FS_Interval, PageCount \in Int, 1 \in Int, ~(1 > PageCount) DEF Pages, ImportAssumption
<1>3. Listed \in SUBSET Pages
  BY DEF Listed
<1> QED
  BY <1>1, <1>2, <1>3, FS_Subset

(***************************************************************************)
(* An error is one of those that are allowed.                              *)
(***************************************************************************)
LEMMA FaultTyped ==
    ASSUME ImportAssumption, TypeOK, UNCHANGED faults \/ NoFault \/ Fault
    PROVE  faults' \in 0..MaxFaults
  BY DEF Fault, NoFault, TypeOK, ImportAssumption

(***************************************************************************)
(* The end of an import leaves nothing of it, and so nothing to answer for.*)
(***************************************************************************)
LEMMA TellTyped ==
    ASSUME ImportAssumption, TypeOK, NEW s \in Sessions,
           NEW answer \in {"imported", "duplicate", "error"}, Tell(s, answer)
    PROVE  /\ pc' \in [Sessions -> Phases]
           /\ told' \in [Sessions -> {"none", "imported", "duplicate", "error"}]
           /\ resume' \in [Sessions -> BOOLEAN] /\ holds' \in [Sessions -> BOOLEAN]
           /\ known' \in [Sessions -> 0..PageCount] /\ at' \in [Sessions -> Pages]
           /\ bad' \in [Sessions -> SUBSET Pages] /\ seen' \in [Sessions -> SUBSET Pages]
<1>1. 1 \in Pages /\ 0 \in 0..PageCount /\ "idle" \in Phases
  BY DEF Pages, Phases, ImportAssumption
<1> QED
  BY <1>1 DEF Tell, Goto, TypeOK

(***************************************************************************)
(* ... and nothing it could rely on wrongly.                               *)
(***************************************************************************)
LEMMA TellKeeps ==
    ASSUME TypeOK, NEW s \in Sessions, NEW answer, Tell(s, answer)
    PROVE  Kept(s)'
<1>1. /\ pc'[s] = "idle" /\ ~resume'[s] /\ ~holds'[s] /\ known'[s] = 0
      /\ at'[s] = 1 /\ seen'[s] = {}
  BY DEF Tell, Goto, TypeOK
<1> QED
  BY <1>1 DEF Kept, HasDocument, HasImages, HasRows, Counts, Processing

(***************************************************************************)
(* To the next page, or past the last one.                                 *)
(***************************************************************************)
LEMMA NextPageIs ==
    ASSUME ImportAssumption, TypeOK, NEW s \in Sessions, NEW a \in Phases, NEW b \in Phases,
           NextPage(s, a, b)
    PROVE  /\ pc' \in [Sessions -> Phases] /\ at' \in [Sessions -> Pages]
           /\ \A t \in Sessions \ {s} : pc'[t] = pc[t] /\ at'[t] = at[t]
           /\ \/ at[s] < PageCount /\ pc'[s] = a /\ at'[s] = at[s] + 1
              \/ at[s] = PageCount /\ pc'[s] = b /\ at'[s] = 1
<1>1. at[s] \in Pages /\ 1 \in Pages /\ (at[s] < PageCount => at[s] + 1 \in Pages)
      /\ (~(at[s] < PageCount) => at[s] = PageCount)
  BY DEF TypeOK, Pages, ImportAssumption
<1> QED
  BY <1>1 DEF NextPage, Goto, TypeOK

-----------------------------------------------------------------------------
(***************************************************************************)
(* Types.                                                                  *)
(***************************************************************************)
LEMMA StartTyped ==
    ASSUME ImportAssumption, TypeOK, NEW s \in Sessions, Start(s)
    PROVE  TypeOK'
<1>1. CASE Duplicate(s)
  BY <1>1, TellTyped DEF Duplicate, library, temps, TypeOK
<1>2. CASE Begin(s)
  BY <1>2 DEF Begin, Goto, library, temps, TypeOK, Phases
<1>3. CASE BeginFails(s)
  <2>1. record' \in [Sessions -> {"none", "processing"} \cup Finished]
    BY <1>3 DEF BeginFails, TypeOK, Finished
  <2> QED
    BY <1>3, <2>1, TellTyped, FaultTyped DEF BeginFails, library, temps, TypeOK
<1> QED
  BY <1>1, <1>2, <1>3 DEF Start

(***************************************************************************)
(* Up to the opening of the file.                                          *)
(***************************************************************************)
LEMMA OpeningTyped ==
    ASSUME ImportAssumption, TypeOK, NEW s \in Sessions,
           \/ CreateRecord(s) \/ SaveRaw(s) \/ ReplaceRaw(s) \/ RawFails(s)
           \/ CreateDocument(s) \/ CreateDocumentFails(s) \/ Open(s)
    PROVE  TypeOK'
<1>1. CASE CreateRecord(s)
  <2>1. "opening" \in Phases /\ "saving" \in Phases /\ known[s] \in 0..PageCount
    BY DEF Phases, TypeOK
  <2>2. pc' \in [Sessions -> Phases] /\ holds' \in [Sessions -> BOOLEAN]
        /\ known' \in [Sessions -> 0..PageCount]
    <3>1. CASE resume[s]
      <4>1. Goto(s, "opening") /\ Hold(s, known[s])
        BY <1>1, <3>1 DEF CreateRecord
      <4> QED
        BY <2>1, <4>1 DEF Hold, Goto, TypeOK
    <3>2. CASE ~resume[s]
      BY <1>1, <2>1, <3>2 DEF CreateRecord, Goto, TypeOK
    <3> QED
      BY <3>1, <3>2
  <2> QED
    BY <1>1, <2>2 DEF CreateRecord, library, temps, TypeOK
<1>2. CASE SaveRaw(s) \/ ReplaceRaw(s)
  <2>1. \E x \in {"creating", "writing"} : Goto(s, x)
    BY <1>2 DEF SaveRaw, ReplaceRaw
  <2>2. pc' \in [Sessions -> Phases]
    BY <2>1 DEF Goto, TypeOK, Phases
  <2> QED
    BY <1>2, <2>2 DEF SaveRaw, ReplaceRaw, library, locals, TypeOK
<1>3. CASE RawFails(s) \/ CreateDocumentFails(s)
  BY <1>3, FaultTyped DEF RawFails, CreateDocumentFails, Goto, library, temps, locals, TypeOK, Phases
<1>4. CASE CreateDocument(s)
  <2>1. 0 \in 0..PageCount
    BY DEF ImportAssumption
  <2> QED
    BY <1>4, <2>1 DEF CreateDocument, Hold, Goto, temps, TypeOK, Phases
<1>5. CASE Open(s)
  BY <1>5 DEF Open, Goto, library, temps, locals, TypeOK, Phases
<1> QED
  BY <1>1, <1>2, <1>3, <1>4, <1>5

(***************************************************************************)
(* The pages, rendered and stored.                                         *)
(***************************************************************************)
LEMMA PagesTyped ==
    ASSUME ImportAssumption, TypeOK, NEW s \in Sessions,
           \/ ReuseImage(s) \/ RenderPage(s) \/ ReplaceImage(s) \/ PageFails(s)
           \/ ListRows(s) \/ StorePage(s)
    PROVE  TypeOK'
<1>1. at[s] \in Pages /\ {"rendering", "listing", "storing", "finishing", "replacing"} \subseteq Phases
  BY DEF TypeOK, Phases
<1>2. CASE ReuseImage(s)
  BY <1>1, <1>2, NextPageIs DEF ReuseImage, library, temps, TypeOK
<1>3. CASE RenderPage(s)
  BY <1>1, <1>3 DEF RenderPage, Goto, library, locals, TypeOK
<1>4. CASE ReplaceImage(s)
  BY <1>1, <1>4, NextPageIs DEF ReplaceImage, TypeOK
<1>5. CASE PageFails(s)
  BY <1>1, <1>5, NextPageIs, FaultTyped DEF PageFails, library, TypeOK
<1>6. CASE ListRows(s)
  BY <1>1, <1>6 DEF ListRows, Listed, Goto, library, temps, TypeOK
<1>7. CASE StorePage(s)
  BY <1>1, <1>7, NextPageIs DEF StorePage, temps, TypeOK
<1> QED
  BY <1>2, <1>3, <1>4, <1>5, <1>6, <1>7

(***************************************************************************)
(* The end, good or bad.                                                   *)
(***************************************************************************)
LEMMA EndTyped ==
    ASSUME ImportAssumption, TypeOK, NEW s \in Sessions,
           Finish(s) \/ ProcessFails(s) \/ Report(s) \/ Fail(s) \/ FailureLost(s)
    PROVE  TypeOK'
<1>1. CASE Finish(s)
  <2>1. PageCount \in 0..PageCount
    BY DEF ImportAssumption
  <2> QED
    BY <1>1, <2>1 DEF Finish, Outcome, Hold, Goto, temps, TypeOK, Phases, Finished
<1>2. CASE ProcessFails(s)
  BY <1>2, FaultTyped DEF ProcessFails, Goto, library, temps, locals, TypeOK, Phases
<1>3. CASE Report(s)
  BY <1>3, TellTyped DEF Report, library, temps, TypeOK
<1>4. CASE Fail(s)
  BY <1>4, TellTyped DEF Fail, temps, TypeOK, Finished
<1>5. CASE FailureLost(s)
  BY <1>5, TellTyped, FaultTyped DEF FailureLost, library, temps, TypeOK, Finished
<1> QED
  BY <1>1, <1>2, <1>3, <1>4, <1>5

(***************************************************************************)
(* Every step.                                                             *)
(***************************************************************************)
LEMMA Typed ==
    ASSUME ImportAssumption, TypeOK, [Next]_vars
    PROVE  TypeOK'
<1>1. CASE Crash
  <2>1. 0 \in 0..PageCount /\ 1 \in Pages /\ "idle" \in Phases
    BY DEF ImportAssumption, Pages, Phases
  <2>2. crashes' \in 0..MaxCrashes
    BY <1>1 DEF Crash, TypeOK, ImportAssumption
  <2> QED
    BY <1>1, <2>1, <2>2 DEF Crash, library, TypeOK
<1>2. CASE UNCHANGED vars
  BY <1>2 DEF vars, TypeOK
<1> QED
  BY <1>1, <1>2, StartTyped, OpeningTyped, PagesTyped, EndTyped DEF Next, Work

-----------------------------------------------------------------------------
(***************************************************************************)
(* The library only grows: no step takes the original, an image, a row or  *)
(* the document away, nor changes a row once it is there.                  *)
(***************************************************************************)
Grows ==
    /\ raw => raw'
    /\ status # "none" => status' # "none"
    /\ image \subseteq image'
    /\ \A p \in Pages : row[p] # "none" => row'[p] = row[p]

(***************************************************************************)
(* Every step.                                                             *)
(***************************************************************************)
LEMMA LibraryGrows ==
    ASSUME ImportAssumption, TypeOK, SessionsKeep, [Next]_vars
    PROVE  Grows
<1>1. CASE UNCHANGED library
  BY <1>1 DEF library, Grows
<1>2. ASSUME NEW s \in Sessions, ReplaceRaw(s) PROVE Grows
  BY <1>2 DEF ReplaceRaw, Grows
<1>3. ASSUME NEW s \in Sessions, CreateDocument(s) PROVE Grows
  BY <1>3 DEF CreateDocument, Grows
<1>4. ASSUME NEW s \in Sessions, ReplaceImage(s) PROVE Grows
  BY <1>4 DEF ReplaceImage, Grows
<1>5. ASSUME NEW s \in Sessions, StorePage(s) PROVE Grows
  BY <1>5 DEF StorePage, Grows, Listed, TypeOK
<1>6. ASSUME NEW s \in Sessions, Finish(s) PROVE Grows
  BY <1>6 DEF Finish, Outcome, Grows
<1>7. ASSUME NEW s \in Sessions, Fail(s) PROVE Grows
  BY <1>7 DEF Fail, Grows
<1>8. ASSUME NEW s \in Sessions, Start(s) \/ Work(s) PROVE Grows
  BY <1>1, <1>2, <1>3, <1>4, <1>5, <1>6, <1>7, <1>8
  DEF Start, Work, Duplicate, Begin, BeginFails, CreateRecord, SaveRaw, RawFails, CreateDocumentFails,
      Open, ReuseImage, RenderPage, PageFails, ListRows, ProcessFails, Report, FailureLost
<1> QED
  BY <1>1, <1>8 DEF Next, Crash, vars, library

(***************************************************************************)
(* A page that is listed stays so.                                         *)
(***************************************************************************)
LEMMA ListedGrows ==
    ASSUME Grows
    PROVE  Listed \subseteq Listed'
  BY DEF Grows, Listed

(***************************************************************************)
(* What a session relies on stays true as the library grows.               *)
(***************************************************************************)
LEMMA OthersKeep ==
    ASSUME Grows, NEW t \in Sessions, Kept(t),
           pc'[t] = pc[t], resume'[t] = resume[t], holds'[t] = holds[t], known'[t] = known[t],
           at'[t] = at[t], bad'[t] = bad[t], seen'[t] = seen[t]
    PROVE  Kept(t)'
<1>1. HasDocument(t)'
  BY DEF Grows, Kept, HasDocument
<1>2. HasImages(t)'
  BY DEF Grows, Kept, HasImages
<1>3. HasRows(t)'
  BY ListedGrows DEF Kept, HasRows
<1> QED
  BY <1>1, <1>2, <1>3 DEF Kept, Counts

(***************************************************************************)
(* A step of one session leaves what the others hold to them.              *)
(***************************************************************************)
LEMMA StepsAlone ==
    ASSUME ImportAssumption, TypeOK, NEW s \in Sessions, Start(s) \/ Work(s), NEW t \in Sessions, t # s
    PROVE  /\ pc'[t] = pc[t] /\ resume'[t] = resume[t] /\ holds'[t] = holds[t]
           /\ known'[t] = known[t] /\ at'[t] = at[t] /\ bad'[t] = bad[t] /\ seen'[t] = seen[t]
           /\ told'[t] = told[t]
<1> DEFINE Goal == /\ pc'[t] = pc[t] /\ resume'[t] = resume[t] /\ holds'[t] = holds[t]
                   /\ known'[t] = known[t] /\ at'[t] = at[t] /\ bad'[t] = bad[t] /\ seen'[t] = seen[t]
                   /\ told'[t] = told[t]
<1>1. ASSUME NEW answer, Tell(s, answer) PROVE Goal
  BY <1>1 DEF Tell, Goto, TypeOK
<1>2. CASE Duplicate(s) \/ BeginFails(s) \/ Report(s) \/ Fail(s) \/ FailureLost(s)
  BY <1>1, <1>2 DEF Duplicate, BeginFails, Report, Fail, FailureLost
<1>3. CASE Begin(s)
  BY <1>3 DEF Begin, Goto, TypeOK
<1>4. CASE CreateRecord(s)
  BY <1>4 DEF CreateRecord, Hold, Goto, TypeOK
<1>5. CASE \/ SaveRaw(s) \/ ReplaceRaw(s) \/ RawFails(s) \/ CreateDocumentFails(s) \/ Open(s)
           \/ RenderPage(s) \/ ProcessFails(s)
  BY <1>5 DEF SaveRaw, ReplaceRaw, RawFails, CreateDocumentFails, Open, RenderPage, ProcessFails, Goto,
              locals, TypeOK
<1>6. CASE CreateDocument(s) \/ Finish(s)
  BY <1>6 DEF CreateDocument, Finish, Hold, Goto, TypeOK
<1>7. CASE ReuseImage(s) \/ ReplaceImage(s) \/ PageFails(s) \/ StorePage(s)
  BY <1>7 DEF ReuseImage, ReplaceImage, PageFails, StorePage, NextPage, Goto, TypeOK
<1>8. CASE ListRows(s)
  BY <1>8 DEF ListRows, Goto, TypeOK
<1> QED
  BY <1>2, <1>3, <1>4, <1>5, <1>6, <1>7, <1>8 DEF Start, Work

-----------------------------------------------------------------------------
(***************************************************************************)
(* What the session of the step relies on.                                 *)
(***************************************************************************)
LEMMA OpeningKeeps ==
    ASSUME ImportAssumption, IndInv, NEW s \in Sessions,
           \/ Start(s) \/ CreateRecord(s) \/ SaveRaw(s) \/ ReplaceRaw(s) \/ RawFails(s)
           \/ CreateDocument(s) \/ CreateDocumentFails(s) \/ Open(s)
    PROVE  Kept(s)'
<1> USE DEF IndInv, SessionsKeep
<1>1. CASE Duplicate(s) \/ BeginFails(s)
  BY <1>1, TellKeeps DEF Duplicate, BeginFails
<1>2. CASE Begin(s)
  <2>1. /\ pc[s] = "idle" /\ pc'[s] = "recording" /\ resume'[s] = (status # "none")
        /\ known'[s] = pageCount /\ holds'[s] = holds[s]
        /\ UNCHANGED <<library, at, bad, seen>>
    BY <1>2 DEF Begin, Goto, TypeOK
  <2> QED
    BY <2>1 DEF Kept, HasDocument, HasImages, HasRows, Counts, Processing, AtFirst, library, Listed
<1>3. CASE CreateRecord(s)
  <2>1. /\ pc[s] = "recording" /\ UNCHANGED <<library, at, bad, seen, resume>>
        /\ \/ resume[s] /\ pc'[s] = "opening" /\ known'[s] = known[s]
           \/ pc'[s] = "saving" /\ holds' = holds /\ known' = known
    BY <1>3 DEF CreateRecord, Goto, Hold, TypeOK
  <2> QED
    BY <2>1 DEF Kept, HasDocument, HasImages, HasRows, Counts, Processing, AtFirst, library, Listed
<1>4. CASE SaveRaw(s)
  <2>1. /\ pc[s] = "saving" /\ UNCHANGED <<library, locals>>
        /\ \/ raw /\ pc'[s] = "creating"
           \/ pc'[s] = "writing"
    BY <1>4 DEF SaveRaw, Goto, TypeOK
  <2> QED
    BY <2>1 DEF Kept, HasDocument, HasImages, HasRows, Counts, Processing, AtFirst, library, locals, Listed
<1>5. CASE ReplaceRaw(s)
  <2>1. pc[s] = "writing" /\ pc'[s] = "creating" /\ raw' /\ UNCHANGED <<status, row, image, locals>>
    BY <1>5 DEF ReplaceRaw, Goto, TypeOK
  <2> QED
    BY <2>1 DEF Kept, HasDocument, HasImages, HasRows, Counts, Processing, AtFirst, locals, Listed
<1>6. CASE RawFails(s) \/ CreateDocumentFails(s)
  <2>1. pc'[s] = "failing" /\ UNCHANGED <<library, locals>>
    BY <1>6 DEF RawFails, CreateDocumentFails, Goto, TypeOK
  <2> QED
    BY <2>1 DEF Kept, HasDocument, HasImages, HasRows, Counts, Processing, AtFirst, library, locals, Listed
<1>7. CASE CreateDocument(s)
  <2>1. /\ pc[s] = "creating" /\ pc'[s] = "opening" /\ status' # "none" /\ known'[s] = 0
        /\ UNCHANGED <<row, image, at, bad, seen>>
    BY <1>7 DEF CreateDocument, Hold, Goto, TypeOK
  <2> QED
    BY <2>1 DEF Kept, HasDocument, HasImages, HasRows, Counts, Processing, AtFirst, Listed
<1>8. CASE Open(s)
  <2>1. pc[s] = "opening" /\ pc'[s] = "rendering" /\ UNCHANGED <<library, locals>>
    BY <1>8 DEF Open, Goto, TypeOK
  <2>2. at[s] = 1
    BY <2>1 DEF Kept, HasImages, AtFirst
  <2>3. HasImages(s)'
    BY <2>1, <2>2 DEF HasImages, AtFirst, locals, Pages
  <2> QED
    BY <2>1, <2>3 DEF Kept, HasDocument, HasRows, Counts, Processing, library, locals, Listed
<1> QED
  BY <1>1, <1>2, <1>3, <1>4, <1>5, <1>6, <1>7, <1>8 DEF Start

(***************************************************************************)
(* The next page: what holds of the pages before this one holds of it too. *)
(***************************************************************************)
LEMMA RenderedKeeps ==
    ASSUME ImportAssumption, IndInv, NEW s \in Sessions, pc[s] \in {"rendering", "replacing"},
           NextPage(s, "rendering", "listing"), image \subseteq image', bad[s] \subseteq bad'[s],
           at[s] \in image' \cup bad'[s],
           UNCHANGED <<status, row, resume, holds, known, seen>>
    PROVE  Kept(s)'
<1> USE DEF IndInv, SessionsKeep
<1>1. /\ at[s] \in 1..PageCount
      /\ \/ at[s] < PageCount /\ pc'[s] = "rendering" /\ at'[s] = at[s] + 1
         \/ at[s] = PageCount /\ pc'[s] = "listing" /\ at'[s] = 1
  BY NextPageIs DEF TypeOK, Pages, Phases
<1>2. \A p \in Pages : p < at[s] \/ p = at[s] => p \in image' \cup bad'[s]
  BY DEF Kept, HasImages
<1>3. \A p \in Pages : pc'[s] = "listing" \/ p < at'[s] => p < at[s] \/ p = at[s]
  BY <1>1 DEF Pages
<1>4. HasImages(s)'
  BY <1>1, <1>2, <1>3 DEF HasImages, AtFirst
<1> QED
  BY <1>1, <1>4 DEF Kept, HasDocument, HasRows, Counts, Processing, Listed

(***************************************************************************)
(* The steps of the pages.                                                 *)
(***************************************************************************)
LEMMA PagesKeep ==
    ASSUME ImportAssumption, IndInv, NEW s \in Sessions,
           \/ ReuseImage(s) \/ RenderPage(s) \/ ReplaceImage(s) \/ PageFails(s)
           \/ ListRows(s) \/ StorePage(s)
    PROVE  Kept(s)'
<1> USE DEF IndInv, SessionsKeep
<1>1. CASE ReuseImage(s)
  BY <1>1, RenderedKeeps DEF ReuseImage, library
<1>2. CASE RenderPage(s)
  <2>1. pc[s] = "rendering" /\ pc'[s] = "replacing" /\ UNCHANGED <<library, locals>>
    BY <1>2 DEF RenderPage, Goto, TypeOK
  <2> QED
    BY <2>1 DEF Kept, HasDocument, HasImages, HasRows, Counts, Processing, AtFirst, library, locals, Listed
<1>3. CASE ReplaceImage(s)
  BY <1>3, RenderedKeeps DEF ReplaceImage
<1>4. CASE PageFails(s)
  <2>1. bad'[s] = bad[s] \cup {at[s]}
    BY <1>4 DEF PageFails, TypeOK
  <2> QED
    BY <1>4, <2>1, RenderedKeeps DEF PageFails, library
<1>5. CASE ListRows(s)
  <2>1. /\ pc[s] = "listing" /\ pc'[s] = "storing" /\ seen'[s] = Listed
        /\ UNCHANGED <<library, resume, holds, known, at, bad>>
    BY <1>5 DEF ListRows, Goto, TypeOK
  <2>2. at[s] = 1
    BY <2>1 DEF Kept, HasImages, AtFirst
  <2>3. HasRows(s)'
    BY <2>1, <2>2 DEF HasRows, library, Listed, Pages
  <2> QED
    BY <2>1, <2>3 DEF Kept, HasDocument, HasImages, Counts, Processing, AtFirst, library
<1>6. CASE StorePage(s)
  <2>1. /\ at[s] \in Pages
        /\ \/ at[s] < PageCount /\ pc'[s] = "storing" /\ at'[s] = at[s] + 1
           \/ at[s] = PageCount /\ pc'[s] = "finishing" /\ at'[s] = 1
    BY <1>6, NextPageIs DEF StorePage, TypeOK, Phases
  <2>2. /\ pc[s] = "storing" /\ UNCHANGED <<status, image, resume, holds, known, bad, seen>>
    BY <1>6 DEF StorePage
  <2>3. Listed \subseteq Listed' /\ at[s] \in Listed'
    BY <1>6, <2>1 DEF StorePage, Listed, TypeOK, Kept, HasRows
  <2>4. \A p \in Pages : p < at[s] \/ p = at[s] => p \in Listed'
    BY <2>2, <2>3 DEF Kept, HasRows
  <2>5. \A p \in Pages : pc'[s] = "finishing" \/ p < at'[s] => p < at[s] \/ p = at[s]
    BY <2>1 DEF Pages
  <2>6. HasRows(s)'
    BY <2>1, <2>2, <2>3, <2>4, <2>5 DEF Kept, HasRows
  <2> QED
    BY <2>1, <2>2, <2>6 DEF Kept, HasDocument, HasImages, Counts, Processing, AtFirst
<1> QED
  BY <1>1, <1>2, <1>3, <1>4, <1>5, <1>6

(***************************************************************************)
(* The end of an import.                                                   *)
(***************************************************************************)
LEMMA EndKeeps ==
    ASSUME ImportAssumption, IndInv, NEW s \in Sessions,
           Finish(s) \/ ProcessFails(s) \/ Report(s) \/ Fail(s) \/ FailureLost(s)
    PROVE  Kept(s)'
<1> USE DEF IndInv, SessionsKeep
<1>1. CASE Finish(s)
  <2>1. /\ pc[s] = "finishing" /\ pc'[s] = "reporting" /\ status' # "none" /\ known'[s] = PageCount
        /\ UNCHANGED <<row, image, at, bad, seen>>
    BY <1>1 DEF Finish, Outcome, Hold, Goto, TypeOK
  <2> QED
    BY <2>1 DEF Kept, HasDocument, HasImages, HasRows, Counts, AtFirst, Listed
<1>2. CASE ProcessFails(s)
  <2>1. pc'[s] = "failing" /\ UNCHANGED <<library, locals>>
    BY <1>2 DEF ProcessFails, Goto, TypeOK
  <2> QED
    BY <2>1 DEF Kept, HasDocument, HasImages, HasRows, Counts, Processing, AtFirst, library, locals, Listed
<1>3. CASE Report(s) \/ Fail(s) \/ FailureLost(s)
  BY <1>3, TellKeeps DEF Report, Fail, FailureLost
<1> QED
  BY <1>1, <1>2, <1>3

-----------------------------------------------------------------------------
(***************************************************************************)
(* The status and the page count of the row are written by three steps.    *)
(***************************************************************************)
LEMMA StatusSteps ==
    ASSUME [Next]_vars
    PROVE  \/ UNCHANGED <<status, pageCount>>
           \/ \E s \in Sessions : CreateDocument(s) \/ Finish(s) \/ Fail(s)
  BY DEF Next, Start, Work, Duplicate, Begin, BeginFails, CreateRecord, SaveRaw, ReplaceRaw, RawFails,
         CreateDocumentFails, Open, ReuseImage, RenderPage, ReplaceImage, PageFails, ListRows,
         StorePage, ProcessFails, Report, FailureLost, Crash, vars, library

(***************************************************************************)
(* The page rows are written by one.                                       *)
(***************************************************************************)
LEMMA RowSteps ==
    ASSUME [Next]_vars
    PROVE  UNCHANGED row \/ \E s \in Sessions : StorePage(s)
  BY DEF Next, Start, Work, Duplicate, Begin, BeginFails, CreateRecord, SaveRaw, ReplaceRaw, RawFails,
         CreateDocument, CreateDocumentFails, Open, ReuseImage, RenderPage, ReplaceImage, PageFails,
         ListRows, Finish, ProcessFails, Report, Fail, FailureLost, Crash, vars, library

(***************************************************************************)
(* When every page has a row, no step changes what they say.               *)
(***************************************************************************)
LEMMA OutcomeStays ==
    ASSUME TypeOK, TypeOK', Grows, Listed = Pages
    PROVE  row' = row /\ Listed' = Pages /\ Outcome' = Outcome
<1>1. \A p \in Pages : row'[p] = row[p]
  BY DEF Grows, Listed
<1>2. row' = row
  BY <1>1 DEF TypeOK
<1> QED
  BY <1>2 DEF Listed, Outcome, FailedPages

(***************************************************************************)
(* A document that counts as imported stays whole, and becomes so only     *)
(* when the last of its pages has its row.                                 *)
(***************************************************************************)
LEMMA WholeKeeps ==
    ASSUME ImportAssumption, IndInv, [Next]_vars
    PROVE  ImportedIsWhole' /\ pageCount' \in {0, PageCount}
<1> USE DEF IndInv, SessionsKeep
<1>1. Grows
  BY LibraryGrows
<1>2. status' # "none" => raw'
  <2>1. ASSUME NEW s \in Sessions, CreateDocument(s) PROVE raw'
    BY <2>1 DEF CreateDocument, Kept, HasDocument
  <2>2. ASSUME NEW s \in Sessions, Finish(s) PROVE raw'
    BY <2>2, <1>1 DEF Finish, Kept, HasDocument, Processing, ImportedIsWhole, Grows
  <2>3. ASSUME NEW s \in Sessions, Fail(s), status' # "none" PROVE raw'
    BY <2>3, <1>1 DEF Fail, Kept, HasDocument, ImportedIsWhole, Grows
  <2> QED
    BY <2>1, <2>2, <2>3, <1>1, StatusSteps DEF ImportedIsWhole, Grows
<1>3. \A p \in Pages : row'[p] = "pending" => p \in image'
  <2>1. ASSUME NEW s \in Sessions, StorePage(s), NEW p \in Pages, row'[p] = "pending"
        PROVE  p \in image'
    <3>1. row[p] = "pending" \/ (p = at[s] /\ p \notin bad[s])
      BY <2>1 DEF StorePage, TypeOK
    <3>2. pc[s] = "storing"
      BY <2>1 DEF StorePage
    <3> QED
      BY <3>1, <3>2, <1>1 DEF Kept, HasImages, ImportedIsWhole, Grows
  <2> QED
    BY <2>1, <1>1, RowSteps DEF ImportedIsWhole, Grows
<1>4. status' \in {"completed", "partial"} =>
          pageCount' = PageCount /\ Listed' = Pages /\ status' = Outcome'
  <2>1. TypeOK'
    BY Typed
  <2>2. CASE UNCHANGED <<status, pageCount>>
    BY <1>1, <2>1, <2>2, OutcomeStays DEF ImportedIsWhole
  <2>3. ASSUME NEW s \in Sessions, CreateDocument(s) PROVE status' = "processing"
    BY <2>3 DEF CreateDocument
  <2>4. ASSUME NEW s \in Sessions, Finish(s)
        PROVE  pageCount' = PageCount /\ Listed' = Pages /\ status' = Outcome'
    <3>1. Listed = Pages
      BY <2>4 DEF Finish, Kept, HasRows, Listed
    <3> QED
      BY <1>1, <2>1, <2>4, <3>1, OutcomeStays DEF Finish
  <2>5. ASSUME NEW s \in Sessions, Fail(s)
        PROVE  status' = "failed" \/ UNCHANGED <<status, pageCount>>
    BY <2>5 DEF Fail
  <2> QED
    BY <2>2, <2>3, <2>4, <2>5, StatusSteps
<1>5. pageCount' \in {0, PageCount}
  BY StatusSteps DEF CreateDocument, Finish, Fail, Kept, Counts
<1> QED
  BY <1>2, <1>3, <1>4, <1>5 DEF ImportedIsWhole

(***************************************************************************)
(* A user is told of a complete document only.                             *)
(***************************************************************************)
LEMMA AnswerKeeps ==
    ASSUME ImportAssumption, IndInv, [Next]_vars
    PROVE  AnswerIsTrue'
<1> USE DEF IndInv, SessionsKeep
<1>1. Grows /\ Listed \subseteq Listed' /\ Listed' \subseteq Pages
  BY LibraryGrows, ListedGrows DEF Listed
<1>2. ASSUME NEW s \in Sessions, told'[s] \in {"imported", "duplicate"}, told'[s] = told[s]
      PROVE  status' # "none" /\ Listed' = Pages
  BY <1>1, <1>2 DEF AnswerIsTrue, Grows
<1>3. ASSUME NEW s \in Sessions, Start(s) \/ Work(s), told'[s] # told[s],
             told'[s] \in {"imported", "duplicate"}
      PROVE  status' # "none" /\ Listed' = Pages
  <2>1. Duplicate(s) \/ Report(s)
    <3>1. Duplicate(s) \/ Report(s) \/ Tell(s, "error") \/ told' \in {told, [told EXCEPT ![s] = "none"]}
      BY <1>3 DEF Start, Work, Begin, BeginFails, CreateRecord, SaveRaw, ReplaceRaw, RawFails,
                  CreateDocument, CreateDocumentFails, Open, ReuseImage, RenderPage, ReplaceImage,
                  PageFails, ListRows, StorePage, Finish, ProcessFails, Fail, FailureLost
    <3> QED
      BY <1>3, <3>1 DEF Tell, TypeOK
  <2>2. status # "none" /\ Listed = Pages
    <3>1. CASE Duplicate(s)
      BY <3>1, CompleteMeansAll DEF Duplicate
    <3>2. CASE Report(s)
      BY <3>2 DEF Report, Kept, HasDocument, HasRows, Processing, Listed
    <3> QED
      BY <2>1, <3>1, <3>2
  <2> QED
    BY <1>1, <2>2 DEF Grows
<1>4. ASSUME NEW s \in Sessions, told'[s] \in {"imported", "duplicate"}
      PROVE  status' # "none" /\ Listed' = Pages
  <2>1. CASE told'[s] = told[s]
    BY <1>2, <1>4, <2>1
  <2>2. CASE told'[s] # told[s]
    <3>1. Start(s) \/ Work(s)
      BY <1>4, <2>2, StepsAlone DEF Next, Crash, vars
    <3> QED
      BY <1>3, <1>4, <2>2, <3>1
  <2> QED
    BY <2>1, <2>2
<1> QED
  BY <1>4 DEF AnswerIsTrue

(***************************************************************************)
(* Every step keeps what all sessions rely on.                             *)
(***************************************************************************)
LEMMA SessionsStillKeep ==
    ASSUME ImportAssumption, IndInv, [Next]_vars
    PROVE  SessionsKeep'
<1>1. Grows
  BY LibraryGrows DEF IndInv
<1>2. ASSUME NEW s \in Sessions, Start(s) \/ Work(s), NEW t \in Sessions PROVE Kept(t)'
  <2>1. CASE t = s
    BY <1>2, <2>1, OpeningKeeps, PagesKeep, EndKeeps DEF Work
  <2>2. CASE t # s
    BY <1>1, <1>2, <2>2, StepsAlone, OthersKeep DEF IndInv, SessionsKeep
  <2> QED
    BY <2>1, <2>2
<1>3. ASSUME Crash, NEW t \in Sessions PROVE Kept(t)'
  <2>1. /\ pc'[t] = "idle" /\ ~resume'[t] /\ ~holds'[t] /\ known'[t] = 0
        /\ at'[t] = 1 /\ seen'[t] = {}
    BY <1>3 DEF Crash
  <2> QED
    BY <2>1 DEF Kept, HasDocument, HasImages, HasRows, Counts, Processing
<1>4. ASSUME UNCHANGED vars, NEW t \in Sessions PROVE Kept(t)'
  BY <1>1, <1>4, OthersKeep DEF vars, IndInv, SessionsKeep
<1> QED
  BY <1>2, <1>3, <1>4 DEF SessionsKeep, Next

-----------------------------------------------------------------------------
(***************************************************************************)
(* The invariant holds before anything is imported.                        *)
(***************************************************************************)
LEMMA Initially ==
    ASSUME ImportAssumption, Init
    PROVE  IndInv
<1>1. TypeOK
  <2>1. 1 \in Pages /\ 0 \in 0..PageCount /\ 0 \in 0..MaxCrashes /\ 0 \in 0..MaxFaults
        /\ "idle" \in Phases
    BY DEF Pages, Phases, ImportAssumption
  <2> QED
    BY <2>1 DEF Init, TypeOK
<1>2. SessionsKeep
  BY DEF Init, SessionsKeep, Kept, HasDocument, HasImages, HasRows, Counts, Processing
<1>3. pageCount \in {0, PageCount} /\ ImportedIsWhole /\ AnswerIsTrue
  BY DEF Init, ImportedIsWhole, AnswerIsTrue
<1> QED
  BY <1>1, <1>2, <1>3 DEF IndInv

(***************************************************************************)
(* Hence it holds of every behaviour.                                      *)
(***************************************************************************)
THEOREM Invariance == Spec => []IndInv
<1>1. Init => IndInv
  BY Initially, ImportAssumption
<1>2. IndInv /\ [Next]_vars => IndInv'
  BY Typed, SessionsStillKeep, WholeKeeps, AnswerKeeps, ImportAssumption DEF IndInv
<1> QED
  BY <1>1, <1>2, PTL DEF Spec

(***************************************************************************)
(* The library and what the imports hold keep their types.                 *)
(***************************************************************************)
THEOREM Typing == Spec => []TypeOK
<1>1. IndInv => TypeOK
  BY DEF IndInv
<1> QED
  BY <1>1, Invariance, PTL

(***************************************************************************)
(* A document that counts as imported is whole, whichever sessions have    *)
(* imported it together and whatever failed or died on the way.            *)
(***************************************************************************)
THEOREM ImportsAreWhole == Spec => []ImportedIsWhole
<1>1. IndInv => ImportedIsWhole
  BY DEF IndInv
<1> QED
  BY <1>1, Invariance, PTL

(***************************************************************************)
(* "Imported" and "already imported" are said of a document with a row for *)
(* every page only.                                                        *)
(***************************************************************************)
THEOREM AnswersAreTrue == Spec => []AnswerIsTrue
<1>1. IndInv => AnswerIsTrue
  BY DEF IndInv
<1> QED
  BY <1>1, Invariance, PTL

(***************************************************************************)
(* Nothing an import has stored is taken away or changed by a later step,  *)
(* of any session, or by a crash.                                          *)
(***************************************************************************)
THEOREM StoredStays == Spec => [][Grows]_vars
<1>1. IndInv /\ [Next]_vars => Grows
  BY LibraryGrows, ImportAssumption DEF IndInv
<1> QED
  BY <1>1, Invariance, PTL DEF Spec

(***************************************************************************)
(* Step by step the import does what ImportPromise says: it enters the     *)
(* document once, and lists a page once and only of an entered document.   *)
(***************************************************************************)
LEMMA StepsKeepPromise ==
    ASSUME ImportAssumption, IndInv, [Next]_vars
    PROVE  [Promise!Next]_(Promise!vars)
<1>1. Grows /\ TypeOK
  BY LibraryGrows DEF IndInv
<1>2. CASE UNCHANGED row
  <2>1. UNCHANGED Listed
    BY <1>2 DEF Listed
  <2>2. CASE status = "none" /\ status' # "none"
    BY <2>1, <2>2 DEF Promise!Next, Promise!Enter
  <2>3. CASE ~(status = "none" /\ status' # "none")
    <3>1. (status # "none")' = (status # "none")
      BY <1>1, <2>3 DEF Grows
    <3> QED
      BY <2>1, <3>1 DEF Promise!vars
  <2> QED
    BY <2>2, <2>3
<1>3. ASSUME NEW s \in Sessions, StorePage(s), row' # row
      PROVE  Promise!List(at[s]) /\ at[s] \in Pages
  <2>1. /\ pc[s] = "storing" /\ UNCHANGED status /\ at[s] \in Pages /\ at[s] \notin Listed
        /\ \E v \in {"failed", "pending"} : row' = [row EXCEPT ![at[s]] = v]
    BY <1>1, <1>3 DEF StorePage, TypeOK
  <2>2. Listed' = Listed \cup {at[s]}
    BY <1>1, <2>1 DEF Listed, TypeOK
  <2>3. status # "none"
    BY <2>1 DEF IndInv, SessionsKeep, Kept, HasDocument, Processing
  <2> QED
    BY <2>1, <2>2, <2>3 DEF Promise!List
<1> QED
  BY <1>2, <1>3, RowSteps DEF Promise!Next

(***************************************************************************)
(* Hence every behaviour of the import is one of ImportPromise, but for its *)
(* fairness, which TLC checks (KeepsPromise).                              *)
(***************************************************************************)
THEOREM ImportRefinesPromise == Spec => Promise!Init /\ [][Promise!Next]_(Promise!vars)
<1>1. Init => Promise!Init
  BY DEF Init, Promise!Init, Listed
<1>2. IndInv /\ [Next]_vars => [Promise!Next]_(Promise!vars)
  BY StepsKeepPromise, ImportAssumption
<1> QED
  BY <1>1, <1>2, Invariance, PTL DEF Spec

-----------------------------------------------------------------------------
(***************************************************************************)
(* The migrations of earlier databases.                                    *)
(***************************************************************************)
(***************************************************************************)
(* A value has the form of a database: the fields, and the tables by id.   *)
(***************************************************************************)
Fields(versions, schema, pages, items, objects, entries, history, orphans, indexed) ==
    [versions |-> versions, schema |-> schema, pages |-> pages, items |-> items,
     objects |-> objects, entries |-> entries, history |-> history,
     orphans |-> orphans, indexed |-> indexed]

Database(d) ==
    /\ d = Fields(d.versions, d.schema, d.pages, d.items, d.objects, d.entries,
                  d.history, d.orphans, d.indexed)
    /\ DOMAIN d.pages = PageIds /\ DOMAIN d.items = Items
    /\ DOMAIN d.objects = Objects /\ DOMAIN d.entries = Entries
    /\ \E n \in 0 .. SCHEMA_VERSION : d.versions = 1 .. n

\* The same rows.
Alike(d, e) ==
    /\ d.pages = e.pages /\ d.items = e.items /\ d.objects = e.objects
    /\ d.entries = e.entries /\ d.history = e.history
    /\ d.orphans = e.orphans /\ d.indexed = e.indexed

USE DEF SCHEMA_VERSION

\* The fields of a database by name.
LEMMA FieldsOf ==
    ASSUME NEW a, NEW b, NEW x, NEW y, NEW z, NEW u, NEW h, NEW n, NEW i
    PROVE  /\ Fields(a, b, x, y, z, u, h, n, i).versions = a
           /\ Fields(a, b, x, y, z, u, h, n, i).schema = b
           /\ Fields(a, b, x, y, z, u, h, n, i).pages = x
           /\ Fields(a, b, x, y, z, u, h, n, i).items = y
           /\ Fields(a, b, x, y, z, u, h, n, i).objects = z
           /\ Fields(a, b, x, y, z, u, h, n, i).entries = u
           /\ Fields(a, b, x, y, z, u, h, n, i).history = h
           /\ Fields(a, b, x, y, z, u, h, n, i).orphans = n
           /\ Fields(a, b, x, y, z, u, h, n, i).indexed = i
BY DEF Fields

\* The fields of a value that is made of them.
LEMMA FieldsKnown ==
    ASSUME NEW d, NEW a, NEW b, NEW x, NEW y, NEW z, NEW u, NEW h, NEW n, NEW i,
           d = Fields(a, b, x, y, z, u, h, n, i)
    PROVE  /\ d.versions = a /\ d.schema = b /\ d.pages = x /\ d.items = y
           /\ d.objects = z /\ d.entries = u /\ d.history = h /\ d.orphans = n
           /\ d.indexed = i
           /\ d = Fields(d.versions, d.schema, d.pages, d.items, d.objects, d.entries,
                         d.history, d.orphans, d.indexed)
<1>1. /\ d.versions = a /\ d.schema = b /\ d.pages = x /\ d.items = y
      /\ d.objects = z /\ d.entries = u /\ d.history = h /\ d.orphans = n
      /\ d.indexed = i
      BY FieldsOf
<1> QED  BY <1>1

\* One field of a database replaced.
WithVersions(d, new) == [d EXCEPT !.versions = new]
WithSchema(d, new) == [d EXCEPT !.schema = new]
WithPages(d, new) == [d EXCEPT !.pages = new]
WithItems(d, new) == [d EXCEPT !.items = new]
WithObjects(d, new) == [d EXCEPT !.objects = new]
WithEntries(d, new) == [d EXCEPT !.entries = new]
WithHistory(d, new) == [d EXCEPT !.history = new]
WithOrphans(d, new) == [d EXCEPT !.orphans = new]
WithIndexed(d, new) == [d EXCEPT !.indexed = new]

\* The database with the field replaced, by its fields.
LEMMA FieldReplaced ==
    ASSUME NEW d, NEW a, NEW b, NEW x, NEW y, NEW z, NEW u, NEW h, NEW n, NEW i,
           d = Fields(a, b, x, y, z, u, h, n, i), NEW new
    PROVE  /\ WithVersions(d, new) = Fields(new, b, x, y, z, u, h, n, i)
           /\ WithSchema(d, new) = Fields(a, new, x, y, z, u, h, n, i)
           /\ WithPages(d, new) = Fields(a, b, new, y, z, u, h, n, i)
           /\ WithItems(d, new) = Fields(a, b, x, new, z, u, h, n, i)
           /\ WithObjects(d, new) = Fields(a, b, x, y, new, u, h, n, i)
           /\ WithEntries(d, new) = Fields(a, b, x, y, z, new, h, n, i)
           /\ WithHistory(d, new) = Fields(a, b, x, y, z, u, new, n, i)
           /\ WithOrphans(d, new) = Fields(a, b, x, y, z, u, h, new, i)
           /\ WithIndexed(d, new) = Fields(a, b, x, y, z, u, h, n, new)
BY DEF Fields, WithVersions, WithSchema, WithPages, WithItems,
       WithObjects, WithEntries, WithHistory, WithOrphans, WithIndexed

\* Databases with the same rows are the same library.
LEMMA AlikeIsLibrary ==
    ASSUME NEW d, NEW e
    PROVE  Alike(d, e) <=> Library(d) = Library(e)
<1> DEFINE L(x) == [pages |-> x.pages, items |-> x.items, objects |-> x.objects,
                    entries |-> x.entries, history |-> x.history,
                    orphans |-> x.orphans, indexed |-> x.indexed]
<1>1. \A x : Library(x) = L(x)  BY DEF Library
<1>2. \A x : /\ L(x).pages = x.pages /\ L(x).items = x.items
             /\ L(x).objects = x.objects /\ L(x).entries = x.entries
             /\ L(x).history = x.history /\ L(x).orphans = x.orphans
             /\ L(x).indexed = x.indexed
      OBVIOUS
<1>3. ASSUME Alike(d, e) PROVE L(d) = L(e)  BY <1>3 DEF Alike
<1>4. ASSUME L(d) = L(e) PROVE Alike(d, e)
    <2> HIDE DEF L
    <2> QED  BY <1>2, <1>4 DEF Alike
<1> QED  BY <1>1, <1>3, <1>4

\* The version of a database whose versions are the first n.
LEMMA VersionIs ==
    ASSUME NEW d, NEW n \in 0 .. SCHEMA_VERSION, d.versions = 1 .. n
    PROVE  Version(d) = n
<1>1. CASE n = 0
    <2>1. d.versions = {}  BY <1>1
    <2> QED  BY <2>1, <1>1 DEF Version
<1>2. CASE n # 0
    <2>1. n \in d.versions /\ \A w \in d.versions : w <= n  BY <1>2
    <2>2. \A v \in d.versions : (\A w \in d.versions : w <= v) => v = n  BY <2>1
    <2>3. (CHOOSE v \in d.versions : \A w \in d.versions : w <= v) = n
          BY <2>1, <2>2
    <2> QED  BY <2>1, <2>3 DEF Version
<1> QED  BY <1>1, <1>2

\* A database has a version, and its versions are the ones up to it.
LEMMA VersionType ==
    ASSUME NEW d, Database(d)
    PROVE  Version(d) \in 0 .. SCHEMA_VERSION /\ d.versions = 1 .. Version(d)
<1> PICK n \in 0 .. SCHEMA_VERSION : d.versions = 1 .. n  BY DEF Database
<1> QED  BY VersionIs

\* The version is read off the rows of schema_migrations alone.
LEMMA VersionOfVersions ==
    ASSUME NEW d, NEW e, d.versions = e.versions
    PROVE  Version(d) = Version(e)
BY DEF Version

-----------------------------------------------------------------------------
(* What the versions make of the rows, field by field.                     *)

PagesAfterV2(d) == Rewrite(d.pages, PageV2)
PagesAfterV3(d) == Rewrite(d.pages, PageV3)
ItemsAfterV7(d) == Rewrite(d.items, ItemV7)
EntriesAfterV13(d) == Rewrite(d.entries, EntryV13)

\* Versions 2, 3, 7 and 13 rewrite one table.
LEMMA OneTable ==
    ASSUME NEW d, Database(d)
    PROVE  /\ V2(d) = Fields(d.versions, d.schema, PagesAfterV2(d), d.items,
                            d.objects, d.entries, d.history, d.orphans,
                            d.indexed)
           /\ V3(d) = Fields(d.versions, d.schema, PagesAfterV3(d), d.items,
                            d.objects, d.entries, d.history, d.orphans,
                            d.indexed)
           /\ V7(d) = Fields(d.versions, d.schema, d.pages, ItemsAfterV7(d),
                            d.objects, d.entries, d.history, d.orphans,
                            d.indexed)
           /\ V13(d) = Fields(d.versions, d.schema, d.pages, d.items, d.objects,
                             EntriesAfterV13(d), d.history, d.orphans,
                             d.indexed)
<1>1. d = Fields(d.versions, d.schema, d.pages, d.items, d.objects, d.entries,
                 d.history, d.orphans, d.indexed)
      BY DEF Database
<1>2. /\ V2(d) = WithPages(d, PagesAfterV2(d))
      /\ V3(d) = WithPages(d, PagesAfterV3(d))
      /\ V7(d) = WithItems(d, ItemsAfterV7(d))
      /\ V13(d) = WithEntries(d, EntriesAfterV13(d))
      BY DEF V2, V3, V7, V13, PagesAfterV2, PagesAfterV3, ItemsAfterV7, EntriesAfterV13,
             WithPages, WithItems, WithEntries
<1> QED  BY <1>1, <1>2, FieldReplaced

\* What version 10 makes of the objects, their history, the log and the entries.
ObjectsAfterV10(d) ==
    [o \in Objects |-> IF d.objects[o] = None THEN None
                       ELSE ObjectV10(d.objects[o], Cardinality(Changes(d, o)))]
HistoryAfterV10(d) ==
    [o \in Objects |-> IF d.objects[o] = None THEN << >>
                       ELSE HistoryV10(Cardinality(Changes(d, o)))]
EntriesAfterV10(d) == Rewrite(d.entries, EntryV10)
IndexedAfterV11(d) ==
    {o \in Objects : d.objects[o] # None} \cup {e \in Entries : d.entries[e] # None}

\* Version 10 rewrites four tables, version 11 the full-text index.
LEMMA ManyTables ==
    ASSUME NEW d, Database(d)
    PROVE  /\ V10(d) =
                  Fields(d.versions, d.schema, d.pages, d.items,
                         ObjectsAfterV10(d), EntriesAfterV10(d),
                         HistoryAfterV10(d), Cardinality(Changes(d, None)),
                         d.indexed)
           /\ V11(d) = Fields(d.versions, d.schema, d.pages, d.items, d.objects,
                             d.entries, d.history, d.orphans,
                             IndexedAfterV11(d))
<1>1. d = Fields(d.versions, d.schema, d.pages, d.items, d.objects, d.entries,
                 d.history, d.orphans, d.indexed)
      BY DEF Database
<1>2. V10(d) = Fields(d.versions, d.schema, d.pages, d.items, ObjectsAfterV10(d),
                      EntriesAfterV10(d), HistoryAfterV10(d),
                      Cardinality(Changes(d, None)), d.indexed)
    <2> DEFINE d1 == WithObjects(d, ObjectsAfterV10(d))
               d2 == WithHistory(d1, HistoryAfterV10(d))
               d3 == WithOrphans(d2, Cardinality(Changes(d, None)))
               d4 == WithEntries(d3, EntriesAfterV10(d))
    <2>1. V10(d) = d4
          BY DEF V10, ObjectsAfterV10, HistoryAfterV10, EntriesAfterV10,
                 WithObjects, WithHistory, WithOrphans, WithEntries
    <2>2. d1 = Fields(d.versions, d.schema, d.pages, d.items, ObjectsAfterV10(d),
                      d.entries, d.history, d.orphans, d.indexed)
          BY <1>1, FieldReplaced
    <2> HIDE DEF d1
    <2>3. d2 = Fields(d.versions, d.schema, d.pages, d.items, ObjectsAfterV10(d),
                      d.entries, HistoryAfterV10(d), d.orphans, d.indexed)
          BY <2>2, FieldReplaced
    <2> HIDE DEF d2
    <2>4. d3 = Fields(d.versions, d.schema, d.pages, d.items, ObjectsAfterV10(d),
                      d.entries, HistoryAfterV10(d), Cardinality(Changes(d, None)),
                      d.indexed)
          BY <2>3, FieldReplaced
    <2> HIDE DEF d3
    <2>5. d4 = Fields(d.versions, d.schema, d.pages, d.items, ObjectsAfterV10(d),
                      EntriesAfterV10(d), HistoryAfterV10(d),
                      Cardinality(Changes(d, None)), d.indexed)
          BY <2>4, FieldReplaced
    <2> HIDE DEF d4
    <2> QED  BY <2>1, <2>5
<1>3. V11(d) = WithIndexed(d, IndexedAfterV11(d))
      BY DEF V11, IndexedAfterV11, WithIndexed
<1>4. V11(d) = Fields(d.versions, d.schema, d.pages, d.items, d.objects, d.entries,
                      d.history, d.orphans, IndexedAfterV11(d))
      BY <1>1, <1>3, FieldReplaced
<1> QED  BY <1>2, <1>4

\* A version keeps the form of the database and the rows of schema_migrations.
LEMMA RewrittenType ==
    ASSUME NEW d, Database(d), NEW v \in 1 .. SCHEMA_VERSION
    PROVE  /\ Database(Rewritten(v, d))
           /\ Rewritten(v, d).versions = d.versions
           /\ Rewritten(v, d).schema = d.schema
<1>1. PICK n \in 0 .. SCHEMA_VERSION : d.versions = 1 .. n  BY DEF Database
<1>2. /\ DOMAIN d.pages = PageIds /\ DOMAIN d.items = Items
      /\ DOMAIN d.objects = Objects /\ DOMAIN d.entries = Entries
      BY DEF Database
<1>3. /\ DOMAIN PagesAfterV2(d) = PageIds /\ DOMAIN PagesAfterV3(d) = PageIds
      /\ DOMAIN ItemsAfterV7(d) = Items
      /\ DOMAIN EntriesAfterV10(d) = Entries /\ DOMAIN EntriesAfterV13(d) = Entries
      /\ DOMAIN ObjectsAfterV10(d) = Objects
    <2>1. DOMAIN PagesAfterV2(d) = PageIds  BY <1>2 DEF PagesAfterV2, Rewrite
    <2>2. DOMAIN PagesAfterV3(d) = PageIds  BY <1>2 DEF PagesAfterV3, Rewrite
    <2>3. DOMAIN ItemsAfterV7(d) = Items  BY <1>2 DEF ItemsAfterV7, Rewrite
    <2>4. DOMAIN EntriesAfterV10(d) = Entries  BY <1>2 DEF EntriesAfterV10, Rewrite
    <2>5. DOMAIN EntriesAfterV13(d) = Entries  BY <1>2 DEF EntriesAfterV13, Rewrite
    <2>6. DOMAIN ObjectsAfterV10(d) = Objects  BY DEF ObjectsAfterV10
    <2> QED  BY <2>1, <2>2, <2>3, <2>4, <2>5, <2>6
<1>4. CASE v = 2
    <2>1. Rewritten(v, d) = V2(d)  BY <1>4 DEF Rewritten
    <2> DEFINE e == V2(d)
    <2>2. /\ e.versions = d.versions /\ e.schema = d.schema
          /\ DOMAIN e.pages = PageIds /\ DOMAIN e.items = Items
          /\ DOMAIN e.objects = Objects /\ DOMAIN e.entries = Entries
          /\ e = Fields(e.versions, e.schema, e.pages, e.items, e.objects, e.entries,
                        e.history, e.orphans, e.indexed)
          BY <1>2, <1>3, OneTable, FieldsKnown
    <2> HIDE DEF e
    <2>3. Database(e)  BY <1>1, <2>2 DEF Database
    <2> QED  BY <2>1, <2>2, <2>3 DEF e
<1>5. CASE v = 3
    <2>1. Rewritten(v, d) = V3(d)  BY <1>5 DEF Rewritten
    <2> DEFINE e == V3(d)
    <2>2. /\ e.versions = d.versions /\ e.schema = d.schema
          /\ DOMAIN e.pages = PageIds /\ DOMAIN e.items = Items
          /\ DOMAIN e.objects = Objects /\ DOMAIN e.entries = Entries
          /\ e = Fields(e.versions, e.schema, e.pages, e.items, e.objects, e.entries,
                        e.history, e.orphans, e.indexed)
          BY <1>2, <1>3, OneTable, FieldsKnown
    <2> HIDE DEF e
    <2>3. Database(e)  BY <1>1, <2>2 DEF Database
    <2> QED  BY <2>1, <2>2, <2>3 DEF e
<1>6. CASE v = 7
    <2>1. Rewritten(v, d) = V7(d)  BY <1>6 DEF Rewritten
    <2> DEFINE e == V7(d)
    <2>2. /\ e.versions = d.versions /\ e.schema = d.schema
          /\ DOMAIN e.pages = PageIds /\ DOMAIN e.items = Items
          /\ DOMAIN e.objects = Objects /\ DOMAIN e.entries = Entries
          /\ e = Fields(e.versions, e.schema, e.pages, e.items, e.objects, e.entries,
                        e.history, e.orphans, e.indexed)
          BY <1>2, <1>3, OneTable, FieldsKnown
    <2> HIDE DEF e
    <2>3. Database(e)  BY <1>1, <2>2 DEF Database
    <2> QED  BY <2>1, <2>2, <2>3 DEF e
<1>7. CASE v = 13
    <2>1. Rewritten(v, d) = V13(d)  BY <1>7 DEF Rewritten
    <2> DEFINE e == V13(d)
    <2>2. /\ e.versions = d.versions /\ e.schema = d.schema
          /\ DOMAIN e.pages = PageIds /\ DOMAIN e.items = Items
          /\ DOMAIN e.objects = Objects /\ DOMAIN e.entries = Entries
          /\ e = Fields(e.versions, e.schema, e.pages, e.items, e.objects, e.entries,
                        e.history, e.orphans, e.indexed)
          BY <1>2, <1>3, OneTable, FieldsKnown
    <2> HIDE DEF e
    <2>3. Database(e)  BY <1>1, <2>2 DEF Database
    <2> QED  BY <2>1, <2>2, <2>3 DEF e
<1>8. CASE v = 10
    <2>1. Rewritten(v, d) = V10(d)  BY <1>8 DEF Rewritten
    <2> DEFINE e == V10(d)
    <2>2. /\ e.versions = d.versions /\ e.schema = d.schema
          /\ DOMAIN e.pages = PageIds /\ DOMAIN e.items = Items
          /\ DOMAIN e.objects = Objects /\ DOMAIN e.entries = Entries
          /\ e = Fields(e.versions, e.schema, e.pages, e.items, e.objects, e.entries,
                        e.history, e.orphans, e.indexed)
          BY <1>2, <1>3, ManyTables, FieldsKnown
    <2> HIDE DEF e
    <2>3. Database(e)  BY <1>1, <2>2 DEF Database
    <2> QED  BY <2>1, <2>2, <2>3 DEF e
<1>9. CASE v = 11
    <2>1. Rewritten(v, d) = V11(d)  BY <1>9 DEF Rewritten
    <2> DEFINE e == V11(d)
    <2>2. /\ e.versions = d.versions /\ e.schema = d.schema
          /\ DOMAIN e.pages = PageIds /\ DOMAIN e.items = Items
          /\ DOMAIN e.objects = Objects /\ DOMAIN e.entries = Entries
          /\ e = Fields(e.versions, e.schema, e.pages, e.items, e.objects, e.entries,
                        e.history, e.orphans, e.indexed)
          BY <1>2, <1>3, ManyTables, FieldsKnown
    <2> HIDE DEF e
    <2>3. Database(e)  BY <1>1, <2>2 DEF Database
    <2> QED  BY <2>1, <2>2, <2>3 DEF e
<1>10. CASE v \notin {2, 3, 7, 10, 11, 13}  BY <1>10 DEF Rewritten
<1> QED  BY <1>4, <1>5, <1>6, <1>7, <1>8, <1>9, <1>10

\* The rows after a version depend on the rows before it alone.
LEMMA RewrittenAlike ==
    ASSUME NEW d, Database(d), NEW e, Database(e), Alike(d, e),
           NEW v \in 1 .. SCHEMA_VERSION
    PROVE  Alike(Rewritten(v, d), Rewritten(v, e))
<1>1. /\ d.pages = e.pages /\ d.items = e.items /\ d.objects = e.objects
      /\ d.entries = e.entries /\ d.history = e.history
      /\ d.orphans = e.orphans /\ d.indexed = e.indexed
      BY DEF Alike
<1>2. \A o : Changes(d, o) = Changes(e, o)  BY <1>1 DEF Changes
<1>3. /\ PagesAfterV2(d) = PagesAfterV2(e) /\ PagesAfterV3(d) = PagesAfterV3(e)
      /\ ItemsAfterV7(d) = ItemsAfterV7(e)
      /\ EntriesAfterV10(d) = EntriesAfterV10(e)
      /\ EntriesAfterV13(d) = EntriesAfterV13(e)
      /\ ObjectsAfterV10(d) = ObjectsAfterV10(e)
      /\ HistoryAfterV10(d) = HistoryAfterV10(e)
      /\ IndexedAfterV11(d) = IndexedAfterV11(e)
      BY <1>1, <1>2 DEF PagesAfterV2, PagesAfterV3, ItemsAfterV7, EntriesAfterV10,
            EntriesAfterV13, ObjectsAfterV10, HistoryAfterV10, IndexedAfterV11
<1>4. CASE v = 2   BY <1>1, <1>3, <1>4, OneTable, FieldsOf DEF Rewritten, Alike
<1>5. CASE v = 3   BY <1>1, <1>3, <1>5, OneTable, FieldsOf DEF Rewritten, Alike
<1>6. CASE v = 7   BY <1>1, <1>3, <1>6, OneTable, FieldsOf DEF Rewritten, Alike
<1>7. CASE v = 13  BY <1>1, <1>3, <1>7, OneTable, FieldsOf DEF Rewritten, Alike
<1>8. CASE v = 10
    <2>1. Changes(d, None) = Changes(e, None)  BY <1>2
    <2> QED  BY <1>1, <2>1, <1>3, <1>8, ManyTables, FieldsOf DEF Rewritten, Alike
<1>9. CASE v = 11  BY <1>1, <1>3, <1>9, ManyTables, FieldsOf DEF Rewritten, Alike
<1>10. CASE v \notin {2, 3, 7, 10, 11, 13}  BY <1>1, <1>10 DEF Rewritten, Alike
<1> QED  BY <1>4, <1>5, <1>6, <1>7, <1>8, <1>9, <1>10

-----------------------------------------------------------------------------
(* The rest of the chain.                                                  *)

\* The versions that rewrite rows.
Rewriting == {2, 3, 7, 10, 11, 13}

\* Every other version leaves the rows as they are.
LEMMA OthersKeepRows ==
    ASSUME NEW d, NEW v \in 1 .. SCHEMA_VERSION, v \notin Rewriting
    PROVE  Rewritten(v, d) = d
BY DEF Rewritten, Rewriting

\* A step of the rest keeps the form of the database and its version.
LEMMA RestType ==
    ASSUME NEW d, Database(d), NEW w \in 1 .. SCHEMA_VERSION
    PROVE  Database(Rest(w, d)) /\ Rest(w, d).versions = d.versions
BY RewrittenType DEF Rest

\* Two databases of one version with the same rows keep the same rows.
LEMMA RestAlike ==
    ASSUME NEW d, NEW e, Database(d), Database(e), Alike(d, e),
           d.versions = e.versions, NEW w \in 1 .. SCHEMA_VERSION
    PROVE  Alike(Rest(w, d), Rest(w, e)) /\ Rest(w, d).versions = Rest(w, e).versions
<1>1. Version(d) = Version(e)  BY VersionOfVersions
<1>2. Rest(w, d).versions = Rest(w, e).versions  BY RestType
<1>3. CASE Version(d) < w
    <2>1. Rest(w, d) = Rewritten(w, d) /\ Rest(w, e) = Rewritten(w, e)
          BY <1>1, <1>3 DEF Rest
    <2> QED  BY <2>1, <1>2, RewrittenAlike
<1>4. CASE ~(Version(d) < w)
    <2>1. Rest(w, d) = d /\ Rest(w, e) = e  BY <1>1, <1>4 DEF Rest
    <2> QED  BY <2>1
<1> QED  BY <1>3, <1>4

\* So they are one library at the end of the chain.
LEMMA UpgradedAlike ==
    ASSUME NEW d, NEW e, Database(d), Database(e), Alike(d, e),
           d.versions = e.versions
    PROVE  Alike(Upgraded(d), Upgraded(e))
<1> DEFINE d2 == Rest(2, d)      e2 == Rest(2, e)
           d3 == Rest(3, d2)     e3 == Rest(3, e2)
           d7 == Rest(7, d3)     e7 == Rest(7, e3)
           d10 == Rest(10, d7)   e10 == Rest(10, e7)
           d11 == Rest(11, d10)  e11 == Rest(11, e10)
           d13 == Rest(13, d11)  e13 == Rest(13, e11)
           Same(x, y) == /\ Database(x) /\ Database(y) /\ Alike(x, y)
                         /\ x.versions = y.versions
<1>0. ASSUME NEW x, NEW y, Same(x, y), NEW w \in 1 .. SCHEMA_VERSION
      PROVE  Same(Rest(w, x), Rest(w, y))
      BY <1>0, RestType, RestAlike
<1>1. Same(d, e)  OBVIOUS
<1> HIDE DEF Same
<1>2. Same(d2, e2)    BY <1>0, <1>1
<1> HIDE DEF d2, e2
<1>3. Same(d3, e3)    BY <1>0, <1>2
<1> HIDE DEF d3, e3
<1>4. Same(d7, e7)    BY <1>0, <1>3
<1> HIDE DEF d7, e7
<1>5. Same(d10, e10)  BY <1>0, <1>4
<1> HIDE DEF d10, e10
<1>6. Same(d11, e11)  BY <1>0, <1>5
<1> HIDE DEF d11, e11
<1>7. Same(d13, e13)  BY <1>0, <1>6
<1>8. Upgraded(d) = d13 /\ Upgraded(e) = e13
      BY DEF Upgraded, d2, e2, d3, e3, d7, e7, d10, e10, d11, e11
<1> QED  BY <1>7, <1>8 DEF Same

\* The upgraded database has the form of a database and its own version.
LEMMA UpgradedType ==
    ASSUME NEW d, Database(d)
    PROVE  Database(Upgraded(d)) /\ Upgraded(d).versions = d.versions
<1> DEFINE d2 == Rest(2, d)     d3 == Rest(3, d2)     d7 == Rest(7, d3)
           d10 == Rest(10, d7)  d11 == Rest(11, d10)  d13 == Rest(13, d11)
<1>1. Database(d2) /\ d2.versions = d.versions    BY RestType
<1> HIDE DEF d2
<1>2. Database(d3) /\ d3.versions = d.versions    BY <1>1, RestType
<1> HIDE DEF d3
<1>3. Database(d7) /\ d7.versions = d.versions    BY <1>2, RestType
<1> HIDE DEF d7
<1>4. Database(d10) /\ d10.versions = d.versions  BY <1>3, RestType
<1> HIDE DEF d10
<1>5. Database(d11) /\ d11.versions = d.versions  BY <1>4, RestType
<1> HIDE DEF d11
<1>6. Database(d13) /\ d13.versions = d.versions  BY <1>5, RestType
<1>7. Upgraded(d) = d13  BY DEF Upgraded, d2, d3, d7, d10, d11
<1> QED  BY <1>6, <1>7

\* Nothing is left to do on the newest version.
LEMMA UpgradedNewest ==
    ASSUME NEW d, Database(d), Version(d) = SCHEMA_VERSION
    PROVE  Upgraded(d) = d
<1>1. \A w \in 1 .. 13 : Rest(w, d) = d  BY DEF Rest
<1> QED  BY <1>1 DEF Upgraded

\* The transaction of the next version: its row, its tables, its rows.
LEMMA MigratedType ==
    ASSUME NEW d, Database(d), NEW v \in 1 .. SCHEMA_VERSION, Version(d) = v - 1
    PROVE  /\ Database(Migrated(v, d)) /\ Migrated(v, d).versions = 1 .. v
           /\ Version(Migrated(v, d)) = v
           /\ Migrated(v, d).schema = d.schema \cup Added(v)
           /\ Alike(Migrated(v, d), Rewritten(v, d))
<1> DEFINE r == Rewritten(v, d)
           m1 == WithVersions(r, r.versions \cup {v})
           m2 == WithSchema(m1, m1.schema \cup Added(v))
<1>1. Database(r) /\ r.versions = d.versions /\ r.schema = d.schema
      BY RewrittenType
<1>2. d.versions = 1 .. (v - 1)  BY VersionType
<1>3. r.versions \cup {v} = 1 .. v  BY <1>1, <1>2
<1>4. Migrated(v, d) = m2  BY DEF Migrated, WithVersions, WithSchema
<1>5. r = Fields(r.versions, r.schema, r.pages, r.items, r.objects, r.entries,
                 r.history, r.orphans, r.indexed)
      BY <1>1 DEF Database
<1> HIDE DEF r
<1>6. m1 = Fields(r.versions \cup {v}, r.schema, r.pages, r.items, r.objects,
                  r.entries, r.history, r.orphans, r.indexed)
      BY <1>5, FieldReplaced
<1> HIDE DEF m1
<1>7. m2 = Fields(r.versions \cup {v}, r.schema \cup Added(v), r.pages, r.items,
                  r.objects, r.entries, r.history, r.orphans, r.indexed)
    <2>1. m1.schema = r.schema  BY <1>6, FieldsKnown
    <2>2. m2 = WithSchema(m1, r.schema \cup Added(v))  BY <2>1
    <2> HIDE DEF m2
    <2> QED  BY <1>6, <2>2, FieldReplaced
<1> HIDE DEF m2
<1>8. /\ m2.versions = r.versions \cup {v} /\ m2.schema = r.schema \cup Added(v)
      /\ m2.pages = r.pages /\ m2.items = r.items /\ m2.objects = r.objects
      /\ m2.entries = r.entries /\ m2.history = r.history
      /\ m2.orphans = r.orphans /\ m2.indexed = r.indexed
      /\ m2 = Fields(m2.versions, m2.schema, m2.pages, m2.items, m2.objects, m2.entries,
                     m2.history, m2.orphans, m2.indexed)
      BY <1>7, FieldsKnown
<1>9. Database(m2) /\ m2.versions = 1 .. v /\ m2.schema = d.schema \cup Added(v)
    <2>1. m2.versions = 1 .. v /\ v \in 0 .. SCHEMA_VERSION  BY <1>3, <1>8
    <2>2. \E n \in 0 .. SCHEMA_VERSION : m2.versions = 1 .. n  BY <2>1
    <2> QED  BY <1>1, <1>8, <2>1, <2>2 DEF Database
<1>10. Alike(m2, r)  BY <1>8 DEF Alike
<1>11. Version(m2) = v
    <2>1. v \in 0 .. SCHEMA_VERSION  OBVIOUS
    <2> QED  BY <1>9, <2>1, VersionIs
<1> QED  BY <1>4, <1>9, <1>10, <1>11 DEF r

\* How far the chains of a database, d, and of the one after its next version,
\* e, have come at version w: before v they have done nothing, from v on they
\* have the same rows.
Abreast(d, e, v, w, x, y) ==
    /\ Database(x) /\ x.versions = d.versions
    /\ Database(y) /\ y.versions = e.versions
    /\ \/ w < v /\ x = d /\ y = e
       \/ v <= w /\ Alike(x, y)

\* The chain of the later one catches up at version v.
LEMMA AbreastStep ==
    ASSUME NEW d, Database(d), NEW e, Database(e), NEW v \in 1 .. SCHEMA_VERSION,
           Version(d) = v - 1, Version(e) = v, Alike(Rewritten(v, d), e),
           NEW u \in 0 .. SCHEMA_VERSION, NEW w \in Rewriting, u < w,
           \A k \in Rewriting : k <= u \/ w <= k,
           NEW x, NEW y, Abreast(d, e, v, u, x, y)
    PROVE  Abreast(d, e, v, w, Rest(w, x), Rest(w, y))
<1> DEFINE rx == Rest(w, x)  ry == Rest(w, y)
<1>1. w \in 1 .. SCHEMA_VERSION  BY DEF Rewriting
<1>2. /\ Database(x) /\ x.versions = d.versions
      /\ Database(y) /\ y.versions = e.versions
      BY DEF Abreast
<1>3. /\ Database(rx) /\ rx.versions = d.versions
      /\ Database(ry) /\ ry.versions = e.versions
      BY <1>1, <1>2, RestType
<1>4. Version(x) = v - 1 /\ Version(y) = v  BY <1>2, VersionOfVersions
<1>5. CASE w < v
    <2>1. x = d /\ y = e  BY <1>1, <1>5 DEF Abreast
    <2>2. rx = x /\ ry = y  BY <1>1, <1>4, <1>5 DEF Rest
    <2> QED  BY <1>3, <1>5, <2>1, <2>2 DEF Abreast
<1>6. CASE w = v
    <2>1. x = d /\ y = e  BY <1>1, <1>6 DEF Abreast
    <2>2. rx = Rewritten(v, d) /\ ry = e  BY <1>1, <1>4, <1>6, <2>1 DEF Rest
    <2> QED  BY <1>3, <1>6, <2>2 DEF Abreast
<1>7. CASE v < w
    <2>1. Alike(x, y)
        <3>1. CASE u < v
            <4>1. v \notin Rewriting  BY <1>1, <1>7, <3>1
            <4>2. x = d /\ y = e  BY <1>1, <3>1 DEF Abreast
            <4> QED  BY <4>1, <4>2, OthersKeepRows
        <3>2. CASE v <= u  BY <3>2 DEF Abreast
        <3> QED  BY <3>1, <3>2
    <2>2. rx = Rewritten(w, x) /\ ry = Rewritten(w, y)  BY <1>1, <1>4, <1>7 DEF Rest
    <2>3. Alike(rx, ry)  BY <1>1, <1>2, <2>1, <2>2, RewrittenAlike
    <2> QED  BY <1>1, <1>3, <1>7, <2>3 DEF Abreast
<1> QED  BY <1>1, <1>5, <1>6, <1>7

\* The next version leaves the library as the chain would have made it.
LEMMA MigratedUpgrades ==
    ASSUME NEW d, Database(d), NEW v \in 1 .. SCHEMA_VERSION, Version(d) = v - 1
    PROVE  Alike(Upgraded(d), Upgraded(Migrated(v, d)))
<1> DEFINE e == Migrated(v, d)
           d2 == Rest(2, d)      e2 == Rest(2, e)
           d3 == Rest(3, d2)     e3 == Rest(3, e2)
           d7 == Rest(7, d3)     e7 == Rest(7, e3)
           d10 == Rest(10, d7)   e10 == Rest(10, e7)
           d11 == Rest(11, d10)  e11 == Rest(11, e10)
           d13 == Rest(13, d11)  e13 == Rest(13, e11)
           A(w, x, y) == Abreast(d, e, v, w, x, y)
<1>1. Database(e) /\ Version(e) = v /\ Alike(Rewritten(v, d), e)
      BY MigratedType DEF Alike
<1>2. Upgraded(d) = d13 /\ Upgraded(e) = e13  BY DEF Upgraded
<1>3. A(0, d, e)  BY <1>1 DEF Abreast
<1> HIDE DEF e
<1>4. ASSUME NEW u \in 0 .. SCHEMA_VERSION, NEW w \in Rewriting, u < w,
             \A k \in Rewriting : k <= u \/ w <= k,
             NEW x, NEW y, A(u, x, y)
      PROVE  A(w, Rest(w, x), Rest(w, y))
      BY <1>1, <1>4, AbreastStep
<1> HIDE DEF A
<1>5. A(2, d2, e2)      BY <1>3, <1>4 DEF Rewriting
<1> HIDE DEF d2, e2
<1>6. A(3, d3, e3)      BY <1>4, <1>5 DEF Rewriting
<1> HIDE DEF d3, e3
<1>7. A(7, d7, e7)      BY <1>4, <1>6 DEF Rewriting
<1> HIDE DEF d7, e7
<1>8. A(10, d10, e10)   BY <1>4, <1>7 DEF Rewriting
<1> HIDE DEF d10, e10
<1>9. A(11, d11, e11)   BY <1>4, <1>8 DEF Rewriting
<1> HIDE DEF d11, e11
<1>10. A(13, d13, e13)  BY <1>4, <1>9 DEF Rewriting
<1> HIDE DEF d13, e13
<1>11. CASE v <= 13
       BY <1>2, <1>10, <1>11 DEF A, Abreast, e
<1>12. CASE v = 14
    <2>1. d13 = d /\ e13 = e  BY <1>10, <1>12 DEF A, Abreast
    <2>2. Rewritten(v, d) = d  BY <1>12, OthersKeepRows DEF Rewriting
    <2> QED  BY <1>1, <1>2, <2>1, <2>2 DEF e
<1> QED  BY <1>11, <1>12

\* The version that adds a table or column, or 0.
Origin(t) ==
    IF t \in V2Tables THEN 2 ELSE IF t \in V4Tables THEN 4
    ELSE IF t \in V5Tables THEN 5 ELSE IF t \in V6Tables THEN 6
    ELSE IF t \in V8Tables THEN 8 ELSE IF t \in V9Tables THEN 9
    ELSE IF t \in V10Tables THEN 10 ELSE IF t \in V11Tables THEN 11
    ELSE IF t \in V12Tables THEN 12 ELSE IF t \in V14Tables THEN 14 ELSE 0

\* No two versions add the same table, and none adds those of version 1.
LEMMA AddedOnce ==
    /\ \A v \in 1 .. SCHEMA_VERSION : \A t \in Added(v) : Origin(t) = v
    /\ \A t \in V1Tables \cup {"schema_migrations"} : Origin(t) = 0
<1> USE DEF V2Tables, V4Tables, V5Tables, V6Tables, V8Tables, V9Tables, V10Tables,
            V11Tables, V12Tables, V14Tables
<1>1. \A t \in V2Tables : Origin(t) = 2  BY DEF Origin
<1>2. \A t \in V4Tables : Origin(t) = 4  BY DEF Origin
<1>3. \A t \in V5Tables : Origin(t) = 5  BY DEF Origin
<1>4. \A t \in V6Tables : Origin(t) = 6  BY DEF Origin
<1>5. \A t \in V8Tables : Origin(t) = 8  BY DEF Origin
<1>6. \A t \in V9Tables : Origin(t) = 9  BY DEF Origin
<1>7. \A t \in V10Tables : Origin(t) = 10  BY DEF Origin
<1>8. \A t \in V11Tables : Origin(t) = 11  BY DEF Origin
<1>9. \A t \in V12Tables : Origin(t) = 12  BY DEF Origin
<1>10. \A t \in V14Tables : Origin(t) = 14  BY DEF Origin
<1>11. \A t \in V1Tables \cup {"schema_migrations"} : Origin(t) = 0
       BY DEF Origin, V1Tables
<1> HIDE DEF V2Tables, V4Tables, V5Tables, V6Tables, V8Tables, V9Tables, V10Tables,
            V11Tables, V12Tables, V14Tables
<1>12. ASSUME NEW v \in 1 .. SCHEMA_VERSION, NEW t \in Added(v) PROVE Origin(t) = v
       BY <1>1, <1>2, <1>3, <1>4, <1>5, <1>6, <1>7, <1>8, <1>9, <1>10 DEF Added
<1> QED  BY <1>11, <1>12

-----------------------------------------------------------------------------
(* The inductive invariant.                                                *)

\* The tables are those of the versions the database has, and it has kept the
\* ones it was opened with.
TablesOK ==
    /\ \A t \in db.schema : Origin(t) <= Version(db)
    /\ first.schema \subseteq db.schema

\* The entries of a database are of the kinds its version knows.
EntriesTyped(d) ==
    \A e \in Ids(d.entries) :
        d.entries[e] \in IF Version(d) < 10 THEN EntriesV9 ELSE EntriesV10

\* No process is ahead of the database.
ProcessOK ==
    /\ process \in [Processes -> [at: Stages, version: 0 .. SCHEMA_VERSION]]
    /\ \A p \in Processes : process[p].version <= Version(db)
    /\ \A p \in Processes : At(p, "ready") => Version(db) = SCHEMA_VERSION

\* The user has worked on the newest schema only; until then the library is the
\* one the database was opened with.
WorkOK ==
    /\ worked \in BOOLEAN
    /\ worked => Version(db) = SCHEMA_VERSION
    /\ ~worked => Alike(Upgraded(first), Upgraded(db))

\* A process that may change the version has seen to it that there is a copy.
CopiedOK ==
    \A p \in Processes :
        (At(p, "copied") \/ At(p, "migrating")) /\ Version(db) < SCHEMA_VERSION
            /\ first.schema # {}
        => Library(Upgraded(db)) \in backups

\* A process that nobody has disturbed goes on from the version there is.
InStep ==
    \A p \in Processes \ disturbed :
        At(p, "migrating") => process[p].version = Version(db)

MigrationInv ==
    /\ Database(db) /\ first \in Born
    /\ TablesOK /\ EntriesTyped(db) /\ ProcessOK /\ WorkOK /\ CopiedOK /\ InStep
    /\ FailsOnlyIfDisturbed

-----------------------------------------------------------------------------
(* The databases of earlier programs.                                      *)

\* The rows of the pages as a program of version n left them.
PagesAt(n) ==
    IF n < 2 THEN PageRows(StatusesV1, {None})
    ELSE IF n = 2 THEN PageRows(StatusesV2, {None})
    ELSE PageRows({"text_extracted"}, Reviews)

\* What is known of the database of an earlier program.
Earlier(d, n) ==
    /\ Database(d) /\ d.versions = 1 .. n
    /\ \A t \in d.schema : Origin(t) <= n
    /\ d.history = [o \in Objects |-> << >>] /\ d.orphans = 0 /\ d.indexed = {}
    /\ \A p \in PageIds : d.pages[p] \in PagesAt(n) \cup {None}
    /\ \A o \in Objects :
           d.objects[o] \in [status: {"draft", "reviewed", "archived"}] \cup {None}
    /\ \A e \in Entries : d.entries[e] \in EntriesV9 \cup {None}
    /\ n # 9 => /\ \A o \in Objects : d.objects[o] = None
                /\ \A e \in Entries : d.entries[e] = None
    /\ n = 9 => /\ \A p \in PageIds : d.pages[p] = None
                /\ \A i \in Items : d.items[i] = None
    /\ Sound(d)

\* Tables without rows.
NoPages == [p \in PageIds |-> None]
NoItems == [i \in Items |-> None]
NoObjects == [o \in Objects |-> None]
NoEntries == [e \in Entries |-> None]
NoHistory == [o \in Objects |-> << >>]

\* The tables of version n.
TablesOf(n) == (UNION {Added(w) : w \in 1 .. n}) \cup V1Tables \cup {"schema_migrations"}

\* They are of no later version.
LEMMA TablesOfType ==
    ASSUME NEW n \in 0 .. SCHEMA_VERSION, NEW t \in TablesOf(n)
    PROVE  Origin(t) <= n
<1>1. CASE t \in V1Tables \cup {"schema_migrations"}  BY <1>1, AddedOnce
<1>2. CASE t \in UNION {Added(w) : w \in 1 .. n}
    <2>1. PICK w \in 1 .. n : t \in Added(w)  BY <1>2
    <2> QED  BY <2>1, AddedOnce
<1> QED  BY <1>1, <1>2 DEF TablesOf

\* The schema of a version without rows, by its fields.
LEMMA StructureFields ==
    ASSUME NEW n
    PROVE  /\ Empty = Fields({}, {}, NoPages, NoItems, NoObjects, NoEntries,
                             NoHistory, 0, {})
           /\ Structure(n) = Fields(1 .. n, TablesOf(n), NoPages, NoItems, NoObjects,
                                    NoEntries, NoHistory, 0, {})
           /\ [Structure(n) EXCEPT !.versions = {}, !.schema = V1Tables] =
                  Fields({}, V1Tables, NoPages, NoItems, NoObjects, NoEntries,
                         NoHistory, 0, {})
<1>1. Empty = Fields({}, {}, NoPages, NoItems, NoObjects, NoEntries, NoHistory, 0, {})
      BY DEF Empty, Fields, NoPages, NoItems, NoObjects, NoEntries, NoHistory
<1> DEFINE e1 == WithVersions(Empty, 1 .. n)
           e2 == WithSchema(e1, TablesOf(n))
           s1 == WithVersions(Structure(n), {})
           s2 == WithSchema(s1, V1Tables)
<1>2. Structure(n) = e2  BY DEF Structure, TablesOf, WithVersions, WithSchema
<1>3. [Structure(n) EXCEPT !.versions = {}, !.schema = V1Tables] = s2
      BY DEF WithVersions, WithSchema
<1>4. e1 = Fields(1 .. n, {}, NoPages, NoItems, NoObjects, NoEntries, NoHistory, 0, {})
      BY <1>1, FieldReplaced
<1> HIDE DEF e1
<1>5. e2 = Fields(1 .. n, TablesOf(n), NoPages, NoItems, NoObjects, NoEntries,
                  NoHistory, 0, {})
      BY <1>4, FieldReplaced
<1> HIDE DEF e2
<1>6. s1 = Fields({}, TablesOf(n), NoPages, NoItems, NoObjects, NoEntries,
                  NoHistory, 0, {})
      BY <1>2, <1>5, FieldReplaced
<1> HIDE DEF s1
<1>7. s2 = Fields({}, V1Tables, NoPages, NoItems, NoObjects, NoEntries, NoHistory, 0, {})
      BY <1>6, FieldReplaced
<1> HIDE DEF s2
<1>8. Structure(n) = Fields(1 .. n, TablesOf(n), NoPages, NoItems, NoObjects,
                            NoEntries, NoHistory, 0, {})
      BY <1>2, <1>5
<1>9. [Structure(n) EXCEPT !.versions = {}, !.schema = V1Tables] =
          Fields({}, V1Tables, NoPages, NoItems, NoObjects, NoEntries, NoHistory, 0, {})
      BY <1>3, <1>7, Zenon
<1> QED  BY <1>1, <1>8, <1>9, Zenon

\* A database made of such fields is one of an earlier program.
LEMMA EarlierFields ==
    ASSUME NEW n \in 0 .. SCHEMA_VERSION, NEW s, \A t \in s : Origin(t) <= n,
           NEW x, DOMAIN x = PageIds, \A p \in PageIds : x[p] \in PagesAt(n) \cup {None},
           NEW y, DOMAIN y = Items,
           NEW z, DOMAIN z = Objects,
           \A o \in Objects : z[o] \in [status: {"draft", "reviewed", "archived"}]
                                        \cup {None},
           NEW u, DOMAIN u = Entries, \A e \in Entries : u[e] \in EntriesV9 \cup {None},
           n # 9 => z = NoObjects /\ u = NoEntries,
           n = 9 => x = NoPages /\ y = NoItems,
           NEW d, d = Fields(1 .. n, s, x, y, z, u, NoHistory, 0, {}), Sound(d)
    PROVE  Earlier(d, n)
<1>1. /\ d.versions = 1 .. n /\ d.schema = s /\ d.pages = x /\ d.items = y
      /\ d.objects = z /\ d.entries = u /\ d.history = NoHistory /\ d.orphans = 0
      /\ d.indexed = {}
      /\ d = Fields(d.versions, d.schema, d.pages, d.items, d.objects, d.entries,
                    d.history, d.orphans, d.indexed)
      BY FieldsKnown
<1>2. \E m \in 0 .. SCHEMA_VERSION : d.versions = 1 .. m  BY <1>1
<1>3. Database(d)  BY <1>1, <1>2 DEF Database
<1>4. /\ n # 9 => /\ \A o \in Objects : z[o] = None
                  /\ \A e \in Entries : u[e] = None
      /\ n = 9 => /\ \A p \in PageIds : x[p] = None
                  /\ \A i \in Items : y[i] = None
      BY DEF NoObjects, NoEntries, NoPages, NoItems
<1> QED  BY <1>1, <1>3, <1>4 DEF Earlier, NoHistory

\* Every database that the program may be started on is one of them.
LEMMA BornType ==
    ASSUME NEW d \in Born
    PROVE  \E n \in {0, 1, 2, 6, 9} : Earlier(d, n)
<1>1. Sound(d)  BY DEF Born
<1>2. d \in Fresh \cup BornV1 \cup BornV2 \cup BornV6 \cup BornV9  BY DEF Born
<1>3. /\ DOMAIN NoPages = PageIds /\ DOMAIN NoItems = Items
      /\ DOMAIN NoObjects = Objects /\ DOMAIN NoEntries = Entries
      /\ \A p \in PageIds : NoPages[p] = None
      /\ \A o \in Objects : NoObjects[o] = None
      /\ \A e \in Entries : NoEntries[e] = None
      BY DEF NoPages, NoItems, NoObjects, NoEntries
<1>4. {} = 1 .. 0  OBVIOUS
<1>5. /\ \A t \in V1Tables : Origin(t) <= 0
      /\ \A n \in 0 .. SCHEMA_VERSION : \A t \in TablesOf(n) : Origin(t) <= n
      BY AddedOnce, TablesOfType
<1>6. CASE d \in Fresh
    <2>1. d = Fields(1 .. 0, {}, NoPages, NoItems, NoObjects, NoEntries, NoHistory, 0, {})
          BY <1>4, <1>6, StructureFields DEF Fresh
    <2>2. Earlier(d, 0)  BY <1>1, <1>3, <2>1, EarlierFields
    <2> QED  BY <2>2
<1>7. CASE d \in BornV1
    <2> DEFINE t1 == [Structure(1) EXCEPT !.versions = {}, !.schema = V1Tables]
    <2>0. BornV1 = {WithPages(x, y) : x \in {Structure(1), t1},
                                 y \in [PageIds -> PageRows(StatusesV1, {None})]}
          BY DEF BornV1, WithPages
    <2> HIDE DEF t1
    <2>1. PICK b \in {Structure(1), t1},
               pages \in [PageIds -> PageRows(StatusesV1, {None})] :
                   d = WithPages(b, pages)
          BY <1>7, <2>0
    <2>2. DOMAIN pages = PageIds /\ \A p \in PageIds : pages[p] \in PagesAt(0)
          BY DEF PagesAt
    <2>3. PagesAt(1) = PagesAt(0)  BY DEF PagesAt
    <2>4. CASE b = Structure(1)
        <3>1. b = Fields(1 .. 1, TablesOf(1), NoPages, NoItems, NoObjects, NoEntries,
                         NoHistory, 0, {})
              BY <2>4, StructureFields
        <3>2. d = Fields(1 .. 1, TablesOf(1), pages, NoItems, NoObjects, NoEntries,
                         NoHistory, 0, {})
              BY <2>1, <3>1, FieldReplaced
        <3>3. Earlier(d, 1)  BY <1>1, <1>3, <1>5, <2>2, <2>3, <3>2, EarlierFields
        <3> QED  BY <3>3
    <2>5. CASE b = t1
        <3>1. b = Fields({}, V1Tables, NoPages, NoItems, NoObjects, NoEntries,
                         NoHistory, 0, {})
              BY <2>5, StructureFields, Zenon DEF t1
        <3>2. d = Fields(1 .. 0, V1Tables, pages, NoItems, NoObjects, NoEntries,
                         NoHistory, 0, {})
              BY <1>4, <2>1, <3>1, FieldReplaced
        <3>3. Earlier(d, 0)  BY <1>1, <1>3, <1>5, <2>2, <3>2, EarlierFields
        <3> QED  BY <3>3
    <2> QED  BY <2>1, <2>4, <2>5, Zenon
<1>8. CASE d \in BornV2
    <2>1. PICK pages \in [PageIds -> PageRows(StatusesV2, {None})] :
                   d = WithPages(Structure(2), pages)
          BY <1>8 DEF BornV2, WithPages
    <2>2. Structure(2) = Fields(1 .. 2, TablesOf(2), NoPages, NoItems, NoObjects, NoEntries,
                     NoHistory, 0, {})
          BY StructureFields
    <2>3. d = Fields(1 .. 2, TablesOf(2), pages, NoItems, NoObjects, NoEntries,
                     NoHistory, 0, {})
          BY <2>1, <2>2, FieldReplaced
    <2>4. DOMAIN pages = PageIds /\ \A p \in PageIds : pages[p] \in PagesAt(2)
          BY DEF PagesAt
    <2>5. Earlier(d, 2)  BY <1>1, <1>3, <1>5, <2>3, <2>4, EarlierFields
    <2> QED  BY <2>5
<1>9. CASE d \in BornV6
    <2> DEFINE With(x, y) == WithItems(WithPages(Structure(6), x), y)
    <2>0. BornV6 = {With(x, y) : x \in [PageIds -> PageRows({"text_extracted"}, Reviews)],
                          y \in Optional(Items, {[type |-> None, confirmed |-> FALSE]})}
          BY DEF BornV6, WithPages, WithItems
    <2> HIDE DEF With
    <2>1. PICK pages \in [PageIds -> PageRows({"text_extracted"}, Reviews)],
               items \in Optional(Items, {[type |-> None, confirmed |-> FALSE]}) :
                   d = With(pages, items)
          BY <1>9, <2>0
    <2> DEFINE d1 == WithPages(Structure(6), pages)
               d2 == WithItems(d1, items)
    <2>2. d = d2  BY <2>1 DEF With
    <2>3. Structure(6) = Fields(1 .. 6, TablesOf(6), NoPages, NoItems, NoObjects, NoEntries,
                     NoHistory, 0, {})
          BY StructureFields
    <2>4. d1 = Fields(1 .. 6, TablesOf(6), pages, NoItems, NoObjects, NoEntries,
                      NoHistory, 0, {})
          BY <2>3, FieldReplaced
    <2> HIDE DEF d1
    <2>5. d2 = Fields(1 .. 6, TablesOf(6), pages, items, NoObjects, NoEntries,
                      NoHistory, 0, {})
          BY <2>4, FieldReplaced
    <2> HIDE DEF d2
    <2>6. DOMAIN items = Items  BY <2>1 DEF Optional
    <2>7. DOMAIN pages = PageIds /\ \A p \in PageIds : pages[p] \in PagesAt(6)
          BY DEF PagesAt
    <2>8. Earlier(d, 6)
          BY <1>1, <1>3, <1>5, <2>2, <2>5, <2>6, <2>7, EarlierFields
    <2> QED  BY <2>8
<1>10. CASE d \in BornV9
    <2> DEFINE With(x, y) == WithEntries(WithObjects(Structure(9), x), y)
    <2>0. BornV9 = {With(x, y) :
                       x \in Optional(Objects, [status: {"draft", "reviewed", "archived"}]),
                       y \in Optional(Entries, EntriesV9)}
          BY DEF BornV9, WithObjects, WithEntries
    <2> HIDE DEF With
    <2>1. PICK objects \in Optional(Objects, [status: {"draft", "reviewed", "archived"}]),
               entries \in Optional(Entries, EntriesV9) :
                   d = With(objects, entries)
          BY <1>10, <2>0
    <2> DEFINE d1 == WithObjects(Structure(9), objects)
               d2 == WithEntries(d1, entries)
    <2>2. d = d2  BY <2>1 DEF With
    <2>3. Structure(9) = Fields(1 .. 9, TablesOf(9), NoPages, NoItems, NoObjects, NoEntries,
                     NoHistory, 0, {})
          BY StructureFields
    <2>4. d1 = Fields(1 .. 9, TablesOf(9), NoPages, NoItems, objects, NoEntries,
                      NoHistory, 0, {})
          BY <2>3, FieldReplaced
    <2> HIDE DEF d1
    <2>5. d2 = Fields(1 .. 9, TablesOf(9), NoPages, NoItems, objects, entries,
                      NoHistory, 0, {})
          BY <2>4, FieldReplaced
    <2> HIDE DEF d2
    <2>6. /\ DOMAIN objects = Objects /\ DOMAIN entries = Entries
          /\ \A o \in Objects : objects[o] \in [status: {"draft", "reviewed", "archived"}]
                                                 \cup {None}
          /\ \A e \in Entries : entries[e] \in EntriesV9 \cup {None}
          BY <2>1 DEF Optional
    <2>7. Earlier(d, 9)  BY <1>1, <1>3, <1>5, <2>2, <2>5, <2>6, EarlierFields
    <2> QED  BY <2>7
<1> QED  BY <1>2, <1>6, <1>7, <1>8, <1>9, <1>10

-----------------------------------------------------------------------------
(* What the versions leave alone.                                          *)

\* A saved answer is told from the other entries by what version 13 leaves.
LEMMA EntryV13Type ==
    ASSUME NEW cells \in EntriesV10
    PROVE  LET new == EntryV13(cells) IN
           /\ new \in EntriesV10 /\ new # None
           /\ new.object = cells.object /\ new.status = cells.status
           /\ new.form = cells.form
           /\ new.kind = IF IsRawQa(cells) THEN "raw_qa" ELSE cells.kind
           /\ ~IsRawQa(new)
<1> DEFINE kind == IF IsRawQa(cells) THEN "raw_qa" ELSE cells.kind
           origin == IF IsRawQa(cells) THEN "human_saved" ELSE None
           new == [kind |-> kind, form |-> cells.form, object |-> cells.object,
                   status |-> cells.status, origin |-> origin]
<1>1. EntryV13(cells) = new
    <2>1. cells = [kind |-> cells.kind, form |-> cells.form, object |-> cells.object,
                 status |-> cells.status, origin |-> cells.origin]
          BY DEF EntriesV10
    <2> HIDE DEF kind, origin
    <2> DEFINE row1 == [cells EXCEPT !.kind = kind]
    <2>2. row1 = [kind |-> kind, form |-> cells.form, object |-> cells.object,
                  status |-> cells.status, origin |-> cells.origin]
          BY <2>1
    <2> HIDE DEF row1
    <2>3. [row1 EXCEPT !.origin = origin] = new  BY <2>2
    <2> QED  BY <2>3 DEF EntryV13, kind, origin, row1
<1>2. kind \in {"experience", "raw_qa"} /\ origin \in {None, "human_saved", "agent_assisted"}
      BY DEF EntriesV10
<1>3. new \in EntriesV10  BY <1>2 DEF EntriesV10
<1>4. ~IsRawQa(new)  BY DEF IsRawQa
<1>5. new # None  BY <1>3, NullAssumption
<1> QED  BY <1>1, <1>3, <1>4, <1>5

\* The entries after the next version are of the kinds that one knows.
LEMMA MigratedEntries ==
    ASSUME NEW d, Database(d), EntriesTyped(d), NEW v \in 1 .. SCHEMA_VERSION,
           Version(d) = v - 1
    PROVE  EntriesTyped(Migrated(v, d))
<1> DEFINE m == Migrated(v, d)
<1>1. Version(m) = v /\ m.entries = Rewritten(v, d).entries
      BY MigratedType DEF Alike
<1>2. DOMAIN d.entries = Entries  BY DEF Database
<1> HIDE DEF m
<1>3. CASE v = 10
    <2>1. Rewritten(v, d) = V10(d)  BY <1>3 DEF Rewritten
    <2>2. m.entries = EntriesAfterV10(d)  BY <1>1, <2>1, ManyTables, FieldsKnown
    <2>3. ASSUME NEW e \in Ids(m.entries) PROVE m.entries[e] \in EntriesV10
        <3>1. e \in Entries /\ d.entries[e] # None
              BY <1>2, <2>2, <2>3 DEF Ids, EntriesAfterV10, Rewrite
        <3>2. m.entries[e] = EntryV10(d.entries[e]) /\ m.entries[e] # None
              BY <1>2, <2>2, <2>3, <3>1 DEF Ids, EntriesAfterV10, Rewrite
        <3>3. d.entries[e] \in EntriesV9  BY <1>2, <1>3, <3>1 DEF EntriesTyped, Ids
        <3>4. d.entries[e].kind # "knowledge_change"  BY <3>2 DEF EntryV10
        <3>5. d.entries[e] \in [kind: {"experience"}, form: {"free text", "question and answer"},
                                object: {None}]
              BY <3>3, <3>4 DEF EntriesV9
        <3> DEFINE old == d.entries[e]
        <3>6. m.entries[e] = [kind |-> old.kind, form |-> old.form, object |-> old.object,
                              origin |-> None, status |-> "active"]
              BY <3>2, <3>4 DEF EntryV10
        <3>7. /\ old.kind \in {"experience"} /\ old.object \in {None}
              /\ old.form \in {"free text", "question and answer"}
              BY <3>5
        <3> HIDE DEF old
        <3>8. /\ old.kind \in {"experience", "raw_qa"} /\ old.object \in Objects \cup {None}
              /\ None \in {None, "human_saved", "agent_assisted"}
              BY <3>7
        <3>9. [kind |-> old.kind, form |-> old.form, object |-> old.object,
               origin |-> None, status |-> "active"] \in EntriesV10
              BY <3>7, <3>8, Zenon DEF EntriesV10
        <3> QED  BY <3>6, <3>9
    <2> QED  BY <1>1, <1>3, <2>3 DEF EntriesTyped, m
<1>4. CASE v = 13
    <2>1. Rewritten(v, d) = V13(d)  BY <1>4 DEF Rewritten
    <2>2. m.entries = EntriesAfterV13(d)  BY <1>1, <2>1, OneTable, FieldsKnown
    <2>3. ASSUME NEW e \in Ids(m.entries) PROVE m.entries[e] \in EntriesV10
        <3>1. e \in Entries /\ d.entries[e] # None
              BY <1>2, <2>2, <2>3 DEF Ids, EntriesAfterV13, Rewrite
        <3>2. m.entries[e] = EntryV13(d.entries[e])
              BY <1>2, <2>2, <2>3, <3>1 DEF Ids, EntriesAfterV13, Rewrite
        <3>3. d.entries[e] \in EntriesV10  BY <1>2, <1>4, <3>1 DEF EntriesTyped, Ids
        <3> QED  BY <3>2, <3>3, EntryV13Type
    <2> QED  BY <1>1, <1>4, <2>3 DEF EntriesTyped, m
<1>5. CASE v \notin {10, 13}
    <2>1. m.entries = d.entries
        <3>1. CASE v \in Rewriting
            <4>1. Rewritten(v, d).entries = d.entries
                  BY <1>5, <3>1, OneTable, ManyTables, FieldsKnown DEF Rewriting, Rewritten
            <4> QED  BY <1>1, <4>1
        <3>2. CASE v \notin Rewriting  BY <1>1, <3>2, OthersKeepRows
        <3> QED  BY <3>1, <3>2
    <2> QED  BY <1>1, <1>5, <2>1 DEF EntriesTyped, m
<1> QED  BY <1>3, <1>4, <1>5

\* A version that compares a fingerprint of the database finds it unchanged.
LEMMA FingerprintKept ==
    ASSUME NEW d, Database(d), EntriesTyped(d), NEW v \in 1 .. SCHEMA_VERSION,
           Version(d) = v - 1
    PROVE  Fingerprint(v, Rewritten(v, d)) = Fingerprint(v, d)
<1> DEFINE r == Rewritten(v, d)
<1>1. CASE v \notin Rewriting  BY <1>1, OthersKeepRows
<1>2. CASE v \in {2, 3}  BY <1>2 DEF Fingerprint
<1>3. CASE v = 7
    <2>1. r.pages = d.pages /\ r.items = ItemsAfterV7(d)
          BY <1>3, OneTable, FieldsKnown DEF Rewritten
    <2>2. Core(r) = Core(d)  BY <2>1 DEF Core
    <2>3. \A cells : ItemV7(cells) # None
        <3>1. \A cells : ItemV7(cells) \in ItemsV7  BY DEF ItemV7, ItemsV7
        <3> QED  BY <3>1, NullAssumption
    <2>4. Ids(r.items) = Ids(d.items)  BY <2>1, <2>3 DEF ItemsAfterV7, Rewrite, Ids
    <2> QED  BY <1>3, <2>2, <2>4 DEF Fingerprint
<1>4. CASE v = 10
    <2>1. r.pages = d.pages
          BY <1>4, ManyTables, FieldsKnown DEF Rewritten
    <2>2. Core(r) = Core(d)  BY <2>1 DEF Core
    <2> QED  BY <1>4, <2>2 DEF Fingerprint
<1>5. CASE v = 11
    <2>1. r.objects = d.objects /\ r.entries = d.entries
          BY <1>5, ManyTables, FieldsKnown DEF Rewritten
    <2> QED  BY <1>5, <2>1 DEF Fingerprint
<1>6. CASE v = 13
    <2>1. r.entries = EntriesAfterV13(d)
          BY <1>6, OneTable, FieldsKnown DEF Rewritten
    <2> HIDE DEF r
    <2>2. ASSUME NEW e \in Ids(d.entries)
          PROVE  /\ d.entries[e] \in EntriesV10
                 /\ e \in DOMAIN r.entries /\ r.entries[e] = EntryV13(d.entries[e])
          BY <1>6, <2>1 DEF EntriesTyped, EntriesAfterV13, Rewrite, Ids
    <2>3. Ids(r.entries) = Ids(d.entries)
        <3>1. ASSUME NEW e \in Ids(d.entries) PROVE e \in Ids(r.entries)
              BY <2>2, EntryV13Type DEF Ids
        <3>2. ASSUME NEW e \in Ids(r.entries) PROVE e \in Ids(d.entries)
              BY <2>1, <3>2 DEF EntriesAfterV13, Rewrite, Ids
        <3> QED  BY <3>1, <3>2
    <2>4. ASSUME NEW e \in Ids(d.entries)
          PROVE  /\ (IF IsRawQa(r.entries[e]) THEN "raw_qa" ELSE r.entries[e].kind)
                      = (IF IsRawQa(d.entries[e]) THEN "raw_qa" ELSE d.entries[e].kind)
                 /\ r.entries[e].object = d.entries[e].object
                 /\ r.entries[e].status = d.entries[e].status
          BY <2>2, EntryV13Type
    <2>5. Classified(r) = Classified(d)  BY <2>3, <2>4 DEF Classified
    <2> QED  BY <1>6, <2>5 DEF Fingerprint, r
<1> QED  BY <1>1, <1>2, <1>3, <1>4, <1>5, <1>6 DEF Rewriting

-----------------------------------------------------------------------------
(* Invariance.                                                             *)

\* The part of the invariant that is about the database.
DataInv ==
    /\ Database(db) /\ first \in Born /\ TablesOK /\ EntriesTyped(db) /\ WorkOK

\* The invariant holds of the databases that earlier programs left.
LEMMA InitMigrationInv == MigrationInit => MigrationInv
<1> SUFFICES ASSUME MigrationInit PROVE MigrationInv  OBVIOUS
<1>1. PICK n \in {0, 1, 2, 6, 9} : Earlier(db, n)  BY BornType DEF MigrationInit
<1>2. Database(db) /\ Version(db) = n
    <2>1. n \in 0 .. SCHEMA_VERSION  OBVIOUS
    <2>2. Database(db) /\ db.versions = 1 .. n  BY <1>1 DEF Earlier
    <2> QED  BY <2>1, <2>2, VersionIs
<1>3. TablesOK  BY <1>1, <1>2 DEF Earlier, TablesOK, MigrationInit
<1>4. EntriesTyped(db)
    <2>1. \A e \in Ids(db.entries) : e \in Entries /\ db.entries[e] # None
          BY <1>2 DEF Database, Ids
    <2> QED  BY <1>1, <1>2, <2>1 DEF Earlier, EntriesTyped
<1>5. WorkOK  BY DEF WorkOK, MigrationInit, Alike
<1>6. ProcessOK /\ CopiedOK /\ InStep /\ FailsOnlyIfDisturbed
      BY <1>2 DEF MigrationInit, ProcessOK, CopiedOK, InStep, FailsOnlyIfDisturbed, Off,
                  At, Stages
<1> QED  BY <1>2, <1>3, <1>4, <1>5, <1>6 DEF MigrationInv, MigrationInit

\* What Go does to the processes.
LEMMA GoIs ==
    ASSUME ProcessOK, NEW p \in Processes, NEW stage \in Stages,
           NEW n \in 0 .. SCHEMA_VERSION, Go(p, stage, n)
    PROVE  /\ process' \in [Processes -> [at: Stages, version: 0 .. SCHEMA_VERSION]]
           /\ process'[p].at = stage /\ process'[p].version = n
           /\ \A q \in Processes \ {p} : process'[q] = process[q]
BY DEF ProcessOK, Go

\* A step that leaves the database and the history alone.
LEMMA DataStays ==
    ASSUME DataInv, UNCHANGED <<db, first, worked>>
    PROVE  DataInv' /\ Version(db)' = Version(db)
BY DEF DataInv, TablesOK, WorkOK

\* Tables of version 1 and the table of the versions may come at any time.
LEMMA SchemaGrows ==
    ASSUME DataInv, NEW S, \A t \in S : Origin(t) = 0,
           db' = [db EXCEPT !.schema = @ \cup S], UNCHANGED <<first, worked>>
    PROVE  /\ DataInv' /\ Version(db') = Version(db)
           /\ Alike(Upgraded(db), Upgraded(db'))
<1>1. Database(db)  BY DEF DataInv
<1>2. db = Fields(db.versions, db.schema, db.pages, db.items, db.objects, db.entries,
                  db.history, db.orphans, db.indexed)
      BY <1>1 DEF Database
<1> DEFINE new == db'
<1>3. new = WithSchema(db, db.schema \cup S)  BY DEF WithSchema
<1> HIDE DEF new
<1>4. new = Fields(db.versions, db.schema \cup S, db.pages, db.items, db.objects,
                   db.entries, db.history, db.orphans, db.indexed)
      BY <1>2, <1>3, FieldReplaced
<1>5. /\ new.versions = db.versions /\ new.schema = db.schema \cup S
      /\ new.pages = db.pages /\ new.items = db.items /\ new.objects = db.objects
      /\ new.entries = db.entries /\ new.history = db.history
      /\ new.orphans = db.orphans /\ new.indexed = db.indexed
      /\ new = Fields(new.versions, new.schema, new.pages, new.items, new.objects,
                      new.entries, new.history, new.orphans, new.indexed)
      BY <1>4, FieldsKnown
<1>6. Database(new)  BY <1>1, <1>5 DEF Database
<1>7. Version(new) = Version(db)  BY <1>5, VersionOfVersions
<1>8. Alike(db, new)  BY <1>5 DEF Alike
<1>9. Alike(Upgraded(db), Upgraded(new))  BY <1>1, <1>5, <1>6, <1>8, UpgradedAlike
<1>10. TablesOK'
    <2>1. TablesOK /\ first' = first  BY DEF DataInv
    <2>2. 0 <= Version(db)  BY <1>1, VersionType
    <2>3. \A t \in new.schema : Origin(t) <= Version(new)
          BY <1>5, <1>7, <2>1, <2>2 DEF TablesOK
    <2>4. first.schema \subseteq new.schema  BY <1>5, <2>1 DEF TablesOK
    <2> QED  BY <2>1, <2>3, <2>4 DEF TablesOK, new
<1>11. EntriesTyped(new)
    <2>1. EntriesTyped(db)  BY DEF DataInv
    <2> QED  BY <1>5, <1>7, <2>1 DEF EntriesTyped
<1>12. WorkOK'
    <2>1. WorkOK /\ first' = first /\ worked' = worked  BY DEF DataInv
    <2>2. ~worked => Alike(Upgraded(first), Upgraded(new))
          BY <1>9, <2>1 DEF WorkOK, Alike
    <2> QED  BY <1>7, <2>1, <2>2 DEF WorkOK, new
<1>13. first' \in Born'  BY DEF DataInv, Born
<1> QED  BY <1>6, <1>7, <1>9, <1>10, <1>11, <1>12, <1>13 DEF DataInv, new

\* Looking at the version disturbs nobody, and forgets what happened before.
LEMMA ReadStep ==
    ASSUME MigrationInv, NEW p \in Processes, Read(p)
    PROVE  MigrationInv'
<1>1. DataInv' /\ Version(db)' = Version(db)  BY DataStays DEF MigrationInv, DataInv, Read
<1>2. Version(db) \in 0 .. SCHEMA_VERSION  BY VersionType DEF MigrationInv
<1>3. /\ process' \in [Processes -> [at: Stages, version: 0 .. SCHEMA_VERSION]]
      /\ process'[p].at = "seen" /\ process'[p].version = Version(db)
      /\ \A q \in Processes \ {p} : process'[q] = process[q]
    <2>1. "seen" \in Stages  BY DEF Stages
    <2> QED  BY <1>2, <2>1, GoIs DEF Read, MigrationInv
<1>4. db' = db /\ first' = first /\ backups' = backups /\ disturbed' = disturbed \ {p}
      BY DEF Read
<1>5. ProcessOK'  BY <1>1, <1>2, <1>3 DEF ProcessOK, At, MigrationInv
<1>6. CopiedOK'  BY <1>1, <1>3, <1>4 DEF CopiedOK, At, MigrationInv
<1>7. InStep'  BY <1>1, <1>3, <1>4 DEF InStep, At, MigrationInv
<1>8. FailsOnlyIfDisturbed'  BY <1>3, <1>4 DEF FailsOnlyIfDisturbed, At, MigrationInv
<1> QED  BY <1>1, <1>5, <1>6, <1>7, <1>8 DEF MigrationInv, DataInv

\* After the copy is taken, or is not needed, there is a copy if the database
\* is older than the program.
LEMMA BackupStep ==
    ASSUME MigrationInv, NEW p \in Processes, Backup(p)
    PROVE  MigrationInv'
<1>1. DataInv' /\ Version(db)' = Version(db)  BY DataStays DEF MigrationInv, DataInv, Backup
<1>2. /\ process[p].version \in 0 .. SCHEMA_VERSION
      /\ process[p].version <= Version(db) /\ Version(db) \in 0 .. SCHEMA_VERSION
      BY VersionType DEF MigrationInv, ProcessOK
<1>3. /\ process' \in [Processes -> [at: Stages, version: 0 .. SCHEMA_VERSION]]
      /\ process'[p].at = "copied" /\ process'[p].version = process[p].version
      /\ \A q \in Processes \ {p} : process'[q] = process[q]
    <2>1. "copied" \in Stages  BY DEF Stages
    <2> QED  BY <1>2, <2>1, GoIs DEF Backup, MigrationInv
<1>4. db' = db /\ first' = first /\ disturbed' = disturbed /\ backups \subseteq backups'
      BY DEF Backup
<1>5. ProcessOK'  BY <1>1, <1>2, <1>3 DEF ProcessOK, At, MigrationInv
<1>6. CopiedOK'
    <2>1. ASSUME Version(db) < SCHEMA_VERSION, first.schema # {}
          PROVE  Library(Upgraded(db)) \in backups'
        <3>1. db.schema # {}  BY <2>1 DEF MigrationInv, TablesOK
        <3>2. NeedsBackup(process[p].version)  BY <1>2, <2>1, <3>1 DEF NeedsBackup
        <3> QED  BY <3>2 DEF Backup
    <2>2. ASSUME NEW q \in Processes, (At(q, "copied") \/ At(q, "migrating"))',
                 Version(db) < SCHEMA_VERSION, first.schema # {}
          PROVE  Library(Upgraded(db)) \in backups'
          BY <2>1, <2>2
    <2> QED  BY <1>1, <1>4, <2>2 DEF CopiedOK
<1>7. InStep'  BY <1>1, <1>3, <1>4 DEF InStep, At, MigrationInv
<1>8. FailsOnlyIfDisturbed'  BY <1>3, <1>4 DEF FailsOnlyIfDisturbed, At, MigrationInv
<1> QED  BY <1>1, <1>5, <1>6, <1>7, <1>8 DEF MigrationInv, DataInv

\* The connection looks at the version again and goes on from there.
LEMMA ConnectStep ==
    ASSUME MigrationInv, NEW p \in Processes, Connect(p)
    PROVE  MigrationInv'
<1>1. /\ DataInv' /\ Version(db') = Version(db)
      /\ Alike(Upgraded(db), Upgraded(db'))
    <2> DEFINE S == {"schema_migrations"}
    <2>1. \A t \in S : Origin(t) = 0  BY AddedOnce
    <2>2. db' = [db EXCEPT !.schema = @ \cup S] /\ UNCHANGED <<first, worked>>
          BY DEF Connect
    <2>3. DataInv  BY DEF MigrationInv, DataInv
    <2> HIDE DEF S
    <2> QED  BY <2>1, <2>2, <2>3, SchemaGrows
<1>2. Version(db) \in 0 .. SCHEMA_VERSION  BY VersionType DEF MigrationInv
<1>3. /\ process' \in [Processes -> [at: Stages, version: 0 .. SCHEMA_VERSION]]
      /\ process'[p].at = "migrating" /\ process'[p].version = Version(db)
      /\ \A q \in Processes \ {p} : process'[q] = process[q]
    <2>1. "migrating" \in Stages  BY DEF Stages
    <2> QED  BY <1>2, <2>1, GoIs DEF Connect, MigrationInv
<1>4. /\ first' = first /\ disturbed' = disturbed /\ backups' = backups
      /\ At(p, "copied")
      BY DEF Connect
<1>5. ProcessOK'  BY <1>1, <1>2, <1>3 DEF ProcessOK, At, MigrationInv
<1>6. CopiedOK'
    <2>1. Library(Upgraded(db')) = Library(Upgraded(db))  BY <1>1, AlikeIsLibrary
    <2>2. ASSUME NEW q \in Processes, (At(q, "copied") \/ At(q, "migrating"))'
          PROVE  At(q, "copied") \/ At(q, "migrating")
          BY <1>3, <1>4, <2>2 DEF At
    <2> QED  BY <1>1, <1>4, <2>1, <2>2 DEF CopiedOK, MigrationInv
<1>7. InStep'  BY <1>1, <1>3, <1>4 DEF InStep, At, MigrationInv
<1>8. FailsOnlyIfDisturbed'  BY <1>3, <1>4 DEF FailsOnlyIfDisturbed, At, MigrationInv
<1> QED  BY <1>1, <1>5, <1>6, <1>7, <1>8 DEF MigrationInv, DataInv

\* The tables of version 1 come before its row.
LEMMA FirstTablesStep ==
    ASSUME MigrationInv, NEW p \in Processes, FirstTables(p)
    PROVE  MigrationInv'
<1>1. /\ DataInv' /\ Version(db') = Version(db)
      /\ Alike(Upgraded(db), Upgraded(db'))
    <2>1. \A t \in V1Tables : Origin(t) = 0  BY AddedOnce
    <2> QED  BY <2>1, SchemaGrows DEF MigrationInv, DataInv, FirstTables
<1>2. /\ first' = first /\ disturbed' = disturbed /\ backups' = backups
      /\ process' = process
      BY DEF FirstTables
<1>3. ProcessOK'  BY <1>1, <1>2 DEF ProcessOK, At, MigrationInv
<1>4. CopiedOK'
    <2>1. Library(Upgraded(db')) = Library(Upgraded(db))  BY <1>1, AlikeIsLibrary
    <2> QED  BY <1>1, <1>2, <2>1 DEF CopiedOK, At, MigrationInv
<1>5. InStep'  BY <1>1, <1>2 DEF InStep, At, MigrationInv
<1>6. FailsOnlyIfDisturbed'  BY <1>2 DEF FailsOnlyIfDisturbed, At, MigrationInv
<1> QED  BY <1>1, <1>3, <1>4, <1>5, <1>6 DEF MigrationInv, DataInv

\* Nobody disturbed: the next version is refused by no table, no row and no
\* fingerprint.
LEMMA NextVersionFits ==
    ASSUME MigrationInv, NEW p \in Processes \ disturbed, At(p, "migrating"),
           process[p].version + 1 <= SCHEMA_VERSION
    PROVE  LET v == process[p].version + 1 IN
           /\ ~Refused(v, db)
           /\ Fingerprint(v, Rewritten(v, db)) = Fingerprint(v, db)
<1> DEFINE v == process[p].version + 1
<1>1. process[p].version = Version(db)  BY DEF MigrationInv, InStep
<1>2. Version(db) \in 0 .. SCHEMA_VERSION /\ db.versions = 1 .. Version(db)
      BY VersionType DEF MigrationInv
<1>3. v \in 1 .. SCHEMA_VERSION /\ Version(db) = v - 1  BY <1>1, <1>2
<1> HIDE DEF v
<1>4. v \notin db.versions  BY <1>2, <1>3
<1>5. Added(v) \cap db.schema = {}
    <2> SUFFICES ASSUME NEW t \in Added(v), t \in db.schema PROVE FALSE  OBVIOUS
    <2>1. Origin(t) = v  BY <1>3, AddedOnce
    <2>2. Origin(t) <= v - 1  BY <1>3 DEF MigrationInv, TablesOK
    <2> QED  BY <1>3, <2>1, <2>2
<1>6. Fingerprint(v, Rewritten(v, db)) = Fingerprint(v, db)
      BY <1>3, FingerprintKept DEF MigrationInv
<1> QED  BY <1>4, <1>5, <1>6 DEF v, Refused

\* The version that is applied is the next one, whoever applies it, and it
\* leaves the library as it is.
LEMMA MigratedStep ==
    ASSUME MigrationInv, NEW p \in Processes, NEW v, v = process[p].version + 1,
           v <= SCHEMA_VERSION, ~Refused(v, db), db' = Migrated(v, db),
           UNCHANGED <<first, worked>>
    PROVE  /\ v \in 1 .. SCHEMA_VERSION /\ Version(db) = v - 1 /\ Version(db') = v
           /\ Alike(Upgraded(db), Upgraded(db'))
           /\ DataInv'
<1>1. Database(db) /\ EntriesTyped(db) /\ TablesOK /\ WorkOK  BY DEF MigrationInv
<1>2. Version(db) \in 0 .. SCHEMA_VERSION /\ db.versions = 1 .. Version(db)
      BY <1>1, VersionType
<1>3. process[p].version \in 0 .. SCHEMA_VERSION /\ process[p].version <= Version(db)
      BY DEF MigrationInv, ProcessOK
<1>4. v \notin db.versions  BY DEF Refused
<1>5. v \in 1 .. SCHEMA_VERSION /\ Version(db) = v - 1
    <2> DEFINE n == Version(db)  k == process[p].version
    <2>1. /\ n \in 0 .. SCHEMA_VERSION /\ k \in 0 .. SCHEMA_VERSION /\ k <= n
          /\ v = k + 1 /\ v \notin 1 .. n
          BY <1>2, <1>3, <1>4
    <2> HIDE DEF n, k
    <2>2. v \in 1 .. SCHEMA_VERSION /\ n = v - 1  BY <2>1
    <2> QED  BY <2>2 DEF n
<1> DEFINE new == db'
<1>6. /\ Database(new) /\ Version(new) = v /\ new.schema = db.schema \cup Added(v)
      BY <1>1, <1>5, MigratedType
<1>7. Alike(Upgraded(db), Upgraded(new))  BY <1>1, <1>5, MigratedUpgrades
<1>8. EntriesTyped(new)  BY <1>1, <1>5, MigratedEntries
<1>9. TablesOK'
    <2>1. ASSUME NEW t \in new.schema PROVE Origin(t) <= v
        <3>1. CASE t \in db.schema
            <4>1. Origin(t) <= v - 1  BY <1>1, <1>5, <3>1 DEF TablesOK
            <4>2. Origin(t) \in Nat  BY DEF Origin
            <4> QED  BY <1>5, <4>1, <4>2
        <3>2. CASE t \in Added(v)
            <4>1. Origin(t) = v  BY <1>5, <3>2, AddedOnce
            <4> QED  BY <1>5, <4>1
        <3> QED  BY <1>6, <2>1, <3>1, <3>2
    <2>2. first'.schema \subseteq new.schema  BY <1>1, <1>6 DEF TablesOK
    <2> QED  BY <1>6, <2>1, <2>2 DEF TablesOK
<1>10. WorkOK'
    <2>1. ~worked  BY <1>1, <1>5 DEF WorkOK
    <2>2. Alike(Upgraded(first), Upgraded(new))  BY <1>1, <1>7, <2>1 DEF WorkOK, Alike
    <2>3. worked' = FALSE /\ first' = first  BY <1>1, <2>1 DEF WorkOK
    <2>4. worked' \in BOOLEAN /\ ~worked'  BY <2>3
    <2>5. Alike(Upgraded(first'), Upgraded(db'))  BY <2>2, <2>3
    <2> QED  BY <2>4, <2>5 DEF WorkOK
<1> QED  BY <1>5, <1>6, <1>7, <1>8, <1>9, <1>10 DEF DataInv, MigrationInv

\* A version is applied as a whole, or the start fails for a cause.
LEMMA MigrateStep ==
    ASSUME MigrationInv, NEW p \in Processes, Migrate(p)
    PROVE  MigrationInv'
<1> DEFINE v == process[p].version + 1
           fails == Refused(v, db) \/ Fingerprint(v, Rewritten(v, db)) # Fingerprint(v, db)
<1>1. /\ At(p, "migrating") /\ v <= SCHEMA_VERSION
      /\ first' = first /\ worked' = worked /\ backups' = backups
      BY DEF Migrate
<1>2. CASE fails
    <2>1. Go(p, "failed", 0) /\ db' = db /\ disturbed' = disturbed
          BY <1>2 DEF Migrate
    <2>2. p \in disturbed  BY <1>1, <1>2, NextVersionFits
    <2>3. DataInv' /\ Version(db)' = Version(db)
          BY <1>1, <2>1, DataStays DEF MigrationInv, DataInv
    <2>4. /\ process' \in [Processes -> [at: Stages, version: 0 .. SCHEMA_VERSION]]
          /\ process'[p].at = "failed" /\ process'[p].version = 0
          /\ \A q \in Processes \ {p} : process'[q] = process[q]
          BY <2>1, GoIs DEF MigrationInv, Stages
    <2>5. Version(db) \in 0 .. SCHEMA_VERSION  BY VersionType DEF MigrationInv
    <2>6. ProcessOK'  BY <2>3, <2>4, <2>5 DEF ProcessOK, At, MigrationInv
    <2>7. CopiedOK'  BY <1>1, <2>1, <2>3, <2>4 DEF CopiedOK, At, MigrationInv
    <2>8. InStep'  BY <2>1, <2>3, <2>4 DEF InStep, At, MigrationInv
    <2>9. FailsOnlyIfDisturbed'
          BY <2>1, <2>2, <2>4 DEF FailsOnlyIfDisturbed, At, MigrationInv
    <2> QED  BY <2>3, <2>6, <2>7, <2>8, <2>9 DEF MigrationInv, DataInv
<1>3. CASE ~fails
    <2>1. db' = Migrated(v, db) /\ Go(p, "migrating", v) /\ Changed(p) /\ ~Refused(v, db)
          BY <1>3 DEF Migrate
    <2>2. /\ v \in 1 .. SCHEMA_VERSION /\ Version(db) = v - 1 /\ Version(db') = v
          /\ Alike(Upgraded(db), Upgraded(db')) /\ DataInv'
          BY <1>1, <2>1, MigratedStep
    <2> HIDE DEF v
    <2>3. /\ process' \in [Processes -> [at: Stages, version: 0 .. SCHEMA_VERSION]]
          /\ process'[p].at = "migrating" /\ process'[p].version = v
          /\ \A q \in Processes \ {p} : process'[q] = process[q]
        <3>1. "migrating" \in Stages /\ v \in 0 .. SCHEMA_VERSION  BY <2>2 DEF Stages
        <3> QED  BY <2>1, <3>1, GoIs DEF MigrationInv
    <2>4. ProcessOK'
        <3>1. \A q \in Processes \ {p} :
                  /\ process[q].version \in 0 .. SCHEMA_VERSION
                  /\ process[q].version <= Version(db)
              BY DEF MigrationInv, ProcessOK
        <3>2. \A q \in Processes : process'[q].version <= Version(db')
              BY <2>2, <2>3, <3>1
        <3>3. ASSUME NEW q \in Processes, process'[q].at = "ready" PROVE FALSE
            <4>1. q # p /\ process[q].at = "ready"  BY <2>3, <3>3
            <4>2. Version(db) = SCHEMA_VERSION  BY <4>1 DEF MigrationInv, ProcessOK, At
            <4> QED  BY <2>2, <4>2
        <3> QED  BY <2>3, <3>2, <3>3 DEF ProcessOK, At
    <2>5. CopiedOK'
        <3>1. Library(Upgraded(db')) = Library(Upgraded(db))  BY <2>2, AlikeIsLibrary
        <3>2. Version(db) < SCHEMA_VERSION  BY <2>2
        <3>3. first.schema # {} => Library(Upgraded(db)) \in backups
              BY <1>1, <3>2 DEF MigrationInv, CopiedOK
        <3> QED  BY <1>1, <3>1, <3>3 DEF CopiedOK
    <2>6. InStep'
        <3>1. ASSUME NEW q \in Processes, q # p, q \notin disturbed',
                     process'[q].at = "migrating"
              PROVE  FALSE
            <4>1. process[q].at = "migrating"  BY <2>3, <3>1
            <4>2. q \in Starting  BY <4>1 DEF Starting
            <4> QED  BY <2>1, <3>1, <4>2 DEF Changed
        <3> QED  BY <2>2, <2>3, <3>1 DEF InStep, At
    <2>7. FailsOnlyIfDisturbed'
        <3>1. disturbed \subseteq disturbed'  BY <2>1 DEF Changed
        <3> QED  BY <2>3, <3>1 DEF FailsOnlyIfDisturbed, At, MigrationInv
    <2> QED  BY <2>2, <2>4, <2>5, <2>6, <2>7 DEF MigrationInv, DataInv
<1> QED  BY <1>2, <1>3

\* The processes go on, the database stays.
LEMMA ProcessSteps ==
    ASSUME MigrationInv, NEW p \in Processes, UNCHANGED <<db, backups, first, worked>>,
           process' \in [Processes -> [at: Stages, version: 0 .. SCHEMA_VERSION]],
           process'[p].version <= Version(db), process'[p].at \notin {"copied", "migrating"},
           process'[p].at = "ready" => Version(db) = SCHEMA_VERSION,
           process'[p].at = "failed" => p \in disturbed',
           \A q \in Processes \ {p} : process'[q] = process[q],
           disturbed \subseteq disturbed'
    PROVE  MigrationInv'
<1>1. DataInv' /\ Version(db)' = Version(db)  BY DataStays DEF MigrationInv, DataInv
<1>2. ProcessOK'  BY <1>1 DEF ProcessOK, At, MigrationInv
<1>3. CopiedOK'
    <2>1. ASSUME NEW q \in Processes, process'[q].at \in {"copied", "migrating"}
          PROVE  process[q].at \in {"copied", "migrating"}
          BY <2>1
    <2> QED  BY <1>1, <2>1 DEF CopiedOK, At, MigrationInv
<1>4. InStep'  BY <1>1 DEF InStep, At, MigrationInv
<1>5. FailsOnlyIfDisturbed'  BY DEF FailsOnlyIfDisturbed, At, MigrationInv
<1> QED  BY <1>1, <1>2, <1>3, <1>4, <1>5 DEF MigrationInv, DataInv

\* A start is complete only on the newest schema.
LEMMA CheckAllStep ==
    ASSUME MigrationInv, NEW p \in Processes, CheckAll(p)
    PROVE  MigrationInv'
<1>1. /\ process' \in [Processes -> [at: Stages, version: 0 .. SCHEMA_VERSION]]
      /\ process'[p].at = "ready" /\ process'[p].version = SCHEMA_VERSION
      /\ \A q \in Processes \ {p} : process'[q] = process[q]
    <2>1. "ready" \in Stages /\ SCHEMA_VERSION \in 0 .. SCHEMA_VERSION  BY DEF Stages
    <2> QED  BY <2>1, GoIs DEF CheckAll, MigrationInv
<1>2. Version(db) = SCHEMA_VERSION
    <2>1. Version(db) \in 0 .. SCHEMA_VERSION  BY VersionType DEF MigrationInv
    <2>2. SCHEMA_VERSION <= Version(db)  BY DEF CheckAll, MigrationInv, ProcessOK
    <2> QED  BY <2>1, <2>2
<1>3. UNCHANGED <<db, backups, first, worked>> /\ disturbed \subseteq disturbed'
      BY DEF CheckAll
<1> QED  BY <1>1, <1>2, <1>3, ProcessSteps

\* An error disturbs the start it fails.
LEMMA StartFailsStep ==
    ASSUME MigrationInv, NEW p \in Processes, StartFails(p)
    PROVE  MigrationInv'
<1>1. /\ process' \in [Processes -> [at: Stages, version: 0 .. SCHEMA_VERSION]]
      /\ process'[p].at = "failed" /\ process'[p].version = 0
      /\ \A q \in Processes \ {p} : process'[q] = process[q]
    <2>1. "failed" \in Stages  BY DEF Stages
    <2> QED  BY <2>1, GoIs DEF StartFails, MigrationInv
<1>2. Version(db) \in 0 .. SCHEMA_VERSION  BY VersionType DEF MigrationInv
<1>3. /\ UNCHANGED <<db, backups, first, worked>>
      /\ disturbed \subseteq disturbed' /\ p \in disturbed'
      BY DEF StartFails
<1> QED  BY <1>1, <1>2, <1>3, ProcessSteps

\* A program that dies in its start leaves the database as it is.
LEMMA StartDiesStep ==
    ASSUME MigrationInv, NEW p \in Processes, StartDies(p)
    PROVE  MigrationInv'
<1>1. /\ process' \in [Processes -> [at: Stages, version: 0 .. SCHEMA_VERSION]]
      /\ process'[p].at = "off" /\ process'[p].version = 0
      /\ \A q \in Processes \ {p} : process'[q] = process[q]
    <2>1. "off" \in Stages  BY DEF Stages
    <2>2. Go(p, "off", 0)  BY DEF StartDies, Go, Off
    <2> QED  BY <2>1, <2>2, GoIs DEF MigrationInv
<1>2. Version(db) \in 0 .. SCHEMA_VERSION  BY VersionType DEF MigrationInv
<1>3. UNCHANGED <<db, backups, first, worked>> /\ disturbed \subseteq disturbed'
      BY DEF StartDies
<1> QED  BY <1>1, <1>2, <1>3, ProcessSteps

\* The library of a database with other rows.
LEMMA LibraryReplaced ==
    ASSUME NEW d, NEW a, NEW b, NEW x, NEW y, NEW z, NEW u, NEW h, NEW n, NEW i,
           d = Fields(a, b, x, y, z, u, h, n, i), NEW new
    PROVE  /\ Library(WithPages(d, new)) = WithPages(Library(d), new)
           /\ Library(WithItems(d, new)) = WithItems(Library(d), new)
           /\ Library(WithEntries(d, new)) = WithEntries(Library(d), new)
           /\ Library(WithIndexed(d, new)) = WithIndexed(Library(d), new)
<1> DEFINE L(p, q, o, e, t, m, f) ==
               [pages |-> p, items |-> q, objects |-> o, entries |-> e,
                history |-> t, orphans |-> m, indexed |-> f]
<1>1. Library(d) = L(x, y, z, u, h, n, i)  BY FieldsKnown DEF Library
<1>2. /\ Library(WithPages(d, new)) = L(new, y, z, u, h, n, i)
      /\ Library(WithItems(d, new)) = L(x, new, z, u, h, n, i)
      /\ Library(WithEntries(d, new)) = L(x, y, z, new, h, n, i)
      /\ Library(WithIndexed(d, new)) = L(x, y, z, u, h, n, new)
      BY FieldReplaced, FieldsKnown DEF Library
<1>3. /\ WithPages(L(x, y, z, u, h, n, i), new) = L(new, y, z, u, h, n, i)
      /\ WithItems(L(x, y, z, u, h, n, i), new) = L(x, new, z, u, h, n, i)
      /\ WithEntries(L(x, y, z, u, h, n, i), new) = L(x, y, z, new, h, n, i)
      /\ WithIndexed(L(x, y, z, u, h, n, i), new) = L(x, y, z, u, h, n, new)
      BY DEF WithPages, WithItems, WithEntries, WithIndexed
<1> HIDE DEF L
<1> QED  BY <1>1, <1>2, <1>3

\* The pieces of work, by the tables they change.
LEMMA WorksAre ==
    ASSUME NEW d, NEW e
    PROVE  /\ e \in Reviewed(d) <=>
                  \E p \in Ids(d.pages) :
                      e = WithPages(d, [d.pages EXCEPT ![p].review = "reviewed"])
           /\ e \in Confirmed(d) <=>
                  \E i \in Ids(d.items) :
                      e = WithItems(d, [d.items EXCEPT ![i].confirmed = TRUE])
           /\ e \in Saved(d) <=>
                  \E k \in Entries \ Ids(d.entries) :
                      e = WithIndexed(WithEntries(d, [d.entries EXCEPT ![k] = SavedAnswer]),
                                      d.indexed \cup {k})
<1>1. \A p : [d EXCEPT !.pages[p].review = "reviewed"] =
                 WithPages(d, [d.pages EXCEPT ![p].review = "reviewed"])
      BY DEF WithPages
<1>2. \A i : [d EXCEPT !.items[i].confirmed = TRUE] =
                 WithItems(d, [d.items EXCEPT ![i].confirmed = TRUE])
      BY DEF WithItems
<1>3. \A k : [d EXCEPT !.entries[k] = SavedAnswer, !.indexed = @ \cup {k}] =
                 WithIndexed(WithEntries(d, [d.entries EXCEPT ![k] = SavedAnswer]),
                             d.indexed \cup {k})
      BY DEF WithEntries, WithIndexed
<1>4. Reviewed(d) = {WithPages(d, [d.pages EXCEPT ![p].review = "reviewed"]) :
                         p \in Ids(d.pages)}
      BY <1>1, Zenon DEF Reviewed
<1>5. Confirmed(d) = {WithItems(d, [d.items EXCEPT ![i].confirmed = TRUE]) :
                          i \in Ids(d.items)}
      BY <1>2, Zenon DEF Confirmed
<1>6. Saved(d) = {WithIndexed(WithEntries(d, [d.entries EXCEPT ![k] = SavedAnswer]),
                              d.indexed \cup {k}) : k \in Entries \ Ids(d.entries)}
      BY <1>3, Zenon DEF Saved
<1>7. e \in Reviewed(d) <=> \E p \in Ids(d.pages) :
                               e = WithPages(d, [d.pages EXCEPT ![p].review = "reviewed"])
      BY <1>4, Zenon
<1>8. e \in Confirmed(d) <=> \E i \in Ids(d.items) :
                                e = WithItems(d, [d.items EXCEPT ![i].confirmed = TRUE])
      BY <1>5, Zenon
<1>9. e \in Saved(d) <=>
          \E k \in Entries \ Ids(d.entries) :
              e = WithIndexed(WithEntries(d, [d.entries EXCEPT ![k] = SavedAnswer]),
                              d.indexed \cup {k})
      BY <1>6, Zenon
<1> QED  BY <1>7, <1>8, <1>9

\* A piece of work keeps the form of the database and its version, and it is a
\* piece of work on the library.
LEMMA WorkKeepsForm ==
    ASSUME NEW d, Database(d), Version(d) = SCHEMA_VERSION, EntriesTyped(d),
           NEW e \in Works(d)
    PROVE  /\ Database(e) /\ e.versions = d.versions /\ e.schema = d.schema
           /\ Version(e) = SCHEMA_VERSION /\ EntriesTyped(e)
           /\ Library(e) \in Works(Library(d))
<1>1. d = Fields(d.versions, d.schema, d.pages, d.items, d.objects, d.entries,
                 d.history, d.orphans, d.indexed)
      BY DEF Database
<1>2. /\ Library(d).pages = d.pages /\ Library(d).items = d.items
      /\ Library(d).entries = d.entries /\ Library(d).indexed = d.indexed
      BY DEF Library
<1>3. /\ DOMAIN d.pages = PageIds /\ DOMAIN d.items = Items
      /\ DOMAIN d.objects = Objects /\ DOMAIN d.entries = Entries
      BY DEF Database
<1>4. CASE e \in Reviewed(d)
    <2>1. PICK p \in Ids(d.pages) :
              e = WithPages(d, [d.pages EXCEPT ![p].review = "reviewed"])
          BY <1>4, WorksAre
    <2> DEFINE new == [d.pages EXCEPT ![p].review = "reviewed"]
    <2>2. DOMAIN new = PageIds  BY <1>3
    <2> HIDE DEF new
    <2>3. e = Fields(d.versions, d.schema, new, d.items, d.objects, d.entries,
                     d.history, d.orphans, d.indexed)
          BY <1>1, <2>1, FieldReplaced DEF new
    <2>4. /\ e.versions = d.versions /\ e.schema = d.schema /\ e.entries = d.entries
          /\ e.pages = new /\ e.items = d.items /\ e.objects = d.objects
          /\ e = Fields(e.versions, e.schema, e.pages, e.items, e.objects, e.entries,
                        e.history, e.orphans, e.indexed)
          BY <2>3, FieldsKnown
    <2>5. Database(e)  BY <1>3, <2>2, <2>4 DEF Database
    <2>6. Version(e) = SCHEMA_VERSION  BY <2>4, VersionOfVersions
    <2>7. EntriesTyped(e)  BY <2>4, <2>6 DEF EntriesTyped
    <2>8. Library(e) = WithPages(Library(d), new)
          BY <1>1, <2>1, LibraryReplaced DEF new
    <2>9. Library(e) \in Reviewed(Library(d))  BY <1>2, <2>8, WorksAre DEF new
    <2> QED  BY <2>4, <2>5, <2>6, <2>7, <2>9 DEF Works
<1>5. CASE e \in Confirmed(d)
    <2>1. PICK i \in Ids(d.items) :
              e = WithItems(d, [d.items EXCEPT ![i].confirmed = TRUE])
          BY <1>5, WorksAre
    <2> DEFINE new == [d.items EXCEPT ![i].confirmed = TRUE]
    <2>2. DOMAIN new = Items  BY <1>3
    <2> HIDE DEF new
    <2>3. e = Fields(d.versions, d.schema, d.pages, new, d.objects, d.entries,
                     d.history, d.orphans, d.indexed)
          BY <1>1, <2>1, FieldReplaced DEF new
    <2>4. /\ e.versions = d.versions /\ e.schema = d.schema /\ e.entries = d.entries
          /\ e.pages = d.pages /\ e.items = new /\ e.objects = d.objects
          /\ e = Fields(e.versions, e.schema, e.pages, e.items, e.objects, e.entries,
                        e.history, e.orphans, e.indexed)
          BY <2>3, FieldsKnown
    <2>5. Database(e)  BY <1>3, <2>2, <2>4 DEF Database
    <2>6. Version(e) = SCHEMA_VERSION  BY <2>4, VersionOfVersions
    <2>7. EntriesTyped(e)  BY <2>4, <2>6 DEF EntriesTyped
    <2>8. Library(e) = WithItems(Library(d), new)
          BY <1>1, <2>1, LibraryReplaced DEF new
    <2>9. Library(e) \in Confirmed(Library(d))  BY <1>2, <2>8, WorksAre DEF new
    <2> QED  BY <2>4, <2>5, <2>6, <2>7, <2>9 DEF Works
<1>6. CASE e \in Saved(d)
    <2>1. PICK k \in Entries \ Ids(d.entries) :
              e = WithIndexed(WithEntries(d, [d.entries EXCEPT ![k] = SavedAnswer]),
                              d.indexed \cup {k})
          BY <1>6, WorksAre
    <2> DEFINE new == [d.entries EXCEPT ![k] = SavedAnswer]
               found == d.indexed \cup {k}
               d1 == WithEntries(d, new)
    <2>2. DOMAIN new = Entries /\ new[k] = SavedAnswer
          /\ \A j \in Entries \ {k} : new[j] = d.entries[j]
          BY <1>3
    <2> HIDE DEF new, found
    <2>3. d1 = Fields(d.versions, d.schema, d.pages, d.items, d.objects, new,
                      d.history, d.orphans, d.indexed)
          BY <1>1, FieldReplaced
    <2>4. e = WithIndexed(d1, found)  BY <2>1 DEF new, found
    <2> HIDE DEF d1
    <2>5. e = Fields(d.versions, d.schema, d.pages, d.items, d.objects, new,
                     d.history, d.orphans, found)
          BY <2>3, <2>4, FieldReplaced
    <2>6. /\ e.versions = d.versions /\ e.schema = d.schema /\ e.entries = new
          /\ e.pages = d.pages /\ e.items = d.items /\ e.objects = d.objects
          /\ e = Fields(e.versions, e.schema, e.pages, e.items, e.objects, e.entries,
                        e.history, e.orphans, e.indexed)
          BY <2>5, FieldsKnown
    <2>7. Database(e)  BY <1>3, <2>2, <2>6 DEF Database
    <2>8. Version(e) = SCHEMA_VERSION  BY <2>6, VersionOfVersions
    <2>9. EntriesTyped(e)
        <3>1. SavedAnswer \in EntriesV10  BY Zenon DEF SavedAnswer, EntriesV10
        <3>2. \A j \in Ids(d.entries) : d.entries[j] \in EntriesV10
              BY DEF EntriesTyped
        <3>3. ASSUME NEW j \in Ids(e.entries) PROVE e.entries[j] \in EntriesV10
            <4>1. CASE j = k  BY <2>2, <2>6, <3>1, <4>1
            <4>2. CASE j # k
                <5>1. j \in Ids(d.entries) /\ e.entries[j] = d.entries[j]
                      BY <1>3, <2>2, <2>6, <3>3, <4>2 DEF Ids
                <5> QED  BY <3>2, <5>1
            <4> QED  BY <4>1, <4>2
        <3> QED  BY <2>8, <3>3 DEF EntriesTyped
    <2>10. Library(e) = WithIndexed(WithEntries(Library(d), new), found)
        <3>1. Library(d1) = WithEntries(Library(d), new)
              BY <1>1, LibraryReplaced DEF d1
        <3>2. Library(e) = WithIndexed(Library(d1), found)
              BY <2>3, <2>4, LibraryReplaced
        <3> QED  BY <3>1, <3>2
    <2>11. Library(e) \in Saved(Library(d))  BY <1>2, <2>10, WorksAre DEF new, found
    <2> QED  BY <2>6, <2>7, <2>8, <2>9, <2>11 DEF Works
<1> QED  BY <1>4, <1>5, <1>6 DEF Works

\* The user works on the newest schema, where nothing is left to apply.
LEMMA UserWorksStep ==
    ASSUME MigrationInv, NEW p \in Processes, UserWorks(p)
    PROVE  MigrationInv'
<1>1. /\ db' \in Works(db) /\ worked' = TRUE /\ Version(db) = SCHEMA_VERSION
      /\ process' = process /\ backups' = backups /\ first' = first
      /\ disturbed \subseteq disturbed'
      /\ \A q \in Processes \ {p} : At(q, "migrating") => q \in disturbed'
      BY DEF UserWorks, MigrationInv, ProcessOK, Changed, Starting, At
<1>2. Database(db) /\ EntriesTyped(db)  BY DEF MigrationInv
<1> DEFINE new == db'
<1>3. /\ Database(new) /\ new.schema = db.schema /\ Version(new) = SCHEMA_VERSION
      /\ EntriesTyped(new)
      BY <1>1, <1>2, WorkKeepsForm
<1>4. first' \in Born'  BY <1>1 DEF MigrationInv, Born
<1>5. TablesOK'
    <2>1. \A t \in new.schema : Origin(t) <= Version(new)
          BY <1>1, <1>3 DEF MigrationInv, TablesOK
    <2>2. first'.schema \subseteq new.schema  BY <1>1, <1>3 DEF MigrationInv, TablesOK
    <2> QED  BY <2>1, <2>2 DEF TablesOK
<1>6. WorkOK'  BY <1>1, <1>3 DEF WorkOK
<1>7. ProcessOK'  BY <1>1, <1>3 DEF MigrationInv, ProcessOK, At
<1>8. CopiedOK'  BY <1>3 DEF CopiedOK
<1>9. InStep'
    <2>1. ASSUME NEW q \in Processes \ disturbed', At(q, "migrating")'
          PROVE  process'[q].version = Version(new)
        <3>1. q \in Processes \ disturbed /\ At(q, "migrating")  BY <1>1, <2>1 DEF At
        <3>2. process[q].version = Version(db)  BY <3>1 DEF MigrationInv, InStep
        <3> QED  BY <1>1, <1>3, <3>2
    <2> QED  BY <2>1 DEF InStep
<1>10. FailsOnlyIfDisturbed'  BY <1>1 DEF FailsOnlyIfDisturbed, At, MigrationInv
<1> QED  BY <1>3, <1>4, <1>5, <1>6, <1>7, <1>8, <1>9, <1>10 DEF MigrationInv

\* Every step keeps the invariant.
LEMMA StepInv == MigrationInv /\ [MigrationNext]_migrationVars => MigrationInv'
<1> SUFFICES ASSUME MigrationInv, [MigrationNext]_migrationVars PROVE MigrationInv'  OBVIOUS
<1>1. CASE UNCHANGED migrationVars
    <2>1. DataInv' /\ Version(db)' = Version(db)
          BY <1>1, DataStays DEF migrationVars, MigrationInv, DataInv
    <2>2. ProcessOK' /\ CopiedOK' /\ InStep' /\ FailsOnlyIfDisturbed'
          BY <1>1, <2>1 DEF migrationVars, MigrationInv, ProcessOK, CopiedOK, InStep,
                            FailsOnlyIfDisturbed, At
    <2> QED  BY <2>1, <2>2 DEF MigrationInv, DataInv
<1>2. ASSUME NEW p \in Processes, Read(p) PROVE MigrationInv'  BY <1>2, ReadStep
<1>3. ASSUME NEW p \in Processes, Backup(p) PROVE MigrationInv'  BY <1>3, BackupStep
<1>4. ASSUME NEW p \in Processes, Connect(p) PROVE MigrationInv'  BY <1>4, ConnectStep
<1>5. ASSUME NEW p \in Processes, FirstTables(p) PROVE MigrationInv'  BY <1>5, FirstTablesStep
<1>6. ASSUME NEW p \in Processes, Migrate(p) PROVE MigrationInv'  BY <1>6, MigrateStep
<1>7. ASSUME NEW p \in Processes, CheckAll(p) PROVE MigrationInv'  BY <1>7, CheckAllStep
<1>8. ASSUME NEW p \in Processes, StartFails(p) PROVE MigrationInv'  BY <1>8, StartFailsStep
<1>9. ASSUME NEW p \in Processes, StartDies(p) PROVE MigrationInv'  BY <1>9, StartDiesStep
<1>10. ASSUME NEW p \in Processes, UserWorks(p) PROVE MigrationInv'  BY <1>10, UserWorksStep
<1> QED  BY <1>1, <1>2, <1>3, <1>4, <1>5, <1>6, <1>7, <1>8, <1>9, <1>10
         DEF MigrationNext

\* The invariant holds in every state of every run.
THEOREM MigrationInvariance == MigrationSpec => []MigrationInv
BY InitMigrationInv, StepInv, PTL DEF MigrationSpec

-----------------------------------------------------------------------------
(* The library.                                                            *)

\* What a step makes of the library: nothing, unless it is a piece of work.
LEMMA StepKeepsLibrary ==
    ASSUME MigrationInv, MigrationNext
    PROVE  LET old == Library(Upgraded(db))
               new == Library(Upgraded(db'))
           IN  old = new \/ (new \in Works(old) /\ \E p \in Processes : At(p, "ready"))
<1> DEFINE old == Library(Upgraded(db))
           new == Library(Upgraded(db'))
<1>0. DataInv /\ Database(db) /\ EntriesTyped(db)  BY DEF MigrationInv, DataInv
<1>1. CASE db' = db  BY <1>1
<1>2. ASSUME NEW p \in Processes, Connect(p) PROVE old = new
    <2> DEFINE S == {"schema_migrations"}
    <2>1. db' = [db EXCEPT !.schema = @ \cup S] /\ UNCHANGED <<first, worked>>
          BY <1>2 DEF Connect
    <2>2. \A t \in S : Origin(t) = 0  BY AddedOnce
    <2> HIDE DEF S
    <2>3. Alike(Upgraded(db), Upgraded(db'))  BY <1>0, <2>1, <2>2, SchemaGrows
    <2> QED  BY <2>3, AlikeIsLibrary
<1>3. ASSUME NEW p \in Processes, FirstTables(p) PROVE old = new
    <2>1. /\ db' = [db EXCEPT !.schema = @ \cup V1Tables]
          /\ UNCHANGED <<first, worked>>
          BY <1>3 DEF FirstTables
    <2>2. \A t \in V1Tables : Origin(t) = 0  BY AddedOnce
    <2>3. Alike(Upgraded(db), Upgraded(db'))  BY <1>0, <2>1, <2>2, SchemaGrows
    <2> QED  BY <2>3, AlikeIsLibrary
<1>4. ASSUME NEW p \in Processes, Migrate(p), db' # db PROVE old = new
    <2> DEFINE v == process[p].version + 1
    <2>1. /\ v <= SCHEMA_VERSION /\ ~Refused(v, db) /\ db' = Migrated(v, db)
          /\ UNCHANGED <<first, worked>>
          BY <1>4 DEF Migrate
    <2>2. Alike(Upgraded(db), Upgraded(db'))  BY <2>1, MigratedStep
    <2> QED  BY <2>2, AlikeIsLibrary
<1>5. ASSUME NEW p \in Processes, UserWorks(p)
      PROVE  new \in Works(old) /\ At(p, "ready")
    <2>1. db' \in Works(db) /\ At(p, "ready")  BY <1>5 DEF UserWorks
    <2>2. Version(db) = SCHEMA_VERSION  BY <2>1 DEF MigrationInv, ProcessOK
    <2>3. /\ Database(db') /\ Version(db') = SCHEMA_VERSION
          /\ Library(db') \in Works(Library(db))
          BY <1>0, <2>1, <2>2, WorkKeepsForm
    <2>4. Upgraded(db) = db /\ Upgraded(db') = db'
          BY <1>0, <2>2, <2>3, UpgradedNewest
    <2> QED  BY <2>1, <2>3, <2>4
<1> HIDE DEF old, new
<1>6. PICK p \in Processes :
          \/ Read(p) \/ Backup(p) \/ Connect(p) \/ FirstTables(p) \/ Migrate(p)
          \/ CheckAll(p) \/ StartFails(p) \/ StartDies(p) \/ UserWorks(p)
      BY DEF MigrationNext
<1>7. CASE db' # db
    <2>1. Connect(p) \/ FirstTables(p) \/ Migrate(p) \/ UserWorks(p)
          BY <1>6, <1>7 DEF Read, Backup, CheckAll, StartFails, StartDies
    <2> QED  BY <1>2, <1>3, <1>4, <1>5, <1>7, <2>1 DEF old, new
<1> QED  BY <1>1, <1>7 DEF old, new

\* The library is changed by the user's work only, whichever starts, crashes and
\* errors there are in between (migrations.py, run_migrations).
THEOREM LibraryIsKept == MigrationSpec => KeepsLibrary
<1>1. MigrationInv /\ [MigrationNext]_migrationVars =>
          [LET old == Library(Upgraded(db))
               new == Library(Upgraded(db'))
           IN  old = new \/ (new \in Works(old) /\ \E p \in Processes : At(p, "ready"))]_db
      BY StepKeepsLibrary DEF migrationVars
<1> QED  BY <1>1, MigrationInvariance, PTL DEF MigrationSpec, KeepsLibrary

\* Whoever changes the rows of a database to another version, there is a copy of
\* the same library by then (migrations.py, migrate_database).
THEOREM BackupComesFirst == MigrationSpec => BackedUp
<1>1. ASSUME MigrationInv, [MigrationNext]_migrationVars, Version(db') # Version(db),
             first.schema # {}
      PROVE  Library(Upgraded(db)) \in backups
    <2>0. DataInv /\ Database(db) /\ EntriesTyped(db)  BY <1>1 DEF MigrationInv, DataInv
    <2>1. MigrationNext  BY <1>1 DEF migrationVars
    <2>2. PICK p \in Processes :
              \/ Read(p) \/ Backup(p) \/ Connect(p) \/ FirstTables(p) \/ Migrate(p)
              \/ CheckAll(p) \/ StartFails(p) \/ StartDies(p) \/ UserWorks(p)
          BY <2>1 DEF MigrationNext
    <2>3. db' # db  BY <1>1
    <2>4. CASE Connect(p)
        <3> DEFINE S == {"schema_migrations"}
        <3>1. db' = [db EXCEPT !.schema = @ \cup S] /\ UNCHANGED <<first, worked>>
              BY <2>4 DEF Connect
        <3>2. \A t \in S : Origin(t) = 0  BY AddedOnce
        <3> HIDE DEF S
        <3> QED  BY <1>1, <2>0, <3>1, <3>2, SchemaGrows
    <2>5. CASE FirstTables(p)
        <3>1. /\ db' = [db EXCEPT !.schema = @ \cup V1Tables]
              /\ UNCHANGED <<first, worked>>
              BY <2>5 DEF FirstTables
        <3>2. \A t \in V1Tables : Origin(t) = 0  BY AddedOnce
        <3> QED  BY <1>1, <2>0, <3>1, <3>2, SchemaGrows
    <2>6. CASE UserWorks(p)
        <3>1. db' \in Works(db) /\ Version(db) = SCHEMA_VERSION
              BY <1>1, <2>6 DEF UserWorks, MigrationInv, ProcessOK
        <3> QED  BY <1>1, <2>0, <3>1, WorkKeepsForm
    <2>7. CASE Migrate(p)
        <3> DEFINE v == process[p].version + 1
        <3>1. /\ v <= SCHEMA_VERSION /\ ~Refused(v, db) /\ db' = Migrated(v, db)
              /\ UNCHANGED <<first, worked>> /\ At(p, "migrating")
              BY <2>3, <2>7 DEF Migrate
        <3>2. v \in 1 .. SCHEMA_VERSION /\ Version(db) = v - 1
              BY <1>1, <3>1, MigratedStep
        <3> HIDE DEF v
        <3>3. Version(db) < SCHEMA_VERSION  BY <3>2
        <3> QED  BY <1>1, <3>1, <3>3 DEF MigrationInv, CopiedOK
    <2> QED  BY <2>2, <2>3, <2>4, <2>5, <2>6, <2>7
             DEF Read, Backup, CheckAll, StartFails, StartDies
<1>2. MigrationInv /\ [MigrationNext]_migrationVars =>
          [Version(db') # Version(db) /\ first.schema # {} =>
              Library(Upgraded(db)) \in backups]_migrationVars
      BY <1>1
<1> QED  BY <1>2, MigrationInvariance, PTL DEF MigrationSpec, BackedUp

\* A start fails only if an error came its way or another program changed the
\* database meanwhile: it goes on from whatever an earlier start has left.
THEOREM FailureHasACause == MigrationSpec => []FailsOnlyIfDisturbed
<1>1. MigrationInv => FailsOnlyIfDisturbed  BY DEF MigrationInv
<1> QED  BY <1>1, MigrationInvariance, PTL

-----------------------------------------------------------------------------
(* What becomes of the rows of an earlier program.                         *)

\* A page as the versions from n on make it.
PageFrom(n, cells) ==
    IF n < 2 THEN PageV3(PageV2(cells)) ELSE IF n = 2 THEN PageV3(cells) ELSE cells

\* Its rows have a value, and a note is taken for a draft and not for a review.
LEMMA PageFromType ==
    ASSUME NEW n \in 0 .. 9, NEW cells \in PagesAt(n)
    PROVE  LET new == PageFrom(n, cells) IN
           /\ cells # None /\ new # None /\ new.note = cells.note
           /\ n < 2 => PageV2(cells) # None
           /\ new.review =
                  IF n >= 3 THEN cells.review
                  ELSE IF cells.note THEN "draft"
                  ELSE IF cells.status = "failed" THEN "failed"
                  ELSE IF cells.status = "manually_reviewed" THEN "reviewed"
                  ELSE "pending"
<1> DEFINE new == PageFrom(n, cells)
           Any == PageRows(StatusesV1 \cup StatusesV2, Reviews \cup {None})
<1>1. None \notin Any  BY NullAssumption
<1>2. ASSUME NEW note \in BOOLEAN, NEW found \in StatusesV1 \cup StatusesV2,
             NEW review \in Reviews \cup {None}
      PROVE  [note |-> note, status |-> found, review |-> review] # None
    <2>1. [note |-> note, status |-> found, review |-> review] \in
              [note: BOOLEAN, status: StatusesV1 \cup StatusesV2,
               review: Reviews \cup {None}]
          BY <1>2, Zenon
    <2>2. [note |-> note, status |-> found, review |-> review] \in Any
          BY <2>1 DEF PageRows
    <2> HIDE DEF Any
    <2> QED  BY <1>1, <2>2
<1> HIDE DEF Any
<1>3. CASE n < 2
    <2>1. /\ cells = [note |-> cells.note, status |-> cells.status, review |-> cells.review]
          /\ cells.note \in BOOLEAN /\ cells.status \in StatusesV1 /\ cells.review = None
          BY <1>3 DEF PagesAt, PageRows
    <2> DEFINE mid == PageV2(cells)
    <2>2. /\ mid = [note |-> mid.note, status |-> mid.status, review |-> mid.review]
          /\ mid.note = cells.note /\ mid.review = None
          /\ mid.status = IF cells.note THEN "manually_reviewed"
                          ELSE IF cells.status = "ready" THEN "text_extracted"
                          ELSE "pending_review"
          BY <2>1 DEF PageV2
    <2>3. mid.status \in StatusesV2  BY <2>2 DEF StatusesV2
    <2>4. cells # None  BY <1>2, <2>1
    <2>5. mid # None  BY <1>2, <2>1, <2>2, <2>3
    <2> HIDE DEF mid
    <2>6. new = PageV3(mid)  BY <1>3 DEF PageFrom, mid
    <2>7. /\ new = [note |-> new.note, status |-> new.status, review |-> new.review]
          /\ new.note = mid.note /\ new.status = mid.status
          /\ new.review = IF mid.status = "failed" /\ ~mid.note THEN "failed"
                          ELSE IF mid.note THEN "draft"
                          ELSE IF mid.status = "manually_reviewed" THEN "reviewed"
                          ELSE "pending"
          BY <2>6 DEF PageV3
    <2> HIDE DEF new
    <2>8. new.review = IF cells.note THEN "draft" ELSE "pending"  BY <2>1, <2>2, <2>7
    <2>9. new.review \in Reviews  BY <2>8 DEF Reviews
    <2>10. new # None  BY <1>2, <2>1, <2>2, <2>3, <2>7, <2>9
    <2>11. cells.status # "failed" /\ cells.status # "manually_reviewed"
           BY <2>1 DEF StatusesV1
    <2> QED  BY <1>3, <2>2, <2>4, <2>5, <2>7, <2>8, <2>10, <2>11 DEF new, mid
<1>4. CASE n = 2
    <2>1. /\ cells = [note |-> cells.note, status |-> cells.status, review |-> cells.review]
          /\ cells.note \in BOOLEAN /\ cells.status \in StatusesV2 /\ cells.review = None
          BY <1>4 DEF PagesAt, PageRows
    <2>2. cells # None  BY <1>2, <2>1
    <2>3. new = PageV3(cells)  BY <1>4 DEF PageFrom
    <2>4. /\ new = [note |-> new.note, status |-> new.status, review |-> new.review]
          /\ new.note = cells.note /\ new.status = cells.status
          /\ new.review = IF cells.status = "failed" /\ ~cells.note THEN "failed"
                          ELSE IF cells.note THEN "draft"
                          ELSE IF cells.status = "manually_reviewed" THEN "reviewed"
                          ELSE "pending"
          BY <2>3 DEF PageV3
    <2> HIDE DEF new
    <2>5. new.review \in Reviews  BY <2>4 DEF Reviews
    <2>6. new # None  BY <1>2, <2>1, <2>4, <2>5
    <2> QED  BY <1>4, <2>1, <2>2, <2>4, <2>6 DEF new
<1>5. CASE n > 2
    <2>1. /\ cells = [note |-> cells.note, status |-> cells.status, review |-> cells.review]
          /\ cells.note \in BOOLEAN /\ cells.status \in {"text_extracted"}
          /\ cells.review \in Reviews
          BY <1>5 DEF PagesAt, PageRows
    <2>2. cells.status \in StatusesV2  BY <2>1 DEF StatusesV2
    <2>3. cells # None  BY <1>2, <2>1, <2>2
    <2>4. new = cells  BY <1>5 DEF PageFrom
    <2> QED  BY <1>5, <2>3, <2>4
<1> QED  BY <1>3, <1>4, <1>5

\* The versions that rewrite rows, one by one.
LEMMA RewrittenIs ==
    ASSUME NEW d
    PROVE  /\ Rewritten(2, d) = V2(d) /\ Rewritten(3, d) = V3(d)
           /\ Rewritten(7, d) = V7(d) /\ Rewritten(10, d) = V10(d)
           /\ Rewritten(11, d) = V11(d) /\ Rewritten(13, d) = V13(d)
<1>1. ASSUME NEW v, v = 2 PROVE Rewritten(v, d) = V2(d)    BY <1>1 DEF Rewritten
<1>2. ASSUME NEW v, v = 3 PROVE Rewritten(v, d) = V3(d)    BY <1>2 DEF Rewritten
<1>3. ASSUME NEW v, v = 7 PROVE Rewritten(v, d) = V7(d)    BY <1>3 DEF Rewritten
<1>4. ASSUME NEW v, v = 10 PROVE Rewritten(v, d) = V10(d)  BY <1>4 DEF Rewritten
<1>5. ASSUME NEW v, v = 11 PROVE Rewritten(v, d) = V11(d)  BY <1>5 DEF Rewritten
<1>6. ASSUME NEW v, v = 13 PROVE Rewritten(v, d) = V13(d)  BY <1>6 DEF Rewritten
<1> QED  BY <1>1, <1>2, <1>3, <1>4, <1>5, <1>6

\* The versions that rewrite pages and items leave the other rows alone.
LEMMA EarlyRest ==
    ASSUME NEW d, Database(d)
    PROVE  /\ \A w \in {2, 3, 7} : /\ Rest(w, d).objects = d.objects
                                  /\ Rest(w, d).entries = d.entries
           /\ Rest(2, d).pages = IF Version(d) < 2 THEN PagesAfterV2(d) ELSE d.pages
           /\ Rest(3, d).pages = IF Version(d) < 3 THEN PagesAfterV3(d) ELSE d.pages
           /\ Rest(7, d).pages = d.pages
           /\ \A w \in {2, 3} : Rest(w, d).items = d.items
           /\ Rest(7, d).items = IF Version(d) < 7 THEN ItemsAfterV7(d) ELSE d.items
<1>1. Rest(2, d) = IF Version(d) < 2 THEN V2(d) ELSE d  BY RewrittenIs DEF Rest
<1>2. Rest(3, d) = IF Version(d) < 3 THEN V3(d) ELSE d  BY RewrittenIs DEF Rest
<1>3. Rest(7, d) = IF Version(d) < 7 THEN V7(d) ELSE d  BY RewrittenIs DEF Rest
<1>4. /\ V2(d).objects = d.objects /\ V2(d).entries = d.entries
      /\ V2(d).pages = PagesAfterV2(d) /\ V2(d).items = d.items
      /\ V3(d).objects = d.objects /\ V3(d).entries = d.entries
      /\ V3(d).pages = PagesAfterV3(d) /\ V3(d).items = d.items
      /\ V7(d).objects = d.objects /\ V7(d).entries = d.entries
      /\ V7(d).pages = d.pages /\ V7(d).items = ItemsAfterV7(d)
      BY OneTable, FieldsOf
<1> QED  BY <1>1, <1>2, <1>3, <1>4

\* The rows at the end of the chain, from those of an earlier program.
LEMMA UpgradedRows ==
    ASSUME NEW f, NEW n \in 0 .. 9, Earlier(f, n)
    PROVE  LET u == Upgraded(f) IN
           /\ DOMAIN u.pages = PageIds /\ DOMAIN u.items = Items
           /\ DOMAIN u.objects = Objects /\ DOMAIN u.entries = Entries
           /\ \A p \in PageIds :
                  u.pages[p] = IF f.pages[p] = None THEN None
                               ELSE PageFrom(n, f.pages[p])
           /\ \A i \in Items : u.items[i] = None <=> f.items[i] = None
           /\ u.objects = ObjectsAfterV10(f)
           /\ u.history = HistoryAfterV10(f)
           /\ u.orphans = Cardinality(Changes(f, None))
           /\ \A e \in Entries :
                  u.entries[e] =
                      IF f.entries[e] = None \/ EntryV10(f.entries[e]) = None THEN None
                      ELSE EntryV13(EntryV10(f.entries[e]))
           /\ u.indexed = {o \in Objects : u.objects[o] # None}
                  \cup {e \in Entries : f.entries[e] # None
                                        /\ EntryV10(f.entries[e]) # None}
<1> DEFINE d2 == Rest(2, f)     d3 == Rest(3, d2)     d7 == Rest(7, d3)
           d10 == Rest(10, d7)  d11 == Rest(11, d10)  u == Rest(13, d11)
<1>0. Database(f) /\ Version(f) = n
    <2>1. n \in 0 .. SCHEMA_VERSION  OBVIOUS
    <2>2. Database(f) /\ f.versions = 1 .. n  BY DEF Earlier
    <2> QED  BY <2>1, <2>2, VersionIs
<1>1. Upgraded(f) = u  BY DEF Upgraded
<1>2. Database(d2) /\ Version(d2) = n  BY <1>0, RestType, VersionOfVersions
<1>3. /\ d2.objects = f.objects /\ d2.entries = f.entries /\ d2.items = f.items
      /\ d2.pages = IF n < 2 THEN PagesAfterV2(f) ELSE f.pages
      BY <1>0, EarlyRest
<1> HIDE DEF d2
<1>4. Database(d3) /\ Version(d3) = n  BY <1>2, RestType, VersionOfVersions
<1>5. /\ d3.objects = f.objects /\ d3.entries = f.entries /\ d3.items = f.items
      /\ d3.pages = IF n < 3 THEN PagesAfterV3(d2) ELSE d2.pages
      BY <1>2, <1>3, EarlyRest
<1> HIDE DEF d3
<1>6. Database(d7) /\ Version(d7) = n  BY <1>4, RestType, VersionOfVersions
<1>7. /\ d7.objects = f.objects /\ d7.entries = f.entries
      /\ d7.items = IF n < 7 THEN ItemsAfterV7(d3) ELSE f.items
      /\ d7.pages = d3.pages
      BY <1>4, <1>5, EarlyRest
<1> HIDE DEF d7
<1>8. Database(d10) /\ Version(d10) = n  BY <1>6, RestType, VersionOfVersions
<1>9. /\ d10.pages = d7.pages /\ d10.items = d7.items
      /\ d10.objects = ObjectsAfterV10(d7) /\ d10.history = HistoryAfterV10(d7)
      /\ d10.entries = EntriesAfterV10(d7)
      /\ d10.orphans = Cardinality(Changes(d7, None))
    <2>1. d10 = V10(d7)  BY <1>6, RewrittenIs DEF Rest
    <2> QED  BY <1>6, <2>1, ManyTables, FieldsOf
<1> HIDE DEF d10
<1>10. Database(d11) /\ Version(d11) = n  BY <1>8, RestType, VersionOfVersions
<1>11. /\ d11.pages = d10.pages /\ d11.items = d10.items
       /\ d11.objects = d10.objects /\ d11.history = d10.history
       /\ d11.entries = d10.entries /\ d11.orphans = d10.orphans
       /\ d11.indexed = IndexedAfterV11(d10)
    <2>1. d11 = V11(d10)  BY <1>8, RewrittenIs DEF Rest
    <2> QED  BY <1>8, <2>1, ManyTables, FieldsOf
<1> HIDE DEF d11
<1>12. Database(u)  BY <1>10, RestType
<1>13. /\ u.pages = d11.pages /\ u.items = d11.items
       /\ u.objects = d11.objects /\ u.history = d11.history
       /\ u.entries = EntriesAfterV13(d11) /\ u.orphans = d11.orphans
       /\ u.indexed = d11.indexed
    <2>1. u = V13(d11)  BY <1>10, RewrittenIs DEF Rest
    <2> QED  BY <1>10, <2>1, OneTable, FieldsOf
<1> HIDE DEF u
<1>14. \A o : Changes(d7, o) = Changes(f, o)  BY <1>7 DEF Changes
<1>15. /\ u.objects = ObjectsAfterV10(f) /\ u.history = HistoryAfterV10(f)
       /\ u.orphans = Cardinality(Changes(f, None))
    <2>1. ObjectsAfterV10(d7) = ObjectsAfterV10(f)
          BY <1>7, <1>14 DEF ObjectsAfterV10
    <2>2. HistoryAfterV10(d7) = HistoryAfterV10(f)
          BY <1>7, <1>14 DEF HistoryAfterV10
    <2>3. Changes(d7, None) = Changes(f, None)  BY <1>14
    <2> QED  BY <1>9, <1>11, <1>13, <2>1, <2>2, <2>3
<1>16. ASSUME NEW e \in Entries
       PROVE  /\ d10.entries[e] = IF f.entries[e] = None THEN None
                                  ELSE EntryV10(f.entries[e])
              /\ u.entries[e] = IF d10.entries[e] = None THEN None
                                ELSE EntryV13(d10.entries[e])
    <2>1. e \in DOMAIN d7.entries /\ e \in DOMAIN d11.entries
          BY <1>6, <1>10 DEF Database
    <2>2. d10.entries[e] = IF f.entries[e] = None THEN None ELSE EntryV10(f.entries[e])
          BY <1>7, <1>9, <2>1 DEF EntriesAfterV10, Rewrite
    <2>3. u.entries[e] = IF d11.entries[e] = None THEN None
                         ELSE EntryV13(d11.entries[e])
          BY <1>13, <2>1 DEF EntriesAfterV13, Rewrite
    <2> QED  BY <1>11, <2>2, <2>3
<1>17. u.indexed = {o \in Objects : u.objects[o] # None}
           \cup {e \in Entries : f.entries[e] # None /\ EntryV10(f.entries[e]) # None}
    <2>1. u.indexed = {o \in Objects : d10.objects[o] # None}
              \cup {e \in Entries : d10.entries[e] # None}
          BY <1>11, <1>13 DEF IndexedAfterV11
    <2>2. u.objects = d10.objects  BY <1>11, <1>13
    <2>3. {e \in Entries : d10.entries[e] # None} =
              {e \in Entries : f.entries[e] # None /\ EntryV10(f.entries[e]) # None}
          BY <1>16
    <2> QED  BY <2>1, <2>2, <2>3
<1>18. ASSUME NEW p \in PageIds
       PROVE  u.pages[p] = IF f.pages[p] = None THEN None ELSE PageFrom(n, f.pages[p])
    <2>1. p \in DOMAIN f.pages /\ p \in DOMAIN d2.pages  BY <1>0, <1>2 DEF Database
    <2>2. u.pages = d3.pages  BY <1>7, <1>9, <1>11, <1>13
    <2>3. n < 2 => d2.pages[p] = IF f.pages[p] = None THEN None ELSE PageV2(f.pages[p])
          BY <1>3, <2>1 DEF PagesAfterV2, Rewrite
    <2>4. n >= 2 => d2.pages[p] = f.pages[p]  BY <1>3
    <2>5. n < 3 => d3.pages[p] = IF d2.pages[p] = None THEN None ELSE PageV3(d2.pages[p])
          BY <1>5, <2>1 DEF PagesAfterV3, Rewrite
    <2>6. n >= 3 => d3.pages[p] = d2.pages[p]  BY <1>5
    <2>7. n < 2 /\ f.pages[p] # None => PageV2(f.pages[p]) # None
          BY PageFromType DEF Earlier
    <2> QED  BY <2>2, <2>3, <2>4, <2>5, <2>6, <2>7 DEF PageFrom
<1>19. ASSUME NEW i \in Items PROVE u.items[i] = None <=> f.items[i] = None
    <2>1. i \in DOMAIN d3.items  BY <1>4 DEF Database
    <2>2. u.items = d7.items  BY <1>9, <1>11, <1>13
    <2>3. \A cells : ItemV7(cells) # None
        <3>1. \A cells : ItemV7(cells) \in ItemsV7  BY DEF ItemV7, ItemsV7
        <3> QED  BY <3>1, NullAssumption
    <2>4. n < 7 => d7.items[i] = IF d3.items[i] = None THEN None ELSE ItemV7(d3.items[i])
          BY <1>7, <2>1 DEF ItemsAfterV7, Rewrite
    <2>5. n >= 7 => d7.items[i] = f.items[i]  BY <1>7
    <2> QED  BY <1>5, <2>2, <2>3, <2>4, <2>5
<1>20. /\ DOMAIN u.pages = PageIds /\ DOMAIN u.items = Items
       /\ DOMAIN u.objects = Objects /\ DOMAIN u.entries = Entries
       BY <1>12 DEF Database
<1>21. ASSUME NEW e \in Entries
       PROVE  u.entries[e] =
                  IF f.entries[e] = None \/ EntryV10(f.entries[e]) = None THEN None
                  ELSE EntryV13(EntryV10(f.entries[e]))
       BY <1>16
<1> QED  BY <1>1, <1>15, <1>17, <1>18, <1>19, <1>20, <1>21

\* The members of A by groups, each with its owner, and the pairs of an owner and
\* a number of one of its members.
Grouped(A, G, owner, group, P) ==
    /\ owner \in [A -> G]
    /\ \A o \in G : \A a : a \in group[o] <=> a \in A /\ owner[a] = o
    /\ \A x : x \in P <=>
                 \E o \in G : \E k \in 1 .. Cardinality(group[o]) : x = <<o, k>>

\* There are as many pairs as members.
LEMMA NumberedInGroups ==
    ASSUME NEW A, IsFiniteSet(A), NEW G, NEW owner, NEW group, NEW P,
           Grouped(A, G, owner, group, P)
    PROVE  Cardinality(P) = Cardinality(A)
<1> USE DEF Grouped
<1> DEFINE number == [o \in G |-> CHOOSE g : g \in Bijection(1 .. Cardinality(group[o]), group[o])]
           member == [x \in P |-> number[x[1]][x[2]]]
<1>1. ASSUME NEW o \in G
      PROVE  number[o] \in Bijection(1 .. Cardinality(group[o]), group[o])
    <2>1. IsFiniteSet(group[o])
        <3>1. group[o] \in SUBSET A  OBVIOUS
        <3> QED  BY <3>1, FS_Subset
    <2> DEFINE B == Bijection(1 .. Cardinality(group[o]), group[o])
    <2>2. B # {}  BY <2>1, FS_CardinalityType DEF ExistsBijection
    <2> HIDE DEF B
    <2>3. (CHOOSE g : g \in B) \in B  BY <2>2
    <2>4. number[o] = CHOOSE g : g \in B  BY DEF B
    <2> QED  BY <2>3, <2>4 DEF B
<1> HIDE DEF number
<1>2. ASSUME NEW x \in P
      PROVE  /\ x[1] \in G /\ x[2] \in 1 .. Cardinality(group[x[1]])
             /\ x = <<x[1], x[2]>>
             /\ member[x] \in A /\ owner[member[x]] = x[1]
    <2>0. PICK o \in G :
              \E k \in 1 .. Cardinality(group[o]) : x = <<o, k>>
          OBVIOUS
    <2>1. PICK k \in 1 .. Cardinality(group[o]) : x = <<o, k>>
          BY <2>0
    <2>2. x[1] = o /\ x[2] = k /\ x = <<x[1], x[2]>>  BY <2>1
    <2>4. number[o] \in [1 .. Cardinality(group[o]) -> group[o]]
          BY <1>1, Fun_BijectionProperties
    <2>5. number[o][k] \in group[o]  BY <2>1, <2>4
    <2>6. member[x] = number[o][k]  BY <2>2
    <2> QED  BY <2>1, <2>2, <2>5, <2>6
<1>3. member \in [P -> A]  BY <1>2
<1>4. \A x \in P : member[x] = number[x[1]][x[2]]  OBVIOUS
<1>6. ASSUME NEW o \in G
       PROVE  /\ \A k, m \in 1 .. Cardinality(group[o]) :
                      number[o][k] = number[o][m] => k = m
              /\ \A a \in group[o] : \E k \in 1 .. Cardinality(group[o]) :
                      number[o][k] = a
    <2> DEFINE I == 1 .. Cardinality(group[o])  B == group[o]  g == number[o]
    <2>1. g \in Bijection(I, B)  BY <1>1
    <2> HIDE DEF I, B, g
    <2>2. /\ \A k, m \in I : g[k] = g[m] => k = m
          /\ \A a \in B : \E k \in I : g[k] = a
          BY <2>1, Fun_BijectionProperties
    <2> QED  BY <2>2 DEF I, B, g
<1> HIDE DEF member
<1>7. ASSUME NEW x \in P, NEW y \in P, member[x] = member[y] PROVE x = y
    <2> DEFINE o == x[1]
    <2>1. o \in G /\ y[1] = o
        <3>1. owner[member[x]] = x[1] /\ owner[member[y]] = y[1] /\ x[1] \in G  BY <1>2
        <3> QED  BY <1>7, <3>1
    <2>2. /\ x[2] \in 1 .. Cardinality(group[o]) /\ y[2] \in 1 .. Cardinality(group[o])
          /\ x = <<o, x[2]>> /\ y = <<o, y[2]>>
          BY <1>2, <2>1
    <2>3. number[o][x[2]] = number[o][y[2]]  BY <1>7, <1>4, <2>1
    <2> HIDE DEF o
    <2>4. x[2] = y[2]  BY <1>6, <2>1, <2>2, <2>3
    <2> QED  BY <2>2, <2>4
<1>8. ASSUME NEW a \in A PROVE \E x \in P : member[x] = a
    <2> DEFINE o == owner[a]
    <2>1. o \in G /\ a \in group[o]  OBVIOUS
    <2>2. PICK k \in 1 .. Cardinality(group[o]) : number[o][k] = a
          BY <1>6, <2>1
    <2> HIDE DEF o
    <2>4. <<o, k>> \in P  BY <2>1, <2>2
    <2>5. member[<<o, k>>] = a  BY <1>4, <2>2, <2>4
    <2> QED  BY <2>4, <2>5
<1>9. member \in Bijection(P, A)  BY <1>3, <1>7, <1>8, Fun_IsBij
<1>10. ExistsBijection(A, P)  BY <1>9, Fun_ExistsBijSymmetric DEF ExistsBijection
<1> QED  BY <1>10, FS_Bijection

\* The tables of the database are those at the end of the chain.
SameRows(u) ==
    /\ db.pages = u.pages /\ db.items = u.items /\ db.objects = u.objects
    /\ db.entries = u.entries /\ db.history = u.history /\ db.orphans = u.orphans
    /\ db.indexed = u.indexed

\* No page is lost, and no note is taken for a review.
LEMMA PagesAreKept ==
    ASSUME NEW n \in 0 .. 9, Earlier(first, n), SameRows(Upgraded(first))
    PROVE  PagesKept /\ ItemsKept
<1>1. DOMAIN db.pages = PageIds /\ DOMAIN db.items = Items  BY UpgradedRows DEF SameRows
<1>2. DOMAIN first.pages = PageIds /\ DOMAIN first.items = Items
      BY DEF Earlier, Database
<1>3. \A p \in PageIds : db.pages[p] = IF first.pages[p] = None THEN None
                                       ELSE PageFrom(n, first.pages[p])
      BY UpgradedRows DEF SameRows
<1>4. ASSUME NEW p \in PageIds, first.pages[p] # None
      PROVE  first.pages[p] \in PagesAt(n)
      BY <1>4 DEF Earlier
<1>5. \A i \in Items : db.items[i] = None <=> first.items[i] = None
      BY UpgradedRows DEF SameRows
<1>6. ItemsKept  BY <1>1, <1>2, <1>5 DEF ItemsKept, Ids
<1>7. Ids(db.pages) = Ids(first.pages)
      BY <1>1, <1>2, <1>3, <1>4, PageFromType DEF Ids
<1>8. Version(first) = n
    <2>1. n \in 0 .. SCHEMA_VERSION /\ first.versions = 1 .. n  BY DEF Earlier
    <2> QED  BY <2>1, VersionIs
<1>9. ASSUME NEW p \in Ids(db.pages)
      PROVE  /\ db.pages[p].note = first.pages[p].note
             /\ db.pages[p].review =
                    IF Version(first) >= 3 THEN first.pages[p].review
                    ELSE IF first.pages[p].note THEN "draft"
                    ELSE IF first.pages[p].status = "failed" THEN "failed"
                    ELSE IF first.pages[p].status = "manually_reviewed" THEN "reviewed"
                    ELSE "pending"
    <2>1. p \in PageIds /\ first.pages[p] # None  BY <1>2, <1>7, <1>9 DEF Ids
    <2>2. first.pages[p] \in PagesAt(n) /\ db.pages[p] = PageFrom(n, first.pages[p])
          BY <1>3, <1>4, <2>1
    <2> DEFINE cells == first.pages[p]  new == db.pages[p]
    <2>3. cells \in PagesAt(n) /\ new = PageFrom(n, cells)  BY <2>2
    <2> HIDE DEF cells, new
    <2>4. /\ new.note = cells.note
          /\ new.review =
                 IF n >= 3 THEN cells.review
                 ELSE IF cells.note THEN "draft"
                 ELSE IF cells.status = "failed" THEN "failed"
                 ELSE IF cells.status = "manually_reviewed" THEN "reviewed"
                 ELSE "pending"
          BY <2>3, PageFromType
    <2> QED  BY <1>8, <2>4 DEF cells, new
<1> QED  BY <1>6, <1>7, <1>9 DEF PagesKept

\* The changes of an object are finitely many.
LEMMA ChangesFinite ==
    ASSUME NEW d, NEW o
    PROVE  IsFiniteSet(Changes(d, o)) /\ Cardinality(Changes(d, o)) \in Nat
<1>1. Changes(d, o) \in SUBSET Entries  BY DEF Changes
<1>2. IsFiniteSet(Changes(d, o))  BY <1>1, FS_Subset, RowAssumption
<1> QED  BY <1>2, FS_CardinalityType

\* An object is confirmed in the content it has, and its history ends in it.
LEMMA ObjectsAreKept ==
    ASSUME NEW n \in 0 .. 9, Earlier(first, n), SameRows(Upgraded(first))
    PROVE  ObjectsKept
<1>1. /\ db.objects = ObjectsAfterV10(first) /\ db.history = HistoryAfterV10(first)
      /\ DOMAIN db.objects = Objects
      BY UpgradedRows DEF SameRows
<1>2. DOMAIN first.objects = Objects  BY DEF Earlier, Database
<1>3. ASSUME NEW o \in Objects, first.objects[o] # None
      PROVE  /\ db.objects[o] # None
             /\ LET cells == db.objects[o] IN
                /\ cells.lifecycle = "archived" <=> first.objects[o].status = "archived"
                /\ cells.confirmed = cells.revision <=> first.objects[o].status = "reviewed"
                /\ cells.revision = Len(db.history[o])
                /\ db.history[o][cells.revision] = "legacy_baseline"
    <2> DEFINE c == Cardinality(Changes(first, o))
               old == first.objects[o]
               cells == db.objects[o]
    <2>1. c \in Nat  BY ChangesFinite
    <2>2. cells = ObjectV10(old, c) /\ db.history[o] = HistoryV10(c)
          BY <1>1, <1>3 DEF ObjectsAfterV10, HistoryAfterV10
    <2> HIDE DEF c, old, cells
    <2>3. /\ cells = [lifecycle |-> cells.lifecycle, confirmed |-> cells.confirmed,
                    revision |-> cells.revision]
          /\ cells.lifecycle = IF old.status = "archived" THEN "archived" ELSE "active"
          /\ cells.confirmed = IF old.status = "reviewed" THEN c + 1 ELSE None
          /\ cells.revision = c + 1
          BY <2>2 DEF ObjectV10
    <2>4. cells # None
        <3>1. /\ cells.lifecycle \in {"active", "archived"}
              /\ cells.confirmed \in Nat \cup {None} /\ cells.revision \in Nat
              BY <2>1, <2>3
        <3>2. cells \in [lifecycle: {"active", "archived"}, confirmed: Nat \cup {None},
                       revision: Nat]
              BY <2>3, <3>1, Zenon
        <3> QED  BY <3>2, NullAssumption DEF ObjectsV10
    <2>5. cells.confirmed = cells.revision <=> old.status = "reviewed"
        <3>1. c + 1 # None
            <4>1. c + 1 \in Nat  BY <2>1
            <4> QED  BY <4>1, NullAssumption
        <3> QED  BY <2>3, <3>1
    <2>6. Len(HistoryV10(c)) = c + 1 /\ HistoryV10(c)[c + 1] = "legacy_baseline"
        <3>1. HistoryV10(c) \in Seq({"legacy_event", "legacy_baseline"})
              BY <2>1 DEF HistoryV10
        <3>2. DOMAIN HistoryV10(c) = 1 .. c + 1  BY DEF HistoryV10
        <3>3. Len(HistoryV10(c)) = c + 1  BY <2>1, <3>1, <3>2
        <3>4. HistoryV10(c)[c + 1] = "legacy_baseline"  BY <2>1 DEF HistoryV10
        <3> QED  BY <3>3, <3>4
    <2> QED  BY <2>2, <2>3, <2>4, <2>5, <2>6 DEF old, cells
<1>4. \A o \in Objects : first.objects[o] = None => db.objects[o] = None
      BY <1>1 DEF ObjectsAfterV10
<1>5. Ids(db.objects) = Ids(first.objects)  BY <1>1, <1>2, <1>3, <1>4 DEF Ids
<1>6. \A o \in Ids(db.objects) : o \in Objects /\ first.objects[o] # None
      BY <1>2, <1>5 DEF Ids
<1> QED  BY <1>3, <1>5, <1>6 DEF ObjectsKept

\* The history of an object has an event for every change of it in the log.
LEMMA HistoryCountsChanges ==
    ASSUME NEW n \in 0 .. 9, Earlier(first, n), SameRows(Upgraded(first)),
           NEW o \in Objects
    PROVE  \A k : k \in DOMAIN db.history[o] /\ db.history[o][k] = "legacy_event"
                      <=> k \in 1 .. Cardinality(Changes(first, o))
<1> DEFINE c == Cardinality(Changes(first, o))
           h == db.history[o]
<1>1. h = IF first.objects[o] = None THEN << >> ELSE HistoryV10(c)
    <2>1. db.history = HistoryAfterV10(first)  BY UpgradedRows DEF SameRows
    <2> QED  BY <2>1 DEF HistoryAfterV10
<1>2. c \in Nat  BY ChangesFinite
<1>3. CASE first.objects[o] = None
    <2>1. Changes(first, o) = {}
        <3> SUFFICES ASSUME NEW e \in Changes(first, o) PROVE FALSE  OBVIOUS
        <3>1. e \in Ids(first.entries) /\ first.entries[e].object = o
              BY DEF Changes, Ids, Earlier, Database
        <3>2. o \in Ids(first.objects) \cup {None}  BY <3>1 DEF Earlier, Sound
        <3> QED  BY <1>3, <3>2, RowAssumption DEF Ids
    <2>2. c = 0  BY <2>1, FS_EmptySet
    <2>3. DOMAIN h = {}  BY <1>1, <1>3
    <2> HIDE DEF c, h
    <2>4. 1 .. c = {}  BY <2>2
    <2>5. \A k : k \in DOMAIN h /\ h[k] = "legacy_event" <=> k \in 1 .. c
          BY <2>3, <2>4
    <2> QED  BY <2>5 DEF c, h
<1>4. CASE first.objects[o] # None
    <2> HIDE DEF c, h
    <2>1. h = HistoryV10(c)  BY <1>1, <1>4
    <2>2. /\ DOMAIN h = 1 .. c + 1
          /\ \A k \in 1 .. c + 1 :
                 h[k] = IF k <= c THEN "legacy_event" ELSE "legacy_baseline"
          BY <1>2, <2>1 DEF HistoryV10
    <2>3. \A k : k \in DOMAIN h /\ h[k] = "legacy_event" <=> k \in 1 .. c
          BY <1>2, <2>2
    <2> QED  BY <2>3 DEF c, h
<1> QED  BY <1>3, <1>4

\* No change of the old log is lost: it is an event of its object, or an orphan.
LEMMA ChangesAreCounted ==
    ASSUME NEW n \in 0 .. 9, Earlier(first, n), SameRows(Upgraded(first))
    PROVE  LET events == {oe \in UNION {{o} \X DOMAIN db.history[o] : o \in Objects} :
                             db.history[oe[1]][oe[2]] = "legacy_event"}
           IN  Cardinality(events) + db.orphans = Cardinality(ChangeRows(first))
<1> DEFINE events == {oe \in UNION {{o} \X DOMAIN db.history[o] : o \in Objects} :
                         db.history[oe[1]][oe[2]] = "legacy_event"}
           all == ChangeRows(first)
           owned == {e \in all : first.entries[e].object # None}
           unowned == Changes(first, None)
           owner == [e \in owned |-> first.entries[e].object]
           changes == [o \in Objects |-> Changes(first, o)]
<1>1. DOMAIN first.entries = Entries /\ Sound(first)  BY DEF Earlier, Database
<1>2. all \in SUBSET Entries /\ owned \in SUBSET Entries  BY <1>1 DEF ChangeRows, Ids
<1>3. IsFiniteSet(all) /\ IsFiniteSet(owned) /\ IsFiniteSet(unowned)
      BY <1>2, FS_Subset, RowAssumption, ChangesFinite
<1>4. all = owned \cup unowned /\ owned \cap unowned = {}
      BY <1>1 DEF ChangeRows, Changes, Ids
<1>5. Cardinality(all) = Cardinality(owned) + Cardinality(unowned)
    <2>1. /\ Cardinality(owned) \in Nat /\ Cardinality(unowned) \in Nat
          /\ Cardinality(owned \cap unowned) = 0
          BY <1>3, <1>4, FS_CardinalityType, FS_EmptySet
    <2>2. Cardinality(owned \cup unowned) =
              Cardinality(owned) + Cardinality(unowned) - Cardinality(owned \cap unowned)
          BY <1>3, FS_Union
    <2> HIDE DEF all, owned, unowned
    <2> QED  BY <1>4, <2>1, <2>2
<1>6. owner \in [owned -> Objects]
    <2>1. ASSUME NEW e \in owned PROVE first.entries[e].object \in Objects
        <3>1. e \in Ids(first.entries) /\ first.entries[e].object # None
              BY DEF ChangeRows
        <3>2. first.entries[e].object \in Ids(first.objects)  BY <1>1, <3>1 DEF Sound
        <3> QED  BY <3>2 DEF Ids, Earlier, Database
    <2> QED  BY <2>1
<1>7. ASSUME NEW o \in Objects, NEW e
      PROVE  e \in changes[o] <=> e \in owned /\ owner[e] = o
      BY <1>1, RowAssumption DEF Changes, ChangeRows, Ids
<1>8. ASSUME NEW x
      PROVE  x \in events <=>
                 \E o \in Objects : \E k \in 1 .. Cardinality(changes[o]) : x = <<o, k>>
    <2>1. ASSUME x \in events
          PROVE  \E o \in Objects : \E k \in 1 .. Cardinality(Changes(first, o)) :
                     x = <<o, k>>
        <3>1. PICK o \in Objects : x \in {o} \X DOMAIN db.history[o]  BY <2>1
        <3>2. x = <<o, x[2]>> /\ x[1] = o /\ x[2] \in DOMAIN db.history[o]  BY <3>1
        <3>3. db.history[o][x[2]] = "legacy_event"  BY <2>1, <3>2
        <3>4. x[2] \in 1 .. Cardinality(Changes(first, o))
              BY <3>2, <3>3, HistoryCountsChanges
        <3> QED  BY <3>2, <3>4
    <2>2. ASSUME NEW o \in Objects, NEW k \in 1 .. Cardinality(Changes(first, o)),
                 x = <<o, k>>
          PROVE  x \in events
        <3>1. k \in DOMAIN db.history[o] /\ db.history[o][k] = "legacy_event"
              BY HistoryCountsChanges
        <3>2. x \in {o} \X DOMAIN db.history[o]  BY <2>2, <3>1
        <3>3. db.history[x[1]][x[2]] = "legacy_event"  BY <2>2, <3>1
        <3> QED  BY <3>2, <3>3
    <2>3. \A o \in Objects : changes[o] = Changes(first, o)  OBVIOUS
    <2> HIDE DEF changes, events
    <2> QED  BY <2>1, <2>2, <2>3
<1>9. Cardinality(events) = Cardinality(owned)
    <2> HIDE DEF owned, owner, changes, events
    <2>1. IsFiniteSet(owned) /\ owner \in [owned -> Objects]  BY <1>3, <1>6
    <2>2. \A o \in Objects : \A e : e \in changes[o] <=> e \in owned /\ owner[e] = o
          BY <1>7
    <2>3. \A x : x \in events <=>
                     \E o \in Objects : \E k \in 1 .. Cardinality(changes[o]) : x = <<o, k>>
          BY <1>8
    <2>4. Grouped(owned, Objects, owner, changes, events)
          BY <2>1, <2>2, <2>3 DEF Grouped
    <2> QED  BY <2>1, <2>4, NumberedInGroups
<1>10. db.orphans = Cardinality(unowned)  BY UpgradedRows DEF SameRows
<1> HIDE DEF events, all, owned, unowned
<1>11. Cardinality(events) + db.orphans = Cardinality(all)  BY <1>5, <1>9, <1>10
<1> QED  BY <1>11 DEF events, all

\* The other entries stay, the saved answers told from them.
LEMMA EntriesAreKept ==
    ASSUME NEW n \in 0 .. 9, Earlier(first, n), SameRows(Upgraded(first))
    PROVE  EntriesKept
<1>1. /\ DOMAIN first.entries = Entries /\ DOMAIN db.entries = Entries
      /\ DOMAIN db.objects = Objects
    <2>1. DOMAIN first.entries = Entries  BY DEF Earlier, Database
    <2>2. DOMAIN db.entries = Entries /\ DOMAIN db.objects = Objects
          BY UpgradedRows DEF SameRows
    <2> QED  BY <2>1, <2>2
<1>2. ASSUME NEW e \in Entries, first.entries[e] # None
      PROVE  /\ EntryV10(first.entries[e]) = None
                    <=> first.entries[e].kind = "knowledge_change"
             /\ EntryV10(first.entries[e]) # None =>
                    /\ EntryV13(EntryV10(first.entries[e])) # None
                    /\ EntryV13(EntryV10(first.entries[e])).kind = "raw_qa"
                           <=> first.entries[e].form = "question and answer"
    <2> DEFINE old == first.entries[e]
               mid == [kind |-> old.kind, form |-> old.form, object |-> old.object,
                       origin |-> None, status |-> "active"]
    <2>1. old \in EntriesV9  BY <1>2 DEF Earlier
    <2>2. CASE old.kind = "knowledge_change"
          BY <2>2 DEF EntryV10
    <2>3. CASE old.kind # "knowledge_change"
        <3>1. old \in [kind: {"experience"}, form: {"free text", "question and answer"},
                       object: {None}]
              BY <2>1, <2>3 DEF EntriesV9
        <3>2. /\ old.kind = "experience" /\ old.object = None
              /\ old.form \in {"free text", "question and answer"}
              BY <3>1
        <3>3. EntryV10(old) = mid  BY <2>3 DEF EntryV10
        <3>4. /\ old.kind \in {"experience", "raw_qa"} /\ old.object \in Objects \cup {None}
              /\ None \in {None, "human_saved", "agent_assisted"}
              BY <3>2
        <3> HIDE DEF old
        <3>5. mid \in EntriesV10  BY <3>2, <3>4, Zenon DEF EntriesV10
        <3>6. mid.kind = "experience" /\ mid.form = old.form  BY <3>2
        <3> HIDE DEF mid
        <3>7. mid # None  BY <3>5, NullAssumption
        <3>8. IsRawQa(mid) <=> old.form = "question and answer"  BY <3>6 DEF IsRawQa
        <3>9. EntryV13(mid) # None /\ (EntryV13(mid).kind = "raw_qa" <=> IsRawQa(mid))
              BY <3>5, <3>6, EntryV13Type
        <3> QED  BY <2>3, <3>3, <3>7, <3>8, <3>9 DEF old
    <2> QED  BY <2>2, <2>3
<1>3. \A e \in Entries :
          db.entries[e] =
              IF first.entries[e] = None \/ EntryV10(first.entries[e]) = None THEN None
              ELSE EntryV13(EntryV10(first.entries[e]))
      BY UpgradedRows DEF SameRows
<1>4. \A e \in Entries :
          db.entries[e] # None
              <=> first.entries[e] # None /\ EntryV10(first.entries[e]) # None
      BY <1>2, <1>3
<1>5. Ids(db.entries) = Ids(first.entries) \ ChangeRows(first)
      BY <1>1, <1>2, <1>4 DEF Ids, ChangeRows
<1>6. \A e \in Ids(db.entries) :
          db.entries[e].kind = "raw_qa" <=> first.entries[e].form = "question and answer"
      BY <1>1, <1>2, <1>3, <1>4 DEF Ids
<1>7. db.indexed = Ids(db.objects) \cup Ids(db.entries)
    <2>1. db.indexed = {o \in Objects : db.objects[o] # None}
              \cup {e \in Entries : first.entries[e] # None
                                    /\ EntryV10(first.entries[e]) # None}
          BY UpgradedRows DEF SameRows
    <2> QED  BY <1>1, <1>4, <2>1 DEF Ids
<1> QED  BY <1>5, <1>6, <1>7, ChangesAreCounted DEF EntriesKept

\* A database of any earlier program arrives at the newest schema with all its
\* pages, notes, evidence, objects and entries, whoever took it there and in how
\* many attempts (migrations.py, run_migrations and the versions it runs).
THEOREM ChainLosesNothing == MigrationSpec => []NothingLost
<1>1. MigrationInv => NothingLost
    <2> SUFFICES ASSUME MigrationInv, Version(db) = SCHEMA_VERSION, ~worked
                 PROVE  PagesKept /\ ItemsKept /\ ObjectsKept /\ EntriesKept
        BY DEF NothingLost
    <2>1. PICK n \in {0, 1, 2, 6, 9} : Earlier(first, n)  BY BornType DEF MigrationInv
    <2>2. n \in 0 .. 9  OBVIOUS
    <2>3. Upgraded(db) = db  BY UpgradedNewest DEF MigrationInv
    <2>4. SameRows(Upgraded(first))  BY <2>3 DEF MigrationInv, WorkOK, Alike, SameRows
    <2> QED  BY <2>1, <2>2, <2>4, PagesAreKept, ObjectsAreKept, EntriesAreKept
<1> QED  BY <1>1, MigrationInvariance, PTL

-----------------------------------------------------------------------------
(* The types.                                                              *)

\* The rows of the pages in a database of version n.
PageCells(n) ==
    PageRows(IF n < 2 THEN StatusesV1 ELSE StatusesV2, IF n < 3 THEN {None} ELSE Reviews)

\* The rows are as the version of the database leaves them, and nothing is
\* indexed that is not there.
RowsTyped(d) ==
    /\ RowsOf(d.pages, PageCells(Version(d)))
    /\ Version(d) >= 7 => RowsOf(d.items, ItemsV7)
    /\ Version(d) >= 10 => RowsOf(d.objects, ObjectsV10)
    /\ d.indexed \subseteq IF Version(d) < 11 THEN {} ELSE Ids(d.objects) \cup Ids(d.entries)

\* They depend on the rows and the version alone.
LEMMA RowsStay ==
    ASSUME NEW d, NEW e, RowsTyped(d), Alike(d, e), Version(e) = Version(d)
    PROVE  RowsTyped(e)
BY DEF RowsTyped, Alike

\* Tables that come without rows.
LEMMA NewTables ==
    ASSUME NEW d, Database(d), NEW S, NEW e, e = [d EXCEPT !.schema = @ \cup S]
    PROVE  Alike(d, e) /\ Version(e) = Version(d)
<1>1. d = Fields(d.versions, d.schema, d.pages, d.items, d.objects, d.entries,
                 d.history, d.orphans, d.indexed)
      BY DEF Database
<1> DEFINE new == e
<1>2. new = WithSchema(d, d.schema \cup S)  BY DEF WithSchema
<1> HIDE DEF new
<1>3. new = Fields(d.versions, d.schema \cup S, d.pages, d.items, d.objects, d.entries,
                   d.history, d.orphans, d.indexed)
      BY <1>1, <1>2, FieldReplaced
<1>4. /\ new.versions = d.versions /\ new.pages = d.pages /\ new.items = d.items
      /\ new.objects = d.objects /\ new.entries = d.entries /\ new.history = d.history
      /\ new.orphans = d.orphans /\ new.indexed = d.indexed
      BY <1>3, FieldsKnown
<1> QED  BY <1>4, VersionOfVersions DEF Alike, new

\* The databases of earlier programs have such rows.
LEMMA EarlierRows ==
    ASSUME NEW d, NEW n \in {0, 1, 2, 6, 9}, Earlier(d, n)
    PROVE  RowsTyped(d)
<1>1. Version(d) = n
    <2>1. n \in 0 .. SCHEMA_VERSION  OBVIOUS
    <2> QED  BY <2>1, VersionIs DEF Earlier
<1>2. /\ DOMAIN d.pages = PageIds /\ DOMAIN d.items = Items
      /\ DOMAIN d.objects = Objects /\ DOMAIN d.entries = Entries
      BY DEF Earlier, Database
<1>3. RowsOf(d.pages, PageCells(n))
    <2>1. PagesAt(n) \subseteq PageCells(n)
          BY DEF PagesAt, PageCells, PageRows, StatusesV2
    <2>2. \A p \in Ids(d.pages) : d.pages[p] \in PagesAt(n)
          BY <1>2 DEF Earlier, Ids
    <2> QED  BY <2>1, <2>2 DEF RowsOf
<1>4. n >= 7 => RowsOf(d.items, ItemsV7)  BY <1>2 DEF Earlier, RowsOf, Ids
<1>5. ~(n >= 10) /\ n < 11  OBVIOUS
<1>6. d.indexed = {}  BY DEF Earlier
<1> QED  BY <1>1, <1>3, <1>4, <1>5, <1>6 DEF RowsTyped

\* A note and its review as version 2 and version 3 leave them.
LEMMA PagesRewritten ==
    /\ \A cells \in PageCells(1) : PageV2(cells) \in PageCells(2)
    /\ \A cells \in PageCells(2) : PageV3(cells) \in PageCells(3)
<1>1. ASSUME NEW cells \in PageCells(1) PROVE PageV2(cells) \in PageCells(2)
      BY DEF PageCells, PageRows, StatusesV1, StatusesV2, PageV2
<1>2. ASSUME NEW cells \in PageCells(2) PROVE PageV3(cells) \in PageCells(3)
      BY DEF PageCells, PageRows, StatusesV2, Reviews, PageV3
<1> QED  BY <1>1, <1>2

\* Version 10 counts the changes of an object.
LEMMA ObjectV10Type ==
    ASSUME NEW cells, NEW n \in Nat
    PROVE  ObjectV10(cells, n) \in ObjectsV10
<1>1. n + 1 \in Nat  OBVIOUS
<1>2. (IF cells.status = "archived" THEN "archived" ELSE "active") \in {"active", "archived"}
      OBVIOUS
<1>3. (IF cells.status = "reviewed" THEN n + 1 ELSE None) \in Nat \cup {None}  BY <1>1
<1> QED  BY <1>1, <1>2, <1>3 DEF ObjectV10, ObjectsV10

\* The next version leaves its rows as it should.
LEMMA MigratedRows ==
    ASSUME NEW d, Database(d), EntriesTyped(d), RowsTyped(d),
           NEW v \in 1 .. SCHEMA_VERSION, Version(d) = v - 1
    PROVE  RowsTyped(Migrated(v, d))
<1> DEFINE m == Migrated(v, d)
<1>1. Version(m) = v /\ Alike(m, Rewritten(v, d))  BY MigratedType
<1>2. /\ DOMAIN d.pages = PageIds /\ DOMAIN d.items = Items
      /\ DOMAIN d.objects = Objects /\ DOMAIN d.entries = Entries
      BY DEF Database
<1>3. /\ RowsOf(d.pages, PageCells(v - 1))
      /\ v >= 8 => RowsOf(d.items, ItemsV7)
      /\ v >= 11 => RowsOf(d.objects, ObjectsV10)
      /\ d.indexed \subseteq IF v < 12 THEN {} ELSE Ids(d.objects) \cup Ids(d.entries)
      BY DEF RowsTyped
<1>4. PageCells(0) = PageCells(1) /\ \A n \in 3 .. SCHEMA_VERSION : PageCells(n) = PageCells(3)
      BY DEF PageCells
<1> HIDE DEF m
<1>5. CASE v = 2
    <2>1. Alike(m, V2(d))  BY <1>1, <1>5, RewrittenIs
    <2>2. m.pages = PagesAfterV2(d) /\ m.indexed = d.indexed
          BY <2>1, OneTable, FieldsKnown DEF Alike
    <2>3. RowsOf(m.pages, PageCells(2))
        <3>1. ASSUME NEW p \in Ids(m.pages) PROVE m.pages[p] \in PageCells(2)
            <4>1. p \in Ids(d.pages) /\ m.pages[p] = PageV2(d.pages[p])
                  BY <2>2 DEF Ids, PagesAfterV2, Rewrite
            <4>2. d.pages[p] \in PageCells(1)  BY <1>3, <1>5, <4>1 DEF RowsOf
            <4> QED  BY <4>1, <4>2, PagesRewritten
        <3> QED  BY <3>1 DEF RowsOf
    <2> QED  BY <1>1, <1>3, <1>5, <2>2, <2>3 DEF RowsTyped, m
<1>6. CASE v = 3
    <2>1. Alike(m, V3(d))  BY <1>1, <1>6, RewrittenIs
    <2>2. m.pages = PagesAfterV3(d) /\ m.indexed = d.indexed
          BY <2>1, OneTable, FieldsKnown DEF Alike
    <2>3. RowsOf(m.pages, PageCells(3))
        <3>1. ASSUME NEW p \in Ids(m.pages) PROVE m.pages[p] \in PageCells(3)
            <4>1. p \in Ids(d.pages) /\ m.pages[p] = PageV3(d.pages[p])
                  BY <2>2 DEF Ids, PagesAfterV3, Rewrite
            <4>2. d.pages[p] \in PageCells(2)  BY <1>3, <1>6, <4>1 DEF RowsOf
            <4> QED  BY <4>1, <4>2, PagesRewritten
        <3> QED  BY <3>1 DEF RowsOf
    <2> QED  BY <1>1, <1>3, <1>6, <2>2, <2>3 DEF RowsTyped, m
<1>7. CASE v = 7
    <2>1. Alike(m, V7(d))  BY <1>1, <1>7, RewrittenIs
    <2>2. m.pages = d.pages /\ m.items = ItemsAfterV7(d) /\ m.indexed = d.indexed
          BY <2>1, OneTable, FieldsKnown DEF Alike
    <2>3. RowsOf(m.items, ItemsV7)
        <3>1. ASSUME NEW i \in Ids(m.items) PROVE m.items[i] \in ItemsV7
            <4>1. m.items[i] = ItemV7(d.items[i])
                  BY <2>2 DEF Ids, ItemsAfterV7, Rewrite
            <4> QED  BY <4>1 DEF ItemV7, ItemsV7
        <3> QED  BY <3>1 DEF RowsOf
    <2> QED  BY <1>1, <1>3, <1>4, <1>7, <2>2, <2>3 DEF RowsTyped, m
<1>8. CASE v = 10
    <2>1. Alike(m, V10(d))  BY <1>1, <1>8, RewrittenIs
    <2>2. /\ m.pages = d.pages /\ m.items = d.items /\ m.indexed = d.indexed
          /\ m.objects = ObjectsAfterV10(d)
          BY <2>1, ManyTables, FieldsKnown DEF Alike
    <2>3. ASSUME NEW o \in Ids(m.objects) PROVE m.objects[o] \in ObjectsV10
        <3>1. o \in Objects /\ m.objects[o] = ObjectV10(d.objects[o], Cardinality(Changes(d, o)))
              BY <2>2, <2>3 DEF Ids, ObjectsAfterV10
        <3>2. Cardinality(Changes(d, o)) \in Nat  BY ChangesFinite, FS_CardinalityType
        <3> QED  BY <3>1, <3>2, ObjectV10Type
    <2> QED  BY <1>1, <1>3, <1>4, <1>8, <2>2, <2>3 DEF RowsTyped, RowsOf, m
<1>9. CASE v = 11
    <2>1. Alike(m, V11(d))  BY <1>1, <1>9, RewrittenIs
    <2>2. /\ m.pages = d.pages /\ m.items = d.items /\ m.objects = d.objects
          /\ m.entries = d.entries /\ m.indexed = IndexedAfterV11(d)
          BY <2>1, ManyTables, FieldsKnown DEF Alike
    <2>3. m.indexed \subseteq Ids(m.objects) \cup Ids(m.entries)
          BY <1>2, <2>2 DEF IndexedAfterV11, Ids
    <2> QED  BY <1>1, <1>3, <1>4, <1>9, <2>2, <2>3 DEF RowsTyped, m
<1>10. CASE v = 13
    <2>1. Alike(m, V13(d))  BY <1>1, <1>10, RewrittenIs
    <2>2. /\ m.pages = d.pages /\ m.items = d.items /\ m.objects = d.objects
          /\ m.entries = EntriesAfterV13(d) /\ m.indexed = d.indexed
          BY <2>1, OneTable, FieldsKnown DEF Alike
    <2>3. ASSUME NEW e \in Ids(d.entries) PROVE e \in Ids(m.entries)
        <3>1. d.entries[e] \in EntriesV10  BY <1>10, <2>3 DEF EntriesTyped
        <3>2. EntryV13(d.entries[e]) # None  BY <3>1, EntryV13Type
        <3> QED  BY <2>2, <2>3, <3>2 DEF Ids, EntriesAfterV13, Rewrite
    <2> QED  BY <1>1, <1>3, <1>4, <1>10, <2>2, <2>3 DEF RowsTyped, m
<1>11. CASE v \notin Rewriting
    <2>1. Alike(m, d)  BY <1>1, <1>11, OthersKeepRows
    <2>2. PageCells(v) = PageCells(v - 1)  BY <1>4, <1>11 DEF Rewriting
    <2> QED  BY <1>1, <1>3, <1>11, <2>1, <2>2 DEF RowsTyped, Alike, Rewriting, m
<1> QED  BY <1>5, <1>6, <1>7, <1>8, <1>9, <1>10, <1>11 DEF Rewriting

\* A piece of work writes the rows of the newest version.
LEMMA WorkRows ==
    ASSUME NEW d, Database(d), Version(d) = SCHEMA_VERSION, RowsTyped(d),
           NEW e \in Works(d), Version(e) = SCHEMA_VERSION
    PROVE  RowsTyped(e)
<1>1. d = Fields(d.versions, d.schema, d.pages, d.items, d.objects, d.entries,
                 d.history, d.orphans, d.indexed)
      BY DEF Database
<1>2. /\ DOMAIN d.pages = PageIds /\ DOMAIN d.items = Items
      /\ DOMAIN d.objects = Objects /\ DOMAIN d.entries = Entries
      BY DEF Database
<1>3. /\ RowsOf(d.pages, PagesV3) /\ RowsOf(d.items, ItemsV7)
      /\ RowsOf(d.objects, ObjectsV10)
      /\ d.indexed \subseteq Ids(d.objects) \cup Ids(d.entries)
      BY DEF RowsTyped, PageCells, PagesV3
<1>4. SUFFICES /\ RowsOf(e.pages, PagesV3) /\ RowsOf(e.items, ItemsV7)
               /\ RowsOf(e.objects, ObjectsV10)
               /\ e.indexed \subseteq Ids(e.objects) \cup Ids(e.entries)
      BY DEF RowsTyped, PageCells, PagesV3
<1>5. CASE e \in Reviewed(d)
    <2>1. PICK p \in Ids(d.pages) :
              e = WithPages(d, [d.pages EXCEPT ![p].review = "reviewed"])
          BY <1>5, WorksAre
    <2> DEFINE new == [d.pages EXCEPT ![p].review = "reviewed"]
    <2>2. /\ e.pages = new /\ e.items = d.items /\ e.objects = d.objects
          /\ e.entries = d.entries /\ e.indexed = d.indexed
        <3> HIDE DEF new
        <3>1. e = Fields(d.versions, d.schema, new, d.items, d.objects, d.entries,
                         d.history, d.orphans, d.indexed)
              BY <1>1, <2>1, FieldReplaced DEF new
        <3> QED  BY <3>1, FieldsKnown
    <2>3. ASSUME NEW q \in Ids(e.pages) PROVE e.pages[q] \in PagesV3
        <3>1. CASE q = p
            <4>1. d.pages[p] \in PagesV3  BY <1>3, <2>1 DEF RowsOf
            <4>2. new[p] = [d.pages[p] EXCEPT !.review = "reviewed"]  BY DEF Ids
            <4> QED  BY <2>2, <3>1, <4>1, <4>2 DEF PagesV3, PageRows, Reviews
        <3>2. CASE q # p
            <4>1. q \in Ids(d.pages) /\ e.pages[q] = d.pages[q]
                  BY <2>2, <2>3, <3>2 DEF Ids
            <4> QED  BY <1>3, <4>1 DEF RowsOf
        <3> QED  BY <3>1, <3>2
    <2> QED  BY <1>3, <2>2, <2>3 DEF RowsOf
<1>6. CASE e \in Confirmed(d)
    <2>1. PICK i \in Ids(d.items) :
              e = WithItems(d, [d.items EXCEPT ![i].confirmed = TRUE])
          BY <1>6, WorksAre
    <2> DEFINE new == [d.items EXCEPT ![i].confirmed = TRUE]
    <2>2. /\ e.pages = d.pages /\ e.items = new /\ e.objects = d.objects
          /\ e.entries = d.entries /\ e.indexed = d.indexed
        <3> HIDE DEF new
        <3>1. e = Fields(d.versions, d.schema, d.pages, new, d.objects, d.entries,
                         d.history, d.orphans, d.indexed)
              BY <1>1, <2>1, FieldReplaced DEF new
        <3> QED  BY <3>1, FieldsKnown
    <2>3. ASSUME NEW j \in Ids(e.items) PROVE e.items[j] \in ItemsV7
        <3>1. CASE j = i
            <4>1. d.items[i] \in ItemsV7  BY <1>3, <2>1 DEF RowsOf
            <4>2. new[i] = [d.items[i] EXCEPT !.confirmed = TRUE]  BY DEF Ids
            <4> QED  BY <2>2, <3>1, <4>1, <4>2 DEF ItemsV7
        <3>2. CASE j # i
            <4>1. j \in Ids(d.items) /\ e.items[j] = d.items[j]
                  BY <2>2, <2>3, <3>2 DEF Ids
            <4> QED  BY <1>3, <4>1 DEF RowsOf
        <3> QED  BY <3>1, <3>2
    <2> QED  BY <1>3, <2>2, <2>3 DEF RowsOf
<1>7. CASE e \in Saved(d)
    <2>1. PICK k \in Entries \ Ids(d.entries) :
              e = WithIndexed(WithEntries(d, [d.entries EXCEPT ![k] = SavedAnswer]),
                              d.indexed \cup {k})
          BY <1>7, WorksAre
    <2> DEFINE new == [d.entries EXCEPT ![k] = SavedAnswer]
               found == d.indexed \cup {k}
               d1 == WithEntries(d, new)
    <2>2. /\ e.pages = d.pages /\ e.items = d.items /\ e.objects = d.objects
          /\ e.entries = new /\ e.indexed = found
        <3> HIDE DEF new, found
        <3>1. d1 = Fields(d.versions, d.schema, d.pages, d.items, d.objects, new,
                          d.history, d.orphans, d.indexed)
              BY <1>1, FieldReplaced
        <3>2. e = WithIndexed(d1, found)  BY <2>1 DEF new, found
        <3> HIDE DEF d1
        <3>3. e = Fields(d.versions, d.schema, d.pages, d.items, d.objects, new,
                         d.history, d.orphans, found)
              BY <3>1, <3>2, FieldReplaced
        <3> QED  BY <3>3, FieldsKnown
    <2>3. SavedAnswer # None
        <3>1. SavedAnswer \in EntriesV10  BY Zenon DEF SavedAnswer, EntriesV10
        <3> QED  BY <3>1, NullAssumption
    <2>4. Ids(e.entries) = Ids(d.entries) \cup {k}
        <3> HIDE DEF found
        <3> QED  BY <1>2, <2>2, <2>3 DEF Ids
    <2> QED  BY <1>3, <2>2, <2>4
<1> QED  BY <1>5, <1>6, <1>7 DEF Works

\* Who disturbed whom, the errors and the rows have their types.
MigrationTypes ==
    RowsTyped(db) /\ disturbed \subseteq Processes /\ errors \in 0 .. MaxErrors

\* Every step keeps the types.
LEMMA MigrationTypesStep ==
    ASSUME MigrationInv, MigrationTypes, [MigrationNext]_migrationVars
    PROVE  MigrationTypes'
<1>1. Database(db) /\ EntriesTyped(db) /\ RowsTyped(db)  BY DEF MigrationInv, MigrationTypes
<1>2. CASE UNCHANGED <<db, disturbed, errors>>  BY <1>2 DEF MigrationTypes, RowsTyped
<1>3. ASSUME NEW p \in Processes, Read(p) \/ Backup(p) \/ CheckAll(p)
      PROVE  MigrationTypes'
    <2>1. db' = db /\ errors' = errors /\ disturbed' \subseteq Processes
          BY <1>3 DEF Read, Backup, CheckAll, MigrationTypes
    <2> QED  BY <2>1 DEF MigrationTypes
<1>4. ASSUME NEW p \in Processes, StartFails(p) \/ StartDies(p) PROVE MigrationTypes'
    <2>1. /\ db' = db /\ errors < MaxErrors /\ errors' = errors + 1
          /\ disturbed' \subseteq Processes
          BY <1>4 DEF StartFails, StartDies, MigrationTypes
    <2>2. errors' \in 0 .. MaxErrors  BY <2>1, BoundAssumption DEF MigrationTypes
    <2> QED  BY <2>1, <2>2 DEF MigrationTypes
<1>5. ASSUME NEW p \in Processes, Connect(p) \/ FirstTables(p) PROVE MigrationTypes'
    <2>1. PICK S : db' = [db EXCEPT !.schema = @ \cup S]
          BY <1>5 DEF Connect, FirstTables
    <2>2. RowsTyped(db')  BY <1>1, <2>1, NewTables, RowsStay
    <2>3. errors' = errors /\ disturbed' = disturbed  BY <1>5 DEF Connect, FirstTables
    <2> QED  BY <2>2, <2>3 DEF MigrationTypes
<1>6. ASSUME NEW p \in Processes, Migrate(p) PROVE MigrationTypes'
    <2> DEFINE v == process[p].version + 1
    <2>1. /\ errors' = errors /\ first' = first /\ worked' = worked /\ v <= SCHEMA_VERSION
          /\ disturbed' \subseteq Processes
          /\ db' = db \/ (~Refused(v, db) /\ db' = Migrated(v, db))
          BY <1>6 DEF Migrate, Changed, Starting, MigrationTypes
    <2> HIDE DEF v
    <2>2. CASE ~Refused(v, db) /\ db' = Migrated(v, db)
        <3>1. v \in 1 .. SCHEMA_VERSION /\ Version(db) = v - 1
              BY <2>1, <2>2, MigratedStep DEF v
        <3>2. RowsTyped(db')  BY <1>1, <2>2, <3>1, MigratedRows
        <3> QED  BY <2>1, <3>2 DEF MigrationTypes
    <2>3. CASE db' = db  BY <2>1, <2>3 DEF MigrationTypes
    <2> QED  BY <2>1, <2>2, <2>3
<1>7. ASSUME NEW p \in Processes, UserWorks(p) PROVE MigrationTypes'
    <2>1. /\ db' \in Works(db) /\ Version(db) = SCHEMA_VERSION /\ errors' = errors
          /\ disturbed' \subseteq Processes
          BY <1>7 DEF UserWorks, MigrationInv, ProcessOK, Changed, Starting, MigrationTypes
    <2> DEFINE new == db'
    <2> HIDE DEF new
    <2>2. new \in Works(db)  BY <2>1 DEF new
    <2>3. Version(new) = SCHEMA_VERSION  BY <1>1, <2>1, <2>2, WorkKeepsForm
    <2>4. RowsTyped(new)  BY <1>1, <2>1, <2>2, <2>3, WorkRows
    <2> QED  BY <2>1, <2>4 DEF MigrationTypes, new
<1>8. CASE UNCHANGED migrationVars  BY <1>2, <1>8 DEF migrationVars
<1> QED  BY <1>3, <1>4, <1>5, <1>6, <1>7, <1>8 DEF MigrationNext

\* Such a database has the types of the module.
LEMMA MigrationTypesImply == MigrationInv /\ MigrationTypes => MigrationTypeOK
<1> SUFFICES ASSUME MigrationInv, MigrationTypes PROVE MigrationTypeOK  OBVIOUS
<1>1. Version(db) \in 0 .. SCHEMA_VERSION /\ db.versions = 1 .. Version(db)
      BY VersionType DEF MigrationInv
<1> DEFINE n == Version(db)
<1>2. \A k \in 1 .. SCHEMA_VERSION : k \in db.versions <=> n >= k  BY <1>1
<1>3. RowsOf(db.pages, PageRows(StatusesV1 \cup StatusesV2, Reviews \cup {None}))
    <2>1. PageCells(n) \subseteq PageRows(StatusesV1 \cup StatusesV2, Reviews \cup {None})
          BY DEF PageCells, PageRows
    <2> QED  BY <2>1 DEF MigrationTypes, RowsTyped, RowsOf
<1>4. n >= 3 => RowsOf(db.pages, PagesV3)
    <2>1. n >= 3 => PageCells(n) = PagesV3  BY <1>1 DEF PageCells, PagesV3
    <2> QED  BY <2>1 DEF MigrationTypes, RowsTyped
<1>5. n >= 10 => RowsOf(db.entries, EntriesV10)
      BY <1>1 DEF MigrationInv, EntriesTyped, RowsOf
<1>6. \A p \in Processes : process[p].at \in Stages /\ process[p].version \in 0 .. SCHEMA_VERSION
      BY DEF MigrationInv, ProcessOK
<1>7. worked \in BOOLEAN  BY DEF MigrationInv, WorkOK
<1>8. db.indexed \subseteq Ids(db.objects) \cup Ids(db.entries)
      BY DEF MigrationTypes, RowsTyped
<1>9. (n >= 7 => RowsOf(db.items, ItemsV7)) /\ (n >= 10 => RowsOf(db.objects, ObjectsV10))
      BY DEF MigrationTypes, RowsTyped
<1>10. 3 \in 1 .. SCHEMA_VERSION /\ 7 \in 1 .. SCHEMA_VERSION /\ 10 \in 1 .. SCHEMA_VERSION
      OBVIOUS
<1> HIDE DEF n
<1> QED  BY <1>1, <1>2, <1>3, <1>4, <1>5, <1>6, <1>7, <1>8, <1>9, <1>10
         DEF MigrationTypeOK, MigrationTypes, n

\* Versions, rows and processes keep their types.
THEOREM MigrationTyping == MigrationSpec => []MigrationTypeOK
<1>1. MigrationInit => MigrationTypes
    <2> SUFFICES ASSUME MigrationInit PROVE MigrationTypes  OBVIOUS
    <2>1. PICK n \in {0, 1, 2, 6, 9} : Earlier(db, n)  BY BornType DEF MigrationInit
    <2>2. RowsTyped(db)  BY <2>1, EarlierRows
    <2>3. disturbed \subseteq Processes /\ errors \in 0 .. MaxErrors
          BY BoundAssumption DEF MigrationInit
    <2> QED  BY <2>2, <2>3 DEF MigrationTypes
<1>2. MigrationInv /\ MigrationTypes /\ [MigrationNext]_migrationVars => MigrationTypes'
      BY MigrationTypesStep
<1> QED  BY <1>1, <1>2, MigrationInvariance, MigrationTypesImply, PTL DEF MigrationSpec
=============================================================================
