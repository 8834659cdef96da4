-------------------------- MODULE PageReview_proofs --------------------------
(***************************************************************************)
(* What holds of PageReview for every number of sessions, pages, writes    *)
(* and faults.  What the user was told is stored holds only as long as no  *)
(* two sessions worked at once; that a batch does what its preview showed  *)
(* holds always.                                                           *)
(***************************************************************************)
EXTENDS PageReview, TLAPS

USE ReviewAssumption

Fields == {"page", "ocr"}

Saving == [kind: {"writing", "updating"}, page: Pages, content: Contents,
           status: {"draft", "reviewed"}]
Clearing == [kind: {"clearing", "unlinking"}, page: Pages, path: BOOLEAN]
Recognising == [kind: {"recognising"}, page: Pages, errors: SUBSET Fields]
Reprocessing == [kind: {"reprocessing"}, page: Pages]

\* A plan that waits was made from pages a batch may change.
PlanOK(j) ==
    /\ j.target \in {"pending", "reviewed", "skipped"}
    /\ \A p \in j.pages : j.snapshot[p][1] \in Sources(j.target) \cup {j.target}

JobOK(j) ==
    \/ j = Idle
    \/ j \in Saving \cup Clearing \cup Recognising \cup Reprocessing
    \/ j.kind = "planned" /\ PlanOK(j)
    \/ j.kind = "sorting" /\ j.pages \subseteq Pages

JobsOK ==
    /\ job = [s \in Sessions |-> job[s]]
    /\ \A s \in Sessions : JobOK(job[s])

Working(s) == job[s].kind \notin Plans \cup {"idle"}

Alone ==
    ~overlapped => \A s, t \in Sessions : Working(s) /\ Working(t) => s = t

\* What the one session that works may rely on: while it saves or clears, its
\* user was told nothing; the file comes before the row in a save, after it in
\* a clearing; and the errors and the text of the page it recognises are those
\* it read.
WorkOK(s) ==
    /\ job[s].kind \in {"writing", "updating", "clearing", "unlinking"}
          => saved[job[s].page] = Unsure
    /\ Doing(s, "updating") => file[job[s].page] = job[s].content
    /\ Doing(s, "unlinking") =>
          page[job[s].page].markdown = NoText /\ ~page[job[s].page].path
    /\ Doing(s, "recognising") =>
          /\ page[job[s].page].errors = job[s].errors
          /\ ~page[job[s].page].recognised

WorkKept == ~overlapped => \A s \in Sessions : WorkOK(s)

IndInv ==
    /\ TypeOK /\ JobsOK /\ Alone /\ WorkKept
    /\ SavedIsStored /\ RecognisedWithoutError
-----------------------------------------------------------------------------
(***************************************************************************)
(* The kinds of work.                                                      *)
(***************************************************************************)
LEMMA JobKinds ==
    ASSUME NEW j, JobOK(j)
    PROVE  /\ j.kind \in Kinds
           /\ j.kind \in {"writing", "updating"} => j \in Saving
           /\ j.kind \in {"clearing", "unlinking"} => j \in Clearing
           /\ j.kind = "recognising" => j \in Recognising
           /\ j.kind = "reprocessing" => j \in Reprocessing
           /\ j.kind = "planned" => PlanOK(j)
           /\ j.kind = "sorting" => j.pages \subseteq Pages
           /\ j.kind = "idle" => j = Idle
  BY DEF JobOK, Idle, Saving, Clearing, Recognising, Reprocessing, Kinds

(***************************************************************************)
(* What a turn of session s does to the jobs, whatever else it does.       *)
(***************************************************************************)
Turn(s, j) ==
    /\ job'[s] = j
    /\ \A t \in Sessions \ {s} : job'[t] = job[t]
    /\ JobsOK' /\ Alone'
    /\ \A t \in Sessions : job'[t].kind \in Kinds
    /\ overlapped' \in BOOLEAN
    /\ ~overlapped' => ~overlapped

OthersRest(s) == \A t \in Sessions \ {s} : ~Working(t)

LEMMA StartTurn ==
    ASSUME IndInv, NEW s \in Sessions, NEW j, JobOK(j), Start(s, j)
    PROVE  /\ Turn(s, j)
           /\ j.kind \notin Plans => (~overlapped' => OthersRest(s))
<1>1. /\ job' = [job EXCEPT ![s] = j]
      /\ overlapped' = (overlapped \/
            (j.kind \notin Plans /\ \E t \in Sessions \ {s} :
                job[t].kind \notin Plans \cup {"idle"}))
  BY DEF Start
<1>2. job'[s] = j /\ \A t \in Sessions \ {s} : job'[t] = job[t]
  BY <1>1 DEF IndInv, JobsOK
<1>3. job' = [t \in Sessions |-> job'[t]]
  BY <1>1 DEF IndInv, JobsOK
<1>4. JobsOK' /\ \A t \in Sessions : job'[t].kind \in Kinds
  BY <1>2, <1>3, JobKinds DEF IndInv, JobsOK
<1>5. overlapped' \in BOOLEAN /\ (~overlapped' => ~overlapped)
  BY <1>1 DEF IndInv, TypeOK
<1>6. j.kind \notin Plans => (~overlapped' => OthersRest(s))
  BY <1>1 DEF OthersRest, Working
<1>7. Alone'
  BY <1>2, <1>5, <1>6 DEF IndInv, Alone, Working, OthersRest
<1> QED
  BY <1>2, <1>4, <1>5, <1>6, <1>7 DEF Turn

LEMMA ContinueTurn ==
    ASSUME IndInv, NEW s \in Sessions, NEW j, JobOK(j), Continue(s, j),
           Working(s) \/ j = Idle
    PROVE  /\ Turn(s, j)
           /\ Working(s) => (~overlapped' => OthersRest(s))
<1>1. job' = [job EXCEPT ![s] = j] /\ overlapped' = overlapped
  BY DEF Continue
<1>2. job'[s] = j /\ \A t \in Sessions \ {s} : job'[t] = job[t]
  BY <1>1 DEF IndInv, JobsOK
<1>3. job' = [t \in Sessions |-> job'[t]]
  BY <1>1 DEF IndInv, JobsOK
<1>4. JobsOK' /\ \A t \in Sessions : job'[t].kind \in Kinds
  BY <1>2, <1>3, JobKinds DEF IndInv, JobsOK
<1>5. overlapped' \in BOOLEAN /\ (~overlapped' => ~overlapped)
  BY <1>1 DEF IndInv, TypeOK
<1>6. Working(s) => (~overlapped' => OthersRest(s))
  BY <1>1 DEF IndInv, Alone, OthersRest
<1>7. Alone'
  BY <1>1, <1>2 DEF IndInv, Alone, Working, Idle
<1> QED
  BY <1>2, <1>4, <1>5, <1>6, <1>7 DEF Turn

(***************************************************************************)
(* Who works alone answers for its own work only.                          *)
(***************************************************************************)
LEMMA AloneKeepsWork ==
    ASSUME NEW s \in Sessions, NEW j, Turn(s, j),
           ~overlapped' => OthersRest(s),
           ~overlapped' => WorkOK(s)'
    PROVE  WorkKept'
  BY DEF Turn, OthersRest, Working, WorkKept, WorkOK, Doing, Plans

(***************************************************************************)
(* A turn that changes no text, file, error or promise disturbs nobody.    *)
(***************************************************************************)
LEMMA QuietTurn ==
    ASSUME IndInv, NEW s \in Sessions, NEW j, Turn(s, j), j.kind \in Plans \cup {"idle"},
           UNCHANGED <<file, saved>>,
           \A p \in Pages : /\ page'[p].markdown = page[p].markdown
                            /\ page'[p].path = page[p].path
                            /\ page'[p].recognised = page[p].recognised
                            /\ page'[p].errors = page[p].errors
    PROVE  WorkKept' /\ SavedIsStored' /\ RecognisedWithoutError'
<1>1. SavedIsStored' /\ RecognisedWithoutError'
  BY DEF IndInv, Turn, SavedIsStored, RecognisedWithoutError
<1>2. ASSUME ~overlapped', NEW t \in Sessions PROVE WorkOK(t)'
  <2>1. CASE t = s
    BY <2>1 DEF Turn, WorkOK, Doing, Plans
  <2>2. CASE t # s
    <3>1. job'[t] = job[t] /\ WorkOK(t) /\ JobOK(job[t])
      BY <1>2, <2>2 DEF Turn, IndInv, WorkKept, JobsOK
    <3>2. Doing(t, "unlinking") \/ Doing(t, "recognising") => job[t].page \in Pages
      BY <3>1, JobKinds DEF Doing, Clearing, Recognising
    <3> QED
      BY <3>1, <3>2 DEF WorkOK, Doing
  <2> QED
    BY <2>1, <2>2
<1> QED
  BY <1>1, <1>2 DEF WorkKept

(***************************************************************************)
(* The row that a page gets.                                               *)
(***************************************************************************)
LEMMA RowWritten ==
    ASSUME TypeOK, NEW p \in Pages, NEW r \in Rows, Update(p, r)
    PROVE  /\ page' \in [Pages -> Rows] /\ writes' \in 0..MaxWrites
           /\ page'[p].markdown = r.markdown /\ page'[p].path = r.path
           /\ page'[p].recognised = r.recognised /\ page'[p].errors = r.errors
           /\ \A q \in Pages \ {p} : page'[q] = page[q]
<1>1. writes < MaxWrites /\ writes' = writes + 1 /\ writes \in 0..MaxWrites
  BY DEF Update, TypeOK
<1>2. writes' \in 0..MaxWrites /\ writes + 1 \in 0..MaxWrites
  BY <1>1
<1>3. /\ [r EXCEPT !.stamp = writes + 1] \in Rows
      /\ page' = [page EXCEPT ![p] = [r EXCEPT !.stamp = writes + 1]]
      /\ page \in [Pages -> Rows]
  BY <1>2 DEF Rows, Update, TypeOK
<1>4. /\ page' \in [Pages -> Rows]
      /\ page'[p] = [r EXCEPT !.stamp = writes + 1]
      /\ \A q \in Pages \ {p} : page'[q] = page[q]
  BY <1>3
<1>5. /\ page'[p].markdown = r.markdown /\ page'[p].path = r.path
      /\ page'[p].recognised = r.recognised /\ page'[p].errors = r.errors
  BY <1>4 DEF Rows
<1> QED
  BY <1>2, <1>4, <1>5

(***************************************************************************)
(* The rows that saving and clearing make.                                 *)
(***************************************************************************)
WithText(r, c, status) == [r EXCEPT !.markdown = c, !.path = TRUE, !.status = status]
WithoutText(r) == [r EXCEPT !.markdown = NoText, !.path = FALSE, !.status = "pending"]

LEMMA TextSet ==
    ASSUME NEW r \in Rows, NEW c \in Contents, NEW status \in Statuses
    PROVE  /\ WithText(r, c, status) \in Rows
           /\ WithText(r, c, status).markdown = c
           /\ WithText(r, c, status).path = TRUE
           /\ WithText(r, c, status).recognised = r.recognised
           /\ WithText(r, c, status).errors = r.errors
  BY DEF Rows, WithText

LEMMA TextCleared ==
    ASSUME NEW r \in Rows
    PROVE  /\ WithoutText(r) \in Rows
           /\ WithoutText(r).markdown = NoText
           /\ WithoutText(r).path = FALSE
           /\ WithoutText(r).recognised = r.recognised
           /\ WithoutText(r).errors = r.errors
  BY DEF Rows, WithoutText, Statuses

LEMMA Faulted ==
    ASSUME faults \in 0..MaxFaults, Fault PROVE faults' \in 0..MaxFaults
  BY DEF Fault

-----------------------------------------------------------------------------
(***************************************************************************)
(* Saving.                                                                 *)
(***************************************************************************)
LEMMA SaveNothingKeeps ==
    ASSUME IndInv, UNCHANGED classes, NEW s \in Sessions, NEW p \in Pages, NEW c \in Contents,
           NEW status \in {"draft", "reviewed"}, SaveNothing(s, p, c, status)
    PROVE  IndInv'
<1>1. /\ UNCHANGED <<page, file, writes, crashes, faults>>
      /\ saved' = [saved EXCEPT ![p] = c]
      /\ page[p].markdown = c /\ page[p].path /\ file[p] = c
  BY DEF SaveNothing, NothingToSave, Stored, Tell
<1>2. Turn(s, Idle) /\ (~overlapped' => OthersRest(s))
  BY StartTurn DEF SaveNothing, JobOK, Idle, Plans
<1>3. TypeOK'
  BY <1>1, <1>2 DEF IndInv, TypeOK, Turn, classes, Existing
<1>4. WorkKept'
  <2>1. WorkOK(s)'
    BY <1>2 DEF Turn, WorkOK, Doing, Idle
  <2> QED
    BY <1>2, <2>1, AloneKeepsWork
<1>5. SavedIsStored' /\ RecognisedWithoutError'
  BY <1>1, <1>2 DEF IndInv, Turn, TypeOK, SavedIsStored, RecognisedWithoutError
<1> QED
  BY <1>2, <1>3, <1>4, <1>5 DEF IndInv, Turn

LEMMA BeginSaveKeeps ==
    ASSUME IndInv, UNCHANGED classes, NEW s \in Sessions, NEW p \in Pages, NEW c \in Contents,
           NEW status \in {"draft", "reviewed"}, BeginSave(s, p, c, status)
    PROVE  IndInv'
<1> DEFINE j == [kind |-> "writing", page |-> p, content |-> c, status |-> status]
<1>1. /\ UNCHANGED <<page, file, writes, crashes, faults>>
      /\ saved' = [saved EXCEPT ![p] = Unsure]
  BY DEF BeginSave, Tell
<1>2. Turn(s, j) /\ (~overlapped' => OthersRest(s))
  BY StartTurn DEF BeginSave, JobOK, Saving, Plans
<1>3. TypeOK'
  BY <1>1, <1>2 DEF IndInv, TypeOK, Turn, classes, Existing
<1>4. WorkKept'
  <2>1. WorkOK(s)'
    BY <1>1, <1>2 DEF IndInv, TypeOK, Turn, WorkOK, Doing
  <2> QED
    BY <1>2, <2>1, AloneKeepsWork
<1>5. SavedIsStored' /\ RecognisedWithoutError'
  BY <1>1, <1>2 DEF IndInv, Turn, TypeOK, SavedIsStored, RecognisedWithoutError
<1> QED
  BY <1>2, <1>3, <1>4, <1>5 DEF IndInv, Turn

LEMMA WriteFileKeeps ==
    ASSUME IndInv, UNCHANGED classes, NEW s \in Sessions, WriteFile(s)
    PROVE  IndInv'
<1> DEFINE j == [job[s] EXCEPT !.kind = "updating"]
<1>1. /\ UNCHANGED <<page, saved, writes, crashes, faults>>
      /\ file' = [file EXCEPT ![job[s].page] = job[s].content]
      /\ Doing(s, "writing")
  BY DEF WriteFile
<1>2. job[s] \in Saving
  BY <1>1, JobKinds DEF IndInv, JobsOK, Doing
<1>3. /\ j \in Saving /\ j.kind = "updating"
      /\ j.page = job[s].page /\ j.content = job[s].content
      /\ job[s].page \in Pages /\ job[s].content \in Contents
  BY <1>2 DEF Saving
<1>4. Working(s)
  BY <1>1 DEF Doing, Working, Plans
<1>5. Turn(s, j) /\ (~overlapped' => OthersRest(s))
  BY <1>3, <1>4, ContinueTurn DEF WriteFile, JobOK
<1>6. TypeOK'
  BY <1>1, <1>3, <1>5 DEF IndInv, TypeOK, Turn, classes, Existing
<1>7. ~overlapped => saved[job[s].page] = Unsure
  BY <1>1 DEF IndInv, WorkKept, WorkOK, Doing
<1>8. WorkKept'
  <2>1. ~overlapped' => WorkOK(s)'
    BY <1>1, <1>3, <1>5, <1>7 DEF IndInv, TypeOK, Turn, WorkOK, Doing
  <2> QED
    BY <1>5, <2>1, AloneKeepsWork
<1>9. SavedIsStored' /\ RecognisedWithoutError'
  BY <1>1, <1>5, <1>7 DEF IndInv, Turn, TypeOK, SavedIsStored, RecognisedWithoutError
<1> QED
  BY <1>5, <1>6, <1>8, <1>9 DEF IndInv, Turn

LEMMA UpdateRowKeeps ==
    ASSUME IndInv, UNCHANGED classes, NEW s \in Sessions, UpdateRow(s)
    PROVE  IndInv'
<1> DEFINE p == job[s].page
           c == job[s].content
           r == WithText(page[p], c, job[s].status)
<1>1. /\ UNCHANGED <<file, crashes, faults>>
      /\ saved' = [saved EXCEPT ![p] = c]
      /\ Doing(s, "updating") /\ Done(s)
      /\ IF Stored(p, c, job[s].status) THEN UNCHANGED <<page, writes>> ELSE Update(p, r)
  BY DEF UpdateRow, Tell, WithText
<1>2. /\ p \in Pages /\ c \in Contents /\ job[s].status \in Statuses
      /\ Working(s)
  BY <1>1, JobKinds DEF IndInv, JobsOK, Doing, Saving, Statuses, Working, Plans
<1>3. Turn(s, Idle) /\ (~overlapped' => OthersRest(s))
  BY <1>1, <1>2, ContinueTurn DEF Done, JobOK
<1>4. /\ page' \in [Pages -> Rows] /\ writes' \in 0..MaxWrites
      /\ page'[p].markdown = c /\ page'[p].path = TRUE
      /\ page'[p].recognised = page[p].recognised /\ page'[p].errors = page[p].errors
      /\ \A q \in Pages \ {p} : page'[q] = page[q]
  <2>1. CASE Stored(p, c, job[s].status)
    BY <1>1, <2>1 DEF Stored, IndInv, TypeOK
  <2>2. CASE ~Stored(p, c, job[s].status)
    <3>1. /\ r \in Rows /\ r.markdown = c /\ r.path = TRUE
          /\ r.recognised = page[p].recognised /\ r.errors = page[p].errors
      <4>1. page[p] \in Rows /\ c \in Contents /\ job[s].status \in Statuses
        BY <1>2 DEF IndInv, TypeOK
      <4> HIDE DEF p, c
      <4> QED
        BY <4>1, TextSet
    <3>2. TypeOK /\ Update(p, r) /\ p \in Pages /\ r \in Rows
      BY <1>1, <1>2, <2>2, <3>1 DEF IndInv
    <3> HIDE DEF r
    <3> QED
      BY <3>1, <3>2, RowWritten
  <2> QED
    BY <2>1, <2>2
<1>5. TypeOK'
  BY <1>1, <1>2, <1>3, <1>4 DEF IndInv, TypeOK, Turn, classes, Existing
<1>6. ~overlapped => file[p] = c
  BY <1>1 DEF IndInv, WorkKept, WorkOK, Doing
<1>7. WorkKept'
  <2>1. WorkOK(s)'
    BY <1>3 DEF Turn, WorkOK, Doing, Idle
  <2> QED
    BY <1>3, <2>1, AloneKeepsWork
<1>8. SavedIsStored'
  <2>1. saved'[p] = c /\ c # NoText /\ \A q \in Pages \ {p} : saved'[q] = saved[q]
    BY <1>1, <1>2 DEF IndInv, TypeOK
  <2>2. \A q \in Pages \ {p} : page'[q] = page[q] /\ file'[q] = file[q]
    BY <1>1, <1>4
  <2>3. ~overlapped' => /\ page'[p].markdown = saved'[p]
                        /\ page'[p].path = (saved'[p] # NoText)
                        /\ page'[p].path => file'[p] = saved'[p]
    BY <1>1, <1>3, <1>4, <1>6, <2>1 DEF Turn
  <2> QED
    BY <1>3, <2>1, <2>2, <2>3 DEF IndInv, Turn, SavedIsStored
<1>9. RecognisedWithoutError'
  BY <1>3, <1>4 DEF IndInv, Turn, RecognisedWithoutError
<1> QED
  BY <1>3, <1>5, <1>7, <1>8, <1>9 DEF IndInv, Turn

(***************************************************************************)
(* Work that ends without writing.                                         *)
(***************************************************************************)
LEMMA EndKeeps ==
    ASSUME IndInv, UNCHANGED classes, NEW s \in Sessions, Done(s),
           UNCHANGED <<page, file, saved, writes, crashes>>, faults' \in 0..MaxFaults
    PROVE  IndInv'
<1>1. Turn(s, Idle)
  BY ContinueTurn DEF Done, JobOK
<1>2. TypeOK'
  BY <1>1 DEF IndInv, TypeOK, Turn, classes, Existing
<1>3. WorkKept' /\ SavedIsStored' /\ RecognisedWithoutError'
  BY <1>1, QuietTurn DEF Idle
<1> QED
  BY <1>1, <1>2, <1>3 DEF IndInv, Turn

LEMMA FailureKeeps ==
    ASSUME IndInv, UNCHANGED classes, NEW s \in Sessions,
           SaveFails(s) \/ ClearFails(s) \/ LongWorkFails(s) \/ Abandon(s)
    PROVE  IndInv'
<1>1. faults' \in 0..MaxFaults
  BY Faulted DEF IndInv, TypeOK, SaveFails, ClearFails, LongWorkFails, Abandon
<1> QED
  BY <1>1, EndKeeps DEF SaveFails, ClearFails, LongWorkFails, Abandon

(***************************************************************************)
(* Clearing.                                                               *)
(***************************************************************************)
LEMMA BeginClearKeeps ==
    ASSUME IndInv, UNCHANGED classes, NEW s \in Sessions, NEW p \in Pages, BeginClear(s, p)
    PROVE  IndInv'
<1> DEFINE j == [kind |-> "clearing", page |-> p, path |-> page[p].path]
<1>1. /\ UNCHANGED <<page, file, writes, crashes, faults>>
      /\ saved' = [saved EXCEPT ![p] = Unsure]
  BY DEF BeginClear, Tell
<1>2. page[p].path \in BOOLEAN
  BY DEF IndInv, TypeOK, Rows
<1>3. JobOK(j) /\ j.kind \notin Plans
  BY <1>2 DEF JobOK, Clearing, Plans
<1>4. Turn(s, j) /\ (~overlapped' => OthersRest(s))
  BY <1>3, StartTurn DEF BeginClear
<1>5. TypeOK'
  BY <1>1, <1>4 DEF IndInv, TypeOK, Turn, classes, Existing
<1>6. WorkKept'
  <2>1. WorkOK(s)'
    BY <1>1, <1>4 DEF IndInv, TypeOK, Turn, WorkOK, Doing
  <2> QED
    BY <1>4, <2>1, AloneKeepsWork
<1>7. SavedIsStored' /\ RecognisedWithoutError'
  BY <1>1, <1>4 DEF IndInv, Turn, TypeOK, SavedIsStored, RecognisedWithoutError
<1> QED
  BY <1>4, <1>5, <1>6, <1>7 DEF IndInv, Turn

LEMMA ClearRowKeeps ==
    ASSUME IndInv, UNCHANGED classes, NEW s \in Sessions, ClearRow(s)
    PROVE  IndInv'
<1> DEFINE j == [job[s] EXCEPT !.kind = "unlinking"]
           p == job[s].page
           r == WithoutText(page[p])
<1>1. /\ UNCHANGED <<file, saved, crashes, faults>>
      /\ Doing(s, "clearing") /\ Continue(s, j) /\ Update(p, r)
  BY DEF ClearRow, WithoutText
<1>2. job[s] \in Clearing /\ Working(s)
  BY <1>1, JobKinds DEF IndInv, JobsOK, Doing, Working, Plans
<1>3. j \in Clearing /\ j.kind = "unlinking" /\ j.page = p /\ p \in Pages
  BY <1>2 DEF Clearing
<1>4. Turn(s, j) /\ (~overlapped' => OthersRest(s))
  BY <1>1, <1>2, <1>3, ContinueTurn DEF JobOK
<1>5. /\ page' \in [Pages -> Rows] /\ writes' \in 0..MaxWrites
      /\ page'[p].markdown = NoText /\ page'[p].path = FALSE
      /\ page'[p].recognised = page[p].recognised /\ page'[p].errors = page[p].errors
      /\ \A q \in Pages \ {p} : page'[q] = page[q]
  <2>1. /\ r \in Rows /\ r.markdown = NoText /\ r.path = FALSE
        /\ r.recognised = page[p].recognised /\ r.errors = page[p].errors
    <3>1. page[p] \in Rows
      BY <1>3 DEF IndInv, TypeOK
    <3> QED
      BY <3>1, TextCleared
  <2>2. TypeOK /\ Update(p, r) /\ p \in Pages /\ r \in Rows
    BY <1>1, <1>3, <2>1 DEF IndInv
  <2> HIDE DEF r
  <2> QED
    BY <2>1, <2>2, RowWritten
<1>6. TypeOK'
  BY <1>1, <1>4, <1>5 DEF IndInv, TypeOK, Turn, classes, Existing
<1>7. ~overlapped => saved[p] = Unsure
  BY <1>1 DEF IndInv, WorkKept, WorkOK, Doing
<1>8. WorkKept'
  <2>1. ~overlapped' => WorkOK(s)'
    BY <1>1, <1>3, <1>4, <1>5, <1>7 DEF Turn, WorkOK, Doing
  <2> QED
    BY <1>4, <2>1, AloneKeepsWork
<1>9. SavedIsStored' /\ RecognisedWithoutError'
  BY <1>1, <1>4, <1>5, <1>7 DEF IndInv, Turn, SavedIsStored, RecognisedWithoutError
<1> QED
  BY <1>4, <1>6, <1>8, <1>9 DEF IndInv, Turn

LEMMA UnlinkKeeps ==
    ASSUME IndInv, UNCHANGED classes, NEW s \in Sessions, Unlink(s)
    PROVE  IndInv'
<1> DEFINE p == job[s].page
<1>1. /\ UNCHANGED <<page, writes, crashes, faults>>
      /\ Doing(s, "unlinking") /\ Done(s)
      /\ file' = [file EXCEPT ![p] = IF job[s].path THEN NoText ELSE @]
      /\ saved' = [saved EXCEPT ![p] = NoText]
  BY DEF Unlink, Tell
<1>2. p \in Pages /\ Working(s)
  BY <1>1, JobKinds DEF IndInv, JobsOK, Doing, Clearing, Working, Plans
<1>3. Turn(s, Idle) /\ (~overlapped' => OthersRest(s))
  BY <1>1, <1>2, ContinueTurn DEF Done, JobOK
<1>4. /\ file' \in [Pages -> Contents \cup {NoText}]
      /\ saved'[p] = NoText
      /\ \A q \in Pages \ {p} : file'[q] = file[q] /\ saved'[q] = saved[q]
  BY <1>1, <1>2 DEF IndInv, TypeOK
<1>5. TypeOK'
  BY <1>1, <1>3, <1>4 DEF IndInv, TypeOK, Turn, classes, Existing
<1>6. ~overlapped => page[p].markdown = NoText /\ ~page[p].path
  BY <1>1 DEF IndInv, WorkKept, WorkOK
<1>7. WorkKept'
  <2>1. WorkOK(s)'
    BY <1>3 DEF Turn, WorkOK, Doing, Idle
  <2> QED
    BY <1>3, <2>1, AloneKeepsWork
<1>8. SavedIsStored'
  BY <1>1, <1>2, <1>3, <1>4, <1>6 DEF IndInv, TypeOK, Rows, Turn, SavedIsStored
<1>9. RecognisedWithoutError'
  BY <1>1, <1>3 DEF IndInv, Turn, RecognisedWithoutError
<1> QED
  BY <1>3, <1>5, <1>7, <1>8, <1>9 DEF IndInv, Turn

-----------------------------------------------------------------------------
(***************************************************************************)
(* Work that ends with a row of its page in which only the text of the     *)
(* user is as before.                                                      *)
(***************************************************************************)
LEMMA RowEditKeeps ==
    ASSUME IndInv, UNCHANGED <<file, saved, classes, crashes, faults>>,
           NEW s \in Sessions, Turn(s, Idle), ~overlapped' => OthersRest(s),
           NEW p \in Pages, NEW r \in Rows, Update(p, r),
           r.markdown = page[p].markdown, r.path = page[p].path,
           ~overlapped' => (r.recognised => "ocr" \notin r.errors)
    PROVE  IndInv'
<1>1. /\ page' \in [Pages -> Rows] /\ writes' \in 0..MaxWrites
      /\ page'[p].markdown = r.markdown /\ page'[p].path = r.path
      /\ page'[p].recognised = r.recognised /\ page'[p].errors = r.errors
      /\ \A q \in Pages \ {p} : page'[q] = page[q]
  BY RowWritten DEF IndInv
<1>2. TypeOK'
  BY <1>1 DEF IndInv, TypeOK, Turn, classes, Existing
<1>3. WorkKept'
  <2>1. WorkOK(s)'
    BY DEF Turn, WorkOK, Doing, Idle
  <2> QED
    BY <2>1, AloneKeepsWork
<1>4. \A q \in Pages : page'[q].markdown = page[q].markdown /\ page'[q].path = page[q].path
  BY <1>1
<1>5. SavedIsStored'
  BY <1>4 DEF IndInv, Turn, SavedIsStored
<1>6. RecognisedWithoutError'
  BY <1>1 DEF IndInv, Turn, RecognisedWithoutError
<1> QED
  BY <1>2, <1>3, <1>5, <1>6 DEF IndInv, Turn

LEMMA MarkKeeps ==
    ASSUME IndInv, UNCHANGED classes, NEW s \in Sessions, NEW p \in Pages,
           MarkReviewed(s, p) \/ Skip(s, p)
    PROVE  IndInv'
<1>1. Turn(s, Idle) /\ (~overlapped' => OthersRest(s))
  BY StartTurn DEF MarkReviewed, Skip, JobOK, Idle, Plans
<1>2. page[p] \in Rows /\ (~overlapped' => (page[p].recognised => "ocr" \notin page[p].errors))
  BY <1>1 DEF IndInv, TypeOK, RecognisedWithoutError, Turn
<1>3. CASE MarkReviewed(s, p)
  <2> DEFINE r == [page[p] EXCEPT !.status = "reviewed", !.errors = {}]
  <2>1. Update(p, r) /\ UNCHANGED <<file, saved, crashes, faults>>
    BY <1>3 DEF MarkReviewed
  <2>2. /\ r \in Rows /\ r.markdown = page[p].markdown /\ r.path = page[p].path
        /\ r.errors = {}
    BY <1>2 DEF Rows, Statuses
  <2> HIDE DEF r
  <2> QED
    BY <1>1, <2>1, <2>2, RowEditKeeps
<1>4. CASE Skip(s, p)
  <2> DEFINE r == [page[p] EXCEPT !.status = "skipped"]
  <2>1. Update(p, r) /\ UNCHANGED <<file, saved, crashes, faults>>
    BY <1>4 DEF Skip
  <2>2. /\ r \in Rows /\ r.markdown = page[p].markdown /\ r.path = page[p].path
        /\ r.recognised = page[p].recognised /\ r.errors = page[p].errors
    BY <1>2 DEF Rows, Statuses
  <2> HIDE DEF r
  <2> QED
    BY <1>1, <1>2, <2>1, <2>2, RowEditKeeps
<1> QED
  BY <1>3, <1>4

(***************************************************************************)
(* Recognising and reprocessing.                                           *)
(***************************************************************************)
LEMMA BeginLongKeeps ==
    ASSUME IndInv, UNCHANGED classes, NEW s \in Sessions, NEW p \in Pages,
           BeginOcr(s, p) \/ BeginReprocess(s, p)
    PROVE  IndInv'
<1>1. UNCHANGED <<page, file, saved, writes, crashes, faults>>
  BY DEF BeginOcr, BeginReprocess
<1>2. PICK j : /\ JobOK(j) /\ j.kind \notin Plans /\ Start(s, j)
               /\ j.kind \in {"recognising", "reprocessing"}
               /\ j.kind = "recognising" =>
                     j.page = p /\ j.errors = page[p].errors /\ ~page[p].recognised
  <2>1. page[p].errors \in SUBSET Fields
    BY DEF IndInv, TypeOK, Rows, Fields
  <2>2. CASE BeginOcr(s, p)
    <3> DEFINE j == [kind |-> "recognising", page |-> p, errors |-> page[p].errors]
    <3>1. j \in Recognising /\ j.kind = "recognising" /\ j.page = p
          /\ j.errors = page[p].errors
      BY <2>1 DEF Recognising
    <3>2. Start(s, j) /\ ~page[p].recognised
      BY <2>2 DEF BeginOcr, Eligible
    <3> HIDE DEF j
    <3> QED
      BY <3>1, <3>2 DEF JobOK, Plans
  <2>3. CASE BeginReprocess(s, p)
    <3> DEFINE j == [kind |-> "reprocessing", page |-> p]
    <3>1. j \in Reprocessing /\ j.kind = "reprocessing" /\ Start(s, j)
      BY <2>3 DEF Reprocessing, BeginReprocess
    <3> HIDE DEF j
    <3> QED
      BY <3>1 DEF JobOK, Plans
  <2> QED
    BY <2>2, <2>3
<1>3. Turn(s, j) /\ (~overlapped' => OthersRest(s))
  BY <1>2, StartTurn
<1>4. TypeOK'
  BY <1>1, <1>3 DEF IndInv, TypeOK, Turn, classes, Existing
<1>5. WorkKept'
  <2>1. WorkOK(s)'
    BY <1>1, <1>2, <1>3 DEF Turn, WorkOK, Doing
  <2> QED
    BY <1>3, <2>1, AloneKeepsWork
<1>6. SavedIsStored' /\ RecognisedWithoutError'
  BY <1>1, <1>3 DEF IndInv, Turn, SavedIsStored, RecognisedWithoutError
<1> QED
  BY <1>3, <1>4, <1>5, <1>6 DEF IndInv, Turn

LEMMA OcrEndKeeps ==
    ASSUME IndInv, UNCHANGED classes, NEW s \in Sessions, OcrDone(s) \/ OcrFails(s)
    PROVE  IndInv'
<1> DEFINE p == job[s].page
           es == job[s].errors
<1>1. Doing(s, "recognising") /\ Done(s) /\ UNCHANGED <<file, saved, crashes, faults>>
  BY DEF OcrDone, OcrFails
<1>2. p \in Pages /\ es \in SUBSET Fields /\ Working(s)
  BY <1>1, JobKinds DEF IndInv, JobsOK, Doing, Recognising, Working, Plans
<1>3. Turn(s, Idle) /\ (~overlapped' => OthersRest(s))
  BY <1>1, <1>2, ContinueTurn DEF Done, JobOK
<1>4. /\ page[p] \in Rows /\ page[p].errors \in SUBSET Fields
      /\ ~overlapped' => page[p].errors = es /\ ~page[p].recognised
  BY <1>1, <1>2, <1>3 DEF IndInv, TypeOK, Rows, Fields, Turn, WorkKept, WorkOK
<1>5. CASE OcrDone(s)
  <2>1. PICK b \in BOOLEAN :
           Update(p, [page[p] EXCEPT !.recognised = b,
                                     !.errors = IF "ocr" \in es THEN es \ {"ocr"} ELSE @])
    BY <1>5 DEF OcrDone
  <2> DEFINE fs == IF "ocr" \in es THEN es \ {"ocr"} ELSE page[p].errors
             r == [page[p] EXCEPT !.recognised = b, !.errors = fs]
  <2>2. Update(p, r)
    BY <2>1
  <2>3. fs \in SUBSET Fields /\ (~overlapped' => "ocr" \notin fs)
    BY <1>2, <1>4
  <2> HIDE DEF fs
  <2>4. /\ r \in Rows /\ r.markdown = page[p].markdown /\ r.path = page[p].path
        /\ r.recognised = b /\ r.errors = fs
    <3> HIDE DEF p, es
    <3> QED
      BY <1>4, <2>3 DEF Rows, Fields
  <2> HIDE DEF r
  <2> QED
    BY <1>1, <1>2, <1>3, <2>2, <2>3, <2>4, RowEditKeeps
<1>6. CASE OcrFails(s)
  <2> DEFINE fs == es \cup {"ocr"}
             r == [page[p] EXCEPT !.errors = fs]
  <2>1. Update(p, r)
    BY <1>6 DEF OcrFails
  <2>2. fs \in SUBSET Fields
    BY <1>2 DEF Fields
  <2> HIDE DEF fs
  <2>3. /\ r \in Rows /\ r.markdown = page[p].markdown /\ r.path = page[p].path
        /\ r.recognised = page[p].recognised
    <3> HIDE DEF p, es
    <3> QED
      BY <1>4, <2>2 DEF Rows, Fields
  <2> HIDE DEF r
  <2> QED
    BY <1>1, <1>2, <1>3, <1>4, <2>1, <2>3, RowEditKeeps
<1> QED
  BY <1>5, <1>6

LEMMA ReprocessedKeeps ==
    ASSUME IndInv, UNCHANGED classes, NEW s \in Sessions, Reprocessed(s)
    PROVE  IndInv'
<1> DEFINE p == job[s].page
<1>1. Doing(s, "reprocessing") /\ Done(s) /\ UNCHANGED <<file, saved, crashes, faults>>
  BY DEF Reprocessed
<1>2. p \in Pages /\ Working(s)
  BY <1>1, JobKinds DEF IndInv, JobsOK, Doing, Reprocessing, Working, Plans
<1>3. Turn(s, Idle) /\ (~overlapped' => OthersRest(s))
  BY <1>1, <1>2, ContinueTurn DEF Done, JobOK
<1>4. page[p] \in Rows
  BY <1>2 DEF IndInv, TypeOK
<1> HIDE DEF p
<1>5. PICK r \in Rows : /\ Update(p, r) /\ "ocr" \notin r.errors
                        /\ r.markdown = page[p].markdown /\ r.path = page[p].path
  <2>1. CASE Update(p, [page[p] EXCEPT !.errors = {"page"}, !.status = "failed"])
    <3> DEFINE r == [page[p] EXCEPT !.errors = {"page"}, !.status = "failed"]
    <3>1. {"page"} \in SUBSET Fields /\ "failed" \in Statuses
      BY DEF Fields, Statuses
    <3>2. /\ r \in Rows /\ r.markdown = page[p].markdown /\ r.path = page[p].path
          /\ r.errors = {"page"}
      BY <1>4, <3>1 DEF Rows, Fields
    <3> HIDE DEF r
    <3>3. Update(p, r)
      BY <2>1 DEF r
    <3> QED
      BY <3>2, <3>3
  <2>2. CASE \E b \in BOOLEAN :
               Update(p, [page[p] EXCEPT !.errors = {}, !.status = "pending", !.text = b])
    <3>1. PICK b \in BOOLEAN :
             Update(p, [page[p] EXCEPT !.errors = {}, !.status = "pending", !.text = b])
      BY <2>2
    <3> DEFINE r == [page[p] EXCEPT !.errors = {}, !.status = "pending", !.text = b]
    <3>2. {} \in SUBSET Fields /\ "pending" \in Statuses
      BY DEF Fields, Statuses
    <3>3. /\ r \in Rows /\ r.markdown = page[p].markdown /\ r.path = page[p].path
          /\ r.errors = {}
      BY <1>4, <3>2 DEF Rows, Fields
    <3> HIDE DEF r
    <3>4. Update(p, r)
      BY <3>1 DEF r
    <3> QED
      BY <3>3, <3>4
  <2> QED
    BY <2>1, <2>2 DEF Reprocessed, p
<1> QED
  BY <1>1, <1>2, <1>3, <1>5, RowEditKeeps

-----------------------------------------------------------------------------
(***************************************************************************)
(* Batches.                                                                *)
(***************************************************************************)
LEMMA PlanKeeps ==
    ASSUME IndInv, UNCHANGED classes, NEW s \in Sessions, NEW ps \in SUBSET Pages,
           NEW target \in {"pending", "reviewed", "skipped"}, Plan(s, ps, target)
    PROVE  IndInv'
<1> DEFINE j == [kind |-> "planned", pages |-> ps, target |-> target,
                 snapshot |-> Snapshot(ps)]
<1>1. UNCHANGED <<page, file, saved, writes, crashes, faults>> /\ Start(s, j)
  BY DEF Plan, Pend
<1>2. \A p \in ps : Snapshot(ps)[p][1] \in Sources(target) \cup {target}
  <2>1. \A p \in ps : page[p].status \in Sources(target) \cup {target}
    BY DEF Plan, Executable
  <2>2. \A p \in ps : Snapshot(ps)[p] = <<page[p].status, page[p].stamp>>
    BY DEF Snapshot
  <2> QED
    BY <2>1, <2>2
<1>3. /\ JobOK(j) /\ j.kind \in Plans
  <2>1. j.target = target /\ j.pages = ps /\ j.snapshot = Snapshot(ps) /\ j.kind = "planned"
    OBVIOUS
  <2> HIDE DEF j
  <2> QED
    BY <1>2, <2>1 DEF JobOK, PlanOK, Plans
<1> HIDE DEF j
<1>4. Turn(s, j)
  BY <1>1, <1>3, StartTurn
<1>5. TypeOK'
  BY <1>1, <1>4 DEF IndInv, TypeOK, Turn, classes, Existing
<1>6. WorkKept' /\ SavedIsStored' /\ RecognisedWithoutError'
  BY <1>1, <1>3, <1>4, QuietTurn
<1> QED
  BY <1>4, <1>5, <1>6 DEF IndInv, Turn

LEMMA ExecuteKeeps ==
    ASSUME IndInv, UNCHANGED classes, NEW s \in Sessions, Execute(s)
    PROVE  IndInv'
<1> DEFINE target == job[s].target
           changed == {p \in job[s].pages : page[p].status # target}
<1>1. /\ UNCHANGED <<file, saved, crashes, faults>>
      /\ Doing(s, "planned") /\ Done(s)
      /\ writes < MaxWrites /\ writes' = writes + 1
      /\ page' = [p \in Pages |->
                     IF p \in changed
                     THEN [page[p] EXCEPT !.status = target, !.stamp = writes + 1]
                     ELSE page[p]]
  BY DEF Execute, Consume
<1>2. target \in Statuses
  BY <1>1, JobKinds DEF IndInv, JobsOK, Doing, PlanOK, Statuses
<1>3. Turn(s, Idle)
  BY <1>1, ContinueTurn DEF Done, JobOK
<1>4. writes + 1 \in 0..MaxWrites
  <2>1. writes \in 0..MaxWrites /\ writes < MaxWrites
    BY <1>1 DEF IndInv, TypeOK
  <2> QED
    BY <2>1
<1> HIDE DEF target, changed
<1>5. ASSUME NEW p \in Pages
      PROVE  /\ page'[p] \in Rows
             /\ page'[p].markdown = page[p].markdown /\ page'[p].path = page[p].path
             /\ page'[p].recognised = page[p].recognised
             /\ page'[p].errors = page[p].errors
  <2>1. page[p] \in Rows
    BY DEF IndInv, TypeOK
  <2>2. CASE p \in changed
    <3>1. page'[p] = [page[p] EXCEPT !.status = target, !.stamp = writes + 1]
      BY <1>1, <2>2
    <3> QED
      BY <1>2, <1>4, <2>1, <3>1 DEF Rows
  <2>3. CASE p \notin changed
    BY <1>1, <2>1, <2>3
  <2> QED
    BY <2>2, <2>3
<1>6. page' \in [Pages -> Rows]
  BY <1>1, <1>5
<1>7. TypeOK'
  BY <1>1, <1>3, <1>4, <1>6 DEF IndInv, TypeOK, Turn, classes, Existing
<1>8. WorkKept' /\ SavedIsStored' /\ RecognisedWithoutError'
  BY <1>1, <1>3, <1>5, QuietTurn DEF Idle
<1> QED
  BY <1>3, <1>7, <1>8 DEF IndInv, Turn

(***************************************************************************)
(* Tags and projects.                                                      *)
(***************************************************************************)
LEMMA ClassesKeep ==
    ASSUME IndInv, NEW s \in Sessions, ClassStep(s) \/ RelationBatchStep(s),
           UNCHANGED <<page, file, saved, writes, crashes, faults>>
    PROVE  IndInv'
<1>1. PICK j : Turn(s, j) /\ j.kind \in Plans \cup {"idle"}
  <2>1. JobOK(Idle) /\ Idle.kind = "idle"
    BY DEF JobOK, Idle
  <2>2. CASE Start(s, Idle)
    BY <2>1, <2>2, StartTurn
  <2>3. CASE ExecuteRelations(s)
    BY <2>1, <2>3, ContinueTurn DEF ExecuteRelations, Consume, Done
  <2>4. ASSUME NEW ps \in SUBSET Pages, NEW ts \in SUBSET Targets, NEW add \in BOOLEAN,
               PlanRelations(s, ps, ts, add)
        PROVE  \E j : Turn(s, j) /\ j.kind \in Plans \cup {"idle"}
    <3> DEFINE j == [kind |-> "sorting", pages |-> ps, targets |-> ts, add |-> add,
                     snapshot |-> Snapshot(ps), existing |-> related \cap (ps \X ts)]
    <3>1. Start(s, j) /\ j.kind = "sorting" /\ j.pages = ps
      BY <2>4 DEF PlanRelations, Pend
    <3> HIDE DEF j
    <3> QED
      BY <3>1, StartTurn DEF JobOK, Plans
  <2> QED
    BY <2>2, <2>3, <2>4 DEF ClassStep, RelationBatchStep, CreateTarget, DeleteTarget, Classify
<1> DEFINE Typed == /\ phase' \in [Targets -> {"free", "exists", "deleted"}]
                    /\ related' \subseteq Pages \X Existing'
<1>2. Typed
  <2>1. /\ phase \in [Targets -> {"free", "exists", "deleted"}]
        /\ related \subseteq Pages \X Existing
    BY DEF IndInv, TypeOK
  <2>2. ASSUME NEW t \in Targets, CreateTarget(s, t) PROVE Typed
    BY <2>1, <2>2 DEF CreateTarget, Existing
  <2>3. ASSUME NEW t \in Targets, DeleteTarget(s, t) PROVE Typed
    BY <2>1, <2>3 DEF DeleteTarget, Existing
  <2>4. ASSUME NEW p \in Pages, NEW ts \in SUBSET Targets, Classify(s, p, ts) PROVE Typed
    BY <2>1, <2>4 DEF Classify, Existing
  <2>5. ASSUME NEW ps \in SUBSET Pages, NEW ts \in SUBSET Targets, NEW add \in BOOLEAN,
               PlanRelations(s, ps, ts, add)
        PROVE  Typed
    BY <2>1, <2>5 DEF PlanRelations, classes, Existing
  <2>6. CASE ExecuteRelations(s)
    <3>1. job[s].pages \subseteq Pages
      BY <2>6, JobKinds DEF IndInv, JobsOK, ExecuteRelations, Consume, Doing
    <3>2. /\ job[s].targets \subseteq Existing /\ phase' = phase
          /\ related' \subseteq related \cup (job[s].pages \X job[s].targets)
      BY <2>6 DEF ExecuteRelations, SameRelations
    <3> QED
      BY <2>1, <3>1, <3>2 DEF Existing
  <2> QED
    BY <2>2, <2>3, <2>4, <2>5, <2>6 DEF ClassStep, RelationBatchStep
<1>3. TypeOK'
  BY <1>1, <1>2 DEF IndInv, TypeOK, Turn
<1>4. WorkKept' /\ SavedIsStored' /\ RecognisedWithoutError'
  BY <1>1, QuietTurn
<1> QED
  BY <1>1, <1>3, <1>4 DEF IndInv, Turn

LEMMA CrashKeeps == IndInv /\ Crash => IndInv'
<1> SUFFICES ASSUME IndInv, Crash PROVE IndInv'
  OBVIOUS
<1>1. /\ \A s \in Sessions : job'[s] = Idle
      /\ job' = [s \in Sessions |-> job'[s]]
      /\ UNCHANGED <<page, file, saved, classes, overlapped, writes, faults>>
      /\ crashes < MaxCrashes /\ crashes' = crashes + 1
  BY DEF Crash
<1>2. crashes' \in 0..MaxCrashes
  BY <1>1 DEF IndInv, TypeOK
<1>3. TypeOK'
  BY <1>1, <1>2 DEF IndInv, TypeOK, classes, Existing, Idle, Kinds
<1>4. JobsOK' /\ Alone'
  BY <1>1 DEF JobsOK, JobOK, Alone, Working, Idle
<1>5. WorkKept'
  BY <1>1 DEF WorkKept, WorkOK, Doing, Idle
<1>6. SavedIsStored' /\ RecognisedWithoutError'
  BY <1>1 DEF IndInv, SavedIsStored, RecognisedWithoutError
<1> QED
  BY <1>3, <1>4, <1>5, <1>6 DEF IndInv

-----------------------------------------------------------------------------
LEMMA ReviewBegins == Init => IndInv
<1> SUFFICES ASSUME Init PROVE IndInv
  OBVIOUS
<1>1. /\ page \in [Pages -> Imported] /\ related = {} /\ overlapped = FALSE
      /\ job = [s \in Sessions |-> Idle]
      /\ file = [p \in Pages |-> NoText] /\ saved = [p \in Pages |-> NoText]
      /\ phase \in [Targets -> {"free", "deleted"}]
      /\ writes \in 0..MaxWrites /\ crashes = 0 /\ faults = 0
  BY DEF Init
<1>2. \A p \in Pages : /\ page[p] \in Rows /\ page[p].markdown = NoText
                      /\ page[p].path = FALSE /\ page[p].recognised = FALSE
  BY <1>1 DEF Imported, Rows
<1>3. TypeOK
  <2>1. page \in [Pages -> Rows]
    BY <1>1, <1>2
  <2>2. /\ writes \in 0..MaxWrites /\ crashes \in 0..MaxCrashes /\ faults \in 0..MaxFaults
    BY <1>1
  <2>3. phase \in [Targets -> {"free", "exists", "deleted"}]
    BY <1>1
  <2> QED
    BY <1>1, <2>1, <2>2, <2>3 DEF TypeOK, Idle, Kinds
<1>4. JobsOK /\ Alone
  BY <1>1 DEF JobsOK, JobOK, Alone, Working, Idle
<1>5. WorkKept
  BY <1>1 DEF WorkKept, WorkOK, Doing, Idle
<1>6. SavedIsStored /\ RecognisedWithoutError
  BY <1>1, <1>2 DEF SavedIsStored, RecognisedWithoutError
<1> QED
  BY <1>3, <1>4, <1>5, <1>6 DEF IndInv

LEMMA EditsKeep ==
    ASSUME IndInv, NEW s \in Sessions, EditStep(s), UNCHANGED classes
    PROVE  IndInv'
  BY SaveNothingKeeps, BeginSaveKeeps, WriteFileKeeps, UpdateRowKeeps, FailureKeeps,
     BeginClearKeeps, MarkKeeps, ClearRowKeeps, UnlinkKeeps
  DEF EditStep

LEMMA LongWorkKeeps ==
    ASSUME IndInv, NEW s \in Sessions, OcrStep(s) \/ ReprocessStep(s), UNCHANGED classes
    PROVE  IndInv'
  BY BeginLongKeeps, OcrEndKeeps, ReprocessedKeeps, FailureKeeps DEF OcrStep, ReprocessStep

LEMMA StatusBatchesKeep ==
    ASSUME IndInv, NEW s \in Sessions, StatusBatchStep(s), UNCHANGED classes
    PROVE  IndInv'
  BY PlanKeeps, ExecuteKeeps, FailureKeeps DEF StatusBatchStep

LEMMA StutterKeeps == IndInv /\ UNCHANGED vars => IndInv'
<1> SUFFICES ASSUME IndInv, UNCHANGED vars PROVE IndInv'
  OBVIOUS
<1> USE DEF IndInv, vars, classes
<1>1. TypeOK'
  BY DEF TypeOK, Existing
<1>2. JobsOK' /\ Alone' /\ WorkKept'
  BY DEF JobsOK, Alone, Working, WorkKept, WorkOK, Doing
<1>3. SavedIsStored' /\ RecognisedWithoutError'
  BY DEF SavedIsStored, RecognisedWithoutError
<1> QED
  BY <1>1, <1>2, <1>3

(***************************************************************************)
(* The inductive invariant.                                                *)
(***************************************************************************)
THEOREM Invariance == Spec => []IndInv
<1>1. IndInv /\ [Next]_vars => IndInv'
  BY EditsKeep, LongWorkKeeps, StatusBatchesKeep, ClassesKeep, CrashKeeps, StutterKeeps
  DEF Next
<1> QED
  BY <1>1, ReviewBegins, PTL DEF Spec

(***************************************************************************)
(* Type correctness, for every overlap of the sessions.                    *)
(***************************************************************************)
THEOREM Typing == Spec => []TypeOK
<1>1. IndInv => TypeOK
  BY DEF IndInv
<1> QED
  BY <1>1, Invariance, PTL

(***************************************************************************)
(* What a user was told is stored is stored, in the row and in the file,   *)
(* as long as no two sessions worked at once.                              *)
(***************************************************************************)
THEOREM SavesAreStored == Spec => []SavedIsStored
<1>1. IndInv => SavedIsStored
  BY DEF IndInv
<1> QED
  BY <1>1, Invariance, PTL

(***************************************************************************)
(* A recognised page carries no OCR error, as long as no two sessions      *)
(* worked at once.                                                         *)
(***************************************************************************)
THEOREM RecognisedHasNoError == Spec => []RecognisedWithoutError
<1>1. IndInv => RecognisedWithoutError
  BY DEF IndInv
<1> QED
  BY <1>1, Invariance, PTL

-----------------------------------------------------------------------------
(* Batches, whatever other sessions do. *)

\* A session whose plan is gone after a step executed it, or dropped it, which
\* writes nothing.
LEMMA PlanGone ==
    ASSUME IndInv, Next, NEW s \in Sessions, job[s].kind \in Plans, job'[s] = Idle
    PROVE  \/ Execute(s)
           \/ ExecuteRelations(s) /\ UNCHANGED page
           \/ UNCHANGED <<page, related>>
<1>1. job[s] # Idle /\ job = [t \in Sessions |-> job[t]]
  BY DEF Plans, Idle, IndInv, JobsOK
<1>2. ASSUME NEW t \in Sessions, NEW j, job' = [job EXCEPT ![t] = j] PROVE t = s
  BY <1>1, <1>2
<1>3. ASSUME NEW t \in Sessions, NEW j, Start(t, j) PROVE FALSE
  BY <1>1, <1>2, <1>3 DEF Start
<1>4. ASSUME NEW t \in Sessions, NEW j, Continue(t, j), job[t].kind \notin Plans PROVE FALSE
  BY <1>2, <1>4 DEF Continue
<1>5. ASSUME NEW t \in Sessions, EditStep(t) PROVE FALSE
  <2>1. ~WriteFile(t) /\ ~UpdateRow(t) /\ ~SaveFails(t)
    BY <1>4 DEF WriteFile, UpdateRow, SaveFails, Done, Doing, Plans
  <2>2. ~ClearRow(t) /\ ~Unlink(t) /\ ~ClearFails(t)
    BY <1>4 DEF ClearRow, Unlink, ClearFails, Done, Doing, Plans
  <2> QED
    BY <1>3, <1>5, <2>1, <2>2
    DEF EditStep, SaveNothing, BeginSave, BeginClear, MarkReviewed, Skip
<1>6. ASSUME NEW t \in Sessions, OcrStep(t) \/ ReprocessStep(t) PROVE FALSE
  <2>1. ~OcrDone(t) /\ ~OcrFails(t) /\ ~Reprocessed(t) /\ ~LongWorkFails(t)
    BY <1>4 DEF OcrDone, OcrFails, Reprocessed, LongWorkFails, Done, Doing, Plans
  <2> QED
    BY <1>3, <1>6, <2>1 DEF OcrStep, ReprocessStep, BeginOcr, BeginReprocess
<1>7. ASSUME NEW t \in Sessions, StatusBatchStep(t), UNCHANGED classes
      PROVE  Execute(s) \/ UNCHANGED <<page, related>>
  <2>1. Execute(t) => t = s
    BY <1>2 DEF Execute, Consume, Done, Continue
  <2>2. Abandon(t) => UNCHANGED page
    BY DEF Abandon
  <2> QED
    BY <1>3, <1>7, <2>1, <2>2 DEF StatusBatchStep, Plan, Pend, classes
<1>8. ASSUME NEW t \in Sessions, ClassStep(t) \/ RelationBatchStep(t)
      PROVE  ExecuteRelations(s)
  <2>1. ExecuteRelations(t) => t = s
    BY <1>2 DEF ExecuteRelations, Consume, Done, Continue
  <2> QED
    BY <1>3, <1>8, <2>1
    DEF ClassStep, RelationBatchStep, CreateTarget, DeleteTarget, Classify, PlanRelations, Pend
<1>9. Crash => UNCHANGED <<page, related>>
  BY DEF Crash, classes
<1> QED
  BY <1>5, <1>6, <1>7, <1>8, <1>9 DEF Next

LEMMA StatusesWritten ==
    ASSUME IndInv, NEW s \in Sessions, Execute(s)
    PROVE  StatusesAsPreviewed(s)
<1> SUFFICES ASSUME NEW p \in Pages, page'[p] # page[p]
             PROVE  /\ p \in job[s].pages
                    /\ page[p].stamp = job[s].snapshot[p][2]
                    /\ page[p].status \notin {"draft", "failed"}
  BY DEF StatusesAsPreviewed
<1>1. p \in job[s].pages
  BY DEF Execute
<1>2. job[s].snapshot[p] = <<page[p].status, page[p].stamp>>
  BY <1>1 DEF Execute, Fresh
<1>3. PlanOK(job[s])
  BY JobKinds DEF IndInv, JobsOK, Execute, Consume, Doing
<1>4. job[s].snapshot[p][1] \notin {"draft", "failed"}
  BY <1>1, <1>3 DEF PlanOK, Sources
<1> QED
  BY <1>1, <1>2, <1>4

LEMMA RelationsWritten ==
    ASSUME NEW s \in Sessions, ExecuteRelations(s)
    PROVE  RelationsAsPreviewed(s)
  BY DEF ExecuteRelations, SameRelations, RelationsAsPreviewed

(***************************************************************************)
(* A batch writes what its preview showed, as it showed it, whatever other *)
(* sessions write in between.                                              *)
(***************************************************************************)
THEOREM BatchesAreAsPreviewed == Spec => BatchAsPreviewed
<1> DEFINE Previewed ==
      \A s \in Sessions : job'[s] = Idle =>
          /\ Doing(s, "planned") => StatusesAsPreviewed(s)
          /\ Doing(s, "sorting") /\ related' # related => RelationsAsPreviewed(s)
<1>1. IndInv /\ [Next]_vars => [Previewed]_vars
  <2> SUFFICES ASSUME IndInv, Next, NEW s \in Sessions, job'[s] = Idle
               PROVE  /\ Doing(s, "planned") => StatusesAsPreviewed(s)
                      /\ Doing(s, "sorting") /\ related' # related => RelationsAsPreviewed(s)
    OBVIOUS
  <2>1. CASE Doing(s, "planned")
    <3>1. Execute(s) \/ UNCHANGED page
      BY <2>1, PlanGone DEF Doing, Plans
    <3> QED
      BY <2>1, <3>1, StatusesWritten DEF StatusesAsPreviewed, Doing
  <2>2. CASE Doing(s, "sorting") /\ related' # related
    <3>1. ExecuteRelations(s)
      BY <2>2, PlanGone DEF Doing, Plans, Execute, Consume
    <3> QED
      BY <2>2, <3>1, RelationsWritten DEF Doing
  <2> QED
    BY <2>1, <2>2
<1> QED
  BY <1>1, Invariance, PTL DEF Spec, BatchAsPreviewed
=============================================================================
