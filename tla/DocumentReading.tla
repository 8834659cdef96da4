---------------------------- MODULE DocumentReading ----------------------------
(***************************************************************************)
(* The page-by-page reading of one document by the Agent                   *)
(* (src/src/agent_document_reader.py), started from the import page or     *)
(* after a correction on the document page, in any session; and questions  *)
(* that are answered from what was read (src/src/agent/local_document.py). *)
(*                                                                         *)
(* A run reads all page rows once.  For each page it keeps the stored      *)
(* reading when that was made from the same text by the same model, or     *)
(* calls the model and replaces it; then it counts the page in the         *)
(* document's manifest.  It stops at the first page that fails.  A page    *)
(* may only be used in an answer while its current text is the one it was  *)
(* read from.  A question finds a page, fetches its reading, asks whether  *)
(* that page is ready, and has an answer made: four steps that a reading   *)
(* or an edit of another session can come between.                         *)
(***************************************************************************)
EXTENDS Naturals

CONSTANTS
    Sessions,
    PageCount,
    Texts,       \* what the text of a page can be
    NoText,      \* the page has no readable text
    Models,      \* completion models the settings may name
    None,        \* no reading, no manifest
    MaxAsks, MaxEdits, MaxCrashes, MaxFaults

ASSUME ReadingAssumption ==
    /\ PageCount \in Nat \ {0}
    /\ NoText \notin Texts /\ Models # {}
    /\ MaxAsks \in Nat /\ MaxEdits \in Nat /\ MaxCrashes \in Nat /\ MaxFaults \in Nat

Pages == 1..PageCount
PageText == Texts \cup {NoText}
Readings == [text : Texts, model : Models]
Hits == [page : Pages, text : PageText, view : Readings \cup {None}]
Manifests == [status : {"reading", "failed", "completed"}, read : 0..PageCount, model : Models]

ASSUME NoneAssumption == None \notin Readings /\ None \notin Manifests /\ None \notin Hits

VARIABLES
    text,      \* the text of each page row, with its correction
    reading,   \* the stored reading of each page
    manifest,  \* the stored state of the document
    model,     \* the model this process uses
    pc,
    source,    \* the texts of the page rows as the session's run read them
    at,        \* the page it is at
    told,      \* what the latest run of the session told its user
    hit,       \* the page a question found, its text then, the reading fetched for it
    answer,    \* the hit that the session's last answer was made from
    crossed,   \* ghost: a reading was saved after that one was fetched
    stale,     \* ghost: a text was edited since that run began
    met,       \* ghost: an older run on stale texts was under way when it began
    asks, edits, crashes, faults

stored == <<text, reading, manifest, model>>
asking == <<hit, answer, crossed, asks>>
vars == <<text, reading, manifest, model, pc, source, at, told, stale, met,
          hit, answer, crossed, asks, edits, crashes, faults>>

Fault == faults < MaxFaults /\ faults' = faults + 1
NoFault == UNCHANGED faults

(* AgentReadingStore.is_page_ready for the current text of the page. *)
Ready(p) == reading[p] # None /\ text[p] # NoText /\ reading[p].text = text[p]

(* What save_page_reading stores for the page session s is at. *)
NewReading(s) == [text |-> source[s][at[s]], model |-> model]

(* What save_document_state stores when session s has read n pages. *)
State(status, n) == [status |-> status, read |-> n, model |-> model]

Goto(s, phase) == pc' = [pc EXCEPT ![s] = phase]
Tell(s, news) == told' = [told EXCEPT ![s] = news]

-----------------------------------------------------------------------------
(***************************************************************************)
(* read_document                                                           *)
(***************************************************************************)

(* The page rows are read once; the manifest starts again at no page. *)
Begin(s) ==
    /\ pc[s] = "idle"
    /\ source' = [source EXCEPT ![s] = text]
    /\ at' = [at EXCEPT ![s] = 1]
    /\ manifest' = State("reading", 0)
    /\ Goto(s, "reading")
    /\ Tell(s, "none")
    /\ stale' = [stale EXCEPT ![s] = FALSE]
    /\ met' = [met EXCEPT ![s] = \E t \in Sessions \ {s} : pc[t] # "idle" /\ stale[t]]
    /\ UNCHANGED <<text, reading, model, edits, crashes, faults>>

BeginFails(s) ==
    /\ pc[s] = "idle"
    /\ Fault
    /\ Tell(s, "failed")
    /\ UNCHANGED <<stored, pc, source, at, stale, met, edits, crashes>>

(* Mutant: a stored reading is kept whatever text it was made from. *)
KeepByModel(s) == reading[at[s]] # None /\ reading[at[s]].model = model

(* The stored reading was made from this text by this model. *)
Keep(s) == reading[at[s]] = NewReading(s)

Reuse(s) ==
    /\ pc[s] = "reading"
    /\ source[s][at[s]] # NoText
    /\ Keep(s)
    /\ Goto(s, "counting")
    /\ UNCHANGED <<stored, source, at, told, stale, met, edits, crashes, faults>>

(* Mutant: the page is counted before its reading is stored. *)
CallCounted(s) ==
    /\ pc[s] = "reading"
    /\ source[s][at[s]] # NoText
    /\ ~Keep(s)
    /\ manifest' = State("reading", at[s])
    /\ Goto(s, "calling")
    /\ UNCHANGED <<text, reading, model, source, at, told, stale, met, edits, crashes, faults>>

Call(s) ==
    /\ pc[s] = "reading"
    /\ source[s][at[s]] # NoText
    /\ ~Keep(s)
    /\ Goto(s, "calling")
    /\ UNCHANGED <<stored, source, at, told, stale, met, edits, crashes, faults>>

(* The model has answered: os.replace of the reading, whatever is there. *)
SaveReading(s) ==
    /\ pc[s] = "calling"
    /\ reading' = [reading EXCEPT ![at[s]] = NewReading(s)]
    /\ crossed' = [t \in Sessions |-> crossed[t] \/ pc[t] = "checking"]
    /\ Goto(s, "counting")
    /\ UNCHANGED <<hit, answer, asks>>
    /\ UNCHANGED <<text, manifest, model, source, at, told, stale, met, edits, crashes, faults>>

Count(s) ==
    /\ pc[s] = "counting"
    /\ manifest' = State("reading", at[s])
    /\ IF at[s] < PageCount
       THEN Goto(s, "reading") /\ at' = [at EXCEPT ![s] = @ + 1]
       ELSE Goto(s, "closing") /\ UNCHANGED at
    /\ UNCHANGED <<text, reading, model, source, told, stale, met, edits, crashes, faults>>

(* Mutant: a page that fails is skipped. *)
PageSkipped(s) ==
    /\ \/ pc[s] = "reading" /\ source[s][at[s]] = NoText /\ NoFault
       \/ pc[s] \in {"reading", "calling", "counting"} /\ Fault
    /\ Goto(s, "counting")
    /\ UNCHANGED <<stored, source, at, told, stale, met, edits, crashes>>

(* No text, no usable answer, or a file that cannot be written: the run ends
   here.  The manifest counts the pages that have their reading, unless it
   cannot be written either. *)
PageFails(s) ==
    LET failed == State("failed", IF pc[s] = "counting" THEN at[s] ELSE at[s] - 1)
    IN  /\ \/ /\ pc[s] = "reading" /\ source[s][at[s]] = NoText
              /\ NoFault /\ manifest' = failed
           \/ /\ pc[s] \in {"reading", "calling", "counting"}
              /\ Fault /\ manifest' \in {manifest, failed}
        /\ Goto(s, "idle")
        /\ Tell(s, "failed")
        /\ UNCHANGED <<text, reading, model, source, at, stale, met, edits, crashes>>

Complete(s) ==
    /\ pc[s] = "closing"
    /\ manifest' = State("completed", PageCount)
    /\ Goto(s, "idle")
    /\ Tell(s, "read")
    /\ UNCHANGED <<text, reading, model, source, at, stale, met, edits, crashes, faults>>

CompleteFails(s) ==
    /\ pc[s] = "closing"
    /\ Fault
    /\ Goto(s, "idle")
    /\ Tell(s, "failed")
    /\ UNCHANGED <<stored, source, at, stale, met, edits, crashes>>

(* The user clicks elsewhere: the page that the progress callback draws on
   ends the script, which is no Exception, after a page was counted. *)
Stop(s) ==
    /\ pc[s] = "closing" \/ (pc[s] = "reading" /\ at[s] > 1)
    /\ crashes < MaxCrashes
    /\ crashes' = crashes + 1
    /\ Goto(s, "idle")
    /\ UNCHANGED <<stored, source, at, told, stale, met, edits, faults>>

-----------------------------------------------------------------------------
(***************************************************************************)
(* ask: one decision, one search of the pages, one answer.                 *)
(***************************************************************************)
Forget(s) == hit' = [hit EXCEPT ![s] = None]
Untouched == UNCHANGED <<stored, source, at, told, stale, met, edits, crashes, faults>>

Ask(s) ==
    /\ pc[s] = "idle"
    /\ asks < MaxAsks
    /\ asks' = asks + 1
    /\ Goto(s, "searching")
    /\ answer' = [answer EXCEPT ![s] = None]
    /\ UNCHANGED <<hit, crossed>>
    /\ Untouched

(* One query: the row of a page with its text. *)
Search(s, p) ==
    /\ pc[s] = "searching"
    /\ hit' = [hit EXCEPT ![s] = [page |-> p, text |-> text[p], view |-> None]]
    /\ crossed' = [crossed EXCEPT ![s] = FALSE]
    /\ Goto(s, "looking")
    /\ UNCHANGED <<answer, asks>>
    /\ Untouched

(* page_reading: its summary and key facts go to the answer. *)
Look(s) ==
    /\ pc[s] = "looking"
    /\ hit' = [hit EXCEPT ![s].view = reading[hit[s].page]]
    /\ Goto(s, "checking")
    /\ UNCHANGED <<answer, crossed, asks>>
    /\ Untouched

(* Mutant: that there is a reading is enough. *)
UsableIfRead(h) == reading[h.page] # None

(* is_page_ready, which fetches the reading once more. *)
Usable(h) ==
    h.text # NoText /\ reading[h.page] # None /\ reading[h.page].text = h.text

Check(s) ==
    /\ pc[s] = "checking"
    /\ Usable(hit[s])
    /\ Goto(s, "answering")
    /\ UNCHANGED asking
    /\ Untouched

(* The page is left out; nothing remains to answer from. *)
NoEvidence(s) ==
    /\ pc[s] = "checking"
    /\ ~Usable(hit[s])
    /\ Goto(s, "idle")
    /\ Forget(s)
    /\ UNCHANGED <<answer, crossed, asks>>
    /\ Untouched

Answer(s) ==
    /\ pc[s] = "answering"
    /\ answer' = [answer EXCEPT ![s] = hit[s]]
    /\ Goto(s, "idle")
    /\ Forget(s)
    /\ UNCHANGED <<crossed, asks>>
    /\ Untouched

(* The decision, the search or the answer fails, or names no tool or no page. *)
AskFails(s) ==
    /\ pc[s] \in {"searching", "looking", "checking", "answering"}
    /\ Goto(s, "idle")
    /\ Forget(s)
    /\ UNCHANGED <<answer, crossed, asks>>
    /\ Untouched

-----------------------------------------------------------------------------
(* A correction, a recognition or a reprocessing gives a page another text;
   nothing keeps a session from doing it while another one reads. *)
Edit(s, p, t) ==
    /\ edits < MaxEdits
    /\ edits' = edits + 1
    /\ pc[s] = "idle"
    /\ t # text[p]
    /\ text' = [text EXCEPT ![p] = t]
    /\ stale' = [x \in Sessions |-> TRUE]
    /\ UNCHANGED <<reading, manifest, model, pc, source, at, told, met, crashes, faults>>

(* The process ends, and starts again with the model its settings name. *)
Restart ==
    /\ crashes < MaxCrashes
    /\ crashes' = crashes + 1
    /\ model' \in Models
    /\ pc' = [s \in Sessions |-> "idle"]
    /\ told' = [s \in Sessions |-> "none"]
    /\ hit' = [s \in Sessions |-> None]
    /\ answer' = [s \in Sessions |-> None]
    /\ UNCHANGED <<crossed, asks>>
    /\ UNCHANGED <<text, reading, manifest, source, at, stale, met, edits, faults>>

Init ==
    /\ text \in [Pages -> PageText]
    /\ reading = [p \in Pages |-> None]
    /\ manifest = None
    /\ model \in Models
    /\ pc = [s \in Sessions |-> "idle"]
    /\ source = [s \in Sessions |-> text]
    /\ at = [s \in Sessions |-> 1]
    /\ told = [s \in Sessions |-> "none"]
    /\ stale = [s \in Sessions |-> FALSE]
    /\ met = [s \in Sessions |-> FALSE]
    /\ hit = [s \in Sessions |-> None]
    /\ answer = [s \in Sessions |-> None]
    /\ crossed = [s \in Sessions |-> FALSE]
    /\ asks \in 0..MaxAsks /\ edits = 0
    /\ crashes \in 0..MaxCrashes /\ faults \in 0..MaxFaults

Work(s) ==
    \/ /\ \/ Reuse(s) \/ Call(s) \/ Count(s) \/ PageFails(s)
          \/ Complete(s) \/ CompleteFails(s)
       /\ UNCHANGED asking
    \/ SaveReading(s)

Asking(s) ==
    \/ Look(s) \/ Check(s) \/ NoEvidence(s) \/ Answer(s) \/ AskFails(s)
    \/ \E p \in Pages : Search(s, p)

Next ==
    \/ \E s \in Sessions :
          \/ Work(s) \/ Ask(s) \/ Asking(s)
          \/ /\ \/ Begin(s) \/ BeginFails(s) \/ Stop(s)
                \/ \E p \in Pages, t \in PageText : Edit(s, p, t)
             /\ UNCHANGED asking
    \/ Restart

Spec == Init /\ [][Next]_vars

(* A run and a question go on to their end or to a failure, and the user asks
   for a reading again.  Questions, edits, errors, restarts and interruptions
   are bounded, hence end. *)
Fairness ==
    /\ \A s \in Sessions : WF_vars(Work(s))
    /\ \A s \in Sessions : WF_vars(Asking(s))
    /\ WF_vars(\E s \in Sessions : Begin(s) /\ UNCHANGED asking)

-----------------------------------------------------------------------------
TypeOK ==
    /\ text \in [Pages -> PageText]
    /\ reading \in [Pages -> Readings \cup {None}]
    /\ manifest \in Manifests \cup {None}
    /\ model \in Models
    /\ pc \in [Sessions -> {"idle", "reading", "calling", "counting", "closing",
                        "searching", "looking", "checking", "answering"}]
    /\ source \in [Sessions -> [Pages -> PageText]]
    /\ at \in [Sessions -> Pages]
    /\ told \in [Sessions -> {"none", "read", "failed"}]
    /\ stale \in [Sessions -> BOOLEAN] /\ met \in [Sessions -> BOOLEAN]
    /\ hit \in [Sessions -> Hits \cup {None}]
    /\ answer \in [Sessions -> Hits \cup {None}]
    /\ crossed \in [Sessions -> BOOLEAN]
    /\ asks \in 0..MaxAsks /\ edits \in 0..MaxEdits
    /\ crashes \in 0..MaxCrashes /\ faults \in 0..MaxFaults

(***************************************************************************)
(* A user who is told that the document is read, and has edited nothing    *)
(* since that run began, can ask about every page of it: no error, restart *)
(* or other run in between leaves a page that is silently not used.  The   *)
(* one exception is a run that read the pages before the edit and is still *)
(* under way when the new run begins.                                      *)
(***************************************************************************)
ReadMeansReady ==
    \A s \in Sessions :
        told[s] = "read" /\ ~stale[s] /\ ~met[s] => \A p \in Pages : Ready(p)

(***************************************************************************)
(* "修改已保存，Agent 也重新读完了。" (src/pages/17_我的资料.py:232),     *)
(* without that exception.  It does not hold (README, section 3).          *)
(***************************************************************************)
RereadMeansReady ==
    \A s \in Sessions : told[s] = "read" /\ ~stale[s] => \A p \in Pages : Ready(p)

(***************************************************************************)
(* Every page the manifest counts has a stored reading by the model that   *)
(* the manifest names, across restarts, changes of the model and runs that *)
(* overlap (scripts/run_conflict_agent_audit.py:168-181 relies on it).     *)
(***************************************************************************)
ProgressIsSaved ==
    manifest # None =>
        \A p \in 1..manifest.read : reading[p] # None /\ reading[p].model = manifest.model

(***************************************************************************)
(* An answer is made "using only fresh pages the Agent has read"           *)
(* (src/src/agent/local_document.py:93): the summary and key facts that go *)
(* with a page are those of the text that goes with it, whatever was       *)
(* edited, read or restarted since.  Readiness is asked of the store once  *)
(* more after the reading was fetched; only a reading that is saved just   *)
(* between can make the two differ.                                        *)
(***************************************************************************)
AnswersFromRead ==
    \A s \in Sessions : answer[s] # None /\ ~crossed[s] =>
        answer[s].view # None /\ answer[s].view.text = answer[s].text

(***************************************************************************)
(* As long as a reading is asked for again, every page becomes ready that  *)
(* has text and has no page without text before it, and stays so: what an  *)
(* error, a restart or an older run undoes is done again.                  *)
(***************************************************************************)
ReadUpToTheGap ==
    \A p \in Pages : <>[]((\A q \in 1..p : text[q] # NoText) => Ready(p))
=============================================================================
