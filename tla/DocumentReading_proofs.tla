------------------------ MODULE DocumentReading_proofs ------------------------
(***************************************************************************)
(* What holds of the reading of a document, and of the answers made from   *)
(* it, for every value of the constants of DocumentReading: any number of  *)
(* sessions, pages, texts and models, edits, errors and restarts.          *)
(***************************************************************************)
EXTENDS DocumentReading, TLAPS

-----------------------------------------------------------------------------
(* The inductive invariant.                                                *)

Running == {"reading", "calling", "counting", "closing"}
Questioning == {"searching", "looking", "checking", "answering"}

\* The pages whose reading the run of s has seen stored.
Counted(s) == {p \in Pages : p < at[s] \/ (pc[s] \in {"counting", "closing"} /\ p = at[s])}

\* Who has seen no edit since its run began read the texts that are stored.
SourceIsText == \A s \in Sessions : ~stale[s] => source[s] = text

\* An older run on stale texts is over when a later one begins, or it was met.
NoOldRun ==
    \A s, t \in Sessions : ~stale[s] /\ ~met[s] /\ pc[t] \in Running => ~stale[t]

\* Only a page with text is read, and the last page is the last to be counted.
AtIsRead ==
    \A s \in Sessions :
        /\ pc[s] = "calling" => source[s][at[s]] # NoText
        /\ pc[s] = "closing" => at[s] = PageCount

\* While a run is under way the manifest names the model in use, and so do the
\* readings the run has counted, whoever stored them.
RunIsSaved ==
    \A s \in Sessions : pc[s] \in Running =>
        /\ manifest # None /\ manifest.model = model
        /\ \A p \in Counted(s) : reading[p] # None /\ reading[p].model = model

RunIsReady ==
    \A s \in Sessions : pc[s] \in Running /\ ~stale[s] /\ ~met[s] =>
        \A p \in Counted(s) : Ready(p)

ReadingInv ==
    /\ SourceIsText /\ NoOldRun /\ AtIsRead /\ RunIsSaved /\ RunIsReady
    /\ ReadMeansReady /\ ProgressIsSaved

\* What a question holds at each of its steps, if no reading crossed it.
HitIsRead ==
    \A s \in Sessions :
        /\ pc[s] \in Questioning => answer[s] = None
        /\ pc[s] \in {"looking", "checking", "answering"} => hit[s] # None
        /\ pc[s] = "checking" /\ ~crossed[s] => hit[s].view = reading[hit[s].page]
        /\ pc[s] = "answering" /\ ~crossed[s] =>
              hit[s].view # None /\ hit[s].view.text = hit[s].text

AskingInv == HitIsRead /\ AnswersFromRead

IndInv == TypeOK /\ ReadingInv /\ AskingInv

-----------------------------------------------------------------------------
(***************************************************************************)
(* Types.                                                                  *)
(***************************************************************************)
LEMMA StateTyped ==
    ASSUME ReadingAssumption, TypeOK, NEW s \in Sessions,
           NEW status \in {"reading", "failed", "completed"}, NEW n \in 0..PageCount
    PROVE  State(status, n) \in Manifests
  BY DEF State, Manifests, TypeOK

(***************************************************************************)
(* An error is one of those that are allowed.                              *)
(***************************************************************************)
LEMMA FaultTyped ==
    ASSUME ReadingAssumption, TypeOK, UNCHANGED faults \/ Fault
    PROVE  faults' \in 0..MaxFaults
  BY DEF Fault, TypeOK, ReadingAssumption

(***************************************************************************)
(* The steps of a run: what is stored is a reading of a text, and the      *)
(* manifest counts pages of the document.                                  *)
(***************************************************************************)
LEMMA WorkTyped ==
    ASSUME ReadingAssumption, TypeOK, AtIsRead, NEW s \in Sessions, Work(s)
    PROVE  TypeOK'
<1>1. at[s] \in 1..PageCount /\ at[s] \in 0..PageCount /\ at[s] - 1 \in 0..PageCount
  BY DEF TypeOK, Pages, ReadingAssumption
<1>2. CASE Reuse(s) /\ UNCHANGED asking
  BY <1>2 DEF Reuse, Goto, asking, stored, TypeOK
<1>3. CASE Call(s) /\ UNCHANGED asking
  BY <1>3 DEF Call, Goto, asking, stored, TypeOK
<1>4. CASE SaveReading(s)
  <2>1. NewReading(s) \in Readings
    BY <1>4 DEF SaveReading, AtIsRead, NewReading, Readings, TypeOK, PageText
  <2> QED
    BY <1>4, <2>1 DEF SaveReading, Goto, TypeOK
<1>5. CASE Count(s) /\ UNCHANGED asking
  <2>1. manifest' \in Manifests
    BY <1>1, <1>5, StateTyped DEF Count
  <2>2. at' \in [Sessions -> Pages]
    <3>1. at[s] < PageCount => at[s] + 1 \in Pages
      BY <1>1 DEF Pages, ReadingAssumption
    <3> QED
      BY <1>5, <3>1 DEF Count, TypeOK
  <2> QED
    BY <1>5, <2>1, <2>2 DEF Count, Goto, asking, TypeOK
<1>6. CASE PageFails(s) /\ UNCHANGED asking
  <2>1. manifest' \in Manifests \cup {None}
    <3>1. \A n \in 0..PageCount : State("failed", n) \in Manifests
      BY StateTyped
    <3>2. State("failed", at[s]) \in Manifests /\ State("failed", at[s] - 1) \in Manifests
      BY <1>1, <3>1
    <3> QED
      BY <1>6, <3>2 DEF PageFails, TypeOK
  <2>2. faults' \in 0..MaxFaults
    BY <1>6, FaultTyped DEF PageFails, NoFault
  <2> QED
    BY <1>6, <2>1, <2>2 DEF PageFails, Goto, Tell, asking, TypeOK
<1>7. CASE Complete(s) /\ UNCHANGED asking
  BY <1>7, StateTyped DEF Complete, Goto, Tell, asking, TypeOK, ReadingAssumption
<1>8. CASE CompleteFails(s) /\ UNCHANGED asking
  BY <1>8, FaultTyped DEF CompleteFails, Goto, Tell, asking, stored, TypeOK
<1> QED
  BY <1>2, <1>3, <1>4, <1>5, <1>6, <1>7, <1>8 DEF Work

(***************************************************************************)
(* The steps of a question.                                                *)
(***************************************************************************)
LEMMA AskTyped ==
    ASSUME ReadingAssumption, NoneAssumption, TypeOK, HitIsRead, NEW s \in Sessions,
           Ask(s) \/ Asking(s)
    PROVE  TypeOK'
<1>1. CASE Ask(s)
  BY <1>1 DEF Ask, Goto, Untouched, stored, TypeOK, ReadingAssumption
<1>2. CASE Asking(s)
  <2>1. UNCHANGED <<text, reading, manifest, model, source, at, told, stale, met, edits, crashes, faults,
                    asks>>
    BY <1>2 DEF Asking, Search, Look, Check, NoEvidence, Answer, AskFails, Untouched, stored, asking
  <2>2. pc' \in [Sessions -> {"idle", "reading", "calling", "counting", "closing",
                              "searching", "looking", "checking", "answering"}]
    <3>1. \E x \in {"idle", "looking", "checking", "answering"} : Goto(s, x)
      BY <1>2 DEF Asking, Search, Look, Check, NoEvidence, Answer, AskFails
    <3> QED
      BY <3>1 DEF Goto, TypeOK
  <2>3. answer' \in [Sessions -> Hits \cup {None}] /\ crossed' \in [Sessions -> BOOLEAN]
    BY <1>2 DEF Asking, Search, Look, Check, NoEvidence, Answer, AskFails, asking, TypeOK
  <2>4. hit' \in [Sessions -> Hits \cup {None}]
    <3>1. CASE Look(s)
      <4>1. hit[s] \in Hits /\ reading[hit[s].page] \in Readings \cup {None}
        BY <3>1 DEF Look, HitIsRead, TypeOK, Hits
      <4>2. [hit[s] EXCEPT !.view = reading[hit[s].page]] \in Hits
        BY <4>1 DEF Hits
      <4> QED
        BY <3>1, <4>2 DEF Look, TypeOK
    <3>2. ASSUME NEW p \in Pages, Search(s, p) PROVE hit' \in [Sessions -> Hits \cup {None}]
      BY <3>2 DEF Search, TypeOK, Hits
    <3> QED
      BY <1>2, <3>1, <3>2 DEF Asking, Check, NoEvidence, Answer, AskFails, Forget, asking, TypeOK
  <2> QED
    BY <2>1, <2>2, <2>3, <2>4 DEF TypeOK
<1> QED
  BY <1>1, <1>2

(***************************************************************************)
(* Every step.                                                             *)
(***************************************************************************)
LEMMA Typed ==
    ASSUME ReadingAssumption, NoneAssumption, TypeOK, AtIsRead, HitIsRead, [Next]_vars
    PROVE  TypeOK'
<1>1. ASSUME NEW s \in Sessions, Begin(s), UNCHANGED asking PROVE TypeOK'
  BY <1>1, StateTyped DEF Begin, Goto, Tell, asking, TypeOK, Pages, ReadingAssumption
<1>2. ASSUME NEW s \in Sessions, BeginFails(s) \/ Stop(s), UNCHANGED asking PROVE TypeOK'
  <2>1. faults' \in 0..MaxFaults
    BY <1>2, FaultTyped DEF BeginFails, Stop
  <2>2. crashes' \in 0..MaxCrashes
    BY <1>2 DEF BeginFails, Stop, TypeOK, ReadingAssumption
  <2> QED
    BY <1>2, <2>1, <2>2 DEF BeginFails, Stop, Goto, Tell, asking, stored, TypeOK
<1>3. ASSUME NEW s \in Sessions, NEW p \in Pages, NEW t \in PageText, Edit(s, p, t), UNCHANGED asking
      PROVE  TypeOK'
  BY <1>3 DEF Edit, asking, TypeOK, ReadingAssumption
<1>4. CASE Restart
  BY <1>4 DEF Restart, TypeOK, ReadingAssumption
<1>5. CASE UNCHANGED vars
  BY <1>5 DEF vars, TypeOK
<1> QED
  BY <1>1, <1>2, <1>3, <1>4, <1>5, WorkTyped, AskTyped DEF Next

-----------------------------------------------------------------------------
(***************************************************************************)
(* The reading part of the invariant: every step either stands aside from  *)
(* it or is one of a run, an edit, or a restart.                           *)
(***************************************************************************)
LEMMA AsideKeeps ==
    ASSUME TypeOK, ReadingInv, UNCHANGED <<stored, source, at, stale, met>>,
           \A s \in Sessions : pc'[s] \in Running => pc'[s] = pc[s],
           \A s \in Sessions : told'[s] = "read" => told[s] = "read"
    PROVE  ReadingInv'
<1>1. UNCHANGED <<text, reading, manifest, model, source, at, stale, met>>
  BY DEF stored
<1>2. SourceIsText' /\ NoOldRun' /\ AtIsRead'
  BY <1>1 DEF ReadingInv, SourceIsText, NoOldRun, AtIsRead, Running
<1>3. \A s \in Sessions : pc'[s] \in Running => Counted(s)' = Counted(s)
  BY <1>1 DEF Counted
<1>4. RunIsSaved' /\ RunIsReady'
  BY <1>1, <1>3 DEF ReadingInv, RunIsSaved, RunIsReady, Ready
<1>5. ReadMeansReady' /\ ProgressIsSaved'
  BY <1>1 DEF ReadingInv, ReadMeansReady, ProgressIsSaved, Ready
<1> QED
  BY <1>2, <1>4, <1>5 DEF ReadingInv

(***************************************************************************)
(* A run begins with no page counted, on the stored texts, and with the    *)
(* model in use.                                                           *)
(***************************************************************************)
LEMMA BeginKeeps ==
    ASSUME ReadingAssumption, NoneAssumption, TypeOK, ReadingInv, NEW s \in Sessions, Begin(s)
    PROVE  ReadingInv'
<1>1. /\ UNCHANGED <<text, reading, model>>
      /\ manifest' = State("reading", 0)
      /\ pc' = [pc EXCEPT ![s] = "reading"] /\ at' = [at EXCEPT ![s] = 1]
      /\ source' = [source EXCEPT ![s] = text] /\ stale' = [stale EXCEPT ![s] = FALSE]
      /\ met' = [met EXCEPT ![s] = \E t \in Sessions \ {s} : pc[t] # "idle" /\ stale[t]]
      /\ told' = [told EXCEPT ![s] = "none"]
  BY DEF Begin, Goto, Tell
<1>2. SourceIsText' /\ AtIsRead'
  BY <1>1 DEF ReadingInv, SourceIsText, AtIsRead, TypeOK
<1>3. NoOldRun'
  BY <1>1 DEF ReadingInv, NoOldRun, TypeOK, Running
<1>4. manifest' \in Manifests /\ manifest'.model = model /\ manifest'.read = 0
  BY <1>1, StateTyped DEF State, ReadingAssumption
<1>5. Counted(s)' = {}
  BY <1>1 DEF Counted, TypeOK, Pages, ReadingAssumption
<1>6. \A t \in Sessions \ {s} : Counted(t)' = Counted(t) /\ pc'[t] = pc[t]
  BY <1>1 DEF Counted, TypeOK
<1>7. RunIsSaved'
  BY <1>1, <1>4, <1>5, <1>6, NoneAssumption DEF ReadingInv, RunIsSaved
<1>8. RunIsReady'
  BY <1>1, <1>5, <1>6 DEF ReadingInv, RunIsReady, Ready, TypeOK
<1>9. ReadMeansReady'
  BY <1>1 DEF ReadingInv, ReadMeansReady, Ready, TypeOK
<1>10. ProgressIsSaved'
  BY <1>4 DEF ProgressIsSaved
<1> QED
  BY <1>2, <1>3, <1>7, <1>8, <1>9, <1>10 DEF ReadingInv

(***************************************************************************)
(* The manifest is written again by a run: it counts no page the run has   *)
(* not counted.                                                            *)
(***************************************************************************)
LEMMA ProgressKeeps ==
    ASSUME ReadingAssumption, NoneAssumption, TypeOK, ReadingInv, NEW s \in Sessions,
           pc[s] \in Running, NEW status \in {"reading", "failed", "completed"},
           NEW n \in 0..PageCount, \A p \in 1..n : p \in Counted(s),
           manifest' = State(status, n), UNCHANGED <<reading, model>>
    PROVE  ProgressIsSaved' /\ manifest' # None /\ manifest'.model = model
<1>1. manifest' \in Manifests /\ manifest'.model = model /\ manifest'.read = n
  BY StateTyped DEF State
<1>2. \A p \in 1..n : reading[p] # None /\ reading[p].model = model
  BY DEF ReadingInv, RunIsSaved
<1> QED
  BY <1>1, <1>2, NoneAssumption DEF ProgressIsSaved

(***************************************************************************)
(* A kept reading was made from the text and by the model of the run; so   *)
(* is a new one.                                                           *)
(***************************************************************************)
LEMMA StoredReading ==
    ASSUME NoneAssumption, TypeOK, NEW s \in Sessions, source[s][at[s]] # NoText
    PROVE  /\ NewReading(s) \in Readings /\ NewReading(s) # None
           /\ NewReading(s).text = source[s][at[s]] /\ NewReading(s).model = model
  BY DEF NewReading, Readings, TypeOK, PageText

(***************************************************************************)
(* A run that keeps a reading may count its page.                          *)
(***************************************************************************)
LEMMA ReuseKeeps ==
    ASSUME ReadingAssumption, NoneAssumption, TypeOK, ReadingInv, NEW s \in Sessions, Reuse(s)
    PROVE  ReadingInv'
<1>1. /\ UNCHANGED <<text, reading, manifest, model, source, at, told, stale, met>>
      /\ pc[s] = "reading" /\ pc' = [pc EXCEPT ![s] = "counting"]
      /\ source[s][at[s]] # NoText /\ reading[at[s]] = NewReading(s)
  BY DEF Reuse, Keep, Goto, stored
<1>2. SourceIsText' /\ NoOldRun' /\ AtIsRead' /\ ReadMeansReady' /\ ProgressIsSaved'
  BY <1>1 DEF ReadingInv, SourceIsText, NoOldRun, AtIsRead, ReadMeansReady, ProgressIsSaved,
              Ready, Running, TypeOK
<1>3. \A t \in Sessions : pc'[t] \in Running => pc[t] \in Running
  BY <1>1 DEF TypeOK, Running
<1>4. \A p \in Counted(s)' : p \in Counted(s) \/ p = at[s]
  BY <1>1 DEF Counted, TypeOK
<1>5. \A t \in Sessions \ {s} : Counted(t)' = Counted(t)
  BY <1>1 DEF Counted, TypeOK
<1>6. RunIsSaved'
  BY <1>1, <1>3, <1>4, <1>5, StoredReading DEF ReadingInv, RunIsSaved
<1>7. ~stale[s] => Ready(at[s])
  BY <1>1, StoredReading DEF ReadingInv, SourceIsText, Ready
<1>8. RunIsReady'
  BY <1>1, <1>3, <1>4, <1>5, <1>7 DEF ReadingInv, RunIsReady, Ready
<1> QED
  BY <1>2, <1>6, <1>8 DEF ReadingInv

(***************************************************************************)
(* A call of the model is on a page with text.                             *)
(***************************************************************************)
LEMMA CallKeeps ==
    ASSUME TypeOK, ReadingInv, NEW s \in Sessions, Call(s)
    PROVE  ReadingInv'
<1>1. /\ UNCHANGED <<text, reading, manifest, model, source, at, told, stale, met>>
      /\ pc[s] = "reading" /\ pc' = [pc EXCEPT ![s] = "calling"]
      /\ source[s][at[s]] # NoText
  BY DEF Call, Goto, stored
<1>2. SourceIsText' /\ NoOldRun' /\ AtIsRead' /\ ReadMeansReady' /\ ProgressIsSaved'
  BY <1>1 DEF ReadingInv, SourceIsText, NoOldRun, AtIsRead, ReadMeansReady, ProgressIsSaved,
              Ready, Running, TypeOK
<1>3. \A t \in Sessions : /\ pc'[t] \in Running => pc[t] \in Running
                          /\ Counted(t)' = Counted(t)
  BY <1>1 DEF TypeOK, Running, Counted
<1>4. RunIsSaved' /\ RunIsReady'
  BY <1>1, <1>3 DEF ReadingInv, RunIsSaved, RunIsReady, Ready
<1> QED
  BY <1>2, <1>4 DEF ReadingInv

(***************************************************************************)
(* A saved reading replaces whatever is there, and another session may     *)
(* have counted that page: the one it finds is by the same model, and of   *)
(* the same text unless the run that saves it is an old one.               *)
(***************************************************************************)
LEMMA SaveKeeps ==
    ASSUME ReadingAssumption, NoneAssumption, TypeOK, ReadingInv, NEW s \in Sessions, SaveReading(s)
    PROVE  ReadingInv'
<1>1. /\ UNCHANGED <<text, manifest, model, source, at, told, stale, met>>
      /\ pc[s] = "calling" /\ pc' = [pc EXCEPT ![s] = "counting"]
      /\ source[s][at[s]] # NoText /\ at[s] \in Pages
      /\ reading' = [reading EXCEPT ![at[s]] = NewReading(s)]
  BY DEF SaveReading, Goto, ReadingInv, AtIsRead, TypeOK
<1>2. /\ reading'[at[s]] = NewReading(s) /\ reading'[at[s]] # None
      /\ reading'[at[s]].text = source[s][at[s]] /\ reading'[at[s]].model = model
      /\ \A p \in Pages \ {at[s]} : reading'[p] = reading[p]
  BY <1>1, StoredReading DEF TypeOK
<1>3. SourceIsText' /\ NoOldRun' /\ AtIsRead'
  BY <1>1 DEF ReadingInv, SourceIsText, NoOldRun, AtIsRead, Running, TypeOK
<1>4. /\ \A t \in Sessions : pc'[t] \in Running => pc[t] \in Running
      /\ \A t \in Sessions \ {s} : Counted(t)' = Counted(t)
      /\ \A p \in Counted(s)' : p \in Counted(s) \/ p = at[s]
      /\ \A t \in Sessions : Counted(t) \subseteq Pages
  BY <1>1 DEF TypeOK, Running, Counted
<1>5. RunIsSaved'
  <2>1. \A p \in Pages : (p = at[s] \/ (reading[p] # None /\ reading[p].model = model))
                            => reading'[p] # None /\ reading'[p].model = model
    BY <1>2
  <2> QED
    BY <1>1, <1>4, <2>1 DEF ReadingInv, RunIsSaved
<1>6. ProgressIsSaved'
  <2>1. manifest # None /\ manifest.model = model
    BY <1>1 DEF ReadingInv, RunIsSaved, Running
  <2>2. \A p \in 1..manifest.read : p \in Pages
    BY <2>1 DEF TypeOK, Manifests, Pages, ReadingAssumption
  <2> QED
    BY <1>1, <1>2, <2>1, <2>2 DEF ReadingInv, ProgressIsSaved
<1>7. ASSUME NEW t \in Sessions, ~stale[t], ~met[t], NEW p \in Pages, Ready(p) \/ p = at[s]
      PROVE  Ready(p)'
  <2>1. ~stale[s]
    BY <1>1, <1>7 DEF ReadingInv, NoOldRun, Running
  <2>2. source[s] = text
    BY <2>1 DEF ReadingInv, SourceIsText
  <2> QED
    BY <1>1, <1>2, <1>7, <2>2 DEF Ready
<1>8. RunIsReady'
  BY <1>1, <1>4, <1>7 DEF ReadingInv, RunIsReady
<1>9. ReadMeansReady'
  BY <1>1, <1>7 DEF ReadingInv, ReadMeansReady
<1> QED
  BY <1>3, <1>5, <1>6, <1>8, <1>9 DEF ReadingInv

(***************************************************************************)
(* A page is counted after its reading is stored.                          *)
(***************************************************************************)
LEMMA CountKeeps ==
    ASSUME ReadingAssumption, NoneAssumption, TypeOK, ReadingInv, NEW s \in Sessions, Count(s)
    PROVE  ReadingInv'
<1>1. /\ UNCHANGED <<text, reading, model, source, told, stale, met>>
      /\ pc[s] = "counting" /\ manifest' = State("reading", at[s])
      /\ \/ /\ at[s] < PageCount /\ pc' = [pc EXCEPT ![s] = "reading"]
            /\ at' = [at EXCEPT ![s] = at[s] + 1]
         \/ at[s] = PageCount /\ pc' = [pc EXCEPT ![s] = "closing"] /\ at' = at
  BY DEF Count, Goto, TypeOK, Pages, ReadingAssumption
<1>2. at[s] \in 0..PageCount /\ \A p \in 1..at[s] : p \in Counted(s)
  BY <1>1 DEF Counted, TypeOK, Pages, ReadingAssumption
<1>3. ProgressIsSaved' /\ manifest' # None /\ manifest'.model = model
  BY <1>1, <1>2, ProgressKeeps DEF Running
<1>4. SourceIsText' /\ NoOldRun' /\ AtIsRead' /\ ReadMeansReady'
  BY <1>1 DEF ReadingInv, SourceIsText, NoOldRun, AtIsRead, ReadMeansReady, Ready, Running, TypeOK
<1>5. \A t \in Sessions : pc'[t] \in Running => pc[t] \in Running
  BY <1>1 DEF TypeOK, Running
<1>6. \A t \in Sessions \ {s} : Counted(t)' = Counted(t)
  BY <1>1 DEF Counted, TypeOK
<1>7. Counted(s)' \subseteq Counted(s)
  BY <1>1 DEF Counted, TypeOK, Pages, ReadingAssumption
<1>8. RunIsSaved' /\ RunIsReady'
  BY <1>1, <1>3, <1>5, <1>6, <1>7 DEF ReadingInv, RunIsSaved, RunIsReady, Ready
<1> QED
  BY <1>3, <1>4, <1>8 DEF ReadingInv

(***************************************************************************)
(* A run ends, with or without the manifest saying so.                     *)
(***************************************************************************)
LEMMA EndKeeps ==
    ASSUME ReadingAssumption, NoneAssumption, TypeOK, ReadingInv, NEW s \in Sessions,
           UNCHANGED <<text, reading, model, source, at, stale, met>>,
           pc' = [pc EXCEPT ![s] = "idle"], NEW news \in {"read", "failed"},
           told' = [told EXCEPT ![s] = news],
           news = "read" /\ ~stale[s] /\ ~met[s] => \A p \in Pages : Ready(p),
           UNCHANGED manifest \/ (ProgressIsSaved' /\ manifest' # None /\ manifest'.model = model)
    PROVE  ReadingInv'
<1>1. SourceIsText' /\ NoOldRun' /\ AtIsRead'
  BY DEF ReadingInv, SourceIsText, NoOldRun, AtIsRead, Running, TypeOK
<1>2. \A t \in Sessions : pc'[t] \in Running => pc[t] \in Running /\ Counted(t)' = Counted(t)
  BY DEF TypeOK, Running, Counted
<1>3. RunIsSaved' /\ RunIsReady'
  BY <1>2 DEF ReadingInv, RunIsSaved, RunIsReady, Ready
<1>4. ReadMeansReady'
  BY DEF ReadingInv, ReadMeansReady, Ready, TypeOK
<1>5. ProgressIsSaved'
  BY DEF ReadingInv, ProgressIsSaved
<1> QED
  BY <1>1, <1>3, <1>4, <1>5 DEF ReadingInv

(***************************************************************************)
(* A run that fails counts the page it failed at only if its reading is    *)
(* stored.                                                                 *)
(***************************************************************************)
LEMMA PageFailsKeeps ==
    ASSUME ReadingAssumption, NoneAssumption, TypeOK, ReadingInv, NEW s \in Sessions, PageFails(s)
    PROVE  ReadingInv'
<1> DEFINE n == IF pc[s] = "counting" THEN at[s] ELSE at[s] - 1
<1>1. n \in 0..PageCount /\ \A p \in 1..n : p \in Counted(s)
  BY DEF Counted, TypeOK, Pages, ReadingAssumption
<1>2. UNCHANGED manifest \/ manifest' = State("failed", n)
  BY DEF PageFails
<1>3. pc[s] \in Running /\ UNCHANGED <<text, reading, model, source, at, stale, met>>
  BY DEF PageFails, Running
<1>4. pc' = [pc EXCEPT ![s] = "idle"] /\ told' = [told EXCEPT ![s] = "failed"]
  BY DEF PageFails, Goto, Tell
<1>5. UNCHANGED manifest \/ (ProgressIsSaved' /\ manifest' # None /\ manifest'.model = model)
  BY <1>1, <1>2, <1>3, ProgressKeeps
<1> QED
  BY <1>3, <1>4, <1>5, EndKeeps

(***************************************************************************)
(* A complete run has counted every page.                                  *)
(***************************************************************************)
LEMMA CompleteKeeps ==
    ASSUME ReadingAssumption, NoneAssumption, TypeOK, ReadingInv, NEW s \in Sessions, Complete(s)
    PROVE  ReadingInv'
<1>1. /\ pc[s] = "closing" /\ at[s] = PageCount
      /\ manifest' = State("completed", PageCount)
      /\ UNCHANGED <<text, reading, model, source, at, stale, met>>
      /\ pc' = [pc EXCEPT ![s] = "idle"] /\ told' = [told EXCEPT ![s] = "read"]
  BY DEF Complete, Goto, Tell, ReadingInv, AtIsRead
<1>2. PageCount \in 0..PageCount /\ \A p \in Pages : p \in Counted(s)
  BY <1>1 DEF Counted, Pages, ReadingAssumption
<1>3. ProgressIsSaved' /\ manifest' # None /\ manifest'.model = model
  BY <1>1, <1>2, ProgressKeeps DEF Running, Pages
<1>4. ~stale[s] /\ ~met[s] => \A p \in Pages : Ready(p)
  BY <1>1, <1>2 DEF ReadingInv, RunIsReady, Running
<1> QED
  BY <1>1, <1>3, <1>4, EndKeeps

(***************************************************************************)
(* After an edit no run is on the stored texts.                            *)
(***************************************************************************)
LEMMA EditKeeps ==
    ASSUME TypeOK, ReadingInv,
           NEW s \in Sessions, NEW p \in Pages, NEW t \in PageText, Edit(s, p, t)
    PROVE  ReadingInv'
<1>1. /\ UNCHANGED <<reading, manifest, model, pc, source, at, told, met>>
      /\ \A x \in Sessions : stale'[x]
  BY DEF Edit
<1>2. \A x \in Sessions : Counted(x)' = Counted(x)
  BY <1>1 DEF Counted
<1> QED
  BY <1>1, <1>2 DEF ReadingInv, SourceIsText, NoOldRun, AtIsRead, RunIsSaved, RunIsReady,
                    ReadMeansReady, ProgressIsSaved

(***************************************************************************)
(* After a restart no run is under way.                                    *)
(***************************************************************************)
LEMMA RestartKeeps ==
    ASSUME TypeOK, ReadingInv, Restart
    PROVE  ReadingInv'
<1>1. /\ UNCHANGED <<text, reading, manifest, source, at, stale, met>>
      /\ \A x \in Sessions : pc'[x] = "idle" /\ told'[x] = "none"
  BY DEF Restart
<1> QED
  BY <1>1 DEF ReadingInv, SourceIsText, NoOldRun, AtIsRead, RunIsSaved, RunIsReady,
              ReadMeansReady, ProgressIsSaved, Running

(***************************************************************************)
(* Every step keeps the reading part.                                      *)
(***************************************************************************)
LEMMA ReadingKeeps ==
    ASSUME ReadingAssumption, NoneAssumption, TypeOK, ReadingInv, [Next]_vars
    PROVE  ReadingInv'
<1>1. ASSUME NEW s \in Sessions, Work(s) PROVE ReadingInv'
  <2>1. CASE CompleteFails(s)
    <3>1. /\ UNCHANGED <<text, reading, model, source, at, stale, met, manifest>>
          /\ pc' = [pc EXCEPT ![s] = "idle"] /\ told' = [told EXCEPT ![s] = "failed"]
      BY <2>1 DEF CompleteFails, Goto, Tell, stored
    <3> QED
      BY <3>1, EndKeeps
  <2> QED
    BY <1>1, <2>1, ReuseKeeps, CallKeeps, SaveKeeps, CountKeeps, PageFailsKeeps, CompleteKeeps DEF Work
<1>2. ASSUME NEW s \in Sessions, Ask(s) \/ Asking(s) PROVE ReadingInv'
  <2>1. UNCHANGED <<stored, source, at, told, stale, met>>
    BY <1>2 DEF Ask, Asking, Search, Look, Check, NoEvidence, Answer, AskFails, Untouched
  <2>2. \E x \in {"idle"} \cup Questioning : Goto(s, x)
    BY <1>2 DEF Ask, Asking, Search, Look, Check, NoEvidence, Answer, AskFails, Questioning
  <2>3. \A t \in Sessions : pc'[t] \in Running => pc'[t] = pc[t]
    BY <2>2 DEF Goto, Running, Questioning, TypeOK
  <2> QED
    BY <2>1, <2>3, AsideKeeps
<1>3. ASSUME NEW s \in Sessions, BeginFails(s) \/ Stop(s) PROVE ReadingInv'
  <2>1. /\ UNCHANGED <<stored, source, at, stale, met>>
        /\ \A t \in Sessions : pc'[t] \in Running => pc'[t] = pc[t]
        /\ \A t \in Sessions : told'[t] = "read" => told[t] = "read"
    BY <1>3 DEF BeginFails, Stop, Goto, Tell, Running, TypeOK
  <2> QED
    BY <2>1, AsideKeeps
<1>4. CASE UNCHANGED vars
  BY <1>4, AsideKeeps DEF vars, stored
<1> QED
  BY <1>1, <1>2, <1>3, <1>4, BeginKeeps, EditKeeps, RestartKeeps DEF Next

-----------------------------------------------------------------------------
(***************************************************************************)
(* The asking part.  Steps of runs and edits leave questions alone; only a *)
(* reading that is saved can separate a fetched one from its page, and it  *)
(* is noted.                                                               *)
(***************************************************************************)
LEMMA QuestionsUntouched ==
    ASSUME TypeOK, AskingInv, UNCHANGED <<hit, answer, crossed, reading>>,
           \A s \in Sessions : pc'[s] \in Questioning => pc'[s] = pc[s]
    PROVE  AskingInv'
  BY DEF AskingInv, HitIsRead, AnswersFromRead, Questioning

(***************************************************************************)
(* A saved reading crosses the questions that have fetched theirs.         *)
(***************************************************************************)
LEMMA SaveLeavesQuestions ==
    ASSUME TypeOK, AskingInv, NEW s \in Sessions, SaveReading(s)
    PROVE  AskingInv'
<1>1. /\ UNCHANGED <<hit, answer>>
      /\ \A t \in Sessions : pc'[t] \in Questioning => pc'[t] = pc[t]
      /\ \A t \in Sessions : crossed'[t] <=> crossed[t] \/ pc[t] = "checking"
  BY DEF SaveReading, Goto, Questioning, TypeOK
<1> QED
  BY <1>1 DEF AskingInv, HitIsRead, AnswersFromRead, Questioning

(***************************************************************************)
(* The steps of a question.                                                *)
(***************************************************************************)
LEMMA QuestionKeeps ==
    ASSUME NoneAssumption, TypeOK, AskingInv, NEW s \in Sessions, Ask(s) \/ Asking(s)
    PROVE  AskingInv'
<1>1. UNCHANGED reading /\ \A t \in Sessions \ {s} :
          pc'[t] = pc[t] /\ hit'[t] = hit[t] /\ answer'[t] = answer[t] /\ crossed'[t] = crossed[t]
  BY DEF Ask, Asking, Search, Look, Check, NoEvidence, Answer, AskFails, Untouched, stored, asking,
         Goto, Forget, TypeOK
<1> DEFINE Holds ==
      /\ pc'[s] \in Questioning => answer'[s] = None
      /\ pc'[s] \in {"looking", "checking", "answering"} => hit'[s] # None
      /\ pc'[s] = "checking" /\ ~crossed'[s] => hit'[s].view = reading[hit'[s].page]
      /\ pc'[s] = "answering" /\ ~crossed'[s] =>
            hit'[s].view # None /\ hit'[s].view.text = hit'[s].text
      /\ answer'[s] # None /\ ~crossed'[s] =>
            answer'[s].view # None /\ answer'[s].view.text = answer'[s].text
<1>2. ASSUME Holds PROVE AskingInv'
  BY <1>1, <1>2 DEF AskingInv, HitIsRead, AnswersFromRead
<1>3. CASE Ask(s)
  <2>1. Holds
    BY <1>3 DEF Ask, Goto, TypeOK
  <2> QED
    BY <1>2, <2>1
<1>4. ASSUME NEW p \in Pages, Search(s, p) PROVE AskingInv'
  <2>1. [page |-> p, text |-> text[p], view |-> None] \in Hits
    BY DEF Hits, TypeOK
  <2>2. Holds
    BY <1>4, <2>1, NoneAssumption
    DEF Search, Goto, Questioning, AskingInv, HitIsRead, TypeOK
  <2> QED
    BY <1>2, <2>2
<1>5. CASE Look(s)
  <2>1. hit[s] \in Hits /\ reading[hit[s].page] \in Readings \cup {None} /\ answer[s] = None
    BY <1>5 DEF Look, AskingInv, HitIsRead, TypeOK, Hits, Questioning
  <2>2. /\ hit'[s] = [hit[s] EXCEPT !.view = reading[hit[s].page]]
        /\ pc'[s] = "checking" /\ answer'[s] = None
    BY <1>5, <2>1 DEF Look, Goto, TypeOK
  <2>3. hit'[s] \in Hits /\ hit'[s].page = hit[s].page /\ hit'[s].view = reading[hit[s].page]
    BY <2>1, <2>2 DEF Hits
  <2>4. Holds
    BY <2>2, <2>3, NoneAssumption
  <2> QED
    BY <1>2, <2>4
<1>6. CASE Check(s)
  <2>1. hit[s] # None /\ answer[s] = None /\ (~crossed[s] => hit[s].view = reading[hit[s].page])
    BY <1>6 DEF Check, AskingInv, HitIsRead, Questioning
  <2>2. pc'[s] = "answering" /\ UNCHANGED <<hit, answer, crossed>>
    BY <1>6 DEF Check, Goto, asking, TypeOK
  <2>3. Holds
    BY <1>6, <2>1, <2>2 DEF Check, Usable
  <2> QED
    BY <1>2, <2>3
<1>7. CASE Answer(s)
  <2>1. pc'[s] = "idle" /\ answer'[s] = hit[s] /\ crossed'[s] = crossed[s] /\ pc[s] = "answering"
    BY <1>7 DEF Answer, Goto, TypeOK
  <2>2. Holds
    BY <2>1 DEF AskingInv, HitIsRead, Questioning
  <2> QED
    BY <1>2, <2>2
<1>8. CASE NoEvidence(s) \/ AskFails(s)
  <2>1. pc'[s] = "idle" /\ answer'[s] = None
    BY <1>8 DEF NoEvidence, AskFails, Goto, AskingInv, HitIsRead, Questioning, TypeOK
  <2>2. Holds
    BY <2>1 DEF Questioning
  <2> QED
    BY <1>2, <2>2
<1> QED
  BY <1>3, <1>4, <1>5, <1>6, <1>7, <1>8 DEF Asking

(***************************************************************************)
(* Every step keeps the asking part.                                       *)
(***************************************************************************)
LEMMA AskingKeeps ==
    ASSUME NoneAssumption, TypeOK, AskingInv, [Next]_vars
    PROVE  AskingInv'
<1>1. ASSUME NEW s \in Sessions, Work(s), ~SaveReading(s) PROVE AskingInv'
  <2>1. UNCHANGED <<hit, answer, crossed, reading>>
    BY <1>1 DEF Work, Reuse, Call, Count, PageFails, Complete, CompleteFails, asking, stored
  <2>2. \E x \in {"idle"} \cup Running : Goto(s, x)
    BY <1>1 DEF Work, Reuse, Call, Count, PageFails, Complete, CompleteFails, Running
  <2>3. \A t \in Sessions : pc'[t] \in Questioning => pc'[t] = pc[t]
    BY <2>2 DEF Goto, Running, Questioning, TypeOK
  <2> QED
    BY <2>1, <2>3, QuestionsUntouched
<1>2. ASSUME NEW s \in Sessions, UNCHANGED asking,
             \/ Begin(s) \/ BeginFails(s) \/ Stop(s)
             \/ \E p \in Pages, t \in PageText : Edit(s, p, t)
      PROVE  AskingInv'
  <2>1. /\ UNCHANGED <<hit, answer, crossed, reading>>
        /\ \A t \in Sessions : pc'[t] \in Questioning => pc'[t] = pc[t]
    BY <1>2 DEF Begin, BeginFails, Stop, Edit, Goto, Questioning, asking, stored, TypeOK
  <2> QED
    BY <2>1, QuestionsUntouched
<1>3. CASE Restart
  BY <1>3 DEF Restart, AskingInv, HitIsRead, AnswersFromRead, Questioning
<1>4. CASE UNCHANGED vars
  BY <1>4, QuestionsUntouched DEF vars
<1> QED
  BY <1>1, <1>2, <1>3, <1>4, SaveLeavesQuestions, QuestionKeeps DEF Next

-----------------------------------------------------------------------------
(***************************************************************************)
(* The invariant holds of a document that nobody has read.                 *)
(***************************************************************************)
LEMMA Initially ==
    ASSUME ReadingAssumption, Init
    PROVE  IndInv
<1>1. TypeOK
  BY DEF Init, TypeOK, ReadingAssumption, Pages
<1>2. ReadingInv
  BY DEF Init, ReadingInv, SourceIsText, NoOldRun, AtIsRead, RunIsSaved, RunIsReady, ReadMeansReady,
         ProgressIsSaved, Running
<1>3. AskingInv
  BY DEF Init, AskingInv, HitIsRead, AnswersFromRead, Questioning
<1> QED
  BY <1>1, <1>2, <1>3 DEF IndInv

(***************************************************************************)
(* Hence the invariant holds of every behaviour.                           *)
(***************************************************************************)
THEOREM Invariance == Spec => []IndInv
<1>1. Init => IndInv
  BY Initially, ReadingAssumption
<1>2. IndInv /\ [Next]_vars => IndInv'
  BY Typed, ReadingKeeps, AskingKeeps, ReadingAssumption, NoneAssumption
  DEF IndInv, ReadingInv, AskingInv
<1> QED
  BY <1>1, <1>2, PTL DEF Spec

(***************************************************************************)
(* Texts, readings, manifests and what the sessions hold keep their types. *)
(***************************************************************************)
THEOREM Typing == Spec => []TypeOK
<1>1. IndInv => TypeOK
  BY DEF IndInv
<1> QED
  BY <1>1, Invariance, PTL

(***************************************************************************)
(* A user who is told that the document is read can ask about every page   *)
(* of it, as long as nobody edits it and no older run was met.             *)
(***************************************************************************)
THEOREM ToldReadIsReady == Spec => []ReadMeansReady
<1>1. IndInv => ReadMeansReady
  BY DEF IndInv, ReadingInv
<1> QED
  BY <1>1, Invariance, PTL

(***************************************************************************)
(* The manifest never counts a page whose reading is not stored, or was    *)
(* made by another model than the one it names.                            *)
(***************************************************************************)
THEOREM ManifestIsBacked == Spec => []ProgressIsSaved
<1>1. IndInv => ProgressIsSaved
  BY DEF IndInv, ReadingInv
<1> QED
  BY <1>1, Invariance, PTL

(***************************************************************************)
(* What goes with a page into an answer was read from the text that goes   *)
(* with it, unless a reading was saved between the fetch and the check.    *)
(***************************************************************************)
THEOREM AnswersAreFresh == Spec => []AnswersFromRead
<1>1. IndInv => AnswersFromRead
  BY DEF IndInv, AskingInv
<1> QED
  BY <1>1, Invariance, PTL
=============================================================================
