-------------------------- MODULE Knowledge_proofs --------------------------
(***************************************************************************)
(* Proofs about what a user keeps: the knowledge objects of module         *)
(* KnowledgeObjects, for any number of objects, sessions, contents and     *)
(* revisions; after them the saved answers and experiences of module       *)
(* KnowledgeMemory, the sources of module SourceLinks and the packages of  *)
(* module EvidenceBasket, for any number of sessions, questions, entries,  *)
(* pages, links and items.                                                 *)
(*                                                                         *)
(* Every write of the objects has one of six shapes: it leaves the tables  *)
(* alone, deletes the row, bears content, confirms, sets a successor, or   *)
(* changes something else about the row.  The first lemmas show this; the  *)
(* invariants are then proved once for each shape instead of once for each *)
(* operation.                                                              *)
(***************************************************************************)
EXTENDS KnowledgeObjects, KnowledgeMemory, SourceLinks, EvidenceBasket,
        FiniteSetTheorems, WellFoundedInduction, TLAPS

-----------------------------------------------------------------------------
(* The inductive invariant.                                                *)

\* A confirmation never speaks of a revision that is not written yet.
ConfirmedIsOld ==
    \A o \in Objects : Exists(o) => objects[o].confirmed <= Len(history[o])

\* A session about to confirm holds the number of a revision of the object,
\* and if that is still the current one, the content too is what it read.
ReadingsHold ==
    \A s \in Sessions : Turn(s, "confirm") =>
        LET o == session[s].object
            read == session[s].arg
        IN /\ read.revision \in DOMAIN history[o]
           /\ Exists(o) /\ read.revision = objects[o].revision =>
                  read.content = objects[o].content

Superseding(s) == Turn(s, "supersede") \/ Turn(s, "repoint")

\* Until another session writes a successor, the successor a session has
\* looked at still has none itself.
SuccessorsEnd ==
    \A s \in Sessions : Superseding(s) /\ s \notin overtaken =>
        /\ session[s].arg # session[s].object
        /\ Exists(session[s].arg) => objects[session[s].arg].successor = None

\* The rank of an object is higher than that of its successor.
Ranks(r) ==
    /\ r \in [Objects -> Nat]
    /\ \A o \in Objects :
           Exists(o) /\ objects[o].successor # None =>
               r[objects[o].successor] < r[o]

Ordered == ~crossed => \E r : Ranks(r)

IndInv ==
    /\ TypeOK
    /\ RevisionIsContent
    /\ ConfirmedIsOld
    /\ ReadingsHold
    /\ ConfirmedWasRead
    /\ SuccessorsExist
    /\ SuccessorsEnd
    /\ Ordered

-----------------------------------------------------------------------------
(* The shapes of a step.                                                   *)

Rewritten(o, row, event) ==
    /\ Exists(o)
    /\ objects' = [objects EXCEPT ![o] = row]
    /\ history' = [history EXCEPT ![o] = Append(@, event)]

SameLink(o, row) ==
    row.lifecycle = objects[o].lifecycle /\ row.successor = objects[o].successor

SameContent(o, row) ==
    row.content = objects[o].content /\ row.revision = objects[o].revision

BearsContent(o, row, event) ==
    /\ event.kind \in ContentBearing
    /\ row.revision = Len(history[o]) + 1
    /\ row.content = event.content
    /\ row.confirmed = objects[o].confirmed
    /\ SameLink(o, row)

Confirms(s, row, event) ==
    /\ Turn(s, "confirm")
    /\ row.confirmed = session[s].arg.revision
    /\ event = Event("confirmation_changed", session[s].arg.content)
    /\ SameContent(session[s].object, row)
    /\ SameLink(session[s].object, row)

IsPlain(o, row, event) ==
    /\ event.kind \notin ContentBearing
    /\ SameContent(o, row)
    /\ row.confirmed \in {0, objects[o].confirmed}
    /\ \/ SameLink(o, row)
       \/ row.lifecycle # "superseded" /\ row.successor = None

Links(s, row, event) ==
    /\ Superseding(s)
    /\ Exists(session[s].arg)
    /\ event.kind \notin ContentBearing
    /\ SameContent(session[s].object, row)
    /\ row.confirmed = objects[session[s].object].confirmed
    /\ row.lifecycle = "superseded"
    /\ row.successor = session[s].arg

\* What a write of session s does to the two tables.
Shape(s) ==
    LET o == session[s].object IN
    \/ UNCHANGED <<objects, history>>
    \/ /\ Inbound(o) = {}
       /\ objects' = [objects EXCEPT ![o] = None]
       /\ UNCHANGED history
    \/ \E row \in Rows, event \in Events :
           /\ Rewritten(o, row, event)
           /\ \/ BearsContent(o, row, event)
              \/ Confirms(s, row, event)
              \/ IsPlain(o, row, event)

\* A write that sets a successor, or fails to.
LinkShape(s) ==
    \/ UNCHANGED <<objects, history>>
    \/ \E row \in Rows, event \in Events :
           Rewritten(session[s].object, row, event) /\ Links(s, row, event)

\* What a request may be, by its operation.
LEMMA RequestsTyped ==
    ASSUME TypeOK, NEW s \in Sessions, session[s] # None
    PROVE  /\ session[s].object \in Objects
           /\ Turn(s, "update") => session[s].arg \in Contents
           /\ Turn(s, "confirm") =>
                  session[s].arg \in [revision: Nat, content: Contents]
           /\ Superseding(s) => session[s].arg \in Objects
<1>1. session[s] \in Requests BY DEF TypeOK
<1>. QED BY <1>1 DEF Requests, Turn, Superseding

LEMMA HistoryLength ==
    ASSUME TypeOK, NEW o \in Objects
    PROVE  /\ history[o] \in Seq(Events)
           /\ Len(history[o]) \in Nat
           /\ DOMAIN history[o] = 1 .. Len(history[o])
BY DEF TypeOK

LEMMA ShapeOfUpdates ==
    ASSUME TypeOK, NEW s \in Sessions, UpdateContent(s) \/ UpdateBasis(s)
    PROVE  Shape(s)
<1>. DEFINE o == session[s].object
<1>1. o \in Objects BY RequestsTyped DEF UpdateContent, UpdateBasis, Turn
<1>2. Len(history[o]) \in Nat BY <1>1, HistoryLength
<1>3. CASE ~Exists(o)
  BY <1>3 DEF UpdateContent, UpdateBasis, Transaction, Shape
<1>4. CASE Exists(o) /\ UpdateContent(s)
  <2>. DEFINE row == WithContent(objects[o], session[s].arg, Len(history[o]) + 1)
              event == Event("content_updated", session[s].arg)
  <2>1. objects[o] \in Rows BY <1>1, <1>4 DEF TypeOK, Exists
  <2>2. session[s].arg \in Contents
    BY <1>4, RequestsTyped DEF UpdateContent, Turn
  <2>3. row \in Rows /\ event \in Events
    BY <1>2, <2>1, <2>2 DEF Rows, Events, Kinds, Event, WithContent
  <2>4. Rewritten(o, row, event)
    BY <1>4 DEF UpdateContent, Transaction, Rewritten, Current, NextRevision
  <2>5. BearsContent(o, row, event)
    BY <1>2, <2>1
       DEF BearsContent, SameLink, Event, ContentBearing, WithContent
  <2>. QED BY <2>3, <2>4, <2>5 DEF Shape
<1>5. CASE Exists(o) /\ UpdateBasis(s)
  <2>. DEFINE row == WithBasis(objects[o], Len(history[o]) + 1)
              event == Event("content_updated", objects[o].content)
  <2>1. objects[o] \in Rows BY <1>1, <1>5 DEF TypeOK, Exists
  <2>2. row \in Rows /\ event \in Events
    BY <1>2, <2>1 DEF Rows, Events, Kinds, Event, WithBasis, WithContent
  <2>3. Rewritten(o, row, event)
    BY <1>5 DEF UpdateBasis, Transaction, Rewritten, Current, NextRevision
  <2>4. BearsContent(o, row, event)
    BY <1>2, <2>1
       DEF BearsContent, SameLink, Event, ContentBearing, WithBasis, WithContent
  <2>. QED BY <2>2, <2>3, <2>4 DEF Shape
<1>. QED BY <1>3, <1>4, <1>5

LEMMA ShapeOfConfirm ==
    ASSUME TypeOK, NEW s \in Sessions, Confirm(s)
    PROVE  Shape(s)
<1>. DEFINE o == session[s].object
            row == WithConfirmation(objects[o], session[s].arg.revision)
            event == Event("confirmation_changed", session[s].arg.content)
<1>1. o \in Objects /\ session[s].arg \in [revision: Nat, content: Contents]
  BY RequestsTyped DEF Confirm, Turn
<1>2. CASE ~Exists(o) BY <1>2 DEF Confirm, Transaction, Shape
<1>3. CASE Exists(o)
  <2>1. objects[o] \in Rows BY <1>1, <1>3 DEF TypeOK, Exists
  <2>2. row \in Rows /\ event \in Events
    BY <1>1, <2>1 DEF Rows, Events, Kinds, Event, WithConfirmation
  <2>3. Rewritten(o, row, event)
    BY <1>3 DEF Confirm, Transaction, Rewritten, Current
  <2>4. Confirms(s, row, event)
    BY <2>1 DEF Confirm, Confirms, SameContent, SameLink, Rows,
                WithConfirmation
  <2>. QED BY <2>2, <2>3, <2>4 DEF Shape
<1>. QED BY <1>2, <1>3

\* Every write but that of a successor.
Others(s) ==
    \/ Unconfirm(s) \/ Archive(s) \/ Unarchive(s) \/ Reactivate(s)
    \/ SourceChanged(s)

LEMMA ShapeOfOthers ==
    ASSUME TypeOK, NEW s \in Sessions, Others(s)
    PROVE  Shape(s)
<1>. DEFINE o == session[s].object
<1>1. o \in Objects
  BY RequestsTyped
     DEF Others, Unconfirm, Archive, Unarchive, Reactivate, SourceChanged, Turn
<1>2. CASE ~Exists(o)
  BY <1>2 DEF Others, Unconfirm, Archive, Unarchive, Reactivate,
              SourceChanged, Transaction, Shape
<1>3. CASE Exists(o)
  <2>1. objects[o] \in Rows BY <1>1, <1>3 DEF TypeOK, Exists
  <2>2. SUFFICES \E row \in Rows, event \in Events :
                     Rewritten(o, row, event) /\ IsPlain(o, row, event)
    BY DEF Shape
  <2>3. ASSUME Unconfirm(s)
        PROVE  \E row \in Rows, event \in Events :
                     Rewritten(o, row, event) /\ IsPlain(o, row, event)
    <3>. DEFINE row == WithConfirmation(objects[o], 0)
                event == Event("confirmation_changed", None)
    <3>1. row \in Rows /\ event \in Events
      BY <2>1 DEF Rows, Events, Kinds, Event, WithConfirmation
    <3>2. Rewritten(o, row, event)
      BY <1>3, <2>3 DEF Unconfirm, Transaction, Rewritten, Current
    <3>3. IsPlain(o, row, event)
      BY <2>1 DEF IsPlain, SameContent, SameLink, Event, ContentBearing, Rows,
                  WithConfirmation
    <3>. QED BY <3>1, <3>2, <3>3
  <2>4. ASSUME Archive(s)
        PROVE  \E row \in Rows, event \in Events :
                     Rewritten(o, row, event) /\ IsPlain(o, row, event)
    <3>. DEFINE row == WithLifecycle(objects[o], "archived", None)
                event == Event("lifecycle_changed", None)
    <3>1. row \in Rows /\ event \in Events
      BY <2>1 DEF Rows, Events, Kinds, Event, Lifecycles, WithLifecycle
    <3>2. Rewritten(o, row, event)
      BY <1>3, <2>4 DEF Archive, Transaction, Rewritten, Current
    <3>3. IsPlain(o, row, event)
      BY <2>1
         DEF IsPlain, SameContent, SameLink, Event, ContentBearing,
             WithLifecycle
    <3>. QED BY <3>1, <3>2, <3>3
  <2>5. ASSUME Unarchive(s) \/ Reactivate(s)
        PROVE  \E row \in Rows, event \in Events :
                     Rewritten(o, row, event) /\ IsPlain(o, row, event)
    <3>. DEFINE row == WithLifecycle(objects[o], "active", None)
                event(k) == Event(k, None)
    <3>1. /\ row \in Rows
          /\ event("lifecycle_changed") \in Events
          /\ event("supersession_changed") \in Events
      BY <2>1 DEF Rows, Events, Kinds, Event, Lifecycles, WithLifecycle
    <3>2. \/ Rewritten(o, row, event("lifecycle_changed"))
          \/ Rewritten(o, row, event("supersession_changed"))
      BY <1>3, <2>5 DEF Unarchive, Reactivate, Transaction, Rewritten, Current
    <3>3. /\ IsPlain(o, row, event("lifecycle_changed"))
          /\ IsPlain(o, row, event("supersession_changed"))
      BY <2>1
         DEF IsPlain, SameContent, SameLink, Event, ContentBearing,
             WithLifecycle
    <3>. QED BY <3>1, <3>2, <3>3
  <2>6. ASSUME SourceChanged(s)
        PROVE  \E row \in Rows, event \in Events :
                     Rewritten(o, row, event) /\ IsPlain(o, row, event)
    <3>. DEFINE event == Event("source_changed", None)
    <3>1. event \in Events BY DEF Events, Kinds, Event
    <3>2. Rewritten(o, objects[o], event)
      BY <1>3, <2>6 DEF SourceChanged, Transaction, Rewritten, Current
    <3>3. IsPlain(o, objects[o], event)
      BY DEF IsPlain, SameContent, SameLink, Event, ContentBearing
    <3>. QED BY <2>1, <3>1, <3>2, <3>3
  <2>. QED BY <2>3, <2>4, <2>5, <2>6 DEF Others
<1>. QED BY <1>2, <1>3

LEMMA ShapeOfDelete ==
    ASSUME NEW s \in Sessions, Delete(s)
    PROVE  Shape(s)
BY DEF Delete, DeleteRow, Shape

LEMMA ShapeOfSupersede ==
    ASSUME TypeOK, NEW s \in Sessions, Supersede(s)
    PROVE  LinkShape(s)
<1>. DEFINE o == session[s].object
            row == WithLifecycle(objects[o], "superseded", session[s].arg)
            event == Event("supersession_changed", None)
<1>1. Superseding(s) BY DEF Supersede, Superseding
<1>2. o \in Objects /\ session[s].arg \in Objects
  BY <1>1, RequestsTyped DEF Superseding, Turn
<1>3. CASE ~(Exists(o) /\ Exists(session[s].arg))
  BY <1>3 DEF Supersede, Transaction, LinkShape
<1>4. CASE Exists(o) /\ Exists(session[s].arg)
  <2>1. objects[o] \in Rows BY <1>2, <1>4 DEF TypeOK, Exists
  <2>2. row \in Rows /\ event \in Events
    BY <1>2, <2>1 DEF Rows, Events, Kinds, Event, Lifecycles, WithLifecycle
  <2>3. Rewritten(o, row, event)
    BY <1>4 DEF Supersede, Transaction, Rewritten, Current
  <2>4. Links(s, row, event)
    BY <1>1, <1>4, <2>1
       DEF Links, SameContent, Event, ContentBearing, WithLifecycle
  <2>. QED BY <2>2, <2>3, <2>4 DEF LinkShape
<1>. QED BY <1>3, <1>4

-----------------------------------------------------------------------------
(* What each kind of step leaves of the invariant.                         *)

\* The parts of the invariant that speak of the tables alone.
TablesOK ==
    /\ TypeOK
    /\ RevisionIsContent
    /\ ConfirmedIsOld
    /\ ConfirmedWasRead
    /\ SuccessorsExist

LEMMA RowsAreThere ==
    ASSUME TypeOK, NEW o \in Objects, Exists(o)
    PROVE  /\ objects[o] \in Rows
           /\ objects[o].lifecycle \in Lifecycles
           /\ objects[o].successor \in Objects \cup {None}
           /\ objects[o].content \in Contents
           /\ objects[o].revision \in Nat
           /\ objects[o].confirmed \in Nat
<1>1. objects[o] \in Rows BY DEF TypeOK, Exists
<1>. QED BY <1>1 DEF Rows

\* A write appends one revision to one object and replaces its row.
LEMMA Rewriting ==
    ASSUME TypeOK, NEW o \in Objects, NEW row \in Rows, NEW event \in Events,
           Rewritten(o, row, event)
    PROVE  /\ \A p \in Objects : Exists(p)' = Exists(p)
           /\ objects'[o] = row
           /\ \A p \in Objects \ {o} :
                  objects'[p] = objects[p] /\ history'[p] = history[p]
           /\ history'[o] \in Seq(Events)
           /\ Len(history'[o]) = Len(history[o]) + 1
           /\ \A n \in 1 .. Len(history[o]) : history'[o][n] = history[o][n]
           /\ history'[o][Len(history[o]) + 1] = event
           /\ DOMAIN history'[o] = 1 .. Len(history[o]) + 1
<1>1. history[o] \in Seq(Events) BY HistoryLength
<1>2. history'[o] = Append(history[o], event)
  BY DEF Rewritten, TypeOK
<1>3. objects'[o] = row /\ \A p \in Objects \ {o} : objects'[p] = objects[p]
  BY DEF Rewritten, TypeOK
<1>4. \A p \in Objects \ {o} : history'[p] = history[p]
  BY DEF Rewritten, TypeOK
<1>5. \A p \in Objects : Exists(p)' = Exists(p)
  BY <1>3, NullAssumption DEF Exists, Rewritten
<1>6. /\ history'[o] \in Seq(Events)
      /\ Len(history'[o]) = Len(history[o]) + 1
      /\ \A n \in 1 .. Len(history[o]) : history'[o][n] = history[o][n]
      /\ history'[o][Len(history[o]) + 1] = event
  BY <1>1, <1>2
<1>7. DOMAIN history'[o] = 1 .. Len(history[o]) + 1
  BY <1>6
<1>. QED BY <1>3, <1>4, <1>5, <1>6, <1>7

\* The end of a request, whatever it wrote.
Ended(s) ==
    /\ session' = [session EXCEPT ![s] = None]
    /\ overtaken' \in SUBSET Sessions
    /\ crossed' \in BOOLEAN

LEMMA TypesKept ==
    ASSUME TypeOK, NEW s \in Sessions, session[s] # None, Ended(s),
           Shape(s) \/ LinkShape(s)
    PROVE  TypeOK'
<1>. DEFINE o == session[s].object
<1>1. o \in Objects BY RequestsTyped
<1>2. session' \in [Sessions -> Requests \cup {None}]
  BY DEF TypeOK, Ended
<1>3. SUFFICES /\ objects' \in [Objects -> Rows \cup {None}]
               /\ history' \in [Objects -> Seq(Events)]
  BY <1>2 DEF TypeOK, Ended
<1>4. CASE UNCHANGED <<objects, history>> BY <1>4 DEF TypeOK
<1>5. CASE objects' = [objects EXCEPT ![o] = None] /\ UNCHANGED history
  BY <1>5 DEF TypeOK
<1>6. ASSUME NEW row \in Rows, NEW event \in Events,
             Rewritten(o, row, event)
      PROVE  /\ objects' \in [Objects -> Rows \cup {None}]
             /\ history' \in [Objects -> Seq(Events)]
  <2>1. objects' = [objects EXCEPT ![o] = row] BY <1>6 DEF Rewritten
  <2>2. history' = [history EXCEPT ![o] = Append(@, event)]
    BY <1>6 DEF Rewritten
  <2>3. Append(history[o], event) \in Seq(Events)
    BY <1>1, HistoryLength
  <2>. QED BY <1>1, <2>1, <2>2, <2>3 DEF TypeOK
<1>. QED BY <1>4, <1>5, <1>6 DEF Shape, LinkShape

LEMMA RevisionKept ==
    ASSUME TypeOK, RevisionIsContent, NEW s \in Sessions, session[s] # None,
           Shape(s) \/ LinkShape(s)
    PROVE  RevisionIsContent'
<1>. DEFINE o == session[s].object
<1>1. o \in Objects BY RequestsTyped
<1>2. CASE UNCHANGED <<objects, history>>
  BY <1>2 DEF RevisionIsContent, Exists
<1>3. CASE objects' = [objects EXCEPT ![o] = None] /\ UNCHANGED history
  <2>1. \A p \in Objects : Exists(p)' =>
            Exists(p) /\ objects'[p] = objects[p]
    BY <1>1, <1>3 DEF Exists, TypeOK
  <2>. QED BY <1>3, <2>1 DEF RevisionIsContent
<1>4. ASSUME NEW row \in Rows, NEW event \in Events,
             Rewritten(o, row, event),
             \/ BearsContent(o, row, event)
             \/ SameContent(o, row) /\ event.kind \notin ContentBearing
      PROVE  RevisionIsContent'
  <2>1. /\ Exists(o)
        /\ Len(history[o]) \in Nat
        /\ DOMAIN history[o] = 1 .. Len(history[o])
    BY <1>1, <1>4, HistoryLength DEF Rewritten
  <2>2. /\ objects[o].revision \in 1 .. Len(history[o])
        /\ history[o][objects[o].revision].kind \in ContentBearing
        /\ history[o][objects[o].revision].content = objects[o].content
        /\ \A n \in 1 .. Len(history[o]) :
               history[o][n].kind \in ContentBearing => n <= objects[o].revision
    BY <1>1, <2>1 DEF RevisionIsContent
  <2>3. /\ \A p \in Objects : Exists(p)' = Exists(p)
        /\ objects'[o] = row
        /\ \A p \in Objects \ {o} :
               objects'[p] = objects[p] /\ history'[p] = history[p]
        /\ \A n \in 1 .. Len(history[o]) : history'[o][n] = history[o][n]
        /\ history'[o][Len(history[o]) + 1] = event
        /\ DOMAIN history'[o] = 1 .. Len(history[o]) + 1
    BY <1>1, <1>4, Rewriting
  <2>4. /\ row.revision \in DOMAIN history'[o]
        /\ history'[o][row.revision].kind \in ContentBearing
        /\ history'[o][row.revision].content = row.content
        /\ \A n \in DOMAIN history'[o] :
               history'[o][n].kind \in ContentBearing => n <= row.revision
    <3>1. CASE BearsContent(o, row, event)
      BY <2>1, <2>3, <3>1 DEF BearsContent
    <3>2. CASE SameContent(o, row) /\ event.kind \notin ContentBearing
      <4>1. row.revision = objects[o].revision /\ row.content = objects[o].content
        BY <3>2 DEF SameContent
      <4>2. \A n \in DOMAIN history'[o] :
                n \in 1 .. Len(history[o]) \/ n = Len(history[o]) + 1
        BY <2>1, <2>3
      <4>3. \A n \in DOMAIN history'[o] :
                history'[o][n].kind \in ContentBearing => n <= row.revision
        BY <2>2, <2>3, <3>2, <4>1, <4>2
      <4>4. row.revision \in DOMAIN history'[o]
        BY <2>1, <2>2, <2>3, <4>1
      <4>5. history'[o][row.revision] = history[o][row.revision]
        BY <2>2, <2>3, <4>1
      <4>. QED BY <2>2, <4>1, <4>3, <4>4, <4>5
    <3>. QED BY <1>4, <3>1, <3>2
  <2>. QED BY <2>3, <2>4 DEF RevisionIsContent
<1>5. ASSUME NEW row, NEW event, Confirms(s, row, event)
      PROVE  SameContent(o, row) /\ event.kind \notin ContentBearing
  BY <1>5 DEF Confirms, Event, ContentBearing
<1>6. ASSUME NEW row, NEW event, IsPlain(o, row, event) \/ Links(s, row, event)
      PROVE  SameContent(o, row) /\ event.kind \notin ContentBearing
  BY <1>6 DEF IsPlain, Links
<1>. QED BY <1>2, <1>3, <1>4, <1>5, <1>6 DEF Shape, LinkShape

LEMMA ConfirmationsKept ==
    ASSUME TypeOK, RevisionIsContent, ConfirmedIsOld, ReadingsHold,
           ConfirmedWasRead, NEW s \in Sessions, session[s] # None,
           Shape(s) \/ LinkShape(s)
    PROVE  ConfirmedIsOld' /\ ConfirmedWasRead'
<1>1. PICK o \in Objects : o = session[s].object BY RequestsTyped
<1>2. CASE UNCHANGED <<objects, history>>
  BY <1>2 DEF ConfirmedIsOld, ConfirmedWasRead, Confirmations, Exists
<1>3. CASE objects' = [objects EXCEPT ![o] = None] /\ UNCHANGED history
  <2>1. \A p \in Objects : Exists(p)' =>
            Exists(p) /\ objects'[p] = objects[p]
    BY <1>1, <1>3 DEF Exists, TypeOK
  <2>. QED BY <1>3, <2>1 DEF ConfirmedIsOld, ConfirmedWasRead, Confirmations
<1>4. ASSUME NEW row \in Rows, NEW event \in Events,
             Rewritten(o, row, event),
             \/ BearsContent(o, row, event)
             \/ Confirms(s, row, event)
             \/ /\ SameContent(o, row)
                /\ row.confirmed \in {0, objects[o].confirmed}
      PROVE  ConfirmedIsOld' /\ ConfirmedWasRead'
  <2>1. /\ Exists(o)
        /\ Len(history[o]) \in Nat
        /\ DOMAIN history[o] = 1 .. Len(history[o])
    BY <1>1, <1>4, HistoryLength DEF Rewritten
  <2>2. /\ objects[o].revision \in 1 .. Len(history[o])
        /\ objects[o].confirmed \in Nat
        /\ objects[o].confirmed <= Len(history[o])
    BY <1>1, <2>1, RowsAreThere DEF RevisionIsContent, ConfirmedIsOld
  <2>3. /\ \A p \in Objects : Exists(p)' = Exists(p)
        /\ objects'[o] = row
        /\ \A p \in Objects \ {o} :
               objects'[p] = objects[p] /\ history'[p] = history[p]
        /\ \A n \in 1 .. Len(history[o]) : history'[o][n] = history[o][n]
        /\ history'[o][Len(history[o]) + 1] = event
        /\ Len(history'[o]) = Len(history[o]) + 1
        /\ DOMAIN history'[o] = 1 .. Len(history[o]) + 1
    BY <1>1, <1>4, Rewriting
  <2>4. ASSUME Confirms(s, row, event)
        PROVE  /\ row.confirmed \in 1 .. Len(history[o])
               /\ event.kind = "confirmation_changed"
               /\ event.content \in Contents
               /\ row.confirmed = row.revision => event.content = row.content
    <3>1. /\ session[s].arg.revision \in DOMAIN history[o]
          /\ session[s].arg.revision = objects[o].revision =>
                 session[s].arg.content = objects[o].content
      BY <1>1, <2>1, <2>4 DEF ReadingsHold, Confirms
    <3>2. session[s].arg.content \in Contents
      BY <2>4, RequestsTyped DEF Confirms
    <3>. QED BY <1>1, <2>1, <2>4, <3>1, <3>2 DEF Confirms, SameContent, Event
  <2>5. row.confirmed <= Len(history[o]) + 1
    BY <1>4, <2>1, <2>2, <2>4 DEF BearsContent
  <2>6. ConfirmedIsOld'
    BY <2>3, <2>5 DEF ConfirmedIsOld
  <2>7. ASSUME row.confirmed = row.revision
        PROVE  \E n \in Confirmations(o)' :
                   history'[o][n].content = row.content /\ n > row.revision
    <3>1. ~ BearsContent(o, row, event)
      BY <2>1, <2>2, <2>7 DEF BearsContent
    <3>2. CASE Confirms(s, row, event)
      <4>. DEFINE n == Len(history[o]) + 1
      <4>1. n \in Confirmations(o)'
        BY <2>1, <2>3, <2>4, <3>2, NoneAssumption DEF Confirmations
      <4>2. history'[o][n].content = row.content /\ n > row.revision
        BY <2>1, <2>3, <2>4, <2>7, <3>2
      <4>. QED BY <4>1, <4>2
    <3>3. CASE SameContent(o, row)
               /\ row.confirmed \in {0, objects[o].confirmed}
      <4>1. /\ row.revision = objects[o].revision
            /\ row.content = objects[o].content
            /\ row.confirmed = objects[o].confirmed
        BY <2>2, <2>7, <3>3 DEF SameContent
      <4>2. PICK n \in Confirmations(o) :
                history[o][n].content = objects[o].content
                /\ n > objects[o].revision
        BY <1>1, <2>1, <2>7, <4>1 DEF ConfirmedWasRead
      <4>3. n \in 1 .. Len(history[o]) BY <2>1 DEF Confirmations
      <4>4. n \in DOMAIN history'[o] /\ history'[o][n] = history[o][n]
        BY <2>1, <2>3, <4>3
      <4>5. n \in Confirmations(o)' BY <4>4 DEF Confirmations
      <4>. QED BY <4>1, <4>2, <4>4, <4>5
    <3>. QED BY <1>4, <3>1, <3>2, <3>3
  <2>8. ASSUME NEW p \in Objects \ {o}, Exists(p),
               objects[p].confirmed = objects[p].revision
        PROVE  \E n \in Confirmations(p)' :
                   /\ history'[p][n].content = objects'[p].content
                   /\ n > objects'[p].revision
    <3>1. objects'[p] = objects[p] /\ history'[p] = history[p]
      BY <2>3
    <3>. QED BY <2>8, <3>1 DEF ConfirmedWasRead, Confirmations
  <2>9. ASSUME NEW p \in Objects, Exists(p)',
               objects'[p].confirmed = objects'[p].revision
        PROVE  \E n \in Confirmations(p)' :
                   /\ history'[p][n].content = objects'[p].content
                   /\ n > objects'[p].revision
    <3>1. CASE p = o BY <2>3, <2>7, <2>9, <3>1
    <3>2. CASE p # o BY <2>3, <2>8, <2>9, <3>2
    <3>. QED BY <3>1, <3>2
  <2>10. ConfirmedWasRead' BY <2>9 DEF ConfirmedWasRead
  <2>. QED BY <2>6, <2>10
<1>5. ASSUME NEW row, NEW event, IsPlain(o, row, event) \/ Links(s, row, event)
      PROVE  SameContent(o, row) /\ row.confirmed \in {0, objects[o].confirmed}
  BY <1>1, <1>5 DEF IsPlain, Links
<1>. QED BY <1>1, <1>2, <1>3, <1>4, <1>5 DEF Shape, LinkShape

\* What other sessions have read stays true of the revision they read.
LEMMA ReadingsKept ==
    ASSUME TypeOK, RevisionIsContent, ReadingsHold,
           NEW s \in Sessions, session[s] # None, Ended(s),
           Shape(s) \/ LinkShape(s)
    PROVE  ReadingsHold'
<1>1. PICK o \in Objects : o = session[s].object BY RequestsTyped
<1>2. SUFFICES ASSUME NEW t \in Sessions, Turn(t, "confirm")',
                      NEW p, p = session'[t].object,
                      NEW read, read = session'[t].arg
               PROVE  /\ read.revision \in DOMAIN history'[p]
                      /\ Exists(p)' /\ read.revision = objects'[p].revision
                             => read.content = objects'[p].content
  BY DEF ReadingsHold, Exists
<1>3. t # s /\ session'[t] = session[t]
  BY <1>2 DEF Ended, Turn, TypeOK
<1>4. /\ Turn(t, "confirm") /\ p \in Objects
      /\ p = session[t].object /\ read = session[t].arg
  BY <1>2, <1>3, RequestsTyped DEF Turn
<1>5. /\ read.revision \in DOMAIN history[p]
      /\ Exists(p) /\ read.revision = objects[p].revision =>
             read.content = objects[p].content
  BY <1>4 DEF ReadingsHold
<1>7. CASE UNCHANGED <<objects, history>> BY <1>5, <1>7 DEF Exists
<1>8. CASE objects' = [objects EXCEPT ![o] = None] /\ UNCHANGED history
  <2>1. Exists(p)' => Exists(p) /\ objects'[p] = objects[p]
    BY <1>1, <1>4, <1>8 DEF Exists, TypeOK
  <2>. QED BY <1>5, <1>8, <2>1
<1>9. ASSUME NEW row \in Rows, NEW event \in Events,
             Rewritten(o, row, event),
             BearsContent(o, row, event) \/ SameContent(o, row)
      PROVE  /\ read.revision \in DOMAIN history'[p]
             /\ Exists(p)' /\ read.revision = objects'[p].revision
                    => read.content = objects'[p].content
  <2>1. /\ \A q \in Objects : Exists(q)' = Exists(q)
        /\ objects'[o] = row
        /\ \A q \in Objects \ {o} :
               objects'[q] = objects[q] /\ history'[q] = history[q]
        /\ DOMAIN history'[o] = 1 .. Len(history[o]) + 1
    BY <1>1, <1>9, Rewriting
  <2>2. CASE p # o BY <1>4, <1>5, <2>1, <2>2
  <2>3. CASE p = o
    <3>1. /\ Len(history[o]) \in Nat
          /\ read.revision \in 1 .. Len(history[o])
      BY <1>1, <1>5, <2>3, HistoryLength
    <3>2. read.revision \in DOMAIN history'[p] BY <2>1, <2>3, <3>1
    <3>3. CASE BearsContent(o, row, event)
      <4>1. read.revision # row.revision BY <3>1, <3>3 DEF BearsContent
      <4>. QED BY <2>1, <2>3, <3>2, <4>1
    <3>4. CASE SameContent(o, row)
      BY <1>4, <1>5, <2>1, <2>3, <3>2, <3>4 DEF SameContent
    <3>. QED BY <1>9, <3>3, <3>4
  <2>. QED BY <2>2, <2>3
<1>10. ASSUME NEW row, NEW event,
              \/ Confirms(s, row, event)
              \/ IsPlain(o, row, event)
              \/ Links(s, row, event)
       PROVE  SameContent(o, row)
  BY <1>1, <1>10 DEF Confirms, IsPlain, Links
<1>. QED BY <1>1, <1>7, <1>8, <1>9, <1>10 DEF Shape, LinkShape

\* A link is kept, taken away, or set to an object that exists.
LEMMA SuccessorsKept ==
    ASSUME TypeOK, SuccessorsExist, NEW s \in Sessions, session[s] # None,
           Shape(s) \/ LinkShape(s)
    PROVE  SuccessorsExist'
<1>. DEFINE o == session[s].object
<1>1. o \in Objects BY RequestsTyped
<1>2. CASE UNCHANGED <<objects, history>>
  BY <1>2 DEF SuccessorsExist, Exists
<1>3. CASE /\ Inbound(o) = {}
           /\ objects' = [objects EXCEPT ![o] = None]
  <2>1. \A p \in Objects : Exists(p)' <=> Exists(p) /\ p # o
    BY <1>1, <1>3 DEF Exists, TypeOK
  <2>2. \A p \in Objects : Exists(p)' => objects'[p] = objects[p]
    BY <1>1, <1>3 DEF Exists, TypeOK
  <2>3. \A p \in Objects : Exists(p) => objects[p].successor # o
    BY <1>3 DEF Inbound
  <2>4. \A p \in Objects : Exists(p) /\ objects[p].successor # None =>
            objects[p].successor \in Objects
    BY RowsAreThere
  <2>. QED BY <2>1, <2>2, <2>3, <2>4 DEF SuccessorsExist
<1>4. ASSUME NEW row \in Rows, NEW event \in Events,
             Rewritten(o, row, event),
             \/ SameLink(o, row)
             \/ row.lifecycle # "superseded" /\ row.successor = None
             \/ /\ row.lifecycle = "superseded"
                /\ row.successor \in Objects
                /\ Exists(row.successor)
      PROVE  SuccessorsExist'
  <2>1. /\ Exists(o)
        /\ \A p \in Objects : Exists(p)' = Exists(p)
        /\ objects'[o] = row
        /\ \A p \in Objects \ {o} : objects'[p] = objects[p]
    BY <1>1, <1>4, Rewriting DEF Rewritten
  <2>2. \A p \in Objects : Exists(p) /\ objects[p].successor # None =>
            objects[p].successor \in Objects
    BY RowsAreThere
  <2>3. /\ row.lifecycle = "superseded" <=> row.successor # None
        /\ row.successor # None =>
               row.successor \in Objects /\ Exists(row.successor)
    <3>1. CASE SameLink(o, row)
      BY <1>1, <2>1, <2>2, <3>1 DEF SameLink, SuccessorsExist
    <3>2. CASE ~ SameLink(o, row) BY <1>4, <3>2, NoneAssumption
    <3>. QED BY <3>1, <3>2
  <2>. QED BY <2>1, <2>2, <2>3 DEF SuccessorsExist
<1>5. ASSUME NEW row, NEW event, BearsContent(o, row, event)
      PROVE  SameLink(o, row)
  BY <1>5 DEF BearsContent
<1>6. ASSUME NEW row, NEW event, Confirms(s, row, event)
      PROVE  SameLink(o, row)
  BY <1>6 DEF Confirms
<1>7. ASSUME NEW row, NEW event, Links(s, row, event)
      PROVE  /\ row.lifecycle = "superseded"
             /\ row.successor \in Objects
             /\ Exists(row.successor)
  BY <1>7, RequestsTyped DEF Links
<1>. QED BY <1>2, <1>3, <1>4, <1>5, <1>6, <1>7 DEF Shape, LinkShape, IsPlain

\* The writes that set no successor: the order of the objects stands, and so
\* does what the other sessions have seen of their successors.
LEMMA OrderKept ==
    ASSUME TypeOK, SuccessorsEnd, Ordered,
           NEW s \in Sessions, session[s] # None,
           session' = [session EXCEPT ![s] = None],
           overtaken' = overtaken \ {s}, UNCHANGED crossed, Shape(s)
    PROVE  SuccessorsEnd' /\ Ordered'
<1>1. PICK o \in Objects : o = session[s].object BY RequestsTyped
<1>2. \A p \in Objects : Exists(p)' =>
          /\ Exists(p)
          /\ objects'[p].successor \in {None, objects[p].successor}
  <2>1. CASE UNCHANGED <<objects, history>> BY <2>1 DEF Exists
  <2>2. CASE objects' = [objects EXCEPT ![o] = None]
    BY <2>2 DEF Exists, TypeOK
  <2>3. ASSUME NEW row \in Rows, NEW event \in Events,
               Rewritten(o, row, event), SameLink(o, row) \/ row.successor = None
        PROVE  \A p \in Objects : Exists(p)' =>
                   /\ Exists(p)
                   /\ objects'[p].successor \in {None, objects[p].successor}
    <3>1. /\ \A p \in Objects : Exists(p)' = Exists(p)
          /\ objects'[o] = row
          /\ \A p \in Objects \ {o} : objects'[p] = objects[p]
      BY <2>3, Rewriting
    <3>. QED BY <2>3, <3>1 DEF SameLink
  <2>4. ASSUME NEW row, NEW event,
               \/ BearsContent(o, row, event)
               \/ Confirms(s, row, event)
               \/ IsPlain(o, row, event)
        PROVE  SameLink(o, row) \/ row.successor = None
    BY <1>1, <2>4 DEF BearsContent, Confirms, IsPlain
  <2>. QED BY <1>1, <2>1, <2>2, <2>3, <2>4 DEF Shape
<1>3. SuccessorsEnd'
  <2>1. SUFFICES ASSUME NEW t \in Sessions, Superseding(t)', t \notin overtaken',
                        NEW new, new = session'[t].arg
                 PROVE  /\ new # session'[t].object
                        /\ Exists(new)' => objects'[new].successor = None
    BY DEF SuccessorsEnd, Exists
  <2>2. t # s /\ session'[t] = session[t] /\ t \notin overtaken
    BY <2>1 DEF Superseding, Turn, TypeOK
  <2>3. Superseding(t) /\ new = session[t].arg BY <2>1, <2>2 DEF Superseding, Turn
  <2>4. new \in Objects BY <2>3, RequestsTyped DEF Superseding, Turn
  <2>5. /\ new # session[t].object
        /\ Exists(new) => objects[new].successor = None
    BY <2>2, <2>3 DEF SuccessorsEnd
  <2>. QED BY <1>2, <2>2, <2>4, <2>5
<1>4. ASSUME NEW r, Ranks(r)
      PROVE  Ranks(r)'
  BY <1>2, <1>4 DEF Ranks
<1>5. Ordered' BY <1>4 DEF Ordered
<1>. QED BY <1>3, <1>5

\* A new link: the object it leads to becomes the least of all.
LEMMA OrderExtended ==
    ASSUME TypeOK, SuccessorsEnd, Ordered,
           NEW s \in Sessions, Supersede(s)
    PROVE  SuccessorsEnd' /\ Ordered'
<1>1. Superseding(s) /\ session[s] # None BY DEF Supersede, Superseding, Turn
<1>2. PICK o \in Objects, new \in Objects :
          o = session[s].object /\ new = session[s].arg
  BY <1>1, RequestsTyped
<1>3. SuccessorsEnd'
  <2>1. \A t \in Sessions : t \notin overtaken' => session'[t] = None
    BY DEF Supersede, End, TypeOK
  <2>. QED BY <2>1 DEF SuccessorsEnd, Superseding, Turn
<1>4. Ordered'
  <2>1. SUFFICES ASSUME ~crossed' PROVE (\E r : Ranks(r))'
    BY DEF Ordered
  <2>2. ~crossed /\ s \notin overtaken BY <2>1 DEF Supersede, TypeOK
  <2>3. PICK r : Ranks(r) BY <2>2 DEF Ordered
  <2>4. CASE UNCHANGED <<objects, history>>
    BY <2>3, <2>4 DEF Ranks, Exists
  <2>5. ASSUME NEW row \in Rows, NEW event \in Events,
               Rewritten(o, row, event), Links(s, row, event)
        PROVE  (\E q : Ranks(q))'
    <3>. DEFINE q == [p \in Objects |-> IF p = new THEN 0 ELSE r[p] + 1]
    <3>1. /\ \A p \in Objects : Exists(p)' = Exists(p)
          /\ objects'[o] = row
          /\ \A p \in Objects \ {o} : objects'[p] = objects[p]
      BY <2>5, Rewriting
    <3>2. row.successor = new /\ Exists(new) BY <1>2, <2>5 DEF Links
    <3>3. new # o /\ objects[new].successor = None
      BY <1>1, <1>2, <2>2, <3>2 DEF SuccessorsEnd
    <3>4. r \in [Objects -> Nat] BY <2>3 DEF Ranks
    <3>5. q \in [Objects -> Nat] BY <3>4
    <3>6. ASSUME NEW p \in Objects, Exists(p), objects'[p].successor # None
          PROVE  q[objects'[p].successor] < q[p]
      <4>1. CASE p = o BY <3>1, <3>2, <3>3, <3>4, <4>1
      <4>2. CASE p # o
        <5>1. objects'[p] = objects[p] /\ p # new
          BY <3>1, <3>3, <3>6, <4>2
        <5>2. objects[p].successor \in Objects BY <3>6, <5>1, RowsAreThere
        <5>3. r[objects[p].successor] < r[p]
          BY <2>3, <3>6, <5>1 DEF Ranks
        <5>. QED BY <3>4, <5>1, <5>2, <5>3
      <4>. QED BY <4>1, <4>2
    <3>7. (Ranks(q))' BY <3>1, <3>5, <3>6 DEF Ranks
    <3>. QED BY <3>7
  <2>. QED BY <1>2, <2>4, <2>5, ShapeOfSupersede DEF LinkShape
<1>. QED BY <1>3, <1>4

-----------------------------------------------------------------------------
(* The three kinds of step.                                                *)

LEMMA InitOK == Init => IndInv
<1>. SUFFICES ASSUME Init PROVE IndInv OBVIOUS
<1>1. \A o \in Objects : ~ Exists(o) BY DEF Init, Exists
<1>2. \A s \in Sessions : session[s] = None BY DEF Init
<1>3. TypeOK
  <2>1. history \in [Objects -> Seq(Events)]
    <3>1. << >> \in Seq(Events) OBVIOUS
    <3>. QED BY <3>1 DEF Init
  <2>2. objects \in [Objects -> Rows \cup {None}] BY DEF Init
  <2>3. session \in [Sessions -> Requests \cup {None}] BY DEF Init
  <2>4. overtaken \in SUBSET Sessions /\ crossed \in BOOLEAN BY DEF Init
  <2>. QED BY <2>1, <2>2, <2>3, <2>4 DEF TypeOK
<1>4. /\ RevisionIsContent /\ ConfirmedIsOld /\ ConfirmedWasRead
      /\ SuccessorsExist
  BY <1>1 DEF RevisionIsContent, ConfirmedIsOld, ConfirmedWasRead,
              SuccessorsExist
<1>5. ReadingsHold /\ SuccessorsEnd
  BY <1>2 DEF ReadingsHold, SuccessorsEnd, Superseding, Turn
<1>6. Ranks([o \in Objects |-> 0]) BY <1>1 DEF Ranks
<1>7. Ordered BY <1>6 DEF Ordered
<1>. QED BY <1>3, <1>4, <1>5, <1>7 DEF IndInv

\* What a session holds when it has read.
LEMMA ReadingFacts ==
    ASSUME TypeOK, SuccessorsExist, NEW s \in Sessions, Reading(s)
    PROVE  /\ UNCHANGED <<objects, history, overtaken, crossed>>
           /\ \E request \in Requests :
                  /\ session' = [session EXCEPT ![s] = request]
                  /\ Exists(request.object)
                  /\ request.op = "confirm" =>
                         /\ request.arg.revision =
                                objects[request.object].revision
                         /\ request.arg.content =
                                objects[request.object].content
                  /\ request.op \in {"supersede", "repoint"} =>
                         /\ request.arg # request.object
                         /\ objects[request.arg].successor = None
<1>. DEFINE Good(request) ==
         /\ session' = [session EXCEPT ![s] = request]
         /\ Exists(request.object)
         /\ request.op = "confirm" =>
                /\ request.arg.revision = objects[request.object].revision
                /\ request.arg.content = objects[request.object].content
         /\ request.op \in {"supersede", "repoint"} =>
                /\ request.arg # request.object
                /\ objects[request.arg].successor = None
<1>1. PICK o \in Objects :
          \/ \E c \in Contents : Exists(o) /\ ReadUpdate(s, o, c)
          \/ Exists(o) /\ ReadConfirm(s, o)
          \/ \E new \in Objects : ReadSupersede(s, o, new) \/ ReadRepoint(s, o, new)
          \/ \E op \in {"basis", "unconfirm", "archive", "unarchive",
                        "reactivate", "delete", "source"} : Read(s, op, o, None)
  BY DEF Reading, ReadBasis, ReadUnconfirm, ReadArchive, ReadUnarchive,
         ReadReactivate, ReadDelete, ReadSource
<1>2. ASSUME NEW op, NEW arg, Read(s, op, o, arg),
             [op |-> op, object |-> o, arg |-> arg] \in Requests,
             op = "confirm" => /\ arg.revision = objects[o].revision
                               /\ arg.content = objects[o].content,
             op \in {"supersede", "repoint"} =>
                 arg # o /\ objects[arg].successor = None
      PROVE  /\ UNCHANGED <<objects, history, overtaken, crossed>>
             /\ \E request \in Requests : Good(request)
  <2>. DEFINE request == [op |-> op, object |-> o, arg |-> arg]
  <2>1. Good(request) BY <1>2 DEF Read, Begin
  <2>2. UNCHANGED <<objects, history, overtaken, crossed>> BY <1>2 DEF Read, Begin
  <2>. QED BY <1>2, <2>1, <2>2
<1>3. ASSUME NEW c \in Contents, ReadUpdate(s, o, c)
      PROVE  /\ UNCHANGED <<objects, history, overtaken, crossed>>
             /\ \E request \in Requests : Good(request)
  <2>1. [op |-> "update", object |-> o, arg |-> c] \in Requests
    BY DEF Requests
  <2>. QED BY <1>2, <1>3, <2>1 DEF ReadUpdate
<1>4. ASSUME Exists(o), ReadConfirm(s, o)
      PROVE  /\ UNCHANGED <<objects, history, overtaken, crossed>>
             /\ \E request \in Requests : Good(request)
  <2>. DEFINE arg == [revision |-> objects[o].revision,
                      content |-> objects[o].content]
  <2>1. arg \in [revision: Nat, content: Contents] BY <1>4, RowsAreThere
  <2>2. [op |-> "confirm", object |-> o, arg |-> arg] \in Requests
    BY <2>1 DEF Requests
  <2>. QED BY <1>2, <1>4, <2>2 DEF ReadConfirm
<1>5. ASSUME NEW new \in Objects,
             ReadSupersede(s, o, new) \/ ReadRepoint(s, o, new)
      PROVE  /\ UNCHANGED <<objects, history, overtaken, crossed>>
             /\ \E request \in Requests : Good(request)
  <2>1. /\ o # new /\ Exists(new)
        /\ objects[new].lifecycle = "active"
    BY <1>5 DEF ReadSupersede, ReadRepoint, MaySucceed
  <2>2. objects[new].successor = None
    BY <2>1 DEF SuccessorsExist
  <2>3. \A op \in {"supersede", "repoint"} :
            [op |-> op, object |-> o, arg |-> new] \in Requests
    BY DEF Requests
  <2>. QED BY <1>2, <1>5, <2>1, <2>2, <2>3 DEF ReadSupersede, ReadRepoint
<1>6. ASSUME NEW op \in {"basis", "unconfirm", "archive", "unarchive",
                         "reactivate", "delete", "source"},
             Read(s, op, o, None)
      PROVE  /\ UNCHANGED <<objects, history, overtaken, crossed>>
             /\ \E request \in Requests : Good(request)
  <2>1. [op |-> op, object |-> o, arg |-> None] \in Requests
    BY DEF Requests
  <2>. QED BY <1>2, <1>6, <2>1
<1>. QED BY <1>1, <1>3, <1>4, <1>5, <1>6

LEMMA ReadingStep ==
    ASSUME IndInv, NEW s \in Sessions, Reading(s)
    PROVE  IndInv'
<1>1. TypeOK /\ SuccessorsExist BY DEF IndInv
<1>2. UNCHANGED <<objects, history, overtaken, crossed>>
  BY <1>1, ReadingFacts
<1>3. PICK request \in Requests :
          /\ session' = [session EXCEPT ![s] = request]
          /\ Exists(request.object)
          /\ request.op = "confirm" =>
                 /\ request.arg.revision = objects[request.object].revision
                 /\ request.arg.content = objects[request.object].content
          /\ request.op \in {"supersede", "repoint"} =>
                 /\ request.arg # request.object
                 /\ objects[request.arg].successor = None
  BY <1>1, ReadingFacts
<1>4. /\ session'[s] = request
      /\ \A t \in Sessions \ {s} : session'[t] = session[t]
  BY <1>1, <1>3 DEF TypeOK
<1>5. TypeOK' BY <1>1, <1>2, <1>3 DEF TypeOK
<1>6. /\ RevisionIsContent' /\ ConfirmedIsOld' /\ ConfirmedWasRead'
      /\ SuccessorsExist' /\ Ordered'
  BY <1>2 DEF IndInv, RevisionIsContent, ConfirmedIsOld, ConfirmedWasRead,
              Confirmations, SuccessorsExist, Ordered, Ranks, Exists
<1>7. ReadingsHold'
  <2>1. SUFFICES ASSUME NEW t \in Sessions, Turn(t, "confirm")',
                        NEW p, p = session'[t].object,
                        NEW read, read = session'[t].arg
                 PROVE  /\ read.revision \in DOMAIN history[p]
                        /\ Exists(p) /\ read.revision = objects[p].revision
                               => read.content = objects[p].content
    BY <1>2 DEF ReadingsHold, Exists
  <2>2. CASE t = s
    <3>1. /\ request.op = "confirm"
          /\ p = request.object /\ read = request.arg
      BY <1>4, <2>1, <2>2 DEF Turn
    <3>2. p \in Objects BY <3>1 DEF Requests
    <3>. QED BY <1>3, <3>1, <3>2 DEF IndInv, RevisionIsContent
  <2>3. CASE t # s
    <3>1. Turn(t, "confirm") /\ p = session[t].object /\ read = session[t].arg
      BY <1>4, <2>1, <2>3 DEF Turn
    <3>. QED BY <3>1 DEF IndInv, ReadingsHold
  <2>. QED BY <2>2, <2>3
<1>8. SuccessorsEnd'
  <2>1. SUFFICES ASSUME NEW t \in Sessions, Superseding(t)', t \notin overtaken,
                        NEW new, new = session'[t].arg
                 PROVE  /\ new # session'[t].object
                        /\ Exists(new) => objects[new].successor = None
    BY <1>2 DEF SuccessorsEnd, Exists
  <2>2. CASE t = s
    <3>1. request.op \in {"supersede", "repoint"}
      BY <1>4, <2>1, <2>2 DEF Superseding, Turn
    <3>. QED BY <1>3, <1>4, <2>1, <2>2, <3>1
  <2>3. CASE t # s
    <3>1. Superseding(t) /\ session'[t] = session[t]
      BY <1>4, <2>1, <2>3 DEF Superseding, Turn
    <3>. QED BY <2>1, <3>1 DEF IndInv, SuccessorsEnd
  <2>. QED BY <2>2, <2>3
<1>. QED BY <1>5, <1>6, <1>7, <1>8 DEF IndInv

\* A new object: nobody can have read it or point to it.
LEMMA CreateStep ==
    ASSUME IndInv, NEW o \in Objects, NEW c \in Contents, Create(o, c)
    PROVE  IndInv'
<1>. DEFINE row == NewRow(c)
            created == Event("created", c)
<1>1. TypeOK /\ history[o] = << >> BY DEF IndInv, Create
<1>2. /\ row \in Rows
      /\ row.lifecycle = "active" /\ row.successor = None
      /\ row.content = c /\ row.revision = 1 /\ row.confirmed = 0
  BY DEF NewRow, Rows, Lifecycles
<1>3. created \in Events /\ Event("source_changed", None) \in Events
  BY DEF Events, Kinds, Event
<1>4. PICK h : /\ history' = [history EXCEPT ![o] = h]
               /\ \E named \in {<< >>, <<Event("source_changed", None)>>} :
                      h = <<created>> \o named
  BY DEF Create
<1>5. /\ h \in Seq(Events)
      /\ 1 \in DOMAIN h /\ h[1] = created
      /\ \A n \in DOMAIN h : n = 1 \/ h[n].kind = "source_changed"
      /\ Len(h) \in Nat
  <2>. HIDE DEF created
  <2>1. CASE h = <<created>> \o << >>
    <3>1. h = <<created>> BY <1>3, <2>1
    <3>. QED BY <1>3, <3>1
  <2>2. CASE h = <<created>> \o <<Event("source_changed", None)>>
    <3>1. PICK b \in Events : b = Event("source_changed", None) BY <1>3
    <3>2. /\ h \in Seq(Events) /\ Len(h) = 2
          /\ h[1] = created /\ h[2] = b
      BY <1>3, <2>2, <3>1
    <3>3. b.kind = "source_changed" BY <3>1 DEF Event
    <3>. QED BY <3>2, <3>3
  <2>. QED BY <1>4, <2>1, <2>2
<1>6. /\ objects'[o] = row /\ history'[o] = h
      /\ \A p \in Objects \ {o} :
             objects'[p] = objects[p] /\ history'[p] = history[p]
  BY <1>1, <1>4 DEF Create, TypeOK
<1>7. /\ Exists(o)'
      /\ \A p \in Objects \ {o} : Exists(p)' = Exists(p)
  BY <1>2, <1>6, NullAssumption DEF Exists
<1>8. ~ Exists(o) BY <1>1 DEF IndInv, RevisionIsContent
<1>9. UNCHANGED <<session, overtaken, crossed>> BY DEF Create
<1>10. TypeOK'
  <2>1. objects' \in [Objects -> Rows \cup {None}]
    BY <1>1, <1>2 DEF Create, TypeOK
  <2>2. history' \in [Objects -> Seq(Events)] BY <1>1, <1>4, <1>5 DEF TypeOK
  <2>. QED BY <1>1, <1>9, <2>1, <2>2 DEF TypeOK
<1>11. RevisionIsContent'
  <2>1. /\ row.revision \in DOMAIN h
        /\ h[row.revision].kind \in ContentBearing
        /\ h[row.revision].content = row.content
        /\ \A n \in DOMAIN h : h[n].kind \in ContentBearing => n <= row.revision
    BY <1>2, <1>5 DEF Event, ContentBearing
  <2>. QED BY <1>6, <1>7, <2>1 DEF IndInv, RevisionIsContent
<1>12. ConfirmedIsOld' BY <1>2, <1>5, <1>6, <1>7 DEF IndInv, ConfirmedIsOld
<1>13. ConfirmedWasRead'
  <2>1. SUFFICES ASSUME NEW p \in Objects, Exists(p)',
                        objects'[p].confirmed = objects'[p].revision
                 PROVE  \E n \in Confirmations(p)' :
                            /\ history'[p][n].content = objects'[p].content
                            /\ n > objects'[p].revision
    BY DEF ConfirmedWasRead
  <2>2. p # o BY <1>2, <1>6, <2>1
  <2>3. objects'[p] = objects[p] /\ history'[p] = history[p] BY <1>6, <2>2
  <2>. QED BY <1>7, <2>1, <2>2, <2>3 DEF IndInv, ConfirmedWasRead, Confirmations
<1>14. ReadingsHold'
  <2>1. SUFFICES ASSUME NEW t \in Sessions, Turn(t, "confirm"),
                        NEW p, p = session[t].object,
                        NEW read, read = session[t].arg
                 PROVE  /\ read.revision \in DOMAIN history'[p]
                        /\ Exists(p)' /\ read.revision = objects'[p].revision
                               => read.content = objects'[p].content
    BY <1>9 DEF ReadingsHold, Turn, Exists
  <2>2. /\ read.revision \in DOMAIN history[p]
        /\ Exists(p) /\ read.revision = objects[p].revision =>
               read.content = objects[p].content
    BY <2>1 DEF IndInv, ReadingsHold
  <2>3. p \in Objects BY <1>1, <2>1, RequestsTyped DEF Turn
  <2>4. p # o BY <1>1, <2>2
  <2>. QED BY <1>6, <1>7, <2>2, <2>3, <2>4
<1>15. SuccessorsExist'
  <2>1. \A p \in Objects : Exists(p) /\ objects[p].successor # None =>
            objects[p].successor \in Objects
    BY <1>1, RowsAreThere
  <2>2. \A p \in Objects : Exists(p) => Exists(p)' BY <1>7
  <2>3. SUFFICES ASSUME NEW p \in Objects, Exists(p)'
                 PROVE  /\ objects'[p].lifecycle = "superseded"
                               <=> objects'[p].successor # None
                        /\ objects'[p].successor # None =>
                               Exists(objects[p].successor)'
    BY DEF SuccessorsExist, Exists
  <2>4. CASE p = o BY <1>2, <1>6, <2>4
  <2>5. CASE p # o
    <3>1. Exists(p) /\ objects'[p] = objects[p] BY <1>6, <1>7, <2>3, <2>5
    <3>2. /\ objects[p].lifecycle = "superseded" <=> objects[p].successor # None
          /\ objects[p].successor # None => Exists(objects[p].successor)
      BY <3>1 DEF IndInv, SuccessorsExist
    <3>3. ASSUME NEW q \in Objects, q = objects[p].successor
          PROVE  Exists(objects[p].successor)'
      <4>1. Exists(q)' BY <2>2, <3>2, <3>3, NoneAssumption
      <4>. QED BY <3>1, <3>3, <4>1 DEF Exists
    <3>. QED BY <2>1, <3>1, <3>2, <3>3
  <2>. QED BY <2>4, <2>5
<1>16. SuccessorsEnd'
  <2>1. SUFFICES ASSUME NEW t \in Sessions, Superseding(t), t \notin overtaken,
                        NEW new, new = session[t].arg
                 PROVE  /\ new # session[t].object
                        /\ Exists(new)' => objects'[new].successor = None
    BY <1>9 DEF SuccessorsEnd, Superseding, Turn, Exists
  <2>2. new \in Objects BY <1>1, <2>1, RequestsTyped DEF Superseding, Turn
  <2>. QED BY <1>2, <1>6, <1>7, <2>1, <2>2 DEF IndInv, SuccessorsEnd
<1>17. Ordered'
  <2>1. ASSUME NEW r, Ranks(r) PROVE Ranks(r)'
    BY <1>2, <1>6, <1>7, <2>1 DEF Ranks
  <2>. QED BY <1>9, <2>1 DEF IndInv, Ordered
<1>. QED BY <1>10, <1>11, <1>12, <1>13, <1>14, <1>15, <1>16, <1>17 DEF IndInv

LEMMA WritingStep ==
    ASSUME IndInv, NEW s \in Sessions, Writing(s)
    PROVE  IndInv'
<1>1. TypeOK BY DEF IndInv
<1>2. session[s] # None
  BY DEF Writing, UpdateContent, UpdateBasis, Confirm, Unconfirm, Archive,
         Unarchive, Reactivate, Supersede, SourceChanged, Delete, Turn
<1>3. CASE Supersede(s)
  <2>1. LinkShape(s) BY <1>1, <1>3, ShapeOfSupersede
  <2>2. Ended(s) BY <1>1, <1>3 DEF Supersede, End, Ended, TypeOK
  <2>3. TypeOK' BY <1>1, <1>2, <2>1, <2>2, TypesKept
  <2>4. RevisionIsContent' BY <1>2, <2>1, RevisionKept DEF IndInv
  <2>5. ConfirmedIsOld' /\ ConfirmedWasRead'
    BY <1>2, <2>1, ConfirmationsKept DEF IndInv
  <2>6. ReadingsHold' BY <1>2, <2>1, <2>2, ReadingsKept DEF IndInv
  <2>7. SuccessorsExist' BY <1>2, <2>1, SuccessorsKept DEF IndInv
  <2>8. SuccessorsEnd' /\ Ordered' BY <1>3, OrderExtended DEF IndInv
  <2>. QED BY <2>3, <2>4, <2>5, <2>6, <2>7, <2>8 DEF IndInv
<1>4. CASE ~ Supersede(s)
  <2>1. Shape(s)
    BY <1>1, <1>4, ShapeOfUpdates, ShapeOfConfirm, ShapeOfOthers, ShapeOfDelete
       DEF Writing, Others
  <2>2. Done(s) /\ UNCHANGED crossed
    BY <1>4 DEF Writing, UpdateContent, UpdateBasis, Confirm, Unconfirm,
                Archive, Unarchive, Reactivate, SourceChanged, Delete
  <2>3. Ended(s) BY <1>1, <2>2 DEF Done, End, Ended, TypeOK
  <2>4. TypeOK' BY <1>1, <1>2, <2>1, <2>3, TypesKept
  <2>5. RevisionIsContent' BY <1>2, <2>1, RevisionKept DEF IndInv
  <2>6. ConfirmedIsOld' /\ ConfirmedWasRead'
    BY <1>2, <2>1, ConfirmationsKept DEF IndInv
  <2>7. ReadingsHold' BY <1>2, <2>1, <2>3, ReadingsKept DEF IndInv
  <2>8. SuccessorsExist' BY <1>2, <2>1, SuccessorsKept DEF IndInv
  <2>9. SuccessorsEnd' /\ Ordered'
    BY <1>2, <2>1, <2>2, OrderKept DEF IndInv, Done, End
  <2>. QED BY <2>4, <2>5, <2>6, <2>7, <2>8, <2>9 DEF IndInv
<1>. QED BY <1>3, <1>4

-----------------------------------------------------------------------------
(* The theorems.                                                           *)

\* The invariant holds of every state of every run.
THEOREM Invariance == Spec => []IndInv
<1>1. Init => IndInv BY InitOK
<1>2. IndInv /\ [Next]_vars => IndInv'
  <2>. SUFFICES ASSUME IndInv, [Next]_vars PROVE IndInv' OBVIOUS
  <2>1. CASE UNCHANGED vars
    BY <2>1 DEF vars, IndInv, TypeOK, RevisionIsContent, ConfirmedIsOld,
                ReadingsHold, ConfirmedWasRead, Confirmations, SuccessorsExist,
                SuccessorsEnd, Ordered, Ranks, Superseding, Turn, Exists
  <2>2. CASE Next
    BY <2>2, CreateStep, ReadingStep, WritingStep DEF Next
  <2>. QED BY <2>1, <2>2
<1>. QED BY <1>1, <1>2, PTL DEF Spec

\* The tables and the requests keep their types.
THEOREM Typing == Spec => []TypeOK
<1>1. IndInv => TypeOK BY DEF IndInv
<1>. QED BY <1>1, Invariance, PTL

\* current_revision names the last content-bearing revision and what it says,
\* whatever sessions come between the reading and the writing of another.
THEOREM RevisionsAreTrue == Spec => []RevisionIsContent
<1>1. IndInv => RevisionIsContent BY DEF IndInv
<1>. QED BY <1>1, Invariance, PTL

\* Nobody's confirmation comes to count for a content that was not read.
THEOREM ConfirmationsAreTrue == Spec => []ConfirmedWasRead
<1>1. IndInv => ConfirmedWasRead BY DEF IndInv
<1>. QED BY <1>1, Invariance, PTL

\* No deletion leaves a superseded object without its successor.
THEOREM SuccessorsAreThere == Spec => []SuccessorsExist
<1>1. IndInv => SuccessorsExist BY DEF IndInv
<1>. QED BY <1>1, Invariance, PTL

\* Objects that can be ordered along their successors form no circle.
LEMMA NoCircle ==
    ASSUME NEW r, Ranks(r), NEW ring \in SUBSET Objects
    PROVE  ~ Circle(ring)
<1>. SUFFICES ASSUME Circle(ring), ring # {} PROVE FALSE BY DEF Circle
<1>. DEFINE Below == OpToRel(<, Nat)
            ranks == {r[o] : o \in ring}
<1>1. r \in [Objects -> Nat] BY DEF Ranks
<1>2. ranks \subseteq Nat /\ ranks # {} BY <1>1
<1>3. IsWellFoundedOn(Below, Nat) BY NatLessThanWellFounded
<1>. HIDE DEF Below, ranks
<1>4. PICK least \in ranks : \A m \in ranks : ~ (<<m, least>> \in Below)
  BY <1>2, <1>3, WFMin
<1>5. PICK o \in ring : least = r[o] BY <1>4 DEF ranks
<1>. DEFINE next == objects[o].successor
<1>6. Exists(o) /\ next \in ring BY <1>5 DEF Circle
<1>7. r[next] < r[o] BY <1>6, NoneAssumption DEF Ranks
<1>8. r[next] \in ranks BY <1>6 DEF ranks
<1>9. <<r[next], least>> \in Below
  BY <1>1, <1>5, <1>6, <1>7 DEF Below, OpToRel
<1>. QED BY <1>4, <1>8, <1>9

\* A circle of successors takes two supersessions that were looked at before
\* either was written.
THEOREM CirclesTakeARace == Spec => []CirclesNeedARace
<1>1. IndInv => CirclesNeedARace
  BY NoCircle DEF IndInv, Ordered, CirclesNeedARace
<1>. QED BY <1>1, Invariance, PTL

-----------------------------------------------------------------------------
(***************************************************************************)
(* Saved answers and experiences: module KnowledgeMemory.  It shares the   *)
(* requests of the sessions with KnowledgeObjects and no other state.      *)
(***************************************************************************)

-----------------------------------------------------------------------------
(* The inductive invariant of KnowledgeMemory.                             *)

Drafts == [source: Entries, of: Questions, review: Questions \cup {None}]

\* What a request names; an addition and its subject determine each other.
RequestOK(r) ==
    \/ \E q \in Questions : r = [op |-> "save", subject |-> <<"save", q>>]
    \/ \E e \in Entries : \E op \in {"find", "promote"} :
          r = [op |-> op, subject |-> <<"promote", e>>]
    \/ \E x, y \in Entries :
          /\ x # y
          /\ r = [op |-> "link", subject |-> <<"link", {x, y}>>, from |-> x, to |-> y]
    \/ \E e \in Entries : \E op \in {"delete", "restore", "purge"} :
          r = [op |-> op, subject |-> <<op, e>>]

ShapesOK ==
    /\ session = [s \in Sessions |-> session[s]]
    /\ \A s \in Sessions : session[s] # None => RequestOK(session[s])
    /\ draft \in [Sessions -> Drafts \cup {None}]
    /\ links \subseteq Entries \X Entries

\* A session that is promoting has the draft it reviewed.
DraftsKept ==
    \A s \in Sessions : Turn(s, "find") \/ Turn(s, "promote") =>
        draft[s] # None /\ draft[s].review # None

SameAddition(s, t) ==
    /\ session[s] # None /\ session[t] # None
    /\ session[s].subject = session[t].subject /\ session[s].subject[1] \in Additions

\* Two sessions that add the same are known to race.
RacesKnown ==
    \A s, t \in Sessions :
        s # t /\ SameAddition(s, t) => session[s].subject \in raced

\* What a session is about to add was not there when it looked, and was only
\* restored since, or added in a race.
AbsentSince(s) ==
    LET subject == session[s].subject IN
    /\ Turn(s, "save") =>
          (\A e \in Copies(subject[2]) : e \in restored \/ subject \in raced)
    /\ Turn(s, "promote") =>
          (\A x \in Experiences(subject[2]) : x \in restored \/ subject \in raced)
    /\ Turn(s, "link") =>
          (<<session[s].to, session[s].from>> \in links => subject \in raced)

Awake(e) == Stored(e) /\ entries[e].status = "active"

\* What is about to be destroyed was deleted, and is no later row.
PurgesDeleted ==
    \A s \in Sessions : Turn(s, "purge") =>
        LET e == session[s].subject[2] IN e <= lastEntry /\ (Awake(e) => e \in restored)

MemoryInv ==
    /\ MemoryTypeOK /\ ShapesOK /\ DraftsKept
    /\ RacesKnown /\ PurgesDeleted
    /\ \A s \in Sessions : AbsentSince(s)
    /\ CopiesTakeARace
-----------------------------------------------------------------------------
\* The parts of the type invariant.
EntriesOK ==
    /\ entries \in [Entries -> EntryRows \cup {None}]
    /\ lastEntry \in 0 .. MaxEntries
    /\ \A e \in Entries : Stored(e) =>
          /\ e <= lastEntry
          /\ entries[e].source # None => Stored(entries[e].source)

LinksOK == \A l \in links : l[1] # l[2] /\ Stored(l[1]) /\ Stored(l[2])

(***************************************************************************)
(* They and the drafts of the sessions make up the type invariant.         *)
(***************************************************************************)
LEMMA TypeParts ==
    /\ MemoryTypeOK => EntriesOK /\ LinksOK
    /\ EntriesOK /\ LinksOK /\ DraftsKept => MemoryTypeOK
  BY DEF MemoryTypeOK, EntriesOK, LinksOK, DraftsKept

(***************************************************************************)
(* The requests by their operation.                                        *)
(***************************************************************************)
LEMMA Subjects ==
    ASSUME ShapesOK, NEW s \in Sessions, session[s] # None
    PROVE  /\ Turn(s, "save") => \E q \in Questions : session[s].subject = <<"save", q>>
           /\ Turn(s, "find") \/ Turn(s, "promote") =>
                 \E e \in Entries : session[s].subject = <<"promote", e>>
           /\ Turn(s, "link") =>
                 /\ session[s].from \in Entries /\ session[s].to \in Entries
                 /\ session[s].from # session[s].to
                 /\ session[s].subject = <<"link", {session[s].from, session[s].to}>>
           /\ \A op \in {"delete", "restore", "purge"} : Turn(s, op) =>
                 \E e \in Entries : session[s].subject = <<op, e>>
<1>1. RequestOK(session[s])
  BY DEF ShapesOK
<1>2. CASE \E q \in Questions : session[s] = [op |-> "save", subject |-> <<"save", q>>]
  BY <1>2 DEF Turn
<1>3. CASE \E e \in Entries : \E op \in {"find", "promote"} :
              session[s] = [op |-> op, subject |-> <<"promote", e>>]
  BY <1>3 DEF Turn
<1>4. CASE \E x, y \in Entries :
              /\ x # y
              /\ session[s] = [op |-> "link", subject |-> <<"link", {x, y}>>,
                               from |-> x, to |-> y]
  BY <1>4 DEF Turn
<1>5. CASE \E e \in Entries : \E op \in {"delete", "restore", "purge"} :
              session[s] = [op |-> op, subject |-> <<op, e>>]
  BY <1>5 DEF Turn
<1> QED
  BY <1>1, <1>2, <1>3, <1>4, <1>5 DEF RequestOK

(***************************************************************************)
(* A new row has a new id.                                                 *)
(***************************************************************************)
LEMMA InsertIsNew ==
    ASSUME EntriesOK, NEW row \in EntryRows, Insert(row),
           row.source # None => Stored(row.source)
    PROVE  /\ EntriesOK' /\ lastEntry' = lastEntry + 1 /\ lastEntry + 1 \in Entries /\ ~Stored(lastEntry + 1)
           /\ entries' = [entries EXCEPT ![lastEntry + 1] = row]
           /\ \A e \in Entries : Stored(e) => Stored(e)'
<1>1. lastEntry \in Nat /\ MaxEntries \in Nat /\ lastEntry < MaxEntries
  BY MemoryAssumption DEF EntriesOK, Insert
<1>2. lastEntry + 1 \in Entries /\ ~Stored(lastEntry + 1)
  <2>1. lastEntry + 1 \in Entries
    BY <1>1 DEF Entries
  <2>2. ~(lastEntry + 1 <= lastEntry)
    BY <1>1
  <2> QED
    BY <2>1, <2>2 DEF EntriesOK
<1>3. entries' \in [Entries -> EntryRows \cup {None}]
  BY <1>2 DEF EntriesOK, Insert
<1>4. \A e \in Entries : Stored(e) => Stored(e)' /\ entries'[e] = entries[e]
  BY <1>2 DEF Stored, Insert, EntriesOK
<1>5. row # None
  BY MemoryAssumption
<1>6. \A e \in Entries : Stored(e) /\ entries[e].source # None => entries[e].source \in Entries
  BY DEF Stored, EntriesOK, EntryRows
<1>7. row.source # None => row.source \in Entries
  BY DEF EntryRows
<1>8. ASSUME NEW e \in Entries, Stored(e)'
      PROVE  (e <= lastEntry /\ (entries[e].source # None => Stored(entries[e].source)))'
  <2>1. CASE e = lastEntry + 1
    <3>1. entries'[e] = row
      BY <1>2, <2>1 DEF Insert, EntriesOK
    <3>2. row.source # None => entries'[row.source] # None
      BY <1>4, <1>7 DEF Stored
    <3>3. e <= lastEntry'
      BY <1>1, <2>1 DEF Insert
    <3> QED
      BY <3>1, <3>2, <3>3 DEF Stored
  <2>2. CASE e # lastEntry + 1
    <3>1. entries'[e] = entries[e] /\ Stored(e)
      BY <1>8, <2>2 DEF Insert, EntriesOK, Stored
    <3>2. e <= lastEntry' 
      BY <1>1, <3>1 DEF EntriesOK, Insert, Entries
    <3> QED
      BY <1>4, <1>6, <3>1, <3>2 DEF EntriesOK
  <2> QED
    BY <2>1, <2>2
<1>9. lastEntry' \in 0 .. MaxEntries /\ lastEntry' = lastEntry + 1
  BY <1>1 DEF Insert
<1> QED
  BY <1>2, <1>3, <1>4, <1>8, <1>9 DEF EntriesOK, Insert, Stored

(***************************************************************************)
(* A status set by id leaves the rows where they are.                      *)
(***************************************************************************)
LEMMA StatusTyped ==
    ASSUME EntriesOK, NEW e \in Entries, NEW v \in {"active", "deleted"},
           SetStatus(e, v), lastEntry' = lastEntry
    PROVE  /\ EntriesOK'
           /\ \A f \in Entries : Stored(f)' = Stored(f)
           /\ \A f \in Entries : Stored(f) =>
                 /\ entries'[f].kind = entries[f].kind
                 /\ entries'[f].of = entries[f].of
                 /\ entries'[f].source = entries[f].source
                 /\ entries'[f].status = IF f = e THEN v ELSE entries[f].status
<1>1. CASE ~Stored(e)
  <2>1. entries' = entries
    BY <1>1 DEF SetStatus
  <2> QED
    BY <1>1, <2>1 DEF EntriesOK, Stored
<1>2. CASE Stored(e)
  <2>1. entries[e] \in EntryRows /\ [entries[e] EXCEPT !.status = v] \in EntryRows
    BY <1>2 DEF EntriesOK, Stored, EntryRows
  <2>2. entries' = [entries EXCEPT ![e] = [entries[e] EXCEPT !.status = v]]
    BY <1>2 DEF SetStatus
  <2>3. entries' \in [Entries -> EntryRows \cup {None}]
    BY <2>1, <2>2 DEF EntriesOK
  <2>4. \A f \in Entries : Stored(f)' = Stored(f)
    BY <1>2, <2>1, <2>2, MemoryAssumption DEF EntriesOK, Stored
  <2>5. \A f \in Entries : Stored(f) =>
           /\ entries'[f].kind = entries[f].kind
           /\ entries'[f].of = entries[f].of
           /\ entries'[f].source = entries[f].source
           /\ entries'[f].status = IF f = e THEN v ELSE entries[f].status
    BY <2>1, <2>2 DEF EntriesOK, Stored, EntryRows
  <2>6. \A f \in Entries : Stored(f) => entries[f].source \in Entries \cup {None}
    BY DEF EntriesOK, Stored, EntryRows
  <2> QED
    BY <2>3, <2>4, <2>5, <2>6 DEF EntriesOK
<1> QED
  BY <1>1, <1>2

-----------------------------------------------------------------------------
(***************************************************************************)
(* What can come up between the look and the addition of a session: a      *)
(* restored entry, or one that was added in a race.                        *)
(***************************************************************************)
CopyComesUp(q) ==
    Copies(q)' \subseteq Copies(q) \cup restored' \/ <<"save", q>> \in raced'

ExperienceComesUp(e) ==
    Experiences(e)' \subseteq Experiences(e) \cup restored' \/ <<"promote", e>> \in raced'

LinkComesUp(x, y) ==
    <<y, x>> \in links' => <<y, x>> \in links \/ <<"link", {x, y}>> \in raced'

Grow == restored \subseteq restored' /\ raced \subseteq raced'

(***************************************************************************)
(* A session finds what it is about to add absent, or raced for, as before. *)
(***************************************************************************)
LEMMA AbsentKept ==
    ASSUME ShapesOK, Grow, NEW t \in Sessions, AbsentSince(t), session'[t] = session[t],
           \A q \in Questions : session[t] # None /\ session[t].subject = <<"save", q>>
              => CopyComesUp(q),
           \A e \in Entries :
              session[t] # None /\ session[t].subject = <<"promote", e>>
              => ExperienceComesUp(e),
           \A x, y \in Entries :
              session[t] # None /\ session[t].subject = <<"link", {x, y}>>
              => LinkComesUp(x, y)
    PROVE  AbsentSince(t)'
<1>1. CASE session[t] = None
  BY <1>1 DEF AbsentSince, Turn
<1>2. CASE Turn(t, "save")
  <2>1. PICK q \in Questions : session[t].subject = <<"save", q>>
    BY <1>2, Subjects DEF Turn
  <2>2. CopyComesUp(q) /\ session[t].subject[2] = q
    BY <1>2, <2>1 DEF Turn
  <2>3. \A e \in Copies(q)' : e \in restored' \/ <<"save", q>> \in raced'
    BY <1>2, <2>1, <2>2 DEF CopyComesUp, AbsentSince, Grow
  <2> QED
    BY <1>2, <2>1, <2>2, <2>3 DEF AbsentSince, Turn
<1>3. CASE Turn(t, "promote")
  <2>1. PICK e \in Entries : session[t].subject = <<"promote", e>>
    BY <1>3, Subjects DEF Turn
  <2>2. ExperienceComesUp(e) /\ session[t].subject[2] = e
    BY <1>3, <2>1 DEF Turn
  <2>3. \A x \in Experiences(e)' : x \in restored' \/ <<"promote", e>> \in raced'
    BY <1>3, <2>1, <2>2 DEF ExperienceComesUp, AbsentSince, Grow
  <2> QED
    BY <1>3, <2>1, <2>2, <2>3 DEF AbsentSince, Turn
<1>4. CASE Turn(t, "link")
  <2>1. /\ session[t].from \in Entries /\ session[t].to \in Entries
        /\ session[t].subject = <<"link", {session[t].from, session[t].to}>>
    BY <1>4, Subjects DEF Turn
  <2>2. LinkComesUp(session[t].from, session[t].to)
    BY <1>4, <2>1 DEF Turn
  <2> QED
    BY <1>4, <2>1, <2>2 DEF LinkComesUp, AbsentSince, Turn, Grow
<1>5. CASE ~Turn(t, "save") /\ ~Turn(t, "promote") /\ ~Turn(t, "link")
  BY <1>5 DEF AbsentSince, Turn
<1> QED
  BY <1>1, <1>2, <1>3, <1>4, <1>5

(***************************************************************************)
(* Nothing new: what was saved, promoted and linked before, or restored.   *)
(***************************************************************************)
NothingNew ==
    /\ \A q \in Questions : Copies(q)' \subseteq Copies(q) \cup restored'
    /\ \A e \in Entries : Experiences(e)' \subseteq Experiences(e) \cup restored'
    /\ links' \subseteq links

LEMMA NothingNewKeeps ==
    ASSUME CopiesTakeARace, NothingNew, Grow
    PROVE  CopiesTakeARace'
<1>1. ASSUME NEW q \in Questions, NEW e \in Copies(q)', NEW f \in Copies(q)', e # f
      PROVE  {e, f} \cap restored' # {} \/ <<"save", q>> \in raced'
  <2>1. CASE e \in restored' \/ f \in restored'
    BY <2>1
  <2>2. CASE e \in Copies(q) /\ f \in Copies(q)
    BY <1>1, <2>2 DEF CopiesTakeARace, Grow
  <2> QED
    BY <1>1, <2>1, <2>2 DEF NothingNew
<1>2. ASSUME NEW e \in Entries, NEW x \in Experiences(e)', NEW y \in Experiences(e)', x # y
      PROVE  {x, y} \cap restored' # {} \/ <<"promote", e>> \in raced'
  <2>1. CASE x \in restored' \/ y \in restored'
    BY <2>1
  <2>2. CASE x \in Experiences(e) /\ y \in Experiences(e)
    BY <1>2, <2>2 DEF CopiesTakeARace, Grow
  <2> QED
    BY <1>2, <2>1, <2>2 DEF NothingNew
<1>3. ASSUME NEW l \in links', <<l[2], l[1]>> \in links'
      PROVE  <<"link", {l[1], l[2]}>> \in raced'
  BY <1>3 DEF NothingNew, CopiesTakeARace, Grow
<1> QED
  BY <1>1, <1>2, <1>3 DEF CopiesTakeARace

(***************************************************************************)
(* So it does when a step of another session adds nothing.                 *)
(***************************************************************************)
LEMMA AbsentCalm ==
    ASSUME ShapesOK, Grow, NEW t \in Sessions, AbsentSince(t), session'[t] = session[t],
           NothingNew
    PROVE  AbsentSince(t)'
<1>1. \A q \in Questions : CopyComesUp(q)
  BY DEF NothingNew, CopyComesUp
<1>2. \A e \in Entries : ExperienceComesUp(e)
  BY DEF NothingNew, ExperienceComesUp
<1>3. \A x, y \in Entries : LinkComesUp(x, y)
  BY DEF NothingNew, LinkComesUp
<1> QED
  BY <1>1, <1>2, <1>3, AbsentKept

-----------------------------------------------------------------------------
(***************************************************************************)
(* Races.                                                                  *)
(***************************************************************************)
LEMMA BeginRaces ==
    ASSUME ShapesOK, RacesKnown, NEW s \in Sessions, NEW r, Ask(s, r)
    PROVE  /\ RacesKnown' /\ raced \subseteq raced'
           /\ session[s] = None /\ session'[s] = r
           /\ session' = [t \in Sessions |-> session'[t]]
           /\ \A t \in Sessions \ {s} : session'[t] = session[t]
<1>1. /\ session[s] = None /\ session'[s] = r
      /\ session' = [t \in Sessions |-> session'[t]]
      /\ \A t \in Sessions \ {s} : session'[t] = session[t]
      /\ raced \subseteq raced'
  BY DEF Ask, Begin, ShapesOK
<1>2. ASSUME NEW t \in Sessions \ {s}, session[t] # None, session[t].subject = r.subject,
             r.subject[1] \in Additions
      PROVE  r.subject \in raced'
  BY <1>2 DEF Ask, Begin
<1>3. ASSUME NEW t \in Sessions, NEW u \in Sessions, t # u, SameAddition(t, u)'
      PROVE  session'[t].subject \in raced'
  <2>1. CASE t = s
    BY <1>1, <1>2, <1>3, <2>1 DEF SameAddition
  <2>2. CASE u = s
    BY <1>1, <1>2, <1>3, <2>2 DEF SameAddition
  <2>3. CASE t # s /\ u # s
    BY <1>1, <1>3, <2>3 DEF SameAddition, RacesKnown
  <2> QED
    BY <2>1, <2>2, <2>3
<1> QED
  BY <1>1, <1>3 DEF RacesKnown

\* A request goes on with its subject, or ends.
GoesOn(t) ==
    \/ session'[t] = None
    \/ session[t] # None /\ session'[t].subject = session[t].subject

LEMMA RacesStay ==
    ASSUME RacesKnown, raced' = raced, \A t \in Sessions : GoesOn(t)
    PROVE  RacesKnown'
  BY DEF RacesKnown, SameAddition, GoesOn

LEMMA EndOf ==
    ASSUME ShapesOK, NEW s \in Sessions, End(s)
    PROVE  /\ \A t \in Sessions : GoesOn(t)
           /\ session'[s] = None
           /\ session' = [t \in Sessions |-> session'[t]]
           /\ \A t \in Sessions \ {s} : session'[t] = session[t]
  BY DEF End, ShapesOK, GoesOn

-----------------------------------------------------------------------------
(***************************************************************************)
(* A step that takes no draft from a session that goes on keeps the draft  *)
(* of every promotion.                                                     *)
(***************************************************************************)
LEMMA DraftsStay ==
    ASSUME DraftsKept, \A t \in Sessions : session'[t] = session[t] => draft'[t] = draft[t],
           \A t \in Sessions : session'[t] # session[t] =>
              \/ session'[t] = None
              \/ session'[t].op \notin {"find", "promote"}
              \/ draft'[t] # None /\ draft'[t].review # None
    PROVE  DraftsKept'
  BY DEF DraftsKept, Turn

(***************************************************************************)
(* What only looks: the requests begin.                                    *)
(***************************************************************************)
Looks(s, r) ==
    /\ RequestOK(r)
    /\ r.op = "save" => Copies(r.subject[2]) = {}
    /\ r.op # "promote"
    /\ r.op = "find" => draft[s] # None /\ draft[s].review # None
    /\ r.op = "link" => <<r.to, r.from>> \notin links
    /\ r.op = "purge" => Stored(r.subject[2]) /\ entries[r.subject[2]].status = "deleted"

LEMMA BeginKeeps ==
    ASSUME MemoryInv, NEW s \in Sessions, NEW r, Ask(s, r), Looks(s, r),
           UNCHANGED <<entries, lastEntry, links, draft, restored>>
    PROVE  MemoryInv'
<1>1. /\ RacesKnown' /\ raced \subseteq raced'
      /\ session[s] = None /\ session'[s] = r
      /\ session' = [t \in Sessions |-> session'[t]]
      /\ \A t \in Sessions \ {s} : session'[t] = session[t]
  BY BeginRaces DEF MemoryInv
<1>2. ShapesOK'
  BY <1>1 DEF MemoryInv, ShapesOK, Looks
<1>3. DraftsKept'
  BY <1>1, DraftsStay DEF MemoryInv, Looks
<1>4. MemoryTypeOK'
  BY <1>3 DEF MemoryInv, MemoryTypeOK, DraftsKept, Stored
<1>5. NothingNew /\ Grow
  BY <1>1 DEF NothingNew, Grow, Copies, Experiences, Active, Stored
<1>6. CopiesTakeARace'
  BY <1>5, NothingNewKeeps DEF MemoryInv
<1>7. ASSUME NEW t \in Sessions PROVE AbsentSince(t)'
  <2>1. CASE t = s
    BY <1>1, <2>1 DEF AbsentSince, Turn, Looks, Copies, Active, Stored
  <2>2. CASE t # s
    BY <1>1, <1>5, <2>2, AbsentCalm DEF MemoryInv
  <2> QED
    BY <2>1, <2>2
<1>8. PurgesDeleted'
  <2>1. ASSUME r.op = "purge" PROVE r.subject[2] <= lastEntry /\ ~Awake(r.subject[2])
    <3>1. PICK e \in Entries : r.subject = <<"purge", e>>
      BY <2>1 DEF Looks, RequestOK
    <3> QED
      BY <2>1, <3>1 DEF Looks, MemoryInv, MemoryTypeOK, Awake
  <2> QED
    BY <1>1, <2>1 DEF MemoryInv, PurgesDeleted, Turn, Awake, Stored
<1> QED
  BY <1>1, <1>2, <1>3, <1>4, <1>6, <1>7, <1>8 DEF MemoryInv

(***************************************************************************)
(* The looks of each request.                                              *)
(***************************************************************************)
LEMMA LookingKeeps ==
    ASSUME MemoryInv, NEW s \in Sessions
    PROVE  /\ \A q \in Questions : FindCopy(s, q) => MemoryInv'
           /\ \A e \in Entries :
                 ReadPromote(s, e) \/ ReadDeleteEntry(s, e)
                 \/ ReadRestore(s, e) \/ ReadPurge(s, e)
                    => MemoryInv'
           /\ \A x, y \in Entries : ReadLink(s, x, y) => MemoryInv'
<1>1. ASSUME NEW q \in Questions, FindCopy(s, q) PROVE MemoryInv'
  <2> DEFINE r == [op |-> "save", subject |-> <<"save", q>>]
  <2>1. Looks(s, r)
    BY <1>1 DEF FindCopy, Looks, RequestOK
  <2> QED
    BY <1>1, <2>1, BeginKeeps DEF FindCopy
<1>2. ASSUME NEW e \in Entries, ReadPromote(s, e) PROVE MemoryInv'
  <2> DEFINE r == [op |-> "find", subject |-> <<"promote", e>>]
  <2>1. Looks(s, r)
    BY <1>2 DEF ReadPromote, Drafting, Looks, RequestOK
  <2> QED
    BY <1>2, <2>1, BeginKeeps DEF ReadPromote
<1>3. ASSUME NEW e \in Entries, ReadDeleteEntry(s, e) PROVE MemoryInv'
  <2> DEFINE r == [op |-> "delete", subject |-> <<"delete", e>>]
  <2>1. Looks(s, r)
    BY DEF Looks, RequestOK
  <2> QED
    BY <1>3, <2>1, BeginKeeps DEF ReadDeleteEntry
<1>4. ASSUME NEW e \in Entries, ReadRestore(s, e) PROVE MemoryInv'
  <2> DEFINE r == [op |-> "restore", subject |-> <<"restore", e>>]
  <2>1. Looks(s, r)
    BY DEF Looks, RequestOK
  <2> QED
    BY <1>4, <2>1, BeginKeeps DEF ReadRestore
<1>5. ASSUME NEW e \in Entries, ReadPurge(s, e) PROVE MemoryInv'
  <2> DEFINE r == [op |-> "purge", subject |-> <<"purge", e>>]
  <2>1. Looks(s, r)
    BY <1>5 DEF ReadPurge, Looks, RequestOK
  <2> QED
    BY <1>5, <2>1, BeginKeeps DEF ReadPurge
<1>6. ASSUME NEW x \in Entries, NEW y \in Entries, ReadLink(s, x, y) PROVE MemoryInv'
  <2> DEFINE r == [op |-> "link", subject |-> <<"link", {x, y}>>, from |-> x, to |-> y]
  <2>1. Looks(s, r)
    BY <1>6 DEF ReadLink, Looks, RequestOK
  <2> QED
    BY <1>6, <2>1, BeginKeeps DEF ReadLink
<1> QED
  BY <1>1, <1>2, <1>3, <1>4, <1>5, <1>6

(***************************************************************************)
(* The draft in a session that has no request.                             *)
(***************************************************************************)
LEMMA DraftingKeeps ==
    ASSUME MemoryInv, NEW s \in Sessions, NEW d \in Drafts \cup {None}, session[s] = None,
           draft' = [draft EXCEPT ![s] = d],
           UNCHANGED <<entries, lastEntry, links, session, deletions, restored, raced>>
    PROVE  MemoryInv'
<1>1. ShapesOK'
  BY DEF MemoryInv, ShapesOK
<1>2. DraftsKept'
  BY DEF MemoryInv, ShapesOK, DraftsKept, Turn
<1>3. MemoryTypeOK'
  BY <1>2 DEF MemoryInv, MemoryTypeOK, DraftsKept, Stored
<1>4. NothingNew /\ Grow
  BY DEF NothingNew, Grow, Copies, Experiences, Active, Stored
<1>5. CopiesTakeARace'
  BY <1>4, NothingNewKeeps DEF MemoryInv
<1>6. \A t \in Sessions : AbsentSince(t)'
  BY <1>4, AbsentCalm DEF MemoryInv
<1>7. RacesKnown' /\ PurgesDeleted'
  BY DEF MemoryInv, RacesKnown, SameAddition, PurgesDeleted, Turn, Awake, Stored
<1> QED
  BY <1>1, <1>2, <1>3, <1>5, <1>6, <1>7 DEF MemoryInv

(***************************************************************************)
(* A draft is made, reviewed, given up, or taken back from its review.     *)
(***************************************************************************)
LEMMA DraftStepsKeep ==
    ASSUME MemoryInv, NEW s \in Sessions, NEW e \in Entries,
           Generate(s, e) \/ Review(s, e) \/ Back(s, e)
    PROVE  MemoryInv'
<1>1. draft[s] \in Drafts \cup {None} /\ DOMAIN draft = Sessions
  BY DEF MemoryInv, ShapesOK
<1>2. CASE Generate(s, e)
  <2> DEFINE d == [source |-> e, of |-> entries[e].of,
                   review |-> IF draft[s] = None THEN None ELSE draft[s].review]
  <2>1. entries[e].of \in Questions
    BY <1>2 DEF Generate, Active, Stored, MemoryInv, MemoryTypeOK, EntryRows
  <2>2. d \in Drafts
    BY <1>1, <2>1 DEF Drafts
  <2>3. draft' = [draft EXCEPT ![s] = d]
    BY <1>2 DEF Generate
  <2>4. /\ session[s] = None
        /\ UNCHANGED <<entries, lastEntry, links, session, deletions, restored, raced>>
    BY <1>2 DEF Generate
  <2> HIDE DEF d
  <2> QED
    BY <2>2, <2>3, <2>4, DraftingKeeps
<1>3. CASE Review(s, e) \/ Back(s, e)
  <2>1. /\ session[s] = None /\ draft[s] \in Drafts
        /\ UNCHANGED <<entries, lastEntry, links, session, deletions, restored, raced>>
    BY <1>1, <1>3 DEF Review, Back, Drafting
  <2>2. \A v \in Questions \cup {None} : [draft[s] EXCEPT !.review = v] \in Drafts
    BY <2>1 DEF Drafts
  <2>3. draft[s].of \in Questions
    BY <2>1 DEF Drafts
  <2>4. PICK d \in Drafts \cup {None} : draft' = [draft EXCEPT ![s] = d]
    <3>1. \/ draft' = [draft EXCEPT ![s] = [draft[s] EXCEPT !.review = draft[s].of]]
          \/ draft' = [draft EXCEPT ![s] = None]
          \/ draft' = [draft EXCEPT ![s] = [draft[s] EXCEPT !.review = None]]
      BY <1>3 DEF Review, Back
    <3> QED
      BY <2>2, <2>3, <3>1
  <2> QED
    BY <2>1, <2>4, DraftingKeeps
<1> QED
  BY <1>2, <1>3

-----------------------------------------------------------------------------
(***************************************************************************)
(* The second look of a promotion.                                         *)
(***************************************************************************)
LEMMA FindKeeps ==
    ASSUME MemoryInv, NEW s \in Sessions, FindExperience(s)
    PROVE  MemoryInv'
<1>1. PICK e \in Entries : session[s].subject = <<"promote", e>>
  BY Subjects DEF FindExperience, Turn, MemoryInv
<1>2. RequestOK(session[s]) /\ session[s].op = "find" /\ session[s] # None
  BY DEF FindExperience, Turn, MemoryInv, ShapesOK
<1>3. session[s] = [op |-> "find", subject |-> <<"promote", e>>]
  <2>1. \E f \in Entries : \E op \in {"find", "promote"} :
           session[s] = [op |-> op, subject |-> <<"promote", f>>]
    <3>1. CASE \E q \in Questions : session[s] = [op |-> "save", subject |-> <<"save", q>>]
      BY <1>2, <3>1
    <3>2. CASE \E x, y \in Entries :
                  session[s] = [op |-> "link", subject |-> <<"link", {x, y}>>,
                                from |-> x, to |-> y]
      BY <1>2, <3>2
    <3>3. CASE \E f \in Entries : \E op \in {"delete", "restore", "purge"} :
                  session[s] = [op |-> op, subject |-> <<op, f>>]
      BY <1>2, <3>3
    <3> QED
      BY <1>2, <3>1, <3>2, <3>3 DEF RequestOK
  <2> QED
    BY <1>1, <1>2, <2>1
<1>4. \/ /\ Experiences(e) = {}
         /\ session'[s] = [op |-> "promote", subject |-> <<"promote", e>>]
      \/ session'[s] = None
  BY <1>3 DEF FindExperience, End, MemoryInv, ShapesOK
<1>5. /\ session' = [t \in Sessions |-> session'[t]]
      /\ \A t \in Sessions \ {s} : session'[t] = session[t]
      /\ UNCHANGED <<entries, lastEntry, links, draft, deletions, restored, raced>>
  BY DEF FindExperience, End, MemoryInv, ShapesOK
<1>6. ShapesOK'
  <2>1. session'[s] # None => RequestOK(session'[s])
    BY <1>4 DEF RequestOK
  <2> QED
    BY <1>5, <2>1 DEF MemoryInv, ShapesOK, RequestOK
<1>7. DraftsKept'
  BY <1>2, <1>5 DEF MemoryInv, DraftsKept, Turn
<1>8. MemoryTypeOK'
  BY <1>5, <1>7 DEF MemoryInv, MemoryTypeOK, DraftsKept, Stored
<1>9. NothingNew /\ Grow
  BY <1>5 DEF NothingNew, Grow, Copies, Experiences, Active, Stored
<1>10. CopiesTakeARace'
  BY <1>9, NothingNewKeeps DEF MemoryInv
<1>11. ASSUME NEW t \in Sessions PROVE AbsentSince(t)'
  <2>1. CASE t # s
    BY <1>5, <1>9, <2>1, AbsentCalm DEF MemoryInv
  <2>2. CASE t = s /\ session'[s] = None
    BY <2>2 DEF AbsentSince, Turn
  <2>3. CASE t = s /\ session'[s] # None
    <3>1. Experiences(e)' = {} /\ session'[t].op = "promote" /\ session'[t].subject[2] = e
      BY <1>4, <1>5, <2>3 DEF Experiences, Active, Stored
    <3> QED
      BY <3>1 DEF AbsentSince, Turn
  <2> QED
    BY <2>1, <2>2, <2>3
<1>12. RacesKnown'
  <2>1. \A t \in Sessions : GoesOn(t)
    BY <1>2, <1>1, <1>4, <1>5 DEF GoesOn
  <2> QED
    BY <1>5, <2>1, RacesStay DEF MemoryInv
<1>13. PurgesDeleted'
  <2>1. ASSUME NEW t \in Sessions, Turn(t, "purge")'
        PROVE  Turn(t, "purge") /\ session'[t] = session[t]
    BY <1>4, <1>5, <2>1 DEF Turn
  <2> QED
    BY <1>5, <2>1 DEF MemoryInv, PurgesDeleted, Awake, Stored
<1> QED
  BY <1>6, <1>7, <1>8, <1>10, <1>11, <1>12, <1>13 DEF MemoryInv

(***************************************************************************)
(* The end of a request: what it leaves of the invariant when the rows and *)
(* links are in order and no row but a restored one wakes up.              *)
(***************************************************************************)
LEMMA EndKeeps ==
    ASSUME MemoryInv, NEW s \in Sessions, End(s), UNCHANGED raced,
           restored \subseteq restored',
           EntriesOK', LinksOK', links' \subseteq Entries \X Entries,
           draft' \in [Sessions -> Drafts \cup {None}],
           \A t \in Sessions \ {s} : draft'[t] = draft[t],
           lastEntry' \in Nat, lastEntry \in Nat, lastEntry <= lastEntry',
           \A e \in Entries : e <= lastEntry /\ Awake(e)' => Awake(e) \/ e \in restored'
    PROVE  /\ MemoryTypeOK' /\ ShapesOK' /\ DraftsKept' /\ RacesKnown' /\ PurgesDeleted' /\ Grow
           /\ AbsentSince(s)'
<1>1. /\ session'[s] = None
      /\ session' = [t \in Sessions |-> session'[t]]
      /\ \A t \in Sessions \ {s} : session'[t] = session[t]
      /\ \A t \in Sessions : GoesOn(t)
  BY EndOf DEF MemoryInv
<1>2. ShapesOK'
  BY <1>1 DEF MemoryInv, ShapesOK
<1>3. DraftsKept'
  BY <1>1 DEF MemoryInv, DraftsKept, Turn
<1>4. MemoryTypeOK'
  BY <1>3 DEF EntriesOK, LinksOK, DraftsKept, MemoryTypeOK
<1>5. RacesKnown'
  BY <1>1, RacesStay DEF MemoryInv
<1>6. ASSUME NEW t \in Sessions, Turn(t, "purge")'
      PROVE  (LET e == session[t].subject[2] IN e <= lastEntry /\ (Awake(e) => e \in restored))'
  <2>1. t # s /\ Turn(t, "purge") /\ session'[t] = session[t]
    BY <1>1, <1>6 DEF Turn
  <2>2. PICK e \in Entries : session[t].subject = <<"purge", e>>
    BY <2>1, Subjects DEF MemoryInv, Turn
  <2>3. e <= lastEntry /\ (Awake(e) => e \in restored)
    BY <2>1, <2>2 DEF MemoryInv, PurgesDeleted
  <2>4. e \in Nat
    BY DEF Entries
  <2>5. e <= lastEntry' /\ (Awake(e)' => e \in restored')
    BY <2>3, <2>4
  <2> QED
    BY <2>1, <2>2, <2>5 DEF Awake, Stored
<1>7. PurgesDeleted'
  BY <1>6 DEF PurgesDeleted
<1> QED
  BY <1>1, <1>2, <1>3, <1>4, <1>5, <1>7 DEF Grow, AbsentSince, Turn

(***************************************************************************)
(* A copy is added: if another one is there, it came up in a race.         *)
(***************************************************************************)
LEMMA SaveKeeps ==
    ASSUME MemoryInv, NEW s \in Sessions, SaveCopy(s)
    PROVE  MemoryInv'
<1>1. PICK q \in Questions : session[s].subject = <<"save", q>>
  BY Subjects DEF SaveCopy, Turn, MemoryInv
<1> DEFINE row == [kind |-> "raw_qa", status |-> "active", of |-> q, source |-> None]
           n == lastEntry + 1
<1>2. /\ row \in EntryRows /\ row.source = None /\ row.kind = "raw_qa" /\ row.of = q
      /\ row.status = "active"
  BY DEF EntryRows
<1>3. Insert(row) /\ End(s) /\ UNCHANGED <<links, draft, deletions, restored, raced>>
  BY <1>1 DEF SaveCopy
<1> HIDE DEF row
<1>4. EntriesOK /\ LinksOK
  BY TypeParts DEF MemoryInv
<1>5. /\ EntriesOK' /\ lastEntry' = n /\ n \in Entries /\ ~Stored(n)
      /\ entries' = [entries EXCEPT ![n] = row]
      /\ \A e \in Entries : Stored(e) => Stored(e)'
  BY <1>2, <1>3, <1>4, InsertIsNew
<1>6. lastEntry \in Nat /\ n \in Nat /\ lastEntry <= n /\ ~(n <= lastEntry)
  BY <1>4 DEF EntriesOK
<1>7. \A e \in Entries : e # n => entries'[e] = entries[e]
  BY <1>4, <1>5 DEF EntriesOK
<1>8. entries'[n] = row
  BY <1>4, <1>5 DEF EntriesOK
<1>9. LinksOK'
  BY <1>3, <1>4, <1>5 DEF LinksOK, MemoryInv, ShapesOK
<1>10. \A e \in Entries : e <= lastEntry /\ Awake(e)' => Awake(e) \/ e \in restored'
  BY <1>6, <1>7 DEF Awake, Stored
<1>11. /\ MemoryTypeOK' /\ ShapesOK' /\ DraftsKept' /\ RacesKnown' /\ PurgesDeleted' /\ Grow
       /\ AbsentSince(s)'
  <2>1. /\ links' \subseteq Entries \X Entries
        /\ draft' \in [Sessions -> Drafts \cup {None}] /\ draft' = draft
        /\ restored' = restored /\ raced' = raced
    BY <1>3 DEF MemoryInv, ShapesOK
  <2> QED
    BY <1>3, <1>5, <1>6, <1>9, <1>10, <2>1, EndKeeps
<1>12. \A p \in Questions : p # q => Copies(p)' \subseteq Copies(p)
  BY <1>2, <1>7, <1>8 DEF Copies, Active, Stored
<1>13. Copies(q)' \subseteq Copies(q) \cup {n}
  BY <1>7 DEF Copies, Active, Stored
<1>14. \A e \in Entries : Experiences(e)' \subseteq Experiences(e)
  BY <1>2, <1>7, <1>8 DEF Experiences, Active, Stored
<1>15. \A e \in Copies(q) : e \in restored \/ <<"save", q>> \in raced
  <2>1. session[s].subject[2] = q /\ Turn(s, "save") /\ AbsentSince(s)
    BY <1>1 DEF MemoryInv, SaveCopy
  <2>2. \A e \in Copies(session[s].subject[2]) :
           e \in restored \/ session[s].subject \in raced
    BY <2>1 DEF AbsentSince
  <2> QED
    BY <1>1, <2>1, <2>2
<1>16. ASSUME NEW t \in Sessions PROVE AbsentSince(t)'
  <2>1. CASE t = s
    BY <1>11, <2>1
  <2>2. CASE t # s
    <3>1. session'[t] = session[t]
      BY <1>3, <2>2 DEF End
    <3>2. ASSUME NEW p \in Questions, session[t] # None, session[t].subject = <<"save", p>>
          PROVE  CopyComesUp(p)
      <4>1. CASE p # q
        BY <1>12, <4>1 DEF CopyComesUp
      <4>2. CASE p = q
        <5>1. session[s] # None
          BY DEF SaveCopy, Turn
        <5>2. SameAddition(s, t)
          BY <1>1, <3>2, <4>2, <5>1 DEF SameAddition, Additions
        <5>3. <<"save", q>> \in raced
          BY <1>1, <2>2, <5>2 DEF MemoryInv, RacesKnown
        <5> QED
          BY <1>3, <4>2, <5>3 DEF CopyComesUp
      <4> QED
        BY <4>1, <4>2
    <3>3. \A e \in Entries : ExperienceComesUp(e)
      BY <1>14 DEF ExperienceComesUp
    <3>4. \A x, y \in Entries : LinkComesUp(x, y)
      BY <1>3 DEF LinkComesUp
    <3> QED
      BY <1>11, <3>1, <3>2, <3>3, <3>4, AbsentKept DEF MemoryInv
  <2> QED
    BY <2>1, <2>2
<1>17. CopiesTakeARace'
  <2>1. ASSUME NEW p \in Questions, NEW e \in Copies(p)', NEW f \in Copies(p)', e # f
        PROVE  {e, f} \cap restored' # {} \/ <<"save", p>> \in raced'
    <3>1. CASE e \in Copies(p) /\ f \in Copies(p)
      BY <1>3, <2>1, <3>1 DEF MemoryInv, CopiesTakeARace
    <3>2. CASE p = q /\ (e \in Copies(q) \/ f \in Copies(q))
      BY <1>3, <1>15, <3>2
    <3> QED
      BY <1>12, <1>13, <2>1, <3>1, <3>2
  <2>2. ASSUME NEW e \in Entries, NEW x \in Experiences(e)', NEW y \in Experiences(e)', x # y
        PROVE  {x, y} \cap restored' # {} \/ <<"promote", e>> \in raced'
    BY <1>3, <1>14, <2>2 DEF MemoryInv, CopiesTakeARace
  <2>3. ASSUME NEW l \in links', <<l[2], l[1]>> \in links'
        PROVE  <<"link", {l[1], l[2]}>> \in raced'
    BY <1>3, <2>3 DEF MemoryInv, CopiesTakeARace
  <2> QED
    BY <2>1, <2>2, <2>3 DEF CopiesTakeARace
<1> QED
  BY <1>11, <1>16, <1>17 DEF MemoryInv

(***************************************************************************)
(* So is an experience.                                                    *)
(***************************************************************************)
LEMMA PromoteKeeps ==
    ASSUME MemoryInv, NEW s \in Sessions, Promote(s)
    PROVE  MemoryInv'
<1>1. PICK e \in Entries : session[s].subject = <<"promote", e>>
  BY Subjects DEF Promote, Turn, MemoryInv
<1>2. /\ Turn(s, "promote") /\ session[s] # None /\ session[s].subject[2] = e /\ End(s)
      /\ UNCHANGED <<links, deletions, restored, raced>>
  BY <1>1 DEF Promote, Turn
<1>3. draft[s] \in Drafts /\ draft[s].review \in Questions
  <2>1. draft[s] # None /\ draft[s].review # None
    BY <1>2 DEF MemoryInv, DraftsKept
  <2>2. draft[s] \in Drafts
    BY <2>1 DEF MemoryInv, ShapesOK
  <2> QED
    BY <2>1, <2>2 DEF Drafts
<1>4. EntriesOK /\ LinksOK /\ lastEntry \in Nat
  <2>1. EntriesOK /\ LinksOK
    BY TypeParts DEF MemoryInv
  <2> QED
    BY <2>1 DEF EntriesOK
<1>5. /\ links' \subseteq Entries \X Entries /\ restored' = restored /\ raced' = raced
      /\ draft \in [Sessions -> Drafts \cup {None}]
  BY <1>2 DEF MemoryInv, ShapesOK
<1>6. CASE ~Stored(e)
  <2>1. UNCHANGED <<entries, lastEntry, draft>>
    BY <1>2, <1>6 DEF Promote
  <2>2. EntriesOK' /\ LinksOK'
    BY <1>2, <1>4, <2>1 DEF EntriesOK, LinksOK, Stored
  <2>3. \A f \in Entries : f <= lastEntry /\ Awake(f)' => Awake(f) \/ f \in restored'
    BY <2>1 DEF Awake, Stored
  <2>4. lastEntry <= lastEntry' /\ lastEntry' \in Nat
    BY <1>4, <2>1
  <2>5. /\ MemoryTypeOK' /\ ShapesOK' /\ DraftsKept' /\ RacesKnown' /\ PurgesDeleted' /\ Grow
        /\ AbsentSince(s)'
    BY <1>2, <1>4, <1>5, <2>1, <2>2, <2>3, <2>4, EndKeeps
  <2>6. NothingNew
    BY <1>2, <2>1 DEF NothingNew, Copies, Experiences, Active, Stored
  <2>7. \A t \in Sessions \ {s} : session'[t] = session[t]
    BY <1>2 DEF End
  <2>8. \A t \in Sessions : AbsentSince(t)'
    BY <2>5, <2>6, <2>7, AbsentCalm DEF MemoryInv
  <2> QED
    BY <2>5, <2>6, <2>8, NothingNewKeeps DEF MemoryInv
<1>7. CASE Stored(e)
  <2> DEFINE row == [kind |-> "experience", status |-> "active",
                     of |-> draft[s].review, source |-> e]
             n == lastEntry + 1
  <2>1. /\ row \in EntryRows /\ row.source = e /\ row.kind = "experience" /\ row.status = "active"
    BY <1>3 DEF EntryRows
  <2>2. Insert(row) /\ draft' = [draft EXCEPT ![s] = None]
    BY <1>2, <1>7 DEF Promote
  <2> HIDE DEF row
  <2>3. /\ EntriesOK' /\ lastEntry' = n /\ n \in Entries /\ ~Stored(n)
        /\ entries' = [entries EXCEPT ![n] = row]
        /\ \A f \in Entries : Stored(f) => Stored(f)'
    BY <1>4, <1>7, <2>1, <2>2, InsertIsNew
  <2>4. n \in Nat /\ lastEntry <= n /\ ~(n <= lastEntry)
    BY <1>4
  <2>5. \A f \in Entries : f # n => entries'[f] = entries[f]
    BY <1>4, <2>3 DEF EntriesOK
  <2>6. entries'[n] = row
    BY <1>4, <2>3 DEF EntriesOK
  <2>7. LinksOK'
    BY <1>2, <1>4, <2>3 DEF LinksOK, MemoryInv, ShapesOK
  <2>8. \A f \in Entries : f <= lastEntry /\ Awake(f)' => Awake(f) \/ f \in restored'
    BY <2>4, <2>5 DEF Awake, Stored
  <2>9. /\ draft' \in [Sessions -> Drafts \cup {None}]
        /\ \A t \in Sessions \ {s} : draft'[t] = draft[t]
    BY <1>5, <2>2
  <2>10. /\ MemoryTypeOK' /\ ShapesOK' /\ DraftsKept' /\ RacesKnown' /\ PurgesDeleted' /\ Grow
         /\ AbsentSince(s)'
    BY <1>2, <1>4, <1>5, <2>3, <2>4, <2>7, <2>8, <2>9, EndKeeps
  <2>11. \A q \in Questions : Copies(q)' \subseteq Copies(q)
    BY <2>1, <2>5, <2>6 DEF Copies, Active, Stored
  <2>12. \A f \in Entries : f # e => Experiences(f)' \subseteq Experiences(f)
    BY <2>1, <2>5, <2>6 DEF Experiences, Active, Stored
  <2>13. Experiences(e)' \subseteq Experiences(e) \cup {n}
    BY <2>5 DEF Experiences, Active, Stored
  <2>14. \A x \in Experiences(e) : x \in restored \/ <<"promote", e>> \in raced
    <3>1. \A x \in Experiences(session[s].subject[2]) :
             x \in restored \/ session[s].subject \in raced
      BY <1>2 DEF MemoryInv, AbsentSince
    <3> QED
      BY <1>1, <1>2, <3>1
  <2>15. ASSUME NEW t \in Sessions PROVE AbsentSince(t)'
    <3>1. CASE t = s
      BY <2>10, <3>1
    <3>2. CASE t # s
      <4>1. session'[t] = session[t]
        BY <1>2, <3>2 DEF End
      <4>2. ASSUME NEW f \in Entries, session[t] # None, session[t].subject = <<"promote", f>>
            PROVE  ExperienceComesUp(f)
        <5>1. CASE f # e
          BY <2>12, <5>1 DEF ExperienceComesUp
        <5>2. CASE f = e
          <6>1. SameAddition(s, t)
            BY <1>1, <1>2, <4>2, <5>2 DEF SameAddition, Additions
          <6>2. <<"promote", e>> \in raced
            BY <1>1, <3>2, <6>1 DEF MemoryInv, RacesKnown
          <6> QED
            BY <1>5, <5>2, <6>2 DEF ExperienceComesUp
        <5> QED
          BY <5>1, <5>2
      <4>3. \A q \in Questions : CopyComesUp(q)
        BY <2>11 DEF CopyComesUp
      <4>4. \A x, y \in Entries : LinkComesUp(x, y)
        BY <1>2 DEF LinkComesUp
      <4> QED
        BY <2>10, <4>1, <4>2, <4>3, <4>4, AbsentKept DEF MemoryInv
    <3> QED
      BY <3>1, <3>2
  <2>16. CopiesTakeARace'
    <3>1. ASSUME NEW q \in Questions, NEW x \in Copies(q)', NEW y \in Copies(q)', x # y
          PROVE  {x, y} \cap restored' # {} \/ <<"save", q>> \in raced'
      BY <1>5, <2>11, <3>1 DEF MemoryInv, CopiesTakeARace
    <3>2. ASSUME NEW f \in Entries, NEW x \in Experiences(f)', NEW y \in Experiences(f)', x # y
          PROVE  {x, y} \cap restored' # {} \/ <<"promote", f>> \in raced'
      <4>1. CASE x \in Experiences(f) /\ y \in Experiences(f)
        BY <1>5, <3>2, <4>1 DEF MemoryInv, CopiesTakeARace
      <4>2. CASE f = e /\ (x \in Experiences(e) \/ y \in Experiences(e))
        BY <1>5, <2>14, <4>2
      <4> QED
        BY <2>12, <2>13, <3>2, <4>1, <4>2
    <3>3. ASSUME NEW l \in links', <<l[2], l[1]>> \in links'
          PROVE  <<"link", {l[1], l[2]}>> \in raced'
      BY <1>2, <3>3 DEF MemoryInv, CopiesTakeARace
    <3> QED
      BY <3>1, <3>2, <3>3 DEF CopiesTakeARace
  <2> QED
    BY <2>10, <2>15, <2>16 DEF MemoryInv
<1> QED
  BY <1>6, <1>7

(***************************************************************************)
(* And a link.                                                             *)
(***************************************************************************)
LEMMA LinkKeeps ==
    ASSUME MemoryInv, NEW s \in Sessions, Link(s)
    PROVE  MemoryInv'
<1> DEFINE x == session[s].from
           y == session[s].to
<1>1. /\ x \in Entries /\ y \in Entries /\ x # y
      /\ session[s].subject = <<"link", {x, y}>>
  BY Subjects DEF Link, Turn, MemoryInv
<1>2. /\ Turn(s, "link") /\ session[s] # None /\ End(s)
      /\ links' = IF Stored(x) /\ Stored(y) THEN links \cup {<<x, y>>} ELSE links
      /\ UNCHANGED <<entries, lastEntry, draft, deletions, restored, raced>>
  BY DEF Link, Turn
<1>3. <<y, x>> \in links => <<"link", {x, y}>> \in raced
  BY <1>1, <1>2 DEF MemoryInv, AbsentSince
<1> HIDE DEF x, y
<1>4. EntriesOK /\ LinksOK /\ lastEntry \in Nat
  <2>1. EntriesOK /\ LinksOK
    BY TypeParts DEF MemoryInv
  <2> QED
    BY <2>1 DEF EntriesOK
<1>5. EntriesOK' /\ LinksOK' /\ links' \subseteq Entries \X Entries
  <2>1. EntriesOK'
    BY <1>2, <1>4 DEF EntriesOK, Stored
  <2>2. LinksOK'
    BY <1>1, <1>2, <1>4 DEF LinksOK, Stored
  <2> QED
    BY <1>1, <1>2, <2>1, <2>2 DEF MemoryInv, ShapesOK
<1>6. /\ MemoryTypeOK' /\ ShapesOK' /\ DraftsKept' /\ RacesKnown' /\ PurgesDeleted' /\ Grow
      /\ AbsentSince(s)'
  <2>1. \A f \in Entries : f <= lastEntry /\ Awake(f)' => Awake(f) \/ f \in restored'
    BY <1>2 DEF Awake, Stored
  <2>2. draft \in [Sessions -> Drafts \cup {None}]
    BY DEF MemoryInv, ShapesOK
  <2>3. lastEntry' \in Nat /\ lastEntry <= lastEntry'
    BY <1>2, <1>4
  <2> QED
    BY <1>2, <1>4, <1>5, <2>1, <2>2, <2>3, EndKeeps
<1>7. /\ \A q \in Questions : Copies(q)' = Copies(q)
      /\ \A e \in Entries : Experiences(e)' = Experiences(e)
  BY <1>2 DEF Copies, Experiences, Active, Stored
<1>8. ASSUME NEW t \in Sessions PROVE AbsentSince(t)'
  <2>1. CASE t = s
    BY <1>6, <2>1
  <2>2. CASE t # s
    <3>1. session'[t] = session[t]
      BY <1>2, <2>2 DEF End
    <3>2. ASSUME NEW v \in Entries, NEW w \in Entries,
                 session[t] # None, session[t].subject = <<"link", {v, w}>>
          PROVE  LinkComesUp(v, w)
      <4>1. CASE <<w, v>> # <<x, y>>
        BY <1>2, <4>1 DEF LinkComesUp
      <4>2. CASE <<w, v>> = <<x, y>>
        <5>1. {v, w} = {x, y}
          BY <4>2
        <5>2. SameAddition(s, t)
          BY <1>1, <1>2, <3>2, <5>1 DEF SameAddition, Additions
        <5>3. <<"link", {x, y}>> \in raced
          BY <1>1, <2>2, <5>2 DEF MemoryInv, RacesKnown
        <5> QED
          BY <1>2, <5>1, <5>3 DEF LinkComesUp
      <4> QED
        BY <4>1, <4>2
    <3>3. /\ \A q \in Questions : CopyComesUp(q)
          /\ \A e \in Entries : ExperienceComesUp(e)
      BY <1>7 DEF CopyComesUp, ExperienceComesUp
    <3> QED
      BY <1>6, <3>1, <3>2, <3>3, AbsentKept DEF MemoryInv
  <2> QED
    BY <2>1, <2>2
<1>9. CopiesTakeARace'
  <2>1. /\ \A q \in Questions : \A e, f \in Copies(q)' :
              e # f => {e, f} \cap restored' # {} \/ <<"save", q>> \in raced'
        /\ \A e \in Entries : \A v, w \in Experiences(e)' :
              v # w => {v, w} \cap restored' # {} \/ <<"promote", e>> \in raced'
    BY <1>2, <1>7 DEF MemoryInv, CopiesTakeARace
  <2>2. ASSUME NEW l \in links', <<l[2], l[1]>> \in links'
        PROVE  <<"link", {l[1], l[2]}>> \in raced'
    <3>1. l \in Entries \X Entries /\ l = <<l[1], l[2]>>
      BY <1>5
    <3>2. CASE l \in links /\ <<l[2], l[1]>> \in links
      BY <1>2, <3>2 DEF MemoryInv, CopiesTakeARace
    <3>3. CASE l = <<x, y>>
      <4>1. l[1] = x /\ l[2] = y
        BY <3>3
      <4>2. <<y, x>> \in links
        BY <1>1, <1>2, <2>2, <4>1
      <4> QED
        BY <1>2, <1>3, <4>1, <4>2
    <3>4. CASE <<l[2], l[1]>> = <<x, y>>
      <4>1. l[1] = y /\ l[2] = x
        BY <3>4
      <4>2. <<y, x>> \in links
        BY <1>1, <1>2, <2>2, <3>1, <4>1
      <4>3. {l[1], l[2]} = {x, y}
        BY <4>1
      <4> QED
        BY <1>2, <1>3, <4>2, <4>3
    <3> QED
      BY <1>2, <2>2, <3>2, <3>3, <3>4
  <2> QED
    BY <2>1, <2>2 DEF CopiesTakeARace
<1> QED
  BY <1>6, <1>8, <1>9 DEF MemoryInv

-----------------------------------------------------------------------------
(***************************************************************************)
(* Deleting, restoring and destroying add nothing new.                     *)
(***************************************************************************)
LEMMA CalmEnd ==
    ASSUME MemoryInv, NEW s \in Sessions, End(s), NothingNew,
           MemoryTypeOK', ShapesOK', DraftsKept', RacesKnown', PurgesDeleted', Grow,
           AbsentSince(s)'
    PROVE  MemoryInv'
<1>1. \A t \in Sessions \ {s} : session'[t] = session[t]
  BY DEF End
<1>2. \A t \in Sessions : AbsentSince(t)'
  BY <1>1, AbsentCalm DEF MemoryInv
<1> QED
  BY <1>2, NothingNewKeeps DEF MemoryInv

(***************************************************************************)
(* A deleted entry is found no more; one that is active again was restored. *)
(***************************************************************************)
LEMMA StatusKeeps ==
    ASSUME MemoryInv, NEW s \in Sessions, DeleteEntry(s) \/ Restore(s)
    PROVE  MemoryInv'
<1>1. PICK e \in Entries : session[s].subject[2] = e
  BY Subjects DEF DeleteEntry, Restore, Turn, MemoryInv
<1>2. PICK v \in {"active", "deleted"} :
         SetStatus(e, v) /\ (v = "active" /\ Stored(e) => e \in restored')
  BY <1>1 DEF DeleteEntry, Restore
<1>3. End(s) /\ UNCHANGED <<lastEntry, links, deletions, raced>> /\ restored \subseteq restored'
  BY DEF DeleteEntry, Restore
<1>4. EntriesOK /\ LinksOK /\ lastEntry \in Nat
  <2>1. EntriesOK /\ LinksOK
    BY TypeParts DEF MemoryInv
  <2> QED
    BY <2>1 DEF EntriesOK
<1>5. /\ EntriesOK'
      /\ \A f \in Entries : Stored(f)' = Stored(f)
      /\ \A f \in Entries : Stored(f) =>
            /\ entries'[f].kind = entries[f].kind
            /\ entries'[f].of = entries[f].of
            /\ entries'[f].source = entries[f].source
            /\ entries'[f].status = IF f = e THEN v ELSE entries[f].status
  BY <1>2, <1>3, <1>4, StatusTyped
<1>6. links' \subseteq Entries \X Entries /\ links \subseteq Entries \X Entries
  BY <1>3 DEF MemoryInv, ShapesOK
<1>7. LinksOK'
  BY <1>3, <1>4, <1>5, <1>6 DEF LinksOK
<1>8. ASSUME NEW f \in Entries, Awake(f)' PROVE Awake(f) \/ f \in restored'
  BY <1>2, <1>5, <1>8 DEF Awake
<1>9. /\ draft' \in [Sessions -> Drafts \cup {None}]
      /\ \A t \in Sessions \ {s} : draft'[t] = draft[t]
  <2>1. draft' = draft \/ draft' = [draft EXCEPT ![s] = None]
    BY DEF DeleteEntry, Restore
  <2> QED
    BY <2>1 DEF MemoryInv, ShapesOK
<1>10. /\ MemoryTypeOK' /\ ShapesOK' /\ DraftsKept' /\ RacesKnown' /\ PurgesDeleted' /\ Grow
       /\ AbsentSince(s)'
  <2>1. lastEntry' \in Nat /\ lastEntry <= lastEntry'
    BY <1>3, <1>4
  <2> QED
    BY <1>3, <1>4, <1>5, <1>6, <1>7, <1>8, <1>9, <2>1, EndKeeps
<1>11. NothingNew
  <2>1. ASSUME NEW f \in Entries, NEW kind, Active(f, kind)'
        PROVE  Active(f, kind) \/ f \in restored'
    BY <1>5, <1>8, <2>1 DEF Active, Awake
  <2>2. \A q \in Questions : Copies(q)' \subseteq Copies(q) \cup restored'
    BY <1>5, <2>1 DEF Copies, Active
  <2>3. \A f \in Entries : Experiences(f)' \subseteq Experiences(f) \cup restored'
    BY <1>5, <2>1 DEF Experiences, Active
  <2> QED
    BY <1>3, <2>2, <2>3 DEF NothingNew
<1> QED
  BY <1>3, <1>10, <1>11, CalmEnd

(***************************************************************************)
(* A destroyed entry takes its links with it, and its experiences lose their *)
(* source.                                                                 *)
(***************************************************************************)
LEMMA PurgeKeeps ==
    ASSUME MemoryInv, NEW s \in Sessions, Purge(s)
    PROVE  MemoryInv'
<1>1. PICK gone \in Entries : session[s].subject[2] = gone
  BY Subjects DEF Purge, Turn, MemoryInv
<1>2. /\ entries' = [e \in Entries |->
            IF e = gone THEN None
            ELSE IF Stored(e) /\ entries[e].source = gone
                 THEN [entries[e] EXCEPT !.source = None]
                 ELSE entries[e]]
      /\ links' = {l \in links : l[1] # gone /\ l[2] # gone}
      /\ End(s) /\ UNCHANGED <<lastEntry, draft, deletions, restored, raced>>
  BY <1>1 DEF Purge
<1>3. EntriesOK /\ LinksOK /\ lastEntry \in Nat
  <2>1. EntriesOK /\ LinksOK
    BY TypeParts DEF MemoryInv
  <2> QED
    BY <2>1 DEF EntriesOK
<1>4. ASSUME NEW e \in Entries
      PROVE  /\ entries'[e] \in EntryRows \cup {None}
             /\ Stored(e)' = (Stored(e) /\ e # gone)
             /\ Stored(e)' => /\ entries'[e].kind = entries[e].kind
                             /\ entries'[e].of = entries[e].of
                             /\ entries'[e].status = entries[e].status
                             /\ entries'[e].source =
                                   IF entries[e].source = gone THEN None ELSE entries[e].source
  <2>1. CASE ~Stored(e)
    BY <1>2, <2>1 DEF Stored
  <2>2. CASE Stored(e)
    <3>1. entries[e] \in EntryRows /\ [entries[e] EXCEPT !.source = None] \in EntryRows
      BY <1>3, <2>2 DEF EntriesOK, Stored, EntryRows
    <3>2. entries'[e] = IF e = gone THEN None
                        ELSE IF entries[e].source = gone
                             THEN [entries[e] EXCEPT !.source = None]
                             ELSE entries[e]
      BY <1>2, <2>2
    <3> QED
      BY <2>2, <3>1, <3>2, MemoryAssumption DEF Stored, EntryRows
  <2> QED
    BY <2>1, <2>2
<1>5. EntriesOK'
  <2>1. entries' \in [Entries -> EntryRows \cup {None}]
    BY <1>2, <1>4
  <2>2. lastEntry' \in 0 .. MaxEntries
    BY <1>2, <1>3 DEF EntriesOK
  <2>3. ASSUME NEW e \in Entries, Stored(e)'
        PROVE  (e <= lastEntry /\ (entries[e].source # None => Stored(entries[e].source)))'
    <3>1. Stored(e) /\ e <= lastEntry
      BY <1>3, <1>4, <2>3 DEF EntriesOK
    <3>2. ASSUME entries'[e].source # None PROVE entries'[entries'[e].source] # None
      <4>1. entries'[e].source = entries[e].source /\ entries[e].source # gone
        BY <1>4, <2>3, <3>2
      <4>2. Stored(entries[e].source) /\ entries[e].source \in Entries
        BY <1>3, <3>1, <3>2, <4>1 DEF EntriesOK, Stored, EntryRows
      <4> QED
        BY <1>4, <4>1, <4>2 DEF Stored
    <3> QED
      BY <1>2, <3>1, <3>2 DEF Stored
  <2> QED
    BY <2>1, <2>2, <2>3 DEF EntriesOK
<1>6. links' \subseteq links /\ links \subseteq Entries \X Entries
  BY <1>2 DEF MemoryInv, ShapesOK
<1>7. LinksOK'
  BY <1>2, <1>3, <1>4, <1>6 DEF LinksOK
<1>8. \A f \in Entries : f <= lastEntry /\ Awake(f)' => Awake(f) \/ f \in restored'
  BY <1>4 DEF Awake
<1>9. /\ MemoryTypeOK' /\ ShapesOK' /\ DraftsKept' /\ RacesKnown' /\ PurgesDeleted' /\ Grow
      /\ AbsentSince(s)'
  <2>1. draft \in [Sessions -> Drafts \cup {None}]
    BY DEF MemoryInv, ShapesOK
  <2>2. lastEntry' \in Nat /\ lastEntry <= lastEntry'
    BY <1>2, <1>3
  <2> QED
    BY <1>2, <1>3, <1>5, <1>6, <1>7, <1>8, <2>1, <2>2, EndKeeps
<1>10. NothingNew
  <2>1. \A q \in Questions : Copies(q)' \subseteq Copies(q)
    BY <1>4 DEF Copies, Active
  <2>2. ASSUME NEW f \in Entries PROVE Experiences(f)' \subseteq Experiences(f)
    <3>1. f # None
      BY MemoryAssumption
    <3> QED
      BY <1>4, <3>1 DEF Experiences, Active
  <2> QED
    BY <1>6, <2>1, <2>2 DEF NothingNew
<1> QED
  BY <1>2, <1>9, <1>10, CalmEnd

-----------------------------------------------------------------------------
(***************************************************************************)
(* No step at all.                                                         *)
(***************************************************************************)
LEMMA StutterKeeps ==
    ASSUME MemoryInv, UNCHANGED memoryVars
    PROVE  MemoryInv'
  BY DEF MemoryInv, memoryVars, MemoryTypeOK, ShapesOK, DraftsKept, RacesKnown, SameAddition,
         PurgesDeleted,
         AbsentSince, CopiesTakeARace, Turn, Stored, Awake, Copies, Experiences, Active

(***************************************************************************)
(* The beginning: nothing is kept and nothing asked.                       *)
(***************************************************************************)
LEMMA Starts ==
    ASSUME MemoryInit
    PROVE  MemoryInv
<1>1. \A e \in Entries : ~Stored(e)
  BY DEF MemoryInit, Stored
<1>2. \A s \in Sessions : session[s] = None /\ draft[s] = None
  BY DEF MemoryInit
<1>3. MemoryTypeOK
  BY <1>1, <1>2, MemoryAssumption DEF MemoryInit, MemoryTypeOK, Turn
<1>4. ShapesOK
  BY <1>2 DEF MemoryInit, ShapesOK
<1>5. DraftsKept /\ RacesKnown /\ PurgesDeleted /\ \A s \in Sessions : AbsentSince(s)
  BY <1>2 DEF DraftsKept, RacesKnown, SameAddition, PurgesDeleted, AbsentSince, Turn
<1>6. CopiesTakeARace
  BY <1>1 DEF CopiesTakeARace, Copies, Experiences, Active, MemoryInit
<1> QED
  BY <1>3, <1>4, <1>5, <1>6 DEF MemoryInv

(***************************************************************************)
(* The inductive invariant of saved answers and experiences, for every     *)
(* overlap of the sessions.                                                *)
(***************************************************************************)
THEOREM MemoryInvariance ==
    MemorySpec => []MemoryInv
<1>1. MemoryInit => MemoryInv
  BY Starts
<1>2. MemoryInv /\ [MemoryNext]_memoryVars => MemoryInv'
  BY LookingKeeps, DraftStepsKeep, FindKeeps, SaveKeeps, PromoteKeeps, LinkKeeps, StatusKeeps,
     PurgeKeeps, StutterKeeps DEF MemoryNext, Request
<1> QED
  BY <1>1, <1>2, PTL DEF MemorySpec

(***************************************************************************)
(* Entries and links name entries that are there, and a promotion has the  *)
(* draft that was reviewed.                                                *)
(***************************************************************************)
THEOREM MemoryTyping ==
    MemorySpec => []MemoryTypeOK
<1>1. MemoryInv => MemoryTypeOK
  BY DEF MemoryInv
<1> QED
  BY <1>1, MemoryInvariance, PTL

(***************************************************************************)
(* No answer is saved twice and none has two experiences, unless one of the *)
(* two was restored or two sessions were at it in one moment; two experiences *)
(* are related both ways only after two sessions related them at once.     *)
(***************************************************************************)
THEOREM RepetitionsTakeARace ==
    MemorySpec => []CopiesTakeARace
<1>1. MemoryInv => CopiesTakeARace
  BY DEF MemoryInv
<1> QED
  BY <1>1, MemoryInvariance, PTL

(***************************************************************************)
(* Only the permanent deletion takes an active entry away.                 *)
(***************************************************************************)
LEMMA OnlyPurgeDestroys ==
    ASSUME MemoryInv, NEW s \in Sessions, Request(s),
           NEW e \in Entries, Awake(e), entries'[e] = None
    PROVE  Purge(s)
<1>1. entries[e] # None /\ entries[e] \in EntryRows /\ e <= lastEntry /\ lastEntry \in Nat
      /\ DOMAIN entries = Entries
  BY DEF Awake, Stored, MemoryInv, MemoryTypeOK
<1>2. ASSUME NEW row, Insert(row) PROVE FALSE
  <2>1. entries' = [entries EXCEPT ![lastEntry + 1] = row]
    BY <1>2 DEF Insert
  <2>2. e # lastEntry + 1
    BY <1>1 DEF Entries
  <2> QED
    BY <1>1, <2>1, <2>2
<1>3. CASE SaveCopy(s) \/ Promote(s)
  <2>1. UNCHANGED entries \/ \E row : Insert(row)
    BY <1>3 DEF SaveCopy, Promote
  <2> QED
    BY <1>1, <1>2, <2>1
<1>4. CASE DeleteEntry(s) \/ Restore(s)
  <2>1. PICK f \in Entries : session[s].subject[2] = f
    BY <1>4, Subjects DEF DeleteEntry, Restore, Turn, MemoryInv
  <2>2. PICK v \in {"active", "deleted"} : SetStatus(f, v)
    BY <1>4, <2>1 DEF DeleteEntry, Restore
  <2>3. EntriesOK /\ lastEntry' = lastEntry
    BY <1>4, TypeParts DEF DeleteEntry, Restore, MemoryInv
  <2>4. Stored(e)' = Stored(e)
    BY <2>2, <2>3, StatusTyped
  <2> QED
    BY <1>1, <2>4 DEF Stored
<1>5. CASE UNCHANGED entries
  BY <1>1, <1>5
<1> QED
  BY <1>3, <1>4, <1>5
  DEF Request, FindCopy, Generate, Review, Back, ReadPromote, ReadDeleteEntry,
      ReadRestore, ReadPurge,
      FindExperience, ReadLink, Link

(***************************************************************************)
(* What a user never deleted is never destroyed: an active entry goes only *)
(* when it was deleted and restored.                                       *)
(***************************************************************************)
THEOREM OnlyDeletedIsDestroyed ==
    MemorySpec => DestroyedWasDeleted
<1> DEFINE Kept ==
      \A e \in Entries :
          Stored(e) /\ entries[e].status = "active" /\ entries'[e] = None => e \in restored
<1>1. ASSUME MemoryInv, MemoryNext PROVE Kept
  <2>1. PICK s \in Sessions : Request(s)
    BY <1>1 DEF MemoryNext
  <2>2. ASSUME NEW e \in Entries, Awake(e), entries'[e] = None PROVE e \in restored
    <3>1. Purge(s)
      BY <1>1, <2>1, <2>2, OnlyPurgeDestroys
    <3>2. PICK gone \in Entries : session[s].subject[2] = gone
      BY <1>1, <3>1, Subjects DEF Purge, Turn, MemoryInv
    <3>3. entries[e] \in EntryRows /\ [entries[e] EXCEPT !.source = None] \in EntryRows
      BY <1>1, <2>2 DEF Awake, Stored, MemoryInv, MemoryTypeOK, EntryRows
    <3>4. e = gone
      BY <2>2, <3>1, <3>2, <3>3, MemoryAssumption DEF Purge
    <3> QED
      BY <1>1, <2>2, <3>1, <3>2, <3>4 DEF MemoryInv, PurgesDeleted, Purge
  <2> QED
    BY <2>2 DEF Awake
<1>2. MemoryInv /\ [MemoryNext]_memoryVars => [Kept]_memoryVars
  BY <1>1
<1> QED
  BY <1>2, MemoryInvariance, PTL DEF MemorySpec, DestroyedWasDeleted

-----------------------------------------------------------------------------
(***************************************************************************)
(* The sources of the objects: module SourceLinks, over the pages of       *)
(* module Sources.  It shares Sessions, None and the requests with the     *)
(* others, and no other state.                                             *)
(*                                                                         *)
(* A session waits with what it read; the inductive invariant says what of *)
(* that still holds when it writes.                                        *)
(***************************************************************************)
USE LinksAssumption, ChangesAssumption

PagesOK == pages \in [Pages -> {{}} \cup {{c} : c \in PageContents \cup {None}}]

\* The ids of a row that is or was there have been given out.
NotesOK ==
    /\ notes \in [Anchors -> AnchorRows \cup {None}]
    /\ \A n \in Anchors : notes[n] # None => There(notes[n].page) /\ n \in given.note

ItemsOK ==
    /\ items \in [Anchors -> AnchorRows \cup {None}]
    /\ \A i \in Anchors :
           items[i] # None => There(items[i].page) /\ i \in given.evidence

CountersOK ==
    /\ given \in [note: SUBSET Anchors, evidence: SUBSET Anchors]
    /\ lastSource \in 0 .. MaxLinks
    /\ changes \in 0 .. MaxChanges

LinkRowsOK ==
    /\ DOMAIN sources = LinkIds
    /\ \A l \in LinkIds : sources[l] # None => sources[l].target \in Targets /\ l <= lastSource

\* What a session that waits can still rely on: its note is the note of the
\* page it read, its link names what it named.
LinkRequestOK(r) ==
    /\ r.op \in {"note", "evidence", "rebind"} => r.id \in Anchors /\ Row(r) \in AnchorRows
    /\ r.op = "rebind" =>
          r.id \in given.note /\ (notes[r.id] # None => notes[r.id].page = r.page)
    /\ r.op = "link" => r.target \in Targets
    /\ r.op = "recapture" =>
          /\ r.link \in LinkIds /\ r.link <= lastSource
          /\ r.row.target \in Targets
          /\ sources[r.link] # None => sources[r.link].target = r.row.target

SessionsOK ==
    /\ DOMAIN session = Sessions
    /\ \A s \in Sessions : session[s] # None => LinkRequestOK(session[s])

LinksInv ==
    /\ PagesOK /\ NotesOK /\ ItemsOK /\ CountersOK
    /\ LinkRowsOK /\ SessionsOK /\ LinksHaveTargets

(***************************************************************************)
(* The parts of the inductive invariant give the type invariant.           *)
(***************************************************************************)
LEMMA PartsAreTypes ==
    LinksInv => LinksTypeOK
  BY DEF LinksInv, LinksTypeOK, PagesOK, NotesOK, ItemsOK, CountersOK, LinkRowsOK

(***************************************************************************)
(* The parts hold of an empty catalogue.                                   *)
(***************************************************************************)
LEMMA PartsInit ==
    LinksInit => LinksInv
  BY DEF LinksInit, LinksInv, PagesOK, NotesOK, ItemsOK, CountersOK, LinkRowsOK, SessionsOK,
         LinksHaveTargets, LinkIds

(***************************************************************************)
(* A page that is there holds a content, or nothing to quote.              *)
(***************************************************************************)
LEMMA ContentTyped ==
    ASSUME PagesOK, NEW p \in Pages, There(p)
    PROVE  Content(p) \in PageContents \cup {None}
<1>1. PICK c \in PageContents \cup {None} : pages[p] = {c}
  BY DEF PagesOK, There
<1> QED
  BY <1>1 DEF Content

(***************************************************************************)
(* The rows a request leaves behind when it is answered: the others wait   *)
(* as before.                                                              *)
(***************************************************************************)
LEMMA LinkEndKeeps ==
    ASSUME SessionsOK, NEW s \in Sessions, End(s),
           \A r : LinkRequestOK(r) => LinkRequestOK(r)'
    PROVE  SessionsOK'
  BY DEF SessionsOK, End

(***************************************************************************)
(* A session that begins leaves the tables alone: only its own request is  *)
(* new.                                                                    *)
(***************************************************************************)
LEMMA LinkBeginKeeps ==
    ASSUME LinksInv, NEW s \in Sessions, NEW r, Begin(s, r), LinkRequestOK(r),
           UNCHANGED <<pages, notes, items, given, sources, lastSource, changes>>
    PROVE  LinksInv'
<1>1. \A q : LinkRequestOK(q) <=> LinkRequestOK(q)'
  BY DEF LinkRequestOK
<1>2. SessionsOK'
  BY <1>1 DEF LinksInv, SessionsOK, Begin
<1> QED
  BY <1>2 DEF LinksInv, PagesOK, NotesOK, ItemsOK, CountersOK, LinkRowsOK,
              LinksHaveTargets, TargetExists, There

(***************************************************************************)
(* A request for an anchor has a row of the right type.                    *)
(***************************************************************************)
LEMMA AnchoringStep ==
    ASSUME LinksInv, NEW s \in Sessions, NEW op \in {"note", "evidence", "rebind"},
           NEW n \in Anchors, NEW p \in Pages, NEW kind \in AnchorKinds,
           ReadAnchor(s, op, n, p, kind),
           op = "rebind" => notes[n] # None /\ notes[n].page = p
    PROVE  LinksInv'
<1> DEFINE r == [op |-> op, id |-> n, page |-> p, kind |-> kind,
                 of |-> IF kind = "page" THEN None ELSE Content(p)]
<1>1. Content(p) \in PageContents \cup {None}
  BY ContentTyped DEF ReadAnchor, LinksInv
<1>2. Row(r) \in AnchorRows
  BY <1>1 DEF Row, AnchorRows
<1>3. op = "rebind" => n \in given.note
  BY DEF LinksInv, NotesOK
<1>4. LinkRequestOK(r)
  BY <1>2, <1>3 DEF LinkRequestOK
<1> QED
  BY <1>4, LinkBeginKeeps DEF ReadAnchor

(***************************************************************************)
(* The sessions that read for a link or for a renewal.                     *)
(***************************************************************************)
LEMMA LinksReadingStep ==
    ASSUME LinksInv, NEW s \in Sessions,
           (\E t \in Targets : ReadLinkSource(s, t)) \/ (\E l \in LinkIds : ReadRecapture(s, l))
    PROVE  LinksInv'
<1>1. ASSUME NEW t \in Targets, ReadLinkSource(s, t) PROVE LinksInv'
  <2>1. LinkRequestOK([op |-> "link", target |-> t])
    BY DEF LinkRequestOK
  <2> QED
    BY <1>1, <2>1, LinkBeginKeeps DEF ReadLinkSource
<1>2. ASSUME NEW l \in LinkIds, ReadRecapture(s, l) PROVE LinksInv'
  <2>1. sources[l].target \in Targets /\ l <= lastSource
    BY <1>2 DEF ReadRecapture, LinksInv, LinkRowsOK
  <2>2. LinkRequestOK([op |-> "recapture", link |-> l, row |-> sources[l]])
    BY <2>1 DEF LinkRequestOK
  <2> QED
    BY <1>2, <2>2, LinkBeginKeeps DEF ReadRecapture
<1> QED
  BY <1>1, <1>2

(***************************************************************************)
(* What a target can be.                                                   *)
(***************************************************************************)
LEMMA TargetCases ==
    ASSUME NEW t \in Targets
    PROVE  \/ \E k \in {"document", "page"}, p \in Pages : t = <<k, p>>
           \/ \E n \in Anchors : t = <<"note", n>>
           \/ \E i \in Anchors : t = <<"evidence", i>>
<1>1. CASE t \in {"document", "page"} \X Pages
  BY <1>1
<1>2. CASE t \in {"note", "evidence"} \X Anchors
  BY <1>2
<1> QED
  BY <1>1, <1>2 DEF Targets

(***************************************************************************)
(* A target stays where no page, note or item goes.                        *)
(***************************************************************************)
LEMMA TargetsStay ==
    ASSUME \A p \in Pages : There(p) => There(p)',
           \A n \in Anchors : notes[n] # None => notes'[n] # None,
           \A i \in Anchors : items[i] # None => items'[i] # None,
           NEW t \in Targets, TargetExists(t)
    PROVE  TargetExists(t)'
<1>1. CASE t \in {"document", "page"} \X Pages
  BY <1>1 DEF TargetExists
<1>2. CASE t \in {"note", "evidence"} \X Anchors
  BY <1>2 DEF TargetExists
<1> QED
  BY <1>1, <1>2 DEF Targets

(***************************************************************************)
(* A note is written with an id that was never given out, or its page is   *)
(* gone and nothing is.                                                    *)
(***************************************************************************)
LEMMA InsertNoteStep ==
    ASSUME LinksInv, NEW s \in Sessions, InsertNote(s)
    PROVE LinksInv'
<1> DEFINE n == session[s].id
<1> USE DEF LinksInv
<1>1. n \in Anchors /\ Row(session[s]) \in AnchorRows
  BY DEF SessionsOK, LinkRequestOK, InsertNote, Turn
<1>2. notes[n] # None => n \in given.note
  BY <1>1 DEF NotesOK
<1>3. CountersOK'
  BY <1>1 DEF CountersOK, InsertNote
<1>4. NotesOK'
  BY <1>1 DEF NotesOK, CountersOK, InsertNote, There, Row, AnchorRows
<1>5. PagesOK' /\ LinkRowsOK' /\ ItemsOK'
  BY DEF PagesOK, LinkRowsOK, ItemsOK, CountersOK, InsertNote, There
<1>6. \A k \in Anchors : notes[k] # None => notes'[k] = notes[k]
  BY <1>1, <1>2 DEF InsertNote, NotesOK
<1>7. \A t \in Targets : TargetExists(t) => TargetExists(t)'
  BY <1>6, TargetsStay DEF InsertNote, There
<1>8. LinksHaveTargets'
  BY <1>7 DEF LinksHaveTargets, LinkRowsOK, InsertNote
<1>9. \A k \in given.note : k \in given'.note /\ notes'[k] = notes[k]
  BY <1>1 DEF InsertNote, NotesOK, CountersOK
<1>10. \A r : LinkRequestOK(r) => LinkRequestOK(r)'
  BY <1>9 DEF LinkRequestOK, InsertNote
<1>11. SessionsOK'
  BY <1>10, LinkEndKeeps DEF InsertNote
<1> QED
  BY <1>3, <1>4, <1>5, <1>8, <1>11

(***************************************************************************)
(* The same for an item.                                                   *)
(***************************************************************************)
LEMMA InsertItemStep ==
    ASSUME LinksInv, NEW s \in Sessions, InsertItem(s)
    PROVE LinksInv'
<1> DEFINE i == session[s].id
<1> USE DEF LinksInv
<1>1. i \in Anchors /\ Row(session[s]) \in AnchorRows
  BY DEF SessionsOK, LinkRequestOK, InsertItem, Turn
<1>2. items[i] # None => i \in given.evidence
  BY <1>1 DEF ItemsOK
<1>3. CountersOK'
  BY <1>1 DEF CountersOK, InsertItem
<1>4. ItemsOK'
  BY <1>1 DEF ItemsOK, CountersOK, InsertItem, There, Row, AnchorRows
<1>5. given'.note = given.note
  BY DEF InsertItem, CountersOK
<1>6. PagesOK' /\ LinkRowsOK' /\ NotesOK'
  BY <1>5 DEF PagesOK, LinkRowsOK, NotesOK, InsertItem, There
<1>7. \A k \in Anchors : items[k] # None => items'[k] = items[k]
  BY <1>1, <1>2 DEF InsertItem, ItemsOK
<1>8. \A t \in Targets : TargetExists(t) => TargetExists(t)'
  BY <1>7, TargetsStay DEF InsertItem, There
<1>9. LinksHaveTargets'
  BY <1>8 DEF LinksHaveTargets, LinkRowsOK, InsertItem
<1>10. \A r : LinkRequestOK(r) => LinkRequestOK(r)'
  BY <1>5 DEF LinkRequestOK, InsertItem
<1>11. SessionsOK'
  BY <1>10, LinkEndKeeps DEF InsertItem
<1> QED
  BY <1>3, <1>4, <1>6, <1>9, <1>11

(***************************************************************************)
(* A rebound note keeps its page; a note that is gone stays gone.          *)
(***************************************************************************)
LEMMA RebindStep ==
    ASSUME LinksInv, NEW s \in Sessions, Rebind(s)
    PROVE LinksInv'
<1> DEFINE n == session[s].id
<1> USE DEF LinksInv
<1>1. n \in Anchors /\ Row(session[s]) \in AnchorRows
  BY DEF SessionsOK, LinkRequestOK, Rebind, Turn
<1>2. notes[n] # None => notes[n].page = session[s].page
  BY DEF SessionsOK, LinkRequestOK, Rebind, Turn
<1>3. /\ notes' \in [Anchors -> AnchorRows \cup {None}]
      /\ \A k \in Anchors : notes'[k] = None <=> notes[k] = None
      /\ \A k \in Anchors : notes[k] # None => notes'[k].page = notes[k].page
  BY <1>1, <1>2 DEF Rebind, NotesOK, Row
<1>4. NotesOK'
  BY <1>3 DEF NotesOK, Rebind, There
<1>5. PagesOK' /\ LinkRowsOK' /\ ItemsOK' /\ CountersOK'
  BY DEF PagesOK, LinkRowsOK, ItemsOK, CountersOK, Rebind, There
<1>6. \A t \in Targets : TargetExists(t) => TargetExists(t)'
  BY <1>3, TargetsStay DEF Rebind, There
<1>7. LinksHaveTargets'
  BY <1>6 DEF LinksHaveTargets, LinkRowsOK, Rebind
<1>8. \A r : LinkRequestOK(r) => LinkRequestOK(r)'
  BY <1>3 DEF LinkRequestOK, Rebind, Row
<1>9. SessionsOK'
  BY <1>8, LinkEndKeeps DEF Rebind
<1> QED
  BY <1>4, <1>5, <1>7, <1>9

(***************************************************************************)
(* A link is added under a new id, to a target that the same transaction   *)
(* found.                                                                  *)
(***************************************************************************)
LEMMA LinkStep ==
    ASSUME LinksInv, NEW s \in Sessions, LinkSource(s)
    PROVE LinksInv'
<1> DEFINE t == session[s].target
<1> USE DEF LinksInv
<1>1. t \in Targets
  BY DEF SessionsOK, LinkRequestOK, LinkSource, Turn
<1>2. lastSource \in Nat /\ lastSource' \in lastSource .. MaxLinks
  BY DEF CountersOK, LinkSource
<1>3. PagesOK' /\ NotesOK' /\ ItemsOK' /\ CountersOK'
  BY <1>2 DEF PagesOK, NotesOK, ItemsOK, CountersOK, LinkSource, There
<1>4. \A l \in LinkIds :
         \/ sources'[l] = sources[l]
         \/ l = lastSource' /\ l > lastSource /\ sources'[l].target = t /\ CanCapture(t)
  <2>1. CASE sources' = sources
    BY <2>1
  <2>2. CASE /\ CanCapture(t) /\ lastSource' = lastSource + 1 /\ lastSource + 1 \in LinkIds
             /\ sources' = [sources EXCEPT
                    ![lastSource + 1] = [target |-> t, print |-> Fingerprint(t)]]
    BY <1>2, <2>2 DEF LinkRowsOK
  <2> QED
    BY <1>2, <2>1, <2>2 DEF LinkSource, LinkIds
<1>5. LinkRowsOK'
  BY <1>1, <1>2, <1>4 DEF LinkRowsOK, LinkIds, LinkSource
<1>6. \A q \in Targets : TargetExists(q) => TargetExists(q)'
  BY TargetsStay DEF LinkSource, There
<1>7. LinksHaveTargets'
  BY <1>1, <1>4, <1>6 DEF LinksHaveTargets, LinkRowsOK, CanCapture
<1>8. \A r : LinkRequestOK(r) => LinkRequestOK(r)'
  BY <1>2, <1>4 DEF LinkRequestOK, LinkSource, LinkIds
<1>9. SessionsOK'
  BY <1>8, LinkEndKeeps DEF LinkSource
<1> QED
  BY <1>3, <1>5, <1>7, <1>9

(***************************************************************************)
(* A renewed link keeps its target, which the transaction found.           *)
(***************************************************************************)
LEMMA RecaptureStep ==
    ASSUME LinksInv, NEW s \in Sessions, Recapture(s)
    PROVE LinksInv'
<1> USE DEF LinksInv
<1>1. /\ session[s].link \in LinkIds
      /\ session[s].row.target \in Targets
      /\ sources[session[s].link] # None =>
             sources[session[s].link].target = session[s].row.target
  BY DEF SessionsOK, LinkRequestOK, Recapture, Turn
<1>2. /\ DOMAIN sources' = LinkIds
      /\ \A l \in LinkIds : sources'[l] # None =>
             sources[l] # None /\ sources'[l].target = sources[l].target
  BY <1>1 DEF Recapture, LinkRowsOK
<1>3. PagesOK' /\ NotesOK' /\ ItemsOK' /\ CountersOK'
  BY DEF PagesOK, NotesOK, ItemsOK, CountersOK, Recapture, There
<1>4. LinkRowsOK'
  BY <1>2 DEF LinkRowsOK, Recapture
<1>5. \A q \in Targets : TargetExists(q) => TargetExists(q)'
  BY TargetsStay DEF Recapture, There
<1>6. LinksHaveTargets'
  BY <1>2, <1>5 DEF LinksHaveTargets, LinkRowsOK
<1>7. \A r : LinkRequestOK(r) => LinkRequestOK(r)'
  BY <1>2 DEF LinkRequestOK, Recapture
<1>8. SessionsOK'
  BY <1>7, LinkEndKeeps DEF Recapture
<1> QED
  BY <1>3, <1>4, <1>6, <1>8

(***************************************************************************)
(* Where links only go and no note changes its page, whoever waits can     *)
(* rely on what it could.                                                  *)
(***************************************************************************)
LEMMA GoneKeeps ==
    ASSUME LinksInv, UNCHANGED <<given, lastSource, session>>,
           \A n \in Anchors : notes'[n] # None => notes'[n] = notes[n],
           \A l \in LinkIds : sources'[l] # None => sources'[l] = sources[l]
    PROVE  SessionsOK'
<1>1. \A r : LinkRequestOK(r) => LinkRequestOK(r)'
  BY DEF LinkRequestOK, Row
<1> QED
  BY <1>1 DEF LinksInv, SessionsOK

(***************************************************************************)
(* delete_note, delete_item, clear_items and the deletion of a document    *)
(* take with a target the links that name it.                              *)
(***************************************************************************)
LEMMA DeleteNoteStep ==
    ASSUME LinksInv, NEW n \in Anchors, DeleteNote(n)
    PROVE LinksInv'
<1> USE DEF LinksInv
<1>1. /\ DOMAIN sources' = LinkIds
      /\ \A l \in LinkIds : sources'[l] # None =>
             sources'[l] = sources[l] /\ sources[l].target # <<"note", n>>
  BY DEF DeleteNote, Unlinked
<1>2. \A k \in Anchors : notes'[k] = IF k = n THEN None ELSE notes[k]
  BY DEF DeleteNote, NotesOK
<1>3. PagesOK' /\ NotesOK' /\ ItemsOK' /\ CountersOK' /\ LinkRowsOK'
  BY <1>1 DEF PagesOK, NotesOK, ItemsOK, CountersOK, LinkRowsOK, DeleteNote, There
<1>4. \A t \in Targets : TargetExists(t) /\ t # <<"note", n>> => TargetExists(t)'
  <2>1. ASSUME NEW q \in Pages, NEW k \in {"document", "page"}, TargetExists(<<k, q>>)
        PROVE  TargetExists(<<k, q>>)'
    BY <2>1 DEF TargetExists, DeleteNote, There
  <2>2. ASSUME NEW k \in Anchors, TargetExists(<<"note", k>>), k # n
        PROVE  TargetExists(<<"note", k>>)'
    BY <1>2, <2>2 DEF TargetExists, DeleteNote
  <2>3. ASSUME NEW k \in Anchors, TargetExists(<<"evidence", k>>)
        PROVE  TargetExists(<<"evidence", k>>)'
    BY <2>3 DEF TargetExists, DeleteNote
  <2> QED
    BY <2>1, <2>2, <2>3, TargetCases
<1>5. LinksHaveTargets'
  BY <1>1, <1>4 DEF LinksHaveTargets, LinkRowsOK
<1>6. SessionsOK'
  BY <1>1, <1>2, GoneKeeps DEF DeleteNote
<1> QED
  BY <1>3, <1>5, <1>6

LEMMA RemoveItemStep ==
    ASSUME LinksInv, NEW i \in Anchors, RemoveItem(i)
    PROVE LinksInv'
<1> USE DEF LinksInv
<1>1. /\ DOMAIN sources' = LinkIds
      /\ \A l \in LinkIds : sources'[l] # None =>
             sources'[l] = sources[l] /\ sources[l].target # <<"evidence", i>>
  BY DEF RemoveItem, Unlinked
<1>2. \A k \in Anchors : items'[k] = IF k = i THEN None ELSE items[k]
  BY DEF RemoveItem, ItemsOK
<1>3. PagesOK' /\ NotesOK' /\ ItemsOK' /\ CountersOK' /\ LinkRowsOK'
  BY <1>1 DEF PagesOK, NotesOK, ItemsOK, CountersOK, LinkRowsOK, RemoveItem, There
<1>4. \A t \in Targets : TargetExists(t) /\ t # <<"evidence", i>> => TargetExists(t)'
  <2>1. ASSUME NEW q \in Pages, NEW k \in {"document", "page"}, TargetExists(<<k, q>>)
        PROVE  TargetExists(<<k, q>>)'
    BY <2>1 DEF TargetExists, RemoveItem, There
  <2>2. ASSUME NEW k \in Anchors, TargetExists(<<"note", k>>)
        PROVE  TargetExists(<<"note", k>>)'
    BY <2>2 DEF TargetExists, RemoveItem
  <2>3. ASSUME NEW k \in Anchors, TargetExists(<<"evidence", k>>), k # i
        PROVE  TargetExists(<<"evidence", k>>)'
    BY <1>2, <2>3 DEF TargetExists, RemoveItem
  <2> QED
    BY <2>1, <2>2, <2>3, TargetCases
<1>5. LinksHaveTargets'
  BY <1>1, <1>4 DEF LinksHaveTargets, LinkRowsOK
<1>6. SessionsOK'
  BY <1>1, GoneKeeps DEF RemoveItem
<1> QED
  BY <1>3, <1>5, <1>6

LEMMA ClearStep == ASSUME LinksInv, Clear PROVE LinksInv'
<1> USE DEF LinksInv
<1>1. /\ DOMAIN sources' = LinkIds
      /\ \A l \in LinkIds : sources'[l] # None =>
             sources'[l] = sources[l] /\ \A i \in Anchors : sources[l].target # <<"evidence", i>>
  BY DEF Clear, Unlinked
<1>2. PagesOK' /\ NotesOK' /\ ItemsOK' /\ CountersOK' /\ LinkRowsOK'
  BY <1>1 DEF PagesOK, NotesOK, ItemsOK, CountersOK, LinkRowsOK, Clear, There
<1>3. \A t \in Targets : TargetExists(t) /\ (\A i \in Anchors : t # <<"evidence", i>>)
                            => TargetExists(t)'
  <2>1. ASSUME NEW q \in Pages, NEW k \in {"document", "page"}, TargetExists(<<k, q>>)
        PROVE  TargetExists(<<k, q>>)'
    BY <2>1 DEF TargetExists, Clear, There
  <2>2. ASSUME NEW k \in Anchors, TargetExists(<<"note", k>>)
        PROVE  TargetExists(<<"note", k>>)'
    BY <2>2 DEF TargetExists, Clear
  <2> QED
    BY <2>1, <2>2, TargetCases
<1>4. LinksHaveTargets'
  BY <1>1, <1>3 DEF LinksHaveTargets, LinkRowsOK
<1>5. SessionsOK'
  BY <1>1, GoneKeeps DEF Clear
<1> QED
  BY <1>2, <1>4, <1>5

LEMMA DeleteDocumentStep ==
    ASSUME LinksInv, NEW p \in Pages, DeleteDocument(p)
    PROVE LinksInv'
<1> DEFINE gone == {<<"document", p>>, <<"page", p>>}
                       \cup {<<"note", n>> : n \in Of(notes, p)}
                       \cup {<<"evidence", i>> : i \in Of(items, p)}
<1> USE DEF LinksInv
<1>1. /\ DOMAIN sources' = LinkIds
      /\ \A l \in LinkIds : sources'[l] # None =>
             sources'[l] = sources[l] /\ sources[l].target \notin gone
  BY DEF DeleteDocument, Gone, Unlinked
<1>2. /\ \A n \in Anchors : notes'[n] # None =>
             notes'[n] = notes[n] /\ notes[n].page # p
      /\ \A i \in Anchors : items'[i] # None =>
             items'[i] = items[i] /\ items[i].page # p
  BY DEF DeleteDocument, Gone, Of
<1>3. /\ \A q \in Pages : q # p /\ There(q) => There(q)'
      /\ PagesOK'
  BY DEF DeleteDocument, Gone, There, PagesOK
<1>4. notes' \in [Anchors -> AnchorRows \cup {None}]
  BY DEF DeleteDocument, Gone, NotesOK
<1>5. items' \in [Anchors -> AnchorRows \cup {None}]
  BY DEF DeleteDocument, Gone, ItemsOK
<1>6. NotesOK'
  BY <1>2, <1>3, <1>4 DEF NotesOK, AnchorRows, DeleteDocument, Gone
<1>7. ItemsOK'
  BY <1>2, <1>3, <1>5 DEF ItemsOK, AnchorRows, DeleteDocument, Gone
<1>8. CountersOK' /\ LinkRowsOK'
  BY <1>1 DEF CountersOK, LinkRowsOK, DeleteDocument, Gone
<1>9. \A t \in Targets : TargetExists(t) /\ t \notin gone => TargetExists(t)'
  <2>1. ASSUME NEW q \in Pages, NEW k \in {"document", "page"},
               TargetExists(<<k, q>>), <<k, q>> \notin gone
        PROVE  TargetExists(<<k, q>>)'
    BY <2>1, <1>3 DEF TargetExists
  <2>2. ASSUME NEW n \in Anchors, TargetExists(<<"note", n>>), <<"note", n>> \notin gone
        PROVE  TargetExists(<<"note", n>>)'
    BY <2>2 DEF TargetExists, DeleteDocument, Gone
  <2>3. ASSUME NEW i \in Anchors, TargetExists(<<"evidence", i>>),
               <<"evidence", i>> \notin gone
        PROVE  TargetExists(<<"evidence", i>>)'
    BY <2>3 DEF TargetExists, DeleteDocument, Gone
  <2>4. SUFFICES ASSUME NEW t \in Targets, TargetExists(t), t \notin gone
                 PROVE  TargetExists(t)'
    OBVIOUS
  <2>5. \/ \E q \in Pages : t = <<"document", q>> \/ t = <<"page", q>>
        \/ \E n \in Anchors : t = <<"note", n>> \/ t = <<"evidence", n>>
    BY <2>4, TargetCases
  <2> QED
    BY <2>1, <2>2, <2>3, <2>4, <2>5
<1>10. LinksHaveTargets'
  BY <1>1, <1>9 DEF LinksHaveTargets, LinkRowsOK
<1>11. SessionsOK'
  BY <1>1, <1>2, GoneKeeps DEF DeleteDocument, Gone
<1> QED
  BY <1>3, <1>6, <1>7, <1>8, <1>10, <1>11

LEMMA UnlinkStep ==
    ASSUME LinksInv, NEW l \in LinkIds, Unlink(l)
    PROVE LinksInv'
<1> USE DEF LinksInv
<1>1. /\ DOMAIN sources' = LinkIds
      /\ \A k \in LinkIds : sources'[k] # None => sources'[k] = sources[k]
  BY DEF Unlink, LinkRowsOK
<1>2. PagesOK' /\ NotesOK' /\ ItemsOK' /\ CountersOK' /\ LinkRowsOK'
  BY <1>1 DEF PagesOK, NotesOK, ItemsOK, CountersOK, LinkRowsOK, Unlink, There
<1>3. \A t \in Targets : TargetExists(t) => TargetExists(t)'
  BY TargetsStay DEF Unlink, There
<1>4. LinksHaveTargets'
  BY <1>1, <1>3 DEF LinksHaveTargets, LinkRowsOK
<1>5. SessionsOK'
  BY <1>1, GoneKeeps DEF Unlink
<1> QED
  BY <1>2, <1>4, <1>5

(***************************************************************************)
(* A page that changes is there before and after.                          *)
(***************************************************************************)
LEMMA ChangePageStep ==
    ASSUME LinksInv, NEW p \in Pages, NEW c \in PageContents \cup {None},
           ChangePage(p, c)
    PROVE  LinksInv'
<1> USE DEF LinksInv
<1>1. PagesOK' /\ \A q \in Pages : There(q) => There(q)'
  BY DEF PagesOK, ChangePage, Changed, There
<1>2. NotesOK' /\ ItemsOK'
  BY <1>1 DEF NotesOK, ItemsOK, ChangePage, Changed, AnchorRows
<1>3. CountersOK' /\ LinkRowsOK'
  BY DEF CountersOK, LinkRowsOK, ChangePage, Changed
<1>4. \A t \in Targets : TargetExists(t) => TargetExists(t)'
  BY <1>1, TargetsStay DEF ChangePage, Changed
<1>5. LinksHaveTargets'
  BY <1>4 DEF LinksHaveTargets, LinkRowsOK, ChangePage, Changed
<1>6. SessionsOK'
  BY GoneKeeps DEF ChangePage, Changed
<1> QED
  BY <1>1, <1>2, <1>3, <1>5, <1>6

(***************************************************************************)
(* Every step keeps the invariant.                                         *)
(***************************************************************************)
LEMMA PartsStep ==
    LinksInv /\ [LinksNext]_linksVars => LinksInv'
<1> SUFFICES ASSUME LinksInv, [LinksNext]_linksVars PROVE LinksInv'
  OBVIOUS
<1>1. ASSUME NEW s \in Sessions, Anchoring(s) PROVE LinksInv'
  <2>1. ASSUME NEW n \in Anchors, NEW p \in Pages, NEW kind \in AnchorKinds,
               ReadCreateNote(s, n, p, kind) \/ ReadAddItem(s, n, p, kind)
        PROVE  LinksInv'
    BY <2>1, AnchoringStep DEF ReadCreateNote, ReadAddItem
  <2>2. ASSUME NEW n \in Anchors, ReadRebind(s, n) PROVE LinksInv'
    <3>1. notes[n].page \in Pages /\ "part" \in AnchorKinds
      BY <2>2 DEF ReadRebind, LinksInv, NotesOK, AnchorRows, AnchorKinds
    <3> QED
      BY <2>2, <3>1, AnchoringStep DEF ReadRebind
  <2> QED
    BY <1>1, <2>1, <2>2, InsertNoteStep, InsertItemStep, RebindStep DEF Anchoring
<1>2. ASSUME NEW s \in Sessions, Linking(s) PROVE LinksInv'
  BY <1>2, LinksReadingStep, LinkStep, RecaptureStep DEF Linking
<1>3. CASE UNCHANGED linksVars
  <2>1. \A r : LinkRequestOK(r) => LinkRequestOK(r)'
    BY <1>3 DEF LinkRequestOK, linksVars
  <2>2. SessionsOK'
    BY <1>3, <2>1 DEF SessionsOK, LinksInv, linksVars
  <2> QED
    BY <1>3, <2>2 DEF linksVars, LinksInv, PagesOK, NotesOK, ItemsOK, CountersOK, LinkRowsOK,
                      LinksHaveTargets, TargetExists, There
<1> QED
  BY <1>1, <1>2, <1>3, DeleteNoteStep, RemoveItemStep, ClearStep, UnlinkStep,
     DeleteDocumentStep, ChangePageStep DEF LinksNext

(***************************************************************************)
(* The invariant holds of every behaviour.                                 *)
(***************************************************************************)
THEOREM LinksInvariance ==
    LinksSpec => []LinksInv
  BY PartsInit, PartsStep, PTL DEF LinksSpec

(***************************************************************************)
(* Rows are of their types, and no note or item outlives its page.         *)
(***************************************************************************)
THEOREM LinksTyping ==
    LinksSpec => []LinksTypeOK
  BY LinksInvariance, PartsAreTypes, PTL

(***************************************************************************)
(* A source of a knowledge object is there, however requests overlap       *)
(* (document_deletion_service.py: no dangling sources).                    *)
(***************************************************************************)
THEOREM SourcesAreThere ==
    LinksSpec => []LinksHaveTargets
<1>1. LinksInv => LinksHaveTargets
  BY DEF LinksInv
<1> QED
  BY <1>1, LinksInvariance, PTL

-----------------------------------------------------------------------------
(***************************************************************************)
(* Packages: module EvidenceBasket, over the same pages.  Its items are of *)
(* a page or of a part of one, as those of SourceLinks, and have a place.  *)
(*                                                                         *)
(* A package waits with a list of what is left to check.  The inductive    *)
(* invariant is that each thing it quotes is still in the list or is of    *)
(* something its page has held since, and that all that a page holds is    *)
(* among what it has held.                                                 *)
(***************************************************************************)

\* A row of the basket, or the request for one, and what it is taken from.
ItemOf(row, place) ==
    [page |-> row.page, kind |-> row.kind, of |-> row.of, place |-> place]

AddRequest(row, place) ==
    [op |-> "add", page |-> row.page, kind |-> row.kind, of |-> row.of, place |-> place]

Package(left, quoted, seen) ==
    [op |-> "package", left |-> left, quoted |-> quoted, seen |-> seen]

BasketRowsOK ==
    /\ basket = [i \in Items |-> basket[i]]
    /\ \A i \in Present : \E row, place : row \in AnchorRows /\ basket[i] = ItemOf(row, place)

\* What is quoted and no longer to be checked was on its page.
QuotesHold(left, quoted, seen) ==
    /\ left \in Seq(AnchorRows)
    /\ quoted \subseteq AnchorRows
    /\ \A p \in Pages : pages[p] \subseteq seen[p]
    /\ \A source \in quoted :
           /\ source.kind = "part"
           /\ source \in ToSet(left) \/ source.of \in seen[source.page]

BasketRequestOK(r) ==
    \/ \E row, place : row \in AnchorRows /\ r = AddRequest(row, place)
    \/ \E order : r = [op |-> "reorder", order |-> order]
    \/ \E left, quoted, seen :
          r = Package(left, quoted, seen) /\ QuotesHold(left, quoted, seen)

BasketSessionsOK ==
    /\ session = [s \in Sessions |-> session[s]]
    /\ \A s \in Sessions : session[s] # None => BasketRequestOK(session[s])

BasketInv == PagesOK /\ BasketRowsOK /\ BasketSessionsOK

(***************************************************************************)
(* What a package waits with holds as long as its pages only hold what     *)
(* they held.                                                              *)
(***************************************************************************)
LEMMA QuotesStay ==
    ASSUME UNCHANGED pages, NEW r, BasketRequestOK(r)
    PROVE  BasketRequestOK(r)'
  BY DEF BasketRequestOK, QuotesHold

(***************************************************************************)
(* A session that begins with such a request, or ends, leaves the others   *)
(* as they were.                                                           *)
(***************************************************************************)
LEMMA BasketSessionStep ==
    ASSUME BasketSessionsOK, UNCHANGED pages, NEW s \in Sessions, NEW r,
           session' = [session EXCEPT ![s] = r],
           r # None => BasketRequestOK(r)
    PROVE  BasketSessionsOK'
<1>1. session' = [t \in Sessions |-> session'[t]]
  BY DEF BasketSessionsOK
<1>2. ASSUME NEW t \in Sessions, session'[t] # None PROVE BasketRequestOK(session[t])'
  <2>1. session'[t] = IF t = s THEN r ELSE session[t]
    BY DEF BasketSessionsOK
  <2>2. BasketRequestOK(session'[t])
    BY <1>2, <2>1 DEF BasketSessionsOK
  <2>3. \A q : BasketRequestOK(q) => BasketRequestOK(q)'
    BY QuotesStay
  <2> QED
    BY <2>2, <2>3
<1> QED
  BY <1>1, <1>2 DEF BasketSessionsOK

(***************************************************************************)
(* The request of a session, by its operation.                             *)
(***************************************************************************)
LEMMA BasketRequests ==
    ASSUME BasketSessionsOK, NEW s \in Sessions
    PROVE  /\ Turn(s, "add") =>
                 \E row, place : row \in AnchorRows /\ session[s] = AddRequest(row, place)
           /\ Turn(s, "package") =>
                 \E left, quoted, seen :
                    /\ session[s] = Package(left, quoted, seen)
                    /\ QuotesHold(left, quoted, seen)
<1> SUFFICES ASSUME session[s] # None
             PROVE  /\ session[s].op = "add" =>
                          \E row, place : row \in AnchorRows /\ session[s] = AddRequest(row, place)
                    /\ session[s].op = "package" =>
                          \E left, quoted, seen :
                             /\ session[s] = Package(left, quoted, seen)
                             /\ QuotesHold(left, quoted, seen)
  BY DEF Turn
<1>1. BasketRequestOK(session[s])
  BY DEF BasketSessionsOK
<1>2. CASE \E row, place : row \in AnchorRows /\ session[s] = AddRequest(row, place)
  <2>1. session[s].op = "add"
    BY <1>2 DEF AddRequest
  <2> QED
    BY <1>2, <2>1
<1>3. CASE \E order : session[s] = [op |-> "reorder", order |-> order]
  BY <1>3
<1>4. CASE \E left, quoted, seen :
              session[s] = Package(left, quoted, seen) /\ QuotesHold(left, quoted, seen)
  BY <1>4 DEF Package
<1> QED
  BY <1>1, <1>2, <1>3, <1>4 DEF BasketRequestOK

(***************************************************************************)
(* What an item is taken from is what its row names.                       *)
(***************************************************************************)
LEMMA SourceOfItem ==
    ASSUME NEW row \in AnchorRows, NEW place
    PROVE  Source(ItemOf(row, place)) = row
  BY DEF Source, ItemOf, AnchorRows

(***************************************************************************)
(* An empty basket.                                                        *)
(***************************************************************************)
LEMMA BasketInitially == BasketInit => BasketInv
<1> SUFFICES ASSUME BasketInit PROVE BasketInv
  OBVIOUS
<1>1. PagesOK
  BY DEF BasketInit, PagesOK
<1>2. BasketRowsOK
  BY DEF BasketInit, BasketRowsOK, Present
<1>3. BasketSessionsOK
  BY DEF BasketInit, BasketSessionsOK
<1> QED
  BY <1>1, <1>2, <1>3 DEF BasketInv

(***************************************************************************)
(* Adding: the page is read, the place is found, the row is written.       *)
(***************************************************************************)
LEMMA AddingStep ==
    ASSUME BasketInv, NEW s \in Sessions,
           \/ \E p \in Pages, kind \in AnchorKinds : ReadAdd(s, p, kind)
           \/ FindPlace(s) \/ AddItem(s)
    PROVE  BasketInv'
<1> USE DEF BasketInv
<1>1. ASSUME NEW p \in Pages, NEW kind \in AnchorKinds, ReadAdd(s, p, kind) PROVE BasketInv'
  <2> DEFINE of == IF kind = "page" THEN None ELSE Content(p)
             row == [page |-> p, kind |-> kind, of |-> of]
  <2>1. Content(p) \in PageContents \cup {None}
    BY <1>1, ContentTyped DEF ReadAdd
  <2>2. row \in AnchorRows
    BY <2>1 DEF AnchorRows
  <2>3. AddRequest(row, 0) = [op |-> "add", page |-> p, kind |-> kind, of |-> of, place |-> 0]
    BY DEF AddRequest
  <2>4. session' = [session EXCEPT ![s] = AddRequest(row, 0)]
    BY <1>1, <2>3 DEF ReadAdd, Begin
  <2>5. BasketRequestOK(AddRequest(row, 0))
    BY <2>2 DEF BasketRequestOK
  <2> HIDE DEF row, of
  <2>6. BasketSessionsOK'
    BY <1>1, <2>4, <2>5, BasketSessionStep DEF ReadAdd
  <2> QED
    BY <1>1, <2>6 DEF ReadAdd, PagesOK, BasketRowsOK, Present
<1>2. ASSUME FindPlace(s) PROVE BasketInv'
  <2>1. PICK row, place : row \in AnchorRows /\ session[s] = AddRequest(row, place)
    BY <1>2, BasketRequests DEF FindPlace
  <2>2. PICK q : session' = [session EXCEPT ![s].place = q]
    BY <1>2 DEF FindPlace
  <2>3. [session[s] EXCEPT !.place = q] = AddRequest(row, q)
    BY <2>1 DEF AddRequest
  <2>4. session' = [session EXCEPT ![s] = AddRequest(row, q)]
    BY <2>2, <2>3
  <2>5. BasketRequestOK(AddRequest(row, q))
    BY <2>1 DEF BasketRequestOK
  <2>6. BasketSessionsOK'
    BY <1>2, <2>4, <2>5, BasketSessionStep DEF FindPlace
  <2> QED
    BY <1>2, <2>6 DEF FindPlace, PagesOK, BasketRowsOK, Present
<1>3. ASSUME AddItem(s) PROVE BasketInv'
  <2>1. PICK row, place : row \in AnchorRows /\ session[s] = AddRequest(row, place)
    BY <1>3, BasketRequests DEF AddItem
  <2>2. NewItem(session[s]) = ItemOf(row, place)
    BY <2>1 DEF NewItem, AddRequest, ItemOf
  <2>3. basket' = [i \in Items |-> basket'[i]]
        /\ \A i \in Items : basket'[i] = basket[i] \/ basket'[i] = ItemOf(row, place)
    BY <1>3, <2>2 DEF AddItem, BasketRowsOK
  <2>4. BasketRowsOK'
    BY <2>1, <2>3 DEF BasketRowsOK, Present
  <2>5. BasketSessionsOK'
    BY <1>3, BasketSessionStep DEF AddItem, End
  <2> QED
    BY <1>3, <2>4, <2>5 DEF AddItem, PagesOK
<1> QED
  BY <1>1, <1>2, <1>3

(***************************************************************************)
(* A statement that only moves items and removes some leaves what they are *)
(* taken from.                                                             *)
(***************************************************************************)
LEMMA PlacedKeeps ==
    ASSUME BasketRowsOK, NEW rows, NEW order, NEW count,
           \A i \in Items : rows[i] = None \/ rows[i] = basket[i],
           basket' = Placed(rows, order, count)
    PROVE  BasketRowsOK'
<1>1. basket' = [i \in Items |-> basket'[i]]
  BY DEF Placed
<1>2. ASSUME NEW i \in Items, basket'[i] # None
      PROVE  \E row, place : row \in AnchorRows /\ basket'[i] = ItemOf(row, place)
  <2>1. rows[i] # None /\ rows[i] = basket[i]
    BY <1>2 DEF Placed
  <2>2. PICK row, place : row \in AnchorRows /\ rows[i] = ItemOf(row, place)
    BY <2>1 DEF BasketRowsOK, Present
  <2>3. PICK q : basket'[i] = [rows[i] EXCEPT !.place = q]
    BY <2>1 DEF Placed
  <2>4. basket'[i] = ItemOf(row, q)
    BY <2>2, <2>3 DEF ItemOf
  <2> QED
    BY <2>2, <2>4
<1> QED
  BY <1>1, <1>2 DEF BasketRowsOK, Present

(***************************************************************************)
(* Removing, clearing and ordering.                                        *)
(***************************************************************************)
LEMMA OrderingStep ==
    ASSUME BasketInv,
           \/ \E i \in Items : DeleteItem(i)
           \/ ClearItems
           \/ \E s \in Sessions : ReadReorder(s) \/ Reorder(s)
    PROVE  BasketInv'
<1> USE DEF BasketInv
<1>1. ASSUME NEW i \in Items, DeleteItem(i) PROVE BasketInv'
  <2>1. \A j \in Items : Without(i)[j] = None \/ Without(i)[j] = basket[j]
    BY DEF Without, BasketRowsOK
  <2>2. PICK order : basket' = Placed(Without(i), order, Len(order))
    BY <1>1 DEF DeleteItem
  <2>3. BasketRowsOK'
    BY <2>1, <2>2, PlacedKeeps
  <2>4. BasketSessionsOK'
    BY <1>1, QuotesStay DEF DeleteItem, BasketSessionsOK
  <2> QED
    BY <1>1, <2>3, <2>4 DEF DeleteItem, PagesOK
<1>2. ASSUME ClearItems PROVE BasketInv'
  <2>1. BasketSessionsOK'
    BY <1>2, QuotesStay DEF ClearItems, BasketSessionsOK
  <2> QED
    BY <1>2, <2>1 DEF ClearItems, PagesOK, BasketRowsOK, Present
<1>3. ASSUME NEW s \in Sessions, ReadReorder(s) PROVE BasketInv'
  <2>1. PICK order : session' = [session EXCEPT ![s] = [op |-> "reorder", order |-> order]]
    BY <1>3 DEF ReadReorder, Begin
  <2>2. BasketRequestOK([op |-> "reorder", order |-> order])
    BY DEF BasketRequestOK
  <2>3. BasketSessionsOK'
    BY <1>3, <2>1, <2>2, BasketSessionStep DEF ReadReorder
  <2> QED
    BY <1>3, <2>3 DEF ReadReorder, PagesOK, BasketRowsOK, Present
<1>4. ASSUME NEW s \in Sessions, Reorder(s) PROVE BasketInv'
  <2>1. \/ basket' = basket
        \/ basket' = Placed(basket, session[s].order, Len(session[s].order))
    BY <1>4 DEF Reorder
  <2>2. BasketRowsOK'
    BY <2>1, PlacedKeeps DEF BasketRowsOK, Present
  <2>3. BasketSessionsOK'
    BY <1>4, BasketSessionStep DEF Reorder, End
  <2> QED
    BY <1>4, <2>2, <2>3 DEF Reorder, PagesOK
<1> QED
  BY <1>1, <1>2, <1>3, <1>4

(***************************************************************************)
(* A package begins with all it quotes still to be checked.                *)
(***************************************************************************)
LEMMA ReadPackageStep ==
    ASSUME BasketInv, NEW s \in Sessions, ReadPackage(s)
    PROVE  BasketInv'
<1> USE DEF BasketInv
<1>1. PICK confirmed \in SUBSET Present : \E order \in Listings(basket, confirmed) :
          Begin(s, Package([n \in DOMAIN order |-> Source(basket[order[n]])],
                           {Source(basket[i]) :
                               i \in {j \in confirmed : basket[j].kind = "part"}},
                           pages))
  BY DEF ReadPackage, Package
<1>2. PICK order \in Listings(basket, confirmed) :
          Begin(s, Package([n \in DOMAIN order |-> Source(basket[order[n]])],
                           {Source(basket[i]) :
                               i \in {j \in confirmed : basket[j].kind = "part"}},
                           pages))
  BY <1>1
<1> DEFINE left == [n \in DOMAIN order |-> Source(basket[order[n]])]
           quoted == {Source(basket[i]) : i \in {j \in confirmed : basket[j].kind = "part"}}
<1>3. \A i \in confirmed :
         Source(basket[i]) \in AnchorRows /\ Source(basket[i]).kind = basket[i].kind
  <2> SUFFICES ASSUME NEW i \in confirmed
               PROVE  Source(basket[i]) \in AnchorRows /\ Source(basket[i]).kind = basket[i].kind
    OBVIOUS
  <2>1. PICK row, place : row \in AnchorRows /\ basket[i] = ItemOf(row, place)
    BY DEF BasketRowsOK
  <2> QED
    BY <2>1, SourceOfItem DEF Source
<1>4. /\ order \in [1 .. Cardinality(confirmed) -> confirmed]
      /\ confirmed = {order[n] : n \in DOMAIN order}
  BY DEF Listings, ToSet
<1>5. left \in Seq(AnchorRows)
  <2>1. \A n \in DOMAIN order : Source(basket[order[n]]) \in AnchorRows
    BY <1>3, <1>4
  <2>2. IsFiniteSet(confirmed)
    <3>1. Present \subseteq Items /\ Items = 1 .. MaxItems /\ MaxItems \in Nat
      BY BasketAssumption DEF Present, Items
    <3>2. IsFiniteSet(Items)
      BY <3>1, FS_Interval
    <3> QED
      BY <3>1, <3>2, FS_Subset
  <2>3. Cardinality(confirmed) \in Nat
    BY <2>2, FS_CardinalityType
  <2>4. DOMAIN order = 1 .. Cardinality(confirmed)
    BY <1>4
  <2>5. left \in [1 .. Cardinality(confirmed) -> AnchorRows]
    BY <2>1, <2>4
  <2> HIDE DEF left
  <2> QED
    BY <2>3, <2>5
<1>6. \A source \in quoted : source \in AnchorRows /\ source.kind = "part" /\ source \in ToSet(left)
  <2> SUFFICES ASSUME NEW source \in quoted
               PROVE  source \in AnchorRows /\ source.kind = "part" /\ source \in ToSet(left)
    OBVIOUS
  <2>1. PICK i \in confirmed : source = Source(basket[i]) /\ basket[i].kind = "part"
    OBVIOUS
  <2>2. PICK n \in DOMAIN order : order[n] = i
    BY <1>4
  <2>3. left[n] = source /\ n \in DOMAIN left
    BY <2>1, <2>2
  <2> QED
    BY <1>3, <2>1, <2>3 DEF ToSet
<1>7. Begin(s, Package(left, quoted, pages))
  BY <1>2
<1> HIDE DEF left, quoted
<1>8. QuotesHold(left, quoted, pages)
  BY <1>5, <1>6 DEF QuotesHold
<1>9. BasketRequestOK(Package(left, quoted, pages))
  BY <1>8 DEF BasketRequestOK
<1>10. BasketSessionsOK'
  BY <1>7, <1>9, BasketSessionStep DEF ReadPackage, Begin
<1> QED
  BY <1>10 DEF ReadPackage, PagesOK, BasketRowsOK, Present

(***************************************************************************)
(* What passes the check is what its page holds, and so what it has held.  *)
(***************************************************************************)
LEMMA CheckStep ==
    ASSUME BasketInv, NEW s \in Sessions, Check(s) \/ Deliver(s)
    PROVE  BasketInv'
<1> USE DEF BasketInv
<1>1. CASE session' = [session EXCEPT ![s] = None]
  <2>1. BasketSessionsOK'
    BY <1>1, BasketSessionStep DEF Check, Deliver
  <2> QED
    BY <2>1 DEF Check, Deliver, PagesOK, BasketRowsOK, Present
<1>2. ASSUME session[s].left # <<>>, Turn(s, "package"), Valid(Head(session[s].left)),
             session' = [session EXCEPT ![s].left = Tail(@)],
             UNCHANGED <<pages, basket, lastItem, changes>>
      PROVE  BasketInv'
  <2>1. PICK left, quoted, seen : /\ session[s] = Package(left, quoted, seen)
                                  /\ QuotesHold(left, quoted, seen)
    BY <1>2, BasketRequests
  <2>2. session[s].left = left
    BY <2>1 DEF Package
  <2>3. left \in Seq(AnchorRows) /\ left # <<>> /\ Head(left) \in AnchorRows
    BY <1>2, <2>1, <2>2 DEF QuotesHold
  <2>4. session' = [session EXCEPT ![s] = Package(Tail(left), quoted, seen)]
    <3>1. session' = [session EXCEPT ![s] = [session[s] EXCEPT !.left = Tail(left)]]
      BY <1>2, <2>2 DEF BasketSessionsOK
    <3>2. [session[s] EXCEPT !.left = Tail(left)] = Package(Tail(left), quoted, seen)
      <4>1. \A new : [Package(left, quoted, seen) EXCEPT !.left = new]
                         = Package(new, quoted, seen)
        BY DEF Package
      <4> QED
        BY <2>1, <4>1
    <3> QED
      BY <3>1, <3>2
  <2>5. Head(left).kind = "part" => Head(left).of \in seen[Head(left).page]
    <3> SUFFICES ASSUME Head(left).kind = "part"
                 PROVE  Head(left).of \in seen[Head(left).page]
      OBVIOUS
    <3> DEFINE p == Head(left).page
    <3>1. p \in Pages /\ There(p) /\ Head(left).of = Content(p)
      BY <1>2, <2>2, <2>3 DEF Valid, AnchorRows
    <3>2. Content(p) \in pages[p]
      BY <3>1 DEF Content, There
    <3> QED
      BY <2>1, <3>1, <3>2 DEF QuotesHold
  <2>6. ASSUME NEW source \in quoted
        PROVE  source \in ToSet(Tail(left)) \/ source.of \in seen[source.page]
    <3>1. CASE source \in ToSet(left)
      <4>1. PICK n \in 1 .. Len(left) : left[n] = source
        BY <2>3, <3>1 DEF ToSet
      <4>2. CASE n = 1
        BY <2>1, <2>3, <2>5, <4>1, <4>2 DEF QuotesHold
      <4>3. CASE n # 1
        <5>1. n - 1 \in 1 .. Len(Tail(left)) /\ Tail(left)[n - 1] = source
          BY <2>3, <4>1, <4>3
        <5>2. DOMAIN Tail(left) = 1 .. Len(Tail(left))
          BY <2>3
        <5> QED
          BY <5>1, <5>2 DEF ToSet
      <4> QED
        BY <4>2, <4>3
    <3>2. CASE source \notin ToSet(left)
      BY <2>1, <3>2 DEF QuotesHold
    <3> QED
      BY <3>1, <3>2
  <2>7. QuotesHold(Tail(left), quoted, seen)
    BY <2>1, <2>3, <2>6 DEF QuotesHold
  <2>8. BasketRequestOK(Package(Tail(left), quoted, seen))
    BY <2>7 DEF BasketRequestOK
  <2>9. BasketSessionsOK'
    BY <1>2, <2>4, <2>8, BasketSessionStep
  <2> QED
    BY <1>2, <2>9 DEF PagesOK, BasketRowsOK, Present
<1> QED
  BY <1>1, <1>2 DEF Check, Deliver, End

(***************************************************************************)
(* A page that changes has held what it holds now.                         *)
(***************************************************************************)
LEMMA ChangeSourcePageStep ==
    ASSUME BasketInv, NEW p \in Pages, NEW c \in PageContents, ChangeSourcePage(p, c)
    PROVE  BasketInv'
<1> USE DEF BasketInv
<1>1. PagesOK'
  BY DEF ChangeSourcePage, Changed, PagesOK
<1>2. BasketRowsOK'
  BY DEF ChangeSourcePage, BasketRowsOK, Present
<1>3. ASSUME NEW s \in Sessions, session'[s] # None PROVE BasketRequestOK(session[s])'
  <2>1. CASE Turn(s, "package")
    <3>1. PICK left, quoted, seen : /\ session[s] = Package(left, quoted, seen)
                                    /\ QuotesHold(left, quoted, seen)
      BY <2>1, BasketRequests
    <3>2. session[s].seen = seen
      BY <3>1 DEF Package
    <3>3. PICK more : more = [q \in Pages |-> seen[q] \cup pages'[q]]
      OBVIOUS
    <3>4. session'[s] = Package(left, quoted, more)
      <4>1. session'[s] = [session[s] EXCEPT !.seen = more]
        BY <2>1, <3>2, <3>3 DEF ChangeSourcePage, Seen, Turn
      <4> QED
        BY <3>1, <4>1 DEF Package
    <3>5. \A q \in Pages : pages'[q] \subseteq more[q] /\ seen[q] \subseteq more[q]
      BY <3>3
    <3>6. \A source \in quoted : source \in AnchorRows /\ source.page \in Pages
      BY <3>1 DEF QuotesHold, AnchorRows
    <3>7. \A source \in quoted : source \in ToSet(left) \/ source.of \in more[source.page]
      BY <3>1, <3>5, <3>6 DEF QuotesHold
    <3>8. QuotesHold(left, quoted, more)'
      BY <3>1, <3>5, <3>7 DEF QuotesHold
    <3> QED
      BY <3>4, <3>8 DEF BasketRequestOK
  <2>2. CASE ~Turn(s, "package")
    <3>1. session'[s] = session[s]
      BY <2>2 DEF ChangeSourcePage, Seen, Turn
    <3>2. BasketRequestOK(session[s]) /\ session[s].op # "package"
      BY <1>3, <2>2, <3>1 DEF BasketSessionsOK, Turn
    <3>3. \A left, quoted, seen : Package(left, quoted, seen).op = "package"
      BY DEF Package
    <3>4. \/ \E row, place : row \in AnchorRows /\ session[s] = AddRequest(row, place)
          \/ \E order : session[s] = [op |-> "reorder", order |-> order]
      BY <3>2, <3>3 DEF BasketRequestOK
    <3> QED
      BY <3>1, <3>4 DEF BasketRequestOK
  <2> QED
    BY <2>1, <2>2
<1>4. session' = [s \in Sessions |-> session'[s]]
  BY DEF ChangeSourcePage, Seen
<1>5. BasketSessionsOK'
  BY <1>3, <1>4 DEF BasketSessionsOK
<1> QED
  BY <1>1, <1>2, <1>5

(***************************************************************************)
(* A document that goes takes its items along; what a page has held stays. *)
(***************************************************************************)
LEMMA DeleteSourcePageStep ==
    ASSUME BasketInv, NEW p \in Pages, DeleteSourcePage(p)
    PROVE  BasketInv'
<1> USE DEF BasketInv
<1>1. PagesOK' /\ \A q \in Pages : pages'[q] \subseteq pages[q]
  BY DEF DeleteSourcePage, Gone, PagesOK
<1>2. BasketRowsOK'
  BY DEF DeleteSourcePage, BasketRowsOK, Present
<1>3. ASSUME NEW r, BasketRequestOK(r) PROVE BasketRequestOK(r)'
  BY <1>1, <1>3 DEF BasketRequestOK, QuotesHold
<1>4. BasketSessionsOK'
  BY <1>3 DEF DeleteSourcePage, BasketSessionsOK
<1> QED
  BY <1>1, <1>2, <1>4

(***************************************************************************)
(* The inductive invariant of the basket, for any number of pages, items   *)
(* and sessions and every overlap of requests, changes and deletions.      *)
(***************************************************************************)
THEOREM BasketInvariance == BasketSpec => []BasketInv
<1>1. BasketInv /\ [BasketNext]_basketVars => BasketInv'
  <2> SUFFICES ASSUME BasketInv, [BasketNext]_basketVars PROVE BasketInv'
    OBVIOUS
  <2>1. ASSUME NEW s \in Sessions, BasketRequest(s) PROVE BasketInv'
    BY <2>1, AddingStep, OrderingStep, ReadPackageStep, CheckStep DEF BasketRequest
  <2>2. CASE UNCHANGED basketVars
    <3>1. BasketSessionsOK'
      BY <2>2, QuotesStay DEF basketVars, BasketInv, BasketSessionsOK
    <3> QED
      BY <2>2, <3>1 DEF basketVars, BasketInv, PagesOK, BasketRowsOK, Present
  <2> QED
    BY <2>1, <2>2, OrderingStep, ChangeSourcePageStep, DeleteSourcePageStep DEF BasketNext
<1> QED
  BY <1>1, BasketInitially, PTL DEF BasketSpec

(***************************************************************************)
(* What a package for a prompt quotes was on its page at some moment since *)
(* the package was asked for, whoever changes pages, deletes documents or  *)
(* orders the basket meanwhile (_validated_snapshot).                      *)
(***************************************************************************)
THEOREM PackagesAreCurrent == BasketSpec => []PackageIsCurrent
<1>1. BasketInv => PackageIsCurrent
  <2> SUFFICES ASSUME BasketInv, NEW s \in Sessions, Turn(s, "package"),
                      session[s].left = <<>>, NEW source \in session[s].quoted
               PROVE  source.of \in session[s].seen[source.page]
    BY DEF PackageIsCurrent
  <2>1. PICK left, quoted, seen : /\ session[s] = Package(left, quoted, seen)
                                  /\ QuotesHold(left, quoted, seen)
    BY BasketRequests DEF BasketInv
  <2>2. left = <<>> /\ session[s].quoted = quoted /\ session[s].seen = seen
    BY <2>1 DEF Package
  <2>3. ToSet(left) = {}
    BY <2>2 DEF ToSet
  <2> QED
    BY <2>1, <2>2, <2>3 DEF QuotesHold
<1> QED
  BY <1>1, BasketInvariance, PTL
=============================================================================
