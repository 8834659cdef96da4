------------------------- MODULE KnowledgeObjects -------------------------
(***************************************************************************)
(* Knowledge objects: src/knowledge_object_service.py and the rows it      *)
(* keeps (knowledge_objects and knowledge_object_revisions, schema v10).   *)
(*                                                                         *)
(* Every operation of the service works in two steps that other sessions   *)
(* can come between: it READS the object (and walks the chain of           *)
(* successors, or counts the objects that point here) on a connection of   *)
(* its own, and then WRITES the row and one revision in one BEGIN          *)
(* IMMEDIATE transaction.  What the write takes from the read may be old   *)
(* by then.  A request that the read turns down changes nothing and is     *)
(* left out; a write that finds its row gone rolls back.                   *)
(*                                                                         *)
(* Title, text and importance of an object are one value, its content; its *)
(* epistemic_basis is left out of the row, a change of it is not: it makes *)
(* a content-bearing revision with the content it finds.                   *)
(* The sources of an object live in module SourceLinks; here they only     *)
(* take a number in the history.                                           *)
(***************************************************************************)
EXTENDS Naturals, Sequences, FiniteSets, SessionRequests

CONSTANTS
    Objects,      \* ids; AUTOINCREMENT never gives one out twice
    Contents,     \* what an object can say
    MaxRevisions  \* bound: no request is begun once there are so many
                  \* revisions, over all the objects

ASSUME NoneAssumption ==
    None \notin Objects /\ None \notin Contents
ASSUME BoundAssumption == MaxRevisions \in Nat

VARIABLES
    objects,      \* id -> row of knowledge_objects, or None
    history,      \* id -> its rows of knowledge_object_revisions by number
    overtaken,    \* history variable: the sessions that have read, and after
                  \* whose reading some other session wrote a successor
    crossed       \* history variable: a successor was written by such a one

vars == <<objects, history, session, overtaken, crossed>>

Lifecycles == {"active", "archived", "superseded"}

\* confirmed is confirmed_revision, 0 when unconfirmed.
Rows == [lifecycle: Lifecycles, successor: Objects \cup {None},
         content: Contents, revision: Nat, confirmed: Nat]

Kinds == {"created", "content_updated", "confirmation_changed",
          "lifecycle_changed", "supersession_changed", "source_changed"}

\* A revision: its kind and the content it speaks of, after_content for the
\* content-bearing kinds.  For a confirmation the row itself holds no text;
\* content is then what the confirming session had read.
Events == [kind: Kinds, content: Contents \cup {None}]

ContentBearing == {"created", "content_updated"}

\* What a request has read and will write: a new content, a successor, the
\* revision a confirmation is for, or nothing.
Requests ==
    [op: {"update"}, object: Objects, arg: Contents]
    \cup [op: {"supersede", "repoint"}, object: Objects, arg: Objects]
    \cup [op: {"confirm"}, object: Objects,
          arg: [revision: Nat, content: Contents]]
    \cup [op: {"basis", "unconfirm", "archive", "unarchive", "reactivate",
               "delete", "source"}, object: Objects, arg: {None}]

\* NULL is neither a row nor a request.
ASSUME NullAssumption == None \notin Rows /\ None \notin Requests

TypeOK ==
    /\ objects \in [Objects -> Rows \cup {None}]
    /\ history \in [Objects -> Seq(Events)]
    /\ session \in [Sessions -> Requests \cup {None}]
    /\ overtaken \in SUBSET Sessions
    /\ crossed \in BOOLEAN

Init ==
    /\ objects = [o \in Objects |-> None]
    /\ history = [o \in Objects |-> << >>]
    /\ session = [s \in Sessions |-> None]
    /\ overtaken = {}
    /\ crossed = FALSE

Exists(o) == objects[o] # None

Revisions == UNION {{o} \X DOMAIN history[o] : o \in Objects}

Event(kind, content) == [kind |-> kind, content |-> content]

-----------------------------------------------------------------------------
(* Reading: the request, and of what was read the part the write will use. *)

Read(s, op, o, arg) ==
    /\ Exists(o)
    /\ Cardinality(Revisions) < MaxRevisions
    /\ Begin(s, [op |-> op, object |-> o, arg |-> arg])
    /\ UNCHANGED <<objects, history, overtaken, crossed>>

\* _supersession_chain_reaches: the walk from start along the successors,
\* which stops at a NULL, a missing row or an id it has seen.
Walk(start) ==
    LET step[n \in 0 .. Cardinality(Objects)] ==
            IF n = 0 THEN start
            ELSE LET o == step[n - 1] IN
                 IF o \in Objects /\ Exists(o) THEN objects[o].successor
                                              ELSE None
    IN step

ChainReaches(start, target) ==
    LET step == Walk(start) IN \E n \in DOMAIN step : step[n] = target

Inbound(o) == {p \in Objects : Exists(p) /\ objects[p].successor = o}

ReadUpdate(s, o, c) == objects[o].content # c /\ Read(s, "update", o, c)

\* Some other basis than the one the object has.
ReadBasis(s, o) == Read(s, "basis", o, None)

ReadConfirm(s, o) ==
    /\ objects[o].confirmed # objects[o].revision
    /\ Read(s, "confirm", o, [revision |-> objects[o].revision,
                              content |-> objects[o].content])

ReadUnconfirm(s, o) ==
    objects[o].confirmed # 0 /\ Read(s, "unconfirm", o, None)

ReadArchive(s, o) ==
    objects[o].lifecycle = "active" /\ Read(s, "archive", o, None)

ReadUnarchive(s, o) ==
    objects[o].lifecycle = "archived" /\ Read(s, "unarchive", o, None)

ReadReactivate(s, o) ==
    objects[o].lifecycle = "superseded" /\ Read(s, "reactivate", o, None)

\* Mutant: The chain walked from the wrong end, and any successor not archived.
MaySucceedSwapped(old, new) ==
    /\ old # new
    /\ Exists(new)
    /\ objects[new].lifecycle # "archived"
    /\ ~ChainReaches(old, new)

\* The successor asked for: another object, active, and not one whose own
\* chain leads back here.
MaySucceed(old, new) ==
    /\ old # new
    /\ Exists(new)
    /\ objects[new].lifecycle = "active"
    /\ ~ChainReaches(new, old)

ReadSupersede(s, old, new) ==
    MaySucceed(old, new) /\ Read(s, "supersede", old, new)

ReadRepoint(s, old, new) ==
    /\ objects[old].lifecycle = "superseded"
    /\ MaySucceed(old, new)
    /\ Read(s, "repoint", old, new)

ReadDelete(s, o) == Inbound(o) = {} /\ Read(s, "delete", o, None)

ReadSource(s, o) == Read(s, "source", o, None)

-----------------------------------------------------------------------------
(* Writing: one transaction.                                               *)

\* The session ends, and with it what it had read.
Done(s) ==
    /\ End(s)
    /\ overtaken' = overtaken \ {s}

\* knowledge_transaction around one UPDATE and one insert_knowledge_revision;
\* UPDATE of a row that is gone, or a foreign key refused, rolls back.
Transaction(s, allowed, row, event) ==
    LET o == session[s].object IN
    IF Exists(o) /\ allowed
    THEN /\ objects' = [objects EXCEPT ![o] = row]
         /\ history' = [history EXCEPT ![o] = Append(@, event)]
    ELSE UNCHANGED <<objects, history>>

Current(s) == objects[session[s].object]

\* Mutant: The number taken from the row instead of from the history.
NextRevisionOfRow(s) == Current(s).revision + 1

\* next_knowledge_revision_number: MAX(revision_number) + 1, asked inside the
\* transaction.  No revision is ever deleted.
NextRevision(s) == Len(history[session[s].object]) + 1

\* The UPDATE statements, each with the columns it sets together.
WithContent(row, content, revision) ==
    [lifecycle |-> row.lifecycle, successor |-> row.successor,
     content |-> content, revision |-> revision, confirmed |-> row.confirmed]

WithLifecycle(row, lifecycle, successor) ==
    [lifecycle |-> lifecycle, successor |-> successor,
     content |-> row.content, revision |-> row.revision,
     confirmed |-> row.confirmed]

WithBasis(row, revision) == WithContent(row, row.content, revision)

WithConfirmation(row, revision) == [row EXCEPT !.confirmed = revision]

UpdateContent(s) ==
    /\ Turn(s, "update")
    /\ Transaction(s, TRUE,
           WithContent(Current(s), session[s].arg, NextRevision(s)),
           Event("content_updated", session[s].arg))
    /\ Done(s)
    /\ UNCHANGED crossed

UpdateBasis(s) ==
    /\ Turn(s, "basis")
    /\ Transaction(s, TRUE,
           WithBasis(Current(s), NextRevision(s)),
           Event("content_updated", Current(s).content))
    /\ Done(s)
    /\ UNCHANGED crossed

\* Mutant: The confirmation binds to the revision the row has when it is written.
ConfirmWhatIsThere(s) ==
    /\ Turn(s, "confirm")
    /\ Transaction(s, TRUE,
           WithConfirmation(Current(s), Current(s).revision),
           Event("confirmation_changed", session[s].arg.content))
    /\ Done(s)
    /\ UNCHANGED crossed

\* confirm() writes the revision it READ: a confirmation that comes after a
\* change of the content is stored, and is stale from the start.
Confirm(s) ==
    /\ Turn(s, "confirm")
    /\ Transaction(s, TRUE,
           WithConfirmation(Current(s), session[s].arg.revision),
           Event("confirmation_changed", session[s].arg.content))
    /\ Done(s)
    /\ UNCHANGED crossed

Unconfirm(s) ==
    /\ Turn(s, "unconfirm")
    /\ Transaction(s, TRUE, WithConfirmation(Current(s), 0),
           Event("confirmation_changed", None))
    /\ Done(s)
    /\ UNCHANGED crossed

Archive(s) ==
    /\ Turn(s, "archive")
    /\ Transaction(s, TRUE,
           WithLifecycle(Current(s), "archived", None),
           Event("lifecycle_changed", None))
    /\ Done(s)
    /\ UNCHANGED crossed

Unarchive(s) ==
    /\ Turn(s, "unarchive")
    /\ Transaction(s, TRUE,
           WithLifecycle(Current(s), "active", None),
           Event("lifecycle_changed", None))
    /\ Done(s)
    /\ UNCHANGED crossed

Reactivate(s) ==
    /\ Turn(s, "reactivate")
    /\ Transaction(s, TRUE,
           WithLifecycle(Current(s), "active", None),
           Event("supersession_changed", None))
    /\ Done(s)
    /\ UNCHANGED crossed

\* supersede and repoint_supersession write the same; the foreign key
\* superseded_by_ko_id refuses a successor deleted since it was looked at.
Supersede(s) ==
    /\ Turn(s, "supersede") \/ Turn(s, "repoint")
    /\ Transaction(s, Exists(session[s].arg),
           WithLifecycle(Current(s), "superseded", session[s].arg),
           Event("supersession_changed", None))
    /\ End(s)
    /\ overtaken' = {t \in Sessions \ {s} : session[t] # None}
    /\ crossed' = (crossed \/ s \in overtaken)

\* link_source and unlink_source: the row of the object stays as it is.
SourceChanged(s) ==
    /\ Turn(s, "source")
    /\ Transaction(s, TRUE, Current(s), Event("source_changed", None))
    /\ Done(s)
    /\ UNCHANGED crossed

\* Mutant: No foreign key, only the count read before.
DeleteOnCount(s) ==
    /\ Turn(s, "delete")
    /\ objects' = [objects EXCEPT ![session[s].object] = None]
    /\ Done(s)
    /\ UNCHANGED <<history, crossed>>

\* DELETE, which ON DELETE RESTRICT refuses while a successor pointer leads
\* here.  The revisions are kept.
DeleteRow(o) ==
    IF Inbound(o) = {} THEN objects' = [objects EXCEPT ![o] = None]
                       ELSE UNCHANGED objects

Delete(s) ==
    /\ Turn(s, "delete")
    /\ DeleteRow(session[s].object)
    /\ Done(s)
    /\ UNCHANGED <<history, crossed>>

NewRow(content) ==
    [lifecycle |-> "active", successor |-> None, content |-> content,
     revision |-> 1, confirmed |-> 0]

\* create: one transaction, the object, its first revision, and a revision
\* for each source it is given (none or one here).
Create(o, c) ==
    /\ history[o] = << >>
    /\ objects' = [objects EXCEPT ![o] = NewRow(c)]
    /\ \E named \in {<< >>, <<Event("source_changed", None)>>} :
           history' = [history EXCEPT ![o] =
               <<Event("created", c)>> \o named]
    /\ UNCHANGED <<session, overtaken, crossed>>

-----------------------------------------------------------------------------
Reading(s) ==
    \E o \in Objects :
        \/ \E c \in Contents : Exists(o) /\ ReadUpdate(s, o, c)
        \/ Exists(o) /\ ReadBasis(s, o)
        \/ Exists(o) /\ ReadConfirm(s, o)
        \/ Exists(o) /\ ReadUnconfirm(s, o)
        \/ Exists(o) /\ ReadArchive(s, o)
        \/ Exists(o) /\ ReadUnarchive(s, o)
        \/ Exists(o) /\ ReadReactivate(s, o)
        \/ \E new \in Objects : Exists(o) /\ ReadSupersede(s, o, new)
        \/ \E new \in Objects : Exists(o) /\ ReadRepoint(s, o, new)
        \/ ReadDelete(s, o)
        \/ ReadSource(s, o)

Writing(s) ==
    \/ UpdateContent(s)
    \/ UpdateBasis(s)
    \/ Confirm(s)
    \/ Unconfirm(s)
    \/ Archive(s)
    \/ Unarchive(s)
    \/ Reactivate(s)
    \/ Supersede(s)
    \/ SourceChanged(s)
    \/ Delete(s)

Next ==
    \/ \E o \in Objects, c \in Contents : Create(o, c)
    \/ \E s \in Sessions : Reading(s) \/ Writing(s)

Spec == Init /\ [][Next]_vars

-----------------------------------------------------------------------------
(* What the module promises.                                               *)

(***************************************************************************)
(* current_revision is the number of the latest content-bearing revision,  *)
(* and that revision holds the content of the row, whatever the sessions   *)
(* wrote in between (the docstring of knowledge_object_service.py says     *)
(* "always").                                                              *)
(***************************************************************************)
RevisionIsContent ==
    \A o \in Objects : Exists(o) =>
        /\ objects[o].revision \in DOMAIN history[o]
        /\ history[o][objects[o].revision].kind \in ContentBearing
        /\ history[o][objects[o].revision].content = objects[o].content
        /\ \A n \in DOMAIN history[o] :
               history[o][n].kind \in ContentBearing =>
                   n <= objects[o].revision

\* The numbers of the confirmations of o.
Confirmations(o) ==
    {n \in DOMAIN history[o] : /\ history[o][n].kind = "confirmation_changed"
                               /\ history[o][n].content # None}

(***************************************************************************)
(* A confirmation that counts as current (confirmation_is_current) was     *)
(* given by somebody who had read the very content the row now holds.      *)
(***************************************************************************)
ConfirmedWasRead ==
    \A o \in Objects :
        Exists(o) /\ objects[o].confirmed = objects[o].revision =>
            \E n \in Confirmations(o) :
                /\ history[o][n].content = objects[o].content
                /\ n > objects[o].revision

\* Objects each of which is superseded by another of them.
Circle(ring) ==
    /\ ring # {}
    /\ \A o \in ring : Exists(o) /\ objects[o].successor \in ring

(***************************************************************************)
(* Successors lead in a circle only after two sessions looked at the chain *)
(* before either had written: the check before the transaction is enough   *)
(* for every history in which they did not, deletions, archiving and       *)
(* reactivation in between included.                                       *)
(***************************************************************************)
CirclesNeedARace == ~crossed => \A ring \in SUBSET Objects : ~Circle(ring)

(***************************************************************************)
(* The successor of a superseded object exists, and only a superseded      *)
(* object has one.                                                         *)
(***************************************************************************)
SuccessorsExist ==
    \A o \in Objects : Exists(o) =>
        /\ objects[o].lifecycle = "superseded" <=> objects[o].successor # None
        /\ objects[o].successor # None => Exists(objects[o].successor)
=============================================================================
