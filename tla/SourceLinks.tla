---------------------------- MODULE SourceLinks ----------------------------
(***************************************************************************)
(* The sources of knowledge objects: the links of                          *)
(* src/knowledge_object_service.py and the fingerprints they keep          *)
(* (src/source_fingerprint.py), the notes of src/note_service.py and the   *)
(* items of src/evidence_basket_service.py they can name.                  *)
(*                                                                         *)
(* A link names its target by type and id without a foreign key: whoever   *)
(* deletes a target deletes its links.  A request reads on one connection  *)
(* and writes on another, and other sessions come between.                 *)
(*                                                                         *)
(* A page can hold nothing to quote: None.  Remarks, excerpts and          *)
(* coordinates are left out.  The links are those of one object: links of  *)
(* two do not meet.  The places of the items are in module EvidenceBasket. *)
(***************************************************************************)
EXTENDS Naturals, Sources

CONSTANTS
    Anchors,      \* ids of notes and of items
    MaxLinks      \* bound: links ever made

\* Rows of notes and evidence_items.
AnchorRows == [page: Pages, kind: AnchorKinds, of: PageContents \cup {None}]

ASSUME LinksAssumption ==
    /\ None \notin PageContents /\ None \notin AnchorRows
    /\ MaxLinks \in Nat

LinkIds == 1 .. MaxLinks     \* AUTOINCREMENT

VARIABLES
    notes,      \* id -> row of notes, or None
    items,      \* id -> row of evidence_items, or None
    given,      \* the ids of notes and items given out so far: AUTOINCREMENT
    sources,    \* id -> row of knowledge_object_sources, or None
    lastSource  \* the last id of a link given out

linksVars == <<pages, notes, items, given, sources, lastSource, session, changes>>

Targets == ({"document", "page"} \X Pages) \cup ({"note", "evidence"} \X Anchors)

LinksInit ==
    /\ pages \in [Pages -> {{c} : c \in PageContents \cup {None}}]
    /\ notes = [n \in Anchors |-> None]
    /\ items = [i \in Anchors |-> None]
    /\ given = [note |-> {}, evidence |-> {}]
    /\ sources = [l \in LinkIds |-> None]
    /\ lastSource = 0
    /\ session = [s \in Sessions |-> None]
    /\ changes = 0

Unlinked(gone) ==
    [l \in LinkIds |->
        IF sources[l] # None /\ sources[l].target \in gone THEN None ELSE sources[l]]

-----------------------------------------------------------------------------
(* Notes and items.                                                        *)

\* create_page_note, create_text_selection_note, create_image_region_note,
\* add_item, add_page_item, add_region_item and the two rebinds read the page
\* and its hash first.  A note of a part needs something to quote; an item can
\* hold a text its page does not.
ReadAnchor(s, op, n, p, kind) ==
    /\ There(p)
    /\ op # "evidence" /\ kind = "part" => Content(p) # None
    /\ Begin(s, [op |-> op, id |-> n, page |-> p, kind |-> kind,
                 of |-> IF kind = "page" THEN None ELSE Content(p)])
    /\ UNCHANGED <<pages, notes, items, given, sources, lastSource, changes>>

ReadCreateNote(s, n, p, kind) ==
    n \notin given.note /\ ReadAnchor(s, "note", n, p, kind)

ReadAddItem(s, i, p, kind) ==
    i \notin given.evidence /\ ReadAnchor(s, "evidence", i, p, kind)

ReadRebind(s, n) ==
    /\ notes[n] # None
    /\ notes[n].kind = "part"
    /\ ReadAnchor(s, "rebind", n, notes[n].page, "part")

Row(request) ==
    [page |-> request.page, kind |-> request.kind, of |-> request.of]

\* _insert_note; the foreign key refuses a page that is gone.
InsertNote(s) ==
    LET n == session[s].id IN
    /\ Turn(s, "note")
    /\ IF There(session[s].page) /\ n \notin given.note
       THEN /\ notes' = [notes EXCEPT ![n] = Row(session[s])]
            /\ given' = [given EXCEPT !.note = @ \cup {n}]
       ELSE UNCHANGED <<notes, given>>
    /\ End(s)
    /\ UNCHANGED <<pages, items, sources, lastSource, changes>>

\* insert_item; likewise.
InsertItem(s) ==
    LET i == session[s].id IN
    /\ Turn(s, "evidence")
    /\ IF There(session[s].page) /\ i \notin given.evidence
       THEN /\ items' = [items EXCEPT ![i] = Row(session[s])]
            /\ given' = [given EXCEPT !.evidence = @ \cup {i}]
       ELSE UNCHANGED <<items, given>>
    /\ End(s)
    /\ UNCHANGED <<pages, notes, sources, lastSource, changes>>

\* _apply_update; a note that is gone is not updated.
Rebind(s) ==
    LET n == session[s].id IN
    /\ Turn(s, "rebind")
    /\ notes' = [notes EXCEPT ![n] = IF @ = None THEN None ELSE Row(session[s])]
    /\ End(s)
    /\ UNCHANGED <<pages, items, given, sources, lastSource, changes>>

\* delete_note: in one transaction the links of the note and the note.
DeleteNote(n) ==
    /\ notes[n] # None
    /\ notes' = [notes EXCEPT ![n] = None]
    /\ sources' = Unlinked({<<"note", n>>})
    /\ UNCHANGED <<pages, items, given, lastSource, session, changes>>

\* delete_item: likewise.
RemoveItem(i) ==
    /\ items[i] # None
    /\ items' = [items EXCEPT ![i] = None]
    /\ sources' = Unlinked({<<"evidence", i>>})
    /\ UNCHANGED <<pages, notes, given, lastSource, session, changes>>

\* clear_items: all items of the basket.
Clear ==
    /\ \E i \in Anchors : items[i] # None
    /\ items' = [i \in Anchors |-> None]
    /\ sources' = Unlinked({<<"evidence", i>> : i \in Anchors})
    /\ UNCHANGED <<pages, notes, given, lastSource, session, changes>>

-----------------------------------------------------------------------------
(* Links.                                                                  *)

\* _source_target_exists.
TargetExists(t) ==
    CASE t[1] \in {"document", "page"} -> There(t[2])
      [] t[1] = "note"                 -> notes[t[2]] # None
      [] t[1] = "evidence"             -> items[t[2]] # None

\* compute_source_fingerprint: what is hashed of a target that is there.  The
\* file of a document does not change.
Fingerprint(t) ==
    CASE t[1] = "document" -> "file"
      [] t[1] = "page"     -> Content(t[2])
      [] t[1] = "note"     -> <<notes[t[2]].kind, notes[t[2]].of>>
      [] t[1] = "evidence" -> <<items[t[2]].kind, items[t[2]].of>>

\* _capture_fingerprint raises where there is nothing to hash.
CanCapture(t) == TargetExists(t) /\ (t[1] = "page" => Content(t[2]) # None)

\* link_source looks for its target on another connection first.
ReadLinkSource(s, t) ==
    /\ TargetExists(t)
    /\ Begin(s, [op |-> "link", target |-> t])
    /\ UNCHANGED <<pages, notes, items, given, sources, lastSource, changes>>

\* UNIQUE (knowledge_object_id, source_type, source_id).
Linked(t) == \E l \in LinkIds : sources[l] # None /\ sources[l].target = t

\* Mutant: The look for the target is taken to hold in the transaction.
LinkUnseen(s) ==
    LET t == session[s].target IN
    /\ Turn(s, "link")
    /\ IF ~Linked(t) /\ lastSource < MaxLinks
       THEN /\ lastSource' = lastSource + 1
            /\ sources' = [sources EXCEPT
                   ![lastSource + 1] = [target |-> t, print |-> "file"]]
       ELSE UNCHANGED <<sources, lastSource>>
    /\ End(s)
    /\ UNCHANGED <<pages, notes, items, given, changes>>

\* The transaction takes the fingerprint and adds the link.
LinkSource(s) ==
    LET t == session[s].target IN
    /\ Turn(s, "link")
    /\ IF CanCapture(t) /\ ~Linked(t) /\ lastSource < MaxLinks
       THEN /\ lastSource' = lastSource + 1
            /\ sources' = [sources EXCEPT
                   ![lastSource + 1] = [target |-> t, print |-> Fingerprint(t)]]
       ELSE UNCHANGED <<sources, lastSource>>
    /\ End(s)
    /\ UNCHANGED <<pages, notes, items, given, changes>>

\* recapture_source_fingerprint reads the row.
ReadRecapture(s, l) ==
    /\ sources[l] # None
    /\ Begin(s, [op |-> "recapture", link |-> l, row |-> sources[l]])
    /\ UNCHANGED <<pages, notes, items, given, sources, lastSource, changes>>

\* Its transaction takes the fingerprint anew and compares it with the row that
\* was read; a link that is gone is not updated.
Recapture(s) ==
    LET l == session[s].link
        row == session[s].row
    IN  /\ Turn(s, "recapture")
        /\ sources' =
              IF /\ CanCapture(row.target)
                 /\ Fingerprint(row.target) # row.print
                 /\ sources[l] # None
              THEN [sources EXCEPT ![l] =
                       [target |-> row.target, print |-> Fingerprint(row.target)]]
              ELSE sources
        /\ End(s)
        /\ UNCHANGED <<pages, notes, items, given, lastSource, changes>>

\* unlink_source.
Unlink(l) ==
    /\ sources[l] # None
    /\ sources' = [sources EXCEPT ![l] = None]
    /\ UNCHANGED <<pages, notes, items, given, lastSource, session, changes>>

-----------------------------------------------------------------------------
(* The pages, changed by other components.                                 *)

ChangePage(p, c) ==
    /\ Changed(p, c)
    /\ UNCHANGED <<notes, items, given, sources, lastSource, session>>

Of(rows, p) == {n \in Anchors : rows[n] # None /\ rows[n].page = p}

\* _delete_database_records: the links, and the page with its notes and items
\* by ON DELETE CASCADE.
DeleteDocument(p) ==
    /\ Gone(p)
    /\ notes' = [n \in Anchors |-> IF n \in Of(notes, p) THEN None ELSE notes[n]]
    /\ items' = [i \in Anchors |-> IF i \in Of(items, p) THEN None ELSE items[i]]
    /\ sources' = Unlinked({<<"document", p>>, <<"page", p>>}
                             \cup {<<"note", n>> : n \in Of(notes, p)}
                             \cup {<<"evidence", i>> : i \in Of(items, p)})
    /\ UNCHANGED <<given, lastSource, session>>

-----------------------------------------------------------------------------
Anchoring(s) ==
    \/ \E n \in Anchors, p \in Pages, kind \in AnchorKinds :
           ReadCreateNote(s, n, p, kind) \/ ReadAddItem(s, n, p, kind)
    \/ \E n \in Anchors : ReadRebind(s, n)
    \/ InsertNote(s)
    \/ InsertItem(s)
    \/ Rebind(s)

Linking(s) ==
    \/ \E t \in Targets : ReadLinkSource(s, t)
    \/ \E l \in LinkIds : ReadRecapture(s, l)
    \/ LinkSource(s)
    \/ Recapture(s)

LinksNext ==
    \/ \E s \in Sessions : Anchoring(s) \/ Linking(s)
    \/ \E n \in Anchors : DeleteNote(n) \/ RemoveItem(n)
    \/ Clear
    \/ \E l \in LinkIds : Unlink(l)
    \/ \E p \in Pages : DeleteDocument(p)
    \/ \E p \in Pages, c \in PageContents \cup {None} : ChangePage(p, c)

LinksSpec == LinksInit /\ [][LinksNext]_linksVars

-----------------------------------------------------------------------------
(* What the module promises: rows are of their types, and an anchor has    *)
(* its page.                                                               *)

LinksTypeOK ==
    /\ pages \in [Pages -> {{}} \cup {{c} : c \in PageContents \cup {None}}]
    /\ notes \in [Anchors -> AnchorRows \cup {None}]
    /\ items \in [Anchors -> AnchorRows \cup {None}]
    /\ \A n \in Anchors : notes[n] # None => There(notes[n].page)
    /\ \A i \in Anchors : items[i] # None => There(items[i].page)
    /\ DOMAIN sources = LinkIds
    /\ \A l \in LinkIds : sources[l] # None => sources[l].target \in Targets
    /\ lastSource \in 0 .. MaxLinks
    /\ changes \in 0 .. MaxChanges

(***************************************************************************)
(* A source of a knowledge object is there: links have no foreign key, and *)
(* yet none outlives its document, page, note or item, whoever deletes it  *)
(* and whichever session was about to make or renew the link               *)
(* (document_deletion_service.py: "can never leave dangling KO sources").  *)
(***************************************************************************)
LinksHaveTargets ==
    \A l \in LinkIds : sources[l] # None => TargetExists(sources[l].target)
=============================================================================
