--------------------------- MODULE KnowledgeMemory ---------------------------
(***************************************************************************)
(* What a user keeps of the answers of the agent: saved questions and      *)
(* answers, and the experiences made from them                             *)
(* (src/knowledge_memory_service.py, the rows of src/database.py), with    *)
(* the draft that a session holds while an experience is reviewed          *)
(* (src/knowledge_memory_ui.py).                                           *)
(*                                                                         *)
(* Every check is a read on one connection and every write another one, so *)
(* other sessions come between.  A question stands for the text saved with *)
(* it, and for what a draft makes of it; the wording the user edits is     *)
(* left out, and so are the pages an answer cites.                         *)
(***************************************************************************)
EXTENDS Naturals, FiniteSets, SessionRequests

CONSTANTS
    Questions,     \* answered, and asked to be saved
    MaxEntries,    \* bound: rows ever made
    MaxDeletions   \* bound: deletions

Entries == 1 .. MaxEntries     \* AUTOINCREMENT

\* Rows of knowledge_memory_entries.
EntryRows ==
    [kind: {"raw_qa", "experience"}, status: {"active", "deleted"}, of: Questions,
     source: Entries \cup {None}]

ASSUME MemoryAssumption ==
    /\ None \notin Questions /\ None \notin Entries /\ None \notin EntryRows
    /\ MaxEntries \in Nat /\ MaxDeletions \in Nat

VARIABLES
    entries,     \* id -> row, or None
    lastEntry,   \* the last id given out
    links,       \* knowledge_memory_links: pairs of experiences, for one relation type
    draft,       \* session -> the draft in its session_state, or None
    deletions,   \* deletions so far
    restored,    \* history: the entries ever restored
    raced        \* history: what two sessions were about to add in one moment

memoryVars == <<entries, lastEntry, links, session, draft, deletions, restored, raced>>

MemoryInit ==
    /\ entries = [e \in Entries |-> None]
    /\ lastEntry = 0
    /\ links = {}
    /\ session = [s \in Sessions |-> None]
    /\ draft = [s \in Sessions |-> None]
    /\ deletions = 0
    /\ restored = {}
    /\ raced = {}

Stored(e) == entries[e] # None

Active(e, kind) ==
    Stored(e) /\ entries[e].kind = kind /\ entries[e].status = "active"

\* find_active_raw_qa_by_fingerprint, find_active_experience_by_source.
Copies(q) == {e \in Entries : Active(e, "raw_qa") /\ entries[e].of = q}

Experiences(e) == {x \in Entries : Active(x, "experience") /\ entries[x].source = e}

-----------------------------------------------------------------------------
(* Requests: the first read begins one, its subject names what it is at.   *)

Additions == {"save", "promote", "link"}

Ask(s, request) ==
    /\ Begin(s, request)
    /\ raced' = raced \cup
          {subject \in {request.subject} :
              /\ subject[1] \in Additions
              /\ \E t \in Sessions : session[t] # None /\ session[t].subject = subject}

Insert(row) ==
    /\ lastEntry < MaxEntries
    /\ lastEntry' = lastEntry + 1
    /\ entries' = [entries EXCEPT ![lastEntry + 1] = row]

-----------------------------------------------------------------------------
(* Saving an answer.                                                       *)

\* create_raw_qa_entry: a copy ends it; then the citations are read.
FindCopy(s, q) ==
    /\ Copies(q) = {}
    /\ Ask(s, [op |-> "save", subject |-> <<"save", q>>])
    /\ UNCHANGED <<entries, lastEntry, links, draft, deletions, restored>>

\* The row, whatever was saved since.
SaveCopy(s) ==
    /\ Turn(s, "save")
    /\ LET q == session[s].subject[2]
       IN  Insert([kind |-> "raw_qa", status |-> "active", of |-> q,
                   source |-> None])
    /\ End(s)
    /\ UNCHANGED <<links, draft, deletions, restored, raced>>

-----------------------------------------------------------------------------
(* The draft of an experience, in one session.                             *)

Drafting(s, e) == session[s] = None /\ draft[s] # None /\ draft[s].source = e

\* _generate_experience_draft, offered for an active answer that has neither a
\* draft here nor an experience: the draft before it is replaced, what was in
\* review stays.
Generate(s, e) ==
    /\ session[s] = None /\ Active(e, "raw_qa")
    /\ ~Drafting(s, e) /\ Experiences(e) = {}
    /\ draft' = [draft EXCEPT ![s] =
          [source |-> e, of |-> entries[e].of,
           review |-> IF @ = None THEN None ELSE @.review]]
    /\ UNCHANGED <<entries, lastEntry, links, session, deletions, restored, raced>>

\* _render_experience_draft_form: on to the review, or given up.
Review(s, e) ==
    /\ Active(e, "raw_qa") /\ Drafting(s, e) /\ draft[s].review = None
    /\ \/ draft' = [draft EXCEPT ![s].review = draft[s].of]
       \/ draft' = [draft EXCEPT ![s] = None]
    /\ UNCHANGED <<entries, lastEntry, links, session, deletions, restored, raced>>

\* Back from the review.
Back(s, e) ==
    /\ Active(e, "raw_qa") /\ Drafting(s, e) /\ draft[s].review # None
    /\ draft' = [draft EXCEPT ![s].review = None]
    /\ UNCHANGED <<entries, lastEntry, links, session, deletions, restored, raced>>

\* Confirmed: promote_raw_qa_to_experience reads the source.
ReadPromote(s, e) ==
    /\ Active(e, "raw_qa") /\ Drafting(s, e) /\ draft[s].review # None
    /\ Ask(s, [op |-> "find", subject |-> <<"promote", e>>])
    /\ UNCHANGED <<entries, lastEntry, links, draft, deletions, restored>>

\* An experience of the source ends it.
FindExperience(s) ==
    /\ Turn(s, "find")
    /\ IF Experiences(session[s].subject[2]) = {}
       THEN session' = [session EXCEPT ![s] = [@ EXCEPT !.op = "promote"]]
       ELSE End(s)
    /\ UNCHANGED <<entries, lastEntry, links, draft, deletions, restored, raced>>

\* Its foreign key names a row that is there.  The draft is done with.
Promote(s) ==
    /\ Turn(s, "promote")
    /\ LET e == session[s].subject[2]
       IN  IF Stored(e)
           THEN /\ Insert([kind |-> "experience", status |-> "active",
                           of |-> draft[s].review, source |-> e])
                /\ draft' = [draft EXCEPT ![s] = None]
           ELSE UNCHANGED <<entries, lastEntry, draft>>
    /\ End(s)
    /\ UNCHANGED <<links, deletions, restored, raced>>

-----------------------------------------------------------------------------
(* Relations between experiences.                                          *)

\* Mutant: Only the same direction is looked for.
ReadLinkOneWay(s, x, y) ==
    /\ x # y /\ Active(x, "experience") /\ Active(y, "experience")
    /\ <<x, y>> \notin links
    /\ Ask(s, [op |-> "link", subject |-> <<"link", {x, y}>>, from |-> x, to |-> y])
    /\ UNCHANGED <<entries, lastEntry, links, draft, deletions, restored>>

\* link_experience_relation: both are there, and not yet related the other way.
ReadLink(s, x, y) ==
    /\ x # y /\ Active(x, "experience") /\ Active(y, "experience")
    /\ <<y, x>> \notin links
    /\ Ask(s, [op |-> "link", subject |-> <<"link", {x, y}>>, from |-> x, to |-> y])
    /\ UNCHANGED <<entries, lastEntry, links, draft, deletions, restored>>

\* UNIQUE and the foreign keys refuse the rest.
Link(s) ==
    /\ Turn(s, "link")
    /\ LET x == session[s].from
           y == session[s].to
       IN  links' = IF Stored(x) /\ Stored(y) THEN links \cup {<<x, y>>} ELSE links
    /\ End(s)
    /\ UNCHANGED <<entries, lastEntry, draft, deletions, restored, raced>>

-----------------------------------------------------------------------------
(* Deleting, restoring, and destroying.                                    *)

\* The status is set by id, whatever the row is by now; a row that is gone is
\* an error.
SetStatus(e, status) ==
    entries' = IF Stored(e) THEN [entries EXCEPT ![e].status = status] ELSE entries

ReadDeleteEntry(s, e) ==
    /\ deletions < MaxDeletions
    /\ deletions' = deletions + 1
    /\ Stored(e) /\ entries[e].status = "active"
    /\ Ask(s, [op |-> "delete", subject |-> <<"delete", e>>])
    /\ UNCHANGED <<entries, lastEntry, links, draft, restored>>

\* delete_entry; the session forgets its draft of the entry.
DeleteEntry(s) ==
    /\ Turn(s, "delete")
    /\ LET e == session[s].subject[2] IN
       /\ SetStatus(e, "deleted")
       /\ draft' = IF Stored(e) /\ draft[s] # None /\ draft[s].source = e
                   THEN [draft EXCEPT ![s] = None] ELSE draft
    /\ End(s)
    /\ UNCHANGED <<lastEntry, links, deletions, restored, raced>>

ReadRestore(s, e) ==
    /\ Stored(e) /\ entries[e].status = "deleted"
    /\ Ask(s, [op |-> "restore", subject |-> <<"restore", e>>])
    /\ UNCHANGED <<entries, lastEntry, links, draft, deletions, restored>>

\* restore_entry: copies are not looked for.
Restore(s) ==
    /\ Turn(s, "restore")
    /\ LET e == session[s].subject[2] IN
       /\ SetStatus(e, "active")
       /\ restored' = IF Stored(e) THEN restored \cup {e} ELSE restored
    /\ End(s)
    /\ UNCHANGED <<lastEntry, links, draft, deletions, raced>>

\* Mutant: Any entry can be destroyed.
ReadPurgeOfAny(s, e) ==
    /\ Stored(e)
    /\ Ask(s, [op |-> "purge", subject |-> <<"purge", e>>])
    /\ UNCHANGED <<entries, lastEntry, links, draft, deletions, restored>>

\* purge_entry: only what is deleted.
ReadPurge(s, e) ==
    /\ Stored(e) /\ entries[e].status = "deleted"
    /\ Ask(s, [op |-> "purge", subject |-> <<"purge", e>>])
    /\ UNCHANGED <<entries, lastEntry, links, draft, deletions, restored>>

\* The row goes by id; its links cascade, and its experiences lose their source.
Purge(s) ==
    /\ Turn(s, "purge")
    /\ LET gone == session[s].subject[2] IN
       /\ entries' = [e \in Entries |->
             IF e = gone THEN None
             ELSE IF Stored(e) /\ entries[e].source = gone
                  THEN [entries[e] EXCEPT !.source = None]
                  ELSE entries[e]]
       /\ links' = {l \in links : l[1] # gone /\ l[2] # gone}
    /\ End(s)
    /\ UNCHANGED <<lastEntry, draft, deletions, restored, raced>>

-----------------------------------------------------------------------------
Request(s) ==
    \/ \E q \in Questions : FindCopy(s, q)
    \/ SaveCopy(s)
    \/ \E e \in Entries :
          \/ Generate(s, e) \/ Review(s, e) \/ Back(s, e) \/ ReadPromote(s, e)
          \/ ReadDeleteEntry(s, e) \/ ReadRestore(s, e) \/ ReadPurge(s, e)
    \/ FindExperience(s) \/ Promote(s)
    \/ \E x, y \in Entries : ReadLink(s, x, y)
    \/ Link(s) \/ DeleteEntry(s) \/ Restore(s) \/ Purge(s)

MemoryNext == \E s \in Sessions : Request(s)

MemorySpec == MemoryInit /\ [][MemoryNext]_memoryVars

-----------------------------------------------------------------------------
(* What the module promises.                                               *)

\* Rows and links name rows that are there.
MemoryTypeOK ==
    /\ entries \in [Entries -> EntryRows \cup {None}]
    /\ lastEntry \in 0 .. MaxEntries
    /\ \A e \in Entries : Stored(e) =>
          /\ e <= lastEntry
          /\ entries[e].source # None => Stored(entries[e].source)
    /\ \A l \in links : l[1] # l[2] /\ Stored(l[1]) /\ Stored(l[2])
    /\ \A s \in Sessions : Turn(s, "promote") => draft[s] # None /\ draft[s].review # None

(***************************************************************************)
(* No answer is saved twice, and none has two experiences, unless one of   *)
(* the two was restored or two sessions were at it in one moment; two      *)
(* experiences stand to each other in the same relation both ways only     *)
(* after two sessions related them at once.                                *)
(***************************************************************************)
CopiesTakeARace ==
    /\ \A q \in Questions : \A e, f \in Copies(q) :
          e # f => {e, f} \cap restored # {} \/ <<"save", q>> \in raced
    /\ \A e \in Entries : \A x, y \in Experiences(e) :
          x # y => {x, y} \cap restored # {} \/ <<"promote", e>> \in raced
    /\ \A l \in links : <<l[2], l[1]>> \in links => <<"link", {l[1], l[2]}>> \in raced

(***************************************************************************)
(* What a user never deleted is never destroyed; an active entry goes only *)
(* when it was deleted and restored ("the permanent step always follows an *)
(* explicit delete, so no single action destroys content").                *)
(***************************************************************************)
DestroyedWasDeleted ==
    [][\A e \in Entries :
          Stored(e) /\ entries[e].status = "active" /\ entries'[e] = None
              => e \in restored]_memoryVars
=============================================================================
