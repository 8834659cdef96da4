----------------------------- MODULE SearchPage -----------------------------
(***************************************************************************)
(* A browser session on the search page: pages/4_检索资料.py with          *)
(* src/search_state.py and src/search_mode.py, on the library and the      *)
(* hybrid search of module PageRetrieval.                                  *)
(*                                                                         *)
(* An event makes Streamlit run the page's script from its beginning       *)
(* (phase "load"), on what the session and the URL hold.  A search by      *)
(* keywords is one statement; a hybrid search takes long enough for the    *)
(* library to change and for the next click.                               *)
(*                                                                         *)
(* The filter of a document stands for all filters, an order other than by *)
(* relevance for all such orders, and view for what only says which part   *)
(* of the results is shown: the group, the view mode, the opened document  *)
(* and preview.  What the personal knowledge search finds is left out.     *)
(***************************************************************************)
EXTENDS PageRetrieval

CONSTANTS
    Empty,        \* the query of a new session
    Reads,        \* query -> the query read from its URL
    Filtered,     \* the page of the document that can be filtered by
    MaxActions    \* bound: what the user does

ASSUME QueryAssumption ==
    /\ Empty \in Queries
    /\ Reads \in [Queries -> Queries]
    /\ \A q \in Queries : Reads[Reads[q]] = Reads[q]
    /\ Filtered \in Pages
ASSUME ActionAssumption == MaxActions \in Nat

\* SearchPageState.
States ==
    [query: Queries, scope: {"page", "knowledge"}, mode: {"keyword", "hybrid"},
     filtered: BOOLEAN, sort: {"relevance", "other"}, view: {1, 2}, open: BOOLEAN]

\* What a search depends on.
Projections ==
    [query: Queries, scope: {"page", "knowledge"}, mode: {"keyword", "hybrid"},
     filtered: BOOLEAN, sort: {"relevance", "other"}]

ASSUME NoneAssumption == None \notin States /\ None \notin Projections

Default ==
    [query |-> Empty, scope |-> "page", mode |-> "keyword", filtered |-> FALSE,
     sort |-> "relevance", view |-> 1, open |-> FALSE]

HybridIsAllowed(s) == s.mode = "hybrid" /\ s.sort = "relevance" /\ ~s.filtered

\* _search_projection.
Projection(s) ==
    [query |-> s.query, scope |-> s.scope, mode |-> s.mode,
     filtered |-> s.filtered, sort |-> s.sort]

\* _sanitize_metadata_ids: the filter of a document that is gone is dropped.
Sanitized(s) == [s EXCEPT !.filtered = (@ /\ There(Filtered))]

\* parse_search_state splits every value at its commas and keeps the first
\* part without its spaces, also of the query.
Parsed(s) == [s EXCEPT !.query = Reads[@]]

VARIABLES
    phase,      \* "idle", "load", or "search" while a hybrid search runs
    url,        \* the state the URL was written from, or None
    active,     \* search_active_state, or None
    signature,  \* search_url_signature, or None
    previous,   \* search_previous_state, or None
    executed,   \* search_executed_projection, or None
    shown,      \* scope -> the projection its results are of, the results, and
                \* history: those of them that their vectors found
    note,       \* search_hybrid_note
    weak,       \* whether there is a search_weak_evidence_note
    strayed,    \* history: why the results may not be those of active
    actions     \* what the user did so far

place == <<url, active, signature, previous>>
session == <<phase, url, active, signature, previous, executed, shown, note, weak, strayed, actions>>
vars == <<library, search, session>>

Nothing == [of |-> None, found |-> {}, meant |-> {}]

NothingShown == [page |-> Nothing, knowledge |-> Nothing]

Init ==
    /\ RetrievalInit
    /\ phase = "load"
    /\ url = None /\ active = None /\ signature = None /\ previous = None
    /\ executed = None /\ shown = NothingShown
    /\ note = "" /\ weak = FALSE /\ strayed = ""
    /\ actions \in 0 .. MaxActions

-----------------------------------------------------------------------------
(* The searches.                                                           *)

\* hybrid_gate_fallback_note.
GateNote(s) == IF s.mode = "hybrid" /\ ~HybridIsAllowed(s) THEN "gate" ELSE ""

Shows(scope, projection, found, meant) ==
    shown' = [shown EXCEPT ![scope] = [of |-> projection, found |-> found, meant |-> meant]]

FoundBy(s) == {p \in Found(s.query) : s.filtered => p = Filtered}

\* _run_keyword_search, without what is around it.
ShowsKeywordResults(s) ==
    /\ \E order \in Lexical(s.query, FoundBy(s)) :
          Shows("page", Projection(s), ToSet(order), {})
    /\ note' = GateNote(s)
    /\ weak' = FALSE

\* _search_with_state, for a search that costs nothing.
SearchFree(s) ==
    /\ \/ /\ s.scope = "knowledge"
          /\ Shows("knowledge", Projection(s), {}, {})
          /\ UNCHANGED <<note, weak>>
       \/ /\ s.scope = "page"
          /\ ShowsKeywordResults(s)
    /\ executed' = Projection(s)
    /\ strayed' = ""
    /\ UNCHANGED search

\* A search that raises shows nothing; what was executed before stays noted.
SearchRaises(s) ==
    /\ Shows(s.scope, None, {}, {})
    /\ strayed' = "failed"
    /\ UNCHANGED <<search, executed, note, weak>>

IsPaid(s) == s.scope = "page" /\ HybridIsAllowed(s)

\* The script searches and then goes on in phase next.
SearchWith(s, next) ==
    \/ /\ ~IsPaid(s)
       /\ SearchFree(s)
       /\ phase' = next
       /\ UNCHANGED library
    \/ /\ IsPaid(s)
       /\ BeginSearch(s.query)
       /\ phase' = "search"
       /\ UNCHANGED <<executed, shown, note, weak, strayed>>
    \/ /\ SearchRaises(s)
       /\ phase' = next
       /\ UNCHANGED library

\* hybrid_vector_active.
VectorsRan == search.status \in {"ok", "empty"}

ResultPages == {search.results[i].page : i \in DOMAIN search.results}

\* Mutant: What was recalled is asked for, not what is shown of it.
NothingRecalled == VectorsRan /\ ResultPages # {} /\ search.vector = <<>>

\* weak_evidence_note: the vector path ran, and all results are literal ones.
WeakEvidence ==
    /\ VectorsRan
    /\ ResultPages # {}
    /\ ResultPages \subseteq ToSet(LexicalOrder) \ ToSet(search.vector)

\* _run_hybrid_search returns.
ShowOutcome ==
    /\ phase = "search"
    /\ Outcome
    /\ Shows("page", Projection(active), ResultPages,
             ResultPages \cap ToSet(search.vector))
    /\ note' = IF VectorsRan THEN "" ELSE "degraded"
    /\ weak' = WeakEvidence
    /\ executed' = Projection(active)
    /\ strayed' = ""
    /\ phase' = "load"
    /\ search' = None
    /\ UNCHANGED <<library, place, actions>>

\* Streamlit ends a script, at its next use of the session, when the user
\* clicks on what the page still shows: the results are not taken over.
Interrupt ==
    /\ phase = "search"
    /\ search' = None
    /\ strayed' = "interrupted"
    /\ phase' = "load"
    /\ UNCHANGED <<library, place, executed, shown, note, weak, actions>>

-----------------------------------------------------------------------------
(* The script from its beginning.                                          *)

\* Mutant: Only the words are compared.
ExecutedWords(s) == executed # None /\ executed.query = s.query

Executed(s) == Projection(s) = executed

\* auto_execute_allowed; the search of the personal knowledge is free, too.
AutoExecuteAllowed(s) == ~IsPaid(s)

\* A URL other than the one the session wrote wins.  What it asks for is
\* searched when that is free and has not just been done.
Restore ==
    LET s == Sanitized(Parsed(url))
    IN  /\ phase = "load"
        /\ url # None
        /\ signature # s
        /\ active' = s /\ signature' = s /\ url' = s
        /\ \/ /\ Executed(s)
              /\ phase' = "idle"
              /\ UNCHANGED <<library, search, executed, shown, note, weak, strayed>>
           \/ /\ ~Executed(s)
              /\ AutoExecuteAllowed(s)
              /\ SearchWith(s, "idle")
           \/ /\ ~Executed(s)
              /\ ~AutoExecuteAllowed(s)
              /\ note' = "restored"
              /\ strayed' = "restored"
              /\ phase' = "idle"
              /\ UNCHANGED <<library, search, executed, shown, weak>>
        /\ UNCHANGED <<previous, actions>>

Start ==
    /\ phase = "load"
    /\ url = None /\ active = None
    /\ active' = Default /\ signature' = Default
    /\ phase' = "idle"
    /\ UNCHANGED <<library, search, url, previous, executed, shown, note, weak, strayed, actions>>

GoOn ==
    /\ phase = "load"
    /\ IF url = None THEN active # None ELSE signature = Sanitized(Parsed(url))
    /\ phase' = "idle"
    /\ UNCHANGED <<library, search, place, executed, shown, note, weak, strayed, actions>>

Load == Restore \/ Start \/ GoOn

-----------------------------------------------------------------------------
(* What the user does on the page.  The widgets hold what was not applied. *)

Acts == phase = "idle" /\ actions < MaxActions /\ actions' = actions + 1

\* _activate_state.
Activate(s, remember) ==
    /\ active' = s /\ signature' = s /\ url' = s
    /\ previous' = IF remember /\ active # s THEN active ELSE previous

Ask(s, remember) ==
    /\ Acts
    /\ Activate(s, remember)
    /\ SearchWith(s, "load")

On(scope) == phase = "idle" /\ active.scope = scope

\* The search button, with what the widgets hold; the part of the results
\* that is shown is kept when the query, the filters and the mode are.
Apply(q, mode, filtered, sort) ==
    LET keep == q = active.query /\ filtered = active.filtered /\ mode = active.mode
    IN  /\ On("page")
        /\ filtered => There(Filtered)
        /\ Ask([active EXCEPT !.query = q, !.mode = mode, !.filtered = filtered,
                              !.sort = sort, !.view = IF keep THEN @ ELSE 1],
               TRUE)

\* remove_search_filter and clear_search_filters.
ClearFilters(q) ==
    /\ On("page")
    /\ \/ active.filtered
       \/ active.query # Empty /\ shown.page.found = {}
    /\ q \in {active.query, Empty}
    /\ Ask([active EXCEPT !.query = q, !.filtered = FALSE, !.view = 1], TRUE)

Shortcut(filtered, sort) ==
    /\ On("page")
    /\ filtered => (active.filtered \/ There(Filtered))
    /\ filtered \/ sort = "other"
    /\ Ask([active EXCEPT !.filtered = (@ \/ filtered), !.view = 1,
                          !.sort = IF sort = "other" THEN sort ELSE @],
           TRUE)

\* Offered when nothing was found.
Undo ==
    /\ On("page")
    /\ active.query # Empty
    /\ shown.page.found = {}
    /\ previous # None
    /\ Ask(previous, FALSE)

\* Opening or closing the panel of the filters searches, too.
TogglePanel ==
    /\ On("page")
    /\ Ask([active EXCEPT !.open = ~@], FALSE)

SearchKnowledge(q) ==
    /\ On("knowledge")
    /\ Ask([Default EXCEPT !.query = q, !.scope = "knowledge"], TRUE)

\* The group of results, the view mode, a preview: nothing is searched.
Turn(view) ==
    /\ Acts
    /\ On("page")
    /\ view # active.view
    /\ Activate([active EXCEPT !.view = view], FALSE)
    /\ phase' = "load"
    /\ UNCHANGED <<library, search, executed, shown, note, weak, strayed>>

\* The other scope shows what it last found.
SwitchScope(scope) ==
    /\ Acts
    /\ scope # active.scope
    /\ Activate([active EXCEPT !.scope = scope, !.view = 1], FALSE)
    /\ strayed' = "switched"
    /\ phase' = "load"
    /\ UNCHANGED <<library, search, executed, shown, note, weak>>

\* _refresh_display_only, after a batch or a change of the evidence basket:
\* results that would have to be paid for stay as they are.
Refresh ==
    /\ Acts
    /\ On("page")
    /\ shown.page.found # {}
    /\ IF HybridIsAllowed(active)
       THEN UNCHANGED <<shown, note, weak>>
       ELSE ShowsKeywordResults(active)
    /\ phase' = "load"
    /\ UNCHANGED <<library, search, place, executed, strayed>>

\* A bookmark, or the browser's back and forward: history reloads the page.
Open(link) ==
    /\ Acts
    /\ phase' = "load"
    /\ url' = link /\ active' = None /\ signature' = None /\ previous' = None
    /\ executed' = None /\ shown' = NothingShown
    /\ note' = "" /\ weak' = FALSE /\ strayed' = ""
    /\ UNCHANGED <<library, search>>

\* pending_search_query_params: from the reader or the home page.
Return(link) ==
    /\ Acts
    /\ url' = Parsed(link)
    /\ phase' = "load"
    /\ UNCHANGED <<library, search, active, signature, previous, executed, shown, note, weak, strayed>>

\* By the menu, the page comes back without its URL.
ComeBack ==
    /\ Acts
    /\ url' = None
    /\ phase' = "load"
    /\ UNCHANGED <<library, search, active, signature, previous, executed, shown, note, weak, strayed>>

\* Links that differ from the default in the query and one thing more.
Links ==
    {s \in States : \E t \in {[Default EXCEPT !.scope = "knowledge"],
                              [Default EXCEPT !.mode = "hybrid"],
                              [Default EXCEPT !.filtered = TRUE],
                              [Default EXCEPT !.sort = "other"]} :
                        s = [t EXCEPT !.query = s.query]}

User ==
    \/ \E q \in Queries, mode \in {"keyword", "hybrid"}, filtered \in BOOLEAN,
          sort \in {"relevance", "other"} : Apply(q, mode, filtered, sort)
    \/ \E q \in Queries : ClearFilters(q) \/ SearchKnowledge(q)
    \/ \E filtered \in BOOLEAN, sort \in {"relevance", "other"} : Shortcut(filtered, sort)
    \/ Undo \/ TogglePanel \/ Refresh \/ ComeBack
    \/ \E view \in {1, 2} : Turn(view)
    \/ \E scope \in {"page", "knowledge"} : SwitchScope(scope)
    \/ \E link \in Links : Open(link) \/ Return(link)

Next ==
    \/ User
    \/ Load
    \/ Recall /\ UNCHANGED session
    \/ ShowOutcome \/ Interrupt
    \/ Library /\ UNCHANGED session

Spec == Init /\ [][Next]_vars

-----------------------------------------------------------------------------
SessionTypeOK ==
    /\ phase \in {"idle", "load", "search"}
    /\ {url, active, signature, previous} \subseteq States \cup {None}
    /\ executed \in Projections \cup {None}
    /\ note \in {"", "gate", "degraded", "restored"}
    /\ weak \in BOOLEAN
    /\ actions \in 0 .. MaxActions

TypeOK ==
    /\ RetrievalTypeOK
    /\ SessionTypeOK
    /\ phase = "search" <=> search # None

\* Results are shown under the conditions they were searched with, unless the
\* scope was switched, the search failed or was interrupted, or the page asks
\* for a click (the projection that search_executed_projection keeps).
ShownIsAsked ==
    phase = "idle" /\ strayed = "" =>
        LET of == shown[active.scope].of
        IN  \/ of = Projection(active)
            \/ of = None /\ Projection(active) = Projection(Default)

\* Results that no vector found, although the hybrid search was asked for, are
\* told as such, and only those: the filters or the order forced the search by
\* keywords, the vector path could not be used, or what it found is not, or no
\* longer, among the results (pages/4_检索资料.py: "so this fallback never passes
\* silently").
FallbackIsTold ==
    phase = "idle" /\ strayed = "" /\ active.scope = "page" /\ shown.page.found # {} =>
        (active.mode = "hybrid" /\ shown.page.meant = {} <=> note # "" \/ weak)
=============================================================================
