--------------------------- MODULE PageRetrieval ---------------------------
(***************************************************************************)
(* Page embeddings and hybrid search: src/ai/page_indexer.py and the       *)
(* script that runs it (scripts/ai_real_page_index.py), the rows of        *)
(* page_embeddings, src/ai/vector_recall.py, src/ai/retrieval.py and       *)
(* src/ai/hybrid_search.py.                                                *)
(*                                                                         *)
(* A vector is what the provider makes of a text; it is named here by that *)
(* text, and so is a fingerprint (SHA-256).  Only the beginning of a text  *)
(* is sent and fingerprinted: two texts can have the same.  There is one   *)
(* configuration of model, dimensions and version: rows of two do not      *)
(* meet.  Every statement reads the database anew, and the pages change in *)
(* between.                                                                *)
(***************************************************************************)
EXTENDS Integers, Sequences, FiniteSets, FiniteSetsExt, SequencesExt

CONSTANTS
    Pages,        \* ids of pages, each the only one of its document
    Texts,        \* what a page can hold (searchable_content)
    Prepared,     \* text -> its beginning, the part that is sent; or None
    Marked,       \* beginnings with a word that must not be sent
    Queries,
    Matches,      \* query -> the texts it finds literally
    Similarity,   \* query -> beginning -> similarity of the vectors
    Scripts,      \* processes of the index script
    None,         \* no row, no text
    BatchSizes,
    MaxRealPages, \* pages of one paid run
    Limit,        \* results of each path
    RrfK,         \* DEFAULT_RRF_K
    MaxRuns,      \* bound: paid runs
    MaxChanges    \* bound: changes of pages by others

ASSUME PageAssumption == Pages \subseteq Nat /\ IsFiniteSet(Pages)
ASSUME NumberAssumption ==
    /\ BatchSizes \subseteq Nat \ {0}
    /\ {MaxRealPages, Limit, RrfK} \subseteq Nat \ {0}
    /\ {MaxRuns, MaxChanges} \subseteq Nat

VARIABLES
    pages,      \* page -> its text; None once its document is deleted
    stored,     \* page -> row of page_embeddings, or None
    script,     \* script -> its paid run, or None
    search,     \* the hybrid search under way, or None
    runs,       \* paid runs so far
    changes     \* changes of pages so far

index == <<stored, script, runs>>
library == <<pages, stored, script, runs, changes>>

Beginnings == {Prepared[t] : t \in Texts} \ {None}

\* The row of the vector of the beginning f.
VectorOf(f) == [sha |-> f, vector |-> f]

\* Rows of page_embeddings.
Rows == [sha: Beginnings, vector: Beginnings]

ASSUME RowAssumption == None \notin Rows

\* Any library, with what earlier runs stored.
RetrievalInit ==
    /\ pages \in [Pages -> Texts]
    /\ stored \in [Pages -> {None} \cup {VectorOf(f) : f \in Beginnings}]
    /\ script = [r \in Scripts |-> None]
    /\ search = None
    /\ runs \in 0 .. MaxRuns
    /\ changes \in 0 .. MaxChanges

There(p) == pages[p] # None

\* prepare_page_text of what the page holds now.
Beginning(p) == IF There(p) THEN Prepared[pages[p]] ELSE None

\* get_fresh_page_embedding, for the fingerprint f.
FreshFor(p, f) == stored[p] # None /\ stored[p].sha = f

Fresh(p) == Beginning(p) # None /\ FreshFor(p, Beginning(p))

\* PageEmbeddingCoverageService.coverage_summary and plan_indexing.
Coverage ==
    LET indexable == {p \in Pages : Beginning(p) # None}
    IN  [indexed |-> {p \in indexable : Fresh(p)},
         stale |-> {p \in indexable : ~Fresh(p) /\ stored[p] # None},
         missing |-> {p \in indexable : stored[p] = None}]

-----------------------------------------------------------------------------
(* The paid run of the index script.                                       *)

\* Mutant: What must not be sent is not looked for.
CandidatesUnmarked == Coverage.stale \cup Coverage.missing

Candidates ==
    {p \in Coverage.stale \cup Coverage.missing : Beginning(p) \notin Marked}

Stage(r, at) == script[r] # None /\ script[r].at = at

Step(r, changed) == script' = [script EXCEPT ![r] = changed]

\* select_candidates.  Whatever is on the machine is looked through first.
Select(r, chosen, size) ==
    /\ script[r] = None
    /\ runs < MaxRuns
    /\ chosen # {}
    /\ chosen \subseteq Candidates
    /\ \/ Cardinality(chosen) = MaxRealPages
       \/ Cardinality(chosen) < MaxRealPages /\ chosen = Candidates
    /\ runs' = runs + 1
    /\ Step(r, [at |-> "selected", chosen |-> chosen, size |-> size,
                work |-> <<>>, pending |-> {}, answered |-> {},
                done |-> {}, failed |-> {}, skipped |-> {}, moved |-> {},
                overwritten |-> {}])
    /\ UNCHANGED <<pages, stored, search, changes>>

\* _iter_pages: the pages are read again, and a page that is gone ends the run.
Read(r) ==
    /\ Stage(r, "selected")
    /\ IF \A p \in script[r].chosen : There(p)
       THEN Step(r, [script[r] EXCEPT
                        !.at = "read",
                        !.work = [p \in script[r].chosen |-> Beginning(p)]])
       ELSE Step(r, None)
    /\ UNCHANGED <<pages, stored, search, runs, changes>>

\* _classify_pages.  Whether a row is fresh is asked for one page after the
\* other; here for all of them at one moment.
Classify(r) ==
    LET w == script[r].work
        empty == {p \in DOMAIN w : w[p] = None}
        reused == {p \in DOMAIN w \ empty : FreshFor(p, w[p])}
    IN  /\ Stage(r, "read")
        /\ Step(r, [script[r] EXCEPT
                       !.at = "embed", !.skipped = empty, !.done = reused,
                       !.pending = DOMAIN w \ (empty \cup reused)])
        /\ UNCHANGED <<pages, stored, search, runs, changes>>

\* The pages of a run are embedded and stored in the order of their ids.
Before(p, set) == {q \in set : q < p}

Batch(r) ==
    {p \in script[r].pending :
        Cardinality(Before(p, script[r].pending)) < script[r].size}

\* Mutant: One page too many is left behind.
AfterBatchAndOne(r) ==
    {p \in script[r].pending :
        Cardinality(Before(p, script[r].pending)) > script[r].size}

AfterBatch(r) == script[r].pending \ Batch(r)

\* One call of the provider.  It answers with as many vectors as texts, or
\* the batch has failed.
Answered(r) ==
    /\ Stage(r, "embed")
    /\ script[r].pending # {}
    /\ Step(r, [script[r] EXCEPT !.at = "persist", !.answered = Batch(r),
                                 !.pending = AfterBatch(r)])
    /\ UNCHANGED <<pages, stored, search, runs, changes>>

\* An AIError, or a number of vectors that is not that of the texts.
BatchFails(r) ==
    /\ Stage(r, "embed")
    /\ script[r].pending # {}
    /\ Step(r, [script[r] EXCEPT !.failed = @ \cup Batch(r),
                                 !.pending = AfterBatch(r)])
    /\ UNCHANGED <<pages, stored, search, runs, changes>>

\* AIUnavailableError: no further call is made.
Unavailable(r) ==
    /\ Stage(r, "embed")
    /\ script[r].pending # {}
    /\ Step(r, [script[r] EXCEPT !.failed = @ \cup script[r].pending,
                                 !.pending = {}])
    /\ UNCHANGED <<pages, stored, search, runs, changes>>

\* Mutant: The fingerprint is taken when the vector is stored.
RowOfPage(r, p) == [sha |-> Beginning(p), vector |-> script[r].work[p]]

\* The fingerprint stored with the vector is that of the text that was sent.
Row(r, p) == VectorOf(script[r].work[p])

\* The runs that chose page p before.
ChosenBy(p) == {r \in Scripts : script[r] # None /\ p \in script[r].chosen}

\* The next vector to be stored is that of page p.
Persisting(r, p) ==
    /\ Stage(r, "persist")
    /\ p \in script[r].answered
    /\ Before(p, script[r].answered) = {}

\* _persist.
Persisted(r, p) ==
    LET rest == script[r].answered \ {p}
    IN  [script[r] EXCEPT !.answered = rest,
                          !.at = IF rest = {} THEN "embed" ELSE "persist"]

\* Mutant: The old row goes first.
RefuseAfterDelete(r, p) ==
    /\ Persisting(r, p)
    /\ stored' = [stored EXCEPT ![p] = None]
    /\ Step(r, [Persisted(r, p) EXCEPT !.failed = @ \cup {p}])
    /\ UNCHANGED <<pages, search, runs, changes>>

\* A vector of another length, or one that is not finite, is not stored.
Refuse(r, p) ==
    /\ Persisting(r, p)
    /\ Step(r, [Persisted(r, p) EXCEPT !.failed = @ \cup {p}])
    /\ UNCHANGED <<pages, stored, search, runs, changes>>

\* The upsert is a transaction of its own.
Store(r, p) ==
    /\ Persisting(r, p)
    /\ There(p)
    /\ stored' = [stored EXCEPT ![p] = Row(r, p)]
    /\ script' = [q \in Scripts |->
            IF q = r THEN [Persisted(r, p) EXCEPT !.done = @ \cup {p}]
            ELSE IF q \in ChosenBy(p) THEN [script[q] EXCEPT !.overwritten = @ \cup {p}]
            ELSE script[q]]
    /\ UNCHANGED <<pages, search, runs, changes>>

\* The page is gone: the foreign key refuses the row, and nothing catches the
\* RecordNotFoundError.  The vectors that were to follow are lost.
StoreFails(r, p) ==
    /\ Persisting(r, p)
    /\ ~There(p)
    /\ Step(r, None)
    /\ UNCHANGED <<pages, stored, search, runs, changes>>

\* The report; what the script prints after it is read anew.
Reported(r) == Stage(r, "embed") /\ script[r].pending = {}

End(r) ==
    /\ Reported(r)
    /\ Step(r, None)
    /\ UNCHANGED <<pages, stored, search, runs, changes>>

Index(r) ==
    \/ \E chosen \in SUBSET Pages, size \in BatchSizes : Select(r, chosen, size)
    \/ Read(r) \/ Classify(r)
    \/ Answered(r) \/ BatchFails(r) \/ Unavailable(r)
    \/ \E p \in Pages : Store(r, p) \/ Refuse(r, p) \/ StoreFails(r, p)
    \/ End(r)

-----------------------------------------------------------------------------
(* Hybrid search.                                                          *)

First(s, n) == SubSeq(s, 1, Min({n, Len(s)}))

Orders(set) == {s \in [1 .. Cardinality(set) -> set] : ToSet(s) = set}

\* The one in which each comes after those that are less.
Sorted(set, Less(_, _)) ==
    {s \in Orders(set) : \A i, j \in DOMAIN s : i < j => Less(s[i], s[j])}

\* Database.search: one statement.  Which page is more relevant is left open,
\* and whether a page is found by its title, tags or projects.
Lexical(q, found) ==
    {First(s, Limit) : s \in Orders({p \in found : There(p)})}

Found(q) == {p \in Pages : There(p) /\ pages[p] \in Matches[q]}

\* A result shows the page as it was read.
Results(order) == [i \in DOMAIN order |-> [page |-> order[i], text |-> pages[order[i]]]]

Searching(at) == search # None /\ search.at = at

\* The paid call is made next, when a provider is configured.
BeginSearch(q) ==
    /\ search = None
    /\ \E order \in Lexical(q, Found(q)) :
          search' = [at |-> "query", query |-> q,
                     lexical |-> Results(order), rows |-> <<>>, left |-> <<>>,
                     hits |-> {}, vector |-> <<>>, status |-> "ok",
                     order |-> <<>>, results |-> <<>>, moved |-> {}]
    /\ UNCHANGED library

\* No vector path, no provider to reach, an error or a vector that is no use:
\* what was found literally stays.
WithoutVectors(status) ==
    /\ Searching("query")
    /\ status \in {"disabled", "unavailable", "failed"}
    /\ search' = [search EXCEPT !.at = "fuse", !.status = status]
    /\ UNCHANGED library

\* list_page_embeddings, after the query has its vector.
List ==
    /\ Searching("query")
    /\ \E order \in Sorted({p \in Pages : stored[p] # None}, <) :
          search' = [search EXCEPT !.at = "check", !.rows = stored, !.left = order]
    /\ UNCHANGED library

\* current_source_sha256: a vector whose text the page no longer has is left out.
Check ==
    LET p == Head(search.left)
        current == search.rows[p].sha = Beginning(p)
    IN  /\ Searching("check")
        /\ search.left # <<>>
        /\ search' = [search EXCEPT !.left = Tail(@),
                                    !.hits = IF current THEN @ \cup {p} ELSE @]
        /\ UNCHANGED library

\* By similarity, and pages as similar by their ids.
Nearer(p, q) ==
    LET near(x) == Similarity[search.query][search.rows[x].vector]
    IN  \/ near(p) > near(q)
        \/ near(p) = near(q) /\ p < q

Recalled ==
    /\ Searching("check")
    /\ search.left = <<>>
    /\ \E order \in Sorted(search.hits, Nearer) :
          search' = [search EXCEPT !.at = "fuse", !.vector = First(order, Limit),
                                   !.status = IF order = <<>> THEN "empty" ELSE "ok"]
    /\ UNCHANGED library

LexicalOrder == [i \in DOMAIN search.lexical |-> search.lexical[i].page]

\* Reciprocal rank fusion: the sum of 1 / (k + rank) over the lists that have
\* the page, as a fraction.
Rank(list, p) == CHOOSE i \in DOMAIN list : list[i] = p

Score(l, v, p) ==
    LET a == RrfK + Rank(l, p)
        b == RrfK + Rank(v, p)
    IN  CASE p \in ToSet(l) /\ p \in ToSet(v) -> <<a + b, a * b>>
          [] p \in ToSet(l) /\ p \notin ToSet(v) -> <<1, a>>
          [] OTHER -> <<1, b>>

BestRank(l, v, p) ==
    Min({Rank(list, p) : list \in {x \in {l, v} : p \in ToSet(x)}})

RanksBefore(l, v, p, q) ==
    LET s == Score(l, v, p)
        t == Score(l, v, q)
        better == s[1] * t[2] - t[1] * s[2]
        nearer == BestRank(l, v, p) - BestRank(l, v, q)
    IN  \/ better > 0
        \/ better = 0 /\ nearer < 0
        \/ better = 0 /\ nearer = 0 /\ p < q

Fused(l, v) ==
    Sorted(ToSet(l) \cup ToSet(v), LAMBDA p, q : RanksBefore(l, v, p, q))

Fuse ==
    /\ Searching("fuse")
    /\ \E order \in Fused(LexicalOrder, search.vector) :
          search' = [search EXCEPT !.at = "hydrate", !.order = order]
    /\ UNCHANGED library

\* _hydrate: a page found literally is shown as it was found; the others are
\* read now, and left out when they are gone.
Hydrated(p) ==
    IF p \in ToSet(LexicalOrder)
    THEN <<search.lexical[Rank(LexicalOrder, p)]>>
    ELSE IF There(p) THEN Results(<<p>>) ELSE <<>>

Hydrate ==
    /\ Searching("hydrate")
    /\ search.order # <<>>
    /\ search' = [search EXCEPT !.order = Tail(@),
                                !.results = @ \o Hydrated(Head(search.order))]
    /\ UNCHANGED library

Outcome == Searching("hydrate") /\ search.order = <<>>

Recall ==
    \/ \E status \in {"disabled", "unavailable", "failed"} : WithoutVectors(status)
    \/ List \/ Check \/ Recalled \/ Fuse \/ Hydrate

-----------------------------------------------------------------------------
\* Others edit a page or delete its document (with its embedding).
Seen(p) ==
    /\ changes' = changes + 1
    /\ script' = [r \in Scripts |-> IF r \in ChosenBy(p)
                                   THEN [script[r] EXCEPT !.moved = @ \cup {p}]
                                   ELSE script[r]]
    /\ search' = IF search = None THEN None
                 ELSE [search EXCEPT !.moved = @ \cup {p}]

ChangePage(p, t) ==
    /\ changes < MaxChanges
    /\ There(p) /\ pages[p] # t
    /\ pages' = [pages EXCEPT ![p] = t]
    /\ Seen(p)
    /\ UNCHANGED <<stored, runs>>

DeleteDocument(p) ==
    /\ changes < MaxChanges
    /\ There(p)
    /\ pages' = [pages EXCEPT ![p] = None]
    /\ stored' = [stored EXCEPT ![p] = None]
    /\ Seen(p)
    /\ UNCHANGED runs

Library ==
    \/ \E r \in Scripts : Index(r)
    \/ \E p \in Pages, t \in Texts : ChangePage(p, t)
    \/ \E p \in Pages : DeleteDocument(p)

-----------------------------------------------------------------------------
RetrievalTypeOK ==
    /\ pages \in [Pages -> Texts \cup {None}]
    /\ stored \in [Pages -> Rows \cup {None}]
    /\ runs \in 0 .. MaxRuns
    /\ changes \in 0 .. MaxChanges

\* The report of a run forgets no page that nobody changed since the run chose
\* it, and what it counts as indexed or reused has its fresh vector, unless
\* another run stored one (PageIndexReport).
ReportIsTrue ==
    \A r \in Scripts : Reported(r) =>
        \A p \in script[r].chosen \ script[r].moved :
            /\ p \in script[r].done \cup script[r].failed \cup script[r].skipped
            /\ p \in script[r].done \ script[r].overwritten => Fresh(p)

\* A text with a marked word is sent only when the page got it after the
\* script looked for such words (ai_real_page_index.py, select_candidates:
\* the indexer reads the page again).
MarkedIsNotSent ==
    \A r \in Scripts : script[r] # None =>
        \A p \in script[r].pending :
            script[r].work[p] \in Marked => p \in script[r].moved

\* A page loses its fresh vector only by its own change, or to a run that chose
\* it before it was changed.
FreshnessIsKept ==
    [][\A p \in Pages :
          Fresh(p) /\ ~Fresh(p)' =>
              \/ pages'[p] # pages[p]
              \/ \E r \in Scripts : script[r] # None /\ p \in script[r].moved]_<<library, search>>

\* A page that one path found higher than another page, and no path lower,
\* comes before it (rrf_fuse).
NotBelow(list, p, q) ==
    q \in ToSet(list) => p \in ToSet(list) /\ Rank(list, p) < Rank(list, q)

KeepsOrder(list) ==
    \A i, j \in DOMAIN list :
        LET p == list[i].page
            q == list[j].page
        IN  (p # q /\ NotBelow(LexicalOrder, p, q) /\ NotBelow(search.vector, p, q)) => i < j

\* A page found by its vector alone and not changed during the search shows
\* the text its vector is of (vector_recall.py compares the fingerprints).
MeaningIsOfTheText(list) ==
    \A i \in DOMAIN list :
        LET p == list[i].page
        IN  p \in ToSet(search.vector) \ (ToSet(LexicalOrder) \cup search.moved)
                => Prepared[list[i].text] = search.rows[p].vector

\* Results are what was found: nothing that was found literally is lost or
\* altered by the vector path, with nothing from it they are those of the
\* keyword search (hybrid_search.py: "the vector path can never break lexical"),
\* a page found by its meaning shows a text of that meaning, however old its
\* vector, and no page comes before one that both paths put above it.
ResultsAreFound ==
    Outcome =>
        /\ ToSet(search.lexical) \subseteq ToSet(search.results)
        /\ search.vector = <<>> => search.results = search.lexical
        /\ MeaningIsOfTheText(search.results)
        /\ KeepsOrder(search.results)
=============================================================================
