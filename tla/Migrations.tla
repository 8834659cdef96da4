---------------------------- MODULE Migrations ----------------------------
(***************************************************************************)
(* The database schema and its migrations: src/migrations.py, as           *)
(* Database.initialize runs it at every start of the program.              *)
(*                                                                         *)
(* A process reads the version of the file, copies the file when it is     *)
(* older than the program, connects, reads the version again, and then     *)
(* applies one version after the other, each in a transaction of its own   *)
(* that is either committed with its row of schema_migrations or not at    *)
(* all.  Nothing keeps a second process from doing the same at the same    *)
(* time: it goes on from the version it read, and what stops it is that a  *)
(* table, a column or the row of the version is there already.             *)
(*                                                                         *)
(* A row is modelled by what some migration looks at or rewrites; indexes, *)
(* CHECK clauses and timestamps are left out.                              *)
(***************************************************************************)
EXTENDS Naturals, Sequences, FiniteSets

CONSTANTS
    Processes,    \* programs that may open the database: the app, its
                  \* second window, the batch tool
    PageIds, Items, Objects, Entries,   \* ids of rows of the four tables
    None,         \* SQL NULL, and a row that is not there
    MaxErrors     \* bound: errors and crashes of processes

ASSUME RowAssumption == None \notin Objects /\ IsFiniteSet(Entries)
ASSUME BoundAssumption == MaxErrors \in Nat

SCHEMA_VERSION == 14

VARIABLES
    db,          \* the database file
    backups,     \* the libraries in the copies made of it (a copy is as
                 \* good in one schema as in another)
    process,     \* process -> how far its start has come
    first,       \* history variable: the database as first opened
    worked,      \* history variable: whether the user has done a piece
                 \* of work in the newest schema
    disturbed,   \* history variable: the processes whose start met an error
                 \* or another process that changed the database
    errors       \* bound: the errors and crashes so far

migrationVars == <<db, backups, process, first, worked, disturbed, errors>>

-----------------------------------------------------------------------------
(* The database.                                                           *)

\* Versions whose row is in schema_migrations, tables and columns that a
\* migration creates without IF NOT EXISTS, and the rows.  history holds the
\* revisions of an object by number, orphans counts the revisions of no
\* object, indexed are the rows the full-text tables find.
Empty ==
    [versions |-> {}, schema |-> {},
     pages |-> [p \in PageIds |-> None], items |-> [i \in Items |-> None],
     objects |-> [o \in Objects |-> None], entries |-> [e \in Entries |-> None],
     history |-> [o \in Objects |-> << >>], orphans |-> 0, indexed |-> {}]

\* _connection_schema_version: MAX(version), or 0.
Version(d) ==
    IF d.versions = {} THEN 0
    ELSE CHOOSE v \in d.versions : \A w \in d.versions : w <= v

\* The rows of a table rewritten one by one, the missing ones left missing.
Rewrite(table, new(_)) ==
    [id \in DOMAIN table |-> IF table[id] = None THEN None ELSE new(table[id])]

-----------------------------------------------------------------------------
(* The versions: the tables and columns each adds, and what it makes of    *)
(* the rows.                                                               *)

V1Tables == {"documents", "pages"}

\* Version 2 takes any note for a review.
PageV2(row) ==
    [note |-> row.note, review |-> row.review,
     status |-> IF row.note THEN "manually_reviewed"
                ELSE IF row.status = "ready" THEN "text_extracted"
                ELSE "pending_review"]

V2Tables == {"import_records", "tags", "document_tags", "page_tags",
             "projects", "project_documents", "project_pages"}

V2(d) == [d EXCEPT !.pages = Rewrite(@, PageV2)]

\* Version 3 takes no note for a review: version 2 did, so that its
\* manually_reviewed pages with a note become drafts again.
PageV3(row) ==
    [note |-> row.note, status |-> row.status,
     review |-> IF row.status = "failed" /\ ~row.note THEN "failed"
                ELSE IF row.note THEN "draft"
                ELSE IF row.status = "manually_reviewed" THEN "reviewed"
                ELSE "pending"]

V3(d) == [d EXCEPT !.pages = Rewrite(@, PageV3)]

V4Tables == {"evidence_baskets", "evidence_items"}

V5Tables == {"notes"}

V6Tables == {"notes.importance", "note_display_preferences"}

ItemV7(row) == [type |-> "text_selection", confirmed |-> FALSE]

V7(d) == [d EXCEPT !.items = Rewrite(@, ItemV7)]

V8Tables == {"page_embeddings"}

V9Tables == {"knowledge_objects", "knowledge_object_sources",
                  "knowledge_relations", "knowledge_memory_entries"}

\* Rows of the change log that version 9 kept among the memory entries.
Changes(d, o) ==
    {e \in Entries : /\ d.entries[e] # None
                     /\ d.entries[e].kind = "knowledge_change"
                     /\ d.entries[e].object = o}

\* Mutant: The confirmation bound to the first revision.
ObjectV10ConfirmsFirst(row, changes) ==
    [lifecycle |-> IF row.status = "archived" THEN "archived" ELSE "active",
     confirmed |-> IF row.status = "reviewed" THEN 1 ELSE None,
     revision |-> changes + 1]

ObjectV10(row, changes) ==
    [lifecycle |-> IF row.status = "archived" THEN "archived" ELSE "active",
     confirmed |-> IF row.status = "reviewed" THEN changes + 1 ELSE None,
     revision |-> changes + 1]

HistoryV10(changes) ==
    [n \in 1 .. changes + 1 |->
        IF n <= changes THEN "legacy_event" ELSE "legacy_baseline"]

EntryV10(row) ==
    IF row.kind = "knowledge_change" THEN None
    ELSE [kind |-> row.kind, form |-> row.form, object |-> row.object,
          origin |-> None, status |-> "active"]

V10Tables == {"knowledge_base_meta", "knowledge_object_revisions",
              "source_fingerprint"}

V10(d) ==
    LET changes(o) == Cardinality(Changes(d, o)) IN
    [d EXCEPT
        !.objects = [o \in Objects |->
            IF d.objects[o] = None THEN None
            ELSE ObjectV10(d.objects[o], changes(o))],
        !.history = [o \in Objects |->
            IF d.objects[o] = None THEN << >> ELSE HistoryV10(changes(o))],
        !.orphans = changes(None),
        !.entries = Rewrite(@, EntryV10)]

V11Tables == {"search_title", "knowledge_object_search",
              "knowledge_memory_search"}

\* The tokenized shadow columns of every row, and the full-text tables.
V11(d) ==
    [d EXCEPT
        !.indexed = {o \in Objects : d.objects[o] # None}
                        \cup {e \in Entries : d.entries[e] # None}]

V12Tables == {"ai_calls", "ai_outputs", "knowledge_project_links",
                   "content_revision"}

\* _V13_RAW_QA_KIND_CASE: only an experience with the text the save button
\* writes is taken for a saved answer.
IsRawQa(row) == row.kind = "experience" /\ row.form = "question and answer"

EntryV13(row) ==
    [row EXCEPT !.kind = IF IsRawQa(row) THEN "raw_qa" ELSE row.kind,
                !.origin = IF IsRawQa(row) THEN "human_saved" ELSE None]

V13(d) == [d EXCEPT !.entries = Rewrite(@, EntryV13)]

V14Tables == {"knowledge_memory_links"}

\* What version v adds without IF NOT EXISTS.  (Version 1 always asks;
\* versions 3, 7 and 13 replace a table by one they have just made.)
Added(v) ==
    CASE v = 2  -> V2Tables   [] v = 4  -> V4Tables   [] v = 5  -> V5Tables
      [] v = 6  -> V6Tables   [] v = 8  -> V8Tables   [] v = 9  -> V9Tables
      [] v = 10 -> V10Tables  [] v = 11 -> V11Tables  [] v = 12 -> V12Tables
      [] v = 14 -> V14Tables  [] OTHER  -> {}

Rewritten(v, d) ==
    CASE v = 2  -> V2(d)   [] v = 3  -> V3(d)   [] v = 7  -> V7(d)
      [] v = 10 -> V10(d)  [] v = 11 -> V11(d)  [] v = 13 -> V13(d)
      [] OTHER  -> d

\* Mutant: No primary key on the version.
RefusedByTable(v, d) == Added(v) \cap d.schema # {}

\* The primary key of schema_migrations, or a table or column that is there.
Refused(v, d) == v \in d.versions \/ Added(v) \cap d.schema # {}

Reviews == {"pending", "draft", "reviewed", "skipped", "failed"}

Ids(table) == {id \in DOMAIN table : table[id] # None}

\* _core_data_fingerprint: which pages there are, and how many of each review
\* status.
Core(d) ==
    [pages |-> Ids(d.pages),
     reviews |-> [r \in Reviews |->
        Cardinality({p \in Ids(d.pages) : d.pages[p].review = r})]]

Classified(d) ==
    [e \in Ids(d.entries) |->
        [kind |-> IF IsRawQa(d.entries[e]) THEN "raw_qa" ELSE d.entries[e].kind,
         object |-> d.entries[e].object, status |-> d.entries[e].status]]

\* Mutant: Version 10 compares the entries too, from which it takes the log.
FingerprintOfEntries(v, d) ==
    CASE v \in 4 .. 9 -> Core(d)
      [] v = 10 -> <<Core(d), Ids(d.entries)>>
      [] OTHER  -> << >>

Fingerprint(v, d) ==
    CASE v \in {4, 5, 6, 8, 9, 10} -> Core(d)
      [] v = 7  -> <<Core(d), Ids(d.items)>>
      [] v = 11 -> <<d.objects, d.entries>>
      [] v = 12 -> <<d.objects, d.entries, d.history, d.pages, d.items>>
      [] v = 13 -> Classified(d)
      [] OTHER  -> << >>

\* The transaction of version v, with its row of schema_migrations.
Migrated(v, d) ==
    [Rewritten(v, d) EXCEPT !.versions = @ \cup {v}, !.schema = @ \cup Added(v)]

\* The rows as the rest of the chain leaves them: the versions that rewrite
\* rows, one after the other, from the first one the database does not have.
Rest(v, d) == IF Version(d) < v THEN Rewritten(v, d) ELSE d

Upgraded(d) == Rest(13, Rest(11, Rest(10, Rest(7, Rest(3, Rest(2, d))))))

\* The rows of a database, apart from the tables they are kept in.
Library(d) ==
    [pages |-> d.pages, items |-> d.items, objects |-> d.objects,
     entries |-> d.entries, history |-> d.history, orphans |-> d.orphans,
     indexed |-> d.indexed]

-----------------------------------------------------------------------------
(* The databases that earlier programs have left.                          *)

Optional(table, rows) == [table -> rows \cup {None}]

PageRows(statuses, reviews) ==
    [note: BOOLEAN, status: statuses, review: reviews]

StatusesV1 == {"ready", "pending"}
StatusesV2 == {"text_extracted", "ocr_completed", "pending_review",
               "manually_reviewed", "failed"}

\* The schema of version v, without rows.
Structure(v) ==
    [Empty EXCEPT !.versions = 1 .. v,
                  !.schema = (UNION {Added(w) : w \in 1 .. v})
                      \cup V1Tables \cup {"schema_migrations"}]

\* No file yet; a file of the program before it numbered its schema; and
\* files of versions 1, 2, 6 and 9 with such rows as the next versions
\* rewrite.
Fresh == {Empty}

BornV1 ==
    {[d EXCEPT !.pages = pages] :
        d \in {Structure(1), [Structure(1) EXCEPT
                                !.versions = {}, !.schema = V1Tables]},
        pages \in [PageIds -> PageRows(StatusesV1, {None})]}

BornV2 ==
    {[Structure(2) EXCEPT !.pages = pages] :
        pages \in [PageIds -> PageRows(StatusesV2, {None})]}

BornV6 ==
    {[Structure(6) EXCEPT !.pages = pages, !.items = items] :
        pages \in [PageIds -> PageRows({"text_extracted"}, Reviews)],
        items \in Optional(Items, {[type |-> None, confirmed |-> FALSE]})}

EntriesV9 ==
    [kind: {"experience"}, form: {"free text", "question and answer"},
     object: {None}]
    \cup [kind: {"knowledge_change"}, form: {"free text"},
          object: Objects \cup {None}]

BornV9 ==
    {[Structure(9) EXCEPT !.objects = objects, !.entries = entries] :
        objects \in Optional(Objects, [status: {"draft", "reviewed", "archived"}]),
        entries \in Optional(Entries, EntriesV9)}

\* Foreign keys of the entries.
Sound(d) ==
    \A e \in Ids(d.entries) : d.entries[e].object \in Ids(d.objects) \cup {None}

Born == {d \in Fresh \cup BornV1 \cup BornV2 \cup BornV6 \cup BornV9 : Sound(d)}

-----------------------------------------------------------------------------
(* The start of the program.                                               *)

Stages == {"off", "seen", "copied", "migrating", "ready", "failed"}

Off == [at |-> "off", version |-> 0]

MigrationInit ==
    /\ db \in Born
    /\ backups = {}
    /\ process = [p \in Processes |-> Off]
    /\ first = db
    /\ worked = FALSE
    /\ disturbed = {}
    /\ errors = 0

At(p, stage) == process[p].at = stage

Go(p, stage, version) ==
    process' = [process EXCEPT ![p] = [at |-> stage, version |-> version]]

Starting == {p \in Processes : process[p].at \in {"seen", "copied", "migrating"}}

\* The database changes under every other process that is starting.
Changed(p) == disturbed' = disturbed \cup (Starting \ {p})

\* _read_schema_version, on a connection of its own.
Read(p) ==
    /\ At(p, "off") \/ At(p, "failed")
    /\ Go(p, "seen", Version(db))
    /\ disturbed' = disturbed \ {p}
    /\ UNCHANGED <<db, backups, first, worked, errors>>

\* Mutant: A file without a version is taken for a new one.
NeedsBackupByVersion(version) == version \in 1 .. SCHEMA_VERSION - 1

\* The file exists, is not empty, and was older when it was looked at.
NeedsBackup(version) == db.schema # {} /\ version < SCHEMA_VERSION

Backup(p) ==
    /\ At(p, "seen")
    /\ backups' = IF NeedsBackup(process[p].version)
                    THEN backups \cup {Library(Upgraded(db))} ELSE backups
    /\ Go(p, "copied", process[p].version)
    /\ UNCHANGED <<db, first, worked, disturbed, errors>>

\* CREATE TABLE IF NOT EXISTS schema_migrations, and the version again.
Connect(p) ==
    /\ At(p, "copied")
    /\ db' = [db EXCEPT !.schema = @ \cup {"schema_migrations"}]
    /\ Go(p, "migrating", Version(db))
    /\ UNCHANGED <<backups, first, worked, disturbed, errors>>

\* The script of version 1 commits each statement by itself, before the row.
FirstTables(p) ==
    /\ At(p, "migrating")
    /\ process[p].version = 0
    /\ ~V1Tables \subseteq db.schema
    /\ db' = [db EXCEPT !.schema = @ \cup V1Tables]
    /\ UNCHANGED <<backups, process, first, worked, disturbed, errors>>

\* One version: its transaction is committed, or rolled back for a conflict
\* or for a changed fingerprint.  (The fingerprint before is taken ahead of
\* BEGIN IMMEDIATE; whatever comes in between brings the row of this version
\* with it and so the conflict.)
Migrate(p) ==
    LET v == process[p].version + 1 IN
    /\ At(p, "migrating")
    /\ v <= SCHEMA_VERSION
    /\ v = 1 => V1Tables \subseteq db.schema
    /\ IF Refused(v, db)
          \/ Fingerprint(v, Rewritten(v, db)) # Fingerprint(v, db)
       THEN /\ Go(p, "failed", 0)
            /\ UNCHANGED <<db, disturbed>>
       ELSE /\ db' = Migrated(v, db)
            /\ Go(p, "migrating", v)
            /\ Changed(p)
    /\ UNCHANGED <<backups, first, worked, errors>>

\* The integrity and foreign key checks.
CheckAll(p) ==
    /\ At(p, "migrating")
    /\ process[p].version = SCHEMA_VERSION
    /\ Go(p, "ready", SCHEMA_VERSION)
    /\ UNCHANGED <<db, backups, first, worked, disturbed, errors>>

\* An error anywhere on the way: a full disk, a lock held for 30 seconds.
StartFails(p) ==
    /\ p \in Starting
    /\ errors < MaxErrors
    /\ errors' = errors + 1
    /\ Go(p, "failed", 0)
    /\ disturbed' = disturbed \cup {p}
    /\ UNCHANGED <<db, backups, first, worked>>

StartDies(p) ==
    /\ p \in Starting
    /\ errors < MaxErrors
    /\ errors' = errors + 1
    /\ process' = [process EXCEPT ![p] = Off]
    /\ UNCHANGED <<db, backups, first, worked, disturbed>>

\* The user's work, one piece of it (a bound): what a repeated migration would
\* undo.
Reviewed(d) ==
    {[d EXCEPT !.pages[p].review = "reviewed"] : p \in Ids(d.pages)}

Confirmed(d) == {[d EXCEPT !.items[i].confirmed = TRUE] : i \in Ids(d.items)}

SavedAnswer == [kind |-> "raw_qa", form |-> "question and answer",
                object |-> None, origin |-> "agent_assisted", status |-> "active"]

Saved(d) ==
    {[d EXCEPT !.entries[e] = SavedAnswer, !.indexed = @ \cup {e}] :
        e \in Entries \ Ids(d.entries)}

Works(d) == Reviewed(d) \cup Confirmed(d) \cup Saved(d)

UserWorks(p) ==
    /\ At(p, "ready")
    /\ ~worked
    /\ db' \in Works(db) \ {db}
    /\ worked' = TRUE
    /\ Changed(p)
    /\ UNCHANGED <<backups, process, first, errors>>

MigrationNext ==
    \E p \in Processes :
        \/ Read(p)
        \/ Backup(p)
        \/ Connect(p)
        \/ FirstTables(p)
        \/ Migrate(p)
        \/ CheckAll(p)
        \/ StartFails(p)
        \/ StartDies(p)
        \/ UserWorks(p)

MigrationSpec == MigrationInit /\ [][MigrationNext]_migrationVars

-----------------------------------------------------------------------------
(* What the module promises.                                               *)

\* The rows as the versions leave them; NULL is none of them.
PagesV3 == PageRows(StatusesV2, Reviews)
ItemsV7 == [type: {"text_selection"}, confirmed: BOOLEAN]
ObjectsV10 == [lifecycle: {"active", "archived"}, confirmed: Nat \cup {None},
               revision: Nat]
EntriesV10 ==
    [kind: {"experience", "raw_qa"}, form: {"free text", "question and answer"},
     object: Objects \cup {None}, status: {"active"},
     origin: {None, "human_saved", "agent_assisted"}]

ASSUME NullAssumption ==
    /\ None \notin Nat
    /\ None \notin PageRows(StatusesV1 \cup StatusesV2, Reviews \cup {None})
    /\ None \notin ItemsV7 /\ None \notin ObjectsV10 /\ None \notin EntriesV10

RowsOf(table, rows) == \A id \in Ids(table) : table[id] \in rows

MigrationTypeOK ==
    /\ db.versions = 1 .. Version(db) /\ Version(db) \in 0 .. SCHEMA_VERSION
    /\ RowsOf(db.pages, PageRows(StatusesV1 \cup StatusesV2, Reviews \cup {None}))
    /\ 3 \in db.versions => RowsOf(db.pages, PagesV3)
    /\ 7 \in db.versions => RowsOf(db.items, ItemsV7)
    /\ 10 \in db.versions => RowsOf(db.objects, ObjectsV10)
    /\ 10 \in db.versions => RowsOf(db.entries, EntriesV10)
    /\ db.indexed \subseteq Ids(db.objects) \cup Ids(db.entries)
    /\ \A p \in Processes : process[p].at \in Stages /\ process[p].version \in 0 .. SCHEMA_VERSION
    /\ disturbed \subseteq Processes
    /\ worked \in BOOLEAN /\ errors \in 0 .. MaxErrors

(***************************************************************************)
(* The library, which is what the rows amount to once the rest of the      *)
(* chain has been applied, is changed by the user's work only: no version  *)
(* is left out, none is applied twice, whatever two programs that start    *)
(* together, a program that dies, or an error in the middle leave behind.  *)
(***************************************************************************)
KeepsLibrary ==
    [][LET old == Library(Upgraded(db))
           new == Library(Upgraded(db'))
       IN  old = new \/ (new \in Works(old) /\ \E p \in Processes : At(p, "ready"))]_db

\* Every page with its note.  Only a note of a program that knew no drafts
\* changes its page's review: it is a draft and not a review.
PagesKept ==
    /\ Ids(db.pages) = Ids(first.pages)
    /\ \A p \in Ids(db.pages) :
           /\ db.pages[p].note = first.pages[p].note
           /\ db.pages[p].review =
                  IF Version(first) >= 3 THEN first.pages[p].review
                  ELSE IF first.pages[p].note THEN "draft"
                  ELSE IF first.pages[p].status = "failed" THEN "failed"
                  ELSE IF first.pages[p].status = "manually_reviewed" THEN "reviewed"
                  ELSE "pending"

ItemsKept == Ids(db.items) = Ids(first.items)

\* A reviewed object is confirmed in the content it has, and the last of its
\* revisions is that content.
ObjectsKept ==
    /\ Ids(db.objects) = Ids(first.objects)
    /\ \A o \in Ids(db.objects) :
           LET row == db.objects[o] IN
           /\ row.lifecycle = "archived" <=> first.objects[o].status = "archived"
           /\ row.confirmed = row.revision <=> first.objects[o].status = "reviewed"
           /\ row.revision = Len(db.history[o])
           /\ db.history[o][row.revision] = "legacy_baseline"

ChangeRows(d) == {e \in Ids(d.entries) : d.entries[e].kind = "knowledge_change"}

\* No change of the old log is lost, and no other entry.
EntriesKept ==
    LET events == {oe \in UNION {{o} \X DOMAIN db.history[o] : o \in Objects} :
                      db.history[oe[1]][oe[2]] = "legacy_event"}
    IN  /\ Cardinality(events) + db.orphans = Cardinality(ChangeRows(first))
        /\ Ids(db.entries) = Ids(first.entries) \ ChangeRows(first)
        /\ \A e \in Ids(db.entries) :
               db.entries[e].kind = "raw_qa"
                   <=> first.entries[e].form = "question and answer"
        /\ db.indexed = Ids(db.objects) \cup Ids(db.entries)

(***************************************************************************)
(* A database of any earlier program arrives at the newest schema with all *)
(* its pages, notes, evidence, objects and entries, whoever took it there  *)
(* and in how many attempts: no note is taken for a review, a confirmation *)
(* is for the content the object has, and the old log of changes is the    *)
(* history of the objects.                                                 *)
(***************************************************************************)
NothingLost ==
    Version(db) = SCHEMA_VERSION /\ ~worked =>
        PagesKept /\ ItemsKept /\ ObjectsKept /\ EntriesKept

(***************************************************************************)
(* Whoever changes the rows of a database to another version, there is a   *)
(* copy of the same library by then (migrate_database: "Existing non-empty *)
(* databases are backed up ... before a version-changing write").          *)
(***************************************************************************)
BackedUp ==
    [][Version(db') # Version(db) /\ first.schema # {} =>
          Library(Upgraded(db)) \in backups]_migrationVars

(***************************************************************************)
(* A start fails only if an error came its way or another program changed  *)
(* the database meanwhile: what a crash or a failed start leaves, between  *)
(* the tables of version 1 and its row, or between two versions, the next  *)
(* start goes on from.                                                     *)
(***************************************************************************)
FailsOnlyIfDisturbed ==
    \A p \in Processes : At(p, "failed") => p \in disturbed
=============================================================================
