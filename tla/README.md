# A TLA+ verification of the engineering knowledge base

The repository is a local knowledge base for engineering documents: a
Streamlit application over one SQLite database and a data directory, with an
Agent that reads imported pages and answers from them, and a hosted variant of
that Agent behind an HTTP API.  Sessions of the application are threads of one
process.  Almost no operation takes a lock, so what holds the library together
is the order of the writes to files and rows, what each operation takes from a
read it made earlier, and what it does when the process dies or a write fails
halfway.  This directory models that order: each component is a module that
TLC checks on a small instance, and eight modules hold proofs, checked by TLAPS,
that its most important properties hold for every instance.

Paths below are relative to the root of the repository's sources
(`src/document_service.py` and so on).

## 1. Inventory

### The library

| Component | State | Operations | Why it is hard |
|---|---|---|---|
| Document import (`src/document_service.py`, `src/pdf_service.py`) | original file, document row, page rows, page images, import record, temporary files | `import_pdf` (duplicate check, record, raw file, row, rendering, page rows, outcome), `import_document` (Office files, then the same) | each row and file is a write of its own; retries resume; two sessions import one file |
| Document deletion (`src/document_deletion_service.py`) | files, rows, `.deletion-quarantine/op-*` with a manifest | preview; `delete_document` in six stages; abort | files and rows cannot be removed atomically |
| Deletion recovery (`src/deletion_recovery.py`, `src/runtime.py`, maintenance page) | the same | `reconcile_quarantine`: restore, complete or report | decides from what a dead process left; runs beside live deletions |
| Page review (`src/document_service.py`, `src/ocr_policy.py`) | page rows, Markdown files | save, clear, mark, skip, OCR, reprocess | text kept twice; long work on a row read before |
| Batches and their selection (`src/batch_service.py`, `src/batch_selection.py`, `src/batch_ui.py`) | selection, one-shot plans, tags, projects | plan, preview, confirm once, execute | plans confirmed late, for another selection, or twice |
| Backup and restore (`src/backup_service.py`, `scripts/restore_backup.py`) | data directory, backups, rollback directories | `create_backup`, `validate_backup`, `restore_backup` | a snapshot of rows and files taken at different moments; a swap of directories with a way back |
| Schema and migrations (`src/migrations.py`) | schema version, all tables, copies | fourteen versions, one transaction each | a chain that stops halfway; two programs that start together |
| Exports, legacy upgrade (`src/knowledge_export_service.py`, `src/legacy_backup_upgrade_service.py`) | packages in a staging directory | build, verify, rename | as backups |

### Knowledge built on the pages

| Component | State | Operations | Why it is hard |
|---|---|---|---|
| Structured notes (`src/note_service.py`, `src/source_fingerprint.py`) | notes with a fingerprint of their source | bind, edit, re-bind, status | the source changes under the note |
| Knowledge objects (`src/knowledge_object_service.py`) | objects, revisions, successor, sources | create, edit, confirm, archive, supersede, reactivate, repoint, link, delete | each operation writes what it decided from an older read; successors must not form a circle |
| Knowledge memory (`src/knowledge_memory_service.py`, `src/knowledge_memory_ui.py`) | saved answers, drafts, experiences, links | save, draft, review, promote, delete, restore, purge | a draft outlives the answer it was made for |
| Evidence basket (`src/evidence_basket_service.py`) | ordered items | add, move, confirm, export | an item's source is stale when it is exported |

### The Agent and the AI calls

| Component | State | Operations | Why it is hard |
|---|---|---|---|
| Document reading (`src/agent_document_reader.py`, `src/agent/local_document.py`) | a reading per page, a manifest per document | `read_document`, questions about what was read | minutes of calls on texts read before; runs overlap; resumed after failures |
| Agent kernel (`src/agent/…`) | none between requests | one decision, at most one tool, one answer | which failure ends which stage |
| AI ledger and budget (`src/ai/provider.py`, `src/ai_ledger_service.py`) | ledger rows | check, call, record | the check and the charge are apart |
| Hosted API (`src/hosted_api`, `src/hosted/security.py`) | rate windows, slots | admit, run, release | a slot that is not released |
| Hosted storage (`src/hosted/storage.py`) | seed, temporary copy, database, WAL, marker | publish once, validate, clean up | the process dies anywhere in the first start |
| Page index and hybrid search (`src/ai/page_indexer.py`, `src/ai/vector_recall.py`, `src/ai/hybrid_search.py`, `scripts/ai_real_page_index.py`) | vectors with text hashes | paid index runs; recall, fusion, hydration | a stale vector taken for a fresh one; every step reads the database anew |
| Search page (`pages/4_检索资料.py`, `src/search_state.py`, `src/search_mode.py`) | the session's state, its URL, the last search and its results | search, filter, turn, link, reload, come back | four copies of one state; a search can cost money; Streamlit ends a running script at the next click |

Aggregation, diagnostics, prompts, the vendor client, the pages'
layout, demo data and launchers keep no state of their own that outlives a
call; `PROJECT.json` lists each with the reason it is left out.

### How they meet

* An import creates what a deletion quarantines: `DocumentDeletion` contains
  the import and the saving of Markdown as single steps; their own steps are
  in `DocumentImport` and `PageReview`.
* Reconciliation runs at the start of the process and whenever the maintenance
  page is drawn (`src/runtime.py:305-355`, `pages/12_系统维护.py:215`).
* A backup copies files while all of them go on; `BackupRestore` contains a
  save, a clear and a deletion as two writes each, in the order of the
  services.
* A reading depends on the page text that review, OCR and reprocessing change;
  `DocumentReading` contains those changes as `Edit`.
* Notes, basket items and knowledge objects name pages and each other; a
  deletion of any of them takes the links to it along (`SourceLinks`).
* A page's text is what its vector is of: an edit makes the row stale, a
  deletion removes it, and a search compares the fingerprints (`PageRetrieval`,
  with a session of the search page on top in `SearchPage`).
* Every start migrates the database before anything else uses it
  (`Migrations`); the hosted service instead requires the version it was built
  for (`HostedStorage`) and serves requests once it has it (`HostedServer`).

### What makes each component correct

The hazards in `PROJECT.json` give the lines.  In short: *deletion* – the last
content of a living document is never lost, nothing without an owner stays at
a recorded path, nothing is overwritten, and every interrupted deletion is
eventually settled; *import* – what counts as imported is whole, the user is
told the truth, a crash alone never makes a retry fail, retries complete the
document; *review* – what the user was told is stored is stored in row and
file, OCR does not touch other errors, a batch does what its preview showed;
*backup* – a finished backup can be restored, a restoration never loses the
library it replaces; *migrations* – no user's row is lost or changed by a
chain that stops anywhere, and there is a copy from before; *reading* – a
document that is said to be read can be asked about, and an answer rests on
pages that were read as they are; *knowledge* – the history tells what the rows
say, confirmations are of texts somebody saw, successors exist and form no
circle, links have targets; *basket* – a package is what the sources say;
*search* – results are
what was found under what the page says, and a search whose vectors had no part
says so; *hosted* – one database, published whole and never replaced, and budgets, rates
and slots that hold.

## 2. Modules

| Module | Models | State and actions |
|---|---|---|
| `DocumentDeletion` | deletion, abort, removal of the operation directory, reconciliation | `original`, `documents` are the files and the document rows; `dirs`, `manifest`, `quarantine` the operation directories; `pc`, `op`, `plan`, `todo`, `bad`, `queue` the local variables of a session. `BeginDelete` … `Restored` are the stages of `delete_document`, `RemoveManifest`, `RemoveFile`, `RemoveDir` the entries that `shutil.rmtree` removes, `Take` … `EndReconcile` the loop of `reconcile_quarantine`. `saved` is a ghost: what a document last stored; `contended` a history: the files of documents two sessions were at work on at once |
| `DocumentImport` | `import_pdf` with `PdfService.process_document` and `_record_failure` | `raw`, `status`, `pageCount`, `row`, `image` are the library, `rawTemp`, `imageTemp` whose temporary file exists, the rest the variables of a session. |
| `ImportPromise` | the abstract specification of an import | a document is entered once, each page is listed once, and listing goes on |
| `PageReview` | save, clear, mark, skip, OCR, reprocess; batches of status changes, tags and projects with their one-shot plan | `page`, `file` are rows and Markdown files, `phase`, `related` the tags and projects, `job` what a session has read, planned and is doing. `saved` is a ghost: what the user was last told; `overlapped` another: two sessions have worked at once. `stamp` stands for `updated_at` |
| `BackupRestore` | backups beside a running service, offline restoration | `data`, `backups`, `rollback` are directories; `edit`, `copy`, `restore` the work under way. `before` is a ghost: the library a restoration began with |
| `Migrations` | every start of a program on a database of any version | `db` is the file: its version and its rows, as far as a migration looks at them; `process` how far a start has come; `backups` the copies. One action per migration, from version 0 to 14. `first`, `worked`, `disturbed` are histories |
| `DocumentReading` | `read_document`, questions, corrections, restarts | `text`, `reading`, `manifest` are what is stored; `source` the texts a run read at its start; `hit`, `answer` what a question found and was answered from. `stale`, `met`, `crossed` are ghosts |
| `KnowledgeObjects` | every operation on a knowledge object | `objects`, `history` are the rows and their revisions, `session` the request that was read and not yet written; `overtaken`, `crossed` are histories of supersessions that overlap |
| `KnowledgeMemory` | saved answers, drafts, experiences | `entries`, `links` are rows, `draft` the draft in a session; `restored`, `raced` are histories |
| `SessionRequests` | the session of these four modules, `session`: the request each has under way | `Begin`, `End` |
| `Sources` | the pages that notes, items and objects name, for the next two modules | `pages` is what each holds; `Changed`, `Gone` |
| `EvidenceBasket` | the basket beside changes of pages | `basket` are rows with their places, `session` the request under way; in a package `left` is still to check, `quoted` and `seen` are histories |
| `SourceLinks` | notes, basket items and knowledge objects as sources and targets of links | `notes`, `items`, `sources` are rows with fingerprints, `session` the request under way |
| `PageRetrieval` | the index script, the stored vectors, hybrid search | `pages`, `stored` are rows, `script` the paid runs with what they chose, read and still have to do, `search` the search under way. `Select` … `End` are `select_candidates` and `index_pages`, `BeginSearch` … `Hydrate` the steps of `HybridSearchService.search`. `moved` and `overwritten` in a run or search are histories: pages changed, and rows written by others, since |
| `SearchPage` | one browser session on the search page, over `PageRetrieval` | `url`, `active`, `signature`, `previous`, `executed`, `shown`, `note`, `weak` are the keys of the session; `phase` is where its script is. `User` are the widgets, `Load` the script from its beginning, `Interrupt` Streamlit. `strayed` is a history: why the results may be other than asked for; another, `meant` in `shown`, the results their vectors found |
| `HostedStorage` | how the hosted service gets its database | `target`, `sidecars`, `temporary` are files, `stage` what the process does next; `halfway` a history: a process ended where its files were halfway |
| `HostedAgent` | the requests of the hosted API and their model calls | `windows`, `slots` are memory, `spent` is the ledger, the tokens of each day and month, `request` where each request is; the constant `MonthStart` is the calendar; `admitted` a history |
| `HostedServer` | both together: requests are handled while a process serves, and lost with it | no state of its own |
| `DocumentDeletion_proofs`, `Library_proofs`, `PageReview_proofs`, `BackupRestore_proofs`, `DocumentReading_proofs`, `Knowledge_proofs`, `SearchPage_proofs`, `HostedServer_proofs` | theorems about the module of that name; `Library_proofs` about `DocumentImport` and `Migrations`, `Knowledge_proofs` about `KnowledgeObjects`, `KnowledgeMemory`, `SourceLinks` and `EvidenceBasket`, `SearchPage_proofs` also about `PageRetrieval`, `HostedServer_proofs` also about `HostedAgent` and `HostedStorage` | |
| `MC…` | instances for TLC | `MCPageReview`, `MCDocumentReading` and `MCSearchPage` start in one of several scenes, so that each part is explored in depth without multiplying it with the other |

Conventions.  An action is one step that other sessions can see: one rename,
one transaction, one file.  Reads that the code uses later are separate steps
when something can change in between.  `Crash` forgets the variables of all
sessions and nothing else.  `Fault` marks an outcome that only an I/O,
database, engine or model error causes; an outcome that the state itself
causes (a missing file, a violated UNIQUE constraint) is always possible and
needs no fault.  A request that its first read turns down changes nothing and
is left out.  Operators named after a bug ("Mutant: …") stand before the
definition they would replace; each shows that a property notices that bug.

Abstractions.  File contents and texts are a few values, which hashes tell
apart; paths are names; messages, logs, timestamps, page geometry and ranking
are left out.  A crash falls between two steps and not inside a rename or a
transaction.  Of the modules:

* `DocumentDeletion`: a manifest that cannot be parsed or leads out of the
  library is treated as a missing one, which is what the reconciliation does
  with it.
* `KnowledgeObjects`: title, text and importance are one value; the epistemic
  basis is not kept in the row; the `before_*` snapshots of a revision are left
  out; the walk along the chain of successors is one read; sources only take a
  number in the history, their rows are in `SourceLinks`.
* `KnowledgeMemory`: `create_entry`, `update_entry`, `set_status` and
  `link_knowledge_to_project` have no caller and are left out.
* `SourceLinks`, `EvidenceBasket`: the text of a page and its image are one
  content; `_source_status` only reports and is left out.
* `PageReview`: tags and projects are assigned by the same code and are one
  set, `Targets`; assignments of whole documents are left out; the signature of
  the visible pages is the chosen set of pages.
* `DocumentReading`: a question finds one page; the visual tool is left out.
* `Migrations`: foreign keys are off during a migration, so rows are compared
  by what they name; a copy is judged by what it amounts to after the chain.
* `PageRetrieval`: a vector is named by the text it is of, and how near a query
  is to a text is a given number; ranking by words is any order; there is one
  configuration of model and dimensions; whether the rows of a run are fresh is
  asked at one moment; its pages are embedded in the order of their ids, which
  stands for that of documents and page numbers.
* `SearchPage`: one filter stands for all of them, `view` for everything that
  only says which part of the results is shown; what the personal knowledge
  search finds is left out, that it is free is not.
* `HostedStorage`, `HostedAgent`: one process starts at a time, as the
  deployment documents require; another digest of the artifact is a fault;
  status codes and texts of answers are left out.

## 3. Runs

Every bound is a constant of the model, given in the `.cfg`.

| Run | Expect | What it shows | Bounds |
|---|---|---|---|
| `Deletion` | pass | `LivingFilesKept`, `NoOrphans`, `NothingOverwritten`, `Settled` | two documents of the same PDF, one with Markdown in two versions; two operation names; two sessions; two crashes and two faults: enough for two operations that claim one path, a failed abort, and a retried reconciliation that fails again; only imports overlap with other work, so that `contended` stays empty and no file is exempt. With wider overlaps the run takes longer than it may; the theorems are about all of them |
| `Import` | pass | `ImportedIsWhole`, `AnswerIsTrue`, and that the import implements `ImportPromise` (`KeepsPromise`) | two pages, two sessions at once, one crash, one fault; two crashes and two faults pass as well and show nothing new |
| `Review` | pass | `SavedIsStored`, `RecognisedWithoutError`, `BatchAsPreviewed` | one page, two texts, two sessions, four row writes, one crash, one fault; or one write beside a tag that is created, assigned and deleted: a plan, a change under it, and its confirmation |
| `Backup` | pass | `BackupsAreWhole`, `LibraryKept`, `RestoredIsBackup` | an original and a Markdown file, two changes, three backups, one crash, two faults: a failed switch whose way back fails too |
| `Reading` | pass | `ReadMeansReady`, `ProgressIsSaved`, `ReadUpToTheGap`, `AnswersFromRead` | two pages, two texts or none, two models, two sessions, one edit, and either one restart and one fault or one question |
| `Knowledge` | pass | `RevisionIsContent`, `ConfirmedWasRead`, `CirclesNeedARace`, `SuccessorsExist` | three objects (the shortest chain whose ends can meet), two sessions, two contents, four revisions |
| `Migrations` | pass | `NothingLost`, `FailsOnlyIfDisturbed`, `KeepsLibrary`, `BackedUp` | two processes, one page, item and object, two entries, one fault, one piece of user work; databases of versions 0, 1, 2, 6 and 9 |
| `Memory` | pass | `CopiesTakeARace`, `DestroyedWasDeleted` | two sessions, two questions, three entries (two answers and an experience), two deletions |
| `Basket` | pass | `PackageIsCurrent` | two pages, two contents, two sessions, three items, one change |
| `Links` | pass | `LinksHaveTargets` | two pages, one content, one note or item each, two sessions, two links, one change |
| `Search` | pass | `ReportIsTrue`, `MarkedIsNotSent`, `FreshnessIsKept`, `ResultsAreFound`, `ShownIsAsked`, `FallbackIsTold` | two pages, four texts (two with the same beginning, one empty, one with a marked word), three queries, one of which does not survive its URL; in three scenes: two runs of the script and a change; one search with the end of a run or beside a change; three actions of the user on a library that stays, with vectors stored or none |
| `Hosted` | pass | `OverrunBounded`, `RateKept`, `PublishedWhole`, `RefusedForACause`, `UsedIsKept` | three requests of two clients, one bucket, two requests of an agent and one of a source per window of two ticks, two slots, two attempts, budgets of one token a day and two a month, calls of one token, three days of which the last begins another month, one death, one fault: a day and a month that end with calls under way |

The sets of pages, contents, sessions, objects and the like are symmetric where
no liveness property is checked; ids given out by AUTOINCREMENT are not.
Deadlock is checked for `Hosted` only: the bounds on crashes, faults, edits and
writes let every other model stop, and so does an application nobody uses.

### Fairness

Fairness is only assumed of running work and of users who come back.  A script
thread that has begun runs on until it returns or raises (`WF` of each
session's `Work`): Streamlit ends a script only when it draws, which of the
services only `read_document` does, through the progress callback its pages
pass (`Stop`).  `Settled` needs somebody to open the home page or the
maintenance page again, `KeepsPromise` somebody to import the file again,
`ReadUpToTheGap` somebody to ask for a reading again: each of the three is a
promise to a user who retries, and the fairness says no more than that one
session does.  No fairness is assumed of edits, imports, deletions, questions
or faults.

### Seen while modelling

Statements of a document or a comment that the code does not keep.  Those with
a name are defined in the modules; no run checks them, as the number of runs is
kept small.

* A reconciliation on every render (`pages/12_系统维护.py:215`) that reads the
  document row before another session commits or rolls back treats that
  operation as its own: with `Overlap = {"reconcile"}`, files of that document
  are lost. They are `contended` then: without that exemption `LivingFilesKept`
  fails.
* `RivalsUntouched` (`DocumentDeletion`): `docs/design-v0.3.2.md:321` asks for
  no automatic action when several manifests claim one path; the code looks at
  one manifest at a time.
* `PagesFailForACause` (`DocumentImport`): the cleanup of temporary images
  (`src/pdf_service.py:165-167`) takes those of a running import for leftovers
  of a killed one.
* `DuplicateSucceeded` (`DocumentImport`): an error in the very last write of
  an import marks the whole document as failed, and no retry gets past the
  duplicate check (`src/document_service.py:290`,
  `docs/v0.2.3-release-notes.md:21`).
* `FailedRestoreKeepsData` (`BackupRestore`): the `except` branch that brings
  the old directory back also runs when the removal of that very directory has
  begun (`src/backup_service.py:345`, 364).
* `RereadMeansReady` (`DocumentReading`): `save_page_reading` does not compare
  what it replaces, so an older run replaces the reading of a corrected page
  (`src/agent_document_reader.py:291`, `pages/17_我的资料.py:232`).
* Two overlapping deletions of one document leave a file without an owner: the
  one that finds the row gone puts back what it moved (without the exemption of
  `contended` files, `Overlap = {"delete"}` breaks `NoOrphans`).
* A reconciliation goes on with the other files after one has a problem,
  although the operation is then reported as left untouched
  (`src/deletion_recovery.py:22-25`, 291).
* A process that dies after `rmtree` removed the manifest leaves a committed
  deletion that every later reconciliation reports and none completes
  (`docs/design-v0.3.2.md:269-273`).
* With two sessions a recognition that fails brings back an error that was
  resolved meanwhile, and a clear can remove the file that a save of the other
  session has just written.  Reprocessing that ends after a save sets the page
  to pending again.  Two writes in one tick of the clock have one `updated_at`,
  which is what a batch compares.
* Saving the tags of a page or the document links of a project rewrites the
  whole set from an older render: the last writer wins.
* A library with one missing file cannot be backed up, and so not be restored
  over either.  Whether the service runs is asked once, before the staging of a
  restoration.
* A search may give the model a summary of an older text when a reading is
  saved between its two fetches (`src/agent/tools/adapters/page_search.py:131-144`);
  the visual search answers about pages that were never read, although
  `src/agent/local_document.py:93-94` speaks of fresh pages only.
* Two supersessions that overlap can close a circle, which the service checks
  for on its earlier read (`src/knowledge_object_service.py:459-465`); a source
  taken anew can carry the fingerprint of a state the source has left and come
  back to (652-661).
* A draft made for one answer while another one is in review becomes the
  experience of the wrong answer (`src/knowledge_memory_ui.py:293-297` against
  the comment at 352-355); a save racing a restoration makes a copy; a purge
  racing a restoration destroys an active entry
  (`src/knowledge_memory_service.py:517-521`); reciprocal links need a race too.
* `delete_item` of the basket closes the gap in the places with `UPDATE … SET
  position = position + count`, whose rows SQLite checks against UNIQUE one by
  one.  As soon as a later item has the place that an earlier one is moved to
  (`CanRemove` in `EvidenceBasket`), as for the middle one of three, it fails
  with an IntegrityError, which page 7 does not catch
  (`src/evidence_basket_service.py:784`, `pages/7_证据篮.py:133`);
  `docs/v0.2.1-manual-test-plan.md:62-63` expects every operation to succeed, and
  `tests/test_evidence_basket_service.py:205-232` removes from two items only.
* Two sessions that add to the basket at once compete for a place, which
  `insert_item` reports as a duplicate
  (`src/evidence_basket_service.py:653-660`).
* Opening or closing the panel of the filters runs the search again, and embeds
  and pays for the query in hybrid mode (`pages/4_检索资料.py:720-728`), although
  `tests/test_search_hybrid_lifecycle.py:1-8` speaks of zero embeddings for
  anything but an explicit search.
* A query with a comma is cut when it is read back from its URL
  (`src/search_state.py:334-359`): the way back from the reader searches for its
  first part, or, in hybrid mode, asks to search again.
* A click during a hybrid search loses its results, and those of the search
  before stay under the new query; so do they after a switch of the scope, and
  the note that asks for a click stays when a link leads back to what was
  executed (`Interrupt`, `SwitchScope`, `Restore`).
* A page that is deleted while the index script runs ends the script with an
  error, and the vectors that were paid for and not yet stored are lost
  (`StoreFails`, `src/ai/page_indexer.py:377-394`); a page that gets a marked
  word between the script's look and the indexer's reading is sent.
* A hosted process that dies between link and unlink, between the creation of
  the WAL and the SHM file, or in its cleanup, leaves files that every later
  start refuses until an operator helps
  (`docs/v0.6.0-public-deployment-wp4-storage-sqlite.md`).  A call that fails,
  that returns nothing that parses, or whose ledger row cannot be written is
  not metered; a restart forgets the rate windows.

## 4. Proofs

Every theorem holds for all values of the constants that the module's
assumptions allow; the numbers of crashes, faults and edits are any natural
numbers.

| Module | Theorem | States |
|---|---|---|
| `DocumentDeletion_proofs` | `TypeCorrect` | `Spec => []TypeOK`, with any overlap of sessions |
| | `Inductive` | `Spec => []IndInv`, like the next three with any overlap |
| | `NothingLost` | `Spec => []LivingFilesKept` |
| | `NothingLeft` | `Spec => []NoOrphans` |
| | `NeverOverwritten` | `Spec => NothingOverwritten` |
| `Library_proofs` | `Invariance`, `Typing` | `Spec => []IndInv`, `Spec => []TypeOK` |
| | `ImportsAreWhole`, `AnswersAreTrue` | `Spec => []ImportedIsWhole`, `Spec => []AnswerIsTrue` |
| | `StoredStays` | `Spec => [][Grows]_vars`: no step takes away or changes what an import has stored |
| | `ImportRefinesPromise` | every step is one of `ImportPromise` or a stutter |
| | `MigrationInvariance`, `MigrationTyping` | `MigrationSpec => []MigrationInv`, `MigrationSpec => []MigrationTypeOK` |
| | `ChainLosesNothing` | `MigrationSpec => []NothingLost` |
| | `LibraryIsKept`, `BackupComesFirst` | `MigrationSpec => KeepsLibrary`, `MigrationSpec => BackedUp` |
| | `FailureHasACause` | `MigrationSpec => []FailsOnlyIfDisturbed` |
| `PageReview_proofs` | `Invariance`, `Typing` | `Spec => []IndInv`, `Spec => []TypeOK` |
| | `SavesAreStored` | `Spec => []SavedIsStored` |
| | `RecognisedHasNoError` | `Spec => []RecognisedWithoutError` |
| | `BatchesAreAsPreviewed` | `Spec => BatchAsPreviewed`, with any overlap of sessions |
| `BackupRestore_proofs` | `Invariance`, `Typing` | `Spec => []IndInv`, `Spec => []TypeOK` |
| | `FinishedBackupsAreWhole` | `Spec => []BackupsAreWhole` |
| | `RestorationLosesNothing` | `Spec => []LibraryKept` |
| | `ReportedRestorationIsTheBackup` | `Spec => []RestoredIsBackup` |
| | `FinishedBackupsStay` | no step changes or removes a finished backup |
| `DocumentReading_proofs` | `Invariance`, `Typing` | `Spec => []IndInv`, `Spec => []TypeOK` |
| | `ToldReadIsReady` | `Spec => []ReadMeansReady` |
| | `ManifestIsBacked` | `Spec => []ProgressIsSaved` |
| | `AnswersAreFresh` | `Spec => []AnswersFromRead` |
| `Knowledge_proofs` | `Invariance`, `Typing` | `Spec => []IndInv`, `Spec => []TypeOK` |
| | `RevisionsAreTrue` | `Spec => []RevisionIsContent` |
| | `ConfirmationsAreTrue` | `Spec => []ConfirmedWasRead` |
| | `SuccessorsAreThere` | `Spec => []SuccessorsExist` |
| | `CirclesTakeARace` | `Spec => []CirclesNeedARace` |
| | `MemoryInvariance`, `MemoryTyping` | the inductive invariant and the types of `KnowledgeMemory` |
| | `RepetitionsTakeARace` | `MemorySpec => []CopiesTakeARace` |
| | `OnlyDeletedIsDestroyed` | `MemorySpec => DestroyedWasDeleted` |
| | `LinksInvariance`, `LinksTyping` | the inductive invariant and the types of `SourceLinks` |
| | `SourcesAreThere` | `LinksSpec => []LinksHaveTargets` |
| | `BasketInvariance` | `BasketSpec => []BasketInv` |
| | `PackagesAreCurrent` | `BasketSpec => []PackageIsCurrent` |
| `SearchPage_proofs` | `Invariance`, `Typing` | `Spec => []IndInv`, `Spec => [](RetrievalTypeOK /\ SessionTypeOK)` |
| | `ReportsAreTrue`, `MarkedStays` | `Spec => []ReportIsTrue`, `Spec => []MarkedIsNotSent` |
| | `FreshStays` | `Spec => FreshnessIsKept` |
| | `ShowsWhatIsAsked`, `FallbacksAreTold` | `Spec => []ShownIsAsked`, `Spec => []FallbackIsTold` |
| | `SearchInvariance` | `Spec => []SearchInv`, the inductive invariant of the hybrid search |
| | `FindsWhatIsThere` | `Spec => []ResultsAreFound` |
| `HostedServer_proofs` | `Invariance`, `SlotsAreKept` | the inductive invariant of the requests; a slot is free or taken by one run |
| | `OverrunIsBounded`, `RateIsKept` | `AgentSpec => []OverrunBounded`, `AgentSpec => []RateKept` |
| | `ServesRequests` | `Spec => AgentSpec`: the composed service implements the specification of the requests |
| | `StorageInvariance`, `Typing` | the inductive invariant of the start, the types of the whole |
| | `SeedIsPublishedWhole`, `RefusalsHaveACause` | `Spec => []PublishedWhole`, `Spec => []RefusedForACause` |
| | `UsedDatabaseStays` | `Spec => UsedIsKept` |
| | `ServiceOverrunIsBounded`, `ServiceRateIsKept` | `Spec => []OverrunBounded`, `Spec => []RateKept`, from the theorems about `AgentSpec` by the refinement |

*Deletion.*  Any work may overlap with any other (`Overlap`).  What the code
cannot keep when two sessions are at work on one document – two deletions, a
deletion and a reconciliation or a save – is named by the history `contended`:
the files of such a document are exempt for good, no others are.  The
assumption on the constants is `DeletionAssumption`: documents do not share a
file that is edited (Markdown lies in a directory of the document), and
`Missing` and `NoManifest` are no contents or manifests.  Documents may share
the original, one after the other, because its path is its SHA-256.

`LivingFilesKept` is not inductive: a directory may be removed only because its
document is gone or everything is back, and whether that is so was decided
several steps ago by a session whose `plan` and `bad` remember it.  `IndInv`
says, for each session at work, what its operation directory holds in each
phase: before the outcome is decided the row exists (`Undecided`); while files
are moved each planned file is in exactly one place (`Moving`) and no other
file of the document is at its path (`NothingElse`), which is what makes the
commit leave no orphan; while they are put back the quarantine holds what is
still to do (`PuttingBack`) and, unless something failed, nothing of what is
done (`PutBack`); and a directory is only removed when the document is gone or
nothing of it is held (`Disposable`).  The rest speaks of the operations nobody
works on: manifests name ids that were given out (`ManifestsKnown`), so that a
new import cannot be taken for the document of an old operation – this is where
AUTOINCREMENT is needed – and two living documents share no file (`Disjoint`).
Other sessions disturb none of this: two in one directory follow the same plan,
and two at work on one document have contended for it (`Exclusive`); two on
different documents whose rows both exist share no file (`Apart`), so what a
session does leaves the statements about the others as they are (`OthersKeep`).
`BusyStep` reduces a step of a session to its own conjuncts; there is one lemma
per action and one step per conjunct below it.

*Import.*  Several sessions may import one file, and each works from what it
read.  `ImportedIsWhole` alone says nothing of an import that is under way, so
`SessionsKeep` says of each session, at each of its steps, what it may rely on:
the document row and the original are there while it works on the pages
(`HasDocument`); the pages it has passed have an image or are known to it to
have failed (`HasImages`); and those it has stored, or found stored by another
session, have a row (`HasRows`).  All of it survives the steps of the others
because no import takes anything away: that is `Grows`, proved once for every
step and used for every session but the one that moves.  A page count is 0 or
that of the file, so a document with as many rows as its page count has all of them
(`CompleteMeansAll`).  `ImportRefinesPromise` is the safety part of
`KeepsPromise`: the document row is `Enter`, a page row `List`, everything else a
stutter.

*Migrations.*  The library is what the rows amount to after the rest of the
chain, `Upgraded(db)`, and the central lemma (`MigratedUpgrades`) says that the
next version, applied to any database of the version before, leaves it as it
was: the versions that rewrite rows come in one order, and each finds the rows
in the form the one before left them in (`RewrittenType`, `EntriesTyped`).  From
it `MigrationInv` has that the library is the one the database was opened with
until the user works (`WorkOK`) and that whoever may change the version has a
copy of it (`CopiedOK`).  That a start fails only for a cause rests on three
facts: a start nobody disturbed goes on from the version there is (`InStep`);
the tables of a database are those of its versions, each added by one version
only (`TablesOK`, `AddedOnce`), so no `CREATE TABLE` meets a table that is there,
and version 1 forgives those a crash has left; and no version changes what its
own check compares (`FingerprintKept`).  `NothingLost` then speaks of the
database that was opened and its upgrade alone: `UpgradedRows` says what
the chain makes of the rows of each earlier version, and
`NumberedInGroups` counts the changes of the old log, which version 10 numbers
in the history of each object or, where the object is gone, as orphans.

*Review and batches.*  `SavedIsStored` and `RecognisedWithoutError` speak of the
time before two sessions have worked at once, so `Alone` says that until then
at most one session is at work, and `WorkOK` what that one may rely on: while it
saves or clears, its user was told nothing; in a save the file is written before
the row, in a clearing the row before the file, and the half that is done is
done; and the page it recognises still has the errors it read.  A preview that waits and the batch it confirms are no overlap; that a batch
leaves texts, files and errors alone is what lets it step in between.  `BatchAsPreviewed` needs none of that: it holds for every overlap,
because the batch compares what its plan remembers in the transaction that
writes.  It needs only that a plan that waits was made from pages a batch may
change (`PlanOK`), which no later step can spoil.

*Backup and restoration.*  `LibraryKept` is not inductive: that the old library
may be moved away and removed rests on the pre-restore backup, made several
steps before.  `Saved` says that from that backup on some backup holds the
library the restoration began with, and still does after the service runs
again, on whatever directory; `InPlace` that until then the directory is the
one it began with, and that while it may have to come back something of it is
there; `Offline` that no session edits or copies without the service, which is
what makes the pre-restore backup a copy of one moment; `Sourced` that the
backup that was validated is the one put in place.  Backups have names that are
not given out twice, so a finished backup is never written again
(`FinishedBackupsStay`), which carries `Saved` through all other steps.

*Reading.*  A run reads all texts at its start and uses them for the rest of it.
The invariant relates what each run has counted to the store: whoever has seen
no edit holds the texts that are stored (`SourceIsText`); while a run is under
way the manifest names the model in use and every page it has counted has a
reading by that model (`RunIsSaved`), which is `ProgressIsSaved` for the
manifest it is about to write; and if it has seen no edit and met no older run,
those pages are ready (`RunIsReady`).  The last needs that no run on older texts
is still there that was not met (`NoOldRun`), since such a run may overwrite a
reading.  A question checks readiness after it has fetched the reading:
`HitIsRead` says that at the check the store still holds what was fetched, unless
a reading was saved in between (`crossed`).

*Knowledge objects.*  A request writes from what it read, so the invariant
speaks of rows, histories and the requests under way.  `ReadingsHold`: a session
about to confirm holds a number of the history, and if that is still the current
one, what it read is the current content, because revisions are only appended;
with `ConfirmedIsOld` this gives `ConfirmedWasRead` without any lock.
`SuccessorsExist` is what the foreign key of `superseded_by_ko_id` keeps, in a
deletion and where a successor is written.  The absence of circles is a matter
of order: as long as no supersession was overtaken (`~crossed`), some ranking of
the objects decreases along every successor (`Ordered`), and a circle has none;
a request that is not overtaken names another object that has no successor
itself (`SuccessorsEnd`), so a new ranking that puts it last includes it.

*Saved answers and experiences.*  What a session is about to add it has looked
for on another connection.  `AbsentSince` says what may have come up since: a
restored entry, or one that another session added, and then the two are known to
have been at it at once (`RacesKnown`), since either began while the other was
under way.  `DraftsKept` keeps the reviewed draft for a promotion, and
`PurgesDeleted` says that what a session is about to destroy was deleted when it
looked, and if it is active now was restored.  Ids are never given out twice, so
it is not a later entry.

*Links.*  A link names its target without a foreign key.  The invariant is that
of the rows and of the requests: who links or takes a fingerprint anew checks
the target inside the transaction that writes, and whoever deletes a page, a
note or an item deletes its links in the same one.  Ids are never given out
twice (`CountersOK`), so an old link cannot come to name a new note.

*Basket.*  A package lists its items once and checks them one after the other.
`QuotesHold` says of what it quotes that it is still to be checked or has been
on its page since, and that what its page holds now is among what the page has
held since (`seen`); a check that passes takes the head of the list away and
finds it on the page.  The package is delivered when nothing is left to check.
Whatever happens meanwhile to the items and their places, the list is that of
the beginning.  No place enters the argument, and so neither `ShiftFails` nor
that places are unique: a removal or a reordering keeps what an item is taken
from (`BasketRowsOK`).

*Embeddings.*  A run of the index script chooses pages, reads them again, sends
them in batches and stores the vectors one by one, while others change pages
and other runs store.  The invariant says of a run that every page nobody
changed since it was chosen still has an unmarked text, the one the run has
read (`AsChosen`); that each page is done, failed, skipped or still to do
(`Accounted`); and that what is done has a vector of what was read, unless
another run stored one since (`DoneIsFresh`).  The histories `moved` and
`overwritten` are kept for every run that chose the page, so all three survive
the steps of others (`SeenKeeps`, `StoreKeeps`).

*Hybrid search.*  The words are looked up, the rows listed, the fingerprints
compared, the pages read for the result list, all at different moments, while
pages change and vectors are replaced.  `SearchInv` keeps for a search what each
step relies on: what was found literally are different pages, shown as they were
read (`LexicalOK`); a row is of one text (`OfOneText`, which `Store` keeps because
the fingerprint is that of the text that was sent); a hit whose page nobody
changed since has the text its vector is of (`HitsOK`; the history `moved` records
the changes).  While the results are put together, what is shown and what is
still to be shown are in the order of the ranks (`InOrder`), every literal result
is in one of the two (`Covered`), and with nothing from the vectors the two
together are the literal list (`AsLiterally`).  A page that is gone is left out
without harm, because only a page found by its vector alone is read again.  Two
facts about reciprocal rank fusion carry the rest: a page no path put below
another is not ranked behind it (`AboveIsNotBelow`, by `Fractions`, for every
`RrfK`), and the fusion with an empty list is the list itself (`AloneInOrder`, by
the least place where the two differ).  Scores are exact fractions here.  The code
adds floats, whose rounding keeps the order of sums and can at most make two of
them equal; then the better rank decides.

*Search page.*  The session keeps its state, the executed projection and the
results apart.  `ShownOK` says that unless something came between (`strayed`) or a
hybrid search runs, the results are those of the executed projection and that
is the one of the state; `ResultsOK` that nothing is shown before anything was
executed, without which a refresh could show results the session knows nothing
of; `StateOK` that the state is the one the URL was written from and that a
search that is paid for is one of pages.  `SearchKeeps` proves it once for every
search.  `FallbackIsTold` rests on both invariants: `TellsOK` says that the notes
fit what the shown results were found by, which after a hybrid search
(`OutcomeTells`) takes `StatusOK`, that without the vector path nothing comes from
it, and that what is put together was found one way or the other; every other
search is one by keywords (`KeywordsTell`), and without a search the results keep
their notes (`NothingNewToTell`) or a link shows none.

*Hosted requests.*  The budget is checked before a call and charged after it.
The guard asks about the day and the month of its own check, and the ledger gets
a call under the time it was prepared.  The invariant charges the calls under
way in advance: what the ledger has of the present day or month, plus the
largest answer of every call of it that the guard let pass (`Passed`), stays
below the budget and one answer per slot (`Present`); there are never more calls
than slots (`FewCalls`).  A day or month that is over can still get calls that
were prepared before its end and that the guard checked against the next one
(`Prepared`), once more as many (`Past`), so that a run can add two calls to it;
and no call is of a day or month to come (`NotYet`).

*Rate.*  The limiter counts in one fixed window per key, and `RateKept` speaks of
any span of that length.  The invariant says of an open window that it counted
whatever was admitted since it began, that its first admission is not forgotten
yet, and that less than a full limit is left of the window before
(`CountedSince`): that one was full at most, and its first admission, older by a
window than the present one, is forgotten.  Without an open window less than a limit is
left, all of it before now (`Closed`).  Windows end in the order they began and
a key has one (`WindowsOK`), so expiring from the front removes every window
that is over; and at the cap a new key is refused, while an open window put
aside for it would let its client begin from nothing.

*Hosted storage.*  The name of the database never names a part of the seed,
because a temporary copy is linked only when it is whole; a start refuses
without a fault of its own only when an earlier one ended halfway (`Stages`,
`Files`); and cleanup removes only what the same start published and the
service has not used yet.

The assumptions these proofs use, beyond those named above, are in the modules:
`ImportAssumption`, `ReviewAssumption`, `BackupAssumption`, `ReadingAssumption`,
`LimitAssumption`, `RunAssumption`, `StorageAssumption`, `NumberAssumption` and
`ActionAssumption` say that counts are
natural numbers, limits and lengths of time not 0, and markers no contents;
`NoneAssumption` that `None` is no library, reading, hit, request or state,
the `RowAssumption` of `PageRetrieval` that it is no vector; the one of `Migrations` that
it is no object and that the entries are finitely many, `NullAssumption` that it is no
number and no row (it stands for NULL), `MemoryAssumption` and `LinksAssumption` that it
is no entry, question, content or anchor; `QueryAssumption` that a query read from a URL
is a query.  The
original of a document is one of the files of a backup, and one name for a
backup is always free (`1 \in Backups`).

Only model-checked:

* Liveness: `Settled`, `ReadUpToTheGap` and the fairness of `ImportPromise`
  (`KeepsPromise`), because the prover treats neither fairness nor ENABLED.
* That a search under way is not `None` (a part of `TypeOK`; `Typing` of
  `SearchPage_proofs` leaves it out): no assumption says that `None` is no search,
  and no proof needs it.
* That every set has an order (`Orders`, `Sorted`), so that a search goes on: an
  induction over the set, and ENABLED.  `FindsWhatIsThere` says what a search has
  found when it ends, not that it ends.
* `BasketTypeOK`, which the proof about `EvidenceBasket` does not need.

## 5. Not modelled

`PROJECT.json` lists every component with its status.  Left out of the modelled
ones: the `rmdir` of empty page directories; Office conversion before an import
(external); the text of prompts and answers; the geometry of regions; the
status that notes and links report.  Markdown files are compared with their rows
nowhere in the code, and so not here.  A deletion beside a running import or
reading of the same document is not composed yet.

## 6. Plan

1. The status of notes, the legacy upgrade of backups, exports, questions to the
   model from the search page.

The number of runs is kept small: a new module joins an existing run or takes
the place of a run whose finding is documented above.
