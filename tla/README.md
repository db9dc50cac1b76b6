# Imagina Signatures in TLA+

A verification development for Imagina Signatures, a WordPress plugin with
which a company's employees design e-mail signatures, follow company templates
and deploy the result to Gmail and Outlook. The program is PHP on the server
(`src/`), a React editor (`assets/editor/src/`) and a React admin application
(`assets/admin/src/`). Paths below are relative to the repository.

The modules are checked with TLC on small instances; the theorems in
`EditHistoryProofs`, `SaveEngineProofs`, `PropagationProofs`, `DeliveryProofs`,
`BrowserProofs`, `ServerProofs`, `StoreProofs` and `PluginProofs` are checked with
TLAPS for every value of the constants.

## 1. The system

### Editor (one browser tab)

| component | state | operations | what is hard | what makes it correct |
|---|---|---|---|---|
| Document and history: `stores/schemaStore.ts`, `stores/historyStore.ts` | the document, `hasUserEdited`, the undo and redo stacks, the open edit burst | some thirty mutations, undo, redo, replacing the document | a burst pushes once for many edits; undo and redo do not trim; five ways to replace the document treat the history differently | one line of documents; bounded; no step that would not be saved |
| Save engine: `services/persistence.ts`, `hooks/useAutosave.ts`, `stores/persistenceStore.ts`, `hooks/useLoadSignature.ts` | the row's id, the request in flight, the autosave timer, the 429 pause; dirty / saving / error | autosave, manual save, back arrow, closing the tab, load | every await lets the user, the timers and other answers in; lost answers; 429; the server stores a cleaned copy | no work lost silently; no duplicate rows; autosave rests |
| Detach: `services/templateLink.ts` | the link of the row | flush, PATCH, take over the answer | uploads that finish under the dialog; a flush that fails | nothing lost |
| REST client: `bridge/apiClient.ts`, `assets/shared/restNonce.ts` | the nonce and its refresh in flight | call, retry once after a nonce failure | calls that fail together | one refresh, one retry each |
| Tree, columns, locks: `core/schema/`, `stores/linkStore.ts`, `hooks/useDragAndDrop.ts` | (inside the document) | move, copy, paste, resize, delete | depth limit and locks against every structural action; widths that must sum to 100 | no lost or doubled block, no locked block moved |
| Background uploads: `editor/BackgroundAssetSync.tsx`, `services/uploads.ts` | a busy flag, failures by content | upload, derived write | edits during the upload | the address belongs to the content |
| Compiler, previews, panels, rich text, translations | none that matters | pure functions and views | text | not modelled |

### Server

| component | state | operations | what is hard | what makes it correct |
|---|---|---|---|---|
| Signatures: `Services/SignatureService.php`, `Repositories/SignatureRepository.php` | the table of signatures | create, update, duplicate, delete, make primary | two tabs, the link rules, read-after-write | the owner's last save wins, the template's design is enforced |
| Template propagation: `Services/TemplatePropagator.php` | the progress option, cron events | propagate, one batch, on deletion | runs across requests, updates between and inside batches, batches that die | every linked signature gets the last design; texts of employees stay |
| Link rules: `Services/TemplateLink.php` | none | refresh, enforce, detach | which side each field comes from | the design is the template's, the rest the employee's |
| Stale HTML: `Services/StaleHtmlMarker.php`, `Services/RenderInputs.php`, admin `pages/team/recompile.ts` | compiled_at, updated_at, the inputs hash | mark, recompile, store | one-second times, conflicts | HTML called fresh is fresh |
| Assignment: `Services/TemplateAssignmentService.php` | none (an offset travels with the client) | assign a chunk | a list resolved again per chunk | everyone once |
| Invitations: `Deployment/Install/` | the job, the lock, the log | start, cancel, run a batch | cancel and crash between mail and save, stale locks | nobody mailed twice, a cancel stops the run |
| Gmail: `Deployment/Gmail/` | the pass with its cursor, retries, the hash last pushed | push, retry, daily pass, stop | pushes out of order, a pass over hours | the mailbox gets the last signature |
| Outlook: `assets/outlook/launchevent.js`, `Deployment/Outlook*` | the cached copy of the browser, a handler for each event | insert on a new message or meeting | events and accounts at once share the copy; a site, a body, a storage that never answers | every event completed, once; nothing older than promised inserted |
| Install page, manifests | none | generated pages and files | text | not modelled |
| Uploads and storage: `Api/Controllers/UploadController.php`, `Storage/` | pending uploads, assets | init, upload, finalize | finalize twice, quota | each upload one asset, under the quota |
| Rate limits: `Security/RateLimitStore.php` | counters by window | hit | concurrent hits at a window's boundary; a hit falls from one place that counts to the next | the limit, once for each place that counts |
| Set-up: `Core/Plugin.php`, `Core/Installer.php`, `Setup/` | versions, lock, back-off, the default templates and the hashes of what was seeded | upgrade, seed | any request may upgrade, two may at once, one may die or throw; administrators edit the templates | a recorded release is installed, edits stay |
| Privacy: `Privacy/UserDataManager.php` | none (a page travels with WordPress) | export, erase, purge, reassign | pages over rows that come and go, rows that refuse to go | all of the user's data; the deletion ends |
| Directory: `Directory/` | groups, memberships, profiles | edit a group, its members, a profile; import in chunks | hooks after the writes, two requests at once, a request that dies | whoever is concerned is marked |
| Settings, encryption | options | read, write whole | little concurrency | not modelled |

How they interact: the editor's stores are read by the save engine, which calls
the REST API; a save of a row that follows a template passes the link rules; a
save of a template starts the propagation, in the request or through wp-cron;
both write the same rows of the table of signatures. A row whose design was
rewritten by the server is recompiled by some browser later and then deployed.

`PROJECT.json` lists every component with its status, and under `hazards` what
can go wrong at which line, with the properties that would show it. Hazards that the
bounds, circumstances or exemptions of the runs exclude have no property there, and a note
why: a batch against an employee's save, an invitation runner that is alive and overdue, two
pushes of one user, the bound on a push's retries, two finalize calls of one key, and an upload
timer that is dropped.

## 2. What is modelled

### Document and history: `Timeline`, `EditHistory`, `EditHistoryProofs`

`EditHistory` has the document (`schema`), the autosave gate (`hasUserEdited`),
the two stacks (`past`, `future`) and the key of the open edit burst (`burst`).
A document is an element of `Docs`: where a block sits is the matter of another
module. Every mutation of `schemaStore.ts` falls into one of these actions by
what it does to the history:

* `StructuralEdit`: `pushSnapshot()`, then the change (add, insert, delete,
  move, duplicate, paste, columns, layouts, removing or renaming a variable);
* `PropertyEdit`: `pushCoalescedSnapshot(key)`, then the change (block fields,
  canvas, variables, widths, column settings);
* `DerivedWrite`: `updateBlock(..., { history: false })`;
* `SetSchema`, `ReplaceSchema`, `Adopt`, `Undo`, `Redo`: the ways to put another
  document on the canvas, each with its own treatment of stacks, burst and gate.

A mutation that is refused returns before it writes: a stuttering step. The
clock is the action `Pause`: a burst older than `HISTORY_COALESCE_MS` acts as
none at all, so the only thing time can do is close it.

`Timeline` is the abstract promise: one line of documents and a cursor.
`EditHistory` implements it with `line <- past \o <<schema>> \o future`, checked
by TLC and proved.

### Save engine: `SaveEngine`, `SaveEngineProofs`

One tab and the row it edits. An action is one JavaScript task, that is, what
runs between two returns to the event loop, with the React effects it flushes:
a click, a timer, an answer with the continuation of everyone who awaited it
(`Settled` says that continuations run before any other task). The server is
modelled as the editor sees it: it stores (a cleaned copy, perhaps), refuses, or
answers 429; the network may lose the request or its answer, and a request given
up by the browser may still be run later. A document is its version and its
kind (empty, stored as it is, cleaned by the server, unreadable); name and
status are one more version number.

Correspondence: `RunSave` is `runSave()` up to its await and `Saved`,
`SaveLimited`, `SaveRefused`, `SaveLost` are what follows; `SaveNow` is
`saveNow()`; `Watch` is the effect of `useAutosave`; `Warns` the `beforeunload`
handler; `LoadSucceeds`, `LoadNotFound`, `LoadFails` are `useLoadSignature`;
`DetachStarts`, `DetachSends`, `Detached`, `DetachFails` are
`detachFromTemplate()` cut at its awaits.

`Events` names what may happen in a run, so that a run can say under which
circumstances a property holds: `early` (acting before the row has loaded),
`loadError`, `overlap` (changing something during a save), `assets`, `loss`,
`straggler`, `refuse`, `limit`, `detach`.

### Propagation: `TemplatePropagation`, `PropagationProofs`

A worker is a PHP process serving one request; a step is one database statement,
or several reads in a row. `Propagate` is `propagate()` up to its
`save_progress()`, `ScheduleNext` the `schedule_next()` after it (and after a full batch),
`CronFires` wp-cron taking an event off its list and calling `run_batch()`, `BatchReads` the
template and the `SELECT` of the batch, `RefreshRow` one turn of the loop
(`refresh_signature()`), `EndBatch` the `save_progress()` or `finish()` at the end of
`run_batch()`, `RequestDies` the end of the process between two statements of a request (`broken` remembers where, until the
template is saved again). What a request has read from the options table stays
in its object cache (`worker[w].all`): `save_progress()` writes the progress of
every template back from there. Deleting a template is its row
(`DeleteTemplate`), then `on_template_deleted()` in three (`DetachAll`, `ForgetRun`,
`ClearEvent`). An employee's save is a read (`SaveReads`) and a write
(`SaveWrites`). `Duplicate` inserts a copy under the next free id, which a run has not
reached, with the design its source has at that moment; `DeleteSignature` takes a row
away that a batch may have read. Templates are in one of the enforced modes, where a linked
signature is stored with the template's design whatever is sent.

### Texts of a linked signature: `LinkRules`, `BrowserProofs`

What `TemplatePropagation` leaves out: the overrides. One template with its mode,
texts and locks, one signature, and the tabs in which its employee has it open.
`TypeText` is `updateBlock()` with `recordOverride()`, `SaveLinked` a PATCH with
`enforce_link_rules()`, `Enforce`, `Candidate`, `RefreshFrom` and
`ApplicableOverrides` the methods of `TemplateLink.php`, `SaveTemplate` an update
of the template with `refresh_signature()`. `ownWords` is a history variable: the
texts the employee typed that the signature should still show. A tab keeps the
mode and the document of its last load or save; `StaleTexts` says whether it may
save while it shows a text of an older template that its employee never touched.

### Compiled HTML and Gmail: `CompiledHtml`, `GmailPush`, `MCDelivery`, `DeliveryProofs`

`CompiledHtml` has the signatures of one user: design, compiled HTML, `compiled_at`
and `updated_at` in seconds. HTML is the pair of the design and the state of the
inputs (profile, groups, brand kit, campaigns) it was compiled from. A save is cut
where `SignatureService::update()` is: `SaveChecks` compares the fingerprint of the
inputs, `SaveWrites` writes; `StoreChecks` and `StoreWrites` are the same for
`store_html()`. `ChangeInputs`, `Mark`, `DayTurns` and `CheckWindow` are
`StaleHtmlMarker`. The loop of `recompile.ts` is cut at its awaits: `ListStale`,
`LoadContext`, `Recompile`, `StoreChecks`, `Conflict`, `PageDone`. `Rewrite` is every
write without HTML, by the propagation for one. `SameSecond` and `Overlap` say
whether two writes may share a second and whether requests interleave between a
check and its write.

`GmailPush` extends it: `OnPrimaryHtmlChanged` is the hook with which the signature
service announces new HTML, and is a part of the action that stores it;
`EventFires`, `DailyFires` and `AdminPushes` begin a push (`Reads`), `Pushed` and
`Failed` end it. The daily pass is here what `GmailSync` shows it to be: it comes
again and again.

### Parts that share nothing: `Plugin` and its fourteen modules

Fourteen parts keep state that no other part reads. `Plugin` is their sum: `part` says
which of them a behaviour is of, the others stand still. It stands for the product,
as no property relates two of them, without the product's states. Each part has a
specification of its own, such as `InvitationSpec`, which the theorems are about:
`BrowserProofs` of the six that run in a browser or speak of what it shows, `ServerProofs`
of five that processes of the server share, `StoreProofs` of three that keep the database
and the object store. `PluginProofs` carries them over to `Plugin`.

* `InvitationQueue`: the job, its lock, the cron events, processes (`runner`) cut at
  every read and write of an option and at the e-mail; `Poll` is the progress
  request with `ensure_scheduled()`; cancel, reminders, confirmations; processes die.
* `GmailSync`: the daily pass with its cursor over the owners in pages, in two
  processes; the settings that start and stop it; batches that die.
* `Uploads`: init, the browser's PUT, finalize, direct upload, deletion. The quota is
  looked at in one step and the row inserted in another.
* `RateLimit`: one bucket. A request works out its window from the clock and records its
  hit later, in the object cache if the site has one (`HitObjectCache`), in the table if the
  cache refuses the increment (`CacheRefuses`) or there is none (`HitDatabase`, with the
  `SELECT` of a new row as `ReadBack`), and in a transient if the table is not there or its
  query fails (`TableFails`, `ReadTransient`, `WriteTransient`). Each keeps its own count of
  the window (`byCache`, `byTable`, `byTransient` are what they let through), and each call
  falls or not on its own.
* `TemplateAssignment`: the dialog's chunks, a list resolved again by each request,
  answers that are lost, requests that die. A member is come to in two steps, the lookup of
  their signature (`LookUp`) and the update or creation (`Assign`); `lookup` follows what
  becomes of the row that was found, as people create, delete and detach between the two.
* `LinkRules`: above.
* `DocumentTree`: where every block is, against the depth limit and the locks. Not a
  recursive tree: `Around(b)` walks up `place`, at most `MaxNesting` rounds.
* `ColumnLayout`: the columns of one container, as the sequence of their widths and
  children: `NormalizeWidths`, `ResizeColumn`, and the four operations that change
  the number of columns, the migration of stored containers included.
* `RestNonce`: the nonce of a tab, the refresh its calls share, the retry.
* `AssetSync`: the uploads of the selected block's panel and of the background run.
* `Upgrade`: `maybe_upgrade()` cut at its reads and writes of options (`Notices`,
  `Locks`, `LooksAtLock`, `TakesOver`, `Throws`, `Unlocks`), `migrate()`
  (`ReadsSchema`, `MigratesUp`, `StampsSchema`), `seed()` template by template
  (`StartsSeeding`, `FindsRow`, `StoresRow`, `SavesHashes`) and the version stamp at the
  end of `install()`. Releases are numbers; a template's design is the release that
  shipped it, or an administrator's. Release 1 stands for those that kept no hashes.
* `OutlookLaunch`: the handlers of the add-in, several at a time, cut where they wait:
  for the storage (`ReadsCopy`), the site (`SiteAnswers`), the body (`AnswerArrives`) and
  Outlook (`Applied`). `Usable` is `usable()` with its two ages, `FetchFails` every way to
  fall back on the copy, `SafetyFires` the timer that completes the event whatever hangs.
* `UserData`: `export()` and `erase()` a page for each request, `purge_user()` cut at its
  reads of a batch, `on_delete_user()` with a reassignment, while the user creates and
  deletes. Rows in `stubborn` are those a `DELETE` leaves behind.
* `Directory`: groups, memberships and profiles, and the hooks that mark compiled HTML.
  `set_members()` is cut at each write, the row of an import at the profile, its hook,
  `resolve_group()`, `create()` and `add_member()`; the deletion of a group between
  `pre_delete_term` (`DeletesGroup`) and the deletion (`DropsGroup`). `InputsOf` is what
  `RenderInputs` would say of a user, which `CompiledHtml` has as a number. `CreatesGroup` is
  the import's creation of a group. The console's, with a footer override, is left out:
  `Groups::create()` stores the override after `wp_insert_term()`, whose hook marks nobody
  (`StaleHtmlMarker.php:250`), and the new group has no members yet.

## 3. The runs

| run | instance | what it shows |
|---|---|---|
| `edit_history` | 3 documents, 2 edit targets, `MaxDepth` 3 | types; the cap holds for both stacks together; a burst hides no redo and lacks no undo; no undo step while the gate is closed; the timeline is implemented |
| `save_patient` | a user who waits; lost answers, refusals, 429, sanitising, detach | nothing lost silently, "Saved" means that the screen shows the row, every edit settles, autosave rests |
| `save_overlap` | everything at once, 2 changes, 1 loss, 1 limit | one save awaited at a time, no duplicate row but one per lost answer, no edit taken off the screen by a save's answer |
| `save_joined` (violation) | an edit during a save | an edit is lost without a warning |
| `save_early` (violation) | acting before the load | the blank canvas overwrites the row |
| `propagation` | 3 signatures, of which one may be inserted later as a copy, batches of 2, 1 template, 3 versions, a request that dies; one request at a time | the progress is true, deletion leaves nothing, what is the employee's stays, the last design arrives, also at copies, runs end |
| `propagation_restart` (violation) | two processes | an older batch undoes the restart |
| `delivery` | 2 signatures, 2 designs, 2 states of the inputs, pages of 1, 3 acts of people, 1 failure of Gmail | fresh HTML is true, a recompilation pass leaves nothing stale, the record states what the mailbox has, the mailbox catches up |
| `html_race` (violation) | writes in one second, or between a check and its write | fresh HTML that is not |
| `plugin` | the fourteen parts, each in every interleaving of its own processes | types, and no event of Outlook completed twice; nobody forgotten or mailed twice; what has begun ends (invitation jobs, upgrades, the daily pass once it is off, Outlook's events, the deletion of a user); the daily pass reaches everyone; a recorded release is installed and upgrades keep edits; every asset row has its object, the quota's overshoot is bounded; a window lets through its limit once for each place that counts; members are assigned once, but for what they made themselves; locked blocks stay; blocks keep their order when columns go; overrides are the employee's; a signature inserted by Outlook is recent; exports and erasures hold all of the user's data; changes of groups and profiles reach the HTML; no call refused for want of a nonce; no file forgotten |
| `stale_editor` (violation) | the same with `StaleTexts` | a tab older than the template turns the old template's texts into overrides |
| `invitation_cancel` (violation) | the same without deaths | a cancel between two steps of a batch is overwritten |

The findings in `PROJECT.json` quote the lines of the repository the violations
disagree with.

Bounds. `MaxDepth` 3 lets the history fill, be trimmed and be divided between
the stacks in every way; a third document tells an amended canvas from the two
neighbours. Two changes and the retry of the first, with one lost answer and one
429, contain every pair of tasks that can meet at an await: only one request of
the engine and one of the detach are ever awaited. Three rows and batches of two
give a full batch followed by a partial one, and, when one row is detached, a
run inside the request or a full batch followed by an empty one; three versions
let an update fall between two batches of a run and another one after it. Two
signatures of a user and pages of one give a pass of two pages, and a primary
signature that changes. Two people in batches of one make an invitation job go on
in a second event; two processes, one death and one confirmation give every pair of
lock, e-mail and save. Three owners, pages of two and one push a batch end a batch
both ways. Four blocks fill the deepest nesting with a block beside it; one locked
block suffices since locks are looked up block by block; the same holds of one text
block in `LinkRules`, with two tabs. Widths sum to 12 with a minimum of 2 instead of
100 and 10: with the raw widths 0, 1 and 3 the drift after rounding goes both ways,
columns reach the minimum, and a fifth column is folded. Releases 2 and 3 on a site that
is new, current or at release 1 need every way to tell a row that is pristine; two
templates share the option of hashes, and one that dies leaves a lock which two others
take over. Ticks up to 4 let a nonce
expire twice. Three rows and pages of two give a full page, a page that is not full and,
with one row more, two full ones. Two accounts, three events of which two overlap, and ages
of one and two hours let a copy be usable for neither, one or both. Two users, two groups of
which one is created or not, two requests and a death give each pair of a change and a hook. Three users in chunks of two give a last chunk that is not full,
and one act of a member falls before, between and after a lookup and its write. Two callers with
four calls between them and a limit of one meet in every place that counts, fall to the next alone or together, and hit a
window that is over (`MaxWindow` 1: the present one and the one before).
Constants named `Max...` that no comment maps to a constant of the code only cut the
environment short: what people, the clock and failures may do, never what the
program does. Deadlock is checked in `edit_history` only: elsewhere the system may
stop when the tab is closed or nobody has anything left to do.

Fairness. In `SaveEngine`: timers fire, a pause runs out, the server answers
or the connection drops, an answer that has arrived is handled, an awaiting
function goes on. JavaScript and `fetch()` give that; nothing obliges the user
to do anything. In `TemplatePropagation`: a request that has started goes on (or
dies, `RequestDies`), and a due cron event is run in the end even if other
requests keep taking the worker (strong fairness: wp-cron is triggered by
page loads and finds the event overdue at each). In `GmailPush`: the change of
inputs is followed by its marking, the daily look at campaigns and the daily pass
come, a due event fires, Gmail answers, and the loop in the administrator's browser
goes on while its page is open. In `Plugin`: due cron events fire, processes go on
unless they die, a lock left behind ages, the daily hook comes every day, and
somebody looks at the progress of the invitations (`Poll`): after the death of a
process it is that request which puts the chain together again, and the code has no
other way. Requests of people who are logged in keep coming (`Notices`), the hour of
back-off and the ten minutes of the upgrade's lock pass. The safety timer of an event of
Outlook fires, and the request that deletes a user goes on. Uploads, limits, assignment, the tree, columns, texts, the nonce and the
hosted files have safety properties only and no fairness.

Assumptions that a reader might question. In `save_patient` a change never
overlaps a save; that is the scope of `NoSilentLoss`, and `save_joined` shows that
it is needed. `EveryEditSettles` speaks of edits that a timer or a save in flight
still follows: after a failed save, renaming the signature hides the error and
schedules nothing, and the edit waits, marked as unsaved. In `propagation`
requests do not overlap (`propagation_restart` shows why); in `delivery` a request's
check and write are one step and no two writes share a second (`html_race`). In
`plugin`, a tab saves only while the template's texts it shows are current
(`stale_editor`). A batch of invitations that takes longer than `LOCK_TTL` is not
modelled; a lock is taken over only from a process that died. Requests are shorter
than half the life of a nonce. An upgrade that is alive ends within the ten minutes of its
lock, and a release is deployed only after the last one was installed. An assignment given up by the browser has ended
before it is submitted again, by one dialog at a time, and `MembersAssigned` speaks of groups
that stay the same when it says that everyone is come to. The object cache keeps a counter
until its window is over, and `LimitHolds` says nothing of what a transient lets through once
one request reads it between another's read and write: that count is a read and a write in
the code, a fallback for want of the table. In `GmailPush` one push of a user is under way at a
time. In `delivery` a failing push leaves the mailbox alone (`Partial = FALSE`). No hour passes
while a handler of Outlook is at work, which its timeouts keep to seconds. One request of an
export is one step, no two signatures of a user share `created_at`, and one tool of
WordPress is at work on a user at a time. In `propagation` there is one template, since a
request writes the progress of another back only when two overlap (`propagation_restart`
has two). In `Directory`, nobody's signature is recompiled between the hook of a group's
deletion and the deletion (`RacedDeletion = FALSE`), and what a dead request has left
unannounced (`untold`) is not asked for.

Met while modelling, without a run of its own:

* A push that changes the primary address and fails on an alias records an error; a
  later run that is skipped (needs_recompile) clears the error, and the recorded hash
  is no longer the mailbox's, although `GmailPusher.php:33-34` wants them always
  comparable (`Partial = TRUE` breaks `RecordMatchesMailbox`).
* Recompiling to the same hash announces nothing, so a push skipped as
  needs_recompile waits for the daily pass; without the daily pass it waits for the
  next change. A new implicit primary signature announces nothing either. The count of
  retries outlives a push. A campaign window that closes and reopens between two daily
  looks goes unnoticed.
* A detach's answer replaces a derived write that landed while it travelled
  (`templateLink.ts:62`); the background sync uploads that file again. A batch of the
  propagation that overlaps an employee's save puts the save back.
* The last save of several tabs wins: a tab that never saw the words of another drops
  them. In the free mode a tab older than the template stores the old design as sent.
* A container without a lock that holds a locked block can be duplicated with it,
  although `locks.ts` says of locked blocks that employees cannot duplicate them.
* Migration: a stored container whose widths sum to 100 with one below the minimum is
  rewritten by PHP and left alone by the client's `blocksNeedMigration()`.
* A background upload timer that finds the run busy returns and is not set again; a
  run that failed changes nothing in the document, so nothing schedules it again until
  the next edit, although the warning of the export says "it is being re-uploaded"
  (`qr-code/definition.tsx:484`).
* Invitations: with an abandoned lock two processes may both take over, one then
  releases the other's lock, and a person may be mailed more than once (the property
  speaks of runs without deaths). Switching Gmail off during a batch lets the pass run
  to its end.
* Uploads: two finalize calls of one key at once would insert twice.
* Rate limits: a window may let through its limit in each of the places that count, since a
  hit the cache refuses begins the count of the table, and one the table fails on that of the
  transient; a hit recorded after its window was over restarts the row's count. `LimitHolds`
  says by how much. `RateLimitStore.php:327-329` says that reading a new row back can only
  over-count: true of a `SELECT` that succeeds; one that fails counts as the first hit, which
  it was.
* Propagation: a request that dies between storing the progress and scheduling the event (time limit,
  deploy) leaves a run that is queued or running for ever, until the template is saved again:
  nothing looks for runs without an event. `RunsEnd` and `DesignArrives` name the case. A
  deletion that dies after `update_option()` leaves the event of the deleted template, whose
  batch then stores its progress again, as done.
* Assignment: a member who creates a signature from the template between the lookup of an
  assignment and its write has it twice (`MembersAssigned` counts these, `onTop`).
* Set-up: `dbDelta()` raises no exception, so a statement that fails leaves
  `imgsig_schema_version` ahead of the tables, although `SchemaMigrator.php:62-64` speaks
  of a try/catch that the class does not have. When a release overtakes the retry of an
  upgrade that died between the rows and the hashes, the row of the release between them
  counts as edited from then on; so does a row whose edit an upgrade has overwritten when
  it dies before it stores the hashes (`overwritten`). A refresh writes name, category and
  description as well: only the design is compared, and a name that an administrator gave
  to an unchanged design is replaced.
* A request given up by the browser may still be run by the server after a later one of
  the same tab; `save_overlap` shows which guarantees survive such requests.
* Outlook: a 404 leaves the cached copy where it is (`launchevent.js:306-313`), so a signature
  withdrawn on the site can come back for up to seven days whenever the site is down.
* Privacy: `erase()` takes the first page again and again; a full page of rows that refuse
  to go makes it ask for another request for ever, while `purge_user()` has a guard, which in
  turn leaves the rows after a refusing first one. An export during which signatures are
  deleted may skip a page of assets, although `UserDataManager.php:28-29` speaks of every
  one.
* Import of profiles: `ProfileImporter.php:31-32` says that a dry run counts the same, but an
  e-mail in two rows counts as created twice there and once in the real run.
* Directory: a signature recompiled between `pre_delete_term` and the deletion of its group
  is fresh with the footer of a group that is gone (`RacedDeletion = TRUE` breaks
  `ChangesReachHtml`). Repeating a request that died between a write and its hook does not
  announce the change, as `set_members()` and `ProfileFields::save()` then find none. Of two
  imports that create one group, the row of the later one goes without it, and no list of
  the result says so (`ProfileImporter.php:356-360`).
* The comment of the status list (`Topbar.tsx:405-406`) says that it asks the engine
  to schedule a save, and the code only marks the document dirty; `isSaving` stays set
  during a 429 pause; the Save button reports "Saved" when the save was paused.

## 4. What is proved

`EditHistoryProofs` proves, for every set of documents and of edit targets and
every `MaxDepth` of at least two (`HistoryAssumption`: `slice(-(MAX_DEPTH - 1))`
keeps everything when the argument is zero):

* `HistoryInvariant`: the inductive invariant. It joins the types, the cap
  `Len(past) + Len(future) <= MaxDepth`, and the two facts about bursts and the
  one about the gate. The cap alone is inductive only for the sum: undo and redo
  move a snapshot from one stack to the other, and a push trims `past` to
  `MaxDepth - 1` and empties `future`. The facts about bursts need one another:
  a property edit inside a burst pushes nothing and opens the gate, which keeps
  `StepsAreSaved` only because the burst has no redo.
* `HistoryTypeCorrect`, `HistoryIsBounded`, `BurstsAreSound`, `UndoIsSaved`: its
  consequences, which the run `edit_history` checks on the instance.
* `HistoryImplementsTimeline`: the refinement. `LineProperties` says where each
  element of `past \o <<schema>> \o future` comes from; `PushCommits`,
  `ClearRestarts`, `StillStacksAmend`, `UndoMovesBack` and `RedoMovesForward` map
  the five things a step does to the stacks to the five abstract actions;
  `StepMovesLine` puts them together.

`SaveEngineProofs` proves of a tab and its row:

* `TypesHold`, `OneSave`, `OneRow`, `ScreenKeepsEdits`: `SaveEngineTypeOK`,
  `OneSaveAtATime`, `NoDuplicateRows` and `EditsStayOnScreen`, whatever happens and
  however often. `OneSaveAtATime` is inductive only together with what `saving` and
  `detach` say of the requests under way (`OneAwaited`). `NoDuplicateRows` counts rows,
  and a row is made by a request that is on its way; `Owed` therefore counts both, the
  rows made and the posts not answered, against the lost answers and one more for a
  tab that knows of no row yet and has nothing that could tell it.
* `NothingLost`, `ScreenIsTrue`: `NoSilentLoss` and `ScreenShowsRow`, from the assumption
  `Patient`: nothing is done before the row has loaded, nothing is changed during a
  save, no lost request is run later, and no document that was opened is unreadable.
  The runs `save_joined` and `save_early` show that it is needed. The invariant (`Orderly`,
  `StatusIsTrue`) says that what is under way is what the canvas shows (`CarriesCanvas`),
  before and after the server has cleaned it, and that `isDirty` and `lastError` say
  whether the row has it.

`PropagationProofs` proves of the propagation, with any number of templates, signatures,
versions and processes:

* `TypesHold`: `PropagationTypeOK`, whatever overlaps and wherever requests die.
* `ProgressTrue`, `NothingLeft`, `OwnWork`: `ProgressIsTrue`, `NothingLeftBehind` and
  `OwnWorkStays`, from the assumption `~Overlap` that requests come one after the other
  (`propagation_restart` shows that it is needed). The invariant `OneByOne` has five parts.
  With one request at a time (`OneAtATime`), what it has read is still so
  (`ReadIsCurrent`); ids are given in order, so that no copy is inserted where a cursor has
  passed (`FreeAtTheEnd`); a deleted template is gone, on its way out, or its deletion
  died (`DeletionEnds`); and the linked rows up to the cursor, or to where the batch is,
  have the announced design, a batch that is not full being all there is to come (`RunIsTrue`).

`DeliveryProofs` proves of the compiled HTML and of Gmail:

* `TypesHold`: `DeliveryTypeOK`.
* `FreshIsTrue`: `FreshHtmlIsTrue`, from the assumption `OneByOne`: no two writes share a
  second and no request comes between the check and the write of another (`html_race`
  shows that it is needed). To be inductive it says as well that what an editor or the
  recompilation is about to store belongs to the design of its row, if the row has not
  changed since (`TrueWhenStored`), and that no row is newer than the clock.
* `RecordIsTrue`: `RecordMatchesMailbox`, from the assumption `~Partial` (a push that fails
  has changed nothing), in whatever order saves, events, the daily pass and an administrator
  push; pushes of one user come one after the other in the model. The invariant is that the record
  equals the mailbox even when an error stands in it.

`BrowserProofs` proves of six parts of the editor and the mail client:

* `RetriesAreTaken` (`RestNonce`): `NoNeedlessRefusal` for every set of calls. The
  invariant `NonceInv` is how old the nonces under way can be (`Oldest`): the one the shared
  refresh brings, the one a repeated call carries, and the one that has replaced what an
  open call was sent with; the server takes a nonce in its own tick and in the next.
* `NoFileLost` (`AssetSync`): `NoFileForgotten`. The property speaks of a sync at rest; the
  invariant `FilesInv` of every moment: a file that is behind is waited for by the
  timer, in the run, failed, or the timer was dropped.
* `InsertsRecent` (`OutlookLaunch`): `SignatureIsRecent`. The invariant `CopiesInv` says of
  the cached copy, and of the copy each handler has read, that the signature was its
  mailbox's when it came and ended no earlier if it is that no longer (`Dated`), and that
  an answer under way has been overtaken within this hour at most.
* `LinkTypesHold`, `OverridesStayOwn` (`LinkRules`): the types whatever tabs save, and
  `OverridesAreOwn` for every set of blocks, words and tabs, from the assumption
  `~StaleTexts` (`stale_editor` shows that it is needed). `LinkInv` adds what the open tabs
  have to do with it (`TabsKnowOwn`): what a tab knows as the employee's is what its document
  lists as overrides, and what it shows. Without the tabs the property is not inductive, as
  a save stores what the tab shows.
* `TreeInvariant`, `TreeTypesHold` (`DocumentTree`): the blocks stay a forest of bounded depth.
  `DocumentTreeTypeOK` says so by walking up `place` (`Around`, `Depth`), which a step at the top
  of a subtree changes for everything below it. The invariant `TreeInv` has instead a level for
  every block (`Levels`), one more than that of its container: a step has only to say what the
  levels become. That the walk agrees with the levels and ends within `MaxNesting` rounds
  is proved once, and so is what a copied subtree looks like: its copies hang from one
  another as the originals do, under ids that are new.
* `LockedBlocksStay` (`DocumentTree`): `LockedStay`. Of two blocks around a third one is around
  the other, so that what is in a locked block is covered by its lock; what is deleted,
  moved or merged then neither is locked nor comes from or to such a list.
* `ColumnTypesHold`, `OrderKept` (`ColumnLayout`): `ColumnLayoutTypeOK` and `ReadingOrderKept` for
  every number of blocks and columns and all widths. The invariant `ColumnsInv` is that the
  widths fill the container, each wide enough, and that the reading order lists every block
  once (`Listed`). For the widths: each round of `normalizeWidths()` moves the sum by one point
  and finds a width that can give, because `MinWidth * MostColumns <= FullWidth` (`PointOf`), so
  the rounds end at the full width (`NormalizedOf`); `resizeColumn()` takes from the others
  what one gains. For the order: joining two columns (`JoinKeeps`), folding those beyond the
  limit (`FoldedKeeps`) and adding empty ones (`ExtendedKeeps`) leave the joined list as it is,
  while a move takes one block out of it and puts it back.

`ServerProofs` proves of five parts of the server:

* `MailedOnce` (`InvitationQueue`): `EachMailedOnce` for any number of processes, jobs,
  deaths and people. Its first half, a job that is done has come to those it is for and
  nobody else, holds even when processes die; it needs that every record, saved or loaded
  by a process, is sound (`RecordsAreSound`). The second, nobody twice, rests on the lock
  (`LockExcludes`) and on who is pending not having been come to, in the loaded record as in
  the option (`PendingIsUnhandled`): both hold while no process has died.
* `LimitIsKept` (`RateLimit`): `LimitHolds` for every limit and every finite set of callers.
  It is not inductive: the row of the table forgets a window when a hit of another one
  arrives, and only a late hit can bring back one that is over. `LimitInv` has, of the present
  window, how what each place let through, its count and the late hits bound one another:
  each late hit is one of the row's or one of the transient's (`LateAreShared`); a call whose
  new row has yet to be read back is owed to it (`OwedTo`); and a hit comes to a place only
  because it fell there (`Routes`), so that the places add up to the falls (`PresentWindow`).
* `EveryMemberAssigned` (`TemplateAssignment`): `MembersAssigned`. While the group stays the
  same, the chunks so far have come to the members before the offset (`ChunksFollow`); that
  the last chunk leaves nobody rests on `PlacesBelow`, which bounds a member's place in the
  list by their number. That nobody has more than one, but for their own, needs that a lookup
  which found nothing leaves room for the one it will create (`LookupIsSound`).
* `DirectoryTypesHold`, `ChangesReach` (`Directory`): the types, with which nobody belongs
  to a group that is gone, and `ChangesReachHtml`, from the assumption `~RacedDeletion` (see
  "Met while modelling"). The types say what each process has to tell at each of its steps
  (`WorkIsSound`); for a deletion, that the members of the group are marked already or
  about to be (`DeletedAreMarked`).
* `SyncTypesHold`, `SyncLeavesOutNobody` (`GmailSync`): the types, and the safety half of "the
  pass reaches everyone": whatever batches die, overlap or are stopped, one that ends the
  pass has no owner after its cursor. A batch at work leaves nobody out between its cursor
  and its page, and if anybody is left after the page, the page was full (`SkipsNobody`);
  that the page of `owner_ids_after()` is like that for every set of ids is `PageOf`.

`StoreProofs` proves of three parts that keep the database and the object store:

* `UpgradeIsSafe` (`Upgrade`): `UpgradesAreSafe`, that is, `VersionIsEarned` and
  `EditsOutlive`, for any number of requests, releases and templates. `VersionIsEarned` says
  something only once a version is recorded; `UpgradeInv` says what each request on its
  way there has earned: the migrations before the one it is at (`Ran`), and of each
  template what its row, its recorded hash and what the request has read can be of
  (`HashFits`, `SeenFits`), so that the templates it has come past are finished (`Knows`).
* `AllIsHandled` (`UserData`): `AllOfTheUser` for any number of rows and every size of a page.
  `ExportCovers` says what an export holds between two pages: the rows whose place is below
  what the pages so far come to. New rows come after the others and change no place, and a
  page that is not full is the last (`ShortPageEnds`). For the erasure and the deletion of the user, a batch
  that is not full has all that is left (`BatchTakesAll`), and a batch that begins with the
  same row as the one before proves that a row refuses to go (`PreviousIsGone`).
* `AssetsAreAccountedFor` (`Uploads`): `AssetsAccountedFor` for every quota. The half about
  rows needs that no two requests are about one key (`OneKeyEach`) and that the record of an
  upload with a row is gone, or about to be removed by the request that made the row
  (`RowsAreSound`): else a second finalize would make another. The half about the quota
  counts, beside the sum, what requests between their check and their insert may still
  bring: the last of them to pass saw the sum before it, each of the others brings at most
  `MaxSize` (`QuotaIsKept`). The sum itself is a fold of the community modules; `UsedIsASum`
  and `UsedMoves` prove what it is and how a change of one row moves it.

`PluginProofs` proves of the sum of the parts:

* `PluginTypesHold`: `PluginTypeOK`, from the types in the invariants of the fourteen parts.
* `PartsKeepPromises`, `PartsKeepOverrides`, `PartsReachHtml`: the properties that the run
  `plugin` checks, of `Spec` instead of the parts. A behaviour of the plugin is one of each part:
  every step is one of the part or leaves its variables alone (`PartsMoveAlone`,
  `PartsBehave`). Only the columns may begin as `OneColumn`, which their specification does not
  name; that they satisfy `ColumnsInv` then is `OneColumnInv`.

Inductions over the places of rows, the keys of a sum, the members of a group, the rounds of
a fold and the levels of a tree are written as "the least counterexample" (`LeastOf`,
`SmallestOne`) or over sets of numbers and of elements: the induction theorems of the
library take an operator.

Three things the proofs have changed in the modules. `AssignOne` in `TemplateAssignment` had a
CASE whose guards overlapped: what TLC takes is the first of them, what the formula means
is any. And a request of `SaveEngine` carries as `after` how many answers had been lost when
it was sent: without it, the retry of a lost request was the same element of `net` as the
request itself, and of the two only one could still make a row. `ColumnLayout` sorted the
blocks of a column with an operator of the community modules that takes the order as a
parameter, of which nothing could be proved; `InOrder` says what the order is. And `PutBlock` takes
out one occurrence of the block, as `splice()` does, where it had filtered the list.

Only model-checked:

* Liveness (`EveryEditSettles`, `AutosaveRests`, `DesignArrives`, `RunsEnd`,
  `PassLeavesNothingStale`, `MailboxCatchesUp`, `WorkEnds`, `SyncReachesEveryone`), which is out
  of the prover's reach here.

Every invariant and every action property that a passing run checks has a theorem, some of
them from the assumptions named above (`Patient`, `~Overlap`, `OneByOne`, `~Partial`,
`~StaleTexts`, `~RacedDeletion`), which the constants of the run satisfy.

## 5. Plan

Modelled: everything under section 2; proved: everything under section 4. Still to model: the
make_primary of an assignment, the cancel of a recompilation pass, and the creation of users
by an import. Still to prove: from `SyncLeavesOutNobody` and the fairness of `Plugin`, with
a prover that has ENABLED, that the daily pass reaches everyone.

## 6. Not modelled

* The compiler, previews, exports, generated manifests and pages
  (`core/compiler/`, `Deployment/OutlookManifest.php`, `Install/InstallPage.php`): pure functions
  to text, without state; what matters of the compiler is that its output is a
  function of the design and the inputs, which `CompiledHtml` uses.
* The sanitisers and validators, apart from their idempotence: pure functions over
  HTML and JSON.
* Encryption and the signing of S3 requests: cryptography and library calls.
* Settings, brand kit, the creation of users by an import, what a migration of the database
  does and uninstalling, console queries: each operation reads or writes one thing whole, and what
  the rest of the system sees of a change is an action of `CompiledHtml`
  (`ChangeInputs`) or `TemplateAssignment` (`MoveMember`).
* Panels, pages, onboarding, rich text, translations, icons, build scripts, template
  files: views and assets. They make most of the repository's lines, which is why the
  map covers a small share of them.
