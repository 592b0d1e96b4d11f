# A verification project for treetest

`treetest` is a self-hosted tree-testing server: an owner writes a study (trees, tasks,
variants), publishes an immutable version, opens runs of it, and participants walk through
the trees in their browsers while the server records every move. One Go process serves
everything from one SQLite database; the same binary has the operator's commands (`import`,
`study`, `user`, `purge`, `backup`, ...).

This directory holds TLA+ models of the parts of the program where order, repetition,
concurrency and failure decide whether it is right, the TLC configurations that check them
on small instances, and TLAPS proofs of the most important properties for every size of
instance. `PROJECT.json` maps every definition to the lines it models and lists runs,
mutants, findings, hazards and theorems; this file explains them. Paths below are relative
to the repository root (`internal/server/` unless a directory is given).

## 1. Inventory

### What the models build on

* **One connection, immediate transactions** (`db.go`, `OpenWithOptions`). The server opens
  the database with a single connection, and every handler that changes study data runs in
  one `BEGIN IMMEDIATE` transaction. Such a handler is atomic with respect to every other
  one, and a handler that fails leaves nothing: it is one action, and a refused request is
  no step. The exceptions are where the models have several actions for one operation:
  `createInvitation` (read, then insert), `login` (read, compare, then a transaction),
  `PurgeRun` (transaction, `VACUUM`, checkpoint, update), the selection of runs by the purge
  command, and what a browser does across the `await` of a request or of a publication's
  dialog (the dialogs that stay one step with what they ask for are named under
  `DraftEditing`).
* **In-memory tables under a mutex** (`rateLimiter`, `loginLimiter`). Their critical
  sections are atomic, but both read the clock *before* they lock.
* **Purge processes are separate OS processes** with their own connection.

### Components

| component | state | operations | interacts with | what is hard |
|---|---|---|---|---|
| participant progression (`participant.go`, `events.go`) | `sessions`, `attempts`, `events`, `commands` (receipts), byte counters | start, events, finish, receipt replay | browser by HTTP with retries; run flag `suspended`; rate limiter | repeated, delayed and reordered requests of several pages; receipt expiry and sweep shared by all sessions; limits |
| run lifecycle (`admin.go`, `participant.go` join, `policy.go`) | `runs`, allocation blocks | createRun, updateRun, join | owner, participants, purge | status changes in any order, closure time and retention target, caps, balanced allocation |
| invitations (`invitations.go`) | `invitations` | createInvitation, redemption in join | run lifecycle, purge | insertion after a stale read |
| retention purge (`purge.go`, `cmd/treetest/main.go`) | `purge_pending`, `purged_at`, free pages and log of the files | select, delete, vacuum, checkpoint, mark | run lifecycle; other purges | crash between steps, overlapping purges, stale selection |
| study authoring (`web/assets/admin.js`, `common.js`, `admin.go`, `db.go`, `studies.go`) | the editor of each page; `drafts`, `versions` | open, edit, save, publish, leave; createDraft, getDraft, updateDraft, publish, Import, RemoveStudy | page and server over HTTP with a 20 s timeout | typing during a request, late requests, two editors of one draft |
| rate limiting (`limits.go`) | table of windows | allow, the three quotas | in front of and inside participant handlers | full table, clocks read before the lock, retries |
| administrator authentication (`auth.go`) | `users`, `admin_sessions`, list and map of failed logins | SetUser, login, logout | operator's `user` command while the server runs | account changed during a login, concurrent failures, eviction |
| participant browser client (`web/assets/participant.js`, `core.mjs`) | per page: position, stream, outbox, operation in progress; the journal in `localStorage`, shared by the tabs | startTask, record, flush, finish, retry, reload, storage event | participant progression over a network | lost answers, reloads, second tabs, expired receipts |
| event metrics (`events.go` eventMetricsV1) | the columns `finish` freezes | one pass over a stream | reports | reloads and hidden pages inside a stream |
| reports and exports (`reports.go`) | none | reportRows, summarize, results, eventExport | frozen columns and stored events | frozen and computed values in one table, sessions in every stage |
| study parsing and validation (`internal/study`, `previewTree` of `core.mjs`) | none | ParseTree, Validate, preview | publish, import, editor | two algorithms for one nesting, answers per variant, panels |
| scoring policy (`policy.go`) | constants | resolvePolicy, allocateV1, correct, serverElapsed | createRun, join, finish | - |
| database (`db.go`) | connection, times as text | OpenWithOptions, Import, Backup | all handlers | order of times as text |
| identity key (`identity.go`) | settings rows | initialise, compare | start of the process | - |
| HTTP server, metrics, audit, branding, files | counters, log | routing, logging | all handlers | - |
| command line (`cmd/treetest`) | none | one server function per command; serve | database | purge, see above |

The properties that make each component correct are stated in its module and listed in
section 3; what can go wrong at which line is the list `hazards` of `PROJECT.json`.

## 2. Modules

How the modules build on each other (`->`: is extended by):

    EventStream -> Participation -> ParticipantClient -> MCParticipantClient
    EventStream -> AttemptMetrics \
                   Participation   -> Results -> MCParticipation
                   Timestamps     /
    DraftEditing, StudyBundles -> Publication -> MCDraftEditing
    RunLifecycle -> MCRunLifecycle     RateLimiter -> MCRateLimiter
    AdminAuth -> MCAdminAuth

Two abstract specifications are implemented through `INSTANCE ... WITH`: `AnswerBook` by
`Participation` (`AnswersBooked`) and `AnswerLog` by `ParticipantClient` (`AnswersKept`).
`ParticipationProofs`, `ResultsProofs`, `RunLifecycleProofs`, `DraftEditingProofs`,
`RateLimiterProofs`, `AdminAuthProofs`, `ParticipantClientProofs` and `SingleTabProofs` hold
the theorems. Both tools use the same definitions: a `.cfg` only gives constants their
values.

Definitions called `Mutation` in a comment are bugs on purpose: `PROJECT.json` names for
every checked property one of them that replaces the definition after it and must make TLC
find the property violated.

### EventStream (`events.go`: `appendEvents`, `indexNodes`; the choice of `finish`)

Pure operators over sequences of events: which checkpoint or submission may be appended to a
stored stream, and the stream that results. The loop of `appendEvents` over saved and new
events becomes conditions on the merged sequence: numbers without gaps, identical duplicates
acknowledged, unique identifiers, page epochs in one piece, moves that fit the location
reached so far (`Location`, a recursive function of the position), a submission that agrees
with the request around it. An event keeps identifier, number, type, node, page epoch,
elapsed time, visibility and outcome; labels, client clocks and JSON layout are left out.
There is always an identifier left that a stream has not used (`NameAssumption`: any text of
up to 128 bytes is one).

### Participation (`participant.go`: `start`, `events`, `finish`, receipts)

State: `sessions`, `attempts` (with their streams), `commands`, `data_bytes`, the run's
`suspended` flag and the clock. `Start`, `Events` and `Finish` are the whole handlers,
including the sweep of expired receipts of *every* session, the cap on receipts and the
three byte budgets. Requests are not messages in a channel: any request of the constant sets
may arrive at any time and any number of times, which covers loss, duplication, delay and
reordering. A replay writes nothing, so it is described by `Replay` and compared with the
original response in properties.

### AnswerBook (what the server promises)

Each participant is shown the assigned tasks one after the other and answers each of them
once before the next is shown; no commands, receipts, streams or clocks. `Participation`
implements it: the book is read off the finished attempts, a task is shown when it has an
attempt without an answer.

### ParticipantClient, AnswerLog (`web/assets/participant.js`, `core.mjs`)

The participant's tabs joined with the server of `Participation` by a network that delays,
repeats and loses requests and loses answers. State: per tab the variables of
`participant.js` with the async function it is in and the call that function awaits; the
journal (`saved` as persisted last, shared by the tabs); the requests the network may still
deliver; and as history the answers confirmed, with what the page showed. JavaScript runs to
the next `await`, so the code between two awaits is one action: loading and the session
call, starting a task or repeating a start, recording a click, sending a checkpoint and
taking its acknowledgement (`ackEvents`), confirming an answer, draining the outbox, sending
the frozen command again, reloading, discarding a journal after a conflict, and the storage
event of another tab's write. `Contradicts` leaves out the last three conflicts of
`appendEvents` (an epoch that comes back, a clock that goes back, a location that is not the
current one); the model answers them as other refusals. No request of a page meets them:
with them in `Contradicts` the runs `client` and `tabs` have the same states. That is
checked by TLC only, as a proof would have to follow paths in a tree. A response that is
never delivered and a request that times out are the same for a page. `AnswerLog` says what
the participant is promised: every task gets one of the answers that were confirmed for it,
in order, and no tab shows a task before the earlier answers are kept.

### AttemptMetrics, Timestamps, Results (`events.go`, `server.go`, `reports.go`)

`AttemptMetrics` is `eventMetricsV1`, one definition per question the loop answers:
visibility after each event, the observed intervals, interruption, quality, direct,
backtracks. `Results` adds to `Participation` the columns `finish` freezes and reads the
tables as `reportRows`, `summarize`, `results` and `eventExport` do. A report is one
transaction, so it is a function of the state and needs no action. Quotients (rates) are
left out, the counts they are made of are there; medians are kept doubled so that they stay
integers. `Timestamps` is the text form of times (section 4).

### RunLifecycle (`admin.go`, `invitations.go`, `participant.go` join, `purge.go`, `cmd/treetest/main.go`)

State: `runs`, `sessions` (as far as enrollment sees them), `invitations`, the invitations
between check and insert (`issuing`), the purge processes, and `residue`: what is left of
deleted rows in free pages and in the write-ahead log. `residue` is external (SQLite's
`secure_delete`, `VACUUM` and `wal_checkpoint(TRUNCATE)` as `sanitizeDatabase` uses them).
`CreateRun`, `UpdateRun` and `Join` are single actions; a purge is `SelectRun` or
`SelectOverdue`, `Delete`, `Vacuum`, `Checkpoint`, `Mark`, with `Refuse` when the run is no
longer closed and `Abort` at any point. The shuffled allocation block is the set of cells
still in it.

### DraftEditing (`web/assets/admin.js`, `common.js`, `admin.go`, `db.go`, `studies.go`)

State: the editor of each page (draft, revision, text, the text it was loaded or saved as,
the dirty flag), what the page showed when an open publication dialog was opened (`asked`),
the operation in progress and its answer, requests the server has not handled, `drafts`,
`versions`, `runs`. `perform` allows one operation per page at a time, but the text fields
stay open: `Edit` may happen while a request is on its way. `Edit` is also an import of
files that completes (`importTrees` reads its files without being an operation), and that
happens behind an open dialog as well.

`publishDraft` is split at each of its `await`s: `PublishDraft` checks the editor and opens
the dialog, `ConfirmPublish` sends the request for the editor's revision without looking at
the editor again, `DeclinePublish` cancels, and `Receive` or `GiveUp` ends the request. Two
other dialogs stay one step with what follows them, `mayLeaveEditor` before `Leave` and
before the notice's `OpenDraft`: these drop whatever is in the editor, so an import behind
their dialog has the effect of an `Edit` before it.

`GiveUp` is a timeout, a lost request or answer, a refusal, and also a `refreshData` that
fails after a save or publication; the request may still be handled later. `Leave` stands
for every way out of the editor that asks first. The sign-out is one of them; its own
request, during which the editor stays open until the answer drops it (`admin.js:61-64`), is
not a step of the model. A text that is not valid JSON cannot be saved and is never sent;
the model's bundles are the texts that can be. Versions with equal content are one version
(the unique hash), which `TypeOK` states.

### StudyBundles, Publication (`internal/study`, `core.mjs`, `policy.go`)

`StudyBundles` has `ParseTree` and `Validate`, the editor's `previewTree`, and what
`allocateV1` and `join` make of a bundle: which tasks a session gets, and how often each arm
and task is used in a completed block. A line of a tree file is a record of raw features
(indentation, what follows it, the white space at its end, a tab, kind, identifier, content,
the label), and each parser decides by its own rules what the line is: `IsBlank`, `IsItem`,
`IsHeading` for `parse.go`, `LooksItem`, `LooksHeading` for `core.mjs`. They differ, and
`Faithful` says exactly where:

* Only the server objects to a tab, to white space at the end of a line that only JavaScript
  trims (a no-break space), to a heading line that is only `# `, and to a NUL, a CR or an
  outer U+0085 in a label (`OnlyPreviewed`). A preview without warnings is refused for
  nothing else.
* Only the preview objects to a byte order mark around a label. A file that the server
  accepts is shown as it is stored, and without any other warning.

The limits on bytes and on the number of nodes are left out; of these the preview knows
nothing. `Publication` binds the format to the editing model: each of its bundles has a
content (`Source`), `Valid` must be what `Validate` accepts, and the two properties also
range over tree files (every nesting of up to four items, and up to two lines of any kind,
end and label) and over families of candidate bundles (every nesting; panels that repeat or
miss tasks; answers in one tree only).

### RateLimiter (`limits.go`, the part of `server.go` that calls it)

State: the table of windows, the requests in progress and the clock. `Charge` is one call of
`allow`; its `now` is any time between the request's previous step and the present, because
`allow` reads the clock before it locks. The quota of the source is asked for in front of
the handler, those of run and participant inside its transaction, so no other request comes
between these two. One run and one operation are modelled; the keys of others would only
take room in the table, and the table of the instance is already too small for its own keys.

### AdminAuth (`auth.go`)

State: accounts, sessions, cookies, logins in progress, the map and the list of failed
logins, the clock. `Login` ends with the read of the account; `FailLogin`,
`CreateAdminSession`, `ChangedLogin` and `AbortLogin` are the ways it goes on, while
`SetUser`, other logins and time pass. A hash is a password and a salt, a fresh one for
every `SetUser`. The answer of a successful login may get lost. Failures beyond the last
threshold all have the same delay and are not told apart. As the clock is read before the
lock, the list is not strictly ordered by the last failure: an expired entry may stay behind
a younger one for a while. The model keeps that, and the properties do not depend on the
order. The loop of `failed` over the list is written by what it leaves: some entries from
the front (`Stale`), at most one more when the list is full (`Evicted`), and the list
without the key that is put at its end (`Others`).

## 3. Runs

TLC finishes every passing run without error (distinct states in parentheses).

| run | checks | instance | shows |
|---|---|---|---|
| `retries` (100,380) | FinishedStreams, RetryWindow, ReceiptRoom, NeverStuck, BytesBalance, SweptOnTime, TimingHonest, DirectIsDirect, ColumnsHold, SummariesAddUp, AcknowledgedStays, OriginalSaved, AnswersBooked, AnsweredRowsStay | 2 participants who share 2 attempts, 2 tasks, 4 commands, 2 pages, 6 checkpoints, 7 submissions, clock 0..4, receipts live 2 | starts, checkpoints and submissions repeated, delayed and reordered past the expiry of receipts; one participant's sweep; the report and export of every state |
| `client` (43,611) | ClientTypeOK, QuietRecovery, NothingToDiscard, AnswersKept, Settles | 1 tab on a connection that loses anything, 2 page loads that nobody asked for, 1 task, all kinds of clicks, a receipt that expires | no answer is lost, doubled or declared saved too early, and what is recorded is handed over in the end |
| `tabs` (301,446) | WholeStream, SavedIsStored | 2 tabs, one of them on a connection that loses anything | two tabs share a journal and race for one attempt without mixing their streams |
| `lifecycle` (107,106) | SingleUse, BalancedAllocation, RetentionAnchored, PurgedStayEmpty, PurgedMeansClean, KeptUntilPurged, PendingCompletes | 1 run, 3 identities, 2 cells, 1 token, cap 3, both recruitments, 2 retention periods, 2 purge processes | recruitment, closures, reopening and overlapping purges that crash anywhere |
| `editing` (1,520,440) | CleanMeansSaved, PreviewFaithful, VersionsRunnable, NoLostUpdate, PublishedAsAsked, RunsFrozen | 2 pages, 1 draft, 2 versions, 1 run, 4 requests; 2 bundles, some 4,600 tree files and 1,200 candidate bundles | two editors of a draft, typing during requests, imports behind a dialog, late requests; publications, imports, runs and removals; which studies may be stored |
| `rate_limits` (59,669) | Recovers, QuotaKept, ReplaysFree | 2 requests at a time, 4 keys, room for 2 | a full table, windows of different lengths, replays |
| `admin_auth` (466,137) | SessionsCurrent, LimiterConsistent, NoLockout | 3 accounts, 2 passwords, 2 browsers, room for 2 failures | accounts replaced during logins; concurrent failures, expiry and eviction |

Five runs (`event_limit`, `frozen_finish`, `late_invitation`, `stale_selection`,
`unsaved_edits`) state what a document or a dialog says and find it violated; see section 6.

The type invariants of `Participation`, `RunLifecycle`, `DraftEditing`, `RateLimiter` and
`AdminAuth`, and `TasksInOrder`, `ReceiptsReconstruct`, `ClosureKept` and `Bounded`
(RateLimiter), are proved for every instance (section 5) and therefore not checked again by
a run.

**Bounds.** Every bound is a constant: clocks (`MaxTime`), identifiers that can be drawn
(`AttemptIds`, `Commands`, `Tokens`, `DraftIds`, `VersionIds`), requests (`MaxSends`),
account changes (`MaxSets`), page loads (`MaxLoads`), recorded clicks (`Clicks`). They are
chosen so that the cases that matter happen: receipts expire and are swept while their
commands are sent again (in `retries` `MaxTime` is twice `ReceiptLifetime`), each
participant of `retries` can finish both tasks or they can share the attempts, in `client` a
page can be reloaded before and after the receipt of its command expired and a reloaded page
be reloaded again, the cap of a run lies at the number of identities, two purges can stop at
any pair of their steps, a page can save, be overtaken by the other page and meet the
conflict (4 requests), the tables of the limiters have fewer places than there are keys.
Every property has a mutant that TLC catches within these bounds. Limits of the code (64
receipts, 5,000 events, 1 MiB, ...) become small constants with the same relations. The
theorems of section 5 do not depend on any of these values. Symmetry is used over
identifiers that are only compared, and never in a run with a liveness property. Deadlock is
checked except in the client's runs, where a participant may be done with everything; the
other models do not stop because a disjunct that changes nothing or a request remains
possible.

**Fairness.** `lifecycle`: `FairSpec` assumes strong fairness of the steps of one purge job
(`Kept`) and of its selection: an operator, or a scheduled job, keeps running `purge
--overdue --confirm` until a run does not fail (the repository's `README.md` lines 223-227
ask for that), and a failure (`Abort`) may interrupt it any finite number of times in a row
but not always. The other purge process may stop for ever at any step. Nothing is assumed of
participants, owners or the clock. The instance has one run on purpose: the command stops at
the first candidate that fails, so with several a run waits for as long as earlier ones keep
failing, and operators that purge an earlier run again and again could keep it waiting.

`client`: `FairClientSpec` assumes strong fairness of the delivery of each tab's requests
with their answers (the code sends them again, and a connection that loses any number is not
down for ever), weak fairness of what a page does when its call returns (timeouts bound
every call), and weak fairness of the steps that go on where a page stopped: the automatic
flush, and the buttons that repeat a start or a submission or reload progress. Nobody is
assumed to open, answer or reload anything else.

## 4. Time

`now()` writes RFC 3339 strings with nanoseconds and SQL compares them as strings; the
format drops trailing zeros of the fraction. The models count whole ticks. `Timestamps`
writes both operands of `expires_at <= now` as text at every pair of fractions, and
`SweptOnTime` says that the order of the texts is the order of the seconds, so a tick stands
for a second: only within one second may strings and instants disagree, which moves a sweep
by less than a second. In the runs the fraction has two binary digits and the second three;
`ReceiptsSweptOnTime` proves the same for any base and any numbers of digits, from the fixed
width of what stands before the fraction and from `.` and digits sorting before `Z`.

## 5. Proofs

TLAPS checks every theorem for all values of the constants that the modules' `ASSUME`s
allow. They have the usual shape: an inductive invariant `IInv`, defined at the end of the
specification module, with `Init => IInv` and `IInv /\ [Next]_vars => IInv'`, one step per
action.

* **Participation** (`ParticipationProofs`). `IInv` is `TypeOK`, `TasksInOrder`,
  `FinishedStreams` and `ReceiptsTrack`. `TasksInOrder` and `FinishedStreams` are inductive
  with each other: a submission goes to the attempt at the session's index, which is the
  only unfinished one. `RetryWindow` is not: a receipt is trusted because it belongs to
  exactly one attempt with the same command, request and time, which `ReceiptsTrack` says;
  `WindowCovered` in it says that no receipt is swept early. `ReceiptRoom` then counts:
  receipts of a session inject into starts and finishes of tasks up to its index, so there
  are at most two per task (the lemmas on `Cardinality` of `FiniteSetTheorems`).
  `BytesBalance` counts the pairs of attempt and position that are stored; a merge adds as
  many as it has new numbers. `NeverStuck` needs that every stored stream is valid as a
  whole (`StreamsValid`, inductive as both handlers check the merged stream): a skip with a
  fresh identifier, in the epoch of the last event, can then be appended to it. Proved:
  `TypeCorrect`, `Invariance`, `OrderedTasks`, `StreamsEndRight`, `RetriesAnswered`,
  `ReceiptsResolve`, `ReceiptsFit`, `AcknowledgedKept`, `OriginalsSaved`, `BytesBalanced`,
  `AlwaysEndable`.
* **Participation implements AnswerBook** (`ParticipationProofs`, last section). With
  `TasksInOrder` an attempt is determined by participant and task, so a start maps to
  `BookShow`, a finish to `BookAnswer` of the participant it belongs to, and every other
  step, an accepted checkpoint included, leaves the book alone. Proved: `ServerKeepsBook`.
* **Results** (`ResultsProofs`). Every step of `Results` is one of `Participation`, so its
  invariants carry over, and the columns are those of the finished attempts
  (`ColumnsFrozen`). An attempt that is finished is the only one of its task and never
  changes, hence its row does not either. For `DirectIsDirect` the stored streams are valid
  (`StreamsValid`) and a stream without moves back goes down one step at a time: the nodes
  entered up to a position are exactly the ancestors of the location reached there
  (`Descended`), by induction over the position; `Ancestors` is shown to satisfy its
  recursive equation for every tree. `SumFunction` of the community modules folds in an
  order nobody chose; by induction over the subsets of a finite set (`SetDescent`) it has a
  value, any member can be taken out first, and a sum is the sum of its parts by any label
  (`SumByLabel`). With that the clocks of the page epochs telescope (`ClocksTelescope`),
  which bounds what `TimingHonest` lets a report call observed; a timing is complete only in
  one epoch without hidden or resumed events, where `Visible`, a recursive function shown to
  obey its equation, never turns false. `SummariesAgree` adds up arms, participants and
  tasks in any number. For `SweptOnTime` the texts of two seconds first differ at the first
  digit in which the seconds differ, and the number with the smaller digit there is the
  smaller one (induction over the digits); the fraction and the `Z` after it decide only
  within a second. Its assumption is that the clock and the expiry of every receipt can be
  written in the width (`MaxTime + ReceiptLifetime \in Seconds`): for four-digit years,
  until the year 9999. Proved: `ColumnsStayTrue`, `AnsweredRowsKept`, `DirectMeansDirect`,
  `TimingIsHonest`, `SummariesAgree`, `ReceiptsSweptOnTime`.
* **RunLifecycle** (`RunLifecycleProofs`). `PurgedMeansClean` needs to know what each of
  several overlapping purges has cleaned so far (`CleanupProgress`), and that holds because
  a run some purge has deleted cannot enroll anybody (`PurgesCommitted`, `PurgedStayEmpty`).
  `SingleUse` and `BalancedAllocation` have invariants of their own: an invitation that is
  used names the session it made and the other way round (`InviteInv`), and with each
  identity in a run once, the cells that are still in the block have one session less than
  the others (`AllocationInv`). Proved: `TypeCorrect`, `Invariance`, `NoReturn`,
  `CleanWhenMarked`, `TargetsAnchored`, `ClosuresKept`, `SessionsKept`,
  `InvitationsSingleUse`, `AllocationBalanced`.
* **DraftEditing** (`DraftEditingProofs`). The invariant is about knowledge (`Knows`):
  whoever holds a pair of revision and text (an editor, a request, an answer) either has an
  older revision than the server or the server's text. Late requests and lost answers keep
  it because revisions only grow. For a publication it has to hold from the dialog on
  (`AskingSound`): whatever an import does to the editor behind the dialog, the revision it
  holds is still that of the text the owner was asked about, because only `Receive` changes
  a revision and a page with an open dialog waits for nothing. Proved: `TypeCorrect`,
  `Invariance`, `SavedIsSaved`, `UpdatesKept`, `FrozenAsAsked`, `RunsKeepVersions`.
* **RateLimiter** (`RateLimiterProofs`). No window outlasts its length from now or exceeds
  its limit (`WindowsSound`), the table is finite and bounded, and a replay never waits for
  the participant's quota. Proved: `Invariance`, `TypeCorrect`, `AlwaysBounded`,
  `QuotasKept`, `ReplaysAreFree`, `RefusalsEnd`.
* **AdminAuth** (`AdminAuthProofs`). `SessionsCurrent` is inductive with the types of
  accounts and sessions and the fact that only a login for a user has read a row.
  `NoLockout` follows from `EntriesSound`: a failure counted at a time that is not ahead of
  the clock earns one of the listed delays (`DelayListed`, by the cardinality of the
  thresholds reached). Roles and cookies have invariants of their own (`RolesSound`,
  `CookiesSound`). `LimiterConsistent` says that list and map have the same keys
  (`Matched`); a failure removes a prefix of the list and the same keys of the map, so both
  still agree. Proved: `AlwaysCurrent`, `DelaysEnd`, `TypeCorrect`,
  `LimiterStaysConsistent`.
* **ParticipantClient** (`ParticipantClientProofs`). The server under the pages is an
  instance `S` of `ParticipationProofs` in which any request of the right type may arrive,
  so the theorems about the server are used, not proved again (`ServerImplemented`). The
  invariant `ClientInv` says of the journal that its outbox has no gaps and that a frozen
  answer goes back to a confirmation with exactly this stream (`Backed`); of a page
  (`Sound`) that each event it shows is in its outbox or stored, that a checkpoint on its
  way carries the head of the outbox, and that what an answer tells the page is what is
  stored (`Told`); and the same of every request ever sent (`GoodRequest`), because the
  network may deliver it at any later time, when another tab has moved on. These facts
  survive the steps of other tabs because the server only adds to what it stores (`Grown`).
  In the refinement a confirmation is `LogConfirm` if the page's task is still the session's
  and a finish that reaches the server is `LogStore`, as its answer was confirmed for the
  task that it ends; any other step shows a task or leaves the log alone. Proved, for any
  number of tabs: `ClientInvariance`, `ServerImplemented`, `ClientTyped`, `StreamsWhole`,
  `ProgressSaved`, `AnswersLogged`.

* **One tab** (`SingleTabProofs`). `QuietRecovery` and `NothingToDiscard` are false with
  several tabs, as another tab may have started or finished the task: the theorems have the
  hypothesis `OneTab` (`Pages` has one member), and the instance of `client` meets it. That
  a page is right to take a reply for its own is not inductive; what a tab without rivals
  knows is, and `AloneInv` says it: the page has the journal as it was stored last; the
  stored stream and the outbox are overlapping parts of one stream, with every number and
  identifier used once (`Continues`); the start in the journal is the only one ever sent for
  its task (`StartAlone`); a finish in the journal ends the stream of the journal, and if
  its attempt has been finished, then by it (`FinishAlone`, `FinishedBy`); every request
  that the network may still deliver is that start or finish, repeats events that are stored
  or in the outbox, or can have no effect any more (`SentAlone`), and no checkpoint on its
  way reaches beyond the next one, which is why a finish never meets a checkpoint that comes
  after it (`Reaches`); an answer on its way to the page tells what the server holds
  (`CallAlone`). The server's side of a step is described once for each kind of change
  (`Prolonged` by a checkpoint, `Opened` by a start, `Ended` by a finish) and shown to keep
  the journal in step and to take nothing back from the page (`Carry`). A refusal is shown
  to be impossible while the receipt lives, by following the handler's conditions one by one
  for each request of the page. Proved: `StaysInStep`, `RecoversQuietly`,
  `NothingIsDiscarded`.

Only model-checked: `PreviewFaithful` and `VersionsRunnable`, as the study format is written
with recursive operators. `PendingCompletes` and `Settles` are liveness properties under
fairness and stay with TLC.

## 6. Findings

* `event_limit` (`events.go:199`): an attempt that is full of events, or whose byte budget
  is used up, cannot be ended by any submission, because a submission brings a new event.
  The session stays at that task. The repository's `README.md` says participants can always
  give up or mark a task as not understood.
* `late_invitation` (`purge.go:87`): an invitation inserted between the deletion and the
  mark of a purge, and deleted by a second purge, is still in the files when the first one
  marks the run as purged. (Sessions are not affected: `CleanWhenMarked`.)
* `stale_selection` (`purge.go:62`): `purge --overdue` selects all runs first; a run that is
  reopened and closed again before its turn is purged although its new retention period has
  only begun.
* `unsaved_edits` (`web/assets/admin.js:457`): what is typed while a publication is on its
  way, or imported behind its dialog, is neither published nor kept: the answer closes the
  editor without the question that the other ways out of it ask (`mayLeaveEditor`). TLC's
  shortest behaviour is the import: open the dialog, the import completes, confirm, publish,
  receive.
* `frozen_finish` (`web/assets/participant.js:222`): a page loaded with a pending start
  command that took effect shows the attempt's task when the repeated start call fails, but
  with `active = false` and no next sequence number. Its buttons work, and the answer
  confirmed there is frozen with a submit event that has no sequence number: the server
  refuses it for ever, and the conflict after the next reload can only be left by discarding
  it. The properties of the passing client runs are stated for all other commands
  (`Unnumbered`), so this is the only way they find to lose an answer.

## 7. Not modelled, and the plan

Not modelled, as no correctness property of the study depends on their order or repetition:

* HTTP routing, headers, cookie attributes, the CSRF comparison, logging, branding and file
  loading; parsing of network addresses; the metrics counters, which are incremented after a
  commit by what was committed.
* CSV, JSON and HTML layout, with `csvCell`; the rates of the reports, which are quotients
  of modelled counts.
* `Backup` (one SQLite statement); the identity key (one transaction at the start of the
  process, before there is any request); `serve`'s start and shutdown, where a handler that
  is cut off is a transaction that is rolled back, hence no step.
* Hashing and random numbers (identifiers are drawn fresh); the shuffles of policy v1, as no
  property tells two orders apart.
* On the client: the landing page with its join call, the practice tree, rendering, and a
  `localStorage` that is full.
* `LoadDir`, the byte and node limits of the study format, and texts that only have to be
  there.

All state changes of the modelled components are actions, and every safety property that a
run checks is proved, except for the two about the study format. These two are what is left:
with `ParseTree` and `Validate` written as recursive functions, a proof would have to follow
the nesting of a tree, an induction over data.
