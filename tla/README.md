# A verification of Sentinel in TLA+

Sentinel (Flask, Celery, SQLAlchemy, scikit-learn) watches a mailbox, classifies
each message, labels or quarantines it in the mailbox itself, records it, and
lets administrators correct it and retrain the model. This directory holds TLA+
models of the parts whose correctness depends on *order* (what overlaps, what
dies half done, what is read before and used after a commit) and of the pure
algorithms that turn a message into findings. TLC checks them on small
instances; TLAPS proves the safety properties for every size.

Contents: [the system](#1-the-system) - [modules](#2-modules-and-code) -
[runs](#3-runs) - [proofs](#4-proofs) - [where code and docs
disagree](#5-where-the-code-and-its-documentation-disagree) - [not
modelled](#6-what-is-not-modelled) - [plan](#7-plan).

Commands, in this directory:

    tlc -workers 2 -config MCGmailPoll.cfg MCGmailSync
    tlapm GmailProofs.tla

`PROJECT.json` lists every run, its properties, for each property a mutation of
the code that breaks it, the source lines behind every definition, the hazards
and the theorems.

## 1. The system

Processes: gunicorn web workers, Celery workers, one Celery beat. They share a
database (Postgres or SQLite), Redis, optionally an S3-like store, and two
outside services: Gmail or an IMAP server. Paths below are relative to
`src/backend`.

| Component | State it keeps | Operations | Interacts with |
|---|---|---|---|
| Sync lock (`gmail/sync.py:100-124`, `mailbox/sync.py`) | `sync_in_progress`, `sync_lock_acquired_at` of a row | acquire (with stale takeover), release | every sync pass |
| Gmail pass (`integrations/gmail/sync.py`, `messages.py`) | `last_history_id`, Scan rows, audit rows, labels in Gmail | discover, retrieve, classify, label, store, advance | beat, Pub/Sub task, "Scan now"; Gmail |
| Push watch (`gmail/watch.py`, `routes/pubsub.py`) | `last_watch_expiration`, `monitoring_mode`, and `last_history_id` too | start, stop, renew daily, receive | the same row and baseline as the pass, under no lock; Gmail drops a watch that is not renewed |
| Review (`app.py:887-1068`) | the Scan row, Feedback, labels or folders | release, confirm, escalate, feedback | rows and messages that passes write |
| Gmail connection (`routes/gmail.py`, `models.py:360-459`, `gmail/client.py`) | GmailConnection rows, encrypted tokens | OAuth callback, disconnect, pause, resume, test; token refresh within any use | every Gmail call |
| Model governance (`tasks.py`, `ml/train.py`, `ml/infer.py`, `ml/artifact_store.py`) | `model_versions`, Feedback state, pointer and artifacts in a store and on two disks, what each process has loaded | retrain, promote, notice, classify | passes classify; reviews give corrections |
| IMAP fallback (`mailbox/*`) | MailboxStatus, Scan rows by UID, two folders | scan pass; release | the same lock and review code |
| Accounts (`auth.py`, `app.py:490-740`, `routes/users.py`) | User rows, session cookies | register, verify, login, reset, change password, role, suspend | every route that asks for a role |
| Detections (`app.py:742-945`, `routes/detections.py`, `routes/reports.py`, `reports/eml.py`) | Scan, EmailReport and Feedback rows, raw uploads on disk | quick analysis, upload, feedback, release, confirm, report review, retention purge | every classification; training reads Feedback and bodies |
| Detection policy (`routes/settings.py`, `models.py:578-616`) | the one AppSettings row | create on first use, change | read by every `classify()` |
| Parser and findings (`gmail/parser.py`, `gmail/analysis.py`, `ml/features.py`, `ml/infer.decide`) | none: functions of a message | parse, judge, weigh | called by passes and uploads |
| OAuth state, Pub/Sub authentication, health, pages, mail, seeding, plumbing | rows written once, or nothing | | see section 6 |

What is hard here, and what makes each part correct:

* **Several programs run the same pass.** The poller, a push notification and a
  button start `sync_connection` at the same moment; a killed worker leaves the
  flag up; release checks no owner. *Correct:* one pass at a time, and syncing
  resumes whatever dies.
* **A pass is five network calls and a commit per message**, each of which may
  fail before or after it took effect. *Correct:* the row never claims what the
  mailbox does not show; nothing behind the baseline is forgotten without a
  pass having seen it.
* **A request loads a row, works, and commits the columns it changed**, with no
  version check; and a token refresh inside commits the whole session early.
  *Correct:* the last decision wins as a whole; no credential comes back.
* **Two writes make a promotion** (store, then database), on hosts with disks
  of their own. *Correct:* what the console calls current is what classifies.
* **Counts are checked in one statement and acted on in another** (last
  administrator). *Correct:* an administrator remains, and rights change only
  by the console.
* **Four routes decide on the same Scan row**, beside the job that purges it and
  the policy that judged it. *Correct:* what the model said is kept, what was
  decided leaves the queue, what was purged stays away, and a verdict is that
  of one policy, whose read may fail.
* **A watch ends unless it is renewed**, once a day, in the last day of it, by a
  run that is queued and takes its time. *Correct:* a mailbox shown as pushing is
  without its watch for as long as that run takes at most.
* **Parsing meets whatever a sender wrote**: parts that compete for being the
  body, anchors that do not nest, links side by side. *Correct:* nothing is
  lost or counted twice, and one finding hides no other.
* **IMAP names a message by folder and UID.** A move gives it another name and
  a move of a missing one succeeds. *Correct:* what a row says was quarantined
  can be found and released.

## 2. Modules and code

A step of a model is what the code does between two points at which another
process can see or disturb it: one database statement or commit, one call to
Gmail, IMAP or the store, with the reads leading up to it. A guard comes from
the code's conditions. Each failure is an action of its own, enabled by a member
of the constant `Faults` and counted by `MaxFaults`. Names are the code's. An
UPDATE that SQLAlchemy sends holds only the columns whose value differs from
the loaded one; the operator `Updated` of five modules says just that.

| Module | Models |
|---|---|
| `OneSync` | the promise of the lock: one holder or none, changing by a start or an end |
| `SyncLock` | the lock's two UPDATE statements and time; instantiated by both sync modules |
| `GmailSync` | passes over a Gmail mailbox; `Lock == INSTANCE SyncLock` |
| `GmailReview` | EXTENDS `GmailSync`: administrators' requests on the same rows |
| `GmailConnections` | connection rows, tokens and the push watch |
| `ModelGovernance` | training, promotion, loading, answering |
| `ImapSync` | passes over IMAP folders, and release; `Lock == INSTANCE SyncLock` |
| `Accounts` | accounts, sessions, console |
| `Detections` | scan rows outside a pass: analyses, uploads, decisions, policy, retention |
| `EmailAnalysis` | parser, security findings and signals as operators, over a three-step behaviour |
| `*Proofs` | the theorems about a module; `GmailProofs` those about `GmailSync` and `GmailReview` |
| `MC*` | constants for TLC |

### SyncLock

`Available` is the WHERE clause, `Acquire` and `Release` the two statements,
`Abandon` the end of a process that never reaches `finally`. Time is kept as
ages: `lock_age` (saturating one tick past `StaleAfter`, where the code can no
longer tell two ages apart) and `run_age[p]`, bounded by `MaxRun`, the longest
pass there is. `MaxRun <= StaleAfter` is what the comment at
`mailbox/sync.py:28-33` claims ("Real syncs take seconds, not minutes"); it is a
premise of the exclusion theorems and is dropped where a property must hold
without it.

### GmailSync

| Action | Code (`integrations/gmail/`) |
|---|---|
| `Begin`, by `Poll` or `ScanNow` | `_try_acquire_lock`, called by `run_active_sync`, which asks whether the mailbox is connected with protection on (`protected`), or by the button, which does not |
| `Connect`, `ConnectFails` | credentials, labels, `get_profile`; a failure is recorded and the pass ends through `finally` |
| `ConnectRefused`, `Reconnect` | a refused refresh revokes the row and turns protection off, and polling stops until an administrator connects again |
| `ListHistory`, `ListRecent`, `DiscoverFails` | `_discover_new_messages`: incremental, or the bounded list if there is no usable baseline; a failure escapes `_do_sync` |
| `Classify`, `RetrieveFails`, `ClassifyFails` | retrieval and verdict; a `GmailError` or a failed classification writes an audit row and drops the message |
| `ProcessRaises` | any other exception of decoding, parsing or analysis: it ends the pass, and only `finally` runs |
| `Act`, `ActFails` | label action; `ActFails` may or may not have taken effect and is written on the row |
| `Store`, `StoreIdClash`, `StoreBreaks` | the commit; the IntegrityError of a `scan_id` that exists, taken for a duplicate; any other database error (which keeps the lock) |
| `Advance`, `Release` | the baseline; `finally` |
| `Crash`, `WatchCall`, `WatchStore`, `Arrive`, `TimePasses` | the environment, and `start_watch` |

Gmail is external: a message's arrival gives it a history id (`arrived`), `newest` is
the mailbox's current id, `labels` are what the API shows. Whether a history record
carries the labels a message had on arrival or has now is Gmail's business and
`list_history` filters on it, so it is a parameter (`HistoryLabels`), and each run
says which it takes. What a discovery leaves out of its answer, beyond the cap or
older than the lookback, is in `left_out[p]` while the pass runs and in `skipped` once
the pass moves the baseline over it, with messages dropped for an id clash; `jumped`
is the mail that a watch moved the baseline over. They are history: nothing in the
system knows of that mail. The verdict is a nondeterministic choice: nothing in the
pass depends on the text.

### GmailReview

A request is `Open` (load and decide), optionally `RefreshToken` (commits the
session as it is) and `Reload` (the expired row is read again), `CallGmail` or
`CallFails`, `Commit`; `Review` is the feedback form, which touches no mailbox;
`RequestDies` is a killed web worker. A refused refresh commits the session too,
and the connection row as revoked (`RefreshRefused`), and the error is noted by a
second commit (`CommitRefusal`). `seen` and `mine` are the row as loaded and
as changed. `disputed` marks messages on which two requests overlapped or one
died. `escalate` writes a note only and is left out. The release of an IMAP scan
is in `ImapSync`; the confirmation of one touches no mailbox.

### GmailConnections

`Callback`, `Retire`, `Lookup`, `Attach` are the OAuth callback from the code exchange
on, with its two commits; `Order` and `Commit` are disconnect, pause and resume;
`Use`, `Refreshed`, `Refused`, `ServiceBuilt` are every call that builds credentials
(test, scan now, poll, review, and the watch calls). `Arm` and `Disarm` are
`start_watch` and `stop_watch`, `RenewNothing` the renewal that finds nothing due or
is lost with its worker, `Tick` the time: several ticks to a day, and one renewal each
day (`celery_app.py:53-59`), over at most `Jitter` ticks after its time. Any request
may overlap any other. Two histories name the overlaps that do harm: `raced` (two
callbacks at once, or a commit that makes a row active again which was disconnected
when it was loaded or since) and `outdated` (rows last connected or disconnected from
a copy that another request had made stale). `armed` is what Gmail does, the row is
what the console shows. Tokens are fresh numbers, so an old token that comes back is
recognised. What a watch does to the sync baseline is in `GmailSync`.

### ModelGovernance

`Retrain`, `Pick`, `Dump`, `Upload`, `Record` are `retrain_task` and `train`;
`Promote`, `Point`, `Put`, `Flag` are the promotion route; `Ask`, `Reload`,
`Answer` are `_ensure_current` before a classification; `Correct` and `Purge` feed
it. `Crash` kills a process, `Restart` sets a host's disk back to the image. A
training is a number and `row_of`, `in_store`, `on_disk`, `loaded_run` say which
training's metrics or files are where, so that two trainings under one version
number are told apart. A version's five files are one value: they are written
under a name nobody reads until the row exists.

### ImapSync and Accounts

`ImapSync` has the same shape of pass as `GmailSync`, but what is new is what has
no row among the newest `Limit` messages; `Copied` and `Deleted` are the two
halves of a move. Release is `ReleaseScan`, `MoveBack`, `CommitRelease`.
`Accounts` has `Register` / `Insert` / `Arm` (the two commits of a registration),
`Login` / `Enter`, `LinkExpires` (after 24 hours or one), and one load and one
commit for each other route;
`CountAdmins` is the count of the last-administrator check, a statement of its
own. Secrets (passwords, link tokens) are fresh numbers; `retired` holds those a
row no longer has.

### Detections

| Action | Code |
|---|---|
| `Submit` | `scan_email`, the upload route or a pass, up to the model's answer |
| `ReadSettings`, `MissSettings`, `CreateSettings` | `AppSettings.current`, as `_current_thresholds` and the policy route call it |
| `ReadFails` | any exception in it: the policy route answers 500, `_current_thresholds` swallows it and gives the shipped pair (`FellBack`); the session may be broken by it, as the loser's of the insert is, and then cannot commit |
| `ChangePolicy`, `CommitPolicy` | `update_detection_policy`, check and commit |
| `StoreFile`, `Insert` | `store_file`; the rows of the analysis, in one commit |
| `OpenScan`, `OpenReport`, `OpenReported`, `CommitDecision` | `submit_feedback`, `admin_action`, `review_report`: loads and commit |
| `OpenPurge`, `CommitPurge`, `Die` | `purge_old_bodies`; a killed worker |
| `ReplaceWeb` | the web container is replaced, and `UPLOAD_DIR`, on no volume (`docker-compose.yml:68-87`), with it; `lost` are the reports whose file went |

Probabilities and thresholds are points of a grid: `decide` only compares them.
Here `admin_action` is its verdict; its mailbox side is `GmailReview`.

### EmailAnalysis

One message goes through `Reject` or `Parse` and `Analyze`. The operators are the
functions of the code: `Walk` (the MIME walk), `Extract` (the anchor extractor),
`Links`, `Result` (authentication), `SenderFindings`, `LinkFindings`,
`OfAttachment`, `WorstToLeast`, `Signals`. A loop is a recursive function of the
number of steps taken, over the operator that is its body (`Take`, `Feed`, and
`Judge` with its `seen` set, `Add`). A body is cut at `MaxBody` items before links are
read (`Cut`; `parser.py:31,186,188`, in characters there), and an HTML body on which
the parser trips gives no anchor (`Trips`; `parser.py:228-229`). A host
is its labels, a file name its dotted parts, a text the counts of what is looked
for in it; `IsMessage` says so as a type. The properties are reference definitions
by positions and sets, not by steps.

## 3. Runs

Sizes are distinct states. Every cfg checks deadlock except where requests are
bounded by a budget and the system really stops once it is used up.

| Run | Instance | States | Shows |
|---|---|---|---|
| `gmail_poll` | 2 processes, 3 messages, `Cap` 2, `Lookback` 2, 2 failures of which no process dies | 365 k | `AccountedFor`, `RecordedQuarantineIsReal`, `OnePassAtATime`, and that the passes implement `OneSync` |
| `gmail_faults` | 2 processes, 2 messages, one refused by the database, a pass may outlive the window (`MaxRun` 2 > `StaleAfter` 1), a kill, watch, id clash or parser exception | 1.5 M | `AccountedFor` although passes really overlap |
| `gmail_liveness` | 2 processes, 3 messages, `Cap` 2, one pass-ending failure, refusal or kill, fairness | 259 k | `EveryMessageHandled`, `HiddenMailIsRecorded`, `SyncingGoesOn` |
| `gmail_review` | 1 poller, 2 administrators, 1 message, 3 decisions, one failure | 1.9 M | `MailboxTruth`, `LastDecisionWins`, `ReleaseIsFinal` |
| `connections` | 2 mailboxes, 2 requests at a time, 3 in all and a renewal a day, 6 ticks, `Jitter` 1 | 1.06 M | `AtMostOneActive`, `DisconnectedHoldsNoRefreshToken`, `PushLapsesBriefly` |
| `model_governance` | 2 web, 2 trainers, 2 trainings after the shipped model, 2 promotions, one failure of any kind; any four of these five (`MaxEvents`) | 1.6 M | `RowDescribesModel`, `CorrectionsFoldedOnce`, `OnlyReviewedIsLive`, `CurrentIsServed`, `AnswersAreFresh` |
| `accounts` | 2 seeded administrators, 2 names that register with one address, 2 browsers, 6 requests, links that expire | 1.4 M | `AdminRemains`, `SessionsAreCurrent`, `RetiredSecretsStayOut`, `RightsChangeByConsole` |
| `imap_sync` | 2 processes whose passes may outlive the lock, 2 messages with one Message-ID, 1 administrator, any one failure | 3.0 M | `QuarantineMatchesRows` |
| `imap_liveness` | 2 processes, 3 messages, `Limit` 2, one unreadable, one failure, one release, fairness | 133 k | `EveryMessageScanned` |
| `detections` | 2 requests at a time, 4 in all, 2 rows, a grid of 4 steps, reads that fail, web containers replaced | 790 k | `ModelVerdictIsKept`, `LastDecisionStands`, `DecidedLeavesTheQueue`, `PolicyIsOrdered`, `VerdictUsesOnePolicy`, `ReportHasItsFile`, `PurgeIsOneWay` |
| `analysis` | 8 families of messages, some 58 k in all, `MaxBody` 6 | 173 k | `PartsUsedOnce`, `AnchorsAreComplete`, `EveryLinkIsJudged`, `WorstFirst`, `SignalsAreMonotone` |
| `watch_skips_mail` | violation of `MissedMailIsCaughtUp`, 3 steps | | section 5 |

**Why the bounds suffice.** Two processes give every pairwise overlap, the only kind
the lock, the unique indexes and the lost updates are about; a third matters only once
a lock has been taken over twice, and the theorems of section 4 cover any number.
Three messages are the fewest of which one can be behind the baseline, one in the
batch and one arriving, and one more than `Cap` and `Limit`, so that a message is
really cut off; with 2 failures a pass can fail and the recovering pass fail too.
`StaleAfter = 1` distinguishes fresh, nearly stale and stale. In `connections` a day
is two ticks and a watch lasts two days instead of seven, with a renewal due within
the last day as in the code (`RenewWithin = Day`) and up to a tick late (`Jitter`), so
six ticks hold a whole life of a watch and of the next one, counted from a late
renewal; three requests are arming it and two others that overlap (connect, replace,
disconnect; stop and start). Six account requests are a registration or two reset
links and their uses, with a console decision between. In the review run one message
is enough, since nothing a request does concerns another message. The events of
`model_governance` are taken four at a time: two trainings that overlap and the
promotion of both, or a training, its promotion, a failure and the promotion that
repairs it. Four requests in `detections` are an upload, two overlapping decisions on
it, and a purge or a change of the policy; three points inside the grid are the fewest
of which a policy can be changed in either cut point and stay ordered. Each family of
`analysis` takes all combinations of one part of a message (three MIME leaves; anchor
token strings up to four, up to six of the four essential tokens, and some past the
cut of six or with a token the parser trips on; two links and a URL; three
authentication results; texts of 12 and 39 words, to which one more of anything is
added), and one family mixes them for the order of the findings.

**Properties with an exception.** An exception names the states a step has put outside
the promise, mostly by a history variable, and each is a case that section 5 tells:
`disputed` (two requests on a message overlap, or one dies), `unsettled` (a promotion
died, was refused or overlapped another), `contested` (two console decisions, two
trainings, or two changes of the policy, overlap), `blinded` (the store refused to say
which version is current), `torn` (an IMAP move went half way, or its row was lost),
`skipped` (mail that the discovery of a pass left out before the pass moved the
baseline over it, or that an id clash dropped), `jumped` (mail that a watch moved the
baseline over), `raced` and `outdated` (the overlaps of requests on connections named
in section 2), `crossed` (two watch calls on a row overlap), `lapsed` (a renewal or a
stop failed or was lost, or the row was disconnected), `lost` (the container that held
the file was replaced), a failed read of the settings (for which `Usable` names the
one policy the verdict has instead) and `Behind` (mail beyond the limit of a fetch).
Without them each of the properties fails; with them they say that nothing *else*
breaks them, so none of them speaks for the hazard that its own exception names.

**Fairness.** `GmailSync!Fairness` and `ImapSync!Fairness` are weak fairness of "some
process begins a pass" (by `Poll`, not by the button), of each process's next step
within a pass, and of time passing. The first is beat's schedule
(`celery_app.py:42-66`: `gmail-sync` every 60 s, `mailbox-sync` every 45 s when
`IMAP_ENABLED`); it is a disjunction over the processes, since any worker may take the
task. The second is that a process that is not killed goes on: each call returns or
raises (Google's client times out by default; the IMAP session is given no timeout, so
for it this is an assumption, and a session that hangs for good would be a worker
lost). Nothing is assumed of failures, kills, arrivals, watches or administrators, and
failures are finite in number, as liveness needs. Nor is it assumed that somebody
reconnects a revoked mailbox: the three liveness properties of Gmail begin with
`<>[]protected`, that it is connected for good from some point on. `gmail_liveness`
takes `HistoryLabels = "at_arrival"`: if Gmail's history showed current labels, a
message hidden by a pass that died before its commit would not be found again, which
is what the mutant of `HiddenMailIsRecorded` shows. `PushLapsesBriefly` is a safety
property: `Tick` does not go further than `Jitter` ticks into a day before its renewal
is over, which is beat's daily schedule with a bounded latency.

## 4. Proofs

Eight modules; every step is checked by tlapm (SMT, Zenon, and LS4 for the
temporal steps). The theorems hold for every value of the constants under the
named `ASSUME` of the module, which TLC evaluates on each run. What a theorem
needs beyond that is named in the theorem, stated here with its reason, and
true of the constants of the run that checks the same property:

| Premise | Says | From |
|---|---|---|
| `MaxRun <= StaleAfter` | no pass outlives the stale window | `mailbox/sync.py:28-33`: passes take seconds, the window minutes |
| `Undisturbed` | see `MailIsAccountedFor` below | either Gmail's history is complete, or workers do not die |
| `ConnectedOnce` | at most one row is connected at the start | `routes/gmail.py` is the only way to connect one |
| `RenewedInTime` (`Day <= RenewWithin /\ Day < WatchFor`) | a renewal is due at least a period before the end, and a watch outlives the period | `celery_app.py:58` (daily), `gmail/watch.py:26` (renew within a day of the end), `:7` (seven days) |
| `SeededAdmin` | the table starts with an administrator | `seed_db.py`, `create_admin.py` |
| `Accepted(Default)` | the shipped cut points pass the check on changes | `models.py:578-579`: 0.50 and 0.75 |

**`SyncLockProofs`** - any set of processes. `TypeCorrect`; and under
`MaxRun <= StaleAfter`: `MutualExclusion`, `FlagUpWhileRunning`,
`LockRefinesOneSync`. That at most one process runs is not inductive: a release
clears the flag whoever holds it. The invariant adds that while a process runs,
the flag is up and `run_age[p] <= lock_age`, so an available lock is one whose
holder has been running longer than `StaleAfter`, which no pass does. The
refinement maps `holder` to the one running process.

**`GmailProofs`**, `GmailSync` - any processes, messages, failures.

* `PassesUseTheLock`: every step of `GmailSync` is a step of `SyncLock` or leaves
  it alone, so the theorems above carry over. The link between program counters
  and `running` is `PassMeansLock`. From it `OnePass` and `PassesAreOneSync`, the
  refinement `PassesImplementOneSync` of the runs (both under
  `MaxRun <= StaleAfter`): a step of a pass is a step of its lock, and that is a
  start, an end or a stutter of `OneSync`.
* `TypeCorrect`.
* `RecordedQuarantine`: `QuarantineInv` adds that a draft about to be stored with
  `quarantined` is about a hidden message, that one about to be acted on claims
  nothing, and that only arrived messages are in a batch. Nothing else moves a
  message back: later passes skip known messages or hide them again.
* `MailIsAccountedFor`: everything up to `last_history_id` is stored, audited, given
  up by a pass that had it before its eyes (`skipped`) or jumped by a watch. Watches
  and id clashes may happen at any moment; the premise `Undisturbed` is one of two
  things. Either `HistoryIsComplete`: a baseline exists, does not expire, and the
  history shows labels as at arrival; then passes may be killed, be refused a row, and
  overlap. Or `NothingDies`: nothing is killed, no row refused, and no pass outlives
  the window; then first syncs, expired baselines and current labels are covered
  (`gmail_poll`), for any cap and lookback. With neither, mail that a dead pass has
  hidden is in no later list (section 5). `BaselineInv` adds `BatchCovers(p)`: what a
  pass is about to move the baseline over is settled already, still in its batch, or
  in its own `left_out`. `DiscoveryInv` says why a discovery has to see the rest: in
  the first case every discovery reads history (`HistoryRead`); in the second,
  whatever has left the inbox is handled or about to be stored (`LeftInbox`). The
  second uses the lock, the first does not: a pass that dies moves no baseline, and
  one that is overtaken moves it back at worst.

**`GmailProofs`**, `GmailReview` - any administrators beside any passes.

* `ReviewTypes`; `RowsTellTheTruth` and `TheLastDecisionWins` (`MaxRun <=
  StaleAfter`). `ReviewInv` says what an open request holds: unless the message is
  disputed, nobody else has it open (`OneRequest`), the row is what the request
  loaded and the mailbox shows what the request is about to write (`HoldsRow`).
  Passes disturb none of it since a batch holds only messages without a row
  (`UnstoredBatch`); this is where the lock comes in, as with two passes one
  stores what the other still has in its batch, and moves it after a decision.
* `ReleasesAreFinal` needs no lock: what a request writes is the status it loaded,
  or Delivered.
* `MailStaysAccountedFor` carries `MailIsAccountedFor` over to the composition, where
  labels and rows change under the passes' feet.

**`GmailConnectionsProofs`** - any mailboxes and requests.

* `ConnectionsTypes`, `OneMailboxAtATime`, `RefreshTokensStayGone` (`ConnectedOnce`),
  for requests that overlap in any way. One active row is not inductive: a resume may
  set a row active that it loaded long ago. `RowsInv` has two parts. Whatever has
  raced, every copy keeps the token of the row as loaded or clears it (`CopyKept`), and a
  disconnected row that is not `outdated` has none (`TokenInv`), since an UPDATE holds
  the changed columns only. Until something has raced, at most one callback is under
  way (`Apart`); a mailbox keeps its one row (`MailboxInv`); and every active row is the
  one the callback is about to attach (`OneActive`). A commit that would make a second one
  active is one that revives a disconnected row, and sets `raced`.
* `PushIsKeptAlive` (`ConnectedOnce`, `RenewedInTime`): `WatchInv` relates row, Gmail
  and calendar. `Covered` says that Gmail pushes for a row in push mode past the
  moment today's renewal fell due and at least as long as the row says, `CoveredToday`
  that once the renewal is done it pushes past the next day's; every step that would
  break it makes the row `crossed` or `lapsed`, and a renewal is over within `Jitter`
  ticks (`RenewalOnTime`). That a period has one quotient and one rest
  (`DivisionIsUnique`) is what the calendar rests on.

**`ModelGovernanceProofs`** - any web processes, trainers, failures.

* `TypeCorrect`.
* `ReviewedIsServed` and `OnlyReviewed`. `ModelInv` says that what has a row is
  the same training in the row, the store, the disks and in memory
  (`RecordsAgree`, `LoadedAgrees`), that pointers name rows (`PointersAgree`),
  that a promotion under way names a row (`PromotionAgrees`), and that the number a
  training works on is nobody else's (`NumberAgrees`, `FilesAgree`; `next_version`
  looks at both the directories and the table). Trainings may overlap: numbers
  that two took are `contested`, and the invariant is about the others.
* `FreshAnswers`: `since[p]` holds every pointer the host had from the question on,
  and what is loaded for the answer is one of them.
* `ShownIsServed`: a promotion nothing overlaps finds its own pointer in the store
  when it sets the flag (`FlagAgrees`).
* `FoldedOnce`: `FoldInv` follows a correction from the batch of a training through
  the artifact to the row. Of two trainings under way one is tainted
  (`OneUntainted`), and what an untainted one folds in no row has (`Apart`).

**`AccountsProofs`** - any accounts, browsers, requests.

* `AccountsTypes`, `SessionsStayCurrent`, `RetiredSecretsNeverReturn`. The invariant
  says what a request may change by its place (`Change`): the console rights, the
  owner secrets, nobody takes a verification back. So a login that was allowed stays
  allowed until the console decides (`Standing`). `SecretsInv` says that every secret
  is in one place and that the ones a request is about to write are new (`Pending`,
  `BringsNew`), which makes a commit of changed columns on a row that has moved on
  harmless.
* `RightsChangeOnlyByConsole`, an action property, from the same invariant.
* `AnAdminAlwaysRemains` (`SeededAdmin`): `DecisionsInv` is that unless decisions
  overlapped, one is under way, its row has the rights it loaded, and another
  administrator remains or the decision takes none away.

**`DetectionsProofs`** - any requests and rows.

* `DetectionsTypes`, `TheModelsLabelIsKept`, `DecidedScansLeaveTheQueue`,
  `TheLastDecisionStands`, `EveryReportHasItsFile`, `PurgedBodiesStayOut`. A row as
  loaded by an open decision has the model's label, or a Feedback row has it
  (`RowsInv`, `Anchored`); a row loaded by an undisputed request is as it was loaded
  (`Fresh`, `OneDecider`); the columns of a decision never include the body.
  `CapacityInv` counts scans and analyses under way, as `Submit` reserves a row.
* `OnePolicyPerVerdict`: `PolicyInv`, that the policy in force is one of those a
  classification under way has met, the default included while no row exists, and
  that one whose read has failed has the label of the shipped pair.
* `EveryReportHasItsFile`: `FilesInv`, that a request about to commit has its file on
  the disk that is there now, since a replaced container takes its requests with it.
* `PolicyStaysOrdered` (`Accepted(Default)`): unless two changes overlapped, the one
  under way has loaded what is in force (`OnePolicyChange`).

**`ImapSyncProofs`** - any messages, passes, releases, all unconditional.

* `PassesUseTheLock`; `ImapTypes`.
* `TablesMatchFolders`: both directions of `QuarantineMatchesRows`, although passes
  may overlap. `PendingInv` says that a message a pass is about to move is still
  under its UID, or has a row, or is claimed by a pass that has moved it; a claim
  stands until the row is there (`ClaimInv`), and of two passes with one UID the
  unique index refuses the second. `RecordInv` and `HiddenInv` are the two directions,
  each with the release that has moved and not yet committed (`Completing`).

**`EmailAnalysisProofs`** - messages of any length and content (`IsMessage`). The
state says little (`Inv`: each stage leaves behind what its operator computes);
the work is in the operators, over sequences of any length.

* *Loops.* The library's induction theorems take an operator as a parameter, which
  the installed provers cannot instantiate. `StepByStep` is induction over the steps
  of a loop for a *set* of step numbers, from the well-foundedness of < on Nat.
  From it `LoopRuns` shows that every loop has a run, so that the recursive
  functions of the module are what they look like (`OnlyRuns`, `WalkRuns`, `ExtractRuns`,
  `JudgeRuns`), and each loop gets its invariant.
* `NothingLostOrCountedTwice`: `Walked` says of the walk after i parts that the bodies
  are the first of their types so far (`FirstBody`), the attachments are each there
  once, and no named part with content is missing.
* `AnchorsAreThoseSeen`: `Fed` says after k tokens which opening tag is still open
  (`Opens`), what has been read since, and that the recorded links are those closed so
  far, at increasing positions (`Records`); all of it about what the cut keeps, and
  nothing is recorded if the parser trips there. That the n-th link closes at the n-th
  closing position is a fact about increasing enumerations (`EnumerationCounts`).
* `LinksAreJudgedOneByOne`: the loop has said after k links exactly what those links
  deserve one by one, each finding once, and its `seen` set holds the keys of what it
  has said (`SaidOf`); a finding already seen is the same finding because indicator
  and evidence determine it (`Keyed`). `JudgeSays` takes one link, with each
  `continue`, through its branches.
* `FindingsAreWorstFirst`: what the analyzers say comes in
  blocks, in their order (`Blocks`, `UnsortedSays`). The sort
  selects three times and joins; each selection is an increasing map of positions
  (`Selects`) and the three together are a permutation that respects rank and, within a
  rank, position (`Sorts`), so nothing is lost or doubled and ties keep their order
  (`SortKeeps`).
* `SignalsNeverFall`: one more of anything, words included, gives a text that has no
  less of anything (`Grows`), and every weight is monotone in that order
  (`SignalsGrow`) but the one for a short text, which ends at forty words
  (`features.py:197-198`).

**Model-checked only.** All liveness (`EveryMessageHandled`, `HiddenMailIsRecorded`,
`SyncingGoesOn`, `EveryMessageScanned`): TLAPS does not reason about fairness and
ENABLED. Every safety property of the passing runs is stated by a theorem, and so
is every type invariant. No module here uses RECURSIVE.

## 5. Where the code and its documentation disagree

One is a run, so TLC shows the trace:

* **A watch moves the baseline over mail no pass has seen**
  (`watch_skips_mail`; `gmail/watch.py:53`). Mail arrives; `start_watch` stores the
  answer's history id as `last_history_id`; the next pass asks for what came after
  it. `routes/pubsub.py:81-82` promises that a lost notification is caught up by
  the next poll.

The others were met while modelling and while choosing constants and
exceptions. Many can be seen by changing the cfg or the property as said.

Sync, review and accounts:

* **Crash after the label, before the commit** (`gmail/sync.py:318`): mail is
  hidden and no row says so until a later pass stores it, which rests on Gmail's
  history showing the labels a message arrived with (`HiddenMailIsRecorded`). The
  docstring of that file gives the order "store -> label action" (line 15); the
  code labels first.
* **Two administrators on one message** (`app.py:1061`): the row can end up with
  the columns of one and the mailbox with the labels of the other. Drop `disputed`
  from `MailboxTruth`.
* **A verification link lasts 24 hours and there is no other** (`app.py:585-590`): who
  registers and does not click in time cannot verify, log in or register again under that
  name and address. So it is when the request dies between the commit of the account and
  that of the token.
* **Two overlapping demotions** leave no active administrator
  (`routes/users.py:67`), against "the last remaining admin can never be demoted
  or suspended" (`routes/users.py:9-10`). Check `SomeAdminRemains` in `accounts`:
  it fails in eleven steps.
* **More new mail than the cap** (`gmail/sync.py:212`): the rest of the answer is cut
  and the baseline moves past it, although `docs/GMAIL_SETUP.md:122` says the cap
  "bounds each pass". After an expired history the same happens to mail older than the
  lookback (`:222-227`). Drop `left_out[p]` from `Advance` and `AccountedFor` fails.
  The IMAP limit (`imap_client.py:128`) counts mail that is known, so unread mail
  behind 25 newer messages is never scanned. Drop `Behind` from `EveryMessageScanned`.
* **An id clash loses mail** (`gmail/sync.py:343`): an IntegrityError of the random
  `scan_id` is handled as if the message had been stored before, so it has no row and
  no audit entry (`StoreIdClash`).
* **An exception that is no `GmailError`** in decoding, parsing or analysis
  (`gmail/sync.py:258`) ends the pass. One that the message itself causes ends every
  pass at that message, and what is behind it waits for ever, as behind a refused row.
* **A crash after an IMAP move, before the commit** (`mailbox/sync.py`): the message is in
  the quarantine folder, which no pass scans, and no row says so. Drop `torn`
  from `QuarantineMatchesRows`.
* **A refused row** that is not an IntegrityError (`gmail/sync.py:343`,
  `mailbox/sync.py:269-275`) ends the batch and keeps the lock until it is stale;
  if the row is always refused, everything behind it waits for ever.
* **A released IMAP message has a new UID**, is scanned as new mail, and may be
  quarantined again with a second row; `README.md:119-120` says no message is
  ever recorded twice. One row per *UID* is what holds.
* **Discovery errors escape** `sync_connection` (`gmail/sync.py:188`), whose
  docstring says "Never raises"; the lock is given back all the same.
* **A refresh that began before a disconnect** stores its access token into the
  disconnected row (`gmail/client.py:77-83`); `models.py:452-453` says the tokens
  are wiped. The *refresh* token stays out, which is what is checked.
* **"Scan now" scans a paused mailbox**: it calls `sync_connection` directly
  (`routes/gmail.py:301`) and not, as the docstring at `gmail/sync.py:131-132` has
  it, `run_active_sync` with its check of `protection_enabled`. Confirming a Gmail
  scan leaves its `status` as it was (`app.py:1036-1055`).

Connections and watch:

* **A callback without a refresh token leaves a connected row**
  (`routes/gmail.py:178`). The error path logs, and `log_action` commits the
  session, the half-made row with it, whose default status is connected
  (`Lookup`). The comment at `routes/gmail.py:174-176` says the opposite.
* **`GMAIL_MONITORING_MODE` has no effect on a new mailbox.** The query for the
  owner (`routes/gmail.py:168`) flushes the new row, its mode defaults to polling
  (`models.py:398`), and "or the configured mode" (line 186) never applies;
  `docs/GMAIL_SETUP.md` lists the variable.
* **A row may become active beside another**, against "at most one ... by
  construction" (`models.py:426-429`). Two callbacks at once each add or attach a row, two
  rows for one mailbox included. A poll, test or review whose refresh is refused writes
  `revoked` (`gmail/client.py:95`), and a pause or a resume its own status, onto a row
  that a callback has retired or a disconnect has ended in the meantime; revoked and
  paused rows are active ones. Only a review may also begin with a disconnected row.
  Drop `raced` from `AtMostOneActive`.
* **A reconnect beside a disconnect** leaves a refresh token on a disconnected row,
  against "the tokens are wiped" (`models.py:452-453`): the callback loaded the row
  connected (`routes/gmail.py:157-161`), so its UPDATE holds the new token and not the
  status (190). Likewise a disconnect that loaded a row without a token does not clear
  one that a callback has stored since. Drop `outdated` from
  `DisconnectedHoldsNoRefreshToken`.
* **The watch lapses about once a week, for as long as the renewal takes**
  (`gmail/watch.py:76`). The expiration is counted from Gmail's answer, some seconds after
  the test at the head of the run; so six days later the next run finds a little more
  than a day left and renews nothing, and the one of the seventh day begins just as the
  watch ends, not "before expiry" (`:8`). Drop `+ Jitter` from `PushLapsesBriefly`.
  A renewal that fails or is lost costs a day: drop `lapsed`. Polling goes on meanwhile.
* **Stopping a watch while another request starts or renews it** can leave a row in
  push mode that Gmail has stopped pushing for, or the reverse. Drop `crossed`.
* **Disconnecting does not stop the watch**, and drops the token that could stop
  it; a mailbox connected again keeps its push mode with the old expiration
  until the next renewal.

Detections and policy:

* **Two overlapping changes of the policy** can empty or invert the band the check
  demands (`routes/settings.py:45-55`). Drop `contested` from `PolicyIsOrdered`:
  (1,3) becomes (2,2).
* **A failed read of the settings** (`ml/infer.py:172-182`: any exception, "rather
  than failing classification") gives the shipped 0.50 and 0.75, whatever policy is in
  force, and if the later commit succeeds that verdict is stored without a trace of
  it. Replace `Usable(q)` by `in_force[q]` in `VerdictUsesOnePolicy`. Where the error
  breaks the session, as for the loser of the race for the settings row
  (`models.py:607-615`), the request fails at its own commit instead.
* **Overlapping decisions** can leave a report's `admin_verdict` and its scan's
  verdict apart, and a later feedback overrules "the administrator's final
  verdict" (`models.py:511`) without the report saying so. Drop `disputed` from
  `LastDecisionStands`.
* **"Released" is a note** (`app.py:810-816`) that later decisions overwrite, and the
  "awaiting review" count (`app.py:887-890`: "not yet released or confirmed") does
  not fall on a confirmation, which leaves `status` alone.
* **A worker that dies between the file and the commit** leaves an upload no row
  names (`reports/eml.py:144`). A replaced web container leaves reports without files:
  `UPLOAD_DIR` is on no volume (`docker-compose.yml:68-87`). Drop `lost` from
  `ReportHasItsFile`.
* **`reset_demo_data`** (`app.py:1228-1229`) deletes scans that reports still refer
  to, which a database that checks foreign keys refuses.
* **A stored probability is rounded** to four digits after the decision
  (`ml/infer.py:228`), so next to a cut point the row's number and label differ.

Parser and findings:

* **Any anchor text is read as a host** (`gmail/analysis.py:262-264`): "Click here"
  is the host "click here", so an ordinary link gives a high
  `link_display_mismatch`; the tests use domains as texts only.
* **`lstrip("www.")`** (`ml/features.py`, `_domain`) strips characters and not a
  prefix: "www.westpac.com.au" becomes "estpac.com.au".
* **A body is cut at 200000 characters** before links are read, so an anchor that is not
  closed by then is not recorded, and **an error of the HTML parser costs every
  anchor** of the body (`gmail/parser.py:228-229`), those before it included.
* **An anchor never closed is not recorded**; later text bodies after the first that is
  not empty are dropped; so is a named body part without content.
* **Two raw addresses** with the same last two numbers count as one base domain
  (`gmail/analysis.py:71-78`).

Models:

* **A promotion that stops half way** (`ml/infer.py:102-104`, `app.py:1146-1152`) moves the
  pointer on one disk, or there and in the store, and not the flag: the console then
  shows one version as current and another one classifies, until the next promotion. Two
  promotions at once can end like that, each with the last word in one of the places.
  Drop `unsettled` from `CurrentIsServed`.
* **A store that refuses to say which version is current** reads as one that holds none
  (`ml/artifact_store.py:112`), and a host answers with the version its own disk names,
  which may have been replaced long ago. Drop `blinded` from `AnswersAreFresh`.
* **Two trainings at once** may take one version number and fold in the same
  correction (`tasks.py:86`); nothing enforces one at a time. Corrections once
  used do not go into later trainings: each starts from the shipped data
  (`train.py:136`).

## 6. What is not modelled

* **Simplifications within the modules.** In the passes verdicts are
  nondeterministic (`EmailAnalysis` and `Detections` have what makes one). The
  poller's check of the connection and its load are one step. Refused requests
  (wrong password, an expired link) change nothing and are no step. There is one
  Feedback row per correction. IMAP counters, connection health and the flag on
  flagged mail are left out; so is a change of UIDVALIDITY, which the code
  cannot notice and `models.py:157-162` names as a known limitation. Rate limits,
  access tokens and the mails themselves are left out, and dates are kept only as what
  they decide (`LinkExpires`, ticks of a day).
* **`escalate`, history, statistics, lists, filters, exports, health pages**: a
  note, and reads that relate to no other state.
* **Text**: phrase lists, character sets, HTML to text, header decoding,
  highlights. Training itself is scikit-learn.
* **OAuth state, token encryption, Pub/Sub authentication**: library cryptography
  and stateless checks.
* **Seeding, `create_admin`, migrations**: run before the system does; the initial
  states are what they leave.
* **Pages, scripts, mail sending, plumbing**: no state the server relies on.

## 7. Plan

Done: the lock and its abstract specification; Gmail passes; review;
connections and the push watch; model governance; accounts; IMAP; detections
with policy and retention; parser and findings; the theorems of section 4,
which cover every safety property of the runs.

Next, proofs:

1. `GmailReview` implements `GmailSync` but for the rows an administrator changes:
   an abstract specification of a mailbox (arrive, hide, record, restore) that
   both implement.
2. What single operators of `EmailAnalysis` compute on all inputs, against the
   library functions they stand for (`base_domain` of a joined host, `Result` of a
   header with several mentions).

Next, modelling: labels (`labels.py`: create, or find what another pass has just
created) and pagination as steps of a pass; notifications as actions of
`GmailSync` with delivery at least once; seeding at start-up by several processes
at once; OAuth state and expiry.
