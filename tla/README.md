# A TLA+ development of the moodboard repost bots

The bots watch Discord channels ("boards").  A member marks a message with a
butterfly; the bot opens a private thread about it, asks there for what a post
needs (a source link, metadata, an image, alt text), and queues the message when a
curator presses *Queue*.  Every hour a dispatcher publishes queued submissions to
the board's Bluesky account.  The code is one asyncio process over a SQLite
database (`src/src/bot/`, 12.4k lines of Python).

This directory models the part of it that decides *what happens to a submission*:
its intake, how its content is fetched, its curation, its publication, what becomes of
its videos and its thread, and how the posts are read back.  TLC checks the models on small
instances, and TLAPS proves every safety property of the runs for all instances.

| module | lines | models |
| --- | --- | --- |
| `QueuePolicy` | 40 | `queue/__init__.py`: the daily cap and the order of the queue |
| `Publishing` | 600 | dispatcher, duplicate checks, publishing in beats, and what runs meanwhile |
| `Feed` | 45 | what the followers are promised; `Publishing` implements it |
| `Intake` | 480 | butterfly, thread, thread mapping, retry loop, catch-up |
| `Ingest` | 480 | how links and files get onto a submission's rows, and what `/reingest` and replies do meanwhile |
| `Curation` | 580 | one submission's requests and answers, `/reingest`, restarts, until it is queued |
| `Posting` | 300 | one submission's conversation with Bluesky, request by request |
| `Closing` | 430 | the YouTube playlist and the archiving of threads, across cancellations and restarts |
| `FeedReader` | 170 | the feed generator's pages, read while the bot goes on publishing |
| `PublishingProofs`, `IntakeProofs`, `IngestProofs`, `CurationProofs`, `ClosingProofs`, `PostingProofs`, `FeedReaderProofs` | | theorems, checked by `tlapm` |
| `MCPublishing`, `MCIntake`, `MCIngest`, `MCCuration`, `MCPosting`, `MCClosing` | | instances for TLC; one `.cfg` per run |

To check: `tlc -config PublishFeed.cfg MCPublishing.tla`, and so on for each pair in
`PROJECT.json`; `tlapm PublishingProofs.tla`, and so on for each `...Proofs` module.


## 1. Inventory

### Concurrency

Everything runs in one process and one thread, as asyncio tasks; a task can lose
control only at an `await`.  Three kinds of locks matter.

* `session_scope()` (`db.py`) holds one **global database lock** from the first read
  of a transaction to its commit.  So a transaction is one step of the models, and
  every await *between* two transactions separates two steps.
* `_message_processing_locks` (`service.py`), one per Discord message, serializes
  `handle_reaction`, the retry loop's recheck and the second half of `/reingest`.
* `_submission_lock` (`curation/base.py`), one per submission, serializes
  self-managing recomputes.  Recomputes inside a handler's transaction do *not*
  take it.

The slow calls (Discord, downloads, Bluesky) run with the database lock released, in
"beats" (`docs/db-lock-io-refactor.md`): a short transaction, the call, a short
transaction.  Nearly every hard behaviour of the system comes from what may happen
between two beats.  Two facts about the database make it harder: its integer primary
keys are not AUTOINCREMENT, so SQLite **gives the id of a deleted last row to the
next row**, and foreign keys are not enforced, so rows that refer to a deleted row
stay.

### Components

| component | state | operations | what makes it correct | here |
| --- | --- | --- | --- | --- |
| Reaction intake (`service.handle_reaction`, `client.on_raw_*`) | submissions, butterflies, message locks | butterfly added / removed, thread deleted, ingest, duplicate screening | one submission and one thread per message; duplicates never delete each other | `Intake` |
| Thread mapping and retry (`ensure_thread_persisted`, `_run_threadless_retry_loop`) | `SubmissionThread`, `Submission.thread_id` | reuse, create, persist, retry | both name the same thread; no marked message stays unasked | `Intake` |
| Boot catch-up (`_run_catchup`, `_run_thread_catchup`) | none | rescan messages, replay replies | repeats nothing harmful, misses nothing | `Intake`, `Curation` |
| Ingest (`curation/ingest.py`, `asset_store/`, `reingest_submission`) | links, attachments, files | skeletons, gather, persist; duplicates; `/reingest` | every row gets its own file and metadata, by whichever way they arrive | `Ingest` |
| Curation state machine (`state.py`, `curation/statemachine.py`) | state, request rows, Queue button | `recompute_and_request` | whatever is missing is asked for; what is queued stays queued; ready means offered | `Curation` |
| Answers (`curation/handlers.py`) | links, attachments, alt text, note, waiver | replies, buttons, forms, `/no_source`, `/skip_alt`, `/reingest` | no answer is lost or applied to the wrong thing | `Curation` |
| Queue policy (`queue/`) | none | pick, counts, cap | fresh before backlog, oldest first, cap clamped | `QueuePolicy`, `Publishing` |
| Dispatcher (`scheduler._fire_*`) | tick, skip set, counters | hourly tick per board | nothing starves within the limits of a tick, cap held | `Publishing` |
| Publishing (`service.publish_queued_submission`, `publish/`) | publish attempts, submission state | plan, post, record | each link posted once, replies in their thread | `Publishing`, `Feed` |
| Posting (`publish_submission` and what it calls) | posts on Bluesky | log-in, uploads, the posts of a thread | a failed attempt posts nothing, a successful one everything in one thread | `Posting` |
| Requeue script (`admin/requeue_blocked.py`) | submission state | blocked back to failed | | action in `Publishing`, `Curation`, `Closing` |
| Playlist (`_auto_add_to_playlist`, opt-out, `_retry_failed_playlist_adds`, `youtube.py`) | playlist rows | add, skip, retry | a video once; none of an opted-out submission; the table agrees with YouTube | `Closing` |
| Thread archiving (delayed archive, boot scan, cleanup loop) | `archived_at`, threads, pending archives (in memory) | close, reopen | closed threads close, threads in use stay | `Closing` |
| Feed generator (`feedgen/`) | none; reads publish attempts | pages with a cursor | a walk meets every post once, no board crowds out another | `FeedReader` |
| Locks (`db.py`, `curation/base.py`) | locks | acquire in order | no deadlock | no, see section 11 |
| Link resolution, canonicalisation, mirrors (`resolve/`, `canonicalize/`) | none | fetch, rewrite | data, not control: the sets `Bare`, `Plain`, `Url` | no |
| Richtext, re-encoding of images and videos | none | text, facets, ffmpeg | pure data | no |
| Rendering, gateway, notifier, texts | none | adapters | a failed send is `Refuse` in `Curation` | no |
| Dashboard | none | read-only queries | | no |
| Matrix stub, config, logging, status, migrations, other admin scripts | | | not wired, or no running behaviour | no |

How they interact: `Intake` creates the row and the thread and hands over to
`recompute_and_request` (`Curate`); curation ends with `state = "queued"`
(`Queue`); the dispatcher picks queued rows up, and can only take them to
`published`, `publish_failed` or `publish_blocked`.  Removal of the butterfly deletes
the row at any point before `published`.  Queueing and publishing start what `Closing`
describes, and every successful attempt is a row of `FeedReader`.  `Ingest` and `Posting`
open up what is one step in `Intake`, `Curation` and `Publishing`: a message's content and
a conversation with Bluesky.  The modules meet in the
submissions table; each has the others' steps on it as environment actions
(`Confirm`, `Publish`, `Remove`, `Mark`, ...), so none assumes that the others stand still.

`PROJECT.json` lists the hazards line by line with the properties that cover them.


## 2. Publishing

**State.** `state`, `owner`, `links` and `intake` are the submissions table by id
(with each row's links, and how far its intake got); `attempts` the successful
`PublishAttempt` rows; `pc ... result` the local variables of the dispatcher task;
`posts` what is on Bluesky, in order, a URI being an index.  `forgotten` is an
observation: the posts the database does not account for, because the answer was
lost, the process or the commit failed, the submission was removed during its own
publish, or its link was replaced afterwards.  The states before `queued` are one,
`"open"`: this part of the code never tells them apart.

**Actions.** One per transaction or network outcome.  `Create`, `Ingest`, `Screen`,
`ThreadFails`, `Confirm`, `Remove`, `AddLinks`, `ReplaceLink`, `Requeue` are the
curators' side; `StartTick`, `OpenBoard`, `Pick`, `GiveUp`, `EndTick` are
`_fire_all_boards` and `_fire_board`; `Vanished`, `MissingPassword`, `Defer`,
`Suppress`, `PlanPost` the branches of beat 1; `PostCreated`, `ResponseLost`,
`PostFails` the outcomes of beat 2; `RecordSuccess`, `RecordFailure`, `RecordError`
those of beats 3 and 4.  Between the pick and beat 1 the code awaits
`fetch_channel`, so `Pick` and beat 1 are two steps and `cur` is only an id in between.

**Properties**

* `NoDoublePost`: no link is in two posts the database still accounts for.  The
  duplicate check at intake cannot guarantee this (links arrive later, ids return,
  the screening is skipped when a thread cannot be made); the one at publish time
  must.
* `RepliesInThread`: a reply has its parent's post as parent and the same root, also
  when the parent was itself a suppressed duplicate, a reply, or failed at first.
  (A repost carries no reply reference and starts a thread.)
* `ImplementsFeed`: the whole dispatcher, with all the races, refines `Feed`: an
  append-only sequence of posts, none repeating a link of one still accounted for.
* `DailyCapHeld`: no board posts more than the maximum on one local day, also when
  a tick runs across midnight.  It counts the real attempts of the board's rows by their age in
  local days; `MaxAge` stands for every day before, so it is no one day's age.  Only as long as no row
  was removed (`edits = 0` in the property): with a reused id the dispatcher, on one board's
  turn, posts another board's submission.
* `Drains`: a queued submission that can be posted does not stay queued for ever unless the
  submission it replies to is still unpublished.  The code keeps this only up to the two limits
  of a tick, and the property says so (`Uncrowded`): on its board there are fewer submissions that fail as
  "unknown" at every slot (`Doomed`; `Posting.Endless` says which) than
  `_MAX_FAILED_ATTEMPTS_PER_TICK`, and fewer of those and of replies, which may be deferred for ever, than
  `_MAX_SKIP_TRIES`.  On a board with a message that Bluesky times out on *every* time
  (`Toxic`) it fails by design: an upstream failure ends the board's tick and the same
  submission is first again.  Such a message holds up no *other* board.

**Runs.** `publish_feed`: three messages in a chain of replies, the first a
repost, one link reply or removal; three ids, three posts.  Three is what it takes
for "root" and "parent" to differ.  `publish_days`: two boards (one without a
password), two messages with a common link, one fault (crash, lost answer, failed
commit), midnights between and during ticks; an attempt's age is counted up to 2, which
stands for "any older".  `publish_drains`: under fairness, any three of
four messages on two boards: one that fails for ever, a reply to it, which is deferred for ever, a third behind
both, and one on the other board that always times out; failures of every kind with no bound, and a cutoff
that moves, so that the order of the queue changes.  Two failed attempts and three tries a tick are
the least that `Uncrowded` allows for the third message, and both are needed: with one less of either, and without
that condition, TLC shows it starve.  The run has no crash or lost answer: there are
boundedly many of them in any instance, so that in the end none comes.
`cancel_in_flight` (violation) shows how `NeverPostedTwice` fails.

**Fairness** (`FairSpec`).  The dispatcher is one loop that catches every exception,
and its calls time out: `WF` of its own steps and of Bluesky's answer.  Days go
by: `WF(Midnight)`.  A message that can be posted is accepted when it is
tried again and again: `SF` of `PostCreated` per message outside `Toxic` and `Doomed`.  A doomed one may
fail in any way, for example at the log-in, but not always before it gets to its own failure: `SF` of
`PostFails("unknown", FALSE)`.  Nothing is assumed of people.

**Proved** (`PublishingProofs`), for all messages, boards, links and bounds, from the
named assumptions on the constants only:

* `TypeCorrect`: `Spec => []TypeOK`, and `UrisAreOfPosts`: `Spec => []UrisExist`, every
  URI in the database or in the dispatcher's hands is of an existing post.  The two together are
  the inductive invariant `TInv`.
* `NeverPostedAgain`: `Spec => []NoDoublePost`.  `NoDoublePost` is not inductive: it says
  nothing of what the dispatcher has in hand.  `DInv` adds that every kept post is
  either in flight (created, not yet recorded) or *found*, that is, has a real attempt
  filed under a live row that still has all its links (`AllFound`), that the plan in
  the network call has no link of a kept post (`PlanIsNew`), that the created
  post has the plan's links (`PlanWasPosted`), and that the submission under `cur` has
  no attempt of its own on record (`CurUnpublished`).  The publish-time check asks
  exactly for what `AllFound` provides.
* `AlwaysInThread`: `Spec => []RepliesInThread`, from `RInv`: the roots on record are
  those on Bluesky, and the plan's parent and root belong together.
* `FeedIsImplemented`: `Spec => ImplementsFeed`; the step simulation uses both.
* `NeverOverTheCap`: `Spec => []DailyCapHeld`.  What the dispatcher counts when it opens a board is
  what it must not exceed when it records a success several awaits later.  `CInv` says why
  that holds: the attempts are finitely many, and while no row was removed a row past `"open"` is past its
  screening too (`Screened`), so that nothing deletes it; every attempt is of such a row
  (`OnFile`), so that no count shrinks or changes board; the row at hand stays and belongs to the
  board that is open (`InHand`); and the open board has room for one more (`RoomLeft`).  `Midnight`
  moves every count one day back, which is where the limit of one day at a time comes from.

Left to TLC: `Drains` (liveness).


## 3. Intake

**State.** `owner`, `content`, `threadOf`, `closed` are the submissions table,
`mapping` the `SubmissionThread` table; `threads`, `gone`, `marked` are Discord's;
`lock ... created` the tasks' locks and local variables; `todo`, `booting`, `missed`,
`replay` what the retry loop and the catch-ups have read.  `prompted` holds the rows
whose open questions were posted.

**Actions.** `React`, `Acquire`, `LoadOrCreate`, `Ingest`, `ReadMapping`, `Resolve`,
`CreateThread`, `PersistMapping`, `Screen`, `Curate` are the beats of
`handle_reaction` and `ensure_thread_persisted`, for any number of tasks;
`ThreadFails`, `CreatedTooLate` (the 15 seconds pass, and Discord makes the thread
all the same), `ResolveFails` are what Discord does to them.  `Scan`, `RetryNext`,
`Recheck` are the threadless-retry loop, `CatchUp`, `ListThreads`, `Replay`,
`ScanTimesOut` the boot.  `Confirm`, `Remove`, `DeleteThread`, `Crash` may happen
at any time.  One message's tasks exclude each other by the message lock; removal,
thread deletion and the replay do not take it.

**Properties.** `OneThread` (issue #52): however reactions, catch-up and retry loop
overlap, a message gets one thread, as long as nothing was removed, deleted,
restarted or answered late (these are in the property: after a removal during
`create_thread`, for example, the mapping is not stored and the next butterfly makes
a second thread).  One exception is kept in the observation `astray`: the retry loop looks
its row up by the id it scanned, and when that row was screened away as a duplicate and its id
given to another message's, the thread it makes is about the wrong message (section 9).  `LinkKept`: two messages with the same link, marked at once,
never screen each other away.  `MappingAgrees`: a row and the mapping of its message
name the same thread, through removals, deletions, id reuse and failed lookups.
`Prompted`: every submission of a marked message is asked about in the end, through any
number of refused threads, a removal and a crash; not once a thread was deleted or
Discord failed to look one up, see section 9.

**Runs.** `intake`: one handler besides catch-up and retry loop on two messages with one
link, and one disturbance anywhere: a removal, a deleted thread, a crash or a lookup that
fails (`MaxEvents`).  One handler is enough because the catch-up and the retry loop
are themselves two more tasks that do what it does; two ids and two messages make
a removed row's id return at once.  `intake_prompts`: under fairness, one message, a
removal, a crash and an outage, in any order, threads refused any number of times.

**Fairness.** Tasks run on and the retry loop and boot are loops (`WF`); asyncio locks
are handed over in turn (`SF` of `Acquire`); Discord's rate limit lets a thread through when it is
asked again and again (`SF` of `CreateThread` per message).

**Proved** (`IntakeProofs`), for any messages, links, handlers and bounds:

* `IntakeTypes`: `Spec => []TypeOK`, and `LocksAreHeld`: `Spec => [](Working /\ Locked)`, a task
  that is not idle has a message and one past `Acquire` has that message's lock.  The two
  together are the inductive invariant `TypeInv`; the message lock is what everything below rests on.
* `ThreadIsTheMapped`: `Spec => []MappingAgrees`.  The invariant `RowInv` adds that a message has one
  row at most and that a free id keeps nothing of the row that had it; an id given again
  therefore begins without a thread.
* `LinksAreKept`: `Spec => LinkKept`, an action property: any step that takes away a row with links
  leaves a live row with one of them, unless a curator or a deleted thread took it.
* `OneThreadEach`: `Spec => []OneThread`.  The invariant `QuietInv` holds while nothing disturbs: each
  thread is known to the mapping or in the hands of the task that will store it (`Known`), a
  task's row stays its own (`OwnRowStays`), a stored thread stays mapped (`Mapped`), and a task past
  reading the mapping has read what is there (`Sees`); `Alone` is the argument that no second task
  is at work on the message.

Left to TLC: `Prompted` (liveness).


## 4. Curation

**State.** `row` is one submission with its links and attachments; `ask` the request
rows, the messages with a Queue button that exist (`live`) or were deleted by a
moderator (`gone`), and the confirmation row (`conf`, with its id, because a new row
may get the id of a deleted one); `job` the beats of `handle_reaction`'s recompute or of
`/reingest`; `form` the edit form someone has open; `said` and `replay` the
thread's replies and the catch-up after a restart.  `used` counts what people, Discord
and the operator did, within the bounds.

**recompute_and_request** is three operators: `Settled` (the new state), `Plan` (what is to be
posted, read from the rows), and `Perform` (the sends and their record, where any
may be refused by Discord and a second cancel or confirmation row violates a
UNIQUE constraint).  A handler applies all three inside its transaction
(`Recompute`).  The butterfly applies them as `Decide`, then `SendAndRecord`: answers
come in between, which is where the hard cases are.  `/no_source` and `/skip_alt` hand recompute a
raw Discord channel where it expects a surface, so all but plain texts raise
(`SlashRecompute`).

**Actions.** Replies to each kind of request, each button and command, the form,
`/reingest` in its beats (`AskReingest` ... `Reingested`), restart with boot scan and
thread replay, and the dispatcher's steps on the row (`Publish`).

**Properties.** `Asked`: when nothing is under way, whatever is missing has an open request.
`QueueKept`: nothing takes a queued submission back into curation.  `QueueComplete`: what
is queued lacks nothing but alt text of media added since, provided there was no
`/reingest`, only one prompt about a source note (a second comes with a second note, or
when the catch-up replays the first), and no butterfly recorded a request late (`ask.late`: what it asks
for was answered meanwhile, or is asked for already).  `Asked` excepts a refused message, and a stop in the
middle of a `/reingest` when the boot scan does not reach the message any more.  `QueueOffered`: a ready submission has a Queue
button that works, provided Discord kept and posted everything, nothing restarted and
one butterfly at most was recorded.  The provisos are in the properties, and each is
necessary: see section 9.

**Run.** `curation`: a message with one described image and no link; three links (good,
unresolvable, a repost) and an upload to answer with; three changes of the content by
answers, and any three of: two butterflies, a source note, an edit form, a `/reingest`, a
restart with its two catch-ups, one refused message and one deleted one (`MaxEvents`
bounds them together).  Three changes are what it takes to give a source, better it and,
once queued, answer again; three events, to have a butterfly, what disturbs it and
what comes after.  `CHECK_DEADLOCK FALSE`: once people do nothing more and the bounds are
spent, the system does stop.

A message that a new Queue button gets is one of the set `Msg`.  `CanOffer`, the bound on it, never
holds a step back in the run: four messages are more than its three events and three edits use up.

**Proved** (`CurationProofs`), all five properties, for any links, media, messages and bounds.  The proofs
stand on one split of the steps (`NextCases`): a step either answers something and recomputes in
its own transaction (`Answering`: a new row, the kinds of requests it answers, and the effect of
`Plan` and `Perform` on them), or is one of the others (`Alone`).  Each invariant is kept once by
`Answering`, whatever was answered, and case by case by `Alone`.

* `CurationTypes`: `Spec => []TypeOK`.
* `QueuedIsComplete`: `Spec => []QueueComplete`.  The invariant `COrderly`, under the property's provisos,
  says that no request is open which an answer could only do harm to: a gap is asked about once
  (`OncePerGap`), an open request for a source or a better link is still needed, and a further link
  comes behind a first one (`Needed`); and that a note that was confirmed has no prompt left
  (`OneNote`).  So an answer to what is queued takes nothing from it.
* `MissingIsAsked`: `Spec => []Asked`, from `CAsked`: what is missing is asked for (`Paid`), or there
  is a butterfly, a `/reingest` or a catch-up under way that will ask (`Owed`).
* `ReadyIsOffered`: `Spec => []QueueOffered`, from `COffered`: a ready row has its confirmation row, or
  the one butterfly's decision will post it and its record cannot clash (`Undecided` is what
  holds before that butterfly decides).
* `QueueNeverLost`: `Spec => QueueKept`, an action property.  Every write of the state but
  `Settled`'s is to a state past the queue or starts from one, and `Settled` leaves those alone; it
  holds although decisions are recorded late *because* the state is written with the decision,
  never with the record.

No liveness is stated here: every next step is a person's.


## 5. Ingest

`Intake` and `Curation` have the ingest of a message as one step.  It is three beats with
downloads of minutes between them, and everything about it is addressed by row ids that
SQLite gives out again.

**State.** `content` is Discord's messages; `subs`, `atts`, `links` the rows, by id; `dirs` and
`disk` the volume, a path being `<<submission, kind, row>>` as `FilePath` and `VideoPath`
build it; `lock` the message locks; `task` the local variables of butterflies and
`/reingest`s, among them `plan` and `rows` (the ids the skeletons got) and `keep` (the
descriptions `/reingest` puts back).  `stray` (on rows and files) and `cut` (on tasks) are
observations: who wrote what he no longer had to write, because a submission was
removed, a link was replaced, or a transaction was rolled back.

**Actions.** `Fetch`, `Enter`, `TearDown`, `Skeletons`, `GatherFile`, `GatherLink`, `Persist`,
`Restore`, `Settle` are the beats; `Reply` (a file, one more link, another url for the
primary link, each resolved *inside* its transaction, which may be rolled back), `Describe`,
`Remove` (which deletes the files first, and may then lose its transaction), `Edit`, `Stop` what
happens between them.

**Properties.** `PlanHolds`: until its outcome is persisted a gather finds its own rows
under the ids of its plan, and one row for each attachment of the message.  `OwnFiles`: a
stored path leads to the row's own file, though all pasted files have the same name.
`LinkAgrees`: metadata and the Bluesky uri of a link are of its url: a repost repeats
the right post.  `OneVideo`: replies and a gather do not both attach a video.  `AltKept`: what was
described stays described through `/reingest`, as long as the message still has the file.  The
properties except rows, files and tasks that are `stray` or `cut`, and links whose url was
replaced while a gather that had read the old one was under way (`old`, `Outdated`); that these
exceptions are needed is the list in section 9.

**Run.** `ingest`: a message with a file and a link to a Bluesky video, another with a file;
three handlers in two tasks; two events.  Two tasks on one message are what the lock is for;
three handlers let a `/reingest` follow the butterfly while another waits.  `CHECK_DEADLOCK
FALSE`: nobody has to do anything.

**Proved** (`IngestProofs`), all six properties, for any messages, files, urls, tasks and bounds.  Two
named assumptions on the constants: `IngestAssumption` (typing; files are not urls), and
`AttachmentAssumption`, which is Discord's: an attachment has an id of its own, so a file is in one message,
once, and none is one that a curator uploads.

* `IngestTypes`.  The invariant `Claims` gives a task's local variables their types and shape
  (`Fit`), and says that a task at work holds its message's lock and has that message's
  submission until it is cut (`Held`).
* `OneVideoEach`, from `RowInv`: a submission has each file once and one video at most (`OneEach`), a row
  without a submission is a stray video (`Orphans`: what is attached to a removed submission), and
  before an ingest writes its rows its submission has none of the message's files (`Fresh`).
* `DescriptionsStay`, from `Answers`: whatever was described is in a row of its submission, or in
  the hands of the `/reingest` that will put it back.
* `LinksStayTrue`: `LinkAgrees` is inductive once the shape of outcomes is known (an outcome's uri is
  none or its own url).
* `GathersLand`, from `PlanInv`: of a gather not cut, every row of its plan is there with its file
  (`Planned`), and so is every link, with the url it was read with unless a reply replaced it
  (`PlanAgrees`).
* `PathsLeadHome`, from `Paths` and `DiskInv`: a row's path is the one built from its ids, what a gather
  has downloaded is on the disk (`GotOnDisk`, `VideosOnDisk`), and a video is placed where no row
  of the submission looks yet (`VideoPlaced`).


## 6. Closing

What follows the Queue button, besides the post: the submission's videos go to the board's
YouTube playlist, and its thread is archived.

**State.** `state` and `skipped` are columns of the submission (`"open"` is any state before
`queued`); `rows` is `YoutubePlaylistAdd`, `ok` those with `success`, a row being named by
its message, its video and the attempt that made it; `marked` the messages whose
`SubmissionThread` has `archived_at`.  `playlist` and `thread` are YouTube's and Discord's
truth.  `timers` counts the pending archives of a thread (`_background_tasks`), `scan`
and `booting` are the start's `_archive_queued_threads`: all three are lost at a restart.
Five observations say what went wrong outside, so that the properties can except just that:
`flops` (rows for which YouTube once refused a call), `strays` (videos for which
the outcome of a call was lost or rolled back), `withdrawn` (videos taken out), `unqueued`
(messages whose queued submission was deleted), `reopened`.

**Actions.** `HandleConfirmButton` and its emoji twin queue the submission, add its videos, send
the notice and set the timer, all in one transaction (`QueueCommits`); when the notice is
refused the transaction is undone, what YouTube did is not (`QueueRollsBack`).
`HandlePlaylistSkipButton`, `HandleCancelButton`, `HandleCancelReaction`,
`HandleSourceCancelReaction` take things back, with the same two outcomes where they call
YouTube.  `RetryFailedPlaylistAdds` is one round of the hourly retry, `ArchiveStaleThreads` one
of the cleanup, `TimerFires` a pending archive, `Restart`, `BootScan`,
`BootSchedule` a start.  `Mark`, `Publish`, `PublishFails`, `Requeue` stand for the other modules,
`MemberPosts` and `DeleteThread` for Discord's members.

**Properties.**

* `VideoOnce`: a video is recorded as added once, however many submissions share it; unless
  YouTube refused *both* rows before, since the retry sends everything it has selected.
* `OptedOut`: no video of a submission that opted out is recorded as added, from whichever
  time it was queued, unless YouTube refused a call for it (the retry asks nobody).
* `Wanted`: a queued submission's videos have a row, its own or another's; nothing but
  somebody's taking the video out loses it.
* `Truthful`: the table and the playlist agree on every video that is not a stray.
* `OpenNotArchived`: no archive is pending for a thread in use, across restarts, unless a queued
  submission of the message was deleted before (its archive cannot be called back).
* `ArchivePending`: an open thread of a published submission has an archive before it, unless
  it was never archived (then the cleanup sees it), an archiving failed, or it was
  reopened since.
* `Recovers`, `Closes` (liveness): refused videos come to be added; the threads of queued, published
  and failed submissions that were never archived come to be closed.

**Runs.** `closing_videos`: two messages with one video, queued twice each, one fault, one cancellation;
sharing and re-queueing need exactly that.  It is symmetric in the messages.  `closing_threads`: one
message, two faults, three disturbances, two pending archives, under fairness.  Three
disturbances are a cancellation, a restart and a reply.  `CHECK_DEADLOCK FALSE`: the system stops
when nobody does anything.

**Fairness** (`FairSpec`): `run_playlist_retry` and `run_thread_cleanup` are loops that catch every
exception, a timer fires, a start ends: `WF` of each.  `RetryFailedPlaylistAdds` and
`ArchiveStaleThreads` are the rounds that get something done, so that their `WF` also says that
YouTube and Discord accept a call that is repeated for ever; a video that was
deleted they never accept, and it is not covered by `Recovers`.

**Proved** (`ClosingProofs`), for all messages, videos and bounds:

* `AddedOnce` and `OptOutRespected`: `Spec => []VideoOnce`, `Spec => []OptedOut`.  The invariant
  `VInv` adds `RefusedBefore`: a row that is not recorded as added was refused.  It is what
  bounds the damage the retry can do.
* `NotUnderWork` and `WillBeArchived`: `Spec => []OpenNotArchived`,
  `Spec => []ArchivePending`.  The invariant `AInv` speaks of archives *foreseen*, in a
  timer or in what the scan has read, and distinguishes scan entries read as published, which
  surely set a timer, from those read as queued, which may not.

* `TableIsTruthful`: `Spec => []Truthful`, which is inductive: each step, the retry's one by one,
  either moves a video in the table and in the playlist together or leaves it a stray.
* `NoneForgotten`: `Spec => []Wanted`.  The invariant `WInv` adds that what is recorded as
  added has a row; `WantedKept` says which steps are harmless: those that want no more, and
  take away only what is then withdrawn.
* `ClosingTypes`: `Spec => []TypeOK`.

Left to TLC: the two liveness properties.


## 7. Posting

`Publishing` has `publish_submission` as one step that succeeds, fails or loses its answer.
It is really a log-in (with retries), uploads, and up to a dozen posts.

The board has a handle and a password: beat 1 blocks a submission without them
(`service.py:854`, `863`) and the scheduler passes over a board without a handle (`scheduler/__init__.py:270`),
so that the test for a handle in `publish_submission` (`publish/__init__.py:104`), whose only caller is behind
that check, never fails.

**State.** `sub` is what beat 1 hands over, with the way its files are on disk (to be sent,
never stored, or "bad": a known path with nothing there, an image over the limit that Pillow cannot open
or save smaller, a video over the limit); `state` its
submission's; `pc`, `logins`, `todo`, `pending`, `blobs`, `kinds`, `root`, `last` the local
variables of the attempt; `posts` what Bluesky has created.  `mishap` and `cut` are observations.

**Actions.** `Start` (a slot), `Login`, `LoginFails`, `Upload`, `UploadFails`, `GiveUpPart`,
`CreatePost`, `CreateFails`, `CreateLost`, `Stop`.  `Parts` is the order of the thread: the videos, the
images left over, the further links.  `FailPart` is the rule everything hangs on: until the first post
exists a failure is one of the attempt, afterwards it ends this group of parts only.

**Properties.** `PostedOnce`: whatever fails wherever, and however often the attempt is
repeated, no file or link is in two posts the bot knows of.  `Chained`: the posts of an
attempt form one chain, also across parts that failed.  `Complete`: an attempt in which nothing
went wrong has posted every file and link.  `Settles` (liveness): a submission is published,
or blocked for a human, unless it is `Endless`, which is tried again for ever: it is empty, or
only has images, none can be sent, and one of them is bad (section 9).  What Bluesky or the bot
refuses for good in any other way fails as "local", which blocks at once.

**Run.** `posting`: submissions of every kind (empty, repost, links, images, videos and their
mixtures), with files that can be sent, were never stored, or are bad; three faults.  Two log-in attempts and
galleries of two stand for three and four.  **Fairness**: the dispatcher comes back (`WF` of
`Start`), a request is answered, refused or timed out (`WF` of `Requests`).  Deadlock is
not checked: a published submission has no further step.

**Proved** (`PostingProofs`), for any submission, sizes and number of faults: `SpecTypeOK`,
`SpecPostedOnce`, `SpecChained`.  The invariant `Thread` says that whatever is known belongs
to the attempt under way or recorded, and that the next part replies to the last known post;
so nothing is known before the first post, and a failed attempt leaves nothing behind.
`Fresh` says that the parts to come hold nothing that is posted, which starts with `PartsApart`:
the parts of a submission share no file and no link.  `PostedOnce` asks for different
links; a link that curators give twice is posted twice (section 9).
`SpecComplete` goes the other way, from what is not posted: by `PartsHoldEverything` every file and
link is in some part (a gallery cuts its images into groups that lose none), and the invariant
`Whole` says that, while nothing went wrong, each file of the part at hand is uploaded or still to
be uploaded, and what is in no post is in this part or in one to come.
`Settles` is left to TLC.


## 8. FeedReader

The feed generator serves pages of posts from the publish attempts; a cursor is the time and
uri of the last row read.  It keeps nothing between requests, so the state is the
reader's (`sfw`, `walking`, `cursor`, `page`) and the bot's (`rows`, `sourced`, `clock`).

**Actions.** `Record`, `RecordDuplicate` (a success that carries the error "already posted", under the
uri of the other), `Backfill` (the script that pins missing sources), `Reresolve` (a reply to a request
of a published submission resolves its links anew, and the source of a repost is pinned again, or lost
when its handle is not found or its link is replaced: `handlers.py:1359`, `1384`, `1427`, `ingest.py:361`),
`Open`, `Read`.

**Properties.** `NoneTwice` and `NoneSkipped`: a walk with pages of any sizes meets no post twice and
ends having met every post that was in the feed from its beginning on, while rows are added, several in one
moment, and reposts become visible in the middle of the feed, leave it and come back.  A repost that
left on the way may be missed: the code cannot do better, and `owed`, what the walk has still to meet, lets go of it.  A post is
an `at_uri`; two boards' reposts of one original are two posts, displayed as one uri, so that
the reader of the feed sees it twice.  `FairPage`: within a page boards
take turns.  These pull against each other, since a page is not displayed in
the order it is read in: the cursor must be the last row *read*.

**Run.** `reader`: two boards, one not safe for work; four rows, of which one a repost and one a duplicate,
two moments; pages of one to three.  Two moments and four rows have ties within and across pages.

**Proved** (`FeedReaderProofs`), for all boards, limits and bounds: `SpecTypeOK`, `SpecNoneTwice`,
`SpecNoneSkipped`.  The inductive invariant `IInv` says of a walk under way that no post after
the cursor was seen, be it in the feed at the moment or not (it may come back), and that everything owed is in
the feed after the cursor.  Two lemmas about pages carry the
argument: `PageOfNewest` (a page is a set of newest rows and not empty; by a least-element
argument over cardinalities) and `FloorIsOldest`.  The type invariant contains the fact
the cursor depends on: no two rows of a feed have one uri.  `SpecFairPage`: the sort by rank and time is
defined by places (the row at place `i` is the one that `i - 1` rows come before), so that `PageInOrder`
is an argument about injections between finite sets and needs no induction on a sequence.
`BoardsTakeTurns` then compares two boards through the next row of the one that still has some: its
rank is how many that board has had, and no row displayed before it has a higher rank.


## 9. What the code does that its comments do not say

One run is a refutation; its finding quotes the lines.

* `cancel_in_flight`: cancelling a submission while it is being posted goes through, and
  marking the message again posts it twice.

Others were met while modelling; they explain the provisos above.

* The catch-up relies on every handler being idempotent through `answered_at`
  (`client.py:865`).  Alt-text requests are answered again all the same (`handlers.py:1290`, `1391`):
  after a restart an old reply is written over alt text the edit form has set since.
* A source note replayed after a restart makes a second prompt, which can take back the note
  that was confirmed, and with it what made the queued submission complete.
* An image whose stored path leads nowhere fails as `unknown`, is tried again at every slot for ever, and
  pings the curators each time, and so does one over 975 kB that Pillow cannot open or encode
  (`publish/__init__.py:412`); a video in these cases fails as `local` and is blocked.  A
  submission with nothing to post fails as `unknown` too, and never ends either.
* Three submissions of this kind that are first in a board's order use up the failed
  attempts of every tick, and nothing behind them is ever posted (`scheduler/__init__.py:306`, `364`); so
  do twenty-five of them and of replies whose parents stay unpublished.
* A reply on a published repost, to whichever of its requests, makes it leave the feed when the handle of its
  original is not found at that moment (`ingest.py:361`).
* When an upload of several images fails for some, the rest is posted without them and the attempt
  counts as a success.  Images beyond the fourth are dropped after a video, and all sent without.
* A link given twice, by the message and by a reply or by two replies, is in the thread twice
  (`handlers.py:1350`).
* The second part of a submission that itself replies to an earlier one takes its own first post
  as root, not the earlier thread's.
* A metadata reply while `/reingest` gathers: the outcome of the old url is written over the new
  one by its row's id (`ingest.py:351`), which then reposts the wrong post.
* A submission removed while its content is gathered: the file is written into the directory of
  whichever submission has the id by then, and the outcome onto its rows.
* A removal whose notice is refused is rolled back after the files are gone
  (`handlers.py:780`).
* A stop between the beats of `/reingest` loses the rows it took down; alt text it kept is put
  back over a newer description given meanwhile; and a handler that waited for the lock works on the
  message as it was when fetched.

* A picked or in-flight submission's id may be reused: an unconfirmed submission is
  posted, or one is marked published that never was (`service.py:846`, `962`).
* The retry loop may map a message to a thread made for another, and make a second thread about a
  message: it rechecks what it scanned by the submission's id only (`client.py:1168`; the comment at 1156
  says the recheck under the lock is what keeps issue #52 from coming back).
* After a thread was deleted, a refused new thread is never retried: the retry loop looks for
  messages *without a mapping*, and the old mapping is still there (`client.py:1133`,
  `service.py:297`).
* A restart between creating a row and ingesting its message leaves it without links: at
  boot the row counts as known (`service.py:128`).
* In-transaction recomputes skip the per-submission lock (`base.py:39`): the butterfly
  and a reply may ask for the same thing twice, and a late record may delete the
  confirmation row that a newer recompute relied on, so that a ready submission has no Queue button.
  A butterfly's record may also ask for what was answered while its messages were sent; an answer
  to *that* request changes, or takes away, what made the queued submission complete.
* `/no_source` announces the waiver; when its recompute has more than plain text to post it
  raises, and the waiver is rolled back (`client.py:626`).
* `/reingest` checks the state before it fetches the message, and not again
  (`client.py:587`): it tears down what was queued meanwhile.  It drops links given
  by reply and asks again (`service.py:528`), and a restart between its beats loses
  the attachments (`service.py:548`).  When the submission was ready, or was queued meanwhile, and
  its message is older than the lookback, no catch-up sees it: what it now lacks is never asked for.
* A note or `/no_source` lets a message without link and media be queued; it can
  never be posted (`statemachine.py:456`).
* Of two source-note prompts, one confirmed and one discarded, the second removes the note of a
  queued submission (`handlers.py:1057`).
* A refused notice rolls the queueing back after the videos were added: they stay in the playlist
  without a row (`handlers.py:842`).
* The retry adds failed videos of submissions that have opted out or are gone, and both rows of a
  video that failed for two submissions (`scheduler/__init__.py:142`).
* Only the submission queued first has the row of a shared video: its opt-out takes the video
  away from the other, whose own opt-out does not (`handlers.py:1089`).
* The cross on the source post forgets rows whose video YouTube did not remove, and its notices
  reopen the thread it has just archived (`handlers.py:603`, `613`).
* `_playlist_close_ready` also blocks when there was nothing to add or another submission had
  added it (`statemachine.py:257` says "Blocks only if the auto-add hasn't been attempted
  yet"); the cleanup closes such a thread within minutes.
* Nothing resets `archived_at`: a thread the bot reopens after its first archiving is closed again
  only by a timer, and stays open for a `publish_failed` submission (`scheduler/__init__.py:58`).
* A pending archive closes the reopened thread of a submission marked again (`service.py:670`).
* The opt-out by emoji finds no submission: the id of its prompt is not stored
  (`service.py:426`).


## 10. Bounds

Every bound is a constant named `Max...`, used in the guard of the action it bounds:
people's changes, faults, ids, posts, threads.  The instances have two or three messages since
every property relates at most three submissions (a reply, its parent, its root;
two with one link), and one disturbance of each kind.  Ids are as few as possible, so that
reuse happens at once.  What the bounds leave out is covered by the proofs for every safety property.  Where several kinds of disturbance together would be too many states, `MaxEvents` (in `Ingest`:
`Budget`) bounds them together and leaves their choice and order open: any one in `intake`, any three in
`curation` and `intake_prompts`, any two in `ingest`.


## 11. Not modelled

* The order of the locks.  What holds the database lock waits for nothing the
  modules have, so that a transaction may be one step; that the three locks are never waited for in
  a circle is not checked.
* Two writers of one `.part` file; thumbnails and captured embeds, which are written like the
  metadata of a link; `backfill_videos` and `backfill_bsky_did`, scripts that write by row ids
  as `Persist` does and race in the same way.
* The batch limits of the playlist retry and the cleanup (50 rows): `Closes` and `Recovers` are about
  fewer.  The opt-out by emoji, which finds nothing.
* Texts, titles, embeds, the wording of posts, image and video handling, URL
  canonicalisation: data no property here depends on.
* The rows of submissions removed while they were being posted, which would come up in the feed
  of another submission when its id is used again.
* The graphic label: it blocks nothing.  The emoji twins of buttons: same handlers.
* In `Curation`, removal of the submission (it is in `Intake` and `Publishing`) and videos found
  behind a link.
* Wall-clock time: delays and the 168-hour lookback are nondeterministic choices
  or the constant `Recent`.


## 12. Plan

1. *Done:* `QueuePolicy`, `Feed`, `Publishing` with proofs; `Intake`; `Curation` with a first
   proof; `Closing` with proofs; `Ingest`; `Posting` and
   `FeedReader` with proofs.
2. *Done:* the safety properties of `Intake`, `Ingest`, `Curation` and the daily cap proved, and with
   `Complete` and `FairPage` every safety property of a run.
3. Left to TLC: the liveness properties, `Drains`, `Prompted`, `Recovers`, `Closes` and `Settles`.
4. `Posting` as the refinement of one attempt of `Publishing`.
5. `Locks` (message, submission and database lock; no cycle of waiting), and the batch limits in `Closing`.
