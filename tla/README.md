# Verification of Fathom

Fathom keeps one append-only *lake* of deltas in Postgres (the `delta-store`
service) and one *thread* of messages in it. Every surface (dashboard composer,
OpenAI-compatible endpoint, routines, task closures) appends to the thread; a
supervisor in the `api` service polls it and runs a *fire* of the LLM harness
whenever a user message is pending. Nothing else queues work: what is pending is
computed, at every poll, from the rows and the marks in the lake. These modules
model that core, the gate that protects it from an LLM provider that is down, the
table and the media directory underneath with what works on them in the
background, and what proofs can say about all that.

## Inventory

| part | state it keeps | operations | modelled in |
|---|---|---|---|
| thread (`api/thread.py`) | rows `kind:thread-msg`, marks `kind:tally-mark` in the lake | append, mark_addressed, build_window | `Thread` |
| supervisor (`api/loop/threaded_supervisor.py`) | two counters, the fire task | poll, gate, anti-spin, fire, cancel | `Harness` |
| fire (`api/loop/harness/threaded.py`) | the prompt, the snapshot of pending rows, ids the model addressed | window, turns, tools, claim, reply, error path, self-continuation | `Harness` |
| stop, dismiss (`api/loop/routes.py`) | none | cancel, cover the queue | `Harness` |
| LLM gate (`api/loop/llm_gate.py`, `llm.py`) | verdict cache, lock, probe slots, heartbeat debounce | is_down, claim_probe, heartbeat | `LlmGate` |
| delta store (`delta-store/deltas`) | the table, media files | write, upload, embed loop, reaper | `LakeStore` |
| its plans (`deltas/plan.py`) | none | search, then a timeline of strips | `Timelines` |
| its backups (`deltas/backup.py`) | `.state.json`, rotation, quarantine | cycle, tripwire, acknowledgement | `Backup` |
| routines (`api/routines.py`, `routine_scheduler.py`) | specs as rows, last fire times in memory | create, update, delete, tick, fire now | `Routines` |
| proposals (`api/routes/proposals.py`, `loop/harness/tools.py`) | rows for drafts and decisions | draft, policy, approve, edit, deny | `Proposals` |
| helper tasks (`kitty.js`, `inbox.js`, `claude_code_watcher.py`, `routes/helpers.py`) | open and known tasks, a state file, last minted ids | dispatch, open a window, join, report, wake the loop | `Helpers`, `Windows` |
| ACP plugin (`acp.js`, `acp_client.js`) | tasks under way and just ended, in memory | poll, run an adapter, its requests, report | `Adapters` |
| agent's pusher and sources (`pusher.js`, `homeassistant.js`, `vault.js`, `index.js`) | a queue; an object and a file per source | push, flush; poll, watch, reload, stop | `Pusher`, `Watchers` |
| browser extension (`background.js`, `popup.js`) | cool-downs, baselines, list of recent screenshots | navigate, blur, scroll, capture, pause, block, revoke | `Follow` |
| source runner (`source_runner.py`) | a status and a state per source, in memory and in files | add, pause, resume, remove, poll, write | `Sources` |
| vault producer (`sources/vault.py`) | texts of notes, `files.json` | poll, diff, tombstone | `Vault` |
| chat completions (`api/server.py`) | none | append a turn, wait for its answer | `Completions` |
| contacts (`api/contacts.py`, `auth.py`) | registry, profile rows, a cache per process | edit, disable, resolve; propose, accept, reject | `Contacts`, `Introductions` |
| identity crystal (`auto_regen.py`, `drift.py`, `crystal.py`, `crystal_anchor.py`) | crystals in the lake, a cache, an anchor, markers | check the drift, regenerate | `Crystal` |
| pressure and relief (`feed_pressure.py`, `loop/pressure.py`, `loop/relief.py`) | pressure and cool-downs, in files | tick, cascade, buttons, bite | `Relief` |
| mood (`api/mood.py`) | shifts and moods in the lake | wake, synthesize, force | `Moods` |
| feed orient (`loop/feed_orient.py`) | thumbs and crystals in the lake | thumb, check, regenerate, buttons | `Orient` |
| feed (`loop/routes.py`, `loop/puddle.py`, `loop/worker.py`) | the puddle in memory beside the lake | write twice, rehydrate, merge | `Feed` |
| bell (`routes/alerts.py`) | read marks in the lake | list what waits, mark all as read | `Bell` |
| recall (`api/search.py`) | an index for a minute | plan, clean, descend, ascend, think | `Recall` |
| standpoint (`api/standpoint.py`) | none | read identity, affect, endorsements, alerts, pictures; leave out what was refuted | `Standpoint` |
| export, import, migrate (`deltas/migrate.py`, `server.py`) | none beside the table | export, import with skip or overwrite, embed, backfill | `Transfer` |
| provenance centroids (`provenance_centroid.py`, `backfill_provenance_centroids.py`) | vectors in the table | average the cited moments, backfill | `Centroids` |
| drafting agents (`scripts/topical_agent.py`, `reflective_agent.py`) | none | pull a pool, group, draft summaries | `Drafters` |
| sessions, settings, providers, prompts, views, CLI, MCP node, dashboard, scripts | none of their own | read, forward | no |

What is hard here: everything in `api` is a coroutine of one event loop, so any
two operations interleave at every `await` (each one a lake or LLM call); every
lake call may fail, and most callers swallow the failure; fires are cancelled at
any await by the stop endpoint; the process may be restarted; rows expire; the
store drops rows that repeat their predecessor. `PROJECT.json` lists the
hazards at their lines.

Correctness, part by part: the *thread* may not lose a message nor call it
covered without an answer; the *supervisor* must keep draining the queue and not
spin; a *fire* may only cover what it read, answers a message once and a routine
alone; a *stop* leaves a consistent queue; the *gate* may neither let a dead
provider be hammered nor stay shut when it recovered; the *store* keeps media
and vectors consistent with rows, its *backups* the last good dump; *routines*
fire once per due time, and do fire; a *proposal* on record as approved has been
carried out, once; a *helper task* is put to a session once and its end wakes the
loop once; *sources* and the *pusher* write each thing once and in the end; an
*answer* finds its asker; an *administrator* remains; the *drives* keep their
distance and pass nothing over; *feed*, *bell*, *recall* and *timelines* show what
there is, once.

How the parts meet: everything outside the harness talks to it by rows. A surface
appends to the thread (`Post` in `Harness` stands for all of them); relief tiers,
routines and the watcher are surfaces, too, whose own bookkeeping is in `Relief`,
`Routines` and `Helpers`. A fire of the harness is a writer of shifts for `Moods`,
of cards for `Feed`, of drafts for `Proposals`, of answers for `Completions`. The
agent's plugins meet in the pusher's queue and in the inbox. No two of the
services below share a variable; what one does to another are environment
actions of the other's module, as unrestricted as the rows allow.

## Modules

`Thread` is the data: `thread` is the log (a row's id is its position),
`marks` the ids covered, `expired` the rows whose TTL is over. Rows are reduced
to role, kind, size (token estimate), chain depth and the ids they address.
`RollingWindow`/`Trimmed` are `tail()` without and with a token budget, `Pending`
is `build_window()["unaddressed"]` as the supervisor asks for it. One field,
`auto`, is history: it tells claims made by the harness' fallback from claims the
model named. `tail` and `unaddressed` are two queries; they are taken as one
read, as a mark that lands between them only shortens the answer.

`Harness` extends it with the three processes. Each await of
`_supervisor_loop`, `run_threaded_fire` and `stop_loop` that touches the lake or
the model is a state (`sup`, `fire`, `stop`), each piece of code between two of
them one action:

| action | code |
|---|---|
| `Poll`, `PollFails`, `Hold`, `AntiSpin`, `StartFire` | one turn of `_supervisor_loop` |
| `ReadWindow`, `ReadWindowFails` | `build_window` in the fire, `_select_pending_for_fire` |
| `ToolTurn`, `MarkAddressed`, `NextTurn`, `SayNothing`, `LLMFails` | the turn loop |
| `Respond`, `RespondAstray` | the `respond` tool or a plain-text answer; astray: it names only ids of no row |
| `ClaimMark`, `ClaimsDone`, `AppendReply` | the address claim: marks first, then the reply |
| `ContinueInquiry` | `_maybe_continue_inquiry` |
| `AppendError`, `ClaimMark`, `ErrorClaimsDone` | the error path: reply first, then marks |
| `StopRequest`, `StopReads`, `StopMarks`, `StopReturns` | `cancel_active_fire` and `stop_loop` |
| `Dismiss`, `Post`, `ErrorRowExpires`, `GateClears`, `Restart` | the outside |

`down` is the gate's verdict with all its timing abstracted: a failed call may
close it, at any later time it may open, and while it is closed the supervisor
may hold or probe. `LlmGate` has that timing.

`LlmGate` models the hard tier's gate with a discrete clock: the newest error
and heartbeat rows with the time they have left, the duplicate check of the
store and the reaper, the verdict cache stamped with the time its reader *asked*,
the lock, the two queries, the probe slots, the debounce that is charged before
the write, and the fire's end dropping the cache. The supervisor and one
background producer (feed-orient) are the askers. Not in it: a restart (which
empties cache and slots), and anti-spin spending a probe slot without a fire,
which only makes probes rarer.

`LakeStore` models the table `deltas` and the media directory with the three
parties that work on both: writers, `reap_loop` and `embed_loop`.

| action | code |
|---|---|
| `Upload`, `UploadBegins`, `UploadEnds`, `UploadBreaks` | `ingest`: it finds a file of that name, or opens one, which is whole only when all of it is written |
| `Refer`, `WriteMediaRow`, `GiveUp` | an engagement snapshot takes the hash over from a row it reads; `write` with a hash; a client goes away |
| `WriteTextRow`, `WriteProvenance`, `Backfill` | `write`; with a centroid; `update_provenance_embedding_only` |
| `Reap`, `DeleteFile` | `reap_expired`, then the loop of `reap_loop` over the orphans |
| `EmbedFetch` ... `EmbedStore` | one batch of `embed_loop`: `unembedded`, the vectors of all texts, then row by row the file's path, its vector (a file that is gone or not whole raises) and the update; an exception drops the rest of the batch |
| `Expire`, `Restart` | time, `lifespan` |

A row is its image, its life, and which vectors it has (`axis` says what is in
`provenance_embedding`); its id is its place in the order of insertion, which
stands for the order of timestamps. Deleted rows keep their place, so that an
update by id can miss. Left out: rows replaced under their id, contents (so a
write dropped by the duplicate check is no step), provenance rows with images
(none are written), the webhook at the end of a batch. A file that was written
half-way stays under its name and is never written again, as later uploads find
it; while it is being written it counts as damaged, too. `reap_expired` is one
step: it is one transaction, and a row inserted between two of its statements
counts as inserted before or after it.

`Queue` is what the loop promises to whoever posts a message: an inbox with one
worker, who takes a batch, strikes its messages off and answers the batch as a
whole, with every fault accounted for as an excuse. `Harness` maps the
loop to it: messages are the user rows of the thread, the list is the marks, the
batch is what the fire claims. TLC checks the mapping as the property
`WorksTheInbox`, and `HarnessProofs` proves it.

The services are modules of their own:

| module | of the code | the hard part |
|---|---|---|
| `Backup` | `run_cycle`, `_classify`, `_rotate`, `ack` | cycles and acknowledgements cross, crashes between a move and the state file |
| `Routines` | `create`, `update`, `soft_delete`, `fire`, the scheduler's `_check_once` | requests are a read and a write of the newest row; ticks, tombstones and restarts come between |
| `Helpers` | the inbox, `kitty.js`'s polls and state file, the watcher's gather and ticks | a dispatch comes back with every poll; the end of a task comes between two queries; a closure without content passes and wakes nobody |
| `Windows` | `kitty.js`'s way of typing a prompt | two dispatches type into one window, which may be slow, closed or given up |
| `Adapters` | `acp.js`, `acp_client.js`, `inbox.js` | a task is known in memory only; reloads, exits, time-outs and late replies; its end is looked for among the rows of a day only |
| `Pusher` | `pusher.js` | flushes overlap and failed posts change the order |
| `Watchers` | `homeassistant.js`, `vault.js` of the agent, `index.js`, `local-ui.js` | a reload while a poll is under way, a file older than what was pushed |
| `Follow` | `background.js`, `popup.js` of the extension | a capture reads settings, page and picture at different times |
| `Sources` | `_poll_source`, `run`, the requests | items are seen and written in two steps, by two pollers, on objects that may be replaced |
| `Vault` | `VaultProducer.poll` | a text is remembered before its row is written, and `files.json` after |
| `Completions` | `chat_completions` with its two ways to wait | rows of other turns, errors, hang-ups and deadlines |
| `Contacts` | `update_profile`, `disable`, `resolve_contact` | the guard and the cache read before they write |
| `Introductions` | `propose`, `accept_proposal`, `reject_proposal`, `list_proposals` | an acceptance is five calls |
| `Proposals` | drafts, the policies, approve, deny | the deed and its record are two writes, each of which the store takes as a look and an insert |
| `Crystal` | `_check_once`, `refresh_crystal`, the caches | a check straddles a regeneration |
| `Relief` | `pressure_watcher`, `pick_tier`, `fire_relief`, `fire_pulse` | stamp, post and bite are separate steps of two actors |
| `Moods` | `maybe_synthesize_on_wake`, `synthesize_mood`, the shift of a fire | a mood is the boundary of what was read, and is written much later |
| `Orient` | `_run_regen`, `on_engagement_written`, `force_run_regen`, `engage_card`, the tool `orient_shift` | the same for thumbs and crystals, with one regeneration at a time |
| `Feed` | `get_feed`, the puddle, the double writes, rehydration | two copies of a thing, one of which hides the other |
| `Bell` | `list_alerts`, `mark_all_read` | four queries, each with a limit of its own, make one answer |
| `Recall` | `_shallow`, `_deep`, the result's clean-up, the ways down and up, `_synthesize_thinking` | a shared index built of two queries |
| `Timelines` | the search and the timeline step | the lake goes on between two queries; windows touch and overlap |
| `Standpoint` | `current` and its five loaders | seven queries with limits and look-backs make one picture, while rows arrive |
| `Transfer` | `export_iter`, `import_batch`, `migrate`, the embed loop | rows are replaced under an id whose vector is being computed |
| `Centroids` | the centroid of a write, the backfill | cited moments get their vectors, and summaries their centroids, at different times; a layer may be wider than a request |
| `Drafters` | the two agents' runs | rows come and go between the pull and the post |

`MCHarness`, `MCLlmGate` and `MCLakeStore` are the modules TLC runs for the core.
`MCServices` runs the services: as they share no state, a behaviour chooses one of
them at its start - its `part` - and the others stay at their initial states, so
that the states of the parts add up instead of multiplying. It EXTENDS the
modules that are also proved about or run by themselves (`Routines`, `Helpers`,
`Backup`, `Sources`, `Contacts`, `Proposals`, `Moods`, `Orient`, `Completions`, and
`Adapters` and `Windows` as one, `Plugins`; `Crystal`, `Relief`, `Follow` and
`Feed` as `Drives`; `Pusher`, `Watchers` and `Transfer` as `Deposits`; `Introductions`, which EXTENDS `Bell`; `Vault`;
`Standpoint`, which EXTENDS `Recall`; and `Timelines`, which EXTENDS `Centroids`, which
EXTENDS `Drafters`); a property is the conjunction of the parts' properties of
one kind, each asked when its part runs, the others being at their initial state. Some modules come as two parts
with different bounds, since their whole space is too large at once: `helpers`
(one poll at a time) and `overlaps` (two polls, the watcher stands still);
`source` (one poller, all items) and `polls` (two, one item); `admins` and
`visits` of `Contacts`; `adapters` and `errands`; `pleas` and `chimes` of `Bell`;
`thumbs` (no flaws) and `flaws` (two signals) of `Orient`; `recall` (time stands
still), `index` (three memories) and `layers` (summaries of summaries, then a recall); `accepts` and `lists` of `Introductions`;
`shots` and `scrolls` of `Follow`; `refutes` and `sights` of `Standpoint`. All
values are in the cfg files. Definitions marked "Variant" are plausible bugs used
to see that each property can fail.

## Runs

| run | bounds | shows |
|---|---|---|
| `MCHarness.cfg` | window 3, 2 posts, 1 continuation, 1 fault, 2 tool turns, anti-spin after 2 | `ClaimsOnlyShown`, `CoveredIsAnswered`, `NoSecondReply`, `RoutineAnsweredAlone` hold, and the loop implements the inbox (`WorksTheInbox`), about 1.6 million states |
| `MCHarnessLive.cfg` | window 2, 2 posts, 1 fault, no continuations, anti-spin after 1 | `QueueDrains`: the queue is empty again and again |
| `MCHarnessChain.cfg` | 1 post, no fault | `ChainsAreBounded` is **violated**: see below |
| `MCHarnessBudget.cfg` | window 4 rows or 2 tokens, 2 posts, no fault | `NothingVanishes` is **violated** |
| `MCLlmGate.cfg` | cache 2, probe 3, debounce 2, row life 4 ticks, a read takes at most 1 | `FiresArePaced`, `GateReopens` hold |
| `MCLlmGateHeartbeat.cfg` | the same | `HeartbeatFlipsGate` is **violated** |
| `MCLakeStore.cfg` | 3 rows, 1 image, 1 writer, batches of 2, 1 fault | `SharedMediaSurvives`, `CentroidsAreKept`, `EmbeddingCatchesUp` hold (about 370 thousand states) |
| `MCLakeStoreMedia.cfg` | 2 rows, no fault | `MediaOutlivesRow` is **violated** |
| `MCServices.cfg` | each part small, 1 failure or restart (2 lost posts) | the safety of 23 services in 32 parts (about 660 thousand states) |
| `MCServicesLive.cfg` | routines, helpers, sources, completions, pusher, adapters | the safety of the first three, and what must happen in the end, for all of them, in 9 parts (about 84 thousand states) |
| `HelpersClosures.cfg` | 1 task, 1 poll, nothing goes wrong | `EndsWake` is **violated** |
| `ContactsAdmins.cfg` | 2 administrators, 2 edits at once | `AnAdminRemains` is **violated** |

The properties of the two services runs, by the part that can break them:

| property | parts | says |
|---|---|---|
| `ServicesTypeOK` | all of `MCServices.cfg` | the type invariant of the part that runs |
| `FiredOnce`, `DeletesTakeEffect`, `DueFires` | `Routines` | a moment fires once, a `single_fire` row is taken up once; a delete deletes; what is due fires |
| `HelpersActOnce`, `EndsWakeIfLast` | `Helpers` | a task is put to a session once, unless an overtaken poll moved the cursor back, and wakes the loop once for its end; it does wake it if the session says nothing more and its last closure says something |
| `PromptedOnce` | `Adapters`, `Windows` | a task is asked of an adapter once, but for each time that its end got out of the window in which ends are looked for; a prompt is typed once, as one line of its task's window |
| `TasksEnd` | `Helpers`, `Adapters` | lost windows and failed adapters are reported |
| `SeenAreWritten`, `WrittenOnce`, `EverythingGetsIn` | `Sources` (and `Pusher`) | what counts as seen was written; once, unless something went wrong that is named; in the end it is |
| `NothingTwice` | `Pusher`, `Watchers`, `Transfer` | no delta twice, no echo after a reload; an import skips or spares what is there, and vectors are those of their rows |
| `NotesAreTold` | `Vault` | the rows of a note tell its story as far as `files.json` vouches for it |
| `LastGoodIsKept`, `NoGreatLossUnacknowledged` | `Backup` | the last good dump is there; a great loss needs an operator |
| `AnswersFindTheirAsker`, `AnsweredTurnsReturn` | `Completions` | a client gets the answer to its turn, once; it does get it |
| `AnAdminRemainsUnstrained`, `CachedRolesWereTrue` | `Contacts` | see Proofs |
| `ApprovedIsDone`, `DoneOnce` | `Proposals` | the record never runs ahead of the deed; the deed is done once, but for writes that overlap in the store |
| `DrivesAreSpaced` | `Crystal`, `Relief`, `Follow` | regenerations, tiers and screenshots keep their cool-downs |
| `ShiftsAreHeard`, `ThumbsAreHeard` | `Moods`, `Orient` | what lies behind the boundary has been read |
| `StripsAreTrue` | `Timelines`, `Centroids`, `Drafters` | every anchor once, strips in order and apart, holes only where windows were joined; a summary is drafted once, of what was pulled, and averaged over the moments below it |
| `FeedIsTrue` | `Feed`, `Follow` | what is owed is shown once; a picture is of its page, nothing is taken while paused |
| `AlertsAreTrue` | `Bell`, `Introductions` | what waits within the limits of the queries is listed, what is decided is not; an acceptance leaves a contact |
| `RecallIsTrue` | `Recall`, `Standpoint` | a row once, its summaries with it, no thought called self-referential that is not; what was refuted is not told, and what is current is |

The bounds are enough for the cases that matter: two messages make a queue in
which one is answered and the other lands during the fire, or one waits behind
the other; one fault is a failed mark, a failed append, a stop, a dismissal, a
silent model or a restart at any point of any fire, with two to three fires
following; three rows make the window shorter than what two posts, their replies
and a continuation produce. The clock constants keep the code's order
(`AskTime < CacheTTL`, `Debounce` and `CacheTTL` below the probe interval, that
below the row life), which is what the gate's behaviour depends on.
For the store, three rows are one more than a batch: two newer rows can stand in
front of an older one, and two can share the image while the third is reaped.
One image and one writer are enough for that, as writers meet only in the table
and in the directory; the safety properties are proved for any number besides.

In the services, what meets is pairs: two operators and the scheduler on one
routine, two requests of one session, two flushes, two syntheses, two checks, two
administrators accepting, two captures, two polls. One failed call or restart (in
most of them bounded by a constant of its own, `MaxFaults`, `MaxMishaps`,
`MaxSlips`...) can fall on any step of any of them; the pusher has two, so that a
delta may be lost twice. Four dumps are what it takes for a rotation of one to
drop a dump after a quarantine and an acknowledgement; the `Counts` of rows are
one per tier of the tripwire and an empty lake. In the parts that are proved
about for every bound, trouble falls on short behaviours only: on up to three dumps of
`Backup`, two rows of `Moods`, one edit of the `visits`, two events of `Vault` and three
memories of `recall`; a failed call meets no restart in `Feed` and no button in `Relief`; and calls of
`Completions` that fail are in the live run alone. Three moments of a clock are one
beyond a cool-down of two. `Recall` has six memories in `layers`: two moments and four summaries, which is one layer, and
one summary, more than an answer shows. `Timelines` starts from 85 tables of five rows, which is enough
for two windows that touch, overlap, or lie apart, around collapsed runs. `Bell` reads one
era (`EraLimit`), so that one newer row is enough to hide it; the walk of a centroid reads three
ids a request (`BatchCap`), one less than the widest of `MCLakes`' layers; the window of `Adapters`
leaves up to three rows behind (`MaxAged`), a dispatch, a spawn and their end, in the
part `errands` of the safety run. To keep their spaces small, an operator who approves a helper
twice, or edits, meets no lost call in `proposals`, and a log of `helpers` has closures that say
something or closures that do not.

`MaxRows` stops new fires when the log is long, the only reason why the
`MCHarness.cfg`, `MCHarnessChain.cfg` and `MCHarnessBudget.cfg` runs may stop
and do not check deadlock; the liveness run and the gate runs do. The `LakeStore`
runs do not either, as a store with `MaxRows` rows and nothing left to expire or
embed stands still, nor do those of the services, where users, clocks and faults
are bounded and a service without work rests.

What the violated properties show of the code:

* *Chains.* The ceiling of three self-continuations reads the depth only from
  the rows of the fire's snapshot that the reply claims. A model that answers a
  continuation while naming another message (or an id it made up) restarts the
  chain at depth 1, without end.
* *Vanishing intent.* The window is the newest 15 rows. A message that is
  pushed out before a fire covers it is neither answered nor visible as pending
  again; a large newest row makes that easier, as fires trim their window to a
  token budget that the supervisor's poll does not know.
* *Heartbeat.* A heartbeat's content is the model's name, its tags never change,
  and the store drops a row that repeats the newest one with its source and tags.
  While an old heartbeat is in the table (an hour plus the reaper's interval) a
  successful probe leaves no newer row, and the gate stays closed until the error
  row itself expires.
* *Media.* The reaper lists orphans in its transaction and deletes the files
  afterwards. An upload of the same bytes in between finds the file and skips
  the write, or an engagement keeps the hash of a row that is being reaped; the
  row written next has no file. `SharedMediaSurvives` is what does hold: rows
  that were there when the transaction committed keep their image.

* *The end of a task.* The watcher skips a closure that is not above the newest
  row it has minted for the task. A session's row that arrives after its closure,
  and before the gather no longer lists the task as active, raises that mark, and
  the loop is never woken for the end. `EndsWakeIfLast` is what holds.
* *Administrators.* The guard of the last administrator counts the others and
  then writes; two edits at once each count the other's target.
  `AnAdminRemainsUnstrained` is what holds, and is proved.

What the embed loop does with a row that has lost its file is not wrong, but
worth knowing: it stores the text vector, never an image vector, and finds the
row again in the next batch, so that the loop never sleeps while such a row is
there. With as many of them as a batch holds, all newer, older rows are never
embedded. A file that is there but cannot be decoded is worse: `embed_image`
raises, which drops the rest of the batch, and every batch begins with the newest rows, so
that one such row keeps all older ones from being embedded. `EmbeddingCatchesUp`
therefore speaks of rows that are newer than any with a damaged file, and assumes that rows
without a file are fewer than a batch.

### Stated, but broken

Each of these is a definition of its module that TLC breaks when it is asked; it
says what a reader of the code (or of a comment quoted there) may expect. What is
checked instead holds and is named beside it.

| stated | module | checked instead | what breaks it |
|---|---|---|---|
| `EditsTakeEffect` | `Routines` | `DeletesTakeEffect` | two requests read the same newest row; the later row undoes the earlier edit |
| `LockdownIsSticky` | `Backup` | `NoGreatLossUnacknowledged` | the next cycle finds the rows back and unlocks by itself |
| `ErrorsAreMarked` | `Completions` | `AnswersFindTheirAsker` | the stream sets `finish_reason` back because it has sent something |
| `StopFlushes` | `Pusher` | `PushedOnce` | the process exits right after the last flush has started |
| `EditsTakeHold` | `Contacts` | `CachedRolesWereTrue` | demoted, promoted by another and demoted again repeats a row, which the store drops |
| `OneTierATick` | `Relief` | `TiersAreSpaced` | the watcher posts again before it sleeps |
| `MarkerStays` | `Crystal` | `RegensAreSpaced` | a read that began before a regeneration ended puts an older crystal's time into the marker |
| `EntriesAreCounted`, `CountsAreTrue` | `Timelines`, `Transfer` | `StripsAreTrue`, `TransfersAreTrue` | a run counts a burst folded before as one; rows of a transaction that fails are counted |
| `NoShiftIsPassedOver`, `RecoveredIsNotStale` | `Moods` | `ShiftsAreHeard` | a shift lands while the model is asked; an error stays until it expires |
| `WholeStory` | `Vault` | `NotesAreTold` | a note that comes back stays deleted in the lake; the second of two edits that read the same is dropped |
| `ReloadsAreQuiet`, `ReloadsDontEcho` | `Adapters`, `Watchers` | `AskedOnce`, `NoEchoes` | a plugin is reloaded while an adapter, or a poll of the old object, is under way |
| `EveryCardIsShown`, `PendingStays` | `Feed`, `Bell` | `ShowsAll`, `PendingIsListed` | a card without a row is hidden by the next one of its reply; proposals that others crowd out of the query |
| `ButtonsAreSpaced` | `Orient` | `FewWait` | the button reads the crystal before another regeneration ends |
| `NearIsHeard`, `GroundedCites`, `OwnTurnsStayOut` | `Recall` | `RecallIsTrue` | a plan that filters first; the mark looks at all rows, the citation at the first ones; what a summary cites is not cleaned |
| `OneWindowATask`, `LinesArePrompts`, `OverIsOver` | `Windows` | `PromptsAreWhole`, `TypedOnce` | a dispatch before the socket opens makes a second window; a slow window gets the prompt of a task given up |
| `OneContactAnIntro`, `RejectedIsNoContact` | `Introductions` | `IntroductionsAreTrue` | nothing looks for a tombstone before an acceptance, and a tombstone may be lost |
| `ShotsAreOfTheirPage`, `BlockedIsNotSeen`, `RevokedStaysAway`, `ManualIsTaken` | `Follow` | `ShotsAreTrue` | the page, the settings or the list change during a capture; a blur starts the cool-down again |
| `RefutedStaysAway` | `Standpoint` | `StandpointIsTrue` | a refutation beyond the limit or the look-back of its query |
| `CountedOnce`, `TopicsSpan` | `Centroids`, `Drafters` | `CentroidsAreTrue`, `DraftsAreTrue` | a moment cited by two summaries; a topic of one episode |

### Observations

What the modules had to say, and no comment denies:

* *Harness.* `witness._dispatch_card`, `_should_suppress_alert`,
  `_judge_and_followup`, `_call_judge` and `router.get_engagement_crystal` have no
  live caller, nor has `feed_pressure.mark_wake`.
* *Helpers.* `kitty.js` polls with `setInterval` and no guard: a poll overtaken by
  the next one sets `state.task_seen_at` (line 366) back, and the tasks in between
  are put to a session again. Two dispatches before the socket exists open two
  windows; a spawn without a display enters `openTasks`; `fire()` has no caller.
  An operator's second approval dispatches the task twice, and the drafting tool
  answers "pending" also when the policy has approved. A closure without content, which
  `routes/helpers.py` (325) lets in, raises the watcher's mark and wakes nobody, also when it
  is the last one of its session.
* *Sources.* A failing poll of a source that was removed overwrites the state file of the
  one added since under its id; after a restart its items are written again. Two
  notes `a/b.md` and `a__b.md` share a state key.
* *Agent.* `vault.js` stores what it has seen before the delta is posted, writes
  no tombstone for what was deleted while it was off, and calls an image uploaded
  before the upload ends; `acp.js` starts its cursor at a minute ago, `close()`
  waits without limit, and a lost answer to a `complete` reply is followed by an
  `error`. The dispatch at its cursor comes with every poll, and only a completion of the last
  24 hours, among the newest 500, hides it (`routes/helpers.py` 215-219): on a quiet host the last
  task is put to its adapter again a day later, and again, though nothing failed.
* *Drives.* A partial `mark_synthesis` on a stale read brings pressure back; a
  failed read of the volume counts as no rows; two fires at once both pass a
  cool-down. `_within_cooldown` sets `_last_fired_at` to a crystal's time also where a
  regeneration has ended since it began to ask, and so forgets a rejection.
* *Lake.* A plan step may refer to itself; `union`, `intersect` and `diff` use their
  first two operands only, so the step of the session (`search.py` 181-185) adds
  nothing. A failed statement of an import takes the whole transaction back while
  its counts are reported; an overwriting import keeps the old vectors; the embed
  loop and the backfill may store the vector of a text since replaced; `migrate`
  counts nothing as skipped. The check for a row that repeats and its insert are two statements
  on the pool (`store.py` 165-211), so that two approvals at once are both carried out. An
  image that was written half-way is never written again (`media.py` 67-68). A centroid's
  walk marks a layer's ids beyond 500 as seen though the store reads the first 500 only
  (`server.py` 505).
* *Feed and bell.* Bridge rows expire with their mirror though `get_feed` calls them
  durable; rehydration during a bridge shows a card twice; a thumb that repeats is
  dropped; marking all as read marks what was never listed; an era with twenty newer provenance
  rows, of any level, is not listed. An approval cuts
  off `from_ids` above 60 and reports them all.
* *People.* An identical contact proposal is dropped while the old row is there; the
  list's window of twice its limit can bring resolved ones back; a failed resolution leaves
  the proposal open with its slug taken.
* *Standpoint and recall.* Twenty newer crystals of the feed hide the identity, more
  than sixteen newer pictures of one source those of the others. A partial index
  after a failed read is kept for a minute.
* *Drafting.* `reflective_agent.py` drops ids that only `expand` has shown despite
  its comment and posts summaries with empty `from_ids`; a draft the store dropped
  is counted as written.

## Fairness

Weak fairness of the supervisor's, the fire's and the stop handler's next step:
the event loop resumes every coroutine whose await has ended, sleeps end, and
the LLM client has a time-out; the model's choice *which* step it is stays open,
as turns are counted. Weak fairness of `GateClears`: the error row lives one
hour, after which the gate reads "up" (`LlmGate`'s `GateReopens` shows it). Posts,
faults, expiry and dismissals have none. Self-continuations are switched off in
the liveness run: with them a model may talk to itself for ever, which is what
`ChainsAreBounded` is about. In `LlmGate` the clock ticks, queries and calls
return, and the lock is handed on in order (`asyncio.Lock` is FIFO), which is the
strong fairness of `TakeLock`. In `LakeStore` the two loops take their next step
(weak fairness of `Reaper` and of `Embed`): they are tasks of the service's event
loop, every exception brings them back to their first line, and a reap comes
round every `REAP_INTERVAL`. Writers, the clock and faults have no fairness.

In `MCServices` each part states its own, as the premise of its liveness
property (`RoutinesFair`, `HelpersFair`, `SourcesFair`, `CompletionsFair`,
`PusherFair`, `AdaptersFair`), all of them weak: the scheduler's loop and a
request under way take their next step; the watcher ticks, the kitty and ACP
plugins poll on a timer, and a row on its way lands; the loop of a source and a
poll begun go on; a client's wait polls every so often until its deadline; a
flush is posted and answered. Users, operators, the files and feeds outside, the
model's answers and everything that goes wrong have none.

## Proofs

Each theorem holds for every value of the constants that meets the module's named
assumption; these are types and the few orders the code's own constants have.
Every proof has the same shape: an invariant that says what the state of each
actor has to do with the shared rows, one lemma per conjunct or per action, facts
about appends, queries and maxima first, `PTL` last. TLC has checked every
inductive invariant below on a run's instance before it was proved.

**`HarnessProofs`**, for every window size, budget, ceiling and number of posts,
faults and continuations, from `WindowAssumption` and `HarnessAssumption`:

* `TypeCorrect`: `TypeOK`. Inductive together with `CountersInv`: the model is
  only asked while turns are left, and a fire that has not read its window has
  made no call.
* `FiresCoverOnlyWhatTheySaw`: `ClaimsOnlyShown`, inductive with `ShownInv`: the
  window, the snapshot, the addressed ids and the claims of the fire in flight
  have all been in a prompt.
* `CoveredMessagesAreAnswered`: `CoveredIsAnswered`, inductive with `CoveredInv`:
  on the error path the reply is in the log before the marks.
* `RoutinesAreAnsweredAlone` and `FallbackAnswersOnce`: `RoutineAnsweredAlone` and
  `NoSecondReply`, inductive with `LoggedClaims` (ids claimed by a fallback reply
  are marked or were missed) and `FireClaims` (the same for the claims of the
  fire in flight, and a snapshot holds no id already covered when it was taken).
* `LoopImplementsInbox`: the refinement `WorksTheInbox`. The initial state maps to
  the inbox's, and each action to a step of it or a stutter, under
  `RefInv` (types, `CoveredIsAnswered`, and `InHandInv`: what the fire claims is the
  inbox's batch). The safety part only: the inbox's promise to drain is `QueueDrains`.

**`LakeStoreProofs`**, for any set of writers and images, any batch size and any
bounds, from `StoreAssumption`:

* `StoreTypeCorrect`: `TypeOK`, inductive as it stands. Its steps rest on
  `TableStep`: whatever a step does to the table is an insert at the end, the
  replacement of one row or the reap's transaction, and each of the three keeps
  every row's place, image, tags and centroid.
* `CentroidsSurvive`: `CentroidsAreKept`, from the same lemma.
* `SurvivorsKeepTheirImage`: `SharedMediaSurvives`, inductive with `Sparing` (no
  file to be deleted belongs to a row that the reap left) and `OnlyOrphansGo`
  (no step removes another file). `SharedMediaSurvives` by itself says nothing of
  what the reaper has on its list, hence the strengthening.

**`LlmGateProofs`**, for any clock constants in the code's order and any number of
ticks, probes and faults:

* `ProbesArePaced`: `FiresArePaced`, an action property: while rows say that the
  provider is down, the hard tier calls it once per probe interval. From `GateInv`: the
  history of calls matches the probe slots (`HistoryInv`), cache and reads are no
  older than their age allows (`CacheIsAged`, `ReadIsAged`, `WaitIsAged`), and an
  asker's own read is what the table said when it asked (`OwnReadIsTrue`).

**`OperatorsProofs`**, for any operators, people, requests, proposals, marks and bounds; of
`Introductions`, from `IntroductionsBounds`, that the word for "no slug" is no slug and the
limit of a listing a number; of `Bell`, from `EraLimitAssumption`, that its limit is one, too:

* `RecordFollowsDeed`, `DeedsAreDoneOnce`: `ApprovedIsDone`, `DoneOnce` of `Proposals`,
  inductive with `DeedBeforeDecision` (whoever is about to record an approval has done
  the deed, or the store has found it done) and `WaitingOnce`: rows as the draft has them
  that are written or on their way into the table (`Waiting`) are one, and one more for
  each that passed the check while another was on its way (`OneMoreWaits`); a row that lands
  was counted before (`DeedLands`), and one that is lost only makes them fewer (`FewerWait`).
* `CachedRolesAreTrue`: `CachedRolesWereTrue` of `Contacts`, inductive with
  `HeldSince` (a cached role was in the table at a moment within the TTL) and
  `VisitsAreTrue` (so is what a request has read and not yet cached).
* `TheGuardKeepsAnAdmin`: `AnAdminRemainsUnstrained`, inductive with `OneAtATime` (no
  two edits have passed the guard) and `StillStands` (the other administrator that
  an edit has counted is still there).
* `AnswersReachTheirAsker`: `AnswersFindTheirAsker` of `Completions`, inductive with
  `RowsLookBack` (a row addresses earlier rows only, so that rows to come change no answer),
  `OwnIsOwn` (the turn a request knows is its own) and `OpenIsUnfinished`.
* `WhatWaitsIsListed`: `PendingIsListed` and `UnreadIsListed` of `Bell`, inductive with `BellInv`.
  Nothing a listing began with is taken back (`SinceIsOld`); a proposal that waited then has
  been found to wait, has been decided, was crowded out, or is among those still to be asked
  for (`PleasAreAsked`); what is newer than the receipt is listed or will be with the
  eras (`NewsIsSeen`), unless so many provenance rows came after it that the query for the
  eras leaves it out, which later rows do not mend (`OutrunStays`); and unless marks cross,
  the last receipt is the greatest (`LastIsGreatest`), so that the one a listing has read is no older than those of its beginning
  (`ViewIsRecent`).
* `IntroductionsComeTrue`: `IntroductionsAreTrue` of `Introductions`, inductive with `IntrosInv`.
  An acceptance under way has made its slug known and, if no call failed, has bound the
  handle by the time of its tombstone (`AcceptancesAreNamed`, `BoundAreKnown`); what was
  resolved when a listing began still is (`LookIsTrue`); and a query whose limit is no
  less than what there is returns all of it (`LatestAreAll`). The induction showed that a
  listing says nothing of what is open once there are more tombstones than it reads, as it
  already said nothing of what is closed: the property is stated for less rows than that.
* `AlertsStayTrue`: both together, `AlertsAreTrue`.

**`ErrandsProofs`**, for any tasks, polls, users, forms, clocks and bounds:

* `TasksActOnce`: `HelpersActOnce`. The agent's side (`AgentInv`): a task has one
  dispatch, and once it was put to a session, the cursors in memory and in the file
  lie behind it (`OneDispatch`, `CursorsPass`, `PutToSessionsOnce`). The watcher's side (`WatcherInv`): a wake is
  for an end behind the mark of its task, the end in hand has its mark but no wake (`WakesArePast`,
  `HandIsNew`, `ClosingAreEnds`, `WokenOnce`); a closure without content raises the mark as well.
* `RoutinesFireOnce`: `FiredOnce` of `Routines`, inductive with `CronInv`: the
  scheduler's memory has every moment that fired, or the row of that fire is what a
  restart reads (`FiresHaveSeen`, `SchedulerKnows`), moments before the clock are covered
  (`TicksCover`, `LastCovers`), and a single fire that was taken up is over
  (`ShotsAreOver`, `ShotIsNew`).
* `DeletedIsDeleted`: `DeletesTakeEffect`, inductive with `DeletesHaveRead`.
* `ErrandsAreAskedOnce`, `PromptsAreTypedOnce`, and of the two `PromptsArePutOnce`:
  `PromptedOnce`, what the agent's plugins promise. `Adapters`: a task that was put to an
  adapter and is not under way has its end in the inbox, where every poll under way has
  seen it or will, or is remembered as just ended for as long as a poll runs that has
  not; or the end got out of the window since, which is counted when it can matter: while
  the dispatch is not behind the cursor, or not behind what a poll under way asks from
  (`Unhidden`, `EndIsLost`; rows are passed by the cursor in order, and polls take less than
  a day). `Windows`, from `WindowBounds`: a window in which nothing crossed has at most one
  dispatch under way; its prompt is a line of the window once it is typed, the line of
  that task and the only one; and the window is not up yet only while that dispatch waits.

**`DepositsProofs`**, for any items, pollers, deltas, flushes, things, polls, keys, rows, notes,
caps and bounds, from `WatchersBounds` (there is a first start), `TransferBounds` (the value that
says that there is nothing is no id and no content) and `VaultBounds` (notes are finitely many
and have numbers, which are the order of their paths):

* `NothingIsSkipped`: `SeenAreWritten` of `Sources`, inductive with what each poller has in hand.
* `NothingIsWrittenTwice`: `WrittenOnce`, inductive with `OnceInv`: what the lake has was
  in the feed (`LakeIsFed`), an item is there once or was excused (`OnceOrSmudged`), what
  a poller is going to write is not there unless excused (`ToDoIsNew`), at most one
  poller writes for an object (`OneWriter`), and its object has seen what it wrote
  (`WritersHaveSeen`, `SourceHasSeen`).
* `DeltasArePushedOnce`: `PushedOnce` of `Pusher`, inductive with `PusherInv`: a delta waits in
  one place only, of the queue or of one flush (`QueueOnce`, `BatchesOnce`, `QueueApart`), and
  one that waits is in the lake only if the answer to its post was lost (`QueueIsNew`,
  `BatchesAreNew`).
* `WatchersDontEcho`: `NoEchoes` of `Watchers`, inductive with `WatchersInv`: the state file has
  what was seen, of notes as long as the plugin does not run (`FileIsCurrent`); what the
  watcher has reported was seen (`ReportsAreSeen`); notes are not polled
  (`NotesAreNotPolled`). A step appends to the rows of a thing (`PushedIsNews`), moves
  the head of the queue to the lake (`PostingTellsChanges`), or leaves the rows as they are
  (`OtherRowsStay`).
* `TransfersStayTrue`: `TransfersAreTrue` of `Transfer`, inductive with `TransferInv`: what a
  transaction has locked is undone with it (`LocksEnd`), what a reader holds is true unless
  the row changed since (`HeldIsTrue`), a line that was not found is not there
  (`FoundIsThere`), and the lines before the one at hand are in (`GoodSoFar`).
* `NothingComesTwice`: the last three together, `NothingTwice`.
* `NotesStayTold`: `NotesAreTold` of `Vault`, inductive with `VaultInv`. A mark, in `files.json`
  or in a poll's copy of it, is of a time that the note has had, and of its text if it
  has had none since (`TrueMark`, `FilesAreTrue`, `MarksAreTrue`, `HandIsTrue`). A poll makes up
  at most one item of a note, once it has been there (`OneItemEach`); until then its copy is as
  `files.json` has it (`AsSaved`). What it has made up is news to `files.json` and the lake
  (`ItemsAreNews`, `NewIsUntold`), and once that file is saved it goes on from the newest row
  (`RowsGoOn`); the ids seen are of rows told (`IdsAreTold`), so that nothing made up is passed over.
  The last text is that of `files.json` unless a poll has more than a first row to hand over
  (`LastIsSaved`), two polls that write at once excuse every note (`OneTells`), and the
  tale of a note is what `files.json` says unless a poll has yet to write of it (`TalesAreTold`).

**`DrivesProofs`**, for any syntheses, checks, clicks, tabs, cards, thresholds, cool-downs
and bounds; of `Orient`, from `OrientBounds`, that a query reads as many rows as the
threshold asks for; of `Crystal`, from `CrystalBounds`, that what is cached at one poll
is no longer used at the next (`_CACHE_TTL_SECONDS` is 10, a poll comes every 60
seconds); of `Relief` and `Follow`, from `ReliefBounds` and `FollowBounds`, which only
say that cool-downs and limits are numbers; of `Feed`, from `FeedBounds`, that a seed is
neither a reply nor a card of one:

* `ShiftsAreHeardOrExcused`: `ShiftsAreHeard` of `Moods`, inductive with `NewestIsNewest`,
  `PriorsAreOld` and `ThinkersHaveRead` (what a synthesis has not read, and will pass
  over, is excused).
* `ThumbsGetHeard`: `ThumbsAreHeard` of `Orient`, inductive with `NewestHasNoLater`,
  `BoundariesAreOld` and `RegenHasRead`, which are the same for the regeneration. That few
  wait rests on `ShortOfTheLimit`: a query that finds fewer than the threshold has
  found all there are, since the greatest row it could have left out would have
  fewer than its limit above it.
* `RegenerationsAreSpaced`: `RegensAreSpaced` of `Crystal`, inductive with `CrystalInv`. What
  a regeneration wrote is in the lake (`NewestIsNew`), and either the marker knows of it
  or every later read of the newest crystal sees one that is no older (`Guarded`, `Fresh`:
  a cache filled before is out of date when the next check asks, a read under way
  returns before that, and a check that began before does not count); a check that
  has asked the lake has seen it (`CheckSees`); the marker knows of a rejection
  (`Rejections`); and a task that is spawned comes late enough (`SpawnedLate`).
* `TierPromptsAreSpaced`: `TiersAreSpaced` of `Relief`, inductive with `ReliefInv`: the stamp
  is no older than the prompt unless it was lost (`StampsAreTrue`), a fire that was alone
  with its tier still is (`AloneIsAlone`), and so nobody has posted since it looked
  (`PromptsAreDue`).
* `ScreenshotsAreSpaced`: `ShotsAreSpaced` of `Follow`, inductive with `StampsAreShots`.
* `DrivesStaySpaced`: the three together, `DrivesAreSpaced`.
* `ScreenshotsAreTrue`: `ShotsAreTrue` and `RecentsAreTrue` of `Follow`, inductive with
  `TruthInv`. As long as its tab has not been moved, a capture that has no picture yet is in
  a tab that shows the page it is about, and what was blocked when it was asked for is
  still blocked (`ShotsAreSound`). As long as no two writers of the list crossed, each has
  read the list as it still is, which holds all that was uploaded and not taken off,
  once, or is full (`RecentsAreKept`).
* `FeedShowsWhatIsOwed`: `ShowsAll` and `ShowsOnce` of `Feed`, inductive with `FeedInv`. A row
  is in the lake once, and only if it was written (`StoredOnce`, `RowsAreWritten`); an
  item of the puddle is of something written, its own or a copy of a row
  (`ItemsAreWritten`, `ReadsAreWritten`). A card that is owed is in the lake, and a seed
  that was owed when the feed looked has an item among what it saw (`OwedIsThere`).
  A card that a restart reads has no item of its own, unless the harness was
  mirroring it at that moment (`CopiesAreAlone`, `ViewsAreApart`, `NoneIsCopied`). The answer
  then counts a card once as an item or once as a row: what is kept and what is
  recalled are of the same item.
* `FeedStaysTrue`: both together, `FeedIsTrue`.

**`MemoryProofs`**, for any counts of rows, retention and thresholds, any recalls, plans,
rows, windows, limits, failed reads and bounds; of `Recall`, from `RecallBounds`: the index
lives for at least a minute, and the first step of a plan fetches, as
`PlanExecutor._validate` lets it refer to nothing, while each union is of two steps that
fetch (unions of unions are not modelled); of `Standpoint`, `Drafters` and `Centroids`, from
`StandpointBounds`, `DraftersBounds` and `CentroidsBounds`, that limits are numbers, what a
model groups are sequences of ids and what a summary cites are rows:

* `LastGoodIsNeverLost` (`LastGoodIsKept`) and `GreatLossesAreAcknowledged`
  (`NoGreatLossUnacknowledged`), inductive with `BackupInv` (`BackupIsSound`): every dump
  in a directory has been taken and lies in one (`DumpsAreTaken`), the state an
  acknowledgement will write back is the one that is there (`AckInv`), in a lockdown the
  newest dump is in quarantine (`LockInv`), and the newest of the rotation is what the
  next is compared with (`BaselineInv`).
* `RecallsStayTrue`: `RecallsAreTrue` of `Recall`, inductive with `RecallInv`. What is shown are rows
  of the lake, no two steps with the same one (`ShownInv`). The index that a recall goes up
  by has every summary written before its two reads began but for those of the minute that it
  may have lived (`IndexInv`, `ParentsInv`), and so, when nothing failed, three layers of
  summaries are shown with what they rest on (`AncestorsInv`); and what an ungrounded
  thought cites has stayed the loop's own (`LakeInv`), as rows are only added.
* `StandpointStaysTrue`: `StandpointIsTrue`, inductive with `StandInv`. A query that returned holds
  every row that is still within its window and limit (`EndorsementsInv`, `IdentityInv`,
  `AlertsInv`, `VisualsInv`): rows that arrive later can only crowd a row out, never make one
  due (`DuesShrink`). Of the pictures, the newest of a source is kept because those of
  the sources that follow it are at most one each (`PicturesAreRead`). What the endorsements held
  refute is gone once the answer is composed (`RefutedInv`).
* `RecallStaysTrue`: both together, `RecallIsTrue`.
* `DraftsStayTrue`: `DraftsAreTrue` of `Drafters`, inductive with `DraftInv`. What a run pulled is what
  its level sums up (`PulledInv`), a draft and a post in doubt lie behind the group that the run
  is at (`BehindInv`), so that a group is drafted once (`OnceInv`), and what a run counts differs
  from what it wrote by the posts whose answer was lost and those that the store dropped
  (`CountInv`).
* `CentroidsStayTrue`: `CentroidsAreTrue` of `Centroids`, inductive with `CentroidInv`. What is seen
  lies at most as deep below the summary as the walk has gone (`DescentInv`), and as long as
  nothing went wrong it is all that lies so deep (`BreadthInv`): a summary is met in the layer
  where it first lies, and averaged only at the bottom (`MomentInv`, `CoverInv`). What a failed
  or too wide request leaves out is among the ids that are lost, which excuses what lies
  below them. The proof
  showed that this needs the rows to stay: if a row goes, a summary that lies below two is
  met only further down, where it may count as a moment.

* `TimelinesStayTrue`: `TimelineIsTrue` of `Timelines`, from `TimelinesBounds`: every anchor is
  in one strip, the strips are in order and apart, and a hole is where windows were joined
  (`IsJoined`).
* `StripsStayTrue`: the last three together, `StripsAreTrue`.

Only model-checked: liveness under fairness (`QueueDrains`, `GateReopens`,
`EmbeddingCatchesUp`, `DueFires`, `TasksEnd`, `EndsWakeIfLast`, `EverythingGetsIn`,
`AnsweredTurnsReturn`) is out of the prover's reach; and `ServicesTypeOK`, which is the
conjunction of all the parts' types.

## Not modelled

Pairing, tokens and cookies (`auth.py` beyond `resolve_contact`), the witness's
cards, the providers and settings (read by every service, changed by none of the
steps above), the sessions' database, the dashboard, the CLI, the MCP node and the install
scripts keep no state that two parties share, or none under this repository's
control. Left out of the modelled parts, and named in each module's head: texts,
prompts, vectors as numbers, scores and layouts.

## Plan

1. Type correctness of the services, along with the invariants that need it.
2. `LakeStore` with rows that are replaced under their id, as `Transfer` has them.
