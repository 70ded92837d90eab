# Home agent gateway: a TLA+ model of the edge runtime

The gateway's Mac edge (`src/mac/src/mac_edge`, with its voice child process
`src/mac/src/mac_voice`) executes plans made by a cloud service, Brain. Brain turns an
utterance into an *intent* with an `execution_plan`; every step of a plan is assigned to an
edge. An edge peeks its intents from Brain, keeps them in a ledger on disk, runs its own
steps when their predecessors are done and their time has come, and reports every status
change back. Brain may be slow, away, or answer twice; the edge goes on without it. What can
go wrong is therefore rarely in one function. It is in the order in which an executor thread,
a control loop, flushing threads, two pool workers, a heartbeat thread and a restart meet the
same few records. That is what these modules are about.

Everything is plain TLA+. `PROJECT.json` lists the components, the runs with their
properties, a mutant for every property (a plausible bug in the mapped code that the run
catches), the source lines of every definition, the findings, the hazards and the theorems.

## Inventory

| component | state it keeps | operations | interacts with | hard behaviour | what makes it correct |
|---|---|---|---|---|---|
| local ledger (`local_ledger.py`) | rows by intent id: intent status and history, per step status, beat, `sync_queue`, `synced`; all on disk after every change; a ghost guard in memory | ingest, set step/intent status, mark synced, discard, flush, post a result at once, drop, prune | executor, control loop, flushing threads, Brain | queue entries popped by two threads; answers marked after the row moved on; crash between call and mark; ids used again | no result lost; queue in order and consistent with `synced`; row stays while needed and then leaves; a job is run once |
| executor (`executor.py`) | a working copy of the plan; steps in execution; capability pool | take an intent, skip beats, choose a step, fill in its inputs, run, report, re-arm, finalize | ledger, beats, clock, report pool, plugins | the copy is stale against the row; stale RUNNING after a restart; time-outs whose call goes on | a step runs once, after its predecessor, with the value last made; a plan ends |
| status reporting (`brain_client.py`) | two pool workers, epochs of running reports | direct post, pooled post, obsolete answers | Brain | late, lost and reordered posts | Brain ends with what was decided |
| execution timing (`execution_timing.py`) | none | planned start, miss window, gate, cron | executor, ledger | half windows, equal instants, missing values | windows do not meet, no beat passed over |
| beats (`timing_beats.py`), clock (`brain_time.py`) | beat index per step; Brain's time and a monotonic offset | get, set, advance with a listener; sync on heartbeat | ledger row, executor, control loop | two copies of the beat; the clock set back | the row follows memory; beats in order |
| scheduler (`scheduler.py`) | intents dispatched; a lock | hand open intents to the worker, bump an intent's status from its steps | ledger, executor | acts on a plan read earlier | an end is never undone |
| agent runtime (`agent.py`) | worker queue, pending intents, stop flag | control tick: peek, ingest, flush, prune, reconcile, dispatch | all of the above | an intent queued twice, recycled ids | no intent forgotten, none run twice |
| identity (`agent.py`, `voice_supervisor.py`) | edge id in memory and in a file, the id last accepted, the child process | register, heartbeat, clear on 401, start/stop voice | Brain, voice process | a late 401 for an old id; a crash between memory and file | one valid id; voice runs only for an accepted one |
| several Brains (`multi_brain.py`, `cloud_usage.py`) | a client per Brain, origin of each intent, usage to report | route, fall back, drain usage | Brain | one Brain away while another answers | a status reaches the Brain that asked; one heartbeat counts a call once |
| voice (`mac_voice/`) | microphones, segmenter, queue of clips, a wake gate per speaker, command window | listen, cut, transcribe, wake, answer, post an intent | microphone, STT, Brain, speech output | slow recogniser against the window; own voice in the microphone; a clip dropped | a command counts once, and only in its window |
| speech output (`notify_speak`, `tts_playback`, `xiaodu_speaker`) | nested sessions and a flag file; the speaker's address | speak on the Mac, speak on the speaker | voice, threads | two speakers at once; a speech longer than the flag counts; an address that moved | muted while speaking, as long as the flag counts |
| music (`netease_music`, `ncm_play_record`, `music_linkage`, `ncm_songs`) | playing state, recorder with a timer, music mode with its flag file, rows of songs | play, control, record, search, cache | player, database, heartbeat | timer against `next`; a recorder that does not start, or dies; lock taken twice | a complete row is a whole song; the heartbeat goes on |
| assets (`asset/`, `capture/`) | manifests, staged files, the photo inbox | take, upload with fall-back, resolve, download once | Brain, house's server, cloud | half-done upload, changing address | an address that works; one copy |
| capability offer (`services.py`, `capability_*.py`, `marketplace_catalog.py`) | declared set, probes, catalog and caches | declare, probe, fetch the catalog | Brain, plugins | a probe that fails, a catalog away, a cache half written | a repaired capability is offered again |
| live video (`video_live_ingest.py`) | sessions, a standing port, replays with timers | prepare, push, stop, archive, expire, prune | phones, console | timers against a new push; a push that made no playlist | no directory without an owner but those the code is known to leave |
| television, air conditioner, aquarium and lock, camera and Wi-Fi, printer, image search, PDF display, web pages, ping monitor | a cache, a session, a token, a network to go back to, a temporary file | see the module of each | devices, clouds, worker threads | a device answers late, not at all, or another answers | done once; what is announced is so; left as it was |
| delivery, speech to text, questions and vision, small plugins, voice bench, game, host scripts | none | formats, calls to services | | I/O | not modelled |

## Modules

| module | what it is |
|---|---|
| `LedgerRecord` | one ledger row as a value, and every operation of `LocalLedger` on it, as operators from row to row |
| `LedgerSync` | the threads around that row: executor, flush, pool, prune, HTTP calls, faults, crashes, and Brain (external) |
| `StatusDelivery` | the abstract specification of reporting: a step is decided once, and Brain learns what was decided |
| `LedgerOutcome` | the inductive invariant behind `OutcomeKept` |
| `LedgerSyncProofs`, `LedgerOutcomeProofs` | the lemmas and theorems about these |
| `EdgeRuntime`, `EdgeRuntimeProofs` | control loop, ledger of accepted intents, scheduler, worker and capability pool over one id that two jobs may have; and what is proved of it |
| `PlanData` | the values that go from step to step of a plan |
| `ExecutionTiming`, `TimingCheck` | the functions of `execution_timing.py`, and every small timing and instant |
| `ExecutionTimingProofs` | lemmas about these functions for every timing |
| `BeatSchedule`, `BeatScheduleProofs` | one recurring step: beats in memory and row, executor, control loop, clock, crash; and what is proved of it |
| `EdgeIdentity`, `EdgeIdentityProofs` | the edge id: heartbeat thread, control loop, file, voice supervisor and `mac_voice`; and what is proved of it |
| `SeveralBrains` | pulling from all Brains, and routing statuses |
| `CloudUsage` | the counts of cloud calls, told by the heartbeats of two threads |
| `CapabilityOffer` | what an edge declares, probes and describes |
| `VoiceListen`, `SpeechEndpoint` | the live loop with its wake gates, and cutting one microphone's sound into clips |
| `SpeechOutput` | capabilities that speak, and the flag that mutes the microphones |
| `MusicPlayback`, `SongSearch` | player, recorder and music mode; and which songs a request plays |
| `PhotoCapture` | Wi-Fi to the camera and back, the inbox of photos, their upload |
| `AssetFetch`, `ImageSearch` | assets as addresses and files; pictures found, staged, uploaded |
| `LiveVideo` | sessions, pushes, replays and their timers |
| `Television`, `PdfDisplay` | finding the set and casting to it; the document on it |
| `ClimateControl`, `XiaomiHome`, `PrintJob`, `PingMonitor`, `WebPage` | air conditioner; aquarium and lock; printer; ping monitor; a web page as text or PDF |
| `Home` | the twenty-two parts that do not wait for each other, from `BeatSchedule` to `PlanData`, in one specification with parameters |
| `HomeMediaProofs`, `HomeProofs` | what is proved of these parts: what is heard, said, played and shown; then the rest, and the house |
| `MCLedgerSync`, `MCBeatSchedule`, `MCEdgeIdentity`, `MCEdgeRuntime`, `MCMusicPlayback`, `MCHome`, `MCHomeLive` | the modules TLC runs |

### LedgerRecord and LedgerSync

A row is `[wire, synced, hist, steps]`: the intent's status, whether Brain knows it, the
history of hops and, per step, status, `seq` (how many events it has queued), `synced` and the
queue. `seq` stands for `ts_ms`, by which Brain tells a newer event from an older one.

The executor (`ex`) is a program counter through `handle_intent`: `advance` is
`_advance_skipped_beats`, `find` is `find_next_eligible_local_step`, `starting` and
`capability` are the status writes before and the run itself, `report`/`posted`/`discard` is
`post_terminal_step_now`, `beat`/`gate`/... what a recurring step does after its beat, `failing`
the failed intent. It works on `ex.plan`, its copy of the statuses, as the code does. `fl` is
the thread inside `_flush_lock`; `req[c]` the HTTP call each of executor and flush is in; `pool`
the jobs of `_REPORT_POOL`; `late` what may still reach Brain after its caller gave up. One
action is one block under `_lock`, or one step of a call: a call is sent, answered, and acted
on in three actions, so anything may happen in between. The background flush is by `"thread"`,
the executor's own by `"executor"`.

Brain is external: it keeps the newest event of a step, takes an intent's status only forward,
and refuses the rest with the answers that `_is_obsolete_replay` counts as done.

What is within this model: one intent after Brain's row has been accepted and dispatched,
with every step assigned here. Ingest, the scheduler's status bumps, foreign steps and
recycled ids are in `EdgeRuntime`. Because nothing peeks, the copy of the
intent has no RUNNING entry in its step log, so `running_since_ms` is None after a restart and
the branch that fails a step running too long (executor 1087-1116) is not reached; a recurring
step takes no `$variable`.

### ExecutionTiming and BeatSchedule

Times are numbers of one unit, `None` is -1 where Python has None. A cron expression is the
set of instants it fires at. `BeatSchedule` has one recurring step. `mem` is
`timing_beats._BEATS`, `row.beat` the ledger's. `advance_beat` is two steps, since the listener
writes the row after the memory lock is released. `ex.at` is the `now` a function has read
once and goes on using. `Hydrate*` is the control loop in `_hydrate_beats` after it accepted
another intent. `runs` and `ended` are history. Statuses on their way to Brain are
`LedgerSync`'s matter.

### EdgeIdentity

`th` has the two threads that use the id and may clear it: `th["heartbeat"]` is one round of
`_heartbeat_loop`, `th["control"]` a tick of the control loop as far as the id goes (register,
read again, pull). A record there is where the thread is, the id its call is about, the
attempt, and `fatal`: whether the refusal is being handled in `run`'s `except BrainError`, which no
other handler covers. `mem`, `file` and `ok` are `_edge_id`, `edge_id.json` and
`_heartbeat_ok_edge_id`; clearing is three steps (is there a file, unlink, forget), as in
`_clear_edge_id`. `voice` is `VoiceSupervisor._loop` and `child` its process. Brain is external: it
gives ids, the same one again if it likes, may forget one, and then refuses every call under it.
One Brain is assumed. An agent that has ended (`~Up`) does nothing until it is restarted, and the
`mac_voice` it may leave behind is taken to end with it; the stable `runtime_id`, which changes
nothing here, and stopping the supervisor are left out, as is the rest of a tick.

### StatusDelivery and the refinement

`StatusDelivery` has two variables: what the edge has decided of each step, and what Brain knows
of it. A step is decided once; Brain learns what was decided, keeps what it has learnt, and may be
told a failure of a step that cannot run any more, after which that step is not decided. No
queue, thread, call or crash is in it. `LedgerSync!ImplementsDelivery` is this specification under the
mapping `decided <- outcome` (the history of what the executor recorded) and `known <- KnownOutcome`
(Brain's terminal statuses), for plans of one-shot steps.

### EdgeRuntime

One id and the jobs Brain gives it: a job is an id and a generation, which stands for the base
time, text and capabilities by which `_is_recycled_brain_intent` tells a job from another. An intent
has no step, a local one, or a local one after a step elsewhere. `ctl` goes through
`_control_tick` (peek, ingest, prune, reconcile, snapshot, dispatch one after another), `work` through
`_executor_loop`, the scheduler's `handle` (whose lock both threads take) and `handle_intent`; `batch`
is the copy the worker took. `pool` is `_CAP_EXEC_POOL`, whose tasks may hang, and of which one
may be waited for (`mine`). A report reaches Brain in one step: how, is
`LedgerSync`'s matter.

`guard` is the ghost guard, the mark by which ingest refuses a peek that is older than the drop of its row. The code heeds
it for 120 seconds (`_is_stale_brain_ghost`), by a clock that may jump, and nothing bounds how long the control thread
holds a peek before it takes it in (the details and posts of other intents come first, each with its own time-outs). So
any set of guards may have run out when a peek is taken in (`Old` in `CtlIngest`). A job whose row was dropped while a peek of it was held
(`overtaken`), and which that peek takes in after the guard's time (`outlived`), is run again: the code does that, and
`RunsOnce` excepts just this job. Without it a guard that runs out does no harm, as Brain no longer offers what has ended. The branch that
takes a guard away on a terminal wire is not reached by a peek, which lists open intents only. The call by which a
peek without a plan fetches the plan (`agent.py:404-415`) is left out.

### Voice

`VoiceListen` is `run_live`: capture threads put clips on the bounded queue (`_put_latest`), the loop has
one written down after another, and each key (a microphone or a phone) has a wake gate; a task
says the answer and opens the window. Words are "wake", "command" and what else a gate tells apart; time
is a few instants. `SpeechEndpoint` is the segmenter chunk by chunk, with the endpoint of `UsbEndpoint` or
of the phone's ingest. `SpeechOutput` is the other side: sessions that nest, their flag file with its
age, which nobody renews while the engines talk, how long each worker has talked (`lasted`, which may exceed the age at which a flag counts no
more), `PlaybackMute` with its hang-over, the chain of engines, and the speaker on the network whose
address is remembered, tried, and found again.

### Devices, documents and data

Each of these modules has its worker threads as a function from thread to where the call is, with
the values it has read, so that two calls interleave at every request. `PhotoCapture` has the network
the Mac is on. `ClimateControl` sends settings one by one to a unit that another worker or a remote
control may turn on or off between any two of them, and reads its state from a cloud whose answer may be of a moment before (`ReadLate`). `XiaomiHome` has the one session all workers share. `Television` has leases of
addresses, the cache of one, and three kinds of device: the set, one that answers to a name taken for the set's (`_name_matches` looks
for a word in it), and any other. `PdfDisplay` has the session that is replaced under a lock and read
without one. `AssetFetch` and `ImageSearch` have storages and staging files, `PrintJob` the queues of CUPS,
`LiveVideo` sessions, archive timers, and what is on disk for each stream (directory, playlist, `.ts` dump), `PingMonitor` its thread and the event that ends it, `WebPage` Chrome and its
files. `MusicPlayback` has player, recorder (which may fail to start, or die unseen) and music mode; `SongSearch` the pages of a result that
changes between two requests. `SeveralBrains` and `CapabilityOffer` are what a heartbeat and a pull do; a write of the catalog's cache there succeeds, fails,
or is cut off, which leaves no catalog. `CloudUsage` has the heartbeat thread and the heartbeat that follows a registration in the control thread side by side, each with the
counts it has read. `PlanData`
follows one variable through a plan, the value of step n being n.

## Runs

| run | what it shows | bounds |
|---|---|---|
| `ledger_one_shot` | types, queue soundness, the outcome argument, nothing lost, no ended row dropped unknown, the row outlives its step, and the refinement of `StatusDelivery` | two one-shot steps, one failed call, one crash |
| `ledger_live` | Brain learns the outcome, and the row leaves | one step, one failed call, one crash |
| `ledger_lost_rearm` | violation, finding 1 | two beats, no faults |
| `ledger_recurring` | the row survives between beats; a row that holds its intent's end goes only when Brain has that end; one pruned before the end leaves a Brain that knows how every ended step ended | two beats, cap 3, one crash |
| `beat_ingest` | violation, finding 2 | one ingest, no crash |
| `beat_stale` | violation, finding 3 | one crash |
| `edge_identity_refused` | violation, finding 4 | two ids, Brain forgets once, no faults |
| `edge_runtime` | a job is run once, after its predecessor, unless a peek outlives the guard; one task is waited for; every intent ends | one id, two jobs, one fault (a restart of Brain, a crash of the agent, or guards that run out), a pool of one |
| `runtime_recycled` | violation, finding 5 | the same |
| `music_mode_stuck` | violation, finding 6 | two workers, two songs, two calls, no faults |
| `home` | beats once, in order, persisted, not caught up; types, done once, true to what is said, input from the plan, heard right, kept true, as before, and the two properties of timings | cron of uneven fires with an end, one crash, clock set back once; see below |
| `home_live` | identity settles (with its safety), the series ends, everyone waiting is served | see below |

`home` and `home_live` are sums: a variable `subject`, chosen at the start, says whose behaviour it is,
and only that part's actions are taken. Parts that do not interact gain nothing from interleaving, and one run of
twenty-two parts costs the sum of their states, not the product. Each part keeps its whole instance, and
a conjunct of a property speaks of its own part's variables, so that a violation in one part is
found as in a run of its own. The sum of the first is `Home`, whose constants are parameters and which the proofs are about; `MCHome`
only gives values. `DoneOnce`, `TrueToSaid`, `HeardRight`, `KeptTrue` and `AsBefore` are the questions; each
module states its answer under its own name (`ClimateControl!TakenOnce`, `Television!RightScreen`, and so on). The type invariant of a part is looked at
where that part is the subject; elsewhere its variables stand as at the start. `Home.cfg` declares the pool workers symmetric (`WorkersAlike`): no part tells
one from another, and its properties are invariants and action properties. The mutants of
`PROJECT.json` break the conjuncts one by one. Parts that do interact are in one module
(control loop and worker, flush and executor, recorder and player).

Why the bounds are enough. A one-shot step queues RUNNING and one outcome, so two steps show
every relation between a step and its predecessor, and between a step's queue and the
intent's. One failed call is enough to leave an event on its way, in Brain unknown to the
caller, or lost, and one crash comes at every point. A cap of three with two beats overflows (the code's
cap is the constant `_SYNC_QUEUE_CAP`; the proofs hold for any). For the beats, the horizon lets the last
beat be run, missed and passed; beats are one and two units apart,
a gap with no miss window but its own instant and one whose window is the cap. In `TimingCheck` the one-shot window and the cap (2 and 3) are each shorter and
longer than some interval. For the identity, two ids tell a late refusal of an old one from
the refusal of the new one; two faults use up a heartbeat's two attempts (three in the code). In `edge_runtime`
two jobs of one id are what recycling needs, and with a pool of one a task that hangs stops the next. In `home`
two workers are every pair that races, a queue of one clip overflows with the second, two pages are
a page and its next, a second push meets the replay of the first, two cloud calls are one before a heartbeat reads the counts and one while it is under way, a cache is filled, becomes stale and is found out, and one mishap
(a lost answer, a failed call, a restart) falls at every point. Times (the window, the deadlines, silence) are two
to four units, so that an event may come before, at and after each.
Deadlock checking is off where a behaviour ends by design: at the horizon or last instant, when the bounded
calls are used up, when the agent has ended (`edge_identity_refused`), or with every intent closed (`edge_runtime`).

Fairness. The executor, the flushing threads and the prune are loops or threads that the
runtime starts again and again, hence weak fairness of each. A call ends, since every HTTP client
has a time-out: weak fairness of Brain's answer. The executor waits for `_flush_lock` among
flushing threads that come again, hence strong fairness of its entry; Python's lock does not
promise that, but the threads that contend are finitely many between two passes. In `EdgeRuntime` control loop and
worker are strongly fair for the same reason, the scheduler's lock; other edges end their steps, and
reports, which are tried again and again, get through; a capability need not end. Faults
and crashes are never fair. In `home_live` time passes, each thread's loop goes round, a sentence that is being said
ends, a probe returns (each has its time-out), and a Brain that is not lost comes back. In `EdgeIdentity` each of the three threads is
weakly fair: each is a loop with a sleep; `_ensure_channel_threads` starts a dead heartbeat
thread again. In `music_mode_stuck` the heartbeat and the calls are weakly fair, so that only the lock can stop them.

## Proofs

The theorems hold for every value of the constants under the `ASSUME`s of the module they are about; what is assumed
beyond these is said below. TLC found every inductive invariant to hold on a small instance before it was proved.

**Queues of the ledger** (`LedgerSyncProofs`: `TypeCorrect`, `QueuesStaySound`). For every number of steps, cap, beats, faults
and crashes. `RowSound` says that a step's queue is numbered in order within the step's
counter, under the cap, and empty exactly when the step is marked synced. It is inductive
together with the types: `LedgerSyncProofs` first proves it of each operation on a row, once, and then
cites these lemmas action by action.

**The life of a row** (`LedgerSyncProofs`: `RowsOutliveSteps`, `EndsAreKnown`). For one-shot and recurring plans alike. That the row is
there while a step runs from it follows from `Serving`: while the row is there the executor's copy has the row's statuses
(`CopyTrue`), and once it is gone the copy has no work left (`GoneIsDone`), because an intent is closed only when its
steps have none (`ClosedIsDone`), by a pass at its very end (`Closing`); what the pass goes on to after a flush, a report or a
beat keeps this so (`OneShotGoesOn`, `SeriesGoesOn`). `EndsAreKnown` is of rows whose intent has ended: that such a row leaves the ledger only when Brain has that end is harder than the
guard of `_drop_if_done_unlocked`: an entry of the history is marked on an answer to a call that may be about an
older copy. `EndTold` says why it is right: an intent ends once, so that every terminal status in the history, a flush's
copy, the pool, a call or Brain is the row's (`EndsAlike`), and one is marked only when Brain has an end (`EndMarked`, `EndHeard`). `prune_blocked_foreign` also takes rows of intents that are still
open, when no step is left to run here: of these the theorem says nothing. `PruneIsKnown` does (Brain then knows the end of every step that has one, from
which the intent is closed when it is offered again), and is model-checked.

**Outcomes of one-shot steps** (`LedgerOutcomeProofs`). Assumed: a plan of one-shot steps, of any length, and a queue cap of at least two (`OneShotPlan`;
the code's cap is 1024).

- `OutcomeNeverLost`: the terminal status of a step is in Brain or still in the
  queue on disk. The property is not inductive, because a thread marks an event synced on an
  answer to a message it sent earlier. What makes it inductive (`OutcomeInv`, stated and model-checked in
  `LedgerOutcome`, proved as `OutcomeArgument`): every copy of an event anywhere, in a queue, a call, the pool, on its way or in
  Brain, is one the row once queued (`Genuine`); so Brain refuses a terminal event only if it has
  that outcome (`Answered`); and if the flush finds another event at the head than the one it sent,
  the executor has taken that away, which it does only once Brain knows (`FlushHead`).
- `NothingLostSilently`: no event leaves its queue before Brain has answered it, unless it is a RUNNING overtaken by a later,
  answered event. To `OutcomeInv` this adds what has been answered at each point of a call: a call that counts as answered is
  heard (`HeardCalls`); the head is what the flush has posted, or all that is queued is heard (`HeardHead`); and before
  `discard_matching_step_event` only the executor's own event is left, and heard (`HeardOwn`).
- `DeliveryImplemented`: the refinement of `StatusDelivery`. A status set in the row is `Decide`, an event Brain takes is `Learn`,
  `GiveUp` or nothing, and every other step changes neither variable. `Genuine` gives that Brain takes only what was decided, and that what
  it has learnt it keeps. Left to exclude is a success of a step that was never decided: `GivenUp` says that once the row is gone all
  news of such a step is a RUNNING or the FAILED of `_advance_skipped_beats`, and needs `RowsOutliveSteps`, for a capability
  that succeeds then still has its row.

**Beats** (`BeatScheduleProofs`), for every cron or interval timing, any horizon, and any number of crashes and clocks set back.
`BeatTypes` holds as it is; the others assume that no
other intent is accepted (`NoIngest`), without which finding 2 refutes them. `BeatIsPersisted` and `RunsInOrder` need
`BInv`: at which point of a pass the row may lag behind memory (`NotePending`), and that no
beat after the row's has been run (`RunsBehind`), so that a beat started after a crash is none
from before. `RunOncePerBeat` counts on top of it (`Repeats`): before the executor starts the beat it stands at, that beat has
been run at most as often as there were crashes. `NothingIsCaughtUp` follows the beat from the end of a run to the next start
(`Skipping`): past `skip_passed_interval_triggers` what is planned lies beyond the end of the run, which
`ExecutionTimingProofs` carries from a beat to the next.

**Miss windows** (`HomeProofs`: `WindowsNeverMeet`, `NoneIsPassedOver`), for every timing of the shape `parse_execution_timing` returns
(`TimingsAssumption`) and any time. `ExecutionTimingProofs` shows that planned starts follow each other and that a beat is
never due later than half way to the next; cron is an arbitrary set of instants. The recursion over the fires of a cron expression is a
recursive function there, unfolded one beat at a time.

**Identity** (`EdgeIdentityProofs`: `IdentityTypes`, `FileAndMemoryAgree`, `RegistrationsAreBounded`), for any ids, attempts, forgets, faults and
restarts. File and memory differ only while an id is saved or cleared, at named points of the two threads (`Agrees`), which rests
on what each thread holds in its hands there (`Held`). The bound on registrations is paid for by forgets and restarts (`Paid`).

**Run time** (`EdgeRuntimeProofs`), for any number of ids, jobs of one id, restarts, crashes and workers of the pool. `RuntimeTypes` is types.
`OneIsWaitedFor`: there is a task waited for just while the worker waits, and no second (`Waits`). `RunsBehindPredecessor`: whatever says that
a job's predecessor has succeeded, in Brain, in the row, in a peek or in the worker's copies, says it of that very job
(`ReadyOnly`). `JobsRunOnce` is the longest argument, one invariant for each id (`JobInv`): generations only grow, from Brain through a peek to the row
(`AgesAt`), and a peek that still offers a dropped job was held while it was dropped (`ClosedAt`); what a job has in hand, a queued task, a copy with the step open, a row, allows one more run at most (`InHandAt`); and once none of these is left,
no peek brings the job back: Brain does not offer it, and for an older peek there is the ghost guard, or the job is one that has outlived it, which
`RunsOnce` excepts (`OnceAt`).

**The house** (`HomeMediaProofs`, `HomeProofs`), for any number of workers, microphones, Brains, streams, hosts, documents, steps of a plan and
bounds, under the assumptions `Home` makes on them (finite pools, numbers that are not negative, lists that are numbered). `HomeInv` is the
conjunction of one invariant for each part. A step of the house is one of a part or leaves it alone (`OnePartMoves`), so `HomeInvariant` needs of each part that
its invariant holds at the start, is kept by each of its actions, and depends on its variables only; `HomeImplementsBeats` says in the same way that
the beats of the house are `BeatSchedule`'s, with all that is proved of these. The properties then follow from the parts' invariants:

- `PartsKeepTypes` and `NothingDoneTwice`. A gate that may still post a command owes it to a wake word it was opened by (`Owes`), so commands are
  never more than openings (`ListeningInv`). What one sender has told a Brain, with what the file or its own
  heartbeat still has for that Brain, is no more than was counted (`ToldByEach`); for both together that holds as long as no two heartbeats
  were under way with counts of the file (`ToldByBoth`, `crossed`), which the code does not rule out. What the cloud of the air conditioner has taken is the plan
  less what is unsent (`StepRight`). Log-ins to Xiaomi are paid for: those made and those that still have to come (`Due`: workers that are
  connecting, or hold a session that was refused) never exceed one for each worker and refusal. A printed document, a download
  and an upload are followed through the step's program counter (`JobsSoFar`, `OneDownload`, `StoredOf`), the calls to a loudspeaker likewise.
- `WhatIsSaidIsTrue`. A step that goes on by itself finds the session, the unit or the address as it left it, and one that does not is
  marked by the step that disturbs it: `AloneOnScreen`, `StepRight` (a unit turned off under the step, or said to be on by a late reading, is `disturbed`), `Aimed`
  (the address is that of a device that answers to the set's name, or one that addresses have left since), `StagedOf`. As long as NetEase's answer does not change, the songs collected are
  the artist's of the pages read, none left out (`Covers`), and `PlacesInOrder` says that choosing by places keeps their order.
- `StepsGetTheirInput`. A value of the context was made and declared by a step before, and none made on this Mac is newer than it; a newer one of another
  edge may be passed over, as `_hydrate_context` has it (`executor.py:1506-1522`). Steps are taken in order (`InOrder`), every producer that has succeeded has its value in the outputs or in what Brain sends (`Produced`), and
  the context of a pass is made from the statuses it read, which only grow (`PassOK`).
- `OwnVoiceIsMuted`. The depth of the sessions is the number of workers that talk, and the flag is no older than the one of them that has talked
  for the shortest time (`SpeakingInv`): it counts while some worker has talked for no longer than a flag does. Of a longer speech nothing is said, for there the
  code does not mute. Nothing of the pre-roll or the clip is older than the last muted chunk (`EndpointKept`).
- `WhatIsKeptIsTrue`. One row at most is being recorded, and it is the recorder's, but for those whose last change the database did not take (`untold`); a timer that has fired belongs to a generation, and only the present one may complete
  a song, whose time is then up, or whose recorder has died unseen (`died`, `RecorderRight`). That ads survive is inductive as it stands (`OfferInv`). A sidecar is there only beside a whole picture, and is marked only for what Brain holds (`Inbox`, `InHand`).
- `NothingIsLeftOver`. The network is home whenever no capture is under way (`Network`), Chrome and files are those of the point the step is at
  (`TempsAt`), and the directory of a stream has a push, a place in the archive or somebody about to remove it (`Ranks`, `TimersFew`), unless its push made no
  playlist (`bare`) or a restart forgot it (`left`). Dumps are never removed and are no subject.
- `LateCommandsCount`: while a window is kept, the gate is the one that opened it, or has been put to rest and takes late words (`WindowRight`).

The proofs changed the models where they could not be reasoned about, or were right only for the values of a run. Three were put in another form, which
computes the same (TLC finds the same states): the songs a search keeps are those at some
places of a list (`SongSearch!Kept`) where the community modules' `SelectSeq` and `SelectInSeq` recur; what is still to be sent to the air conditioner is a set and its
order a list (`ClimateControl!Plan`, `First`); and the Brains are asked in an order given as a function (`SeveralBrains!ProbeOrder`).
Two were wrong for other constants than those of `MCHome`: `ClimateControl!Resolved` took a bound unit that the account does not have, which `_pick_device`
refuses, and `SpeechEndpoint!TypeOK` a wake clip for no longer than a command's.

Only model-checked, and why. Liveness (`OutcomeReaches`, `RowLeaves`, `JobEnds`, `SeriesEnds`, `IdentitySettles`, `VoiceFollows`,
`EveryoneServed`): fairness is beyond the prover. `PruneIsKnown`, of recurring plans, where the outcome
argument it would rest on does not hold as it stands. The outcome argument, `NoSilentLoss` and the refinement for recurring
plans do not hold as stated (finding 1; a full queue drops its oldest event). Every other invariant and action property of a passing run has a theorem; those of
beats assume what is said there.

## Findings

1. `ledger_lost_rearm`: `_discard_queued_event` pops the head of the queue without comparing it
   with the event that was posted, unlike `mark_step_synced`. When Brain refuses a late RUNNING
   while the executor has emptied the queue and queued the next WAITING, that WAITING is thrown
   away unsent.
2. `beat_ingest`: accepting an intent sets the beats of all rows, read earlier, and so may set
   back the beat the executor is advancing; the beat runs again.
3. `beat_stale`: an orphan RUNNING is reset in the executor's copy only, before its missed beats
   are looked at; if the process was away longer than the miss window the recurring step stays
   RUNNING for ever.
4. `edge_identity_refused`: `clear_edge_id` looks for the file and then unlinks it. When Brain
   forgets the edge, heartbeat and control loop are refused together; the second to unlink gets
   FileNotFoundError. In the control loop that is raised inside the handler of the refusal,
   leaves `run`, and the agent ends instead of registering again.
5. `runtime_recycled`: when Brain gives an id to a new job, ingest replaces the row, as it should; the worker,
   inside a step of the old job, then records that step's result by id and number in the new job's row, whose step
   counts as done without having been run.
6. `music_mode_stuck`: `exit_mode` calls `is_active` with `_lock` held, which takes the same lock again. With no
   music mode in memory the caller waits for itself for ever; called from a heartbeat's hint, that is the thread
   that keeps the edge known to Brain.

### Seen while modelling

Not runs of their own, but noted at the lines, as the code has them:

- `mac_voice/listen.py:355`: the None that ends the main loop is lost when the queue is full, or taken out by
  `_put_latest`. `:192-199`: one `in_speech` flag serves two microphones. `:95`: a command begun is forgotten when the window is opened anew
  (`CommandHeardOut` allows for it). Phones' chunks are mixed into one segmenter.
- `pipeline.py:56`: a failed post of an intent raises out of the live loop.
- `xiaodu_speaker.py:684`, `search_images.py`: file names have the second, which two calls may share (`ImageSearch` numbers its own within a call).
- `ncm_play_record.py:445-456`: a song recorded already is skipped, and the recorder begins the next one while the player plays this one.
  `netease_music.py:1186`: two plays at once mix their tracks in one playlist.
- `gopro_camera.py:403`: without `MAC_EDGE_HOME_WIFI_SSID` and a network name, the Mac stays on the camera's network
  (`HomeAgain` assumes one of the two). `capture/store.py:98`: two marks at once lose one.
- `multi_brain.py:239`: two Brains' equal ids are one intent to the edge; `:211` drops what was counted between snapshot and drain.
- `video_live_ingest.py:713`: the expiry of a replay removes a directory a new push may be writing to.
- `hisense_ac.py`: two `climate.set` interleave; an accepted command whose status check fails is reported refused. `xiaomi_aquarium.py:362`:
  fed, and reported failed. `xiaomi_aio_printer.py:341`: printed by `lp`, whose output cannot be read, and printed again.
- `xiaomi_tv_display.py:300`: the cache is dropped with the set's MAC, so that the next call cannot wake it.
- `pdf_display.py`: two `next` at once may be one; a page turn of a replaced document may show after the new one.
- `web_scraper.py:841`: "stable" means non-empty for a second; `stderr` of Chrome is a pipe nobody reads.
- `executor.py:1506-1522`: the value of a step on another edge is taken only if no step here made one of that name, so an older value made here wins over a newer one
  made there, against the comment at `:1294-1296` that "same-key $photo_url last-wins only works if this display waits for its paired
  capture". `InputIsProduced` promises that much and no more.
- `tts_playback.py:16` against `:1`, "Runtime is playing TTS; mac_voice must not STT the speaker": a flag counts for 180 seconds and is not renewed, while one speech may take
  12 and 120 seconds of edge-tts, 10 and 120 of say, and pyttsx3 without limit (`notify_speak.py:83-91`, `:120-125`, `:181-205`).
- `ncm_play_record.py:413-417`: `_fire` marks a row complete without looking whether ffmpeg still runs, and `store.py:698-704` asks for a file that is not empty.
- `marketplace_catalog.py:152`: the cache is written in place; a crash in the middle leaves what is read as no catalog (`:141-143`).
- `multi_brain.py:191`, `:211`, `agent.py:560`: the heartbeat after a registration and the one of the heartbeat thread may read the same counts, and each tells all Brains.
- `video_live_ingest.py:305`: the `.ts` dump of a push is never removed; `:655-658`: nor is the directory of a push that made no playlist.
- `xiaomi_tv_display.py:131-137`, `:366`: a name is matched by the words in it ("xiaomi", "mitv"), and the first match is taken, the neighbour's set included.
- `local_ledger.py:598-618`: a peek held for more than the guard's 120 seconds brings a finished job back (`outlived` in `EdgeRuntime`).
- `executor.py:1582`: a retry of the composite upload takes another photo.

## Plan

1. Done: ledger, executor and reporting of one intent, with what it promises (`StatusDelivery`); timing and beats; identity;
   the run time around them (`EdgeRuntime`, `PlanData`, `SeveralBrains`, `CapabilityOffer`); voice, speech and music; devices, assets and documents.
2. Done: proofs of the ledger's safety (`RowOutlivesStep`, `DropIsKnown`, `NoSilentLoss`), of the refinement of `StatusDelivery`, and of the safety of
   identity, beats, timings, run time and every part of the house.
3. Open: larger instances of `EdgeRuntime` (two ids, so that intents queue behind one another).

## Not modelled

HTTP bodies, wording, logging and formats; STT, vision and question clients, and conversions of documents, which are I/O or data around a
call; the tables of names in `services.py`; login pages, sound caches and the HTML of consoles; the voice bench; the browser game; shell
scripts. Normalising a planner's timing and parsing cron fields are left out of `ExecutionTiming`. The loops that skip at most 64
beats in one go are modelled without that limit, which is beyond the horizons used. The counts of cloud calls kept in memory
when their file cannot be written, a directory that `rmtree` fails to remove, and a television with both a host and a name configured are left out. What each module leaves out of its
files is in the notes of the components in `PROJECT.json`.
