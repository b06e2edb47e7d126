# cosyncing: a TLA+ verification of the broker

cosyncing lets a person follow and drive coding agents that run in terminals on
their machines from an app on another device. A *broker* (Bun/TypeScript,
`src/packages/typescript/broker`) runs on each machine; adapters connect it to the
agents; a Flutter app connects to it. This directory holds TLA+ models of the parts
of the broker where concurrency and failure matter most, the TLC runs that check
them, and TLAPS proofs. They are:

* **Claude true sync.** A Claude session runs in a terminal, a *mod*
  (`src/mods/cosyncing-claude/hooks/register.js`) is loaded into that process, and the
  broker lets the app answer Claude's permission prompts and questions, send prompts,
  and press Stop, while the terminal stays in use. A mistake there approves a tool
  call that nobody approved, runs a prompt twice, or stops the wrong turn.
* **Scheduled sends.** Prompts that the broker delivers by itself, later and again
  and again. A mistake sends a prompt twice, to another session, or after a cancel.
* **Attention.** Alerts to the person's devices. A mistake alerts for what was
  answered long ago, or stays silent.
* **Prompts sent again.** A client that saw no answer sends its prompt once more. A
  mistake runs it twice, or gives it two different answers.
* **Shared drafts.** The unsent words of a session, edited on several devices. A mistake
  loses what somebody typed.
* **Client handoff, installation lock, cron search**: three small algorithms the
  rest relies on.

Paths below are relative to `src/packages/typescript/broker/src/` unless they start
with `src/`.

## Inventory

| Component | State | Operations | What makes it correct | Model |
|---|---|---|---|---|
| Hold store, `sessions/mod-holds.ts` | open holds by (session, generation, request id), tombstones of outcomes, hand-over records, drawn card ids, parked waits | accept, pollVerdict, answer, answerQuestion, settleInTerminal, cancel, expire, sweep, putBack | an outcome is taken once, by whichever leg; a tap decides the call its card was drawn for; late answers are refused | `ModHolds` |
| Registry, `sessions/mod-registry.ts` | one row per session, generation counter, open-hold ids, command queue | register, deregister, notePoll, enqueue, requeue, dequeue, noteTurnEvent, status | one process holds a session; rows, holds and queue agree; commands in order | `ModHolds`, `ModCommands` |
| Socket server, `sessions/mod-socket-server.ts` | connections, parked polls | register, poll, hold and event routes; wakePolls; put-back of undelivered responses | no lost wakeup; nothing is given to a dead or replaced claimant | `ModHolds`, `ModCommands` |
| Service, `sessions/claude-mod-service.ts` | cards, the sweep timer | status, sweep, approve, answerQuestion, send | dead rows and lapsed holds go | `ModHolds`, `ModCommands` |
| HTTP reader, `sessions/mod-http-reader.ts` | one response per connection | respond, writeAll | a response leaves in full or is reported undelivered | `ModHolds`, `ModCommands` |
| Terminal mod, `src/mods/cosyncing-claude/hooks/register.js` | poll loop and its token, registration, event queue, recent commands, bands | pollOnce, registerSession, hold, settle, report, runCommand, turn hooks | a command runs once; Stop ends only the turn it names; a held call ends as somebody decided, or goes back to Claude | `ModCommands`, `TerminalHolds` |
| Adapter connection, `src/packages/typescript/adapters/claude/src/mod-connection.ts` | open cards | sendPrompt, runCommand, answers | refuses what cannot be delivered | `ModCommands` |
| Scheduled sends, `scheduling/` and its routes in `runtime/runtime.ts` | schedules in memory and on disk, in-flight set, timer | create, pause, resume, run-now, recover-quota, update, delete, reconcile, deliver, settle | one delivery per occurrence; missed fires are not sent; a cancel is final | `Schedules`, `Recurrence` |
| Attention, `attention/` | events, deliveries per device, dismissals, passes, lanes | raise, escalate, resolve, dismiss, prune, advance and reserve, dispatch, complete, retry | one alert per device and stage; a slow device delays only itself | `Attention` |
| Client handoff, `sessions/client-handoff-sequencer.ts` | active work, barrier, chain of prompts | run, runHandoff | handoff is exclusive and cannot deadlock | `ClientHandoff` |
| Installation lock, `installation/installation-lock.ts` | a lock file | acquire, recover, release | one holder | `InstallationLock` |
| Protocol journal, `sessions/protocol-journal.ts`, and the handling of a prompt in `runtime/runtime.ts` | records by client message id, in memory and in one file | claim, complete, load, prune | a prompt that is sent again is not run again, and is answered as it ended | `PromptJournal` |
| Shared drafts, `sessions/draft-store.ts`, and the draft of an owner in `sessions/hub.ts` | a record and a file per session, a clock of revisions, the owner's copy | write, prune, load; setDraft, clearDraftAfterPrompt | nothing that its writer had not seen is replaced; a revision names one text | `SharedDrafts` |
| Session hub, history, metadata | sessions, pages, journals, stores | see `PROJECT.json` | ownership, order | - |
| Artifacts, updates, security, roster, transport, storage, runtime, installation | files, SQLite, credentials, derived views | see `PROJECT.json` | durability, authorisation | - |
| Other adapters, shared packages, client app, contracts, scripts | - | - | - | - |

How they interact. The mod dials the broker over a Unix socket: it *registers* (one
row per session), keeps one *poll* parked, sends a *hold* for each call that needs a
decision, and sends *events* (turns, answers in the terminal's band, session end).
The app reaches the store and the queue through the service. Whatever creates work
wakes parked requests by callback; whatever is written to a connection may not
leave, and is then put back. The runner of scheduled sends opens sessions through
the hub and prompts them as the app would; its routes and its timer share the store.
Adapters, health checks and schedules raise attention events; the scheduler of
reminders reads them and calls the push services. The frames of each client socket go
through the handoff sequencer before they reach the hub; a prompt is then claimed in the
protocol journal before the agent gets it, and clears the shared draft it was made from.

What is hard: requests of several evaluations of the mod in several processes reach
one session in any order; each wait reads state, sleeps and reads it again; the two
legs compete for one outcome; an outcome or a command is consumed *before* it is
written; leases, staleness, tombstones and write deadlines run on different clocks;
request ids start over in every evaluation; timers, routes and deliveries of the
scheduled sends share rows across awaits, saves fail and the broker goes down between
any two of them. `PROJECT.json` lists the hazards at their lines, and says of those no
property covers why.

## Modules

* `ModHolds` - the broker's side of held calls, for one session (nothing in these
  files relates two sessions).
* `CallOutcome` - what that side promises about one call: decided once, told once or
  lost, never back. `ModHolds` is checked to implement it (`EveryCallEndsOnce`,
  through the mapping `WhereIs`).
* `ModCommands` - commands from the app to the terminal: queue, polls, undelivered
  responses, the mod's loop, its events and turns, reload, death and restart.
* `TerminalHolds` - the terminal's side of held calls: the hold loop, the band and its
  keys, the hooks that hold a call or take it back.
* `Schedules` - the schedule store, the runner, the deliveries and the HTTP routes.
* `Recurrence` - the search for the next minute of a cron expression.
* `Attention` - the attention store and the reminder scheduler.
* `PromptJournal` - the idempotency records of prompts, in memory and in the file.
* `SharedDrafts` - the shared draft of one session, its owner and the devices.
* `ClientHandoff` - the order in which one socket's frames are handled.
* `InstallationLock` - commands that want to change the installation.
* `ModHolds_proofs`, `ModCommands_proofs`, `TerminalHolds_proofs`, `Schedules_proofs`,
  `Recurrence_proofs`, `Attention_proofs`, `Stores_proofs` (the prompt journal and the
  shared drafts) and `Exclusion_proofs` (the installation lock and the client handoff) -
  the TLAPS proofs.
* `MCModHolds`, `MCModCommands`, `MCSchedules`, `MCAttention`, `MCStores`,
  `MCBrokerParts` - the small instances for TLC. `MCBrokerParts` puts the lock, the
  handoff, the cron search and `TerminalHolds` side by side, and `MCStores` the prompt
  journal and the shared draft: they share no state, each behaviour is one of the part
  its first state chooses (`focus`, `store`), and the others stay as they were at its
  start.

### ModHolds: state and actions

| Model | Code |
|---|---|
| `row`, `fresh`, `gen`, `openIds` | the registration, `isFresh`, `generations`, `openHolds` of the registry |
| `hold`, `lapsed`, `tomb`, `handedOver` | `holds`, the lease, `resolved`, `delivered` of the store |
| `cardOf`, `toolCards` | card ids and `drawnCardIds` |
| `legs` | a request on a connection: parked (poll or hold leg), or its outcome being written |
| `alive` | does the kernel still run the process (pid and start time) |
| `opener`, `decision`, `handed` | history variables, read by properties only |

*One thread.* A handler runs to completion and the waits it wakes run as microtasks
before the next event. Actions that start from an event are guarded by `Quiet`;
`ResumeHold` and `ResumePoll` are the microtasks, in any order.

*The environment.* An evaluation the broker's own checks let through (`Speaks`) may
send any request at any time, which includes everything the mod does. People tap any
card ever drawn, at any time. Processes die, connections close, writes fail.

*Abstractions.* Allow and deny are one verdict; a release by the gate, an expiry and
a cancel are one release, as on the wire (`verdictResponse`). `settled-elsewhere`
changes nothing and has no action. `Born` stands for the age in the instance tag.
`Pollable` allows any waiting outcome where the code takes the map's first. Gate
inputs are read from the set `Gates`. A question card may be rejected through
approve, which is the same deny. Rows are of interactive terminals (others are
refused). The eviction from `drawnCardIds` (256 cards per session) is left out.

*Time.* Clocks are nondeterministic within what the constants of the code exclude: a
tombstone or hand-over record (90 s) does not age out while a response for its key
is being written (deadline 10 s); a row does not go stale (60 s) while one of its
polls is parked (20 s); a lease (15 s) does not run out while a live hold leg is
parked, because reading the lease renews it.

### ModCommands: state and actions

`row`, `gen`, `queue`, `legs` are the broker's; `loop`, `reg`, `ended`, `known`,
`events`, `recent` are the mod's state (`loopToken` and the await the loop is in,
`registeredId`, `endedSessionId`, `turnId`, the promise chain `state.events`,
`recentCommands`); `turn` is what Claude really runs; `up` and `ev` say which
evaluation of the mod lives. A prompt and a steer are one kind (`words`), since the
mod turns a steer into a prompt when no turn takes it. A refused enqueue has no
action: it changes nothing. An event arrives, is lost, or is given up on and lands
later (`stray`, one at a time). `aged` says which commands passed their time to live
(the oldest first). `recent` keeps every id, as the mod keeps the last 64.

A reload (`Reload`) ends the old evaluation at once: the reply it waits for and the
events it has queued are lost. In the code its loop goes on in the same process until
the broker answers it `superseded` (`register.js:126-134`, `:946-983`), may read and run
one more command, the one in the response it was still waiting for, and may send the
events it had queued. So the model does not say what an old evaluation and a new one do
side by side; that a command is in one response only (`RunsOnce`) does not depend on it.

### TerminalHolds: state and actions

| Model | Code |
|---|---|
| `at`, `outcome`, `broken`, `chosen`, `shown`, `quick` | one call of `hold`: where its loop is, and its band |
| `ask`, `stray` | the hold request that is awaited, and one that was given up on: sent, parked at the broker, or its reply |
| `press`, `late` | the event of a key that is awaited, and one that was given up on |
| `failures` | `transportFailures`, which all requests of the mod share |
| `questions`, `result` | calls that Claude's picker is open for; what the hook returned in the end |
| `notices`, `turnOver`, `carry` | reports under way; the outcome in a reply of the poll leg |
| `registered`, `fate` | the broker, for one evaluation of the mod: its row, and what it has for a call (new, open, an outcome, told) |

`within` races a request with a timer and with what is decided in the terminal, and
cancels nothing: `Wake` and `TimesOut` leave the request as `stray`, and it takes its
effect at the broker later (`BrokerRepliesInVain`, `LateArrives`). `Break` and `Settle`
are guarded by `OpenBand`, so the first of an outcome and a break stays. A question may be
answered in a shape that fits it or in one that does not (`misfit`), or be rejected: the
last two leave Claude's picker open (`Effect`). A turn that is interrupted a
call back also after a key was pressed (`TakeBack`). The broker of
this module is `ModHolds` reduced to one call and one evaluation; that an outcome is
told on one leg, put back when it did not leave, and closed by a registration is checked
there. Which calls are held at all, how a superseded module retires, and the order in
which several bands take the screen are left out. `decided` and `gaveUp` are history.

### Schedules: state and actions

| Model | Code |
|---|---|
| `mem`, `disk` | `ScheduleStore.state.schedules`, and what the file holds of it |
| `inFlight`, `jobs` | `ScheduledSendRunner.inFlight`; each delivery under way: creating its session, sending, over |
| `request` | an HTTP request that passed the `isInFlight` check and awaits its body; `stale` says that the revision it read is no longer the row's |
| `made` | sessions made by deliveries, by number |
| `Reconcile` | one pass: due rows too late are missed, the others begin, all misses are saved together |
| `CreateSession`, `FailToSend`, `HandOver`, `Settle` | `deliver` across its awaits, and `settle` with `recordOutcome` |
| `RequestArrives`, `Apply` | pause, resume, run-now, recover-quota, update: the check, and the change after the await |
| `Create`, `Delete` | their routes, which check and change in one step |

Every write of the file writes the whole of `mem`. A route whose save fails rolls the
row back; the runner keeps an outcome in memory although its save fails. A crash may
come between any two steps and leaves `disk`. History: `arm` counts how often a row
was made ready to fire and `occ` which occurrence it stands for; `sent`, `prompted`,
`dropped` and `failures` remember hand-overs, sessions prompted, acknowledged cancels
and failures told. The next occurrence is `Period` later; `Recurrence` models the
search for it.

### Attention: state and actions

`event`, `ledger` and `dismissed` are the store (`mutate` adopts a change only when it
is saved); `pass` is the reconcile under way, with the copy of the events it read, the
event it is at and the step of it (`Reserve`, `Supersede`, `Collect`), and the
deliveries it found; `lanes`, `inFlight` and `jobs` are the scheduler's lanes per
device, its in-flight set and the dispatches that run (`calling`, `completing`,
`failing`). Four kinds of event stand for the code's: a `request` that is answered,
`news` that is born resolved, `health` that may get worse, and an `update` whose
reminder ripens. `Elapse` is the end of a retry delay, and reminder times are reached
by `Ripen`. `shown` counts alerts that reached a device, `worst` the stages that were
reached; both are history, and `mishaps` counts failed saves and crashes.

### PromptJournal: state and actions

| Model | Code |
|---|---|
| `journal`, `saved` | the idempotency records in memory and in the file: none, in flight, or how it ended (`ack`, `nack`, `unknown` for an outcome nobody knows) |
| `job` | the handler of a prompt: claimed, handed to the agent, over |
| `ClaimNew`, `ClaimKnown`, `ClaimFull`, `ClaimFails`, `ClaimPruneFails` | `claim`: a new prompt, one that is known, no room, and a save that fails, for the record or before it for the housekeeping |
| `HandOver`, `Finish` | the handler's `sendPrompt`, and its answer with `complete` |
| `TicketSaved` | what the tickets do to the file they share with the records |
| `RestartLoads`, `RestartQuarantines` | `load`, and its `catch` |

Which records are old is up to the clock: any that has ended may be dropped, none in
flight. A save that fails may have replaced the file or not. `retired` remembers the
prompts whose record was dropped for age or room: the code promises nothing of them.
`cutOff` remembers the prompts whose handler a restart cut off, and `told` the answers a
prompt got (of a prompt that was cut off, those since then). The save of the housekeeping
comes before the lookup, and when it fails a prompt that was cut off is answered that the
journal is full, which clients take for a prompt that did not run: that is why
`CutOffIsUnknown` leaves out runs in which such a save failed.

An `ack` and a `nack` are the outcome of the *handler*, that is, whether it threw, and not
of the agent: which of the two `sendPrompt` leads to is free (`Results`), because adapters
resolve a prompt that was refused and reject one that may have been accepted (see Known
differences). So no property here says that an acknowledged prompt ran, or that a refused
one did not. What is checked is that the journal never gives two verdicts (`OneVerdict`),
never hands a prompt over twice (`HandedOnce`), and says of a prompt that was cut off that
its outcome is unknown and nothing else (`CutOffIsUnknown`). A known id with another kind or
text is answered as a conflict, which is about that other request; `ClaimKnown` then
leaves `told` alone.

### SharedDrafts: state and actions

| Model | Code |
|---|---|
| `record`, `shard` | the session's record in the store, and its file |
| `next`, `reserved`, `clock` | `nextRevision`, `reservedThrough`, and what `revision-clock.json` says |
| `cache` | `ManagedConn.draft`, which the owner sends out |
| `held`, `latest`, `frames` | what reached each device, the id of its last write, and frames that are on their way or may be sent again |
| `SetDraft` | `write` with `setDraft`: a repeated id or a stale base changes nothing; otherwise a revision is taken (`Allocated`), the file is written, then the record and the owner's copy |
| `TakePrompt` | `clearDraftAfterPrompt` |
| `OtherSession`, `OwnerRebuilt`, `Restart` | revisions that go to other sessions, with `prune`; a new owner; `load` |

The clock is ahead of the revisions in use by up to a block, and is made durable before a
block is begun; a start gives up what is left of the block. A write that fails may have
replaced the file or not. Left out: frames without a base revision (the last writer
wins), the retry of a clear that could not be stored, the removal of a session's draft
with its session, and a clock file that is lost.

### ClientHandoff, InstallationLock, Recurrence

`ClientHandoff`: a promise is named by the frame whose task it is; `waitsFor` is what
each task awaits, `handoffBarrier` and `sendChain` are the code's. Kinds are prompts
(and what is chained with them), handoffs, and all other frames that enter the sequencer.
A handoff that finds work under way is refused. Receipts (`ack`, `nack`), `history-page`
and `history-refresh` are handled before the sequencer (`runtime/runtime.ts:4203-4214`),
as are frames a role forbids: they may run beside a handoff, and nothing is said of them.

`InstallationLock`: each file system call is a step (look, read, judge, move aside,
create, check owner, unlink); any process may die before each. The host gives out no
pid twice: that is the assumption `processAlive` makes.

`Recurrence`: one iteration of the loop of `nextCronOccurrence` is a step, in a
calendar of any size and a zone with one change of its offset. The field values are
those the parser lets through, for the day of the month and the day of the week with
their wildcard flags (`DayMatches`); a day of the month that no month has stands for
31 February.

## Runs

| Run | Instance | Checks | Shows |
|---|---|---|---|
| `holds_resume` | 2 processes, 2 connections, 1 call id | `OneFate`, `NothingParkedInVain`, `EveryCallEndsOnce` | takeovers between two terminals |
| `holds_reload` | 2 evaluations in 1 process, 2 connections, 2 call ids (question and permission) | `OpenHoldsAgree`, `NoBlindDecision`, `SettledOnceInTime` | reuse of request ids after a reload; cancels, sweeps and taps with two calls open |
| `holds_live` | 2 processes, 1 connection | `HeldOnlyWhileAsked` | liveness |
| `commands` | 2 connections, 3 commands, queue of 2, 2 registrations, 2 evaluations, 2 turns | `CommandsTypeOK`, `RunsOnce`, `HandedInOrder`, `NoPollIdlesBesideACommand`, `StopsNoLaterTurn` | queue, requeue, full queue, reload, restart; Stop against lost and late events |
| `commands_live` | 1 connection, 2 commands | `QueueDrains` | the queue empties though every write fails |
| `schedules` | 1 row of any kind, 1 request at a time, 3 edits, 1 retry, 2 sessions, 1 failing save, 1 crash | `SchedulesTypeOK`, `PromptsOneSession`, `SendsOncePerArming`, `CanceledNeverStarts`, `DueIsHandled` | deliveries against edits, failing saves and a crash |
| `parts` | 3 processes; 4 frames; every small expression and start; 1 call, 2 lost replies or 1 row that goes | `OneHolderUntilMoved`, `NoLockLeftBehind`, `HandoffRunsAlone`, `PromptsInOrder`, `EveryFrameHandled`, `NextAfterAnOccurrence`, `SearchEnds`, `DecisionReachesTheCall`, `LastsOnlyWhileHeld`, `PressesEnd` | lock, handoff, cron search; a held call in the terminal against keys, timers, turns, the app, lost replies and a row that goes |
| `attention` | 1 event of any kind, 2 devices, one silent; 2 stages, 2 attempts, 1 mishap | `AttentionTypeOK`, `EventAlertsOnce`, `NoAlertAfterAnswer`, `AlertComes` | alerts against answers, escalation, retries, failing saves and a crash |
| `stores` | 2 prompts, room for 1 record, 1 failing write, 1 restart; 2 devices, 2 texts, 3 frames, 3 revisions in blocks of 2, 1 failing write, 1 restart | `HandedOnce`, `OneVerdict`, `CutOffIsUnknown`, `PendingIsWorkedOn`, `RevisionNamesOneText`, `CacheIsCurrent`, `ShownIsDurable`, `ReplacedOnlyIfSeen` | prompts sent again, and drafts of two devices, against failing writes, restarts and what retention drops |
| `v_generation`, `v_cron`, `v_lock` | as above | one statement each | see Findings |

**Bounds.** Two registrations (`MaxGen`) and two holds (`MaxHolds`) are enough for a
takeover and for a request id to be used again, which is all a key or a card can
collide with; two connections are enough for the two legs to compete, or for a
response to fail while the next poll is parked. The real queue holds 8 commands, the
model 2: one command being written while two wait already meets the full queue.
Two turns are enough for a Stop to meet the wrong one. One row is enough for
`Schedules`, whose rows meet only in the file, which is written whole; the proofs
hold for any number. Two devices are enough for one to hold up the other. Three
processes are what the lock needs to go wrong (one that reads, one that leaves, one
that comes), four frames give every order of prompt, handoff and other around each
other. The calendar of `parts` (2 minutes an hour, 4 hours a day, 4 days a month, 2
months, weeks of 3 days) meets every rollover, with expressions for the day that restrict
the day of the month, that of the week, both or neither, or step over them (`*/2`); its
zone has no change of offset. Calls of one terminal meet only in the count of faults and in what breaks every band, so one
call of each kind is enough for `TerminalHolds`; two lost replies reach the real limit
of faults (2), and the limit of answers that come at once is 2 where the code has 3. Two prompts meet in a
journal with room for one; two devices that send three frames of two texts give a stale
base, a repeated frame and a prompt beside a draft; with three revisions the second block
is begun, by a write or by a restart.

Four instances are cut further by a named bound, all in the MC modules:
`OneAtATime` (`holds_reload`): two calls or two connections are in use only before
the reload; `OneWithTurns` (`commands`): once a turn began there is one command and
one connection, and by the second turn a reload or a new registration but not both;
`Bounded` (`attention`): an event escalates only after a device dismissed it;
`OneTrouble` (`parts`): in the terminal replies get lost or the row goes, not both.
The first two are TLC constraints and stand in runs without liveness only.

Runs do not check deadlock: every terminal may be dead, every schedule finished,
every frame handled, and the system then rightly stops.

**Every property was seen to fail** when the definition it is about is changed as a
plausible bug would change it; `PROJECT.json` lists one such change per property and
run, and the changed definitions stand beside the real ones, marked as mutants.

**Fairness.** `ModHolds`: weak fairness of each microtask, which the runtime runs
before anything else; strong fairness of the timers (end of a wait, lease, sweep),
which come due again and again but are disabled while microtasks run. `ModCommands`:
the same for the broker, ageing included; strong fairness of the mod's loop (poll,
read the reply) and of a write ending one way or the other, which the write deadline
ensures. `Schedules`: the timer re-arms itself after every pass, the awaits of a
delivery end one way or the other and it is settled then; time, people and the restart
of a broker that went down need not come.
`Attention`: passes go on and reminder times come; a dispatch ends only for the
devices in `Prompt`. `ClientHandoff`: a task whose promises are settled starts, a
handler ends. `Recurrence`: the loop goes on. `TerminalHolds`: the mod reads
what came and goes round its loop, and its timers fire; the broker need not answer.
Nothing is assumed of terminals, people,
hooks or the network. `PromptJournal` and `SharedDrafts` have no liveness property.

## Findings

Three statements of the code's comments and docs are refuted by the models; each is a
run that ends in a violation, and `PROJECT.json` quotes the lines.

1. `v_generation` - `putBack` (`sessions/mod-holds.ts:723`) files an undelivered
   outcome under the *current* generation, so a decision made for a call of the
   replaced process can reach the process that took over, against
   `mod-holds.ts:288-294`. It needs the new process to have been handed an outcome
   under the same request id while the old response was still being written.
2. `v_cron` - `nextCronOccurrence` steps by whole days and hours without going back to
   their first minute, and so passes over minutes that match
   (`scheduling/schedule-store.ts:245`).
3. `v_lock` - the recovery of a stale installation lock moves away whatever the path
   names by then (`installation/installation-lock.ts:109`): two commands hold the lock.

### Known differences

Ten more disagreements were found with these models and are not kept as runs; their
properties stand in the modules, and TLC refutes them.

* `answerQuestion` (`sessions/claude-mod-service.ts:664`) does not wake idle polls,
  against the comment at `mod-socket-server.ts:483-486`: the answer waits for the hold
  leg or for the end of the poll (`NoPollIdlesBesideAnAnswer`).
* The sweep of a dead row (`claude-mod-service.ts:583`) deletes the queue which
  `mod-registry.ts:160-161` says survives a restart (`RestartKeepsTheQueue`).
* `requeue` (`mod-registry.ts:374`) makes the queue of a session that ended anew,
  against `mod-registry.ts:222` (`EndEmptiesTheQueue`).
* A pause that passed the in-flight check while its body was awaited lands on a row
  whose delivery has begun; the failure is told, and told again after a resume, against
  `scheduling/schedule-runner.ts:175-176` (`OneFailureNotice`).
* A key is pressed, the row goes and the terminal registers again before the answer is
  refused: `holdGone` asks once more, the broker opens the call anew, and its band stays
  on screen with keys that do nothing until somebody answers in the app, against
  `register.js:625-626` and `:635-638` (`PressesAlwaysEnd`).
* A key is pressed while the app's answer is on its way on the poll leg and the hold
  waits for it there: the refusal of the key wakes that wait, and the call goes back to
  Claude without the answer, against `register.js:636-637` (`KeyEndsAsDecided`).
* An answer the band gave up on after its timer may still land, after the other key was
  pressed, against `register.js:625` (`TakenBackNeverLands`).
* A pass puts an event that got worse back to the stage it had read
  (`attention/attention-reminder-scheduler.ts:451`), and the escalation is not alerted,
  against `:131-132` (`EscalationKept`).
* A start that cannot save what it recovered moves the journal away and begins empty
  (`sessions/protocol-journal.ts:281-287`): a prompt that is then sent again goes to the
  agent again, against `:263-264` (`NeverDispatchedAgain`).
* A claim whose save failed stays in flight in memory: later copies of the prompt are
  answered `pending` though nobody works on it, and the client waits for it, against
  `markStillInFlight` of the app's `session_outbox.dart:246-249` (`OriginalIsRunning`).

Three more come from reading the code for the models. No property states them, because
the models take what the code does as it is.

* A prompt is acknowledged although nothing took it: `sendPrompt` of the Claude mod's
  connection resolves when its command was refused (full queue, stale registration, mod
  gone) or its text is blank (`adapters/claude/src/mod-connection.ts:262-281`, `:373-392`),
  and the runtime then sends and records an `ack` (`runtime/runtime.ts:5167-5182`), whose
  comment reads "the prompt was accepted". The refusal is shown in the session as an error.
* A prompt is refused although it may have been accepted: `opencode-wire/src/live.ts:487-499`
  rejects with "prompt transport became ambiguous" and "prompt may have been accepted before
  the server failed", and the runtime sends and records `CLIENT_MESSAGE_FAILED`
  (`runtime/runtime.ts:5184-5217`), not `CLIENT_MESSAGE_OUTCOME_UNKNOWN`. The app counts
  only the latter and a conflict among the failures that do not prove that a prompt did not
  run (`session_detail_draft_coordinator.dart:2163-2170`).
* A step in the field for the day of the month is without effect: `*/2` counts as a wildcard
  (`scheduling/schedule-store.ts:213`), and for a wildcard only the day of the week is looked
  at (`:271-272`), so `0 9 */2 * *` fires every day.

## Proofs

Each proof module holds for every value of the constants (any number of processes,
calls, rows, clients, frames, crashes), from the assumption its component's module
names, and from nothing else.

`ModHolds_proofs`, from `ConstantsAssumption`:

* `TypeCorrect`: `Spec => []TypeOK`. `TypeOK` is inductive; it carries the shape of
  a request (`LegShape`), without which the writes could not be typed.
* `RecordsAgree`: `Spec => []OpenHoldsAgree`. Inductive with `TypeOK`: every close
  goes through `StopAll` under the current generation, and a registration closes
  what the last one left before it moves the generation.
* `DecisionHasOneFate`: `Spec => []OneFate`. `OneFate` alone is not inductive: a hold
  opened anew must not carry a number that some tombstone or response still has. The
  strengthening `FateInv` is `Numbered` (every number in use was given out by `opened`)
  and, for each number, `Apart` (its places exclude one another). Every step is of one
  of seven kinds as far as outcomes go (`StepsAreOfAKind`), and `FateInv` is proved for
  these.
* `TapsDecideTheirCard`: `Spec => []NoBlindDecision`. The strengthening is
  `CardsDiffer`: no two holds were ever given one card, because a tool id is used
  once and a minted id is new.
* `NobodyWaitsInVain`: `Spec => []NothingParkedInVain`. The property speaks of an idle
  broker; the strengthening `ParkedInv` also says what holds while microtasks are still
  to run: whoever was not woken waits for what is there, a hold leg that can carry an
  answer keeps the lease running, woken or not, and no two open holds share a number
  (so the lease that runs out is the lease of one hold).
* `CallsAreSettledOnceInTime`: `Spec => SettledOnceInTime`, an action property. Every step
  settles some open holds alike, or none, or opens one (`SettlesCases`), and what is open
  is undecided (`StillUndecided`); the terminal's part comes from `RecordsAgree`.

* `HoldsImplementCallOutcome`: `Spec => EveryCallEndsOnce`, the refinement. Each kind of
  step moves a call in one of five ways (`StepsMove`), and `FateInv`, which says that
  the places exclude one another, makes each way a move of `CallOutcome` or a stutter
  (`MovesAreAllowed`).

`ModCommands_proofs`, from `CommandsAssumption`, proves every invariant of the run
`commands`:

* `QueueKeepsItsLimit`: `Spec => []CommandsTypeOK`, which is inductive.
* `CommandsRunOnce` (`[]RunsOnce`) and `CommandsKeepTheirOrder` (`[]HandedInOrder`).
  Neither is inductive. `Cargo` adds that a command is in one place, the queue or one
  response or the mod's past (`OnePlace`); that a queued command which was never put
  back was sent after everything before it, carried, received or put back
  (`FreshAreLast`); and that what the loop waits for is after what the mod has
  (`NextIsLater`). `Carriage` shows that every step is one of five kinds as far as
  commands go, and `Cargo` is proved for these five.
* `StopsKeepToTheirTurn` (`[]StopsNoLaterTurn`): events, the row and a registration
  under way never name a turn that has not begun (`TurnsHaveBegun`), so a Stop names one
  of the turns there were when it was sent (`StopsNameATurn`).
* `NoCommandWaitsInVain` (`[]NoPollIdlesBesideACommand`): a parked poll of the present
  registration that was not woken has an empty queue beside it (`ParkedOverEmpty`); no
  step is allowed to break that even for a moment, not only when the broker is quiet.

`Schedules_proofs`, from `SchedulesAssumption`:

* `OneDeliveryPerRow`: `SchedSpec => []SchedulesTypeOK`, whose last part says that a
  row has one delivery at most, and that it holds the row in flight.
* `OccurrenceKeepsItsSession`: `[]PromptsOneSession`; `NoSecondSend`:
  `SendsOncePerArming`; `CancelIsFinal`: `CanceledNeverStarts`.
* All four rest on one inductive invariant, `SchedIInv`. `RowsFit`: a row is in memory
  just when it is in the file, and a session that its occurrence is to be delivered to
  is in the file as soon as it is in memory. `JobsFit` ties a delivery to its row: until
  it is over it is for the row's present occurrence, was not handed over, and has the
  row's session. `SentFits`: an arming that was sent is an earlier one, or its row waits
  no more, or its delivery is still to be settled. `PromptedFits` is the argument of
  `PromptsOneSession`: as long as an occurrence can be delivered again, the session it
  was sent to is remembered, in memory and in the file, so that neither a retry nor a
  restart can choose another. `DroppedStay` carries a cancel over the restart.

`TerminalHolds_proofs`: `DecisionsReachTheirCall` (`[]DecisionReachesTheCall`), for any
number of calls. `HoldsInv` follows a decision from the broker to the call. As long as the
row has been there since the start and no reply was lost, whatever carries an outcome - the
broker's record, a hold's reply, a poll under way, the band - carries what was decided, or
that nothing was (`Carried`); a hold that ended with no outcome was broken, handed back, or
had a key pressed that stays (`EndsForAReason`); and a call that is over has the outcome of
its band (`EndsWithOutcome`).

`Attention_proofs`, from `AttentionAssumption`, for any number of devices, events, stages
and attempts:

* `DeliveriesHaveOnePlace` (`[]AttentionTypeOK`). `PlacesInv` adds that the batches of a
  lane have no delivery in common (`OnePlace`), that a pass has found none a lane has, and
  each once (`PassFindsNew`), and that a dispatch has an attempt left (`AttemptsLeft`).
* `AnsweredIsNotAlerted` (`NoAlertAfterAnswer`), an action property: a step that begins a
  dispatch reads the store again.
* `EventsAlertOnce` (`[]EventAlertsOnce`). A bound on what was shown is not inductive: what
  is bounded is what was shown together with what may still be. `AlertsLeft` keeps that
  account (`Budget`): the alerts a device saw of an event, and the stages it may still see
  (`Left`: a dispatch is calling, or the stage may be alerted and has not been delivered),
  are together no more than the stages the event has reached and the mishaps. A call that
  is made moves a stage from one side to the other; only a worse event, a crash or a failed
  save adds one. It needs that a device gets the stages of an event one at a time
  (`StagesApart`), that only stages the event has reached are reserved (`StagesAllowed`),
  and what is left of an event that was pruned (`RecordsFit`).

`Recurrence_proofs`, from `RecurrenceAssumption`: `NextWhileClockIsSteady`, that is
`CronSpec => [](ClockSteady => NextAfterAnOccurrence)`, for every expression and every
length of an hour, a day, a month, a year and a week. `ClockSteady` says that the zone does
not change its offset between the start of the search and the candidate (in the runs it
never does). `SearchInv` says where the search stands (`Placed`): in the hour it started
from; or on its day, at a minute no later than any that is listed; or at a minute and an
hour no later than any that is listed. That is why a step of a whole hour, or of a whole
day, passes over nothing, and why a start that does not match may (finding 2). The
lemmas before it are about quotients and remainders (`DivModAdd`, `DivDiv`) and about
the clock (`MinutesOn`, `HoursOn`, `DayOn`).

`Stores_proofs` on `PromptJournal`, from `JournalAssumption`: `PromptsAreHandedOnce`
(`[]HandedOnce`), `VerdictsAgree` (`[]OneVerdict`), `InterruptedIsUnknown`
(`[]CutOffIsUnknown`) and `PendingHasAHandler` (`[]PendingIsWorkedOn`). None of the first
three is inductive: what they rest on is `JournalInv`. `AllAgreed` ties the handler of a
prompt to its record (in flight in memory and in the file as long as it runs).
`AllRemembered` says, while no start has thrown the journal away, that a prompt which was
handed over and not retired has a record in memory and in the file; that one on which a
verdict was given has no handler, and a record that has ended; and that of one that was
cut off both records say "unknown", so that no later answer can say anything else.

`Stores_proofs` on `SharedDrafts`, from `DraftsAssumption`: `RevisionsAreUnique`
(`[]RevisionNamesOneText`), `OwnersAreCurrent` (`[]CacheIsCurrent`), `ShownSurvives`
(`[]ShownIsDurable`) and `NothingUnseenIsReplaced` (`ReplacedOnlyIfSeen`). `DraftsInv` adds
that every revision in use is below the next one, and the next one within the block whose
end the clock's file has, so that no restart can give a revision out twice
(`ClockCovers`); that store, file, owner and devices have only what was issued
(`AllIssued`, `DevicesHaveShown`); and that while there is a record or a file nothing newer
was shown (`NothingNewerShown`).

`Exclusion_proofs` on `InstallationLock`, from `LockAssumption`: `HolderIsInTheFile`
(`[]OneHolderUntilMoved`), `OnlyRecoveryBreaksExclusion` (without a lock moved aside
there is one holder at most: the exact condition of finding 3) and `LocksAreReleased`
(`[]NoLockLeftBehind`). Both are inductive once it is known
that a command which may create the lock has its nonce (`Numbered`), so that its record
is never taken for the absent one.

`Exclusion_proofs` on `ClientHandoff`, from `HandoffAssumption`: `HandoffIsExclusive`
(`[]HandoffRunsAlone`) and `PromptsKeepTheirOrder` (`[]PromptsInOrder`). `HandoffIInv`
adds that an active handoff is the barrier all later active frames wait for
(`BarrierHolds`), that each prompt waits for one not before the one it has to follow
(`ChainIsLast`, `Chained`), and that a prompt which has begun has no active one before
it (`BegunInOrder`). `FramesNeverDeadlock` (`[]SomeFrameGoesOn`) is the part of
`EveryFrameHandled` that is safety: while work is under way, a handler runs or a task has
all its promises settled, because a frame waits only for frames before it that were
accepted and not refused (`WaitsBackward`); with the fairness of the runtime no frame then
waits for ever, which TLC checks.

Lemmas summarise what each update operator does to one variable and are cited by the
step proofs, one step per action. The strengthenings were checked by TLC on the
instances above before they were proved.

Every safety property of a passing run is stated by a theorem. Only model-checked is
liveness (`HeldOnlyWhileAsked`, `QueueDrains`, `DueIsHandled`, `AlertComes`,
`EveryFrameHandled`, `SearchEnds`, `LastsOnlyWhileHeld`, `PressesEnd`), which is beyond the
prover.

## Not modelled

*True sync:* byte framing, parsing and limits of requests; peer admission (uid,
versions), which refuses before any state is read; audit rows, attention and viewer
counts; the transcript tail and the hub; in the terminal, the choice of the calls to hold,
the rendering, the kill switch, and the parking and backoff of its loop.

*Scheduled sends:* the time at which the legacy daily and weekday repeat fires next, the
cap on live rows, the pruning of finished rows, the migration of old files, and `edit`,
which no route calls. The runner saves the misses of a pass one by one, the model together.

*Attention:* cursors and paging of the feed, acknowledgements, observations, the
stages older brokers wrote, devices that register or leave. An event is raised once
(`Raise`): that a later upsert under its dedupe key makes a resolved event active again
(`attention/attention-store.ts:489`), and that resolving by key an event that is resolved
already retires its reservations (`:507-514`), are left out. So `EventAlertsOnce` and
`NoAlertAfterAnswer` speak of an event up to the first time it is resolved.

*Prompts and drafts:* see the two sections above; the text of a prompt, its attachments
and the outbox of the app.

*Lock:* a file that is not a lock record, and file system calls that fail for reasons
other than the race (they end the command).

Other components are listed in `PROJECT.json` with the reason: views of data,
platform I/O, encodings, generated code and user interface, which are most of the
repository's lines.

## Plan

1. *(done)* `ModHolds`, `CallOutcome`, `ModCommands`, `TerminalHolds`, `Schedules`,
   `Recurrence`, `Attention`, `PromptJournal`, `SharedDrafts`, `ClientHandoff`,
   `InstallationLock`, and thirty-five theorems.
2. *(done)* Proofs about `Attention`, `Recurrence` and `TerminalHolds`.
3. `ModSync`: `TerminalHolds` over `ModHolds` itself, in place of the reduced broker, so
   that the end-to-end promise also covers reloads and takeovers; late `session.end`
   events and the turn a registration carries belong there too.
