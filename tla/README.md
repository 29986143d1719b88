# Company Brain: TLA+ specifications

Company Brain is a multiplayer agent harness: people talk to an agent from Slack
or over HTTP, each message becomes a *run* in a durable queue, a *worker* claims
the run and drives a *turn* (a conversation with a language model and its tools)
that reads and extends the transcript of a *session*. Several server processes
share one Postgres database and nothing else. They are deployed, drained and
killed at any time.

What can go wrong is therefore mostly between processes: leases that lapse while
their holder goes on, statements that decide from rows read earlier, retries of
half-done work, and a reaper that cleans up behind processes that may not be
dead. These specifications model that part.

## 1. The system and its parts

| part | code | interaction |
|---|---|---|
| run store | `src/src/runs/*run-store.ts` | queue of runs; leases by token; error budget, claim cap; terminal listeners |
| session store | `src/src/sessions/*session-store.ts` | one writer lease per session; transcript and tape; participants |
| worker, drain, reaper | `src/src/runs/worker.ts`, `reaper.ts`, `drain.ts`, `src/src/wiring.ts` | claim runs, renew leases, hand back on shutdown, retire lapsed leases and free sessions |
| turn handling | `src/src/core/orchestrator.ts`, `turn-resume.ts`, `turn-error.ts` | session lease, resume decision, transcript entries, result |
| delivery outbox | `src/src/delivery/` | a terminal run's result is queued under the key `run:<id>`, claimed and acknowledged by a surface |
| Slack surface | `src/src/slack/` | submits turns, posts replies, polls the outbox |
| cron scheduler | `src/src/cron/` | a job queue or interval ticks fire stored crons |
| triggers, idempotency store | `src/src/triggers/run-trigger.ts`, `idempotency/` | a firing runs a turn and queues its reply, once per key |
| leader lease | `src/src/persistence/leader-lease.ts` | at most one process scans for due crons |
| run signals | `src/src/runs/*run-signal-store.ts`, `api/app-turn.ts`, `api/app-helpers.ts`, `harness/pi-harness.ts` | a message to a thread with a live run steers or stops it; what a run leaves behind is replayed |
| monitors, wakes | `src/src/monitors/`, `wake/` | watch background jobs and threads, fire triggers |
| tape, compaction | `src/src/core/orchestrator/compaction.ts` | rewrites what the model is sent, under the session lease |
| durable map, approvals | `src/src/persistence/durable-map.ts`, `api/app-sessions.ts` | pending approvals, settings |
| instance registry | `src/src/runs/instance-registry.ts` | a superseded build stops claiming |
| rate limit and budget | `src/src/ratelimit/` | counters per window |
| permissions | `src/src/acl/`, `policy/`, `resolution/`, `reach/` | pure evaluation of grants and policies |
| everything else | harness, HTTP API, sandbox, credentials, skills, memory, deployment, administration, model catalogue, CLI | external services, rendering, document storage |

`PROJECT.json` lists every part with its status.

## 2. Modules

```
                RunQueue <------refines------+
                    ^                        |
                    | INSTANCE               |
 SessionStore <--EXTENDS-- RunSignals     RunStore
      |                                      |
      +--INSTANCE-- TurnExecution --INSTANCE-+

 DeliveryStore <--INSTANCE-- SlackDelivery
      ^
      +--EXTENDS (and refines)-- Triggers <--EXTENDS (and refines)-- CronScheduler
```

| module | models | state | actions |
|---|---|---|---|
| `RunQueue` | what the queue promises | phase and thread of each run | Submit, Start, Yield, Settle |
| `RunStore` | `postgres-run-store.ts`, statement by statement | `runs` (the table), claims, `fail()` calls and sweeps in flight, listeners due | one per method, two or more where a method sends several statements |
| `SessionStore` | lease and logs of `postgres-session-store.ts` | lease rows, acquisitions, committed writes | one per method (each is one statement or transaction) |
| `TurnExecution` | worker, inline driver, turn, drain, reaper, composed with both stores | the two stores, one record per worker | one per await point |
| `DeliveryStore` | `postgres-delivery-store.ts` | rows of the outbox | one per method that writes |
| `SlackDelivery` | pollers, tracker, `postWithVerify`, the handler waiting for a run | the outbox, one record per process, what Slack shows | one per await point |
| `RunSignals` | routing, polling and replay of signals, with as much of run queue and turn as they meet | run phases, the signal rows, the calls in progress, one turn per process, the session store | one per await point |
| `Triggers` | `run-trigger.ts` under `idempotency-store.ts` | the records, one run per key, the calls in progress, the outbox | one per await that touches shared state |
| `CronScheduler` | `scheduler.ts`, `cron-store.ts`, `schedule.ts`, `job-queue.ts`, `leader-lease.ts` | the row, the jobs, the lease, the firings in progress, and `Triggers` | one per statement on the row |
| `StoreProofs` (run store and session store), `CronSchedulerProofs` (with outbox and triggers), `TurnExecutionInvariant`, `TurnExecutionProofs`, `SlackDeliveryInvariant`, `SlackDeliveryProofs`, `RunSignalsInvariant`, `RunSignalsProofs` | | | lemmas and theorems |
| `MC*` | | | constants and symmetry for TLC |

Conventions used throughout:

- **Tokens.** A fresh lease token (`randomUUID`) is the number of the claim or
  acquisition that issued it. 0 is NULL. Two calls never get the same number, so
  this keeps the one property of UUIDs the code relies on.
- **Time** is relative to the present: an expiry is the time left and `Tick`
  decrements it down to a floor below which no comparison of the code
  distinguishes values. No behaviour is cut short by a clock bound.
- **Open callers.** In the stores, any method may be called, and any token ever
  issued presented, at any moment. This covers stalled workers, late calls and duplicated calls, and
  makes the results independent of what the callers do.
- **Statements.** A method that reads, then writes conditionally, is two actions
  with everything else free to happen in between: `claim` (the subselect's
  snapshot and lock, then the update or the unique violation), `fail` (read, then
  update), `reapExpired` (select, one update per row, then the sessions).
- **Mutants.** Operators marked *Mutant* are not part of the specifications. Each
  is a plausible bug in the definition that follows it, used to confirm that the
  property can fail.

### RunStore

`runs[r]` is the row of `r` with the columns that decide anything. `claiming[w]`
is the row a claim statement has locked (`FOR UPDATE SKIP LOCKED`). `failing`
holds the copies `fail()` read and has not yet acted on, `sweep[z]` the progress
of a `reapExpired` call, `settling` the runs whose terminal row is written while
the listeners are still to be called. `dieBeforeSettle`, `dieBeforeRetire`,
`abortClaim` and `abortSweep` are a process dying, or a statement throwing, at
those points. `handbacks` is a history variable.

The in-memory store (`memory-run-store.ts`) performs the same operations
atomically, so its behaviours are among those of the model.

### SessionStore

`log[s]` is the sequence of committed writes to either log of `s`, each with the
token it was made under. `withLease` lets a holder write after its lease expired
as long as nobody took it over, and renews the lease. The model does the same.

### TurnExecution

A worker is a record with a program counter:

| pc | where the code is |
|---|---|
| `idle` | between claims |
| `handback` | a claim returned after `stop()` |
| `turn` | `handleTurn`, before the session lease |
| `leased`, `prompt`, `working`, `replied` | after `acquireLease`, after reading the transcript, after recording the request, after the reply |
| `throw`, `unwind` | the catch clause; the finally clause |
| `report`, `failing` | `complete` or `fail`; between the two statements of `fail` |

The heartbeat timer (`beat`), `releaseInFlight` (three statements) and crashes
run beside it. What the model and the tools do in a turn is open: it replies,
declines, or throws, at any point the code allows. Of the transcript the model
keeps the entries that decide how a retry resumes. Two sets of runs stand for what
the code reads off a request: `Blank`, whose request has no text (an opener, files
only), which `findTrailingPartialTurn` never finds; and `Synthetic`, whose text no user
wrote (automated turns, approval replays). A failure that ends a run of either is
recorded without the request before it (`backfills`).

`Faults` selects the kinds of fault a run of TLC explores and `MaxFaults` bounds
their number:

- `stop`: a drain;
- `release`: a statement of `releaseInFlight` throws;
- `crash`: a process dies at any await;
- `throw`: a statement of the turn, of the report or of the sweep throws.

Lapsing leases are not faults: time may pass at any point, so every worker may
stall for as long as it likes.

### DeliveryStore and SlackDelivery

`deliveries[k]` is the row of idempotency key `k`, `acked[k]` the call that
acknowledged `k` first (history). `ackByKey` of a key that is not queued yet
inserts a delivered row, a *tombstone*.

In `SlackDelivery` the keys are results of runs (`Run`), other messages to a
conversation (`Message`) and messages to a person (`Note`). The result of a run
travels twice: the handler that submitted the turn waits for it and posts it
(`handler[r]`), and the terminal listener queues a *recovery copy* under
`run:<id>`, which the handler acknowledges. `proc[p]` is one server process: the
runs its handlers have pinned, the delivery tracker, and the two loops of a poll,
whose program counters are

| pc | where the code is |
|---|---|
| `idle`, `fetch` | between polls; about to claim |
| `next` | the head of the `for` loop over the claimed batch |
| `preflight`, `post`, `scan` | `postWithVerify`: the first scan, `chat.postMessage`, the scan after an ambiguous error |
| `ack` | the acknowledgement at the end of `deliverWithRetry` |

`slack[k]` counts what Slack shows: `copies` posted by pollers, `live` posts of the
handler, and whether one of them is `keyed`, that is, found by a scan. `was` is
history: keys whose claim was outlived by its holder, that were exposed to both
handler and poller, left unconfirmed, or forgotten by the tracker. The fault kinds are explained at
`Fault`. The Slack API is external; a call that failed may have had its effect.
The destination types `slack` and `group`, fetched one after the other into one
loop, are one type here.

### RunSignals

One thread. A message that arrives (`arrive`) makes a call of `app.turn`, which
looks for a live run (`look`) and either queues a run of its own (`enqueue`) or
writes a signal for the live one (`send`) and looks at the run again (`check`). A
message without text that would go to a live run is dropped (`dropEmpty`).
`replayOrphanedRunSignals` passes what it took to `app.turn` one message after
the other, so its callers (`check`, the terminal `listener`, the sweeper) go
through the same actions: `job` holds the calls in progress with the messages
they have in hand, and the process they run in, with which they die.

A turn is `claimed`, `leased`, `streaming` (the prompt runs), `ended`, `stopping`
(the poll accepts no more), `closing` (the reply), `unwind`, `report`. Beside it
its poll is `quiet`, `taking` or `dispatching` a batch. `kind` says what a message
is: an ordinary one, "stop", one without text, a steer from the web (without
timestamp and request), or a trigger's. `fate` is history: how a message ended that
did not get a run of its own; `heard` by a streaming turn, `unread` (taken after the
prompt had returned), `unrecorded` (heard, but `onSteer` swallowed that its record
failed: `dispatchUnrecorded`), `dropped` by the rules of routing or replay, or `lost`
to a crash, a swallowed error or a turn that was no longer the owner of its run.

The run queue is the abstract `RunQueue`, which `RunStore` is proved to implement;
its retry budget is a number of claims. Signals taken in one statement are a set of
rows, of which the foremost by `id` (`foremost`) is always the next; that is the sort
of `takePending`.

### Triggers and CronScheduler

A call of `runTrigger` is outside, or inside `once()` at the read of the record, in
its body, waiting for its turn, or at the write of the record. Any await may
reject. `withheld` is history: firings whose reply was not to be delivered, since
visibility and consent are open choices. Triggers' outbox is `DeliveryStore` itself,
with everything else that uses it.

`CronScheduler` adds one cron and the processes that fire it, each by job queue or
by interval ticks (both kinds exist while a deployment replaces one by the other).
`fire[c]` is the firing that makes call `c`: reading the row, claiming
(`claimSlot`), firing, switching the cron off (`disable`), and then either giving
back the slot (`unclaimSlot`) or queueing the next, or, after a tick, `markFired`
in two statements. Each statement may reject: the claim, written or not
(`claimThrows`), the record or the switching off at the end of `fire()`, which makes a
delivered firing count as failed (`fireThrows`), and what follows it (`settleThrows`).
A claim that succeeds and the entry into `runTrigger` are one step: nothing that
others can see happens between them. `taken`, `overtaken` and `rev` are history. Times
are ticks; the calendar is a fixed period, since the cron library is only asked for
"the next match".

## 3. What TLC checks

| run | instance | properties |
|---|---|---|
| `run_store` | 1 run with budget 2, cap 3 and 4 claims, 2 workers, 1 sweeper; or 2 runs and 2 sessions with fewer claims | `TypeOK`, `LeaseIffRunning`, `ResultOfLastClaim`, `ErrorBudgetRespected`, `ClaimsCapped`, `SettledOnce`, `OneRunningPerSession`, `TerminalIsFinal`, `ReapsOnlyLapsed`, `ImplementsQueue` |
| `turn_faults` | 1 run, 2 polling workers (symmetric), 1 crash or throwing statement | `TypeOK`, `CancelledLostLease`, `AnswerInTranscript`, `RetryDoesNotRepeat` |
| `turn_drain` | 1 run, 1 polling worker, 1 inline driver, a synthetic request, 2 faults among stop and failing releases | `ImplementsRunStore`, `ImplementsSessionStore` |
| `turn_live` | 1 run without text, 1 worker, 1 fault | `EveryRunSettles` |
| `slack` | 1 run with 2 processes (symmetric), or 2 of 2 messages and a note with 1 process; tracker of 1; 2 faults of any kind | `TypeOK`, `AckedWasShown`, `CopyPostedOnce`, `MessagePostedOnce`, `AckSticks`, `QueuedOnce` |
| `slack_live` | 1 run, 1 process, 3 faults (no lost enqueue) | `ShownByOne`, `EveryDeliveryResolved`, `RefusalShown` |
| `signals` | 1 queued run and 2 more messages, 2 processes, 2 claims a run, 3 events (arrivals and faults) | `SignalsTypeOK`, `InOnePlace`, `SteeredIsRecorded`, `RecordedInOrder`, `RepeatsOnlyWhatIsPast`, `WritersInTurn`, `EveryMessageSettles` |
| `cron` | 1 cron of any kind, 2 processes, 2 firings at a time, 3 ticks, 1 fault or edit (symmetric) | `CronTypeOK`, `LastSlotKept`, `ClaimedByOne`, `CommittedIsDone` |
| `cron_live` | the same with 1 firing at a time and 2 ticks | `CatchesUp`, `ImplementsTriggers` |
| `cron_reschedule` | 1 process, 1 failing firing, 1 edit | `StaleSlotsDoNotFire`, violated: see section 5 |
| `turn_reacquire`, `turn_strip` | as `turn_faults` | one property each, violated: see section 5 |

**Bounds.** `ClaimBound = 4` with `MaxClaims = 3` lets a handback carry a run over
the cap. `MaxAttempts = 2` separates the first error from the last. `Ttl = 1` is
enough because only "lapsed or not" is ever compared, and `MaxSweep = 1` allows a
renewal to lapse again between a sweep's select and its update. Two claims are
enough for a worker that lost its run to meet its successor. `turn_live` has a
third claim, and two lost beats (the code uses three), so that a lost beat may be
followed by an error, which resets the count. `MaxLog` is above what the claims
of a run can write, so no append is cut off. Sessions in `TurnExecution` are not
deleted and a single run is submitted: a second request in the same session is
outside these instances, though not outside the proofs. In `turn_drain` the terminal
listeners are called at once (`SettlesAtOnce`); `turn_faults` and `run_store` let other
steps come first.

In `run_store` a run by itself gets four claims; once both runs are there, three
are shared between them (`PairBounds`).

In `SlackDelivery`, `ClaimTtl = Grace = 1`: only "expired or not" and "aged or
not" are compared. Two attempts of each retry separate the last from the others,
and with as many faults as attempts each retry can be exhausted. `ShownByOne` and
`MessagePostedOnce` are about one process, since pins and tracker are its memory;
across processes only `CopyPostedOnce` and `AckedWasShown` are claimed. Run and
messages are explored apart (`OneConcern`): they share only the tracker, whose
limit two messages reach. The second fault is explored while at most one process is
in a poll, and no process restarts once a message was sent (`NoRestart`), since
`MessagePostedOnce` is about the memory of a process.

In `RunSignals` three events are enough for a steered turn that fails and is
retried, for two messages that reach one poll in one batch, and for a message
whose replay meets another live run; four would take hours. Messages other than the
ordinary ones count as two. The replicas are interchangeable, so the first
claim is made by `p1` (`FirstClaimByP1`); TLC's symmetry is not sound for the
liveness property of the same run. `MaxLog` and `MaxLeases` are not reached.

In `CronScheduler` three ticks give an overdue slot beside the current one
(`Backlog` limits the third to the case where it matters: a calendar fired by
queues only). One event, a fault or a request of a user, already meets every
interleaving of two firings with it. Behaviours that go on after a row was
overwritten (`overtaken`) are excepted by the properties and not explored. At most one
key has a call that might not deliver (`OneWithheld`).

**Deadlock** is checked in the `slack` runs. In the other runs it is not: once
every run is settled, every message dealt with, and no slot is to come, a system
without further requests has nothing to do.

**Fairness** (only for the liveness properties). A polling worker keeps
claiming (the loop of `startWorker`); an inline driver is not assumed to, it
serves one API call. A claimed run is carried through, since the harness bounds a
turn by `turnWallClockMs`. A stopping process reaches its exit (`wiring.ts` sets a
timeout and a backstop). The reaper runs on a timer. Time passes. In
`SlackDelivery` (`slack_live`) the poll timer fires, calls to Slack and the
database return, the terminal listener runs and time passes; nothing is assumed
of runs, faults and new messages. Weak fairness is enough for each: once enabled,
each stays enabled until taken or until a fault takes its place. Nothing is
assumed of heartbeats, faults or new requests.

In `RunSignals` one weak fairness condition covers all awaited calls, timers and
worker loops together (`Progress`). None of these steps can be repeated for ever
between two arrivals or faults, so whatever is enabled is taken in the end.

In `CronScheduler` interval ticks and queue workers have strong fairness: another
process's lease guard, or another firing, disables them from time to time, but
their timers fire for ever and catch a moment when they are not. Starting
processes, calls in progress, reconciliation and the ends of turns have weak
fairness. The lease guard has none: it only keeps others away.

## 4. What is proved

The theorems hold for all sets of runs, sessions, workers and sweepers and all
values of the budgets and durations, under the named assumptions of the modules:
positive budgets, lease and claim durations, natural bounds, non-empty sets of
sessions and keys, `NoKey` and `None` distinct from the keys and the runs, and for
crons, keys for the slots up to the last tick and for the manual runs.

**StoreProofs**, the run store. The inductive invariant is
`IInv == TypeOK /\ RowsOK /\ CopiesOK /\ LocksOK`, stated at the end of `RunStore`, where
its users find it.

- `RowsOK` collects the row invariants with one strengthening. `ClaimsCapped` is
  not inductive: a pending run must have a claim left, up to its handbacks.
- `CopiesOK` says what a stale copy may still be relied on for: as long as the
  row carries the copied token, it carries the copied counters. This is why
  deciding from a row read earlier is sound once the update is guarded by the
  token.
- `LocksOK` says that two claims never hold the same row lock, and that a locked
  row is pending.

From it follow `TypeCorrect`, `MutualExclusion`, `LeaseDiscipline`,
`ResultFenced`, `BudgetSound`, `ClaimsBounded` and `ListenersOnce`. `Finality` and
`Refinement` rest on a lemma (`NextMove`) that classifies every step by its effect
on the statuses: stutter, submission, start, or end of a spell. `ReapsLapsed` is
the action property for the sweep.

**StoreProofs**, the session store. `WritersInTurn` relates two past writes. It
becomes inductive with `Fenced`: no write, and no lease row, carries a token above the
last one issued, and every write's token is at most the one of the lease row, if
there is one. `SessionTypeCorrect` and `LogsFenced` follow.

**CronSchedulerProofs**, the outbox. `AckSticks` needs `Agree`: a row that nobody
acknowledged is not delivered. With it, the first acknowledgement and `delivered_at`
are the same event, in either order of `enqueue` and `ackByKey`. `NoResurfacing`
(`QueuedOnce`) follows: only pending rows are claimed, and no statement rewrites a
row.

**CronSchedulerProofs**, the triggers. `CommittedIsDone` is inductive together with
`CommitReady`: a call about to write its record has left its message in the outbox,
or its turn ended quietly, or it withheld the delivery. That a message once in the
outbox stays there is a fact about the outbox, so the inductive invariant contains
the outbox's, and `UsesOutbox` shows that triggers take only steps the outbox allows.
`OneCallPerKey` is that `once()` admits one call per key and process.

**CronSchedulerProofs**, the scheduler. The inductive invariant `CIInv` is the one of
triggers, the types, that a firing and its call belong together, and what is stated
below about slots. From it `CronRefines`: each step of the scheduler
is a step of `Triggers`, or leaves its variables alone; so `CommittedIsDone`,
`OneInFlight` and `AckSticks` hold of cron firings (`CronFiresSafely`) without having
been shown again.

**CronSchedulerProofs**, the slots. `LastSlotKept` says nothing of the row's own columns,
by which `unclaimSlot` decides, so it is far from inductive. The invariant has besides:

- `FiringsOK`: what a firing is at each of its steps, that a process has firings of
  one kind, and that what was skipped or is to be marked is on record;
- `ClaimsPassed`: the row waits for no slot that is claimed, which is what keeps
  `claimSlot` from taking a slot twice (`ClaimedByOne`);
- `TakenKept`: the slot last taken is on record or owed, or some firing *carries* it:
  its claim is the one the row shows (`lastFiredAt` is the time of the claim and the
  schedule is the same), and no other claim is of a later slot. So a firing that fails
  finds its own claim in the row and gives the slot back.

`LastSlotNotLost` and `SlotsClaimedByOne` follow. Of a slot that is not the last, nothing
is claimed: if its firing fails after a later slot was claimed, `unclaimSlot` leaves the
row alone and the earlier slot is given up. The proof attempt showed that the
exceptions had been too wide in one place and too narrow in another: an `unclaimSlot`
is now `Mistaken` exactly if the claim it undoes belongs to another firing or to an
earlier schedule, and a claim whose call is skipped, because the process still fires
the same slot for an earlier schedule, is an exception of its own.

**TurnExecution.** The invariant `TInv` of the composition starts from the two inductive
invariants of the stores and adds what ties a worker to them:

- `ClaimKnown`, `ClaimsApart`: the token of a busy worker was issued for its run, its
  session lease for the run's session, and no two workers share either. Tokens are
  never reused, so a stalled worker can at most find that its own have gone;
- `IdleClean`, `FailuresOwned`: nothing of a turn is left in an idle worker, and the
  copies `fail()` has read belong to workers that are reporting an error, one each;
- `LostIsLost`: a beat is counted as lost only if the lease is gone for good. This
  gives `CancelledLostLease`;
- `ReplyWritten`: a turn that is going to report an answer has written it under its
  own claim. With the run store's fencing by token this gives `AnswerInTranscript`;
- `HasLast`, `OwedIsMissing`: as long as a retry that still owes its request holds
  the session lease, the transcript does not end with that request. That is why the
  decision it took when it read the transcript is still right when it writes, and it
  rests on the session store's fencing: every write in between would have needed a
  later lease. This gives `RetryDoesNotRepeat`, for the requests that have a text.

`TurnExecutionInvariant` states it and has the lemmas about its parts, and the actions
that claim a run, report its end or write; `TurnExecutionProofs` has the rest and the
theorems. The action lemmas
assume `StoresKept`, that a step of a store keeps the store's own invariant. It is
discharged at the end, where the proofs of the stores are instantiated
(`StoresSound`). Every action lemma ends in `Sound`:
the step is one of each store or leaves it alone, and `TInv` holds after it. So
`RefinesRunStore` and `RefinesSessionStore` come with the invariant, and all theorems
about the stores hold of workers, turns, drain and reaper. The assumptions are
`StoreAssumption` and `TurnAssumption`: those of the stores, and that fault and claim
bounds are natural numbers and at least one lost beat is tolerated.

**SlackDelivery.** The invariant `SlackIInv` (in `SlackDeliveryInvariant`, with the
lemmas about single actions; `SlackDeliveryProofs` has `Next` and the theorems) ties
together what lives in five places: the row, the claim, the batches and attempts of
the pollers, the memory of each process (tracker and pins), and Slack itself.

- `OutboxOK`, `RowOK`: the table agrees with the history of acknowledgements, a row
  is of its key's type or a tombstone, and a missing row is not claimed;
- `ShownOK`, `PostedOK`: what the tracker lists as posted, and what a loop is about to
  acknowledge, is in Slack. This gives `AckedWasShown`;
- `CopyOK`: as long as nobody outlived a claim, at most one loop of all processes has a
  copy in hand, the row is claimed while it does, and the loop is about to post only if
  the copy is not in Slack yet (`preflight` looks). This gives `CopyPostedOnce`;
- `AnswerOK`, with one process: from the moment a handler waits for a run, its pin, the
  acknowledgement or the key of its post keeps the pollers off. One of the three takes
  over from the other before it goes, which is why the order of unpinning and
  acknowledging in `core-bridge.ts` matters. This gives `ShownByOne`;
- `MessageOK`, with one process that does not restart: a message in Slack is
  acknowledged, listed by the tracker as posted or given up, or in the hands of the
  loop that will find it. This gives `MessagePostedOnce`.

Pins and tracker are the memory of a process, so `AnswersShownByOne` and
`MessagesPostedOnce` have the hypotheses under which the runs check these properties:
`Alone`, there is one process, and `Steady`, it does not restart either. The other
theorems hold for any set of processes, with restarts. `SurfaceUsesOutbox` shows that
every step is one of the outbox or leaves it alone, so `AckSticks` and `QueuedOnce`
carry over (`SurfaceAcksStick`, `SurfaceQueuesOnce`). The lemmas about the outbox are
proved here once more for the outbox of the surface (`OutboxMoves`), whose destination
types are the loops. The assumption is
`SlackAssumption`: runs, messages and notes are disjoint, and attempts, the tracker's
limit and the claim duration are positive.

**RunSignals.** The properties relate where a message is, in the database or in the
memory of some process, to what the transcript says. The invariant `SignalsIInv`:

- `PlaceOK`: a message is in one row, or at hand or waiting in one call, or in the batch
  of one poll, or has a run, or has come to its end, and in one of these only. It is
  `InOnePlace` case by case, as the steps need it: a row is taken by one statement, so
  that of the poll, the caller, the listener and the sweepers one gets it. This gives
  `NeverLostFromSight`;
- `RunsOK`, `JobOK`: a pending run has a claim left, one run of the thread runs at a
  time, a signal goes to a run that exists, and a listener runs for a run that has ended;
- `TurnOK`, `Apart`: claims and session leases are never shared, and as long as no run
  was taken from a process still at it, each turn has its claim and its lease. That is
  why a steer is recorded when it is dispatched (`SteersRecorded`), unless the append
  itself fails, and why the other exception in the property is as narrow as `stalled`;
- `TableOK`: row ids rise, a row is the last that carried its message, a run's own
  message was sent before any signal of that run, and what a poll has taken was sent
  before what is still in the table. `Ahead` continues this into the transcript: what
  was recorded under a turn's lease was sent before what the turn still has in hand or
  may take. With it `SteersInOrder` is inductive; the sort of one batch alone does not
  give it, since a turn takes many;
- `Begun`: a request in the transcript belongs to a run whose next attempt, if there is
  one, is a retry. So `findTrailingPartialTurn` looks, and finds the request if it has a
  text and is last (`RetriesResume`).

`RunSignalsInvariant` has the invariant, the jobs and the simpler steps of a turn;
`RunSignalsProofs` has the rest and the theorems. The proof is for any messages,
processes, faults and claims per run. `TurnsUseSessions` shows that the session store
is used as it allows, so that `LogsFenced` of `StoreProofs` (`WritersInTurn`) holds of
steered turns. The assumption is `SignalsAssumption`: one session, whose records are
the messages and the reply, and positive bounds. TLC checked `SignalsIInv` on the
instance of `signals` before it was proved.

**Only model-checked:** the liveness properties, since liveness under fairness is
outside the prover's reach, and the three properties of section 5, which do not hold.

## 5. Where the code disagrees with its tests

1. **`turn_reacquire`.** `reapExpired` makes runs pending one by one and calls
   `onRetired`, which frees the sessions, after its loop. The property is about
   retries, and the only fault of the run is a crash. In the trace a worker takes the
   session lease and dies, the sweep requeues its run, and another worker claims it
   before `onRetired`: it meets the dead worker's lease and is refused as busy (which
   `complete()` then stores as the final result). `test/worker-reaper.test.ts:180`
   expects that "the retry can re-acquire".
2. **`turn_strip`.** `forceReleaseLease` deletes whatever lease the session has.
   When the dead worker had none yet, the retry may acquire one before the sweep
   gets there and lose it. `test/worker-reaper.test.ts:252` says of the drain path
   that "a late duplicate cannot yank a lock the fresh instance re-acquired".
3. **`cron_reschedule`.** `unclaimSlot` recognises its claim by `lastFiredAt` alone,
   which an edit of the schedule leaves as it is. A firing in progress when its
   cron is rescheduled that then fails writes its old slot over the new schedule;
   the slot is queued and fired again. A one-shot moved to later fires at once, is
   switched off for having fired, and the firing it was moved to never comes.
   `test/cron-queue.test.ts:109` says that "a rescheduled cron's stale slot jobs do
   not fire".

More behaviours came up that no run is about. Where a property excepts one, its
comment says so.

*Turns.*
- The failure entry of a turn is written when the attempt is the last one budgeted,
  but before `fail()` charges the error. A crash in between leads to a requeue
  without a charge, and possibly to an answer after the recorded failure.
- A first attempt that stalled before `acquireLease` may wake up after its retry: it
  is no retry, so it records the request a second time.
- A request without text is never found by `findTrailingPartialTurn`, so every retry of
  it records it again (`test/turn-resume.test.ts:40` asserts the first half).
- `releaseInFlight` unlocks the session before it hands back the run. A turn that
  had not taken its lease yet may take it in between, and the fresh instance finds
  the session busy.

*Signals.*
- A message that steered a turn is a user entry. If the turn then fails, its retry
  does not find its own request last and records it again, after the message
  (`RepeatsOnlyWhatIsPast` says that, with a reply in between, a request without text
  and a first attempt taken for dead, this is all that can bring it about).
- `onSteer` swallows an error of its record and steers all the same: the model hears a
  message that is not in the transcript, and a retry does not.
- A message without text, files alone for instance, is dropped while a run is live
  (`test/wake-route.test.ts:43`), and its caller is told that it steered the run.
- `signalRun` may answer `accepted` just before the prompt returns. Such a steer
  carries no request, so the replay drops it. `test/wake-steering.test.ts:607` asks
  for a refusal only if the run has ended by the second look.
- The message of a replay that throws, the rest of a batch whose handler throws, and
  what a process has taken when it dies are lost: the rows are already marked.
- A turn that was taken for dead goes on polling by the id of its run and takes
  signals meant for the retry. Its transcript writes are refused.
- `activeForThread` is the newest live run, so that with a run queued behind the
  one that streams, "stop" goes to the queued one.
- A steer from the web has no timestamp and is not recorded; a retry does not see it.

*Crons.*
- A process that dies between `claimSlot` and the end of the firing takes the slot
  with it: jobs are not retried and the row has moved on. So does a `claimSlot` that
  rejects after its update, or an `unclaimSlot` that rejects.
- A firing that was delivered, but whose `recordFire` or `setEnabled` rejects, counts as
  failed and its slot is owed again; the record of its key keeps it from being delivered
  twice.
- Two slots claimed in one millisecond have the same `lastFiredAt`; the failure of
  the first gives back the claim of the second.
- `markFired` writes over what a queue process claimed, or a user edited, since the
  interval process read the row.
- A one-shot is switched off by its schedule as read before the turn, even if it was
  made recurring or moved meanwhile.
- Visibility and consent are read before the turn and applied after it.
- An exception ends an interval tick, with the other due crons of its batch.

*Monitors* (not modelled). A monitor's firing has its cursor as key. If the process
dies after the firing is on record and before the cursor is advanced, the next poll
reads on from the old cursor, is skipped by the record, and advances past output
that came since and was in no firing.

*Delivery.*
- The delivery tracker moves a posted entry that no longer fits to the map of those
  given up, and caps that map as well. An entry forgotten there, whose row is still
  pending, is posted again. `MessagePostedOnce` excepts this case, which with the
  code's caps takes thousands of unacknowledged deliveries.
- When a post fails ambiguously and the scan after it fails too, `postWithVerify`
  rethrows, and the next poll posts the message again, without looking first unless
  it is the result of a run. `MessagePostedOnce` excepts this case too.
- A process that dies between the end of a run and the enqueueing of its result
  leaves no recovery copy.
- The edit checkpoint of a run is stored in two statements
  (`api/app-messaging.ts:299`): a listener that reads before the first and inserts
  after the second queues a copy without it. `recordPrincipalDelivery` (`:391`) marks
  the row before it adds the recipient to the session.

## 6. Not modelled

- *Clocks.* Processes read `Date.now()` before they send a statement, and their
  clocks may differ. The model has one clock, read when the statement runs.
- *Request texts.* A retry recognises its request by text. Requests are distinct
  in the model, so two runs with equal texts are not explored.
- *Transcript detail.* Tool entries and tape writes of a turn are omitted, and
  so are compaction, the quarantine path and forks. Steering messages are in
  `RunSignals` and not in `TurnExecution`.
- *Signals.* Ambient messages (screened by a model, or dropped), ambient runs (which
  a person's message does not steer, `liveRunGated`), the routing of a
  mention to the ambient run of its message, and the poll of the one harness that
  drains once more when it stops. The pollers of the other harnesses differ from
  the one modelled in what a failing handler loses.
- *Crons.* The log of firings in the row, edits of destination and consent, several
  crons in one batch, calendar arithmetic.
- *Run store.* `setDeliveryState`, the tool ledger and `waitFor` are omitted; no
  guard of the queue reads what they write.
- *Slack.* Copies that edit a message in place, react, delete or carry only files;
  attachments; the window of five seconds before a row's creation in which a scan
  looks for a refusal posted early. The other posts of the Slack surface have no
  protocol with the outbox.
- *Lost replies.* Except for quarantine refusals the handler starts the
  acknowledgement before it posts, so a crash or a Slack error after it loses the
  reply. The model has this behaviour; nothing in the repository promises
  otherwise, so no run is about it.
- *Drain controller.* `canClaim` only pauses claims, which the model allows
  anyway.
- *Most of the repository.* The parts marked `not_modelled` in `PROJECT.json`, each
  with its reason, are by far the larger part of the code: four harnesses that drive
  language models, the web and admin surfaces, rendering, connectors, skills,
  sandboxes, credentials, deployment, the command line, and their tests' fixtures.
  They compute, render, or call external services, and keep their state in single
  rows written by single statements; a state machine of them would restate the
  code. The share of source lines the specifications stand for is therefore small
  (a few per cent) although every component that coordinates processes through
  the database, except monitors and approvals, has a module. Raising it would
  mean transcribing code in which nothing interleaves.

## 7. Candidates for more

- Monitors as a second caller of `Triggers`, with the cursor of their output.
- Edits in place and the edit checkpoint of a run.
- Session participants and permission evaluation as operators against reference
  definitions.
