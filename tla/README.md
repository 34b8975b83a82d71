# A verification project for papa

papa is a crawler: a rule is split into stages, every stage has a pool of
workers, and the tasks of a stage are rows of the table `crawler_tasks`. What
makes the program hard is that a row outlives everything else. Memory holds only
copies of its id (queues, spill table, delay heap), several goroutines make such
copies on their own, and every one of them decides on what it read a statement
ago. This directory models the part of papa where those decisions interact,
checks it with TLC on small instances, and proves the most important properties
with TLAPS for all instances.

Contents: [1 Inventory](#1-inventory), [2 Plan](#2-plan),
[3 The task engine](#3-the-task-engine-taskenginetla) and
[the worker pool](#the-worker-pool-workerpooltla-jobpooltla),
[task flows](#task-flows-taskflowtla), [the browser pool](#the-browser-pool-browserpooltla),
[accounts](#accounts-accounttla), [4 Runs](#4-runs),
[5 Fairness](#5-fairness), [6 Proofs](#6-proofs),
[7 What the models disagree with](#7-disagreements-between-code-and-comments),
[8 What is left out](#8-what-is-left-out-and-why).

## 1 Inventory

Paths are relative to the repository. "Module" says where a component is
modelled; `PROJECT.json` repeats the list for tools.

| Component | State it keeps | Operations | What is hard | What makes it correct | Module |
|---|---|---|---|---|---|
| Task life cycle (`engine/submit.go`, `stage.go`, `persistence.go`) | status, repeat, reprocess, urgent, updated_at of a row; `Engine.unsettled` | SubmitTask, submitIfActive, submitToPool, claim, round read, terminal write, release | statements that commit with their answer lost; cancellation between any two statements; several copies of one row | one execution at a time; the row is untouched under its worker; terminal only by that worker; nothing stays in processing unnoticed | `TaskEngine` |
| Governance queues (`errorqueue.go`, `repeatpoll.go`, `recoverqueue.go`, `batch.go`) | a batch of rows read by a SELECT | conditional reset, resubmission, markRequeueFailed | the batch is stale by the time a row is reset | resets hit only rows in the state that was read; a round is counted once | `TaskEngine` |
| Administration (`taskadmin.go`, `taskadmin_rule.go`) | none of its own | RetryTask, UrgentTask, MarkTaskFailed, DeleteTask, SetTaskRepeatInterval | runs beside the queues and the workers | never disturbs a row this process executes | `TaskEngine` |
| Spill table, drain, delay queue (`spill.go`, `delayqueue.go`) | `spilled`, the swapped-out table, the heap | spillTask(s), drainSpilled, enqueueDelayed, deliverDelayed | the drain works on a swapped table while others spill | no copy is lost; every parked copy is executed in the end | `TaskEngine` |
| Stop and restart (`engine.go`, `pools.go`) | `closed`, pool registry, tickerWG | Stop, the idle reaper, a new process on the same table | what Stop counts still moves while it counts | "drained" means no row is left in processing; orphans are recovered | `TaskEngine` |
| Worker pool (`internal/workerpool`) | two lanes, watermark, stopped, three counters | Submit, SubmitUrgent, Stop, worker loop, panic recovery | Submit against Stop, pause against Stop, three counters read one after the other | no accepted job is lost; inFlight never under-reports | `WorkerPool`, `JobPool`; as the engine sees it in `TaskEngine` |
| Pause scopes and gate (`pause.go`) | entries by site and stage; a broadcast channel | Pause*, Resume*, pauseGate.Wait | lost wake-ups, inherited pauses, a pause against Stop | a paused stage starts nothing new; a resumed or stopped one wakes | `WorkerPool` (table, inheritance, broadcast, gate); one entry in `TaskEngine` |
| Site breaker (`internal/breaker`) | a ring of counting slots | RecordFailure, Sum | slots of different periods share a bucket | counts exactly the window | the pause it sets is SetPause of `WorkerPool`; the window is not modelled |
| Task flows (`taskflow.go`, `taskflow_policy.go`) | parent, path, branch and status of flow rows; a policy per lane | SubmitFlowTask, claimFlowTask, flowEligible, UpdateTaskFlow | a claim decides on a tree that restarts, retries and policy updates change | breadth or depth order, width, parents first; nothing waits for ever | `TaskFlow` |
| Dedup cache, ticker (`dedup.go`, `dynticker.go`) | fingerprints, next tick | SubmitTask's shortcut | invalidation on delete | a task is skipped only if it is in the table | not modelled |
| Rule fetcher, snapshots, rule schedule (`rulefetcher*.go`, ...) | a compiled snapshot, schedule rows | swap, batches | recovery of a half-made batch | a batch runs once | not modelled |
| Rule store (`pkg/rulestore`) | releases, operations, generation | publish, roll back | a lost commit ack and a retry with the same operation id | an operation takes effect once | not modelled |
| Browser pool (`pkg/browser`) | a channel of idle browsers, the counter of those alive, sleepers | Get, Put, the reaper, SetMaxIdleTime, Close | a transient reservation, contexts that end, a counter outside the lock, Close beside all of it | the limit holds, no slot is lost, nobody sleeps beside a free slot, Close leaves no process | `BrowserPool` |
| Account manager (`pkg/account`) | credentials and their generation, a browser snapshot, lifecycle epoch, the round of authentication, a store | Do, WithBrowser, Invalidate, Pause, Resume, Logout | answers that were overtaken by a pause, a logout, a rotation or another login | a logout is final; what was overtaken is neither published nor acted on | `Account` |
| Downloads (`pkg/middleware/*`) | segment tables | retry loops | mostly I/O | - | not modelled |
| Observation (`obs/*`, statistics) | counters | - | nothing decides on it | - | not modelled |
| Admin server (`admin/*`) | sessions, config rows | HTTP, CRUD | calls the operations above | - | not modelled |
| Agent, extraction, egress, fetching (`pkg/*`) | none the engine relies on | parsing, network | I/O | - | not modelled |
| Start-up and shutdown (`internal/app`) | wiring | App.Run calls Engine.Stop | the exit code depends on "drained" | DrainedMeansSettled | its use of Stop only |

How they interact: a rule's handler calls `SubmitTask`, which inserts a row and
hands a copy of it to the stage pool. A worker takes the copy, claims the row by a
conditional UPDATE (pending to processing), reads its round (repeat, reprocess),
runs `FetchHandler` and writes success or failed under a fence on that round.
Failed rows come back through the error queue (reprocess + 1), finished polled
rows through the repeat queue (repeat + 1), rows of a previous process through
startup recovery, and any row through the operator. A copy the pool does not
take waits in the spill table, which the drain offers again on every tick.

A task of a flow is a row with a lineage: it is registered below the task whose
handler is running, and claimed only when the policy of its lane lets it. Handlers
borrow browsers from the browser pool and send requests through the account
manager; a call into either may be slow, fail, or have its context ended, and that is
all the engine knows of them, which is why each has a module of its own.

The hazards this causes are listed in `PROJECT.json` with the line where each one
bites and the properties that would notice.

## 2 Plan

Done, in this order, the most important behaviour first:

1. `TaskEngine`: life cycle, queues, administration, spill, stop, restart;
   `TaskLife`, the life cycle it promises a row. Theorems about it: `TaskEngineProofs`,
   `TaskEngineOwnership`, `TaskEngineShutdown`, `TaskEngineRounds`.
2. `WorkerPool`: lanes, watermark, the stopped handshake, drainAndExit, the three
   counters, the pause table and its gate; `JobPool`, the promise it implements;
   `WorkerPoolProofs`.
3. `BrowserPool` with `BrowserPoolProofs`: capacity, lease, the transient reservation
   of `Get`, the reaper, Close.
4. `TaskFlow` with `TaskFlowProofs`: eligibility by breadth and by depth, registrations that are not acknowledged, retries, restarts, updates.
5. `Account` with `AccountProofs`: rounds of authentication, generations, epochs, the
   browser, the store.

Left, in this order: the breaker's window against a reference count, the operation ids
of rule releases (lost acknowledgements, compare-and-swap of the generation, rollback),
and the batches of a rule schedule.

Every module takes its sets and limits as CONSTANTS with a named assumption,
has one action per operation, and declares no RECURSIVE operator. Runs use one
to three rows, jobs or callers and one contended object: each hazard above
needs two or three actors and one object they contend for.

## 3 The task engine (`TaskEngine.tla`)

**State.** `status`, `repeat`, `reprocess`, `urgent` are the columns of a row;
`fresh` stands for `updated_at >= startedAt`, all that recovery and
MarkTaskFailed ask of the time stamp. `queue` and `fast` are the lanes of the
stage pool, `delayed` the heap, `spill` the table `Engine.spilled`, `draining`
the table drainSpilled has swapped out. `worker[w]` is a goroutine of the pool:
behind the gate, `ready` to take a copy, at its `claim`, at the `read` of the
round, in `run` (FetchHandler), at `persist`. `carrier[k]` is a goroutine that
turns a row into a copy, with the copy it holds and its next statement.
`unsettled`, `paused`, `phase` and `drained` are the engine's own. Three history
variables say what the process no longer knows: `forsaken` the rows it gave up with no
more than a log or an error, `forgot` how often the memory of having counted a row's
round was lost, `astray` the rows whose execution went with a reaped pool. Properties
read them, and so does the bound `MaxLost` on lost counting answers of one row; nothing
else does.

**Atomicity.** One database statement is one step, and so is one operation under
a mutex. Between two of them everything else may happen.

**Failing statements.** A statement either fails without effect or commits with its
answer lost; each has an action of its own, in the instances whose `Faults` name it.

| Statement | fails | commits, answer lost |
|---|---|---|
| INSERT of SubmitTask | the call fails, nothing happened | SubmitNewLost: the row is found, taken for somebody else's and not submitted |
| counting UPDATE of submitToPool | SubmitToPoolError | SubmitToPoolLost: the copy is spilled as if not counted, and the drain counts the round again |
| reset of the error, repeat and recovery queue, of Retry and Urgent | ResetError | ResetLost: the row is pending, the copy is never made |
| SELECT of a batch | RecoverSelectError ends the startup pass; elsewhere a later round | - |
| reread of the drain | DrainRereadError | - |
| markRequeueFailed | ResetError: the row stays pending | like a success |
| claim | ClaimError, retried | ClaimLost, retried |
| read of the claimed round | retried; ReadCancelled after cancellation | - |
| terminal write | retried; PersistCancelled after cancellation | PersistLost, retried |
| releaseClaim | GiveBack, ReadCancelled with "release": remembered as unsettled | not told apart: the row is pending, and Stop reports one row too many |

Three of these lose something that no later step of the process makes good: an orphan
whose reset failed, a row whose reset or insert lost its answer, and all rows of a startup
pass whose SELECT failed wait for the next start. They are in `forsaken`. A lost counting
answer costs the row a polling round.

**The idle reaper.** `reapIdle` looks at Stats and then calls Stop, discards its result and
deletes the pool. `Reap` is that deletion: the lanes are empty, but any worker may be
executing a row, because its copy was sent and is not counted yet, or came between the
two calls. Such a worker is `away`: it goes on, Engine.Stop does not ask its pool, and its
row is in `astray`. `PoolStopped` lets any Submit meet a stopped pool at any time, for a
carrier that got hold of the pool before it was reaped. Both are more than the code can do
(the pool must also have been idle for a while): a worker is away whatever the order of
the two calls was. It keeps its slot in the model, although a new pool would have
workers of its own; more workers are another value of `Workers`.

**Actions by code.**

| Actions | Code |
|---|---|
| SubmitNew, SubmitNewLost, SubmitAgain, SubmitIfActive | `submit.go` SubmitTask, submitIfActive |
| SubmitToPool, SubmitToPoolError, SubmitToPoolLost, Enqueue, EnqueueFull, EnqueueRejected | `submit.go` submitToPool, afterTaskPending, submitToStage; `workerpool.go` Submit |
| ErrorSelect, ErrorReset, MarkRequeueFailed | `errorqueue.go`, `batch.go` |
| RepeatSelect, RepeatReset | `repeatpoll.go` |
| RecoverVisit, RecoverReset, RecoverSelectError | `recoverqueue.go`, `batch.go` |
| ResetError, ResetLost | the error paths after the UPDATE of each reset |
| RetryLoad/Reset, UrgentLoad/Reset, MarkTaskFailed, DeleteTask, SetTaskRepeatInterval | `taskadmin.go` |
| DrainSwap, DrainPaused, DrainOpen, DrainNext, DrainRereadError, DeliverDelayed | `spill.go`, `delayqueue.go` |
| Gate, TakeFast, TakeMain, TakeDrop | `workerpool.go` worker loop, drainAndExit |
| Claim, ClaimError, ClaimLost, ClaimCancelled, ReadRound, ReadCancelled | `persistence.go` claimTask, claimForExecution |
| RunEnds, RunCancelled, GiveBack | `stage.go` execute, releaseClaim |
| Persist, PersistLost, PersistCancelled | `persistence.go` persistTerminal |
| Reap | `pools.go` reapIdle |
| Stop, Count, Return, Restart | `engine.go` Stop; a new process on the same table |

**Simplifications that the properties do not notice.** A governance queue visits
one row at a time; since selecting is allowed until Stop has returned, this
includes the rest of a batch after cancellation. The UPDATE of a terminal write
and the SELECT that confirms it are one step, as are isPaused and Submit in
submitToStage: a pause that comes between them equals one that comes after. The
attempts of one execution are one step `RunEnds`. Only one goroutine submits new
tasks. A claim is allowed while the engine stops, for a statement that was sent
before cancellation. Whether a row is polled does not change. The initial state is
an empty table; other tables are reached by work and `Restart`.

**Properties.**

* `KeepsLifeCycle`: the engine implements `TaskLife`. That module forgets the copies,
  the queues and the round fence and keeps status, number of rounds and holders of a
  row: only the holder changes a held row, a row has one holder, a deleted row stays
  deleted. `Owners(r)`, the holders, are the workers between a successful claim and the
  terminal write whose fence still matches; a worker that keeps an overtaken outcome
  holds nothing, and what it writes must be a stutter.
* `ExclusiveExecution`: no two workers execute one row.
* `RunningRowUntouched`: under a running FetchHandler the row stays processing, in
  the round and generation its worker has read.
* `TerminalByHolder` (action property): a row this process executes is ended only
  by the worker that executed it, with its outcome.
* `ProcessingAccounted`: a row this process left in processing is held by a
  worker, under a claim whose answer is missing, or in `unsettled`.
* `DrainedMeansSettled`: when Stop reports "drained", no such row is left, but for one
  that a reaped pool was executing (`astray`): Engine.Stop has no way to know of it.
* `NoStrandedTask`: of a pending row of a live engine a copy is under way, and an orphan in
  processing is in the hands of startup recovery, unless the pass has yet to reach
  the row or a statement that failed made the process give it up (`forsaken`).
* `UrgentClearedByClaim`: a claimed row is not urgent any more.
* `RepeatLimitHolds`: retrying a delivery never uses up another polling round,
  except one per restart (a round may be counted and not executed before it) and one
  per counting UPDATE whose answer was lost.
* `SettlesOnceResumed` (liveness): an accepted task is executed to an end, deleted or
  given up by a failed statement, if the stage is not paused for ever.

### The worker pool (`WorkerPool.tla`, `JobPool.tla`)

`TaskEngine` treats a pool's lanes, gate and stop as single steps. `WorkerPool`
looks inside: it is the code of `internal/workerpool/workerpool.go`, one channel
operation, one atomic counter or one length read per step, with the part of
`engine/pause.go` that a worker meets at its gate.

**State.** `main` and `fast` are taskQueue and urgentQueue. One goroutine calls
Submit or SubmitUrgent for each job; `call[j]` is its program counter, and while
it is in `Reading` it holds the read lock. `worker[w]` is a worker: at the gate, waiting
at it (`await`), looking at the fast lane alone (`peek`), in the select (`take`), running
a handler, draining, gone; `last` says whether the job it runs was taken by drainAndExit.
`stopped` stands for the flag and the closed stopCh, which change together under
the write lock. `stop` is Stop's program counter with the two counters it has read,
`inFlight` its result. `paused` is Engine.paused, the scopes (site and stage, or a whole
site) that are paused; `woken` are the workers whose channel has been closed since they
began to wait for it: every change of the table closes the channel and makes a new one,
so that a worker belongs to `woken` exactly if it began before the last change. `done` is a history variable: the jobs whose end is counted.

**Actions by code.** Enter (RLock), FastTest, FastSend, Test, Send, CountSubmitted
(submitted.Add and RUnlock) are SubmitUrgent and submitLocked; Gate (the look at table and
channel under one lock), Awake and AwaitEnds are pauseGate.Wait; Peek, Take are run; Drain is drainAndExit; Completed and Failed are processTask (a panic is an
error after runHandler); StopCall, StopClose, StopSubmitted, StopCompleted,
StopReport are Stop. SetPause is setPause (operator or breaker), which leaves alone what
is paused already; Resume is clearScope for one entry, clearSite for a site,
clearAllPauses for all. A writer
that waits for the lock keeps new readers out, as sync.RWMutex does. A wait for the
workers may end by the timeout at any time. The watermark is the length at which
the code's floating point comparison refuses. Left out: the activity and error
channels, which drop what they cannot take, and Stats.

`JobPool` is the pool as the engine relies on it: a job is accepted once, started
once, finished once; after Close nothing is accepted; the report is at least the
number of jobs in flight at that moment. The refinement maps `waiting` to the jobs in
the lanes, `active` to the jobs at running workers, `finished` to `done`.

**Properties.**

* `KeepsPromise`: the pool implements `JobPool`.
* `DrainedForGood`: a report of 0 stays true, so database and browsers may be closed.
* `NothingLeftBehind`: a worker leaves empty lanes, and they stay empty.
* `BooksBalance`: the counters account for every accepted job, at every step, the
  submit that has sent and not counted included.
* `StopDrains` (liveness): Stop is not held up by a pause, nor by a table that changes
  again and again; all workers leave.
* `AcceptedIsRun` (liveness): an accepted job is run once the stage stays resumed or the
  pool stops: no change of the table is missed between the look at it and the wait.
* `RestMeansDone` is the same as a state: workers that all sleep, wait or have left, beside
  a stage that is not paused, leave no accepted job undone.

### Task flows (`TaskFlow.tla`)

One run of a flow: what may be claimed when. A row's copies and their ways through
queues are those of `TaskEngine`, so copies of one task are one copy here, `held`.

**State.** `rows` is the table of the run, a row's id its position: parent, stage, branch
(FlowBranch), path (FlowPath as the sequence of its ids) and status, where success and
failed are both "ended". `policy` and `revision` are the columns of the run's row.
`unsettled` is the part of Engine.unsettled that concerns the run: tasks in processing that
nobody executes, as the answer of their claim was lost. `lost` are pending tasks nobody
has enqueued, as the answer of their registration or reset was lost; `begun` the tasks
that were started since they last became pending, which is not the same as "not pending":
a task may be marked failed without ever having run. They and `retried`, `switched`,
`widest` are history for the properties.

**Atomicity.** Registration, claim and update lock the row of the run and are one
transaction, hence one step each; a terminal write and a retry do not lock it and are
steps of their own in between.

**Actions by code.** Submit and SubmitUnacknowledged are SubmitFlowTask for a new URL,
Resubmit for one that the parent has registered already (and RetryTask of a pending one);
Claim is claimFlowTask with `Eligible` = flowEligible, `BreadthReady` and `DepthReady` its
two branches; a copy that has to wait is spilled and stays held. ClaimLost is a claim
that commits without an answer and is repeated by claimForExecution, which then finds the
row in processing and remembers it as unsettled. Finish is the terminal write of
finishTask, Retry and RetryLost RetryTask and the error queue, with and without an answer,
MarkTaskFailed the function of that name for a task that waits, UpdateTaskFlow an update
that is accepted, which replaces the policy of all lanes at once, Crash a restart with
startup recovery, which sets what was processing to pending and delivers every active
row. A stale revision is refused and changes nothing, so it is no action.

**Properties.**

* `ParentEndsFirst`: a task starts after its parent has ended, in whatever lanes they are.
* `BreadthOrder`, `DepthOrder`: the order a lane promises, through restarts, lost answers,
  tasks marked failed by hand and updates of other lanes.
* `LaneWidth`: a lane runs no more tasks, or branches, than the largest width it has had.
* `NeverStuckAlike`: while all lanes have one mode, or nothing became pending again, some
  pending task may start whenever none runs.
* `DeliveredIsDone` (liveness): every delivered task ends, once the lanes stay alike and no
  lost answer is left. Both conditions are needed: `NeverStuck` is what lanes that differ
  may do, and an unsettled claim holds up its children until the next start.
* `NeverStuck`: the same without the condition; violated (section 7).

### The browser pool (`BrowserPool.tla`)

**State.** `pc[c]` is where a caller is in Get or Put, `cancel[c]` its context and whether
the AfterFunc of it has run. `idle` is the length of the channel, `alive` the counter,
`open` the browser processes (what the counter is meant to count). `closed` and `chClosed`
are the flag and the closed channel; `reaper` is the goroutine of reaperLoop with what it
has taken from the channel and has still to look at (`pile`) or keeps (`fresh`).

**Atomicity.** The mutex guards sends, the close of the channel and the sleep; receives and
the counter are outside. A step is one critical section, one receive, one launch or
close of a browser, or one change of the counter.

**Actions by code.** Get, Receive, Check (usable), Reserve, Create, Undo and Recheck are get
from top to bottom; Cancel and AfterFunc a context that ends; Put, Enqueue, Shut, Drop,
Tell are put and decAlive; SetMaxIdleTime includes ensureReaper; ReaperLoop, ReapDrain,
ReapCheck, ReapShut, ReapReturn are the reaper; Close, CloseReaper, CloseChannel,
CloseDrain are Close. A browser may be found dead or too old whenever it is looked at.

**Properties.**

* `Capacity`: never more browser processes than the limit.
* `SlotsBalance`: the counter is what is idle, lent, launched, given up or with the reaper.
* `IdleIsOffered`: no browser lies idle beside a sleeper with nobody on the way to wake it.
* `SleepersWake` (liveness): a sleeper is woken, if no context ends.
* `CloseReleases` (liveness): after Close every call returns and no process is left.
* `CloseLeavesNothing`: when Close has returned nobody sleeps, the reaper has been told, and
  what still runs has an owner who closes it.
* `NoLostWakeup`: nobody sleeps beside a free slot; violated (section 7).

### Accounts (`Account.tla`)

**State.** The variables of one `entry`: `current` (HTTP credentials, told apart by the
login they come from, their rotation, and when that login was begun), `version` their
generation, `revision` the lifecycle epoch, `pageState` and `browserRevision` the browser
snapshot; `paused`, `cooling` (a failure with its cooldown), `recent` (a check within
CheckInterval), `flight` (who leads the round of authentication), `browserSlot`, and
`stored`, what is in the store. `pc[p]` is where a call is, `op[p]` what it has read.
`halts` and the other history variables number pauses and logouts.

**Atomicity.** A critical section of the entry's lock is one step. A check, a login, a
request or a callback is a call to the site: it lasts from one step to the next, so
that anything may happen in between, and its result is applied in a step that looks
again at what the code looks at again. That a time has passed is known when it is looked
at. enter and load are one step, as are the outcome of a call and the finaliser that
wakes the waiters: the locks between them are given up for no decision of their own.

**Actions by code.** Call, Enter (enter, load), EnterBrowser; Ensure, Check, Bridge, Login
are the stages of ensure, `Moved` its test that the operation was not overtaken, Publish
and Fail its outcomes, Land its finaliser; Respond is the rest of Do with Invalidate
(Expired), forbidden and challenge (Refused) and observe (Observe); BrowserRead and Finish
are WithBrowser; GiveUp is a context that ends while a call waits; Pause, Resume, Logout;
Restart is a new process on the same store. A save replaces the file or fails.

**Properties.**

* `NoResurrection`: nothing begun before a logout comes back, in memory or in the store.
* `NothingStale` (action property): no login or snapshot that a pause or logout overtook is
  published, even if the account was resumed meanwhile.
* `VersionNames`: a request of the current generation was made with the credentials in
  use, so its answer may invalidate, rotate or pause them.
* `SnapshotFresh`: with logins in the browser no user of it is overtaken by another.
* `WaitersAreServed`: a waiter has a round, a round a leader at work, the browser a user
  at work.

## 4 Runs

In the runs of `MCTaskEngine`, `Ops` and `Faults` choose what the
instance contains; every operator, queue and fault is in some passing run, and
the bounds are the constants `MaxRounds` (submissions and unlimited polling of a
row), `MaxReprocess` (retries), `MaxRestarts`, `MaxLost` (lost counting answers of a
row). They bound counters, never the number of copies or the interleaving.

| Run | Instance | Question | States |
|---|---|---|---|
| `TaskEngineQueues` | 1 polled row, 2 workers; error and repeat queue, SubmitTask again, retry, mark, delete, interval, resets whose answer is lost | Who executes, touches and ends a row while many carriers hold copies of it? KeepsLifeCycle, ExclusiveExecution, RunningRowUntouched, NoStrandedTask, TerminalByHolder hold | 988 000 |
| `TaskEngineRestart` | 1 row, 2 workers; error queue, urgent, reaper, stop, one restart, faults of claims, resets, terminal and counting writes, rereads | Is everything accounted for through faults, cancellation and restart? TypeOK, ProcessingAccounted, DrainedMeansSettled, UrgentClearedByClaim, ExclusiveExecution hold | 1 627 000 |
| `TaskEngineLiveness` | 2 rows (one polled), 1 worker, lanes of 1; pause, delay, repeat queue, failing writes, resets, rereads and selects, lost answers of inserts, resets and counting writes, one restart | Is every task executed in the end or given up in the open, and no round counted twice for another reason? RepeatLimitHolds, NoStrandedTask, SettlesOnceResumed hold | 49 100 |
| `TaskEngineRecoverRace` | 1 row, 2 workers, mark, retry, one restart | violated: RunningRowUntouched (section 7) | |
| `TaskEngineStaleRound` | 1 row, 2 workers, repeat queue, urgent, lost answers | violated: TerminalByHolder (section 7) | |
| `TaskEngineOrphan` | 1 row, interval, one restart | violated: NoStrandedTask (section 7) | |
| `WorkerPool` | `MCWorkerPool`: 3 jobs, 2 of them urgent, 2 workers, lanes of one place, pauses of the stage and of its site | Do Submit, workers, pauses and Stop keep the pool's promise however they interleave? TypeOK, NothingLeftBehind, BooksBalance, DrainedForGood, KeepsPromise, StopDrains, AcceptedIsRun, RestMeansDone hold | 557 000 |
| `BrowserPool` | `MCBrowserPool`: 3 borrowers, one with a context that may end, 1 slot, the reaper, Close | Does the limit hold, is no slot lost, does everybody wake? Capacity, SlotsBalance, IdleIsOffered, SleepersWake, CloseReleases, CloseLeavesNothing hold | 368 500 |
| `BrowserPoolWakeup` | the same, another borrower may give up | violated: NoLostWakeup (section 7) | |
| `TaskFlow` | `MCTaskFlow`: 2 stages in 2 lanes, 3 tasks, any modes, widths 1 and 2, one update of the whole policy, one retry, one task marked failed, one restart, one lost answer at a time | Do tasks start in the order their lane promises, and do all end? ParentEndsFirst, BreadthOrder, DepthOrder, LaneWidth, NeverStuckAlike, DeliveredIsDone hold | 230 700 |
| `TaskFlowStuck` | 6 stages in 2 lanes, 6 tasks, one update, one restart | violated: NeverStuck (section 7) | |
| `Account` | `MCAccount`: 2 requests, 1 browser operation, 2 at a time, one pause or logout, one restart | Is what was overtaken ever published, saved or acted on, and who waits for whom? NoResurrection, VersionNames, SnapshotFresh, WaitersAreServed, NothingStale hold | 1 544 000 |

Why these sizes are enough: every safety property is about one row, and rows
meet only in the lanes and in the spill table, whose order no property depends
on. Two workers are the contention a claim has to resolve. The liveness run has a
second row and lanes of one place so that rows do push each other into the spill
table. One restart is the difference between rows of this process and orphans.
Workers are symmetric in the safety runs; the liveness run uses no symmetry.
`TaskEngineRestart` lets the error queue take a row once (`MaxRetry = 1`). That is a real
limit: with a second requeue, a stopped pool and an urgent copy it finds two executions of
one row, see section 7; the theorems name the condition.

In `WorkerPool` three jobs on lanes of one place take every way through Submit: the
fast lane fills between the test and the send, an urgent job falls back to the main
lane, the main lane refuses at its watermark and, to two calls that passed the
watermark together, when it is full; a refused job may be submitted again. Two scopes are
what inheritance needs: the stage and its site.

One slot and three borrowers are the smallest browser pool in which one sleeps, one
holds and one passes through with a transient reservation; with a second slot the third
borrower would not wait. The contexts of all but one stay alive because `SleepersWake`
speaks of them, and `BrowserPoolWakeup` shows what one that ends can do.

Three tasks are a parent with two children, or a chain of three, in one lane or two,
so every clause of flowEligible decides something; only a list page is registered without
a parent. One answer may be lost at a time (`MaxLost`), of a registration, a claim or a
reset of any task. A cycle between lanes needs six tasks, so this instance cannot meet
one, and `DeliveredIsDone` does not rest on that: it claims nothing for lanes that differ
after a retry or restart. The instance of `TaskFlowStuck` gives each of six tasks its own
stage so that few trees are possible.

Two requests are a round's leader and one who joins it; with one browser operation
both kinds of users of the account's browser meet. A call of each is enough because a
call that was overtaken is the hazard, and a restart gives a second process on the same
store. The two requests are interchangeable (symmetry).

Deadlock is not checked: after Stop has returned, a pool is closed, a run is complete or
the bounds are used up, the system rightly stops. That nobody is stuck before is said by
the liveness properties, by `NeverStuckAlike` and by `WaitersAreServed`.

Every checked property has a mutant in `PROJECT.json`: a plausible bug in one
action for which TLC finds the property violated (an unguarded claim or reset, a
drain that drops a paused bucket, a cancelled write that is not remembered, a
report that leaves out `unsettled`, ...).

## 5 Fairness

`FairSpec` states what the Go scheduler and the code's loops justify:

* every worker goes on (weak), the gate opening whenever the stage is not paused;
* every carrier finishes what it holds: its enqueue and its reset (weak);
* the database UPDATE of submitToPool and the reread of the drain happen (strong):
  a failed write puts the copy into the spill table and is tried again on a later
  tick, and a database that is asked for ever does not fail for ever;
* the drain and the delay dispatcher tick for ever; recovery runs once.

`WorkerPool`'s FairSpec is weak fairness of every worker (a runnable goroutine runs
and a handler returns), of a call that has been entered, and of Stop once it was
called, and strong fairness of AwaitEnds: Go's select chooses at random among the cases
that are ready, so a worker whose channel is closed again and again does not overlook
stopCh for ever. `AcceptedIsRun` assumes that the stage stays resumed or the pool
stops, from some time on.

`BrowserPool`'s FairSpec is weak fairness of every caller that is inside Get or Put or
holds a browser (a borrower brings it back), of the AfterFunc of a context that has ended,
of the reaper's steps and of a Close that has begun. Nobody has to call Get or Close.
`SleepersWake` assumes that no context ends: with one that does, see section 7.

`TaskFlow`'s FairSpec is weak fairness of claim and terminal write of each task: workers
take what is queued, a handler returns, the drain offers a spilled copy again on every
tick. `DeliveredIsDone` has two premises, which hold from some time on. The lanes are alike:
one mode, or no task became pending again; else they may wait for each other for ever
(section 7). And no lost answer is left: a handler repeats a registration, an operator a
retry, and an unsettled claim is made good by a restart; none of it can be forced by the
code, and while one is left, its children and the tasks after it rightly wait.

`Account` states no fairness. That waiting ends is the safety property
`WaitersAreServed`: each waiter has somebody to wait for, who is at work on a call with a
time limit.

Nothing obliges anybody to pause or resume, to submit, to retry, or to trigger a
queue. `SettlesOnceResumed` assumes `<>[]~paused`: a stage paused for ever
rightly settles nothing. The idle reaper is not in the liveness run: a reaper
that stops the pool between every getOrCreate and Submit would need an
assumption about its period that the code does not state. Failing resets are in it, and
fairness of a reset does not say that it succeeds: `forsaken` is how the property ends
when it does not.

## 6 Proofs

TLAPS checks every leaf with Z3, Zenon and LS4.

* `TaskEngineProofs`: `TypeCorrect`, `Spec => []TypeOK`. The inductive invariant
  `TypeInv` adds what the steps rely on: a busy worker or carrier holds a row, an
  outcome is there when it is persisted, the drain never works on an empty table. It
  ends with the lemmas both of the next modules use, on which step may end a row that is
  in processing.
* `TaskEngineOwnership`: `ExecutionIsExclusive`, `RunningRowIsUntouched`,
  `TerminalIsByHolder`, for any number of rows, workers, copies and restarts. The
  properties are not inductive: what excludes a second claimer is that an owned
  row is in processing *and fresh*, so that neither recovery nor MarkTaskFailed
  matches it (`OwnInv`), that the orphan recovery is about to reset belongs to
  nobody (`RecInv`), and that the error queue is never left with a row it has to
  fail (`ErrInv`). `SafeDeployment` names the three conditions: no terminal write
  commits with its answer lost; no MarkTaskFailed in a process that was restarted;
  no error queue beside a pool that is reaped or stopped. They are not an artefact of
  the proof: section 7 has the counterexample for the first two, and without
  the third MarkRequeueFailed may fail a row that another copy is being run for.
  On the same conditions `EngineKeepsLifeCycle` proves the refinement, step by step: a
  step of a worker on the row it holds is Start, Finish, GiveBack or Abandon, every other
  write finds the row free, and all that moves copies is a stutter. `LifeHasOneHolder`
  is what the promise amounts to, proved of `TaskLife` alone.
* `TaskEngineShutdown`: `UrgentIsClearedByClaim`; `ProcessingIsAccounted`,
  `DrainedIsSettled` and `NothingIsStranded` on the condition `NoOrphanRefreshed` (no
  polling interval is set in a process that was restarted: section 7 has the
  counterexample), for every other operator, fault, reaper and restart. What the faults
  and the reaper take is named by the history in the statements, not excluded by a premise.
  The invariant `StrandInv` says where
  a copy can be: in a lane, in either table of the drain, in the delay heap, at a worker
  that has not claimed yet or at a carrier. It has to add that the row startup recovery
  still owes a copy is one this process has not written (else the pass skips it), and
  that an idle drain has an empty table, since the swap overwrites it. With that, every
  step either moves a copy, drops it after reading that the row is not pending, or gives
  the row up. For Stop's report, a worker whose pool was reaped has its row in `astray`,
  and no other row leaves the sight of both the pools and `unsettled`.
* `TaskEngineRounds`: `OneCopyPerRow`, `RepeatLimitIsKept`, `OneCopyIsExclusive`,
  `OneCopyIsUntouched`, `OneCopyKeepsLifeCycle`, `OneCopyIsEndedByHolder`. These need none of the conditions above, but another one,
  `NoResubmission`: nobody submits a row again (SubmitTask of a known row, RetryTask,
  UrgentTask) or ends it from outside (MarkTaskFailed). So they cover what `SafeDeployment`
  excludes, lost answers of terminal writes and an error queue beside a reaper and Stop,
  for the work a crawl does by itself. `RoundInv` lists every place a copy can be in
  (lane, table, delay heap, startup list, worker, carrier): a row is in one place at a
  time and in none once it has ended; a copy whose round is not counted yet leaves room
  below the limit, counted as often as `forgot` says the memory of it was lost; an
  outcome that is written again after a lost answer belongs to an
  earlier round, or to a row that was reset and whose only copy is not counted yet, so no
  worker can have claimed it. With a second copy all of this fails: two copies that are
  not counted may count two rounds, and section 7 has what a stale outcome does.
  The last two are the refinement of `TaskLife` and the single ender again, on this
  condition: an outcome that is written again and a row that the error queue fails
  both have a row with no other copy, which is therefore never the row of a claim
  (`ErrWaits`, `Rewrites`).
* `WorkerPoolProofs`: `PoolKeepsPromise`, `PoolDrainedForGood`, `PoolLeavesNothing`,
  `PoolBooksBalance`, `PoolRestsWhenDone`, without any condition, from `PoolAssumption` (the sets of jobs and
  workers are finite). The invariant `PoolInv` has four parts: types; a job is in one
  place only (`PlaceInv`); no call that could still send is past its test of `stopped`
  once the pool is closed (`CloseInv`); what Stop has read errs on the side of too many
  jobs in flight (`CountInv`). Why the report is safe: after the close `submitted` is
  final, and `completed` and `failed` only grow, so an old value of `completed` makes the
  difference too large and never too small. `PoolRestsWhenDone` adds `GateInv`: a worker
  waits at the gate only while its stage is paused or its channel is closed already.

* `BrowserPoolProofs`: `CapacityHolds`, `SlotsAlwaysBalance`, `NeverSendsOnClosed`,
  `IdleBrowserIsOffered`, `NoWakeupLost`, `ClosedLeavesNothing`, from `LimitAssumption`. The
  counter `alive` is changed outside the lock, before a browser is launched and after one is closed; the invariant `PoolInv` counts both what owns a
  process and what owns a slot, says that they agree with `open` and `alive` while the
  pool is open, and that afterwards `alive` errs upwards only (Put and Close no longer give
  slots back), so that a reservation that finds room finds it for a process too. For
  `IdleBrowserIsOffered`: a Get falls asleep over an empty channel only, and who fills it goes on to
  broadcast (`TellInv`). `NoWakeupLost` proves `NoLostWakeup`, which section 7 refutes,
  for contexts that live (`Impatient = {}`): a transient reservation that made a sleeper
  see a full pool belongs to a Get that looks again itself (`WakeInv`).
  `ClosedLeavesNothing`: a closed pool puts nobody to sleep and nothing back, and a reaper
  that is started beside Close is told by it or not started (`EndInv`).
* `TaskFlowProofs`: `ParentsFirst`, `BreadthHolds`, `DepthHolds`, `WidthHolds` for any
  stages, lanes, links, policies and numbers of tasks. `TreeInv` is the shape that
  registration builds: a path goes on from the parent's and ends with the task itself, a
  branch is as old as its first task. `AlikeLanesGoOn`: the waiting rules of
  lanes of one mode follow one strict order (depth and id, or branch and path), a finite
  set has a first element in it, and the first pending task is eligible. This is the one
  place where the library's well-founded induction is used
  (FS_StrictSubsetOrderingWellFounded, WFMin).
* `AccountProofs`: `LogoutIsFinal`, `NothingStaleIsPublished`, `GenerationsName`,
  `SnapshotsAreFresh`, `WaitingEnds`, for any numbers of callers, operations, pauses,
  logouts and restarts. The invariant has a part for who leads and who has the browser
  (`ControlInv`), for the browser's revisions (`BrowserInv`), for generations
  (`VersionInv`), for epochs (`EpochInv`: an operation in the current epoch was begun
  after the last pause) and for logouts (`LogoutInv`).

Only model-checked: the liveness properties (`SettlesOnceResumed`, `StopDrains`,
`AcceptedIsRun`, `SleepersWake`, `CloseReleases`, `DeliveredIsDone`): liveness under
fairness is out of the prover's reach. Every safety property of a passing run is stated
by a theorem, of the task engine's under the condition its bullet names; of the task
flow's without any.

## 7 Disagreements between code and comments

Five runs end in a counterexample; `PROJECT.json` quotes the lines.

* **Recovery resets a running row** (`TaskEngineRecoverRace`). The reset of
  `recoverqueue.go:86` does not repeat `updated_at < startedAt`. An orphan that the
  batch has read can be marked failed, retried and claimed before the reset
  arrives, which then turns a running row back to pending.
* **A stale terminal write ends a later round** (`TaskEngineStaleRound`). The
  fence is (status, repeat, reprocess), but the repeat queue resets a row before
  submitToPool increments `repeat`. A copy UrgentTask made runs in between, in the
  same round number as the worker that still retries its lost answer.
* **Touching an orphan hides it** (`TaskEngineOrphan`). Setting the polling
  interval refreshes `updated_at` of a row the last process left pending, so that
  recovery skips it and no queue holds a copy.

* **A wake-up is lost** (`BrowserPoolWakeup`). get takes back its transient reservation
  (`pool.go:377`) without a broadcast and relies on its own second look; if its context
  has ended by then it returns instead, after its AfterFunc has broadcast. A Get that
  looked at the counter in between sleeps beside a free slot, until the next broadcast.
* **Two lanes wait for each other** (`TaskFlowStuck`). A task waits for shallower tasks of
  its lane or earlier branches, and for its parent in any lane. After a restart has set
  parents pending again and one lane was switched to another mode, the rules of the two
  lanes form a cycle, and no task of the run may ever start (`taskflow_policy.go:117`).

Seen while modelling, without a run of their own: Stop reads the spill table
before it waits for the goroutines that may still spill; RetryTask and UrgentTask
return an error after their UPDATE when the pool was just reaped, which leaves the
row pending without a copy, and every reset does so when its answer is lost; UrgentTask
also refreshes `updated_at` of a pending orphan, so that recovery skips the row it has
given up; spillTasks does not look for duplicates, so the table
of a paused stage can grow; a row failed by MarkTaskFailed or markRequeueFailed
keeps its urgent mark; ResumeStage does not wake the drain, unlike ResumeSite and
ResumeCrawling and unlike what `spill.go:69` says of it, so parked copies of that stage
wait for the next tick; the browser pool's reaper ends when it is started just as
max_idle_time is set back to 0, and leaves reaperStop behind, so that no reaper is started
again (`pool.go:519`).

Three more concern what may fail. A counting UPDATE that commits with its answer lost is
counted again by the drain, so that a row is polled less often than its limit allows
(`submit.go:177`). "drained" may be reported while a job of a reaped pool is still running,
as `pools.go:92` discards what Stop says and line 93 the pool. And when a pool is reaped or
stopped between an error queue's reset and its Submit, markRequeueFailed
(`batch.go:21`) fails the row although another copy (UrgentTask's) may be executed; the
error queue then takes the row again and a second worker executes it. `TaskEngine` has
that trace with `MaxRetry = 0` and the Ops errq, urgent and reap, in 25 states; the
ownership theorems exclude it by `SafeDeployment`.

## 8 What is left out, and why

Of the task engine: the branch of every handler that concerns flow tasks
(their order is `TaskFlow`'s), tasks with id 0 (they never reach the table), the
dedup cache in front of SubmitTask, SetTaskRepeatable, meta data and site columns,
due times and batch pauses (a queue may visit a row at any time, which includes
every due time), statistics and trace. SubmitTask reads an inserted row back without a look
at the error (`submit.go:90`); that this SELECT fails, so that the task starts from an empty
record, is not modelled. Rows that a failed startup pass leaves are recovered by the next
start, which `Restart` is; nothing in between does it, as in the code.

Of the pause table: reasons and times of an entry, snapshots for the admin pages,
StartPaused. Of task flows: the listing view, validation of names, disabled flows; `Crash` is a restart
and its whole recovery in one step, so MarkTaskFailed of an orphan in processing and a
recovery that fails are `TaskEngine`'s. Of the
browser pool: the direct browsers, a second copy of the same code and state; launching a
browser and using its page are I/O. Of accounts: Status, the checks of Register and of
credentials (a call fails), headers and cookies.

The breaker is a ring of counters under one mutex; it meets the engine only by the pause
it sets. Rule releases, rule schedules and their operation ids live in database
transactions of their own; the engine sees the rule that is current when it is fetched.
The dedup cache decides whether a submission reaches the table at all, and a submission
that never was is in the model anyway. The browser, network and language-model parts are
I/O; the admin server and the observation packages keep no state the engine decides on.
