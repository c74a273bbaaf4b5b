# A formal model of the Resource Broker

The Resource Broker is a Go program that shares one GPU between model inference and everything
that matters more on the same machine (games, Plex transcodes). It proxies requests to
Ollama or vLLM through a small number of slots, runs long work as durable Jobs, and gives the
GPU up ("yields") while contention lasts. This directory holds TLA+ modules translated from the
code under `src/`, the TLC configurations that check them on small instances, and TLAPS proofs of the
properties that carry the rest. `PROJECT.json` maps every definition to the lines it models.

## The system

| Part | State it keeps | Operations | What makes it correct |
|---|---|---|---|
| Scheduler (`internal/queue/scheduler.go`) | slots in use, one wait queue per class, the ping for a waiting Interactive | `Acquire`, `Release` | no slot leaked or forged, no slot idle while somebody waits, Interactive before Batch, FIFO within a class |
| Gate and parking (`gate.go`, `park.go`) | where each HTTP handler is, the park queue, the serve context of each call | the handler of a request, `parkFor`, `RunParkDrain` | the slot is held exactly while it is used, a parked request is neither lost nor answered after its release, a yield ends every call |
| Yield controller (`internal/yield/yield.go`) | mode, debounce, the decision acted on, a chain of unload/reload actions per instance, idle bookkeeping | the poll, `SetMode`, `TrackActivity`, the action goroutines | the decision and the serve context agree, units end where the last order wants them |
| Detector (`internal/detect/detect.go`) | none | `Detect` | Plex first, fail-open on `/proc`, fail-safe on the Plex API |
| Job store (`internal/job/sqlite.go`) | one row per Job | one SQL statement or transaction per write; `Position` reads with two | ended Jobs stay ended, attempts are counted exactly, resume-first order |
| Job worker and service (`worker.go`, `service.go`) | the run in progress, the `running` map | the worker loop, the monitor goroutine, Submit, Cancel, Position, prune, recovery | a RUNNING Job is being run, an Interactive request is not starved, every Job ends |
| Job events (`events.go`, `handleEvents` of `api.go`) | a buffered channel per SSE stream | publish, subscribe, the stream loop | what a client is told is what is stored, a slow client holds up nobody |
| Tdarr coordination (`tdarr.go`, `schedule.go`, `main.go`) | the worker limit in Tdarr; what the schedule loop last did | pause and resume by the Controller and by a schedule | paused while yielding or in the scraper's hours, running otherwise |
| Configuration and wiring (`config.go`, `buildBroker` in `main.go`) | the configuration, three indexes of an instance | `Load`, `buildBroker`, `ConfigureIdle` | what `Load` accepts starts, an instance is tracked under its own index |
| Routing (`backend/router.go`) | the table of routes | `resolve` by model and lane, `Generate` by model | each model goes to its route, or to the default |
| Proxy, clients and translation (`proxy.go`, `openaicompat`, `ollama/client.go`) | none shared | one call: read, send, retry, relay or collect, drain, answer | nothing truncated or mixed passes for complete, one honest status, the call returns when its context ends unless its client holds it up |
| Control plane, metrics, HTTP helpers | none of their own | reads and output | out of scope |

How they interact. A request goes through `Gate`, which asks the Controller (`Yielding`,
`ServeContext`) and takes a slot from the Scheduler; with idle unload configured its call to the
upstream is wrapped by `TrackActivity` of the Controller. The Job worker is one more Batch caller
of the same Scheduler, asks the same Controller, and is preempted by the Scheduler's ping. Behind
the Gate and the worker the Router picks an instance, and its backend makes the call. A
transition of the Controller cancels the serve context, which ends the calls in flight of both.
SSE streams see a Job through the bus only, the API through the store.

What is hard. Everything runs in goroutines: a grant races the cancellation of the waiter it is
made to; the park hold races the drain; the yield decision is read, then acted on, in three
places; unload and reload of an instance are asynchronous and contention flaps; requests change the
idle bookkeeping outside the Controller's lock; Cancel, the worker and the recovery sweep
write the same row; publishing follows the commit by a step; the process may stop at any of these
points; an upstream fails before, in the middle of or after its answer, or not at all; Tdarr has two
writers who do not know of each other. `hazards` in `PROJECT.json` lists each at its line with the properties aimed at it.

## Modules

| Module | Models | State and actions |
|---|---|---|
| `SlotPool` | what the Scheduler promises | owners and waiting callers; a freed slot goes to a waiter, Interactive first |
| `Scheduler` | `scheduler.go` | each way through `Acquire` is a sequence of actions: the fast path, the full queue, the enqueue, and after it either the grant or the end of the context (`AcquireCtxDone`) followed, after the lock is taken again, by the removal of the waiter or the return of a slot granted meanwhile |
| `QueueLemmas` | | lemmas about duplicate-free queues (append, tail, removal, split), smallest sets, and the minimum and maximum of a finite set, for the proofs |
| `Admission` | what the Controller promises the Gate | `yielding` with the generation of the serve context: each yield cancels exactly the current one |
| `Gate` | `gate.go`, `park.go` | extends `Scheduler`; `pc[r]` is the place of a handler; the drain is two actions because the code closes the channels after it unlocks; an entry of the park queue is the request with its park number, as the code has one `parkedReq` per park; a client may stall and block the handler that serves it |
| `YieldController` | `yield.go`, `detect.go`, `activity.go` | one poll is `Detect` (outside the lock), `Refresh` (debounce and apply), then one look per instance at idleness while requests go on, then `RefreshDone`; `chain[i]` are the actions ordered and not finished |
| `JobStore` | `sqlite.go` | rows with `state`, `attempts`, `position_hint`; one operator per write, and the COUNT of `Position` |
| `JobRunner` | `worker.go`, `service.go`, start and stop in `main.go` | composes `JobStore`, `Scheduler` and the yield of `Admission`; `wpc` is the place of the worker; `PositionGet` and `PositionCount` are the two statements of a Position; `Crash` loses everything but the rows, `Recover` is the startup sweep |
| `JobEvents` | `events.go`, `handleEvents` | one Job's row, what each writer has still to publish, and each stream's channel |
| `TdarrCoord` | `schedule.go`, `runTdarrSchedule` in `main.go`, `tdarr.go` | extends `YieldController` with the Controller's calls to its GPU manager, the clock, the windows and the schedule loop; `disturbed` records that the limit may be wrong after a mishap and has not been right since |
| `Routing` | `config.go`, `buildBroker`, `router.go`, `ConfigureIdle` | one action per route group that `Load` reads, then `BuildBroker`; `Filtered` is the loop of `NewWithConfirmMulti` turn by turn; `Resolve` and `GenerateAt` are what `resolve` and `Generate` return |
| `Upstream` | `proxy.go`, `openaicompat`, `ollama/client.go` | one call through its places `body`, `send`, `again`, `backoff`, `read`, `drain`, `returned`; `relayed` records from which attempt each piece of text came, `blocked` that the handler is in a write its client does not take |
| `Dispatch` | the handlers `main.go` wires up | composes `Routing` and `Upstream`: a broker starts and dispatches a request, a Job or an embedding |
| `SchedulerProofs`, `GateProofs`, `YieldProofs` (with Tdarr), `JobProofs`, `JobEventsProofs`, `RoutingProofs`, `UpstreamProofs` | | the theorems |
| `MCScheduler`, `MCGate`, `MCYield`, `MCTdarr`, `MCJobs`, `MCEvents`, `MCDispatch` | | model values, symmetry, rule tables, moments of the week and environments for TLC |

Abstractions. Durations are not modelled: a timer may fire at any moment it is armed. Names,
prompts, results, headers, logging and metrics are left out. The matching of a command line by a
rule is the presence of a signal; the rules' order, Plex's priority and its corroboration are kept.
`fetched_at` is folded into the free choice of which ended rows `Prune` deletes. A context is a
generation number and a set of cancelled generations. To the Gate and the worker an upstream call
returns, fails or hangs; `Upstream` looks inside one. There an answer is a number of pieces and an end
marker, a document decodes or does not, and a vector of embeddings is the input it belongs to. A model
name is what the peek into the body finds. In the configuration a value passes its own check or does not; what is kept is
everything values have to do with one another. A unit that is "up" may hold VRAM: Ollama's `Reload`
is empty, as the next call loads the model.

Definitions marked "Faulty variant" state a plausible bug of the definition that follows them.
They take part in no specification; substituted for that definition they make the property named
with them in `PROJECT.json` fail, which shows that the property can see the bug.

## Runs

Checked with `tlc -config <cfg> <module>`.

| Run | Instance | Distinct states | What it shows |
|---|---|---|---|
| `scheduler` | 2 slots, 2 Interactive, 3 Batch, 2 waiters per class | 26,304 | slot accounting, exact queues, no overtaking, refinement of `SlotPool`, progress of Interactive callers |
| `gate` | 1 slot, 3 Batch, 1 that may disconnect, 2 park places, burst 1, 2 yields | 6.9 M | parking is exact and FIFO, a released request re-enters, slot discipline |
| `gate_live` | 1 Interactive, 1 Batch, both may stall, 2 yields | 118 k | a yield ends calls in flight, every request settles, the bounded lane returns its slot, but for handlers their client blocks |
| `yield` | 2 instances, 1 with idle timeout, 1 request, failing actions, polls that see nothing, 2 changes | 387 k | debounce, units follow the last order, refinement of `Admission`, lasting contention frees the GPU and its end restores it, with the exceptions the code has |
| `tdarr` | 1 instance, Plex with a checker and polls without its answer, 3 changes, 3 moments of the week, 1 failed call, workers running or paused at the start | 276 k | between calls Tdarr's limit is right for both writers, and it follows both the contention and the schedule, unless it is still wrong after a mishap |
| `jobs` | 2 Jobs, the Position of 1 asked for, failing writes, 1 crash, 1 yield, 1 visitor | 4.1 M | attempts, order of the line, no flattering Position, ended Jobs stay ended |
| `jobs_live` | 1 Job, a caller of each class, 1 crash, 1 yield | 222 k | RUNNING means being run, no starvation, every Job ends |
| `events` | 2 streams (1 stalling), 1 Cancel, 2 runs, channels of 2 | 309 k | the outcome told is the outcome stored, no stall, done arrives |
| `dispatch` | 0 to 2 routes of 2 models, each variable valid, missing, clashing or wrong; 1 call, 2 retries, 2 pieces, a client that may stall | 588 k | what `Load` accepts starts, requests reach the instance of their route and are tracked under its index; a call gives an honest answer and returns |

Bounds and why they suffice. Slots and queue places are fewer than the callers, so every
refusal, hand-over and race between them occurs; three Batch requests for two park places overflow
the park queue and leave an order to check. Two yields let a request be parked, released and parked
again, and a serve context be replaced. Two changes of contention or mode start and end a yield while
actions of the first are outstanding; three, in `tdarr`, add a change of reason or a second yield. What several requests add to the
one of `yield` is only that the instance stays in use longer; `UnitFollowsOrders` is proved for any number of them.
The calls of Position do not meet either, so one Job is `Watched`. One
crash suffices to meet every step of the worker and, with two attempts, both sides of the limit;
two runs of a Job let a stream see a preemption. The moments of the week are a night inside
the daily window only, the first second of the scraper's window and the first after it, and the clock
goes round them at will, faster or slower than the ticks of the loop; `FridayOnly`, an assumption of
`MCTdarr` that TLC evaluates, covers both sides of every edge of the windows on all seven days. Two routes and a
default meet every clash `Load` looks for (of models, URLs and units, between routes and with the
default), every mix of instances with and without an Unloader, and a gap. Calls share nothing but a
connection pool, so one of them is enough; the retries are the code's two, and with two pieces
an answer may break off before, in and after its text. `MaxYields`, `MaxChanges`, `MaxCrashes`,
`MaxVisits`, `MaxJobs`, `MaxRuns`, `MaxTicks`, `Watched`, `Leavers` and `Stallers` bound the environment, not the program. The
channel capacity is 2 in `events`, below the number of publications, so that it fills; it is the code's 16
in `events_lost`.

Deadlock is checked in `scheduler` and `tdarr`; the other instances end when their bounded
environments are used up.

Fairness. Go schedules every runnable goroutine and the timers it arms fire, so the steps of
handlers, worker, monitor, poll loop and drain loop are weakly fair; action goroutines have
timeouts (30 s, 10 s for the GPU manager, 5 s for the schedule's calls to Tdarr). `WaitOver`, `ParkHoldOver` and `UpstreamTimeout` are fair
because their timers are armed; an upstream call is fair to return only once its context has ended. `CallReturns` shows in
`dispatch` that this is so: assuming of the upstream nothing at all, a call whose context has ended
returns, except from two places that no context interrupts: the reading of the client's body (`proxy.go:69`,
before the places `CallReturns` speaks of) and a write to a client that has stopped reading. The servers set no ReadTimeout
or WriteTimeout, so a client that stalls keeps its slot for as long as it likes. Both are in the modules (`stalled` in `Gate`,
`blocked` in `Upstream`, with no fairness for the client) and are the exceptions of `YieldPreempts`, `BoundedReturns` and `CallReturns`.
`TrackWake` is strongly fair: it waits for a mutex that the poll loop keeps giving back.
Nothing is assumed of clients, yields, contention, crashes or an upstream nobody cancels. In
the Scheduler by itself holders are assumed to release; `gate_live` drops that assumption. `jobs_live` has it as a
hypothesis: the lanes of the proxied requests have no upstream bound, so `InteractiveNotStarved` and `EveryJobEnds` say
"if the proxied calls return" (`CallsReturn`), and `EveryJobEnds` also that generations return at some time and yields end. A stream is
served only while its client reads (`Readers`).

### Statements the code does not live up to

Three runs are expected to fail; each checks a sentence of the repository.

* `yield_reason`: ADR-0012 says "Confirmation requirements apply to entry only." A confirmed
  contention whose reason changes is dropped until the new reason is confirmed (`yield.go:461`).
* `jobs_cancel`: `service.go:152` says Cancel "aborts its upstream call if it is running". Between
  the claim and `startRun` there is nothing to abort yet, and the generation goes on.
* `events_lost`: `api.go:111` says a stream goes on "until the Job is terminal". A Job that ends
  between the handler's read and its subscription leaves the stream open.

Two more are met by the modules and left to the properties' conditions. A request admitted before a
yield that wakes an idle-unloaded instance orders its reload during the yield (`yield.go:390`), and nothing unloads it again before
the next yield, although ADR-0014 says that a start is "only ever issued from yield-clear": `UnitFollowsOrders` makes no
promise about instances with an idle timeout during a yield, nor `GPUFollowsContention` about one that a request enters during it.
And `tdarr.go:4` says that the broker
resumes Tdarr when the yield and the window "clear", Tdarr being "always lowest priority": each
of the two writers resumes it at the end of its own condition, whether or not the other's lasts.
After that, after a pause and a resume that overlap, a call of the
Controller that is lost, one of the schedule that times out after it took effect, or a restart during a pause (nothing sets the limit
at start-up) Tdarr's limit may be wrong, until a later call puts it right. `Overlap`, `Lost` and `TdarrInit` list these mishaps;
`LimitExact` and `TdarrSettles` make no promise while one of them is not made good (`disturbed`), and show
that within the model the limit goes wrong in no other way. So they bound these weaknesses and do not catch them.

## Proofs

`tlapm <module>.tla`. Every invariant and every action property that a passing run checks is
also a theorem, and so are the refinements. The constants are arbitrary under the named assumptions of
the modules: any finite set of callers, any number of slots, any waiter cap, park ceiling and burst,
any number of confirming polls, instances, Jobs, attempts, crashes, streams, routes, retries and pieces
of an answer. One theorem assumes more: `RunningJobsAreRun` is about a store whose writes succeed
(`~StoreFails`, as in the run `jobs_live`); without that a Job may stay RUNNING until the next restart.

* `SchedulerProofs`. `SlotAccounting` is not inductive by itself: that a cancelled waiter
  returns a slot only if it was given one needs to know where waiters are, so the invariant is `SchedInv`, the
  conjunction of `SchedTypeOK`, `SlotAccounting`, `NoIdleSlot` and `QueueExact`, with one lemma per
  action (`SchedulerSafe`, and a theorem for each part). From it follow `NoOvertaking` (the head of `NextClass`
  is ahead of all other waiters, `NextIsFirst`) and the refinement of `SlotPool` (`PoolStep`).
* `GateProofs`. The Gate uses the Scheduler's actions with guards of its own, so every step of
  the Gate is a step of the Scheduler or leaves it alone (`GateDrivesScheduler`): `GateSpec`
  implements `SchedSpec`, and `NoOvertaking` and the refinement of `SlotPool` hold behind the Gate. `SchedInv`
  conjoined with the relation of `pc` and `acq` at every place is inductive and gives `SlotDiscipline`. The
  park queue has an invariant of its own, `ParkInv`: `ParkExact`, that an entry's park number is
  one its request has reached, so that an old entry is never taken for a new one, and that the drain splices
  a new batch only when it has closed the last. It gives `ReleaseWins` and `ParkFIFO` as well.
* `YieldProofs`. The refinement of `Admission` needs `ActedOn`: between two actions
  `effective` equals what `Compute` gives, that is, every change of mode or detection has been
  applied. `DebounceExact` relates the counter to a history of the last `ConfirmPolls` polls; its
  invariant says that the last `confirmCount` entries of the history are `confirmReason` and that the run
  is not longer unless it is saturated. `UnitFollowsOrders` speaks of an empty chain only; `OrderInv`
  says of any chain what its last order is, and keeps apart the three who give orders: an instance that
  a request is waking is not marked as unloaded, and one the poll has found idle is neither.
  A Controller with Tdarr around it implements `YctlSpec` (`CoordImplementsController`). For `LimitExact`
  the invariant `LimitInv` adds which calls may be under way: the Controller's are for the state it is in, the schedule's
  against the one it remembers; where the limit has come right again with no call under way nothing of the past matters.
* `JobProofs`. `StoreInv` is the conjunction of the rows' types, `AttemptsSpent`, `ResumeFirst` and the
  fact that a Job still to be submitted has no row; each statement of the store keeps it, the sweep with
  the help of a lemma that counts the Jobs it requeues (`CountUpTo`). `JobInv` adds the Scheduler's
  `SchedInv`, which a crash starts afresh, and which slot the worker holds at each of its places.
  `PositionNotFlattering` needs to know what can happen between the two statements (`AskInv`): the Job
  asked for stands no further back than its row was read to, unless it was requeued since, and then it is the first and the worker
  has no other Job to put before it. `RunningIsRun` needs `RunInv`: only
  the Job in the worker's hands is RUNNING, and not any more when the run ends.
* `JobEventsProofs`. `DoneIsFinal` is inductive together with the events that are still to be
  published and the snapshots that are read and not yet sent: all of them are honest about the row, because the
  row of an ended Job does not change again.
* `RoutingProofs`. What the loop of `NewWithConfirmMulti` leaves in its two results is shown turn by turn (`FilteredTo`); what `Load`
  has checked of the instances accepted so far (`Accepted`) is kept by each group it accepts. From
  both, `buildBroker` gives a table in which no route has replaced another (`TableIs`) and backends
  that report to the index of their own Unloader (`BackendTracked`). The URLs are what ties the three
  indexes together: that `Load` keeps them unique is used in `RouteExact` and in `IdleTracksServed`.
* `UpstreamProofs`. `UpInv` says at each place of a call what has been received, what has been written and which
  outcomes are possible. No further attempt is made once there is a response, which is why all
  that is relayed is from the last; and no relayed answer gets to the drain without its status, which is why none is written twice.

Induction over data (the turns of a loop, the members of a finite set) is done without the library's
induction theorems: a smallest counterexample exists (`SmallestSet`, `FiniteMinMax` in `QueueLemmas`) and is refuted.

Only model-checked: the liveness properties (fairness and `ENABLED` are outside the prover's reach),
that is `InteractiveServed`, `YieldPreempts`, `EveryRequestSettles`, `BoundedReturns`, `GPUFollowsContention`,
`TdarrSettles`, `InteractiveNotStarved`, `EveryJobEnds`, `WorkerNeverStalls`,
`DoneReachesStream` and `CallReturns`.

## Not modelled

Metrics, logging, the control plane's handlers (`SetMode` itself is modelled) and the HTTP helpers
keep no state the properties are about. Of the configuration, the parsing of durations and numbers
and the settings that are passed on unchanged are left out; of the proxies and clients,
headers, the exact bytes of bodies (so that the body a peek has begun to read is put together again
unchanged is not shown), token counts, the answer to a writer that cannot flush and the recovered panic of a
stream's write; of `Unload`, what happens between Ollama's models.
The reads `Stats`, `Snapshot`, `IdleSummary`, `List`, `Counts`, `RoutingSummary`, `Reachable` and `WorkerLimits`
change nothing. Panics in
handlers are not modelled. Job traffic does not count as activity for idle unload, in
the code and in the model.

## Plan

In the order of importance; all six are done.

1. Scheduler with `SlotPool`, Gate over it, their proofs.
2. Yield controller with `Admission`, detector, their proofs.
3. Job store, worker and events.
4. Tdarr's two writers (`TdarrCoord`).
5. Configuration, routing and upstream calls (`Routing`, `Upstream`, `Dispatch`).
6. Theorems for the safety properties of all of them.

What could follow: abstract specifications of the Job store and of a call, and the refinement of the
first by the worker that crashes; the order of the line when a sweep requeues several Jobs, which the store reverses.
