----------------------------- MODULE JobRunner ------------------------------
(***************************************************************************)
(* internal/job/worker.go and service.go: the Job worker over the durable  *)
(* store, the Scheduler (competing with proxied requests) and the yield    *)
(* controller, with Cancel calls, crashes and restarts of the broker.      *)
(*                                                                         *)
(* wpc is where the worker goroutine is:                                   *)
(*   "top"      Yielding check         "generate" in gen.Generate           *)
(*   "peek"     HasQueued              "succeed"  it returned a text        *)
(*   "acquire"  in Acquire             "classify" it failed: isCanceled     *)
(*   "admit"    second Yielding check  "why"      the other causes          *)
(*   "claim"    ClaimNext              "requeue"  Preempt                   *)
(*   "start"    startRun               "fail"     FailOrRetry               *)
(*   "capture"  ServeContext           "end"      endRun                    *)
(*   "release"  Release                "stopped"  Run has returned          *)
(* Run sleeping for its poll interval is the worker staying at "top".      *)
(***************************************************************************)
EXTENDS JobStore, Scheduler, Admission

CONSTANTS worker,       \* the worker, as a caller of the Scheduler
          StoreFails,   \* whether writes to the store may fail
          MaxYields,    \* bound of the model: yields between restarts
          MaxCrashes,   \* bound of the model: crashes of the broker
          MaxVisits,    \* bound of the model: proxied requests
          Watched       \* bound of the model: Jobs whose Position is asked for

ASSUME JobRunnerAssumption ==
  /\ worker \in Batch
  /\ StoreFails \in BOOLEAN
  /\ MaxYields \in Nat /\ MaxCrashes \in Nat /\ MaxVisits \in Nat
  /\ Watched \subseteq Jobs

VARIABLES wpc,
          cur,          \* the Job claimed, 0 if none
          running,      \* Jobs registered in Service.running
          jobCtx,       \* jobCtx of the run: "live" or "cancelled"
          runGen,       \* the serve context captured for the run
          preempted,    \* the monitor's flag
          pastQuantum,  \* the run has lasted for the min-run quantum
          aborting,     \* Cancel calls between their transaction and their abort
          asked,        \* the row Position has read and not yet counted from
          life,         \* the broker: "up", "stopping" or "down"
          crashes, visits,
          claimed       \* Jobs that have run before

runVars   == <<cur, running, jobCtx, runGen, preempted, pastQuantum>>
apiVars   == <<aborting, asked>>
worldVars == <<life, crashes, visits>>
jobVars   == <<storeVars, schedVars, yieldVars, wpc, runVars, apiVars, worldVars, claimed>>

\* Position is not being asked for.
NoRow == [job |-> 0, hint |-> 0]

RunInit ==
  /\ wpc = "top" /\ cur = 0 /\ running = {} /\ jobCtx = "cancelled" /\ runGen = 0
  /\ preempted = FALSE /\ pastQuantum = FALSE /\ aborting = {} /\ asked = NoRow

JobInit ==
  /\ StoreInit /\ SchedInit /\ AdmInit /\ RunInit
  /\ life = "up" /\ crashes = 0 /\ visits = 0 /\ claimed = {}

\* The proxied requests.
Others == Callers \ {worker}

Step(from, to) == wpc = from /\ wpc' = to

-----------------------------------------------------------------------------
(* The HTTP API                                                            *)

Submit(k) ==
  /\ StoreSubmit(k)
  /\ UNCHANGED <<schedVars, yieldVars, wpc, runVars, apiVars, worldVars, claimed>>

\* Service.Cancel: the transaction; a Job found CANCELED already is aborted again.
Cancel(i) ==
  /\ StoreCancel(i) \/ (state[i] = "CANCELED" /\ UNCHANGED storeVars)
  /\ aborting' = aborting \cup {i}
  /\ UNCHANGED <<schedVars, yieldVars, wpc, runVars, asked, worldVars, claimed>>

\* then, under s.mu, the abort of the run if there is one registered.
CancelAbort(i) ==
  /\ i \in aborting
  /\ aborting' = aborting \ {i}
  /\ jobCtx' = IF i \in running THEN "cancelled" ELSE jobCtx
  /\ UNCHANGED <<storeVars, schedVars, yieldVars, wpc, cur, running, runGen, preempted,
                 pastQuantum, asked, worldVars, claimed>>

\* Store.Position, which Service.Get calls for a QUEUED Job: the row is read,
PositionGet(i) ==
  /\ i \in Watched /\ asked = NoRow
  /\ state[i] = "QUEUED"
  /\ asked' = [job |-> i, hint |-> hint[i]]
  /\ UNCHANGED <<storeVars, schedVars, yieldVars, wpc, runVars, aborting, worldVars, claimed>>

\* then the rows before it are counted, in a statement of its own; the client is told Told.
PositionCount ==
  /\ asked # NoRow
  /\ asked' = NoRow
  /\ UNCHANGED <<storeVars, schedVars, yieldVars, wpc, runVars, aborting, worldVars, claimed>>

Told == Position(asked.job, asked.hint)

PruneOnce ==
  /\ \E D \in SUBSET Jobs : Prune(D)
  /\ UNCHANGED <<schedVars, yieldVars, wpc, runVars, apiVars, worldVars, claimed>>

-----------------------------------------------------------------------------
(* The worker: up to the claim                                             *)

\* Faulty variant of WLook: a yield ends the loop (return instead of continue).
WLookReturns ==
  /\ \/ (life = "stopping" \/ yielding) /\ Step("top", "stopped")
     \/ life = "up" /\ ~yielding /\ Step("top", "peek")
  /\ UNCHANGED <<storeVars, schedVars, yieldVars, runVars, apiVars, worldVars, claimed>>

WLook ==
  /\ \/ life = "stopping" /\ Step("top", "stopped")
     \/ life = "up" /\ ~yielding /\ Step("top", "peek")
  /\ UNCHANGED <<storeVars, schedVars, yieldVars, runVars, apiVars, worldVars, claimed>>

WPeek ==
  /\ \/ life = "stopping" /\ Step("peek", "stopped")
     \/ InState("QUEUED") # {} /\ Step("peek", "acquire")
     \/ (InState("QUEUED") = {} \/ StoreFails) /\ Step("peek", "top")
  /\ UNCHANGED <<storeVars, schedVars, yieldVars, runVars, apiVars, worldVars, claimed>>

\* Acquire waits without a budget: its context ends only when the broker stops.
WAcquire ==
  /\ \/ (AcquireFast(worker) \/ AcquireGranted(worker)) /\ Step("acquire", "admit")
     \/ AcquireQueueFull(worker) /\ Step("acquire", "top")
     \/ AcquireEnqueue(worker) /\ Step("acquire", "acquire")
     \/ life = "stopping" /\ AcquireCtxDone(worker) /\ Step("acquire", "acquire")
     \/ AcquireNotQueued(worker) /\ Step("acquire", "acquire")
     \/ (AcquireRemoveWaiter(worker) \/ AcquireHandBack(worker)) /\ Step("acquire", "top")
  /\ UNCHANGED <<storeVars, yieldVars, runVars, apiVars, worldVars, claimed>>

WAdmit ==
  /\ Step("admit", IF yielding THEN "release" ELSE "claim")
  /\ UNCHANGED <<storeVars, schedVars, yieldVars, runVars, apiVars, worldVars, claimed>>

\* ClaimNext, or nothing to claim or an error: back off with the slot released.
WClaim ==
  /\ \/ \E i \in Jobs :
          /\ ClaimNext(i)
          /\ cur' = i
          /\ claimed' = claimed \cup {i}
          /\ Step("claim", "start")
     \/ /\ InState("QUEUED") = {} \/ StoreFails \/ life = "stopping"
        /\ Step("claim", "release")
        /\ UNCHANGED <<storeVars, cur, claimed>>
  /\ UNCHANGED <<schedVars, yieldVars, running, jobCtx, runGen, preempted, pastQuantum,
                 apiVars, worldVars>>

-----------------------------------------------------------------------------
(* The worker: one run                                                     *)

WStart ==
  /\ Step("start", "capture")
  /\ running' = running \cup {cur}
  /\ jobCtx' = IF life = "stopping" THEN "cancelled" ELSE "live"
  /\ preempted' = FALSE /\ pastQuantum' = FALSE
  /\ UNCHANGED <<storeVars, schedVars, yieldVars, cur, runGen, apiVars, worldVars, claimed>>

WCapture ==
  /\ Step("capture", "generate")
  /\ runGen' = serveGen
  /\ UNCHANGED <<storeVars, schedVars, yieldVars, cur, running, jobCtx, preempted, pastQuantum,
                 apiVars, worldVars, claimed>>

\* Generate returns a text, perhaps after its context has ended,
WGenerated ==
  /\ Step("generate", "succeed")
  /\ UNCHANGED <<storeVars, schedVars, yieldVars, runVars, apiVars, worldVars, claimed>>

\* or an error: of the upstream, or because its context has ended.
WGenFailed ==
  /\ Step("generate", "classify")
  /\ UNCHANGED <<storeVars, schedVars, yieldVars, runVars, apiVars, worldVars, claimed>>

\* A write the store's guard refuses or that fails is logged and given up.
Missed(i) == (state[i] # "RUNNING" \/ StoreFails) /\ UNCHANGED storeVars

WSucceed ==
  /\ Step("succeed", "end")
  /\ Succeed(cur) \/ Missed(cur)
  /\ UNCHANGED <<schedVars, yieldVars, runVars, apiVars, worldVars, claimed>>

WClassify ==
  /\ \/ Step("classify", "end") /\ state[cur] = "CANCELED"
     \/ Step("classify", "why") /\ (state[cur] # "CANCELED" \/ StoreFails)
  /\ UNCHANGED <<storeVars, schedVars, yieldVars, runVars, apiVars, worldVars, claimed>>

\* Shutdown, the serve context and the monitor's flag are reasons to requeue.
Interrupted == life = "stopping" \/ runGen \in cancelled \/ preempted

WWhy ==
  /\ Step("why", IF Interrupted THEN "requeue" ELSE "fail")
  /\ UNCHANGED <<storeVars, schedVars, yieldVars, runVars, apiVars, worldVars, claimed>>

WRequeue ==
  /\ Step("requeue", "end")
  /\ Preempt(cur) \/ Missed(cur)
  /\ UNCHANGED <<schedVars, yieldVars, runVars, apiVars, worldVars, claimed>>

WFail ==
  /\ Step("fail", "end")
  /\ FailOrRetry(cur) \/ Missed(cur)
  /\ UNCHANGED <<schedVars, yieldVars, runVars, apiVars, worldVars, claimed>>

\* Faulty variant of WEnd: the run stays registered.
WEndStaysRegistered ==
  /\ Step("end", "release")
  /\ jobCtx' = "cancelled"
  /\ cur' = 0 /\ runGen' = 0 /\ preempted' = FALSE /\ pastQuantum' = FALSE
  /\ UNCHANGED <<storeVars, schedVars, yieldVars, running, apiVars, worldVars, claimed>>

\* The deferred endRun and cancel; the locals of the run are gone,
WEnd ==
  /\ Step("end", "release")
  /\ running' = running \ {cur}
  /\ jobCtx' = "cancelled"
  /\ cur' = 0 /\ runGen' = 0 /\ preempted' = FALSE /\ pastQuantum' = FALSE
  /\ UNCHANGED <<storeVars, schedVars, yieldVars, apiVars, worldVars, claimed>>

\* and the Release deferred by runNext.
WRelease ==
  /\ Step("release", "top")
  /\ Release(worker)
  /\ UNCHANGED <<storeVars, yieldVars, runVars, apiVars, worldVars, claimed>>

-----------------------------------------------------------------------------
(* The monitor goroutine, from the start of Generate until jobCtx ends     *)

Monitoring ==
  /\ jobCtx = "live"
  /\ wpc \in {"generate", "succeed", "classify", "why", "requeue", "fail", "end"}

ShouldPreempt == pastQuantum /\ wq["interactive"] # <<>>

MonitorYield ==
  /\ Monitoring
  /\ runGen \in cancelled
  /\ jobCtx' = "cancelled"
  /\ UNCHANGED <<storeVars, schedVars, yieldVars, wpc, cur, running, runGen, preempted,
                 pastQuantum, apiVars, worldVars, claimed>>

\* A ping received before the quantum is over is consumed without effect.
MonitorPing ==
  /\ Monitoring
  /\ ReceivePing
  /\ preempted' = (preempted \/ ShouldPreempt)
  /\ jobCtx' = IF ShouldPreempt THEN "cancelled" ELSE jobCtx
  /\ UNCHANGED <<storeVars, yieldVars, wpc, cur, running, runGen, pastQuantum, apiVars,
                 worldVars, claimed>>

\* Faulty variant of MonitorTick: it looks again only while a ping is pending.
MonitorTickOnPing ==
  /\ Monitoring
  /\ ShouldPreempt
  /\ interactiveWaiting
  /\ preempted' = TRUE
  /\ jobCtx' = "cancelled"
  /\ UNCHANGED <<storeVars, schedVars, yieldVars, wpc, cur, running, runGen, pastQuantum,
                 apiVars, worldVars, claimed>>

\* The ticker looks again.
MonitorTick ==
  /\ Monitoring
  /\ ShouldPreempt
  /\ preempted' = TRUE
  /\ jobCtx' = "cancelled"
  /\ UNCHANGED <<storeVars, schedVars, yieldVars, wpc, cur, running, runGen, pastQuantum,
                 apiVars, worldVars, claimed>>

QuantumOver ==
  /\ Monitoring
  /\ ~pastQuantum
  /\ pastQuantum' = TRUE
  /\ UNCHANGED <<storeVars, schedVars, yieldVars, wpc, cur, running, jobCtx, runGen, preempted,
                 apiVars, worldVars, claimed>>

-----------------------------------------------------------------------------
(* Around the worker                                                       *)

\* A proxied request calls Acquire,
Visit(c) ==
  /\ visits < MaxVisits
  /\ visits' = visits + 1
  /\ AcquireFast(c) \/ AcquireQueueFull(c) \/ AcquireEnqueue(c)
  /\ UNCHANGED <<storeVars, yieldVars, wpc, runVars, apiVars, life, crashes, claimed>>

\* and waits, gives up, or releases its slot.
Interact(c) ==
  /\ AcquireStep(c) \/ AcquireCtxDone(c) \/ Release(c)
  /\ UNCHANGED <<storeVars, yieldVars, wpc, runVars, apiVars, worldVars, claimed>>

Yield ==
  /\ (serveGen < MaxYields /\ YieldStart) \/ YieldStop
  /\ UNCHANGED <<storeVars, schedVars, wpc, runVars, apiVars, worldVars, claimed>>

\* SIGTERM: the context the worker runs under ends.
Stop ==
  /\ life = "up" /\ crashes < MaxCrashes
  /\ life' = "stopping"
  /\ jobCtx' = "cancelled"
  /\ UNCHANGED <<storeVars, schedVars, yieldVars, wpc, cur, running, runGen, preempted,
                 pastQuantum, apiVars, crashes, visits, claimed>>

\* The process ends, after Stop or without warning, and everything but the store is lost.
Crash ==
  /\ life = "stopping" \/ crashes < MaxCrashes
  /\ crashes' = crashes + 1
  /\ life' = "down"
  /\ inflight' = 0 /\ wq' = [k \in Classes |-> <<>>] /\ closed' = {}
  /\ interactiveWaiting' = FALSE /\ acq' = [c \in Callers |-> "idle"]
  /\ yielding' = FALSE /\ serveGen' = 0 /\ cancelled' = {}
  /\ wpc' = "top" /\ cur' = 0 /\ running' = {} /\ jobCtx' = "cancelled" /\ runGen' = 0
  /\ preempted' = FALSE /\ pastQuantum' = FALSE /\ aborting' = {}
  /\ asked' = NoRow
  /\ UNCHANGED <<storeVars, visits, claimed>>

\* Faulty variant of Recover: no startup sweep.
RecoverNoSweep ==
  /\ life = "down"
  /\ life' = "up"
  /\ UNCHANGED <<storeVars, schedVars, yieldVars, wpc, runVars, apiVars, crashes, visits,
                 claimed>>

\* main runs Recover before it starts the worker or listens.
Recover ==
  /\ life = "down"
  /\ life' = "up"
  /\ RecoverRunning
  /\ UNCHANGED <<schedVars, yieldVars, wpc, runVars, apiVars, crashes, visits, claimed>>

-----------------------------------------------------------------------------

Api ==
  \/ \E k \in Keys : Submit(k)
  \/ \E i \in Jobs : Cancel(i) \/ CancelAbort(i) \/ PositionGet(i)
  \/ PositionCount
  \/ PruneOnce

\* What the worker does by itself; Generate returns when the upstream does.
Work ==
  \/ WLook \/ WPeek \/ WAcquire \/ WAdmit \/ WClaim \/ WStart \/ WCapture
  \/ WSucceed \/ WClassify \/ WWhy \/ WRequeue \/ WFail \/ WEnd \/ WRelease

Monitor == MonitorYield \/ MonitorPing \/ MonitorTick

JobNext ==
  \/ /\ life # "down"
     /\ \/ Api \/ Work \/ WGenerated \/ WGenFailed \/ Monitor \/ QuantumOver
        \/ \E c \in Others : Visit(c) \/ Interact(c)
        \/ Yield \/ Stop \/ Crash
  \/ Recover

JobSpec == JobInit /\ [][JobNext]_jobVars

\* Goroutines are scheduled and timers fire; Generate returns once its context has ended; a
\* stopping broker exits and systemd restarts it.  Nothing makes Generate or a proxied call
\* return by itself, nor a yield end.
JobFairness ==
  /\ WF_jobVars(life # "down" /\ Work)
  /\ WF_jobVars(life # "down" /\ MonitorYield)
  /\ WF_jobVars(life # "down" /\ MonitorTick)
  /\ WF_jobVars(life # "down" /\ QuantumOver)
  /\ WF_jobVars(jobCtx = "cancelled" /\ WGenFailed)
  /\ \A c \in Others :
       WF_jobVars(AcquireStep(c) /\ Interact(c))
  /\ WF_jobVars(life = "stopping" /\ Crash)
  /\ WF_jobVars(Recover)

FairJobSpec == JobSpec /\ JobFairness

-----------------------------------------------------------------------------
(* Properties                                                              *)

\* The labels at which the worker owns a slot, and those at which it has a Job.
Holds == {"admit", "claim", "start", "capture", "generate", "succeed", "classify", "why",
          "requeue", "fail", "end", "release"}
HasJob == {"start", "capture", "generate", "succeed", "classify", "why", "requeue", "fail",
           "end"}

\* The values of the rows and of the worker's state: the running map has no entry but that of
\* the Job the worker is running (startRun, endRun).
JobTypeOK ==
  /\ SchedTypeOK
  /\ state \in [Jobs -> States]
  /\ attempts \in [Jobs -> Nat]
  /\ hint \in [Jobs -> Int]
  /\ keyOf \in [Jobs -> Keys \cup {"noKey"}]
  /\ nextJob \in 1..MaxJobs + 1
  /\ wpc \in Holds \cup {"top", "peek", "acquire", "stopped"}
  /\ cur \in Jobs \cup {0} /\ (cur # 0 <=> wpc \in HasJob)
  /\ running \subseteq {cur} /\ aborting \subseteq Jobs /\ claimed \subseteq Jobs
  /\ jobCtx \in {"live", "cancelled"}
  /\ preempted \in BOOLEAN /\ pastQuantum \in BOOLEAN
  /\ life \in {"up", "stopping", "down"}
  /\ runGen \in Nat /\ crashes \in Nat /\ visits \in Nat
  /\ asked \in [job : Jobs \cup {0}, hint : Int]

\* A Job is RUNNING only while the worker runs it with the GPU slot in its hands ("never while
\* merely waiting in line"), or until the restart after a crash: none is ever left RUNNING
\* with nobody to finish it.  (Without StoreFails: a failed write leaves one until restart.)
RunningIsRun ==
  \A i \in InState("RUNNING") :
    \/ life = "down"
    \/ cur = i /\ acq[worker] = "holding"

\* An ended Job stays as it is until it is pruned, whatever the worker that may still be
\* running it, a late Cancel or a recovery sweep does.
TerminalStable ==
  [][\A i \in Jobs : state[i] \in Terminal =>
       state'[i] = "none" \/ (state'[i] = state[i] /\ attempts'[i] = attempts[i])]_jobVars

\* Only an upstream error and a restart cost an attempt; a live Job has attempts left, and one
\* that has FAILED has used exactly MaxAttempts.
AttemptsSpent ==
  /\ \A i \in InState("QUEUED") \cup InState("RUNNING") : attempts[i] < MaxAttempts
  /\ \A i \in InState("FAILED") : attempts[i] = MaxAttempts

\* The line: a Job that has run before comes before every Job that has not (resume-first),
\* and those come in the order of their submission.
ResumeFirst ==
  \A i, j \in InState("QUEUED") :
    i # j => /\ hint[i] # hint[j]
             /\ i \in claimed /\ j \notin claimed => hint[i] < hint[j]
             /\ i \notin claimed /\ j \notin claimed /\ i < j => hint[i] < hint[j]

\* A client is never told a better Position than its Job has when the rows are counted, although
\* the Job may have been claimed and requeued since its own row was read.  (A worse one it may
\* be told: a Job requeued in between is counted as standing before itself.)
PositionNotFlattering ==
  asked.job # 0 /\ state[asked.job] = "QUEUED"
    => Told >= Position(asked.job, hint[asked.job])

\* No proxied call holds its slot for ever.  The lanes for Interactive and Batch requests have
\* no upstream bound, so this is an assumption about the upstream and the clients.
CallsReturn == \A c \in Others : []<>(acq[c] # "holding")

\* An Interactive request waiting behind a Job gets the slot (or gives up) even if the Job's
\* generation hangs for ever, and even if its one ping came before the quantum was over, if
\* only the proxied calls return.
InteractiveNotStarved ==
  CallsReturn => \A c \in Interactive : acq[c] = "waiting" ~> acq[c] # "waiting"

\* If every generation and every proxied call returns at some time, no yield lasts for ever
\* and the preempting requests, yields and crashes are finitely many (MaxVisits, MaxYields,
\* MaxCrashes), a submitted Job ends: a preemption, a crash or a retry never leaves it behind.
\* The worker waits for its slot without a budget, so that one call that hangs holds it up.
EveryJobEnds ==
  CallsReturn /\ []<>(wpc # "generate") /\ []<>~yielding =>
    \A i \in Jobs : state[i] = "QUEUED" ~> state[i] \in Terminal \cup {"none"}

-----------------------------------------------------------------------------
(* A statement of the repository the code does not live up to              *)

\* Service.Cancel: "marks a Job CANCELED and aborts its upstream call if it is running".  So
\* when the Cancel has returned, no generation goes on for that Job with a live context.
CancelAborts ==
  wpc = "generate" /\ state[cur] = "CANCELED" /\ cur \notin aborting => jobCtx = "cancelled"

=============================================================================
