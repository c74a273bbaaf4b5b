-------------------------------- MODULE Gate --------------------------------
(***************************************************************************)
(* internal/queue/gate.go and park.go: the admission of proxied requests,  *)
(* composed with the Scheduler they acquire slots from.                    *)
(*                                                                         *)
(* Every request is one goroutine running the handler Gate returns.  It    *)
(* reads Yielding, parks if it is Batch and the GPU is yielded, acquires a *)
(* slot, reads Yielding again, captures the current serve context, calls   *)
(* upstream, and releases the slot.  Around it run the park drain loop,    *)
(* the client that may disconnect, the broker's shutdown, the timers and   *)
(* the yield controller, seen here only through what the Gate reads of it  *)
(* (module Admission).                                                     *)
(*                                                                         *)
(* pc[r] is where the handler of request r is:                             *)
(*   "new"      not arrived              "admit"    Acquire returned nil    *)
(*   "check"    top of the loop          "backOff"  to Release, yielding    *)
(*   "park"     about to call parkFor    "begin"    to capture serve ctx    *)
(*   "parked"   blocked in parkFor       "serving"  in next.ServeHTTP       *)
(*   "acquire"  in Acquire               "finish"   ServeHTTP returned      *)
(*   "done"     answered                 "release"  outcome recorded        *)
(*                                                                         *)
(* A blocked select that takes a branch changes nothing shared, so the     *)
(* branch and the critical section it runs next are one action.            *)
(***************************************************************************)
EXTENDS Scheduler, Admission

CONSTANTS MaxQueue,     \* park.maxQueue; 0 disables parking
          DrainBurst,   \* park.drainBurst
          Bounded,      \* requests on a lane with a nonzero upstreamTimeout
          MaxYields,    \* bound of the model: how often the GPU is yielded
          Leavers,      \* bound of the model: whose client may disconnect
          Stallers      \* bound of the model: whose client may stop sending or reading

ASSUME GateAssumption ==
  /\ MaxQueue \in Nat
  /\ DrainBurst \in Nat \ {0}
  /\ Bounded \subseteq Callers
  /\ MaxYields \in Nat
  /\ Leavers \subseteq Callers
  /\ Stallers \subseteq Callers

VARIABLES pc,          \* where each handler is, see above
          outcome,     \* the outcome recorded for each request
          parks,       \* how often a request has parked
          parkq,       \* park.q: parked entries, oldest first
          batch,       \* entries drainOneBurst has spliced out and not yet closed
          released,    \* entries whose release channel is closed
          draining,    \* RunParkDrain saw Yielding false and has not spliced yet
          gen,         \* the serve context each request captured
          ctxErr,      \* Err() of each request's upstream context
          gone,        \* requests whose client has disconnected
          stalled,     \* requests whose handler is blocked on its client
          shutdown     \* shutdownCtx is done

parkVars  == <<parks, parkq, batch, released, draining>>
callVars  == <<gen, ctxErr>>
envVars   == <<gone, stalled, shutdown>>
gateVars  == <<schedVars, pc, outcome, parkVars, yieldVars, callVars, envVars>>

PCs == {"new", "check", "park", "parked", "acquire", "admit", "backOff", "begin",
        "serving", "finish", "release", "done"}

Outcomes == {"none", "served", "preempted", "upstream_timeout", "deferred", "expired",
             "park_rejected", "canceled", "crash_failed"}

\* A parkedReq: the request and which of its parks this is (each has its own channel).
Entry(r) == <<r, parks[r]>>

GateInit ==
  /\ SchedInit
  /\ pc = [r \in Callers |-> "new"]
  /\ outcome = [r \in Callers |-> "none"]
  /\ parks = [r \in Callers |-> 0]
  /\ parkq = <<>> /\ batch = <<>> /\ released = {} /\ draining = FALSE
  /\ AdmInit
  /\ gen = [r \in Callers |-> 0]
  /\ ctxErr = [r \in Callers |-> "none"]
  /\ gone = {} /\ stalled = {} /\ shutdown = FALSE

Goto(r, l) == pc' = [pc EXCEPT ![r] = l]

\* deferRequest and the other exits: the response is written and the outcome tallied.
Answer(r, o) ==
  /\ Goto(r, "done")
  /\ outcome' = [outcome EXCEPT ![r] = o]

ParkEnabled == MaxQueue # 0

-----------------------------------------------------------------------------
(* The admission loop                                                      *)

Arrive(r) ==
  /\ pc[r] = "new"
  /\ Goto(r, "check")
  /\ UNCHANGED <<schedVars, outcome, parkVars, yieldVars, callVars, envVars>>

\* The first Yielding check: defer, park, or go on to Acquire.
Check(r) ==
  /\ pc[r] = "check"
  /\ \/ /\ yielding
        /\ r \in Interactive \/ ~ParkEnabled
        /\ Answer(r, "deferred")
     \/ /\ yielding
        /\ r \in Batch /\ ParkEnabled
        /\ Goto(r, "park")
        /\ UNCHANGED outcome
     \/ /\ ~yielding
        /\ Goto(r, "acquire")
        /\ UNCHANGED outcome
  /\ UNCHANGED <<schedVars, parkVars, yieldVars, callVars, envVars>>

\* Acquire with the wait budget, as the Scheduler performs it.
Acquire(r) ==
  /\ pc[r] = "acquire"
  /\ \/ AcquireFast(r) /\ Goto(r, "admit") /\ UNCHANGED outcome
     \/ AcquireQueueFull(r) /\ Answer(r, "deferred")
     \/ AcquireEnqueue(r) /\ UNCHANGED <<pc, outcome>>
     \/ AcquireGranted(r) /\ Goto(r, "admit") /\ UNCHANGED outcome
     \/ AcquireRemoveWaiter(r) /\ Answer(r, "deferred")
     \/ AcquireNotQueued(r) /\ UNCHANGED <<pc, outcome>>
     \/ AcquireHandBack(r) /\ Answer(r, "deferred")
  /\ UNCHANGED <<parkVars, yieldVars, callVars, envVars>>

\* The wait budget runs out or the client disconnects while r is queued.
WaitOver(r) ==
  /\ pc[r] = "acquire"
  /\ AcquireCtxDone(r)
  /\ UNCHANGED <<pc, outcome, parkVars, yieldVars, callVars, envVars>>

\* The second Yielding check, with the slot held.
Admit(r) ==
  /\ pc[r] = "admit"
  /\ Goto(r, IF yielding THEN "backOff" ELSE "begin")
  /\ UNCHANGED <<schedVars, outcome, parkVars, yieldVars, callVars, envVars>>

\* Faulty variant of BackOff: goes on to park with the slot still held.
BackOffKeepsSlot(r) ==
  /\ pc[r] = "backOff"
  /\ IF r \in Batch /\ ParkEnabled
       THEN Goto(r, "check") /\ UNCHANGED <<schedVars, outcome>>
       ELSE Answer(r, "deferred") /\ Release(r)
  /\ UNCHANGED <<parkVars, yieldVars, callVars, envVars>>

\* Faulty variant of BackOff: the deferred Release was registered too, the slot is freed twice.
BackOffReleasesTwice(r) ==
  /\ pc[r] = "backOff"
  /\ Queued = {}
  /\ inflight' = inflight - 2
  /\ acq' = [acq EXCEPT ![r] = "idle"]
  /\ Answer(r, "deferred")
  /\ UNCHANGED <<wq, closed, interactiveWaiting, parkVars, yieldVars, callVars, envVars>>

\* Release the slot, then defer or re-enter the loop to park.
BackOff(r) ==
  /\ pc[r] = "backOff"
  /\ Release(r)
  /\ IF r \in Batch /\ ParkEnabled
       THEN Goto(r, "check") /\ UNCHANGED outcome
       ELSE Answer(r, "deferred")
  /\ UNCHANGED <<parkVars, yieldVars, callVars, envVars>>

-----------------------------------------------------------------------------
(* parkFor                                                                 *)

\* The ceiling check and the append are one critical section of park.mu.
ParkFor(r) ==
  /\ pc[r] = "park"
  /\ \/ /\ Len(parkq) >= MaxQueue
        /\ Answer(r, "park_rejected")
        /\ UNCHANGED parkVars
     \/ /\ Len(parkq) < MaxQueue
        /\ parks' = [parks EXCEPT ![r] = @ + 1]
        /\ parkq' = Append(parkq, <<r, parks[r] + 1>>)
        /\ Goto(r, "parked")
        /\ UNCHANGED <<outcome, batch, released, draining>>
  /\ UNCHANGED <<schedVars, yieldVars, callVars, envVars>>

\* parker.remove(pr) for a waiter that stops waiting with outcome o; if the entry is no
\* longer queued, the release has won and the waiter re-enters admission.
LeavePark(r, o) ==
  \/ /\ Entry(r) \notin Range(parkq)
     /\ Goto(r, "check")
     /\ UNCHANGED <<outcome, parkq>>
  \/ \E i \in DOMAIN parkq :
       /\ parkq[i] = Entry(r)
       /\ parkq' = RemoveAt(parkq, i)
       /\ Answer(r, o)

ParkReleased(r) ==
  /\ pc[r] = "parked"
  /\ Entry(r) \in released
  /\ released' = released \ {Entry(r)}
  /\ Goto(r, "check")
  /\ UNCHANGED <<schedVars, outcome, parks, parkq, batch, draining, yieldVars, callVars,
                 envVars>>

\* Faulty variant of ParkHoldOver: expires without asking whether the release has won.
ParkHoldOverBlindly(r) ==
  /\ pc[r] = "parked"
  /\ Answer(r, IF r \in gone THEN "canceled" ELSE "expired")
  /\ parkq' = SelectSeq(parkq, LAMBDA e : e # Entry(r))
  /\ released' = released \ {Entry(r)}
  /\ UNCHANGED <<schedVars, parks, batch, draining, yieldVars, callVars, envVars>>

\* hctx is done: the hold has elapsed, or the client is gone.
ParkHoldOver(r) ==
  /\ pc[r] = "parked"
  /\ LeavePark(r, IF r \in gone THEN "canceled" ELSE "expired")
  /\ released' = released \ {Entry(r)}
  /\ UNCHANGED <<schedVars, parks, batch, draining, yieldVars, callVars, envVars>>

\* Faulty variant of ParkShutdown: answers, but leaves its entry in the queue.
ParkShutdownGhost(r) ==
  /\ pc[r] = "parked"
  /\ shutdown
  /\ Answer(r, "crash_failed")
  /\ released' = released \ {Entry(r)}
  /\ UNCHANGED <<schedVars, parks, parkq, batch, draining, yieldVars, callVars, envVars>>

ParkShutdown(r) ==
  /\ pc[r] = "parked"
  /\ shutdown
  /\ LeavePark(r, "crash_failed")
  /\ released' = released \ {Entry(r)}
  /\ UNCHANGED <<schedVars, parks, batch, draining, yieldVars, callVars, envVars>>

-----------------------------------------------------------------------------
(* RunParkDrain                                                            *)

\* A tick that finds the GPU not yielded; the splice follows, perhaps after a new yield.
DrainTick ==
  /\ ~draining /\ batch = <<>>
  /\ ~yielding
  /\ draining' = TRUE
  /\ UNCHANGED <<schedVars, pc, outcome, parks, parkq, batch, released, yieldVars, callVars,
                 envVars>>

\* Faulty variant of DrainSplice: takes the youngest entries.
DrainSpliceYoungest ==
  /\ draining
  /\ draining' = FALSE
  /\ LET n == IF DrainBurst > Len(parkq) THEN Len(parkq) ELSE DrainBurst
     IN  /\ batch' = SubSeq(parkq, Len(parkq) - n + 1, Len(parkq))
         /\ parkq' = SubSeq(parkq, 1, Len(parkq) - n)
  /\ UNCHANGED <<schedVars, pc, outcome, parks, released, yieldVars, callVars, envVars>>

\* drainOneBurst under park.mu, without effect if the queue is empty by now.
DrainSplice ==
  /\ draining
  /\ draining' = FALSE
  /\ LET n == IF DrainBurst > Len(parkq) THEN Len(parkq) ELSE DrainBurst
     IN  /\ batch' = SubSeq(parkq, 1, n)
         /\ parkq' = SubSeq(parkq, n + 1, Len(parkq))
  /\ UNCHANGED <<schedVars, pc, outcome, parks, released, yieldVars, callVars, envVars>>

\* close(r.release), outside the lock; without effect if the waiter has left already.
DrainClose ==
  /\ batch # <<>>
  /\ batch' = Tail(batch)
  /\ LET r == Head(batch)[1]
     IN  released' = IF pc[r] = "parked" /\ Head(batch) = Entry(r)
                       THEN released \cup {Head(batch)} ELSE released
  /\ UNCHANGED <<schedVars, pc, outcome, parks, parkq, draining, yieldVars, callVars, envVars>>

-----------------------------------------------------------------------------
(* The upstream call                                                       *)

\* Faulty variant of Begin: runs under a serve context no yield will cancel.
BeginDetached(r) ==
  /\ pc[r] = "begin"
  /\ gen' = [gen EXCEPT ![r] = MaxYields + 1]
  /\ ctxErr' = [ctxErr EXCEPT ![r] = IF r \in gone THEN "canceled" ELSE "none"]
  /\ Goto(r, "serving")
  /\ UNCHANGED <<schedVars, outcome, parkVars, yieldVars, envVars>>

\* ServeContext() is read after, and separately from, the second Yielding check.
Begin(r) ==
  /\ pc[r] = "begin"
  /\ gen' = [gen EXCEPT ![r] = serveGen]
  /\ ctxErr' = [ctxErr EXCEPT ![r] = IF r \in gone THEN "canceled" ELSE "none"]
  /\ Goto(r, "serving")
  /\ UNCHANGED <<schedVars, outcome, parkVars, yieldVars, envVars>>

\* The watcher goroutine: the captured serve context ended, so cancel the upstream call.
Watch(r) ==
  /\ pc[r] = "serving"
  /\ ctxErr[r] = "none"
  /\ gen[r] \in cancelled
  /\ ctxErr' = [ctxErr EXCEPT ![r] = "canceled"]
  /\ UNCHANGED <<schedVars, pc, outcome, parkVars, yieldVars, gen, envVars>>

\* Faulty variant of UpstreamTimeout: the bound is never armed.
UpstreamUnbounded(r) == FALSE /\ UNCHANGED gateVars

UpstreamTimeout(r) ==
  /\ pc[r] = "serving"
  /\ r \in Bounded
  /\ ctxErr[r] = "none"
  /\ ctxErr' = [ctxErr EXCEPT ![r] = "deadline"]
  /\ UNCHANGED <<schedVars, pc, outcome, parkVars, yieldVars, gen, envVars>>

\* next.ServeHTTP returns: the upstream answered, failed, or its context ended.
ServeReturn(r) ==
  /\ pc[r] = "serving"
  /\ r \notin stalled
  /\ Goto(r, "finish")
  /\ UNCHANGED <<schedVars, outcome, parkVars, yieldVars, callVars, envVars>>

Finish(r) ==
  /\ pc[r] = "finish"
  /\ outcome' = [outcome EXCEPT ![r] =
       IF gen[r] \in cancelled THEN "preempted"
       ELSE IF ctxErr[r] = "deadline" THEN "upstream_timeout"
       ELSE "served"]
  /\ Goto(r, "release")
  /\ UNCHANGED <<schedVars, parkVars, yieldVars, callVars, envVars>>

\* The deferred cancel and Release.
Exit(r) ==
  /\ pc[r] = "release"
  /\ Release(r)
  /\ Goto(r, "done")
  /\ UNCHANGED <<outcome, parkVars, yieldVars, callVars, envVars>>

-----------------------------------------------------------------------------
(* What the Gate reacts to                                                 *)

\* A client disconnects: r.Context() and every context derived from it end, and so does a
\* read of the request or a write of the answer.
ClientGone(r) ==
  /\ r \in Leavers
  /\ pc[r] \notin {"new", "done"}
  /\ r \notin gone
  /\ gone' = gone \cup {r}
  /\ stalled' = stalled \ {r}
  /\ ctxErr' = IF pc[r] = "serving" /\ ctxErr[r] = "none"
                 THEN [ctxErr EXCEPT ![r] = "canceled"] ELSE ctxErr
  /\ UNCHANGED <<schedVars, pc, outcome, parkVars, yieldVars, gen, shutdown>>

\* A client stops in the middle of the body that next.ServeHTTP reads, or stops reading the
\* answer it writes: the handler is blocked with its slot held, and neither a context nor a
\* timeout of the server ends that.
ClientStalls(r) ==
  /\ r \in Stallers
  /\ pc[r] = "serving"
  /\ r \notin gone \cup stalled
  /\ stalled' = stalled \cup {r}
  /\ UNCHANGED <<schedVars, pc, outcome, parkVars, yieldVars, callVars, gone, shutdown>>

\* The client goes on sending or reading.
ClientResumes(r) ==
  /\ r \in stalled
  /\ stalled' = stalled \ {r}
  /\ UNCHANGED <<schedVars, pc, outcome, parkVars, yieldVars, callVars, gone, shutdown>>

Shutdown ==
  /\ ~shutdown
  /\ shutdown' = TRUE
  /\ UNCHANGED <<schedVars, pc, outcome, parkVars, yieldVars, callVars, gone, stalled>>

\* The yield controller starts or ends a yield.
Yield ==
  /\ \/ serveGen < MaxYields /\ YieldStart
     \/ YieldStop
  /\ UNCHANGED <<schedVars, pc, outcome, parkVars, callVars, envVars>>

-----------------------------------------------------------------------------

\* The steps a handler takes by itself.
Handler(r) ==
  \/ Check(r) \/ Acquire(r) \/ Admit(r) \/ BackOff(r) \/ ParkFor(r) \/ ParkReleased(r)
  \/ Begin(r) \/ Finish(r) \/ Exit(r)

GateNext ==
  \/ \E r \in Callers :
       \/ Arrive(r) \/ Handler(r) \/ WaitOver(r)
       \/ ParkHoldOver(r) \/ ParkShutdown(r)
       \/ Watch(r) \/ UpstreamTimeout(r) \/ ServeReturn(r)
       \/ ClientGone(r) \/ ClientStalls(r) \/ ClientResumes(r)
  \/ DrainTick \/ DrainSplice \/ DrainClose
  \/ Shutdown \/ Yield

GateSpec == GateInit /\ [][GateNext]_gateVars

\* Goroutines are scheduled, the wait budget, the hold and the upstream bound run out, and
\* an upstream call whose context has ended returns, unless its handler is blocked on the
\* client.  No fairness for clients, yields or shutdown, so that a client may stall for ever,
\* nor for an upstream call nobody cancels: it may hang for ever.
GateFairness ==
  /\ \A r \in Callers :
       /\ WF_gateVars(Handler(r))
       /\ WF_gateVars(WaitOver(r))
       /\ WF_gateVars(ParkHoldOver(r))
       /\ WF_gateVars(Watch(r))
       /\ WF_gateVars(UpstreamTimeout(r))
       /\ WF_gateVars(ctxErr[r] # "none" /\ ServeReturn(r))
  /\ WF_gateVars(DrainSplice)
  /\ WF_gateVars(DrainClose)

FairGateSpec == GateSpec /\ GateFairness

-----------------------------------------------------------------------------
(* Properties                                                              *)

\* The values of the Gate's state; a slot released twice would take inflight below zero.
GateTypeOK ==
  /\ SchedTypeOK
  /\ pc \in [Callers -> PCs]
  /\ outcome \in [Callers -> Outcomes]
  /\ parks \in [Callers -> Nat]
  /\ parkq \in Seq(Callers \X Nat)
  /\ batch \in Seq(Callers \X Nat)
  /\ released \subseteq Callers \X Nat
  /\ draining \in BOOLEAN /\ yielding \in BOOLEAN /\ shutdown \in BOOLEAN
  /\ serveGen \in Nat /\ cancelled \subseteq Nat
  /\ gen \in [Callers -> Nat]
  /\ ctxErr \in [Callers -> {"none", "canceled", "deadline"}]
  /\ gone \subseteq Callers /\ stalled \subseteq Callers

\* The park queue holds, once each, the entries of requests still blocked in parkFor, never
\* more than MaxQueue; a parked request's entry is queued, about to be released, or released,
\* so it can neither be forgotten nor leave a ghost entry behind (parkFor, remove, drain).
ParkExact ==
  /\ Len(parkq) <= MaxQueue
  /\ IsInjective(parkq)
  /\ \A e \in Range(parkq) :
       /\ pc[e[1]] = "parked" /\ e = Entry(e[1])
       /\ e \notin released \cup Range(batch)
  /\ \A r \in Callers :
       pc[r] = "parked" => Entry(r) \in Range(parkq) \cup Range(batch) \cup released

\* A handler owns a slot exactly where it should: never while it parks, loops or has been
\* answered (no exit path leaks the slot), always from Acquire's return to its Release.
SlotDiscipline ==
  /\ \A r \in Callers : pc[r] # "acquire" =>
       (acq[r] = "holding" <=>
          pc[r] \in {"admit", "backOff", "begin", "serving", "finish", "release"})
  /\ \A r \in Callers : pc[r] # "acquire" => acq[r] \in {"idle", "holding", "refused"}
  /\ \A r \in Queued \cup closed : pc[r] = "acquire"

\* Once the drain has taken an entry out of the queue its request re-enters admission: it is
\* never reported expired, canceled or crash_failed, whichever timer it races with.
ReleaseWins ==
  [][\A r \in Callers :
       pc[r] = "parked" /\ Entry(r) \notin Range(parkq) /\ pc'[r] # "parked"
         => pc'[r] = "check"]_gateVars

\* Parked requests are released first in, first out: no entry is drained while an older one
\* stays in the queue.
ParkFIFO ==
  [][\A i, j \in DOMAIN parkq :
       i < j /\ parkq[j] \in Range(batch') \ Range(batch)
         => parkq[i] \notin Range(parkq')]_gateVars

\* A yield ends every upstream call it finds in flight, even one that would hang for ever and
\* even if the yield began between the admission check and the capture of the serve context.
\* The one thing that keeps a request in the slot is its own client, by stalling.
YieldPreempts ==
  \A r \in Callers : pc[r] = "serving" /\ yielding ~> pc[r] # "serving" \/ r \in stalled

\* Every request that arrives is eventually answered or being served, also when another
\* request's upstream call hangs for ever in the slot, or its client stalls: no handler waits,
\* parks or loops for ever (as long as the GPU is not yielded infinitely often).
EveryRequestSettles ==
  \A r \in Callers : pc[r] = "check" ~> pc[r] \in {"serving", "done"}

\* A lane with an upstream bound gets its slot back from a stuck upstream (ADR-0013), unless
\* the handler is blocked on its client, which is outside of the bound.
BoundedReturns ==
  \A r \in Bounded : pc[r] = "serving" ~> acq[r] # "holding" \/ r \in stalled

=============================================================================
