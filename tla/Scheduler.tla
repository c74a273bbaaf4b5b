----------------------------- MODULE Scheduler ------------------------------
(***************************************************************************)
(* internal/queue/scheduler.go: the priority gate over the GPU.            *)
(*                                                                         *)
(* A caller is a goroutine that calls Acquire and Release: a proxied       *)
(* request behind the Gate or the Job worker.  Every critical section of   *)
(* Scheduler.mu is one action; the blocked part of Acquire (the select on  *)
(* its wake channel w and on ctx.Done) is spread over several, because a   *)
(* grant, a cancellation and the waiter's own wake-up interleave there.    *)
(*                                                                         *)
(* acq[c] is where caller c is:                                            *)
(*   "idle"     not in Acquire, owns nothing (or has released)             *)
(*   "waiting"  blocked in the select                                      *)
(*   "ctxDone"  took the ctx.Done branch, removeWaiter not yet run         *)
(*   "handBack" removeWaiter found nothing: about to Release the slot      *)
(*   "holding"  Acquire returned nil                                       *)
(*   "refused"  Acquire returned ErrQueueFull or ctx.Err()                 *)
(***************************************************************************)
EXTENDS Naturals, Sequences, SequencesExt, FiniteSets

CONSTANTS Interactive,   \* callers of class Interactive
          Batch,         \* callers of class Batch
          MaxInflight,   \* Scheduler.maxInflight, after SetMaxInflight
          MaxWaiters     \* Scheduler.maxWaiters, after SetMaxWaiters

Callers == Interactive \cup Batch

\* The setters ignore values below 1, New starts from 1 and 256; a caller has one class.
ASSUME SchedulerAssumption ==
  /\ IsFiniteSet(Callers)
  /\ Interactive \cap Batch = {}
  /\ MaxInflight \in Nat \ {0}
  /\ MaxWaiters \in Nat \ {0}

VARIABLES inflight,            \* slots in use
          wq,                  \* wq["interactive"] is s.iq, wq["batch"] is s.bq
          closed,              \* callers whose wake channel w Release has closed
          interactiveWaiting,  \* the coalesced ping channel holds its one token
          acq                  \* where each caller is, see above

schedVars == <<inflight, wq, closed, interactiveWaiting, acq>>

Classes == {"interactive", "batch"}

Class(c) == IF c \in Interactive THEN "interactive" ELSE "batch"

AcqStates == {"idle", "waiting", "ctxDone", "handBack", "holding", "refused"}

SchedInit ==
  /\ inflight = 0
  /\ wq = [k \in Classes |-> <<>>]
  /\ closed = {}
  /\ interactiveWaiting = FALSE
  /\ acq = [c \in Callers |-> "idle"]

Queued == Range(wq["interactive"]) \cup Range(wq["batch"])

\* Callers the slots in use belong to: those Acquire returned nil to, and those a closed
\* wake channel has made owners before they noticed.
Owners == {c \in Callers : acq[c] = "holding"} \cup closed

-----------------------------------------------------------------------------
(* Helpers, run under s.mu.                                                *)

\* Faulty variant of NextClass: classes served in the wrong order.
NextClassBatchFirst == IF wq["batch"] # <<>> THEN "batch" ELSE "interactive"

\* dequeue: the oldest interactive waiter, else the oldest batch waiter.
NextClass == IF wq["interactive"] # <<>> THEN "interactive" ELSE "batch"

\* Faulty variant of FreeSlot: the slot is given back although somebody waits.
FreeSlotNoHandOver(c) ==
  /\ inflight' = inflight - 1
  /\ closed' = closed \ {c}
  /\ UNCHANGED wq

\* The state change of Release: hand the slot to the next waiter by closing its channel,
\* or give it back.  The caller's own channel, if any, is gone with its Acquire.
FreeSlot(c) ==
  \/ /\ wq[NextClass] # <<>>
     /\ closed' = (closed \ {c}) \cup {Head(wq[NextClass])}
     /\ wq' = [wq EXCEPT ![NextClass] = Tail(@)]
     /\ UNCHANGED inflight
  \/ /\ wq[NextClass] = <<>>
     /\ inflight' = inflight - 1
     /\ closed' = closed \ {c}
     /\ UNCHANGED wq

-----------------------------------------------------------------------------
(* Acquire                                                                 *)

Outside(c) == acq[c] \in {"idle", "refused"}

AcquireFast(c) ==
  /\ Outside(c)
  /\ inflight < MaxInflight
  /\ inflight' = inflight + 1
  /\ acq' = [acq EXCEPT ![c] = "holding"]
  /\ UNCHANGED <<wq, closed, interactiveWaiting>>

AcquireQueueFull(c) ==
  /\ Outside(c)
  /\ inflight >= MaxInflight
  /\ Len(wq[Class(c)]) >= MaxWaiters
  /\ acq' = [acq EXCEPT ![c] = "refused"]
  /\ UNCHANGED <<inflight, wq, closed, interactiveWaiting>>

AcquireEnqueue(c) ==
  /\ Outside(c)
  /\ inflight >= MaxInflight
  /\ Len(wq[Class(c)]) < MaxWaiters
  /\ wq' = [wq EXCEPT ![Class(c)] = Append(@, c)]
  /\ interactiveWaiting' = (interactiveWaiting \/ c \in Interactive)
  /\ acq' = [acq EXCEPT ![c] = "waiting"]
  /\ UNCHANGED <<inflight, closed>>

\* case <-w: the channel is the waiter's own and is never closed again.
AcquireGranted(c) ==
  /\ acq[c] = "waiting"
  /\ c \in closed
  /\ acq' = [acq EXCEPT ![c] = "holding"]
  /\ closed' = closed \ {c}
  /\ UNCHANGED <<inflight, wq, interactiveWaiting>>

\* case <-ctx.Done(): select may take it even when w is closed as well.
AcquireCtxDone(c) ==
  /\ acq[c] = "waiting"
  /\ acq' = [acq EXCEPT ![c] = "ctxDone"]
  /\ UNCHANGED <<inflight, wq, closed, interactiveWaiting>>

\* Faulty variant of AcquireRemoveWaiter: the waiter leaves its queue entry behind.
AcquireGhostWaiter(c) ==
  /\ acq[c] = "ctxDone"
  /\ c \in Range(wq[Class(c)])
  /\ acq' = [acq EXCEPT ![c] = "refused"]
  /\ UNCHANGED <<inflight, wq, closed, interactiveWaiting>>

\* removeWaiter finds the channel: it was never granted.
AcquireRemoveWaiter(c) ==
  /\ acq[c] = "ctxDone"
  /\ \E i \in DOMAIN wq[Class(c)] :
       /\ wq[Class(c)][i] = c
       /\ wq' = [wq EXCEPT ![Class(c)] = RemoveAt(@, i)]
  /\ acq' = [acq EXCEPT ![c] = "refused"]
  /\ UNCHANGED <<inflight, closed, interactiveWaiting>>

\* Faulty variant of AcquireNotQueued: returns ctx.Err() without handing the slot on.
AcquireLeaksGrant(c) ==
  /\ acq[c] = "ctxDone"
  /\ c \notin Range(wq[Class(c)])
  /\ acq' = [acq EXCEPT ![c] = "refused"]
  /\ closed' = closed \ {c}
  /\ UNCHANGED <<inflight, wq, interactiveWaiting>>

\* removeWaiter finds nothing: Release has granted the slot in the meantime.
AcquireNotQueued(c) ==
  /\ acq[c] = "ctxDone"
  /\ c \notin Range(wq[Class(c)])
  /\ acq' = [acq EXCEPT ![c] = "handBack"]
  /\ UNCHANGED <<inflight, wq, closed, interactiveWaiting>>

\* The Release on that path, a critical section of its own.
AcquireHandBack(c) ==
  /\ acq[c] = "handBack"
  /\ FreeSlot(c)
  /\ acq' = [acq EXCEPT ![c] = "refused"]
  /\ UNCHANGED interactiveWaiting

-----------------------------------------------------------------------------
(* Release by a holder, and the receive end of InteractiveWaiting.         *)

\* Faulty variant of Release: also called after an Acquire that failed.
ReleaseAfterRefusal(c) ==
  /\ acq[c] \in {"holding", "refused"}
  /\ FreeSlot(c)
  /\ acq' = [acq EXCEPT ![c] = "idle"]
  /\ UNCHANGED interactiveWaiting

Release(c) ==
  /\ acq[c] = "holding"
  /\ FreeSlot(c)
  /\ acq' = [acq EXCEPT ![c] = "idle"]
  /\ UNCHANGED interactiveWaiting

ReceivePing ==
  /\ interactiveWaiting
  /\ interactiveWaiting' = FALSE
  /\ UNCHANGED <<inflight, wq, closed, acq>>

\* The steps a blocked caller takes by itself, without its context ending first.
AcquireStep(c) ==
  \/ AcquireGranted(c)
  \/ AcquireRemoveWaiter(c)
  \/ AcquireNotQueued(c)
  \/ AcquireHandBack(c)

SchedNext ==
  \/ \E c \in Callers :
       \/ AcquireFast(c)
       \/ AcquireQueueFull(c)
       \/ AcquireEnqueue(c)
       \/ AcquireCtxDone(c)
       \/ AcquireStep(c)
       \/ Release(c)
  \/ ReceivePing

SchedSpec == SchedInit /\ [][SchedNext]_schedVars

\* A goroutine inside Acquire is scheduled again, and a holder's upstream call ends.
SchedFairness ==
  \A c \in Callers : WF_schedVars(AcquireStep(c)) /\ WF_schedVars(Release(c))

FairSchedSpec == SchedSpec /\ SchedFairness

-----------------------------------------------------------------------------
(* Properties                                                              *)

\* The values the Scheduler's fields and the callers of Acquire can take; a Release without a
\* slot would take inflight below zero.
SchedTypeOK ==
  /\ inflight \in Nat
  /\ wq \in [Classes -> Seq(Callers)]
  /\ closed \subseteq Callers
  /\ interactiveWaiting \in BOOLEAN
  /\ acq \in [Callers -> AcqStates]

\* inflight counts exactly the owners of slots and never exceeds MaxInflight: no grant,
\* cancellation or race between the two leaks a slot or makes one out of nothing.
SlotAccounting ==
  /\ inflight = Cardinality(Owners)
  /\ inflight <= MaxInflight

\* Nobody waits while a slot is free (so the fast path of Acquire cannot overtake a waiter).
NoIdleSlot == inflight < MaxInflight => Queued = {}

\* Each queue holds, once each, the callers of its class that are blocked in Acquire and
\* have not been granted a slot, and never more of them than the waiter cap: a caller that
\* gave up leaves no entry behind for Release to grant a slot to.
QueueExact ==
  /\ \A k \in Classes :
       /\ Len(wq[k]) <= MaxWaiters
       /\ IsInjective(wq[k])
       /\ \A c \in Range(wq[k]) : Class(c) = k
  /\ \A c \in Queued : acq[c] \in {"waiting", "ctxDone"} /\ c \notin closed
  /\ \A c \in Callers : acq[c] \in {"waiting", "ctxDone"} => c \in Queued \cup closed
  /\ \A c \in closed : acq[c] \in {"waiting", "ctxDone", "handBack"}
  /\ \A c \in Callers : acq[c] = "handBack" => c \in closed

\* a is to be served before b: Interactive before Batch, first come first served within one.
Ahead(a, b) ==
  \/ Class(a) = "interactive" /\ Class(b) = "batch"
  \/ \E k \in Classes : \E i, j \in DOMAIN wq[k] :
       i < j /\ wq[k][i] = a /\ wq[k][j] = b

\* A caller becomes owner of a slot only past waiters that are behind it in the queues: an
\* arrival never barges in, Batch never passes Interactive, and each class is FIFO.
NoOvertaking ==
  [][\A b \in Owners' \ Owners : \A a \in Queued \cap Queued' :
       b \in Queued /\ ~Ahead(a, b)]_schedVars

\* An Interactive caller blocked in Acquire is eventually granted a slot or gives up, as long
\* as holders release theirs, whatever the cancellations around it.
InteractiveServed ==
  \A c \in Interactive : acq[c] = "waiting" ~> acq[c] # "waiting"

\* The Scheduler implements the abstract slot pool.
Pool == INSTANCE SlotPool WITH owners <- Owners, waiting <- Queued
ImplementsPool == Pool!PoolSpec

=============================================================================
