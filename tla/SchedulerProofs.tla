-------------------------- MODULE SchedulerProofs ---------------------------
(***************************************************************************)
(* The Scheduler's safety properties for any finite set of callers, any    *)
(* number of slots and any waiter cap.  The inductive invariant is the     *)
(* conjunction of the four invariants the runs check: the slot count is    *)
(* only right because each queue entry belongs to a caller that is still   *)
(* blocked, and no caller overtakes a waiter only because a free slot      *)
(* implies empty queues.                                                   *)
(***************************************************************************)
EXTENDS Scheduler, QueueLemmas, FiniteSetTheorems, TLAPS

SchedInv ==
  /\ SchedTypeOK
  /\ SlotAccounting
  /\ NoIdleSlot
  /\ QueueExact

\* Owners is a finite set, so its cardinality is a natural number.
LEMMA OwnersFinite ==
  ASSUME SchedTypeOK
  PROVE  /\ Owners \subseteq Callers
         /\ IsFiniteSet(Owners)
         /\ Cardinality(Owners) \in Nat
  <1>1. Owners \subseteq Callers
    BY DEF SchedTypeOK, Owners
  <1>2. IsFiniteSet(Owners)
    BY <1>1, SchedulerAssumption, FS_Subset
  <1> QED BY <1>1, <1>2, FS_CardinalityType

LEMMA ClassType == \A c : Class(c) \in Classes
  BY DEF Class, Classes

LEMMA NextClassType == NextClass \in Classes
  BY DEF NextClass, Classes

\* The queue of NextClass is empty only if both are.
LEMMA NextClassEmpty ==
  ASSUME SchedTypeOK, wq[NextClass] = <<>>
  PROVE  Queued = {}
  <1>1. wq["interactive"] = <<>> /\ wq["batch"] = <<>>
    BY DEF NextClass
  <1> QED BY <1>1, QueueMembers DEF Queued, SchedTypeOK, Classes

LEMMA InitInv ==
  ASSUME SchedInit
  PROVE  SchedInv /\ Owners = {} /\ Queued = {}
  <1>1. SchedTypeOK
    <2>1. <<>> \in Seq(Callers)
      OBVIOUS
    <2>2. wq \in [Classes -> Seq(Callers)]
      BY <2>1 DEF SchedInit
    <2>3. acq \in [Callers -> AcqStates]
      BY DEF SchedInit, AcqStates
    <2> QED BY <2>2, <2>3 DEF SchedInit, SchedTypeOK
  <1>2. Owners = {} /\ Queued = {}
    <2>1. Range(<<>>) = {}
      BY DEF Range
    <2>2. wq["interactive"] = <<>> /\ wq["batch"] = <<>>
      BY DEF SchedInit, Classes
    <2> QED BY <2>1, <2>2 DEF SchedInit, Owners, Queued
  <1>3. SlotAccounting /\ NoIdleSlot
    BY <1>2, FS_EmptySet, SchedulerAssumption DEF SchedInit, SlotAccounting, NoIdleSlot
  <1>4. QueueExact
    <2>1. \A k \in Classes : Len(wq[k]) = 0 /\ DOMAIN wq[k] = {}
      BY DEF SchedInit
    <2>2. \A k \in Classes : Len(wq[k]) <= MaxWaiters /\ IsInjective(wq[k])
                             /\ \A c \in Range(wq[k]) : Class(c) = k
      BY <2>1, SchedulerAssumption DEF IsInjective, Range
    <2> QED BY <1>2, <2>2 DEF SchedInit, QueueExact
  <1> QED BY <1>1, <1>2, <1>3, <1>4 DEF SchedInv

-----------------------------------------------------------------------------
(* One lemma per action: it preserves the invariant, and this is what it   *)
(* does to the owners and to the waiters.                                  *)

LEMMA FastInv ==
  ASSUME SchedInv, NEW c \in Callers, AcquireFast(c)
  PROVE  /\ SchedInv'
         /\ c \notin Owners /\ Queued = {} /\ Cardinality(Owners) < MaxInflight
         /\ Owners' = Owners \cup {c} /\ Queued' = Queued
  <1> USE DEF SchedInv
  <1>1. SchedTypeOK'
    BY DEF AcquireFast, SchedTypeOK, AcqStates
  <1>2. c \notin Owners
    BY DEF AcquireFast, Outside, Owners, QueueExact
  <1>3. Owners' = Owners \cup {c}
    BY DEF AcquireFast, Owners, SchedTypeOK
  <1>4. Cardinality(Owners') = Cardinality(Owners) + 1
    BY <1>2, <1>3, OwnersFinite, FS_AddElement
  <1>5. SlotAccounting'
    BY <1>4, OwnersFinite, SchedulerAssumption DEF SlotAccounting, AcquireFast, SchedTypeOK
  <1>6. Queued = {} /\ Queued' = Queued
    BY DEF NoIdleSlot, Queued, AcquireFast
  <1>7. NoIdleSlot'
    BY <1>6 DEF NoIdleSlot
  <1>8. QueueExact'
    BY <1>6 DEF QueueExact, AcquireFast, SchedTypeOK, Outside
  <1>9. Cardinality(Owners) < MaxInflight
    BY DEF SlotAccounting, AcquireFast
  <1> QED BY <1>1, <1>2, <1>3, <1>5, <1>6, <1>7, <1>8, <1>9

LEMMA FullInv ==
  ASSUME SchedInv, NEW c \in Callers, AcquireQueueFull(c)
  PROVE  SchedInv' /\ Owners' = Owners /\ Queued' = Queued
  <1> USE DEF SchedInv
  <1>1. SchedTypeOK'
    BY DEF AcquireQueueFull, SchedTypeOK, AcqStates
  <1>2. Owners' = Owners /\ Queued' = Queued
    BY DEF AcquireQueueFull, Owners, Queued, SchedTypeOK, Outside
  <1>3. SlotAccounting' /\ NoIdleSlot'
    BY <1>2 DEF SlotAccounting, NoIdleSlot, AcquireQueueFull
  <1>4. QueueExact'
    BY <1>2 DEF QueueExact, AcquireQueueFull, SchedTypeOK, Outside
  <1> QED BY <1>1, <1>2, <1>3, <1>4

LEMMA EnqueueInv ==
  ASSUME SchedInv, NEW c \in Callers, AcquireEnqueue(c)
  PROVE  /\ SchedInv'
         /\ c \notin Owners \cup Queued /\ Cardinality(Owners) = MaxInflight
         /\ Owners' = Owners /\ Queued' = Queued \cup {c}
  <1> USE DEF SchedInv
  <1> DEFINE k == Class(c)
  <1>0. k \in Classes /\ wq[k] \in Seq(Callers) /\ IsInjective(wq[k])
    BY ClassType DEF SchedTypeOK, QueueExact
  <1>1. c \notin Queued /\ c \notin closed
    BY DEF QueueExact, AcquireEnqueue, Outside
  <1>2. c \notin Range(wq[k])
    BY <1>0, <1>1 DEF Queued, Classes
  <1>3. /\ wq'[k] = Append(wq[k], c)
        /\ \A j \in Classes : j # k => wq'[j] = wq[j]
    BY <1>0 DEF AcquireEnqueue, SchedTypeOK
  <1>4. /\ wq'[k] \in Seq(Callers)
        /\ Len(wq'[k]) = Len(wq[k]) + 1
        /\ IsInjective(wq'[k])
        /\ Range(wq'[k]) = Range(wq[k]) \cup {c}
    BY <1>0, <1>2, <1>3, AppendQueue
  <1>5. SchedTypeOK'
    BY <1>0, <1>4 DEF AcquireEnqueue, SchedTypeOK, AcqStates
  <1>6. Owners' = Owners /\ Queued' = Queued \cup {c}
    <2>1. Owners' = Owners
      BY DEF AcquireEnqueue, Owners, SchedTypeOK, Outside
    <2>2. Queued' = Queued \cup {c}
      BY <1>0, <1>3, <1>4 DEF Queued, Classes
    <2> QED BY <2>1, <2>2
  <1>7. SlotAccounting' /\ NoIdleSlot'
    BY <1>6, SchedulerAssumption DEF SlotAccounting, NoIdleSlot, AcquireEnqueue, SchedTypeOK
  <1>8. \A j \in Classes : /\ Len(wq'[j]) <= MaxWaiters
                           /\ IsInjective(wq'[j])
                           /\ \A d \in Range(wq'[j]) : Class(d) = j
    <2> SUFFICES ASSUME NEW j \in Classes
                 PROVE  /\ Len(wq'[j]) <= MaxWaiters
                        /\ IsInjective(wq'[j])
                        /\ \A d \in Range(wq'[j]) : Class(d) = j
      OBVIOUS
    <2>1. CASE j = k
      <3>1. Len(wq[k]) < MaxWaiters /\ Len(wq[k]) \in Nat
        BY <1>0 DEF AcquireEnqueue
      <3>2. Len(wq'[k]) <= MaxWaiters
        BY <3>1, <1>4, SchedulerAssumption
      <3> QED BY <2>1, <3>2, <1>4, <1>0 DEF QueueExact
    <2>2. CASE j # k
      BY <2>2, <1>3 DEF QueueExact
    <2> QED BY <2>1, <2>2
  <1>9. acq' = [acq EXCEPT ![c] = "waiting"] /\ closed' = closed
    BY DEF AcquireEnqueue
  <1>10. QueueExact'
    BY <1>1, <1>6, <1>8, <1>9 DEF QueueExact, SchedTypeOK
  <1>11. c \notin Owners /\ Cardinality(Owners) = MaxInflight
    BY <1>1, OwnersFinite, SchedulerAssumption
    DEF AcquireEnqueue, Outside, Owners, SlotAccounting, SchedTypeOK
  <1> QED BY <1>1, <1>5, <1>6, <1>7, <1>10, <1>11

LEMMA GrantedInv ==
  ASSUME SchedInv, NEW c \in Callers, AcquireGranted(c)
  PROVE  SchedInv' /\ Owners' = Owners /\ Queued' = Queued
  <1> USE DEF SchedInv
  <1>1. SchedTypeOK'
    BY DEF AcquireGranted, SchedTypeOK, AcqStates
  <1>2. Owners' = Owners /\ Queued' = Queued
    BY DEF AcquireGranted, Owners, Queued, SchedTypeOK
  <1>3. SlotAccounting' /\ NoIdleSlot'
    BY <1>2 DEF SlotAccounting, NoIdleSlot, AcquireGranted
  <1>4. QueueExact'
    BY <1>2 DEF QueueExact, AcquireGranted, SchedTypeOK
  <1> QED BY <1>1, <1>2, <1>3, <1>4

LEMMA CtxDoneInv ==
  ASSUME SchedInv, NEW c \in Callers, AcquireCtxDone(c)
  PROVE  SchedInv' /\ Owners' = Owners /\ Queued' = Queued
  <1> USE DEF SchedInv
  <1>1. SchedTypeOK'
    BY DEF AcquireCtxDone, SchedTypeOK, AcqStates
  <1>2. Owners' = Owners /\ Queued' = Queued
    BY DEF AcquireCtxDone, Owners, Queued, SchedTypeOK
  <1>3. SlotAccounting' /\ NoIdleSlot'
    BY <1>2 DEF SlotAccounting, NoIdleSlot, AcquireCtxDone
  <1>4. QueueExact'
    BY <1>2 DEF QueueExact, AcquireCtxDone, SchedTypeOK
  <1> QED BY <1>1, <1>2, <1>3, <1>4

LEMMA RemoveWaiterInv ==
  ASSUME SchedInv, NEW c \in Callers, AcquireRemoveWaiter(c)
  PROVE  SchedInv' /\ c \in Queued /\ Owners' = Owners /\ Queued' = Queued \ {c}
  <1> USE DEF SchedInv
  <1> DEFINE k == Class(c)
  <1>0. k \in Classes /\ wq[k] \in Seq(Callers) /\ IsInjective(wq[k])
    BY ClassType DEF SchedTypeOK, QueueExact
  <1>1. PICK i \in 1..Len(wq[k]) : wq[k][i] = c /\ wq' = [wq EXCEPT ![k] = RemoveAt(@, i)]
    <2>1. DOMAIN wq[k] = 1..Len(wq[k])
      BY <1>0
    <2> QED BY <2>1, Zenon DEF AcquireRemoveWaiter
  <1>2. /\ wq'[k] = RemoveAt(wq[k], i)
        /\ \A j \in Classes : j # k => wq'[j] = wq[j]
    BY <1>0, <1>1 DEF SchedTypeOK
  <1>3. /\ wq'[k] \in Seq(Callers)
        /\ Len(wq'[k]) = Len(wq[k]) - 1
        /\ IsInjective(wq'[k])
        /\ Range(wq'[k]) = Range(wq[k]) \ {c}
    <2> DEFINE q == wq[k]
    <2>1. q \in Seq(Callers) /\ IsInjective(q) /\ i \in 1..Len(q) /\ q[i] = c
      BY <1>0, <1>1
    <2> HIDE DEF q, k
    <2>2. /\ RemoveAt(q, i) \in Seq(Callers)
          /\ Len(RemoveAt(q, i)) = Len(q) - 1
          /\ IsInjective(RemoveAt(q, i))
          /\ Range(RemoveAt(q, i)) = Range(q) \ {c}
      BY <2>1, RemoveAtQueue
    <2> QED BY <1>2, <2>2, Zenon DEF q
  <1>4. c \in Range(wq[k])
    BY <1>0, <1>1, QueueMembers
  <1>5. SchedTypeOK'
    BY <1>0, <1>1, <1>3 DEF AcquireRemoveWaiter, SchedTypeOK, AcqStates
  <1>6. Owners' = Owners
    BY DEF AcquireRemoveWaiter, Owners, SchedTypeOK
  <1>7. Queued' = Queued \ {c}
    <2>1. \A j \in Classes : j # k => c \notin Range(wq[j])
      BY DEF QueueExact
    <2> QED BY <1>0, <1>2, <1>3, <2>1 DEF Queued, Classes
  <1>8. SlotAccounting' /\ NoIdleSlot'
    BY <1>6, <1>7 DEF SlotAccounting, NoIdleSlot, AcquireRemoveWaiter
  <1>9. \A j \in Classes : /\ Len(wq'[j]) <= MaxWaiters
                           /\ IsInjective(wq'[j])
                           /\ \A d \in Range(wq'[j]) : Class(d) = j
    <2>1. Len(wq'[k]) <= MaxWaiters
      <3>1. Len(wq[k]) <= MaxWaiters /\ Len(wq[k]) \in Nat
        BY <1>0 DEF QueueExact
      <3> QED BY <3>1, <1>3, SchedulerAssumption
    <2> QED BY <1>0, <1>2, <1>3, <2>1 DEF QueueExact
  <1>10. acq' = [acq EXCEPT ![c] = "refused"] /\ closed' = closed
    BY DEF AcquireRemoveWaiter
  <1>11. c \in Queued /\ c \notin closed
    BY <1>0, <1>4 DEF Queued, Classes, QueueExact
  <1>12. QueueExact'
    BY <1>7, <1>9, <1>10, <1>11 DEF QueueExact, SchedTypeOK
  <1> QED BY <1>5, <1>6, <1>7, <1>8, <1>11, <1>12

LEMMA NotQueuedInv ==
  ASSUME SchedInv, NEW c \in Callers, AcquireNotQueued(c)
  PROVE  SchedInv' /\ Owners' = Owners /\ Queued' = Queued
  <1> USE DEF SchedInv
  <1>1. SchedTypeOK'
    BY DEF AcquireNotQueued, SchedTypeOK, AcqStates
  <1>2. Owners' = Owners /\ Queued' = Queued
    BY DEF AcquireNotQueued, Owners, Queued, SchedTypeOK
  <1>3. SlotAccounting' /\ NoIdleSlot'
    BY <1>2 DEF SlotAccounting, NoIdleSlot, AcquireNotQueued
  <1>4. c \notin Queued
    <2>1. \A j \in Classes : j # Class(c) => c \notin Range(wq[j])
      BY DEF QueueExact
    <2> QED BY <2>1 DEF AcquireNotQueued, Queued, Classes
  <1>5. QueueExact'
    BY <1>2, <1>4 DEF QueueExact, AcquireNotQueued, SchedTypeOK
  <1> QED BY <1>1, <1>2, <1>3, <1>5

\* Release and the hand-back inside Acquire make the same change.
LEMMA FreeSlotInv ==
  ASSUME SchedInv, NEW c \in Callers, acq[c] \in {"holding", "handBack"},
         FreeSlot(c), NEW v \in {"idle", "refused"}, acq' = [acq EXCEPT ![c] = v],
         UNCHANGED interactiveWaiting
  PROVE  /\ SchedInv'
         /\ c \in Owners
         /\ \/ Queued = {} /\ Owners' = Owners \ {c} /\ Queued' = Queued
            \/ /\ wq[NextClass] # <<>>
               /\ Head(wq[NextClass]) \in Queued \ Owners
               /\ Owners' = (Owners \ {c}) \cup {Head(wq[NextClass])}
               /\ Queued' = Queued \ {Head(wq[NextClass])}
  <1> USE DEF SchedInv
  <1> DEFINE k == NextClass
  <1>0. k \in Classes /\ wq[k] \in Seq(Callers) /\ IsInjective(wq[k])
    BY NextClassType DEF SchedTypeOK, QueueExact
  <1> HIDE DEF k
  <1>1. c \in Owners /\ c \notin Queued
    BY DEF Owners, QueueExact
  <1>2. CASE wq[k] # <<>>
    <2> DEFINE h == Head(wq[k])
    <2>1. /\ closed' = (closed \ {c}) \cup {h}
          /\ wq' = [wq EXCEPT ![k] = Tail(@)]
          /\ inflight' = inflight
      BY <1>2 DEF FreeSlot, k
    <2>2. wq'[k] = Tail(wq[k]) /\ \A j \in Classes : j # k => wq'[j] = wq[j]
      BY <1>0, <2>1 DEF SchedTypeOK
    <2>3. /\ wq'[k] \in Seq(Callers)
          /\ Len(wq'[k]) = Len(wq[k]) - 1
          /\ IsInjective(wq'[k])
          /\ h \in Range(wq[k])
          /\ Range(wq'[k]) = Range(wq[k]) \ {h}
      BY <1>0, <1>2, <2>2, TailQueue
    <2> HIDE DEF h
    <2>4. h \in Queued /\ h # c /\ h \in Callers
      BY <1>0, <1>1, <2>3, QueueMembers DEF Queued, Classes
    <2>5. h \notin Owners
      BY <2>4 DEF QueueExact, Owners
    <2>6. SchedTypeOK'
      BY <1>0, <2>1, <2>3, <2>4 DEF SchedTypeOK, AcqStates
    <2>7. Owners' = (Owners \ {c}) \cup {h}
      BY <1>1, <2>1, <2>4 DEF Owners, SchedTypeOK, QueueExact
    <2>8. Cardinality(Owners') = Cardinality(Owners)
      <3>1. /\ IsFiniteSet(Owners \ {c})
            /\ Cardinality(Owners \ {c}) = Cardinality(Owners) - 1
        BY <1>1, OwnersFinite, FS_RemoveElement
      <3>2. Cardinality(Owners') = Cardinality(Owners \ {c}) + 1
        BY <2>5, <2>7, <3>1, FS_AddElement
      <3> QED BY <3>1, <3>2, OwnersFinite
    <2>9. Queued' = Queued \ {h}
      <3>1. \A j \in Classes : j # k => h \notin Range(wq[j])
        BY <1>0, <2>3 DEF QueueExact
      <3> QED BY <1>0, <2>2, <2>3, <3>1 DEF Queued, Classes
    <2>10. SlotAccounting' /\ NoIdleSlot'
      BY <2>1, <2>8, <2>9 DEF SlotAccounting, NoIdleSlot
    <2>11. \A j \in Classes : /\ Len(wq'[j]) <= MaxWaiters
                              /\ IsInjective(wq'[j])
                              /\ \A d \in Range(wq'[j]) : Class(d) = j
      <3>1. Len(wq'[k]) <= MaxWaiters
        <4>1. Len(wq[k]) <= MaxWaiters /\ Len(wq[k]) \in Nat
          BY <1>0 DEF QueueExact
        <4> QED BY <4>1, <2>3, SchedulerAssumption
      <3> QED BY <1>0, <2>2, <2>3, <3>1 DEF QueueExact
    <2>12. QueueExact'
      BY <1>1, <2>1, <2>4, <2>9, <2>11 DEF QueueExact, SchedTypeOK
    <2> QED BY <1>1, <1>2, <2>4, <2>5, <2>6, <2>7, <2>9, <2>10, <2>12 DEF k, h
  <1>3. CASE wq[k] = <<>>
    <2>1. closed' = closed \ {c} /\ wq' = wq /\ inflight' = inflight - 1
      BY <1>3 DEF FreeSlot, k
    <2>2. Queued = {} /\ Queued' = {}
      BY <1>3, <2>1, NextClassEmpty DEF k, Queued
    <2>3. Owners' = Owners \ {c}
      BY <2>1 DEF Owners, SchedTypeOK, QueueExact
    <2>4. Cardinality(Owners') = Cardinality(Owners) - 1
      BY <1>1, <2>3, OwnersFinite, FS_RemoveElement
    <2>5. Cardinality(Owners) # 0
      BY <1>1, OwnersFinite, FS_EmptySet
    <2>6. inflight' \in Nat
      BY <2>1, <2>5, OwnersFinite DEF SlotAccounting, SchedTypeOK
    <2>7. SchedTypeOK'
      BY <2>1, <2>6 DEF SchedTypeOK, AcqStates
    <2>8. SlotAccounting' /\ NoIdleSlot'
      BY <2>1, <2>2, <2>4, OwnersFinite, SchedulerAssumption
      DEF SlotAccounting, NoIdleSlot, SchedTypeOK
    <2>9. QueueExact'
      BY <2>1, <2>2 DEF QueueExact, SchedTypeOK
    <2> QED BY <1>1, <2>2, <2>3, <2>7, <2>8, <2>9
  <1> QED BY <1>2, <1>3

LEMMA StepInv == SchedInv /\ [SchedNext]_schedVars => SchedInv'
  <1> SUFFICES ASSUME SchedInv, [SchedNext]_schedVars PROVE SchedInv'
    OBVIOUS
  <1>1. ASSUME NEW c \in Callers, Release(c) PROVE SchedInv'
    BY <1>1, FreeSlotInv DEF Release
  <1>2. ASSUME NEW c \in Callers, AcquireHandBack(c) PROVE SchedInv'
    BY <1>2, FreeSlotInv DEF AcquireHandBack
  <1>3. CASE ReceivePing
    <2>1. Owners' = Owners /\ Queued' = Queued
      BY <1>3 DEF ReceivePing, Owners, Queued
    <2> QED BY <1>3, <2>1 DEF ReceivePing, SchedInv, SchedTypeOK, SlotAccounting,
                              NoIdleSlot, QueueExact
  <1>4. CASE UNCHANGED schedVars
    <2>1. Owners' = Owners /\ Queued' = Queued
      BY <1>4 DEF schedVars, Owners, Queued
    <2> QED BY <1>4, <2>1 DEF schedVars, SchedInv, SchedTypeOK, SlotAccounting,
                              NoIdleSlot, QueueExact
  <1> QED BY <1>1, <1>2, <1>3, <1>4, FastInv, FullInv, EnqueueInv, GrantedInv, CtxDoneInv,
             RemoveWaiterInv, NotQueuedInv
          DEF SchedNext, AcquireStep

-----------------------------------------------------------------------------

\* Every reachable state of the Scheduler is type-correct, counts its slots exactly, wastes
\* no slot while somebody waits, and queues exactly the blocked callers.
THEOREM SchedulerSafe == SchedSpec => []SchedInv
  <1>1. SchedInit => SchedInv
    BY InitInv
  <1>2. SchedInv /\ [SchedNext]_schedVars => SchedInv'
    BY StepInv
  <1> QED BY <1>1, <1>2, PTL DEF SchedSpec

\* inflight is the number of slot owners and at most MaxInflight, whatever races between
\* Release, a waiter's cancellation and its wake-up (Acquire and Release).
THEOREM SlotsAccounted == SchedSpec => []SlotAccounting
  <1>1. SchedInv => SlotAccounting
    BY DEF SchedInv
  <1> QED BY <1>1, SchedulerSafe, PTL

\* The fields keep their types; in particular no sequence of Acquires, cancellations and
\* Releases takes inflight below zero.
THEOREM SchedulerTyped == SchedSpec => []SchedTypeOK
  <1>1. SchedInv => SchedTypeOK
    BY DEF SchedInv
  <1> QED BY <1>1, SchedulerSafe, PTL

\* Release hands a slot on or frees it, and a waiter that gives up hands its slot back, so no
\* slot is ever idle while a caller is queued.
THEOREM NoSlotIdles == SchedSpec => []NoIdleSlot
  <1>1. SchedInv => NoIdleSlot
    BY DEF SchedInv
  <1> QED BY <1>1, SchedulerSafe, PTL

\* The two queues are exactly the callers blocked in Acquire and not granted, within the
\* waiter cap: removeWaiter leaves no ghost entry and dequeue loses no waiter.
THEOREM QueuesExact == SchedSpec => []QueueExact
  <1>1. SchedInv => QueueExact
    BY DEF SchedInv
  <1> QED BY <1>1, SchedulerSafe, PTL

-----------------------------------------------------------------------------
(* The order of grants, and the implementation of the slot pool.           *)

\* Nobody in the queues is ahead of the waiter Release dequeues.
LEMMA NextIsFirst ==
  ASSUME SchedInv, wq[NextClass] # <<>>, NEW a \in Queued
  PROVE  /\ ~Ahead(a, Head(wq[NextClass]))
         /\ Head(wq[NextClass]) \in Batch => a \notin Interactive
  <1> DEFINE k == NextClass
             h == Head(wq[k])
  <1>0. /\ \A j \in Classes : wq[j] \in Seq(Callers) /\ IsInjective(wq[j])
        /\ k \in Classes
    BY NextClassType DEF SchedInv, SchedTypeOK, QueueExact
  <1>1. h = wq[k][1] /\ h \in Range(wq[k]) /\ 1 \in DOMAIN wq[k]
    <2>1. h = wq[k][1] /\ h \in Range(wq[k])
      BY <1>0, TailQueue
    <2>2. 1 \in DOMAIN wq[k]
      BY <1>0
    <2> QED BY <2>1, <2>2
  <1>2. Class(h) = k
    BY <1>0, <1>1 DEF SchedInv, QueueExact
  <1>3. ASSUME k = "batch" PROVE Class(a) = "batch"
    <2>1. wq["interactive"] = <<>>
      BY <1>3 DEF NextClass
    <2>2. Range(wq["interactive"]) = {}
      BY <1>0, <2>1, QueueMembers DEF Classes
    <2>3. a \in Range(wq["batch"])
      BY <2>2 DEF Queued
    <2> QED BY <2>3 DEF SchedInv, QueueExact, Classes
  <1> HIDE DEF k, h
  <1>4. ASSUME NEW j \in Classes, NEW m \in DOMAIN wq[j], NEW n \in DOMAIN wq[j],
               m < n, wq[j][n] = h
        PROVE  FALSE
    <2>1. h \in Range(wq[j])
      BY <1>4 DEF Range
    <2>2. j = k
      BY <1>2, <2>1 DEF SchedInv, QueueExact
    <2>3. n = 1
      BY <1>0, <1>1, <1>4, <2>2 DEF IsInjective
    <2>4. m \in Nat \ {0}
      BY <1>0
    <2> QED BY <1>4, <2>3, <2>4
  <1>5. ~(Class(a) = "interactive" /\ Class(h) = "batch")
    BY <1>2, <1>3
  <1>6. ~Ahead(a, h)
    BY <1>4, <1>5 DEF Ahead
  <1>7. ASSUME h \in Batch PROVE a \notin Interactive
    <2>1. k = "batch"
      BY <1>2, <1>7, SchedulerAssumption DEF Class
    <2> QED BY <1>3, <2>1 DEF Class
  <1> QED BY <1>6, <1>7 DEF k, h

\* A slot never passes over a waiter that should have had it: no barging by arrivals, no
\* Batch before Interactive, first come first served within a class (Release, dequeue).
THEOREM GrantsInOrder == SchedSpec => NoOvertaking
  <1> DEFINE InOrder == \A b \in Owners' \ Owners : \A a \in Queued \cap Queued' :
                          b \in Queued /\ ~Ahead(a, b)
  <1>1. ASSUME SchedInv, SchedNext PROVE InOrder
    <2>1. ASSUME NEW c \in Callers, FreeSlot(c), acq[c] \in {"holding", "handBack"},
                 NEW v \in {"idle", "refused"}, acq' = [acq EXCEPT ![c] = v],
                 UNCHANGED interactiveWaiting
          PROVE  InOrder
      BY <1>1, <2>1, FreeSlotInv, NextIsFirst
    <2>2. ASSUME NEW c \in Callers, Release(c) PROVE InOrder
      BY <2>1, <2>2 DEF Release
    <2>3. ASSUME NEW c \in Callers, AcquireHandBack(c) PROVE InOrder
      BY <2>1, <2>3 DEF AcquireHandBack
    <2>4. ASSUME NEW c \in Callers, AcquireFast(c) PROVE InOrder
      BY <1>1, <2>4, FastInv
    <2>5. CASE ReceivePing
      BY <2>5 DEF ReceivePing, Owners
    <2> HIDE DEF InOrder
    <2>6. ASSUME Owners' = Owners PROVE InOrder
      BY <2>6 DEF InOrder
    <2> QED BY <1>1, <2>2, <2>3, <2>4, <2>5, <2>6, FullInv, EnqueueInv, GrantedInv,
               CtxDoneInv, RemoveWaiterInv, NotQueuedInv
            DEF SchedNext, AcquireStep
  <1>2. SchedInv /\ [SchedNext]_schedVars => [InOrder]_schedVars
    BY <1>1
  <1> QED BY <1>2, SchedulerSafe, PTL DEF SchedSpec, NoOvertaking

\* The pool's Cardinality is the one of FiniteSets.
LEMMA PoolCardinality == \A S : Pool!Cardinality(S) = Cardinality(S)
  BY DEF Pool!Cardinality, Cardinality

\* Each step of the Scheduler is a step of the slot pool or leaves owners and waiters alone.
LEMMA PoolStep ==
  ASSUME SchedInv, [SchedNext]_schedVars
  PROVE  [Pool!PoolNext]_Pool!poolVars
  <1> USE DEF Pool!PoolNext, Pool!poolVars, Callers
  <1>1. ASSUME NEW c \in Callers, AcquireFast(c) PROVE Pool!PoolNext
    BY <1>1, FastInv, PoolCardinality DEF Pool!Take
  <1>2. ASSUME NEW c \in Callers, AcquireEnqueue(c) PROVE Pool!PoolNext
    BY <1>2, EnqueueInv, PoolCardinality DEF Pool!Block
  <1>3. ASSUME NEW c \in Callers, AcquireRemoveWaiter(c) PROVE Pool!PoolNext
    BY <1>3, RemoveWaiterInv DEF Pool!GiveUp
  <1>4. ASSUME NEW c \in Callers, FreeSlot(c), acq[c] \in {"holding", "handBack"},
               NEW v \in {"idle", "refused"}, acq' = [acq EXCEPT ![c] = v],
               UNCHANGED interactiveWaiting
        PROVE  Pool!PoolNext
    <2> DEFINE h == Head(wq[NextClass])
    <2>1. CASE Queued = {} /\ Owners' = Owners \ {c} /\ Queued' = Queued
      BY <1>4, <2>1, FreeSlotInv DEF Pool!Free
    <2>2. CASE /\ wq[NextClass] # <<>>
               /\ h \in Queued \ Owners
               /\ Owners' = (Owners \ {c}) \cup {h}
               /\ Queued' = Queued \ {h}
      <3>1. h \in Batch => Queued \cap Interactive = {}
        BY <2>2, NextIsFirst
      <3>2. c \in Owners
        BY <1>4, FreeSlotInv
      <3>3. h \in Callers
        BY <2>2, QueueMembers DEF Queued, SchedInv, SchedTypeOK, Classes
      <3> HIDE DEF h
      <3>4. Pool!HandOver(c, h)
        BY <2>2, <3>1, <3>2 DEF Pool!HandOver
      <3> QED BY <3>3, <3>4
    <2> QED BY <1>4, <2>1, <2>2, FreeSlotInv
  <1>5. ASSUME NEW c \in Callers, Release(c) PROVE Pool!PoolNext
    BY <1>4, <1>5 DEF Release
  <1>6. ASSUME NEW c \in Callers, AcquireHandBack(c) PROVE Pool!PoolNext
    BY <1>4, <1>6 DEF AcquireHandBack
  <1>7. CASE ReceivePing \/ UNCHANGED schedVars
    BY <1>7 DEF ReceivePing, schedVars, Owners, Queued
  <1> HIDE DEF Pool!PoolNext
  <1> QED BY <1>1, <1>2, <1>3, <1>5, <1>6, <1>7, FullInv, GrantedInv, CtxDoneInv, NotQueuedInv
          DEF SchedNext, AcquireStep

\* The Scheduler implements the abstract slot pool: owners are the callers Acquire returned
\* nil to or whose channel is closed, waiters the callers in the two queues.
THEOREM SchedulerImplementsPool == SchedSpec => ImplementsPool
  <1>1. SchedInit => Pool!PoolInit
    BY InitInv DEF Pool!PoolInit
  <1>2. SchedInv /\ [SchedNext]_schedVars => [Pool!PoolNext]_Pool!poolVars
    BY PoolStep
  <1> QED BY <1>1, <1>2, SchedulerSafe, PTL DEF SchedSpec, ImplementsPool, Pool!PoolSpec

=============================================================================
