----------------------------- MODULE GateProofs -----------------------------
(***************************************************************************)
(* The Gate over the Scheduler for any requests, slots, queue ceilings and *)
(* any number of yields: the slots stay accounted for, and a handler owns  *)
(* one exactly between Acquire's return and its Release.  The second part  *)
(* is about the park queue: its entries are the requests that are parked,  *)
(* and whoever the drain has taken is released, in order.                  *)
(***************************************************************************)
EXTENDS Gate, SchedulerProofs

\* The labels at which a handler is past Acquire and before its Release.
Held == {"admit", "backOff", "begin", "serving", "finish", "release"}

\* What the Scheduler knows of r agrees with where the handler of r is.
HandlerSlot(r) ==
  pc[r] # "acquire" =>
    /\ acq[r] \in {"idle", "holding", "refused"}
    /\ acq[r] = "holding" <=> pc[r] \in Held

\* SlotDiscipline is not inductive alone: that a granted waiter has not left Acquire follows
\* from the exactness of the Scheduler's queues.
GateInv ==
  /\ SchedInv
  /\ pc \in [Callers -> PCs]
  /\ \A r \in Callers : HandlerSlot(r)

LEMMA GateInvInit ==
  ASSUME GateInit
  PROVE  GateInv
  <1>1. SchedInv
    BY InitInv DEF GateInit
  <1>2. pc \in [Callers -> PCs]
    BY DEF GateInit, PCs
  <1>3. \A r \in Callers : HandlerSlot(r)
    BY DEF GateInit, SchedInit, HandlerSlot, Held
  <1> QED BY <1>1, <1>2, <1>3 DEF GateInv

\* The steps in which a handler drives the Scheduler.
LEMMA GateSchedSteps ==
  ASSUME NEW r \in Callers, Acquire(r) \/ WaitOver(r) \/ BackOff(r) \/ Exit(r)
  PROVE  SchedNext
  <1>1. CASE Acquire(r)
    BY <1>1 DEF Acquire, SchedNext, AcquireStep
  <1>2. CASE WaitOver(r)
    BY <1>2 DEF WaitOver, SchedNext
  <1>3. CASE BackOff(r) \/ Exit(r)
    BY <1>3 DEF BackOff, Exit, SchedNext
  <1> QED BY <1>1, <1>2, <1>3

\* The handler steps that leave the Scheduler alone stay within Held or outside it.
Sidestep(r) ==
  /\ UNCHANGED schedVars
  /\ \E l \in PCs : /\ Goto(r, l)
                    /\ pc[r] # "acquire"
                    /\ l # "acquire" => (l \in Held <=> pc[r] \in Held)

LEMMA GateSidesteps ==
  ASSUME NEW r \in Callers, GateInv,
         \/ Arrive(r) \/ Check(r) \/ Admit(r) \/ ParkFor(r) \/ ParkReleased(r)
         \/ Begin(r) \/ Finish(r) \/ ParkHoldOver(r) \/ ParkShutdown(r) \/ ServeReturn(r)
  PROVE  Sidestep(r)
  <1> USE DEF Sidestep, Held, PCs, Answer
  <1>1. CASE Arrive(r) \/ Check(r)
    BY <1>1 DEF Arrive, Check
  <1>2. CASE Admit(r)
    BY <1>2 DEF Admit
  <1>3. CASE ParkFor(r) \/ ParkReleased(r)
    BY <1>3 DEF ParkFor, ParkReleased
  <1>4. CASE ParkHoldOver(r) \/ ParkShutdown(r)
    BY <1>4 DEF ParkHoldOver, ParkShutdown, LeavePark
  <1>5. CASE Begin(r) \/ Finish(r) \/ ServeReturn(r)
    BY <1>5 DEF Begin, Finish, ServeReturn
  <1> QED BY <1>1, <1>2, <1>3, <1>4, <1>5

\* What a step of the Gate is to the slots.
LEMMA GateSteps ==
  ASSUME GateInv, [GateNext]_gateVars
  PROVE  \/ \E r \in Callers : Acquire(r) \/ WaitOver(r) \/ BackOff(r) \/ Exit(r)
         \/ \E r \in Callers : Sidestep(r)
         \/ UNCHANGED <<schedVars, pc>>
  <1>1. ASSUME NEW r \in Callers, Watch(r) \/ UpstreamTimeout(r) \/ ClientGone(r)
                                  \/ ClientStalls(r) \/ ClientResumes(r)
        PROVE  UNCHANGED <<schedVars, pc>>
    BY <1>1 DEF Watch, UpstreamTimeout, ClientGone, ClientStalls, ClientResumes
  <1>2. DrainTick \/ DrainSplice \/ DrainClose \/ Shutdown \/ Yield
          => UNCHANGED <<schedVars, pc>>
    BY DEF DrainTick, DrainSplice, DrainClose, Shutdown, Yield
  <1>3. UNCHANGED gateVars => UNCHANGED <<schedVars, pc>>
    BY DEF gateVars
  <1> QED BY <1>1, <1>2, <1>3, GateSidesteps DEF GateNext, Handler

\* The Gate drives the Scheduler only through Acquire and Release.
LEMMA GateDrivesScheduler ==
  ASSUME GateInv, [GateNext]_gateVars
  PROVE  [SchedNext]_schedVars
  BY GateSteps, GateSchedSteps DEF Sidestep

LEMMA GateInvStep ==
  ASSUME GateInv, [GateNext]_gateVars
  PROVE  GateInv'
  <1>1. SchedInv'
    BY GateDrivesScheduler, StepInv DEF GateInv
  <1>0. acq \in [Callers -> AcqStates] /\ pc \in [Callers -> PCs]
    BY DEF GateInv, SchedInv, SchedTypeOK
  <1> DEFINE Kept == pc' \in [Callers -> PCs] /\ \A q \in Callers : HandlerSlot(q)'
  <1>2. ASSUME NEW r \in Callers, NEW l \in PCs, NEW v \in AcqStates,
               pc' = [pc EXCEPT ![r] = l], acq' = [acq EXCEPT ![r] = v],
               l # "acquire" => /\ v \in {"idle", "holding", "refused"}
                                /\ v = "holding" <=> l \in Held
        PROVE  Kept
    <2>1. pc' \in [Callers -> PCs]
      BY <1>0, <1>2
    <2>2. ASSUME NEW q \in Callers PROVE HandlerSlot(q)'
      <3>1. CASE q = r
        BY <1>0, <1>2, <3>1 DEF HandlerSlot, Held
      <3>2. CASE q # r
        BY <1>0, <1>2, <3>2 DEF HandlerSlot, GateInv
      <3> QED BY <3>1, <3>2
    <2> QED BY <2>1, <2>2
  <1>3. ASSUME NEW r \in Callers, Acquire(r) \/ WaitOver(r) PROVE Kept
    <2>1. pc[r] = "acquire"
      BY <1>3 DEF Acquire, WaitOver
    <2>2. \E l \in PCs, v \in AcqStates :
            /\ pc' = [pc EXCEPT ![r] = l] /\ acq' = [acq EXCEPT ![r] = v]
            /\ l # "acquire" => /\ v \in {"idle", "holding", "refused"}
                                /\ v = "holding" <=> l \in Held
      <3> USE DEF Goto, Answer, PCs, AcqStates, Held
      <3>0. pc = [pc EXCEPT ![r] = "acquire"]
        BY <1>0, <2>1
      <3>1. CASE /\ AcquireFast(r) \/ AcquireGranted(r)
                 /\ Goto(r, "admit")
        BY <3>1 DEF AcquireFast, AcquireGranted
      <3>2. CASE /\ AcquireQueueFull(r) \/ AcquireRemoveWaiter(r) \/ AcquireHandBack(r)
                 /\ Answer(r, "deferred")
        BY <3>2 DEF AcquireQueueFull, AcquireRemoveWaiter, AcquireHandBack
      <3>3. CASE /\ AcquireEnqueue(r) \/ AcquireNotQueued(r) \/ AcquireCtxDone(r)
                 /\ UNCHANGED pc
        BY <3>0, <3>3 DEF AcquireEnqueue, AcquireNotQueued, AcquireCtxDone
      <3> QED BY <1>3, <3>1, <3>2, <3>3 DEF Acquire, WaitOver
    <2> QED BY <1>2, <2>2
  <1>4. ASSUME NEW r \in Callers, BackOff(r) \/ Exit(r) PROVE Kept
    <2>1. acq' = [acq EXCEPT ![r] = "idle"]
      BY <1>4 DEF BackOff, Exit, Release
    <2>2. \E l \in {"check", "done"} : pc' = [pc EXCEPT ![r] = l]
      BY <1>4 DEF BackOff, Exit, Goto, Answer
    <2> QED BY <1>2, <2>1, <2>2 DEF Held, PCs, AcqStates
  <1>5. ASSUME NEW r \in Callers, Sidestep(r) PROVE Kept
    <2>1. PICK l \in PCs : /\ pc' = [pc EXCEPT ![r] = l]
                           /\ pc[r] # "acquire"
                           /\ l # "acquire" => (l \in Held <=> pc[r] \in Held)
      BY <1>5 DEF Sidestep, Goto
    <2>2. acq' = [acq EXCEPT ![r] = acq[r]] /\ acq[r] \in AcqStates
      BY <1>0, <1>5 DEF Sidestep, schedVars
    <2>3. /\ acq[r] \in {"idle", "holding", "refused"}
          /\ acq[r] = "holding" <=> pc[r] \in Held
      BY <2>1 DEF GateInv, HandlerSlot
    <2> QED BY <1>2, <2>1, <2>2, <2>3
  <1>6. ASSUME UNCHANGED <<schedVars, pc>> PROVE Kept
    BY <1>6 DEF GateInv, HandlerSlot, schedVars
  <1>7. Kept
    <2> HIDE DEF Kept
    <2> QED BY <1>3, <1>4, <1>5, <1>6, GateSteps
  <1> QED BY <1>1, <1>7 DEF GateInv

LEMMA GateInvDiscipline ==
  ASSUME GateInv
  PROVE  SlotDiscipline
  <1>1. \A r \in Callers : pc[r] # "acquire" =>
          /\ acq[r] = "holding" <=> pc[r] \in Held
          /\ acq[r] \in {"idle", "holding", "refused"}
    BY DEF GateInv, HandlerSlot
  <1>2. ASSUME NEW r \in Queued \cup closed PROVE pc[r] = "acquire"
    <2>1. r \in Callers
      BY QueueMembers DEF Queued, GateInv, SchedInv, SchedTypeOK, Classes
    <2>2. acq[r] \in {"waiting", "ctxDone", "handBack"}
      BY DEF GateInv, SchedInv, QueueExact
    <2> QED BY <1>1, <2>1, <2>2
  <1> QED BY <1>1, <1>2 DEF SlotDiscipline, Held

-----------------------------------------------------------------------------

\* No path through the Gate leaks a slot or frees one twice: a handler holds a slot exactly
\* from Acquire's return to its Release, and none while it parks, loops or has been answered.
THEOREM GateDiscipline == GateSpec => []SlotDiscipline
  <1>1. GateInit => GateInv
    BY GateInvInit
  <1>2. GateInv /\ [GateNext]_gateVars => GateInv'
    BY GateInvStep
  <1>3. GateInv => SlotDiscipline
    BY GateInvDiscipline
  <1> QED BY <1>1, <1>2, <1>3, PTL DEF GateSpec

\* Behind the Gate the slots are accounted for as they are in the Scheduler alone: never more
\* than MaxInflight upstream calls, and every slot in use has its owner.
THEOREM GateSlotsAccounted == GateSpec => []SlotAccounting
  <1>1. GateInit => GateInv
    BY GateInvInit
  <1>2. GateInv /\ [GateNext]_gateVars => GateInv'
    BY GateInvStep
  <1>3. GateInv => SlotAccounting
    BY DEF GateInv, SchedInv
  <1> QED BY <1>1, <1>2, <1>3, PTL DEF GateSpec

-----------------------------------------------------------------------------
(* The park queue.                                                         *)

\* ParkExact is not inductive alone.  A splice overwrites batch, which loses nothing because
\* the drain loop closes a whole batch before it takes the next; and an entry spliced or
\* released long ago is never mistaken for a later park of the same request, because it
\* carries the number of a park that has begun.
ParkInv ==
  /\ parks \in [Callers -> Nat]
  /\ parkq \in Seq(Callers \X Nat)
  /\ batch \in Seq(Callers \X Nat)
  /\ released \subseteq Callers \X Nat
  /\ draining \in BOOLEAN
  /\ ParkExact
  /\ \A e \in Range(batch) \cup released : e[2] <= parks[e[1]]
  /\ draining => batch = <<>>

\* A step that neither parks nor unparks a request and leaves the queue alone.
ParkAlone ==
  /\ UNCHANGED parkVars
  /\ \A r \in Callers : pc'[r] = "parked" <=> pc[r] = "parked"

\* parkFor's append: the ceiling is not reached and r blocks.
Parks(r) ==
  /\ pc[r] = "park"
  /\ Len(parkq) < MaxQueue
  /\ parks' = [parks EXCEPT ![r] = @ + 1]
  /\ parkq' = Append(parkq, <<r, parks[r] + 1>>)
  /\ Goto(r, "parked")
  /\ UNCHANGED <<batch, released, draining>>

\* A parked r stops waiting on its own account: the hold, the client or the shutdown.
Leaves(r) ==
  /\ pc[r] = "parked"
  /\ \E o \in Outcomes : LeavePark(r, o)
  /\ released' = released \ {Entry(r)}
  /\ UNCHANGED <<parks, batch, draining>>

\* What a step of the Gate is to the park queue.
LEMMA ParkSteps ==
  ASSUME pc \in [Callers -> PCs], [GateNext]_gateVars
  PROVE  \/ ParkAlone
         \/ \E r \in Callers : Parks(r) \/ ParkReleased(r) \/ Leaves(r)
         \/ DrainTick \/ DrainSplice \/ DrainClose
  <1>1. ASSUME NEW r \in Callers, NEW l \in PCs, Goto(r, l), UNCHANGED parkVars,
               pc[r] # "parked", l # "parked"
        PROVE  ParkAlone
    BY <1>1 DEF Goto, ParkAlone
  <1>2. ASSUME NEW r \in Callers,
               \/ Arrive(r) \/ Check(r) \/ Admit(r) \/ BackOff(r) \/ Begin(r) \/ Finish(r)
               \/ Exit(r) \/ ServeReturn(r)
        PROVE  ParkAlone
    <2>1. UNCHANGED parkVars /\ pc[r] # "parked"
      BY <1>2 DEF Arrive, Check, Admit, BackOff, Begin, Finish, Exit, ServeReturn
    <2>2. \E l \in PCs \ {"parked"} : Goto(r, l)
      BY <1>2 DEF Arrive, Check, Admit, BackOff, Begin, Finish, Exit, ServeReturn, Answer, PCs
    <2> QED BY <1>1, <2>1, <2>2
  <1>3. ASSUME NEW r \in Callers, Acquire(r) PROVE ParkAlone
    <2>1. UNCHANGED parkVars /\ pc[r] # "parked"
      BY <1>3 DEF Acquire
    <2>2. UNCHANGED pc \/ \E l \in PCs \ {"parked"} : Goto(r, l)
      BY <1>3 DEF Acquire, Answer, PCs
    <2>3. UNCHANGED pc => ParkAlone
      BY <2>1 DEF ParkAlone
    <2> QED BY <1>1, <2>1, <2>2, <2>3
  <1>4. ASSUME NEW r \in Callers,
               WaitOver(r) \/ Watch(r) \/ UpstreamTimeout(r) \/ ClientGone(r)
                                  \/ ClientStalls(r) \/ ClientResumes(r)
        PROVE  ParkAlone
    BY <1>4 DEF WaitOver, Watch, UpstreamTimeout, ClientGone, ClientStalls, ClientResumes, ParkAlone
  <1>5. Shutdown \/ Yield \/ UNCHANGED gateVars => ParkAlone
    BY DEF Shutdown, Yield, gateVars, ParkAlone
  <1>6. ASSUME NEW r \in Callers, ParkFor(r) PROVE ParkAlone \/ Parks(r)
    <2>1. CASE Answer(r, "park_rejected") /\ UNCHANGED parkVars
      BY <1>1, <1>6, <2>1 DEF ParkFor, Answer, PCs
    <2>2. CASE Parks(r)
      BY <2>2
    <2> QED BY <1>6, <2>1, <2>2 DEF ParkFor, Parks
  <1>7. ASSUME NEW r \in Callers, ParkHoldOver(r) \/ ParkShutdown(r) PROVE Leaves(r)
    <2>1. \E o \in Outcomes : LeavePark(r, o)
      BY <1>7 DEF ParkHoldOver, ParkShutdown, Outcomes
    <2> QED BY <1>7, <2>1 DEF ParkHoldOver, ParkShutdown, Leaves
  <1> QED BY <1>2, <1>3, <1>4, <1>5, <1>6, <1>7 DEF GateNext, Handler

LEMMA ParkInvInit ==
  ASSUME GateInit
  PROVE  ParkInv
  <1>1. Range(<<>>) = {} /\ IsInjective(<<>>) /\ Len(<<>>) = 0
    BY DEF Range, IsInjective
  <1>2. ParkExact
    BY <1>1, GateAssumption DEF GateInit, ParkExact
  <1>3. parkq \in Seq(Callers \X Nat) /\ batch \in Seq(Callers \X Nat)
    BY DEF GateInit
  <1> QED BY <1>1, <1>2, <1>3 DEF GateInit, ParkInv

\* An entry is a request and the number of one of its parks.
LEMMA EntryType ==
  ASSUME ParkInv, NEW r \in Callers
  PROVE  Entry(r) \in Callers \X Nat /\ Entry(r)[1] = r /\ Entry(r)[2] = parks[r]
  BY DEF ParkInv, Entry

LEMMA ParksInv ==
  ASSUME ParkInv, pc \in [Callers -> PCs], NEW r \in Callers, Parks(r)
  PROVE  ParkInv'
  <1> DEFINE e == <<r, parks[r] + 1>>
  <1>0. /\ parks \in [Callers -> Nat]
        /\ parkq \in Seq(Callers \X Nat) /\ IsInjective(parkq)
        /\ released \subseteq Callers \X Nat
        /\ batch \in Seq(Callers \X Nat)
    BY DEF ParkInv, ParkExact
  <1>1. e \in Callers \X Nat /\ e[1] = r /\ e[2] = parks[r] + 1
    BY <1>0
  <1>2. \A q \in Callers : /\ parks'[q] = IF q = r THEN parks[r] + 1 ELSE parks[q]
                           /\ pc'[q] = IF q = r THEN "parked" ELSE pc[q]
    BY <1>0 DEF Parks, Goto
  <1>3. parks' \in [Callers -> Nat]
    BY <1>0 DEF Parks
  <1>4. /\ Range(parkq) \subseteq Callers \X Nat
        /\ Range(batch) \subseteq Callers \X Nat
    BY <1>0, QueueMembers
  <1>5. \A x \in Range(parkq) : x[1] # r
    BY DEF Parks, ParkInv, ParkExact
  <1>6. e \notin Range(parkq) /\ e \notin Range(batch) \cup released
    <2>1. parks[r] \in Nat
      BY <1>0
    <2>2. ASSUME e \in Range(batch) \cup released PROVE FALSE
      <3>1. e[2] <= parks[e[1]]
        BY <2>2 DEF ParkInv
      <3> QED BY <1>1, <2>1, <3>1
    <2> QED BY <1>1, <1>5, <2>2
  <1> HIDE DEF e
  <1>7. /\ parkq' \in Seq(Callers \X Nat)
        /\ Len(parkq') = Len(parkq) + 1
        /\ IsInjective(parkq')
        /\ Range(parkq') = Range(parkq) \cup {e}
    <2>1. parkq' = Append(parkq, e)
      BY DEF Parks, e
    <2> QED BY <1>0, <1>1, <1>6, <2>1, AppendQueue
  <1>8. Len(parkq') <= MaxQueue
    <2>1. Len(parkq) \in Nat /\ Len(parkq) < MaxQueue
      BY <1>0 DEF Parks
    <2> QED BY <1>7, <2>1, GateAssumption
  <1>9. batch' = batch /\ released' = released /\ draining' = draining
    BY DEF Parks
  <1>10. \A q \in Callers : Entry(q)' = IF q = r THEN e ELSE Entry(q)
    BY <1>2 DEF Entry, e
  <1>11. ASSUME NEW x \in Range(parkq')
         PROVE  /\ pc'[x[1]] = "parked" /\ x = Entry(x[1])'
                /\ x \notin released' \cup Range(batch')
    <2>1. CASE x = e
      BY <1>1, <1>2, <1>6, <1>9, <1>10, <2>1
    <2>2. CASE x \in Range(parkq)
      <3>1. x[1] \in Callers /\ x[1] # r
        BY <1>4, <1>5, <2>2
      <3>2. pc[x[1]] = "parked" /\ x = Entry(x[1]) /\ x \notin released \cup Range(batch)
        BY <2>2 DEF ParkInv, ParkExact
      <3> QED BY <1>2, <1>9, <1>10, <3>1, <3>2
    <2> QED BY <1>7, <2>1, <2>2
  <1>12. ASSUME NEW q \in Callers, pc'[q] = "parked"
         PROVE  Entry(q)' \in Range(parkq') \cup Range(batch') \cup released'
    <2>1. CASE q = r
      BY <1>7, <1>10, <2>1
    <2>2. CASE q # r
      <3>1. pc[q] = "parked"
        BY <1>2, <1>12, <2>2
      <3>2. Entry(q) \in Range(parkq) \cup Range(batch) \cup released
        BY <3>1 DEF ParkInv, ParkExact
      <3> QED BY <1>7, <1>9, <1>10, <2>2, <3>2
    <2> QED BY <2>1, <2>2
  <1>13. ParkExact'
    BY <1>7, <1>8, <1>11, <1>12 DEF ParkExact
  <1>14. ASSUME NEW x \in Range(batch') \cup released' PROVE x[2] <= parks'[x[1]]
    <2>1. x \in Callers \X Nat /\ x[2] <= parks[x[1]]
      BY <1>0, <1>4, <1>9, <1>14 DEF ParkInv
    <2>2. x[1] \in Callers /\ x[2] \in Nat /\ parks[x[1]] \in Nat
      BY <1>0, <2>1
    <2> QED BY <1>2, <2>1, <2>2
  <1> QED BY <1>3, <1>7, <1>9, <1>13, <1>14 DEF ParkInv

\* A parked request that stops waiting takes its own entry, and no other, out of the queue.
LEMMA UnparkInv ==
  ASSUME ParkInv, pc \in [Callers -> PCs], NEW r \in Callers, NEW l \in PCs,
         pc[r] = "parked", l # "parked", Goto(r, l),
         released' = released \ {Entry(r)}, UNCHANGED <<parks, batch, draining>>,
         \/ UNCHANGED parkq /\ Entry(r) \notin Range(parkq)
         \/ \E i \in DOMAIN parkq : parkq[i] = Entry(r) /\ parkq' = RemoveAt(parkq, i)
  PROVE  ParkInv'
  <1>0. /\ parkq \in Seq(Callers \X Nat) /\ IsInjective(parkq)
        /\ Len(parkq) <= MaxQueue /\ Len(parkq) \in Nat
    BY DEF ParkInv, ParkExact
  <1>1. /\ parkq' \in Seq(Callers \X Nat)
        /\ Len(parkq') <= Len(parkq) /\ Len(parkq') \in Nat
        /\ IsInjective(parkq')
        /\ Range(parkq') = Range(parkq) \ {Entry(r)}
    <2>1. CASE UNCHANGED parkq /\ Entry(r) \notin Range(parkq)
      BY <1>0, <2>1
    <2>2. ASSUME NEW i \in DOMAIN parkq, parkq[i] = Entry(r), parkq' = RemoveAt(parkq, i)
          PROVE  /\ parkq' \in Seq(Callers \X Nat)
                 /\ Len(parkq') = Len(parkq) - 1
                 /\ IsInjective(parkq')
                 /\ Range(parkq') = Range(parkq) \ {Entry(r)}
      <3>1. i \in 1..Len(parkq)
        BY <1>0, QueueMembers
      <3>2. /\ RemoveAt(parkq, i) \in Seq(Callers \X Nat)
            /\ Len(RemoveAt(parkq, i)) = Len(parkq) - 1
            /\ IsInjective(RemoveAt(parkq, i))
            /\ Range(RemoveAt(parkq, i)) = Range(parkq) \ {parkq[i]}
        BY <1>0, <3>1, RemoveAtQueue
      <3> QED BY <2>2, <3>2, Zenon
    <2> QED BY <1>0, <2>1, <2>2
  <1>2. Len(parkq') <= MaxQueue
    BY <1>0, <1>1, GateAssumption
  <1>3. \A q \in Callers : Entry(q)' = Entry(q) /\ pc'[q] = IF q = r THEN l ELSE pc[q]
    BY DEF Entry, Goto
  <1>4. Range(parkq) \subseteq Callers \X Nat
    BY <1>0, QueueMembers
  <1>5. ASSUME NEW x \in Range(parkq')
        PROVE  /\ pc'[x[1]] = "parked" /\ x = Entry(x[1])'
               /\ x \notin released' \cup Range(batch')
    <2>1. /\ x \in Range(parkq) /\ x # Entry(r) /\ x[1] \in Callers
          /\ pc[x[1]] = "parked" /\ x = Entry(x[1])
          /\ x \notin released \cup Range(batch)
      BY <1>1, <1>4 DEF ParkInv, ParkExact
    <2> QED BY <1>3, <2>1
  <1>6. ASSUME NEW q \in Callers, pc'[q] = "parked"
        PROVE  Entry(q)' \in Range(parkq') \cup Range(batch') \cup released'
    <2>1. q # r /\ Entry(q) \in Range(parkq) \cup Range(batch) \cup released
      BY <1>3, <1>6 DEF ParkInv, ParkExact
    <2>2. Entry(q) # Entry(r)
      BY <2>1, EntryType
    <2> QED BY <1>1, <1>3, <2>1, <2>2
  <1>7. ParkExact'
    BY <1>1, <1>2, <1>5, <1>6 DEF ParkExact
  <1> QED BY <1>1, <1>7 DEF ParkInv

\* drainOneBurst moves the oldest entries from the queue to the batch it will close.
LEMMA DrainSpliceInv ==
  ASSUME ParkInv, DrainSplice
  PROVE  /\ ParkInv'
         /\ \A i, j \in DOMAIN parkq :
              i < j /\ parkq[j] \in Range(batch') => parkq[i] \notin Range(parkq')
  <1> DEFINE n == IF DrainBurst > Len(parkq) THEN Len(parkq) ELSE DrainBurst
  <1>0. /\ parkq \in Seq(Callers \X Nat) /\ IsInjective(parkq)
        /\ Len(parkq) <= MaxQueue /\ Len(parkq) \in Nat /\ DOMAIN parkq = 1..Len(parkq)
        /\ batch = <<>> /\ Range(batch) = {}
    BY DEF ParkInv, ParkExact, DrainSplice, Range
  <1>1. n \in 0..Len(parkq) /\ n \in Nat
    BY <1>0, GateAssumption
  <1>2. batch' = SubSeq(parkq, 1, n) /\ parkq' = SubSeq(parkq, n + 1, Len(parkq))
    BY DEF DrainSplice
  <1> HIDE DEF n
  <1>3. /\ batch' \in Seq(Callers \X Nat) /\ parkq' \in Seq(Callers \X Nat)
        /\ Len(parkq') = Len(parkq) - n
        /\ IsInjective(parkq')
        /\ Range(parkq) = Range(batch') \cup Range(parkq')
        /\ \A j \in 1..Len(parkq) : parkq[j] \in Range(batch') <=> j <= n
        /\ \A j \in 1..Len(parkq) : parkq[j] \in Range(parkq') <=> j > n
    <2> DEFINE f == SubSeq(parkq, 1, n)
               b == SubSeq(parkq, n + 1, Len(parkq))
    <2>1. /\ f \in Seq(Callers \X Nat) /\ b \in Seq(Callers \X Nat)
          /\ Len(b) = Len(parkq) - n
          /\ IsInjective(b)
          /\ Range(parkq) = Range(f) \cup Range(b)
          /\ \A j \in 1..Len(parkq) : parkq[j] \in Range(f) <=> j <= n
          /\ \A j \in 1..Len(parkq) : parkq[j] \in Range(b) <=> j > n
      <3> DEFINE S == Callers \X Nat
      <3>1. parkq \in Seq(S) /\ IsInjective(parkq) /\ n \in 0..Len(parkq)
        BY <1>0, <1>1
      <3> HIDE DEF S
      <3>2. /\ f \in Seq(S) /\ b \in Seq(S)
            /\ Len(b) = Len(parkq) - n
            /\ IsInjective(b)
            /\ Range(parkq) = Range(f) \cup Range(b)
            /\ \A j \in 1..Len(parkq) : parkq[j] \in Range(f) <=> j <= n
            /\ \A j \in 1..Len(parkq) : parkq[j] \in Range(b) <=> j > n
        BY <3>1, SplitQueue, Zenon
      <3> QED BY <3>2 DEF S
    <2>2. batch' = f /\ parkq' = b
      BY <1>2
    <2> HIDE DEF f, b
    <2> QED BY <2>1, <2>2
  <1>4. UNCHANGED <<pc, parks, released>> /\ draining' = FALSE
    BY DEF DrainSplice
  <1>5. Len(parkq') <= MaxQueue
    BY <1>0, <1>1, <1>3, GateAssumption
  <1>6. ASSUME NEW x \in Range(parkq') PROVE x \notin Range(batch')
    <2>1. PICK j \in 1..Len(parkq) : parkq[j] = x
      BY <1>0, <1>3, QueueMembers
    <2> QED BY <1>1, <1>3, <2>1
  <1>7. \A r : Entry(r)' = Entry(r)
    BY <1>4 DEF Entry
  <1>8. ASSUME NEW x \in Range(parkq')
        PROVE  /\ pc'[x[1]] = "parked" /\ x = Entry(x[1])'
               /\ x \notin released' \cup Range(batch')
    BY <1>3, <1>4, <1>6, <1>7 DEF ParkInv, ParkExact
  <1>9. ASSUME NEW q \in Callers, pc'[q] = "parked"
        PROVE  Entry(q)' \in Range(parkq') \cup Range(batch') \cup released'
    BY <1>0, <1>3, <1>4, <1>7, <1>9 DEF ParkInv, ParkExact
  <1>10. ParkExact'
    BY <1>3, <1>5, <1>8, <1>9 DEF ParkExact
  <1>11. ASSUME NEW x \in Range(batch') \cup released' PROVE x[2] <= parks'[x[1]]
    <2>1. CASE x \in released
      BY <1>4, <2>1 DEF ParkInv
    <2>2. CASE x \in Range(batch')
      <3>1. x \in Range(parkq) /\ x \in Callers \X Nat
        BY <1>0, <1>3, <2>2, QueueMembers
      <3>2. x[1] \in Callers /\ x = Entry(x[1])
        BY <3>1 DEF ParkInv, ParkExact
      <3>3. x[2] = parks[x[1]] /\ parks[x[1]] \in Nat
        BY <3>2, EntryType DEF ParkInv
      <3> QED BY <1>4, <3>3
    <2> QED BY <1>4, <1>11, <2>1, <2>2
  <1>12. ParkInv'
    BY <1>3, <1>4, <1>10, <1>11 DEF ParkInv
  <1>13. ASSUME NEW i \in DOMAIN parkq, NEW j \in DOMAIN parkq, i < j,
                parkq[j] \in Range(batch')
         PROVE  parkq[i] \notin Range(parkq')
    BY <1>0, <1>1, <1>3, <1>13
  <1> QED BY <1>12, <1>13

\* Closing the release channel of the oldest entry of the batch.
LEMMA DrainCloseInv ==
  ASSUME ParkInv, DrainClose
  PROVE  ParkInv' /\ Range(batch') \subseteq Range(batch)
  <1> DEFINE h == Head(batch)
  <1>0. batch \in Seq(Callers \X Nat) /\ batch # <<>> /\ batch' = Tail(batch)
    BY DEF ParkInv, DrainClose
  <1>1. /\ batch' \in Seq(Callers \X Nat)
        /\ h \in Range(batch)
        /\ Range(batch) = Range(batch') \cup {h}
    BY <1>0, TailMembers
  <1>2. Range(batch) \subseteq Callers \X Nat
    BY <1>0, QueueMembers
  <1>3. released' = IF pc[h[1]] = "parked" /\ h = Entry(h[1])
                      THEN released \cup {h} ELSE released
    BY DEF DrainClose
  <1> HIDE DEF h
  <1>4. UNCHANGED <<pc, parks, parkq, draining>>
    BY DEF DrainClose
  <1>5. \A r : Entry(r)' = Entry(r)
    BY <1>4 DEF Entry
  <1>6. /\ released \subseteq released'
        /\ released' \subseteq released \cup {h}
    BY <1>3
  <1>7. ASSUME NEW x \in Range(parkq')
        PROVE  /\ pc'[x[1]] = "parked" /\ x = Entry(x[1])'
               /\ x \notin released' \cup Range(batch')
    BY <1>1, <1>4, <1>5, <1>6 DEF ParkInv, ParkExact
  <1>8. ASSUME NEW q \in Callers, pc'[q] = "parked"
        PROVE  Entry(q)' \in Range(parkq') \cup Range(batch') \cup released'
    <2>1. pc[q] = "parked" /\ Entry(q) \in Range(parkq) \cup Range(batch) \cup released
      BY <1>4, <1>8 DEF ParkInv, ParkExact
    <2>2. CASE Entry(q) = h
      <3>1. h[1] = q
        BY <2>2, EntryType
      <3>2. h \in released'
        BY <1>3, <2>1, <2>2, <3>1
      <3> QED BY <1>5, <2>2, <3>2
    <2>3. CASE Entry(q) # h
      BY <1>1, <1>4, <1>5, <1>6, <2>1, <2>3
    <2> QED BY <2>2, <2>3
  <1>9. ParkExact'
    BY <1>4, <1>7, <1>8 DEF ParkInv, ParkExact
  <1>10. \A x \in Range(batch') \cup released' : x[2] <= parks'[x[1]]
    BY <1>1, <1>4, <1>6 DEF ParkInv
  <1>11. draining' => batch' = <<>>
    BY <1>0, <1>4 DEF ParkInv
  <1> QED BY <1>1, <1>2, <1>4, <1>6, <1>9, <1>10, <1>11 DEF ParkInv

LEMMA ParkInvStep ==
  ASSUME GateInv, ParkInv, [GateNext]_gateVars
  PROVE  ParkInv'
  <1>0. pc \in [Callers -> PCs]
    BY DEF GateInv
  <1>1. ASSUME ParkAlone PROVE ParkInv'
    <2>1. \A r : Entry(r)' = Entry(r)
      BY <1>1 DEF ParkAlone, parkVars, Entry
    <2>2. Range(parkq) \subseteq Callers \X Nat
      BY QueueMembers DEF ParkInv
    <2>3. ParkExact'
      BY <1>1, <2>1, <2>2 DEF ParkAlone, parkVars, ParkInv, ParkExact
    <2> QED BY <1>1, <2>3 DEF ParkAlone, parkVars, ParkInv
  <1>2. ASSUME NEW r \in Callers, ParkReleased(r) PROVE ParkInv'
    <2>1. Entry(r) \notin Range(parkq)
      BY <1>2 DEF ParkReleased, ParkInv, ParkExact
    <2>2. Goto(r, "check") /\ "check" \in PCs
      BY <1>2 DEF ParkReleased, PCs
    <2> QED BY <1>0, <1>2, <2>1, <2>2, UnparkInv DEF ParkReleased
  <1>3. ASSUME NEW r \in Callers, Leaves(r) PROVE ParkInv'
    <2>1. PICK l \in PCs \ {"parked"} : Goto(r, l)
      BY <1>3 DEF Leaves, LeavePark, Answer, PCs
    <2>2. \/ UNCHANGED parkq /\ Entry(r) \notin Range(parkq)
          \/ \E i \in DOMAIN parkq : parkq[i] = Entry(r) /\ parkq' = RemoveAt(parkq, i)
      BY <1>3 DEF Leaves, LeavePark
    <2> QED BY <1>0, <1>3, <2>1, <2>2, UnparkInv DEF Leaves
  <1>4. CASE DrainTick
    <2>1. \A r : Entry(r)' = Entry(r)
      BY <1>4 DEF DrainTick, Entry
    <2>2. ParkExact'
      BY <1>4, <2>1 DEF DrainTick, ParkInv, ParkExact
    <2> QED BY <1>4, <2>2 DEF DrainTick, ParkInv
  <1> QED BY <1>0, <1>1, <1>2, <1>3, <1>4, ParksInv, DrainSpliceInv, DrainCloseInv, ParkSteps

\* The state the park queue and the slots do not depend on keeps its type.
CallTypeOK ==
  /\ outcome \in [Callers -> Outcomes]
  /\ yielding \in BOOLEAN /\ shutdown \in BOOLEAN
  /\ serveGen \in Nat /\ cancelled \subseteq Nat
  /\ gen \in [Callers -> Nat]
  /\ ctxErr \in [Callers -> {"none", "canceled", "deadline"}]
  /\ gone \subseteq Callers /\ stalled \subseteq Callers

LEMMA CallTypeStep ==
  ASSUME CallTypeOK, [GateNext]_gateVars
  PROVE  CallTypeOK'
  <1> USE DEF CallTypeOK, Outcomes
  <1> DEFINE Quiet == UNCHANGED <<yieldVars, callVars, envVars>>
  <1>1. ASSUME NEW r \in Callers, NEW o \in Outcomes, Quiet,
               outcome' = [outcome EXCEPT ![r] = o]
        PROVE  CallTypeOK'
    BY <1>1 DEF yieldVars, callVars, envVars
  <1>2. Quiet /\ UNCHANGED outcome => CallTypeOK'
    BY DEF yieldVars, callVars, envVars
  <1>3. ASSUME NEW r \in Callers, Arrive(r) \/ Admit(r) \/ Exit(r) \/ WaitOver(r)
                                  \/ ParkReleased(r) \/ ServeReturn(r)
        PROVE  CallTypeOK'
    BY <1>2, <1>3 DEF Arrive, Admit, Exit, WaitOver, ParkReleased, ServeReturn
  <1>4. ASSUME NEW r \in Callers, Check(r) \/ BackOff(r) \/ ParkFor(r) PROVE CallTypeOK'
    <2>1. Quiet /\ (UNCHANGED outcome \/ \E o \in Outcomes : outcome' = [outcome EXCEPT ![r] = o])
      BY <1>4 DEF Check, BackOff, ParkFor, Answer
    <2> QED BY <1>1, <1>2, <2>1
  <1>5. ASSUME NEW r \in Callers, Acquire(r) PROVE CallTypeOK'
    <2>1. Quiet /\ (UNCHANGED outcome \/ \E o \in Outcomes : outcome' = [outcome EXCEPT ![r] = o])
      BY <1>5 DEF Acquire, Answer
    <2> QED BY <1>1, <1>2, <2>1
  <1>6. ASSUME NEW r \in Callers, ParkHoldOver(r) \/ ParkShutdown(r) PROVE CallTypeOK'
    <2>1. Quiet
      BY <1>6 DEF ParkHoldOver, ParkShutdown
    <2>2. UNCHANGED outcome \/ \E o \in Outcomes : outcome' = [outcome EXCEPT ![r] = o]
      BY <1>6 DEF ParkHoldOver, ParkShutdown, LeavePark, Answer
    <2> QED BY <1>1, <1>2, <2>1, <2>2
  <1>7. ASSUME NEW r \in Callers, Finish(r) PROVE CallTypeOK'
    BY <1>1, <1>7 DEF Finish
  <1>8. ASSUME NEW r \in Callers, Begin(r) \/ Watch(r) \/ UpstreamTimeout(r) PROVE CallTypeOK'
    BY <1>8 DEF Begin, Watch, UpstreamTimeout, yieldVars, envVars
  <1>9. ASSUME NEW r \in Callers, ClientGone(r) \/ ClientStalls(r) \/ ClientResumes(r)
        PROVE  CallTypeOK'
    BY <1>9 DEF ClientGone, ClientStalls, ClientResumes, yieldVars, callVars
  <1>10. DrainTick \/ DrainSplice \/ DrainClose \/ UNCHANGED gateVars => CallTypeOK'
    BY <1>2 DEF DrainTick, DrainSplice, DrainClose, gateVars
  <1>11. CASE Shutdown
    BY <1>11 DEF Shutdown, yieldVars, callVars
  <1>12. CASE Yield
    <2>1. UNCHANGED <<outcome, gen, ctxErr, gone, stalled, shutdown>>
      BY <1>12 DEF Yield, callVars, envVars
    <2>2. yielding' \in BOOLEAN
      BY <1>12 DEF Yield, YieldStart, YieldStop
    <2>3. serveGen' \in Nat /\ cancelled' \subseteq Nat
      <3>1. \/ serveGen' = serveGen /\ cancelled' = cancelled \cup {serveGen}
            \/ serveGen' = serveGen + 1 /\ cancelled' = cancelled
        BY <1>12, Zenon DEF Yield, YieldStart, YieldStop
      <3>2. serveGen \in Nat /\ cancelled \subseteq Nat
        OBVIOUS
      <3>3. serveGen' \in Nat
        BY <3>1, <3>2
      <3>4. cancelled' \subseteq Nat
        BY <3>1, <3>2
      <3> QED BY <3>3, <3>4
    <2> QED BY <2>1, <2>2, <2>3
  <1> HIDE DEF CallTypeOK, Quiet
  <1> QED BY <1>3, <1>4, <1>5, <1>6, <1>7, <1>8, <1>9, <1>10, <1>11, <1>12
          DEF GateNext, Handler

LEMMA GateSafe == GateSpec => [](GateInv /\ ParkInv /\ CallTypeOK)
  <1>1. GateInit => GateInv /\ ParkInv /\ CallTypeOK
    <2>1. GateInit => CallTypeOK
      <3> SUFFICES ASSUME GateInit PROVE CallTypeOK
        OBVIOUS
      <3>1. yielding \in BOOLEAN /\ shutdown \in BOOLEAN
        BY Zenon DEF GateInit, AdmInit
      <3>2. /\ serveGen \in Nat /\ cancelled \subseteq Nat
            /\ gone \subseteq Callers /\ stalled \subseteq Callers
        BY DEF GateInit, AdmInit
      <3>3. /\ outcome \in [Callers -> Outcomes]
            /\ gen \in [Callers -> Nat]
            /\ ctxErr \in [Callers -> {"none", "canceled", "deadline"}]
        BY DEF GateInit, Outcomes
      <3> QED BY <3>1, <3>2, <3>3 DEF CallTypeOK
    <2> QED BY <2>1, GateInvInit, ParkInvInit
  <1>2. GateInv /\ ParkInv /\ CallTypeOK /\ [GateNext]_gateVars
          => (GateInv /\ ParkInv /\ CallTypeOK)'
    BY GateInvStep, ParkInvStep, CallTypeStep
  <1> QED BY <1>1, <1>2, PTL DEF GateSpec

-----------------------------------------------------------------------------

\* The state of the Gate keeps its type through every interleaving of handlers, drain loop,
\* yields, disconnects and shutdown.
THEOREM GateTyped == GateSpec => []GateTypeOK
  <1>1. GateInv /\ ParkInv /\ CallTypeOK => GateTypeOK
    BY DEF GateInv, SchedInv, ParkInv, CallTypeOK, GateTypeOK
  <1> QED BY <1>1, GateSafe, PTL

\* The park queue stays within its ceiling and is exactly the requests blocked in parkFor,
\* and no parked request is forgotten between the drain's splice and the close of its channel
\* (parkFor, remove, drainOneBurst).
THEOREM ParkQueueExact == GateSpec => []ParkExact
  <1>1. ParkInv => ParkExact
    BY DEF ParkInv
  <1> QED BY <1>1, GateSafe, PTL

\* Whichever of hold, disconnect and shutdown races with the drain: an entry the drain has
\* taken is a request that re-enters admission (parkFor's three select branches).
THEOREM DrainedReenters == GateSpec => ReleaseWins
  <1> DEFINE Wins == \A r \in Callers :
                       pc[r] = "parked" /\ Entry(r) \notin Range(parkq) /\ pc'[r] # "parked"
                         => pc'[r] = "check"
  <1>1. ASSUME GateInv, ParkInv, [GateNext]_gateVars PROVE Wins
    <2>0. pc \in [Callers -> PCs]
      BY <1>1 DEF GateInv
    <2>1. ASSUME UNCHANGED pc PROVE Wins
      BY <2>1
    <2>2. ASSUME NEW r \in Callers, ParkReleased(r) PROVE Wins
      BY <2>0, <2>2 DEF ParkReleased, Goto
    <2>3. ASSUME NEW r \in Callers, Parks(r) PROVE Wins
      BY <2>0, <2>3 DEF Parks, Goto
    <2>4. ASSUME NEW r \in Callers, Leaves(r) PROVE Wins
      <3>1. CASE Goto(r, "check")
        BY <2>0, <3>1 DEF Goto
      <3>2. CASE Entry(r) \in Range(parkq) /\ \E l \in PCs : Goto(r, l)
        BY <2>0, <3>2 DEF Goto
      <3>3. ASSUME NEW i \in DOMAIN parkq, parkq[i] = Entry(r), NEW o, Answer(r, o)
            PROVE  Entry(r) \in Range(parkq) /\ \E l \in PCs : Goto(r, l)
        BY <3>3 DEF Range, Answer, PCs
      <3> QED BY <2>4, <3>1, <3>2, <3>3 DEF Leaves, LeavePark
    <2>5. ASSUME ParkAlone PROVE Wins
      BY <2>5 DEF ParkAlone
    <2>6. DrainTick \/ DrainSplice \/ DrainClose => UNCHANGED pc
      BY DEF DrainTick, DrainSplice, DrainClose
    <2> HIDE DEF Wins
    <2> QED BY <1>1, <2>0, <2>1, <2>2, <2>3, <2>4, <2>5, <2>6, ParkSteps
  <1>2. GateInv /\ ParkInv /\ CallTypeOK /\ [GateNext]_gateVars => [Wins]_gateVars
    BY <1>1
  <1> QED BY <1>2, GateSafe, PTL DEF GateSpec, ReleaseWins

\* drainOneBurst releases the oldest entries: none is taken while an older one stays.
THEOREM ParkReleasedInOrder == GateSpec => ParkFIFO
  <1> DEFINE Oldest == \A i, j \in DOMAIN parkq :
                         i < j /\ parkq[j] \in Range(batch') \ Range(batch)
                           => parkq[i] \notin Range(parkq')
  <1>1. ASSUME GateInv, ParkInv, [GateNext]_gateVars PROVE Oldest
    <2>0. pc \in [Callers -> PCs]
      BY <1>1 DEF GateInv
    <2>1. ASSUME Range(batch') \subseteq Range(batch) PROVE Oldest
      BY <2>1
    <2>2. CASE DrainSplice
      BY <1>1, <2>2, DrainSpliceInv
    <2>3. ASSUME UNCHANGED batch PROVE Oldest
      BY <2>1, <2>3
    <2>4. ASSUME NEW r \in Callers, Parks(r) \/ ParkReleased(r) \/ Leaves(r)
          PROVE  UNCHANGED batch
      BY <2>4 DEF Parks, ParkReleased, Leaves
    <2>5. ParkAlone \/ DrainTick => UNCHANGED batch
      BY DEF ParkAlone, DrainTick, parkVars
    <2> HIDE DEF Oldest
    <2> QED BY <1>1, <2>0, <2>1, <2>2, <2>3, <2>4, <2>5, DrainCloseInv, ParkSteps
  <1>2. GateInv /\ ParkInv /\ CallTypeOK /\ [GateNext]_gateVars => [Oldest]_gateVars
    BY <1>1
  <1> QED BY <1>2, GateSafe, PTL DEF GateSpec, ParkFIFO

\* The Gate uses the Scheduler as its own specification allows, so what is proved of the
\* Scheduler alone (no overtaking, the slot pool) holds behind the Gate.
THEOREM GateImplementsScheduler == GateSpec => SchedSpec /\ NoOvertaking /\ ImplementsPool
  <1>1. GateInit => SchedInit
    BY DEF GateInit
  <1>2. GateInv /\ [GateNext]_gateVars => [SchedNext]_schedVars
    BY GateDrivesScheduler
  <1>3. GateSpec => SchedSpec
    BY <1>1, <1>2, GateSafe, PTL DEF GateSpec, SchedSpec
  <1> QED BY <1>3, GrantsInOrder, SchedulerImplementsPool, PTL

=============================================================================
