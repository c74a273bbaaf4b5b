----------------------------- MODULE TdarrCoord -----------------------------
(***************************************************************************)
(* Tdarr's GPU workers have two writers who do not know of each other: the *)
(* yield Controller, which starts a PauseGPU or ResumeGPU on every change  *)
(* of its effective state and forgets it, and runTdarrSchedule of          *)
(* cmd/broker/main.go, which follows the weekly calendar of                *)
(* internal/schedule, remembers what it last did and tries again after a   *)
(* failure.  Both only set the limit of the workers through the client of  *)
(* internal/tdarr; the last call to take effect decides (gpuMgr).          *)
(***************************************************************************)
EXTENDS YieldController

CONSTANTS Times,          \* moments of the week, in order, as weekday and second of the day
          MaxFails        \* bound of the model: calls to Tdarr that fail

ASSUME TdarrAssumption == Times # <<>> /\ MaxFails \in Nat

VARIABLES mgrCalls,       \* the Controller's calls started and not finished, in no order
          gpuMgr,         \* Tdarr's GPU workers: "running" or "paused"
          now,            \* the moment it is, an index of Times
          schedPaused,    \* runTdarrSchedule: paused
          schedCall,      \* its call under way, "none" between ticks
          fails,          \* calls that have failed
          disturbed       \* the limit may be wrong, see Overlap, Lost and Right

schedVars == <<schedPaused, schedCall>>
tdarrVars == <<yctlVars, mgrCalls, gpuMgr, now, schedVars, fails, disturbed>>

MgrOps == {"pause", "resume"}

\* The broker starts with Tdarr as it finds it: nothing sets the limit at start-up, so that a
\* broker that was stopped during a pause finds the workers paused.
TdarrInit ==
  /\ YctlInit
  /\ mgrCalls = [op \in MgrOps |-> 0]
  /\ gpuMgr \in {"running", "paused"}
  /\ now = 1
  /\ schedPaused = FALSE /\ schedCall = "none"
  /\ fails = 0
  /\ disturbed = (gpuMgr = "paused")

-----------------------------------------------------------------------------
(* internal/schedule                                                       *)

Weekdays == {"Sun", "Mon", "Tue", "Wed", "Thu", "Fri", "Sat"}

windows ==
  {[name |-> "internal-scraper-service", days |-> {"Fri"},   hour |-> 2, duration |-> 5],
   [name |-> "safe-batch",               days |-> Weekdays, hour |-> 2, duration |-> 7]}

\* A slot is half open, and does not reach into the next day.
SlotContains(w, t) ==
  /\ t.day \in w.days
  /\ t.second >= w.hour * 3600 /\ t.second < (w.hour + w.duration) * 3600

Active(t) == {w \in windows : SlotContains(w, t)}

InWindow(name, t) == \E w \in Active(t) : w.name = name

SafeForBackgroundGPU(t) == ~InWindow("internal-scraper-service", t)

-----------------------------------------------------------------------------
(* The Controller's calls                                                  *)

\* What a call that takes effect does: PauseGPU sets the limit to 0, ResumeGPU to its old value.
Limit(op) == IF op = "pause" THEN "paused" ELSE "running"

\* applyLocked, on a change of the effective state: go pauseGPUMgr or go resumeGPUMgr.
StartMgr ==
  mgrCalls' = IF effective' = effective THEN mgrCalls
              ELSE [mgrCalls EXCEPT ![IF effective' THEN "pause" ELSE "resume"] = @ + 1]

\* A call gets its answer.  Several may be under way and any of them may be next.
MgrDone(op) ==
  /\ mgrCalls[op] > 0
  /\ mgrCalls' = [mgrCalls EXCEPT ![op] = @ - 1]
  /\ gpuMgr' = Limit(op)
  /\ UNCHANGED <<yctlVars, now, schedVars, fails>>

\* A call fails: pauseGPUMgr and resumeGPUMgr ignore it.
MgrFails(op) ==
  /\ mgrCalls[op] > 0 /\ fails < MaxFails
  /\ mgrCalls' = [mgrCalls EXCEPT ![op] = @ - 1]
  /\ fails' = fails + 1
  /\ UNCHANGED <<yctlVars, gpuMgr, now, schedVars>>

-----------------------------------------------------------------------------
(* runTdarrSchedule                                                        *)

\* A tick of the minute: a call is started if what is wanted has changed since the last call
\* that succeeded.
SchedTick ==
  /\ schedCall = "none"
  /\ SafeForBackgroundGPU(Times[now]) = schedPaused
  /\ schedCall' = IF schedPaused THEN "resume" ELSE "pause"
  /\ UNCHANGED <<yctlVars, mgrCalls, gpuMgr, now, schedPaused, fails>>

\* The call succeeds.
SchedDone ==
  /\ schedCall # "none"
  /\ gpuMgr' = Limit(schedCall)
  /\ schedPaused' = (schedCall = "pause")
  /\ schedCall' = "none"
  /\ UNCHANGED <<yctlVars, mgrCalls, now, fails>>

\* Faulty variant of SchedFails: the loop does not look at the error.
SchedFailsUnseen ==
  /\ schedCall # "none" /\ fails < MaxFails
  /\ schedPaused' = (schedCall = "pause")
  /\ schedCall' = "none"
  /\ fails' = fails + 1
  /\ UNCHANGED <<yctlVars, mgrCalls, gpuMgr, now>>

\* The call fails, Tdarr being down or refusing: paused keeps its value, for the next tick.
SchedFails ==
  /\ schedCall # "none" /\ fails < MaxFails
  /\ schedCall' = "none"
  /\ fails' = fails + 1
  /\ UNCHANGED <<yctlVars, mgrCalls, gpuMgr, now, schedPaused>>

\* It takes effect, and then times out.
SchedTimesOut ==
  /\ schedCall # "none" /\ fails < MaxFails
  /\ gpuMgr' = Limit(schedCall)
  /\ schedCall' = "none"
  /\ fails' = fails + 1
  /\ UNCHANGED <<yctlVars, mgrCalls, now, schedPaused>>

ClockAdvances ==
  /\ now' = (now % Len(Times)) + 1
  /\ UNCHANGED <<yctlVars, mgrCalls, gpuMgr, schedVars, fails>>

-----------------------------------------------------------------------------

Calls(op) == mgrCalls[op] > 0 \/ schedCall = op

\* No call is under way, and the limit is what the two writers want together.
Right ==
  /\ ~Calls("pause") /\ ~Calls("resume")
  /\ gpuMgr = "paused" <=> effective \/ schedPaused

\* The ways in which the limit can become wrong, and stay so until a later call happens to put
\* it right.  The writers get in each other's way: opposite calls under way at once, which may
\* take effect in either order; a resume by one writer while the other has paused.
Overlap ==
  \/ Calls("pause") /\ Calls("resume")
  \/ mgrCalls["resume"] > 0 /\ schedPaused
  \/ schedCall = "resume" /\ effective

\* A call of the Controller is lost; one of the schedule fails after it took effect.  And the
\* broker may find the workers paused when it starts (TdarrInit).
Lost == SchedTimesOut \/ \E op \in MgrOps : MgrFails(op)

Watch == disturbed' = ((disturbed \/ Overlap') /\ ~Right')

\* A step of the Controller and the world around it.
Ctl(A) == A /\ StartMgr /\ UNCHANGED <<gpuMgr, now, schedVars, fails>> /\ Watch

TdarrNext ==
  \/ Ctl(YctlNext)
  \/ (SchedTick \/ SchedDone \/ SchedFails \/ ClockAdvances) /\ Watch
  \/ (\E op \in MgrOps : MgrDone(op)) /\ Watch
  \/ Lost /\ disturbed' = ~Right'

TdarrSpec == TdarrInit /\ [][TdarrNext]_tdarrVars

\* The poll loop and the ticker tick; an action whose predecessor is done runs to its end (it
\* has a timeout of 30 s), and so does a call to Tdarr (10 s from the Controller, 5 s from the
\* schedule).
FairTdarrSpec ==
  /\ TdarrSpec
  /\ WF_tdarrVars(Ctl(Polling))
  /\ \A i \in Instances : WF_tdarrVars(Ctl(RunAction(i)))
  /\ \A op \in MgrOps : WF_tdarrVars(MgrDone(op) /\ Watch)
  /\ WF_tdarrVars(SchedTick /\ Watch)
  /\ WF_tdarrVars(SchedDone /\ Watch)

-----------------------------------------------------------------------------
(* Properties                                                              *)

\* Each writer sets the limit for itself alone, and yet the limit is right for both whenever no
\* call is under way: the workers are paused exactly if the Controller yields or the schedule
\* has paused them.  Only what is listed at Overlap, Lost and TdarrInit leads to another limit,
\* and only until it is right again.
LimitExact ==
  ~disturbed /\ ~Calls("pause") /\ ~Calls("resume") =>
    (gpuMgr = "paused" <=> effective \/ schedPaused)

\* The hours in which the comment on runTdarrSchedule wants the workers paused.
ScraperHours == Times[now].day = "Fri" /\ Times[now].second \div 3600 \in 2..6

\* Tdarr's workers end up paused if contention or the scraper's hours last, and running if
\* both are over, unless the limit is still wrong after one of the mishaps listed at Overlap,
\* Lost and TdarrInit.  A call of the schedule that fails without effect is no such mishap: the
\* next tick makes it again.
TdarrSettles ==
  /\ <>[](~disturbed /\ mode = "auto" /\ (~Detected("none", TRUE) \/ ScraperHours))
       => <>[](gpuMgr = "paused")
  /\ <>[](~disturbed /\ mode = "auto" /\ Detected("none", TRUE) /\ ~ScraperHours)
       => <>[](gpuMgr = "running")

=============================================================================
