--------------------------- MODULE YieldController --------------------------
(***************************************************************************)
(* internal/yield/yield.go: the Controller that decides when the GPU is    *)
(* yielded, swaps the serve context, and unloads or reloads every backend  *)
(* instance through one chain of actions per instance.  The idle-unload    *)
(* feature (ADR-0016) shares the chains: refresh unloads an instance that  *)
(* has been idle, and the first request that reaches it again reloads it.  *)
(*                                                                         *)
(* refresh, SetMode and the reload of a waking request run under c.mu; the *)
(* counters TrackActivity keeps are atomics, updated outside it, so the    *)
(* idle check of refresh is spread over several actions while it holds the *)
(* lock (poll = "checking").                                               *)
(*                                                                         *)
(* rpc[q] is where a tracked request is: "new"; "admitted" past the Gate;  *)
(* "counted" inFlight raised; "woke" it won the CompareAndSwap and has to  *)
(* order the reload; "serving"; "lowered" inFlight lowered, last stamp     *)
(* due; "done".                                                            *)
(***************************************************************************)
EXTENDS Naturals, Sequences, SequencesExt, FiniteSets

CONSTANTS Instances,      \* instances with an Unloader (the post-filter indexes)
          IdleInstances,  \* those with a nonzero idle timeout
          Reqs,           \* requests that reach an idle-tracked instance
          GamingRules,    \* the reasons of detect.gamingRules, in their order
          HasChecker,     \* whether a PlexSessionChecker is configured
          ConfirmPolls,   \* confirmPolls, clamped to at least 1
          MayFail,        \* whether an action on an instance may fail
          MayBlind,       \* whether a poll may go without the processes or Plex's answer
          MaxChanges      \* bound of the model: changes of contention and of mode, blind polls

\* The reasons Detect reports, and what it finds them from: the processes of games and of the
\* Plex transcoder, and Plex's own list of sessions.
Reasons == {"plex"} \cup Range(GamingRules)
Signals == {"transcoder", "session"} \cup Range(GamingRules)

ASSUME YieldAssumption ==
  /\ IdleInstances \subseteq Instances
  /\ ConfirmPolls \in Nat \ {0}
  /\ {"none", "plex", "transcoder", "session"} \cap Range(GamingRules) = {}
  /\ HasChecker \in BOOLEAN /\ MayFail \in BOOLEAN /\ MayBlind \in BOOLEAN
  /\ MaxChanges \in Nat

VARIABLES contention,     \* the signals of contention that are present
          changes,        \* how many of them there have been
          poll,           \* refresh: "idle", "detected" (before the lock), "checking"
          seen,           \* what Detect returned to the refresh in progress
          mode,           \* operator override
          confirmReason, confirmCount,
          autoContended,
          effective,      \* the state last acted on
          serveGen,       \* the serve contexts, numbered as they are made
          cancelled,      \* those that are cancelled
          chain,          \* per instance, the actions started and not finished, in order
          failed,         \* per instance, whether the last finished action failed
          unit,           \* per instance, "up" (holds VRAM) or "down"
          idleUnloaded,
          stale,          \* per instance, the idle timeout has passed since lastDispatch
          todo, hit,      \* checkIdleLocked: instances left, and one found idle
          rpc, at,        \* the requests, and the instance each is routed to
          history         \* what the last ConfirmPolls refreshes detected, latest last

pollVars  == <<poll, seen, todo, hit>>
decision  == <<mode, confirmReason, confirmCount, autoContended>>
serveVars == <<effective, serveGen, cancelled>>
unitVars  == <<failed, unit>>
envVars   == <<contention, changes>>
reqVars   == <<rpc, at>>
idleVars  == <<idleUnloaded, stale>>
yctlVars  == <<pollVars, decision, serveVars, chain, unitVars, envVars, reqVars, idleVars,
               history>>

Modes == {"auto", "yield", "serve"}

YctlInit ==
  /\ contention = {} /\ changes = 0
  /\ poll = "idle" /\ seen = "none" /\ todo = {} /\ hit = {}
  /\ mode = "auto" /\ confirmReason = "none" /\ confirmCount = 0 /\ autoContended = FALSE
  /\ effective = FALSE /\ serveGen = 0 /\ cancelled = {}
  /\ chain = [i \in Instances |-> <<>>]
  /\ failed = [i \in Instances |-> FALSE]
  /\ unit = [i \in Instances |-> "up"]
  /\ idleUnloaded = [i \in Instances |-> FALSE]
  /\ stale = [i \in Instances |-> FALSE]
  /\ rpc = [q \in Reqs |-> "new"]
  /\ at \in [Reqs -> IdleInstances]
  /\ history = <<>>

\* c.mu is free: only refresh keeps it across several actions.
MuFree == poll # "checking"

\* inFlight[i]: the handlers between their increment and their decrement.
InFlight(i) == {q \in Reqs : at[q] = i /\ rpc[q] \in {"counted", "woke", "serving"}}

\* computeLocked, which is also what Yielding() returns.
Compute(m, auto) == m = "yield" \/ (m = "auto" /\ auto)

Yielding == Compute(mode, autoContended)

-----------------------------------------------------------------------------
(* Transitions of the effective state                                      *)

\* startAction with the goroutine that will wait for its predecessor in the chain.
StartAction(i, op) ==
  chain' = [chain EXCEPT ![i] = Append(@, op)]

\* Faulty variant of Apply: a yield that ends does not reset the idle bookkeeping.
ApplyNoIdleReset(eff) ==
  \/ /\ eff = effective
     /\ UNCHANGED <<serveVars, chain, idleVars>>
  \/ /\ eff /\ ~effective
     /\ effective' = TRUE
     /\ cancelled' = cancelled \cup {serveGen}
     /\ chain' = [i \in Instances |-> Append(chain[i], "unload")]
     /\ UNCHANGED <<serveGen, idleVars>>
  \/ /\ ~eff /\ effective
     /\ effective' = FALSE
     /\ serveGen' = serveGen + 1
     /\ chain' = [i \in Instances |-> Append(chain[i], "reload")]
     /\ UNCHANGED <<cancelled, idleVars>>

\* applyLocked: on a change of the effective state, cancel or renew the serve context and
\* start an action on every instance; a cleared yield also resets the idle bookkeeping.  The
\* call to a GPU manager, if one is registered, is in TdarrCoord.
Apply(eff) ==
  \/ /\ eff = effective
     /\ UNCHANGED <<serveVars, chain, idleVars>>
  \/ /\ eff /\ ~effective
     /\ effective' = TRUE
     /\ cancelled' = cancelled \cup {serveGen}
     /\ chain' = [i \in Instances |-> Append(chain[i], "unload")]
     /\ UNCHANGED <<serveGen, idleVars>>
  \/ /\ ~eff /\ effective
     /\ effective' = FALSE
     /\ serveGen' = serveGen + 1
     /\ chain' = [i \in Instances |-> Append(chain[i], "reload")]
     /\ idleUnloaded' = [i \in Instances |-> FALSE]
     /\ stale' = [i \in Instances |-> FALSE]
     /\ UNCHANGED cancelled

\* Faulty variant of Debounce: a change of reason keeps the count.
DebounceAccumulates(d) ==
  /\ confirmReason' = d
  /\ confirmCount' = IF d = "none" THEN 0
                     ELSE IF confirmCount < ConfirmPolls THEN confirmCount + 1
                     ELSE confirmCount
  /\ autoContended' = (d # "none" /\ confirmCount' >= ConfirmPolls)

\* debounceLocked.  The count is only ever compared with ConfirmPolls, and stops there.
Debounce(d) ==
  /\ confirmReason' = d
  /\ confirmCount' = IF d = "none" THEN 0
                     ELSE IF d # confirmReason THEN 1
                     ELSE IF confirmCount < ConfirmPolls THEN confirmCount + 1
                     ELSE confirmCount
  /\ autoContended' = (d # "none" /\ confirmCount' >= ConfirmPolls)

-----------------------------------------------------------------------------
(* refresh and SetMode                                                     *)

\* A transcoder process counts if Plex confirms a session, cannot be asked, or need not be.
PlexPlaying(answers) ==
  "transcoder" \in contention /\ (~HasChecker \/ ~answers \/ "session" \in contention)

\* What Detect reports: Plex first, then the first gaming rule that matches.
Detected(d, answers) ==
  \/ d = "plex" /\ PlexPlaying(answers)
  \/ /\ ~PlexPlaying(answers)
     /\ \E k \in DOMAIN GamingRules :
          /\ d = GamingRules[k] /\ d \in contention
          /\ \A j \in DOMAIN GamingRules : j < k => GamingRules[j] \notin contention
  \/ d = "none" /\ ~PlexPlaying(answers) /\ Range(GamingRules) \cap contention = {}

\* det.Detect(), outside the lock: its result may be old by the time it is applied.
Detect ==
  /\ poll = "idle"
  /\ poll' = "detected"
  /\ seen' \in Reasons \cup {"none"}
  /\ Detected(seen', TRUE)
  /\ UNCHANGED <<todo, hit, decision, serveVars, chain, unitVars, envVars, reqVars, idleVars,
                 history>>

\* Detect without an answer from Plex, or, failing open, without a list of processes.
DetectBlind ==
  /\ MayBlind /\ changes < MaxChanges
  /\ poll = "idle"
  /\ poll' = "detected"
  /\ seen' \in Reasons \cup {"none"}
  /\ Detected(seen', FALSE) \/ seen' = "none"
  /\ changes' = changes + 1
  /\ UNCHANGED <<todo, hit, decision, serveVars, chain, unitVars, contention, reqVars,
                 idleVars, history>>

\* Faulty variant of Refresh: also checks instances without an idle timeout.
RefreshChecksAll ==
  /\ poll = "detected"
  /\ Debounce(seen)
  /\ Apply(Compute(mode, autoContended'))
  /\ poll' = "checking"
  /\ todo' = Instances
  /\ history' = LET h == Append(history, seen)
                IN  IF Len(h) > ConfirmPolls THEN Tail(h) ELSE h
  /\ UNCHANGED <<seen, hit, mode, unitVars, envVars, reqVars>>

\* The critical section of refresh up to the idle checks.
Refresh ==
  /\ poll = "detected"
  /\ Debounce(seen)
  /\ Apply(Compute(mode, autoContended'))
  /\ poll' = "checking"
  /\ todo' = IdleInstances
  /\ history' = LET h == Append(history, seen)
                IN  IF Len(h) > ConfirmPolls THEN Tail(h) ELSE h
  /\ UNCHANGED <<seen, hit, mode, unitVars, envVars, reqVars>>

\* checkIdleLocked looks at instance i: the counter, the flag and the timestamp are read here,
Idle(i) == ~effective /\ InFlight(i) = {} /\ ~idleUnloaded[i] /\ stale[i]

IdleLook(i) ==
  /\ poll = "checking" /\ hit = {}
  /\ i \in todo
  /\ todo' = todo \ {i}
  /\ hit' = IF Idle(i) THEN {i} ELSE {}
  /\ UNCHANGED <<poll, seen, decision, serveVars, chain, unitVars, envVars, reqVars, idleVars,
                 history>>

\* and the flag is raised and the unload ordered here.  Nobody else raises the flag, so the
\* CompareAndSwap succeeds.
IdleUnload(i) ==
  /\ poll = "checking"
  /\ i \in hit
  /\ hit' = {}
  /\ idleUnloaded' = [idleUnloaded EXCEPT ![i] = TRUE]
  /\ StartAction(i, "unload")
  /\ UNCHANGED <<poll, seen, todo, decision, serveVars, unitVars, envVars, reqVars,
                 stale, history>>

RefreshDone ==
  /\ poll = "checking" /\ todo = {} /\ hit = {}
  /\ poll' = "idle"
  /\ seen' = "none"
  /\ UNCHANGED <<todo, hit, decision, serveVars, chain, unitVars, envVars, reqVars, idleVars,
                 history>>

\* Faulty variant of SetMode: leaves it to the next poll to act on the new mode.
SetModeLazy(m) ==
  /\ MuFree
  /\ m # mode /\ changes < MaxChanges
  /\ mode' = m
  /\ changes' = changes + 1
  /\ UNCHANGED <<pollVars, confirmReason, confirmCount, autoContended, serveVars, chain,
                 unitVars, contention, reqVars, idleVars, history>>

SetMode(m) ==
  /\ MuFree
  /\ m # mode /\ changes < MaxChanges
  /\ mode' = m
  /\ Apply(Compute(m, autoContended))
  /\ changes' = changes + 1
  /\ UNCHANGED <<pollVars, confirmReason, confirmCount, autoContended, unitVars, contention,
                 reqVars, history>>

-----------------------------------------------------------------------------
(* doUnload and doReload: the oldest action of a chain runs, the others    *)
(* wait for its done channel, which closes whether or not it succeeds.     *)

\* Faulty variant of RunAction: an action does not wait for its predecessor.
RunActionUnordered(i) ==
  \E k \in DOMAIN chain[i] :
    /\ unit' = [unit EXCEPT ![i] = IF chain[i][k] = "unload" THEN "down" ELSE "up"]
    /\ failed' = [failed EXCEPT ![i] = FALSE]
    /\ chain' = [chain EXCEPT ![i] = RemoveAt(@, k)]
    /\ UNCHANGED <<pollVars, decision, serveVars, envVars, reqVars, idleVars,
                 history>>

RunAction(i) ==
  /\ chain[i] # <<>>
  /\ unit' = [unit EXCEPT ![i] = IF Head(chain[i]) = "unload" THEN "down" ELSE "up"]
  /\ failed' = [failed EXCEPT ![i] = FALSE]
  /\ chain' = [chain EXCEPT ![i] = Tail(@)]
  /\ UNCHANGED <<pollVars, decision, serveVars, envVars, reqVars, idleVars,
                 history>>

\* The call fails, times out or panics: logged, never retried.  A systemctl that has timed
\* out may have taken effect all the same.
FailAction(i) ==
  /\ MayFail
  /\ chain[i] # <<>>
  /\ failed' = [failed EXCEPT ![i] = TRUE]
  /\ \E u \in {unit[i], IF Head(chain[i]) = "unload" THEN "down" ELSE "up"} :
       unit' = [unit EXCEPT ![i] = u]
  /\ chain' = [chain EXCEPT ![i] = Tail(@)]
  /\ UNCHANGED <<pollVars, decision, serveVars, envVars, reqVars, idleVars,
                 history>>

-----------------------------------------------------------------------------
(* TrackActivity                                                           *)

ReqStep(q, from, to) == rpc[q] = from /\ rpc' = [rpc EXCEPT ![q] = to]

\* The Gate let the request through: it saw Yielding false.
ReqAdmit(q) ==
  /\ ReqStep(q, "new", "admitted")
  /\ ~Yielding /\ MuFree
  /\ UNCHANGED <<at, pollVars, decision, serveVars, chain, unitVars, envVars, idleVars,
                 history>>

\* inFlight raised and lastDispatch stamped.
TrackEnter(q) ==
  /\ ReqStep(q, "admitted", "counted")
  /\ stale' = [stale EXCEPT ![at[q]] = FALSE]
  /\ UNCHANGED <<at, pollVars, decision, serveVars, chain, unitVars, envVars, idleUnloaded,
                 history>>

\* idleUnloaded.CompareAndSwap(true, false), outside the lock.
TrackSwap(q) ==
  /\ ReqStep(q, "counted", IF idleUnloaded[at[q]] THEN "woke" ELSE "serving")
  /\ idleUnloaded' = [idleUnloaded EXCEPT ![at[q]] = FALSE]
  /\ UNCHANGED <<at, pollVars, decision, serveVars, chain, unitVars, envVars, stale, history>>

\* The winner orders the reload, under the lock.
TrackWake(q) ==
  /\ MuFree
  /\ ReqStep(q, "woke", "serving")
  /\ StartAction(at[q], "reload")
  /\ UNCHANGED <<at, pollVars, decision, serveVars, unitVars, envVars, idleVars,
                 history>>

\* next.ServeHTTP returns; the deferred function lowers inFlight,
TrackLeave(q) ==
  /\ ReqStep(q, "serving", "lowered")
  /\ UNCHANGED <<at, pollVars, decision, serveVars, chain, unitVars, envVars, idleVars,
                 history>>

\* then stamps lastDispatch.
TrackStamp(q) ==
  /\ ReqStep(q, "lowered", "done")
  /\ stale' = [stale EXCEPT ![at[q]] = FALSE]
  /\ UNCHANGED <<at, pollVars, decision, serveVars, chain, unitVars, envVars, idleUnloaded,
                 history>>

-----------------------------------------------------------------------------
(* The environment                                                         *)

\* A game, a transcode or a session starts or ends.
Contend(x) ==
  /\ changes < MaxChanges
  /\ contention' = (contention \ {x}) \cup ({x} \ contention)
  /\ changes' = changes + 1
  /\ UNCHANGED <<pollVars, decision, serveVars, chain, unitVars, reqVars, idleVars, history>>

\* The idle timeout passes without a dispatch.
TimePasses(i) ==
  /\ i \in IdleInstances
  /\ ~stale[i]
  /\ stale' = [stale EXCEPT ![i] = TRUE]
  /\ UNCHANGED <<pollVars, decision, serveVars, chain, unitVars, envVars, reqVars,
                 idleUnloaded, history>>

-----------------------------------------------------------------------------

Polling ==
  \/ Detect \/ DetectBlind \/ Refresh
  \/ \E i \in Instances : IdleLook(i) \/ IdleUnload(i)
  \/ RefreshDone

Tracked(q) ==
  \/ TrackEnter(q) \/ TrackSwap(q) \/ TrackWake(q) \/ TrackLeave(q) \/ TrackStamp(q)

YctlNext ==
  \/ Polling
  \/ \E m \in Modes : SetMode(m)
  \/ \E i \in Instances : RunAction(i) \/ FailAction(i) \/ TimePasses(i)
  \/ \E q \in Reqs : ReqAdmit(q) \/ Tracked(q)
  \/ \E x \in Signals : Contend(x)

YctlSpec == YctlInit /\ [][YctlNext]_yctlVars

\* The poll loop ticks; an action whose predecessor is done ends, well or badly, within its
\* 30 s; and the lock, which refresh frees between two polls, is handed to one who waits for it.
\* Nothing is assumed of requests that are being served.
FairYctlSpec ==
  /\ YctlSpec
  /\ WF_yctlVars(Polling)
  /\ \A i \in Instances : WF_yctlVars(RunAction(i) \/ FailAction(i))
  /\ \A q \in Reqs : WF_yctlVars(TrackSwap(q)) /\ SF_yctlVars(TrackWake(q))

-----------------------------------------------------------------------------
(* Properties                                                              *)

\* The values of the Controller's fields; refresh examines instances with an idle timeout only.
YctlTypeOK ==
  /\ contention \subseteq Signals /\ seen \in Reasons \cup {"none"}
  /\ changes \in Nat
  /\ poll \in {"idle", "detected", "checking"}
  /\ mode \in Modes
  /\ confirmReason \in Reasons \cup {"none"} /\ confirmCount \in 0..ConfirmPolls
  /\ autoContended \in BOOLEAN /\ effective \in BOOLEAN
  /\ serveGen \in Nat /\ cancelled \subseteq Nat
  /\ chain \in [Instances -> Seq({"unload", "reload"})]
  /\ failed \in [Instances -> BOOLEAN] /\ unit \in [Instances -> {"up", "down"}]
  /\ idleUnloaded \in [Instances -> BOOLEAN] /\ stale \in [Instances -> BOOLEAN]
  /\ todo \subseteq IdleInstances /\ hit \subseteq IdleInstances
  /\ rpc \in [Reqs -> {"new", "admitted", "counted", "woke", "serving", "lowered", "done"}]
  /\ at \in [Reqs -> IdleInstances]
  /\ history \in Seq(Reasons \cup {"none"})

\* debounceLocked reports contention exactly when the last ConfirmPolls polls all found the
\* same reason, whatever came before them.
DebounceExact ==
  autoContended <=> /\ Len(history) = ConfirmPolls
                    /\ \E d \in Reasons : \A k \in DOMAIN history : history[k] = d

\* The Controller gives the Gate what module Admission promises, with Yielding() computed
\* from mode and detection and the serve context swapped on the transitions acted on: the two
\* never disagree.
Adm == INSTANCE Admission WITH yielding <- Yielding
ImplementsAdmission == Adm!AdmSpec

\* Somebody is about to order a reload of i.
Waking(i) == \E q \in Reqs : at[q] = i /\ rpc[q] = "woke"

\* Once the chain of an instance has drained and its last action succeeded, the unit is where
\* the Controller wants it: down exactly while yielding for an instance without idle timeout,
\* and, out of a yield, down exactly while marked idle-unloaded for one with it.  No flap of
\* the contention, override or wake-up may leave a unit in the state of an earlier order.
UnitFollowsOrders ==
  \A i \in Instances :
    chain[i] = <<>> /\ ~failed[i] =>
      /\ i \notin IdleInstances => (unit[i] = "down" <=> effective)
      /\ i \in IdleInstances /\ ~effective /\ ~Waking(i) =>
           (unit[i] = "down" <=> idleUnloaded[i])

\* A request is on its way past the Gate and into the tracking of instance i.
Entering(i) == \E q \in Reqs : at[q] = i /\ rpc[q] \in {"admitted", "counted", "woke"}

\* Contention that lasts, with no override, ends with an instance unloaded for good, and
\* contention that is over with it loaded, however it flapped before, but for what the code
\* gives up: an action that fails is not tried again (failed); an instance that a request
\* enters while the GPU is being yielded may be woken and stay up; and without contention one
\* with an idle timeout may be down for having been idle.
GPUFollowsContention ==
  \A i \in Instances :
    /\ <>[](~Detected("none", TRUE) /\ mode = "auto") /\ [](effective => ~Entering(i))
         => <>[](unit[i] = "down" \/ failed[i])
    /\ <>[](Detected("none", TRUE) /\ mode = "auto")
         => <>[](unit[i] = "up" \/ failed[i] \/ idleUnloaded[i])

-----------------------------------------------------------------------------
(* A statement of the repository the code does not live up to              *)

\* ADR-0012: "Confirmation requirements apply to entry only."  So a confirmed contention is
\* given up only by a poll that finds none.
ConfirmationForEntryOnly ==
  [][autoContended /\ ~autoContended' => seen = "none"]_yctlVars

=============================================================================
