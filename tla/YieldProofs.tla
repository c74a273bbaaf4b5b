---------------------------- MODULE YieldProofs -----------------------------
(***************************************************************************)
(* The yield controller for any set of instances, requests and reasons and *)
(* any number of confirming polls: what the Gate reads of it is what       *)
(* module Admission promises, the debounce is exact, and a unit ends where *)
(* the last order wants it.  The last part puts Tdarr's two writers around *)
(* the Controller.                                                         *)
(***************************************************************************)
EXTENDS TdarrCoord, TLAPS

-----------------------------------------------------------------------------
(* The interface to the Gate.  Yielding() is computed from mode and        *)
(* detection; the serve context follows effective, the state last acted    *)
(* on.  The two agree whenever c.mu is free, because every critical        *)
(* section that changes mode or detection also runs applyLocked.           *)

ActedOn ==
  /\ effective \in BOOLEAN
  /\ autoContended \in BOOLEAN
  /\ effective <=> Yielding

LEMMA ActedOnInit ==
  ASSUME YctlInit
  PROVE  ActedOn /\ Adm!AdmInit
  BY DEF YctlInit, ActedOn, Yielding, Compute, Adm!AdmInit

\* applyLocked with the outcome eff of computeLocked, seen from the Gate.
LEMMA ApplyAdmission ==
  ASSUME ActedOn, NEW eff \in BOOLEAN, Apply(eff), Yielding' <=> eff,
         autoContended' \in BOOLEAN
  PROVE  ActedOn' /\ [Adm!YieldStart \/ Adm!YieldStop]_Adm!yieldVars
  <1>0. (Yielding \in BOOLEAN) /\ (Yielding' \in BOOLEAN)
    BY DEF Yielding, Compute
  <1>1. CASE eff = effective /\ UNCHANGED serveVars
    BY <1>0, <1>1 DEF serveVars, ActedOn, Adm!yieldVars
  <1>2. CASE /\ eff /\ ~effective
             /\ effective' = TRUE
             /\ cancelled' = cancelled \cup {serveGen}
             /\ UNCHANGED serveGen
    BY <1>0, <1>2 DEF ActedOn, Adm!YieldStart
  <1>3. CASE /\ ~eff /\ effective
             /\ effective' = FALSE
             /\ serveGen' = serveGen + 1
             /\ UNCHANGED cancelled
    BY <1>0, <1>3 DEF ActedOn, Adm!YieldStop
  <1> QED BY <1>1, <1>2, <1>3 DEF Apply

LEMMA ActedOnStep ==
  ASSUME ActedOn, [YctlNext]_yctlVars
  PROVE  ActedOn' /\ [Adm!YieldStart \/ Adm!YieldStop]_Adm!yieldVars
  <1>1. CASE Refresh
    <2>1. Apply(Compute(mode, autoContended')) /\ mode' = mode
      BY <1>1 DEF Refresh
    <2>2. autoContended' \in BOOLEAN
      BY <1>1 DEF Refresh, Debounce
    <2>3. Compute(mode, autoContended') \in BOOLEAN
      BY DEF Compute
    <2>4. Yielding' <=> Compute(mode, autoContended')
      BY <2>1 DEF Yielding, Compute
    <2> QED BY <2>1, <2>2, <2>3, <2>4, ApplyAdmission
  <1>2. ASSUME NEW m \in Modes, SetMode(m)
        PROVE  ActedOn' /\ [Adm!YieldStart \/ Adm!YieldStop]_Adm!yieldVars
    <2>1. Apply(Compute(m, autoContended)) /\ mode' = m /\ autoContended' = autoContended
      BY <1>2 DEF SetMode
    <2>2. autoContended' \in BOOLEAN
      BY <2>1 DEF ActedOn
    <2>3. Compute(m, autoContended) \in BOOLEAN
      BY DEF Compute
    <2>4. Yielding' <=> Compute(m, autoContended)
      BY <2>1 DEF Yielding, Compute
    <2> QED BY <2>1, <2>2, <2>3, <2>4, ApplyAdmission
  <1>3. ASSUME UNCHANGED <<decision, serveVars>>
        PROVE  ActedOn' /\ [Adm!YieldStart \/ Adm!YieldStop]_Adm!yieldVars
    BY <1>3 DEF decision, serveVars, ActedOn, Yielding, Compute, Adm!yieldVars
  <1>4. UNCHANGED yctlVars => UNCHANGED <<decision, serveVars>>
    BY DEF yctlVars
  <1>5. ASSUME YctlNext, ~Refresh, \A m \in Modes : ~SetMode(m)
        PROVE  UNCHANGED <<decision, serveVars>>
    <2>1. Polling => UNCHANGED <<decision, serveVars>>
      BY <1>5 DEF Polling, Detect, DetectBlind, IdleLook, IdleUnload, RefreshDone
    <2>2. ASSUME NEW i \in Instances, RunAction(i) \/ FailAction(i) \/ TimePasses(i)
          PROVE  UNCHANGED <<decision, serveVars>>
      BY <2>2 DEF RunAction, FailAction, TimePasses
    <2>3. ASSUME NEW q \in Reqs, ReqAdmit(q) \/ Tracked(q)
          PROVE  UNCHANGED <<decision, serveVars>>
      BY <2>3 DEF ReqAdmit, Tracked, TrackEnter, TrackSwap, TrackWake, TrackLeave, TrackStamp
    <2>4. ASSUME NEW x \in Signals, Contend(x)
          PROVE  UNCHANGED <<decision, serveVars>>
      BY <2>4 DEF Contend
    <2> QED BY <1>5, <2>1, <2>2, <2>3, <2>4 DEF YctlNext
  <1> QED BY <1>1, <1>2, <1>3, <1>4, <1>5

\* The Controller is what the Gate takes it for: a yield begins with the cancellation of the
\* current serve context and ends with a fresh one, in the step in which Yielding() changes,
\* whether the poll loop or the operator's override causes it (applyLocked, ServeContext).
THEOREM ControllerImplementsAdmission == YctlSpec => ImplementsAdmission
  <1>1. YctlInit => ActedOn /\ Adm!AdmInit
    BY ActedOnInit
  <1>2. ActedOn /\ [YctlNext]_yctlVars
          => ActedOn' /\ [Adm!YieldStart \/ Adm!YieldStop]_Adm!yieldVars
    BY ActedOnStep
  <1> QED BY <1>1, <1>2, PTL DEF YctlSpec, ImplementsAdmission, Adm!AdmSpec

-----------------------------------------------------------------------------
(* The debounce.  The invariant says what the two fields debounceLocked    *)
(* keeps know of the last ConfirmPolls polls: confirmReason is the latest  *)
(* one, confirmCount the number of polls since it last differed.           *)

CountsRun ==
  /\ history \in Seq(Reasons \cup {"none"}) /\ Len(history) <= ConfirmPolls
  /\ confirmReason \in Reasons \cup {"none"}
  /\ confirmCount \in 0..Len(history)
  /\ confirmReason = "none" <=> confirmCount = 0
  /\ Len(history) # 0 => history[Len(history)] = confirmReason
  /\ \A j \in 1..Len(history) :
       j > Len(history) - confirmCount => history[j] = confirmReason
  /\ confirmCount \in 1..Len(history) - 1 =>
       history[Len(history) - confirmCount] # confirmReason

DebounceInv ==
  /\ CountsRun
  /\ seen \in Reasons \cup {"none"}
  /\ autoContended \in BOOLEAN
  /\ autoContended <=> confirmCount = ConfirmPolls

LEMMA DebounceInit ==
  ASSUME YctlInit
  PROVE  DebounceInv
  <1>1. history \in Seq(Reasons \cup {"none"}) /\ Len(history) = 0 /\ confirmCount = 0
    BY DEF YctlInit
  <1>2. CountsRun
    BY <1>1, YieldAssumption DEF YctlInit, CountsRun
  <1>3. autoContended = FALSE /\ confirmCount # ConfirmPolls
    BY <1>1, YieldAssumption DEF YctlInit
  <1>4. seen \in Reasons \cup {"none"}
    BY DEF YctlInit
  <1> QED BY <1>2, <1>3, <1>4, Zenon DEF DebounceInv

\* The two shapes the recorded history takes when poll d is added to it.
LEMMA HistoryStep ==
  ASSUME NEW S, NEW h \in Seq(S), NEW d \in S, NEW P \in Nat \ {0}, Len(h) <= P,
         NEW g, g = LET a == Append(h, d) IN IF Len(a) > P THEN Tail(a) ELSE a
  PROVE  /\ g \in Seq(S)
         /\ \/ /\ Len(h) < P /\ Len(g) = Len(h) + 1
               /\ g[Len(h) + 1] = d
               /\ \A j \in 1..Len(h) : g[j] = h[j]
            \/ /\ Len(h) = P /\ Len(g) = P
               /\ g[P] = d
               /\ \A j \in 1..P - 1 : g[j] = h[j + 1]
  <1> DEFINE a == Append(h, d)
  <1>1. /\ a \in Seq(S) /\ Len(a) = Len(h) + 1 /\ Len(h) \in Nat
        /\ a[Len(h) + 1] = d /\ \A j \in 1..Len(h) : a[j] = h[j]
    OBVIOUS
  <1>2. CASE Len(h) < P
    BY <1>1, <1>2
  <1>3. CASE Len(h) = P
    <2>1. g = Tail(a)
      BY <1>1, <1>3
    <2>2. Tail(a) \in Seq(S) /\ Len(Tail(a)) = P /\ \A j \in 1..P : Tail(a)[j] = a[j + 1]
      BY <1>1, <1>3
    <2> QED BY <1>1, <1>3, <2>1, <2>2
  <1> QED BY <1>1, <1>2, <1>3

LEMMA DebounceStep ==
  ASSUME DebounceInv, Refresh
  PROVE  DebounceInv'
  <1> DEFINE n == Len(history)
             m == Len(history')
             P == ConfirmPolls
  <1>0. /\ history \in Seq(Reasons \cup {"none"}) /\ n \in Nat /\ n <= P /\ P \in Nat \ {0}
        /\ seen \in Reasons \cup {"none"} /\ confirmCount \in 0..n
    BY YieldAssumption DEF DebounceInv, CountsRun
  <1>1. /\ history' \in Seq(Reasons \cup {"none"})
        /\ \/ /\ n < P /\ m = n + 1
              /\ history'[n + 1] = seen
              /\ \A j \in 1..n : history'[j] = history[j]
           \/ /\ n = P /\ m = P
              /\ history'[P] = seen
              /\ \A j \in 1..P - 1 : history'[j] = history[j + 1]
    BY <1>0, HistoryStep DEF Refresh
  <1>2. /\ seen' = seen
        /\ confirmReason' = seen
        /\ confirmCount' = IF seen = "none" THEN 0
                           ELSE IF seen # confirmReason THEN 1
                           ELSE IF confirmCount < P THEN confirmCount + 1
                           ELSE confirmCount
        /\ autoContended' = (seen # "none" /\ confirmCount' >= P)
    BY DEF Refresh, Debounce, envVars
  <1>3. /\ m \in Nat /\ m <= P /\ m >= 1 /\ history'[m] = seen
        /\ DOMAIN history' = 1..m
    BY <1>0, <1>1
  <1> HIDE DEF n, m, P
  <1>4. CASE seen = "none"
    <2>1. confirmCount' = 0 /\ confirmReason' = "none" /\ autoContended' = FALSE
      BY <1>2, <1>4, <1>0
    <2>2. CountsRun'
      <3>1. \A j \in 1..m : ~(j > m - 0)
        BY <1>3
      <3>2. ~(0 \in 1..m - 1) /\ 0 \in 0..m
        BY <1>3
      <3> QED BY <1>1, <1>3, <1>4, <2>1, <3>1, <3>2 DEF CountsRun, m, P
    <2>3. autoContended' \in BOOLEAN /\ (autoContended' <=> confirmCount' = P)
      BY <1>0, <2>1
    <2> QED BY <1>0, <1>2, <2>2, <2>3 DEF DebounceInv, P
  <1>5. CASE seen # "none" /\ seen # confirmReason
    <2>1. confirmCount' = 1 /\ confirmReason' = seen /\ (autoContended' <=> 1 >= P)
      BY <1>2, <1>5
    <2>2. m > 1 => history'[m - 1] = history[n]
      BY <1>0, <1>1
    <2>3. m > 1 => history'[m - 1] # seen
      <3>1. m > 1 => n \in Nat \ {0}
        BY <1>0, <1>1
      <3>2. n # 0 => history[n] = confirmReason
        BY <1>0 DEF DebounceInv, CountsRun, n
      <3> QED BY <2>2, <3>1, <3>2, <1>5
    <2>4. CountsRun'
      <3>1. \A j \in 1..m : j > m - 1 => history'[j] = seen
        BY <1>3
      <3>2. 1 \in 1..m - 1 => history'[m - 1] # seen
        BY <1>3, <2>3
      <3>3. 1 \in 0..m
        BY <1>3
      <3>4. confirmReason' = seen /\ confirmCount' = 1 /\ seen \in Reasons \cup {"none"}
        BY <1>0, <2>1
      <3>5. confirmReason' = "none" <=> confirmCount' = 0
        BY <1>5, <3>4
      <3> QED BY <1>1, <1>3, <3>1, <3>2, <3>3, <3>4, <3>5 DEF CountsRun, m, P
    <2>5. autoContended' \in BOOLEAN /\ (autoContended' <=> confirmCount' = P)
      BY <1>0, <1>2, <2>1
    <2> QED BY <1>2, <1>0, <2>4, <2>5 DEF DebounceInv, P
  <1>6. CASE seen # "none" /\ seen = confirmReason
    <2> DEFINE c == confirmCount
    <2>1. /\ c \in 1..n
          /\ \A j \in 1..n : j > n - c => history[j] = seen
          /\ c \in 1..n - 1 => history[n - c] # seen
      BY <1>0, <1>6 DEF DebounceInv, CountsRun, n
    <2>2. confirmCount' = (IF c < P THEN c + 1 ELSE c) /\ confirmReason' = seen
      BY <1>2, <1>6
    <2> HIDE DEF c
    <2>3. confirmCount' \in 1..m
      BY <1>0, <1>1, <2>1, <2>2
    <2>4. ASSUME NEW j \in 1..m, j > m - confirmCount' PROVE history'[j] = seen
      BY <1>0, <1>1, <1>3, <2>1, <2>2, <2>4
    <2>5. ASSUME confirmCount' \in 1..m - 1 PROVE history'[m - confirmCount'] # seen
      BY <1>0, <1>1, <1>3, <2>1, <2>2, <2>5
    <2>6. CountsRun'
      <3>1. confirmCount' \in 0..m /\ confirmCount' # 0
        BY <1>3, <2>3
      <3> QED BY <1>0, <1>1, <1>3, <1>6, <2>2, <2>4, <2>5, <3>1 DEF CountsRun, m, P
    <2>7. autoContended' \in BOOLEAN /\ (autoContended' <=> confirmCount' = P)
      <3>1. confirmCount' >= P <=> confirmCount' = P
        BY <1>0, <1>3, <2>3
      <3> QED BY <1>2, <1>6, <3>1, Zenon
    <2> QED BY <1>2, <1>0, <2>6, <2>7 DEF DebounceInv, P
  <1> QED BY <1>4, <1>5, <1>6

\* Every other action leaves the debounce and the recorded polls alone.
LEMMA DebounceKept ==
  ASSUME DebounceInv, [YctlNext]_yctlVars
  PROVE  DebounceInv'
  <1> DEFINE Kept == UNCHANGED <<confirmReason, confirmCount, autoContended, history>>
             Reports == seen' \in Reasons \cup {"none"}
  <1>1. ASSUME Kept, Reports PROVE DebounceInv'
    BY <1>1 DEF DebounceInv, CountsRun
  <1>2. Detect \/ DetectBlind \/ RefreshDone => Kept /\ Reports
    BY DEF Detect, DetectBlind, RefreshDone, decision, envVars, DebounceInv
  <1> DEFINE Same == Kept /\ UNCHANGED seen
  <1>3. Same => Kept /\ Reports
    BY DEF DebounceInv
  <1>4. ASSUME NEW i \in Instances, IdleLook(i) \/ IdleUnload(i) PROVE Same
    BY <1>4 DEF IdleLook, IdleUnload, decision, envVars
  <1>5. ASSUME NEW m \in Modes, SetMode(m) PROVE Same
    BY <1>5 DEF SetMode, pollVars
  <1>6. ASSUME NEW i \in Instances, RunAction(i) \/ FailAction(i) \/ TimePasses(i) PROVE Same
    BY <1>6 DEF RunAction, FailAction, TimePasses, decision, envVars, pollVars
  <1>7. ASSUME NEW q \in Reqs, ReqAdmit(q) \/ Tracked(q) PROVE Same
    BY <1>7 DEF ReqAdmit, Tracked, TrackEnter, TrackSwap, TrackWake, TrackLeave, TrackStamp,
                decision, envVars, pollVars
  <1>8. ASSUME NEW x \in Signals, Contend(x) PROVE Kept /\ Reports
    BY <1>8 DEF Contend, decision, pollVars, DebounceInv
  <1>9. UNCHANGED yctlVars => Same
    BY DEF yctlVars, decision, envVars, pollVars
  <1> HIDE DEF Kept, Reports, Same
  <1> QED BY <1>1, <1>2, <1>3, <1>4, <1>5, <1>6, <1>7, <1>8, <1>9, DebounceStep
          DEF YctlNext, Polling

LEMMA NoneIsNoReason == "none" \notin Reasons
  BY YieldAssumption DEF Reasons

LEMMA DebounceInvExact ==
  ASSUME DebounceInv
  PROVE  DebounceExact
  <1> USE DEF DebounceInv, CountsRun
  <1>1. DOMAIN history = 1..Len(history) /\ Len(history) \in Nat /\ ConfirmPolls \in Nat \ {0}
    BY YieldAssumption
  <1>2. ASSUME confirmCount = ConfirmPolls
        PROVE  /\ Len(history) = ConfirmPolls
               /\ \E d \in Reasons : \A k \in DOMAIN history : history[k] = d
    <2>1. Len(history) = ConfirmPolls
      <3> DEFINE n == Len(history)
      <3>1. confirmCount <= n /\ n <= ConfirmPolls /\ n \in Nat
        BY <1>1
      <3> HIDE DEF n, DebounceInv, CountsRun
      <3>2. n = ConfirmPolls
        BY <1>1, <1>2, <3>1
      <3> QED BY <3>2 DEF n
    <2>2. confirmReason \in Reasons
      <3>1. confirmCount # 0
        BY <1>1, <1>2
      <3> QED BY <3>1
    <2>3. \A k \in DOMAIN history : history[k] = confirmReason
      BY <1>1, <1>2, <2>1
    <2> QED BY <2>1, <2>2, <2>3
  <1>3. ASSUME Len(history) = ConfirmPolls, NEW d \in Reasons,
               \A k \in DOMAIN history : history[k] = d
        PROVE  confirmCount = ConfirmPolls
    <2>1. confirmReason = d /\ d # "none"
      BY <1>1, <1>3, NoneIsNoReason
    <2>2. confirmCount \in 1..Len(history)
      BY <1>1, <2>1
    <2>3. confirmCount \notin 1..Len(history) - 1
      <3>1. SUFFICES ASSUME confirmCount \in 1..Len(history) - 1 PROVE FALSE
        OBVIOUS
      <3>2. Len(history) - confirmCount \in DOMAIN history
        BY <1>1, <3>1
      <3> QED BY <1>3, <2>1, <3>1, <3>2
    <2> QED BY <1>1, <1>3, <2>2, <2>3
  <1> QED BY <1>2, <1>3 DEF DebounceExact

\* Contention is reported upward exactly when the last ConfirmPolls polls found one and the
\* same reason, for any history of detections and any confirmPolls (debounceLocked).
THEOREM DebounceIsExact == YctlSpec => []DebounceExact
  <1>1. YctlInit => DebounceInv
    BY DebounceInit
  <1>2. DebounceInv /\ [YctlNext]_yctlVars => DebounceInv'
    BY DebounceKept
  <1>3. DebounceInv => DebounceExact
    BY DebounceInvExact
  <1> QED BY <1>1, <1>2, <1>3, PTL DEF YctlSpec

-----------------------------------------------------------------------------
(* Types, one conjunct for each group of variables an action leaves alone  *)
(* or changes together.  The fields of the debounce are in DebounceInv.    *)

Ops == {"unload", "reload"}

PollOK ==
  /\ poll \in {"idle", "detected", "checking"} /\ seen \in Reasons \cup {"none"}
  /\ todo \subseteq IdleInstances /\ hit \subseteq IdleInstances
ServeOK == serveGen \in Nat /\ cancelled \subseteq Nat
UnitOK == failed \in [Instances -> BOOLEAN] /\ unit \in [Instances -> {"up", "down"}]
EnvOK == contention \subseteq Signals /\ changes \in Nat
ReqOK ==
  /\ rpc \in [Reqs -> {"new", "admitted", "counted", "woke", "serving", "lowered", "done"}]
  /\ at \in [Reqs -> IdleInstances]
IdleOK ==
  idleUnloaded \in [Instances -> BOOLEAN] /\ stale \in [Instances -> BOOLEAN]
ChainOK == chain \in [Instances -> Seq(Ops)]

TypeInv ==
  /\ PollOK /\ ServeOK /\ UnitOK /\ EnvOK /\ ReqOK /\ IdleOK /\ ChainOK
  /\ mode \in Modes

LEMMA TypeInvInit ==
  ASSUME YctlInit
  PROVE  TypeInv
  <1>1. PollOK /\ EnvOK /\ ReqOK /\ mode \in Modes
    BY DEF YctlInit, PollOK, EnvOK, ReqOK, Modes
  <1>2. UnitOK /\ IdleOK
    BY DEF YctlInit, UnitOK, IdleOK
  <1>3. serveGen \in Nat /\ cancelled \subseteq Nat
    BY DEF YctlInit
  <1>4. ChainOK
    BY DEF YctlInit, ChainOK
  <1> QED BY <1>1, <1>2, <1>3, <1>4 DEF TypeInv, ServeOK

LEMMA ApplyTyped ==
  ASSUME TypeInv, NEW eff, Apply(eff)
  PROVE  ServeOK' /\ ChainOK' /\ IdleOK'
  <1>0. ServeOK /\ ChainOK /\ IdleOK
    BY DEF TypeInv
  <1>1. ASSUME NEW op \in Ops, chain' = [i \in Instances |-> Append(chain[i], op)]
        PROVE  ChainOK'
    BY <1>0, <1>1 DEF ChainOK
  <1>2. CASE UNCHANGED <<serveVars, chain, idleVars>>
    BY <1>0, <1>2 DEF serveVars, idleVars, ServeOK, ChainOK, IdleOK
  <1>3. CASE /\ serveGen' = serveGen /\ cancelled' = cancelled \cup {serveGen}
             /\ chain' = [i \in Instances |-> Append(chain[i], "unload")]
             /\ UNCHANGED idleVars
    BY <1>0, <1>1, <1>3 DEF idleVars, ServeOK, IdleOK, Ops
  <1>4. CASE /\ serveGen' = serveGen + 1 /\ cancelled' = cancelled
             /\ chain' = [i \in Instances |-> Append(chain[i], "reload")]
             /\ idleUnloaded' = [i \in Instances |-> FALSE]
             /\ stale' = [i \in Instances |-> FALSE]
    BY <1>0, <1>1, <1>4 DEF ServeOK, IdleOK, Ops
  <1> QED BY <1>2, <1>3, <1>4, Zenon DEF Apply

\* StartAction, and the end of the oldest action, keep a chain a sequence of orders.
LEMMA ChainTyped ==
  ASSUME ChainOK, NEW i \in Instances,
         \/ \E op \in Ops : StartAction(i, op)
         \/ chain[i] # <<>> /\ chain' = [chain EXCEPT ![i] = Tail(@)]
  PROVE  ChainOK'
  <1>1. chain[i] \in Seq(Ops)
    BY DEF ChainOK
  <1>2. CASE \E op \in Ops : StartAction(i, op)
    <2>1. PICK op \in Ops : chain' = [chain EXCEPT ![i] = Append(chain[i], op)]
      BY <1>2 DEF StartAction
    <2>2. Append(chain[i], op) \in Seq(Ops)
      BY <1>1
    <2> QED BY <2>1, <2>2 DEF ChainOK
  <1>3. CASE chain[i] # <<>> /\ chain' = [chain EXCEPT ![i] = Tail(@)]
    <2>1. Tail(chain[i]) \in Seq(Ops)
      BY <1>1, <1>3
    <2> QED BY <1>3, <2>1 DEF ChainOK
  <1> QED BY <1>2, <1>3

LEMMA TypeInvStep ==
  ASSUME TypeInv, [YctlNext]_yctlVars
  PROVE  TypeInv'
  <1>0. /\ PollOK /\ ServeOK /\ UnitOK /\ EnvOK /\ ReqOK /\ IdleOK /\ ChainOK
        /\ mode \in Modes
    BY DEF TypeInv
  <1>1. /\ UNCHANGED pollVars => PollOK'
        /\ UNCHANGED serveVars => ServeOK'
        /\ UNCHANGED unitVars => UnitOK'
        /\ UNCHANGED envVars => EnvOK'
        /\ UNCHANGED reqVars => ReqOK'
        /\ UNCHANGED idleVars => IdleOK'
        /\ UNCHANGED chain => ChainOK'
        /\ UNCHANGED decision => mode' \in Modes
    BY <1>0 DEF pollVars, serveVars, unitVars, envVars, reqVars, idleVars, decision,
                PollOK, ServeOK, UnitOK, EnvOK, ReqOK, IdleOK, ChainOK
  <1>2. CASE Detect \/ DetectBlind \/ RefreshDone
    <2>1. PollOK'
      BY <1>0, <1>2 DEF Detect, DetectBlind, RefreshDone, PollOK
    <2>2. EnvOK'
      <3>1. UNCHANGED envVars \/ (UNCHANGED contention /\ changes' = changes + 1)
        BY <1>2, Zenon DEF Detect, DetectBlind, RefreshDone
      <3> QED BY <1>0, <1>1, <3>1 DEF EnvOK
    <2> QED BY <1>1, <1>2, <2>1, <2>2 DEF Detect, DetectBlind, RefreshDone, TypeInv
  <1>3. CASE Refresh
    <2>1. PollOK'
      BY <1>0, <1>3 DEF Refresh, PollOK
    <2> QED BY <1>0, <1>1, <1>3, <2>1, ApplyTyped DEF Refresh, TypeInv
  <1>4. ASSUME NEW i \in Instances, IdleLook(i) PROVE TypeInv'
    <2>1. PollOK'
      BY <1>0, <1>4 DEF IdleLook, PollOK
    <2> QED BY <1>1, <1>4, <2>1 DEF IdleLook, TypeInv
  <1>5. ASSUME NEW i \in Instances, IdleUnload(i) PROVE TypeInv'
    <2>1. PollOK'
      BY <1>0, <1>5 DEF IdleUnload, PollOK
    <2>2. IdleOK'
      BY <1>0, <1>5 DEF IdleUnload, IdleOK
    <2>3. ChainOK'
      BY <1>0, <1>5, ChainTyped DEF IdleUnload, Ops
    <2> QED BY <1>1, <1>5, <2>1, <2>2, <2>3 DEF IdleUnload, TypeInv
  <1>6. ASSUME NEW m \in Modes, SetMode(m) PROVE TypeInv'
    <2>1. EnvOK'
      BY <1>0, <1>6 DEF SetMode, EnvOK
    <2> QED BY <1>1, <1>6, <2>1, ApplyTyped DEF SetMode, TypeInv
  <1>7. ASSUME NEW i \in Instances, RunAction(i) \/ FailAction(i) PROVE TypeInv'
    <2>1. UnitOK'
      BY <1>0, <1>7 DEF RunAction, FailAction, UnitOK
    <2>2. ChainOK'
      BY <1>0, <1>7, ChainTyped DEF RunAction, FailAction
    <2> QED BY <1>1, <1>7, <2>1, <2>2 DEF RunAction, FailAction, TypeInv
  <1>8. ASSUME NEW i \in Instances, TimePasses(i) PROVE TypeInv'
    <2>1. IdleOK'
      BY <1>0, <1>8 DEF TimePasses, IdleOK
    <2> QED BY <1>1, <1>8, <2>1 DEF TimePasses, TypeInv
  <1>9. ASSUME NEW q \in Reqs, ReqAdmit(q) \/ TrackLeave(q) PROVE TypeInv'
    <2>1. ReqOK'
      BY <1>0, <1>9 DEF ReqAdmit, TrackLeave, ReqStep, ReqOK
    <2> QED BY <1>1, <1>9, <2>1 DEF ReqAdmit, TrackLeave, TypeInv
  <1>10. ASSUME NEW q \in Reqs, TrackEnter(q) \/ TrackStamp(q) PROVE TypeInv'
    <2>1. ReqOK' /\ IdleOK'
      BY <1>0, <1>10 DEF TrackEnter, TrackStamp, ReqStep, ReqOK, IdleOK
    <2> QED BY <1>1, <1>10, <2>1 DEF TrackEnter, TrackStamp, TypeInv
  <1>11. ASSUME NEW q \in Reqs, TrackSwap(q) PROVE TypeInv'
    <2>1. ReqOK' /\ IdleOK'
      BY <1>0, <1>11 DEF TrackSwap, ReqStep, ReqOK, IdleOK
    <2> QED BY <1>1, <1>11, <2>1 DEF TrackSwap, TypeInv
  <1>12. ASSUME NEW q \in Reqs, TrackWake(q) PROVE TypeInv'
    <2>1. ReqOK'
      BY <1>0, <1>12 DEF TrackWake, ReqStep, ReqOK
    <2>2. at[q] \in Instances
      BY <1>0, YieldAssumption DEF ReqOK
    <2>3. ChainOK'
      BY <1>0, <1>12, <2>2, ChainTyped DEF TrackWake, Ops
    <2> QED BY <1>1, <1>12, <2>1, <2>3 DEF TrackWake, TypeInv
  <1>13. ASSUME NEW x \in Signals, Contend(x) PROVE TypeInv'
    <2>1. EnvOK'
      BY <1>0, <1>13 DEF Contend, EnvOK
    <2> QED BY <1>1, <1>13, <2>1 DEF Contend, TypeInv
  <1>14. CASE UNCHANGED yctlVars
    BY <1>1, <1>14 DEF yctlVars, TypeInv
  <1> QED BY <1>2, <1>3, <1>4, <1>5, <1>6, <1>7, <1>8, <1>9, <1>10, <1>11, <1>12, <1>13,
             <1>14
          DEF YctlNext, Polling, Tracked

LEMMA YieldSafe == YctlSpec => [](TypeInv /\ ActedOn /\ DebounceInv)
  <1>1. YctlInit => TypeInv /\ ActedOn /\ DebounceInv
    BY TypeInvInit, ActedOnInit, DebounceInit
  <1>2. TypeInv /\ ActedOn /\ DebounceInv /\ [YctlNext]_yctlVars
          => (TypeInv /\ ActedOn /\ DebounceInv)'
    BY TypeInvStep, ActedOnStep, DebounceKept
  <1> QED BY <1>1, <1>2, PTL DEF YctlSpec

\* The Controller's fields keep their types: refresh only ever examines, and TrackActivity
\* only ever wakes, an instance with an idle timeout, and the debounce count never passes
\* ConfirmPolls.
THEOREM ControllerTyped == YctlSpec => []YctlTypeOK
  <1>1. ASSUME TypeInv, ActedOn, DebounceInv PROVE YctlTypeOK
    <2>1. confirmCount \in 0..ConfirmPolls
      <3> DEFINE n == Len(history)
      <3>1. confirmCount \in 0..n /\ n \in Nat /\ n <= ConfirmPolls /\ ConfirmPolls \in Nat
        BY <1>1, YieldAssumption DEF DebounceInv, CountsRun
      <3> HIDE DEF n
      <3> QED BY <3>1
    <2>2. /\ confirmReason \in Reasons \cup {"none"}
          /\ history \in Seq(Reasons \cup {"none"})
      BY <1>1 DEF DebounceInv, CountsRun
    <2>3. autoContended \in BOOLEAN /\ effective \in BOOLEAN
      BY <1>1 DEF ActedOn
    <2>4. PollOK /\ ServeOK /\ UnitOK /\ EnvOK /\ ReqOK /\ IdleOK /\ ChainOK /\ mode \in Modes
      BY <1>1 DEF TypeInv
    <2> QED BY <2>1, <2>2, <2>3, <2>4, Zenon
            DEF PollOK, ServeOK, UnitOK, EnvOK, ReqOK, IdleOK, ChainOK, Ops, YctlTypeOK
  <1> QED BY <1>1, YieldSafe, PTL

-----------------------------------------------------------------------------
(* The units follow the orders.  The property speaks of drained chains;    *)
(* the invariant speaks of the last order given, whether it has run or     *)
(* not.  For an instance with an idle timeout it also needs that nobody    *)
(* marks it idle-unloaded while a woken request still owes it a reload: a  *)
(* waking request is counted in flight, so the idle check passes it over,  *)
(* and the instance an idle check has picked is neither marked nor woken.  *)

Settled(i) == chain[i] # <<>> \/ ~failed[i]

\* What the last action ordered on i does, or, when its chain has drained, did.
Ordered(i) ==
  IF chain[i] # <<>> THEN chain[i][Len(chain[i])]
  ELSE IF unit[i] = "down" THEN "unload" ELSE "reload"

OrdersRight(i) ==
  Settled(i) =>
    /\ i \notin IdleInstances => (Ordered(i) = "unload" <=> effective)
    /\ i \in IdleInstances /\ ~effective /\ ~Waking(i) =>
         (Ordered(i) = "unload" <=> idleUnloaded[i])

OrderInv ==
  /\ \A i \in Instances : OrdersRight(i)
  /\ \A i \in Instances : Waking(i) => ~idleUnloaded[i]
  /\ \A i \in hit : ~Waking(i) /\ ~idleUnloaded[i]

LEMMA OrderInvInit ==
  ASSUME YctlInit
  PROVE  OrderInv
  <1>1. \A i \in Instances : ~Waking(i) /\ ~idleUnloaded[i]
    BY DEF YctlInit, Waking
  <1>2. \A i \in Instances : Ordered(i) = "reload" /\ ~effective
    BY DEF YctlInit, Ordered
  <1>3. hit = {}
    BY DEF YctlInit
  <1> QED BY <1>1, <1>2, <1>3 DEF OrderInv, OrdersRight

\* An order becomes the last one of its chain.
LEMMA OrderGiven ==
  ASSUME ChainOK, NEW i \in Instances, NEW op \in Ops, chain'[i] = Append(chain[i], op)
  PROVE  Settled(i)' /\ Ordered(i)' = op
  <1>1. chain[i] \in Seq(Ops)
    BY DEF ChainOK
  <1>2. /\ chain'[i] # <<>>
        /\ chain'[i][Len(chain'[i])] = op
    BY <1>1
  <1> QED BY <1>2 DEF Settled, Ordered

\* The end of the oldest action of a chain leaves the last order what it was.
LEMMA OrderRuns ==
  ASSUME TypeInv, NEW j \in Instances, RunAction(j) \/ FailAction(j), NEW i \in Instances
  PROVE  Settled(i)' => Settled(i) /\ Ordered(i)' = Ordered(i)
  <1> DEFINE u == IF Head(chain[j]) = "unload" THEN "down" ELSE "up"
  <1>0. /\ chain \in [Instances -> Seq(Ops)] /\ failed \in [Instances -> BOOLEAN]
        /\ unit \in [Instances -> {"up", "down"}]
    BY DEF TypeInv, ChainOK, UnitOK
  <1>1. chain[j] # <<>> /\ chain' = [chain EXCEPT ![j] = Tail(chain[j])]
    BY DEF RunAction, FailAction
  <1>2. \/ unit' = [unit EXCEPT ![j] = u] /\ failed' = [failed EXCEPT ![j] = FALSE]
        \/ failed' = [failed EXCEPT ![j] = TRUE] /\ \E v : unit' = [unit EXCEPT ![j] = v]
    BY Zenon DEF RunAction, FailAction
  <1>3. CASE i # j
    <2>1. chain'[i] = chain[i] /\ unit'[i] = unit[i] /\ failed'[i] = failed[i]
      BY <1>0, <1>1, <1>2, <1>3
    <2> QED BY <2>1 DEF Settled, Ordered
  <1>4. CASE i = j
    <2>1. chain'[i] = Tail(chain[i]) /\ chain[i] \in Seq(Ops) /\ chain[i] # <<>>
      BY <1>0, <1>1, <1>4
    <2>2. Settled(i)
      BY <2>1 DEF Settled
    <2>3. CASE chain'[i] # <<>>
      <3>1. chain'[i][Len(chain'[i])] = chain[i][Len(chain[i])]
        BY <2>1, <2>3
      <3> QED BY <2>1, <2>2, <2>3, <3>1 DEF Ordered
    <2>4. CASE chain'[i] = <<>> /\ Settled(i)'
      <3>1. ~failed'[i]
        BY <2>4 DEF Settled
      <3>2. unit'[i] = u
        BY <1>0, <1>2, <1>4, <3>1
      <3>3. chain[i][Len(chain[i])] = Head(chain[i]) /\ Head(chain[i]) \in Ops
        <4> DEFINE c == chain[i]
        <4>1. c \in Seq(Ops) /\ c # <<>> /\ Tail(c) = <<>>
          BY <2>1, <2>4
        <4> HIDE DEF c
        <4>2. Len(Tail(c)) = Len(c) - 1 /\ Len(c) \in Nat
          BY <4>1
        <4>3. Len(<<>>) = 0
          OBVIOUS
        <4>4. Len(c) = 1
          <5>1. Len(c) - 1 = 0
            BY <4>1, <4>2, <4>3, Zenon
          <5> QED BY <4>2, <5>1
        <4>5. Head(c) = c[1] /\ Head(c) \in Ops
          BY <4>1
        <4> QED BY <4>4, <4>5 DEF c
      <3>4. Ordered(i)' = Head(chain[i])
        BY <1>4, <2>4, <3>2, <3>3 DEF Ordered, Ops
      <3> QED BY <2>1, <2>2, <3>3, <3>4 DEF Ordered
    <2> QED BY <2>3, <2>4
  <1> QED BY <1>3, <1>4

\* A step that gives no order, moves no request into or out of the wake-up, and keeps what
\* the orders depend on.
LEMMA OrderKept ==
  ASSUME OrderInv, UNCHANGED <<effective, idleUnloaded>>, hit' \subseteq hit,
         \A i \in Instances : /\ Settled(i)' => Settled(i) /\ Ordered(i)' = Ordered(i)
                              /\ Waking(i)' <=> Waking(i),
         hit \subseteq Instances
  PROVE  OrderInv'
  <1>1. ASSUME NEW i \in Instances PROVE OrdersRight(i)'
    BY <1>1 DEF OrderInv, OrdersRight
  <1>2. ASSUME NEW i \in Instances, Waking(i)' PROVE ~idleUnloaded'[i]
    BY <1>2 DEF OrderInv
  <1>3. ASSUME NEW i \in hit' PROVE ~Waking(i)' /\ ~idleUnloaded'[i]
    BY <1>3 DEF OrderInv
  <1> QED BY <1>1, <1>2, <1>3 DEF OrderInv

\* applyLocked orders every instance the same way and settles what is wanted of all of them.
LEMMA OrderApplied ==
  ASSUME OrderInv, TypeInv, effective \in BOOLEAN, NEW eff \in BOOLEAN, Apply(eff),
         UNCHANGED <<unitVars, reqVars, hit>>
  PROVE  OrderInv'
  <1>0. ChainOK /\ hit \subseteq Instances
    BY YieldAssumption DEF TypeInv, PollOK
  <1>1. \A i \in Instances : Waking(i)' <=> Waking(i)
    BY DEF Waking, reqVars
  <1>2. CASE UNCHANGED <<serveVars, chain, idleVars>>
    <2>1. \A i \in Instances : Settled(i)' => Settled(i) /\ Ordered(i)' = Ordered(i)
      BY <1>2 DEF Settled, Ordered, unitVars
    <2>2. UNCHANGED <<effective, idleUnloaded>>
      BY <1>2 DEF serveVars, idleVars
    <2> QED BY <1>0, <1>1, <2>1, <2>2, OrderKept
  <1>3. CASE /\ effective' = TRUE
             /\ chain' = [i \in Instances |-> Append(chain[i], "unload")]
             /\ UNCHANGED idleVars
    <2>1. \A i \in Instances : Ordered(i)' = "unload"
      BY <1>0, <1>3, OrderGiven DEF Ops
    <2>2. \A i \in Instances : OrdersRight(i)'
      BY <1>3, <2>1 DEF OrdersRight
    <2> QED BY <1>0, <1>1, <1>3, <2>2 DEF OrderInv, idleVars
  <1>4. CASE /\ effective' = FALSE
             /\ chain' = [i \in Instances |-> Append(chain[i], "reload")]
             /\ idleUnloaded' = [i \in Instances |-> FALSE]
    <2>1. \A i \in Instances : Ordered(i)' = "reload" /\ ~idleUnloaded'[i]
      BY <1>0, <1>4, OrderGiven DEF Ops
    <2>2. \A i \in Instances : OrdersRight(i)'
      BY <1>4, <2>1 DEF OrdersRight
    <2> QED BY <1>0, <1>1, <2>1, <2>2 DEF OrderInv
  <1> QED BY <1>2, <1>3, <1>4, Zenon DEF Apply

\* An order on one instance: the others keep theirs.
LEMMA OrderOne ==
  ASSUME ChainOK, NEW j \in Instances, NEW op \in Ops, StartAction(j, op),
         UNCHANGED unitVars, NEW i \in Instances, i # j
  PROVE  (Settled(i)' <=> Settled(i)) /\ Ordered(i)' = Ordered(i)
  <1>1. chain'[i] = chain[i]
    BY DEF StartAction, ChainOK
  <1> QED BY <1>1 DEF Settled, Ordered, unitVars

LEMMA OrderInvStep ==
  ASSUME OrderInv, TypeInv, ActedOn, [YctlNext]_yctlVars
  PROVE  OrderInv'
  <1>0. /\ ChainOK /\ hit \subseteq IdleInstances /\ IdleInstances \subseteq Instances
        /\ effective \in BOOLEAN
        /\ idleUnloaded \in [Instances -> BOOLEAN]
        /\ rpc \in [Reqs -> {"new", "admitted", "counted", "woke", "serving", "lowered", "done"}]
        /\ at \in [Reqs -> IdleInstances]
    BY YieldAssumption DEF TypeInv, PollOK, ReqOK, IdleOK, ActedOn
  <1>1. UNCHANGED <<chain, unitVars>>
          => \A i \in Instances : Settled(i)' => Settled(i) /\ Ordered(i)' = Ordered(i)
    BY DEF Settled, Ordered, unitVars
  <1>2. UNCHANGED reqVars => \A i \in Instances : Waking(i)' <=> Waking(i)
    BY DEF Waking, reqVars
  <1>3. ASSUME NEW q \in Reqs, NEW l, rpc' = [rpc EXCEPT ![q] = l], UNCHANGED at
        PROVE  \A i \in Instances : i # at[q] => (Waking(i)' <=> Waking(i))
    BY <1>0, <1>3 DEF Waking
  <1>4. ASSUME NEW q \in Reqs, NEW l, rpc' = [rpc EXCEPT ![q] = l], UNCHANGED at,
               rpc[q] # "woke", l # "woke"
        PROVE  \A i \in Instances : Waking(i)' <=> Waking(i)
    BY <1>0, <1>4 DEF Waking
  <1>5. CASE Refresh
    <2>1. Compute(mode, autoContended') \in BOOLEAN
      BY DEF Compute
    <2> QED BY <1>0, <1>5, <2>1, OrderApplied DEF Refresh
  <1>6. ASSUME NEW m \in Modes, SetMode(m) PROVE OrderInv'
    <2>1. Compute(m, autoContended) \in BOOLEAN
      BY DEF Compute
    <2> QED BY <1>0, <1>6, <2>1, OrderApplied DEF SetMode, pollVars
  <1>7. ASSUME UNCHANGED <<effective, chain, unitVars, reqVars, idleUnloaded>>,
               hit' \subseteq hit
        PROVE  OrderInv'
    BY <1>0, <1>1, <1>2, <1>7, OrderKept
  <1>8. CASE Detect \/ DetectBlind \/ RefreshDone
    BY <1>7, <1>8 DEF Detect, DetectBlind, RefreshDone, serveVars, idleVars
  <1>9. ASSUME NEW i \in Instances, IdleLook(i) PROVE OrderInv'
    <2>1. UNCHANGED <<effective, chain, unitVars, reqVars, idleUnloaded>>
      BY <1>9 DEF IdleLook, serveVars, idleVars
    <2>2. CASE hit' = {}
      BY <1>7, <2>1, <2>2
    <2>3. CASE hit' = {i} /\ Idle(i)
      <3>1. ~Waking(i) /\ ~idleUnloaded[i]
        BY <2>3 DEF Idle, Waking, InFlight
      <3>2. \A k \in Instances : OrdersRight(k)'
        BY <1>1, <1>2, <2>1 DEF OrderInv, OrdersRight
      <3>3. \A k \in Instances : Waking(k)' => ~idleUnloaded'[k]
        BY <1>2, <2>1 DEF OrderInv
      <3>4. ~Waking(i)' /\ ~idleUnloaded'[i]
        BY <1>2, <2>1, <3>1
      <3> QED BY <2>3, <3>2, <3>3, <3>4 DEF OrderInv
    <2> QED BY <1>9, <2>2, <2>3 DEF IdleLook
  <1>10. ASSUME NEW j \in Instances, IdleUnload(j) PROVE OrderInv'
    <2>1. /\ j \in hit /\ hit' = {} /\ StartAction(j, "unload") /\ "unload" \in Ops
          /\ UNCHANGED <<unitVars, reqVars>> /\ effective' = effective
          /\ idleUnloaded' = [idleUnloaded EXCEPT ![j] = TRUE]
      BY <1>10 DEF IdleUnload, serveVars, Ops
    <2>2. j \in IdleInstances /\ ~Waking(j)
      BY <1>0, <2>1 DEF OrderInv
    <2>3. Ordered(j)' = "unload" /\ idleUnloaded'[j]
      <3>1. chain'[j] = Append(chain[j], "unload")
        BY <1>0, <2>1 DEF StartAction, ChainOK
      <3> QED BY <1>0, <2>1, <3>1, OrderGiven
    <2>4. ASSUME NEW i \in Instances, i # j
          PROVE  OrdersRight(i)' /\ (Waking(i)' => ~idleUnloaded'[i])
      <3>1. idleUnloaded'[i] = idleUnloaded[i] /\ (Waking(i)' <=> Waking(i))
        BY <1>0, <1>2, <2>1, <2>4
      <3>2. (Settled(i)' <=> Settled(i)) /\ Ordered(i)' = Ordered(i)
        BY <1>0, <2>1, <2>4, OrderOne
      <3> QED BY <2>1, <3>1, <3>2 DEF OrderInv, OrdersRight
    <2>5. OrdersRight(j)' /\ ~Waking(j)'
      BY <1>2, <2>1, <2>2, <2>3 DEF OrdersRight
    <2> QED BY <2>1, <2>4, <2>5 DEF OrderInv
  <1>11. ASSUME NEW j \in Instances, RunAction(j) \/ FailAction(j) PROVE OrderInv'
    <2>1. UNCHANGED <<effective, idleUnloaded, hit, reqVars>>
      BY <1>11 DEF RunAction, FailAction, serveVars, idleVars, pollVars
    <2>2. \A i \in Instances : Settled(i)' => Settled(i) /\ Ordered(i)' = Ordered(i)
      BY <1>11, OrderRuns
    <2> QED BY <1>0, <1>2, <2>1, <2>2, OrderKept
  <1>12. ASSUME NEW i \in Instances, TimePasses(i) PROVE OrderInv'
    BY <1>7, <1>12 DEF TimePasses, serveVars, pollVars
  <1>13. ASSUME NEW q \in Reqs,
                ReqAdmit(q) \/ TrackEnter(q) \/ TrackLeave(q) \/ TrackStamp(q)
         PROVE  OrderInv'
    <2>1. UNCHANGED <<effective, idleUnloaded, hit, chain, unitVars, at>>
      BY <1>13 DEF ReqAdmit, TrackEnter, TrackLeave, TrackStamp, serveVars, idleVars, pollVars
    <2>2. rpc[q] # "woke" /\ \E l : l # "woke" /\ rpc' = [rpc EXCEPT ![q] = l]
      BY <1>13 DEF ReqAdmit, TrackEnter, TrackLeave, TrackStamp, ReqStep
    <2>3. \A i \in Instances : Waking(i)' <=> Waking(i)
      BY <1>4, <2>1, <2>2
    <2> QED BY <1>0, <1>1, <2>1, <2>3, OrderKept
  <1>14. ASSUME NEW q \in Reqs, TrackSwap(q) PROVE OrderInv'
    <2>0. PICK j \in IdleInstances : at[q] = j
      BY <1>0
    <2>1. /\ UNCHANGED <<effective, hit, chain, unitVars, at>>
          /\ idleUnloaded' = [idleUnloaded EXCEPT ![j] = FALSE]
          /\ rpc[q] = "counted"
          /\ rpc' = [rpc EXCEPT ![q] = IF idleUnloaded[j] THEN "woke" ELSE "serving"]
      BY <1>14, <2>0 DEF TrackSwap, ReqStep, serveVars, pollVars
    <2>2. CASE ~idleUnloaded[j]
      <3>1. rpc' = [rpc EXCEPT ![q] = "serving"]
        BY <2>1, <2>2
      <3>2. \A i \in Instances : Waking(i)' <=> Waking(i)
        BY <1>4, <2>1, <3>1
      <3>3. idleUnloaded' = idleUnloaded
        BY <1>0, <2>0, <2>1, <2>2
      <3> QED BY <1>0, <1>1, <2>1, <3>2, <3>3, OrderKept
    <2>3. CASE idleUnloaded[j]
      <3>1. rpc' = [rpc EXCEPT ![q] = "woke"]
        BY <2>1, <2>3
      <3>2. Waking(j)' /\ ~idleUnloaded'[j]
        BY <1>0, <2>0, <2>1, <3>1 DEF Waking
      <3>3. j \notin hit
        BY <2>3 DEF OrderInv
      <3>4. ASSUME NEW i \in Instances, i # j
            PROVE  /\ OrdersRight(i)'
                   /\ Waking(i)' <=> Waking(i)
                   /\ idleUnloaded'[i] = idleUnloaded[i]
        <4>1. (Waking(i)' <=> Waking(i)) /\ idleUnloaded'[i] = idleUnloaded[i]
          BY <1>0, <1>3, <2>0, <2>1, <3>1, <3>4
        <4> QED BY <1>1, <2>1, <4>1 DEF OrderInv, OrdersRight
      <3>5. OrdersRight(j)'
        BY <2>0, <3>2 DEF OrdersRight
      <3>6. \A i \in hit' : ~Waking(i)' /\ ~idleUnloaded'[i]
        BY <1>0, <2>1, <3>3, <3>4 DEF OrderInv
      <3> QED BY <3>2, <3>4, <3>5, <3>6 DEF OrderInv
    <2> QED BY <2>2, <2>3
  <1>15. ASSUME NEW q \in Reqs, TrackWake(q) PROVE OrderInv'
    <2>0. PICK j \in IdleInstances : at[q] = j /\ j \in Instances
      BY <1>0
    <2>1. /\ UNCHANGED <<effective, hit, idleUnloaded, unitVars, at>>
          /\ StartAction(j, "reload") /\ "reload" \in Ops
          /\ rpc[q] = "woke"
          /\ rpc' = [rpc EXCEPT ![q] = "serving"]
      BY <1>15, <2>0 DEF TrackWake, ReqStep, serveVars, pollVars, idleVars, Ops
    <2>2. Waking(j) /\ ~idleUnloaded[j]
      <3>1. Waking(j)
        BY <2>0, <2>1 DEF Waking
      <3> QED BY <2>0, <3>1 DEF OrderInv
    <2>3. Ordered(j)' = "reload" /\ j \notin hit
      <3>1. chain'[j] = Append(chain[j], "reload")
        BY <1>0, <2>0, <2>1 DEF StartAction, ChainOK
      <3> QED BY <1>0, <2>0, <2>1, <2>2, <3>1, OrderGiven DEF OrderInv
    <2>4. OrdersRight(j)' /\ ~idleUnloaded'[j]
      BY <2>0, <2>1, <2>2, <2>3 DEF OrdersRight
    <2>5. ASSUME NEW i \in Instances, i # j
          PROVE  OrdersRight(i)' /\ (Waking(i)' <=> Waking(i))
      <3>1. Waking(i)' <=> Waking(i)
        BY <1>3, <2>0, <2>1, <2>5
      <3>2. (Settled(i)' <=> Settled(i)) /\ Ordered(i)' = Ordered(i)
        BY <1>0, <2>0, <2>1, <2>5, OrderOne
      <3> QED BY <2>1, <3>1, <3>2 DEF OrderInv, OrdersRight
    <2>6. \A i \in hit' : ~Waking(i)' /\ ~idleUnloaded'[i]
      BY <1>0, <2>1, <2>3, <2>5 DEF OrderInv
    <2> QED BY <2>1, <2>4, <2>5, <2>6 DEF OrderInv
  <1>16. ASSUME NEW x \in Signals, Contend(x) PROVE OrderInv'
    BY <1>7, <1>16 DEF Contend, serveVars, pollVars, idleVars
  <1>17. CASE UNCHANGED yctlVars
    BY <1>7, <1>17 DEF yctlVars, serveVars, pollVars, idleVars
  <1> QED BY <1>5, <1>6, <1>8, <1>9, <1>10, <1>11, <1>12, <1>13, <1>14, <1>15, <1>16, <1>17
          DEF YctlNext, Polling, Tracked

\* Whatever the contention, the operator and the requests do, and whichever actions fail: once
\* the chain of an instance has drained and its last action succeeded, its unit is where the
\* last order put it, and that order is the right one (startAction, checkIdleLocked,
\* TrackActivity).
THEOREM UnitsFollowOrders == YctlSpec => []UnitFollowsOrders
  <1>1. YctlInit => OrderInv
    BY OrderInvInit
  <1>2. OrderInv /\ (TypeInv /\ ActedOn /\ DebounceInv) /\ [YctlNext]_yctlVars => OrderInv'
    BY OrderInvStep
  <1>3. ASSUME OrderInv, TypeInv PROVE UnitFollowsOrders
    <2> SUFFICES ASSUME NEW i \in Instances, chain[i] = <<>>, ~failed[i]
                 PROVE  /\ i \notin IdleInstances => (unit[i] = "down" <=> effective)
                        /\ i \in IdleInstances /\ ~effective /\ ~Waking(i) =>
                             (unit[i] = "down" <=> idleUnloaded[i])
      BY DEF UnitFollowsOrders
    <2>1. Settled(i) /\ (Ordered(i) = "unload" <=> unit[i] = "down")
      BY DEF Settled, Ordered
    <2> QED BY <1>3, <2>1 DEF OrderInv, OrdersRight
  <1>4. OrderInv /\ (TypeInv /\ ActedOn /\ DebounceInv) => UnitFollowsOrders
    BY <1>3
  <1> QED BY <1>1, <1>2, <1>4, YieldSafe, PTL DEF YctlSpec

-----------------------------------------------------------------------------
(* Tdarr                                                                   *)

\* The schedule and the calls to Tdarr do not disturb the Controller, and each change of its
\* effective state starts one call.
LEMMA CoordSteps ==
  ASSUME [TdarrNext]_tdarrVars
  PROVE  [YctlNext]_yctlVars
  <1>1. CASE Ctl(YctlNext)
    BY <1>1 DEF Ctl
  <1>2. CASE SchedTick \/ SchedDone \/ SchedFails \/ ClockAdvances
    BY <1>2 DEF SchedTick, SchedDone, SchedFails, ClockAdvances
  <1>3. ASSUME NEW op \in MgrOps, MgrDone(op) \/ MgrFails(op) PROVE UNCHANGED yctlVars
    BY <1>3 DEF MgrDone, MgrFails
  <1>4. CASE SchedTimesOut
    BY <1>4 DEF SchedTimesOut
  <1>5. CASE UNCHANGED tdarrVars
    BY <1>5 DEF tdarrVars
  <1> QED BY <1>1, <1>2, <1>3, <1>4, <1>5 DEF TdarrNext, Lost

\* The Controller that drives Tdarr is the Controller: all that is proved of it above holds
\* with the schedule and the calls to Tdarr around it.
THEOREM CoordImplementsController ==
  TdarrSpec => YctlSpec /\ ImplementsAdmission /\ []UnitFollowsOrders
  <1>1. TdarrInit => YctlInit
    BY DEF TdarrInit
  <1>2. [TdarrNext]_tdarrVars => [YctlNext]_yctlVars
    BY CoordSteps
  <1>3. TdarrSpec => YctlSpec
    BY <1>1, <1>2, PTL DEF TdarrSpec, YctlSpec
  <1> QED BY <1>3, ControllerImplementsAdmission, UnitsFollowOrders, PTL

LimitTypeOK ==
  /\ mgrCalls \in [MgrOps -> Nat]
  /\ schedCall \in MgrOps \cup {"none"}
  /\ schedPaused \in BOOLEAN
  /\ gpuMgr \in {"running", "paused"}
  /\ disturbed \in BOOLEAN

\* What is under way and what it leads to, unless the limit may be wrong.  A call of the
\* Controller is for the state it is in, a call of the schedule against the one it remembers;
\* the limit is what is wanted but for the calls under way.
LimitInv ==
  /\ LimitTypeOK
  /\ ~disturbed =>
       /\ ~Overlap
       /\ mgrCalls["pause"] > 0 => effective
       /\ mgrCalls["resume"] > 0 => ~effective
       /\ schedCall = "pause" => ~schedPaused
       /\ schedCall = "resume" => schedPaused
       /\ effective /\ mgrCalls["pause"] = 0 => gpuMgr = "paused"
       /\ schedPaused => gpuMgr = "paused"
       /\ ~effective /\ ~schedPaused /\ mgrCalls["resume"] = 0 => gpuMgr = "running"

LEMMA LimitTypeStep ==
  ASSUME LimitTypeOK, effective' \in BOOLEAN, [TdarrNext]_tdarrVars
  PROVE  LimitTypeOK'
  <1>0. \A op \in MgrOps : Limit(op) \in {"running", "paused"}
    BY DEF Limit
  <1>1. disturbed' \in BOOLEAN
    BY DEF TdarrNext, Ctl, Watch, tdarrVars, LimitTypeOK
  <1>2. ASSUME NEW op \in MgrOps, MgrDone(op) \/ MgrFails(op) PROVE LimitTypeOK'
    <2>1. /\ mgrCalls[op] > 0 /\ mgrCalls' = [mgrCalls EXCEPT ![op] = mgrCalls[op] - 1]
          /\ gpuMgr' \in {gpuMgr, Limit(op)} /\ UNCHANGED <<schedPaused, schedCall>>
      BY <1>2 DEF MgrDone, MgrFails, schedVars
    <2>2. mgrCalls[op] - 1 \in Nat
      BY <2>1 DEF LimitTypeOK
    <2>3. mgrCalls' \in [MgrOps -> Nat]
      BY <2>1, <2>2 DEF LimitTypeOK
    <2> QED BY <1>0, <1>1, <2>1, <2>3 DEF LimitTypeOK
  <1>3. CASE Ctl(YctlNext)
    <2>1. StartMgr /\ UNCHANGED <<gpuMgr, schedPaused, schedCall>>
      BY <1>3 DEF Ctl, schedVars
    <2>2. mgrCalls' \in [MgrOps -> Nat]
      <3>1. \A op \in MgrOps : mgrCalls[op] + 1 \in Nat
        BY DEF LimitTypeOK
      <3> QED BY <2>1, <3>1 DEF StartMgr, LimitTypeOK, MgrOps
    <2> QED BY <1>1, <2>1, <2>2 DEF LimitTypeOK
  <1>4. CASE SchedTick
    BY <1>1, <1>4 DEF SchedTick, LimitTypeOK, MgrOps
  <1>5. CASE SchedDone \/ SchedTimesOut
    <2>1. /\ schedCall \in MgrOps /\ gpuMgr' = Limit(schedCall) /\ schedCall' = "none"
          /\ mgrCalls' = mgrCalls /\ schedPaused' \in BOOLEAN
      BY <1>5 DEF SchedDone, SchedTimesOut, LimitTypeOK
    <2> QED BY <1>0, <1>1, <2>1 DEF LimitTypeOK
  <1>6. CASE SchedFails \/ ClockAdvances
    <2>1. /\ schedCall' \in {"none", schedCall} /\ UNCHANGED <<mgrCalls, gpuMgr, schedPaused>>
      BY <1>6 DEF SchedFails, ClockAdvances, schedVars
    <2> QED BY <1>1, <2>1 DEF LimitTypeOK
  <1>7. CASE UNCHANGED tdarrVars
    BY <1>7 DEF tdarrVars, schedVars, LimitTypeOK
  <1> QED BY <1>2, <1>3, <1>4, <1>5, <1>6, <1>7 DEF TdarrNext, Lost

LEMMA LimitInvStep ==
  ASSUME LimitInv, effective \in BOOLEAN, effective' \in BOOLEAN, [TdarrNext]_tdarrVars
  PROVE  LimitInv'
  <1> DEFINE p == mgrCalls["pause"]
             r == mgrCalls["resume"]
  <1>10. LimitTypeOK'
    BY LimitTypeStep DEF LimitInv
  <1>0. /\ "pause" \in MgrOps /\ "resume" \in MgrOps /\ "pause" # "resume"
        /\ p \in Nat /\ r \in Nat
        /\ mgrCalls \in [MgrOps -> Nat] /\ schedCall \in MgrOps \cup {"none"}
        /\ schedPaused \in BOOLEAN /\ gpuMgr \in {"running", "paused"} /\ disturbed \in BOOLEAN
        /\ \A op \in MgrOps : Limit(op) \in {"running", "paused"}
    BY DEF LimitInv, LimitTypeOK, MgrOps, Limit
  <1>1. CASE UNCHANGED tdarrVars
    <2>1. UNCHANGED <<effective, mgrCalls, gpuMgr, schedPaused, schedCall, disturbed>>
      BY <1>1 DEF tdarrVars, yctlVars, serveVars, schedVars
    <2> QED BY <1>10, <2>1 DEF LimitInv, Overlap, Calls
  \* A limit that is right with no call under way: nothing is remembered of what was.
  <1>2. ASSUME Right' PROVE LimitInv'
    <2>1. /\ mgrCalls'["pause"] \in Nat /\ mgrCalls'["resume"] \in Nat
          /\ gpuMgr' \in {"running", "paused"}
      BY <1>0, <1>10 DEF LimitTypeOK
    <2>2. /\ ~(mgrCalls'["pause"] > 0) /\ ~(mgrCalls'["resume"] > 0)
          /\ schedCall' # "pause" /\ schedCall' # "resume"
          /\ gpuMgr' = "paused" <=> effective' \/ schedPaused'
      BY <1>2 DEF Right, Calls
    <2>3. ~Overlap'
      BY <2>2 DEF Overlap, Calls
    <2> QED BY <1>10, <2>1, <2>2, <2>3 DEF LimitInv
  <1>11. SUFFICES ASSUME ~Right' PROVE LimitInv'
    BY <1>2
  <1>12. CASE Lost /\ disturbed' = ~Right'
    BY <1>10, <1>11, <1>12 DEF LimitInv
  <1>3. Watch => (~disturbed' => ~disturbed /\ ~Overlap')
    BY <1>11 DEF Watch
  <1>4. ASSUME ~disturbed
        PROVE  /\ ~(p > 0 /\ schedCall = "resume") /\ ~(r > 0 /\ schedCall = "pause")
               /\ ~(p > 0 /\ r > 0) /\ ~(r > 0 /\ schedPaused)
               /\ ~(schedCall = "resume" /\ effective)
               /\ p > 0 => effective
               /\ r > 0 => ~effective
               /\ schedCall = "pause" => ~schedPaused
               /\ schedCall = "resume" => schedPaused
               /\ effective /\ p = 0 => gpuMgr = "paused"
               /\ schedPaused => gpuMgr = "paused"
               /\ ~effective /\ ~schedPaused /\ r = 0 => gpuMgr = "running"
    BY <1>4 DEF LimitInv, Overlap, Calls
  <1>5. CASE Ctl(YctlNext)
    <2>1. /\ StartMgr /\ Watch /\ UNCHANGED <<gpuMgr, schedPaused, schedCall>>
      BY <1>5 DEF Ctl, schedVars
    <2>2. CASE effective' = effective
      <3>1. mgrCalls' = mgrCalls
        BY <2>1, <2>2 DEF StartMgr
      <3> QED BY <1>10, <1>0, <1>3, <2>1, <2>2, <3>1 DEF LimitInv, Overlap, Calls
    <2>3. CASE effective' = TRUE /\ effective = FALSE
      <3>1. mgrCalls' = [mgrCalls EXCEPT !["pause"] = p + 1]
        BY <2>1, <2>3 DEF StartMgr
      <3>2. /\ mgrCalls' \in [MgrOps -> Nat] /\ mgrCalls'["pause"] = p + 1
            /\ mgrCalls'["resume"] = r
        BY <1>0, <3>1
      <3>3. mgrCalls'["pause"] > 0 /\ mgrCalls'["pause"] # 0
        BY <1>0, <3>2
      <3>4. ~disturbed' => ~disturbed /\ ~Overlap' /\ ~(mgrCalls'["resume"] > 0)
        BY <1>3, <2>1, <3>3 DEF Overlap, Calls
      <3>5. ~disturbed => (schedPaused => gpuMgr = "paused")
                          /\ (schedCall = "pause" => ~schedPaused)
                          /\ (schedCall = "resume" => schedPaused)
        BY <1>4
      <3> QED BY <1>10, <1>0, <1>3, <2>1, <2>3, <3>2, <3>3, <3>4, <3>5 DEF LimitInv
    <2>4. CASE effective' = FALSE /\ effective = TRUE
      <3>1. mgrCalls' = [mgrCalls EXCEPT !["resume"] = r + 1]
        BY <2>1, <2>4 DEF StartMgr
      <3>2. /\ mgrCalls' \in [MgrOps -> Nat] /\ mgrCalls'["resume"] = r + 1
            /\ mgrCalls'["pause"] = p
        BY <1>0, <3>1
      <3>3. mgrCalls'["resume"] > 0 /\ mgrCalls'["resume"] # 0
        BY <1>0, <3>2
      <3>4. ~disturbed' => /\ ~disturbed /\ ~Overlap' /\ ~(mgrCalls'["pause"] > 0)
                           /\ ~schedPaused'
        BY <1>3, <2>1, <3>3 DEF Overlap, Calls
      <3>5. ~disturbed => (schedCall = "resume" => schedPaused)
        BY <1>4
      <3> QED BY <1>10, <1>0, <1>3, <2>1, <2>4, <3>2, <3>3, <3>4, <3>5 DEF LimitInv
    <2> QED BY <2>2, <2>3, <2>4
  <1>6. ASSUME NEW op \in MgrOps, MgrDone(op), Watch PROVE LimitInv'
    <2>1. /\ mgrCalls[op] > 0 /\ mgrCalls' = [mgrCalls EXCEPT ![op] = mgrCalls[op] - 1]
          /\ gpuMgr' = Limit(op) /\ UNCHANGED <<effective, schedPaused, schedCall>>
      BY <1>6 DEF MgrDone, schedVars, yctlVars, serveVars
    <2>2. mgrCalls[op] - 1 \in Nat
      BY <1>0, <2>1
    <2>3. /\ mgrCalls' \in [MgrOps -> Nat] /\ mgrCalls'[op] = mgrCalls[op] - 1
          /\ \A o \in MgrOps : o # op => mgrCalls'[o] = mgrCalls[o]
      BY <1>0, <2>1, <2>2
    <2>4. CASE op = "pause"
      <3>1. p > 0 /\ mgrCalls'["resume"] = r /\ gpuMgr' = "paused"
        BY <1>0, <2>1, <2>3, <2>4 DEF Limit
      <3> QED BY <1>10, <1>0, <1>3, <1>4, <1>6, <2>1, <2>3, <3>1 DEF LimitInv
    <2>5. CASE op = "resume"
      <3>1. r > 0 /\ mgrCalls'["pause"] = p /\ gpuMgr' = "running"
        BY <1>0, <2>1, <2>3, <2>5 DEF Limit
      <3> QED BY <1>10, <1>0, <1>3, <1>4, <1>6, <2>1, <2>3, <3>1 DEF LimitInv
    <2> QED BY <2>4, <2>5 DEF MgrOps
  <1>7. CASE SchedTick /\ Watch
    <2>1. /\ schedCall' = IF schedPaused THEN "resume" ELSE "pause"
          /\ UNCHANGED <<effective, mgrCalls, gpuMgr, schedPaused>>
      BY <1>7 DEF SchedTick, yctlVars, serveVars
    <2> QED BY <1>10, <1>0, <1>3, <1>4, <1>7, <2>1 DEF LimitInv
  <1>8. CASE SchedDone /\ Watch
    <2>1. /\ schedCall \in MgrOps /\ gpuMgr' = Limit(schedCall)
          /\ schedPaused' = (schedCall = "pause") /\ schedCall' = "none"
          /\ UNCHANGED <<effective, mgrCalls>>
      BY <1>0, <1>8 DEF SchedDone, yctlVars, serveVars
    <2>2. CASE schedCall = "pause"
      <3>1. gpuMgr' = "paused" /\ schedPaused' = TRUE
        BY <2>1, <2>2 DEF Limit
      <3> QED BY <1>10, <1>0, <1>3, <1>4, <1>8, <2>1, <2>2, <3>1 DEF LimitInv
    <2>3. CASE schedCall = "resume"
      <3>1. gpuMgr' = "running" /\ schedPaused' = FALSE
        BY <2>1, <2>3 DEF Limit
      <3> QED BY <1>10, <1>0, <1>3, <1>4, <1>8, <2>1, <2>3, <3>1 DEF LimitInv
    <2> QED BY <2>1, <2>2, <2>3 DEF MgrOps
  <1>9. CASE (SchedFails \/ ClockAdvances) /\ Watch
    <2>1. /\ schedCall' \in {"none", schedCall}
          /\ UNCHANGED <<effective, mgrCalls, gpuMgr, schedPaused>>
      BY <1>9 DEF SchedFails, ClockAdvances, schedVars, yctlVars, serveVars
    <2> QED BY <1>10, <1>0, <1>3, <1>4, <1>9, <2>1 DEF LimitInv
  <1> QED BY <1>1, <1>12, <1>5, <1>6, <1>7, <1>8, <1>9 DEF TdarrNext

\* However the two writers' calls interleave, last and fail: unless they have got in each other's
\* way, a call was lost, or the workers were found paused at the start, and the limit has not
\* been right since, Tdarr's workers are paused between calls exactly if the Controller yields
\* or the schedule has paused them (applyLocked, runTdarrSchedule).
THEOREM TdarrLimitExact == TdarrSpec => []LimitExact
  <1>1. ASSUME TdarrInit PROVE LimitInv
    <2>1. /\ mgrCalls \in [MgrOps -> Nat]
          /\ mgrCalls["pause"] = 0 /\ mgrCalls["resume"] = 0
          /\ gpuMgr \in {"running", "paused"} /\ schedPaused = FALSE /\ schedCall = "none"
          /\ disturbed = (gpuMgr = "paused") /\ effective = FALSE
      BY <1>1 DEF TdarrInit, YctlInit, MgrOps
    <2>2. ~Overlap /\ ~(mgrCalls["pause"] > 0) /\ ~(mgrCalls["resume"] > 0)
      BY <2>1 DEF Overlap, Calls
    <2>3. ~effective /\ ~schedPaused /\ disturbed \in BOOLEAN /\ schedPaused \in BOOLEAN
      BY <2>1
    <2>4. LimitTypeOK
      BY <2>1, <2>3 DEF LimitTypeOK
    <2>5. ~disturbed => gpuMgr = "running"
      BY <2>1
    <2>6. schedCall # "pause" /\ schedCall # "resume"
      BY <2>1
    <2> QED BY <2>2, <2>3, <2>4, <2>5, <2>6, Zenon DEF LimitInv
  <1>2. LimitInv /\ YctlTypeOK /\ YctlTypeOK' /\ [TdarrNext]_tdarrVars => LimitInv'
    BY LimitInvStep DEF YctlTypeOK
  <1>3. LimitInv /\ YctlTypeOK => LimitExact
    <2>1. ASSUME LimitInv, YctlTypeOK, ~disturbed, ~Calls("pause"), ~Calls("resume")
          PROVE  gpuMgr = "paused" <=> effective \/ schedPaused
      <3>1. mgrCalls["pause"] \in Nat /\ mgrCalls["resume"] \in Nat
        BY <2>1 DEF LimitInv, LimitTypeOK, MgrOps
      <3>2. mgrCalls["pause"] = 0 /\ mgrCalls["resume"] = 0
        BY <2>1, <3>1 DEF Calls
      <3>3. /\ effective => gpuMgr = "paused"
            /\ schedPaused => gpuMgr = "paused"
            /\ ~effective /\ ~schedPaused => gpuMgr = "running"
        BY <2>1, <3>2 DEF LimitInv
      <3> QED BY <3>3
    <2> QED BY <2>1 DEF LimitExact
  <1>4. TdarrSpec => []YctlTypeOK
    BY CoordImplementsController, ControllerTyped, PTL
  <1>5. TdarrInit => LimitInv
    BY <1>1
  <1> QED BY <1>2, <1>3, <1>4, <1>5, PTL DEF TdarrSpec

=============================================================================
