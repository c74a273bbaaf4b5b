------------------------------ MODULE JobProofs -----------------------------
(***************************************************************************)
(* The durable Jobs for any number of Jobs, attempts, callers, crashes and *)
(* yields: what the store promises of its rows and of its line, and that a *)
(* Job is RUNNING only in the hands of the worker.                         *)
(***************************************************************************)
EXTENDS JobRunner, SchedulerProofs

-----------------------------------------------------------------------------
(* The store                                                               *)

StoreTypeOK ==
  /\ state \in [Jobs -> States]
  /\ attempts \in [Jobs -> Nat]
  /\ hint \in [Jobs -> Int]
  /\ keyOf \in [Jobs -> Keys \cup {"noKey"}]
  /\ nextJob \in 1..MaxJobs + 1
  /\ claimed \subseteq Jobs

\* A Job that is still to be submitted has no row and has not run; one that runs has.
RowsKnown ==
  /\ \A i \in Jobs : i >= nextJob => state[i] = "none" /\ i \notin claimed
  /\ \A i \in Jobs : state[i] = "RUNNING" => i \in claimed

StoreInv == StoreTypeOK /\ RowsKnown /\ AttemptsSpent /\ ResumeFirst

\* The step of the store, if it is one, together with what is recorded of it.
StoreStep ==
  \/ UNCHANGED <<storeVars, claimed>>
  \/ UNCHANGED claimed /\ \E k \in Keys : StoreSubmit(k)
  \/ UNCHANGED claimed /\ \E i \in Jobs : StoreCancel(i) \/ Succeed(i) \/ Preempt(i)
                                            \/ FailOrRetry(i)
  \/ UNCHANGED claimed /\ \E D \in SUBSET Jobs : Prune(D)
  \/ \E i \in Jobs : ClaimNext(i) /\ claimed' = claimed \cup {i}
  \/ UNCHANGED claimed /\ RecoverRunning

LEMMA JobsFinite ==
  /\ IsFiniteSet(Jobs)
  /\ \A S \in SUBSET Jobs : IsFiniteSet(S) /\ Cardinality(S) \in Nat
  /\ \A i \in Jobs : i \in Int
  <1>1. IsFiniteSet(Jobs)
    BY JobStoreAssumption, FS_Interval DEF Jobs
  <1>2. ASSUME NEW S \in SUBSET Jobs PROVE IsFiniteSet(S) /\ Cardinality(S) \in Nat
    BY <1>1, FS_Subset, FS_CardinalityType
  <1> QED BY <1>1, <1>2 DEF Jobs

\* The hints of some rows have a least and a greatest element.
LEMMA HintsFinite ==
  ASSUME StoreTypeOK, NEW S \in SUBSET Jobs, S # {}
  PROVE  LET H == {hint[i] : i \in S}
         IN  /\ Min(H) \in Int /\ \A i \in S : Min(H) <= hint[i]
             /\ Max(H) \in Int /\ \A i \in S : Max(H) >= hint[i]
  <1> DEFINE H == {hint[i] : i \in S}
  <1>1. IsFiniteSet(H)
    <2> DEFINE f == [i \in S |-> hint[i]]
    <2>1. f \in Surjection(S, H)
      BY DEF Surjection
    <2> QED BY <2>1, JobsFinite, FS_Surjection
  <1>2. H \in SUBSET Int /\ H # {} /\ \A i \in S : hint[i] \in H
    BY DEF StoreTypeOK
  <1> HIDE DEF H
  <1>3. /\ Min(H) \in H /\ \A h \in H : Min(H) <= h
        /\ Max(H) \in H /\ \A h \in H : Max(H) >= h
    BY <1>1, <1>2, FiniteMinMax
  <1>4. /\ Min(H) \in Int /\ \A i \in S : Min(H) <= hint[i]
        /\ Max(H) \in Int /\ \A i \in S : Max(H) >= hint[i]
    BY <1>2, <1>3
  <1> QED BY <1>4 DEF H

LEMMA FirstHintFirst ==
  ASSUME StoreTypeOK
  PROVE  FirstHint \in Int /\ \A i \in InState("QUEUED") : FirstHint <= hint[i]
  <1>1. InState("QUEUED") \in SUBSET Jobs
    BY DEF InState
  <1>2. CASE InState("QUEUED") = {}
    BY <1>2 DEF FirstHint
  <1>3. CASE InState("QUEUED") # {}
    <2> DEFINE H == {hint[i] : i \in InState("QUEUED")}
    <2>1. Min(H) \in Int /\ \A i \in InState("QUEUED") : Min(H) <= hint[i]
      BY <1>1, <1>3, HintsFinite
    <2>2. FirstHint = Min(H)
      BY <1>3 DEF FirstHint
    <2> HIDE DEF H
    <2> QED BY <2>1, <2>2
  <1> QED BY <1>2, <1>3

LEMMA LastHintLast ==
  ASSUME StoreTypeOK
  PROVE  LastHint \in Int /\ \A i \in Rows : hint[i] <= LastHint
  <1>1. Rows \in SUBSET Jobs
    BY DEF Rows
  <1>2. \A i \in Rows : hint[i] \in Int
    BY <1>1 DEF StoreTypeOK
  <1>3. CASE Rows = {}
    BY <1>3 DEF LastHint
  <1>4. CASE Rows # {}
    <2> DEFINE H == {hint[i] : i \in Rows}
    <2>1. Max(H) \in Int /\ \A i \in Rows : Max(H) >= hint[i]
      BY <1>1, <1>4, HintsFinite
    <2>2. LastHint = Max(H)
      BY <1>4 DEF LastHint
    <2> HIDE DEF H
    <2> QED BY <1>2, <2>1, <2>2
  <1> QED BY <1>3, <1>4

\* The line keeps its order when Jobs leave it.
LEMMA LineShrinks ==
  ASSUME ResumeFirst, InState("QUEUED")' \subseteq InState("QUEUED"),
         \A i \in InState("QUEUED")' : hint'[i] = hint[i] /\ (i \in claimed' <=> i \in claimed)
  PROVE  ResumeFirst'
  BY DEF ResumeFirst

\* The line keeps its order when Jobs that have run come in front of it.
LEMMA LineRequeues ==
  ASSUME ResumeFirst, StoreTypeOK, hint' \in [Jobs -> Int], claimed' = claimed,
         NEW K \in SUBSET claimed,
         InState("QUEUED")' \subseteq InState("QUEUED") \cup K,
         \A i \in K : hint'[i] < FirstHint,
         \A i, j \in K : i # j => hint'[i] # hint'[j],
         \A i \in Jobs \ K : hint'[i] = hint[i],
         K \cap InState("QUEUED") = {}
  PROVE  ResumeFirst'
  <1>1. FirstHint \in Int /\ \A i \in InState("QUEUED") : FirstHint <= hint[i]
    BY FirstHintFirst
  <1>2. \A i \in Jobs : hint[i] \in Int /\ hint'[i] \in Int
    BY DEF StoreTypeOK
  <1>3. K \subseteq Jobs /\ InState("QUEUED") \subseteq Jobs
    BY DEF StoreTypeOK, InState
  <1> DEFINE Q == InState("QUEUED")
  <1>4. ASSUME NEW i \in K, NEW j \in Q PROVE hint'[i] < hint'[j]
    BY <1>1, <1>2, <1>3
  <1> HIDE DEF Q
  <1>5. SUFFICES ASSUME NEW i \in InState("QUEUED")', NEW j \in InState("QUEUED")', i # j
                 PROVE  /\ hint'[i] # hint'[j]
                        /\ i \in claimed' /\ j \notin claimed' => hint'[i] < hint'[j]
                        /\ i \notin claimed' /\ j \notin claimed' /\ i < j
                             => hint'[i] < hint'[j]
    BY DEF ResumeFirst
  <1>6. CASE i \in K
    BY <1>2, <1>3, <1>4, <1>5, <1>6 DEF Q
  <1>7. CASE j \in K
    BY <1>2, <1>3, <1>4, <1>5, <1>7 DEF Q
  <1>8. CASE i \notin K /\ j \notin K
    BY <1>3, <1>5, <1>8 DEF ResumeFirst, Q
  <1> QED BY <1>6, <1>7, <1>8

LEMMA StoreInvInit ==
  ASSUME StoreInit, claimed = {}
  PROVE  StoreInv
  <1> USE JobStoreAssumption DEF StoreInit
  <1>1. StoreTypeOK
    BY DEF StoreTypeOK, States, Jobs
  <1>2. RowsKnown /\ AttemptsSpent /\ ResumeFirst
    BY DEF RowsKnown, AttemptsSpent, ResumeFirst, InState
  <1> QED BY <1>1, <1>2 DEF StoreInv

\* Submit puts a Job that has not run behind every row.
LEMMA SubmitInv ==
  ASSUME StoreInv, NEW k \in Keys, StoreSubmit(k), claimed' = claimed
  PROVE  StoreInv'
  <1> DEFINE n == nextJob
  <1>0. /\ n \in Jobs /\ nextJob' = n + 1 /\ state[n] = "none" /\ n \notin claimed
        /\ \A i \in Jobs : i \in Int
    BY JobStoreAssumption DEF StoreInv, StoreTypeOK, RowsKnown, StoreSubmit, Jobs
  <1>1. LastHint \in Int /\ \A i \in Rows : hint[i] <= LastHint
    BY LastHintLast DEF StoreInv
  <1>2. StoreTypeOK'
    BY <1>0, <1>1, JobStoreAssumption DEF StoreInv, StoreTypeOK, StoreSubmit, States, Jobs
  <1>3. RowsKnown'
    BY <1>0 DEF StoreInv, StoreTypeOK, RowsKnown, StoreSubmit
  <1>4. AttemptsSpent'
    BY <1>0, JobStoreAssumption DEF StoreInv, StoreTypeOK, AttemptsSpent, StoreSubmit, InState
  <1>5. ResumeFirst'
    <2>1. SUFFICES ASSUME NEW i \in InState("QUEUED")', NEW j \in InState("QUEUED")', i # j
                   PROVE  /\ hint'[i] # hint'[j]
                          /\ i \in claimed' /\ j \notin claimed' => hint'[i] < hint'[j]
                          /\ i \notin claimed' /\ j \notin claimed' /\ i < j
                               => hint'[i] < hint'[j]
      BY DEF ResumeFirst
    <2>2. \A q \in InState("QUEUED")' \ {n} :
            /\ q \in InState("QUEUED") /\ q \in Rows /\ hint'[q] = hint[q]
            /\ hint[q] \in Int /\ q \in Jobs /\ q < n
      BY <1>0 DEF StoreInv, StoreTypeOK, RowsKnown, StoreSubmit, InState, Rows
    <2>3. hint'[n] = LastHint + 1
      BY <1>0 DEF StoreInv, StoreTypeOK, StoreSubmit
    <2> HIDE DEF n
    <2>4. CASE i = n
      BY <1>0, <1>1, <2>1, <2>2, <2>3, <2>4
    <2>5. CASE j = n
      BY <1>0, <1>1, <2>1, <2>2, <2>3, <2>5
    <2>6. CASE i # n /\ j # n
      BY <2>1, <2>2, <2>6 DEF StoreInv, ResumeFirst, StoreSubmit
    <2> QED BY <2>4, <2>5, <2>6
  <1> QED BY <1>2, <1>3, <1>4, <1>5 DEF StoreInv

\* Steps that take Jobs out of the line or change none.
LEMMA LeaveInv ==
  ASSUME StoreInv,
         \/ \E i \in Jobs : ClaimNext(i) /\ claimed' = claimed \cup {i}
         \/ UNCHANGED claimed /\ \E i \in Jobs : StoreCancel(i) \/ Succeed(i)
         \/ UNCHANGED claimed /\ \E D \in SUBSET Jobs : Prune(D)
  PROVE  StoreInv'
  <1> USE DEF StoreInv, InState, Terminal, States
  <1>1. ASSUME NEW i \in Jobs, ClaimNext(i), claimed' = claimed \cup {i} PROVE StoreInv'
    <2>1. StoreTypeOK'
      BY <1>1 DEF StoreTypeOK, ClaimNext
    <2>2. RowsKnown'
      BY <1>1 DEF StoreTypeOK, RowsKnown, ClaimNext
    <2>3. AttemptsSpent'
      BY <1>1 DEF StoreTypeOK, AttemptsSpent, ClaimNext
    <2>4. ResumeFirst'
      BY <1>1, LineShrinks DEF StoreTypeOK, ClaimNext
    <2> QED BY <2>1, <2>2, <2>3, <2>4
  <1>2. ASSUME NEW i \in Jobs, StoreCancel(i) \/ Succeed(i), UNCHANGED claimed PROVE StoreInv'
    <2>1. StoreTypeOK'
      BY <1>2 DEF StoreTypeOK, StoreCancel, Succeed
    <2>2. RowsKnown'
      BY <1>2 DEF StoreTypeOK, RowsKnown, StoreCancel, Succeed
    <2>3. AttemptsSpent'
      BY <1>2 DEF StoreTypeOK, AttemptsSpent, StoreCancel, Succeed
    <2>4. ResumeFirst'
      BY <1>2, LineShrinks DEF StoreTypeOK, StoreCancel, Succeed
    <2> QED BY <2>1, <2>2, <2>3, <2>4
  <1>3. ASSUME NEW D \in SUBSET Jobs, Prune(D), UNCHANGED claimed PROVE StoreInv'
    <2>1. StoreTypeOK'
      BY <1>3 DEF StoreTypeOK, Prune
    <2>2. RowsKnown'
      BY <1>3 DEF StoreTypeOK, RowsKnown, Prune
    <2>3. AttemptsSpent'
      BY <1>3 DEF StoreTypeOK, AttemptsSpent, Prune
    <2>4. ResumeFirst'
      BY <1>3, LineShrinks DEF StoreTypeOK, Prune
    <2> QED BY <2>1, <2>2, <2>3, <2>4
  <1> QED BY <1>1, <1>2, <1>3

\* Preempt and FailOrRetry put the Job they requeue in front.
LEMMA RequeueInv ==
  ASSUME StoreInv, NEW i \in Jobs, Preempt(i) \/ FailOrRetry(i), UNCHANGED claimed
  PROVE  StoreInv'
  <1> USE DEF StoreInv, InState, Terminal, States
  <1>0. i \in claimed /\ state[i] = "RUNNING" /\ FirstHint \in Int
    BY FirstHintFirst DEF Preempt, FailOrRetry, RowsKnown
  <1>1. StoreTypeOK'
    BY <1>0 DEF StoreTypeOK, Preempt, FailOrRetry
  <1>2. RowsKnown'
    BY <1>0 DEF StoreTypeOK, RowsKnown, Preempt, FailOrRetry
  <1>3. AttemptsSpent'
    <2>1. MaxAttempts \in Nat /\ attempts[i] \in Nat /\ attempts[i] < MaxAttempts
      BY <1>0, JobStoreAssumption DEF StoreTypeOK, AttemptsSpent
    <2>2. CASE Preempt(i)
      BY <1>0, <2>1, <2>2 DEF StoreTypeOK, AttemptsSpent, Preempt
    <2>3. CASE FailOrRetry(i)
      BY <1>0, <2>1, <2>3 DEF StoreTypeOK, AttemptsSpent, FailOrRetry
    <2> QED BY <2>2, <2>3
  <1>4. ResumeFirst'
    <2>1. CASE state' = [state EXCEPT ![i] = "FAILED"] /\ UNCHANGED hint
      BY <1>0, <2>1, LineShrinks DEF StoreTypeOK
    <2>2. CASE hint' = [hint EXCEPT ![i] = FirstHint - 1]
      <3> DEFINE K == {i}
      <3>1. K \in SUBSET claimed
        BY <1>0
      <3>2. InState("QUEUED")' \subseteq InState("QUEUED") \cup K
        BY <1>0 DEF StoreTypeOK, Preempt, FailOrRetry
      <3>3. hint'[i] = FirstHint - 1 /\ FirstHint - 1 < FirstHint
        BY <1>0, <2>2 DEF StoreTypeOK
      <3>4. \A j \in K : hint'[j] < FirstHint
        BY <3>3
      <3>5. \A j \in Jobs \ K : hint'[j] = hint[j]
        BY <2>2 DEF StoreTypeOK
      <3>6. K \cap InState("QUEUED") = {}
        BY <1>0
      <3>7. \A j, l \in K : j # l => hint'[j] # hint'[l]
        OBVIOUS
      <3>8. hint' \in [Jobs -> Int] /\ claimed' = claimed
        BY <1>1 DEF StoreTypeOK
      <3> HIDE DEF K, InState
      <3> QED BY <3>1, <3>2, <3>4, <3>5, <3>6, <3>7, <3>8, LineRequeues
    <2> QED BY <2>1, <2>2 DEF Preempt, FailOrRetry
  <1> QED BY <1>1, <1>2, <1>3, <1>4

\* Counting the members of K up to i numbers the members of K.
LEMMA CountUpTo ==
  ASSUME NEW K \in SUBSET Jobs
  PROVE  LET c(i) == Cardinality({j \in K : j <= i})
         IN  /\ \A i \in K : c(i) \in Nat \ {0}
             /\ \A i, l \in K : i # l => c(i) # c(l)
  <1> DEFINE U(i) == {j \in K : j <= i}
             c(i) == Cardinality(U(i))
  <1>0. \A i \in K : i \in Int
    BY JobsFinite
  <1>1. \A i \in K : IsFiniteSet(U(i)) /\ c(i) \in Nat
    BY JobsFinite
  <1>2. ASSUME NEW i \in K PROVE c(i) # 0
    <2>1. i \in U(i)
      BY <1>0
    <2> QED BY <1>1, <2>1, FS_EmptySet
  <1>3. ASSUME NEW i \in K, NEW l \in K, i < l PROVE c(i) # c(l)
    <2>1. U(i) \in SUBSET U(l) /\ U(i) # U(l)
      <3>1. U(i) \subseteq U(l)
        BY <1>0, <1>3
      <3>2. l \in U(l) /\ l \notin U(i)
        BY <1>0, <1>3
      <3> QED BY <3>1, <3>2
    <2> HIDE DEF U
    <2> QED BY <1>1, <2>1, FS_Subset
  <1>4. ASSUME NEW i \in K, NEW l \in K, i # l PROVE c(i) # c(l)
    <2>1. CASE i < l
      BY <1>3, <2>1
    <2>2. CASE l < i
      BY <1>3, <2>2
    <2> QED BY <1>0, <1>4, <2>1, <2>2
  <1> QED BY <1>1, <1>2, <1>4

\* The startup sweep puts the Jobs it requeues in front, each in a place of its own.
LEMMA RecoverInv ==
  ASSUME StoreInv, RecoverRunning, UNCHANGED claimed
  PROVE  StoreInv'
  <1> DEFINE spent == {i \in InState("RUNNING") : attempts[i] + 1 >= MaxAttempts}
             K     == InState("RUNNING") \ spent
             c(i)  == Cardinality({j \in K : j <= i})
  <1>1. /\ attempts' = [i \in Jobs |->
                          IF state[i] = "RUNNING" THEN attempts[i] + 1 ELSE attempts[i]]
        /\ state' = [i \in Jobs |-> IF i \in spent THEN "FAILED"
                                    ELSE IF i \in K THEN "QUEUED" ELSE state[i]]
        /\ hint' = [i \in Jobs |-> IF i \in K THEN FirstHint - c(i) ELSE hint[i]]
        /\ UNCHANGED <<keyOf, nextJob>>
    BY DEF RecoverRunning
  <1>2. K \in SUBSET Jobs /\ K \in SUBSET claimed
    BY DEF StoreInv, RowsKnown, InState
  <1>3. /\ \A i \in K : c(i) \in Nat \ {0}
        /\ \A i, l \in K : i # l => c(i) # c(l)
    BY <1>2, CountUpTo
  <1>4. FirstHint \in Int
    BY FirstHintFirst DEF StoreInv
  <1>5. /\ \A i \in Jobs : i \in spent <=> state[i] = "RUNNING" /\ attempts[i] + 1 >= MaxAttempts
        /\ \A i \in Jobs : i \in K <=> state[i] = "RUNNING" /\ i \notin spent
    BY DEF InState
  <1> HIDE DEF spent, K, c
  <1>6. StoreTypeOK'
    BY <1>1, <1>3, <1>4, <1>5 DEF StoreInv, StoreTypeOK, States, Terminal
  <1>7. RowsKnown'
    BY <1>1, <1>5 DEF StoreInv, StoreTypeOK, RowsKnown
  <1>8. AttemptsSpent'
    BY <1>1, <1>5, JobStoreAssumption DEF StoreInv, StoreTypeOK, AttemptsSpent, InState
  <1>9. ResumeFirst'
    <2>1. InState("QUEUED")' \subseteq InState("QUEUED") \cup K
      BY <1>1, <1>5 DEF InState
    <2>2. \A i \in K : hint'[i] < FirstHint
      BY <1>1, <1>2, <1>3, <1>4
    <2>3. \A i, l \in K : i # l => hint'[i] # hint'[l]
      BY <1>1, <1>2, <1>3, <1>4
    <2>4. \A i \in Jobs \ K : hint'[i] = hint[i]
      BY <1>1
    <2>5. K \cap InState("QUEUED") = {}
      BY <1>5 DEF InState
    <2>6. hint' \in [Jobs -> Int]
      BY <1>6 DEF StoreTypeOK
    <2> QED BY <1>2, <2>1, <2>2, <2>3, <2>4, <2>5, <2>6, LineRequeues DEF StoreInv
  <1> QED BY <1>6, <1>7, <1>8, <1>9 DEF StoreInv

LEMMA StoreInvStep ==
  ASSUME StoreInv, StoreStep
  PROVE  StoreInv'
  <1>1. CASE UNCHANGED <<storeVars, claimed>>
    BY <1>1 DEF StoreInv, StoreTypeOK, RowsKnown, AttemptsSpent, ResumeFirst, InState, storeVars
  <1> QED BY <1>1, SubmitInv, LeaveInv, RequeueInv, RecoverInv DEF StoreStep

\* An ended Job keeps its row or loses it.
LEMMA StoreTerminal ==
  ASSUME StoreInv, StoreStep, NEW i \in Jobs, state[i] \in Terminal
  PROVE  state'[i] = "none" \/ (state'[i] = state[i] /\ attempts'[i] = attempts[i])
  <1> USE DEF StoreInv, StoreTypeOK, Terminal
  <1>1. ASSUME NEW k \in Keys, StoreSubmit(k)
        PROVE  state'[i] = state[i] /\ attempts'[i] = attempts[i]
    <2>1. i # nextJob
      BY DEF RowsKnown, Jobs
    <2> QED BY <1>1, <2>1 DEF StoreSubmit
  <1>2. ASSUME NEW j \in Jobs, ClaimNext(j) \/ StoreCancel(j) \/ Succeed(j) \/ Preempt(j)
        PROVE  state'[i] = state[i] /\ attempts'[i] = attempts[i]
    BY <1>2 DEF ClaimNext, StoreCancel, Succeed, Preempt
  <1>3. ASSUME NEW j \in Jobs, FailOrRetry(j)
        PROVE  state'[i] = state[i] /\ attempts'[i] = attempts[i]
    BY <1>3 DEF FailOrRetry
  <1>4. ASSUME NEW D \in SUBSET Jobs, Prune(D)
        PROVE  state'[i] = "none" \/ (state'[i] = state[i] /\ attempts'[i] = attempts[i])
    BY <1>4 DEF Prune
  <1>5. ASSUME RecoverRunning
        PROVE  state'[i] = state[i] /\ attempts'[i] = attempts[i]
    BY <1>5 DEF RecoverRunning, InState
  <1> QED BY <1>1, <1>2, <1>3, <1>4, <1>5 DEF StoreStep, storeVars

-----------------------------------------------------------------------------
(* The worker.  A crash resets all but the store.                          *)

\* Exactly one Job is registered, and none when the worker has none.
RunTypeOK ==
  /\ wpc \in Holds \cup {"top", "peek", "acquire", "stopped"}
  /\ cur \in Jobs \cup {0} /\ (cur # 0 <=> wpc \in HasJob)
  /\ running \subseteq {cur} \ {0} /\ aborting \subseteq Jobs
  /\ jobCtx \in {"live", "cancelled"}
  /\ preempted \in BOOLEAN /\ pastQuantum \in BOOLEAN
  /\ life \in {"up", "stopping", "down"}
  /\ runGen \in Nat /\ crashes \in Nat /\ visits \in Nat
  /\ serveGen \in Nat
  /\ asked \in [job : Jobs \cup {0}, hint : Int] /\ (life = "down" => asked = NoRow)

\* From Acquire's return to its Release the worker owns a slot.
WorkerHolds == wpc \in Holds => acq[worker] = "holding"

JobInv == SchedInv /\ StoreInv /\ RunTypeOK /\ WorkerHolds

LEMMA WorkerCalls == worker \in Callers
  BY JobRunnerAssumption DEF Callers

LEMMA SchedRestarts == SchedInit' => SchedInv'
  <1>1. SchedInit => SchedInv
    BY InitInv
  <1> QED BY <1>1, PTL

LEMMA JobInvInit ==
  ASSUME JobInit
  PROVE  JobInv
  <1>1. SchedInv
    BY InitInv DEF JobInit
  <1>2. StoreInv
    BY StoreInvInit DEF JobInit
  <1>3. asked = NoRow /\ NoRow \in [job : Jobs \cup {0}, hint : Int]
    BY DEF JobInit, RunInit, NoRow
  <1>4. RunTypeOK /\ WorkerHolds
    BY <1>3 DEF JobInit, RunInit, AdmInit, RunTypeOK, WorkerHolds, Holds, HasJob
  <1> QED BY <1>1, <1>2, <1>4 DEF JobInv

\* The labels at which the worker has a Job, which is one of the store's.
LEMMA HasCur ==
  ASSUME RunTypeOK, wpc \in HasJob
  PROVE  cur \in Jobs
  BY DEF RunTypeOK

\* What a step of the broker is to the store.
LEMMA JobStoreStep ==
  ASSUME JobInv, [JobNext]_jobVars
  PROVE  StoreStep
  <1> DEFINE Same == UNCHANGED <<storeVars, claimed>>
  <1>0. RunTypeOK
    BY DEF JobInv
  <1>1. ASSUME Api PROVE StoreStep
    <2>1. ASSUME NEW k \in Keys, Submit(k) PROVE StoreStep
      BY <2>1 DEF Submit, StoreStep
    <2>2. ASSUME NEW i \in Jobs, Cancel(i) PROVE StoreStep
      BY <2>2 DEF Cancel, StoreStep
    <2>3. ASSUME NEW i \in Jobs, CancelAbort(i) PROVE StoreStep
      BY <2>3 DEF CancelAbort, StoreStep
    <2>4. ASSUME PruneOnce PROVE StoreStep
      BY <2>4 DEF PruneOnce, StoreStep
    <2>5. ASSUME (\E i \in Jobs : PositionGet(i)) \/ PositionCount PROVE StoreStep
      BY <2>5 DEF PositionGet, PositionCount, StoreStep
    <2> QED BY <1>1, <2>1, <2>2, <2>3, <2>4, <2>5 DEF Api
  <1>2. WClaim => StoreStep
    BY DEF WClaim, StoreStep
  <1>3. ASSUME WSucceed \/ WRequeue \/ WFail PROVE StoreStep
    <2>1. cur \in Jobs /\ claimed' = claimed
      BY <1>0, <1>3, HasCur DEF WSucceed, WRequeue, WFail, Step, HasJob
    <2>2. Succeed(cur) \/ Preempt(cur) \/ FailOrRetry(cur) \/ UNCHANGED storeVars
      BY <1>3 DEF WSucceed, WRequeue, WFail, Missed
    <2> QED BY <2>1, <2>2 DEF StoreStep
  <1>4. WLook \/ WPeek \/ WAcquire \/ WAdmit \/ WStart \/ WCapture \/ WClassify \/ WWhy
          \/ WEnd \/ WRelease \/ WGenerated \/ WGenFailed => Same
    BY DEF WLook, WPeek, WAcquire, WAdmit, WStart, WCapture, WClassify, WWhy, WEnd, WRelease,
           WGenerated, WGenFailed
  <1>5. Monitor \/ QuantumOver => Same
    BY DEF Monitor, MonitorYield, MonitorPing, MonitorTick, QuantumOver
  <1>6. ASSUME NEW c \in Others, Visit(c) \/ Interact(c) PROVE Same
    BY <1>6 DEF Visit, Interact
  <1>7. Yield \/ Stop \/ Crash => Same
    BY DEF Yield, Stop, Crash
  <1>8. Recover => StoreStep
    BY DEF Recover, StoreStep
  <1>9. UNCHANGED jobVars => Same
    BY DEF jobVars
  <1>10. Same => StoreStep
    BY DEF StoreStep
  <1> HIDE DEF Same
  <1> QED BY <1>1, <1>2, <1>3, <1>4, <1>5, <1>6, <1>7, <1>8, <1>9, <1>10 DEF JobNext, Work

\* What it is to the Scheduler, and to the worker's slot.
LEMMA JobSchedStep ==
  ASSUME JobInv, [JobNext]_jobVars
  PROVE  ([SchedNext]_schedVars \/ SchedInit') /\ WorkerHolds'
  <1> DEFINE Moved == ([SchedNext]_schedVars \/ SchedInit') /\ WorkerHolds'
             Same  == UNCHANGED <<schedVars, wpc>>
  <1>0. worker \in Callers /\ acq \in [Callers -> AcqStates] /\ WorkerHolds
    BY WorkerCalls DEF JobInv, SchedInv, SchedTypeOK
  <1>1. Same => Moved
    BY <1>0 DEF WorkerHolds, schedVars
  <1>2. ASSUME WAcquire PROVE Moved
    <2>1. SchedNext
      BY <1>0, <1>2 DEF WAcquire, SchedNext, AcquireStep
    <2>2. WorkerHolds'
      <3>1. CASE (AcquireFast(worker) \/ AcquireGranted(worker)) /\ Step("acquire", "admit")
        BY <1>0, <3>1 DEF AcquireFast, AcquireGranted, WorkerHolds
      <3>2. CASE wpc' \in {"top", "acquire"}
        BY <3>2 DEF WorkerHolds, Holds
      <3> QED BY <1>2, <3>1, <3>2 DEF WAcquire, Step
    <2> QED BY <2>1, <2>2
  <1>3. ASSUME WRelease PROVE Moved
    BY <1>0, <1>3 DEF WRelease, SchedNext, WorkerHolds, Step, Holds
  <1>4. ASSUME WLook \/ WPeek \/ WAdmit \/ WClaim \/ WStart \/ WCapture \/ WSucceed
                 \/ WClassify \/ WWhy \/ WRequeue \/ WFail \/ WEnd \/ WGenerated \/ WGenFailed
        PROVE  Moved
    <2>1. UNCHANGED schedVars
      BY <1>4 DEF WLook, WPeek, WAdmit, WClaim, WStart, WCapture, WSucceed, WClassify, WWhy,
                  WRequeue, WFail, WEnd, WGenerated, WGenFailed
    <2>2. wpc' \in Holds => wpc \in Holds
      BY <1>4 DEF WLook, WPeek, WAdmit, WClaim, WStart, WCapture, WSucceed, WClassify, WWhy,
                  WRequeue, WFail, WEnd, WGenerated, WGenFailed, Step, Holds
    <2> QED BY <1>0, <2>1, <2>2 DEF WorkerHolds, schedVars
  <1>5. ASSUME NEW c \in Others, Visit(c) \/ Interact(c) PROVE Moved
    <2>1. c \in Callers /\ c # worker
      BY DEF Others
    <2>2. SchedNext
      BY <1>5, <2>1 DEF Visit, Interact, SchedNext
    <2>3. \E v \in AcqStates : acq' = [acq EXCEPT ![c] = v]
      BY <1>5 DEF Visit, Interact, AcquireStep, AcquireFast, AcquireQueueFull, AcquireEnqueue,
                  AcquireGranted, AcquireRemoveWaiter, AcquireNotQueued, AcquireHandBack,
                  AcquireCtxDone, Release, AcqStates
    <2>4. wpc' = wpc
      BY <1>5 DEF Visit, Interact
    <2> QED BY <1>0, <2>1, <2>2, <2>3, <2>4 DEF WorkerHolds
  <1>6. ASSUME MonitorPing PROVE Moved
    BY <1>0, <1>6 DEF MonitorPing, ReceivePing, SchedNext, WorkerHolds
  <1>7. ASSUME Crash PROVE Moved
    BY <1>7 DEF Crash, SchedInit, WorkerHolds, Holds
  <1>8. MonitorYield \/ MonitorTick \/ QuantumOver \/ Yield \/ Stop \/ Recover => Same
    BY DEF MonitorYield, MonitorTick, QuantumOver, Yield, Stop, Recover
  <1>9. Api => Same
    BY DEF Api, Submit, Cancel, CancelAbort, PruneOnce, PositionGet, PositionCount
  <1>10. UNCHANGED jobVars => Same
    BY DEF jobVars
  <1> HIDE DEF Moved, Same
  <1>11. Moved
    BY <1>1, <1>2, <1>3, <1>4, <1>5, <1>6, <1>7, <1>8, <1>9, <1>10 DEF JobNext, Work, Monitor
  <1> QED BY <1>11 DEF Moved

\* What it is to the worker itself.
LEMMA JobRunStep ==
  ASSUME JobInv, [JobNext]_jobVars
  PROVE  RunTypeOK'
  <1> DEFINE Same == UNCHANGED <<wpc, runVars, apiVars, worldVars, serveGen>>
  <1>0. RunTypeOK /\ 0 \notin Jobs /\ hint \in [Jobs -> Int]
    BY DEF JobInv, Jobs, StoreInv, StoreTypeOK
  <1> USE DEF RunTypeOK, Holds, HasJob, Step
  <1>1. Same => RunTypeOK'
    BY <1>0 DEF runVars, apiVars, worldVars
  <1>2. ASSUME NEW i \in Jobs, Cancel(i) \/ CancelAbort(i) PROVE RunTypeOK'
    BY <1>0, <1>2 DEF Cancel, CancelAbort, runVars, apiVars, worldVars, yieldVars
  <1>14. ASSUME life # "down", (\E i \in Jobs : PositionGet(i)) \/ PositionCount
         PROVE  RunTypeOK'
    <2>1. UNCHANGED <<wpc, runVars, aborting, worldVars, serveGen>>
      BY <1>14 DEF PositionGet, PositionCount, yieldVars
    <2>2. asked' \in [job : Jobs \cup {0}, hint : Int]
      BY <1>0, <1>14 DEF PositionGet, PositionCount, NoRow
    <2> QED BY <1>0, <1>14, <2>1, <2>2 DEF runVars, worldVars
  <1>3. PruneOnce \/ (\E k \in Keys : Submit(k)) => Same
    BY DEF PruneOnce, Submit, yieldVars
  <1>4. ASSUME WLook \/ WPeek \/ WAcquire \/ WAdmit PROVE RunTypeOK'
    BY <1>0, <1>4 DEF WLook, WPeek, WAcquire, WAdmit, runVars, apiVars, worldVars, yieldVars
  <1>5. ASSUME WClaim PROVE RunTypeOK'
    BY <1>0, <1>5 DEF WClaim, apiVars, worldVars, yieldVars
  <1>6. ASSUME WStart \/ WCapture \/ WEnd PROVE RunTypeOK'
    <2>1. CASE WStart
      BY <1>0, <2>1 DEF WStart, apiVars, worldVars, yieldVars
    <2>2. CASE WCapture
      BY <1>0, <2>2 DEF WCapture, apiVars, worldVars, yieldVars
    <2>3. CASE WEnd
      BY <1>0, <2>3 DEF WEnd, apiVars, worldVars, yieldVars
    <2> QED BY <1>6, <2>1, <2>2, <2>3
  <1>7. ASSUME WSucceed \/ WClassify \/ WWhy \/ WRequeue \/ WFail \/ WRelease \/ WGenerated
                 \/ WGenFailed
        PROVE  RunTypeOK'
    BY <1>0, <1>7 DEF WSucceed, WClassify, WWhy, WRequeue, WFail, WRelease, WGenerated,
                      WGenFailed, runVars, apiVars, worldVars, yieldVars
  <1>8. ASSUME MonitorYield \/ MonitorPing \/ MonitorTick \/ QuantumOver PROVE RunTypeOK'
    BY <1>0, <1>8 DEF MonitorYield, MonitorPing, MonitorTick, QuantumOver, apiVars, worldVars, yieldVars
  <1>9. ASSUME NEW c \in Others, Visit(c) \/ Interact(c) PROVE RunTypeOK'
    BY <1>0, <1>9 DEF Visit, Interact, runVars, apiVars, worldVars, yieldVars
  <1>10. ASSUME Yield \/ Stop PROVE RunTypeOK'
    BY <1>0, <1>10 DEF Yield, YieldStart, YieldStop, Stop, runVars, apiVars, worldVars, yieldVars
  <1>11. ASSUME Crash PROVE RunTypeOK'
    <2>1. /\ wpc' = "top" /\ cur' = 0 /\ running' = {} /\ aborting' = {} /\ runGen' = 0
          /\ asked' = NoRow /\ NoRow \in [job : Jobs \cup {0}, hint : Int]
          /\ jobCtx' = "cancelled" /\ preempted' = FALSE /\ pastQuantum' = FALSE
          /\ life' = "down" /\ crashes' = crashes + 1 /\ visits' = visits /\ serveGen' = 0
      BY <1>11 DEF Crash, NoRow
    <2>2. "top" \notin HasJob /\ "top" \in Holds \cup {"top", "peek", "acquire", "stopped"}
      OBVIOUS
    <2>3. crashes + 1 \in Nat /\ visits \in Nat /\ 0 \in Nat
      BY <1>0
    <2> HIDE DEF HasJob, Holds
    <2> QED BY <2>1, <2>2, <2>3
  <1>12. ASSUME Recover PROVE RunTypeOK'
    BY <1>0, <1>12 DEF Recover, runVars, apiVars, yieldVars
  <1>13. UNCHANGED jobVars => Same
    BY DEF jobVars, yieldVars
  <1> HIDE DEF RunTypeOK, Same, Holds, HasJob, Step
  <1> QED BY <1>1, <1>2, <1>3, <1>4, <1>5, <1>6, <1>7, <1>8, <1>9, <1>10, <1>11, <1>12, <1>13,
             <1>14 DEF JobNext, Api, Work, Monitor

LEMMA JobInvStep ==
  ASSUME JobInv, [JobNext]_jobVars
  PROVE  JobInv'
  <1>1. SchedInv'
    BY JobSchedStep, StepInv, SchedRestarts DEF JobInv
  <1>2. StoreInv'
    BY JobStoreStep, StoreInvStep DEF JobInv
  <1>3. RunTypeOK' /\ WorkerHolds'
    BY JobRunStep, JobSchedStep
  <1> QED BY <1>1, <1>2, <1>3 DEF JobInv

-----------------------------------------------------------------------------

\* Every reachable state has the types of JobTypeOK; the running map of the Service never has
\* an entry but that of the Job the worker is running, whatever crashes (startRun, endRun).
THEOREM JobsTyped == JobSpec => []JobTypeOK
  <1>1. JobInit => JobInv
    BY JobInvInit
  <1>2. JobInv /\ [JobNext]_jobVars => JobInv'
    BY JobInvStep
  <1>3. JobInv => JobTypeOK
    BY DEF JobInv, SchedInv, StoreInv, StoreTypeOK, RunTypeOK, JobTypeOK
  <1> QED BY <1>1, <1>2, <1>3, PTL DEF JobSpec

\* The Job worker shares the slots with the proxied requests and leaks none, through yields,
\* shutdowns, crashes and restarts (runNext's deferred Release).
THEOREM JobSlotsAccounted == JobSpec => []SlotAccounting
  <1>1. JobInit => JobInv
    BY JobInvInit
  <1>2. JobInv /\ [JobNext]_jobVars => JobInv'
    BY JobInvStep
  <1>3. JobInv => SlotAccounting
    BY DEF JobInv, SchedInv
  <1> QED BY <1>1, <1>2, <1>3, PTL DEF JobSpec

\* A live Job has attempts left and a FAILED one has used exactly MaxAttempts, for every number
\* of crashes, preemptions and upstream errors (FailOrRetry, RecoverRunning, Preempt).
THEOREM AttemptsAccounted == JobSpec => []AttemptsSpent
  <1>1. JobInit => JobInv
    BY JobInvInit
  <1>2. JobInv /\ [JobNext]_jobVars => JobInv'
    BY JobInvStep
  <1>3. JobInv => AttemptsSpent
    BY DEF JobInv, StoreInv
  <1> QED BY <1>1, <1>2, <1>3, PTL DEF JobSpec

\* The line is resume-first and otherwise first come, first served, with no two Jobs in one
\* place, also after a sweep that requeues any number of Jobs (position_hint).
THEOREM LineResumesFirst == JobSpec => []ResumeFirst
  <1>1. JobInit => JobInv
    BY JobInvInit
  <1>2. JobInv /\ [JobNext]_jobVars => JobInv'
    BY JobInvStep
  <1>3. JobInv => ResumeFirst
    BY DEF JobInv, StoreInv
  <1> QED BY <1>1, <1>2, <1>3, PTL DEF JobSpec

\* An ended Job is never revived, re-counted or ended differently: not by the worker that is
\* still running it, by a second Cancel or by the sweep (the WHERE clauses of the store).
THEOREM EndedJobsStay == JobSpec => TerminalStable
  <1>1. JobInit => JobInv
    BY JobInvInit
  <1>2. JobInv /\ [JobNext]_jobVars => JobInv'
    BY JobInvStep
  <1>3. JobInv /\ [JobNext]_jobVars =>
          \A i \in Jobs : state[i] \in Terminal =>
            state'[i] = "none" \/ (state'[i] = state[i] /\ attempts'[i] = attempts[i])
    BY JobStoreStep, StoreTerminal DEF JobInv
  <1> QED BY <1>1, <1>2, <1>3, PTL DEF JobSpec, TerminalStable

-----------------------------------------------------------------------------
(* Position.  The line may move between its two statements.                *)

\* The Job asked for stands no further back than its row was read to, or it was requeued since;
\* then it is the first of the line and the worker has no other Job that it could put before it.
AskInv ==
  asked.job # 0 /\ state[asked.job] = "QUEUED" =>
    \/ hint[asked.job] <= asked.hint
    \/ /\ \A j \in InState("QUEUED") : ~Before(j, asked.job)
       /\ cur \in {0, asked.job}

\* What the COUNT leaves out does not stand before the Job.
LEMMA AskInvTells ==
  ASSUME JobInv, AskInv
  PROVE  PositionNotFlattering
  <1> DEFINE i == asked.job
             h == asked.hint
             Q == InState("QUEUED")
             A == {j \in Q : hint[j] < hint[i] \/ (hint[j] = hint[i] /\ j < i)}
             B == {j \in Q : hint[j] < h \/ (hint[j] = h /\ j < i)}
  <1> SUFFICES ASSUME i # 0, state[i] = "QUEUED"
               PROVE  Told >= Position(i, hint[i])
    BY DEF PositionNotFlattering
  <1>0. i \in Jobs /\ h \in Int /\ \A j \in Jobs : j \in Int /\ hint[j] \in Int
    BY JobsFinite DEF JobInv, RunTypeOK, StoreInv, StoreTypeOK
  <1>1. Q \in SUBSET Jobs /\ B \in SUBSET Jobs
    BY DEF InState
  <1>2. A \in SUBSET B
    <2>1. CASE hint[i] <= h
      BY <1>0, <1>1, <2>1
    <2>2. CASE \A j \in Q : ~Before(j, i)
      BY <2>2 DEF Before
    <2> QED BY <2>1, <2>2 DEF AskInv
  <1>3. Position(i, hint[i]) = Cardinality(A) + 1 /\ Told = Cardinality(B) + 1
    BY DEF Position, Told
  <1> HIDE DEF A, B
  <1>4. Cardinality(A) <= Cardinality(B) /\ Cardinality(A) \in Nat /\ Cardinality(B) \in Nat
    <2>1. IsFiniteSet(B) /\ Cardinality(B) \in Nat
      BY <1>1, JobsFinite
    <2>2. A \in SUBSET Jobs
      BY <1>1, <1>2
    <2>3. Cardinality(A) \in Nat
      BY <2>2, JobsFinite
    <2> QED BY <1>2, <2>1, <2>3, FS_Subset
  <1> QED BY <1>3, <1>4

\* Steps that bring nothing into the line and leave the Job of the worker alone.
LEMMA AskInvQuiet ==
  ASSUME JobInv, AskInv, asked' = asked, cur' \in {0, cur},
         \A j \in InState("QUEUED")' : j \in InState("QUEUED") /\ hint'[j] = hint[j]
  PROVE  AskInv'
  <1>1. ASSUME asked.job # 0, state'[asked.job] = "QUEUED"
        PROVE  asked.job \in Jobs /\ state[asked.job] = "QUEUED"
               /\ hint'[asked.job] = hint[asked.job]
    BY <1>1 DEF JobInv, RunTypeOK, InState
  <1>2. asked.job # 0 /\ state'[asked.job] = "QUEUED" =>
          (\A j \in InState("QUEUED")' : Before(j, asked.job)' => Before(j, asked.job))
    BY <1>1 DEF Before
  <1> QED BY <1>1, <1>2 DEF AskInv

\* The worker requeues its Job: another one it puts before the Job asked for was the worker's
\* all along, and the Job asked for becomes the first.
LEMMA AskInvRequeue ==
  ASSUME JobInv, AskInv, cur \in Jobs, state[cur] = "RUNNING", UNCHANGED <<asked, cur>>,
         state' = [state EXCEPT ![cur] = "QUEUED"],
         hint' = [hint EXCEPT ![cur] = FirstHint - 1]
  PROVE  AskInv'
  <1>0. /\ StoreTypeOK
        /\ FirstHint \in Int /\ \A j \in InState("QUEUED") : FirstHint <= hint[j]
        /\ \A j \in Jobs : j \in Int /\ hint[j] \in Int
    BY FirstHintFirst, JobsFinite DEF JobInv, StoreInv, StoreTypeOK
  <1> SUFFICES ASSUME asked.job # 0, state'[asked.job] = "QUEUED"
               PROVE  \/ hint'[asked.job] <= asked.hint
                      \/ /\ \A j \in InState("QUEUED")' : ~Before(j, asked.job)'
                         /\ cur \in {0, asked.job}
    BY DEF AskInv
  <1>1. asked.job \in Jobs /\ asked.hint \in Int
    BY DEF JobInv, RunTypeOK
  <1>2. CASE asked.job = cur
    <2>1. hint'[cur] = FirstHint - 1 /\ hint'[cur] \in Int
      BY <1>0 DEF StoreTypeOK
    <2>2. ASSUME NEW j \in InState("QUEUED")', j # cur PROVE hint'[cur] < hint'[j]
      <3>1. j \in InState("QUEUED") /\ hint'[j] = hint[j] /\ hint[j] \in Int
        BY <1>0, <2>2 DEF InState, StoreTypeOK
      <3> QED BY <1>0, <2>1, <3>1
    <2>3. ASSUME NEW j \in InState("QUEUED")' PROVE ~Before(j, cur)'
      <3>1. j \in Jobs /\ hint'[j] \in Int /\ cur' = cur
        BY <1>0 DEF InState, StoreTypeOK
      <3> QED BY <1>0, <2>1, <2>2, <3>1 DEF Before
    <2> QED BY <1>2, <2>3
  <1>3. CASE asked.job # cur
    <2>1. state[asked.job] = "QUEUED" /\ hint'[asked.job] = hint[asked.job]
      BY <1>0, <1>1, <1>3 DEF StoreTypeOK
    <2>2. cur # 0
      BY DEF Jobs
    <2> QED BY <1>3, <2>1, <2>2 DEF AskInv
  <1> QED BY <1>2, <1>3

\* The Job asked for has been submitted, so that no Submit brings it into the line.
AskKnown == asked.job < nextJob

LEMMA AskKnownStep ==
  ASSUME JobInv, AskKnown, [JobNext]_jobVars
  PROVE  AskKnown'
  <1>0. StoreTypeOK /\ RunTypeOK /\ RowsKnown
    BY DEF JobInv, StoreInv
  <1>1. nextJob' \in {nextJob, nextJob + 1}
    BY JobStoreStep DEF StoreStep, storeVars, StoreSubmit, StoreCancel, Succeed, Preempt,
                        FailOrRetry, Prune, ClaimNext, RecoverRunning
  <1>2. asked.job \in Int /\ nextJob \in Int /\ nextJob > 0
    BY <1>0 DEF StoreTypeOK, RunTypeOK, Jobs
  <1>3. CASE asked' = asked
    BY <1>1, <1>2, <1>3 DEF AskKnown
  <1>4. CASE asked' = NoRow
    BY <1>1, <1>2, <1>4 DEF AskKnown, NoRow
  <1>5. ASSUME NEW i \in Jobs, PositionGet(i) PROVE AskKnown'
    <2>1. asked'.job = i /\ nextJob' = nextJob /\ state[i] = "QUEUED"
      BY <1>5 DEF PositionGet, storeVars
    <2>2. i < nextJob
      BY <1>0, <1>2, <2>1 DEF RowsKnown, Jobs
    <2> QED BY <2>1, <2>2 DEF AskKnown
  <1>6. \/ asked' = asked \/ asked' = NoRow \/ \E i \in Jobs : PositionGet(i)
    <2>1. Api => asked' \in {asked, NoRow} \/ \E i \in Jobs : PositionGet(i)
      BY DEF Api, Submit, Cancel, CancelAbort, PruneOnce, PositionCount, apiVars
    <2>2. Work \/ WGenerated \/ WGenFailed => asked' = asked
      BY DEF Work, WLook, WPeek, WAcquire, WAdmit, WClaim, WStart, WCapture, WSucceed,
             WClassify, WWhy, WRequeue, WFail, WEnd, WRelease, WGenerated, WGenFailed, apiVars
    <2>3. Monitor \/ QuantumOver \/ Yield \/ Stop \/ Recover => asked' = asked
      BY DEF Monitor, MonitorYield, MonitorPing, MonitorTick, QuantumOver, Yield, Stop, Recover,
             apiVars
    <2>4. (\E c \in Others : Visit(c) \/ Interact(c)) => asked' = asked
      BY DEF Visit, Interact, apiVars
    <2>5. Crash => asked' = NoRow
      BY DEF Crash
    <2>6. UNCHANGED jobVars => asked' = asked
      BY DEF jobVars, apiVars
    <2> QED BY <2>1, <2>2, <2>3, <2>4, <2>5, <2>6 DEF JobNext
  <1> QED BY <1>3, <1>4, <1>5, <1>6

LEMMA AskInvStep ==
  ASSUME JobInv, AskKnown, AskInv, [JobNext]_jobVars
  PROVE  AskInv'
  <1> DEFINE Shrinks == \A j \in InState("QUEUED")' :
                          j \in InState("QUEUED") /\ hint'[j] = hint[j]
             Quiet == UNCHANGED <<storeVars, asked>> /\ cur' \in {0, cur}
  <1>0. StoreTypeOK /\ RunTypeOK
    BY DEF JobInv, StoreInv
  <1>1. Quiet => AskInv'
    <2>1. UNCHANGED storeVars => Shrinks
      BY DEF storeVars, InState
    <2> QED BY <2>1, AskInvQuiet
  \* A new Job goes behind every row.
  <1>2. ASSUME NEW k \in Keys, Submit(k) PROVE AskInv'
    <2>1. /\ nextJob \in Jobs /\ asked' = asked /\ cur' = cur
          /\ state' = [state EXCEPT ![nextJob] = "QUEUED"]
          /\ hint' = [hint EXCEPT ![nextJob] = LastHint + 1]
      BY <1>0, <1>2, JobStoreAssumption
      DEF Submit, StoreSubmit, StoreTypeOK, Jobs, runVars, apiVars
    <2>2. LastHint \in Int /\ \A j \in Rows : hint[j] <= LastHint
      BY <1>0, LastHintLast
    <2> SUFFICES ASSUME asked.job # 0, state'[asked.job] = "QUEUED"
                 PROVE  \/ hint'[asked.job] <= asked.hint
                        \/ /\ \A j \in InState("QUEUED")' : ~Before(j, asked.job)'
                           /\ cur \in {0, asked.job}
      BY <2>1 DEF AskInv
    <2>3. asked.job \in Jobs /\ asked.job # nextJob
      BY <1>0, <2>1 DEF RunTypeOK, AskKnown, Jobs
    <2>4. /\ state[asked.job] = "QUEUED" /\ hint'[asked.job] = hint[asked.job]
          /\ hint[asked.job] \in Int
      BY <1>0, <2>1, <2>3 DEF StoreTypeOK
    <2>5. hint[asked.job] <= LastHint
      BY <2>2, <2>3, <2>4 DEF Rows, InState
    <2>6. ASSUME NEW j \in InState("QUEUED")', Before(j, asked.job)'
          PROVE  j \in InState("QUEUED") /\ Before(j, asked.job)
      <3>1. CASE j = nextJob
        <4>1. hint'[j] = LastHint + 1 /\ asked'.job = asked.job
          BY <1>0, <2>1, <3>1 DEF StoreTypeOK
        <4> QED BY <2>2, <2>4, <2>5, <2>6, <4>1 DEF Before
      <3>2. CASE j # nextJob
        <4>1. j \in Jobs /\ state[j] = "QUEUED" /\ hint'[j] = hint[j] /\ asked'.job = asked.job
          BY <1>0, <2>1, <3>2 DEF StoreTypeOK, InState
        <4> QED BY <2>4, <2>6, <4>1 DEF Before, InState
      <3> QED BY <3>1, <3>2
    <2> QED BY <2>4, <2>6 DEF AskInv
  \* A Job that ends or is deleted leaves the line as it is, or shorter.
  <1>3. ASSUME NEW i \in Jobs, Cancel(i) PROVE AskInv'
    <2>1. asked' = asked /\ cur' = cur
      BY <1>3 DEF Cancel, runVars
    <2>2. Shrinks
      BY <1>0, <1>3 DEF Cancel, StoreCancel, StoreTypeOK, InState, storeVars
    <2> QED BY <2>1, <2>2, AskInvQuiet
  <1>4. ASSUME PruneOnce PROVE AskInv'
    <2>1. asked' = asked /\ cur' = cur
      BY <1>4 DEF PruneOnce, runVars, apiVars
    <2>2. Shrinks
      BY <1>0, <1>4 DEF PruneOnce, Prune, InState
    <2> QED BY <2>1, <2>2, AskInvQuiet
  <1>5. ASSUME NEW i \in Jobs, PositionGet(i) PROVE AskInv'
    <2>1. asked'.job = i /\ asked'.hint = hint[i] /\ hint' = hint
      BY <1>5 DEF PositionGet, storeVars
    <2>2. hint[i] \in Int
      BY <1>0 DEF StoreTypeOK
    <2> QED BY <2>1, <2>2 DEF AskInv
  <1>6. PositionCount \/ Crash => AskInv'
    BY DEF PositionCount, Crash, AskInv, NoRow
  \* The Job claimed is the first of the line: the one asked for, or before it.
  <1>7. ASSUME NEW k \in Jobs, ClaimNext(k), asked' = asked, cur' = k PROVE AskInv'
    <2> SUFFICES ASSUME asked.job # 0, state'[asked.job] = "QUEUED"
                 PROVE  hint'[asked.job] <= asked.hint
      BY <1>7 DEF AskInv
    <2>1. asked.job \in Jobs /\ asked.job # k /\ state[asked.job] = "QUEUED"
      BY <1>0, <1>7 DEF RunTypeOK, ClaimNext, StoreTypeOK
    <2>2. Before(k, asked.job) /\ k \in InState("QUEUED") /\ hint' = hint
      BY <1>7, <2>1 DEF ClaimNext, InState
    <2> QED BY <2>1, <2>2 DEF AskInv
  <1>8. ASSUME WClaim PROVE AskInv'
    <2>1. asked' = asked
      BY <1>8 DEF WClaim, apiVars
    <2> QED BY <1>1, <1>7, <1>8, <2>1 DEF WClaim
  <1>9. ASSUME WSucceed \/ WRequeue \/ WFail PROVE AskInv'
    <2>1. cur \in Jobs /\ asked' = asked /\ cur' = cur
      BY <1>0, <1>9, HasCur DEF WSucceed, WRequeue, WFail, Step, HasJob, runVars, apiVars
    <2>2. ASSUME state[cur] = "RUNNING", state' = [state EXCEPT ![cur] = "QUEUED"],
                 hint' = [hint EXCEPT ![cur] = FirstHint - 1]
          PROVE  AskInv'
      BY <2>1, <2>2, AskInvRequeue
    <2>3. ASSUME NEW s \in {"SUCCEEDED", "FAILED"}, state' = [state EXCEPT ![cur] = s],
                 hint' = hint
          PROVE  AskInv'
      <3>1. Shrinks
        BY <1>0, <2>1, <2>3 DEF StoreTypeOK, InState
      <3> QED BY <2>1, <3>1, AskInvQuiet
    <2>4. CASE Succeed(cur)
      BY <2>3, <2>4 DEF Succeed
    <2>5. CASE Preempt(cur)
      BY <2>2, <2>5 DEF Preempt
    <2>6. CASE FailOrRetry(cur)
      BY <2>2, <2>3, <2>6 DEF FailOrRetry
    <2>7. CASE UNCHANGED storeVars
      BY <1>1, <2>1, <2>7
    <2> QED BY <1>9, <2>4, <2>5, <2>6, <2>7 DEF WSucceed, WRequeue, WFail, Missed
  <1>10. WLook \/ WPeek \/ WAcquire \/ WAdmit \/ WStart \/ WCapture \/ WClassify \/ WWhy
           \/ WEnd \/ WRelease \/ WGenerated \/ WGenFailed => Quiet
    BY DEF WLook, WPeek, WAcquire, WAdmit, WStart, WCapture, WClassify, WWhy, WEnd, WRelease,
           WGenerated, WGenFailed, runVars, apiVars
  <1>11. Monitor \/ QuantumOver \/ Yield \/ Stop \/ (\E i \in Jobs : CancelAbort(i)) => Quiet
    BY DEF Monitor, MonitorYield, MonitorPing, MonitorTick, QuantumOver, Yield, Stop,
           CancelAbort, runVars, apiVars
  <1>12. ASSUME NEW c \in Others, Visit(c) \/ Interact(c) PROVE Quiet
    BY <1>12 DEF Visit, Interact, runVars, apiVars
  \* No call of Position survives a crash.
  <1>13. ASSUME Recover PROVE AskInv'
    <2>1. asked'.job = 0
      BY <1>0, <1>13 DEF Recover, RunTypeOK, apiVars, NoRow
    <2> QED BY <2>1 DEF AskInv
  <1>14. UNCHANGED jobVars => Quiet
    BY DEF jobVars, runVars, apiVars
  <1> HIDE DEF Shrinks, Quiet
  <1> QED BY <1>1, <1>2, <1>3, <1>4, <1>5, <1>6, <1>8, <1>9, <1>10, <1>11, <1>12, <1>13, <1>14
          DEF JobNext, Api, Work

\* Nobody is told a better Position than its Job has, for any number of Jobs, preemptions,
\* retries, cancellations and crashes between the two statements of Position: what is requeued
\* in between goes to the front (Preempt, FailOrRetry), and only one Job at a time is away
\* from the line.
THEOREM PositionsNotFlattering == JobSpec => []PositionNotFlattering
  <1>1. JobInit => JobInv /\ AskKnown /\ AskInv
    <2>1. JobInit => asked.job = 0 /\ nextJob = 1
      BY DEF JobInit, RunInit, StoreInit, NoRow
    <2> QED BY <2>1, JobInvInit DEF AskKnown, AskInv
  <1>2. JobInv /\ AskKnown /\ AskInv /\ [JobNext]_jobVars => (JobInv /\ AskKnown /\ AskInv)'
    BY JobInvStep, AskKnownStep, AskInvStep
  <1>3. JobInv /\ AskInv => PositionNotFlattering
    BY AskInvTells
  <1> QED BY <1>1, <1>2, <1>3, PTL DEF JobSpec

-----------------------------------------------------------------------------
(* A store whose writes succeed.  The worker comes to the end of a run     *)
(* only with the Job's row written or found to be no longer RUNNING, and a *)
(* crash in between is made good by the sweep before anything else is      *)
(* done.                                                                   *)

RunInv ==
  \A i \in Jobs : state[i] = "RUNNING" /\ life # "down" => i = cur /\ wpc # "end"

LEMMA RunInvRuns ==
  ASSUME JobInv, RunInv
  PROVE  RunningIsRun
  <1> SUFFICES ASSUME NEW i \in InState("RUNNING"), life # "down"
               PROVE  cur = i /\ acq[worker] = "holding"
    BY DEF RunningIsRun
  <1>1. i \in Jobs /\ i = cur /\ i # 0
    BY DEF RunInv, InState, Jobs
  <1>2. wpc \in HasJob
    BY <1>1 DEF JobInv, RunTypeOK
  <1> QED BY <1>1, <1>2 DEF JobInv, WorkerHolds, HasJob, Holds

LEMMA RunInvStep ==
  ASSUME ~StoreFails, JobInv, RunInv, [JobNext]_jobVars
  PROVE  RunInv'
  <1> DEFINE NoMore == \A i \in Jobs : state'[i] = "RUNNING" => state[i] = "RUNNING"
             Stays  == cur' = cur /\ wpc' # "end" /\ (life = "down" => life' = "down")
  <1>0. /\ StoreTypeOK /\ RunTypeOK
        /\ \A i \in Jobs : i # 0
    BY DEF JobInv, StoreInv, Jobs
  <1>1. NoMore /\ Stays => RunInv'
    BY DEF RunInv
  <1>2. ASSUME NEW k \in Keys, Submit(k) PROVE NoMore
    BY <1>0, <1>2 DEF Submit, StoreSubmit, StoreTypeOK
  <1>3. ASSUME NEW i \in Jobs, Cancel(i) PROVE NoMore
    BY <1>0, <1>3 DEF Cancel, StoreCancel, StoreTypeOK, storeVars
  <1>4. PruneOnce => NoMore
    BY DEF PruneOnce, Prune
  <1>5. ASSUME Api, life # "down" PROVE RunInv'
    <2>1. NoMore
      BY <1>2, <1>3, <1>4, <1>5 DEF Api, CancelAbort, PositionGet, PositionCount, storeVars
    <2>2. UNCHANGED <<cur, wpc, life>>
      BY <1>5 DEF Api, Submit, Cancel, CancelAbort, PruneOnce, PositionGet, PositionCount,
                  runVars, worldVars
    <2> QED BY <2>1, <2>2 DEF RunInv
  <1>6. ASSUME WClaim, life # "down" PROVE RunInv'
    <2>1. \A i \in Jobs : state[i] # "RUNNING"
      BY <1>0, <1>6 DEF RunInv, WClaim, Step, RunTypeOK, HasJob
    <2>2. CASE \E i \in Jobs : ClaimNext(i) /\ cur' = i /\ Step("claim", "start")
      BY <1>0, <2>1, <2>2 DEF RunInv, ClaimNext, Step, StoreTypeOK
    <2>3. CASE UNCHANGED storeVars
      BY <2>1, <2>3 DEF RunInv, storeVars
    <2> QED BY <1>6, <2>2, <2>3 DEF WClaim
  <1>7. ASSUME WSucceed \/ WRequeue \/ WFail, life # "down" PROVE RunInv'
    <2>1. cur \in Jobs
      BY <1>0, <1>7, HasCur DEF WSucceed, WRequeue, WFail, Step, HasJob
    <2>2. state'[cur] # "RUNNING" /\ NoMore
      <3>1. CASE Succeed(cur) \/ Preempt(cur) \/ FailOrRetry(cur)
        BY <1>0, <2>1, <3>1 DEF Succeed, Preempt, FailOrRetry, StoreTypeOK
      <3>2. CASE Missed(cur)
        BY <3>2 DEF Missed, storeVars
      <3> QED BY <1>7, <3>1, <3>2 DEF WSucceed, WRequeue, WFail
    <2>3. cur' = cur /\ life' = life
      BY <1>7 DEF WSucceed, WRequeue, WFail, runVars, worldVars
    <2> QED BY <1>7, <2>2, <2>3 DEF RunInv
  <1>8. ASSUME WClassify, life # "down" PROVE RunInv'
    <2>1. UNCHANGED <<state, cur, life>>
      BY <1>8 DEF WClassify, storeVars, runVars, worldVars
    <2>2. CASE wpc' = "end"
      BY <1>8, <2>1, <2>2 DEF RunInv, WClassify, Step
    <2>3. CASE wpc' # "end"
      BY <1>8, <2>1, <2>3 DEF RunInv
    <2> QED BY <2>2, <2>3
  <1>9. ASSUME WEnd, life # "down" PROVE RunInv'
    <2>1. \A i \in Jobs : state[i] # "RUNNING"
      BY <1>9 DEF RunInv, WEnd, Step
    <2> QED BY <1>9, <2>1 DEF RunInv, WEnd, storeVars
  <1>10. WLook \/ WPeek \/ WAcquire \/ WAdmit \/ WStart \/ WCapture \/ WWhy \/ WRelease
           \/ WGenerated \/ WGenFailed => NoMore /\ Stays
    BY DEF WLook, WPeek, WAcquire, WAdmit, WStart, WCapture, WWhy, WRelease, WGenerated,
           WGenFailed, Step, storeVars, runVars, worldVars
  <1>11. ASSUME Monitor \/ QuantumOver PROVE RunInv'
    BY <1>11 DEF RunInv, Monitor, MonitorYield, MonitorPing, MonitorTick, QuantumOver,
                 storeVars, worldVars
  <1>12. ASSUME NEW c \in Others, Visit(c) \/ Interact(c) PROVE RunInv'
    BY <1>12 DEF RunInv, Visit, Interact, storeVars, runVars, worldVars
  <1>13. ASSUME Yield \/ Stop, life # "down" PROVE RunInv'
    BY <1>13 DEF RunInv, Yield, Stop, storeVars, runVars, worldVars
  <1>14. Crash => RunInv'
    BY DEF RunInv, Crash
  <1>15. ASSUME Recover PROVE RunInv'
    <2>1. \A i \in Jobs : state'[i] # "RUNNING"
      BY <1>15 DEF Recover, RecoverRunning, InState
    <2> QED BY <2>1 DEF RunInv
  <1>16. UNCHANGED jobVars => RunInv'
    BY DEF RunInv, jobVars, storeVars, runVars, worldVars
  <1> HIDE DEF NoMore, Stays
  <1> QED BY <1>1, <1>5, <1>6, <1>7, <1>8, <1>9, <1>10, <1>11, <1>12, <1>13, <1>14, <1>15,
             <1>16 DEF JobNext, Work

\* With a store whose writes succeed, a Job is RUNNING only while the worker runs it with the
\* slot in its hands, or between a crash and the sweep of the restart: no yield, preemption,
\* Cancel, retry or crash leaves one RUNNING that nobody will finish (runJob, RecoverRunning).
THEOREM RunningJobsAreRun == ~StoreFails /\ JobSpec => []RunningIsRun
  <1>1. JobInit => JobInv /\ RunInv
    BY JobInvInit DEF RunInv, JobInit, StoreInit
  <1>2. ~StoreFails /\ JobInv /\ RunInv /\ [JobNext]_jobVars => (JobInv /\ RunInv)'
    BY JobInvStep, RunInvStep
  <1>3. JobInv /\ RunInv => RunningIsRun
    BY RunInvRuns
  <1> SUFFICES ASSUME ~StoreFails PROVE JobSpec => []RunningIsRun
    OBVIOUS
  <1>4. JobInv /\ RunInv /\ [JobNext]_jobVars => (JobInv /\ RunInv)'
    BY <1>2
  <1> QED BY <1>1, <1>3, <1>4, PTL DEF JobSpec

=============================================================================
