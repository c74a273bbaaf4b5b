------------------------------ MODULE JobStore ------------------------------
(***************************************************************************)
(* internal/job/sqlite.go: the durable table of Jobs.  Every write is one  *)
(* SQLite transaction or statement on the store's only connection, and so  *)
(* one step; the table survives a crash of the broker.  Of the reads,      *)
(* Position is two statements, between which anything may be written.      *)
(*                                                                         *)
(* A Job is named by the number of its submission, which stands for its    *)
(* uuid and orders Jobs as created_at does.  state[i] = "none": there is   *)
(* no row, because i has not been submitted or has been pruned.            *)
(***************************************************************************)
EXTENDS Integers, FiniteSets, FiniteSetsExt

CONSTANTS MaxJobs,       \* bound of the model: submissions
          Keys,          \* idempotency keys
          MaxAttempts    \* BROKER_JOB_MAX_ATTEMPTS

ASSUME JobStoreAssumption ==
  /\ MaxJobs \in Nat
  /\ MaxAttempts \in Nat \ {0}
  /\ "noKey" \notin Keys

VARIABLES state,      \* column state
          attempts,   \* column attempts
          hint,       \* column position_hint
          keyOf,      \* column idempotency_key
          nextJob     \* the next submission

storeVars == <<state, attempts, hint, keyOf, nextJob>>

Jobs == 1..MaxJobs

Terminal == {"SUCCEEDED", "FAILED", "CANCELED"}
States   == {"none", "QUEUED", "RUNNING"} \cup Terminal

InState(s) == {i \in Jobs : state[i] = s}
Rows       == Jobs \ InState("none")

StoreInit ==
  /\ state = [i \in Jobs |-> "none"]
  /\ attempts = [i \in Jobs |-> 0]
  /\ hint = [i \in Jobs |-> 0]
  /\ keyOf = [i \in Jobs |-> "noKey"]
  /\ nextJob = 1

\* COALESCE(MIN(position_hint), 0) over the QUEUED rows.
FirstHint == IF InState("QUEUED") = {} THEN 0 ELSE Min({hint[i] : i \in InState("QUEUED")})

\* COALESCE(MAX(position_hint), 0) over all rows.
LastHint == IF Rows = {} THEN 0 ELSE Max({hint[i] : i \in Rows})

-----------------------------------------------------------------------------

\* Submit of an unknown key; that of a known key returns the row and changes nothing.
StoreSubmit(k) ==
  /\ nextJob <= MaxJobs
  /\ \A i \in Rows : keyOf[i] # k
  /\ state' = [state EXCEPT ![nextJob] = "QUEUED"]
  /\ attempts' = [attempts EXCEPT ![nextJob] = 0]
  /\ hint' = [hint EXCEPT ![nextJob] = LastHint + 1]
  /\ keyOf' = [keyOf EXCEPT ![nextJob] = k]
  /\ nextJob' = nextJob + 1

\* i comes before j in the line: ORDER BY position_hint, created_at.
Before(i, j) == hint[i] < hint[j] \/ (hint[i] = hint[j] /\ i < j)

\* The COUNT of Position for the row of i, found to have hint h by the statement before it.
Position(i, h) ==
  Cardinality({j \in InState("QUEUED") : hint[j] < h \/ (hint[j] = h /\ j < i)}) + 1

ClaimNext(i) ==
  /\ state[i] = "QUEUED"
  /\ \A j \in InState("QUEUED") : i = j \/ Before(i, j)
  /\ state' = [state EXCEPT ![i] = "RUNNING"]
  /\ UNCHANGED <<attempts, hint, keyOf, nextJob>>

Succeed(i) ==
  /\ state[i] = "RUNNING"
  /\ state' = [state EXCEPT ![i] = "SUCCEEDED"]
  /\ UNCHANGED <<attempts, hint, keyOf, nextJob>>

\* Faulty variant of Preempt: no "AND state = RUNNING".
PreemptUnguarded(i) ==
  /\ state[i] # "none"
  /\ state' = [state EXCEPT ![i] = "QUEUED"]
  /\ hint' = [hint EXCEPT ![i] = FirstHint - 1]
  /\ UNCHANGED <<attempts, keyOf, nextJob>>

\* Faulty variant of Preempt: to the back of the line.
PreemptToBack(i) ==
  /\ state[i] = "RUNNING"
  /\ state' = [state EXCEPT ![i] = "QUEUED"]
  /\ hint' = [hint EXCEPT ![i] = LastHint + 1]
  /\ UNCHANGED <<attempts, keyOf, nextJob>>

\* To the front of the line, without burning an attempt.
Preempt(i) ==
  /\ state[i] = "RUNNING"
  /\ state' = [state EXCEPT ![i] = "QUEUED"]
  /\ hint' = [hint EXCEPT ![i] = FirstHint - 1]
  /\ UNCHANGED <<attempts, keyOf, nextJob>>

\* Faulty variant of FailOrRetry: one retry too many.
FailOrRetryOnceMore(i) ==
  /\ state[i] = "RUNNING"
  /\ attempts' = [attempts EXCEPT ![i] = @ + 1]
  /\ \/ /\ attempts[i] + 1 > MaxAttempts
        /\ state' = [state EXCEPT ![i] = "FAILED"]
        /\ UNCHANGED hint
     \/ /\ attempts[i] + 1 <= MaxAttempts
        /\ state' = [state EXCEPT ![i] = "QUEUED"]
        /\ hint' = [hint EXCEPT ![i] = FirstHint - 1]
  /\ UNCHANGED <<keyOf, nextJob>>

\* A failed generation costs an attempt; the last one ends the Job.
FailOrRetry(i) ==
  /\ state[i] = "RUNNING"
  /\ attempts' = [attempts EXCEPT ![i] = @ + 1]
  /\ \/ /\ attempts[i] + 1 >= MaxAttempts
        /\ state' = [state EXCEPT ![i] = "FAILED"]
        /\ UNCHANGED hint
     \/ /\ attempts[i] + 1 < MaxAttempts
        /\ state' = [state EXCEPT ![i] = "QUEUED"]
        /\ hint' = [hint EXCEPT ![i] = FirstHint - 1]
  /\ UNCHANGED <<keyOf, nextJob>>

\* The startup sweep over the RUNNING rows, oldest first: each one that has attempts left goes
\* in front of the line as it stands then, so before the ones swept earlier.
RecoverRunning ==
  LET spent == {i \in InState("RUNNING") : attempts[i] + 1 >= MaxAttempts}
      kept  == InState("RUNNING") \ spent
  IN  /\ attempts' = [i \in Jobs |->
                        IF state[i] = "RUNNING" THEN attempts[i] + 1 ELSE attempts[i]]
      /\ state' = [i \in Jobs |-> IF i \in spent THEN "FAILED"
                                  ELSE IF i \in kept THEN "QUEUED" ELSE state[i]]
      /\ hint' = [i \in Jobs |-> IF i \in kept
                                   THEN FirstHint - Cardinality({j \in kept : j <= i})
                                   ELSE hint[i]]
      /\ UNCHANGED <<keyOf, nextJob>>

StoreCancel(i) ==
  /\ state[i] \in {"QUEUED", "RUNNING"}
  /\ state' = [state EXCEPT ![i] = "CANCELED"]
  /\ UNCHANGED <<attempts, hint, keyOf, nextJob>>

\* Deletes the rows D whose retention is over: fetchedGrace after the first fetch of a result,
\* hardCap after the end of any Job.  Neither time nor fetched_at, which has no other use, is
\* modelled, so D is any set of ended Jobs.
Prune(D) ==
  /\ D # {} /\ D \subseteq {i \in Jobs : state[i] \in Terminal}
  /\ state' = [i \in Jobs |-> IF i \in D THEN "none" ELSE state[i]]
  /\ attempts' = [i \in Jobs |-> IF i \in D THEN 0 ELSE attempts[i]]
  /\ hint' = [i \in Jobs |-> IF i \in D THEN 0 ELSE hint[i]]
  /\ keyOf' = [i \in Jobs |-> IF i \in D THEN "noKey" ELSE keyOf[i]]
  /\ UNCHANGED nextJob

=============================================================================
