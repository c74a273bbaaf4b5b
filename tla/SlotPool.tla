------------------------------ MODULE SlotPool ------------------------------
(***************************************************************************)
(* What the Scheduler promises its callers, without queues or channels: at *)
(* most MaxInflight callers own a slot, a caller waits only while every    *)
(* slot is owned, a freed slot passes directly to a waiting caller, and    *)
(* never to a Batch caller while an Interactive one waits.                 *)
(***************************************************************************)
EXTENDS Naturals, FiniteSets

CONSTANTS Interactive,   \* callers of class Interactive
          Batch,         \* callers of class Batch
          MaxInflight    \* number of slots

VARIABLES owners,        \* callers that own a slot
          waiting        \* callers blocked in Acquire that own none

poolVars == <<owners, waiting>>

PoolInit == owners = {} /\ waiting = {}

\* An arriving caller takes a free slot; nobody can be waiting for it.
Take(c) ==
  /\ c \notin owners \cup waiting
  /\ waiting = {}
  /\ Cardinality(owners) < MaxInflight
  /\ owners' = owners \cup {c}
  /\ UNCHANGED waiting

\* An arriving caller blocks because every slot is owned.
Block(c) ==
  /\ c \notin owners \cup waiting
  /\ Cardinality(owners) = MaxInflight
  /\ waiting' = waiting \cup {c}
  /\ UNCHANGED owners

GiveUp(c) ==
  /\ c \in waiting
  /\ waiting' = waiting \ {c}
  /\ UNCHANGED owners

Free(c) ==
  /\ c \in owners
  /\ waiting = {}
  /\ owners' = owners \ {c}
  /\ UNCHANGED waiting

HandOver(c, d) ==
  /\ c \in owners
  /\ d \in waiting
  /\ d \in Batch => waiting \cap Interactive = {}
  /\ owners' = (owners \ {c}) \cup {d}
  /\ waiting' = waiting \ {d}

PoolNext ==
  \E c \in Interactive \cup Batch :
    \/ Take(c) \/ Block(c) \/ GiveUp(c) \/ Free(c)
    \/ \E d \in Interactive \cup Batch : HandOver(c, d)

PoolSpec == PoolInit /\ [][PoolNext]_poolVars

=============================================================================
