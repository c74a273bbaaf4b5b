------------------------------ MODULE JobEvents -----------------------------
(***************************************************************************)
(* internal/job/events.go and handleEvents of api.go: the bus that fans    *)
(* the events of one Job out to its SSE streams.  Whoever changes the Job  *)
(* (Submit, the worker, a Cancel) commits to the store first and publishes *)
(* afterwards, one event at a time, so the publications of two writers     *)
(* interleave with each other and with a stream that opens.                *)
(*                                                                         *)
(* spc[s] is where the handler of stream s is: "get" before it reads the   *)
(* Job, "subscribe" between that and Subscribe, "snapshot" before it sends *)
(* what it has read, "stream" in its loop, "closed" unsubscribed.          *)
(***************************************************************************)
EXTENDS Naturals, Sequences, SequencesExt

CONSTANTS Streams,     \* GET /jobs/{id}/events requests
          Readers,     \* those whose client keeps reading; another may stall for ever
          Cancels,     \* calls of Service.Cancel
          BufSize,     \* capacity of a subscriber's channel
          MaxRuns,     \* bound of the model: runs of the Job
          MaxTicks     \* bound of the model: progress events

ASSUME JobEventsAssumption ==
  /\ Readers \subseteq Streams
  /\ Cancels \cap {"worker", "submit"} = {}
  /\ BufSize \in Nat \ {0}
  /\ MaxRuns \in Nat /\ MaxTicks \in Nat

VARIABLES row,       \* the Job's state in the store
          busy,      \* the worker runs the Job
          runs, ticks,
          called,    \* Cancels made
          due,       \* per writer, the events it has still to publish
          spc,
          snap,      \* per stream, the state it has read and not yet sent
          buf,       \* per stream, its channel
          ended,     \* per stream, the state of the "done" that ended it, or "none"
          lost       \* streams a "done" was dropped for, their channel being full

rowVars    == <<row, busy, runs, ticks, called>>
streamVars == <<spc, snap, buf, ended, lost>>
eventVars  == <<rowVars, due, streamVars>>

Writers  == {"worker", "submit"} \cup Cancels
Terminal == {"SUCCEEDED", "FAILED", "CANCELED"}
Event(type, state) == [type |-> type, state |-> state]

\* publishTerminal: two publications.
TerminalEvents(state) == <<Event("state", state), Event("done", state)>>

\* The Job is in the store and its Submit has still to publish.
EventsInit ==
  /\ row = "QUEUED" /\ busy = FALSE /\ runs = 0 /\ ticks = 0 /\ called = {}
  /\ due = [p \in Writers |-> IF p = "submit" THEN <<Event("state", "QUEUED")>> ELSE <<>>]
  /\ spc = [s \in Streams |-> "get"]
  /\ snap = [s \in Streams |-> "QUEUED"]
  /\ buf = [s \in Streams |-> <<>>]
  /\ ended = [s \in Streams |-> "none"]
  /\ lost = {}

Subscribed == {s \in Streams : spc[s] \in {"snapshot", "stream"}}

-----------------------------------------------------------------------------
(* The writers                                                             *)

\* ClaimNext and startRun.
Claim ==
  /\ row = "QUEUED" /\ ~busy /\ due["worker"] = <<>> /\ runs < MaxRuns
  /\ row' = "RUNNING" /\ busy' = TRUE /\ runs' = runs + 1
  /\ due' = [due EXCEPT !["worker"] = <<Event("state", "RUNNING")>>]
  /\ UNCHANGED <<ticks, called, streamVars>>

\* reportTokens.
Tick ==
  /\ busy /\ due["worker"] = <<>> /\ ticks < MaxTicks
  /\ ticks' = ticks + 1
  /\ due' = [due EXCEPT !["worker"] = <<Event("progress", "RUNNING")>>]
  /\ UNCHANGED <<row, busy, runs, called, streamVars>>

\* Faulty variant of Finish: publishes whether or not the store took the write.
FinishPublishesAnyway(state) ==
  /\ busy /\ due["worker"] = <<>>
  /\ busy' = FALSE
  /\ row' = IF row = "RUNNING" THEN state ELSE row
  /\ due' = [due EXCEPT !["worker"] =
               IF state \in Terminal THEN TerminalEvents(state) ELSE <<Event("state", state)>>]
  /\ UNCHANGED <<runs, ticks, called, streamVars>>

\* The end of runJob: the guarded write, then the events if it was made.
Finish(state) ==
  /\ busy /\ due["worker"] = <<>>
  /\ busy' = FALSE
  /\ \/ /\ row = "RUNNING"
        /\ row' = state
        /\ due' = [due EXCEPT !["worker"] =
                     IF state \in Terminal THEN TerminalEvents(state)
                     ELSE <<Event("state", state)>>]
     \/ row # "RUNNING" /\ UNCHANGED <<row, due>>
  /\ UNCHANGED <<runs, ticks, called, streamVars>>

\* Service.Cancel; one that finds the Job CANCELED publishes again.
Cancel(p) ==
  /\ p \notin called
  /\ called' = called \cup {p}
  /\ row \in {"QUEUED", "RUNNING", "CANCELED"}
  /\ row' = "CANCELED"
  /\ due' = [due EXCEPT ![p] = TerminalEvents("CANCELED")]
  /\ UNCHANGED <<busy, runs, ticks, streamVars>>

\* Faulty variant of Publish: a channel that is full takes the event all the same.
PublishUnbounded(p) ==
  /\ due[p] # <<>>
  /\ due' = [due EXCEPT ![p] = Tail(@)]
  /\ buf' = [s \in Streams |-> IF s \in Subscribed THEN Append(buf[s], Head(due[p])) ELSE buf[s]]
  /\ UNCHANGED <<rowVars, spc, snap, ended, lost>>

\* Faulty variant of Publish: waits for room in every channel.
PublishBlocks(p) ==
  /\ due[p] # <<>>
  /\ \A s \in Subscribed : Len(buf[s]) < BufSize
  /\ due' = [due EXCEPT ![p] = Tail(@)]
  /\ buf' = [s \in Streams |-> IF s \in Subscribed THEN Append(buf[s], Head(due[p])) ELSE buf[s]]
  /\ UNCHANGED <<rowVars, spc, snap, ended, lost>>

\* Faulty variant of Publish: stops at a channel that is full.
PublishStopsAtFull(p) ==
  LET room == {s \in Subscribed : Len(buf[s]) < BufSize}
      take == IF room = Subscribed THEN room ELSE {}
  IN  /\ due[p] # <<>>
      /\ due' = [due EXCEPT ![p] = Tail(@)]
      /\ buf' = [s \in Streams |-> IF s \in take THEN Append(buf[s], Head(due[p])) ELSE buf[s]]
      /\ lost' = IF Head(due[p]).type = "done" THEN lost \cup (Subscribed \ room) ELSE lost
      /\ UNCHANGED <<rowVars, spc, snap, ended>>

\* bus.publish: a channel without room misses the event.
Publish(p) ==
  LET room == {s \in Subscribed : Len(buf[s]) < BufSize}
  IN  /\ due[p] # <<>>
      /\ due' = [due EXCEPT ![p] = Tail(@)]
      /\ buf' = [s \in Streams |-> IF s \in room THEN Append(buf[s], Head(due[p])) ELSE buf[s]]
      /\ lost' = IF Head(due[p]).type = "done" THEN lost \cup (Subscribed \ room) ELSE lost
      /\ UNCHANGED <<rowVars, spc, snap, ended>>

-----------------------------------------------------------------------------
(* handleEvents                                                            *)

StreamStep(s, from, to) == spc[s] = from /\ spc' = [spc EXCEPT ![s] = to]

Get(s) ==
  /\ StreamStep(s, "get", "subscribe")
  /\ snap' = [snap EXCEPT ![s] = row]
  /\ UNCHANGED <<rowVars, due, buf, ended, lost>>

Subscribe(s) ==
  /\ StreamStep(s, "subscribe", "snapshot")
  /\ UNCHANGED <<rowVars, due, snap, buf, ended, lost>>

\* The initial snapshot, which of an ended Job is also the last event.
Snapshot(s) ==
  /\ snap' = [snap EXCEPT ![s] = "QUEUED"]
  /\ \/ /\ snap[s] \in Terminal
        /\ StreamStep(s, "snapshot", "closed")
        /\ ended' = [ended EXCEPT ![s] = snap[s]]
        /\ buf' = [buf EXCEPT ![s] = <<>>]
     \/ /\ snap[s] \notin Terminal
        /\ StreamStep(s, "snapshot", "stream")
        /\ UNCHANGED <<ended, buf>>
  /\ UNCHANGED <<rowVars, due, lost>>

\* An event is passed on; "done" is the last one, and the deferred unsubscribe drops the rest.
Receive(s) ==
  /\ buf[s] # <<>>
  /\ \/ /\ Head(buf[s]).type = "done"
        /\ StreamStep(s, "stream", "closed")
        /\ ended' = [ended EXCEPT ![s] = Head(buf[s]).state]
        /\ buf' = [buf EXCEPT ![s] = <<>>]
     \/ /\ Head(buf[s]).type # "done"
        /\ StreamStep(s, "stream", "stream")
        /\ buf' = [buf EXCEPT ![s] = Tail(@)]
        /\ UNCHANGED ended
  /\ UNCHANGED <<rowVars, due, snap, lost>>

\* The client goes away.
Disconnect(s) ==
  /\ StreamStep(s, "stream", "closed")
  /\ buf' = [buf EXCEPT ![s] = <<>>]
  /\ UNCHANGED <<rowVars, due, snap, ended, lost>>

-----------------------------------------------------------------------------

Handle(s) == Get(s) \/ Subscribe(s) \/ Snapshot(s) \/ Receive(s)

EventsNext ==
  \/ Claim \/ Tick
  \/ \E state \in {"SUCCEEDED", "FAILED", "QUEUED"} : Finish(state)
  \/ \E p \in Cancels : Cancel(p)
  \/ \E p \in Writers : Publish(p)
  \/ \E s \in Streams : Handle(s) \/ Disconnect(s)

\* A writer publishes what it has committed and a run ends; a stream is handled as long as its
\* client reads, or else blocks in a write for ever.
EventsFairness ==
  /\ \A p \in Writers : WF_eventVars(Publish(p))
  /\ WF_eventVars(\E state \in {"SUCCEEDED", "FAILED", "QUEUED"} : Finish(state))
  /\ \A s \in Readers : WF_eventVars(Handle(s))

FairEventsSpec == EventsInit /\ [][EventsNext]_eventVars /\ EventsFairness

-----------------------------------------------------------------------------
(* Properties                                                              *)

\* The values of the row and the streams: no channel holds more than its capacity.
EventsTypeOK ==
  /\ row \in {"QUEUED", "RUNNING"} \cup Terminal
  /\ busy \in BOOLEAN /\ runs \in 0..MaxRuns /\ ticks \in 0..MaxTicks /\ called \subseteq Cancels
  /\ \A p \in Writers : Len(due[p]) <= 2
  /\ \A s \in Streams : Len(buf[s]) <= BufSize
  /\ spc \in [Streams -> {"get", "subscribe", "snapshot", "stream", "closed"}]
  /\ snap \in [Streams -> {"QUEUED", "RUNNING"} \cup Terminal]
  /\ ended \in [Streams -> {"none"} \cup Terminal]
  /\ lost \subseteq Streams

\* A stream that was told the Job is done was told the state the store has, for good: no other
\* writer's late publication, and no write the store refused, ends it with another outcome.
DoneIsFinal ==
  \A s \in Streams :
    /\ ended[s] # "none" => row = ended[s]
    /\ \A k \in DOMAIN buf[s] : buf[s][k].type = "done" => row = buf[s][k].state

\* A client that never reads does not hold up the worker: a run it watches ends.
WorkerNeverStalls == busy ~> ~busy

\* A stream subscribed before a "done" is published to it ends, unless its channel was full.
DoneReachesStream ==
  \A s \in Readers :
    s \in Subscribed /\ (\E p \in Writers : due[p] # <<>> /\ Last(due[p]).type = "done")
      ~> spc[s] = "closed" \/ s \in lost

-----------------------------------------------------------------------------
(* A statement of the repository the code does not live up to              *)

\* handleEvents streams "an initial snapshot, then live ticks until the Job is terminal": the
\* stream of a Job that has ended ends.
StreamEnds ==
  \A s \in Readers : spc[s] # "get" /\ row \in Terminal ~> spc[s] = "closed"

=============================================================================
