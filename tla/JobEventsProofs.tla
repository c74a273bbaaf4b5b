-------------------------- MODULE JobEventsProofs ---------------------------
(***************************************************************************)
(* The events of a Job for any number of streams, Cancel calls, runs and   *)
(* progress events and any channel capacity: a stream is never told an     *)
(* outcome the store does not have.                                        *)
(***************************************************************************)
EXTENDS JobEvents, TLAPS

States == {"QUEUED", "RUNNING"} \cup Terminal
Events == [type : {"state", "progress", "done"}, state : States]

\* The events that may be on their way: a "done" only with the outcome the store has.
Honest == {e \in Events : e.type = "done" => row \in Terminal /\ e.state = row}

\* DoneIsFinal speaks of what streams have been sent; it is inductive together with what
\* writers have still to publish and what streams have read and not yet sent, both of which
\* may be old by then.  They are never wrong, because the row of an ended Job is never written
\* again with another state, and the writer that ends the Job publishes what it wrote.
EventsInv ==
  /\ row \in States
  /\ busy \in BOOLEAN
  /\ runs \in 0..MaxRuns /\ ticks \in 0..MaxTicks
  /\ called \subseteq Cancels
  /\ due \in [Writers -> Seq(Honest)]
  /\ \A p \in Writers : Len(due[p]) <= 2
  /\ spc \in [Streams -> {"get", "subscribe", "snapshot", "stream", "closed"}]
  /\ snap \in [Streams -> States]
  /\ \A s \in Streams : snap[s] \in Terminal => row = snap[s]
  /\ buf \in [Streams -> Seq(Honest)]
  /\ \A s \in Streams : Len(buf[s]) <= BufSize
  /\ ended \in [Streams -> {"none"} \cup Terminal]
  /\ \A s \in Streams : ended[s] # "none" => row = ended[s]
  /\ lost \subseteq Streams

LEMMA EventType ==
  ASSUME NEW t \in {"state", "progress", "done"}, NEW x \in States
  PROVE  /\ Event(t, x) \in Events
         /\ Event(t, x).type = t
         /\ Event(t, x).state = x
  BY DEF Event, Events

\* What a writer may have still to publish after one write of the row.
LEMMA DueTyped ==
  ASSUME NEW x \in States, NEW H,
         Event("state", x) \in H, x \in Terminal => Event("done", x) \in H
  PROVE  /\ <<Event("state", x)>> \in Seq(H) /\ Len(<<Event("state", x)>>) <= 2
         /\ x \in Terminal => TerminalEvents(x) \in Seq(H) /\ Len(TerminalEvents(x)) <= 2
  BY DEF TerminalEvents

LEMMA EventsInvInit ==
  ASSUME EventsInit
  PROVE  EventsInv
  <1>1. Event("state", "QUEUED") \in Honest
    BY EventType DEF Honest, States
  <1>2. due \in [Writers -> Seq(Honest)] /\ \A p \in Writers : Len(due[p]) <= 2
    <2>1. <<Event("state", "QUEUED")>> \in Seq(Honest) /\ Len(<<Event("state", "QUEUED")>>) <= 2
      BY <1>1
    <2>2. <<>> \in Seq(Honest) /\ Len(<<>>) <= 2
      OBVIOUS
    <2> HIDE DEF Event
    <2> QED BY <2>1, <2>2 DEF EventsInit
  <1>3. buf \in [Streams -> Seq(Honest)] /\ \A s \in Streams : Len(buf[s]) <= BufSize
    BY JobEventsAssumption DEF EventsInit
  <1>4. row \in States /\ snap \in [Streams -> States]
        /\ \A s \in Streams : snap[s] \notin Terminal
    BY DEF EventsInit, States, Terminal
  <1>5. runs \in 0..MaxRuns /\ ticks \in 0..MaxTicks /\ called \subseteq Cancels
    BY JobEventsAssumption DEF EventsInit
  <1>6. /\ spc \in [Streams -> {"get", "subscribe", "snapshot", "stream", "closed"}]
        /\ ended \in [Streams -> {"none"} \cup Terminal]
        /\ \A s \in Streams : ended[s] = "none"
        /\ lost \subseteq Streams
    BY DEF EventsInit
  <1>7. busy \in BOOLEAN
    BY DEF EventsInit
  <1> QED BY <1>2, <1>3, <1>4, <1>5, <1>6, <1>7 DEF EventsInv

\* A write of the row that does not overwrite an outcome takes no event back.
LEMMA RowWritten ==
  ASSUME EventsInv, row' \in States, row' = row \/ row \notin Terminal
  PROVE  /\ Honest \subseteq Honest'
         /\ buf \in [Streams -> Seq(Honest')]
         /\ due \in [Writers -> Seq(Honest')]
         /\ \A s \in Streams : snap[s] \in Terminal => row' = snap[s]
         /\ \A s \in Streams : ended[s] # "none" => row' = ended[s]
  <1>1. Honest \subseteq Honest'
    BY DEF Honest
  <1>2. ASSUME NEW A, NEW B, A \subseteq B PROVE Seq(A) \subseteq Seq(B)
    BY <1>2
  <1>3. Seq(Honest) \subseteq Seq(Honest')
    BY <1>1, <1>2
  <1>4. buf \in [Streams -> Seq(Honest')] /\ due \in [Writers -> Seq(Honest')]
    BY <1>3 DEF EventsInv
  <1>5. ASSUME NEW s \in Streams
        PROVE  /\ snap[s] \in Terminal => row' = snap[s]
               /\ ended[s] # "none" => row' = ended[s]
    BY <1>5 DEF EventsInv
  <1> QED BY <1>1, <1>4, <1>5

\* Claim, Tick, Finish and Cancel: a writer p writes x and owes its events.
LEMMA WriteInv ==
  ASSUME EventsInv, NEW p \in Writers, NEW d, due' = [due EXCEPT ![p] = d],
         row' \in States, row' = row \/ row \notin Terminal,
         d \in Seq(Honest'), Len(d) <= 2,
         busy' \in BOOLEAN, runs' \in 0..MaxRuns, ticks' \in 0..MaxTicks,
         called' \subseteq Cancels, UNCHANGED streamVars
  PROVE  EventsInv'
  <1>1. /\ buf \in [Streams -> Seq(Honest')]
        /\ due \in [Writers -> Seq(Honest')]
        /\ \A s \in Streams : snap[s] \in Terminal => row' = snap[s]
        /\ \A s \in Streams : ended[s] # "none" => row' = ended[s]
    BY RowWritten
  <1>2. due' \in [Writers -> Seq(Honest')] /\ \A w \in Writers : Len(due'[w]) <= 2
    BY <1>1 DEF EventsInv
  <1>3. UNCHANGED <<spc, snap, buf, ended, lost>>
    BY DEF streamVars
  <1> QED BY <1>1, <1>2, <1>3 DEF EventsInv

LEMMA EventsInvWriters ==
  ASSUME EventsInv,
         \/ Claim \/ Tick
         \/ \E state \in {"SUCCEEDED", "FAILED", "QUEUED"} : Finish(state)
         \/ \E p \in Cancels : Cancel(p)
  PROVE  EventsInv'
  <1>0. /\ "worker" \in Writers /\ Cancels \subseteq Writers
        /\ row \in States /\ busy \in BOOLEAN
        /\ runs \in 0..MaxRuns /\ ticks \in 0..MaxTicks /\ called \subseteq Cancels
        /\ MaxRuns \in Nat /\ MaxTicks \in Nat
    BY JobEventsAssumption DEF EventsInv, Writers
  <1>1. CASE Claim
    <2>1. row' = "RUNNING" /\ row' \in States /\ row \notin Terminal
      BY <1>1 DEF Claim, States, Terminal
    <2>2. Event("state", "RUNNING") \in Honest'
      BY EventType DEF Honest, States
    <2>3. <<Event("state", "RUNNING")>> \in Seq(Honest') /\ Len(<<Event("state", "RUNNING")>>) <= 2
      BY <2>2
    <2>4. busy' \in BOOLEAN /\ called' = called /\ UNCHANGED streamVars
      BY <1>1 DEF Claim
    <2>5. runs' \in 0..MaxRuns /\ ticks' = ticks
      BY <1>0, <1>1, Z3 DEF Claim
    <2>6. due' = [due EXCEPT !["worker"] = <<Event("state", "RUNNING")>>]
      BY <1>1 DEF Claim
    <2> QED BY <1>0, <2>1, <2>3, <2>4, <2>5, <2>6, WriteInv
  <1>2. CASE Tick
    <2>1. Event("progress", "RUNNING") \in Honest /\ row' = row
      BY <1>2, EventType DEF Tick, Honest, States
    <2>2. Event("progress", "RUNNING") \in Honest'
      BY EventType DEF Honest, States
    <2>3. /\ <<Event("progress", "RUNNING")>> \in Seq(Honest')
          /\ Len(<<Event("progress", "RUNNING")>>) <= 2
      BY <2>2
    <2>4. busy' \in BOOLEAN /\ called' = called /\ runs' = runs /\ UNCHANGED streamVars
      BY <1>0, <1>2 DEF Tick
    <2>5. ticks' \in 0..MaxTicks
      BY <1>0, <1>2 DEF Tick
    <2>6. due' = [due EXCEPT !["worker"] = <<Event("progress", "RUNNING")>>]
      BY <1>2 DEF Tick
    <2> QED BY <1>0, <2>1, <2>3, <2>4, <2>5, <2>6, WriteInv
  <1>3. ASSUME NEW state \in {"SUCCEEDED", "FAILED", "QUEUED"}, Finish(state) PROVE EventsInv'
    <2>1. busy' \in BOOLEAN /\ UNCHANGED <<runs, ticks, called, streamVars>>
      BY <1>3 DEF Finish
    <2>2. state \in States
      BY DEF States, Terminal
    <2>3. CASE /\ row = "RUNNING" /\ row' = state
               /\ due' = [due EXCEPT !["worker"] =
                            IF state \in Terminal THEN TerminalEvents(state)
                            ELSE <<Event("state", state)>>]
      <3> DEFINE d == IF state \in Terminal THEN TerminalEvents(state)
                      ELSE <<Event("state", state)>>
      <3>1. /\ Event("state", state) \in Honest'
            /\ state \in Terminal => Event("done", state) \in Honest'
        BY <2>2, <2>3, EventType DEF Honest
      <3>2. d \in Seq(Honest') /\ Len(d) <= 2
        <4> HIDE DEF Event
        <4> QED BY <2>2, <3>1, DueTyped
      <3>3. row \notin Terminal
        BY <2>3 DEF Terminal
      <3>4. due' = [due EXCEPT !["worker"] = d]
        BY <2>3
      <3> HIDE DEF d
      <3> QED BY <1>0, <2>1, <2>2, <2>3, <3>2, <3>3, <3>4, WriteInv
    <2>4. CASE UNCHANGED <<row, due>>
      <3>1. Honest' = Honest
        BY <2>4 DEF Honest
      <3> QED BY <2>1, <2>4, <3>1 DEF EventsInv, streamVars
    <2> QED BY <1>3, <2>3, <2>4 DEF Finish
  <1>4. ASSUME NEW p \in Cancels, Cancel(p) PROVE EventsInv'
    <2>1. /\ row' = "CANCELED" /\ "CANCELED" \in Terminal /\ "CANCELED" \in States
          /\ row' = row \/ row \notin Terminal
      BY <1>4 DEF Cancel, States, Terminal
    <2>2. Event("state", "CANCELED") \in Honest' /\ Event("done", "CANCELED") \in Honest'
      BY <2>1, EventType DEF Honest
    <2>3. TerminalEvents("CANCELED") \in Seq(Honest') /\ Len(TerminalEvents("CANCELED")) <= 2
      BY <2>1, <2>2, DueTyped
    <2>4. /\ UNCHANGED <<busy, runs, ticks, streamVars>> /\ called' \subseteq Cancels
          /\ due' = [due EXCEPT ![p] = TerminalEvents("CANCELED")]
      BY <1>0, <1>4 DEF Cancel
    <2> QED BY <1>0, <2>1, <2>3, <2>4, WriteInv
  <1> QED BY <1>1, <1>2, <1>3, <1>4

LEMMA EventsInvPublish ==
  ASSUME EventsInv, NEW p \in Writers, Publish(p)
  PROVE  EventsInv'
  <1>0. /\ UNCHANGED <<rowVars, spc, snap, ended>>
        /\ Honest' = Honest
    BY DEF Publish, rowVars, Honest
  <1>1. due[p] \in Seq(Honest) /\ due[p] # <<>> /\ Len(due[p]) <= 2
    BY DEF EventsInv, Publish
  <1>2. Head(due[p]) \in Honest /\ Tail(due[p]) \in Seq(Honest) /\ Len(Tail(due[p])) <= 2
    BY <1>1
  <1>3. due' \in [Writers -> Seq(Honest)] /\ \A w \in Writers : Len(due'[w]) <= 2
    BY <1>2 DEF EventsInv, Publish
  <1>4. ASSUME NEW s \in Streams
        PROVE  buf'[s] \in Seq(Honest) /\ Len(buf'[s]) <= BufSize
    <2>0. buf[s] \in Seq(Honest) /\ Len(buf[s]) <= BufSize /\ Len(buf[s]) \in Nat
      BY DEF EventsInv
    <2>1. CASE buf'[s] = buf[s]
      BY <2>0, <2>1
    <2>2. CASE Len(buf[s]) < BufSize /\ buf'[s] = Append(buf[s], Head(due[p]))
      BY <1>2, <2>0, <2>2, JobEventsAssumption
    <2>3. buf'[s] = buf[s] \/ (Len(buf[s]) < BufSize /\ buf'[s] = Append(buf[s], Head(due[p])))
      BY DEF Publish
    <2> QED BY <2>1, <2>2, <2>3
  <1>5. buf' \in [Streams -> Seq(Honest)] /\ \A s \in Streams : Len(buf'[s]) <= BufSize
    <2>1. \E f : buf' = [s \in Streams |-> f[s]]
      <3> DEFINE room == {s \in Subscribed : Len(buf[s]) < BufSize}
                 f == [s \in Streams |-> IF s \in room THEN Append(buf[s], Head(due[p]))
                                         ELSE buf[s]]
      <3>1. buf' = f
        BY DEF Publish
      <3>2. f = [s \in Streams |-> f[s]]
        OBVIOUS
      <3> QED BY <3>1, <3>2
    <2> QED BY <1>4, <2>1
  <1>6. lost' \subseteq Streams
    BY DEF Publish, Subscribed, EventsInv
  <1> QED BY <1>0, <1>3, <1>5, <1>6 DEF EventsInv, rowVars

LEMMA EventsInvStreams ==
  ASSUME EventsInv, NEW s \in Streams, Handle(s) \/ Disconnect(s)
  PROVE  EventsInv'
  <1>0. UNCHANGED <<rowVars, due, lost>> /\ Honest' = Honest
    BY DEF Handle, Disconnect, Get, Subscribe, Snapshot, Receive, rowVars, Honest
  <1>1. spc' \in [Streams -> {"get", "subscribe", "snapshot", "stream", "closed"}]
    BY DEF Handle, Disconnect, Get, Subscribe, Snapshot, Receive, StreamStep, EventsInv
  <1>2. snap' \in [Streams -> States] /\ \A t \in Streams : snap'[t] \in Terminal => row = snap'[t]
    <2>1. \/ snap' = snap
          \/ snap' = [snap EXCEPT ![s] = row]
          \/ snap' = [snap EXCEPT ![s] = "QUEUED"]
      BY DEF Handle, Disconnect, Get, Subscribe, Snapshot, Receive
    <2>2. "QUEUED" \in States /\ "QUEUED" \notin Terminal
      BY DEF States, Terminal
    <2> QED BY <2>1, <2>2 DEF EventsInv
  <1>3. buf' \in [Streams -> Seq(Honest)] /\ \A t \in Streams : Len(buf'[t]) <= BufSize
    <2>0. buf \in [Streams -> Seq(Honest)] /\ \A t \in Streams : Len(buf[t]) <= BufSize
      BY DEF EventsInv
    <2>1. ASSUME NEW b, buf' = [buf EXCEPT ![s] = b], b \in Seq(Honest), Len(b) <= BufSize
          PROVE  buf' \in [Streams -> Seq(Honest)] /\ \A t \in Streams : Len(buf'[t]) <= BufSize
      BY <2>0, <2>1
    <2>2. \/ buf' = buf
          \/ buf' = [buf EXCEPT ![s] = <<>>]
          \/ buf[s] # <<>> /\ buf' = [buf EXCEPT ![s] = Tail(buf[s])]
      BY DEF Handle, Disconnect, Get, Subscribe, Snapshot, Receive
    <2>3. <<>> \in Seq(Honest) /\ Len(<<>>) <= BufSize
      BY JobEventsAssumption
    <2>4. ASSUME buf[s] # <<>>
          PROVE  Tail(buf[s]) \in Seq(Honest) /\ Len(Tail(buf[s])) <= BufSize
      <3> DEFINE b == buf[s]
      <3>1. b \in Seq(Honest) /\ b # <<>> /\ Len(b) <= BufSize /\ BufSize \in Nat
        BY <2>0, <2>4, JobEventsAssumption
      <3> HIDE DEF b
      <3>2. Tail(b) \in Seq(Honest) /\ Len(Tail(b)) <= BufSize
        BY <3>1
      <3> QED BY <3>2 DEF b
    <2> QED BY <2>0, <2>1, <2>2, <2>3, <2>4
  <1>4. ended' \in [Streams -> {"none"} \cup Terminal]
        /\ \A t \in Streams : ended'[t] # "none" => row = ended'[t]
    <2>1. \/ ended' = ended
          \/ snap[s] \in Terminal /\ ended' = [ended EXCEPT ![s] = snap[s]]
          \/ /\ buf[s] # <<>> /\ Head(buf[s]).type = "done"
             /\ ended' = [ended EXCEPT ![s] = Head(buf[s]).state]
      BY DEF Handle, Disconnect, Get, Subscribe, Snapshot, Receive
    <2>2. ASSUME buf[s] # <<>>, Head(buf[s]).type = "done"
          PROVE  Head(buf[s]).state = row /\ row \in Terminal
      <3>1. Head(buf[s]) \in Honest
        BY <2>2 DEF EventsInv
      <3> QED BY <2>2, <3>1 DEF Honest
    <2> QED BY <2>1, <2>2 DEF EventsInv
  <1> QED BY <1>0, <1>1, <1>2, <1>3, <1>4 DEF EventsInv, rowVars

LEMMA EventsInvStep ==
  ASSUME EventsInv, [EventsNext]_eventVars
  PROVE  EventsInv'
  <1>1. CASE UNCHANGED eventVars
    <2>1. Honest' = Honest
      BY <1>1 DEF eventVars, rowVars, Honest
    <2> QED BY <1>1, <2>1 DEF eventVars, rowVars, streamVars, EventsInv
  <1> QED BY <1>1, EventsInvWriters, EventsInvPublish, EventsInvStreams DEF EventsNext

LEMMA EventsSafe == FairEventsSpec => []EventsInv
  <1>1. EventsInit => EventsInv
    BY EventsInvInit
  <1>2. EventsInv /\ [EventsNext]_eventVars => EventsInv'
    BY EventsInvStep
  <1> QED BY <1>1, <1>2, PTL DEF FairEventsSpec

-----------------------------------------------------------------------------

\* The row and the streams keep their types: however far a client falls behind, its channel
\* never holds more than its capacity and a writer never owes more than two events.
THEOREM EventsTyped == FairEventsSpec => []EventsTypeOK
  <1>1. EventsInv => EventsTypeOK
    BY DEF EventsInv, EventsTypeOK, States
  <1> QED BY <1>1, EventsSafe, PTL

\* A stream that is told "done" is told the outcome the store has, and has for good, whatever
\* the order in which the worker's and the Cancels' publications reach it (publishTerminal,
\* handleEvents).
THEOREM DoneEventsFinal == FairEventsSpec => []DoneIsFinal
  <1>1. ASSUME EventsInv PROVE DoneIsFinal
    <2>1. ASSUME NEW s \in Streams, NEW k \in DOMAIN buf[s], buf[s][k].type = "done"
          PROVE  row = buf[s][k].state
      <3>1. buf[s][k] \in Honest
        BY <1>1 DEF EventsInv
      <3> QED BY <2>1, <3>1 DEF Honest
    <2> QED BY <1>1, <2>1 DEF EventsInv, DoneIsFinal
  <1> QED BY <1>1, EventsSafe, PTL

=============================================================================
