--------------------------- MODULE UpstreamProofs ---------------------------
(***************************************************************************)
(* A call to an upstream for any number of retries and any length of the   *)
(* answer, as the broker makes it once its configuration has loaded.       *)
(***************************************************************************)
EXTENDS Dispatch, TLAPS

\* Every step but CtxEnds leaves the context alone.
USE DEF around

\* Before the upstream's response.
Before == {"idle", "body", "send", "again", "backoff"}

\* What has been received and written before a response, while its text is read and while the
\* rest of its body is drained.  The attempt that is written to the client is the last one
\* because the transport makes no further attempt once it has a response; the statuses are
\* right because each way out of reading knows whether one has been written already, which for
\* the drain means that no relayed answer gets there.
UpInv ==
  /\ pc \in Before \cup {"read", "drain", "returned"}
  /\ ctxDone \in BOOLEAN
  /\ attempt \in Nat
  /\ got \in 0..TextLen
  /\ relayed \in Seq(Nat \X Nat)
  /\ Len(relayed) = IF Relays THEN got ELSE 0
  /\ fam = "openai" => kind # "raw"
  /\ pc \in Before =>
       /\ got = 0 /\ wrote = <<>> /\ upStatus = "none" /\ outcome = "none" /\ last = "none"
       /\ pc = "idle" => kind = "none"
  /\ pc = "read" =>
       /\ upStatus = "ok" \/ (upStatus = "other" /\ kind = "raw")
       /\ outcome = "none"
       /\ wrote = IF ~Relays THEN <<>>
                  ELSE IF upStatus = "ok" THEN <<200>> ELSE <<UpstreamsOwn>>
  /\ pc = "drain" =>
       /\ kind # "raw"
       /\ outcome \in {"ok", "err", "ctx"}
       /\ outcome = "ok" => upStatus = "ok"
       /\ outcome = "ctx" => ctxDone
       /\ wrote = IF kind = "stream" /\ upStatus = "ok" THEN <<200>> ELSE <<>>
  /\ RelayExact
  /\ AnswerHonest

LEMMA UpInvInit ==
  ASSUME Idle
  PROVE  UpInv
  <1>1. relayed \in Seq(Nat \X Nat) /\ Len(relayed) = 0 /\ DOMAIN relayed = {}
    BY DEF Idle
  <1>2. Len(wrote) = 0 /\ DOMAIN vectors = {}
    BY DEF Idle
  <1>3. RelayExact /\ AnswerHonest
    BY <1>1, <1>2 DEF Idle, RelayExact, AnswerHonest
  <1>4. ctxDone \in BOOLEAN
    BY DEF Idle
  <1> QED BY <1>1, <1>2, <1>3, <1>4, UpstreamAssumption DEF Idle, UpInv, Before, Relays

\* The first status written.
LEMMA FirstStatus ==
  ASSUME NEW x
  PROVE  Append(<<>>, x) = <<x>> /\ Len(<<x>>) = 1 /\ <<x>>[1] = x /\ Len(<<>>) = 0
  OBVIOUS

\* A call that fails before a response has written one status, and 503 only if its context
\* has ended.
LEMMA FailInv ==
  ASSUME UpInv, pc \in Before \ {"idle"}, NEW how \in {"err", "ctx"}, Fail(how),
         how = "ctx" => ctxDone,
         attempt' = attempt, ctxDone' = ctxDone, UNCHANGED <<request, answer>>
  PROVE  UpInv'
  <1>0. /\ got = 0 /\ wrote = <<>> /\ upStatus = "none" /\ last = "none"
        /\ got \in 0..TextLen /\ relayed \in Seq(Nat \X Nat)
        /\ Len(relayed) = (IF Relays THEN got ELSE 0)
    BY DEF UpInv
  <1>1. /\ pc' = "returned" /\ outcome' = how /\ last' = last
        /\ UNCHANGED <<fam, kind, upStatus, open, got, relayed, vectors>>
        /\ Relays' = Relays
    BY DEF Fail, request, answer, Relays
  <1>2. wrote' = IF kind = "job" THEN <<>> ELSE <<ErrStatus(how)>>
    BY <1>0, FirstStatus DEF Fail
  <1>3. RelayExact'
    BY <1>0, <1>1 DEF UpInv, RelayExact
  <1>4. ErrStatus(how) \in {502, 503} /\ (ErrStatus(how) = 503 => ctxDone)
    BY DEF ErrStatus
  <1>5. AnswerHonest'
    <2>1. CASE kind = "job"
      BY <1>1, <1>2, <2>1 DEF AnswerHonest
    <2>2. CASE kind # "job"
      <3> DEFINE x == ErrStatus(how)
      <3>1. wrote' = <<x>> /\ x # 200 /\ (x = 503 => ctxDone)
        BY <1>2, <1>4, <2>2
      <3> HIDE DEF x
      <3>2. Len(wrote') = 1 /\ wrote'[1] = x
        BY <3>1
      <3> QED BY <3>1, <3>2 DEF AnswerHonest
    <2> QED BY <2>1, <2>2
  <1> QED BY <1>0, <1>1, <1>3, <1>5 DEF UpInv, Before

\* Send either starts a RoundTrip or fails.
LEMMA BeforeInv ==
  ASSUME UpInv, pc \in Before \ {"idle"}, pc' \in Before \ {"idle"}, attempt' \in Nat,
         ctxDone' \in BOOLEAN, UNCHANGED <<request, answer, reply>>
  PROVE  UpInv'
  <1>0. /\ got = 0 /\ wrote = <<>> /\ upStatus = "none" /\ outcome = "none" /\ last = "none"
        /\ relayed \in Seq(Nat \X Nat)
        /\ Len(relayed) = (IF Relays THEN got ELSE 0) /\ Len(relayed) = 0
    BY DEF UpInv
  <1>1. UNCHANGED <<fam, kind, upStatus, open, got, relayed, vectors, outcome, wrote, last>>
        /\ Relays' = Relays
    BY DEF request, answer, reply, Relays
  <1>2. DOMAIN relayed = {}
    BY <1>0
  <1>3. RelayExact'
    BY <1>0, <1>1, <1>2 DEF UpInv, RelayExact
  <1>4. AnswerHonest'
    BY <1>0, <1>1 DEF AnswerHonest, Before
  <1> QED BY <1>0, <1>1, <1>3, <1>4 DEF UpInv, Before

\* Reading ends with outcome how, once all that was received is in rel and n.
LEMMA FinishInv ==
  ASSUME UpInv, pc = "read", kind # "raw", NEW how \in {"ok", "err", "ctx"}, Finish(how),
         how = "ctx" => ctxDone,
         how = "ok" /\ kind # "embed" => got' = TextLen,
         got' \in 0..TextLen, relayed' \in Seq(Nat \X Nat),
         Len(relayed') = IF Relays THEN got' ELSE 0,
         \A k \in DOMAIN relayed' : relayed'[k] = <<attempt, k>>,
         \A k \in DOMAIN vectors' : vectors'[k] \in {0, k},
         attempt' = attempt, ctxDone' = ctxDone, upStatus' = upStatus, UNCHANGED request
  PROVE  UpInv'
  <1>1. /\ pc' = "drain" /\ outcome' = how /\ wrote' = wrote
        /\ kind' = kind /\ fam' = fam /\ Relays' = Relays
    BY DEF Finish, request, Relays
  <1>2. upStatus = "ok" /\ wrote = IF kind = "stream" THEN <<200>> ELSE <<>>
    BY DEF UpInv, Relays
  <1>3. last' = "done" => Len(relayed') = TextLen
    <2>1. CASE kind = "stream"
      BY <2>1 DEF Finish, Relays
    <2>2. CASE kind # "stream"
      <3>1. last' = last /\ ~Relays /\ Len(relayed) = 0
        BY <2>2 DEF Finish, Relays, UpInv
      <3>2. last = "done" => TextLen = 0
        BY <3>1 DEF UpInv, RelayExact
      <3> QED BY <3>1, <3>2
    <2> QED BY <2>1, <2>2
  <1>4. RelayExact'
    BY <1>1, <1>3 DEF RelayExact
  <1>5. Len(wrote) <= 1
    BY DEF UpInv, AnswerHonest
  <1>6. AnswerHonest'
    BY <1>1, <1>5 DEF AnswerHonest
  <1> QED BY <1>1, <1>2, <1>4, <1>6 DEF UpInv, Before

\* One more piece of the text, if the answer has one left.
LEMMA PieceReceived ==
  ASSUME UpInv, got < TextLen, got' = got + 1,
         relayed' = IF Relays THEN Append(relayed, <<attempt, got + 1>>) ELSE relayed
  PROVE  /\ got' \in 0..TextLen
         /\ relayed' \in Seq(Nat \X Nat)
         /\ Len(relayed') = IF Relays THEN got' ELSE 0
         /\ \A k \in DOMAIN relayed' : relayed'[k] = <<attempt, k>>
  <1>0. /\ got \in 0..TextLen /\ relayed \in Seq(Nat \X Nat) /\ attempt \in Nat
        /\ Len(relayed) = (IF Relays THEN got ELSE 0)
        /\ \A k \in DOMAIN relayed : relayed[k] = <<attempt, k>>
    BY DEF UpInv, RelayExact
  <1>1. got' \in 0..TextLen
    BY <1>0, UpstreamAssumption
  <1>2. CASE Relays
    <2> DEFINE e == <<attempt, got + 1>>
    <2>1. e \in Nat \X Nat
      BY <1>0
    <2>2. relayed' = Append(relayed, e) /\ Len(relayed) = got /\ got \in Nat
      BY <1>0, <1>2
    <2> HIDE DEF e
    <2>3. /\ relayed' \in Seq(Nat \X Nat) /\ Len(relayed') = got + 1
          /\ DOMAIN relayed' = 1..(got + 1)
          /\ relayed'[got + 1] = e
          /\ \A k \in 1..got : relayed'[k] = relayed[k]
      BY <1>0, <2>1, <2>2
    <2>4. ASSUME NEW k \in DOMAIN relayed' PROVE relayed'[k] = <<attempt, k>>
      <3>1. CASE k = got + 1
        BY <2>3, <3>1 DEF e
      <3>2. CASE k # got + 1
        <4>1. k \in 1..got /\ k \in DOMAIN relayed
          BY <1>0, <2>2, <2>3, <3>2
        <4> QED BY <1>0, <2>3, <4>1
      <3> QED BY <3>1, <3>2
    <2> QED BY <1>1, <1>2, <2>3, <2>4
  <1>3. CASE ~Relays
    BY <1>0, <1>1, <1>3
  <1> QED BY <1>2, <1>3

\* The steps before a response.
LEMMA UpInvBefore ==
  ASSUME UpInv,
         \/ BodyRead \/ BodyBreaks \/ ChatRefused \/ EmbedRefused
         \/ ConnFails \/ SendFails \/ SendCanceled \/ Again \/ BackoffOver
  PROVE  UpInv'
  <1>0. attempt \in Nat /\ ctxDone \in BOOLEAN
    BY DEF UpInv
  <1>1. CASE BodyRead \/ BackoffOver
    <2>1. /\ pc \in Before \ {"idle"} /\ attempt' = attempt /\ ctxDone' = ctxDone
          /\ UNCHANGED <<request, answer>>
      BY <1>1 DEF BodyRead, BackoffOver, Before
    <2>2. CASE ctxDone /\ Fail("ctx")
      BY <2>1, <2>2, FailInv
    <2>3. CASE pc' = "send" /\ UNCHANGED reply
      BY <1>0, <2>1, <2>3, BeforeInv DEF Before
    <2> QED BY <1>1, <2>2, <2>3 DEF BodyRead, BackoffOver, Send
  <1>2. ASSUME NEW x \in {400, 502}, Refuse(x) PROVE UpInv'
    <2>1. /\ pc = "body" /\ pc' = "returned" /\ wrote' = <<x>> /\ outcome' = "err"
          /\ last' = last /\ attempt' = attempt /\ ctxDone' = ctxDone
          /\ UNCHANGED <<fam, kind, upStatus, open, got, relayed, vectors>>
      BY <1>2 DEF Refuse, request, answer
    <2>2. Relays' = Relays
      BY <2>1 DEF Relays
    <2>3. /\ upStatus = "none" /\ last = "none"
          /\ Len(relayed) = (IF Relays THEN got ELSE 0) /\ relayed \in Seq(Nat \X Nat)
      BY <2>1 DEF UpInv, Before
    <2>4. RelayExact'
      BY <2>1, <2>3 DEF UpInv, RelayExact
    <2>5. Len(wrote') = 1 /\ wrote'[1] = x
      BY <2>1
    <2>6. AnswerHonest'
      BY <2>1, <2>5 DEF AnswerHonest
    <2> QED BY <2>1, <2>2, <2>3, <2>4, <2>6 DEF UpInv, Before
  <1>3. CASE BodyBreaks \/ ChatRefused \/ EmbedRefused
    BY <1>2, <1>3 DEF BodyBreaks, ChatRefused, EmbedRefused
  <1>4. CASE ConnFails \/ SendFails
    <2>1. /\ pc \in Before \ {"idle"} /\ attempt' = attempt /\ ctxDone' = ctxDone
          /\ UNCHANGED <<request, answer>>
      BY <1>4 DEF ConnFails, SendFails, Before
    <2>2. CASE Fail("err")
      BY <2>1, <2>2, FailInv
    <2>3. CASE pc' = "again" /\ UNCHANGED reply
      BY <1>0, <2>1, <2>3, BeforeInv DEF Before
    <2> QED BY <1>4, <2>2, <2>3 DEF ConnFails, SendFails
  <1>5. CASE SendCanceled
    <2>1. /\ pc \in Before \ {"idle"} /\ attempt' = attempt /\ ctxDone' = ctxDone
          /\ UNCHANGED <<request, answer>> /\ ctxDone /\ Fail("ctx")
      BY <1>5 DEF SendCanceled, Before
    <2> QED BY <2>1, FailInv
  <1>6. CASE Again
    <2>1. pc \in Before \ {"idle"} /\ ctxDone' = ctxDone /\ UNCHANGED <<request, answer>>
      BY <1>6 DEF Again, Before
    <2>2. CASE Fail("err") /\ attempt' = attempt
      BY <2>1, <2>2, FailInv
    <2>3. CASE pc' = "backoff" /\ attempt' = attempt + 1 /\ UNCHANGED reply
      BY <1>0, <2>1, <2>3, BeforeInv DEF Before
    <2> QED BY <1>6, <2>2, <2>3 DEF Again
  <1> QED BY <1>1, <1>3, <1>4, <1>5, <1>6

\* The response: a relayed one commits its status, another that is no 200 is drained.
LEMMA UpInvResponse ==
  ASSUME UpInv, RespOK \/ RespOther
  PROVE  UpInv'
  <1>0. /\ pc = "send" /\ got = 0 /\ wrote = <<>> /\ last = "none" /\ outcome = "none"
        /\ got \in 0..TextLen /\ relayed \in Seq(Nat \X Nat)
        /\ Len(relayed) = (IF Relays THEN got ELSE 0)
    BY DEF UpInv, RespOK, RespOther, Before
  <1>1. /\ UNCHANGED <<fam, kind, ctxDone, attempt, got, relayed, vectors, last>>
        /\ Relays' = Relays
    BY DEF RespOK, RespOther, request, Relays
  <1>2. CASE RespOK
    <2>1. /\ pc' = "read" /\ upStatus' = "ok" /\ outcome' = outcome
          /\ wrote' = IF Relays THEN <<200>> ELSE <<>>
      BY <1>0, <1>2, FirstStatus DEF RespOK
    <2>2. RelayExact'
      BY <1>0, <1>1, <2>1 DEF UpInv, RelayExact
    <2>3. Len(wrote') <= 1
      BY <2>1, FirstStatus
    <2>4. AnswerHonest'
      BY <2>1, <2>3 DEF AnswerHonest
    <2> QED BY <1>0, <1>1, <2>1, <2>2, <2>4 DEF UpInv, Before
  <1>3. CASE RespOther /\ kind = "raw"
    <2>1. /\ pc' = "read" /\ upStatus' = "other" /\ outcome' = outcome
          /\ wrote' = <<UpstreamsOwn>> /\ Relays
      BY <1>0, <1>3, FirstStatus DEF RespOther, Relays
    <2>2. RelayExact'
      BY <1>0, <1>1, <2>1 DEF UpInv, RelayExact
    <2>3. Len(wrote') <= 1
      BY <2>1, FirstStatus
    <2>4. AnswerHonest'
      BY <2>1, <2>3 DEF AnswerHonest
    <2> QED BY <1>0, <1>1, <1>3, <2>1, <2>2, <2>4 DEF UpInv, Before
  <1>4. CASE RespOther /\ kind # "raw"
    <2>1. /\ pc' = "drain" /\ upStatus' = "other" /\ outcome' = "err" /\ wrote' = <<>>
      BY <1>0, <1>4 DEF RespOther
    <2>2. RelayExact'
      BY <1>0, <1>1, <2>1 DEF UpInv, RelayExact
    <2>3. Len(wrote') <= 1
      BY <2>1, FirstStatus
    <2>4. AnswerHonest'
      BY <2>1, <2>3 DEF AnswerHonest
    <2> QED BY <1>0, <1>1, <1>4, <2>1, <2>2, <2>4 DEF UpInv, Before
  <1> QED BY <1>2, <1>3, <1>4

\* A relayed answer ends with its body: the status was written when it began.
LEMMA RawEnds ==
  ASSUME UpInv, pc = "read", kind = "raw", pc' = "returned",
         last' \in {"end", "cut", last},
         UNCHANGED <<outcome, wrote, request, ctxDone, attempt, upStatus, got, relayed, vectors>>
  PROVE  UpInv'
  <1>0. UNCHANGED <<fam, kind>> /\ Relays /\ Relays' = Relays
    BY DEF request, Relays
  <1>1. wrote = IF upStatus = "ok" THEN <<200>> ELSE <<UpstreamsOwn>>
    BY <1>0 DEF UpInv
  <1>2. RelayExact'
    <2>1. last' = "done" => last = "done"
      OBVIOUS
    <2> QED BY <1>0, <2>1 DEF UpInv, RelayExact
  <1>3. AnswerHonest'
    <2>1. Len(wrote) = 1 /\ wrote[1] = IF upStatus = "ok" THEN 200 ELSE UpstreamsOwn
      BY <1>1
    <2>2. UpstreamsOwn = 0
      BY DEF UpstreamsOwn
    <2> QED BY <2>1, <2>2 DEF AnswerHonest
  <1> QED BY <1>0, <1>2, <1>3 DEF UpInv, Before

\* The steps that read the answer.
LEMMA UpInvReading ==
  ASSUME UpInv,
         \/ Piece \/ DoneMark \/ BadLine \/ BodyEnds \/ LastEvent \/ ReadBreaks
         \/ \E data \in Data : EmbedAnswer(data)
  PROVE  UpInv'
  <1>0. /\ pc = "read"
        /\ got \in 0..TextLen /\ TextLen \in Nat /\ relayed \in Seq(Nat \X Nat)
        /\ Len(relayed) = (IF Relays THEN got ELSE 0)
        /\ \A k \in DOMAIN relayed : relayed[k] = <<attempt, k>>
        /\ \A k \in DOMAIN vectors : vectors[k] \in {0, k}
        /\ ReadErr \in {"err", "ctx"} /\ (ReadErr = "ctx" => ctxDone)
    BY UpstreamAssumption
    DEF UpInv, RelayExact, Piece, DoneMark, BadLine, BodyEnds, LastEvent, ReadBreaks,
        EmbedAnswer, Listening, Reading, ReadErr
  <1>1. CASE Piece
    <2>1. /\ got < TextLen /\ got' = got + 1
          /\ relayed' = IF Relays THEN Append(relayed, <<attempt, got + 1>>) ELSE relayed
          /\ UNCHANGED <<fam, kind, pc, ctxDone, attempt, upStatus, vectors, outcome, wrote, last>>
          /\ Relays' = Relays
      BY <1>1 DEF Piece, request, reply, Relays
    <2>2. /\ got' \in 0..TextLen
          /\ relayed' \in Seq(Nat \X Nat)
          /\ Len(relayed') = IF Relays THEN got' ELSE 0
          /\ \A k \in DOMAIN relayed' : relayed'[k] = <<attempt, k>>
      BY <2>1, PieceReceived
    <2>3. last # "done"
      <3>1. ASSUME last = "done" PROVE FALSE
        <4>1. Len(relayed) = TextLen
          BY <3>1 DEF UpInv, RelayExact
        <4> QED BY <1>0, <2>1, <4>1
      <3> QED BY <3>1
    <2>4. outcome = "none"
      BY <1>0 DEF UpInv
    <2>5. RelayExact'
      BY <1>0, <2>1, <2>2, <2>3, <2>4 DEF RelayExact
    <2>6. AnswerHonest'
      BY <1>0, <2>1 DEF UpInv, AnswerHonest
    <2> QED BY <1>0, <2>1, <2>2, <2>5, <2>6 DEF UpInv, Before
  <1>2. CASE DoneMark /\ kind = "raw"
    <2>1. /\ got = TextLen /\ last' = "done" /\ pc' = pc /\ Relays /\ Relays' = Relays
          /\ UNCHANGED <<fam, kind, ctxDone, attempt, upStatus, got, relayed, vectors, outcome,
                         wrote>>
      BY <1>2 DEF DoneMark, request, answer, Relays
    <2>2. RelayExact'
      BY <1>0, <2>1 DEF UpInv, RelayExact
    <2>3. AnswerHonest'
      BY <2>1 DEF UpInv, AnswerHonest
    <2> QED BY <1>0, <2>1, <2>2, <2>3 DEF UpInv, Before
  <1>3. CASE DoneMark /\ kind # "raw"
    <2>1. /\ Finish("ok") /\ got' = TextLen
          /\ UNCHANGED <<request, ctxDone, attempt, upStatus, got, relayed, vectors>>
      BY <1>3 DEF DoneMark, answer
    <2> QED BY <1>0, <1>3, <2>1, FinishInv
  <1>4. CASE BadLine
    <2>1. /\ Finish("err") /\ kind # "raw"
          /\ UNCHANGED <<request, ctxDone, attempt, upStatus, got, relayed, vectors>>
      BY <1>4 DEF BadLine, answer
    <2> QED BY <1>0, <2>1, FinishInv
  <1>5. CASE (BodyEnds \/ ReadBreaks) /\ kind = "raw"
    <2>1. /\ pc' = "returned" /\ last' \in {"end", "cut", last}
          /\ UNCHANGED <<outcome, wrote, request, ctxDone, attempt, upStatus, got, relayed,
                         vectors>>
      BY <1>5 DEF BodyEnds, ReadBreaks
    <2> QED BY <1>0, <1>5, <2>1, RawEnds
  <1>6. CASE (BodyEnds \/ ReadBreaks) /\ kind # "raw"
    <2>1. /\ Finish("err") \/ Finish(ReadErr)
          /\ UNCHANGED <<request, ctxDone, attempt, upStatus, got, relayed, vectors>>
      BY <1>6 DEF BodyEnds, ReadBreaks
    <2>2. CASE Finish("err")
      BY <1>0, <1>6, <2>1, <2>2, FinishInv
    <2>3. CASE Finish(ReadErr)
      <3> HIDE DEF ReadErr
      <3> QED BY <1>0, <1>6, <2>1, <2>3, FinishInv
    <2> QED BY <2>1, <2>2, <2>3
  <1>7. CASE LastEvent
    <2>1. /\ kind # "raw"
          /\ UNCHANGED <<request, ctxDone, attempt, upStatus, vectors>>
      BY <1>7 DEF LastEvent, UpInv
    <2>2. CASE got < TextLen
      <3>1. /\ got' = got + 1
            /\ relayed' = IF Relays THEN Append(relayed, <<attempt, got + 1>>) ELSE relayed
            /\ Finish(ReadErr)
        BY <1>7, <2>2 DEF LastEvent
      <3>2. /\ got' \in 0..TextLen
            /\ relayed' \in Seq(Nat \X Nat)
            /\ Len(relayed') = IF Relays THEN got' ELSE 0
            /\ \A k \in DOMAIN relayed' : relayed'[k] = <<attempt, k>>
        BY <2>2, <3>1, PieceReceived
      <3>3. ReadErr # "ok"
        BY <1>0
      <3> HIDE DEF ReadErr
      <3> QED BY <1>0, <2>1, <3>1, <3>2, <3>3, FinishInv
    <2>3. CASE ~(got < TextLen)
      <3>1. got' = got /\ relayed' = relayed /\ Finish("ok") /\ got = TextLen
        BY <1>0, <1>7, <2>3 DEF LastEvent
      <3> QED BY <1>0, <2>1, <3>1, FinishInv
    <2> QED BY <2>2, <2>3
  <1>8. ASSUME NEW data \in Data, EmbedAnswer(data) PROVE UpInv'
    <2>1. /\ kind = "embed"
          /\ UNCHANGED <<request, ctxDone, attempt, upStatus, got, relayed>>
          /\ \/ Finish("ok") /\ vectors' = Place(data)
             \/ Finish("err") /\ vectors' = vectors
      BY <1>8 DEF EmbedAnswer
    <2>2. \A k \in DOMAIN Place(data) : Place(data)[k] \in {0, k}
      BY DEF Place
    <2>3. \A k \in DOMAIN vectors' : vectors'[k] \in {0, k}
      BY <1>0, <2>1, <2>2
    <2> QED BY <1>0, <2>1, <2>3, FinishInv
  <1> QED BY <1>1, <1>2, <1>3, <1>4, <1>5, <1>6, <1>7, <1>8

\* The end of a drain, where the status is written that no relayed answer has left to write,
\* and the steps of the environment.
LEMMA UpInvEnding ==
  ASSUME UpInv, DrainEnd \/ CtxEnds \/ UpstreamCloses \/ ClientStalls \/ ClientReads
  PROVE  UpInv'
  <1>1. CASE DrainEnd
    <2>1. /\ pc = "drain" /\ pc' = "returned" /\ Relays' = Relays
          /\ UNCHANGED <<fam, kind, ctxDone, attempt, upStatus, open, got, relayed, vectors,
                         outcome, last>>
      BY <1>1 DEF DrainEnd, request, answer, Relays
    <2>2. RelayExact'
      BY <2>1 DEF UpInv, RelayExact
    <2>3. AnswerHonest'
      <3>1. CASE kind = "job"
        <4>1. wrote' = <<>>
          BY <1>1, <2>1, <3>1 DEF DrainEnd, UpInv
        <4> QED BY <2>1, <3>1, <4>1 DEF AnswerHonest
      <3>2. CASE kind = "stream" /\ upStatus = "ok"
        <4>1. wrote' = <<200>>
          BY <1>1, <2>1, <3>2 DEF DrainEnd, UpInv
        <4> QED BY <2>1, <3>2, <4>1, FirstStatus DEF AnswerHonest
      <3>3. CASE kind # "job" /\ ~(kind = "stream" /\ upStatus = "ok")
        <4> DEFINE x == IF outcome = "ok" THEN 200 ELSE ErrStatus(outcome)
        <4>1. wrote = <<>> /\ wrote' = Append(wrote, x)
          BY <1>1, <2>1, <3>3 DEF DrainEnd, UpInv
        <4>2. (x = 200 => upStatus = "ok") /\ (x = 503 => ctxDone)
          BY <2>1 DEF UpInv, ErrStatus
        <4> HIDE DEF x
        <4>3. Len(wrote') = 1 /\ wrote'[1] = x
          BY <4>1, FirstStatus
        <4> QED BY <2>1, <4>2, <4>3 DEF AnswerHonest
      <3> QED BY <3>1, <3>2, <3>3
    <2> QED BY <2>1, <2>2, <2>3 DEF UpInv, Before
  <1>2. CASE CtxEnds \/ UpstreamCloses \/ ClientStalls \/ ClientReads
    <2>1. /\ ctxDone' \in BOOLEAN /\ (ctxDone => ctxDone') /\ Relays' = Relays
          /\ UNCHANGED <<fam, kind, pc, attempt, upStatus, got, relayed, vectors, outcome,
                         wrote, last>>
      BY <1>2 DEF CtxEnds, UpstreamCloses, ClientStalls, ClientReads, Writes, Drained, request,
                  answer, reply, UpInv, Relays
    <2>2. RelayExact'
      BY <2>1 DEF UpInv, RelayExact
    <2>3. AnswerHonest'
      BY <2>1 DEF UpInv, AnswerHonest
    <2> QED BY <2>1, <2>2, <2>3 DEF UpInv, Before
  <1> QED BY <1>1, <1>2

\* A call begins: of an OpenAI-compatible upstream nothing is relayed as it is.
LEMMA UpInvBegin ==
  ASSUME UpInv, NEW f, NEW k, Begin(f, k), f = "openai" => k # "raw"
  PROVE  UpInv'
  <1>0. /\ got = 0 /\ wrote = <<>> /\ upStatus = "none" /\ outcome = "none" /\ last = "none"
        /\ relayed \in Seq(Nat \X Nat) /\ Len(relayed) = 0
    BY DEF UpInv, Begin, Before
  <1>1. /\ pc' \in {"body", "send"} /\ fam' = f /\ kind' = k
        /\ UNCHANGED <<ctxDone, attempt, upStatus, got, relayed, vectors, outcome, wrote, last>>
    BY DEF Begin, answer, reply
  <1>2. RelayExact'
    BY <1>0, <1>1 DEF UpInv, RelayExact
  <1>3. AnswerHonest'
    BY <1>0, <1>1 DEF AnswerHonest
  <1>4. Len(relayed') = 0 /\ got' = 0
    BY <1>0, <1>1
  <1> QED BY <1>0, <1>1, <1>2, <1>3, <1>4 DEF UpInv, Before

LEMMA UpInvUnknownPath ==
  ASSUME UpInv, UnknownPath
  PROVE  UpInv'
  <1>0. /\ got = 0 /\ upStatus = "none" /\ outcome = "none" /\ last = "none"
        /\ relayed \in Seq(Nat \X Nat) /\ Len(relayed) = 0
    BY DEF UpInv, UnknownPath, Before
  <1>1. /\ pc' = "returned" /\ kind' = "none" /\ wrote' = <<404>>
        /\ UNCHANGED <<ctxDone, attempt, upStatus, got, relayed, vectors, outcome, last>>
    BY DEF UnknownPath, answer
  <1>2. RelayExact'
    BY <1>0, <1>1 DEF UpInv, RelayExact
  <1>3. AnswerHonest'
    BY <1>1, FirstStatus DEF AnswerHonest
  <1>4. Len(relayed') = 0 /\ got' = 0 /\ ~Relays'
    BY <1>0, <1>1 DEF Relays
  <1> QED BY <1>0, <1>1, <1>2, <1>3, <1>4 DEF UpInv, Before

\* What happens to the configuration does not concern the call.
LEMMA UpInvUnchanged ==
  ASSUME UpInv, UNCHANGED upVars
  PROVE  UpInv'
  <1>1. /\ UNCHANGED <<fam, kind, pc, ctxDone, attempt, upStatus, got, relayed, vectors, outcome,
                       wrote, last>>
        /\ Relays' = Relays
    BY DEF upVars, request, answer, reply, Relays
  <1>2. RelayExact' /\ AnswerHonest'
    BY <1>1 DEF UpInv, RelayExact, AnswerHonest
  <1> QED BY <1>1, <1>2 DEF UpInv, Before

LEMMA UpInvStep ==
  ASSUME UpInv, [DispatchNext]_dispatchVars
  PROVE  UpInv'
  <1>1. CASE UNCHANGED upVars
    BY <1>1, UpInvUnchanged
  <1>2. ASSUME NEW m, NEW lane, Serve(m, lane) PROVE UpInv'
    <2> DEFINE f == Resolve(m, lane).fam
    <2>1. CASE \E k \in Kinds(f) : Begin(f, k)
      <3>1. PICK k \in Kinds(f) : Begin(f, k)
        BY <2>1
      <3>2. f = "openai" => k # "raw"
        BY <3>1 DEF Kinds
      <3> HIDE DEF f
      <3> QED BY <3>1, <3>2, UpInvBegin
    <2>2. CASE UnknownPath
      BY <2>2, UpInvUnknownPath
    <2> QED BY <1>2, <2>1, <2>2 DEF Serve
  <1>3. ASSUME NEW m, RunJob(m) PROVE UpInv'
    <2> DEFINE f == GenerateAt(m).fam
    <2>1. Begin(f, "job")
      BY <1>3 DEF RunJob
    <2> HIDE DEF f
    <2> QED BY <2>1, UpInvBegin
  <1>4. CASE ServeEmbed
    <2>1. Begin("infinity", "raw")
      BY <1>4 DEF ServeEmbed
    <2> QED BY <2>1, UpInvBegin
  <1>5. CASE CallNext
    BY <1>5, UpInvBefore, UpInvResponse, UpInvReading, UpInvEnding DEF CallNext
  <1>6. CASE UNCHANGED dispatchVars
    BY <1>1, <1>6 DEF dispatchVars
  <1> QED BY <1>1, <1>2, <1>3, <1>4, <1>5, <1>6 DEF DispatchNext

LEMMA UpSafe == DispatchSpec => []UpInv
  <1>1. DispatchInit => UpInv
    BY UpInvInit DEF DispatchInit
  <1>2. UpInv /\ [DispatchNext]_dispatchVars => UpInv'
    BY UpInvStep
  <1> QED BY <1>1, <1>2, PTL DEF DispatchSpec

\* However often the retrying transport tried and however long the answer is, what the client
\* or the Job is given is one attempt's text in order without a gap, "done" ends only a whole
\* answer, and an embedding stands at the position of its own input.
THEOREM AnswersWhole == DispatchSpec => []RelayExact
  <1>1. UpInv => RelayExact
    BY DEF UpInv
  <1> QED BY <1>1, UpSafe, PTL

\* Whatever way out of RoundTrip, of the reading or of the drain a request takes, exactly one
\* status has been written for it when it returns: 200 only if the upstream said so and 503
\* only if the context has ended.
THEOREM OneHonestStatus == DispatchSpec => []AnswerHonest
  <1>1. UpInv => AnswerHonest
    BY DEF UpInv
  <1> QED BY <1>1, UpSafe, PTL

=============================================================================
