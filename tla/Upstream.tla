------------------------------ MODULE Upstream ------------------------------
(***************************************************************************)
(* One call to an upstream: the retrying transport and the reverse proxy   *)
(* of internal/proxy, the translating handler and client of                *)
(* internal/openaicompat, and the client of internal/ollama that Jobs use. *)
(* Calls share nothing but a connection pool, so one of them is modelled.  *)
(*                                                                         *)
(* kind is what is asked of the upstream: "raw" relayed as it is by the    *)
(* reverse proxy; of an OpenAI-compatible upstream "stream", "buffered" or *)
(* "embed"; and "job", a Generate of the Job worker.                       *)
(*                                                                         *)
(* An answer is TextLen pieces of text and an end marker, which the        *)
(* upstream sends only after the last piece.  The upstream may also fail   *)
(* at any point, or stay silent for ever.  ctxDone is the context of the   *)
(* call (yield, deadline of the Gate, disconnect, cancelled Job).  A       *)
(* handler may also be blocked in a write to a client that has stopped     *)
(* reading, which no context ends.                                         *)
(***************************************************************************)
EXTENDS Naturals, Sequences

CONSTANTS Retries,     \* retryTransport.retries
          TextLen,     \* pieces in a whole answer
          Inputs       \* texts in a request for embeddings

ASSUME UpstreamAssumption ==
  Retries \in Nat /\ TextLen \in Nat /\ Inputs \in Nat \ {0}

VARIABLES fam, kind,   \* the family of the upstream, and what is asked of it
          pc,          \* where the call is
          ctxDone,
          blocked,     \* the handler is in a write its client does not take
          attempt,     \* RoundTrips made so far, the first counted as 0
          upStatus,    \* the status of the upstream's response, "none" before it
          open,        \* the upstream may still send more of its body
          got,         \* pieces received
          relayed,     \* pieces written to the client, each with the attempt it is from
          vectors,     \* per position of the embeddings answered, the input it embeds, or 0
          outcome,     \* what the call came to: "ok", "err", or "ctx" if its context ended
          wrote,       \* the statuses written to the client
          last         \* what the client's stream ends with: "done", "error", "end", "cut"

request == <<fam, kind>>
answer  == <<upStatus, open, got, relayed, vectors>>
reply   == <<outcome, wrote, last>>
around  == <<ctxDone, blocked>>
upVars  == <<request, pc, around, attempt, answer, reply>>

Idle ==
  /\ pc = "idle" /\ fam = "none" /\ kind = "none"
  /\ ctxDone = FALSE /\ blocked = FALSE /\ attempt = 0
  /\ upStatus = "none" /\ open = FALSE /\ got = 0 /\ relayed = <<>> /\ vectors = <<>>
  /\ outcome = "none" /\ wrote = <<>> /\ last = "none"

\* Where the broker waits for its upstream, or for its own timer.
UpstreamPCs == {"send", "again", "backoff", "read", "drain"}

\* Only a Job on Ollama uses a client without the retrying transport.
HasRetry == ~(kind = "job" /\ fam = "ollama")

\* The answer is relayed as it comes, so that a status is written before the text.
Relays == kind \in {"raw", "stream"}

\* Stands for a status other than 200 that is relayed.
UpstreamsOwn == 0

\* What WriteUpstreamError and the fallback of its two callers write before a response.
ErrStatus(how) == IF how = "ctx" THEN 503 ELSE 502

-----------------------------------------------------------------------------
(* The end of the call                                                     *)

\* Faulty variant of Fail: the answer of WriteUpstreamError is not looked at.
FailUnchecked(how) ==
  /\ outcome' = how
  /\ pc' = "returned"
  /\ wrote' = IF kind = "job" \/ how # "ctx" THEN wrote ELSE Append(wrote, ErrStatus(how))
  /\ UNCHANGED last

\* The call fails before anything of an answer was written.
Fail(how) ==
  /\ outcome' = how
  /\ pc' = "returned"
  /\ wrote' = IF kind = "job" THEN wrote ELSE Append(wrote, ErrStatus(how))
  /\ UNCHANGED last

\* The text has been read to its end or to a failure.  A stream gets its last line, and the
\* rest of the body is drained before the call returns.
Finish(how) ==
  /\ outcome' = how
  /\ pc' = "drain"
  /\ last' = IF kind = "stream" THEN (IF how = "ok" THEN "done" ELSE "error") ELSE last
  /\ UNCHANGED wrote

\* The error of a read: the context's own if that has ended.
ReadErr == IF ctxDone THEN "ctx" ELSE "err"

\* Faulty variant of DrainEnd: drains to the end of the body, whatever the context says.
DrainEndOnly ==
  /\ pc = "drain" /\ ~blocked
  /\ ~open
  /\ pc' = "returned"
  /\ wrote' = IF kind = "job" \/ (kind = "stream" /\ upStatus = "ok") THEN wrote
              ELSE Append(wrote, IF outcome = "ok" THEN 200 ELSE ErrStatus(outcome))
  /\ UNCHANGED <<request, around, attempt, answer, outcome, last>>

\* drainClose is over: the body has ended, or the context.
Drained == ~open \/ ctxDone

\* Only then does the call return and a buffered answer, good or bad, get written.
DrainEnd ==
  /\ pc = "drain" /\ ~blocked
  /\ Drained
  /\ pc' = "returned"
  /\ wrote' = IF kind = "job" \/ (kind = "stream" /\ upStatus = "ok") THEN wrote
              ELSE Append(wrote, IF outcome = "ok" THEN 200 ELSE ErrStatus(outcome))
  /\ UNCHANGED <<request, around, attempt, answer, outcome, last>>

-----------------------------------------------------------------------------
(* The request                                                             *)

\* RoundTrip begins, unless the context has ended already.
Send == IF ctxDone THEN Fail("ctx") ELSE pc' = "send" /\ UNCHANGED reply

\* A handler or the Job worker begins: a Job has its prompt, a request its body to be read.
Begin(f, k) ==
  /\ pc = "idle"
  /\ fam' = f /\ kind' = k
  /\ pc' = IF k = "job" THEN "send" ELSE "body"
  /\ UNCHANGED <<around, attempt, answer, reply>>

\* The handler of an OpenAI-compatible upstream knows three paths only.
UnknownPath ==
  /\ pc = "idle"
  /\ fam' = "openai" /\ kind' = "none"
  /\ wrote' = <<404>>
  /\ pc' = "returned"
  /\ UNCHANGED <<around, attempt, answer, outcome, last>>

\* The body is read whole, to be replayed or translated.  It comes from the client, and no
\* context interrupts the read.
BodyRead ==
  /\ pc = "body"
  /\ Send
  /\ UNCHANGED <<request, around, attempt, answer>>

\* The request goes no further than its body.
Refuse(status) ==
  /\ pc = "body"
  /\ wrote' = <<status>>
  /\ outcome' = "err"
  /\ pc' = "returned"
  /\ UNCHANGED <<request, around, attempt, answer, last>>

\* A body to be replayed breaks off: an error of RoundTrip like any other.
BodyBreaks == kind = "raw" /\ Refuse(502)

\* A chat cannot be decoded, or carries a field that has no translation.
ChatRefused == kind \in {"stream", "buffered"} /\ Refuse(400)

\* The texts to embed cannot be decoded, or are missing.
EmbedRefused == kind = "embed" /\ Refuse(400)

-----------------------------------------------------------------------------
(* RoundTrip                                                               *)

\* The upstream answers 200.  A relayed answer commits its status here.
RespOK ==
  /\ pc = "send"
  /\ upStatus' = "ok" /\ open' = TRUE
  /\ pc' = "read"
  /\ wrote' = IF Relays THEN Append(wrote, 200) ELSE wrote
  /\ UNCHANGED <<request, around, attempt, got, relayed, vectors, outcome, last>>

\* It answers anything else: the reverse proxy relays that too, the others drain it and fail.
RespOther ==
  /\ pc = "send"
  /\ upStatus' = "other" /\ open' = TRUE
  /\ IF kind = "raw"
     THEN /\ pc' = "read"
          /\ wrote' = Append(wrote, UpstreamsOwn)
          /\ UNCHANGED outcome
     ELSE /\ pc' = "drain"
          /\ outcome' = "err"
          /\ UNCHANGED wrote
  /\ UNCHANGED <<request, around, attempt, got, relayed, vectors, last>>

\* The connection fails in a way isRetryableConnError knows.  The upstream may have acted on
\* the request all the same.
ConnFails ==
  /\ pc = "send"
  /\ IF HasRetry /\ ~ctxDone
     THEN pc' = "again" /\ UNCHANGED reply
     ELSE Fail("err")
  /\ UNCHANGED <<request, around, attempt, answer>>

\* The attempt fails in any other way: refused, no route, a malformed response.
SendFails ==
  /\ pc = "send"
  /\ Fail("err")
  /\ UNCHANGED <<request, around, attempt, answer>>

\* RoundTrip gives up because the context has ended.
SendCanceled ==
  /\ pc = "send" /\ ctxDone
  /\ Fail("ctx")
  /\ UNCHANGED <<request, around, attempt, answer>>

\* The loop of the retrying transport comes round: out of attempts, or the context has ended
\* since, and the error is that of the last attempt; otherwise it sleeps.
Again ==
  /\ pc = "again"
  /\ IF attempt = Retries \/ ctxDone
     THEN Fail("err") /\ UNCHANGED attempt
     ELSE pc' = "backoff" /\ attempt' = attempt + 1 /\ UNCHANGED reply
  /\ UNCHANGED <<request, around, answer>>

\* The sleep, which the context does not cut short, is over.
BackoffOver ==
  /\ pc = "backoff"
  /\ Send
  /\ UNCHANGED <<request, around, attempt, answer>>

-----------------------------------------------------------------------------
(* Reading the answer                                                      *)

\* The handler asks for more of the body, not being busy with its client.
Reading == pc = "read" /\ open /\ ~blocked

\* parseSSEStreamChunks looks at the context before each line it has scanned.
Listening == Reading /\ ~(fam = "openai" /\ ctxDone)

\* A piece of the text.
Piece ==
  /\ Listening /\ kind # "embed"
  /\ got < TextLen
  /\ got' = got + 1
  /\ relayed' = IF Relays THEN Append(relayed, <<attempt, got + 1>>) ELSE relayed
  /\ UNCHANGED <<request, pc, around, attempt, upStatus, open, vectors, reply>>

\* The end marker: "done" or [DONE].  To the reverse proxy it is one more line.
DoneMark ==
  /\ Listening /\ kind # "embed"
  /\ got = TextLen /\ last = "none"
  /\ IF kind = "raw" THEN last' = "done" /\ UNCHANGED <<pc, outcome, wrote>>
                     ELSE Finish("ok")
  /\ UNCHANGED <<request, around, attempt, answer>>

\* A line that carries an error, cannot be decoded, or is too long to scan.
BadLine ==
  /\ Listening /\ kind \notin {"embed", "raw"}
  /\ Finish("err")
  /\ UNCHANGED <<request, around, attempt, answer>>

\* The upstream closes its body in good order: without an end marker that is an error, unless
\* nobody looks.  Embeddings break off, or cannot be decoded.
BodyEnds ==
  /\ Reading
  /\ open' = FALSE
  /\ IF kind = "raw"
     THEN /\ pc' = "returned"
          /\ last' = IF last = "done" THEN last ELSE "end"
          /\ UNCHANGED <<outcome, wrote>>
     ELSE Finish(IF kind = "embed" THEN "err" ELSE ReadErr)
  /\ UNCHANGED <<request, around, attempt, upStatus, got, relayed, vectors>>

\* The last event of an event stream lacks the empty line after it: it is looked at once the
\* body has ended, whatever the context says by then.
LastEvent ==
  /\ Reading /\ fam = "openai" /\ kind # "embed"
  /\ open' = FALSE
  /\ got' = IF got < TextLen THEN got + 1 ELSE got
  /\ relayed' = IF Relays /\ got < TextLen THEN Append(relayed, <<attempt, got + 1>>) ELSE relayed
  /\ Finish(IF got < TextLen THEN ReadErr ELSE "ok")
  /\ UNCHANGED <<request, around, attempt, upStatus, vectors>>

\* Faulty variant of ReadBreaks: a stream that breaks is asked for once more.
ReadBreaksRetry ==
  /\ Reading
  /\ open' = FALSE
  /\ got' = 0
  /\ IF attempt = Retries \/ ctxDone THEN Finish(ReadErr) /\ UNCHANGED attempt
     ELSE pc' = "send" /\ attempt' = attempt + 1 /\ UNCHANGED reply
  /\ UNCHANGED <<request, around, upStatus, relayed, vectors>>

\* The body breaks off, as it must when the context has ended.  The reverse proxy then cuts
\* the client's connection, for want of a way to report the failure.
ReadBreaks ==
  /\ Reading
  /\ open' = FALSE
  /\ IF kind = "raw" THEN pc' = "returned" /\ last' = "cut" /\ UNCHANGED <<outcome, wrote>>
                     ELSE Finish(ReadErr)
  /\ UNCHANGED <<request, around, attempt, upStatus, got, relayed, vectors>>

\* Client.Embed puts each embedding where its index says, in as many positions as there are
\* items; one may stay empty.  An item is its index, counted from 1.
Place(data) ==
  [k \in DOMAIN data |-> IF \E j \in DOMAIN data : data[j] = k THEN k ELSE 0]

\* The whole answer to a request for embeddings arrives.
EmbedAnswer(data) ==
  /\ Reading /\ kind = "embed"
  /\ open' = FALSE
  /\ IF \A j \in DOMAIN data : data[j] \in DOMAIN data
     THEN Finish("ok") /\ vectors' = Place(data)
     ELSE Finish("err") /\ UNCHANGED vectors
  /\ UNCHANGED <<request, around, attempt, upStatus, got, relayed>>

-----------------------------------------------------------------------------
(* The environment                                                         *)

CtxEnds ==
  /\ pc \in UpstreamPCs \cup {"body"} /\ ~ctxDone
  /\ ctxDone' = TRUE
  /\ UNCHANGED <<request, pc, blocked, attempt, answer, reply>>

\* Where text is on its way to the client: the copy of the reverse proxy, the lines of a
\* stream, its last one included, and a whole answer once the upstream's body is drained.
Writes ==
  \/ pc = "read" /\ Relays
  \/ pc = "drain" /\ Drained /\ outcome = "ok" /\ kind \in {"buffered", "embed"}

\* The client has stopped reading and the buffers on the way to it are full.
ClientStalls ==
  /\ Writes /\ ~blocked
  /\ blocked' = TRUE
  /\ UNCHANGED <<request, pc, ctxDone, attempt, answer, reply>>

\* It reads on, or is gone so that the write fails.
ClientReads ==
  /\ blocked
  /\ blocked' = FALSE
  /\ UNCHANGED <<request, pc, ctxDone, attempt, answer, reply>>

\* The upstream ends a body that is being drained.
UpstreamCloses ==
  /\ pc = "drain" /\ open
  /\ open' = FALSE
  /\ UNCHANGED <<request, pc, around, attempt, upStatus, got, relayed, vectors, reply>>

\* What an upstream may send for the inputs: each of them in some order, or too few or many,
\* an index twice, or one out of range.
Data == UNION {[1..n -> 1..(Inputs + 1)] : n \in 0..(Inputs + 1)}

-----------------------------------------------------------------------------

CallNext ==
  \/ BodyRead \/ BodyBreaks \/ ChatRefused \/ EmbedRefused
  \/ RespOK \/ RespOther \/ ConnFails \/ SendFails \/ SendCanceled
  \/ Again \/ BackoffOver
  \/ Piece \/ DoneMark \/ BadLine \/ BodyEnds \/ LastEvent \/ ReadBreaks
  \/ \E data \in Data : EmbedAnswer(data)
  \/ DrainEnd
  \/ CtxEnds \/ UpstreamCloses \/ ClientStalls \/ ClientReads

\* The broker's own steps are taken, and a RoundTrip and a read both fail once their context
\* has ended.  Nothing else is assumed of the upstream, and of the client neither that it ends
\* its body (BodyRead) nor that it goes on reading (ClientReads).
CallFairness ==
  /\ WF_upVars(Again) /\ WF_upVars(BackoffOver)
  /\ WF_upVars(SendCanceled)
  /\ WF_upVars(ctxDone /\ ReadBreaks)
  /\ WF_upVars(DrainEnd)

-----------------------------------------------------------------------------
(* Properties                                                              *)

\* What a client or a Job is given comes from one attempt, in order and without a gap, however
\* often the transport retried; and whoever is told that it is complete has all of it.  A
\* stream, a buffered answer and a Job's result are complete only with the upstream's end
\* marker, and an embedding stands at the position of its own input.
RelayExact ==
  /\ \A k \in DOMAIN relayed : relayed[k] = <<attempt, k>>
  /\ last = "done" => Len(relayed) = TextLen
  /\ outcome = "ok" /\ kind # "embed" => got = TextLen
  /\ \A k \in DOMAIN vectors : vectors[k] \in {0, k}

\* A request that has returned wrote exactly one status, so that net/http never makes an empty
\* 200 of a failure; 200 only for an upstream that said so, and a deferral (503) only for a
\* context that has ended.
AnswerHonest ==
  /\ Len(wrote) <= 1
  /\ pc = "returned" /\ kind # "job" =>
       /\ Len(wrote) = 1
       /\ wrote[1] = 200 => upStatus = "ok"
       /\ wrote[1] = 503 => ctxDone

\* Once its context has ended a call that is past the reading of its body returns, from the
\* sleep between two attempts, from the drain of a body and from an upstream that has gone
\* silent, unless it is caught in a write to a client that has stopped reading: no context
\* ends that, and the server sets no WriteTimeout.  The Gate gets its slot back this way.
CallReturns == ctxDone /\ pc \in UpstreamPCs ~> pc = "returned" \/ blocked

=============================================================================
