----------------------------- MODULE StreamRelay -----------------------------
(***************************************************************************)
(* One streamed completion, end to end: the provider's reader goroutine    *)
(* (readSSEStream of src/providers/local.go, openai.go and anthropic.go),  *)
(* the channel of StreamEvents, the gateway's handler                      *)
(* (handleStreamingCompletion, src/gateway/handler.go), the response on    *)
(* its way to the browser, and the chat UI that reads it                   *)
(* (streamCompletion, src/frontend/src/lib/api.ts).                        *)
(*                                                                         *)
(* The upstream server is the environment.  Its chunks are numbered in the *)
(* order it sends them; what they hold is not looked at.  Lines every      *)
(* reader skips (blank lines, comments, pings) are left out.               *)
(***************************************************************************)
EXTENDS Integers, Sequences, SequencesExt

CONSTANTS
  Chunks,       \* bound: the chunks the upstream sends at most
  ChannelSize,  \* the capacity of the events channel
  WireSize      \* bound: the frames the connection to the browser holds

ASSUME SizeAssumption ==
  /\ Chunks \in Nat /\ ChannelSize \in Nat \ {0} /\ WireSize \in Nat \ {0}

\* Events of the channel and frames of the response are alike.
Chunk == 1 .. Chunks
Done == 0
Error == -1
Terminal == {Done, Error}
Frame == Chunk \cup Terminal

VARIABLES
  upstream,   \* chunks delivered, and how the body ended: "open", "done",
              \* "error" (an error envelope or an unreadable line), "eof", "drop"
  producer,   \* the reader goroutine: "off", "read", "send", "closed"; the event it sends
  channel,    \* the buffered events
  handler,    \* the handler: "open", "receive", "write", "returned"; the frame it writes
  wire,       \* frames written and not yet read by the browser
  connected,  \* the browser's connection stands
  client      \* streamCompletion: "fetch", "read", "complete", "failed", "aborted";
              \* the chunks it has got, and the terminal frames it has read past

vars == <<upstream, producer, channel, handler, wire, connected, client>>

None == <<>>

Init ==
  /\ upstream = [sent |-> 0, end |-> "open"]
  /\ producer = [pc |-> "off", event |-> None]
  /\ channel = <<>>
  /\ handler = [pc |-> "open", frame |-> None]
  /\ wire = <<>>
  /\ connected = TRUE
  /\ client = [pc |-> "fetch", got |-> <<>>, terminal |-> <<>>]
-----------------------------------------------------------------------------
(* The reader goroutine *)

unchangedByProducer == <<handler, wire, connected, client>>

Sends(event) == producer' = [pc |-> "send", event |-> <<event>>]

ReadChunk ==
  /\ producer.pc = "read" /\ upstream.end = "open" /\ upstream.sent < Chunks
  /\ upstream' = [upstream EXCEPT !.sent = @ + 1]
  /\ Sends(upstream.sent + 1)
  /\ UNCHANGED <<unchangedByProducer, channel>>

\* [DONE], or message_stop from Anthropic.
ReadDone ==
  /\ producer.pc = "read" /\ upstream.end = "open"
  /\ upstream' = [upstream EXCEPT !.end = "done"]
  /\ Sends(Done)
  /\ UNCHANGED <<unchangedByProducer, channel>>

\* An error envelope or event, a line that does not parse, or a failing read.
\* The request's context is the browser's: once that is gone reads fail.
ReadError ==
  /\ producer.pc = "read" /\ upstream.end = "open"
  /\ \E end \in {"error", "drop"} : upstream' = [upstream EXCEPT !.end = end]
  /\ Sends(Error)
  /\ UNCHANGED <<unchangedByProducer, channel>>

\* Mutant: the end of the body is taken for a line to skip.
ReadOnAtEOF ==
  /\ producer.pc = "read" /\ upstream.end \in {"open", "eof"}
  /\ upstream' = [upstream EXCEPT !.end = "eof"]
  /\ UNCHANGED <<unchangedByProducer, producer, channel>>

\* The body ends without a word: nothing is sent, the deferred calls close the
\* body and the channel.
ReadEOF ==
  /\ producer.pc = "read" /\ upstream.end = "open"
  /\ upstream' = [upstream EXCEPT !.end = "eof"]
  /\ producer' = [pc |-> "closed", event |-> None]
  /\ UNCHANGED <<unchangedByProducer, channel>>

AfterSend ==
  producer' = [pc |-> IF producer.event[1] \in Terminal THEN "closed" ELSE "read",
               event |-> None]

\* Mutant: a full channel drops the event.
SendOrDrop ==
  /\ producer.pc = "send"
  /\ channel' = IF Len(channel) < ChannelSize THEN channel \o producer.event ELSE channel
  /\ AfterSend
  /\ UNCHANGED <<unchangedByProducer, upstream>>

\* The send blocks while the channel is full, whatever becomes of the handler.
Send ==
  /\ producer.pc = "send" /\ Len(channel) < ChannelSize
  /\ channel' = channel \o producer.event
  /\ AfterSend
  /\ UNCHANGED <<unchangedByProducer, upstream>>

\* A read that returns, with whatever the upstream had to say.
ReadReturns == ReadChunk \/ ReadDone \/ ReadError \/ ReadEOF

ProducerStep == ReadReturns \/ Send
-----------------------------------------------------------------------------
(* The gateway's handler *)

unchangedByHandler == <<upstream, connected, client>>

OpenStream ==
  /\ handler.pc = "open"
  /\ handler' = [handler EXCEPT !.pc = "receive"]
  /\ producer' = [producer EXCEPT !.pc = "read"]
  /\ UNCHANGED <<unchangedByHandler, channel, wire>>

\* An error before the first event is an ordinary error response.
OpenFails ==
  /\ handler.pc = "open"
  /\ handler' = [handler EXCEPT !.pc = "returned"]
  /\ UNCHANGED <<unchangedByHandler, producer, channel, wire>>

Writes(frame) == handler' = [pc |-> "write", frame |-> <<frame>>]

Receive ==
  /\ handler.pc = "receive" /\ channel # <<>>
  /\ Writes(Head(channel)) /\ channel' = Tail(channel)
  /\ UNCHANGED <<unchangedByHandler, producer, wire>>

\* Mutant: the end of the channel passes for the end of the stream.
ChannelEndsAsDone ==
  /\ handler.pc = "receive" /\ channel = <<>> /\ producer.pc = "closed"
  /\ Writes(Done)
  /\ UNCHANGED <<unchangedByHandler, producer, channel, wire>>

\* The channel is closed and drained, and no terminal event came.
ChannelEnds ==
  /\ handler.pc = "receive" /\ channel = <<>> /\ producer.pc = "closed"
  /\ Writes(Error)
  /\ UNCHANGED <<unchangedByHandler, producer, channel, wire>>

AfterWrite ==
  handler' = [pc |-> IF handler.frame[1] \in Terminal THEN "returned" ELSE "receive",
              frame |-> None]

Write ==
  /\ handler.pc = "write" /\ connected /\ Len(wire) < WireSize
  /\ wire' = wire \o handler.frame
  /\ AfterWrite
  /\ UNCHANGED <<unchangedByHandler, producer, channel>>

\* With the browser gone a write may still seem to succeed.
WriteLost ==
  /\ handler.pc = "write" /\ ~connected
  /\ AfterWrite
  /\ UNCHANGED <<unchangedByHandler, producer, channel, wire>>

\* A chunk that cannot be written ends the handler at once.
WriteFails ==
  /\ handler.pc = "write" /\ ~connected
  /\ handler' = [pc |-> "returned", frame |-> None]
  /\ UNCHANGED <<unchangedByHandler, producer, channel, wire>>

\* The handler waits for the upstream's headers, with the browser's context.
OpenReturns == OpenStream \/ OpenFails

Relays == Receive \/ ChannelEnds \/ Write \/ WriteLost \/ WriteFails

HandlerStep == OpenReturns \/ Relays
-----------------------------------------------------------------------------
(* The chat UI *)

unchangedByClient == <<upstream, producer, channel, handler>>

\* fetch resolves with the headers; an error response is thrown as an ApiError.
\* A stream's headers are sent with its first frame.
Fetched ==
  /\ client.pc = "fetch" /\ connected
  /\ \/ wire # <<>> /\ client' = [client EXCEPT !.pc = "read"]
     \/ /\ wire = <<>> /\ handler.pc = "returned"
        /\ client' = [client EXCEPT !.pc = "failed"]
  /\ UNCHANGED <<unchangedByClient, wire, connected>>

ReadToken ==
  /\ client.pc = "read" /\ wire # <<>> /\ Head(wire) \in Chunk
  /\ client' = [client EXCEPT !.got = Append(@, Head(wire))]
  /\ wire' = Tail(wire)
  /\ UNCHANGED <<unchangedByClient, connected>>

\* An error frame is JSON without choices: nothing in it is looked at.
ReadPastError ==
  /\ client.pc = "read" /\ wire # <<>> /\ Head(wire) = Error
  /\ client' = [client EXCEPT !.terminal = Append(@, Error)]
  /\ wire' = Tail(wire)
  /\ UNCHANGED <<unchangedByClient, connected>>

ReadMarker ==
  /\ client.pc = "read" /\ wire # <<>> /\ Head(wire) = Done
  /\ client' = [client EXCEPT !.pc = "complete", !.terminal = Append(@, Done)]
  /\ wire' = Tail(wire)
  /\ UNCHANGED <<unchangedByClient, connected>>

\* The response ends: what has come in is the answer.
ReadEnd ==
  /\ client.pc = "read" /\ wire = <<>> /\ handler.pc = "returned" /\ connected
  /\ client' = [client EXCEPT !.pc = "complete"]
  /\ UNCHANGED <<unchangedByClient, wire, connected>>

ClientStep == Fetched \/ ReadToken \/ ReadPastError \/ ReadMarker \/ ReadEnd

\* The user stops the answer, or the connection breaks.
Disconnect ==
  /\ client.pc \in {"fetch", "read"} /\ connected
  /\ connected' = FALSE
  /\ \E pc \in {"failed", "aborted"} : client' = [client EXCEPT !.pc = pc]
  /\ wire' = <<>>
  /\ UNCHANGED unchangedByClient

\* A stream left to itself stands still when everyone is through, or when the
\* reader waits on a channel nobody receives from any more.
Rest ==
  /\ client.pc \notin {"fetch", "read"} /\ handler.pc = "returned"
  /\ \/ producer.pc \in {"off", "closed"}
     \/ producer.pc = "send" /\ Len(channel) = ChannelSize
  /\ UNCHANGED vars

Next == ProducerStep \/ HandlerStep \/ ClientStep \/ Disconnect \/ Rest

Spec == Init /\ [][Next]_vars

\* Goroutines that can run do run, and a page that is there reads what comes in.
\* Nothing makes the upstream speak: no call has a timeout, and while the browser
\* stays a silent upstream holds whoever reads from it.  Once the browser is gone
\* its context is cancelled, and what waits for the upstream returns.
FairSpec ==
  /\ Spec
  /\ WF_vars(Send) /\ WF_vars(Relays) /\ WF_vars(ClientStep)
  /\ WF_vars(~connected /\ ReadReturns) /\ WF_vars(~connected /\ OpenReturns)
-----------------------------------------------------------------------------
(* Properties *)

UpTo(n) == [i \in 1 .. n |-> i]

\* Everything that is on its way, from the answer shown to the reader.
Pipeline == client.got \o wire \o handler.frame \o channel \o producer.event

\* While the browser is there no chunk is lost, doubled or overtaken between the
\* upstream and the answer shown, however the channel and the connection fill up,
\* and nothing but one terminal frame follows the chunks; when the connection
\* breaks, what is shown is a beginning of what the upstream said
\* (src/providers/local.go:136-143, src/frontend/src/lib/api.ts:139-169).
NothingLost ==
  /\ IsPrefix(client.got, UpTo(upstream.sent))
  /\ connected => \E end \in {<<>>, <<Done>>, <<Error>>} : Pipeline = UpTo(upstream.sent) \o end

\* A response that was written to its end carries one terminal frame, after
\* every chunk, and it is [DONE] exactly if the upstream said it was done: a
\* truncated answer is never passed off as a complete one, nor the other way
\* round (the comment of src/gateway/handler.go, lines 328-329).  The frame is
\* still on its way or has been read.
ResponseTellsTheEnd ==
  LET end == <<IF upstream.end = "done" THEN Done ELSE Error>> IN
  handler.pc = "returned" /\ connected /\ producer.pc # "off" =>
    \/ client.terminal = <<>> /\ client.got \o wire = UpTo(upstream.sent) \o end
    \/ client.terminal = end /\ wire = <<>> /\ client.got = UpTo(upstream.sent)

\* The same of the answer the UI takes for complete.
ShownCompleteIsComplete == client.pc = "complete" => upstream.end = "done"

\* The reader sends into a full channel that nobody receives from any more: it
\* waits for good (src/providers/local.go:142).
Abandoned == ~connected /\ producer.pc = "send" /\ Len(channel) = ChannelSize

\* Once the upstream has ended its body, in whatever way, or the browser has left,
\* be it in front of an upstream that never says another word, the handler returns
\* and the reader closes its body and channel, however full the channel and the
\* connection are; only a reader whose browser has left may stay behind, and only
\* in front of a full channel (src/providers/local.go:113-149, handler.go:285-332).
StreamEnds ==
  (upstream.end # "open" \/ ~connected) ~>
    handler.pc = "returned" /\ (producer.pc \in {"off", "closed"} \/ Abandoned)
=============================================================================
