------------------------------ MODULE Consumer -------------------------------
(***************************************************************************)
(* A consumer over HTTP, a WebSocket or RTMP (pkg/mp4, pkg/flv, pkg/aac,   *)
(* pkg/mpegts): a Sender whose handler writes to a WriteBuffer, a request  *)
(* that waits in WriteTo, and goroutines that stop it, the sender first    *)
(* and the buffer second (Connection.Stop).                                *)
(***************************************************************************)
EXTENDS Sender, SequencesExt

VARIABLES
    writer, buffer, client, gone, closable, err, state, wg, writeTo, close

WB == INSTANCE WriteBuffer

bufferVars == <<writer, buffer, client, gone, closable, err, state, wg, writeTo, close>>
consumerVars == <<vars, bufferVars>>

ConsumerTypeOK == TypeOK /\ WB!TypeOK

ConsumerInit == Init /\ WB!Init

-----------------------------------------------------------------------------

(* The handler: what the camera sent, muxed, goes to the buffer. A client  *)
(* that does not read blocks it.                                           *)
Handler == Output /\ WB!Write(item)

(* Connection.Stop has closed the sender.                                  *)
Stopped(c) == pc[c] \in {"wait", "returned"}

Stop(c) ==
    \/ (CloseLocks(c) \/ Close(c)) /\ UNCHANGED bufferVars
    \/ Stopped(c) /\ WB!Close(c) /\ UNCHANGED vars

Request == (WB!WriteToBegins \/ WB!WriteToReturns \/ WB!ClientGoes) /\ UNCHANGED vars

ConsumerNext ==
    \/ Handler
    \/ (Input \/ Take \/ WorkerEnds) /\ UNCHANGED bufferVars
    \/ \E c \in Starters : Start(c) /\ UNCHANGED bufferVars
    \/ \E c \in Closers : Stop(c) \/ (Wait(c) /\ UNCHANGED bufferVars)
    \/ Request

ConsumerSpec == ConsumerInit /\ [][ConsumerNext]_consumerVars

ConsumerFairSpec == ConsumerSpec /\ SenderFair /\ WB!BufferFair

-----------------------------------------------------------------------------
(* Properties.                                                             *)

(* The client and the buffer together hold what was handled, in order,     *)
(* nothing lost and nothing twice where the writer changes hands, up to    *)
(* the first error.                                                        *)
NothingLost ==
    /\ IsPrefix(client \o buffer, output)
    /\ ~err => client \o buffer = output

(* From the camera to the client, through the queue, the worker, the       *)
(* buffer and the change of the writer: the client gets packets the camera *)
(* has sent, in their order, and none twice, whatever is dropped.          *)
Stream == INSTANCE LossyDelivery WITH sent <- inputs, out <- client

ImplementsLossy == Stream!Spec

(* The goroutine of the request is released: see WriteBuffer.              *)
Released == WB!Released

RequestReturns == WB!RequestReturns
=============================================================================
