----------------------------- MODULE WriteBuffer -----------------------------
(***************************************************************************)
(* The WriteBuffer of pkg/core/writebuffer.go between the senders of a     *)
(* consumer and its client: what is written before the client is there is  *)
(* kept, WriteTo hands it over and holds the goroutine of the request      *)
(* until a Write fails or Close is called.                                 *)
(* The client is external: it may go away at any time.                     *)
(***************************************************************************)
EXTENDS Integers, Sequences

CONSTANTS
    Packets,    \* how many packets the senders write
    Closers     \* goroutines that call Close

VARIABLES
    writer,     \* WriteBuffer.Writer: the buffer or the client
    buffer,     \* what the buffer holds
    client,     \* what the client has got
    gone,       \* whether the client is gone, or its writer closed
    closable,   \* whether the client's writer is an io.Closer
    err,        \* whether WriteBuffer.err is set
    state,      \* none, start, end
    wg,         \* the counter of the WaitGroup
    writeTo,    \* the goroutine in WriteTo
    close       \* the goroutines in Close

data == <<buffer, client>>
wait == <<err, state, wg>>
bufferVars == <<writer, data, gone, closable, wait, writeTo, close>>

TypeOK ==
    /\ writer \in {"buffer", "client"}
    /\ buffer \in Seq(1..Packets) /\ client \in Seq(1..Packets)
    /\ gone \in BOOLEAN /\ closable \in BOOLEAN /\ err \in BOOLEAN
    /\ state \in {"none", "start", "end"}
    /\ wg = (IF state = "start" THEN 1 ELSE 0)
    /\ writeTo \in {"idle", "wait", "returned"}
    /\ close \in [Closers -> {"idle", "mutex", "writer", "returned"}]

Init ==
    /\ writer = "buffer" /\ buffer = <<>> /\ client = <<>>
    /\ gone = FALSE /\ closable = FALSE
    /\ err = FALSE /\ state = "none" /\ wg = 0
    /\ writeTo = "idle"
    /\ close = [c \in Closers |-> "idle"]

-----------------------------------------------------------------------------

done ==
    IF state = "start"
    THEN state' = "end" /\ wg' = wg - 1
    ELSE UNCHANGED <<state, wg>>

(* After an error nothing is written any more.                             *)
WriteAfterError ==
    /\ err
    /\ UNCHANGED <<data, wait>>

WriteToBuffer(packet) ==
    /\ ~err /\ writer = "buffer"
    /\ buffer' = Append(buffer, packet)
    /\ UNCHANGED <<client, wait>>

WriteToClient(packet) ==
    /\ ~err /\ writer = "client" /\ ~gone
    /\ client' = Append(client, packet)
    /\ UNCHANGED <<buffer, wait>>

Fails == err' = TRUE /\ done

WriteFails ==
    /\ ~err /\ writer = "client" /\ gone
    /\ Fails
    /\ UNCHANGED data

Write(packet) ==
    /\ WriteAfterError \/ WriteToBuffer(packet) \/ WriteToClient(packet) \/ WriteFails
    /\ UNCHANGED <<writer, gone, closable, writeTo, close>>

(* add                                                                     *)
Added == IF state = "none" THEN "start" ELSE state

(* Mutant: the client starts where it comes in.                            *)
HandedOverMutant == <<>>

(* What the client gets of the buffer.                                     *)
HandedOver == buffer

(* Reset, and the beginning of WriteTo: the writer changes hands in one     *)
(* critical section. A client that is gone may have got a part.            *)
Reset ==
    /\ writer' = "client"
    /\ IF gone /\ buffer # <<>>
       THEN /\ \E n \in 0..(Len(buffer) - 1) :
                   /\ client' = client \o SubSeq(buffer, 1, n)
                   /\ buffer' = SubSeq(buffer, n + 1, Len(buffer))
            /\ err' = TRUE
            /\ state' = IF Added = "start" THEN "end" ELSE Added
            /\ wg' = 0
       ELSE /\ client' = client \o HandedOver
            /\ buffer' = <<>>
            /\ state' = Added
            /\ wg' = IF state = "none" THEN wg + 1 ELSE wg
            /\ UNCHANGED err

WriteToBegins ==
    /\ writeTo = "idle" /\ writeTo' = "wait"
    /\ Reset
    /\ closable' \in BOOLEAN
    /\ UNCHANGED <<gone, close>>

WriteToReturns ==
    /\ writeTo = "wait" /\ wg = 0
    /\ writeTo' = "returned"
    /\ UNCHANGED <<writer, data, gone, closable, wait, close>>

CloseGoes(c, from, to) == close[c] = from /\ close' = [close EXCEPT ![c] = to]

(* Close looks at the writer without the mutex: one that can be closed is   *)
(* closed, and that is all.                                                *)
CloseLooks(c) ==
    /\ CloseGoes(c, "idle", IF writer = "client" /\ closable THEN "writer" ELSE "mutex")
    /\ UNCHANGED <<writer, data, gone, closable, wait, writeTo>>

CloseWriter(c) ==
    /\ CloseGoes(c, "writer", "returned")
    /\ gone' = TRUE
    /\ UNCHANGED <<writer, data, closable, wait, writeTo>>

(* Mutant: Close only marks the buffer.                                    *)
CloseDoneMutant(c) ==
    /\ CloseGoes(c, "mutex", "returned")
    /\ UNCHANGED <<writer, data, gone, closable, wait, writeTo>>

CloseDone(c) ==
    /\ CloseGoes(c, "mutex", "returned")
    /\ done
    /\ UNCHANGED <<writer, data, gone, closable, err, writeTo>>

Close(c) == CloseLooks(c) \/ CloseWriter(c) \/ CloseDone(c)

ClientGoes ==
    /\ ~gone /\ gone' = TRUE
    /\ UNCHANGED <<writer, data, closable, wait, writeTo, close>>

(* Calls that have begun go on; nobody has to write, to come or to close.  *)
BufferFair ==
    /\ WF_bufferVars(WriteToReturns)
    /\ WF_bufferVars(\E c \in Closers : CloseWriter(c) \/ CloseDone(c))

-----------------------------------------------------------------------------
(* Properties.                                                             *)

(* The request does not wait once there is an error, wherever that was met *)
(* and whoever closes meanwhile: done works once, and only after add.      *)
Released == err => wg = 0

(* WriteTo returns after a Write has failed "or Close will be called": the *)
(* critical section of a Close that comes after the beginning of WriteTo   *)
(* releases it.                                                            *)
RequestReturns ==
    /\ err /\ writeTo = "wait" ~> writeTo = "returned"
    /\ \A c \in Closers : close[c] = "mutex" /\ writeTo = "wait" ~> writeTo = "returned"
=============================================================================
