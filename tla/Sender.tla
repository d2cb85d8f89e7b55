------------------------------- MODULE Sender --------------------------------
(***************************************************************************)
(* The Sender of pkg/core/track.go, between the goroutine that reads a     *)
(* camera and the one that writes to a client: a queue of fixed length in   *)
(* front of a worker. It is started and closed by anybody, more than once: *)
(* a consumer may be stopped by its request and by its stream.             *)
(* The handler of the packets is external, and may block on its client.    *)
(***************************************************************************)
EXTENDS Integers, Sequences

CONSTANTS
    Packets,    \* how many packets the camera sends
    BufSize,    \* the length of the queue: 4096, 64 or 128
    Starters,   \* goroutines that call Start
    Closers     \* goroutines that call Close, and then Wait

ASSUME PacketsAssumption == Packets \in Nat
ASSUME BufSizeAssumption == BufSize \in Nat \ {0}

None == "none"

(* The mutex tells them from Input, and from nobody.                        *)
ASSUME NamesAssumption == "input" \notin Closers /\ None \notin Closers

VARIABLES
    buf,        \* Sender.buf: nil once it is closed
    queue,      \* what the channel holds
    closed,     \* whether the channel is closed
    panics,     \* whether a closed channel was written to or closed again
    done,       \* Sender.done: nil, open or closed
    worker,     \* the goroutine of Start: none, idle, output or ended
    item,       \* the packet it outputs
    mu,         \* who holds the mutex
    packets,    \* Sender.Packets
    drops,      \* Sender.Drops
    inputs,     \* packets given to Input
    queued,     \* those that entered the queue
    output,     \* those that were handled to the end
    pc          \* the place of each starter and closer

chan == <<buf, queue, closed, panics>>
counts == <<packets, drops, inputs, queued>>
work == <<worker, item, output>>
vars == <<chan, done, work, mu, counts, pc>>

Callers == Starters \cup Closers

TypeOK ==
    /\ buf \in {"nil", "chan"}
    /\ queue \in Seq(1..Packets) /\ Len(queue) <= BufSize
    /\ closed \in BOOLEAN /\ panics \in BOOLEAN
    /\ done \in {"nil", "open", "closed"}
    /\ worker \in {None, "idle", "output", "ended"}
    /\ item \in 0..Packets
    /\ mu \in {None, "input"} \cup Callers
    /\ packets \in 0..Packets /\ drops \in 0..Packets /\ inputs \in 0..Packets
    /\ queued \in Seq(1..Packets) /\ output \in Seq(1..Packets)
    /\ pc \in [Callers -> {"begin", "locked", "wait", "returned"}]

Init ==
    /\ buf = "chan" /\ queue = <<>> /\ closed = FALSE /\ panics = FALSE
    /\ done = "nil" /\ worker = None /\ item = 0 /\ mu = None
    /\ packets = 0 /\ drops = 0 /\ inputs = 0 /\ queued = <<>> /\ output = <<>>
    /\ pc = [c \in Callers |-> "begin"]

Goes(c, from, to) == pc[c] = from /\ pc' = [pc EXCEPT ![c] = to]

-----------------------------------------------------------------------------
(* Input.                                                                  *)

InputLocks ==
    /\ mu = None /\ mu' = "input"
    /\ inputs < Packets /\ inputs' = inputs + 1
    /\ UNCHANGED <<chan, done, work, packets, drops, queued, pc>>

HasRoom == buf = "chan" /\ Len(queue) < BufSize

Enqueue ==
    /\ mu = "input" /\ mu' = None
    /\ HasRoom
    /\ queue' = IF closed THEN queue ELSE Append(queue, inputs)
    /\ queued' = IF closed THEN queued ELSE Append(queued, inputs)
    /\ panics' = (panics \/ closed)
    /\ packets' = packets + 1
    /\ UNCHANGED <<buf, closed, done, work, drops, inputs, pc>>

(* Mutant: a live sender waits for room.                                   *)
DefaultMutant == buf = "nil"

(* The case of the select that is taken when the queue takes nothing.      *)
Default == ~HasRoom

Drop ==
    /\ mu = "input" /\ mu' = None
    /\ Default
    /\ drops' = drops + 1
    /\ UNCHANGED <<chan, done, work, packets, inputs, queued, pc>>

-----------------------------------------------------------------------------
(* Start and its goroutine.                                                *)

(* Mutant: every Start starts a worker.                                    *)
MayStartMutant == buf # "nil"

MayStart == buf # "nil" /\ done = "nil"

Start(c) ==
    /\ mu = None
    /\ Goes(c, "begin", "returned")
    /\ IF MayStart
       THEN done' = "open" /\ worker' = "idle"
       ELSE UNCHANGED <<done, worker>>
    /\ UNCHANGED <<chan, item, output, mu, counts>>

Take ==
    /\ worker = "idle" /\ queue # <<>>
    /\ item' = Head(queue)
    /\ queue' = Tail(queue)
    /\ worker' = "output"
    /\ UNCHANGED <<buf, closed, panics, done, output, mu, counts, pc>>

(* Mutant: a packet may be handled a second time.                          *)
OutputMutant ==
    /\ worker = "output" /\ worker' \in {"idle", "output"}
    /\ output' = Append(output, item)
    /\ UNCHANGED <<chan, done, item, mu, counts, pc>>

Output ==
    /\ worker = "output" /\ worker' = "idle"
    /\ output' = Append(output, item)
    /\ UNCHANGED <<chan, done, item, mu, counts, pc>>

(* Mutant: the worker ends with the channel, whatever is left in it.       *)
EndsMutant == closed

(* The end of the range loop.                                              *)
Ends == closed /\ queue = <<>>

WorkerEnds ==
    /\ worker = "idle" /\ worker' = "ended"
    /\ Ends
    /\ done' = "closed"
    /\ UNCHANGED <<chan, item, output, mu, counts, pc>>

-----------------------------------------------------------------------------
(* Close and Wait.                                                         *)

CloseLocks(c) ==
    /\ mu = None /\ mu' = c
    /\ Goes(c, "begin", "locked")
    /\ UNCHANGED <<chan, done, work, counts>>

ClosedBuf == "nil"

Close(c) ==
    /\ mu = c /\ mu' = None
    /\ Goes(c, "locked", "wait")
    /\ IF buf = "chan"
       THEN closed' = TRUE /\ buf' = ClosedBuf /\ panics' = (panics \/ closed)
       ELSE UNCHANGED <<closed, buf, panics>>
    /\ UNCHANGED <<queue, done, work, counts>>

Wait(c) ==
    /\ done # "open"
    /\ Goes(c, "wait", "returned")
    /\ UNCHANGED <<chan, done, work, mu, counts>>

Input == InputLocks \/ Enqueue \/ Drop

Next ==
    \/ Input
    \/ \E c \in Starters : Start(c)
    \/ Take \/ Output \/ WorkerEnds
    \/ \E c \in Closers : CloseLocks(c) \/ Close(c) \/ Wait(c)

Spec == Init /\ [][Next]_vars

(* The mutex is fair, and whoever holds it goes on; the worker takes what  *)
(* is there, and the sender is started and closed. Nothing is assumed of   *)
(* the handler.                                                            *)
SenderFair ==
    /\ SF_vars(InputLocks) /\ WF_vars(Enqueue \/ Drop)
    /\ WF_vars(Take \/ WorkerEnds)
    /\ SF_vars(\E c \in Starters : Start(c))
    /\ SF_vars(\E c \in Closers : CloseLocks(c))
    /\ WF_vars(\E c \in Closers : Close(c) \/ Wait(c))

-----------------------------------------------------------------------------
(* Properties.                                                             *)

(* "write to closed chan - panic"                                          *)
NoPanic == ~panics

(* Packets are handled in the order they came, each once, and the queue     *)
(* holds the rest.                                                         *)
InOrder ==
    queued = output \o (IF worker = "output" THEN <<item>> ELSE <<>>) \o queue

(* Whatever was queued is handled before Wait returns, Close or not, if the *)
(* sender was started.                                                     *)
WaitDrains ==
    \A c \in Closers : pc[c] = "returned" /\ done = "closed" => output = queued

(* What the queue promises: all that it took is handled, once and in       *)
(* order, and before Wait returns.                                         *)
HandlesAll == InOrder /\ WaitDrains

(* A slow client does not hold up the camera: Input returns, also when the  *)
(* handler never does.                                                     *)
NeverBlocks == \A n \in 1..Packets : inputs = n - 1 ~> inputs >= n /\ mu # "input"
=============================================================================
