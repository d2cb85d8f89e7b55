---------------------------- MODULE WebrtcSignal -----------------------------
(***************************************************************************)
(* WebRTC over the WebSocket of the API: asyncHandler, asyncCandidates and *)
(* candidateHandler of internal/webrtc. The messages of the browser are    *)
(* handled each in a goroutine of its own, so the candidates that follow   *)
(* an offer may be handled before it. The candidates of this side come     *)
(* from a goroutine of the peer connection and wait for the answer with a  *)
(* Waiter. The browser, the peer connection and the stream are external.   *)
(***************************************************************************)
EXTENDS Integers, Sequences

CONSTANTS
    Remote,     \* candidates of the browser
    Local,      \* how many candidates this side gathers
    Config,     \* how many more its configuration has
    Faults      \* calls that may fail: "offer", "consumer", "answer"

ASSUME CountsAssumption == Local \in Nat /\ Config \in Nat
ASSUME FaultsAssumption == Faults \subseteq {"offer", "consumer", "answer"}

VARIABLES
    state, group, mu, pc,   \* sendAnswer
    handler,    \* asyncHandler's place
    result      \* what it returns
VARIABLES
    unread,     \* candidates whose handler has not run
    pending,    \* ctx["candidate"]
    conn,       \* whether ctx["webrtc"] is set
    added       \* how often AddCandidate was called for each candidate
VARIABLES
    gathering,  \* the peer connection gathers candidates
    gatherer,   \* its goroutine in the callback
    left,       \* candidates it has not sent
    out         \* what was written to the WebSocket

SendAnswer == INSTANCE Waiter WITH Callers <- {"handler", "gatherer", "reader"}

waiter == <<state, group, mu, pc>>
ctx == <<pending, conn, added>>
gather == <<gathering, gatherer, left>>
vars == <<waiter, handler, result, unread, ctx, gather, out>>

Init ==
    /\ SendAnswer!WaiterInit
    /\ handler = "begin" /\ result = "none"
    /\ unread = Remote /\ pending = {} /\ conn = FALSE
    /\ added = [c \in Remote |-> 0]
    /\ gathering = FALSE /\ gatherer = "idle" /\ left = Local
    /\ out = <<>>

HandlerGoes(from, to) == handler = from /\ handler' = to

-----------------------------------------------------------------------------
(* asyncHandler.                                                           *)

(* A call fails: its error is returned through the deferred Done.          *)
Fails(call, at) ==
    /\ call \in Faults
    /\ HandlerGoes(at, "deferred")
    /\ result' = "error"
    /\ UNCHANGED <<waiter, unread, ctx, out>>

SetOffer ==
    /\ HandlerGoes("begin", "consumer")
    /\ UNCHANGED <<waiter, result, unread, ctx, gather, out>>

AddConsumer ==
    /\ HandlerGoes("consumer", "answer")
    /\ UNCHANGED <<waiter, result, unread, ctx, gather, out>>

(* SetLocalDescription, in GetAnswer, makes the connection gather.         *)
GetAnswer ==
    /\ HandlerGoes("answer", "write")
    /\ gathering' = TRUE
    /\ UNCHANGED <<waiter, result, unread, ctx, gatherer, left, out>>

GetAnswerFails ==
    /\ Fails("answer", "answer")
    /\ gathering' \in BOOLEAN
    /\ UNCHANGED <<gatherer, left>>

WriteAnswer ==
    /\ HandlerGoes("write", "done")
    /\ out' = Append(out, "sdp")
    /\ UNCHANGED <<waiter, result, unread, ctx, gather>>

(* sendAnswer.Done(nil), in its two steps.                                 *)
Done(from, to) ==
    /\ \/ /\ handler = from /\ UNCHANGED handler
          /\ SendAnswer!DoneBegins("handler")
       \/ /\ HandlerGoes(from, to)
          /\ SendAnswer!DoneEnds("handler")
    /\ UNCHANGED <<result, unread, ctx, gather, out>>

(* Mutant: what was collected is forgotten.                                *)
FlushedMutant == {}

(* The candidates processed when the context gets the connection.          *)
Flushed == pending

(* asyncCandidates, with the candidates of the configuration.              *)
AsyncCandidates ==
    /\ HandlerGoes("flush", "deferred")
    /\ added' = [c \in Remote |-> IF c \in Flushed THEN added[c] + 1 ELSE added[c]]
    /\ pending' = {} /\ conn' = TRUE
    /\ out' = out \o [i \in 1..Config |-> "candidate"]
    /\ result' = "ok"
    /\ UNCHANGED <<waiter, unread, gather>>

(* Mutant: nothing is deferred.                                            *)
DeferredMutant ==
    /\ HandlerGoes("deferred", "out")
    /\ UNCHANGED <<waiter, result, unread, ctx, gather, out>>

Deferred == Done("deferred", "out")

AsyncHandler ==
    \/ Fails("offer", "begin") /\ UNCHANGED gather
    \/ SetOffer
    \/ Fails("consumer", "consumer") /\ UNCHANGED gather
    \/ AddConsumer
    \/ GetAnswer \/ GetAnswerFails
    \/ WriteAnswer
    \/ Done("done", "flush")
    \/ AsyncCandidates
    \/ Deferred

-----------------------------------------------------------------------------
(* candidateHandler.                                                       *)

Collects(c) == IF conn THEN pending ELSE pending \cup {c}

CandidateHandler(c) ==
    /\ c \in unread /\ unread' = unread \ {c}
    /\ added' = IF conn THEN [added EXCEPT ![c] = @ + 1] ELSE added
    /\ pending' = Collects(c)
    /\ UNCHANGED <<waiter, handler, result, conn, gather, out>>

-----------------------------------------------------------------------------
(* The callback of the peer connection for its own candidates.             *)

GathererGoes(from, to) == gatherer = from /\ gatherer' = to

Gathered ==
    /\ gathering /\ left > 0
    /\ GathererGoes("idle", "wait")
    /\ SendAnswer!WaitBegins("gatherer")
    /\ UNCHANGED <<handler, result, unread, ctx, gathering, left, out>>

(* Mutant: the candidate does not wait.                                    *)
AnsweredMutant == UNCHANGED waiter

Answered == SendAnswer!WaitReturns("gatherer")

GathererGoesOn ==
    /\ GathererGoes("wait", "send")
    /\ Answered
    /\ UNCHANGED <<handler, result, unread, ctx, gathering, left, out>>

SendCandidate ==
    /\ GathererGoes("send", "idle")
    /\ left' = left - 1
    /\ out' = Append(out, "candidate")
    /\ UNCHANGED <<waiter, handler, result, unread, ctx, gathering>>

Gatherer == Gathered \/ GathererGoesOn \/ SendCandidate

Signal == AsyncHandler \/ (\E c \in Remote : CandidateHandler(c)) \/ Gatherer

-----------------------------------------------------------------------------
(* Properties.                                                             *)

(* From the answer on, the connection has every candidate that was handled *)
(* before or after it, and each of them once.                              *)
OnceEach ==
    result = "ok" => \A c \in Remote : added[c] = IF c \in unread THEN 0 ELSE 1

(* Every candidate of the browser reaches the connection, once, in         *)
(* whatever order the candidates and the offer are handled.                *)
EveryCandidate == result = "ok" ~> [](\A c \in Remote : added[c] = 1)

(* "protect from blocking on errors": the goroutine of the peer connection *)
(* does not wait for ever, whatever fails.                                 *)
NobodyBlocks == gatherer = "wait" ~> gatherer # "wait"
=============================================================================
