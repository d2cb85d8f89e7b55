---------------------------- MODULE WebrtcProofs -----------------------------
(***************************************************************************)
(* Proofs about WebrtcClient, for all its kinds of clients and the server, *)
(* and every number of candidates and messages.                            *)
(*                                                                         *)
(* DescriptionFirst: what a candidate waits for is not released before the *)
(* description is written, or can no longer be (Ready). Until then the     *)
(* Waiter counts the gatherer's wait (Held), and who calls Done has come   *)
(* past the write (Ordered). openipc's dialling goroutine does not write   *)
(* itself, and releases candidates when connState is finished: by then its *)
(* answer is written, or the call has failed for good (OpenInv).           *)
(*                                                                         *)
(* OkIsConnected: connState is finished by the last Done and keeps its     *)
(* error; who waits on it and finds nothing open finds it finished, unless *)
(* it comes into the middle of a Done, which is what torn records.         *)
(*                                                                         *)
(* OnceEach: see CandidatesInv. WaitsForSomeone: see WaiterInv.            *)
(***************************************************************************)
EXTENDS WebrtcClient, SequenceTheorems, TLAPS

-----------------------------------------------------------------------------
(* The invariant of the description.                                       *)

Described == \E j \in DOMAIN out : out[j] = "sdp"

Written == {"sdp", "candidate"}

(* openipc: the connection will not come up any more.                      *)
Ended == {"ends", "ended"}
Dead == ~seen /\ (peer # "new" \/ (reader \in Ended /\ ~Described))
Over == kind = "openipc" /\ returned # "none" /\ Dead

(* A candidate may go: it comes second, or nowhere, or to no avail.        *)
Ready == Described \/ (IF kind = "server" THEN result = "error" ELSE ~ws) \/ Over

InOrder ==
    \A i \in DOMAIN out : out[i] = "candidate" => \E j \in 1..(i - 1) : out[j] = "sdp"

Waits == {"server", "kinesis", "openipc", "ring"}

(* Where the dialling goroutine has not called Done.                       *)
Early == IF kind = "openipc" THEN {"begin", "wait", "waiting", "check", "fails"}
         ELSE {"begin", "write"}

Held ==
    /\ mu = "free" /\ state \in Nat /\ group = state
    /\ gatherer \in {"idle", "wait"}
    /\ gatherer = "wait" => state # 0

Ordered ==
    /\ reader = "answered" => Ready
    /\ kind \in Waits \ {"server"} /\ dial \notin Early => Ready
    /\ kind = "server" /\ handler \notin {"begin", "consumer", "answer", "write"} => Ready
    /\ kind = "server" /\ handler \notin {"deferred", "out"} => result = "none"

DescriptionInv ==
    /\ kind \in {"server", "go2rtc", "kinesis", "openipc", "ring"}
    /\ out \in Seq(Written)
    /\ Ordered
    /\ kind \in Waits /\ ~Ready => Held
    /\ kind # "go2rtc" => InOrder \/ (kind = "server" /\ result = "error") \/ Over

(* openipc: who finishes connState, and so lets the dialling goroutine go  *)
(* on, has seen the answer written, or the end of the call.                *)
Settled == Described \/ ~ws \/ Dead
Finished == cMu # "free" \/ cState = -1 \/ dial \in {"check", "fails"} \/ returned # "none"

OpenPlaces ==
    /\ dial \in {"begin", "wait", "waiting", "check", "fails", "deferred", "close", "out"}
    /\ dial = "begin" => reader = "off"
    /\ dial \in {"deferred", "close", "out"} => returned # "none"

OpenInv ==
    kind = "openipc" =>
        /\ out \in Seq(Written) /\ OpenPlaces
        /\ seen => Described
        /\ events # {} \/ event # "none" => seen \/ peer # "new"
        /\ gatherer = "failed" => ~ws
        /\ Finished => Settled

-----------------------------------------------------------------------------
(* The invariant of what is returned.                                      *)

(* The two counters of connState move together, and are at rest when       *)
(* nobody is in the middle of Done. It is finished without an error only   *)
(* by a connection that is up.                                             *)
Counted ==
    /\ cState \in Nat \cup {-1}
    /\ cGroup = (IF cState = -1 THEN 0 ELSE cState)
    /\ cPc \in [{"dial", "gatherer", "reader", "events"} -> {"out", "waiting", "done"}]
    /\ cMu = "free" /\ cPc["dial"] = "waiting" => cState # 0
    /\ cState = -1 /\ cErr = "nil" => seen

(* What the goroutines are about to report, and what the dialling one has  *)
(* read.                                                                   *)
Reported ==
    /\ event = "connected" \/ "connected" \in events => seen
    /\ reader = "ends" => told = "error"
    /\ ~torn /\ dial = "check" /\ err = "nil" => seen
    /\ ~torn /\ dial = "fails" => err # "nil"

ReturnInv == Counted /\ Reported /\ OkIsConnected

-----------------------------------------------------------------------------
(* The invariant of the browser's candidates: before the context has the   *)
(* connection it collects all that are handled, and it gets one only once. *)

CandidatesInv ==
    /\ result = "ok" => conn
    /\ conn => handler \in {"deferred", "out"} /\ pending = {}
    /\ ~conn => pending = Remote \ unread
    /\ added = [c \in Remote |-> IF conn /\ c \notin unread THEN 1 ELSE 0]

-----------------------------------------------------------------------------
(* The invariant of sendAnswer: it counts one task at most, and the last   *)
(* Done of a call, which is deferred, finishes it for good.                *)

WaiterInv ==
    /\ state \in {-1, 0, 1} /\ group = (IF state = -1 THEN 0 ELSE state)
    /\ mu # "free" => state # 1
    /\ gatherer = "wait" => kind # "go2rtc"
    /\ kind = "server" /\ handler = "out" => state = -1
    /\ kind \notin {"server", "go2rtc"} /\ dial \in {"close", "out"} => state = -1

-----------------------------------------------------------------------------
(* What is written is kept, and comes after what was written.              *)

LEMMA WritesOne ==
    ASSUME out \in Seq(Written), NEW e \in Written, out' = Append(out, e)
    PROVE  /\ out' \in Seq(Written)
           /\ Described \/ e = "sdp" => Described'
           /\ InOrder /\ (Described \/ e = "sdp") => InOrder'
  <1>1. /\ out' \in Seq(Written) /\ Len(out) \in Nat /\ DOMAIN out = 1..Len(out)
        /\ DOMAIN out' = 1..(Len(out) + 1)
        /\ out'[Len(out) + 1] = e /\ \A i \in 1..Len(out) : out'[i] = out[i]
    BY AppendProperties, LenProperties
  <1>2. Described \/ e = "sdp" => Described'
    <2>1. Len(out) + 1 \in DOMAIN out' /\ DOMAIN out \subseteq DOMAIN out'
      BY <1>1
    <2>2. QED
      BY <1>1, <2>1 DEF Described
  <1>3. ASSUME InOrder, Described \/ e = "sdp", NEW i \in DOMAIN out', out'[i] = "candidate"
        PROVE  \E j \in 1..(i - 1) : out'[j] = "sdp"
    <2>1. CASE i \in DOMAIN out
      <3>1. PICK j \in 1..(i - 1) : out[j] = "sdp"
        BY <1>1, <1>3, <2>1 DEF InOrder
      <3>2. j \in 1..Len(out)
        BY <1>1, <2>1, <3>1
      <3>3. QED
        BY <1>1, <3>1, <3>2
    <2>2. CASE i = Len(out) + 1
      <3>1. PICK j \in DOMAIN out : out[j] = "sdp"
        BY <1>1, <1>3, <2>2 DEF Described
      <3>2. j \in 1..(i - 1) /\ out'[j] = "sdp"
        BY <1>1, <2>2, <3>1
      <3>3. QED
        BY <3>2
    <2>3. QED
      BY <1>1, <1>3, <2>1, <2>2
  <1>4. QED
    BY <1>1, <1>2, <1>3 DEF InOrder

LEMMA WritesAll ==
    ASSUME out \in Seq(Written), out' = out \o [i \in 1..Config |-> "candidate"], Described
    PROVE  /\ out' \in Seq(Written) /\ Described' /\ (InOrder => InOrder')
  <1> DEFINE more == [i \in 1..Config |-> "candidate"]
  <1>1. more \in Seq(Written) /\ Len(more) = Config /\ Config \in Nat
    <2>1. Config \in Nat
      BY CountsAssumption
    <2>2. more \in [1..Config -> Written] /\ DOMAIN more = 1..Config
      BY DEF Written
    <2>3. more \in Seq(Written)
      BY <2>1, <2>2, SeqDef
    <2>4. QED
      BY <2>1, <2>2, <2>3, LenProperties
  <1> HIDE DEF more
  <1>2. out' = out \o more
    BY DEF more
  <1>3. /\ out' \in Seq(Written) /\ Len(out) \in Nat /\ DOMAIN out = 1..Len(out)
        /\ DOMAIN out' = 1..(Len(out) + Config)
        /\ \A i \in 1..Len(out) : out'[i] = out[i]
    <2>1. /\ out' \in Seq(Written) /\ Len(out') = Len(out) + Config /\ Len(out) \in Nat
          /\ \A i \in 1..(Len(out) + Config) :
                out'[i] = IF i <= Len(out) THEN out[i] ELSE more[i - Len(out)]
      BY <1>1, <1>2, ConcatProperties, LenProperties
    <2>2. DOMAIN out = 1..Len(out) /\ DOMAIN out' = 1..(Len(out) + Config)
      BY <2>1, LenProperties
    <2>3. \A i \in 1..Len(out) : out'[i] = out[i]
      BY <1>1, <2>1
    <2>4. QED
      BY <2>1, <2>2, <2>3
  <1>4. PICK d \in 1..Len(out) : out[d] = "sdp"
    BY <1>3 DEF Described
  <1>5. d \in DOMAIN out' /\ out'[d] = "sdp"
    BY <1>1, <1>3, <1>4
  <1>6. ASSUME InOrder, NEW i \in DOMAIN out', out'[i] = "candidate"
        PROVE  \E j \in 1..(i - 1) : out'[j] = "sdp"
    <2>1. CASE i \in DOMAIN out
      <3>1. PICK j \in 1..(i - 1) : out[j] = "sdp"
        BY <1>3, <1>6, <2>1 DEF InOrder
      <3>2. j \in 1..Len(out)
        BY <1>3, <2>1, <3>1
      <3>3. QED
        BY <1>3, <3>1, <3>2
    <2>2. CASE i \notin DOMAIN out
      <3>1. d \in 1..(i - 1)
        BY <1>1, <1>3, <1>4, <1>6, <2>2
      <3>2. QED
        BY <1>5, <3>1
    <2>3. QED
      BY <2>1, <2>2
  <1>7. QED
    BY <1>3, <1>5, <1>6 DEF InOrder, Described

-----------------------------------------------------------------------------
(* connState.                                                              *)

(* A Done, of which only the last has a say.                               *)
LEMMA ConnDone ==
    ASSUME Counted, NEW c \in {"gatherer", "reader", "events"}, NEW e,
           \/ ConnState!DoneBegins(c) /\ UNCHANGED cErr
           \/ ConnDoneEnds(c, e),
           e = "nil" => seen, seen => seen'
    PROVE  Counted'
  <1>1. CASE ConnState!DoneBegins(c) /\ UNCHANGED cErr
    <2>1. cPc' = [cPc EXCEPT ![c] = "done"] /\ cMu' = c /\ cMu' # "free"
      BY <1>1 DEF ConnState!DoneBegins, ConnState!Goes
    <2>2. /\ cState' \in Nat \cup {-1} /\ cGroup' = (IF cState' = -1 THEN 0 ELSE cState')
          /\ cState' = -1 => cState = -1
      BY <1>1 DEF Counted, ConnState!DoneBegins, ConnState!Count
    <2>3. QED
      BY <1>1, <2>1, <2>2 DEF Counted
  <1>2. CASE ConnDoneEnds(c, e)
    <2>1. /\ cPc' = [cPc EXCEPT ![c] = "out"] /\ cGroup' = cGroup
          /\ cState' = IF cState = 0 THEN -1 ELSE cState
          /\ cErr' = IF cState = 0 THEN e ELSE cErr
      BY <1>2 DEF ConnDoneEnds, ConnState!DoneEnds, ConnState!Goes, ConnState!Finish
    <2>2. QED
      BY <2>1 DEF Counted
  <1>3. QED
    BY <1>1, <1>2

LEMMA ConnRests ==
    ASSUME Counted, UNCHANGED connState, seen => seen'
    PROVE  Counted'
  BY DEF Counted, connState

(* Nothing is reported that is not so, and what the dialling goroutine     *)
(* has read stays: or the change is noticed as torn.                       *)
LEMMA StaysReported ==
    ASSUME Reported, OkIsConnected, seen => seen',
           event' = "connected" \/ "connected" \in events' =>
                seen' \/ event = "connected" \/ "connected" \in events,
           reader' = "ends" => told' = "error",
           torn => torn',
           dial' \in {"check", "fails"} => dial' = dial /\ (err' = err \/ torn'),
           returned' \in {returned, "error"}
    PROVE  Reported' /\ OkIsConnected'
  BY DEF Reported, OkIsConnected

(* The dialling goroutine.                                                 *)
LEMMA DialReports ==
    ASSUME ReturnInv, Dial
    PROVE  ReturnInv'
  <1> USE DEF ReturnInv, Dialling, DialGoes, Return, history, connState
  <1>1. CASE Wait
    <2>1. UNCHANGED <<seen, torn, event, events, reader, told, err, returned, cErr>> /\ dial' = "waiting"
      BY <1>1 DEF Wait, pion
    <2>2. Reported' /\ OkIsConnected'
      BY <2>1, StaysReported DEF Reported
    <2>3. /\ cPc' = [cPc EXCEPT !["dial"] = "waiting"] /\ cMu' = cMu /\ cMu = "free"
          /\ \/ cState = 0 /\ cState' = cState + 1 /\ cGroup' = cGroup + 1
             \/ cState # 0 /\ UNCHANGED <<cState, cGroup>>
      BY <1>1 DEF Wait, ConnState!WaitBegins, ConnState!Goes, ConnState!Starts, ConnState!Free
    <2>4. Counted'
      BY <2>1, <2>3 DEF Counted
    <2>5. QED
      BY <2>2, <2>4
  <1>2. CASE WaitReturns
    <2>1. /\ UNCHANGED <<seen, event, events, reader, told, returned, cErr, cState, cGroup, cMu>>
          /\ dial' = "check" /\ err' = cErr /\ torn' = (torn \/ cMu # "free")
          /\ cGroup = 0 /\ cPc["dial"] = "waiting" /\ cPc' = [cPc EXCEPT !["dial"] = "out"]
      BY <1>2 DEF WaitReturns, pion, ConnState!WaitReturns, ConnState!Goes
    <2>2. Counted'
      BY <2>1 DEF Counted
    <2>3. cMu = "free" => cState = -1
      BY <2>1 DEF Counted
    <2>4. ~torn' /\ err' = "nil" => seen
      BY <2>1, <2>3 DEF Counted
    <2>5. Reported' /\ OkIsConnected'
      BY <2>1, <2>4 DEF Reported, OkIsConnected
    <2>6. QED
      BY <2>2, <2>5
  <1>3. CASE Check \/ Fail
    <2>1. Counted'
      BY <1>3, ConnRests DEF Check, Fail
    <2>2. UNCHANGED <<seen, torn, event, events, reader, told, err>>
      BY <1>3 DEF Check, Fail, pion
    <2>3. Reported' /\ OkIsConnected'
      BY <1>3, <2>2 DEF Check, Fail, Reported, OkIsConnected
    <2>4. QED
      BY <2>1, <2>3
  <1>4. CASE \/ CreateOffer \/ SendOffer \/ SendOfferFails \/ OfferSent
             \/ ReadAnswer \/ ReadAnswerFails \/ DeferredDone \/ DeferredClose
    <2>1. /\ UNCHANGED <<connState, seen, torn, event, told>>
          /\ returned' \in {returned, "error"} /\ (reader' = "ends" => reader = "ends")
      BY <1>4 DEF CreateOffer, SendOffer, SendOfferFails, OfferSent,
                  ReadAnswer, ReadAnswerFails, DeferredDone, DeferredClose
    <2>2. dial' \in {"check", "fails"} => dial' = dial /\ err' = err
      BY <1>4 DEF CreateOffer, SendOffer, SendOfferFails, OfferSent,
                  ReadAnswer, ReadAnswerFails, DeferredDone, DeferredClose
    <2>3. "connected" \in events' => "connected" \in events
      BY <1>4 DEF CreateOffer, SendOffer, SendOfferFails, OfferSent,
                  ReadAnswer, ReadAnswerFails, DeferredDone, DeferredClose, pion, Stop, ClosePeer
    <2>4. Reported' /\ OkIsConnected'
      BY <2>1, <2>2, <2>3, StaysReported DEF Reported
    <2>5. QED
      BY <2>1, <2>4, ConnRests
  <1>5. QED
    BY <1>1, <1>2, <1>3, <1>4 DEF Dial

(* The reader: what it passes on is an error.                              *)
LEMMA ReaderReports ==
    ASSUME ReturnInv, Reader
    PROVE  ReturnInv'
  <1> USE DEF ReturnInv, Reading, ReaderGoes
  <1>1. UNCHANGED <<dial, err, returned, event, torn, seen>>
    BY DEF Reader, GetAnswerMsg, GetOffer, AnswerOffer, AnswerSent, GetBad, GetBuggy, ReadJSONFails, ReaderDone
  <1>2. "connected" \in events' => "connected" \in events
    BY DEF Reader, GetAnswerMsg, GetOffer, AnswerOffer, AnswerSent, GetBad, GetBuggy, ReadJSONFails, ReaderDone,
           pion, Stop, ClosePeer
  <1>3. reader' = "ends" => told' = "error"
    <2>1. CASE GetAnswerMsg \/ GetOffer \/ AnswerOffer \/ AnswerSent
      BY <2>1 DEF GetAnswerMsg, GetOffer, AnswerOffer, AnswerSent, Takes, Reported
    <2>2. CASE GetBad
      BY <2>2 DEF GetBad, Takes
    <2>3. CASE GetBuggy \/ ReadJSONFails \/ ReaderDone
      BY <2>3 DEF GetBuggy, ReadJSONFails, ReaderDone, Takes, Reported
    <2>4. QED
      BY <2>1, <2>2, <2>3 DEF Reader
  <1>4. Reported' /\ OkIsConnected'
    BY <1>1, <1>2, <1>3, StaysReported
  <1>5. Counted'
    <2>1. CASE ReaderDone
      <3>1. /\ reader = "ends" /\ told = "error"
            /\ \/ ConnState!DoneBegins("reader") /\ UNCHANGED cErr
               \/ ConnDoneEnds("reader", told)
        BY <2>1 DEF ReaderDone, Reported
      <3>2. QED
        BY <1>1, <3>1, ConnDone
    <2>2. CASE ~ReaderDone
      <3>1. UNCHANGED connState
        BY <2>2 DEF Reader, GetAnswerMsg, GetOffer, AnswerOffer, AnswerSent, GetBad, GetBuggy, ReadJSONFails
      <3>2. QED
        BY <1>1, <3>1, ConnRests
    <2>3. QED
      BY <2>1, <2>2
  <1>6. QED
    BY <1>4, <1>5

(* The callback for candidates, which assigns the err of the other.        *)
LEMMA GathererReports ==
    ASSUME ReturnInv, ClientGatherer
    PROVE  ReturnInv'
  <1> USE DEF ReturnInv, Calling
  <1>1. /\ UNCHANGED <<dial, returned, event, events, seen, reader, told>>
    BY DEF ClientGatherer, ClientGathered, ClientGoesOn, ClientSends, ClientSendFails, ClientSendDone
  <1>2. (torn => torn') /\ (dial \in {"check", "fails"} => err' = err \/ torn')
    <2>1. UNCHANGED <<err, torn>> \/ \E e : Assigns(e)
      BY DEF ClientGatherer, ClientGathered, ClientGoesOn, ClientSends, ClientSendFails, ClientSendDone
    <2>2. ASSUME NEW e, Assigns(e) PROVE torn => torn'
      BY <2>2 DEF Assigns
    <2>3. ASSUME NEW e, Assigns(e), dial \in {"check", "fails"}, err' # err PROVE torn'
      BY <2>3 DEF Assigns
    <2>4. QED
      BY <2>1, <2>2, <2>3
  <1>3. Reported' /\ OkIsConnected'
    BY <1>1, <1>2, StaysReported DEF Reported
  <1>4. Counted'
    <2>1. CASE ClientSendDone
      <3>1. \/ ConnState!DoneBegins("gatherer") /\ UNCHANGED cErr
            \/ ConnDoneEnds("gatherer", "error")
        BY <2>1 DEF ClientSendDone
      <3>2. QED
        BY <1>1, <3>1, ConnDone
    <2>2. CASE ~ClientSendDone
      <3>1. UNCHANGED connState
        BY <2>2 DEF ClientGatherer, ClientGathered, ClientGoesOn, ClientSends, ClientSendFails
      <3>2. QED
        BY <1>1, <3>1, ConnRests
    <2>3. QED
      BY <2>1, <2>2
  <1>5. QED
    BY <1>3, <1>4

LEMMA EventsReport ==
    ASSUME ReturnInv, Events
    PROVE  ReturnInv'
  <1> USE DEF ReturnInv, Calling, Handling
  <1>1. UNCHANGED <<dial, err, returned, torn, seen, reader, told>>
    BY DEF Events, EventBegins, EventDone
  <1>2. event' = "connected" \/ "connected" \in events' => event = "connected" \/ "connected" \in events
    BY DEF Events, EventBegins, EventDone
  <1>3. Reported' /\ OkIsConnected'
    BY <1>1, <1>2, StaysReported DEF Reported
  <1>4. Outcome = "nil" => seen
    BY DEF Outcome, Reported
  <1>5. \/ ConnState!DoneBegins("events") /\ UNCHANGED cErr
        \/ ConnDoneEnds("events", Outcome)
    BY DEF Events, EventBegins, EventDone
  <1>6. Counted'
    BY <1>1, <1>4, <1>5, ConnDone
  <1>7. QED
    BY <1>3, <1>6

LEMMA OutsideReports ==
    ASSUME ReturnInv,
           ServerSends \/ ServerIsBuggy \/ ServerCloses \/ PeerEnds \/ PeerDrops \/ Signalling
                \/ UNCHANGED clientVars
    PROVE  ReturnInv'
  <1> USE DEF ReturnInv
  <1>1. UNCHANGED <<connState, dial, err, returned, event, torn, reader, told>> /\ (seen => seen')
    <2>1. UNCHANGED <<connState, dial, err, returned, event, torn, reader, told>>
      BY DEF ServerSends, ServerIsBuggy, ServerCloses, PeerEnds, PeerDrops, PeerGoes, Outside,
             Signalling, clientVars, history
    <2>2. UNCHANGED seen \/ \E to : PeerGoes(to)
      BY DEF ServerSends, ServerIsBuggy, ServerCloses, PeerEnds, PeerDrops,
             Signalling, clientVars, history
    <2>3. ASSUME NEW to, PeerGoes(to) PROVE seen => seen'
      BY <2>3 DEF PeerGoes
    <2>4. QED
      BY <2>1, <2>2, <2>3
  <1>2. "connected" \in events' => "connected" \in events \/ seen'
    BY DEF ServerSends, ServerIsBuggy, ServerCloses, PeerEnds, PeerDrops, PeerGoes, Outside,
           Signalling, clientVars, pion
  <1>3. Reported' /\ OkIsConnected'
    BY <1>1, <1>2, StaysReported DEF Reported
  <1>4. QED
    BY <1>1, <1>3, ConnRests

LEMMA ReturnInvariant == ClientSpec => []ReturnInv
  <1>1. ClientInit => ReturnInv
    BY DEF ClientInit, ConnState!WaiterInit, ConnState!Free, ReturnInv, Counted, Reported, OkIsConnected
  <1>2. ReturnInv /\ [ClientNext]_clientVars => ReturnInv'
    BY DialReports, ReaderReports, GathererReports, EventsReport, OutsideReports
       DEF ClientNext, Clients
  <1>3. QED
    BY <1>1, <1>2, PTL DEF ClientSpec

(* A client's call returns a connection only when it has been up, and an   *)
(* error when there was one, whichever of its goroutines calls Done on     *)
(* connState first and whatever fails; unless the error was read while     *)
(* another goroutine assigned it.                                          *)
THEOREM ReturnsAreTrue == ClientSpec => []OkIsConnected
  <1>1. ReturnInv => OkIsConnected
    BY DEF ReturnInv
  <1>2. QED
    BY <1>1, ReturnInvariant, PTL

-----------------------------------------------------------------------------
(* openipc. What no step undoes, and what a step may do.                   *)

OpenMoves ==
    /\ kind' = kind /\ (Described => Described') /\ (ws' => ws)
    /\ seen' => seen \/ (peer = "new" /\ Described)
    /\ peer' = "new" => peer = "new"
    /\ reader \in Ended /\ ~Described => reader' \in Ended /\ ~Described'
    /\ returned # "none" => returned' # "none"

LEMMA OpenStays ==
    ASSUME OpenMoves, kind = "openipc"
    PROVE  (Dead => Dead') /\ (Over => Over') /\ (Settled => Settled')
  BY DEF OpenMoves, Dead, Over, Settled

LEMMA OpenKeeps ==
    ASSUME OpenInv, OpenMoves, kind = "openipc",
           out' \in Seq(Written), OpenPlaces',
           events' # {} \/ event' # "none" => seen' \/ peer' # "new",
           gatherer' = "failed" => gatherer = "failed" \/ ~ws,
           Finished' => Finished \/ Settled
    PROVE  OpenInv'
  <1>1. Settled => Settled'
    BY OpenStays
  <1>2. seen' => Described'
    BY DEF OpenInv, OpenMoves
  <1>3. QED
    BY <1>1, <1>2 DEF OpenInv, OpenMoves

(* Who calls Done on connState.                                            *)
LEMMA WhoFinishes ==
    ASSUME OpenInv, kind = "openipc"
    PROVE  /\ gatherer = "failed" => Settled
           /\ reader \in Ended => Settled
           /\ events # {} \/ event # "none" => Settled
  BY DEF OpenInv, Settled, Dead

LEMMA OpenDial ==
    ASSUME OpenInv, Counted, kind = "openipc", Dial
    PROVE  OpenMoves /\ OpenInv'
  <1> USE DEF Dialling, DialGoes, Return, server, gather
  <1>1. CreateOffer \/ Wait \/ WaitReturns \/ Check \/ Fail \/ DeferredDone \/ DeferredClose
    BY DEF Dial, SendOffer, SendOfferFails, OfferSent, ReadAnswer, ReadAnswerFails, OpenInv, OpenPlaces
  <1>2. UNCHANGED <<kind, out, seen, pion, event, gatherer>>
    BY <1>1 DEF CreateOffer, Wait, WaitReturns, Check, Fail, DeferredDone, DeferredClose, history
  <1>3. Described' = Described
    BY <1>2 DEF Described
  <1>4. ws' => ws
    BY <1>1 DEF CreateOffer, Wait, WaitReturns, Check, Fail, DeferredDone, DeferredClose
  <1>5. /\ reader' = reader \/ (dial = "begin" /\ dial' = "wait")
        /\ dial' # "begin"
    BY <1>1 DEF CreateOffer, Wait, WaitReturns, Check, Fail, DeferredDone, DeferredClose
  <1>6. returned # "none" => returned' # "none"
    BY <1>1 DEF CreateOffer, Wait, WaitReturns, Check, Fail, DeferredDone, DeferredClose
  <1>7. OpenMoves
    BY <1>2, <1>3, <1>4, <1>5, <1>6 DEF OpenMoves, OpenInv, OpenPlaces, Ended, pion
  <1>8. OpenPlaces'
    BY <1>1, <1>5 DEF OpenInv, OpenPlaces, CreateOffer, Wait, WaitReturns, Check, Fail,
           DeferredDone, DeferredClose
  <1>9. Finished' => Finished \/ Settled
    <2>1. CASE Wait
      <3>1. cMu = "free" /\ cMu' = cMu /\ (cState' = cState \/ cState' = cState + 1)
            /\ dial' = "waiting" /\ returned' = returned
        BY <2>1 DEF Wait, ConnState!WaitBegins, ConnState!Starts, ConnState!Free
      <3>2. cState' = -1 => cState = -1
        BY <3>1 DEF Counted, Wait, ConnState!WaitBegins, ConnState!Starts
      <3>3. QED
        BY <3>1, <3>2 DEF Finished
    <2>2. CASE WaitReturns
      <3>1. cGroup = 0 /\ cPc["dial"] = "waiting"
        BY <2>2 DEF WaitReturns, ConnState!WaitReturns, ConnState!Goes
      <3>2. cMu # "free" \/ cState = -1
        BY <3>1 DEF Counted
      <3>3. QED
        BY <3>2 DEF Finished
    <2>3. CASE Check \/ Fail
      BY <2>3 DEF Check, Fail, Finished
    <2>4. CASE CreateOffer \/ DeferredDone \/ DeferredClose
      BY <2>4 DEF CreateOffer, DeferredDone, DeferredClose, Finished, connState
    <2>5. QED
      BY <1>1, <2>1, <2>2, <2>3, <2>4
  <1>10. OpenInv'
    BY <1>2, <1>7, <1>8, <1>9, OpenKeeps DEF OpenInv, pion
  <1>11. QED
    BY <1>7, <1>10

LEMMA OpenReader ==
    ASSUME OpenInv, kind = "openipc", Reader
    PROVE  OpenMoves /\ OpenInv'
  <1> USE DEF Reading, ReaderGoes, server, gather
  <1>1. UNCHANGED <<kind, dial, returned, event, seen, gatherer, peer, events, ws>>
    BY DEF Reader, GetAnswerMsg, GetOffer, AnswerOffer, AnswerSent, GetBad, GetBuggy, ReadJSONFails,
           ReaderDone, pion
  <1>2. out' = out \/ (out' = Append(out, "sdp") /\ reader = "offered")
    BY DEF Reader, GetAnswerMsg, GetOffer, AnswerOffer, AnswerSent, GetBad, GetBuggy, ReadJSONFails,
           ReaderDone
  <1>3. out' \in Seq(Written) /\ (Described => Described')
    <2>1. "sdp" \in Written
      BY DEF Written
    <2>2. QED
      BY <1>2, <2>1, WritesOne DEF OpenInv, Described
  <1>4. reader \in Ended => out' = out /\ reader' \in Ended
    BY DEF Reader, GetAnswerMsg, GetOffer, AnswerOffer, AnswerSent, GetBad, GetBuggy, ReadJSONFails,
           ReaderDone, Takes, Ended
  <1>5. reader # "off"
    BY DEF Reader, GetAnswerMsg, GetOffer, AnswerOffer, AnswerSent, GetBad, GetBuggy, ReadJSONFails,
           ReaderDone, Takes
  <1>6. OpenMoves
    BY <1>1, <1>3, <1>4 DEF OpenMoves, Described
  <1>7. Finished' => Finished \/ Settled
    <2>1. CASE ReaderDone
      BY <2>1, WhoFinishes DEF ReaderDone, Ended
    <2>2. CASE ~ReaderDone
      <3>1. UNCHANGED connState
        BY <2>2 DEF Reader, GetAnswerMsg, GetOffer, AnswerOffer, AnswerSent, GetBad, GetBuggy, ReadJSONFails
      <3>2. QED
        BY <1>1, <3>1 DEF Finished, connState
    <2>3. QED
      BY <2>1, <2>2
  <1>8. QED
    BY <1>1, <1>3, <1>5, <1>6, <1>7, OpenKeeps DEF OpenInv, OpenPlaces

LEMMA OpenGatherer ==
    ASSUME OpenInv, kind = "openipc", ClientGatherer
    PROVE  OpenMoves /\ OpenInv'
  <1> USE DEF Calling, GathererGoes, server
  <1>1. UNCHANGED <<kind, dial, returned, reader, seen, peer, event, events, ws>>
    BY DEF ClientGatherer, ClientGathered, ClientGoesOn, ClientSends, ClientSendFails, ClientSendDone
  <1>2. out' = out \/ out' = Append(out, "candidate")
    BY DEF ClientGatherer, ClientGathered, ClientGoesOn, ClientSends, ClientSendFails, ClientSendDone
  <1>3. out' \in Seq(Written) /\ (Described' <=> Described)
    <2>1. CASE out' = out
      BY <2>1 DEF OpenInv, Described
    <2>2. CASE out' = Append(out, "candidate")
      <3>1. "candidate" \in Written
        BY DEF Written
      <3>2. out' \in Seq(Written) /\ (Described => Described')
        BY <2>2, <3>1, WritesOne DEF OpenInv
      <3>3. ASSUME NEW j \in DOMAIN out', out'[j] = "sdp" PROVE Described
        <4>1. /\ Len(out) \in Nat /\ DOMAIN out = 1..Len(out) /\ DOMAIN out' = 1..(Len(out) + 1)
              /\ out'[Len(out) + 1] = "candidate" /\ \A i \in 1..Len(out) : out'[i] = out[i]
          BY <2>2, <3>1, AppendProperties, LenProperties DEF OpenInv
        <4>2. j \in DOMAIN out /\ out[j] = "sdp"
          BY <3>3, <4>1
        <4>3. QED
          BY <4>2 DEF Described
      <3>4. QED
        BY <3>2, <3>3 DEF Described
    <2>3. QED
      BY <1>2, <2>1, <2>2
  <1>4. OpenMoves
    BY <1>1, <1>3 DEF OpenMoves
  <1>5. gatherer' = "failed" => gatherer = "failed" \/ ~ws
    BY DEF ClientGatherer, ClientGathered, ClientGoesOn, ClientSends, ClientSendFails, ClientSendDone
  <1>6. Finished' => Finished \/ Settled
    <2>1. CASE ClientSendDone
      BY <2>1, WhoFinishes DEF ClientSendDone
    <2>2. CASE ~ClientSendDone
      <3>1. UNCHANGED connState
        BY <2>2 DEF ClientGatherer, ClientGathered, ClientGoesOn, ClientSends, ClientSendFails
      <3>2. QED
        BY <1>1, <3>1 DEF Finished, connState
    <2>3. QED
      BY <2>1, <2>2
  <1>7. QED
    BY <1>1, <1>3, <1>4, <1>5, <1>6, OpenKeeps DEF OpenInv, OpenPlaces

LEMMA OpenEvents ==
    ASSUME OpenInv, kind = "openipc", Events
    PROVE  OpenMoves /\ OpenInv'
  <1> USE DEF Calling, Handling, server
  <1>1. UNCHANGED <<kind, dial, returned, reader, seen, out, ws, gatherer>>
    BY DEF Events, EventBegins, EventDone
  <1>2. /\ peer' = "new" => peer = "new"
        /\ events' # {} \/ event' # "none" => seen' \/ peer' # "new"
    BY <1>1 DEF Events, EventBegins, EventDone, OpenInv
  <1>3. Described' = Described
    BY <1>1 DEF Described
  <1>4. events # {} \/ event # "none"
    BY DEF Events, EventBegins, EventDone
  <1>5. OpenMoves
    BY <1>1, <1>2, <1>3 DEF OpenMoves
  <1>6. Settled
    BY <1>4, WhoFinishes
  <1>7. QED
    BY <1>1, <1>2, <1>5, <1>6, OpenKeeps DEF OpenInv, OpenPlaces

LEMMA OpenOutside ==
    ASSUME OpenInv, kind = "openipc",
           ServerSends \/ ServerIsBuggy \/ ServerCloses \/ PeerEnds \/ PeerDrops \/ UNCHANGED clientVars
    PROVE  OpenMoves /\ OpenInv'
  <1>1. UNCHANGED <<kind, dial, returned, reader, out, gatherer, connState, event>>
    BY DEF ServerSends, ServerIsBuggy, ServerCloses, PeerEnds, PeerDrops, PeerGoes, Outside, vars,
           gather, clientVars
  <1>2. ws' => ws
    BY DEF ServerSends, ServerIsBuggy, ServerCloses, PeerEnds, PeerDrops, PeerGoes, socket, clientVars
  <1>3. \/ UNCHANGED <<seen, peer, events>>
        \/ peer' # "new" /\ (seen' => seen \/ (peer = "new" /\ Described))
    BY DEF ServerSends, ServerIsBuggy, ServerCloses, PeerEnds, PeerDrops, PeerGoes, pion, clientVars,
           history, Described
  <1>4. Described' = Described
    BY <1>1 DEF Described
  <1>5. OpenMoves
    BY <1>1, <1>2, <1>3, <1>4 DEF OpenMoves
  <1>6. events' # {} \/ event' # "none" => seen' \/ peer' # "new"
    BY <1>1, <1>3 DEF OpenInv
  <1>7. QED
    BY <1>1, <1>5, <1>6, OpenKeeps DEF OpenInv, OpenPlaces, Finished, connState

LEMMA OpenStep ==
    ASSUME OpenInv, ReturnInv, [ClientNext]_clientVars
    PROVE  OpenInv' /\ (Over => Over')
  <1>1. CASE kind = "openipc"
    <2>1. OpenMoves /\ OpenInv'
      BY <1>1, OpenDial, OpenReader, OpenGatherer, OpenEvents, OpenOutside
         DEF ClientNext, Clients, Signalling, ReturnInv
    <2>2. QED
      BY <1>1, <2>1, OpenStays
  <1>2. CASE kind # "openipc"
    <2>1. kind' = kind
      BY DEF ClientNext, Clients, Signalling, clientVars, ServerSends, ServerIsBuggy, ServerCloses,
             PeerEnds, PeerDrops, PeerGoes, Outside,
             Events, EventBegins, EventDone, Calling,
             ClientGatherer, ClientGathered, ClientGoesOn, ClientSends, ClientSendFails, ClientSendDone,
             Reader, GetAnswerMsg, GetOffer, AnswerOffer, AnswerSent, GetBad, GetBuggy, ReadJSONFails,
             ReaderDone, Reading,
             Dial, CreateOffer, SendOffer, SendOfferFails, OfferSent, ReadAnswer, ReadAnswerFails,
             Wait, WaitReturns, Check, Fail, DeferredDone, DeferredClose, Dialling
    <2>2. QED
      BY <1>2, <2>1 DEF OpenInv, Over
  <1>3. QED
    BY <1>1, <1>2

LEMMA OpenInvariant == ClientSpec => []OpenInv
  <1>1. ClientInit => OpenInv
    BY EmptySeq DEF ClientInit, Init, ConnState!WaiterInit, ConnState!Free, OpenInv, OpenPlaces, Finished
  <1>2. OpenInv /\ ReturnInv /\ [ClientNext]_clientVars => OpenInv'
    BY OpenStep
  <1>3. QED
    BY <1>1, <1>2, ReturnInvariant, PTL DEF ClientSpec

-----------------------------------------------------------------------------
(* Steps that write nothing. What changes the Waiter or the gatherer is    *)
(* not before Ready, or of a client that needs no Waiter. What is over for *)
(* openipc stays over, see OpenStays.                                      *)

LEMMA WritesNothing ==
    ASSUME DescriptionInv, UNCHANGED <<kind, out, result, handler>>,
           UNCHANGED <<waiter, gatherer>> \/ Ready \/ kind \notin Waits,
           ws' => ws, Over => Over',
           reader' = "answered" => reader = "answered",
           kind \in Waits \ {"server"} /\ dial \in Early => dial' \in Early \/ ~ws \/ Ready'
    PROVE  DescriptionInv'
  <1>1. InOrder' = InOrder /\ Described' = Described
    BY DEF InOrder, Described
  <1>2. Ready => Ready'
    BY <1>1 DEF Ready
  <1>3. Ordered'
    BY <1>2, <1>1 DEF DescriptionInv, Ordered, Ready, Waits, Early
  <1>4. kind' \in Waits /\ ~Ready' => Held'
    BY <1>2 DEF DescriptionInv, Held, waiter
  <1>5. QED
    BY <1>1, <1>3, <1>4 DEF DescriptionInv

(* Who calls Done on sendAnswer, and whose wait it ends.                   *)
LEMMA WhoIsReady ==
    ASSUME DescriptionInv
    PROVE  /\ kind \in Waits \ {"server"} /\ dial \notin Early => Ready
           /\ reader = "answered" => Ready
           /\ gatherer \in {"send", "failed"} => Ready \/ kind \notin Waits
           /\ gatherer = "wait" /\ Answered => Ready \/ kind \notin Waits
  BY DEF DescriptionInv, Ordered, Held, Waits, Answered, SendAnswer!WaitReturns

LEMMA DialWritesNothing ==
    ASSUME DescriptionInv, OpenInv', Over => Over', kind # "server",
           \/ CreateOffer \/ SendOfferFails \/ OfferSent \/ ReadAnswer \/ ReadAnswerFails
           \/ Wait \/ WaitReturns \/ Check \/ Fail \/ DeferredDone \/ DeferredClose
    PROVE  DescriptionInv'
  <1> USE DEF Dialling, DialGoes, Return, server
  <1>1. UNCHANGED <<kind, out, result, handler, gatherer>>
    BY DEF CreateOffer, SendOfferFails, OfferSent, ReadAnswer, ReadAnswerFails,
           Wait, WaitReturns, Check, Fail, DeferredDone, DeferredClose
  <1>2. UNCHANGED waiter \/ Ready \/ kind \notin Waits
    <2>1. CASE OfferSent \/ DeferredDone
      BY <2>1, WhoIsReady DEF OfferSent, DeferredDone, Waits, Early, DescriptionInv
    <2>2. CASE ~(OfferSent \/ DeferredDone)
      BY <2>2 DEF CreateOffer, SendOfferFails, ReadAnswer, ReadAnswerFails,
                  Wait, WaitReturns, Check, Fail, DeferredClose
    <2>3. QED
      BY <2>1, <2>2
  <1>3. ws' => ws
    BY DEF CreateOffer, SendOfferFails, OfferSent, ReadAnswer, ReadAnswerFails,
           Wait, WaitReturns, Check, Fail, DeferredDone, DeferredClose, Stop
  <1>4. reader' = "answered" => reader = "answered"
    BY DEF CreateOffer, SendOfferFails, OfferSent, ReadAnswer, ReadAnswerFails,
           Wait, WaitReturns, Check, Fail, DeferredDone, DeferredClose
  <1>5. kind \in Waits \ {"server"} /\ dial \in Early => dial' \in Early \/ ~ws \/ Ready'
    <2>1. CASE kind = "openipc"
      <3>1. dial' \in Early \/ Finished'
        BY <2>1, <1>1 DEF OpenInv, OpenPlaces, Early, Finished
      <3>2. dial' \notin Early => returned' # "none" /\ Settled'
        BY <2>1, <1>1, <3>1 DEF OpenInv, OpenPlaces, Early
      <3>3. QED
        BY <2>1, <1>1, <3>2 DEF Settled, Ready, Over
    <2>2. CASE kind # "openipc"
      BY <2>2 DEF CreateOffer, SendOfferFails, OfferSent, ReadAnswer, ReadAnswerFails,
             Wait, WaitReturns, Check, Fail, DeferredDone, DeferredClose, Waits, Early
    <2>3. QED
      BY <2>1, <2>2
  <1>6. QED
    BY <1>1, <1>2, <1>3, <1>4, <1>5, WritesNothing

LEMMA ReaderWritesNothing ==
    ASSUME DescriptionInv, Over => Over', kind # "server",
           GetAnswerMsg \/ GetOffer \/ AnswerSent \/ GetBad \/ GetBuggy \/ ReadJSONFails \/ ReaderDone
    PROVE  DescriptionInv'
  <1> USE DEF Reading, ReaderGoes, server, gather
  <1>1. UNCHANGED <<kind, out, result, handler, gatherer, dial>>
    BY DEF GetAnswerMsg, GetOffer, AnswerSent, GetBad, GetBuggy, ReadJSONFails, ReaderDone
  <1>2. UNCHANGED waiter \/ Ready \/ kind \notin Waits
    BY WhoIsReady DEF GetAnswerMsg, GetOffer, AnswerSent, GetBad, GetBuggy, ReadJSONFails, ReaderDone
  <1>3. ws' => ws
    BY DEF GetAnswerMsg, GetOffer, AnswerSent, GetBad, GetBuggy, ReadJSONFails, ReaderDone, Stop
  <1>4. reader' = "answered" => reader = "answered"
    BY DEF GetAnswerMsg, GetOffer, AnswerSent, GetBad, GetBuggy, ReadJSONFails, ReaderDone, Takes, Ends
  <1>5. QED
    BY <1>1, <1>2, <1>3, <1>4, WritesNothing

LEMMA OthersWriteNothing ==
    ASSUME DescriptionInv, Over => Over', kind # "server",
           ClientGoesOn \/ ClientSendFails \/ ClientSendDone \/ Events
    PROVE  DescriptionInv'
  <1>1. CASE ClientGoesOn \/ ClientSendFails \/ ClientSendDone
    <2>1. UNCHANGED <<kind, out, result, handler, gathering, dial, ws, reader>>
      BY <1>1 DEF ClientGoesOn, ClientSendFails, ClientSendDone, Calling, server
    <2>2. gatherer # "idle" /\ (Ready \/ kind \notin Waits)
      BY <1>1, WhoIsReady DEF ClientGoesOn, ClientSendFails, ClientSendDone, GathererGoes
    <2>3. QED
      BY <2>1, <2>2, WritesNothing
  <1>2. CASE Events
    <2>1. UNCHANGED <<kind, out, result, handler, gathering, gatherer, waiter, dial, reader>>
      BY <1>2 DEF Events, EventBegins, EventDone, Calling, Handling, server
    <2>2. ws' => ws
      BY <1>2 DEF Events, EventBegins, EventDone
    <2>3. QED
      BY <2>1, <2>2, WritesNothing
  <1>3. QED
    BY <1>1, <1>2

(* The first candidate begins to wait.                                     *)
LEMMA BeginsToWait ==
    ASSUME DescriptionInv, UNCHANGED <<kind, out, result, handler, dial, reader, ws, gathering>>,
           Over => Over',
           gathering, gatherer' \in {"wait", "send"},
           kind \in Waits => gatherer' = "wait" /\ SendAnswer!WaitBegins("gatherer")
    PROVE  DescriptionInv'
  <1>1. InOrder' = InOrder /\ Described' = Described /\ (Ready => Ready')
    BY DEF InOrder, Described, Ready
  <1>2. Ordered'
    BY <1>1 DEF DescriptionInv, Ordered, Early
  <1>3. kind' \in Waits /\ ~Ready' => Held'
    <2> SUFFICES ASSUME kind \in Waits, ~Ready PROVE Held'
      BY <1>1
    <2>1. Held
      BY DEF DescriptionInv
    <2>2. QED
      BY <2>1 DEF Held, SendAnswer!WaitBegins, SendAnswer!Starts
  <1>4. QED
    BY <1>1, <1>2, <1>3 DEF DescriptionInv

-----------------------------------------------------------------------------
(* Steps of a client that write.                                           *)

LEMMA SendOfferStep ==
    ASSUME DescriptionInv, Over => Over', kind # "server", SendOffer
    PROVE  DescriptionInv'
  <1>1. UNCHANGED <<kind, ws, result, handler, reader, waiter, gatherer, gathering>>
    BY DEF SendOffer, Dialling, server
  <1>2. out' \in Seq(Written) /\ Ready' /\ (kind # "go2rtc" => InOrder' \/ Over')
    <2>1. CASE ws
      <3>1. out' = Append(out, "sdp") /\ "sdp" \in Written
        BY <2>1 DEF SendOffer, Written
      <3>2. QED
        BY <3>1, WritesOne DEF DescriptionInv, Ready
    <2>2. CASE ~ws
      <3>1. out' = out
        BY <2>2 DEF SendOffer
      <3>2. QED
        BY <3>1, <1>1, <2>2 DEF DescriptionInv, Ready, InOrder
    <2>3. QED
      BY <2>1, <2>2
  <1>3. Ordered'
    BY <1>1, <1>2 DEF DescriptionInv, Ordered
  <1>4. QED
    BY <1>1, <1>2, <1>3 DEF DescriptionInv

(* The answer of openipc.                                                  *)
LEMMA AnswerOfferStep ==
    ASSUME DescriptionInv, Over => Over', kind # "server", AnswerOffer
    PROVE  DescriptionInv'
  <1>1. /\ UNCHANGED <<kind, ws, result, handler, dial, waiter, gatherer>>
    BY DEF AnswerOffer, Reading, server
  <1>2. out' \in Seq(Written) /\ Ready' /\ (kind # "go2rtc" => InOrder' \/ Over')
    <2>1. CASE ws
      <3>1. out' = Append(out, "sdp") /\ "sdp" \in Written
        BY <2>1 DEF AnswerOffer, Written
      <3>2. QED
        BY <1>1, <3>1, WritesOne DEF DescriptionInv, Ready
    <2>2. CASE ~ws
      <3>1. out' = out
        BY <2>2 DEF AnswerOffer
      <3>2. QED
        BY <3>1, <1>1, <2>2 DEF DescriptionInv, Ready, InOrder
    <2>3. QED
      BY <2>1, <2>2
  <1>3. Ordered'
    BY <1>1, <1>2 DEF DescriptionInv, Ordered
  <1>4. QED
    BY <1>1, <1>2, <1>3 DEF DescriptionInv, Waits

(* A candidate that has waited.                                            *)
LEMMA CandidateGoes ==
    ASSUME DescriptionInv, UNCHANGED <<kind, result, handler, dial, reader, ws, gathering>>,
           gatherer = "send", out' = Append(out, "candidate"), Over => Over',
           kind # "go2rtc" => Described \/ (kind = "server" /\ result = "error") \/ Over
    PROVE  DescriptionInv'
  <1>1. "candidate" \in Written
    BY DEF Written
  <1>2. /\ out' \in Seq(Written) /\ (Described => Described')
        /\ Described /\ InOrder => InOrder'
    BY <1>1, WritesOne DEF DescriptionInv
  <1>3. Ready => Ready'
    BY <1>2 DEF Ready
  <1>4. Ordered'
    BY <1>3 DEF DescriptionInv, Ordered, Early
  <1>5. kind' \in Waits => Ready'
    BY <1>3, WhoIsReady DEF Waits
  <1>6. kind' # "go2rtc" => InOrder' \/ (kind' = "server" /\ result' = "error") \/ Over'
    BY <1>2 DEF DescriptionInv
  <1>7. QED
    BY <1>2, <1>4, <1>5, <1>6 DEF DescriptionInv

LEMMA ClientSendsStep ==
    ASSUME DescriptionInv, Over => Over', kind # "server", ClientSends
    PROVE  DescriptionInv'
  <1>1. /\ UNCHANGED <<kind, result, handler, dial, reader, ws, gathering, waiter>>
        /\ gatherer = "send" /\ gatherer' = "idle" /\ (ws \/ kind \in {"go2rtc", "ring"})
    BY DEF ClientSends, Calling, GathererGoes, server
  <1>2. Ready \/ kind = "go2rtc"
    BY <1>1, WhoIsReady DEF Waits, DescriptionInv
  <1>3. CASE ws
    <2>1. out' = Append(out, "candidate")
      BY <1>3 DEF ClientSends
    <2>2. kind # "go2rtc" => Described \/ Over
      BY <1>2, <1>3 DEF Ready
    <2>3. QED
      BY <1>1, <2>1, <2>2, CandidateGoes
  <1>4. CASE ~ws
    <2>1. out' = out
      BY <1>4 DEF ClientSends
    <2>2. QED
      BY <1>1, <1>2, <2>1, WritesNothing DEF Waits
  <1>5. QED
    BY <1>3, <1>4

LEMMA ClientsKeepOrder ==
    ASSUME DescriptionInv, OpenInv', Over => Over',
           Clients \/ ServerSends \/ ServerIsBuggy \/ ServerCloses \/ PeerEnds \/ PeerDrops
    PROVE  DescriptionInv'
  <1>1. CASE ServerSends \/ ServerIsBuggy \/ ServerCloses \/ PeerEnds \/ PeerDrops
    <2>1. UNCHANGED <<kind, out, result, handler, gathering, gatherer, waiter, dial, reader>>
      BY <1>1 DEF ServerSends, ServerIsBuggy, ServerCloses, PeerEnds, PeerDrops, PeerGoes,
                  Outside, vars, gather
    <2>2. ws' => ws
      BY <1>1 DEF ServerSends, ServerIsBuggy, ServerCloses, PeerEnds, PeerDrops, PeerGoes, socket
    <2>3. QED
      BY <2>1, <2>2, WritesNothing
  <1>2. CASE kind # "server" /\ Dial
    BY <1>2, DialWritesNothing, SendOfferStep DEF Dial
  <1>3. CASE kind # "server" /\ Reader
    BY <1>3, ReaderWritesNothing, AnswerOfferStep DEF Reader
  <1>4. CASE kind # "server" /\ ClientGatherer
    <2>1. CASE ClientGathered
      <3>1. /\ UNCHANGED <<kind, out, result, handler, dial, reader, ws, gathering>> /\ gathering
            /\ gatherer' \in {"wait", "send"}
            /\ kind \in Waits => gatherer' = "wait" /\ SendAnswer!WaitBegins("gatherer")
        BY <2>1 DEF ClientGathered, Calling, GathererGoes, server, Waits
      <3>2. QED
        BY <3>1, BeginsToWait
    <2>2. QED
      BY <1>4, <2>1, OthersWriteNothing, ClientSendsStep DEF ClientGatherer
  <1>5. CASE kind # "server" /\ Events
    BY <1>5, OthersWriteNothing
  <1>6. QED
    BY <1>1, <1>2, <1>3, <1>4, <1>5 DEF Clients

-----------------------------------------------------------------------------
(* Steps of the server.                                                    *)

(* asyncHandler, but for what it writes.                                   *)
LEMMA HandlerWritesNothing ==
    ASSUME DescriptionInv, kind = "server", UNCHANGED <<kind, out, reader, dial, ws>>,
           \/ Fails("offer", "begin") /\ UNCHANGED gather
           \/ Fails("consumer", "consumer") /\ UNCHANGED gather
           \/ SetOffer \/ AddConsumer \/ GetAnswer \/ GetAnswerFails
           \/ Done("done", "flush") \/ Deferred
    PROVE  DescriptionInv'
  <1>1. InOrder' = InOrder /\ Described' = Described
    BY DEF InOrder, Described
  <1>2. gatherer' = gatherer
    BY DEF Fails, SetOffer, AddConsumer, GetAnswer, GetAnswerFails, Done, Deferred, gather
  <1>3. CASE Done("done", "flush") \/ Deferred
    <2>1. Ready
      BY <1>3 DEF Done, Deferred, HandlerGoes, DescriptionInv, Ordered
    <2>2. result' = result
      BY <1>3 DEF Done, Deferred
    <2>3. handler' = handler \/ (handler = "done" /\ handler' = "flush")
                \/ (handler = "deferred" /\ handler' = "out")
      BY <1>3 DEF Done, Deferred, HandlerGoes
    <2>4. Ready'
      BY <1>1, <2>1, <2>2 DEF Ready, Over
    <2>5. QED
      BY <1>1, <2>2, <2>3, <2>4 DEF DescriptionInv, Ordered, Over
  <1>4. CASE Fails("offer", "begin") \/ Fails("consumer", "consumer") \/ GetAnswerFails
    <2>1. handler' = "deferred" /\ result' = "error" /\ UNCHANGED waiter
      BY <1>4 DEF Fails, GetAnswerFails, HandlerGoes
    <2>2. Ready'
      BY <2>1 DEF Ready, Over
    <2>3. QED
      BY <2>1, <2>2 DEF DescriptionInv, Ordered, Over
  <1>5. CASE SetOffer \/ AddConsumer \/ GetAnswer
    <2>1. /\ UNCHANGED <<result, waiter>> /\ handler \in {"begin", "consumer", "answer"}
          /\ handler' \in {"consumer", "answer", "write"}
      BY <1>5 DEF SetOffer, AddConsumer, GetAnswer, HandlerGoes
    <2>2. Ready' <=> Ready
      BY <1>1, <2>1 DEF Ready, Over
    <2>3. Ordered'
      BY <2>1, <2>2 DEF DescriptionInv, Ordered
    <2>4. kind' \in Waits /\ ~Ready' => Held'
      BY <1>2, <2>1, <2>2 DEF DescriptionInv, Held, waiter
    <2>5. QED
      BY <1>1, <2>1, <2>3, <2>4 DEF DescriptionInv, Over
  <1>6. QED
    BY <1>3, <1>4, <1>5

LEMMA WriteAnswerStep ==
    ASSUME DescriptionInv, kind = "server", UNCHANGED <<kind, reader, dial, ws>>, WriteAnswer
    PROVE  DescriptionInv'
  <1>1. out' = Append(out, "sdp") /\ handler = "write" /\ handler' = "done" /\ result' = result
        /\ "sdp" \in Written
    BY DEF WriteAnswer, HandlerGoes, Written
  <1>2. out' \in Seq(Written) /\ Described' /\ (InOrder => InOrder')
    BY <1>1, WritesOne DEF DescriptionInv
  <1>3. QED
    BY <1>1, <1>2 DEF DescriptionInv, Ordered, Over, Ready

(* The candidates of the configuration.                                    *)
LEMMA AsyncCandidatesStep ==
    ASSUME DescriptionInv, kind = "server", UNCHANGED <<kind, reader, dial, ws>>, AsyncCandidates
    PROVE  DescriptionInv'
  <1>1. /\ out' = out \o [i \in 1..Config |-> "candidate"]
        /\ handler = "flush" /\ handler' = "deferred"
    BY DEF AsyncCandidates, HandlerGoes
  <1>2. result = "none" /\ Described
    BY <1>1 DEF DescriptionInv, Ordered, Over, Ready
  <1>3. out' \in Seq(Written) /\ Described' /\ (InOrder => InOrder')
    BY <1>1, <1>2, WritesAll DEF DescriptionInv
  <1>4. QED
    BY <1>1, <1>2, <1>3 DEF DescriptionInv, Ordered, Over, Ready

LEMMA ServerKeepsOrder ==
    ASSUME DescriptionInv, Signalling
    PROVE  DescriptionInv'
  <1>1. kind = "server" /\ Signal /\ UNCHANGED <<kind, reader, dial, ws>>
    BY DEF Signalling, socket
  <1>2. CASE AsyncHandler
    <2>1. CASE (Fails("offer", "begin") \/ Fails("consumer", "consumer")) /\ UNCHANGED gather
      <3>1. UNCHANGED out
        BY <2>1 DEF Fails
      <3>2. QED
        BY <1>1, <2>1, <3>1, HandlerWritesNothing DEF Over
    <2>2. CASE SetOffer \/ AddConsumer \/ GetAnswer \/ GetAnswerFails \/ Done("done", "flush") \/ Deferred
      <3>1. UNCHANGED out
        BY <2>2 DEF SetOffer, AddConsumer, GetAnswer, GetAnswerFails, Fails, Done, Deferred
      <3>2. QED
        BY <1>1, <2>2, <3>1, HandlerWritesNothing DEF Over
    <2>3. QED
      BY <1>1, <1>2, <2>1, <2>2, WriteAnswerStep, AsyncCandidatesStep DEF AsyncHandler
  <1>3. CASE \E c \in Remote : CandidateHandler(c)
    <2>1. UNCHANGED <<out, result, handler, waiter, gatherer, gathering>>
      BY <1>3 DEF CandidateHandler, gather
    <2>2. QED
      BY <1>1, <2>1, WritesNothing DEF Over
  <1>4. CASE Gatherer
    <2>1. CASE Gathered
      BY <1>1, <2>1, BeginsToWait DEF Gathered, GathererGoes, Over
    <2>2. CASE GathererGoesOn
      <3>1. UNCHANGED <<out, result, handler, gathering>>
        BY <2>2 DEF GathererGoesOn
      <3>2. Ready
        BY <1>1, <2>2, WhoIsReady DEF GathererGoesOn, GathererGoes, Waits
      <3>3. QED
        BY <1>1, <3>1, <3>2, WritesNothing DEF Over
    <2>3. CASE SendCandidate
      <3>1. /\ UNCHANGED <<result, handler, gathering>> /\ gatherer = "send"
            /\ out' = Append(out, "candidate")
        BY <2>3 DEF SendCandidate, GathererGoes
      <3>2. Ready
        BY <1>1, <3>1, WhoIsReady DEF Waits
      <3>3. QED
        BY <1>1, <3>1, <3>2, CandidateGoes DEF Ready, Over
    <2>4. QED
      BY <1>4, <2>1, <2>2, <2>3 DEF Gatherer
  <1>5. QED
    BY <1>1, <1>2, <1>3, <1>4 DEF Signal

LEMMA DescriptionInvariant == ClientSpec => []DescriptionInv
  <1>1. ClientInit => DescriptionInv
    <2> SUFFICES ASSUME ClientInit PROVE DescriptionInv
      OBVIOUS
    <2>1. out \in Seq(Written) /\ InOrder
      BY EmptySeq DEF ClientInit, Init, InOrder
    <2>2. kind \in {"server", "go2rtc", "kinesis", "openipc", "ring"}
      BY KindsAssumption DEF ClientInit
    <2>3. Ordered
      BY DEF ClientInit, Init, Ordered, Waits, Early
    <2>4. Held
      BY DEF ClientInit, Init, Held, SendAnswer!WaiterInit, SendAnswer!Free
    <2>5. QED
      BY <2>1, <2>2, <2>3, <2>4 DEF DescriptionInv
  <1>2. ASSUME DescriptionInv, OpenInv, ReturnInv, [ClientNext]_clientVars PROVE DescriptionInv'
    <2>0. OpenInv' /\ (Over => Over')
      BY <1>2, OpenStep
    <2>1. CASE UNCHANGED clientVars
      <3>1. UNCHANGED <<kind, out, result, handler, waiter, gatherer, gathering, ws, reader, dial>>
        BY <2>1 DEF clientVars, vars, gather, socket
      <3>2. QED
        BY <1>2, <2>0, <3>1, WritesNothing
    <2>2. QED
      BY <1>2, <2>0, <2>1, ClientsKeepOrder, ServerKeepsOrder DEF ClientNext
  <1>3. QED
    BY <1>1, <1>2, ReturnInvariant, OpenInvariant, PTL DEF ClientSpec

(* The other side gets the description before any candidate, from every    *)
(* client but go2rtc's and from the server, however many candidates there  *)
(* are and whichever goroutine is faster; unless the call has failed.      *)
THEOREM CandidatesFollow == ClientSpec => []DescriptionFirst
  <1>1. DescriptionInv => DescriptionFirst
    BY DEF DescriptionInv, DescriptionFirst, InOrder, Failed, Over, Dead
  <1>2. QED
    BY <1>1, DescriptionInvariant, PTL

-----------------------------------------------------------------------------
(* The candidates of the browser.                                          *)

LEMMA CandidatesStay ==
    ASSUME CandidatesInv, UNCHANGED <<handler, result, unread, ctx>>
    PROVE  CandidatesInv'
  BY DEF CandidatesInv, ctx

LEMMA HandlerCandidates ==
    ASSUME CandidatesInv, AsyncHandler
    PROVE  CandidatesInv'
  <1> USE DEF CandidatesInv
  <1>1. CASE AsyncCandidates
    <2>1. /\ handler = "flush" /\ handler' = "deferred" /\ conn' = TRUE /\ pending' = {}
          /\ result' = "ok" /\ unread' = unread
          /\ added' = [c \in Remote |-> IF c \in pending THEN added[c] + 1 ELSE added[c]]
      BY <1>1 DEF AsyncCandidates, HandlerGoes, Flushed
    <2>2. ~conn /\ pending = Remote \ unread
      BY <2>1
    <2>3. \A c \in Remote : added[c] = 0
      BY <2>2
    <2>4. \A c \in Remote :
            (IF c \in pending THEN added[c] + 1 ELSE added[c])
                = IF conn' /\ c \notin unread' THEN 1 ELSE 0
      BY <2>1, <2>2, <2>3
    <2>5. QED
      BY <2>1, <2>4
  <1>2. CASE Fails("offer", "begin") \/ Fails("consumer", "consumer") \/ GetAnswerFails
    <2>1. /\ handler \notin {"deferred", "out"} /\ result' = "error"
          /\ UNCHANGED <<unread, pending, conn, added>>
      BY <1>2 DEF Fails, GetAnswerFails, HandlerGoes, ctx
    <2>2. QED
      BY <2>1
  <1>3. CASE \/ SetOffer \/ AddConsumer \/ GetAnswer \/ WriteAnswer
             \/ Done("done", "flush") \/ Deferred
    <2>1. /\ handler \in {"deferred", "out"} => handler' \in {"deferred", "out"}
          /\ UNCHANGED <<result, unread, pending, conn, added>>
      BY <1>3 DEF SetOffer, AddConsumer, GetAnswer, WriteAnswer, Done, Deferred, HandlerGoes, ctx
    <2>2. QED
      BY <2>1
  <1>4. QED
    BY <1>1, <1>2, <1>3 DEF AsyncHandler

LEMMA CandidateHandled ==
    ASSUME CandidatesInv, NEW c \in Remote, CandidateHandler(c)
    PROVE  CandidatesInv'
  <1> USE DEF CandidatesInv
  <1>1. /\ c \in unread /\ unread' = unread \ {c} /\ UNCHANGED <<handler, result, conn>>
        /\ added' = IF conn THEN [added EXCEPT ![c] = @ + 1] ELSE added
        /\ pending' = IF conn THEN pending ELSE pending \cup {c}
    BY DEF CandidateHandler, Collects
  <1>2. CASE conn
    <2>1. added[c] = 0 /\ added' = [added EXCEPT ![c] = added[c] + 1]
      BY <1>1, <1>2
    <2>2. \A d \in Remote : added'[d] = IF conn' /\ d \notin unread' THEN 1 ELSE 0
      BY <1>1, <1>2, <2>1
    <2>3. added' = [d \in Remote |-> IF conn' /\ d \notin unread' THEN 1 ELSE 0]
      BY <2>1, <2>2
    <2>4. QED
      BY <1>1, <1>2, <2>3
  <1>3. CASE ~conn
    BY <1>1, <1>3
  <1>4. QED
    BY <1>2, <1>3

(* The candidates that came before the answer and those that come after:   *)
(* once the call is ok the connection has each that was handled, once.     *)
THEOREM EachCandidateOnce == ClientSpec => []CandidatesInPlace
  <1>1. ClientInit => CandidatesInv
    BY DEF ClientInit, Init, CandidatesInv
  <1>2. ASSUME CandidatesInv, [ClientNext]_clientVars PROVE CandidatesInv'
    <2>1. CASE Signalling
      <3>1. CASE Gatherer
        BY <1>2, <3>1, CandidatesStay DEF Gatherer, Gathered, GathererGoesOn, SendCandidate
      <3>2. QED
        BY <1>2, <2>1, <3>1, HandlerCandidates, CandidateHandled DEF Signalling, Signal
    <2>2. CASE Dial \/ Reader
      <3>1. UNCHANGED server
        BY <2>2 DEF Dial, CreateOffer, SendOffer, SendOfferFails, OfferSent, ReadAnswer,
               ReadAnswerFails, Wait, WaitReturns, Check, Fail, DeferredDone, DeferredClose, Dialling,
               Reader, GetAnswerMsg, GetOffer, AnswerOffer, AnswerSent, GetBad, GetBuggy, ReadJSONFails,
               ReaderDone, Reading
      <3>2. QED
        BY <1>2, <3>1, CandidatesStay DEF server
    <2>3. CASE ClientGatherer \/ Events
      <3>1. UNCHANGED server
        BY <2>3 DEF ClientGatherer, ClientGathered, ClientGoesOn, ClientSends, ClientSendFails,
               ClientSendDone, Events, EventBegins, EventDone, Calling
      <3>2. QED
        BY <1>2, <3>1, CandidatesStay DEF server
    <2>4. CASE \/ ServerSends \/ ServerIsBuggy \/ ServerCloses \/ PeerEnds \/ PeerDrops
               \/ UNCHANGED clientVars
      <3>1. UNCHANGED <<handler, result, unread, ctx>>
        BY <2>4 DEF ServerSends, ServerIsBuggy, ServerCloses, PeerEnds, PeerDrops, PeerGoes,
               Outside, clientVars, vars
      <3>2. QED
        BY <1>2, <3>1, CandidatesStay
    <2>5. QED
      BY <1>2, <2>1, <2>2, <2>3, <2>4 DEF ClientNext, Clients
  <1>3. CandidatesInv => OnceEach
    BY DEF CandidatesInv, OnceEach
  <1>4. QED
    BY <1>1, <1>2, <1>3, CandidatesFollow, PTL DEF ClientSpec, CandidatesInPlace

-----------------------------------------------------------------------------
(* sendAnswer.                                                             *)

(* A step that finishes nothing: the call is not over after it, or was.    *)
LEMMA WaiterGoes ==
    ASSUME WaiterInv, UNCHANGED kind,
           \/ UNCHANGED <<state, group, mu>>
           \/ SendAnswer!WaitBegins("gatherer")
           \/ SendAnswer!WaitReturns("gatherer")
           \/ SendAnswer!DoneBegins("handler")
           \/ SendAnswer!DoneBegins("reader")
           \/ SendAnswer!DoneEnds("handler")
           \/ SendAnswer!DoneEnds("reader"),
           gatherer' = "wait" => gatherer = "wait" \/ kind # "go2rtc",
           kind = "server" /\ handler' = "out" => handler = "out" \/ SendAnswer!DoneEnds("handler"),
           kind \notin {"server", "go2rtc"} /\ dial' \in {"close", "out"}
                => dial \in {"close", "out"} \/ SendAnswer!DoneEnds("handler")
    PROVE  WaiterInv'
  <1> USE DEF WaiterInv
  <1>1. CASE UNCHANGED <<state, group, mu>>
    <2>1. ~SendAnswer!DoneEnds("handler")
      BY <1>1 DEF SendAnswer!DoneEnds, SendAnswer!Free
    <2>2. QED
      BY <1>1, <2>1
  <1>2. CASE SendAnswer!WaitBegins("gatherer")
    <2>1. /\ mu = "free" /\ mu' = mu
          /\ \/ state = 0 /\ state' = state + 1 /\ group' = group + 1
             \/ state # 0 /\ UNCHANGED <<state, group>>
      BY <1>2 DEF SendAnswer!WaitBegins, SendAnswer!Starts, SendAnswer!Free
    <2>2. ~SendAnswer!DoneEnds("handler")
      BY <2>1 DEF SendAnswer!DoneEnds
    <2>3. QED
      BY <2>1, <2>2
  <1>3. CASE SendAnswer!WaitReturns("gatherer")
    BY <1>1, <1>3 DEF SendAnswer!WaitReturns
  <1>4. CASE SendAnswer!DoneBegins("handler") \/ SendAnswer!DoneBegins("reader")
    <2>1. /\ mu = "free" /\ mu' \in {"handler", "reader"}
          /\ \/ state = 1 /\ state' = 0 /\ group' = 0
             \/ state # 1 /\ UNCHANGED <<state, group>>
      BY <1>4 DEF SendAnswer!DoneBegins, SendAnswer!Count, SendAnswer!Free
    <2>2. ~SendAnswer!DoneEnds("handler")
      BY <2>1 DEF SendAnswer!DoneEnds
    <2>3. QED
      BY <2>1, <2>2
  <1>5. CASE SendAnswer!DoneEnds("handler") \/ SendAnswer!DoneEnds("reader")
    <2>1. /\ mu \in {"handler", "reader"} /\ mu' = "free" /\ group' = group
          /\ state' = IF state = 0 THEN -1 ELSE state
      BY <1>5 DEF SendAnswer!DoneEnds, SendAnswer!Finish, SendAnswer!Free
    <2>2. state' = -1 /\ group' = 0
      BY <2>1
    <2>3. QED
      BY <2>1, <2>2
  <1>6. QED
    BY <1>1, <1>2, <1>3, <1>4, <1>5

LEMMA HandlerWaiter ==
    ASSUME WaiterInv, AsyncHandler, UNCHANGED <<kind, dial>>
    PROVE  WaiterInv'
  <1>1. UNCHANGED gatherer
    BY DEF AsyncHandler, Fails, SetOffer, AddConsumer, GetAnswer, GetAnswerFails, WriteAnswer, Done,
           AsyncCandidates, Deferred, gather
  <1>2. CASE Done("done", "flush") \/ Deferred
    <2>1. \/ SendAnswer!DoneBegins("handler") /\ UNCHANGED handler
          \/ SendAnswer!DoneEnds("handler")
      BY <1>2 DEF Done, Deferred
    <2>2. QED
      BY <1>1, <2>1, WaiterGoes DEF WaiterInv
  <1>3. CASE ~(Done("done", "flush") \/ Deferred)
    <2>1. UNCHANGED <<state, group, mu>> /\ handler' # "out"
      BY <1>3 DEF AsyncHandler, Fails, SetOffer, AddConsumer, GetAnswer, GetAnswerFails, WriteAnswer,
             AsyncCandidates, HandlerGoes, waiter
    <2>2. QED
      BY <1>1, <2>1, WaiterGoes DEF WaiterInv
  <1>4. QED
    BY <1>2, <1>3

LEMMA DialWaiter ==
    ASSUME WaiterInv, Dial, kind # "server"
    PROVE  WaiterInv'
  <1> USE DEF Dialling, DialGoes
  <1>1. UNCHANGED <<kind, handler, gatherer>>
    BY DEF Dial, CreateOffer, SendOffer, SendOfferFails, OfferSent, ReadAnswer, ReadAnswerFails,
           Wait, WaitReturns, Check, Fail, DeferredDone, DeferredClose, server
  <1>2. CASE OfferSent \/ DeferredDone
    <2>1. \/ SendAnswer!DoneBegins("handler") /\ UNCHANGED dial
          \/ SendAnswer!DoneEnds("handler")
      BY <1>2 DEF OfferSent, DeferredDone
    <2>2. QED
      BY <1>1, <2>1, WaiterGoes DEF WaiterInv
  <1>3. CASE ~(OfferSent \/ DeferredDone)
    <2>1. UNCHANGED <<state, group, mu>>
      BY <1>3 DEF Dial, CreateOffer, SendOffer, SendOfferFails, ReadAnswer, ReadAnswerFails,
             Wait, WaitReturns, Check, Fail, DeferredClose, waiter
    <2>2. kind # "go2rtc" /\ dial' \in {"close", "out"} => dial \in {"close", "out"}
      BY <1>3 DEF Dial, CreateOffer, SendOffer, SendOfferFails, ReadAnswer, ReadAnswerFails,
             Wait, WaitReturns, Check, Fail, DeferredClose, Return
    <2>3. QED
      BY <1>1, <2>1, <2>2, WaiterGoes DEF WaiterInv
  <1>4. QED
    BY <1>2, <1>3

LEMMA ReaderWaiter ==
    ASSUME WaiterInv, Reader
    PROVE  WaiterInv'
  <1>1. UNCHANGED <<kind, handler, gatherer, dial>>
    BY DEF Reader, GetAnswerMsg, GetOffer, AnswerOffer, AnswerSent, GetBad, GetBuggy, ReadJSONFails, ReaderDone,
           Reading, server
  <1>2. \/ UNCHANGED <<state, group, mu>>
        \/ SendAnswer!DoneBegins("reader") \/ SendAnswer!DoneEnds("reader")
    BY DEF Reader, GetAnswerMsg, GetOffer, AnswerOffer, AnswerSent, GetBad, GetBuggy, ReadJSONFails, ReaderDone,
           waiter
  <1>3. QED
    BY <1>1, <1>2, WaiterGoes DEF WaiterInv

LEMMA GathererWaiter ==
    ASSUME WaiterInv, UNCHANGED <<kind, handler, dial>>,
           (Gatherer /\ kind = "server") \/ ClientGatherer
    PROVE  WaiterInv'
  <1>1. CASE Gatherer /\ kind = "server"
    <2>1. \/ UNCHANGED <<state, group, mu>>
          \/ SendAnswer!WaitBegins("gatherer") \/ SendAnswer!WaitReturns("gatherer")
      BY <1>1 DEF Gatherer, Gathered, GathererGoesOn, SendCandidate, Answered, waiter
    <2>2. QED
      BY <1>1, <2>1, WaiterGoes DEF WaiterInv
  <1>2. CASE ClientGatherer
    <2>1. \/ UNCHANGED <<state, group, mu>>
          \/ SendAnswer!WaitBegins("gatherer") \/ SendAnswer!WaitReturns("gatherer")
      BY <1>2 DEF ClientGatherer, ClientGathered, ClientGoesOn, ClientSends, ClientSendFails,
             ClientSendDone, Answered, waiter
    <2>2. gatherer' = "wait" => gatherer = "wait" \/ kind # "go2rtc"
      BY <1>2 DEF ClientGatherer, ClientGathered, ClientGoesOn, ClientSends, ClientSendFails,
             ClientSendDone, GathererGoes
    <2>3. QED
      BY <2>1, <2>2, WaiterGoes DEF WaiterInv
  <1>3. QED
    BY <1>1, <1>2

(* The rest does not know of sendAnswer.                                   *)
LEMMA OthersWaiter ==
    ASSUME WaiterInv,
           \/ Events \/ ServerSends \/ ServerIsBuggy \/ ServerCloses \/ PeerEnds \/ PeerDrops
           \/ (\E c \in Remote : CandidateHandler(c)) /\ UNCHANGED <<kind, dial>>
           \/ UNCHANGED clientVars
    PROVE  WaiterInv'
  <1>1. UNCHANGED <<state, group, mu, kind, handler, dial, gatherer>>
    <2>1. CASE Events
      BY <2>1 DEF Events, EventBegins, EventDone, Calling, Handling, server, waiter
    <2>2. CASE (\E c \in Remote : CandidateHandler(c)) /\ UNCHANGED <<kind, dial>>
      BY <2>2 DEF CandidateHandler, gather, waiter
    <2>3. QED
      BY <2>1, <2>2 DEF ServerSends, ServerIsBuggy, ServerCloses, PeerEnds, PeerDrops, PeerGoes,
             Outside, clientVars, vars, waiter, gather
  <1>2. QED
    BY <1>1 DEF WaiterInv

(* "protect from blocking on errors", for the server and every client,     *)
(* whatever fails: a candidate that waits for the description waits for a  *)
(* call that is still to finish.                                           *)
THEOREM WaitsAreEnded == ClientSpec => []WaitsForSomeone
  <1>1. ClientInit => WaiterInv
    BY DEF ClientInit, Init, SendAnswer!WaiterInit, SendAnswer!Free, WaiterInv
  <1>2. ASSUME WaiterInv, [ClientNext]_clientVars PROVE WaiterInv'
    <2>1. CASE Signalling
      <3>1. kind = "server" /\ UNCHANGED <<kind, dial>>
        BY <2>1 DEF Signalling
      <3>2. CASE Gatherer
        <4>1. UNCHANGED handler
          BY <3>2 DEF Gatherer, Gathered, GathererGoesOn, SendCandidate
        <4>2. QED
          BY <1>2, <3>1, <3>2, <4>1, GathererWaiter
      <3>3. QED
        BY <1>2, <2>1, <3>1, <3>2, HandlerWaiter, OthersWaiter DEF Signalling, Signal
    <2>2. CASE Clients
      <3>1. ClientGatherer => UNCHANGED <<kind, handler, dial>>
        BY DEF ClientGatherer, ClientGathered, ClientGoesOn, ClientSends, ClientSendFails,
               ClientSendDone, Calling, server
      <3>2. QED
        BY <1>2, <2>2, <3>1, DialWaiter, ReaderWaiter, GathererWaiter, OthersWaiter DEF Clients
    <2>3. QED
      BY <1>2, <2>1, <2>2, OthersWaiter DEF ClientNext
  <1>3. WaiterInv => WaitsForSomeone
    BY DEF WaiterInv, WaitsForSomeone
  <1>4. QED
    BY <1>1, <1>2, <1>3, PTL DEF ClientSpec
=============================================================================
