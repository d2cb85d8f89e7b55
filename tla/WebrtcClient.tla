---------------------------- MODULE WebrtcClient -----------------------------
(***************************************************************************)
(* The other side of WebRTC signalling: go2rtc as the client of a camera,  *)
(* go2rtcClient, kinesisClient and openIPCClient of internal/webrtc and    *)
(* Dial of pkg/ring. The dialling goroutine creates a peer connection,     *)
(* sends its offer (openipc: its reader answers one) and waits on          *)
(* connState, a second Waiter that the reader of the WebSocket, the        *)
(* candidate callback and the state callback of the peer connection        *)
(* finish. kind says which client runs; "server" is WebrtcSignal, which    *)
(* shares the candidate callback and the first Waiter with the clients.    *)
(* The signalling server and the peer connection are external.             *)
(***************************************************************************)
EXTENDS WebrtcSignal

CONSTANTS
    Kinds,      \* the clients to run, and "server"
    Messages    \* how many messages the signalling server sends

ASSUME KindsAssumption == Kinds \subseteq {"server", "go2rtc", "kinesis", "openipc", "ring"}
ASSUME MessagesAssumption == Messages \in Nat

VARIABLES
    kind,
    dial,       \* the dialling goroutine's place
    err,        \* its variable err, which callbacks assign too
    returned    \* what it returns: a connection, an error, or nil and nil
VARIABLES
    cState, cGroup, cMu, cPc,   \* connState
    cErr        \* its err
VARIABLES
    ws,         \* the WebSocket is open
    inbox,      \* messages on the way from the server
    sent,       \* how many the server has sent
    reader,     \* the goroutine that reads them
    told        \* ring: what onWSMessage or onError passes on
VARIABLES
    peer,       \* the state of the peer connection
    remote,     \* it has a remote description
    events,     \* states its callbacks have not handled
    event       \* the one that is being handled
VARIABLES
    torn,       \* history: err was read and assigned at the same time
    deaf,       \* history: an answer or the end of the WebSocket was ignored
    seen        \* history: the connection was up

ConnState == INSTANCE Waiter WITH
    Callers <- {"dial", "gatherer", "reader", "events"},
    state <- cState, group <- cGroup, mu <- cMu, pc <- cPc

connState == <<cState, cGroup, cMu, cPc, cErr>>
socket == <<ws, inbox, sent>>
pion == <<peer, remote, events>>
history == <<torn, deaf, seen>>
server == <<handler, result, unread, ctx>>
clientVars == <<vars, kind, dial, err, returned, connState, socket, reader, told,
                pion, event, history>>

ClientInit ==
    /\ Init /\ kind \in Kinds
    /\ dial = (IF kind = "server" THEN "out" ELSE "begin")
    /\ err = "nil" /\ returned = "none"
    /\ ConnState!WaiterInit /\ cErr = "nil"
    /\ ws = TRUE /\ inbox = <<>> /\ sent = 0
    /\ reader = (IF kind = "ring" THEN "read" ELSE "off") /\ told = "nil"
    /\ peer = "new" /\ remote = FALSE /\ events = {} /\ event = "none"
    /\ torn = FALSE /\ deaf = FALSE /\ seen = FALSE

DialGoes(from, to) == dial = from /\ dial' = to

(* Done(e) of connState ends: the last Done leaves its error, after it has *)
(* released those who wait.                                                *)
ConnDoneEnds(caller, e) ==
    /\ ConnState!DoneEnds(caller)
    /\ cErr' = IF cState = 0 THEN e ELSE cErr

(* PeerConnection.Close, and Stop of ring's Client, which closes both.     *)
ClosePeer ==
    /\ peer' = "closed"
    /\ events' = IF peer = "closed" THEN events ELSE events \cup {"closed"}
    /\ UNCHANGED remote

Stop == ClosePeer /\ ws' = FALSE

-----------------------------------------------------------------------------
(* The dialling goroutine.                                                 *)

Dialling == UNCHANGED <<kind, server, gatherer, left, told, event, sent>>

(* return nil, err                                                         *)
Return(at, e) ==
    /\ DialGoes(at, "deferred")
    /\ err' = e
    /\ returned' = IF e = "nil" THEN "nothing" ELSE "error"

(* CreateOffer gathers candidates from here on; openipc starts its reader. *)
CreateOffer ==
    /\ DialGoes("begin", IF kind = "openipc" THEN "wait" ELSE "write")
    /\ gathering' = (kind # "openipc")
    /\ reader' = IF kind = "openipc" THEN "read" ELSE reader
    /\ Dialling /\ UNCHANGED <<waiter, out, err, returned, connState, ws, inbox, pion, history>>

(* A write to a WebSocket that the other side has closed may succeed.      *)
SendOffer ==
    /\ DialGoes("write", IF kind = "go2rtc" THEN "answer" ELSE "done")
    /\ out' = IF ws THEN Append(out, "sdp") ELSE out
    /\ Dialling /\ UNCHANGED <<waiter, gathering, err, returned, connState, ws, inbox, reader, pion, history>>

SendOfferFails ==
    /\ ~ws /\ kind # "go2rtc"
    /\ Return("write", "error")
    /\ IF kind = "ring" THEN Stop ELSE UNCHANGED <<ws, pion>>
    /\ Dialling /\ UNCHANGED <<waiter, gathering, out, connState, inbox, reader, history>>

(* sendOffer.Done(nil); kinesis starts its reader.                         *)
OfferSent ==
    /\ \/ /\ dial = "done" /\ UNCHANGED <<dial, reader>>
          /\ SendAnswer!DoneBegins("handler")
       \/ /\ DialGoes("done", "wait")
          /\ SendAnswer!DoneEnds("handler")
          /\ reader' = IF kind = "kinesis" THEN "read" ELSE reader
    /\ Dialling /\ UNCHANGED <<gathering, out, err, returned, connState, ws, inbox, pion, history>>

(* go2rtc reads the answer itself, and starts its reader then.             *)
ReadAnswer ==
    /\ inbox # <<>> /\ Head(inbox) = "answer" /\ inbox' = Tail(inbox)
    /\ DialGoes("answer", "wait")
    /\ remote' = TRUE /\ reader' = "read"
    /\ Dialling /\ UNCHANGED <<waiter, gathering, out, err, returned, connState, ws, peer, events, history>>

ReadAnswerFails ==
    /\ \/ inbox # <<>> /\ Head(inbox) # "answer" /\ inbox' = Tail(inbox)
       \/ ~ws /\ UNCHANGED inbox
    /\ Return("answer", "error")
    /\ Dialling /\ UNCHANGED <<waiter, gathering, out, connState, ws, reader, pion, history>>

Wait ==
    /\ DialGoes("wait", "waiting")
    /\ ConnState!WaitBegins("dial")
    /\ Dialling /\ UNCHANGED <<cErr, waiter, gathering, out, err, returned, ws, inbox, reader, pion, history>>

(* Wait returns w.err, which it reads without the mutex.                   *)
WaitReturns ==
    /\ DialGoes("waiting", "check")
    /\ ConnState!WaitReturns("dial")
    /\ err' = cErr
    /\ torn' = (torn \/ cMu # "free")
    /\ Dialling /\ UNCHANGED <<cErr, waiter, gathering, out, returned, ws, inbox, reader, pion, deaf, seen>>

(* if err != nil; what is returned then is the err of the next moment.     *)
Check ==
    /\ DialGoes("check", IF err = "nil" THEN "deferred" ELSE "fails")
    /\ returned' = IF err = "nil" THEN "ok" ELSE returned
    /\ Dialling /\ UNCHANGED <<waiter, gathering, out, err, connState, ws, inbox, reader, pion, history>>

Fail ==
    /\ Return("fails", err)
    /\ Dialling /\ UNCHANGED <<waiter, gathering, out, connState, ws, inbox, reader, pion, history>>

(* The deferred calls: sendOffer.Done(nil), and the WebSocket is closed;   *)
(* go2rtc has no such waiter and closes the peer connection on an error.   *)
DeferredDone ==
    /\ kind # "go2rtc"
    /\ \/ /\ dial = "deferred" /\ UNCHANGED dial
          /\ SendAnswer!DoneBegins("handler")
       \/ /\ DialGoes("deferred", "close")
          /\ SendAnswer!DoneEnds("handler")
    /\ Dialling /\ UNCHANGED <<gathering, out, err, returned, connState, ws, inbox, reader, pion, history>>

DeferredClose ==
    /\ DialGoes(IF kind = "go2rtc" THEN "deferred" ELSE "close", "out")
    /\ ws' = (ws /\ kind = "ring")
    /\ IF kind = "go2rtc" /\ returned = "error" THEN ClosePeer ELSE UNCHANGED pion
    /\ Dialling /\ UNCHANGED <<waiter, gathering, out, err, returned, connState, inbox, reader, history>>

Dial ==
    \/ CreateOffer \/ SendOffer \/ SendOfferFails \/ OfferSent
    \/ ReadAnswer \/ ReadAnswerFails
    \/ Wait \/ WaitReturns \/ Check \/ Fail
    \/ DeferredDone \/ DeferredClose

-----------------------------------------------------------------------------
(* The reader of the WebSocket.                                            *)

Reading == UNCHANGED <<kind, server, gatherer, left, dial, err, returned, event, sent, torn, seen>>

ReaderGoes(from, to) == reader = from /\ reader' = to

(* ring sets onMessage, onError and onClose after its reader has begun.    *)
Listening == kind # "ring" \/ dial # "begin"

Takes(m) == reader = "read" /\ inbox # <<>> /\ Head(inbox) = m /\ inbox' = Tail(inbox)

(* SetAnswer; ring also activates the session.                             *)
GetAnswerMsg ==
    /\ Takes("answer") /\ kind # "openipc"
    /\ remote' = TRUE
    /\ Reading /\ UNCHANGED <<waiter, gathering, out, connState, ws, reader, told, peer, events, deaf>>

(* openipc: SetOffer and GetAnswer, which gathers candidates and may fail  *)
(* before it does or after.                                                *)
GetOffer ==
    /\ Takes("answer") /\ kind = "openipc"
    /\ remote' = TRUE
    /\ \/ gathering' = TRUE /\ reader' = "offered" /\ UNCHANGED told
       \/ /\ "answer" \in Faults
          /\ gathering' \in BOOLEAN /\ reader' = "ends" /\ told' = "error"
    /\ Reading /\ UNCHANGED <<waiter, out, connState, ws, peer, events, deaf>>

(* The answer is written; then sendAnswer.Done(nil).                       *)
AnswerOffer ==
    /\ \/ /\ ReaderGoes("offered", "answered")
          /\ out' = IF ws THEN Append(out, "sdp") ELSE out
          /\ UNCHANGED told
       \/ /\ ~ws /\ ReaderGoes("offered", "ends")
          /\ told' = "error" /\ UNCHANGED out
    /\ Reading /\ UNCHANGED <<waiter, gathering, connState, ws, inbox, pion, deaf>>

AnswerSent ==
    /\ \/ /\ reader = "answered" /\ UNCHANGED reader
          /\ SendAnswer!DoneBegins("reader")
       \/ /\ ReaderGoes("answered", "read")
          /\ SendAnswer!DoneEnds("reader")
    /\ Reading /\ UNCHANGED <<gathering, out, connState, ws, inbox, told, pion, deaf>>

(* A bad answer, or one that comes in the wrong state: "break" leaves the  *)
(* switch only, and the loop of kinesis goes on; the one of openipc looks  *)
(* at err. ring stops everything, and passes the error on.                 *)
GetBad ==
    /\ Takes("bad")
    /\ CASE kind = "kinesis" -> deaf' = TRUE /\ UNCHANGED <<ws, reader, told, pion>>
         [] kind = "openipc" -> reader' = "ends" /\ told' = "error" /\ UNCHANGED <<ws, pion, deaf>>
         [] kind = "ring" -> Stop /\ reader' = "ends" /\ told' = "error" /\ UNCHANGED deaf
         [] OTHER -> UNCHANGED <<ws, reader, told, pion, deaf>>
    /\ Reading /\ UNCHANGED <<waiter, gathering, out, connState>>

(* "some buggy messages": kinesis skips them; the loop of openipc does not *)
(* go on, as err is set.                                                   *)
GetBuggy ==
    /\ Takes("buggy")
    /\ reader' = (IF kind = "openipc" THEN "ends" ELSE reader)
    /\ told' = (IF kind = "openipc" THEN "error" ELSE told)
    /\ Reading /\ UNCHANGED <<waiter, gathering, out, connState, ws, pion, deaf>>

(* Mutant: the reader ends without a word.                                 *)
EndsMutant == "ended"

Ends == "ends"

(* ReadJSON fails. ring passes it on unless it has closed the WebSocket    *)
(* itself, and nobody may listen yet.                                      *)
ReadJSONFails ==
    /\ ~ws
    /\ ReaderGoes("read", IF Listening /\ (kind = "ring" => peer # "closed") THEN Ends ELSE "ended")
    /\ IF kind = "ring" /\ Listening THEN Stop ELSE UNCHANGED <<ws, pion>>
    /\ told' = "error" /\ deaf' = (deaf \/ ~Listening)
    /\ Reading /\ UNCHANGED <<waiter, gathering, out, connState, inbox>>

(* connState.Done(err)                                                     *)
ReaderDone ==
    /\ \/ /\ reader = "ends" /\ UNCHANGED reader
          /\ ConnState!DoneBegins("reader") /\ UNCHANGED cErr
       \/ /\ ReaderGoes("ends", IF kind = "ring" THEN "read" ELSE "ended")
          /\ ConnDoneEnds("reader", told)
    /\ Reading /\ UNCHANGED <<waiter, gathering, out, ws, inbox, told, pion, deaf>>

Reader ==
    \/ GetAnswerMsg \/ GetOffer \/ AnswerOffer \/ AnswerSent
    \/ GetBad \/ GetBuggy
    \/ ReadJSONFails \/ ReaderDone

-----------------------------------------------------------------------------
(* The callbacks of the peer connection.                                   *)

Calling == UNCHANGED <<kind, server, gathering, dial, returned, inbox, sent, reader, told, remote, deaf>>

(* Candidates: see WebrtcSignal. The clients of WebSockets may find it     *)
(* closed, and assign the err of the dialling goroutine.                   *)
Assigns(e) ==
    /\ err' = IF kind = "go2rtc" THEN err ELSE e
    /\ torn' = (torn \/ (kind # "go2rtc" /\ dial \in {"check", "fails"}))

ClientGathered ==
    /\ gathering /\ left > 0
    /\ IF kind = "go2rtc"
       THEN GathererGoes("idle", "send") /\ UNCHANGED waiter
       ELSE GathererGoes("idle", "wait") /\ SendAnswer!WaitBegins("gatherer")
    /\ Calling /\ UNCHANGED <<left, out, err, connState, ws, peer, events, event, torn, seen>>

ClientGoesOn ==
    /\ GathererGoes("wait", "send") /\ Answered
    /\ Calling /\ UNCHANGED <<left, out, err, connState, ws, peer, events, event, torn, seen>>

ClientSends ==
    /\ GathererGoes("send", "idle") /\ left' = left - 1
    /\ ws \/ kind \in {"go2rtc", "ring"}
    /\ out' = IF ws THEN Append(out, "candidate") ELSE out
    /\ Assigns("nil")
    /\ Calling /\ UNCHANGED <<waiter, connState, ws, peer, events, event, seen>>

ClientSendFails ==
    /\ ~ws /\ kind # "go2rtc"
    /\ GathererGoes("send", "failed") /\ left' = left - 1
    /\ Assigns("error")
    /\ Calling /\ UNCHANGED <<waiter, out, connState, ws, peer, events, event, seen>>

(* connState.Done(err)                                                     *)
ClientSendDone ==
    /\ \/ /\ gatherer = "failed" /\ UNCHANGED gatherer
          /\ ConnState!DoneBegins("gatherer") /\ UNCHANGED cErr
       \/ /\ GathererGoes("failed", "idle")
          /\ ConnDoneEnds("gatherer", "error")
    /\ Calling /\ UNCHANGED <<waiter, left, out, err, ws, peer, events, event, torn, seen>>

ClientGatherer == ClientGathered \/ ClientGoesOn \/ ClientSends \/ ClientSendFails \/ ClientSendDone

(* Every change of state is handled in a goroutine of its own, in any      *)
(* order: ring stops first, connState.Done begins.                         *)
Handling == UNCHANGED <<gatherer, left, waiter, out, err, torn, seen>>

EventBegins ==
    /\ event = "none"
    /\ ConnState!DoneBegins("events") /\ UNCHANGED cErr
    /\ \E e \in events :
          /\ event' = e
          /\ IF kind = "ring" /\ e # "connected"
             THEN /\ ws' = FALSE /\ peer' = "closed"
                  /\ events' = (events \ {e}) \cup IF peer = "closed" THEN {} ELSE {"closed"}
             ELSE events' = events \ {e} /\ UNCHANGED <<ws, peer>>
    /\ Calling /\ Handling

(* Mutant: a connection that failed is reported like one that is up.       *)
OutcomeMutant == "nil"

Outcome == IF event = "connected" THEN "nil" ELSE "error"

(* connState.Done ends, and Conn closes a connection that is not up.       *)
EventDone ==
    /\ event # "none" /\ event' = "none"
    /\ ConnDoneEnds("events", Outcome)
    /\ IF event = "connected" THEN UNCHANGED <<peer, events>>
       ELSE /\ peer' = "closed"
            /\ events' = IF peer = "closed" THEN events ELSE events \cup {"closed"}
    /\ Calling /\ Handling /\ UNCHANGED ws

Events == EventBegins \/ EventDone

Clients == kind # "server" /\ (Dial \/ Reader \/ ClientGatherer \/ Events)

-----------------------------------------------------------------------------
(* The signalling server and the peer connection.                          *)

Outside == UNCHANGED <<vars, kind, dial, err, returned, connState, reader, told, event, torn, deaf>>

(* The answer (to openipc: the offer), once, or what the client cannot     *)
(* use, like a candidate before the answer. Other candidates change        *)
(* nothing here.                                                           *)
ServerSends ==
    /\ kind # "server" /\ ws /\ sent < Messages
    /\ kind = "openipc" \/ out # <<>>
    /\ \E m \in {"answer", "bad"} :
          /\ m = "answer" => ~remote /\ inbox = <<>>
          /\ inbox' = Append(inbox, m)
    /\ sent' = sent + 1
    /\ Outside /\ UNCHANGED <<ws, pion, seen>>

ServerIsBuggy ==
    /\ kind \in {"kinesis", "openipc"} /\ ws /\ sent = 0 /\ inbox = <<>>
    /\ inbox' = <<"buggy">>
    /\ Outside /\ UNCHANGED <<ws, sent, pion, seen>>

ServerCloses ==
    /\ kind # "server" /\ ws /\ ws' = FALSE
    /\ Outside /\ UNCHANGED <<inbox, sent, pion, seen>>

PeerGoes(to) ==
    /\ peer' = to /\ seen' = (seen \/ to = "connected")
    /\ events' = events \cup {to}
    /\ Outside /\ UNCHANGED <<socket, remote>>

(* A connection comes up between two who have each other's description.    *)
PeerEnds ==
    /\ peer = "new" /\ remote
    /\ \/ (\E i \in DOMAIN out : out[i] = "sdp") /\ PeerGoes("connected")
       \/ PeerGoes("failed")

PeerDrops == peer = "connected" /\ PeerGoes("failed")

Signalling ==
    /\ kind = "server" /\ Signal
    /\ UNCHANGED <<kind, dial, err, returned, connState, socket, reader, told, pion, event, history>>

ClientNext ==
    \/ Clients
    \/ ServerSends \/ ServerIsBuggy \/ ServerCloses
    \/ PeerEnds \/ PeerDrops
    \/ Signalling

ClientSpec == ClientInit /\ [][ClientNext]_clientVars

(* Goroutines run; a server that is waited for answers or goes away; a     *)
(* connection that is tried comes up or fails.                             *)
ClientFairSpec ==
    /\ ClientSpec
    /\ WF_clientVars((Signalling /\ AsyncHandler) \/ (Clients /\ Dial))
    /\ WF_clientVars((Signalling /\ Gatherer) \/ (Clients /\ ClientGatherer))
    /\ \A c \in Remote : WF_clientVars(Signalling /\ CandidateHandler(c))
    /\ WF_clientVars(Clients /\ Reader) /\ WF_clientVars(Clients /\ Events)
    /\ WF_clientVars(sent = 0 /\ (ServerSends \/ ServerCloses)) /\ WF_clientVars(PeerEnds)

-----------------------------------------------------------------------------
(* Properties.                                                             *)

(* "protect from sending ICE candidate before Offer": the other side gets  *)
(* the offer or the answer before any candidate, whichever goroutine is    *)
(* faster, unless the call has failed: with an error, or with a connection *)
(* that was not up, see OkIsConnected. A go2rtc server collects early      *)
(* candidates, and go2rtcClient does not wait.                             *)
Failed == result = "error" \/ returned = "error" \/ (returned # "none" /\ ~seen)

DescriptionFirst ==
    kind # "go2rtc" /\ ~Failed =>
        \A i \in DOMAIN out : out[i] = "candidate" => \E j \in 1..(i - 1) : out[j] = "sdp"

(* Candidates of both directions are where they belong: those of this side *)
(* behind the description, those of the other in the connection, once.     *)
CandidatesInPlace == DescriptionFirst /\ OnceEach

(* "waiter will wait PC error or WS error or nil (connection OK)": what    *)
(* is returned as connected was, and an error is returned as one. It holds *)
(* unless an error is read while another goroutine assigns it.             *)
OkIsConnected == ~torn => (returned = "ok" => seen) /\ returned # "nothing"

(* Nobody waits for the description of a call that is over, whatever       *)
(* failed: what ends the wait is still to come, or has come.               *)
WaitsForSomeone ==
    gatherer = "wait" /\ group # 0 => (IF kind = "server" THEN handler ELSE dial) # "out"

(* A call returns, whatever fails, unless the failure was not noticed.     *)
DialReturns == dial # "out" ~> dial = "out" \/ deaf
=============================================================================
