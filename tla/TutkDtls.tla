------------------------------- MODULE TutkDtls -------------------------------
(***************************************************************************)
(* A connection to a Wyze camera: pkg/wyze/client.go and producer.go on    *)
(* DTLSConn of pkg/tutk/dtls/conn_dtls.go. Dial finds the camera, opens    *)
(* DTLS, logs in and asks some questions; then Start reads packets, a      *)
(* consumer that talks sends one more command, and Close ends everything.  *)
(* Goroutines: a reader of the UDP socket, a worker that reads DTLS, and   *)
(* the ticker that acknowledges. Camera and network are external.          *)
(*                                                                         *)
(* A command is repeated every second until an answer of its kind comes or *)
(* its time is over, or longer; the login, command 1, is not. Answers say  *)
(* their kind and not the command they are for. How the packets of a frame *)
(* are put together is in TutkFramesAV.                                    *)
(***************************************************************************)
EXTENDS Integers, Sequences, FiniteSets

CONSTANTS
    Kinds,      \* Kinds[n]: the kind of answer that command n waits for
    Asked,      \* commands 2..Asked are sent by Dial, the others by AddTrack
    Flying,     \* bound: so many commands and answers are on the way at most
    BufSize,    \* of clientBuf: 64 in the code
    CmdSize     \* of rawCmd: 16 in the code

ASSUME KindsAssumption == Kinds \in Seq(STRING) /\ Asked \in 1..Len(Kinds)
ASSUME SizesAssumption == Flying \in Nat \ {0} /\ BufSize \in Nat \ {0} /\ CmdSize \in Nat \ {0}

Commands == 1..Len(Kinds)
Media == 0

VARIABLES
    main,       \* who dials and starts: where it is
    talk,       \* a consumer in AddTrack: idle, waits for its command, serves
    closer,     \* Close: none, cancel, lock, wait, socket, done
    cmd,        \* the command that is waited for, or 0
    last,       \* the last command that was begun
    sent,       \* cmd has been written
    result,     \* what each command returned
    ringing,    \* commands whose timer was set again after they returned
    ctxDone, clientConn, serverConn, frames, socket,    \* as in DTLSConn
    clientBuf, rawCmd,      \* its channels: answers by their command, or Media
    reader, worker, ticker, \* the goroutines
    crashed,    \* a method was called on a nil pointer
    net,        \* commands on the way
    answers,    \* answers on the way
    arrived     \* commands the camera has received

calls == <<main, talk, closer>>
waiting == <<cmd, last, sent, result, ringing>>
conn == <<ctxDone, clientConn, serverConn, frames, socket>>
queues == <<clientBuf, rawCmd>>
routines == <<reader, worker, ticker, crashed>>
outside == <<net, answers, arrived>>
vars == <<calls, waiting, conn, queues, routines, outside>>

TypeOK ==
    /\ main \in {"discovery", "session", "connect", "login", "auth", "probe", "start", "ended", "failed"}
    /\ talk \in {"idle", "command", "serve"}
    /\ closer \in {"none", "cancel", "lock", "wait", "socket", "done"}
    /\ cmd \in 0..Len(Kinds) /\ last \in 0..Len(Kinds) /\ sent \in BOOLEAN
    /\ result \in [Commands -> {"none", "ok", "error"}] /\ ringing \subseteq Commands
    /\ ctxDone \in BOOLEAN /\ socket \in BOOLEAN
    /\ clientConn \in {"none", "open", "nil"} /\ serverConn \in BOOLEAN
    /\ frames \in {"none", "empty", "packet", "closed"}
    /\ clientBuf \in Seq(Commands \cup {Media}) /\ rawCmd \in Seq(Commands)
    /\ reader \in {"none", "run", "ended"}
    /\ worker \in {"none", "checked", "read", "ended"}
    /\ ticker \in {"none", "run", "ended"}
    /\ crashed \in BOOLEAN
    /\ net \subseteq Commands /\ answers \subseteq Commands
    /\ arrived \subseteq Commands

Init ==
    /\ main = "discovery" /\ talk = "idle" /\ closer = "none"
    /\ cmd = 0 /\ last = 0 /\ sent = FALSE /\ result = [n \in Commands |-> "none"]
    /\ ringing = {}
    /\ ctxDone = FALSE /\ clientConn = "none" /\ serverConn = FALSE
    /\ frames = "none" /\ socket = TRUE
    /\ clientBuf = <<>> /\ rawCmd = <<>>
    /\ reader = "none" /\ worker = "none" /\ ticker = "none" /\ crashed = FALSE
    /\ net = {} /\ answers = {} /\ arrived = {}

(* Every step of the process ends with a crash.                            *)
Up == ~crashed

-----------------------------------------------------------------------------
(* Dial.                                                                   *)

(* Mutant: a Dial that fails leaves the connection as it is.               *)
FailsMutant == main' = "failed" /\ closer' = "done"

(* Dial closes what it has opened.                                         *)
Fails == main' = "failed" /\ closer' = "cancel"

(* IOTC or CC51: the first answer decides; five seconds without one.       *)
Discovery ==
    /\ Up /\ main = "discovery"
    /\ \/ main' = "session" /\ UNCHANGED closer
       \/ Fails
    /\ UNCHANGED <<talk, waiting, conn, queues, routines, outside>>

(* discoDone, discoDoneCC51: WriteAndWait asks each second until the       *)
(* deadline; then DialDTLS makes the channels and starts the reader.       *)
Session ==
    /\ Up /\ main = "session"
    /\ \/ main' = "connect" /\ frames' = "empty" /\ reader' = "run" /\ UNCHANGED closer
       \/ Fails /\ UNCHANGED <<frames, reader>>
    /\ UNCHANGED <<talk, waiting, ctxDone, clientConn, serverConn, socket, queues,
                   worker, ticker, crashed, outside>>

(* The DTLS handshake, and the worker.                                     *)
Connect ==
    /\ Up /\ main = "connect"
    /\ \/ main' = "login" /\ clientConn' = "open" /\ worker' = "checked" /\ UNCHANGED closer
       \/ Fails /\ UNCHANGED <<clientConn, worker>>
    /\ UNCHANGED <<talk, waiting, ctxDone, serverConn, frames, socket, queues,
                   reader, ticker, crashed, outside>>

Begins(n) == cmd' = n /\ last' = n /\ sent' = FALSE

(* The commands of Dial, one after the other: the login, the two of doKAuth *)
(* and SetResolution.                                                      *)
DialCommand ==
    /\ Up /\ main \in {"login", "auth"} /\ cmd = 0 /\ last < Asked
    /\ Begins(last + 1)
    /\ UNCHANGED <<calls, result, ringing, conn, queues, routines, outside>>

-----------------------------------------------------------------------------
(* WriteAndWaitIOCtrl, and AVClientStart for the login.                    *)

OnTheWay(n) ==
    /\ clientConn = "open"
    /\ Cardinality(net \cup {n}) + Cardinality(answers) <= Flying
    /\ net' = net \cup {n}

(* The timer writes the command, again each second, and not the login.     *)
Write ==
    /\ Up /\ cmd # 0 /\ OnTheWay(cmd)
    /\ sent => cmd # 1
    /\ sent' = TRUE
    /\ UNCHANGED <<calls, cmd, last, result, ringing, conn, queues, routines, answers, arrived>>

(* The command stops its timer, but the function of the timer may be in    *)
(* its write, and sets the timer again: that goes on until Close.          *)
Returns(res) ==
    /\ cmd' = 0
    /\ result' = [result EXCEPT ![cmd] = res]
    /\ \/ ringing' = ringing
       \/ sent /\ cmd # 1 /\ clientConn = "open" /\ ringing' = ringing \cup {cmd}
    /\ UNCHANGED <<last, sent>>

Rings ==
    /\ Up /\ \E n \in ringing : OnTheWay(n)
    /\ UNCHANGED <<calls, waiting, conn, queues, routines, answers, arrived>>

(* The ticker that acknowledges begins with the login. A login or a        *)
(* question of doKAuth that failed ends Dial; SetResolution is not looked  *)
(* at, and probe begins.                                                   *)
GoesOn(res) ==
    \/ /\ cmd < Asked /\ res = "ok"
       /\ main' = "auth"
       /\ ticker' = IF cmd = 1 THEN "run" ELSE ticker
       /\ UNCHANGED <<talk, closer>>
    \/ /\ cmd < Asked /\ res = "error"
       /\ Fails
       /\ UNCHANGED <<talk, ticker>>
    \/ /\ cmd = Asked
       /\ main' = "probe"
       /\ UNCHANGED <<talk, closer, ticker>>
    \/ /\ cmd > Asked
       /\ talk' = IF res = "ok" THEN "serve" ELSE "idle"
       /\ UNCHANGED <<main, closer, ticker>>

(* Mutant: any answer will do.                                             *)
MatchesMutant(n) == TRUE

Matches(n) == Kinds[n] = Kinds[cmd]

TakeAnswer ==
    /\ Up /\ cmd # 0 /\ rawCmd # <<>>
    /\ rawCmd' = Tail(rawCmd)
    /\ IF Matches(Head(rawCmd))
       THEN Returns("ok") /\ GoesOn("ok")
       ELSE UNCHANGED <<waiting, calls, ticker>>
    /\ UNCHANGED <<conn, clientBuf, reader, worker, crashed, outside>>

(* The timer fires; the login fails also when it cannot be written.        *)
TimeOut ==
    /\ Up /\ cmd # 0
    /\ Returns("error") /\ GoesOn("error")
    /\ UNCHANGED <<conn, queues, reader, worker, crashed, outside>>

-----------------------------------------------------------------------------
(* ReadPacket, in probe and in Start. Their deadlines are for the socket,  *)
(* whose reader sets its own: nothing ends them but a packet and Close.    *)

Probe ==
    /\ Up /\ main = "probe" /\ frames = "packet"
    /\ frames' = "empty"
    /\ main' \in {"probe", "start"}
    /\ UNCHANGED <<talk, closer, waiting, ctxDone, clientConn, serverConn, socket, queues,
                   routines, outside>>

(* Mutant: a packet or nothing.                                            *)
ReadEndsMutant == FALSE

(* The channel is closed, or the context is done.                          *)
ReadEnds == frames = "closed" \/ ctxDone

Start ==
    /\ Up /\ main = "start"
    /\ \/ frames = "packet" /\ frames' = "empty" /\ UNCHANGED main
       \/ ReadEnds /\ main' = "ended" /\ UNCHANGED frames
    /\ UNCHANGED <<talk, closer, waiting, ctxDone, clientConn, serverConn, socket, queues,
                   routines, outside>>

-----------------------------------------------------------------------------
(* AddTrack. Producers hold their mutex over AddTrack and over Stop.       *)

StartIntercom ==
    /\ Up /\ main \in {"start", "ended"} /\ talk = "idle" /\ closer = "none"
    /\ ~serverConn /\ last < Len(Kinds)
    /\ talk' = "command"
    /\ Begins(last + 1)
    /\ UNCHANGED <<main, closer, result, ringing, conn, queues, routines, outside>>

(* The camera opens DTLS the other way, and logs in; or does not.          *)
AVServStart ==
    /\ Up /\ talk = "serve"
    /\ serverConn' \in BOOLEAN
    /\ talk' = "idle"
    /\ UNCHANGED <<main, closer, waiting, ctxDone, clientConn, frames, socket, queues,
                   routines, outside>>

-----------------------------------------------------------------------------
(* Close. What StopIntercom writes goes to a socket without an address,    *)
(* and fails: it only ends serverConn.                                     *)

Stop ==
    /\ Up /\ main \in {"start", "ended"} /\ talk = "idle" /\ closer = "none"
    /\ closer' = "cancel"
    /\ serverConn' = FALSE
    /\ UNCHANGED <<main, talk, waiting, ctxDone, clientConn, frames, socket, queues,
                   routines, outside>>

Cancel ==
    /\ Up /\ closer = "cancel"
    /\ ctxDone' = TRUE
    /\ closer' = "lock"
    /\ UNCHANGED <<main, talk, waiting, clientConn, serverConn, frames, socket, queues,
                   routines, outside>>

(* A timer that finds no connection is not set again.                      *)
CloseConns ==
    /\ Up /\ closer = "lock"
    /\ serverConn' = FALSE
    /\ clientConn' = IF clientConn = "open" THEN "nil" ELSE clientConn
    /\ frames' = IF frames = "none" THEN frames ELSE "closed"
    /\ ringing' = {}
    /\ closer' = "wait"
    /\ UNCHANGED <<main, talk, cmd, last, sent, result, ctxDone, socket, queues, routines, outside>>

Running == {r \in {"reader", "worker", "ticker"} :
    \/ r = "reader" /\ reader = "run"
    \/ r = "worker" /\ worker \in {"checked", "read"}
    \/ r = "ticker" /\ ticker = "run"}

(* Mutant: Close does not wait for the goroutines.                         *)
AllDoneMutant == TRUE

(* wg.Wait                                                                 *)
AllDone == Running = {}

Wait ==
    /\ Up /\ closer = "wait" /\ AllDone
    /\ closer' = "socket"
    /\ UNCHANGED <<main, talk, waiting, conn, queues, routines, outside>>

CloseSocket ==
    /\ Up /\ closer = "socket"
    /\ socket' = FALSE
    /\ closer' = "done"
    /\ UNCHANGED <<main, talk, waiting, ctxDone, clientConn, serverConn, frames, queues,
                   routines, outside>>

-----------------------------------------------------------------------------
(* The goroutines.                                                         *)

(* queue: the oldest goes when there is no room.                           *)
Queue(q, item, size) == Append(IF Len(q) = size THEN Tail(q) ELSE q, item)

ReaderTakes ==
    /\ Up /\ reader = "run"
    /\ \E a \in answers :
        /\ answers' = answers \ {a}
        /\ clientBuf' = Queue(clientBuf, a, BufSize)
    /\ UNCHANGED <<calls, waiting, conn, rawCmd, routines, net, arrived>>

(* The socket has a deadline of a tenth of a second.                       *)
ReaderEnds ==
    /\ Up /\ reader = "run" /\ ctxDone
    /\ reader' = "ended"
    /\ UNCHANGED <<calls, waiting, conn, queues, worker, ticker, crashed, outside>>

(* The worker has looked at the context and calls c.clientConn.Read, which *)
(* it takes without the mutex: Close may have set it to nil meanwhile.     *)
WorkerCalls ==
    /\ Up /\ worker = "checked"
    /\ IF clientConn = "nil"
       THEN crashed' = TRUE /\ UNCHANGED worker
       ELSE worker' = "read" /\ UNCHANGED crashed
    /\ UNCHANGED <<calls, waiting, conn, queues, reader, ticker, outside>>

WorkerTakes ==
    /\ Up /\ worker = "read" /\ clientBuf # <<>>
    /\ clientBuf' = Tail(clientBuf)
    /\ worker' = IF ctxDone THEN "ended" ELSE "checked"
    /\ IF Head(clientBuf) = Media
       THEN /\ frames' = IF frames = "closed" THEN frames ELSE "packet"
            /\ UNCHANGED rawCmd
       ELSE /\ rawCmd' = Queue(rawCmd, Head(clientBuf), CmdSize)
            /\ UNCHANGED frames
    /\ UNCHANGED <<calls, waiting, ctxDone, clientConn, serverConn, socket, reader, ticker,
                   crashed, outside>>

(* DTLS was closed, by Close or by the camera.                             *)
WorkerEnds ==
    /\ Up /\ worker = "read"
    /\ worker' = "ended"
    /\ UNCHANGED <<calls, waiting, conn, queues, reader, ticker, crashed, outside>>

TickerEnds ==
    /\ Up /\ ticker = "run" /\ ctxDone
    /\ ticker' = "ended"
    /\ UNCHANGED <<calls, waiting, conn, queues, reader, worker, crashed, outside>>

(* It has looked at clientConn before Close set it to nil, and writes. When *)
(* there is no Close it acknowledges and nothing changes.                  *)
TickerWrites ==
    /\ Up /\ ticker = "run" /\ clientConn = "nil"
    /\ crashed' = TRUE
    /\ UNCHANGED <<calls, waiting, conn, queues, reader, worker, ticker, outside>>

-----------------------------------------------------------------------------
(* Camera and network.                                                     *)

CameraAnswers ==
    /\ \E n \in net : net' = net \ {n} /\ answers' = answers \cup {n} /\ arrived' = arrived \cup {n}
    /\ UNCHANGED <<calls, waiting, conn, queues, routines>>

(* Media come as long as the reader takes them.                            *)
CameraSends ==
    /\ \A n \in 1..(Asked - 1) : n \in arrived
    /\ reader = "run" /\ ~ctxDone
    /\ clientBuf' = Queue(clientBuf, Media, BufSize)
    /\ UNCHANGED <<calls, waiting, conn, rawCmd, routines, outside>>

Lose(a) ==
    /\ \/ a \in net /\ net' = net \ {a} /\ UNCHANGED answers
       \/ a \in answers /\ answers' = answers \ {a} /\ UNCHANGED net
    /\ UNCHANGED <<calls, waiting, conn, queues, routines, arrived>>

Dial == Discovery \/ Session \/ Connect \/ DialCommand
Command == Write \/ Rings \/ TakeAnswer \/ TimeOut
Close == Cancel \/ CloseConns \/ Wait \/ CloseSocket
Worker == WorkerCalls \/ WorkerTakes \/ WorkerEnds
Ticker == TickerEnds \/ TickerWrites
Camera == CameraAnswers \/ CameraSends \/ \E a \in Commands : Lose(a)

Next ==
    \/ Dial \/ Command \/ Probe \/ Start \/ StartIntercom \/ AVServStart
    \/ Stop \/ Close \/ ReaderTakes \/ ReaderEnds \/ Worker \/ Ticker \/ Camera

Spec == Init /\ [][Next]_vars

(* Goroutines run and timers fire; what is on the way arrives or is lost;  *)
(* a Read of a closed DTLS connection returns.                             *)
FairSpec ==
    /\ Spec
    /\ WF_vars(Dial) /\ WF_vars(TakeAnswer) /\ WF_vars(TimeOut) /\ WF_vars(AVServStart)
    /\ WF_vars(Start /\ main' = "ended")
    /\ WF_vars(Close)
    /\ WF_vars(ReaderEnds) /\ WF_vars(WorkerCalls) /\ WF_vars(WorkerTakes)
    /\ WF_vars(WorkerEnds /\ ctxDone) /\ WF_vars(TickerEnds)
    /\ \A n \in Commands : WF_vars(Lose(n))

-----------------------------------------------------------------------------
(* Properties.                                                             *)

(* After Close, and after a Dial that failed, nothing is left: no          *)
(* goroutine of the connection, no DTLS connection and no socket.          *)
NothingLeft ==
    closer = "done" =>
        Running = {} /\ ~socket /\ clientConn # "open" /\ ~serverConn

(* A command that returned an answer has reached the camera, the first of  *)
(* its kind. For a later one the second answer to a repeated command may   *)
(* be taken.                                                               *)
AnsweredHasArrived ==
    \A n \in Commands :
        result[n] = "ok" /\ (\A m \in 1..(n - 1) : Kinds[m] # Kinds[n]) => n \in arrived

(* The nil that Close leaves in clientConn is met, if it is, while Close   *)
(* waits for the goroutines: not before it, and not once it is over.       *)
NilInCloseOnly == crashed => closer = "wait"

(* So Close leaves nothing behind, and nobody to meet what it has cleared. *)
CloseIsClean == NothingLeft /\ NilInCloseOnly

(* Every command returns, Close returns, and it ends Start: unless one of  *)
(* the goroutines met the nil that Close leaves.                           *)
EveryCallReturns ==
    /\ \A n \in Commands : (cmd = n) ~> (result[n] # "none" \/ crashed)
    /\ (closer = "cancel") ~> (closer = "done" \/ crashed)
    /\ (main = "start" /\ closer = "cancel") ~> (main = "ended" \/ crashed)
=============================================================================
