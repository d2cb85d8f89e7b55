----------------------------- MODULE RtspServer -----------------------------
(***************************************************************************)
(* The RTSP server and the programs that publish to it: tcpHandler of      *)
(* internal/rtsp, Accept and Handle of pkg/rtsp, and internal/exec with    *)
(* the Command of pkg/shell. Each connection has a goroutine; a call of    *)
(* exec is a dial of a stream's producer.                                  *)
(*                                                                         *)
(* A call registers a channel under the path of its source, runs the       *)
(* program and waits until a connection for that path is handed over, the  *)
(* program ends, or the time is up. All calls of the model have one path,  *)
(* as the streams with the same source have. Clients and programs are      *)
(* external; they send their requests in the order that Accept names,      *)
(* TEARDOWN at any of them, may stop anywhere, and have one connection     *)
(* each.                                                                   *)
(***************************************************************************)
EXTENDS Integers, FiniteSets

CONSTANTS
    Others,     \* clients that no call of exec has started
    Calls       \* calls of exec; the program of a call has its name

Clients == Others \cup Calls
None == "none"

VARIABLES
    pc,         \* tcpHandler: none, accept, handle, handed, done
    asked,      \* the last request: none, offer (ANNOUNCE, DESCRIBE), setup,
                \* go (PLAY, RECORD), teardown
    peer, sock, \* its ends of the connection: the client's and the server's
    state,      \* none, setup, play
    closer,     \* what removes the connection from its stream
    listed,     \* its stream has it as a consumer or producer
    waiter,     \* the call whose channel waits for the path
    chan,       \* the connection in the channel of a call
    call,       \* idle, wait, failed, got, stopped
    replaces,   \* the call whose connection reconnect will stop for this one's
    prod,       \* the connection that the call returned
    program,    \* none, runs, ended
    cancelled   \* its context

conns == <<pc, asked, peer, sock, state, closer, listed>>
execs == <<waiter, chan, call, replaces, prod, program, cancelled>>
vars == <<conns, execs>>

Init ==
    /\ pc = [c \in Clients |-> "none"] /\ asked = [c \in Clients |-> "none"]
    /\ peer = [c \in Clients |-> FALSE] /\ sock = [c \in Clients |-> FALSE]
    /\ state = [c \in Clients |-> "none"]
    /\ closer = [c \in Clients |-> FALSE] /\ listed = [c \in Clients |-> FALSE]
    /\ waiter = None /\ chan = [x \in Calls |-> None] /\ prod = [x \in Calls |-> None]
    /\ call = [x \in Calls |-> "idle"] /\ replaces = [x \in Calls |-> None]
    /\ program = [x \in Calls |-> "none"] /\ cancelled = [x \in Calls |-> FALSE]

-----------------------------------------------------------------------------
(* Connections. A request of the client is read and answered in one step.  *)

Connect(c) ==
    /\ pc[c] = "none" /\ (c \in Calls => program[c] = "runs")
    /\ pc' = [pc EXCEPT ![c] = "accept"]
    /\ peer' = [peer EXCEPT ![c] = TRUE] /\ sock' = [sock EXCEPT ![c] = TRUE]
    /\ UNCHANGED <<asked, state, closer, listed, execs>>

Asks(c, before, now) ==
    /\ pc[c] = "accept" /\ peer[c] /\ asked[c] = before
    /\ asked' = [asked EXCEPT ![c] = now]

(* ANNOUNCE adds a producer. There is no stream for the path of a program. *)
Announce(c) ==
    /\ Asks(c, "none", "offer")
    /\ listed' = [listed EXCEPT ![c] = c \in Others]
    /\ closer' = [closer EXCEPT ![c] = c \in Others]
    /\ UNCHANGED <<pc, peer, sock, state, execs>>

(* DESCRIBE adds a consumer. One that could not be added gets a 404, and   *)
(* Accept ends without an error.                                           *)
Describe(c) ==
    /\ c \in Others /\ Asks(c, "none", "offer")
    /\ \E ok \in BOOLEAN :
        /\ listed' = [listed EXCEPT ![c] = ok]
        /\ closer' = [closer EXCEPT ![c] = ok]
        /\ pc' = [pc EXCEPT ![c] = IF ok THEN "accept" ELSE "done"]
        /\ sock' = [sock EXCEPT ![c] = ok]
    /\ UNCHANGED <<peer, state, execs>>

Setup(c) ==
    /\ Asks(c, "offer", "setup")
    /\ state' = [state EXCEPT ![c] = "setup"]
    /\ UNCHANGED <<pc, peer, sock, closer, listed, execs>>

(* Mutant: the closer is not called when Accept fails.                     *)
LeavesMutant(c) ==
    /\ listed' = [listed EXCEPT ![c] = listed[c] /\ ~(closer[c] /\ pc[c] = "handle")]
    /\ sock' = [sock EXCEPT ![c] = FALSE]
    /\ pc' = [pc EXCEPT ![c] = "done"]

(* closer and Close.                                                       *)
Leaves(c) ==
    /\ listed' = [listed EXCEPT ![c] = listed[c] /\ ~closer[c]]
    /\ sock' = [sock EXCEPT ![c] = FALSE]
    /\ pc' = [pc EXCEPT ![c] = "done"]

(* The handler of exec takes the connections of its path, when there is    *)
(* room in the channel.                                                    *)
Takes(c) == c \in Calls /\ waiter # None /\ chan[waiter] = None

HandedOver(c) ==
    /\ Takes(c)
    /\ chan' = [chan EXCEPT ![waiter] = c]
    /\ pc' = [pc EXCEPT ![c] = "handed"]
    /\ UNCHANGED listed

(* PLAY or RECORD.                                                         *)
Go(c) ==
    /\ Asks(c, "setup", "go")
    /\ \/ HandedOver(c) /\ UNCHANGED sock
       \/ c \in Calls /\ ~Takes(c) /\ Leaves(c) /\ UNCHANGED chan
       \/ /\ c \notin Calls
          /\ pc' = [pc EXCEPT ![c] = "handle"]
          /\ UNCHANGED <<chan, listed, sock>>
    /\ UNCHANGED <<peer, state, closer, waiter, call, replaces, prod, program, cancelled>>

(* TEARDOWN closes the connection and ends Accept without an error: Handle *)
(* ends at once, but a program's connection is handed over.                *)
Teardown(c) ==
    /\ \E before \in {"none", "offer", "setup"} : Asks(c, before, "teardown")
    /\ state' = [state EXCEPT ![c] = "none"]
    /\ \/ HandedOver(c) /\ sock' = [sock EXCEPT ![c] = FALSE]
       \/ ~Takes(c) /\ Leaves(c) /\ UNCHANGED chan
    /\ UNCHANGED <<peer, closer, waiter, call, replaces, prod, program, cancelled>>

(* Accept or Handle fails: the client is gone, silent or refused.          *)
Ends(c) ==
    /\ pc[c] \in {"accept", "handle"}
    /\ Leaves(c)
    /\ UNCHANGED <<asked, peer, state, closer, execs>>

HangUp(c) ==
    /\ peer[c] /\ peer' = [peer EXCEPT ![c] = FALSE]
    /\ UNCHANGED <<pc, asked, sock, state, closer, listed, execs>>

-----------------------------------------------------------------------------
(* Calls of exec.                                                          *)

(* A producer holds its mutex while it dials anew, until it has stopped    *)
(* the connection that it had before.                                      *)
Swapped(x) == \E y \in Calls : replaces[y] = x /\ call[y] = "got"
Free(x) ==
    /\ replaces[x] # None => call[replaces[x]] # "got"
    /\ \A y \in Calls : replaces[y] = x => call[y] = "failed"

(* The first dial of a producer, or one of reconnect. The program may fail *)
(* to start.                                                               *)
Begin(x) ==
    /\ call[x] = "idle"
    /\ \E y \in {None} \cup {z \in Calls : call[z] = "got" /\ Free(z)} :
          replaces' = [replaces EXCEPT ![x] = y]
    /\ \/ /\ program' = [program EXCEPT ![x] = "runs"]
          /\ call' = [call EXCEPT ![x] = "wait"]
          /\ waiter' = x
          /\ UNCHANGED cancelled
       \/ /\ call' = [call EXCEPT ![x] = "failed"]
          /\ waiter' = None
          /\ cancelled' = [cancelled EXCEPT ![x] = TRUE]
          /\ UNCHANGED program
    /\ UNCHANGED <<chan, prod, conns>>

(* The entry of the path is deleted, whoever made it.                      *)
Returns(x, res) ==
    /\ call' = [call EXCEPT ![x] = res]
    /\ waiter' = None

(* The timer, or the end of the program.                                   *)
Fails(x) ==
    /\ call[x] = "wait"
    /\ Returns(x, "failed")
    /\ cancelled' = [cancelled EXCEPT ![x] = TRUE]
    /\ UNCHANGED <<chan, replaces, prod, program, conns>>

(* Start plays only what was set up.                                       *)
Started(c) == IF state[c] = "setup" THEN "play" ELSE state[c]

Gets(x) ==
    /\ call[x] = "wait" /\ chan[x] # None
    /\ Returns(x, "got")
    /\ prod' = [prod EXCEPT ![x] = chan[x]]
    /\ chan' = [chan EXCEPT ![x] = None]
    /\ state' = [state EXCEPT ![chan[x]] = Started(chan[x])]
    /\ UNCHANGED <<replaces, program, cancelled, pc, asked, peer, sock, closer, listed>>

(* Mutant: Close forgets OnClose.                                          *)
OnCloseMutant(x) == cancelled

OnClose(x) == [cancelled EXCEPT ![x] = TRUE]

(* Conn.Stop by the stream: its last consumer left, or reconnect has       *)
(* another connection.                                                     *)
Stop(x) ==
    /\ call[x] = "got" /\ (Free(x) \/ Swapped(x))
    /\ call' = [call EXCEPT ![x] = "stopped"]
    /\ IF state[prod[x]] # "none"
       THEN /\ state' = [state EXCEPT ![prod[x]] = "none"]
            /\ sock' = [sock EXCEPT ![prod[x]] = FALSE]
            /\ pc' = [pc EXCEPT ![prod[x]] = "done"]
            /\ cancelled' = OnClose(x)
       ELSE UNCHANGED <<state, sock, pc, cancelled>>
    /\ UNCHANGED <<waiter, chan, replaces, prod, program, asked, peer, closer, listed>>

(* By itself, or killed; the machine closes its connection.                *)
ProgramEnds(x) ==
    /\ program[x] = "runs"
    /\ program' = [program EXCEPT ![x] = "ended"]
    /\ peer' = [peer EXCEPT ![x] = FALSE]
    /\ UNCHANGED <<waiter, chan, call, replaces, prod, cancelled, pc, asked, sock, state, closer, listed>>

Conn(c) ==
    \/ Connect(c) \/ Announce(c) \/ Describe(c) \/ Setup(c) \/ Go(c)
    \/ Teardown(c) \/ Ends(c) \/ HangUp(c)

Exec(x) == Begin(x) \/ Fails(x) \/ Gets(x) \/ Stop(x) \/ ProgramEnds(x)

Next == (\E c \in Clients : Conn(c)) \/ \E x \in Calls : Exec(x)

Spec == Init /\ [][Next]_vars

-----------------------------------------------------------------------------
(* Properties.                                                             *)

(* What is left of a connection that has ended, at whatever request: it is *)
(* closed and in the lists of no stream.                                   *)
NothingListed == \A c \in Clients : pc[c] = "done" => ~listed[c] /\ ~sock[c]

(* TEARDOWN before RECORD: the call has a connection that Stop finds       *)
(* stopped already.                                                        *)
TornDown(x) == prod[x] # None /\ asked[prod[x]] = "teardown"

(* Calls that failed, and those whose connection was stopped.              *)
Over(x) == call[x] = "failed" \/ (call[x] = "stopped" /\ ~TornDown(x))

(* Whoever took whose connection: the program of a call that is over has   *)
(* ended or is told to, unless the connection was torn down before RECORD. *)
NoOrphan == \A x \in Calls : Over(x) => program[x] # "runs" \/ cancelled[x]

(* "stop previous connection after moving tracks (fix ghost exec/ffmpeg)": *)
(* a program whose connection was stopped has ended or is told to.         *)
NoGhostExec ==
    \A x \in Calls : call[x] = "stopped" => program[x] # "runs" \/ cancelled[x]

(* No program outlives its call that failed or its producer that was       *)
(* stopped, nor the connection in whose place reconnect has another, even  *)
(* when calls of the same path took each other's connection.               *)
ProgramsEnd ==
    \A x \in Calls : (Over(x) \/ (Swapped(x) /\ ~TornDown(x))) ~> (program[x] # "runs")
=============================================================================
