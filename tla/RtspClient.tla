----------------------------- MODULE RtspClient -----------------------------
(***************************************************************************)
(* An RTSP connection to a camera: client.go, producer.go, consumer.go and *)
(* conn.go of pkg/rtsp, in the mode of an active producer over TCP.        *)
(*                                                                         *)
(* A goroutine in Start writes PLAY and reads in Handle. A caller adds     *)
(* tracks, one at a time (its producer holds a mutex over GetTrack,        *)
(* AddTrack and Stop): when the connection plays already it is closed and  *)
(* dialled again, and every track is set up anew. Start notices, because   *)
(* its read fails, and plays again. stateMu is held over a whole call and  *)
(* over the look at the state in Start, but Handle reads state, conn and   *)
(* reader without it. The camera is external. Passwords and redirections,  *)
(* for which Do sends its request again, are left out.                     *)
(***************************************************************************)
EXTENDS Integers, Sequences, SequencesExt, FiniteSets

CONSTANTS
    Recv,       \* medias that the camera sends
    Talk,       \* medias of its backchannel
    MaxCalls,   \* bound: calls of GetTrack and AddTrack
    Flying      \* bound: a keepalive is written when less is on the way

Medias == Recv \cup Talk
Words == {"describe", "play", "options", "bad"}     \* other requests, a refusal

ASSUME MediasAssumption == Recv \cap Talk = {} /\ Medias \cap Words = {}
ASSUME BoundsAssumption == MaxCalls \in Nat /\ Flying \in Nat

VARIABLES
    state,          \* none, conn, setup, play
    open,           \* the current connection is open at both ends
    medias,         \* c.Medias
    backchannel,    \* c.Backchannel
    receivers, senders,     \* medias of c.Receivers, c.Senders in order
    call,           \* GetTrack or AddTrack: where it is
    todo,           \* medias it has to set up, the wanted one last
    calls,          \* how many there were
    start,          \* Start: none, top, handle, read, ended
    stale,          \* it reads a connection that is not the current one
    keepalive,      \* the goroutine that writes OPTIONS: none, run, ticked
    patient,        \* the deadline of Handle is not shorter than its period
    wire, answers,  \* of the current connection: requests and responses
    set, plays,     \* its session at the camera
    torn            \* a request on it was given up before its answer came, or
                    \* a call found it as one that failed had left it

session == <<wire, answers, set, plays, torn>>
tracks == <<medias, backchannel, receivers, senders>>
calling == <<call, todo, calls>>
starting == <<start, stale, keepalive, patient>>
vars == <<state, open, tracks, calling, starting, session>>

(* Dial and Describe are over: rtspHandler returns a connection, with or   *)
(* without the backchannel.                                                *)
Init ==
    /\ state = "conn" /\ open = TRUE
    /\ backchannel \in BOOLEAN
    /\ medias = IF backchannel THEN Medias ELSE Recv
    /\ receivers = <<>> /\ senders = <<>>
    /\ call = "idle" /\ todo = <<>> /\ calls = 0
    /\ start = "none" /\ stale = FALSE /\ keepalive = "none" /\ patient = FALSE
    /\ wire = <<>> /\ answers = <<>> /\ set = {} /\ plays = FALSE /\ torn = FALSE

(* No request and no answer survives its connection.                       *)
NoSession ==
    wire' = <<>> /\ answers' = <<>> /\ set' = {} /\ plays' = FALSE /\ torn' = FALSE

-----------------------------------------------------------------------------
(* GetTrack and AddTrack.                                                  *)

Called ==
    /\ call = "idle" /\ state # "none" /\ calls < MaxCalls
    /\ \E m \in Medias :
        /\ m \notin ToSet(receivers) \cup ToSet(senders)
        /\ todo' = <<m>>
    /\ calls' = calls + 1
    /\ call' = IF state = "play" THEN "close" ELSE "setup"
    /\ torn' = (torn \/ (state = "conn" /\ receivers \o senders # <<>>))
    /\ UNCHANGED <<state, open, tracks, starting, wire, answers, set, plays>>

Fails ==
    /\ call' = "idle" /\ todo' = <<>>
    /\ UNCHANGED <<state, medias, backchannel, receivers, senders>>

(* Reconnect closes the session that plays,                                *)
CloseOld ==
    /\ call = "close"
    /\ open' = FALSE /\ NoSession
    /\ call' = "dial"
    /\ UNCHANGED <<state, tracks, todo, calls, starting>>

(* dials again; a read that is under way stays with the old connection,    *)
Dial ==
    /\ call = "dial"
    /\ \/ /\ open' = TRUE /\ state' = "conn"
          /\ stale' = (stale \/ start = "read")
          /\ call' = "describe"
          /\ UNCHANGED <<todo, tracks>>
       \/ Fails /\ UNCHANGED <<open, stale>>
    /\ UNCHANGED <<calls, start, keepalive, patient, session>>

(* asks for a description,                                                 *)
Describe ==
    /\ call = "describe"
    /\ IF open
       THEN wire' = Append(wire, "describe") /\ call' = "described" /\ UNCHANGED <<state, tracks, todo>>
       ELSE Fails /\ UNCHANGED wire
    /\ UNCHANGED <<open, calls, starting, answers, set, plays, torn>>

(* Mutant: the tracks that are sent are forgotten.                         *)
RestoreMutant == receivers

(* and sets up all tracks that there were.                                 *)
Restore == receivers \o senders

(* SetupMedia failed in the request. A camera that refuses is asked again  *)
(* without the backchannel: everything begins again, and what was to be    *)
(* set up is so after what there is.                                       *)
SetupFails ==
    IF backchannel
    THEN /\ backchannel' = FALSE
         /\ call' = "close"
         /\ UNCHANGED <<state, medias, receivers, senders, todo>>
    ELSE Fails

Setup ==
    /\ call = "setup"
    /\ \/ /\ Head(todo) \notin medias
          /\ Fails /\ UNCHANGED wire
       \/ /\ Head(todo) \in medias /\ open
          /\ wire' = Append(wire, Head(todo)) /\ call' = "wait"
          /\ UNCHANGED <<state, tracks, todo>>
       \/ /\ Head(todo) \in medias /\ ~open
          /\ SetupFails /\ UNCHANGED wire
    /\ UNCHANGED <<open, calls, starting, answers, set, plays, torn>>

(* The last media is the wanted one: its track is new.                     *)
Succeeds ==
    /\ state' = "setup" /\ call' = "idle" /\ todo' = <<>>
    /\ IF Head(todo) \in Recv
       THEN receivers' = Append(receivers, Head(todo)) /\ UNCHANGED senders
       ELSE senders' = Append(senders, Head(todo)) /\ UNCHANGED receivers
    /\ UNCHANGED <<medias, backchannel>>

(* Do takes the next response, whatever it answers. A description without  *)
(* the backchannel is shorter, and one of no medias leaves none.           *)
Described(answer) ==
    \/ /\ answer # "bad"
       /\ medias' = IF answer # "describe" THEN {}
                    ELSE IF backchannel THEN medias ELSE medias \ Talk
       /\ call' = "setup" /\ todo' = Restore \o todo
       /\ UNCHANGED <<state, backchannel, receivers, senders>>
    \/ answer = "bad" /\ Fails

SetUp(answer) ==
    \/ answer = "bad" /\ SetupFails
    \/ answer \in Words \ {"bad"} /\ Fails
    \/ answer \in Medias /\ Len(todo) = 1 /\ Succeeds
    \/ /\ answer \in Medias /\ Len(todo) > 1
       /\ call' = "setup" /\ todo' = Tail(todo)
       /\ UNCHANGED <<state, tracks>>

Answered ==
    /\ call \in {"described", "wait"} /\ answers # <<>>
    /\ answers' = Tail(answers)
    /\ IF call = "described" THEN Described(Head(answers)) ELSE SetUp(Head(answers))
    /\ torn' = (torn \/ wire # <<>> \/ Len(answers) > 1)
    /\ UNCHANGED <<open, calls, starting, wire, set, plays>>

(* No response in five seconds, or the connection is closed.               *)
NotAnswered ==
    /\ call \in {"described", "wait"}
    /\ IF call = "described" THEN Fails ELSE SetupFails
    /\ torn' = (torn \/ wire # <<>> \/ answers # <<>>)
    /\ UNCHANGED <<open, calls, starting, wire, answers, set, plays>>

Stop ==
    /\ call = "idle" /\ state # "none"
    /\ state' = "none"
    /\ open' = FALSE /\ NoSession
    /\ UNCHANGED <<tracks, calling, starting>>

-----------------------------------------------------------------------------
(* Start.                                                                  *)

StartBegins ==
    /\ start = "none" /\ call = "idle" /\ state = "setup"
    /\ start' = "top"
    /\ UNCHANGED <<state, open, tracks, calling, stale, keepalive, patient, session>>

(* The state after Handle: none was stopped, play has failed, conn is a    *)
(* call that failed; setup plays again. The deadline of Handle is five     *)
(* seconds, or that of #timeout; without receivers it is longer than the   *)
(* period of the keepalives, which is that of the session less five        *)
(* seconds, or 25 seconds.                                                 *)
Top ==
    /\ start = "top" /\ call = "idle"
    /\ IF state = "setup" /\ open
       THEN /\ wire' = Append(wire, "play")
            /\ state' = "play"
            /\ start' = "handle" /\ keepalive' = "run"
            /\ patient' \in BOOLEAN /\ (receivers = <<>> => patient')
       ELSE /\ start' = "ended"
            /\ UNCHANGED <<wire, state, keepalive, patient>>
    /\ UNCHANGED <<open, tracks, calling, stale, answers, set, plays, torn>>

(* Handle looks at the state and at the connection before each read.       *)
HandleLoop ==
    /\ start = "handle"
    /\ IF state = "none"
       THEN start' = "top" /\ keepalive' = "none"
       ELSE start' = "read" /\ UNCHANGED keepalive
    /\ stale' = FALSE
    /\ UNCHANGED <<state, open, tracks, calling, patient, session>>

(* A packet, perhaps one that was in the buffer of the old connection; or  *)
(* a response, that of a call that waits for it included.                  *)
ReadPacket ==
    /\ start = "read"
    /\ \/ /\ stale \/ ~open \/ plays
          /\ keepalive' = "run" /\ UNCHANGED answers
       \/ /\ ~stale /\ open /\ answers # <<>>
          /\ answers' = Tail(answers) /\ UNCHANGED keepalive
    /\ start' = "handle"
    /\ UNCHANGED <<state, open, tracks, calling, stale, patient, wire, set, plays, torn>>

(* Mutant: no deadline.                                                    *)
ReadFailsMutant == stale \/ ~open

(* The connection is closed, or silent for as long as the deadline.        *)
ReadFails == stale \/ ~open \/ answers = <<>>

ReadError ==
    /\ start = "read" /\ ReadFails
    /\ start' = "top" /\ keepalive' = "none"
    /\ UNCHANGED <<state, open, tracks, calling, stale, patient, session>>

(* A tick. There are no two without a packet between them, unless the      *)
(* deadline of a read is as long as the period.                            *)
Keepalive ==
    /\ keepalive = "run" \/ (keepalive = "ticked" /\ patient)
    /\ open /\ Len(wire) + Len(answers) < Flying
    /\ wire' = Append(wire, "options")
    /\ keepalive' = "ticked"
    /\ UNCHANGED <<state, open, tracks, calling, start, stale, patient, answers, set, plays, torn>>

-----------------------------------------------------------------------------
(* The camera answers in order, yes or no, or hangs up.                    *)

CameraAnswers ==
    /\ wire # <<>>
    /\ wire' = Tail(wire)
    /\ \/ /\ answers' = Append(answers, Head(wire))
          /\ set' = set \cup ({Head(wire)} \cap Medias)
          /\ plays' = (plays \/ Head(wire) = "play")
       \/ /\ answers' = Append(answers, "bad")
          /\ UNCHANGED <<set, plays>>
    /\ UNCHANGED <<state, open, tracks, calling, starting, torn>>

HangUp ==
    /\ open /\ open' = FALSE
    /\ NoSession
    /\ UNCHANGED <<state, tracks, calling, starting>>

Call == CloseOld \/ Dial \/ Describe \/ Setup \/ Answered \/ NotAnswered
Start == StartBegins \/ Top \/ HandleLoop \/ ReadPacket \/ ReadError

Next == Called \/ Call \/ Stop \/ Start \/ Keepalive \/ CameraAnswers \/ HangUp

Spec == Init /\ [][Next]_vars

-----------------------------------------------------------------------------
(* Properties.                                                             *)

(* A session that plays carries every track of the connection, those of    *)
(* earlier sessions included: nobody is left listening to a track that the *)
(* camera was not asked for. Two cases break this, and are left out: an    *)
(* answer that comes after its request was given up is taken for that of   *)
(* the next; and when a call fails between DESCRIBE and the last SETUP,    *)
(* the next call sets up its own track and no other.                       *)
PlaysWhole == plays /\ ~torn => ToSet(receivers \o senders) \subseteq set

(* GetTrack and AddTrack return, also from a camera that refuses; and a    *)
(* track that was added to a connection that had been started is played,   *)
(* unless Start ends or a later call breaks the session. Not so when       *)
(* Handle is patient: answers to keepalives may then hold it in its reads  *)
(* for ever, and nobody plays the new session.                             *)
TracksPlay ==
    /\ (call # "idle") ~> (call = "idle")
    /\ (state = "setup" /\ start # "none" /\ ~patient)
            ~> (state # "setup" \/ start = "ended")
=============================================================================
