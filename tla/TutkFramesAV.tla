----------------------------- MODULE TutkFramesAV -----------------------------
(***************************************************************************)
(* Media frames of a TUTK camera over DTLS: FrameHandler of                *)
(* pkg/tutk/frame.go. Key frames and other frames come on channels of      *)
(* their own; a packet says its frame, its place in the frame and how many *)
(* packets the frame has, and the last one has the frame info. Packets are *)
(* taken in order only; a whole frame gets a time and goes into the        *)
(* channel output, from which the oldest frame is dropped when it is full. *)
(* The frame numbers of the camera begin with 1 and do not wrap; DTLS      *)
(* drops repeated packets.                                                 *)
(***************************************************************************)
EXTENDS TutkUdp

CONSTANTS
    Channel,    \* Channel[f]: ChannelIVideo or ChannelPVideo
    Time,       \* Time[f]: when frame f was taken, by the clock of the camera
    WrapPeriod, \* tsWrapPeriod: 10^6 microseconds in the code
    Capacity    \* of output: 128 in the code

VARIABLES
    cs,         \* channel -> channelState; frameNo 0 is none
    videoTS,    \* tsTracker of both channels
    output,     \* the channel
    ended,      \* FrameHandler.closed
    seen,       \* history: channel -> the last packets handleVideo looked at
    given       \* history: the frames that went into output, with their times

avVars == <<cs, videoTS, output, ended, seen, given>>

Channels == ToSet(Channel)
ChannelOf(k) == Channel[FrameOf(k)]
Raw(f) == Time[f] % WrapPeriod

Begun(f, n) ==
    [frameNo |-> f, pktTotal |-> n, waitSeq |-> 0, waitData |-> <<>>, frameInfo |-> FALSE]
Reset == Begun(0, 0)

AVInit ==
    /\ cs = [c \in Channels |-> Reset]
    /\ videoTS = [firstTS |-> FALSE, lastRawTS |-> 0, accumUS |-> 0]
    /\ output = <<>> /\ ended = FALSE
    /\ seen = [c \in Channels |-> <<>>]
    /\ given = <<>>

-----------------------------------------------------------------------------

Longest == Max({0} \cup {Chunks[f] : f \in Frames})
Lately(s, k) == LET t == Append(s, k) IN IF Len(t) > Longest THEN Tail(t) ELSE t

(* Mutant: a new frame goes on with the data of the one before.            *)
StateForMutant(k) ==
    IF FrameOf(k) # cs[ChannelOf(k)].frameNo
    THEN [cs[ChannelOf(k)] EXCEPT !.frameNo = FrameOf(k), !.pktTotal = Chunks[FrameOf(k)]]
    ELSE cs[ChannelOf(k)]

(* "New frame number - reset and start fresh"                              *)
StateFor(k) ==
    IF FrameOf(k) # cs[ChannelOf(k)].frameNo
    THEN Begun(FrameOf(k), Chunks[FrameOf(k)])
    ELSE cs[ChannelOf(k)]

With(k) ==
    [StateFor(k) EXCEPT
        !.waitData = Append(@, k), !.waitSeq = @ + 1, !.frameInfo = @ \/ IsLast(k)]

Ready(s) == s.waitSeq = s.pktTotal /\ s.frameInfo

(* Mutant: time that goes back is taken for an early frame.                *)
ElapsedMutant(raw) == IF raw >= videoTS.lastRawTS THEN raw - videoTS.lastRawTS ELSE 0

Elapsed(raw) ==
    IF raw >= videoTS.lastRawTS
    THEN raw - videoTS.lastRawTS
    ELSE (WrapPeriod - videoTS.lastRawTS) + raw

(* tsTracker.update                                                        *)
Updated(raw) ==
    [firstTS |-> TRUE, lastRawTS |-> raw,
     accumUS |-> IF videoTS.firstTS THEN videoTS.accumUS + Elapsed(raw) ELSE 0]

(* queue: "Queue full - drop oldest".                                      *)
Queued(p) ==
    IF ended THEN output
    ELSE Append(IF Len(output) = Capacity THEN Tail(output) ELSE output, p)

(* "If packet index doesn't match expected, reset (data loss)"             *)
OutOfOrder(k) ==
    /\ ChunkOf(k) # StateFor(k).waitSeq
    /\ cs' = [cs EXCEPT ![ChannelOf(k)] = Reset]
    /\ UNCHANGED <<videoTS, output, given>>

Partial(k) ==
    /\ ChunkOf(k) = StateFor(k).waitSeq /\ ~Ready(With(k))
    /\ cs' = [cs EXCEPT ![ChannelOf(k)] = With(k)]
    /\ UNCHANGED <<videoTS, output, given>>

Frame(k) ==
    [data |-> With(k).waitData, time |-> Updated(Raw(FrameOf(k))).accumUS]

(* The frame info says how long the frame has to be.                       *)
Fits(k) == Len(With(k).waitData) = Chunks[FrameOf(k)]

Complete(k) ==
    /\ ChunkOf(k) = StateFor(k).waitSeq /\ Ready(With(k))
    /\ IF Fits(k)
       THEN /\ videoTS' = Updated(Raw(FrameOf(k)))
            /\ output' = Queued(Frame(k))
            /\ given' = IF ended THEN given ELSE Append(given, Frame(k))
       ELSE UNCHANGED <<videoTS, output, given>>
    /\ cs' = [cs EXCEPT ![ChannelOf(k)] = Reset]

Handle ==
    /\ \E k \in net :
        /\ Leaves(k)
        /\ OutOfOrder(k) \/ Partial(k) \/ Complete(k)
        /\ seen' = [seen EXCEPT ![ChannelOf(k)] = Lately(@, k)]
    /\ UNCHANGED ended

(* handleAudio: a packet is a frame, in the same channel.                  *)
HandleAudio ==
    /\ output' = Queued([data |-> <<>>, time |-> 0])
    /\ UNCHANGED <<cs, videoTS, ended, seen, given>>

Receive ==
    /\ output # <<>>
    /\ output' = Tail(output)
    /\ UNCHANGED <<cs, videoTS, ended, seen, given>>

Close ==
    /\ ended' = TRUE
    /\ UNCHANGED <<cs, videoTS, output, seen, given>>
=============================================================================
