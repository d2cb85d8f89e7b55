----------------------------- MODULE TutkFrames16 -----------------------------
(***************************************************************************)
(* Media frames of a TUTK camera, protocol 16: SessionRead of              *)
(* pkg/tutk/session16.go. There is no buffer that restores the order of    *)
(* the packets: a chunk carries the number of its frame and its number in  *)
(* the frame, and what does not follow is dropped. A whole frame goes into *)
(* the channel rawPkt, which ReadPacket empties; when it is full the       *)
(* worker ends the session.                                                *)
(***************************************************************************)
EXTENDS TutkUdp

CONSTANTS
    FrameSpace, \* the frame numbers wrap: 2^16 in the code
    Queue       \* the capacity of rawPkt: 100 in the code

ASSUME FrameSpaceAssumption == FrameSpace \in {3, 65536} /\ Queue \in Nat \ {0}

(* Of the frames that packets meet of in the assembly, no two have the     *)
(* same number.                                                            *)
ASSUME FrameReachAssumption == Late <= FrameSpace /\ Late + Gap <= FrameSpace + 2

VARIABLES
    waitFSeq, waitCSeq, waitSize, waitData,     \* as in Session16
    rawPkt,     \* the channel
    closed,     \* the worker has left its loop and closed the session
    full,       \* history: a frame found the channel full
    taken,      \* history: the last packets the assembly looked at
    out         \* history: the frames that went into the channel

sessionVars == <<waitFSeq, waitCSeq, waitSize, waitData, rawPkt, closed, full, taken, out>>

FSeq(k) == FrameOf(k) % FrameSpace

(* As much of the history as a frame is long.                              *)
Longest == Max({0} \cup {Chunks[f] : f \in Frames})
Lately(s, k) == LET t == Append(s, k) IN IF Len(t) > Longest THEN Tail(t) ELSE t

(* waitSize counts bytes; every chunk is one unit.                         *)
SessionInit ==
    /\ waitFSeq = 0 /\ waitCSeq = 0 /\ waitSize = 0 /\ waitData = <<>>
    /\ rawPkt = <<>> /\ closed = FALSE /\ full = FALSE
    /\ taken = <<>> /\ out = <<>>

-----------------------------------------------------------------------------

Follows(k) == FSeq(k) = waitFSeq /\ ChunkOf(k) = waitCSeq

(* "msgMediaLost"                                                          *)
ChunkLost(k) ==
    /\ ~IsFirst(k) /\ ~Follows(k)
    /\ waitCSeq' = 0
    /\ UNCHANGED <<waitFSeq, waitSize, waitData, rawPkt, closed, full, out>>

Data(k) == IF IsFirst(k) THEN <<k>> ELSE Append(waitData, k)
Size(k) == IF IsFirst(k) THEN Chunks[FrameOf(k)] ELSE waitSize

Begin(k) ==
    /\ IsFirst(k) \/ Follows(k)
    /\ waitFSeq' = IF IsFirst(k) THEN FSeq(k) ELSE waitFSeq
    /\ waitSize' = Size(k)
    /\ waitData' = Data(k)

(* "msgMediaChunk"                                                         *)
ChunkMiddle(k) ==
    /\ Begin(k)
    /\ Len(Data(k)) < Size(k)
    /\ waitCSeq' = IF IsFirst(k) THEN 1 ELSE waitCSeq + 1
    /\ UNCHANGED <<rawPkt, closed, full, out>>

(* A frame goes into the channel, or SessionRead returns msgError when it  *)
(* is full, and that ends the worker.                                      *)
Gives(data) ==
    IF Len(rawPkt) = Queue
    THEN closed' = TRUE /\ full' = TRUE /\ UNCHANGED rawPkt
    ELSE rawPkt' = Append(rawPkt, data) /\ UNCHANGED <<closed, full>>

(* "msgMediaFrame"                                                         *)
ChunkLast(k) ==
    /\ Begin(k)
    /\ Len(Data(k)) >= Size(k)
    /\ waitCSeq' = 0
    /\ Gives(Data(k))
    /\ out' = IF Len(rawPkt) = Queue THEN out ELSE Append(out, Data(k))

SessionRead ==
    /\ ~closed
    /\ \E k \in net :
        /\ Leaves(k) \/ Copied(k)
        /\ ChunkLost(k) \/ ChunkMiddle(k) \/ ChunkLast(k)
        /\ taken' = Lately(taken, k)

(* A frame in one packet (audio).                                          *)
Audio ==
    /\ ~closed
    /\ Gives(<<>>)
    /\ UNCHANGED <<waitFSeq, waitCSeq, waitSize, waitData, taken, out>>

(* RecvFrameData                                                           *)
ReadPacket ==
    /\ rawPkt # <<>>
    /\ rawPkt' = Tail(rawPkt)
    /\ UNCHANGED <<waitFSeq, waitCSeq, waitSize, waitData, closed, full, taken, out>>
=============================================================================
