------------------------------ MODULE TutkMedia ------------------------------
(***************************************************************************)
(* The media of a TUTK camera. Dial of pkg/tutk/conn.go picks the session  *)
(* by the version the camera gives; cameras that speak DTLS have a         *)
(* FrameHandler instead. Each puts frames together in its own way, over    *)
(* the same network.                                                       *)
(***************************************************************************)
EXTENDS TutkFrames25

CONSTANTS Channel, Time, WrapPeriod, Capacity    \* see TutkFramesAV

ASSUME ChannelAssumption == DOMAIN Channel = Frames /\ DOMAIN Time = Frames
ASSUME WrapAssumption ==
    /\ \A f \in Frames : Time[f] \in Nat
    /\ WrapPeriod \in {4, 1000000} /\ Capacity \in Nat \ {0}

VARIABLES
    proto,      \* "16", "25" or "AV"
    cs, videoTS, output, ended, seen, given

AV == INSTANCE TutkFramesAV

avVars == <<cs, videoTS, output, ended, seen, given>>
vars == <<udpVars, vars25, proto, avVars>>

Init ==
    /\ proto \in {"16", "25", "AV"}
    /\ UdpInit /\ Session25Init /\ AV!AVInit

-----------------------------------------------------------------------------

Next16 ==
    /\ proto = "16"
    /\ \/ SessionRead
       \/ (Audio \/ ReadPacket) /\ UNCHANGED udpVars
    /\ UNCHANGED <<reorderVars, failed, proto, avVars>>

Next25 ==
    /\ proto = "25"
    /\ \/ Arrives25
       \/ Pops25
       \/ Returns25
       \/ ReadPacket /\ UNCHANGED <<udpVars, reorderVars, failed>>
    /\ UNCHANGED <<proto, avVars>>

NextAV ==
    /\ proto = "AV"
    /\ \/ AV!Handle
       \/ (AV!HandleAudio \/ AV!Receive \/ AV!Close) /\ UNCHANGED udpVars
    /\ UNCHANGED <<vars25, proto>>

Outside == Network /\ UNCHANGED <<vars25, proto, avVars>>

Next == Next16 \/ Next25 \/ NextAV \/ Outside

Spec == Init /\ [][Next]_vars

-----------------------------------------------------------------------------
(* Properties.                                                             *)

Given == out \o [i \in DOMAIN given |-> given[i].data]

AllWhole == \A i \in DOMAIN Given : Given[i] = Whole(FrameOf(Given[i][1]))
AllInOrder == \A i, j \in DOMAIN out : i < j => out[i][1] < out[j][1]

(* Whatever the network loses, repeats and reorders, a frame that comes    *)
(* out is a frame of the camera: none of its packets is missing, repeated  *)
(* or from another frame. With the reorder buffer frames come in order, as *)
(* long as what came again fits in.                                        *)
(* For protocol 16 Late and Gap keep two frames with the same number apart.*)
FramesWhole ==
    /\ proto = "25" => (Fits => AllInOrder)
    /\ (proto = "25" => Fits) => AllWhole

(* "ReorderBuffer used for UDP incoming data. Because the order of the     *)
(* packets may be mixed up": behind it frames are whole and in order.      *)
OrderRestored == proto = "25" => AllWhole /\ AllInOrder

EndsWith(s, t) == Len(t) <= Len(s) /\ SubSeq(s, Len(s) - Len(t) + 1, Len(s)) = t

(* A frame whose packets came to the assembly one after the other comes    *)
(* out, unless the reader was too slow: what was lost before never stops   *)
(* it.                                                                     *)
FrameArrives ==
    \A f \in Frames :
        /\ EndsWith(taken, Whole(f)) /\ ~full => Whole(f) \in ToSet(out)
        /\ proto = "AV" /\ ~ended /\ EndsWith(seen[Channel[f]], Whole(f))
               => Whole(f) \in ToSet(Given)

(* A packet is given up only if it was lost: one that is still on the way, *)
(* and of which no copy came, is waited for, as long as what came again    *)
(* leaves room for it.                                                     *)
WaitsForLate ==
    proto = "25" /\ Fits /\ taken # <<>> =>
        \A k \in net \ repeats : taken[Len(taken)] < k

(* Frames keep their distance in time across the wrap of the clock, as     *)
(* long as they come in order and less than a period apart.                *)
TimeRuns ==
    \A i \in DOMAIN given \ {1} :
        LET f == FrameOf(given[i - 1].data[1])
            g == FrameOf(given[i].data[1])
        IN  0 <= Time[g] - Time[f] /\ Time[g] - Time[f] < WrapPeriod
            => given[i].time - given[i - 1].time = Time[g] - Time[f]
=============================================================================
