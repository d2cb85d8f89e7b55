------------------------------- MODULE TutkUdp -------------------------------
(***************************************************************************)
(* A TUTK camera and the network between it and go2rtc, both external.     *)
(* The camera cuts frame f into Chunks[f] packets and sends them in order; *)
(* packets are numbered from 0 through all frames. UDP loses packets,      *)
(* brings them out of order and more than once (DTLS drops the copies).    *)
(* Nobody asks for a packet again.                                         *)
(***************************************************************************)
EXTENDS Integers, Sequences, SequencesExt, FiniteSets

CONSTANTS
    Chunks,     \* Chunks[f]: how many packets frame f is cut into
    First,      \* First[f]: the first of them
    Late,       \* a packet arrives before Late further ones were sent, or never
    Gap,        \* the network never loses Gap packets in a row,
    Span,       \* nor in Span packets the beginning of every frame
    Repeats     \* how many packets the network may repeat

ASSUME ChunksAssumption == Chunks \in Seq(Nat \ {0})
ASSUME FirstAssumption ==
    /\ First \in [1..(Len(Chunks) + 1) -> Nat] /\ First[1] = 0
    /\ \A f \in DOMAIN Chunks : First[f + 1] = First[f] + Chunks[f]
ASSUME NetAssumption == Late \in Nat \ {0} /\ Gap \in Nat /\ Span \in Nat /\ Repeats \in Nat

VARIABLES
    next,       \* camera: the next packet
    net,        \* packets on the way
    came,       \* one after the latest packet that arrived
    began,      \* the latest that arrived of those that begin a frame
    repeats     \* history: the packets of which a copy arrived

udpVars == <<next, net, came, began, repeats>>

Frames == DOMAIN Chunks
Packets == First[Len(Chunks) + 1]

FrameOf(k) == CHOOSE f \in Frames : First[f] <= k /\ k < First[f] + Chunks[f]
ChunkOf(k) == k - First[FrameOf(k)]
IsFirst(k) == ChunkOf(k) = 0
IsLast(k) == ChunkOf(k) = Chunks[FrameOf(k)] - 1

(* The first c packets of frame f, and all of them, in order.              *)
Part(f, c) == [i \in 1..c |-> First[f] + i - 1]
Whole(f) == Part(f, Chunks[f])

UdpInit == next = 0 /\ net = {} /\ came = 0 /\ began = 0 /\ repeats = {}

Send ==
    /\ next < Packets /\ next < came + Gap /\ next < began + Span
    /\ net' = {k \in net \cup {next} : next < k + Late}
    /\ next' = next + 1
    /\ UNCHANGED <<came, began, repeats>>

Lose ==
    /\ \E k \in net : net' = net \ {k}
    /\ UNCHANGED <<next, came, began, repeats>>

Network == Send \/ Lose

Arrives(k) ==
    /\ came' = IF k < came THEN came ELSE k + 1
    /\ began' = IF IsFirst(k) /\ began < k THEN k ELSE began

(* A packet leaves the network ...                                         *)
Leaves(k) ==
    /\ k \in net /\ net' = net \ {k}
    /\ Arrives(k)
    /\ UNCHANGED <<next, repeats>>

(* ... or a copy of it does, and the packet may still come.                *)
Copied(k) ==
    /\ k \in net \ repeats /\ Cardinality(repeats) < Repeats
    /\ repeats' = repeats \cup {k}
    /\ Arrives(k)
    /\ UNCHANGED <<next, net>>
=============================================================================
