------------------------------ MODULE Cs2Window ------------------------------
(***************************************************************************)
(* One UDP data channel of the Xiaomi "cs2" transport,                     *)
(* pkg/xiaomi/miss/cs2/conn.go: the camera sends numbered packets that the *)
(* network loses, duplicates and reorders; the worker goroutine puts them  *)
(* in order (PushSeq) with a small buffer for packets from the future and  *)
(* acknowledges what the camera need not send again. Packet k carries the  *)
(* sequence number k % SeqSpace. What the loop of PushSeq does with the    *)
(* payload of a packet (Push) is one step here, see Cs2Channel.            *)
(* The camera and the network are external: they are modelled by what the  *)
(* code relies on.                                                         *)
(***************************************************************************)
EXTENDS Integers, Sequences, FiniteSets

CONSTANTS
    Half,       \* half the sequence space: 2^15 in the code
    Packets,    \* how many packets the camera sends
    Window,     \* how many packets the camera keeps in flight
    PushSize    \* dataChannel.pushSize; 0 disables the buffer

(* The sequence numbers of the code, and small ones for TLC.                 *)
ASSUME HalfAssumption == Half \in {3, 32768}
ASSUME WindowAssumption == Window \in 1..Half
ASSUME SizeAssumption == PushSize \in Nat /\ Packets \in Nat

VARIABLES
    next,       \* camera: the next new packet
    acked,      \* camera: the packets it has an acknowledgement of
    net,        \* data packets on the way
    acks,       \* acknowledgements on the way
    waitSeq,    \* dataChannel.waitSeq
    pushBuf,    \* dataChannel.pushBuf: sequence number -> packet
    pc,         \* the worker: reads, is in the loop of PushSeq, or has ended
    cur,        \* the packet whose payload the loop holds
    got,        \* the packet that was read
    pushed      \* history: the packets whose payload was pushed

camera == <<next, acked>>
channel == <<waitSeq, pushBuf, pc, cur, got, pushed>>
windowVars == <<camera, net, acks, channel>>

SeqSpace == 2 * Half
SeqNo(k) == k % SeqSpace
SeqNums == 0..(SeqSpace - 1)

WindowTypeOK ==
    /\ next \in Nat /\ acked \in SUBSET Nat
    /\ net \in SUBSET Nat /\ acks \in SUBSET Nat
    /\ waitSeq \in SeqNums
    /\ DOMAIN pushBuf \in SUBSET SeqNums /\ pushBuf \in [DOMAIN pushBuf -> Nat]
    /\ pc \in {"read", "push", "dead"}
    /\ cur \in Nat /\ got \in Nat
    /\ pushed \in Seq(Nat)

WindowInit ==
    /\ next = 0 /\ acked = {}
    /\ net = {} /\ acks = {}
    /\ waitSeq = 0 /\ pushBuf = [s \in {} |-> 0]
    /\ pc = "read" /\ cur = 0 /\ got = 0
    /\ pushed = <<>>

-----------------------------------------------------------------------------
(* The camera and the network.                                             *)

(* The camera sends a new packet when its window allows it. No copy stays  *)
(* on the way for half the sequence space: at 16 bit these are thousands.  *)
Send ==
    /\ next < Packets
    /\ \A k \in 0..next : k \notin acked => next < k + Window
    /\ next' = next + 1
    /\ net' = {k \in net : next < k + Half} \cup {next}
    /\ UNCHANGED <<acked, acks, channel>>

Resend(k) ==
    /\ k < next /\ k \notin acked
    /\ net' = net \cup {k}
    /\ UNCHANGED <<camera, acks, channel>>

Acknowledged(k) ==
    /\ acked' = acked \cup {k}
    /\ acks' = acks \ {k}
    /\ UNCHANGED <<next, net, channel>>

Lose ==
    /\ \/ \E k \in net : net' = net \ {k} /\ UNCHANGED acks
       \/ \E k \in acks : acks' = acks \ {k} /\ UNCHANGED net
    /\ UNCHANGED <<camera, channel>>

-----------------------------------------------------------------------------
(* The worker: one message from the socket, PushSeq, the acknowledgement.  *)

(* int16(a - b)                                                            *)
Diff(a, b) == ((a - b + Half) % SeqSpace) - Half

(* Packet k is read; a copy of it may still be on the way.                 *)
Read(k) ==
    /\ pc = "read" /\ k \in net
    /\ net' \in {net, net \ {k}}
    /\ got' = k
    /\ UNCHANGED <<camera, waitSeq, pushed>>

Future(k) == Diff(SeqNo(k), waitSeq) > 0
Past(k) == Diff(SeqNo(k), waitSeq) < 0

(* A packet from the future finds no room in the buffer, or there is none. *)
NoRoom(k) ==
    \/ PushSize = 0
    \/ SeqNo(k) \notin DOMAIN pushBuf /\ Cardinality(DOMAIN pushBuf) = PushSize

(* Mutant: PushSeq returns 0 where it says -1.                             *)
RefuseMutant(k) ==
    /\ Read(k) /\ Future(k) /\ NoRoom(k)
    /\ acks' = acks \cup {k}
    /\ UNCHANGED <<pushBuf, pc, cur>>

(* Mutant: the room is looked at before the number.                        *)
RefuseFirstMutant(k) ==
    /\ Read(k) /\ ~Past(k) /\ NoRoom(k)
    /\ UNCHANGED <<acks, pushBuf, pc, cur>>

(* Neither saved nor acknowledged: the camera has to send it again.        *)
Refuse(k) ==
    /\ Read(k) /\ Future(k) /\ NoRoom(k)
    /\ UNCHANGED <<acks, pushBuf, pc, cur>>

Save(k) ==
    /\ Read(k) /\ Future(k) /\ ~NoRoom(k)
    /\ pushBuf' = IF SeqNo(k) \in DOMAIN pushBuf THEN pushBuf
                  ELSE [s \in DOMAIN pushBuf \cup {SeqNo(k)} |->
                            IF s = SeqNo(k) THEN k ELSE pushBuf[s]]
    /\ acks' = acks \cup {k}
    /\ UNCHANGED <<pc, cur>>

(* Processed earlier: the acknowledgement may have been lost.              *)
Repeat(k) ==
    /\ Read(k) /\ Past(k)
    /\ acks' = acks \cup {k}
    /\ UNCHANGED <<pushBuf, pc, cur>>

Expected(k) ==
    /\ Read(k) /\ ~Future(k) /\ ~Past(k)
    /\ pc' = "push" /\ cur' = k
    /\ UNCHANGED <<acks, pushBuf>>

(* Mutant: the saved packet is pushed and stays in the buffer.             *)
TakenMutant(s) == pushBuf

(* The buffer without the packet that is taken from it.                    *)
Taken(s) == [t \in DOMAIN pushBuf \ {s} |-> pushBuf[t]]

NextSeq == (waitSeq + 1) % SeqSpace

(* One round of the loop: the payload is pushed, and the next packet may   *)
(* wait in the buffer.                                                     *)
PushNext ==
    /\ pc = "push"
    /\ pushed' = Append(pushed, cur)
    /\ waitSeq' = NextSeq
    /\ NextSeq \in DOMAIN pushBuf
    /\ cur' = pushBuf[NextSeq]
    /\ pushBuf' = Taken(NextSeq)
    /\ UNCHANGED <<camera, net, acks, pc, got>>

PushLast ==
    /\ pc = "push"
    /\ pushed' = Append(pushed, cur)
    /\ waitSeq' = NextSeq
    /\ NextSeq \notin DOMAIN pushBuf
    /\ acks' = acks \cup {got}
    /\ pc' = "read"
    /\ UNCHANGED <<camera, net, pushBuf, cur, got>>

(* Push finds popBuf full: the packet is acknowledged, the worker ends.    *)
PushFails ==
    /\ pc = "push"
    /\ acks' = acks \cup {got}
    /\ pc' = "dead"
    /\ UNCHANGED <<camera, net, waitSeq, pushBuf, cur, got, pushed>>

ReadFails ==
    /\ pc = "read"
    /\ pc' = "dead"
    /\ UNCHANGED <<camera, net, acks, waitSeq, pushBuf, cur, got, pushed>>

Receive(k) == Refuse(k) \/ Save(k) \/ Repeat(k) \/ Expected(k)

-----------------------------------------------------------------------------

Outside ==
    \/ Send
    \/ \E k \in 0..next : Resend(k)
    \/ \E k \in acks : Acknowledged(k)
    \/ Lose

WorkerNext ==
    \/ \E k \in net : Receive(k)
    \/ PushNext \/ PushLast \/ PushFails \/ ReadFails

WindowNext == Outside \/ WorkerNext

WindowSpec == WindowInit /\ [][WindowNext]_windowVars

(* The camera keeps sending what is not acknowledged; the network loses    *)
(* packets and acknowledgements, but the oldest packet in flight and its   *)
(* acknowledgement not for ever; the worker is a goroutine.                *)
Oldest == CHOOSE k \in 0..next : k \notin acked /\ 0..(k - 1) \subseteq acked

WindowFairSpec ==
    /\ WindowSpec
    /\ WF_windowVars(Send)
    /\ WF_windowVars(Resend(Oldest))
    /\ SF_windowVars(Receive(Oldest))
    /\ SF_windowVars(Oldest \in acks /\ Acknowledged(Oldest))
    /\ WF_windowVars(PushNext \/ PushLast)

-----------------------------------------------------------------------------
(* Properties.                                                             *)

(* Payloads are pushed in the order the camera sent them, each once, past  *)
(* any wrap of the 16 bit sequence number.                                 *)
InOrder == \A i \in 1..Len(pushed) : pushed[i] = i - 1

(* The buffer holds packets of the future only, never one that the worker  *)
(* has passed: nothing stays in it for ever to take up its room.           *)
HoldsFuture ==
    \A s \in DOMAIN pushBuf :
        /\ SeqNo(pushBuf[s]) = s
        /\ Len(pushed) < pushBuf[s] /\ pushBuf[s] < next

(* What was acknowledged is never needed again: it was pushed, or is held. *)
Kept(k) ==
    \/ k < Len(pushed)
    \/ \E s \in DOMAIN pushBuf : pushBuf[s] = k
    \/ pc = "push" /\ k = cur

AckedIsKept == pc # "dead" => \A k \in acks \cup acked : Kept(k)

(* A packet is refused only while the camera misses the acknowledgement of *)
(* an earlier one: the oldest of those it sends again gets in, however     *)
(* full the buffer is, and makes room.                                     *)
OldestGetsIn ==
    [][\A k \in net : Refuse(k) => \E j \in 0..(k - 1) : j \notin acked]_windowVars

(* An acknowledgement says what it means to the camera: what has one need  *)
(* not be sent again, and what has none and is the oldest gets in.         *)
AcksAreRight == []AckedIsKept /\ OldestGetsIn

(* "PushSeq returns ...": the channel is an ordered, reliable one.         *)
Delivery == INSTANCE OrderedDelivery WITH sent <- next, out <- pushed

ImplementsDelivery == Delivery!Spec

(* Whatever is lost on the way, everything arrives while the connection is *)
(* up: a refused or lost packet is sent again, an acknowledged one is not  *)
(* needed.                                                                 *)
AllArrive == <>(pc = "dead" \/ Len(pushed) = Packets)
=============================================================================
