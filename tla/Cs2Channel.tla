----------------------------- MODULE Cs2Channel ------------------------------
(***************************************************************************)
(* The payload of the packets of Cs2Window: dataChannel.Push cuts the byte *)
(* stream of the camera into messages again and hands them to the reader,  *)
(* pkg/xiaomi/miss/cs2/conn.go. A message is a header that says its size   *)
(* and a body; the camera may cut the stream anywhere, so that a packet    *)
(* holds several messages, or a message spans several packets.             *)
(* A byte is told by its place in the stream, from 1 on.                   *)
(***************************************************************************)
EXTENDS Cs2Window

CONSTANTS
    Header,     \* bytes of a size: 4 in the code
    Sizes,      \* the sizes of the messages of the camera
    Start,      \* Start[m]: how many bytes come before message m
    PopSize     \* capacity of dataChannel.popBuf

ASSUME HeaderAssumption == Header \in Nat \ {0} /\ PopSize \in Nat \ {0}
ASSUME SizesAssumption == Sizes \in Seq(Nat)
ASSUME StartAssumption ==
    /\ Start \in [1..(Len(Sizes) + 1) -> Nat] /\ Start[1] = 0
    /\ \A m \in DOMAIN Sizes : Start[m + 1] = Start[m] + Header + Sizes[m]

VARIABLES
    cut,        \* camera: cut[k] bytes come before packet k
    waitData,   \* dataChannel.waitData
    waitSize,   \* dataChannel.waitSize
    inLoop,     \* Push is in its loop
    popBuf,     \* dataChannel.popBuf
    popped      \* what Pop has returned so far

framing == <<waitData, waitSize, inLoop, popBuf, popped>>
vars == <<windowVars, cut, framing>>

(* The bytes after the first a of the stream, up to byte b.                *)
Bytes(a, b) == [i \in 1..(b - a) |-> a + i]

Body(m) == Bytes(Start[m] + Header, Start[m + 1])
Stream == Start[Len(Sizes) + 1]

(* What a size is read as: garbage, unless it is read off a header.        *)
Begins(m, d) == d[1] = Start[m] + 1
ReadSize(d) ==
    IF \E m \in DOMAIN Sizes : Begins(m, d)
    THEN Sizes[CHOOSE m \in DOMAIN Sizes : Begins(m, d)] ELSE 1

(* The ways to cut the stream into non-empty packets.                      *)
Cuts == {c \in [0..Packets -> 0..Stream] :
            /\ c[0] = 0 /\ c[Packets] = Stream
            /\ \A k \in 0..(Packets - 1) : c[k] < c[k + 1]}
Payload(k) == Bytes(cut[k], cut[k + 1])

Init ==
    /\ WindowInit
    /\ cut \in Cuts
    /\ waitData = <<>> /\ waitSize = 0 /\ inLoop = FALSE
    /\ popBuf = <<>> /\ popped = <<>>

-----------------------------------------------------------------------------

(* Push appends the payload of the packet PushSeq holds ...                *)
PushBegins ==
    /\ pc = "push" /\ ~inLoop
    /\ waitData' = waitData \o Payload(cur)
    /\ inLoop' = TRUE
    /\ UNCHANGED <<windowVars, cut, waitSize, popBuf, popped>>

(* ... and looks at what has come together: the size, if it is not known   *)
(* yet, and what follows it.                                               *)
LongEnough == Len(waitData) > Header
SizeNow == IF LongEnough /\ waitSize = 0 THEN ReadSize(waitData) ELSE waitSize
DataNow == IF LongEnough /\ waitSize = 0 THEN SubSeq(waitData, Header + 1, Len(waitData)) ELSE waitData

Whole == LongEnough /\ SizeNow <= Len(DataNow)

(* Mutant: the size of the last message is kept.                           *)
SizeLeftMutant == SizeNow

(* The size that is known after a message was handed over.                 *)
SizeLeft == 0

PushMessage ==
    /\ inLoop /\ Whole
    /\ Len(popBuf) < PopSize
    /\ popBuf' = Append(popBuf, SubSeq(DataNow, 1, SizeNow))
    /\ waitData' = SubSeq(DataNow, SizeNow + 1, Len(DataNow))
    /\ waitSize' = SizeLeft
    /\ UNCHANGED <<windowVars, cut, inLoop, popped>>

(* The rest is kept for the next packet, and PushSeq goes on.              *)
PushReturns ==
    /\ inLoop /\ ~Whole
    /\ PushNext \/ PushLast
    /\ waitData' = DataNow /\ waitSize' = SizeNow
    /\ inLoop' = FALSE
    /\ UNCHANGED <<cut, popBuf, popped>>

(* "pop buffer is full": the connection ends, and both channels close.     *)
PushFull ==
    /\ inLoop /\ Whole
    /\ Len(popBuf) = PopSize
    /\ PushFails
    /\ waitData' = DataNow /\ waitSize' = SizeNow
    /\ inLoop' = FALSE
    /\ UNCHANGED <<cut, popBuf, popped>>

(* The reader takes a message, also those left in a closed channel.        *)
Pop ==
    /\ popBuf # <<>>
    /\ popped' = Append(popped, Head(popBuf))
    /\ popBuf' = Tail(popBuf)
    /\ UNCHANGED <<windowVars, cut, waitData, waitSize, inLoop>>

Socket == (Outside \/ ReadFails \/ \E k \in net : Receive(k)) /\ UNCHANGED <<cut, framing>>

Next == PushBegins \/ PushMessage \/ PushReturns \/ PushFull \/ Pop \/ Socket

Spec == Init /\ [][Next]_vars

-----------------------------------------------------------------------------
(* Properties.                                                             *)

Handed == popped \o popBuf

(* What the reader gets are the messages of the camera, whole, in order    *)
(* and none twice, however the stream was cut and the packets came in.     *)
HandsMessages ==
    /\ Len(Handed) <= Len(Sizes)
    /\ \A i \in 1..Len(Handed) : Handed[i] = Body(i)

(* And none is withheld: a message whose packets were all pushed is handed *)
(* over, without waiting for a packet of the next message.                 *)
WithholdsNone ==
    pc = "read" =>
        \A m \in DOMAIN Sizes : Start[m + 1] <= cut[Len(pushed)] => m <= Len(Handed)

Framed == HandsMessages /\ WithholdsNone
=============================================================================
