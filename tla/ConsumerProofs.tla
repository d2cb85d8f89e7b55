---------------------------- MODULE ConsumerProofs ---------------------------
(***************************************************************************)
(* Proofs about Sender and Consumer for every number of packets, length of *)
(* the queue and set of goroutines.                                        *)
(*                                                                         *)
(* Sender: the invariant ties what the code keeps apart. The channel is    *)
(* closed exactly when buf is nil, done is closed exactly when the worker  *)
(* has ended, and that happens only once the channel is closed and empty.  *)
(*                                                                         *)
(* Consumer: a consumer uses its Sender only as Sender allows, so what is  *)
(* proved there holds here; and no packet is lost or doubled between the   *)
(* handler, the buffer and the client. What the code knows and the         *)
(* property does not say: once the client is the writer, and as long as    *)
(* there is no error, the buffer is empty. With the numbers of the packets *)
(* rising in the queue, the whole way to the client is then a channel that *)
(* may lose and never reorders (LossyDelivery).                            *)
(***************************************************************************)
EXTENDS Consumer, SequenceTheorems, TLAPS

Item == IF worker = "output" THEN <<item>> ELSE <<>>

Places ==
    /\ panics = FALSE
    /\ closed <=> buf = "nil"
    /\ (done = "nil") <=> (worker = None)
    /\ (done = "closed") <=> (worker = "ended")
    /\ worker = "ended" => closed /\ queue = <<>>
    /\ worker = "output" => item \in 1..Packets
    /\ mu = "input" => inputs \in 1..Packets
    /\ packets + drops = inputs - (IF mu = "input" THEN 1 ELSE 0)

IInv == TypeOK /\ Places /\ InOrder

-----------------------------------------------------------------------------
(* Sequences.                                                              *)

LEMMA ConcatAppend ==
    ASSUME NEW S, NEW a \in Seq(S), NEW b \in Seq(S), NEW x \in S
    PROVE  a \o Append(b, x) = Append(a \o b, x)
<1>1. Append(b, x) = b \o <<x>> /\ <<x>> \in Seq(S)
  BY AppendIsConcat
<1>2. a \o b \in Seq(S)
  BY ConcatProperties
<1>3. Append(a \o b, x) = (a \o b) \o <<x>>
  BY <1>2, AppendIsConcat
<1>4. (a \o b) \o <<x>> = a \o (b \o <<x>>)
  BY <1>1, ConcatAssociative
<1>5. QED
  BY <1>1, <1>3, <1>4

LEMMA MoveHead ==
    ASSUME NEW S, NEW a \in Seq(S), NEW b \in Seq(S), b # <<>>
    PROVE  (a \o <<Head(b)>>) \o Tail(b) = a \o b
<1>1. Head(b) \in S /\ Tail(b) \in Seq(S)
  BY HeadTailProperties
<1>2. <<Head(b)>> \in Seq(S)
  BY <1>1
<1>3. b = <<Head(b)>> \o Tail(b)
  <2>1. Len(b) = Len(Tail(b)) + 1 /\ \A i \in 1..Len(Tail(b)) : Tail(b)[i] = b[i + 1]
    BY HeadTailProperties
  <2>2. Head(b) = b[1]
    OBVIOUS
  <2>3. QED
    BY <1>1, <1>2, <2>1, <2>2, SMTT(30)
<1>4. (a \o <<Head(b)>>) \o Tail(b) = a \o (<<Head(b)>> \o Tail(b))
  BY <1>1, <1>2, ConcatAssociative
<1>5. QED
  BY <1>3, <1>4

-----------------------------------------------------------------------------

LEMMA Initial == Init => IInv
<1> SUFFICES ASSUME Init PROVE IInv
  OBVIOUS
<1>1. TypeOK
  <2>1. <<>> \in Seq(1..Packets) /\ Len(<<>>) = 0
    OBVIOUS
  <2>2. pc \in [Callers -> {"begin", "locked", "wait", "returned"}]
    BY DEF Init
  <2>3. queue = <<>> /\ queued = <<>> /\ output = <<>>
    BY DEF Init
  <2>4. buf \in {"nil", "chan"} /\ done \in {"nil", "open", "closed"}
    BY DEF Init
  <2>5. closed \in BOOLEAN /\ panics \in BOOLEAN
    BY Zenon DEF Init
  <2>6. worker \in {None, "idle", "output", "ended"} /\ mu \in {None, "input"} \cup Callers
    BY Zenon DEF Init
  <2>7. /\ item \in 0..Packets
        /\ packets \in 0..Packets /\ drops \in 0..Packets /\ inputs \in 0..Packets
    BY PacketsAssumption DEF Init
  <2>8. QED
    <3>1. queue \in Seq(1..Packets) /\ Len(queue) <= BufSize
      BY <2>1, <2>3, BufSizeAssumption
    <3>2. queued \in Seq(1..Packets) /\ output \in Seq(1..Packets)
      BY <2>1, <2>3
    <3>3. QED
      BY <2>2, <2>4, <2>5, <2>6, <2>7, <3>1, <3>2 DEF TypeOK
<1>2. Places
  BY DEF Init, Places, None
<1>3. InOrder
  <2>1. <<>> \o <<>> = <<>>
    BY <1>1, ConcatEmptySeq DEF TypeOK
  <2>2. QED
    BY <2>1 DEF Init, InOrder, None
<1>4. QED
  BY <1>1, <1>2, <1>3 DEF IInv

LEMMA TypeStep == IInv /\ [Next]_vars => TypeOK'
<1> SUFFICES ASSUME IInv, [Next]_vars PROVE TypeOK'
  OBVIOUS
<1> USE PacketsAssumption, BufSizeAssumption
<1> USE DEF IInv, TypeOK, Places, None, Callers, Goes, chan, counts, work
<1>1. CASE InputLocks
  BY <1>1 DEF InputLocks
<1>2. CASE Enqueue
  BY <1>2 DEF Enqueue, HasRoom
<1>3. CASE Drop
  BY <1>3 DEF Drop
<1>4. ASSUME NEW c \in Starters, Start(c) PROVE TypeOK'
  BY <1>4 DEF Start, MayStart
<1>5. CASE Take
  <2>1. Head(queue) \in 1..Packets /\ Tail(queue) \in Seq(1..Packets) /\ Len(Tail(queue)) <= BufSize
    BY <1>5, HeadTailProperties DEF Take
  <2>2. QED
    BY <1>5, <2>1 DEF Take
<1>6. CASE Output
  BY <1>6 DEF Output
<1>7. CASE WorkerEnds
  BY <1>7 DEF WorkerEnds
<1>8. ASSUME NEW c \in Closers, CloseLocks(c) PROVE TypeOK'
  BY <1>8 DEF CloseLocks
<1>9. ASSUME NEW c \in Closers, Close(c) PROVE TypeOK'
  BY <1>9 DEF Close, ClosedBuf
<1>10. ASSUME NEW c \in Closers, Wait(c) PROVE TypeOK'
  BY <1>10 DEF Wait
<1>11. CASE UNCHANGED vars
  BY <1>11 DEF vars
<1>12. QED
  BY <1>1, <1>2, <1>3, <1>4, <1>5, <1>6, <1>7, <1>8, <1>9, <1>10, <1>11 DEF Next, Input

LEMMA PlacesStep == IInv /\ [Next]_vars => Places'
<1> SUFFICES ASSUME IInv, [Next]_vars PROVE Places'
  OBVIOUS
<1> USE PacketsAssumption, NamesAssumption
<1> USE DEF IInv, TypeOK, Places, None, Callers, Goes, chan, counts, work
<1>1. CASE InputLocks
  BY <1>1 DEF InputLocks
<1>2. CASE Enqueue
  BY <1>2 DEF Enqueue, HasRoom
<1>3. CASE Drop
  BY <1>3 DEF Drop
<1>4. ASSUME NEW c \in Starters, Start(c) PROVE Places'
  BY <1>4 DEF Start, MayStart
<1>5. CASE Take
  <2>1. Head(queue) \in 1..Packets
    BY <1>5, HeadTailProperties DEF Take
  <2>2. QED
    BY <1>5, <2>1 DEF Take
<1>6. CASE Output
  BY <1>6 DEF Output
<1>7. CASE WorkerEnds
  BY <1>7 DEF WorkerEnds, Ends
<1>8. ASSUME NEW c \in Closers, CloseLocks(c) PROVE Places'
  BY <1>8 DEF CloseLocks
<1>9. ASSUME NEW c \in Closers, Close(c) PROVE Places'
  BY <1>9 DEF Close, ClosedBuf
<1>10. ASSUME NEW c \in Closers, Wait(c) PROVE Places'
  BY <1>10 DEF Wait
<1>11. CASE UNCHANGED vars
  BY <1>11 DEF vars
<1>12. QED
  BY <1>1, <1>2, <1>3, <1>4, <1>5, <1>6, <1>7, <1>8, <1>9, <1>10, <1>11 DEF Next, Input

(* Only three steps move packets: into the queue, to the worker, and out.   *)
LEMMA OrderStep == IInv /\ [Next]_vars => InOrder'
<1> SUFFICES ASSUME IInv, [Next]_vars PROVE InOrder'
  OBVIOUS
<1> USE DEF Item
<1>0. InOrder <=> queued = (output \o Item) \o queue
  BY DEF InOrder
<1>1. /\ queued = (output \o Item) \o queue
      /\ output \in Seq(1..Packets) /\ queue \in Seq(1..Packets) /\ Item \in Seq(1..Packets)
      /\ output \o Item \in Seq(1..Packets)
  <2>1. Item \in Seq(1..Packets)
    <3>1. CASE worker = "output"
      <4>1. item \in 1..Packets
        BY <3>1 DEF IInv, Places
      <4>2. QED
        BY <3>1, <4>1
    <3>2. CASE worker # "output"
      BY <3>2
    <3>3. QED
      BY <3>1, <3>2
  <2>2. QED
    BY <1>0, <2>1, ConcatProperties DEF IInv, TypeOK
<1> SUFFICES queued' = (output' \o Item') \o queue'
  BY DEF InOrder
<1> HIDE DEF Item
<1>2. CASE Enqueue
  <2>1. ~closed
    BY <1>2 DEF Enqueue, HasRoom, IInv, Places
  <2>2. queue' = Append(queue, inputs) /\ queued' = Append(queued, inputs)
    BY <1>2, <2>1 DEF Enqueue
  <2>3. output' = output /\ Item' = Item
    BY <1>2 DEF Enqueue, work, Item
  <2>4. inputs \in 1..Packets
    BY <1>2 DEF Enqueue, IInv, Places
  <2>5. (output \o Item) \o Append(queue, inputs) = Append((output \o Item) \o queue, inputs)
    BY <1>1, <2>4, ConcatAppend
  <2>6. QED
    BY <1>1, <2>2, <2>3, <2>5
<1>3. CASE Take
  <2>1. Item = <<>> /\ Item' = <<Head(queue)>> /\ output' = output /\ queue' = Tail(queue) /\ queued' = queued
    BY <1>3 DEF Take, Item, counts
  <2>2. output \o <<>> = output
    BY <1>1, ConcatEmptySeq
  <2>3. (output \o <<Head(queue)>>) \o Tail(queue) = output \o queue
    BY <1>1, <1>3, MoveHead DEF Take
  <2>4. QED
    BY <1>1, <2>1, <2>2, <2>3
<1>4. CASE Output
  <2>1. Item = <<item>> /\ Item' = <<>> /\ output' = Append(output, item) /\ queue' = queue /\ queued' = queued
    BY <1>4 DEF Output, Item, counts, chan
  <2>2. item \in 1..Packets
    BY <1>4 DEF Output, IInv, Places
  <2>3. Append(output, item) = output \o <<item>> /\ Append(output, item) \in Seq(1..Packets)
    BY <1>1, <2>2, AppendIsConcat, AppendProperties
  <2>4. Append(output, item) \o <<>> = Append(output, item)
    BY <2>3, ConcatEmptySeq
  <2>5. QED
    BY <1>1, <2>1, <2>3, <2>4
<1>5. ASSUME NEW c \in Starters, Start(c) PROVE queued' = (output' \o Item') \o queue'
  <2>1. Item' = Item
    BY <1>5 DEF Start, MayStart, Item, IInv, Places, None
  <2>2. QED
    BY <1>1, <1>5, <2>1 DEF Start, chan, counts
<1>6. CASE WorkerEnds
  BY <1>1, <1>6 DEF WorkerEnds, Item, chan, counts
<1>7. CASE InputLocks \/ Drop
  BY <1>1, <1>7 DEF InputLocks, Drop, Item, work, chan, counts
<1>8. ASSUME NEW c \in Closers, CloseLocks(c) \/ Close(c) \/ Wait(c)
      PROVE  queued' = (output' \o Item') \o queue'
  BY <1>1, <1>8 DEF CloseLocks, Close, Wait, Item, work, chan, counts
<1>9. CASE UNCHANGED vars
  BY <1>1, <1>9 DEF vars, Item, work, chan, counts
<1>10. QED
  BY <1>2, <1>3, <1>4, <1>5, <1>6, <1>7, <1>8, <1>9 DEF Next, Input

LEMMA Invariance == Spec => []IInv
<1>1. IInv /\ [Next]_vars => IInv'
  BY TypeStep, PlacesStep, OrderStep DEF IInv
<1>2. QED
  BY <1>1, Initial, PTL DEF Spec

(* Sender.Input and Sender.Close: no order of calls writes to the closed    *)
(* channel or closes it twice.                                             *)
THEOREM ClosedOnce == Spec => []NoPanic
<1>1. IInv => NoPanic
  BY DEF IInv, Places, NoPanic
<1>2. QED
  BY <1>1, Invariance, PTL

(* The worker of Sender.Start handles packets in the order of Input, each   *)
(* once.                                                                   *)
THEOREM HandledInOrder == Spec => []InOrder
<1>1. IInv => InOrder
  BY DEF IInv
<1>2. QED
  BY <1>1, Invariance, PTL

(* Sender.Wait: whatever was queued before Close is handled when done is    *)
(* closed.                                                                 *)
THEOREM DrainedByWait == Spec => []WaitDrains
<1>1. IInv => WaitDrains
  <2> SUFFICES ASSUME IInv, done = "closed" PROVE output = queued
    BY DEF WaitDrains
  <2>1. worker = "ended" /\ queue = <<>> /\ output \in Seq(1..Packets)
    BY DEF IInv, Places, TypeOK
  <2>2. output \o <<>> = output
    BY <2>1, ConcatEmptySeq
  <2>3. queued = (output \o <<>>) \o <<>>
    BY <2>1 DEF IInv, InOrder
  <2>4. QED
    BY <2>2, <2>3
<1>2. QED
  BY <1>1, Invariance, PTL

-----------------------------------------------------------------------------
(* The consumer of a Sender.                                               *)

(* A consumer starts, feeds and closes its Sender in some order that       *)
(* Sender allows for, whatever its client and its request do.              *)
THEOREM ConsumerDrivesSender == ConsumerSpec => Spec
<1>1. ConsumerInit => Init
  BY DEF ConsumerInit
<1>2. ConsumerNext => [Next]_vars
  BY DEF ConsumerNext, Handler, Stop, Request, Next, Input
<1>3. UNCHANGED consumerVars => UNCHANGED vars
  BY DEF consumerVars
<1>4. QED
  BY <1>1, <1>2, <1>3, PTL DEF ConsumerSpec, Spec

(* So a consumer never panics, handles in order, and Wait drains.          *)
THEOREM ConsumerSafety == ConsumerSpec => [](TypeOK /\ NoPanic /\ HandlesAll)
<1>1. IInv => TypeOK
  BY DEF IInv
<1>2. QED
  BY <1>1, ConsumerDrivesSender, Invariance, ClosedOnce, HandledInOrder, DrainedByWait, PTL DEF HandlesAll

-----------------------------------------------------------------------------
(* Prefixes.                                                               *)

LEMMA Regroup ==
    ASSUME NEW S, NEW a \in Seq(S), NEW c \in Seq(S), NEW d \in Seq(S)
    PROVE  (a \o c) \o d = a \o (c \o d)
BY ConcatAssociative

LEMMA CutInTwo ==
    ASSUME NEW S, NEW a \in Seq(S), NEW b \in Seq(S), NEW n \in 0..Len(b)
    PROVE  (a \o SubSeq(b, 1, n)) \o SubSeq(b, n + 1, Len(b)) = a \o b
<1> DEFINE c == SubSeq(b, 1, n)
           d == SubSeq(b, n + 1, Len(b))
<1>1. Len(b) \in Nat /\ \A i \in 1..Len(b) : b[i] \in S
  BY LenProperties, ElementOfSeq
<1>2. c \in Seq(S) /\ d \in Seq(S)
  BY <1>1, SubSeqProperties
<1>3. c \o d = SubSeq(b, 1, Len(b))
  <2>1. 1 \in 1..(Len(b) + 1) /\ n \in (1 - 1)..Len(b) /\ Len(b) \in n..Len(b)
    BY <1>1
  <2>2. QED
    BY <2>1, ConcatAdjacentSubSeq
<1>4. c \o d = b
  BY <1>3, SubSeqFull
<1> HIDE DEF c, d
<1>5. \A x, y \in Seq(S) : (a \o x) \o y = a \o (x \o y)
  BY Regroup
<1>6. (a \o c) \o d = a \o b
  BY <1>2, <1>4, <1>5, Zenon
<1>7. QED
  BY <1>6, Zenon DEF c, d

LEMMA PrefixOfItself == ASSUME NEW S, NEW s \in Seq(S) PROVE IsPrefix(s, s)
<1>1. Len(s) \in Nat
  BY LenProperties
<1>2. QED
  BY <1>1 DEF IsPrefix

LEMMA PrefixOfAppend ==
    ASSUME NEW S, NEW s \in Seq(S), NEW t \in Seq(S), NEW x \in S, IsPrefix(s, t)
    PROVE  IsPrefix(s, Append(t, x))
<1>1. Len(s) \in Nat /\ Len(t) \in Nat /\ Len(s) <= Len(t)
  BY LenProperties DEF IsPrefix
<1>2. /\ Append(t, x) \in Seq(S) /\ Len(Append(t, x)) = Len(t) + 1
      /\ \A i \in 1..Len(t) : Append(t, x)[i] = t[i]
  BY AppendProperties
<1>3. \A i \in 1..Len(s) : t[i] \in S /\ Append(t, x)[i] \in S
  BY <1>1, <1>2, ElementOfSeq
<1>4. /\ SubSeq(t, 1, Len(s)) \in Seq(S)
      /\ Len(SubSeq(t, 1, Len(s))) = IF 1 <= Len(s) THEN Len(s) - 1 + 1 ELSE 0
      /\ \A i \in 1..(Len(s) - 1 + 1) : SubSeq(t, 1, Len(s))[i] = t[1 + i - 1]
  BY <1>1, <1>3, SubSeqProperties
<1>5. /\ SubSeq(Append(t, x), 1, Len(s)) \in Seq(S)
      /\ Len(SubSeq(Append(t, x), 1, Len(s))) = IF 1 <= Len(s) THEN Len(s) - 1 + 1 ELSE 0
      /\ \A i \in 1..(Len(s) - 1 + 1) : SubSeq(Append(t, x), 1, Len(s))[i] = Append(t, x)[1 + i - 1]
  BY <1>1, <1>3, SubSeqProperties
<1>6. \A i \in 1..Len(SubSeq(t, 1, Len(s))) :
          SubSeq(t, 1, Len(s))[i] = SubSeq(Append(t, x), 1, Len(s))[i]
  BY <1>1, <1>2, <1>4, <1>5
<1>7. SubSeq(t, 1, Len(s)) = SubSeq(Append(t, x), 1, Len(s))
  BY <1>4, <1>5, <1>6, SeqEqual
<1>8. QED
  BY <1>1, <1>2, <1>7 DEF IsPrefix

-----------------------------------------------------------------------------
(* The invariant of the hand-over.                                         *)

HandOver == writer = "client" /\ ~err => buffer = <<>>

BufferInv == WB!TypeOK /\ HandOver /\ NothingLost

LEMMA BufferInitial == ConsumerInit => BufferInv
<1> SUFFICES ASSUME ConsumerInit PROVE BufferInv
  OBVIOUS
<1>1. buffer = <<>> /\ client = <<>> /\ output = <<>> /\ ~err /\ writer = "buffer"
  BY DEF ConsumerInit, Init, WB!Init
<1>2. WB!TypeOK
  BY EmptySeq DEF ConsumerInit, WB!Init, WB!TypeOK
<1>3. client \o buffer = output /\ output \in Seq({})
  BY <1>1, EmptySeq, ConcatEmptySeq
<1>4. IsPrefix(client \o buffer, output)
  BY <1>3, PrefixOfItself
<1>5. QED
  BY <1>1, <1>2, <1>3, <1>4 DEF BufferInv, HandOver, NothingLost

(* The handler of the sender writes one packet.                            *)
LEMMA HandlerStep ==
    ASSUME IInv, BufferInv, Handler
    PROVE  BufferInv'
<1>1. /\ item \in 1..Packets /\ output' = Append(output, item)
      /\ output \in Seq(1..Packets) /\ client \in Seq(1..Packets) /\ buffer \in Seq(1..Packets)
  BY DEF IInv, Places, TypeOK, BufferInv, WB!TypeOK, Handler, Output
<1>2. client \o buffer \in Seq(1..Packets)
  BY <1>1, ConcatProperties
<1>3. output' \in Seq(1..Packets) /\ IsPrefix(client \o buffer, output')
  BY <1>1, <1>2, AppendProperties, PrefixOfAppend DEF BufferInv, NothingLost
<1>4. UNCHANGED <<writer, gone, closable, writeTo, close>>
  BY DEF Handler, WB!Write
<1>5. CASE WB!WriteAfterError \/ WB!WriteFails
  <2>1. client' = client /\ buffer' = buffer /\ err'
    BY <1>5 DEF WB!WriteAfterError, WB!WriteFails, WB!Fails, WB!data, WB!wait
  <2>2. WB!TypeOK'
    <3>1. state' \in {"none", "start", "end"} /\ wg' = (IF state' = "start" THEN 1 ELSE 0)
      BY <1>5 DEF BufferInv, WB!TypeOK, WB!WriteAfterError, WB!WriteFails, WB!Fails, WB!done, WB!wait
    <3>2. err' \in BOOLEAN
      BY <1>5 DEF BufferInv, WB!TypeOK, WB!WriteAfterError, WB!WriteFails, WB!Fails, WB!wait
    <3>3. QED
      BY <1>4, <2>1, <3>1, <3>2 DEF BufferInv, WB!TypeOK
  <2>3. QED
    BY <1>3, <2>1, <2>2 DEF BufferInv, HandOver, NothingLost
<1>6. CASE WB!WriteToBuffer(item)
  <2>1. /\ buffer' = Append(buffer, item) /\ client' = client /\ err' = err /\ ~err
        /\ state' = state /\ wg' = wg /\ writer = "buffer"
    BY <1>6 DEF WB!WriteToBuffer, WB!wait
  <2>2. client' \o buffer' = output'
    BY <1>1, <2>1, ConcatAppend DEF BufferInv, NothingLost
  <2>3. WB!TypeOK'
    BY <1>1, <1>4, <2>1, AppendProperties DEF BufferInv, WB!TypeOK
  <2>4. QED
    BY <1>3, <1>4, <2>1, <2>2, <2>3, PrefixOfItself DEF BufferInv, HandOver, NothingLost
<1>7. CASE WB!WriteToClient(item)
  <2>1. /\ client' = Append(client, item) /\ buffer' = <<>> /\ buffer = <<>> /\ err' = err /\ ~err
        /\ state' = state /\ wg' = wg
    BY <1>7 DEF WB!WriteToClient, WB!wait, BufferInv, HandOver
  <2>2. client' \in Seq(1..Packets) /\ buffer' \in Seq(1..Packets)
    BY <1>1, <2>1, AppendProperties, EmptySeq
  <2>3. client' \o buffer' = Append(client, item) /\ client \o buffer = client
    BY <1>1, <2>1, <2>2, ConcatEmptySeq
  <2>4. client' \o buffer' = output'
    BY <1>1, <2>1, <2>3 DEF BufferInv, NothingLost
  <2>5. WB!TypeOK'
    BY <1>4, <2>1, <2>2 DEF BufferInv, WB!TypeOK
  <2>6. QED
    BY <1>3, <2>1, <2>4, <2>5, PrefixOfItself DEF BufferInv, HandOver, NothingLost
<1>8. QED
  BY <1>5, <1>6, <1>7 DEF Handler, WB!Write

(* WriteTo hands the buffer over to the client, or a part of it.           *)
LEMMA WriteToStep ==
    ASSUME IInv, BufferInv, WB!WriteToBegins, UNCHANGED vars
    PROVE  BufferInv'
<1>1. client \in Seq(1..Packets) /\ buffer \in Seq(1..Packets) /\ output \in Seq(1..Packets)
  BY DEF IInv, TypeOK, BufferInv, WB!TypeOK
<1>2. /\ output' = output /\ gone' = gone /\ close' = close /\ closable' \in BOOLEAN
      /\ writeTo' = "wait" /\ writer' = "client"
  BY DEF WB!WriteToBegins, WB!Reset, vars, work
<1>3. CASE gone /\ buffer # <<>>
  <2>1. PICK n \in 0..(Len(buffer) - 1) :
            client' = client \o SubSeq(buffer, 1, n) /\ buffer' = SubSeq(buffer, n + 1, Len(buffer))
    BY <1>3 DEF WB!WriteToBegins, WB!Reset
  <2>2. Len(buffer) \in Nat /\ n \in Nat /\ n <= Len(buffer)
    BY <1>1, LenProperties
  <2>3. \A i \in 1..Len(buffer) : buffer[i] \in 1..Packets
    BY <1>1, ElementOfSeq
  <2>4. SubSeq(buffer, 1, n) \in Seq(1..Packets)
    BY <2>2, <2>3, SubSeqProperties
  <2>5. SubSeq(buffer, n + 1, Len(buffer)) \in Seq(1..Packets)
    BY <2>2, <2>3, SubSeqProperties
  <2>6. (client \o SubSeq(buffer, 1, n)) \o SubSeq(buffer, n + 1, Len(buffer)) = client \o buffer
    <3>1. n \in 0..Len(buffer)
      BY <2>2
    <3>2. QED
      BY <1>1, <3>1, CutInTwo, Zenon
  <2>7. client' \o buffer' = client \o buffer
    BY <2>1, <2>6, Zenon
  <2>8. client' \in Seq(1..Packets) /\ buffer' \in Seq(1..Packets)
    BY <1>1, <2>1, <2>4, <2>5, ConcatProperties
  <2>9. err' = TRUE /\ wg' = 0 /\ state' \in {"none", "end"}
    BY <1>3 DEF WB!WriteToBegins, WB!Reset, WB!Added, BufferInv, WB!TypeOK
  <2>10. WB!TypeOK'
    BY <1>2, <2>8, <2>9 DEF BufferInv, WB!TypeOK
  <2>11. QED
    BY <1>2, <2>7, <2>9, <2>10 DEF BufferInv, HandOver, NothingLost
<1>4. CASE ~(gone /\ buffer # <<>>)
  <2>1. client' = client \o buffer /\ buffer' = <<>> /\ err' = err
    BY <1>4 DEF WB!WriteToBegins, WB!Reset, WB!HandedOver
  <2>2. client' \in Seq(1..Packets) /\ buffer' \in Seq(1..Packets)
    BY <1>1, <2>1, ConcatProperties, EmptySeq
  <2>3. client' \o buffer' = client \o buffer
    BY <2>1, <2>2, ConcatEmptySeq
  <2>4. state' \in {"none", "start", "end"} /\ wg' = (IF state' = "start" THEN 1 ELSE 0)
    BY <1>4 DEF WB!WriteToBegins, WB!Reset, WB!Added, BufferInv, WB!TypeOK
  <2>5. WB!TypeOK'
    BY <1>2, <2>1, <2>2, <2>4 DEF BufferInv, WB!TypeOK
  <2>6. QED
    BY <1>2, <2>1, <2>3, <2>5 DEF BufferInv, HandOver, NothingLost
<1>5. QED
  BY <1>3, <1>4

(* Everything else leaves the packets where they are.                      *)
LEMMA QuietStep ==
    ASSUME BufferInv, UNCHANGED <<output, writer, buffer, client, err>>, WB!TypeOK'
    PROVE  BufferInv'
BY DEF BufferInv, HandOver, NothingLost

LEMMA CloseStep ==
    ASSUME BufferInv, NEW c \in Closers, WB!Close(c), UNCHANGED vars
    PROVE  BufferInv'
<1>1. UNCHANGED <<output, writer, buffer, client, err>>
  BY DEF WB!Close, WB!CloseLooks, WB!CloseWriter, WB!CloseDone, WB!data, WB!wait, vars, work
<1>2. WB!TypeOK'
  <2>1. close' \in [Closers -> {"idle", "mutex", "writer", "returned"}]
    BY DEF WB!Close, WB!CloseLooks, WB!CloseWriter, WB!CloseDone, WB!CloseGoes, BufferInv, WB!TypeOK
  <2>2. state' \in {"none", "start", "end"} /\ wg' = (IF state' = "start" THEN 1 ELSE 0)
    BY DEF WB!Close, WB!CloseLooks, WB!CloseWriter, WB!CloseDone, WB!done, WB!wait, BufferInv, WB!TypeOK
  <2>3. gone' \in BOOLEAN /\ closable' = closable /\ writeTo' = writeTo
    BY DEF WB!Close, WB!CloseLooks, WB!CloseWriter, WB!CloseDone, BufferInv, WB!TypeOK
  <2>4. QED
    BY <1>1, <2>1, <2>2, <2>3 DEF BufferInv, WB!TypeOK
<1>3. QED
  BY <1>1, <1>2, QuietStep

LEMMA BufferStep == IInv /\ BufferInv /\ [ConsumerNext]_consumerVars => BufferInv'
<1> SUFFICES ASSUME IInv, BufferInv, [ConsumerNext]_consumerVars PROVE BufferInv'
  OBVIOUS
<1>1. CASE Handler
  BY <1>1, HandlerStep
<1>2. ASSUME UNCHANGED bufferVars, UNCHANGED output PROVE BufferInv'
  <2>1. WB!TypeOK'
    BY <1>2 DEF bufferVars, BufferInv, WB!TypeOK
  <2>2. QED
    BY <1>2, <2>1, QuietStep DEF bufferVars
<1>3. CASE (Input \/ Take \/ WorkerEnds) /\ UNCHANGED bufferVars
  BY <1>2, <1>3 DEF Input, InputLocks, Enqueue, Drop, Take, WorkerEnds, work
<1>4. ASSUME NEW c \in Starters, Start(c), UNCHANGED bufferVars PROVE BufferInv'
  BY <1>2, <1>4 DEF Start
<1>5. ASSUME NEW c \in Closers, CloseLocks(c) \/ Close(c) \/ Wait(c), UNCHANGED bufferVars
      PROVE  BufferInv'
  BY <1>2, <1>5 DEF CloseLocks, Close, Wait, work
<1>6. ASSUME NEW c \in Closers, WB!Close(c), UNCHANGED vars PROVE BufferInv'
  BY <1>6, CloseStep
<1>7. CASE WB!WriteToBegins /\ UNCHANGED vars
  BY <1>7, WriteToStep
<1>8. CASE (WB!WriteToReturns \/ WB!ClientGoes) /\ UNCHANGED vars
  <2>1. UNCHANGED <<output, writer, buffer, client, err>>
    BY <1>8 DEF WB!WriteToReturns, WB!ClientGoes, WB!data, WB!wait, vars, work
  <2>2. WB!TypeOK'
    BY <1>8, <2>1 DEF WB!WriteToReturns, WB!ClientGoes, WB!wait, BufferInv, WB!TypeOK
  <2>3. QED
    BY <2>1, <2>2, QuietStep
<1>9. CASE UNCHANGED consumerVars
  BY <1>2, <1>9 DEF consumerVars, vars, work
<1>10. QED
  BY <1>1, <1>3, <1>4, <1>5, <1>6, <1>7, <1>8, <1>9 DEF ConsumerNext, Stop, Request

(* WriteBuffer.Write, Reset and Close: whatever is handled is in the buffer *)
(* or with the client, once and in order, up to the first error.           *)
THEOREM NothingIsLost == ConsumerSpec => [](ConsumerTypeOK /\ NothingLost)
<1>1. IInv /\ BufferInv => ConsumerTypeOK /\ NothingLost
  BY DEF IInv, BufferInv, ConsumerTypeOK
<1>2. ConsumerSpec => []IInv
  BY ConsumerDrivesSender, Invariance, PTL
<1>3. ConsumerSpec => []BufferInv
  BY <1>2, BufferInitial, BufferStep, PTL DEF ConsumerSpec
<1>4. QED
  BY <1>1, <1>2, <1>3, PTL

-----------------------------------------------------------------------------
(* The way of a packet to the client.                                      *)

(* The numbers of the packets that entered the queue rise, and a packet    *)
(* that Input holds is later than all of them.                             *)
Ordered ==
    /\ Stream!Rises(queued)
    /\ \A i \in 1..Len(queued) : queued[i] <= inputs /\ (mu = "input" => queued[i] < inputs)

Begins(s, t) == Len(s) <= Len(t) /\ \A i \in 1..Len(s) : s[i] = t[i]

LEMMA BeginsOfConcat ==
    ASSUME NEW S, NEW s \in Seq(S), NEW t \in Seq(S)
    PROVE  Begins(s, s \o t) /\ s \o t \in Seq(S)
<1>1. Len(s) \in Nat /\ Len(t) \in Nat
  BY LenProperties
<1>2. /\ s \o t \in Seq(S) /\ Len(s \o t) = Len(s) + Len(t)
      /\ \A i \in 1..(Len(s) + Len(t)) : (s \o t)[i] = IF i <= Len(s) THEN s[i] ELSE t[i - Len(s)]
  BY ConcatProperties
<1>3. \A i \in 1..Len(s) : (s \o t)[i] = s[i]
  BY <1>1, <1>2
<1>4. Len(s) <= Len(s \o t)
  BY <1>1, <1>2
<1> QED BY <1>2, <1>3, <1>4 DEF Begins

LEMMA BeginsOfPrefix ==
    ASSUME NEW S, NEW s \in Seq(S), NEW t \in Seq(S), IsPrefix(s, t)
    PROVE  Begins(s, t)
<1>1. Len(s) \in Nat /\ Len(t) \in Nat /\ Len(s) <= Len(t)
  BY LenProperties DEF IsPrefix
<1>2. \A i \in 1..Len(s) : s[i] \in S /\ t[i] \in S
  BY <1>1, ElementOfSeq
<1>3. \A i \in 1..(Len(s) - 1 + 1) : SubSeq(s, 1, Len(s))[i] = s[1 + i - 1]
  BY <1>1, <1>2, SubSeqProperties
<1>4. \A i \in 1..(Len(s) - 1 + 1) : SubSeq(t, 1, Len(s))[i] = t[1 + i - 1]
  BY <1>1, <1>2, SubSeqProperties
<1>5. SubSeq(s, 1, Len(s)) = SubSeq(t, 1, Len(s))
  BY <1>1 DEF IsPrefix
<1>6. ASSUME NEW i \in 1..Len(s) PROVE s[i] = t[i]
  <2>1. i \in 1..(Len(s) - 1 + 1) /\ 1 + i - 1 = i
    BY <1>1
  <2> QED BY <1>3, <1>4, <1>5, <2>1
<1> QED BY <1>1, <1>6 DEF Begins

LEMMA BeginsTransitive ==
    ASSUME NEW S, NEW s \in Seq(S), NEW t \in Seq(S), NEW u \in Seq(S), Begins(s, t), Begins(t, u)
    PROVE  Begins(s, u)
<1>1. Len(s) \in Nat /\ Len(t) \in Nat /\ Len(u) \in Nat
  BY LenProperties
<1> QED BY <1>1 DEF Begins

LEMMA OrderedStep == IInv /\ Ordered /\ [Next]_vars => Ordered'
<1> SUFFICES ASSUME IInv, Ordered, [Next]_vars PROVE Ordered'
  OBVIOUS
<1>0. queued \in Seq(1..Packets) /\ Len(queued) \in Nat /\ inputs \in Nat /\ \A i \in 1..Len(queued) : queued[i] \in Nat
  <2>1. queued \in Seq(1..Packets)
    BY DEF IInv, TypeOK
  <2> QED BY <2>1, LenProperties, ElementOfSeq, PacketsAssumption DEF IInv, TypeOK
<1>1. CASE InputLocks
  <2>1. queued' = queued /\ inputs' = inputs + 1
    BY <1>1 DEF InputLocks
  <2> QED BY <1>0, <2>1 DEF Ordered, Stream!Rises
<1>2. CASE Enqueue
  <2>1. /\ queued' = Append(queued, inputs) /\ inputs' = inputs /\ mu = "input" /\ mu' # "input"
        /\ inputs \in 1..Packets
    BY <1>2 DEF Enqueue, HasRoom, IInv, Places, None
  <2>2. /\ Len(queued') = Len(queued) + 1 /\ queued'[Len(queued) + 1] = inputs
        /\ \A i \in 1..Len(queued) : queued'[i] = queued[i]
    BY <1>0, <2>1, AppendProperties
  <2>3. \A i \in 1..Len(queued) : queued[i] < inputs
    BY <2>1 DEF Ordered
  <2>4. \A i \in 1..Len(queued') : queued'[i] <= inputs
    BY <1>0, <2>2, <2>3
  <2>5. ASSUME NEW i \in 1..Len(queued'), NEW j \in 1..Len(queued'), i < j
        PROVE  queued'[i] < queued'[j]
    <3>1. i \in 1..Len(queued) /\ (j \in 1..Len(queued) \/ j = Len(queued) + 1)
      BY <1>0, <2>2, <2>5
    <3>2. CASE j = Len(queued) + 1
      BY <2>2, <2>3, <3>1, <3>2
    <3>3. CASE j \in 1..Len(queued)
      BY <2>2, <2>5, <3>1, <3>3 DEF Ordered, Stream!Rises
    <3> QED BY <3>1, <3>2, <3>3
  <2> QED BY <2>1, <2>4, <2>5 DEF Ordered, Stream!Rises
<1>3. CASE Next /\ ~InputLocks /\ ~Enqueue
  <2>1. queued' = queued /\ inputs' = inputs /\ (mu' = "input" => mu = "input")
    BY <1>3, NamesAssumption DEF Next, Input, Drop, Start, Take, Output, WorkerEnds, CloseLocks, Close, Wait,
       counts, None
  <2> QED BY <2>1 DEF Ordered, Stream!Rises
<1>4. CASE UNCHANGED vars
  BY <1>4 DEF vars, counts, Ordered, Stream!Rises
<1> QED BY <1>1, <1>2, <1>3, <1>4

LEMMA AllOrdered == Spec => []Ordered
<1>1. Init => Ordered
  BY DEF Init, Ordered, Stream!Rises
<1> QED BY <1>1, Invariance, OrderedStep, PTL DEF Spec

(* What the client has is a beginning of what was queued.                  *)
LEMMA ClientRises ==
    ASSUME IInv, BufferInv, Ordered
    PROVE  Stream!Rises(client) /\ \A i \in 1..Len(client) : client[i] \in 1..inputs
<1>1. /\ client \in Seq(1..Packets) /\ buffer \in Seq(1..Packets) /\ output \in Seq(1..Packets)
      /\ queue \in Seq(1..Packets) /\ queued \in Seq(1..Packets) /\ Item \in Seq(1..Packets)
      /\ queued = (output \o Item) \o queue /\ inputs \in Nat
  <2>1. Item \in Seq(1..Packets)
    <3>1. CASE worker = "output"
      <4>1. item \in 1..Packets
        BY <3>1 DEF IInv, Places
      <4> QED BY <3>1, <4>1 DEF Item
    <3>2. CASE worker # "output"
      BY <3>2 DEF Item
    <3> QED BY <3>1, <3>2
  <2> QED BY <2>1, PacketsAssumption DEF IInv, TypeOK, BufferInv, WB!TypeOK, InOrder, Item
<1>2. Begins(client, client \o buffer) /\ client \o buffer \in Seq(1..Packets)
  BY <1>1, BeginsOfConcat
<1>3. Begins(client \o buffer, output)
  BY <1>1, <1>2, BeginsOfPrefix DEF BufferInv, NothingLost
<1>4. Begins(output, output \o Item) /\ output \o Item \in Seq(1..Packets)
  BY <1>1, BeginsOfConcat
<1>5. Begins(output \o Item, queued)
  BY <1>1, <1>4, BeginsOfConcat
<1>6. Begins(client, queued)
  <2>1. Begins(client, output)
    BY <1>1, <1>2, <1>3, BeginsTransitive
  <2>2. Begins(output, queued)
    BY <1>1, <1>4, <1>5, BeginsTransitive
  <2> QED BY <1>1, <2>1, <2>2, BeginsTransitive
<1>7. Len(client) \in Nat /\ Len(queued) \in Nat /\ \A i \in 1..Len(queued) : queued[i] \in 1..Packets
  BY <1>1, LenProperties, ElementOfSeq
<1>8. \A i \in 1..Len(client) : i \in 1..Len(queued) /\ client[i] = queued[i]
  BY <1>6, <1>7 DEF Begins
<1>9. Stream!Rises(client)
  BY <1>8 DEF Ordered, Stream!Rises
<1>10. \A i \in 1..Len(client) : client[i] \in 1..inputs
  <2> SUFFICES ASSUME NEW i \in 1..Len(client) PROVE client[i] \in 1..inputs
    OBVIOUS
  <2>1. i \in 1..Len(queued) /\ client[i] = queued[i] /\ queued[i] \in 1..Packets
    BY <1>7, <1>8
  <2>2. queued[i] <= inputs
    BY <2>1 DEF Ordered
  <2>3. inputs \in Nat /\ queued[i] \in Nat /\ queued[i] >= 1
    <3>1. inputs \in Nat
      BY <1>1
    <3>2. queued[i] \in Nat /\ queued[i] >= 1
      BY <2>1, PacketsAssumption
    <3> QED BY <3>1, <3>2
  <2> QED BY <2>1, <2>2, <2>3
<1> QED BY <1>9, <1>10

(* The client is only ever given more.                                     *)
LEMMA ClientGrows ==
    ASSUME IInv, BufferInv, [ConsumerNext]_consumerVars
    PROVE  client' = client \/ (Begins(client, client') /\ inputs' = inputs)
<1>1. client \in Seq(1..Packets) /\ buffer \in Seq(1..Packets)
  BY DEF BufferInv, WB!TypeOK
<1>2. CASE Handler
  <2>1. inputs' = inputs /\ item \in 1..Packets
    BY <1>2 DEF Handler, Output, counts, IInv, Places
  <2>2. client' = client \/ client' = Append(client, item)
    BY <1>2 DEF Handler, WB!Write, WB!WriteAfterError, WB!WriteToBuffer, WB!WriteToClient, WB!WriteFails, WB!data
  <2>3. Begins(client, Append(client, item))
    <3>1. /\ Len(Append(client, item)) = Len(client) + 1 /\ Len(client) \in Nat
          /\ \A i \in 1..Len(client) : Append(client, item)[i] = client[i]
      BY <1>1, <2>1, AppendProperties, LenProperties
    <3> QED BY <3>1 DEF Begins
  <2> QED BY <2>1, <2>2, <2>3
<1>3. CASE WB!WriteToBegins /\ UNCHANGED vars
  <2>1. inputs' = inputs
    BY <1>3 DEF vars, counts
  <2>2. PICK s \in Seq(1..Packets) : client' = client \o s
    <3>1. CASE gone /\ buffer # <<>>
      <4>1. PICK n \in 0..(Len(buffer) - 1) : client' = client \o SubSeq(buffer, 1, n)
        BY <1>3, <3>1 DEF WB!WriteToBegins, WB!Reset
      <4>2. Len(buffer) \in Nat /\ n \in Nat /\ n <= Len(buffer) /\ \A i \in 1..n : buffer[i] \in 1..Packets
        <5>1. Len(buffer) \in Nat /\ \A i \in 1..Len(buffer) : buffer[i] \in 1..Packets
          BY <1>1, LenProperties, ElementOfSeq
        <5> QED BY <5>1
      <4>3. SubSeq(buffer, 1, n) \in Seq(1..Packets)
        BY <4>2, SubSeqProperties
      <4> QED BY <4>1, <4>3
    <3>2. CASE ~(gone /\ buffer # <<>>)
      BY <1>1, <1>3, <3>2 DEF WB!WriteToBegins, WB!Reset, WB!HandedOver
    <3> QED BY <3>1, <3>2
  <2> QED BY <1>1, <2>1, <2>2, BeginsOfConcat
<1>4. CASE UNCHANGED client
  BY <1>4
<1>5. CASE ~Handler /\ ~WB!WriteToBegins
  <2>1. client' = client
    BY <1>5 DEF ConsumerNext, Stop, Request, bufferVars, consumerVars,
       WB!Close, WB!CloseLooks, WB!CloseWriter, WB!CloseDone, WB!WriteToReturns, WB!ClientGoes, WB!data
  <2> QED BY <2>1
<1>6. CASE WB!WriteToBegins /\ ~Handler /\ ~UNCHANGED vars
  <2>1. UNCHANGED bufferVars
    BY <1>6 DEF ConsumerNext, Stop, Request, consumerVars
  <2> QED BY <2>1 DEF bufferVars
<1> QED BY <1>2, <1>3, <1>5, <1>6

(* The queue, its worker, the buffer and the change of the writer together *)
(* are a channel that may lose packets and never reorders or repeats one,  *)
(* for every length of the queue, and whoever starts and stops it.         *)
THEOREM ConsumerIsLossy == ConsumerSpec => ImplementsLossy
<1>1. ConsumerInit => Stream!Init
  BY DEF ConsumerInit, Init, WB!Init, Stream!Init
<1>2. ConsumerSpec => [](IInv /\ BufferInv /\ Ordered)
  <2>1. ConsumerSpec => []IInv
    BY ConsumerDrivesSender, Invariance, PTL
  <2>2. ConsumerSpec => []BufferInv
    BY <2>1, BufferInitial, BufferStep, PTL DEF ConsumerSpec
  <2> QED BY <2>1, <2>2, ConsumerDrivesSender, AllOrdered, PTL
<1>3. /\ IInv /\ BufferInv /\ Ordered /\ (IInv /\ BufferInv /\ Ordered)'
      /\ [ConsumerNext]_consumerVars
      => [Stream!Next]_<<inputs, client>>
  <2> SUFFICES ASSUME IInv, BufferInv, (IInv /\ BufferInv /\ Ordered)', [ConsumerNext]_consumerVars
               PROVE  [Stream!Next]_<<inputs, client>>
    OBVIOUS
  <2>1. Stream!Rises(client') /\ \A i \in 1..Len(client') : client'[i] \in 1..inputs'
    <3>1. (Stream!Rises(client) /\ \A i \in 1..Len(client) : client[i] \in 1..inputs)'
      BY ClientRises, PTL
    <3> QED BY <3>1 DEF Stream!Rises
  <2>2. CASE client' = client
    <3>1. inputs' = inputs \/ inputs' = inputs + 1
      BY DEF ConsumerNext, Handler, Output, Input, InputLocks, Enqueue, Drop, Start, Take, WorkerEnds,
         Stop, CloseLocks, Close, Wait, Request, counts, vars, consumerVars
    <3> QED BY <2>2, <3>1 DEF Stream!Next, Stream!Send
  <2>3. CASE Begins(client, client') /\ inputs' = inputs
    BY <2>1, <2>3 DEF Begins, Stream!Next, Stream!Deliver
  <2> QED BY <2>2, <2>3, ClientGrows
<1> QED BY <1>1, <1>2, <1>3, PTL DEF ConsumerSpec, ImplementsLossy, Stream!Spec

-----------------------------------------------------------------------------
(* The goroutine of the request.                                           *)

(* The counter can be set up only before the first error: whoever meets an *)
(* error writes to a client, and that one came through Reset.              *)
ReleasedInv ==
    /\ writer = "client" => state # "none"
    /\ err => state = "end"

LEMMA ReleasedStep == BufferInv /\ ReleasedInv /\ [ConsumerNext]_consumerVars => ReleasedInv'
<1> SUFFICES ASSUME BufferInv, ReleasedInv, [ConsumerNext]_consumerVars PROVE ReleasedInv'
  OBVIOUS
<1>1. CASE Handler
  BY <1>1 DEF Handler, WB!Write, WB!WriteAfterError, WB!WriteToBuffer, WB!WriteToClient, WB!WriteFails,
     WB!Fails, WB!done, WB!wait, BufferInv, WB!TypeOK, ReleasedInv
<1>2. ASSUME UNCHANGED <<writer, state, err>> PROVE ReleasedInv'
  BY <1>2 DEF ReleasedInv
<1>3. CASE WB!WriteToBegins
  BY <1>3 DEF WB!WriteToBegins, WB!Reset, WB!Added, BufferInv, WB!TypeOK, ReleasedInv
<1>4. ASSUME NEW c \in Closers, WB!CloseDone(c) PROVE ReleasedInv'
  BY <1>4 DEF WB!CloseDone, WB!done, WB!data, BufferInv, WB!TypeOK, ReleasedInv
<1>5. CASE UNCHANGED bufferVars
  BY <1>2, <1>5 DEF bufferVars
<1>6. ASSUME NEW c \in Closers, WB!CloseLooks(c) \/ WB!CloseWriter(c) PROVE ReleasedInv'
  BY <1>2, <1>6 DEF WB!CloseLooks, WB!CloseWriter, WB!wait
<1>7. CASE WB!WriteToReturns \/ WB!ClientGoes
  BY <1>2, <1>7 DEF WB!WriteToReturns, WB!ClientGoes, WB!wait
<1>8. CASE ConsumerNext
  BY <1>1, <1>3, <1>4, <1>5, <1>6, <1>7, <1>8 DEF ConsumerNext, Stop, Request, WB!Close
<1> QED BY <1>5, <1>8 DEF consumerVars

(* No error leaves the request waiting: the first one that a Write meets,  *)
(* or that the hand-over of the buffer meets, takes the counter back, and  *)
(* nothing sets it again.                                                  *)
THEOREM ErrorsRelease == ConsumerSpec => []Released
<1>1. ConsumerInit => ReleasedInv
  BY DEF ConsumerInit, WB!Init, ReleasedInv
<1>2. ConsumerSpec => []BufferInv
  <2>1. ConsumerSpec => []IInv
    BY ConsumerDrivesSender, Invariance, PTL
  <2> QED BY <2>1, BufferInitial, BufferStep, PTL DEF ConsumerSpec
<1>3. BufferInv /\ ReleasedInv => Released
  BY DEF BufferInv, WB!TypeOK, ReleasedInv, Released, WB!Released
<1> QED BY <1>1, <1>2, <1>3, ReleasedStep, PTL DEF ConsumerSpec
=============================================================================
