----------------------------- MODULE Cs2Proofs ------------------------------
(***************************************************************************)
(* Proofs about a connection of pkg/xiaomi/miss/cs2.                       *)
(*                                                                         *)
(* Cs2Window puts packets in order, for every number of packets, window    *)
(* and size of the buffer, with the 16 bit sequence numbers of the code.   *)
(* The connection uses the window as it is meant (Cs2Channel pushes a      *)
(* packet to its end before the next), so that this holds of it too.       *)
(* And a command that was reported as sent has arrived: on a prompt        *)
(* network a command is repeated when nothing of it is on the way, so that *)
(* an acknowledgement is that of the command that waits.                   *)
(***************************************************************************)
EXTENDS Cs2Conn, WellFoundedInduction, SequenceTheorems, TLAPS

(* Sequence numbers of packets at most half the space apart compare like   *)
(* the packets do.                                                         *)
LEMMA DiffIsDistance ==
    ASSUME NEW a \in Nat, NEW b \in Nat, a < b + Half, b <= a + Half
    PROVE  Diff(SeqNo(a), SeqNo(b)) = a - b
<1>1. CASE Half = 3
  BY <1>1, SMT DEF Diff, SeqNo, SeqSpace
<1>2. CASE Half = 32768
  BY <1>2, SMTT(30) DEF Diff, SeqNo, SeqSpace
<1> QED BY <1>1, <1>2, HalfAssumption

LEMMA SeqFacts ==
    /\ SeqNo(0) = 0
    /\ \A a \in Nat : SeqNo(a) \in SeqNums /\ (SeqNo(a) + 1) % SeqSpace = SeqNo(a + 1)
<1>1. CASE Half = 3
  BY <1>1, SMT DEF SeqNo, SeqSpace, SeqNums
<1>2. CASE Half = 32768
  <2>1. SeqNo(0) = 0
    BY <1>2, SMTT(30) DEF SeqNo, SeqSpace
  <2>2. ASSUME NEW a \in Nat PROVE SeqNo(a) \in SeqNums
    BY <1>2, SMTT(30) DEF SeqNo, SeqSpace, SeqNums
  <2>3. ASSUME NEW a \in Nat PROVE (SeqNo(a) + 1) % SeqSpace = SeqNo(a + 1)
    BY <1>2, SMTT(30) DEF SeqNo, SeqSpace
  <2> QED BY <2>1, <2>2, <2>3
<1> QED BY <1>1, <1>2, HalfAssumption

LEMMA SeqInjective ==
    ASSUME NEW a \in Nat, NEW b \in Nat, SeqNo(a) = SeqNo(b), a < b + Half, b < a + Half
    PROVE  a = b
<1>1. Half \in Nat
  BY HalfAssumption, SMT
<1>2. Diff(SeqNo(a), SeqNo(b)) = a - b
  BY DiffIsDistance, <1>1
<1>3. Diff(SeqNo(b), SeqNo(b)) = b - b
  BY DiffIsDistance, <1>1, HalfAssumption, SMT
<1> QED BY <1>2, <1>3

-----------------------------------------------------------------------------
(* The inductive invariant. The worker reads only when the packet it waits *)
(* for is nowhere in the buffer; the camera cannot be a whole window ahead *)
(* of that one; so whatever is on the way is within half the sequence      *)
(* space of it.                                                            *)

InStep ==
    /\ waitSeq = SeqNo(Len(pushed))
    /\ Len(pushed) <= next
    /\ pc = "push" => /\ cur = Len(pushed) /\ cur < next
                      /\ got < Len(pushed) \/ got = cur

(* Strictly within the half of the sequence space that is the future.      *)
NearFuture ==
    \A s \in DOMAIN pushBuf :
        /\ SeqNo(pushBuf[s]) = s
        /\ Len(pushed) < pushBuf[s] /\ pushBuf[s] < Len(pushed) + Half
        /\ pushBuf[s] < next

OnTheWay == \A k \in net : k < next /\ next <= k + Half

WithinWindow == \A k \in 0..(next - 1) : k \notin acked => next <= k + Window

IInv ==
    /\ WindowTypeOK
    /\ InOrder
    /\ InStep
    /\ NearFuture
    /\ OnTheWay
    /\ WithinWindow
    /\ AckedIsKept

LEMMA ReadNear ==
    ASSUME IInv, pc = "read", NEW k \in net
    PROVE  /\ k \in Nat /\ k < Len(pushed) + Half /\ Len(pushed) <= k + Half
           /\ Diff(SeqNo(k), waitSeq) = k - Len(pushed)
           /\ Len(pushed) \notin acked
<1> USE HalfAssumption, WindowAssumption, SizeAssumption
<1>1. k \in Nat /\ Len(pushed) \in Nat /\ next \in Nat
  BY DEF IInv, WindowTypeOK
<1>2. Len(pushed) \notin acked
  <2>1. ~Kept(Len(pushed))
    BY <1>1, SMT DEF IInv, NearFuture, WindowTypeOK, Kept
  <2> QED BY <2>1 DEF IInv, AckedIsKept
<1>3. next <= Len(pushed) + Window
  BY <1>1, <1>2, SMT DEF IInv, WithinWindow, InStep
<1>4. k < Len(pushed) + Half /\ Len(pushed) <= k + Half
  BY <1>1, <1>3, SMT DEF IInv, OnTheWay, InStep
<1>5. Diff(SeqNo(k), SeqNo(Len(pushed))) = k - Len(pushed)
  BY <1>1, <1>4, DiffIsDistance
<1> QED BY <1>1, <1>2, <1>4, <1>5 DEF IInv, InStep

LEMMA InitInv == WindowInit => IInv
<1> USE HalfAssumption, WindowAssumption, SizeAssumption
<1> SUFFICES ASSUME WindowInit PROVE IInv
  OBVIOUS
<1>0. SeqNo(0) = 0 /\ 0 \in SeqNums
  BY SeqFacts, SMT
<1>1. WindowTypeOK
  BY <1>0 DEF WindowInit, WindowTypeOK
<1>2. InOrder /\ InStep
  BY <1>0, SMT DEF WindowInit, InOrder, InStep
<1>3. NearFuture /\ OnTheWay
  BY DEF WindowInit, NearFuture, OnTheWay
<1>4. WithinWindow /\ AckedIsKept
  BY SMT DEF WindowInit, WithinWindow, AckedIsKept
<1> QED BY <1>1, <1>2, <1>3, <1>4 DEF IInv

(* The camera and the network leave the channel alone.                     *)
LEMMA OutsideStep ==
    ASSUME IInv, Outside
    PROVE  IInv'
<1> USE HalfAssumption, WindowAssumption, SizeAssumption
<1> USE DEF IInv, channel, camera
<1>1. CASE Send
  <2> USE <1>1 DEF Send
  <2>1. WindowTypeOK'
    BY DEF WindowTypeOK
  <2>2. InOrder' /\ InStep' /\ NearFuture'
    BY SMT DEF WindowTypeOK, InOrder, InStep, NearFuture
  <2>3. OnTheWay'
    BY SMT DEF WindowTypeOK, OnTheWay
  <2>4. WithinWindow'
    BY SMT DEF WindowTypeOK, WithinWindow
  <2>5. AckedIsKept'
    BY DEF AckedIsKept, Kept
  <2> QED BY <2>1, <2>2, <2>3, <2>4, <2>5
<1>2. ASSUME NEW k \in 0..next, Resend(k) PROVE IInv'
  <2> USE <1>2 DEF Resend
  <2>1. k \in Nat /\ next <= k + Half
    BY SMT DEF WindowTypeOK, WithinWindow
  <2>2. WindowTypeOK' /\ OnTheWay'
    BY <2>1 DEF WindowTypeOK, OnTheWay
  <2>3. InOrder' /\ InStep' /\ NearFuture' /\ WithinWindow'
    BY DEF InOrder, InStep, NearFuture, WithinWindow
  <2>4. AckedIsKept'
    BY DEF AckedIsKept, Kept
  <2> QED BY <2>2, <2>3, <2>4
<1>3. ASSUME NEW k \in acks, Acknowledged(k) PROVE IInv'
  <2> USE <1>3 DEF Acknowledged
  <2>1. WindowTypeOK' /\ OnTheWay'
    BY DEF WindowTypeOK, OnTheWay
  <2>2. InOrder' /\ InStep' /\ NearFuture' /\ WithinWindow'
    BY DEF InOrder, InStep, NearFuture, WithinWindow
  <2>3. AckedIsKept'
    BY DEF AckedIsKept, Kept
  <2> QED BY <2>1, <2>2, <2>3
<1>4. CASE Lose
  <2> USE <1>4 DEF Lose
  <2>1. WindowTypeOK' /\ OnTheWay'
    BY DEF WindowTypeOK, OnTheWay
  <2>2. InOrder' /\ InStep' /\ NearFuture' /\ WithinWindow'
    BY DEF InOrder, InStep, NearFuture, WithinWindow
  <2>3. AckedIsKept'
    BY DEF AckedIsKept, Kept
  <2> QED BY <2>1, <2>2, <2>3
<1> QED BY <1>1, <1>2, <1>3, <1>4 DEF Outside

(* The worker reads a packet.                                              *)
LEMMA ReceiveStep ==
    ASSUME IInv, NEW k \in net, Receive(k)
    PROVE  IInv'
<1> USE HalfAssumption, WindowAssumption, SizeAssumption
<1> DEFINE L == Len(pushed)
<1>1. pc = "read" /\ L \in Nat /\ next \in Nat /\ waitSeq = SeqNo(L)
  BY DEF Receive, Refuse, Save, Repeat, Expected, Read, IInv, WindowTypeOK, InStep
<1>2. /\ k \in Nat /\ k < L + Half /\ L <= k + Half
      /\ Diff(SeqNo(k), waitSeq) = k - L
  BY <1>1, ReadNear
<1>3. k < next /\ net' \subseteq net /\ got' = k /\ UNCHANGED <<camera, waitSeq, pushed>>
  BY DEF Receive, Refuse, Save, Repeat, Expected, Read, IInv, OnTheWay
<1>4. WithinWindow' /\ OnTheWay' /\ InOrder'
  BY <1>3 DEF IInv, WithinWindow, OnTheWay, InOrder, camera
<1>5. /\ Future(k) => L < k
      /\ Past(k) => k < L
      /\ ~Future(k) /\ ~Past(k) => k = L
  BY <1>1, <1>2, SMT DEF Future, Past
<1>10. ASSUME pc' = "read" PROVE InStep'
  BY <1>1, <1>3, <1>10 DEF IInv, InStep, camera
<1> HIDE DEF L
<1>6. CASE Refuse(k)
  <2> USE <1>6 DEF Refuse, IInv, camera
  <2>1. WindowTypeOK'
    BY <1>2, <1>3 DEF WindowTypeOK
  <2>2. InStep' /\ NearFuture'
    BY <1>1, <1>3, <1>10 DEF NearFuture
  <2>3. AckedIsKept'
    BY <1>1, <1>3 DEF AckedIsKept, Kept
  <2> QED BY <1>4, <2>1, <2>2, <2>3
<1>7. CASE Save(k)
  <2> USE <1>7 DEF Save, IInv, camera
  <2>1. SeqNo(k) \in SeqNums
    BY <1>2, SeqFacts
  <2>2. /\ DOMAIN pushBuf' = DOMAIN pushBuf \cup {SeqNo(k)}
        /\ \A s \in DOMAIN pushBuf : pushBuf'[s] = pushBuf[s]
        /\ pushBuf'[SeqNo(k)] = k
    <3>1. CASE SeqNo(k) \notin DOMAIN pushBuf
      BY <3>1
    <3>2. CASE SeqNo(k) \in DOMAIN pushBuf
      <4>1. pushBuf[SeqNo(k)] \in Nat /\ SeqNo(pushBuf[SeqNo(k)]) = SeqNo(k)
            /\ L < pushBuf[SeqNo(k)] /\ pushBuf[SeqNo(k)] < L + Half
        BY <3>2 DEF WindowTypeOK, NearFuture, L
      <4>2. pushBuf[SeqNo(k)] < k + Half /\ k < pushBuf[SeqNo(k)] + Half
        BY <4>1, <1>1, <1>2, <1>5, SMT
      <4>3. pushBuf[SeqNo(k)] = k
        BY <4>1, <4>2, <1>2, SeqInjective
      <4> QED BY <3>2, <4>3
    <3> QED BY <3>1, <3>2
  <2>3. WindowTypeOK'
    <3>1. DOMAIN pushBuf' \in SUBSET SeqNums
      BY <2>1, <2>2 DEF WindowTypeOK
    <3>2. pushBuf' \in [DOMAIN pushBuf' -> Nat]
      BY <1>2, <2>2 DEF WindowTypeOK
    <3> QED BY <1>2, <1>3, <3>1, <3>2 DEF WindowTypeOK
  <2>4. InStep'
    BY <1>1, <1>10
  <2>5. NearFuture'
    BY <1>1, <1>2, <1>3, <1>5, <2>2 DEF NearFuture, L
  <2>6. AckedIsKept'
    <3>1. Kept(k)'
      BY <2>2 DEF Kept
    <3>2. \A j : Kept(j) => Kept(j)'
      BY <2>2, <1>1, <1>3 DEF Kept
    <3> QED BY <1>1, <1>3, <3>1, <3>2 DEF AckedIsKept
  <2> QED BY <1>4, <2>3, <2>4, <2>5, <2>6
<1>8. CASE Repeat(k)
  <2> USE <1>8 DEF Repeat, IInv, camera
  <2>1. WindowTypeOK'
    BY <1>2, <1>3 DEF WindowTypeOK
  <2>2. InStep' /\ NearFuture'
    BY <1>1, <1>3, <1>10 DEF NearFuture
  <2>3. AckedIsKept'
    <3>1. Kept(k)'
      BY <1>3, <1>5 DEF Kept, L
    <3>2. \A j : Kept(j) => Kept(j)'
      BY <1>1, <1>3 DEF Kept
    <3> QED BY <1>1, <1>3, <3>1, <3>2 DEF AckedIsKept
  <2> QED BY <1>4, <2>1, <2>2, <2>3
<1>9. CASE Expected(k)
  <2> USE <1>9 DEF Expected, IInv, camera
  <2>1. WindowTypeOK'
    BY <1>2, <1>3 DEF WindowTypeOK
  <2>2. InStep' /\ NearFuture'
    BY <1>1, <1>3, <1>5 DEF InStep, NearFuture, L
  <2>3. AckedIsKept'
    BY <1>1, <1>3 DEF AckedIsKept, Kept
  <2> QED BY <1>4, <2>1, <2>2, <2>3
<1> QED BY <1>6, <1>7, <1>8, <1>9 DEF Receive

(* One round of the loop pushes the packet the channel waits for.          *)
LEMMA PushFacts ==
    ASSUME IInv, pc = "push", pushed' = Append(pushed, cur), waitSeq' = NextSeq,
           UNCHANGED next
    PROVE  /\ Len(pushed) \in Nat /\ cur = Len(pushed)
           /\ Len(pushed') = Len(pushed) + 1 /\ pushed' \in Seq(Nat)
           /\ waitSeq' = SeqNo(Len(pushed) + 1) /\ waitSeq' \in SeqNums
           /\ Len(pushed') <= next'
           /\ InOrder'
<1>1. Len(pushed) \in Nat /\ cur \in Nat /\ cur = Len(pushed) /\ cur < next /\ next \in Nat
  BY DEF IInv, WindowTypeOK, InStep
<1>2. /\ Len(pushed') = Len(pushed) + 1 /\ pushed' \in Seq(Nat)
      /\ \A i \in 1..Len(pushed) : pushed'[i] = pushed[i]
      /\ pushed'[Len(pushed) + 1] = cur
  BY <1>1 DEF IInv, WindowTypeOK
<1>3. waitSeq' = SeqNo(Len(pushed) + 1) /\ waitSeq' \in SeqNums
  BY <1>1, SeqFacts DEF IInv, InStep, NextSeq
<1>4. InOrder'
  BY <1>1, <1>2, SMT DEF IInv, InOrder
<1> QED BY <1>1, <1>2, <1>3, <1>4, SMT

LEMMA PushNextStep ==
    ASSUME IInv, PushNext
    PROVE  IInv'
<1> USE HalfAssumption
<1> DEFINE L == Len(pushed)
<1> USE DEF PushNext, camera
<1>1. /\ L \in Nat /\ cur = L
      /\ Len(pushed') = L + 1 /\ pushed' \in Seq(Nat)
      /\ waitSeq' = SeqNo(L + 1) /\ waitSeq' \in SeqNums
      /\ Len(pushed') <= next'
      /\ InOrder'
  BY PushFacts
<1>2. /\ NextSeq = SeqNo(L + 1) /\ cur' = pushBuf[NextSeq] /\ cur' \in Nat
      /\ SeqNo(cur') = NextSeq /\ L < cur' /\ cur' < L + Half /\ cur' < next
  BY <1>1 DEF IInv, NearFuture, WindowTypeOK
<1>3. cur' = L + 1
  BY <1>1, <1>2, SeqInjective, SMT
<1>4. /\ DOMAIN pushBuf' = DOMAIN pushBuf \ {NextSeq}
      /\ \A s \in DOMAIN pushBuf' : pushBuf'[s] = pushBuf[s]
  BY DEF Taken
<1>5. WindowTypeOK'
  <2>1. DOMAIN pushBuf' \in SUBSET SeqNums
    BY <1>4 DEF IInv, WindowTypeOK
  <2>2. pushBuf' \in [DOMAIN pushBuf' -> Nat]
    BY DEF IInv, WindowTypeOK, Taken
  <2> QED BY <2>1, <2>2, <1>1, <1>2 DEF IInv, WindowTypeOK
<1>6. InStep'
  <2>1. got < L \/ got = L
    BY <1>1 DEF IInv, InStep
  <2> QED BY <1>1, <1>2, <1>3, <2>1 DEF InStep, IInv, WindowTypeOK
<1>7. NearFuture'
  <2>1. ASSUME NEW s \in DOMAIN pushBuf' PROVE pushBuf[s] # L + 1
    BY <1>2, <1>4, <2>1 DEF IInv, NearFuture
  <2>2. ASSUME NEW s \in DOMAIN pushBuf'
        PROVE  /\ SeqNo(pushBuf[s]) = s /\ L < pushBuf[s] /\ pushBuf[s] < L + Half
               /\ pushBuf[s] < next /\ pushBuf[s] \in Nat
    BY <1>4, <2>2 DEF IInv, NearFuture, WindowTypeOK
  <2> HIDE DEF L
  <2> QED BY <1>1, <1>4, <2>1, <2>2, SMT DEF NearFuture
<1>8. OnTheWay' /\ WithinWindow'
  BY DEF IInv, OnTheWay, WithinWindow
<1>9. AckedIsKept'
  <2>1. ASSUME NEW k \in Nat, Kept(k) PROVE Kept(k)'
    <3>1. CASE k < L
      BY <3>1, <1>1 DEF Kept
    <3>2. CASE k = cur
      BY <3>2, <1>1 DEF Kept
    <3>3. CASE \E s \in DOMAIN pushBuf : pushBuf[s] = k
      BY <3>3, <1>2, <1>4 DEF Kept
    <3> QED BY <2>1, <3>1, <3>2, <3>3 DEF Kept
  <2>2. acks \cup acked \subseteq Nat
    BY DEF IInv, WindowTypeOK
  <2> QED BY <2>1, <2>2 DEF IInv, AckedIsKept
<1> QED BY <1>1, <1>5, <1>6, <1>7, <1>8, <1>9 DEF IInv

LEMMA PushLastStep ==
    ASSUME IInv, PushLast
    PROVE  IInv'
<1> USE HalfAssumption
<1> DEFINE L == Len(pushed)
<1> USE DEF PushLast, camera
<1>1. /\ L \in Nat /\ cur = L
      /\ Len(pushed') = L + 1 /\ pushed' \in Seq(Nat)
      /\ waitSeq' = SeqNo(L + 1) /\ waitSeq' \in SeqNums
      /\ Len(pushed') <= next'
      /\ InOrder'
  BY PushFacts
<1>2. WindowTypeOK'
  BY <1>1 DEF IInv, WindowTypeOK
<1>3. InStep'
  BY <1>1 DEF InStep
<1>4. NearFuture'
  <2>1. ASSUME NEW s \in DOMAIN pushBuf
        PROVE  /\ SeqNo(pushBuf[s]) = s /\ L < pushBuf[s] /\ pushBuf[s] < L + Half
               /\ pushBuf[s] < next /\ pushBuf[s] \in Nat /\ pushBuf[s] # L + 1
    BY <1>1, <2>1 DEF IInv, NearFuture, WindowTypeOK
  <2> HIDE DEF L
  <2> QED BY <1>1, <2>1, SMT DEF NearFuture
<1>5. OnTheWay' /\ WithinWindow'
  BY DEF IInv, OnTheWay, WithinWindow
<1>6. AckedIsKept'
  <2>1. ASSUME NEW k \in Nat, Kept(k) PROVE Kept(k)'
    BY <2>1, <1>1 DEF Kept
  <2>2. got \in Nat /\ Kept(got)
    BY <1>1 DEF Kept, IInv, InStep, WindowTypeOK
  <2>3. acks \cup acked \subseteq Nat
    BY DEF IInv, WindowTypeOK
  <2> QED BY <2>1, <2>2, <2>3 DEF IInv, AckedIsKept
<1> QED BY <1>1, <1>2, <1>3, <1>4, <1>5, <1>6 DEF IInv

LEMMA DeadStep ==
    ASSUME IInv, PushFails \/ ReadFails
    PROVE  IInv'
<1> USE DEF PushFails, ReadFails, camera
<1>1. WindowTypeOK'
  BY DEF IInv, WindowTypeOK
<1>2. InOrder' /\ InStep' /\ NearFuture'
  BY DEF IInv, InOrder, InStep, NearFuture
<1>3. OnTheWay' /\ WithinWindow' /\ AckedIsKept'
  BY DEF IInv, OnTheWay, WithinWindow, AckedIsKept
<1> QED BY <1>1, <1>2, <1>3 DEF IInv

LEMMA NextInv == IInv /\ [WindowNext]_windowVars => IInv'
<1> SUFFICES ASSUME IInv, [WindowNext]_windowVars PROVE IInv'
  OBVIOUS
<1>1. CASE Outside
  BY <1>1, OutsideStep
<1>2. ASSUME NEW k \in net, Receive(k) PROVE IInv'
  BY <1>2, ReceiveStep
<1>3. CASE PushNext
  BY <1>3, PushNextStep
<1>4. CASE PushLast
  BY <1>4, PushLastStep
<1>5. CASE PushFails \/ ReadFails
  BY <1>5, DeadStep
<1>6. CASE UNCHANGED windowVars
  BY <1>6 DEF windowVars, camera, channel, IInv, WindowTypeOK, InOrder, InStep, NearFuture,
              OnTheWay, WithinWindow, AckedIsKept, Kept
<1> QED BY <1>1, <1>2, <1>3, <1>4, <1>5, <1>6 DEF WindowNext, WorkerNext

LEMMA WindowInv == WindowSpec => []IInv
BY InitInv, NextInv, PTL DEF WindowSpec

(* Type correctness, for every size of the network and the buffer.         *)
THEOREM WindowTypes == WindowSpec => []WindowTypeOK
BY WindowInv, PTL DEF IInv

(* PushSeq keeps the order of the camera, and what it acknowledged, and no *)
(* packet stays in its buffer behind the one it waits for.                 *)
THEOREM WindowSafety == WindowSpec => [](InOrder /\ HoldsFuture /\ AckedIsKept)
<1>1. IInv => InOrder /\ HoldsFuture /\ AckedIsKept
  BY DEF IInv, NearFuture, HoldsFuture
<1> QED BY <1>1, WindowInv, PTL

(* What was acknowledged is kept, and the packet that the camera has to    *)
(* send again before it may go on is never refused, however full the       *)
(* buffer is: what arrives later can wait, and nothing waits for ever.     *)
THEOREM OldestIsTaken == WindowSpec => AcksAreRight
<1>1. IInv /\ [WindowNext]_windowVars
        => [\A k \in net : Refuse(k) => \E j \in 0..(k - 1) : j \notin acked]_windowVars
  <2> SUFFICES ASSUME IInv, NEW k \in net, Refuse(k)
               PROVE  \E j \in 0..(k - 1) : j \notin acked
    OBVIOUS
  <2>1. pc = "read" /\ Diff(SeqNo(k), waitSeq) > 0
    BY DEF Refuse, Read, Future
  <2>2. k \in Nat /\ Len(pushed) \in Nat /\ Len(pushed) \notin acked /\ Diff(SeqNo(k), waitSeq) = k - Len(pushed)
    BY <2>1, ReadNear DEF IInv, WindowTypeOK
  <2>3. Len(pushed) \in 0..(k - 1)
    BY <2>1, <2>2, SMT
  <2> QED BY <2>2, <2>3
<1> QED BY <1>1, WindowInv, WindowSafety, PTL DEF WindowSpec, OldestGetsIn, AcksAreRight

(* The lossy network and PushSeq implement an ordered, reliable channel.   *)
THEOREM WindowRefines == WindowSpec => ImplementsDelivery
<1>1. WindowInit => Delivery!Init
  BY DEF WindowInit, Delivery!Init
<1>2. IInv /\ [WindowNext]_windowVars => [Delivery!Next]_<<next, pushed>>
  <2> SUFFICES ASSUME IInv, [WindowNext]_windowVars
               PROVE  [Delivery!Next]_<<next, pushed>>
    OBVIOUS
  <2>1. CASE Send
    BY <2>1 DEF Send, channel, Delivery!Next, Delivery!Send
  <2>2. CASE PushNext \/ PushLast
    <3>1. pushed' = Append(pushed, Len(pushed)) /\ Len(pushed) < next /\ UNCHANGED next
      BY <2>2 DEF PushNext, PushLast, camera, IInv, InStep
    <3> QED BY <3>1 DEF Delivery!Next, Delivery!Deliver
  <2>3. ASSUME NEW k, Resend(k) \/ Acknowledged(k) PROVE UNCHANGED <<next, pushed>>
    BY <2>3 DEF Resend, Acknowledged, camera, channel
  <2>4. ASSUME Lose \/ PushFails \/ ReadFails \/ UNCHANGED windowVars
        PROVE  UNCHANGED <<next, pushed>>
    BY <2>4 DEF Lose, PushFails, ReadFails, camera, channel, windowVars
  <2>5. ASSUME NEW k, Receive(k) PROVE UNCHANGED <<next, pushed>>
    BY <2>5 DEF Receive, Refuse, Save, Repeat, Expected, Read, camera
  <2> QED BY <2>1, <2>2, <2>3, <2>4, <2>5 DEF WindowNext, Outside, WorkerNext
<1> QED BY <1>1, <1>2, WindowInv, PTL DEF WindowSpec, ImplementsDelivery, Delivery!Spec

-----------------------------------------------------------------------------
(* The connection and its window.                                          *)

(* The worker of a connection, which cuts what it has pushed into messages *)
(* and hands them over, uses the window as WindowSpec says, whatever the   *)
(* camera sends and whether or not somebody reads.                         *)
THEOREM ConnDrivesWindow == ConnSpec => WindowSpec
<1>1. ConnInit => WindowInit
  BY DEF ConnInit, Init
<1>2. [ConnNext]_connVars => [WindowNext]_windowVars
  <2>1. Next => [WindowNext]_windowVars
    <3>1. CASE PushReturns
      BY <3>1 DEF PushReturns, WindowNext, WorkerNext
    <3>2. CASE PushFull
      BY <3>2 DEF PushFull, WindowNext, WorkerNext
    <3>3. CASE Socket
      BY <3>3 DEF Socket, WindowNext, WorkerNext
    <3>4. CASE PushBegins \/ PushMessage \/ Pop
      BY <3>4 DEF PushBegins, PushMessage, Pop
    <3> QED BY <3>1, <3>2, <3>3, <3>4 DEF Next
  <2>2. UNCHANGED vars => UNCHANGED windowVars
    BY DEF vars
  <2> QED BY <2>1, <2>2 DEF ConnNext, Media, Commanding, connVars
<1> QED BY <1>1, <1>2, PTL DEF ConnSpec, WindowSpec

(* So a connection keeps the order and what it has acknowledged, and is an *)
(* ordered, reliable channel for the payloads it cuts into messages.       *)
THEOREM ConnIsReliable == ConnSpec => [](InOrder /\ AckedIsKept) /\ ImplementsDelivery
BY ConnDrivesWindow, WindowSafety, WindowRefines, PTL

-----------------------------------------------------------------------------
(* The messages: Push reads a size only where a message begins, because    *)
(* what it keeps begins at a message or, when the size is known, at its    *)
(* body.                                                                   *)

(* A set of natural numbers has a least one.                               *)
LEMMA Least ==
    ASSUME NEW T \in SUBSET Nat, T # {}
    PROVE  \E x \in T : \A y \in T : x <= y
<1> DEFINE R == OpToRel(<, Nat)
<1>1. \A x, y \in Nat : x < y => <<x, y>> \in R
  BY SMT DEF OpToRel
<1>2. IsWellFoundedOn(R, Nat)
  BY NatLessThanWellFounded
<1> HIDE DEF R
<1>3. PICK x \in T : \A y \in T : ~(<<y, x>> \in R)
  BY <1>2, WFMin
<1>4. ASSUME NEW y \in T PROVE x <= y
  <2>1. x \in Nat /\ y \in Nat /\ ~(y < x)
    BY <1>1, <1>3
  <2> QED BY <2>1, SMT
<1> QED BY <1>4

(* The place of the messages in the stream.                                *)
LEMMA Layout ==
    /\ Header \in Nat \ {0} /\ PopSize \in Nat \ {0}
    /\ Len(Sizes) \in Nat /\ DOMAIN Sizes = 1..Len(Sizes)
    /\ Start[1] = 0 /\ \A m \in 1..(Len(Sizes) + 1) : Start[m] \in Nat
    /\ \A m \in 1..Len(Sizes) : /\ Sizes[m] \in Nat
                                /\ Start[m + 1] = Start[m] + Header + Sizes[m]
<1>1. Len(Sizes) \in Nat /\ DOMAIN Sizes = 1..Len(Sizes) /\ \A m \in 1..Len(Sizes) : Sizes[m] \in Nat
  BY SizesAssumption, LenProperties, ElementOfSeq
<1> QED BY <1>1, HeaderAssumption, StartAssumption

LEMMA StartGrows ==
    ASSUME NEW m \in 1..(Len(Sizes) + 1), NEW n \in 1..(Len(Sizes) + 1), m < n
    PROVE  Start[m] < Start[n]
<1> DEFINE T == {k \in (m + 1)..(Len(Sizes) + 1) : Start[k] <= Start[m]}
<1>0. Start[m] \in Nat /\ Start[n] \in Nat /\ n \in (m + 1)..(Len(Sizes) + 1)
  BY Layout, SMT
<1> SUFFICES ASSUME T # {} PROVE FALSE
  BY <1>0, SMT
<1>1. m \in Nat \ {0} /\ Len(Sizes) \in Nat
  BY Layout, SMT
<1>2. T \in SUBSET Nat
  BY <1>1, SMT
<1>3. PICK k \in T : \A j \in T : k <= j
  BY <1>2, Least
<1>4. k \in (m + 1)..(Len(Sizes) + 1) /\ Start[k] <= Start[m]
  OBVIOUS
<1>5. k - 1 \in 1..Len(Sizes) /\ k - 1 \in m..(Len(Sizes) + 1) /\ (k - 1) + 1 = k /\ k - 1 < k
  BY <1>1, <1>4, SMT
<1>6. Start[k] = Start[k - 1] + Header + Sizes[k - 1]
  BY <1>5, Layout
<1>7. /\ Start[k] \in Nat /\ Start[k - 1] \in Nat /\ Start[m] \in Nat
      /\ Sizes[k - 1] \in Nat /\ Header \in Nat \ {0}
  <2>1. k \in 1..(Len(Sizes) + 1) /\ k - 1 \in 1..(Len(Sizes) + 1)
    BY <1>1, <1>5, SMT
  <2> QED BY <1>5, <2>1, Layout
<1>8. Start[k - 1] < Start[m]
  BY <1>4, <1>6, <1>7, SMT
<1>9. k - 1 # m
  BY <1>7, <1>8, SMT
<1>10. k - 1 \in T
  BY <1>1, <1>5, <1>7, <1>8, <1>9, SMT
<1> QED BY <1>1, <1>3, <1>4, <1>5, <1>10, SMT

(* A size is read off the header of the message that begins there.         *)
LEMMA ReadSizeIs ==
    ASSUME NEW m \in 1..Len(Sizes), NEW d, d[1] = Start[m] + 1
    PROVE  ReadSize(d) = Sizes[m]
<1>1. ASSUME NEW n \in 1..Len(Sizes), Start[n] + 1 = Start[m] + 1 PROVE n = m
  <2>1. /\ m \in 1..(Len(Sizes) + 1) /\ n \in 1..(Len(Sizes) + 1)
        /\ Start[m] \in Nat /\ Start[n] \in Nat
    BY Layout, SMT
  <2>2. ~(m < n) /\ ~(n < m)
    BY <1>1, <2>1, StartGrows, SMT
  <2> QED BY <2>1, <2>2, Layout, SMT
<1>2. \A n \in DOMAIN Sizes : Begins(n, d) <=> n = m
  BY <1>1, Layout DEF Begins
<1> QED BY <1>2, Layout DEF ReadSize

(* Pieces of the stream.                                                   *)
LEMMA BytesAre ==
    ASSUME NEW a \in Nat, NEW b \in Nat, a <= b
    PROVE  /\ Bytes(a, b) \in Seq(Nat) /\ Len(Bytes(a, b)) = b - a
           /\ \A i \in 1..(b - a) : Bytes(a, b)[i] = a + i
<1>1. b - a \in Nat
  BY SMT
<1>2. \A i \in 1..(b - a) : a + i \in Nat
  BY SMT
<1>3. Bytes(a, b) \in [1..(b - a) -> Nat]
  BY <1>2 DEF Bytes
<1>4. Bytes(a, b) \in Seq(Nat)
  BY <1>1, <1>3, SeqDef
<1>5. Len(Bytes(a, b)) = b - a
  BY <1>1, <1>3, <1>4, LenProperties DEF Bytes
<1> QED BY <1>4, <1>5 DEF Bytes

LEMMA BytesJoin ==
    ASSUME NEW a \in Nat, NEW b \in Nat, NEW c \in Nat, a <= b, b <= c
    PROVE  Bytes(a, b) \o Bytes(b, c) = Bytes(a, c)
<1>1. /\ Bytes(a, b) \in Seq(Nat) /\ Len(Bytes(a, b)) = b - a
      /\ \A i \in 1..(b - a) : Bytes(a, b)[i] = a + i
  BY BytesAre
<1>2. /\ Bytes(b, c) \in Seq(Nat) /\ Len(Bytes(b, c)) = c - b
      /\ \A i \in 1..(c - b) : Bytes(b, c)[i] = b + i
  BY BytesAre
<1>3. /\ Bytes(a, c) \in Seq(Nat) /\ Len(Bytes(a, c)) = c - a
      /\ \A i \in 1..(c - a) : Bytes(a, c)[i] = a + i
  BY BytesAre, SMT
<1> DEFINE j == Bytes(a, b) \o Bytes(b, c)
<1>4. /\ j \in Seq(Nat) /\ Len(j) = (b - a) + (c - b)
      /\ \A i \in 1..((b - a) + (c - b)) :
            j[i] = IF i <= b - a THEN Bytes(a, b)[i] ELSE Bytes(b, c)[i - (b - a)]
  <2> DEFINE s == Bytes(a, b)
             t == Bytes(b, c)
  <2>1. s \in Seq(Nat) /\ t \in Seq(Nat) /\ Len(s) = b - a /\ Len(t) = c - b
    BY <1>1, <1>2
  <2> HIDE DEF s, t
  <2>2. /\ s \o t \in Seq(Nat)
        /\ Len(s \o t) = Len(s) + Len(t)
        /\ \A i \in 1..(Len(s) + Len(t)) : (s \o t)[i] = IF i <= Len(s) THEN s[i] ELSE t[i - Len(s)]
    BY <2>1, ConcatProperties
  <2> QED BY <2>1, <2>2 DEF s, t
<1>5. (b - a) + (c - b) = c - a
  BY SMT
<1> HIDE DEF j
<1>6. ASSUME NEW i \in 1..(c - a) PROVE j[i] = a + i
  <2>1. CASE i <= b - a
    BY <1>1, <1>4, <1>5, <2>1, SMT
  <2>2. CASE ~(i <= b - a)
    <3>1. i - (b - a) \in 1..(c - b) /\ i \in Nat /\ b + (i - (b - a)) = a + i
      BY <2>2, SMT
    <3>2. j[i] = Bytes(b, c)[i - (b - a)]
      BY <1>4, <1>5, <2>2, SMT
    <3> QED BY <1>2, <3>1, <3>2
  <2> QED BY <2>1, <2>2
<1>7. Len(j) = Len(Bytes(a, c)) /\ \A i \in 1..Len(j) : j[i] = Bytes(a, c)[i]
  BY <1>3, <1>4, <1>5, <1>6
<1>8. j = Bytes(a, c)
  BY <1>3, <1>4, <1>7, SeqEqual
<1> QED BY <1>8 DEF j

LEMMA AppendLast ==
    ASSUME NEW S, NEW s \in Seq(S), NEW t \in Seq(S), NEW e \in S
    PROVE  s \o Append(t, e) = Append(s \o t, e)
<1>1. Append(t, e) = t \o <<e>> /\ Append(s \o t, e) = (s \o t) \o <<e>> /\ <<e>> \in Seq(S)
  BY AppendIsConcat, ConcatProperties
<1> QED BY <1>1, ConcatAssociative

LEMMA BytesSub ==
    ASSUME NEW a \in Nat, NEW b \in Nat, a <= b, NEW i \in Nat \ {0}, NEW j \in Nat,
           i <= j + 1, j <= b - a
    PROVE  SubSeq(Bytes(a, b), i, j) = Bytes((a + i) - 1, a + j)
<1>0. (a + i) - 1 \in Nat /\ a + j \in Nat /\ (a + i) - 1 <= a + j
  BY SMT
<1>1. /\ Bytes(a, b) \in Seq(Nat) /\ Len(Bytes(a, b)) = b - a
      /\ \A k \in 1..(b - a) : Bytes(a, b)[k] = a + k
  BY BytesAre
<1>2. /\ Bytes((a + i) - 1, a + j) \in Seq(Nat)
      /\ Len(Bytes((a + i) - 1, a + j)) = (a + j) - ((a + i) - 1)
      /\ \A k \in 1..((a + j) - ((a + i) - 1)) : Bytes((a + i) - 1, a + j)[k] = ((a + i) - 1) + k
  BY <1>0, BytesAre
<1> DEFINE u == SubSeq(Bytes(a, b), i, j)
<1>3. u \in Seq(Nat) /\ Len(u) = (j - i) + 1
  BY <1>1, SMT
<1>4. ASSUME NEW k \in 1..((j - i) + 1) PROVE u[k] = ((a + i) - 1) + k
  <2>1. u[k] = Bytes(a, b)[(i + k) - 1] /\ (i + k) - 1 \in 1..(b - a)
    BY <1>1, SMT
  <2> QED BY <1>1, <2>1, SMT
<1>5. (a + j) - ((a + i) - 1) = (j - i) + 1
  BY SMT
<1> HIDE DEF u
<1>6. /\ Len(u) = Len(Bytes((a + i) - 1, a + j))
      /\ \A k \in 1..Len(u) : u[k] = Bytes((a + i) - 1, a + j)[k]
  BY <1>2, <1>3, <1>4, <1>5
<1>7. u = Bytes((a + i) - 1, a + j)
  BY <1>2, <1>3, <1>6, SeqEqual
<1> QED BY <1>7 DEF u

-----------------------------------------------------------------------------
LEMMA BytesSplit ==
    ASSUME NEW a \in Nat, NEW b \in Nat, NEW n \in Nat, a <= b, n <= b - a
    PROVE  /\ SubSeq(Bytes(a, b), 1, n) = Bytes(a, a + n)
           /\ SubSeq(Bytes(a, b), n + 1, b - a) = Bytes(a + n, b)
<1>1. SubSeq(Bytes(a, b), 1, n) = Bytes((a + 1) - 1, a + n)
  <2>1. 1 \in Nat \ {0} /\ 1 <= n + 1
    BY SMT
  <2> QED BY <2>1, BytesSub
<1>2. SubSeq(Bytes(a, b), n + 1, b - a) = Bytes((a + (n + 1)) - 1, a + (b - a))
  <2>1. /\ n + 1 \in Nat \ {0} /\ b - a \in Nat
        /\ n + 1 <= (b - a) + 1 /\ b - a <= b - a
    BY SMT
  <2> QED BY <2>1, BytesSub
<1>3. (a + 1) - 1 = a /\ (a + (n + 1)) - 1 = a + n /\ a + (b - a) = b
  BY SMT
<1> QED BY <1>1, <1>2, <1>3

(* What Push has put together and not handed over: the bytes from the      *)
(* beginning of the next message, or of its body once its size is known,   *)
(* to the end of what was pushed.                                          *)
Coming == Len(Handed) + 1
From == IF waitSize = 0 THEN Start[Coming] ELSE Start[Coming] + Header
Upto == cut[IF inLoop THEN Len(pushed) + 1 ELSE Len(pushed)]

Collected ==
    /\ waitSize # 0 => Coming <= Len(Sizes) /\ waitSize = Sizes[Coming]
    /\ From <= Upto
    /\ waitData = Bytes(From, Upto)

(* Between two packets no whole message is left in it.                     *)
Exhausted == Len(waitData) <= Header \/ waitSize > Len(waitData)

FramingInv ==
    /\ cut \in Cuts /\ next <= Packets
    /\ popBuf \in Seq(Seq(Nat)) /\ popped \in Seq(Seq(Nat))
    /\ inLoop \in BOOLEAN /\ (inLoop => pc = "push")
    /\ HandsMessages
    /\ pc # "dead" => Collected
    /\ pc # "dead" /\ ~inLoop => Exhausted

LEMMA Places ==
    ASSUME IInv, FramingInv
    PROVE  /\ Len(pushed) \in Nat /\ Len(pushed) <= Packets /\ Packets \in Nat
           /\ Len(Handed) \in Nat /\ Coming \in 1..(Len(Sizes) + 1)
           /\ Coming \in 1..Len(Sizes) => Coming + 1 \in 1..(Len(Sizes) + 1)
           /\ From \in Nat /\ Start[Coming] \in Nat /\ Start[Coming] <= From
           /\ pc = "push" => Len(pushed) + 1 <= Packets
           /\ \A k \in 0..Packets : cut[k] \in Nat /\ cut[k] <= Stream
           /\ \A k \in 0..(Packets - 1) : cut[k] < cut[k + 1]
           /\ Upto \in Nat /\ Upto <= Stream
<1>1. Len(pushed) \in Nat /\ next \in Nat /\ Packets \in Nat
  BY SizeAssumption DEF IInv, WindowTypeOK
<1>2. Len(pushed) <= Packets /\ (pc = "push" => Len(pushed) + 1 <= Packets)
  BY <1>1, SMT DEF IInv, InStep, FramingInv
<1>3. Handed \in Seq(Seq(Nat))
  BY ConcatProperties DEF FramingInv, Handed
<1>4. Len(Handed) \in Nat /\ Len(Handed) <= Len(Sizes)
  BY <1>3, LenProperties DEF FramingInv, HandsMessages
<1>5. Coming \in 1..(Len(Sizes) + 1) /\ (Coming \in 1..Len(Sizes) => Coming + 1 \in 1..(Len(Sizes) + 1))
  BY <1>4, Layout, SMT DEF Coming
<1>6. Start[Coming] \in Nat
  BY <1>5, Layout
<1>7. From \in Nat /\ Start[Coming] <= From
  BY <1>6, Layout, SMT DEF From
<1>8. Stream \in Nat
  BY Layout, SMT DEF Stream
<1>9. cut \in [0..Packets -> 0..Stream] /\ \A k \in 0..(Packets - 1) : cut[k] < cut[k + 1]
  BY DEF FramingInv, Cuts
<1>10. \A k \in 0..Packets : cut[k] \in Nat /\ cut[k] <= Stream
  BY <1>8, <1>9, SMT
<1>11. (IF inLoop THEN Len(pushed) + 1 ELSE Len(pushed)) \in 0..Packets
  BY <1>1, <1>2, SMT DEF FramingInv
<1>12. Upto \in Nat /\ Upto <= Stream
  BY <1>10, <1>11 DEF Upto
<1> QED BY <1>1, <1>2, <1>4, <1>5, <1>6, <1>7, <1>9, <1>10, <1>12

(* What Push makes of it.                                                  *)
LEMMA Parsed ==
    ASSUME IInv, FramingInv, inLoop, LongEnough
    PROVE  /\ Coming \in 1..Len(Sizes) /\ SizeNow = Sizes[Coming]
           /\ Start[Coming] + Header <= Upto
           /\ DataNow = Bytes(Start[Coming] + Header, Upto)
<1>0. Collected /\ From \in Nat /\ Upto \in Nat /\ From <= Upto /\ Start[Coming] \in Nat
  BY Places DEF FramingInv, Collected
<1>1. Len(waitData) = Upto - From /\ \A i \in 1..(Upto - From) : waitData[i] = From + i
  BY <1>0, BytesAre DEF Collected
<1>2. From + Header < Upto
  BY <1>0, <1>1, Layout, SMT DEF LongEnough
<1>3. Coming \in 1..Len(Sizes)
  <2>1. Start[Coming] < Stream
    <3>1. Start[Coming] <= From /\ Upto <= Stream
      BY Places
    <3>2. Stream \in Nat /\ Header \in Nat
      BY Layout, SMT DEF Stream
    <3> QED BY <1>0, <1>2, <3>1, <3>2, SMT
  <2>2. Coming # Len(Sizes) + 1
    BY <1>0, <2>1, SMT DEF Stream
  <2> QED BY <2>2, Places, Layout, SMT
<1>4. CASE waitSize = 0
  <2>1. From = Start[Coming] /\ waitData = Bytes(From, Upto)
    BY <1>0, <1>4 DEF From, Collected
  <2>2. 1 \in 1..(Upto - From)
    BY <1>0, <1>2, Layout, SMT
  <2>3. SizeNow = Sizes[Coming]
    BY <1>1, <1>3, <1>4, <2>1, <2>2, ReadSizeIs DEF SizeNow
  <2>4. SubSeq(Bytes(From, Upto), Header + 1, Upto - From)
          = Bytes((From + (Header + 1)) - 1, From + (Upto - From))
    <3>1. /\ Header + 1 \in Nat \ {0} /\ Upto - From \in Nat
          /\ Header + 1 <= (Upto - From) + 1 /\ Upto - From <= Upto - From
      BY <1>0, <1>2, Layout, SMT
    <3> QED BY <1>0, <3>1, BytesSub
  <2>5. (From + (Header + 1)) - 1 = From + Header /\ From + (Upto - From) = Upto
    BY <1>0, Layout, SMT
  <2>6. DataNow = Bytes(From + Header, Upto)
    BY <1>1, <1>4, <2>1, <2>4, <2>5 DEF DataNow
  <2> QED BY <1>0, <1>2, <1>3, <2>1, <2>3, <2>6, Layout, SMT
<1>5. CASE waitSize # 0
  <2>1. From = Start[Coming] + Header /\ SizeNow = waitSize /\ DataNow = waitData
    BY <1>5 DEF From, SizeNow, DataNow
  <2> QED BY <1>0, <1>3, <1>5, <2>1 DEF Collected
<1> QED BY <1>4, <1>5

LEMMA FramingInit == Init => FramingInv
<1> SUFFICES ASSUME Init PROVE FramingInv
  OBVIOUS
<1> USE DEF Init, WindowInit
<1>1. cut \in Cuts /\ next <= Packets /\ Packets \in Nat
  BY SizeAssumption, SMT
<1>2. popBuf \in Seq(Seq(Nat)) /\ popped \in Seq(Seq(Nat))
  OBVIOUS
<1>3. Handed = <<>> /\ Len(Handed) = 0
  BY DEF Handed
<1>4. HandsMessages
  BY <1>3, Layout, SMT DEF HandsMessages
<1>5. Coming = 1 /\ From = 0 /\ Upto = 0
  BY <1>3, Layout DEF Coming, From, Upto, Cuts
<1>6. Bytes(0, 0) = <<>>
  <2>1. Bytes(0, 0) \in Seq(Nat) /\ Len(Bytes(0, 0)) = 0
    BY BytesAre, SMT
  <2> QED BY <2>1, EmptySeq
<1>7. Collected
  <2>1. From <= Upto /\ waitData = Bytes(From, Upto)
    BY <1>5, <1>6
  <2>2. waitSize = 0
    OBVIOUS
  <2> QED BY <2>1, <2>2 DEF Collected
<1>8. Exhausted
  BY Layout, SMT DEF Exhausted
<1> QED BY <1>1, <1>2, <1>4, <1>7, <1>8 DEF FramingInv

(* The packet PushSeq holds is appended.                                   *)
LEMMA PushBeginsStep ==
    ASSUME IInv, FramingInv, PushBegins
    PROVE  FramingInv'
<1> USE DEF PushBegins
<1>0. UNCHANGED <<windowVars, Handed, Coming, From>>
  BY DEF Handed, Coming, From
<1>1. UNCHANGED <<next, pc, cur, pushed>>
  BY DEF windowVars, camera, channel
<1>2. /\ cur = Len(pushed) /\ cur \in 0..(Packets - 1) /\ cur + 1 \in 0..Packets /\ cur \in 0..Packets
      /\ Collected
  BY Places, SMT DEF IInv, InStep, FramingInv
<1>3. Upto = cut[cur] /\ Upto' = cut[cur + 1]
  BY <1>1, <1>2 DEF Upto
<1>4. From <= Upto /\ Upto <= Upto' /\ Upto' \in Nat /\ Upto \in Nat /\ From \in Nat
  BY <1>2, <1>3, Places, SMT DEF Collected
<1>5. waitData' = Bytes(From, Upto')
  BY <1>2, <1>3, <1>4, BytesJoin DEF Collected, Payload
<1>6. Collected'
  BY <1>0, <1>2, <1>4, <1>5 DEF Collected
<1>7. HandsMessages'
  BY <1>0 DEF FramingInv, HandsMessages, Body
<1> QED BY <1>1, <1>6, <1>7 DEF FramingInv

(* A message is handed over.                                               *)
LEMMA PushMessageStep ==
    ASSUME IInv, FramingInv, PushMessage
    PROVE  FramingInv'
<1>1. UNCHANGED <<next, pc, pushed, Upto, inLoop, cut>> /\ inLoop /\ pc # "dead"
  BY DEF PushMessage, windowVars, camera, channel, Upto, FramingInv
<1> DEFINE b == Start[Coming] + Header
<1>2. /\ Coming \in 1..Len(Sizes) /\ SizeNow = Sizes[Coming] /\ Sizes[Coming] \in Nat
      /\ b \in Nat /\ Upto \in Nat /\ b <= Upto /\ DataNow = Bytes(b, Upto)
      /\ Start[Coming + 1] = b + Sizes[Coming] /\ b + Sizes[Coming] \in Nat
  <2>1. Coming \in 1..Len(Sizes) /\ SizeNow = Sizes[Coming] /\ b <= Upto /\ DataNow = Bytes(b, Upto)
    BY <1>1, Parsed DEF PushMessage, Whole
  <2>2. Upto \in Nat /\ Start[Coming] \in Nat
    BY Places
  <2>3. Sizes[Coming] \in Nat /\ Start[Coming + 1] = Start[Coming] + Header + Sizes[Coming] /\ Header \in Nat
    BY <2>1, Layout
  <2> QED BY <2>1, <2>2, <2>3, SMT
<1>3. Len(DataNow) = Upto - b /\ b + Sizes[Coming] <= Upto
  <2>1. Len(DataNow) = Upto - b
    BY <1>2, BytesAre
  <2> QED BY <1>2, <2>1, SMT DEF PushMessage, Whole
<1> HIDE DEF b
<1>4. /\ SubSeq(DataNow, 1, SizeNow) = Bytes(b, b + Sizes[Coming])
      /\ SubSeq(DataNow, SizeNow + 1, Len(DataNow)) = Bytes(b + Sizes[Coming], Upto)
  <2>1. Sizes[Coming] <= Upto - b
    BY <1>2, <1>3, SMT
  <2> DEFINE n == Sizes[Coming]
  <2>2. n \in Nat /\ n <= Upto - b
    BY <1>2, <2>1
  <2> HIDE DEF n
  <2>3. /\ SubSeq(Bytes(b, Upto), 1, n) = Bytes(b, b + n)
        /\ SubSeq(Bytes(b, Upto), n + 1, Upto - b) = Bytes(b + n, Upto)
    BY <1>2, <2>2, BytesSplit
  <2> QED BY <1>2, <1>3, <2>3 DEF n
<1>6. /\ SubSeq(DataNow, 1, SizeNow) = Body(Coming) /\ Body(Coming) \in Seq(Nat)
      /\ waitData' = Bytes(Start[Coming + 1], Upto)
  <2>1. Bytes(b, b + Sizes[Coming]) \in Seq(Nat)
    <3>1. b <= b + Sizes[Coming]
      BY <1>2, SMT
    <3> QED BY <1>2, <3>1, BytesAre
  <2> QED BY <1>2, <1>4, <2>1 DEF PushMessage, Body, b
<1>7. /\ popBuf' \in Seq(Seq(Nat)) /\ popped' \in Seq(Seq(Nat))
      /\ Handed' = Append(Handed, Body(Coming)) /\ Handed \in Seq(Seq(Nat))
  <2>1. popBuf' = Append(popBuf, Body(Coming)) /\ popped' = popped
    BY <1>6 DEF PushMessage
  <2>2. popped \o Append(popBuf, Body(Coming)) = Append(popped \o popBuf, Body(Coming))
    <3>1. popBuf \in Seq(Seq(Nat)) /\ popped \in Seq(Seq(Nat))
      BY DEF FramingInv
    <3> QED BY <1>6, <3>1, AppendLast
  <2>3. popBuf \in Seq(Seq(Nat)) /\ popped \in Seq(Seq(Nat))
    BY DEF FramingInv
  <2>4. Append(popBuf, Body(Coming)) \in Seq(Seq(Nat))
    BY <1>6, <2>3, AppendProperties
  <2>5. popped \o popBuf \in Seq(Seq(Nat))
    BY <2>3, ConcatProperties
  <2> QED BY <2>1, <2>2, <2>3, <2>4, <2>5 DEF Handed
<1>8. /\ Len(Handed') = Coming /\ Coming' = Coming + 1 /\ Handed'[Coming] = Body(Coming)
      /\ \A i \in 1..Len(Handed) : Handed'[i] = Handed[i]
  BY <1>6, <1>7, AppendProperties DEF Coming
<1>9. HandsMessages'
  <2>2. ASSUME NEW i \in 1..Coming PROVE Handed'[i] = Body(i)
    <3>1. i = Coming \/ i \in 1..Len(Handed)
      <4>1. Len(Handed) \in Nat
        BY Places
      <4> QED BY <4>1, SMT DEF Coming
    <3> QED BY <1>8, <3>1 DEF FramingInv, HandsMessages
  <2> QED BY <1>2, <1>8, <2>2, SMT DEF HandsMessages, Body, Bytes
<1>10. Collected'
  <2>1. waitSize' = 0 /\ From' = Start[Coming + 1]
    BY <1>8 DEF PushMessage, SizeLeft, From
  <2>2. From' <= Upto' /\ waitData' = Bytes(From', Upto')
    BY <1>1, <1>2, <1>3, <1>6, <2>1
  <2> QED BY <2>1, <2>2, Zenon DEF Collected, Bytes
<1> QED BY <1>1, <1>7, <1>9, <1>10 DEF FramingInv

(* The rest is kept.                                                       *)
LEMMA PushReturnsStep ==
    ASSUME IInv, FramingInv, PushReturns
    PROVE  FramingInv'
<1> USE DEF PushReturns
<1>1. UNCHANGED <<next, cut, popBuf, popped, Handed, Coming>> /\ inLoop /\ ~inLoop'
  BY DEF PushNext, PushLast, camera, Handed, Coming
<1>2. Len(pushed') = Len(pushed) + 1 /\ pc' # "dead" /\ pc = "push"
  BY DEF PushNext, PushLast, IInv, WindowTypeOK
<1>3. Upto' = Upto
  BY <1>1, <1>2 DEF Upto
<1>4. Collected /\ From \in Nat /\ Upto \in Nat /\ From <= Upto
  BY <1>2, Places DEF FramingInv, Collected
<1>5. CASE ~LongEnough
  <2>1. waitData' = waitData /\ waitSize' = waitSize /\ From' = From
    BY <1>1, <1>5 DEF DataNow, SizeNow, From
  <2>2. Exhausted'
    BY <1>4, <1>5, <2>1, BytesAre, Layout, SMT DEF Exhausted, LongEnough, Collected
  <2>3. Collected'
    BY <1>1, <1>3, <1>4, <2>1 DEF Collected
  <2> QED BY <1>1, <2>2, <2>3 DEF FramingInv, HandsMessages, Body, Bytes
<1>6. CASE LongEnough
  <2> DEFINE b == Start[Coming] + Header
  <2>1. /\ Coming \in 1..Len(Sizes) /\ SizeNow = Sizes[Coming] /\ Sizes[Coming] \in Nat
        /\ b <= Upto /\ DataNow = Bytes(b, Upto) /\ b \in Nat
    BY <1>6, Parsed, Places, Layout, SMT
  <2>2. Len(DataNow) = Upto - b
    BY <1>4, <2>1, BytesAre
  <2>3. waitSize' > Len(waitData') /\ waitSize' # 0
    BY <1>4, <1>6, <2>1, <2>2, SMT DEF Whole
  <2>4. From' = b
    BY <1>1, <2>3 DEF From
  <2>5. Collected'
    <3>1. From' <= Upto' /\ waitData' = Bytes(From', Upto')
      BY <1>3, <2>1, <2>4
    <3>2. Coming' <= Len(Sizes) /\ waitSize' = Sizes[Coming']
      BY <1>1, <2>1, Layout, SMT
    <3> QED BY <3>1, <3>2 DEF Collected, Bytes
  <2>6. Exhausted'
    BY <2>3 DEF Exhausted
  <2> QED BY <1>1, <2>5, <2>6 DEF FramingInv, HandsMessages, Body, Bytes
<1> QED BY <1>5, <1>6

(* The reader takes a message; the order of all of them stays.             *)
LEMMA PopStep ==
    ASSUME IInv, FramingInv, Pop
    PROVE  FramingInv'
<1> USE DEF Pop
<1>1. UNCHANGED <<next, pc, pushed, cut, waitData, waitSize, inLoop>>
  BY DEF windowVars, camera, channel
<1>2. popBuf \in Seq(Seq(Nat)) /\ popped \in Seq(Seq(Nat))
  BY DEF FramingInv
<1>3. popBuf' \in Seq(Seq(Nat)) /\ popped' \in Seq(Seq(Nat))
  BY <1>2, HeadTailProperties, AppendProperties
<1>4. Handed' = Handed
  BY <1>2, SMT DEF Handed
<1>5. UNCHANGED <<Coming, From, Upto>>
  BY <1>1, <1>4 DEF Coming, From, Upto
<1>6. HandsMessages' /\ (Collected => Collected') /\ (Exhausted => Exhausted')
  BY <1>1, <1>4, <1>5 DEF FramingInv, HandsMessages, Body, Bytes, Collected, Exhausted
<1> QED BY <1>1, <1>3, <1>6 DEF FramingInv

(* A step that leaves alone what Push has put together.                    *)
LEMMA ApartStep ==
    ASSUME IInv, FramingInv, UNCHANGED <<cut, popBuf, popped, pushed>>,
           inLoop' \in BOOLEAN, next' <= Packets,
           \/ pc' = "dead" /\ ~inLoop'
           \/ UNCHANGED <<waitData, waitSize, inLoop>> /\ pc # "dead"
              /\ (inLoop => pc' = "push")
           \/ UNCHANGED <<waitData, waitSize, inLoop, pc>>
    PROVE  FramingInv'
<1>1. UNCHANGED <<Handed, Coming>>
  BY DEF Handed, Coming
<1>2. HandsMessages'
  BY <1>1 DEF FramingInv, HandsMessages, Body, Bytes
<1>3. CASE pc' = "dead" /\ ~inLoop'
  BY <1>2, <1>3 DEF FramingInv
<1>4. CASE UNCHANGED <<waitData, waitSize, inLoop>>
  <2>1. UNCHANGED <<From, Upto>>
    BY <1>1, <1>4 DEF From, Upto
  <2>2. (Collected => Collected') /\ (Exhausted => Exhausted')
    BY <1>1, <1>4, <2>1 DEF Collected, Exhausted, Bytes
  <2> QED BY <1>2, <1>4, <2>2 DEF FramingInv
<1> QED BY <1>3, <1>4

LEMMA SocketStep ==
    ASSUME IInv, FramingInv, PushFull \/ Socket \/ UNCHANGED vars
    PROVE  FramingInv'
<1>1. CASE PushFull
  <2>1. pc' = "dead" /\ ~inLoop' /\ UNCHANGED <<next, cut, popBuf, popped, pushed>>
    BY <1>1 DEF PushFull, PushFails, camera
  <2>2. next' <= Packets /\ inLoop' \in BOOLEAN
    BY <1>1, <2>1 DEF PushFull, FramingInv
  <2> QED BY <2>1, <2>2, ApartStep DEF FramingInv
<1>2. CASE UNCHANGED vars
  <2>1. UNCHANGED <<next, cut, popBuf, popped, pushed, waitData, waitSize, inLoop, pc>>
    BY <1>2 DEF vars, windowVars, camera, channel, framing
  <2> QED BY <2>1, ApartStep DEF FramingInv
<1>3. CASE Socket
  <2> USE <1>3 DEF Socket, framing
  <2>1. CASE Outside
    <3>1. UNCHANGED <<pushed, pc>> /\ next' <= Packets
      BY <2>1, SizeAssumption DEF Outside, Send, Resend, Acknowledged, Lose, camera, channel,
         FramingInv, IInv, WindowTypeOK
    <3> QED BY <3>1, ApartStep DEF FramingInv
  <2>2. CASE ReadFails
    <3>1. UNCHANGED <<pushed, next>> /\ pc' = "dead" /\ pc = "read" /\ ~inLoop'
      BY <2>2 DEF ReadFails, camera, FramingInv
    <3> QED BY <3>1, ApartStep DEF FramingInv
  <2>3. ASSUME NEW k \in net, Receive(k) PROVE FramingInv'
    <3>1. UNCHANGED <<pushed, next>> /\ pc = "read"
      BY <2>3 DEF Receive, Refuse, Save, Repeat, Expected, Read, camera
    <3> QED BY <3>1, ApartStep DEF FramingInv
  <2> QED BY <2>1, <2>2, <2>3
<1> QED BY <1>1, <1>2, <1>3

LEMMA ConnFraming == ConnSpec => [](IInv /\ FramingInv)
<1>1. ConnInit => FramingInv
  BY FramingInit DEF ConnInit
<1>2. IInv /\ FramingInv /\ [ConnNext]_connVars => FramingInv'
  <2> SUFFICES ASSUME IInv, FramingInv, [ConnNext]_connVars PROVE FramingInv'
    OBVIOUS
  <2>1. Next \/ UNCHANGED vars
    BY DEF ConnNext, Media, Commanding, connVars
  <2> QED BY <2>1, PushBeginsStep, PushMessageStep, PushReturnsStep, PopStep, SocketStep DEF Next
<1>3. ConnSpec => []IInv
  BY ConnDrivesWindow, WindowInv, PTL
<1> QED BY <1>1, <1>2, <1>3, PTL DEF ConnSpec

(* The reader gets the messages of the camera, whole, in order and none    *)
(* twice: for all sizes, every way to cut the stream, every network, and   *)
(* whether or not somebody reads.                                          *)
THEOREM MessagesAreWhole == ConnSpec => []HandsMessages
<1>1. FramingInv => HandsMessages
  BY DEF FramingInv
<1> QED BY <1>1, ConnFraming, PTL

LEMMA NotLeft ==
    ASSUME NEW start \in Nat, NEW size \in Nat, size > Header, NEW upto \in Nat,
           start + Header + size <= upto
    PROVE  /\ ~(upto - start <= Header) /\ ~(0 > upto - start)
           /\ ~(upto - (start + Header) <= Header) /\ ~(size > upto - (start + Header))
BY Layout, SMT

(* And Push keeps no message back for the next packet, if the messages are *)
(* longer than their headers: the loop goes on only when there is more     *)
(* than a header, also when the size has been read already.                *)
THEOREM NothingWithheld ==
    ASSUME \A m \in DOMAIN Sizes : Sizes[m] > Header
    PROVE  ConnSpec => []Framed
<1>1. ASSUME IInv, FramingInv PROVE WithholdsNone
  <2> SUFFICES ASSUME pc = "read", NEW m \in 1..Len(Sizes), Start[m + 1] <= cut[Len(pushed)],
                      ~(m <= Len(Handed))
               PROVE  FALSE
    BY Layout DEF WithholdsNone
  <2>0. Collected /\ Exhausted /\ Upto = cut[Len(pushed)]
    BY <1>1 DEF FramingInv, Upto
  <2>1. Coming \in 1..Len(Sizes) /\ Coming <= m /\ Coming + 1 \in 1..(Len(Sizes) + 1) /\ m + 1 \in 1..(Len(Sizes) + 1)
    <3>1. Len(Handed) \in Nat /\ Len(Sizes) \in Nat
      BY <1>1, Places, Layout
    <3> QED BY <3>1, SMT DEF Coming
  <2>2. Start[Coming + 1] <= Start[m + 1] /\ Start[m + 1] \in Nat /\ Start[Coming + 1] \in Nat
    <3>1. Start[m + 1] \in Nat /\ Start[Coming + 1] \in Nat
      BY <2>1, Layout
    <3>2. Coming = m \/ Coming + 1 < m + 1
      BY <2>1, Layout, SMT
    <3>3. Coming + 1 < m + 1 => Start[Coming + 1] < Start[m + 1]
      BY <2>1, StartGrows
    <3> QED BY <3>1, <3>2, <3>3, SMT
  <2>3. /\ Start[Coming + 1] = Start[Coming] + Header + Sizes[Coming]
        /\ Sizes[Coming] \in Nat /\ Sizes[Coming] > Header /\ Header \in Nat \ {0}
        /\ Start[Coming] \in Nat /\ Upto \in Nat /\ From \in Nat /\ From <= Upto
    BY <1>1, <2>0, <2>1, Places, Layout DEF Collected
  <2>4. Len(waitData) = Upto - From
    BY <2>0, <2>3, BytesAre DEF Collected
  <2>5. Start[Coming + 1] <= Upto
    BY <2>0, <2>2, <2>3, SMT
  <2>8. /\ ~(Upto - Start[Coming] <= Header) /\ ~(0 > Upto - Start[Coming])
        /\ ~(Upto - (Start[Coming] + Header) <= Header)
        /\ ~(Sizes[Coming] > Upto - (Start[Coming] + Header))
    BY <2>3, <2>5, NotLeft
  <2>6. CASE waitSize = 0
    <3>1. From = Start[Coming] /\ (Len(waitData) <= Header \/ 0 > Len(waitData))
      BY <2>0, <2>6 DEF From, Exhausted
    <3> QED BY <2>4, <2>8, <3>1
  <2>7. CASE waitSize # 0
    <3>1. /\ From = Start[Coming] + Header
          /\ Len(waitData) <= Header \/ Sizes[Coming] > Len(waitData)
      BY <2>0, <2>7 DEF From, Exhausted, Collected
    <3> QED BY <2>4, <2>8, <3>1
  <2> QED BY <2>6, <2>7
<1>2. IInv /\ FramingInv => Framed
  BY <1>1 DEF FramingInv, Framed
<1> QED BY <1>2, ConnFraming, PTL

-----------------------------------------------------------------------------
(* The commands.                                                           *)

CommandTypes ==
    /\ cmd \in 0..Commands /\ repeat \in Nat
    /\ cmdPc \in {"idle", "send", "wait"}
    /\ cmdPc # "idle" => cmd \in Command!All
    /\ result \in [Command!All -> {"none", "ok", "error"}]

(* On a prompt network one copy of the command that waits is on the way,   *)
(* or its acknowledgement, or neither.                                     *)
OneOnTheWay ==
    /\ cmdNet \cup cmdAcks \subseteq {cmd} /\ (cmdNet = {} \/ cmdAcks = {})
    /\ cmdAcks \subseteq arrived
    /\ cmdPc # "wait" \/ repeat = 0 => cmdNet = {} /\ cmdAcks = {}
    /\ cmdPc = "send" => repeat # 0
    /\ cmdPc # "idle" /\ repeat = 0 => cmd \in arrived

CommandInv == CommandTypes /\ (prompt => OneOnTheWay) /\ SentHasArrived

LEMMA CommandInitial == Command!Init => CommandInv
BY CommandsAssumption DEF Command!Init, Command!All, CommandInv, CommandTypes, OneOnTheWay,
   SentHasArrived, Command!SentHasArrived

(* The goroutine that writes.                                              *)
LEMMA WriteStep ==
    ASSUME CommandInv, Command!WriteCommand, UNCHANGED prompt
    PROVE  CommandInv'
<1> USE CommandsAssumption DEF CommandInv
<1>1. CASE Command!WriteBegins
  <2>1. CommandTypes' /\ cmd' \in Command!All
    BY <1>1 DEF Command!WriteBegins, CommandTypes, Command!All
  <2>2. (prompt => OneOnTheWay)' /\ SentHasArrived'
    BY <1>1, <2>1 DEF Command!WriteBegins, OneOnTheWay, SentHasArrived, Command!SentHasArrived
  <2> QED BY <2>1, <2>2
<1>2. CASE Command!WriteSends
  <2>1. /\ cmdPc = "send" /\ cmdPc' = "wait" /\ cmdNet' = cmdNet \cup {cmd}
        /\ UNCHANGED <<repeat, cmd, cmdAcks, arrived, result>>
    BY <1>2 DEF Command!WriteSends
  <2>2. CommandTypes'
    BY <2>1 DEF CommandTypes
  <2>3. prompt => OneOnTheWay'
    BY <2>1 DEF OneOnTheWay
  <2>4. SentHasArrived'
    BY <2>1 DEF SentHasArrived, Command!SentHasArrived
  <2> QED BY <2>2, <2>3, <2>4
<1>3. CASE Command!Again
  <2>1. repeat' \in Nat /\ repeat' # 0 /\ repeat # 0
    BY <1>3 DEF Command!Again, CommandTypes
  <2> QED BY <1>3, <2>1 DEF Command!Again, Command!Ticks, CommandTypes, OneOnTheWay,
                           SentHasArrived, Command!SentHasArrived
<1>4. CASE Command!WriteFails \/ Command!GivesUp
  <2>1. (prompt => cmdNet = {} /\ cmdAcks = {}) /\ cmd \in Command!All
    BY <1>4 DEF Command!WriteFails, Command!GivesUp, Command!Ticks, OneOnTheWay, CommandTypes
  <2>2. /\ cmdPc' = "idle" /\ result' = [result EXCEPT ![cmd] = "error"] /\ repeat' \in {repeat, 0}
        /\ UNCHANGED <<cmd, cmdNet, cmdAcks, arrived>>
    BY <1>4 DEF Command!WriteFails, Command!GivesUp, Command!Returns
  <2>3. CommandTypes'
    <3>1. result' \in [Command!All -> {"none", "ok", "error"}]
      BY <2>1, <2>2 DEF CommandTypes
    <3>2. cmd' \in 0..Commands /\ repeat' \in Nat /\ cmdPc' = "idle"
      BY <2>2 DEF CommandTypes
    <3> QED BY <3>1, <3>2 DEF CommandTypes
  <2>4. prompt => OneOnTheWay'
    BY <2>1, <2>2 DEF OneOnTheWay
  <2>5. SentHasArrived'
    BY <2>2 DEF CommandTypes, SentHasArrived, Command!SentHasArrived
  <2> QED BY <2>3, <2>4, <2>5
<1>5. CASE Command!Succeeds
  <2>1. (prompt => cmdNet = {} /\ cmdAcks = {} /\ cmd \in arrived) /\ cmd \in Command!All
    BY <1>5 DEF Command!Succeeds, Command!Ticks, OneOnTheWay, CommandTypes
  <2>2. /\ cmdPc' = "idle" /\ result' = [result EXCEPT ![cmd] = "ok"]
        /\ UNCHANGED <<repeat, cmd, cmdNet, cmdAcks, arrived>>
    BY <1>5 DEF Command!Succeeds, Command!Returns
  <2>3. CommandTypes'
    <3>1. result' \in [Command!All -> {"none", "ok", "error"}]
      BY <2>1, <2>2 DEF CommandTypes
    <3>2. cmd' \in 0..Commands /\ repeat' \in Nat /\ cmdPc' = "idle"
      BY <2>2 DEF CommandTypes
    <3> QED BY <3>1, <3>2 DEF CommandTypes
  <2>4. prompt => OneOnTheWay'
    BY <2>1, <2>2 DEF OneOnTheWay
  <2>5. SentHasArrived'
    BY <2>1, <2>2 DEF CommandTypes, SentHasArrived, Command!SentHasArrived
  <2> QED BY <2>3, <2>4, <2>5
<1> QED BY <1>1, <1>2, <1>3, <1>4, <1>5 DEF Command!WriteCommand

(* The worker, the camera and the network.                                 *)
LEMMA AckStep ==
    ASSUME CommandInv, Command!GetAck \/ Command!Camera \/ Command!Lose, UNCHANGED prompt
    PROVE  CommandInv'
<1> USE DEF CommandInv
<1>1. UNCHANGED <<cmd, cmdPc, result>> /\ repeat' \in {repeat, 0}
  BY DEF Command!GetAck, Command!Camera, Command!Lose, Command!RepeatAcked
<1>2. CommandTypes'
  BY <1>1 DEF CommandTypes
<1>3. ASSUME prompt PROVE OneOnTheWay'
  <2>1. CASE Command!GetAck
    BY <1>1, <1>3, <2>1 DEF Command!GetAck, Command!RepeatAcked, OneOnTheWay
  <2>2. CASE Command!Camera
    BY <1>1, <1>3, <2>2 DEF Command!Camera, OneOnTheWay
  <2>3. CASE Command!Lose
    BY <1>1, <1>3, <2>3 DEF Command!Lose, OneOnTheWay
  <2> QED BY <2>1, <2>2, <2>3
<1>4. arrived \subseteq arrived'
  BY DEF Command!GetAck, Command!Camera, Command!Lose
<1>5. SentHasArrived'
  BY <1>1, <1>4 DEF SentHasArrived, Command!SentHasArrived
<1> QED BY <1>2, <1>3, <1>5

(* A command that WriteCommand reports as sent has reached the camera, for *)
(* every number of commands and of tries, whatever is lost; on a network   *)
(* that is prompt.                                                         *)
THEOREM SuccessIsTrue == ConnSpec => []SentHasArrived
<1>1. ConnInit => CommandInv
  BY CommandInitial DEF ConnInit
<1>2. CommandInv /\ [ConnNext]_connVars => CommandInv'
  <2> SUFFICES ASSUME CommandInv, [ConnNext]_connVars PROVE CommandInv'
    OBVIOUS
  <2>1. CASE UNCHANGED commandVars
    BY <2>1 DEF commandVars, CommandInv, CommandTypes, OneOnTheWay, SentHasArrived, Command!SentHasArrived
  <2>2. CASE Commanding(Command!WriteCommand)
    BY <2>2, WriteStep DEF Commanding
  <2>3. CASE Commanding(Command!GetAck \/ Command!Camera \/ Command!Lose)
    BY <2>3, AckStep DEF Commanding
  <2> QED BY <2>1, <2>2, <2>3 DEF ConnNext, Media, connVars
<1>3. CommandInv => SentHasArrived
  BY DEF CommandInv
<1> QED BY <1>1, <1>2, <1>3, PTL DEF ConnSpec
=============================================================================
