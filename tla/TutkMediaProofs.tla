--------------------------- MODULE TutkMediaProofs ---------------------------
(***************************************************************************)
(* Proofs about TutkMedia: the reorder buffer of protocol 25 and the       *)
(* frames of every protocol, for every camera and every network within     *)
(* ReachAssumption and FrameReachAssumption.                               *)
(*                                                                         *)
(* The buffer sees numbers that wrap, and no packets. That their order is  *)
(* that of the packets needs a bound on how far the camera can be ahead of *)
(* the packet that is waited for (Near), which follows from what is in the *)
(* buffer: every packet that came later than all before it, and was not    *)
(* the one waited for, is there (NoGap). The bound must hold from each     *)
(* place on, since Pop moves to the next packet there is. A packet that    *)
(* came again after it was given on stays in the buffer; as long as Fits   *)
(* holds it only takes room, since its number is behind all others.        *)
(*                                                                         *)
(* The assembly of protocol 25 sees numbers as well, and keeps one for as  *)
(* long as no frame begins; Reach says that what may come to it is near,   *)
(* or behind the beginning of a frame that comes first. Protocol 16 keeps  *)
(* the number of the frame: that it is not the number of a later one       *)
(* follows from how late packets are (Assembled16). Over DTLS the number   *)
(* does not wrap, and what counts is that a frame begins once              *)
(* (AssembledAV).                                                          *)
(***************************************************************************)
EXTENDS TutkMedia, FiniteSetTheorems, WellFoundedInduction, SequenceTheorems, TLAPS

LEMMA Constants ==
    /\ SeqSpace \in Nat \ {0} /\ Room \in Nat \ {0} /\ Late \in Nat \ {0} /\ Gap \in Nat
    /\ Span \in Nat /\ Late <= Room /\ Gap * Room <= SeqSpace /\ Span <= SeqSpace
  BY SeqAssumption, ReachAssumption, NetAssumption, SMT

LEMMA Least ==
    ASSUME NEW T \in SUBSET Nat, T # {}
    PROVE  \E x \in T : \A y \in T : x <= y
  <1> DEFINE R == OpToRel(<, Nat)
  <1>1. \A x, y \in Nat : x < y => <<x, y>> \in R
    BY SMT DEF OpToRel
  <1>2. IsWellFoundedOn(R, Nat)
    BY NatLessThanWellFounded
  <1> HIDE DEF R
  <1>3. PICK x \in T : \A y \in T : ~(<<y, x>> \in R)
    BY <1>2, WFMin
  <1>4. ASSUME NEW y \in T PROVE x <= y
    <2>1. x \in Nat /\ y \in Nat
      OBVIOUS
    <2>2. ~(y < x)
      BY <1>1, <1>3, <2>1
    <2> QED BY <2>1, <2>2, SMT
  <1> QED BY <1>4

LEMMA Product ==
    ASSUME NEW g \in Nat, NEW a \in Nat, NEW b \in Nat, a <= b
    PROVE  g * a <= g * b /\ g * a \in Nat /\ g * (a + 1) = g * a + g
  BY SMT

-----------------------------------------------------------------------------
(* The packets of the camera.                                              *)

LEMMA Layout ==
    /\ Len(Chunks) \in Nat /\ Frames = 1..Len(Chunks) /\ Packets \in Nat
    /\ Packets = First[Len(Chunks) + 1]
    /\ \A f \in 1..(Len(Chunks) + 1) : First[f] \in Nat
    /\ \A f \in Frames : /\ f \in Nat \ {0} /\ f + 1 \in 1..(Len(Chunks) + 1)
                         /\ First[f] \in Nat /\ Chunks[f] \in Nat \ {0}
                         /\ First[f + 1] = First[f] + Chunks[f]
  <1>1. Len(Chunks) \in Nat /\ Frames = 1..Len(Chunks) /\ \A f \in Frames : Chunks[f] \in Nat \ {0}
    BY ChunksAssumption, LenProperties, ElementOfSeq DEF Frames
  <1>2. \A f \in 1..(Len(Chunks) + 1) : First[f] \in Nat
    BY FirstAssumption
  <1>3. \A f \in Frames : f \in Nat \ {0} /\ f + 1 \in 1..(Len(Chunks) + 1) /\ f \in 1..(Len(Chunks) + 1)
    BY <1>1, SMT
  <1>4. Len(Chunks) + 1 \in 1..(Len(Chunks) + 1)
    BY <1>1, SMT
  <1>5. \A f \in Frames : First[f + 1] = First[f] + Chunks[f]
    BY FirstAssumption DEF Frames
  <1> QED BY <1>1, <1>2, <1>3, <1>4, <1>5 DEF Packets

(* A later frame begins later, by a packet for each frame between.         *)
LEMMA FirstGrows ==
    ASSUME NEW f \in 1..(Len(Chunks) + 1), NEW g \in 1..(Len(Chunks) + 1), f <= g
    PROVE  First[f] + (g - f) <= First[g]
  <1> DEFINE n == Len(Chunks) + 1
  <1> DEFINE T == {h \in f..n : ~(First[f] + (h - f) <= First[h])}
  <1>0. n \in Nat /\ f \in Nat /\ g \in Nat /\ f >= 1
    BY Layout, SMT
  <1>1. T = {}
    <2> SUFFICES ASSUME T # {} PROVE FALSE
      OBVIOUS
    <2>1. T \in SUBSET Nat
      BY <1>0, SMT
    <2> HIDE DEF T
    <2>2. PICK h \in T : \A i \in T : h <= i
      BY <2>1, Least
    <2>3. h \in f..n /\ ~(First[f] + (h - f) <= First[h]) /\ \A i \in f..n : i < h => First[f] + (i - f) <= First[i]
      <3>1. h \in f..n /\ ~(First[f] + (h - f) <= First[h])
        BY DEF T
      <3>2. ASSUME NEW i \in f..n, i < h PROVE First[f] + (i - f) <= First[i]
        <4>1. i \notin T
          BY <1>0, <2>2, <3>1, <3>2, SMT
        <4> QED BY <4>1 DEF T
      <3> QED BY <3>1, <3>2
    <2>4. h # f
      <3>1. First[f] \in Nat
        BY Layout
      <3> QED BY <1>0, <2>3, <3>1, SMT
    <2>5. h - 1 \in f..n /\ h - 1 \in 1..Len(Chunks) /\ (h - 1) + 1 = h /\ h - 1 < h
      BY <1>0, <2>3, <2>4, Layout, SMT
    <2>6. First[f] + ((h - 1) - f) <= First[h - 1]
      BY <2>3, <2>5
    <2>7. First[h] = First[h - 1] + Chunks[h - 1] /\ First[h - 1] \in Nat /\ Chunks[h - 1] \in Nat \ {0}
      <3>1. h - 1 \in Frames
        BY <2>5, Layout
      <3> QED BY <2>5, <3>1, Layout
    <2>8. First[f] \in Nat /\ h \in Nat
      BY <1>0, <2>3, Layout, SMT
    <2> QED BY <1>0, <2>3, <2>6, <2>7, <2>8, SMT
  <1>2. g \in f..n
    BY <1>0, SMT
  <1> QED BY <1>1, <1>2

LEMMA FramesApart ==
    ASSUME NEW f \in Frames, NEW g \in Frames, f < g
    PROVE  First[f] + Chunks[f] + (g - f) <= First[g] + 1
  <1>0. /\ f \in Nat /\ g \in Nat /\ First[f] \in Nat /\ First[g] \in Nat /\ Chunks[f] \in Nat
        /\ First[f + 1] = First[f] + Chunks[f]
    BY Layout
  <1>1. f + 1 \in 1..(Len(Chunks) + 1) /\ g \in 1..(Len(Chunks) + 1) /\ f + 1 <= g
    BY Layout, SMT
  <1>2. First[f + 1] + (g - (f + 1)) <= First[g]
    BY <1>1, FirstGrows
  <1> QED BY <1>0, <1>2, SMT

LEMMA FrameOfIs ==
    ASSUME NEW f \in Frames, NEW k \in Nat, First[f] <= k, k < First[f] + Chunks[f]
    PROVE  FrameOf(k) = f
  <1>1. ASSUME NEW g \in Frames, First[g] <= k, k < First[g] + Chunks[g] PROVE g = f
    <2>0. /\ f \in Nat /\ g \in Nat /\ First[f] \in Nat /\ First[g] \in Nat
          /\ Chunks[f] \in Nat /\ Chunks[g] \in Nat
      BY Layout
    <2>1. CASE f < g
      <3>1. First[f] + Chunks[f] + (g - f) <= First[g] + 1
        BY <2>1, FramesApart
      <3> QED BY <1>1, <2>0, <2>1, <3>1, SMT
    <2>2. CASE g < f
      <3>1. First[g] + Chunks[g] + (f - g) <= First[f] + 1
        BY <2>2, FramesApart
      <3> QED BY <1>1, <2>0, <2>2, <3>1, SMT
    <2> QED BY <2>0, <2>1, <2>2, SMT
  <1> QED BY <1>1 DEF FrameOf

LEMMA HasFrame ==
    ASSUME NEW k \in Nat, k < Packets
    PROVE  /\ FrameOf(k) \in Frames
           /\ First[FrameOf(k)] <= k /\ k < First[FrameOf(k)] + Chunks[FrameOf(k)]
           /\ ChunkOf(k) \in 0..(Chunks[FrameOf(k)] - 1) /\ k = First[FrameOf(k)] + ChunkOf(k)
  <1> DEFINE T == {g \in 1..(Len(Chunks) + 1) : k < First[g]}
  <1>1. PICK g \in T : \A h \in T : g <= h
    <2>1. T \in SUBSET Nat
      BY Layout, SMT
    <2>2. Len(Chunks) + 1 \in T
      BY Layout, SMT
    <2> HIDE DEF T
    <2> QED BY <2>1, <2>2, Least
  <1>2. g \in 1..(Len(Chunks) + 1) /\ k < First[g] /\ g # 1
    BY FirstAssumption, SMT
  <1>3. g - 1 \in 1..Len(Chunks) /\ (g - 1) + 1 = g /\ g - 1 \in 1..(Len(Chunks) + 1) /\ ~(g <= g - 1)
    BY <1>2, Layout, SMT
  <1>4. g - 1 \in Frames
    BY <1>3, Layout
  <1>5. First[g - 1] <= k
    <2>1. g - 1 \notin T
      BY <1>1, <1>3
    <2>2. First[g - 1] \in Nat
      BY <1>3, Layout
    <2> QED BY <1>3, <2>1, <2>2, SMT
  <1>6. k < First[g - 1] + Chunks[g - 1]
    BY <1>2, <1>3, <1>4, Layout
  <1>7. FrameOf(k) = g - 1
    BY <1>4, <1>5, <1>6, FrameOfIs
  <1>8. First[g - 1] \in Nat /\ Chunks[g - 1] \in Nat
    BY <1>4, Layout
  <1> HIDE DEF T
  <1> QED BY <1>4, <1>5, <1>6, <1>7, <1>8, SMT DEF ChunkOf

(* What the place of a packet in its frame says of it.                     *)
LEMMA PacketOf ==
    ASSUME NEW f \in Frames, NEW c \in 0..(Chunks[f] - 1)
    PROVE  /\ First[f] + c \in Nat /\ First[f] + c < Packets
           /\ FrameOf(First[f] + c) = f /\ ChunkOf(First[f] + c) = c
           /\ IsFirst(First[f] + c) <=> c = 0
           /\ IsLast(First[f] + c) <=> c + 1 = Chunks[f]
  <1>1. First[f] \in Nat /\ Chunks[f] \in Nat \ {0} /\ c \in Nat /\ c < Chunks[f]
    BY Layout, SMT
  <1> DEFINE k == First[f] + c
  <1>2. k \in Nat /\ First[f] <= k /\ k < First[f] + Chunks[f] /\ k - First[f] = c
    BY <1>1, SMT
  <1>3. FrameOf(k) = f
    BY <1>2, FrameOfIs
  <1>4. ChunkOf(k) = c
    BY <1>2, <1>3 DEF ChunkOf
  <1>5. k < Packets
    <2>1. /\ f + 1 \in 1..(Len(Chunks) + 1) /\ Len(Chunks) + 1 \in 1..(Len(Chunks) + 1)
          /\ f + 1 <= Len(Chunks) + 1
      BY Layout, SMT
    <2>2. First[f + 1] + ((Len(Chunks) + 1) - (f + 1)) <= Packets
      BY <2>1, FirstGrows DEF Packets
    <2>3. f \in Nat /\ Len(Chunks) \in Nat /\ Packets \in Nat /\ f + 1 <= Len(Chunks) + 1
      BY <2>1, Layout
    <2>4. First[f + 1] = First[f] + Chunks[f]
      BY Layout
    <2>5. First[f] + Chunks[f] <= Packets
      BY <1>1, <2>2, <2>3, <2>4, SMT
    <2> HIDE DEF Packets
    <2> QED BY <1>1, <1>2, <2>3, <2>5, SMT
  <1>6. IsLast(k) <=> c + 1 = Chunks[f]
    BY <1>1, <1>3, <1>4, SMT DEF IsLast
  <1> QED BY <1>2, <1>3, <1>4, <1>5, <1>6 DEF IsFirst

LEMMA PartOne ==
    ASSUME NEW f \in Frames
    PROVE  Part(f, 1) = <<First[f]>>
  BY Layout, SMT DEF Part

LEMMA PartNext ==
    ASSUME NEW f \in Frames, NEW c \in Nat \ {0}
    PROVE  /\ Append(Part(f, c), First[f] + c) = Part(f, c + 1)
           /\ Part(f, c) \in Seq(Nat) /\ Len(Part(f, c)) = c /\ Part(f, c)[1] = First[f]
  <1>1. First[f] \in Nat
    BY Layout
  <1>2. Part(f, c) \in Seq(Nat) /\ Len(Part(f, c)) = c
    <2>1. \A i \in 1..c : First[f] + i - 1 \in Nat
      BY <1>1, SMT
    <2> QED BY <2>1, SMT DEF Part
  <1>3. Append(Part(f, c), First[f] + c) = Part(f, c + 1)
    BY <1>1, <1>2, SMT DEF Part
  <1>4. Part(f, c)[1] = First[f]
    BY <1>1, SMT DEF Part
  <1> QED BY <1>2, <1>3, <1>4

(* A whole frame is found by its first packet.                             *)
LEMMA WholeOf ==
    ASSUME NEW f \in Frames
    PROVE  Whole(f)[1] = First[f] /\ FrameOf(First[f]) = f
  <1>1. First[f] \in Nat /\ Chunks[f] \in Nat \ {0}
    BY Layout
  <1>2. 0 \in 0..(Chunks[f] - 1) /\ First[f] + 0 = First[f]
    BY <1>1, SMT
  <1> QED BY <1>1, <1>2, PacketOf, PartNext DEF Whole

(* Packets less than the sequence space ahead of w are as far ahead as     *)
(* their numbers say.                                                      *)
LEMMA SeqAhead ==
    ASSUME NEW w \in Nat, NEW a \in Nat, w <= a, a < w + SeqSpace
    PROVE  (SeqNo(a) - SeqNo(w)) % SeqSpace = a - w
  <1>1. CASE SeqSpace = 7
    BY <1>1, SMT DEF SeqNo
  <1>2. CASE SeqSpace = 65536
    BY <1>2, SMTT(30) DEF SeqNo
  <1> QED BY <1>1, <1>2, SeqAssumption

LEMMA SeqNext == ASSUME NEW a \in Nat PROVE After(SeqNo(a)) = SeqNo(a + 1) /\ SeqNo(a) \in Nat
  <1>1. CASE SeqSpace = 7
    BY <1>1, SMT DEF SeqNo, After
  <1>2. CASE SeqSpace = 65536
    BY <1>2, SMTT(30) DEF SeqNo, After
  <1> QED BY <1>1, <1>2, SeqAssumption

LEMMA SeqSame ==
    ASSUME NEW w \in Nat, NEW a \in Nat, NEW b \in Nat, SeqNo(a) = SeqNo(b),
           w <= a, a < w + SeqSpace, w <= b, b < w + SeqSpace
    PROVE  a = b
  <1>1. a - w = b - w
    BY SeqAhead
  <1> QED BY <1>1, SMT

(* Numbers tell two packets apart that are less than SeqSpace from each    *)
(* other.                                                                  *)
LEMMA SeqApart ==
    ASSUME NEW a \in Nat, NEW b \in Nat, SeqNo(a) = SeqNo(b), a < b + SeqSpace, b < a + SeqSpace
    PROVE  a = b
  <1>1. CASE a <= b
    <2>1. a <= a /\ a < a + SeqSpace
      BY Constants, SMT
    <2> QED BY <1>1, <2>1, SeqSame
  <1>2. CASE b <= a
    <2>1. b <= b /\ b < b + SeqSpace
      BY Constants, SMT
    <2> QED BY <1>2, <2>1, SeqSame
  <1> QED BY <1>1, <1>2, SMT

(* A packet that is behind is met when the numbers come round.             *)
LEMMA SeqBehind ==
    ASSUME NEW w \in Nat, NEW a \in Nat, a < w, w < a + SeqSpace
    PROVE  (SeqNo(a) - SeqNo(w)) % SeqSpace = (a + SeqSpace) - w
  <1>1. SeqNo(a + SeqSpace) = SeqNo(a)
    <2>1. CASE SeqSpace = 7
      BY <2>1, SMT DEF SeqNo
    <2>2. CASE SeqSpace = 65536
      BY <2>2, SMTT(30) DEF SeqNo
    <2> QED BY <2>1, <2>2, SeqAssumption
  <1>2. a + SeqSpace \in Nat /\ w <= a + SeqSpace /\ a + SeqSpace < w + SeqSpace
    BY Constants, SMT
  <1>3. PICK b \in Nat : b = a + SeqSpace
    BY <1>2
  <1>4. (SeqNo(b) - SeqNo(w)) % SeqSpace = b - w
    BY <1>2, <1>3, SeqAhead
  <1>5. SeqNo(b) = SeqNo(a) /\ b - w = (a + SeqSpace) - w
    BY <1>1, <1>3
  <1> QED BY <1>4, <1>5

Held == DOMAIN buf

(* What the buffer holds from packet x on.                                 *)
Above(x) == {s \in Held : buf[s] > x}

(* The network.                                                            *)
OnTheWay ==
    /\ next \in Nat /\ next <= Packets
    /\ came \in 0..next /\ began \in 0..next /\ next <= came + Gap
    /\ net \in SUBSET (0..(next - 1))
    /\ \A k \in net : next <= k + Late
    /\ repeats \in SUBSET (0..(came - 1)) /\ IsFiniteSet(repeats)

(* The buffer, when packet w is waited for: what is behind w came again.   *)
Buffered(w) ==
    /\ w \in 0..came /\ seq = SeqNo(w)
    /\ IsFiniteSet(Held) /\ Cardinality(Held) <= Room /\ pops \in BOOLEAN
    /\ \A s \in Held : /\ buf[s] \in 0..(came - 1) /\ SeqNo(buf[s]) = s
                       /\ buf[s] < w \/ buf[s] \in net => buf[s] \in repeats
    /\ ~pops => Cardinality(Held) < Room /\ seq \notin Held

(* Between x and the latest that came, no Gap packets in a row are missing. *)
NoGap(w) ==
    \A x \in (w - 1)..(came - 1) : came - 1 - x <= Gap * Cardinality(Above(x))

(* What was given on is in the past, and what may come is not, but for the *)
(* packets of which a copy came; those that were not given on are held.    *)
Waited(w) ==
    /\ taken # <<>> => taken[Len(taken)] < w
    /\ \A k \in net : k >= w \/ k \in repeats
    /\ \A k \in repeats : k < w \/ \E s \in Held : buf[s] = k

Waiting(w) == Buffered(w) /\ NoGap(w) /\ Waited(w)

-----------------------------------------------------------------------------
(* How far ahead anything is.                                              *)

(* The packets whose numbers the buffer compares.                          *)
Compared(w) == {w} \cup {buf[s] : s \in Held} \cup (IF Cardinality(Held) < Room THEN net ELSE {})

LEMMA Near ==
    ASSUME OnTheWay, Fits, NEW w \in Nat, Waiting(w)
    PROVE  /\ \A x \in Compared(w) : x \in Nat
           /\ \A x, y \in Compared(w) : x < y + SeqSpace
  <1>0. /\ Gap \in Nat /\ Room \in Nat /\ came \in Nat /\ next \in Nat /\ Cardinality(Held) \in Nat
        /\ came <= next /\ w <= came /\ SeqSpace \in Nat \ {0}
    BY Constants, FS_CardinalityType, SMT DEF OnTheWay, Waiting, Buffered
  <1>1. Cardinality(Above(w - 1)) \in Nat /\ Cardinality(Above(w - 1)) <= Cardinality(Held)
    <2>1. Above(w - 1) \subseteq Held /\ IsFiniteSet(Held)
      BY DEF Above, Waiting, Buffered
    <2> QED BY <2>1, FS_Subset, FS_CardinalityType
  <1>2. came - w <= Gap * Cardinality(Held)
    <2>1. w - 1 \in (w - 1)..(came - 1) /\ came - 1 - (w - 1) = came - w
      BY <1>0, SMT DEF Buffered
    <2>2. came - w <= Gap * Cardinality(Above(w - 1))
      BY <2>1 DEF Waiting, NoGap
    <2>3. /\ Gap * Cardinality(Above(w - 1)) <= Gap * Cardinality(Held)
          /\ Gap * Cardinality(Above(w - 1)) \in Nat
      BY <1>0, <1>1, Product
    <2>4. Gap * Cardinality(Held) \in Nat
      BY <1>0, Product
    <2> DEFINE a == Gap * Cardinality(Above(w - 1))
               b == Gap * Cardinality(Held)
    <2>5. came - w <= a /\ a <= b /\ a \in Nat /\ b \in Nat
      BY <2>2, <2>3, <2>4
    <2> HIDE DEF a, b
    <2>6. came - w <= b
      BY <1>0, <2>5, SMT
    <2> QED BY <2>6 DEF b
  <1>3. Gap * Cardinality(Held) <= Gap * Room /\ Gap * Room <= SeqSpace
        /\ Gap * Cardinality(Held) \in Nat /\ Gap * Room \in Nat
    <2>1. Cardinality(Held) <= Room
      BY DEF Waiting, Buffered
    <2> QED BY <1>0, <2>1, Product, Constants
  <1>4. ASSUME NEW s \in Held
        PROVE  buf[s] \in Nat /\ buf[s] <= next /\ buf[s] < w + SeqSpace /\ (w <= buf[s] \/ buf[s] \in repeats)
    <2>1. buf[s] \in 0..(came - 1) /\ (buf[s] < w => buf[s] \in repeats)
      BY DEF Waiting, Buffered
    <2> QED BY <1>0, <1>2, <1>3, <2>1, SMT
  <1>5. ASSUME Cardinality(Held) < Room, NEW k \in net
        PROVE  k \in Nat /\ k <= next /\ k < w + SeqSpace /\ (w <= k \/ k \in repeats)
    <2>1. Gap * (Cardinality(Held) + 1) <= Gap * Room /\ Gap * (Cardinality(Held) + 1) = Gap * Cardinality(Held) + Gap
      <3>1. Cardinality(Held) + 1 <= Room /\ Cardinality(Held) + 1 \in Nat
        BY <1>0, <1>5, SMT
      <3>2. Gap * (Cardinality(Held) + 1) <= Gap * Room
        BY <1>0, <3>1, Product
      <3>3. Gap * (Cardinality(Held) + 1) = Gap * Cardinality(Held) + Gap
        BY <1>0, Product
      <3> QED BY <3>2, <3>3
    <2>2. k \in 0..(next - 1) /\ next <= came + Gap /\ (k >= w \/ k \in repeats)
      BY DEF OnTheWay, Waiting, Waited
    <2> HIDE DEF Held
    <2> QED BY <1>0, <1>2, <1>3, <2>1, <2>2, SMT
  <1>6. ASSUME NEW x \in Compared(w)
        PROVE  x \in Nat /\ x <= next /\ x < w + SeqSpace /\ (w <= x \/ x \in repeats)
    <2>1. CASE x = w
      BY <1>0, <2>1, SMT
    <2> QED BY <1>4, <1>5, <1>6, <2>1 DEF Compared
  <1>7. ASSUME NEW x \in Compared(w), NEW y \in Compared(w) PROVE x < y + SeqSpace
    <2>1. x \in Nat /\ y \in Nat /\ x <= next /\ x < w + SeqSpace /\ (w <= y \/ y \in repeats)
      BY <1>6
    <2>2. CASE w <= y
      BY <1>0, <2>1, <2>2, SMT
    <2>3. CASE y \in repeats
      <3>1. next < y + SeqSpace
        BY <2>3 DEF Fits
      <3> QED BY <1>0, <2>1, <3>1, SMT
    <2> QED BY <2>1, <2>2, <2>3
  <1> QED BY <1>6, <1>7

-----------------------------------------------------------------------------
(* The history.                                                            *)

LEMMA LatelyEnds ==
    ASSUME NEW s \in Seq(Nat), NEW k \in Nat
    PROVE  /\ Lately(s, k) \in Seq(Nat)
           /\ Lately(s, k) # <<>> => Lately(s, k)[Len(Lately(s, k))] = k
           /\ Len(Lately(s, k)) <= Len(s) + 1
           /\ \A i \in 1..(Len(Lately(s, k)) - 1) :
                Lately(s, k)[Len(Lately(s, k)) - i] = s[Len(s) + 1 - i]
  <1> DEFINE t == Append(s, k)
  <1>0. Len(s) \in Nat
    BY LenProperties
  <1>1. t \in Seq(Nat) /\ Len(t) = Len(s) + 1 /\ t[Len(t)] = k /\ \A i \in 1..Len(s) : t[i] = s[i]
    BY <1>0, AppendProperties
  <1>5. t # <<>>
    BY <1>0, <1>1, EmptySeq, SMT
  <1>6. \A i \in 1..(Len(t) - 1) : t[Len(t) - i] = s[Len(s) + 1 - i]
    BY <1>0, <1>1, SMT
  <1> HIDE DEF t
  <1>2. /\ Tail(t) \in Seq(Nat) /\ Len(Tail(t)) = Len(t) - 1
        /\ \A i \in 1..(Len(t) - 1) : Tail(t)[i] = t[i + 1]
    BY <1>1, <1>5, HeadTailProperties
  <1>3. Tail(t) # <<>> => Tail(t)[Len(Tail(t))] = k
    <2> SUFFICES ASSUME Tail(t) # <<>> PROVE Tail(t)[Len(Tail(t))] = k
      OBVIOUS
    <2>1. Len(Tail(t)) # 0
      BY <1>2, EmptySeq
    <2>2. Len(t) - 1 \in 1..(Len(t) - 1) /\ (Len(t) - 1) + 1 = Len(t)
      BY <1>0, <1>1, <1>2, <2>1, SMT
    <2> QED BY <1>1, <1>2, <2>2
  <1>7. \A i \in 1..(Len(Tail(t)) - 1) : Tail(t)[Len(Tail(t)) - i] = s[Len(s) + 1 - i]
    <2> SUFFICES ASSUME NEW i \in 1..(Len(Tail(t)) - 1)
                 PROVE  Tail(t)[Len(Tail(t)) - i] = s[Len(s) + 1 - i]
      OBVIOUS
    <2>1. /\ Len(Tail(t)) - i \in 1..(Len(t) - 1) /\ (Len(Tail(t)) - i) + 1 = Len(t) - i
          /\ i \in 1..(Len(t) - 1)
      BY <1>0, <1>1, <1>2, SMT
    <2> QED BY <1>2, <1>6, <2>1
  <1>4. Lately(s, k) = t \/ Lately(s, k) = Tail(t)
    BY DEF Lately, t
  <1>a. Len(t) <= Len(s) + 1 /\ Len(Tail(t)) <= Len(s) + 1
    BY <1>0, <1>1, <1>2, SMT
  <1>8. CASE Lately(s, k) = t
    BY <1>1, <1>6, <1>8, <1>a, Zenon
  <1>9. CASE Lately(s, k) = Tail(t)
    BY <1>2, <1>3, <1>7, <1>9, <1>a, Zenon
  <1> QED BY <1>4, <1>8, <1>9

LEMMA EndsAt ==
    ASSUME NEW s \in Seq(Nat), NEW t \in Seq(Nat), EndsWith(s, t)
    PROVE  Len(t) <= Len(s) /\ \A i \in 0..(Len(t) - 1) : s[Len(s) - i] = t[Len(t) - i]
  <1> DEFINE m == Len(s) - Len(t) + 1
  <1>0. Len(s) \in Nat /\ Len(t) \in Nat /\ Len(t) <= Len(s)
    BY LenProperties DEF EndsWith
  <1>1. t = SubSeq(s, m, Len(s))
    BY DEF EndsWith
  <1>2. m \in 1..(Len(s) + 1) /\ Len(s) \in (m - 1)..Len(s)
    BY <1>0, SMT
  <1>3. \A i \in 1..(Len(s) - m + 1) : SubSeq(s, m, Len(s))[i] = s[m + i - 1]
    BY <1>2, SubSeqProperties
  <1>4. \A i \in 1..Len(t) : t[i] = s[m + i - 1]
    <2>1. Len(s) - m + 1 = Len(t)
      BY <1>0, SMT
    <2> QED BY <1>1, <1>3, <2>1
  <1>5. ASSUME NEW i \in 0..(Len(t) - 1) PROVE s[Len(s) - i] = t[Len(t) - i]
    <2>1. Len(t) - i \in 1..Len(t) /\ m + (Len(t) - i) - 1 = Len(s) - i
      BY <1>0, SMT
    <2> QED BY <1>4, <2>1
  <1> QED BY <1>0, <1>5

LEMMA EndsIf ==
    ASSUME NEW s \in Seq(Nat), NEW t \in Seq(Nat), Len(t) <= Len(s),
           \A i \in 0..(Len(t) - 1) : s[Len(s) - i] = t[Len(t) - i]
    PROVE  EndsWith(s, t)
  <1> DEFINE m == Len(s) - Len(t) + 1
  <1> DEFINE u == SubSeq(s, m, Len(s))
  <1>0. Len(s) \in Nat /\ Len(t) \in Nat
    BY LenProperties
  <1>2. m \in 1..(Len(s) + 1) /\ Len(s) \in (m - 1)..Len(s) /\ Len(s) - m + 1 = Len(t)
    BY <1>0, SMT
  <1>3. u \in Seq(Nat) /\ Len(u) = Len(t) /\ \A i \in 1..Len(t) : u[i] = s[m + i - 1]
    BY <1>2, SubSeqProperties
  <1>4. ASSUME NEW i \in 1..Len(t) PROVE u[i] = t[i]
    <2>1. /\ Len(t) - i \in 0..(Len(t) - 1) /\ Len(t) - (Len(t) - i) = i
          /\ Len(s) - (Len(t) - i) = m + i - 1
      BY <1>0, SMT
    <2> QED BY <1>3, <2>1
  <1> HIDE DEF u
  <1>5. u = t
    BY <1>3, <1>4, SeqEqual
  <1> QED BY <1>5 DEF EndsWith, u

(* What ends with the first c packets of a frame has just got the last of  *)
(* them, and before that ended with the others.                            *)
LEMMA EndsStep ==
    ASSUME NEW s \in Seq(Nat), NEW k \in Nat, NEW f \in Frames, NEW c \in 1..Chunks[f],
           EndsWith(Lately(s, k), Part(f, c))
    PROVE  /\ k = First[f] + (c - 1) /\ c - 1 \in 0..(Chunks[f] - 1)
           /\ c # 1 => c - 1 \in 1..Chunks[f] /\ EndsWith(s, Part(f, c - 1))
  <1> DEFINE t == Lately(s, k)
  <1>0. c \in Nat \ {0} /\ Chunks[f] \in Nat /\ First[f] \in Nat /\ Len(s) \in Nat /\ c <= Chunks[f]
    BY Layout, LenProperties, SMT
  <1>1. /\ t \in Seq(Nat) /\ (t # <<>> => t[Len(t)] = k) /\ Len(t) <= Len(s) + 1
        /\ \A i \in 1..(Len(t) - 1) : t[Len(t) - i] = s[Len(s) + 1 - i]
    BY LatelyEnds
  <1> HIDE DEF t
  <1>2. Part(f, c) \in Seq(Nat) /\ Len(Part(f, c)) = c
    BY <1>0, PartNext
  <1>3. c <= Len(t) /\ \A i \in 0..(c - 1) : t[Len(t) - i] = Part(f, c)[c - i]
    <2>1. EndsWith(t, Part(f, c))
      BY DEF t
    <2>2. /\ Len(Part(f, c)) <= Len(t)
          /\ \A i \in 0..(Len(Part(f, c)) - 1) : t[Len(t) - i] = Part(f, c)[Len(Part(f, c)) - i]
      BY <1>1, <1>2, <2>1, EndsAt
    <2> QED BY <1>2, <2>2, Zenon
  <1>4. \A i \in 0..(c - 1) : Part(f, c)[c - i] = First[f] + (c - 1) - i
    BY <1>0, SMT DEF Part
  <1>5. Len(t) \in Nat
    BY <1>1, LenProperties
  <1>6. t # <<>>
    BY <1>0, <1>3, <1>5, EmptySeq, SMT
  <1>7. k = First[f] + (c - 1)
    <2>1. 0 \in 0..(c - 1) /\ Len(t) - 0 = Len(t)
      BY <1>0, <1>5, SMT
    <2>2. t[Len(t)] = First[f] + (c - 1) - 0
      BY <1>3, <1>4, <2>1
    <2> QED BY <1>0, <1>1, <1>6, <2>2, SMT
  <1>8. ASSUME c # 1 PROVE c - 1 \in 1..Chunks[f] /\ EndsWith(s, Part(f, c - 1))
    <2>1. c - 1 \in Nat \ {0} /\ c - 1 \in 1..Chunks[f]
      BY <1>0, <1>8, SMT
    <2>2. Part(f, c - 1) \in Seq(Nat) /\ Len(Part(f, c - 1)) = c - 1
      BY <2>1, PartNext
    <2>3. c - 1 <= Len(s)
      BY <1>0, <1>1, <1>3, <1>5, SMT
    <2>4. ASSUME NEW i \in 0..((c - 1) - 1)
          PROVE  s[Len(s) - i] = Part(f, c - 1)[(c - 1) - i]
      <3>1. /\ i + 1 \in 1..(Len(t) - 1) /\ i + 1 \in 0..(c - 1)
            /\ Len(s) + 1 - (i + 1) = Len(s) - i
        BY <1>0, <1>3, <1>5, SMT
      <3>2. s[Len(s) - i] = Part(f, c)[c - (i + 1)]
        BY <1>1, <1>3, <3>1
      <3>3. Part(f, c)[c - (i + 1)] = First[f] + (c - 1) - (i + 1)
        BY <1>4, <3>1
      <3>4. Part(f, c - 1)[(c - 1) - i] = First[f] + ((c - 1) - 1) - i
        BY <1>0, <2>1, SMT DEF Part
      <3> QED BY <1>0, <3>2, <3>3, <3>4, SMT
    <2> QED BY <2>1, <2>2, <2>3, <2>4, EndsIf
  <1>9. c - 1 \in 0..(Chunks[f] - 1)
    BY <1>0, SMT
  <1> QED BY <1>7, <1>8, <1>9

-----------------------------------------------------------------------------
(* The steps.                                                              *)

(* A packet that leaves the network: either nothing came after it yet, or  *)
(* it changes nothing.                                                     *)
LEMMA Arrival ==
    ASSUME OnTheWay, NEW k \in net, Leaves(k)
    PROVE  /\ OnTheWay' /\ k \in Nat /\ net' = net \ {k}
           /\ came' = (IF k < came THEN came ELSE k + 1)
           /\ began' = (IF IsFirst(k) /\ began < k THEN k ELSE began)
           /\ k < came' /\ came <= came' /\ came' <= came + Gap
           /\ k < next /\ k < Packets /\ next' = next /\ repeats' = repeats
  <1>1. /\ net' = net \ {k} /\ next' = next /\ repeats' = repeats /\ came' = (IF k < came THEN came ELSE k + 1)
        /\ began' = (IF IsFirst(k) /\ began < k THEN k ELSE began)
        /\ k \in 0..(next - 1) /\ next \in Nat /\ came \in 0..next /\ next <= came + Gap /\ Gap \in Nat
        /\ began \in 0..next /\ next <= Packets /\ Packets \in Nat
    BY Constants, Layout DEF Leaves, Arrives, OnTheWay
  <1>2. /\ k \in Nat /\ k < came' /\ came <= came' /\ came' \in 0..next /\ came' <= came + Gap
        /\ next <= came' + Gap /\ k < next /\ k < Packets
    BY <1>1, SMT
  <1>5. began' \in 0..next
    BY <1>1, SMT
  <1>3. net' \in SUBSET (0..(next' - 1)) /\ \A j \in net' : next' <= j + Late
    BY <1>1 DEF OnTheWay
  <1>6. repeats' \in SUBSET (0..(came' - 1)) /\ IsFiniteSet(repeats')
    <2>1. repeats \in SUBSET (0..(came - 1)) /\ IsFiniteSet(repeats)
      BY DEF OnTheWay
    <2> QED BY <1>1, <1>2, <2>1, SMT
  <1>4. OnTheWay'
    BY <1>1, <1>2, <1>3, <1>5, <1>6 DEF OnTheWay
  <1> QED BY <1>1, <1>2, <1>4

(* A copy of a packet arrives.                                             *)
LEMMA CopyArrives ==
    ASSUME OnTheWay, NEW k \in net, Copied(k)
    PROVE  /\ OnTheWay' /\ k \in Nat /\ net' = net /\ repeats' = repeats \cup {k}
           /\ came' = (IF k < came THEN came ELSE k + 1)
           /\ began' = (IF IsFirst(k) /\ began < k THEN k ELSE began)
           /\ k < came' /\ came <= came' /\ came' <= came + Gap
           /\ k < next /\ k < Packets /\ next' = next
  <1>1. /\ net' = net /\ next' = next /\ came' = (IF k < came THEN came ELSE k + 1)
        /\ began' = (IF IsFirst(k) /\ began < k THEN k ELSE began)
        /\ k \in 0..(next - 1) /\ next \in Nat /\ came \in 0..next /\ next <= came + Gap /\ Gap \in Nat
        /\ began \in 0..next /\ next <= Packets /\ Packets \in Nat /\ repeats' = repeats \cup {k}
    BY Constants, Layout DEF Copied, Arrives, OnTheWay
  <1>2. /\ came' \in 0..next /\ next <= came' + Gap /\ began' \in 0..next
        /\ k \in Nat /\ k < came' /\ came <= came' /\ came' <= came + Gap /\ k < next /\ k < Packets
    BY <1>1, SMT
  <1>3. repeats' \in SUBSET (0..(came' - 1)) /\ IsFiniteSet(repeats')
    <2>1. repeats \in SUBSET (0..(came - 1)) /\ IsFiniteSet(repeats)
      BY DEF OnTheWay
    <2>2. IsFiniteSet(repeats')
      BY <1>1, <2>1, FS_AddElement
    <2>3. \A j \in repeats : j \in 0..(came' - 1)
      BY <1>1, <1>2, <2>1, SMT
    <2>4. k \in 0..(came' - 1)
      BY <1>1, <1>2, SMT
    <2> QED BY <1>1, <2>2, <2>3, <2>4
  <1> QED BY <1>1, <1>2, <1>3 DEF OnTheWay

(* Once the buffer is too small, it remains so.                            *)
LEMMA FitsBefore ==
    ASSUME OnTheWay, repeats \subseteq repeats', IsFiniteSet(repeats'), next' \in Nat, next <= next', Fits'
    PROVE  Fits
  <1>1. /\ Cardinality(repeats) \in Nat /\ Cardinality(repeats') \in Nat
        /\ Cardinality(repeats) <= Cardinality(repeats')
    BY FS_Subset, FS_CardinalityType
  <1>2. Late + Cardinality(repeats) <= Room
    <2>1. Late + Cardinality(repeats') <= Room
      BY DEF Fits
    <2> QED BY <1>1, <2>1, Constants, SMT
  <1>3. ASSUME NEW k \in repeats PROVE next < k + SeqSpace
    <2>1. next' < k + SeqSpace
      BY <1>3 DEF Fits
    <2>2. k \in 0..(came - 1) /\ came \in 0..next /\ next \in Nat
      BY <1>3 DEF OnTheWay
    <2> QED BY <2>1, <2>2, Constants, SMT
  <1> QED BY <1>2, <1>3 DEF Fits

(* A packet or a copy of it comes to the session.                          *)
LEMMA Comes ==
    ASSUME OnTheWay, NEW k \in net, Leaves(k) \/ Copied(k)
    PROVE  /\ OnTheWay' /\ k \in Nat /\ net' \subseteq net /\ (k \in net' => k \in repeats')
           /\ repeats \subseteq repeats' /\ repeats' \subseteq repeats \cup {k}
           /\ came' = (IF k < came THEN came ELSE k + 1)
           /\ began' = (IF IsFirst(k) /\ began < k THEN k ELSE began)
           /\ k < came' /\ came <= came' /\ came' <= came + Gap
           /\ k < next /\ k < Packets /\ next' = next
           /\ Fits' => Fits
  <1>1. /\ OnTheWay' /\ k \in Nat /\ net' \subseteq net /\ (k \in net' => k \in repeats')
        /\ repeats \subseteq repeats' /\ repeats' \subseteq repeats \cup {k}
        /\ came' = (IF k < came THEN came ELSE k + 1)
        /\ began' = (IF IsFirst(k) /\ began < k THEN k ELSE began)
        /\ k < came' /\ came <= came' /\ came' <= came + Gap
        /\ k < next /\ k < Packets /\ next' = next
    <2>1. CASE Leaves(k)
      BY <2>1, Arrival
    <2>2. CASE Copied(k)
      BY <2>2, CopyArrives
    <2> QED BY <2>1, <2>2
  <1>2. IsFiniteSet(repeats') /\ next \in Nat /\ next <= next' /\ next' \in Nat
    BY <1>1, SMT DEF OnTheWay
  <1> QED BY <1>1, <1>2, FitsBefore

(* Check lets the packet through that is waited for, and no other.         *)
LEMMA ExpectedStep ==
    ASSUME OnTheWay, Fits, NEW w \in Nat, Waiting(w), taken \in Seq(Nat),
           NEW k \in net, Leaves(k) \/ Copied(k), Expected(k), taken' = Lately(taken, k)
    PROVE  k = w /\ w + 1 \in 0..came' /\ Waiting(w + 1)'
  <1>0. /\ OnTheWay' /\ k \in Nat /\ net' \subseteq net /\ (k \in net' => k \in repeats')
        /\ repeats \subseteq repeats' /\ repeats' \subseteq repeats \cup {k}
        /\ came' = (IF k < came THEN came ELSE k + 1) /\ k < came' /\ came <= came'
    BY Comes
  <1>1. /\ ~pops /\ pops' = TRUE /\ buf' = buf /\ SeqNo(k) = seq /\ seq' = After(seq)
        /\ Cardinality(Held) < Room /\ seq \notin Held /\ seq = SeqNo(w) /\ w \in 0..came
    BY DEF Expected, Check, Waiting, Buffered
  <1>2. k = w
    <2>1. k \in Compared(w) /\ w \in Compared(w)
      BY <1>1 DEF Compared
    <2>2. k < w + SeqSpace /\ w < k + SeqSpace
      BY <2>1, Near
    <2> QED BY <1>0, <1>1, <2>2, SeqApart
  <1>3. w + 1 \in 0..came' /\ came \in Nat /\ came' \in Nat
    BY <1>0, <1>1, <1>2, SMT DEF OnTheWay
  <1>4. Held' = Held /\ \A x : Above(x)' = Above(x)
    BY <1>1 DEF Held, Above
  <1>5. Buffered(w + 1)'
    <2>1. seq' = SeqNo(w + 1)
      BY <1>1, SeqNext
    <2>2. ASSUME NEW s \in Held
          PROVE  /\ buf[s] \in 0..(came' - 1) /\ SeqNo(buf[s]) = s
                 /\ buf[s] < w + 1 \/ buf[s] \in net' => buf[s] \in repeats'
      <3>1. /\ buf[s] \in 0..(came - 1) /\ SeqNo(buf[s]) = s
            /\ buf[s] < w \/ buf[s] \in net => buf[s] \in repeats
        BY DEF Waiting, Buffered
      <3>2. buf[s] # w
        BY <1>1, <2>2, <3>1
      <3>3. buf[s] \in 0..(came' - 1) /\ (buf[s] < w + 1 => buf[s] < w)
        BY <1>0, <1>3, <3>1, <3>2, SMT
      <3> QED BY <1>0, <3>1, <3>3
    <2>3. IsFiniteSet(Held) /\ Cardinality(Held) <= Room
      BY DEF Waiting, Buffered
    <2> QED BY <1>1, <1>3, <1>4, <2>1, <2>2, <2>3 DEF Buffered
  <1>6. NoGap(w + 1)'
    <2> SUFFICES ASSUME NEW x \in w..(came' - 1)
                 PROVE  came' - 1 - x <= Gap * Cardinality(Above(x))
      <3>1. (w + 1) - 1 = w
        OBVIOUS
      <3> QED BY <1>4, <3>1 DEF NoGap
    <2>1. CASE x \in (w - 1)..(came - 1) /\ came' = came
      BY <2>1 DEF Waiting, NoGap
    <2>2. CASE ~(x \in (w - 1)..(came - 1) /\ came' = came)
      <3>1. x \in Int /\ came' - 1 - x = 0
        BY <1>0, <1>1, <1>2, <1>3, <2>2, SMT
      <3>2. IsFiniteSet(Above(x))
        BY FS_Subset DEF Above, Waiting, Buffered
      <3>3. Gap * Cardinality(Above(x)) \in Nat
        BY <3>2, FS_CardinalityType, Product, Constants
      <3> QED BY <3>1, <3>3, SMT
    <2> QED BY <2>1, <2>2
  <1>7. Waited(w + 1)'
    <2>1. taken' # <<>> => taken'[Len(taken')] = k
      <3>1. taken' = Lately(taken, k)
        OBVIOUS
      <3> QED BY <1>0, <3>1, LatelyEnds
    <2>2. ASSUME NEW j \in net' PROVE j >= w + 1 \/ j \in repeats'
      <3>1. j \in net /\ (j >= w \/ j \in repeats) /\ j \in Nat
        BY <1>0, <2>2 DEF Waiting, Waited, OnTheWay
      <3>2. CASE j = k
        BY <1>0, <2>2, <3>2
      <3>3. CASE j # k
        BY <1>0, <1>2, <3>1, <3>3, SMT
      <3> QED BY <3>2, <3>3
    <2>3. ASSUME NEW j \in repeats' PROVE j < w + 1 \/ \E s \in Held' : buf'[s] = j
      <3>1. CASE j = k
        BY <1>2, <3>1, SMT
      <3>2. CASE j \in repeats
        <4>1. j < w \/ \E s \in Held : buf[s] = j
          BY <3>2 DEF Waiting, Waited
        <4>2. j \in Nat
          BY <3>2, SMT DEF OnTheWay
        <4>3. j < w => j < w + 1
          BY <4>2, SMT
        <4> QED BY <1>1, <1>4, <4>1, <4>3
      <3> QED BY <1>0, <2>3, <3>1, <3>2
    <2>4. taken' # <<>> => taken'[Len(taken')] < w + 1
      BY <1>2, <2>1, SMT
    <2> QED BY <2>2, <2>3, <2>4 DEF Waited
  <1> QED BY <1>2, <1>3, <1>5, <1>6, <1>7 DEF Waiting

(* Any other one is kept, under a number that only it has in the buffer.   *)
LEMMA OtherStep ==
    ASSUME OnTheWay, Fits, NEW w \in Nat, Waiting(w),
           NEW k \in net, Leaves(k) \/ Copied(k), Other(k), taken' = taken
    PROVE  /\ w \in 0..came' /\ Waiting(w)'
           /\ Held' = Held \cup {SeqNo(k)} /\ buf'[SeqNo(k)] = k
           /\ \A s \in Held : buf'[s] = buf[s]
           /\ \A j \in repeats' : j \in repeats \/ j > w
  <1>0. /\ OnTheWay' /\ k \in Nat /\ net' \subseteq net /\ (k \in net' => k \in repeats')
        /\ repeats \subseteq repeats' /\ repeats' \subseteq repeats \cup {k}
        /\ came' = (IF k < came THEN came ELSE k + 1) /\ k < came' /\ came <= came' /\ came' <= came + Gap
    BY Comes
  <1>1. /\ ~pops /\ pops' = TRUE /\ SeqNo(k) # seq /\ seq' = seq
        /\ buf' = [s \in Held \cup {SeqNo(k)} |-> IF s = SeqNo(k) THEN k ELSE buf[s]]
        /\ Cardinality(Held) < Room /\ seq = SeqNo(w) /\ w \in 0..came /\ IsFiniteSet(Held)
    BY DEF Other, Check, Waiting, Buffered, Held
  <1>2. /\ came \in Nat /\ came' \in Nat /\ w \in 0..came' /\ Gap \in Nat /\ Room \in Nat
        /\ Cardinality(Held) \in Nat
    BY <1>0, <1>1, Constants, FS_CardinalityType, SMT DEF OnTheWay
  <1>3. k > w \/ (k < w /\ k \in repeats)
    <2>1. k >= w \/ k \in repeats
      BY DEF Waiting, Waited
    <2>2. k # w
      BY <1>1
    <2> QED BY <1>0, <2>1, <2>2, SMT
  <1>4. SeqNo(k) \in Held => buf[SeqNo(k)] = k
    <2> SUFFICES ASSUME SeqNo(k) \in Held PROVE buf[SeqNo(k)] = k
      OBVIOUS
    <2>1. SeqNo(buf[SeqNo(k)]) = SeqNo(k)
      BY DEF Waiting, Buffered
    <2>2. k \in Compared(w) /\ buf[SeqNo(k)] \in Compared(w)
      BY <1>1 DEF Compared
    <2>3. buf[SeqNo(k)] \in Nat /\ k < buf[SeqNo(k)] + SeqSpace /\ buf[SeqNo(k)] < k + SeqSpace
      BY <2>2, Near
    <2> QED BY <1>0, <2>1, <2>3, SeqApart
  <1>5. /\ Held' = Held \cup {SeqNo(k)} /\ IsFiniteSet(Held')
        /\ Cardinality(Held') = Cardinality(Held) + (IF SeqNo(k) \in Held THEN 0 ELSE 1)
        /\ buf'[SeqNo(k)] = k /\ \A s \in Held : buf'[s] = buf[s]
    <2>1. Held' = Held \cup {SeqNo(k)} /\ buf'[SeqNo(k)] = k /\ \A s \in Held : buf'[s] = buf[s]
      BY <1>1, <1>4 DEF Held
    <2>2. CASE SeqNo(k) \in Held
      <3>1. Held' = Held
        BY <2>1, <2>2
      <3>2. Cardinality(Held) = Cardinality(Held) + 0
        BY <1>2, SMT
      <3> QED BY <1>1, <2>1, <2>2, <3>1, <3>2
    <2>3. CASE SeqNo(k) \notin Held
      BY <1>1, <2>1, <2>3, FS_AddElement
    <2> QED BY <2>2, <2>3
  <1>6. Buffered(w)'
    <2>1. ASSUME NEW s \in Held'
          PROVE  /\ buf'[s] \in 0..(came' - 1) /\ SeqNo(buf'[s]) = s
                 /\ buf'[s] < w \/ buf'[s] \in net' => buf'[s] \in repeats'
      <3>1. CASE s = SeqNo(k)
        <4>1. k \in 0..(came' - 1) /\ (k < w => k \in repeats)
          BY <1>0, <1>1, <1>2, <1>3, SMT
        <4> QED BY <1>0, <1>5, <3>1, <4>1
      <3>2. CASE s # SeqNo(k)
        <4>1. s \in Held /\ buf'[s] = buf[s]
          BY <1>5, <2>1, <3>2
        <4>2. /\ buf[s] \in 0..(came - 1) /\ SeqNo(buf[s]) = s
              /\ buf[s] < w \/ buf[s] \in net => buf[s] \in repeats
          BY <4>1 DEF Waiting, Buffered
        <4>3. buf[s] \in 0..(came' - 1)
          BY <1>0, <1>2, <4>2, SMT
        <4> QED BY <1>0, <4>1, <4>2, <4>3
      <3> QED BY <3>1, <3>2
    <2>2. Cardinality(Held') <= Room
      BY <1>1, <1>2, <1>5, SMT
    <2> QED BY <1>1, <1>2, <1>5, <2>1, <2>2 DEF Buffered
  <1>7. NoGap(w)'
    <2> SUFFICES ASSUME NEW x \in (w - 1)..(came' - 1)
                 PROVE  came' - 1 - x <= Gap * Cardinality(Above(x)')
      BY DEF NoGap
    <2>0. x \in Int
      BY <1>2, SMT
    <2>1. CASE SeqNo(k) \in Held
      <3>1. buf[SeqNo(k)] \in 0..(came - 1)
        BY <2>1 DEF Waiting, Buffered
      <3>2. came' = came
        BY <1>0, <1>2, <1>4, <2>1, <3>1, SMT
      <3>3. Above(x)' = Above(x)
        BY <1>5, <2>1 DEF Above
      <3>4. came - 1 - x <= Gap * Cardinality(Above(x))
        BY <3>2 DEF Waiting, NoGap
      <3> QED BY <3>2, <3>3, <3>4
    <2>2. CASE SeqNo(k) \notin Held
      <3>1. Above(x)' = IF k > x THEN Above(x) \cup {SeqNo(k)} ELSE Above(x)
        BY <1>5 DEF Above
      <3>2. IsFiniteSet(Above(x)) /\ SeqNo(k) \notin Above(x)
        BY <1>1, <2>2, FS_Subset DEF Above
      <3>3. /\ Cardinality(Above(x)) \in Nat
            /\ Cardinality(Above(x)') = Cardinality(Above(x)) + (IF k > x THEN 1 ELSE 0)
        <4>1. Cardinality(Above(x)) \in Nat
          BY <3>2, FS_CardinalityType
        <4>2. Cardinality(Above(x) \cup {SeqNo(k)}) = Cardinality(Above(x)) + 1
          BY <3>2, FS_AddElement
        <4>3. CASE k > x
          BY <3>1, <4>1, <4>2, <4>3
        <4>4. CASE ~(k > x)
          BY <3>1, <4>1, <4>4, SMT
        <4> QED BY <4>1, <4>3, <4>4
      <3>4. /\ Gap * Cardinality(Above(x)) \in Nat
            /\ Gap * (Cardinality(Above(x)) + 1) = Gap * Cardinality(Above(x)) + Gap
        <4>1. PICK c \in Nat : c = Cardinality(Above(x))
          BY <3>3
        <4>2. c <= c
          BY <4>1, SMT
        <4> QED BY <1>2, <4>1, <4>2, Product
      <3>5. CASE x \in (w - 1)..(came - 1)
        <4>1. came - 1 - x <= Gap * Cardinality(Above(x))
          BY <3>5 DEF Waiting, NoGap
        <4>2. CASE k > x
          BY <1>0, <1>2, <2>0, <3>3, <3>4, <4>1, <4>2, SMT
        <4>3. CASE ~(k > x)
          <5>1. came' = came
            BY <1>0, <1>2, <2>0, <3>5, <4>3, SMT
          <5>2. Above(x)' = Above(x)
            BY <3>1, <4>3
          <5> QED BY <4>1, <5>1, <5>2
        <4> QED BY <4>2, <4>3
      <3>6. CASE ~(x \in (w - 1)..(came - 1))
        <4>1. came' = k + 1 /\ x >= came /\ x <= k
          BY <1>0, <1>2, <2>0, <3>6, SMT
        <4>2. CASE k > x
          <5>1. Cardinality(Above(x)') = Cardinality(Above(x)) + 1
            BY <3>3, <4>2
          <5>2. Gap * Cardinality(Above(x)') = Gap * Cardinality(Above(x)) + Gap
            BY <3>4, <5>1
          <5> DEFINE g == Gap * Cardinality(Above(x)')
          <5>3. g \in Nat /\ Gap <= g
            BY <1>2, <3>4, <5>2, SMT
          <5> HIDE DEF g
          <5>4. came' - 1 - x <= g
            BY <1>0, <1>2, <2>0, <4>1, <5>3, SMT
          <5> QED BY <5>4 DEF g
        <4>3. CASE ~(k > x)
          <5>1. came' - 1 - x = 0 /\ Above(x)' = Above(x)
            BY <1>0, <2>0, <3>1, <4>1, <4>3, SMT
          <5> QED BY <3>4, <5>1, SMT
        <4> QED BY <4>2, <4>3
      <3> QED BY <3>5, <3>6
    <2> QED BY <2>1, <2>2
  <1>8. Waited(w)'
    <2>1. \A j \in net' : j >= w \/ j \in repeats'
      BY <1>0 DEF Waiting, Waited
    <2>2. ASSUME NEW j \in repeats' PROVE j < w \/ \E s \in Held' : buf'[s] = j
      <3>1. CASE j = k
        BY <1>5, <3>1
      <3>2. CASE j \in repeats
        <4>1. j < w \/ \E s \in Held : buf[s] = j
          BY <3>2 DEF Waiting, Waited
        <4> QED BY <1>5, <4>1
      <3> QED BY <1>0, <2>2, <3>1, <3>2
    <2> QED BY <2>1, <2>2 DEF Waiting, Waited
  <1>9. \A j \in repeats' : j \in repeats \/ j > w
    BY <1>0, <1>3
  <1> QED BY <1>2, <1>5, <1>6, <1>7, <1>8, <1>9 DEF Waiting

(* Pop takes the packet that is the next in the order of the camera.       *)
LEMMA NearestIsNext ==
    ASSUME OnTheWay, Fits, NEW w \in Nat, Waiting(w), \E s \in Held : buf[s] >= w
    PROVE  /\ Nearest \in Held /\ buf[Nearest] >= w
           /\ \A s \in Held \ {Nearest} : buf[s] >= w => buf[Nearest] < buf[s]
  <1>0. w \in Compared(w) /\ \A s \in Held : buf[s] \in Compared(w)
    BY DEF Compared
  <1>1. \A s \in Held : /\ SeqNo(buf[s]) = s /\ buf[s] \in Nat
                        /\ buf[s] < w + SeqSpace /\ w < buf[s] + SeqSpace
                        /\ \A r \in Held : buf[s] < buf[r] + SeqSpace
    BY <1>0, Near DEF Waiting, Buffered
  <1>2. \A s \in Held : Ahead(s) = IF buf[s] >= w THEN buf[s] - w ELSE (buf[s] + SeqSpace) - w
    <2> SUFFICES ASSUME NEW s \in Held
                 PROVE  Ahead(s) = IF buf[s] >= w THEN buf[s] - w ELSE (buf[s] + SeqSpace) - w
      OBVIOUS
    <2>1. Ahead(s) = (SeqNo(buf[s]) - SeqNo(w)) % SeqSpace
      BY <1>1 DEF Ahead, Waiting, Buffered
    <2>2. CASE buf[s] >= w
      <3>1. w <= buf[s] /\ buf[s] < w + SeqSpace /\ buf[s] \in Nat
        BY <1>1, <2>2, SMT
      <3> QED BY <2>1, <2>2, <3>1, SeqAhead
    <2>3. CASE ~(buf[s] >= w)
      <3>1. buf[s] < w /\ w < buf[s] + SeqSpace /\ buf[s] \in Nat
        BY <1>1, <2>3, SMT
      <3> QED BY <2>1, <2>3, <3>1, SeqBehind
    <2> QED BY <2>2, <2>3
  <1> DEFINE Packs == {buf[s] : s \in Above(w - 1)}
  <1>3. PICK n \in Packs : \A m \in Packs : n <= m
    <2>1. Packs \in SUBSET Nat /\ Packs # {}
      <3>1. \A s \in Held : buf[s] >= w => buf[s] > w - 1
        BY <1>1, SMT
      <3> QED BY <1>1, <3>1 DEF Above
    <2> HIDE DEF Packs
    <2> QED BY <2>1, Least
  <1>4. PICK r \in Held : buf[r] >= w /\ \A s \in Held : Ahead(r) <= Ahead(s)
    <2>1. PICK r \in Above(w - 1) : n = buf[r]
      BY <1>3
    <2>2. r \in Held /\ buf[r] >= w
      BY <1>1, <2>1, SMT DEF Above
    <2>3. ASSUME NEW s \in Held PROVE Ahead(r) <= Ahead(s)
      <3>1. CASE buf[s] >= w
        <4>1. s \in Above(w - 1)
          BY <1>1, <2>3, <3>1, SMT DEF Above
        <4>2. buf[r] <= buf[s]
          BY <1>3, <2>1, <4>1
        <4> QED BY <1>1, <1>2, <2>2, <2>3, <3>1, <4>2, SMT
      <3>2. CASE ~(buf[s] >= w)
        <4>1. buf[r] < buf[s] + SeqSpace
          BY <1>1, <2>2, <2>3
        <4> QED BY <1>1, <1>2, <2>2, <2>3, <3>2, <4>1, Constants, SMT
      <3> QED BY <3>1, <3>2
    <2> QED BY <2>2, <2>3
  <1>5. Nearest \in Held /\ \A s \in Held : Ahead(Nearest) <= Ahead(s)
    BY <1>4 DEF Nearest, Held
  <1>6. buf[Nearest] >= w
    <2> SUFFICES ASSUME ~(buf[Nearest] >= w) PROVE FALSE
      OBVIOUS
    <2>1. Ahead(Nearest) = (buf[Nearest] + SeqSpace) - w /\ Ahead(r) = buf[r] - w
      BY <1>2, <1>4, <1>5
    <2>2. Ahead(Nearest) <= Ahead(r) /\ buf[r] < buf[Nearest] + SeqSpace
      BY <1>1, <1>4, <1>5
    <2>3. buf[r] \in Nat /\ buf[Nearest] \in Nat
      BY <1>1, <1>4, <1>5
    <2> QED BY <2>1, <2>2, <2>3, Constants, SMT
  <1>7. ASSUME NEW s \in Held, s # Nearest, buf[s] >= w PROVE buf[Nearest] < buf[s]
    <2>1. buf[Nearest] # buf[s]
      BY <1>1, <1>5, <1>7
    <2>2. Ahead(Nearest) = buf[Nearest] - w /\ Ahead(s) = buf[s] - w /\ Ahead(Nearest) <= Ahead(s)
      BY <1>2, <1>5, <1>6, <1>7
    <2>3. buf[s] \in Nat /\ buf[Nearest] \in Nat
      BY <1>1, <1>5, <1>7
    <2> QED BY <2>1, <2>2, <2>3, SMT
  <1> QED BY <1>5, <1>6, <1>7

(* Items in the buffer are different packets.                              *)
LEMMA HeldIn ==
    ASSUME NEW w, Waiting(w), NEW S, IsFiniteSet(S), \A s \in Held : buf[s] \in S
    PROVE  Cardinality(Held) <= Cardinality(S)
  <1> DEFINE f == [s \in Held |-> buf[s]]
  <1>1. f \in [Held -> S]
    OBVIOUS
  <1>2. \A s, r \in Held : f[s] = f[r] => s = r
    BY DEF Waiting, Buffered
  <1> HIDE DEF f
  <1>3. f \in Injection(Held, S)
    BY <1>1, <1>2 DEF Injection, IsInjective
  <1> QED BY <1>3, FS_Injection

(* Pop gives up what is before that packet only when the buffer is full;   *)
(* then the camera has sent so much more that nothing before it is on the  *)
(* way.                                                                    *)
LEMMA PopStep ==
    ASSUME OnTheWay, Fits, NEW w \in Nat, Waiting(w), taken \in Seq(Nat), NEW n, n = buf[Nearest],
           PopItem, UNCHANGED udpVars, taken' = Lately(taken, n)
    PROVE  /\ n + 1 \in 0..came' /\ Waiting(n + 1)'
           /\ Nearest \in Held /\ n \in Nat /\ n >= w /\ n < Packets
           /\ \A s \in Held \ {Nearest} : n < buf[s] \/ (buf[s] < w /\ buf[s] \in repeats)
           /\ \A j \in repeats : j < w \/ j >= n
  <1>0. UNCHANGED <<next, net, came, began, repeats>>
    BY DEF udpVars
  <1>1. /\ pops /\ pops' = TRUE /\ seq' = After(Nearest)
        /\ buf' = [s \in Held \ {Nearest} |-> buf[s]]
        /\ seq \in Held \/ Room - Cardinality(Held) <= 0
        /\ IsFiniteSet(Held) /\ Cardinality(Held) <= Room /\ w \in 0..came
    BY DEF PopItem, Found, Available, Held, Waiting, Buffered
  <1>2. /\ Room \in Nat \ {0} /\ Late \in Nat \ {0} /\ Cardinality(Held) \in Nat
        /\ IsFiniteSet(repeats) /\ Cardinality(repeats) \in Nat /\ Late + Cardinality(repeats) <= Room
    BY <1>1, Constants, FS_CardinalityType DEF OnTheWay, Fits
  <1>3. ASSUME NEW s \in Held
        PROVE  /\ buf[s] \in Nat /\ SeqNo(buf[s]) = s /\ buf[s] \in Compared(w)
               /\ buf[s] >= w \/ (buf[s] < w /\ buf[s] \in repeats)
    <2>1. /\ buf[s] \in 0..(came - 1) /\ SeqNo(buf[s]) = s
          /\ buf[s] < w \/ buf[s] \in net => buf[s] \in repeats
      BY DEF Waiting, Buffered
    <2>2. buf[s] \in Compared(w)
      BY DEF Compared
    <2> QED BY <2>1, <2>2, SMT
  <1>4. seq \in Held => buf[seq] = w
    <2> SUFFICES ASSUME seq \in Held PROVE buf[seq] = w
      OBVIOUS
    <2>1. SeqNo(buf[seq]) = SeqNo(w)
      BY <1>3 DEF Waiting, Buffered
    <2>2. w \in Compared(w)
      BY DEF Compared
    <2>3. buf[seq] < w + SeqSpace /\ w < buf[seq] + SeqSpace
      BY <1>3, <2>2, Near
    <2> QED BY <1>3, <2>1, <2>3, SeqApart
  <1>5. \E s \in Held : buf[s] >= w
    <2>1. CASE seq \in Held
      <3>1. w >= w
        BY SMT
      <3> QED BY <1>4, <2>1, <3>1
    <2>2. CASE Room - Cardinality(Held) <= 0
      <3> SUFFICES ASSUME \A s \in Held : buf[s] \in repeats PROVE FALSE
        BY <1>3
      <3>1. Cardinality(Held) <= Cardinality(repeats)
        BY <1>2, HeldIn
      <3> QED BY <1>2, <2>2, <3>1, SMT
    <2> QED BY <1>1, <2>1, <2>2
  <1>6. /\ Nearest \in Held /\ n >= w
        /\ \A s \in Held \ {Nearest} : buf[s] >= w => n < buf[s]
    BY <1>5, NearestIsNext
  <1>7. /\ n \in 0..(came - 1) /\ SeqNo(n) = Nearest /\ n \in Nat /\ (n \in net => n \in repeats)
        /\ came \in Nat /\ next \in Nat /\ came <= next /\ n + 1 \in 0..came
    <2>1. n \in 0..(came - 1) /\ SeqNo(n) = Nearest /\ (n \in net => n \in repeats)
      BY <1>6 DEF Waiting, Buffered
    <2>2. came \in 0..next /\ next \in Nat
      BY DEF OnTheWay
    <2> QED BY <2>1, <2>2, SMT
  <1>16. n \in Nat /\ came \in Nat /\ next \in Nat /\ n < came /\ came <= next
    BY <1>7, SMT
  <1>8. /\ Held' = Held \ {Nearest} /\ IsFiniteSet(Held') /\ Cardinality(Held') <= Room
        /\ \A s \in Held' : buf'[s] = buf[s]
    <2>1. Held' = Held \ {Nearest} /\ \A s \in Held' : buf'[s] = buf[s]
      BY <1>1 DEF Held
    <2>2. IsFiniteSet(Held') /\ Cardinality(Held') <= Cardinality(Held) /\ Cardinality(Held') \in Nat
      BY <1>1, <2>1, FS_Subset, FS_CardinalityType
    <2> QED BY <1>1, <1>2, <2>1, <2>2, SMT
  <1>9. ASSUME NEW j \in repeats PROVE j \in Nat /\ (j < w \/ j >= n)
    <2>1. j \in Nat
      BY SMT DEF OnTheWay
    <2>2. j < w \/ \E s \in Held : buf[s] = j
      BY DEF Waiting, Waited
    <2>3. ASSUME NEW s \in Held, buf[s] = j, j >= w PROVE j >= n
      <3>1. CASE s = Nearest
        BY <1>7, <2>3, <3>1, SMT
      <3>2. CASE s # Nearest
        BY <1>6, <1>7, <2>1, <2>3, <3>2, SMT
      <3> QED BY <3>1, <3>2
    <2> QED BY <2>1, <2>2, <2>3, SMT
  <1>10. \A k \in net : k >= n + 1 \/ k \in repeats
    <2> SUFFICES ASSUME NEW k \in net, k \notin repeats PROVE k >= n + 1
      OBVIOUS
    <2>0. k \in Nat /\ k >= w /\ next <= k + Late /\ k # n
      BY <1>7 DEF OnTheWay, Waiting, Waited
    <2>1. CASE seq \in Held
      <3>1. n <= w
        <4>1. CASE seq = Nearest
          BY <1>4, <1>7, <2>1, <4>1, SMT
        <4>2. CASE seq # Nearest
          <5>1. w >= w
            BY SMT
          <5>2. n < w
            BY <1>4, <1>6, <2>1, <4>2, <5>1
          <5> QED BY <1>7, <5>2, SMT
        <4> QED BY <4>1, <4>2
      <3> QED BY <1>7, <2>0, <3>1, SMT
    <2>2. CASE Room - Cardinality(Held) <= 0
      <3>1. \A s \in Held : buf[s] \in (n..(came - 1)) \cup repeats
        <4> SUFFICES ASSUME NEW s \in Held, buf[s] >= w PROVE buf[s] \in n..(came - 1)
          BY <1>3
        <4>1. buf[s] \in 0..(came - 1)
          BY DEF Waiting, Buffered
        <4>2. s = Nearest \/ n < buf[s]
          BY <1>6
        <4>3. CASE s = Nearest
          BY <1>7, <4>3, SMT
        <4>4. CASE n < buf[s]
          BY <1>7, <4>1, <4>4, SMT
        <4> QED BY <4>2, <4>3, <4>4
      <3>2. IsFiniteSet(n..(came - 1)) /\ Cardinality(n..(came - 1)) = came - n
        <4>1. n \in Int /\ came - 1 \in Int /\ ~(n > came - 1) /\ (came - 1) - n + 1 = came - n
          BY <1>16, SMT
        <4> QED BY <4>1, FS_Interval
      <3>3. /\ IsFiniteSet((n..(came - 1)) \cup repeats)
            /\ Cardinality((n..(came - 1)) \cup repeats) <= (came - n) + Cardinality(repeats)
        <4> DEFINE S == n..(came - 1)
        <4>1. IsFiniteSet(S) /\ Cardinality(S) = came - n
          BY <3>2
        <4> HIDE DEF S
        <4>2. /\ IsFiniteSet(S \cup repeats)
              /\ Cardinality(S \cup repeats) = Cardinality(S) + Cardinality(repeats) - Cardinality(S \cap repeats)
          BY <1>2, <4>1, FS_Union
        <4>3. Cardinality(S \cap repeats) \in Nat
          BY <4>1, FS_Subset, FS_CardinalityType
        <4> DEFINE c == Cardinality(S)
                   d == Cardinality(S \cap repeats)
                   r == Cardinality(repeats)
                   u == Cardinality(S \cup repeats)
        <4>4. u <= (came - n) + r
          <5>1. c = came - n /\ u = c + r - d /\ d \in Nat /\ r \in Nat
            BY <1>2, <4>1, <4>2, <4>3
          <5> HIDE DEF c, d, r, u
          <5> QED BY <1>16, <5>1, SMT
        <4> QED BY <4>2, <4>4 DEF S
      <3>4. Cardinality(Held) <= Cardinality((n..(came - 1)) \cup repeats)
        BY <3>1, <3>3, HeldIn
      <3>5. Cardinality((n..(came - 1)) \cup repeats) \in Nat
        BY <3>3, FS_CardinalityType
      <3>6. Cardinality(Held) <= (came - n) + Cardinality(repeats)
        <4> DEFINE c == Cardinality((n..(came - 1)) \cup repeats)
                   h == Cardinality(Held)
                   r == Cardinality(repeats)
        <4>1. h <= c /\ c <= (came - n) + r
          BY <3>3, <3>4
        <4>2. c \in Nat /\ h \in Nat /\ r \in Nat /\ came \in Nat /\ n \in Nat
          BY <1>2, <1>16, <3>5
        <4> HIDE DEF c, h, r
        <4>3. h <= (came - n) + r
          BY <4>1, <4>2, SMT
        <4> QED BY <4>3 DEF h, r
      <3>7. Late <= came - n
        <4> DEFINE h == Cardinality(Held)
                   r == Cardinality(repeats)
        <4>1. h <= (came - n) + r /\ Room - h <= 0
          BY <2>2, <3>6
        <4>2. /\ h \in Nat /\ r \in Nat /\ Room \in Nat /\ Late \in Nat /\ Late + r <= Room
              /\ came \in Nat /\ n \in Nat
          BY <1>2, <1>16
        <4> HIDE DEF h, r
        <4> QED BY <4>1, <4>2, SMT
      <3>0. Late \in Nat
        BY <1>2
      <3>8. n + Late <= next
        BY <1>16, <3>0, <3>7, SMT
      <3> QED BY <1>16, <2>0, <3>0, <3>8, SMT
    <2> QED BY <1>1, <2>1, <2>2
  <1>11. Buffered(n + 1)'
    <2>1. seq' = SeqNo(n + 1)
      BY <1>1, <1>7, SeqNext
    <2>2. ASSUME NEW s \in Held'
          PROVE  /\ buf'[s] \in 0..(came' - 1) /\ SeqNo(buf'[s]) = s
                 /\ buf'[s] < n + 1 \/ buf'[s] \in net' => buf'[s] \in repeats'
      <3>1. s \in Held /\ s # Nearest /\ buf'[s] = buf[s]
        BY <1>8
      <3>2. /\ buf[s] \in 0..(came - 1) /\ SeqNo(buf[s]) = s
            /\ buf[s] < w \/ buf[s] \in net => buf[s] \in repeats
        BY <3>1 DEF Waiting, Buffered
      <3>3. buf[s] < n + 1 => buf[s] < w
        BY <1>3, <1>6, <1>7, <3>1, SMT
      <3> QED BY <1>0, <3>1, <3>2, <3>3
    <2> QED BY <1>0, <1>1, <1>7, <1>8, <2>1, <2>2 DEF Buffered
  <1>12. NoGap(n + 1)'
    <2> SUFFICES ASSUME NEW x \in n..(came - 1)
                 PROVE  came - 1 - x <= Gap * Cardinality(Above(x)')
      <3>1. (n + 1) - 1 = n
        BY <1>7, SMT
      <3> QED BY <1>0, <3>1 DEF NoGap
    <2>1. x \in (w - 1)..(came - 1) /\ ~(n > x)
      BY <1>1, <1>6, <1>7, SMT
    <2>2. Above(x)' = Above(x)
      BY <1>8, <2>1 DEF Above
    <2> QED BY <2>1, <2>2 DEF Waiting, NoGap
  <1>13. Waited(n + 1)'
    <2>1. taken' # <<>> => taken'[Len(taken')] = n
      <3>1. taken' = Lately(taken, n)
        OBVIOUS
      <3> QED BY <1>7, <3>1, LatelyEnds
    <2>2. taken' # <<>> => taken'[Len(taken')] < n + 1
      BY <1>7, <2>1, SMT
    <2>3. ASSUME NEW j \in repeats PROVE j < n + 1 \/ \E s \in Held' : buf'[s] = j
      <3>1. CASE j < w \/ j = n
        BY <1>6, <1>7, <1>9, <3>1, SMT
      <3>2. CASE ~(j < w) /\ j # n
        <4>1. PICK s \in Held : buf[s] = j
          BY <3>2 DEF Waiting, Waited
        <4>2. s # Nearest
          BY <3>2, <4>1
        <4> QED BY <1>8, <4>1, <4>2
      <3> QED BY <3>1, <3>2
    <2> QED BY <1>0, <1>10, <2>2, <2>3 DEF Waited
  <1>14. n < Packets
    <2>1. came \in 0..next /\ next <= Packets /\ Packets \in Nat
      BY Layout DEF OnTheWay
    <2> QED BY <1>7, <2>1, SMT
  <1>15. \A s \in Held \ {Nearest} : n < buf[s] \/ (buf[s] < w /\ buf[s] \in repeats)
    BY <1>3, <1>6
  <1> QED BY <1>0, <1>6, <1>7, <1>9, <1>11, <1>12, <1>13, <1>14, <1>15 DEF Waiting

(* The network by itself changes only what is on the way.                  *)
LEMMA NetworkWay ==
    ASSUME OnTheWay, Network
    PROVE  /\ OnTheWay' /\ came' = came /\ next \in Nat /\ next' \in Nat /\ next <= next'
           /\ \A k \in net' : k \in net \/ k = next
           /\ repeats' = repeats /\ (Fits' => Fits)
  <1>1. /\ next \in Nat /\ came \in 0..next /\ next <= came + Gap /\ Gap \in Nat /\ Late \in Nat
        /\ net \in SUBSET (0..(next - 1)) /\ \A k \in net : next <= k + Late
        /\ began \in 0..next /\ next <= Packets /\ Packets \in Nat
    BY Constants, Layout DEF OnTheWay
  <1>2. CASE Send
    <2>1. /\ next < came + Gap /\ net' = {k \in net \cup {next} : next < k + Late}
          /\ next' = next + 1 /\ next < Packets /\ came' = came /\ began' = began
          /\ repeats' = repeats
      BY <1>2 DEF Send
    <2>2. /\ next' \in Nat /\ came' \in 0..next' /\ next' <= came' + Gap /\ next <= next'
          /\ began' \in 0..next' /\ next' <= Packets
      BY <1>1, <2>1, SMT
    <2>3. ASSUME NEW k \in net' PROVE k \in 0..(next' - 1) /\ next' <= k + Late
      <3>1. k \in Nat /\ k <= next /\ next < k + Late
        BY <1>1, <2>1
      <3> QED BY <1>1, <2>1, <3>1, SMT
    <2>4. OnTheWay'
      BY <1>1, <2>1, <2>2, <2>3 DEF OnTheWay
    <2>5. IsFiniteSet(repeats') /\ repeats \subseteq repeats'
      BY <2>1 DEF OnTheWay
    <2>6. Fits' => Fits
      BY <2>2, <2>5, FitsBefore
    <2> QED BY <1>1, <2>1, <2>2, <2>4, <2>6
  <1>3. CASE Lose
    <2>1. UNCHANGED <<next, came, began, repeats>> /\ net' \subseteq net
      BY <1>3 DEF Lose
    <2>2. OnTheWay' /\ next <= next
      BY <1>1, <2>1, SMT DEF OnTheWay
    <2>3. Fits' => Fits
      BY <2>1 DEF Fits
    <2> QED BY <1>1, <2>1, <2>2, <2>3
  <1> QED BY <1>2, <1>3 DEF Network

(* What the camera sends is ahead of all that has come.                    *)
LEMMA NetworkStep ==
    ASSUME OnTheWay, NEW w \in Nat, Waiting(w), Network, UNCHANGED <<reorderVars, taken>>
    PROVE  OnTheWay' /\ w \in 0..came' /\ Waiting(w)'
  <1>1. next \in Nat /\ came \in 0..next
    BY DEF OnTheWay
  <1>2. came' = came /\ UNCHANGED <<seq, buf, pops, taken, repeats>> /\ w \in 0..came
    BY NetworkWay DEF reorderVars, Waiting, Buffered
  <1>3. OnTheWay' /\ \A k \in net' : k \in net \/ k = next
    BY NetworkWay
  <1>4. Held' = Held /\ \A x : Above(x)' = Above(x)
    BY <1>2 DEF Held, Above
  <1>5. Buffered(w)'
    <2>1. ASSUME NEW s \in Held, buf[s] \in net' PROVE buf[s] \in net
      <3>1. buf[s] \in 0..(came - 1)
        BY DEF Waiting, Buffered
      <3>2. buf[s] # next
        BY <1>1, <1>2, <3>1, SMT
      <3> QED BY <1>3, <2>1, <3>2
    <2> QED BY <1>2, <1>4, <2>1 DEF Waiting, Buffered
  <1>6. NoGap(w)'
    BY <1>2, <1>4 DEF Waiting, NoGap
  <1>7. Waited(w)'
    <2>1. next >= w
      BY <1>1, <1>2, SMT
    <2> QED BY <1>2, <1>3, <1>4, <2>1 DEF Waiting, Waited
  <1> QED BY <1>2, <1>3, <1>5, <1>6, <1>7 DEF Waiting

-----------------------------------------------------------------------------
(* Frames of protocol 25.                                                  *)

(* The assembly goes on with packet p; what may come to it is less than    *)
(* the sequence space ahead of p, or behind the beginning of a frame, from *)
(* which it then goes on. The beginnings that came again are behind p.     *)
Covers(p, k) ==
    \/ k < p + Span
    \/ \E s \in Held : IsFirst(buf[s]) /\ buf[s] < k /\ k < buf[s] + Span

Reach(w, p) ==
    /\ \A k \in repeats : k < w /\ IsFirst(k) => k <= p
    /\ began <= p \/ \E s \in Held : buf[s] = began /\ IsFirst(began)
    /\ \A k \in net : Covers(p, k)
    /\ \A s \in Held : Covers(p, buf[s])

Before(x) == \A i \in DOMAIN out : out[i][1] < x

Assembled25(w, p) ==
    /\ p \in 0..w /\ waitCSeq = SeqNo(p) /\ Before(w)
    /\ \/ p < w \/ p = 0
       \/ \E f \in Frames : \E c \in 1..(Chunks[f] - 1) :
            waitData = Part(f, c) /\ p = First[f] + c /\ Before(First[f])

InOrder == \A i, j \in DOMAIN out : i < j => out[i][1] < out[j][1]

WholeOut == out \in Seq(Seq(Nat)) /\ \A i \in DOMAIN out : \E f \in Frames : out[i] = Whole(f)

(* What just came one after the other is what is being put together.       *)
Arriving25 ==
    \A f \in Frames : \A c \in 1..Chunks[f] :
        EndsWith(taken, Part(f, c)) =>
            IF c < Chunks[f] THEN waitCSeq = SeqNo(First[f] + c) /\ waitData = Part(f, c)
                             ELSE full \/ \E i \in DOMAIN out : out[i] = Whole(f)

LEMMA ReachOther ==
    ASSUME OnTheWay, Fits, NEW w \in Nat, Waiting(w), NEW p \in Nat, Reach(w, p),
           NEW k \in net, Leaves(k) \/ Copied(k), Other(k), taken' = taken
    PROVE  Reach(w, p)'
  <1>1. /\ Held' = Held \cup {SeqNo(k)} /\ buf'[SeqNo(k)] = k
        /\ \A s \in Held : buf'[s] = buf[s]
        /\ \A j \in repeats' : j \in repeats \/ j > w
    BY OtherStep
  <1>2. net' \subseteq net /\ OnTheWay' /\ came' \in Nat /\ began' = (IF IsFirst(k) /\ began < k THEN k ELSE began)
    BY Comes, SMT DEF OnTheWay
  <1>3. ASSUME NEW x, Covers(p, x) PROVE Covers(p, x)'
    BY <1>1, <1>3 DEF Covers
  <1>4. (\A j \in net : Covers(p, j))'
    BY <1>2, <1>3 DEF Reach
  <1>5. (\A s \in Held : Covers(p, buf[s]))'
    <2> SUFFICES ASSUME NEW s \in Held' PROVE Covers(p, buf[s])'
      OBVIOUS
    <2>1. CASE s \in Held
      <3>1. PICK x : x = buf[s]
        OBVIOUS
      <3>2. Covers(p, x)'
        BY <1>3, <2>1, <3>1 DEF Reach
      <3> QED BY <1>1, <2>1, <3>1, <3>2 DEF Covers
    <2>2. CASE s = SeqNo(k)
      <3>1. Covers(p, k)'
        BY <1>3 DEF Reach
      <3> QED BY <1>1, <2>2, <3>1 DEF Covers
    <2> QED BY <1>1, <2>1, <2>2
  <1>6. began' <= p \/ \E s \in Held' : buf'[s] = began' /\ IsFirst(began')
    BY <1>1, <1>2 DEF Reach
  <1>7. ASSUME NEW j \in repeats', j < w, IsFirst(j) PROVE j <= p
    <2>0. j \in 0..(came' - 1)
      BY <1>2, <1>7 DEF OnTheWay
    <2>1. j \in Nat
      BY <2>0, SMT
    <2>2. j \in repeats
      BY <1>1, <1>7, <2>1, SMT
    <2> QED BY <1>7, <2>2 DEF Reach
  <1> QED BY <1>4, <1>5, <1>6, <1>7 DEF Reach

(* Packet k goes to the assembly, which then goes on with q; what stays in *)
(* the buffer is behind k.                                                 *)
LEMMA ReachTaken ==
    ASSUME NEW w \in Nat, NEW p \in Nat, Reach(w, p), NEW q \in Nat, p <= q,
           NEW k \in Nat, IsFirst(k) => k <= q,
           net' \subseteq net, Held' \subseteq Held, began \in Nat,
           \A s \in Held' : buf'[s] = buf[s],
           \A s \in Held : buf[s] \in Nat /\ (s \in Held' \/ buf[s] = k),
           began' = began \/ (began' = k /\ IsFirst(k)),
           \A j \in net : j \in Nat,
           \A j \in repeats' : j \in Nat /\ ((j < w /\ j \in repeats) \/ j >= k)
    PROVE  Reach(k + 1, q)'
  <1>0. Span \in Nat
    BY Constants
  <1>1. ASSUME NEW x \in Nat, Covers(p, x) PROVE Covers(q, x)'
    <2>1. CASE x < p + Span
      <3>1. x < q + Span
        BY <1>0, <2>1, SMT
      <3> QED BY <3>1 DEF Covers
    <2>2. ASSUME NEW s \in Held, IsFirst(buf[s]), buf[s] < x, x < buf[s] + Span PROVE Covers(q, x)'
      <3>1. CASE s \in Held'
        BY <2>2, <3>1 DEF Covers
      <3>2. CASE buf[s] = k
        <4>1. x < q + Span
          BY <1>0, <2>2, <3>2, SMT
        <4> QED BY <4>1 DEF Covers
      <3> QED BY <3>1, <3>2
    <2> QED BY <1>1, <2>1, <2>2 DEF Covers
  <1>2. (\A j \in net : Covers(q, j))'
    BY <1>1 DEF Reach
  <1>3. (\A s \in Held : Covers(q, buf[s]))'
    <2> SUFFICES ASSUME NEW s \in Held' PROVE Covers(q, buf[s])'
      OBVIOUS
    <2>1. PICK x : x = buf[s]
      OBVIOUS
    <2>2. Covers(q, x)'
      BY <1>1, <2>1 DEF Reach
    <2> QED BY <2>1, <2>2 DEF Covers
  <1>4. began' <= q \/ \E s \in Held' : buf'[s] = began' /\ IsFirst(began')
    <2>1. CASE began' = began /\ began <= p
      BY <2>1, SMT
    <2>2. ASSUME began' = began, NEW s \in Held, buf[s] = began, IsFirst(began)
          PROVE  began' <= q \/ \E r \in Held' : buf'[r] = began' /\ IsFirst(began')
      BY <2>2
    <2>3. CASE began' = k /\ IsFirst(k)
      BY <2>3
    <2> QED BY <2>1, <2>2, <2>3 DEF Reach
  <1>5. ASSUME NEW j \in repeats', j < k + 1, IsFirst(j) PROVE j <= q
    <2>1. CASE j < w /\ j \in repeats
      <3>1. j <= p /\ j \in Nat
        BY <1>5, <2>1 DEF Reach
      <3> QED BY <3>1, SMT
    <2>2. CASE j >= k
      <3>1. j = k /\ j \in Nat
        BY <1>5, <2>2, SMT
      <3> QED BY <1>5, <3>1
    <2> QED BY <1>5, <2>1, <2>2
  <1> QED BY <1>2, <1>3, <1>4, <1>5 DEF Reach

(* What the camera sends is behind the beginning of a frame that arrived.  *)
LEMMA ReachNetwork ==
    ASSUME OnTheWay, NEW w \in Nat, Waiting(w), NEW p \in Nat, Reach(w, p),
           Network, UNCHANGED reorderVars
    PROVE  Reach(w, p)'
  <1>1. began' = began /\ buf' = buf /\ Held' = Held /\ repeats' = repeats
    BY DEF Network, Send, Lose, reorderVars, Held
  <1>2. \A x : Covers(p, x) => Covers(p, x)'
    BY <1>1 DEF Covers
  <1>3. \A k \in net' : k \in net \/ (k = next /\ next < began + Span)
    BY DEF Network, Send, Lose
  <1>4. next < began + Span => Covers(p, next)
    <2> SUFFICES ASSUME next < began + Span PROVE Covers(p, next)
      OBVIOUS
    <2>0. next \in Nat /\ began \in Nat /\ Span \in Nat /\ came \in 0..next
      BY Constants, SMT DEF OnTheWay
    <2>1. CASE began <= p
      BY <2>0, <2>1, SMT DEF Covers
    <2>2. ASSUME NEW s \in Held, buf[s] = began, IsFirst(began) PROVE Covers(p, next)
      <3>1. buf[s] \in 0..(came - 1)
        BY DEF Waiting, Buffered
      <3>2. buf[s] < next
        BY <2>0, <3>1, SMT
      <3> QED BY <2>2, <3>2 DEF Covers
    <2> QED BY <2>1, <2>2 DEF Reach
  <1>5. (\A k \in net : Covers(p, k))'
    <2> SUFFICES ASSUME NEW k \in net' PROVE Covers(p, k)'
      OBVIOUS
    <2> QED BY <1>2, <1>3, <1>4 DEF Reach
  <1>6. (\A s \in Held : Covers(p, buf[s]))'
    <2> SUFFICES ASSUME NEW s \in Held' PROVE Covers(p, buf[s])'
      OBVIOUS
    <2>1. Covers(p, buf[s])
      BY <1>1 DEF Reach
    <2> QED BY <1>1, <2>1 DEF Covers
  <1> QED BY <1>1, <1>5, <1>6 DEF Reach

LEMMA AppendOut ==
    ASSUME NEW T, NEW s \in Seq(T), NEW x \in T
    PROVE  /\ Append(s, x) \in Seq(T) /\ Len(s) \in Nat /\ DOMAIN s = 1..Len(s)
           /\ Len(s) + 1 \in DOMAIN Append(s, x) /\ Append(s, x)[Len(s) + 1] = x
           /\ \A i \in DOMAIN s : i \in DOMAIN Append(s, x) /\ Append(s, x)[i] = s[i]
           /\ \A i \in DOMAIN Append(s, x) : i \in DOMAIN s \/ i = Len(s) + 1
  <1>1. Len(s) \in Nat /\ DOMAIN s = 1..Len(s)
    BY LenProperties
  <1>2. /\ Append(s, x) \in Seq(T) /\ Len(Append(s, x)) = Len(s) + 1
        /\ \A i \in 1..Len(s) : Append(s, x)[i] = s[i]
        /\ Append(s, x)[Len(s) + 1] = x
    BY AppendProperties
  <1>3. DOMAIN Append(s, x) = 1..(Len(s) + 1)
    BY <1>2, LenProperties
  <1>4. Len(s) + 1 \in 1..(Len(s) + 1) /\ \A i \in 1..(Len(s) + 1) : i \in 1..Len(s) \/ i = Len(s) + 1
    BY <1>1, SMT
  <1>5. \A i \in 1..Len(s) : i \in 1..(Len(s) + 1)
    BY <1>1, SMT
  <1> QED BY <1>1, <1>2, <1>3, <1>4, <1>5

(* A frame that goes out is whole, and behind the ones before it.          *)
LEMMA GoesOut ==
    ASSUME out \in Seq(Seq(Nat)), NEW f \in Frames, out' = Append(out, Whole(f))
    PROVE  /\ WholeOut => WholeOut'
           /\ Before(First[f]) /\ InOrder => InOrder'
           /\ \A x \in Nat : First[f] < x /\ Before(x) => Before(x)'
           /\ \A i \in DOMAIN out : \E j \in DOMAIN out' : out'[j] = out[i]
           /\ \E j \in DOMAIN out' : out'[j] = Whole(f)
  <1>1. Whole(f) \in Seq(Nat) /\ Whole(f)[1] = First[f]
    BY Layout, PartNext DEF Whole
  <1>2. PICK n : n = Len(out) + 1
    OBVIOUS
  <1>3. /\ out' \in Seq(Seq(Nat)) /\ n \in DOMAIN out' /\ out'[n] = Whole(f)
        /\ \A i \in DOMAIN out : i \in DOMAIN out' /\ out'[i] = out[i] /\ i \in Nat /\ i < n
        /\ \A i \in DOMAIN out' : i \in DOMAIN out \/ i = n
    <2>1. out \in Seq(Seq(Nat)) /\ Len(out) \in Nat /\ DOMAIN out = 1..Len(out)
      BY LenProperties
    <2>2. \A i \in 1..Len(out) : i \in Nat /\ i < n
      BY <1>2, <2>1, SMT
    <2>3. /\ out' \in Seq(Seq(Nat)) /\ n \in DOMAIN out' /\ out'[n] = Whole(f)
          /\ \A i \in DOMAIN out : i \in DOMAIN out' /\ out'[i] = out[i]
          /\ \A i \in DOMAIN out' : i \in DOMAIN out \/ i = n
      BY <1>1, <1>2, <2>1, AppendOut
    <2> QED BY <2>1, <2>2, <2>3
  <1>4. WholeOut => WholeOut'
    BY <1>3 DEF WholeOut
  <1>5. ASSUME Before(First[f]), InOrder PROVE InOrder'
    <2> SUFFICES ASSUME NEW i \in DOMAIN out', NEW j \in DOMAIN out', i < j
                 PROVE  out'[i][1] < out'[j][1]
      BY DEF InOrder
    <2>1. CASE i \in DOMAIN out /\ j \in DOMAIN out
      BY <1>3, <1>5, <2>1 DEF InOrder
    <2>2. CASE i \in DOMAIN out /\ j = n
      BY <1>1, <1>3, <1>5, <2>2 DEF Before
    <2>3. CASE i = n
      <3>1. n \in Nat /\ ~(n < n)
        <4>1. Len(out) \in Nat
          BY LenProperties
        <4> QED BY <1>2, <4>1, SMT
      <3>2. j \in DOMAIN out => j \in Nat /\ j < n
        BY <1>3
      <3> QED BY <1>3, <2>3, <3>1, <3>2, SMT
    <2> QED BY <1>3, <2>1, <2>2, <2>3
  <1>6. ASSUME NEW x \in Nat, First[f] < x, Before(x) PROVE Before(x)'
    BY <1>1, <1>3, <1>6 DEF Before
  <1> QED BY <1>3, <1>4, <1>5, <1>6

(* Numbers tell whether a packet follows.                                  *)
LEMMA FollowsIs ==
    ASSUME NEW w \in Nat, NEW p \in Nat, Assembled25(w, p),
           NEW k \in Nat, w <= k, k < Packets, k < p + Span, ~IsFirst(k), Follows25(k)
    PROVE  \E f \in Frames : \E c \in 1..(Chunks[f] - 1) :
            waitData = Part(f, c) /\ p = First[f] + c /\ Before(First[f]) /\ k = p
  <1>1. p <= w /\ waitCSeq = SeqNo(p) /\ Span <= SeqSpace /\ Span \in Nat /\ SeqSpace \in Nat
    BY Constants, SMT DEF Assembled25
  <1>2. p = k
    <2>1. SeqNo(k) = SeqNo(p)
      BY <1>1 DEF Follows25
    <2>2. p <= k /\ k < p + SeqSpace /\ p <= p /\ p < p + SeqSpace
      BY <1>1, Constants, SMT
    <2> QED BY <2>1, <2>2, SeqSame
  <1>3. ~(p < w)
    BY <1>2, SMT
  <1>4. p # 0
    <2> SUFFICES ASSUME k = 0 PROVE FALSE
      BY <1>2
    <2>1. /\ FrameOf(k) \in Frames /\ ChunkOf(k) \in 0..(Chunks[FrameOf(k)] - 1)
          /\ k = First[FrameOf(k)] + ChunkOf(k)
      BY HasFrame
    <2>2. First[FrameOf(k)] \in Nat /\ Chunks[FrameOf(k)] \in Nat
      BY <2>1, Layout
    <2>3. ChunkOf(k) = 0
      BY <2>1, <2>2, SMT
    <2> QED BY <2>3 DEF IsFirst
  <1> QED BY <1>2, <1>3, <1>4 DEF Assembled25

LEMMA Assemble25 ==
    ASSUME NEW w \in Nat, NEW p \in Nat, Assembled25(w, p), InOrder, WholeOut,
           NEW k \in Nat, w <= k, k < Packets, k < p + Span, HandleChunk(k)
    PROVE  /\ InOrder' /\ WholeOut'
           /\ \E q \in Nat : p <= q /\ (IsFirst(k) => k <= q) /\ Assembled25(k + 1, q)'
  <1>1. p <= w /\ waitCSeq = SeqNo(p) /\ Before(w) /\ p \in 0..(k + 1) /\ p < k + 1
    BY SMT DEF Assembled25
  <1>2. ASSUME NEW x \in Nat, NEW y \in Nat, x <= y, Before(x) PROVE Before(y)
    <2>1. \A i \in DOMAIN out : out[i][1] \in Nat
      <3> SUFFICES ASSUME NEW i \in DOMAIN out PROVE out[i][1] \in Nat
        OBVIOUS
      <3>1. PICK f \in Frames : out[i] = Whole(f)
        BY DEF WholeOut
      <3> QED BY <3>1, WholeOf, Layout
    <2> QED BY <1>2, <2>1, SMT DEF Before
  <1>3. k + 1 \in Nat /\ w <= k + 1 /\ k + 1 \in 0..(k + 1) /\ k \in 0..(k + 1) /\ k < k + 1
    BY SMT
  <1>4. CASE Lost25(k)
    <2>1. ~IsFirst(k) /\ UNCHANGED <<waitData, waitCSeq, out>>
      BY <1>4 DEF Lost25
    <2>2. Before(k + 1)
      BY <1>1, <1>2, <1>3
    <2>3. Assembled25(k + 1, p)'
      BY <1>1, <2>1, <2>2 DEF Assembled25, Before
    <2>4. InOrder' /\ WholeOut'
      BY <2>1 DEF InOrder, WholeOut
    <2> QED BY <2>1, <2>3, <2>4, SMT
  <1>5. CASE ~Lost25(k)
    <2>0. PICK f \in Frames : \E c \in 0..(Chunks[f] - 1) :
            /\ k = First[f] + c /\ Data(k) = Part(f, c + 1) /\ Before(First[f])
            /\ Start(k) = SeqNo(k)
      <3>1. CASE IsFirst(k)
        <4>1. /\ FrameOf(k) \in Frames /\ ChunkOf(k) \in 0..(Chunks[FrameOf(k)] - 1)
              /\ k = First[FrameOf(k)] + ChunkOf(k) /\ ChunkOf(k) = 0
          BY <3>1, HasFrame DEF IsFirst
        <4>6. First[FrameOf(k)] \in Nat
          BY <4>1, Layout
        <4>2. k = First[FrameOf(k)] /\ First[FrameOf(k)] \in Nat
          BY <4>1, <4>6, SMT
        <4>3. Data(k) = Part(FrameOf(k), 0 + 1)
          BY <3>1, <4>1, <4>2, PartOne DEF Data
        <4>4. Before(First[FrameOf(k)])
          BY <1>1, <1>2, <4>2
        <4>5. Start(k) = SeqNo(k)
          BY <3>1 DEF Start
        <4> QED BY <4>1, <4>3, <4>4, <4>5
      <3>2. CASE ~IsFirst(k)
        <4>1. Follows25(k)
          BY <1>5, <3>2 DEF HandleChunk, Middle25, Complete25
        <4>0. PICK f \in Frames : \E c \in 1..(Chunks[f] - 1) :
                waitData = Part(f, c) /\ p = First[f] + c /\ Before(First[f]) /\ k = p
          BY <3>2, <4>1, FollowsIs
        <4>2. PICK c \in 1..(Chunks[f] - 1) :
                waitData = Part(f, c) /\ p = First[f] + c /\ Before(First[f]) /\ k = p
          BY <4>0
        <4>3. c \in 0..(Chunks[f] - 1) /\ c \in Nat \ {0}
          BY Layout, SMT
        <4>4. Data(k) = Part(f, c + 1)
          BY <3>2, <4>2, <4>3, PartNext DEF Data
        <4>5. Start(k) = SeqNo(k)
          BY <1>1, <3>2, <4>2 DEF Start
        <4> QED BY <4>2, <4>3, <4>4, <4>5
      <3> QED BY <3>1, <3>2
    <2>1. PICK c \in 0..(Chunks[f] - 1) :
            /\ k = First[f] + c /\ Data(k) = Part(f, c + 1) /\ Before(First[f])
            /\ Start(k) = SeqNo(k)
      BY <2>0
    <2>2. /\ First[f] \in Nat /\ Chunks[f] \in Nat /\ c \in Nat /\ c + 1 \in Nat
          /\ c < Chunks[f] /\ First[f] < k + 1
      <3>1. First[f] \in Nat /\ Chunks[f] \in Nat
        BY Layout
      <3> QED BY <2>1, <3>1, SMT
    <2>3. IsLast(k) <=> c + 1 = Chunks[f]
      BY <2>1, PacketOf
    <2>4. CASE Middle25(k)
      <3>1. ~IsLast(k) /\ waitData' = Part(f, c + 1) /\ waitCSeq' = After(SeqNo(k)) /\ out' = out
        BY <2>1, <2>4 DEF Middle25
      <3>2. waitCSeq' = SeqNo(k + 1)
        BY <3>1, SeqNext
      <3>3. c + 1 \in 1..(Chunks[f] - 1) /\ k + 1 = First[f] + (c + 1)
        BY <2>1, <2>2, <2>3, <3>1, SMT
      <3>4. Before(k + 1)' /\ Before(First[f])'
        BY <1>1, <1>2, <1>3, <2>1, <3>1 DEF Before
      <3>5. Assembled25(k + 1, k + 1)'
        <4>1. \E g \in Frames : \E d \in 1..(Chunks[g] - 1) :
                waitData' = Part(g, d) /\ k + 1 = First[g] + d /\ Before(First[g])'
          BY <3>1, <3>3, <3>4
        <4> QED BY <1>3, <3>2, <3>4, <4>1 DEF Assembled25
      <3>6. InOrder' /\ WholeOut'
        BY <3>1 DEF InOrder, WholeOut
      <3> QED BY <1>1, <1>3, <3>5, <3>6, SMT
    <2>5. CASE Complete25(k)
      <3>1. /\ IsLast(k) /\ waitCSeq' = SeqNo(k)
            /\ out' = out \/ out' = Append(out, Part(f, c + 1))
        BY <2>1, <2>5 DEF Complete25
      <3>2. Part(f, c + 1) = Whole(f)
        BY <2>3, <3>1 DEF Whole
      <3>3. Before(k + 1)
        BY <1>1, <1>2, <1>3
      <3>4. InOrder' /\ WholeOut' /\ Before(k + 1)'
        <4>1. CASE out' = out
          BY <3>3, <4>1 DEF InOrder, WholeOut, Before
        <4>2. CASE out' = Append(out, Whole(f))
          BY <1>3, <2>1, <2>2, <3>3, <4>2, GoesOut DEF WholeOut
        <4> QED BY <3>1, <3>2, <4>1, <4>2
      <3>5. Assembled25(k + 1, k)'
        BY <1>3, <3>1, <3>4 DEF Assembled25
      <3> QED BY <1>1, <3>4, <3>5, SMT
    <2> QED BY <1>5, <2>4, <2>5 DEF HandleChunk
  <1> QED BY <1>4, <1>5

LEMMA Arrive25 ==
    ASSUME Arriving25, out \in Seq(Seq(Nat)), waitData \in Seq(Nat), taken \in Seq(Nat),
           full \in BOOLEAN, NEW k \in Nat, taken' = Lately(taken, k), HandleChunk(k)
    PROVE  /\ Arriving25' /\ full' \in BOOLEAN /\ taken' \in Seq(Nat)
           /\ out' \in Seq(Seq(Nat)) /\ waitData' \in Seq(Nat)
  <1>1. full' \in BOOLEAN /\ (full => full')
    BY DEF HandleChunk, Lost25, Middle25, Complete25
  <1>8. taken' \in Seq(Nat)
    BY LatelyEnds
  <1>9. Data(k) \in Seq(Nat)
    <2>1. <<k>> \in Seq(Nat)
      BY SMT
    <2>2. Append(waitData, k) \in Seq(Nat)
      BY AppendProperties
    <2> QED BY <2>1, <2>2 DEF Data
  <1>10. waitData' \in Seq(Nat)
    BY <1>9 DEF HandleChunk, Lost25, Middle25, Complete25
  <1>11. out' \in Seq(Seq(Nat))
    <2>1. Append(out, Data(k)) \in Seq(Seq(Nat))
      BY <1>9, AppendProperties
    <2> QED BY <2>1 DEF HandleChunk, Lost25, Middle25, Complete25
  <1> SUFFICES ASSUME NEW f \in Frames, NEW c \in 1..Chunks[f], EndsWith(taken', Part(f, c))
               PROVE  IF c < Chunks[f] THEN waitCSeq' = SeqNo(First[f] + c) /\ waitData' = Part(f, c)
                      ELSE full' \/ \E i \in DOMAIN out' : out'[i] = Whole(f)
    BY <1>1, <1>8, <1>10, <1>11 DEF Arriving25
  <1>2. /\ k = First[f] + (c - 1) /\ c - 1 \in 0..(Chunks[f] - 1)
        /\ c # 1 => c - 1 \in 1..Chunks[f] /\ EndsWith(taken, Part(f, c - 1))
    BY EndsStep
  <1>3. First[f] \in Nat /\ Chunks[f] \in Nat /\ c \in Nat \ {0} /\ c <= Chunks[f] /\ (c - 1) + 1 = c
    BY Layout, SMT
  <1>4. (IsFirst(k) <=> c - 1 = 0) /\ (IsLast(k) <=> c = Chunks[f])
    BY <1>2, <1>3, PacketOf
  <1>5. ~Lost25(k) /\ Data(k) = Part(f, c) /\ Start(k) = SeqNo(k)
    <2>1. CASE c = 1
      <3>2. c - 1 = 0 /\ First[f] + (c - 1) = First[f]
        BY <1>3, <2>1, SMT
      <3>1. IsFirst(k) /\ k = First[f]
        BY <1>2, <1>4, <3>2
      <3> QED BY <2>1, <3>1, PartOne DEF Lost25, Data, Start
    <2>2. CASE c # 1
      <3>1. c - 1 \in 1..Chunks[f] /\ c - 1 < Chunks[f] /\ c - 1 \in Nat \ {0} /\ c - 1 # 0
        BY <1>2, <1>3, <2>2, SMT
      <3>2. waitCSeq = SeqNo(First[f] + (c - 1)) /\ waitData = Part(f, c - 1)
        BY <1>2, <2>2, <3>1 DEF Arriving25
      <3>3. ~IsFirst(k) /\ Follows25(k)
        BY <1>2, <1>4, <3>1, <3>2 DEF Follows25
      <3>4. Append(Part(f, c - 1), First[f] + (c - 1)) = Part(f, (c - 1) + 1)
        BY <3>1, PartNext
      <3> QED BY <1>2, <1>3, <3>2, <3>3, <3>4 DEF Lost25, Data, Start, Follows25
    <2> QED BY <2>1, <2>2
  <1>6. CASE Middle25(k)
    <2>1. waitData' = Part(f, c) /\ waitCSeq' = After(SeqNo(k)) /\ ~IsLast(k)
      BY <1>5, <1>6 DEF Middle25
    <2>2. waitCSeq' = SeqNo(k + 1)
      BY <2>1, SeqNext
    <2>4. c # Chunks[f]
      BY <1>4, <2>1
    <2>3. k + 1 = First[f] + c /\ c < Chunks[f]
      BY <1>2, <1>3, <2>4, SMT
    <2> QED BY <2>1, <2>2, <2>3
  <1>7. CASE Complete25(k)
    <2>3. c = Chunks[f]
      BY <1>4, <1>7 DEF Complete25
    <2>1. c = Chunks[f] /\ ~(c < Chunks[f]) /\ Part(f, c) = Whole(f)
      BY <1>3, <2>3, SMT DEF Whole
    <2>2. full' \/ out' = Append(out, Whole(f))
      BY <1>5, <1>7, <2>1 DEF Complete25
    <2> QED BY <2>1, <2>2, GoesOut
  <1> QED BY <1>5, <1>6, <1>7 DEF HandleChunk

-----------------------------------------------------------------------------
(* Frames of protocol 16.                                                  *)

Holds16(f, c) ==
    /\ waitFSeq = f % FrameSpace /\ waitCSeq = c
    /\ waitSize = Chunks[f] /\ waitData = Part(f, c)

(* A frame is being put together only while its last packet is the one     *)
(* that came last, so that little more has come since.                     *)
Assembled16 ==
    \/ waitCSeq = 0
    \/ \E f \in Frames : \E c \in 1..(Chunks[f] - 1) :
        /\ Holds16(f, c)
        /\ came <= First[f] + (c - 1) + Late /\ First[f] + (c - 1) < came

Arriving16 ==
    \A f \in Frames : \A c \in 1..Chunks[f] :
        EndsWith(taken, Part(f, c)) =>
            IF c < Chunks[f] THEN Holds16(f, c)
                             ELSE full \/ \E i \in DOMAIN out : out[i] = Whole(f)

HandleChunk16(k) == ChunkLost(k) \/ ChunkMiddle(k) \/ ChunkLast(k)

(* Two frames with the same number are not near each other.                *)
LEMMA SameNumber ==
    ASSUME NEW f \in Nat, NEW g \in Nat, f < g, f % FrameSpace = g % FrameSpace
    PROVE  g - f >= FrameSpace
  <1>1. CASE FrameSpace = 3
    BY <1>1, SMT
  <1>2. CASE FrameSpace = 65536
    BY <1>2, SMTT(30)
  <1> QED BY <1>1, <1>2, FrameSpaceAssumption

LEMMA FollowsFrame ==
    ASSUME OnTheWay, NEW k \in net,
           NEW f \in Frames, NEW c \in 1..(Chunks[f] - 1), Holds16(f, c),
           came <= First[f] + (c - 1) + Late, First[f] + (c - 1) < came, Follows(k)
    PROVE  k = First[f] + c
  <1>1. /\ k \in Nat /\ k < came + Gap /\ came <= k + Late /\ k < Packets
        /\ Gap \in Nat /\ Late \in Nat /\ came \in Nat
    <2>1. k \in 0..(next - 1) /\ next <= k + Late /\ next <= came + Gap /\ came \in 0..next
          /\ next \in Nat /\ next <= Packets /\ Packets \in Nat
      BY Layout DEF OnTheWay
    <2> QED BY <2>1, Constants, SMT
  <1>2. PICK g : g = FrameOf(k)
    OBVIOUS
  <1>3. g \in Frames /\ c \in 0..(Chunks[g] - 1) /\ k = First[g] + c /\ g % FrameSpace = f % FrameSpace
    <2>1. ChunkOf(k) = c
      BY DEF Follows, Holds16
    <2> QED BY <1>1, <1>2, <2>1, HasFrame DEF Follows, FSeq, Holds16
  <1>4. /\ f \in Nat /\ g \in Nat /\ First[f] \in Nat /\ First[g] \in Nat
        /\ Chunks[f] \in Nat /\ Chunks[g] \in Nat
    BY <1>3, Layout
  <1>5. /\ c \in Nat /\ c >= 1 /\ c + 1 <= Chunks[f] /\ c + 1 <= Chunks[g]
    BY <1>3, <1>4, SMT
  <1>6. /\ FrameSpace \in Nat /\ Late <= FrameSpace /\ Late + Gap <= FrameSpace + 2
    BY FrameSpaceAssumption, FrameReachAssumption, SMT
  <1>7. CASE f < g
    <2>1. g - f >= FrameSpace
      BY <1>3, <1>4, <1>7, SameNumber
    <2>2. First[f] + Chunks[f] + (g - f) <= First[g] + 1
      BY <1>3, <1>7, FramesApart
    <2>3. FALSE
      BY <1>1, <1>3, <1>4, <1>5, <1>6, <2>1, <2>2, SMT
    <2> QED BY <2>3
  <1>8. CASE g < f
    <2>1. f - g >= FrameSpace
      BY <1>3, <1>4, <1>8, SameNumber
    <2>2. First[g] + Chunks[g] + (f - g) <= First[f] + 1
      BY <1>3, <1>8, FramesApart
    <2>3. FALSE
      BY <1>1, <1>3, <1>4, <1>5, <1>6, <2>1, <2>2, SMT
    <2> QED BY <2>3
  <1>9. f = g \/ f < g \/ g < f
    BY <1>4, SMT
  <1>10. CASE f = g
    BY <1>3, <1>10
  <1> QED BY <1>7, <1>8, <1>9, <1>10

LEMMA Assemble16 ==
    ASSUME OnTheWay, Assembled16, WholeOut, NEW k \in net, HandleChunk16(k),
           came' = (IF k < came THEN came ELSE k + 1)
    PROVE  Assembled16' /\ WholeOut'
  <1>1. k \in Nat /\ k < Packets /\ came' <= k + Late /\ k < came' /\ came' \in Nat
    <2>1. /\ k \in 0..(next - 1) /\ next <= k + Late /\ came \in 0..next
          /\ next \in Nat /\ next <= Packets /\ Packets \in Nat /\ Late \in Nat
      BY Layout, Constants DEF OnTheWay
    <2> QED BY <2>1, SMT
  <1>2. CASE ChunkLost(k)
    BY <1>2 DEF ChunkLost, Assembled16, WholeOut
  <1>3. CASE Begin(k) /\ (ChunkMiddle(k) \/ ChunkLast(k))
    <2>0. PICK f \in Frames : \E c \in 0..(Chunks[f] - 1) :
            /\ k = First[f] + c /\ Data(k) = Part(f, c + 1) /\ Size(k) = Chunks[f]
            /\ waitFSeq' = f % FrameSpace
            /\ (IF IsFirst(k) THEN 1 ELSE waitCSeq + 1) = c + 1
      <3>1. CASE IsFirst(k)
        <4>1. /\ FrameOf(k) \in Frames /\ ChunkOf(k) \in 0..(Chunks[FrameOf(k)] - 1)
              /\ k = First[FrameOf(k)] + ChunkOf(k) /\ ChunkOf(k) = 0
          BY <1>1, <3>1, HasFrame DEF IsFirst
        <4>2. First[FrameOf(k)] \in Nat
          BY <4>1, Layout
        <4>3. k = First[FrameOf(k)]
          BY <4>1, <4>2, SMT
        <4>4. Data(k) = Part(FrameOf(k), 0 + 1)
          BY <3>1, <4>3, <4>1, PartOne DEF Data
        <4>5. Size(k) = Chunks[FrameOf(k)] /\ waitFSeq' = FrameOf(k) % FrameSpace
          BY <1>3, <3>1 DEF Size, Begin, FSeq
        <4> QED BY <3>1, <4>1, <4>4, <4>5
      <3>2. CASE ~IsFirst(k)
        <4>1. Follows(k)
          BY <1>3, <3>2 DEF Begin
        <4>2. waitCSeq # 0
          BY <3>2, <4>1 DEF Follows, IsFirst
        <4>3. PICK f \in Frames : \E c \in 1..(Chunks[f] - 1) :
                /\ Holds16(f, c)
                /\ came <= First[f] + (c - 1) + Late /\ First[f] + (c - 1) < came
          BY <4>2 DEF Assembled16
        <4>4. PICK c \in 1..(Chunks[f] - 1) :
                /\ Holds16(f, c)
                /\ came <= First[f] + (c - 1) + Late /\ First[f] + (c - 1) < came
          BY <4>3
        <4>5. k = First[f] + c
          BY <4>1, <4>4, FollowsFrame
        <4>6. c \in 0..(Chunks[f] - 1) /\ c \in Nat \ {0}
          BY Layout, SMT
        <4>7. Data(k) = Part(f, c + 1)
          BY <3>2, <4>4, <4>5, <4>6, PartNext DEF Data, Holds16
        <4>8. Size(k) = Chunks[f] /\ waitFSeq' = f % FrameSpace /\ waitCSeq = c
          BY <1>3, <3>2, <4>4 DEF Size, Begin, Holds16
        <4> QED BY <3>2, <4>5, <4>6, <4>7, <4>8
      <3> QED BY <3>1, <3>2
    <2>1. PICK c \in 0..(Chunks[f] - 1) :
            /\ k = First[f] + c /\ Data(k) = Part(f, c + 1) /\ Size(k) = Chunks[f]
            /\ waitFSeq' = f % FrameSpace
            /\ (IF IsFirst(k) THEN 1 ELSE waitCSeq + 1) = c + 1
      BY <2>0
    <2>2. /\ First[f] \in Nat /\ Chunks[f] \in Nat /\ c \in Nat /\ c + 1 \in Nat \ {0}
          /\ c < Chunks[f] /\ (c + 1) - 1 = c
      <3>1. First[f] \in Nat /\ Chunks[f] \in Nat
        BY Layout
      <3> QED BY <2>1, <3>1, SMT
    <2>3. Len(Data(k)) = c + 1
      BY <2>1, <2>2, PartNext
    <2>4. waitData' = Part(f, c + 1) /\ waitSize' = Chunks[f]
      BY <1>3, <2>1 DEF Begin
    <2>5. CASE ChunkMiddle(k)
      <3>1. c + 1 < Chunks[f] /\ waitCSeq' = c + 1 /\ out' = out
        BY <2>1, <2>3, <2>5 DEF ChunkMiddle
      <3>2. c + 1 \in 1..(Chunks[f] - 1)
        BY <2>2, <3>1, SMT
      <3>3. Holds16(f, c + 1)'
        BY <2>1, <2>4, <3>1 DEF Holds16
      <3>4. came' <= First[f] + ((c + 1) - 1) + Late /\ First[f] + ((c + 1) - 1) < came'
        BY <1>1, <2>1, <2>2
      <3> QED BY <3>1, <3>2, <3>3, <3>4 DEF Assembled16, WholeOut
    <2>6. CASE ChunkLast(k)
      <3>1. Len(Data(k)) >= Size(k) /\ waitCSeq' = 0 /\ (out' = out \/ out' = Append(out, Data(k)))
        BY <2>6 DEF ChunkLast
      <3>2. c + 1 = Chunks[f]
        BY <2>1, <2>2, <2>3, <3>1, SMT
      <3>3. Data(k) = Whole(f)
        BY <2>1, <3>2 DEF Whole
      <3>4. CASE out' = out
        BY <3>1, <3>4 DEF Assembled16, WholeOut
      <3>5. CASE out' = Append(out, Whole(f))
        BY <3>1, <3>5, GoesOut DEF Assembled16, WholeOut
      <3> QED BY <3>1, <3>3, <3>4, <3>5
    <2> QED BY <1>3, <2>5, <2>6
  <1> QED BY <1>2, <1>3 DEF HandleChunk16, ChunkMiddle, ChunkLast

LEMMA Arrive16 ==
    ASSUME Arriving16, WholeOut, taken \in Seq(Nat),
           NEW k \in Nat, taken' = Lately(taken, k), HandleChunk16(k)
    PROVE  Arriving16'
  <1>1. full => full'
    BY DEF HandleChunk16, ChunkLost, ChunkMiddle, ChunkLast, Gives
  <1> SUFFICES ASSUME NEW f \in Frames, NEW c \in 1..Chunks[f], EndsWith(taken', Part(f, c))
               PROVE  IF c < Chunks[f] THEN Holds16(f, c)'
                      ELSE full' \/ \E i \in DOMAIN out' : out'[i] = Whole(f)
    BY DEF Arriving16
  <1>2. /\ k = First[f] + (c - 1) /\ c - 1 \in 0..(Chunks[f] - 1)
        /\ c # 1 => c - 1 \in 1..Chunks[f] /\ EndsWith(taken, Part(f, c - 1))
    BY EndsStep
  <1>3. First[f] \in Nat /\ Chunks[f] \in Nat /\ c \in Nat \ {0} /\ c <= Chunks[f] /\ (c - 1) + 1 = c
    BY Layout, SMT
  <1>4. (IsFirst(k) <=> c - 1 = 0) /\ FrameOf(k) = f /\ ChunkOf(k) = c - 1
    BY <1>2, <1>3, PacketOf
  <1>5. /\ ~ChunkLost(k) /\ Data(k) = Part(f, c) /\ Size(k) = Chunks[f]
        /\ (IF IsFirst(k) THEN 1 ELSE waitCSeq + 1) = c
        /\ (IF IsFirst(k) THEN FSeq(k) ELSE waitFSeq) = f % FrameSpace
    <2>1. CASE c = 1
      <3>2. c - 1 = 0 /\ First[f] + (c - 1) = First[f]
        BY <1>3, <2>1, SMT
      <3>1. IsFirst(k) /\ k = First[f]
        BY <1>2, <1>4, <3>2
      <3> QED BY <1>4, <2>1, <3>1, PartOne DEF ChunkLost, Data, Size, FSeq
    <2>2. CASE c # 1
      <3>1. c - 1 \in 1..Chunks[f] /\ c - 1 < Chunks[f] /\ c - 1 \in Nat \ {0} /\ c - 1 # 0
        BY <1>2, <1>3, <2>2, SMT
      <3>2. Holds16(f, c - 1)
        BY <1>2, <2>2, <3>1 DEF Arriving16
      <3>3. ~IsFirst(k) /\ Follows(k)
        BY <1>4, <3>1, <3>2 DEF Follows, FSeq, Holds16
      <3>4. Append(Part(f, c - 1), First[f] + (c - 1)) = Part(f, (c - 1) + 1)
        BY <3>1, PartNext
      <3>5. Data(k) = Part(f, c) /\ Size(k) = Chunks[f] /\ waitCSeq = c - 1 /\ waitFSeq = f % FrameSpace
        BY <1>2, <1>3, <3>2, <3>3, <3>4 DEF Data, Size, Holds16
      <3> QED BY <1>3, <3>3, <3>5 DEF ChunkLost
    <2> QED BY <2>1, <2>2
  <1>6. Len(Data(k)) = c
    BY <1>3, <1>5, PartNext
  <1>7. CASE ChunkMiddle(k)
    <2>1. c < Chunks[f] /\ waitCSeq' = c /\ waitData' = Part(f, c) /\ waitSize' = Chunks[f]
      BY <1>5, <1>6, <1>7 DEF ChunkMiddle, Begin
    <2>2. waitFSeq' = f % FrameSpace
      BY <1>5, <1>7 DEF ChunkMiddle, Begin
    <2> QED BY <2>1, <2>2 DEF Holds16
  <1>8. CASE ChunkLast(k)
    <2>0. Len(Data(k)) >= Size(k)
      BY <1>8 DEF ChunkLast
    <2>1. c = Chunks[f] /\ ~(c < Chunks[f]) /\ Part(f, c) = Whole(f)
      BY <1>3, <1>5, <1>6, <2>0, SMT DEF Whole
    <2>2. full' \/ out' = Append(out, Whole(f))
      BY <1>5, <1>8, <2>1 DEF ChunkLast, Gives
    <2> QED BY <2>1, <2>2, GoesOut DEF WholeOut
  <1> QED BY <1>5, <1>7, <1>8 DEF HandleChunk16

-----------------------------------------------------------------------------
(* Frames over DTLS.                                                       *)

Times == [data : Seq(Nat), time : Int]

(* What of frame f is there after its first c packets.                     *)
Gathered(f, c) ==
    [frameNo |-> f, pktTotal |-> Chunks[f], waitSeq |-> c, waitData |-> Part(f, c),
     frameInfo |-> FALSE]

(* A channel puts together a frame whose beginning has come and will not   *)
(* come again.                                                             *)
AssembledAV ==
    /\ cs = [h \in AV!Channels |-> cs[h]]
    /\ \A h \in AV!Channels :
        \/ cs[h] = AV!Reset
        \/ \E f \in Frames : \E c \in 1..(Chunks[f] - 1) :
            /\ cs[h] = Gathered(f, c)
            /\ First[f] \notin net /\ First[f] < next

WholeGiven ==
    /\ given \in Seq(Times) /\ ended \in BOOLEAN
    /\ \A i \in DOMAIN given : \E f \in Frames : given[i].data = Whole(f)

ArrivingAV ==
    /\ seen \in [AV!Channels -> Seq(Nat)]
    /\ \A f \in Frames : \A c \in 1..Chunks[f] :
        EndsWith(seen[Channel[f]], Part(f, c)) =>
            IF c < Chunks[f] THEN cs[Channel[f]] = Gathered(f, c)
                             ELSE ended \/ \E i \in DOMAIN given : given[i].data = Whole(f)

(* The clock of both channels is that of the last frame that was given.    *)
Clocked ==
    /\ videoTS \in [firstTS : BOOLEAN, lastRawTS : Nat, accumUS : Int]
    /\ ~ended => (videoTS.firstTS <=> given # <<>>)
    /\ ~ended /\ given # <<>> =>
        /\ videoTS.lastRawTS = AV!Raw(FrameOf(given[Len(given)].data[1]))
        /\ videoTS.accumUS = given[Len(given)].time

LEMMA AVSame ==
    /\ \A k : /\ AV!FrameOf(k) = FrameOf(k) /\ AV!ChunkOf(k) = ChunkOf(k)
              /\ AV!IsFirst(k) = IsFirst(k) /\ AV!IsLast(k) = IsLast(k)
    /\ \A k : AV!Leaves(k) <=> Leaves(k)
    /\ \A s, k : AV!Lately(s, k) = Lately(s, k)
    /\ \A f \in Frames : Channel[f] \in AV!Channels
  <1>1. \A k : AV!FrameOf(k) = FrameOf(k)
    BY DEF AV!FrameOf, FrameOf, AV!Frames, Frames
  <1>2. \A k : AV!ChunkOf(k) = ChunkOf(k)
    BY <1>1 DEF AV!ChunkOf, ChunkOf
  <1>3. \A k : AV!IsFirst(k) = IsFirst(k) /\ AV!IsLast(k) = IsLast(k)
    BY <1>1, <1>2 DEF AV!IsFirst, IsFirst, AV!IsLast, IsLast
  <1>4. \A k : AV!Leaves(k) <=> Leaves(k)
    BY <1>3 DEF AV!Leaves, Leaves, AV!Arrives, Arrives
  <1>5. AV!Longest = Longest
    BY DEF AV!Longest, Longest, AV!Frames, Frames, AV!Max, Max
  <1>6. \A s, k : AV!Lately(s, k) = Lately(s, k)
    BY <1>5 DEF AV!Lately, Lately
  <1>7. \A f \in Frames : Channel[f] \in AV!Channels
    BY ChannelAssumption DEF AV!Channels, AV!ToSet
  <1> QED BY <1>1, <1>2, <1>3, <1>4, <1>6, <1>7

LEMMA PartNone == ASSUME NEW f PROVE Part(f, 0) = <<>>
  BY SMT DEF Part

(* A packet goes on with what its channel has of its frame.                *)
LEMMA TakesUp ==
    ASSUME OnTheWay, AssembledAV, NEW k \in net, NEW f, f = FrameOf(k)
    PROVE  /\ f \in Frames /\ Channel[f] \in AV!Channels /\ AV!ChannelOf(k) = Channel[f]
           /\ ChunkOf(k) \in 0..(Chunks[f] - 1) /\ k = First[f] + ChunkOf(k)
           /\ \E c \in 0..(Chunks[f] - 1) :
                /\ AV!StateFor(k) = Gathered(f, c)
                /\ c # 0 => First[f] \notin net /\ cs[Channel[f]] = Gathered(f, c)
                /\ \A d \in 1..(Chunks[f] - 1) : cs[Channel[f]] = Gathered(f, d) => d = c
                /\ k = First[f] => c = 0
  <1>1. k \in Nat /\ k < Packets
    <2>1. k \in 0..(next - 1) /\ next \in Nat /\ next <= Packets /\ Packets \in Nat
      BY Layout DEF OnTheWay
    <2> QED BY <2>1, SMT
  <1>2. /\ f \in Frames /\ Channel[f] \in AV!Channels /\ AV!ChannelOf(k) = Channel[f]
        /\ ChunkOf(k) \in 0..(Chunks[f] - 1) /\ k = First[f] + ChunkOf(k)
    BY <1>1, HasFrame, AVSame DEF AV!ChannelOf
  <1>3. f \in Nat \ {0} /\ Chunks[f] \in Nat \ {0} /\ 0 \in 0..(Chunks[f] - 1)
    <2>1. f \in Nat \ {0} /\ Chunks[f] \in Nat \ {0}
      BY <1>2, Layout
    <2> QED BY <2>1, SMT
  <1> DEFINE h == Channel[f]
  <1>4. AV!StateFor(k) = IF f # cs[h].frameNo THEN AV!Begun(f, Chunks[f]) ELSE cs[h]
    BY <1>2, AVSame DEF AV!StateFor
  <1>5. AV!Begun(f, Chunks[f]) = Gathered(f, 0)
    BY PartNone DEF AV!Begun, Gathered
  <1>6. AV!Reset.frameNo = 0 /\ \A g, c : Gathered(g, c).frameNo = g /\ Gathered(g, c).waitSeq = c
    BY DEF AV!Reset, AV!Begun, Gathered
  <1>7. CASE f # cs[h].frameNo
    <2>1. AV!StateFor(k) = Gathered(f, 0)
      BY <1>4, <1>5, <1>7
    <2>2. \A d : cs[h] # Gathered(f, d)
      BY <1>6, <1>7
    <2> QED BY <1>2, <1>3, <2>1, <2>2
  <1>8. CASE f = cs[h].frameNo
    <2>1. cs[h] # AV!Reset
      BY <1>3, <1>6, <1>8
    <2>2. PICK g \in Frames : \E c \in 1..(Chunks[g] - 1) :
            cs[h] = Gathered(g, c) /\ First[g] \notin net /\ First[g] < next
      BY <1>2, <2>1 DEF AssembledAV
    <2>3. PICK c \in 1..(Chunks[g] - 1) :
            cs[h] = Gathered(g, c) /\ First[g] \notin net /\ First[g] < next
      BY <2>2
    <2>4. g = f
      BY <1>6, <1>8, <2>3
    <2>5. c \in 0..(Chunks[f] - 1) /\ k # First[f]
      <3>1. c \in 0..(Chunks[f] - 1)
        BY <1>3, <2>4, SMT
      <3> QED BY <2>3, <2>4, <3>1
    <2>6. ASSUME NEW d, cs[h] = Gathered(f, d) PROVE d = c
      <3>1. cs[h].waitSeq = d
        BY <1>6, <2>6
      <3>2. cs[h].waitSeq = c
        BY <1>6, <2>3
      <3> QED BY <3>1, <3>2
    <2>7. AV!StateFor(k) = Gathered(f, c)
      BY <1>4, <1>8, <2>3, <2>4
    <2> QED BY <1>2, <2>3, <2>4, <2>5, <2>6, <2>7
  <1> QED BY <1>7, <1>8

(* The packet that follows makes the frame longer, and the last one whole. *)
LEMMA GoesOn ==
    ASSUME NEW f \in Frames, NEW c \in 0..(Chunks[f] - 1), NEW k, k = First[f] + c,
           AV!StateFor(k) = Gathered(f, c)
    PROVE  /\ AV!With(k).waitData = Part(f, c + 1)
           /\ AV!Ready(AV!With(k)) <=> c + 1 = Chunks[f]
           /\ c + 1 # Chunks[f] => AV!With(k) = Gathered(f, c + 1)
  <1>1. First[f] \in Nat /\ Chunks[f] \in Nat \ {0} /\ c \in Nat
    <2>1. First[f] \in Nat /\ Chunks[f] \in Nat \ {0}
      BY Layout
    <2> QED BY <2>1, SMT
  <1>2. IsLast(k) <=> c + 1 = Chunks[f]
    BY PacketOf
  <1>3. Append(Part(f, c), k) = Part(f, c + 1)
    <2>1. CASE c = 0
      <3>1. k = First[f] /\ c + 1 = 1
        BY <1>1, <2>1, SMT
      <3>2. Append(<<>>, First[f]) = <<First[f]>>
        BY <1>1, SMT
      <3> QED BY <2>1, <3>1, <3>2, PartNone, PartOne
    <2>2. CASE c # 0
      BY <1>1, <2>2, PartNext
    <2> QED BY <2>1, <2>2
  <1>4. AV!With(k) = [Gathered(f, c) EXCEPT !.waitData = Append(@, k), !.waitSeq = @ + 1,
                                            !.frameInfo = @ \/ IsLast(k)]
    BY AVSame DEF AV!With
  <1>5. AV!With(k) = [frameNo |-> f, pktTotal |-> Chunks[f], waitSeq |-> c + 1,
                      waitData |-> Part(f, c + 1), frameInfo |-> FALSE \/ IsLast(k)]
    BY <1>3, <1>4 DEF Gathered
  <1>6. /\ AV!With(k).waitData = Part(f, c + 1) /\ AV!With(k).waitSeq = c + 1
        /\ AV!With(k).pktTotal = Chunks[f] /\ AV!With(k).frameInfo = (FALSE \/ IsLast(k))
    BY <1>5
  <1>7. AV!Ready(AV!With(k)) <=> c + 1 = Chunks[f]
    BY <1>2, <1>6, Zenon DEF AV!Ready
  <1>8. ASSUME c + 1 # Chunks[f] PROVE AV!With(k) = Gathered(f, c + 1)
    <2>1. (FALSE \/ IsLast(k)) = FALSE
      BY <1>2, <1>8
    <2> QED BY <1>5, <2>1 DEF Gathered
  <1> QED BY <1>6, <1>7, <1>8

HandleAV(k) == AV!OutOfOrder(k) \/ AV!Partial(k) \/ AV!Complete(k)

(* What the frame handler does with a packet: it drops what its channel    *)
(* has, or goes on with it, or has a whole frame.                          *)
LEMMA Handles ==
    ASSUME OnTheWay, AssembledAV, NEW k \in net, NEW f, f = FrameOf(k), HandleAV(k)
    PROVE  /\ f \in Frames /\ Channel[f] \in AV!Channels
           /\ \E c \in 0..(Chunks[f] - 1) :
                /\ c # 0 => First[f] \notin net /\ cs[Channel[f]] = Gathered(f, c)
                /\ \A d \in 1..(Chunks[f] - 1) : cs[Channel[f]] = Gathered(f, d) => d = c
                /\ k = First[f] => c = 0
                /\ \/ /\ k # First[f] + c /\ cs' = [cs EXCEPT ![Channel[f]] = AV!Reset]
                      /\ UNCHANGED <<given, videoTS>>
                   \/ /\ k = First[f] + c /\ c + 1 # Chunks[f]
                      /\ cs' = [cs EXCEPT ![Channel[f]] = Gathered(f, c + 1)]
                      /\ UNCHANGED <<given, videoTS>>
                   \/ /\ k = First[f] + c /\ c + 1 = Chunks[f]
                      /\ cs' = [cs EXCEPT ![Channel[f]] = AV!Reset]
                      /\ videoTS' = AV!Updated(AV!Raw(f))
                      /\ given' = IF ended THEN given
                                  ELSE Append(given, [data |-> Whole(f), time |-> videoTS'.accumUS])
  <1>1. /\ f \in Frames /\ Channel[f] \in AV!Channels /\ AV!ChannelOf(k) = Channel[f]
        /\ ChunkOf(k) \in 0..(Chunks[f] - 1) /\ k = First[f] + ChunkOf(k)
    BY TakesUp
  <1>2. PICK c \in 0..(Chunks[f] - 1) :
            /\ AV!StateFor(k) = Gathered(f, c)
            /\ c # 0 => First[f] \notin net /\ cs[Channel[f]] = Gathered(f, c)
            /\ \A d \in 1..(Chunks[f] - 1) : cs[Channel[f]] = Gathered(f, d) => d = c
            /\ k = First[f] => c = 0
    BY TakesUp
  <1>3. AV!StateFor(k).waitSeq = c
    BY <1>2 DEF Gathered
  <1>4. /\ First[f] \in Nat /\ Chunks[f] \in Nat \ {0} /\ c \in Nat /\ ChunkOf(k) \in Nat
    <2>1. First[f] \in Nat /\ Chunks[f] \in Nat \ {0}
      BY <1>1, Layout
    <2> QED BY <1>1, <2>1, SMT
  <1>5. ChunkOf(k) = c <=> k = First[f] + c
    BY <1>1, <1>4, SMT
  <1>6. CASE AV!OutOfOrder(k)
    BY <1>1, <1>2, <1>3, <1>5, <1>6, AVSame DEF AV!OutOfOrder
  <1>7. ASSUME k = First[f] + c
        PROVE  /\ AV!With(k).waitData = Part(f, c + 1)
               /\ AV!Ready(AV!With(k)) <=> c + 1 = Chunks[f]
               /\ c + 1 # Chunks[f] => AV!With(k) = Gathered(f, c + 1)
    BY <1>1, <1>2, <1>7, GoesOn
  <1>8. CASE AV!Partial(k)
    <2>1. ChunkOf(k) = c
      BY <1>3, <1>8, AVSame DEF AV!Partial
    <2> QED BY <1>1, <1>2, <1>5, <1>7, <1>8, <2>1 DEF AV!Partial
  <1>9. CASE AV!Complete(k)
    <2>1. ChunkOf(k) = c
      BY <1>3, <1>9, AVSame DEF AV!Complete
    <2>2. k = First[f] + c /\ c + 1 = Chunks[f] /\ AV!With(k).waitData = Whole(f)
      BY <1>5, <1>7, <1>9, <2>1 DEF AV!Complete, Whole
    <2>3. Len(Whole(f)) = Chunks[f]
      BY <1>1, <1>4, PartNext DEF Whole
    <2>4. AV!Fits(k)
      BY <2>2, <2>3, AVSame DEF AV!Fits
    <2>5. AV!Frame(k) = [data |-> Whole(f), time |-> AV!Updated(AV!Raw(f)).accumUS]
      BY <2>2, AVSame DEF AV!Frame
    <2>6. /\ cs' = [cs EXCEPT ![Channel[f]] = AV!Reset]
          /\ videoTS' = AV!Updated(AV!Raw(f))
          /\ given' = IF ended THEN given ELSE Append(given, AV!Frame(k))
      BY <1>1, <1>9, <2>4, AVSame DEF AV!Complete
    <2> QED BY <1>1, <1>2, <2>2, <2>5, <2>6
  <1> QED BY <1>6, <1>8, <1>9 DEF HandleAV

(* The clock that wraps tells how much time has passed, when it is less    *)
(* than a period.                                                          *)
LEMMA Elapses ==
    ASSUME NEW s \in Nat, NEW t \in Nat, NEW v, v = videoTS.lastRawTS, v = s % WrapPeriod
    PROVE  /\ t % WrapPeriod \in Nat /\ AV!Elapsed(t % WrapPeriod) \in Int
           /\ 0 <= t - s /\ t - s < WrapPeriod => AV!Elapsed(t % WrapPeriod) = t - s
  <1>1. CASE WrapPeriod = 4
    BY <1>1, SMT DEF AV!Elapsed
  <1>2. CASE WrapPeriod = 1000000
    BY <1>2, SMTT(30) DEF AV!Elapsed
  <1> QED BY <1>1, <1>2, WrapAssumption

LEMMA Clocks ==
    ASSUME videoTS \in [firstTS : BOOLEAN, lastRawTS : Nat, accumUS : Int], NEW f \in Frames
    PROVE  /\ AV!Raw(f) \in Nat
           /\ AV!Updated(AV!Raw(f)) \in [firstTS : BOOLEAN, lastRawTS : Nat, accumUS : Int]
           /\ AV!Updated(AV!Raw(f)).accumUS \in Int
  <1>1. WrapPeriod \in Nat \ {0} /\ Time[f] \in Nat
    BY WrapAssumption, SMT
  <1>2. AV!Raw(f) \in Nat
    BY <1>1, SMT DEF AV!Raw
  <1>3. videoTS.lastRawTS \in Nat /\ videoTS.accumUS \in Int /\ videoTS.firstTS \in BOOLEAN
    OBVIOUS
  <1>4. ASSUME NEW r \in Nat PROVE AV!Elapsed(r) \in Int
    BY <1>1, <1>3, SMT DEF AV!Elapsed
  <1>5. ASSUME NEW r \in Nat, NEW e, e = AV!Elapsed(r)
        PROVE  /\ AV!Updated(r) \in [firstTS : BOOLEAN, lastRawTS : Nat, accumUS : Int]
               /\ AV!Updated(r).accumUS \in Int
    <2>1. e \in Int
      BY <1>4, <1>5
    <2>2. (IF videoTS.firstTS THEN videoTS.accumUS + e ELSE 0) \in Int
      BY <1>3, <2>1, SMT
    <2> QED BY <1>5, <2>2 DEF AV!Updated
  <1> QED BY <1>2, <1>5

LEMMA AssembleAV ==
    ASSUME OnTheWay, AssembledAV, NEW k \in net, HandleAV(k), net' = net \ {k}, next' = next
    PROVE  AssembledAV'
  <1>1. PICK f : f = FrameOf(k)
    OBVIOUS
  <1>2. f \in Frames /\ Channel[f] \in AV!Channels
    BY <1>1, Handles
  <1>3. PICK c \in 0..(Chunks[f] - 1) :
          /\ c # 0 => First[f] \notin net
          /\ \/ cs' = [cs EXCEPT ![Channel[f]] = AV!Reset]
             \/ /\ k = First[f] + c /\ c + 1 # Chunks[f]
                /\ cs' = [cs EXCEPT ![Channel[f]] = Gathered(f, c + 1)]
    BY <1>1, Handles
  <1>4. First[f] \in Nat /\ Chunks[f] \in Nat \ {0} /\ c \in Nat /\ next \in Nat /\ k < next
    <2>1. First[f] \in Nat /\ Chunks[f] \in Nat \ {0}
      BY <1>2, Layout
    <2>2. k \in 0..(next - 1) /\ next \in Nat
      BY DEF OnTheWay
    <2> QED BY <2>1, <2>2, SMT
  <1>5. /\ cs' = [h \in AV!Channels |-> cs'[h]]
        /\ \A h \in AV!Channels : h # Channel[f] => cs'[h] = cs[h]
        /\ \/ cs'[Channel[f]] = AV!Reset
           \/ /\ k = First[f] + c /\ c + 1 # Chunks[f]
              /\ cs'[Channel[f]] = Gathered(f, c + 1)
    <2>0. PICK x : /\ cs' = [cs EXCEPT ![Channel[f]] = x]
                   /\ \/ x = AV!Reset
                      \/ /\ k = First[f] + c /\ c + 1 # Chunks[f]
                         /\ x = Gathered(f, c + 1)
      BY <1>3
    <2>1. cs = [h \in AV!Channels |-> cs[h]]
      BY DEF AssembledAV
    <2>2. DOMAIN cs = AV!Channels
      BY <2>1
    <2>3. cs' = [h \in AV!Channels |-> IF h = Channel[f] THEN x ELSE cs[h]]
      BY <2>0, <2>1, <2>2
    <2> QED BY <1>2, <2>0, <2>3
  <1>6. ASSUME NEW h \in AV!Channels
        PROVE  \/ cs'[h] = AV!Reset
               \/ \E g \in Frames : \E d \in 1..(Chunks[g] - 1) :
                    /\ cs'[h] = Gathered(g, d)
                    /\ First[g] \notin net' /\ First[g] < next'
    <2>1. CASE h # Channel[f]
      BY <1>5, <2>1 DEF AssembledAV
    <2>2. CASE h = Channel[f] /\ cs'[h] = AV!Reset
      BY <2>2
    <2>3. CASE h = Channel[f] /\ k = First[f] + c /\ c + 1 # Chunks[f] /\ cs'[h] = Gathered(f, c + 1)
      <3>1. c + 1 \in 1..(Chunks[f] - 1) /\ First[f] < next
        BY <1>4, <2>3, SMT
      <3>2. First[f] \notin net'
        <4>1. c = 0 => First[f] = k
          BY <1>4, <2>3, SMT
        <4> QED BY <1>3, <4>1
      <3> QED BY <1>2, <2>3, <3>1, <3>2
    <2> QED BY <1>5, <2>1, <2>2, <2>3
  <1> QED BY <1>5, <1>6 DEF AssembledAV

LEMMA GivenAV ==
    ASSUME OnTheWay, AssembledAV, WholeGiven, Clocked, NEW k \in net, HandleAV(k), ended' = ended
    PROVE  /\ WholeGiven'
           /\ \A i \in DOMAIN given : i \in DOMAIN given' /\ given'[i] = given[i]
  <1>1. PICK f : f = FrameOf(k)
    OBVIOUS
  <1>2. f \in Frames
    BY <1>1, Handles
  <1>3. CASE given' = given
    BY <1>3 DEF WholeGiven
  <1>4. CASE given' = Append(given, [data |-> Whole(f), time |-> videoTS'.accumUS])
             /\ videoTS' = AV!Updated(AV!Raw(f))
    <2>1. videoTS'.accumUS \in Int /\ Whole(f) \in Seq(Nat)
      BY <1>2, <1>4, Clocks, PartNext, Layout DEF Whole, Clocked
    <2> DEFINE p == [data |-> Whole(f), time |-> videoTS'.accumUS]
    <2>2. p \in Times /\ p.data = Whole(f)
      BY <2>1 DEF Times
    <2> HIDE DEF p
    <2>3. given' = Append(given, p) /\ given \in Seq(Times)
      BY <1>4 DEF p, WholeGiven
    <2>4. /\ given' \in Seq(Times) /\ given'[Len(given) + 1] = p
          /\ \A i \in DOMAIN given : i \in DOMAIN given' /\ given'[i] = given[i]
          /\ \A i \in DOMAIN given' : i \in DOMAIN given \/ i = Len(given) + 1
      BY <2>2, <2>3, AppendOut
    <2> QED BY <1>2, <2>2, <2>4 DEF WholeGiven
  <1>5. \/ given' = given
        \/ /\ given' = Append(given, [data |-> Whole(f), time |-> videoTS'.accumUS])
           /\ videoTS' = AV!Updated(AV!Raw(f))
    BY <1>1, Handles
  <1> QED BY <1>3, <1>4, <1>5

LEMMA ArriveAV ==
    ASSUME OnTheWay, AssembledAV, WholeGiven, Clocked, ArrivingAV, NEW k \in net, HandleAV(k),
           seen' = [seen EXCEPT ![AV!ChannelOf(k)] = AV!Lately(@, k)], ended' = ended
    PROVE  ArrivingAV'
  <1>0. PICK g : g = FrameOf(k)
    OBVIOUS
  <1>1. g \in Frames /\ Channel[g] \in AV!Channels /\ AV!ChannelOf(k) = Channel[g] /\ k \in Nat
    BY <1>0, TakesUp DEF OnTheWay
  <1>2. PICK b \in 0..(Chunks[g] - 1) :
        /\ \A d \in 1..(Chunks[g] - 1) : cs[Channel[g]] = Gathered(g, d) => d = b
        /\ k = First[g] => b = 0
        /\ \/ k # First[g] + b /\ cs' = [cs EXCEPT ![Channel[g]] = AV!Reset]
           \/ /\ k = First[g] + b /\ b + 1 # Chunks[g]
              /\ cs' = [cs EXCEPT ![Channel[g]] = Gathered(g, b + 1)]
           \/ /\ k = First[g] + b /\ b + 1 = Chunks[g]
              /\ cs' = [cs EXCEPT ![Channel[g]] = AV!Reset]
              /\ given' = IF ended THEN given
                          ELSE Append(given, [data |-> Whole(g), time |-> videoTS'.accumUS])
    BY <1>0, Handles
  <1>3. /\ seen' \in [AV!Channels -> Seq(Nat)]
        /\ seen'[Channel[g]] = Lately(seen[Channel[g]], k)
        /\ \A h \in AV!Channels : h # Channel[g] => seen'[h] = seen[h]
    <2>1. seen \in [AV!Channels -> Seq(Nat)] /\ seen' = [seen EXCEPT ![Channel[g]] = Lately(@, k)]
      BY <1>1, AVSame DEF ArrivingAV
    <2>2. Lately(seen[Channel[g]], k) \in Seq(Nat)
      BY <1>1, <2>1, LatelyEnds
    <2> QED BY <1>1, <2>1, <2>2
  <1>4. /\ WholeGiven'
        /\ \A i \in DOMAIN given : i \in DOMAIN given' /\ given'[i] = given[i]
    BY GivenAV
  <1>5. \A h \in AV!Channels : h # Channel[g] => cs'[h] = cs[h]
    <2>1. cs = [h \in AV!Channels |-> cs[h]] /\ \E x : cs' = [cs EXCEPT ![Channel[g]] = x]
      BY <1>2 DEF AssembledAV
    <2>2. DOMAIN cs = AV!Channels
      BY <2>1
    <2> QED BY <2>1, <2>2
  <1>6. \A x : cs' = [cs EXCEPT ![Channel[g]] = x] => cs'[Channel[g]] = x
    <2>1. cs = [h \in AV!Channels |-> cs[h]]
      BY DEF AssembledAV
    <2>2. DOMAIN cs = AV!Channels
      BY <2>1
    <2> QED BY <1>1, <2>2
  <1>7. ASSUME NEW f \in Frames, NEW c \in 1..Chunks[f], EndsWith(seen'[Channel[f]], Part(f, c))
        PROVE  IF c < Chunks[f] THEN cs'[Channel[f]] = Gathered(f, c)
               ELSE ended' \/ \E i \in DOMAIN given' : given'[i].data = Whole(f)
    <2>0. Channel[f] \in AV!Channels
      BY AVSame
    <2>1. CASE Channel[f] # Channel[g]
      <3>1. seen'[Channel[f]] = seen[Channel[f]] /\ cs'[Channel[f]] = cs[Channel[f]]
        BY <1>3, <1>5, <2>0, <2>1
      <3>2. IF c < Chunks[f] THEN cs[Channel[f]] = Gathered(f, c)
            ELSE ended \/ \E i \in DOMAIN given : given[i].data = Whole(f)
        BY <1>7, <3>1 DEF ArrivingAV
      <3> QED BY <1>4, <3>1, <3>2
    <2>2. CASE Channel[f] = Channel[g]
      <3>1. EndsWith(Lately(seen[Channel[f]], k), Part(f, c)) /\ seen[Channel[f]] \in Seq(Nat)
        BY <1>3, <1>7, <2>0, <2>2 DEF ArrivingAV
      <3>2. /\ k = First[f] + (c - 1) /\ c - 1 \in 0..(Chunks[f] - 1)
            /\ c # 1 => c - 1 \in 1..Chunks[f] /\ EndsWith(seen[Channel[f]], Part(f, c - 1))
        BY <1>1, <3>1, EndsStep
      <3>3. g = f
        BY <1>0, <3>2, PacketOf
      <3>4. First[f] \in Nat /\ Chunks[f] \in Nat \ {0} /\ c \in Nat \ {0} /\ c <= Chunks[f]
        BY Layout, SMT
      <3>5. b = c - 1
        <4>1. CASE c = 1
          <5>1. k = First[f] /\ c - 1 = 0
            BY <3>2, <3>4, <4>1, SMT
          <5> QED BY <1>2, <3>3, <5>1
        <4>2. CASE c # 1
          <5>1. c - 1 \in 1..(Chunks[f] - 1) /\ c - 1 < Chunks[f]
            BY <3>4, <4>2, SMT
          <5>2. cs[Channel[f]] = Gathered(f, c - 1)
            BY <3>2, <4>2, <5>1 DEF ArrivingAV
          <5> QED BY <1>2, <3>3, <5>1, <5>2
        <4> QED BY <4>1, <4>2
      <3>6. k = First[g] + b /\ b + 1 = c
        BY <3>2, <3>3, <3>4, <3>5, SMT
      <3>7. CASE c # Chunks[f]
        <4>1. cs'[Channel[f]] = Gathered(f, c)
          BY <1>2, <1>6, <3>3, <3>6, <3>7
        <4>2. c < Chunks[f]
          BY <3>4, <3>7, SMT
        <4> QED BY <4>1, <4>2
      <3>8. CASE c = Chunks[f]
        <4>1. ~(c < Chunks[f])
          BY <3>4, <3>8, SMT
        <4>2. CASE ended
          BY <4>1, <4>2
        <4>3. CASE ~ended
          <5>1. given' = Append(given, [data |-> Whole(f), time |-> videoTS'.accumUS])
            BY <1>2, <3>3, <3>6, <3>8, <4>3
          <5> DEFINE p == [data |-> Whole(f), time |-> videoTS'.accumUS]
          <5>2. p.data = Whole(f)
            OBVIOUS
          <5> HIDE DEF p
          <5>3. given' = Append(given, p) /\ given \in Seq(Times) /\ given' \in Seq(Times)
            BY <1>4, <5>1 DEF p, WholeGiven
          <5>4. Len(given) + 1 \in DOMAIN given' /\ given'[Len(given) + 1] = p
            <6>1. Len(given) \in Nat
              BY <5>3, LenProperties
            <6>2. Len(given') = Len(given) + 1 /\ given'[Len(given) + 1] = p
              BY <5>3, <6>1, SMT
            <6>3. DOMAIN given' = 1..Len(given')
              BY <5>3, LenProperties
            <6> QED BY <6>1, <6>2, <6>3, SMT
          <5> QED BY <4>1, <5>2, <5>4
        <4> QED BY <4>2, <4>3
      <3> QED BY <3>7, <3>8
    <2> QED BY <2>1, <2>2
  <1> QED BY <1>3, <1>7 DEF ArrivingAV

LEMMA ClockAV ==
    ASSUME OnTheWay, AssembledAV, WholeGiven, Clocked, TimeRuns,
           NEW k \in net, HandleAV(k), ended' = ended
    PROVE  Clocked' /\ TimeRuns'
  <1>1. PICK f : f = FrameOf(k)
    OBVIOUS
  <1>2. f \in Frames
    BY <1>1, Handles
  <1>3. CASE UNCHANGED <<given, videoTS>>
    BY <1>3 DEF Clocked, TimeRuns
  <1>4. CASE ended /\ videoTS' = AV!Updated(AV!Raw(f)) /\ given' = given
    <2>1. videoTS' \in [firstTS : BOOLEAN, lastRawTS : Nat, accumUS : Int]
      BY <1>2, <1>4, Clocks DEF Clocked
    <2> QED BY <1>4, <2>1 DEF Clocked, TimeRuns
  <1>5. CASE /\ ~ended /\ videoTS' = AV!Updated(AV!Raw(f))
             /\ given' = Append(given, [data |-> Whole(f), time |-> videoTS'.accumUS])
    <2>1. /\ videoTS' \in [firstTS : BOOLEAN, lastRawTS : Nat, accumUS : Int]
          /\ videoTS'.accumUS \in Int
      BY <1>2, <1>5, Clocks DEF Clocked
    <2>2. /\ videoTS'.firstTS = TRUE /\ videoTS'.lastRawTS = AV!Raw(f)
          /\ videoTS.firstTS => videoTS'.accumUS = videoTS.accumUS + AV!Elapsed(AV!Raw(f))
      BY <1>5 DEF AV!Updated
    <2>3. Whole(f) \in Seq(Nat) /\ Whole(f)[1] = First[f] /\ FrameOf(First[f]) = f
      BY <1>2, WholeOf, PartNext, Layout DEF Whole
    <2> DEFINE p == [data |-> Whole(f), time |-> videoTS'.accumUS]
    <2>4. p \in Times /\ p.data = Whole(f) /\ p.time = videoTS'.accumUS
      BY <2>1, <2>3 DEF Times
    <2> HIDE DEF p
    <2>5. given' = Append(given, p) /\ given \in Seq(Times)
      BY <1>5 DEF p, WholeGiven
    <2>6. PICK n : n = Len(given) + 1
      OBVIOUS
    <2>7. /\ given' \in Seq(Times) /\ Len(given) \in Nat /\ DOMAIN given = 1..Len(given)
          /\ given'[n] = p
          /\ \A i \in DOMAIN given : i \in DOMAIN given' /\ given'[i] = given[i]
          /\ \A i \in DOMAIN given' : i \in DOMAIN given \/ i = n
      BY <2>4, <2>5, <2>6, AppendOut
    <2>8. Len(given') = n /\ given' # <<>>
      <3>1. Len(given') = n
        BY <2>5, <2>4, <2>6, AppendProperties
      <3> QED BY <2>6, <2>7, <3>1, EmptySeq, SMT
    <2>9. Clocked'
      BY <1>2, <2>1, <2>2, <2>3, <2>4, <2>7, <2>8 DEF Clocked
    <2>10. TimeRuns'
      <3> SUFFICES ASSUME NEW i \in DOMAIN given', i # 1, NEW g, NEW h,
                          g = FrameOf(given'[i - 1].data[1]), h = FrameOf(given'[i].data[1]),
                          0 <= Time[h] - Time[g], Time[h] - Time[g] < WrapPeriod
                   PROVE  given'[i].time - given'[i - 1].time = Time[h] - Time[g]
        BY DEF TimeRuns
      <3>1. CASE i \in DOMAIN given
        <4>1. i - 1 \in DOMAIN given
          BY <2>7, <3>1, SMT
        <4>2. given'[i] = given[i] /\ given'[i - 1] = given[i - 1]
          BY <2>7, <3>1, <4>1
        <4> QED BY <3>1, <4>2 DEF TimeRuns
      <3>2. CASE i = n
        <4>1. /\ i - 1 = Len(given) /\ Len(given) \in 1..Len(given) /\ Len(given) # 0
          BY <2>6, <2>7, <3>2, SMT
        <4>2. given # <<>> /\ given'[i - 1] = given[Len(given)] /\ given[Len(given)] \in Times
          BY <2>5, <2>7, <4>1, EmptySeq, ElementOfSeq
        <4>3. /\ videoTS.firstTS /\ videoTS.lastRawTS = AV!Raw(g)
              /\ videoTS.accumUS = given[Len(given)].time
          BY <1>5, <4>2 DEF Clocked
        <4>4. h = f
          BY <2>3, <2>4, <2>7, <3>2
        <4>5. g \in Frames
          <5>1. PICK e \in Frames : given[Len(given)].data = Whole(e)
            BY <2>7, <4>1 DEF WholeGiven
          <5> QED BY <4>2, <5>1, WholeOf
        <4>6. Time[g] \in Nat /\ Time[f] \in Nat
          BY <1>2, <4>5, WrapAssumption
        <4>7. AV!Elapsed(AV!Raw(f)) = Time[f] - Time[g]
          <5>1. videoTS.lastRawTS = Time[g] % WrapPeriod /\ AV!Raw(f) = Time[f] % WrapPeriod
            BY <4>3 DEF AV!Raw
          <5> QED BY <4>4, <4>6, <5>1, Elapses
        <4>8. given[Len(given)].time \in Int
          BY <4>2 DEF Times
        <4>9. videoTS'.accumUS = given[Len(given)].time + (Time[f] - Time[g])
          BY <2>2, <4>3, <4>7
        <4>10. given'[i].time = given[Len(given)].time + (Time[f] - Time[g])
          BY <2>4, <2>7, <3>2, <4>9
        <4> QED BY <4>2, <4>4, <4>6, <4>8, <4>10, SMT
      <3> QED BY <2>7, <3>1, <3>2
    <2> QED BY <2>9, <2>10
  <1>6. \/ UNCHANGED <<given, videoTS>>
        \/ /\ videoTS' = AV!Updated(AV!Raw(f))
           /\ given' = IF ended THEN given
                       ELSE Append(given, [data |-> Whole(f), time |-> videoTS'.accumUS])
    BY <1>1, Handles
  <1> QED BY <1>3, <1>4, <1>5, <1>6

-----------------------------------------------------------------------------
(* The session.                                                            *)

Inv16 == proto = "16" => Assembled16 /\ Arriving16

(* What the reorder buffer ensures as long as Fits holds.                  *)
Ordered25 ==
    /\ InOrder /\ WholeOut
    /\ \E w \in 0..came : Waiting(w) /\ \E p \in 0..w : Assembled25(w, p) /\ Reach(w, p)

Inv25 ==
    proto = "25" =>
        /\ Arriving25 /\ full \in BOOLEAN /\ waitData \in Seq(Nat)
        /\ \A s \in Held : s \in Nat /\ buf[s] \in Nat
        /\ seq \in Nat
        /\ Fits => Ordered25

InvAV == proto = "AV" => AssembledAV /\ ArrivingAV /\ Clocked /\ TimeRuns

MediaInv ==
    /\ proto \in {"16", "25", "AV"}
    /\ OnTheWay /\ WholeGiven /\ taken \in Seq(Nat) /\ out \in Seq(Seq(Nat))
    /\ proto # "25" => WholeOut
    /\ proto = "AV" => out = <<>> /\ taken = <<>>
    /\ proto # "AV" => given = <<>>
    /\ Inv16 /\ Inv25 /\ InvAV

LEMMA NoPart ==
    ASSUME NEW f \in Frames, NEW c \in 1..Chunks[f]
    PROVE  ~EndsWith(<<>>, Part(f, c))
  <1>1. Len(<<>>) = 0 /\ <<>> \in Seq(Nat)
    BY EmptySeq
  <1>2. c \in Nat \ {0}
    BY Layout, SMT
  <1>3. Len(Part(f, c)) = c
    BY <1>2, PartNext
  <1> QED BY <1>1, <1>2, <1>3, SMT DEF EndsWith

LEMMA Initial == Init => MediaInv
  <1> SUFFICES ASSUME Init PROVE MediaInv
    OBVIOUS
  <1>1. /\ next = 0 /\ net = {} /\ came = 0 /\ began = 0 /\ seq = 0 /\ pops = FALSE
        /\ taken = <<>> /\ out = <<>> /\ full = FALSE /\ waitCSeq = 0 /\ Held = {}
        /\ repeats = {} /\ waitData = <<>> /\ proto \in {"16", "25", "AV"}
    BY DEF Init, UdpInit, Session25Init, SessionInit, ReorderInit, Held
  <1>2. OnTheWay
    <2>1. repeats \in SUBSET (0..(came - 1)) /\ IsFiniteSet(repeats)
      BY <1>1, FS_EmptySet
    <2> QED BY <1>1, <2>1, Constants, Layout, SMT DEF OnTheWay
  <1>3. taken \in Seq(Nat) /\ out \in Seq(Seq(Nat)) /\ DOMAIN out = {} /\ waitData \in Seq(Nat)
    BY <1>1, EmptySeq, SMT
  <1>4. SeqNo(0) = 0
    <2>1. CASE SeqSpace = 7
      BY <2>1, SMT DEF SeqNo
    <2>2. CASE SeqSpace = 65536
      BY <2>2, SMT DEF SeqNo
    <2> QED BY <2>1, <2>2, SeqAssumption
  <1>5. Buffered(0)
    <2>2. IsFiniteSet(Held) /\ Cardinality(Held) = 0
      BY <1>1, FS_EmptySet
    <2>3. 0 \in 0..came /\ Cardinality(Held) <= Room /\ Cardinality(Held) < Room
      BY <1>1, <2>2, Constants, SMT
    <2> QED BY <1>1, <1>4, <2>2, <2>3 DEF Buffered
  <1>6. NoGap(0)
    <2>1. IsFiniteSet(Above(-1)) /\ Cardinality(Above(-1)) = 0
      BY <1>1, FS_EmptySet DEF Above
    <2>2. \A x \in (0 - 1)..(came - 1) : x = -1
      BY <1>1, SMT
    <2>3. Gap * 0 = 0
      BY Constants, SMT
    <2> QED BY <1>1, <2>1, <2>2, <2>3, SMT DEF NoGap
  <1>7. 0 \in 0..came /\ 0 \in 0..0 /\ Waiting(0)
    BY <1>1, <1>5, <1>6, SMT DEF Waiting, Waited
  <1>8. Before(0) /\ InOrder /\ WholeOut
    BY <1>3 DEF Before, InOrder, WholeOut
  <1>9. Assembled25(0, 0) /\ Reach(0, 0)
    <2>1. Reach(0, 0)
      BY <1>1, SMT DEF Reach
    <2> QED BY <1>1, <1>4, <1>7, <1>8, <2>1 DEF Assembled25
  <1>10. Arriving25 /\ Arriving16 /\ Assembled16
    BY <1>1, NoPart DEF Arriving25, Arriving16, Assembled16
  <1>11. AssembledAV /\ WholeGiven /\ ArrivingAV /\ Clocked /\ TimeRuns /\ given = <<>>
    <2>1. /\ cs = [c \in AV!Channels |-> AV!Reset] /\ given = <<>> /\ ended = FALSE
          /\ videoTS = [firstTS |-> FALSE, lastRawTS |-> 0, accumUS |-> 0]
          /\ seen = [c \in AV!Channels |-> <<>>]
      BY DEF Init, AV!AVInit
    <2>2. AssembledAV
      BY <2>1 DEF AssembledAV
    <2>3. given \in Seq(Times) /\ DOMAIN given = {} /\ <<>> \in Seq(Nat)
      BY <2>1, EmptySeq, SMT
    <2>4. WholeGiven /\ TimeRuns
      BY <2>1, <2>3 DEF WholeGiven, TimeRuns
    <2>5. Clocked
      BY <2>1 DEF Clocked
    <2>6. ArrivingAV
      <3>1. seen \in [AV!Channels -> Seq(Nat)]
        BY <2>1, <2>3
      <3>2. \A f \in Frames : seen[Channel[f]] = <<>>
        BY <2>1, AVSame
      <3> QED BY <3>1, <3>2, NoPart DEF ArrivingAV
    <2> QED BY <2>1, <2>2, <2>4, <2>5, <2>6
  <1> QED
    <2>1. Ordered25
      BY <1>7, <1>8, <1>9 DEF Ordered25
    <2>2. seq \in Nat /\ full \in BOOLEAN /\ \A s \in Held : s \in Nat /\ buf[s] \in Nat
      <3>1. 0 \in Nat
        OBVIOUS
      <3>2. full \in BOOLEAN
        BY <1>1
      <3> QED BY <1>1, <3>1, <3>2
    <2>3. Inv25
      BY <1>3, <1>10, <2>1, <2>2 DEF Inv25
    <2>4. Inv16 /\ InvAV
      BY <1>10, <1>11 DEF Inv16, InvAV
    <2> QED BY <1>1, <1>2, <1>3, <1>8, <1>11, <2>3, <2>4 DEF MediaInv

LEMMA Keeps16 == ASSUME MediaInv, Next16 PROVE MediaInv'
  <1>1. /\ proto = "16" /\ proto' = "16" /\ Assembled16 /\ Arriving16
        /\ OnTheWay /\ WholeOut /\ taken \in Seq(Nat) /\ given = <<>> /\ given' = <<>>
        /\ WholeGiven'
    BY DEF Next16, MediaInv, Inv16, avVars, WholeGiven
  <1> SUFFICES OnTheWay' /\ WholeOut' /\ taken' \in Seq(Nat) /\ Assembled16' /\ Arriving16'
    BY <1>1 DEF MediaInv, Inv16, Inv25, InvAV, WholeOut
  <1>2. CASE SessionRead
    <2>1. PICK k \in net : /\ Leaves(k) \/ Copied(k)
                           /\ HandleChunk16(k) /\ taken' = Lately(taken, k)
      BY <1>2 DEF SessionRead, HandleChunk16
    <2>2. k \in Nat /\ OnTheWay' /\ came' = (IF k < came THEN came ELSE k + 1)
      BY <1>1, <2>1, Arrival, CopyArrives DEF OnTheWay
    <2>3. Assembled16' /\ WholeOut'
      BY <1>1, <2>1, <2>2, Assemble16
    <2>4. Arriving16'
      BY <1>1, <2>1, <2>2, Arrive16
    <2>5. taken' \in Seq(Nat)
      BY <1>1, <2>1, <2>2, LatelyEnds
    <2> QED BY <2>2, <2>3, <2>4, <2>5
  <1>3. CASE (Audio \/ ReadPacket) /\ UNCHANGED udpVars
    <2>1. /\ UNCHANGED <<waitFSeq, waitCSeq, waitSize, waitData, taken, out>>
          /\ full => full'
      BY <1>3 DEF Audio, ReadPacket, Gives
    <2>2. UNCHANGED <<next, net, came, began, repeats>>
      BY <1>3 DEF udpVars
    <2> QED BY <1>1, <2>1, <2>2 DEF OnTheWay, WholeOut, Assembled16, Arriving16, Holds16
  <1> QED BY <1>2, <1>3 DEF Next16

LEMMA KeepsAV == ASSUME MediaInv, NextAV PROVE MediaInv'
  <1>1. /\ proto = "AV" /\ proto' = "AV" /\ AssembledAV /\ ArrivingAV /\ Clocked /\ TimeRuns
        /\ OnTheWay /\ WholeGiven /\ out' = out /\ taken' = taken /\ out = <<>> /\ taken = <<>>
        /\ WholeOut' /\ taken' \in Seq(Nat) /\ out' \in Seq(Seq(Nat))
    BY DEF NextAV, MediaInv, InvAV, vars25, sessionVars, WholeOut
  <1> SUFFICES OnTheWay' /\ WholeGiven' /\ AssembledAV' /\ ArrivingAV' /\ Clocked' /\ TimeRuns'
    BY <1>1 DEF MediaInv, Inv16, Inv25, InvAV
  <1>2. CASE AV!Handle
    <2>1. PICK k \in net : /\ AV!Leaves(k) /\ HandleAV(k) /\ ended' = ended
                           /\ seen' = [seen EXCEPT ![AV!ChannelOf(k)] = AV!Lately(@, k)]
      BY <1>2 DEF AV!Handle, HandleAV
    <2>2. OnTheWay' /\ net' = net \ {k} /\ next' = next
      BY <1>1, <2>1, AVSame, Arrival
    <2>3. AssembledAV'
      BY <1>1, <2>1, <2>2, AssembleAV
    <2>4. WholeGiven'
      BY <1>1, <2>1, GivenAV
    <2>5. ArrivingAV'
      BY <1>1, <2>1, ArriveAV
    <2>6. Clocked' /\ TimeRuns'
      BY <1>1, <2>1, ClockAV
    <2> QED BY <2>2, <2>3, <2>4, <2>5, <2>6
  <1>3. CASE (AV!HandleAudio \/ AV!Receive \/ AV!Close) /\ UNCHANGED udpVars
    <2>1. UNCHANGED <<cs, videoTS, seen, given>> /\ (ended' = ended \/ ended' = TRUE)
      BY <1>3 DEF AV!HandleAudio, AV!Receive, AV!Close
    <2>2. UNCHANGED <<next, net, came, began, repeats>>
      BY <1>3 DEF udpVars
    <2>3. OnTheWay' /\ AssembledAV' /\ TimeRuns'
      BY <1>1, <2>1, <2>2 DEF OnTheWay, AssembledAV, TimeRuns
    <2>4. WholeGiven' /\ Clocked' /\ ArrivingAV'
      BY <1>1, <2>1 DEF WholeGiven, Clocked, ArrivingAV
    <2> QED BY <2>3, <2>4
  <1> QED BY <1>2, <1>3 DEF NextAV

(* What the packet at hand has come to is within reach: all that is still  *)
(* held is behind it.                                                      *)
LEMMA TakenNear ==
    ASSUME NEW w \in Nat, NEW p \in Nat, Reach(w, p), NEW n \in Nat, Covers(p, n),
           \A s \in Held : buf[s] \in Nat /\ (n <= buf[s] \/ (buf[s] < w /\ buf[s] \in repeats))
    PROVE  n < p + Span
  <1> SUFFICES ASSUME NEW s \in Held, IsFirst(buf[s]), buf[s] < n, n < buf[s] + Span
               PROVE n < p + Span
    BY DEF Covers
  <1>1. buf[s] < w /\ buf[s] \in repeats /\ buf[s] \in Nat
    <2>1. buf[s] \in Nat /\ (n <= buf[s] \/ (buf[s] < w /\ buf[s] \in repeats))
      OBVIOUS
    <2> QED BY <2>1, SMT
  <1>2. buf[s] <= p
    BY <1>1 DEF Reach
  <1> QED BY <1>1, <1>2, Constants, SMT

(* Every step of the worker, whatever is in the buffer.                    *)
LEMMA Stored25 ==
    ASSUME MediaInv, Next25
    PROVE  /\ proto = "25" /\ proto' = "25" /\ OnTheWay' /\ (Fits' => Fits)
           /\ Arriving25' /\ full' \in BOOLEAN /\ waitData' \in Seq(Nat)
           /\ taken' \in Seq(Nat) /\ out' \in Seq(Seq(Nat))
           /\ (\A s \in Held : s \in Nat /\ buf[s] \in Nat)' /\ seq' \in Nat
  <1>1. /\ proto = "25" /\ proto' = "25" /\ Arriving25 /\ full \in BOOLEAN /\ waitData \in Seq(Nat)
        /\ OnTheWay /\ taken \in Seq(Nat) /\ out \in Seq(Seq(Nat)) /\ seq \in Nat
        /\ \A s \in Held : s \in Nat /\ buf[s] \in Nat
    BY DEF Next25, MediaInv, Inv25
  <1>2. \A s \in Nat : After(s) \in Nat /\ SeqNo(s) \in Nat
    <2>1. CASE SeqSpace = 7
      BY <2>1, SMT DEF SeqNo, After
    <2>2. CASE SeqSpace = 65536
      BY <2>2, SMTT(30) DEF SeqNo, After
    <2> QED BY <2>1, <2>2, SeqAssumption
  <1>3. ASSUME UNCHANGED udpVars PROVE OnTheWay' /\ (Fits' => Fits)
    BY <1>1, <1>3 DEF udpVars, OnTheWay, Fits
  <1>4. ASSUME UNCHANGED <<waitData, waitCSeq, full, taken, out>>
        PROVE  /\ Arriving25' /\ full' \in BOOLEAN /\ waitData' \in Seq(Nat)
               /\ taken' \in Seq(Nat) /\ out' \in Seq(Seq(Nat))
    BY <1>1, <1>4 DEF Arriving25
  <1>5. CASE Arrives25
    <2>1. PICK k \in net : /\ Leaves(k) \/ Copied(k)
                           /\ (Expected(k) /\ Taken25(k)) \/ (Other(k) /\ Kept25)
      BY <1>5 DEF Arrives25
    <2>2. OnTheWay' /\ k \in Nat /\ (Fits' => Fits)
      BY <1>1, <2>1, Comes
    <2>3. CASE Expected(k) /\ Taken25(k)
      <3>1. taken' = Lately(taken, k) /\ HandleChunk(k) /\ buf' = buf /\ seq' = After(seq)
        BY <2>3 DEF Taken25, Expected
      <3>2. (\A s \in Held : s \in Nat /\ buf[s] \in Nat)' /\ seq' \in Nat
        BY <1>1, <1>2, <3>1 DEF Held
      <3> QED BY <1>1, <2>2, <3>1, <3>2, Arrive25
    <2>4. CASE Other(k) /\ Kept25
      <3>1. UNCHANGED <<taken, out, full, waitCSeq, waitData, seq>>
        BY <2>4 DEF Kept25, sessionVars, Other
      <3>2. /\ Held' = Held \cup {SeqNo(k)} /\ buf'[SeqNo(k)] = k
            /\ \A s \in Held : s # SeqNo(k) => buf'[s] = buf[s]
        BY <2>4 DEF Other, Held
      <3>3. \A s \in Held' : s \in Nat /\ buf'[s] \in Nat
        BY <1>1, <1>2, <2>2, <3>2
      <3> QED BY <1>1, <1>4, <2>2, <3>1, <3>3
    <2> QED BY <2>1, <2>3, <2>4
  <1>6. CASE Pops25
    <2>1. /\ UNCHANGED udpVars /\ taken' = Lately(taken, buf[Nearest]) /\ HandleChunk(buf[Nearest])
          /\ seq' = After(Nearest) /\ buf' = [s \in Held \ {Nearest} |-> buf[s]]
          /\ seq \in Held \/ Room - Cardinality(Held) <= 0
      BY <1>6 DEF Pops25, Taken25, PopItem, Found, Available, Held
    <2>2. Held # {}
      <3>1. Cardinality({}) = 0
        BY FS_EmptySet
      <3> QED BY <2>1, <3>1, Constants, SMT
    <2>3. Nearest \in Held
      <3> DEFINE Steps == {Ahead(s) : s \in Held}
      <3>1. Steps \in SUBSET Nat /\ Steps # {}
        <4>1. ASSUME NEW s \in Held PROVE Ahead(s) \in Nat
          <5>1. s \in Int /\ seq \in Int
            BY <1>1, SMT
          <5>2. CASE SeqSpace = 7
            BY <5>1, <5>2, SMT DEF Ahead
          <5>3. CASE SeqSpace = 65536
            BY <5>1, <5>3, SMT DEF Ahead
          <5> QED BY <5>2, <5>3, SeqAssumption
        <4> QED BY <2>2, <4>1
      <3> HIDE DEF Steps
      <3>2. PICK n \in Steps : \A m \in Steps : n <= m
        BY <3>1, Least
      <3>3. \E r \in Held : \A s \in Held : Ahead(r) <= Ahead(s)
        BY <3>2 DEF Steps
      <3> QED BY <3>3 DEF Nearest, Held
    <2>4. Nearest \in Nat /\ buf[Nearest] \in Nat
      BY <1>1, <2>3
    <2>5. (\A s \in Held : s \in Nat /\ buf[s] \in Nat)' /\ seq' \in Nat
      BY <1>1, <1>2, <2>1, <2>4 DEF Held
    <2> QED BY <1>1, <1>3, <2>1, <2>4, <2>5, Arrive25
  <1>7. CASE Returns25
    <2>1. UNCHANGED <<waitData, waitCSeq, full, taken, out, buf, seq>> /\ UNCHANGED udpVars
      BY <1>7 DEF Returns25, PopNothing
    <2> QED BY <1>1, <1>3, <1>4, <2>1 DEF Held
  <1>8. CASE ReadPacket /\ UNCHANGED <<udpVars, reorderVars, failed>>
    <2>1. UNCHANGED <<waitData, waitCSeq, full, taken, out, buf, seq>> /\ UNCHANGED udpVars
      BY <1>8 DEF ReadPacket, reorderVars
    <2> QED BY <1>1, <1>3, <1>4, <2>1 DEF Held
  <1> QED BY <1>5, <1>6, <1>7, <1>8 DEF Next25

(* ... and as long as Fits holds, Pop goes on in the order of the camera.  *)
LEMMA Orders25 == ASSUME MediaInv, Next25, Fits, OnTheWay' PROVE Ordered25'
  <1>1. /\ proto = "25" /\ InOrder /\ Arriving25 /\ full \in BOOLEAN
        /\ OnTheWay /\ WholeOut /\ taken \in Seq(Nat)
    BY DEF Next25, MediaInv, Inv25, Ordered25
  <1>2. PICK w \in 0..came : Waiting(w) /\ \E p \in 0..w : Assembled25(w, p) /\ Reach(w, p)
    BY <1>1 DEF MediaInv, Inv25, Ordered25
  <1>3. PICK p \in 0..w : Assembled25(w, p) /\ Reach(w, p)
    BY <1>2
  <1>4. w \in Nat /\ p \in Nat
    BY <1>1, SMT DEF OnTheWay
  <1>5. ASSUME WholeOut', InOrder', NEW v \in 0..came', Waiting(v)',
               NEW q \in Nat, Assembled25(v, q)', Reach(v, q)'
        PROVE  Ordered25'
    <2>1. q \in 0..v
      BY <1>5 DEF Assembled25
    <2> QED BY <1>5, <2>1 DEF Ordered25
  <1>6. CASE Arrives25
    <2>1. PICK k \in net : /\ Leaves(k) \/ Copied(k)
                           /\ (Expected(k) /\ Taken25(k)) \/ (Other(k) /\ Kept25)
      BY <1>6 DEF Arrives25
    <2>2. /\ k \in Nat /\ net' \subseteq net /\ k < Packets /\ repeats' \subseteq repeats \cup {k}
          /\ began' = (IF IsFirst(k) /\ began < k THEN k ELSE began)
      BY <1>1, <2>1, Comes
    <2>3. CASE Expected(k) /\ Taken25(k)
      <3>1. taken' = Lately(taken, k) /\ HandleChunk(k) /\ buf' = buf /\ Held' = Held
        BY <2>3 DEF Taken25, Expected, Held
      <3>2. k = w /\ w + 1 \in 0..came' /\ Waiting(w + 1)'
        BY <1>1, <1>2, <1>4, <2>1, <2>3, <3>1, ExpectedStep
      <3>3. \A s \in Held : buf[s] \in Nat /\ (k <= buf[s] \/ (buf[s] < w /\ buf[s] \in repeats))
        <4> SUFFICES ASSUME NEW s \in Held
                     PROVE  buf[s] \in Nat /\ (k <= buf[s] \/ (buf[s] < w /\ buf[s] \in repeats))
          OBVIOUS
        <4>1. buf[s] \in 0..(came - 1) /\ (buf[s] < w => buf[s] \in repeats)
          BY <1>2 DEF Waiting, Buffered
        <4> QED BY <1>4, <3>2, <4>1, SMT
      <3>4. k < p + Span
        <4>1. Covers(p, k)
          BY <1>3 DEF Reach
        <4> QED BY <1>3, <1>4, <2>2, <3>3, <4>1, TakenNear
      <3>5. w <= k
        BY <1>4, <3>2
      <3>6. PICK q \in Nat : p <= q /\ (IsFirst(k) => k <= q) /\ Assembled25(k + 1, q)'
        BY <1>1, <1>3, <1>4, <2>2, <3>1, <3>4, <3>5, Assemble25
      <3>7. InOrder' /\ WholeOut'
        BY <1>1, <1>3, <1>4, <2>2, <3>1, <3>4, <3>5, Assemble25
      <3>8. Reach(k + 1, q)'
        <4>1. /\ Held' \subseteq Held /\ \A s \in Held' : buf'[s] = buf[s]
              /\ \A s \in Held : buf[s] \in Nat /\ (s \in Held' \/ buf[s] = k)
              /\ began \in Nat /\ (began' = began \/ (began' = k /\ IsFirst(k)))
              /\ \A j \in net : j \in Nat
          BY <1>1, <2>2, <3>1, <3>3 DEF OnTheWay, Held
        <4>2. \A j \in repeats' : j \in Nat /\ ((j < w /\ j \in repeats) \/ j >= k)
          <5> SUFFICES ASSUME NEW j \in repeats'
                       PROVE  j \in Nat /\ ((j < w /\ j \in repeats) \/ j >= k)
            OBVIOUS
          <5>1. CASE j = k
            BY <2>2, <5>1, SMT
          <5>2. CASE j \in repeats
            <6>1. j \in Nat
              BY <1>1, <5>2, SMT DEF OnTheWay
            <6> QED BY <1>4, <3>2, <5>2, <6>1, SMT
          <5> QED BY <2>2, <5>1, <5>2
        <4> QED BY <1>3, <1>4, <2>2, <3>6, <4>1, <4>2, ReachTaken
      <3> QED BY <1>5, <3>2, <3>6, <3>7, <3>8
    <2>4. CASE Other(k) /\ Kept25
      <3>1. UNCHANGED <<taken, out, waitCSeq, waitData>>
        BY <2>4 DEF Kept25, sessionVars
      <3>2. w \in 0..came' /\ Waiting(w)'
        BY <1>1, <1>2, <1>4, <2>1, <2>4, <3>1, OtherStep
      <3>3. Reach(w, p)'
        BY <1>1, <1>2, <1>3, <1>4, <2>1, <2>4, <3>1, ReachOther
      <3>4. InOrder' /\ WholeOut' /\ Assembled25(w, p)'
        BY <1>1, <1>3, <3>1 DEF InOrder, WholeOut, Assembled25, Before
      <3> QED BY <1>4, <1>5, <3>2, <3>3, <3>4
    <2> QED BY <2>1, <2>3, <2>4
  <1>7. CASE Pops25
    <2>1. PICK n : n = buf[Nearest]
      OBVIOUS
    <2>2. PopItem /\ UNCHANGED udpVars /\ taken' = Lately(taken, n) /\ HandleChunk(n)
      BY <1>7, <2>1 DEF Pops25, Taken25
    <2>3. /\ n + 1 \in 0..came' /\ Waiting(n + 1)'
          /\ Nearest \in Held /\ n \in Nat /\ n >= w /\ n < Packets
          /\ \A s \in Held \ {Nearest} : n < buf[s] \/ (buf[s] < w /\ buf[s] \in repeats)
          /\ \A j \in repeats : j < w \/ j >= n
      BY <1>1, <1>2, <1>4, <2>1, <2>2, PopStep
    <2>4. \A s \in Held : buf[s] \in Nat /\ (n <= buf[s] \/ (buf[s] < w /\ buf[s] \in repeats))
      <3> SUFFICES ASSUME NEW s \in Held
                   PROVE  buf[s] \in Nat /\ (n <= buf[s] \/ (buf[s] < w /\ buf[s] \in repeats))
        OBVIOUS
      <3>1. buf[s] \in Nat
        <4>1. buf[s] \in 0..(came - 1)
          BY <1>2 DEF Waiting, Buffered
        <4> QED BY <4>1, SMT
      <3>2. CASE s = Nearest
        BY <2>1, <2>3, <3>2, SMT
      <3>3. CASE s # Nearest
        BY <2>3, <3>1, <3>3, SMT
      <3> QED BY <3>1, <3>2, <3>3
    <2>5. n < p + Span
      <3>1. Covers(p, n)
        BY <1>3, <2>1, <2>3 DEF Reach
      <3> QED BY <1>3, <1>4, <2>3, <2>4, <3>1, TakenNear
    <2>6. w <= n
      BY <1>4, <2>3, SMT
    <2>7. PICK q \in Nat : p <= q /\ (IsFirst(n) => n <= q) /\ Assembled25(n + 1, q)'
      BY <1>1, <1>3, <1>4, <2>2, <2>3, <2>5, <2>6, Assemble25
    <2>8. InOrder' /\ WholeOut'
      BY <1>1, <1>3, <1>4, <2>2, <2>3, <2>5, <2>6, Assemble25
    <2>9. Reach(n + 1, q)'
      <3>1. /\ net' \subseteq net /\ began' = began /\ began \in Nat /\ \A j \in net : j \in Nat
            /\ repeats' = repeats
        BY <1>1, <2>2 DEF udpVars, OnTheWay
      <3>2. Held' \subseteq Held /\ Held' = Held \ {Nearest} /\ \A s \in Held' : buf'[s] = buf[s]
        BY <2>2 DEF PopItem, Held
      <3>3. \A s \in Held : buf[s] \in Nat /\ (s \in Held' \/ buf[s] = n)
        BY <2>1, <2>4, <3>2
      <3>4. \A j \in repeats' : j \in Nat /\ ((j < w /\ j \in repeats) \/ j >= n)
        <4>1. \A j \in repeats : j \in Nat
          BY <1>1, SMT DEF OnTheWay
        <4> QED BY <2>3, <3>1, <4>1
      <3> QED BY <1>3, <1>4, <2>3, <2>7, <3>1, <3>2, <3>3, <3>4, ReachTaken
    <2> QED BY <1>5, <2>3, <2>7, <2>8, <2>9
  <1>8. ASSUME UNCHANGED <<next, net, came, began, repeats, seq, buf, taken, out, waitCSeq, waitData>>,
               pops' = pops \/ (~pops' /\ Cardinality(Held) < Room /\ seq \notin Held),
               pops' \in BOOLEAN
        PROVE  Ordered25'
    <2>1. Held' = Held /\ \A x : Above(x)' = Above(x)
      BY <1>8 DEF Held, Above
    <2>2. Buffered(w)'
      BY <1>1, <1>2, <1>8, <2>1 DEF Waiting, Buffered
    <2>3. NoGap(w)' /\ Waited(w)'
      BY <1>2, <1>8, <2>1 DEF Waiting, NoGap, Waited
    <2>4. Reach(w, p)' /\ Assembled25(w, p)'
      BY <1>3, <1>8, <2>1 DEF Reach, Covers, Assembled25, Before
    <2>5. InOrder' /\ WholeOut' /\ w \in 0..came'
      BY <1>1, <1>8 DEF InOrder, WholeOut
    <2> QED BY <1>4, <1>5, <2>2, <2>3, <2>4, <2>5 DEF Waiting
  <1>9. CASE Returns25
    <2>1. /\ UNCHANGED <<next, net, came, began, repeats, seq, buf, taken, out, waitCSeq, waitData>>
          /\ pops' = FALSE /\ seq \notin Held /\ ~(Room - Cardinality(Held) <= 0)
      BY <1>9 DEF Returns25, PopNothing, Found, Available, Held, udpVars
    <2>2. Cardinality(Held) < Room
      <3>1. Cardinality(Held) \in Nat
        BY <1>2, FS_CardinalityType DEF Waiting, Buffered
      <3> QED BY <2>1, <3>1, Constants, SMT
    <2> QED BY <1>8, <2>1, <2>2
  <1>10. CASE ReadPacket /\ UNCHANGED <<udpVars, reorderVars, failed>>
    <2>1. /\ UNCHANGED <<next, net, came, began, repeats, seq, buf, taken, out, waitCSeq, waitData>>
          /\ pops' = pops
      BY <1>10 DEF ReadPacket, udpVars, reorderVars
    <2>2. pops \in BOOLEAN
      BY <1>2 DEF Waiting, Buffered
    <2> QED BY <1>8, <2>1, <2>2
  <1> QED BY <1>6, <1>7, <1>9, <1>10 DEF Next25

LEMMA Keeps25 == ASSUME MediaInv, Next25 PROVE MediaInv'
  <1>1. given = <<>> /\ given' = <<>> /\ WholeGiven'
    BY DEF Next25, MediaInv, avVars, WholeGiven
  <1>2. Fits' => Ordered25'
    BY Stored25, Orders25
  <1> QED BY <1>1, <1>2, Stored25 DEF MediaInv, Inv16, Inv25, InvAV

(* What the network does leaves the worker alone.                          *)
LEMMA KeepsOutside ==
    ASSUME MediaInv, UNCHANGED <<vars25, proto, avVars>>, Network \/ UNCHANGED udpVars
    PROVE  MediaInv'
  <1>1. /\ UNCHANGED <<waitFSeq, waitCSeq, waitSize, waitData, full, taken, out, seq, buf, pops>>
        /\ UNCHANGED <<cs, videoTS, ended, seen, given, proto>> /\ UNCHANGED reorderVars
        /\ OnTheWay
    BY DEF vars25, sessionVars, reorderVars, avVars, MediaInv
  <1>2. /\ OnTheWay' /\ came' = came /\ next \in Nat /\ next' \in Nat /\ next <= next'
        /\ \A k \in net' : k \in net \/ k = next
        /\ repeats' = repeats /\ (Fits' => Fits)
    <2>1. CASE Network
      BY <1>1, <2>1, NetworkWay
    <2>2. CASE UNCHANGED udpVars
      <3>1. UNCHANGED <<next, net, came, began, repeats>>
        BY <2>2 DEF udpVars
      <3> QED BY <1>1, <3>1, SMT DEF OnTheWay, Fits
    <2> QED BY <2>1, <2>2
  <1>3. WholeGiven' /\ taken' \in Seq(Nat) /\ out' \in Seq(Seq(Nat)) /\ (proto # "25" => WholeOut')
    BY <1>1 DEF MediaInv, WholeOut, WholeGiven
  <1>4. Inv16'
    BY <1>1, <1>2 DEF MediaInv, Inv16, Assembled16, Arriving16, Holds16
  <1>5. InvAV'
    <2> SUFFICES ASSUME proto = "AV" PROVE AssembledAV' /\ ArrivingAV' /\ Clocked' /\ TimeRuns'
      BY <1>1 DEF InvAV
    <2>1. AssembledAV /\ ArrivingAV /\ Clocked /\ TimeRuns
      BY DEF MediaInv, InvAV
    <2>2. ASSUME NEW f \in Frames, First[f] \notin net, First[f] < next
          PROVE  First[f] \notin net' /\ First[f] < next'
      <3>1. First[f] \in Nat
        BY Layout
      <3>2. First[f] # next /\ First[f] < next'
        BY <1>2, <2>2, <3>1, SMT
      <3> QED BY <1>2, <2>2, <3>2
    <2>3. AssembledAV'
      BY <1>1, <2>1, <2>2 DEF AssembledAV
    <2>4. ArrivingAV' /\ Clocked' /\ TimeRuns'
      BY <1>1, <2>1 DEF ArrivingAV, Clocked, TimeRuns
    <2> QED BY <2>3, <2>4
  <1>6. Inv25'
    <2>0. ASSUME proto = "25"
          PROVE  /\ Arriving25' /\ full' \in BOOLEAN /\ waitData' \in Seq(Nat) /\ seq' \in Nat
                 /\ (\A s \in Held : s \in Nat /\ buf[s] \in Nat)'
      BY <1>1, <2>0 DEF MediaInv, Inv25, Arriving25, Held
    <2> SUFFICES ASSUME proto = "25", Fits
                 PROVE  /\ InOrder' /\ WholeOut'
                        /\ \E w \in 0..came' : /\ Waiting(w)'
                                               /\ \E p \in 0..w : Assembled25(w, p)' /\ Reach(w, p)'
      BY <1>1, <1>2, <2>0 DEF Inv25, Ordered25
    <2>1. InOrder' /\ WholeOut'
      BY <1>1 DEF MediaInv, Inv25, Ordered25, InOrder, WholeOut
    <2>2. PICK w \in 0..came : Waiting(w) /\ \E p \in 0..w : Assembled25(w, p) /\ Reach(w, p)
      BY DEF MediaInv, Inv25, Ordered25
    <2>3. PICK p \in 0..w : Assembled25(w, p) /\ Reach(w, p)
      BY <2>2
    <2>4. w \in Nat /\ p \in Nat
      BY <1>1, SMT DEF OnTheWay
    <2>5. Assembled25(w, p)'
      BY <1>1, <2>3 DEF Assembled25, Before
    <2>6. CASE Network
      <3>1. w \in 0..came' /\ Waiting(w)'
        BY <1>1, <2>2, <2>4, <2>6, NetworkStep
      <3>2. Reach(w, p)'
        BY <1>1, <2>2, <2>3, <2>4, <2>6, ReachNetwork
      <3> QED BY <2>1, <2>5, <3>1, <3>2
    <2>7. CASE UNCHANGED udpVars
      <3>1. UNCHANGED <<next, net, came, began, repeats>>
        BY <2>7 DEF udpVars
      <3>2. Held' = Held /\ \A x : Above(x)' = Above(x)
        BY <1>1 DEF Held, Above
      <3>3. Buffered(w)'
        BY <1>1, <2>2, <3>1, <3>2 DEF Waiting, Buffered
      <3>4. NoGap(w)' /\ Waited(w)'
        BY <1>1, <2>2, <3>1, <3>2 DEF Waiting, NoGap, Waited
      <3>5. Reach(w, p)'
        BY <1>1, <2>3, <3>1, <3>2 DEF Reach, Covers
      <3> QED BY <2>1, <2>2, <2>5, <3>1, <3>3, <3>4, <3>5 DEF Waiting
    <2> QED BY <2>6, <2>7
  <1> QED BY <1>1, <1>2, <1>3, <1>4, <1>5, <1>6 DEF MediaInv

LEMMA Inductive == MediaInv /\ [Next]_vars => MediaInv'
  <1> SUFFICES ASSUME MediaInv, [Next]_vars PROVE MediaInv'
    OBVIOUS
  <1>1. CASE UNCHANGED vars
    <2>1. UNCHANGED <<vars25, proto, avVars>> /\ UNCHANGED udpVars
      BY <1>1 DEF vars
    <2> QED BY <2>1, KeepsOutside
  <1>2. CASE Outside
    BY <1>2, KeepsOutside DEF Outside
  <1> QED BY <1>1, <1>2, Keeps16, Keeps25, KeepsAV DEF Next

LEMMA Always == Spec => []MediaInv
  BY Initial, Inductive, PTL DEF Spec

(* Protocol 25 gives up no packet that may still come: of what is on the   *)
(* way everything of which no copy came is behind what was put together    *)
(* last, for every size of the buffer and every camera, and a network      *)
(* within its reach, whose copies it has room for.                         *)
THEOREM LateIsWaitedFor == Spec => []WaitsForLate
  <1>1. MediaInv => WaitsForLate
    <2> SUFFICES ASSUME MediaInv, proto = "25", Fits, taken # <<>>, NEW k \in net, k \notin repeats
                 PROVE  taken[Len(taken)] < k
      BY DEF WaitsForLate
    <2>1. PICK w \in 0..came : Waiting(w)
      BY DEF MediaInv, Inv25, Ordered25
    <2>2. taken[Len(taken)] < w /\ k >= w /\ w \in Nat /\ k \in Nat
      BY <2>1, SMT DEF Waiting, Waited, MediaInv, OnTheWay
    <2>3. taken[Len(taken)] \in Nat
      <3>1. taken \in Seq(Nat)
        BY DEF MediaInv
      <3>2. Len(taken) \in 1..Len(taken)
        BY <3>1, EmptySeq, LenProperties, SMT
      <3> QED BY <3>1, <3>2, ElementOfSeq
    <2> QED BY <2>2, <2>3, SMT
  <1> QED BY <1>1, Always, PTL

LEMMA GivenIs ==
    ASSUME MediaInv
    PROVE  IF proto = "AV" THEN Given = [i \in DOMAIN given |-> given[i].data] ELSE Given = out
  <1> DEFINE datas == [i \in DOMAIN given |-> given[i].data]
  <1>1. given \in Seq(Times) /\ DOMAIN given = 1..Len(given) /\ Len(given) \in Nat
    BY LenProperties DEF MediaInv, WholeGiven
  <1>2. datas \in Seq(Seq(Nat))
    <2>1. \A i \in 1..Len(given) : given[i].data \in Seq(Nat)
      <3> SUFFICES ASSUME NEW i \in 1..Len(given) PROVE given[i].data \in Seq(Nat)
        OBVIOUS
      <3>1. given[i] \in Times
        BY <1>1, ElementOfSeq
      <3> QED BY <3>1 DEF Times
    <2>2. datas = [i \in 1..Len(given) |-> given[i].data]
      BY <1>1
    <2>3. PICK n \in Nat : n = Len(given)
      BY <1>1
    <2>4. datas \in [1..n -> Seq(Nat)]
      BY <2>1, <2>2, <2>3
    <2> HIDE DEF datas
    <2> QED BY <2>3, <2>4, SeqDef
  <1>3. out \in Seq(Seq(Nat))
    BY DEF MediaInv
  <1>4. Given = out \o datas
    BY DEF Given
  <1>5. CASE proto = "AV"
    <2>1. out = <<>>
      BY <1>5 DEF MediaInv
    <2> HIDE DEF datas
    <2>2. Given = datas
      BY <1>2, <1>4, <2>1, ConcatEmptySeq
    <2> QED BY <1>5, <2>2 DEF datas
  <1>6. CASE proto # "AV"
    <2>1. Len(given) = 0
      <3>1. given = <<>>
        BY <1>6 DEF MediaInv
      <3> QED BY <3>1, EmptySeq
    <2>2. DOMAIN datas = {}
      BY <1>1, <2>1, SMT
    <2>3. datas = <<>>
      <3> HIDE DEF datas
      <3>1. Len(datas) = 0
        BY <1>2, <2>2, LenProperties, SMT
      <3> QED BY <1>2, <3>1, EmptySeq
    <2> HIDE DEF datas
    <2>4. Given = out
      BY <1>3, <1>4, <2>3, ConcatEmptySeq
    <2> QED BY <1>6, <2>4
  <1> QED BY <1>5, <1>6

(* Whatever is lost, repeated and reordered, each protocol gives only      *)
(* whole frames of the camera, for every camera and frame number space;    *)
(* protocol 25 does as long as its buffer has room for what came again,    *)
(* and gives them in the order of the camera.                              *)
THEOREM FramesAreWhole == Spec => []FramesWhole
  <1>1. MediaInv => FramesWhole
    <2> SUFFICES ASSUME MediaInv PROVE FramesWhole
      OBVIOUS
    <2>0. /\ (proto = "25" => Fits) => WholeOut
          /\ proto = "25" /\ Fits => InOrder
      BY DEF MediaInv, Inv25, Ordered25
    <2>1. ASSUME proto = "25" => Fits, NEW i \in DOMAIN Given
          PROVE  Given[i] = Whole(FrameOf(Given[i][1]))
      <3>1. PICK f \in Frames : Given[i] = Whole(f)
        <4>1. CASE proto = "AV"
          <5>1. Given = [j \in DOMAIN given |-> given[j].data]
            BY <4>1, GivenIs
          <5>2. i \in DOMAIN given /\ Given[i] = given[i].data
            BY <2>1, <5>1
          <5> QED BY <5>2 DEF MediaInv, WholeGiven
        <4>2. CASE proto # "AV"
          <5>1. Given = out
            BY <4>2, GivenIs
          <5> QED BY <2>0, <2>1, <5>1 DEF WholeOut
        <4> QED BY <4>1, <4>2
      <3> QED BY <3>1, WholeOf
    <2> QED BY <2>0, <2>1 DEF FramesWhole, AllWhole, AllInOrder, InOrder
  <1> QED BY <1>1, Always, PTL

(* A frame of which all packets came to the assembly one after the other   *)
(* is given, whatever was lost before, unless the channel was full.        *)
THEOREM FramesArrive == Spec => []FrameArrives
  <1>1. MediaInv => FrameArrives
    <2> SUFFICES ASSUME MediaInv, NEW f \in Frames
                 PROVE  /\ EndsWith(taken, Whole(f)) /\ ~full => Whole(f) \in ToSet(out)
                        /\ proto = "AV" /\ ~ended /\ EndsWith(seen[Channel[f]], Whole(f))
                               => Whole(f) \in ToSet(Given)
      BY DEF FrameArrives
    <2>1. Chunks[f] \in 1..Chunks[f] /\ ~(Chunks[f] < Chunks[f]) /\ Whole(f) = Part(f, Chunks[f])
      <3>1. Chunks[f] \in Nat \ {0}
        BY Layout
      <3> QED BY <3>1, SMT DEF Whole
    <2>2. ASSUME EndsWith(taken, Whole(f)), ~full PROVE Whole(f) \in ToSet(out)
      <3>1. CASE proto = "AV"
        <4>1. taken = <<>>
          BY <3>1 DEF MediaInv
        <4> QED BY <2>1, <2>2, <4>1, NoPart
      <3>2. CASE proto = "16"
        <4>1. Arriving16
          BY <3>2 DEF MediaInv, Inv16
        <4>2. \E i \in DOMAIN out : out[i] = Whole(f)
          BY <2>1, <2>2, <4>1 DEF Arriving16
        <4> QED BY <4>2 DEF ToSet
      <3>3. CASE proto = "25"
        <4>1. Arriving25
          BY <3>3 DEF MediaInv, Inv25
        <4>2. \E i \in DOMAIN out : out[i] = Whole(f)
          BY <2>1, <2>2, <4>1 DEF Arriving25
        <4> QED BY <4>2 DEF ToSet
      <3> QED BY <3>1, <3>2, <3>3 DEF MediaInv
    <2>3. ASSUME proto = "AV", ~ended, EndsWith(seen[Channel[f]], Whole(f))
          PROVE  Whole(f) \in ToSet(Given)
      <3>1. ArrivingAV
        BY <2>3 DEF MediaInv, InvAV
      <3>2. PICK i \in DOMAIN given : given[i].data = Whole(f)
        BY <2>1, <2>3, <3>1 DEF ArrivingAV
      <3>3. Given = [j \in DOMAIN given |-> given[j].data]
        BY <2>3, GivenIs
      <3>4. i \in DOMAIN Given /\ Given[i] = Whole(f)
        BY <3>2, <3>3
      <3> QED BY <3>4 DEF ToSet
    <2> QED BY <2>2, <2>3
  <1> QED BY <1>1, Always, PTL

(* The times of two frames that are given one after the other are as far   *)
(* apart as the clock of the camera says, across its wrap, for every       *)
(* camera.                                                                 *)
THEOREM TimeRunsOn == Spec => []TimeRuns
  <1>1. MediaInv => TimeRuns
    <2> SUFFICES ASSUME MediaInv PROVE TimeRuns
      OBVIOUS
    <2>1. CASE proto = "AV"
      BY <2>1 DEF MediaInv, InvAV
    <2>2. CASE proto # "AV"
      <3>1. given = <<>> /\ DOMAIN given = {}
        <4>1. given = <<>>
          BY <2>2 DEF MediaInv
        <4> QED BY <4>1, SMT
      <3> QED BY <3>1 DEF TimeRuns
    <2> QED BY <2>1, <2>2
  <1> QED BY <1>1, Always, PTL
=============================================================================
