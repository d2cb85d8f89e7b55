----------------------------- MODULE TutkFrames25 -----------------------------
(***************************************************************************)
(* Media frames of a TUTK camera, protocol 25: SessionRead and handleChunk *)
(* of pkg/tutk/session25.go. Chunks come from the ReorderBuffer, and those *)
(* that follow each other are put together. Session25 has the fields of    *)
(* Session16; its waitFSeq and waitSize are not used.                      *)
(***************************************************************************)
EXTENDS TutkFrames16, TutkReorder

VARIABLE
    failed      \* SessionRead's res is msgError

vars25 == <<sessionVars, reorderVars, failed>>

Session25Init == SessionInit /\ ReorderInit /\ failed = FALSE

-----------------------------------------------------------------------------

Follows25(k) == SeqNo(k) = waitCSeq

(* msgMediaLost *)
Lost25(k) ==
    /\ ~IsFirst(k) /\ ~Follows25(k)
    /\ failed' = FALSE
    /\ UNCHANGED <<waitData, waitCSeq, rawPkt, full, out>>

Start(k) == IF IsFirst(k) THEN SeqNo(k) ELSE waitCSeq

(* msgMediaChunk *)
Middle25(k) ==
    /\ IsFirst(k) \/ Follows25(k)
    /\ ~IsLast(k)
    /\ waitData' = Data(k)
    /\ waitCSeq' = After(Start(k))
    /\ failed' = FALSE
    /\ UNCHANGED <<rawPkt, full, out>>

(* msgMediaFrame, or msgError when the channel is full.                    *)
Complete25(k) ==
    /\ IsFirst(k) \/ Follows25(k)
    /\ IsLast(k)
    /\ waitData' = Data(k)
    /\ waitCSeq' = Start(k)
    /\ failed' = (Len(rawPkt) = Queue)
    /\ full' = (full \/ failed')
    /\ rawPkt' = IF failed' THEN rawPkt ELSE Append(rawPkt, Data(k))
    /\ out' = IF failed' THEN out ELSE Append(out, Data(k))

(* Mutant: the first chunk of a frame is dropped after a loss.             *)
HandleChunkMutant(k) ==
    IF ~Follows25(k) /\ waitData # <<>> /\ ~IsLast(waitData[Len(waitData)])
    THEN failed' = FALSE /\ UNCHANGED <<waitData, waitCSeq, rawPkt, full, out>>
    ELSE Middle25(k) \/ Complete25(k) \/ Lost25(k)

HandleChunk(k) == Lost25(k) \/ Middle25(k) \/ Complete25(k)

(* The packet that arrives, or one out of the buffer, is looked at. The    *)
(* result of the last handleChunk of the loop counts.                      *)
Taken25(k) ==
    /\ HandleChunk(k)
    /\ taken' = Lately(taken, k)
    /\ UNCHANGED <<waitFSeq, waitSize, closed>>

(* msgMediaReorder *)
Kept25 == failed' = FALSE /\ UNCHANGED sessionVars

Arrives25 ==
    /\ ~closed
    /\ \E k \in net :
        /\ Leaves(k) \/ Copied(k)
        /\ \/ Expected(k) /\ Taken25(k)
           \/ Other(k) /\ Kept25

Pops25 ==
    /\ ~closed
    /\ PopItem /\ Taken25(buf[Nearest])
    /\ UNCHANGED udpVars

(* The worker leaves its loop on msgError; session.Close.                  *)
Returns25 ==
    /\ ~closed
    /\ PopNothing
    /\ closed' = failed
    /\ UNCHANGED <<udpVars, waitFSeq, waitSize, waitData, waitCSeq, rawPkt, full, taken, out, failed>>
=============================================================================
