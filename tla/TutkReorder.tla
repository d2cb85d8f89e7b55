----------------------------- MODULE TutkReorder -----------------------------
(***************************************************************************)
(* The order of the packets of a TUTK camera, protocol 25: ReorderBuffer   *)
(* of pkg/tutk/session25.go gives packets on in order, and when it is full *)
(* it gives up the ones it waits for. A packet that comes again after it   *)
(* was given on stays in the buffer until its number comes round, or until *)
(* the buffer is full of such ones.                                        *)
(* Packet k has the sequence number k % SeqSpace.                          *)
(***************************************************************************)
EXTENDS TutkUdp

CONSTANTS
    SeqSpace,   \* 2^16 in the code; few in the run
    Room        \* ReorderBuffer.size: 5 in the code

ASSUME SeqAssumption == SeqSpace \in {7, 65536} /\ Room \in Nat \ {0}

(* What the buffer is made for: a packet is not later than the buffer is   *)
(* long, and what is lost while it fills does not wrap the numbers.        *)
ASSUME ReachAssumption == Late <= Room /\ Gap * Room <= SeqSpace /\ Span <= SeqSpace

VARIABLES
    seq,        \* ReorderBuffer.seq
    buf,        \* ReorderBuffer.buf: sequence number -> packet
    pops        \* SessionRead is in its loop and calls Pop

reorderVars == <<seq, buf, pops>>

SeqNo(k) == k % SeqSpace
After(s) == (s + 1) % SeqSpace

ReorderInit == seq = 0 /\ buf = [s \in {} |-> 0] /\ pops = FALSE

-----------------------------------------------------------------------------

(* Mutant: every packet that is not from the past is the expected one.     *)
CheckMutant(k) == (SeqNo(k) - seq) % SeqSpace < Room

(* Check: "OK if this is the seq we are waiting for".                      *)
Check(k) == SeqNo(k) = seq

(* The packet goes straight to the assembly.                               *)
Expected(k) ==
    /\ ~pops /\ Check(k)
    /\ seq' = After(seq)
    /\ pops' = TRUE
    /\ UNCHANGED buf

(* Push: any other packet goes into the buffer, whatever its place is.     *)
Other(k) ==
    /\ ~pops /\ ~Check(k)
    /\ buf' = [s \in DOMAIN buf \cup {SeqNo(k)} |-> IF s = SeqNo(k) THEN k ELSE buf[s]]
    /\ pops' = TRUE
    /\ UNCHANGED seq

Available == Room - Cardinality(DOMAIN buf)

(* How far the loop of Pop moves seq to find an item, dropping the others. *)
Ahead(s) == (s - seq) % SeqSpace
Nearest == CHOOSE s \in DOMAIN buf : \A t \in DOMAIN buf : Ahead(s) <= Ahead(t)

(* Pop returns an item: the expected one, or the next there is when the    *)
(* buffer is full.                                                         *)
Found == seq \in DOMAIN buf \/ Available <= 0

PopItem ==
    /\ pops /\ Found
    /\ seq' = After(Nearest)
    /\ buf' = [s \in DOMAIN buf \ {Nearest} |-> buf[s]]
    /\ UNCHANGED pops

PopNothing ==
    /\ pops /\ ~Found
    /\ pops' = FALSE
    /\ UNCHANGED <<seq, buf>>

(* There is room for late packets beside those that came again, and the    *)
(* number of none of these has come round.                                 *)
Fits ==
    /\ Late + Cardinality(repeats) <= Room
    /\ \A k \in repeats : next < k + SeqSpace
=============================================================================
