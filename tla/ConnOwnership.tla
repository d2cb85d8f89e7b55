---------------------------- MODULE ConnOwnership ----------------------------
(***************************************************************************)
(* What the producers of a stream promise about the connections they dial, *)
(* without workers, timers and tracks: a connection belongs to one producer *)
(* from the dial to the stop, a live producer trades it for a fresh one in *)
(* one step, and nothing that was stopped is ever used again.              *)
(***************************************************************************)
CONSTANTS Producers, Conns, NoConn

VARIABLES phase, owned, life

vars == <<phase, owned, life>>

Init ==
    /\ phase = [p \in Producers |-> "idle"]
    /\ owned = [p \in Producers |-> NoConn]
    /\ life = [c \in Conns |-> "fresh"]

(* Dialled on demand, or handed over by a source that pushes.              *)
Open(p, c) ==
    /\ phase[p] = "idle" /\ life[c] = "fresh"
    /\ \E ph \in {"ready", "pushed"} : phase' = [phase EXCEPT ![p] = ph]
    /\ owned' = [owned EXCEPT ![p] = c]
    /\ life' = [life EXCEPT ![c] = "open"]

GoLive(p) ==
    /\ phase[p] = "ready"
    /\ phase' = [phase EXCEPT ![p] = "live"]
    /\ UNCHANGED <<owned, life>>

Swap(p, c) ==
    /\ phase[p] = "live" /\ life[c] = "fresh"
    /\ owned' = [owned EXCEPT ![p] = c]
    /\ life' = [life EXCEPT ![owned[p]] = "stopped", ![c] = "open"]
    /\ UNCHANGED phase

Close(p) ==
    /\ phase[p] # "idle"
    /\ phase' = [phase EXCEPT ![p] = "idle"]
    /\ owned' = [owned EXCEPT ![p] = NoConn]
    /\ life' = [life EXCEPT ![owned[p]] = "stopped"]

Next == \E p \in Producers :
    \/ \E c \in Conns : Open(p, c) \/ Swap(p, c)
    \/ GoLive(p)
    \/ Close(p)

Spec == Init /\ [][Next]_vars
=============================================================================
