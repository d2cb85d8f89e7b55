---------------------------- MODULE LossyDelivery -----------------------------
(***************************************************************************)
(* What a live stream promises, which may drop what it has no room for:    *)
(* items 1, 2, 3, ... are sent, and what comes out are some of them, none  *)
(* twice and none after a later one. What has come out stays.              *)
(***************************************************************************)
EXTENDS Naturals, Sequences

VARIABLES sent, out

Rises(s) == \A i, j \in 1..Len(s) : i < j => s[i] < s[j]

Init == sent = 0 /\ out = <<>>

Send == sent' = sent + 1 /\ UNCHANGED out

Deliver ==
    /\ Len(out) <= Len(out') /\ \A i \in 1..Len(out) : out'[i] = out[i]
    /\ Rises(out') /\ \A i \in 1..Len(out') : out'[i] \in 1..sent
    /\ UNCHANGED sent

Next == Send \/ Deliver

Spec == Init /\ [][Next]_<<sent, out>>
=============================================================================
