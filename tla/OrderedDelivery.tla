--------------------------- MODULE OrderedDelivery ---------------------------
(***************************************************************************)
(* What a reliable channel promises: items 0, 1, 2, ... are sent, and come *)
(* out one by one, each once, in the order they were sent.                 *)
(***************************************************************************)
EXTENDS Naturals, Sequences

VARIABLES sent, out

Init == sent = 0 /\ out = <<>>

Send == sent' = sent + 1 /\ UNCHANGED out

Deliver ==
    /\ Len(out) < sent
    /\ out' = Append(out, Len(out))
    /\ UNCHANGED sent

Next == Send \/ Deliver

Spec == Init /\ [][Next]_<<sent, out>>
=============================================================================
