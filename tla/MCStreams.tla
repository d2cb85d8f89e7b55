----------------------------- MODULE MCStreams ------------------------------
(* Streams for TLC: two consumers that join and leave once.                *)
EXTENDS Streams, TLC

CONSTANTS p1, p2, u1, u2

MCOffers == {Codecs}
MCOffersLess == {Codecs, {}}
MCOffersBack == {Codecs \cup {Back}, Codecs}
One == <<p1>>
Two == <<p1, p2>>

(* One media that takes any codec; and one that takes all that match.      *)
MCWants == [u \in Consumers |-> <<[want |-> Codecs, all |-> FALSE]>>]
MCWantsAll == [u \in Consumers |-> <<[want |-> Codecs, all |-> TRUE]>>]

(* u1 talks and u2 listens.                                                *)
MCWantsMixed ==
    [u \in Consumers |->
        <<[want |-> IF u = u1 THEN {Back} ELSE Codecs, all |-> FALSE]>>]

NoLoops == [u \in Consumers |-> {}]

Sym == Permutations(Consumers) \cup Permutations(Conns)
=============================================================================
