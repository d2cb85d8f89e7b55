----------------------------- MODULE MCProducer -----------------------------
(* Producer for TLC: every caller at any time, few connections.            *)
EXTENDS Producer, TLC

(* A connection offers everything.                                         *)
MCOffersAll == {Codecs \cup {Back}}
=============================================================================
