----------------------------- MODULE MCTutkDtls -----------------------------
(* The login, the resolution, and one try to talk.                       *)
EXTENDS TutkDtls

MCKinds == <<"login", "resolution", "channel">>
=============================================================================
