---------------------------- MODULE MCCs2Window -----------------------------
(* A channel of six sequence numbers for TLC.                              *)
EXTENDS Cs2Window
=============================================================================
