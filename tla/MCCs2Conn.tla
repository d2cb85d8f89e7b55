------------------------------ MODULE MCCs2Conn ------------------------------
(* Two messages in three packets, cut in every way; and three commands.    *)
EXTENDS Cs2Conn
MCSizes == <<3, 3>>
MCStart == <<0, 5, 10>>
=============================================================================
