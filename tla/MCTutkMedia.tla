---------------------------- MODULE MCTutkMedia -----------------------------
(* Frames of one to four packets; numbers and the clock wrap.             *)
EXTENDS TutkMedia

MCChunks == <<2, 1, 3, 4>>
MCFirst == [f \in 1..5 |-> FoldSeq(+, 0, SubSeq(MCChunks, 1, f - 1))]
MCChannel == <<"I", "P", "P", "I">>
MCTime == <<2, 3, 5, 8>>
=============================================================================
