----------------------------- MODULE MCConsumer ------------------------------
(* A short queue, two calls of Start and two of Close.                     *)
EXTENDS Consumer
=============================================================================
