----------------------------- MODULE MCTrimmer -----------------------------
(* A preview of one frame or of two, the last of which is shorter.          *)
EXTENDS Trimmer
=============================================================================
