------------------------------ MODULE MCUpload ------------------------------
(***************************************************************************)
(* Instances of Upload for TLC.  With a buffer of 4 bytes, written when at *)
(* most 1 is empty, the sizes are those of small files, of one that fills  *)
(* the buffer, and of files that take up to four rounds.                   *)
(***************************************************************************)
EXTENDS Upload

AllSizes   == 1..10
SmallSizes == 1..3
NoSizes    == {}

=============================================================================
