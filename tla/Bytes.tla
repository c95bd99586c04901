-------------------------------- MODULE Bytes --------------------------------
(***************************************************************************)
(* The bytes of a stream, each named by its position in it: what a file or *)
(* a buffer holds is a sequence of positions.  0 is a byte of a zeroed     *)
(* buffer.                                                                 *)
(***************************************************************************)
EXTENDS Naturals, Sequences

(* The bytes a+1 .. b.                                                     *)
Slice(a, b) == [i \in 1..(b - a) |-> a + i]

(* n bytes of a buffer nothing was read into.                              *)
Zeroes(n) == [i \in 1..n |-> 0]

=============================================================================
