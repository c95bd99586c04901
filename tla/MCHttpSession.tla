---------------------------- MODULE MCHttpSession ----------------------------
(***************************************************************************)
(* Instances of HttpSession for TLC: a file of 3 bytes, and the requests   *)
(* that clients make for it.                                               *)
(***************************************************************************)
EXTENDS HttpSession

Plain(what) == [what |-> what, first |-> 0, last |-> 0, close |-> FALSE]
Closing     == [Plain("page") EXCEPT !.close = TRUE]
Bytes(a, b) == [Plain("range") EXCEPT !.first = a, !.last = b]

AllAsks ==
  {Plain(w) : w \in {"page", "cached", "missing", "refused", "bad"}}
  \cup {Closing, Bytes(0, Size - 1), Bytes(1, Size - 1), Bytes(Size, Size - 1),
        Bytes(0, 0), Bytes(1, Size), Bytes(2, 0), Bytes(2, 1)}

(* Ranges of the page, the last byte not before the first.                 *)
WellFormed ==
  {Plain("page"), Closing}
  \cup {Bytes(a, b) : <<a, b>> \in {r \in (0..(Size - 1)) \X (0..(Size - 1)) :
                                     r[1] <= r[2]}}

Pages == {Plain("page"), Plain("bad")}

=============================================================================
