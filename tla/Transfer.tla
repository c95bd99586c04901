------------------------------ MODULE Transfer ------------------------------
(***************************************************************************)
(* What a file transfer promises, in either direction: the receiver's file *)
(* grows along the sender's, and success is reported once, for the whole   *)
(* of it.  Only when the connection was cut may less, or zeroes, pass for  *)
(* success, or when the receiver's disk lost some of it, which shows in    *)
(* the file's length; a failure may leave anything of the kind.  Once      *)
(* reported, the file stays as it is.  Implemented by Upload and Download. *)
(***************************************************************************)
EXTENDS Bytes

CONSTANT Sizes

VARIABLES
  size,      \* of the sender's file
  saved,     \* the receiver's file
  verdict,   \* what the receiver reports
  cut,       \* did the sender close before it had sent everything?
  lost       \* did the receiver's disk store less than it was given?

vars == <<size, saved, verdict, cut, lost>>

(* Some of the file, and some of a zeroed buffer.                          *)
Incomplete(file) ==
  \E n \in 0..size : \E z \in 0..(size - n) : file = Slice(0, n) \o Zeroes(z)

Init ==
  /\ size \in Sizes
  /\ saved = <<>> /\ verdict = "none"
  /\ cut = FALSE /\ lost = FALSE

Grow ==
  /\ verdict = "none" /\ ~lost
  /\ \E n \in Len(saved)..size : saved' = Slice(0, n)
  /\ UNCHANGED <<size, verdict, cut, lost>>

Succeed ==
  /\ verdict = "none" /\ ~lost
  /\ verdict' = "success"
  /\ saved' = Slice(0, size) \/ (cut /\ Incomplete(saved'))
  /\ UNCHANGED <<size, cut, lost>>

Fail ==
  /\ verdict = "none" /\ ~lost
  /\ verdict' = "failure"
  /\ Incomplete(saved')
  /\ UNCHANGED <<size, cut, lost>>

Cut ==
  /\ cut' = TRUE
  /\ UNCHANGED <<size, saved, verdict, lost>>

(* Once something was not stored the file is shorter than the sender's,    *)
(* whatever it holds and whatever is reported.                             *)
Lose ==
  /\ verdict = "none" /\ lost'
  /\ Len(saved') < size
  /\ verdict' \in {"none", "success", "failure"}
  /\ UNCHANGED <<size, cut>>

Next == Grow \/ Succeed \/ Fail \/ Cut \/ Lose

Spec == Init /\ [][Next]_vars

=============================================================================
