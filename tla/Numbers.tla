------------------------------- MODULE Numbers -------------------------------
(***************************************************************************)
(* Numbers in a text, as std::stol and std::stoll read them, digit by      *)
(* digit.                                                                  *)
(***************************************************************************)
EXTENDS Integers

CONSTANT LongMax  \* LONG_MAX, beyond which they throw

ASSUME NumbersAssumption == LongMax \in Nat

None == -1        \* of which no digit was read

WithDigit(n, d) == 10 * (IF n = None THEN 0 ELSE n) + d

=============================================================================
