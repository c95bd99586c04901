-------------------------------- MODULE Json --------------------------------
(***************************************************************************)
(* json_parser of json.hpp, on a sequence of tokens: a token is a record   *)
(* with the field t, which is a character, or names what begins with it;   *)
(* "str" and "num" carry their value.  A string ends at the next quote; if *)
(* there is none, it is "open".  A word that the text's end cuts short is  *)
(* a "part", and "-" stands for any other character.  The calls of         *)
(* parse_array and parse_kv that have not returned are kept in p.call,     *)
(* each with the one that made it.                                         *)
(***************************************************************************)
EXTENDS Numbers, Sequences

Blank == {"sp", "nl"}

(* Val: an object is a function from its keys.                             *)
Num(n) == [num |-> n]
Str(s) == [str |-> s]
Arr(a) == [arr |-> a]
Obj(o) == [obj |-> o]
Word(w) == [word |-> w]

Scalars == {"str", "num", "true", "false", "null"}

(* parse_str, parse_num, and the words.                                    *)
Scalar(token) ==
  CASE token.t = "str" -> Str(token.str)
    [] token.t = "num" -> Num(token.num)
    [] OTHER -> Word(token.t)

(* The calls: of the constructor; of parse_array, with what it has so far; *)
(* of parse_kv that reads a key, or the value of one.                      *)
Main == [of |-> "main"]
InArray(arr, up)     == [of |-> "arr", arr |-> arr, up |-> up]
AtKey(kv, up)        == [of |-> "key", kv |-> kv, up |-> up]
AtValue(kv, key, up) == [of |-> "value", kv |-> kv, key |-> key, up |-> up]

JsonStart == [at |-> "val", pt |-> 1, call |-> Main, val |-> Num(0)]

(* How a parser ends: with a value; stoll finds no digit, or too many; a   *)
(* key that is no string, which reads through a null pointer, or reading   *)
(* on behind the text; an array that never ends.                           *)
JsonEnds == {"done", "throws", "undefined", "hang"}

(* The character at pt.  The text is followed by a 0.                      *)
Token(s, p) == IF p.pt <= Len(s) THEN s[p.pt].t ELSE "end"

Skip(p)     == [p EXCEPT !.pt = @ + 1]
Goes(p, at) == [p EXCEPT !.at = at]

(* emplace: the first value of a key counts.                               *)
Emplace(kv, key, val) ==
  [k \in DOMAIN kv \cup {key} |-> IF k \in DOMAIN kv THEN kv[k] ELSE val]

(* parse_val returns val to whoever called it.                             *)
Return(p, val) ==
  CASE p.call.of = "main" -> [p EXCEPT !.at = "done", !.val = val]
    [] p.call.of = "arr" ->
         [p EXCEPT !.at = "gap",
                   !.call = InArray(Append(p.call.arr, val), p.call.up)]
    [] p.call.of = "key" ->
         IF "str" \in DOMAIN val
         THEN [p EXCEPT !.at = "colon",
                        !.call = AtValue(p.call.kv, val.str, p.call.up)]
         ELSE Goes(p, "undefined")
    [] p.call.of = "value" ->
         [p EXCEPT !.at = "gap",
                   !.call = AtKey(Emplace(p.call.kv, p.call.key, val),
                                  p.call.up)]

Call(p, call) == [Skip(p) EXCEPT !.at = "loop", !.call = call]
Leave(p)      == [Skip(p) EXCEPT !.call = p.call.up]

(* At the end of the text there is a value of its own: the number 0.  A    *)
(* word moves pt by its length unseen, beyond the end if it is cut short.  *)
parse_val(s, p) ==
  LET t == Token(s, p)
  IN  CASE t = "end"      -> Return(p, Num(0))
        [] t \in Blank    -> Skip(p)
        [] t = "["        -> Call(p, InArray(<<>>, p.call))
        [] t = "{"        -> Call(p, AtKey(<<>>, p.call))
        [] t \in Scalars  -> IF t = "num" /\ s[p.pt].num > LongMax
                             THEN Goes(p, "throws")
                             ELSE Return(Skip(p), Scalar(s[p.pt]))
        [] t = "part"     -> IF p.call.of = "main"
                             THEN Return(Skip(p), Word(s[p.pt].word))
                             ELSE Goes(p, "undefined")
        [] t = "open"     -> Goes(p, "undefined")
        [] OTHER          -> Goes(p, "throws")

(* Mutant of Gap: commas are not skipped.                                  *)
GapOfBlanks == Blank

(* What is skipped behind a value.                                         *)
Gap == Blank \cup {","}

parse_array(s, p) ==
  LET t == Token(s, p)
  IN  CASE p.at = "gap" -> IF t \in Gap THEN Skip(p)
                           ELSE Goes(p, "loop")
        [] p.at = "loop" ->
             IF t = "]"
             THEN Return(Leave(p), Arr(p.call.arr))
             ELSE IF t = "end" THEN Goes(p, "hang")
             ELSE Goes(p, "val")

parse_kv(s, p) ==
  LET t == Token(s, p)
  IN  CASE p.at = "colon" -> IF t \in {"sp", ":"} THEN Skip(p)
                             ELSE Goes(p, "val")
        [] p.at = "gap" -> IF t \in Gap THEN Skip(p)
                           ELSE Goes(p, "loop")
        [] p.at = "loop" ->
             IF t = "}"
             THEN Return(Leave(p), Obj(p.call.kv))
             ELSE Goes(p, "val")

(* json_parser(File&): whoever is at it goes on.                           *)
json_parser(s, p) ==
  IF p.at = "val" THEN parse_val(s, p)
  ELSE IF p.call.of = "arr" THEN parse_array(s, p)
  ELSE parse_kv(s, p)

=============================================================================
