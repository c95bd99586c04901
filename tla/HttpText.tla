------------------------------ MODULE HttpText ------------------------------
(***************************************************************************)
(* What http.hpp and handle_http make of the text of a request, one turn   *)
(* of a parser's loop after the other.  A text is a sequence of            *)
(* characters: for decode_url their codes, 0..255; for the rest strings of *)
(* one character, a Space, and Eol for CR LF.                              *)
(***************************************************************************)
EXTENDS Numbers, Sequences, FiniteSetsExt

(* strchr_c, find_first_of: the first ch in s from i on, or 0.             *)
Find(s, ch, i) ==
  LET at == {j \in i..Len(s) : s[j] = ch}
  IN  IF at = {} THEN 0 ELSE Min(at)

(* Where a part of s that begins at i and is ended by ch ends.             *)
End(s, ch, i) == IF Find(s, ch, i) = 0 THEN Len(s) ELSE Find(s, ch, i) - 1

-----------------------------------------------------------------------------
(* URLs.                                                                   *)

Percent == 37

(* Mutant of HexDigit: letters count from 0.                               *)
HexDigitFromA(h) == IF h \in 48..57 THEN h - 48 ELSE h - 65

(* _single_hex_to_char.  A lower-case letter gives 32 too much, which only *)
(* the first digit of two loses again.                                     *)
HexDigit(h) == IF h \in 48..57 THEN h - 48 ELSE h - 55

(* hex_str_to_char, into a char of 8 bits.                                 *)
HexChar(s, i) == (HexDigit(s[i]) * 16 + HexDigit(s[i + 1])) % 256

(* What decode_url has in front of its loop, and where the loop is: at a   *)
(* '%', or at 0 when there is none left.                                   *)
UrlStart(str) ==
  [ret_str |-> SubSeq(str, 1, End(str, Percent, 1)),
   ridx    |-> Find(str, Percent, 1)]

decode_url(str, u) ==
  LET next == u.ridx + 3
  IN  [ret_str |-> u.ret_str \o <<HexChar(str, u.ridx + 1)>>
                   \o SubSeq(str, next, End(str, Percent, next)),
       ridx    |-> Find(str, Percent, next)]

-----------------------------------------------------------------------------
(* Requests.                                                               *)

Eol == "eol"
Space == "sp"

(* The line that begins at i, as str_split at CR LF gives it.              *)
Line(s, i) == SubSeq(s, i, End(s, Eol, i))

(* Mutant of Value: the blank is taken for optional.                       *)
ValueTrimmed(line) == SubSeq(line, Find(line, ":", 1) + 1, Len(line))

(* What is behind the colon and one more character.                        *)
Value(line) == SubSeq(line, Find(line, ":", 1) + 2, Len(line))

(* All that was parsed is in one map.  Its own entries have names that a   *)
(* header may have, too; method and edition, which nothing reads, are left *)
(* out.                                                                    *)
Path == <<"path">>
PostContent == <<"post_content">>

Assign(map, name, value) ==
  [n \in DOMAIN map \cup {name} |-> IF n = name THEN value ELSE map[n]]

(* The request line: the path is between the first '/' and the next blank. *)
RequestStart(s) ==
  LET slash == Find(s, "/", 2)
  IN  [at |-> "headers", pt |-> End(s, Eol, 1) + 2,
       map |-> [n \in {Path} |->
                  SubSeq(s, slash + 1, Find(s, Space, slash) - 1)]]

(* A turn of the loop over the headers.  A line without a colon is the     *)
(* last; the next, if there is one, is what was posted.  A colon at the    *)
(* end of its line makes substr throw.                                     *)
parse_http_request(s, r) ==
  LET line == Line(s, r.pt)
      idx  == Find(line, ":", 1)
      next == r.pt + Len(line) + 1
  IN  IF r.pt > Len(s) + 1 THEN [r EXCEPT !.at = "done"]
      ELSE IF idx = 0
      THEN [r EXCEPT !.at  = "done",
                     !.map = IF next > Len(s) + 1 THEN @
                             ELSE Assign(@, PostContent, Line(s, next))]
      ELSE IF idx = Len(line) THEN [r EXCEPT !.at = "throws"]
      ELSE [r EXCEPT !.pt  = next,
                     !.map = Assign(@, SubSeq(line, 1, idx - 1), Value(line))]

-----------------------------------------------------------------------------
(* Ranges.                                                                 *)

Digits == <<"0", "1", "2", "3", "4", "5", "6", "7", "8", "9">>

DigitOf(ch) == {d \in 0..9 : Digits[d + 1] = ch}

(* A Range header with a '-', before it is read.                           *)
RangeStart(s) ==
  [at |-> "first", pt |-> Find(s, "=", 1) + 1, number |-> None,
   first |-> None, last |-> None]

(* The bytes that it asks for: the number between '=' and '-', and that    *)
(* behind '-', where nothing stands for the end of the file.  stol takes   *)
(* one digit after another, and throws if there is none or the number is   *)
(* too large.  The signs and blanks it would take in front are not in a    *)
(* range as SpanWritten has them.                                          *)
RangeOf(s, file_size, r) ==
  LET split_idx == Find(s, "-", 1)
      digit  == IF r.pt <= Len(s) THEN DigitOf(s[r.pt]) ELSE {}
      number == WithDigit(r.number, CHOOSE d \in digit : TRUE)
  IN  IF digit # {} /\ number > LongMax THEN [r EXCEPT !.at = "throws"]
      ELSE IF digit # {} THEN [r EXCEPT !.pt = @ + 1, !.number = number]
      ELSE IF r.number = None THEN [r EXCEPT !.at = "throws"]
      ELSE IF r.at = "last" THEN [r EXCEPT !.at = "done", !.last = r.number]
      ELSE IF split_idx = Len(s)
      THEN [r EXCEPT !.at = "done", !.first = r.number,
                     !.last = file_size - 1]
      ELSE [r EXCEPT !.at = "last", !.first = r.number,
                     !.pt = split_idx + 1, !.number = None]

=============================================================================
