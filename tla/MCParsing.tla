------------------------------ MODULE MCParsing ------------------------------
(***************************************************************************)
(* Inputs for Parsing, and how they are written down.                      *)
(***************************************************************************)
EXTENDS Parsing, SequencesExt, FiniteSets

(* "/", "a", "%", a blank, "J", and a byte of UTF-8.  What a URL may not   *)
(* hold as it is must be escaped, the rest may be.                         *)
Codes == {47, 97, 37, 32, 74, 228}

Escape(ch) == <<Percent, Hex(ch \div 16), Hex(ch % 16)>>

Url(text, escaped) ==
  [text |-> text, escaped |-> escaped,
   url |-> FlattenSeq([i \in 1..Len(text) |->
             IF i \in escaped THEN Escape(text[i]) ELSE <<text[i]>>]),
   at  |-> [k \in 1..(Len(text) + 1) |->
             k + 2 * Cardinality({e \in escaped : e < k})]]

MCUrls == UNION {{Url(u, e) : e \in {d \in SUBSET (1..Len(u)) :
                    \A i \in 1..Len(u) : u[i] \in {37, 32} => i \in d}}
                 : u \in BoundedSeq(Codes, 3)}

Names == {<<"h">>, Path, PostContent}
Contents == {<<>>, <<Space>>, <<"v">>, <<Space, "v">>, <<Space, ":", "/">>}

HeadOf(h) ==
  LET lines == [k \in 1..Lines(h) |-> Written(h, k)]
  IN  [path |-> h.path, list |-> h.list, body |-> h.body,
       text |-> Front(FlattenSeq([k \in 1..Lines(h) |->
                                    Append(lines[k], Eol)])),
       at   |-> FoldLeft(LAMBDA at, line : Append(at, Last(at) + Len(line) + 1),
                         <<1>>, lines)]

MCHeads ==
  {HeadOf(h) : h \in
    [path: {<<>>, <<"p">>, <<"p", "/", "p">>, <<"/">>},
     list: BoundedSeq([name: Names, rest: Contents], 2),
     body: {<<>>, <<"h", ":", Space, "v">>}]}

MCFileSize == 12

DigitsOf(n) ==
  LET length == CHOOSE k \in 1..6 : n < 10^k /\ (k = 1 \/ n >= 10^(k - 1))
  IN  IF n = None THEN <<>>
      ELSE [i \in 1..length |-> (n \div 10^(length - i)) % 10]

NumeralOf(n) ==
  [digits |-> DigitsOf(n),
   sums   |-> FoldLeft(LAMBDA sums, d : Append(sums, 10 * Last(sums) + d),
                       <<0>>, DigitsOf(n))]

MCSpans ==
  {[first |-> NumeralOf(f), last |-> NumeralOf(l),
    text  |-> <<"b", "=">> \o Characters(NumeralOf(f)) \o <<"-">>
              \o Characters(NumeralOf(l))] : f, l \in None..13 \cup {LongMax, LongMax + 1}}

RECURSIVE Tokens(_, _)

(* Items, between commas, and blanks around each.                          *)
Listed(items, style) ==
  style \o FlattenSeq([i \in 1..Len(items) |->
    items[i] \o style
    \o IF i < Len(items) THEN <<[t |-> ","]>> \o style ELSE <<>>])

Member(o, key, style) ==
  <<[t |-> "str", str |-> key]>> \o style \o <<[t |-> ":"]>> \o style
  \o Tokens(o[key], style)

Numeral(n) == [t |-> "num", num |-> n]

(* 1.5 or -1.                                                              *)
Tokens(v, style) ==
  CASE "num"  \in DOMAIN v -> <<Numeral(v.num)>>
    [] "real" \in DOMAIN v ->
         IF style = <<>> THEN <<Numeral(1), [t |-> "-"], Numeral(5)>>
         ELSE <<[t |-> "-"], Numeral(1)>>
    [] "str"  \in DOMAIN v -> <<[t |-> "str", str |-> v.str]>>
    [] "word" \in DOMAIN v -> <<[t |-> v.word]>>
    [] "arr"  \in DOMAIN v ->
         LET items == [i \in 1..Len(v.arr) |-> Tokens(v.arr[i], style)]
         IN  <<[t |-> "["]>> \o Listed(items, style) \o <<[t |-> "]"]>>
    [] "obj"  \in DOMAIN v ->
         LET keys  == SetToSeq(DOMAIN v.obj)
             items == [i \in 1..Len(keys) |-> Member(v.obj, keys[i], style)]
         IN  <<[t |-> "{"]>> \o Listed(items, style) \o <<[t |-> "}"]>>

(* Behind the token at i: a number goes on if a "-" follows.               *)
MarkBehind(text, marks, i) ==
  CHOOSE m \in After(Last(marks), text[i]) :
    text[i].t = "num" =>
      (m.want = "point" <=> i < Len(text) /\ text[i + 1].t = "-")

Pieces(token) ==
  CASE token.t = "str" -> {[t |-> "open"]}
    [] token.t \in {"true", "false", "null"} -> {[t |-> "part", word |-> token.t]}
    [] token.t = "num" -> {Numeral(token.num \div 10)}
    [] OTHER -> {}

(* The texts of which the last tokens are missing, and maybe a piece of    *)
(* the one in front of them.                                               *)
TextsOf(json, style, cuts) ==
  LET text   == style \o Tokens(json, style) \o style
      Given(cut) == SubSeq(text, 1, Len(text) - cut)
      givens == UNION {{Given(cut)} \cup
                  IF Given(cut) = <<>> THEN {}
                  ELSE {Append(Front(Given(cut)), piece) :
                          piece \in IF cuts = {0} THEN {}
                                    ELSE Pieces(Last(Given(cut)))}
                  : cut \in {c \in cuts : c <= Len(text)}}
      marks  == FoldLeft(LAMBDA m, i : Append(m, MarkBehind(text, m, i)),
                         <<Wants("value", Main)>>, [i \in 1..Len(text) |-> i])
  IN  {[json |-> json, text |-> text, marks |-> marks, given |-> given] :
         given \in givens}

Simple == {Num(0), Num(LongMax + 1), Str(<<>>), Str(<<"a">>), Word("true"), Real}
Few == {Num(70), Str(<<"a">>)}
Nested == Few \cup {Arr(a) : a \in BoundedSeq(Few, 1)}
          \cup {Obj(<<>>)} \cup {Obj([x |-> v]) : v \in Few}
MCValues == Simple \cup {Arr(a) : a \in BoundedSeq(Simple \cup Nested, 2)}
            \cup {Obj([x |-> v]) : v \in Simple \cup Nested}
            \cup {Obj([x |-> v, y |-> w]) : v, w \in Nested}
Styles == {<<>>, <<[t |-> "sp"]>>, <<[t |-> "nl"], [t |-> "sp"]>>}
MCTexts == UNION {TextsOf(v, s, 0..4) : v \in MCValues, s \in Styles}

Dirs == {Str(<<>>), Str(<<"d">>), Str(<<"d", "/">>), Str(<<"/">>), Num(1)}
Ports == {Num(1), Num(65535), Num(65537), Num(LongMax + 1), Real, Str(<<"d">>),
          Arr(<<>>), Obj(<<>>)}
Sets ==
  [HttpPath: Dirs] \cup [FileReceived: Dirs, FileToSend: Dirs]
  \cup [DefaultPage: Dirs, ListenPort: Ports]
  \cup [HttpPath: Dirs, Other: Dirs \cup {Arr(<<>>)}]

MCConfigs ==
  UNION {{[json |-> t.json, text |-> t.text, marks |-> t.marks,
           given |-> t.given, set |-> set, missing |-> m] :
            t \in TextsOf(Obj(set), s, {0})}
         : set \in Sets, s \in Styles, m \in BOOLEAN}

Address == <<"1", ":", "8">>
File == <<".", "/", "f">>
MCAddresses == {Address}
MCPaths == {File}
MCArgvS ==
  BoundedSeq({<<"-", "f">>, <<"-", "f">> \o File, <<"-", "m">>, <<"-", "n", "g">>,
              <<"-", "n">>, <<"-", "h">>, <<"-", "x">>, <<"-", "-">>, <<"-">>,
              Address, File}, 4)
=============================================================================
