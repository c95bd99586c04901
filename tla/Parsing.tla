------------------------------- MODULE Parsing -------------------------------
(***************************************************************************)
(* The parsers of the program, each run on an input that was written down  *)
(* in a known way: URLs, HTTP requests and their ranges, JSON texts,       *)
(* sft.json and the arguments of main.  A step is a turn of the parser's   *)
(* loop.  An input has the text, what it was written from, and where in    *)
(* the text each part of that is.                                          *)
(***************************************************************************)
EXTENDS HttpText, Startup

CONSTANTS
  Urls,       \* texts that were escaped, see UrlWritten
  Heads,      \* requests, see HeadWritten
  Spans,      \* ranges, see SpanWritten
  FileSize,   \* of the file that the ranges are of
  Texts,      \* JSON texts, some of them cut short, see JsonWritten
  Configs,    \* JSON objects for sft.json, some of whose files are missing
  ArgvS,      \* sequences of arguments
  Addresses,  \* the arguments with a colon
  Paths       \* the arguments that are files one can send

VARIABLES
  input,      \* [kind: which parser, of: what it reads]
  state       \* the parser's variables

vars == <<input, state>>

-----------------------------------------------------------------------------
(* How the inputs are written.                                             *)

(* An upper-case hex digit.                                                *)
Hex(n) == IF n < 10 THEN 48 + n ELSE 55 + n

(* Any characters are escaped, and among them every '%' and 0.             *)
UrlWritten(u) ==
  LET text == u.text
      url  == u.url
      at   == u.at
  IN  /\ text \in Seq(0..255) /\ url \in Seq(0..255)
      /\ at \in [1..(Len(text) + 1) -> Nat \ {0}]
      /\ at[1] = 1 /\ at[Len(text) + 1] = Len(url) + 1
      /\ \A k \in 1..Len(text) :
           IF k \in u.escaped
           THEN /\ at[k + 1] = at[k] + 3
                /\ url[at[k]] = Percent
                /\ url[at[k] + 1] = Hex(text[k] \div 16)
                /\ url[at[k] + 2] = Hex(text[k] % 16)
           ELSE /\ at[k + 1] = at[k] + 1
                /\ url[at[k]] = text[k] /\ text[k] \notin {0, Percent}

(* The lines of a request: the first, a header each, an empty one, and one *)
(* that is posted.  A header is its name, whatever it is, a colon, and the *)
(* rest of the line, which mostly begins with a blank.                     *)
Lines(h) == Len(h.list) + 3

Written(h, k) ==
  CASE k = 1 -> <<"G", "E", "T", Space, "/">> \o h.path
                \o <<Space, "H", "/", "1", ".", "1">>
    [] k \in 2..(Len(h.list) + 1) ->
         h.list[k - 1].name \o <<":">> \o h.list[k - 1].rest
    [] k = Len(h.list) + 2 -> <<>>
    [] k = Len(h.list) + 3 -> h.body

Lacks(s, ch) == \A i \in 1..Len(s) : s[i] # ch

HeadWritten(h) ==
  /\ h.text \in Seq(STRING) /\ h.path \in Seq(STRING) /\ h.body \in Seq(STRING)
  /\ h.list \in Seq([name: Seq(STRING), rest: Seq(STRING)])
  /\ h.at \in [1..(Lines(h) + 1) -> Nat \ {0}]
  /\ h.at[1] = 1 /\ h.at[Lines(h) + 1] = Len(h.text) + 2
  /\ \A k \in 1..Lines(h) :
       /\ h.at[k + 1] = h.at[k] + Len(Written(h, k)) + 1
       /\ SubSeq(h.text, h.at[k], h.at[k + 1] - 2) = Written(h, k)
       /\ Lacks(Written(h, k), Eol)
       /\ k < Lines(h) => h.text[h.at[k + 1] - 1] = Eol
  /\ Lacks(h.path, Space) /\ \A i \in 1..Len(h.list) : Lacks(h.list[i].name, ":")

(* A number: its digits, and what those in front of each make.             *)
NumberWritten(n) ==
  /\ n.digits \in Seq(0..9) /\ n.sums \in [1..(Len(n.digits) + 1) -> Nat]
  /\ n.sums[1] = 0
  /\ \A i \in 1..Len(n.digits) : n.sums[i + 1] = 10 * n.sums[i] + n.digits[i]

Number(n) == IF n.digits = <<>> THEN None ELSE n.sums[Len(n.digits) + 1]

Characters(n) == [i \in 1..Len(n.digits) |-> Digits[n.digits[i] + 1]]

SpanWritten(r) ==
  /\ NumberWritten(r.first) /\ NumberWritten(r.last)
  /\ r.text = <<"b", "=">> \o Characters(r.first) \o <<"-">>
               \o Characters(r.last)

(* How JSON is written token by token: what is wanted next, and the arrays *)
(* and objects that are not complete.  A number may have a sign, a point   *)
(* and an exponent, which are "-" each; then what it is does not matter.   *)
(* No key comes twice, and no string has an escape.                        *)
Real == [real |-> TRUE]

Wants(want, call) == [want |-> want, call |-> call]

(* Behind a value in call.                                                 *)
Behind(call, val) ==
  CASE call.of = "main"  -> [want |-> "end", val |-> val]
    [] call.of = "arr"   -> Wants("next", InArray(Append(call.arr, val), call.up))
    [] call.of = "value" ->
         Wants("next", AtKey([k \in DOMAIN call.kv \cup {call.key} |->
                                IF k = call.key THEN val ELSE call.kv[k]],
                             call.up))

Values == {"value", "item", "spacedItem"}

(* The marks behind a token, if it may be there: behind digits a number    *)
(* may end or go on.                                                       *)
After(m, token) ==
  LET t == token.t
  IN  CASE m.want \in Values /\ t = "num" ->
             {Behind(m.call, Num(token.num)), Wants("point", m.call)}
        [] m.want \in Values /\ t \in Scalars \ {"num"} ->
             {Behind(m.call, Scalar(token))}
        [] m.want \in Values \cup {"point", "digits"} /\ t = "-" ->
             {Wants("digits", m.call)}
        [] m.want = "digits" /\ t = "num" ->
             {Behind(m.call, Real), Wants("point", m.call)}
        [] m.want \in Values /\ t = "[" ->
             {Wants("item", InArray(<<>>, m.call))}
        [] m.want \in Values /\ t = "{" ->
             {Wants("name", AtKey(<<>>, m.call))}
        [] m.want \in {"key", "name", "spacedName"} /\ t = "str" ->
             {Wants("colon", AtValue(m.call.kv, key, m.call.up)) :
                key \in {token.str} \ DOMAIN m.call.kv}
        [] m.want = "colon" /\ t = ":" -> {Wants("value", m.call)}
        [] m.want = "next" /\ t = "," ->
             {Wants(IF m.call.of = "arr" THEN "value" ELSE "key", m.call)}
        [] m.want \in {"item", "spacedItem", "next"} /\ t = "]" ->
             {Behind(m.call.up, Arr(call.arr)) :
                call \in {c \in {m.call} : c.of = "arr"}}
        [] m.want \in {"name", "spacedName", "next"} /\ t = "}" ->
             {Behind(m.call.up, Obj(call.kv)) :
                call \in {c \in {m.call} : c.of = "key"}}
        [] m.want \in {"item", "spacedItem"} /\ t \in Blank ->
             {Wants("spacedItem", m.call)}
        [] m.want \in {"name", "spacedName"} /\ t \in Blank ->
             {Wants("spacedName", m.call)}
        [] m.want \in {"value", "key", "colon", "next", "end"} /\ t \in Blank ->
             {m}
        [] OTHER -> {}

(* What the parser cannot take: a number with a sign, a point or an        *)
(* exponent, or one too large; a line's end in front of a colon; blanks    *)
(* between empty brackets.                                                 *)
Pitfall(m, token) ==
  \/ token.t = "-"
  \/ token.t = "num" /\ token.num > LongMax
  \/ m.want = "colon" /\ token.t = "nl"
  \/ m.want = "spacedItem" /\ token.t = "]"
  \/ m.want = "spacedName" /\ token.t = "}"

Plain(j) == \A i \in 1..Len(j.text) : ~Pitfall(j.marks[i], j.text[i])

(* A token of which the end is missing.                                    *)
Broken(token, part) ==
  \/ token.t = "str" /\ part.t = "open"
  \/ /\ token.t \in {"true", "false", "null"}
     /\ part.t = "part" /\ part.word = token.t
  \/ token.t = "num" /\ part.t = "num"

(* The text, and what the parser is given of it, which may be cut short.   *)
JsonWritten(j) ==
  /\ Len(j.text) \in Nat /\ j.marks[1] = Wants("value", Main)
  /\ \A i \in 1..Len(j.text) : j.marks[i + 1] \in After(j.marks[i], j.text[i])
  /\ j.marks[Len(j.text) + 1] = [want |-> "end", val |-> j.json]
  /\ Len(j.given) \in 0..Len(j.text)
  /\ \A i \in 1..Len(j.given) :
       \/ j.given[i] = j.text[i]
       \/ i = Len(j.given) /\ Broken(j.text[i], j.given[i])

Cut(j) == j.given # j.text

(* What is set is an object; a name is text, a port's number is one.       *)
ConfigWritten(c) ==
  /\ JsonWritten(c) /\ ~Cut(c) /\ c.json = Obj(c.set) /\ c.missing \in BOOLEAN
  /\ \A k \in DOMAIN c.set :
       /\ "str" \in DOMAIN c.set[k] => c.set[k].str \in Seq(STRING)
       /\ k = "ListenPort" /\ "num" \in DOMAIN c.set[k] => c.set[k].num \in Nat

ASSUME ParsingAssumption ==
  /\ \A u \in Urls : UrlWritten(u)
  /\ \A h \in Heads : HeadWritten(h)
  /\ \A r \in Spans : SpanWritten(r)
  /\ \A j \in Texts : JsonWritten(j)
  /\ \A c \in Configs : ConfigWritten(c)
  /\ ArgvS \subseteq Seq(Seq(STRING))

-----------------------------------------------------------------------------
(* Each parser is run once.                                                *)

Reads(kind) == input.kind = kind

Input(kind, of) == input = [kind |-> kind, of |-> of]

Init ==
  \/ \E u \in Urls  : Input("url", u)  /\ state = UrlStart(u.url)
  \/ \E h \in Heads : Input("head", h) /\ state = RequestStart(h.text)
  \/ \E r \in Spans : Input("span", r) /\ state = RangeStart(r.text)
  \/ \E j \in Texts : Input("json", j) /\ state = JsonStart
  \/ \E c \in Configs : Input("config", c) /\ state = ConfigStart
  \/ \E a \in ArgvS : Input("argv", a) /\ state = MainStart

ReadUrl ==
  /\ Reads("url") /\ state.ridx # 0
  /\ state' = decode_url(input.of.url, state)
  /\ UNCHANGED input

ReadRequest ==
  /\ Reads("head") /\ state.at = "headers"
  /\ state' = parse_http_request(input.of.text, state)
  /\ UNCHANGED input

ReadRange ==
  /\ Reads("span") /\ state.at \in {"first", "last"}
  /\ state' = RangeOf(input.of.text, FileSize, state)
  /\ UNCHANGED input

ReadJson ==
  /\ Reads("json") \/ Reads("config")
  /\ state.at \notin JsonEnds \cup {"opens", "set", "terminate"}
  /\ state' = json_parser(input.of.given, state)
  /\ UNCHANGED input

OpenConfig ==
  /\ Reads("config") /\ state.at = "opens"
  /\ state' = open_read_only(input.of.missing, state)
  /\ UNCHANGED input

ReadConfig ==
  /\ Reads("config") /\ state.at \in {"done", "throws"}
  /\ state' = configure(state)
  /\ UNCHANGED input

ReadArgv ==
  /\ Reads("argv") /\ state.did = "reads"
  /\ state' = main(input.of, state, Addresses, Paths)
  /\ UNCHANGED input

Next ==
  \/ ReadUrl \/ ReadRequest \/ ReadRange \/ ReadJson
  \/ OpenConfig \/ ReadConfig \/ ReadArgv

Spec == Init /\ [][Next]_vars

-----------------------------------------------------------------------------
(* Properties.                                                             *)

(* Escaping any characters of a text, by two digits in upper case, makes   *)
(* no difference to decode_url, wherever escapes meet (http.hpp:264-287).  *)
UrlDecoded ==
  Reads("url") /\ state.ridx = 0 => state.ret_str = input.of.text

(* A request is read back as it was written, whatever characters of the    *)
(* syntax its parts hold: its path, its body's first line, and of each     *)
(* header the last one with its name, without the character behind the     *)
(* colon, blank or not; but a header named path takes the path's place,    *)
(* and the posted line that of one named post_content.  It is refused only *)
(* for a header with nothing behind its colon (http.hpp:221-262).  A range *)
(* is read to the numbers it has, in the file or not, an open one up to    *)
(* the file's last byte; it is refused only if the first is missing or one *)
(* too large (server.hpp:505-512).                                         *)
RequestRead ==
  /\ Reads("head") /\ state.at # "headers" =>
       LET h     == input.of
           map   == state.map
           Names == {h.list[i].name : i \in 1..Len(h.list)}
       IN  IF \E i \in 1..Len(h.list) : h.list[i].rest = <<>>
           THEN state.at = "throws"
           ELSE /\ state.at = "done"
                /\ DOMAIN map = {Path, PostContent} \cup Names
                /\ map[PostContent] = h.body
                /\ Path \notin Names => map[Path] = h.path
                /\ \A i \in 1..Len(h.list) :
                     \/ h.list[i].name = PostContent
                     \/ map[h.list[i].name] = Tail(h.list[i].rest)
                     \/ \E j \in (i + 1)..Len(h.list) :
                          h.list[j].name = h.list[i].name
  /\ Reads("span") /\ state.at \notin {"first", "last"} =>
       LET first == Number(input.of.first)
           last  == Number(input.of.last)
       IN  IF first = None \/ first > LongMax \/ last > LongMax
           THEN state.at = "throws"
           ELSE /\ state.at = "done" /\ state.first = first
                /\ state.last = IF last = None THEN FileSize - 1 ELSE last

(* A JSON text that is all there gives the value it was written from and   *)
(* is read to its end, unless it has a pitfall: then it is refused, or is  *)
(* a number for which another is taken.  An array or an object, cut short  *)
(* or not, is never taken for another one (json.hpp).                      *)
JsonRead ==
  LET j      == input.of
      Right  == /\ state.at = "done" /\ state.val = j.json
                /\ \A i \in state.pt..Len(j.text) : j.text[i].t \in Blank
      Nested == DOMAIN j.json \cap {"arr", "obj"} # {}
  IN  Reads("json") /\ state.at \in JsonEnds =>
        /\ ~Cut(j) /\ ~Right =>
             /\ ~Plain(j)
             /\ Nested => state.at = "throws"
             /\ ~Nested => state.at \in {"throws", "done"}
        /\ Nested /\ state.at = "done" =>
             Right \/ \A i \in 1..Len(j.given) : j.given[i].t \in Blank

(* What the user set in sft.json is what the server uses, names of         *)
(* directories with one "/" at their end so that a file's name can follow; *)
(* what is not set has its default.  Only a value that is no string, or an *)
(* empty name for something that has no default, is undefined.  If the     *)
(* text has a pitfall, nothing of it is used, nor a default but that of    *)
(* the port; if there is no sft.json, there is no server, either           *)
(* (server.hpp:116-140).                                                   *)
ConfigApplied ==
  LET set    == input.of.set
      Set(k) == k \in DOMAIN set /\ set[k].str # <<>>
      Name(k, default) == IF Set(k) THEN set[k].str ELSE default
      Ends(name) == name[Len(name)] = "/"
      port   == IF "ListenPort" \in DOMAIN set THEN DOMAIN set["ListenPort"]
                ELSE {}
      got    == state.conf
  IN  /\ Reads("config") =>
           /\ state.at # "hang"
           /\ state.at # "opens" => (state.at = "terminate" <=> input.of.missing)
           /\ state.at = "throws" => ~Plain(input.of)
           /\ state.at = "undefined" =>
                \E k \in DOMAIN set \ {"ListenPort"} :
                  \/ "str" \notin DOMAIN set[k]
                  \/ ~Set(k) /\ k \notin DOMAIN Defaults
      /\ Reads("config") /\ state.at = "set" =>
           \/ ~Plain(input.of) /\ got = <<>> /\ state.port = 9007
           \/ /\ got["DefaultPage"] = Name("DefaultPage", Index)
              /\ \A k \in (DOMAIN got \cup DOMAIN Defaults) \ {"DefaultPage"} :
                   \/ Ends(Name(k, Here)) /\ got[k] = Name(k, Here)
                   \/ ~Ends(Name(k, Here)) /\ got[k] = Append(Name(k, Here), "/")
              /\ \A k \in DOMAIN set \ {"ListenPort"} : Set(k) => k \in DOMAIN got
              /\ port = {"num"} => state.port = set["ListenPort"].num % 65536
              /\ port \in {{"arr"}, {"obj"}} => state.port = 0
              /\ port \notin {{"num"}, {"arr"}, {"obj"}} => state.port = 9007

(* Whoever asks for a transfer gets no server, unless there is a -n, and   *)
(* no other transfer; every transfer has an address, and a file that is    *)
(* sent can be read.  Nothing undefined happens to who does not say -n     *)
(* (main.cpp:92-163).                                                      *)
TransferAsAsked ==
  Reads("argv") =>
    LET argv   == input.of
        did    == state.did
        Says(option) == \E i \in 1..Len(argv) : IsOption(argv[i])
                          /\ \E k \in 2..Len(argv[i]) : argv[i][k] = option
        Gives(option, S) ==
          \E i \in 1..Len(argv) :
            \E k \in 2..Len(argv[i]) :
              /\ argv[i][k] = option
              /\ \/ SubSeq(argv[i], k + 1, Len(argv[i])) \in S
                 \/ k = Len(argv[i]) /\ i < Len(argv) /\ argv[i + 1] \in S
    IN  /\ did = "serve" => \/ ~Says("f") /\ ~Says("m") /\ ~Says("g")
                            \/ Says("n")
        /\ did = "send_file_to" => Gives("f", Paths)
        /\ did = "send_msg_to" => Says("m")
        /\ did = "get_file_from" => Says("g")
        /\ did \in {"send_file_to", "send_msg_to", "get_file_from"}
             => \E i \in 1..Len(argv) : argv[i] \in Addresses
        /\ did = "undefined" => Says("n")

=============================================================================
