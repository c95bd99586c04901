------------------------------- MODULE Startup -------------------------------
(***************************************************************************)
(* How the process starts: main's reading of its arguments, and loop()'s   *)
(* of sft.json.  A name of a file or a directory is a sequence of          *)
(* characters, of which only "/" matters.                                  *)
(***************************************************************************)
EXTENDS Json

-----------------------------------------------------------------------------
(* Arguments.                                                              *)

(* What getopt has seen of the arguments behind the program's name: how    *)
(* many, and how many characters of the next; whether "--" has ended the   *)
(* options; the option that lacks its word, the words of options, whether  *)
(* there was a -n, and all that is no option.                              *)
MainStart == [did |-> "reads", seen |-> 0, chars |-> 0, ended |-> FALSE,
              needs |-> "none", given |-> <<>>, no_log_file |-> FALSE,
              rest |-> <<>>]

IsOption(arg) == Len(arg) > 1 /\ arg[1] = "-"

Passed(o) == [o EXCEPT !.seen = @ + 1, !.chars = 0]

Give(o, option, word) ==
  [Passed(o) EXCEPT !.given = [n \in DOMAIN @ \cup {option} |->
                                 IF n = option THEN word ELSE @[n]],
                    !.needs = "none"]

(* The next letter of options that share a "-".  A word is behind its      *)
(* option in the same argument, or is the next argument whatever it is.    *)
(* -c is a letter that main does not know what to do with.                 *)
Letter(o, arg) ==
  LET i == o.chars + 1
  IN  CASE i > Len(arg) -> Passed(o)
        [] i <= Len(arg) /\ arg[i] \in {"f", "m", "g"} ->
             IF i < Len(arg) THEN Give(o, arg[i], SubSeq(arg, i + 1, Len(arg)))
             ELSE [Passed(o) EXCEPT !.needs = arg[i]]
        [] i <= Len(arg) /\ arg[i] = "n" ->
             [o EXCEPT !.chars = i, !.no_log_file = TRUE]
        [] i <= Len(arg) /\ arg[i] = "h" -> [o EXCEPT !.did = "usage"]
        [] i <= Len(arg) /\ arg[i] = "v" -> [o EXCEPT !.did = "version"]
        [] i <= Len(arg) /\ arg[i] \notin {"f", "m", "g", "n", "h", "v"} ->
             [o EXCEPT !.did = "throws"]

(* getopt moves what is no option to the end, in order.                    *)
getopt(o, arg) ==
  CASE o.needs # "none" -> Give(o, o.needs, arg)
    [] o.needs = "none" /\ o.chars > 0 -> Letter(o, arg)
    [] o.needs = "none" /\ o.chars = 0 ->
         IF o.ended \/ ~IsOption(arg)
         THEN [Passed(o) EXCEPT !.rest = Append(@, arg)]
         ELSE IF arg = <<"-", "-">> THEN [Passed(o) EXCEPT !.ended = TRUE]
         ELSE [o EXCEPT !.chars = 1]

(* The client's call.  Without an option there is none, only the message   *)
(* that it succeeded.                                                      *)
Client(o, Addresses, Paths) ==
  IF o.rest[1] \notin Addresses THEN "no port"
  ELSE IF "f" \in DOMAIN o.given
  THEN IF o.given["f"] \in Paths THEN "send_file_to" ELSE "no file"
  ELSE IF "m" \in DOMAIN o.given THEN "send_msg_to"
  ELSE IF "g" \in DOMAIN o.given THEN "get_file_from"
  ELSE "success"

(* Mutant of Decision: the address is not asked for.                       *)
DecisionUnasked(argv, o, Addresses, Paths) ==
  IF o.needs # "none" THEN "throws"
  ELSE IF Len(argv) <= 1 THEN "serve"
  ELSE IF o.rest = <<>> THEN "undefined"
  ELSE Client(o, Addresses, Paths)

(* What main does with what it has read.  One argument or none start a     *)
(* server.  With -n the address may be missing, which lets parse_arg look  *)
(* at a null pointer.                                                      *)
Decision(argv, o, Addresses, Paths) ==
  IF o.needs # "none" THEN "throws"
  ELSE IF argv # <<>> /\ o.rest = <<>> /\ ~o.no_log_file THEN "no address"
  ELSE IF Len(argv) <= 1 THEN "serve"
  ELSE IF o.rest = <<>> THEN "undefined"
  ELSE Client(o, Addresses, Paths)

main(argv, o, Addresses, Paths) ==
  IF o.seen < Len(argv) THEN getopt(o, argv[o.seen + 1])
  ELSE [o EXCEPT !.did = Decision(argv, o, Addresses, Paths)]

-----------------------------------------------------------------------------
(* Configuration.                                                          *)

Here == <<".", "/">>
Index == <<"index.html">>

Defaults == [HttpPath |-> Here, FileReceived |-> Here, FileToSend |-> Here,
             DefaultPage |-> Index]

WithSlash(dir) == IF dir[Len(dir)] = "/" THEN dir ELSE Append(dir, "/")

(* Mutant of Setting: an empty name is taken, too.                         *)
SettingAny(obj, k) ==
  LET name == IF k \in DOMAIN obj THEN obj[k].str ELSE Defaults[k]
  IN  IF k = "DefaultPage" THEN name ELSE Append(name, "/")

(* What json_conf has for k: an empty name leaves the default.             *)
Setting(obj, k) ==
  LET name == IF k \in DOMAIN obj /\ obj[k].str # <<>> THEN obj[k].str
              ELSE Defaults[k]
  IN  IF k = "DefaultPage" THEN name ELSE WithSlash(name)

(* A uint16_t.  The _val of an array or an object is the variant's first   *)
(* alternative, the number 0.                                              *)
Port(obj) ==
  LET is == IF "ListenPort" \in DOMAIN obj THEN DOMAIN obj["ListenPort"]
            ELSE {}
  IN  CASE is = {"num"} -> obj["ListenPort"].num % 65536
        [] is \in {{"arr"}, {"obj"}} -> 0
        [] OTHER -> 9007

(* A value that is no string is dereferenced all the same, and so is the   *)
(* last character of an empty name that has no default.                    *)
Misread(obj, k) ==
  \/ "str" \notin DOMAIN obj[k]
  \/ obj[k].str = <<>> /\ k \notin DOMAIN Defaults

(* sft.json is opened; if that fails, what is thrown is no std::exception, *)
(* and nobody catches it.                                                  *)
ConfigStart == Goes(JsonStart, "opens")

open_read_only(missing, p) == Goes(p, IF missing THEN "terminate" ELSE "val")

(* json_conf and the port, once the parser has come to an end.  A text     *)
(* that does not parse leaves json_conf empty.                             *)
configure(p) ==
  LET obj   == IF "obj" \in DOMAIN p.val THEN p.val.obj ELSE <<>>
      names == DOMAIN obj \ {"ListenPort"}
  IN  CASE p.at = "throws" -> [at |-> "set", conf |-> <<>>, port |-> 9007]
        [] p.at = "done" /\ (\E k \in names : Misread(obj, k)) ->
             Goes(p, "undefined")
        [] p.at = "done" /\ ~(\E k \in names : Misread(obj, k)) ->
             [at |-> "set", port |-> Port(obj),
              conf |-> [k \in names \cup DOMAIN Defaults |->
                          Setting(obj, k)]]

=============================================================================
