----------------------------- MODULE HttpSession -----------------------------
(***************************************************************************)
(* One keep-alive connection through handle_http of server.hpp: several    *)
(* requests for one file, over an edge-triggered socket, and what the      *)
(* client gets for them.  The bytes of pages are counted; a header, with   *)
(* the error page behind it, is one unit of the send buffer.               *)
(*                                                                         *)
(* Each read and each sendfile64 is a step.  The client stays: what        *)
(* becomes of a connection whose client leaves is in Reactor.              *)
(***************************************************************************)
EXTENDS Integers, Sequences

CONSTANTS
  Size,      \* of the file
  SockBuf,   \* what the send buffer holds
  MaxAsks,   \* bound: requests on the connection
  MaxReads,  \* bound: answers after which the client stops reading
  Asks,      \* the requests a client may make
  MaxHasty   \* bound: requests of a client that does not wait for answers,
             \* or sends a request in two segments

(* What the server makes of a request: the page; the page, which the       *)
(* client has (If-None-Match); bytes first..last of it (Range); a page     *)
(* that is not there; one that is no regular file; a request with a header *)
(* line that has nothing behind its colon.                                 *)
Ask == [what: {"page", "cached", "range", "missing", "refused", "bad"},
        first: Nat, last: Nat, close: BOOLEAN]

ASSUME SessionAssumption ==
  /\ Size \in Nat /\ SockBuf \in Nat \ {0} /\ MaxAsks \in Nat /\ MaxReads \in Nat
  /\ Asks \subseteq Ask
  /\ MaxHasty \in Nat

VARIABLES
  asks,       \* the requests sent so far
  client,     \* has it always waited for the answer, or is half a request out?
  in,         \* segments the server has not read
  unread,     \* what the client has not read
  replies,    \* what it gets: headers, each with the bytes behind it
  edge,       \* is the socket on epoll's ready list?
  event,      \* what epoll_wait reported, not yet handled
  open,       \* has the server not closed the connection?
  handler,    \* where the loop or the coroutine is
  requests,   \* the string of data_info, as the segments it was read from
  page,       \* what is being sent: off, sz, and whether it closes
  is_read_awaiting, is_write_awaiting

vars == <<asks, client, in, unread, replies, edge, event, open, handler,
          requests, page, is_read_awaiting, is_write_awaiting>>

flags  == <<is_read_awaiting, is_write_awaiting>>
output == <<unread, replies>>

(* A request comes whole, or in two segments: the request line with some   *)
(* header lines, and the lines that matter here.                           *)
Segment == [of: Nat \ {0}, part: {"whole", "head", "tail"}]

(* An answer, with the segment that was parsed for it.                     *)
Reply == [of: Nat \ {0}, part: {"whole", "head", "tail"},
          status: {200, 206, 304, 403, 404}, length: Int, body: Nat]

Page == [off: Nat, sz: Int, close: BOOLEAN]

Running == handler \in {"decide", "read", "parse", "send", "other"}

Init ==
  /\ asks = <<>> /\ client = "waits"
  /\ in = <<>> /\ requests = <<>>
  /\ unread = 0 /\ replies = <<>>
  /\ edge = TRUE /\ event = "none" /\ open = TRUE
  /\ handler = "idle"
  /\ page = [off |-> 0, sz |-> 0, close |-> FALSE]
  /\ is_read_awaiting = FALSE /\ is_write_awaiting = FALSE

-----------------------------------------------------------------------------
(* The client.                                                             *)

(* It has all answers, the last one as long as its header says.            *)
Answered ==
  /\ unread = 0
  /\ Len(replies) = Len(asks)
  /\ \A i \in 1..Len(replies) : replies[i].body >= replies[i].length

(* It may ask on without being hasty, having not asked for a close.        *)
MayAsk == Answered /\ \A i \in 1..Len(asks) : ~asks[i].close

Send ==
  /\ open /\ client # "half" /\ Len(asks) < MaxAsks
  /\ \E ask \in Asks, part \in {"whole", "head"} :
       /\ client' = IF part = "head" THEN "half"
                    ELSE IF MayAsk THEN client ELSE "hasty"
       /\ client' = "waits" \/ Len(asks) < MaxHasty
       /\ asks' = Append(asks, ask)
       /\ in' = Append(in, [of |-> Len(asks) + 1, part |-> part])
  /\ edge' = TRUE
  /\ UNCHANGED <<output, event, open, handler, requests, page, flags>>

SendRest ==
  /\ open /\ client = "half"
  /\ client' = "hasty"
  /\ in' = Append(in, [of |-> Len(asks), part |-> "tail"])
  /\ edge' = TRUE
  /\ UNCHANGED <<asks, output, event, open, handler, requests, page, flags>>

(* Room in a send buffer that was full is an edge.                         *)
Receive ==
  /\ Len(replies) <= MaxReads
  /\ unread' \in 0..(unread - 1)
  /\ edge' = (edge \/ unread = SockBuf)
  /\ UNCHANGED <<asks, client, in, replies, event, open, handler, requests,
                 page, flags>>

-----------------------------------------------------------------------------
(* The loop.                                                               *)

EpollWait ==
  /\ edge /\ open /\ ~Running /\ event = "none"
  /\ event' = IF in # <<>> THEN "in"
              ELSE IF unread < SockBuf THEN "out" ELSE "none"
  /\ edge' = FALSE
  /\ UNCHANGED <<asks, client, in, output, open, handler, requests, page,
                 flags>>

(* EPOLLIN with nothing waiting for it: decide_action begins to read.      *)
Decide ==
  /\ event = "in" /\ ~is_read_awaiting
  /\ event' = "none"
  /\ handler' = "decide"
  /\ UNCHANGED <<asks, client, in, output, edge, open, requests, page, flags>>

(* task.resume(): within the page, or at the top of the loop, which reads  *)
(* only if nothing is left in requests.                                    *)
Resume ==
  /\ \/ event = "in" /\ is_read_awaiting
     \/ event = "out" /\ is_write_awaiting
  /\ event' = "none"
  /\ handler' = IF handler = "page" THEN "send"
                ELSE IF requests = <<>> THEN "read" ELSE "parse"
  /\ UNCHANGED <<asks, client, in, output, edge, open, requests, page, flags>>

Ignore ==
  /\ event = "out" /\ ~is_write_awaiting
  /\ event' = "none"
  /\ UNCHANGED <<asks, client, in, output, edge, open, handler, requests,
                 page, flags>>

-----------------------------------------------------------------------------
(* A request.                                                              *)

ReadSome ==
  /\ handler \in {"decide", "read"} /\ in # <<>>
  /\ requests' = Append(requests, Head(in))
  /\ in' = Tail(in)
  /\ UNCHANGED <<asks, client, output, edge, event, open, handler, page, flags>>

(* EAGAIN.  decide_action knows a request by its first character.  What a  *)
(* segment without a request line begins with may be the letter of HTTP,   *)
(* that of another kind of request, whose handler is not followed here, or *)
(* neither, which closes the connection.                                   *)
ReadAll ==
  /\ handler \in {"decide", "read"} /\ in = <<>>
  /\ \/ handler' = "parse" /\ UNCHANGED open
     \/ /\ handler = "decide" /\ requests[1].part = "tail"
        /\ \/ handler' = "other" /\ UNCHANGED open
           \/ handler' = "over" /\ open' = FALSE
  /\ UNCHANGED <<asks, client, in, output, edge, event, requests, page, flags>>

Status(ask) ==
  CASE ask.what = "page"    -> 200
    [] ask.what = "range"   -> 206
    [] ask.what = "cached"  -> 304
    [] ask.what = "missing" -> 404
    [] OTHER                -> 403

(* Mutant of Length: a range is taken to end before its last byte.         *)
LengthToLast(ask) ==
  CASE ask.what = "page"  -> Size
    [] ask.what = "range" -> ask.last - ask.first
    [] OTHER              -> 0

(* The length of the page's part that a header announces.                  *)
Length(ask) ==
  CASE ask.what = "page"  -> Size
    [] ask.what = "range" -> ask.last - ask.first + 1
    [] OTHER              -> 0

(* What the first request in the string may be taken for, whatever is      *)
(* behind it.  Without its second segment it is one without the header     *)
(* lines in there.  The second segment alone is one for whatever page the  *)
(* scan for a path comes upon in its first line, with those of the header  *)
(* lines that are behind that one; this page too has Size bytes.           *)
Meanings ==
  LET s   == requests[1]
      ask == asks[s.of]
  IN  IF s.part = "tail"
      THEN {[ask EXCEPT !.what = what, !.close = close] :
              what \in {"page", "missing", "refused", ask.what},
              close \in {FALSE, ask.close}}
      ELSE IF s.part = "whole"
              \/ (Len(requests) > 1 /\ requests[2].part = "tail")
              \/ ask.what \in {"missing", "refused"}
      THEN {ask}
      ELSE {[ask EXCEPT !.what = "page", !.close = FALSE]}

(* A header is written; without room for it, it is lost.                   *)
Answer(status, length) ==
  IF unread < SockBuf
  THEN /\ replies' = Append(replies, [of |-> requests[1].of,
                                      part |-> requests[1].part,
                                      status |-> status,
                                      length |-> length, body |-> 0])
       /\ unread' = unread + 1
  ELSE UNCHANGED output

(* Mutant of NextRound: is_write_awaiting stays.                           *)
NextRoundMarked ==
  /\ handler' = "next"
  /\ is_read_awaiting' = TRUE
  /\ UNCHANGED is_write_awaiting

(* next_round.                                                             *)
NextRound ==
  /\ handler' = "next"
  /\ is_read_awaiting' = TRUE
  /\ is_write_awaiting' = FALSE

(* Mutant of AnswerOnly: clear() comes behind the page.                    *)
AnswerOnlyNoClear(ask) ==
  /\ ask.what \notin {"page", "range"}
  /\ Answer(Status(ask), 0)
  /\ NextRound
  /\ UNCHANGED requests

(* An answer without a page.  A line that does not parse throws before     *)
(* clear(), so that the string stays.                                      *)
AnswerOnly(ask) ==
  /\ ask.what \notin {"page", "range"}
  /\ Answer(Status(ask), 0)
  /\ requests' = IF ask.what = "bad" THEN requests ELSE <<>>
  /\ NextRound

NoPage ==
  /\ handler = "parse"
  /\ \E ask \in Meanings : AnswerOnly(ask)
  /\ UNCHANGED <<asks, client, in, edge, event, open, page>>

(* Mutant of BeginPage: no clear().                                        *)
BeginPageNoClear(ask) ==
  /\ ask.what \in {"page", "range"}
  /\ Answer(Status(ask), Length(ask))
  /\ page' = [off   |-> IF ask.what = "range" THEN ask.first ELSE 0,
              sz    |-> Length(ask),
              close |-> ask.close]
  /\ UNCHANGED requests
  /\ handler' = "send"

(* The header of a page, and its offsets.                                  *)
BeginPage(ask) ==
  /\ ask.what \in {"page", "range"}
  /\ Answer(Status(ask), Length(ask))
  /\ page' = [off   |-> IF ask.what = "range" THEN ask.first ELSE 0,
              sz    |-> Length(ask),
              close |-> ask.close]
  /\ requests' = <<>>
  /\ handler' = "send"

StartPage ==
  /\ handler = "parse"
  /\ \E ask \in Meanings : BeginPage(ask)
  /\ UNCHANGED <<asks, client, in, edge, event, open, flags>>

(* The scans need not end inside the string, and read on behind it.        *)
Garbled ==
  /\ handler = "parse" /\ requests[1].part = "tail"
  /\ handler' = "crash"
  /\ open' = FALSE
  /\ UNCHANGED <<asks, client, in, output, edge, event, requests, page, flags>>

-----------------------------------------------------------------------------
(* The page: one sendfile64 and what it leads to.                          *)

(* Mutant of SendSome: the offset is not moved.                            *)
SendSomeAgain ==
  /\ handler = "send"
  /\ \E n \in 1..(Size - page.off) :
       /\ n <= page.sz /\ unread + n <= SockBuf
       /\ unread' = unread + n
  /\ UNCHANGED <<asks, client, in, replies, edge, event, open, handler,
                 requests, page, flags>>

(* It takes some of the sz bytes asked for, which are those of a whole     *)
(* page in every round, as far as the file goes.                           *)
SendSome ==
  /\ handler = "send"
  /\ \E n \in 1..(Size - page.off) :
       /\ n <= page.sz /\ unread + n <= SockBuf
       /\ page' = [page EXCEPT !.off = @ + n]
       /\ unread' = unread + n
       /\ replies' = [replies EXCEPT ![Len(replies)].body = @ + n]
  /\ UNCHANGED <<asks, client, in, edge, event, open, handler, requests, flags>>

(* Mutant of Yield: is_write_awaiting is not set.                          *)
YieldUnmarked ==
  /\ handler = "send" /\ page.sz > 0 /\ page.off < Size /\ unread = SockBuf
  /\ handler' = "page"
  /\ UNCHANGED <<asks, client, in, output, edge, event, open, requests, page,
                 flags>>

(* EAGAIN: co_yield.                                                       *)
Yield ==
  /\ handler = "send" /\ page.sz > 0 /\ page.off < Size /\ unread = SockBuf
  /\ handler' = "page"
  /\ is_write_awaiting' = TRUE
  /\ UNCHANGED <<asks, client, in, output, edge, event, open, requests, page,
                 is_read_awaiting>>

(* A count that wrapped is EINVAL: the connection is closed, and the       *)
(* coroutine suspended as above.                                           *)
SendFails ==
  /\ handler = "send" /\ page.sz < 0
  /\ open' = FALSE
  /\ handler' = "page"
  /\ is_write_awaiting' = TRUE
  /\ UNCHANGED <<asks, client, in, output, edge, event, requests, page,
                 is_read_awaiting>>

(* The loop ends at the end of the file.  Past it, or with sz = 0 before   *)
(* it, sendfile64 returns 0 for ever: no step.                             *)
SentAll ==
  /\ handler = "send" /\ page.sz >= 0 /\ page.off = Size
  /\ IF page.close
     THEN handler' = "over" /\ open' = FALSE /\ UNCHANGED flags
     ELSE NextRound /\ UNCHANGED open
  /\ UNCHANGED <<asks, client, in, output, edge, event, requests, page>>

Server ==
  \/ EpollWait \/ Decide \/ Resume \/ Ignore
  \/ ReadSome \/ ReadAll \/ NoPage \/ StartPage \/ Garbled
  \/ SendSome \/ Yield \/ SendFails \/ SentAll

Next == Send \/ SendRest \/ Receive \/ Server

Spec == Init /\ [][Next]_vars

(* The server loops for ever and the client reads what it is sent; it need *)
(* not go on asking.                                                       *)
FairSpec == Spec /\ WF_vars(Server) /\ WF_vars(Receive) /\ WF_vars(SendRest)

-----------------------------------------------------------------------------
(* Properties.                                                             *)

TypeOK ==
  /\ asks \in Seq(Asks) /\ client \in {"waits", "half", "hasty"}
  /\ in \in Seq(Segment) /\ requests \in Seq(Segment)
  /\ unread \in 0..SockBuf /\ replies \in Seq(Reply)
  /\ edge \in BOOLEAN /\ event \in {"none", "in", "out"} /\ open \in BOOLEAN
  /\ handler \in {"idle", "decide", "read", "parse", "send", "page", "next",
                   "other", "over", "crash"}
  /\ page \in Page
  /\ is_read_awaiting \in BOOLEAN /\ is_write_awaiting \in BOOLEAN

(* The client waits for its answers, and asks for no part of the page but  *)
(* one that ends where the page does: handle_http serves no other range as *)
(* it announces it.                                                        *)
Honoured(ask) ==
  ask.what = "range" => ask.last = Size - 1 /\ ask.first <= Size
Sound == client = "waits" /\ \A i \in 1..Len(asks) : Honoured(asks[i])

RightAnswer(i) ==
  /\ replies[i].of = i
  /\ replies[i].status = Status(asks[i])
  /\ replies[i].length = Length(asks[i])

(* A client that waits gets one answer to each request, in order, and the  *)
(* one that it asked for, up to the first request whose header does not    *)
(* parse (server.hpp:474-489, 576-603).                                    *)
RightAnswers ==
  client = "waits" =>
    \A i \in 1..Len(replies) :
      (\A j \in 1..(i - 1) : asks[j].what # "bad") => RightAnswer(i)

(* The same, whatever was asked for before.                                *)
AlwaysRightAnswers ==
  client = "waits" => \A i \in 1..Len(replies) : RightAnswer(i)

(* Even a client that does not wait gets its answers in order, and no      *)
(* segment that was answered is answered again, but for one whose header   *)
(* does not parse and stays in the string.  So there is a page at most     *)
(* once for each request, or for each of the two segments it was sent in   *)
(* (server.hpp:474-489).                                                   *)
NoPageTwice ==
  \A i \in 2..Len(replies) :
    LET was == replies[i - 1]
        now == replies[i]
    IN  \/ now.of > was.of
        \/ now.of = was.of /\ was.part = "head" /\ now.part = "tail"
        \/ now.of = was.of /\ now.part = was.part /\ was.status = 403

(* Behind a header comes as much of the page as it says, never more on the *)
(* way and never less at the end (server.hpp:524, 547, 554-575).           *)
BodyAsAnnounced ==
  Sound => \A i \in 1..Len(replies) :
             /\ replies[i].body <= replies[i].length
             /\ i < Len(replies) \/ handler \in {"next", "over"}
                  => replies[i].body = replies[i].length

(* The same of every range.                                                *)
RangeAsAnnounced ==
  \A i \in 1..Len(replies) : replies[i].body <= replies[i].length

(* A page that waits for room is told of it, and so is a request, if the   *)
(* client waits for answers (server.hpp:198-239, 565, 601).                *)
WakeUpKept ==
  Sound /\ open =>
    /\ handler \in {"idle", "next"} /\ requests = <<>> /\ in # <<>>
         => edge \/ event = "in"
    /\ handler = "page" /\ unread < SockBuf => edge \/ event = "out"

(* parse_http_request is never given an empty string, of which it would    *)
(* take the first line (http.hpp:221-234).                                 *)
SomethingToParse == handler = "parse" => requests # <<>>

(* A request is answered in full, if the client waits for its answers and  *)
(* asks for no range that handle_http does not honour.                     *)
EachAnswered ==
  []Sound => []<>Answered
=============================================================================
