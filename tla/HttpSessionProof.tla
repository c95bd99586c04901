-------------------------- MODULE HttpSessionProof --------------------------
(***************************************************************************)
(* Proofs about HttpSession, for files, send buffers and requests of any   *)
(* number and size: its types, that there is always a request to parse,    *)
(* that no page is sent twice, that a page is as long as its header says,  *)
(* that no wake-up is lost, and that a client that waits gets the right    *)
(* answers.                                                                *)
(***************************************************************************)
EXTENDS HttpSession, SequenceTheorems, TLAPS

-----------------------------------------------------------------------------
(* The inductive invariant.                                                *)

(* Whatever is answered, parsed or on its way was asked for.               *)
AskedFor ==
  /\ \A i \in 1..Len(in) : in[i].of <= Len(asks)
  /\ \A i \in 1..Len(requests) : requests[i].of <= Len(asks)
  /\ \A i \in 1..Len(replies) : replies[i].of <= Len(asks)
  /\ client = "half" => asks # <<>>

(* What the handler, its flags and the events say of each other.           *)
Stages ==
  /\ event # "none" => ~Running /\ open
  /\ event = "in" => in # <<>>
  /\ handler \in {"over", "crash"} => ~open
  /\ ~open => handler \in {"over", "crash", "page"}
  /\ handler = "idle" => ~is_read_awaiting /\ requests = <<>>
  /\ handler = "next" => is_read_awaiting
  /\ handler \in {"idle", "next"} => ~is_write_awaiting
  /\ handler = "page" => is_write_awaiting
  /\ handler \in {"decide", "read"} => in # <<>> \/ requests # <<>>
  /\ handler = "parse" => requests # <<>>

(* The string begins with a request whose header does not parse.           *)
Stuck ==
  /\ requests # <<>>
  /\ asks[requests[1].of].what = "bad"
  /\ \/ requests[1].part = "whole"
     \/ Len(requests) > 1 /\ requests[2].part = "tail"

(* Segments come in the order in which they were sent, and the second of a *)
(* request behind its first.                                               *)
Before(s, t) == s.of <= t.of /\ (s.of = t.of => s.part = "head" /\ t.part = "tail")

Sorted ==
  /\ \A i, j \in 1..Len(in) : i < j => Before(in[i], in[j])
  /\ \A i, j \in 1..Len(requests) : i < j => Before(requests[i], requests[j])
  /\ \A i \in 1..Len(requests), j \in 1..Len(in) : Before(requests[i], in[j])

Latest == replies[Len(replies)]

(* While half a request is out, only this half of it is known.             *)
FirstHalf(s) == s.of = Len(asks) => s.part = "head"

Halves ==
  client = "half" =>
    /\ \A i \in 1..Len(in) : FirstHalf(in[i])
    /\ \A i \in 1..Len(requests) : FirstHalf(requests[i])
    /\ replies # <<>> => FirstHalf(Latest)

(* The latest answer is to a segment in front of all that is there, or is  *)
(* the error for one that stays.                                           *)
Again ==
  /\ Latest.of = requests[1].of /\ Latest.part = requests[1].part
  /\ Latest.status = 403

Ahead ==
  replies # <<>> =>
    /\ \A j \in 1..Len(in) : Before(Latest, in[j])
    /\ \A j \in 1..Len(requests) : Before(Latest, requests[j]) \/ (j = 1 /\ Again)

Inv == TypeOK /\ AskedFor /\ Stages /\ Sorted /\ Halves /\ Ahead

-----------------------------------------------------------------------------
(* What holds besides while the client waits, for pages that are sent as   *)
(* they are announced.                                                     *)

(* No request is out, or one is and the client has all other answers.      *)
Quiet == in = <<>> /\ Len(asks) = Len(replies)
Asked == unread = 0 /\ Len(asks) = Len(replies) + 1

(* As much of the page is left as of what the header announced.            *)
Matches ==
  /\ replies # <<>> /\ page.off <= Size
  /\ page.sz = Latest.length /\ page.sz >= 0
  /\ Latest.length - Latest.body = Size - page.off

Paging == handler \in {"send", "page"}

Bodies ==
  \A i \in 1..Len(replies) :
    i < Len(replies) \/ ~Paging => replies[i].body = replies[i].length

Turns ==
  /\ \A i \in 1..Len(in) : in[i].part = "whole"
  /\ \A i \in 1..Len(requests) : requests[i].part = "whole"
  /\ handler # "crash"
  /\ handler \in {"idle", "next"} /\ requests = <<>> =>
       Quiet \/ (Len(in) = 1 /\ Asked /\ (edge \/ event = "in"))
  /\ handler = "next" /\ requests # <<>> => Stuck
  /\ handler \in {"decide", "read"} => Len(in) + Len(requests) = 1 /\ Asked
  /\ handler = "parse" => Stuck \/ (in = <<>> /\ Len(requests) = 1 /\ Asked)
  /\ Paging => requests = <<>> /\ Matches
  /\ handler = "send" =>
       Quiet \/ (Len(in) = 1 /\ Asked /\ edge /\ page.off = Size)
  /\ handler = "page" =>
       Quiet /\ page.off < Size /\ (unread < SockBuf => edge \/ event = "out")

SoundInv == Sound => Turns /\ Bodies

-----------------------------------------------------------------------------
(* What the steps do to sequences and records.                             *)

LEMMA First ==
  ASSUME NEW S, NEW s \in Seq(S), s # <<>>
  PROVE  /\ Len(s) \in Nat \ {0} /\ 1 \in 1..Len(s)
         /\ s[1] \in S /\ Head(s) = s[1]
         /\ Tail(s) \in Seq(S) /\ Len(Tail(s)) = Len(s) - 1
         /\ \A i \in 1..Len(Tail(s)) : Tail(s)[i] = s[i + 1]
<1>1. Len(s) \in Nat \ {0}
  BY EmptySeq
<1>2. 1 \in 1..Len(s)
  BY <1>1
<1>3. s[1] \in S
  BY <1>2, ElementOfSeq
<1>4. Head(s) = s[1]
  OBVIOUS
<1> QED
  BY <1>1, <1>2, <1>3, <1>4, HeadTailProperties

LEMMA Segments ==
  ASSUME NEW s \in Seq(Segment)
  PROVE  /\ Len(s) \in Nat
         /\ \A i \in 1..Len(s) : s[i] \in Segment /\ s[i].of \in Nat \ {0}
<1>1. ASSUME NEW i \in 1..Len(s)
      PROVE  s[i] \in Segment /\ s[i].of \in Nat \ {0}
  <2>1. s[i] \in Segment
    BY ElementOfSeq
  <2> QED
    BY <2>1 DEF Segment
<1> QED
  BY <1>1, LenProperties

LEMMA Replies ==
  ASSUME NEW s \in Seq(Reply)
  PROVE  /\ Len(s) \in Nat
         /\ \A i \in 1..Len(s) : /\ s[i].of \in Nat \ {0}
                                 /\ s[i].length \in Int /\ s[i].body \in Nat
<1>1. ASSUME NEW i \in 1..Len(s)
      PROVE  /\ s[i].of \in Nat \ {0}
             /\ s[i].length \in Int /\ s[i].body \in Nat
  <2>1. s[i] \in Reply
    BY ElementOfSeq
  <2> QED
    BY <2>1 DEF Reply
<1> QED
  BY <1>1, LenProperties

(* A request in the string was asked for.                                  *)
LEMMA AskedForFacts ==
  ASSUME TypeOK, AskedFor, requests # <<>>
  PROVE  /\ requests[1] \in Segment /\ 1 \in 1..Len(requests)
         /\ requests[1].of \in 1..Len(asks) /\ asks[requests[1].of] \in Ask
<1>1. /\ requests[1] \in Segment /\ 1 \in 1..Len(requests)
  BY First DEF TypeOK
<1>2. requests[1].of \in 1..Len(asks)
  BY <1>1 DEF Segment, AskedFor
<1>3. asks \in Seq(Asks) /\ Asks \subseteq Ask
  BY SessionAssumption DEF TypeOK
<1>4. asks[requests[1].of] \in Asks
  BY <1>2, <1>3, ElementOfSeq
<1> QED
  BY <1>1, <1>2, <1>3, <1>4

(* What the server may take for the request is one that was made, or like  *)
(* it; and if that begins with a request line, its header does not parse   *)
(* only if the string is stuck.                                            *)
LEMMA MeaningFacts ==
  ASSUME TypeOK, AskedFor, requests # <<>>, NEW u \in Meanings
  PROVE  /\ requests[1] \in Segment /\ requests[1].of \in 1..Len(asks)
         /\ asks[requests[1].of] \in Ask
         /\ u.first \in Nat /\ u.last \in Nat /\ u.close \in BOOLEAN
         /\ u.what \in {"page", "cached", "range", "missing", "refused", "bad"}
         /\ requests[1].part # "tail" => (u.what = "bad" <=> Stuck)
         /\ requests[1].part = "whole" => u = asks[requests[1].of]
<1>1. /\ requests[1] \in Segment /\ 1 \in 1..Len(requests)
      /\ requests[1].of \in 1..Len(asks) /\ asks[requests[1].of] \in Ask
  BY AskedForFacts
<1> DEFINE ask == asks[requests[1].of]
           all == \/ requests[1].part = "whole"
                  \/ Len(requests) > 1 /\ requests[2].part = "tail"
                  \/ ask.what \in {"missing", "refused"}
           like(w, c) == [ask EXCEPT !.what = w, !.close = c]
<1>2. /\ ask.first \in Nat /\ ask.last \in Nat
      /\ ask.what \in {"page", "cached", "range", "missing", "refused", "bad"}
  BY <1>1 DEF Ask
<1>3. ask.close \in BOOLEAN
  BY <1>1, Zenon DEF Ask
<1>4. \A w, c : /\ like(w, c).what = w /\ like(w, c).close = c
               /\ like(w, c).first = ask.first /\ like(w, c).last = ask.last
  <2>1. ask = [what |-> ask.what, first |-> ask.first, last |-> ask.last,
               close |-> ask.close]
    BY <1>1 DEF Ask
  <2> QED
    BY <2>1
<1>5. CASE requests[1].part = "tail"
  <2>0. Meanings = {[ask EXCEPT !.what = w, !.close = c] :
                      w \in {"page", "missing", "refused", ask.what},
                      c \in {FALSE, ask.close}}
    BY <1>5 DEF Meanings
  <2>1. PICK w \in {"page", "missing", "refused", ask.what},
             c \in {FALSE, ask.close} : u = like(w, c)
    BY <2>0
  <2>2. u.what = w /\ u.close = c /\ u.first = ask.first /\ u.last = ask.last
    BY <1>4, <2>1
  <2> HIDE DEF like, all, ask
  <2>3. c \in BOOLEAN
    BY <1>3, <2>1, Zenon
  <2>4. u.close \in BOOLEAN
    BY <2>2, <2>3, Zenon
  <2>5. w \in {"page", "cached", "range", "missing", "refused", "bad"}
    BY <1>2, <2>1
  <2> QED
    BY <1>1, <1>2, <1>5, <2>2, <2>4, <2>5
<1>6. CASE requests[1].part # "tail" /\ all
  <2>1. u = ask
    <3>1. Meanings = {ask}
      BY <1>6 DEF Meanings
    <3> QED
      BY <3>1
  <2>2. ask.what = "bad" <=> Stuck
    BY <1>1, <1>6, First DEF Stuck
  <2> HIDE DEF ask, all, like
  <2>3. u.close \in BOOLEAN
    BY <1>3, <2>1, Zenon
  <2> QED
    BY <1>1, <1>2, <2>1, <2>2, <2>3 DEF ask
<1>7. CASE requests[1].part # "tail" /\ ~all
  <2>1. u = like("page", FALSE)
    <3>1. Meanings = {[ask EXCEPT !.what = "page", !.close = FALSE]}
      BY <1>7 DEF Meanings
    <3> QED
      BY <3>1
  <2>2. u.what = "page" /\ u.close = FALSE /\ u.first = ask.first /\ u.last = ask.last
    BY <1>4, <2>1
  <2>3. ~Stuck /\ requests[1].part # "whole"
    BY <1>7 DEF Stuck
  <2> HIDE DEF like, all, ask
  <2>4. u.close \in BOOLEAN
    BY <2>2, Zenon
  <2> QED
    BY <1>1, <1>2, <2>2, <2>3, <2>4
<1> QED
  BY <1>5, <1>6, <1>7

LEMMA StatusType ==
  ASSUME NEW ask
  PROVE  Status(ask) \in {200, 206, 304, 403, 404}
  BY DEF Status

LEMMA LengthType ==
  ASSUME NEW ask, ask.first \in Nat, ask.last \in Nat
  PROVE  Length(ask) \in Int
  BY SessionAssumption DEF Length

(* Answer: a header, unless there is no room.                              *)
LEMMA AnswerFacts ==
  ASSUME TypeOK, AskedFor, requests # <<>>,
         NEW status \in {200, 206, 304, 403, 404}, NEW length \in Int,
         Answer(status, length)
  PROVE  /\ unread' \in 0..SockBuf /\ replies' \in Seq(Reply)
         /\ unread < SockBuf => Len(replies') = Len(replies) + 1
         /\ \/ UNCHANGED output
            \/ /\ Len(replies') = Len(replies) + 1
               /\ \A i \in 1..Len(replies) : replies'[i] = replies[i]
               /\ replies'[Len(replies) + 1] =
                    [of |-> requests[1].of, part |-> requests[1].part,
                     status |-> status, length |-> length, body |-> 0]
<1> DEFINE r == [of |-> requests[1].of, part |-> requests[1].part,
                 status |-> status, length |-> length, body |-> 0]
<1>1. r \in Reply
  BY AskedForFacts DEF Reply, Segment
<1>2. replies \in Seq(Reply) /\ unread \in 0..SockBuf /\ SockBuf \in Nat
  BY SessionAssumption DEF TypeOK
<1>3. CASE unread < SockBuf
  <2>1. replies' = Append(replies, r) /\ unread' = unread + 1
    BY <1>3 DEF Answer
  <2> HIDE DEF r
  <2>2. /\ replies' \in Seq(Reply) /\ Len(replies') = Len(replies) + 1
        /\ \A i \in 1..Len(replies) : replies'[i] = replies[i]
        /\ replies'[Len(replies) + 1] = r
    BY <1>1, <1>2, <2>1, AppendProperties
  <2>3. unread' \in 0..SockBuf
    BY <1>2, <1>3, <2>1
  <2> QED
    BY <2>2, <2>3 DEF r
<1>4. CASE ~(unread < SockBuf)
  BY <1>2, <1>4 DEF Answer, output
<1> QED
  BY <1>3, <1>4

(* The three steps that answer, in one form.                               *)
Answers(status, length) ==
  /\ handler = "parse" /\ Answer(status, length)
  /\ status \in {200, 206, 304, 403, 404} /\ length \in Int
  /\ requests' \in {<<>>, requests}
  /\ UNCHANGED <<asks, client, in, edge, event, open>>

LEMMA NoPageFacts ==
  ASSUME TypeOK, AskedFor, Stages, NoPage
  PROVE  \E u \in Meanings :
           /\ Answers(Status(u), 0)
           /\ handler' = "next" /\ is_read_awaiting' = TRUE
           /\ is_write_awaiting' = FALSE /\ UNCHANGED page
           /\ requests' = IF u.what = "bad" THEN requests ELSE <<>>
           /\ u.what \notin {"page", "range"}
<1>1. PICK u \in Meanings : AnswerOnly(u)
  BY DEF NoPage
<1>2. Answers(Status(u), 0)
  BY <1>1, StatusType DEF NoPage, AnswerOnly, Answers
<1> QED
  BY <1>1, <1>2 DEF NoPage, AnswerOnly, NextRound

LEMMA StartPageFacts ==
  ASSUME TypeOK, AskedFor, Stages, StartPage
  PROVE  \E u \in Meanings :
           /\ Answers(Status(u), Length(u))
           /\ handler' = "send" /\ UNCHANGED flags
           /\ page' \in Page /\ page'.sz = Length(u)
           /\ page'.off = IF u.what = "range" THEN u.first ELSE 0
           /\ requests' = <<>>
           /\ u.what \in {"page", "range"}
<1>0. requests # <<>>
  BY DEF StartPage, Stages
<1>a. PICK u \in Meanings : BeginPage(u)
  BY DEF StartPage
<1>1. u.first \in Nat /\ u.last \in Nat /\ u.close \in BOOLEAN
  BY <1>0, MeaningFacts
<1>2. Length(u) \in Int
  BY <1>1, LengthType
<1>3. Answers(Status(u), Length(u))
  BY <1>a, <1>2, StatusType DEF StartPage, BeginPage, Answers
<1> DEFINE off == IF u.what = "range" THEN u.first ELSE 0
<1>4. page' = [off |-> off, sz |-> Length(u), close |-> u.close]
  BY <1>a DEF BeginPage
<1>5. off \in Nat
  BY <1>1
<1>6. page' \in Page /\ page'.off = off /\ page'.sz = Length(u)
  <2> HIDE DEF off
  <2>1. page' \in Page
    BY <1>1, <1>2, <1>4, <1>5, Zenon DEF Page
  <2> QED
    BY <1>4, <2>1
<1> QED
  BY <1>a, <1>3, <1>6 DEF StartPage, BeginPage

LEMMA AnswersFacts ==
  ASSUME TypeOK, AskedFor, Stages, NEW status, NEW length,
         Answers(status, length)
  PROVE  /\ requests # <<>> /\ requests' \in Seq(Segment)
         /\ unread' \in 0..SockBuf /\ replies' \in Seq(Reply)
         /\ unread < SockBuf => Len(replies') = Len(replies) + 1
         /\ \/ UNCHANGED output
            \/ /\ Len(replies') = Len(replies) + 1
               /\ \A i \in 1..Len(replies) : replies'[i] = replies[i]
               /\ replies'[Len(replies) + 1] =
                    [of |-> requests[1].of, part |-> requests[1].part,
                     status |-> status, length |-> length, body |-> 0]
<1>1. requests # <<>>
  BY DEF Answers, Stages
<1>2. requests' \in Seq(Segment)
  <2>1. requests \in Seq(Segment) /\ <<>> \in Seq(Segment)
    BY EmptySeq DEF TypeOK
  <2>2. requests' \in {<<>>, requests}
    BY DEF Answers
  <2> QED
    BY <2>1, <2>2
<1>3. /\ Answer(status, length) /\ length \in Int
      /\ status \in {200, 206, 304, 403, 404}
  BY DEF Answers
<1> QED
  BY <1>1, <1>2, <1>3, AnswerFacts

(* SendSome: the last reply's body grows with the offset.                  *)
LEMMA SendSomeFacts ==
  ASSUME TypeOK, SendSome
  PROVE  \E n \in Nat \ {0} :
           /\ n <= Size - page.off /\ n <= page.sz /\ unread + n <= SockBuf
           /\ unread' = unread + n
           /\ page' \in Page
           /\ page'.off = page.off + n /\ page'.sz = page.sz
           /\ replies' \in Seq(Reply) /\ Len(replies') = Len(replies)
           /\ \A i \in 1..Len(replies) :
                /\ replies'[i].of = replies[i].of
                /\ replies'[i].part = replies[i].part
                /\ replies'[i].status = replies[i].status
                /\ replies'[i].length = replies[i].length
                /\ replies'[i].body = IF i = Len(replies)
                                      THEN replies[i].body + n
                                      ELSE replies[i].body
<1>0. /\ replies \in Seq(Reply) /\ page \in Page /\ Len(replies) \in Nat
      /\ unread \in Nat /\ SockBuf \in Nat /\ Size \in Nat
  BY SessionAssumption, LenProperties DEF TypeOK
<1>1. PICK n \in 1..(Size - page.off) :
        /\ n <= page.sz /\ unread + n <= SockBuf
        /\ page' = [page EXCEPT !.off = @ + n]
        /\ unread' = unread + n
        /\ replies' = [replies EXCEPT ![Len(replies)].body = @ + n]
  BY DEF SendSome
<1>2. n \in Nat \ {0} /\ n <= Size - page.off
  BY <1>0, <1>1 DEF Page
<1>3. /\ page' \in Page /\ page'.off = page.off + n /\ page'.sz = page.sz
  BY <1>0, <1>1, <1>2 DEF Page
<1>4. /\ replies' \in Seq(Reply) /\ Len(replies') = Len(replies)
      /\ \A i \in 1..Len(replies) :
           /\ replies'[i].of = replies[i].of
           /\ replies'[i].part = replies[i].part
           /\ replies'[i].status = replies[i].status
           /\ replies'[i].length = replies[i].length
           /\ replies'[i].body = IF i = Len(replies) THEN replies[i].body + n
                                 ELSE replies[i].body
  <2>1. CASE replies = <<>>
    <3>1. replies' = replies
      BY <1>1, <2>1
    <3> QED
      BY <1>0, <2>1, <3>1
  <2>2. CASE replies # <<>>
    <3> DEFINE k == Len(replies)
               e == [replies[k] EXCEPT !.body = @ + n]
    <3>1. k \in 1..Len(replies)
      BY <1>0, <2>2, EmptySeq
    <3>2. replies[k] \in Reply
      BY <1>0, <3>1, ElementOfSeq
    <3>3. /\ e \in Reply /\ e.of = replies[k].of
          /\ e.part = replies[k].part
          /\ e.status = replies[k].status /\ e.length = replies[k].length
          /\ e.body = replies[k].body + n
      BY <1>2, <3>2 DEF Reply
    <3>4. replies' = [replies EXCEPT ![k] = e]
      BY <1>1
    <3> HIDE DEF k, e
    <3>5. /\ replies' \in Seq(Reply) /\ Len(replies') = Len(replies)
          /\ \A j \in 1..Len(replies) :
               replies'[j] = IF j = k THEN e ELSE replies[j]
      BY <1>0, <3>1, <3>3, <3>4, ExceptSeq
    <3> QED
      BY <3>3, <3>5 DEF k
  <2> QED
    BY <2>1, <2>2
<1> QED
  BY <1>1, <1>2, <1>3, <1>4

(* Send and SendRest: a segment.                                           *)
LEMMA SentFacts ==
  ASSUME TypeOK, AskedFor, Send \/ SendRest
  PROVE  \E s \in Segment :
           /\ in' \in Seq(Segment) /\ Len(in') = Len(in) + 1
           /\ \A i \in 1..Len(in) : in'[i] = in[i]
           /\ in'[Len(in) + 1] = s
           /\ asks' \in Seq(Asks) /\ s.of = Len(asks')
           /\ \A i \in 1..Len(asks) : asks'[i] = asks[i]
           /\ \/ /\ Len(asks') = Len(asks) + 1 /\ s.part \in {"whole", "head"}
                 /\ client' = "waits" => MayAsk /\ s.part = "whole"
                 /\ client' \in {"waits", "half", "hasty"}
                 /\ client' = "waits" => client = "waits"
                 /\ client' = "half" => s.part = "head"
              \/ /\ Len(asks') = Len(asks) /\ s.part = "tail"
                 /\ asks # <<>> /\ client = "half" /\ client' = "hasty"
<1> USE DEF TypeOK
<1>1. Len(asks) \in Nat /\ asks \in Seq(Asks) /\ in \in Seq(Segment)
  BY LenProperties
<1>2. CASE Send
  <2>1. PICK ask \in Asks, part \in {"whole", "head"} :
          /\ client' = IF part = "head" THEN "half"
                       ELSE IF MayAsk THEN client ELSE "hasty"
          /\ asks' = Append(asks, ask)
          /\ in' = Append(in, [of |-> Len(asks) + 1, part |-> part])
    BY <1>2 DEF Send
  <2> DEFINE s == [of |-> Len(asks) + 1, part |-> part]
  <2>2. s \in Segment /\ s.of = Len(asks) + 1 /\ s.part = part
    BY <1>1 DEF Segment
  <2>3. in' = Append(in, s)
    BY <2>1
  <2> HIDE DEF s
  <2>4. /\ in' \in Seq(Segment) /\ Len(in') = Len(in) + 1
        /\ \A i \in 1..Len(in) : in'[i] = in[i]
        /\ in'[Len(in) + 1] = s
    BY <1>1, <2>2, <2>3, AppendProperties
  <2>5. /\ asks' \in Seq(Asks) /\ Len(asks') = Len(asks) + 1
        /\ \A i \in 1..Len(asks) : asks'[i] = asks[i]
    BY <1>1, <2>1, AppendProperties
  <2>6. /\ client' = "waits" => MayAsk /\ s.part = "whole"
        /\ client' \in {"waits", "half", "hasty"}
        /\ client' = "waits" => client = "waits"
        /\ client' = "half" => s.part = "head"
    <3>1. client = "half" => FALSE
      BY <1>2 DEF Send
    <3> QED
      BY <2>1, <2>2, <3>1
  <2> QED
    BY <2>2, <2>4, <2>5, <2>6
<1>3. CASE SendRest
  <2> DEFINE s == [of |-> Len(asks), part |-> "tail"]
  <2>1. in' = Append(in, s) /\ asks' = asks /\ client = "half" /\ client' = "hasty"
    BY <1>3 DEF SendRest
  <2>2. asks # <<>>
    BY <1>3 DEF SendRest, AskedFor
  <2>3. s \in Segment /\ s.of = Len(asks) /\ s.part = "tail"
    BY <1>1, <2>2, EmptySeq DEF Segment
  <2> HIDE DEF s
  <2>4. /\ in' \in Seq(Segment) /\ Len(in') = Len(in) + 1
        /\ \A i \in 1..Len(in) : in'[i] = in[i]
        /\ in'[Len(in) + 1] = s
    BY <1>1, <2>1, <2>3, AppendProperties
  <2> QED
    BY <1>1, <2>1, <2>2, <2>3, <2>4
<1> QED
  BY <1>2, <1>3

(* ReadSome: the first segment, from in to requests.                       *)
LEMMA ReadSomeFacts ==
  ASSUME TypeOK, ReadSome
  PROVE  /\ in # <<>> /\ in[1] \in Segment
         /\ in' \in Seq(Segment) /\ Len(in') = Len(in) - 1
         /\ \A i \in 1..Len(in') : in'[i] = in[i + 1]
         /\ requests' \in Seq(Segment) /\ Len(requests') = Len(requests) + 1
         /\ requests' # <<>>
         /\ \A i \in 1..Len(requests) : requests'[i] = requests[i]
         /\ requests'[Len(requests) + 1] = in[1]
<1>1. in \in Seq(Segment) /\ requests \in Seq(Segment) /\ in # <<>>
  BY DEF TypeOK, ReadSome
<1>2. requests' = Append(requests, Head(in)) /\ in' = Tail(in)
  BY DEF ReadSome
<1>3. Head(in) = in[1] /\ in[1] \in Segment
  BY <1>1, First
<1> QED
  BY <1>1, <1>2, <1>3, First, AppendProperties

-----------------------------------------------------------------------------
(* The invariant holds.                                                    *)

LEMMA InitInv == Init => Inv
<1> SUFFICES ASSUME Init PROVE Inv
  OBVIOUS
<1>1. TypeOK
  <2>1. edge \in BOOLEAN /\ open \in BOOLEAN
        /\ is_read_awaiting \in BOOLEAN /\ is_write_awaiting \in BOOLEAN
    BY Zenon DEF Init
  <2>2. page \in Page
    BY DEF Init, Page
  <2> QED
    BY <2>1, <2>2, SessionAssumption DEF Init, TypeOK
<1>2. AskedFor
  BY DEF Init, AskedFor
<1>3. Stages
  BY DEF Init, Stages, Running
<1>4. Sorted /\ Halves /\ Ahead
  BY DEF Init, Sorted, Halves, Ahead
<1> QED
  BY <1>1, <1>2, <1>3, <1>4 DEF Inv

LEMMA NextType == Inv /\ [Next]_vars => TypeOK'
<1> SUFFICES ASSUME Inv, [Next]_vars PROVE TypeOK'
  OBVIOUS
<1>0. TypeOK /\ AskedFor /\ Stages
  BY DEF Inv
<1> USE <1>0 DEF TypeOK, flags, output
<1>1. CASE Send \/ SendRest
  <2>1. /\ in' \in Seq(Segment) /\ asks' \in Seq(Asks)
        /\ client' \in {"waits", "half", "hasty"}
    BY <1>1, SentFacts
  <2>2. /\ edge' = TRUE
        /\ UNCHANGED <<output, event, open, handler, requests, page, flags>>
    BY <1>1 DEF Send, SendRest
  <2> QED
    BY <2>1, <2>2
<1>2. CASE Receive
  <2>1. edge' \in BOOLEAN
    BY <1>2, Zenon DEF Receive
  <2>2. unread' \in 0..SockBuf
    BY <1>2, SessionAssumption DEF Receive
  <2> QED
    BY <1>2, <2>1, <2>2 DEF Receive
<1>3. CASE EpollWait
  BY <1>3 DEF EpollWait
<1>4. CASE Decide
  BY <1>4 DEF Decide
<1>5. CASE Resume
  BY <1>5 DEF Resume
<1>6. CASE Ignore
  BY <1>6 DEF Ignore
<1>7. CASE ReadSome
  <2>1. in' \in Seq(Segment) /\ requests' \in Seq(Segment)
    BY <1>7, ReadSomeFacts
  <2> QED
    BY <1>7, <2>1 DEF ReadSome
<1>8. CASE ReadAll
  BY <1>8 DEF ReadAll
<1>9. CASE NoPage
  <2>1. PICK u \in Meanings :
          /\ Answers(Status(u), 0) /\ handler' = "next"
          /\ is_read_awaiting' = TRUE /\ is_write_awaiting' = FALSE
          /\ page' = page
    BY <1>9, NoPageFacts
  <2>2. /\ unread' \in 0..SockBuf /\ replies' \in Seq(Reply)
        /\ requests' \in Seq(Segment)
    BY <1>0, <2>1, AnswersFacts
  <2> QED
    BY <2>1, <2>2 DEF Answers
<1>10. CASE StartPage
  <2>1. PICK u \in Meanings :
          /\ Answers(Status(u), Length(u))
          /\ handler' = "send" /\ UNCHANGED flags /\ page' \in Page
    BY <1>10, StartPageFacts
  <2>2. /\ unread' \in 0..SockBuf /\ replies' \in Seq(Reply)
        /\ requests' \in Seq(Segment)
    BY <1>0, <2>1, AnswersFacts
  <2> QED
    BY <2>1, <2>2 DEF Answers
<1>11. CASE Garbled
  BY <1>11 DEF Garbled
<1>12. CASE SendSome
  <2>1. unread' \in 0..SockBuf /\ replies' \in Seq(Reply) /\ page' \in Page
    BY <1>12, SendSomeFacts, SessionAssumption
  <2> QED
    BY <1>12, <2>1 DEF SendSome
<1>13. CASE Yield
  BY <1>13 DEF Yield
<1>14. CASE SendFails
  BY <1>14 DEF SendFails
<1>15. CASE SentAll
  BY <1>15 DEF SentAll, NextRound
<1>16. CASE UNCHANGED vars
  BY <1>16 DEF vars
<1> QED
  BY <1>1, <1>2, <1>3, <1>4, <1>5, <1>6, <1>7, <1>8, <1>9, <1>10, <1>11,
     <1>12, <1>13, <1>14, <1>15, <1>16
  DEF Next, Server

LEMMA NextAskedFor == Inv /\ [Next]_vars => AskedFor'
<1> SUFFICES ASSUME Inv, [Next]_vars PROVE AskedFor'
  OBVIOUS
<1>0. /\ TypeOK /\ AskedFor /\ Stages /\ Len(asks) \in Nat
      /\ in \in Seq(Segment) /\ requests \in Seq(Segment)
      /\ replies \in Seq(Reply)
  BY LenProperties DEF Inv, TypeOK
<1>t. /\ Len(in) \in Nat /\ Len(requests) \in Nat /\ Len(replies) \in Nat
      /\ \A i \in 1..Len(in) : in[i].of \in Nat
      /\ \A i \in 1..Len(requests) : requests[i].of \in Nat
      /\ \A i \in 1..Len(replies) : replies[i].of \in Nat
  BY <1>0, Segments, Replies
<1>a. /\ \A i \in 1..Len(in) : in[i].of <= Len(asks)
      /\ \A i \in 1..Len(requests) : requests[i].of <= Len(asks)
      /\ \A i \in 1..Len(replies) : replies[i].of <= Len(asks)
      /\ client = "half" => asks # <<>>
  BY <1>0 DEF AskedFor
<1>1. CASE Send \/ SendRest
  <2>1. PICK s \in Segment :
          /\ Len(in') = Len(in) + 1
          /\ \A i \in 1..Len(in) : in'[i] = in[i]
          /\ in'[Len(in) + 1] = s
          /\ s.of = Len(asks')
          /\ Len(asks') = Len(asks) + 1 \/ (Len(asks') = Len(asks) /\ client' # "half")
          /\ asks' \in Seq(Asks)
    BY <1>0, <1>1, SentFacts
  <2>0. Len(asks') \in Nat /\ Len(asks) <= Len(asks')
    BY <1>0, <2>1
  <2>2. UNCHANGED <<requests, replies>>
    BY <1>1 DEF Send, SendRest, output
  <2>3. client' = "half" => asks' # <<>>
    BY <1>0, <2>1, EmptySeq
  <2>4. \A i \in 1..Len(in') : in'[i].of <= Len(asks')
    <3>1. ASSUME NEW i \in 1..Len(in') PROVE in'[i].of <= Len(asks')
      <4>1. i \in 1..Len(in) \/ i = Len(in) + 1
        BY <1>t, <2>1
      <4> QED
        BY <1>0, <1>t, <1>a, <2>0, <2>1, <4>1
    <3> QED
      BY <3>1
  <2>5. /\ \A i \in 1..Len(requests) : requests[i].of <= Len(asks')
        /\ \A i \in 1..Len(replies) : replies[i].of <= Len(asks')
    <3>1. ASSUME NEW i \in 1..Len(requests) PROVE requests[i].of <= Len(asks')
      BY <1>0, <1>t, <1>a, <2>0
    <3>2. ASSUME NEW i \in 1..Len(replies) PROVE replies[i].of <= Len(asks')
      BY <1>0, <1>t, <1>a, <2>0
    <3> QED
      BY <3>1, <3>2
  <2> QED
    BY <2>2, <2>3, <2>4, <2>5 DEF AskedFor
<1>2. CASE ReadSome
  <2>1. UNCHANGED <<asks, client, replies>>
    BY <1>2 DEF ReadSome, output
  <2>0. /\ in # <<>> /\ Len(in') = Len(in) - 1 /\ Len(in) \in Nat \ {0}
        /\ \A i \in 1..Len(in') : in'[i] = in[i + 1]
        /\ Len(requests') = Len(requests) + 1
        /\ \A i \in 1..Len(requests) : requests'[i] = requests[i]
        /\ requests'[Len(requests) + 1] = in[1]
    BY <1>0, <1>2, ReadSomeFacts, EmptySeq
  <2>2. \A i \in 1..Len(in') : in'[i].of <= Len(asks)
    BY <1>t, <1>a, <2>0
  <2>3. \A i \in 1..Len(requests') : requests'[i].of <= Len(asks)
    <3>1. ASSUME NEW i \in 1..Len(requests') PROVE requests'[i].of <= Len(asks)
      <4>1. i \in 1..Len(requests) \/ i = Len(requests) + 1
        BY <1>t, <2>0
      <4> QED
        BY <1>t, <1>a, <2>0, <4>1
    <3> QED
      BY <3>1
  <2> QED
    BY <1>0, <2>1, <2>2, <2>3 DEF AskedFor
<1>3. ASSUME NEW status, NEW length, Answers(status, length) PROVE AskedFor'
  <2>1. UNCHANGED <<asks, client, in>> /\ requests' \in {<<>>, requests}
    BY <1>3 DEF Answers
  <2>2. \A i \in 1..Len(replies') : replies'[i].of <= Len(asks)
    <3>1. requests[1].of <= Len(asks)
      <4>1. requests # <<>>
        BY <1>0, <1>3, AnswersFacts
      <4>2. requests[1].of \in 1..Len(asks)
        BY <1>0, <4>1, AskedForFacts
      <4> QED
        BY <1>0, <4>2
    <3>2. \/ replies' = replies
          \/ /\ Len(replies') = Len(replies) + 1
             /\ \A i \in 1..Len(replies) : replies'[i] = replies[i]
             /\ replies'[Len(replies) + 1].of = requests[1].of
      <4>1. \/ UNCHANGED output
            \/ /\ Len(replies') = Len(replies) + 1
               /\ \A i \in 1..Len(replies) : replies'[i] = replies[i]
               /\ replies'[Len(replies) + 1] =
                    [of |-> requests[1].of, part |-> requests[1].part,
                     status |-> status, length |-> length, body |-> 0]
        BY <1>0, <1>3, AnswersFacts
      <4> QED
        BY <4>1 DEF output
    <3>3. CASE replies' = replies
      BY <1>a, <3>3
    <3>4. CASE replies' # replies
      <4>1. ASSUME NEW i \in 1..Len(replies') PROVE replies'[i].of <= Len(asks)
        <5>1. i \in 1..Len(replies) \/ i = Len(replies) + 1
          BY <1>t, <3>2, <3>4
        <5> QED
          BY <1>a, <3>1, <3>2, <3>4, <5>1
      <4> QED
        BY <4>1
    <3> QED
      BY <3>3, <3>4
  <2> QED
    BY <1>0, <2>1, <2>2 DEF AskedFor
<1>4. CASE SendSome
  <2>1. UNCHANGED <<asks, client, in, requests>>
    BY <1>4 DEF SendSome
  <2>2. \A i \in 1..Len(replies') : replies'[i].of <= Len(asks)
    BY <1>0, <1>4, SendSomeFacts DEF AskedFor
  <2> QED
    BY <1>0, <2>1, <2>2 DEF AskedFor
<1>5. CASE UNCHANGED <<asks, client, in, replies, requests>>
  BY <1>0, <1>5 DEF AskedFor
<1>6. CASE NoPage
  BY <1>0, <1>3, <1>6, NoPageFacts
<1>7. CASE StartPage
  BY <1>0, <1>3, <1>7, StartPageFacts
<1>8. CASE Receive \/ EpollWait \/ Decide \/ Resume \/ Ignore \/ ReadAll
           \/ Garbled \/ Yield \/ SendFails \/ SentAll \/ UNCHANGED vars
  BY <1>5, <1>8 DEF Receive, EpollWait, Decide, Resume, Ignore, ReadAll,
     Garbled, Yield, SendFails, SentAll, vars, output
<1> QED
  BY <1>1, <1>2, <1>4, <1>6, <1>7, <1>8 DEF Next, Server

LEMMA NextStages == Inv /\ [Next]_vars => Stages'
<1> SUFFICES ASSUME Inv, [Next]_vars PROVE Stages'
  OBVIOUS
<1>0. TypeOK /\ AskedFor /\ Stages
  BY DEF Inv
<1>1. CASE Send \/ SendRest
  <2>1. in' # <<>> /\ open
    <3>1. Len(in') = Len(in) + 1 /\ Len(in) \in Nat
      BY <1>0, <1>1, SentFacts, LenProperties DEF TypeOK
    <3> QED
      BY <1>1, <3>1 DEF Send, SendRest
  <2>2. UNCHANGED <<event, open, handler, requests, flags>>
    BY <1>1 DEF Send, SendRest
  <2> QED
    BY <1>0, <2>1, <2>2 DEF Stages, Running, flags
<1>2. CASE ReadSome
  <2>1. requests' # <<>>
    BY <1>0, <1>2, ReadSomeFacts
  <2>2. /\ UNCHANGED <<event, open, handler, flags>>
        /\ handler \in {"decide", "read"}
    BY <1>2 DEF ReadSome
  <2> QED
    BY <1>0, <2>1, <2>2 DEF Stages, Running, flags
<1>3. CASE NoPage
  <2>1. /\ handler = "parse" /\ handler' = "next" /\ is_read_awaiting' = TRUE
        /\ is_write_awaiting' = FALSE /\ UNCHANGED <<in, event, open>>
    BY <1>0, <1>3, NoPageFacts DEF Answers
  <2> QED
    BY <1>0, <2>1 DEF Stages, Running
<1>4. CASE StartPage
  <2>1. /\ handler = "parse" /\ handler' = "send" /\ UNCHANGED flags
        /\ UNCHANGED <<in, event, open>>
    BY <1>0, <1>4, StartPageFacts DEF Answers
  <2> QED
    BY <1>0, <2>1 DEF Stages, Running, flags
<1> USE <1>0 DEF Stages, Running, flags, output
<1>5. CASE Garbled
  BY <1>5 DEF Garbled
<1>6. CASE Receive
  BY <1>6 DEF Receive
<1>7. CASE EpollWait
  BY <1>7 DEF EpollWait, TypeOK
<1>8. CASE Decide
  BY <1>8 DEF Decide
<1>9. CASE Resume
  BY <1>9 DEF Resume, TypeOK
<1>10. CASE Ignore
  BY <1>10 DEF Ignore
<1>11. CASE ReadAll
  BY <1>11 DEF ReadAll
<1>12. CASE SendSome
  BY <1>12 DEF SendSome
<1>13. CASE Yield
  BY <1>13 DEF Yield
<1>14. CASE SendFails
  BY <1>14 DEF SendFails
<1>15. CASE SentAll
  BY <1>15 DEF SentAll, NextRound
<1>16. CASE UNCHANGED vars
  BY <1>16 DEF vars
<1> QED
  BY <1>1, <1>2, <1>3, <1>4, <1>5, <1>6, <1>7, <1>8, <1>9, <1>10, <1>11,
     <1>12, <1>13, <1>14, <1>15, <1>16
  DEF Next, Server

(* Every step, by what it does to the requests and the answers.  Only a    *)
(* string that was answered with an error may stay.                        *)
AnswersWell(status, length) ==
  Answers(status, length) /\ (requests' = requests => status = 403)

LEMMA Steps ==
  ASSUME TypeOK, AskedFor, Stages, [Next]_vars
  PROVE  \/ Send \/ SendRest \/ ReadSome \/ SendSome
         \/ \E status, length : AnswersWell(status, length)
         \/ UNCHANGED <<asks, client, in, requests, replies>>
<1>1. CASE NoPage
  <2>1. requests # <<>>
    BY <1>1 DEF NoPage, Stages
  <2>2. PICK u \in Meanings :
          /\ Answers(Status(u), 0)
          /\ requests' = IF u.what = "bad" THEN requests ELSE <<>>
    BY <1>1, NoPageFacts
  <2>3. u.what = "bad" => Status(u) = 403
    BY DEF Status
  <2>4. AnswersWell(Status(u), 0)
    BY <2>1, <2>2, <2>3 DEF AnswersWell
  <2> QED
    BY <2>4
<1>2. CASE StartPage
  <2>1. requests # <<>>
    BY <1>2 DEF StartPage, Stages
  <2>2. PICK u \in Meanings : Answers(Status(u), Length(u)) /\ requests' = <<>>
    BY <1>2, StartPageFacts
  <2>3. AnswersWell(Status(u), Length(u))
    BY <2>1, <2>2 DEF AnswersWell
  <2> QED
    BY <2>3
<1>3. CASE Receive \/ EpollWait \/ Decide \/ Resume \/ Ignore \/ ReadAll
           \/ Garbled \/ Yield \/ SendFails \/ SentAll \/ UNCHANGED vars
  BY <1>3 DEF Receive, EpollWait, Decide, Resume, Ignore, ReadAll, Garbled,
     Yield, SendFails, SentAll, vars, output
<1> QED
  BY <1>1, <1>2, <1>3 DEF Next, Server

LEMMA NextSorted == Inv /\ [Next]_vars => Sorted'
<1> SUFFICES ASSUME Inv, [Next]_vars PROVE Sorted'
  OBVIOUS
<1>0. /\ TypeOK /\ AskedFor /\ Stages
      /\ in \in Seq(Segment) /\ requests \in Seq(Segment)
  BY DEF Inv, TypeOK
<1>n. Len(asks) \in Nat
  BY LenProperties DEF Inv, TypeOK
<1>t. /\ Len(in) \in Nat /\ Len(requests) \in Nat
      /\ \A i \in 1..Len(in) : in[i].of \in Nat
      /\ \A i \in 1..Len(requests) : requests[i].of \in Nat
  BY <1>0, Segments
<1>a. /\ \A i \in 1..Len(in) : in[i].of <= Len(asks)
      /\ \A i \in 1..Len(requests) : requests[i].of <= Len(asks)
  BY <1>0 DEF AskedFor
<1>s. /\ \A i, j \in 1..Len(in) : i < j => Before(in[i], in[j])
      /\ \A i, j \in 1..Len(requests) : i < j => Before(requests[i], requests[j])
      /\ \A i \in 1..Len(requests), j \in 1..Len(in) : Before(requests[i], in[j])
  BY DEF Inv, Sorted
<1>1. CASE Send \/ SendRest
  <2>1. PICK s \in Segment :
          /\ Len(in') = Len(in) + 1
          /\ \A i \in 1..Len(in) : in'[i] = in[i]
          /\ in'[Len(in) + 1] = s
          /\ \/ s.of = Len(asks) + 1
             \/ s.of = Len(asks) /\ s.part = "tail" /\ client = "half"
    BY <1>0, <1>1, SentFacts
  <2>2. requests' = requests
    BY <1>1 DEF Send, SendRest
  <2>3. ASSUME NEW t, t.of \in Nat, t.of <= Len(asks),
               client = "half" => FirstHalf(t)
        PROVE  Before(t, s)
    BY <1>n, <2>1, <2>3 DEF Before, FirstHalf
  <2>h. client = "half" => /\ \A i \in 1..Len(in) : FirstHalf(in[i])
                           /\ \A i \in 1..Len(requests) : FirstHalf(requests[i])
    BY DEF Inv, Halves
  <2>4. ASSUME NEW i \in 1..Len(in'), NEW j \in 1..Len(in'), i < j
        PROVE  Before(in'[i], in'[j])
    <3>0. i \in 1..Len(in) /\ (j \in 1..Len(in) \/ j = Len(in) + 1)
      <4>1. Len(in') = Len(in) + 1 /\ Len(in) \in Nat
        BY <1>t, <2>1
      <4> QED
        BY <2>4, <4>1
    <3>1. i \in 1..Len(in) /\ in'[i] = in[i] /\ (j \in 1..Len(in) \/ j = Len(in) + 1)
      BY <2>1, <3>0
    <3>2. CASE j \in 1..Len(in)
      BY <1>s, <2>1, <2>4, <3>1, <3>2
    <3>3. CASE j = Len(in) + 1
      BY <1>t, <1>a, <2>1, <2>3, <2>h, <3>1, <3>3
    <3> QED
      BY <3>1, <3>2, <3>3
  <2>5. ASSUME NEW i \in 1..Len(requests), NEW j \in 1..Len(in')
        PROVE  Before(requests[i], in'[j])
    <3>1. j \in 1..Len(in) \/ j = Len(in) + 1
      BY <1>t, <2>1
    <3>2. CASE j \in 1..Len(in)
      BY <1>s, <2>1, <3>2
    <3>3. CASE j = Len(in) + 1
      BY <1>t, <1>a, <2>1, <2>3, <2>h, <3>3
    <3> QED
      BY <3>1, <3>2, <3>3
  <2> QED
    BY <1>s, <2>2, <2>4, <2>5 DEF Sorted
<1>2. CASE ReadSome
  <2>1. /\ in # <<>> /\ Len(in') = Len(in) - 1
        /\ \A i \in 1..Len(in') : in'[i] = in[i + 1]
        /\ Len(requests') = Len(requests) + 1
        /\ \A i \in 1..Len(requests) : requests'[i] = requests[i]
        /\ requests'[Len(requests) + 1] = in[1]
    BY <1>0, <1>2, ReadSomeFacts
  <2>2. Len(in) \in Nat \ {0} /\ 1 \in 1..Len(in)
    BY <1>0, <2>1, First
  <2>3. ASSUME NEW i \in 1..Len(in'), NEW j \in 1..Len(in'), i < j
        PROVE  Before(in'[i], in'[j])
    <3>1. /\ i + 1 \in 1..Len(in) /\ j + 1 \in 1..Len(in) /\ i + 1 < j + 1
          /\ in'[i] = in[i + 1] /\ in'[j] = in[j + 1]
      BY <2>1, <2>2, <2>3
    <3> QED
      BY <1>s, <3>1
  <2>4. ASSUME NEW i \in 1..Len(requests'), NEW j \in 1..Len(requests'), i < j
        PROVE  Before(requests'[i], requests'[j])
    <3>1. /\ i \in 1..Len(requests) /\ requests'[i] = requests[i]
          /\ j \in 1..Len(requests) \/ j = Len(requests) + 1
      BY <1>t, <2>1, <2>4
    <3>2. CASE j \in 1..Len(requests)
      BY <1>s, <2>1, <2>4, <3>1, <3>2
    <3>3. CASE j = Len(requests) + 1
      BY <1>s, <2>1, <2>2, <3>1, <3>3
    <3> QED
      BY <3>1, <3>2, <3>3
  <2>5. ASSUME NEW i \in 1..Len(requests'), NEW j \in 1..Len(in')
        PROVE  Before(requests'[i], in'[j])
    <3>1. /\ i \in 1..Len(requests) \/ i = Len(requests) + 1
          /\ j + 1 \in 1..Len(in) /\ 1 < j + 1 /\ in'[j] = in[j + 1]
      BY <1>t, <2>1, <2>2
    <3>2. CASE i \in 1..Len(requests)
      BY <1>s, <2>1, <3>1, <3>2
    <3>3. CASE i = Len(requests) + 1
      BY <1>s, <2>1, <2>2, <3>1, <3>3
    <3> QED
      BY <3>1, <3>2, <3>3
  <2> QED
    BY <2>3, <2>4, <2>5 DEF Sorted
<1>3. ASSUME NEW status, NEW length, AnswersWell(status, length) PROVE Sorted'
  <2>1. in' = in /\ requests' \in {<<>>, requests}
    BY <1>3 DEF Answers, AnswersWell
  <2>2. CASE requests' = requests
    BY <1>s, <2>1, <2>2 DEF Sorted
  <2>3. CASE requests' = <<>>
    <3>1. 1..Len(requests') = {}
      BY <2>3
    <3> QED
      BY <1>s, <2>1, <3>1 DEF Sorted
  <2> QED
    BY <2>1, <2>2, <2>3
<1>4. CASE SendSome \/ UNCHANGED <<asks, client, in, requests, replies>>
  <2>1. UNCHANGED <<in, requests>>
    BY <1>4 DEF SendSome
  <2> QED
    BY <1>s, <2>1 DEF Sorted
<1> QED
  BY <1>0, <1>1, <1>2, <1>3, <1>4, Steps

(* A string that is stuck stays so, whatever is sent or read.              *)
LEMMA StuckStays ==
  ASSUME TypeOK, AskedFor, Len(requests') \in Nat, Len(requests) <= Len(requests'),
         \A i \in 1..Len(requests) : requests'[i] = requests[i],
         \A i \in 1..Len(asks) : asks'[i] = asks[i],
         Stuck
  PROVE  Stuck'
<1>1. Len(requests) \in Nat \ {0} /\ requests[1].of \in 1..Len(asks)
  BY First, AskedForFacts DEF Stuck, TypeOK
<1>2. requests' # <<>> /\ requests'[1] = requests[1]
  BY <1>1
<1>3. Len(requests) > 1 => Len(requests') > 1 /\ requests'[2] = requests[2]
  BY <1>1
<1> QED
  BY <1>1, <1>2, <1>3 DEF Stuck

LEMMA NextHalves == Inv /\ [Next]_vars => Halves'
<1> SUFFICES ASSUME Inv, [Next]_vars, client' = "half"
             PROVE  /\ \A i \in 1..Len(in') : FirstHalf(in[i])'
                    /\ \A i \in 1..Len(requests') : FirstHalf(requests[i])'
                    /\ replies' # <<>> => FirstHalf(Latest)'
  BY DEF Halves
<1>0. /\ TypeOK /\ AskedFor /\ Stages /\ Len(asks) \in Nat
      /\ in \in Seq(Segment) /\ requests \in Seq(Segment)
      /\ replies \in Seq(Reply)
  BY LenProperties DEF Inv, TypeOK
<1>t. /\ Len(in) \in Nat /\ Len(requests) \in Nat /\ Len(replies) \in Nat
      /\ \A i \in 1..Len(in) : in[i].of \in Nat
      /\ \A i \in 1..Len(requests) : requests[i].of \in Nat
      /\ \A i \in 1..Len(replies) : replies[i].of \in Nat
  BY <1>0, Segments, Replies
<1>a. /\ \A i \in 1..Len(in) : in[i].of <= Len(asks)
      /\ \A i \in 1..Len(requests) : requests[i].of <= Len(asks)
      /\ \A i \in 1..Len(replies) : replies[i].of <= Len(asks)
  BY <1>0 DEF AskedFor
<1>h. client = "half" =>
        /\ \A i \in 1..Len(in) : FirstHalf(in[i])
        /\ \A i \in 1..Len(requests) : FirstHalf(requests[i])
        /\ replies # <<>> => FirstHalf(Latest)
  BY DEF Inv, Halves
<1>1. CASE Send \/ SendRest
  <2>1. PICK s \in Segment :
          /\ Len(in') = Len(in) + 1
          /\ \A i \in 1..Len(in) : in'[i] = in[i]
          /\ in'[Len(in) + 1] = s
          /\ Len(asks') = Len(asks) + 1 /\ s.part = "head"
    BY <1>0, <1>1, SentFacts
  <2>2. UNCHANGED <<requests, replies>> /\ Latest' = Latest
    BY <1>1 DEF Send, SendRest, output, Latest
  <2>3. ASSUME NEW t, t.of \in Nat, t.of <= Len(asks)
        PROVE  t.of # Len(asks')
    BY <1>0, <2>1, <2>3
  <2>4. ASSUME NEW i \in 1..Len(in') PROVE FirstHalf(in[i])'
    <3>1. i \in 1..Len(in) \/ i = Len(in) + 1
      BY <1>t, <2>1
    <3>2. CASE i \in 1..Len(in)
      BY <1>t, <1>a, <2>1, <2>3, <3>2 DEF FirstHalf
    <3>3. CASE i = Len(in) + 1
      BY <2>1, <3>3 DEF FirstHalf
    <3> QED
      BY <3>1, <3>2, <3>3
  <2>5. ASSUME NEW i \in 1..Len(requests) PROVE FirstHalf(requests[i])'
    BY <1>t, <1>a, <2>2, <2>3 DEF FirstHalf
  <2>6. ASSUME replies # <<>> PROVE FirstHalf(Latest)'
    <3>1. Len(replies) \in 1..Len(replies)
      BY <1>0, <2>6, First
    <3>2. Latest.of # Len(asks')
      BY <1>t, <1>a, <2>3, <3>1 DEF Latest
    <3> QED
      BY <2>2, <3>2 DEF FirstHalf
  <2> QED
    BY <2>2, <2>4, <2>5, <2>6
<1>2. CASE ReadSome
  <2>1. /\ in # <<>> /\ Len(in') = Len(in) - 1
        /\ \A i \in 1..Len(in') : in'[i] = in[i + 1]
        /\ Len(requests') = Len(requests) + 1
        /\ \A i \in 1..Len(requests) : requests'[i] = requests[i]
        /\ requests'[Len(requests) + 1] = in[1]
    BY <1>0, <1>2, ReadSomeFacts
  <2>2. Len(in) \in Nat \ {0} /\ 1 \in 1..Len(in)
    BY <1>0, <2>1, First
  <2>3. UNCHANGED <<asks, client, replies>> /\ Latest' = Latest
    BY <1>2 DEF ReadSome, output, Latest
  <2>4. ASSUME NEW i \in 1..Len(in') PROVE FirstHalf(in[i])'
    <3>1. i + 1 \in 1..Len(in) /\ in'[i] = in[i + 1]
      BY <2>1, <2>2
    <3> QED
      BY <1>h, <2>3, <3>1 DEF FirstHalf
  <2>5. ASSUME NEW i \in 1..Len(requests') PROVE FirstHalf(requests[i])'
    <3>1. i \in 1..Len(requests) \/ i = Len(requests) + 1
      BY <1>t, <2>1
    <3> QED
      BY <1>h, <2>1, <2>2, <2>3, <3>1 DEF FirstHalf
  <2> QED
    BY <1>h, <2>3, <2>4, <2>5 DEF FirstHalf
<1>3. ASSUME NEW status, NEW length, AnswersWell(status, length)
      PROVE  /\ \A i \in 1..Len(in') : FirstHalf(in[i])'
             /\ \A i \in 1..Len(requests') : FirstHalf(requests[i])'
             /\ replies' # <<>> => FirstHalf(Latest)'
  <2>1. UNCHANGED <<asks, client, in>> /\ requests' \in {<<>>, requests}
    BY <1>3 DEF Answers, AnswersWell
  <2>2. /\ 1 \in 1..Len(requests)
        /\ \/ replies' = replies
           \/ Latest'.of = requests[1].of /\ Latest'.part = requests[1].part
    <3>1. /\ requests # <<>>
          /\ \/ UNCHANGED output
             \/ /\ Len(replies') = Len(replies) + 1
                /\ replies'[Len(replies) + 1] =
                     [of |-> requests[1].of, part |-> requests[1].part,
                      status |-> status, length |-> length, body |-> 0]
      BY <1>0, <1>3, AnswersFacts DEF AnswersWell
    <3>2. 1 \in 1..Len(requests)
      BY <1>0, <3>1, First
    <3> QED
      BY <3>1, <3>2 DEF output, Latest
  <2>3. ASSUME NEW i \in 1..Len(requests') PROVE FirstHalf(requests[i])'
    <3>1. requests' = requests
      BY <2>1, <2>3
    <3> QED
      BY <1>h, <2>1, <2>3, <3>1 DEF FirstHalf
  <2>4. ASSUME replies' # <<>> PROVE FirstHalf(Latest)'
    <3>1. CASE replies' = replies
      BY <1>h, <2>1, <2>4, <3>1 DEF FirstHalf, Latest
    <3>2. CASE replies' # replies
      BY <1>h, <2>1, <2>2, <3>2 DEF FirstHalf
    <3> QED
      BY <3>1, <3>2
  <2> QED
    BY <1>h, <2>1, <2>3, <2>4 DEF FirstHalf
<1>4. CASE SendSome
  <2>1. UNCHANGED <<asks, client, in, requests>>
    BY <1>4 DEF SendSome
  <2>2. /\ Len(replies') = Len(replies) /\ replies' \in Seq(Reply)
        /\ \A i \in 1..Len(replies) : /\ replies'[i].of = replies[i].of
                                      /\ replies'[i].part = replies[i].part
    BY <1>0, <1>4, SendSomeFacts
  <2>3. ASSUME replies' # <<>> PROVE FirstHalf(Latest)'
    <3>1. Len(replies) \in 1..Len(replies)
      BY <2>2, <2>3, First
    <3>2. Latest'.of = Latest.of /\ Latest'.part = Latest.part
      BY <2>2, <3>1 DEF Latest
    <3>3. replies # <<>>
      BY <3>1
    <3> QED
      BY <1>h, <2>1, <3>2, <3>3 DEF FirstHalf
  <2> QED
    BY <1>h, <2>1, <2>3 DEF FirstHalf
<1>5. CASE UNCHANGED <<asks, client, in, requests, replies>>
  BY <1>h, <1>5 DEF FirstHalf, Latest
<1> QED
  BY <1>0, <1>1, <1>2, <1>3, <1>4, <1>5, Steps

LEMMA NextAhead == Inv /\ [Next]_vars => Ahead'
<1> SUFFICES ASSUME Inv, [Next]_vars, replies' # <<>>
             PROVE  /\ \A j \in 1..Len(in') : Before(Latest', in'[j])
                    /\ \A j \in 1..Len(requests') :
                         Before(Latest', requests'[j]) \/ (j = 1 /\ Again')
  BY DEF Ahead
<1>0. /\ TypeOK /\ AskedFor /\ Stages
      /\ in \in Seq(Segment) /\ requests \in Seq(Segment)
      /\ replies \in Seq(Reply)
  BY DEF Inv, TypeOK
<1>n. Len(asks) \in Nat
  BY LenProperties DEF Inv, TypeOK
<1>t. /\ Len(in) \in Nat /\ Len(requests) \in Nat /\ Len(replies) \in Nat
      /\ \A i \in 1..Len(replies) : replies[i].of \in Nat
      /\ \A i \in 1..Len(replies) : replies[i].of <= Len(asks)
  BY <1>0, Segments, Replies DEF AskedFor
<1>a. replies # <<>> =>
        /\ Latest.of \in Nat /\ Latest.of <= Len(asks)
        /\ client = "half" => FirstHalf(Latest)
        /\ \A j \in 1..Len(in) : Before(Latest, in[j])
        /\ \A j \in 1..Len(requests) :
             Before(Latest, requests[j]) \/ (j = 1 /\ Again)
  <2>1. replies # <<>> => Len(replies) \in 1..Len(replies)
    BY <1>0, First
  <2> QED
    BY <1>t, <2>1 DEF Inv, Ahead, Halves, Latest
<1>1. CASE Send \/ SendRest
  <2>1. PICK s \in Segment :
          /\ Len(in') = Len(in) + 1
          /\ \A i \in 1..Len(in) : in'[i] = in[i]
          /\ in'[Len(in) + 1] = s
          /\ \/ s.of = Len(asks) + 1
             \/ s.of = Len(asks) /\ s.part = "tail" /\ client = "half"
    BY <1>0, <1>1, SentFacts
  <2>2. requests' = requests /\ replies' = replies /\ Latest' = Latest
    BY <1>1 DEF Send, SendRest, output, Latest
  <2>3. Again' = Again
    BY <2>2 DEF Again
  <2>4. Before(Latest, s)
    BY <1>n, <1>a, <2>1, <2>2 DEF Before, FirstHalf
  <2>5. ASSUME NEW j \in 1..Len(in') PROVE Before(Latest, in'[j])
    <3>1. j \in 1..Len(in) \/ j = Len(in) + 1
      BY <1>t, <2>1
    <3> QED
      BY <1>a, <2>1, <2>2, <2>4, <3>1
  <2> QED
    BY <1>a, <2>2, <2>3, <2>5
<1>2. CASE ReadSome
  <2>1. /\ in # <<>> /\ Len(in') = Len(in) - 1
        /\ \A i \in 1..Len(in') : in'[i] = in[i + 1]
        /\ Len(requests') = Len(requests) + 1
        /\ \A i \in 1..Len(requests) : requests'[i] = requests[i]
        /\ requests'[Len(requests) + 1] = in[1]
    BY <1>0, <1>2, ReadSomeFacts
  <2>2. Len(in) \in Nat \ {0} /\ 1 \in 1..Len(in)
    BY <1>0, <2>1, First
  <2>3. replies' = replies /\ Latest' = Latest
    BY <1>2 DEF ReadSome, output, Latest
  <2>4. 1 \in 1..Len(requests) => Again' = Again
    BY <2>1, <2>3 DEF Again
  <2>5. ASSUME NEW j \in 1..Len(in') PROVE Before(Latest, in'[j])
    <3>1. j + 1 \in 1..Len(in) /\ in'[j] = in[j + 1]
      BY <2>1, <2>2
    <3> QED
      BY <1>a, <2>3, <3>1
  <2>6. ASSUME NEW j \in 1..Len(requests')
        PROVE  Before(Latest, requests'[j]) \/ (j = 1 /\ Again')
    <3>1. j \in 1..Len(requests) \/ j = Len(requests) + 1
      BY <1>t, <2>1
    <3>2. CASE j \in 1..Len(requests)
      BY <1>a, <2>1, <2>3, <2>4, <3>2
    <3>3. CASE j = Len(requests) + 1
      BY <1>a, <2>1, <2>2, <2>3, <3>3
    <3> QED
      BY <3>1, <3>2, <3>3
  <2> QED
    BY <2>3, <2>5, <2>6
<1>3. ASSUME NEW status, NEW length, AnswersWell(status, length)
      PROVE  /\ \A j \in 1..Len(in') : Before(Latest', in'[j])
             /\ \A j \in 1..Len(requests') :
                  Before(Latest', requests'[j]) \/ (j = 1 /\ Again')
  <2>1. /\ in' = in /\ requests' \in {<<>>, requests}
        /\ requests' = requests => status = 403
    BY <1>3 DEF Answers, AnswersWell
  <2>2. /\ requests # <<>>
        /\ \/ replies' = replies
           \/ /\ Latest'.of = requests[1].of /\ Latest'.part = requests[1].part
              /\ Latest'.status = status
    <3>1. /\ requests # <<>>
          /\ \/ UNCHANGED output
             \/ /\ Len(replies') = Len(replies) + 1
                /\ replies'[Len(replies) + 1] =
                     [of |-> requests[1].of, part |-> requests[1].part,
                      status |-> status, length |-> length, body |-> 0]
      BY <1>0, <1>3, AnswersFacts DEF AnswersWell
    <3> QED
      BY <3>1 DEF output, Latest
  <2>3. 1..Len(<<>>) = {}
    OBVIOUS
  <2>4. CASE replies' = replies
    <3>1. Latest' = Latest /\ (requests' = requests => Again' = Again)
      BY <2>4 DEF Latest, Again
    <3> QED
      BY <1>a, <2>1, <2>3, <2>4, <3>1
  <2>5. CASE replies' # replies
    <3>1. /\ Latest'.of = requests[1].of /\ Latest'.part = requests[1].part
          /\ Latest'.status = status
      BY <2>2, <2>5
    <3>2. 1 \in 1..Len(requests)
      BY <1>0, <2>2, First
    <3>3. /\ \A j \in 1..Len(in) : Before(requests[1], in[j])
          /\ \A j \in 1..Len(requests) : 1 < j => Before(requests[1], requests[j])
      BY <3>2 DEF Inv, Sorted
    <3>4. \A t : Before(requests[1], t) => Before(Latest', t)
      BY <3>1 DEF Before
    <3>5. ASSUME requests' = requests, NEW j \in 1..Len(requests)
          PROVE  Before(Latest', requests[j]) \/ (j = 1 /\ Again')
      <4>1. CASE j = 1
        BY <2>1, <3>1, <3>5, <4>1 DEF Again
      <4>2. CASE 1 < j
        BY <3>3, <3>4, <4>2
      <4> QED
        BY <1>t, <4>1, <4>2
    <3> QED
      BY <2>1, <2>3, <3>3, <3>4, <3>5
  <2> QED
    BY <2>4, <2>5
<1>4. CASE SendSome
  <2>1. UNCHANGED <<in, requests>>
    BY <1>4 DEF SendSome
  <2>2. /\ Len(replies') = Len(replies) /\ replies' \in Seq(Reply)
        /\ \A i \in 1..Len(replies) : /\ replies'[i].of = replies[i].of
                                      /\ replies'[i].part = replies[i].part
                                      /\ replies'[i].status = replies[i].status
    BY <1>0, <1>4, SendSomeFacts
  <2>3. Len(replies) \in 1..Len(replies) /\ replies # <<>>
    <3>1. Len(replies) \in 1..Len(replies)
      BY <2>2, First
    <3> QED
      BY <3>1
  <2>4. /\ Latest'.of = Latest.of /\ Latest'.part = Latest.part
        /\ Latest'.status = Latest.status
    BY <2>2, <2>3 DEF Latest
  <2>5. \A t : Before(Latest, t) => Before(Latest', t)
    BY <2>4 DEF Before
  <2>6. Again' = Again
    BY <2>1, <2>4 DEF Again
  <2> QED
    BY <1>a, <2>1, <2>3, <2>5, <2>6
<1>5. CASE UNCHANGED <<asks, client, in, requests, replies>>
  <2>1. Latest' = Latest /\ Again' = Again
    BY <1>5 DEF Latest, Again
  <2> QED
    BY <1>a, <1>5, <2>1
<1> QED
  BY <1>0, <1>1, <1>2, <1>3, <1>4, <1>5, Steps

LEMMA NextInv == Inv /\ [Next]_vars => Inv'
  BY NextType, NextAskedFor, NextStages, NextSorted, NextHalves, NextAhead DEF Inv

-----------------------------------------------------------------------------
(* What follows from the invariant.                                        *)

(* The invariant, for every file, send buffer and set of requests.         *)
THEOREM SessionInvariant == Spec => []Inv
<1>1. Init => Inv
  BY InitInv
<1>2. Inv /\ [Next]_vars => Inv'
  BY NextInv
<1> QED
  BY <1>1, <1>2, PTL DEF Spec

(* Every variable of handle_http's connection keeps its type: what is in   *)
(* the send buffer never exceeds it, and every answer is to a request.     *)
THEOREM SessionTypes == Spec => []TypeOK
<1>1. Inv => TypeOK
  BY DEF Inv
<1> QED
  BY <1>1, SessionInvariant, PTL

(* parse_http_request is never given an empty string (http.hpp:221-234).   *)
THEOREM AlwaysSomethingToParse == Spec => []SomethingToParse
<1>1. Inv => SomethingToParse
  BY DEF Inv, Stages, SomethingToParse
<1> QED
  BY <1>1, SessionInvariant, PTL

(* The segment that the latest answer was for is answered again only if    *)
(* that was an error.                                                      *)
LEMMA NextNoPageTwice == Inv /\ NoPageTwice /\ [Next]_vars => NoPageTwice'
<1> SUFFICES ASSUME Inv, NoPageTwice, [Next]_vars PROVE NoPageTwice'
  OBVIOUS
<1>0. /\ TypeOK /\ AskedFor /\ Stages /\ requests \in Seq(Segment)
      /\ replies \in Seq(Reply) /\ Len(replies) \in Nat
  BY LenProperties DEF Inv, TypeOK
<1>1. ASSUME NEW status, NEW length, AnswersWell(status, length)
      PROVE  NoPageTwice'
  <2>1. /\ requests # <<>>
        /\ \/ UNCHANGED output
           \/ /\ Len(replies') = Len(replies) + 1
              /\ \A i \in 1..Len(replies) : replies'[i] = replies[i]
              /\ replies'[Len(replies) + 1] =
                   [of |-> requests[1].of, part |-> requests[1].part,
                    status |-> status, length |-> length, body |-> 0]
    BY <1>0, <1>1, AnswersFacts DEF AnswersWell
  <2>2. CASE UNCHANGED output
    BY <2>2 DEF NoPageTwice, output
  <2>3. CASE ~UNCHANGED output
    <3> DEFINE k == Len(replies) + 1
               Follows(now, was) ==
                 \/ now.of > was.of
                 \/ now.of = was.of /\ was.part = "head" /\ now.part = "tail"
                 \/ now.of = was.of /\ now.part = was.part /\ was.status = 403
    <3>1. /\ Len(replies') = k /\ replies'[k].of = requests[1].of
          /\ replies'[k].part = requests[1].part
          /\ \A i \in 1..Len(replies) : replies'[i] = replies[i]
      BY <2>1, <2>3
    <3>2. ASSUME replies # <<>> PROVE Follows(replies'[k], Latest)
      <4>1. 1 \in 1..Len(requests) /\ Len(replies) \in 1..Len(replies)
        BY <1>0, <2>1, <3>2, First
      <4>2. Latest.of \in Nat /\ requests[1].of \in Nat
        BY <1>0, <4>1, Segments, Replies DEF Latest
      <4>3. Before(Latest, requests[1]) \/ Again
        BY <3>2, <4>1 DEF Inv, Ahead
      <4> QED
        BY <3>1, <4>2, <4>3 DEF Before, Again
    <3>3. ASSUME NEW i \in 2..Len(replies')
          PROVE  Follows(replies'[i], replies'[i - 1])
      <4>1. CASE i = k
        <5>1. /\ replies # <<>> /\ i - 1 = Len(replies)
              /\ i - 1 \in 1..Len(replies)
          BY <1>0, <3>1, <3>3, <4>1
        <5>2. replies'[i - 1] = Latest
          BY <3>1, <5>1 DEF Latest
        <5> QED
          BY <3>2, <4>1, <5>1, <5>2
      <4>2. CASE i # k
        <5>1. i \in 2..Len(replies) /\ i \in 1..Len(replies) /\ i - 1 \in 1..Len(replies)
          BY <1>0, <3>1, <3>3, <4>2
        <5> QED
          BY <3>1, <5>1 DEF NoPageTwice
      <4> QED
        BY <4>1, <4>2
    <3> QED
      BY <3>3 DEF NoPageTwice
  <2> QED
    BY <2>2, <2>3
<1>2. CASE SendSome
  <2>1. /\ Len(replies') = Len(replies)
        /\ \A i \in 1..Len(replies) : /\ replies'[i].of = replies[i].of
                                      /\ replies'[i].part = replies[i].part
                                      /\ replies'[i].status = replies[i].status
    BY <1>0, <1>2, SendSomeFacts
  <2>2. ASSUME NEW i \in 2..Len(replies)
        PROVE  i \in 1..Len(replies) /\ i - 1 \in 1..Len(replies)
    BY <1>0
  <2> QED
    BY <2>1, <2>2 DEF NoPageTwice
<1>3. CASE \/ Send \/ SendRest \/ ReadSome
           \/ UNCHANGED <<asks, client, in, requests, replies>>
  <2>1. replies' = replies
    BY <1>3 DEF Send, SendRest, ReadSome, output
  <2> QED
    BY <2>1 DEF NoPageTwice
<1> QED
  BY <1>0, <1>1, <1>2, <1>3, Steps

(* Whatever the client sends and however what is left of a split request   *)
(* is taken, answers come in the order of the requests, and no segment is  *)
(* answered again once its answer was anything but the error of a string   *)
(* that stays: at most one page for each segment (server.hpp:474-489).     *)
THEOREM NoPageSentTwice == Spec => []NoPageTwice
<1>1. Init => NoPageTwice
  BY DEF Init, NoPageTwice
<1>2. Inv /\ NoPageTwice /\ [Next]_vars => NoPageTwice'
  BY NextNoPageTwice
<1> QED
  BY <1>1, <1>2, SessionInvariant, PTL DEF Spec

-----------------------------------------------------------------------------
(* While the client waits.                                                 *)

LEMMA SoundBefore ==
  ASSUME TypeOK, AskedFor, [Next]_vars, Sound'
  PROVE  Sound
<1>0. Len(asks) \in Nat
  BY LenProperties DEF TypeOK
<1>1. CASE Send \/ SendRest
  <2>1. client = "waits"
    BY <1>1, SentFacts DEF Sound
  <2>2. /\ Len(asks') \in {Len(asks), Len(asks) + 1}
        /\ \A i \in 1..Len(asks) : asks'[i] = asks[i]
    BY <1>1, SentFacts
  <2>3. ASSUME NEW i \in 1..Len(asks) PROVE Honoured(asks[i])
    <3>1. i \in 1..Len(asks') /\ asks'[i] = asks[i]
      BY <1>0, <2>2
    <3>2. Honoured(asks'[i])
      BY <3>1 DEF Sound
    <3> QED
      BY <3>1, <3>2
  <2> QED
    BY <2>1, <2>3 DEF Sound
<1>2. CASE UNCHANGED <<asks, client>>
  BY <1>2 DEF Sound
<1>3. CASE Receive \/ Server \/ UNCHANGED vars
  BY <1>2, <1>3 DEF Receive, Server, EpollWait, Decide, Resume, Ignore,
     ReadSome, ReadAll, NoPage, StartPage, Garbled, SendSome, Yield, SendFails,
     SentAll, vars
<1> QED
  BY <1>1, <1>3 DEF Next

(* The client asks only when it has all there is to have.                  *)
LEMMA SoundSend ==
  ASSUME Inv, Turns, Bodies, Send, Sound'
  PROVE  Turns' /\ Bodies'
<1>0. /\ TypeOK /\ AskedFor
      /\ Len(in) \in Nat /\ Len(replies) \in Nat /\ Len(requests) \in Nat
      /\ Len(asks) \in Nat /\ replies \in Seq(Reply) /\ in \in Seq(Segment)
      /\ page \in Page /\ Size \in Nat /\ open
  BY LenProperties, SessionAssumption DEF Inv, TypeOK, Send
<1>1. PICK s \in Segment :
        /\ Len(in') = Len(in) + 1
        /\ \A i \in 1..Len(in) : in'[i] = in[i]
        /\ in'[Len(in) + 1] = s
        /\ \A i \in 1..Len(asks) : asks'[i] = asks[i]
        /\ \/ Len(asks') = Len(asks) + 1 /\ MayAsk /\ s.part = "whole"
           \/ client' = "hasty"
  BY <1>0, SentFacts DEF Sound
<1>2. Len(asks') = Len(asks) + 1 /\ Answered /\ s.part = "whole"
  BY <1>1 DEF Sound, MayAsk
<1>3. /\ edge' = TRUE
      /\ UNCHANGED <<output, event, open, handler, requests, page, flags>>
  BY DEF Send
<1>4. UNCHANGED <<unread, replies>> /\ Latest' = Latest /\ Paging' = Paging
  BY <1>3 DEF output, Latest, Paging
<1>5. ~Asked /\ unread = 0 /\ Len(replies) = Len(asks)
  BY <1>0, <1>2 DEF Answered, Asked
<1>6. in = <<>> => Len(in') = 1
  BY <1>0, <1>1
<1>7. Asked'
  BY <1>2, <1>4, <1>5 DEF Asked
<1>8. Stuck => Stuck'
  BY <1>0, <1>1, <1>3, StuckStays
<1>9. \A i \in 1..Len(in') : in'[i].part = "whole"
  <2>1. ASSUME NEW i \in 1..Len(in') PROVE in'[i].part = "whole"
    <3>1. i \in 1..Len(in) \/ i = Len(in) + 1
      BY <1>0, <1>1
    <3> QED
      BY <1>1, <1>2, <3>1 DEF Turns
  <2> QED
    BY <2>1
<1>10. Paging => page.off = Size /\ Matches'
  <2>1. SUFFICES ASSUME Paging PROVE page.off = Size /\ Matches'
    OBVIOUS
  <2>2. Matches /\ Len(replies) \in 1..Len(replies)
    BY <1>0, <2>1, First DEF Turns, Matches
  <2>3. Latest.length \in Int /\ Latest.body \in Nat /\ Latest.body >= Latest.length
    BY <1>0, <1>2, <2>2, Replies DEF Latest, Answered
  <2>4. page.off \in Nat
    BY <1>0 DEF Page
  <2>5. page.off = Size
    BY <1>0, <2>2, <2>3, <2>4 DEF Matches
  <2>6. Matches'
    BY <1>3, <1>4, <2>2 DEF Matches
  <2> QED
    BY <2>5, <2>6
<1>11. Bodies'
  BY <1>4 DEF Bodies
<1>12. CASE handler \in {"idle", "next", "other", "over", "crash"}
  BY <1>3, <1>5, <1>6, <1>7, <1>8, <1>9, <1>11, <1>12 DEF Turns, Quiet, Paging
<1>13. CASE handler \in {"decide", "read", "parse"}
  BY <1>3, <1>5, <1>8, <1>9, <1>11, <1>13 DEF Turns, Paging
<1>14. CASE handler \in {"send", "page"}
  <2>1. Quiet /\ handler = "send" /\ requests = <<>> /\ Matches'
    BY <1>0, <1>5, <1>10, <1>14 DEF Turns, Paging
  <2> QED
    BY <1>3, <1>4, <1>6, <1>7, <1>9, <1>10, <1>11, <2>1 DEF Turns, Quiet, Paging
<1> QED
  BY <1>0, <1>12, <1>13, <1>14 DEF TypeOK

(* The steps that read nothing, write nothing and start nothing.           *)
LEMMA SoundEvents ==
  ASSUME Inv, Turns, Bodies,
         Receive \/ EpollWait \/ Decide \/ Resume \/ Ignore
  PROVE  Turns' /\ Bodies'
<1>0. /\ TypeOK /\ Stages /\ unread \in Nat /\ SockBuf \in Nat /\ unread <= SockBuf
      /\ Len(in) \in Nat /\ Len(requests) \in Nat
      /\ in = <<>> => Len(in) = 0
  BY LenProperties, SessionAssumption DEF Inv, TypeOK
<1>1. /\ UNCHANGED <<asks, in, replies, requests, page>>
      /\ Latest' = Latest /\ Stuck' = Stuck /\ Matches' = Matches /\ Quiet' = Quiet
  <2>1. UNCHANGED <<asks, in, replies, requests, page>>
    BY DEF Receive, EpollWait, Decide, Resume, Ignore, output
  <2>2. Latest' = Latest
    BY <2>1 DEF Latest
  <2> QED
    BY <2>1, <2>2 DEF Stuck, Matches, Quiet
<1>2. CASE Receive
  <2>1. /\ UNCHANGED <<event, open, handler>>
        /\ unread' \in Nat /\ unread' < unread
        /\ edge \/ unread = SockBuf => edge'
    <3>1. edge \/ unread = SockBuf => edge'
      BY <1>2, Zenon DEF Receive
    <3> QED
      BY <1>0, <1>2, <3>1 DEF Receive
  <2>2. ~Asked
    BY <1>0, <2>1 DEF Asked
  <2>3. Paging' = Paging
    BY <2>1 DEF Paging
  <2>4. Bodies'
    BY <1>1, <2>3 DEF Bodies
  <2>5. handler = "page" /\ unread' < SockBuf => edge' \/ event' = "out"
    BY <1>0, <2>1 DEF Turns
  <2>6. Turns'
    BY <1>1, <2>1, <2>2, <2>3, <2>5 DEF Turns
  <2> QED
    BY <2>4, <2>6
<1>3. CASE EpollWait
  <2>1. /\ UNCHANGED <<unread, open, handler>> /\ ~Running /\ event = "none"
        /\ event' = IF in # <<>> THEN "in"
                    ELSE IF unread < SockBuf THEN "out" ELSE "none"
    BY <1>3 DEF EpollWait, output
  <2>2. Paging' = Paging /\ Asked' = Asked
    BY <1>1, <2>1 DEF Paging, Asked
  <2>3. Bodies'
    BY <1>1, <2>2 DEF Bodies
  <2>4. Turns'
    BY <1>0, <1>1, <2>1, <2>2 DEF Turns, Running, Quiet
  <2> QED
    BY <2>3, <2>4
<1>4. CASE Decide
  <2>1. /\ handler' = "decide" /\ event = "in" /\ ~is_read_awaiting
        /\ UNCHANGED <<unread, edge, open>>
    BY <1>4 DEF Decide, output
  <2>2. in # <<>> /\ handler = "idle" /\ requests = <<>>
    BY <1>0, <2>1 DEF Stages, Turns, Quiet, Running, TypeOK
  <2>3. Len(in) = 1 /\ Asked
    BY <2>2 DEF Turns, Quiet
  <2>4. Asked' /\ Len(in) + Len(requests) = 1
    BY <1>1, <2>1, <2>2, <2>3 DEF Asked
  <2>5. Turns'
    BY <1>1, <2>1, <2>4 DEF Turns, Paging
  <2>6. Bodies'
    BY <1>1, <2>1, <2>2 DEF Bodies, Paging
  <2> QED
    BY <2>5, <2>6
<1>5. CASE Resume
  <2>1. /\ event # "none" /\ UNCHANGED <<unread, edge, open>>
        /\ \/ event = "in" /\ is_read_awaiting
           \/ event = "out" /\ is_write_awaiting
        /\ handler' = IF handler = "page" THEN "send"
                      ELSE IF requests = <<>> THEN "read" ELSE "parse"
    BY <1>5 DEF Resume, output
  <2>2. handler \in {"next", "page"}
    BY <1>0, <2>1 DEF Stages, TypeOK, Running
  <2>3. CASE handler = "page"
    <3>1. Turns'
      BY <1>1, <2>1, <2>3 DEF Turns, Paging
    <3>2. Bodies'
      BY <1>1, <2>1, <2>3 DEF Bodies, Paging
    <3> QED
      BY <3>1, <3>2
  <2>4. CASE handler = "next"
    <3>1. in # <<>>
      BY <1>0, <2>1, <2>4 DEF Stages
    <3>2. requests = <<>> => Len(in) = 1 /\ Asked'
      BY <1>1, <2>1, <2>4, <3>1 DEF Turns, Quiet, Asked
    <3>3. Turns'
      BY <1>0, <1>1, <2>1, <2>4, <3>2 DEF Turns, Paging
    <3>4. Bodies'
      BY <1>1, <2>1, <2>4 DEF Bodies, Paging
    <3> QED
      BY <3>3, <3>4
  <2> QED
    BY <2>2, <2>3, <2>4
<1>6. CASE Ignore
  <2>1. event = "out" /\ ~is_write_awaiting /\ UNCHANGED <<unread, edge, open, handler>>
    BY <1>6 DEF Ignore, output
  <2>2. handler # "page"
    BY <1>0, <2>1 DEF Stages
  <2>3. Paging' = Paging /\ Asked' = Asked
    BY <1>1, <2>1 DEF Paging, Asked
  <2>4. Turns'
    BY <1>1, <2>1, <2>2, <2>3 DEF Turns
  <2>5. Bodies'
    BY <1>1, <2>3 DEF Bodies
  <2> QED
    BY <2>4, <2>5
<1> QED
  BY <1>2, <1>3, <1>4, <1>5, <1>6

LEMMA SoundRead ==
  ASSUME Inv, Turns, Bodies, ReadSome \/ ReadAll
  PROVE  Turns' /\ Bodies'
<1>0. /\ TypeOK /\ Len(in) \in Nat /\ Len(requests) \in Nat
      /\ in \in Seq(Segment) /\ requests \in Seq(Segment)
      /\ in = <<>> => Len(in) = 0
  BY LenProperties DEF Inv, TypeOK
<1>1. /\ UNCHANGED <<asks, unread, replies, page>> /\ handler \in {"decide", "read"}
      /\ Latest' = Latest
  BY DEF ReadSome, ReadAll, output, Latest
<1>2. Len(in) + Len(requests) = 1 /\ Asked /\ Asked'
  BY <1>1 DEF Turns, Asked
<1>3. CASE ReadSome
  <2>1. /\ in # <<>> /\ Len(in') = Len(in) - 1 /\ handler' = handler
        /\ Len(requests') = Len(requests) + 1
        /\ requests'[Len(requests) + 1] = in[1]
    BY <1>0, <1>3, ReadSomeFacts DEF ReadSome
  <2>2. Len(in) = 1 /\ Len(requests) = 0 /\ Len(in') = 0 /\ Len(requests') = 1
    BY <1>0, <1>2, <2>1, EmptySeq
  <2>3. in[1].part = "whole"
    BY <2>2 DEF Turns
  <2>4. /\ \A i \in 1..Len(in') : in'[i].part = "whole"
        /\ \A i \in 1..Len(requests') : requests'[i].part = "whole"
    BY <2>1, <2>2, <2>3
  <2>5. Turns'
    BY <1>1, <1>2, <2>1, <2>2, <2>4 DEF Turns, Paging
  <2>6. Bodies'
    BY <1>1, <2>1 DEF Bodies, Paging
  <2> QED
    BY <2>5, <2>6
<1>4. CASE ReadAll
  <2>1. in = <<>> /\ Len(requests) = 1 /\ in' = in /\ requests' = requests
    BY <1>0, <1>2, <1>4 DEF ReadAll
  <2>2. requests[1].part = "whole"
    BY <2>1 DEF Turns
  <2>3. handler' = "parse"
    BY <1>4, <2>2 DEF ReadAll
  <2>4. Turns'
    BY <1>2, <2>1, <2>3 DEF Turns, Paging
  <2>5. Bodies'
    BY <1>1, <2>3 DEF Bodies, Paging
  <2> QED
    BY <2>4, <2>5
<1> QED
  BY <1>3, <1>4

(* An answer: to the request that is out, or to the one that is stuck.     *)
LEMMA SoundAnswer ==
  ASSUME Inv, Sound, Turns, Bodies, NoPage \/ StartPage \/ Garbled
  PROVE  Turns' /\ Bodies'
<1>0. /\ TypeOK /\ AskedFor /\ Stages /\ Len(replies) \in Nat /\ Len(asks) \in Nat
      /\ Len(requests) \in Nat /\ requests \in Seq(Segment)
      /\ unread \in Nat /\ SockBuf \in Nat \ {0} /\ Size \in Nat
  BY LenProperties, SessionAssumption DEF Inv, TypeOK
<1>1. handler = "parse" /\ requests # <<>>
  BY <1>0 DEF NoPage, StartPage, Garbled, Stages
<1>2. 1 \in 1..Len(requests) /\ requests[1].part = "whole"
  BY <1>0, <1>1, First DEF Turns
<1>3. ~Garbled
  BY <1>2 DEF Garbled
<1>4. /\ requests[1].of \in 1..Len(asks)
      /\ \A u \in Meanings : /\ u = asks[requests[1].of]
                             /\ u.what = "bad" <=> Stuck
                             /\ u.first \in Nat /\ u.last \in Nat
  BY <1>0, <1>1, <1>2, AskedForFacts, MeaningFacts
<1>5. Stuck \/ (in = <<>> /\ Len(requests) = 1 /\ Asked)
  BY <1>1 DEF Turns
<1>b. \A i \in 1..Len(replies) : replies[i].body = replies[i].length
  BY <1>1 DEF Bodies, Paging
<1>6. CASE NoPage
  <2>1. PICK u \in Meanings :
          /\ Answers(Status(u), 0) /\ handler' = "next"
          /\ requests' = IF u.what = "bad" THEN requests ELSE <<>>
    BY <1>0, <1>6, NoPageFacts
  <2>2. UNCHANGED <<asks, in>>
    BY <2>1 DEF Answers
  <2>3. /\ unread < SockBuf => Len(replies') = Len(replies) + 1
        /\ \/ UNCHANGED output
           \/ /\ Len(replies') = Len(replies) + 1
              /\ \A i \in 1..Len(replies) : replies'[i] = replies[i]
              /\ replies'[Len(replies) + 1] =
                   [of |-> requests[1].of, part |-> requests[1].part,
                    status |-> Status(u), length |-> 0, body |-> 0]
    BY <1>0, <2>1, AnswersFacts
  <2>4. Bodies'
    <3>1. CASE UNCHANGED output
      BY <1>b, <2>1, <3>1 DEF Bodies, output
    <3>2. CASE ~UNCHANGED output
      <4>1. /\ Len(replies') = Len(replies) + 1
            /\ \A i \in 1..Len(replies) : replies'[i] = replies[i]
            /\ replies'[Len(replies) + 1].body = replies'[Len(replies) + 1].length
        BY <2>3, <3>2
      <4>2. ASSUME NEW i \in 1..Len(replies')
            PROVE  replies'[i].body = replies'[i].length
        <5>1. i \in 1..Len(replies) \/ i = Len(replies) + 1
          BY <1>0, <4>1
        <5> QED
          BY <1>b, <4>1, <5>1
      <4> QED
        BY <4>2 DEF Bodies
    <3> QED
      BY <3>1, <3>2
  <2>5. CASE Stuck
    <3>1. requests' = requests /\ Stuck'
      BY <1>4, <2>1, <2>2, <2>5 DEF Stuck
    <3>2. Turns'
      BY <1>1, <2>1, <2>2, <3>1 DEF Turns, Paging
    <3> QED
      BY <2>4, <3>2
  <2>6. CASE ~Stuck
    <3>1. requests' = <<>> /\ in = <<>> /\ Asked
      BY <1>4, <1>5, <2>1, <2>6
    <3>2. Len(replies') = Len(replies) + 1
      BY <1>0, <2>3, <3>1 DEF Asked
    <3>3. Quiet'
      BY <2>2, <3>1, <3>2 DEF Asked, Quiet
    <3>4. Len(in') = 0 /\ Len(requests') = 0
      BY <2>2, <3>1
    <3>5. Turns'
      BY <2>1, <3>1, <3>3, <3>4 DEF Turns, Paging
    <3> QED
      BY <2>4, <3>5
  <2> QED
    BY <2>5, <2>6
<1>7. CASE StartPage
  <2>1. PICK u \in Meanings :
          /\ Answers(Status(u), Length(u))
          /\ handler' = "send" /\ requests' = <<>>
          /\ page'.sz = Length(u)
          /\ page'.off = IF u.what = "range" THEN u.first ELSE 0
          /\ u.what \in {"page", "range"}
    BY <1>0, <1>7, StartPageFacts
  <2>2. UNCHANGED <<asks, in>> /\ in = <<>> /\ Asked
    BY <1>4, <1>5, <2>1 DEF Answers
  <2>3. /\ Len(replies') = Len(replies) + 1
        /\ \A i \in 1..Len(replies) : replies'[i] = replies[i]
        /\ Latest'.length = Length(u) /\ Latest'.body = 0
    <3>0. unread < SockBuf => Len(replies') = Len(replies) + 1
      BY <1>0, <2>1, AnswersFacts
    <3>1. Len(replies') = Len(replies) + 1
      BY <1>0, <2>2, <3>0 DEF Asked
    <3>2. ~UNCHANGED output
      BY <1>0, <3>1 DEF output
    <3>3. /\ \A i \in 1..Len(replies) : replies'[i] = replies[i]
          /\ replies'[Len(replies) + 1] =
               [of |-> requests[1].of, part |-> requests[1].part,
                status |-> Status(u), length |-> Length(u), body |-> 0]
      BY <1>0, <2>1, <3>2, AnswersFacts
    <3> QED
      BY <3>1, <3>3 DEF Latest
  <2>4. u.what = "range" =>
          u.last = Size - 1 /\ u.first <= Size
    BY <1>4 DEF Sound, Honoured
  <2>5. /\ page'.off <= Size /\ Length(u) >= 0
        /\ Length(u) - 0 = Size - page'.off
    <3>1. CASE u.what = "page"
      <4>1. Length(u) = Size
        BY <3>1 DEF Length
      <4> QED
        BY <1>0, <2>1, <3>1, <4>1
    <3>2. CASE u.what = "range"
      <4>1. Length(u) = u.last - u.first + 1
        BY <3>2 DEF Length
      <4>2. page'.off = u.first
        BY <2>1, <3>2
      <4>3. /\ u.last = Size - 1 /\ u.first <= Size
            /\ u.first \in Nat /\ Size \in Nat
        BY <1>0, <1>4, <2>4, <3>2
      <4>4. Length(u) = Size - u.first
        BY <4>1, <4>3
      <4> QED
        BY <4>2, <4>3, <4>4
    <3> QED
      BY <2>1, <3>1, <3>2
  <2>6. Matches'
    BY <1>0, <2>1, <2>3, <2>5 DEF Matches
  <2>7. Quiet'
    BY <2>2, <2>3 DEF Asked, Quiet
  <2>8. Len(in') = 0 /\ Len(requests') = 0
    BY <2>1, <2>2
  <2>9. Turns'
    BY <2>1, <2>6, <2>7, <2>8 DEF Turns, Paging
  <2>10. Bodies'
    <3>1. ASSUME NEW i \in 1..Len(replies'), i < Len(replies')
          PROVE  replies'[i].body = replies'[i].length
      <4>1. i \in 1..Len(replies)
        BY <1>0, <2>3, <3>1
      <4> QED
        BY <1>b, <2>3, <4>1
    <3> QED
      BY <2>1, <3>1 DEF Bodies, Paging
  <2> QED
    BY <2>9, <2>10
<1> QED
  BY <1>3, <1>6, <1>7

(* The page, up to its end.                                                *)
LEMMA SoundPage ==
  ASSUME Inv, Turns, Bodies, SendSome \/ Yield \/ SendFails \/ SentAll
  PROVE  Turns' /\ Bodies'
<1>0. /\ TypeOK /\ Len(replies) \in Nat /\ replies \in Seq(Reply)
      /\ SockBuf \in Nat /\ Size \in Nat /\ page \in Page
      /\ page.off \in Nat /\ page.sz \in Int
  <2>1. page \in Page
    BY DEF Inv, TypeOK
  <2> QED
    BY <2>1, LenProperties, SessionAssumption DEF Inv, TypeOK, Page
<1>1. /\ handler = "send" /\ requests = <<>> /\ Matches
      /\ UNCHANGED <<asks, in, edge, event, requests>>
  BY DEF SendSome, Yield, SendFails, SentAll, Turns, Paging
<1>2. Quiet \/ (Len(in) = 1 /\ Asked /\ edge /\ page.off = Size)
  BY <1>1 DEF Turns
<1>3. Len(replies) \in 1..Len(replies)
  BY <1>0, <1>1, First DEF Matches
<1>4. Latest.length \in Int /\ Latest.body \in Nat
  BY <1>0, <1>3, Replies DEF Latest
<1>5. CASE SendSome
  <2>1. PICK n \in Nat \ {0} :
          /\ n <= Size - page.off
          /\ page'.off = page.off + n /\ page'.sz = page.sz
          /\ Len(replies') = Len(replies)
          /\ \A i \in 1..Len(replies) :
               /\ replies'[i].length = replies[i].length
               /\ replies'[i].body = IF i = Len(replies)
                                     THEN replies[i].body + n
                                     ELSE replies[i].body
    BY <1>0, <1>5, SendSomeFacts
  <2>2. handler' = "send"
    BY <1>5 DEF SendSome
  <2>3. Latest'.length = Latest.length /\ Latest'.body = Latest.body + n
    BY <1>3, <2>1 DEF Latest
  <2>4. Matches'
    <3>1. replies' # <<>>
      BY <1>0, <1>3, <2>1
    <3> QED
      <4>1. Latest.length - Latest.body = Size - page.off
        BY <1>1 DEF Matches
      <4>2. Latest'.length - Latest'.body = Size - page'.off
        <5>1. /\ n \in Nat /\ page'.off = page.off + n
              /\ Latest'.length = Latest.length
              /\ Latest'.body = Latest.body + n
          BY <2>1, <2>3
        <5>2. /\ Latest.length \in Int /\ Latest.body \in Int
              /\ page.off \in Int /\ Size \in Int
          BY <1>0, <1>4
        <5> QED
          BY <4>1, <5>1, <5>2
      <4>3. page'.off <= Size /\ page'.sz = Latest'.length /\ page'.sz >= 0
        BY <1>0, <1>1, <2>1, <2>3 DEF Matches
      <4> QED
        BY <3>1, <4>2, <4>3 DEF Matches
  <2>5. Quiet'
    BY <1>0, <1>1, <1>2, <2>1 DEF Quiet
  <2>6. Turns'
    BY <1>1, <2>2, <2>4, <2>5 DEF Turns, Paging
  <2>7. Bodies'
    BY <1>1, <2>1, <2>2 DEF Bodies, Paging
  <2> QED
    BY <2>6, <2>7
<1>6. CASE Yield
  <2>1. /\ handler' = "page" /\ page.off < Size /\ unread = SockBuf
        /\ UNCHANGED <<unread, replies, page>> /\ Latest' = Latest
    BY <1>6 DEF Yield, output, Latest
  <2>2. Quiet' /\ Matches'
    BY <1>0, <1>1, <1>2, <2>1 DEF Quiet, Matches
  <2>3. Turns'
    BY <1>0, <1>1, <2>1, <2>2 DEF Turns, Paging
  <2>4. Bodies'
    BY <1>1, <2>1 DEF Bodies, Paging
  <2> QED
    BY <2>3, <2>4
<1>7. ~SendFails
  BY <1>0, <1>1 DEF SendFails, Matches
<1>8. CASE SentAll
  <2>1. /\ handler' \in {"next", "over"} /\ page.off = Size
        /\ UNCHANGED <<unread, replies>>
    BY <1>8 DEF SentAll, NextRound, output
  <2>2. Latest.body = Latest.length
    BY <1>0, <1>1, <1>4, <2>1 DEF Matches
  <2>3. Bodies'
    <3>1. ASSUME NEW i \in 1..Len(replies)
          PROVE  replies[i].body = replies[i].length
      <4>1. i < Len(replies) \/ i = Len(replies)
        BY <1>0
      <4> QED
        BY <2>2, <4>1 DEF Bodies, Latest
    <3> QED
      BY <2>1, <3>1 DEF Bodies
  <2>4. Quiet' = Quiet /\ Asked' = Asked
    BY <1>1, <2>1 DEF Quiet, Asked
  <2>5. Turns'
    BY <1>1, <1>2, <2>1, <2>4 DEF Turns, Paging
  <2> QED
    BY <2>3, <2>5
<1> QED
  BY <1>5, <1>6, <1>7, <1>8

LEMMA NextSound == Inv /\ SoundInv /\ [Next]_vars => SoundInv'
<1> SUFFICES ASSUME Inv, SoundInv, [Next]_vars, Sound'
             PROVE  Turns' /\ Bodies'
  BY DEF SoundInv
<1>1. Sound
  BY SoundBefore DEF Inv
<1>2. Turns /\ Bodies
  BY <1>1 DEF SoundInv
<1>3. ~SendRest
  BY DEF SendRest, Sound
<1>4. CASE UNCHANGED vars
  BY <1>2, <1>4 DEF vars, Turns, Bodies, Quiet, Asked, Matches, Paging,
     Latest, Stuck
<1> QED
  BY <1>1, <1>2, <1>3, <1>4, SoundSend, SoundEvents, SoundRead, SoundAnswer,
     SoundPage
  DEF Next, Server

LEMMA InitSound == Init => SoundInv
<1> SUFFICES ASSUME Init PROVE Turns /\ Bodies
  BY DEF SoundInv
<1>1. Len(in) = 0 /\ Len(requests) = 0 /\ Len(replies) = 0 /\ Len(asks) = 0
  BY DEF Init
<1>2. Turns
  BY <1>1 DEF Init, Turns, Quiet, Paging
<1>3. Bodies
  BY <1>1 DEF Bodies
<1> QED
  BY <1>2, <1>3

LEMMA AlwaysSound == Spec => []SoundInv
<1>1. Init => SoundInv
  BY InitSound
<1>2. Inv /\ SoundInv /\ [Next]_vars => SoundInv'
  BY NextSound
<1> QED
  BY <1>1, <1>2, SessionInvariant, PTL DEF Spec

(* To a client that waits for its answers and asks for no other range than *)
(* one up to the end, a page is sent exactly as long as its header says    *)
(* (server.hpp:524, 547, 554-575).                                         *)
THEOREM PageIsExact == Spec => []BodyAsAnnounced
<1>1. Inv /\ SoundInv => BodyAsAnnounced
  <2> SUFFICES ASSUME Inv, Turns, Bodies, NEW i \in 1..Len(replies)
               PROVE  /\ replies[i].body <= replies[i].length
                      /\ i < Len(replies) \/ handler \in {"next", "over"}
                           => replies[i].body = replies[i].length
    BY DEF SoundInv, BodyAsAnnounced
  <2>0. /\ Len(replies) \in Nat /\ replies[i].length \in Int
        /\ replies[i].body \in Nat /\ Size \in Nat /\ page \in Page
    BY Replies, SessionAssumption DEF Inv, TypeOK
  <2>1. CASE i < Len(replies) \/ ~Paging
    BY <2>0, <2>1 DEF Bodies
  <2>2. CASE i = Len(replies) /\ Paging
    <3>1. Matches /\ page.off \in Nat
      BY <2>0, <2>2 DEF Turns, Page
    <3> QED
      BY <2>0, <2>2, <3>1 DEF Matches, Latest, Paging
  <2> QED
    BY <2>0, <2>1, <2>2
<1> QED
  BY <1>1, SessionInvariant, AlwaysSound, PTL

(* To such a client no wake-up is lost: a request that is out will be      *)
(* reported, and so will room in the send buffer that a page waits for     *)
(* (server.hpp:198-239, 565, 601).                                         *)
THEOREM SessionWakesUp == Spec => []WakeUpKept
<1>1. Inv /\ SoundInv => WakeUpKept
  BY DEF SoundInv, WakeUpKept, Turns, Quiet
<1> QED
  BY <1>1, SessionInvariant, AlwaysSound, PTL

-----------------------------------------------------------------------------
(* The answers of a client that waits.                                     *)

(* Until a request with a header that does not parse is answered, at most  *)
(* one request is out: the one after the last answer, read or not.  Its    *)
(* own answer may be lost, after which nothing is out and none is sent.    *)
AllParsed == \A j \in 1..Len(asks) : j <= Len(replies) => asks[j].what # "bad"

Out(s) == \A i \in 1..Len(s) : s[i].part = "whole" /\ s[i].of = Len(asks)

OneOut ==
  /\ Out(in) /\ Out(requests) /\ Len(in) + Len(requests) <= 1
  /\ Len(asks) \in {Len(replies), Len(replies) + 1}
  /\ Len(asks) = Len(replies) => Len(in) = 0 /\ Len(requests) = 0

InTurn == client = "waits" /\ AllParsed => OneOut

(* A reply stays what it is, but for its body.                             *)
SameReplies ==
  /\ Len(replies') = Len(replies)
  /\ \A i \in 1..Len(replies) : /\ replies'[i].of = replies[i].of
                                /\ replies'[i].status = replies[i].status
                                /\ replies'[i].length = replies[i].length

LEMMA LengthsNat ==
  ASSUME TypeOK
  PROVE  /\ Len(asks) \in Nat /\ Len(in) \in Nat
         /\ Len(requests) \in Nat /\ Len(replies) \in Nat
  BY LenProperties DEF TypeOK

(* A client that waits sends nothing before it has its answers.            *)
LEMMA SendInTurn ==
  ASSUME Inv, InTurn, RightAnswers, Send \/ SendRest
  PROVE  InTurn' /\ RightAnswers'
<1> SUFFICES ASSUME client' = "waits"
             PROVE  /\ AllParsed' => OneOut'
                    /\ \A i \in 1..Len(replies') :
                         (\A j \in 1..(i - 1) : asks'[j].what # "bad") => RightAnswer(i)'
  BY DEF InTurn, RightAnswers
<1>0. TypeOK /\ AskedFor
  BY DEF Inv
<1>1. UNCHANGED <<requests, replies>>
  BY DEF Send, SendRest, output
<1>2. PICK s \in Segment :
        /\ Len(in') = Len(in) + 1
        /\ \A i \in 1..Len(in) : in'[i] = in[i]
        /\ in'[Len(in) + 1] = s
        /\ s.of = Len(asks')
        /\ \A i \in 1..Len(asks) : asks'[i] = asks[i]
        /\ Len(asks') = Len(asks) + 1
        /\ MayAsk /\ s.part = "whole" /\ client = "waits"
  BY <1>0, SentFacts
<1>3. Len(replies) = Len(asks)
  BY <1>2 DEF MayAsk, Answered
<1>4. ASSUME AllParsed' PROVE OneOut'
  <2>1. AllParsed
    <3> SUFFICES ASSUME NEW j \in 1..Len(asks), j <= Len(replies) PROVE asks[j].what # "bad"
      BY DEF AllParsed
    <3>1. j \in 1..Len(asks') /\ j <= Len(replies')
      BY <1>0, <1>1, <1>2, LengthsNat
    <3>2. asks'[j].what # "bad"
      BY <1>4, <3>1 DEF AllParsed
    <3> QED BY <1>2, <3>2
  <2>2. Len(in) = 0 /\ Len(requests) = 0
    BY <1>2, <1>3, <2>1 DEF InTurn, OneOut
  <2>3. \A i \in 1..Len(in') : i = Len(in) + 1
    BY <1>2, <2>2
  <2> QED BY <1>0, <1>1, <1>2, <1>3, <2>2, <2>3, LengthsNat DEF OneOut, Out
<1>5. ASSUME NEW i \in 1..Len(replies), \A j \in 1..(i - 1) : asks'[j].what # "bad"
      PROVE  RightAnswer(i)'
  <2>1. i \in 1..Len(asks) /\ \A j \in 1..(i - 1) : j \in 1..Len(asks)
    BY <1>0, <1>3, LengthsNat
  <2>2. \A j \in 1..(i - 1) : asks[j].what # "bad"
    BY <1>2, <1>5, <2>1
  <2>3. RightAnswer(i) /\ asks'[i] = asks[i]
    BY <1>2, <2>1, <2>2 DEF RightAnswers
  <2> QED BY <1>1, <2>3 DEF RightAnswer
<1> QED BY <1>1, <1>4, <1>5

(* Steps that answer nothing.                                              *)
LEMMA QuietInTurn ==
  ASSUME TypeOK, RightAnswers, InTurn, UNCHANGED <<asks, client>>, SameReplies,
         OneOut => OneOut'
  PROVE  InTurn' /\ RightAnswers'
<1>1. AllParsed' = AllParsed
  BY DEF AllParsed, SameReplies
<1>2. \A i \in 1..Len(replies) : RightAnswer(i) => RightAnswer(i)'
  BY DEF RightAnswer, SameReplies
<1>3. RightAnswers'
  BY <1>2 DEF RightAnswers, SameReplies
<1> QED BY <1>1, <1>3 DEF InTurn

(* A whole request gets the answer that is right for it, if there is room. *)
ItsAnswer(status, length) ==
  /\ Answers(status, length)
  /\ requests[1].part = "whole" =>
       LET ask == asks[requests[1].of]
       IN  /\ status = Status(ask) /\ length = Length(ask)
           /\ ask.what # "bad" => requests' = <<>>

LEMMA AnswersAre ==
  ASSUME TypeOK, AskedFor, Stages, NoPage \/ StartPage \/ Garbled
  PROVE  \/ \E status, length : ItsAnswer(status, length)
         \/ UNCHANGED <<asks, client, in, output, requests>>
<1>0. requests # <<>>
  BY DEF NoPage, StartPage, Garbled, Stages
<1>1. CASE NoPage
  <2>1. PICK u \in Meanings :
          /\ Answers(Status(u), 0)
          /\ requests' = IF u.what = "bad" THEN requests ELSE <<>>
          /\ u.what \notin {"page", "range"}
    BY <1>1, NoPageFacts
  <2>2. Length(u) = 0
    BY <2>1 DEF Length
  <2>3. requests[1].part = "whole" => u = asks[requests[1].of]
    BY <1>0, MeaningFacts
  <2>4. ItsAnswer(Status(u), 0)
    BY <2>1, <2>2, <2>3 DEF ItsAnswer
  <2> QED BY <2>4
<1>2. CASE StartPage
  <2>1. PICK u \in Meanings : Answers(Status(u), Length(u)) /\ requests' = <<>>
    BY <1>2, StartPageFacts
  <2>2. requests[1].part = "whole" => u = asks[requests[1].of]
    BY <1>0, MeaningFacts
  <2>3. ItsAnswer(Status(u), Length(u))
    BY <2>1, <2>2 DEF ItsAnswer
  <2> QED BY <2>3
<1>3. CASE Garbled
  BY <1>3 DEF Garbled
<1> QED BY <1>1, <1>2, <1>3

(* The answer is to the one request that is out, and nothing is out then.  *)
LEMMA AnswerInTurn ==
  ASSUME Inv, InTurn, RightAnswers, NoPage \/ StartPage \/ Garbled
  PROVE  InTurn' /\ RightAnswers'
<1>0. /\ TypeOK /\ AskedFor /\ Stages
      /\ requests \in Seq(Segment) /\ Len(<<>>) = 0
  BY DEF Inv, TypeOK
<1>1. CASE UNCHANGED <<asks, client, in, output, requests>>
  <2>1. SameReplies /\ (OneOut => OneOut')
    BY <1>1 DEF SameReplies, OneOut, Out, output
  <2> QED BY <1>0, <1>1, <2>1, QuietInTurn
<1>2. ASSUME NEW status, NEW length, ItsAnswer(status, length)
      PROVE  InTurn' /\ RightAnswers'
  <2> DEFINE n == Len(replies)
             ask == asks[requests[1].of]
             reply == [of |-> requests[1].of, part |-> requests[1].part,
                       status |-> status, length |-> length, body |-> 0]
  <2>1. /\ UNCHANGED <<asks, client, in>> /\ requests' \in {<<>>, requests}
        /\ requests # <<>>
        /\ \/ UNCHANGED output
           \/ /\ Len(replies') = n + 1 /\ replies'[n + 1] = reply
              /\ \A i \in 1..n : replies'[i] = replies[i]
    BY <1>0, <1>2, AnswersFacts DEF ItsAnswer, Answers
  <2>2. n \in Nat /\ Len(asks) \in Nat /\ Len(in) \in Nat /\ Len(requests) \in Nat
    BY <1>0, LengthsNat
  <2>3. Len(requests) >= 1 /\ 1 \in 1..Len(requests)
    BY <1>0, <2>1, First
  (* The request that is out.                                              *)
  <2>4. ASSUME client = "waits", AllParsed
        PROVE  /\ OneOut /\ requests[1].of = Len(asks) /\ requests[1].part = "whole"
               /\ Len(asks) = n + 1 /\ Len(in) = 0 /\ Len(requests) = 1
               /\ ask = asks[n + 1]
    <3>1. OneOut
      BY <2>4 DEF InTurn
    <3>2. requests[1].of = Len(asks) /\ requests[1].part = "whole"
      BY <2>3, <3>1 DEF OneOut, Out
    <3>3. Len(asks) = n + 1 /\ Len(in) = 0 /\ Len(requests) = 1
      <4>1. /\ Len(in) + Len(requests) <= 1 /\ Len(asks) \in {n, n + 1}
            /\ Len(asks) = n => Len(requests) = 0
        BY <3>1 DEF OneOut
      <4> HIDE DEF n
      <4>2. Len(in) = 0 /\ Len(requests) = 1
        BY <2>2, <2>3, <4>1
      <4> QED BY <4>1, <4>2
    <3> QED BY <3>1, <3>2, <3>3
  <2>5. CASE UNCHANGED output
    <3>1. SameReplies
      BY <2>5 DEF SameReplies, output
    <3>2. CASE client = "waits" /\ AllParsed
      <4>1. OneOut'
        BY <1>0, <2>1, <2>4, <2>5, <3>2 DEF OneOut, Out, output
      <4> QED BY <1>0, <2>1, <3>1, <4>1, QuietInTurn
    <3>3. CASE ~(client = "waits" /\ AllParsed)
      <4>1. AllParsed' = AllParsed
        BY <2>1, <3>1 DEF AllParsed, SameReplies
      <4>2. \A i \in 1..n : RightAnswer(i) => RightAnswer(i)'
        BY <2>1, <3>1 DEF RightAnswer, SameReplies
      <4> QED BY <2>1, <3>1, <3>3, <4>1, <4>2 DEF InTurn, RightAnswers, SameReplies
    <3> QED BY <3>2, <3>3
  <2>6. CASE /\ Len(replies') = n + 1 /\ replies'[n + 1] = reply
             /\ \A i \in 1..n : replies'[i] = replies[i]
    <3>1. InTurn'
      <4> SUFFICES ASSUME client = "waits", AllParsed' PROVE OneOut'
        BY <2>1 DEF InTurn
      <4>1. \A j \in 1..Len(asks) : j <= n + 1 => asks[j].what # "bad"
        BY <2>1, <2>6 DEF AllParsed
      <4>2. AllParsed
        BY <2>2, <4>1 DEF AllParsed
      <4>3. ask.what # "bad"
        BY <2>2, <2>4, <4>1, <4>2
      <4>4. requests' = <<>>
        BY <1>2, <2>4, <4>2, <4>3 DEF ItsAnswer
      <4> QED BY <1>0, <2>1, <2>2, <2>4, <2>6, <4>2, <4>4 DEF OneOut, Out
    <3>2. RightAnswers'
      <4> SUFFICES ASSUME client = "waits", NEW i \in 1..(n + 1),
                          \A j \in 1..(i - 1) : asks[j].what # "bad"
                   PROVE  RightAnswer(i)'
        BY <2>1, <2>6 DEF RightAnswers
      <4>1. CASE i \in 1..n
        BY <2>1, <2>6, <4>1 DEF RightAnswers, RightAnswer
      <4>2. CASE i = n + 1
        <5>1. AllParsed
          BY <2>2, <4>2 DEF AllParsed
        <5>2. /\ reply.of = n + 1 /\ reply.status = Status(asks[n + 1])
              /\ reply.length = Length(asks[n + 1])
          BY <1>2, <2>4, <5>1 DEF ItsAnswer
        <5> HIDE DEF reply
        <5> QED BY <2>1, <2>6, <4>2, <5>2 DEF RightAnswer
      <4> QED BY <2>2, <4>1, <4>2
    <3> QED BY <3>1, <3>2
  <2> QED BY <2>1, <2>5, <2>6
<1> QED BY <1>0, <1>1, <1>2, AnswersAre

LEMMA NextInTurn == Inv /\ InTurn /\ RightAnswers /\ [Next]_vars => InTurn' /\ RightAnswers'
<1> SUFFICES ASSUME Inv, InTurn, RightAnswers, [Next]_vars
             PROVE  InTurn' /\ RightAnswers'
  OBVIOUS
<1>0. TypeOK
  BY DEF Inv
<1>1. CASE UNCHANGED vars \/ Receive \/ EpollWait \/ Decide \/ Resume \/ Ignore
           \/ ReadAll \/ Yield \/ SendFails \/ SentAll
  <2>1. UNCHANGED <<asks, client, in, requests, replies>>
    BY <1>1 DEF vars, output, Receive, EpollWait, Decide, Resume, Ignore, ReadAll,
       Yield, SendFails, SentAll
  <2>2. SameReplies /\ (OneOut => OneOut')
    BY <2>1 DEF SameReplies, OneOut, Out
  <2> QED BY <1>0, <2>1, <2>2, QuietInTurn
<1>2. CASE ReadSome
  <2>1. /\ in # <<>> /\ Len(in') = Len(in) - 1
        /\ \A i \in 1..Len(in') : in'[i] = in[i + 1]
        /\ Len(requests') = Len(requests) + 1
        /\ \A i \in 1..Len(requests) : requests'[i] = requests[i]
        /\ requests'[Len(requests) + 1] = in[1]
    BY <1>0, <1>2, ReadSomeFacts
  <2>2. UNCHANGED <<asks, client, replies>>
    BY <1>2 DEF ReadSome, output
  <2>3. Len(in) >= 1
    BY <1>0, <2>1, First DEF TypeOK
  <2>4. OneOut => OneOut'
    <3> SUFFICES ASSUME OneOut PROVE OneOut'
      OBVIOUS
    <3>1. /\ Len(in) = 1 /\ Len(requests) = 0 /\ Len(in') = 0 /\ Len(requests') = 1
          /\ Len(asks) # Len(replies)
      BY <1>0, <2>1, <2>3, LengthsNat DEF OneOut
    <3>2. requests'[1] = in[1] /\ in[1].part = "whole" /\ in[1].of = Len(asks)
      BY <2>1, <3>1 DEF OneOut, Out
    <3> QED BY <2>2, <3>1, <3>2 DEF OneOut, Out
  <2>5. SameReplies
    BY <2>2 DEF SameReplies
  <2> QED BY <1>0, <2>2, <2>4, <2>5, QuietInTurn
<1>3. CASE SendSome
  <2>1. SameReplies
    BY <1>0, <1>3, SendSomeFacts DEF SameReplies
  <2>2. UNCHANGED <<asks, client, in, requests>>
    BY <1>3 DEF SendSome
  <2>3. OneOut => OneOut'
    BY <2>1, <2>2 DEF OneOut, Out, SameReplies
  <2> QED BY <1>0, <2>1, <2>2, <2>3, QuietInTurn
<1>4. CASE Send \/ SendRest
  BY <1>4, SendInTurn
<1>5. CASE NoPage \/ StartPage \/ Garbled
  BY <1>5, AnswerInTurn
<1> QED BY <1>1, <1>2, <1>3, <1>4, <1>5 DEF Next, Server

(* A client that waits for its answers gets one to each request, in order, *)
(* and the right one, up to the first request whose header does not parse  *)
(* (server.hpp:474-489, 576-603).                                          *)
THEOREM AnswersAreRight == Spec => []RightAnswers
<1>1. Init => InTurn /\ RightAnswers
  BY DEF Init, InTurn, OneOut, Out, RightAnswers
<1>2. Inv /\ InTurn /\ RightAnswers /\ [Next]_vars => InTurn' /\ RightAnswers'
  BY NextInTurn
<1> QED BY <1>1, <1>2, SessionInvariant, PTL DEF Spec

=============================================================================
