------------------------------ MODULE Handlers ------------------------------
(***************************************************************************)
(* The request handlers of receive_loop (server.hpp): what one run of a    *)
(* coroutine, from the epoll event that starts or resumes it to its next   *)
(* co_yield or co_return, may do.                                          *)
(*                                                                         *)
(* A run is a pure function of the connection's data_info (an Entry), of   *)
(* the socket it finds (a view: the bytes to read, whether the peer is     *)
(* still there, whether the send buffer is full) and of the descriptor     *)
(* number that open(2) gives it.  Each handler is the SET of the results   *)
(* its run can have; Reactor picks one and applies it.  Lengths, names     *)
(* and contents of files are abstracted to the exits they lead to.         *)
(***************************************************************************)
EXTENDS Naturals, Sequences

CONSTANTS
  Conns,        \* the TCP connections the clients ever make
  MaxFd,        \* descriptors 1..MaxFd are left to sockets and files
  FilesShrink,  \* may a file be truncated while it is being sent?
  None          \* "no request", "no connection"

ASSUME HandlersAssumption ==
  /\ MaxFd \in Nat \ {0}
  /\ FilesShrink \in BOOLEAN
  /\ None \notin Conns

Fd == 1..MaxFd

(***************************************************************************)
(* What a client puts on the wire, named by what the server makes of it:   *)
(* an upload, download or text message request; the go-ahead flag of a     *)
(* download; bytes that begin no request; an HTTP request that keeps the   *)
(* connection, closes it, asks for a range that starts after the end of    *)
(* the file, or has a header line that does not parse.                     *)
(***************************************************************************)
SftKinds  == {"file", "get", "mesg", "flag", "bytes"}
HttpKinds == {"keep", "close", "beyond", "bad"}
Kinds     == SftKinds \cup HttpKinds
Requests  == Kinds \ {"flag", "bytes"}

(* What stands for the lack of a request is none.                          *)
ASSUME NoneAssumption == None \notin Kinds

(* Where a coroutine is suspended: reading an upload, waiting for the flag *)
(* of a download, sending a download, sending a page, waiting for the next *)
(* HTTP request.  "none": a null handle, or one at its final suspend point.*)
Points == {"upload", "flag", "send", "page", "next"}

Task == [at: Points \cup {"none"}, file: 0..MaxFd,
         conn: Conns \cup {None}, request: Kinds \cup {None}]

NoTask == [at |-> "none", file |-> 0, conn |-> None, request |-> None]

Entry == [requests: Kinds \cup {None}, task: Task,
          is_read_awaiting: BOOLEAN, is_write_awaiting: BOOLEAN]

NewEntry == [requests |-> None, task |-> NoTask,
             is_read_awaiting |-> FALSE, is_write_awaiting |-> FALSE]

(* What I/O on the descriptor meets.  conn is None when the number is that *)
(* of a file, or closed; file tells whether the coroutine's own descriptor *)
(* still is a file.                                                        *)
View == [conn: Conns \cup {None}, in: Seq(Kinds), peer: {"up", "fin", "rst"},
         full: BOOLEAN, file: BOOLEAN]

(* write, sendfile and the like fail with an error other than EAGAIN.      *)
WriteFails(s) == s.peer = "rst" \/ s.conn = None
SendFails(s)  == WriteFails(s) \/ ~s.file

(* One run: the entry it leaves, the bytes it leaves unread, whether it    *)
(* filled the send buffer, sent file data, called close_connection, and    *)
(* what became of the process.                                             *)
Result == [entry: Entry, in: Seq(Kinds), full: BOOLEAN, sent: BOOLEAN,
           shut: BOOLEAN, server: {"run", "crash", "spin"}]

Leave(e, rest) == [entry |-> e, in |-> rest, full |-> FALSE, sent |-> FALSE,
                   shut |-> FALSE, server |-> "run"]
Shut(e, rest)  == [Leave(e, rest) EXCEPT !.shut = TRUE]
Die(e, how)    == [Leave(e, <<>>) EXCEPT !.server = how]

At(point, h, c, k) == [at |-> point, file |-> h, conn |-> c, request |-> k]
Done(e)            == [e EXCEPT !.task = NoTask]

(* The bytes left after some of q, at least one, has been read.            *)
Rests(q) == {SubSeq(q, i, Len(q)) : i \in 2..(Len(q) + 1)}

-----------------------------------------------------------------------------
(* Uploads.                                                                *)

(* Mutant of UploadLoop: the loop ends without is_read_awaiting = false.   *)
UploadLoopKeepsFlag(e, t, s) ==
  LET over == [Done(e) EXCEPT !.is_read_awaiting = e.is_read_awaiting]
      wait == [e EXCEPT !.task = t, !.is_read_awaiting = TRUE]
  IN  {Leave(over, rest) : rest \in Rests(s.in)}
      \cup {Leave(wait, <<>>) : x \in {"up"} \cap {s.peer}}
      \cup {Shut(over, <<>>) : x \in {"fin", "rst"} \cap {s.peer}}

(* The read loops of handle_sft_file.  The upload may complete with any    *)
(* non-empty part of what there is to read, and writing the file may fail; *)
(* otherwise all is read and the socket's state decides.                   *)
UploadLoop(e, t, s) ==
  LET over == [Done(e) EXCEPT !.is_read_awaiting = FALSE]
      wait == [e EXCEPT !.task = t, !.is_read_awaiting = TRUE]
  IN  {Leave(over, rest) : rest \in Rests(s.in)}
      \cup {Shut(over, rest) : rest \in Rests(s.in)}
      \cup {Leave(wait, <<>>) : x \in {"up"} \cap {s.peer}}
      \cup {Leave(over, <<>>) : x \in {"fin"} \cap {s.peer}}
      \cup {Shut(over, <<>>) : x \in {"fin", "rst"} \cap {s.peer}}

(* A bad size, or a file that does not open, throws outside the try block: *)
(* unhandled_exception swallows it.  A size of zero throws inside.         *)
handle_sft_file(e, h, s) ==
  LET start == [e EXCEPT !.requests = None]
  IN  {Leave(Done(start), s.in)}
      \cup (IF h = 0 THEN {}
            ELSE {Shut([Done(start) EXCEPT !.is_read_awaiting = FALSE], s.in)}
                 \cup UploadLoop(start, At("upload", h, s.conn, None), s))

handle_sft_mesg(e, s) == {Leave([e EXCEPT !.requests = None], s.in)}

-----------------------------------------------------------------------------
(* Downloads.                                                              *)

(* The sendfile loop of handle_sft_get_file.  An error returns without     *)
(* clearing the flags; so does a file cut short (sendfile returns 0) when  *)
(* errno is not, by accident, a left-over EAGAIN.                          *)
SendLoop(e, t, s, q) ==
  LET over == [Done(e) EXCEPT !.is_read_awaiting = FALSE,
                              !.is_write_awaiting = FALSE]
      wait == [e EXCEPT !.task = [t EXCEPT !.at = "send"],
                        !.is_read_awaiting = FALSE,
                        !.is_write_awaiting = TRUE]
  IN  IF SendFails(s)
      THEN {Leave(Done(e), q)}
      ELSE {[Leave(wait, q) EXCEPT !.full = TRUE, !.sent = ~s.full]}
           \cup (IF s.full THEN {}
                 ELSE {[Leave(over, q) EXCEPT !.sent = TRUE]})
           \cup (IF FilesShrink THEN {Leave(wait, q), Leave(Done(e), q)}
                 ELSE {})

(* The recv loop for the client's flag; anything but '1' throws            *)
(* peer_exception, which closes the connection.                            *)
FlagLoop(e, t, s) ==
  LET over == [Done(e) EXCEPT !.is_read_awaiting = FALSE,
                              !.is_write_awaiting = FALSE]
      wait == [e EXCEPT !.task = t, !.is_read_awaiting = TRUE]
  IN  IF s.in # <<>>
      THEN IF Head(s.in) = "flag" THEN SendLoop(e, t, s, Tail(s.in))
           ELSE {Shut(over, Tail(s.in))}
      ELSE IF s.peer = "up" THEN {Leave(wait, <<>>)} ELSE {Shut(over, <<>>)}

(* No such file, or no descriptor left: '0' is written and the handler     *)
(* returns.  Not a regular file: swallowed, nothing is written.  The       *)
(* client's flag may already be there when recv is first called.           *)
handle_sft_get_file(e, h, s) ==
  LET start == [e EXCEPT !.requests = None]
      t     == At("flag", h, s.conn, None)
  IN  {Leave([Done(start) EXCEPT !.is_read_awaiting = FALSE,
                                 !.is_write_awaiting = FALSE], s.in),
       Leave(Done(start), s.in)}
      \cup (IF h = 0 THEN {}
            ELSE FlagLoop(start, t, s) \cup SendLoop(start, t, s, s.in))

-----------------------------------------------------------------------------
(* HTTP.                                                                   *)

(* next_round: wait for another request on the same connection.            *)
NextRound(e, c, q) ==
  Leave([e EXCEPT !.task = At("next", 0, c, None),
                  !.is_read_awaiting = TRUE, !.is_write_awaiting = FALSE], q)

(* The do-while around sendfile64.  An error closes the descriptor and     *)
(* still suspends; only off = file_size ends the loop, so that it never    *)
(* ends once sendfile returns 0 before that.                               *)
PageLoop(e, t, s, q) ==
  LET wait == [e EXCEPT !.task = t, !.is_write_awaiting = TRUE]
  IN  IF SendFails(s) THEN {Shut(wait, q)}
      ELSE IF t.request = "beyond" THEN {Die(wait, "spin")}
      ELSE {[Leave(wait, q) EXCEPT !.full = TRUE, !.sent = ~s.full]}
           \cup (IF s.full THEN {}
                 ELSE IF t.request = "close"
                 THEN {[Shut(Done(e), q) EXCEPT !.sent = TRUE]}
                 ELSE {[NextRound(e, t.conn, q) EXCEPT !.sent = TRUE]})
           \cup (IF FilesShrink THEN {Die(wait, "spin")} ELSE {})

(* One turn of handle_http's loop on a request that has been read.  A      *)
(* header line that does not parse throws before requests is cleared: 403, *)
(* and the same bytes are parsed again in the next round.  On a connection *)
(* that was reset even writing the error page throws, which is swallowed.  *)
Page(e, h, s, q, k) ==
  LET seen == [e EXCEPT !.requests = IF k = "bad" THEN k ELSE None]
      sent == IF h = 0 \/ k = "bad" THEN {}
              ELSE PageLoop(seen, At("page", h, s.conn, k), s, q)
  IN  sent \cup (IF WriteFails(s) THEN {Leave(Done(seen), q)}
                 ELSE {NextRound(seen, s.conn, q)})

handle_http(e, h, s) == Page(e, h, s, s.in, e.requests)

(* The turn after next_round.  A left-over request is served again without *)
(* reading; otherwise all there is is read, one request of it is served    *)
(* and the rest is dropped by clear().  End of file closes and returns     *)
(* with is_read_awaiting still set.  Nothing to read at all would index an *)
(* empty vector of header lines.                                           *)
ServeNext(e, h, s) ==
  LET first == IF s.in = <<>> THEN None ELSE Head(s.in)
      read  == [e EXCEPT !.requests = first]
  IN  IF e.requests # None THEN Page(e, h, s, s.in, e.requests)
      ELSE IF s.peer = "fin" THEN {Shut(Done(read), <<>>)}
      ELSE IF s.peer = "rst" THEN {Leave(Done(read), <<>>)}
      ELSE IF first = None THEN {Die(e, "crash")}
      ELSE Page(e, h, s, <<>>, first)

-----------------------------------------------------------------------------
(* Starting and resuming.                                                  *)

(* decide_action: read until EAGAIN, end of file or an error, and look at  *)
(* the first byte.  None stands for its return value -1.  At end of file   *)
(* errno is whatever an earlier call left: either answer is possible.      *)
decide_action(e, s) ==
  LET first == IF e.requests # None THEN e.requests
               ELSE IF s.in # <<>> THEN Head(s.in) ELSE None
      named == {first} \cap Requests
  IN  IF s.peer = "rst" THEN {None}
      ELSE named \cup (IF named = {} \/ s.peer = "fin" THEN {None} ELSE {})

(* task = handle_...(fd), or a message, on an entry whose requests names   *)
(* the request; h is the descriptor open(2) would return, 0 if none.       *)
Start(e, h, s) ==
  CASE e.requests = "file" -> handle_sft_file(e, h, s)
    [] e.requests = "mesg" -> handle_sft_mesg(e, s)
    [] e.requests = "get"  -> handle_sft_get_file(e, h, s)
    [] OTHER               -> handle_http(e, h, s)

(* task.resume().  There is nothing to resume behind a null handle or at   *)
(* the final suspend point: the resume function is a null pointer.         *)
Resume(e, h, s) ==
  CASE e.task.at = "upload" -> UploadLoop(e, e.task, s)
    [] e.task.at = "flag"   -> FlagLoop(e, e.task, s)
    [] e.task.at = "send"   -> SendLoop(e, e.task, s, s.in)
    [] e.task.at = "page"   -> PageLoop(e, e.task, s, s.in)
    [] e.task.at = "next"   -> ServeNext(e, h, s)
    [] OTHER                -> {Die(e, "crash")}

=============================================================================
