------------------------------ MODULE Download ------------------------------
(***************************************************************************)
(* One download, byte by byte: handle_sft_get_file of server.hpp against   *)
(* get_file_from of client.hpp, over an edge-triggered socket.             *)
(*                                                                         *)
(* A byte is its position in the file, and 0 is a byte of a zeroed buffer. *)
(* The file was found and opened; the header with its size is one message, *)
(* and so is the client's flag.  Every sendfile(2), recv(2) and read(2) is *)
(* a step of its own.  The file may become shorter, the client may die,    *)
(* and the server may close the connection (its process ends, or the idle  *)
(* timer expires) at any point.                                            *)
(***************************************************************************)
EXTENDS Bytes

CONSTANTS
  Sizes,      \* the sizes the file may have when it is opened
  MAXARRSZ,   \* the client's largest buffer; smaller files are buffered whole
  NUMSTOP,    \* how much of it may stay empty when it is written
  SockBuf,    \* what the socket buffers hold
  Shrinks,    \* may the file become shorter meanwhile?
  Cuts,       \* may the server close the connection of its own accord?
  Leaves      \* may the client die?

ASSUME DownloadAssumption ==
  /\ Sizes \subseteq Nat
  /\ MAXARRSZ \in Nat /\ NUMSTOP \in Nat /\ NUMSTOP < MAXARRSZ
  /\ SockBuf \in Nat \ {0}
  /\ Shrinks \in BOOLEAN /\ Cuts \in BOOLEAN /\ Leaves \in BOOLEAN

VARIABLES
  size,        \* as the header names it
  length,      \* of the file now
  handler,     \* where handle_sft_get_file is
  running,     \* is it running, or suspended?
  is_read_awaiting,
  is_write_awaiting,
  sent,        \* off: what sendfile has taken of the file
  flag,        \* the client's flag: "no", "sent", "taken"
  edge,        \* is the socket on epoll's ready list?
  event,       \* what epoll_wait reported, not yet handled
  open,        \* has the server not closed the connection?
  client,      \* where get_file_from, and main after it, are
  got,         \* bytes the client has read
  ret,         \* bytes in bufferForFile
  saved        \* the client's file

flags    == <<is_read_awaiting, is_write_awaiting>>
server   == <<handler, running, flags, sent>>
receiver == <<client, got, ret, saved>>
vars == <<size, length, server, flag, edge, event, open, receiver>>

Small == size < MAXARRSZ

(* Closed by the client: main has returned, exit(1), an exception that     *)
(* nobody catches, or the process was killed.                              *)
Gone == client \in {"left", "exited", "thrown", "died"}

Room == SockBuf - (sent - got)

Init ==
  /\ size \in Sizes /\ length = size
  /\ handler = "new" /\ running = FALSE
  /\ is_read_awaiting = FALSE /\ is_write_awaiting = FALSE
  /\ sent = 0 /\ flag = "no"
  /\ edge = FALSE /\ event = "none"
  /\ open = TRUE
  /\ client = "asked" /\ got = 0 /\ ret = 0 /\ saved = <<>>

-----------------------------------------------------------------------------
(* The coroutine.                                                          *)

(* The size is written and the first recv is next.                         *)
Start ==
  /\ handler = "new" /\ open
  /\ handler' = "flag"
  /\ running' = TRUE
  /\ UNCHANGED <<size, length, flags, sent, flag, edge, event, open, receiver>>

(* Mutant of Flag: is_read_awaiting is not set.                            *)
FlagUnmarked ==
  /\ running /\ handler = "flag"
  /\ IF flag = "sent"
     THEN flag' = "taken" /\ handler' = "send" /\ UNCHANGED running
     ELSE running' = FALSE /\ UNCHANGED <<flag, handler>>
  /\ UNCHANGED <<size, length, flags, sent, edge, event, open, receiver>>

(* recv of the flag: there, not there yet, or the client has gone, which   *)
(* throws peer_exception.                                                  *)
Flag ==
  /\ running /\ handler = "flag"
  /\ \/ /\ flag = "sent"
        /\ flag' = "taken" /\ handler' = "send"
        /\ UNCHANGED <<running, flags, open>>
     \/ /\ flag = "no" /\ ~Gone
        /\ running' = FALSE /\ is_read_awaiting' = TRUE
        /\ UNCHANGED <<flag, handler, is_write_awaiting, open>>
     \/ /\ flag = "no" /\ Gone
        /\ running' = FALSE /\ handler' = "failed" /\ open' = FALSE
        /\ is_read_awaiting' = FALSE /\ is_write_awaiting' = FALSE
        /\ UNCHANGED flag
  /\ UNCHANGED <<size, length, sent, edge, event, receiver>>

(* Mutant of SendSome: co_yield after every sendfile.                      *)
SendOnce ==
  /\ running /\ handler = "send"
  /\ \E n \in 1..(length - sent) :
       /\ n <= Room
       /\ sent' = sent + n
  /\ running' = FALSE /\ is_write_awaiting' = TRUE
  /\ UNCHANGED <<size, length, handler, is_read_awaiting, flag, edge, event,
                 open, receiver>>

(* sendfile takes some of what is left.                                    *)
SendSome ==
  /\ running /\ handler = "send"
  /\ \E n \in 1..(length - sent) :
       /\ n <= Room
       /\ sent' = sent + n
  /\ UNCHANGED <<size, length, handler, running, flags, flag, edge, event,
                 open, receiver>>

(* Mutant of SentAll: is_write_awaiting is not reset.                      *)
SentAllMarked ==
  /\ running /\ handler = "send" /\ sent = size
  /\ handler' = "done" /\ running' = FALSE
  /\ is_read_awaiting' = FALSE
  /\ UNCHANGED <<size, length, is_write_awaiting, sent, flag, edge, event,
                 open, receiver>>

(* Mutant of Yield: is_write_awaiting is not set.                          *)
YieldUnmarked ==
  /\ running' = FALSE
  /\ UNCHANGED <<handler, flags>>

(* co_yield: is_read_awaiting ends here, is_write_awaiting begins.         *)
Yield ==
  /\ running' = FALSE
  /\ is_read_awaiting' = FALSE /\ is_write_awaiting' = TRUE
  /\ UNCHANGED handler

(* Returned from within the loop: the flags stay.                          *)
Fail ==
  /\ running' = FALSE
  /\ handler' = "failed"
  /\ UNCHANGED flags

(* sendfile fails with EAGAIN, with another error once the client is gone, *)
(* or returns 0 at the end of a file that became shorter, where errno is   *)
(* what an earlier call left in it.                                        *)
SendNothing ==
  /\ running /\ handler = "send" /\ sent < size
  /\ \/ sent < length /\ Room = 0 /\ Yield
     \/ Gone /\ Fail
     \/ length <= sent /\ (Yield \/ Fail)
  /\ UNCHANGED <<size, length, sent, flag, edge, event, open, receiver>>

SentAll ==
  /\ running /\ handler = "send" /\ sent = size
  /\ handler' = "done" /\ running' = FALSE
  /\ is_read_awaiting' = FALSE /\ is_write_awaiting' = FALSE
  /\ UNCHANGED <<size, length, sent, flag, edge, event, open, receiver>>

-----------------------------------------------------------------------------
(* The loop.                                                               *)

EpollWait ==
  /\ edge /\ open /\ ~running /\ event = "none" /\ handler # "new"
  /\ edge' = FALSE
  /\ event' = IF Gone THEN "hup" ELSE IF flag = "sent" THEN "in"
              ELSE IF Room > 0 THEN "out" ELSE "none"
  /\ UNCHANGED <<size, length, server, flag, open, receiver>>

(* The socket is closed and the coroutine is no more.                      *)
Drop(how) ==
  /\ open' = FALSE
  /\ handler' = how
  /\ running' = FALSE
  /\ is_read_awaiting' = FALSE /\ is_write_awaiting' = FALSE
  /\ event' = "none"
  /\ UNCHANGED <<size, length, sent, flag, edge, receiver>>

Suspended == handler \in {"flag", "send"}

(* close_connection; the coroutine ends where it is.                       *)
Close == Drop(IF Suspended THEN "failed" ELSE handler)

Hangup == event = "hup" /\ Close

Awaited ==
  \/ event = "in"  /\ is_read_awaiting
  \/ event = "out" /\ is_write_awaiting

Resume ==
  /\ Awaited /\ Suspended
  /\ event' = "none"
  /\ running' = TRUE
  /\ UNCHANGED <<size, length, handler, flags, sent, flag, edge, open,
                 receiver>>

(* A coroutine that has returned is resumed, because a flag outlived it:   *)
(* the process ends.                                                       *)
Crash == Awaited /\ ~Suspended /\ Drop("crashed")

Ignore ==
  /\ event = "out" /\ ~is_write_awaiting
  /\ event' = "none"
  /\ UNCHANGED <<size, length, server, flag, edge, open, receiver>>

Server ==
  \/ Start \/ Flag \/ SendSome \/ SendNothing \/ SentAll
  \/ EpollWait \/ Hangup \/ Resume \/ Crash \/ Ignore

-----------------------------------------------------------------------------
(* The client, whose socket blocks.                                        *)

(* The header is read and '1' written.  A buffer of no bytes makes the     *)
(* first read throw.  No header at all: "File might not be found".         *)
Header ==
  /\ client = "asked"
  /\ \/ /\ handler # "new"
        /\ client' = IF size = 0 THEN "thrown" ELSE "reading"
        /\ flag' = IF open THEN "sent" ELSE flag
     \/ /\ handler = "new" /\ ~open
        /\ client' = "exited"
        /\ UNCHANGED flag
  /\ edge' = open
  /\ UNCHANGED <<size, length, server, event, open, got, ret, saved>>

(* Mutant of Wanted: a small file is read like a large one.                *)
WantedAlways == MAXARRSZ - ret

(* What the read asks for.                                                 *)
Wanted == IF Small THEN size - ret ELSE MAXARRSZ - ret

(* Mutant of Read: the last buffer of a large file is not written.         *)
ReadNoLast ==
  /\ client = "reading"
  /\ \E n \in 1..Wanted :
       LET last == got + n >= size
       IN  /\ n <= sent - got
           /\ got' = got + n
           /\ client' = IF last THEN "done" ELSE "reading"
           /\ IF IF Small THEN last ELSE ret + n >= MAXARRSZ - NUMSTOP
              THEN saved' = saved \o Slice(got - ret, got + n) /\ ret' = 0
              ELSE ret' = ret + n /\ UNCHANGED saved
  /\ edge' = (edge \/ (open /\ Room = 0))
  /\ UNCHANGED <<size, length, server, flag, event, open>>

(* Some bytes.  A small file is written once it is all there; of a large   *)
(* one, the buffer when it is nearly full, or at the end.  Room in a       *)
(* buffer that was full is an edge.                                        *)
Read ==
  /\ client = "reading"
  /\ \E n \in 1..Wanted :
       LET flushed == saved \o Slice(got - ret, got + n)
           last    == got + n >= size
           enough  == ~Small /\ ret + n >= MAXARRSZ - NUMSTOP
       IN  /\ n <= sent - got
           /\ got' = got + n
           /\ client' = IF last THEN "done" ELSE "reading"
           /\ IF last \/ enough
              THEN saved' = flushed /\ ret' = 0
              ELSE ret' = ret + n /\ UNCHANGED saved
  /\ edge' = (edge \/ (open /\ Room = 0))
  /\ UNCHANGED <<size, length, server, flag, event, open>>

(* End of file.  A small file of which nothing came is written as zeroes;  *)
(* of which some came, the loop goes on for ever.  The large-file loop is  *)
(* left, and what is in the buffer is not written.                         *)
EndOfFile ==
  /\ client = "reading" /\ ~open /\ got = sent
  /\ client' = IF Small /\ ret > 0 THEN "spin" ELSE "done"
  /\ saved' = IF Small /\ ret = 0 THEN Zeroes(size) ELSE saved
  /\ UNCHANGED <<size, length, server, flag, edge, event, open, got, ret>>

(* ECONNRESET: IO_exception, which nobody catches.                         *)
ReadFails ==
  /\ client = "reading" /\ ~open
  /\ client' = "thrown"
  /\ UNCHANGED <<size, length, server, flag, edge, event, open, got, ret,
                 saved>>

(* main prints "Success on dealing" and returns.                           *)
Leave ==
  /\ client = "done"
  /\ client' = "left"
  /\ edge' = open
  /\ UNCHANGED <<size, length, server, flag, event, open, got, ret, saved>>

Client == Header \/ Read \/ EndOfFile \/ ReadFails \/ Leave

-----------------------------------------------------------------------------
(* What else may happen.                                                   *)

Shrink ==
  /\ Shrinks /\ length > 0
  /\ length' \in 0..(length - 1)
  /\ UNCHANGED <<size, server, flag, edge, event, open, receiver>>

Cut == Cuts /\ open /\ Close

Die ==
  /\ Leaves /\ client \in {"asked", "reading", "spin"}
  /\ client' = "died"
  /\ edge' = open
  /\ UNCHANGED <<size, length, server, flag, event, open, got, ret, saved>>

Next == Server \/ Client \/ Shrink \/ Cut \/ Die

Spec == Init /\ [][Next]_vars

(* The server loops for ever; the client's blocking calls return when they *)
(* can.  Files need not shrink, nor connections be cut.                    *)
FairSpec == Spec /\ WF_vars(Server) /\ WF_vars(Client)

-----------------------------------------------------------------------------
(* Properties.                                                             *)

TypeOK ==
  /\ size \in Sizes
  /\ length \in 0..size
  /\ handler \in {"new", "flag", "send", "done", "failed", "crashed"}
  /\ running \in BOOLEAN
  /\ is_read_awaiting \in BOOLEAN /\ is_write_awaiting \in BOOLEAN
  /\ sent \in Nat /\ got \in Nat /\ ret \in Nat
  /\ flag \in {"no", "sent", "taken"}
  /\ edge \in BOOLEAN /\ open \in BOOLEAN
  /\ event \in {"none", "in", "out", "hup"}
  /\ client \in {"asked", "reading", "done", "spin", "left", "exited",
                 "thrown", "died"}
  /\ saved \in Seq(Nat)

(* A client that says "Success on dealing" has the file as it was when it  *)
(* was opened, unless the server closed the connection before it had sent  *)
(* everything (client.hpp:75-106, server.hpp:405-427).                     *)
CutOrExact ==
  client \in {"done", "left"}
    => saved = Slice(0, size) \/ (~open /\ sent < size)

(* The client's file grows along the server's until get_file_from returns, *)
(* with all of it unless the server closed early, or the client ends in    *)
(* another way; it is not touched afterwards (client.hpp:70-106).          *)
T == INSTANCE Transfer WITH
  lost    <- FALSE,
  cut     <- ~open /\ sent < size,
  verdict <- CASE client \in {"done", "left"}             -> "success"
               [] client \in {"exited", "thrown", "died"} -> "failure"
               [] OTHER                                   -> "none"
Transfers == T!Spec

(* No read of the client's buffer is out of range, which would throw       *)
(* (io.hpp:48-52), and none asks for nothing, which would look like the    *)
(* end of the stream.                                                      *)
RoomLeft ==
  client = "reading"
    => /\ Wanted > 0
       /\ ret + Wanted <= IF Small THEN size ELSE MAXARRSZ

(* A suspended download is going to be resumed: the flag, or room in a     *)
(* send buffer that was full, is announced once, and nothing else consumes *)
(* the announcement (server.hpp:387-398, 406-411).                         *)
WakeUpKept ==
  open /\ ~running /\ handler \in {"flag", "send"}
    => /\ Gone => edge \/ event = "hup"
       /\ handler = "flag" /\ flag = "sent"
            => is_read_awaiting /\ (edge \/ event \in {"in", "hup"})
       /\ handler = "send" /\ sent < length /\ Room > 0
            => is_write_awaiting /\ (edge \/ event \in {"out", "hup"})

(* The loop takes the client's flag for a flag and never for a request:    *)
(* input during a download is for the coroutine (server.hpp:198-206).      *)
FlagIsNoRequest == event = "in" => is_read_awaiting /\ handler = "flag"

(* A download that has returned is not resumed, though an error returns    *)
(* with is_write_awaiting still set, unless the file became shorter: of    *)
(* another error comes a hang-up, which is handled first                   *)
(* (server.hpp:179, 413-426).                                              *)
CrashOnlyIfShort == handler = "crashed" => length < size

(* A download ends, unless the server closes the connection, the file      *)
(* becomes shorter or is empty, or the client dies.                        *)
DownloadCompletes ==
  client \in {"asked", "reading"}
    ~> (client \in {"left", "died"} \/ ~open \/ length < size \/ size = 0)

=============================================================================
