------------------------------- MODULE Upload -------------------------------
(***************************************************************************)
(* One upload, byte by byte: send_file_to of client.hpp against            *)
(* handle_sft_file and the loop of server.hpp, over an edge-triggered      *)
(* socket.                                                                 *)
(*                                                                         *)
(* A byte is its position in what the client sends after the request: the  *)
(* file is 1..size, a request that follows it on the same connection is    *)
(* the byte size + 1, and 0 is a byte of a zeroed buffer.  Every read(2)   *)
(* is a step of its own; the client can send, or leave, in between.  The   *)
(* disk may fill up and be emptied again.                                  *)
(***************************************************************************)
EXTENDS Bytes

CONSTANTS
  Sizes,      \* the sizes of the files that are sent
  MAXARRSZ,   \* the largest buffer; smaller files are buffered whole
  NUMSTOP,    \* how much of it may stay empty when it is written
  SockBuf,    \* what the socket buffers hold
  Followed,   \* the sizes after which the client sends another request
  Leaves,     \* may the client close the connection, or die?
  DiskFills   \* may a write(2) find no room, or too little?

ASSUME UploadAssumption ==
  /\ Sizes \subseteq Nat
  /\ MAXARRSZ \in Nat /\ NUMSTOP \in Nat /\ NUMSTOP < MAXARRSZ
  /\ SockBuf \in Nat \ {0}
  /\ Leaves \in BOOLEAN /\ DiskFills \in BOOLEAN

VARIABLES
  size,        \* as the request names it
  client,      \* where send_file_to, and main after it, are
  sent,        \* bytes the client has sent
  taken,       \* bytes the server has read: bytesWritten, while it receives
  edge,        \* is the socket on epoll's ready list?
  event,       \* what epoll_wait reported, not yet handled
  reading,     \* is the coroutine running?
  is_read_awaiting,
  ret,         \* bytes in bufferForFile
  saved,       \* the output file
  lost,        \* has a write(2) stored less than it was given?
  logged,      \* how the upload ended
  open         \* has the server not closed the connection?

vars == <<size, client, sent, taken, edge, event, reading, is_read_awaiting,
          ret, saved, lost, logged, open>>

network == <<client, sent, edge>>
upload  == <<ret, saved, lost, logged>>

Small == size < MAXARRSZ

(* "died": closed before all was sent; "left": after "Success on dealing". *)
Gone == client \in {"died", "left", "reset"}

Init ==
  /\ size \in Sizes
  /\ client = "ask"
  /\ sent = 0 /\ taken = 0
  /\ edge = FALSE /\ event = "none"
  /\ reading = FALSE /\ is_read_awaiting = FALSE
  /\ ret = 0 /\ saved = <<>> /\ lost = FALSE /\ logged = "no"
  /\ open = TRUE

-----------------------------------------------------------------------------
(* The client.                                                             *)

(* One sendfile(2), which may send less than it was asked to.              *)
SendSome ==
  /\ client = "send" /\ open
  /\ \E n \in 1..(size - sent) :
       /\ sent + n - taken <= SockBuf
       /\ sent' = sent + n
  /\ edge' = TRUE
  /\ UNCHANGED <<size, client, taken, event, reading, is_read_awaiting,
                 upload, open>>

(* The loop ends: main prints "Success on dealing".                        *)
SentAll ==
  /\ client = "send" /\ sent = size
  /\ client' = "done"
  /\ UNCHANGED <<size, sent, taken, edge, event, reading, is_read_awaiting,
                 upload, open>>

(* sendfile(2) on a connection that the server has closed: the loop ends,  *)
(* too, and main prints the same behind the error.                         *)
SendFails ==
  /\ client = "send" /\ ~open
  /\ client' = "done"
  /\ UNCHANGED <<size, sent, taken, edge, event, reading, is_read_awaiting,
                 upload, open>>

(* test.cpp goes on with a download.                                       *)
NextRequest ==
  /\ size \in Followed /\ open
  /\ client = "done" /\ sent = size
  /\ sent' = sent + 1
  /\ edge' = TRUE
  /\ UNCHANGED <<size, client, taken, event, reading, is_read_awaiting,
                 upload, open>>

Leave ==
  /\ Leaves
  /\ client \in {"send", "done"}
  /\ client' \in {IF client = "send" THEN "died" ELSE "left", "reset"}
  /\ edge' = open
  /\ UNCHANGED <<size, sent, taken, event, reading, is_read_awaiting, upload,
                 open>>

Client == SendSome \/ SentAll \/ SendFails \/ NextRequest \/ Leave

-----------------------------------------------------------------------------
(* The loop.                                                               *)

(* decide_action and the start of handle_sft_file: '1' is written, and a   *)
(* buffer of no bytes makes the first read throw out_of_range_exception.   *)
Start ==
  /\ client = "ask"
  /\ client' = "send"
  /\ reading' = (size # 0)
  /\ open' = (size # 0)
  /\ logged' = IF size = 0 THEN "incomplete" ELSE "no"
  /\ UNCHANGED <<size, sent, taken, edge, event, is_read_awaiting, ret,
                 saved, lost>>

EpollWait ==
  /\ edge /\ open /\ ~reading /\ event = "none"
  /\ event' = IF Gone THEN "hup" ELSE IF sent > taken THEN "in" ELSE "out"
  /\ edge' = FALSE
  /\ UNCHANGED <<size, client, sent, taken, reading, is_read_awaiting,
                 upload, open>>

(* The branch of EPOLLRDHUP: the coroutine is destroyed where it is.       *)
Hangup ==
  /\ event = "hup"
  /\ event' = "none"
  /\ open' = FALSE
  /\ is_read_awaiting' = FALSE
  /\ logged' = IF logged = "no" THEN "dropped" ELSE logged
  /\ UNCHANGED <<size, network, taken, reading, ret, saved, lost>>

Resume ==
  /\ event = "in" /\ is_read_awaiting
  /\ event' = "none"
  /\ reading' = TRUE
  /\ UNCHANGED <<size, network, taken, is_read_awaiting, upload, open>>

(* decide_action on the request that follows.                              *)
Decide ==
  /\ event = "in" /\ ~is_read_awaiting
  /\ event' = "none"
  /\ taken' = sent
  /\ UNCHANGED <<size, network, reading, is_read_awaiting, upload, open>>

Ignore ==
  /\ event = "out"
  /\ event' = "none"
  /\ UNCHANGED <<size, network, taken, reading, is_read_awaiting, upload,
                 open>>

-----------------------------------------------------------------------------
(* The coroutine: one read(2) and what it leads to.                        *)

(* Mutant of Wanted: a small file is read like a large one.                *)
WantedAlways == MAXARRSZ - ret

(* What the read asks for.                                                 *)
Wanted == IF Small THEN size - ret ELSE MAXARRSZ - ret

(* Mutant of Suspend: is_read_awaiting is not set.                          *)
SuspendUnmarked ==
  /\ reading /\ ~Gone /\ sent = taken
  /\ reading' = FALSE
  /\ UNCHANGED <<size, network, taken, event, is_read_awaiting, upload, open>>

(* EAGAIN: co_yield.                                                       *)
Suspend ==
  /\ reading /\ ~Gone /\ sent = taken
  /\ reading' = FALSE
  /\ is_read_awaiting' = TRUE
  /\ UNCHANGED <<size, network, taken, event, upload, open>>

(* One write(2).  It may store less than it is given, which nobody looks   *)
(* at.                                                                     *)
Store(block) ==
  \/ saved' = saved \o block /\ UNCHANGED lost
  \/ /\ DiskFills /\ lost' = TRUE
     /\ \E n \in 1..(Len(block) - 1) : saved' = saved \o SubSeq(block, 1, n)

(* The loops are left and the handler returns.                             *)
Finish(how) ==
  /\ logged' = how
  /\ reading' = FALSE
  /\ is_read_awaiting' = FALSE
  /\ ret' = 0

(* Mutants of Read, all of them slips in the loops: ret is not reset when  *)
(* the buffer is written; the loop goes on at bytesLeft = 0; the buffer is *)
(* never written before the end; every read is followed by co_yield.       *)
ReadSlip(n, done, left, enough, on) ==
  /\ reading /\ client # "reset"
  /\ n <= sent - taken
  /\ taken' = taken + n
  /\ LET flushed == saved \o Slice(taken - ret, taken + n)
     IN  IF done THEN saved' = flushed /\ Finish("success")
         ELSE /\ IF ~Small /\ enough
                 THEN saved' = flushed /\ ret' = left
                 ELSE ret' = ret + n /\ UNCHANGED saved
              /\ reading' = on
              /\ is_read_awaiting' = (is_read_awaiting \/ ~on)
              /\ UNCHANGED logged
  /\ UNCHANGED <<size, network, event, open, lost>>

ReadNoReset == \E n \in 1..Wanted :
  ReadSlip(n, taken + n >= size, ret + n, ret + n >= MAXARRSZ - NUMSTOP, TRUE)

ReadPastEnd == \E n \in 1..Wanted :
  ReadSlip(n, taken + n > size, 0, ret + n >= MAXARRSZ - NUMSTOP, TRUE)

ReadNoFlush == \E n \in 1..Wanted :
  ReadSlip(n, taken + n >= size, 0, FALSE, TRUE)

ReadOnce == \E n \in 1..Wanted :
  ReadSlip(n, taken + n >= size, 0, ret + n >= MAXARRSZ - NUMSTOP, FALSE)

(* Some bytes.  A small file is written once it is all there; of a large   *)
(* one, the buffer when it is nearly full, or at the end.                  *)
Read ==
  /\ reading /\ client # "reset"
  /\ \E n \in 1..Wanted :
       LET block  == Slice(taken - ret, taken + n)
           enough == ret + n >= MAXARRSZ - NUMSTOP
       IN  /\ n <= sent - taken
           /\ taken' = taken + n
           /\ IF taken + n >= size
              THEN Store(block) /\ Finish("success")
              ELSE /\ IF ~Small /\ enough
                      THEN Store(block) /\ ret' = 0
                      ELSE ret' = ret + n /\ UNCHANGED <<saved, lost>>
                   /\ UNCHANGED <<logged, reading, is_read_awaiting>>
  /\ UNCHANGED <<size, network, event, open>>

(* End of file.  The buffer of a small file is written with its zeroes.    *)
EndOfFile ==
  /\ reading /\ client \in {"died", "left"} /\ sent = taken
  /\ Store(Slice(taken - ret, taken)
           \o (IF Small THEN Zeroes(size - ret) ELSE <<>>))
  /\ Finish("incomplete")
  /\ UNCHANGED <<size, network, taken, event, open>>

(* ECONNRESET: IO_exception, close_connection.                             *)
ReadFails ==
  /\ reading /\ client = "reset"
  /\ Finish("incomplete")
  /\ open' = FALSE
  /\ UNCHANGED <<size, network, taken, event, saved, lost>>

(* The same of a write(2), behind a read of some bytes or of none.         *)
WriteFails ==
  /\ DiskFills /\ reading /\ client # "reset"
  /\ \/ \E n \in 1..Wanted :
          /\ n <= sent - taken
          /\ taken + n >= size \/ (~Small /\ ret + n >= MAXARRSZ - NUMSTOP)
          /\ taken' = taken + n
     \/ /\ client \in {"died", "left"} /\ sent = taken
        /\ Small \/ ret > 0
        /\ UNCHANGED taken
  /\ Finish("incomplete")
  /\ open' = FALSE
  /\ UNCHANGED <<size, network, event, saved, lost>>

Server ==
  \/ Start \/ EpollWait \/ Hangup \/ Resume \/ Decide \/ Ignore
  \/ Suspend \/ Read \/ EndOfFile \/ ReadFails \/ WriteFails

Next == Client \/ Server

Spec == Init /\ [][Next]_vars

(* The server loops for ever; the client's blocking calls go on when they  *)
(* can.  Nothing makes it leave or send another request.                   *)
FairSpec == Spec /\ WF_vars(Server) /\ WF_vars(SendSome) /\ WF_vars(SentAll)

-----------------------------------------------------------------------------
(* Properties.                                                             *)

TypeOK ==
  /\ size \in Sizes
  /\ client \in {"ask", "send", "done", "died", "left", "reset"}
  /\ sent \in Nat /\ taken \in Nat /\ ret \in Nat
  /\ edge \in BOOLEAN /\ reading \in BOOLEAN /\ open \in BOOLEAN
  /\ is_read_awaiting \in BOOLEAN
  /\ event \in {"none", "in", "out", "hup"}
  /\ saved \in Seq(Nat) /\ lost \in BOOLEAN
  /\ logged \in {"no", "success", "incomplete", "dropped"}

(* "Success on receiving file" is only logged when the file is what the    *)
(* client sent: no byte missing, doubled, out of place or zero, and none   *)
(* of what came after it; or else, if a write(2) stored less than it was   *)
(* given, the file is too short, never a wrong one of the right size       *)
(* (server.hpp:294-314, 318-344, io.hpp:56-69).                            *)
SuccessExact ==
  logged = "success" =>
    IF lost THEN Len(saved) < size ELSE saved = Slice(0, size)

(* "Not received complete file data" is only logged when the file is not   *)
(* what the client sent (server.hpp:349-358).                              *)
IncompleteMeansShort == logged = "incomplete" => saved # Slice(0, size)

(* No read or write of bufferForFile is out of range, which would throw    *)
(* (util.hpp:61-67): there is room whenever the coroutine reads.           *)
RoomLeft ==
  reading => /\ Wanted > 0
             /\ ret + Wanted <= IF Small THEN size ELSE MAXARRSZ

(* A coroutine that waits for input is going to be resumed: what has       *)
(* arrived since its read failed is announced, once, and nothing else      *)
(* consumes the announcement (server.hpp:198-204, 301-305, 324-328).       *)
WakeUpKept ==
  is_read_awaiting /\ ~reading /\ (sent > taken \/ Gone)
    => edge \/ event \in {"in", "hup"}

(* The server's file grows along the client's until the upload is logged   *)
(* as received, exactly then, or is over otherwise; it is not touched      *)
(* afterwards, whatever follows on the connection (server.hpp:276-361).    *)
T == INSTANCE Transfer WITH
  cut     <- FALSE,
  verdict <- CASE logged = "no"      -> "none"
               [] logged = "success" -> "success"
               [] OTHER              -> "failure"
Transfers == T!Spec

(* A file that was sent is received, if the client stays and the disk does *)
(* not fail.                                                               *)
UploadCompletes ==
  client = "done" ~> (logged = "success" \/ Gone \/ (DiskFills /\ ~open))

(* When the client has said "Success on dealing" and the server is done    *)
(* with the connection, the server has the file.                           *)
SentMeansSaved == client = "left" /\ ~open => logged = "success"

=============================================================================
