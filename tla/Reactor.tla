------------------------------- MODULE Reactor -------------------------------
(***************************************************************************)
(* The single-threaded server loop of server.hpp: one epoll instance, the  *)
(* map of connections, the idle timer, and the coroutines of Handlers.     *)
(*                                                                         *)
(* A step of the server handles one event of the array epoll_wait filled   *)
(* (one accept(2) of it for the listening socket), up to the point where   *)
(* the handler suspends or returns.  Steps of the clients, of the kernel   *)
(* and of the alarm come in between: also between epoll_wait and the       *)
(* handling of an event it reported, which may be stale by then.           *)
(***************************************************************************)
EXTENDS Handlers, FiniteSets, Functions

CONSTANTS
  HttpConns,    \* the connections made by HTTP clients; the rest speak sft
  Sendable,     \* what the clients send, a subset of Kinds
  Turns,        \* pairs <<j, k>>: an sft client may send k after j
  Departures,   \* how clients may leave: "fin", "rst"
  MaxEvents,    \* EPOLL_EVENT_NUMBER
  MaxUnread,    \* bound: client writes in flight to one socket
  MaxAlarms,    \* bound: times the alarm goes off
  Listener,     \* the listening socket
  SigPipe       \* pipe_fd[0], level-triggered

ASSUME ReactorAssumption ==
  /\ HttpConns \subseteq Conns
  /\ Sendable \subseteq Kinds
  /\ Turns \subseteq (Kinds \cup {None}) \X Kinds
  /\ Departures \subseteq {"fin", "rst"}
  /\ MaxEvents \in Nat \ {0}
  /\ MaxUnread \in Nat
  /\ MaxAlarms \in Nat
  /\ Listener \notin Conns \cup Fd
  /\ SigPipe \notin Conns \cup Fd \cup {Listener}

VARIABLES
  sock,         \* the kernel's view of each TCP connection
  fdtab,        \* the process's descriptor table: numbers in use
  ready,        \* epoll's ready list
  batch,        \* events[]: what the last epoll_wait reported, unhandled
  connections,  \* receive_loop::connections
  clock,        \* the timer's _data: alarms gone off since the last update
  alarm,        \* [sent: how often SIGALRM came, pending: byte in the pipe,
                \*  stray: history, see Strays]
  server,       \* "run", "crash" or "spin" (an endless loop in a handler)
  active,       \* history: accepted or handled since the last SIGALRM
  refused,      \* history: accept failed since the last listener event
  served        \* history: <<c, d>>: a file opened for c was sent to d

kernel  == <<sock, fdtab, ready>>
process == <<connections, clock, server>>
vars == <<sock, fdtab, ready, batch, connections, clock, alarm, server,
          active, refused, served>>

-----------------------------------------------------------------------------
(* Maps.                                                                   *)

Put(m, k, v)  == [x \in DOMAIN m \cup {k} |-> IF x = k THEN v ELSE m[x]]
Erase(m, S)   == Restrict(m, DOMAIN m \ S)
IsMap(m, K, V) == DOMAIN m \subseteq K /\ m \in [DOMAIN m -> V]

-----------------------------------------------------------------------------
(* The kernel's objects.                                                   *)

Socket(c) == [type |-> "sock", conn |-> c]
File(c)   == [type |-> "file", conn |-> c]

(* asked: what the client sent last.                                       *)
SockState == [at: {"new", "backlog", "accepted", "closed"},
              peer: {"up", "fin", "rst"}, in: Seq(Kinds), full: BOOLEAN,
              asked: Kinds \cup {None}]

NewSock    == [at |-> "new", peer |-> "up", in |-> <<>>, full |-> FALSE,
               asked |-> None]
ClosedSock == [NewSock EXCEPT !.at = "closed", !.peer = "rst"]

IsSocket(f) == f \in DOMAIN fdtab /\ fdtab[f].type = "sock"
Open(c)     == \E f \in DOMAIN fdtab : fdtab[f] = Socket(c)
Connected(c) == sock[c].at \in {"backlog", "accepted"}

(* open(2) and accept(2) return the lowest free number; 0: none is left.   *)
FreeFd ==
  IF Fd \subseteq DOMAIN fdtab THEN 0
  ELSE CHOOSE f \in Fd \ DOMAIN fdtab :
         \A g \in Fd \ DOMAIN fdtab : f <= g

(* For whom the file with number h was opened.                             *)
Owner(tab, h) == IF h \in DOMAIN tab THEN tab[h].conn ELSE None

(* What I/O on number f meets, for a coroutine whose file has number h.    *)
(* One that is in no use fails; one that is a file's (a stale event, its   *)
(* number used again) can be read if it is open for reading: its contents  *)
(* are bytes like any other, then end of file; writing to it fails.        *)
Views(f, h) ==
  LET file == h \in DOMAIN fdtab /\ fdtab[h].type = "file"
      broken == [conn |-> None, in |-> <<>>, peer |-> "rst",
                 full |-> FALSE, file |-> file]
  IN  IF IsSocket(f)
      THEN LET c == fdtab[f].conn
           IN  {[conn |-> c, in |-> sock[c].in, peer |-> sock[c].peer,
                 full |-> sock[c].full, file |-> file]}
      ELSE IF f \notin DOMAIN fdtab THEN {broken}
      ELSE {broken} \cup {[broken EXCEPT !.in = q, !.peer = "fin"] :
                            q \in {<<>>} \cup {<<k>> : k \in Sendable}}

(* Mutant of Mask: EPOLLRDHUP is not asked for.                            *)
MaskNoHangup(c) ==
  {m \in {"IN"}  : sock[c].in # <<>> \/ sock[c].peer # "up"}
  \cup {m \in {"OUT"} : ~sock[c].full}

(* What epoll reports of a socket: the readiness at the time of the call.  *)
Mask(c) ==
  {m \in {"IN"}  : sock[c].in # <<>> \/ sock[c].peer # "up"}
  \cup {m \in {"OUT"} : ~sock[c].full}
  \cup {m \in {"HUP"} : sock[c].peer # "up"}

(* The sockets that closing the numbers in S closes, as the table is tab.  *)
ClosedBy(tab, S) ==
  {c \in Conns : \E f \in S \cap DOMAIN tab : tab[f] = Socket(c)}

(* close(2) on every number in S: other state of the sockets as in socks.  *)
CloseAll(tab, socks, S) ==
  LET gone == ClosedBy(tab, S)
  IN  /\ fdtab' = Erase(tab, S)
      /\ sock'  = [c \in Conns |-> IF c \in gone THEN ClosedSock
                                   ELSE socks[c]]
      /\ ready' = ready \ gone

-----------------------------------------------------------------------------
(* Entries.                                                                *)

EntryAt(f)    == IF f \in DOMAIN connections THEN connections[f] ELSE NewEntry

(* The descriptors that destroying the coroutine of entry e closes.        *)
HeldBy(e) == {e.task.file}

-----------------------------------------------------------------------------
Init ==
  /\ sock        = [c \in Conns |-> NewSock]
  /\ fdtab       = [f \in {} |-> 0]
  /\ ready       = {}
  /\ batch       = [s \in Fd \cup {Listener, SigPipe} |-> {}]
  /\ connections = [f \in {} |-> NewEntry]
  /\ clock       = [f \in {} |-> 0]
  /\ alarm       = [sent |-> 0, pending |-> FALSE, stray |-> FALSE]
  /\ server      = "run"
  /\ active      = {}
  /\ refused     = FALSE
  /\ served      = {}

-----------------------------------------------------------------------------
(* The environment: clients, their kernels, the alarm.                     *)

Wake(c) == ready' = IF Open(c) THEN ready \cup {c} ELSE ready

Connect(c) ==
  /\ sock[c].at = "new"
  /\ sock'  = [sock EXCEPT ![c].at = "backlog"]
  /\ ready' = ready \cup {Listener}
  /\ UNCHANGED fdtab

(* A client of client.hpp waits for the reply to its request before it     *)
(* sends the file, the flag or its next request.                           *)
InTurn(c, k) ==
  <<sock[c].asked, k>> \in Turns /\ Range(sock[c].in) \cap Requests = {}

Send(c, k) ==
  /\ Connected(c) /\ sock[c].peer = "up"
  /\ k \in (IF c \in HttpConns THEN HttpKinds ELSE SftKinds)
  /\ c \notin HttpConns => InTurn(c, k)
  /\ Len(sock[c].in) < MaxUnread
  /\ sock' = [sock EXCEPT ![c].in = Append(@, k),
                          ![c].asked = k]
  /\ Wake(c)
  /\ UNCHANGED fdtab

(* The client closes, or dies: FIN; or its end is reset.                   *)
Leaving(c, how) ==
  /\ Connected(c)
  /\ sock[c].peer = "up" \/ (sock[c].peer = "fin" /\ how = "rst")
  /\ sock' = [sock EXCEPT ![c].peer = how]
  /\ Wake(c)
  /\ UNCHANGED fdtab

(* The client has read enough for the send buffer to have room again.      *)
Drain(c) ==
  /\ Connected(c) /\ sock[c].full
  /\ sock' = [sock EXCEPT ![c].full = FALSE]
  /\ Wake(c)
  /\ UNCHANGED fdtab

Client ==
  /\ server = "run"
  /\ \E c \in Conns :
       \/ Connect(c)
       \/ \E k \in Sendable : Send(c, k)
       \/ \E how \in Departures : Leaving(c, how)
       \/ Drain(c)
  /\ UNCHANGED <<batch, process, alarm, active, refused, served>>

(* ALARM_TIME has passed.  Every entry of the clock is one interval older, *)
(* two at most; alarm_handler writes a byte to the pipe.                   *)
Alarm ==
  /\ server = "run"
  /\ ~alarm.pending /\ alarm.sent < MaxAlarms
  /\ alarm'  = [alarm EXCEPT !.sent = @ + 1, !.pending = TRUE]
  /\ clock'  = [f \in DOMAIN clock |-> IF clock[f] = 0 THEN 1 ELSE 2]
  /\ active' = {}
  /\ UNCHANGED <<kernel, batch, connections, server, refused, served>>

-----------------------------------------------------------------------------
(* The loop.                                                               *)

Idle == \A s \in DOMAIN batch : batch[s] = {}

(* epoll_wait: at most MaxEvents of what is ready, with the readiness of   *)
(* this moment.  An edge-triggered item leaves the ready list.             *)
EpollWait ==
  /\ server = "run" /\ Idle
  /\ \E some \in SUBSET (ready \cup {s \in {SigPipe} : alarm.pending}) :
       /\ some # {}
       /\ Cardinality(some) <= MaxEvents
       /\ Cardinality(some) < MaxEvents => ready \subseteq some
       /\ ready' = ready \ some
       /\ batch' = [s \in DOMAIN batch |->
            IF s \in Fd
            THEN IF IsSocket(s) /\ fdtab[s].conn \in some
                 THEN Mask(fdtab[s].conn) ELSE {}
            ELSE IF s \notin some THEN {}
            ELSE IF s = Listener /\ \A c \in Conns : sock[c].at # "backlog"
            THEN {} ELSE {"IN"}]
       /\ refused' = (refused /\ Listener \notin some)
  /\ UNCHANGED <<sock, fdtab, process, alarm, active, served>>

Handled(s) == batch' = [batch EXCEPT ![s] = {}]

(* Mutants of Accept: a failed accept(2) is not noticed; the clock is not  *)
(* told; a timer that is still there is left as it is; no loop around      *)
(* accept(2).                                                              *)
Accepted(c, updated) ==
  /\ sock[c].at = "backlog"
  /\ sock'        = [sock EXCEPT ![c].at = "accepted"]
  /\ fdtab'       = Put(fdtab, FreeFd, Socket(c))
  /\ ready'       = ready \cup {c}
  /\ connections' = Put(connections, FreeFd, EntryAt(FreeFd))
  /\ clock'       = updated
  /\ active'      = active \cup {c}
  /\ UNCHANGED <<alarm, server, refused, served>>

AcceptUnchecked ==
  /\ server = "run" /\ batch[Listener] # {}
  /\ \E c \in Conns : Accepted(c, Put(clock, FreeFd, 0))
  /\ UNCHANGED batch

AcceptNoTimer ==
  /\ server = "run" /\ batch[Listener] # {} /\ FreeFd # 0
  /\ \E c \in Conns : Accepted(c, clock)
  /\ UNCHANGED batch

AcceptOldTimer ==
  /\ server = "run" /\ batch[Listener] # {} /\ FreeFd # 0
  /\ \E c \in Conns :
       Accepted(c, IF FreeFd \in DOMAIN clock THEN clock
                   ELSE Put(clock, FreeFd, 0))
  /\ UNCHANGED batch

AcceptOnce ==
  /\ server = "run" /\ batch[Listener] # {} /\ FreeFd # 0
  /\ \E c \in Conns : Accepted(c, Put(clock, FreeFd, 0))
  /\ Handled(Listener)

(* One accept(2) of the accept loop.  operator= moves descriptor and       *)
(* address into the entry; what an entry that is still there says of task, *)
(* requests and flags stays.  EPOLL_CTL_ADD finds the socket writable.     *)
Accept ==
  /\ server = "run" /\ batch[Listener] # {}
  /\ FreeFd # 0
  /\ \E c \in Conns :
       /\ sock[c].at = "backlog"
       /\ sock'        = [sock EXCEPT ![c].at = "accepted"]
       /\ fdtab'       = Put(fdtab, FreeFd, Socket(c))
       /\ ready'       = ready \cup {c}
       /\ connections' = Put(connections, FreeFd, EntryAt(FreeFd))
       /\ clock'       = Put(clock, FreeFd, 0)
       /\ active'      = active \cup {c}
  /\ UNCHANGED <<batch, alarm, server, refused, served>>

(* The end of the accept loop: EAGAIN when there is nothing left, or an    *)
(* exception (no descriptor left) that leaves the rest in the backlog.     *)
AcceptEnd ==
  /\ server = "run" /\ batch[Listener] # {}
  /\ \/ /\ \A c \in Conns : sock[c].at # "backlog"
        /\ UNCHANGED refused
     \/ /\ \E c \in Conns : sock[c].at = "backlog"
        /\ FreeFd = 0
        /\ refused' = TRUE
  /\ Handled(Listener)
  /\ UNCHANGED <<kernel, process, alarm, active, served>>

(* Mutant of Forget: the entry stays in connections.                       *)
ForgetKeepsEntry(S) ==
  /\ CloseAll(fdtab, sock, S)
  /\ clock' = Erase(clock, S)
  /\ UNCHANGED <<connections, server>>

(* close_connection, clock.erase_value and connections.erase of the        *)
(* numbers in S.  ~data_info destroys the coroutine, which closes its      *)
(* file, and closes the socket's number again (free by then).              *)
Forget(S) ==
  /\ CloseAll(fdtab, sock,
       S \cup UNION {HeldBy(connections[f]) : f \in S \cap DOMAIN connections})
  /\ connections' = Erase(connections, S)
  /\ clock'       = Erase(clock, S)
  /\ UNCHANGED server

Hangup(f) ==
  /\ server = "run" /\ "HUP" \in batch[f]
  /\ Forget({f})
  /\ Handled(f)
  /\ UNCHANGED <<alarm, active, refused, served>>

(* clear_expired walks an unordered map and stops at the first entry that  *)
(* has not expired: any part of the expired ones may come before it.       *)
(* Entries updated in the interval that just ended may or may not be one   *)
(* interval old when the byte is read.                                     *)
Expired ==
  {E \in SUBSET {f \in DOMAIN clock : clock[f] > 0} :
     {f \in DOMAIN clock : clock[f] = 2} \subseteq E}

clear_expired ==
  UNION {IF E = DOMAIN clock THEN {E} ELSE SUBSET E : E \in Expired}

(* The ways in which closing the expired numbers in S can hit something     *)
(* else: the number of a file, which left a clock entry from its time as a *)
(* socket, or one that has an event left in the array, which will be taken *)
(* for one of whoever has the number by then.                              *)
Strays(S) ==
  \E f \in S \cap DOMAIN fdtab : batch[f] # {} \/ fdtab[f].type = "file"

Tick ==
  /\ server = "run" /\ batch[SigPipe] # {}
  /\ \E timeout_list \in clear_expired :
       /\ Forget(timeout_list)
       /\ alarm' = [alarm EXCEPT !.pending = FALSE,
                                 !.stray = @ \/ Strays(timeout_list)]
  /\ Handled(SigPipe)
  /\ UNCHANGED <<active, refused, served>>

Touched(f) ==
  active' = IF IsSocket(f) THEN active \cup {fdtab[f].conn} ELSE active

(* Mutant of Apply: a coroutine that returned closed its file and keeps    *)
(* the number, so that destroying it closes the number again.              *)
ApplyKeepsNumber(f, s, h, r, tab, closing) ==
  LET socks == IF s.conn = None THEN sock
               ELSE [sock EXCEPT ![s.conn].in = r.in,
                                 ![s.conn].full = @ \/ r.full]
      kept  == IF r.entry.task = NoTask
               THEN [r.entry EXCEPT !.task.file = h] ELSE r.entry
  IN  /\ CloseAll(tab, socks, closing \cup (IF r.shut THEN {f} ELSE {}))
      /\ connections' = Put(connections, f, kept)
      /\ clock'       = Put(clock, f, 0)
      /\ server'      = r.server
      /\ served'      = served

(* A run of the handler on descriptor f, which met s and whose file has    *)
(* number h, has ended with result r; the numbers in closing were closed,  *)
(* and the table was tab before that.                                      *)
Apply(f, s, h, r, tab, closing) ==
  LET socks == IF s.conn = None THEN sock
               ELSE [sock EXCEPT ![s.conn].in = r.in,
                                 ![s.conn].full = @ \/ r.full]
  IN  /\ CloseAll(tab, socks, closing \cup (IF r.shut THEN {f} ELSE {}))
      /\ connections' = Put(connections, f, r.entry)
      /\ clock'       = Put(clock, f, 0)
      /\ server'      = r.server
      /\ served'      = IF r.sent THEN served \cup {<<Owner(tab, h), s.conn>>}
                        ELSE served

(* The table with a file opened for connection c, if there was a number.   *)
WithFile(c) == IF FreeFd = 0 THEN fdtab ELSE Put(fdtab, FreeFd, File(c))

(* task.resume().  A coroutine that returns, or ends a page, closes the    *)
(* file it held; one that waits for a request may open another.            *)
Resumed(f, e) ==
  IF e.task.at # "next"
  THEN \E s \in Views(f, e.task.file) : \E r \in Resume(e, e.task.file, s) :
         Apply(f, s, e.task.file, r, fdtab, HeldBy(e) \ HeldBy(r.entry))
  ELSE \E s \in Views(f, 0) :
         \E r \in Resume(e, FreeFd, [s EXCEPT !.file = TRUE]) :
           Apply(f, s, FreeFd, r, WithFile(s.conn),
                 {FreeFd} \ HeldBy(r.entry))

(* task = handle_...(fd): the new coroutine runs first, then the old one   *)
(* is destroyed and closes the file it held.  A message replaces no task.  *)
Started(f, e, k, s) ==
  LET asked   == [e EXCEPT !.requests = k]
      drained == [s EXCEPT !.in = <<>>, !.file = TRUE]
  IN  IF k = "mesg"
      THEN \E r \in Start(asked, 0, drained) : Apply(f, s, 0, r, fdtab, {})
      ELSE \E r \in Start(asked, FreeFd, drained) :
             Apply(f, s, FreeFd, r, WithFile(s.conn),
                   HeldBy(e) \cup ({FreeFd} \ HeldBy(r.entry)))

(* Mutant of Readable: EPOLLIN is tested before EPOLLRDHUP.                *)
ReadableFirst(f) ==
  /\ server = "run" /\ "IN" \in batch[f]
  /\ LET e == EntryAt(f)
     IN  IF e.is_read_awaiting THEN Resumed(f, e)
         ELSE \E s \in Views(f, 0) : \E k \in decide_action(e, s) :
                IF k = None THEN Forget({f}) /\ UNCHANGED served
                ELSE Started(f, e, k, s)
  /\ Touched(f)
  /\ Handled(f)
  /\ UNCHANGED <<alarm, refused>>

(* EPOLLIN.                                                                *)
Readable(f) ==
  /\ server = "run" /\ "IN" \in batch[f] /\ "HUP" \notin batch[f]
  /\ LET e == EntryAt(f)
     IN  IF e.is_read_awaiting THEN Resumed(f, e)
         ELSE \E s \in Views(f, 0) : \E k \in decide_action(e, s) :
                IF k = None THEN Forget({f}) /\ UNCHANGED served
                ELSE Started(f, e, k, s)
  /\ Touched(f)
  /\ Handled(f)
  /\ UNCHANGED <<alarm, refused>>

(* EPOLLOUT alone.                                                         *)
Writable(f) ==
  /\ server = "run" /\ batch[f] = {"OUT"}
  /\ LET e == EntryAt(f)
     IN  IF e.is_write_awaiting THEN Resumed(f, e)
         ELSE /\ connections' = Put(connections, f, e)
              /\ clock'       = Put(clock, f, 0)
              /\ UNCHANGED <<kernel, server, served>>
  /\ Touched(f)
  /\ Handled(f)
  /\ UNCHANGED <<alarm, refused>>

Loop ==
  \/ EpollWait
  \/ Accept
  \/ AcceptEnd
  \/ Tick
  \/ \E f \in Fd : Hangup(f) \/ Readable(f) \/ Writable(f)

Next == Client \/ Alarm \/ Loop

Spec     == Init /\ [][Next]_vars
FairSpec == Spec /\ WF_vars(Loop)

-----------------------------------------------------------------------------
(* Properties.                                                             *)

Object == [type: {"sock"}, conn: Conns]
          \cup [type: {"file"}, conn: Conns \cup {None}]

(* Every variable has its type; the tables are partial functions on the    *)
(* descriptor numbers.                                                     *)
TypeOK ==
  /\ sock \in [Conns -> SockState]
  /\ IsMap(fdtab, Fd, Object)
  /\ ready \subseteq Conns \cup {Listener}
  /\ batch \in [Fd \cup {Listener, SigPipe} -> SUBSET {"IN", "OUT", "HUP"}]
  /\ IsMap(connections, Fd, Entry)
  /\ IsMap(clock, Fd, 0..2)
  /\ alarm \in [sent: 0..MaxAlarms, pending: BOOLEAN, stray: BOOLEAN]
  /\ server \in {"run", "crash", "spin"}
  /\ active \subseteq Conns
  /\ refused \in BOOLEAN
  /\ served \subseteq (Conns \cup {None}) \X (Conns \cup {None})

(* A socket that is open can be reaped: it has an entry in connections and *)
(* one in the clock, whatever handlers, hang-ups and timeouts closed and   *)
(* whatever number was used again meanwhile (server.hpp:170-173, 181-183,  *)
(* 191-195, 226-228).                                                      *)
Reapable ==
  \A f \in DOMAIN fdtab : \A c \in Conns :
    fdtab[f] = Socket(c) => f \in DOMAIN connections \cap DOMAIN clock

(* No hang-up is lost, although epoll reports it once (EPOLLET): as long   *)
(* as the socket of a peer that left is open, it is on the ready list or   *)
(* its EPOLLRDHUP is in the array being worked through, where the branch   *)
(* order of loop() lets nothing else consume it (server.hpp:163-239).      *)
HangupPending ==
  \A f \in DOMAIN fdtab : \A c \in Conns :
    fdtab[f] = Socket(c) /\ sock[c].peer # "up"
      => c \in ready \/ "HUP" \in batch[f]

(* The edge-triggered listening socket strands nobody: a connection in the *)
(* backlog is announced or being accepted, unless the accept loop ended on *)
(* an exception (server.hpp:164-178).                                      *)
NoStrandedBacklog ==
  (\E c \in Conns : sock[c].at = "backlog")
    => Listener \in ready \/ batch[Listener] # {} \/ refused

(* The timer of a connection that had an event since the last alarm is     *)
(* new, also when its number is that of an earlier connection, or of a     *)
(* file, that left its timer behind (server.hpp:173, 201, 235).            *)
FreshTimer ==
  \A f \in DOMAIN fdtab : \A c \in active :
    fdtab[f] = Socket(c) => f \in DOMAIN clock /\ clock[f] = 0

(* A handler closes no connection but its own: the step that closes a      *)
(* socket's number is not one on another descriptor (the closes of         *)
(* close_connection, ~data_info and the coroutine's ~File), unless a       *)
(* timeout went astray before.                                             *)
NoBystander ==
  [][alarm.stray \/ \A g \in DOMAIN fdtab \ DOMAIN fdtab' :
       fdtab[g].type = "sock"
         => \A f \in Fd \ {g} : ~(Hangup(f) \/ Readable(f) \/ Writable(f))]_vars

(* A coroutine that an event can resume belongs to the connection that has *)
(* the number now, though operator= resets neither task nor flags          *)
(* (server.hpp:52), unless a reset is going to close the connection.       *)
OwnTask ==
  \A f \in DOMAIN fdtab \cap DOMAIN connections : \A c \in Conns :
    LET e == connections[f]
        awaiting == e.is_read_awaiting \/ e.is_write_awaiting
    IN  fdtab[f] = Socket(c) /\ sock[c].peer # "rst" /\ awaiting
          => e.task.at # "none" /\ e.task.conn = c

(* File data only goes to the connection the file was opened for.          *)
OwnFile == \A p \in served : p[1] = p[2]

(* No event resumes a coroutine that has returned.                         *)
NoCrash == server # "crash"

(* Input is never left without an event to come: bytes a client has sent   *)
(* are on the ready list, in the array, or what a coroutine that waits for *)
(* room in the send buffer will find when it goes on.                      *)
InputNoticed ==
  \A f \in DOMAIN fdtab : \A c \in Conns :
    fdtab[f] = Socket(c) /\ sock[c].in # <<>>
      => c \in ready \/ batch[f] # {} \/ EntryAt(f).is_write_awaiting

(* A connection whose client left is closed, unless the process ends.      *)
HangupReaped ==
  \A c \in Conns : (Open(c) /\ sock[c].peer # "up")
                     ~> (~Open(c) \/ server # "run")

(* A connection is accepted, unless there was no descriptor for it.        *)
BacklogAccepted ==
  \A c \in Conns : sock[c].at = "backlog"
                     ~> (sock[c].at # "backlog" \/ refused \/ server # "run")

=============================================================================
