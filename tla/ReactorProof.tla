----------------------------- MODULE ReactorProof -----------------------------
(***************************************************************************)
(* Proofs about the server loop, for any connections, descriptors, alarms  *)
(* and requests: type correctness, and that no socket, hang-up or waiting  *)
(* connection escapes the loop.                                            *)
(***************************************************************************)
EXTENDS Reactor, SequenceTheorems, WellFoundedInduction, TLAPS

-----------------------------------------------------------------------------
(* The handlers: what every run of one may leave behind is of type Result, *)
(* whatever the connection, the socket and the file it met.                *)

(* NoTask and NewEntry are a task and an entry.                            *)
LEMMA NewEntryType == NoTask \in Task /\ NewEntry \in Entry
BY HandlersAssumption DEF NoTask, Task, NewEntry, Entry

(* The three ways a run ends (co_yield or co_return, close_connection, the *)
(* end of the process) give results.                                       *)
LEMMA EndsType ==
  ASSUME NEW e \in Entry, NEW q \in Seq(Kinds)
  PROVE  /\ Leave(e, q) \in Result
         /\ Shut(e, q) \in Result
         /\ \A how \in {"crash", "spin"} : Die(e, how) \in Result
         /\ Done(e) \in Entry
<1>1. <<>> \in Seq(Kinds)  BY EmptySeq
<1>2. NoTask \in Task  BY NewEntryType
<1> QED BY <1>1, <1>2 DEF Leave, Shut, Die, Done, Result, Entry

(* What a coroutine remembers while suspended is a task.                   *)
LEMMA AtType ==
  ASSUME NEW p \in Points, NEW h \in 0..MaxFd, NEW c \in Conns \cup {None},
         NEW k \in Kinds \cup {None}
  PROVE  At(p, h, c, k) \in Task
BY DEF At, Task

(* Reading leaves a sequence of what was unread.                           *)
LEMMA RestsType ==
  ASSUME NEW q \in Seq(Kinds)
  PROVE  /\ Rests(q) \subseteq Seq(Kinds)
         /\ q # <<>> => Head(q) \in Kinds /\ Tail(q) \in Seq(Kinds)
<1>1. ASSUME NEW i \in 2..(Len(q) + 1)
      PROVE  SubSeq(q, i, Len(q)) \in Seq(Kinds)
  <2>1. i \in Int /\ Len(q) \in Nat /\ i >= 1  BY LenProperties
  <2>2. \A j \in i..Len(q) : q[j] \in Kinds
    BY <2>1, ElementOfSeq
  <2> QED BY <2>1, <2>2, SubSeqProperties
<1>2. q # <<>> => Head(q) \in Kinds /\ Tail(q) \in Seq(Kinds)
  BY HeadTailProperties
<1> QED BY <1>1, <1>2 DEF Rests

(* Changing the task, the request or the flags of an entry leaves an entry.*)
LEMMA EntryUpdates ==
  ASSUME NEW e \in Entry
  PROVE  /\ \A r \in Kinds \cup {None} : [e EXCEPT !.requests = r] \in Entry
         /\ \A b \in BOOLEAN : /\ [e EXCEPT !.is_read_awaiting = b] \in Entry
                               /\ [e EXCEPT !.is_write_awaiting = b] \in Entry
         /\ \A t \in Task : /\ t.at \in Points \cup {"none"}
                            /\ [e EXCEPT !.task = t] \in Entry
                            /\ \A p \in Points : [t EXCEPT !.at = p] \in Task
BY DEF Entry, Task

-----------------------------------------------------------------------------
(* Uploads.                                                                *)

LEMMA UploadLoopType ==
  ASSUME NEW e \in Entry, NEW t \in Task, NEW s \in View
  PROVE  UploadLoop(e, t, s) \subseteq Result
<1> DEFINE over == [Done(e) EXCEPT !.is_read_awaiting = FALSE]
           wait == [e EXCEPT !.task = t, !.is_read_awaiting = TRUE]
<1>1. over \in Entry /\ wait \in Entry
  BY EndsType, EmptySeq, NewEntryType DEF Entry, Done
<1>2. /\ <<>> \in Seq(Kinds)
      /\ Rests(s.in) \subseteq Seq(Kinds)
  BY RestsType, EmptySeq DEF View
<1>3. \A q \in Seq(Kinds) : /\ Leave(over, q) \in Result
                            /\ Shut(over, q) \in Result
                            /\ Leave(wait, q) \in Result
  BY <1>1, EndsType
<1> QED BY <1>2, <1>3 DEF UploadLoop

LEMMA UploadType ==
  ASSUME NEW e \in Entry, NEW h \in 0..MaxFd, NEW s \in View
  PROVE  handle_sft_file(e, h, s) \subseteq Result
<1> DEFINE start == [e EXCEPT !.requests = None]
           over  == [Done(start) EXCEPT !.is_read_awaiting = FALSE]
<1>1. start \in Entry
  BY EntryUpdates
<1>2. Done(start) \in Entry
  BY <1>1, NewEntryType DEF Entry, Done
<1>3. over \in Entry
  BY <1>2, EntryUpdates
<1>4. s.in \in Seq(Kinds) /\ s.conn \in Conns \cup {None}
  BY DEF View
<1>5. At("upload", h, s.conn, None) \in Task
  BY <1>4, AtType DEF Points
<1>6. UploadLoop(start, At("upload", h, s.conn, None), s) \subseteq Result
  BY <1>1, <1>5, UploadLoopType
<1>7. Leave(Done(start), s.in) \in Result /\ Shut(over, s.in) \in Result
  BY <1>2, <1>3, <1>4, EndsType
<1> QED BY <1>6, <1>7 DEF handle_sft_file

LEMMA MessageType ==
  ASSUME NEW e \in Entry, NEW s \in View
  PROVE  handle_sft_mesg(e, s) \subseteq Result
<1>1. [e EXCEPT !.requests = None] \in Entry /\ s.in \in Seq(Kinds)
  BY EntryUpdates DEF View
<1> QED BY <1>1, EndsType DEF handle_sft_mesg

-----------------------------------------------------------------------------
(* Downloads.                                                              *)

(* Noting that file data went out, or that the buffer is full, changes no  *)
(* type.                                                                   *)
LEMMA NotesType ==
  ASSUME NEW r \in Result
  PROVE  \A b, d \in BOOLEAN : /\ [r EXCEPT !.sent = b] \in Result
                               /\ [r EXCEPT !.full = d, !.sent = b] \in Result
BY DEF Result

LEMMA SendLoopType ==
  ASSUME NEW e \in Entry, NEW t \in Task, NEW s \in View, NEW q \in Seq(Kinds)
  PROVE  SendLoop(e, t, s, q) \subseteq Result
<1> DEFINE over == [Done(e) EXCEPT !.is_read_awaiting = FALSE,
                                   !.is_write_awaiting = FALSE]
           wait == [e EXCEPT !.task = [t EXCEPT !.at = "send"],
                             !.is_read_awaiting = FALSE,
                             !.is_write_awaiting = TRUE]
<1>1. Done(e) \in Entry
  BY EndsType
<1>2. [t EXCEPT !.at = "send"] \in Task
  BY EntryUpdates DEF Points
<1>3. over \in Entry
  BY <1>1 DEF Entry
<1>4. wait \in Entry
  BY <1>2 DEF Entry
<1>5. /\ Leave(over, q) \in Result
      /\ Leave(wait, q) \in Result
      /\ Leave(Done(e), q) \in Result
  BY <1>1, <1>3, <1>4, EndsType
<1>6. /\ [Leave(over, q) EXCEPT !.sent = TRUE] \in Result
      /\ s.full \in BOOLEAN
      /\ [Leave(wait, q) EXCEPT !.full = TRUE, !.sent = ~s.full] \in Result
  BY <1>5, NotesType DEF View
<1> QED BY <1>5, <1>6 DEF SendLoop

LEMMA FlagLoopType ==
  ASSUME NEW e \in Entry, NEW t \in Task, NEW s \in View
  PROVE  FlagLoop(e, t, s) \subseteq Result
<1> DEFINE over == [Done(e) EXCEPT !.is_read_awaiting = FALSE,
                                   !.is_write_awaiting = FALSE]
           wait == [e EXCEPT !.task = t, !.is_read_awaiting = TRUE]
<1>1. over \in Entry
  BY EndsType, EmptySeq DEF Entry
<1>2. wait \in Entry
  BY DEF Entry
<1>3. s.in \in Seq(Kinds) /\ <<>> \in Seq(Kinds)
  BY EmptySeq DEF View
<1>4. CASE s.in # <<>>
  <2>1. Tail(s.in) \in Seq(Kinds)
    BY <1>3, <1>4, RestsType
  <2>2. SendLoop(e, t, s, Tail(s.in)) \subseteq Result
    BY <2>1, SendLoopType
  <2>3. Shut(over, Tail(s.in)) \in Result
    BY <2>1, <1>1, EndsType
  <2> QED BY <1>4, <2>2, <2>3 DEF FlagLoop
<1>5. CASE s.in = <<>>
  <2>1. Leave(wait, <<>>) \in Result /\ Shut(over, <<>>) \in Result
    BY <1>1, <1>2, <1>3, EndsType
  <2> QED BY <1>5, <2>1 DEF FlagLoop
<1> QED BY <1>4, <1>5

LEMMA DownloadType ==
  ASSUME NEW e \in Entry, NEW h \in 0..MaxFd, NEW s \in View
  PROVE  handle_sft_get_file(e, h, s) \subseteq Result
<1> DEFINE start == [e EXCEPT !.requests = None]
           t     == At("flag", h, s.conn, None)
           over  == [Done(start) EXCEPT !.is_read_awaiting = FALSE,
                                        !.is_write_awaiting = FALSE]
<1>1. start \in Entry
  BY EntryUpdates
<1>2. s.in \in Seq(Kinds) /\ s.conn \in Conns \cup {None}
  BY DEF View
<1>3. t \in Task
  BY <1>2, AtType DEF Points
<1>4. Done(start) \in Entry
  BY <1>1, <1>2, EndsType
<1>5. over \in Entry
  BY <1>4 DEF Entry
<1>6. Leave(over, s.in) \in Result /\ Leave(Done(start), s.in) \in Result
  BY <1>2, <1>4, <1>5, EndsType
<1>7. /\ FlagLoop(start, t, s) \subseteq Result
      /\ SendLoop(start, t, s, s.in) \subseteq Result
  BY <1>1, <1>2, <1>3, FlagLoopType, SendLoopType
<1> QED BY <1>6, <1>7 DEF handle_sft_get_file

-----------------------------------------------------------------------------
(* HTTP.                                                                   *)

LEMMA NextRoundType ==
  ASSUME NEW e \in Entry, NEW c \in Conns \cup {None}, NEW q \in Seq(Kinds)
  PROVE  NextRound(e, c, q) \in Result
<1>1. At("next", 0, c, None) \in Task
  BY HandlersAssumption, AtType DEF Points
<1>2. [e EXCEPT !.task = At("next", 0, c, None),
                !.is_read_awaiting = TRUE, !.is_write_awaiting = FALSE]
        \in Entry
  BY <1>1 DEF Entry
<1> QED BY <1>2, EndsType DEF NextRound

LEMMA PageLoopType ==
  ASSUME NEW e \in Entry, NEW t \in Task, NEW s \in View, NEW q \in Seq(Kinds)
  PROVE  PageLoop(e, t, s, q) \subseteq Result
<1> DEFINE wait == [e EXCEPT !.task = t, !.is_write_awaiting = TRUE]
<1>1. wait \in Entry
  BY DEF Entry
<1>2. Done(e) \in Entry /\ t.conn \in Conns \cup {None} /\ s.full \in BOOLEAN
  BY EndsType DEF Task, View
<1>3. /\ Shut(wait, q) \in Result
      /\ Leave(wait, q) \in Result
      /\ Shut(Done(e), q) \in Result
      /\ Die(wait, "spin") \in Result
      /\ NextRound(e, t.conn, q) \in Result
  BY <1>1, <1>2, EndsType, NextRoundType
<1>4. /\ [Leave(wait, q) EXCEPT !.full = TRUE, !.sent = ~s.full] \in Result
      /\ [Shut(Done(e), q) EXCEPT !.sent = TRUE] \in Result
      /\ [NextRound(e, t.conn, q) EXCEPT !.sent = TRUE] \in Result
  BY <1>2, <1>3, NotesType
<1> QED BY <1>3, <1>4 DEF PageLoop

LEMMA PageType ==
  ASSUME NEW e \in Entry, NEW h \in 0..MaxFd, NEW s \in View,
         NEW q \in Seq(Kinds), NEW k \in Kinds
  PROVE  Page(e, h, s, q, k) \subseteq Result
<1> DEFINE seen == [e EXCEPT !.requests = IF k = "bad" THEN k ELSE None]
<1>1. seen \in Entry /\ s.conn \in Conns \cup {None}
  BY EntryUpdates DEF View
<1>2. At("page", h, s.conn, k) \in Task
  BY <1>1, AtType DEF Points
<1>3. PageLoop(seen, At("page", h, s.conn, k), s, q) \subseteq Result
  BY <1>1, <1>2, PageLoopType
<1>4. Leave(Done(seen), q) \in Result /\ NextRound(seen, s.conn, q) \in Result
  BY <1>1, EndsType, NextRoundType
<1> QED BY <1>3, <1>4 DEF Page

LEMMA ServeNextType ==
  ASSUME NEW e \in Entry, NEW h \in 0..MaxFd, NEW s \in View
  PROVE  ServeNext(e, h, s) \subseteq Result
<1> DEFINE first == IF s.in = <<>> THEN None ELSE Head(s.in)
           read  == [e EXCEPT !.requests = first]
<1>1. /\ s.in \in Seq(Kinds)
      /\ <<>> \in Seq(Kinds)
      /\ first \in Kinds \cup {None}
      /\ e.requests \in Kinds \cup {None}
  BY RestsType, EmptySeq DEF View, Entry
<1>2. read \in Entry
  BY <1>1, EntryUpdates
<1>3. /\ Done(read) \in Entry
      /\ Die(e, "crash") \in Result
  BY <1>1, <1>2, EndsType
<1>4. Shut(Done(read), <<>>) \in Result /\ Leave(Done(read), <<>>) \in Result
  BY <1>1, <1>3, EndsType
<1>5. e.requests # None => Page(e, h, s, s.in, e.requests) \subseteq Result
  BY <1>1, PageType
<1>6. first # None => Page(e, h, s, <<>>, first) \subseteq Result
  BY <1>1, PageType
<1> QED BY <1>3, <1>4, <1>5, <1>6 DEF ServeNext

-----------------------------------------------------------------------------
(* Starting and resuming.                                                  *)

(* A new coroutine, or a message, leaves a result.                         *)
LEMMA StartType ==
  ASSUME NEW e \in Entry, e.requests \in Kinds, NEW h \in 0..MaxFd,
         NEW s \in View
  PROVE  Start(e, h, s) \subseteq Result
<1>1. s.in \in Seq(Kinds)
  BY DEF View
<1>2. handle_http(e, h, s) \subseteq Result
  BY <1>1, PageType DEF handle_http
<1> QED BY <1>2, UploadType, MessageType, DownloadType DEF Start

(* So does a resumed one, wherever it was suspended.                       *)
LEMMA ResumeType ==
  ASSUME NEW e \in Entry, NEW h \in 0..MaxFd, NEW s \in View
  PROVE  Resume(e, h, s) \subseteq Result
<1>1. e.task \in Task /\ s.in \in Seq(Kinds)
  BY DEF Entry, View
<1>2. Die(e, "crash") \in Result
  BY EmptySeq, EndsType
<1> QED BY <1>1, <1>2, UploadLoopType, FlagLoopType, SendLoopType,
           PageLoopType, ServeNextType DEF Resume

(* decide_action names a request or none.                                  *)
LEMMA DecideType ==
  ASSUME NEW e \in Entry, NEW s \in View
  PROVE  decide_action(e, s) \subseteq Requests \cup {None}
BY DEF decide_action

-----------------------------------------------------------------------------
(* Partial maps.                                                           *)

(* Inserting into, and erasing from, a partial map from K to V.            *)
LEMMA PutType ==
  ASSUME NEW K, NEW V, NEW m, IsMap(m, K, V), NEW k \in K, NEW v \in V
  PROVE  IsMap(Put(m, k, v), K, V)
BY DEF Put, IsMap

LEMMA EraseType ==
  ASSUME NEW K, NEW V, NEW m, IsMap(m, K, V), NEW S
  PROVE  IsMap(Erase(m, S), K, V)
BY DEF Erase, Restrict, IsMap

LEMMA ExceptType ==
  ASSUME NEW K, NEW V, NEW m \in [K -> V], NEW k, NEW v \in V
  PROVE  [m EXCEPT ![k] = v] \in [K -> V]
OBVIOUS

(* The number that open(2) and accept(2) would return is free, or 0.       *)
LEMMA FreeFdType ==
  /\ FreeFd \in 0..MaxFd
  /\ FreeFd # 0 => FreeFd \in Fd \ DOMAIN fdtab
<1> DEFINE free == Fd \ DOMAIN fdtab
<1>1. free \subseteq Nat /\ Fd \subseteq 0..MaxFd /\ 0 \in 0..MaxFd
  BY HandlersAssumption DEF Fd
<1>2. CASE free = {}
  <2>1. FreeFd = 0
    BY <1>2 DEF FreeFd
  <2> QED BY <1>1, <2>1
<1>3. CASE free # {}
  <2>1. PICK f \in free : \A g \in free : ~(<<g, f>> \in OpToRel(<, Nat))
    BY <1>1, <1>3, NatLessThanWellFounded, WFMin
  <2>2. \A g \in free : ~(g < f)
    BY <1>1, <2>1, Zenon DEF OpToRel
  <2>3. \A g \in free : f <= g
    BY <1>1, <2>2
  <2>4. FreeFd = CHOOSE x \in free : \A g \in free : x <= g
    BY <1>3 DEF FreeFd
  <2>5. FreeFd \in free
    BY <2>3, <2>4
  <2> QED BY <1>1, <2>5
<1> QED BY <1>2, <1>3

-----------------------------------------------------------------------------
(* Sockets and descriptors.                                                *)

(* Reading from, and filling the send buffer of, a socket.                 *)
LEMMA SockUpdates ==
  ASSUME NEW x \in SockState, NEW q \in Seq(Kinds), NEW b \in BOOLEAN
  PROVE  [x EXCEPT !.in = q, !.full = b] \in SockState
BY DEF SockState

Tables(tab) == IsMap(tab, Fd, Object)

(* close(2) keeps the types of what it changes.                            *)
LEMMA CloseAllType ==
  ASSUME TypeOK, NEW tab, Tables(tab), NEW socks \in [Conns -> SockState],
         NEW S, CloseAll(tab, socks, S)
  PROVE  /\ sock' \in [Conns -> SockState]
         /\ Tables(fdtab')
         /\ ready' \subseteq Conns \cup {Listener}
<1>1. ClosedSock \in SockState
  BY EmptySeq DEF ClosedSock, NewSock, SockState
<1>2. sock' \in [Conns -> SockState]
  BY <1>1 DEF CloseAll
<1>3. Tables(fdtab')
  BY EraseType DEF CloseAll, Tables
<1> QED BY <1>2, <1>3 DEF CloseAll, TypeOK

(* What a coroutine finds is a view.                                       *)
LEMMA ViewsType ==
  ASSUME TypeOK, NEW f, NEW h
  PROVE  /\ Views(f, h) \subseteq View
         /\ \A s \in Views(f, h) :
              /\ [s EXCEPT !.file = TRUE] \in View
              /\ [s EXCEPT !.in = <<>>, !.file = TRUE] \in View
<1> DEFINE file == h \in DOMAIN fdtab /\ fdtab[h].type = "file"
           broken == [conn |-> None, in |-> <<>>, peer |-> "rst",
                      full |-> FALSE, file |-> file]
<1>1. file \in BOOLEAN
  OBVIOUS
<1>2. <<>> \in Seq(Kinds)
  BY EmptySeq
<1>3. broken \in View
  BY <1>1, <1>2 DEF View
<1>4. \A q \in {<<>>} \cup {<<k>> : k \in Sendable} : q \in Seq(Kinds)
  <2>1. \A k \in Kinds : <<k>> \in Seq(Kinds)
    OBVIOUS
  <2> QED BY <1>2, <2>1, ReactorAssumption
<1>5. \A q \in {<<>>} \cup {<<k>> : k \in Sendable} :
        [broken EXCEPT !.in = q, !.peer = "fin"] \in View
  BY <1>3, <1>4 DEF View
<1>6. ASSUME IsSocket(f)
      PROVE  [conn |-> fdtab[f].conn, in |-> sock[fdtab[f].conn].in,
              peer |-> sock[fdtab[f].conn].peer,
              full |-> sock[fdtab[f].conn].full, file |-> file] \in View
  <2>1. fdtab[f].conn \in Conns
    BY <1>6 DEF TypeOK, IsSocket, Object, IsMap
  <2>2. sock[fdtab[f].conn] \in SockState
    BY <2>1 DEF TypeOK
  <2> QED BY <1>1, <2>1, <2>2 DEF SockState, View
<1>7. Views(f, h) \subseteq View
  <2>1. CASE IsSocket(f)
    BY <1>6, <2>1 DEF Views
  <2>2. CASE ~IsSocket(f)
    BY <1>3, <1>5, <2>2 DEF Views
  <2> QED BY <2>1, <2>2
<1>8. \A s \in View : /\ [s EXCEPT !.file = TRUE] \in View
                      /\ [s EXCEPT !.in = <<>>, !.file = TRUE] \in View
  BY <1>2 DEF View
<1> QED BY <1>7, <1>8

(* The entry a handler finds, or makes, is an entry.                       *)
LEMMA EntryAtType ==
  ASSUME TypeOK, NEW f
  PROVE  EntryAt(f) \in Entry
BY NewEntryType DEF TypeOK, EntryAt, IsMap

(* Opening a file keeps the descriptor table's type.                       *)
LEMMA WithFileType ==
  ASSUME TypeOK, NEW c \in Conns \cup {None}
  PROVE  Tables(fdtab) /\ Tables(WithFile(c))
<1>1. Tables(fdtab)
  BY DEF TypeOK, Tables
<1>2. File(c) \in Object
  BY DEF File, Object
<1>3. FreeFd # 0 => FreeFd \in Fd
  BY FreeFdType
<1> QED BY <1>1, <1>2, <1>3, PutType DEF WithFile, Tables

-----------------------------------------------------------------------------
(* What handling an event does to the variables: only the loop's own parts *)
(* of TypeOK are left to the actions.                                      *)

Worked ==
  /\ sock' \in [Conns -> SockState]
  /\ Tables(fdtab')
  /\ ready' \subseteq Conns \cup {Listener}
  /\ IsMap(connections', Fd, Entry)
  /\ IsMap(clock', Fd, 0..2)
  /\ server' \in {"run", "crash", "spin"}
  /\ served' \subseteq (Conns \cup {None}) \X (Conns \cup {None})

(* Forgetting closed connections keeps the types.                          *)
LEMMA ForgetType ==
  ASSUME TypeOK, NEW S, Forget(S), UNCHANGED served
  PROVE  Worked
<1>1. Tables(fdtab) /\ sock \in [Conns -> SockState]
  BY DEF TypeOK, Tables
<1>2. /\ sock' \in [Conns -> SockState]
      /\ Tables(fdtab')
      /\ ready' \subseteq Conns \cup {Listener}
  BY <1>1, CloseAllType DEF Forget
<1>3. IsMap(connections', Fd, Entry) /\ IsMap(clock', Fd, 0..2)
  BY EraseType DEF Forget, TypeOK
<1> QED BY <1>2, <1>3 DEF Worked, TypeOK, Forget

(* So does applying the result of a handler's run.                         *)
LEMMA ApplyType ==
  ASSUME TypeOK, NEW f \in Fd, NEW s \in View, NEW h, NEW r \in Result,
         NEW tab, Tables(tab), NEW closing, Apply(f, s, h, r, tab, closing)
  PROVE  Worked
<1> DEFINE socks == IF s.conn = None THEN sock
                    ELSE [sock EXCEPT ![s.conn].in = r.in,
                                      ![s.conn].full = @ \/ r.full]
<1>1. socks \in [Conns -> SockState]
  <2>1. s.conn \in Conns \cup {None} /\ r.in \in Seq(Kinds) /\ r.full \in BOOLEAN
    BY DEF View, Result
  <2>2. ASSUME NEW c \in Conns
        PROVE  [sock[c] EXCEPT !.in = r.in, !.full = @ \/ r.full] \in SockState
    <3>1. sock[c] \in SockState /\ sock[c].full \in BOOLEAN
      BY DEF TypeOK, SockState
    <3>2. (sock[c].full \/ r.full) \in BOOLEAN
      OBVIOUS
    <3> QED BY <2>1, <3>1, <3>2, SockUpdates, Zenon
  <2>3. CASE s.conn = None
    BY <2>3 DEF TypeOK
  <2>4. CASE s.conn # None
    <3>1. s.conn \in Conns /\ sock \in [Conns -> SockState]
      BY <2>1, <2>4 DEF TypeOK
    <3>2. socks = [sock EXCEPT ![s.conn] =
                     [sock[s.conn] EXCEPT !.in = r.in, !.full = @ \/ r.full]]
      BY <2>4, <3>1
    <3> HIDE DEF socks
    <3> QED BY <2>2, <3>1, <3>2, ExceptType, Zenon
  <2> QED BY <2>3, <2>4
<1>2. /\ sock' \in [Conns -> SockState]
      /\ Tables(fdtab')
      /\ ready' \subseteq Conns \cup {Listener}
  BY <1>1, CloseAllType DEF Apply
<1>3. r.entry \in Entry /\ r.server \in {"run", "crash", "spin"}
  BY DEF Result
<1>4. IsMap(connections', Fd, Entry)
  BY <1>3, PutType DEF Apply, TypeOK
<1>5. IsMap(clock', Fd, 0..2)
  BY PutType DEF Apply, TypeOK
<1>6. Owner(tab, h) \in Conns \cup {None} /\ s.conn \in Conns \cup {None}
  BY DEF Owner, Tables, IsMap, Object, View
<1>7. served' \subseteq (Conns \cup {None}) \X (Conns \cup {None})
  BY <1>6 DEF Apply, TypeOK
<1> QED BY <1>2, <1>3, <1>4, <1>5, <1>7 DEF Worked, Apply

(* The table tab has the sockets that fdtab has.                           *)
SameSockets(tab) ==
  \A g, c : g \in DOMAIN tab /\ tab[g] = Socket(c)
              <=> g \in DOMAIN fdtab /\ fdtab[g] = Socket(c)

LEMMA SameTables == SameSockets(fdtab) /\ \A c : SameSockets(WithFile(c))
<1>1. \A c, d : File(c) # Socket(d)
  BY DEF File, Socket
<1>2. ASSUME NEW c, FreeFd # 0
      PROVE  SameSockets(Put(fdtab, FreeFd, File(c)))
  BY <1>1, <1>2, FreeFdType DEF SameSockets, Put
<1> QED BY <1>2 DEF SameSockets, WithFile

(* An event on f ends in the result of a handler's run being applied.      *)
Applies(f) ==
  \E s \in View, r \in Result : \E h, tab, closing :
    Tables(tab) /\ SameSockets(tab) /\ Apply(f, s, h, r, tab, closing)

(* Resuming a coroutine does, with a result of the right type.             *)
LEMMA ResumedApplies ==
  ASSUME TypeOK, NEW f \in Fd, NEW e \in Entry, Resumed(f, e)
  PROVE  Applies(f)
<1>1. e.task.file \in 0..MaxFd /\ FreeFd \in 0..MaxFd
  BY FreeFdType DEF Entry, Task
<1>2. CASE e.task.at # "next"
  <2>1. PICK s \in Views(f, e.task.file) : \E r \in Resume(e, e.task.file, s) :
          Apply(f, s, e.task.file, r, fdtab, HeldBy(e) \ HeldBy(r.entry))
    BY <1>2 DEF Resumed
  <2>2. s \in View
    BY <2>1, ViewsType
  <2>3. PICK r \in Resume(e, e.task.file, s) :
          Apply(f, s, e.task.file, r, fdtab, HeldBy(e) \ HeldBy(r.entry))
    BY <2>1
  <2>4. r \in Result
    BY <1>1, <2>2, <2>3, ResumeType
  <2>5. Tables(fdtab)
    BY DEF TypeOK, Tables
  <2> QED BY <2>2, <2>3, <2>4, <2>5, SameTables DEF Applies
<1>3. CASE e.task.at = "next"
  <2>1. PICK s \in Views(f, 0) :
          \E r \in Resume(e, FreeFd, [s EXCEPT !.file = TRUE]) :
            Apply(f, s, FreeFd, r, WithFile(s.conn), {FreeFd} \ HeldBy(r.entry))
    BY <1>3 DEF Resumed
  <2>2. s \in View /\ [s EXCEPT !.file = TRUE] \in View
    BY <2>1, ViewsType
  <2>3. PICK r \in Resume(e, FreeFd, [s EXCEPT !.file = TRUE]) :
          Apply(f, s, FreeFd, r, WithFile(s.conn), {FreeFd} \ HeldBy(r.entry))
    BY <2>1
  <2>4. r \in Result
    BY <1>1, <2>2, <2>3, ResumeType
  <2>5. Tables(WithFile(s.conn))
    BY <2>2, WithFileType DEF View
  <2> QED BY <2>2, <2>3, <2>4, <2>5, SameTables DEF Applies
<1> QED BY <1>2, <1>3

(* So does starting one, and taking a message.                             *)
LEMMA StartedApplies ==
  ASSUME TypeOK, NEW f \in Fd, NEW e \in Entry, NEW k \in Requests,
         NEW s \in Views(f, 0), Started(f, e, k, s)
  PROVE  Applies(f)
<1> DEFINE asked   == [e EXCEPT !.requests = k]
           drained == [s EXCEPT !.in = <<>>, !.file = TRUE]
<1>1. k \in Kinds
  BY DEF Requests, Kinds
<1>2. asked \in Entry
  BY <1>1, EntryUpdates
<1>3. asked.requests = k
  BY DEF Entry
<1>4. s \in View /\ drained \in View
  BY ViewsType
<1>5. FreeFd \in 0..MaxFd /\ 0 \in 0..MaxFd
  BY FreeFdType, HandlersAssumption
<1> HIDE DEF asked, drained
<1>6. /\ Start(asked, FreeFd, drained) \subseteq Result
      /\ Start(asked, 0, drained) \subseteq Result
  BY <1>1, <1>2, <1>3, <1>4, <1>5, StartType
<1>7. Tables(fdtab) /\ Tables(WithFile(s.conn))
  BY <1>4, WithFileType DEF View
<1>8. CASE k = "mesg"
  <2>1. PICK r \in Start(asked, 0, drained) : Apply(f, s, 0, r, fdtab, {})
    BY <1>8 DEF Started, asked, drained
  <2> QED BY <2>1, <1>4, <1>6, <1>7, SameTables DEF Applies
<1>9. CASE k # "mesg"
  <2>1. PICK r \in Start(asked, FreeFd, drained) :
          Apply(f, s, FreeFd, r, WithFile(s.conn),
                HeldBy(e) \cup ({FreeFd} \ HeldBy(r.entry)))
    BY <1>9 DEF Started, asked, drained
  <2> QED BY <2>1, <1>4, <1>6, <1>7, SameTables DEF Applies
<1> QED BY <1>8, <1>9

-----------------------------------------------------------------------------
(* The actions.                                                            *)

(* The clients change one socket, and what epoll has ready.                *)
LEMMA ClientType ==
  ASSUME TypeOK, Client
  PROVE  TypeOK'
<1>1. /\ sock' \in [Conns -> SockState]
      /\ ready' \subseteq Conns \cup {Listener}
      /\ fdtab' = fdtab
  <2>1. PICK c \in Conns : \/ Connect(c)
                           \/ \E k \in Sendable : Send(c, k)
                           \/ \E how \in {"fin", "rst"} : Leaving(c, how)
                           \/ Drain(c)
    BY ReactorAssumption DEF Client
  <2>2. sock[c] \in SockState /\ sock \in [Conns -> SockState]
    BY DEF TypeOK
  <2>3. CASE Connect(c)
    <3>1. [sock[c] EXCEPT !.at = "backlog"] \in SockState
      BY <2>2 DEF SockState
    <3> QED BY <2>2, <2>3, <3>1, ExceptType, Zenon DEF Connect, TypeOK
  <2>4. ASSUME NEW k \in Sendable, Send(c, k)
        PROVE  /\ sock' \in [Conns -> SockState]
               /\ ready' \subseteq Conns \cup {Listener}
               /\ fdtab' = fdtab
    <3> DEFINE q == Append(sock[c].in, k)
    <3>1. k \in Kinds
      BY ReactorAssumption
    <3>2. q \in Seq(Kinds)
      BY <2>2, <3>1 DEF SockState
    <3>3. sock' = [sock EXCEPT ![c] = [sock[c] EXCEPT !.in = q, !.asked = k]]
      BY <2>2, <2>4, Zenon DEF Send
    <3> HIDE DEF q
    <3>4. [sock[c] EXCEPT !.in = q, !.asked = k] \in SockState
      BY <2>2, <3>1, <3>2 DEF SockState
    <3>5. sock' \in [Conns -> SockState]
      BY <2>2, <3>3, <3>4, ExceptType, Zenon
    <3> QED BY <2>4, <3>5 DEF Send, Wake, TypeOK
  <2>5. ASSUME NEW how \in {"fin", "rst"}, Leaving(c, how)
        PROVE  /\ sock' \in [Conns -> SockState]
               /\ ready' \subseteq Conns \cup {Listener}
               /\ fdtab' = fdtab
    <3>1. [sock[c] EXCEPT !.peer = how] \in SockState
      BY <2>2 DEF SockState
    <3>2. sock' \in [Conns -> SockState]
      BY <2>2, <2>5, <3>1, ExceptType, Zenon DEF Leaving
    <3> QED BY <2>5, <3>2 DEF Leaving, Wake, TypeOK
  <2>6. CASE Drain(c)
    <3>1. [sock[c] EXCEPT !.full = FALSE] \in SockState
      BY <2>2 DEF SockState
    <3>2. sock' \in [Conns -> SockState]
      BY <2>2, <2>6, <3>1, ExceptType, Zenon DEF Drain
    <3> QED BY <2>6, <3>2 DEF Drain, Wake, TypeOK
  <2> QED BY <2>1, <2>3, <2>4, <2>5, <2>6
<1>2. UNCHANGED <<batch, connections, clock, server, alarm, active, refused, served>>
  BY DEF Client, process
<1> QED BY <1>1, <1>2 DEF TypeOK

LEMMA AlarmType ==
  ASSUME TypeOK, Alarm
  PROVE  TypeOK'
<1>1. IsMap(clock', Fd, 0..2)
  BY DEF Alarm, TypeOK, IsMap
<1>2. alarm' \in [sent: 0..MaxAlarms, pending: BOOLEAN, stray: BOOLEAN]
  <2>1. alarm.sent \in 0..MaxAlarms /\ alarm.sent < MaxAlarms
    BY DEF Alarm, TypeOK
  <2>2. alarm.sent + 1 \in 0..MaxAlarms
    BY <2>1, ReactorAssumption
  <2> QED BY <2>2 DEF Alarm, TypeOK
<1> QED BY <1>1, <1>2 DEF Alarm, TypeOK, kernel

LEMMA EpollWaitType ==
  ASSUME TypeOK, EpollWait
  PROVE  TypeOK'
<1>1. /\ ready' \subseteq Conns \cup {Listener}
      /\ batch' \in [Fd \cup {Listener, SigPipe} -> SUBSET {"IN", "OUT", "HUP"}]
      /\ refused' \in BOOLEAN
  BY DEF EpollWait, TypeOK, Mask
<1> QED BY <1>1 DEF EpollWait, TypeOK, process

LEMMA AcceptType ==
  ASSUME TypeOK, Accept
  PROVE  TypeOK'
<1>1. PICK c \in Conns :
        /\ sock[c].at = "backlog"
        /\ sock'        = [sock EXCEPT ![c].at = "accepted"]
        /\ fdtab'       = Put(fdtab, FreeFd, Socket(c))
        /\ ready'       = ready \cup {c}
        /\ connections' = Put(connections, FreeFd, EntryAt(FreeFd))
        /\ clock'       = Put(clock, FreeFd, 0)
        /\ active'      = active \cup {c}
  BY DEF Accept
<1>2. FreeFd \in Fd
  BY FreeFdType DEF Accept
<1>3. Socket(c) \in Object /\ EntryAt(FreeFd) \in Entry
  BY EntryAtType DEF Socket, Object
<1>4. sock' \in [Conns -> SockState]
  <2>1. sock[c] \in SockState /\ sock \in [Conns -> SockState]
    BY DEF TypeOK
  <2>2. [sock[c] EXCEPT !.at = "accepted"] \in SockState
    BY <2>1 DEF SockState
  <2> QED BY <1>1, <2>1, <2>2, ExceptType, Zenon
<1>5. /\ IsMap(fdtab', Fd, Object)
      /\ IsMap(connections', Fd, Entry)
      /\ IsMap(clock', Fd, 0..2)
  BY <1>1, <1>2, <1>3, PutType DEF TypeOK
<1> QED BY <1>1, <1>4, <1>5 DEF Accept, TypeOK

(* Emptying one place of the array.                                        *)
LEMMA HandledType ==
  ASSUME TypeOK, NEW x, Handled(x)
  PROVE  batch' \in [Fd \cup {Listener, SigPipe} -> SUBSET {"IN", "OUT", "HUP"}]
BY DEF TypeOK, Handled

LEMMA AcceptEndType ==
  ASSUME TypeOK, AcceptEnd
  PROVE  TypeOK'
<1>1. refused' \in BOOLEAN
  BY DEF AcceptEnd, TypeOK
<1> QED BY <1>1, HandledType DEF AcceptEnd, TypeOK, kernel, process

LEMMA HangupType ==
  ASSUME TypeOK, NEW f \in Fd, Hangup(f)
  PROVE  TypeOK'
<1>1. Worked
  BY ForgetType DEF Hangup
<1> QED BY <1>1, HandledType DEF Hangup, Worked, Tables, TypeOK

LEMMA TickType ==
  ASSUME TypeOK, Tick
  PROVE  TypeOK'
<1>1. Worked
  BY ForgetType DEF Tick
<1>2. alarm' \in [sent: 0..MaxAlarms, pending: BOOLEAN, stray: BOOLEAN]
  <2>1. \A b \in BOOLEAN : [alarm EXCEPT !.pending = FALSE, !.stray = b]
                             \in [sent: 0..MaxAlarms, pending: BOOLEAN, stray: BOOLEAN]
    BY DEF TypeOK
  <2>2. \A S : (alarm.stray \/ Strays(S)) \in BOOLEAN
    OBVIOUS
  <2> QED BY <2>1, <2>2, Zenon DEF Tick
<1> QED BY <1>1, <1>2, HandledType DEF Tick, Worked, Tables, TypeOK

(* An event is noted for a connection only.                                *)
LEMMA TouchedType ==
  ASSUME TypeOK, NEW f, Touched(f)
  PROVE  active' \subseteq Conns
BY DEF TypeOK, Touched, IsSocket, IsMap, Object

LEMMA ReadableType ==
  ASSUME TypeOK, NEW f \in Fd, Readable(f)
  PROVE  TypeOK'
<1>1. EntryAt(f) \in Entry
  BY EntryAtType
<1>2. Worked
  <2>1. CASE EntryAt(f).is_read_awaiting
    BY <1>1, <2>1, ResumedApplies, ApplyType DEF Applies, Readable
  <2>2. CASE ~EntryAt(f).is_read_awaiting
    <3>1. PICK s \in Views(f, 0) : \E k \in decide_action(EntryAt(f), s) :
            IF k = None THEN Forget({f}) /\ UNCHANGED served
            ELSE Started(f, EntryAt(f), k, s)
      BY <2>2 DEF Readable
    <3>2. s \in View
      BY <3>1, ViewsType
    <3>3. PICK k \in Requests \cup {None} :
            IF k = None THEN Forget({f}) /\ UNCHANGED served
            ELSE Started(f, EntryAt(f), k, s)
      BY <1>1, <3>1, <3>2, DecideType
    <3> QED BY <1>1, <3>1, <3>3, ForgetType, StartedApplies, ApplyType DEF Applies
  <2> QED BY <2>1, <2>2
<1> QED BY <1>2, HandledType, TouchedType DEF Readable, Worked, Tables, TypeOK

LEMMA WritableType ==
  ASSUME TypeOK, NEW f \in Fd, Writable(f)
  PROVE  TypeOK'
<1>1. EntryAt(f) \in Entry
  BY EntryAtType
<1>2. Worked
  <2>1. CASE EntryAt(f).is_write_awaiting
    BY <1>1, <2>1, ResumedApplies, ApplyType DEF Applies, Writable
  <2>2. CASE ~EntryAt(f).is_write_awaiting
    <3>1. /\ connections' = Put(connections, f, EntryAt(f))
          /\ clock'       = Put(clock, f, 0)
          /\ UNCHANGED <<kernel, server, served>>
      BY <2>2 DEF Writable
    <3>2. IsMap(connections', Fd, Entry) /\ IsMap(clock', Fd, 0..2)
      BY <1>1, <3>1, PutType DEF TypeOK
    <3> QED BY <3>1, <3>2 DEF Worked, Tables, TypeOK, kernel
  <2> QED BY <2>1, <2>2
<1> QED BY <1>2, HandledType, TouchedType DEF Writable, Worked, Tables, TypeOK

(* Every step keeps the types.                                             *)
LEMMA TypeStep == TypeOK /\ [Next]_vars => TypeOK'
<1> SUFFICES ASSUME TypeOK, [Next]_vars PROVE TypeOK'
  OBVIOUS
<1>1. CASE UNCHANGED vars
  BY <1>1 DEF vars, TypeOK
<1>2. CASE Next
  BY <1>2, ClientType, AlarmType, EpollWaitType, AcceptType, AcceptEndType,
     TickType, HangupType, ReadableType, WritableType DEF Next, Loop
<1> QED BY <1>1, <1>2

LEMMA TypeInit == Init => TypeOK
<1> SUFFICES ASSUME Init PROVE TypeOK
  OBVIOUS
<1>1. NewSock \in SockState
  BY EmptySeq DEF NewSock, SockState
<1>2. /\ IsMap(fdtab, Fd, Object)
      /\ IsMap(connections, Fd, Entry)
      /\ IsMap(clock, Fd, 0..2)
  BY DEF Init, IsMap
<1>3. alarm \in [sent: 0..MaxAlarms, pending: BOOLEAN, stray: BOOLEAN]
  BY ReactorAssumption DEF Init
<1> QED BY <1>1, <1>2, <1>3 DEF Init, TypeOK

(* Type correctness: the loop keeps its tables partial maps on the         *)
(* descriptor numbers, its entries entries and its sockets sockets.        *)
THEOREM TypeCorrect == Spec => []TypeOK
<1>1. Init => TypeOK
  BY TypeInit
<1>2. TypeOK /\ [Next]_vars => TypeOK'
  BY TypeStep
<1> QED BY <1>1, <1>2, PTL DEF Spec

-----------------------------------------------------------------------------
(* The sockets of the table: the strengthening the safety properties need. *)

(* A connection has at most one number, and only once it was accepted.     *)
OneNumber ==
  \A f, g \in DOMAIN fdtab : \A c \in Conns :
    fdtab[f] = Socket(c) /\ fdtab[g] = Socket(c) => f = g

OnlyAccepted ==
  \A f \in DOMAIN fdtab : \A c \in Conns :
    fdtab[f] = Socket(c) => sock[c].at = "accepted"

IInv == /\ TypeOK
        /\ OneNumber
        /\ OnlyAccepted
        /\ Reapable
        /\ HangupPending
        /\ NoStrandedBacklog
        /\ FreshTimer

(* What working on events leaves of the sockets that stay open, and of the *)
(* listening socket.                                                       *)
SocketsKept ==
  /\ \A g \in DOMAIN fdtab', c \in Conns :
       fdtab'[g] = Socket(c)
         => /\ g \in DOMAIN fdtab /\ fdtab[g] = Socket(c)
            /\ sock'[c].peer = sock[c].peer
            /\ sock'[c].at = sock[c].at
            /\ c \in ready => c \in ready'
  /\ \A c \in Conns : sock'[c].at = "backlog" => sock[c].at = "backlog"
  /\ Listener \in ready => Listener \in ready'

TimersKept ==
  \A g \in DOMAIN fdtab', c \in Conns :
    fdtab'[g] = Socket(c)
      => /\ g \in DOMAIN connections => g \in DOMAIN connections'
         /\ g \in DOMAIN clock => g \in DOMAIN clock'
         /\ g \in DOMAIN clock /\ clock[g] = 0 => clock'[g] = 0

(* The event on f gave its connection, if it is still open, a new timer.   *)
Renewed(f) == f \in DOMAIN fdtab' => f \in DOMAIN clock' /\ clock'[f] = 0

LEMMA CloseAllKeeps ==
  ASSUME TypeOK, OneNumber, NEW tab, SameSockets(tab),
         NEW socks \in [Conns -> SockState],
         \A c \in Conns : socks[c].peer = sock[c].peer /\ socks[c].at = sock[c].at,
         NEW S, CloseAll(tab, socks, S)
  PROVE  SocketsKept /\ DOMAIN fdtab' = DOMAIN tab \ S
<1>1. /\ DOMAIN fdtab' = DOMAIN tab \ S
      /\ \A g \in DOMAIN fdtab' : fdtab'[g] = tab[g]
  BY DEF CloseAll, Erase, Restrict
<1>2. ASSUME NEW g \in DOMAIN fdtab', NEW c \in Conns, fdtab'[g] = Socket(c)
      PROVE  /\ g \in DOMAIN fdtab /\ fdtab[g] = Socket(c)
             /\ sock'[c].peer = sock[c].peer
             /\ sock'[c].at = sock[c].at
             /\ c \in ready => c \in ready'
  <2>1. g \in DOMAIN fdtab /\ fdtab[g] = Socket(c) /\ g \notin S
    BY <1>1, <1>2 DEF SameSockets
  <2>2. c \notin ClosedBy(tab, S)
    BY <2>1 DEF ClosedBy, SameSockets, OneNumber
  <2>3. sock'[c] = socks[c] /\ (c \in ready => c \in ready')
    BY <2>2 DEF CloseAll
  <2> QED BY <2>1, <2>3
<1>3. \A c \in Conns : sock'[c].at = "backlog" => sock[c].at = "backlog"
  <2>1. \A c \in Conns : sock'[c] = socks[c] \/ sock'[c] = ClosedSock
    BY DEF CloseAll
  <2>2. ClosedSock.at = "closed"
    BY DEF ClosedSock, NewSock
  <2> QED BY <2>1, <2>2
<1>4. Listener \in ready => Listener \in ready'
  BY ReactorAssumption DEF CloseAll, ClosedBy
<1> QED BY <1>1, <1>2, <1>3, <1>4 DEF SocketsKept

LEMMA ForgetKeeps ==
  ASSUME TypeOK, OneNumber, NEW S, Forget(S)
  PROVE  SocketsKept /\ TimersKept /\ \A f \in S : Renewed(f)
<1>1. sock \in [Conns -> SockState]
  BY DEF TypeOK
<1> DEFINE T == S \cup UNION {HeldBy(connections[f]) : f \in S \cap DOMAIN connections}
<1>2. SocketsKept /\ DOMAIN fdtab' = DOMAIN fdtab \ T
  <2>1. CloseAll(fdtab, sock, T)
    BY DEF Forget
  <2> HIDE DEF T
  <2> QED BY <1>1, <2>1, CloseAllKeeps, SameTables
<1>3. TimersKept
  BY <1>2, Zenon DEF Forget, Erase, Restrict, TimersKept
<1> QED BY <1>2, <1>3 DEF Renewed

LEMMA ApplyKeeps ==
  ASSUME TypeOK, OneNumber, NEW f \in Fd, NEW s \in View, NEW h,
         NEW r \in Result, NEW tab, SameSockets(tab), NEW closing,
         Apply(f, s, h, r, tab, closing)
  PROVE  SocketsKept /\ TimersKept /\ Renewed(f)
<1> DEFINE socks == IF s.conn = None THEN sock
                    ELSE [sock EXCEPT ![s.conn].in = r.in,
                                      ![s.conn].full = @ \/ r.full]
<1>1. /\ socks \in [Conns -> SockState]
      /\ \A c \in Conns : socks[c].peer = sock[c].peer /\ socks[c].at = sock[c].at
  <2>1. CASE s.conn = None
    BY <2>1 DEF TypeOK
  <2>2. CASE s.conn # None
    <3> DEFINE b == sock[s.conn].full \/ r.full
               x == [sock[s.conn] EXCEPT !.in = r.in, !.full = b]
    <3>1. s.conn \in Conns /\ r.in \in Seq(Kinds) /\ r.full \in BOOLEAN
      BY <2>2 DEF View, Result
    <3>2. sock \in [Conns -> SockState] /\ sock[s.conn] \in SockState
      BY <3>1 DEF TypeOK
    <3>3. socks = [sock EXCEPT ![s.conn] = x]
      BY <2>2, <3>2, Zenon
    <3>4. b \in BOOLEAN
      OBVIOUS
    <3> HIDE DEF b
    <3>5. x \in SockState
      BY <3>1, <3>2, <3>4, SockUpdates, Zenon
    <3>6. x.peer = sock[s.conn].peer /\ x.at = sock[s.conn].at
      BY <3>2 DEF SockState
    <3> HIDE DEF x, socks
    <3>7. socks \in [Conns -> SockState]
      BY <3>2, <3>3, <3>5, ExceptType, Zenon
    <3>8. \A c \in Conns : socks[c].peer = sock[c].peer /\ socks[c].at = sock[c].at
      BY <3>2, <3>3, <3>6
    <3> QED BY <3>7, <3>8
  <2> QED BY <2>1, <2>2
<1>2. SocketsKept
  BY <1>1, CloseAllKeeps DEF Apply
<1>3. TimersKept /\ Renewed(f)
  BY DEF Apply, Put, TimersKept, Renewed
<1> QED BY <1>2, <1>3

LEMMA ReadableKeeps ==
  ASSUME TypeOK, OneNumber, NEW f \in Fd, Readable(f)
  PROVE  SocketsKept /\ TimersKept /\ Renewed(f)
<1>1. EntryAt(f) \in Entry
  BY EntryAtType
<1>2. CASE EntryAt(f).is_read_awaiting
  <2>1. Applies(f)
    BY <1>1, <1>2, ResumedApplies DEF Readable
  <2> QED BY <2>1, ApplyKeeps DEF Applies
<1>3. CASE ~EntryAt(f).is_read_awaiting
  <2>1. PICK s \in Views(f, 0) : \E k \in decide_action(EntryAt(f), s) :
          IF k = None THEN Forget({f}) /\ UNCHANGED served
          ELSE Started(f, EntryAt(f), k, s)
    BY <1>3 DEF Readable
  <2>2. s \in View
    BY <2>1, ViewsType
  <2>3. PICK k \in Requests \cup {None} :
          IF k = None THEN Forget({f}) /\ UNCHANGED served
          ELSE Started(f, EntryAt(f), k, s)
    BY <1>1, <2>1, <2>2, DecideType
  <2>4. CASE k = None
    BY <2>3, <2>4, ForgetKeeps
  <2>5. CASE k # None
    <3>1. Applies(f)
      BY <1>1, <2>1, <2>3, <2>5, StartedApplies
    <3> QED BY <3>1, ApplyKeeps DEF Applies
  <2> QED BY <2>4, <2>5
<1> QED BY <1>2, <1>3

LEMMA WritableKeeps ==
  ASSUME TypeOK, OneNumber, NEW f \in Fd, Writable(f)
  PROVE  SocketsKept /\ TimersKept /\ Renewed(f)
<1>1. EntryAt(f) \in Entry
  BY EntryAtType
<1>2. CASE EntryAt(f).is_write_awaiting
  <2>1. Applies(f)
    BY <1>1, <1>2, ResumedApplies DEF Writable
  <2> QED BY <2>1, ApplyKeeps DEF Applies
<1>3. CASE ~EntryAt(f).is_write_awaiting
  <2>1. /\ connections' = Put(connections, f, EntryAt(f))
        /\ clock'       = Put(clock, f, 0)
        /\ UNCHANGED <<sock, fdtab, ready>>
    BY <1>3 DEF Writable, kernel
  <2> QED BY <2>1 DEF Put, SocketsKept, TimersKept, Renewed
<1> QED BY <1>2, <1>3

-----------------------------------------------------------------------------
(* The inductive invariant.                                                *)

LEMMA IInvInit == Init => IInv
<1> SUFFICES ASSUME Init PROVE IInv
  OBVIOUS
<1>1. DOMAIN fdtab = {}
  BY DEF Init
<1>2. \A c \in Conns : sock[c].at = "new"
  BY DEF Init, NewSock
<1> QED BY <1>1, <1>2, TypeInit
        DEF IInv, OneNumber, OnlyAccepted, Reapable, HangupPending,
            NoStrandedBacklog, FreshTimer

(* Clients connect, send, leave and read on; whatever they do that matters *)
(* puts their socket, or the listening socket, on the ready list.          *)
LEMMA ClientStep ==
  ASSUME IInv, Client
  PROVE  IInv'
<1>1. TypeOK /\ TypeOK'
  BY ClientType DEF IInv
<1>2. /\ fdtab' = fdtab
      /\ UNCHANGED <<batch, connections, clock, active, refused>>
      /\ ready \subseteq ready'
  BY DEF Client, process, Connect, Send, Leaving, Drain, Wake
<1>3. PICK c \in Conns : \/ Connect(c)
                         \/ \E k \in Sendable : Send(c, k)
                         \/ \E how \in {"fin", "rst"} : Leaving(c, how)
                         \/ Drain(c)
  BY ReactorAssumption DEF Client
<1>4. sock \in [Conns -> SockState] /\ sock[c] \in SockState
  BY <1>1 DEF TypeOK
<1>5. /\ \A d \in Conns : d # c => sock'[d] = sock[d]
      /\ sock'[c].at = sock[c].at \/ Connect(c)
      /\ sock'[c].peer = sock[c].peer \/ (Open(c) => c \in ready')
  <2>1. CASE Connect(c)
    BY <1>4, <2>1 DEF Connect, SockState
  <2>2. ASSUME NEW k \in Sendable, Send(c, k)
        PROVE  /\ \A d \in Conns : d # c => sock'[d] = sock[d]
               /\ sock'[c].at = sock[c].at
               /\ sock'[c].peer = sock[c].peer
    <3> DEFINE q == Append(sock[c].in, k)
               x == [sock[c] EXCEPT !.in = q, !.asked = k]
    <3>1. sock' = [sock EXCEPT ![c] = x]
      BY <1>4, <2>2, Zenon DEF Send
    <3>2. x.at = sock[c].at /\ x.peer = sock[c].peer
      <4> HIDE DEF q
      <4> QED BY <1>4 DEF SockState
    <3> HIDE DEF x
    <3> QED BY <1>4, <3>1, <3>2
  <2>3. ASSUME NEW how \in {"fin", "rst"}, Leaving(c, how)
        PROVE  /\ \A d \in Conns : d # c => sock'[d] = sock[d]
               /\ sock'[c].at = sock[c].at
               /\ Open(c) => c \in ready'
    BY <1>4, <2>3 DEF Leaving, Wake, SockState
  <2>4. CASE Drain(c)
    BY <1>4, <2>4 DEF Drain, SockState
  <2> QED BY <1>3, <2>1, <2>2, <2>3, <2>4
<1>6. Connect(c) => /\ sock[c].at = "new" /\ sock'[c].at = "backlog"
                    /\ Listener \in ready'
  BY <1>4 DEF Connect, SockState
<1>7. OneNumber' /\ Reapable' /\ FreshTimer'
  BY <1>2 DEF IInv, OneNumber, Reapable, FreshTimer
<1>8. OnlyAccepted'
  BY <1>2, <1>5, <1>6 DEF IInv, OnlyAccepted
<1>9. HangupPending'
  <2>1. \A f \in DOMAIN fdtab : fdtab[f] = Socket(c) => Open(c)
    BY DEF Open
  <2> QED BY <1>2, <1>5, <2>1 DEF IInv, HangupPending
<1>10. NoStrandedBacklog'
  BY <1>2, <1>5, <1>6 DEF IInv, NoStrandedBacklog
<1> QED BY <1>1, <1>7, <1>8, <1>9, <1>10 DEF IInv

LEMMA AlarmStep ==
  ASSUME IInv, Alarm
  PROVE  IInv'
<1>1. TypeOK'
  BY AlarmType DEF IInv
<1>2. /\ UNCHANGED <<sock, fdtab, ready, batch, connections, refused>>
      /\ active' = {}
      /\ DOMAIN clock' = DOMAIN clock
  BY DEF Alarm, kernel
<1> QED BY <1>1, <1>2 DEF IInv, OneNumber, OnlyAccepted, Reapable,
           HangupPending, NoStrandedBacklog, FreshTimer

(* epoll_wait moves what it reports from the ready list into the array,    *)
(* with the hang-up a socket has by then.                                  *)
LEMMA EpollWaitStep ==
  ASSUME IInv, EpollWait
  PROVE  IInv'
<1>1. TypeOK /\ TypeOK'
  BY EpollWaitType DEF IInv
<1>2. UNCHANGED <<sock, fdtab, connections, clock, active>>
  BY DEF EpollWait, process
<1>3. PICK some :
       /\ ready' = ready \ some
       /\ batch' = [s \in DOMAIN batch |->
            IF s \in Fd
            THEN IF IsSocket(s) /\ fdtab[s].conn \in some
                 THEN Mask(fdtab[s].conn) ELSE {}
            ELSE IF s \notin some THEN {}
            ELSE IF s = Listener /\ \A c \in Conns : sock[c].at # "backlog"
            THEN {} ELSE {"IN"}]
       /\ refused' = (refused /\ Listener \notin some)
  BY DEF EpollWait
<1>4. /\ DOMAIN batch = Fd \cup {Listener, SigPipe}
      /\ \A s \in DOMAIN batch : batch[s] = {}
      /\ DOMAIN fdtab \subseteq Fd
  BY <1>1 DEF TypeOK, IsMap, EpollWait, Idle
<1>5. OneNumber' /\ OnlyAccepted' /\ Reapable' /\ FreshTimer'
  BY <1>2 DEF IInv, OneNumber, OnlyAccepted, Reapable, FreshTimer
<1>6. HangupPending'
  <2> SUFFICES ASSUME NEW f \in DOMAIN fdtab, NEW c \in Conns,
                      fdtab[f] = Socket(c), sock[c].peer # "up"
               PROVE  c \in ready' \/ "HUP" \in batch'[f]
    BY <1>2 DEF HangupPending
  <2>1. c \in ready
    BY <1>4 DEF IInv, HangupPending
  <2>2. IsSocket(f) /\ fdtab[f].conn = c
    BY DEF IsSocket, Socket
  <2>3. c \in some => batch'[f] = Mask(c)
    BY <1>3, <1>4, <2>2
  <2>4. "HUP" \in Mask(c)
    BY DEF Mask
  <2> QED BY <1>3, <2>1, <2>3, <2>4
<1>7. NoStrandedBacklog'
  <2> SUFFICES ASSUME NEW c \in Conns, sock[c].at = "backlog"
               PROVE  Listener \in ready' \/ batch'[Listener] # {} \/ refused'
    BY <1>2 DEF NoStrandedBacklog
  <2>1. Listener \in ready \/ refused
    BY <1>4 DEF IInv, NoStrandedBacklog
  <2>2. CASE Listener \in some
    <3>1. batch'[Listener] = {"IN"}
      BY <1>3, <1>4, <2>2, ReactorAssumption
    <3> QED BY <3>1
  <2>3. CASE Listener \notin some
    BY <1>3, <2>1, <2>3
  <2> QED BY <2>2, <2>3
<1> QED BY <1>1, <1>5, <1>6, <1>7 DEF IInv

LEMMA AcceptStep ==
  ASSUME IInv, Accept
  PROVE  IInv'
<1>1. TypeOK /\ TypeOK'
  BY AcceptType DEF IInv
<1>2. PICK c \in Conns :
        /\ sock[c].at = "backlog"
        /\ sock'        = [sock EXCEPT ![c].at = "accepted"]
        /\ fdtab'       = Put(fdtab, FreeFd, Socket(c))
        /\ ready'       = ready \cup {c}
        /\ connections' = Put(connections, FreeFd, EntryAt(FreeFd))
        /\ clock'       = Put(clock, FreeFd, 0)
        /\ active'      = active \cup {c}
  BY DEF Accept
<1>3. batch[Listener] # {} /\ UNCHANGED <<batch, refused>>
  BY DEF Accept
<1>4. FreeFd \in Fd \ DOMAIN fdtab
  BY FreeFdType DEF Accept
<1> DEFINE n == FreeFd
<1>5. /\ sock \in [Conns -> SockState] /\ sock[c] \in SockState
      /\ \A d \in Conns : d # c => sock'[d] = sock[d]
      /\ sock'[c].at = "accepted"
  BY <1>1, <1>2 DEF TypeOK, SockState
<1>6. \A d \in Conns : sock'[d].peer = sock[d].peer
  BY <1>2, <1>5 DEF SockState
<1> HIDE DEF n
<1>7. /\ DOMAIN fdtab' = DOMAIN fdtab \cup {n} /\ fdtab'[n] = Socket(c)
      /\ \A g \in DOMAIN fdtab : g # n /\ fdtab'[g] = fdtab[g]
      /\ DOMAIN connections' = DOMAIN connections \cup {n}
      /\ DOMAIN clock' = DOMAIN clock \cup {n} /\ clock'[n] = 0
      /\ \A g \in DOMAIN clock : g # n => clock'[g] = clock[g]
  BY <1>2, <1>4 DEF Put, n
<1>8. \A d \in Conns : Socket(d) = Socket(c) => d = c
  BY DEF Socket
<1>9. \A g \in DOMAIN fdtab : fdtab[g] # Socket(c)
  BY <1>2 DEF IInv, OnlyAccepted
<1>10. OneNumber'
  BY <1>7, <1>8, <1>9 DEF IInv, OneNumber
<1>11. OnlyAccepted'
  BY <1>5, <1>7, <1>8, <1>9 DEF IInv, OnlyAccepted
<1>12. Reapable'
  BY <1>7 DEF IInv, Reapable
<1>13. HangupPending'
  BY <1>2, <1>3, <1>6, <1>7, <1>8 DEF IInv, HangupPending
<1>14. NoStrandedBacklog'
  BY <1>3 DEF NoStrandedBacklog
<1>15. FreshTimer'
  BY <1>2, <1>7, <1>8, <1>9 DEF IInv, FreshTimer
<1> QED BY <1>1, <1>10, <1>11, <1>12, <1>13, <1>14, <1>15 DEF IInv

(* The accept loop ends with an empty backlog, or is noted as refused.     *)
LEMMA AcceptEndStep ==
  ASSUME IInv, AcceptEnd
  PROVE  IInv'
<1>1. TypeOK /\ TypeOK'
  BY AcceptEndType DEF IInv
<1>2. UNCHANGED <<sock, fdtab, ready, connections, clock, active>>
  BY DEF AcceptEnd, kernel, process
<1>3. \A f \in DOMAIN fdtab : batch'[f] = batch[f]
  BY <1>1, ReactorAssumption DEF AcceptEnd, Handled, TypeOK, IsMap
<1>4. (\A c \in Conns : sock[c].at # "backlog") \/ refused'
  BY DEF AcceptEnd
<1>5. OneNumber' /\ OnlyAccepted' /\ Reapable' /\ FreshTimer'
  BY <1>2 DEF IInv, OneNumber, OnlyAccepted, Reapable, FreshTimer
<1>6. HangupPending'
  BY <1>2, <1>3 DEF IInv, HangupPending
<1>7. NoStrandedBacklog'
  BY <1>2, <1>4 DEF NoStrandedBacklog
<1> QED BY <1>1, <1>5, <1>6, <1>7 DEF IInv

(* What working on the event of x, a number or the pipe, keeps of the      *)
(* invariant: everything about sockets that stay open, provided the array  *)
(* only loses the event of x and x had no unhandled hang-up.               *)
LEMMA WorkStep ==
  ASSUME IInv, SocketsKept, TimersKept, NEW x \in Fd \cup {SigPipe},
         Handled(x), x \in DOMAIN fdtab' => "HUP" \notin batch[x],
         UNCHANGED refused
  PROVE  /\ OneNumber' /\ OnlyAccepted' /\ Reapable'
         /\ HangupPending' /\ NoStrandedBacklog'
<1>1. /\ DOMAIN batch = Fd \cup {Listener, SigPipe}
      /\ \A s \in DOMAIN batch : s # x => batch'[s] = batch[s]
      /\ x # Listener
  BY ReactorAssumption DEF Handled, IInv, TypeOK
<1>2. OneNumber' /\ OnlyAccepted'
  BY DEF IInv, SocketsKept, OneNumber, OnlyAccepted
<1>3. Reapable'
  BY DEF IInv, SocketsKept, TimersKept, Reapable
<1>4. HangupPending'
  <2> SUFFICES ASSUME NEW g \in DOMAIN fdtab', NEW c \in Conns,
                      fdtab'[g] = Socket(c), sock'[c].peer # "up"
               PROVE  c \in ready' \/ "HUP" \in batch'[g]
    BY DEF HangupPending
  <2>1. /\ g \in DOMAIN fdtab /\ fdtab[g] = Socket(c)
        /\ sock[c].peer # "up"
        /\ c \in ready => c \in ready'
    BY DEF SocketsKept
  <2>2. c \in ready \/ "HUP" \in batch[g]
    BY <2>1 DEF IInv, HangupPending
  <2>3. g \in DOMAIN batch
    BY <1>1, <2>1 DEF IInv, TypeOK, IsMap
  <2> QED BY <1>1, <2>1, <2>2, <2>3
<1>5. NoStrandedBacklog'
  BY <1>1 DEF IInv, SocketsKept, NoStrandedBacklog
<1> QED BY <1>2, <1>3, <1>4, <1>5

LEMMA HangupStep ==
  ASSUME IInv, NEW f \in Fd, Hangup(f)
  PROVE  IInv'
<1>1. TypeOK /\ TypeOK' /\ OneNumber
  BY HangupType DEF IInv
<1>2. SocketsKept /\ TimersKept
  BY <1>1, ForgetKeeps DEF Hangup
<1>3. f \notin DOMAIN fdtab'
  BY DEF Hangup, Forget, CloseAll, Erase, Restrict
<1>4. UNCHANGED <<refused, active>> /\ Handled(f)
  BY DEF Hangup
<1>5. FreshTimer'
  <2>1. active' = active /\ active \subseteq Conns
    BY <1>1, <1>4 DEF TypeOK
  <2> QED BY <1>2, <2>1 DEF IInv, SocketsKept, TimersKept, FreshTimer
<1> QED BY <1>1, <1>2, <1>3, <1>4, <1>5, WorkStep DEF IInv

LEMMA TickStep ==
  ASSUME IInv, Tick
  PROVE  IInv'
<1>1. TypeOK /\ TypeOK' /\ OneNumber
  BY TickType DEF IInv
<1>2. SocketsKept /\ TimersKept
  BY <1>1, ForgetKeeps DEF Tick
<1>3. SigPipe \notin DOMAIN fdtab'
  BY <1>1, ReactorAssumption DEF TypeOK, IsMap
<1>4. UNCHANGED <<refused, active>> /\ Handled(SigPipe)
  BY DEF Tick
<1>5. FreshTimer'
  <2>1. active' = active /\ active \subseteq Conns
    BY <1>1, <1>4 DEF TypeOK
  <2> QED BY <1>2, <2>1 DEF IInv, SocketsKept, TimersKept, FreshTimer
<1> QED BY <1>1, <1>2, <1>3, <1>4, <1>5, WorkStep DEF IInv

(* The events that renew the timer of their connection.                    *)
LEMMA EventStep ==
  ASSUME IInv, NEW f \in Fd, Readable(f) \/ Writable(f)
  PROVE  IInv'
<1>1. TypeOK /\ TypeOK' /\ OneNumber
  BY ReadableType, WritableType DEF IInv
<1>2. SocketsKept /\ TimersKept /\ Renewed(f)
  BY <1>1, ReadableKeeps, WritableKeeps
<1>3. "HUP" \notin batch[f] /\ UNCHANGED refused /\ Handled(f) /\ Touched(f)
  BY DEF Readable, Writable
<1>4. FreshTimer'
  <2> SUFFICES ASSUME NEW g \in DOMAIN fdtab', NEW c \in active',
                      fdtab'[g] = Socket(c)
               PROVE  g \in DOMAIN clock' /\ clock'[g] = 0
    BY DEF FreshTimer
  <2>1. c \in Conns
    BY <1>1 DEF TypeOK
  <2>2. g \in DOMAIN fdtab /\ fdtab[g] = Socket(c)
    BY <1>2, <2>1 DEF SocketsKept
  <2>3. CASE c \in active
    BY <1>2, <2>1, <2>2, <2>3 DEF IInv, FreshTimer, TimersKept
  <2>4. CASE c \notin active
    <3>1. IsSocket(f) /\ c = fdtab[f].conn
      BY <1>3, <2>4 DEF Touched
    <3>2. f \in DOMAIN fdtab /\ fdtab[f] = Socket(c)
      BY <1>1, <3>1 DEF IsSocket, TypeOK, IsMap, Object, Socket
    <3>3. f = g
      BY <1>1, <2>1, <2>2, <3>2 DEF OneNumber
    <3> QED BY <1>2, <3>3 DEF Renewed
  <2> QED BY <2>3, <2>4
<1> QED BY <1>1, <1>2, <1>3, <1>4, WorkStep DEF IInv

LEMMA IInvStep == IInv /\ [Next]_vars => IInv'
<1> SUFFICES ASSUME IInv, [Next]_vars PROVE IInv'
  OBVIOUS
<1>1. CASE UNCHANGED vars
  <2>1. TypeOK'
    BY <1>1, TypeStep DEF IInv
  <2> QED BY <1>1, <2>1 DEF vars, IInv, OneNumber, OnlyAccepted, Reapable,
             HangupPending, NoStrandedBacklog, FreshTimer
<1>2. CASE Client  BY <1>2, ClientStep
<1>3. CASE Alarm  BY <1>3, AlarmStep
<1>4. CASE Loop
  BY <1>4, EpollWaitStep, AcceptStep, AcceptEndStep, TickStep, HangupStep,
     EventStep DEF Loop
<1> QED BY <1>1, <1>2, <1>3, <1>4 DEF Next

LEMMA IInvCorrect == Spec => []IInv
BY IInvInit, IInvStep, PTL DEF Spec

-----------------------------------------------------------------------------
(* Every open socket has an entry and a timer: the idle timer, or the      *)
(* hang-up, can always close it (server.hpp:170-195, 226-228).             *)
THEOREM EverySocketReapable == Spec => []Reapable
<1>1. IInv => Reapable  BY DEF IInv
<1> QED BY <1>1, IInvCorrect, PTL

(* No hang-up reported once by the edge-triggered epoll is lost, whatever  *)
(* the handlers do meanwhile (server.hpp:179-184).                         *)
THEOREM NoHangupLost == Spec => []HangupPending
<1>1. IInv => HangupPending  BY DEF IInv
<1> QED BY <1>1, IInvCorrect, PTL

(* The accept loop strands a connection only when accept(2) fails          *)
(* (server.hpp:164-178).                                                   *)
THEOREM BacklogAnnounced == Spec => []NoStrandedBacklog
<1>1. IInv => NoStrandedBacklog  BY DEF IInv
<1> QED BY <1>1, IInvCorrect, PTL

(* A connection that had an event since the last alarm has a new timer,    *)
(* also when its number had another owner before (server.hpp:173-235).     *)
THEOREM TimerIsFresh == Spec => []FreshTimer
<1>1. IInv => FreshTimer  BY DEF IInv
<1> QED BY <1>1, IInvCorrect, PTL

=============================================================================
