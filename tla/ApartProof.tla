------------------------------ MODULE ApartProof ------------------------------
(***************************************************************************)
(* Proofs that the server loop keeps connections apart, although every     *)
(* descriptor number is used again and operator= resets no entry: as long  *)
(* as no timeout has gone astray, no handler closes what is another's;     *)
(* and with sft clients, no coroutine is resumed for another connection,   *)
(* or after its end, and no file goes to another client.                   *)
(***************************************************************************)
EXTENDS ReactorProof

-----------------------------------------------------------------------------
(* The files that coroutines hold.                                         *)

Held(f) == connections[f].task.file

(* Events in the array are those of sockets; whoever holds a file holds    *)
(* the number of one, and alone.                                           *)
EventsOnSockets == \A f \in Fd : batch[f] # {} => IsSocket(f)

FilesHeld ==
  \A f \in DOMAIN connections :
    Held(f) # 0 => Held(f) \in DOMAIN fdtab /\ fdtab[Held(f)].type = "file"

OneHolder ==
  \A f, g \in DOMAIN connections : Held(f) # 0 /\ Held(f) = Held(g) => f = g

Apart == EventsOnSockets /\ FilesHeld /\ OneHolder

AInv == IInv /\ (alarm.stray \/ Apart)

-----------------------------------------------------------------------------
(* What a run of a handler may leave.                                      *)

(* The fields of an entry whose coroutine has returned, or waits.          *)
LEMMA EntryFields ==
  ASSUME NEW e \in Entry
  PROVE  /\ LET o == Done(e)
            IN  /\ o \in Entry /\ o.task = NoTask /\ o.requests = e.requests
                /\ o.is_read_awaiting = e.is_read_awaiting
                /\ o.is_write_awaiting = e.is_write_awaiting
         /\ \A t : LET w == [e EXCEPT !.task = t, !.is_read_awaiting = TRUE]
                   IN  /\ w.task = t /\ w.requests = e.requests
                       /\ w.is_read_awaiting = TRUE
                       /\ w.is_write_awaiting = e.is_write_awaiting
         /\ LET o == [e EXCEPT !.is_read_awaiting = FALSE]
            IN  /\ o.task = e.task /\ o.requests = e.requests
                /\ o.is_read_awaiting = FALSE
                /\ o.is_write_awaiting = e.is_write_awaiting
         /\ LET o == [e EXCEPT !.is_read_awaiting = FALSE,
                               !.is_write_awaiting = FALSE]
            IN  /\ o.task = e.task /\ o.requests = e.requests
                /\ o.is_read_awaiting = FALSE
                /\ o.is_write_awaiting = FALSE
<1>1. NoTask \in Task
  BY NewEntryType
<1> QED BY <1>1 DEF Done, Entry

(* An upload is over, or waits for more with the file it had.              *)
UploadLeaves(e, t, s, r) ==
  /\ r.server = "run" /\ r.sent = FALSE
  /\ r.in = <<>> \/ r.in \in Rests(s.in)
  /\ r.entry.requests = e.requests
  /\ r.entry.is_write_awaiting = e.is_write_awaiting
  /\ \/ r.entry.task = NoTask /\ r.entry.is_read_awaiting = FALSE
     \/ r.entry.task = t /\ r.entry.is_read_awaiting = TRUE /\ r.shut = FALSE

LEMMA UploadRuns ==
  ASSUME NEW e \in Entry, NEW t \in Task, NEW s \in View,
         NEW r \in UploadLoop(e, t, s)
  PROVE  UploadLeaves(e, t, s, r)
<1> DEFINE over == [Done(e) EXCEPT !.is_read_awaiting = FALSE]
           wait == [e EXCEPT !.task = t, !.is_read_awaiting = TRUE]
<1>1. \E q \in {<<>>} \cup Rests(s.in) :
         r \in {Leave(over, q), Shut(over, q), Leave(wait, q)}
  <2> HIDE DEF over, wait
  <2> QED BY DEF UploadLoop, over, wait
<1>2. /\ over.task = NoTask /\ over.requests = e.requests
      /\ over.is_read_awaiting = FALSE
      /\ over.is_write_awaiting = e.is_write_awaiting
      /\ wait.task = t /\ wait.requests = e.requests
      /\ wait.is_read_awaiting = TRUE
      /\ wait.is_write_awaiting = e.is_write_awaiting
  <2>1. Done(e) \in Entry
    BY EntryFields
  <2> QED BY <2>1, EntryFields
<1> HIDE DEF over, wait
<1>3. PICK q \in {<<>>} \cup Rests(s.in) :
        r \in {Leave(over, q), Shut(over, q), Leave(wait, q)}
  BY <1>1
<1>4. r.in = q /\ r.server = "run" /\ r.sent = FALSE
  BY <1>3 DEF Leave, Shut
<1>5. r.entry = over \/ (r.entry = wait /\ r.shut = FALSE)
  BY <1>3 DEF Leave, Shut
<1> QED BY <1>2, <1>4, <1>5 DEF UploadLeaves

(* Sending is over, waits for room in the send buffer, or failed: then the *)
(* flags stay as they are.                                                 *)
SendLeaves(e, t, s, q, r) ==
  /\ r.server = "run" /\ r.shut = FALSE /\ r.in = q
  /\ r.sent = TRUE => ~SendFails(s)
  /\ r.entry.requests = e.requests
  /\ \/ /\ r.entry.task = NoTask
        /\ r.entry.is_read_awaiting = FALSE /\ r.entry.is_write_awaiting = FALSE
     \/ /\ r.entry.task.at = "send" /\ r.entry.task.file = t.file
        /\ r.entry.task.conn = t.conn
        /\ r.entry.is_read_awaiting = FALSE /\ r.entry.is_write_awaiting = TRUE
     \/ /\ SendFails(s) \/ FilesShrink
        /\ r.entry = Done(e)

LEMMA SendRuns ==
  ASSUME NEW e \in Entry, NEW t \in Task, NEW s \in View, NEW q,
         NEW r \in SendLoop(e, t, s, q)
  PROVE  SendLeaves(e, t, s, q, r)
<1> DEFINE over == [Done(e) EXCEPT !.is_read_awaiting = FALSE,
                                   !.is_write_awaiting = FALSE]
           wait == [e EXCEPT !.task = [t EXCEPT !.at = "send"],
                             !.is_read_awaiting = FALSE,
                             !.is_write_awaiting = TRUE]
<1>1. \/ SendFails(s) /\ r = Leave(Done(e), q)
      \/ /\ ~SendFails(s)
         /\ \/ r = [Leave(wait, q) EXCEPT !.full = TRUE, !.sent = ~s.full]
            \/ r = [Leave(over, q) EXCEPT !.sent = TRUE]
            \/ r = Leave(wait, q)
            \/ FilesShrink /\ r = Leave(Done(e), q)
  <2> HIDE DEF over, wait
  <2> QED BY DEF SendLoop, over, wait
<1>2. /\ over.task = NoTask /\ over.requests = e.requests
      /\ over.is_read_awaiting = FALSE /\ over.is_write_awaiting = FALSE
  <2>1. Done(e) \in Entry
    BY EntryFields
  <2> QED BY <2>1, EntryFields
<1>3. /\ wait.task.at = "send" /\ wait.task.file = t.file
      /\ wait.task.conn = t.conn /\ wait.requests = e.requests
      /\ wait.is_read_awaiting = FALSE /\ wait.is_write_awaiting = TRUE
  BY DEF Entry, Task
<1>4. Done(e).requests = e.requests
  BY EntryFields
<1> HIDE DEF over, wait
<1>5. CASE SendFails(s) /\ r = Leave(Done(e), q)
  <2>1. /\ r.entry = Done(e) /\ r.in = q /\ r.server = "run"
        /\ r.sent = FALSE /\ r.shut = FALSE
    BY <1>5 DEF Leave
  <2> QED BY <1>4, <1>5, <2>1 DEF SendLeaves
<1>6. CASE ~SendFails(s) /\ FilesShrink /\ r = Leave(Done(e), q)
  <2>1. /\ r.entry = Done(e) /\ r.in = q /\ r.server = "run" /\ r.shut = FALSE
    BY <1>6 DEF Leave
  <2> QED BY <1>4, <1>6, <2>1 DEF SendLeaves
<1>7. CASE /\ ~SendFails(s)
           /\ \/ r = [Leave(wait, q) EXCEPT !.full = TRUE, !.sent = ~s.full]
              \/ r = Leave(wait, q)
  <2>1. r.entry = wait /\ r.in = q /\ r.server = "run" /\ r.shut = FALSE
    <3>1. CASE r = Leave(wait, q)
      BY <3>1 DEF Leave
    <3>2. CASE r = [Leave(wait, q) EXCEPT !.full = TRUE, !.sent = ~s.full]
      BY <3>2 DEF Leave
    <3> QED BY <1>7, <3>1, <3>2
  <2> QED BY <1>3, <1>7, <2>1 DEF SendLeaves
<1>8. CASE ~SendFails(s) /\ r = [Leave(over, q) EXCEPT !.sent = TRUE]
  <2>1. r.entry = over /\ r.in = q /\ r.server = "run" /\ r.shut = FALSE
    BY <1>8 DEF Leave
  <2> QED BY <1>2, <1>8, <2>1 DEF SendLeaves
<1> QED BY <1>1, <1>5, <1>6, <1>7, <1>8

(* The flag lets the sending begin; otherwise the download is over or      *)
(* waits for it.                                                           *)
FlagLeaves(e, t, s, r) ==
  /\ r.server = "run" /\ r.sent = FALSE
  /\ r.in = <<>> \/ (s.in # <<>> /\ r.in = Tail(s.in))
  /\ r.entry.requests = e.requests
  /\ \/ /\ r.entry.task = NoTask
        /\ r.entry.is_read_awaiting = FALSE /\ r.entry.is_write_awaiting = FALSE
     \/ /\ r.entry.task = t /\ r.shut = FALSE
        /\ r.entry.is_read_awaiting = TRUE
        /\ r.entry.is_write_awaiting = e.is_write_awaiting

LEMMA FlagRuns ==
  ASSUME NEW e \in Entry, NEW t \in Task, NEW s \in View,
         NEW r \in FlagLoop(e, t, s)
  PROVE  \/ s.in # <<>> /\ SendLeaves(e, t, s, Tail(s.in), r)
         \/ FlagLeaves(e, t, s, r)
<1> DEFINE over == [Done(e) EXCEPT !.is_read_awaiting = FALSE,
                                   !.is_write_awaiting = FALSE]
           wait == [e EXCEPT !.task = t, !.is_read_awaiting = TRUE]
<1>1. \/ s.in # <<>> /\ r \in SendLoop(e, t, s, Tail(s.in))
      \/ s.in # <<>> /\ r = Shut(over, Tail(s.in))
      \/ r = Leave(wait, <<>>)
      \/ r = Shut(over, <<>>)
  <2> HIDE DEF over, wait
  <2> QED BY DEF FlagLoop, over, wait
<1>2. /\ over.task = NoTask /\ over.requests = e.requests
      /\ over.is_read_awaiting = FALSE /\ over.is_write_awaiting = FALSE
      /\ wait.task = t /\ wait.requests = e.requests
      /\ wait.is_read_awaiting = TRUE
      /\ wait.is_write_awaiting = e.is_write_awaiting
  <2>1. Done(e) \in Entry
    BY EntryFields
  <2> QED BY <2>1, EntryFields
<1> HIDE DEF over, wait
<1>3. CASE s.in # <<>> /\ r \in SendLoop(e, t, s, Tail(s.in))
  BY <1>3, SendRuns
<1>4. CASE r = Leave(wait, <<>>)
  <2>1. r.entry = wait /\ r.in = <<>> /\ r.server = "run" /\ r.sent = FALSE
        /\ r.shut = FALSE
    BY <1>4 DEF Leave
  <2> QED BY <1>2, <2>1 DEF FlagLeaves
<1>5. CASE \/ s.in # <<>> /\ r = Shut(over, Tail(s.in))
           \/ r = Shut(over, <<>>)
  <2>1. r.entry = over /\ r.server = "run" /\ r.sent = FALSE
    BY <1>5 DEF Leave, Shut
  <2>2. r.in = <<>> \/ (s.in # <<>> /\ r.in = Tail(s.in))
    BY <1>5 DEF Leave, Shut
  <2> QED BY <1>2, <2>1, <2>2 DEF FlagLeaves
<1> QED BY <1>1, <1>3, <1>4, <1>5

-----------------------------------------------------------------------------
(* What a run of a handler holds in the end: nothing, or the descriptor it *)
(* was given, or what it held before.                                      *)

LEMMA UploadHolds ==
  ASSUME NEW e \in Entry, NEW t \in Task, NEW s \in View,
         NEW r \in UploadLoop(e, t, s)
  PROVE  r.entry.task.file \in {0, t.file}
<1>1. UploadLeaves(e, t, s, r)
  BY UploadRuns
<1> QED BY <1>1 DEF UploadLeaves, NoTask

LEMMA SendHolds ==
  ASSUME NEW e \in Entry, NEW t \in Task, NEW q, NEW s, NEW r,
         SendLeaves(e, t, s, q, r)
  PROVE  r.entry.task.file \in {0, t.file}
<1>1. Done(e).task = NoTask
  BY EntryFields
<1> QED BY <1>1 DEF SendLeaves, NoTask

LEMMA FlagHolds ==
  ASSUME NEW e \in Entry, NEW t \in Task, NEW s \in View,
         NEW r \in FlagLoop(e, t, s)
  PROVE  r.entry.task.file \in {0, t.file}
<1>1. CASE SendLeaves(e, t, s, Tail(s.in), r)
  BY <1>1, SendHolds
<1>2. CASE FlagLeaves(e, t, s, r)
  BY <1>2 DEF FlagLeaves, NoTask
<1> QED BY <1>1, <1>2, FlagRuns

LEMMA PageLoopHolds ==
  ASSUME NEW e \in Entry, NEW t \in Task, NEW s \in View, NEW q,
         NEW r \in PageLoop(e, t, s, q)
  PROVE  r.entry.task.file \in {0, t.file}
<1> DEFINE wait == [e EXCEPT !.task = t, !.is_write_awaiting = TRUE]
           next == [e EXCEPT !.task = At("next", 0, t.conn, None),
                             !.is_read_awaiting = TRUE,
                             !.is_write_awaiting = FALSE]
<1>1. Done(e).task.file = 0 /\ wait.task = t /\ next.task.file = 0
  BY DEF Entry, Done, NoTask, At
<1>2. r.entry = Done(e) \/ r.entry = wait \/ r.entry = next
  BY DEF PageLoop, Leave, Shut, Die, NextRound
<1> QED BY <1>1, <1>2

LEMMA PageHolds ==
  ASSUME NEW e \in Entry, NEW h \in 0..MaxFd, NEW s \in View, NEW q,
         NEW k \in Kinds, NEW r \in Page(e, h, s, q, k)
  PROVE  r.entry.task.file \in {0, h}
<1> DEFINE seen == [e EXCEPT !.requests = IF k = "bad" THEN k ELSE None]
           next == [seen EXCEPT !.task = At("next", 0, s.conn, None),
                                !.is_read_awaiting = TRUE,
                                !.is_write_awaiting = FALSE]
           t    == At("page", h, s.conn, k)
<1>1. seen \in Entry
  BY EntryUpdates
<1>2. t \in Task /\ t.file = h
  BY AtType DEF View, Points, At
<1> HIDE DEF seen
<1>3. Done(seen).task.file = 0 /\ next.task.file = 0
  BY <1>1 DEF Entry, Done, NoTask, At
<1>4. r \in PageLoop(seen, t, s, q) \/ r.entry = Done(seen) \/ r.entry = next
  BY DEF Page, Leave, NextRound, seen
<1> QED BY <1>1, <1>2, <1>3, <1>4, PageLoopHolds

(* A new coroutine has the file it opened, if any; a message changes no    *)
(* task.                                                                   *)
LEMMA StartHolds ==
  ASSUME NEW e \in Entry, e.requests \in Kinds, NEW h \in 0..MaxFd,
         NEW s \in View, NEW r \in Start(e, h, s)
  PROVE  IF e.requests = "mesg" THEN r.entry.task = e.task
         ELSE r.entry.task.file \in {0, h}
<1> DEFINE start == [e EXCEPT !.requests = None]
<1>1. start \in Entry /\ start.task = e.task
  BY EntryUpdates DEF Entry
<1>2. \A p \in Points : LET t == At(p, h, s.conn, None)
                        IN  t \in Task /\ t.file = h
  BY AtType DEF View, At
<1> HIDE DEF start
<1>3. CASE e.requests = "mesg"
  <2>1. r = Leave(start, s.in)
    BY <1>3 DEF Start, handle_sft_mesg, start
  <2> QED BY <1>1, <1>3, <2>1 DEF Leave
<1>4. CASE e.requests = "file"
  <2> DEFINE t == At("upload", h, s.conn, None)
  <2>1. /\ Done(start).task.file = 0
        /\ [Done(start) EXCEPT !.is_read_awaiting = FALSE].task.file = 0
    BY <1>1 DEF Done, NoTask, Entry
  <2>2. \/ r = Leave(Done(start), s.in)
        \/ r = Shut([Done(start) EXCEPT !.is_read_awaiting = FALSE], s.in)
        \/ r \in UploadLoop(start, t, s)
    BY <1>4 DEF Start, handle_sft_file, start
  <2>3. t \in Task /\ t.file = h
    BY <1>2 DEF Points
  <2> HIDE DEF t
  <2>4. CASE r \in UploadLoop(start, t, s)
    BY <1>1, <1>4, <2>3, <2>4, UploadHolds
  <2>5. CASE r = Leave(Done(start), s.in)
    BY <1>4, <2>1, <2>5 DEF Leave
  <2>6. CASE r = Shut([Done(start) EXCEPT !.is_read_awaiting = FALSE], s.in)
    BY <1>4, <2>1, <2>6 DEF Leave, Shut
  <2> QED BY <2>2, <2>4, <2>5, <2>6
<1>5. CASE e.requests = "get"
  <2> DEFINE t    == At("flag", h, s.conn, None)
             over == [Done(start) EXCEPT !.is_read_awaiting = FALSE,
                                         !.is_write_awaiting = FALSE]
  <2>1. Done(start).task.file = 0 /\ over.task.file = 0
    BY <1>1 DEF Done, NoTask, Entry
  <2>2. \/ r = Leave(Done(start), s.in) \/ r = Leave(over, s.in)
        \/ r \in FlagLoop(start, t, s) \/ r \in SendLoop(start, t, s, s.in)
    BY <1>5 DEF Start, handle_sft_get_file, start
  <2>3. t \in Task /\ t.file = h
    BY <1>2 DEF Points
  <2> HIDE DEF t, over
  <2> QED BY <1>1, <1>5, <2>1, <2>2, <2>3, FlagHolds, SendHolds,
           SendRuns DEF Leave
<1>6. CASE e.requests \notin {"mesg", "file", "get"}
  <2>1. r \in Page(e, h, s, s.in, e.requests)
    BY <1>6 DEF Start, handle_http
  <2> QED BY <1>6, <2>1, PageHolds
<1> QED BY <1>3, <1>4, <1>5, <1>6

(* One that goes on has the file it had; only one that waited for an HTTP  *)
(* request opens another.                                                  *)
LEMMA ResumeHolds ==
  ASSUME NEW e \in Entry, NEW h \in 0..MaxFd, NEW s \in View,
         NEW r \in Resume(e, h, s)
  PROVE  \/ r.entry.task.file \in {0, e.task.file}
         \/ e.task.at = "next" /\ r.entry.task.file = h
<1>1. e.task \in Task /\ s.in \in Seq(Kinds)
  BY DEF Entry, View
<1>2. CASE e.task.at = "next"
  <2> DEFINE first == IF s.in = <<>> THEN None ELSE Head(s.in)
             read  == [e EXCEPT !.requests = first]
  <2>1. first \in Kinds \cup {None} /\ e.requests \in Kinds \cup {None}
    BY <1>1, RestsType DEF Entry
  <2>2. Done(read).task.file = 0
    BY DEF Done, NoTask, Entry
  <2>3. r \in ServeNext(e, h, s)
    BY <1>2 DEF Resume
  <2>4. \/ e.requests # None /\ r \in Page(e, h, s, s.in, e.requests)
        \/ first # None /\ r \in Page(e, h, s, <<>>, first)
        \/ r.entry = Done(read)
        \/ r.entry = e
    BY <2>3 DEF ServeNext, Leave, Shut, Die
  <2> HIDE DEF first, read
  <2>5. r.entry.task.file \in {0, h} \/ r.entry = e
    BY <2>1, <2>2, <2>4, PageHolds
  <2> QED BY <1>2, <2>5
<1>3. CASE e.task.at # "next"
  <2>1. \/ r \in UploadLoop(e, e.task, s) \/ r \in FlagLoop(e, e.task, s)
        \/ r \in SendLoop(e, e.task, s, s.in) \/ r \in PageLoop(e, e.task, s, s.in)
        \/ r.entry = e
    BY <1>3 DEF Resume, Die, Leave
  <2> QED BY <1>1, <2>1, UploadHolds, FlagHolds, SendHolds, SendRuns,
           PageLoopHolds
<1> QED BY <1>2, <1>3

-----------------------------------------------------------------------------
(* What an event on f runs, as Resumed and Started have it: what the run   *)
(* met, its result, and the descriptors it opened and closed.              *)

ResumedRun(f, s, h, r, tab, closing) ==
  LET e == EntryAt(f)
  IN  /\ e.is_read_awaiting \/ e.is_write_awaiting
      /\ \/ /\ e.task.at # "next"
            /\ s \in Views(f, e.task.file) /\ h = e.task.file
            /\ r \in Resume(e, h, s)
            /\ tab = fdtab /\ closing = HeldBy(e) \ HeldBy(r.entry)
         \/ /\ e.task.at = "next"
            /\ s \in Views(f, 0) /\ h = FreeFd
            /\ r \in Resume(e, h, [s EXCEPT !.file = TRUE])
            /\ tab = WithFile(s.conn) /\ closing = {h} \ HeldBy(r.entry)

Asked(f, k)  == [EntryAt(f) EXCEPT !.requests = k]
Drained(s)   == [s EXCEPT !.in = <<>>, !.file = TRUE]

StartedRun(f, k, s, h, r, tab, closing) ==
  LET e == EntryAt(f)
  IN  /\ ~e.is_read_awaiting
      /\ s \in Views(f, 0) /\ k \in decide_action(e, s)
      /\ r \in Start(Asked(f, k), h, Drained(s))
      /\ \/ k = "mesg" /\ h = 0 /\ tab = fdtab /\ closing = {}
         \/ /\ k # "mesg" /\ h = FreeFd /\ tab = WithFile(s.conn)
            /\ closing = HeldBy(e) \cup ({h} \ HeldBy(r.entry))

Run(f, s, h, r, tab, closing) ==
  \/ ResumedRun(f, s, h, r, tab, closing)
  \/ \E k \in Requests : StartedRun(f, k, s, h, r, tab, closing)

Ran(f) ==
  \E s \in View, r \in Result : \E h \in 0..MaxFd : \E tab, closing :
    Run(f, s, h, r, tab, closing) /\ Apply(f, s, h, r, tab, closing)

(* An event of a socket that nobody waits for changes nothing but timers.  *)
Ignored(f) ==
  connections' = Put(connections, f, EntryAt(f)) /\ UNCHANGED <<kernel, server, served>>

LEMMA ResumedRan ==
  ASSUME TypeOK, NEW f \in Fd, Resumed(f, EntryAt(f)),
         EntryAt(f).is_read_awaiting \/ EntryAt(f).is_write_awaiting
  PROVE  Ran(f)
<1> DEFINE e == EntryAt(f)
<1>1. e \in Entry
  BY EntryAtType
<1> HIDE DEF e
<1>2. e.task.file \in 0..MaxFd /\ FreeFd \in 0..MaxFd
  BY <1>1, FreeFdType DEF Entry, Task
<1>3. CASE e.task.at # "next"
  <2>1. PICK s \in Views(f, e.task.file) : \E r \in Resume(e, e.task.file, s) :
          Apply(f, s, e.task.file, r, fdtab, HeldBy(e) \ HeldBy(r.entry))
    BY <1>3 DEF Resumed, e
  <2>2. PICK r \in Resume(e, e.task.file, s) :
          Apply(f, s, e.task.file, r, fdtab, HeldBy(e) \ HeldBy(r.entry))
    BY <2>1
  <2>3. s \in View
    BY <2>1, ViewsType
  <2>4. r \in Result
    BY <1>1, <1>2, <2>2, <2>3, ResumeType
  <2>5. ResumedRun(f, s, e.task.file, r, fdtab, HeldBy(e) \ HeldBy(r.entry))
    BY <1>3, <2>1, <2>2 DEF ResumedRun, e
  <2> QED BY <1>2, <2>2, <2>3, <2>4, <2>5 DEF Ran, Run
<1>4. CASE e.task.at = "next"
  <2>1. PICK s \in Views(f, 0) :
          \E r \in Resume(e, FreeFd, [s EXCEPT !.file = TRUE]) :
            Apply(f, s, FreeFd, r, WithFile(s.conn), {FreeFd} \ HeldBy(r.entry))
    BY <1>4 DEF Resumed, e
  <2>2. PICK r \in Resume(e, FreeFd, [s EXCEPT !.file = TRUE]) :
          Apply(f, s, FreeFd, r, WithFile(s.conn), {FreeFd} \ HeldBy(r.entry))
    BY <2>1
  <2>3. s \in View /\ [s EXCEPT !.file = TRUE] \in View
    BY <2>1, ViewsType
  <2>4. r \in Result
    BY <1>1, <1>2, <2>2, <2>3, ResumeType
  <2>5. ResumedRun(f, s, FreeFd, r, WithFile(s.conn), {FreeFd} \ HeldBy(r.entry))
    BY <1>4, <2>1, <2>2 DEF ResumedRun, e
  <2> QED BY <1>2, <2>2, <2>3, <2>4, <2>5 DEF Ran, Run
<1> QED BY <1>3, <1>4

LEMMA StartedRan ==
  ASSUME TypeOK, NEW f \in Fd, ~EntryAt(f).is_read_awaiting,
         NEW s \in Views(f, 0), NEW k \in decide_action(EntryAt(f), s),
         k \in Requests, Started(f, EntryAt(f), k, s)
  PROVE  Ran(f)
<1> DEFINE e == EntryAt(f)
<1>1. e \in Entry /\ k \in Kinds
  BY EntryAtType DEF Requests
<1>2. Asked(f, k) \in Entry /\ Asked(f, k).requests = k
  BY <1>1, EntryUpdates DEF Asked, Entry
<1>3. s \in View /\ Drained(s) \in View
  BY ViewsType DEF Drained
<1>4. FreeFd \in 0..MaxFd /\ 0 \in 0..MaxFd
  BY FreeFdType, HandlersAssumption
<1> HIDE DEF e
<1>5. CASE k = "mesg"
  <2>1. PICK r \in Start(Asked(f, k), 0, Drained(s)) : Apply(f, s, 0, r, fdtab, {})
    BY <1>5 DEF Started, Asked, Drained, e
  <2>2. r \in Result
    BY <1>1, <1>2, <1>3, <1>4, <2>1, StartType
  <2>3. StartedRun(f, k, s, 0, r, fdtab, {})
    BY <1>5, <2>1 DEF StartedRun
  <2> QED BY <1>3, <1>4, <2>1, <2>2, <2>3 DEF Ran, Run
<1>6. CASE k # "mesg"
  <2>1. PICK r \in Start(Asked(f, k), FreeFd, Drained(s)) :
          Apply(f, s, FreeFd, r, WithFile(s.conn),
                HeldBy(EntryAt(f)) \cup ({FreeFd} \ HeldBy(r.entry)))
    BY <1>6 DEF Started, Asked, Drained
  <2>2. r \in Result
    BY <1>1, <1>2, <1>3, <1>4, <2>1, StartType
  <2>3. StartedRun(f, k, s, FreeFd, r, WithFile(s.conn),
                   HeldBy(EntryAt(f)) \cup ({FreeFd} \ HeldBy(r.entry)))
    BY <1>6, <2>1 DEF StartedRun
  <2> QED BY <1>3, <1>4, <2>1, <2>2, <2>3 DEF Ran, Run
<1> QED BY <1>5, <1>6

(* What the loop does with an event of f that is no hang-up.               *)
LEMMA EventRan ==
  ASSUME TypeOK, NEW f \in Fd, Readable(f) \/ Writable(f)
  PROVE  \/ Forget({f}) /\ UNCHANGED served
         \/ Ran(f)
         \/ Ignored(f)
<1>1. CASE Readable(f)
  <2>1. CASE EntryAt(f).is_read_awaiting
    BY <1>1, <2>1, ResumedRan DEF Readable
  <2>2. CASE ~EntryAt(f).is_read_awaiting
    <3>1. PICK s \in Views(f, 0) : \E k \in decide_action(EntryAt(f), s) :
            IF k = None THEN Forget({f}) /\ UNCHANGED served
            ELSE Started(f, EntryAt(f), k, s)
      BY <1>1, <2>2 DEF Readable
    <3>2. PICK k \in decide_action(EntryAt(f), s) :
            IF k = None THEN Forget({f}) /\ UNCHANGED served
            ELSE Started(f, EntryAt(f), k, s)
      BY <3>1
    <3>3. k \in Requests \cup {None}
      <4>1. s \in View /\ EntryAt(f) \in Entry
        BY ViewsType, EntryAtType
      <4> QED BY <4>1, DecideType
    <3> QED BY <2>2, <3>2, <3>3, StartedRan
  <2> QED BY <2>1, <2>2
<1>2. CASE Writable(f)
  <2>1. CASE EntryAt(f).is_write_awaiting
    BY <1>2, <2>1, ResumedRan DEF Writable
  <2>2. CASE ~EntryAt(f).is_write_awaiting
    BY <1>2, <2>2 DEF Writable, Ignored
  <2> QED BY <2>1, <2>2
<1> QED BY <1>1, <1>2

(* A run closes no more than the file its coroutine had and the number it  *)
(* opened, and holds afterwards at most one of the two, still open.        *)
Tidy(f, r, tab, closing) ==
  /\ closing \subseteq {EntryAt(f).task.file, FreeFd}
  /\ r.entry.task.file # 0
       => /\ r.entry.task.file \notin closing
          /\ \/ r.entry.task.file = EntryAt(f).task.file
             \/ r.entry.task.file = FreeFd /\ tab # fdtab
  /\ tab = fdtab \/ \E c \in Conns \cup {None} : tab = WithFile(c)

LEMMA RunTidy ==
  ASSUME TypeOK, Apart, NEW f \in Fd, NEW s \in View, NEW r \in Result,
         NEW h \in 0..MaxFd, NEW tab, NEW closing,
         Run(f, s, h, r, tab, closing)
  PROVE  Tidy(f, r, tab, closing)
<1> DEFINE e == EntryAt(f)
           n == r.entry.task.file
<1>1. e \in Entry /\ s.conn \in Conns \cup {None}
  BY EntryAtType DEF View
<1>2. HeldBy(e) = {e.task.file} /\ HeldBy(r.entry) = {n}
  BY DEF HeldBy
<1>3. FreeFd # 0 => WithFile(s.conn) # fdtab
  BY FreeFdType DEF WithFile, Put
<1>4. FreeFd # 0 => FreeFd # e.task.file
  <2>1. e.task.file # 0 => e.task.file \in DOMAIN fdtab
    BY DEF Apart, FilesHeld, Held, EntryAt, NewEntry, NoTask
  <2> QED BY <2>1, FreeFdType
<1>5. CASE ResumedRun(f, s, h, r, tab, closing)
  <2>1. CASE e.task.at # "next"
    <3>1. /\ h = e.task.file /\ r \in Resume(e, h, s) /\ tab = fdtab
          /\ closing = HeldBy(e) \ HeldBy(r.entry)
      BY <1>5, <2>1 DEF ResumedRun
    <3>2. n \in {0, e.task.file}
      BY <1>1, <2>1, <3>1, ResumeHolds
    <3> QED BY <1>2, <3>1, <3>2 DEF Tidy
  <2>2. CASE e.task.at = "next"
    <3>1. /\ h = FreeFd /\ r \in Resume(e, h, [s EXCEPT !.file = TRUE])
          /\ tab = WithFile(s.conn) /\ closing = {h} \ HeldBy(r.entry)
      BY <1>5, <2>2 DEF ResumedRun
    <3>2. [s EXCEPT !.file = TRUE] \in View
      BY DEF View
    <3>3. n \in {0, e.task.file, FreeFd}
      BY <1>1, <3>1, <3>2, ResumeHolds
    <3> QED BY <1>1, <1>2, <1>3, <3>1, <3>3 DEF Tidy
  <2> QED BY <2>1, <2>2
<1>6. ASSUME NEW k \in Requests, StartedRun(f, k, s, h, r, tab, closing)
      PROVE  Tidy(f, r, tab, closing)
  <2>1. k \in Kinds
    BY DEF Requests
  <2>2. /\ Asked(f, k) \in Entry /\ Asked(f, k).requests = k
        /\ Asked(f, k).task = e.task
    BY <1>1, <2>1, EntryUpdates DEF Asked, Entry
  <2>3. Drained(s) \in View
    BY EmptySeq DEF Drained, View
  <2>4. r \in Start(Asked(f, k), h, Drained(s))
    BY <1>6 DEF StartedRun
  <2>5. IF k = "mesg" THEN r.entry.task = e.task ELSE n \in {0, h}
    BY <2>1, <2>2, <2>3, <2>4, StartHolds
  <2>6. CASE k = "mesg"
    BY <1>6, <2>5, <2>6 DEF StartedRun, Tidy
  <2>7. CASE k # "mesg"
    <3>1. /\ h = FreeFd /\ tab = WithFile(s.conn)
          /\ closing = HeldBy(e) \cup ({h} \ HeldBy(r.entry))
      BY <1>6, <2>7 DEF StartedRun
    <3> QED BY <1>1, <1>2, <1>3, <1>4, <2>5, <2>7, <3>1 DEF Tidy
  <2> QED BY <2>6, <2>7
<1> QED BY <1>5, <1>6 DEF Run

-----------------------------------------------------------------------------
(* The actions keep connections apart.                                     *)

(* The array only loses events, and none of the numbers in S is left.      *)
Less(S) == \A g \in Fd : batch'[g] # {} => batch[g] # {} /\ g \notin S

LEMMA HandledLess ==
  ASSUME TypeOK, NEW f \in Fd, Handled(f)
  PROVE  Less({f})
BY DEF TypeOK, Handled, Less

(* The table after closing the numbers in S.                               *)
LEMMA Closed ==
  ASSUME NEW tab, NEW socks, NEW S, CloseAll(tab, socks, S)
  PROVE  /\ DOMAIN fdtab' = DOMAIN tab \ S
         /\ \A g \in DOMAIN fdtab' : fdtab'[g] = tab[g]
BY DEF CloseAll, Erase, Restrict

LEMMA ForgetApart ==
  ASSUME TypeOK, Apart, NEW S, Forget(S), Less(S \cap DOMAIN fdtab),
         \A f \in S \cap DOMAIN fdtab : fdtab[f].type # "file"
  PROVE  Apart'
<1> DEFINE T == S \cup UNION {HeldBy(connections[f]) : f \in S \cap DOMAIN connections}
<1>1. /\ DOMAIN fdtab' = DOMAIN fdtab \ T
      /\ \A g \in DOMAIN fdtab' : fdtab'[g] = fdtab[g]
  <2>1. CloseAll(fdtab, sock, T)
    BY DEF Forget
  <2> HIDE DEF T
  <2> QED BY <2>1, Closed
<1>2. /\ DOMAIN connections' = DOMAIN connections \ S
      /\ \A g \in DOMAIN connections' : connections'[g] = connections[g]
  BY DEF Forget, Erase, Restrict
<1>3. \A g \in T : g \in S \/ \E f \in S \cap DOMAIN connections : g = Held(f)
  BY DEF HeldBy, Held
<1> HIDE DEF T
<1>4. EventsOnSockets'
  <2> SUFFICES ASSUME NEW g \in Fd, batch'[g] # {} PROVE IsSocket(g)'
    BY DEF EventsOnSockets
  <2>1. batch[g] # {} /\ g \notin S \cap DOMAIN fdtab
    BY DEF Less
  <2>2. g \in DOMAIN fdtab /\ fdtab[g].type = "sock" /\ g \notin S
    BY <2>1 DEF Apart, EventsOnSockets, IsSocket
  <2>3. \A f \in DOMAIN connections : Held(f) # g
    <3>1. g # 0
      BY HandlersAssumption DEF Fd
    <3> QED BY <2>2, <3>1 DEF Apart, FilesHeld
  <2>4. g \notin T
    BY <1>3, <2>2, <2>3
  <2> QED BY <1>1, <2>2, <2>4 DEF IsSocket
<1>5. FilesHeld'
  <2> SUFFICES ASSUME NEW f \in DOMAIN connections', Held(f)' # 0
               PROVE  Held(f)' \in DOMAIN fdtab' /\ fdtab'[Held(f)'].type = "file"
    BY DEF FilesHeld
  <2>1. f \in DOMAIN connections /\ f \notin S /\ Held(f)' = Held(f)
    BY <1>2 DEF Held
  <2>2. Held(f) \in DOMAIN fdtab /\ fdtab[Held(f)].type = "file"
    BY <2>1 DEF Apart, FilesHeld
  <2>3. Held(f) \notin S
    BY <2>2
  <2>4. \A g \in S \cap DOMAIN connections : Held(g) # Held(f)
    BY <2>1 DEF Apart, OneHolder
  <2>5. Held(f) \notin T
    BY <1>3, <2>3, <2>4
  <2> QED BY <1>1, <2>1, <2>2, <2>5
<1>6. OneHolder'
  BY <1>2 DEF Apart, OneHolder, Held
<1> QED BY <1>4, <1>5, <1>6 DEF Apart

(* Other holders keep their files: the run closed its own at most.         *)
LEMMA RanApart ==
  ASSUME TypeOK, Apart, NEW f \in Fd, IsSocket(f), Less({f}),
         NEW s, NEW h, NEW r, NEW tab, NEW closing,
         Tidy(f, r, tab, closing), Apply(f, s, h, r, tab, closing)
  PROVE  Apart'
<1> DEFINE n == r.entry.task.file
           T == closing \cup (IF r.shut THEN {f} ELSE {})
<1>1. /\ DOMAIN fdtab' = DOMAIN tab \ T
      /\ \A g \in DOMAIN fdtab' : fdtab'[g] = tab[g]
  <2> DEFINE socks == IF s.conn = None THEN sock
                      ELSE [sock EXCEPT ![s.conn].in = r.in,
                                        ![s.conn].full = @ \/ r.full]
  <2>1. CloseAll(tab, socks, T)
    BY DEF Apply
  <2> HIDE DEF T, socks
  <2> QED BY <2>1, Closed
<1>2. connections' = Put(connections, f, r.entry)
  BY DEF Apply
<1>3. /\ DOMAIN connections' = DOMAIN connections \cup {f}
      /\ connections'[f] = r.entry
      /\ \A g \in DOMAIN connections : g # f => connections'[g] = connections[g]
  BY <1>2 DEF Put
<1>4. /\ DOMAIN fdtab \subseteq DOMAIN tab
      /\ \A g \in DOMAIN fdtab : tab[g] = fdtab[g]
      /\ tab # fdtab => FreeFd # 0 /\ FreeFd \in DOMAIN tab /\ tab[FreeFd].type = "file"
  BY FreeFdType DEF Tidy, WithFile, Put, File
<1>5. /\ FreeFd \notin DOMAIN fdtab
      /\ f \in DOMAIN fdtab /\ fdtab[f].type = "sock" /\ f # 0
  <2>1. 0 \notin Fd /\ DOMAIN fdtab \subseteq Fd
    BY HandlersAssumption DEF Fd, TypeOK, IsMap
  <2> QED BY <2>1, FreeFdType DEF IsSocket
<1>6. \A g \in DOMAIN connections : Held(g) # 0 =>
        /\ Held(g) \in DOMAIN fdtab /\ fdtab[Held(g)].type = "file"
  BY DEF Apart, FilesHeld
<1>7. EntryAt(f).task.file # 0
        => f \in DOMAIN connections /\ EntryAt(f).task.file = Held(f)
  BY DEF EntryAt, NewEntry, NoTask, Held
<1>8. closing \subseteq {EntryAt(f).task.file, FreeFd}
  BY DEF Tidy
<1>9. \A g \in DOMAIN fdtab : g \in T =>
        g = f \/ (f \in DOMAIN connections /\ g = Held(f) /\ Held(f) # 0)
  <2>1. 0 \notin DOMAIN fdtab
    BY HandlersAssumption DEF Fd, TypeOK, IsMap
  <2> QED BY <1>5, <1>7, <1>8, <2>1
<1>10. EventsOnSockets'
  <2> SUFFICES ASSUME NEW g \in Fd, batch'[g] # {} PROVE IsSocket(g)'
    BY DEF EventsOnSockets
  <2>1. g # f /\ g \in DOMAIN fdtab /\ fdtab[g].type = "sock"
    BY DEF Less, Apart, EventsOnSockets, IsSocket
  <2>2. g \notin T
    BY <1>6, <1>9, <2>1
  <2> QED BY <1>1, <1>4, <2>1, <2>2 DEF IsSocket
<1>11. n # 0 => /\ n \notin T /\ n \in DOMAIN tab /\ tab[n].type = "file"
                /\ \/ f \in DOMAIN connections /\ n = Held(f)
                   \/ n \notin DOMAIN fdtab
  <2> SUFFICES ASSUME n # 0 PROVE /\ n \notin T /\ n \in DOMAIN tab /\ tab[n].type = "file"
                                 /\ \/ f \in DOMAIN connections /\ n = Held(f)
                                    \/ n \notin DOMAIN fdtab
    OBVIOUS
  <2>1. /\ n \notin closing
        /\ n = EntryAt(f).task.file \/ (n = FreeFd /\ tab # fdtab)
    BY DEF Tidy
  <2>2. /\ n \in DOMAIN tab /\ tab[n].type = "file"
        /\ (f \in DOMAIN connections /\ n = Held(f)) \/ n \notin DOMAIN fdtab
    BY <1>4, <1>5, <1>6, <1>7, <2>1
  <2>3. n # f
    BY <1>4, <1>5, <2>2
  <2> QED BY <2>1, <2>2, <2>3
<1> HIDE DEF T, n
<1>12. FilesHeld'
  <2> SUFFICES ASSUME NEW g \in DOMAIN connections', Held(g)' # 0
               PROVE  Held(g)' \in DOMAIN fdtab' /\ fdtab'[Held(g)'].type = "file"
    BY DEF FilesHeld
  <2>1. CASE g = f
    <3>1. Held(g)' = n
      BY <1>3, <2>1 DEF Held, n
    <3> QED BY <1>1, <1>11, <3>1
  <2>2. CASE g # f
    <3>1. g \in DOMAIN connections /\ Held(g)' = Held(g)
      BY <1>3, <2>2 DEF Held
    <3>2. Held(g) \in DOMAIN fdtab /\ fdtab[Held(g)].type = "file"
      BY <1>6, <3>1
    <3>3. f \in DOMAIN connections => Held(f) # Held(g)
      BY <2>2, <3>1 DEF Apart, OneHolder
    <3>4. Held(g) \notin T
      BY <1>5, <1>9, <3>2, <3>3
    <3> QED BY <1>1, <1>4, <3>1, <3>2, <3>4
  <2> QED BY <2>1, <2>2
<1>13. OneHolder'
  <2> SUFFICES ASSUME NEW g \in DOMAIN connections', NEW k \in DOMAIN connections',
                      Held(g)' # 0, Held(g)' = Held(k)', g # k, k # f
               PROVE  FALSE
    BY DEF OneHolder
  <2>1. k \in DOMAIN connections /\ Held(k)' = Held(k)
    BY <1>3 DEF Held
  <2>2. Held(k) \in DOMAIN fdtab
    BY <1>6, <2>1
  <2>3. CASE g = f
    <3>1. Held(g)' = n
      BY <1>3, <2>3 DEF Held, n
    <3>2. f \in DOMAIN connections /\ n = Held(f)
      BY <1>11, <2>1, <2>2, <3>1
    <3> QED BY <2>1, <2>3, <3>1, <3>2 DEF Apart, OneHolder
  <2>4. CASE g # f
    <3>1. g \in DOMAIN connections /\ Held(g)' = Held(g)
      BY <1>3, <2>4 DEF Held
    <3> QED BY <2>1, <3>1 DEF Apart, OneHolder
  <2> QED BY <2>3, <2>4
<1> QED BY <1>10, <1>12, <1>13 DEF Apart

(* The events of one number: what they close is a file of their own, or    *)
(* the number itself.                                                      *)
LEMMA EventApart ==
  ASSUME IInv, Apart, NEW f \in Fd, Hangup(f) \/ Readable(f) \/ Writable(f)
  PROVE  /\ Apart'
         /\ \A g \in DOMAIN fdtab \ DOMAIN fdtab' :
              fdtab[g].type = "sock" => g = f
<1>1. TypeOK /\ batch[f] # {} /\ Handled(f)
  BY DEF IInv, Hangup, Readable, Writable
<1>2. IsSocket(f) /\ Less({f}) /\ Less({f} \cap DOMAIN fdtab)
  BY <1>1, HandledLess DEF Apart, EventsOnSockets, Less
<1>3. \A g \in DOMAIN connections : Held(g) # 0 => fdtab[Held(g)].type # "sock"
  BY DEF Apart, FilesHeld
<1>4. 0 \notin DOMAIN fdtab
  BY <1>1, HandlersAssumption DEF Fd, TypeOK, IsMap
<1>5. CASE Forget({f})
  <2>1. Apart'
    BY <1>1, <1>2, <1>5, ForgetApart DEF IsSocket
  <2> DEFINE T == {f} \cup UNION {HeldBy(connections[g]) : g \in {f} \cap DOMAIN connections}
  <2>2. DOMAIN fdtab' = DOMAIN fdtab \ T
    <3>1. CloseAll(fdtab, sock, T)
      BY <1>5 DEF Forget
    <3> HIDE DEF T
    <3> QED BY <3>1, Closed
  <2>3. \A g \in T : g = f \/ (f \in DOMAIN connections /\ g = Held(f))
    BY DEF HeldBy, Held
  <2> HIDE DEF T
  <2> QED BY <1>3, <1>4, <2>1, <2>2, <2>3
<1>6. CASE Ran(f)
  <2>1. PICK s \in View, r \in Result : \E h \in 0..MaxFd : \E tab, closing :
          Run(f, s, h, r, tab, closing) /\ Apply(f, s, h, r, tab, closing)
    BY <1>6 DEF Ran
  <2>2. PICK h \in 0..MaxFd : \E tab, closing :
          Run(f, s, h, r, tab, closing) /\ Apply(f, s, h, r, tab, closing)
    BY <2>1
  <2>3. PICK tab, closing :
          Run(f, s, h, r, tab, closing) /\ Apply(f, s, h, r, tab, closing)
    BY <2>2
  <2>4. Tidy(f, r, tab, closing)
    BY <1>1, <2>3, RunTidy
  <2>5. Apart'
    BY <1>1, <1>2, <2>3, <2>4, RanApart
  <2> DEFINE T == closing \cup (IF r.shut THEN {f} ELSE {})
             socks == IF s.conn = None THEN sock
                      ELSE [sock EXCEPT ![s.conn].in = r.in,
                                        ![s.conn].full = @ \/ r.full]
  <2>6. DOMAIN fdtab' = DOMAIN tab \ T
    <3>1. CloseAll(tab, socks, T)
      BY <2>3 DEF Apply
    <3> HIDE DEF T, socks
    <3> QED BY <3>1, Closed
  <2>7. DOMAIN fdtab \subseteq DOMAIN tab
    BY <2>4 DEF Tidy, WithFile, Put
  <2>8. \A g \in T : g \in {f, EntryAt(f).task.file, FreeFd}
    BY <2>4 DEF Tidy
  <2>9. FreeFd \notin DOMAIN fdtab
    BY <1>4, FreeFdType
  <2>10. EntryAt(f).task.file # 0
           => f \in DOMAIN connections /\ EntryAt(f).task.file = Held(f)
    BY DEF EntryAt, NewEntry, NoTask, Held
  <2> HIDE DEF T
  <2> QED BY <1>3, <1>4, <2>5, <2>6, <2>7, <2>8, <2>9, <2>10
<1>7. CASE Ignored(f)
  <2>1. UNCHANGED <<fdtab>> /\ connections' = Put(connections, f, EntryAt(f))
    BY <1>7 DEF Ignored, kernel
  <2>2. EventsOnSockets'
    BY <1>2, <2>1 DEF Apart, EventsOnSockets, IsSocket, Less
  <2>3. \A g \in DOMAIN connections' :
          Held(g)' = 0 \/ (g \in DOMAIN connections /\ Held(g)' = Held(g))
    BY <2>1 DEF Put, EntryAt, NewEntry, NoTask, Held
  <2> QED BY <2>1, <2>2, <2>3 DEF Apart, FilesHeld, OneHolder
<1> QED BY <1>1, <1>5, <1>6, <1>7, EventRan DEF Hangup

LEMMA AcceptApart ==
  ASSUME IInv, Apart, Accept
  PROVE  Apart'
<1>1. PICK c \in Conns :
        /\ fdtab'       = Put(fdtab, FreeFd, Socket(c))
        /\ connections' = Put(connections, FreeFd, EntryAt(FreeFd))
  BY DEF Accept
<1>2. FreeFd \in Fd \ DOMAIN fdtab /\ UNCHANGED batch
  BY FreeFdType DEF Accept
<1>3. /\ DOMAIN fdtab \subseteq DOMAIN fdtab'
      /\ \A g \in DOMAIN fdtab : fdtab'[g] = fdtab[g]
  BY <1>1, <1>2 DEF Put
<1>4. \A g \in DOMAIN connections' :
        Held(g)' = 0 \/ (g \in DOMAIN connections /\ Held(g)' = Held(g))
  BY <1>1 DEF Put, EntryAt, NewEntry, NoTask, Held
<1> QED BY <1>2, <1>3, <1>4
        DEF Apart, EventsOnSockets, FilesHeld, OneHolder, IsSocket

(* A tick that does not stray closes sockets without an event left.        *)
LEMMA TickApart ==
  ASSUME IInv, Apart, Tick, ~alarm'.stray
  PROVE  Apart'
<1>1. PICK S \in clear_expired :
        Forget(S) /\ alarm' = [alarm EXCEPT !.pending = FALSE,
                                            !.stray = @ \/ Strays(S)]
  BY DEF Tick
<1>2. TypeOK /\ alarm \in [sent: 0..MaxAlarms, pending: BOOLEAN, stray: BOOLEAN]
  BY DEF IInv, TypeOK
<1>3. ~Strays(S)
  BY <1>1, <1>2
<1>4. \A g \in S \cap DOMAIN fdtab : batch[g] = {} /\ fdtab[g].type # "file"
  BY <1>3 DEF Strays
<1>5. Less(S \cap DOMAIN fdtab)
  <2>1. SigPipe \notin Fd /\ Handled(SigPipe)
    BY ReactorAssumption DEF Tick
  <2> QED BY <1>2, <1>4, <2>1 DEF TypeOK, Handled, Less
<1> QED BY <1>1, <1>2, <1>4, <1>5, ForgetApart

LEMMA EpollWaitApart ==
  ASSUME IInv, EpollWait
  PROVE  EventsOnSockets'
<1>1. DOMAIN batch = Fd \cup {Listener, SigPipe} /\ UNCHANGED fdtab
  BY DEF IInv, TypeOK, EpollWait
<1>2. \A g \in Fd : batch'[g] # {} => IsSocket(g)
  BY <1>1 DEF EpollWait
<1> QED BY <1>1, <1>2 DEF EventsOnSockets, IsSocket

(* What went astray stays so.                                              *)
LEMMA StrayStays ==
  ASSUME TypeOK, [Next]_vars, ~alarm'.stray
  PROVE  ~alarm.stray
<1>1. CASE UNCHANGED alarm
  BY <1>1
<1>2. CASE Alarm \/ Tick
  <2>1. \E b \in BOOLEAN : alarm'.stray = (alarm.stray \/ b)
    BY <1>2 DEF Alarm, Tick, Strays, TypeOK
  <2> QED BY <2>1
<1>3. CASE Client \/ EpollWait \/ Accept \/ AcceptEnd
           \/ \E f \in Fd : Hangup(f) \/ Readable(f) \/ Writable(f)
  <2>1. UNCHANGED alarm
    BY <1>3 DEF Client, EpollWait, Accept, AcceptEnd, Hangup, Readable, Writable
  <2> QED BY <2>1
<1> QED BY <1>1, <1>2, <1>3 DEF Next, Loop, vars

LEMMA AInvStep == AInv /\ [Next]_vars => AInv'
<1> SUFFICES ASSUME AInv, [Next]_vars, ~alarm'.stray PROVE Apart'
  BY IInvStep DEF AInv
<1>1. IInv /\ TypeOK
  BY DEF AInv, IInv
<1>2. Apart
  BY <1>1, StrayStays DEF AInv
<1>3. CASE UNCHANGED vars \/ Client \/ Alarm
  <2>1. UNCHANGED <<fdtab, batch, connections>>
    BY <1>3 DEF vars, Client, Alarm, process, kernel, Connect, Send, Leaving, Drain
  <2> QED BY <1>2, <2>1 DEF Apart, EventsOnSockets, FilesHeld, OneHolder,
             IsSocket, Held
<1>4. CASE EpollWait
  <2>1. UNCHANGED <<fdtab, connections>>
    BY <1>4 DEF EpollWait, process
  <2> QED BY <1>1, <1>2, <1>4, <2>1, EpollWaitApart
          DEF Apart, FilesHeld, OneHolder, Held
<1>5. CASE AcceptEnd
  <2>1. UNCHANGED <<fdtab, connections>> /\ \A f \in Fd : batch'[f] = batch[f]
    BY <1>1, <1>5, ReactorAssumption
    DEF AcceptEnd, kernel, process, Handled, TypeOK
  <2> QED BY <1>2, <2>1 DEF Apart, EventsOnSockets, FilesHeld, OneHolder,
             IsSocket, Held
<1>6. CASE Accept
  BY <1>1, <1>2, <1>6, AcceptApart
<1>7. CASE Tick
  BY <1>1, <1>2, <1>7, TickApart
<1>8. CASE \E f \in Fd : Hangup(f) \/ Readable(f) \/ Writable(f)
  BY <1>1, <1>2, <1>8, EventApart
<1> QED BY <1>3, <1>4, <1>5, <1>6, <1>7, <1>8 DEF Next, Loop

LEMMA AInvInit == Init => AInv
<1> SUFFICES ASSUME Init PROVE Apart
  BY IInvInit DEF AInv
<1>1. /\ \A f \in Fd : batch[f] = {}
      /\ DOMAIN connections = {}
  BY DEF Init
<1> QED BY <1>1 DEF Apart, EventsOnSockets, FilesHeld, OneHolder

LEMMA AInvCorrect == Spec => []AInv
BY AInvInit, AInvStep, PTL DEF Spec

(* No handler closes a connection but its own, whatever is sent, closed    *)
(* and used again: not close_connection, not ~data_info, not ~File         *)
(* (server.hpp:181-239, 355), until a timeout goes astray.                 *)
THEOREM NobodyElseIsClosed == Spec => NoBystander
<1>1. AInv => (alarm.stray \/ \A g \in DOMAIN fdtab \ DOMAIN fdtab' :
        fdtab[g].type = "sock"
          => \A f \in Fd \ {g} : ~(Hangup(f) \/ Readable(f) \/ Writable(f)))
  BY EventApart DEF AInv
<1> QED BY <1>1, AInvCorrect, PTL DEF NoBystander

-----------------------------------------------------------------------------
(* Connections of sft clients.  The hypotheses are what client.hpp and     *)
(* test.cpp do, a download being the last request of a connection, and     *)
(* that no file is cut short while it is sent.                             *)

SftClients ==
  /\ HttpConns = {} /\ ~FilesShrink
  /\ \A p \in Turns : p[1] # "flag" /\ (p[1] = "get" => p[2] = "flag")

(* An entry as good as new, and one whose coroutine waits for an event.    *)
Clean(e) ==
  /\ e.requests = None /\ e.task = NoTask
  /\ e.is_read_awaiting = FALSE /\ e.is_write_awaiting = FALSE

Waiting(e) ==
  /\ e.requests = None
  /\ \/ /\ e.task.at \in {"upload", "flag"}
        /\ e.is_read_awaiting = TRUE /\ e.is_write_awaiting = FALSE
     \/ /\ e.task.at = "send"
        /\ e.is_read_awaiting = FALSE /\ e.is_write_awaiting = TRUE

(* What a run of coroutine t leaves, on a socket like s: nothing; the same *)
(* coroutine, waiting; or only flags, if it could not send.                *)
Leaves(t, s, r) ==
  /\ r.server = "run" /\ Range(r.in) \subseteq Range(s.in)
  /\ r.sent = TRUE => t.at \in {"flag", "send"}
  /\ \/ Clean(r.entry)
     \/ /\ Waiting(r.entry) /\ r.shut = FALSE
        /\ r.entry.task.conn = t.conn /\ r.entry.task.file = t.file
        /\ r.entry.task.at = "upload" \/ t.at \in {"flag", "send"}
     \/ /\ r.entry.requests = None /\ r.entry.task = NoTask /\ r.shut = FALSE
        /\ SendFails(s) /\ t.at \in {"flag", "send"}

(* Bytes left unread are some of those there were.                         *)
LEMMA RestRange ==
  ASSUME NEW q \in Seq(Kinds)
  PROVE  /\ Range(<<>>) = {}
         /\ \A x \in Rests(q) : Range(x) \subseteq Range(q)
         /\ q # <<>> => /\ Range(Tail(q)) \subseteq Range(q)
                        /\ Head(q) \in Range(q)
<1>1. Range(<<>>) = {}
  BY DEF Range
<1>2. ASSUME NEW i \in 2..(Len(q) + 1)
      PROVE  Range(SubSeq(q, i, Len(q))) \subseteq Range(q)
  <2>1. i \in Int /\ Len(q) \in Nat /\ i >= 1  BY LenProperties
  <2>2. \A j \in i..Len(q) : q[j] \in Range(q)
    BY <2>1, LenProperties DEF Range
  <2>3. SubSeq(q, i, Len(q)) \in Seq(Range(q))
    BY <2>1, <2>2, SubSeqProperties
  <2>4. \A x \in Seq(Range(q)) : \A j \in DOMAIN x : x[j] \in Range(q)
    BY ElementOfSeq, LenProperties
  <2> QED BY <2>3, <2>4 DEF Range
<1>3. ASSUME q # <<>>
      PROVE  Range(Tail(q)) \subseteq Range(q) /\ Head(q) \in Range(q)
  <2>1. q \in Seq(Range(q))
    BY LenProperties, SeqDef DEF Range
  <2>2. Head(q) \in Range(q) /\ Tail(q) \in Seq(Range(q))
    BY <1>3, <2>1, HeadTailProperties
  <2>3. \A x \in Seq(Range(q)) : \A j \in DOMAIN x : x[j] \in Range(q)
    BY ElementOfSeq, LenProperties
  <2> QED BY <2>2, <2>3 DEF Range
<1> QED BY <1>1, <1>2, <1>3 DEF Rests

LEMMA UploadSft ==
  ASSUME NEW e \in Entry, NEW t \in Task, NEW s \in View, NEW r \in Result,
         UploadLeaves(e, t, s, r), t.at = "upload",
         e.requests = None, e.is_write_awaiting = FALSE
  PROVE  Leaves(t, s, r)
<1>1. s.in \in Seq(Kinds)
  BY DEF View
<1>2. Range(r.in) \subseteq Range(s.in)
  BY <1>1, RestRange DEF UploadLeaves
<1>3. CASE r.entry.task = NoTask /\ r.entry.is_read_awaiting = FALSE
  BY <1>2, <1>3 DEF UploadLeaves, Leaves, Clean
<1>4. CASE r.entry.task = t /\ r.entry.is_read_awaiting = TRUE /\ r.shut = FALSE
  BY <1>2, <1>4 DEF UploadLeaves, Leaves, Waiting
<1> QED BY <1>3, <1>4 DEF UploadLeaves

LEMMA SendSft ==
  ASSUME ~FilesShrink, NEW e \in Entry, NEW t \in Task, NEW s \in View,
         NEW q \in Seq(Kinds), Range(q) \subseteq Range(s.in), NEW r \in Result,
         SendLeaves(e, t, s, q, r), t.at \in {"flag", "send"}, e.requests = None
  PROVE  Leaves(t, s, r)
<1>1. /\ r.server = "run" /\ r.shut = FALSE /\ r.in = q
      /\ r.entry.requests = None
  BY DEF SendLeaves
<1>2. Done(e).task = NoTask
  BY EntryFields
<1>3. CASE /\ r.entry.task = NoTask
           /\ r.entry.is_read_awaiting = FALSE /\ r.entry.is_write_awaiting = FALSE
  BY <1>1, <1>3 DEF Leaves, Clean
<1>4. CASE /\ r.entry.task.at = "send" /\ r.entry.task.file = t.file
           /\ r.entry.task.conn = t.conn
           /\ r.entry.is_read_awaiting = FALSE /\ r.entry.is_write_awaiting = TRUE
  BY <1>1, <1>4 DEF Leaves, Waiting
<1>5. CASE SendFails(s) /\ r.entry = Done(e)
  BY <1>1, <1>2, <1>5 DEF Leaves
<1> QED BY <1>3, <1>4, <1>5 DEF SendLeaves

LEMMA FlagSft ==
  ASSUME ~FilesShrink, NEW e \in Entry, NEW t \in Task, NEW s \in View,
         NEW r \in Result, r \in FlagLoop(e, t, s), t.at = "flag",
         e.requests = None, e.is_write_awaiting = FALSE
  PROVE  Leaves(t, s, r)
<1>1. s.in \in Seq(Kinds)
  BY DEF View
<1>2. CASE s.in # <<>> /\ SendLeaves(e, t, s, Tail(s.in), r)
  <2>1. Tail(s.in) \in Seq(Kinds) /\ Range(Tail(s.in)) \subseteq Range(s.in)
    BY <1>1, <1>2, RestRange, RestsType
  <2> QED BY <1>2, <2>1, SendSft
<1>3. CASE FlagLeaves(e, t, s, r)
  <2>1. Range(r.in) \subseteq Range(s.in)
    BY <1>1, <1>3, RestRange DEF FlagLeaves
  <2>2. CASE r.entry.task = NoTask
    BY <1>3, <2>1, <2>2 DEF FlagLeaves, Leaves, Clean, NoTask
  <2>3. CASE r.entry.task = t /\ r.shut = FALSE
    BY <1>3, <2>1, <2>3 DEF FlagLeaves, Leaves, Waiting, NoTask
  <2> QED BY <1>3, <2>2, <2>3 DEF FlagLeaves
<1> QED BY <1>2, <1>3, FlagRuns

(* A coroutine of an sft connection that is resumed.                       *)
LEMMA ResumeSft ==
  ASSUME ~FilesShrink, NEW e \in Entry, Waiting(e), NEW h \in 0..MaxFd,
         NEW s \in View, NEW r \in Result, r \in Resume(e, h, s)
  PROVE  Leaves(e.task, s, r)
<1>1. e.task \in Task /\ s.in \in Seq(Kinds) /\ e.requests = None
  BY DEF Entry, View, Waiting
<1>2. CASE e.task.at = "upload"
  <2>1. UploadLeaves(e, e.task, s, r)
    BY <1>1, <1>2, UploadRuns DEF Resume
  <2> QED BY <1>1, <1>2, <2>1, UploadSft DEF Waiting
<1>3. CASE e.task.at = "flag"
  BY <1>1, <1>3, FlagSft DEF Resume, Waiting
<1>4. CASE e.task.at = "send"
  <2>1. SendLeaves(e, e.task, s, s.in, r)
    BY <1>1, <1>4, SendRuns DEF Resume
  <2> QED BY <1>1, <1>4, <2>1, SendSft
<1> QED BY <1>2, <1>3, <1>4 DEF Waiting

(* A request of an sft client on a clean entry starts a coroutine for the  *)
(* connection the request came from, with the file it opened.              *)
StartLeaves(k, h, s, r) ==
  \/ /\ Clean(r.entry) /\ r.server = "run" /\ r.sent = FALSE
     /\ Range(r.in) \subseteq Range(s.in)
  \/ /\ h # 0
     /\ \E t \in Task : /\ t.conn = s.conn /\ t.file = h
                        /\ t.at = "upload" \/ (t.at = "flag" /\ k = "get")
                        /\ Leaves(t, s, r)

LEMMA StartSft ==
  ASSUME ~FilesShrink, NEW e \in Entry, NEW k \in {"file", "mesg", "get"},
         e.requests = k, e.task = NoTask, e.is_read_awaiting = FALSE,
         e.is_write_awaiting = FALSE, NEW h \in 0..MaxFd,
         NEW s \in View, NEW r \in Result, r \in Start(e, h, s)
  PROVE  StartLeaves(k, h, s, r)
<1> DEFINE start == [e EXCEPT !.requests = None]
<1>1. start \in Entry /\ Clean(start)
  BY EntryUpdates DEF Entry, Clean
<1>2. \A p \in Points : LET t == At(p, h, s.conn, None)
                        IN  t \in Task /\ t.file = h /\ t.conn = s.conn /\ t.at = p
  BY AtType DEF View, At
<1>3. Clean(Done(start))
  BY <1>1 DEF Done, Clean, Entry
<1>4. Done(start) \in Entry
  BY <1>1, EntryFields
<1>5. Clean([Done(start) EXCEPT !.is_read_awaiting = FALSE])
  BY <1>3, <1>4, EntryFields DEF Clean
<1>6. Clean([Done(start) EXCEPT !.is_read_awaiting = FALSE, !.is_write_awaiting = FALSE])
  BY <1>3, <1>4, EntryFields DEF Clean
<1> HIDE DEF start
<1>7. \A x, q : /\ Leave(x, q).entry = x /\ Leave(x, q).in = q
               /\ Leave(x, q).server = "run" /\ Leave(x, q).sent = FALSE
  BY DEF Leave
<1>8. \A x, q : /\ Shut(x, q).entry = x /\ Shut(x, q).in = q
               /\ Shut(x, q).server = "run" /\ Shut(x, q).sent = FALSE
  BY DEF Shut, Leave
<1>9. ASSUME NEW x, Clean(x), r = Leave(x, s.in) \/ r = Shut(x, s.in)
      PROVE  StartLeaves(k, h, s, r)
  <2>1. CASE r = Leave(x, s.in)
    BY <1>7, <1>9, <2>1 DEF StartLeaves
  <2>2. CASE r = Shut(x, s.in)
    BY <1>8, <1>9, <2>2 DEF StartLeaves
  <2> QED BY <1>9, <2>1, <2>2
<1>10. CASE k = "mesg"
  <2>1. r = Leave(start, s.in)
    BY <1>10 DEF Start, handle_sft_mesg, start
  <2> QED BY <1>1, <1>9, <2>1
<1>11. CASE k = "file"
  <2> DEFINE t == At("upload", h, s.conn, None)
  <2>1. \/ r = Leave(Done(start), s.in)
        \/ r = Shut([Done(start) EXCEPT !.is_read_awaiting = FALSE], s.in)
        \/ h # 0 /\ r \in UploadLoop(start, t, s)
    BY <1>11 DEF Start, handle_sft_file, start
  <2>2. t \in Task /\ t.file = h /\ t.conn = s.conn /\ t.at = "upload"
    BY <1>2 DEF Points
  <2> HIDE DEF t
  <2>3. CASE h # 0 /\ r \in UploadLoop(start, t, s)
    <3>1. UploadLeaves(start, t, s, r)
      BY <1>1, <2>2, <2>3, UploadRuns
    <3>2. Leaves(t, s, r)
      BY <1>1, <2>2, <3>1, UploadSft DEF Clean
    <3> QED BY <2>2, <2>3, <3>2 DEF StartLeaves
  <2> QED BY <1>3, <1>5, <1>9, <2>1, <2>3
<1>12. CASE k = "get"
  <2> DEFINE t == At("flag", h, s.conn, None)
             over == [Done(start) EXCEPT !.is_read_awaiting = FALSE,
                                         !.is_write_awaiting = FALSE]
  <2>1. \/ r = Leave(Done(start), s.in) \/ r = Leave(over, s.in)
        \/ h # 0 /\ r \in FlagLoop(start, t, s)
        \/ h # 0 /\ r \in SendLoop(start, t, s, s.in)
    BY <1>12 DEF Start, handle_sft_get_file, start
  <2>2. t \in Task /\ t.file = h /\ t.conn = s.conn /\ t.at = "flag"
    BY <1>2 DEF Points
  <2> HIDE DEF t
  <2>3. CASE h # 0 /\ r \in FlagLoop(start, t, s)
    <3>1. Leaves(t, s, r)
      BY <1>1, <2>2, <2>3, FlagSft DEF Clean
    <3> QED BY <1>12, <2>2, <2>3, <3>1 DEF StartLeaves
  <2>4. CASE h # 0 /\ r \in SendLoop(start, t, s, s.in)
    <3>1. s.in \in Seq(Kinds)
      BY DEF View
    <3>2. SendLeaves(start, t, s, s.in, r)
      BY <1>1, <2>2, <2>4, SendRuns
    <3>3. Leaves(t, s, r)
      BY <1>1, <2>2, <3>1, <3>2, SendSft DEF Clean
    <3> QED BY <1>12, <2>2, <2>4, <3>3 DEF StartLeaves
  <2> QED BY <1>3, <1>6, <1>9, <2>1, <2>3, <2>4
<1> QED BY <1>10, <1>11, <1>12

-----------------------------------------------------------------------------
(* What keeps the connections of sft clients apart, besides Apart.         *)

(* The download that f serves has the file that was opened for c, whose    *)
(* client sends nothing but the flag until it is over.                     *)
Serving(f, c) ==
  /\ Held(f) # 0 /\ fdtab[Held(f)] = File(c)
  /\ sock[c].asked \in {"get", "flag"}
  /\ Range(sock[c].in) \cap Requests = {}

(* An entry without a coroutine whose flags were left set: nothing can be  *)
(* sent to c any more, and the next event is its hang-up.                  *)
Doomed(f, c) ==
  /\ connections[f].requests = None /\ connections[f].task = NoTask
  /\ sock[c].peer = "rst" /\ (batch[f] = {} \/ "HUP" \in batch[f])

(* What operator= finds of an earlier connection is as good as new; what   *)
(* waits behind a socket waits for its client.                             *)
OwnEntry(f) ==
  IF IsSocket(f)
  THEN LET c == fdtab[f].conn
           e == connections[f]
       IN  \/ Clean(e)
           \/ /\ Waiting(e) /\ e.task.conn = c
              /\ e.task.at \in {"flag", "send"} => Serving(f, c)
           \/ Doomed(f, c)
  ELSE Clean(connections[f])

(* Clients send what sft has, and after a download request only the flag.  *)
Words ==
  \A c \in Conns :
    /\ Range(sock[c].in) \subseteq SftKinds
    /\ "get" \in Range(sock[c].in) => sock[c].asked = "get"

OwnAll ==
  (\A f \in DOMAIN connections : OwnEntry(f)) /\ Words /\ OwnFile /\ NoCrash

SInv == AInv /\ (alarm.stray \/ OwnAll)

(* What a step leaves alone of number g and whoever has it.                *)
Spared(g) ==
  /\ connections'[g] = connections[g] /\ batch'[g] = batch[g]
  /\ Held(g) # 0 => fdtab'[Held(g)] = fdtab[Held(g)]
  /\ IsSocket(g)' <=> IsSocket(g)
  /\ IsSocket(g) =>
       /\ fdtab'[g] = fdtab[g]
       /\ sock'[fdtab[g].conn].peer = sock[fdtab[g].conn].peer
       /\ sock'[fdtab[g].conn].asked = sock[fdtab[g].conn].asked
       /\ Range(sock'[fdtab[g].conn].in) \subseteq Range(sock[fdtab[g].conn].in)

LEMMA SparedOwn ==
  ASSUME NEW g, OwnEntry(g), Spared(g)
  PROVE  OwnEntry(g)'
<1>1. connections'[g] = connections[g] /\ (IsSocket(g)' <=> IsSocket(g))
  BY DEF Spared
<1>2. CASE ~IsSocket(g)
  BY <1>1, <1>2 DEF OwnEntry
<1>3. CASE IsSocket(g)
  <2> DEFINE c == fdtab[g].conn
  <2>1. fdtab'[g].conn = c
    BY <1>3 DEF Spared
  <2>2. Serving(g, c) => Serving(g, c)'
    BY <1>3 DEF Spared, Serving, Held
  <2>3. Doomed(g, c) => Doomed(g, c)'
    BY <1>3 DEF Spared, Doomed
  <2> HIDE DEF c
  <2> QED BY <1>1, <1>3, <2>1, <2>2, <2>3 DEF OwnEntry, c
<1> QED BY <1>2, <1>3

(* The sockets' bytes only get fewer.                                      *)
Fewer(socks) ==
  \A c \in Conns : /\ socks[c].peer = sock[c].peer /\ socks[c].asked = sock[c].asked
                   /\ Range(socks[c].in) \subseteq Range(sock[c].in)

Grown(tab) ==
  /\ Tables(tab) /\ SameSockets(tab) /\ DOMAIN fdtab \subseteq DOMAIN tab
  /\ \A g \in DOMAIN fdtab : tab[g] = fdtab[g]

LEMMA CloseSpares ==
  ASSUME TypeOK, OneNumber, Apart, Apart', NEW tab, Grown(tab),
         NEW socks, Fewer(socks), NEW T, CloseAll(tab, socks, T),
         NEW g \in DOMAIN connections, g \in DOMAIN connections',
         connections'[g] = connections[g], batch'[g] = batch[g],
         g \notin T \/ ~IsSocket(g)
  PROVE  Spared(g)
<1>1. /\ DOMAIN fdtab' = DOMAIN tab \ T
      /\ \A x \in DOMAIN fdtab' : fdtab'[x] = tab[x]
  BY Closed
<1>2. Held(g) # 0 => fdtab'[Held(g)] = fdtab[Held(g)]
  <2>1. Held(g)' = Held(g)
    BY DEF Held
  <2>2. Held(g) # 0 => Held(g) \in DOMAIN fdtab /\ Held(g) \in DOMAIN fdtab'
    BY <2>1 DEF Apart, FilesHeld
  <2> QED BY <1>1, <2>2 DEF Grown
<1>3. \A x \in DOMAIN tab : tab[x].type = "sock" =>
         \E c \in Conns : tab[x] = Socket(c)
  BY DEF Grown, Tables, IsMap, Object, Socket
<1>4. CASE ~IsSocket(g)
  <2>1. ~IsSocket(g)'
    <3> SUFFICES ASSUME IsSocket(g)' PROVE FALSE
      OBVIOUS
    <3>1. g \in DOMAIN tab /\ tab[g].type = "sock"
      BY <1>1 DEF IsSocket
    <3>2. PICK c \in Conns : tab[g] = Socket(c)
      BY <1>3, <3>1
    <3> QED BY <1>4, <3>1, <3>2 DEF Grown, SameSockets, IsSocket, Socket
  <2> QED BY <1>2, <1>4, <2>1 DEF Spared
<1>5. CASE IsSocket(g)
  <2> DEFINE c == fdtab[g].conn
  <2>1. g \in DOMAIN fdtab' /\ fdtab'[g] = fdtab[g] /\ g \notin T
    BY <1>1, <1>5 DEF Grown, IsSocket
  <2>2. c \in Conns /\ fdtab[g] = Socket(c)
    <3>1. g \in DOMAIN tab /\ tab[g] = fdtab[g] /\ fdtab[g].type = "sock"
      BY <1>5 DEF Grown, IsSocket
    <3>2. PICK d \in Conns : tab[g] = Socket(d)
      BY <1>3, <3>1
    <3> QED BY <3>1, <3>2 DEF Socket
  <2>3. c \notin ClosedBy(tab, T)
    <3> SUFFICES ASSUME NEW x \in T \cap DOMAIN tab, tab[x] = Socket(c) PROVE FALSE
      BY DEF ClosedBy
    <3>1. x \in DOMAIN fdtab /\ fdtab[x] = Socket(c)
      BY DEF Grown, SameSockets
    <3>2. x = g
      BY <1>5, <2>2, <3>1 DEF OneNumber, IsSocket
    <3> QED BY <2>1, <3>2
  <2> HIDE DEF c
  <2>4. sock'[c] = socks[c]
    BY <2>2, <2>3 DEF CloseAll
  <2>5. IsSocket(g)'
    BY <1>5, <2>1 DEF IsSocket
  <2> QED BY <1>2, <1>5, <2>1, <2>2, <2>4, <2>5 DEF Spared, Fewer, c
<1> QED BY <1>4, <1>5

LEMMA CloseWords ==
  ASSUME Words, NEW tab, NEW socks, Fewer(socks), NEW T, CloseAll(tab, socks, T)
  PROVE  Words'
<1> SUFFICES ASSUME NEW c \in Conns
             PROVE  /\ Range(sock'[c].in) \subseteq SftKinds
                    /\ "get" \in Range(sock'[c].in) => sock'[c].asked = "get"
  BY DEF Words
<1>1. Range(<<>>) = {}
  BY EmptySeq, RestRange
<1>2. CASE c \in ClosedBy(tab, T)
  <2>1. sock'[c] = ClosedSock
    BY <1>2 DEF CloseAll
  <2> QED BY <1>1, <2>1 DEF ClosedSock, NewSock
<1>3. CASE c \notin ClosedBy(tab, T)
  <2>1. sock'[c] = socks[c]
    BY <1>3 DEF CloseAll
  <2> QED BY <2>1 DEF Fewer, Words
<1> QED BY <1>2, <1>3

(* What a run on an event of c's socket may come to.                       *)
Proper(c, h, r, tab) ==
  /\ r.server = "run" /\ Range(r.in) \subseteq Range(sock[c].in)
  /\ r.sent = TRUE => Owner(tab, h) = c
  /\ \/ Clean(r.entry)
     \/ /\ Waiting(r.entry) /\ r.shut = FALSE /\ r.entry.task.conn = c
        /\ r.entry.task.at \in {"flag", "send"} =>
             /\ r.entry.task.file # 0 /\ tab[r.entry.task.file] = File(c)
             /\ sock[c].asked \in {"get", "flag"}
             /\ Range(r.in) \cap Requests = {}
     \/ /\ r.entry.requests = None /\ r.entry.task = NoTask
        /\ r.shut = FALSE /\ sock[c].peer = "rst"

(* What the run meets there.                                               *)
LEMMA SocketView ==
  ASSUME TypeOK, NEW f, IsSocket(f), NEW h, NEW s \in Views(f, h)
  PROVE  /\ s.conn = fdtab[f].conn /\ s.conn \in Conns /\ s.conn # None
         /\ fdtab[f] = Socket(s.conn)
         /\ s.in = sock[s.conn].in /\ s.in \in Seq(Kinds)
         /\ s.peer = sock[s.conn].peer
         /\ s.file = (h \in DOMAIN fdtab /\ fdtab[h].type = "file")
<1>1. s.conn = fdtab[f].conn /\ s.in = sock[s.conn].in /\ s.peer = sock[s.conn].peer
  BY DEF Views
<1>2. s.file = (h \in DOMAIN fdtab /\ fdtab[h].type = "file")
  BY DEF Views
<1>3. fdtab[f].conn \in Conns /\ fdtab[f] = Socket(fdtab[f].conn)
  BY DEF IsSocket, TypeOK, IsMap, Object, Socket
<1> QED BY <1>1, <1>2, <1>3, HandlersAssumption DEF TypeOK, SockState

(* What an event other than a hang-up finds: a clean entry, or a coroutine *)
(* of the very connection.                                                 *)
LEMMA EntryFound ==
  ASSUME TypeOK, NEW f \in Fd, IsSocket(f), batch[f] # {}, "HUP" \notin batch[f],
         \A g \in DOMAIN connections : OwnEntry(g)
  PROVE  LET e == EntryAt(f)
             c == fdtab[f].conn
         IN  \/ Clean(e)
             \/ /\ f \in DOMAIN connections /\ e = connections[f]
                /\ Waiting(e) /\ e.task.conn = c
                /\ e.task.at \in {"flag", "send"} => Serving(f, c)
<1>1. CASE f \in DOMAIN connections
  <2>1. OwnEntry(f) /\ EntryAt(f) = connections[f]
    BY <1>1 DEF EntryAt
  <2> QED BY <1>1, <2>1 DEF OwnEntry, Doomed
<1>2. CASE f \notin DOMAIN connections
  BY <1>2 DEF EntryAt, NewEntry, Clean
<1> QED BY <1>1, <1>2

LEMMA ResumedProper ==
  ASSUME ~FilesShrink, TypeOK, Apart, NEW f \in Fd, IsSocket(f), batch[f] # {},
         "HUP" \notin batch[f], \A g \in DOMAIN connections : OwnEntry(g),
         NEW s \in View, NEW h \in 0..MaxFd, NEW r \in Result, NEW tab, NEW closing,
         ResumedRun(f, s, h, r, tab, closing)
  PROVE  s.conn = fdtab[f].conn /\ Proper(s.conn, h, r, tab)
<1> DEFINE e == EntryAt(f)
           c == s.conn
<1>1. e \in Entry /\ (e.is_read_awaiting \/ e.is_write_awaiting)
  BY EntryAtType DEF ResumedRun
<1>2. /\ f \in DOMAIN connections /\ e = connections[f]
      /\ Waiting(e) /\ e.task.conn = fdtab[f].conn
      /\ e.task.at \in {"flag", "send"} => Serving(f, fdtab[f].conn)
  <2>1. ~Clean(e)
    BY <1>1 DEF Clean
  <2> QED BY <2>1, EntryFound
<1> HIDE DEF e
<1>3. e.task.at \in {"upload", "flag", "send"}
  BY <1>2 DEF Waiting
<1>4. /\ s \in Views(f, e.task.file) /\ h = e.task.file
      /\ r \in Resume(e, h, s) /\ tab = fdtab
  BY <1>3 DEF ResumedRun, e
<1>5. Leaves(e.task, s, r)
  BY <1>1, <1>2, <1>4, ResumeSft
<1>6. /\ c = fdtab[f].conn /\ c \in Conns /\ c # None
      /\ s.in = sock[c].in /\ s.peer = sock[c].peer
      /\ s.file = (h \in DOMAIN fdtab /\ fdtab[h].type = "file")
  BY <1>4, SocketView
<1>7. e.task.at \in {"flag", "send"} =>
        /\ h # 0 /\ h \in DOMAIN fdtab /\ fdtab[h] = File(c)
        /\ sock[c].asked \in {"get", "flag"}
        /\ Range(sock[c].in) \cap Requests = {}
  BY <1>2, <1>4, <1>6 DEF Serving, Held, Apart, FilesHeld
<1>8. /\ r.server = "run" /\ Range(r.in) \subseteq Range(sock[c].in)
      /\ r.sent = TRUE => Owner(tab, h) = c
  BY <1>4, <1>5, <1>6, <1>7 DEF Leaves, Owner, File
<1>9. CASE Clean(r.entry)
  BY <1>6, <1>8, <1>9 DEF Proper
<1>10. CASE /\ Waiting(r.entry) /\ r.shut = FALSE
            /\ r.entry.task.conn = e.task.conn /\ r.entry.task.file = e.task.file
            /\ r.entry.task.at = "upload" \/ e.task.at \in {"flag", "send"}
  BY <1>2, <1>4, <1>6, <1>7, <1>8, <1>10 DEF Proper
<1>11. CASE /\ r.entry.requests = None /\ r.entry.task = NoTask
            /\ r.shut = FALSE /\ SendFails(s) /\ e.task.at \in {"flag", "send"}
  <2>1. h \in DOMAIN fdtab /\ fdtab[h].type = "file"
    BY <1>7, <1>11 DEF File
  <2>2. s.file
    BY <1>6, <2>1, Zenon
  <2>3. sock[c].peer = "rst"
    BY <1>6, <1>11, <2>2 DEF SendFails, WriteFails
  <2> QED BY <1>6, <1>8, <1>11, <2>3 DEF Proper
<1> QED BY <1>5, <1>9, <1>10, <1>11 DEF Leaves

LEMMA StartedProper ==
  ASSUME ~FilesShrink, TypeOK, Apart, NEW f \in Fd, IsSocket(f), batch[f] # {},
         "HUP" \notin batch[f], \A g \in DOMAIN connections : OwnEntry(g), Words,
         NEW s \in View, NEW h \in 0..MaxFd, NEW r \in Result, NEW tab, NEW closing,
         NEW k \in Requests, StartedRun(f, k, s, h, r, tab, closing)
  PROVE  s.conn = fdtab[f].conn /\ Proper(s.conn, h, r, tab)
<1> DEFINE e == EntryAt(f)
           c == s.conn
<1>1. /\ e \in Entry /\ ~e.is_read_awaiting /\ k \in Kinds /\ k # None
      /\ s \in Views(f, 0) /\ k \in decide_action(e, s)
      /\ r \in Start(Asked(f, k), h, Drained(s))
  BY EntryAtType, NoneAssumption DEF StartedRun, Requests
<1>2. /\ c = fdtab[f].conn /\ c \in Conns /\ c # None
      /\ s.in = sock[c].in /\ s.in \in Seq(Kinds) /\ s.peer = sock[c].peer
  BY <1>1, SocketView
<1>3. /\ s.peer # "rst"
      /\ e.requests = None => s.in # <<>> /\ k = Head(s.in)
  <2>1. None \notin Requests
    BY NoneAssumption DEF Requests
  <2> QED BY <1>1, <2>1 DEF decide_action
<1>4. e.requests = None => k \in Range(sock[c].in)
  BY <1>2, <1>3, RestRange
<1>5. Clean(e)
  <2>1. ~(Waiting(e) /\ (e.task.at \in {"flag", "send"} => Serving(f, c)))
    <3> SUFFICES ASSUME Waiting(e), e.task.at \in {"flag", "send"} => Serving(f, c)
                 PROVE  FALSE
      OBVIOUS
    <3>1. e.is_read_awaiting # TRUE
      BY <1>1
    <3> HIDE DEF e
    <3>2. e.task.at = "send" /\ e.requests = None
      BY <3>1 DEF Waiting
    <3>3. Range(sock[c].in) \cap Requests = {}
      BY <3>2 DEF Serving
    <3> QED BY <1>4, <3>2, <3>3
  <2> QED BY <1>2, <2>1, EntryFound
<1>6. k \in {"file", "mesg", "get"} /\ (k = "get" => sock[c].asked = "get")
  BY <1>2, <1>4, <1>5 DEF Clean, Words, SftKinds, Requests
<1>7. /\ Asked(f, k) \in Entry /\ Asked(f, k).requests = k
      /\ Asked(f, k).task = NoTask
      /\ Asked(f, k).is_read_awaiting = FALSE /\ Asked(f, k).is_write_awaiting = FALSE
  BY <1>1, <1>5, EntryUpdates DEF Asked, Entry, Clean
<1>8. /\ Drained(s) \in View /\ Drained(s).conn = c /\ Drained(s).in = <<>>
      /\ Drained(s).peer = s.peer /\ Drained(s).file = TRUE
  BY EmptySeq DEF Drained, View
<1>9. StartLeaves(k, h, Drained(s), r)
  BY <1>1, <1>6, <1>7, <1>8, StartSft
<1>10. Range(<<>>) = {}
  BY <1>2, RestRange
<1> HIDE DEF e
<1>11. CASE /\ Clean(r.entry) /\ r.server = "run" /\ r.sent = FALSE
            /\ Range(r.in) \subseteq Range(Drained(s).in)
  BY <1>2, <1>8, <1>10, <1>11 DEF Proper
<1>12. CASE /\ h # 0
            /\ \E t \in Task : /\ t.conn = Drained(s).conn /\ t.file = h
                               /\ t.at = "upload" \/ (t.at = "flag" /\ k = "get")
                               /\ Leaves(t, Drained(s), r)
  <2>1. PICK t \in Task : /\ t.conn = c /\ t.file = h
                          /\ t.at = "upload" \/ (t.at = "flag" /\ k = "get")
                          /\ Leaves(t, Drained(s), r)
    BY <1>8, <1>12
  <2>2. tab = WithFile(c) /\ h = FreeFd
    BY <1>12 DEF StartedRun
  <2>3. h \in DOMAIN tab /\ tab[h] = File(c)
    BY <1>12, <2>2 DEF WithFile, Put
  <2>4. /\ r.server = "run" /\ Range(r.in) = {}
        /\ r.sent = TRUE => Owner(tab, h) = c
    BY <1>8, <1>10, <2>1, <2>3 DEF Leaves, Owner, File
  <2>5. CASE Clean(r.entry)
    BY <1>2, <2>4, <2>5 DEF Proper
  <2>6. CASE /\ Waiting(r.entry) /\ r.shut = FALSE
             /\ r.entry.task.conn = t.conn /\ r.entry.task.file = t.file
             /\ r.entry.task.at = "upload" \/ t.at \in {"flag", "send"}
    BY <1>2, <1>6, <1>12, <2>1, <2>3, <2>4, <2>6 DEF Proper
  <2>7. SendFails(Drained(s)) => FALSE
    BY <1>2, <1>3, <1>8 DEF SendFails, WriteFails
  <2> QED BY <2>1, <2>5, <2>6, <2>7 DEF Leaves
<1> QED BY <1>9, <1>11, <1>12 DEF StartLeaves

-----------------------------------------------------------------------------
(* The actions keep entries with their connections.                        *)

(* Handled(f) is a step of the array's other numbers left alone.           *)
LEMMA HandledOthers ==
  ASSUME TypeOK, NEW x, Handled(x)
  PROVE  \A g \in Fd \ {x} : batch'[g] = batch[g]
BY DEF TypeOK, Handled

(* A run whose result is proper.                                           *)
LEMMA RanOwn ==
  ASSUME TypeOK, OneNumber, Apart, Apart', OwnAll,
         NEW f \in Fd, IsSocket(f), Handled(f),
         NEW s \in View, NEW h, NEW r \in Result, NEW tab, NEW closing,
         Tidy(f, r, tab, closing), Apply(f, s, h, r, tab, closing),
         s.conn = fdtab[f].conn, Proper(s.conn, h, r, tab)
  PROVE  OwnAll'
<1> DEFINE c == s.conn
           T == closing \cup (IF r.shut THEN {f} ELSE {})
           socks == [sock EXCEPT ![c].in = r.in, ![c].full = @ \/ r.full]
<1>1. c \in Conns /\ c # None /\ fdtab[f] = Socket(c) /\ f \in DOMAIN fdtab
  <2>1. fdtab[f].conn \in Conns /\ fdtab[f] = Socket(fdtab[f].conn)
    BY DEF IsSocket, TypeOK, IsMap, Object, Socket
  <2> QED BY <2>1, HandlersAssumption DEF IsSocket
<1>2. CloseAll(tab, socks, T)
  BY <1>1 DEF Apply
<1>3. Grown(tab)
  <2>1. PICK d \in Conns \cup {None} : tab = fdtab \/ tab = WithFile(d)
    BY <1>1 DEF Tidy
  <2>2. Tables(tab) /\ SameSockets(tab)
    BY <2>1, WithFileType, SameTables
  <2>3. DOMAIN fdtab \subseteq DOMAIN tab /\ \A g \in DOMAIN fdtab : tab[g] = fdtab[g]
    BY <2>1, FreeFdType DEF WithFile, Put
  <2> QED BY <2>2, <2>3 DEF Grown
<1>4. Fewer(socks)
  <2>1. Range(r.in) \subseteq Range(sock[c].in) /\ sock[c] \in SockState
    BY <1>1 DEF Proper, TypeOK
  <2>2. ASSUME NEW d \in Conns
        PROVE  /\ socks[d].peer = sock[d].peer /\ socks[d].asked = sock[d].asked
               /\ Range(socks[d].in) \subseteq Range(sock[d].in)
    <3>1. CASE d = c
      <4>1. /\ socks[c].peer = sock[c].peer /\ socks[c].asked = sock[c].asked
            /\ socks[c].in = r.in
        BY <1>1, <2>1 DEF TypeOK, SockState
      <4> QED BY <2>1, <3>1, <4>1
    <3>2. CASE d # c
      BY <3>2 DEF TypeOK
    <3> QED BY <3>1, <3>2
  <2> QED BY <2>2 DEF Fewer
<1>5. socks[c].in = r.in
  BY <1>1 DEF TypeOK, SockState
<1> HIDE DEF socks, T
<1>6. Words'
  BY <1>2, <1>4, CloseWords DEF OwnAll
<1>7. NoCrash' /\ OwnFile'
  <2>1. r.server = "run" /\ (r.sent = TRUE => Owner(tab, h) = c)
    BY DEF Proper
  <2>2. NoCrash'
    BY <2>1 DEF Apply, NoCrash
  <2>3. r.sent \in BOOLEAN
    BY DEF Result
  <2>4. served' = served \/ (Owner(tab, h) = c /\ served' = served \cup {<<Owner(tab, h), c>>})
    BY <2>1, <2>3 DEF Apply
  <2> QED BY <2>2, <2>4 DEF OwnFile, OwnAll
<1>8. /\ DOMAIN connections' = DOMAIN connections \cup {f}
      /\ connections'[f] = r.entry
      /\ \A g \in DOMAIN connections : g # f => connections'[g] = connections[g]
  BY DEF Apply, Put
<1>9. /\ DOMAIN fdtab' = DOMAIN tab \ T
      /\ \A g \in DOMAIN fdtab' : fdtab'[g] = tab[g]
  BY <1>2, Closed
<1>10. \A g \in T : g # f => ~IsSocket(g)
  <2>1. closing \subseteq {EntryAt(f).task.file, FreeFd}
    BY DEF Tidy
  <2>2. EntryAt(f).task.file # 0
          => f \in DOMAIN connections /\ EntryAt(f).task.file = Held(f)
    BY DEF EntryAt, NewEntry, NoTask, Held
  <2>3. ~IsSocket(FreeFd)
    BY FreeFdType, HandlersAssumption DEF IsSocket, Fd, TypeOK, IsMap
  <2>4. ~IsSocket(EntryAt(f).task.file)
    <3>1. 0 \notin DOMAIN fdtab
      BY HandlersAssumption DEF Fd, TypeOK, IsMap
    <3> QED BY <2>2, <3>1 DEF Apart, FilesHeld, IsSocket
  <2> QED BY <2>1, <2>3, <2>4 DEF T
<1>11. ASSUME NEW g \in DOMAIN connections', g # f PROVE OwnEntry(g)'
  <2>1. g \in DOMAIN connections /\ connections'[g] = connections[g]
    BY <1>8, <1>11
  <2>2. g \in Fd
    BY <2>1 DEF TypeOK, IsMap
  <2>3. batch'[g] = batch[g]
    BY <1>11, <2>2, HandledOthers
  <2>4. g \notin T \/ ~IsSocket(g)
    BY <1>10, <1>11
  <2>5. Spared(g)
    BY <1>2, <1>3, <1>4, <1>8, <2>1, <2>3, <2>4, CloseSpares
  <2> QED BY <2>1, <2>5, SparedOwn DEF OwnAll
<1>12. OwnEntry(f)'
  <2>1. CASE Clean(r.entry)
    BY <1>8, <2>1 DEF OwnEntry
  <2>2. CASE ~Clean(r.entry)
    <3>1. f \notin T
      <4>1. closing \subseteq {EntryAt(f).task.file, FreeFd} /\ r.shut = FALSE
        BY <2>2 DEF Tidy, Proper
      <4>2. EntryAt(f).task.file # 0
              => f \in DOMAIN connections /\ EntryAt(f).task.file = Held(f)
        BY DEF EntryAt, NewEntry, NoTask, Held
      <4>3. 0 \notin DOMAIN fdtab
        BY HandlersAssumption DEF Fd, TypeOK, IsMap
      <4>4. FreeFd \notin DOMAIN fdtab
        BY <4>3, FreeFdType
      <4> QED BY <1>1, <4>1, <4>2, <4>3, <4>4 DEF Apart, FilesHeld, IsSocket, T
    <3>2. f \in DOMAIN fdtab' /\ fdtab'[f] = fdtab[f] /\ IsSocket(f)'
      BY <1>1, <1>3, <1>9, <3>1 DEF Grown, IsSocket
    <3>3. fdtab'[f].conn = c
      BY <3>2
    <3>4. c \notin ClosedBy(tab, T)
      <4> SUFFICES ASSUME NEW x \in T \cap DOMAIN tab, tab[x] = Socket(c) PROVE FALSE
        BY DEF ClosedBy
      <4>1. x \in DOMAIN fdtab /\ fdtab[x] = Socket(c)
        BY <1>3 DEF Grown, SameSockets
      <4> QED BY <1>1, <3>1, <4>1 DEF OneNumber
    <3>5. sock'[c] = socks[c]
      BY <1>1, <1>2, <3>4 DEF CloseAll
    <3>6. sock'[c].peer = sock[c].peer /\ sock'[c].asked = sock[c].asked /\ sock'[c].in = r.in
      BY <1>1, <1>4, <1>5, <3>5 DEF Fewer
    <3>7. CASE /\ Waiting(r.entry) /\ r.entry.task.conn = c
               /\ r.entry.task.at \in {"flag", "send"} =>
                    /\ r.entry.task.file # 0 /\ tab[r.entry.task.file] = File(c)
                    /\ sock[c].asked \in {"get", "flag"}
                    /\ Range(r.in) \cap Requests = {}
      <4>1. Held(f)' = r.entry.task.file
        BY <1>8 DEF Held
      <4>2. r.entry.task.file # 0 => r.entry.task.file \in DOMAIN fdtab'
        BY <1>8, <4>1 DEF Apart, FilesHeld
      <4>3. r.entry.task.at \in {"flag", "send"} => Serving(f, c)'
        BY <1>9, <3>6, <3>7, <4>1, <4>2 DEF Serving
      <4> QED BY <1>8, <3>2, <3>3, <3>7, <4>3 DEF OwnEntry
    <3>8. CASE /\ r.entry.requests = None /\ r.entry.task = NoTask
               /\ sock[c].peer = "rst"
      <4>1. batch'[f] = {}
        BY DEF Handled, TypeOK
      <4>2. Doomed(f, c)'
        BY <1>8, <3>6, <3>8, <4>1 DEF Doomed
      <4> QED BY <3>2, <3>3, <4>2 DEF OwnEntry
    <3> QED BY <2>2, <3>7, <3>8 DEF Proper
  <2> QED BY <2>1, <2>2
<1> QED BY <1>6, <1>7, <1>8, <1>11, <1>12 DEF OwnAll

(* Closing connections, with their entries and the files they held.        *)
LEMMA ForgetOwn ==
  ASSUME TypeOK, OneNumber, Apart, Apart', OwnAll, NEW S, Forget(S),
         UNCHANGED served, \A g \in Fd \ S : batch'[g] = batch[g]
  PROVE  OwnAll'
<1> DEFINE T == S \cup UNION {HeldBy(connections[f]) : f \in S \cap DOMAIN connections}
<1>1. CloseAll(fdtab, sock, T) /\ UNCHANGED server
  BY DEF Forget
<1>2. Fewer(sock) /\ Grown(fdtab)
  BY WithFileType, SameTables DEF Fewer, Grown, TypeOK, Tables
<1>3. /\ DOMAIN connections' = DOMAIN connections \ S
      /\ \A g \in DOMAIN connections' : connections'[g] = connections[g]
  BY DEF Forget, Erase, Restrict
<1>4. \A g \in T : g \in S \/ ~IsSocket(g)
  <2>1. \A g \in T : g \in S \/ \E f \in S \cap DOMAIN connections : g = Held(f)
    BY DEF HeldBy, Held
  <2>2. \A f \in DOMAIN connections : ~IsSocket(Held(f))
    <3>1. 0 \notin DOMAIN fdtab
      BY HandlersAssumption DEF Fd, TypeOK, IsMap
    <3> QED BY <3>1 DEF Apart, FilesHeld, IsSocket
  <2> QED BY <2>1, <2>2
<1> HIDE DEF T
<1>5. Words'
  BY <1>1, <1>2, CloseWords DEF OwnAll
<1>6. NoCrash' /\ OwnFile'
  BY <1>1 DEF NoCrash, OwnFile, OwnAll
<1>7. ASSUME NEW g \in DOMAIN connections' PROVE OwnEntry(g)'
  <2>1. g \in DOMAIN connections /\ connections'[g] = connections[g] /\ g \notin S
    BY <1>3
  <2>2. batch'[g] = batch[g]
    BY <2>1 DEF TypeOK, IsMap
  <2>3. g \notin T \/ ~IsSocket(g)
    BY <1>4, <2>1
  <2>4. Spared(g)
    BY <1>1, <1>2, <2>1, <2>2, <2>3, CloseSpares
  <2> QED BY <2>1, <2>4, SparedOwn DEF OwnAll
<1> QED BY <1>5, <1>6, <1>7 DEF OwnAll

LEMMA IgnoredOwn ==
  ASSUME TypeOK, OwnAll, NEW f \in Fd, Ignored(f), Handled(f)
  PROVE  OwnAll'
<1>1. UNCHANGED <<sock, fdtab, server, served>>
  BY DEF Ignored, kernel
<1>2. connections' = Put(connections, f, EntryAt(f))
  BY DEF Ignored
<1>3. \A g \in Fd : batch'[g] = batch[g] \/ batch'[g] = {}
  BY DEF Handled, TypeOK
<1>4. ASSUME NEW g \in DOMAIN connections' PROVE OwnEntry(g)'
  <2>1. CASE g \in DOMAIN connections
    <3>1. connections'[g] = connections[g] /\ g \in Fd
      BY <1>2, <2>1 DEF Put, EntryAt, TypeOK, IsMap
    <3>2. OwnEntry(g)
      BY <2>1 DEF OwnAll
    <3>3. IsSocket(g)' <=> IsSocket(g)
      BY <1>1 DEF IsSocket
    <3>4. \A c : Serving(g, c) => Serving(g, c)'
      BY <1>1, <3>1 DEF Serving, Held
    <3>5. \A c : Doomed(g, c) => Doomed(g, c)'
      BY <1>1, <1>3, <3>1 DEF Doomed
    <3> QED BY <1>1, <3>1, <3>2, <3>3, <3>4, <3>5 DEF OwnEntry
  <2>2. CASE g \notin DOMAIN connections
    <3>1. g = f /\ connections'[g] = NewEntry
      BY <1>2, <2>2 DEF Put, EntryAt
    <3>2. Clean(connections'[g])
      BY <3>1 DEF NewEntry, Clean
    <3> QED BY <3>2 DEF OwnEntry
  <2> QED BY <2>1, <2>2
<1>5. Words' /\ OwnFile' /\ NoCrash'
  BY <1>1 DEF OwnAll, Words, OwnFile, NoCrash
<1> QED BY <1>4, <1>5 DEF OwnAll

(* Every event that the loop handles.                                      *)
LEMMA EventOwn ==
  ASSUME ~FilesShrink, IInv, Apart, OwnAll, NEW f \in Fd,
         Hangup(f) \/ Readable(f) \/ Writable(f)
  PROVE  OwnAll'
<1>1. TypeOK /\ OneNumber /\ Handled(f) /\ batch[f] # {}
  BY DEF IInv, Hangup, Readable, Writable
<1>2. Apart' /\ IsSocket(f)
  BY <1>1, EventApart DEF Apart, EventsOnSockets
<1>3. CASE Forget({f}) /\ UNCHANGED served
  <2>1. \A g \in Fd \ {f} : batch'[g] = batch[g]
    BY <1>1, HandledOthers
  <2> QED BY <1>1, <1>2, <1>3, <2>1, ForgetOwn
<1>4. CASE Ignored(f)
  BY <1>1, <1>4, IgnoredOwn
<1>5. CASE "HUP" \notin batch[f] /\ Ran(f)
  <2>1. PICK s \in View, r \in Result : \E h \in 0..MaxFd : \E tab, closing :
          Run(f, s, h, r, tab, closing) /\ Apply(f, s, h, r, tab, closing)
    BY <1>5 DEF Ran
  <2>2. PICK h \in 0..MaxFd : \E tab, closing :
          Run(f, s, h, r, tab, closing) /\ Apply(f, s, h, r, tab, closing)
    BY <2>1
  <2>3. PICK tab, closing :
          Run(f, s, h, r, tab, closing) /\ Apply(f, s, h, r, tab, closing)
    BY <2>2
  <2>4. Tidy(f, r, tab, closing)
    BY <1>1, <2>3, RunTidy
  <2>5. s.conn = fdtab[f].conn /\ Proper(s.conn, h, r, tab)
    <3>1. CASE ResumedRun(f, s, h, r, tab, closing)
      BY <1>1, <1>2, <1>5, <3>1, ResumedProper DEF OwnAll
    <3>2. CASE \E k \in Requests : StartedRun(f, k, s, h, r, tab, closing)
      BY <1>1, <1>2, <1>5, <3>2, StartedProper DEF OwnAll
    <3> QED BY <2>3, <3>1, <3>2 DEF Run
  <2> QED BY <1>1, <1>2, <2>3, <2>4, <2>5, RanOwn
<1>6. CASE Hangup(f)
  BY <1>3, <1>6 DEF Hangup
<1>7. CASE Readable(f) \/ Writable(f)
  <2>1. "HUP" \notin batch[f]
    BY <1>7 DEF Readable, Writable
  <2> QED BY <1>1, <1>3, <1>4, <1>5, <1>7, <2>1, EventRan
<1> QED BY <1>6, <1>7

(* The client of a download request sends nothing more but the flag.       *)
LEMMA SendOwn ==
  ASSUME SftClients, TypeOK, OwnAll, NEW c \in Conns, NEW k \in Sendable,
         Send(c, k), UNCHANGED <<fdtab, batch, connections>>
  PROVE  /\ Words'
         /\ \A f \in DOMAIN connections : OwnEntry(f)'
<1>1. /\ k \in SftKinds /\ k \in Kinds /\ sock[c].peer = "up"
      /\ <<sock[c].asked, k>> \in Turns
      /\ Range(sock[c].in) \cap Requests = {}
      /\ sock' = [sock EXCEPT ![c].in = Append(@, k), ![c].asked = k]
  BY ReactorAssumption DEF SftClients, Send, InTurn
<1>2. /\ sock'[c].in = Append(sock[c].in, k) /\ sock'[c].asked = k
      /\ sock'[c].peer = "up"
      /\ \A d \in Conns \ {c} : sock'[d] = sock[d]
  BY <1>1 DEF TypeOK, SockState
<1>3. Range(sock'[c].in) \subseteq Range(sock[c].in) \cup {k}
  <2> DEFINE q == sock[c].in
  <2>1. q \in Seq(Kinds)
    BY DEF TypeOK, SockState
  <2> HIDE DEF q
  <2>2. /\ DOMAIN q = 1..Len(q) /\ Len(q) \in Nat
        /\ DOMAIN Append(q, k) = 1..(Len(q) + 1)
        /\ \A i \in 1..Len(q) : Append(q, k)[i] = q[i]
        /\ Append(q, k)[Len(q) + 1] = k
    BY <1>1, <2>1, AppendProperties, LenProperties
  <2>3. Range(Append(q, k)) \subseteq Range(q) \cup {k}
    <3> SUFFICES ASSUME NEW i \in 1..(Len(q) + 1), i # Len(q) + 1
                 PROVE  Append(q, k)[i] \in Range(q)
      BY <2>2 DEF Range
    <3>1. i \in 1..Len(q)
      BY <2>2
    <3> QED BY <2>2, <3>1 DEF Range
  <2> QED BY <1>2, <2>3 DEF q
<1>4. Words'
  <2> SUFFICES ASSUME NEW d \in Conns
               PROVE  /\ Range(sock'[d].in) \subseteq SftKinds
                      /\ "get" \in Range(sock'[d].in) => sock'[d].asked = "get"
    BY DEF Words
  <2>1. CASE d = c
    <3>1. "get" \in Requests
      BY DEF Requests, Kinds, SftKinds
    <3>2. "get" \notin Range(sock[c].in)
      BY <1>1, <3>1
    <3> QED BY <1>1, <1>2, <1>3, <2>1, <3>2 DEF OwnAll, Words
  <2>2. CASE d # c
    BY <1>2, <2>2 DEF OwnAll, Words
  <2> QED BY <2>1, <2>2
<1>5. ASSUME NEW f \in DOMAIN connections PROVE OwnEntry(f)'
  <2>1. OwnEntry(f) /\ (IsSocket(f)' <=> IsSocket(f))
    BY DEF OwnAll, IsSocket
  <2>2. IsSocket(f) => fdtab[f].conn \in Conns
    BY DEF IsSocket, TypeOK, IsMap, Object
  <2>3. ASSUME NEW d \in Conns, Serving(f, d) PROVE Serving(f, d)'
    <3>1. CASE d = c
      <4>1. k = "flag"
        BY <1>1, <2>3, <3>1 DEF Serving, SftClients
      <4>2. "flag" \notin Requests
        BY DEF Requests
      <4> QED BY <1>1, <1>2, <1>3, <2>3, <3>1, <4>1, <4>2 DEF Serving, Held
    <3>2. CASE d # c
      BY <1>2, <2>3, <3>2 DEF Serving, Held
    <3> QED BY <3>1, <3>2
  <2>4. ASSUME NEW d \in Conns, Doomed(f, d) PROVE Doomed(f, d)'
    BY <1>1, <1>2, <2>4 DEF Doomed
  <2> QED BY <2>1, <2>2, <2>3, <2>4 DEF OwnEntry
<1> QED BY <1>4, <1>5

LEMMA ClientOwn ==
  ASSUME SftClients, TypeOK, OwnAll, Client
  PROVE  OwnAll'
<1>1. UNCHANGED <<fdtab, batch, connections, server, served>>
  BY DEF Client, process, Connect, Send, Leaving, Drain
<1>2. OwnFile' /\ NoCrash'
  BY <1>1 DEF OwnAll, OwnFile, NoCrash
<1>3. CASE \E c \in Conns : \E k \in Sendable : Send(c, k)
  <2>1. Words' /\ \A f \in DOMAIN connections : OwnEntry(f)'
    BY <1>1, <1>3, SendOwn
  <2> QED BY <1>1, <1>2, <2>1 DEF OwnAll
<1>4. CASE \E c \in Conns : Connect(c) \/ Drain(c) \/ \E how \in Departures : Leaving(c, how)
  <2>1. \A d \in Conns : /\ sock'[d].in = sock[d].in /\ sock'[d].asked = sock[d].asked
                         /\ sock[d].peer = "rst" => sock'[d].peer = "rst"
    <3>1. PICK c \in Conns :
            Connect(c) \/ Drain(c) \/ \E how \in Departures : Leaving(c, how)
      BY <1>4
    <3>2. CASE Connect(c)
      BY <3>2 DEF Connect, TypeOK, SockState
    <3>3. CASE Drain(c)
      BY <3>3 DEF Drain, TypeOK, SockState
    <3>4. CASE \E how \in Departures : Leaving(c, how)
      BY <3>4 DEF Leaving, TypeOK, SockState
    <3> QED BY <3>1, <3>2, <3>3, <3>4
  <2>2. Words'
    BY <2>1 DEF OwnAll, Words
  <2>3. ASSUME NEW f \in DOMAIN connections PROVE OwnEntry(f)'
    <3>1. OwnEntry(f) /\ (IsSocket(f)' <=> IsSocket(f))
      BY <1>1 DEF OwnAll, IsSocket
    <3>2. IsSocket(f) => fdtab[f].conn \in Conns
      BY DEF IsSocket, TypeOK, IsMap, Object
    <3>3. \A d \in Conns : Serving(f, d) => Serving(f, d)'
      BY <1>1, <2>1 DEF Serving, Held
    <3>4. \A d \in Conns : Doomed(f, d) => Doomed(f, d)'
      BY <1>1, <2>1 DEF Doomed
    <3> QED BY <1>1, <3>1, <3>2, <3>3, <3>4 DEF OwnEntry
  <2> QED BY <1>1, <1>2, <2>2, <2>3 DEF OwnAll
<1> QED BY <1>3, <1>4 DEF Client

(* The entry that accept finds is as good as new.                          *)
LEMMA AcceptOwn ==
  ASSUME TypeOK, Apart, OwnAll, Accept
  PROVE  OwnAll'
<1>1. PICK c \in Conns :
        /\ sock'        = [sock EXCEPT ![c].at = "accepted"]
        /\ fdtab'       = Put(fdtab, FreeFd, Socket(c))
        /\ connections' = Put(connections, FreeFd, EntryAt(FreeFd))
  BY DEF Accept
<1>2. FreeFd \in Fd \ DOMAIN fdtab /\ UNCHANGED <<batch, server, served>>
  BY FreeFdType DEF Accept
<1>3. \A d \in Conns : /\ sock'[d].in = sock[d].in /\ sock'[d].asked = sock[d].asked
                       /\ sock'[d].peer = sock[d].peer
  BY <1>1 DEF TypeOK, SockState
<1>4. Words' /\ OwnFile' /\ NoCrash'
  BY <1>2, <1>3 DEF OwnAll, Words, OwnFile, NoCrash
<1>5. ASSUME NEW g \in DOMAIN connections' PROVE OwnEntry(g)'
  <2>1. CASE g = FreeFd
    <3>1. connections'[g] = EntryAt(g)
      BY <1>1, <2>1 DEF Put
    <3>2. Clean(EntryAt(g))
      <4>1. CASE g \in DOMAIN connections
        <5>1. ~IsSocket(g)
          BY <1>2, <2>1 DEF IsSocket
        <5> QED BY <4>1, <5>1 DEF OwnAll, OwnEntry, EntryAt
      <4>2. CASE g \notin DOMAIN connections
        BY <4>2 DEF EntryAt, NewEntry, Clean
      <4> QED BY <4>1, <4>2
    <3> QED BY <3>1, <3>2 DEF OwnEntry
  <2>2. CASE g # FreeFd
    <3>1. g \in DOMAIN connections /\ connections'[g] = connections[g]
      BY <1>1, <2>2 DEF Put
    <3>2. \A x \in DOMAIN fdtab : x \in DOMAIN fdtab' /\ fdtab'[x] = fdtab[x]
      BY <1>1, <1>2 DEF Put
    <3>3. IsSocket(g)' <=> IsSocket(g)
      BY <1>1, <2>2, <3>2 DEF IsSocket, Put
    <3>4. IsSocket(g) => fdtab'[g] = fdtab[g] /\ fdtab[g].conn \in Conns
      BY <3>2 DEF IsSocket, TypeOK, IsMap, Object
    <3>5. Held(g) # 0 => fdtab'[Held(g)] = fdtab[Held(g)]
      BY <3>1, <3>2 DEF Apart, FilesHeld
    <3>6. Spared(g)
      BY <1>2, <1>3, <3>1, <3>3, <3>4, <3>5 DEF Spared
    <3> QED BY <3>1, <3>6, SparedOwn DEF OwnAll
  <2> QED BY <2>1, <2>2
<1> QED BY <1>4, <1>5 DEF OwnAll

(* epoll reports the hang-up of a connection that was reset.               *)
LEMMA EpollWaitOwn ==
  ASSUME TypeOK, OwnAll, EpollWait
  PROVE  OwnAll'
<1>1. UNCHANGED <<sock, fdtab, connections, server, served>>
  BY DEF EpollWait, process
<1>2. \A f \in Fd : IsSocket(f) /\ sock[fdtab[f].conn].peer = "rst"
        => batch'[f] = {} \/ "HUP" \in batch'[f]
  <2>1. DOMAIN batch = Fd \cup {Listener, SigPipe}
    BY DEF TypeOK
  <2>2. \A f \in Fd : IsSocket(f) => batch'[f] \in {{}, Mask(fdtab[f].conn)}
    BY <2>1 DEF EpollWait
  <2> QED BY <2>2 DEF Mask
<1>3. ASSUME NEW f \in DOMAIN connections PROVE OwnEntry(f)'
  <2>1. OwnEntry(f) /\ (IsSocket(f)' <=> IsSocket(f)) /\ f \in Fd
    BY <1>1 DEF OwnAll, IsSocket, TypeOK, IsMap
  <2>2. \A d : Serving(f, d) => Serving(f, d)'
    BY <1>1 DEF Serving, Held
  <2>3. IsSocket(f) /\ Doomed(f, fdtab[f].conn) => Doomed(f, fdtab[f].conn)'
    BY <1>1, <1>2, <2>1 DEF Doomed
  <2> QED BY <1>1, <2>1, <2>2, <2>3 DEF OwnEntry
<1>4. Words' /\ OwnFile' /\ NoCrash'
  BY <1>1 DEF OwnAll, Words, OwnFile, NoCrash
<1> QED BY <1>1, <1>3, <1>4 DEF OwnAll

(* A tick closes with every connection its entry.                          *)
LEMMA TickOwn ==
  ASSUME TypeOK, OneNumber, Apart, Apart', OwnAll, Tick
  PROVE  OwnAll'
<1>1. PICK S \in clear_expired : Forget(S)
  BY DEF Tick
<1>2. Handled(SigPipe) /\ SigPipe \notin Fd /\ UNCHANGED served
  BY ReactorAssumption DEF Tick
<1>3. \A g \in Fd \ S : batch'[g] = batch[g]
  BY <1>2, HandledOthers
<1> QED BY <1>1, <1>2, <1>3, ForgetOwn

LEMMA SInvStep == SftClients /\ SInv /\ [Next]_vars => SInv'
<1> SUFFICES ASSUME SftClients, SInv, [Next]_vars, ~alarm'.stray PROVE OwnAll'
  BY AInvStep DEF SInv
<1>1. IInv /\ TypeOK /\ OneNumber /\ ~alarm.stray /\ ~FilesShrink
  BY StrayStays DEF SInv, AInv, IInv, SftClients
<1>2. Apart /\ Apart' /\ OwnAll
  BY <1>1, AInvStep DEF SInv, AInv
<1>3. CASE UNCHANGED vars \/ Alarm
  <2>1. UNCHANGED <<sock, fdtab, batch, connections, server, served>>
    BY <1>3 DEF vars, Alarm, kernel
  <2>2. \A f \in DOMAIN connections : OwnEntry(f)'
    <3>1. \A f \in DOMAIN connections : OwnEntry(f) /\ (IsSocket(f)' <=> IsSocket(f))
      BY <1>2, <2>1 DEF OwnAll, IsSocket
    <3>2. \A f, c : (Serving(f, c)' <=> Serving(f, c)) /\ (Doomed(f, c)' <=> Doomed(f, c))
      BY <2>1 DEF Serving, Doomed, Held
    <3> QED BY <2>1, <3>1, <3>2 DEF OwnEntry
  <2> QED BY <1>2, <2>1, <2>2 DEF OwnAll, Words, OwnFile, NoCrash
<1>4. CASE Client
  BY <1>1, <1>2, <1>4, ClientOwn
<1>5. CASE EpollWait
  BY <1>1, <1>2, <1>5, EpollWaitOwn
<1>6. CASE Accept
  BY <1>1, <1>2, <1>6, AcceptOwn
<1>7. CASE AcceptEnd
  <2>1. UNCHANGED <<sock, fdtab, connections, server, served>>
    BY <1>7 DEF AcceptEnd, kernel, process
  <2>2. \A f \in Fd : batch'[f] = batch[f]
    BY <1>1, <1>7, ReactorAssumption, HandledOthers DEF AcceptEnd
  <2>3. \A f \in DOMAIN connections : OwnEntry(f)'
    <3>1. \A f \in DOMAIN connections :
            f \in Fd /\ OwnEntry(f) /\ (IsSocket(f)' <=> IsSocket(f))
      BY <1>1, <1>2, <2>1 DEF OwnAll, IsSocket, TypeOK, IsMap
    <3>2. \A f, c : Serving(f, c)' <=> Serving(f, c)
      BY <2>1 DEF Serving, Held
    <3>3. \A f \in Fd : \A c : Doomed(f, c)' <=> Doomed(f, c)
      BY <2>1, <2>2 DEF Doomed
    <3> QED BY <2>1, <3>1, <3>2, <3>3 DEF OwnEntry
  <2> QED BY <1>2, <2>1, <2>3 DEF OwnAll, Words, OwnFile, NoCrash
<1>8. CASE Tick
  BY <1>1, <1>2, <1>8, TickOwn
<1>9. CASE \E f \in Fd : Hangup(f) \/ Readable(f) \/ Writable(f)
  BY <1>1, <1>2, <1>9, EventOwn
<1> QED BY <1>3, <1>4, <1>5, <1>6, <1>7, <1>8, <1>9 DEF Next, Loop

LEMMA SInvInit == Init => SInv
<1> SUFFICES ASSUME Init PROVE OwnAll
  BY AInvInit DEF SInv
<1>1. \A c \in Conns : sock[c].in = <<>>
  BY DEF Init, NewSock
<1>2. Range(<<>>) = {}
  BY EmptySeq, RestRange
<1> QED BY <1>1, <1>2 DEF Init, OwnAll, Words, OwnFile, NoCrash

LEMMA SInvCorrect == SftClients => (Spec => []SInv)
<1> SUFFICES ASSUME SftClients PROVE Spec => []SInv
  OBVIOUS
<1>1. SInv /\ [Next]_vars => SInv'
  BY SInvStep
<1> QED BY <1>1, SInvInit, PTL DEF Spec

(* With sft clients, an event resumes the coroutine of the connection that *)
(* has the number now, or the connection is about to be closed             *)
(* (server.hpp:52, 181-239), as long as no timeout went astray.            *)
THEOREM TasksAreOwn == SftClients => (Spec => [](alarm.stray \/ OwnTask))
<1> SUFFICES ASSUME SftClients PROVE Spec => [](alarm.stray \/ OwnTask)
  OBVIOUS
<1>1. SInv => alarm.stray \/ OwnTask
  <2> SUFFICES ASSUME TypeOK, \A f \in DOMAIN connections : OwnEntry(f),
                      NEW f \in DOMAIN fdtab \cap DOMAIN connections, NEW c \in Conns,
                      fdtab[f] = Socket(c), sock[c].peer # "rst",
                      connections[f].is_read_awaiting \/ connections[f].is_write_awaiting
               PROVE  connections[f].task.at # "none" /\ connections[f].task.conn = c
    BY DEF SInv, AInv, IInv, OwnAll, OwnTask
  <2>1. IsSocket(f) /\ fdtab[f].conn = c
    BY DEF IsSocket, Socket
  <2>2. ~Clean(connections[f])
    BY DEF Clean
  <2>3. ~Doomed(f, c)
    BY DEF Doomed
  <2>4. Waiting(connections[f]) /\ connections[f].task.conn = c
    BY <2>1, <2>2, <2>3 DEF OwnEntry
  <2> QED BY <2>4 DEF Waiting
<1> QED BY <1>1, SInvCorrect, PTL

(* With sft clients, what is sent of a file goes to the connection the     *)
(* file was opened for (server.hpp:406), as long as no timeout went        *)
(* astray.                                                                 *)
THEOREM FilesAreOwn == SftClients => (Spec => [](alarm.stray \/ OwnFile))
<1> SUFFICES ASSUME SftClients PROVE Spec => [](alarm.stray \/ OwnFile)
  OBVIOUS
<1>1. SInv => alarm.stray \/ OwnFile
  BY DEF SInv, OwnAll
<1> QED BY <1>1, SInvCorrect, PTL

(* With sft clients, no event resumes a coroutine that has returned        *)
(* (server.hpp:203, 237), as long as no timeout went astray.               *)
THEOREM NoneResumedAfterItsEnd == SftClients => (Spec => [](alarm.stray \/ NoCrash))
<1> SUFFICES ASSUME SftClients PROVE Spec => [](alarm.stray \/ NoCrash)
  OBVIOUS
<1>1. SInv => alarm.stray \/ NoCrash
  BY DEF SInv, OwnAll
<1> QED BY <1>1, SInvCorrect, PTL

(* Nothing strays before the first alarm.                                  *)
Punctual ==
  alarm.sent = 0 => ~alarm.pending /\ batch[SigPipe] = {} /\ ~alarm.stray

LEMMA PunctualStep == TypeOK /\ Punctual /\ [Next]_vars => Punctual'
<1> SUFFICES ASSUME TypeOK, Punctual, [Next]_vars PROVE Punctual'
  OBVIOUS
<1>1. SigPipe \notin Fd /\ SigPipe # Listener /\ SigPipe \notin Conns
  BY ReactorAssumption
<1>2. CASE UNCHANGED vars \/ Client \/ Accept
  BY <1>2 DEF vars, Client, Accept, Punctual
<1>3. CASE Alarm
  <2>1. alarm'.sent # 0
    BY <1>3 DEF Alarm, TypeOK
  <2> QED BY <2>1 DEF Punctual
<1>4. CASE EpollWait
  <2>1. alarm.pending = FALSE => batch'[SigPipe] = {}
    BY <1>1, <1>4 DEF EpollWait, TypeOK
  <2> QED BY <1>4, <2>1 DEF EpollWait, Punctual, TypeOK
<1>5. CASE Tick
  <2>1. alarm'.sent = alarm.sent /\ alarm.sent # 0
    BY <1>5 DEF Tick, TypeOK, Punctual
  <2> QED BY <2>1 DEF Punctual
<1>6. CASE AcceptEnd \/ \E f \in Fd : Hangup(f) \/ Readable(f) \/ Writable(f)
  <2>1. UNCHANGED alarm /\ \E x \in Fd \cup {Listener} : Handled(x)
    BY <1>6 DEF AcceptEnd, Hangup, Readable, Writable
  <2>2. batch'[SigPipe] = batch[SigPipe]
    BY <1>1, <2>1 DEF Handled, TypeOK
  <2> QED BY <2>1, <2>2 DEF Punctual
<1> QED BY <1>2, <1>3, <1>4, <1>5, <1>6 DEF Next, Loop

(* With sft clients, and before any timeout, all three hold as they stand: *)
(* no coroutine is resumed for another connection or after its end, and no *)
(* file goes to another client (server.hpp:52, 203, 237, 406).             *)
THEOREM OwnBeforeAlarms ==
  SftClients => (Spec => [](alarm.sent = 0 => OwnTask /\ OwnFile /\ NoCrash))
<1> SUFFICES ASSUME SftClients
             PROVE  Spec => [](alarm.sent = 0 => OwnTask /\ OwnFile /\ NoCrash)
  OBVIOUS
<1>1. Init => Punctual
  BY DEF Init, Punctual
<1>2. Spec => []Punctual
  BY <1>1, PunctualStep, TypeCorrect, PTL DEF Spec
<1>3. Punctual /\ (alarm.stray \/ OwnTask) /\ (alarm.stray \/ OwnFile)
        /\ (alarm.stray \/ NoCrash) => (alarm.sent = 0 => OwnTask /\ OwnFile /\ NoCrash)
  BY DEF Punctual
<1> QED BY <1>2, <1>3, TasksAreOwn, FilesAreOwn, NoneResumedAfterItsEnd, PTL

=============================================================================
