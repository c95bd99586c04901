# simple-file-transfer in TLA+

Models, model checks and proofs of the server, the client, the parsers and the
thread pool of `simple-file-transfer`: a small C++ program that moves files between two
machines over a protocol of its own ("sft"), and that is an HTTP server for a
directory as well. Paths below are relative to the repository (`src/`).

- [The system](#the-system)
- [The modules](#the-modules)
- [The runs](#the-runs)
- [Fairness](#fairness)
- [The proofs](#the-proofs)
- [What the models say of the code](#what-the-models-say-of-the-code)
- [What is not modelled](#what-is-not-modelled)
- [Plan](#plan)

## The system

One process is the server; it has one thread. Clients are separate processes,
each makes one connection. Nothing but the files outlives a process.

| component | where | state | operations |
|---|---|---|---|
| server loop | `src/server.hpp:108-244` (`receive_loop::loop`), `src/epoll_utility.hpp` | `connections` (descriptor → `data_info`), `clock`, the epoll set, the array `events` | one `epoll_wait`; for each event: accept until `EAGAIN`, hang-up, tick of the alarm, readable, writable |
| request handlers | `src/server.hpp:246-605` | the coroutine's locals: its file, its buffer, offsets; `requests`, `is_read_awaiting`, `is_write_awaiting` of its `data_info` | `decide_action`, `handle_sft_file`, `handle_sft_mesg`, `handle_sft_get_file`, `handle_http`, `close_connection` |
| idle timer | `include/util.hpp:157` (`timer`) | a map from descriptor to time of last use | `insert_or_update`, `erase_value`, `clear_expired` |
| coroutine handle | `include/coroutine.hpp` | one `std::coroutine_handle` | start, `resume`, move (destroys the old one), destroy |
| client | `src/client.hpp`, `src/main.cpp` | a blocking socket, a file | `send_file_to`, `send_msg_to`, `get_file_from` |
| thread pool | `src/thread_pool.hpp` | `sync_queue`, `m_shutdown`, `m_mutex`, `m_cv`, the threads | `submit_to_pool`, a worker's loop, `shutdown_pool` |
| I/O classes | `include/io.hpp` | descriptors | open, accept, read, write, close on destruction |
| HTTP text | `include/http.hpp`, `include/special_response.h` | none | parse a request, decode a URL, format headers and pages |
| configuration | `include/json.hpp`, `sft.json`, `src/server.hpp:115-141` | a tree of values, from which `json_conf` and the port are made | parse once, at start |
| command line | `src/main.cpp:92-163` | the options given | `getopt`, the checks of the address and the file, which of server and client calls follows |
| logger | `src/logger.hpp` | the open log file and its date | append a line, roll over at midnight |

How they interact:

- A client writes a request and the server writes back one byte (`1`: go
  ahead) or a short header. What follows is raw file data, with no framing:
  each side counts bytes.
- All of the server's sockets are **edge-triggered** (`EPOLLET`): epoll
  reports a change once. What a handler does not read, or does not write, is
  only looked at again after another change.
- A handler is a coroutine. `EAGAIN` sets `is_read_awaiting` or
  `is_write_awaiting` and `co_yield`s; the loop resumes it when the socket's
  next event comes. These two flags and the coroutine live in the
  `data_info` that `connections` keeps **by descriptor number**, and so does
  the timer. The kernel reuses numbers at once, for sockets *and* for the
  files handlers open.
- A handler may close its own connection (`close_connection`) but cannot erase
  its entry from `connections`: the entry stays, and the next connection with
  that number moves its socket into it (`operator=`, `src/server.hpp:52-58`),
  which resets neither task nor flags nor request.
- `SIGALRM` writes a byte to a pipe, which is in the epoll set too; the loop
  then closes the connections whose timer has expired. Some of them may have
  an event left in the array the loop is working through.
- The thread pool is used by no other file of the repository.

What is hard, and what makes each part correct:

| part | hard behaviour | correct if |
|---|---|---|
| server loop | events that are stale when they are handled; reused numbers; entries and timers that outlive their connection; one event standing for three changes; `accept` failing behind an edge-triggered listener | every open socket can still be closed; no hang-up and no waiting connection is forgotten; a timer is that of the connection that has the number; input never stays without an event to come |
| handlers | a flag that outlives its coroutine; every exit path; a file that shrinks; a reset in the middle of a page | an event only resumes a coroutine that is suspended and that belongs to the connection; file data only goes where it was asked for; no handler closes somebody else's descriptor |
| upload | reads split anywhere; two buffer paths; a client that dies, or leaves right after the last byte; a request behind the file | "Success" means the file is exact; "incomplete" means something is missing; what was sent is received |
| download | an edge-triggered socket that is written; the client's flag, which comes like a request; two buffer paths; a file that shrinks; a server that closes in the middle | "Success" means the file is exact; the flag is taken for a flag; nothing is resumed after it returned; the download ends |
| HTTP session | one string for all requests of a connection, cleared as a whole; requests pipelined, or in two segments; pages that wait for room; a header that throws in the middle | a client that waits gets its answers, each right, in order, as long as announced and to its end; nothing that was answered with a page is answered again |
| parsers | escapes that meet, separators inside values, texts cut short, empty names, options in any order | what was written down is read back, or refused where the parser has a limit; what is incomplete is not taken for whole; nobody gets a transfer that was not asked for |
| thread pool | notifications that fall between a worker's test and its wait; shutdown racing with everything | at most once, in order, never after shutdown; nothing waits for ever |

`PROJECT.json` lists the individual hazards, each with its line and the
properties that cover it.

## The modules

| module | what it is |
|---|---|
| `Handlers` | every handler as a function of its entry and the socket it finds, giving the *set* of results one run can have |
| `Reactor` | the loop, the kernel's side of it, and the clients; EXTENDS `Handlers` |
| `Upload` | one upload byte by byte: `send_file_to` against `handle_sft_file` |
| `Download` | one download byte by byte: `handle_sft_get_file` against `get_file_from` |
| `Transfer` | abstract: what a file transfer promises; implemented by `Upload` and by `Download` |
| `Bytes` | bytes of a stream named by their position; used by these three |
| `HttpSession` | one keep-alive connection through `handle_http`, request by request and `sendfile64` by `sendfile64`, and what the client gets |
| `HttpText` | `decode_url`, `parse_http_request` and the range of `handle_http`, one turn of a loop after the other |
| `Numbers` | the numbers of `std::stol` and `std::stoll`, and `LongMax` behind which they throw; used by these two |
| `Json` | `json_parser`, token by token, with the calls that have not returned |
| `Startup` | `main`'s reading of its arguments and `loop`'s of `sft.json`; EXTENDS `Json` |
| `Parsing` | each parser is run once, on an input that was written down in a known way; EXTENDS `HttpText` and `Startup` |
| `TaskPool` | abstract: what a thread pool promises |
| `ThreadPool` | `thread_pool.hpp`, shown to implement `TaskPool` |
| `ReactorProof`, `ApartProof`, `BytesProof`, `UploadProof`, `DownloadProof`, `ThreadPoolProof`, `HttpSessionProof`, `ParsingProof` | theorems and proofs |
| `MCReactor`, `MCUpload`, `MCDownload`, `MCThreadPool`, `MCHttpSession`, `MCParsing` | constants for TLC |

A definition that follows the comment "Mutant of X" is X with a plausible
mistake in it. No specification uses one; they show that the properties of the
runs depend on the code being as it is.

### Handlers and Reactor

| model | code |
|---|---|
| `fdtab` | the process's descriptor table: which of the numbers `1..MaxFd` is a socket, or a file and for whom it was opened |
| `sock[c]` | the connection as the kernel has it: in the backlog, accepted or closed; unread input; whether the peer is up, has sent FIN or RST; whether the send buffer is full |
| `ready` | epoll's ready list: an edge puts an item there, `epoll_wait` takes it off |
| `batch` | `events[]`: what the last `epoll_wait` reported, by number, and is not yet handled |
| `connections[f]` | `data_info`: `requests`, the two flags, and `task`: where the coroutine is suspended, the file it holds, whose it is |
| `clock[f]` | the entry of `timer`, as the number of alarms (0, 1, or 2 for more) since its last update |
| `Accept`, `AcceptEnd` | one turn of the accept loop (`src/server.hpp:164-178`); a step each, so that clients come in between |
| `Hangup`, `Tick`, `Readable`, `Writable` | the branches of the loop (`179-239`), handler run included |
| `Start`, `Resume` | `task = handle_...(fd)` and `task.resume()` |
| `Forget`, `Apply` | what destroying an entry, or a run of a handler, does to the tables |

A handler's run, from the event that starts it to its next `co_yield` or
`co_return`, is one step: there is one thread, and what clients do in the
middle of a run shows at its reads and writes as one of the outcomes the set
has anyway. The order of events inside one batch is left open (any event of
`batch` may be handled next), which includes the order in which epoll put them.

Abstractions, all of which add behaviour or leave out what no property is
about:

- A request or a piece of file data is a *kind* (`Kinds`), named by what the
  server makes of it. How much of it arrived is in `Upload`, not here:
  `UploadLoop` may complete with any part of the input.
- A file that is opened may exist, be missing, or not be a regular file. With
  `FilesShrink` it may become shorter while it is sent.
- A number that belongs to a file when a stale event is handled can be *read*
  as if it was a socket: its contents are any input (`Views`).
- The flag of a download may have arrived when the handler first looks for it:
  the first `recv` may find it without a wait.
- `errno` left over from an earlier call, which `decide_action` and
  `handle_sft_get_file` look at after a call that returned 0, is either
  `EAGAIN` or not.
- `crash` is the resumption of a coroutine that has returned (undefined: the
  resume pointer of a finished frame is null), or an index into an empty vector; `spin` is
  a loop in a handler that never ends. Both end the process for everybody.
- `alarm.stray` is a history variable: a tick closed a number that has an event left in
  `events[]`, or that belongs to a file by now (`Strays`). From there on the event is taken for one of whoever
  gets the number next, and things can go wrong that do not before (see
  [below](#what-the-models-say-of-the-code)).
- An alarm makes timers of the interval that just ended possibly one interval
  old (`Expired`), since the clock counts seconds and the alarm may be late.
- Leaving the loop by a signal ends the process and is not a step.

### Upload

A byte is its position in the stream that the client sends after its request,
so that "the file is exact" is `saved = <<1, ..., size>>`. The variables are
those of `handle_sft_file` (`ret`, `bytesWritten` = `taken`,
`is_read_awaiting`), the stream, and the one item of epoll. Each `read(2)` is
a step, and takes as many bytes as it likes of those that are there: sends,
reads, edges and the departure of the client interleave freely. A file below
`MAXARRSZ` is buffered whole; another is written whenever at most `NUMSTOP`
bytes of the buffer are free.

The upload's request is read before the model starts (`Start` is
`decide_action` and the handler up to its first read). `SockBuf`
bounds the file's bytes in flight; the follow-up request is one byte on top.

With `DiskFills`, a `write(2)` may store a part of what it is given (`Store`;
`lost` remembers it) or fail (`WriteFails`). `basic_io::write` returns the count
(`include/io.hpp:56-69`) and `handle_sft_file` does not look at it, so that a
disk that was full once leaves a hole in the middle and the upload goes on; an
error is an `IO_exception`, which closes the connection. A client that is still
sending then gets an error from `sendfile` and goes on as if it had finished
(`SendFails`).

### Download

| model | code |
|---|---|
| `handler`, `running` | where `handle_sft_get_file` is, and whether it is running or suspended; `done`: returned at its end, `failed`: returned from within, or destroyed |
| `sent` | `off`, what `sendfile` has taken of the file; `size - sent` is `send_size` |
| `length` | the file's length now, which `Shrink` lowers; `size` is what the header said |
| `flag` | the byte `1` with which the client answers the header |
| `edge`, `event` | the socket on epoll's ready list, and what `epoll_wait` reported |
| `client` | where `get_file_from` is, and what came of it: `done`, `left` (success printed), `exited` ("File might not be found"), `thrown` (an exception that nobody catches), `spin` (an endless loop), `died` |
| `got`, `ret`, `saved` | bytes read, bytes in `bufferForFile`, the client's file |

Each `sendfile`, `recv` and `read` is a step. Room in the send buffer is an
edge only if the buffer was full, as in the kernel. The model starts with the
file found and opened. `sendfile` at the end of a file that became shorter
returns 0, and what the handler does then depends on an `errno` that an earlier call
left: both are possible (`SendNothing`). `Cut` is the server closing of its own
accord: its process ends, or a tick finds the timer expired. The client's socket
blocks and its disk takes what it is given.

### Transfer

`Grow`: the receiver's file is a longer prefix of the sender's. `Succeed`, `Fail`:
the verdict, once, with the whole file, or with a prefix and perhaps zeroes.
`Cut`: the sender closed early, which is the only thing that may make less than
the file pass for success, unless (`Lose`) the receiver's disk stored less than
it was given: the file is shorter than the sender's then, whatever is reported.
The verdict of `Upload` is what the server logs and `cut` is never set; that of
`Download` is what the client prints or throws, and `lost` is never set.

### HttpSession

| model | code |
|---|---|
| `asks`, `client` | the requests sent so far; whether the client has always waited for the answer |
| `in` | segments in the server's socket; a request is one, or two (`head`, `tail`) |
| `requests` | the string of `data_info`: the segments that `decide_action` or `handle_http` has read and `clear()` has not removed |
| `handler` | where the coroutine is: in `decide_action`, reading, parsing, in the page loop, suspended in it (`page`) or at `next_round` (`next`) |
| `page` | `off`, `sz`, and whether the connection is closed behind it |
| `unread`, `replies` | the send buffer with what the client has not read; what the client gets: each header with the bytes behind it |
| `Decide`, `Resume`, `ReadSome`, `ReadAll` | the loop's two ways into the handler (`src/server.hpp:198-206`), and the reading of a request |
| `Meanings`, `NoPage`, `StartPage`, `Garbled` | `parse_http_request` and the answers: what the first request in the string may be taken for; an error or "not modified"; the header of a page; a scan that reads on behind the string |
| `SendSome`, `Yield`, `SendFails`, `SentAll` | one `sendfile64` and what it leads to (`556-575`) |

A request is what the server makes of it (`Ask`), a page has `Size` bytes, and
a header is one unit of the send buffer. `Length` and `page` follow the code's
arithmetic on signed numbers: a length that would wrap is negative.
The client stays to the end of the model; one that leaves is in `Reactor`.

A request in two segments is split between two of its lines. If the head is parsed on its own, the header lines
in the tail are missing; the tail is then parsed as a request of its own, whose path is what the
scan for a `/` and the next blank comes upon (`include/http.hpp:235-241`): it may be a file
that is there, or empty, which is the default page. So one request may get two pages, one for each segment, and
`Meanings` says so. All pages have the same `Size`. A tail that begins with a letter `decide_action` knows as another
kind of request goes to that handler (`handler = "other"`), which is not followed here.
A range that `stol` refuses is answered like a request that is refused, 403, behind `clear()`.

### HttpText, Json, Startup and Parsing

A step is a turn of a parser's loop; `state` has the parser's variables, and where
in the text it is.

| model | code |
|---|---|
| `UrlStart`, `decode_url` | what is in front of the loop of `decode_url`, and one `%` with what follows it up to the next |
| `RequestStart`, `parse_http_request` | the request line; a header, or the end of them and what was posted |
| `RangeStart`, `RangeOf` | where a `Range` begins; one digit of a number, or its end, or that it is too large |
| `JsonStart`, `json_parser` | one character or token for whoever of `parse_val`, `parse_array` and `parse_kv` is at it. `call` is the stack: each call of `parse_array` and `parse_kv` with what it has so far and with the one (`up`) that made it; `Return` hands a value to it |
| `ConfigStart`, `open_read_only`, `configure` | opening `sft.json`, which may be missing; `json_conf` and the port, once it is parsed |
| `MainStart`, `main` | one argument, or one letter of several options in one, for `getopt`; then what `main` does (`Decision`) |

Abstractions: for `decode_url` a text is a sequence of character codes, and a `char` is computed
modulo 256; elsewhere a character is a string, a blank is `Space`, CR LF is one
character, and a JSON text is a sequence of tokens (`Json` says which). A JSON number or
string is one token, and the search for the closing quote is left
out; a number above `LongMax` throws. An argument of `main` is a sequence of characters; `Addresses` are
those with a colon and `Paths` those that are readable files. What parsed a request is one map (`map`), as in the
code: headers, `path` and `post_content` share it.

How an input is written is a relation between the text and what it was written from
(`UrlWritten`, `HeadWritten`, `SpanWritten`, `JsonWritten`, `ConfigWritten`). It does not have all that URLs, HTTP and
JSON allow:

- `UrlWritten`: escapes are complete and in upper case.
- `HeadWritten`: a `GET` with a path behind its first `/`. A header has any name without a colon,
  also that of another header or one of the map's own, and behind its colon anything, nothing and
  no blank included. Names are compared as they are.
- `SpanWritten`: one range, of two numbers or none, of any length and in the file or not; no
  signs, no blanks, no lists of ranges.
- `JsonWritten`: blanks and line ends wherever JSON has them, numbers with a sign, a point or an exponent (a "-" of
  the model each), and texts that end too early. No key comes twice (`emplace`
  keeps the first), and strings have no escapes, since `parse_str` knows none.
- `ConfigWritten`: `JsonWritten` of an object, with any keys and values. The file may be missing, but is not a
  directory (that is a `std::exception`, and leaves `json_conf` empty like a text that does not parse).
- Arguments of `main`: any.

An input also has the place in the text of each of its
parts (`at`), what the digits of a number make (`sums`), or what a JSON text wants
at each place and inside of what (`marks`, one step of `After` for each token), so that the relations
speak of neighbours only. `ParsingAssumption` says that all inputs are written so; `MCParsing` makes
some, and TLC checks that they are.

### TaskPool and ThreadPool

A worker's step is what it does between two points where another thread can
come in: the test of `m_shutdown`, locking, `is_empty`, entering the wait,
`pop`, the task. `is_empty`, `pop` and `push` lock the queue's own mutex and
are one step each. `submit_to_pool` and `shutdown_pool` do not lock `m_mutex`:
their notifications come at any point, also between a worker's `is_empty` and
its wait. `Spurious` wakes a worker for no reason. `missed` and `late` are
history variables that record that a notification fell into that window.
`m_shutdown` is a plain `bool` read without a lock; the model reads it
atomically, at every round.

The refinement: `submitted` is the set of tasks that were pushed, `pending` is
the container, `running` what workers are executing, and `closed` is that
`shutdown_pool` has returned.

## The runs

Every run may deadlock in the sense of TLC: clients come to an end, the bound
on alarms is reached, the pool is shut down. `CHECK_DEADLOCK` is off for that
reason; what must not stop is stated as a property.

| run | question | instance |
|---|---|---|
| `transfers` | Do coroutines, files and sockets of two clients ever mix, and does the loop serve both? `OwnTask`, `OwnFile`, `NoCrash` hold; with the loop running, `HangupReaped` and `BacklogAccepted` hold | 2 connections, one request each (upload, download or message), 3 numbers, no alarm |
| `idle_timer` | Is any socket, hang-up, waiting connection or timer forgotten, does a handler close what is not its own before a tick hits one (`alarm.stray`)? `TypeOK`, `Reapable`, `HangupPending`, `NoStrandedBacklog`, `FreshTimer`, `NoBystander` hold | an HTTP and an sft client sending anything in any order, files that shrink, 2 numbers (so that `accept` and `open` fail), 2 alarms |
| `upload` | Is the file exact, or visibly short; is the buffer large enough, is no wake-up lost, is what was sent received? `SuccessExact`, `IncompleteMeansShort`, `RoomLeft`, `WakeUpKept`, `Transfers`, `UploadCompletes` hold | sizes 1..10, buffer 4, `NUMSTOP` 1, 3 bytes in flight, a request behind the small files, client leaves and disk fills at any time |
| `download` | Is the client's file exact, is its buffer large enough, is no wake-up lost, is the flag taken for a flag, is nothing resumed after it returned, does a download end? `CutOrExact`, `RoomLeft`, `WakeUpKept`, `FlagIsNoRequest`, `CrashOnlyIfShort`, `Transfers`, `DownloadCompletes` hold | sizes 0..8, buffer 4, `NUMSTOP` 1, 3 bytes in flight; the file shrinks, the server closes, the client dies at any time |
| `http_session` | Are answers right, in order, complete and given? `RightAnswers`, `NoPageTwice`, `BodyAsAnnounced`, `WakeUpKept`, `SomethingToParse`, `EachAnswered` hold | a page of 3 bytes, a send buffer of 3, up to 3 requests of 13 kinds, up to 2 of them pipelined or split, a client that may stop reading after 3 answers |
| `parsing` | What does each parser make of what was written down? `UrlDecoded`, `RequestRead`, `JsonRead`, `ConfigApplied`, `TransferAsAsked` hold | URLs of 3 characters, two headers, ranges in and behind a file of 12 bytes and with numbers around `LongMax` = 99999, JSON nested twice and cut by up to 4 tokens or in the middle of one, settings of each type, up to 4 arguments |
| `pool` | Does the pool implement `TaskPool`, and lose nothing outside the known window? `Refines`, `NoLostTask`, `NoLostWorker`, `TasksTaken`, `ShutdownReturns` hold | 3 workers, 2 tasks |
| `http_crash` | `NoCrash` fails for HTTP | 2 connections, 3 numbers |
| `next_request` | `InputNoticed` fails for the sequence of `test.cpp` | 2 connections, 3 numbers |
| `upload_lost` | `SentMeansSaved` fails if the client leaves after its last byte | sizes 1..3 |
| `range` | `RangeAsAnnounced` fails for a range that ends before the page does | one request for a part of a page of 3 bytes, its last byte not before its first |
| `bad_header` | `AlwaysRightAnswers` fails behind a request whose header does not parse | two kinds of requests, up to 3 |

`TypeOK` of `Upload`, `Download`, `HttpSession` and `ThreadPool` is proved
and not checked by a run; that of `Reactor` is both.

Why the bounds are enough to be interesting:

- With two connections and 2 or 3 numbers, a socket, a file and the next
  socket compete for the same number, and stale entries, timers and events
  meet their successors.
- `MaxFd = 3` lets two clients be connected and one of them have a file; the
  other's `open` fails. `MaxFd = 2` makes the second `accept`, or the `open`
  of the first client's file, fail.
- `MaxUnread` is 1 or 2: with 2 a request and what follows it are read
  together. `MaxEvents` is 3 for the sockets and the listener, so that the
  alarm's pipe makes one item too many.
- `Departures` says how clients may leave. It is empty where a counterexample
  needs no departure, and both ways everywhere else.
- Two alarms let a timer expire, be renewed, and be stale.
- Sizes 1..10 with a buffer of 4 and `NUMSTOP` 1 are: buffered whole (1..3),
  exactly one buffer (4), and up to four rounds, ending before, at and after a
  boundary. The hot spot is a round that fills the buffer to exactly `MAXARRSZ - NUMSTOP`.
- The same holds for a download's sizes 0..8, with 0 as a case of its own. With 3 bytes
  in flight the send buffer is full before a file of 4 is sent, so that
  handlers suspend and resume several times.
- A page of 3 bytes and its header are one more than a send buffer of 3: every
  page waits for room at least once if the client is slow, and a second answer
  behind it meets a full buffer, where a header is lost. Three requests are one before, one that
  throws or is cut in two, and one after it. `MaxHasty = 2` lets the first two come
  without waiting; a third one adds no new pair of neighbours. A client that stops reading after `MaxReads`
  answers is there for `unread` to stay bounded when answers repeat.
- Two headers can have the same name or not, with the syntax's own
  characters in their values. Three characters let two escapes meet with one more before, between or
  behind them. Four arguments are an option with its word, the address, and one more; two options share an
  argument, and a word is in one with its option.
- `LongMax` is a number of five digits: one below, one at and one above the bound of `stol`, and no other, since the
  parsers only compare with it. A port's numbers are around 2^16.
- With three workers one waits, one is in the window and one is busy; with
  two tasks one submission can overtake the notification of another.

## Fairness

- **Reactor** (`transfers`): `WF_vars(Loop)`. The server has one thread that does
  nothing but the loop, and `epoll_wait` returns when something is ready.
  Clients owe nothing: they may stay silent for ever. `EpollWait` reports everything that is
  ready while it fits in the array, as the kernel does. Fairness of the loop as
  a whole is enough, since a batch is worked off before the next.
- **Upload** (`upload`): `WF_vars(Server)` as above;
  `WF_vars(SendSome)` and `WF_vars(SentAll)`: `sendfile` on the client's
  blocking socket returns when there is room. Leaving and further requests are
  not fair.
- **Download** (`download`): `WF_vars(Server)` as above, and `WF_vars(Client)`:
  the client's process is scheduled and its blocking calls return when there
  is something to return. Shrinking, closing and dying are not fair.
- **HttpSession** (`http_session`): `WF_vars(Server)` as above,
  `WF_vars(Receive)`: a client reads what it is sent, and `WF_vars(SendRest)`:
  who has sent half a request sends the rest. Asking is not fair.
- **ThreadPool** (`pool`): each thread is scheduled
  (`WF_vars(Worker(w))`), and a call of `submit_to_pool` or `shutdown_pool`
  that was begun goes on. Nobody is obliged to submit or to shut down; no wait
  has to end spuriously; a mutex need not be fair to a worker (weak, not
  strong, fairness).

## The proofs

All of them hold for every value of the constants that the named assumptions
admit (`HandlersAssumption`, `NoneAssumption`, `ReactorAssumption`, `UploadAssumption`,
`DownloadAssumption`, `SessionAssumption`, `PoolAssumption`, `WorkersAssumption`, `NumbersAssumption`, `ParsingAssumption`): any number of connections, descriptors,
events per batch, alarms, requests, workers, tasks; any buffer and any file size; any arguments, and any text that is written as
[above](#httptext-json-startup-and-parsing).

- `ReactorProof`: first, that the results of every handler are of type `Result`, and that a
  handler leaves the numbers of files as they are or drops them, so that all of `Start` and `Resume` can be
  treated as one thing. Then `TypeCorrect`, `EverySocketReapable`, `NoHangupLost`,
  `BacklogAnnounced`, `TimerIsFresh`. The inductive invariant `IInv` is the
  conjunction of what they state and of `OneNumber` (a connection has at most
  one number) and `OnlyAccepted` (a socket in the table was accepted). Without these two,
  closing one number could leave another one naming a closed connection, or
  `Accept` could give a second number to a connection whose hang-up was
  taken off the ready list under the first. The argument goes over what a step
  leaves of the sockets that stay open (`SocketsKept`): closing, applying a
  handler's result and resuming all satisfy it, so that each branch of the loop only
  adds what it does to its own number.
- `ApartProof`: `NobodyElseIsClosed`, for all clients, and `TasksAreOwn`, `FilesAreOwn`,
  `NoneResumedAfterItsEnd` for those of sft.
  - `AInv` adds `Apart` to `IInv`: an event in the array is one on a socket (`EventsOnSockets`), an entry that holds a
    file holds the number of one (`FilesHeld`), and no two hold the same (`OneHolder`). A handler closes its own
    number and the file of its own coroutine, and the loop what its own entry holds, so that nobody else's number goes
    as long as the three hold. What has to be shown is that every exit of every handler that
    closes a file also drops it from the entry, and that a file never gets a number with an event left. A tick that strays ends the second,
    hence the disjunct `alarm.stray`; no other step can end any.
  - `SInv` adds `OwnAll`, where what an entry may be is spelled out (`OwnEntry`): as good as new (`Clean`),
    which all entries without a socket are, because `operator=` resets nothing; waiting for its own client (`Waiting`),
    with a file that is that client's if it is a download (`Serving`); or left with a flag but without a coroutine,
    and then the client has sent a reset and the next event can only be the hang-up (`Doomed`). This is what makes
    the early returns of `handle_sft_get_file` that leave a flag set harmless for sft.
    The step proofs go handler by handler (`Leaves`: what a run may leave) and
    then, once, over what the loop does with a run's result for its own number (`RanOwn`) and with
    everybody else's (`Spared`).
  - `SftClients` is the hypothesis: no HTTP connection, no file that shrinks while it is sent, nothing but the flag
    behind the request for a download, and nothing behind the flag. `client.hpp` keeps to it (`get_file_from` writes one request and one flag,
    `send_file_to` and `send_msg_to` one request), and so does `test.cpp`, whose download comes last. Without each of
    these `OwnTask` fails in TLC (finding 1, and the list behind it, say how). The instance of `transfers`
    satisfies it, and so does that of `next_request`.
  - `OwnBeforeAlarms` puts it as the run does: before the first alarm nothing has strayed.
- `ThreadPoolProof`: `PoolTypeCorrect`; `WorkerNotLost` from `Stopping` (nobody
  returns before `m_shutdown` is set) and `LateOnly` (after `notify_all`,
  whoever has not yet tested `m_shutdown` will see it); `TaskNotLost`, which is
  inductive with these; `Implements`, the refinement, from `QueuedOnce` and
  `RunningOnce` (a task is in the queue at most once, and one that runs is
  not in it and is run by one worker); that no more run than there are workers is `OneFree`.
- `UploadProof`: `UploadInvariant`, and from it `UploadTypes`, `SuccessIsExact`,
  `IncompleteIsShort`, `BufferHasRoom`, `NoWakeUpLost`, `UploadTransfers`. The invariant is
  `Progress` (`ret <= taken <= sent`; a coroutine that runs or waits is not at
  its end) and `InARow`: file and buffer hold what was read, in a row, or, once
  a write lost something, the file is shorter than what was written (`Holds`). `StoresSlice` and
  `EndStores` say what a write adds to that, whether it stores everything or not. Hypotheses:
  `0 \notin Sizes` for `IncompleteIsShort` (see below for empty files) and, for
  `SuccessIsExact` and `UploadTransfers`, `NoOverread`: a request only follows files
  that are small (the rest is an overread, see below).
- `DownloadProof`: `DownloadInvariant`, and from it `DownloadTypes`, `ReadsInRange`, `FlagIsFlag`,
  `NotResumedTwice`, `DownloadTransfers`; `SuccessIsExact` and `NoWakeUpLost` are inductive with it. The invariant is
  `Counts` (`ret <= got <= sent <= size`, and what is in flight fits), `Stages`
  (what the handler, its two flags, the client's flag and epoll's event say of each
  other; among it, that a client that left is on the ready list or reported), `LeftBehind`
  (a flag outlives the coroutine only if the client left or the file became
  shorter) and `InARow` (file and buffer hold what was read, in a row). No hypothesis: it
  holds for empty files, shrinking ones, and any closing.
- `HttpSessionProof`: `SessionInvariant`, and from it `SessionTypes`,
  `AlwaysSomethingToParse`, `NoPageSentTwice`, `PageIsExact`, `SessionWakesUp`. The invariant holds
  for every client: `AskedFor` and `Sorted` (what is in the socket and in the string are segments of requests
  that were sent, in the order in which they were sent), `Stages` (what the flags say in each place of the
  handler, and that there is something to parse) and `Ahead` (what is answered is not ahead of what is to be
  parsed; where they meet, the answer was to the head and the tail is to be parsed, or it was an error). So
  `NoPageSentTwice` is about segments: that a request is answered once holds for those that come whole. For a client that waits, and whose ranges end
  where the file does (`Sound`), it also has `Turns` (one request is in one place, and no event for it is
  missing) and `Bodies` (the last reply's body is `off` minus where it began). `Sound` can only
  become false, so that a step into `Sound` starts from it.
  `AnswersAreRight` needs no such ranges. Its invariant is `InTurn`: as long as the client waits and no header
  failed to parse among the requests answered (`AllParsed`), at most one request is in the socket and in the
  string together, it is whole, and it is the one behind the last answer (`OneOut`). Whatever is parsed then is
  that request, and its answer is `Answers` of it (`AnswersAre`). `AllParsed` can only become false, by the answer to such a header, which is itself right.
- `BytesProof`: what `Slice` and `Zeroes` are, that consecutive slices
  concatenate to one, and that a slice that is not the whole file differs from it.

- `ParsingProof`: `UrlsAreDecoded`, `RequestsAreRead`, `JsonIsRead`, `ConfigIsApplied`, `TransfersAreAsked`, all
  five invariants of `Parsing`, for texts and arguments of any length, written as said [above](#httptext-json-startup-and-parsing).
  They say what the code does with its pitfalls, too, and not that it reads all that it should. Each has an inductive
  invariant of its own that relates the parser's variables to the place it has reached.
  - `UrlInv` (`Decoded`): the parser is at the place of an escaped character, or at the end, and has decoded what is in
    front of it. That a piece without `%` decodes to itself, although an escape may be of a `%`, is `UrlCopied`. `LeastNat`
    (every non-empty set of numbers has a least one) takes the place of induction in the few
    facts that need one, as in `Grows`: what grows from each place to the next grows from any to a later one.
  - `HeadInv` (`ReadTo`, `ReadOut`): the parser is at the beginning of line `k`, and `map` has, of each name in the
    lines before it, the last value. A value may have any characters, also colons, and its name none; that the line is the
    one that was written is `HeadLine`.
  - `SpanInv` (`SpanRead`): the number that is read is what its digits so far make, `None` for none.
  - `JsonInv` (`JsonAt`): the parser is in the call that the mark of its place names, and at a point of its
    loop where it can go on with what the mark wants (`Agrees`, `Place`); or it has met a pitfall, or the text was cut short and it is at
    its end inside a call (`Lost`), which it never leaves with a value. `InStack` says that the calls are
    nested as they should: there is a set of calls that has the one at the top, and with each
    the one that made it, which waits for a value. Texts are nested to any depth; no
    induction over the depth is needed, since a step looks at the top two calls. `ParsingAssumption` admits the five
    pitfalls (`Pitfall`), and `JsonIsRead` says what becomes of them.
  - `ConfigInv` is that for `sft.json`, and then what `configure` makes of the object (`ConfigAt`).
  - `ArgvInv` says what `getopt` has seen of the arguments up to the one it is at (`Seen`).

Only model-checked:

- Everything under fairness (`HangupReaped`, `BacklogAccepted`, `TasksTaken`, `ShutdownReturns`, `UploadCompletes`,
  `DownloadCompletes`, `EachAnswered`). What they rest on in each state is proved, though:
  `HangupPending`, `NoStrandedBacklog`, `NoLostTask`, `NoLostWorker` and the three `WakeUpKept`. tlapm
  proves neither liveness under fairness nor facts about ENABLED, so these seven stay with TLC.
- All violations.

## What the models say of the code

1. `http_crash` — A page sent with `Connection: close` that had to wait for room
   in the send buffer is finished by `close_connection` and `co_return`
   (`src/server.hpp:570`), with `is_write_awaiting` still set and the entry
   still in `connections`. The next connection with that number inherits both;
   its first `EPOLLOUT` resumes a coroutine that has returned.
2. `next_request` — An upload stops reading at the last byte of the file. A
   request right behind it stays in the socket, and no further edge comes
   for it (`src/server.hpp:311`).
3. `upload_lost` — `EPOLLRDHUP` is tested before `EPOLLIN` (`179`): data that
   arrives together with the client's FIN is not read, and the file is lost
   or short, although the client has reported success.
4. `range` — The loop that sends a page ends at the end of the file, whatever the range (`556-568`). A
   range that ends before is announced with its own length (`524`) and sent up to the end of the
   file. The run's request is for byte 0 of 3 and gets more than that one.
5. `bad_header` — A header line that ends in its colon makes `substr(idx + 2)` throw
   (`include/http.hpp:256`) before `requests.clear()` (`489`). The text stays, every later round
   skips its read (`474`), parses it again, and answers 403 in place of what was asked for.

More of the same, without a run:

- `OwnFile` fails for two HTTP connections: an error of `sendfile64` closes the descriptor and
  then suspends as if it was `EAGAIN` (`558-566`). The next connection with the number
  resumes it and gets the other client's page.
- `OwnFile` fails for downloads once an alarm goes off: the tick closes descriptors that have
  events left in the array (`191`). A download's file may get the number before the
  stale event is handled, which then closes that file; the next file with the
  number is sent to the wrong client.
- The same tick can make a handler close a bystander: `NoBystander` without its exception for
  `alarm.stray` fails for three connections and two numbers. A tick closes a number that has an event left;
  another handler opens a file, which gets it; the stale event closes that file (the entry's
  descriptor is the number); the next connection accepted gets the number in turn; and the coroutine that still holds
  the file closes the connection when it is destroyed (`include/io.hpp`, `~File`). `OwnTask` fails there too.
- When a connection ends in the middle of a download, `read` returns 0 and the client's
  large-file loop is left at once (`src/client.hpp:98`): what is in the buffer is not written, and
  `main` prints "Success on dealing" (`src/main.cpp:161`). That is the exception
  `cut` in `CutOrExact` and `Transfer`.
- A disk that fills up: the short `write` is not noticed and the upload logged as received
  (`SuccessExact` without its exception for `lost`).
- The large-file path of an upload asks for `MAXARRSZ - ret` bytes whatever is left of
  the file (`323`): a request right behind it is written into the file. `SuccessExact`
  fails when `Followed` has large sizes.
- An empty file makes the first `bufferForFile.read` throw (`293`), so that an
  upload of which nothing is missing is logged as "Not received complete file
  data." and its connection closed (`IncompleteMeansShort` fails with `Sizes = {0}`). An
  empty download makes the client throw (`src/client.hpp:79`, outcome `thrown`).
- A connection that ends in the middle of a small download leaves the client in an
  endless loop (`src/client.hpp:78-83`, outcome `spin`); if nothing had come, it writes
  zeroes and reports success.
- A file that becomes shorter while it is downloaded: the handler returns with
  `is_write_awaiting` set (`425`) and no hang-up follows, so that the client's reads make
  epoll report room and the loop resumes a coroutine that has returned
  (`CrashOnlyIfShort` fails without its exception), or the handler waits for an
  event that does not come, until the idle timer ends the connection.
- A client that sends a second request in the middle of its download, which those of
  the repository do not, gets a crash like the first (`215`). A request behind the *first* page of an HTTP connection, while that is being
  sent, replaces its coroutine as well: the rest of the page never comes.
- A request that comes in two segments is parsed as two if the read between them says `EAGAIN`
  (`474`): the head without the headers that are missing, the tail as a request line, which gets a page of its own, an
  error, or reads on behind the string.
- A header, or an error page, that finds the send buffer full is lost without a word (`554`).
- A `Range` behind the end of the file, or with an end one before its start, sends nothing for ever
  (`556`); the server serves nobody any more. An end further before its start makes the count negative: `sendfile64`
  fails and the connection is closed behind its header (`558-566`).
- A header whose colon is followed by no blank loses the first character of its value; one named `path` replaces the
  path of the request line, and one named `post_content` is replaced by what is posted (`include/http.hpp:256`).
- `decode_url` reads a lower-case hex digit as 32 too much, which only the first of two loses in
  the `char` (`include/util.hpp:213`).
- A missing `sft.json` ends the process: what `open_read_only` throws (`include/io.hpp:155`) is no `std::exception`, so
  that the handler behind it (`src/server.hpp:140`) does not catch it, and nobody else does. `README.md:28` says
  of the configuration "Defaults to the working directory if unspecified."; the defaults of `121-124` come too late for that.
- A port of `sft.json` above 65535 is truncated, and one that is an array or an object is 0, since `at` finds the
  default value of `_val` (`include/json.hpp:16`).
- `json_parser` refuses what JSON allows: a number with a sign, a point or an exponent, a line's end or a tab in front
  of a colon, blanks between empty brackets; the same for a number beyond 64 bits. A number with a point that is the whole
  text is cut there. Then `json_conf` stays empty, without its defaults (`src/server.hpp:120`).
  A word is known by its first letter (`include/json.hpp:135-137`): at the top `tru` is `true`, and within brackets a word
  that the text's end cuts short moves the parser behind the text.
- A JSON text that is cut short
  makes `parse_array` grow for ever, or `parse_kv` read through a null pointer
  (`include/json.hpp:172`). A value that is no string, for any key but the port's, is dereferenced as one (`src/server.hpp:132`).
- With `-n` and no address, `main` makes a `string_view` of a null pointer (`src/main.cpp:127`).

And what holds: apart from these, the bookkeeping survives every reuse of a
number (`idle_timer`, and proved), the sft part on its own never mixes
two clients up until a timeout strays (proved), every upload is exact, reported as short or, behind a full disk, short; every download is exact unless the server closes;
an HTTP client that waits, sends each request whole, and asks for nothing but whole pages and their ends, gets what it asked for; the parsers read back
URLs, requests, ranges, `sft.json` and arguments that are written as described and have none of these pitfalls (proved); and the pool is correct except for the two windows that locking `m_mutex` around `push` and around `m_shutdown` would close.

## What is not modelled

- The wording of HTTP headers, dates, entity tags and content types, and the text of the
  error pages: nothing depends on them but the client's eyes. `If-None-Match` and
  `If-Range` are the kinds of request that their comparison leads to.
- `logger.hpp`: output only. Its day rollover closes and reopens a descriptor, a line that
  cannot be written throws from wherever it is logged, and the signal
  handler logs and exits inside whatever the loop is doing (`src/main.cpp:74`), which is undefined
  behaviour of the C library and not a matter of interleaving.
- The client's disk, and `send_file_to` on a file that becomes shorter while it is sent: `sendfile`
  then returns 0 for ever (`src/client.hpp:40-52`).
- `Val::find` of `json.hpp`, which only the logger calls.
- Requests that come in pieces cut in the middle of a line, or in more than two; URLs, JSON texts and ranges that are not written as
  said above, among them lower-case escapes, escapes in strings, keys that come twice, and signs, blanks and lists in ranges.
- Paths, `stat`, directory listings, the progress bar, random helpers, names and version numbers.

## Plan

Done: `Handlers` and `Reactor`, with their proofs; `ThreadPool` with its
refinement; `Upload` and `Download`, with proofs, and `Transfer`, which both implement;
`HttpSession`, with proofs; the parsers, with proofs; a disk that fills; proofs that connections stay apart and that answers are right.

1. `Timer`: `timer<T>` on its own with seconds, and that `Reactor`'s `clear_expired`
   abstracts it.
2. The client's disk in `Download`, as in `Upload`.
3. The logger as a writer of descriptors: its rollover between two accepts, and its failing write.
4. `NoBystander` and `OwnTask` for HTTP connections that are not closed while a page waits.
