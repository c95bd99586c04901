------------------------------ MODULE MCReactor ------------------------------
(***************************************************************************)
(* Instances of Reactor for TLC: who connects and what the clients send.   *)
(***************************************************************************)
EXTENDS Reactor, TLC

CONSTANTS c1, c2

TwoConns == {c1, c2}
OneConn  == {c2}
NoConns  == {}

AnyDeparture == {"fin", "rst"}
NoDeparture  == {}

Symmetry2 == Permutations(TwoConns)

(* What the clients send, and in which order: main.cpp makes one request   *)
(* per connection; test.cpp a message, an upload and a download.           *)
Transfers == SftKinds
Mixed     == {"get", "flag", "close", "bad"}

OneRequest == {<<None, "mesg">>, <<None, "file">>, <<"file", "bytes">>,
               <<"bytes", "bytes">>, <<None, "get">>, <<"get", "flag">>}
TestRun    == {<<None, "mesg">>, <<"mesg", "file">>, <<"file", "bytes">>,
               <<"bytes", "bytes">>, <<"bytes", "get">>, <<"get", "flag">>}
AnyOrder   == (SftKinds \cup {None}) \X SftKinds

=============================================================================
