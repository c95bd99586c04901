---------------------------- MODULE DownloadProof ----------------------------
(***************************************************************************)
(* Proofs about Download, for files and buffers of any size: its types,    *)
(* what "Success on dealing" says of the client's file, that no read is    *)
(* out of range, that the flag is not taken for a request, that no wake-up *)
(* is lost, and that it implements Transfer.                               *)
(***************************************************************************)
EXTENDS Download, BytesProof

-----------------------------------------------------------------------------
(* The inductive invariant.                                                *)

(* Nothing is written that was not read, nor read that was not sent, and   *)
(* what was sent and not read fits the socket buffers.                     *)
Counts == ret <= got /\ got <= sent /\ sent <= size /\ Room >= 0

(* What the handler, its flags, the client's flag and the events say of    *)
(* each other.                                                             *)
Stages ==
  /\ handler = "new" => event = "none"
  /\ open /\ Gone => edge \/ event = "hup"
  /\ running => open /\ event = "none" /\ handler \in {"flag", "send"}
  /\ ~open => event = "none" /\ handler \notin {"flag", "send"}
  /\ open /\ handler = "new" => flag = "no"
  /\ handler = "flag" => flag # "taken"
  /\ open /\ handler \notin {"new", "flag"} => flag = "taken"
  /\ client = "asked" => flag = "no"
  /\ event = "in" => handler = "flag"
  /\ handler = "flag" => is_read_awaiting \/ running
  /\ handler = "send" => is_write_awaiting \/ running

(* Flags that outlive the coroutine.                                       *)
LeftBehind ==
  /\ handler \in {"new", "done"} => ~is_read_awaiting /\ ~is_write_awaiting
  /\ open /\ handler = "failed" => Gone \/ length < size
  /\ event = "out" /\ handler = "failed" => length < size
  /\ CrashOnlyIfShort

(* The client's file and its buffer are what it read, in a row.            *)
InARow ==
  /\ client = "asked" => got = 0 /\ ret = 0 /\ saved = <<>>
  /\ client = "reading" =>
       /\ got < size
       /\ saved = Slice(0, got - ret)
       /\ IF Small THEN ret = got ELSE ret < MAXARRSZ - NUMSTOP

Inv == TypeOK /\ Counts /\ Stages /\ LeftBehind /\ InARow

LEMMA InitInv == Init => Inv
<1> SUFFICES ASSUME Init PROVE Inv
  OBVIOUS
<1>0. size \in Nat
  BY DownloadAssumption DEF Init
<1>1. TypeOK
  <2>1. /\ edge \in BOOLEAN /\ running \in BOOLEAN /\ open \in BOOLEAN
        /\ is_read_awaiting \in BOOLEAN /\ is_write_awaiting \in BOOLEAN
    BY Zenon DEF Init
  <2>2. saved \in Seq(Nat)
    BY DEF Init
  <2> QED
    BY <1>0, <2>1, <2>2 DEF Init, TypeOK
<1>2. Counts
  BY <1>0, DownloadAssumption DEF Init, Counts, Room
<1>3. Stages
  BY DEF Init, Stages, Gone
<1>4. LeftBehind
  BY DEF Init, LeftBehind, CrashOnlyIfShort
<1>5. InARow
  BY DEF Init, InARow
<1> QED
  BY <1>1, <1>2, <1>3, <1>4, <1>5 DEF Inv

(* What a read(2) that returned bytes leads to.                            *)
LEMMA ReadCases ==
  ASSUME Inv, Read
  PROVE  \E n \in Nat \ {0} :
           /\ n <= sent - got /\ got' = got + n
           /\ \/ /\ got + n >= size /\ client' = "done"
                 /\ saved' = Slice(0, got + n) /\ ret' = 0
              \/ /\ got + n < size /\ ~Small /\ client' = "reading"
                 /\ saved' = Slice(0, got + n) /\ ret' = 0
              \/ /\ got + n < size /\ client' = "reading"
                 /\ ~Small => ret + n < MAXARRSZ - NUMSTOP
                 /\ ret' = ret + n /\ UNCHANGED saved
<1>1. PICK n \in 1..Wanted :
        LET flushed == saved \o Slice(got - ret, got + n)
            last    == got + n >= size
            enough  == ~Small /\ ret + n >= MAXARRSZ - NUMSTOP
        IN  /\ n <= sent - got
            /\ got' = got + n
            /\ client' = IF last THEN "done" ELSE "reading"
            /\ IF last \/ enough
               THEN saved' = flushed /\ ret' = 0
               ELSE ret' = ret + n /\ UNCHANGED saved
  BY DEF Read
<1>2. /\ size \in Nat /\ got \in Nat /\ ret \in Nat /\ sent \in Nat
      /\ ret <= got /\ got < size
      /\ MAXARRSZ \in Nat /\ NUMSTOP \in Nat
  BY DownloadAssumption DEF Inv, TypeOK, Counts, InARow, Read
<1>3. /\ saved = Slice(0, got - ret)
      /\ IF Small THEN ret = got ELSE ret < MAXARRSZ - NUMSTOP
  BY DEF Inv, InARow, Read
<1>4. Wanted \in Nat
  BY <1>2, <1>3, DownloadAssumption DEF Wanted, Small
<1>5. n \in Nat \ {0}
  BY <1>1, <1>4
<1>6. saved \o Slice(got - ret, got + n) = Slice(0, got + n)
  <2>1. got - ret \in Nat /\ got + n \in Nat /\ got - ret <= got + n
    BY <1>2, <1>5
  <2> QED
    BY <1>3, <2>1, SliceSlice
<1>7. CASE got + n >= size
  BY <1>1, <1>5, <1>6, <1>7
<1>8. CASE ~(got + n >= size)
  <2>1. got + n < size
    BY <1>2, <1>5, <1>8
  <2>2. CASE ~Small /\ ret + n >= MAXARRSZ - NUMSTOP
    BY <1>1, <1>5, <1>6, <1>8, <2>1, <2>2
  <2>3. CASE ~(~Small /\ ret + n >= MAXARRSZ - NUMSTOP)
    <3>1. ~Small => ret + n < MAXARRSZ - NUMSTOP
      BY <1>2, <1>5, <2>3, DownloadAssumption
    <3> QED
      BY <1>1, <1>5, <1>8, <2>1, <2>3, <3>1
  <2> QED
    BY <2>2, <2>3
<1> QED
  BY <1>7, <1>8

LEMMA NextType == Inv /\ [Next]_vars => TypeOK'
<1> SUFFICES ASSUME Inv, [Next]_vars PROVE TypeOK'
  OBVIOUS
<1>0. TypeOK /\ Counts /\ Stages /\ LeftBehind /\ InARow /\ size \in Nat
  BY DownloadAssumption DEF Inv, TypeOK
<1> USE <1>0 DEF TypeOK, server, receiver, flags
<1>1. CASE Start
  BY <1>1 DEF Start
<1>2. CASE Flag
  BY <1>2 DEF Flag
<1>3. CASE SendSome
  BY <1>3 DEF SendSome
<1>4. CASE SendNothing
  BY <1>4 DEF SendNothing, Yield, Fail
<1>5. CASE SentAll
  BY <1>5 DEF SentAll
<1>6. CASE EpollWait
  BY <1>6 DEF EpollWait
<1>7. CASE Hangup
  BY <1>7 DEF Hangup, Close, Drop, Suspended
<1>8. CASE Resume
  BY <1>8 DEF Resume, Awaited, Suspended
<1>9. CASE Crash
  BY <1>9 DEF Crash, Drop, Awaited, Suspended
<1>10. CASE Ignore
  BY <1>10 DEF Ignore
<1>11. CASE Header
  <2>1. edge' \in BOOLEAN
    BY <1>11, Zenon DEF Header
  <2> QED
    BY <1>11, <2>1 DEF Header
<1>12. CASE Read
  <2>1. PICK n \in Nat \ {0} :
          /\ got' = got + n
          /\ saved' \in {saved, Slice(0, got + n)}
          /\ ret' \in {0, ret + n}
          /\ client' \in {"reading", "done"}
    BY <1>12, ReadCases
  <2>2. Slice(0, got + n) \in Seq(Nat)
    BY SliceType
  <2>3. got' \in Nat /\ ret' \in Nat /\ saved' \in Seq(Nat)
    BY <2>1, <2>2
  <2>4. edge' \in BOOLEAN
    BY <1>12, Zenon DEF Read
  <2> QED
    BY <1>12, <2>1, <2>3, <2>4 DEF Read
<1>13. CASE EndOfFile
  <2>1. Zeroes(size) \in Seq(Nat)
    BY ZeroesType
  <2> QED
    BY <1>13, <2>1 DEF EndOfFile
<1>14. CASE ReadFails
  BY <1>14 DEF ReadFails
<1>15. CASE Leave
  <2>1. edge' \in BOOLEAN
    BY <1>15, Zenon DEF Leave
  <2> QED
    BY <1>15, <2>1 DEF Leave
<1>16. CASE Shrink
  BY <1>16 DEF Shrink
<1>17. CASE Cut
  BY <1>17 DEF Cut, Close, Drop, Suspended
<1>18. CASE Die
  <2>1. edge' \in BOOLEAN
    BY <1>18, Zenon DEF Die
  <2> QED
    BY <1>18, <2>1 DEF Die
<1>19. CASE UNCHANGED vars
  BY <1>19 DEF vars
<1> QED
  BY <1>1, <1>2, <1>3, <1>4, <1>5, <1>6, <1>7, <1>8, <1>9,
     <1>10, <1>11, <1>12, <1>13, <1>14, <1>15, <1>16, <1>17, <1>18, <1>19
  DEF Next, Server, Client

LEMMA NextCounts == Inv /\ [Next]_vars => Counts'
<1> SUFFICES ASSUME Inv, [Next]_vars PROVE Counts'
  OBVIOUS
<1>0. TypeOK /\ Counts /\ Stages /\ LeftBehind /\ InARow /\ size \in Nat
  BY DownloadAssumption DEF Inv, TypeOK
<1> USE <1>0, DownloadAssumption DEF TypeOK, Counts, Room, server, receiver, flags
<1>1. CASE Start
  BY <1>1 DEF Start
<1>2. CASE Flag
  BY <1>2 DEF Flag
<1>3. CASE SendSome
  BY <1>3 DEF SendSome
<1>4. CASE SendNothing
  BY <1>4 DEF SendNothing, Yield, Fail
<1>5. CASE SentAll
  BY <1>5 DEF SentAll
<1>6. CASE EpollWait
  BY <1>6 DEF EpollWait
<1>7. CASE Hangup
  BY <1>7 DEF Hangup, Close, Drop, Suspended
<1>8. CASE Resume
  BY <1>8 DEF Resume, Awaited, Suspended
<1>9. CASE Crash
  BY <1>9 DEF Crash, Drop, Awaited, Suspended
<1>10. CASE Ignore
  BY <1>10 DEF Ignore
<1>11. CASE Header
  BY <1>11 DEF Header
<1>12. CASE Read
  BY <1>12, ReadCases DEF Read
<1>13. CASE EndOfFile
  BY <1>13 DEF EndOfFile
<1>14. CASE ReadFails
  BY <1>14 DEF ReadFails
<1>15. CASE Leave
  BY <1>15 DEF Leave
<1>16. CASE Shrink
  BY <1>16 DEF Shrink
<1>17. CASE Cut
  BY <1>17 DEF Cut, Close, Drop, Suspended
<1>18. CASE Die
  BY <1>18 DEF Die
<1>19. CASE UNCHANGED vars
  BY <1>19 DEF vars
<1> QED
  BY <1>1, <1>2, <1>3, <1>4, <1>5, <1>6, <1>7, <1>8, <1>9,
     <1>10, <1>11, <1>12, <1>13, <1>14, <1>15, <1>16, <1>17, <1>18, <1>19
  DEF Next, Server, Client

LEMMA NextStages == Inv /\ [Next]_vars => Stages'
<1> SUFFICES ASSUME Inv, [Next]_vars PROVE Stages'
  OBVIOUS
<1>0. TypeOK /\ Counts /\ Stages /\ LeftBehind /\ InARow /\ size \in Nat
  BY DownloadAssumption DEF Inv, TypeOK
<1> USE <1>0 DEF TypeOK, Stages, Gone, server, receiver, flags
<1>1. CASE Start
  <2>1. running' /\ open'
    BY <1>1, Zenon DEF Start
  <2> QED
    BY <1>1, <2>1 DEF Start
<1>2. CASE Flag
  <2>1. /\ open /\ event = "none" /\ handler = "flag"
        /\ client = "asked" => flag = "no"
        /\ Gone => edge
        /\ client' = client /\ event' = "none" /\ edge' = edge
    <3>1. running
      BY <1>2, Zenon DEF Flag
    <3> QED
      BY <1>2, <3>1 DEF Flag
  <2>2. CASE flag = "sent"
    <3>1. running' /\ open' /\ handler' = "send" /\ flag' = "taken"
      BY <1>2, <2>1, <2>2, Zenon DEF Flag
    <3> QED
      BY ONLY <2>1, <2>2, <3>1 DEF Stages, Gone
  <2>3. CASE flag = "no" /\ ~Gone
    <3>1. /\ ~running' /\ open' /\ is_read_awaiting'
          /\ handler' = "flag" /\ flag' = "no"
      BY <1>2, <2>1, <2>3, Zenon DEF Flag
    <3> QED
      BY ONLY <2>1, <2>3, <3>1 DEF Stages, Gone
  <2>4. CASE flag = "no" /\ Gone
    <3>1. ~running' /\ ~open' /\ handler' = "failed" /\ flag' = "no"
      BY <1>2, <2>1, <2>4, Zenon DEF Flag
    <3> QED
      BY ONLY <2>1, <2>4, <3>1 DEF Stages, Gone
  <2> QED
    BY <1>2, <2>2, <2>3, <2>4 DEF Flag
<1>3. CASE SendSome
  BY <1>3 DEF SendSome
<1>4. CASE SendNothing
  BY <1>4 DEF SendNothing, Yield, Fail
<1>5. CASE SentAll
  BY <1>5 DEF SentAll
<1>6. CASE EpollWait
  BY <1>6 DEF EpollWait
<1>7. CASE Hangup
  BY <1>7 DEF Hangup, Close, Drop, Suspended
<1>8. CASE Resume
  BY <1>8 DEF Resume, Awaited, Suspended
<1>9. CASE Crash
  BY <1>9 DEF Crash, Drop, Awaited, Suspended
<1>10. CASE Ignore
  BY <1>10 DEF Ignore
<1>11. CASE Header
  BY <1>11 DEF Header
<1>12. CASE Read
  BY <1>12 DEF Read
<1>13. CASE EndOfFile
  BY <1>13 DEF EndOfFile
<1>14. CASE ReadFails
  BY <1>14 DEF ReadFails
<1>15. CASE Leave
  BY <1>15 DEF Leave
<1>16. CASE Shrink
  BY <1>16 DEF Shrink
<1>17. CASE Cut
  BY <1>17 DEF Cut, Close, Drop, Suspended
<1>18. CASE Die
  BY <1>18 DEF Die
<1>19. CASE UNCHANGED vars
  BY <1>19 DEF vars
<1> QED
  BY <1>1, <1>2, <1>3, <1>4, <1>5, <1>6, <1>7, <1>8, <1>9,
     <1>10, <1>11, <1>12, <1>13, <1>14, <1>15, <1>16, <1>17, <1>18, <1>19
  DEF Next, Server, Client

LEMMA NextLeftBehind == Inv /\ [Next]_vars => LeftBehind'
<1> SUFFICES ASSUME Inv, [Next]_vars PROVE LeftBehind'
  OBVIOUS
<1>0. TypeOK /\ Counts /\ Stages /\ LeftBehind /\ InARow /\ size \in Nat
  BY DownloadAssumption DEF Inv, TypeOK
<1> USE <1>0 DEF TypeOK, Stages, LeftBehind, CrashOnlyIfShort, Gone,
       server, receiver, flags
<1>1. CASE Start
  BY <1>1 DEF Start
<1>2. CASE Flag
  BY <1>2 DEF Flag
<1>3. CASE SendSome
  BY <1>3 DEF SendSome
<1>4. CASE SendNothing
  BY <1>4 DEF SendNothing, Yield, Fail
<1>5. CASE SentAll
  BY <1>5 DEF SentAll
<1>6. CASE EpollWait
  BY <1>6 DEF EpollWait
<1>7. CASE Hangup
  BY <1>7 DEF Hangup, Close, Drop, Suspended
<1>8. CASE Resume
  BY <1>8 DEF Resume, Awaited, Suspended
<1>9. CASE Crash
  BY <1>9 DEF Crash, Drop, Awaited, Suspended
<1>10. CASE Ignore
  BY <1>10 DEF Ignore
<1>11. CASE Header
  BY <1>11 DEF Header
<1>12. CASE Read
  BY <1>12 DEF Read
<1>13. CASE EndOfFile
  BY <1>13 DEF EndOfFile
<1>14. CASE ReadFails
  BY <1>14 DEF ReadFails
<1>15. CASE Leave
  BY <1>15 DEF Leave
<1>16. CASE Shrink
  BY <1>16 DEF Shrink
<1>17. CASE Cut
  BY <1>17 DEF Cut, Close, Drop, Suspended
<1>18. CASE Die
  BY <1>18 DEF Die
<1>19. CASE UNCHANGED vars
  BY <1>19 DEF vars
<1> QED
  BY <1>1, <1>2, <1>3, <1>4, <1>5, <1>6, <1>7, <1>8, <1>9,
     <1>10, <1>11, <1>12, <1>13, <1>14, <1>15, <1>16, <1>17, <1>18, <1>19
  DEF Next, Server, Client

LEMMA NextInARow == Inv /\ [Next]_vars => InARow'
<1> SUFFICES ASSUME Inv, [Next]_vars PROVE InARow'
  OBVIOUS
<1>0. TypeOK /\ Counts /\ Stages /\ LeftBehind /\ InARow /\ size \in Nat
  BY DownloadAssumption DEF Inv, TypeOK
<1> USE <1>0 DEF TypeOK, InARow, Small, server, receiver, flags
<1>1. CASE Start
  BY <1>1 DEF Start
<1>2. CASE Flag
  BY <1>2 DEF Flag
<1>3. CASE SendSome
  BY <1>3 DEF SendSome
<1>4. CASE SendNothing
  BY <1>4 DEF SendNothing, Yield, Fail
<1>5. CASE SentAll
  BY <1>5 DEF SentAll
<1>6. CASE EpollWait
  BY <1>6 DEF EpollWait
<1>7. CASE Hangup
  BY <1>7 DEF Hangup, Close, Drop, Suspended
<1>8. CASE Resume
  BY <1>8 DEF Resume, Awaited, Suspended
<1>9. CASE Crash
  BY <1>9 DEF Crash, Drop, Awaited, Suspended
<1>10. CASE Ignore
  BY <1>10 DEF Ignore
<1>11. CASE Header
  <2>1. Slice(0, 0) = <<>>
    BY DEF Slice
  <2> QED
    BY <1>11, <2>1, DownloadAssumption DEF Header, Small
<1>12. CASE Read
  <2>1. PICK n \in Nat \ {0} :
          /\ n <= sent - got /\ got' = got + n
          /\ \/ /\ got + n >= size /\ client' = "done"
                /\ saved' = Slice(0, got + n) /\ ret' = 0
             \/ /\ got + n < size /\ ~Small /\ client' = "reading"
                /\ saved' = Slice(0, got + n) /\ ret' = 0
             \/ /\ got + n < size /\ client' = "reading"
                /\ ~Small => ret + n < MAXARRSZ - NUMSTOP
                /\ ret' = ret + n /\ UNCHANGED saved
    BY <1>12, ReadCases
  <2>2. client = "reading" /\ size' = size /\ ret <= got
    BY <1>12 DEF Read, Counts
  <2>3. (got + n) - 0 = got + n /\ (got + n) - (ret + n) = got - ret
    BY <2>1, <2>2
  <2>4. CASE got + n >= size
    BY <2>1, <2>2, <2>4
  <2>5. CASE got + n < size /\ ~Small /\ ret' = 0 /\ saved' = Slice(0, got + n)
    BY <2>1, <2>2, <2>3, <2>5, DownloadAssumption
  <2>6. CASE got + n < size /\ ret' = ret + n /\ UNCHANGED saved
    BY <2>1, <2>2, <2>3, <2>6
  <2> QED
    BY <2>1, <2>4, <2>5, <2>6
<1>13. CASE EndOfFile
  BY <1>13 DEF EndOfFile
<1>14. CASE ReadFails
  BY <1>14 DEF ReadFails
<1>15. CASE Leave
  BY <1>15 DEF Leave
<1>16. CASE Shrink
  BY <1>16 DEF Shrink
<1>17. CASE Cut
  BY <1>17 DEF Cut, Close, Drop, Suspended
<1>18. CASE Die
  BY <1>18 DEF Die
<1>19. CASE UNCHANGED vars
  BY <1>19 DEF vars
<1> QED
  BY <1>1, <1>2, <1>3, <1>4, <1>5, <1>6, <1>7, <1>8, <1>9,
     <1>10, <1>11, <1>12, <1>13, <1>14, <1>15, <1>16, <1>17, <1>18, <1>19
  DEF Next, Server, Client

LEMMA NextInv == Inv /\ [Next]_vars => Inv'
  BY NextType, NextCounts, NextStages, NextLeftBehind, NextInARow DEF Inv

(* The invariant.                                                          *)
THEOREM DownloadInvariant == Spec => []Inv
  BY InitInv, NextInv, PTL DEF Spec

(* Every variable has its type.                                            *)
THEOREM DownloadTypes == Spec => []TypeOK
<1>1. Inv => TypeOK
  BY DEF Inv
<1> QED
  BY <1>1, DownloadInvariant, PTL

(* No read of the client is out of range, or for no bytes at all.          *)
THEOREM ReadsInRange == Spec => []RoomLeft
<1>1. Inv => RoomLeft
  BY DownloadAssumption
  DEF Inv, TypeOK, Counts, InARow, RoomLeft, Wanted, Small
<1> QED
  BY <1>1, DownloadInvariant, PTL

(* The client's flag is not taken for a request.                           *)
THEOREM FlagIsFlag == Spec => []FlagIsNoRequest
<1>1. Inv => FlagIsNoRequest
  BY DEF Inv, Stages, FlagIsNoRequest
<1> QED
  BY <1>1, DownloadInvariant, PTL

(* A download that has returned is resumed only if its file became shorter *)
(* while it was sent.                                                      *)
THEOREM NotResumedTwice == Spec => []CrashOnlyIfShort
<1>1. Inv => CrashOnlyIfShort
  BY DEF Inv, LeftBehind
<1> QED
  BY <1>1, DownloadInvariant, PTL

-----------------------------------------------------------------------------
(* What "Success on dealing" says.                                         *)

LEMMA NextExact == Inv /\ CutOrExact /\ [Next]_vars => CutOrExact'
<1> SUFFICES ASSUME Inv, CutOrExact, [Next]_vars PROVE CutOrExact'
  OBVIOUS
<1>0. TypeOK /\ Counts /\ Stages /\ LeftBehind /\ InARow /\ size \in Nat
  BY DownloadAssumption DEF Inv, TypeOK
<1> USE <1>0 DEF TypeOK, Counts, CutOrExact, server, receiver, flags
<1>1. CASE Start
  BY <1>1 DEF Start
<1>2. CASE Flag
  BY <1>2 DEF Flag
<1>3. CASE SendSome
  BY <1>3 DEF SendSome, Stages
<1>4. CASE SendNothing
  BY <1>4 DEF SendNothing, Yield, Fail
<1>5. CASE SentAll
  BY <1>5 DEF SentAll
<1>6. CASE EpollWait
  BY <1>6 DEF EpollWait
<1>7. CASE Hangup
  BY <1>7 DEF Hangup, Close, Drop, Suspended
<1>8. CASE Resume
  BY <1>8 DEF Resume, Awaited, Suspended
<1>9. CASE Crash
  BY <1>9 DEF Crash, Drop, Awaited, Suspended
<1>10. CASE Ignore
  BY <1>10 DEF Ignore
<1>11. CASE Header
  BY <1>11 DEF Header
<1>12. CASE Read
  <2>1. size' = size /\ client # "done" /\ client # "left"
    BY <1>12 DEF Read
  <2>2. client' = "done" => saved' = Slice(0, size)
    <3>1. PICK n \in Nat \ {0} :
            /\ n <= sent - got
            /\ client' = "done"
                 => got + n >= size /\ saved' = Slice(0, got + n)
            /\ client' \in {"done", "reading"}
      BY <1>12, ReadCases
    <3>2. got + n >= size => got + n = size
      BY <3>1
    <3> QED
      BY <3>1, <3>2
  <2>3. client' # "left"
    BY <1>12 DEF Read
  <2> QED
    BY <2>1, <2>2, <2>3
<1>13. CASE EndOfFile
  BY <1>13 DEF EndOfFile, InARow
<1>14. CASE ReadFails
  BY <1>14 DEF ReadFails
<1>15. CASE Leave
  BY <1>15 DEF Leave
<1>16. CASE Shrink
  BY <1>16 DEF Shrink
<1>17. CASE Cut
  BY <1>17 DEF Cut, Close, Drop, Suspended
<1>18. CASE Die
  BY <1>18 DEF Die
<1>19. CASE UNCHANGED vars
  BY <1>19 DEF vars
<1> QED
  BY <1>1, <1>2, <1>3, <1>4, <1>5, <1>6, <1>7, <1>8, <1>9,
     <1>10, <1>11, <1>12, <1>13, <1>14, <1>15, <1>16, <1>17, <1>18, <1>19
  DEF Next, Server, Client

(* The client's file is the server's unless the server closed first.       *)
THEOREM SuccessIsExact == Spec => []CutOrExact
<1>1. Init => CutOrExact
  BY DEF Init, CutOrExact
<1> QED
  BY <1>1, InitInv, NextInv, NextExact, PTL DEF Spec

-----------------------------------------------------------------------------
(* Edge-triggered wake-ups.                                                *)

LEMMA NextWakeUp == Inv /\ WakeUpKept /\ [Next]_vars => WakeUpKept'
<1> SUFFICES ASSUME Inv, WakeUpKept, [Next]_vars PROVE WakeUpKept'
  OBVIOUS
<1>0. TypeOK /\ Counts /\ Stages /\ LeftBehind /\ InARow /\ size \in Nat
  BY DownloadAssumption DEF Inv, TypeOK
<1> USE <1>0, DownloadAssumption
    DEF TypeOK, Counts, Stages, WakeUpKept, Gone, Room, server, receiver,
        flags
<1>1. CASE Start
  BY <1>1 DEF Start
<1>2. CASE Flag
  BY <1>2 DEF Flag
<1>3. CASE SendSome
  BY <1>3 DEF SendSome
<1>4. CASE SendNothing
  <2>1. CASE Yield
    BY <1>4, <2>1 DEF SendNothing, Yield
  <2>2. CASE Fail
    BY <1>4, <2>2 DEF SendNothing, Fail
  <2> QED
    BY <1>4, <2>1, <2>2 DEF SendNothing
<1>5. CASE SentAll
  BY <1>5 DEF SentAll
<1>6. CASE EpollWait
  BY <1>6 DEF EpollWait
<1>7. CASE Hangup
  BY <1>7 DEF Hangup, Close, Drop, Suspended
<1>8. CASE Resume
  BY <1>8 DEF Resume, Awaited, Suspended
<1>9. CASE Crash
  BY <1>9 DEF Crash, Drop, Awaited, Suspended
<1>10. CASE Ignore
  BY <1>10 DEF Ignore
<1>11. CASE Header
  BY <1>11 DEF Header
<1>12. CASE Read
  <2>1. /\ client = "reading" /\ client' \in {"reading", "done"}
        /\ edge' = (edge \/ (open /\ Room = 0))
        /\ UNCHANGED <<size, length, server, flag, event, open>>
    BY <1>12 DEF Read
  <2>2. (edge' <=> edge \/ (open /\ Room = 0)) /\ Room >= 0
    BY <2>1
  <2> QED
    BY <2>1, <2>2
<1>13. CASE EndOfFile
  BY <1>13 DEF EndOfFile
<1>14. CASE ReadFails
  BY <1>14 DEF ReadFails
<1>15. CASE Leave
  BY <1>15 DEF Leave
<1>16. CASE Shrink
  BY <1>16 DEF Shrink
<1>17. CASE Cut
  BY <1>17 DEF Cut, Close, Drop, Suspended
<1>18. CASE Die
  BY <1>18 DEF Die
<1>19. CASE UNCHANGED vars
  BY <1>19 DEF vars
<1> QED
  BY <1>1, <1>2, <1>3, <1>4, <1>5, <1>6, <1>7, <1>8, <1>9,
     <1>10, <1>11, <1>12, <1>13, <1>14, <1>15, <1>16, <1>17, <1>18, <1>19
  DEF Next, Server, Client

(* What a suspended download waits for is announced when it comes.         *)
THEOREM NoWakeUpLost == Spec => []WakeUpKept
<1>1. Init => WakeUpKept
  BY DEF Init, WakeUpKept
<1> QED
  BY <1>1, InitInv, NextInv, NextWakeUp, PTL DEF Spec

-----------------------------------------------------------------------------
(* A download is a transfer.                                               *)

LEMMA SameBytes ==
  /\ \A a, b : T!Slice(a, b) = Slice(a, b)
  /\ \A n : T!Zeroes(n) = Zeroes(n)
  BY DEF T!Slice, Slice, T!Zeroes, Zeroes

LEMMA IncompleteSlice ==
  ASSUME size \in Nat, NEW n \in Nat, n <= size
  PROVE  T!Incomplete(Slice(0, n))
<1>1. n \in 0..size /\ 0 \in 0..(size - n)
  OBVIOUS
<1>2. Slice(0, n) \o Zeroes(0) = Slice(0, n)
  <2>1. Slice(0, n) \in Seq(Nat)
    BY SliceType
  <2>2. Zeroes(0) = <<>>
    BY DEF Zeroes
  <2> QED
    BY <2>1, <2>2, ConcatEmptySeq
<1> QED
  BY <1>1, <1>2, SameBytes DEF T!Incomplete

LEMMA IncompleteZeroes ==
  ASSUME size \in Nat
  PROVE  T!Incomplete(Zeroes(size))
<1>1. 0 \in 0..size /\ size \in 0..(size - 0)
  OBVIOUS
<1>2. Slice(0, 0) \o Zeroes(size) = Zeroes(size)
  <2>1. Slice(0, 0) = <<>>
    BY DEF Slice
  <2>2. Zeroes(size) \in Seq(Nat)
    BY ZeroesType
  <2> QED
    BY <2>1, <2>2, ConcatEmptySeq
<1> QED
  BY <1>1, <1>2, SameBytes DEF T!Incomplete

(* The file while the client reads.                                        *)
LEMMA SoFarWhole ==
  ASSUME Inv, client \in {"asked", "reading"}
  PROVE  /\ T!Incomplete(saved)
         /\ got - ret \in Nat /\ got - ret <= size
         /\ saved = Slice(0, got - ret) /\ Len(saved) = got - ret
<1>0. TypeOK /\ Counts /\ InARow /\ size \in Nat
  BY DownloadAssumption DEF Inv, TypeOK
<1>1. got - ret \in Nat /\ got - ret <= size
  BY <1>0 DEF TypeOK, Counts
<1>2. saved = Slice(0, got - ret)
  <2>1. CASE client = "asked"
    <3>1. got - ret = 0 /\ saved = <<>>
      BY <1>0, <2>1 DEF InARow
    <3>2. Slice(0, 0) = <<>>
      BY DEF Slice
    <3> QED
      BY <3>1, <3>2
  <2>2. CASE client = "reading"
    BY <1>0, <2>2 DEF InARow
  <2> QED
    BY <2>1, <2>2
<1>3. Len(Slice(0, got - ret)) = got - ret
  <2>1. 0 \in Nat /\ 0 <= got - ret /\ (got - ret) - 0 = got - ret
    BY <1>1
  <2>2. Len(Slice(0, got - ret)) = (got - ret) - 0
    BY <1>1, <2>1, SliceType
  <2> QED
    BY <2>1, <2>2
<1> QED
  BY <1>0, <1>1, <1>2, <1>3, IncompleteSlice

(* A client that loops for ever has not written its buffer.                *)
SpinFile == client = "spin" => saved = <<>>

LEMMA NextSpinFile == Inv /\ SpinFile /\ [Next]_vars => SpinFile'
<1> SUFFICES ASSUME Inv, SpinFile, [Next]_vars PROVE SpinFile'
  OBVIOUS
<1>1. CASE EndOfFile
  <2>1. client = "reading" /\ (client' = "spin" => Small /\ ret > 0)
    BY <1>1 DEF EndOfFile
  <2>2. ret \in Nat /\ (ret > 0 => saved' = saved)
    BY <1>1 DEF EndOfFile, Inv, TypeOK
  <2>3. Small => saved = Slice(0, got - got)
    BY <2>1 DEF Inv, InARow
  <2>4. got - got = 0 /\ Slice(0, 0) = <<>>
    BY DEF Slice, Inv, TypeOK
  <2> QED
    BY <2>1, <2>2, <2>3, <2>4 DEF SpinFile
<1>2. CASE Header \/ Read \/ ReadFails \/ Leave \/ Die
  BY <1>2 DEF Header, Read, ReadFails, Leave, Die, SpinFile
<1>3. CASE ~Client /\ ~Die
  <2>1. UNCHANGED <<client, saved>>
    BY <1>3 DEF Next, Server, Start, Flag, SendSome, SendNothing, Yield,
       Fail, SentAll, EpollWait, Hangup, Resume, Crash, Ignore, Shrink, Cut,
       Close, Drop, vars, receiver
  <2> QED
    BY <2>1 DEF SpinFile
<1> QED
  BY <1>1, <1>2, <1>3 DEF Client

(* The client ends before it says that it has the file.                    *)
LEMMA EndsShort ==
  ASSUME client \in {"asked", "reading", "spin"},
         client' \in {"exited", "thrown", "died"},
         UNCHANGED <<size, open, sent>>, T!Incomplete(saved')
  PROVE  T!Next
<1>1. T!Fail
  BY DEF T!Fail
<1> QED
  BY <1>1 DEF T!Next

(* It goes on, or remains as it is.                                        *)
LEMMA GoesOn ==
  ASSUME client \in {"asked", "reading", "spin"},
         client' \in {"asked", "reading", "spin"},
         UNCHANGED <<size, open, sent, saved>>
  PROVE  UNCHANGED T!vars
  BY DEF T!vars

LEMMA NextTransfers ==
  ASSUME Inv, SpinFile, [Next]_vars
  PROVE  [T!Next]_(T!vars)
<1>0. /\ TypeOK /\ Counts /\ Stages /\ InARow
      /\ size \in Nat /\ got \in Nat /\ ret \in Nat /\ sent \in Nat
  BY DownloadAssumption DEF Inv, TypeOK
<1>1. client \in {"asked", "reading", "spin"} => T!Incomplete(saved)
  <2>1. CASE client \in {"asked", "reading"}
    BY <2>1, SoFarWhole
  <2>2. CASE client = "spin"
    <3>1. saved = Slice(0, 0) /\ 0 \in Nat /\ 0 <= size
      BY <1>0, <2>2 DEF SpinFile, Slice
    <3> QED
      BY <1>0, <3>1, IncompleteSlice
  <2> QED
    BY <2>1, <2>2
<1>2. CASE Header
  <2>1. /\ client = "asked" /\ client' \in {"thrown", "reading", "exited"}
        /\ UNCHANGED <<size, open, sent, saved>>
    BY <1>2 DEF Header, server
  <2> QED
    BY <1>1, <2>1, EndsShort, GoesOn
<1>3. CASE ReadFails \/ Die
  <2>1. /\ client \in {"asked", "reading", "spin"}
        /\ client' \in {"thrown", "died"}
        /\ UNCHANGED <<size, open, sent, saved>>
    BY <1>3 DEF ReadFails, Die, server
  <2> QED
    BY <1>1, <2>1, EndsShort
<1>4. CASE Leave
  <2>1. /\ client = "done" /\ client' = "left"
        /\ UNCHANGED <<size, open, sent, saved>>
    BY <1>4 DEF Leave, server
  <2> QED
    BY <2>1 DEF T!vars
<1>5. CASE EndOfFile
  <2>1. /\ client = "reading" /\ ~open /\ got = sent
        /\ client' \in {"spin", "done"}
        /\ client' = "spin" => saved' = saved
        /\ saved' \in {saved, Zeroes(size)}
        /\ UNCHANGED <<size, open, sent>>
    BY <1>0, <1>5 DEF EndOfFile, server
  <2>2. sent < size /\ T!Incomplete(saved')
    <3>1. sent < size
      BY <1>0, <2>1 DEF InARow
    <3>2. T!Incomplete(saved) /\ T!Incomplete(Zeroes(size))
      BY <1>0, <1>1, <2>1, IncompleteZeroes
    <3> QED
      BY <2>1, <3>1, <3>2
  <2>3. CASE client' = "spin"
    BY <2>1, <2>3, GoesOn
  <2>4. CASE client' = "done"
    <3>1. T!Succeed
      BY <2>1, <2>2, <2>4 DEF T!Succeed
    <3> QED
      BY <3>1 DEF T!Next
  <2> QED
    BY <2>1, <2>3, <2>4
<1>6. CASE Read
  <2>0. client = "reading" /\ UNCHANGED <<size, open, sent>>
    BY <1>6 DEF Read, server
  <2>1. PICK n \in Nat \ {0} :
          /\ n <= sent - got
          /\ \/ /\ got + n >= size /\ client' = "done"
                /\ saved' = Slice(0, got + n)
             \/ /\ got + n < size /\ client' = "reading"
                /\ saved' = Slice(0, got + n)
             \/ client' = "reading" /\ saved' = saved
    BY <1>6, ReadCases
  <2>2. CASE got + n >= size /\ client' = "done" /\ saved' = Slice(0, got + n)
    <3>1. got + n = size
      BY <1>0, <2>1, <2>2 DEF Counts
    <3>2. saved' = T!Slice(0, size)
      BY <2>2, <3>1, SameBytes
    <3>3. T!Succeed
      BY <2>0, <2>2, <3>2 DEF T!Succeed
    <3> QED
      BY <3>3 DEF T!Next
  <2>3. CASE got + n < size /\ client' = "reading" /\ saved' = Slice(0, got + n)
    <3>1. Len(saved) = got - ret
      BY <2>0, SoFarWhole
    <3>2. got + n \in Len(saved)..size
      BY <1>0, <2>3, <3>1
    <3>3. saved' = T!Slice(0, got + n)
      BY <2>3, SameBytes
    <3>4. T!Grow
      BY <2>0, <2>3, <3>2, <3>3 DEF T!Grow
    <3> QED
      BY <3>4 DEF T!Next
  <2>4. CASE client' = "reading" /\ saved' = saved
    BY <2>0, <2>4, GoesOn
  <2> QED
    BY <2>1, <2>2, <2>3, <2>4
<1>7. CASE ~Client /\ ~Die
  <2>1. UNCHANGED <<size, client, saved>>
    BY <1>7 DEF Next, Server, Start, Flag, SendSome, SendNothing, Yield,
       Fail, SentAll, EpollWait, Hangup, Resume, Crash, Ignore, Shrink, Cut,
       Close, Drop, vars, receiver
  <2>2. ~open => ~open' /\ sent' = sent
    <3>1. ~open => ~running
      BY <1>0 DEF Stages
    <3> QED
      BY <1>7, <3>1 DEF Next, Server, Start, Flag, SendSome, SendNothing,
         Yield, Fail, SentAll, EpollWait, Hangup, Resume, Crash, Ignore,
         Shrink, Cut, Close, Drop, vars, server
  <2>3. CASE (~open' /\ sent' < size') = (~open /\ sent < size)
    BY <2>1, <2>3 DEF T!vars
  <2>4. CASE (~open' /\ sent' < size') # (~open /\ sent < size)
    <3>1. (~open' /\ sent' < size') = TRUE
      BY <2>1, <2>2, <2>4
    <3>2. T!Cut
      BY <2>1, <3>1 DEF T!Cut
    <3> QED
      BY <3>2 DEF T!Next
  <2> QED
    BY <2>3, <2>4
<1> QED
  BY <1>2, <1>3, <1>4, <1>5, <1>6, <1>7 DEF Client

(* The client's file grows along the server's and, once the download is    *)
(* over, stays; success says that it is whole, unless the server closed    *)
(* the connection early.                                                   *)
THEOREM DownloadTransfers == Spec => Transfers
<1>1. Init => T!Init /\ SpinFile
  <2>1. Init => client = "asked" /\ open /\ saved = <<>> /\ size \in Sizes
    BY DEF Init
  <2> QED
    BY <2>1 DEF T!Init, SpinFile
<1>2. Inv /\ SpinFile /\ [Next]_vars => SpinFile' /\ [T!Next]_(T!vars)
  BY NextTransfers, NextSpinFile
<1> QED
  BY <1>1, <1>2, DownloadInvariant, PTL DEF Spec, Transfers, T!Spec

=============================================================================
