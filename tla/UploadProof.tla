----------------------------- MODULE UploadProof -----------------------------
(***************************************************************************)
(* Proofs about Upload, for files, buffers and socket buffers of any size: *)
(* its types, what a log entry says of the file, that the buffer is never  *)
(* overrun, that no wake-up is lost, and that it implements Transfer.      *)
(***************************************************************************)
EXTENDS Upload, BytesProof

-----------------------------------------------------------------------------
(* The inductive invariant.                                                *)

(* How far each side is, and when.                                         *)
Progress ==
  /\ ret <= taken /\ taken <= sent /\ sent <= size + 1
  /\ size \notin Followed \/ client \in {"ask", "send"} => sent <= size
  /\ client = "ask" => /\ sent = 0 /\ ~reading /\ ~is_read_awaiting
                       /\ logged = "no" /\ open /\ event = "none" /\ ~edge
  /\ logged = "no" /\ client # "ask" => reading \/ is_read_awaiting
  /\ reading \/ is_read_awaiting => logged = "no" /\ open /\ taken < size
  /\ reading => event = "none"
  /\ ~open => event = "none"

(* A file holds the first a bytes, or less if something was not stored.    *)
Holds(file, missing, a) ==
  IF missing THEN Len(file) < a ELSE file = Slice(0, a)

(* While a file is received, what is saved and what is in the buffer are   *)
(* what was read, in a row.                                                *)
InARow ==
  logged = "no" =>
    /\ Holds(saved, lost, taken - ret)
    /\ IF Small THEN ret = taken ELSE ret < MAXARRSZ - NUMSTOP

Inv == TypeOK /\ Progress /\ InARow

LEMMA InitInv == Init => Inv
<1> SUFFICES ASSUME Init PROVE Inv
  OBVIOUS
<1>1. TypeOK
  <2>1. /\ edge \in BOOLEAN /\ reading \in BOOLEAN /\ open \in BOOLEAN
        /\ is_read_awaiting \in BOOLEAN
    BY Zenon DEF Init
  <2>2. saved \in Seq(Nat)
    BY DEF Init
  <2> QED
    BY <2>1, <2>2 DEF Init, TypeOK
<1>2. Progress
  BY UploadAssumption DEF Init, Progress
<1>3. InARow
  <2>1. Slice(0, taken - ret) = <<>>
    BY DEF Init, Slice
  <2> QED
    BY <2>1, UploadAssumption DEF Init, InARow, Holds
<1> QED
  BY <1>1, <1>2, <1>3 DEF Inv

(* What a write(2) leaves behind.                                          *)
LEMMA Stores ==
  ASSUME TypeOK, NEW a \in Nat, NEW block \in Seq(Nat),
         Holds(saved, lost, a), Store(block)
  PROVE  /\ saved' \in Seq(Nat) /\ lost' \in BOOLEAN
         /\ IF lost' THEN Len(saved') < a + Len(block)
            ELSE saved' = Slice(0, a) \o block
<1>1. saved \in Seq(Nat) /\ lost \in BOOLEAN /\ Len(block) \in Nat
  BY DEF TypeOK
<1>2. Len(saved) \in Nat /\ Len(saved) <= a
  <2>1. 0 \in Nat /\ 0 <= a
    OBVIOUS
  <2>2. Len(Slice(0, a)) = a - 0
    BY <2>1, SliceType
  <2> QED
    BY <1>1, <2>2 DEF Holds
<1>3. CASE saved' = saved \o block /\ lost' = lost
  <2>1. saved' \in Seq(Nat) /\ Len(saved') = Len(saved) + Len(block)
    BY <1>1, <1>3, ConcatProperties
  <2>2. CASE lost
    <3>1. Len(saved) < a
      BY <2>2 DEF Holds
    <3> QED
      BY <1>1, <1>2, <1>3, <2>1, <2>2, <3>1
  <2>3. CASE ~lost
    BY <1>1, <1>3, <2>1, <2>3 DEF Holds
  <2> QED
    BY <2>2, <2>3
<1>4. ASSUME lost' = TRUE, NEW n \in 1..(Len(block) - 1),
             saved' = saved \o SubSeq(block, 1, n)
      PROVE  saved' \in Seq(Nat) /\ Len(saved') < a + Len(block)
  <2>1. n \in Nat /\ 1 <= n /\ n < Len(block)
    BY <1>1, <1>4
  <2>2. \A i \in 1..n : block[i] \in Nat
    BY <1>1, <2>1
  <2>3. SubSeq(block, 1, n) \in Seq(Nat) /\ Len(SubSeq(block, 1, n)) = n
    BY <2>1, <2>2, SubSeqProperties
  <2>4. /\ saved \o SubSeq(block, 1, n) \in Seq(Nat)
        /\ Len(saved \o SubSeq(block, 1, n)) = Len(saved) + n
    BY <1>1, <2>3, ConcatProperties
  <2> QED
    BY <1>1, <1>2, <1>4, <2>1, <2>4
<1> QED
  BY <1>3, <1>4 DEF Store

LEMMA StoresSlice ==
  ASSUME TypeOK, NEW a \in Nat, NEW b \in Nat, a <= b,
         Holds(saved, lost, a), Store(Slice(a, b))
  PROVE  /\ saved' \in Seq(Nat) /\ lost' \in BOOLEAN
         /\ Holds(saved', lost', b)
<1>1. Slice(a, b) \in Seq(Nat) /\ Len(Slice(a, b)) = b - a
  BY SliceType
<1>2. Slice(0, a) \o Slice(a, b) = Slice(0, b)
  BY SliceSlice
<1>3. /\ saved' \in Seq(Nat) /\ lost' \in BOOLEAN
      /\ IF lost' THEN Len(saved') < a + Len(Slice(a, b))
         ELSE saved' = Slice(0, a) \o Slice(a, b)
  BY <1>1, Stores
<1>4. a + Len(Slice(a, b)) = b
  BY <1>1
<1> QED
  BY <1>2, <1>3, <1>4 DEF Holds

(* What a read(2) that returned bytes leads to.                            *)
LEMMA ReadCases ==
  ASSUME Inv, Read
  PROVE  \E n \in Nat \ {0} :
           /\ n <= sent - taken /\ taken' = taken + n
           /\ Small => taken + n <= size
           /\ UNCHANGED <<size, network, event, open>>
           /\ saved' \in Seq(Nat) /\ lost' \in BOOLEAN
           /\ \/ /\ taken + n >= size /\ Holds(saved', lost', taken + n)
                 /\ logged' = "success" /\ ~reading' /\ ~is_read_awaiting'
                 /\ ret' = 0
              \/ /\ taken + n < size /\ ~Small
                 /\ Holds(saved', lost', taken + n) /\ ret' = 0
                 /\ UNCHANGED <<logged, reading, is_read_awaiting>>
              \/ /\ taken + n < size /\ ret' = ret + n
                 /\ ~Small => ret + n < MAXARRSZ - NUMSTOP
                 /\ UNCHANGED <<saved, lost, logged, reading, is_read_awaiting>>
<1>1. PICK n \in 1..Wanted :
        LET block  == Slice(taken - ret, taken + n)
            enough == ret + n >= MAXARRSZ - NUMSTOP
        IN  /\ n <= sent - taken
            /\ taken' = taken + n
            /\ IF taken + n >= size
               THEN Store(block) /\ Finish("success")
               ELSE /\ IF ~Small /\ enough
                       THEN Store(block) /\ ret' = 0
                       ELSE ret' = ret + n /\ UNCHANGED <<saved, lost>>
                    /\ UNCHANGED <<logged, reading, is_read_awaiting>>
  BY DEF Read
<1>2. /\ size \in Nat /\ taken \in Nat /\ ret \in Nat /\ sent \in Nat
      /\ ret <= taken /\ taken < size /\ logged = "no"
      /\ MAXARRSZ \in Nat /\ NUMSTOP \in Nat
  BY UploadAssumption DEF Inv, TypeOK, Progress, Read
<1>3. /\ Holds(saved, lost, taken - ret)
      /\ IF Small THEN ret = taken ELSE ret < MAXARRSZ - NUMSTOP
  BY <1>2 DEF Inv, InARow
<1>4. Wanted \in Nat
  BY <1>2, <1>3, UploadAssumption DEF Wanted, Small
<1>5. n \in Nat \ {0} /\ (Small => taken + n <= size)
  BY <1>1, <1>2, <1>3, <1>4 DEF Wanted
<1>6. Store(Slice(taken - ret, taken + n))
        => /\ saved' \in Seq(Nat) /\ lost' \in BOOLEAN
           /\ Holds(saved', lost', taken + n)
  <2>1. /\ taken - ret \in Nat /\ taken + n \in Nat
        /\ taken - ret <= taken + n
    BY <1>2, <1>5
  <2> QED
    BY <1>3, <2>1, StoresSlice DEF Inv
<1> saved \in Seq(Nat) /\ lost \in BOOLEAN
  BY DEF Inv, TypeOK
<1>7. UNCHANGED <<size, network, event, open>>
  BY DEF Read
<1>8. CASE taken + n >= size
  BY <1>1, <1>5, <1>6, <1>7, <1>8 DEF Finish
<1>9. CASE ~(taken + n >= size)
  <2>1. taken + n < size
    BY <1>2, <1>5, <1>9
  <2>2. CASE ~Small /\ ret + n >= MAXARRSZ - NUMSTOP
    BY <1>1, <1>5, <1>6, <1>7, <1>9, <2>1, <2>2
  <2>3. CASE ~(~Small /\ ret + n >= MAXARRSZ - NUMSTOP)
    <3>1. ~Small => ret + n < MAXARRSZ - NUMSTOP
      BY <1>2, <1>5, <2>3, UploadAssumption
    <3> QED
      BY <1>1, <1>5, <1>7, <1>9, <2>1, <2>3, <3>1
  <2> QED
    BY <2>2, <2>3
<1> QED
  BY <1>8, <1>9

(* What is stored at an end of file: all that was read, and the zeroes of  *)
(* a small file's buffer.                                                  *)
LEMMA EndStores ==
  ASSUME Inv, EndOfFile
  PROVE  /\ saved' \in Seq(Nat) /\ lost' \in BOOLEAN
         /\ IF lost' THEN Len(saved') < size
            ELSE \E z \in Nat : /\ saved' = Slice(0, taken) \o Zeroes(z)
                                /\ taken + z <= size
<1> DEFINE zeroes == IF Small THEN Zeroes(size - ret) ELSE <<>>
           block  == Slice(taken - ret, taken)
<1>1. /\ size \in Nat /\ taken \in Nat /\ ret \in Nat
      /\ ret <= taken /\ taken < size
      /\ Holds(saved, lost, taken - ret)
      /\ Small => ret = taken
      /\ TypeOK
  BY UploadAssumption DEF Inv, TypeOK, Progress, InARow, EndOfFile
<1>2. taken - ret \in Nat /\ taken - ret <= taken
  BY <1>1
<1>3. block \in Seq(Nat) /\ Len(block) = ret
  <2>1. block \in Seq(Nat) /\ Len(block) = taken - (taken - ret)
    BY <1>1, <1>2, SliceType
  <2> QED
    BY <1>1, <2>1
<1>4. PICK z \in Nat : zeroes = Zeroes(z) /\ taken + z <= size
  <2>1. CASE Small
    <3>1. size - ret \in Nat /\ taken + (size - ret) <= size
      BY <1>1, <2>1
    <3> QED
      BY <2>1, <3>1
  <2>2. CASE ~Small
    <3>1. zeroes = Zeroes(0)
      BY <2>2 DEF Zeroes
    <3>2. taken + 0 <= size
      BY <1>1
    <3> QED
      BY <3>1, <3>2
  <2> QED
    BY <2>1, <2>2
<1>5. Store(block \o zeroes)
  BY DEF EndOfFile
<1> HIDE DEF zeroes, block
<1>6. zeroes \in Seq(Nat) /\ Len(zeroes) = z
  BY <1>4, ZeroesType
<1>7. block \o zeroes \in Seq(Nat) /\ Len(block \o zeroes) = ret + z
  BY <1>3, <1>6, ConcatProperties
<1>8. /\ saved' \in Seq(Nat) /\ lost' \in BOOLEAN
      /\ IF lost' THEN Len(saved') < (taken - ret) + Len(block \o zeroes)
         ELSE saved' = Slice(0, taken - ret) \o (block \o zeroes)
  BY <1>1, <1>2, <1>5, <1>7, Stores
<1>9. (taken - ret) + Len(block \o zeroes) <= size
  BY <1>1, <1>4, <1>7
<1>10. Slice(0, taken - ret) \o (block \o zeroes) = Slice(0, taken) \o Zeroes(z)
  <2>1. Slice(0, taken - ret) \o block = Slice(0, taken)
    BY <1>1, <1>2, SliceSlice DEF block
  <2>2. 0 \in Nat /\ 0 <= taken - ret
    BY <1>2
  <2>3. Slice(0, taken - ret) \in Seq(Nat)
    BY <1>2, <2>2, SliceType
  <2>4. Slice(0, taken - ret) \o (block \o zeroes)
          = (Slice(0, taken - ret) \o block) \o zeroes
    BY <1>3, <1>6, <2>3, ConcatAssociative
  <2> QED
    BY <1>4, <2>1, <2>4
<1>11. CASE lost'
  <2>1. Len(saved') < (taken - ret) + Len(block \o zeroes) /\ Len(saved') \in Nat
    BY <1>8, <1>11
  <2>2. Len(saved') < size
    BY <1>1, <1>7, <1>9, <2>1
  <2> QED
    BY <1>8, <1>11, <2>2
<1>12. CASE ~lost'
  BY <1>4, <1>8, <1>10, <1>12
<1> QED
  BY <1>11, <1>12

LEMMA NextType == Inv /\ [Next]_vars => TypeOK'
<1> SUFFICES ASSUME Inv, [Next]_vars PROVE TypeOK'
  OBVIOUS
<1>0. TypeOK /\ Progress /\ InARow /\ size \in Nat
  BY UploadAssumption DEF Inv, TypeOK
<1> USE <1>0 DEF TypeOK, network, upload
<1>1. CASE SendSome
  BY <1>1 DEF SendSome
<1>2. CASE SentAll
  BY <1>2 DEF SentAll
<1>3. CASE NextRequest
  BY <1>3 DEF NextRequest
<1>4. CASE Leave
  <2>1. edge' \in BOOLEAN
    BY <1>4, Zenon DEF Leave
  <2> QED
    BY <1>4, <2>1 DEF Leave
<1>5. CASE Start
  <2>1. reading' \in BOOLEAN /\ open' \in BOOLEAN
    BY <1>5, Zenon DEF Start
  <2> QED
    BY <1>5, <2>1 DEF Start
<1>6. CASE EpollWait
  BY <1>6 DEF EpollWait, Gone
<1>7. CASE Hangup
  BY <1>7 DEF Hangup
<1>8. CASE Resume
  BY <1>8 DEF Resume
<1>9. CASE Decide
  BY <1>9 DEF Decide
<1>10. CASE Ignore
  BY <1>10 DEF Ignore
<1>11. CASE Suspend
  BY <1>11 DEF Suspend, Gone
<1>12. CASE Read
  <2>1. PICK n \in Nat \ {0} :
          /\ taken' = taken + n
          /\ saved' \in Seq(Nat) /\ lost' \in BOOLEAN
          /\ ret' \in {0, ret + n}
          /\ logged' \in {logged, "success"}
          /\ reading' \in {reading, FALSE}
          /\ is_read_awaiting' \in {is_read_awaiting, FALSE}
          /\ UNCHANGED <<size, network, event, open>>
    BY <1>12, ReadCases DEF Read, Finish
  <2>3. taken' \in Nat /\ ret' \in Nat /\ saved' \in Seq(Nat)
    BY <2>1
  <2>4. reading' \in BOOLEAN /\ is_read_awaiting' \in BOOLEAN
    BY <2>1, Zenon
  <2> QED
    BY <2>1, <2>3, <2>4
<1>13. CASE EndOfFile
  <2>1. saved' \in Seq(Nat) /\ lost' \in BOOLEAN
    BY <1>13, EndStores
  <2> QED
    BY <1>13, <2>1 DEF EndOfFile, Finish
<1>14. CASE ReadFails
  BY <1>14 DEF ReadFails, Finish
<1>15. CASE SendFails
  BY <1>15 DEF SendFails
<1>16. CASE WriteFails
  <2>1. taken' \in Nat
    <3>1. CASE \E n \in 1..Wanted : taken' = taken + n
      BY <3>1
    <3> QED
      BY <1>16, <3>1 DEF WriteFails
  <2> QED
    BY <1>16, <2>1 DEF WriteFails, Finish
<1>17. CASE UNCHANGED vars
  BY <1>17 DEF vars
<1> QED
  BY <1>1, <1>2, <1>3, <1>4, <1>5, <1>6, <1>7, <1>8, <1>9, <1>10,
     <1>11, <1>12, <1>13, <1>14, <1>15, <1>16, <1>17
  DEF Next, Client, Server

LEMMA NextProgress == Inv /\ [Next]_vars => Progress'
<1> SUFFICES ASSUME Inv, [Next]_vars PROVE Progress'
  OBVIOUS
<1>0. TypeOK /\ Progress /\ size \in Nat
  BY UploadAssumption DEF Inv, TypeOK
<1> USE <1>0 DEF TypeOK, Progress, network, upload
<1>1. CASE SendSome
  BY <1>1 DEF SendSome
<1>2. CASE SentAll
  BY <1>2 DEF SentAll
<1>3. CASE NextRequest
  BY <1>3 DEF NextRequest
<1>4. CASE Leave
  BY <1>4 DEF Leave, Gone
<1>5. CASE Start
  <2>1. /\ client = "ask" /\ client' = "send" /\ ~is_read_awaiting'
        /\ (reading' <=> size # 0) /\ (open' <=> size # 0)
        /\ logged' = IF size = 0 THEN "incomplete" ELSE "no"
        /\ UNCHANGED <<size, sent, taken, event, ret>> /\ event = "none"
    BY <1>5 DEF Start
  <2> QED
    BY <2>1
<1>6. CASE EpollWait
  BY <1>6 DEF EpollWait, Gone
<1>7. CASE Hangup
  BY <1>7 DEF Hangup
<1>8. CASE Resume
  BY <1>8 DEF Resume
<1>9. CASE Decide
  BY <1>9 DEF Decide
<1>10. CASE Ignore
  BY <1>10 DEF Ignore
<1>11. CASE Suspend
  BY <1>11 DEF Suspend, Gone
<1>12. CASE Read
  <2>1. PICK n \in Nat \ {0} :
          /\ n <= sent - taken /\ taken' = taken + n
          /\ Small => taken + n <= size
          /\ UNCHANGED <<size, network, event, open>>
          /\ \/ /\ taken + n >= size
                /\ logged' = "success" /\ ~reading' /\ ~is_read_awaiting'
                /\ ret' = 0
             \/ /\ taken + n < size /\ ret' \in {0, ret + n}
                /\ UNCHANGED <<logged, reading, is_read_awaiting>>
    BY <1>12, ReadCases, Zenon
  <2>2. reading /\ client # "ask" /\ logged = "no" /\ open /\ event = "none"
    BY <1>12 DEF Read
  <2>3. /\ ret' <= taken' /\ taken' <= sent' /\ sent' <= size' + 1
        /\ (size' \notin Followed \/ client' \in {"ask", "send"} => sent' <= size')
    <3>1. /\ taken' = taken + n /\ sent' = sent /\ size' = size
          /\ client' = client /\ n <= sent - taken
      BY <2>1
    <3>2. ret' = 0 \/ ret' = ret + n
      BY <2>1
    <3> QED
      BY <3>1, <3>2
  <2>4. CASE logged' = "success" /\ ~reading' /\ ~is_read_awaiting'
    BY <2>1, <2>2, <2>3, <2>4
  <2>5. CASE taken' < size' /\ UNCHANGED <<logged, reading, is_read_awaiting>>
    BY <2>1, <2>2, <2>3, <2>5
  <2> QED
    BY <2>1, <2>4, <2>5
<1>13. CASE EndOfFile
  BY <1>13 DEF EndOfFile, Finish
<1>14. CASE ReadFails
  BY <1>14 DEF ReadFails, Finish
<1>15. CASE SendFails
  BY <1>15 DEF SendFails
<1>16. CASE WriteFails
  BY <1>16 DEF WriteFails, Finish
<1>17. CASE UNCHANGED vars
  BY <1>17 DEF vars
<1> QED
  BY <1>1, <1>2, <1>3, <1>4, <1>5, <1>6, <1>7, <1>8, <1>9, <1>10,
     <1>11, <1>12, <1>13, <1>14, <1>15, <1>16, <1>17
  DEF Next, Client, Server

LEMMA NextInARow == Inv /\ [Next]_vars => InARow'
<1> SUFFICES ASSUME Inv, [Next]_vars PROVE InARow'
  OBVIOUS
<1>0. TypeOK /\ Progress /\ InARow /\ size \in Nat
  BY UploadAssumption DEF Inv, TypeOK
<1>1. CASE Read
  <2>1. PICK n \in Nat \ {0} :
          /\ taken' = taken + n /\ size' = size
          /\ \/ logged' = "success"
             \/ ~Small /\ Holds(saved', lost', taken + n) /\ ret' = 0
             \/ /\ ret' = ret + n /\ UNCHANGED <<saved, lost>>
                /\ ~Small => ret + n < MAXARRSZ - NUMSTOP
    BY <1>1, ReadCases
  <2>2. taken \in Nat /\ ret \in Nat /\ logged = "no"
    BY <1>0, <1>1 DEF TypeOK, Progress, Read
  <2>4. CASE logged' = "success"
    BY <2>4 DEF InARow
  <2>5. CASE ~Small /\ Holds(saved', lost', taken + n) /\ ret' = 0
    <3>1. taken' - ret' = taken + n
      BY <2>1, <2>2, <2>5
    <3> QED
      BY <2>1, <2>2, <2>5, <3>1, UploadAssumption DEF InARow, Small
  <2>6. CASE /\ ret' = ret + n /\ UNCHANGED <<saved, lost>>
             /\ ~Small => ret + n < MAXARRSZ - NUMSTOP
    <3>1. taken' - ret' = taken - ret
      BY <2>1, <2>2, <2>6
    <3> QED
      BY <1>0, <2>1, <2>2, <2>6, <3>1 DEF InARow, Small
  <2> QED
    BY <2>1, <2>4, <2>5, <2>6
<1>2. CASE EndOfFile \/ ReadFails \/ WriteFails
  BY <1>2 DEF EndOfFile, ReadFails, WriteFails, Finish, InARow
<1>3. CASE Decide
  <2>1. logged # "no"
    BY <1>0, <1>3 DEF Decide, Progress
  <2> QED
    BY <1>3, <2>1 DEF Decide, InARow, upload
<1>4. CASE ~Read /\ ~EndOfFile /\ ~ReadFails /\ ~WriteFails /\ ~Decide
  <2>1. /\ UNCHANGED <<size, taken, ret, saved, lost>>
        /\ logged' = "no" => logged = "no"
    BY <1>0, <1>4 DEF Next, Client, Server, SendSome, SentAll, SendFails,
       NextRequest, Leave, Start, EpollWait, Hangup, Resume, Ignore, Suspend, vars,
       upload, Progress
  <2> QED
    BY <1>0, <2>1 DEF InARow, Small
<1> QED
  BY <1>1, <1>2, <1>3, <1>4

LEMMA NextInv == Inv /\ [Next]_vars => Inv'
  BY NextType, NextProgress, NextInARow DEF Inv

(* The invariant.                                                          *)
THEOREM UploadInvariant == Spec => []Inv
  BY InitInv, NextInv, PTL DEF Spec

(* Every variable has its type.                                            *)
THEOREM UploadTypes == Spec => []TypeOK
<1>1. Inv => TypeOK
  BY DEF Inv
<1> QED
  BY <1>1, UploadInvariant, PTL

(* No read is out of range: there is room whenever the coroutine reads.    *)
THEOREM BufferHasRoom == Spec => []RoomLeft
<1>1. Inv => RoomLeft
  BY UploadAssumption
  DEF Inv, TypeOK, Progress, InARow, RoomLeft, Wanted, Small
<1> QED
  BY <1>1, UploadInvariant, PTL

-----------------------------------------------------------------------------
(* What "Not received complete file data" says.                            *)

LEMMA NextIncomplete ==
  ASSUME 0 \notin Sizes, Inv, IncompleteMeansShort, [Next]_vars
  PROVE  IncompleteMeansShort'
<1>1. /\ size \in Nat /\ size # 0 /\ taken \in Nat /\ ret \in Nat
      /\ ret <= taken /\ saved \in Seq(Nat) /\ lost \in BOOLEAN
      /\ Progress /\ InARow
  BY UploadAssumption DEF Inv, TypeOK, Progress
<1>2. reading => saved # Slice(0, size)
  <2>1. ASSUME reading PROVE Len(saved) < Len(Slice(0, size))
    <3>1. Holds(saved, lost, taken - ret) /\ taken - ret \in Nat /\ taken < size
      BY <1>1, <2>1 DEF Progress, InARow
    <3>2. 0 \in Nat /\ 0 <= size /\ 0 <= taken - ret
      BY <1>1, <3>1
    <3>3. Len(Slice(0, size)) = size - 0
      BY <1>1, <3>2, SliceType
    <3>4. Len(Slice(0, taken - ret)) = (taken - ret) - 0
      BY <3>1, <3>2, SliceType
    <3>5. Len(saved) <= taken - ret /\ Len(saved) \in Nat
      BY <1>1, <3>1, <3>4 DEF Holds
    <3> QED
      BY <1>1, <3>1, <3>3, <3>5
  <2> QED
    BY <1>1, <2>1
<1>3. CASE ReadFails \/ WriteFails
  BY <1>2, <1>3 DEF ReadFails, WriteFails, IncompleteMeansShort
<1>4. CASE EndOfFile
  <2>1. size' = size /\ taken < size
    BY <1>1, <1>4 DEF EndOfFile, Progress
  <2>2. CASE lost'
    <3>1. saved' \in Seq(Nat) /\ Len(saved') < size
      BY <1>4, <2>2, EndStores
    <3>2. 0 \in Nat /\ 0 <= size
      BY <1>1
    <3>3. Len(Slice(0, size)) = size - 0
      BY <1>1, <3>2, SliceType
    <3>4. Len(saved') # Len(Slice(0, size))
      BY <1>1, <3>1, <3>3
    <3> QED
      BY <2>1, <3>4 DEF IncompleteMeansShort
  <2>3. CASE ~lost'
    <3>1. PICK z \in Nat : saved' = Slice(0, taken) \o Zeroes(z)
      BY <1>4, <2>3, EndStores
    <3> QED
      BY <1>1, <2>1, <3>1, SliceShort DEF IncompleteMeansShort
  <2> QED
    BY <2>2, <2>3
<1>5. CASE Read
  <2>1. logged' \in {logged, "success"} /\ logged = "no"
    BY <1>1, <1>5, ReadCases DEF Read, Progress
  <2> QED
    BY <2>1 DEF IncompleteMeansShort
<1>6. CASE ~ReadFails /\ ~WriteFails /\ ~EndOfFile /\ ~Read
  <2>1. /\ UNCHANGED <<size, saved>>
        /\ logged' = "incomplete" => logged = "incomplete"
    BY <1>1, <1>6 DEF Next, Client, Server, SendSome, SentAll, SendFails,
       NextRequest, Leave, Start, EpollWait, Hangup, Resume, Decide, Ignore, Suspend,
       vars, upload
  <2> QED
    BY <2>1 DEF IncompleteMeansShort
<1> QED
  BY <1>3, <1>4, <1>5, <1>6

(* "Not received complete file data" is only logged when the file is not   *)
(* the client's, if no file is empty.                                      *)
THEOREM IncompleteIsShort == 0 \notin Sizes => (Spec => []IncompleteMeansShort)
<1> SUFFICES ASSUME 0 \notin Sizes PROVE Spec => []IncompleteMeansShort
  OBVIOUS
<1>1. Init => IncompleteMeansShort
  BY DEF Init, IncompleteMeansShort
<1>2. Inv /\ IncompleteMeansShort /\ [Next]_vars => IncompleteMeansShort'
  BY NextIncomplete
<1> QED
  BY <1>1, <1>2, UploadInvariant, PTL DEF Spec

-----------------------------------------------------------------------------
(* What "Success on receiving file" says.                                  *)

(* Nothing can get into the file but the file: either the client sends     *)
(* nothing more, or the file is small.                                     *)
NoOverread == \A s \in Sizes \cap Followed : s < MAXARRSZ

LEMMA NextExact ==
  NoOverread /\ Inv /\ SuccessExact /\ [Next]_vars => SuccessExact'
<1> SUFFICES ASSUME NoOverread, Inv, SuccessExact, [Next]_vars
             PROVE  SuccessExact'
  OBVIOUS
<1>0. TypeOK /\ Progress /\ size \in Nat
  BY UploadAssumption DEF Inv, TypeOK
<1>1. CASE Read
  <2>1. PICK n \in Nat \ {0} :
          /\ n <= sent - taken /\ size' = size
          /\ Small => taken + n <= size
          /\ logged' = "success"
               => taken + n >= size /\ Holds(saved', lost', taken + n)
    <3>1. logged = "no"
      BY <1>0, <1>1 DEF Progress, Read
    <3> QED
      BY <1>1, <3>1, ReadCases
  <2>2. taken + n <= size
    <3>1. CASE Small
      BY <2>1, <3>1
    <3>2. CASE size \notin Followed
      BY <1>0, <2>1, <3>2 DEF Progress, TypeOK
    <3> QED
      BY <1>0, <3>1, <3>2 DEF NoOverread, TypeOK, Small
  <2>3. taken + n >= size => taken + n = size
    BY <1>0, <2>1, <2>2 DEF TypeOK
  <2> QED
    BY <2>1, <2>3 DEF SuccessExact, Holds
<1>2. CASE EndOfFile \/ ReadFails \/ WriteFails
  BY <1>2 DEF EndOfFile, ReadFails, WriteFails, Finish, SuccessExact
<1>3. CASE ~Read /\ ~EndOfFile /\ ~ReadFails /\ ~WriteFails
  <2>1. /\ UNCHANGED <<size, saved, lost>>
        /\ logged' = "success" => logged = "success"
    BY <1>0, <1>3 DEF Next, Client, Server, SendSome, SentAll, SendFails,
       NextRequest, Leave, Start, EpollWait, Hangup, Resume, Decide, Ignore, Suspend,
       vars, upload
  <2> QED
    BY <2>1 DEF SuccessExact
<1> QED
  BY <1>1, <1>2, <1>3

(* A file of which "Success" is logged is the client's, byte for byte.     *)
THEOREM SuccessIsExact == NoOverread => (Spec => []SuccessExact)
<1> SUFFICES ASSUME NoOverread PROVE Spec => []SuccessExact
  OBVIOUS
<1>1. Init => SuccessExact
  BY DEF Init, SuccessExact
<1>2. Inv /\ SuccessExact /\ [Next]_vars => SuccessExact'
  BY NextExact
<1> QED
  BY <1>1, <1>2, UploadInvariant, PTL DEF Spec

-----------------------------------------------------------------------------
(* Edge-triggered wake-ups.                                                *)

LEMMA NextWakeUp == Inv /\ WakeUpKept /\ [Next]_vars => WakeUpKept'
<1> SUFFICES ASSUME Inv, WakeUpKept, [Next]_vars PROVE WakeUpKept'
  OBVIOUS
<1>0. TypeOK /\ Progress /\ WakeUpKept
  BY DEF Inv
<1> USE <1>0 DEF TypeOK, Progress, WakeUpKept, network, upload, Gone
<1>1. CASE SendSome
  BY <1>1 DEF SendSome
<1>2. CASE SentAll
  BY <1>2 DEF SentAll
<1>3. CASE NextRequest
  BY <1>3 DEF NextRequest
<1>4. CASE Leave
  BY <1>4 DEF Leave
<1>5. CASE Start
  BY <1>5 DEF Start
<1>6. CASE EpollWait
  BY <1>6 DEF EpollWait
<1>7. CASE Hangup
  BY <1>7 DEF Hangup
<1>8. CASE Resume
  BY <1>8 DEF Resume
<1>9. CASE Decide
  BY <1>9 DEF Decide
<1>10. CASE Ignore
  BY <1>10 DEF Ignore
<1>11. CASE Suspend
  BY <1>11 DEF Suspend
<1>12. CASE Read
  <2>1. /\ reading' = reading \/ ~is_read_awaiting'
        /\ UNCHANGED <<client, sent, edge, event>>
    BY <1>12, ReadCases DEF Read
  <2> QED
    BY <1>12, <2>1 DEF Read
<1>13. CASE EndOfFile
  BY <1>13 DEF EndOfFile, Finish
<1>14. CASE ReadFails
  BY <1>14 DEF ReadFails, Finish
<1>15. CASE SendFails
  BY <1>15 DEF SendFails
<1>16. CASE WriteFails
  BY <1>16 DEF WriteFails, Finish
<1>17. CASE UNCHANGED vars
  BY <1>17 DEF vars
<1> QED
  BY <1>1, <1>2, <1>3, <1>4, <1>5, <1>6, <1>7, <1>8, <1>9, <1>10,
     <1>11, <1>12, <1>13, <1>14, <1>15, <1>16, <1>17
  DEF Next, Client, Server

(* What a suspended upload waits for is announced when it comes.           *)
THEOREM NoWakeUpLost == Spec => []WakeUpKept
<1>1. Init => WakeUpKept
  BY DEF Init, WakeUpKept
<1> QED
  BY <1>1, InitInv, NextInv, NextWakeUp, PTL DEF Spec

-----------------------------------------------------------------------------
(* An upload is a transfer.                                                *)

LEMMA SameBytes ==
  /\ \A a, b : T!Slice(a, b) = Slice(a, b)
  /\ \A n : T!Zeroes(n) = Zeroes(n)
  BY DEF T!Slice, Slice, T!Zeroes, Zeroes

LEMMA IncompleteSlice ==
  ASSUME size \in Nat, NEW n \in Nat, NEW z \in Nat, n + z <= size
  PROVE  T!Incomplete(Slice(0, n) \o Zeroes(z)) /\ T!Incomplete(Slice(0, n))
<1>1. n \in 0..size /\ z \in 0..(size - n) /\ 0 \in 0..(size - n)
  OBVIOUS
<1>2. Slice(0, n) \o Zeroes(0) = Slice(0, n)
  <2>1. Slice(0, n) \in Seq(Nat)
    BY SliceType
  <2>2. Zeroes(0) = <<>>
    BY DEF Zeroes
  <2> QED
    BY <2>1, <2>2, ConcatEmptySeq
<1> QED
  BY <1>1, <1>2, SameBytes DEF T!Incomplete

(* The upload ends without the whole file.                                 *)
LEMMA EndsShort ==
  ASSUME lost \in BOOLEAN, lost' \in BOOLEAN, lost => lost', size' = size,
         logged = "no", logged' \in {"incomplete", "dropped"},
         IF lost' THEN Len(saved') < size ELSE T!Incomplete(saved')
  PROVE  T!Next
<1>1. CASE lost'
  BY <1>1 DEF T!Next, T!Lose
<1>2. CASE ~lost'
  <2>1. lost' = lost
    BY <1>2
  <2> QED
    BY <1>2, <2>1 DEF T!Next, T!Fail
<1> QED
  BY <1>1, <1>2

LEMMA NextTransfers ==
  ASSUME Inv, Inv', SuccessExact', [Next]_vars
  PROVE  [T!Next]_(T!vars)
<1>0. /\ TypeOK /\ Progress /\ InARow
      /\ size \in Nat /\ taken \in Nat /\ ret \in Nat /\ ret <= taken
      /\ lost \in BOOLEAN /\ lost' \in BOOLEAN
  BY UploadAssumption DEF Inv, TypeOK, Progress
<1>1. logged = "no" => taken - ret \in Nat /\ taken <= size
  BY <1>0 DEF Progress, TypeOK
<1>2. logged = "no"
        => IF lost THEN Len(saved) < size ELSE T!Incomplete(saved)
  <2>1. ASSUME logged = "no", ~lost PROVE T!Incomplete(saved)
    <3>1. taken - ret \in Nat /\ (taken - ret) + 0 <= size
      BY <1>0, <1>1, <2>1
    <3> QED
      BY <1>0, <2>1, <3>1, IncompleteSlice DEF InARow, Holds
  <2>2. ASSUME logged = "no", lost PROVE Len(saved) < size
    <3>1. Len(saved) < taken - ret /\ Len(saved) \in Nat
      BY <1>0, <2>2 DEF InARow, Holds, TypeOK
    <3> QED
      BY <1>0, <1>1, <2>2, <3>1
  <2> QED
    BY <2>1, <2>2
<1>3. CASE Start
  <2>1. /\ size' = size /\ saved' = saved /\ lost' = lost /\ logged = "no"
        /\ logged' \in {"no", "incomplete"}
    BY <1>0, <1>3 DEF Start, Progress
  <2> QED
    BY <1>0, <1>2, <2>1, EndsShort DEF T!vars
<1>4. CASE Hangup
  <2>1. /\ size' = size /\ saved' = saved /\ lost' = lost
        /\ logged' = IF logged = "no" THEN "dropped" ELSE logged
    BY <1>4 DEF Hangup
  <2> QED
    BY <1>0, <1>2, <2>1, EndsShort DEF T!vars
<1>5. CASE ReadFails \/ WriteFails
  <2>1. /\ size' = size /\ saved' = saved /\ lost' = lost /\ logged = "no"
        /\ logged' = "incomplete"
    BY <1>0, <1>5 DEF ReadFails, WriteFails, Finish, Progress
  <2> QED
    BY <1>0, <1>2, <2>1, EndsShort
<1>6. CASE EndOfFile
  <2>1. size' = size /\ logged = "no" /\ logged' = "incomplete"
    BY <1>0, <1>6 DEF EndOfFile, Finish, Progress
  <2>2. lost => lost'
    BY <1>6 DEF EndOfFile, Store
  <2>3. lost' => Len(saved') < size
    BY <1>6, EndStores
  <2>4. ~lost' => T!Incomplete(saved')
    <3>1. SUFFICES ASSUME ~lost' PROVE T!Incomplete(saved')
      OBVIOUS
    <3>2. PICK z \in Nat : /\ saved' = Slice(0, taken) \o Zeroes(z)
                          /\ taken + z <= size
      BY <1>6, <3>1, EndStores
    <3> QED
      BY <1>0, <3>2, IncompleteSlice
  <2> QED
    BY <1>0, <2>1, <2>2, <2>3, <2>4, EndsShort
<1>7. CASE Read
  <2>1. PICK n \in Nat \ {0} :
          /\ taken' = taken + n /\ size' = size
          /\ \/ logged' = "success"
             \/ /\ taken + n < size /\ Holds(saved', lost', taken + n)
                /\ logged' = logged
             \/ UNCHANGED <<saved, lost, logged>>
    BY <1>7, ReadCases
  <2>2. logged = "no" /\ (lost => lost') /\ Len(saved') \in Nat
    <3>1. logged = "no"
      BY <1>0, <1>7 DEF Read, Progress
    <3>2. lost' = TRUE \/ lost' = lost
      BY <1>7 DEF Read, Store
    <3>3. saved' \in Seq(Nat)
      BY DEF Inv, TypeOK
    <3>4. Len(saved') \in Nat
      BY <3>3
    <3> QED
      BY <3>1, <3>2, <3>4
  <2>3. CASE logged' = "success"
    <3>1. CASE lost'
      BY <2>1, <2>2, <2>3, <3>1 DEF SuccessExact, T!Next, T!Lose
    <3>2. CASE ~lost'
      <4>1. saved' = T!Slice(0, size) /\ lost' = lost /\ ~lost
        BY <1>0, <2>1, <2>2, <2>3, <3>2, SameBytes DEF SuccessExact
      <4> QED
        BY <2>1, <2>2, <2>3, <4>1 DEF T!Next, T!Succeed
    <3> QED
      BY <3>1, <3>2
  <2>4. CASE /\ taken + n < size /\ Holds(saved', lost', taken + n)
             /\ logged' = logged
    <3>1. CASE lost'
      <4>1. Len(saved') < size
        BY <1>0, <2>2, <2>4, <3>1 DEF Holds
      <4> QED
        BY <2>1, <2>2, <2>4, <3>1, <4>1 DEF T!Next, T!Lose
    <3>2. CASE ~lost'
      <4>1. ~lost /\ lost' = lost
        BY <1>0, <2>2, <3>2
      <4>2. Len(saved) = taken - ret
        <5>1. /\ taken - ret \in Nat /\ saved = Slice(0, taken - ret)
              /\ 0 \in Nat /\ 0 <= taken - ret
          BY <1>0, <2>2, <4>1 DEF InARow, Holds
        <5>2. Len(Slice(0, taken - ret)) = (taken - ret) - 0
          BY <5>1, SliceType
        <5> QED
          BY <5>1, <5>2
      <4>3. taken + n \in Len(saved)..size
        BY <1>0, <2>4, <4>2
      <4>4. saved' = T!Slice(0, taken + n)
        BY <2>4, <3>2, SameBytes DEF Holds
      <4> QED
        BY <2>1, <2>2, <2>4, <4>1, <4>3, <4>4 DEF T!Next, T!Grow
    <3> QED
      BY <3>1, <3>2
  <2>5. CASE UNCHANGED <<saved, lost, logged>>
    BY <2>1, <2>5 DEF T!vars
  <2> QED
    BY <2>1, <2>3, <2>4, <2>5
<1>8. CASE /\ ~Start /\ ~Hangup /\ ~ReadFails /\ ~WriteFails
           /\ ~EndOfFile /\ ~Read
  <2>1. UNCHANGED <<size, saved, lost, logged>>
    BY <1>8 DEF Next, Client, Server, SendSome, SentAll, SendFails,
       NextRequest, Leave, EpollWait, Resume, Decide, Ignore, Suspend, vars,
       upload
  <2> QED
    BY <2>1 DEF T!vars
<1> QED
  BY <1>3, <1>4, <1>5, <1>6, <1>7, <1>8

(* The server's file grows along the client's and, once the upload is      *)
(* over, stays what the log says that it is.                               *)
THEOREM UploadTransfers == NoOverread => (Spec => Transfers)
<1> SUFFICES ASSUME NoOverread PROVE Spec => Transfers
  OBVIOUS
<1>1. Init => T!Init
  BY DEF Init, T!Init
<1>2. Inv /\ Inv' /\ SuccessExact' /\ [Next]_vars => [T!Next]_(T!vars)
  BY NextTransfers
<1> QED
  BY <1>1, <1>2, UploadInvariant, SuccessIsExact, PTL
  DEF Spec, Transfers, T!Spec

=============================================================================
