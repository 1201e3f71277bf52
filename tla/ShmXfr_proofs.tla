---------------------------- MODULE ShmXfr_proofs ----------------------------
(***************************************************************************)
(* Proofs about ShmXfr, for every file length, block size and set of       *)
(* programs.  The semaphores guard the segment because the turn is always  *)
(* in exactly one place: given to the writer, held by it, given to the     *)
(* reader, or held by it.  The threads of 53_1 leave that order after the  *)
(* end of file, when the writer posts twice.                               *)
(***************************************************************************)
EXTENDS ShmXfr, TLAPS

Given(s)    == IF UsesFlags THEN sem[s] = 0 ELSE sem[s] = 1
Withheld(s) == IF UsesFlags THEN sem[s] = 1 ELSE sem[s] = 0

ReaderAway == rpc \in {"start", "shmget", "wait", "done"}
WriterAway == wpc \in {"test", "wait", "lastWait"}

\* The writer has not initialised both semaphores yet.
SettingUp ==
    /\ wpc \in {"start", "initW", "initR"} \/ (wpc = "failed" /\ UsesThreads)
    /\ sem["READ_SEM"] = 0
    /\ sem["WRITE_SEM"] = IF wpc = "initR" /\ ~UsesFlags THEN 1 ELSE 0
    /\ rpc \in {"start", "shmget", "wait"}
    /\ gets = puts

WriterMay ==
    /\ Given("WRITE_SEM") /\ Withheld("READ_SEM")
    /\ wpc \in {"shmget", "failed", "wait", "clear", "test", "lastWait", "lastClear"}
    /\ wpc \in {"clear", "lastClear"} => UsesFlags
    /\ ReaderAway
    /\ wpc \in {"lastWait", "lastClear"} \/ (wpc = "test" /\ cnt = 0) =>
          rpc = "done" /\ ~UsesThreads
    /\ gets = puts

WriterHas ==
    /\ Withheld("WRITE_SEM") /\ Withheld("READ_SEM")
    /\ wpc \in {"fill", "count", "post", "rmSem", "rmShm", "done"}
    /\ ReaderAway
    /\ wpc \in {"rmSem", "rmShm", "done"} => rpc = "done" /\ ~UsesThreads
    /\ gets = puts

ReaderMay ==
    /\ Withheld("WRITE_SEM") /\ Given("READ_SEM")
    /\ WriterAway /\ (wpc = "wait" \/ UsesThreads => cnt # 0)
    /\ rpc \in {"start", "shmget", "wait", "clear"}
    /\ rpc = "clear" => UsesFlags
    /\ puts = gets + 1

ReaderHas ==
    /\ Withheld("WRITE_SEM") /\ Withheld("READ_SEM")
    /\ WriterAway /\ (wpc = "wait" \/ UsesThreads => cnt # 0)
    /\ rpc \in {"test", "copy", "post", "lastPost"}
    /\ puts = IF rpc = "test" THEN gets + 1 ELSE gets

\* The end of the threads: one or two turns posted, up to two of them taken.
Ending ==
    /\ UsesThreads /\ cnt = 0
    /\ wpc \in {"test", "lastPost", "join", "done"}
    /\ rpc \in {"wait", "test", "lastWait", "done"}
    /\ sem["WRITE_SEM"] = 0
    /\ sem["READ_SEM"] = (IF wpc \in {"join", "done"} THEN 2 ELSE 1)
                         - (IF rpc = "wait" THEN 0 ELSE IF rpc = "done" THEN 2 ELSE 1)
    /\ wpc = "done" => rpc = "done"
    /\ puts = IF rpc \in {"wait", "test"} THEN gets + 1 ELSE gets

TurnInv == SettingUp \/ WriterMay \/ WriterHas \/ ReaderMay \/ ReaderHas \/ Ending

\* The end of file is seen by both sides in the same block.
EofInv ==
    /\ rpc \in {"lastPost", "lastWait", "done"} =>
          /\ cnt = 0
          /\ wpc \in {"test", "lastWait", "lastClear", "lastPost", "join", "rmSem", "rmShm", "done"}
    /\ wpc \in {"lastWait", "lastClear", "lastPost", "join", "rmSem", "rmShm", "done"} => cnt = 0
    /\ rpc \in {"copy", "post"} => cnt # 0

\* The IPC objects and who uses them: the set exists between the writer's semget and semctl, no
\* reader of event flags gets to the segment before the flags are initialised.
ObjectInv ==
    /\ (wpc = "start" /\ UsesThreads) \/ (semExists <=> wpc \notin {"start", "rmShm", "done"})
    /\ wpc = "start" => rpc = "start"
    /\ UsesFlags /\ wpc \in {"start", "initW", "initR", "shmget"} =>
          ~shmExists /\ rpc \in {"start", "shmget"}
    /\ UsesThreads =>
          /\ wpc \notin {"initW", "initR", "shmget", "lastWait", "lastClear", "rmSem", "rmShm"}
          /\ rpc \notin {"shmget", "lastPost"}
          /\ rpc = "start" <=> wpc \in {"start", "failed"}
    /\ wpc \in {"lastPost", "join"} \/ rpc = "lastWait" => UsesThreads

\* The types the steps below need.
Types ==
    /\ variant \in Variants
    /\ sem \in [Sides -> IF UsesThreads THEN 0..2 ELSE {0, 1}]
    /\ cnt \in Nat /\ n \in Nat
    /\ puts \in Nat /\ gets \in Nat

IInv == Types /\ TurnInv /\ EofInv /\ ObjectInv

\* The invariant holds at the start of a run, when event-flag programs find
\* no old segment.
LEMMA InitIInv == ASSUME "48_1" \notin Leftover PROVE Init => IInv
<1> SUFFICES ASSUME "48_1" \notin Leftover, Init PROVE IInv
    OBVIOUS
<1> USE ShmAssumption DEF Init
<1>1. Types
    <2>1. cnt \in Nat
        <3>1. CASE shmExists
            BY <3>1
        <3>2. CASE ~shmExists
            BY <3>2
        <3>3. QED
            BY <3>1, <3>2
    <2>2. QED
        BY <2>1 DEF Types, Sides
<1>2. TurnInv
    BY DEF TurnInv, SettingUp, Sides
<1>3. EofInv
    BY DEF EofInv
<1>4. ObjectInv
    <2>1. UsesFlags => ~shmExists
        BY DEF UsesFlags
    <2>2. QED
        BY <2>1 DEF ObjectInv
<1>5. QED
    BY <1>1, <1>2, <1>3, <1>4 DEF IInv

\* No step of either process loses or duplicates the turn.
LEMMA NextIInv == IInv /\ [Next]_vars => IInv'
<1> SUFFICES ASSUME IInv, [Next]_vars PROVE IInv'
    OBVIOUS
<1> USE ShmAssumption DEF IInv, Types, TurnInv, EofInv, ObjectInv, SettingUp, WriterMay,
   WriterHas, ReaderMay, ReaderHas, ReaderAway, WriterAway, Given, Withheld, Ending, UsesFlags, UsesThreads,
   Sides, semVars, shmVars, wVars, rVars
<1>1. CASE WSemget
    BY <1>1 DEF WSemget
<1>2. CASE WInitW
    BY <1>2 DEF WInitW, initSemAvailable, setEventFlag, SetVal
<1>3. CASE WInitR
    BY <1>3 DEF WInitR, initSemInUse, clearEventFlag, SetVal
<1>4. CASE WShmget
    BY <1>4 DEF WShmget
<1>5. CASE WShmExists
    BY <1>5 DEF WShmExists
<1>6. CASE WWait
    BY <1>6 DEF WWait, waitForEventFlag, reserveSem, SetVal
<1>7. CASE WClear
    BY <1>7 DEF WClear, clearEventFlag, SetVal
<1>8. CASE WFill
    BY <1>8 DEF WFill, ReadSizes
<1>9. CASE WCount
    BY <1>9 DEF WCount
<1>10. CASE WPost
    BY <1>10 DEF WPost, Post, setEventFlag, releaseSem, SetVal
<1>11. CASE WTest
    BY <1>11 DEF WTest
<1>12. CASE WRmSem
    BY <1>12 DEF WRmSem
<1>13. CASE WRmShm
    BY <1>13 DEF WRmShm
<1>14. CASE RSemget
    BY <1>14 DEF RSemget
<1>15. CASE RShmget
    BY <1>15 DEF RShmget
<1>16. CASE RWait
    BY <1>16 DEF RWait, OnSet, waitForEventFlag, reserveSem, SetVal
<1>17. CASE RClear
    BY <1>17 DEF RClear, OnSet, clearEventFlag, SetVal
<1>18. CASE RTest
    BY <1>18 DEF RTest
<1>19. CASE RCopy
    BY <1>19 DEF RCopy
<1>20. CASE RPost
    BY <1>20 DEF RPost, OnSet, Post, setEventFlag, releaseSem, SetVal
<1>21. CASE WLastPost
    BY <1>21 DEF WLastPost, releaseSem, SetVal
<1>22. CASE RLastWait
    BY <1>22 DEF RLastWait, OnSet, reserveSem, SetVal
<1>23. CASE MainCreate
    BY <1>23 DEF MainCreate
<1>24. CASE MainFails
    BY <1>24 DEF MainFails
<1>25. CASE MainUnlink
    BY <1>25 DEF MainUnlink
<1>26. CASE UNCHANGED vars
    BY <1>26 DEF vars
<1>27. QED
    BY <1>1, <1>2, <1>3, <1>4, <1>5, <1>6, <1>7, <1>8, <1>9, <1>10, <1>11, <1>12, <1>13, <1>14,
       <1>15, <1>16, <1>17, <1>18, <1>19, <1>20, <1>21, <1>22, <1>23, <1>24, <1>25, <1>26
       DEF Next, Writer, Reader, Main

\* The turn is never at both sides, and the sides alternate.
THEOREM ExclusiveAccess ==
    ASSUME "48_1" \notin Leftover PROVE Spec => []ExclusiveAlternating
<1>1. Init => IInv
    BY InitIInv
<1>2. IInv => ExclusiveAlternating
    BY DEF IInv, Types, TurnInv, SettingUp, WriterMay, WriterHas, ReaderMay, ReaderHas,
           Ending, UsesThreads, ReaderAway, WriterAway, ExclusiveAlternating, WriterAccesses, ReaderAccesses
<1>3. QED
    BY <1>1, <1>2, NextIInv, PTL DEF Spec

\* When the writer deletes the objects the reader has finished: no semaphore
\* call of the reader meets a removed set.
THEOREM RemovedAfterUse ==
    ASSUME "48_1" \notin Leftover PROVE Spec => []RemovedWhenUnused
<1>1. Init => IInv
    BY InitIInv
<1>2. IInv => RemovedWhenUnused
    BY DEF IInv, Types, TurnInv, SettingUp, WriterMay, WriterHas, ReaderMay, ReaderHas,
           Ending, UsesThreads, ReaderAway, WriterAway, RemovedWhenUnused
<1>3. QED
    BY <1>1, <1>2, NextIInv, PTL DEF Spec

-----------------------------------------------------------------------------
(* The data.                                                               *)

Prefix(k) == [i \in 1..k |-> i]

\* The block in buf is the k bytes of the file that end at pos.
BlockAt(k) == /\ k \in 0..BufSize /\ k <= pos
              /\ \A i \in 1..k : buf[i] = pos - k + i
              /\ k = 0 => pos = FileLen

\* Everything the writer has read has been delivered.
Delivered == out = Prefix(pos) /\ rbytes = pos

\* All but the last k bytes the writer has read have been delivered.
DeliveredBut(k) == out = Prefix(pos - k) /\ rbytes = pos - k

WriterCounted == wbytes = IF wpc = "test" THEN pos - cnt ELSE pos

\* The block has been put and the reader has not counted it yet.
Unread == ReaderMay \/ rpc = "test"

DataTypes ==
    /\ pos \in 0..FileLen
    /\ buf \in [1..BufSize -> 0..FileLen]
    /\ cnt \in 0..BufSize

DataInv ==
    /\ DataTypes
    /\ wpc \in {"start", "initW", "initR", "shmget", "failed"} => pos = 0
    /\ wpc \in {"start", "initW", "initR", "shmget", "failed", "clear", "fill"} =>
          Delivered /\ wbytes = pos
    /\ wpc \in {"count", "post"} =>
          /\ BlockAt(n) /\ DeliveredBut(n)
          /\ wbytes = pos - n
          /\ wpc = "post" => cnt = n
    /\ wpc \in {"wait", "test"} =>
          /\ WriterCounted
          /\ wpc = "test" => cnt <= pos /\ (cnt = 0 => pos = FileLen)
    /\ wpc \in {"lastWait", "lastClear", "lastPost", "join", "rmSem", "rmShm", "done"} =>
          wbytes = FileLen /\ pos = FileLen
    /\ WriterAway /\ Unread => BlockAt(cnt) /\ DeliveredBut(cnt)
    /\ rpc = "copy" => BlockAt(cnt) /\ out = Prefix(pos - cnt) /\ rbytes = pos
    /\ WriterAway /\ ~Unread /\ rpc # "copy" => Delivered
    /\ wpc \in {"lastClear", "lastPost", "join", "rmSem", "rmShm", "done"} => Delivered

\* Appending a block of the file to a prefix of it gives a longer prefix.
LEMMA AppendBlock ==
    ASSUME NEW a \in Nat, NEW k \in Nat, NEW b \in [1..BufSize -> 0..FileLen],
           k <= BufSize, \A i \in 1..k : b[i] = a + i
    PROVE  Prefix(a) \o SubSeq(b, 1, k) = Prefix(a + k)
<1>1. b \in Seq(0..FileLen)
    BY ShmAssumption
<1>2. QED
    BY <1>1, ShmAssumption DEF Prefix

\* Writing out the block completes the prefix.
LEMMA CopyDelivers ==
    ASSUME IInv, DataInv, RCopy PROVE out' = Prefix(pos)
<1>1. /\ out' = Prefix(pos - cnt) \o SubSeq(buf, 1, cnt)
      /\ BlockAt(cnt) /\ DataTypes
    BY DEF RCopy, DataInv
<1>2. /\ pos - cnt \in Nat /\ cnt \in Nat /\ cnt <= BufSize
      /\ buf \in [1..BufSize -> 0..FileLen]
      /\ \A i \in 1..cnt : buf[i] = (pos - cnt) + i
    BY <1>1, ShmAssumption DEF BlockAt, DataTypes
<1>3. Prefix(pos - cnt) \o SubSeq(buf, 1, cnt) = Prefix((pos - cnt) + cnt)
    BY <1>2, AppendBlock
<1>4. (pos - cnt) + cnt = pos
    BY <1>1, ShmAssumption DEF BlockAt, DataTypes
<1>5. QED
    BY <1>1, <1>3, <1>4

\* Before the writer's first turn nothing has been read, put or delivered.
LEMMA InitData == Init => DataInv
BY ShmAssumption DEF Init, DataInv, DataTypes, Delivered, Prefix, Unread, ReaderMay, WriterAway

\* Every step keeps the account of which bytes are where.
LEMMA NextData == IInv /\ DataInv /\ [Next]_vars => DataInv'
<1> SUFFICES ASSUME IInv, DataInv, [Next]_vars PROVE DataInv'
    OBVIOUS
<1> USE ShmAssumption DEF IInv, Types, TurnInv, EofInv, ObjectInv, SettingUp, WriterMay,
   WriterHas, ReaderMay, ReaderHas, ReaderAway, WriterAway, Given, Withheld, Ending, UsesFlags, UsesThreads,
   Sides, semVars, shmVars, wVars, rVars, DataInv, DataTypes, BlockAt, Delivered, DeliveredBut,
   WriterCounted, Unread
<1>1. CASE WSemget
    BY <1>1 DEF WSemget
<1>2. CASE WInitW
    BY <1>2 DEF WInitW, initSemAvailable, setEventFlag, SetVal
<1>3. CASE WInitR
    BY <1>3 DEF WInitR, initSemInUse, clearEventFlag, SetVal
<1>4. CASE WShmget
    BY <1>4 DEF WShmget
<1>5. CASE WShmExists
    BY <1>5 DEF WShmExists
<1>6. CASE WWait
    BY <1>6 DEF WWait, waitForEventFlag, reserveSem, SetVal
<1>7. CASE WClear
    BY <1>7 DEF WClear, clearEventFlag, SetVal
<1>8. CASE WFill
    <2>1. PICK k \in (IF ReadSizes = {} THEN {0} ELSE ReadSizes) :
             /\ n' = k
             /\ buf' = [i \in 1..BufSize |-> IF i <= k THEN pos + i ELSE buf[i]]
             /\ pos' = pos + k
        BY <1>8 DEF WFill
    <2>2. /\ k \in 0..BufSize
          /\ pos + k <= FileLen
          /\ k = 0 => pos = FileLen
        <3>1. CASE ReadSizes = {}
            <4>1. 1 \notin ReadSizes
                BY <3>1
            <4>2. QED
                BY <3>1, <4>1, <2>1 DEF ReadSizes
        <3>2. CASE ReadSizes # {}
            BY <3>2, <2>1 DEF ReadSizes
        <3>3. QED
            BY <3>1, <3>2
    <2>3. DataTypes'
        BY <1>8, <2>1, <2>2 DEF WFill
    <2>4. BlockAt(n)'
        BY <2>1, <2>2
    <2>5. QED
        BY <1>8, <2>1, <2>2, <2>3, <2>4 DEF WFill
<1>9. CASE WCount
    BY <1>9 DEF WCount
<1>10. CASE WPost
    BY <1>10 DEF WPost, Post, setEventFlag, releaseSem, SetVal
<1>11. CASE WTest
    BY <1>11 DEF WTest
<1>12. CASE WRmSem
    BY <1>12 DEF WRmSem
<1>13. CASE WRmShm
    BY <1>13 DEF WRmShm
<1>14. CASE RSemget
    BY <1>14 DEF RSemget
<1>15. CASE RShmget
    BY <1>15 DEF RShmget
<1>16. CASE RWait
    BY <1>16 DEF RWait, OnSet, waitForEventFlag, reserveSem, SetVal
<1>17. CASE RClear
    BY <1>17 DEF RClear, OnSet, clearEventFlag, SetVal
<1>18. CASE RTest
    BY <1>18 DEF RTest
<1>19. CASE RCopy
    <2>1. out' = Prefix(pos)
        BY <1>19, CopyDelivers
    <2>2. QED
        BY <1>19, <2>1 DEF RCopy
<1>20. CASE RPost
    BY <1>20 DEF RPost, OnSet, Post, setEventFlag, releaseSem, SetVal
<1>21. CASE WLastPost
    BY <1>21 DEF WLastPost, releaseSem, SetVal
<1>22. CASE RLastWait
    BY <1>22 DEF RLastWait, OnSet, reserveSem, SetVal
<1>23. CASE MainCreate
    BY <1>23 DEF MainCreate
<1>24. CASE MainFails
    BY <1>24 DEF MainFails
<1>25. CASE MainUnlink
    BY <1>25 DEF MainUnlink
<1>26. CASE UNCHANGED vars
    BY <1>26 DEF vars
<1>27. QED
    BY <1>1, <1>2, <1>3, <1>4, <1>5, <1>6, <1>7, <1>8, <1>9, <1>10, <1>11, <1>12, <1>13, <1>14,
       <1>15, <1>16, <1>17, <1>18, <1>19, <1>20, <1>21, <1>22, <1>23, <1>24, <1>25, <1>26
       DEF Next, Writer, Reader, Main

\* Nothing is lost, repeated or torn, and both sides count every byte.
THEOREM Accounting ==
    ASSUME "48_1" \notin Leftover PROVE Spec => []AllAccountedFor
<1>1. Init => IInv /\ DataInv
    BY InitIInv, InitData
<1>2. IInv /\ DataInv => AllAccountedFor
    BY DEF DataInv, IInv, TurnInv, SettingUp, WriterMay, WriterHas, ReaderMay, ReaderHas,
           Ending, UsesThreads, WriterAway, Delivered, Prefix, AllAccountedFor
<1>3. QED
    BY <1>1, <1>2, NextIInv, NextData, PTL DEF Spec

\* The values the channel's variables have, named for the steps below.
Written == IF wpc \in {"count", "post"} THEN pos - n ELSE pos
Closed == \/ wpc \in {"lastWait", "lastClear", "lastPost", "join", "rmSem", "rmShm", "done"}
          \/ wpc = "test" /\ cnt = 0
Ended == rpc \in {"lastPost", "lastWait", "done"}

\* Every step of the two processes is a step of the channel or leaves it alone.
LEMMA StepRefinesChannel ==
    IInv /\ DataInv /\ [Next]_vars => [Channel!Next]_(Channel!vars)
<1> SUFFICES ASSUME IInv, DataInv, [Next]_vars
             PROVE  Channel!Next \/ UNCHANGED <<Written, out, Closed, Ended>>
    BY DEF Channel!vars, Written, Closed, Ended
<1> USE ShmAssumption DEF IInv, Types, TurnInv, EofInv, ObjectInv, SettingUp, WriterMay,
        WriterHas, ReaderMay, ReaderHas, ReaderAway, WriterAway, Given, Withheld, Ending, UsesFlags,
        UsesThreads, Sides, semVars, shmVars, wVars, rVars, DataInv, DataTypes, BlockAt, Delivered,
        DeliveredBut, WriterCounted, Unread, Written, Closed, Ended
<1>a. ASSUME NEW k \in Nat PROVE Len(Prefix(k)) = k
    BY DEF Prefix
<1>1. CASE WSemget
    BY <1>1 DEF WSemget
<1>2. CASE WInitW
    BY <1>2 DEF WInitW
<1>3. CASE WInitR
    BY <1>3 DEF WInitR
<1>4. CASE WShmget
    BY <1>4 DEF WShmget
<1>5. CASE WShmExists
    BY <1>5 DEF WShmExists
<1>6. CASE WWait
    BY <1>6 DEF WWait
<1>7. CASE WClear
    BY <1>7 DEF WClear
<1>8. CASE WFill
    BY <1>8 DEF WFill, ReadSizes
<1>9. CASE WCount
    BY <1>9 DEF WCount
<1>10. CASE WPost
    <2>1. Len(out) = pos - n
        <3>1. out = Prefix(pos - n) /\ pos - n \in Nat
            BY <1>10 DEF WPost
        <3>2. QED
            BY <3>1, <1>a
    <2>2. CASE n = 0
        <3>1. Channel!Close
            BY <1>10, <2>1, <2>2 DEF WPost, Channel!Close
        <3>2. QED
            BY <3>1 DEF Channel!Next
    <2>3. CASE n # 0
        <3>1. Channel!Put
            BY <1>10, <2>1, <2>3 DEF WPost, Channel!Put
        <3>2. QED
            BY <3>1 DEF Channel!Next
    <2>4. QED
        BY <2>2, <2>3
<1>11. CASE WTest
    BY <1>11 DEF WTest
<1>12. CASE WRmSem
    BY <1>12 DEF WRmSem
<1>13. CASE WRmShm
    BY <1>13 DEF WRmShm
<1>14. CASE RSemget
    BY <1>14 DEF RSemget
<1>15. CASE RShmget
    BY <1>15 DEF RShmget
<1>16. CASE RWait
    BY <1>16 DEF RWait, OnSet, reserveSem, waitForEventFlag, SetVal
<1>17. CASE RClear
    BY <1>17 DEF RClear, OnSet
<1>18. CASE RTest
    <2>1. CASE cnt = 0
        <3>1. Channel!End
            BY <1>18, <2>1 DEF RTest, Channel!End
        <3>2. QED
            BY <3>1 DEF Channel!Next
    <2>2. CASE cnt # 0
        BY <1>18, <2>2 DEF RTest
    <2>3. QED
        BY <2>1, <2>2
<1>19. CASE RCopy
    <2>1. Len(out) = pos - cnt
        <3>1. out = Prefix(pos - cnt) /\ pos - cnt \in Nat
            BY <1>19 DEF RCopy
        <3>2. QED
            BY <3>1, <1>a
    <2>2. out' = Prefix(pos)
        BY <1>19, CopyDelivers
    <2>3. cnt < pos + 1 /\ pos - cnt < pos /\ wpc \in {"test", "wait", "lastWait"}
        BY <1>19 DEF RCopy
    <2>4. UNCHANGED <<wpc, cnt, pos, n>> /\ rpc = "copy" /\ rpc' = "post"
        BY <1>19 DEF RCopy
    <2> HIDE DEF IInv, DataInv
    <2>5. Channel!Deliver
        BY <2>1, <2>2, <2>3, <2>4 DEF Prefix, Channel!Deliver, Channel!Prefix
    <2>6. QED
        BY <2>5 DEF Channel!Next
<1>20. CASE RPost
    BY <1>20 DEF RPost, OnSet
<1>21. CASE WLastPost
    BY <1>21 DEF WLastPost, releaseSem, SetVal
<1>22. CASE RLastWait
    BY <1>22 DEF RLastWait, OnSet, reserveSem, SetVal
<1>23. CASE MainCreate
    BY <1>23 DEF MainCreate
<1>24. CASE MainFails
    BY <1>24 DEF MainFails
<1>25. CASE MainUnlink
    BY <1>25 DEF MainUnlink
<1>26. CASE UNCHANGED vars
    BY <1>26 DEF vars
<1>27. QED
    BY <1>1, <1>2, <1>3, <1>4, <1>5, <1>6, <1>7, <1>8, <1>9, <1>10, <1>11, <1>12, <1>13, <1>14,
       <1>15, <1>16, <1>17, <1>18, <1>19, <1>20, <1>21, <1>22, <1>23, <1>24, <1>25, <1>26
       DEF Next, Writer, Reader, Main

\* The programs implement the one-block channel.
THEOREM Refinement ==
    ASSUME "48_1" \notin Leftover PROVE Spec => ImplementsChannel
<1>1. Init => IInv /\ DataInv
    BY InitIInv, InitData
<1>2. Init => Channel!Init
    BY DEF Init, Channel!Init
<1>3. QED
    BY <1>1, <1>2, NextIInv, NextData, StepRefinesChannel, PTL
       DEF Spec, ImplementsChannel, Channel!Spec

\* Every variable keeps its type; that a semaphore stays within 0 and 1, or 2
\* for the threads, is the part that rests on the turn being in one place.
THEOREM TypeCorrect ==
    ASSUME "48_1" \notin Leftover PROVE Spec => []TypeOK
<1> DEFINE Inv == IInv /\ DataInv /\ TypeOK
<1>1. Init => Inv
    <2>1. Init => TypeOK
        <3> SUFFICES ASSUME Init PROVE TypeOK
            OBVIOUS
        <3>1. IInv /\ DataInv
            BY InitIInv, InitData
        <3>2. semExists \in BOOLEAN /\ shmExists \in BOOLEAN
            <4>1. CASE variant \in Leftover
                BY <4>1 DEF Init
            <4>2. CASE variant \notin Leftover
                BY <4>2 DEF Init
            <4>3. QED
                BY <4>1, <4>2
        <3>3. QED
            BY <3>1, <3>2, ShmAssumption
               DEF IInv, Types, DataInv, DataTypes, Init, TypeOK, WriterPoints, ReaderPoints
    <2>2. QED
        BY <2>1, InitIInv, InitData
<1>2. Inv /\ [Next]_vars => TypeOK'
    <2> SUFFICES ASSUME Inv, [Next]_vars PROVE TypeOK'
        OBVIOUS
    <2>0. IInv' /\ DataInv'
        BY NextIInv, NextData
    <2>1. /\ Types' /\ DataTypes'
        BY <2>0 DEF IInv, DataInv
    <2> USE ShmAssumption DEF TypeOK, UsesThreads, WriterPoints, ReaderPoints, semVars, shmVars,
            wVars, rVars
    <2>2. CASE Writer
        <3>1. n' \in 0..BufSize
            <4>1. CASE WFill
                BY <4>1 DEF WFill, ReadSizes
            <4>2. CASE ~WFill
                BY <2>2, <4>2 DEF Writer, WSemget, WInitW, WInitR, WShmget, WShmExists, WWait,
                        WClear, WCount, WPost, WTest, WRmSem, WRmShm, WLastPost
            <4>3. QED
                BY <4>1, <4>2
        <3>2. UNCHANGED <<rpc, rbytes, out, gets, variant>>
            BY <2>2 DEF Writer, WSemget, WInitW, WInitR, WShmget, WShmExists, WWait, WClear,
                        WFill, WCount, WPost, WTest, WRmSem, WRmShm, WLastPost
        <3>3. wpc' \in WriterPoints /\ wbytes' \in Nat /\ puts' \in Nat
            BY <2>2 DEF Writer, WSemget, WInitW, WInitR, WShmget, WShmExists, WWait, WClear,
                        WFill, WCount, WPost, WTest, WRmSem, WRmShm, WLastPost
        <3>4. semExists' \in BOOLEAN /\ shmExists' \in BOOLEAN
            BY <2>2 DEF Writer, WSemget, WInitW, WInitR, WShmget, WShmExists, WWait, WClear,
                        WFill, WCount, WPost, WTest, WRmSem, WRmShm, WLastPost
        <3>5. QED
            BY <2>1, <3>1, <3>2, <3>3, <3>4 DEF Types, DataTypes
    <2>3. CASE Reader
        <3>1. UNCHANGED <<variant, semExists, shmExists, wpc, pos, n, wbytes, puts>>
            BY <2>3 DEF Reader, RSemget, RShmget, RWait, RClear, RTest, RCopy, RPost, RLastWait
        <3>2. rpc' \in ReaderPoints /\ rbytes' \in Nat /\ gets' \in Nat
            BY <2>3 DEF Reader, RSemget, RShmget, RWait, RClear, RTest, RCopy, RPost, RLastWait, OnSet
        <3>3. out' \in Seq(0..FileLen)
            <4>1. CASE RCopy
                BY <4>1, CopyDelivers, <2>1 DEF Prefix, DataTypes, RCopy
            <4>2. CASE ~RCopy
                BY <2>3, <4>2 DEF Reader, RSemget, RShmget, RWait, RClear, RTest, RPost, RLastWait
            <4>3. QED
                BY <4>1, <4>2
        <3>4. QED
            BY <2>1, <3>1, <3>2, <3>3 DEF Types, DataTypes
    <2>4. CASE Main
        BY <2>1, <2>4 DEF Main, MainCreate, MainFails, MainUnlink, Types, DataTypes
    <2>5. CASE UNCHANGED vars
        BY <2>5 DEF vars
    <2>6. QED
        BY <2>2, <2>3, <2>4, <2>5 DEF Next
<1>3. QED
    BY <1>1, <1>2, NextIInv, NextData, PTL DEF Spec
=============================================================================
