-------------------------- MODULE FifoSeqnum_proofs --------------------------
(***************************************************************************)
(* Proofs about FifoSeqnum, for any number of clients and bad clients, any *)
(* bound on lengths, starts and polls, and whatever points the server dies *)
(* at.                                                                     *)
(***************************************************************************)
EXTENDS FifoSeqnum, FiniteSetTheorems, TLAPS

\* Every variable has its type at the start.
LEMMA InitType == Init => TypeOK
<1> SUFFICES ASSUME Init PROVE TypeOK
    OBVIOUS
<1> USE FifoAssumption DEF Init, Request
<1>1. SaveTypes
    BY DEF SaveTypes
<1>2. ServerTypes
    BY DEF ServerTypes, ServerPoints
<1>3. ClientTypes
    BY DEF ClientTypes, ClientPoints
<1>4. FifoTypes
    <2>1. reqs \in Seq(Request) /\ resp \in [Pid -> Seq(Nat)]
        OBVIOUS
    <2>2. svPath \in BOOLEAN /\ clPath \in [Pid -> BOOLEAN] /\ wopen \in [Pid -> BOOLEAN]
        OBVIOUS
    <2>3. QED
        BY <2>1, <2>2 DEF FifoTypes
<1>5. IssuedTypes
    BY DEF IssuedTypes
<1>6. QED
    BY <1>1, <1>2, <1>3, <1>4, <1>5 DEF TypeOK

\* What a client's exit leaves of the pipes has the right type.
LEMMA CloseAllTypes ==
    ASSUME TypeOK, NEW c \in Pid, CloseAll(c)
    PROVE  /\ sfd' \in [Pid -> {"none", "live", "stale"}]
           /\ reqs' \in Seq(Request)
           /\ resp' \in [Pid -> Seq(Nat)]
<1>1. sfd' \in [Pid -> {"none", "live", "stale"}]
    BY DEF CloseAll, TypeOK, ClientTypes
<1>2. reqs' \in Seq(Request)
    BY DEF CloseAll, TypeOK, FifoTypes
<1>3. resp' \in [Pid -> Seq(Nat)]
    BY DEF CloseAll, TypeOK, FifoTypes
<1>4. QED
    BY <1>1, <1>2, <1>3

\* Every step keeps the types.
LEMMA NextType == TypeOK /\ [Next]_vars => TypeOK'
<1> SUFFICES ASSUME TypeOK, [Next]_vars PROVE TypeOK'
    OBVIOUS
<1> USE FifoAssumption DEF serverVars, saveVars, fifoVars, clientVars, cfifoVars
<1>1. CASE SvCreateSave
    <2>1. ServerTypes'
        BY <1>1 DEF SvCreateSave, TypeOK, ServerTypes, Request, ServerPoints
    <2>2. SaveTypes'
        BY <1>1 DEF SvCreateSave, TypeOK, SaveTypes
    <2>3. UNCHANGED <<clientVars, fifoVars, cfifoVars, issued>>
        BY <1>1 DEF SvCreateSave
    <2>4. QED
        BY <2>1, <2>2, <2>3 DEF TypeOK, ClientTypes, FifoTypes, IssuedTypes
<1>2. CASE SvLoadSave
    <2>1. ServerTypes'
        BY <1>2 DEF SvLoadSave, TypeOK, ServerTypes, Request, ServerPoints, SaveTypes
    <2>2. UNCHANGED <<saveVars, clientVars, fifoVars, cfifoVars, issued>>
        BY <1>2 DEF SvLoadSave
    <2>3. QED
        BY <2>1, <2>2 DEF TypeOK, SaveTypes, ClientTypes, FifoTypes, IssuedTypes
<1>3. CASE SvStartFails
    <2>1. ServerTypes'
        BY <1>3 DEF SvStartFails, TypeOK, ServerTypes, Request, ServerPoints
    <2>2. UNCHANGED <<saveVars, clientVars, fifoVars, cfifoVars, issued>>
        BY <1>3 DEF SvStartFails
    <2>3. QED
        BY <2>1, <2>2 DEF TypeOK, SaveTypes, ClientTypes, FifoTypes, IssuedTypes
<1>4. CASE SvInitSave
    <2>1. ServerTypes'
        BY <1>4 DEF SvInitSave, TypeOK, ServerTypes, Request, ServerPoints
    <2>2. SaveTypes'
        BY <1>4 DEF SvInitSave, TypeOK, SaveTypes, WriteSave, ServerTypes
    <2>3. UNCHANGED <<clientVars, fifoVars, cfifoVars, issued>>
        BY <1>4 DEF SvInitSave
    <2>4. QED
        BY <2>1, <2>2, <2>3 DEF TypeOK, ClientTypes, FifoTypes, IssuedTypes
<1>5. CASE SvMkfifo
    <2>1. ServerTypes'
        BY <1>5 DEF SvMkfifo, TypeOK, ServerTypes, Request, ServerPoints
    <2>2. FifoTypes'
        BY <1>5 DEF SvMkfifo, TypeOK, FifoTypes, Request
    <2>3. UNCHANGED <<saveVars, clientVars, issued>>
        BY <1>5 DEF SvMkfifo
    <2>4. QED
        BY <2>1, <2>2, <2>3 DEF TypeOK, SaveTypes, ClientTypes, IssuedTypes
<1>6. CASE SvOpen
    <2>1. ServerTypes'
        BY <1>6 DEF SvOpen, TypeOK, ServerTypes, Request, ServerPoints
    <2>2. UNCHANGED <<saveVars, clientVars, fifoVars, cfifoVars, issued>>
        BY <1>6 DEF SvOpen
    <2>3. QED
        BY <2>1, <2>2 DEF TypeOK, SaveTypes, ClientTypes, FifoTypes, IssuedTypes
<1>7. CASE SvOpened
    <2>1. ServerTypes'
        BY <1>7 DEF SvOpened, TypeOK, ServerTypes, Request, ServerPoints
    <2>2. UNCHANGED <<saveVars, clientVars, fifoVars, cfifoVars, issued>>
        BY <1>7 DEF SvOpened
    <2>3. QED
        BY <2>1, <2>2 DEF TypeOK, SaveTypes, ClientTypes, FifoTypes, IssuedTypes
<1>8. CASE SvRead
    <2>1. ServerTypes'
        <3>1. reqs \in Seq(Request) /\ reqs # <<>>
            BY <1>8 DEF SvRead, TypeOK, FifoTypes
        <3>2. req' \in Request
            BY <1>8, <3>1 DEF SvRead
        <3>3. QED
            BY <1>8, <3>2 DEF SvRead, TypeOK, ServerTypes, ServerPoints
    <2>2. FifoTypes'
        BY <1>8 DEF SvRead, TypeOK, FifoTypes, Request
    <2>3. UNCHANGED <<saveVars, clientVars, issued>>
        BY <1>8 DEF SvRead
    <2>4. QED
        BY <2>1, <2>2, <2>3 DEF TypeOK, SaveTypes, ClientTypes, IssuedTypes
<1>9. CASE SvPollRetry
    <2>1. ServerTypes'
        BY <1>9 DEF SvPollRetry, TypeOK, ServerTypes, Request, ServerPoints
    <2>2. UNCHANGED <<saveVars, clientVars, fifoVars, cfifoVars, issued>>
        BY <1>9 DEF SvPollRetry
    <2>3. QED
        BY <2>1, <2>2 DEF TypeOK, SaveTypes, ClientTypes, FifoTypes, IssuedTypes
<1>10. CASE SvGiveUp
    <2>1. ServerTypes'
        BY <1>10 DEF SvGiveUp, TypeOK, ServerTypes, Request, ServerPoints
    <2>2. UNCHANGED <<saveVars, clientVars, fifoVars, cfifoVars, issued>>
        BY <1>10 DEF SvGiveUp
    <2>3. QED
        BY <2>1, <2>2 DEF TypeOK, SaveTypes, ClientTypes, FifoTypes, IssuedTypes
<1>11. CASE SvOpenClient
    <2>1. ServerTypes'
        BY <1>11 DEF SvOpenClient, TypeOK, ServerTypes, Request, ServerPoints
    <2>2. FifoTypes'
        BY <1>11 DEF SvOpenClient, TypeOK, FifoTypes, Request
    <2>3. UNCHANGED <<saveVars, clientVars, issued>>
        BY <1>11 DEF SvOpenClient
    <2>4. QED
        BY <2>1, <2>2, <2>3 DEF TypeOK, SaveTypes, ClientTypes, IssuedTypes
<1>12. CASE SvBlock
    <2>1. ServerTypes'
        BY <1>12 DEF SvBlock, TypeOK, ServerTypes, Request, ServerPoints
    <2>2. UNCHANGED <<saveVars, clientVars, fifoVars, cfifoVars, issued>>
        BY <1>12 DEF SvBlock
    <2>3. QED
        BY <2>1, <2>2 DEF TypeOK, SaveTypes, ClientTypes, FifoTypes, IssuedTypes
<1>13. CASE SvUnblock
    <2>1. ServerTypes'
        BY <1>13 DEF SvUnblock, TypeOK, ServerTypes, Request, ServerPoints
    <2>2. UNCHANGED <<saveVars, clientVars, fifoVars, cfifoVars, issued>>
        BY <1>13 DEF SvUnblock
    <2>3. QED
        BY <2>1, <2>2 DEF TypeOK, SaveTypes, ClientTypes, FifoTypes, IssuedTypes
<1>14. CASE SvReply
    <2>1. ServerTypes'
        BY <1>14 DEF SvReply, TypeOK, ServerTypes, Request, ServerPoints
    <2>2. req.pid \in Pid /\ req.len \in 1..MaxLen /\ seqNum \in Nat /\ era \in 0..MaxStarts
        BY DEF TypeOK, ServerTypes, Request
    <2>3. FifoTypes'
        <3>1. resp' \in [Pid -> Seq(Nat)]
            <4>1. resp[req.pid] \in Seq(Nat)
                BY <2>2 DEF TypeOK, FifoTypes
            <4>2. Append(resp[req.pid], seqNum) \in Seq(Nat)
                BY <2>2, <4>1
            <4>3. QED
                BY <1>14, <2>2, <4>2 DEF SvReply, TypeOK, FifoTypes
        <3>2. UNCHANGED <<svPath, reqs, clPath, wopen>>
            BY <1>14 DEF SvReply, fifoVars
        <3>3. QED
            BY <3>1, <3>2 DEF TypeOK, FifoTypes
    <2>6. IssuedTypes'
        BY <1>14, <2>2 DEF SvReply, TypeOK, IssuedTypes
    <2>4. UNCHANGED <<saveVars, clientVars>>
        BY <1>14 DEF SvReply
    <2>5. QED
        BY <2>1, <2>3, <2>4, <2>6 DEF TypeOK, SaveTypes, ClientTypes
<1>15. CASE SvSave
    <2>1. ServerTypes'
        BY <1>15 DEF SvSave, TypeOK, ServerTypes, Request, ServerPoints
    <2>2. SaveTypes'
        BY <1>15 DEF SvSave, TypeOK, SaveTypes, WriteSave, ServerTypes, Request
    <2>3. UNCHANGED <<clientVars, fifoVars, cfifoVars, issued>>
        BY <1>15 DEF SvSave
    <2>4. QED
        BY <2>1, <2>2, <2>3 DEF TypeOK, ClientTypes, FifoTypes, IssuedTypes
<1>16. CASE SvHandler
    <2>1. ServerTypes'
        BY <1>16 DEF SvHandler, TypeOK, ServerTypes, Request, ServerPoints
    <2>2. ClientTypes'
        BY <1>16 DEF SvHandler, TypeOK, ClientTypes, ClientPoints
    <2>3. FifoTypes'
        <3>1. reqs' \in Seq(Request) /\ svPath' \in BOOLEAN
            <4>1. reqs' = <<>>
                BY <1>16 DEF SvHandler
            <4>2. <<>> \in Seq(Request)
                OBVIOUS
            <4>3. svPath' \in BOOLEAN
                BY <1>16 DEF SvHandler
            <4>4. QED
                BY <4>1, <4>2, <4>3
        <3>2. UNCHANGED <<clPath, wopen, resp>>
            BY <1>16 DEF SvHandler, cfifoVars
        <3>3. QED
            BY <3>1, <3>2 DEF TypeOK, FifoTypes
    <2>4. UNCHANGED <<saveVars, issued>>
        BY <1>16 DEF SvHandler
    <2>5. QED
        BY <2>1, <2>2, <2>3, <2>4 DEF TypeOK, SaveTypes, IssuedTypes
<1>17. CASE SvKilled
    <2>1. ServerTypes'
        BY <1>17 DEF SvKilled, TypeOK, ServerTypes, Request, ServerPoints
    <2>2. FifoTypes'
        BY <1>17 DEF SvKilled, TypeOK, FifoTypes, Request
    <2>3. UNCHANGED <<saveVars, clientVars, issued>>
        BY <1>17 DEF SvKilled
    <2>4. QED
        BY <2>1, <2>2, <2>3 DEF TypeOK, SaveTypes, ClientTypes, IssuedTypes
<1>18. ASSUME NEW c \in Pid, ClStart(c) PROVE TypeOK'
    <2>1. ClientTypes'
        BY <1>18 DEF ClStart, TypeOK, ClientTypes, ClientPoints
    <2>2. FifoTypes'
        BY <1>18 DEF ClStart, TypeOK, FifoTypes, Request
    <2>3. UNCHANGED <<variant, serverVars, saveVars, issued>>
        BY <1>18 DEF ClStart
    <2>4. QED
        BY <2>1, <2>2, <2>3 DEF TypeOK, ServerTypes, SaveTypes, IssuedTypes
<1>19. ASSUME NEW c \in Pid, ClOpenSv(c) PROVE TypeOK'
    <2>1. ClientTypes'
        BY <1>19 DEF ClOpenSv, TypeOK, ClientTypes, ClientPoints
    <2>2. UNCHANGED <<variant, serverVars, saveVars, fifoVars, cfifoVars, issued>>
        BY <1>19 DEF ClOpenSv
    <2>3. QED
        BY <2>1, <2>2 DEF TypeOK, ServerTypes, SaveTypes, FifoTypes, IssuedTypes
<1>20. ASSUME NEW c \in Pid, ClNoServer(c) PROVE TypeOK'
    <2>1. CloseAll(c)
        BY <1>20 DEF ClNoServer, Exit
    <2>2. /\ sfd' \in [Pid -> {"none", "live", "stale"}]
          /\ reqs' \in Seq(Request) /\ resp' \in [Pid -> Seq(Nat)]
        BY <2>1, CloseAllTypes DEF TypeOK
    <2>3. ClientTypes'
        BY <2>2, <1>20 DEF ClNoServer, Exit, TypeOK, ClientTypes, ClientPoints
    <2>4. FifoTypes'
        BY <2>2, <1>20 DEF ClNoServer, Exit, TypeOK, FifoTypes, Request
    <2>5. UNCHANGED <<variant, serverVars, saveVars, issued>>
        BY <1>20 DEF ClNoServer, Exit
    <2>6. QED
        BY <2>3, <2>4, <2>5 DEF TypeOK, ServerTypes, SaveTypes, IssuedTypes
<1>21. ASSUME NEW c \in Pid, ClOpened(c) PROVE TypeOK'
    <2>1. ClientTypes'
        BY <1>21 DEF ClOpened, TypeOK, ClientTypes, ClientPoints
    <2>2. UNCHANGED <<variant, serverVars, saveVars, fifoVars, cfifoVars, issued>>
        BY <1>21 DEF ClOpened
    <2>3. QED
        BY <2>1, <2>2 DEF TypeOK, ServerTypes, SaveTypes, FifoTypes, IssuedTypes
<1>22. ASSUME NEW c \in Pid, ClWrite(c) PROVE TypeOK'
    <2>1. ClientTypes'
        BY <1>22 DEF ClWrite, TypeOK, ClientTypes, ClientPoints
    <2>2. FifoTypes'
        BY <1>22 DEF ClWrite, TypeOK, FifoTypes, Request, ClientTypes
    <2>3. UNCHANGED <<variant, serverVars, saveVars, issued>>
        BY <1>22 DEF ClWrite
    <2>4. QED
        BY <2>1, <2>2, <2>3 DEF TypeOK, ServerTypes, SaveTypes, IssuedTypes
<1>23. ASSUME NEW c \in Pid, ClSigpipe(c) PROVE TypeOK'
    <2>1. CloseAll(c)
        BY <1>23 DEF ClSigpipe
    <2>2. /\ sfd' \in [Pid -> {"none", "live", "stale"}]
          /\ reqs' \in Seq(Request) /\ resp' \in [Pid -> Seq(Nat)]
        BY <2>1, CloseAllTypes DEF TypeOK
    <2>3. ClientTypes'
        BY <2>2, <1>23 DEF ClSigpipe, TypeOK, ClientTypes, ClientPoints
    <2>4. FifoTypes'
        BY <2>2, <1>23 DEF ClSigpipe, TypeOK, FifoTypes, Request
    <2>5. UNCHANGED <<variant, serverVars, saveVars, issued>>
        BY <1>23 DEF ClSigpipe
    <2>6. QED
        BY <2>3, <2>4, <2>5 DEF TypeOK, ServerTypes, SaveTypes, IssuedTypes
<1>24. ASSUME NEW c \in Pid, ClOpenOwn(c) PROVE TypeOK'
    <2>1. ClientTypes'
        BY <1>24 DEF ClOpenOwn, TypeOK, ClientTypes, ClientPoints
    <2>2. FifoTypes'
        BY <1>24 DEF ClOpenOwn, TypeOK, FifoTypes, Request
    <2>3. UNCHANGED <<variant, serverVars, saveVars, issued>>
        BY <1>24 DEF ClOpenOwn
    <2>4. QED
        BY <2>1, <2>2, <2>3 DEF TypeOK, ServerTypes, SaveTypes, IssuedTypes
<1>25. ASSUME NEW c \in Pid, ClGot(c) PROVE TypeOK'
    <2>1. CloseAll(c)
        BY <1>25 DEF ClGot, Exit
    <2>2. /\ sfd' \in [Pid -> {"none", "live", "stale"}]
          /\ reqs' \in Seq(Request) /\ resp' \in [Pid -> Seq(Nat)]
        BY <2>1, CloseAllTypes DEF TypeOK
    <2>3. ClientTypes'
        BY <2>2, <1>25 DEF ClGot, Exit, TypeOK, ClientTypes, ClientPoints, FifoTypes
    <2>4. FifoTypes'
        BY <2>2, <1>25 DEF ClGot, Exit, TypeOK, FifoTypes, Request
    <2>5. UNCHANGED <<variant, serverVars, saveVars, issued>>
        BY <1>25 DEF ClGot, Exit
    <2>6. QED
        BY <2>3, <2>4, <2>5 DEF TypeOK, ServerTypes, SaveTypes, IssuedTypes
<1>26. ASSUME NEW c \in Pid, ClEof(c) PROVE TypeOK'
    <2>1. CloseAll(c)
        BY <1>26 DEF ClEof, Exit
    <2>2. /\ sfd' \in [Pid -> {"none", "live", "stale"}]
          /\ reqs' \in Seq(Request) /\ resp' \in [Pid -> Seq(Nat)]
        BY <2>1, CloseAllTypes DEF TypeOK
    <2>3. ClientTypes'
        BY <2>2, <1>26 DEF ClEof, Exit, TypeOK, ClientTypes, ClientPoints
    <2>4. FifoTypes'
        BY <2>2, <1>26 DEF ClEof, Exit, TypeOK, FifoTypes, Request
    <2>5. UNCHANGED <<variant, serverVars, saveVars, issued>>
        BY <1>26 DEF ClEof, Exit
    <2>6. QED
        BY <2>3, <2>4, <2>5 DEF TypeOK, ServerTypes, SaveTypes, IssuedTypes
<1>27. ASSUME NEW c \in Pid, ClBadExit(c) PROVE TypeOK'
    <2>1. CloseAll(c)
        BY <1>27 DEF ClBadExit, Exit
    <2>2. /\ sfd' \in [Pid -> {"none", "live", "stale"}]
          /\ reqs' \in Seq(Request) /\ resp' \in [Pid -> Seq(Nat)]
        BY <2>1, CloseAllTypes DEF TypeOK
    <2>3. ClientTypes'
        BY <2>2, <1>27 DEF ClBadExit, Exit, TypeOK, ClientTypes, ClientPoints
    <2>4. FifoTypes'
        BY <2>2, <1>27 DEF ClBadExit, Exit, TypeOK, FifoTypes, Request
    <2>5. UNCHANGED <<variant, serverVars, saveVars, issued>>
        BY <1>27 DEF ClBadExit, Exit
    <2>6. QED
        BY <2>3, <2>4, <2>5 DEF TypeOK, ServerTypes, SaveTypes, IssuedTypes
<1>28. ASSUME NEW c \in Pid, ClKilled(c) PROVE TypeOK'
    <2>1. CloseAll(c)
        BY <1>28 DEF ClKilled
    <2>2. /\ sfd' \in [Pid -> {"none", "live", "stale"}]
          /\ reqs' \in Seq(Request) /\ resp' \in [Pid -> Seq(Nat)]
        BY <2>1, CloseAllTypes DEF TypeOK
    <2>3. ClientTypes'
        BY <2>2, <1>28 DEF ClKilled, TypeOK, ClientTypes, ClientPoints
    <2>4. FifoTypes'
        BY <2>2, <1>28 DEF ClKilled, TypeOK, FifoTypes, Request
    <2>5. UNCHANGED <<variant, serverVars, saveVars, issued>>
        BY <1>28 DEF ClKilled
    <2>6. QED
        BY <2>3, <2>4, <2>5 DEF TypeOK, ServerTypes, SaveTypes, IssuedTypes
<1>29. CASE UNCHANGED vars
    BY <1>29 DEF vars, TypeOK, ServerTypes, SaveTypes, ClientTypes, FifoTypes, IssuedTypes
<1>30. QED
    BY <1>1, <1>2, <1>3, <1>4, <1>5, <1>6, <1>7, <1>8, <1>9, <1>10, <1>11, <1>12, <1>13, <1>14,
       <1>15, <1>16, <1>17, <1>18, <1>19, <1>20, <1>21, <1>22, <1>23, <1>24, <1>25, <1>26,
       <1>27, <1>28, <1>29
       DEF Next, SvStart, SvStep, ClStep

\* Types hold throughout.
THEOREM TypeCorrect == Spec => []TypeOK
BY InitType, NextType, PTL DEF Spec

-----------------------------------------------------------------------------
(* Uniqueness.  The numbers issued in this era all lie below the next one  *)
(* to hand out, which between the answer and the save (spc = "save") is    *)
(* already one range further than seqNum says.                             *)

NextNumber == IF spc = "save" THEN seqNum + req.len ELSE seqNum

IssuedBelow ==
    /\ \A g \in issued : g.era <= era
    /\ spc # "down" => \A g \in issued : g.era = era => g.from + g.len <= NextNumber

UniqueInv == TypeOK /\ IssuedBelow /\ UniqueInEra

\* A step that only stays between two answers cannot disturb the invariant
\* (<1>4); starts, answers and saves each keep it.
LEMMA NextUnique == UniqueInv /\ [Next]_vars => UniqueInv'
<1> SUFFICES ASSUME UniqueInv, [Next]_vars PROVE UniqueInv'
    OBVIOUS
<1>0. /\ TypeOK' /\ TypeOK
      /\ era \in Nat /\ seqNum \in Nat /\ req.len \in 1..MaxLen /\ req.pid \in Pid
      /\ \A g \in issued : g.from \in Nat /\ g.len \in 1..MaxLen /\ g.era \in Nat
    BY NextType, FifoAssumption
       DEF UniqueInv, TypeOK, ServerTypes, IssuedTypes, Request
<1>1. CASE SvStart
    <2>1. era' = era + 1 /\ issued' = issued
        BY <1>1 DEF SvStart, SvCreateSave, SvLoadSave, SvStartFails
    <2>2. \A g \in issued : g.era < era'
        BY <1>0, <2>1 DEF UniqueInv, IssuedBelow
    <2>3. IssuedBelow'
        BY <1>0, <2>1, <2>2 DEF IssuedBelow
    <2>4. QED
        BY <1>0, <2>1, <2>3 DEF UniqueInv, UniqueInEra, Numbers
<1>2. CASE SvReply
    <2> DEFINE r == [pid |-> req.pid, era |-> era, from |-> seqNum, len |-> req.len]
    <2>1. /\ era' = era /\ seqNum' = seqNum /\ req' = req
          /\ spc = "reply" /\ spc' = "save"
          /\ issued' = issued \/ issued' = issued \cup {r}
        BY <1>2 DEF SvReply
    <2>2. \A g \in issued : g.era = era => g.from + g.len <= seqNum
        BY <2>1 DEF UniqueInv, IssuedBelow, NextNumber
    <2>3. IssuedBelow'
        <3>1. \A g \in issued' : g.era <= era
            BY <1>0, <2>1 DEF UniqueInv, IssuedBelow
        <3>2. \A g \in issued' : g.era = era => g.from + g.len <= seqNum + req.len
            BY <1>0, <2>1, <2>2, FifoAssumption
        <3>3. QED
            BY <2>1, <3>1, <3>2 DEF IssuedBelow, NextNumber
    <2>4. UniqueInEra'
        <3>1. \A g \in issued : g.era = era => Numbers(g) \cap Numbers(r) = {}
            BY <1>0, <2>2, FifoAssumption DEF Numbers
        <3>2. SUFFICES ASSUME issued' = issued \cup {r} PROVE UniqueInEra'
            BY <2>1 DEF UniqueInv, UniqueInEra, Numbers
        <3>3. SUFFICES ASSUME NEW g \in issued \cup {r}, NEW h \in issued \cup {r},
                              g.era = h.era, g # h
                       PROVE  Numbers(g) \cap Numbers(h) = {}
            BY <3>2 DEF UniqueInEra, Numbers
        <3>4. CASE g \in issued /\ h \in issued
            BY <3>3, <3>4 DEF UniqueInv, UniqueInEra
        <3>5. CASE g = r /\ h \in issued
            BY <3>1, <3>3, <3>5
        <3>6. CASE g \in issued /\ h = r
            BY <3>1, <3>3, <3>6
        <3>7. QED
            BY <3>3, <3>4, <3>5, <3>6
    <2>5. QED
        BY <1>0, <2>3, <2>4 DEF UniqueInv
<1>3. CASE SvSave
    <2>1. /\ era' = era /\ issued' = issued /\ seqNum' = seqNum + req.len
          /\ spc = "save" /\ spc' = "read"
        BY <1>3 DEF SvSave
    <2>2. IssuedBelow'
        BY <2>1 DEF UniqueInv, IssuedBelow, NextNumber
    <2>3. QED
        BY <1>0, <2>1, <2>2 DEF UniqueInv, UniqueInEra, Numbers
<1>4. ASSUME /\ UNCHANGED <<era, seqNum, issued>>
             /\ \/ spc' = "down"
                \/ spc' = spc /\ req' = req
                \/ spc \notin {"down", "save"} /\ spc' # "save"
      PROVE  UniqueInv'
    <2>1. IssuedBelow'
        BY <1>4 DEF UniqueInv, IssuedBelow, NextNumber
    <2>2. QED
        BY <1>0, <1>4, <2>1 DEF UniqueInv, UniqueInEra, Numbers
<1>5. CASE SvStep /\ ~SvReply /\ ~SvSave
    BY <1>4, <1>5 DEF SvStep, SvInitSave, SvMkfifo, SvOpen, SvOpened, SvRead, SvPollRetry,
       SvGiveUp, SvOpenClient, SvBlock, SvUnblock
<1>6. CASE SvHandler \/ SvKilled
    BY <1>4, <1>6 DEF SvHandler, SvKilled
<1>7. ASSUME NEW c \in Pid, ClStep(c) \/ ClKilled(c) PROVE UniqueInv'
    <2>1. UNCHANGED <<era, seqNum, issued, spc, req>>
        BY <1>7 DEF ClStep, ClStart, ClOpenSv, ClNoServer, ClOpened, ClWrite, ClSigpipe,
           ClOpenOwn, ClGot, ClEof, ClBadExit, ClKilled, Exit, CloseAll, serverVars
    <2>2. QED
        BY <1>4, <2>1
<1>8. CASE UNCHANGED vars
    BY <1>4, <1>8 DEF vars, serverVars
<1>9. QED
    BY <1>1, <1>2, <1>3, <1>5, <1>6, <1>7, <1>8 DEF Next

\* One server process never hands a number out twice, whatever the clients do.
THEOREM Uniqueness == Spec => []UniqueInEra
<1>1. Init => UniqueInv
    BY InitType DEF Init, UniqueInv, IssuedBelow, UniqueInEra
<1>2. UniqueInv => UniqueInEra
    BY DEF UniqueInv
<1>3. QED
    BY <1>1, <1>2, NextUnique, PTL DEF Spec

-----------------------------------------------------------------------------
(* Answers.  A request says who sent it and what it asks for, and what is  *)
(* in a client's FIFO was issued to that client for that length.           *)

RequestsTrue ==
    /\ \A n \in DOMAIN reqs : reqs[n].len = len[reqs[n].pid] /\ cpc[reqs[n].pid] # "start"
    /\ spc \in {"poll", "blocked", "reply"} => req.len = len[req.pid] /\ cpc[req.pid] # "start"

AnswersTrue ==
    \A c \in Pid :
        /\ cpc[c] = "start" => resp[c] = <<>>
        /\ \A n \in DOMAIN resp[c] :
              \E g \in issued : g.pid = c /\ g.from = resp[c][n] /\ g.len = len[c]

AnswerInv == TypeOK /\ RequestsTrue /\ AnswersTrue /\ AnswerIsMine

\* The steps of the server: only SvReply touches what the clients hold.
LEMMA ServerAnswers ==
    ASSUME AnswerInv, SvStart \/ SvStep \/ SvHandler \/ SvKilled
    PROVE  RequestsTrue' /\ AnswersTrue' /\ AnswerIsMine'
<1>1. /\ UNCHANGED <<cpc, len, got>> /\ issued \subseteq issued'
      /\ reqs \in Seq(Request)
    BY DEF AnswerInv, TypeOK, FifoTypes, SvStart, SvCreateSave, SvLoadSave, SvStartFails, SvStep,
       SvInitSave, SvMkfifo, SvOpen, SvOpened, SvRead, SvPollRetry, SvGiveUp, SvOpenClient,
       SvBlock, SvUnblock, SvReply, SvSave, SvHandler, SvKilled, clientVars
<1>2. \A n \in DOMAIN reqs' : \E m \in DOMAIN reqs : reqs'[n] = reqs[m]
    <2>1. CASE SvRead
        <3>1. reqs # <<>> /\ reqs' = Tail(reqs)
            BY <2>1 DEF SvRead
        <3>2. \A n \in DOMAIN Tail(reqs) : n + 1 \in DOMAIN reqs /\ Tail(reqs)[n] = reqs[n + 1]
            BY <1>1, <3>1
        <3>3. QED
            BY <3>1, <3>2
    <2>2. CASE ~SvRead
        <3>1. reqs' = reqs \/ reqs' = <<>>
            BY <2>2 DEF SvStart, SvCreateSave, SvLoadSave, SvStartFails, SvStep, SvInitSave,
               SvMkfifo, SvOpen, SvOpened, SvPollRetry, SvGiveUp, SvOpenClient, SvBlock,
               SvUnblock, SvReply, SvSave, SvHandler, SvKilled, fifoVars
        <3>2. QED
            BY <3>1
    <2>3. QED
        BY <2>1, <2>2
<1>3. RequestsTrue'
    <2>1. spc' \in {"poll", "blocked", "reply"} =>
             req'.len = len[req'.pid] /\ cpc[req'.pid] # "start"
        <3>1. CASE SvRead
            <4>1. req' = reqs[1] /\ 1 \in DOMAIN reqs
                BY <1>1, <3>1 DEF SvRead
            <4>2. QED
                BY <4>1 DEF AnswerInv, RequestsTrue
        <3>2. CASE ~SvRead
            <4>1. spc' \in {"poll", "blocked", "reply"} =>
                     spc \in {"poll", "blocked", "reply"} /\ req' = req
                BY <3>2 DEF SvStart, SvCreateSave, SvLoadSave, SvStartFails, SvStep, SvInitSave,
                   SvMkfifo, SvOpen, SvOpened, SvPollRetry, SvGiveUp, SvOpenClient, SvBlock,
                   SvUnblock, SvReply, SvSave, SvHandler, SvKilled
            <4>2. QED
                BY <4>1 DEF AnswerInv, RequestsTrue
        <3>3. QED
            BY <3>1, <3>2
    <2>2. QED
        BY <1>1, <1>2, <2>1 DEF AnswerInv, RequestsTrue
<1>4. AnswersTrue'
    <2>1. CASE UNCHANGED resp
        BY <1>1, <2>1 DEF AnswerInv, AnswersTrue
    <2>2. CASE SvReply /\ ReadsOwnFifo(req.pid)
        <3> DEFINE p == req.pid
                   r == [pid |-> p, era |-> era, from |-> seqNum, len |-> req.len]
        <3>1. /\ resp' = [resp EXCEPT ![p] = Append(resp[p], seqNum)]
              /\ issued' = issued \cup {r} /\ cpc[p] = "wait" /\ spc = "reply"
            BY <2>2 DEF SvReply, ReadsOwnFifo
        <3>2. p \in Pid /\ resp \in [Pid -> Seq(Nat)] /\ seqNum \in Nat
            BY DEF AnswerInv, TypeOK, ServerTypes, FifoTypes, Request
        <3>3. r.len = len[p] /\ r.pid = p /\ r.from = seqNum
            BY <3>1 DEF AnswerInv, RequestsTrue
        <3>4. \A n \in DOMAIN resp'[p] : \/ n \in DOMAIN resp[p] /\ resp'[p][n] = resp[p][n]
                                         \/ resp'[p][n] = seqNum
            <4>1. resp'[p] = Append(resp[p], seqNum) /\ resp[p] \in Seq(Nat)
                BY <3>1, <3>2
            <4>2. QED
                BY <3>2, <4>1
        <3>5. \A c \in Pid : c # p => resp'[c] = resp[c]
            BY <3>1, <3>2
        <3>6. SUFFICES ASSUME NEW c \in Pid
                       PROVE  /\ cpc[c] = "start" => resp'[c] = <<>>
                              /\ \A n \in DOMAIN resp'[c] :
                                   \E g \in issued' : g.pid = c /\ g.from = resp'[c][n] /\ g.len = len[c]
            BY <1>1 DEF AnswersTrue
        <3>7. CASE c # p
            BY <1>1, <3>5, <3>7 DEF AnswerInv, AnswersTrue
        <3>8. CASE c = p
            <4>1. SUFFICES ASSUME NEW n \in DOMAIN resp'[p]
                           PROVE  \E g \in issued' : g.pid = p /\ g.from = resp'[p][n] /\ g.len = len[p]
                BY <3>1, <3>8
            <4>2. CASE resp'[p][n] = seqNum
                BY <3>1, <3>3, <4>2
            <4>3. CASE n \in DOMAIN resp[p] /\ resp'[p][n] = resp[p][n]
                <5>1. \E g \in issued : g.pid = p /\ g.from = resp[p][n] /\ g.len = len[p]
                    BY <3>2, <4>3 DEF AnswerInv, AnswersTrue
                <5>2. QED
                    BY <1>1, <4>3, <5>1
            <4>4. QED
                BY <3>4, <4>2, <4>3
        <3>9. QED
            BY <3>7, <3>8
    <2>3. resp' = resp \/ (SvReply /\ ReadsOwnFifo(req.pid))
        BY DEF SvStart, SvCreateSave, SvLoadSave, SvStartFails, SvStep, SvInitSave, SvMkfifo,
           SvOpen, SvOpened, SvRead, SvPollRetry, SvGiveUp, SvOpenClient, SvBlock, SvUnblock,
           SvReply, SvSave, SvHandler, SvKilled, cfifoVars
    <2>4. QED
        BY <2>1, <2>2, <2>3
<1>5. AnswerIsMine'
    BY <1>1 DEF AnswerInv, AnswerIsMine
<1>6. QED
    BY <1>3, <1>4, <1>5

\* The steps of the clients: a length is chosen before anything is sent, and a
\* client that ends well ends with the head of its own FIFO.
LEMMA ClientAnswers ==
    ASSUME AnswerInv, NEW c \in Pid, ClStep(c) \/ ClKilled(c)
    PROVE  RequestsTrue' /\ AnswersTrue' /\ AnswerIsMine'
<1>1. /\ UNCHANGED <<spc, req, issued>>
      /\ cpc \in [Pid -> ClientPoints] /\ len \in [Pid -> 1..MaxLen] /\ got \in [Pid -> Nat]
      /\ resp \in [Pid -> Seq(Nat)] /\ reqs \in Seq(Request) /\ req \in Request
    BY DEF AnswerInv, TypeOK, ServerTypes, ClientTypes, FifoTypes, ClStep, ClStart, ClOpenSv,
       ClNoServer, ClOpened, ClWrite, ClSigpipe, ClOpenOwn, ClGot, ClEof, ClBadExit, ClKilled,
       Exit, CloseAll, serverVars
<1>2. /\ \A d \in Pid : d # c => cpc'[d] = cpc[d] /\ len'[d] = len[d] /\ got'[d] = got[d]
      /\ cpc'[c] # "start"
      /\ cpc[c] # "start" => len'[c] = len[c]
    <2>1. CASE ClStart(c)
        BY <1>1, <2>1 DEF ClStart
    <2>2. CASE ClGot(c)
        BY <1>1, <2>2 DEF ClGot, Exit
    <2>3. CASE ClStep(c) /\ ~ClStart(c) /\ ~ClGot(c)
        BY <1>1, <2>3 DEF ClStep, ClOpenSv, ClNoServer, ClOpened, ClWrite, ClSigpipe, ClOpenOwn,
           ClEof, ClBadExit, Exit
    <2>4. CASE ClKilled(c)
        BY <1>1, <2>4 DEF ClKilled
    <2>5. QED
        BY <2>1, <2>2, <2>3, <2>4
<1>3. \A n \in DOMAIN reqs' : \/ n \in DOMAIN reqs /\ reqs'[n] = reqs[n]
                              \/ reqs'[n] = [pid |-> c, len |-> len[c]] /\ cpc[c] = "write"
    <2>1. CASE ClWrite(c)
        BY <1>1, <2>1 DEF ClWrite
    <2>2. CASE ~ClWrite(c)
        <3>1. reqs' = reqs \/ reqs' = <<>>
            BY <2>2 DEF ClStep, ClStart, ClOpenSv, ClNoServer, ClOpened, ClSigpipe, ClOpenOwn, ClGot,
               ClEof, ClBadExit, ClKilled, Exit, CloseAll, fifoVars
        <3>2. QED
            BY <3>1
    <2>3. QED
        BY <2>1, <2>2
<1>4. RequestsTrue'
    <2>1. \A n \in DOMAIN reqs : reqs[n].pid \in Pid
        <3>1. \A n \in DOMAIN reqs : reqs[n] \in Request
            BY <1>1
        <3>2. QED
            BY <3>1 DEF Request
    <2>2. \A d \in Pid : cpc[d] # "start" => cpc'[d] # "start" /\ len'[d] = len[d]
        BY <1>2
    <2>3. \A n \in DOMAIN reqs' : reqs'[n].len = len'[reqs'[n].pid] /\ cpc'[reqs'[n].pid] # "start"
        BY <1>3, <2>1, <2>2 DEF AnswerInv, RequestsTrue
    <2>4. req.pid \in Pid
        BY <1>1 DEF Request
    <2>5. QED
        BY <1>1, <2>2, <2>3, <2>4 DEF AnswerInv, RequestsTrue
<1>5. \A d \in Pid : resp'[d] = resp[d] \/ resp'[d] = <<>>
    BY <1>1 DEF ClStep, ClStart, ClOpenSv, ClNoServer, ClOpened, ClWrite, ClSigpipe, ClOpenOwn,
       ClGot, ClEof, ClBadExit, ClKilled, Exit, CloseAll, cfifoVars
<1>6. AnswersTrue'
    <2>1. SUFFICES ASSUME NEW d \in Pid
                   PROVE  /\ cpc'[d] = "start" => resp'[d] = <<>>
                          /\ \A n \in DOMAIN resp'[d] :
                               \E g \in issued : g.pid = d /\ g.from = resp'[d][n] /\ g.len = len'[d]
        BY <1>1 DEF AnswersTrue
    <2>2. CASE resp'[d] = <<>>
        BY <2>2
    <2>3. CASE resp'[d] = resp[d] /\ resp[d] # <<>>
        <3>1. cpc[d] # "start"
            BY <2>3 DEF AnswerInv, AnswersTrue
        <3>2. cpc'[d] # "start" /\ len'[d] = len[d]
            BY <1>2, <3>1
        <3>3. QED
            BY <2>3, <3>2 DEF AnswerInv, AnswersTrue
    <2>4. QED
        BY <1>5, <2>2, <2>3
<1>7. AnswerIsMine'
    <2>1. SUFFICES ASSUME NEW d \in Client, cpc'[d] = "done"
                   PROVE  \E g \in issued : g.pid = d /\ g.from = got'[d] /\ g.len = len'[d]
        BY <1>1 DEF AnswerIsMine
    <2>2. d \in Pid /\ d \notin BadClient
        BY FifoAssumption DEF Pid
    <2>3. CASE d # c
        BY <1>2, <2>1, <2>2, <2>3 DEF AnswerInv, AnswerIsMine
    <2>4. CASE d = c
        <3>1. ClGot(c)
            BY <1>1, <2>1, <2>2, <2>4 DEF ClStep, ClStart, ClOpenSv, ClNoServer, ClOpened, ClWrite,
               ClSigpipe, ClOpenOwn, ClGot, ClEof, ClBadExit, ClKilled, Exit, Gone
        <3>2. got'[c] = Head(resp[c]) /\ len'[c] = len[c] /\ resp[c] # <<>>
            BY <1>1, <3>1 DEF ClGot, Exit
        <3>3. got'[c] = resp[c][1] /\ 1 \in DOMAIN resp[c]
            BY <1>1, <3>2
        <3>4. QED
            BY <2>4, <3>2, <3>3 DEF AnswerInv, AnswersTrue
    <2>5. QED
        BY <2>3, <2>4
<1>8. QED
    BY <1>4, <1>6, <1>7

\* A client that ends well holds a range issued to it, of the length it asked
\* for, whoever dies on the way (fifo_seqnum_server.c:102-106).
THEOREM AnswersAreMine == Spec => []AnswerIsMine
<1>1. Init => AnswerInv
    <2> SUFFICES ASSUME Init PROVE AnswerInv
        OBVIOUS
    <2>1. TypeOK
        BY InitType
    <2>2. RequestsTrue /\ AnswersTrue /\ AnswerIsMine
        BY DEF Init, RequestsTrue, AnswersTrue, AnswerIsMine, Pid
    <2>3. QED
        BY <2>1, <2>2 DEF AnswerInv
<1>2. AnswerInv /\ [Next]_vars => AnswerInv'
    <2> SUFFICES ASSUME AnswerInv, [Next]_vars PROVE AnswerInv'
        OBVIOUS
    <2>1. TypeOK'
        BY NextType DEF AnswerInv
    <2>2. CASE UNCHANGED vars
        BY <2>1, <2>2 DEF vars, serverVars, saveVars, fifoVars, clientVars, cfifoVars, AnswerInv,
           RequestsTrue, AnswersTrue, AnswerIsMine
    <2>3. QED
        BY <2>1, <2>2, ServerAnswers, ClientAnswers DEF Next, AnswerInv
<1>3. AnswerInv => AnswerIsMine
    BY DEF AnswerInv
<1>4. QED
    BY <1>1, <1>2, <1>3, PTL DEF Spec

-----------------------------------------------------------------------------
(* Restarts.  What a later start reads at offset 0 lags behind by the      *)
(* answer in flight (spc = "save") and by the one answer that was saved at *)
(* offset 1 because the file was not rewound after the read (off = 1).     *)

Behind == {g \in issued : g.era = era /\ g.from >= save[0]}
AtMostOne(S) == \E x : S \subseteq {x}
AtMostTwo(S) == \E x, y : S \subseteq {x, y}

SaveInv ==
    /\ 0 \notin DOMAIN save => spc \in {"down", "init"}
    /\ ~saveExists => issued = {} /\ spc = "down"
    /\ spc = "init" => off = 0 /\ \A g \in issued : g.era # era
    /\ spc \notin {"down", "init", "save"} => AtMostOne(Behind) /\ (off = 1 => Behind = {})
    /\ spc = "save" => AtMostTwo(Behind) /\ (off = 1 => AtMostOne(Behind))
    /\ 0 \in DOMAIN save => AtMostTwo(Behind)

RestartInv == UniqueInv /\ SaveInv

\* A start numbers an era that has no answers, so nothing of it is behind.
LEMMA StartKeepsSave == RestartInv /\ SvStart => SaveInv'
<1> SUFFICES ASSUME RestartInv, SvStart PROVE SaveInv'
    OBVIOUS
<1>1. era' = era + 1 /\ issued' = issued /\ spc' \in {"init", "mkfifo", "down"}
    BY DEF SvStart, SvCreateSave, SvLoadSave, SvStartFails
<1>2. \A g \in issued : g.era # era'
    BY <1>1, FifoAssumption DEF RestartInv, UniqueInv, IssuedBelow, TypeOK, ServerTypes, IssuedTypes
<1>3. Behind' = {}
    BY <1>1, <1>2 DEF Behind
<1>4. AtMostOne(Behind') /\ AtMostTwo(Behind')
    BY <1>3 DEF AtMostOne, AtMostTwo
<1>5. /\ 0 \notin DOMAIN save' => spc' \in {"down", "init"}
      /\ saveExists'
      /\ spc' = "init" => off' = 0
    BY <1>1 DEF RestartInv, SaveInv, SvStart, SvCreateSave, SvLoadSave, SvStartFails, saveVars
<1>6. QED
    BY <1>1, <1>2, <1>3, <1>4, <1>5 DEF SaveInv

\* SvInitSave, SvReply and SvSave are the steps that change what is behind.
LEMMA AnswerKeepsSave == RestartInv /\ (SvInitSave \/ SvReply \/ SvSave) => SaveInv'
<1> SUFFICES ASSUME RestartInv, SvInitSave \/ SvReply \/ SvSave PROVE SaveInv'
    OBVIOUS
<1>0. /\ seqNum \in Nat /\ off \in {0, 1} /\ req.len \in Nat \ {0} /\ era \in Nat
      /\ \A g \in issued : g.from \in Nat /\ g.len \in Nat \ {0}
      /\ saveExists
    <2>1. spc # "down"
        BY DEF SvInitSave, SvReply, SvSave
    <2>2. QED
        BY <2>1, FifoAssumption
           DEF RestartInv, UniqueInv, TypeOK, ServerTypes, IssuedTypes, Request, SaveInv
<1>1. CASE SvInitSave
    <2>1. /\ spc' = "mkfifo" /\ off' = 0 /\ UNCHANGED <<era, issued, saveExists>>
          /\ 0 \in DOMAIN save' /\ \A g \in issued : g.era # era
        BY <1>1 DEF SvInitSave, WriteSave, RestartInv, SaveInv
    <2>2. Behind' = {}
        BY <2>1 DEF Behind
    <2>3. AtMostOne(Behind') /\ AtMostTwo(Behind')
        BY <2>2 DEF AtMostOne, AtMostTwo
    <2>4. QED
        BY <1>0, <2>1, <2>3 DEF SaveInv
<1>2. CASE SvReply
    <2> DEFINE r == [pid |-> req.pid, era |-> era, from |-> seqNum, len |-> req.len]
    <2>1. /\ spc = "reply" /\ spc' = "save" /\ UNCHANGED <<era, off, save, saveExists>>
          /\ issued' = issued \/ issued' = issued \cup {r}
        BY <1>2 DEF SvReply, saveVars
    <2>2. saveExists /\ 0 \in DOMAIN save
        BY <1>0, <2>1 DEF RestartInv, SaveInv
    <2>3. Behind' \subseteq Behind \cup {r}
        BY <2>1 DEF Behind
    <2>4. AtMostTwo(Behind') /\ (off = 1 => AtMostOne(Behind'))
        <3>1. PICK x : Behind \subseteq {x} /\ (off = 1 => Behind = {})
            BY <2>1 DEF RestartInv, SaveInv, AtMostOne
        <3>2. Behind' \subseteq {x, r} /\ (off = 1 => Behind' \subseteq {r})
            BY <2>3, <3>1
        <3>3. QED
            BY <3>2 DEF AtMostOne, AtMostTwo
    <2>5. QED
        BY <2>1, <2>2, <2>4 DEF SaveInv
<1>3. CASE SvSave
    <2>1. /\ spc = "save" /\ spc' = "read" /\ off' = 0 /\ UNCHANGED <<era, issued, saveExists>>
          /\ DOMAIN save' = DOMAIN save \cup {off}
          /\ save'[off] = seqNum + req.len /\ \A s \in DOMAIN save \ {off} : save'[s] = save[s]
        BY <1>3 DEF SvSave, WriteSave
    <2>2. 0 \in DOMAIN save /\ 0 \in DOMAIN save'
        BY <2>1 DEF RestartInv, SaveInv
    <2>3. AtMostOne(Behind')
        <3>1. CASE off = 0
            <4>1. \A g \in issued : g.era = era => ~(g.from >= seqNum + req.len)
                BY <1>0, <2>1 DEF RestartInv, UniqueInv, IssuedBelow, NextNumber
            <4>2. Behind' = {}
                BY <2>1, <3>1, <4>1 DEF Behind
            <4>3. QED
                BY <4>2 DEF AtMostOne
        <3>2. CASE off = 1
            <4>1. save'[0] = save[0]
                BY <2>1, <2>2, <3>2
            <4>2. Behind' = Behind
                BY <2>1, <4>1 DEF Behind
            <4>3. QED
                BY <2>1, <3>2, <4>2 DEF RestartInv, SaveInv
        <3>3. QED
            BY <1>0, <3>1, <3>2
    <2>4. AtMostTwo(Behind')
        BY <2>3 DEF AtMostOne, AtMostTwo
    <2>5. QED
        BY <1>0, <2>1, <2>2, <2>3, <2>4 DEF SaveInv, RestartInv
<1>4. QED
    BY <1>1, <1>2, <1>3

\* The invariant of restarts; every other step leaves the file, the era and the
\* answers as they are.
LEMMA NextRestart == RestartInv /\ [Next]_vars => RestartInv'
<1> SUFFICES ASSUME RestartInv, [Next]_vars PROVE RestartInv'
    OBVIOUS
<1> SUFFICES SaveInv'
    BY NextUnique DEF RestartInv
<1>1. ASSUME /\ UNCHANGED <<era, off, saveExists, save, issued>>
             /\ \/ spc' = "down"
                \/ spc' = spc
                \/ spc \notin {"down", "init", "save"} /\ spc' \notin {"down", "init", "save"}
      PROVE  SaveInv'
    <2>1. Behind' = Behind
        BY <1>1 DEF Behind
    <2>2. QED
        BY <1>1, <2>1 DEF RestartInv, SaveInv
<1>2. CASE SvStep /\ ~(SvInitSave \/ SvReply \/ SvSave)
    BY <1>1, <1>2 DEF SvStep, SvMkfifo, SvOpen, SvOpened, SvRead, SvPollRetry, SvGiveUp,
       SvOpenClient, SvBlock, SvUnblock, saveVars
<1>3. CASE SvHandler \/ SvKilled
    BY <1>1, <1>3 DEF SvHandler, SvKilled, saveVars
<1>4. ASSUME NEW c \in Pid, ClStep(c) \/ ClKilled(c) PROVE SaveInv'
    <2>1. UNCHANGED <<era, off, saveExists, save, issued, spc>>
        BY <1>4 DEF ClStep, ClStart, ClOpenSv, ClNoServer, ClOpened, ClWrite, ClSigpipe,
           ClOpenOwn, ClGot, ClEof, ClBadExit, ClKilled, Exit, serverVars, saveVars
    <2>2. QED
        BY <1>1, <2>1
<1>5. CASE UNCHANGED vars
    BY <1>1, <1>5 DEF vars, serverVars, saveVars
<1>6. QED
    BY <1>2, <1>3, <1>4, <1>5, StartKeepsSave, AnswerKeepsSave DEF Next, SvStep

\* What a restart could hand out again, counted.
LEMMA RepeatsCounted ==
    ASSUME RestartInv, 0 \in DOMAIN save
    PROVE  Cardinality(Behind) <= 2
<1>1. PICK x, y : Behind \subseteq {x, y}
    BY DEF RestartInv, SaveInv, AtMostTwo
<1>2. IsFiniteSet({x}) /\ Cardinality({x}) = 1
    BY FS_Singleton
<1>3. IsFiniteSet({x} \cup {y}) /\ Cardinality({x} \cup {y}) <= 2
    BY <1>2, FS_AddElement
<1>4. Cardinality(Behind) <= Cardinality({x} \cup {y}) /\ Cardinality(Behind) \in Nat
    BY <1>1, <1>3, FS_Subset, FS_CardinalityType
<1>5. Cardinality({x} \cup {y}) \in Nat
    BY <1>3, FS_CardinalityType
<1>6. QED
    BY <1>3, <1>4, <1>5

LEMMA InitRestart == Init => RestartInv
<1> SUFFICES ASSUME Init PROVE RestartInv
    OBVIOUS
<1>1. UniqueInv
    BY InitType DEF Init, UniqueInv, IssuedBelow, UniqueInEra
<1>2. SaveInv
    BY DEF Init, SaveInv
<1>3. QED
    BY <1>1, <1>2 DEF RestartInv

\* A restart repeats at most two answers, wherever the server died
\* (fifo_seqnum_server.c:48, 108-111).
THEOREM RestartsRepeatLittle == Spec => []RestartRepeatsAtMostTwo
<1>1. RestartInv => RestartRepeatsAtMostTwo
    BY RepeatsCounted DEF RestartRepeatsAtMostTwo, Behind
<1>2. QED
    BY <1>1, InitRestart, NextRestart, PTL DEF Spec

-----------------------------------------------------------------------------
(* Refinement.  The save point is where the service has already moved on:  *)
(* SvReply is its Allocate, or its Waste when the write fails, and SvSave  *)
(* is a stutter.                                                           *)

\* The programs implement the abstract sequence-number service.
THEOREM Refinement == Spec => ImplementsService
<1>1. Init => Service!Init
    BY DEF Init, Service!Init
<1>2. RestartInv /\ RestartInv' /\ [Next]_vars => [Service!Next]_(Service!vars)
    <2> SUFFICES ASSUME RestartInv, [Next]_vars PROVE [Service!Next]_(Service!vars)
        OBVIOUS
    <2>1. /\ seqNum \in Nat /\ era \in Nat /\ req.len \in 1..MaxLen /\ req.pid \in Pid
          /\ save \in [DOMAIN save -> Nat]
        BY DEF RestartInv, UniqueInv, TypeOK, ServerTypes, SaveTypes, Request
    \* The abstract module has the Cardinality of its own instance of FiniteSets.
    <2> \A S : Service!Cardinality(S) = Cardinality(S)
        BY DEF Service!Cardinality, Cardinality
    <2> DEFINE nextNumber == IF spc = "down" THEN 0
                             ELSE IF spc = "save" THEN seqNum + req.len ELSE seqNum
    <2>2. CASE SvCreateSave
        <3>1. issued = {} /\ nextNumber' = 0 /\ spc' # "down"
            BY <2>2 DEF SvCreateSave, RestartInv, SaveInv
        <3>2. Service!Repeated(era, nextNumber') = {}
            BY <3>1 DEF Service!Repeated
        <3>3. Cardinality(Service!Repeated(era, nextNumber')) <= 2
            BY <3>2, FS_EmptySet
        <3>4. Service!Start
            BY <2>2, <3>1, <3>3 DEF SvCreateSave, Service!Start
        <3>5. QED
            BY <3>4 DEF Service!Next
    <2>3. CASE SvLoadSave
        <3>1. 0 \in DOMAIN save /\ nextNumber' = save[0] /\ save[0] \in Nat /\ spc' # "down"
            BY <2>1, <2>3 DEF SvLoadSave
        <3>2. Service!Repeated(era, nextNumber') = Behind
            BY <3>1 DEF Service!Repeated, Behind
        <3>3. Cardinality(Service!Repeated(era, nextNumber')) <= 2
            BY <3>1, <3>2, RepeatsCounted
        <3>4. Service!Start
            BY <2>3, <3>1, <3>3 DEF SvLoadSave, Service!Start
        <3>5. QED
            BY <3>4 DEF Service!Next
    <2>4. CASE SvStartFails
        BY <2>4 DEF SvStartFails, Service!FailedStart, Service!Next
    <2>5. CASE SvReply
        <3>1. Service!Waste(req.len) \/ Service!Allocate(req.pid, req.len)
            BY <2>5 DEF SvReply, Service!Waste, Service!Allocate
        <3>2. QED
            BY <2>1, <3>1 DEF Service!Next
    <2>6. CASE SvHandler \/ SvKilled
        BY <2>6 DEF SvHandler, SvKilled, Service!Stop, Service!Next
    <2>7. CASE SvSave
        BY <2>7 DEF SvSave, Service!vars
    <2>8. CASE SvStep /\ ~SvReply /\ ~SvSave
        BY <2>8 DEF SvStep, SvInitSave, SvMkfifo, SvOpen, SvOpened, SvRead, SvPollRetry, SvGiveUp,
           SvOpenClient, SvBlock, SvUnblock, Service!vars
    <2>9. ASSUME NEW c \in Pid, ClStep(c) \/ ClKilled(c) PROVE UNCHANGED Service!vars
        <3>1. UNCHANGED <<spc, era, seqNum, req, issued>>
            BY <2>9 DEF ClStep, ClStart, ClOpenSv, ClNoServer, ClOpened, ClWrite, ClSigpipe,
               ClOpenOwn, ClGot, ClEof, ClBadExit, ClKilled, Exit, serverVars
        <3>2. QED
            BY <3>1 DEF Service!vars
    <2>10. CASE UNCHANGED vars
        BY <2>10 DEF vars, serverVars, Service!vars
    <2>11. QED
        BY <2>2, <2>3, <2>4, <2>5, <2>6, <2>7, <2>8, <2>9, <2>10 DEF Next, SvStart
<1>3. QED
    BY <1>1, <1>2, InitRestart, NextRestart, PTL DEF Spec, ImplementsService, Service!Spec
=============================================================================
