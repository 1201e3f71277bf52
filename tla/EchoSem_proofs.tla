---------------------------- MODULE EchoSem_proofs ----------------------------
(***************************************************************************)
(* Proofs about EchoSem, for any set of connections, any limit on those    *)
(* served at once, any backlog and any number of starts.                   *)
(***************************************************************************)
EXTENDS EchoSem, FiniteSetTheorems, SequenceTheorems, TLAPS

\* The types hold at the start.
LEMMA InitType == Init => TypeOK
<1> SUFFICES ASSUME Init PROVE TypeOK
    OBVIOUS
<1>1. ServerTypes
    BY EchoSemAssumption DEF Init, ServerTypes
<1>2. ConnectionTypes
    BY DEF Init, ConnectionTypes
<1>3. QueueTypes
    BY DEF Init, QueueTypes
<1>4. QED
    BY <1>1, <1>2, <1>3 DEF TypeOK

\* Every step keeps the types of the server's variables.
LEMMA NextServerTypes == ServerTypes /\ [Next]_vars => ServerTypes'
<1> SUFFICES ASSUME ServerTypes, [Next]_vars PROVE ServerTypes'
    OBVIOUS
<1> DEFINE Points == {"down", "listen", "sem_open", "sem_unlink", "sem_wait", "accept", "fork"}
           Numbers == starts \in Nat /\ sem \in Nat /\ lost \in Nat
           Flags == hand \in BOOLEAN /\ chld \in BOOLEAN /\ named \in BOOLEAN
<1>1. spc' \in Points
    BY DEF ServerTypes, Next, SvStep, vars, SvEnds, SvStart, SvListen, SvSemOpen, SvSemUnlink,
           SvSemWait, SvAccept, SvFork, SvSignal, SvReap, SvKilled, RemoveName,
           KidExit, ClConnect, ClClose
<1>2. Numbers'
    <2> USE EchoSemAssumption DEF ServerTypes
    <2>1. CASE SvStart \/ SvKilled \/ RemoveName
        BY <2>1 DEF SvStart, SvKilled, SvEnds, RemoveName
    <2>2. CASE SvListen \/ SvSemOpen \/ SvSemUnlink
        BY <2>2 DEF SvListen, SvSemOpen, SvEnds, SvSemUnlink
    <2>3. CASE SvSemWait \/ SvAccept \/ SvFork
        BY <2>3 DEF SvSemWait, SvAccept, SvFork
    <2>4. CASE SvSignal \/ SvReap
        BY <2>4 DEF SvSignal, SvReap
    <2>5. ASSUME NEW c \in Client, KidExit(c) \/ ClConnect(c) \/ ClClose(c) PROVE Numbers'
        BY <2>5 DEF KidExit, ClConnect, ClClose
    <2>6. CASE UNCHANGED vars
        BY <2>6 DEF vars
    <2>7. QED
        BY <2>1, <2>2, <2>3, <2>4, <2>5, <2>6 DEF Next, SvStep
<1>3. Flags'
    <2>1. hand' \in BOOLEAN
        BY Zenon DEF ServerTypes, Next, SvStep, vars, SvEnds, SvStart, SvListen, SvSemOpen,
           SvSemUnlink, SvSemWait, SvAccept, SvFork, SvSignal, SvReap, SvKilled, RemoveName,
           KidExit, ClConnect, ClClose
    <2>2. chld' \in BOOLEAN
        BY Zenon DEF ServerTypes, Next, SvStep, vars, SvEnds, SvStart, SvListen, SvSemOpen,
           SvSemUnlink, SvSemWait, SvAccept, SvFork, SvSignal, SvReap, SvKilled, RemoveName,
           KidExit, ClConnect, ClClose
    <2>3. named' \in BOOLEAN
        BY Zenon DEF ServerTypes, Next, SvStep, vars, SvEnds, SvStart, SvListen, SvSemOpen,
           SvSemUnlink, SvSemWait, SvAccept, SvFork, SvSignal, SvReap, SvKilled, RemoveName,
           KidExit, ClConnect, ClClose
    <2>4. QED
        BY <2>1, <2>2, <2>3
<1>4. QED
    BY <1>1, <1>2, <1>3 DEF ServerTypes

\* Every step keeps the types of the connections.
LEMMA NextConnectionTypes == TypeOK /\ [Next]_vars => ConnectionTypes'
<1> SUFFICES ASSUME TypeOK, [Next]_vars PROVE ConnectionTypes'
    OBVIOUS
<1> USE DEF TypeOK, ConnectionTypes
<1>1. ASSUME SvEnds PROVE ConnectionTypes'
    BY <1>1 DEF SvEnds
<1>2. CASE SvStart \/ SvKilled \/ RemoveName
    BY <1>1, <1>2 DEF SvStart, SvKilled, RemoveName
<1>3. CASE SvListen \/ SvSemOpen \/ SvSemUnlink
    BY <1>1, <1>3 DEF SvListen, SvSemOpen, SvSemUnlink
<1>4. CASE SvSemWait \/ SvFork \/ SvSignal
    BY <1>4 DEF SvSemWait, SvFork, SvSignal, QueueTypes
<1>5. CASE SvAccept
    BY <1>5 DEF SvAccept
<1>6. CASE SvReap
    BY <1>6 DEF SvReap, Dead
<1>7. ASSUME NEW c \in Client, KidExit(c) \/ ClConnect(c) \/ ClClose(c) PROVE ConnectionTypes'
    BY <1>7 DEF KidExit, ClConnect, ClClose
<1>8. CASE UNCHANGED vars
    BY <1>8 DEF vars
<1>9. QED
    BY <1>2, <1>3, <1>4, <1>5, <1>6, <1>7, <1>8 DEF Next, SvStep

\* Every step keeps the queue of connections.
LEMMA NextQueueTypes == TypeOK /\ [Next]_vars => QueueTypes'
<1> SUFFICES ASSUME TypeOK, [Next]_vars PROVE QueueTypes'
    OBVIOUS
<1> USE DEF TypeOK, ConnectionTypes, QueueTypes
<1>1. ASSUME SvEnds PROVE QueueTypes'
    <2>1. backlog' \in Seq(Client) /\ Len(backlog') = 0 /\ spc' # "fork"
        BY <1>1 DEF SvEnds
    <2>2. \A c \in Client : cpc'[c] = "idle" => kid'[c] = "none"
        BY <1>1 DEF SvEnds
    <2>3. QED
        BY <2>1, <2>2
<1>2. CASE SvStart \/ SvKilled \/ RemoveName
    BY <1>1, <1>2 DEF SvStart, SvKilled, RemoveName
<1>3. CASE SvListen \/ SvSemOpen \/ SvSemUnlink
    BY <1>1, <1>3 DEF SvListen, SvSemOpen, SvSemUnlink
<1>4. CASE SvSemWait \/ SvSignal
    BY <1>4 DEF SvSemWait, SvSignal
<1>5. CASE SvAccept
    <2> DEFINE c == Head(backlog)
    <2>1. /\ c \in Client /\ c = backlog[1] /\ 1 \in 1..Len(backlog)
          /\ backlog' \in Seq(Client) /\ Len(backlog') = Len(backlog) - 1
          /\ \A k \in 1..Len(backlog') : backlog'[k] = backlog[k + 1] /\ k + 1 \in 1..Len(backlog)
        BY <1>5, HeadTailProperties DEF SvAccept
    <2>2. cfd' = c /\ kid' = kid /\ cpc' = [cpc EXCEPT ![c] = IF @ = "queued" THEN "open" ELSE @]
        BY <1>5 DEF SvAccept
    <2> HIDE DEF c
    <2>3. \A d \in Client : cpc'[d] = "idle" <=> cpc[d] = "idle"
        BY <2>1, <2>2
    <2>4. \A k, l \in 1..Len(backlog') : backlog'[k] = backlog'[l] => k = l
        BY <2>1
    <2>5. \A k \in 1..Len(backlog') : backlog'[k] \in Client /\ backlog'[k] # c
        BY <2>1
    <2>6. \A k \in 1..Len(backlog') : kid'[backlog'[k]] = "none" /\ cpc'[backlog'[k]] # "idle"
        BY <2>1, <2>2, <2>3, <2>5
    <2>7. QED
        BY <2>1, <2>2, <2>3, <2>4, <2>5, <2>6
<1>6. CASE SvFork
    <2>1. \A k \in 1..Len(backlog) : backlog[k] \in Client /\ backlog[k] # cfd
        BY <1>6, ElementOfSeq DEF SvFork
    <2>2. QED
        BY <1>6, <2>1 DEF SvFork
<1>7. CASE SvReap
    <2>1. UNCHANGED <<backlog, cpc, spc, cfd>>
        BY <1>7 DEF SvReap
    <2>2. \A c \in Client : kid[c] = "none" => kid'[c] = "none"
        BY <1>7 DEF SvReap, Dead
    <2>3. \A k \in 1..Len(backlog) : backlog[k] \in Client
        BY ElementOfSeq
    <2>4. QED
        BY <2>1, <2>2, <2>3
<1>8. ASSUME NEW c \in Client, KidExit(c) \/ ClClose(c) PROVE QueueTypes'
    <2>1. \A k \in 1..Len(backlog) : backlog[k] \in Client
        BY ElementOfSeq
    <2>2. QED
        BY <1>8, <2>1 DEF KidExit, ClClose
<1>9. ASSUME NEW c \in Client, ClConnect(c) PROVE QueueTypes'
    <2>1. /\ backlog' \in Seq(Client) /\ Len(backlog') = Len(backlog) + 1 /\ Len(backlog) \in Nat
          /\ \A k \in 1..Len(backlog) : backlog'[k] = backlog[k] /\ backlog[k] \in Client
          /\ backlog'[Len(backlog) + 1] = c
        BY <1>9, AppendProperties, ElementOfSeq DEF ClConnect
    <2>2. /\ cpc' = [cpc EXCEPT ![c] = "queued"] /\ cpc[c] = "idle" /\ kid[c] = "none"
          /\ UNCHANGED <<kid, spc, cfd>>
        BY <1>9 DEF ClConnect
    <2>3. \A k \in 1..Len(backlog) : backlog[k] # c
        BY <2>2
    <2>4. \A k \in 1..Len(backlog') : k \in 1..Len(backlog) \/ k = Len(backlog) + 1
        BY <2>1
    <2>5. \A k, l \in 1..Len(backlog') : backlog'[k] = backlog'[l] => k = l
        BY <2>1, <2>3, <2>4
    <2>6. \A k \in 1..Len(backlog') : kid'[backlog'[k]] = "none" /\ cpc'[backlog'[k]] # "idle"
        BY <2>1, <2>2, <2>4
    <2>7. \A d \in Client : cpc'[d] = "idle" => kid'[d] = "none"
        BY <2>2
    <2>8. spc' = "fork" => /\ cfd' \in Client /\ kid'[cfd'] = "none" /\ cpc'[cfd'] # "idle"
                           /\ \A k \in 1..Len(backlog') : backlog'[k] # cfd'
        BY <2>1, <2>2, <2>4
    <2>9. QED
        BY <2>1, <2>5, <2>6, <2>7, <2>8
<1>10. CASE UNCHANGED vars
    BY <1>10 DEF vars
<1>11. QED
    BY <1>2, <1>3, <1>4, <1>5, <1>6, <1>7, <1>8, <1>9, <1>10 DEF Next, SvStep

\* A child has one connection and a connection one child: the types hold in
\* every reachable state.
THEOREM TypeCorrect == Spec => []TypeOK
<1>1. TypeOK /\ [Next]_vars => TypeOK'
    BY NextServerTypes, NextConnectionTypes, NextQueueTypes DEF TypeOK
<1>2. QED
    BY InitType, <1>1, PTL DEF Spec

\* What PlacesAccounted rests on: the dead are children of the running server,
\* each child is alive or dead, and a server that has no semaphore has none.
OffspringOK ==
    /\ Dead \subseteq offspring
    /\ \A c \in offspring : kid[c] \in {"alive", "dead"}
    /\ ~Serving => offspring = {} /\ lost = 0

IInv == TypeOK /\ OffspringOK /\ PlacesAccounted

\* Every step keeps the relation of the server to its children.
LEMMA NextOffspring == TypeOK /\ OffspringOK /\ [Next]_vars => OffspringOK'
<1> SUFFICES ASSUME TypeOK, OffspringOK, [Next]_vars PROVE OffspringOK'
    OBVIOUS
<1> USE DEF TypeOK, ConnectionTypes, OffspringOK, Serving, Dead
<1>1. ASSUME SvEnds PROVE OffspringOK'
    BY <1>1 DEF SvEnds
<1>2. CASE SvStart \/ SvKilled \/ RemoveName
    BY <1>1, <1>2 DEF SvStart, SvKilled, RemoveName
<1>3. CASE SvListen \/ SvSemOpen \/ SvSemUnlink
    BY <1>1, <1>3 DEF SvListen, SvSemOpen, SvSemUnlink
<1>4. CASE SvSemWait \/ SvAccept \/ SvSignal
    BY <1>4 DEF SvSemWait, SvAccept, SvSignal
<1>5. CASE SvFork
    BY <1>5 DEF SvFork, QueueTypes
<1>6. CASE SvReap
    BY <1>6 DEF SvReap
<1>7. ASSUME NEW c \in Client, KidExit(c) \/ ClConnect(c) \/ ClClose(c) PROVE OffspringOK'
    BY <1>7 DEF KidExit, ClConnect, ClClose
<1>8. CASE UNCHANGED vars
    BY <1>8 DEF vars
<1>9. QED
    BY <1>2, <1>3, <1>4, <1>5, <1>6, <1>7, <1>8 DEF Next, SvStep

\* Every step keeps the count of the places.
LEMMA NextPlaces == IInv /\ [Next]_vars => PlacesAccounted'
<1> SUFFICES ASSUME IInv, [Next]_vars PROVE PlacesAccounted'
    OBVIOUS
<1> USE EchoSemAssumption DEF IInv, PlacesAccounted, Serving, Taken
<1>1. IsFiniteSet(offspring) /\ Cardinality(offspring) \in Nat
    BY FS_Subset, FS_CardinalityType DEF TypeOK, ConnectionTypes
<1>2. sem \in Nat /\ lost \in Nat
    BY DEF TypeOK, ServerTypes
<1>3. CASE SvStart \/ SvKilled \/ RemoveName
    BY <1>3 DEF SvStart, SvKilled, SvEnds, RemoveName
<1>4. CASE SvListen \/ SvSemUnlink
    BY <1>4 DEF SvListen, SvSemUnlink
<1>5. CASE SvSemOpen
    <2>1. CASE spc' = "down"
        BY <2>1
    <2>2. CASE spc' # "down"
        <3>1. /\ spc' = "sem_unlink" /\ sem' = MAX_CONNECTIONS
              /\ offspring' = {} /\ lost' = 0
            BY <1>5, <2>2 DEF SvSemOpen, SvEnds, OffspringOK
        <3>2. Cardinality(offspring') = 0
            BY <3>1, FS_EmptySet
        <3>3. QED
            BY <3>1, <3>2
    <2>3. QED
        BY <2>1, <2>2
<1>6. CASE SvSemWait
    BY <1>1, <1>2, <1>6 DEF SvSemWait
<1>7. CASE SvAccept
    BY <1>7 DEF SvAccept
<1>8. CASE SvFork
    <2>1. /\ spc = "fork" /\ spc' = "sem_wait" /\ sem' = sem
          /\ \/ offspring' = offspring \cup {cfd} /\ lost' = lost
             \/ offspring' = offspring /\ lost' = lost + 1
        BY <1>8 DEF SvFork
    <2>2. cfd \notin offspring
        BY <2>1 DEF TypeOK, QueueTypes, OffspringOK
    <2>3. Cardinality(offspring \cup {cfd}) = Cardinality(offspring) + 1
        BY <1>1, <2>2, FS_AddElement
    <2>4. QED
        BY <1>1, <1>2, <2>1, <2>3
<1>9. CASE SvReap
    <2>1. CASE UNCHANGED <<offspring, sem>>
        BY <1>9, <2>1 DEF SvReap
    <2>2. ASSUME NEW c \in Dead, offspring' = offspring \ {c}, sem' = sem + 1
          PROVE PlacesAccounted'
        <3>1. Cardinality(offspring') = Cardinality(offspring) - 1 /\ Serving
            BY <1>1, <2>2, FS_RemoveElement DEF OffspringOK
        <3>2. UNCHANGED <<spc, lost>>
            BY <1>9 DEF SvReap
        <3>3. QED
            BY <1>1, <1>2, <2>2, <3>1, <3>2
    <2>3. QED
        BY <1>9, <2>1, <2>2 DEF SvReap
<1>10. CASE SvSignal
    BY <1>10 DEF SvSignal
<1>11. ASSUME NEW c \in Client, KidExit(c) \/ ClConnect(c) \/ ClClose(c) PROVE PlacesAccounted'
    BY <1>11 DEF KidExit, ClConnect, ClClose
<1>12. CASE UNCHANGED vars
    BY <1>12 DEF vars
<1>13. QED
    BY <1>3, <1>4, <1>5, <1>6, <1>7, <1>8, <1>9, <1>10, <1>11, <1>12 DEF Next, SvStep

LEMMA Inductive == Spec => []IInv
<1>1. Init => IInv
    BY InitType, FS_EmptySet
    DEF Init, IInv, OffspringOK, PlacesAccounted, Serving, Dead
<1>2. IInv /\ [Next]_vars => IInv'
    BY NextServerTypes, NextConnectionTypes, NextQueueTypes, NextOffspring, NextPlaces
    DEF IInv, TypeOK
<1>3. QED
    BY <1>1, <1>2, PTL DEF Spec

\* Every place of the semaphore is free, taken, held by a child or lost.
THEOREM PlacesAlwaysAccounted == Spec => []PlacesAccounted
<1>1. IInv => PlacesAccounted
    BY DEF IInv
<1>2. QED
    BY Inductive, <1>1, PTL

\* No server serves more clients at once than it has places not lost.
THEOREM NeverMoreThanMax == Spec => []ConnectionsLimited
<1>1. IInv => ConnectionsLimited
    <2> SUFFICES ASSUME IInv PROVE ConnectionsLimited
        OBVIOUS
    <2> USE EchoSemAssumption
    <2>1. /\ IsFiniteSet(offspring) /\ Cardinality(offspring) \in Nat
          /\ sem \in Nat /\ lost \in Nat
        BY FS_Subset, FS_CardinalityType DEF IInv, TypeOK, ConnectionTypes, ServerTypes
    <2>2. Cardinality(Alive) <= Cardinality(offspring) /\ Cardinality(Alive) \in Nat
        BY <2>1, FS_Subset, FS_CardinalityType DEF Alive
    <2>3. Cardinality(offspring) + lost <= MAX_CONNECTIONS
        <3>1. CASE Serving
            BY <2>1, <3>1 DEF IInv, PlacesAccounted, Taken
        <3>2. CASE ~Serving
            BY <3>2, FS_EmptySet DEF IInv, OffspringOK
        <3>3. QED
            BY <3>1, <3>2
    <2>4. QED
        BY <2>1, <2>2, <2>3 DEF ConnectionsLimited
<1>2. QED
    BY Inductive, <1>1, PTL

\* No dead child is forgotten when signals are merged: SIGCHLD is pending or the
\* handler runs while there is one.
THEOREM ChildrenRemembered == Spec => []NoForgottenChild
<1>1. Init => NoForgottenChild
    BY DEF Init, NoForgottenChild, Dead
<1>2. IInv /\ NoForgottenChild /\ [Next]_vars => NoForgottenChild'
    <2> SUFFICES ASSUME IInv, NoForgottenChild, [Next]_vars PROVE NoForgottenChild'
        OBVIOUS
    <2> USE DEF NoForgottenChild, Dead
    <2>1. ASSUME SvEnds PROVE NoForgottenChild'
        BY <2>1 DEF SvEnds, IInv, TypeOK, ConnectionTypes
    <2>2. CASE SvStart \/ SvKilled \/ RemoveName
        BY <2>1, <2>2 DEF SvStart, SvKilled, RemoveName
    <2>3. CASE SvListen \/ SvSemOpen \/ SvSemUnlink
        BY <2>1, <2>3 DEF SvListen, SvSemOpen, SvSemUnlink
    <2>4. CASE SvSemWait \/ SvAccept \/ SvSignal
        BY <2>4 DEF SvSemWait, SvAccept, SvSignal
    <2>5. CASE SvFork
        BY <2>5 DEF SvFork, IInv, TypeOK, ConnectionTypes, QueueTypes
    <2>6. CASE SvReap
        BY <2>6 DEF SvReap, IInv, TypeOK, ConnectionTypes
    <2>7. ASSUME NEW c \in Client, KidExit(c) PROVE NoForgottenChild'
        <3>1. CASE c \in offspring
            BY <2>7, <3>1 DEF KidExit
        <3>2. CASE c \notin offspring
            BY <2>7, <3>2 DEF KidExit, IInv, TypeOK, ConnectionTypes
        <3>3. QED
            BY <3>1, <3>2
    <2>8. ASSUME NEW c \in Client, ClConnect(c) \/ ClClose(c) PROVE NoForgottenChild'
        BY <2>8 DEF ClConnect, ClClose
    <2>9. CASE UNCHANGED vars
        BY <2>9 DEF vars
    <2>10. QED
        BY <2>2, <2>3, <2>4, <2>5, <2>6, <2>7, <2>8, <2>9 DEF Next, SvStep
<1>3. QED
    BY Inductive, <1>1, <1>2, PTL DEF Spec
=============================================================================
