------------------------------- MODULE EchoSem -------------------------------
(***************************************************************************)
(* The echo server of Exercise/60/1, which serves at most MAX_CONNECTIONS  *)
(* clients at a time.                                                      *)
(*                                                                         *)
(* A semaphore counts the free places.  The server takes one before it     *)
(* accepts a connection, and forks a child for it; the SIGCHLD handler     *)
(* gives one back for each child it reaps.  When fork() fails the place is *)
(* not given back.  The semaphore's name is removed once it is open.       *)
(*                                                                         *)
(* A client stands for one connection.  What is sent over it is left out:  *)
(* a child ends some time after its client has closed the connection.      *)
(***************************************************************************)
EXTENDS Integers, Sequences, FiniteSets

CONSTANTS Client,           \* connections
          MAX_CONNECTIONS,
          Backlog,          \* connections that wait to be accepted
          MaxStarts         \* bound: how often the server is started

ASSUME EchoSemAssumption ==
    /\ IsFiniteSet(Client)
    /\ MAX_CONNECTIONS \in Nat \ {0} /\ Backlog \in Nat \ {0} /\ MaxStarts \in Nat

VARIABLES spc, starts,    \* the server
          cfd,            \* the connection accepted
          hand, chld,     \* in the SIGCHLD handler; SIGCHLD pending
          offspring,      \* children of the running server it has not reaped
          sem, named,     \* the semaphore's value; its name is there
          backlog,        \* the listening socket's queue
          cpc,            \* a client's end of its connection
          kid,            \* the child that serves it
          lost            \* history: failures of fork() in the running server

vars == <<spc, starts, cfd, hand, chld, offspring, sem, named, backlog, cpc, kid, lost>>

None == "none"
Dead == {c \in Client : kid[c] = "dead"}
Listening == spc \notin {"down", "listen"}

-----------------------------------------------------------------------------
(* The server.                                                             *)

\* The process ends: its semaphore and its waiting connections are gone, its
\* children go on.
SvEnds ==
    /\ spc' = "down" /\ cfd' = None /\ hand' = FALSE /\ chld' = FALSE /\ offspring' = {}
    /\ sem' = 0 /\ lost' = 0 /\ backlog' = <<>>
    /\ cpc' = [c \in Client |-> IF cpc[c] = "queued" \/ c = cfd THEN "closed" ELSE cpc[c]]
    /\ kid' = [c \in Client |-> IF kid[c] = "dead" THEN "gone" ELSE kid[c]]
    /\ UNCHANGED starts

SvStart ==
    /\ spc = "down" /\ starts < MaxStarts /\ starts' = starts + 1 /\ spc' = "listen"
    /\ UNCHANGED <<cfd, hand, chld, offspring, sem, named, backlog, cpc, kid, lost>>
SvListen ==
    /\ spc = "listen" /\ spc' = "sem_open"
    /\ UNCHANGED <<starts, cfd, hand, chld, offspring, sem, named, backlog, cpc, kid, lost>>
\* A name left behind is in the way (O_EXCL).
SvSemOpen ==
    /\ spc = "sem_open"
    /\ \/ named /\ SvEnds /\ UNCHANGED named
       \/ /\ ~named /\ named' = TRUE /\ sem' = MAX_CONNECTIONS /\ spc' = "sem_unlink"
          /\ UNCHANGED <<starts, cfd, hand, chld, offspring, backlog, cpc, kid, lost>>
SvSemUnlink ==
    /\ spc = "sem_unlink" /\ named' = FALSE /\ spc' = "sem_wait"
    /\ UNCHANGED <<starts, cfd, hand, chld, offspring, sem, backlog, cpc, kid, lost>>

\* Faulty variant of SvSemWait: the semaphore is tried, not waited for.
SvSemTryWait ==
    /\ spc = "sem_wait" /\ ~hand /\ spc' = "accept"
    /\ sem' = IF sem > 0 THEN sem - 1 ELSE 0
    /\ UNCHANGED <<starts, cfd, hand, chld, offspring, named, backlog, cpc, kid, lost>>
SvSemWait ==
    /\ spc = "sem_wait" /\ ~hand /\ sem > 0 /\ sem' = sem - 1 /\ spc' = "accept"
    /\ UNCHANGED <<starts, cfd, hand, chld, offspring, named, backlog, cpc, kid, lost>>
\* Faulty variant of SvAccept: a failure of accept() is not looked at.
SvAcceptUnchecked ==
    /\ spc = "accept" /\ ~hand /\ spc' = "fork"
    /\ \/ /\ backlog # <<>> /\ cfd' = Head(backlog) /\ backlog' = Tail(backlog)
          /\ cpc' = [cpc EXCEPT ![Head(backlog)] = IF @ = "queued" THEN "open" ELSE @]
       \/ cfd' = None /\ UNCHANGED <<backlog, cpc>>
    /\ UNCHANGED <<starts, hand, chld, offspring, sem, named, kid, lost>>
SvAccept ==
    /\ spc = "accept" /\ ~hand /\ backlog # <<>>
    /\ cfd' = Head(backlog) /\ backlog' = Tail(backlog) /\ spc' = "fork"
    /\ cpc' = [cpc EXCEPT ![Head(backlog)] = IF @ = "queued" THEN "open" ELSE @]
    /\ UNCHANGED <<starts, hand, chld, offspring, sem, named, kid, lost>>
\* Without a child the connection is closed, and the place is not given back.
SvFork ==
    /\ spc = "fork" /\ ~hand /\ spc' = "sem_wait" /\ cfd' = None
    /\ \/ /\ kid' = [kid EXCEPT ![cfd] = "alive"] /\ offspring' = offspring \cup {cfd}
          /\ UNCHANGED <<cpc, lost>>
       \/ /\ cpc' = [cpc EXCEPT ![cfd] = "closed"] /\ lost' = lost + 1
          /\ UNCHANGED <<kid, offspring>>
    /\ UNCHANGED <<starts, hand, chld, sem, named, backlog>>

SvSignal ==
    /\ chld /\ ~hand /\ chld' = FALSE /\ hand' = TRUE
    /\ UNCHANGED <<spc, starts, cfd, offspring, sem, named, backlog, cpc, kid, lost>>
\* Faulty variant of SvReap: one waitpid() for each signal.
SvReapOne ==
    /\ hand /\ hand' = FALSE
    /\ \/ \E c \in Dead : /\ kid' = [kid EXCEPT ![c] = "gone"] /\ offspring' = offspring \ {c}
                          /\ sem' = sem + 1
       \/ Dead = {} /\ UNCHANGED <<kid, offspring, sem>>
    /\ UNCHANGED <<spc, starts, cfd, chld, named, backlog, cpc, lost>>
\* Faulty variant of SvReap: one sem_post() for each signal.
SvReapPostOnce ==
    /\ hand /\ hand' = FALSE
    /\ kid' = [c \in Client |-> IF kid[c] = "dead" THEN "gone" ELSE kid[c]]
    /\ offspring' = offspring \ Dead /\ sem' = IF Dead = {} THEN sem ELSE sem + 1
    /\ UNCHANGED <<spc, starts, cfd, chld, named, backlog, cpc, lost>>
\* A place is given back for each dead child, until there is none.
SvReap ==
    /\ hand
    /\ \/ /\ \E c \in Dead : kid' = [kid EXCEPT ![c] = "gone"] /\ offspring' = offspring \ {c}
          /\ sem' = sem + 1 /\ UNCHANGED hand
       \/ Dead = {} /\ hand' = FALSE /\ UNCHANGED <<kid, offspring, sem>>
    /\ UNCHANGED <<spc, starts, cfd, chld, named, backlog, cpc, lost>>

\* The server is killed, or an error of accept() or sem_unlink() ends it.
SvKilled == spc # "down" /\ SvEnds /\ UNCHANGED named
\* Somebody removes the name that a killed server left.
RemoveName ==
    /\ named /\ spc = "down" /\ named' = FALSE
    /\ UNCHANGED <<spc, starts, cfd, hand, chld, offspring, sem, backlog, cpc, kid, lost>>

SvStep == \/ SvListen \/ SvSemOpen \/ SvSemUnlink
          \/ SvSemWait \/ SvAccept \/ SvFork \/ SvSignal \/ SvReap

-----------------------------------------------------------------------------
(* Children and clients.                                                   *)

KidExit(c) ==
    /\ kid[c] = "alive" /\ cpc[c] = "closed"
    /\ kid' = [kid EXCEPT ![c] = IF c \in offspring THEN "dead" ELSE "gone"]
    /\ chld' = (chld \/ c \in offspring)
    /\ UNCHANGED <<spc, starts, cfd, hand, offspring, sem, named, backlog, cpc, lost>>

ClConnect(c) ==
    /\ cpc[c] = "idle" /\ Listening /\ Len(backlog) < Backlog
    /\ cpc' = [cpc EXCEPT ![c] = "queued"] /\ backlog' = Append(backlog, c)
    /\ UNCHANGED <<spc, starts, cfd, hand, chld, offspring, sem, named, kid, lost>>
ClClose(c) ==
    /\ cpc[c] \in {"queued", "open"} /\ cpc' = [cpc EXCEPT ![c] = "closed"]
    /\ UNCHANGED <<spc, starts, cfd, hand, chld, offspring, sem, named, backlog, kid, lost>>

Init ==
    /\ spc = "down" /\ starts = 0 /\ cfd = None /\ hand = FALSE /\ chld = FALSE
    /\ offspring = {} /\ sem = 0 /\ named = FALSE /\ backlog = <<>> /\ lost = 0
    /\ cpc = [c \in Client |-> "idle"] /\ kid = [c \in Client |-> "none"]

Next == \/ SvStart \/ SvStep \/ SvKilled \/ RemoveName
        \/ \E c \in Client : KidExit(c) \/ ClConnect(c) \/ ClClose(c)
Spec == Init /\ [][Next]_vars

\* The server and its children go on; no client need ever close its connection.
FairSpec == Spec /\ WF_vars(SvStep) /\ \A c \in Client : WF_vars(KidExit(c))

-----------------------------------------------------------------------------
(* Properties.                                                             *)

ServerTypes ==
    /\ spc \in {"down", "listen", "sem_open", "sem_unlink", "sem_wait", "accept", "fork"}
    /\ starts \in Nat /\ sem \in Nat /\ lost \in Nat
    /\ hand \in BOOLEAN /\ chld \in BOOLEAN /\ named \in BOOLEAN
ConnectionTypes ==
    /\ cpc \in [Client -> {"idle", "queued", "open", "closed"}]
    /\ kid \in [Client -> {"none", "alive", "dead", "gone"}]
    /\ offspring \subseteq Client
\* A connection waits once, and has no child before it is accepted.
QueueTypes ==
    /\ backlog \in Seq(Client)
    /\ \A k, l \in 1..Len(backlog) : backlog[k] = backlog[l] => k = l
    /\ \A k \in 1..Len(backlog) : kid[backlog[k]] = "none" /\ cpc[backlog[k]] # "idle"
    /\ \A c \in Client : cpc[c] = "idle" => kid[c] = "none"
    /\ spc = "fork" => /\ cfd \in Client /\ kid[cfd] = "none" /\ cpc[cfd] # "idle"
                       /\ \A k \in 1..Len(backlog) : backlog[k] # cfd
\* The server, its semaphore and its children stay within their types: a child
\* has one connection, and a connection one child (echo_sv.c:111).
TypeOK == ServerTypes /\ ConnectionTypes /\ QueueTypes

\* Every place is free, or taken for the next connection, or held by a child not
\* yet reaped, or was lost to a failure of fork() (echo_sv.c:25, 97, 113).
Serving == spc \in {"sem_unlink", "sem_wait", "accept", "fork"}
Taken == IF spc \in {"accept", "fork"} THEN 1 ELSE 0
PlacesAccounted ==
    Serving => sem + Taken + Cardinality(offspring) + lost = MAX_CONNECTIONS

\* A server never serves more than MAX_CONNECTIONS clients at once, and fewer by
\* one for each failure of fork() (echo_sv.c:13).
Alive == {c \in offspring : kid[c] = "alive"}
ConnectionsLimited == Cardinality(Alive) + lost <= MAX_CONNECTIONS

\* No dead child keeps its place: while there is one, SIGCHLD is pending or the
\* handler still runs, however many signals were merged into one (echo_sv.c:23).
NoForgottenChild == Dead # {} => chld \/ hand

\* A connection waits for ever only if every place is held for ever by a client
\* that does not close its connection, or was lost to a failure of fork(): it is
\* never the handler that keeps one back (echo_sv.c:25, 97).
Waits(c) == \E k \in DOMAIN backlog : backlog[k] = c
Full == Cardinality(Alive) + lost = MAX_CONNECTIONS
WaitsOnlyWhenFull == \A c \in Client : <>[]Waits(c) => <>[]Full

\* After a failure of fork() the server goes on with the next client ("May be
\* temporary; try next client", echo_sv.c:116): a connection does not wait for
\* ever at a server that serves nobody.
TriesNextClient == \A c \in Client : <>[]Waits(c) => []<>(Alive # {})
=============================================================================
