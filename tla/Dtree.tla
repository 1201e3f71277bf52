-------------------------------- MODULE Dtree --------------------------------
(***************************************************************************)
(* tlpi-dist/inotify/inotify_dtree.c: a cache of the directories below the *)
(* command line's roots, kept up to date from inotify events, while the    *)
(* processes of rand_dtree.c create, remove and rename directories.        *)
(*                                                                         *)
(* A directory's place is its parent and its name; the kernel gives a      *)
(* watched directory a watch descriptor, and events name the descriptor,   *)
(* not the path.  The cache maps descriptors to paths.  Only directories   *)
(* are modelled: the program ignores the events of other files.            *)
(***************************************************************************)
EXTENDS Integers, Sequences, FiniteSets, SequencesExt

CONSTANTS Root,       \* the directories named on the command line
          Dir,        \* the other directories (inodes)
          Name,       \* the names they take
          Mover,      \* processes that rename
          Top,        \* where the roots are
          Away,       \* a directory outside the monitored trees
          Nowhere,    \* not linked in the filesystem
          InitLoc,    \* the place of each of Dir when the program starts
          QMax,       \* max_queued_events
          BufMax,     \* events that fit the buffer of a read()
          MaxOps      \* bound: changes of the tree and commands typed

All == Root \cup Dir
Gone == <<Nowhere, Nowhere>>

\* At the start the directories form trees: each is in one that exists and is
\* nearer to a root, and no two have the same place.
Linked == {d \in Dir : InitLoc[d] # Gone}
InitForest ==
    /\ \A c, d \in Linked : InitLoc[c] = InitLoc[d] => c = d
    /\ \E depth \in [All -> 0..Cardinality(All)] :
        \A d \in Linked : /\ InitLoc[d][1] \in Root \cup Linked
                          /\ depth[InitLoc[d][1]] < depth[d]

ASSUME DtreeAssumption ==
    /\ Root \cap Dir = {} /\ Root # {} /\ IsFiniteSet(All)
    /\ {Top, Away, Nowhere} \cap (All \cup Name) = {}
    /\ Top # Away /\ Top # Nowhere /\ Away # Nowhere
    /\ InitLoc \in [Dir -> (All \X Name) \cup {Gone}]
    /\ InitForest
    /\ QMax \in Nat \ {0} /\ BufMax \in Nat \ {0, 1}
    /\ MaxOps \in Nat

VARIABLES loc,       \* each directory's place: <<parent, name>>
          moving,    \* each mover: {}, or the rename it is inside of
          ops,       \* changes and commands so far
          watch,     \* kernel: the watch descriptor of each directory, or 0
          nextWd,    \* kernel: the next descriptor of this inotify instance
          queue,     \* kernel: events not yet read
          pc, rset,  \* the program, and what select() reported
          cache,     \* wlCache: pairs of a watch descriptor and a path
          roots,     \* rootDirPaths still monitored
          buf,       \* events read and not yet processed
          firstTry,
          walks,     \* nftw() calls under way: the stack of each
          shaken     \* history: what may have upset the cache since it was built

fs      == <<loc, moving, ops>>
kernel  == <<watch, nextWd, queue>>
program == <<pc, rset, cache, roots, buf, firstTry, walks>>
vars == <<fs, kernel, program, shaken>>

-----------------------------------------------------------------------------
(* The filesystem and inotify.                                             *)

PathOf == LET path[d \in All] == IF loc[d][1] \in All
                                 THEN Append(path[loc[d][1]], loc[d][2]) ELSE loc[d]
          IN  path
Live == {d \in All : loc[d] # Gone}
At(p) == {d \in Live : PathOf[d] = p}
Free(up, n) == \A d \in All : loc[d] # <<up, n>>
Children(d) == {c \in All : loc[c][1] = d}

\* A full queue drops events for one overflow event; an event that repeats the
\* last one is merged with it, IN_IGNORED never.
Overflow == [wd |-> -1, mask |-> "Q_OVERFLOW", name |-> Nowhere, cookie |-> 0]
Merges(q, es) == /\ q # <<>> /\ es # <<>> /\ Len(q) < QMax
                 /\ Head(es) = Last(q) /\ Head(es).mask # "IGNORED"
Post(q, es) ==
    IF Len(q) + Len(es) <= QMax THEN q \o es
    ELSE LET kept == q \o SubSeq(es, 1, QMax - Len(q)) IN
         IF Overflow \in ToSet(kept) THEN kept ELSE Append(kept, Overflow)

\* Several events at once: a single one, one with the IN_IGNORED that follows it,
\* or IN_IGNOREDs, so that no event but the first can repeat its predecessor.
Posts(q, es) == IF Merges(q, es) THEN Post(q, Tail(es)) ELSE Post(q, es)

\* The event of a directory, if it is watched.
Event(d, mask, n, cookie) ==
    IF d \in All /\ watch[d] # 0
    THEN <<[wd |-> watch[d], mask |-> mask, name |-> n, cookie |-> cookie]>> ELSE <<>>
Ignored(wds) ==
    SetToSeq({[wd |-> w, mask |-> "IGNORED", name |-> Nowhere, cookie |-> 0] : w \in wds})

Quiet == pc = "select" /\ queue = <<>> /\ \A m \in Mover : moving[m] = {}

\* rename() holds the directories it renames from and to until its events are
\* queued; renames from one directory to another exclude each other.
Held == UNION {{r.from, r.to} : r \in UNION {moving[m] : m \in Mover}}
Crossing == \E m \in Mover : \E r \in moving[m] : r.from # r.to

Change == pc # "exited" /\ (pc = "command" => ops + 1 < MaxOps) /\ ops < MaxOps /\ ops' = ops + 1

\* History: a directory went while the program walked the tree; it was renamed
\* while the program had something to read; or it was renamed with watched
\* directories in it, and without an event.
Seen(d, es) == es # <<>> \/ \A c \in All : watch[c] # 0 => ~IsPrefix(PathOf[d], PathOf[c])
Shake(quietly) == shaken \cup {x \in {"walk", "rename"} : IF x = "walk" THEN pc = "walk" ELSE ~quietly}

\* A process creates a directory.
Mkdir(d, up, n) ==
    /\ Change
    /\ loc[d] = Gone /\ up \in Live \ Held /\ Free(up, n)
    /\ loc' = [loc EXCEPT ![d] = <<up, n>>]
    /\ queue' = Posts(queue, Event(up, "CREATE", n, 0))
    /\ UNCHANGED <<moving, watch, nextWd, program, shaken>>

\* A process removes an empty directory; its watch goes with it.
Rmdir(d) ==
    /\ Change
    /\ d \in Live /\ Children(d) = {} /\ {d, loc[d][1]} \cap Held = {}
    /\ loc' = [loc EXCEPT ![d] = Gone]
    /\ watch' = [watch EXCEPT ![d] = 0]
    /\ queue' = Posts(queue, Event(d, "DELETE_SELF", Nowhere, 0) \o Event(d, "IGNORED", Nowhere, 0))
    /\ shaken' = Shake(TRUE)
    /\ UNCHANGED <<moving, nextWd, program>>

\* rename() moves the directory and queues IN_MOVED_FROM, then IN_MOVED_TO;
\* events of other processes may come between.
RenameFrom(m, d, up, n) ==
    /\ Change
    /\ moving[m] = {}
    /\ d \in Live \cap Dir /\ up \in (Live \cup {Away}) /\ Free(up, n)
    /\ up \in Live => ~IsPrefix(PathOf[d], PathOf[up])
    /\ {loc[d][1], up} \cap Held = {}
    /\ loc[d][1] # up => ~Crossing
    /\ loc' = [loc EXCEPT ![d] = <<up, n>>]
    /\ moving' = [moving EXCEPT ![m] = {[from |-> loc[d][1], to |-> up, name |-> n, cookie |-> ops']}]
    /\ LET es == Event(loc[d][1], "MOVED_FROM", loc[d][2], ops') IN
       queue' = Posts(queue, es) /\ shaken' = Shake(Quiet /\ Seen(d, es))
    /\ UNCHANGED <<watch, nextWd, program>>
RenameTo(m) ==
    \E r \in moving[m] :
        /\ moving' = [moving EXCEPT ![m] = {}]
        /\ queue' = Posts(queue, Event(r.to, "MOVED_TO", r.name, r.cookie))
        /\ UNCHANGED <<loc, ops, watch, nextWd, program, shaken>>

\* A root is renamed: only a watch with IN_MOVE_SELF tells.
MoveRoot(d) ==
    /\ Change
    /\ d \in Live \cap Root /\ loc[d][1] = Top /\ Free(Away, d)
    /\ loc' = [loc EXCEPT ![d] = <<Away, d>>]
    /\ LET es == Event(d, "MOVE_SELF", Nowhere, 0) IN
       queue' = Posts(queue, es) /\ shaken' = Shake(Quiet /\ Seen(d, es))
    /\ UNCHANGED <<moving, watch, nextWd, program>>

Environment ==
    \/ \E d \in Dir, up \in All, n \in Name : Mkdir(d, up, n)
    \/ \E d \in All : Rmdir(d)
    \/ \E m \in Mover, d \in Dir, up \in All \cup {Away}, n \in Name : RenameFrom(m, d, up, n)
    \/ \E m \in Mover : RenameTo(m)
    \/ \E d \in Root : MoveRoot(d)

-----------------------------------------------------------------------------
(* The cache.                                                              *)

findWatch(wd) == {e \in cache : e[1] = wd}
CachedPath(wd) == (CHOOSE e \in cache : e[1] = wd)[2]
pathnameInCache(p) == \E e \in cache : e[2] = p
Monitored == {d \in Live : PathOf[d][1] = Top /\ <<Top, PathOf[d][2]>> \in roots}
Subtree(p) == {e \in cache : IsPrefix(p, e[2])}
KernelWds == {watch[d] : d \in All} \ {0}

\* Faulty variant of rewriteCachedPaths: only the renamed directory itself.
rewriteCachedPathsOne(old, new) == {IF e[2] = old THEN <<e[1], new>> ELSE e : e \in cache}

rewriteCachedPaths(old, new) ==
    {IF e \in Subtree(old) THEN <<e[1], new \o SubSeq(e[2], Len(old) + 1, Len(e[2]))>> ELSE e : e \in cache}

\* After an event, a walk or a command: the rest of the buffer, or a read
\* that select() announced, or select().
Resume(b, r) == IF b # <<>> THEN "process" ELSE IF r # {} THEN "read" ELSE "select"

\* watchDir: an nftw() of each path; and what else is to be done goes on after it.
StartWalks(paths) == /\ walks' = [k \in DOMAIN paths |-> <<[stage |-> "visit", path |-> paths[k]]>>]
                     /\ pc' = "walk"

\* reinitialize: a new inotify instance, an empty cache, a walk of every root.
\* The rest of the buffer is dropped.
reinitialize(rp) ==
    /\ watch' = [d \in All |-> 0] /\ nextWd' = 1 /\ queue' = <<>>
    /\ cache' = {} /\ buf' = <<>> /\ firstTry' = TRUE
    /\ StartWalks(SetToSeq(rp))
    /\ shaken' = {}

\* Faulty variant of Zap: inotify_rm_watch is not called.
ZapCacheOnly(entries) == cache' = cache \ entries /\ UNCHANGED <<watch, queue>>

\* zapSubtree when every inotify_rm_watch succeeds.
Zap(entries) ==
    LET wds == {e[1] : e \in entries} IN
    /\ cache' = cache \ entries
    /\ watch' = [d \in All |-> IF watch[d] \in wds THEN 0 ELSE watch[d]]
    /\ queue' = Posts(queue, Ignored(wds))
CanZap(entries) == \A e \in entries : e[1] \in KernelWds

-----------------------------------------------------------------------------
(* processNextInotifyEvent.                                                *)

ev == Head(buf)
Full == Append(CachedPath(ev.wd), ev.name)
\* k events of the buffer are done with.
Consume(k) == /\ buf' = SubSeq(buf, k + 1, Len(buf)) /\ firstTry' = TRUE
Done(k) == Consume(k) /\ pc' = Resume(buf', rset) /\ UNCHANGED walks

Processing == pc = "process"
Known == ev.wd # -1 /\ ev.mask # "IGNORED" /\ findWatch(ev.wd) # {}

\* An event of a descriptor that is not cached, or a lost event.
EvRebuild ==
    /\ Processing
    /\ \/ ev.wd # -1 /\ ev.mask # "IGNORED" /\ findWatch(ev.wd) = {}
       \/ ev.mask = "Q_OVERFLOW"
    /\ reinitialize(roots)
    /\ UNCHANGED <<fs, rset, roots>>

EvIgnored ==
    /\ Processing /\ ev.mask = "IGNORED" /\ Done(1)
    /\ UNCHANGED <<fs, kernel, rset, cache, roots, shaken>>

\* A directory appeared: it and what is below it are watched, unless cached.
EvAppeared ==
    /\ Processing /\ Known /\ ev.mask \in {"CREATE", "MOVED_TO"}
    /\ IF pathnameInCache(Full) THEN Done(1) ELSE Consume(1) /\ StartWalks(<<Full>>)
    /\ UNCHANGED <<fs, kernel, rset, cache, roots, shaken>>

\* A watched directory was removed; the last root ends the program.
EvDeleteSelf ==
    /\ Processing /\ Known /\ ev.mask = "DELETE_SELF"
    /\ roots' = roots \ {CachedPath(ev.wd)}
    /\ cache' = cache \ findWatch(ev.wd)
    /\ IF roots' = {} THEN pc' = "exited" /\ UNCHANGED <<buf, firstTry, walks>> ELSE Done(1)
    /\ UNCHANGED <<fs, kernel, rset, shaken>>

Paired == Len(buf) > 1 /\ buf[2].mask = "MOVED_TO" /\ buf[2].cookie = ev.cookie

\* A rename inside the trees: both events are next to each other.
EvRenamed ==
    /\ Processing /\ Known /\ ev.mask = "MOVED_FROM" /\ Paired
    /\ IF findWatch(buf[2].wd) = {}
       THEN reinitialize(roots) /\ UNCHANGED rset
       ELSE /\ cache' = rewriteCachedPaths(Full, Append(CachedPath(buf[2].wd), buf[2].name))
            /\ Done(2)
            /\ UNCHANGED <<kernel, rset, shaken>>
    /\ UNCHANGED <<fs, roots>>

\* A rename out of the trees, or one taken for it.
EvMovedOut ==
    /\ Processing /\ Known /\ ev.mask = "MOVED_FROM" /\ ~Paired
    /\ Len(buf) > 1 \/ ~firstTry
    /\ IF CanZap(Subtree(Full))
       THEN Zap(Subtree(Full)) /\ Done(1) /\ UNCHANGED <<nextWd, shaken>>
       ELSE reinitialize(roots)
    /\ UNCHANGED <<fs, rset, roots>>

\* Faulty variant of EvHanging: firstTry stays set.
EvHangingAlways ==
    /\ Processing /\ Known /\ ev.mask = "MOVED_FROM" /\ Len(buf) = 1 /\ firstTry
    /\ pc' = "again"
    /\ UNCHANGED <<fs, kernel, rset, cache, roots, buf, firstTry, walks, shaken>>

\* It is the last event of the buffer: its IN_MOVED_TO may be in the next read().
EvHanging ==
    /\ Processing /\ Known /\ ev.mask = "MOVED_FROM" /\ Len(buf) = 1 /\ firstTry
    /\ pc' = "again" /\ firstTry' = FALSE
    /\ UNCHANGED <<fs, kernel, rset, cache, roots, buf, walks, shaken>>

\* A root was renamed: it is no longer monitored.
EvMoveSelf ==
    /\ Processing /\ Known /\ ev.mask = "MOVE_SELF"
    /\ LET p == CachedPath(ev.wd) IN
       IF p \notin roots THEN Done(1) /\ UNCHANGED <<kernel, cache, roots, shaken>>
       ELSE /\ roots' = roots \ {p}
            /\ \/ roots' = {} /\ pc' = "exited" /\ UNCHANGED <<kernel, cache, buf, firstTry, walks, shaken>>
               \/ roots' # {} /\ CanZap(Subtree(p)) /\ Zap(Subtree(p)) /\ Done(1) /\ UNCHANGED <<nextWd, shaken>>
               \/ roots' # {} /\ ~CanZap(Subtree(p)) /\ reinitialize(roots')
    /\ UNCHANGED <<fs, rset>>

ProcessEvent == EvRebuild \/ EvIgnored \/ EvAppeared \/ EvDeleteSelf \/ EvRenamed
                \/ EvMovedOut \/ EvHanging \/ EvMoveSelf

-----------------------------------------------------------------------------
(* Reading, walking and commands.                                          *)

Select ==
    /\ pc = "select"
    /\ \E typed \in BOOLEAN :
        /\ typed => ops < MaxOps
        /\ typed \/ queue # <<>>
        /\ rset' = {x \in {"inotify"} : queue # <<>>}
        /\ pc' = IF typed THEN "command" ELSE "read"
    /\ UNCHANGED <<fs, kernel, cache, roots, buf, firstTry, walks, shaken>>

\* read() waits for an event and takes what fits the buffer.
Take(room) == LET n == IF Len(queue) < room THEN Len(queue) ELSE room IN
              /\ buf' = buf \o SubSeq(queue, 1, n)
              /\ queue' = SubSeq(queue, n + 1, Len(queue))
Read ==
    /\ pc = "read" /\ queue # <<>>
    /\ Take(BufMax) /\ firstTry' = TRUE /\ rset' = {} /\ pc' = "process"
    /\ UNCHANGED <<fs, watch, nextWd, cache, roots, walks, shaken>>
\* Faulty variant of ReadAgain: the bytes kept in the buffer are forgotten.
ReadAgainFull ==
    /\ pc \in {"again", "late"}
    /\ \/ queue # <<>> /\ Take(BufMax) /\ pc' = "process"
       \/ pc = "again" /\ pc' \in {"process", "late"} /\ UNCHANGED <<buf, queue>>
    /\ UNCHANGED <<fs, watch, nextWd, rset, cache, roots, firstTry, walks, shaken>>
\* The second read(), which ualarm() interrupts; an alarm that comes before read()
\* is entered interrupts nothing, and read() waits for an event ("late").
ReadAgain ==
    /\ pc \in {"again", "late"}
    /\ \/ queue # <<>> /\ Take(BufMax - Len(buf)) /\ pc' = "process"
       \/ pc = "again" /\ pc' \in {"process", "late"} /\ UNCHANGED <<buf, queue>>
    /\ UNCHANGED <<fs, watch, nextWd, rset, cache, roots, firstTry, walks, shaken>>

\* nftw(): one step of the first walk that is left.
top == Head(Head(walks))
NextWalk(stack) == /\ walks' = IF stack = <<>> THEN Tail(walks) ELSE <<stack>> \o Tail(walks)
                   /\ pc' = IF walks' = <<>> THEN Resume(buf, rset) ELSE "walk"

\* traverseTree: watch the directory; one that has gone is passed over.
WalkVisit ==
    /\ pc = "walk" /\ top.stage = "visit"
    /\ IF At(top.path) = {}
       THEN NextWalk(Tail(Head(walks))) /\ UNCHANGED <<watch, nextWd, cache>>
       ELSE LET d == CHOOSE x \in At(top.path) : TRUE
                wd == IF watch[d] # 0 THEN watch[d] ELSE nextWd
            IN  /\ watch' = [watch EXCEPT ![d] = wd]
                /\ nextWd' = IF watch[d] # 0 THEN nextWd ELSE nextWd + 1
                /\ cache' = IF findWatch(wd) # {} THEN cache ELSE cache \cup {<<wd, top.path>>}
                /\ NextWalk(<<[top EXCEPT !.stage = "list"]>> \o Tail(Head(walks)))
    /\ UNCHANGED <<fs, queue, rset, roots, buf, firstTry, shaken>>
\* Faulty variant of WalkList: the walk does not go down.
WalkListFlat ==
    /\ pc = "walk" /\ top.stage = "list" /\ NextWalk(Tail(Head(walks)))
    /\ UNCHANGED <<fs, kernel, rset, cache, roots, buf, firstTry, shaken>>
\* The entries of the directory, in any order; if it has gone by now nftw() fails.
WalkList ==
    /\ pc = "walk" /\ top.stage = "list"
    /\ IF At(top.path) = {} THEN NextWalk(<<>>)
       ELSE LET d == CHOOSE x \in At(top.path) : TRUE IN
            \E order \in SetToSeqs({[stage |-> "visit", path |-> Append(top.path, loc[c][2])] : c \in Children(d)}) :
                NextWalk(order \o Tail(Head(walks)))
    /\ UNCHANGED <<fs, kernel, rset, cache, roots, buf, firstTry, shaken>>

\* executeCommand.
CmdRebuild == reinitialize(roots) /\ UNCHANGED <<rset, roots>>
\* zapSubtree as the commands call it: a failure leaves the rest of the subtree.
CmdZap(p) ==
    \E part \in SUBSET Subtree(p) :
        /\ CanZap(part) /\ (CanZap(Subtree(p)) => part = Subtree(p))
        /\ Zap(part)
CmdCut(p) ==
    /\ CmdZap(p) /\ shaken' = shaken \cup {"command"}
    /\ pc' = Resume(buf, rset) /\ UNCHANGED <<nextWd, rset, roots, buf, firstTry, walks>>
CmdAdd(p) ==
    /\ CmdZap(p) /\ StartWalks(<<p>>)
    /\ shaken' = shaken \cup {x \in {"command"} : queue # <<>>}
    /\ UNCHANGED <<nextWd, rset, roots, buf, firstTry>>
CmdQuit ==
    /\ pc' = "exited" /\ UNCHANGED <<kernel, rset, cache, roots, buf, firstTry, walks, shaken>>
Command ==
    /\ pc = "command" /\ ops' = ops + 1
    /\ \/ CmdRebuild \/ CmdQuit
       \/ \E p \in {e[2] : e \in cache} \cup {PathOf[d] : d \in Monitored} : CmdCut(p) \/ CmdAdd(p)
    /\ UNCHANGED <<loc, moving>>

Walk == WalkVisit \/ WalkList
Program == Select \/ Read \/ ReadAgain \/ ProcessEvent \/ Walk \/ Command

Init ==
    /\ loc = [d \in All |-> IF d \in Root THEN <<Top, d>> ELSE InitLoc[d]]
    /\ moving = [m \in Mover |-> {}] /\ ops = 0
    /\ watch = [d \in All |-> 0] /\ nextWd = 1 /\ queue = <<>>
    /\ cache = {} /\ roots = {<<Top, d>> : d \in Root}
    /\ buf = <<>> /\ firstTry = TRUE /\ rset = {}
    /\ pc = "walk" /\ shaken = {}
    /\ walks = [k \in 1..Cardinality(Root) |->
                  <<[stage |-> "visit", path |-> SetToSeq({<<Top, d>> : d \in Root})[k]]>>]

Next == Environment \/ Program
Spec == Init /\ [][Next]_vars

\* The program and a rename under way go on; nobody has to change the tree or type.
FairSpec == /\ Spec
            /\ WF_vars(Read) /\ WF_vars(ReadAgain) /\ WF_vars(ProcessEvent)
            /\ WF_vars(Walk) /\ WF_vars(Command)
            /\ WF_vars(queue # <<>> /\ Select) /\ \A m \in Mover : WF_vars(RenameTo(m))

-----------------------------------------------------------------------------
(* Properties.                                                             *)

Events == [wd : Int, mask : {"CREATE", "MOVED_FROM", "MOVED_TO", "DELETE_SELF", "MOVE_SELF",
                             "IGNORED", "Q_OVERFLOW"},
           name : Name \cup {Nowhere}, cookie : 0..MaxOps]

\* Every variable stays within its type, and the buffer within its room
\* (INOTIFY_READ_BUF_LEN): a second read() adds to what is left in it.
TypeOK ==
    /\ loc \in [All -> (All \cup {Top, Away, Nowhere}) \X (Name \cup Root \cup {Nowhere})]
    /\ watch \in [All -> Nat] /\ nextWd \in Nat \ {0}
    /\ queue \in Seq(Events) /\ Len(queue) <= QMax + 1
    /\ buf \in Seq(Events) /\ Len(buf) <= BufMax
    /\ pc \in {"select", "command", "read", "process", "again", "late", "walk", "exited"}
    /\ pc \in {"process", "again", "late"} => buf # <<>>
    /\ rset \subseteq {"inotify"} /\ firstTry \in BOOLEAN
    /\ shaken \subseteq {"rename", "walk", "command"}

\* A watch the kernel dropped with its directory and whose event is to come.
Dying == {e.wd : e \in {x \in ToSet(buf) \cup ToSet(queue) : x.mask = "DELETE_SELF"}}
OverflowAhead == Overflow \in ToSet(buf) \cup ToSet(queue)

\* The cache has one entry for each watch of the kernel, and no other but for
\* directories whose removal is still to be read (inotify_dtree.c:542, 768, 845):
\* no watch is forgotten and no entry outlives its watch unannounced.
WatchesAreCached ==
    /\ KernelWds \subseteq {e[1] : e \in cache}
    /\ \A e \in cache : e[1] \in KernelWds \cup Dying \/ OverflowAhead
    /\ \A e, f \in cache : e[1] = f[1] => e = f

\* When the program has read everything and no rename was made while it was
\* behind, each entry of the cache is a directory's path now
\* ("remains consistent with the filesystem", inotify_dtree.c:23-25).  The
\* commands z, and a while events are unread, are excepted: they put the cache
\* out of step by hand.
NoStaleEntry ==
    Quiet /\ shaken \cap {"rename", "command"} = {} =>
        \A e \in cache : \E d \in Live : watch[d] = e[1] /\ PathOf[d] = e[2]

\* And if besides no directory went under a walk, every directory of
\* the trees is cached, once: mkdir() races are all settled (lines 805-829).  The
\* exceptions are those of NoStaleEntry and a walk that met a removal.
NothingMissed ==
    Quiet /\ shaken = {} => {e[2] : e \in cache} = {PathOf[d] : d \in Monitored}

\* The same when renames raced with the reading of events, though not with a
\* walk: a lost rename is to show as an unknown descriptor and to cost a rebuild (inotify_dtree.c:23-25, 898-903).
RenamesAreFollowed ==
    Quiet /\ shaken \subseteq {"rename"} =>
        {PathOf[d] : d \in Monitored} \subseteq {e[2] : e \in cache}

\* When the trees stop changing the program comes to rest with every event read:
\* rebuilding the cache and reading again end.  It rests in select(), in a read()
\* whose events a rebuild took away, or in a second read() whose alarm came before
\* it was entered, in spite of the timeout (inotify_dtree.c:1142, 1150).
Settles == <>[](pc = "exited" \/ (queue = <<>> /\ pc \in {"select", "read", "late"}))
=============================================================================
