----------------------------- MODULE Dtree_proofs -----------------------------
(***************************************************************************)
(* Proofs about Dtree, for every tree, every number of renaming processes, *)
(* and every size of the kernel's queue and of the program's buffer.       *)
(*                                                                         *)
(* TypeOK and WatchesAreCached are conjuncts of one inductive invariant.   *)
(* What they need besides: a descriptor is never given to two directories, *)
(* an IN_DELETE_SELF still to be read names a descriptor that no directory *)
(* has any more, and the program reads only when its buffer is empty.      *)
(***************************************************************************)
EXTENDS Dtree, FiniteSetTheorems, SequenceTheorems, TLAPS

-----------------------------------------------------------------------------
(* The invariant.                                                          *)

\* A directory that is not a root has one of the names, or no place.
Names ==
    /\ loc \in [All -> (All \cup {Top, Away, Nowhere}) \X (Name \cup Root \cup {Nowhere})]
    /\ \A d \in Dir : loc[d][2] \in Name \cup {Nowhere}

\* A process is inside of one rename at most, which has yet to queue an event of
\* its name and its cookie.
Renames ==
    /\ ops \in Nat
    /\ moving = [m \in Mover |-> moving[m]]
    /\ \A m \in Mover : \A r, q \in moving[m] : r = q
    /\ \A m \in Mover : \A r \in moving[m] : r.name \in Name /\ r.cookie \in 0..MaxOps

\* A queue longer than its limit ends with the overflow event, which comes once.
QueueOK(q) ==
    /\ q \in Seq(Events) /\ Len(q) <= QMax + 1
    /\ Len(q) > QMax => Overflow \in ToSet(q)

\* The program selects and reads with an empty buffer, and processes events
\* while there are any.
Reading ==
    /\ QueueOK(queue)
    /\ buf \in Seq(Events) /\ Len(buf) <= BufMax
    /\ pc \in {"select", "command", "read", "process", "again", "late", "walk", "exited"}
    /\ pc \in {"process", "again", "late"} => buf # <<>>
    /\ pc \in {"select", "read"} => buf = <<>>
    /\ rset \subseteq {"inotify"} /\ firstTry \in BOOLEAN
    /\ shaken \subseteq {"rename", "walk", "command"}

\* The descriptors given out are below the next one, and no two directories share one.
Descriptors ==
    /\ watch \in [All -> Nat] /\ nextWd \in Nat \ {0}
    /\ \A d \in All : watch[d] < nextWd
    /\ \A c, d \in All : watch[c] = watch[d] /\ watch[c] # 0 => c = d

\* A removal still to be read is of a descriptor no directory has or will have.
RemovalsFinal == \A w \in Dying : w \in Nat /\ w < nextWd /\ w \notin KernelWds

\* The cache is a finite set of entries for descriptors given out.
CacheTypes == IsFiniteSet(cache) /\ \A e \in cache : e[1] \in Nat

\* The program's point and what it has read; the kernel's watches and the cache.
State == Names /\ Renames /\ Reading
Books == Descriptors /\ RemovalsFinal /\ CacheTypes /\ WatchesAreCached
IInv == State /\ Books


-----------------------------------------------------------------------------
(* Sequences and the kernel's queue.                                       *)

\* The elements of two sequences put together, and of one with an element more.
LEMMA ConcatElements ==
    ASSUME NEW S, NEW s \in Seq(S), NEW t \in Seq(S)
    PROVE  ToSet(s \o t) = ToSet(s) \cup ToSet(t)
<1>1. s \o t \in Seq(S) /\ DOMAIN (s \o t) = 1..(Len(s) + Len(t))
    BY ConcatProperties, LenProperties
<1>2. \A i \in 1..Len(s) : (s \o t)[i] = s[i]
    BY ConcatProperties, LenProperties
<1>3. \A i \in 1..Len(t) : (s \o t)[i + Len(s)] = t[i]
    BY ConcatProperties, LenProperties
<1>4. ToSet(s) \subseteq ToSet(s \o t)
    BY <1>1, <1>2, LenProperties DEF ToSet
<1>5. ToSet(t) \subseteq ToSet(s \o t)
    <2>. SUFFICES ASSUME NEW i \in 1..Len(t)
                  PROVE  t[i] \in ToSet(s \o t)
        BY LenProperties DEF ToSet
    <2>1. i + Len(s) \in DOMAIN (s \o t)
        BY <1>1, LenProperties
    <2>. QED  BY <2>1, <1>3 DEF ToSet
<1>6. ToSet(s \o t) \subseteq ToSet(s) \cup ToSet(t)
    <2>. SUFFICES ASSUME NEW i \in 1..(Len(s) + Len(t))
                  PROVE  (s \o t)[i] \in ToSet(s) \cup ToSet(t)
        BY <1>1 DEF ToSet
    <2>1. CASE i <= Len(s)
        BY <2>1, <1>2, LenProperties DEF ToSet
    <2>2. CASE i > Len(s)
        <3>1. i - Len(s) \in 1..Len(t) /\ (i - Len(s)) + Len(s) = i
            BY <2>2, LenProperties
        <3>. QED  BY <3>1, <1>3, LenProperties DEF ToSet
    <2>. QED  BY <2>1, <2>2, LenProperties
<1>. QED  BY <1>4, <1>5, <1>6

LEMMA AppendElements ==
    ASSUME NEW S, NEW s \in Seq(S), NEW x \in S
    PROVE  /\ Append(s, x) \in Seq(S) /\ Len(Append(s, x)) = Len(s) + 1
           /\ ToSet(Append(s, x)) = ToSet(s) \cup {x}
<1>1. /\ Append(s, x) \in Seq(S) /\ Len(Append(s, x)) = Len(s) + 1
      /\ \A i \in 1..Len(s) : Append(s, x)[i] = s[i]
      /\ Append(s, x)[Len(s) + 1] = x
    BY AppendProperties
<1>2. DOMAIN s = 1..Len(s) /\ DOMAIN Append(s, x) = 1..(Len(s) + 1) /\ Len(s) \in Nat
    BY <1>1, LenProperties
<1>. QED  BY <1>1, <1>2 DEF ToSet

\* A part of a sequence has some of its elements.
LEMMA PartElements ==
    ASSUME NEW S, NEW s \in Seq(S), NEW m \in Nat \ {0}, NEW n \in Int, n <= Len(s)
    PROVE  /\ SubSeq(s, m, n) \in Seq(S)
           /\ Len(SubSeq(s, m, n)) = (IF m <= n THEN n - m + 1 ELSE 0)
           /\ \A i \in 1..(n - m + 1) : SubSeq(s, m, n)[i] = s[m + i - 1]
           /\ ToSet(SubSeq(s, m, n)) \subseteq ToSet(s)
<1>1. \A i \in m..n : i \in DOMAIN s /\ s[i] \in S
    BY LenProperties, ElementOfSeq
<1>2. /\ SubSeq(s, m, n) \in Seq(S)
      /\ Len(SubSeq(s, m, n)) = (IF m <= n THEN n - m + 1 ELSE 0)
      /\ \A i \in 1..(n - m + 1) : SubSeq(s, m, n)[i] = s[m + i - 1]
    BY <1>1, SubSeqProperties
<1>3. \A i \in DOMAIN SubSeq(s, m, n) : SubSeq(s, m, n)[i] = s[m + i - 1] /\ m + i - 1 \in m..n
    BY <1>2, LenProperties
<1>. QED  BY <1>1, <1>2, <1>3 DEF ToSet

\* The first n elements and the rest are all of them.
LEMMA SplitElements ==
    ASSUME NEW S, NEW s \in Seq(S), NEW n \in Nat, n <= Len(s)
    PROVE  ToSet(s) = ToSet(SubSeq(s, 1, n)) \cup ToSet(SubSeq(s, n + 1, Len(s)))
<1>. DEFINE a == SubSeq(s, 1, n)
            b == SubSeq(s, n + 1, Len(s))
<1>1. /\ a \in Seq(S) /\ Len(a) = n /\ \A i \in 1..n : a[i] = s[i]
      /\ ToSet(a) \subseteq ToSet(s)
    BY PartElements, LenProperties
<1>2. /\ b \in Seq(S) /\ Len(b) = Len(s) - n /\ \A i \in 1..(Len(s) - n) : b[i] = s[n + i]
      /\ ToSet(b) \subseteq ToSet(s)
    BY PartElements, LenProperties
<1>. HIDE DEF a, b
<1>3. ASSUME NEW i \in 1..Len(s) PROVE s[i] \in ToSet(a) \cup ToSet(b)
    <2>1. CASE i <= n
        <3>1. i \in DOMAIN a /\ a[i] = s[i]
            BY <2>1, <1>1, LenProperties
        <3>. QED  BY <3>1 DEF ToSet
    <2>2. CASE i > n
        <3>1. i - n \in 1..(Len(s) - n) /\ n + (i - n) = i
            BY <2>2, LenProperties
        <3>2. i - n \in DOMAIN b /\ b[i - n] = s[i]
            BY <3>1, <1>2, LenProperties
        <3>. QED  BY <3>2 DEF ToSet
    <2>. QED  BY <2>1, <2>2, LenProperties
<1>4. ToSet(s) = {s[i] : i \in 1..Len(s)}
    BY LenProperties DEF ToSet
<1>5. ToSet(s) \subseteq ToSet(a) \cup ToSet(b)
    BY <1>3, <1>4
<1>6. ToSet(s) = ToSet(a) \cup ToSet(b)
    BY <1>5, <1>1, <1>2
<1>. QED  BY <1>6 DEF a, b

\* SetToSeq lists a finite set.
LEMMA ListOfSet ==
    ASSUME NEW S, NEW T, S \subseteq T, IsFiniteSet(S)
    PROVE  /\ SetToSeq(S) \in Seq(T)
           /\ ToSet(SetToSeq(S)) \subseteq S
<1>. DEFINE n == Cardinality(S)
<1>1. n \in Nat
    BY FS_CardinalityType
<1>2. PICK f : f \in Bijection(1..n, S)
    BY FS_CardinalityType DEF ExistsBijection
<1>3. f \in [1..n -> S] /\ IsInjective(f)
    BY <1>2 DEF Bijection, Injection, IsInjective
<1>4. SetToSeq(S) \in [1..n -> S]
    BY <1>3 DEF SetToSeq
<1>5. SetToSeq(S) \in Seq(T)
    BY <1>1, <1>4, SeqDef
<1>6. \A i \in DOMAIN SetToSeq(S) : SetToSeq(S)[i] \in S
    BY <1>4
<1>7. ASSUME NEW s, \A i \in DOMAIN s : s[i] \in S
      PROVE  ToSet(s) \subseteq S
    BY <1>7 DEF ToSet
<1>. QED  BY <1>5, <1>6, <1>7

\* What posting events does to the queue: it stays within its limit and loses
\* nothing; all that is new is an overflow event or was posted; and what was
\* posted is in the queue, or an overflow event.
LEMMA PostFacts ==
    ASSUME NEW q, QueueOK(q), NEW es \in Seq(Events)
    PROVE  /\ QueueOK(Post(q, es))
           /\ ToSet(q) \subseteq ToSet(Post(q, es))
           /\ ToSet(Post(q, es)) \subseteq ToSet(q) \cup ToSet(es) \cup {Overflow}
           /\ ToSet(es) \subseteq ToSet(Post(q, es)) \/ Overflow \in ToSet(Post(q, es))
<1>. DEFINE part == SubSeq(es, 1, QMax - Len(q))
            kept == q \o part
<1>1. /\ q \in Seq(Events) /\ Len(q) \in Nat /\ Len(es) \in Nat /\ QMax \in Nat \ {0}
      /\ Overflow \in Events
    BY LenProperties, DtreeAssumption DEF QueueOK, Overflow, Events
<1>2. CASE Len(q) + Len(es) <= QMax
    <2>1. Post(q, es) = q \o es
        BY <1>2 DEF Post
    <2>2. q \o es \in Seq(Events) /\ Len(q \o es) = Len(q) + Len(es)
        BY <1>1, ConcatProperties
    <2>3. ToSet(q \o es) = ToSet(q) \cup ToSet(es)
        BY <1>1, ConcatElements
    <2>. QED  BY <1>1, <1>2, <2>1, <2>2, <2>3 DEF QueueOK
<1>3. CASE Len(q) + Len(es) > QMax
    <2>1. /\ part \in Seq(Events)
          /\ Len(part) = (IF 1 <= QMax - Len(q) THEN QMax - Len(q) ELSE 0)
          /\ ToSet(part) \subseteq ToSet(es)
        BY <1>1, <1>3, PartElements
    <2>2. Post(q, es) = IF Overflow \in ToSet(kept) THEN kept ELSE Append(kept, Overflow)
        BY <1>1, <1>3 DEF Post
    <2>. HIDE DEF part
    <2>3. kept \in Seq(Events) /\ Len(kept) = Len(q) + Len(part)
        BY <1>1, <2>1, ConcatProperties
    <2>4. ToSet(kept) = ToSet(q) \cup ToSet(part)
        BY <1>1, <2>1, ConcatElements
    <2>5. Len(kept) = QMax \/ (Len(kept) = QMax + 1 /\ Overflow \in ToSet(q))
        BY <1>1, <2>1, <2>3 DEF QueueOK
    <2>. HIDE DEF kept
    <2>6. CASE Overflow \in ToSet(kept)
        <3>1. Post(q, es) = kept
            BY <2>2, <2>6
        <3>. QED  BY <1>1, <2>1, <2>3, <2>4, <2>5, <2>6, <3>1 DEF QueueOK
    <2>7. CASE Overflow \notin ToSet(kept)
        <3>1. Post(q, es) = Append(kept, Overflow)
            BY <2>2, <2>7
        <3>2. Len(kept) = QMax
            BY <2>4, <2>5, <2>7
        <3>3. /\ Append(kept, Overflow) \in Seq(Events)
              /\ Len(Append(kept, Overflow)) = QMax + 1
              /\ ToSet(Append(kept, Overflow)) = ToSet(kept) \cup {Overflow}
            BY <1>1, <2>3, <3>2, AppendElements
        <3>. QED  BY <1>1, <2>1, <2>4, <3>1, <3>3 DEF QueueOK
    <2>. QED  BY <2>6, <2>7
<1>. QED  BY <1>1, <1>2, <1>3

LEMMA PostsFacts ==
    ASSUME NEW q, QueueOK(q), NEW es \in Seq(Events)
    PROVE  /\ QueueOK(Posts(q, es))
           /\ ToSet(q) \subseteq ToSet(Posts(q, es))
           /\ ToSet(Posts(q, es)) \subseteq ToSet(q) \cup ToSet(es) \cup {Overflow}
           /\ ToSet(es) \subseteq ToSet(Posts(q, es)) \/ Overflow \in ToSet(Posts(q, es))
<1>1. CASE ~Merges(q, es)
    BY <1>1, PostFacts DEF Posts
<1>2. CASE Merges(q, es)
    <2>1. /\ q \in Seq(Events) /\ q # <<>> /\ es # <<>>
          /\ Len(q) \in Nat \ {0} /\ Len(es) \in Nat \ {0}
        BY <1>2, EmptySeq DEF Merges, QueueOK
    <2>2. Last(q) = q[Len(q)] /\ Last(q) \in ToSet(q)
        BY <2>1, LenProperties DEF Last, ToSet
    <2>3. /\ Tail(es) = SubSeq(es, 2, Len(es)) /\ Tail(es) \in Seq(Events)
        BY <2>1, TailIsSubSeq, HeadTailProperties
    <2>4. ToSet(es) = ToSet(SubSeq(es, 1, 1)) \cup ToSet(SubSeq(es, 2, Len(es)))
        <3>1. ToSet(es) = ToSet(SubSeq(es, 1, 1)) \cup ToSet(SubSeq(es, 1 + 1, Len(es)))
            BY <2>1, SplitElements
        <3>. QED  BY <3>1
    <2>5. /\ SubSeq(es, 1, 1) \in Seq(Events) /\ Len(SubSeq(es, 1, 1)) = 1
          /\ SubSeq(es, 1, 1)[1] = Head(es)
        BY <2>1, PartElements, LenProperties
    <2>6. ToSet(SubSeq(es, 1, 1)) = {Head(es)}
        BY <2>5, LenProperties DEF ToSet
    <2>7. Head(es) \in ToSet(q)
        BY <1>2, <2>2 DEF Merges
    <2>8. Posts(q, es) = Post(q, Tail(es))
        BY <1>2 DEF Posts
    <2>9. ToSet(es) = {Head(es)} \cup ToSet(Tail(es))
        BY <2>3, <2>4, <2>6
    <2>. DEFINE rest == ToSet(Tail(es))
                after == Post(q, Tail(es))
    <2>10. /\ QueueOK(after)
           /\ ToSet(q) \subseteq ToSet(after)
           /\ ToSet(after) \subseteq ToSet(q) \cup rest \cup {Overflow}
           /\ rest \subseteq ToSet(after) \/ Overflow \in ToSet(after)
        BY <2>3, PostFacts
    <2>11. Posts(q, es) = after /\ ToSet(es) = {Head(es)} \cup rest
        BY <2>8, <2>9
    <2>. HIDE DEF rest, after
    <2>. QED  BY <2>7, <2>10, <2>11
<1>. QED  BY <1>1, <1>2

-----------------------------------------------------------------------------
(* What each kind of step does to the events that are still to be read.    *)

\* The event of a directory is an event, of the descriptor the directory has.
Masks == {"CREATE", "MOVED_FROM", "MOVED_TO", "DELETE_SELF", "MOVE_SELF", "IGNORED"}

LEMMA EventFacts ==
    ASSUME Descriptors, NEW d, NEW mask \in Masks, NEW n \in Name \cup {Nowhere},
           NEW cookie \in 0..MaxOps
    PROVE  /\ Event(d, mask, n, cookie) \in Seq(Events)
           /\ d \in All /\ watch[d] # 0 => Event(d, mask, n, cookie) # <<>>
<1>. DEFINE e == [wd |-> watch[d], mask |-> mask, name |-> n, cookie |-> cookie]
<1>1. CASE d \in All /\ watch[d] # 0
    <2>1. Event(d, mask, n, cookie) = <<e>>
        BY <1>1 DEF Event
    <2>2. e \in Events
        BY <1>1 DEF Events, Descriptors, Masks
    <2>. HIDE DEF e
    <2>3. <<e>> \in Seq(Events) /\ <<e>> # <<>>
        BY <2>2
    <2>. QED  BY <2>1, <2>3
<1>2. CASE ~(d \in All /\ watch[d] # 0)
    BY <1>2, EmptySeq DEF Event
<1>. QED  BY <1>1, <1>2

LEMMA EventElements ==
    ASSUME NEW d, NEW mask, NEW n, NEW cookie, NEW e \in ToSet(Event(d, mask, n, cookie))
    PROVE  /\ e.mask = mask /\ d \in All /\ e.wd = watch[d] /\ watch[d] # 0
           /\ e.name = n /\ e.cookie = cookie
<1>1. CASE d \in All /\ watch[d] # 0
    BY <1>1 DEF Event, ToSet
<1>2. CASE ~(d \in All /\ watch[d] # 0)
    BY <1>2 DEF Event, ToSet
<1>. QED  BY <1>1, <1>2

LEMMA IgnoredFacts ==
    ASSUME NEW wds, IsFiniteSet(wds), \A w \in wds : w \in Nat
    PROVE  /\ Ignored(wds) \in Seq(Events)
           /\ \A e \in ToSet(Ignored(wds)) : e.mask = "IGNORED"
<1>. DEFINE Of(w) == [wd |-> w, mask |-> "IGNORED", name |-> Nowhere, cookie |-> 0]
            S == {Of(w) : w \in wds}
            f == [w \in wds |-> Of(w)]
<1>1. f \in Surjection(wds, S)
    BY DEF Surjection
<1>2. IsFiniteSet(S)
    BY <1>1, FS_Surjection
<1>3. S \subseteq Events
    BY DtreeAssumption DEF Events
<1>4. \A e \in S : e.mask = "IGNORED"
    OBVIOUS
<1>5. Ignored(wds) = SetToSeq(S)
    BY DEF Ignored
<1>. HIDE DEF S
<1>. QED  BY <1>2, <1>3, <1>4, <1>5, ListOfSet

\* Events that announce neither a removal nor a loss come and go without a trace
\* in Dying.
LEMMA SameRemovals ==
    ASSUME \A e \in ToSet(buf) \cup ToSet(queue) :
              e.mask = "DELETE_SELF" \/ e.mask = "Q_OVERFLOW" => e \in ToSet(buf') \cup ToSet(queue'),
           \A e \in ToSet(buf') \cup ToSet(queue') :
              e.mask = "DELETE_SELF" => e \in ToSet(buf) \cup ToSet(queue)
    PROVE  Dying' = Dying /\ (OverflowAhead => OverflowAhead')
<1>1. Overflow.mask = "Q_OVERFLOW"
    BY DEF Overflow
<1>2. OverflowAhead => OverflowAhead'
    BY <1>1 DEF OverflowAhead, Overflow
<1>3. {x \in ToSet(buf') \cup ToSet(queue') : x.mask = "DELETE_SELF"}
          = {x \in ToSet(buf) \cup ToSet(queue) : x.mask = "DELETE_SELF"}
    OBVIOUS
<1>4. Dying' = Dying
    BY <1>3 DEF Dying
<1>. QED  BY <1>2, <1>4

\* The program goes on with its buffer, or reads or selects with an empty one.
LEMMA ResumeFacts ==
    ASSUME NEW b, NEW r
    PROVE  /\ Resume(b, r) \in {"process", "read", "select"}
           /\ Resume(b, r) = "process" => b # <<>>
           /\ Resume(b, r) \in {"read", "select"} => b = <<>>
BY DEF Resume

\* One event of the buffer is done with, or two.
LEMMA ConsumedFacts ==
    ASSUME Reading, buf # <<>>, NEW k \in {1, 2}, k <= Len(buf), Consume(k)
    PROVE  /\ buf' \in Seq(Events) /\ Len(buf') <= BufMax /\ firstTry' = TRUE
           /\ ToSet(buf') \subseteq ToSet(buf)
           /\ k = 1 => ToSet(buf) = ToSet(buf') \cup {ev}
           /\ k = 2 => ToSet(buf) = ToSet(buf') \cup {ev, buf[2]}
           /\ ev \in Events /\ ev \in ToSet(buf)
<1>1. /\ buf \in Seq(Events) /\ Len(buf) \in Nat \ {0} /\ Len(buf) <= BufMax
      /\ DOMAIN buf = 1..Len(buf)
    BY EmptySeq, LenProperties DEF Reading
<1>2. buf' = SubSeq(buf, k + 1, Len(buf)) /\ firstTry' = TRUE
    BY DEF Consume
<1>3. /\ buf' \in Seq(Events) /\ ToSet(buf') \subseteq ToSet(buf)
      /\ Len(buf') = (IF k + 1 <= Len(buf) THEN Len(buf) - (k + 1) + 1 ELSE 0)
    BY <1>1, <1>2, PartElements
<1>4. ToSet(buf) = ToSet(SubSeq(buf, 1, k)) \cup ToSet(buf')
    BY <1>1, <1>2, SplitElements
<1>5. /\ SubSeq(buf, 1, k) \in Seq(Events) /\ Len(SubSeq(buf, 1, k)) = k
      /\ \A i \in 1..k : SubSeq(buf, 1, k)[i] = buf[i]
    <2>1. /\ SubSeq(buf, 1, k) \in Seq(Events)
          /\ Len(SubSeq(buf, 1, k)) = (IF 1 <= k THEN k - 1 + 1 ELSE 0)
          /\ \A i \in 1..(k - 1 + 1) : SubSeq(buf, 1, k)[i] = buf[1 + i - 1]
        BY <1>1, PartElements
    <2>. QED  BY <2>1
<1>6. ev = buf[1] /\ ev \in Events /\ ev \in ToSet(buf)
    BY <1>1, HeadTailProperties DEF ev, ToSet
<1>7. ASSUME k = 1 PROVE ToSet(SubSeq(buf, 1, k)) = {ev}
    BY <1>5, <1>6, <1>7, LenProperties DEF ToSet
<1>8. ASSUME k = 2 PROVE ToSet(SubSeq(buf, 1, k)) = {ev, buf[2]}
    BY <1>5, <1>6, <1>8, LenProperties DEF ToSet
<1>9. Len(buf') <= BufMax
    <2>1. Len(buf') <= Len(buf) /\ Len(buf') \in Nat
        <3>1. \A x \in Nat : \A j \in {1, 2} : LET y == IF j + 1 <= x THEN x - (j + 1) + 1 ELSE 0
                                             IN  y <= x /\ y \in Nat
            OBVIOUS
        <3>. QED  BY <1>1, <1>3, <3>1
    <2>2. BufMax \in Nat
        BY DtreeAssumption
    <2>3. \A x, y, z \in Nat : x <= y /\ y <= z => x <= z
        OBVIOUS
    <2>. QED  BY <1>1, <2>1, <2>2, <2>3
<1>. QED  BY <1>2, <1>3, <1>4, <1>6, <1>7, <1>8, <1>9

-----------------------------------------------------------------------------
(* What each kind of step does to the kernel's watches and to the cache.   *)

\* A step that leaves both alone and loses no removal unread.
LEMMA BooksKept ==
    ASSUME Books, UNCHANGED <<watch, nextWd, cache>>,
           Dying' = Dying, OverflowAhead => OverflowAhead'
    PROVE  Books'
<1>1. Descriptors' /\ RemovalsFinal'
    BY DEF Books, Descriptors, RemovalsFinal, KernelWds
<1>2. CacheTypes' /\ WatchesAreCached'
    BY DEF Books, CacheTypes, WatchesAreCached, KernelWds
<1>. QED  BY <1>1, <1>2 DEF Books

\* Paths change and descriptors do not.
LEMMA BooksRewritten ==
    ASSUME Books, UNCHANGED <<watch, nextWd>>,
           Dying' = Dying, OverflowAhead => OverflowAhead',
           NEW old, NEW new, cache' = rewriteCachedPaths(old, new)
    PROVE  Books'
<1>. DEFINE Re(e) == IF e \in Subtree(old)
                     THEN <<e[1], new \o SubSeq(e[2], Len(old) + 1, Len(e[2]))>> ELSE e
            f == [e \in cache |-> Re(e)]
<1>1. cache' = {Re(e) : e \in cache}
    BY DEF rewriteCachedPaths
<1>2. \A e \in cache : Re(e)[1] = e[1]
    OBVIOUS
<1>3. IsFiniteSet(cache')
    <2>1. f \in Surjection(cache, cache')
        BY <1>1 DEF Surjection
    <2>. QED  BY <2>1, FS_Surjection DEF Books, CacheTypes
<1>. HIDE DEF Re
<1>4. {e[1] : e \in cache'} = {e[1] : e \in cache}
    BY <1>1, <1>2
<1>5. Descriptors' /\ RemovalsFinal' /\ CacheTypes'
    BY <1>1, <1>2, <1>3 DEF Books, Descriptors, RemovalsFinal, CacheTypes, KernelWds
<1>6. WatchesAreCached'
    BY <1>1, <1>2, <1>4 DEF Books, WatchesAreCached, KernelWds
<1>. QED  BY <1>5, <1>6 DEF Books

\* A new inotify instance knows of nothing, and neither does the cache.
LEMMA BooksEmpty ==
    ASSUME watch' = [d \in All |-> 0], nextWd' = 1, queue' = <<>>, buf' = <<>>,
           cache' = {}
    PROVE  Books'
<1>1. KernelWds' = {} /\ Dying' = {}
    BY DEF KernelWds, Dying, ToSet
<1>2. Descriptors'
    BY DEF Descriptors
<1>3. RemovalsFinal' /\ WatchesAreCached'
    BY <1>1 DEF RemovalsFinal, WatchesAreCached
<1>4. CacheTypes'
    BY FS_EmptySet DEF CacheTypes
<1>. QED  BY <1>2, <1>3, <1>4 DEF Books

\* Entries are zapped together with their watches, since no other entry has
\* their descriptors.
LEMMA BooksZapped ==
    ASSUME Books, NEW entries \in SUBSET cache, Zap(entries), UNCHANGED nextWd,
           Dying' = Dying, OverflowAhead => OverflowAhead'
    PROVE  Books'
<1>. DEFINE wds == {e[1] : e \in entries}
<1>1. /\ cache' = cache \ entries
      /\ watch' = [d \in All |-> IF watch[d] \in wds THEN 0 ELSE watch[d]]
    BY DEF Zap
<1>2. \A e \in cache' : e[1] \notin wds
    BY <1>1 DEF Books, WatchesAreCached
<1>. HIDE DEF wds
<1>3. KernelWds' = KernelWds \ wds
    <2>1. ASSUME NEW w \in KernelWds' PROVE w \in KernelWds \ wds
        BY <1>1, <2>1 DEF KernelWds
    <2>2. ASSUME NEW w \in KernelWds \ wds PROVE w \in KernelWds'
        <3>1. PICK d \in All : watch[d] = w /\ w # 0
            BY <2>2 DEF KernelWds
        <3>. QED  BY <1>1, <3>1 DEF KernelWds
    <2>. QED  BY <2>1, <2>2
<1>4. Descriptors'
    BY <1>1 DEF Books, Descriptors
<1>5. RemovalsFinal'
    BY <1>3 DEF Books, RemovalsFinal
<1>6. CacheTypes'
    BY <1>1, FS_Subset DEF Books, CacheTypes
<1>7. WatchesAreCached'
    <2>1. ASSUME NEW w \in KernelWds' PROVE w \in {e[1] : e \in cache'}
        <3>1. PICK e \in cache : e[1] = w
            BY <1>3 DEF Books, WatchesAreCached
        <3>2. e \notin entries
            BY <1>3, <3>1 DEF wds
        <3>. QED  BY <1>1, <3>1, <3>2
    <2>2. ASSUME NEW e \in cache' PROVE e[1] \in KernelWds' \cup Dying' \/ OverflowAhead'
        BY <1>1, <1>2, <1>3 DEF Books, WatchesAreCached
    <2>3. ASSUME NEW e \in cache', NEW f \in cache', e[1] = f[1] PROVE e = f
        BY <1>1, <2>3 DEF Books, WatchesAreCached
    <2>. QED  BY <2>1, <2>2, <2>3 DEF WatchesAreCached
<1>. QED  BY <1>4, <1>5, <1>6, <1>7 DEF Books

\* A watched directory goes: its removal is queued, or lost with an overflow.
LEMMA BooksRemoved ==
    ASSUME Books, NEW d \in All, UNCHANGED <<nextWd, cache>>,
           watch' = [watch EXCEPT ![d] = 0],
           Dying \subseteq Dying', OverflowAhead => OverflowAhead',
           watch[d] # 0 => watch[d] \in Dying' \/ OverflowAhead',
           \A w \in Dying' \ Dying : w = watch[d] /\ watch[d] # 0
    PROVE  Books'
<1>1. /\ watch \in [All -> Nat] /\ nextWd \in Nat \ {0}
      /\ \A c \in All : watch[c] < nextWd
      /\ \A b, c \in All : watch[b] = watch[c] /\ watch[b] # 0 => b = c
    BY DEF Books, Descriptors
<1>2. \A c \in All : watch'[c] = IF c = d THEN 0 ELSE watch[c]
    BY <1>1
<1>3. KernelWds' = KernelWds \ {watch[d]}
    <2>1. ASSUME NEW w \in KernelWds' PROVE w \in KernelWds \ {watch[d]}
        <3>1. PICK c \in All : watch'[c] = w /\ w # 0
            BY <2>1 DEF KernelWds
        <3>. QED  BY <1>1, <1>2, <3>1 DEF KernelWds
    <2>2. ASSUME NEW w \in KernelWds \ {watch[d]} PROVE w \in KernelWds'
        <3>1. PICK c \in All : watch[c] = w /\ w # 0
            BY <2>2 DEF KernelWds
        <3>. QED  BY <1>2, <2>2, <3>1 DEF KernelWds
    <2>. QED  BY <2>1, <2>2
<1>4. Descriptors'
    BY <1>1, <1>2 DEF Descriptors
<1>5. RemovalsFinal'
    BY <1>1, <1>3 DEF Books, RemovalsFinal
<1>6. CacheTypes'
    BY DEF Books, CacheTypes
<1>7. WatchesAreCached'
    <2>1. ASSUME NEW e \in cache' PROVE e[1] \in KernelWds' \cup Dying' \/ OverflowAhead'
        <3>1. e[1] \in KernelWds \cup Dying \/ OverflowAhead
            BY <2>1 DEF Books, WatchesAreCached
        <3>2. CASE e[1] = watch[d] /\ watch[d] # 0
            BY <3>2
        <3>3. CASE e[1] \in KernelWds /\ e[1] # watch[d]
            BY <1>3, <3>3
        <3>4. 0 \notin KernelWds
            BY DEF KernelWds
        <3>. QED  BY <3>1, <3>2, <3>3, <3>4
    <2>. QED  BY <1>3, <2>1 DEF Books, WatchesAreCached
<1>. QED  BY <1>4, <1>5, <1>6, <1>7 DEF Books

\* The removal is read: no directory has the descriptor, and its entry goes.
LEMMA BooksForgotten ==
    ASSUME Books, NEW w \in Dying, UNCHANGED <<watch, nextWd>>,
           cache' = cache \ findWatch(w),
           Dying' \subseteq Dying, Dying \subseteq Dying' \cup {w},
           OverflowAhead => OverflowAhead'
    PROVE  Books'
<1>1. w \notin KernelWds
    BY DEF Books, RemovalsFinal
<1>2. \A e \in cache : e \in cache' <=> e[1] # w
    BY DEF findWatch
<1>3. cache' \subseteq cache
    OBVIOUS
<1>4. KernelWds' = KernelWds
    BY DEF KernelWds
<1>5. Descriptors' /\ RemovalsFinal'
    BY <1>4 DEF Books, Descriptors, RemovalsFinal
<1>6. CacheTypes'
    BY <1>3, FS_Subset DEF Books, CacheTypes
<1>7. WatchesAreCached'
    <2>1. ASSUME NEW v \in KernelWds' PROVE v \in {e[1] : e \in cache'}
        <3>1. PICK e \in cache : e[1] = v
            BY <1>4 DEF Books, WatchesAreCached
        <3>. QED  BY <1>1, <1>2, <1>4, <3>1
    <2>2. ASSUME NEW e \in cache' PROVE e[1] \in KernelWds' \cup Dying' \/ OverflowAhead'
        BY <1>2, <1>3, <1>4 DEF Books, WatchesAreCached
    <2>3. ASSUME NEW e \in cache', NEW f \in cache', e[1] = f[1] PROVE e = f
        BY <1>3, <2>3 DEF Books, WatchesAreCached
    <2>. QED  BY <2>1, <2>2, <2>3 DEF WatchesAreCached
<1>. QED  BY <1>5, <1>6, <1>7 DEF Books

\* A directory is watched: it has its descriptor, or gets the next one.
LEMMA BooksAdded ==
    ASSUME Books, NEW d \in All, NEW wd, NEW path,
           wd = IF watch[d] # 0 THEN watch[d] ELSE nextWd,
           watch' = [watch EXCEPT ![d] = wd],
           nextWd' = IF watch[d] # 0 THEN nextWd ELSE nextWd + 1,
           cache' = IF findWatch(wd) # {} THEN cache ELSE cache \cup {<<wd, path>>},
           UNCHANGED <<buf, queue>>
    PROVE  Books'
<1>1. /\ watch \in [All -> Nat] /\ nextWd \in Nat \ {0}
      /\ \A c \in All : watch[c] < nextWd
      /\ \A b, c \in All : watch[b] = watch[c] /\ watch[b] # 0 => b = c
    BY DEF Books, Descriptors
<1>2. \A c \in All : watch'[c] = IF c = d THEN wd ELSE watch[c]
    BY <1>1
<1>3. wd \in Nat \ {0} /\ wd < nextWd' /\ nextWd <= nextWd' /\ nextWd' \in Nat \ {0}
    BY <1>1
<1>4. Dying' = Dying /\ OverflowAhead' = OverflowAhead
    BY DEF Dying, OverflowAhead
<1>5. KernelWds' = KernelWds \cup {wd}
    <2>1. ASSUME NEW w \in KernelWds' PROVE w \in KernelWds \cup {wd}
        <3>1. PICK c \in All : watch'[c] = w /\ w # 0
            BY <2>1 DEF KernelWds
        <3>. QED  BY <1>2, <3>1 DEF KernelWds
    <2>2. ASSUME NEW w \in KernelWds PROVE w \in KernelWds'
        <3>1. PICK c \in All : watch[c] = w /\ w # 0
            BY <2>2 DEF KernelWds
        <3>. QED  BY <1>2, <3>1 DEF KernelWds
    <2>3. wd \in KernelWds'
        <3>1. watch'[d] = wd
            BY <1>2
        <3>. QED  BY <1>3, <3>1 DEF KernelWds
    <2>. QED  BY <2>1, <2>2, <2>3
<1>6. Descriptors'
    BY <1>1, <1>2, <1>3 DEF Descriptors
<1>7. RemovalsFinal'
    <2>. SUFFICES ASSUME NEW w \in Dying
                  PROVE  w \in Nat /\ w < nextWd' /\ w \notin KernelWds'
        BY <1>4 DEF RemovalsFinal
    <2>1. w \in Nat /\ w < nextWd /\ w \notin KernelWds
        BY DEF Books, RemovalsFinal
    <2>2. watch[d] # 0 => watch[d] \in KernelWds
        BY DEF KernelWds
    <2>. QED  BY <1>1, <1>3, <1>5, <2>1, <2>2
<1>8. /\ CacheTypes' /\ cache \subseteq cache'
      /\ \A e \in cache' : e \in cache \/ (e = <<wd, path>> /\ findWatch(wd) = {})
    <2>1. IsFiniteSet(cache) /\ \A e \in cache : e[1] \in Nat
        BY DEF Books, CacheTypes
    <2>2. CASE findWatch(wd) # {}
        <3>1. cache' = cache
            BY <2>2
        <3>2. CacheTypes'
            BY <3>1 DEF Books, CacheTypes
        <3>. QED  BY <3>1, <3>2
    <2>3. CASE findWatch(wd) = {}
        <3>1. cache' = cache \cup {<<wd, path>>}
            BY <2>3
        <3>2. IsFiniteSet(cache \cup {<<wd, path>>})
            BY <2>1, FS_AddElement
        <3>. QED  BY <1>3, <2>1, <2>3, <3>1, <3>2 DEF CacheTypes
    <2>. QED  BY <2>2, <2>3
<1>9. WatchesAreCached'
    <2>1. \E e \in cache' : e[1] = wd
        <3>1. CASE findWatch(wd) # {}
            <4>1. \E e \in cache : e[1] = wd
                BY <3>1 DEF findWatch
            <4>. QED  BY <1>8, <4>1
        <3>2. CASE findWatch(wd) = {}
            <4>1. <<wd, path>> \in cache' /\ <<wd, path>>[1] = wd
                BY <3>2
            <4>. QED  BY <4>1
        <3>. QED  BY <3>1, <3>2
    <2>2. ASSUME NEW w \in KernelWds' PROVE w \in {e[1] : e \in cache'}
        BY <1>5, <1>8, <2>1 DEF Books, WatchesAreCached
    <2>3. ASSUME NEW e \in cache' PROVE e[1] \in KernelWds' \cup Dying' \/ OverflowAhead'
        BY <1>4, <1>5, <1>8 DEF Books, WatchesAreCached
    <2>4. ASSUME NEW e \in cache', NEW f \in cache', e[1] = f[1] PROVE e = f
        BY <1>8, <2>4 DEF Books, WatchesAreCached, findWatch
    <2>. QED  BY <2>2, <2>3, <2>4 DEF WatchesAreCached
<1>. QED  BY <1>6, <1>7, <1>8, <1>9 DEF Books

-----------------------------------------------------------------------------
(* The other processes.                                                    *)

\* A change queues events other than a removal's.
LEMMA EventsQueued ==
    ASSUME IInv, NEW es \in Seq(Events),
           \A e \in ToSet(es) : e.mask # "DELETE_SELF",
           queue' = Posts(queue, es), UNCHANGED <<watch, nextWd, program>>,
           shaken' \subseteq {"rename", "walk", "command"}
    PROVE  Reading' /\ Books'
<1>1. QueueOK(queue)
    BY DEF IInv, State, Reading
<1>2. /\ QueueOK(queue')
      /\ ToSet(queue) \subseteq ToSet(queue')
      /\ ToSet(queue') \subseteq ToSet(queue) \cup (ToSet(es) \cup {Overflow})
    BY <1>1, PostsFacts
<1>3. /\ UNCHANGED <<pc, rset, cache, buf, firstTry>>
      /\ buf \in Seq(Events)
    BY DEF program, IInv, State, Reading
<1>4. Reading'
    BY <1>2, <1>3 DEF IInv, State, Reading
<1>5. \A e \in ToSet(es) \cup {Overflow} : e.mask # "DELETE_SELF"
    BY DEF Overflow
<1>6. Dying' = Dying /\ (OverflowAhead => OverflowAhead')
    <2>1. ToSet(buf) \cup ToSet(queue) \subseteq ToSet(buf') \cup ToSet(queue')
        BY <1>2, <1>3
    <2>2. ASSUME NEW e \in ToSet(buf') \cup ToSet(queue'), e.mask = "DELETE_SELF"
          PROVE  e \in ToSet(buf) \cup ToSet(queue)
        BY <1>2, <1>3, <1>5, <2>2
    <2>. QED  BY <2>1, <2>2, SameRemovals
<1>7. Books'
    BY <1>3, <1>6, BooksKept DEF IInv
<1>. QED  BY <1>4, <1>7

\* Whatever is renamed or removed, and when, the history stays within its type.
LEMMA ShakeFacts ==
    ASSUME IInv, NEW quietly
    PROVE  Shake(quietly) \subseteq {"rename", "walk", "command"}
BY DEF Shake, IInv, State, Reading

LEMMA MkdirStep ==
    ASSUME IInv, NEW d \in Dir, NEW up \in All, NEW n \in Name, Mkdir(d, up, n)
    PROVE  IInv'
<1>1. /\ loc' = [loc EXCEPT ![d] = <<up, n>>] /\ ops' = ops + 1 /\ UNCHANGED moving
      /\ queue' = Posts(queue, Event(up, "CREATE", n, 0))
      /\ UNCHANGED <<watch, nextWd, program, shaken>>
    BY DEF Mkdir, Change
<1>2. Names'
    BY <1>1 DEF IInv, State, Names, All
<1>3. Renames'
    BY <1>1 DEF IInv, State, Renames
<1>4. /\ Event(up, "CREATE", n, 0) \in Seq(Events)
      /\ \A e \in ToSet(Event(up, "CREATE", n, 0)) : e.mask # "DELETE_SELF"
    <2>1. 0 \in 0..MaxOps /\ n \in Name \cup {Nowhere} /\ "CREATE" \in Masks /\ Descriptors
        BY DtreeAssumption DEF Masks, IInv, Books
    <2>2. Event(up, "CREATE", n, 0) \in Seq(Events)
        BY <2>1, EventFacts
    <2>3. \A e \in ToSet(Event(up, "CREATE", n, 0)) : e.mask = "CREATE"
        BY EventElements
    <2>. QED  BY <2>2, <2>3
<1>5. shaken' \subseteq {"rename", "walk", "command"}
    BY <1>1 DEF IInv, State, Reading
<1>6. Reading' /\ Books'
    BY <1>1, <1>4, <1>5, EventsQueued
<1>. QED  BY <1>2, <1>3, <1>6 DEF IInv, State

LEMMA RmdirStep ==
    ASSUME IInv, NEW d \in All, Rmdir(d)
    PROVE  IInv'
<1>. DEFINE del == Event(d, "DELETE_SELF", Nowhere, 0)
            ign == Event(d, "IGNORED", Nowhere, 0)
<1>1. /\ loc' = [loc EXCEPT ![d] = Gone] /\ ops' = ops + 1 /\ UNCHANGED moving
      /\ watch' = [watch EXCEPT ![d] = 0]
      /\ queue' = Posts(queue, del \o ign)
      /\ shaken' = Shake(TRUE)
      /\ UNCHANGED <<nextWd, pc, rset, cache, buf, firstTry>>
    BY DEF Rmdir, Change, program
<1>2. Names'
    BY <1>1 DEF IInv, State, Names, Gone
<1>3. Renames'
    BY <1>1 DEF IInv, State, Renames
<1>4. /\ del \in Seq(Events)
      /\ \A e \in ToSet(del) : e.mask = "DELETE_SELF" /\ e.wd = watch[d] /\ watch[d] # 0
      /\ watch[d] # 0 => del # <<>>
      /\ ign \in Seq(Events)
      /\ \A e \in ToSet(ign) : e.mask = "IGNORED"
    <2>1. /\ 0 \in 0..MaxOps /\ Descriptors /\ Nowhere \in Name \cup {Nowhere}
          /\ "DELETE_SELF" \in Masks /\ "IGNORED" \in Masks
        BY DtreeAssumption DEF IInv, Books, Masks
    <2>2. del \in Seq(Events) /\ (watch[d] # 0 => del # <<>>)
        BY <2>1, EventFacts
    <2>3. \A e \in ToSet(del) : e.mask = "DELETE_SELF" /\ e.wd = watch[d] /\ watch[d] # 0
        BY EventElements
    <2>4. ign \in Seq(Events)
        BY <2>1, EventFacts
    <2>5. \A e \in ToSet(ign) : e.mask = "IGNORED"
        BY EventElements
    <2>. HIDE DEF del, ign
    <2>. QED  BY <2>2, <2>3, <2>4, <2>5
<1>5. watch[d] # 0 => \E e \in ToSet(del) : TRUE
    BY <1>4, EmptySeq, LenProperties DEF ToSet
<1>. HIDE DEF del, ign
<1>6. del \o ign \in Seq(Events) /\ ToSet(del \o ign) = ToSet(del) \cup ToSet(ign)
    BY <1>4, ConcatProperties, ConcatElements
<1>7. QueueOK(queue) /\ buf \in Seq(Events)
    BY DEF IInv, State, Reading
<1>8. /\ QueueOK(queue')
      /\ ToSet(queue) \subseteq ToSet(queue')
      /\ ToSet(queue') \subseteq ToSet(queue) \cup ToSet(del) \cup ToSet(ign) \cup {Overflow}
      /\ ToSet(del) \subseteq ToSet(queue') \/ Overflow \in ToSet(queue')
    BY <1>1, <1>6, <1>7, PostsFacts
<1>9. Reading'
    BY <1>1, <1>8, ShakeFacts DEF IInv, State, Reading
<1>10. Dying \subseteq Dying' /\ (OverflowAhead => OverflowAhead')
    BY <1>1, <1>8 DEF Dying, OverflowAhead, Overflow
<1>11. ASSUME watch[d] # 0 PROVE watch[d] \in Dying' \/ OverflowAhead'
    <2>1. CASE Overflow \in ToSet(queue')
        BY <2>1 DEF OverflowAhead, Overflow
    <2>2. CASE ToSet(del) \subseteq ToSet(queue')
        <3>1. PICK e \in ToSet(queue') : e.mask = "DELETE_SELF" /\ e.wd = watch[d]
            BY <1>4, <1>5, <1>11, <2>2
        <3>. QED  BY <3>1 DEF Dying
    <2>. QED  BY <1>8, <2>1, <2>2
<1>12. \A w \in Dying' \ Dying : w = watch[d] /\ watch[d] # 0
    <2>. SUFFICES ASSUME NEW w \in Dying', w \notin Dying
                  PROVE  w = watch[d] /\ watch[d] # 0
        OBVIOUS
    <2>1. PICK e \in ToSet(buf') \cup ToSet(queue') : e.mask = "DELETE_SELF" /\ e.wd = w
        BY DEF Dying
    <2>2. e \notin ToSet(buf) \cup ToSet(queue)
        BY <2>1 DEF Dying
    <2>3. e # Overflow
        BY <2>1 DEF Overflow
    <2>. QED  BY <1>1, <1>4, <1>8, <2>1, <2>2, <2>3
<1>13. Books'
    BY <1>1, <1>10, <1>11, <1>12, BooksRemoved DEF IInv
<1>. QED  BY <1>2, <1>3, <1>9, <1>13 DEF IInv, State

LEMMA RenameFromStep ==
    ASSUME IInv, NEW m \in Mover, NEW d \in Dir, NEW up \in All \cup {Away},
           NEW n \in Name, RenameFrom(m, d, up, n)
    PROVE  IInv'
<1>. DEFINE r == [from |-> loc[d][1], to |-> up, name |-> n, cookie |-> ops']
            es == Event(loc[d][1], "MOVED_FROM", loc[d][2], ops')
<1>1. /\ loc' = [loc EXCEPT ![d] = <<up, n>>] /\ ops' = ops + 1 /\ ops < MaxOps
      /\ moving' = [moving EXCEPT ![m] = {r}]
      /\ queue' = Posts(queue, es) /\ shaken' = Shake(Quiet /\ Seen(d, es))
      /\ UNCHANGED <<watch, nextWd, program>>
    BY DEF RenameFrom, Change
<1>2. ops' \in 0..MaxOps /\ ops' \in Nat
    BY <1>1, DtreeAssumption DEF IInv, State, Renames
<1>3. Names'
    BY <1>1 DEF IInv, State, Names, All
<1>4. r.name \in Name /\ r.cookie \in 0..MaxOps
    BY <1>2
<1>5. Renames'
    <2>. HIDE DEF r
    <2>1. \A k \in Mover : moving'[k] = IF k = m THEN {r} ELSE moving[k]
        BY <1>1 DEF IInv, State, Renames
    <2>2. moving' = [k \in Mover |-> moving'[k]]
        BY <1>1 DEF IInv, State, Renames
    <2>. QED  BY <1>2, <1>4, <2>1, <2>2 DEF IInv, State, Renames
<1>6. es \in Seq(Events) /\ \A e \in ToSet(es) : e.mask # "DELETE_SELF"
    <2>1. loc[d][2] \in Name \cup {Nowhere} /\ Descriptors
        BY DEF IInv, State, Names, Books
    <2>2. "MOVED_FROM" \in Masks
        BY DEF Masks
    <2>3. ASSUME NEW c \in 0..MaxOps
          PROVE  Event(loc[d][1], "MOVED_FROM", loc[d][2], c) \in Seq(Events)
        BY <2>1, <2>2, EventFacts
    <2>4. \A e \in ToSet(es) : e.mask = "MOVED_FROM"
        BY EventElements
    <2>. QED  BY <1>2, <2>3, <2>4
<1>. HIDE DEF es
<1>7. Reading' /\ Books'
    BY <1>1, <1>6, ShakeFacts, EventsQueued
<1>. QED  BY <1>3, <1>5, <1>7 DEF IInv, State

LEMMA RenameToStep ==
    ASSUME IInv, NEW m \in Mover, RenameTo(m)
    PROVE  IInv'
<1>1. PICK r \in moving[m] :
          /\ moving' = [moving EXCEPT ![m] = {}]
          /\ queue' = Posts(queue, Event(r.to, "MOVED_TO", r.name, r.cookie))
          /\ UNCHANGED <<loc, ops, watch, nextWd, program, shaken>>
    BY DEF RenameTo
<1>. DEFINE es == Event(r.to, "MOVED_TO", r.name, r.cookie)
<1>2. Names'
    BY <1>1 DEF IInv, State, Names
<1>3. Renames'
    <2>1. \A k \in Mover : moving'[k] = IF k = m THEN {} ELSE moving[k]
        BY <1>1 DEF IInv, State, Renames
    <2>2. moving' = [k \in Mover |-> moving'[k]]
        BY <1>1 DEF IInv, State, Renames
    <2>. QED  BY <1>1, <2>1, <2>2 DEF IInv, State, Renames
<1>4. es \in Seq(Events) /\ \A e \in ToSet(es) : e.mask # "DELETE_SELF"
    <2>1. /\ r.name \in Name \cup {Nowhere} /\ r.cookie \in 0..MaxOps
          /\ Descriptors /\ "MOVED_TO" \in Masks
        BY DEF IInv, State, Renames, Books, Masks
    <2>2. es \in Seq(Events)
        BY <2>1, EventFacts
    <2>3. \A e \in ToSet(es) : e.mask = "MOVED_TO"
        BY EventElements
    <2>. QED  BY <2>2, <2>3
<1>. HIDE DEF es
<1>5. shaken' \subseteq {"rename", "walk", "command"}
    BY <1>1 DEF IInv, State, Reading
<1>6. Reading' /\ Books'
    <2>1. queue' = Posts(queue, es)
        BY <1>1 DEF es
    <2>. QED  BY <1>1, <1>4, <1>5, <2>1, EventsQueued
<1>. QED  BY <1>2, <1>3, <1>6 DEF IInv, State

LEMMA MoveRootStep ==
    ASSUME IInv, NEW d \in Root, MoveRoot(d)
    PROVE  IInv'
<1>. DEFINE es == Event(d, "MOVE_SELF", Nowhere, 0)
<1>1. /\ loc' = [loc EXCEPT ![d] = <<Away, d>>] /\ ops' = ops + 1 /\ UNCHANGED moving
      /\ queue' = Posts(queue, es) /\ shaken' = Shake(Quiet /\ Seen(d, es))
      /\ UNCHANGED <<watch, nextWd, program>>
    BY DEF MoveRoot, Change
<1>2. Names'
    BY <1>1, DtreeAssumption DEF IInv, State, Names, All
<1>3. Renames'
    BY <1>1 DEF IInv, State, Renames
<1>4. es \in Seq(Events) /\ \A e \in ToSet(es) : e.mask # "DELETE_SELF"
    <2>1. /\ 0 \in 0..MaxOps /\ Nowhere \in Name \cup {Nowhere}
          /\ Descriptors /\ "MOVE_SELF" \in Masks
        BY DtreeAssumption DEF IInv, Books, Masks
    <2>2. es \in Seq(Events)
        BY <2>1, EventFacts
    <2>3. \A e \in ToSet(es) : e.mask = "MOVE_SELF"
        BY EventElements
    <2>. QED  BY <2>2, <2>3
<1>. HIDE DEF es
<1>5. Reading' /\ Books'
    BY <1>1, <1>4, ShakeFacts, EventsQueued
<1>. QED  BY <1>2, <1>3, <1>5 DEF IInv, State

LEMMA EnvironmentStep ==
    ASSUME IInv, Environment
    PROVE  IInv'
BY MkdirStep, RmdirStep, RenameFromStep, RenameToStep, MoveRootStep DEF Environment

-----------------------------------------------------------------------------
(* The program: events.                                                    *)

\* A rebuild starts over with everything but the tree and the roots.
LEMMA ReinitStep ==
    ASSUME IInv, NEW rp, reinitialize(rp), UNCHANGED rset
    PROVE  Reading' /\ Books'
<1>1. /\ watch' = [d \in All |-> 0] /\ nextWd' = 1 /\ queue' = <<>>
      /\ cache' = {} /\ buf' = <<>> /\ firstTry' = TRUE /\ pc' = "walk" /\ shaken' = {}
    BY DEF reinitialize, StartWalks
<1>2. Books'
    BY <1>1, BooksEmpty
<1>3. QueueOK(queue') /\ buf' \in Seq(Events) /\ Len(buf') <= BufMax
    <2>1. <<>> \in Seq(Events) /\ Len(<<>>) = 0
        BY EmptySeq
    <2>. QED  BY <1>1, <2>1, DtreeAssumption DEF QueueOK
<1>4. Reading'
    BY <1>1, <1>3 DEF IInv, State, Reading
<1>. QED  BY <1>2, <1>4

\* The tree and the renames under way are not the program's.
LEMMA TreeKept ==
    ASSUME IInv, UNCHANGED fs
    PROVE  Names' /\ Renames'
BY DEF fs, IInv, State, Names, Renames

\* The program's point after the events it has just done with.
LEMMA DoneFacts ==
    ASSUME IInv, Processing, NEW k \in {1, 2}, k <= Len(buf), Done(k), QueueOK(queue'),
           UNCHANGED <<rset>>, shaken' \subseteq {"rename", "walk", "command"}
    PROVE  /\ Reading'
           /\ ToSet(buf') \subseteq ToSet(buf)
           /\ k = 1 => ToSet(buf) = ToSet(buf') \cup {ev}
           /\ k = 2 => ToSet(buf) = ToSet(buf') \cup {ev, buf[2]}
           /\ ev \in ToSet(buf)
<1>1. Reading /\ buf # <<>> /\ Consume(k) /\ pc' = Resume(buf', rset)
    BY DEF IInv, State, Reading, Processing, Done
<1>2. /\ buf' \in Seq(Events) /\ Len(buf') <= BufMax /\ firstTry' = TRUE
      /\ ToSet(buf') \subseteq ToSet(buf)
      /\ k = 1 => ToSet(buf) = ToSet(buf') \cup {ev}
      /\ k = 2 => ToSet(buf) = ToSet(buf') \cup {ev, buf[2]}
      /\ ev \in ToSet(buf)
    BY <1>1, ConsumedFacts
<1>3. Reading'
    BY <1>1, <1>2, ResumeFacts DEF Reading
<1>. QED  BY <1>2, <1>3

\* Processing goes on as long as there is an event.
LEMMA HasEvent ==
    ASSUME IInv, Processing
    PROVE  /\ buf # <<>> /\ buf \in Seq(Events) /\ Len(buf) \in Nat \ {0} /\ 1 <= Len(buf)
           /\ QueueOK(queue) /\ shaken \subseteq {"rename", "walk", "command"}
BY EmptySeq DEF IInv, State, Reading, Processing

\* Events done with that announce neither a removal nor a loss.
Harmless == /\ ToSet(buf') \subseteq ToSet(buf)
            /\ \A e \in ToSet(buf) \ ToSet(buf') : e.mask # "DELETE_SELF" /\ e.mask # "Q_OVERFLOW"

LEMMA HarmlessDone ==
    ASSUME Harmless, ToSet(queue) \subseteq ToSet(queue'),
           \A e \in ToSet(queue') \ ToSet(queue) : e.mask # "DELETE_SELF"
    PROVE  Dying' = Dying /\ (OverflowAhead => OverflowAhead')
<1>1. \A e \in ToSet(buf) \cup ToSet(queue) :
          e.mask = "DELETE_SELF" \/ e.mask = "Q_OVERFLOW" => e \in ToSet(buf') \cup ToSet(queue')
    BY DEF Harmless
<1>2. \A e \in ToSet(buf') \cup ToSet(queue') :
          e.mask = "DELETE_SELF" => e \in ToSet(buf) \cup ToSet(queue)
    BY DEF Harmless
<1>. QED  BY <1>1, <1>2, SameRemovals

LEMMA RebuildStep ==
    ASSUME IInv, EvRebuild
    PROVE  IInv'
BY ReinitStep, TreeKept DEF EvRebuild, IInv, State

LEMMA IgnoredStep ==
    ASSUME IInv, EvIgnored
    PROVE  IInv'
<1>1. /\ Processing /\ ev.mask = "IGNORED" /\ Done(1)
      /\ UNCHANGED <<fs, watch, nextWd, queue, rset, cache, shaken>>
    BY DEF EvIgnored, kernel
<1>2. QueueOK(queue') /\ 1 <= Len(buf) /\ shaken' \subseteq {"rename", "walk", "command"}
    BY <1>1, HasEvent
<1>3. Reading' /\ ToSet(buf) = ToSet(buf') \cup {ev}
    BY <1>1, <1>2, DoneFacts
<1>4. Dying' = Dying /\ (OverflowAhead => OverflowAhead')
    <2>1. Harmless
        BY <1>1, <1>3 DEF Harmless
    <2>. QED  BY <1>1, <2>1, HarmlessDone
<1>5. Books'
    BY <1>1, <1>4, BooksKept DEF IInv
<1>. QED  BY <1>1, <1>3, <1>5, TreeKept DEF IInv, State

LEMMA AppearedStep ==
    ASSUME IInv, EvAppeared
    PROVE  IInv'
<1>1. /\ Processing /\ ev.mask \in {"CREATE", "MOVED_TO"}
      /\ Done(1) \/ (Consume(1) /\ pc' = "walk")
      /\ UNCHANGED <<fs, watch, nextWd, queue, rset, cache, shaken>>
    BY DEF EvAppeared, kernel, StartWalks
<1>2. QueueOK(queue') /\ 1 <= Len(buf) /\ shaken' \subseteq {"rename", "walk", "command"} /\ buf # <<>>
    BY <1>1, HasEvent
<1>3. Reading' /\ ToSet(buf) = ToSet(buf') \cup {ev}
    <2>1. CASE Done(1)
        BY <1>1, <1>2, <2>1, DoneFacts
    <2>2. CASE Consume(1) /\ pc' = "walk"
        <3>1. /\ buf' \in Seq(Events) /\ Len(buf') <= BufMax /\ firstTry' = TRUE
              /\ ToSet(buf) = ToSet(buf') \cup {ev}
            BY <1>2, <2>2, ConsumedFacts DEF IInv, State
        <3>. QED  BY <1>1, <1>2, <2>2, <3>1 DEF IInv, State, Reading
    <2>. QED  BY <1>1, <2>1, <2>2
<1>4. Dying' = Dying /\ (OverflowAhead => OverflowAhead')
    <2>1. Harmless
        BY <1>1, <1>3 DEF Harmless
    <2>. QED  BY <1>1, <2>1, HarmlessDone
<1>5. Books'
    BY <1>1, <1>4, BooksKept DEF IInv
<1>. QED  BY <1>1, <1>3, <1>5, TreeKept DEF IInv, State

LEMMA DeleteSelfStep ==
    ASSUME IInv, EvDeleteSelf
    PROVE  IInv'
<1>1. /\ Processing /\ ev.mask = "DELETE_SELF" /\ cache' = cache \ findWatch(ev.wd)
      /\ \/ pc' = "exited" /\ UNCHANGED <<buf, firstTry>>
         \/ Done(1)
      /\ UNCHANGED <<fs, watch, nextWd, queue, rset, shaken>>
    BY DEF EvDeleteSelf, kernel
<1>2. QueueOK(queue') /\ 1 <= Len(buf) /\ shaken' \subseteq {"rename", "walk", "command"} /\ buf # <<>>
    BY <1>1, HasEvent
<1>3. ev \in ToSet(buf)
    BY <1>1, HasEvent, HeadTailProperties, LenProperties DEF ev, ToSet
<1>4. ev.wd \in Dying
    BY <1>1, <1>3 DEF Dying
<1>5. Reading' /\ ToSet(buf') \subseteq ToSet(buf) /\ ToSet(buf) \subseteq ToSet(buf') \cup {ev}
    <2>1. CASE Done(1)
        BY <1>1, <1>2, <2>1, DoneFacts
    <2>2. CASE pc' = "exited" /\ UNCHANGED <<buf, firstTry>>
        BY <1>1, <2>2 DEF IInv, State, Reading
    <2>. QED  BY <1>1, <2>1, <2>2
<1>6. Dying' \subseteq Dying
    BY <1>1, <1>5 DEF Dying
<1>7. Dying \subseteq Dying' \cup {ev.wd}
    <2>. SUFFICES ASSUME NEW e \in ToSet(buf) \cup ToSet(queue), e.mask = "DELETE_SELF", e # ev
                  PROVE  e.wd \in Dying'
        BY DEF Dying
    <2>1. e \in ToSet(buf') \cup ToSet(queue')
        BY <1>1, <1>5
    <2>. QED  BY <2>1 DEF Dying
<1>8. OverflowAhead => OverflowAhead'
    <2>1. Overflow.mask = "Q_OVERFLOW"
        BY DEF Overflow
    <2>2. ev # Overflow
        BY <1>1, <2>1
    <2>. QED  BY <1>1, <1>5, <2>2 DEF OverflowAhead, Overflow
<1>9. Books'
    BY <1>1, <1>4, <1>6, <1>7, <1>8, BooksForgotten DEF IInv
<1>. QED  BY <1>1, <1>5, <1>9, TreeKept DEF IInv, State

LEMMA RenamedStep ==
    ASSUME IInv, EvRenamed
    PROVE  IInv'
<1>1. /\ Processing /\ ev.mask = "MOVED_FROM" /\ Len(buf) > 1 /\ buf[2].mask = "MOVED_TO"
      /\ UNCHANGED fs
    BY DEF EvRenamed, Paired
<1>2. CASE findWatch(buf[2].wd) = {}
    BY <1>1, <1>2, ReinitStep, TreeKept DEF EvRenamed, IInv, State
<1>3. CASE findWatch(buf[2].wd) # {}
    <2>1. /\ cache' = rewriteCachedPaths(Full, Append(CachedPath(buf[2].wd), buf[2].name))
          /\ Done(2)
          /\ UNCHANGED <<watch, nextWd, queue, rset, shaken>>
        BY <1>3 DEF EvRenamed, kernel
    <2>2. QueueOK(queue') /\ shaken' \subseteq {"rename", "walk", "command"} /\ Len(buf) \in Nat
        BY <1>1, <2>1, HasEvent
    <2>3. 2 <= Len(buf)
        BY <1>1, <2>2
    <2>4. Reading' /\ ToSet(buf) = ToSet(buf') \cup {ev, buf[2]}
        BY <1>1, <2>1, <2>2, <2>3, DoneFacts
    <2>5. Dying' = Dying /\ (OverflowAhead => OverflowAhead')
        <3>1. Harmless
            BY <1>1, <2>4 DEF Harmless
        <3>. QED  BY <2>1, <3>1, HarmlessDone
    <2>6. Books'
        BY <2>1, <2>5, BooksRewritten DEF IInv
    <2>. QED  BY <1>1, <2>4, <2>6, TreeKept DEF IInv, State
<1>. QED  BY <1>2, <1>3

\* Zapping a part of the cache queues an IN_IGNORED for each watch removed.
LEMMA ZapFacts ==
    ASSUME IInv, NEW entries \in SUBSET cache, Zap(entries)
    PROVE  /\ QueueOK(queue')
           /\ ToSet(queue) \subseteq ToSet(queue')
           /\ \A e \in ToSet(queue') \ ToSet(queue) : e.mask # "DELETE_SELF"
<1>. DEFINE wds == {e[1] : e \in entries}
            f == [e \in entries |-> e[1]]
<1>1. IsFiniteSet(entries) /\ \A e \in entries : e[1] \in Nat
    BY FS_Subset DEF IInv, Books, CacheTypes
<1>2. f \in Surjection(entries, wds)
    BY DEF Surjection
<1>3. IsFiniteSet(wds)
    BY <1>1, <1>2, FS_Surjection
<1>4. \A w \in wds : w \in Nat
    BY <1>1
<1>5. queue' = Posts(queue, Ignored(wds))
    BY DEF Zap
<1>. HIDE DEF wds
<1>6. Ignored(wds) \in Seq(Events) /\ \A e \in ToSet(Ignored(wds)) : e.mask = "IGNORED"
    BY <1>3, <1>4, IgnoredFacts
<1>7. /\ QueueOK(queue')
      /\ ToSet(queue) \subseteq ToSet(queue')
      /\ ToSet(queue') \subseteq ToSet(queue) \cup ToSet(Ignored(wds)) \cup {Overflow}
    <2>1. QueueOK(queue)
        BY DEF IInv, State, Reading
    <2>. QED  BY <1>5, <1>6, <2>1, PostsFacts
<1>8. Overflow.mask # "DELETE_SELF"
    BY DEF Overflow
<1>. QED  BY <1>6, <1>7, <1>8

\* An event ends with a subtree zapped.
LEMMA ZapDone ==
    ASSUME IInv, Processing, ev.mask \in {"MOVED_FROM", "MOVE_SELF"},
           NEW entries \in SUBSET cache, Zap(entries), Done(1),
           UNCHANGED <<nextWd, rset, shaken>>
    PROVE  Reading' /\ Books'
<1>1. /\ QueueOK(queue')
      /\ ToSet(queue) \subseteq ToSet(queue')
      /\ \A e \in ToSet(queue') \ ToSet(queue) : e.mask # "DELETE_SELF"
    BY ZapFacts
<1>2. shaken' \subseteq {"rename", "walk", "command"} /\ 1 <= Len(buf)
    BY HasEvent
<1>3. Reading' /\ ToSet(buf) = ToSet(buf') \cup {ev}
    BY <1>1, <1>2, DoneFacts
<1>4. Dying' = Dying /\ (OverflowAhead => OverflowAhead')
    <2>1. Harmless
        BY <1>3 DEF Harmless
    <2>. QED  BY <1>1, <2>1, HarmlessDone
<1>5. Books'
    BY <1>4, BooksZapped DEF IInv
<1>. QED  BY <1>3, <1>5

LEMMA MovedOutStep ==
    ASSUME IInv, EvMovedOut
    PROVE  IInv'
<1>1. Processing /\ ev.mask = "MOVED_FROM" /\ UNCHANGED <<fs, rset>>
    BY DEF EvMovedOut
<1>2. CASE CanZap(Subtree(Full))
    <2>1. Zap(Subtree(Full)) /\ Done(1) /\ UNCHANGED <<nextWd, shaken>>
        BY <1>2 DEF EvMovedOut
    <2>2. Subtree(Full) \in SUBSET cache
        BY DEF Subtree
    <2>. QED  BY <1>1, <2>1, <2>2, ZapDone, TreeKept DEF IInv, State
<1>3. CASE ~CanZap(Subtree(Full))
    BY <1>1, <1>3, ReinitStep, TreeKept DEF EvMovedOut, IInv, State
<1>. QED  BY <1>2, <1>3

LEMMA HangingStep ==
    ASSUME IInv, EvHanging
    PROVE  IInv'
<1>1. /\ Processing /\ pc' = "again" /\ firstTry' = FALSE
      /\ UNCHANGED <<fs, watch, nextWd, queue, rset, cache, buf, shaken>>
    BY DEF EvHanging, kernel
<1>2. Reading'
    BY <1>1, HasEvent DEF IInv, State, Reading
<1>3. Dying' = Dying /\ OverflowAhead' = OverflowAhead
    BY <1>1 DEF Dying, OverflowAhead
<1>4. Books'
    BY <1>1, <1>3, BooksKept DEF IInv
<1>. QED  BY <1>1, <1>2, <1>4, TreeKept DEF IInv, State

LEMMA MoveSelfStep ==
    ASSUME IInv, EvMoveSelf
    PROVE  IInv'
<1>. DEFINE p == CachedPath(ev.wd)
<1>1. Processing /\ ev.mask = "MOVE_SELF" /\ UNCHANGED <<fs, rset>>
    BY DEF EvMoveSelf
<1>2. \/ Done(1) /\ UNCHANGED <<kernel, cache, shaken>>
      \/ pc' = "exited" /\ UNCHANGED <<kernel, cache, buf, firstTry, shaken>>
      \/ Zap(Subtree(p)) /\ Done(1) /\ UNCHANGED <<nextWd, shaken>>
      \/ reinitialize(roots')
    BY DEF EvMoveSelf
<1>3. Names' /\ Renames'
    BY <1>1, TreeKept
<1>4. QueueOK(queue) /\ 1 <= Len(buf) /\ shaken \subseteq {"rename", "walk", "command"}
    BY <1>1, HasEvent
<1>5. CASE Done(1) /\ UNCHANGED <<kernel, cache, shaken>>
    <2>1. UNCHANGED <<watch, nextWd, queue, cache, shaken>>
        BY <1>5 DEF kernel
    <2>2. Reading' /\ ToSet(buf) = ToSet(buf') \cup {ev}
        BY <1>1, <1>4, <1>5, <2>1, DoneFacts
    <2>3. Dying' = Dying /\ (OverflowAhead => OverflowAhead')
        <3>1. Harmless
            BY <1>1, <2>2 DEF Harmless
        <3>. QED  BY <2>1, <3>1, HarmlessDone
    <2>. QED  BY <1>3, <2>1, <2>2, <2>3, BooksKept DEF IInv, State
<1>6. CASE pc' = "exited" /\ UNCHANGED <<kernel, cache, buf, firstTry, shaken>>
    <2>1. UNCHANGED <<watch, nextWd, queue, cache, buf, shaken, rset, firstTry>>
        BY <1>1, <1>6 DEF kernel
    <2>2. Reading'
        BY <1>6, <2>1 DEF IInv, State, Reading
    <2>3. Dying' = Dying /\ OverflowAhead' = OverflowAhead
        BY <2>1 DEF Dying, OverflowAhead
    <2>. QED  BY <1>3, <2>1, <2>2, <2>3, BooksKept DEF IInv, State
<1>7. CASE Zap(Subtree(p)) /\ Done(1) /\ UNCHANGED <<nextWd, shaken>>
    <2>1. Subtree(p) \in SUBSET cache
        BY DEF Subtree
    <2>. QED  BY <1>1, <1>3, <1>7, <2>1, ZapDone DEF IInv, State
<1>8. CASE reinitialize(roots')
    <2>1. \A rp : reinitialize(rp) => Reading' /\ Books'
        BY <1>1, ReinitStep
    <2>. QED  BY <1>3, <1>8, <2>1 DEF IInv, State
<1>. QED  BY <1>2, <1>5, <1>6, <1>7, <1>8

LEMMA ProcessStep ==
    ASSUME IInv, ProcessEvent
    PROVE  IInv'
BY RebuildStep, IgnoredStep, AppearedStep, DeleteSelfStep, RenamedStep, MovedOutStep,
   HangingStep, MoveSelfStep DEF ProcessEvent

-----------------------------------------------------------------------------
(* The program: reading, walking and commands.                             *)

LEMMA SelectStep ==
    ASSUME IInv, Select
    PROVE  IInv'
<1>1. /\ pc = "select" /\ pc' \in {"command", "read"} /\ rset' \subseteq {"inotify"}
      /\ UNCHANGED <<fs, watch, nextWd, queue, cache, buf, firstTry, shaken>>
    BY DEF Select, kernel
<1>2. Reading'
    BY <1>1 DEF IInv, State, Reading
<1>3. Dying' = Dying /\ OverflowAhead' = OverflowAhead
    BY <1>1 DEF Dying, OverflowAhead
<1>4. Books'
    BY <1>1, <1>3, BooksKept DEF IInv
<1>. QED  BY <1>1, <1>2, <1>4, TreeKept DEF IInv, State

\* A read() moves events from the queue to the buffer, as many as there is room for.
LEMMA TakeFacts ==
    ASSUME Reading, NEW room \in Nat, Len(buf) + room <= BufMax, Take(room)
    PROVE  /\ buf' \in Seq(Events) /\ Len(buf') <= BufMax /\ Len(buf') >= Len(buf)
           /\ room > 0 /\ queue # <<>> => buf' # <<>>
           /\ QueueOK(queue')
           /\ ToSet(buf') \cup ToSet(queue') = ToSet(buf) \cup ToSet(queue)
<1>. DEFINE n == IF Len(queue) < room THEN Len(queue) ELSE room
            taken == SubSeq(queue, 1, n)
            rest == SubSeq(queue, n + 1, Len(queue))
<1>1. /\ buf \in Seq(Events) /\ queue \in Seq(Events)
      /\ Len(buf) \in Nat /\ Len(queue) \in Nat /\ Len(queue) <= QMax + 1
      /\ Len(queue) > QMax => Overflow \in ToSet(queue)
      /\ QMax \in Nat /\ BufMax \in Nat
    BY LenProperties, DtreeAssumption DEF Reading, QueueOK
<1>2. buf' = buf \o taken /\ queue' = rest
    BY DEF Take
<1>3. n \in Nat /\ n <= Len(queue) /\ n <= room /\ (room > 0 /\ Len(queue) > 0 => n > 0)
    BY <1>1
<1>. HIDE DEF n
<1>4. taken \in Seq(Events) /\ Len(taken) = n
    BY <1>1, <1>3, PartElements
<1>5. rest \in Seq(Events) /\ Len(rest) = Len(queue) - n
    BY <1>1, <1>3, PartElements
<1>6. ToSet(queue) = ToSet(taken) \cup ToSet(rest)
    BY <1>1, <1>3, SplitElements
<1>7. n = 0 => rest = queue
    BY <1>1, SubSeqFull
<1>. HIDE DEF taken, rest
<1>8. /\ buf \o taken \in Seq(Events) /\ Len(buf \o taken) = Len(buf) + n
      /\ ToSet(buf \o taken) = ToSet(buf) \cup ToSet(taken)
    BY <1>1, <1>4, ConcatProperties, ConcatElements
<1>9. QueueOK(queue')
    <2>1. CASE n = 0
        BY <1>1, <1>2, <1>7, <2>1 DEF QueueOK
    <2>2. CASE n > 0
        BY <1>1, <1>2, <1>3, <1>5, <2>2 DEF QueueOK
    <2>. QED  BY <1>3, <2>1, <2>2
<1>10. buf' \in Seq(Events) /\ Len(buf') = Len(buf) + n
    BY <1>2, <1>8
<1>11. room > 0 /\ queue # <<>> => buf' # <<>>
    <2>1. queue # <<>> => Len(queue) > 0
        BY <1>1, EmptySeq
    <2>2. Len(<<>>) = 0
        BY EmptySeq
    <2>. QED  BY <1>1, <1>3, <1>10, <2>1, <2>2
<1>. QED  BY <1>1, <1>2, <1>3, <1>6, <1>8, <1>9, <1>10, <1>11

LEMMA ReadStep ==
    ASSUME IInv, Read
    PROVE  IInv'
<1>1. /\ pc = "read" /\ queue # <<>> /\ Take(BufMax) /\ firstTry' = TRUE /\ rset' = {} /\ pc' = "process"
      /\ UNCHANGED <<fs, watch, nextWd, cache, shaken>>
    BY DEF Read
<1>2. Reading /\ buf = <<>> /\ Len(buf) = 0
    BY <1>1, EmptySeq DEF IInv, State, Reading
<1>3. BufMax \in Nat /\ BufMax > 0
    BY DtreeAssumption
<1>4. /\ buf' \in Seq(Events) /\ Len(buf') <= BufMax /\ buf' # <<>> /\ QueueOK(queue')
      /\ ToSet(buf') \cup ToSet(queue') = ToSet(buf) \cup ToSet(queue)
    BY <1>1, <1>2, <1>3, TakeFacts
<1>5. Reading'
    BY <1>1, <1>2, <1>4 DEF Reading
<1>6. Dying' = Dying /\ (OverflowAhead => OverflowAhead')
    BY <1>4, SameRemovals
<1>7. Books'
    BY <1>1, <1>6, BooksKept DEF IInv
<1>. QED  BY <1>1, <1>5, <1>7, TreeKept DEF IInv, State

LEMMA ReadAgainStep ==
    ASSUME IInv, ReadAgain
    PROVE  IInv'
<1>1. /\ pc \in {"again", "late"} /\ pc' \in {"process", "late"}
      /\ Take(BufMax - Len(buf)) \/ UNCHANGED <<buf, queue>>
      /\ UNCHANGED <<fs, watch, nextWd, rset, cache, firstTry, shaken>>
    BY DEF ReadAgain
<1>2. /\ Reading /\ buf \in Seq(Events) /\ buf # <<>> /\ Len(buf) \in Nat \ {0} /\ Len(buf) <= BufMax
      /\ QueueOK(queue)
    BY <1>1, EmptySeq DEF IInv, State, Reading
<1>3. BufMax - Len(buf) \in Nat /\ Len(buf) + (BufMax - Len(buf)) <= BufMax
    BY <1>2, DtreeAssumption
<1>4. /\ buf' \in Seq(Events) /\ Len(buf') <= BufMax /\ buf' # <<>> /\ QueueOK(queue')
      /\ ToSet(buf') \cup ToSet(queue') = ToSet(buf) \cup ToSet(queue)
    <2>1. CASE Take(BufMax - Len(buf))
        <3>1. /\ buf' \in Seq(Events) /\ Len(buf') <= BufMax /\ Len(buf') >= Len(buf) /\ QueueOK(queue')
              /\ ToSet(buf') \cup ToSet(queue') = ToSet(buf) \cup ToSet(queue)
            BY <1>2, <1>3, <2>1, TakeFacts
        <3>. QED  BY <1>2, <3>1, EmptySeq
    <2>2. CASE UNCHANGED <<buf, queue>>
        BY <1>2, <2>2
    <2>. QED  BY <1>1, <2>1, <2>2
<1>5. Reading'
    BY <1>1, <1>2, <1>4 DEF Reading
<1>6. Dying' = Dying /\ (OverflowAhead => OverflowAhead')
    BY <1>4, SameRemovals
<1>7. Books'
    BY <1>1, <1>6, BooksKept DEF IInv
<1>. QED  BY <1>1, <1>5, <1>7, TreeKept DEF IInv, State

\* A walk leaves the events alone; it goes on, or the program does.
LEMMA WalkFacts ==
    ASSUME IInv, NEW stack, NextWalk(stack), UNCHANGED <<queue, rset, buf, firstTry, shaken>>
    PROVE  Reading'
BY ResumeFacts DEF NextWalk, IInv, State, Reading

LEMMA WalkVisitStep ==
    ASSUME IInv, WalkVisit
    PROVE  IInv'
<1>1. UNCHANGED <<fs, queue, rset, buf, firstTry, shaken>>
    BY DEF WalkVisit
<1>2. CASE At(top.path) = {}
    <2>1. NextWalk(Tail(Head(walks))) /\ UNCHANGED <<watch, nextWd, cache>>
        BY <1>2 DEF WalkVisit
    <2>2. Dying' = Dying /\ OverflowAhead' = OverflowAhead
        BY <1>1 DEF Dying, OverflowAhead
    <2>3. Reading'
        BY <1>1, <2>1, WalkFacts
    <2>. QED  BY <1>1, <2>1, <2>2, <2>3, BooksKept, TreeKept DEF IInv, State
<1>3. CASE At(top.path) # {}
    <2>. DEFINE d == CHOOSE x \in At(top.path) : TRUE
                wd == IF watch[d] # 0 THEN watch[d] ELSE nextWd
    <2>1. /\ watch' = [watch EXCEPT ![d] = wd]
          /\ nextWd' = IF watch[d] # 0 THEN nextWd ELSE nextWd + 1
          /\ cache' = IF findWatch(wd) # {} THEN cache ELSE cache \cup {<<wd, top.path>>}
          /\ NextWalk(<<[top EXCEPT !.stage = "list"]>> \o Tail(Head(walks)))
        BY <1>3 DEF WalkVisit
    <2>2. d \in All
        BY <1>3 DEF At, Live
    <2>3. wd = IF watch[d] # 0 THEN watch[d] ELSE nextWd
        OBVIOUS
    <2>4. Reading'
        BY <1>1, <2>1, WalkFacts
    <2>. HIDE DEF d, wd
    <2>5. Books'
        BY <1>1, <2>1, <2>2, <2>3, BooksAdded DEF IInv
    <2>. QED  BY <1>1, <2>4, <2>5, TreeKept DEF IInv, State
<1>. QED  BY <1>2, <1>3

LEMMA WalkListStep ==
    ASSUME IInv, WalkList
    PROVE  IInv'
<1>1. UNCHANGED <<fs, watch, nextWd, queue, rset, cache, buf, firstTry, shaken>>
    BY DEF WalkList, kernel
<1>2. PICK stack : NextWalk(stack)
    BY DEF WalkList
<1>3. Reading'
    BY <1>1, <1>2, WalkFacts
<1>4. Dying' = Dying /\ OverflowAhead' = OverflowAhead
    BY <1>1 DEF Dying, OverflowAhead
<1>. QED  BY <1>1, <1>3, <1>4, BooksKept, TreeKept DEF IInv, State

\* A command that zaps, wholly or in part.
LEMMA CommandZapped ==
    ASSUME IInv, NEW p, CmdZap(p), UNCHANGED <<nextWd, rset, buf, firstTry>>,
           \/ pc' = Resume(buf, rset)
           \/ pc' = "walk",
           shaken' \subseteq {"rename", "walk", "command"}
    PROVE  Reading' /\ Books'
<1>1. PICK part \in SUBSET cache : Zap(part)
    BY DEF CmdZap, Subtree
<1>2. /\ QueueOK(queue')
      /\ ToSet(queue) \subseteq ToSet(queue')
      /\ \A e \in ToSet(queue') \ ToSet(queue) : e.mask # "DELETE_SELF"
    BY <1>1, ZapFacts
<1>3. Reading'
    BY <1>2, ResumeFacts DEF IInv, State, Reading
<1>4. Dying' = Dying /\ (OverflowAhead => OverflowAhead')
    <2>1. Harmless
        BY DEF Harmless
    <2>. QED  BY <1>2, <2>1, HarmlessDone
<1>5. Books'
    BY <1>1, <1>4, BooksZapped DEF IInv
<1>. QED  BY <1>3, <1>5

LEMMA CommandStep ==
    ASSUME IInv, Command
    PROVE  IInv'
<1>1. ops' = ops + 1 /\ UNCHANGED <<loc, moving>>
    BY DEF Command
<1>2. Names' /\ Renames'
    BY <1>1 DEF IInv, State, Names, Renames
<1>3. shaken \subseteq {"rename", "walk", "command"}
    BY DEF IInv, State, Reading
<1>4. CASE CmdRebuild
    BY <1>2, <1>4, ReinitStep DEF CmdRebuild, IInv, State
<1>5. CASE CmdQuit
    <2>1. pc' = "exited" /\ UNCHANGED <<watch, nextWd, queue, rset, cache, buf, firstTry, shaken>>
        BY <1>5 DEF CmdQuit, kernel
    <2>2. Reading'
        BY <2>1 DEF IInv, State, Reading
    <2>3. Dying' = Dying /\ OverflowAhead' = OverflowAhead
        BY <2>1 DEF Dying, OverflowAhead
    <2>. QED  BY <1>2, <2>1, <2>2, <2>3, BooksKept DEF IInv, State
<1>6. ASSUME NEW p, CmdCut(p) PROVE IInv'
    BY <1>2, <1>3, <1>6, CommandZapped DEF CmdCut, IInv, State
<1>7. ASSUME NEW p, CmdAdd(p) PROVE IInv'
    BY <1>2, <1>3, <1>7, CommandZapped DEF CmdAdd, StartWalks, IInv, State
<1>. QED  BY <1>4, <1>5, <1>6, <1>7 DEF Command

-----------------------------------------------------------------------------
(* The theorems.                                                           *)

LEMMA InitInv ==
    ASSUME Init
    PROVE  IInv
<1>1. Names
    <2>1. loc = [d \in All |-> IF d \in Root THEN <<Top, d>> ELSE InitLoc[d]]
        BY DEF Init
    <2>2. \A d \in Dir : InitLoc[d] \in (All \X Name) \cup {Gone}
        BY DtreeAssumption
    <2>3. \A d \in Dir : d \notin Root
        BY DtreeAssumption
    <2>4. \A d \in Dir : loc[d] = InitLoc[d]
        BY <2>1, <2>3 DEF All
    <2>5. \A d \in Root : loc[d] = <<Top, d>>
        BY <2>1 DEF All
    <2>6. \A d \in Dir : loc[d][2] \in Name \cup {Nowhere}
        BY <2>2, <2>4 DEF Gone
    <2>7. \A d \in All : loc[d] \in (All \cup {Top, Away, Nowhere}) \X (Name \cup Root \cup {Nowhere})
        BY <2>2, <2>4, <2>5 DEF All, Gone
    <2>. QED  BY <2>1, <2>6, <2>7 DEF Names
<1>2. Renames
    BY DEF Init, Renames
<1>3. Reading
    <2>1. <<>> \in Seq(Events) /\ Len(<<>>) = 0
        BY EmptySeq
    <2>. QED  BY <2>1, DtreeAssumption DEF Init, Reading, QueueOK
<1>4. KernelWds = {} /\ Dying = {}
    BY DEF Init, KernelWds, Dying, ToSet
<1>5. Descriptors
    BY DEF Init, Descriptors
<1>6. RemovalsFinal /\ WatchesAreCached
    BY <1>4 DEF Init, RemovalsFinal, WatchesAreCached
<1>7. CacheTypes
    BY FS_EmptySet DEF Init, CacheTypes
<1>. QED  BY <1>1, <1>2, <1>3, <1>5, <1>6, <1>7 DEF IInv, State, Books

LEMMA Stuttering ==
    ASSUME IInv, UNCHANGED vars
    PROVE  IInv'
<1>1. UNCHANGED <<fs, watch, nextWd, queue, pc, rset, cache, buf, firstTry, shaken>>
    BY DEF vars, fs, kernel, program
<1>2. Dying' = Dying /\ OverflowAhead' = OverflowAhead
    BY <1>1 DEF Dying, OverflowAhead
<1>3. Reading'
    BY <1>1 DEF IInv, State, Reading
<1>. QED  BY <1>1, <1>2, <1>3, BooksKept, TreeKept DEF IInv, State

LEMMA Inductive ==
    ASSUME IInv, [Next]_vars
    PROVE  IInv'
BY Stuttering, EnvironmentStep, SelectStep, ReadStep, ReadAgainStep, ProcessStep,
   WalkVisitStep, WalkListStep, CommandStep DEF Next, Program, Walk

LEMMA Invariance == Spec => []IInv
<1>1. Init => IInv
    BY InitInv
<1>2. IInv /\ [Next]_vars => IInv'
    BY Inductive
<1>. QED  BY <1>1, <1>2, PTL DEF Spec

\* Every variable stays within its type: in particular the kernel's queue
\* within its limit and the overflow event, and the buffer within its room,
\* though the second read() of processInotifyEvents adds to what it holds.
THEOREM TypeCorrect == Spec => []TypeOK
<1>1. IInv => TypeOK
    BY DEF IInv, State, Books, Names, Reading, QueueOK, Descriptors, TypeOK
<1>. QED  BY <1>1, Invariance, PTL

\* The cache and the kernel's watches agree, whatever other processes do between
\* two steps of a walk, a read or a rebuild: each watch has one entry, and an
\* entry without a watch is one whose removal is still to be read, or an
\* overflow will have the cache rebuilt.
THEOREM WatchesAlwaysCached == Spec => []WatchesAreCached
<1>1. IInv => WatchesAreCached
    BY DEF IInv, Books
<1>. QED  BY <1>1, Invariance, PTL

=============================================================================
