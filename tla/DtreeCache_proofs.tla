-------------------------- MODULE DtreeCache_proofs --------------------------
(***************************************************************************)
(* That the cache of Dtree follows the tree: NoStaleEntry and              *)
(* NothingMissed, for every tree, every number of renaming processes, and  *)
(* every size of the queue and the buffer.                                 *)
(*                                                                         *)
(* The argument has four layers above IInv of Dtree_proofs.  The paths of  *)
(* a tree, and what a move does to them: PathOf is a recursive function,   *)
(* which exists because the tree has a depth.  Struct: the tree stays one, *)
(* watches are on linked directories, the roots in place are monitored.    *)
(* Followed: between rebuilds, either every entry has its directory's path *)
(* and no rename is to be read, or one rename is the next event and, once  *)
(* what is below its old path is moved to its new one, every entry has.    *)
(* Complete: while nothing has shaken the cache, a directory without a     *)
(* watch in one with a watch is in a walk, or moved by a rename under way, *)
(* or told by an event that comes after the removals of all whose entries  *)
(* have its path, so that lines 805-829 do not take it for one they know.  *)
(***************************************************************************)
EXTENDS Dtree_proofs, WellFoundedInduction, NaturalsInduction

-----------------------------------------------------------------------------
(* Prefixes, and paths that are moved.                                     *)

\* A path below old is moved with it to new.
Moved(p, old, new) == IF IsPrefix(old, p) THEN new \o SubSeq(p, Len(old) + 1, Len(p)) ELSE p

-----------------------------------------------------------------------------
(* Paths as sequences.                                                     *)

\* Some element of a set has the least rank.
LEMMA LeastRank ==
    ASSUME NEW S, S # {}, NEW rank, \A x \in S : rank[x] \in Nat
    PROVE  \E x \in S : \A y \in S : rank[x] <= rank[y]
<1>. DEFINE Less == OpToRel(<, Nat)
            ranks == {rank[x] : x \in S}
<1>1. IsWellFoundedOn(Less, Nat)
    BY NatLessThanWellFounded
<1>2. \A m, n \in Nat : n < m => <<n, m>> \in Less
    BY DEF OpToRel
<1>3. ranks \subseteq Nat /\ ranks # {}
    OBVIOUS
<1>. HIDE DEF Less, ranks
<1>4. PICK n \in ranks : \A k \in ranks : <<k, n>> \notin Less
    BY <1>1, <1>3, WFMin
<1>5. \A k \in ranks : ~(k < n)
    BY <1>2, <1>3, <1>4, Zenon
<1>6. \A k \in ranks : n <= k
    BY <1>3, <1>4, <1>5
<1>. QED  BY <1>4, <1>6 DEF ranks

\* A prefix is as long at most, and has the same first elements.
LEMMA PrefixElements ==
    ASSUME NEW S, NEW p \in Seq(S), NEW q \in Seq(S)
    PROVE  IsPrefix(p, q) <=> Len(p) <= Len(q) /\ \A i \in 1..Len(p) : p[i] = q[i]
<1>1. Len(p) \in Nat /\ Len(q) \in Nat
    BY LenProperties
<1>2. SubSeq(p, 1, Len(p)) = p
    BY SubSeqFull
<1>3. ASSUME Len(p) <= Len(q)
      PROVE  /\ SubSeq(q, 1, Len(p)) \in Seq(S) /\ Len(SubSeq(q, 1, Len(p))) = Len(p)
             /\ \A i \in 1..Len(p) : SubSeq(q, 1, Len(p))[i] = q[i]
    <2>1. /\ SubSeq(q, 1, Len(p)) \in Seq(S)
          /\ Len(SubSeq(q, 1, Len(p))) = (IF 1 <= Len(p) THEN Len(p) - 1 + 1 ELSE 0)
          /\ \A i \in 1..(Len(p) - 1 + 1) : SubSeq(q, 1, Len(p))[i] = q[1 + i - 1]
        BY <1>1, <1>3, PartElements
    <2>. QED  BY <1>1, <2>1
<1>4. ASSUME Len(p) <= Len(q), \A i \in 1..Len(p) : p[i] = q[i]
      PROVE  SubSeq(q, 1, Len(p)) = p
    BY <1>3, <1>4, SeqEqual
<1>. QED  BY <1>2, <1>3, <1>4 DEF IsPrefix

\* Every path is a prefix of itself.
LEMMA PrefixItself ==
    ASSUME NEW S, NEW p \in Seq(S)
    PROVE  IsPrefix(p, p)
BY PrefixElements, LenProperties

\* What is a prefix of a path is one of its parent's path, or is the path.
LEMMA PrefixAppend ==
    ASSUME NEW S, NEW p \in Seq(S), NEW q \in Seq(S), NEW x \in S
    PROVE  IsPrefix(p, Append(q, x)) <=> IsPrefix(p, q) \/ p = Append(q, x)
<1>. DEFINE r == Append(q, x)
<1>1. /\ r \in Seq(S) /\ Len(r) = Len(q) + 1
      /\ \A i \in 1..Len(q) : r[i] = q[i]
    BY AppendProperties
<1>. HIDE DEF r
<1>2. Len(p) \in Nat /\ Len(q) \in Nat
    BY LenProperties
<1>3. IsPrefix(p, r) <=> Len(p) <= Len(r) /\ \A i \in 1..Len(p) : p[i] = r[i]
    BY <1>1, PrefixElements
<1>4. IsPrefix(p, q) <=> Len(p) <= Len(q) /\ \A i \in 1..Len(p) : p[i] = q[i]
    BY PrefixElements
<1>5. ASSUME IsPrefix(p, q) PROVE IsPrefix(p, r)
    BY <1>1, <1>2, <1>3, <1>4, <1>5
<1>6. ASSUME IsPrefix(p, r) PROVE IsPrefix(p, q) \/ p = r
    <2>1. CASE Len(p) <= Len(q)
        BY <1>1, <1>2, <1>3, <1>4, <1>6, <2>1
    <2>2. CASE Len(p) = Len(q) + 1
        BY <1>1, <1>3, <1>6, <2>2, SeqEqual
    <2>. QED  BY <1>1, <1>2, <1>3, <1>6, <2>1, <2>2
<1>7. IsPrefix(r, r)
    BY <1>1, PrefixItself
<1>8. IsPrefix(p, r) <=> IsPrefix(p, q) \/ p = r
    BY <1>5, <1>6, <1>7
<1>. QED  BY <1>8 DEF r

\* m is new, and what of p follows old.
Follows(m, p, old, new) ==
    /\ Len(old) <= Len(p) /\ \A i \in 1..Len(old) : old[i] = p[i]
    /\ Len(m) = Len(new) + (Len(p) - Len(old))
    /\ \A i \in 1..Len(new) : m[i] = new[i]
    /\ \A i \in 1..(Len(p) - Len(old)) : m[Len(new) + i] = p[Len(old) + i]

\* What is moved keeps the rest of its path.
LEMMA MovedElements ==
    ASSUME NEW S, NEW p \in Seq(S), NEW old \in Seq(S), NEW new \in Seq(S), IsPrefix(old, p)
    PROVE  Moved(p, old, new) \in Seq(S) /\ Follows(Moved(p, old, new), p, old, new)
<1>. DEFINE rest == SubSeq(p, Len(old) + 1, Len(p))
<1>1. Len(p) \in Nat /\ Len(old) \in Nat /\ Len(new) \in Nat
    BY LenProperties
<1>2. Len(old) <= Len(p) /\ \A i \in 1..Len(old) : old[i] = p[i]
    BY PrefixElements
<1>3. /\ rest \in Seq(S)
      /\ Len(rest) = (IF Len(old) + 1 <= Len(p) THEN Len(p) - (Len(old) + 1) + 1 ELSE 0)
      /\ \A i \in 1..(Len(p) - (Len(old) + 1) + 1) : rest[i] = p[Len(old) + 1 + i - 1]
    BY <1>1, PartElements
<1>4. Moved(p, old, new) = new \o rest
    BY DEF Moved
<1>. HIDE DEF rest
<1>5. Len(rest) = Len(p) - Len(old) /\ \A i \in 1..(Len(p) - Len(old)) : rest[i] = p[Len(old) + i]
    <2>1. Len(rest) = Len(p) - Len(old)
        BY <1>1, <1>2, <1>3
    <2>2. \A i \in 1..(Len(p) - Len(old)) : /\ i \in 1..(Len(p) - (Len(old) + 1) + 1)
                                          /\ Len(old) + 1 + i - 1 = Len(old) + i
        BY <1>1, <1>2
    <2>3. ASSUME NEW i \in 1..(Len(p) - Len(old)) PROVE rest[i] = p[Len(old) + i]
        BY <1>3, <2>2
    <2>. QED  BY <2>1, <2>3
<1>6. /\ new \o rest \in Seq(S) /\ Len(new \o rest) = Len(new) + Len(rest)
      /\ \A i \in 1..(Len(new) + Len(rest)) :
            (new \o rest)[i] = IF i <= Len(new) THEN new[i] ELSE rest[i - Len(new)]
    BY <1>3, ConcatProperties
<1>7. \A i \in 1..Len(new) : (new \o rest)[i] = new[i]
    BY <1>1, <1>2, <1>5, <1>6
<1>8. ASSUME NEW i \in 1..(Len(p) - Len(old))
      PROVE  (new \o rest)[Len(new) + i] = p[Len(old) + i]
    <2>1. Len(new) + i \in 1..(Len(new) + Len(rest)) /\ ~(Len(new) + i <= Len(new))
          /\ (Len(new) + i) - Len(new) = i
        BY <1>1, <1>2, <1>5
    <2>. QED  BY <1>5, <1>6, <2>1
<1>9. Len(new \o rest) = Len(new) + (Len(p) - Len(old))
    BY <1>5, <1>6
<1>10. Follows(new \o rest, p, old, new)
    BY <1>2, <1>7, <1>8, <1>9, Zenon DEF Follows
<1>. QED  BY <1>4, <1>6, <1>10

\* What is moved is a path again.
LEMMA MovedType ==
    ASSUME NEW S, NEW p \in Seq(S), NEW old \in Seq(S), NEW new \in Seq(S)
    PROVE  Moved(p, old, new) \in Seq(S)
BY MovedElements DEF Moved

\* The directory itself, and what is in a directory that moves.
LEMMA MovedItself ==
    ASSUME NEW S, NEW old \in Seq(S), NEW new \in Seq(S)
    PROVE  Moved(old, old, new) = new
<1>. DEFINE m == Moved(old, old, new)
<1>1. IsPrefix(old, old) /\ Len(old) \in Nat /\ Len(new) \in Nat
    BY PrefixItself, LenProperties
<1>2. m \in Seq(S) /\ Follows(m, old, old, new)
    BY <1>1, MovedElements
<1>. HIDE DEF m
<1>3. m = new
    BY <1>1, <1>2, SeqEqual DEF Follows
<1>. QED  BY <1>3 DEF m

\* An entry of a directory moves with the directory.
LEMMA MovedAppend ==
    ASSUME NEW S, NEW p \in Seq(S), NEW old \in Seq(S), NEW new \in Seq(S), NEW x \in S,
           IsPrefix(old, p)
    PROVE  Moved(Append(p, x), old, new) = Append(Moved(p, old, new), x)
<1>. DEFINE q == Append(p, x)
            m == Moved(p, old, new)
            n == Moved(q, old, new)
            a == Append(m, x)
<1>1. /\ q \in Seq(S) /\ Len(q) = Len(p) + 1
      /\ \A i \in 1..Len(p) : q[i] = p[i]
      /\ q[Len(p) + 1] = x
    BY AppendProperties
<1>2. IsPrefix(old, q)
    BY PrefixAppend
<1>. HIDE DEF q
<1>3. m \in Seq(S) /\ Follows(m, p, old, new)
    BY MovedElements
<1>4. n \in Seq(S) /\ Follows(n, q, old, new)
    BY <1>1, <1>2, MovedElements
<1>. HIDE DEF m, n
<1>5. /\ a \in Seq(S) /\ Len(a) = Len(m) + 1
      /\ \A i \in 1..Len(m) : a[i] = m[i]
      /\ a[Len(m) + 1] = x
    BY <1>3, AppendProperties
<1>. HIDE DEF a
<1>6. Len(p) \in Nat /\ Len(old) \in Nat /\ Len(new) \in Nat
    BY LenProperties
<1>7. /\ Len(old) <= Len(p)
      /\ Len(m) = Len(new) + (Len(p) - Len(old))
      /\ \A i \in 1..Len(new) : m[i] = new[i]
      /\ \A i \in 1..(Len(p) - Len(old)) : m[Len(new) + i] = p[Len(old) + i]
    BY <1>3 DEF Follows
<1>8. /\ Len(n) = Len(new) + (Len(q) - Len(old))
      /\ \A i \in 1..Len(new) : n[i] = new[i]
      /\ \A i \in 1..(Len(q) - Len(old)) : n[Len(new) + i] = q[Len(old) + i]
    BY <1>4 DEF Follows
<1>9. Len(n) = Len(a) /\ Len(m) \in Nat
    BY <1>1, <1>5, <1>6, <1>7, <1>8
<1>10. ASSUME NEW i \in 1..Len(n) PROVE n[i] = a[i]
    <2>1. CASE i <= Len(new)
        <3>1. i \in 1..Len(m) /\ i \in 1..Len(new)
            BY <1>6, <1>7, <2>1
        <3>. QED  BY <1>5, <1>7, <1>8, <3>1
    <2>2. CASE i > Len(new) /\ i <= Len(m)
        <3>1. PICK j \in Int : j = i - Len(new)
            BY <1>6
        <3>2. /\ j \in 1..(Len(p) - Len(old)) /\ j \in 1..(Len(q) - Len(old))
              /\ Len(new) + j = i /\ i \in 1..Len(m) /\ Len(old) + j \in 1..Len(p)
            BY <1>1, <1>6, <1>7, <2>2, <3>1
        <3>3. m[i] = p[Len(old) + j]
            BY <1>7, <3>2
        <3>4. n[i] = q[Len(old) + j]
            BY <1>8, <3>2
        <3>. QED  BY <1>1, <1>5, <3>2, <3>3, <3>4
    <2>3. CASE i = Len(m) + 1
        <3>1. PICK j \in Int : j = i - Len(new)
            BY <1>6
        <3>2. /\ j \in 1..(Len(q) - Len(old)) /\ Len(new) + j = i /\ Len(old) + j = Len(p) + 1
            BY <1>1, <1>6, <1>7, <2>3, <3>1
        <3>3. n[i] = q[Len(old) + j]
            BY <1>8, <3>2
        <3>. QED  BY <1>1, <1>5, <2>3, <3>2, <3>3
    <2>4. i <= Len(m) \/ i = Len(m) + 1
        BY <1>5, <1>9
    <2>. QED  BY <1>6, <2>1, <2>2, <2>3, <2>4
<1>11. n = a
    BY <1>4, <1>5, <1>9, <1>10, SeqEqual
<1>. QED  BY <1>11 DEF q, m, n, a

\* What is moved comes to be below new, and only old itself becomes new.
LEMMA MovedBelow ==
    ASSUME NEW S, NEW p \in Seq(S), NEW old \in Seq(S), NEW new \in Seq(S), IsPrefix(old, p)
    PROVE  IsPrefix(new, Moved(p, old, new)) /\ (Moved(p, old, new) = new => p = old)
<1>. DEFINE m == Moved(p, old, new)
<1>1. Len(p) \in Nat /\ Len(old) \in Nat /\ Len(new) \in Nat
    BY LenProperties
<1>2. m \in Seq(S) /\ Follows(m, p, old, new)
    BY MovedElements
<1>. HIDE DEF m
<1>3. IsPrefix(new, m) <=> Len(new) <= Len(m) /\ \A i \in 1..Len(new) : new[i] = m[i]
    BY <1>2, PrefixElements
<1>4. IsPrefix(new, m)
    BY <1>1, <1>2, <1>3 DEF Follows
<1>5. ASSUME m = new PROVE p = old
    <2>1. Len(p) = Len(old)
        BY <1>1, <1>2, <1>5 DEF Follows
    <2>. QED  BY <1>2, <2>1, SeqEqual DEF Follows
<1>. QED  BY <1>4, <1>5 DEF m

\* A path has a part more than its parent's.
LEMMA AppendFacts ==
    ASSUME NEW S, NEW p \in Seq(S), NEW x \in S
    PROVE  /\ Append(p, x) \in Seq(S) /\ Len(Append(p, x)) = Len(p) + 1
           /\ (Len(p) >= 1 => Append(p, x)[1] = p[1]) /\ (Len(p) >= 2 => Append(p, x)[2] = p[2])
           /\ ~IsPrefix(Append(p, x), p)
<1>. DEFINE q == Append(p, x)
<1>1. /\ q \in Seq(S) /\ Len(q) = Len(p) + 1
      /\ \A i \in 1..Len(p) : q[i] = p[i]
    BY AppendProperties
<1>2. q \in Seq(S)
    BY <1>1
<1>. HIDE DEF q
<1>3. Len(p) \in Nat
    BY LenProperties
<1>4. IsPrefix(q, p) => Len(q) <= Len(p)
    BY <1>2, PrefixElements
<1>5. (Len(p) >= 1 => q[1] = p[1]) /\ (Len(p) >= 2 => q[2] = p[2])
    BY <1>1, <1>3
<1>. QED  BY <1>1, <1>3, <1>4, <1>5 DEF q

\* A prefix is not longer.
LEMMA PrefixLength ==
    ASSUME NEW S, NEW p \in Seq(S), NEW q \in Seq(S), IsPrefix(p, q)
    PROVE  /\ Len(p) <= Len(q) /\ (Len(p) = Len(q) => p = q)
           /\ (Len(p) >= 1 => q[1] = p[1]) /\ (Len(p) >= 2 => q[2] = p[2])
<1>1. Len(p) <= Len(q) /\ \A i \in 1..Len(p) : p[i] = q[i]
    BY PrefixElements
<1>2. Len(p) \in Nat
    BY LenProperties
<1>3. Len(p) = Len(q) => p = q
    BY <1>1, SeqEqual
<1>. QED  BY <1>1, <1>2, <1>3

-----------------------------------------------------------------------------
(* Trees of directories and their paths.                                   *)

Labels == All \cup Name \cup {Top, Away, Nowhere}
Placed == [All -> (All \cup {Top, Away, Nowhere}) \X (Name \cup Root \cup {Nowhere})]

\* f gives the path of each directory by its place in l.
IsPaths(f, l) == f = [d \in All |-> IF l[d][1] \in All THEN Append(f[l[d][1]], l[d][2]) ELSE l[d]]
Paths(l) == CHOOSE f : IsPaths(f, l)

\* The directories linked in l are in one another, and have paths: no cycles.
Exists(l, d) == l[d] # Gone
IsTree(l) ==
    /\ l \in Placed
    /\ \E f \in [All -> Seq(Labels)] : IsPaths(f, l)
    /\ \A d \in All : Exists(l, d) => l[d][1] \in {c \in All : Exists(l, c)} \cup {Top, Away}
    /\ \A c, d \in All : Exists(l, c) /\ l[c] = l[d] => c = d
    /\ \A d \in Dir : l[d][1] # Top
    /\ \A r \in Root : l[r] \in {<<Top, r>>, <<Away, r>>, Gone}

\* The model's paths are the paths of the places directories have.
LEMMA PathOfIsPaths == PathOf = Paths(loc) /\ PathOf' = Paths(loc')
<1>1. PathOf = Paths(loc)
    BY DEF PathOf, Paths, IsPaths
<1>2. PathOf' = Paths(loc')
    BY DEF PathOf, Paths, IsPaths
<1>. QED  BY <1>1, <1>2

\* What it is to be the paths, for each directory.
LEMMA IsPathsPointwise ==
    ASSUME NEW l, NEW f
    PROVE  IsPaths(f, l) <=>
             /\ f = [d \in All |-> f[d]]
             /\ \A d \in All : f[d] = IF l[d][1] \in All THEN Append(f[l[d][1]], l[d][2]) ELSE l[d]
BY DEF IsPaths

\* What a place may be.
LEMMA PlacedFacts ==
    ASSUME NEW l \in Placed, NEW d \in All
    PROVE  /\ l[d][1] \in Labels /\ l[d][2] \in Labels
           /\ l[d] = <<l[d][1], l[d][2]>>
           /\ l[d] \in Seq(Labels) /\ Len(l[d]) = 2
<1>1. /\ l[d] = <<l[d][1], l[d][2]>>
      /\ l[d][1] \in All \cup {Top, Away, Nowhere} /\ l[d][2] \in Name \cup Root \cup {Nowhere}
    BY DEF Placed
<1>2. l[d][1] \in Labels /\ l[d][2] \in Labels
    BY <1>1 DEF Labels, All
<1>. DEFINE a == l[d][1]
            b == l[d][2]
<1>3. a \in Labels /\ b \in Labels /\ l[d] = <<a, b>>
    BY <1>1, <1>2
<1>. HIDE DEF a, b
<1>4. <<a, b>> \in Seq(Labels) /\ Len(<<a, b>>) = 2
    BY <1>3
<1>5. l[d] \in Seq(Labels) /\ Len(l[d]) = 2
    BY <1>3, <1>4
<1>. QED  BY <1>1, <1>2, <1>5

\* A tree gives each directory one path only.
LEMMA PathsUnique ==
    ASSUME NEW l \in Placed, NEW f \in [All -> Seq(Labels)], IsPaths(f, l), NEW g, IsPaths(g, l)
    PROVE  g = f
<1>1. /\ f = [d \in All |-> f[d]] /\ g = [d \in All |-> g[d]]
      /\ \A d \in All : f[d] = IF l[d][1] \in All THEN Append(f[l[d][1]], l[d][2]) ELSE l[d]
      /\ \A d \in All : g[d] = IF l[d][1] \in All THEN Append(g[l[d][1]], l[d][2]) ELSE l[d]
    BY IsPathsPointwise, Zenon
<1>. DEFINE bad == {d \in All : g[d] # f[d]}
            rank == [d \in All |-> Len(f[d])]
<1>2. ASSUME bad # {} PROVE FALSE
    <2>1. \A d \in All : Len(f[d]) \in Nat
        BY LenProperties
    <2>2. PICK d \in bad : \A c \in bad : rank[d] <= rank[c]
        <3>1. \A c \in bad : rank[c] \in Nat
            BY <2>1
        <3>. HIDE DEF bad, rank
        <3>. QED  BY <1>2, <3>1, LeastRank
    <2>3. d \in All /\ g[d] # f[d]
        OBVIOUS
    <2>4. l[d][1] \in All
        BY <1>1, <2>3
    <2>5. f[d] = Append(f[l[d][1]], l[d][2])
        BY <1>1, <2>3, <2>4
    <2>6. Len(f[d]) = Len(f[l[d][1]]) + 1
        BY <2>3, <2>4, <2>5, PlacedFacts, AppendFacts
    <2>7. Len(f[d]) \in Nat /\ Len(f[l[d][1]]) \in Nat
        BY <2>1, <2>3, <2>4
    <2>8. l[d][1] \notin bad
        BY <2>2, <2>3, <2>4, <2>6, <2>7
    <2>9. g[l[d][1]] = f[l[d][1]]
        BY <2>4, <2>8
    <2>. QED  BY <1>1, <2>3, <2>4, <2>9
<1>3. \A d \in All : g[d] = f[d]
    BY <1>2
<1>. QED  BY <1>1, <1>3

\* Whatever gives the paths of a tree is its Paths.
LEMMA PathsAre ==
    ASSUME NEW l \in Placed, NEW f \in [All -> Seq(Labels)], IsPaths(f, l)
    PROVE  Paths(l) = f
<1>1. IsPaths(Paths(l), l)
    BY DEF Paths
<1>. QED  BY <1>1, PathsUnique

\* The paths of a tree: a directory's is its parent's and its name.
LEMMA PathsOfTree ==
    ASSUME NEW l, IsTree(l)
    PROVE  /\ Paths(l) \in [All -> Seq(Labels)]
           /\ IsPaths(Paths(l), l)
           /\ \A d \in All : l[d][1] \in All => Paths(l)[d] = Append(Paths(l)[l[d][1]], l[d][2])
           /\ \A d \in All : l[d][1] \notin All => Paths(l)[d] = l[d]
<1>1. PICK f \in [All -> Seq(Labels)] : IsPaths(f, l)
    BY DEF IsTree
<1>2. l \in Placed
    BY DEF IsTree
<1>3. Paths(l) = f
    BY <1>1, <1>2, PathsAre
<1>4. \A d \in All : f[d] = IF l[d][1] \in All THEN Append(f[l[d][1]], l[d][2]) ELSE l[d]
    BY <1>1, IsPathsPointwise, Zenon
<1>. QED  BY <1>1, <1>3, <1>4

\* What holds of a directory if it holds of the directory it is in, holds of all.
LEMMA DownTheTree ==
    ASSUME NEW l, IsTree(l), NEW T,
           \A d \in All : (l[d][1] \in All => l[d][1] \in T) => d \in T
    PROVE  All \subseteq T
<1>. DEFINE P == Paths(l)
            bad == All \ T
            rank == [d \in All |-> Len(P[d])]
<1>1. /\ P \in [All -> Seq(Labels)]
      /\ \A d \in All : l[d][1] \in All => P[d] = Append(P[l[d][1]], l[d][2])
    BY PathsOfTree
<1>2. l \in Placed
    BY DEF IsTree
<1>. HIDE DEF P
<1>3. ASSUME bad # {} PROVE FALSE
    <2>1. \A d \in All : Len(P[d]) \in Nat
        BY <1>1, LenProperties
    <2>2. PICK d \in bad : \A c \in bad : rank[d] <= rank[c]
        <3>1. \A c \in bad : rank[c] \in Nat
            BY <2>1
        <3>. HIDE DEF bad, rank
        <3>. QED  BY <1>3, <3>1, LeastRank
    <2>3. l[d][1] \in All /\ l[d][1] \notin T
        OBVIOUS
    <2>4. P[d] = Append(P[l[d][1]], l[d][2]) /\ P[l[d][1]] \in Seq(Labels) /\ l[d][2] \in Labels
        BY <1>1, <1>2, <2>3, PlacedFacts
    <2>5. Len(P[d]) = Len(P[l[d][1]]) + 1
        BY <2>4, AppendFacts
    <2>6. rank[d] <= rank[l[d][1]]
        BY <2>2, <2>3
    <2>. QED  BY <2>1, <2>3, <2>5, <2>6
<1>. QED  BY <1>3

\* A linked directory's path leads from Top, by a root that is there, or from Away.
Shape(l, p) ==
    /\ p[1] \in {Top, Away}
    /\ p[1] = Top => p[2] \in Root /\ l[p[2]] = <<Top, p[2]>>

\* The place of what is not linked.
LEMMA GoneIsNowhere == /\ Gone[1] = Nowhere /\ Nowhere \notin All /\ Nowhere \notin {Top, Away} /\ Len(Gone) = 2
                       /\ Top \notin All /\ Away \notin All /\ Top # Away
BY DtreeAssumption DEF Gone

\* A linked directory's path has two parts at least.
LEMMA PathLength ==
    ASSUME NEW l, IsTree(l), NEW d \in All
    PROVE  /\ Len(Paths(l)[d]) \in Nat /\ Len(Paths(l)[d]) >= 2
           /\ Len(Paths(l)[d]) = 2 <=> l[d][1] \notin All
<1>. DEFINE P == Paths(l)
            Long(c) == Len(P[c]) >= 2 /\ (Len(P[c]) = 2 <=> l[c][1] \notin All)
            T == {c \in All : Long(c)}
<1>1. /\ P \in [All -> Seq(Labels)]
      /\ \A c \in All : l[c][1] \in All => P[c] = Append(P[l[c][1]], l[c][2])
      /\ \A c \in All : l[c][1] \notin All => P[c] = l[c]
    BY PathsOfTree
<1>2. l \in Placed
    BY DEF IsTree
<1>. HIDE DEF P
<1>3. ASSUME NEW c \in All, l[c][1] \in All => Long(l[c][1])
      PROVE  Long(c)
    <2>1. CASE l[c][1] \in All
        <3>1. P[l[c][1]] \in Seq(Labels) /\ l[c][2] \in Labels
            BY <1>1, <1>2, <2>1, PlacedFacts
        <3>2. Len(P[c]) = Len(P[l[c][1]]) + 1
            BY <1>1, <2>1, <3>1, AppendFacts
        <3>3. Len(P[l[c][1]]) \in Nat /\ Len(P[l[c][1]]) >= 2
            BY <1>3, <2>1, <3>1, LenProperties
        <3>4. Len(P[c]) >= 2 /\ Len(P[c]) # 2
            BY <3>2, <3>3
        <3>. QED  BY <2>1, <3>4
    <2>2. CASE l[c][1] \notin All
        <3>1. P[c] = l[c]
            BY <1>1, <2>2
        <3>2. Len(l[c]) = 2
            BY <1>2, PlacedFacts
        <3>3. Len(P[c]) = 2 /\ Len(P[c]) >= 2
            BY <3>1, <3>2
        <3>. QED  BY <2>2, <3>3
    <2>. QED  BY <2>1, <2>2
<1>. HIDE DEF Long
<1>4. ASSUME NEW c \in All, l[c][1] \in All => l[c][1] \in T
      PROVE  c \in T
    BY <1>3, <1>4
<1>. HIDE DEF T
<1>5. All \subseteq T
    BY <1>4, DownTheTree
<1>6. Len(P[d]) \in Nat
    BY <1>1, LenProperties
<1>7. Long(d)
    BY <1>5 DEF T
<1>. QED  BY <1>6, <1>7 DEF Long, P

\* A linked directory's path is from Top or from Away.
LEMMA PathShape ==
    ASSUME NEW l, IsTree(l), NEW d \in All
    PROVE  /\ Exists(l, d) => Shape(l, Paths(l)[d])
           /\ ~Exists(l, d) => Paths(l)[d] = Gone
<1>. DEFINE P == Paths(l)
            T == {c \in All : Exists(l, c) => Shape(l, P[c])}
<1>1. /\ P \in [All -> Seq(Labels)]
      /\ \A c \in All : l[c][1] \in All => P[c] = Append(P[l[c][1]], l[c][2])
      /\ \A c \in All : l[c][1] \notin All => P[c] = l[c]
    BY PathsOfTree
<1>2. l \in Placed
    BY DEF IsTree
<1>3. \A c \in All : Len(P[c]) \in Nat /\ Len(P[c]) >= 2
    BY PathLength
<1>. HIDE DEF P
<1>4. ASSUME NEW c \in All, l[c][1] \in All => l[c][1] \in T
      PROVE  c \in T
    <2>. SUFFICES ASSUME Exists(l, c) PROVE Shape(l, P[c])
        OBVIOUS
    <2>1. l[c][1] \in {b \in All : Exists(l, b)} \cup {Top, Away}
        BY DEF IsTree
    <2>2. CASE l[c][1] \in All
        <3>1. P[l[c][1]] \in Seq(Labels) /\ l[c][2] \in Labels
            BY <1>1, <1>2, <2>2, PlacedFacts
        <3>2. P[c][1] = P[l[c][1]][1] /\ P[c][2] = P[l[c][1]][2]
            <4>1. Len(P[l[c][1]]) \in Nat /\ Len(P[l[c][1]]) >= 2
                BY <1>3, <2>2
            <4>. DEFINE q == P[l[c][1]]
                        x == l[c][2]
            <4>2. q \in Seq(Labels) /\ x \in Labels /\ P[c] = Append(q, x) /\ Len(q) >= 1 /\ Len(q) >= 2
                BY <1>1, <2>2, <3>1, <4>1
            <4>. HIDE DEF q, x
            <4>3. P[c][1] = q[1] /\ P[c][2] = q[2]
                BY <4>2, AppendFacts
            <4>. QED  BY <4>3 DEF q
        <3>3. Shape(l, P[l[c][1]])
            BY <1>4, <2>1, <2>2, GoneIsNowhere
        <3>. QED  BY <3>2, <3>3 DEF Shape
    <2>3. CASE l[c][1] \notin All
        <3>1. P[c] = l[c] /\ l[c][1] \in {Top, Away}
            BY <1>1, <2>1, <2>3
        <3>2. l[c][1] = Top => c \in Root /\ l[c] = <<Top, c>>
            <4>1. l[c][1] = Top => c \in Root
                BY DEF IsTree, All
            <4>2. c \in Root => l[c] \in {<<Top, c>>, <<Away, c>>, Gone}
                BY DEF IsTree
            <4>. QED  BY <4>1, <4>2, GoneIsNowhere
        <3>3. l[c][1] = Top => l[c][2] = c
            BY <3>2
        <3>. QED  BY <3>1, <3>2, <3>3 DEF Shape
    <2>. QED  BY <2>2, <2>3
<1>. HIDE DEF T
<1>5. All \subseteq T
    BY <1>4, DownTheTree
<1>6. ~Exists(l, d) => P[d] = Gone
    BY <1>1, GoneIsNowhere DEF Exists
<1>. QED  BY <1>5, <1>6 DEF T, P

\* No two linked directories have the same path.
LEMMA PathsInjective ==
    ASSUME NEW l, IsTree(l), NEW c \in All, NEW d \in All, Exists(l, c),
           Paths(l)[c] = Paths(l)[d]
    PROVE  c = d
<1>. DEFINE P == Paths(l)
            T == {b \in All : \A a \in All : Exists(l, a) /\ P[a] = P[b] => a = b}
<1>1. /\ P \in [All -> Seq(Labels)]
      /\ \A b \in All : l[b][1] \in All => P[b] = Append(P[l[b][1]], l[b][2])
      /\ \A b \in All : l[b][1] \notin All => P[b] = l[b]
    BY PathsOfTree
<1>2. l \in Placed
    BY DEF IsTree
<1>3. \A b \in All : Len(P[b]) = 2 <=> l[b][1] \notin All
    BY PathLength
<1>. HIDE DEF P
<1>4. ASSUME NEW b \in All, l[b][1] \in All => l[b][1] \in T
      PROVE  b \in T
    <2>. SUFFICES ASSUME NEW a \in All, Exists(l, a), P[a] = P[b] PROVE a = b
        OBVIOUS
    <2>1. l[a][1] \in All <=> l[b][1] \in All
        BY <1>3
    <2>2. CASE l[b][1] \in All
        <3>1. /\ P[l[a][1]] \in Seq(Labels) /\ l[a][2] \in Labels
              /\ P[l[b][1]] \in Seq(Labels) /\ l[b][2] \in Labels
            BY <1>1, <1>2, <2>1, <2>2, PlacedFacts
        <3>2. Append(P[l[a][1]], l[a][2]) = Append(P[l[b][1]], l[b][2])
            BY <1>1, <2>1, <2>2
        <3>3. P[l[a][1]] = P[l[b][1]] /\ l[a][2] = l[b][2]
            <4>. DEFINE q == P[l[a][1]]
                        r == P[l[b][1]]
                        x == l[a][2]
                        y == l[b][2]
            <4>1. q \in Seq(Labels) /\ r \in Seq(Labels) /\ x \in Labels /\ y \in Labels
                BY <3>1
            <4>2. Append(q, x) = Append(r, y)
                BY <3>2
            <4>. HIDE DEF q, r, x, y
            <4>3. q = r /\ x = y
                BY <4>1, <4>2, AppendInjective
            <4>. QED  BY <4>3 DEF q, r, x, y
        <3>4. Exists(l, l[a][1])
            BY <2>1, <2>2, GoneIsNowhere DEF IsTree
        <3>5. l[a][1] = l[b][1]
            BY <1>4, <2>1, <2>2, <3>3, <3>4
        <3>6. l[a] = l[b]
            BY <1>2, <3>3, <3>5, PlacedFacts
        <3>. QED  BY <3>6 DEF IsTree
    <2>3. CASE l[b][1] \notin All
        <3>1. l[a] = l[b]
            BY <1>1, <2>1, <2>3
        <3>. QED  BY <3>1 DEF IsTree
    <2>. QED  BY <2>2, <2>3
<1>. HIDE DEF T
<1>5. All \subseteq T
    BY <1>4, DownTheTree
<1>. QED  BY <1>5 DEF T, P

\* A directory is put where nothing is: a new one, or none at all.
LEMMA Replaced ==
    ASSUME NEW l, IsTree(l), NEW d \in All, NEW place, NEW k,
           k = [l EXCEPT ![d] = place], k \in Placed,
           \A c \in All : l[c][1] # d,
           place[1] # d,
           place = Gone \/ (d \in Dir /\ place[1] \in {c \in All : Exists(l, c)} /\ \A c \in All : l[c] # place)
    PROVE  /\ IsTree(k)
           /\ Paths(k) = [Paths(l) EXCEPT ![d] =
                            IF place[1] \in All THEN Append(Paths(l)[place[1]], place[2]) ELSE place]
<1>. DEFINE P == Paths(l)
            path == IF place[1] \in All THEN Append(P[place[1]], place[2]) ELSE place
            Q == [P EXCEPT ![d] = path]
<1>1. /\ P \in [All -> Seq(Labels)]
      /\ \A b \in All : l[b][1] \in All => P[b] = Append(P[l[b][1]], l[b][2])
      /\ \A b \in All : l[b][1] \notin All => P[b] = l[b]
    BY PathsOfTree
<1>2. l \in Placed /\ l = [b \in All |-> l[b]]
    BY DEF IsTree, Placed
<1>3. k[d] = place /\ \A c \in All : c # d => k[c] = l[c]
    BY <1>2
<1>. HIDE DEF P
<1>4. path \in Seq(Labels)
    <2>1. place[1] \in Labels /\ place[2] \in Labels /\ place \in Seq(Labels)
        BY <1>3, PlacedFacts
    <2>. QED  BY <1>1, <2>1, AppendFacts
<1>5. Q \in [All -> Seq(Labels)]
    BY <1>1, <1>4
<1>6. Q[d] = path /\ \A c \in All : c # d => Q[c] = P[c]
    BY <1>1
<1>7. \A c \in All : Q[c] = IF k[c][1] \in All THEN Append(Q[k[c][1]], k[c][2]) ELSE k[c]
    <2>1. ASSUME NEW c \in All, c # d
          PROVE  Q[c] = IF k[c][1] \in All THEN Append(Q[k[c][1]], k[c][2]) ELSE k[c]
        <3>1. k[c] = l[c] /\ l[c][1] # d /\ Q[c] = P[c]
            BY <1>3, <1>6, <2>1
        <3>. HIDE DEF Q
        <3>2. l[c][1] \in All => Q[l[c][1]] = P[l[c][1]]
            BY <1>6, <3>1
        <3>. QED  BY <1>1, <3>1, <3>2
    <2>2. Q[d] = IF k[d][1] \in All THEN Append(Q[k[d][1]], k[d][2]) ELSE k[d]
        <3>. HIDE DEF Q
        <3>. QED  BY <1>3, <1>6
    <2>. QED  BY <2>1, <2>2
<1>8. Q = [c \in All |-> Q[c]]
    BY <1>5
<1>. HIDE DEF Q, path
<1>9. IsPaths(Q, k)
    BY <1>7, <1>8, IsPathsPointwise, Zenon
<1>10. Paths(k) = Q
    BY <1>5, <1>9, PathsAre
<1>11. IsTree(k)
    <2>1. \E f \in [All -> Seq(Labels)] : IsPaths(f, k)
        BY <1>5, <1>9
    <2>2. ASSUME NEW c \in All, Exists(k, c)
          PROVE  k[c][1] \in {b \in All : Exists(k, b)} \cup {Top, Away}
        <3>1. CASE c # d
            <4>1. Exists(l, c) /\ k[c] = l[c] /\ l[c][1] # d
                BY <1>3, <2>2, <3>1 DEF Exists
            <4>2. l[c][1] \in {b \in All : Exists(l, b)} \cup {Top, Away}
                BY <4>1 DEF IsTree
            <4>. QED  BY <1>3, <4>1, <4>2 DEF Exists
        <3>2. CASE c = d
            <4>1. place # Gone /\ place[1] \in {b \in All : Exists(l, b)}
                BY <1>3, <2>2, <3>2 DEF Exists
            <4>. QED  BY <1>3, <3>2, <4>1 DEF Exists
        <3>. QED  BY <3>1, <3>2
    <2>3. ASSUME NEW b \in All, NEW c \in All, Exists(k, b), k[b] = k[c] PROVE b = c
        <3>1. CASE b # d /\ c # d
            BY <1>3, <2>3, <3>1 DEF Exists, IsTree
        <3>2. CASE b = d /\ c # d
            BY <1>3, <2>3, <3>2 DEF Exists
        <3>3. CASE b # d /\ c = d
            BY <1>3, <2>3, <3>3 DEF Exists
        <3>. QED  BY <3>1, <3>2, <3>3
    <2>4. \A c \in Dir : k[c][1] # Top
        BY <1>3, GoneIsNowhere DEF IsTree, All
    <2>5. \A r \in Root : k[r] \in {<<Top, r>>, <<Away, r>>, Gone}
        BY <1>3, DtreeAssumption DEF IsTree, All
    <2>. QED  BY <2>1, <2>2, <2>3, <2>4, <2>5, Zenon DEF IsTree
<1>. QED  BY <1>10, <1>11 DEF Q, path, P

\* Where a directory goes that is put at a place.
PathAt(f, place) == IF place[1] \in All THEN Append(f[place[1]], place[2]) ELSE place

\* A linked directory is put at another place, free and not below itself.
CanMove(l, d, place, k) ==
    /\ IsTree(l) /\ d \in All /\ Exists(l, d)
    /\ k = [l EXCEPT ![d] = place] /\ k \in Placed
    /\ place[1] \in {c \in All : Exists(l, c)} \cup {Away}
    /\ place[1] \in All => ~IsPrefix(Paths(l)[d], Paths(l)[place[1]])
    /\ d \in Root => place = <<Away, d>>
    /\ \A c \in All : l[c] # place

\* What it is for the directory to have moved, with the tree and the paths it leaves.
HasMoved(l, d, place, k) ==
    /\ IsTree(k)
    /\ PathAt(Paths(l), place) \in Seq(Labels)
    /\ \A c \in All : Paths(k)[c] = Moved(Paths(l)[c], Paths(l)[d], PathAt(Paths(l), place))
    /\ Paths(k)[d] = PathAt(Paths(l), place)

\* A directory that is moved takes what is below it along.
LEMMA MovedTree ==
    ASSUME NEW l, NEW d, NEW place, NEW k, CanMove(l, d, place, k)
    PROVE  HasMoved(l, d, place, k)
<1>. DEFINE P == Paths(l)
            old == P[d]
            new == PathAt(P, place)
            Q == [c \in All |-> Moved(P[c], old, new)]
<1>1. /\ IsTree(l) /\ d \in All /\ Exists(l, d)
      /\ k = [l EXCEPT ![d] = place] /\ k \in Placed
      /\ place[1] \in {c \in All : Exists(l, c)} \cup {Away}
      /\ place[1] \in All => ~IsPrefix(old, P[place[1]])
      /\ d \in Root => place = <<Away, d>>
      /\ \A c \in All : l[c] # place
    BY DEF CanMove
<1>2. /\ P \in [All -> Seq(Labels)]
      /\ \A b \in All : l[b][1] \in All => P[b] = Append(P[l[b][1]], l[b][2])
      /\ \A b \in All : l[b][1] \notin All => P[b] = l[b]
    BY <1>1, PathsOfTree
<1>3. l \in Placed /\ l = [b \in All |-> l[b]]
    BY <1>1 DEF IsTree, Placed
<1>4. k[d] = place /\ \A c \in All : c # d => k[c] = l[c]
    BY <1>1, <1>3
<1>5. \A c \in All : Exists(l, c) /\ P[c] = old => c = d
    BY <1>1, PathsInjective
<1>6. \A c \in All : Len(P[c]) \in Nat /\ Len(P[c]) >= 2 /\ (Len(P[c]) = 2 <=> l[c][1] \notin All)
    BY <1>1, PathLength
<1>7. \A c \in All : ~Exists(l, c) => P[c] = Gone
    BY <1>1, PathShape
<1>8. old[1] # Nowhere
    BY <1>1, PathShape, GoneIsNowhere DEF Shape
<1>9. \A c \in All : l[c][1] \in All => Exists(l, c)
    BY GoneIsNowhere DEF Exists
<1>10. place[1] \in All => ~IsPrefix(old, P[place[1]])
    BY <1>1
<1>. HIDE DEF P
<1>11. old \in Seq(Labels)
    BY <1>1, <1>2
<1>12. new \in Seq(Labels)
    <2>1. place[1] \in Labels /\ place[2] \in Labels /\ place \in Seq(Labels)
        BY <1>1, <1>4, PlacedFacts
    <2>. QED  BY <1>2, <2>1, AppendFacts DEF PathAt
<1>. HIDE DEF old, new
<1>13. Q \in [All -> Seq(Labels)]
    BY <1>2, <1>11, <1>12, MovedType
<1>14. \A c \in All : Q[c] = Moved(P[c], old, new)
    OBVIOUS
<1>15. P[d] = old
    BY DEF old
<1>16. /\ IsTree(l) /\ d \in All /\ k \in Placed
       /\ place[1] \in {c \in All : Exists(l, c)} \cup {Away} /\ (d \in Root => place = <<Away, d>>)
    BY <1>1
<1>17. Q[d] = new
    BY <1>1, <1>11, <1>12, <1>14, <1>15, MovedItself
<1>. HIDE DEF Q
<1>18. ASSUME NEW c \in All, c # d
       PROVE  Q[c] = IF k[c][1] \in All THEN Append(Q[k[c][1]], k[c][2]) ELSE k[c]
    <2>1. k[c] = l[c]
        BY <1>4, <1>18
    <2>2. CASE l[c][1] \in All
        <3>. DEFINE q == P[l[c][1]]
                    x == l[c][2]
        <3>1. q \in Seq(Labels) /\ x \in Labels
            BY <1>2, <1>3, <2>2, PlacedFacts
        <3>2. P[c] = Append(q, x) /\ P[c] # old
            BY <1>2, <1>5, <1>9, <1>18, <2>2
        <3>3. Q[l[c][1]] = Moved(q, old, new) /\ Q[c] = Moved(P[c], old, new)
            BY <1>14, <2>2
        <3>. HIDE DEF q, x
        <3>4. CASE IsPrefix(old, q)
            <4>1. Moved(Append(q, x), old, new) = Append(Moved(q, old, new), x)
                BY <1>11, <1>12, <3>1, <3>4, MovedAppend
            <4>2. Q[c] = Append(Q[l[c][1]], x)
                BY <3>2, <3>3, <4>1
            <4>. QED  BY <2>1, <2>2, <4>2 DEF x
        <3>5. CASE ~IsPrefix(old, q)
            <4>1. ~IsPrefix(old, Append(q, x))
                BY <1>11, <3>1, <3>2, <3>5, PrefixAppend
            <4>2. Q[c] = P[c] /\ Q[l[c][1]] = q
                BY <3>2, <3>3, <3>5, <4>1 DEF Moved
            <4>3. Q[c] = Append(Q[l[c][1]], x)
                BY <3>2, <4>2
            <4>. QED  BY <2>1, <2>2, <4>3 DEF x
        <3>. QED  BY <3>4, <3>5
    <2>3. CASE l[c][1] \notin All
        <3>1. P[c] = l[c] /\ Len(P[c]) = 2 /\ P[c] \in Seq(Labels)
            BY <1>2, <1>6, <2>3
        <3>2. P[c] # old
            <4>1. CASE Exists(l, c)
                BY <1>5, <1>18, <4>1
            <4>2. CASE ~Exists(l, c)
                BY <1>7, <1>8, <4>2, GoneIsNowhere
            <4>. QED  BY <4>1, <4>2
        <3>3. ~IsPrefix(old, P[c])
            <4>1. Len(old) >= 2
                BY <1>6, <1>15, <1>16
            <4>. QED  BY <1>11, <3>1, <3>2, <4>1, PrefixLength, LenProperties
        <3>. QED  BY <1>14, <2>1, <2>3, <3>1, <3>3 DEF Moved
    <2>. QED  BY <2>2, <2>3
<1>19. Q[d] = IF k[d][1] \in All THEN Append(Q[k[d][1]], k[d][2]) ELSE k[d]
    <2>1. CASE place[1] \in All
        <3>1. Q[place[1]] = P[place[1]]
            BY <1>1, <1>14, <1>10, <2>1 DEF Moved
        <3>. QED  BY <1>1, <1>4, <1>17, <2>1, <3>1 DEF new, PathAt
    <2>2. CASE place[1] \notin All
        BY <1>1, <1>4, <1>17, <2>2 DEF new, PathAt
    <2>. QED  BY <2>1, <2>2
<1>20. Q = [c \in All |-> Q[c]]
    BY <1>13
<1>21. \A c \in All : Q[c] = IF k[c][1] \in All THEN Append(Q[k[c][1]], k[c][2]) ELSE k[c]
    BY <1>18, <1>19, <1>16
<1>22. IsPaths(Q, k)
    BY <1>20, <1>21, IsPathsPointwise, Zenon
<1>23. Paths(k) = Q
    BY <1>13, <1>22, <1>16, PathsAre
<1>24. IsTree(k)
    <2>1. place # Gone
        BY <1>1, GoneIsNowhere
    <2>2. \E f \in [All -> Seq(Labels)] : IsPaths(f, k)
        BY <1>13, <1>22
    <2>3. ASSUME NEW c \in All, Exists(k, c)
          PROVE  k[c][1] \in {b \in All : Exists(k, b)} \cup {Top, Away}
        <3>1. \A b \in All : Exists(l, b) => Exists(k, b)
            BY <1>4, <2>1 DEF Exists
        <3>2. CASE c # d
            <4>1. Exists(l, c) /\ k[c] = l[c]
                BY <1>4, <2>3, <3>2 DEF Exists
            <4>2. l[c][1] \in {b \in All : Exists(l, b)} \cup {Top, Away}
                BY <1>1, <4>1 DEF IsTree
            <4>. QED  BY <3>1, <4>1, <4>2
        <3>3. CASE c = d
            BY <1>1, <1>4, <3>1, <3>3
        <3>. QED  BY <3>2, <3>3
    <2>4. ASSUME NEW b \in All, NEW c \in All, Exists(k, b), k[b] = k[c] PROVE b = c
        <3>1. CASE b # d /\ c # d
            BY <1>1, <1>4, <2>4, <3>1 DEF Exists, IsTree
        <3>2. CASE b = d /\ c # d
            BY <1>1, <1>4, <2>4, <3>2 DEF Exists
        <3>3. CASE b # d /\ c = d
            BY <1>1, <1>4, <2>4, <3>3 DEF Exists
        <3>. QED  BY <3>1, <3>2, <3>3
    <2>5. \A c \in Dir : k[c][1] # Top
        BY <1>16, <1>4, GoneIsNowhere DEF IsTree, All
    <2>6. \A r \in Root : k[r] \in {<<Top, r>>, <<Away, r>>, Gone}
        BY <1>16, <1>4, GoneIsNowhere DEF IsTree, All
    <2>. QED  BY <1>16, <2>2, <2>3, <2>4, <2>5, <2>6, Zenon DEF IsTree
<1>25. /\ \A c \in All : Paths(k)[c] = Moved(P[c], old, new)
       /\ Paths(k)[d] = new
    BY <1>14, <1>17, <1>23, <1>16
<1>. QED  BY <1>12, <1>24, <1>25 DEF old, new, P, HasMoved

\* What the directories are in when the program starts is a tree.
LEMMA InitTree ==
    ASSUME Init
    PROVE  IsTree(loc)
<1>1. /\ loc = [d \in All |-> IF d \in Root THEN <<Top, d>> ELSE InitLoc[d]]
      /\ \A d \in All : loc[d] = IF d \in Root THEN <<Top, d>> ELSE InitLoc[d]
    BY DEF Init
<1>2. Root \cap Dir = {} /\ InitLoc \in [Dir -> (All \X Name) \cup {Gone}] /\ InitForest
    BY DtreeAssumption
<1>3. loc \in Placed
    BY <1>1, <1>2 DEF Placed, All, Gone
<1>4. \A d \in Root : d \notin Dir /\ loc[d] = <<Top, d>>
    BY <1>1, <1>2 DEF All
<1>5. \A d \in Dir : d \notin Root /\ loc[d] = InitLoc[d]
    BY <1>1, <1>2 DEF All
<1>6. \A d \in Dir : Exists(loc, d) <=> d \in Linked
    BY <1>5 DEF Exists, Linked
<1>7. \A d \in Root : Exists(loc, d)
    BY <1>4, GoneIsNowhere DEF Exists
<1>8. PICK depth \in [All -> 0..Cardinality(All)] :
        \A d \in Linked : /\ InitLoc[d][1] \in Root \cup Linked
                          /\ depth[InitLoc[d][1]] < depth[d]
    BY <1>2 DEF InitForest
<1>9. \A d \in Linked : d \in Dir /\ loc[d][1] \in Root \cup Linked /\ depth[loc[d][1]] < depth[d]
    BY <1>5, <1>8 DEF Linked
<1>10. \A d \in All : loc[d][1] \in All => d \in Linked
    BY <1>4, <1>6, GoneIsNowhere DEF Exists, All
<1>11. \A d \in Linked : depth[d] \in Nat /\ depth[loc[d][1]] \in Nat
    <2>1. Cardinality(All) \in Nat
        BY DtreeAssumption, FS_CardinalityType
    <2>2. \A d \in All : depth[d] \in Nat
        BY <1>8, <2>1
    <2>. QED  BY <1>9, <2>2 DEF Linked, All
<1>. DEFINE Good(f, n) ==
            /\ f \in [All -> Seq(Labels)]
            /\ \A d \in All : loc[d][1] \notin All \/ depth[d] <= n =>
                  f[d] = IF loc[d][1] \in All THEN Append(f[loc[d][1]], loc[d][2]) ELSE loc[d]
            Bad == {n \in Nat : ~\E f : Good(f, n)}
<1>12. Good([d \in All |-> loc[d]], 0)
    <2>1. [d \in All |-> loc[d]] \in [All -> Seq(Labels)]
        BY <1>3, PlacedFacts
    <2>2. \A d \in All : loc[d][1] \in All => ~(depth[d] <= 0)
        BY <1>9, <1>10, <1>11
    <2>. QED  BY <2>1, <2>2
<1>13. ASSUME NEW n \in Nat, NEW f, Good(f, n)
       PROVE  \E g : Good(g, n + 1)
    <2>. DEFINE g == [d \in All |-> IF loc[d][1] \in All THEN Append(f[loc[d][1]], loc[d][2]) ELSE loc[d]]
    <2>1. g \in [All -> Seq(Labels)]
        <3>. SUFFICES ASSUME NEW d \in All
                      PROVE  (IF loc[d][1] \in All THEN Append(f[loc[d][1]], loc[d][2]) ELSE loc[d]) \in Seq(Labels)
            OBVIOUS
        <3>1. loc[d][1] \in Labels /\ loc[d][2] \in Labels /\ loc[d] \in Seq(Labels)
            BY <1>3, PlacedFacts
        <3>2. CASE loc[d][1] \in All
            <4>1. f[loc[d][1]] \in Seq(Labels)
                BY <1>13, <3>2
            <4>. QED  BY <3>1, <3>2, <4>1, AppendFacts
        <3>. QED  BY <3>1, <3>2
    <2>2. \A d \in All : g[d] = IF loc[d][1] \in All THEN Append(f[loc[d][1]], loc[d][2]) ELSE loc[d]
        OBVIOUS
    <2>. HIDE DEF g
    <2>3. ASSUME NEW d \in All, loc[d][1] \notin All \/ depth[d] <= n + 1
          PROVE  g[d] = IF loc[d][1] \in All THEN Append(g[loc[d][1]], loc[d][2]) ELSE loc[d]
        <3>1. CASE loc[d][1] \notin All
            BY <2>2, <3>1
        <3>2. CASE loc[d][1] \in All
            <4>. DEFINE c == loc[d][1]
            <4>1. depth[c] \in Nat /\ depth[c] < depth[d] /\ depth[d] \in Nat /\ depth[d] <= n + 1
                BY <1>9, <1>10, <1>11, <2>3, <3>2
            <4>2. depth[c] <= n /\ c \in All
                BY <3>2, <4>1
            <4>. HIDE DEF c
            <4>3. f[c] = IF loc[c][1] \in All THEN Append(f[loc[c][1]], loc[c][2]) ELSE loc[c]
                BY <1>13, <4>2
            <4>4. g[c] = f[c]
                BY <2>2, <4>2, <4>3
            <4>5. g[d] = Append(g[c], loc[d][2])
                BY <2>2, <3>2, <4>4 DEF c
            <4>. QED  BY <3>2, <4>5 DEF c
        <3>. QED  BY <3>1, <3>2
    <2>4. Good(g, n + 1)
        BY <2>1, <2>3
    <2>. QED  BY <2>4
<1>. HIDE DEF Good
<1>14. \A n \in Nat : \E f : Good(f, n)
    <2>. SUFFICES ASSUME Bad # {} PROVE FALSE
        OBVIOUS
    <2>. DEFINE rank == [n \in Nat |-> n]
    <2>1. \A n \in Bad : rank[n] \in Nat
        OBVIOUS
    <2>2. \A n \in Bad : n \in Nat /\ rank[n] = n
        OBVIOUS
    <2>. HIDE DEF Bad, rank
    <2>3. PICK n \in Bad : \A m \in Bad : rank[n] <= rank[m]
        BY <2>1, LeastRank
    <2>4. n \in Nat /\ \A m \in Bad : n <= m
        BY <2>2, <2>3
    <2>5. n # 0
        BY <1>12, <2>3 DEF Bad
    <2>6. n - 1 \in Nat /\ (n - 1) + 1 = n /\ ~(n <= n - 1)
        BY <2>4, <2>5
    <2>7. n - 1 \notin Bad
        BY <2>4, <2>6
    <2>8. PICK f : Good(f, n - 1)
        BY <2>6, <2>7 DEF Bad
    <2>9. \E g : Good(g, (n - 1) + 1)
        BY <1>13, <2>6, <2>8
    <2>10. \E g : Good(g, n)
        BY <2>6, <2>9
    <2>. QED  BY <2>3, <2>10 DEF Bad
<1>15. \E f \in [All -> Seq(Labels)] : IsPaths(f, loc)
    <2>1. Cardinality(All) \in Nat
        BY DtreeAssumption, FS_CardinalityType
    <2>2. PICK f : Good(f, Cardinality(All))
        BY <1>14, <2>1
    <2>3. \A d \in All : depth[d] <= Cardinality(All)
        BY <1>8, <2>1
    <2>4. /\ f \in [All -> Seq(Labels)]
          /\ \A d \in All : f[d] = IF loc[d][1] \in All THEN Append(f[loc[d][1]], loc[d][2]) ELSE loc[d]
        BY <2>2, <2>3 DEF Good
    <2>5. f = [d \in All |-> f[d]]
        BY <2>4
    <2>6. IsPaths(f, loc)
        BY <2>4, <2>5, IsPathsPointwise, Zenon
    <2>. QED  BY <2>4, <2>6
<1>16. ASSUME NEW d \in All, Exists(loc, d)
       PROVE  loc[d][1] \in {c \in All : Exists(loc, c)} \cup {Top, Away}
    <2>1. CASE d \in Root
        BY <1>4, <2>1
    <2>2. CASE d \in Dir
        BY <1>6, <1>7, <1>9, <1>16, <2>2 DEF All
    <2>. QED  BY <2>1, <2>2 DEF All
<1>17. ASSUME NEW c \in All, NEW d \in All, Exists(loc, c), loc[c] = loc[d] PROVE c = d
    <2>1. Exists(loc, d)
        BY <1>17 DEF Exists
    <2>2. CASE c \in Root /\ d \in Root
        BY <1>4, <1>17, <2>2
    <2>3. CASE c \in Dir /\ d \in Dir
        BY <1>2, <1>5, <1>6, <1>17, <2>1, <2>3 DEF InitForest
    <2>4. \A b \in Root, a \in Dir : Exists(loc, a) => loc[a] # loc[b]
        BY <1>4, <1>6, <1>9, GoneIsNowhere DEF All, Linked
    <2>. QED  BY <1>17, <2>1, <2>2, <2>3, <2>4 DEF All
<1>18. \A d \in Dir : loc[d][1] # Top
    BY <1>6, <1>9, GoneIsNowhere DEF Exists, All, Linked
<1>19. \A r \in Root : loc[r] \in {<<Top, r>>, <<Away, r>>, Gone}
    BY <1>4
<1>. QED  BY <1>3, <1>15, <1>16, <1>17, <1>18, <1>19, Zenon DEF IsTree

-----------------------------------------------------------------------------
(* What the paths and the cache are made of.                               *)

Below == {p \in Seq(Labels) : Len(p) >= 2 /\ p[1] = Top}
Item == [stage : {"visit", "list"}, path : Below]

Tree == IsTree(loc)
HeldLive == \A m \in Mover : \A r \in moving[m] : r.to \in Live \cup {Away}
WatchedLive == \A d \in All : watch[d] # 0 => d \in Live

\* The entries of the cache are for descriptors given out, and for paths from Top.
Entries == \A e \in cache : e[1] \in Nat /\ 0 < e[1] /\ e[1] < nextWd /\ e[2] \in Below

\* An IN_MOVE_SELF still to be read is not of a root in its place.
Pending == ToSet(buf) \cup ToSet(queue)
SelfMoves == \A e \in Pending : e.mask = "MOVE_SELF" =>
                /\ e.wd \in Nat /\ e.wd < nextWd
                /\ \A d \in All : watch[d] = e.wd /\ watch[d] # 0 => loc[d][1] # Top

\* The roots in their place are monitored, each by its own watch.
RootsOK ==
    /\ roots \subseteq {<<Top, r>> : r \in Root}
    /\ pc # "exited" => roots # {}
    /\ \A r \in Root : loc[r] = <<Top, r>> => <<Top, r>> \in roots
    /\ \A r \in Root : \A e \in cache : e[2] = <<Top, r>> => watch[r] = e[1] \/ loc[r] = Gone
WalksOK ==
    /\ pc = "walk" <=> walks # <<>>
    /\ walks \in Seq(Seq(Item) \ {<<>>})
CommandReads == pc = "command" => buf = <<>>

Files == Tree /\ HeldLive
Struct == Files /\ WatchedLive /\ Entries /\ SelfMoves /\ RootsOK /\ WalksOK /\ CommandReads

-----------------------------------------------------------------------------
(* Steps of other processes.                                               *)

\* Live is what is linked in loc.
LEMMA LiveIs == /\ \A d \in All : d \in Live <=> Exists(loc, d)
                /\ \A d \in All : d \in Live' <=> Exists(loc', d)
                /\ Live \subseteq All /\ Live' \subseteq All
BY DEF Live, Exists

\* What is known of the paths of directories.
LEMMA PathFacts ==
    ASSUME Tree
    PROVE  /\ PathOf \in [All -> Seq(Labels)]
           /\ \A d \in All : loc[d][1] \in All => PathOf[d] = Append(PathOf[loc[d][1]], loc[d][2])
           /\ \A d \in All : loc[d][1] \notin All => PathOf[d] = loc[d]
           /\ \A d \in All : Len(PathOf[d]) \in Nat /\ Len(PathOf[d]) >= 2
           /\ \A d \in All : Len(PathOf[d]) = 2 <=> loc[d][1] \notin All
           /\ \A d \in Live : Shape(loc, PathOf[d])
           /\ \A d \in All : d \notin Live => PathOf[d] = Gone
           /\ \A c \in Live, d \in All : PathOf[c] = PathOf[d] => c = d
<1>. DEFINE P == Paths(loc)
<1>1. PathOf = P
    BY PathOfIsPaths
<1>2. /\ P \in [All -> Seq(Labels)]
      /\ \A d \in All : loc[d][1] \in All => P[d] = Append(P[loc[d][1]], loc[d][2])
      /\ \A d \in All : loc[d][1] \notin All => P[d] = loc[d]
    BY PathsOfTree DEF Tree
<1>3. \A d \in All : Len(P[d]) \in Nat /\ Len(P[d]) >= 2 /\ (Len(P[d]) = 2 <=> loc[d][1] \notin All)
    BY PathLength DEF Tree
<1>4. \A d \in All : (Exists(loc, d) => Shape(loc, P[d])) /\ (~Exists(loc, d) => P[d] = Gone)
    BY PathShape DEF Tree
<1>5. \A c, d \in All : Exists(loc, c) /\ P[c] = P[d] => c = d
    BY PathsInjective DEF Tree
<1>6. \A d \in All : d \in Live <=> Exists(loc, d)
    BY LiveIs
<1>7. Live \subseteq All
    BY LiveIs
<1>. HIDE DEF P
<1>8. (\A d \in All : loc[d][1] \in All => P[d] = Append(P[loc[d][1]], loc[d][2]))
      <=> (\A d \in All : loc[d][1] \in All => PathOf[d] = Append(PathOf[loc[d][1]], loc[d][2]))
    BY <1>1
<1>9. /\ P \in [All -> Seq(Labels)]
      /\ \A d \in All : loc[d][1] \in All => P[d] = Append(P[loc[d][1]], loc[d][2])
      /\ \A d \in All : loc[d][1] \notin All => P[d] = loc[d]
      /\ \A d \in All : Len(P[d]) \in Nat /\ Len(P[d]) >= 2
      /\ \A d \in All : Len(P[d]) = 2 <=> loc[d][1] \notin All
      /\ \A d \in Live : Shape(loc, P[d])
      /\ \A d \in All : d \notin Live => P[d] = Gone
      /\ \A c \in Live, d \in All : P[c] = P[d] => c = d
    BY <1>2, <1>3, <1>4, <1>5, <1>6, <1>7
<1>. QED  BY <1>1, <1>9

\* Nobody is in a directory that is gone.
LEMMA ParentsLive ==
    ASSUME Tree
    PROVE  /\ \A d \in Live : loc[d][1] \in Live \cup {Top, Away}
           /\ \A d \in All : loc[d][1] \in All => d \in Live /\ loc[d][1] \in Live
BY GoneIsNowhere DEF Tree, IsTree, Live, Exists

\* mkdir(), rmdir() and rename(): the new tree and its paths.
LEMMA MkdirPaths ==
    ASSUME Tree, NEW d \in Dir, NEW up \in All, NEW n \in Name, Mkdir(d, up, n), Names'
    PROVE  /\ Tree' /\ d \notin Live /\ Live' = Live \cup {d} /\ up \in Live
           /\ PathOf' = [PathOf EXCEPT ![d] = Append(PathOf[up], n)]
           /\ PathOf'[d] = Append(PathOf[up], n) /\ \A c \in All : c # d => PathOf'[c] = PathOf[c]
           /\ loc'[d] = <<up, n>> /\ \A c \in All : c # d => loc'[c] = loc[c]
<1>. DEFINE place == <<up, n>>
<1>1. /\ loc[d] = Gone /\ up \in Live /\ (\A c \in All : loc[c] # place)
      /\ loc' = [loc EXCEPT ![d] = place]
    BY DEF Mkdir, Free
<1>2. IsTree(loc) /\ d \in All
    BY DEF Tree, All
<1>3. loc' \in Placed
    BY DEF Names, Placed
<1>4. d \notin Live
    BY <1>1 DEF Live
<1>5. \A c \in All : loc[c][1] # d
    BY <1>2, <1>4, ParentsLive DEF Tree
<1>6. place[1] = up /\ place[2] = n /\ place[1] \in All
    OBVIOUS
<1>7. place[1] # d /\ place[1] \in {c \in All : Exists(loc, c)}
    BY <1>1, <1>4, LiveIs
<1>. HIDE DEF place
<1>8. /\ IsTree(loc')
      /\ Paths(loc') = [Paths(loc) EXCEPT ![d] =
                          IF place[1] \in All THEN Append(Paths(loc)[place[1]], place[2]) ELSE place]
    BY ZenonT(60), <1>1, <1>2, <1>3, <1>5, <1>7, Replaced
<1>9. PathOf' = [PathOf EXCEPT ![d] = Append(PathOf[up], n)]
    BY <1>6, <1>8, PathOfIsPaths
<1>10. PathOf \in [All -> Seq(Labels)]
    BY PathFacts
<1>11. loc \in Placed /\ loc = [b \in All |-> loc[b]]
    BY <1>2 DEF IsTree, Placed
<1>12. loc'[d] = place /\ \A c \in All : c # d => loc'[c] = loc[c]
    BY <1>1, <1>2, <1>11
<1>13. place # Gone
    BY <1>6, GoneIsNowhere
<1>14. Live' = Live \cup {d}
    BY <1>2, <1>12, <1>13 DEF Live
<1>15. PathOf'[d] = Append(PathOf[up], n) /\ \A c \in All : c # d => PathOf'[c] = PathOf[c]
    BY <1>2, <1>9, <1>10
<1>. QED  BY <1>1, <1>4, <1>8, <1>9, <1>12, <1>14, <1>15 DEF Tree, place

\* Nothing but the directory removed loses its path.
LEMMA RmdirPaths ==
    ASSUME Tree, NEW d \in All, Rmdir(d), Names'
    PROVE  /\ Tree' /\ d \in Live /\ Live' = Live \ {d}
           /\ PathOf'[d] = Gone /\ \A c \in All : c # d => PathOf'[c] = PathOf[c]
           /\ loc'[d] = Gone /\ \A c \in All : c # d => loc'[c] = loc[c]
           /\ \A c \in All : loc[c][1] # d
<1>1. /\ d \in Live /\ Children(d) = {}
      /\ loc' = [loc EXCEPT ![d] = Gone]
    BY DEF Rmdir
<1>2. IsTree(loc)
    BY DEF Tree
<1>3. loc' \in Placed
    BY DEF Names, Placed
<1>4. \A c \in All : loc[c][1] # d
    BY <1>1 DEF Children
<1>5. Gone[1] # d /\ Gone[1] \notin All
    BY GoneIsNowhere
<1>6. /\ IsTree(loc')
      /\ Paths(loc') = [Paths(loc) EXCEPT ![d] =
                          IF Gone[1] \in All THEN Append(Paths(loc)[Gone[1]], Gone[2]) ELSE Gone]
    BY <1>1, <1>2, <1>3, <1>4, <1>5, Replaced
<1>7. PathOf' = [PathOf EXCEPT ![d] = Gone]
    BY <1>5, <1>6, PathOfIsPaths
<1>8. PathOf \in [All -> Seq(Labels)]
    BY PathFacts
<1>9. loc \in Placed /\ loc = [b \in All |-> loc[b]]
    BY <1>2 DEF IsTree, Placed
<1>10. loc'[d] = Gone /\ \A c \in All : c # d => loc'[c] = loc[c]
    BY <1>1, <1>9
<1>11. Live' = Live \ {d}
    BY <1>10 DEF Live
<1>12. PathOf'[d] = Gone /\ \A c \in All : c # d => PathOf'[c] = PathOf[c]
    BY <1>7, <1>8
<1>. QED  BY <1>1, <1>4, <1>6, <1>10, <1>11, <1>12 DEF Tree

\* The tree after a directory was moved to a place that was free.
MovedTo(d, place) ==
    /\ loc' = [loc EXCEPT ![d] = place]
    /\ Tree' /\ d \in Live /\ Live' = Live
    /\ PathAt(PathOf, place) \in Seq(Labels)
    /\ PathOf'[d] = PathAt(PathOf, place)
    /\ \A c \in All : PathOf'[c] = Moved(PathOf[c], PathOf[d], PathOf'[d])
    /\ loc'[d] = place /\ \A c \in All : c # d => loc'[c] = loc[c]

\* A move takes what is below the directory along.
LEMMA MovePaths ==
    ASSUME Tree, NEW d \in Live, NEW place, loc' = [loc EXCEPT ![d] = place], loc' \in Placed,
           place[1] \in Live \cup {Away}, place[1] \in Live => ~IsPrefix(PathOf[d], PathOf[place[1]]),
           d \in Root => place = <<Away, d>>, \A c \in All : loc[c] # place
    PROVE  MovedTo(d, place)
<1>1. IsTree(loc) /\ d \in All /\ Exists(loc, d)
    BY LiveIs DEF Tree
<1>2. place[1] \in {c \in All : Exists(loc, c)} \cup {Away}
    BY LiveIs
<1>3. PathOf = Paths(loc)
    BY PathOfIsPaths
<1>4. place[1] \in All => ~IsPrefix(Paths(loc)[d], Paths(loc)[place[1]])
    BY <1>3, GoneIsNowhere
<1>5. HasMoved(loc, d, place, loc')
    <2>1. CanMove(loc, d, place, loc')
        BY <1>1, <1>2, <1>4 DEF CanMove
    <2>. QED  BY <2>1, MovedTree
<1>6. /\ PathAt(PathOf, place) \in Seq(Labels)
      /\ PathOf'[d] = PathAt(PathOf, place)
      /\ \A c \in All : PathOf'[c] = Moved(PathOf[c], PathOf[d], PathAt(PathOf, place))
    BY <1>5, PathOfIsPaths DEF HasMoved
<1>7. \A c \in All : PathOf'[c] = Moved(PathOf[c], PathOf[d], PathOf'[d])
    BY <1>6
<1>8. loc = [b \in All |-> loc[b]]
    BY <1>1 DEF IsTree, Placed
<1>9. loc'[d] = place /\ \A c \in All : c # d => loc'[c] = loc[c]
    BY <1>1, <1>8
<1>10. place # Gone
    BY <1>2, GoneIsNowhere
<1>11. Live' = Live
    BY <1>1, <1>9, <1>10 DEF Live
<1>. QED  BY <1>5, <1>6, <1>7, <1>9, <1>11 DEF MovedTo, Tree, HasMoved

\* rename() is such a move.
LEMMA RenamePaths ==
    ASSUME Tree, NEW m \in Mover, NEW d \in Dir, NEW up \in All \cup {Away}, NEW n \in Name,
           RenameFrom(m, d, up, n), Names'
    PROVE  MovedTo(d, <<up, n>>)
<1>. DEFINE place == <<up, n>>
<1>1. /\ d \in Live /\ up \in Live \cup {Away} /\ (\A c \in All : loc[c] # place)
      /\ up \in Live => ~IsPrefix(PathOf[d], PathOf[up])
      /\ loc' = [loc EXCEPT ![d] = place]
    BY DEF RenameFrom, Free
<1>2. place[1] = up
    OBVIOUS
<1>3. d \notin Root
    BY DtreeAssumption
<1>4. loc' \in Placed
    BY DEF Names, Placed
<1>. HIDE DEF place
<1>5. MovedTo(d, place)
    BY <1>1, <1>2, <1>3, <1>4, MovePaths
<1>. QED  BY <1>5 DEF place

\* So is a rename of a root.
LEMMA MoveRootPaths ==
    ASSUME Tree, NEW d \in Root, MoveRoot(d), Names'
    PROVE  MovedTo(d, <<Away, d>>)
<1>. DEFINE place == <<Away, d>>
<1>1. /\ d \in Live /\ (\A c \in All : loc[c] # place)
      /\ loc' = [loc EXCEPT ![d] = place]
    BY DEF MoveRoot, Free
<1>2. place[1] = Away /\ Away \notin Live
    BY GoneIsNowhere, LiveIs
<1>3. loc' \in Placed
    BY DEF Names, Placed
<1>4. d \in Root => place = <<Away, d>>
    OBVIOUS
<1>. HIDE DEF place
<1>5. MovedTo(d, place)
    BY <1>1, <1>2, <1>3, <1>4, MovePaths
<1>. QED  BY <1>5 DEF place

\* What each change of the tree queues.
LEMMA MkdirEvents ==
    ASSUME IInv, NEW up \in All, NEW n \in Name
    PROVE  /\ Event(up, "CREATE", n, 0) \in Seq(Events)
           /\ \A e \in ToSet(Event(up, "CREATE", n, 0)) : e.mask = "CREATE"
<1>1. "CREATE" \in Masks /\ n \in Name \cup {Nowhere} /\ 0 \in 0..MaxOps /\ Descriptors
    BY DtreeAssumption DEF Masks, IInv, Books
<1>2. Event(up, "CREATE", n, 0) \in Seq(Events)
    BY <1>1, EventFacts
<1>3. \A e \in ToSet(Event(up, "CREATE", n, 0)) : e.mask = "CREATE"
    BY EventElements
<1>. QED  BY <1>2, <1>3

\* rmdir() queues two events, if the directory is watched.
LEMMA RmdirEvents ==
    ASSUME IInv, NEW d \in All, NEW es,
           es = Event(d, "DELETE_SELF", Nowhere, 0) \o Event(d, "IGNORED", Nowhere, 0)
    PROVE  /\ es \in Seq(Events)
           /\ \A e \in ToSet(es) : e.mask \in {"DELETE_SELF", "IGNORED"}
<1>1. /\ "DELETE_SELF" \in Masks /\ "IGNORED" \in Masks /\ Nowhere \in Name \cup {Nowhere}
      /\ 0 \in 0..MaxOps /\ Descriptors
    BY DtreeAssumption DEF Masks, IInv, Books
<1>. DEFINE del == Event(d, "DELETE_SELF", Nowhere, 0)
            ign == Event(d, "IGNORED", Nowhere, 0)
<1>2. del \in Seq(Events)
    BY <1>1, EventFacts
<1>3. ign \in Seq(Events)
    BY <1>1, EventFacts
<1>4. \A e \in ToSet(del) : e.mask = "DELETE_SELF"
    BY EventElements
<1>5. \A e \in ToSet(ign) : e.mask = "IGNORED"
    BY EventElements
<1>6. es = del \o ign
    OBVIOUS
<1>. HIDE DEF del, ign
<1>7. del \o ign \in Seq(Events) /\ ToSet(del \o ign) = ToSet(del) \cup ToSet(ign)
    BY <1>2, <1>3, ConcatProperties, ConcatElements
<1>. QED  BY <1>4, <1>5, <1>6, <1>7

\* rename() first queues an IN_MOVED_FROM, if its directory is watched.
LEMMA RenameFromEvents ==
    ASSUME IInv, NEW d \in Dir, ops < MaxOps, ops' = ops + 1
    PROVE  /\ Event(loc[d][1], "MOVED_FROM", loc[d][2], ops') \in Seq(Events)
           /\ \A e \in ToSet(Event(loc[d][1], "MOVED_FROM", loc[d][2], ops')) : e.mask = "MOVED_FROM"
           /\ ops' \in 0..MaxOps
<1>1. "MOVED_FROM" \in Masks /\ loc[d][2] \in Name \cup {Nowhere} /\ Descriptors
    BY DEF Masks, IInv, State, Names, Books
<1>2. ops' \in 0..MaxOps
    BY DtreeAssumption DEF IInv, State, Renames
<1>3. ASSUME NEW c \in 0..MaxOps
      PROVE  Event(loc[d][1], "MOVED_FROM", loc[d][2], c) \in Seq(Events)
    BY <1>1, EventFacts
<1>4. \A e \in ToSet(Event(loc[d][1], "MOVED_FROM", loc[d][2], ops')) : e.mask = "MOVED_FROM"
    BY EventElements
<1>. QED  BY <1>2, <1>3, <1>4

\* Then an IN_MOVED_TO, if the other is.
LEMMA RenameToEvents ==
    ASSUME IInv, NEW m \in Mover, NEW r \in moving[m]
    PROVE  /\ Event(r.to, "MOVED_TO", r.name, r.cookie) \in Seq(Events)
           /\ \A e \in ToSet(Event(r.to, "MOVED_TO", r.name, r.cookie)) : e.mask = "MOVED_TO"
<1>1. "MOVED_TO" \in Masks /\ r.name \in Name \cup {Nowhere} /\ r.cookie \in 0..MaxOps /\ Descriptors
    BY DEF Masks, IInv, State, Renames, Books
<1>2. Event(r.to, "MOVED_TO", r.name, r.cookie) \in Seq(Events)
    BY <1>1, EventFacts
<1>3. \A e \in ToSet(Event(r.to, "MOVED_TO", r.name, r.cookie)) : e.mask = "MOVED_TO"
    BY EventElements
<1>. QED  BY <1>2, <1>3

\* A root's rename queues an IN_MOVE_SELF, if it is watched.
LEMMA MoveRootEvents ==
    ASSUME IInv, NEW d \in Root
    PROVE  /\ Event(d, "MOVE_SELF", Nowhere, 0) \in Seq(Events)
           /\ \A e \in ToSet(Event(d, "MOVE_SELF", Nowhere, 0)) :
                e.mask = "MOVE_SELF" /\ e.wd = watch[d] /\ watch[d] # 0
<1>1. "MOVE_SELF" \in Masks /\ Nowhere \in Name \cup {Nowhere} /\ 0 \in 0..MaxOps /\ Descriptors
    BY DtreeAssumption DEF Masks, IInv, Books
<1>2. Event(d, "MOVE_SELF", Nowhere, 0) \in Seq(Events)
    BY <1>1, EventFacts
<1>3. \A e \in ToSet(Event(d, "MOVE_SELF", Nowhere, 0)) :
                e.mask = "MOVE_SELF" /\ e.wd = watch[d] /\ watch[d] # 0
    BY EventElements
<1>. QED  BY <1>2, <1>3

\* A root's rename that is read later is still one of a root that is not in its place.
LEMMA SelfMovesKept ==
    ASSUME IInv, SelfMoves, NEW es \in Seq(Events), queue' = Posts(queue, es), UNCHANGED <<buf, nextWd>>,
           \A e \in ToSet(es) : e.mask = "MOVE_SELF" =>
                /\ e.wd \in Nat /\ e.wd < nextWd
                /\ \A d \in All : watch'[d] = e.wd /\ watch'[d] # 0 => loc'[d][1] # Top,
           \A d \in All : watch'[d] # 0 => watch'[d] = watch[d] /\ (loc[d][1] # Top => loc'[d][1] # Top)
    PROVE  SelfMoves'
<1>1. QueueOK(queue)
    BY DEF IInv, State, Reading
<1>2. ToSet(queue') \subseteq ToSet(queue) \cup ToSet(es) \cup {Overflow}
    BY <1>1, PostsFacts
<1>3. Overflow.mask # "MOVE_SELF"
    BY DEF Overflow
<1>4. ASSUME NEW e \in Pending', e.mask = "MOVE_SELF"
      PROVE  /\ e.wd \in Nat /\ e.wd < nextWd'
             /\ \A d \in All : watch'[d] = e.wd /\ watch'[d] # 0 => loc'[d][1] # Top
    <2>1. e \in Pending \/ e \in ToSet(es)
        BY <1>2, <1>3, <1>4 DEF Pending
    <2>. QED  BY <1>4, <2>1 DEF SelfMoves
<1>. QED  BY <1>4, Zenon DEF SelfMoves

\* Other processes leave the program's own state as it is.
LEMMA ProgramKept ==
    ASSUME Entries, WalksOK, CommandReads, UNCHANGED <<nextWd, program>>
    PROVE  /\ Entries' /\ WalksOK' /\ CommandReads'
           /\ UNCHANGED <<pc, rset, cache, roots, buf, firstTry, walks>>
BY DEF Entries, WalksOK, CommandReads, program

\* Struct after each step of another process.
LEMMA MkdirStruct ==
    ASSUME IInv, IInv', Struct, NEW d \in Dir, NEW up \in All, NEW n \in Name, Mkdir(d, up, n)
    PROVE  Struct'
<1>1. /\ queue' = Posts(queue, Event(up, "CREATE", n, 0)) /\ UNCHANGED moving
      /\ UNCHANGED <<watch, nextWd, program>>
    BY DEF Mkdir
<1>2. /\ Tree' /\ d \notin Live /\ Live' = Live \cup {d} /\ up \in Live
      /\ loc'[d] = <<up, n>> /\ \A c \in All : c # d => loc'[c] = loc[c]
    BY MkdirPaths DEF Struct, Files, IInv, State
<1>3. UNCHANGED <<pc, cache, roots, buf>> /\ Entries' /\ WalksOK' /\ CommandReads'
    BY <1>1, ProgramKept DEF Struct
<1>4. d \in All /\ d \notin Root /\ watch[d] = 0
    BY <1>2, DtreeAssumption DEF Struct, WatchedLive, All
<1>5. HeldLive' /\ WatchedLive'
    BY <1>1, <1>2 DEF Struct, Files, HeldLive, WatchedLive
<1>6. SelfMoves'
    <2>. DEFINE es == Event(up, "CREATE", n, 0)
    <2>1. es \in Seq(Events) /\ \A e \in ToSet(es) : e.mask = "CREATE"
        BY MkdirEvents
    <2>2. queue' = Posts(queue, es)
        BY <1>1
    <2>. HIDE DEF es
    <2>3. \A c \in All : watch'[c] # 0 => watch'[c] = watch[c] /\ (loc[c][1] # Top => loc'[c][1] # Top)
        BY <1>1, <1>2, <1>4
    <2>. QED  BY <1>1, <1>3, <2>1, <2>2, <2>3, SelfMovesKept DEF Struct
<1>7. RootsOK'
    BY <1>1, <1>2, <1>3, <1>4 DEF Struct, RootsOK, All
<1>. QED  BY <1>2, <1>3, <1>5, <1>6, <1>7 DEF Struct, Files

\* rmdir().
LEMMA RmdirStruct ==
    ASSUME IInv, IInv', Struct, NEW d \in All, Rmdir(d)
    PROVE  Struct'
<1>. DEFINE es == Event(d, "DELETE_SELF", Nowhere, 0) \o Event(d, "IGNORED", Nowhere, 0)
<1>1. /\ d \notin Held /\ watch' = [watch EXCEPT ![d] = 0] /\ queue' = Posts(queue, es)
      /\ UNCHANGED <<moving, nextWd, program>>
    BY DEF Rmdir
<1>2. /\ Tree' /\ d \in Live /\ Live' = Live \ {d}
      /\ loc'[d] = Gone /\ \A c \in All : c # d => loc'[c] = loc[c]
    BY RmdirPaths DEF Struct, Files, IInv, State
<1>3. UNCHANGED <<pc, cache, roots, buf>> /\ Entries' /\ WalksOK' /\ CommandReads'
    BY <1>1, ProgramKept DEF Struct
<1>4. es \in Seq(Events) /\ \A e \in ToSet(es) : e.mask \in {"DELETE_SELF", "IGNORED"}
    BY RmdirEvents
<1>. HIDE DEF es
<1>5. watch'[d] = 0 /\ \A c \in All : c # d => watch'[c] = watch[c]
    BY <1>1 DEF IInv, Books, Descriptors
<1>6. HeldLive'
    <2>1. \A m \in Mover : \A r \in moving[m] : r.to # d
        BY <1>1 DEF Held
    <2>. QED  BY <1>1, <1>2, <2>1 DEF Struct, Files, HeldLive
<1>7. WatchedLive'
    BY <1>2, <1>5 DEF Struct, WatchedLive
<1>8. SelfMoves'
    <2>1. \A c \in All : watch'[c] # 0 => watch'[c] = watch[c] /\ (loc[c][1] # Top => loc'[c][1] # Top)
        BY <1>2, <1>5
    <2>. QED  BY <1>1, <1>3, <1>4, <2>1, SelfMovesKept DEF Struct
<1>9. RootsOK'
    <2>1. \A r \in Root : loc'[r] = <<Top, r>> => loc[r] = <<Top, r>>
        <3>1. Gone[1] # Top
            BY GoneIsNowhere
        <3>. QED  BY <1>2, <3>1 DEF All
    <2>2. \A r \in Root : (watch'[r] = watch[r] /\ loc'[r] = loc[r]) \/ loc'[r] = Gone
        BY <1>2, <1>5 DEF All
    <2>. QED  BY <1>3, <2>1, <2>2 DEF Struct, RootsOK
<1>. QED  BY <1>2, <1>3, <1>6, <1>7, <1>8, <1>9 DEF Struct, Files

\* rename(), its first half.
LEMMA RenameFromStruct ==
    ASSUME IInv, IInv', Struct, NEW m \in Mover, NEW d \in Dir, NEW up \in All \cup {Away}, NEW n \in Name,
           RenameFrom(m, d, up, n)
    PROVE  Struct'
<1>. DEFINE es == Event(loc[d][1], "MOVED_FROM", loc[d][2], ops')
            r == [from |-> loc[d][1], to |-> up, name |-> n, cookie |-> ops']
<1>1. /\ queue' = Posts(queue, es) /\ moving' = [moving EXCEPT ![m] = {r}]
      /\ up \in Live \cup {Away} /\ ops < MaxOps /\ ops' = ops + 1
      /\ UNCHANGED <<watch, nextWd, program>>
    BY DEF RenameFrom, Change
<1>2. /\ Tree' /\ Live' = Live
      /\ loc'[d] = <<up, n>> /\ \A c \in All : c # d => loc'[c] = loc[c]
    <2>1. MovedTo(d, <<up, n>>)
        BY RenamePaths DEF Struct, Files, IInv, State
    <2>. QED  BY <2>1 DEF MovedTo
<1>3. UNCHANGED <<pc, cache, roots, buf>> /\ Entries' /\ WalksOK' /\ CommandReads'
    BY <1>1, ProgramKept DEF Struct
<1>4. es \in Seq(Events) /\ \A e \in ToSet(es) : e.mask = "MOVED_FROM"
    BY <1>1, RenameFromEvents
<1>5. r.to = up
    OBVIOUS
<1>. HIDE DEF es, r
<1>6. HeldLive'
    <2>1. \A k \in Mover : moving'[k] = IF k = m THEN {r} ELSE moving[k]
        BY <1>1 DEF IInv, State, Renames
    <2>. QED  BY <1>1, <1>2, <1>5, <2>1 DEF Struct, Files, HeldLive
<1>7. WatchedLive'
    BY <1>1, <1>2 DEF Struct, WatchedLive
<1>8. SelfMoves'
    <2>1. \A c \in All : watch'[c] # 0 => watch'[c] = watch[c] /\ (loc[c][1] # Top => loc'[c][1] # Top)
        <3>1. up # Top
            BY <1>1, LiveIs, GoneIsNowhere
        <3>. QED  BY <1>1, <1>2, <3>1
    <2>. QED  BY <1>1, <1>3, <1>4, <2>1, SelfMovesKept DEF Struct
<1>9. RootsOK'
    <2>1. d \notin Root
        BY DtreeAssumption
    <2>. QED  BY <1>1, <1>2, <1>3, <2>1 DEF Struct, RootsOK, All
<1>. QED  BY <1>2, <1>3, <1>6, <1>7, <1>8, <1>9 DEF Struct, Files

\* rename(), its second half.
LEMMA RenameToStruct ==
    ASSUME IInv, IInv', Struct, NEW m \in Mover, RenameTo(m)
    PROVE  Struct'
<1>1. PICK r \in moving[m] :
          /\ moving' = [moving EXCEPT ![m] = {}]
          /\ queue' = Posts(queue, Event(r.to, "MOVED_TO", r.name, r.cookie))
          /\ UNCHANGED <<loc, ops, watch, nextWd, program, shaken>>
    BY DEF RenameTo
<1>. DEFINE es == Event(r.to, "MOVED_TO", r.name, r.cookie)
<1>2. UNCHANGED <<pc, cache, roots, buf>> /\ Entries' /\ WalksOK' /\ CommandReads'
    BY <1>1, ProgramKept DEF Struct
<1>3. es \in Seq(Events) /\ \A e \in ToSet(es) : e.mask = "MOVED_TO"
    BY RenameToEvents
<1>4. queue' = Posts(queue, es)
    BY <1>1
<1>. HIDE DEF es
<1>5. Tree' /\ Live' = Live
    BY <1>1 DEF Struct, Files, Tree, Live
<1>6. HeldLive'
    <2>1. \A k \in Mover : moving'[k] = IF k = m THEN {} ELSE moving[k]
        BY <1>1 DEF IInv, State, Renames
    <2>. QED  BY <1>1, <1>5, <2>1 DEF Struct, Files, HeldLive
<1>7. WatchedLive' /\ RootsOK'
    BY <1>1, <1>2, <1>5 DEF Struct, WatchedLive, RootsOK
<1>8. SelfMoves'
    <2>1. \A c \in All : watch'[c] # 0 => watch'[c] = watch[c] /\ (loc[c][1] # Top => loc'[c][1] # Top)
        BY <1>1
    <2>. QED  BY <1>1, <1>2, <1>3, <1>4, <2>1, SelfMovesKept DEF Struct
<1>. QED  BY <1>2, <1>5, <1>6, <1>7, <1>8 DEF Struct, Files

\* A root's rename.
LEMMA MoveRootStruct ==
    ASSUME IInv, IInv', Struct, NEW d \in Root, MoveRoot(d)
    PROVE  Struct'
<1>. DEFINE es == Event(d, "MOVE_SELF", Nowhere, 0)
<1>1. queue' = Posts(queue, es) /\ UNCHANGED <<moving, watch, nextWd, program>>
    BY DEF MoveRoot
<1>2. /\ Tree' /\ d \in Live /\ Live' = Live
      /\ loc'[d] = <<Away, d>> /\ \A c \in All : c # d => loc'[c] = loc[c]
    <2>1. MovedTo(d, <<Away, d>>)
        BY MoveRootPaths DEF Struct, Files, IInv, State
    <2>. QED  BY <2>1 DEF MovedTo
<1>3. UNCHANGED <<pc, cache, roots, buf>> /\ Entries' /\ WalksOK' /\ CommandReads'
    BY <1>1, ProgramKept DEF Struct
<1>4. es \in Seq(Events) /\ \A e \in ToSet(es) : e.mask = "MOVE_SELF" /\ e.wd = watch[d] /\ watch[d] # 0
    BY MoveRootEvents
<1>. HIDE DEF es
<1>5. d \in All /\ d \notin Dir
    BY DtreeAssumption DEF All
<1>6. HeldLive' /\ WatchedLive'
    BY <1>1, <1>2 DEF Struct, Files, HeldLive, WatchedLive
<1>7. SelfMoves'
    <2>1. \A c \in All : watch'[c] # 0 => watch'[c] = watch[c] /\ (loc[c][1] # Top => loc'[c][1] # Top)
        BY <1>1, <1>2, GoneIsNowhere
    <2>2. ASSUME NEW e \in ToSet(es)
          PROVE  /\ e.wd \in Nat /\ e.wd < nextWd
                 /\ \A c \in All : watch'[c] = e.wd /\ watch'[c] # 0 => loc'[c][1] # Top
        BY <1>1, <1>2, <1>4, <1>5, GoneIsNowhere DEF IInv, Books, Descriptors
    <2>. QED  BY <1>1, <1>3, <1>4, <2>1, <2>2, SelfMovesKept DEF Struct
<1>8. RootsOK'
    <2>1. \A r \in Root : loc'[r] = <<Top, r>> => loc[r] = <<Top, r>>
        BY <1>2, GoneIsNowhere DEF All
    <2>2. \A r \in Root : loc[r] = Gone => loc'[r] = Gone
        BY <1>2 DEF Live, All
    <2>. QED  BY <1>1, <1>3, <2>1, <2>2 DEF Struct, RootsOK
<1>. QED  BY <1>2, <1>3, <1>6, <1>7, <1>8 DEF Struct, Files

-----------------------------------------------------------------------------
(* Steps of the program.                                                   *)

\* A list of a finite set, in whatever order, has all its elements.
LEMMA ListCovers ==
    ASSUME NEW S, IsFiniteSet(S)
    PROVE  /\ SetToSeq(S) \in Seq(S) /\ ToSet(SetToSeq(S)) = S /\ Len(SetToSeq(S)) = Cardinality(S)
           /\ S # {} => SetToSeq(S) # <<>>
           /\ \A s \in SetToSeqs(S) : s \in Seq(S) /\ ToSet(s) = S
<1>. DEFINE n == Cardinality(S)
<1>1. n \in Nat
    BY FS_CardinalityType
<1>2. IsFiniteSet(1..n) /\ Cardinality(1..n) = n
    BY <1>1, FS_Interval
<1>3. ASSUME NEW f \in [1..n -> S], IsInjective(f)
      PROVE  f \in Seq(S) /\ ToSet(f) = S /\ Len(f) = n
    <2>1. f \in Seq(S) /\ Len(f) = n
        BY <1>1, <1>3
    <2>2. f \in Injection(1..n, S)
        BY <1>3 DEF Injection
    <2>3. f \in Surjection(1..n, S)
        BY <1>2, <2>2, FS_Injection
    <2>4. \A x \in S : \E i \in 1..n : f[i] = x
        BY <2>3 DEF Surjection
    <2>5. ToSet(f) = S
        BY <1>3, <2>4 DEF ToSet
    <2>. QED  BY <2>1, <2>5
<1>4. PICK f : f \in Bijection(1..n, S)
    BY FS_CardinalityType DEF ExistsBijection
<1>5. f \in [1..n -> S] /\ IsInjective(f)
    BY <1>4 DEF Bijection, Injection
<1>6. SetToSeq(S) \in [1..n -> S] /\ IsInjective(SetToSeq(S))
    BY <1>5 DEF SetToSeq
<1>7. ASSUME NEW s \in SetToSeqs(S)
      PROVE  s \in [1..n -> S] /\ IsInjective(s)
    BY DEF SetToSeqs, IsInjective
<1>8. ASSUME S # {} PROVE n # 0
    BY <1>1, <1>8, FS_EmptySet
<1>9. S # {} => SetToSeq(S) # <<>>
    BY <1>3, <1>6, <1>8, EmptySeq
<1>10. SetToSeq(S) \in Seq(S) /\ ToSet(SetToSeq(S)) = S /\ Len(SetToSeq(S)) = n
    BY <1>3, <1>6, Zenon
<1>11. \A s \in SetToSeqs(S) : s \in Seq(S) /\ ToSet(s) = S
    BY <1>3, <1>7, Zenon
<1>. QED  BY <1>9, <1>10, <1>11

\* Events are only ever added at the end of the queue.
LEMMA PostsAppends ==
    ASSUME NEW q, QueueOK(q), NEW es \in Seq(Events)
    PROVE  \E t \in Seq(Events) : Posts(q, es) = q \o t /\ ToSet(t) \subseteq ToSet(es) \cup {Overflow}
<1>1. q \in Seq(Events) /\ Len(q) \in Nat /\ QMax \in Nat /\ Overflow \in Events
    BY LenProperties, DtreeAssumption DEF QueueOK, Overflow, Events
<1>2. ASSUME NEW fs1 \in Seq(Events)
      PROVE  \E t \in Seq(Events) : Post(q, fs1) = q \o t /\ ToSet(t) \subseteq ToSet(fs1) \cup {Overflow}
    <2>1. Len(fs1) \in Nat
        BY LenProperties
    <2>2. CASE Len(q) + Len(fs1) <= QMax
        <3>1. Post(q, fs1) = q \o fs1
            BY <2>2 DEF Post
        <3>. QED  BY <3>1
    <2>3. CASE ~(Len(q) + Len(fs1) <= QMax)
        <3>. DEFINE part == SubSeq(fs1, 1, QMax - Len(q))
                    over == Append(part, Overflow)
        <3>1. part \in Seq(Events) /\ ToSet(part) \subseteq ToSet(fs1)
            BY <1>1, <2>1, <2>3, PartElements
        <3>2. Post(q, fs1) = IF Overflow \in ToSet(q \o part) THEN q \o part ELSE Append(q \o part, Overflow)
            BY <2>3 DEF Post
        <3>. HIDE DEF part
        <3>3. over \in Seq(Events) /\ ToSet(over) = ToSet(part) \cup {Overflow}
            BY <1>1, <3>1, AppendElements
        <3>4. Append(q \o part, Overflow) = q \o over
            <4>1. q \o part \in Seq(Events)
                BY <1>1, <3>1, ConcatProperties
            <4>2. Append(q \o part, Overflow) = (q \o part) \o <<Overflow>>
                BY <1>1, <4>1, AppendIsConcat
            <4>3. over = part \o <<Overflow>>
                BY <1>1, <3>1, AppendIsConcat
            <4>4. <<Overflow>> \in Seq(Events)
                BY <1>1
            <4>5. (q \o part) \o <<Overflow>> = q \o (part \o <<Overflow>>)
                BY <1>1, <3>1, <4>4, ConcatAssociative
            <4>. QED  BY <4>2, <4>3, <4>5
        <3>. HIDE DEF over
        <3>. QED  BY <3>1, <3>2, <3>3, <3>4
    <2>. QED  BY <2>2, <2>3
<1>3. CASE ~Merges(q, es)
    BY <1>2, <1>3 DEF Posts
<1>4. CASE Merges(q, es)
    <2>1. es # <<>> /\ Len(es) \in Nat \ {0}
        BY <1>4, EmptySeq DEF Merges
    <2>2. Tail(es) = SubSeq(es, 2, Len(es)) /\ Tail(es) \in Seq(Events)
        BY <2>1, TailIsSubSeq, HeadTailProperties
    <2>3. ToSet(SubSeq(es, 2, Len(es))) \subseteq ToSet(es)
        BY <2>1, PartElements
    <2>4. Posts(q, es) = Post(q, Tail(es))
        BY <1>4 DEF Posts
    <2>5. PICK t \in Seq(Events) : Post(q, Tail(es)) = q \o t /\ ToSet(t) \subseteq ToSet(Tail(es)) \cup {Overflow}
        BY <1>2, <2>2
    <2>. QED  BY <2>2, <2>3, <2>4, <2>5
<1>. QED  BY <1>3, <1>4

\* Watches removed leave IN_IGNORED events at the end of the queue.
LEMMA ZapQueues ==
    ASSUME IInv, NEW entries \in SUBSET cache, Zap(entries)
    PROVE  \E t \in Seq(Events) : /\ queue' = queue \o t
                                  /\ \A e \in ToSet(t) : e.mask \in {"IGNORED", "Q_OVERFLOW"}
<1>. DEFINE wds == {e[1] : e \in entries}
            f == [e \in entries |-> e[1]]
<1>1. IsFiniteSet(entries) /\ \A e \in entries : e[1] \in Nat
    BY FS_Subset DEF IInv, Books, CacheTypes
<1>2. f \in Surjection(entries, wds)
    BY DEF Surjection
<1>3. IsFiniteSet(wds)
    BY <1>1, <1>2, FS_Surjection
<1>4. \A w \in wds : w \in Nat
    BY <1>1
<1>5. queue' = Posts(queue, Ignored(wds))
    BY DEF Zap
<1>. HIDE DEF wds
<1>6. Ignored(wds) \in Seq(Events) /\ \A e \in ToSet(Ignored(wds)) : e.mask = "IGNORED"
    BY <1>3, <1>4, IgnoredFacts
<1>7. QueueOK(queue)
    BY DEF IInv, State, Reading
<1>8. PICK t \in Seq(Events) : /\ Posts(queue, Ignored(wds)) = queue \o t
                               /\ ToSet(t) \subseteq ToSet(Ignored(wds)) \cup {Overflow}
    BY <1>6, <1>7, PostsAppends
<1>9. Overflow.mask = "Q_OVERFLOW"
    BY DEF Overflow
<1>10. \A e \in ToSet(t) : e.mask \in {"IGNORED", "Q_OVERFLOW"}
    BY <1>6, <1>8, <1>9
<1>. QED  BY <1>5, <1>8, <1>10

\* nftw() starts at the paths given.
LEMMA WalksStarted ==
    ASSUME NEW paths \in Seq(Below), paths # <<>>, StartWalks(paths)
    PROVE  WalksOK'
<1>. DEFINE w(k) == <<[stage |-> "visit", path |-> paths[k]]>>
<1>1. Len(paths) \in Nat \ {0} /\ DOMAIN paths = 1..Len(paths)
    BY EmptySeq, LenProperties
<1>2. walks' = [k \in 1..Len(paths) |-> w(k)] /\ pc' = "walk"
    BY <1>1 DEF StartWalks
<1>3. \A k \in 1..Len(paths) : w(k) \in Seq(Item) \ {<<>>}
    <2>1. ASSUME NEW k \in 1..Len(paths) PROVE [stage |-> "visit", path |-> paths[k]] \in Item
        BY ElementOfSeq DEF Item
    <2>2. \A x \in Item : <<x>> \in Seq(Item) /\ <<x>> # <<>>
        OBVIOUS
    <2>. QED  BY <2>1, <2>2
<1>. HIDE DEF w
<1>4. walks' \in [1..Len(paths) -> Seq(Item) \ {<<>>}]
    BY <1>2, <1>3
<1>5. walks' \in Seq(Seq(Item) \ {<<>>}) /\ Len(walks') = Len(paths)
    BY <1>1, <1>4
<1>6. walks' # <<>>
    BY <1>1, <1>5, EmptySeq
<1>. QED  BY <1>2, <1>5, <1>6 DEF WalksOK

\* The path of a descriptor in the cache is one of the cache.
LEMMA CachedPathIs ==
    ASSUME NEW wd, findWatch(wd) # {}
    PROVE  \E e \in cache : e[1] = wd /\ e[2] = CachedPath(wd)
BY DEF findWatch, CachedPath

\* The path of a descriptor in the cache is one from Top.
LEMMA CachedPathBelow ==
    ASSUME Entries, NEW wd, findWatch(wd) # {}, NEW n \in Name \cup {Nowhere}
    PROVE  /\ CachedPath(wd) \in Below /\ Append(CachedPath(wd), n) \in Below
           /\ Len(Append(CachedPath(wd), n)) >= 3
<1>1. CachedPath(wd) \in Below
    BY CachedPathIs DEF Entries
<1>2. /\ CachedPath(wd) \in Seq(Labels) /\ Len(CachedPath(wd)) >= 2 /\ CachedPath(wd)[1] = Top
      /\ n \in Labels
    BY <1>1 DEF Below, Labels
<1>. DEFINE p == CachedPath(wd)
            q == Append(p, n)
<1>3. p \in Seq(Labels) /\ Len(p) >= 2 /\ p[1] = Top /\ Len(p) \in Nat
    BY <1>2, LenProperties
<1>. HIDE DEF p
<1>4. q \in Seq(Labels) /\ Len(q) = Len(p) + 1 /\ (Len(p) >= 1 => q[1] = p[1])
    BY <1>2, <1>3, AppendFacts
<1>. HIDE DEF q
<1>5. q \in Seq(Labels) /\ Len(q) >= 3 /\ q[1] = Top
    BY <1>3, <1>4
<1>6. q \in Below
    BY <1>5 DEF Below
<1>. QED  BY <1>1, <1>5, <1>6 DEF p, q

\* So is a root's path.
LEMMA RootsBelow ==
    ASSUME RootsOK
    PROVE  roots \subseteq Below /\ IsFiniteSet(roots)
<1>1. ASSUME NEW r \in Root PROVE <<Top, r>> \in Below
    <2>1. Top \in Labels /\ r \in Labels
        BY DEF Labels, All
    <2>2. \A x, y \in Labels : <<x, y>> \in Seq(Labels) /\ Len(<<x, y>>) = 2 /\ <<x, y>>[1] = x
        OBVIOUS
    <2>. QED  BY <2>1, <2>2 DEF Below
<1>2. IsFiniteSet(Root)
    BY DtreeAssumption, FS_Subset DEF All
<1>3. roots \subseteq {<<Top, r>> : r \in Root}
    BY DEF RootsOK
<1>4. IsFiniteSet({<<Top, r>> : r \in Root})
    <2>. DEFINE S == {<<Top, r>> : r \in Root}
                f == [r \in Root |-> <<Top, r>>]
    <2>1. f \in Surjection(Root, S)
        BY DEF Surjection
    <2>. QED  BY <1>2, <2>1, FS_Surjection
<1>5. IsFiniteSet(roots)
    BY <1>3, <1>4, FS_Subset
<1>. QED  BY <1>1, <1>3, <1>5

\* A step that only takes away entries, watches and events.
LEMMA LessStruct ==
    ASSUME Struct, UNCHANGED <<loc, moving, nextWd>>, cache' \subseteq cache,
           \A d \in All : watch'[d] # 0 => watch'[d] = watch[d],
           \A d \in All : watch'[d] = watch[d] \/ \A e \in cache' : e[1] # watch[d],
           \A e \in Pending' : e.mask = "MOVE_SELF" => e \in Pending,
           roots' \subseteq roots, pc' # "exited" => roots' # {},
           \A r \in Root : loc[r] = <<Top, r>> => <<Top, r>> \in roots',
           WalksOK', CommandReads'
    PROVE  Struct'
<1>1. Tree' /\ Live' = Live /\ HeldLive'
    BY DEF Struct, Files, Tree, HeldLive, Live
<1>2. WatchedLive'
    BY <1>1 DEF Struct, WatchedLive
<1>3. Entries'
    BY DEF Struct, Entries
<1>4. SelfMoves'
    <2>1. ASSUME NEW e \in Pending', e.mask = "MOVE_SELF"
          PROVE  /\ e.wd \in Nat /\ e.wd < nextWd'
                 /\ \A d \in All : watch'[d] = e.wd /\ watch'[d] # 0 => loc'[d][1] # Top
        <3>1. e \in Pending
            BY <2>1
        <3>. QED  BY <2>1, <3>1 DEF Struct, SelfMoves
    <2>. QED  BY <2>1, Zenon DEF SelfMoves
<1>5. RootsOK'
    <2>1. ASSUME NEW r \in Root, NEW e \in cache', e[2] = <<Top, r>>
          PROVE  watch'[r] = e[1] \/ loc'[r] = Gone
        <3>1. watch[r] = e[1] \/ loc[r] = Gone
            BY <2>1 DEF Struct, RootsOK
        <3>. QED  BY <3>1 DEF All
    <2>. QED  BY <2>1 DEF Struct, RootsOK
<1>. QED  BY <1>1, <1>2, <1>3, <1>4, <1>5 DEF Struct, Files

\* The cache is empty and the roots are to be walked.
LEMMA ReinitStruct ==
    ASSUME Struct, NEW rp \in SUBSET roots, rp # {}, reinitialize(rp), roots' = rp, UNCHANGED <<loc, moving>>,
           \A r \in Root : loc[r] = <<Top, r>> => <<Top, r>> \in rp
    PROVE  Struct'
<1>1. /\ watch' = [d \in All |-> 0] /\ queue' = <<>> /\ cache' = {} /\ buf' = <<>> /\ pc' = "walk"
      /\ StartWalks(SetToSeq(rp))
    BY DEF reinitialize, StartWalks
<1>2. IsFiniteSet(rp) /\ rp \subseteq Below
    BY RootsBelow, FS_Subset DEF Struct
<1>3. SetToSeq(rp) \in Seq(rp) /\ SetToSeq(rp) # <<>>
    BY <1>2, ListCovers
<1>4. SetToSeq(rp) \in Seq(Below)
    BY <1>2, <1>3
<1>5. WalksOK'
    BY <1>1, <1>3, <1>4, WalksStarted
<1>6. Tree' /\ Live' = Live /\ HeldLive'
    BY DEF Struct, Files, Tree, HeldLive, Live
<1>7. Pending' = {}
    <2>1. ToSet(<<>>) = {}
        BY DEF ToSet
    <2>. QED  BY <1>1, <2>1 DEF Pending
<1>8. RootsOK'
    BY <1>1 DEF Struct, RootsOK
<1>. QED  BY <1>1, <1>5, <1>6, <1>7, <1>8 DEF Struct, Files, WatchedLive, Entries, SelfMoves, CommandReads

\* An event done with; the walks, if there were any, are over.
LEMMA DoneStruct ==
    ASSUME WalksOK, Processing, NEW k, Done(k)
    PROVE  WalksOK' /\ CommandReads' /\ pc' # "exited" /\ pc' # "walk"
<1>1. walks = <<>> /\ walks' = walks /\ pc' \in {"process", "read", "select"}
    BY ResumeFacts DEF WalksOK, Processing, Done
<1>. QED  BY <1>1 DEF WalksOK, CommandReads

\* The roots are still there, and so are the events.
LEMMA RootsKept ==
    ASSUME Struct, UNCHANGED <<loc, roots>>, pc # "exited"
    PROVE  /\ roots' \subseteq roots /\ roots' # {}
           /\ \A r \in Root : loc[r] = <<Top, r>> => <<Top, r>> \in roots'
BY DEF Struct, RootsOK

\* An IN_IGNORED is passed over.
LEMMA IgnoredStruct ==
    ASSUME IInv, Struct, EvIgnored
    PROVE  Struct'
<1>1. /\ Processing /\ Done(1) /\ UNCHANGED <<loc, moving, watch, nextWd, queue, cache, roots, shaken, rset>>
    BY DEF EvIgnored, fs, kernel
<1>2. WalksOK' /\ CommandReads'
    BY <1>1, DoneStruct DEF Struct
<1>3. ToSet(buf') \subseteq ToSet(buf)
    BY <1>1, HasEvent, DoneFacts
<1>4. pc # "exited"
    BY <1>1 DEF Processing
<1>5. Pending' \subseteq Pending
    BY <1>1, <1>3 DEF Pending
<1>6. /\ roots' \subseteq roots /\ roots' # {}
      /\ \A r \in Root : loc[r] = <<Top, r>> => <<Top, r>> \in roots'
    BY <1>1, <1>4, RootsKept
<1>. QED  BY <1>1, <1>2, <1>5, <1>6, LessStruct

\* An IN_CREATE or IN_MOVED_TO starts a walk at most.
LEMMA AppearedStruct ==
    ASSUME IInv, Struct, EvAppeared
    PROVE  Struct'
<1>1. /\ Processing /\ Known /\ UNCHANGED <<loc, moving, watch, nextWd, queue, cache, roots, shaken, rset>>
      /\ Done(1) \/ (Consume(1) /\ StartWalks(<<Full>>))
    BY DEF EvAppeared, fs, kernel
<1>2. buf # <<>> /\ 1 <= Len(buf) /\ QueueOK(queue') /\ shaken' \subseteq {"rename", "walk", "command"} /\ Reading
    BY <1>1, HasEvent DEF IInv, State
<1>3. ToSet(buf') \subseteq ToSet(buf) /\ ev \in Events
    <2>1. Consume(1)
        BY <1>1 DEF Done
    <2>. QED  BY <1>2, <2>1, ConsumedFacts
<1>4. Pending' \subseteq Pending
    BY <1>1, <1>3 DEF Pending
<1>5. WalksOK' /\ CommandReads'
    <2>1. CASE Done(1)
        BY <1>1, <2>1, DoneStruct DEF Struct
    <2>2. CASE StartWalks(<<Full>>)
        <3>1. ev.name \in Name \cup {Nowhere} /\ findWatch(ev.wd) # {}
            BY <1>1, <1>3 DEF Events, Known
        <3>2. Full \in Below
            BY <3>1, CachedPathBelow DEF Full, Struct
        <3>3. <<Full>> \in Seq(Below) /\ <<Full>> # <<>>
            BY <3>2
        <3>4. WalksOK'
            BY <2>2, <3>3, WalksStarted
        <3>. QED  BY <2>2, <3>4 DEF StartWalks, CommandReads
    <2>. QED  BY <1>1, <2>1, <2>2
<1>6. pc # "exited"
    BY <1>1 DEF Processing
<1>7. /\ roots' \subseteq roots /\ roots' # {}
      /\ \A r \in Root : loc[r] = <<Top, r>> => <<Top, r>> \in roots'
    BY <1>1, <1>6, RootsKept
<1>. QED  BY <1>1, <1>4, <1>5, <1>7, LessStruct

\* The root of a path in the cache that is delisted is not in its place.
LEMMA Delisted ==
    ASSUME Struct, NEW wd, findWatch(wd) # {}, roots' = roots \ {CachedPath(wd)},
           \A r \in Root : watch[r] = wd /\ wd # 0 => loc[r] # <<Top, r>>
    PROVE  \A r \in Root : loc[r] = <<Top, r>> => <<Top, r>> \in roots'
<1>. SUFFICES ASSUME NEW r \in Root, loc[r] = <<Top, r>>, CachedPath(wd) = <<Top, r>>
              PROVE  FALSE
    BY DEF Struct, RootsOK
<1>1. PICK e \in cache : e[1] = wd /\ e[2] = CachedPath(wd)
    BY CachedPathIs
<1>2. watch[r] = wd \/ loc[r] = Gone
    BY <1>1 DEF Struct, RootsOK
<1>3. wd # 0
    BY <1>1 DEF Struct, Entries
<1>4. loc[r] # Gone
    <2>1. Gone[1] # Top
        BY GoneIsNowhere
    <2>. QED  BY <2>1
<1>. QED  BY <1>2, <1>3, <1>4

\* An IN_DELETE_SELF takes its entry, and its root.
LEMMA DeleteSelfStruct ==
    ASSUME IInv, Struct, EvDeleteSelf
    PROVE  Struct'
<1>1. /\ Processing /\ Known /\ ev.mask = "DELETE_SELF"
      /\ roots' = roots \ {CachedPath(ev.wd)} /\ cache' = cache \ findWatch(ev.wd)
      /\ \/ roots' = {} /\ pc' = "exited" /\ UNCHANGED <<buf, firstTry, walks>>
         \/ roots' # {} /\ Done(1)
      /\ UNCHANGED <<loc, moving, watch, nextWd, queue, shaken, rset>>
    BY DEF EvDeleteSelf, fs, kernel
<1>2. /\ buf # <<>> /\ 1 <= Len(buf) /\ QueueOK(queue') /\ shaken' \subseteq {"rename", "walk", "command"} /\ Reading
    BY <1>1, HasEvent DEF IInv, State
<1>3. ev \in ToSet(buf)
    BY <1>1, HasEvent, HeadTailProperties, LenProperties DEF ev, ToSet
<1>4. ev.wd \notin KernelWds
    BY <1>1, <1>3 DEF Dying, IInv, Books, RemovalsFinal
<1>5. \A r \in Root : watch[r] = ev.wd /\ ev.wd # 0 => loc[r] # <<Top, r>>
    BY <1>4 DEF KernelWds, All
<1>6. \A r \in Root : loc[r] = <<Top, r>> => <<Top, r>> \in roots'
    BY <1>1, <1>5, Delisted DEF Known
<1>7. WalksOK' /\ CommandReads' /\ (pc' # "exited" => roots' # {})
    <2>1. CASE roots' # {} /\ Done(1)
        BY <1>1, <2>1, DoneStruct DEF Struct
    <2>2. CASE roots' = {} /\ pc' = "exited" /\ UNCHANGED walks
        BY <1>1, <2>2 DEF Struct, WalksOK, CommandReads, Processing
    <2>. QED  BY <1>1, <2>1, <2>2
<1>8. Pending' \subseteq Pending
    <2>1. ToSet(buf') \subseteq ToSet(buf)
        BY <1>1, <1>2, ConsumedFacts DEF Done
    <2>. QED  BY <1>1, <2>1 DEF Pending
<1>9. roots' \subseteq roots /\ cache' \subseteq cache
    BY <1>1
<1>. QED  BY <1>1, <1>6, <1>7, <1>8, <1>9, LessStruct

\* A subtree zapped: its watches are gone, and IN_IGNORED come.
LEMMA ZapStruct ==
    ASSUME IInv, NEW entries \in SUBSET cache, Zap(entries), buf' = buf \/ ToSet(buf') \subseteq ToSet(buf)
    PROVE  /\ cache' \subseteq cache
           /\ \A d \in All : watch'[d] # 0 => watch'[d] = watch[d]
           /\ \A d \in All : watch'[d] = watch[d] \/ \A e \in cache' : e[1] # watch[d]
           /\ \A e \in Pending' : e.mask = "MOVE_SELF" => e \in Pending
<1>1. /\ cache' = cache \ entries
      /\ watch' = [d \in All |-> IF watch[d] \in {e[1] : e \in entries} THEN 0 ELSE watch[d]]
    BY DEF Zap
<1>2. PICK t \in Seq(Events) : /\ queue' = queue \o t
                               /\ \A e \in ToSet(t) : e.mask \in {"IGNORED", "Q_OVERFLOW"}
    BY ZapQueues
<1>3. ToSet(queue') = ToSet(queue) \cup ToSet(t)
    BY <1>2, ConcatElements DEF IInv, State, Reading, QueueOK
<1>4. ASSUME NEW d \in All, watch'[d] # watch[d], NEW e \in cache', e[1] = watch[d]
      PROVE  FALSE
    <2>1. PICK f \in entries : f[1] = watch[d]
        BY <1>1, <1>4
    <2>2. e = f
        BY <1>1, <1>4, <2>1 DEF IInv, Books, WatchesAreCached
    <2>. QED  BY <1>1, <2>2
<1>. QED  BY <1>1, <1>2, <1>3, <1>4 DEF Pending

\* Each entry keeps its descriptor, and its path is moved.
LEMMA Rewritten ==
    ASSUME NEW old, NEW new
    PROVE  /\ \A f \in rewriteCachedPaths(old, new) : \E e \in cache : f[1] = e[1] /\ f[2] = Moved(e[2], old, new)
           /\ \A e \in cache : \E f \in rewriteCachedPaths(old, new) : f[1] = e[1] /\ f[2] = Moved(e[2], old, new)
<1>. DEFINE r(e) == IF e \in Subtree(old) THEN <<e[1], new \o SubSeq(e[2], Len(old) + 1, Len(e[2]))>> ELSE e
<1>1. \A e \in cache : r(e)[1] = e[1] /\ r(e)[2] = Moved(e[2], old, new)
    <2>1. ASSUME NEW e \in cache, IsPrefix(old, e[2]) PROVE r(e)[1] = e[1] /\ r(e)[2] = Moved(e[2], old, new)
        BY <2>1 DEF Subtree, Moved
    <2>2. ASSUME NEW e \in cache, ~IsPrefix(old, e[2]) PROVE r(e)[1] = e[1] /\ r(e)[2] = Moved(e[2], old, new)
        BY <2>2 DEF Subtree, Moved
    <2>. QED  BY <2>1, <2>2
<1>2. rewriteCachedPaths(old, new) = {r(e) : e \in cache}
    BY DEF rewriteCachedPaths
<1>. HIDE DEF r
<1>. QED  BY <1>1, <1>2

\* What is moved below Top is still below Top.
LEMMA MovedIsBelow ==
    ASSUME NEW p \in Below, NEW old \in Seq(Labels), NEW new \in Below, Len(new) >= 3
    PROVE  Moved(p, old, new) \in Below /\ (Len(Moved(p, old, new)) = 2 => Moved(p, old, new) = p)
<1>1. p \in Seq(Labels) /\ new \in Seq(Labels) /\ new[1] = Top
    BY DEF Below
<1>2. CASE ~IsPrefix(old, p)
    BY <1>2 DEF Moved
<1>3. CASE IsPrefix(old, p)
    <2>. DEFINE m == Moved(p, old, new)
    <2>1. m \in Seq(Labels)
        BY <1>1, MovedType
    <2>2. IsPrefix(new, m)
        BY <1>1, <1>3, MovedBelow
    <2>. HIDE DEF m
    <2>3. Len(new) <= Len(m) /\ (Len(new) >= 1 => m[1] = new[1])
        BY <1>1, <2>1, <2>2, PrefixLength
    <2>4. Len(m) \in Nat /\ Len(new) \in Nat
        BY <1>1, <2>1, LenProperties
    <2>5. Len(new) >= 1 /\ Len(m) >= 3
        <3>1. \A x, y \in Nat : x >= 3 /\ x <= y => x >= 1 /\ y >= 3
            OBVIOUS
        <3>. QED  BY <2>3, <2>4, <3>1
    <2>6. Len(m) >= 3 /\ m[1] = Top
        BY <1>1, <2>3, <2>5
    <2>7. m \in Below
        BY <2>1, <2>4, <2>6 DEF Below
    <2>8. Len(m) # 2
        <3>1. \A x \in Nat : x >= 3 => x # 2
            OBVIOUS
        <3>. QED  BY <2>4, <2>5, <3>1
    <2>9. m \in Below /\ (Len(m) = 2 => m = p)
        BY <2>7, <2>8
    <2>. QED  BY <2>9 DEF m
<1>. QED  BY <1>2, <1>3

\* The two events of a rename are in the buffer.
LEMMA PairFacts ==
    ASSUME IInv, Processing, Paired
    PROVE  /\ Len(buf) \in Nat /\ 2 <= Len(buf) /\ ev \in Events /\ buf[2] \in Events
           /\ ev \in ToSet(buf) /\ buf[2] \in ToSet(buf)
<1>1. buf \in Seq(Events) /\ Len(buf) \in Nat /\ Len(buf) > 1 /\ buf # <<>>
    BY HasEvent DEF Paired
<1>2. 2 \in 1..Len(buf) /\ 1 \in 1..Len(buf)
    BY <1>1
<1>3. buf[2] \in Events /\ ev = buf[1] /\ ev \in Events
    BY <1>1, <1>2, ElementOfSeq, HeadTailProperties DEF ev
<1>. QED  BY <1>1, <1>2, <1>3, LenProperties DEF ToSet

\* A paired rename rewrites paths and leaves the roots' own.
LEMMA RenamedStruct ==
    ASSUME IInv, Struct, EvRenamed
    PROVE  Struct'
<1>1. /\ Processing /\ Known /\ Paired /\ UNCHANGED <<loc, moving, roots>>
    BY DEF EvRenamed, fs
<1>2. pc # "exited"
    BY <1>1 DEF Processing
<1>3. /\ roots' \subseteq roots /\ roots' # {}
      /\ \A r \in Root : loc[r] = <<Top, r>> => <<Top, r>> \in roots'
    BY <1>1, <1>2, RootsKept
<1>4. CASE findWatch(buf[2].wd) = {}
    <2>1. reinitialize(roots)
        BY <1>4 DEF EvRenamed
    <2>2. roots' = roots /\ roots \in SUBSET roots
        BY <1>1
    <2>. QED  BY <1>1, <1>3, <2>1, <2>2, ReinitStruct
<1>5. CASE findWatch(buf[2].wd) # {}
    <2>. DEFINE new == Append(CachedPath(buf[2].wd), buf[2].name)
    <2>1. /\ cache' = rewriteCachedPaths(Full, new) /\ Done(2)
          /\ UNCHANGED <<watch, nextWd, queue, rset, shaken>>
        BY <1>5 DEF EvRenamed, kernel
    <2>2. Len(buf) \in Nat /\ 2 <= Len(buf) /\ ev \in Events /\ buf[2] \in Events
        BY <1>1, PairFacts
    <2>3. ev.name \in Name \cup {Nowhere} /\ buf[2].name \in Name \cup {Nowhere} /\ findWatch(ev.wd) # {}
        BY <1>1, <2>2 DEF Events, Known
    <2>4. new \in Below /\ Len(new) >= 3
        BY <1>5, <2>3, CachedPathBelow DEF Struct
    <2>5. Full \in Seq(Labels)
        BY <2>3, CachedPathBelow DEF Struct, Full, Below
    <2>. HIDE DEF new
    <2>6. ASSUME NEW f \in cache'
          PROVE  \E e \in cache : f[1] = e[1] /\ f[2] \in Below /\ (Len(f[2]) = 2 => f[2] = e[2])
        <3>1. PICK e \in cache : f[1] = e[1] /\ f[2] = Moved(e[2], Full, new)
            BY <2>1, Rewritten
        <3>2. e[2] \in Below
            BY DEF Struct, Entries
        <3>3. Moved(e[2], Full, new) \in Below /\ (Len(Moved(e[2], Full, new)) = 2 => Moved(e[2], Full, new) = e[2])
            BY <2>4, <2>5, <3>2, MovedIsBelow
        <3>. QED  BY <3>1, <3>3
    <2>7. Entries'
        BY <2>1, <2>6 DEF Struct, Entries
    <2>8. WalksOK' /\ CommandReads' /\ pc' # "exited"
        BY <1>1, <2>1, DoneStruct DEF Struct
    <2>9. Pending' \subseteq Pending
        <3>1. ToSet(buf') \subseteq ToSet(buf)
            BY <1>1, <2>1, <2>2, HasEvent, DoneFacts
        <3>. QED  BY <2>1, <3>1 DEF Pending
    <2>10. SelfMoves'
        BY <1>1, <2>1, <2>9 DEF Struct, SelfMoves
    <2>11. Tree' /\ Live' = Live /\ HeldLive' /\ WatchedLive'
        BY <1>1, <2>1 DEF Struct, Files, Tree, HeldLive, Live, WatchedLive
    <2>12. RootsOK'
        <3>1. ASSUME NEW r \in Root, NEW f \in cache', f[2] = <<Top, r>>
              PROVE  watch'[r] = f[1] \/ loc'[r] = Gone
            <4>1. PICK e \in cache : f[1] = e[1] /\ (Len(f[2]) = 2 => f[2] = e[2])
                BY <2>6
            <4>2. Len(<<Top, r>>) = 2
                OBVIOUS
            <4>3. e[2] = <<Top, r>>
                BY <3>1, <4>1, <4>2
            <4>. QED  BY <1>1, <2>1, <4>1, <4>3 DEF Struct, RootsOK
        <3>. QED  BY <1>1, <1>3, <3>1 DEF Struct, RootsOK
    <2>. QED  BY <2>7, <2>8, <2>10, <2>11, <2>12 DEF Struct, Files
<1>. QED  BY <1>4, <1>5

\* An unpaired one zaps a subtree, or rebuilds the cache.
LEMMA MovedOutStruct ==
    ASSUME IInv, Struct, EvMovedOut
    PROVE  Struct'
<1>1. Processing /\ UNCHANGED <<loc, moving, roots, rset>>
    BY DEF EvMovedOut, fs
<1>2. pc # "exited"
    BY <1>1 DEF Processing
<1>3. /\ roots' \subseteq roots /\ roots' # {}
      /\ \A r \in Root : loc[r] = <<Top, r>> => <<Top, r>> \in roots'
    BY <1>1, <1>2, RootsKept
<1>4. CASE CanZap(Subtree(Full))
    <2>1. Zap(Subtree(Full)) /\ Done(1) /\ UNCHANGED <<nextWd, shaken>>
        BY <1>4 DEF EvMovedOut
    <2>2. Subtree(Full) \in SUBSET cache
        BY DEF Subtree
    <2>3. ToSet(buf') \subseteq ToSet(buf)
        <3>1. Reading /\ buf # <<>> /\ 1 <= Len(buf)
            BY <1>1, HasEvent DEF IInv, State
        <3>. QED  BY <2>1, <3>1, ConsumedFacts DEF Done
    <2>4. WalksOK' /\ CommandReads' /\ pc' # "exited"
        BY <1>1, <2>1, DoneStruct DEF Struct
    <2>5. /\ cache' \subseteq cache
          /\ \A d \in All : watch'[d] # 0 => watch'[d] = watch[d]
          /\ \A d \in All : watch'[d] = watch[d] \/ \A e \in cache' : e[1] # watch[d]
          /\ \A e \in Pending' : e.mask = "MOVE_SELF" => e \in Pending
        BY <2>1, <2>2, <2>3, ZapStruct
    <2>. QED  BY <1>1, <1>3, <2>1, <2>4, <2>5, LessStruct
<1>5. CASE ~CanZap(Subtree(Full))
    <2>1. reinitialize(roots)
        BY <1>5 DEF EvMovedOut
    <2>2. roots' = roots /\ roots \in SUBSET roots
        BY <1>1
    <2>. QED  BY <1>1, <1>3, <2>1, <2>2, ReinitStruct
<1>. QED  BY <1>4, <1>5

\* A second read() is waited for.
LEMMA HangingStruct ==
    ASSUME IInv, Struct, EvHanging
    PROVE  Struct'
<1>1. /\ pc = "process" /\ pc' = "again"
      /\ UNCHANGED <<loc, moving, watch, nextWd, queue, cache, roots, buf, walks>>
    BY DEF EvHanging, kernel, fs, Processing
<1>2. WalksOK' /\ CommandReads' /\ Pending' = Pending
    BY <1>1 DEF Struct, WalksOK, CommandReads, Pending
<1>3. /\ roots' \subseteq roots /\ roots' # {}
      /\ \A r \in Root : loc[r] = <<Top, r>> => <<Top, r>> \in roots'
    BY <1>1, RootsKept
<1>. QED  BY <1>1, <1>2, <1>3, LessStruct

\* A rebuild.
LEMMA RebuildStruct ==
    ASSUME IInv, Struct, EvRebuild
    PROVE  Struct'
<1>1. /\ pc # "exited" /\ reinitialize(roots) /\ UNCHANGED <<loc, moving, roots>>
    BY DEF EvRebuild, fs, Processing
<1>2. /\ roots' \subseteq roots /\ roots' # {}
      /\ \A r \in Root : loc[r] = <<Top, r>> => <<Top, r>> \in roots'
    BY <1>1, RootsKept
<1>3. roots' = roots /\ roots \in SUBSET roots
    BY <1>1
<1>. QED  BY <1>1, <1>2, <1>3, ReinitStruct

\* A root's rename takes the root from the list.
LEMMA MoveSelfStruct ==
    ASSUME IInv, Struct, EvMoveSelf
    PROVE  Struct'
<1>. DEFINE p == CachedPath(ev.wd)
<1>1. Processing /\ Known /\ ev.mask = "MOVE_SELF" /\ UNCHANGED <<loc, moving, rset>>
    BY DEF EvMoveSelf, fs
<1>2. \/ p \notin roots /\ Done(1) /\ UNCHANGED <<watch, nextWd, queue, cache, roots, shaken>>
      \/ roots' = roots \ {p} /\ roots' = {} /\ pc' = "exited" /\ UNCHANGED <<watch, nextWd, queue, cache, buf, walks>>
      \/ roots' = roots \ {p} /\ roots' # {} /\ Zap(Subtree(p)) /\ Done(1) /\ UNCHANGED <<nextWd, shaken>>
      \/ roots' = roots \ {p} /\ roots' # {} /\ reinitialize(roots')
    BY DEF EvMoveSelf, kernel
<1>3. Reading /\ buf # <<>> /\ 1 <= Len(buf) /\ pc # "exited"
    BY <1>1, HasEvent DEF IInv, State, Processing
<1>4. ev \in ToSet(buf)
    BY <1>1, HasEvent, HeadTailProperties, LenProperties DEF ev, ToSet
<1>5. \A r \in Root : watch[r] = ev.wd /\ ev.wd # 0 => loc[r] # <<Top, r>>
    <2>1. \A d \in All : watch[d] = ev.wd /\ watch[d] # 0 => loc[d][1] # Top
        BY <1>1, <1>4 DEF Struct, SelfMoves, Pending
    <2>2. \A r \in Root : <<Top, r>>[1] = Top
        OBVIOUS
    <2>. QED  BY <2>1, <2>2 DEF All
<1>6. ASSUME roots' = roots \ {p} PROVE \A r \in Root : loc[r] = <<Top, r>> => <<Top, r>> \in roots'
    BY <1>1, <1>5, <1>6, Delisted DEF Known
<1>7. ASSUME Done(1) PROVE ToSet(buf') \subseteq ToSet(buf) /\ WalksOK' /\ CommandReads' /\ pc' # "exited"
    <2>1. ToSet(buf') \subseteq ToSet(buf)
        BY <1>3, <1>7, ConsumedFacts DEF Done
    <2>. QED  BY <1>1, <1>7, <2>1, DoneStruct DEF Struct
<1>8. CASE p \notin roots /\ Done(1) /\ UNCHANGED <<watch, nextWd, queue, cache, roots, shaken>>
    <2>1. Pending' \subseteq Pending
        BY <1>7, <1>8 DEF Pending
    <2>2. /\ roots' \subseteq roots /\ roots' # {}
          /\ \A r \in Root : loc[r] = <<Top, r>> => <<Top, r>> \in roots'
        BY <1>1, <1>3, <1>8, RootsKept
    <2>. QED  BY <1>1, <1>7, <1>8, <2>1, <2>2, LessStruct
<1>9. CASE /\ roots' = roots \ {p} /\ roots' = {} /\ pc' = "exited"
           /\ UNCHANGED <<watch, nextWd, queue, cache, buf, walks>>
    <2>1. WalksOK' /\ CommandReads' /\ Pending' = Pending
        BY <1>1, <1>9 DEF Struct, WalksOK, CommandReads, Pending, Processing
    <2>. QED  BY <1>1, <1>6, <1>9, <2>1, LessStruct
<1>10. CASE roots' = roots \ {p} /\ roots' # {} /\ Zap(Subtree(p)) /\ Done(1) /\ UNCHANGED <<nextWd, shaken>>
    <2>1. Subtree(p) \in SUBSET cache
        BY DEF Subtree
    <2>2. Zap(Subtree(p)) /\ ToSet(buf') \subseteq ToSet(buf)
        BY <1>7, <1>10
    <2>3. /\ cache' \subseteq cache
          /\ \A d \in All : watch'[d] # 0 => watch'[d] = watch[d]
          /\ \A d \in All : watch'[d] = watch[d] \/ \A e \in cache' : e[1] # watch[d]
          /\ \A e \in Pending' : e.mask = "MOVE_SELF" => e \in Pending
        BY <2>1, <2>2, ZapStruct
    <2>4. /\ roots' \subseteq roots /\ roots' # {}
          /\ \A r \in Root : loc[r] = <<Top, r>> => <<Top, r>> \in roots'
        BY <1>6, <1>10
    <2>. QED  BY <1>1, <1>7, <1>10, <2>3, <2>4, LessStruct
<1>11. CASE roots' = roots \ {p} /\ roots' # {} /\ reinitialize(roots')
    <2>1. \A r \in Root : loc[r] = <<Top, r>> => <<Top, r>> \in roots'
        BY <1>6, <1>11
    <2>2. \A rp \in SUBSET roots : rp # {} /\ reinitialize(rp) /\ roots' = rp
                                   /\ (\A r \in Root : loc[r] = <<Top, r>> => <<Top, r>> \in rp) => Struct'
        BY <1>1, ReinitStruct
    <2>. QED  BY <1>11, <2>1, <2>2
<1>. QED  BY <1>2, <1>8, <1>9, <1>10, <1>11

\* select().
LEMMA SelectStruct ==
    ASSUME IInv, Struct, Select
    PROVE  Struct'
<1>1. /\ pc = "select" /\ pc' \in {"command", "read"} /\ buf = <<>>
      /\ UNCHANGED <<loc, moving, watch, nextWd, queue, cache, roots, buf, walks>>
    BY DEF Select, kernel, fs, IInv, State, Reading
<1>2. WalksOK' /\ CommandReads' /\ Pending' = Pending
    BY <1>1 DEF Struct, WalksOK, CommandReads, Pending
<1>3. /\ roots' \subseteq roots /\ roots' # {}
      /\ \A r \in Root : loc[r] = <<Top, r>> => <<Top, r>> \in roots'
    BY <1>1, RootsKept
<1>. QED  BY <1>1, <1>2, <1>3, LessStruct

\* The reads move events to the buffer.
LEMMA ReadStruct ==
    ASSUME IInv, Struct, Read \/ ReadAgain
    PROVE  Struct'
<1>1. /\ pc \in {"read", "again", "late"} /\ pc' \in {"process", "late"}
      /\ UNCHANGED <<loc, moving, watch, nextWd, cache, roots, walks>>
    BY DEF Read, ReadAgain, fs
<1>2. Pending' = Pending
    <2>1. ASSUME NEW room \in Nat, Len(buf) + room <= BufMax, Take(room) PROVE Pending' = Pending
        BY <2>1, TakeFacts DEF IInv, State, Pending
    <2>2. CASE Read
        <3>1. buf = <<>> /\ Len(buf) = 0 /\ BufMax \in Nat
            BY <2>2, EmptySeq, DtreeAssumption DEF IInv, State, Reading, Read
        <3>. QED  BY <2>1, <2>2, <3>1 DEF Read
    <2>3. CASE ReadAgain /\ Take(BufMax - Len(buf))
        <3>1. Len(buf) \in Nat /\ Len(buf) <= BufMax /\ BufMax \in Nat
            BY LenProperties, DtreeAssumption DEF IInv, State, Reading
        <3>2. BufMax - Len(buf) \in Nat /\ Len(buf) + (BufMax - Len(buf)) <= BufMax
            BY <3>1
        <3>. QED  BY <2>1, <2>3, <3>2
    <2>4. CASE ReadAgain /\ UNCHANGED <<buf, queue>>
        BY <2>4 DEF Pending
    <2>. QED  BY <2>2, <2>3, <2>4 DEF ReadAgain
<1>3. WalksOK' /\ CommandReads'
    BY <1>1 DEF Struct, WalksOK, CommandReads
<1>4. /\ roots' \subseteq roots /\ roots' # {}
      /\ \A r \in Root : loc[r] = <<Top, r>> => <<Top, r>> \in roots'
    BY <1>1, RootsKept
<1>. QED  BY <1>1, <1>2, <1>3, <1>4, LessStruct

\* The walk under way is at a path from Top.
LEMMA WalkTop ==
    ASSUME WalksOK, pc = "walk"
    PROVE  /\ Head(walks) \in Seq(Item) /\ Head(walks) # <<>> /\ top \in Item
           /\ Tail(Head(walks)) \in Seq(Item) /\ Tail(walks) \in Seq(Seq(Item) \ {<<>>})
           /\ Head(walks) = <<top>> \o Tail(Head(walks))
<1>1. walks \in Seq(Seq(Item) \ {<<>>}) /\ walks # <<>>
    BY DEF WalksOK
<1>2. Head(walks) \in Seq(Item) \ {<<>>} /\ Tail(walks) \in Seq(Seq(Item) \ {<<>>})
    BY <1>1, HeadTailProperties
<1>3. ASSUME NEW s \in Seq(Item) \ {<<>>}
      PROVE  Head(s) \in Item /\ Tail(s) \in Seq(Item) /\ s = <<Head(s)>> \o Tail(s)
    <2>1. Head(s) \in Item /\ Tail(s) \in Seq(Item)
        BY HeadTailProperties
    <2>. QED  BY <2>1
<1>. QED  BY <1>2, <1>3 DEF top

\* The walks go on with paths from Top.
LEMMA NextWalkOK ==
    ASSUME WalksOK, pc = "walk", NEW stack \in Seq(Item), NextWalk(stack)
    PROVE  WalksOK' /\ CommandReads' /\ pc' # "exited"
<1>1. Tail(walks) \in Seq(Seq(Item) \ {<<>>})
    BY WalkTop
<1>2. /\ walks' = IF stack = <<>> THEN Tail(walks) ELSE <<stack>> \o Tail(walks)
      /\ pc' = IF walks' = <<>> THEN Resume(buf, rset) ELSE "walk"
    BY DEF NextWalk
<1>3. walks' \in Seq(Seq(Item) \ {<<>>})
    <2>. DEFINE X == Seq(Item) \ {<<>>}
                rest == Tail(walks)
    <2>1. rest \in Seq(X) /\ (stack # <<>> => stack \in X)
        BY <1>1
    <2>2. walks' = IF stack = <<>> THEN rest ELSE <<stack>> \o rest
        BY <1>2
    <2>. HIDE DEF X, rest
    <2>3. \A s \in X : <<s>> \in Seq(X) /\ <<s>> \o rest \in Seq(X)
        BY <2>1
    <2>4. walks' \in Seq(X)
        BY <2>1, <2>2, <2>3
    <2>. QED  BY <2>4 DEF X
<1>4. Resume(buf, rset) \in {"process", "read", "select"}
    BY ResumeFacts
<1>. QED  BY <1>2, <1>3, <1>4 DEF WalksOK, CommandReads

\* A directory found at a path is the only one there; at a root's path, the root.
LEMMA AtFacts ==
    ASSUME Tree, NEW p, NEW d \in At(p)
    PROVE  /\ d \in Live /\ PathOf[d] = p /\ At(p) = {d}
           /\ \A r \in Root : p = <<Top, r>> => d = r /\ loc[r] = <<Top, r>>
<1>1. d \in Live /\ PathOf[d] = p /\ d \in All
    BY DEF At, Live
<1>2. \A c \in Live : PathOf[c] = p => c = d
    BY <1>1, PathFacts
<1>3. At(p) = {d}
    BY <1>1, <1>2 DEF At
<1>4. ASSUME NEW r \in Root, p = <<Top, r>> PROVE d = r /\ loc[r] = <<Top, r>>
    <2>1. Len(PathOf[d]) = 2
        BY <1>1, <1>4
    <2>2. loc[d] = <<Top, r>>
        BY <1>1, <1>4, <2>1, PathFacts
    <2>3. loc[d][1] = Top
        BY <2>2
    <2>4. d \in Root
        BY <1>1, <2>3 DEF Tree, IsTree, All
    <2>5. loc[d] \in {<<Top, d>>, <<Away, d>>, Gone}
        BY <2>4 DEF Tree, IsTree
    <2>6. Top # Away /\ Gone[1] # Top
        BY GoneIsNowhere, DtreeAssumption
    <2>7. loc[d] = <<Top, d>>
        <3>1. <<Away, d>>[1] = Away
            OBVIOUS
        <3>. QED  BY <2>3, <2>5, <2>6, <3>1
    <2>8. <<Top, d>>[2] = d /\ <<Top, r>>[2] = r
        OBVIOUS
    <2>. QED  BY <2>2, <2>7, <2>8
<1>. QED  BY <1>1, <1>3, <1>4

\* A directory visited is watched and cached with its path.
LEMMA WalkVisitStruct ==
    ASSUME IInv, IInv', Struct, WalkVisit
    PROVE  Struct'
<1>1. /\ pc = "walk" /\ top.stage = "visit"
      /\ UNCHANGED <<loc, moving, queue, roots, buf, rset>>
    BY DEF WalkVisit, fs
<1>2. /\ top \in Item /\ Tail(Head(walks)) \in Seq(Item)
    BY <1>1, WalkTop DEF Struct
<1>3. Pending' = Pending
    BY <1>1 DEF Pending
<1>4. /\ roots' \subseteq roots /\ roots' # {}
      /\ \A r \in Root : loc[r] = <<Top, r>> => <<Top, r>> \in roots'
    BY <1>1, RootsKept
<1>5. CASE At(top.path) = {}
    <2>1. NextWalk(Tail(Head(walks))) /\ UNCHANGED <<watch, nextWd, cache>>
        BY <1>5 DEF WalkVisit
    <2>2. WalksOK' /\ CommandReads'
        BY <1>1, <1>2, <2>1, NextWalkOK DEF Struct
    <2>. QED  BY <1>1, <1>3, <1>4, <2>1, <2>2, LessStruct
<1>6. CASE At(top.path) # {}
    <2>. DEFINE d == CHOOSE x \in At(top.path) : TRUE
                wd == IF watch[d] # 0 THEN watch[d] ELSE nextWd
                item == [top EXCEPT !.stage = "list"]
    <2>1. /\ watch' = [watch EXCEPT ![d] = wd]
          /\ nextWd' = IF watch[d] # 0 THEN nextWd ELSE nextWd + 1
          /\ cache' = IF findWatch(wd) # {} THEN cache ELSE cache \cup {<<wd, top.path>>}
          /\ NextWalk(<<item>> \o Tail(Head(walks)))
        BY <1>6 DEF WalkVisit
    <2>2. d \in At(top.path)
        BY <1>6
    <2>3. wd = IF watch[d] # 0 THEN watch[d] ELSE nextWd
        OBVIOUS
    <2>4. item \in Item /\ top.path \in Below
        BY <1>2 DEF Item
    <2>. HIDE DEF d, wd, item
    <2>5. <<item>> \o Tail(Head(walks)) \in Seq(Item)
        BY <1>2, <2>4
    <2>6. WalksOK' /\ CommandReads' /\ pc' # "exited"
        BY <1>1, <2>1, <2>5, NextWalkOK DEF Struct
    <2>7. /\ d \in Live /\ d \in All
          /\ \A r \in Root : top.path = <<Top, r>> => d = r
        BY <2>2, AtFacts, LiveIs DEF Struct, Files
    <2>8. /\ nextWd \in Nat \ {0} /\ watch[d] \in Nat /\ watch[d] < nextWd
          /\ watch'[d] = wd /\ \A c \in All : c # d => watch'[c] = watch[c]
          /\ wd \in Nat /\ 0 < wd
        BY <2>1, <2>3, <2>7 DEF IInv, Books, Descriptors
    <2>9. nextWd' \in Nat /\ nextWd <= nextWd' /\ wd < nextWd'
        BY <2>1, <2>3, <2>8
    <2>10. \A e \in cache' : e \in cache \/ e = <<wd, top.path>>
        BY <2>1
    <2>11. Entries'
        <3>1. ASSUME NEW e \in cache PROVE e[1] \in Nat /\ 0 < e[1] /\ e[1] < nextWd' /\ e[2] \in Below
            <4>1. e[1] \in Nat /\ 0 < e[1] /\ e[1] < nextWd /\ e[2] \in Below
                BY DEF Struct, Entries
            <4>. QED  BY <2>8, <2>9, <4>1
        <3>2. <<wd, top.path>>[1] = wd /\ <<wd, top.path>>[2] = top.path
            OBVIOUS
        <3>. QED  BY <2>4, <2>8, <2>9, <2>10, <3>1, <3>2 DEF Entries
    <2>12. Tree' /\ Live' = Live /\ HeldLive'
        BY <1>1 DEF Struct, Files, Tree, HeldLive, Live
    <2>13. WatchedLive'
        BY <2>7, <2>8, <2>12 DEF Struct, WatchedLive
    <2>14. SelfMoves'
        <3>1. ASSUME NEW e \in Pending', e.mask = "MOVE_SELF"
              PROVE  /\ e.wd \in Nat /\ e.wd < nextWd'
                     /\ \A c \in All : watch'[c] = e.wd /\ watch'[c] # 0 => loc'[c][1] # Top
            <4>1. /\ e.wd \in Nat /\ e.wd < nextWd
                  /\ \A c \in All : watch[c] = e.wd /\ watch[c] # 0 => loc[c][1] # Top
                BY <1>3, <3>1 DEF Struct, SelfMoves
            <4>2. e.wd < nextWd'
                BY <2>8, <2>9, <4>1
            <4>3. ASSUME watch'[d] = e.wd PROVE watch[d] = e.wd /\ watch[d] # 0
                BY <2>3, <2>8, <4>1, <4>3
            <4>. QED  BY <1>1, <2>8, <4>1, <4>2, <4>3
        <3>. QED  BY <3>1, Zenon DEF SelfMoves
    <2>15. RootsOK'
        <3>1. ASSUME NEW r \in Root, NEW e \in cache', e[2] = <<Top, r>>
              PROVE  watch'[r] = e[1] \/ loc'[r] = Gone
            <4>1. CASE e \in cache
                <5>1. watch[r] = e[1] \/ loc[r] = Gone
                    BY <3>1, <4>1 DEF Struct, RootsOK
                <5>2. 0 < e[1] /\ e[1] \in Nat
                    BY <4>1 DEF Struct, Entries
                <5>3. r \in All
                    BY DEF All
                <5>4. watch[r] = e[1] => watch'[r] = e[1]
                    BY <2>3, <2>8, <5>2, <5>3
                <5>. QED  BY <1>1, <5>1, <5>4
            <4>2. CASE e = <<wd, top.path>>
                <5>1. <<wd, top.path>>[1] = wd /\ <<wd, top.path>>[2] = top.path
                    OBVIOUS
                <5>2. d = r /\ e[1] = wd
                    BY <2>7, <3>1, <4>2, <5>1
                <5>. QED  BY <2>8, <5>2
            <4>. QED  BY <2>10, <4>1, <4>2
        <3>. QED  BY <1>1, <1>4, <2>6, <3>1 DEF Struct, RootsOK
    <2>. QED  BY <2>6, <2>11, <2>12, <2>13, <2>14, <2>15 DEF Struct, Files
<1>. QED  BY <1>5, <1>6

\* What is in a directory has a path below the directory's.
LEMMA ListedBelow ==
    ASSUME IInv, Tree, NEW p \in Below, NEW d \in At(p)
    PROVE  /\ {[stage |-> "visit", path |-> Append(p, loc[c][2])] : c \in Children(d)} \subseteq Item
           /\ IsFiniteSet({[stage |-> "visit", path |-> Append(p, loc[c][2])] : c \in Children(d)})
<1>. DEFINE item(c) == [stage |-> "visit", path |-> Append(p, loc[c][2])]
            f == [c \in Children(d) |-> item(c)]
            S == {item(c) : c \in Children(d)}
<1>1. ASSUME NEW c \in All PROVE loc[c][2] \in Labels
    BY DEF IInv, State, Names, Labels, All
<1>2. ASSUME NEW x \in Labels PROVE Append(p, x) \in Below
    <2>1. p \in Seq(Labels) /\ Len(p) >= 2 /\ p[1] = Top /\ Len(p) \in Nat
        BY LenProperties DEF Below
    <2>. DEFINE q == Append(p, x)
    <2>2. q \in Seq(Labels) /\ Len(q) = Len(p) + 1 /\ (Len(p) >= 1 => q[1] = p[1])
        BY <2>1, AppendFacts
    <2>. HIDE DEF q
    <2>3. Len(q) >= 2 /\ Len(p) >= 1
        BY <2>1, <2>2
    <2>4. q \in Below
        BY <2>1, <2>2, <2>3 DEF Below
    <2>. QED  BY <2>4 DEF q
<1>3. \A c \in Children(d) : item(c) \in Item
    BY <1>1, <1>2 DEF Item, Children
<1>4. IsFiniteSet(Children(d))
    BY DtreeAssumption, FS_Subset DEF Children
<1>5. f \in Surjection(Children(d), S)
    BY DEF Surjection
<1>6. IsFiniteSet(S)
    BY <1>4, <1>5, FS_Surjection
<1>. QED  BY <1>3, <1>6

\* The entries of a directory are to be visited.
LEMMA WalkListStruct ==
    ASSUME IInv, Struct, WalkList
    PROVE  Struct'
<1>1. /\ pc = "walk" /\ UNCHANGED <<loc, moving, watch, nextWd, queue, cache, roots, buf, rset>>
    BY DEF WalkList, fs, kernel
<1>2. /\ top \in Item /\ Tail(Head(walks)) \in Seq(Item)
    BY <1>1, WalkTop DEF Struct
<1>3. \E stack \in Seq(Item) : NextWalk(stack)
    <2>1. CASE At(top.path) = {}
        <3>1. <<>> \in Seq(Item)
            BY EmptySeq
        <3>2. NextWalk(<<>>)
            BY <2>1 DEF WalkList
        <3>. QED  BY <3>1, <3>2
    <2>2. CASE At(top.path) # {}
        <3>. DEFINE d == CHOOSE x \in At(top.path) : TRUE
                    S == {[stage |-> "visit", path |-> Append(top.path, loc[c][2])] : c \in Children(d)}
        <3>1. PICK order \in SetToSeqs(S) : NextWalk(order \o Tail(Head(walks)))
            BY <2>2 DEF WalkList
        <3>2. d \in At(top.path) /\ top.path \in Below
            BY <1>2, <2>2 DEF Item
        <3>. HIDE DEF d
        <3>3. S \subseteq Item /\ IsFiniteSet(S)
            BY <3>2, ListedBelow DEF Struct, Files
        <3>. HIDE DEF S
        <3>4. order \in Seq(S)
            BY <3>3, ListCovers
        <3>5. order \in Seq(Item)
            BY <3>3, <3>4
        <3>6. order \o Tail(Head(walks)) \in Seq(Item)
            BY <1>2, <3>5
        <3>. QED  BY <3>1, <3>6
    <2>. QED  BY <2>1, <2>2
<1>4. WalksOK' /\ CommandReads'
    BY <1>1, <1>3, NextWalkOK DEF Struct
<1>5. Pending' = Pending
    BY <1>1 DEF Pending
<1>6. /\ roots' \subseteq roots /\ roots' # {}
      /\ \A r \in Root : loc[r] = <<Top, r>> => <<Top, r>> \in roots'
    BY <1>1, RootsKept
<1>. QED  BY <1>1, <1>4, <1>5, <1>6, LessStruct

\* The paths a command may be given.
LEMMA CommandPaths ==
    ASSUME Struct
    PROVE  {e[2] : e \in cache} \cup {PathOf[d] : d \in Monitored} \subseteq Below
<1>1. ASSUME NEW d \in Monitored PROVE PathOf[d] \in Below
    BY PathFacts DEF Monitored, Live, Below, Struct, Files
<1>. QED  BY <1>1 DEF Struct, Entries

\* A command zaps, walks, rebuilds or ends.
LEMMA CommandStruct ==
    ASSUME IInv, Struct, Command
    PROVE  Struct'
<1>1. pc = "command" /\ UNCHANGED <<loc, moving>> /\ buf = <<>> /\ walks = <<>>
    BY DEF Command, Struct, CommandReads, WalksOK
<1>2. CASE CmdRebuild
    <2>1. reinitialize(roots) /\ roots' = roots /\ roots \in SUBSET roots
        BY <1>2 DEF CmdRebuild
    <2>2. /\ roots' \subseteq roots /\ roots' # {}
          /\ \A r \in Root : loc[r] = <<Top, r>> => <<Top, r>> \in roots'
        BY <1>1, <2>1, RootsKept
    <2>. QED  BY <1>1, <2>1, <2>2, ReinitStruct
<1>3. CASE CmdQuit
    <2>1. pc' = "exited" /\ UNCHANGED <<watch, nextWd, queue, cache, roots, buf, walks>>
        BY <1>3 DEF CmdQuit, kernel
    <2>2. WalksOK' /\ CommandReads' /\ Pending' = Pending
        BY <1>1, <2>1 DEF Struct, WalksOK, CommandReads, Pending
    <2>3. /\ roots' \subseteq roots /\ roots' # {}
          /\ \A r \in Root : loc[r] = <<Top, r>> => <<Top, r>> \in roots'
        BY <1>1, <2>1, RootsKept
    <2>. QED  BY <1>1, <2>1, <2>2, <2>3, LessStruct
<1>4. ASSUME NEW p \in Below, CmdCut(p) \/ CmdAdd(p) PROVE Struct'
    <2>1. UNCHANGED <<nextWd, rset, roots, buf>>
        BY <1>4 DEF CmdCut, CmdAdd
    <2>2. PICK part \in SUBSET cache : Zap(part)
        BY <1>4 DEF CmdCut, CmdAdd, CmdZap, Subtree
    <2>3. /\ cache' \subseteq cache
          /\ \A d \in All : watch'[d] # 0 => watch'[d] = watch[d]
          /\ \A d \in All : watch'[d] = watch[d] \/ \A e \in cache' : e[1] # watch[d]
          /\ \A e \in Pending' : e.mask = "MOVE_SELF" => e \in Pending
        BY <2>1, <2>2, ZapStruct
    <2>4. WalksOK' /\ CommandReads'
        <3>1. CASE CmdCut(p)
            <4>1. pc' = Resume(buf, rset) /\ UNCHANGED walks
                BY <3>1 DEF CmdCut
            <4>. QED  BY <1>1, <4>1, ResumeFacts DEF WalksOK, CommandReads, Struct
        <3>2. CASE CmdAdd(p)
            <4>1. StartWalks(<<p>>) /\ <<p>> \in Seq(Below) /\ <<p>> # <<>>
                BY <3>2 DEF CmdAdd
            <4>2. WalksOK'
                BY <4>1, WalksStarted
            <4>. QED  BY <4>1, <4>2 DEF StartWalks, CommandReads
        <3>. QED  BY <1>4, <3>1, <3>2
    <2>5. /\ roots' \subseteq roots /\ roots' # {}
          /\ \A r \in Root : loc[r] = <<Top, r>> => <<Top, r>> \in roots'
        BY <1>1, <2>1, RootsKept
    <2>. QED  BY <1>1, <2>1, <2>3, <2>4, <2>5, LessStruct
<1>5. CASE \E p \in {e[2] : e \in cache} \cup {PathOf[d] : d \in Monitored} : CmdCut(p) \/ CmdAdd(p)
    BY <1>4, <1>5, CommandPaths
<1>. QED  BY <1>2, <1>3, <1>5 DEF Command

\* And a step that changes nothing.
LEMMA StutteringStruct ==
    ASSUME Struct, UNCHANGED vars
    PROVE  Struct'
<1>1. UNCHANGED <<loc, moving, watch, nextWd, queue, cache, roots, buf, pc, walks>>
    BY DEF vars, fs, kernel, program
<1>2. Tree' /\ Live' = Live /\ HeldLive' /\ Pending' = Pending
    BY <1>1 DEF Struct, Files, Tree, HeldLive, Live, Pending
<1>. QED  BY <1>1, <1>2 DEF Struct, Files, WatchedLive, Entries, SelfMoves, RootsOK, WalksOK, CommandReads

\* There is one path for each root.
LEMMA RootsCounted == Cardinality({<<Top, d>> : d \in Root}) = Cardinality(Root)
<1>. DEFINE f == [r \in Root |-> <<Top, r>>]
            S == {<<Top, d>> : d \in Root}
<1>1. IsFiniteSet(Root)
    BY DtreeAssumption, FS_Subset DEF All
<1>2. f \in [Root -> S] /\ \A r \in Root : f[r] = <<Top, r>>
    OBVIOUS
<1>3. \A a, b \in Root : <<Top, a>> = <<Top, b>> => a = b
    OBVIOUS
<1>4. \A p \in S : \E r \in Root : p = <<Top, r>>
    OBVIOUS
<1>. HIDE DEF f, S
<1>5. f \in Bijection(Root, S)
    BY <1>2, <1>3, <1>4 DEF Bijection, Injection, Surjection, IsInjective
<1>6. ExistsBijection(Root, S)
    BY <1>5 DEF ExistsBijection
<1>7. Cardinality(S) = Cardinality(Root)
    BY <1>1, <1>6, FS_Bijection
<1>. QED  BY <1>7 DEF S

\* At the start Struct holds.
LEMMA InitStruct ==
    ASSUME Init
    PROVE  Struct
<1>1. /\ loc = [d \in All |-> IF d \in Root THEN <<Top, d>> ELSE InitLoc[d]]
      /\ moving = [m \in Mover |-> {}] /\ watch = [d \in All |-> 0] /\ queue = <<>>
      /\ cache = {} /\ roots = {<<Top, d>> : d \in Root} /\ buf = <<>> /\ pc = "walk"
      /\ walks = [k \in 1..Cardinality(Root) |->
                  <<[stage |-> "visit", path |-> SetToSeq({<<Top, d>> : d \in Root})[k]]>>]
    BY DEF Init
<1>2. Tree
    BY InitTree DEF Tree
<1>3. HeldLive /\ WatchedLive /\ Entries /\ CommandReads
    BY <1>1 DEF HeldLive, WatchedLive, Entries, CommandReads
<1>4. SelfMoves
    <2>1. ToSet(<<>>) = {}
        BY DEF ToSet
    <2>. QED  BY <1>1, <2>1 DEF SelfMoves, Pending
<1>5. RootsOK
    <2>1. cache = {} /\ roots = {<<Top, d>> : d \in Root}
        BY <1>1
    <2>2. Root # {}
        BY DtreeAssumption
    <2>3. roots # {}
        BY <2>1, <2>2
    <2>. QED  BY <2>1, <2>3 DEF RootsOK
<1>6. WalksOK
    <2>. DEFINE paths == SetToSeq(roots)
                n == Cardinality(Root)
    <2>1. roots \subseteq Below /\ IsFiniteSet(roots) /\ roots # {}
        <3>1. pc # "exited"
            BY <1>1
        <3>. QED  BY <1>5, <3>1, RootsBelow DEF RootsOK
    <2>2. paths \in Seq(roots) /\ paths # <<>>
        BY <2>1, ListCovers
    <2>3. paths \in Seq(Below) /\ Len(paths) \in Nat \ {0}
        BY <2>1, <2>2, EmptySeq, LenProperties
    <2>4. n = Len(paths)
        <3>1. Cardinality(roots) = n
            BY <1>1, RootsCounted
        <3>2. Len(paths) = Cardinality(roots)
            BY <2>1, ListCovers
        <3>. QED  BY <3>1, <3>2
    <2>5. walks = [k \in 1..Len(paths) |-> <<[stage |-> "visit", path |-> paths[k]]>>]
        BY <1>1, <2>4
    <2>. HIDE DEF paths, n
    <2>. DEFINE w(k) == <<[stage |-> "visit", path |-> paths[k]]>>
    <2>6. \A k \in 1..Len(paths) : w(k) \in Seq(Item) \ {<<>>}
        <3>1. ASSUME NEW k \in 1..Len(paths) PROVE [stage |-> "visit", path |-> paths[k]] \in Item
            BY <2>3, ElementOfSeq DEF Item
        <3>2. \A x \in Item : <<x>> \in Seq(Item) /\ <<x>> # <<>>
            OBVIOUS
        <3>. QED  BY <3>1, <3>2
    <2>7. walks = [k \in 1..Len(paths) |-> w(k)]
        BY <2>5
    <2>. HIDE DEF w
    <2>8. walks \in [1..Len(paths) -> Seq(Item) \ {<<>>}]
        BY <2>6, <2>7
    <2>9. walks \in Seq(Seq(Item) \ {<<>>}) /\ Len(walks) = Len(paths)
        BY <2>3, <2>8
    <2>10. walks # <<>>
        BY <2>3, <2>9, EmptySeq
    <2>. QED  BY <1>1, <2>9, <2>10 DEF WalksOK
<1>. QED  BY <1>2, <1>3, <1>4, <1>5, <1>6 DEF Struct, Files

\* The steps of other processes together.
LEMMA EnvironmentStruct ==
    ASSUME IInv, IInv', Struct, Environment
    PROVE  Struct'
BY MkdirStruct, RmdirStruct, RenameFromStruct, RenameToStruct, MoveRootStruct DEF Environment

\* The events processed together.
LEMMA ProcessStruct ==
    ASSUME IInv, Struct, ProcessEvent
    PROVE  Struct'
BY RebuildStruct, IgnoredStruct, AppearedStruct, DeleteSelfStruct, RenamedStruct, MovedOutStruct,
   HangingStruct, MoveSelfStruct DEF ProcessEvent

\* Every step keeps Struct.
LEMMA StructInductive ==
    ASSUME IInv, IInv', Struct, [Next]_vars
    PROVE  Struct'
BY StutteringStruct, EnvironmentStruct, SelectStruct, ReadStruct, ProcessStruct,
   WalkVisitStruct, WalkListStruct, CommandStruct DEF Next, Program, Walk

-----------------------------------------------------------------------------
(* The events still to be processed, in the buffer and then in the queue.  *)

\* The events to be processed, first to last.
Pend == buf \o queue
First == Head(Pend)
Later == ToSet(Tail(Pend))

\* A sequence is its first element and the rest.
LEMMA FirstAndRest ==
    ASSUME NEW S, NEW s \in Seq(S), s # <<>>
    PROVE  /\ Head(s) \in S /\ Tail(s) \in Seq(S) /\ Len(s) \in Nat \ {0} /\ Len(Tail(s)) = Len(s) - 1
           /\ Head(s) = s[1] /\ \A i \in 1..(Len(s) - 1) : Tail(s)[i] = s[i + 1]
           /\ ToSet(s) = {Head(s)} \cup ToSet(Tail(s))
<1>. DEFINE t == Tail(s)
            h == Head(s)
<1>1. /\ h \in S /\ t \in Seq(S) /\ Len(t) = Len(s) - 1 /\ \A i \in 1..Len(t) : t[i] = s[i + 1]
    BY HeadTailProperties
<1>2. Len(s) \in Nat \ {0} /\ h = s[1]
    BY EmptySeq
<1>3. /\ DOMAIN t = 1..(Len(s) - 1) /\ DOMAIN s = 1..Len(s)
    BY <1>1, LenProperties
<1>. HIDE DEF t, h
<1>4. ToSet(s) \subseteq {h} \cup ToSet(t)
    <2>. SUFFICES ASSUME NEW i \in 1..Len(s), i # 1 PROVE s[i] \in ToSet(t)
        BY <1>2, <1>3 DEF ToSet
    <2>1. i - 1 \in 1..(Len(s) - 1) /\ (i - 1) + 1 = i
        BY <1>2
    <2>. QED  BY <1>1, <1>3, <2>1 DEF ToSet
<1>5. h \in ToSet(s)
    BY <1>2, <1>3 DEF ToSet
<1>6. ToSet(t) \subseteq ToSet(s)
    <2>1. \A i \in 1..(Len(s) - 1) : i + 1 \in 1..Len(s)
        BY <1>2
    <2>. QED  BY <1>1, <1>3, <2>1 DEF ToSet
<1>7. ToSet(s) = {h} \cup ToSet(t)
    BY <1>4, <1>5, <1>6
<1>. QED  BY <1>1, <1>2, <1>7 DEF t, h

\* What is added to the end leaves the first.
LEMMA FirstStays ==
    ASSUME NEW S, NEW s \in Seq(S), NEW t \in Seq(S), s # <<>>
    PROVE  s \o t # <<>> /\ Head(s \o t) = Head(s) /\ Tail(s \o t) = Tail(s) \o t
<1>. DEFINE c == s \o t
            a == Tail(s)
            b == Tail(c)
            d == a \o t
<1>1. /\ c \in Seq(S) /\ Len(c) = Len(s) + Len(t)
      /\ \A i \in 1..(Len(s) + Len(t)) : c[i] = IF i <= Len(s) THEN s[i] ELSE t[i - Len(s)]
    BY ConcatProperties
<1>2. Len(s) \in Nat \ {0} /\ Len(t) \in Nat
    BY EmptySeq, LenProperties
<1>3. c # <<>>
    <2>1. Len(c) # 0
        BY <1>1, <1>2
    <2>. QED  BY <2>1, EmptySeq
<1>4. /\ a \in Seq(S) /\ Len(a) = Len(s) - 1 /\ Head(s) = s[1] /\ \A i \in 1..(Len(s) - 1) : a[i] = s[i + 1]
    BY FirstAndRest
<1>. HIDE DEF c
<1>5. /\ b \in Seq(S) /\ Len(b) = Len(c) - 1 /\ Head(c) = c[1] /\ \A i \in 1..(Len(c) - 1) : b[i] = c[i + 1]
    BY <1>1, <1>3, FirstAndRest
<1>. HIDE DEF a, b
<1>6. /\ d \in Seq(S) /\ Len(d) = Len(a) + Len(t)
      /\ \A i \in 1..(Len(a) + Len(t)) : d[i] = IF i <= Len(a) THEN a[i] ELSE t[i - Len(a)]
    BY <1>4, ConcatProperties
<1>. HIDE DEF d
<1>7. Len(d) = Len(b)
    BY <1>1, <1>2, <1>4, <1>5, <1>6
<1>8. ASSUME NEW i \in 1..Len(b) PROVE b[i] = d[i]
    <2>1. i \in Nat /\ i \in 1..(Len(c) - 1) /\ i + 1 \in 1..(Len(s) + Len(t)) /\ i \in 1..(Len(a) + Len(t))
        BY <1>1, <1>2, <1>4, <1>5
    <2>2. b[i] = IF i + 1 <= Len(s) THEN s[i + 1] ELSE t[(i + 1) - Len(s)]
        BY <1>1, <1>5, <2>1
    <2>3. d[i] = IF i <= Len(a) THEN a[i] ELSE t[i - Len(a)]
        BY <1>6, <2>1
    <2>4. CASE i <= Len(a)
        <3>1. i \in 1..(Len(s) - 1) /\ i + 1 <= Len(s)
            BY <1>2, <1>4, <2>1, <2>4
        <3>. QED  BY <1>4, <2>2, <2>3, <2>4, <3>1
    <2>5. CASE ~(i <= Len(a))
        <3>1. ~(i + 1 <= Len(s)) /\ (i + 1) - Len(s) = i - Len(a)
            BY <1>2, <1>4, <2>1, <2>5
        <3>. QED  BY <2>2, <2>3, <2>5, <3>1
    <2>. QED  BY <2>4, <2>5
<1>9. b = d
    BY <1>5, <1>6, <1>7, <1>8, SeqEqual
<1>10. Head(c) = Head(s)
    BY <1>1, <1>2, <1>4, <1>5
<1>. QED  BY <1>3, <1>9, <1>10 DEF a, b, c, d

\* What is pending is in the buffer or the queue.
LEMMA PendFacts ==
    ASSUME IInv
    PROVE  Pend \in Seq(Events) /\ ToSet(Pend) = Pending /\ buf \in Seq(Events) /\ queue \in Seq(Events)
<1>1. buf \in Seq(Events) /\ queue \in Seq(Events)
    BY DEF IInv, State, Reading, QueueOK
<1>2. buf \o queue \in Seq(Events) /\ ToSet(buf \o queue) = ToSet(buf) \cup ToSet(queue)
    BY <1>1, ConcatProperties, ConcatElements
<1>. QED  BY <1>1, <1>2 DEF Pend, Pending

\* Events posted come last.
LEMMA PendPosted ==
    ASSUME IInv, NEW es \in Seq(Events), queue' = Posts(queue, es), buf' = buf
    PROVE  \E t \in Seq(Events) : Pend' = Pend \o t /\ ToSet(t) \subseteq ToSet(es) \cup {Overflow}
<1>1. buf \in Seq(Events) /\ queue \in Seq(Events) /\ QueueOK(queue)
    BY DEF IInv, State, Reading, QueueOK
<1>2. PICK t \in Seq(Events) : Posts(queue, es) = queue \o t /\ ToSet(t) \subseteq ToSet(es) \cup {Overflow}
    BY <1>1, PostsAppends
<1>3. buf \o (queue \o t) = (buf \o queue) \o t
    BY SMTT(30), <1>1, ConcatAssociative
<1>. QED  BY <1>2, <1>3 DEF Pend

\* The event processed is the first, and then it is gone.
LEMMA PendConsumed ==
    ASSUME IInv, Processing
    PROVE  /\ Pend # <<>> /\ First = ev /\ ev \in Events
           /\ Consume(1) => buf' \in Seq(Events) /\ buf' \o queue = Tail(Pend)
           /\ Paired => buf[2] \in Later
           /\ Paired /\ Consume(2) /\ queue' = queue => Pending' \subseteq Later
<1>1. buf # <<>> /\ buf \in Seq(Events) /\ queue \in Seq(Events) /\ Len(buf) \in Nat \ {0}
    BY HasEvent, PendFacts
<1>2. buf \o queue # <<>> /\ Head(buf \o queue) = Head(buf) /\ Tail(buf \o queue) = Tail(buf) \o queue
    BY <1>1, FirstStays
<1>3. Tail(buf) = SubSeq(buf, 2, Len(buf)) /\ Tail(buf) \in Seq(Events) /\ Head(buf) \in Events
    BY <1>1, TailIsSubSeq, HeadTailProperties
<1>4. Consume(1) => buf' = Tail(buf)
    BY <1>3 DEF Consume
<1>5. Later = ToSet(Tail(buf)) \cup ToSet(queue)
    <2>1. ToSet(Tail(buf) \o queue) = ToSet(Tail(buf)) \cup ToSet(queue)
        BY ZenonT(60), <1>1, <1>3, ConcatElements
    <2>. QED  BY <1>2, <2>1 DEF Later, Pend
<1>6. ASSUME Paired
      PROVE  /\ buf[2] \in ToSet(Tail(buf))
             /\ Consume(2) => ToSet(buf') \subseteq ToSet(Tail(buf))
    <2>. DEFINE b == Tail(buf)
    <2>1. Len(buf) > 1
        BY <1>6 DEF Paired
    <2>2. /\ b \in Seq(Events) /\ Len(b) = Len(buf) - 1 /\ \A i \in 1..(Len(buf) - 1) : b[i] = buf[i + 1]
        BY <1>1, FirstAndRest
    <2>. HIDE DEF b
    <2>3. DOMAIN b = 1..(Len(buf) - 1)
        BY <2>2, LenProperties
    <2>4. buf[2] \in ToSet(b)
        <3>1. 1 \in 1..(Len(buf) - 1) /\ 1 + 1 = 2
            BY <1>1, <2>1
        <3>. QED  BY <2>2, <2>3, <3>1 DEF ToSet
    <2>5. ASSUME Consume(2) PROVE ToSet(buf') \subseteq ToSet(b)
        <3>. DEFINE c == SubSeq(buf, 3, Len(buf))
        <3>1. /\ c \in Seq(Events) /\ Len(c) = (IF 3 <= Len(buf) THEN Len(buf) - 3 + 1 ELSE 0)
              /\ \A i \in 1..(Len(buf) - 3 + 1) : c[i] = buf[3 + i - 1]
            BY <1>1, PartElements
        <3>2. buf' = c
            BY <2>5 DEF Consume
        <3>. HIDE DEF c
        <3>3. DOMAIN c = 1..Len(c)
            BY <3>1, LenProperties
        <3>4. ASSUME NEW i \in DOMAIN c PROVE c[i] \in ToSet(b)
            <4>1. i \in 1..(Len(buf) - 3 + 1) /\ i + 1 \in 1..(Len(buf) - 1) /\ (i + 1) + 1 = 3 + i - 1
                BY <1>1, <2>1, <3>1, <3>3, <3>4
            <4>2. c[i] = buf[3 + i - 1] /\ b[i + 1] = buf[(i + 1) + 1]
                BY <2>2, <3>1, <4>1
            <4>. QED  BY <2>3, <4>1, <4>2 DEF ToSet
        <3>. QED  BY <3>2, <3>4 DEF ToSet
    <2>. QED  BY <2>4, <2>5 DEF b
<1>7. ASSUME queue' = queue, ToSet(buf') \subseteq ToSet(Tail(buf)) PROVE Pending' \subseteq Later
    BY <1>5, <1>7 DEF Pending
<1>8. ev = Head(buf)
    BY DEF ev
<1>. QED  BY <1>1, <1>2, <1>3, <1>4, <1>5, <1>6, <1>7, <1>8 DEF Pend, First

\* Reading moves events and leaves their order.
LEMMA PendTaken ==
    ASSUME IInv, NEW room \in Nat, Take(room)
    PROVE  Pend' = Pend
<1>. DEFINE n == IF Len(queue) < room THEN Len(queue) ELSE room
            a == SubSeq(queue, 1, n)
            b == SubSeq(queue, n + 1, Len(queue))
<1>1. buf \in Seq(Events) /\ queue \in Seq(Events) /\ Len(queue) \in Nat
    BY PendFacts, LenProperties
<1>2. n \in 0..Len(queue)
    BY <1>1
<1>3. buf' = buf \o a /\ queue' = b
    BY DEF Take
<1>. HIDE DEF n
<1>4. a \in Seq(Events) /\ b \in Seq(Events)
    BY <1>1, <1>2, PartElements
<1>5. a \o b = queue
    <2>1. SubSeq(queue, 1, n) \o SubSeq(queue, n + 1, Len(queue)) = SubSeq(queue, 1, Len(queue))
        <3>1. 1 \in 1..Len(queue) + 1 /\ n \in 1 - 1..Len(queue) /\ Len(queue) \in n..Len(queue)
            BY <1>1, <1>2
        <3>. QED  BY <1>1, <3>1, ConcatAdjacentSubSeq
    <2>2. SubSeq(queue, 1, Len(queue)) = queue
        BY <1>1, SubSeqFull
    <2>. QED  BY <2>1, <2>2
<1>. HIDE DEF a, b
<1>6. (buf \o a) \o b = buf \o (a \o b)
    BY <1>1, <1>4, ConcatAssociative
<1>. QED  BY <1>3, <1>5, <1>6 DEF Pend

\* A read takes no event away.
LEMMA PendRead ==
    ASSUME IInv, Read \/ ReadAgain
    PROVE  Pend' = Pend
<1>1. BufMax \in Nat /\ Len(buf) \in Nat /\ Len(buf) <= BufMax
    BY LenProperties, DtreeAssumption DEF IInv, State, Reading
<1>2. BufMax - Len(buf) \in Nat
    BY <1>1
<1>3. Take(BufMax) \/ Take(BufMax - Len(buf)) \/ UNCHANGED <<buf, queue>>
    BY DEF Read, ReadAgain
<1>4. UNCHANGED <<buf, queue>> => Pend' = Pend
    BY DEF Pend
<1>. QED  BY <1>1, <1>2, <1>3, <1>4, PendTaken

-----------------------------------------------------------------------------
(* The cache follows the renames.                                          *)

Moves == {"MOVED_FROM", "MOVE_SELF"}
Clean == shaken \cap {"rename", "command"} = {}

\* The path in the cache of the directory whose rename is the first event.
OldPath == IF First.mask = "MOVED_FROM" THEN Append(CachedPath(First.wd), First.name) ELSE CachedPath(First.wd)

\* Every entry has the path of the directory with its watch.
Agree == \A e \in cache, d \in All : watch[d] = e[1] => PathOf[d] = e[2]
Settled == (\A e \in Pending : e.mask \notin Moves) /\ Agree

\* Every entry will have, once what is below OldPath is moved to new.
Awaiting(new) ==
    /\ pc # "walk" /\ Pend # <<>> /\ (\A e \in Later : e.mask \notin Moves) /\ findWatch(First.wd) # {}
    /\ \A e \in cache, d \in All : watch[d] = e[1] => PathOf[d] = Moved(e[2], OldPath, new)

\* A rename's first event is next; its second, if it comes, tells the path new.
Arriving(new) == \A e \in Pending : e.mask = "MOVED_TO" /\ e.cookie = First.cookie /\ findWatch(e.wd) # {} =>
                    Append(CachedPath(e.wd), e.name) = new
Underway(new) == \A m \in Mover : \A r \in moving[m] : r.cookie = First.cookie /\ r.to \in All =>
                    Append(PathOf[r.to], r.name) = new
Renaming(new) == Awaiting(new) /\ First.mask = "MOVED_FROM" /\ Arriving(new) /\ Underway(new)

\* A root's rename is next, of a root that is monitored.
RootMoving(new) == Awaiting(new) /\ First.mask = "MOVE_SELF" /\ OldPath \in roots

Followed == Clean /\ pc # "exited" =>
    Settled \/ \E new \in Seq(Labels) : Renaming(new) \/ RootMoving(new)

\* Who has a watch with an entry is still watched with it.
LEMMA EntryWatched ==
    ASSUME IInv, Struct, NEW e \in cache, NEW d \in All, watch[d] = e[1]
    PROVE  watch[d] # 0 /\ d \in Live /\ PathOf[d] \in Seq(Labels) /\ e[2] \in Seq(Labels)
BY PathFacts DEF Struct, Entries, WatchedLive, Below, Files

\* The paths in the cache do not change with the rest.
Cached(c, wd) == (CHOOSE e \in c : e[1] = wd)[2]

\* A cache that is the same gives the same paths.
LEMMA SameCache ==
    ASSUME cache' = cache
    PROVE  \A wd : CachedPath(wd)' = CachedPath(wd) /\ findWatch(wd)' = findWatch(wd)
<1>. TAKE wd
<1>1. CachedPath(wd) = Cached(cache, wd)
    BY DEF CachedPath, Cached
<1>2. CachedPath(wd)' = Cached(cache', wd)
    BY DEF CachedPath, Cached
<1>3. findWatch(wd)' = findWatch(wd)
    BY DEF findWatch
<1>. QED  BY <1>1, <1>2, <1>3

\* A step that leaves a rename as far as it was, and one after which none is ahead.
PhaseKept ==
    /\ Settled => Settled'
    /\ \A new \in Seq(Labels) : (Renaming(new) => Renaming(new)') /\ (RootMoving(new) => RootMoving(new)')
Settling == Clean' /\ pc' # "exited" => Settled'

\* A step that keeps the phase keeps Followed.
LEMMA PhaseFollowed ==
    ASSUME Followed, PhaseKept, Clean' => Clean, pc' # "exited" => pc # "exited"
    PROVE  Followed'
<1>1. CASE Clean' /\ pc' # "exited"
    <2>1. Settled \/ \E new \in Seq(Labels) : Renaming(new) \/ RootMoving(new)
        BY <1>1 DEF Followed
    <2>2. Settled' \/ \E new \in Seq(Labels) : Renaming(new)' \/ RootMoving(new)'
        BY <2>1 DEF PhaseKept
    <2>. QED  BY <2>2 DEF Followed
<1>2. CASE ~(Clean' /\ pc' # "exited")
    BY <1>2 DEF Followed
<1>. QED  BY <1>1, <1>2

\* So does one that brings it to rest.
LEMMA SettlingFollowed ==
    ASSUME Settling
    PROVE  Followed'
BY DEF Settling, Followed

\* What a step of another process keeps of this: it adds an event at the end,
\* none of a rename's first, and no watched directory moves.
LEMMA EventsKeep ==
    ASSUME IInv, Struct, UNCHANGED <<program, nextWd>>,
           NEW t \in Seq(Events), Pend' = Pend \o t, Pending' = ToSet(Pend'),
           \A e \in ToSet(t) : e.mask \notin Moves,
           \A e \in ToSet(t) : e.mask = "MOVED_TO" =>
                /\ \E d \in Live : watch[d] = e.wd /\ watch[d] # 0
                /\ \A new \in Seq(Labels), d \in All : Underway(new) /\ Pend # <<>> /\ e.cookie = First.cookie /\ watch[d] = e.wd =>
                     Append(PathOf[d], e.name) = new /\ e.name \in Labels,
           \A d \in All : watch'[d] # 0 => watch'[d] = watch[d] /\ PathOf'[d] = PathOf[d],
           \A m \in Mover : \A r \in moving'[m] : r \in moving[m] /\ (r.to \in All => PathOf'[r.to] = PathOf[r.to])
    PROVE  PhaseKept
<1>1. UNCHANGED <<pc, rset, cache, roots, buf, firstTry, walks>>
    BY DEF program
<1>2. Pend \in Seq(Events) /\ ToSet(Pend) = Pending
    BY PendFacts
<1>3. Pending' = Pending \cup ToSet(t)
    BY <1>2, ConcatElements
<1>4. \A e \in cache, d \in All : watch'[d] = e[1] => watch[d] = e[1] /\ PathOf'[d] = PathOf[d]
    <2>1. \A e \in cache : e[1] # 0
        BY DEF Struct, Entries
    <2>. QED  BY <2>1
<1>5. ASSUME Settled PROVE Settled'
    BY <1>1, <1>3, <1>4, <1>5 DEF Settled, Agree
<1>6. ASSUME NEW new \in Seq(Labels), Renaming(new) \/ RootMoving(new)
      PROVE  (Renaming(new) => Renaming(new)') /\ (RootMoving(new) => RootMoving(new)')
    <2>1. Pend # <<>> /\ findWatch(First.wd) # {}
        BY <1>6 DEF Renaming, RootMoving, Awaiting
    <2>2. Pend' # <<>> /\ First' = First /\ Tail(Pend') = Tail(Pend) \o t /\ Tail(Pend) \in Seq(Events) /\ First \in Events
        BY <1>2, <2>1, FirstStays, FirstAndRest DEF First
    <2>3. Later' = Later \cup ToSet(t)
        <3>. DEFINE a == Tail(Pend)
        <3>1. a \in Seq(Events)
            BY <2>2
        <3>. HIDE DEF a
        <3>2. ToSet(a \o t) = ToSet(a) \cup ToSet(t)
            BY <3>1, ConcatElements
        <3>3. ToSet(Tail(Pend) \o t) = ToSet(Tail(Pend)) \cup ToSet(t)
            BY <3>2 DEF a
        <3>4. Later' = ToSet(Tail(Pend'))
            BY DEF Later
        <3>. QED  BY <2>2, <3>3, <3>4 DEF Later
    <2>4. \A wd : CachedPath(wd)' = CachedPath(wd) /\ findWatch(wd)' = findWatch(wd)
        BY <1>1, SameCache
    <2>5. OldPath' = OldPath
        BY <2>2, <2>4 DEF OldPath
    <2>6. Awaiting(new)'
        <3>1. \A e \in Later' : e.mask \notin Moves
            BY <1>6, <2>3 DEF Renaming, RootMoving, Awaiting
        <3>2. ASSUME NEW e \in cache', NEW d \in All, watch'[d] = e[1]
              PROVE  PathOf'[d] = Moved(e[2], OldPath', new)
            <4>1. e \in cache /\ watch[d] = e[1] /\ PathOf'[d] = PathOf[d]
                BY <1>1, <1>4, <3>2
            <4>2. PathOf[d] = Moved(e[2], OldPath, new)
                BY <1>6, <4>1 DEF Renaming, RootMoving, Awaiting
            <4>. QED  BY <2>5, <4>1, <4>2
        <3>3. pc' # "walk" /\ findWatch(First.wd)' # {}
            BY <1>1, <1>6, <2>1, <2>2 DEF Renaming, RootMoving, Awaiting, findWatch
        <3>. QED  BY <2>2, <3>1, <3>2, <3>3, Zenon DEF Awaiting
    <2>7. ASSUME RootMoving(new) PROVE RootMoving(new)'
        <3>1. First.mask = "MOVE_SELF" /\ OldPath \in roots
            BY <2>7 DEF RootMoving
        <3>. QED  BY <1>1, <2>2, <2>5, <2>6, <3>1 DEF RootMoving
    <2>8. ASSUME Renaming(new) PROVE Renaming(new)'
        <3>1. First.mask = "MOVED_FROM" /\ Arriving(new) /\ Underway(new)
            BY <2>8 DEF Renaming
        <3>2. Underway(new)'
            BY SMTT(30), <2>2, <3>1 DEF Underway
        <3>3. ASSUME NEW e \in Pending', e.mask = "MOVED_TO", e.cookie = First.cookie, findWatch(e.wd) # {}
              PROVE  Append(CachedPath(e.wd), e.name) = new
            <4>1. CASE e \in Pending
                BY <3>1, <3>3, <4>1 DEF Arriving
            <4>2. CASE e \in ToSet(t)
                <5>1. PICK d \in Live : watch[d] = e.wd /\ watch[d] # 0
                    BY <3>3, <4>2
                <5>2. d \in All
                    BY LiveIs
                <5>3. Append(PathOf[d], e.name) = new /\ e.name \in Labels
                    BY <2>1, <3>1, <3>3, <4>2, <5>1, <5>2
                <5>4. PICK f \in cache : f[1] = e.wd /\ f[2] = CachedPath(e.wd)
                    BY <3>3, CachedPathIs
                <5>5. PathOf[d] = Moved(f[2], OldPath, new)
                    BY <2>8, <5>1, <5>2, <5>4 DEF Renaming, Awaiting
                <5>6. PathOf[d] \in Seq(Labels) /\ f[2] \in Seq(Labels)
                    BY <5>1, <5>2, <5>4, EntryWatched
                <5>7. OldPath \in Seq(Labels)
                    <6>1. First.name \in Name \cup {Nowhere}
                        BY <2>2 DEF Events
                    <6>2. CachedPath(First.wd) \in Below /\ Append(CachedPath(First.wd), First.name) \in Below
                        BY <2>1, <6>1, CachedPathBelow DEF Struct
                    <6>. QED  BY <6>2 DEF OldPath, Below
                <5>. DEFINE p == PathOf[d]
                            q == Append(p, e.name)
                            c == f[2]
                <5>8. ~IsPrefix(q, p)
                    BY <5>3, <5>6, AppendFacts
                <5>9. q = new /\ p = Moved(c, OldPath, new) /\ c \in Seq(Labels)
                    BY <5>3, <5>5, <5>6
                <5>. HIDE DEF p, q, c
                <5>10. IsPrefix(OldPath, c) => IsPrefix(new, Moved(c, OldPath, new))
                    BY <5>7, <5>9, MovedBelow
                <5>11. ~IsPrefix(OldPath, c)
                    BY <5>8, <5>9, <5>10
                <5>12. p = c
                    BY <5>9, <5>11 DEF Moved
                <5>13. Append(c, e.name) = new
                    BY <5>9, <5>12 DEF q
                <5>. QED  BY <5>4, <5>13 DEF c
            <4>. QED  BY <1>3, <4>1, <4>2
        <3>4. Arriving(new)'
            BY <2>2, <2>4, <3>3 DEF Arriving
        <3>. QED  BY <2>2, <2>6, <3>1, <3>2, <3>4 DEF Renaming
    <2>. QED  BY <2>7, <2>8
<1>. QED  BY <1>5, <1>6 DEF PhaseKept

\* What comes first while the buffer is not empty.
LEMMA PendNext ==
    ASSUME IInv'
    PROVE  Pending' = ToSet(Pend')
<1>1. buf' \in Seq(Events) /\ queue' \in Seq(Events)
    BY DEF IInv, State, Reading, QueueOK
<1>2. ToSet(buf' \o queue') = ToSet(buf') \cup ToSet(queue')
    BY <1>1, ConcatElements
<1>. QED  BY <1>2 DEF Pend, Pending

\* The overflow event tells of no rename.
LEMMA OverflowIsNoMove == Overflow.mask \notin Moves /\ Overflow.mask # "MOVED_TO"
BY DEF Overflow, Moves

\* Other processes create, remove, and end their renames.
LEMMA MkdirPhase ==
    ASSUME IInv, IInv', Struct, NEW d \in Dir, NEW up \in All, NEW n \in Name, Mkdir(d, up, n)
    PROVE  PhaseKept
<1>. DEFINE es == Event(up, "CREATE", n, 0)
<1>1. /\ queue' = Posts(queue, es)
      /\ UNCHANGED <<moving, watch, nextWd, program, shaken, buf>>
    BY DEF Mkdir, program
<1>2. /\ d \notin Live /\ d \in All /\ \A c \in All : c # d => PathOf'[c] = PathOf[c]
    BY MkdirPaths DEF Struct, Files, IInv, State, All
<1>3. es \in Seq(Events) /\ \A e \in ToSet(es) : e.mask = "CREATE"
    BY MkdirEvents
<1>. HIDE DEF es
<1>4. PICK t \in Seq(Events) : Pend' = Pend \o t /\ ToSet(t) \subseteq ToSet(es) \cup {Overflow}
    BY <1>1, <1>3, PendPosted
<1>5. \A e \in ToSet(t) : e.mask \notin Moves /\ e.mask # "MOVED_TO"
    BY <1>3, <1>4, OverflowIsNoMove DEF Moves
<1>6. \A c \in All : watch'[c] # 0 => watch'[c] = watch[c] /\ PathOf'[c] = PathOf[c]
    BY <1>1, <1>2 DEF Struct, WatchedLive
<1>7. \A m \in Mover : \A r \in moving'[m] : r \in moving[m] /\ (r.to \in All => PathOf'[r.to] = PathOf[r.to])
    <2>1. \A m \in Mover : \A r \in moving[m] : r.to # d
        BY <1>2, GoneIsNowhere, DtreeAssumption DEF Struct, Files, HeldLive
    <2>. QED  BY <1>1, <1>2, <2>1
<1>8. Pending' = ToSet(Pend')
    BY PendNext
<1>. QED  BY <1>1, <1>4, <1>5, <1>6, <1>7, <1>8, EventsKeep

\* rmdir() takes away a watch.
LEMMA RmdirPhase ==
    ASSUME IInv, IInv', Struct, NEW d \in All, Rmdir(d)
    PROVE  PhaseKept
<1>. DEFINE es == Event(d, "DELETE_SELF", Nowhere, 0) \o Event(d, "IGNORED", Nowhere, 0)
<1>1. /\ d \notin Held /\ watch' = [watch EXCEPT ![d] = 0] /\ queue' = Posts(queue, es) /\ shaken' = Shake(TRUE)
      /\ UNCHANGED <<moving, nextWd, program, buf>>
    BY DEF Rmdir, program
<1>2. \A c \in All : c # d => PathOf'[c] = PathOf[c]
    BY RmdirPaths DEF Struct, Files, IInv, State
<1>3. es \in Seq(Events) /\ \A e \in ToSet(es) : e.mask \in {"DELETE_SELF", "IGNORED"}
    BY RmdirEvents
<1>. HIDE DEF es
<1>4. PICK t \in Seq(Events) : Pend' = Pend \o t /\ ToSet(t) \subseteq ToSet(es) \cup {Overflow}
    BY <1>1, <1>3, PendPosted
<1>5. \A e \in ToSet(t) : e.mask \notin Moves /\ e.mask # "MOVED_TO"
    BY <1>3, <1>4, OverflowIsNoMove DEF Moves
<1>6. \A c \in All : watch'[c] # 0 => watch'[c] = watch[c] /\ PathOf'[c] = PathOf[c]
    BY <1>1, <1>2 DEF IInv, Books, Descriptors
<1>7. \A m \in Mover : \A r \in moving'[m] : r \in moving[m] /\ (r.to \in All => PathOf'[r.to] = PathOf[r.to])
    <2>1. \A m \in Mover : \A r \in moving[m] : r.to # d
        BY <1>1 DEF Held
    <2>. QED  BY <1>1, <1>2, <2>1
<1>8. Pending' = ToSet(Pend')
    BY PendNext
<1>. QED  BY <1>1, <1>4, <1>5, <1>6, <1>7, <1>8, EventsKeep

\* The second half of a rename tells the new path.
LEMMA RenameToPhase ==
    ASSUME IInv, IInv', Struct, NEW m \in Mover, RenameTo(m)
    PROVE  PhaseKept
<1>1. PICK r \in moving[m] :
          /\ moving' = [moving EXCEPT ![m] = {}]
          /\ queue' = Posts(queue, Event(r.to, "MOVED_TO", r.name, r.cookie))
          /\ UNCHANGED <<loc, ops, watch, nextWd, program, shaken>>
    BY DEF RenameTo
<1>. DEFINE es == Event(r.to, "MOVED_TO", r.name, r.cookie)
<1>2. PathOf' = PathOf
    BY <1>1, PathOfIsPaths
<1>3. /\ es \in Seq(Events)
      /\ \A e \in ToSet(es) : /\ e.mask = "MOVED_TO" /\ r.to \in All /\ e.wd = watch[r.to] /\ watch[r.to] # 0
                              /\ e.name = r.name /\ e.cookie = r.cookie
    <2>1. es \in Seq(Events)
        BY RenameToEvents
    <2>. QED  BY <2>1, EventElements
<1>4. queue' = Posts(queue, es) /\ buf' = buf
    BY <1>1 DEF program
<1>. HIDE DEF es
<1>5. PICK t \in Seq(Events) : Pend' = Pend \o t /\ ToSet(t) \subseteq ToSet(es) \cup {Overflow}
    BY <1>3, <1>4, PendPosted
<1>6. \A e \in ToSet(t) : e.mask \notin Moves
    BY <1>3, <1>5, OverflowIsNoMove DEF Moves
<1>7. ASSUME NEW e \in ToSet(t), e.mask = "MOVED_TO"
      PROVE  /\ \E d \in Live : watch[d] = e.wd /\ watch[d] # 0
             /\ \A new \in Seq(Labels), d \in All :
                    Underway(new) /\ Pend # <<>> /\ e.cookie = First.cookie /\ watch[d] = e.wd =>
                     Append(PathOf[d], e.name) = new /\ e.name \in Labels
    <2>1. /\ r.to \in All /\ e.wd = watch[r.to] /\ watch[r.to] # 0 /\ e.name = r.name /\ e.cookie = r.cookie
        BY <1>3, <1>5, <1>7, OverflowIsNoMove
    <2>2. r.to \in Live
        BY <2>1 DEF Struct, WatchedLive
    <2>3. r.name \in Labels
        BY DEF IInv, State, Renames, Labels
    <2>4. ASSUME NEW new \in Seq(Labels), NEW d \in All, Underway(new), e.cookie = First.cookie, watch[d] = e.wd
          PROVE  Append(PathOf[d], e.name) = new /\ e.name \in Labels
        <3>1. d = r.to
            BY <2>1, <2>4 DEF IInv, Books, Descriptors
        <3>2. Append(PathOf[r.to], r.name) = new
            BY <2>1, <2>4 DEF Underway
        <3>. QED  BY <2>1, <2>3, <3>1, <3>2
    <2>. QED  BY <2>1, <2>2, <2>4
<1>8. \A c \in All : watch'[c] # 0 => watch'[c] = watch[c] /\ PathOf'[c] = PathOf[c]
    BY <1>1, <1>2
<1>9. \A k \in Mover : \A x \in moving'[k] : x \in moving[k] /\ (x.to \in All => PathOf'[x.to] = PathOf[x.to])
    BY <1>1, <1>2 DEF IInv, State, Renames
<1>10. Pending' = ToSet(Pend')
    BY PendNext
<1>11. UNCHANGED <<program, nextWd>>
    BY <1>1
<1>. QED  BY <1>5, <1>6, <1>7, <1>8, <1>9, <1>10, <1>11, EventsKeep

\* The history stays clean only if the program had nothing to read.
LEMMA QuietPend ==
    ASSUME IInv, Quiet
    PROVE  Pend = <<>> /\ buf = <<>> /\ queue = <<>> /\ Pending = {}
<1>1. buf = <<>> /\ queue = <<>>
    BY DEF Quiet, IInv, State, Reading
<1>2. <<>> \o <<>> = <<>> /\ ToSet(<<>>) = {}
    BY DEF ToSet
<1>. QED  BY <1>1, <1>2 DEF Pend, Pending

\* At rest with nothing to read, the cache is right.
LEMMA QuietSettled ==
    ASSUME IInv, Struct, Followed, Quiet, Clean
    PROVE  Settled
<1>1. Pend = <<>> /\ pc # "exited"
    BY QuietPend DEF Quiet
<1>. QED  BY <1>1 DEF Followed, Renaming, RootMoving, Awaiting

\* One event posted to an empty queue.
LEMMA PostedAlone ==
    ASSUME IInv, NEW es \in Seq(Events), Len(es) <= 1, buf = <<>>, queue = <<>>, queue' = Posts(queue, es), buf' = buf
    PROVE  Pend' = es
<1>1. Len(es) \in Nat /\ QMax \in Nat \ {0} /\ <<>> \in Seq(Events)
    BY LenProperties, EmptySeq, DtreeAssumption
<1>2. <<>> \o es = es
    BY ConcatEmptySeq
<1>3. Posts(queue, es) = Post(queue, es)
    BY DEF Posts, Merges
<1>4. Len(queue) = 0
    BY EmptySeq
<1>5. Post(queue, es) = es
    BY <1>1, <1>2, <1>4 DEF Post
<1>. QED  BY <1>2, <1>3, <1>5 DEF Pend

\* A directory moves and nothing was to be read: either its event is, or it holds no watch.
LEMMA MoveUnseen ==
    ASSUME IInv, IInv', Struct, Settled, NEW d \in Live, NEW place, MovedTo(d, place), Seen(d, <<>>),
           UNCHANGED <<watch, cache>>, Pend' = <<>>
    PROVE  Settled'
<1>1. \A c \in All : PathOf'[c] = Moved(PathOf[c], PathOf[d], PathOf'[d])
    BY DEF MovedTo
<1>2. \A c \in All : watch[c] # 0 => ~IsPrefix(PathOf[d], PathOf[c])
    BY DEF Seen
<1>3. \A c \in All : watch[c] # 0 => PathOf'[c] = PathOf[c]
    BY <1>1, <1>2 DEF Moved
<1>4. Pending' = {}
    BY PendNext DEF ToSet
<1>5. \A e \in cache : e[1] # 0
    BY DEF Struct, Entries
<1>. QED  BY <1>3, <1>4, <1>5 DEF Settled, Agree

\* The entries have the paths of before, and its event is the only one.
LEMMA MoveSeen ==
    ASSUME IInv, IInv', Struct, Settled, NEW d \in Live, NEW place, MovedTo(d, place), pc' = "select",
           UNCHANGED <<watch, cache>>, NEW e \in Events, Pend' = <<e>>, findWatch(e.wd) # {},
           PathOf[d] = IF e.mask = "MOVED_FROM" THEN Append(CachedPath(e.wd), e.name) ELSE CachedPath(e.wd),
           NEW new \in Seq(Labels), new = PathOf'[d]
    PROVE  Awaiting(new)' /\ First' = e /\ OldPath' = PathOf[d] /\ Pending' = {e}
<1>1. First' = e /\ Pend' # <<>> /\ Later' = {} /\ Pending' = {e}
    <2>1. \A x : Head(<<x>>) = x /\ <<x>> # <<>> /\ Tail(<<x>>) = <<>>
        OBVIOUS
    <2>2. ToSet(<<e>>) = {e} /\ ToSet(<<>>) = {}
        BY DEF ToSet
    <2>. QED  BY <2>1, <2>2, PendNext DEF First, Later
<1>2. \A wd : CachedPath(wd)' = CachedPath(wd) /\ findWatch(wd)' = findWatch(wd)
    BY SameCache
<1>3. OldPath' = PathOf[d]
    BY <1>1, <1>2 DEF OldPath
<1>4. ASSUME NEW f \in cache', NEW c \in All, watch'[c] = f[1]
      PROVE  PathOf'[c] = Moved(f[2], OldPath', new)
    <2>1. PathOf[c] = f[2]
        BY <1>4 DEF Settled, Agree
    <2>. QED  BY <1>3, <2>1 DEF MovedTo
<1>5. findWatch(First.wd)' # {}
    BY <1>1 DEF findWatch
<1>. QED  BY <1>1, <1>3, <1>4, <1>5, Zenon DEF Awaiting

\* At rest each watched directory has its path in the cache.
LEMMA SettledPath ==
    ASSUME IInv, Settled, NEW d \in All, watch[d] # 0
    PROVE  findWatch(watch[d]) # {} /\ CachedPath(watch[d]) = PathOf[d]
<1>1. watch[d] \in KernelWds
    BY DEF KernelWds
<1>2. PICK e \in cache : e[1] = watch[d]
    BY <1>1 DEF IInv, Books, WatchesAreCached
<1>3. findWatch(watch[d]) # {}
    BY <1>2 DEF findWatch
<1>4. PICK f \in cache : f[1] = watch[d] /\ f[2] = CachedPath(watch[d])
    BY <1>3, CachedPathIs
<1>. QED  BY <1>3, <1>4 DEF Settled, Agree

\* A move made in silence is of nothing watched; one that is heard is next.
RenameHeard(d) == \E new \in Seq(Labels) : new = PathOf'[d] /\ OldPath' = PathOf[d] /\ Renaming(new)'
RootHeard(d) == \E new \in Seq(Labels) : new = PathOf'[d] /\ OldPath' = PathOf[d] /\ RootMoving(new)'

\* A rename leaves a clean history only if it is the one event to come, or holds no watch.
LEMMA RenameFromPhase ==
    ASSUME IInv, IInv', Struct, Followed, Clean', pc' # "exited", NEW m \in Mover, NEW d \in Dir, NEW up \in All \cup {Away}, NEW n \in Name,
           RenameFrom(m, d, up, n)
    PROVE  /\ Clean /\ Quiet /\ MovedTo(d, <<up, n>>)
           /\ \/ Settled' /\ Seen(d, <<>>)
              \/ loc[d][1] \in All /\ watch[loc[d][1]] # 0 /\ RenameHeard(d)
<1>. DEFINE es == Event(loc[d][1], "MOVED_FROM", loc[d][2], ops')
            r == [from |-> loc[d][1], to |-> up, name |-> n, cookie |-> ops']
<1>1. /\ queue' = Posts(queue, es) /\ shaken' = Shake(Quiet /\ Seen(d, es)) /\ moving' = [moving EXCEPT ![m] = {r}]
      /\ up \in Live \cup {Away} /\ (up \in Live => ~IsPrefix(PathOf[d], PathOf[up]))
      /\ d \in Live /\ ops < MaxOps /\ ops' = ops + 1
      /\ UNCHANGED <<watch, nextWd, pc, cache, roots, buf>>
    BY DEF RenameFrom, Change, program
<1>2. Clean /\ Quiet /\ Seen(d, es)
    BY <1>1 DEF Clean, Shake
<1>3. Settled /\ Pend = <<>> /\ buf = <<>> /\ queue = <<>>
    BY <1>2, QuietSettled, QuietPend
<1>4. MovedTo(d, <<up, n>>)
    BY RenamePaths DEF Struct, Files, IInv, State
<1>5. es \in Seq(Events) /\ \A e \in ToSet(es) : e.mask = "MOVED_FROM"
    BY <1>1, RenameFromEvents
<1>6. Len(es) <= 1
    BY DEF Event
<1>7. r.to = up /\ r.name = n
    OBVIOUS
<1>8. Pend' = es
    BY <1>1, <1>3, <1>5, <1>6, PostedAlone
<1>9. CASE es = <<>>
    <2>1. Settled'
        BY <1>1, <1>2, <1>3, <1>4, <1>8, <1>9, MoveUnseen
    <2>. QED  BY <1>2, <1>4, <1>9, <2>1
<1>10. CASE es # <<>>
    <2>. DEFINE p == loc[d][1]
                e == [wd |-> watch[p], mask |-> "MOVED_FROM", name |-> loc[d][2], cookie |-> ops']
    <2>1. p \in All /\ watch[p] # 0 /\ es = <<e>>
        BY <1>10 DEF Event
    <2>2. e \in Events
        <3>1. es \in Seq(Events) /\ es # <<>>
            BY <1>5, <1>10
        <3>2. Head(es) \in Events
            BY <3>1, HeadTailProperties
        <3>. QED  BY <2>1, <3>2
    <2>3. e.wd = watch[p] /\ e.mask = "MOVED_FROM" /\ e.name = loc[d][2]
        OBVIOUS
    <2>. HIDE DEF es, e, r
    <2>4. findWatch(e.wd) # {} /\ CachedPath(e.wd) = PathOf[p]
        BY <1>3, <2>1, <2>3, SettledPath
    <2>5. PathOf[d] = Append(CachedPath(e.wd), e.name)
        <3>1. PathOf[d] = Append(PathOf[p], loc[d][2])
            BY <2>1, PathFacts DEF Struct, Files, All
        <3>. QED  BY <2>3, <2>4, <3>1
    <2>6. /\ PathOf'[d] = PathAt(PathOf, <<up, n>>) /\ PathAt(PathOf, <<up, n>>) \in Seq(Labels)
          /\ \A c \in All : PathOf'[c] = Moved(PathOf[c], PathOf[d], PathOf'[d])
        BY <1>4 DEF MovedTo
    <2>7. PICK new \in Seq(Labels) : new = PathOf'[d]
        BY <2>6
    <2>8. Awaiting(new)' /\ First' = e /\ OldPath' = PathOf[d] /\ Pending' = {e}
        <3>1. pc' = "select" /\ UNCHANGED <<watch, cache>> /\ Pend' = <<e>>
            BY <1>1, <1>2, <1>8, <2>1 DEF Quiet
        <3>2. PathOf[d] = IF e.mask = "MOVED_FROM" THEN Append(CachedPath(e.wd), e.name) ELSE CachedPath(e.wd)
            BY <2>3, <2>5
        <3>. QED  BY <1>1, <1>3, <1>4, <2>2, <2>4, <2>7, <3>1, <3>2, MoveSeen
    <2>9. Arriving(new)'
        BY <2>3, <2>8 DEF Arriving
    <2>10. Underway(new)'
        <3>1. \A k \in Mover : moving'[k] = IF k = m THEN {r} ELSE {}
            BY <1>1, <1>2 DEF Quiet, IInv, State, Renames
        <3>2. ASSUME up \in All PROVE Append(PathOf'[up], n) = new
            <4>1. PathOf'[d] = Append(PathOf[up], n)
                BY <2>6, <3>2 DEF PathAt
            <4>2. ~IsPrefix(PathOf[d], PathOf[up])
                BY <1>1, <3>2, DtreeAssumption
            <4>3. PathOf'[up] = PathOf[up]
                BY <2>6, <3>2, <4>2 DEF Moved
            <4>. QED  BY <2>7, <4>1, <4>3
        <3>3. ASSUME NEW k \in Mover, NEW x \in moving'[k], x.to \in All PROVE Append(PathOf'[x.to], x.name) = new
            BY <1>7, <3>1, <3>2, <3>3
        <3>. QED  BY <3>3 DEF Underway
    <2>11. Renaming(new)'
        BY <2>3, <2>8, <2>9, <2>10 DEF Renaming
    <2>. QED  BY <1>2, <1>4, <2>1, <2>7, <2>8, <2>11 DEF RenameHeard
<1>. QED  BY <1>9, <1>10

\* So does a root's.
LEMMA MoveRootPhase ==
    ASSUME IInv, IInv', Struct, Followed, Clean', pc' # "exited", NEW d \in Root, MoveRoot(d)
    PROVE  /\ Clean /\ Quiet /\ MovedTo(d, <<Away, d>>)
           /\ (Settled' /\ Seen(d, <<>>)) \/ RootHeard(d)
<1>. DEFINE es == Event(d, "MOVE_SELF", Nowhere, 0)
<1>1. /\ queue' = Posts(queue, es) /\ shaken' = Shake(Quiet /\ Seen(d, es))
      /\ d \in Live /\ loc[d][1] = Top /\ d \in All
      /\ UNCHANGED <<watch, nextWd, pc, cache, roots, buf>>
    BY DEF MoveRoot, program, All
<1>2. Clean /\ Quiet /\ Seen(d, es)
    BY <1>1 DEF Clean, Shake
<1>3. Settled /\ Pend = <<>> /\ buf = <<>> /\ queue = <<>>
    BY <1>2, QuietSettled, QuietPend
<1>4. MovedTo(d, <<Away, d>>)
    BY MoveRootPaths DEF Struct, Files, IInv, State
<1>5. es \in Seq(Events)
    BY MoveRootEvents
<1>6. Len(es) <= 1
    BY DEF Event
<1>7. Pend' = es
    BY <1>1, <1>3, <1>5, <1>6, PostedAlone
<1>8. CASE es = <<>>
    <2>1. Settled'
        BY <1>1, <1>2, <1>3, <1>4, <1>7, <1>8, MoveUnseen
    <2>. QED  BY <1>2, <1>4, <1>8, <2>1
<1>9. CASE es # <<>>
    <2>. DEFINE e == [wd |-> watch[d], mask |-> "MOVE_SELF", name |-> Nowhere, cookie |-> 0]
    <2>1. watch[d] # 0 /\ es = <<e>>
        BY <1>9 DEF Event
    <2>2. e \in Events
        <3>1. es \in Seq(Events) /\ es # <<>>
            BY <1>5, <1>9
        <3>2. Head(es) \in Events
            BY <3>1, HeadTailProperties
        <3>. QED  BY <2>1, <3>2
    <2>3. e.wd = watch[d] /\ e.mask = "MOVE_SELF"
        OBVIOUS
    <2>. HIDE DEF es, e
    <2>4. findWatch(e.wd) # {} /\ CachedPath(e.wd) = PathOf[d]
        BY <1>1, <1>3, <2>1, <2>3, SettledPath
    <2>5. PathOf[d] = <<Top, d>> /\ <<Top, d>> \in roots
        <3>1. loc[d] = <<Top, d>>
            <4>1. loc[d] \in {<<Top, d>>, <<Away, d>>, Gone}
                BY DEF Struct, Files, Tree, IsTree
            <4>2. <<Away, d>>[1] # Top /\ Gone[1] # Top
                BY GoneIsNowhere, DtreeAssumption
            <4>. QED  BY <1>1, <4>1, <4>2
        <3>2. Top \notin All
            BY DtreeAssumption
        <3>3. PathOf[d] = loc[d]
            BY <1>1, <3>2, PathFacts DEF Struct, Files
        <3>. QED  BY <3>1, <3>3 DEF Struct, RootsOK
    <2>6. PathOf'[d] \in Seq(Labels)
        BY <1>4 DEF MovedTo
    <2>7. PICK new \in Seq(Labels) : new = PathOf'[d]
        BY <2>6
    <2>8. Awaiting(new)' /\ First' = e /\ OldPath' = PathOf[d]
        <3>1. pc' = "select" /\ UNCHANGED <<watch, cache>> /\ Pend' = <<e>>
            BY <1>1, <1>2, <1>7, <2>1 DEF Quiet
        <3>2. PathOf[d] = IF e.mask = "MOVED_FROM" THEN Append(CachedPath(e.wd), e.name) ELSE CachedPath(e.wd)
            BY <2>3, <2>4
        <3>. QED  BY <1>1, <1>3, <1>4, <2>2, <2>4, <2>7, <3>1, <3>2, MoveSeen
    <2>9. RootMoving(new)'
        BY <1>1, <2>3, <2>5, <2>8 DEF RootMoving
    <2>. QED  BY <1>2, <1>4, <2>7, <2>8, <2>9 DEF RootHeard
<1>. QED  BY <1>8, <1>9

\* A step that neither reads an event nor changes the cache.
LEMMA SamePhase ==
    ASSUME IInv, IInv', UNCHANGED <<loc, moving, watch, cache, roots>>, Pend' = Pend, pc' = "walk" => pc = "walk"
    PROVE  PhaseKept
<1>1. Pending' = Pending
    BY PendFacts, PendNext
<1>2. First' = First /\ Later' = Later
    BY DEF First, Later
<1>3. \A wd : CachedPath(wd)' = CachedPath(wd) /\ findWatch(wd)' = findWatch(wd)
    BY SameCache
<1>4. PathOf' = PathOf
    BY PathOfIsPaths
<1>5. OldPath' = OldPath
    BY <1>2, <1>3 DEF OldPath
<1>6. Settled => Settled'
    BY <1>1, <1>4 DEF Settled, Agree
<1>7. ASSUME NEW new \in Seq(Labels), Awaiting(new) PROVE Awaiting(new)'
    <2>1. findWatch(First.wd)' # {} /\ pc' # "walk" /\ Pend' # <<>> /\ \A e \in Later' : e.mask \notin Moves
        BY <1>2, <1>7 DEF Awaiting, findWatch
    <2>2. \A e \in cache', d \in All : watch'[d] = e[1] => PathOf'[d] = Moved(e[2], OldPath', new)
        BY <1>4, <1>5, <1>7 DEF Awaiting
    <2>. QED  BY <2>1, <2>2, Zenon DEF Awaiting
<1>8. ASSUME NEW new \in Seq(Labels), Renaming(new) PROVE Renaming(new)'
    <2>1. Arriving(new)'
        BY <1>1, <1>2, <1>3, <1>8 DEF Renaming, Arriving
    <2>2. Underway(new)'
        BY <1>2, <1>4, <1>8 DEF Renaming, Underway
    <2>. QED  BY <1>2, <1>7, <1>8, <2>1, <2>2 DEF Renaming
<1>9. ASSUME NEW new \in Seq(Labels), RootMoving(new) PROVE RootMoving(new)'
    BY <1>2, <1>5, <1>7, <1>9 DEF RootMoving
<1>. QED  BY <1>6, <1>8, <1>9 DEF PhaseKept

\* An empty cache has no wrong entry.
LEMMA ReinitSettled ==
    ASSUME NEW rp, reinitialize(rp)
    PROVE  Settled'
<1>1. cache' = {} /\ buf' = <<>> /\ queue' = <<>>
    BY DEF reinitialize
<1>2. Pending' = {}
    BY <1>1 DEF Pending, ToSet
<1>. QED  BY <1>1, <1>2 DEF Settled, Agree

\* At rest entries and watches only go.
LEMMA SettledKept ==
    ASSUME Settled, Entries, UNCHANGED loc, cache' \subseteq cache,
           \A d \in All : watch'[d] # 0 => watch'[d] = watch[d],
           \A e \in Pending' : e \in Pending \/ e.mask \notin Moves
    PROVE  Settled'
<1>1. PathOf' = PathOf
    BY PathOfIsPaths
<1>2. \A e \in cache : e[1] # 0
    BY DEF Entries
<1>. QED  BY <1>1, <1>2 DEF Settled, Agree

\* What is to move is no longer in the cache.
LEMMA MovedZapped ==
    ASSUME Entries, NEW new, Awaiting(new), UNCHANGED loc, Zap(Subtree(OldPath)),
           \A e \in Pending' : e \in Later \/ e.mask \notin Moves
    PROVE  Settled'
<1>1. PathOf' = PathOf
    BY PathOfIsPaths
<1>2. /\ cache' = cache \ Subtree(OldPath)
      /\ watch' = [d \in All |-> IF watch[d] \in {e[1] : e \in Subtree(OldPath)} THEN 0 ELSE watch[d]]
    BY DEF Zap
<1>3. \A d \in All : watch'[d] # 0 => watch'[d] = watch[d]
    BY <1>2
<1>4. \A e \in cache' : e \in cache /\ ~IsPrefix(OldPath, e[2]) /\ e[1] # 0
    BY <1>2 DEF Subtree, Entries
<1>5. ASSUME NEW e \in cache', NEW d \in All, watch'[d] = e[1] PROVE PathOf'[d] = e[2]
    <2>1. PathOf[d] = Moved(e[2], OldPath, new)
        BY <1>3, <1>4, <1>5 DEF Awaiting
    <2>. QED  BY <1>1, <1>4, <2>1 DEF Moved
<1>6. \A e \in Pending' : e.mask \notin Moves
    BY DEF Awaiting
<1>. QED  BY <1>5, <1>6 DEF Settled, Agree

\* What the first event says of the cache.
LEMMA FirstSays ==
    ASSUME IInv, Followed, Clean, Processing
    PROVE  /\ ev = First /\ ev \in Pending
           /\ ev.mask \notin Moves => Settled
           /\ ev.mask \in Moves => \E new \in Seq(Labels) : Renaming(new) \/ RootMoving(new)
           /\ ev.mask = "MOVED_FROM" => \E new \in Seq(Labels) : Renaming(new)
           /\ ev.mask = "MOVE_SELF" => \E new \in Seq(Labels) : RootMoving(new)
<1>1. Pend # <<>> /\ ev = First /\ Pend \in Seq(Events)
    BY PendConsumed, PendFacts
<1>2. ev \in Pending
    BY <1>1, FirstAndRest, PendFacts DEF First
<1>3. pc # "exited"
    BY DEF Processing
<1>4. Settled \/ \E new \in Seq(Labels) : Renaming(new) \/ RootMoving(new)
    BY <1>3 DEF Followed
<1>5. Settled => ev.mask \notin Moves
    BY <1>2 DEF Settled
<1>. QED  BY <1>1, <1>2, <1>4, <1>5 DEF Renaming, RootMoving, Moves

\* One event less, and perhaps IN_IGNORED more.
LEMMA ConsumedPending ==
    ASSUME IInv, Processing, Consume(1), NEW t \in Seq(Events), queue' = queue \o t
    PROVE  \A e \in Pending' : e \in Later \/ e \in ToSet(t)
<1>1. buf' \in Seq(Events) /\ buf' \o queue = Tail(Pend) /\ queue \in Seq(Events)
    BY PendConsumed, PendFacts
<1>2. ToSet(buf' \o queue) = ToSet(buf') \cup ToSet(queue)
    BY ZenonT(60), <1>1, ConcatElements
<1>3. ToSet(queue \o t) = ToSet(queue) \cup ToSet(t)
    BY <1>1, ConcatElements
<1>4. Later = ToSet(buf') \cup ToSet(queue)
    BY <1>1, <1>2 DEF Later
<1>. QED  BY <1>3, <1>4 DEF Pending

\* What is pending after the first is pending.
LEMMA LaterPending ==
    ASSUME IInv, Pend # <<>>
    PROVE  Later \subseteq Pending
BY PendFacts, FirstAndRest DEF Later

\* Events that tell of no rename.
LEMMA PlainSettling ==
    ASSUME IInv, Struct, Followed, EvIgnored \/ EvAppeared \/ EvDeleteSelf
    PROVE  Settling
<1>1. /\ Processing /\ ev.mask \notin Moves /\ cache' \subseteq cache
      /\ Consume(1) \/ pc' = "exited"
      /\ UNCHANGED <<loc, watch, queue, shaken>>
    BY DEF EvIgnored, EvAppeared, EvDeleteSelf, Done, fs, kernel, Moves
<1>. SUFFICES ASSUME Clean', pc' # "exited" PROVE Settled'
    BY DEF Settling
<1>2. Clean
    BY <1>1 DEF Clean
<1>3. Settled
    BY <1>1, <1>2, FirstSays
<1>4. \A e \in Pending' : e \in Pending
    <2>1. ToSet(buf') \subseteq ToSet(buf)
        BY <1>1, HasEvent, ConsumedFacts DEF IInv, State
    <2>. QED  BY <1>1, <2>1 DEF Pending
<1>. QED  BY <1>1, <1>3, <1>4, SettledKept DEF Struct

\* A rebuild leaves no entry.
LEMMA RebuildSettling ==
    ASSUME EvRebuild
    PROVE  Settling
BY ReinitSettled DEF EvRebuild, Settling

\* Waiting for the second event changes nothing.
LEMMA HangingPhase ==
    ASSUME IInv, IInv', EvHanging
    PROVE  PhaseKept
<1>1. /\ UNCHANGED <<loc, moving, watch, cache, roots, buf, queue>> /\ pc' # "walk"
    BY DEF EvHanging, fs, kernel, Processing
<1>2. Pend' = Pend
    BY <1>1 DEF Pend
<1>. QED  BY <1>1, <1>2, SamePhase

\* The pair's second event tells the path to which the entries are rewritten.
LEMMA RenamedSettling ==
    ASSUME IInv, IInv', Struct, Followed, EvRenamed
    PROVE  Settling
<1>1. Processing /\ Known /\ ev.mask = "MOVED_FROM" /\ Paired /\ UNCHANGED loc
    BY DEF EvRenamed, fs
<1>2. CASE findWatch(buf[2].wd) = {}
    BY <1>2, ReinitSettled DEF EvRenamed, Settling
<1>3. CASE findWatch(buf[2].wd) # {}
    <2>. DEFINE to == Append(CachedPath(buf[2].wd), buf[2].name)
    <2>1. /\ cache' = rewriteCachedPaths(Full, to) /\ Done(2)
          /\ UNCHANGED <<watch, nextWd, queue, rset, shaken>>
        BY <1>3 DEF EvRenamed, kernel
    <2>. SUFFICES ASSUME Clean' PROVE Settled'
        BY DEF Settling
    <2>2. Clean
        BY <2>1 DEF Clean
    <2>3. PICK new \in Seq(Labels) : Renaming(new)
        BY <1>1, <2>2, FirstSays
    <2>4. ev = First /\ buf[2] \in Later /\ Pending' \subseteq Later /\ Pend # <<>>
        BY <1>1, <2>1, PendConsumed DEF Done
    <2>5. to = new
        <3>1. buf[2] \in Pending
            BY <2>4, LaterPending
        <3>. QED  BY <1>1, <1>3, <2>3, <2>4, <3>1 DEF Renaming, Arriving, Paired
    <2>6. Full = OldPath
        BY <1>1, <2>4 DEF Full, OldPath
    <2>. HIDE DEF to
    <2>7. ASSUME NEW f \in cache', NEW d \in All, watch'[d] = f[1] PROVE PathOf'[d] = f[2]
        <3>1. PICK e \in cache : f[1] = e[1] /\ f[2] = Moved(e[2], OldPath, new)
            BY <2>1, <2>5, <2>6, Rewritten
        <3>2. PathOf[d] = Moved(e[2], OldPath, new)
            BY <2>1, <2>3, <2>7, <3>1 DEF Renaming, Awaiting
        <3>3. PathOf' = PathOf
            BY <1>1, PathOfIsPaths
        <3>. QED  BY <3>1, <3>2, <3>3
    <2>8. \A e \in Pending' : e.mask \notin Moves
        BY <2>3, <2>4 DEF Renaming, Awaiting
    <2>. QED  BY <2>7, <2>8 DEF Settled, Agree
<1>. QED  BY <1>2, <1>3

\* The subtree of the rename is zapped.
LEMMA ZapSettled ==
    ASSUME IInv, Struct, Processing, NEW new, Awaiting(new), UNCHANGED loc, Zap(Subtree(OldPath)), Done(1)
    PROVE  Settled'
<1>1. Subtree(OldPath) \in SUBSET cache
    BY DEF Subtree
<1>2. PICK t \in Seq(Events) : /\ queue' = queue \o t
                               /\ \A e \in ToSet(t) : e.mask \in {"IGNORED", "Q_OVERFLOW"}
    BY <1>1, ZapQueues
<1>3. \A e \in Pending' : e \in Later \/ e \in ToSet(t)
    BY <1>2, ConsumedPending DEF Done
<1>4. \A e \in Pending' : e \in Later \/ e.mask \notin Moves
    BY <1>2, <1>3 DEF Moves
<1>. QED  BY <1>4, MovedZapped DEF Struct

\* With no second event what had the old path is zapped.
LEMMA MovedOutSettling ==
    ASSUME IInv, Struct, Followed, EvMovedOut
    PROVE  Settling
<1>1. Processing /\ ev.mask = "MOVED_FROM" /\ UNCHANGED loc
    BY DEF EvMovedOut, fs
<1>2. CASE ~CanZap(Subtree(Full))
    BY <1>2, ReinitSettled DEF EvMovedOut, Settling
<1>3. CASE CanZap(Subtree(Full))
    <2>1. Zap(Subtree(Full)) /\ Done(1) /\ UNCHANGED shaken
        BY <1>3 DEF EvMovedOut
    <2>. SUFFICES ASSUME Clean' PROVE Settled'
        BY DEF Settling
    <2>2. Clean
        BY <2>1 DEF Clean
    <2>3. PICK new \in Seq(Labels) : Renaming(new)
        BY <1>1, <2>2, FirstSays
    <2>4. Full = OldPath
        BY <1>1, <2>2, FirstSays DEF Full, OldPath
    <2>. QED  BY <1>1, <2>1, <2>3, <2>4, ZapSettled DEF Renaming
<1>. QED  BY <1>2, <1>3

\* A root's rename takes its subtree out of the cache.
LEMMA MoveSelfSettling ==
    ASSUME IInv, Struct, Followed, EvMoveSelf
    PROVE  Settling
<1>. DEFINE p == CachedPath(ev.wd)
<1>1. Processing /\ ev.mask = "MOVE_SELF" /\ UNCHANGED loc
    BY DEF EvMoveSelf, fs
<1>2. \/ p \notin roots /\ UNCHANGED shaken
      \/ pc' = "exited"
      \/ Zap(Subtree(p)) /\ Done(1) /\ UNCHANGED shaken
      \/ reinitialize(roots')
    BY DEF EvMoveSelf
<1>3. CASE pc' = "exited"
    BY <1>3 DEF Settling
<1>4. CASE reinitialize(roots')
    <2>1. \A rp : reinitialize(rp) => Settled'
        BY ReinitSettled
    <2>. QED  BY <1>4, <2>1 DEF Settling
<1>5. ASSUME UNCHANGED shaken, Clean'
      PROVE  p = OldPath /\ p \in roots /\ \E new \in Seq(Labels) : Awaiting(new)
    <2>1. Clean
        BY <1>5 DEF Clean
    <2>2. PICK new \in Seq(Labels) : RootMoving(new)
        BY <1>1, <2>1, FirstSays
    <2>3. p = OldPath
        BY <1>1, <2>1, FirstSays DEF OldPath
    <2>. QED  BY <2>2, <2>3 DEF RootMoving
<1>6. CASE p \notin roots /\ UNCHANGED shaken
    BY <1>5, <1>6 DEF Settling
<1>7. CASE Zap(Subtree(p)) /\ Done(1) /\ UNCHANGED shaken
    BY <1>1, <1>5, <1>7, ZapSettled DEF Settling
<1>. QED  BY <1>2, <1>3, <1>4, <1>6, <1>7

\* select() and the reads.
LEMMA SelectReadPhase ==
    ASSUME IInv, IInv', Select \/ Read \/ ReadAgain
    PROVE  PhaseKept
<1>1. /\ pc' # "walk" /\ UNCHANGED <<loc, moving, watch, cache, roots>>
    BY DEF Select, Read, ReadAgain, fs, kernel
<1>2. CASE Select
    <2>1. UNCHANGED <<buf, queue>>
        BY <1>2 DEF Select, kernel
    <2>2. Pend' = Pend
        BY <2>1 DEF Pend
    <2>. QED  BY <1>1, <2>2, SamePhase
<1>3. CASE Read \/ ReadAgain
    <2>1. Pend' = Pend
        BY <1>3, PendRead
    <2>. QED  BY <1>1, <2>1, SamePhase
<1>. QED  BY <1>2, <1>3

\* A walk goes on with a cache at rest, and adds what it finds.
LEMMA WalkSettled ==
    ASSUME Followed, Clean, pc = "walk"
    PROVE  Settled
BY DEF Followed, Renaming, RootMoving, Awaiting

\* Listing a directory.
LEMMA WalkListSettling ==
    ASSUME IInv, Struct, Followed, WalkList
    PROVE  Settling
<1>1. pc = "walk" /\ UNCHANGED <<loc, watch, cache, buf, queue, shaken>>
    BY DEF WalkList, fs, kernel
<1>. SUFFICES ASSUME Clean' PROVE Settled'
    BY DEF Settling
<1>2. Settled
    BY <1>1, WalkSettled DEF Clean
<1>3. Pending' = Pending
    BY <1>1 DEF Pending
<1>. QED  BY <1>1, <1>2, <1>3, SettledKept DEF Struct

\* A directory visited is cached with the path it has.
LEMMA WalkVisitSettling ==
    ASSUME IInv, IInv', Struct, Followed, WalkVisit
    PROVE  Settling
<1>1. pc = "walk" /\ UNCHANGED <<loc, buf, queue, shaken>>
    BY DEF WalkVisit, fs
<1>. SUFFICES ASSUME Clean' PROVE Settled'
    BY DEF Settling
<1>2. Settled
    BY <1>1, WalkSettled DEF Clean
<1>3. Pending' = Pending
    BY <1>1 DEF Pending
<1>4. CASE At(top.path) = {}
    <2>1. UNCHANGED <<watch, cache>>
        BY <1>4 DEF WalkVisit
    <2>. QED  BY <1>1, <1>2, <1>3, <2>1, SettledKept DEF Struct
<1>5. CASE At(top.path) # {}
    <2>. DEFINE d == CHOOSE x \in At(top.path) : TRUE
                wd == IF watch[d] # 0 THEN watch[d] ELSE nextWd
                path == top.path
    <2>1. /\ watch' = [watch EXCEPT ![d] = wd]
          /\ cache' = IF findWatch(wd) # {} THEN cache ELSE cache \cup {<<wd, path>>}
        BY <1>5 DEF WalkVisit
    <2>2. d \in At(path)
        BY <1>5
    <2>3. wd = IF watch[d] # 0 THEN watch[d] ELSE nextWd
        OBVIOUS
    <2>. HIDE DEF d, wd, path
    <2>4. d \in Live /\ d \in All /\ PathOf[d] = path
        BY <2>2, AtFacts, LiveIs DEF Struct, Files
    <2>5. /\ watch'[d] = wd /\ \A c \in All : c # d => watch'[c] = watch[c]
          /\ wd # 0
        BY <2>1, <2>3, <2>4 DEF IInv, Books, Descriptors
    <2>6. \A c \in All : watch'[c] = wd => c = d
        BY <2>4, <2>5 DEF IInv, Books, Descriptors
    <2>7. ASSUME NEW e \in cache', NEW c \in All, watch'[c] = e[1] PROVE PathOf[c] = e[2]
        <3>1. CASE e \in cache
            <4>1. e[1] \in Nat /\ e[1] < nextWd /\ e[1] # nextWd
                BY <3>1 DEF Struct, Entries, IInv, Books, Descriptors
            <4>2. watch[c] = e[1]
                BY <2>3, <2>5, <2>7, <4>1
            <4>. QED  BY <1>2, <3>1, <4>2 DEF Settled, Agree
        <3>2. CASE e = <<wd, path>>
            <4>1. e[1] = wd /\ e[2] = path
                BY <3>2
            <4>. QED  BY <2>4, <2>6, <2>7, <4>1
        <3>. QED  BY <2>1, <3>1, <3>2
    <2>8. PathOf' = PathOf
        BY <1>1, PathOfIsPaths
    <2>9. Agree'
        BY <2>7, <2>8 DEF Agree
    <2>. QED  BY <1>2, <1>3, <2>9 DEF Settled
<1>. QED  BY <1>4, <1>5

\* A command that zaps is remembered in the history, unless nothing was to be read and a walk follows.
LEMMA CommandSettling ==
    ASSUME IInv, Struct, Followed, Command
    PROVE  Settling
<1>1. pc = "command" /\ buf = <<>> /\ UNCHANGED loc
    BY DEF Command, Struct, CommandReads
<1>2. CASE CmdRebuild
    BY <1>2, ReinitSettled DEF CmdRebuild, Settling
<1>3. CASE CmdQuit
    BY <1>3 DEF CmdQuit, Settling
<1>4. ASSUME NEW p, CmdCut(p) PROVE Settling
    BY <1>4 DEF CmdCut, Settling, Clean
<1>5. ASSUME NEW p, CmdAdd(p) PROVE Settling
    <2>. SUFFICES ASSUME Clean' PROVE Settled'
        BY DEF Settling
    <2>1. /\ shaken' = shaken \cup {x \in {"command"} : queue # <<>>} /\ UNCHANGED buf
        BY <1>5 DEF CmdAdd
    <2>2. Clean /\ queue = <<>>
        BY <2>1 DEF Clean
    <2>3. Settled
        <3>1. Pend = <<>>
            BY <1>1, <2>2 DEF Pend
        <3>. QED  BY <1>1, <2>2, <3>1 DEF Followed, Renaming, RootMoving, Awaiting
    <2>4. PICK part \in SUBSET cache : Zap(part)
        BY <1>5 DEF CmdAdd, CmdZap, Subtree
    <2>5. cache' \subseteq cache /\ \A d \in All : watch'[d] # 0 => watch'[d] = watch[d]
        BY <2>4 DEF Zap
    <2>6. PICK t \in Seq(Events) : /\ queue' = queue \o t
                                   /\ \A e \in ToSet(t) : e.mask \in {"IGNORED", "Q_OVERFLOW"}
        BY <2>4, ZapQueues
    <2>7. ToSet(queue \o t) = ToSet(queue) \cup ToSet(t)
        BY <2>6, PendFacts, ConcatElements
    <2>8. \A e \in Pending' : e \in Pending \/ e.mask \notin Moves
        BY <2>1, <2>6, <2>7 DEF Pending, Moves
    <2>. QED  BY <1>1, <2>3, <2>5, <2>8, SettledKept DEF Struct
<1>. QED  BY <1>2, <1>3, <1>4, <1>5 DEF Command

\* A step that changes nothing.
LEMMA StutteringPhase ==
    ASSUME IInv, IInv', UNCHANGED vars
    PROVE  PhaseKept
<1>1. UNCHANGED <<loc, moving, watch, cache, roots, buf, queue, pc>>
    BY DEF vars, fs, kernel, program
<1>2. Pend' = Pend
    BY <1>1 DEF Pend
<1>. QED  BY <1>1, <1>2, SamePhase

\* What keeps the phase shakes nothing off the history.
LEMMA KeepingFollowed ==
    ASSUME IInv, IInv', Struct, Followed,
           \/ \E d \in Dir, up \in All, n \in Name : Mkdir(d, up, n)
           \/ \E d \in All : Rmdir(d)
           \/ \E m \in Mover : RenameTo(m)
           \/ Select \/ Read \/ ReadAgain \/ EvHanging \/ UNCHANGED vars
    PROVE  PhaseKept /\ Followed'
<1>1. PhaseKept
    BY MkdirPhase, RmdirPhase, RenameToPhase, SelectReadPhase, HangingPhase, StutteringPhase
<1>2. (Clean' => Clean) /\ (pc' # "exited" => pc # "exited")
    BY DEF Mkdir, Rmdir, RenameTo, Select, Read, ReadAgain, EvHanging, Processing, vars, Clean, Shake, program
<1>. QED  BY <1>1, <1>2, PhaseFollowed

\* A rename's first half.
LEMMA RenamingFollowed ==
    ASSUME IInv, IInv', Struct, Followed,
           \/ \E m \in Mover, d \in Dir, up \in All \cup {Away}, n \in Name : RenameFrom(m, d, up, n)
           \/ \E d \in Root : MoveRoot(d)
    PROVE  Followed'
<1>. SUFFICES ASSUME Clean', pc' # "exited"
              PROVE  Settled' \/ \E new \in Seq(Labels) : Renaming(new)' \/ RootMoving(new)'
    BY DEF Followed
<1>1. CASE \E m \in Mover, d \in Dir, up \in All \cup {Away}, n \in Name : RenameFrom(m, d, up, n)
    BY <1>1, RenameFromPhase DEF RenameHeard
<1>2. CASE \E d \in Root : MoveRoot(d)
    BY <1>2, MoveRootPhase DEF RootHeard
<1>. QED  BY <1>1, <1>2

\* The steps after which the cache is at rest.
LEMMA SettlingSteps ==
    ASSUME IInv, IInv', Struct, Followed,
           \/ EvRebuild \/ EvIgnored \/ EvAppeared \/ EvDeleteSelf \/ EvRenamed \/ EvMovedOut \/ EvMoveSelf
           \/ WalkVisit \/ WalkList \/ Command
    PROVE  Settling /\ Followed'
BY RebuildSettling, PlainSettling, RenamedSettling, MovedOutSettling, MoveSelfSettling,
   WalkVisitSettling, WalkListSettling, CommandSettling, SettlingFollowed

\* Every step keeps Followed.
LEMMA FollowedInductive ==
    ASSUME IInv, IInv', Struct, Followed, [Next]_vars
    PROVE  Followed'
BY KeepingFollowed, RenamingFollowed, SettlingSteps DEF Next, Environment, Program, ProcessEvent, Walk

\* The cache is empty at the start.
LEMMA InitFollowed ==
    ASSUME Init
    PROVE  Followed
<1>1. cache = {} /\ buf = <<>> /\ queue = <<>>
    BY DEF Init
<1>2. Pending = {}
    BY <1>1 DEF Pending, ToSet
<1>. QED  BY <1>1, <1>2 DEF Followed, Settled, Agree

\* Quiet and clean, the cache is right.
LEMMA NothingStale ==
    ASSUME IInv, Struct, Followed
    PROVE  NoStaleEntry
<1>. SUFFICES ASSUME Quiet, Clean, NEW e \in cache
              PROVE  \E d \in Live : watch[d] = e[1] /\ PathOf[d] = e[2]
    BY DEF NoStaleEntry, Clean
<1>1. Settled /\ Pending = {}
    BY QuietSettled, QuietPend
<1>2. Dying = {} /\ ~OverflowAhead
    BY <1>1 DEF Dying, OverflowAhead, Pending
<1>3. e[1] \in KernelWds
    BY <1>2 DEF IInv, Books, WatchesAreCached
<1>4. PICK d \in All : watch[d] = e[1] /\ watch[d] # 0
    BY <1>3 DEF KernelWds
<1>. QED  BY <1>1, <1>4 DEF Settled, Agree, Struct, WatchedLive

\* With everything read and no rename made while the program was behind, each
\* entry is the path of the directory its watch is on: the cache "remains
\* consistent with the filesystem" (inotify_dtree.c:23-25), however the rewriting,
\* zapping and rebuilding of lines 542, 768 and 845 were interleaved with the tree's changes.
THEOREM NeverStale == Spec => []NoStaleEntry
<1>1. Init => IInv /\ Struct /\ Followed
    BY InitInv, InitStruct, InitFollowed
<1>2. IInv /\ Struct /\ Followed /\ [Next]_vars => (IInv /\ Struct /\ Followed)'
    BY Inductive, StructInductive, FollowedInductive
<1>3. IInv /\ Struct /\ Followed => NoStaleEntry
    BY NothingStale
<1>. QED  BY <1>1, <1>2, <1>3, PTL DEF Spec

-----------------------------------------------------------------------------
(* No directory is forgotten.                                              *)

\* What the walks have still to do.
ToDo == UNION {ToSet(s) : s \in ToSet(walks)}
Visit(p) == [stage |-> "visit", path |-> p]
List(p) == [stage |-> "list", path |-> p]

\* The directories to be found: without a watch, in a directory with one.
Frontier == {d \in All : watch[d] = 0 /\ loc[d][1] \in All /\ watch[loc[d][1]] # 0}

\* An event of s tells of n in the directory of wd, after the removals of all of ws.
Told(s, masks, wd, n, ws) ==
    \E k \in 1..Len(s) :
        /\ s[k].mask \in masks /\ s[k].wd = wd /\ s[k].name = n
        /\ \A w \in ws : \E j \in 1..(k - 1) : s[j].mask = "DELETE_SELF" /\ s[j].wd = w

\* An event to be read tells of the directory d; a rename under way will.
Tells(d, masks, ws) == Told(Pend, masks, watch[loc[d][1]], loc[d][2], ws)
MovingTo(d) == \E m \in Mover : \E r \in moving[m] : r.to = loc[d][1] /\ r.name = loc[d][2]

\* The descriptors whose entries have the path p, or will have it after the rename.
Holders(c, p) == {e[1] : e \in {f \in c : f[2] = p}}
HoldersAfter(c, p, old, new) == {e[1] : e \in {f \in c : Moved(f[2], old, new) = p}}

\* A directory to be found is going to be, from the cache as it is.
Covered(d) ==
    \/ OverflowAhead
    \/ Visit(PathOf[d]) \in ToDo \/ List(PathOf[loc[d][1]]) \in ToDo
    \/ MovingTo(d)
    \/ Tells(d, {"CREATE", "MOVED_TO"}, Holders(cache, PathOf[d]))

\* And after the rename that is the next event.
CoveredAfter(d, new) ==
    \/ OverflowAhead
    \/ Tells(d, {"CREATE"}, HoldersAfter(cache, PathOf[d], OldPath, new))

\* What is at the new path has no entry but those to move; and if it is to lose
\* its watch, being taken for a directory that left, it is to be found again.
Found(d) == OverflowAhead \/ MovingTo(d) \/ Tells(d, {"MOVED_TO"}, {})
Arrives(new) ==
    /\ \A e \in cache : IsPrefix(new, e[2]) => IsPrefix(OldPath, e[2])
    /\ Len(new) >= 2 /\ (new[1] = Away \/ Len(new) > 2)
    /\ \A d \in Live : PathOf[d] = new /\ watch[d] # 0 /\ loc[d][1] \in All /\ watch[loc[d][1]] # 0 => Found(d)

\* A rename is the next event, to a path that is free for it.
Ahead(new) == (Renaming(new) \/ RootMoving(new)) /\ Arrives(new)

\* The roots in place are watched or to be visited; a walk lists what is there.
RootsCovered == \A r \in Root : loc[r] = <<Top, r>> /\ watch[r] = 0 => Visit(<<Top, r>>) \in ToDo
ListLive == \A p \in Below : List(p) \in ToDo => At(p) # {}

\* The cache is at rest, or a rename is coming, and what is to be found will be.
Calm == Settled /\ \A d \in Frontier : Covered(d)
Coming(new) == Ahead(new) /\ \A d \in Frontier : CoveredAfter(d, new)

\* With nothing shaken no directory of the trees is forgotten.
Complete == shaken = {} /\ pc # "exited" =>
    RootsCovered /\ ListLive /\ (Calm \/ \E new \in Seq(Labels) : Coming(new))

\* What is told is still told when events are added, and fewer removals are asked for.
LEMMA ToldLonger ==
    ASSUME NEW S, NEW s \in Seq(S), NEW t \in Seq(S), NEW masks, NEW wd, NEW n, NEW ws, NEW vs \in SUBSET ws,
           Told(s, masks, wd, n, ws)
    PROVE  Told(s \o t, masks, wd, n, vs)
<1>. DEFINE c == s \o t
<1>1. /\ c \in Seq(S) /\ Len(c) = Len(s) + Len(t)
      /\ \A i \in 1..(Len(s) + Len(t)) : c[i] = IF i <= Len(s) THEN s[i] ELSE t[i - Len(s)]
    BY ConcatProperties
<1>2. Len(s) \in Nat /\ Len(t) \in Nat
    BY LenProperties
<1>. HIDE DEF c
<1>3. \A i \in 1..Len(s) : i \in 1..Len(c) /\ c[i] = s[i]
    BY <1>1, <1>2
<1>4. PICK k \in 1..Len(s) :
          /\ s[k].mask \in masks /\ s[k].wd = wd /\ s[k].name = n
          /\ \A w \in ws : \E j \in 1..(k - 1) : s[j].mask = "DELETE_SELF" /\ s[j].wd = w
    BY DEF Told
<1>5. \A j \in 1..(k - 1) : j \in 1..Len(s)
    BY <1>2
<1>6. \A w \in vs : \E j \in 1..(k - 1) : c[j].mask = "DELETE_SELF" /\ c[j].wd = w
    BY <1>3, <1>4, <1>5
<1>7. Told(c, masks, wd, n, vs)
    BY <1>3, <1>4, <1>6 DEF Told
<1>. QED  BY <1>7 DEF c

\* The first event is the one that tells, or it can go.
LEMMA ToldFirst ==
    ASSUME NEW S, NEW s \in Seq(S), s # <<>>, NEW masks, NEW wd, NEW n, NEW ws,
           NEW vs \in SUBSET ws, \A w \in vs : ~(Head(s).mask = "DELETE_SELF" /\ Head(s).wd = w),
           Told(s, masks, wd, n, ws)
    PROVE  \/ Head(s).mask \in masks /\ Head(s).wd = wd /\ Head(s).name = n /\ ws = {}
           \/ Told(Tail(s), masks, wd, n, vs)
<1>. DEFINE t == Tail(s)
<1>1. /\ t \in Seq(S) /\ Len(s) \in Nat \ {0} /\ Len(t) = Len(s) - 1 /\ Head(s) = s[1]
      /\ \A i \in 1..(Len(s) - 1) : t[i] = s[i + 1]
    BY FirstAndRest
<1>. HIDE DEF t
<1>2. PICK k \in 1..Len(s) :
          /\ s[k].mask \in masks /\ s[k].wd = wd /\ s[k].name = n
          /\ \A w \in ws : \E j \in 1..(k - 1) : s[j].mask = "DELETE_SELF" /\ s[j].wd = w
    BY DEF Told
<1>3. CASE k = 1
    <2>1. 1..(1 - 1) = {}
        OBVIOUS
    <2>. QED  BY <1>1, <1>2, <1>3, <2>1
<1>4. CASE k # 1
    <2>. DEFINE i == k - 1
    <2>1. i \in 1..Len(t) /\ i \in 1..(Len(s) - 1) /\ i + 1 = k
        BY <1>1, <1>4
    <2>. HIDE DEF i
    <2>2. t[i] = s[k]
        BY <1>1, <2>1
    <2>3. ASSUME NEW w \in vs PROVE \E j \in 1..(i - 1) : t[j].mask = "DELETE_SELF" /\ t[j].wd = w
        <3>1. PICK j \in 1..(k - 1) : s[j].mask = "DELETE_SELF" /\ s[j].wd = w
            BY <1>2, <2>3
        <3>2. j # 1
            BY <1>1, <2>3, <3>1
        <3>3. j - 1 \in 1..(i - 1) /\ j - 1 \in 1..(Len(s) - 1) /\ (j - 1) + 1 = j
            BY <1>1, <2>1, <3>2
        <3>4. t[j - 1] = s[j]
            BY <1>1, <3>3
        <3>. QED  BY <3>1, <3>3, <3>4
    <2>4. Told(t, masks, wd, n, vs)
        BY <1>2, <2>1, <2>2, <2>3 DEF Told
    <2>. QED  BY <2>4 DEF t
<1>. QED  BY <1>3, <1>4

\* An event added last comes after everything.
LEMMA ToldLast ==
    ASSUME NEW S, NEW s \in Seq(S), NEW e \in S, e.mask # "DELETE_SELF", NEW ws,
           \A w \in ws : \E x \in ToSet(s) \cup {e} : x.mask = "DELETE_SELF" /\ x.wd = w
    PROVE  /\ Told(Append(s, e), {e.mask}, e.wd, e.name, ws)
           /\ s # <<>> /\ Last(s) = e => Told(s, {e.mask}, e.wd, e.name, ws)
<1>1. DOMAIN s = 1..Len(s) /\ Len(s) \in Nat
    BY LenProperties
<1>2. ToSet(s) = {s[i] : i \in 1..Len(s)}
    BY <1>1 DEF ToSet
<1>3. \A w \in ws : \E j \in 1..Len(s) : s[j].mask = "DELETE_SELF" /\ s[j].wd = w
    BY <1>2
<1>4. Told(Append(s, e), {e.mask}, e.wd, e.name, ws)
    <2>. DEFINE c == Append(s, e)
    <2>1. /\ Len(c) = Len(s) + 1 /\ \A i \in 1..Len(s) : c[i] = s[i]
          /\ c[Len(s) + 1] = e
        BY AppendProperties
    <2>. HIDE DEF c
    <2>2. Len(s) + 1 \in 1..Len(c) /\ (Len(s) + 1) - 1 = Len(s)
        BY <1>1, <2>1
    <2>3. \A w \in ws : \E j \in 1..Len(s) : c[j].mask = "DELETE_SELF" /\ c[j].wd = w
        BY <1>3, <2>1
    <2>4. Told(c, {e.mask}, e.wd, e.name, ws)
        BY <2>1, <2>2, <2>3 DEF Told
    <2>. QED  BY <2>4 DEF c
<1>5. ASSUME s # <<>>, Last(s) = e PROVE Told(s, {e.mask}, e.wd, e.name, ws)
    <2>1. Len(s) # 0 /\ s[Len(s)] = e
        BY <1>5, EmptySeq DEF Last
    <2>2. Len(s) \in 1..Len(s)
        BY <1>1, <2>1
    <2>3. ASSUME NEW w \in ws PROVE \E j \in 1..(Len(s) - 1) : s[j].mask = "DELETE_SELF" /\ s[j].wd = w
        <3>1. PICK j \in 1..Len(s) : s[j].mask = "DELETE_SELF" /\ s[j].wd = w
            BY <1>3, <2>3
        <3>2. j # Len(s)
            BY <2>1, <3>1
        <3>3. j \in 1..(Len(s) - 1)
            <4>1. \A k, n \in Nat : k \in 1..n /\ k # n => k \in 1..(n - 1)
                OBVIOUS
            <4>2. j \in Nat /\ Len(s) \in Nat
                BY <1>1, <3>1
            <4>. QED  BY <3>1, <3>2, <4>1, <4>2
        <3>. QED  BY <3>1, <3>3
    <2>. QED  BY <2>1, <2>2, <2>3 DEF Told
<1>. QED  BY <1>4, <1>5

\* The removals and the overflow still to be read, by the order of events.
LEMMA DyingIs ==
    ASSUME IInv
    PROVE  /\ Dying = {e.wd : e \in {x \in ToSet(Pend) : x.mask = "DELETE_SELF"}}
           /\ OverflowAhead <=> Overflow \in ToSet(Pend)
BY PendFacts DEF Dying, OverflowAhead, Pending

\* The same after the step.
LEMMA DyingNext ==
    ASSUME IInv'
    PROVE  /\ Dying' = {e.wd : e \in {x \in ToSet(Pend') : x.mask = "DELETE_SELF"}}
           /\ OverflowAhead' <=> Overflow \in ToSet(Pend')
BY PendNext DEF Dying, OverflowAhead, Pending

\* Whoever still has the path of a directory without a watch is dying.
LEMMA HoldersDyingNext ==
    ASSUME IInv', Struct', NEW d \in Live', watch'[d] = 0, ~OverflowAhead'
    PROVE  /\ Settled' => Holders(cache', PathOf'[d]) \subseteq Dying'
           /\ \A new : Awaiting(new)' => HoldersAfter(cache', PathOf'[d], OldPath', new) \subseteq Dying'
<1>1. \A c \in All : PathOf'[c] = PathOf'[d] => c = d
    <2>1. IsTree(loc') /\ PathOf' = Paths(loc') /\ Exists(loc', d) /\ d \in All
        BY PathOfIsPaths, LiveIs DEF Struct, Files, Tree
    <2>. QED  BY <2>1, PathsInjective
<1>2. ASSUME NEW e \in cache', \A c \in All : watch'[c] = e[1] => PathOf'[c] = PathOf'[d]
      PROVE  e[1] \in Dying'
    <2>1. e[1] \in KernelWds' \/ e[1] \in Dying'
        BY <1>2 DEF IInv, Books, WatchesAreCached
    <2>2. ASSUME e[1] \in KernelWds' PROVE FALSE
        <3>1. PICK c \in All : watch'[c] = e[1] /\ watch'[c] # 0
            BY <2>2 DEF KernelWds
        <3>2. c = d
            BY <1>1, <1>2, <3>1
        <3>. QED  BY <3>1, <3>2
    <2>. QED  BY <2>1, <2>2
<1>3. ASSUME Settled', NEW w \in Holders(cache', PathOf'[d]) PROVE w \in Dying'
    <2>1. PICK e \in cache' : e[2] = PathOf'[d] /\ w = e[1]
        BY <1>3 DEF Holders
    <2>2. \A c \in All : watch'[c] = e[1] => PathOf'[c] = PathOf'[d]
        BY <1>3, <2>1 DEF Settled, Agree
    <2>. QED  BY <1>2, <2>1, <2>2
<1>4. ASSUME NEW new, Awaiting(new)', NEW w \in HoldersAfter(cache', PathOf'[d], OldPath', new) PROVE w \in Dying'
    <2>1. PICK e \in cache' : Moved(e[2], OldPath', new) = PathOf'[d] /\ w = e[1]
        BY <1>4 DEF HoldersAfter
    <2>2. \A c \in All : watch'[c] = e[1] => PathOf'[c] = PathOf'[d]
        BY <1>4, <2>1 DEF Awaiting
    <2>. QED  BY <1>2, <2>1, <2>2
<1>. QED  BY <1>3, <1>4

\* An event that is posted comes after every removal, or is lost with the others.
EventHeard(mask, wd, n) == OverflowAhead' \/ \A ws \in SUBSET Dying' : Told(Pend', {mask}, wd, n, ws)

\* An event that is posted is heard.
LEMMA EventTold ==
    ASSUME IInv, IInv', NEW e \in Events, e.mask # "DELETE_SELF", queue' = Posts(queue, <<e>>), buf' = buf
    PROVE  EventHeard(e.mask, e.wd, e.name)
<1>. DEFINE es == <<e>>
<1>1. /\ QueueOK(queue) /\ queue \in Seq(Events) /\ buf \in Seq(Events) /\ Len(queue) \in Nat /\ QMax \in Nat \ {0}
      /\ Pend \in Seq(Events) /\ Pend = buf \o queue /\ Pend' = buf \o queue'
    BY PendFacts, LenProperties, DtreeAssumption DEF IInv, State, Reading, Pend
<1>2. es \in Seq(Events) /\ Len(es) = 1 /\ Head(es) = e /\ Tail(es) = <<>> /\ es # <<>>
    OBVIOUS
<1>3. \A w \in Dying' : \E x \in ToSet(Pend') : x.mask = "DELETE_SELF" /\ x.wd = w
    BY DyingNext
<1>. HIDE DEF es
<1>4. CASE Merges(queue, es)
    <2>1. queue # <<>> /\ Len(queue) < QMax /\ e = Last(queue)
        BY <1>2, <1>4 DEF Merges
    <2>2. Posts(queue, es) = Post(queue, <<>>)
        BY <1>2, <1>4 DEF Posts
    <2>3. queue \o <<>> = queue /\ Len(<<>>) = 0
        BY <1>1, ConcatEmptySeq, EmptySeq
    <2>4. queue' = queue
        BY <1>1, <2>1, <2>2, <2>3 DEF es, Post
    <2>5. Pend' = Pend
        BY <1>1, <2>4
    <2>6. Pend # <<>> /\ Last(Pend) = e
        <3>1. /\ Len(buf \o queue) = Len(buf) + Len(queue)
              /\ \A i \in 1..(Len(buf) + Len(queue)) : (buf \o queue)[i] = IF i <= Len(buf) THEN buf[i] ELSE queue[i - Len(buf)]
            BY <1>1, ConcatProperties
        <3>2. Len(queue) # 0 /\ Len(buf) \in Nat
            BY <1>1, <2>1, EmptySeq, LenProperties
        <3>3. (Len(buf) + Len(queue)) - Len(buf) = Len(queue) /\ ~(Len(buf) + Len(queue) <= Len(buf))
              /\ Len(buf) + Len(queue) \in 1..(Len(buf) + Len(queue)) /\ Len(buf) + Len(queue) # 0
            BY <1>1, <3>2
        <3>4. (buf \o queue)[Len(buf) + Len(queue)] = queue[Len(queue)]
            BY <3>1, <3>3
        <3>5. Last(Pend) = Pend[Len(Pend)] /\ Last(queue) = queue[Len(queue)]
            BY DEF Last
        <3>6. Pend # <<>>
            BY <1>1, <3>1, <3>3, EmptySeq
        <3>. QED  BY <1>1, <2>1, <3>1, <3>4, <3>5, <3>6
    <2>7. ASSUME NEW ws \in SUBSET Dying' PROVE Told(Pend, {e.mask}, e.wd, e.name, ws)
        <3>1. \A w \in ws : \E x \in ToSet(Pend) \cup {e} : x.mask = "DELETE_SELF" /\ x.wd = w
            BY <1>3, <2>5, <2>7
        <3>. QED  BY <1>1, <2>6, <3>1, ToldLast
    <2>. QED  BY <2>5, <2>7 DEF EventHeard
<1>5. CASE ~Merges(queue, es) /\ Len(queue) + 1 <= QMax
    <2>1. queue' = queue \o es
        BY <1>2, <1>5 DEF es, Posts, Post
    <2>2. Pend' = Append(Pend, e)
        <3>1. buf \o (queue \o es) = (buf \o queue) \o es
            BY SMTT(30), <1>1, <1>2, ConcatAssociative
        <3>2. Append(Pend, e) = Pend \o <<e>>
            BY <1>1, AppendIsConcat
        <3>. QED  BY <1>1, <2>1, <3>1, <3>2 DEF es
    <2>3. ToSet(Pend') = ToSet(Pend) \cup {e}
        BY ZenonT(60), <1>1, <2>2, AppendElements
    <2>4. ASSUME NEW ws \in SUBSET Dying' PROVE Told(Append(Pend, e), {e.mask}, e.wd, e.name, ws)
        <3>1. \A w \in ws : \E x \in ToSet(Pend) \cup {e} : x.mask = "DELETE_SELF" /\ x.wd = w
            BY <1>3, <2>3, <2>4
        <3>. QED  BY <1>1, <3>1, ToldLast
    <2>. QED  BY <2>2, <2>4 DEF EventHeard
<1>6. CASE ~Merges(queue, es) /\ ~(Len(queue) + 1 <= QMax)
    <2>. DEFINE kept == queue \o SubSeq(es, 1, QMax - Len(queue))
    <2>1. queue' = IF Overflow \in ToSet(kept) THEN kept ELSE Append(kept, Overflow)
        BY <1>2, <1>6 DEF es, Posts, Post
    <2>2. SubSeq(es, 1, QMax - Len(queue)) \in Seq(Events) /\ Overflow \in Events
        <3>1. QMax - Len(queue) \in Int /\ QMax - Len(queue) <= Len(es) /\ 1 \in Nat \ {0}
            BY <1>1, <1>2, <1>6
        <3>2. SubSeq(es, 1, QMax - Len(queue)) \in Seq(Events)
            BY <1>2, <3>1, PartElements
        <3>3. Overflow \in Events
            BY DtreeAssumption DEF Overflow, Events
        <3>. QED  BY <3>2, <3>3
    <2>3. kept \in Seq(Events)
        BY <1>1, <2>2, ConcatProperties
    <2>. HIDE DEF kept
    <2>4. ToSet(Append(kept, Overflow)) = ToSet(kept) \cup {Overflow}
        BY <2>2, <2>3, AppendElements
    <2>5. Overflow \in ToSet(queue')
        BY <2>1, <2>4
    <2>. QED  BY <2>5 DEF OverflowAhead, EventHeard
<1>. QED  BY <1>2, <1>4, <1>5, <1>6 DEF es

\* The path to move stays the same while events are added at the end.
LEMMA OldPathSame ==
    ASSUME IInv, NEW t \in Seq(Events), Pend' = Pend \o t, cache' = cache, Pend # <<>>
    PROVE  OldPath' = OldPath
<1>1. First' = First
    BY PendFacts, FirstStays DEF First
<1>2. \A wd : CachedPath(wd)' = CachedPath(wd)
    BY SameCache
<1>. QED  BY <1>1, <1>2 DEF OldPath

\* What a step keeps that adds events and neither reads one nor goes on with a
\* walk: who loses or gains a place in the frontier is heard of.
KeepsWatched == \A d \in All : watch'[d] # 0 => watch'[d] = watch[d] /\ PathOf'[d] = PathOf[d] /\ loc'[d] = loc[d]
KeepsRoots == \A r \in Root : loc'[r] = <<Top, r>> /\ watch'[r] = 0 => loc[r] = <<Top, r>> /\ watch[r] = 0
KeepsPlaces == walks # <<>> => \A p \in Below : At(p) # {} => At(p)' # {}
KeepsFrontier == \A d \in Frontier' :
    \/ watch[d] = 0 /\ loc'[d] = loc[d] /\ PathOf'[d] = PathOf[d]
    \/ EventHeard("CREATE", watch'[loc'[d][1]], loc'[d][2])
KeepsMoving == \A d \in All : MovingTo(d) /\ loc'[d] = loc[d] /\ loc[d][1] \in All /\ watch'[loc[d][1]] # 0 =>
    MovingTo(d)' \/ EventHeard("MOVED_TO", watch'[loc[d][1]], loc[d][2])
Keeps == KeepsWatched /\ KeepsRoots /\ KeepsPlaces /\ KeepsFrontier /\ KeepsMoving

\* Without walks there is nothing to do.
LEMMA NothingToDo == walks = <<>> => ToDo = {}
BY DEF ToDo, ToSet

\* Such a step keeps Calm.
LEMMA CalmKept ==
    ASSUME IInv, IInv', Struct', UNCHANGED <<cache, walks>>, NEW t \in Seq(Events), Pend' = Pend \o t,
           Keeps, Calm, Settled'
    PROVE  Calm'
<1>. SUFFICES ASSUME NEW d \in Frontier', ~OverflowAhead' PROVE Covered(d)'
    BY DEF Calm, Covered
<1>1. Pend \in Seq(Events)
    BY PendFacts
<1>2. ~OverflowAhead /\ ToDo' = ToDo
    <2>1. ToSet(Pend') = ToSet(Pend) \cup ToSet(t)
        BY <1>1, ConcatElements
    <2>. QED  BY <2>1, DyingIs, DyingNext DEF ToDo
<1>3. d \in All /\ watch'[d] = 0 /\ loc'[d][1] \in All /\ watch'[loc'[d][1]] # 0
    BY DEF Frontier
<1>. DEFINE ws == Holders(cache', PathOf'[d])
            up == loc'[d][1]
<1>4. ws \in SUBSET Dying'
    <2>1. IsTree(loc')
        BY DEF Struct, Files, Tree
    <2>2. d \in Live'
        <3>1. loc'[d] # Gone
            BY <1>3, GoneIsNowhere
        <3>. QED  BY <1>3, <3>1, LiveIs DEF Exists
    <2>. QED  BY <1>3, <2>2, HoldersDyingNext
<1>5. ASSUME NEW mask \in {"CREATE", "MOVED_TO"}, EventHeard(mask, watch'[loc'[d][1]], loc'[d][2])
      PROVE  Tells(d, {"CREATE", "MOVED_TO"}, Holders(cache, PathOf[d]))'
    <2>1. Told(Pend', {mask}, watch'[loc'[d][1]], loc'[d][2], ws)
        BY <1>4, <1>5 DEF EventHeard
    <2>2. Told(Pend', {"CREATE", "MOVED_TO"}, watch'[loc'[d][1]], loc'[d][2], ws)
        BY <1>5, <2>1 DEF Told
    <2>. QED  BY <2>2 DEF Tells
<1>6. CASE watch[d] = 0 /\ loc'[d] = loc[d] /\ PathOf'[d] = PathOf[d]
    <2>1. watch'[up] = watch[up] /\ PathOf'[up] = PathOf[up] /\ up = loc[d][1] /\ watch[up] # 0
        BY <1>3, <1>6 DEF Keeps, KeepsWatched
    <2>2. d \in Frontier
        BY <1>3, <1>6, <2>1 DEF Frontier
    <2>3. Covered(d)
        BY <2>2 DEF Calm
    <2>4. CASE Visit(PathOf[d]) \in ToDo \/ List(PathOf[loc[d][1]]) \in ToDo
        BY <1>2, <1>6, <2>1, <2>4 DEF Covered
    <2>5. CASE MovingTo(d)
        <3>1. MovingTo(d)' \/ EventHeard("MOVED_TO", watch'[loc'[d][1]], loc'[d][2])
            BY <1>3, <1>6, <2>5 DEF Keeps, KeepsMoving
        <3>2. CASE MovingTo(d)'
            BY <3>2 DEF Covered
        <3>3. CASE EventHeard("MOVED_TO", watch'[loc'[d][1]], loc'[d][2])
            BY <1>5, <3>3 DEF Covered
        <3>. QED  BY <3>1, <3>2, <3>3
    <2>6. CASE Tells(d, {"CREATE", "MOVED_TO"}, Holders(cache, PathOf[d]))
        <3>1. Told(Pend, {"CREATE", "MOVED_TO"}, watch'[up], loc'[d][2], ws)
            BY <1>6, <2>1, <2>6 DEF Tells
        <3>. HIDE DEF ws, up
        <3>2. Told(Pend \o t, {"CREATE", "MOVED_TO"}, watch'[up], loc'[d][2], ws)
            BY <1>1, <3>1, ToldLonger
        <3>3. Told(Pend', {"CREATE", "MOVED_TO"}, watch'[up], loc'[d][2], ws)
            BY <3>2
        <3>. QED  BY <3>3 DEF Covered, Tells, up, ws
    <2>. QED  BY <1>2, <2>3, <2>4, <2>5, <2>6 DEF Covered
<1>7. CASE EventHeard("CREATE", watch'[loc'[d][1]], loc'[d][2])
    BY <1>5, <1>7 DEF Covered
<1>. QED  BY <1>6, <1>7 DEF Keeps, KeepsFrontier

\* And what is coming.
LEMMA ComingKept ==
    ASSUME IInv, IInv', Struct, Struct', PhaseKept, UNCHANGED cache, NEW t \in Seq(Events), Pend' = Pend \o t,
           Keeps, NEW new \in Seq(Labels), Coming(new)
    PROVE  Coming(new)'
<1>1. Pend \in Seq(Events) /\ Pend # <<>>
    BY PendFacts DEF Coming, Ahead, Renaming, RootMoving, Awaiting
<1>2. OldPath' = OldPath
    BY <1>1, OldPathSame
<1>3. Renaming(new)' \/ RootMoving(new)'
    BY DEF PhaseKept, Coming, Ahead
<1>4. Awaiting(new)'
    BY <1>3 DEF Renaming, RootMoving
<1>5. OverflowAhead => OverflowAhead'
    <2>1. ToSet(Pend') = ToSet(Pend) \cup ToSet(t)
        BY <1>1, ConcatElements
    <2>. QED  BY <2>1, DyingIs, DyingNext
<1>6. ASSUME NEW d \in Frontier', ~OverflowAhead' PROVE Tells(d, {"CREATE"}, HoldersAfter(cache, PathOf[d], OldPath, new))'
    <2>1. d \in All /\ watch'[d] = 0 /\ loc'[d][1] \in All /\ watch'[loc'[d][1]] # 0
        BY <1>6 DEF Frontier
    <2>. DEFINE ws == HoldersAfter(cache', PathOf'[d], OldPath', new)
                up == loc'[d][1]
    <2>2. ws \in SUBSET Dying'
        <3>1. loc'[d] # Gone
            BY <2>1, GoneIsNowhere
        <3>2. d \in Live'
            BY <2>1, <3>1, LiveIs DEF Exists
        <3>. QED  BY <1>4, <1>6, <2>1, <3>2, HoldersDyingNext
    <2>3. CASE watch[d] = 0 /\ loc'[d] = loc[d] /\ PathOf'[d] = PathOf[d]
        <3>1. watch'[up] = watch[up] /\ up = loc[d][1] /\ watch[up] # 0
            BY <2>1, <2>3 DEF Keeps, KeepsWatched
        <3>2. d \in Frontier /\ ~OverflowAhead
            BY <1>5, <1>6, <2>1, <2>3, <3>1 DEF Frontier
        <3>3. Tells(d, {"CREATE"}, HoldersAfter(cache, PathOf[d], OldPath, new))
            BY <3>2 DEF Coming, CoveredAfter
        <3>4. Told(Pend, {"CREATE"}, watch'[up], loc'[d][2], ws)
            BY <1>2, <2>3, <3>1, <3>3 DEF Tells
        <3>. HIDE DEF ws, up
        <3>5. Told(Pend \o t, {"CREATE"}, watch'[up], loc'[d][2], ws)
            BY <1>1, <3>4, ToldLonger
        <3>6. Told(Pend', {"CREATE"}, watch'[up], loc'[d][2], ws)
            BY <3>5
        <3>. QED  BY <3>6 DEF Tells, up, ws
    <2>4. CASE EventHeard("CREATE", watch'[loc'[d][1]], loc'[d][2])
        <3>1. Told(Pend', {"CREATE"}, watch'[loc'[d][1]], loc'[d][2], ws)
            BY <1>6, <2>2, <2>4 DEF EventHeard
        <3>. QED  BY <3>1 DEF Tells
    <2>. QED  BY <1>6, <2>3, <2>4 DEF Keeps, KeepsFrontier
<1>7. ASSUME NEW d \in Live', PathOf'[d] = new, watch'[d] # 0, loc'[d][1] \in All, watch'[loc'[d][1]] # 0, ~OverflowAhead'
      PROVE  MovingTo(d)' \/ Tells(d, {"MOVED_TO"}, {})'
    <2>. DEFINE up == loc'[d][1]
    <2>1. d \in All /\ up \in All
        BY <1>7, LiveIs
    <2>2. /\ watch'[d] = watch[d] /\ PathOf'[d] = PathOf[d] /\ loc'[d] = loc[d]
          /\ watch'[up] = watch[up]
        BY <1>7, <2>1 DEF Keeps, KeepsWatched
    <2>3. d \in Live
        BY <1>7, <2>1, <2>2, LiveIs DEF Exists
    <2>4. MovingTo(d) \/ Tells(d, {"MOVED_TO"}, {})
        BY <1>5, <1>7, <2>1, <2>2, <2>3 DEF Coming, Ahead, Arrives, Found
    <2>5. CASE MovingTo(d)
        <3>1. MovingTo(d)' \/ EventHeard("MOVED_TO", watch'[loc'[d][1]], loc'[d][2])
            BY <1>7, <2>1, <2>2, <2>5 DEF Keeps, KeepsMoving
        <3>2. ASSUME EventHeard("MOVED_TO", watch'[loc'[d][1]], loc'[d][2]) PROVE Tells(d, {"MOVED_TO"}, {})'
            <4>1. Told(Pend', {"MOVED_TO"}, watch'[loc'[d][1]], loc'[d][2], {})
                BY <1>7, <3>2 DEF EventHeard
            <4>. QED  BY <4>1 DEF Tells
        <3>. QED  BY <3>1, <3>2
    <2>6. CASE Tells(d, {"MOVED_TO"}, {})
        <3>1. Told(Pend, {"MOVED_TO"}, watch'[up], loc'[d][2], {})
            BY <2>2, <2>6 DEF Tells
        <3>. HIDE DEF up
        <3>2. Told(Pend \o t, {"MOVED_TO"}, watch'[up], loc'[d][2], {})
            BY <1>1, <3>1, ToldLonger
        <3>3. Told(Pend', {"MOVED_TO"}, watch'[up], loc'[d][2], {})
            BY <3>2
        <3>. QED  BY <3>3 DEF Tells, up
    <2>. QED  BY <2>4, <2>5, <2>6
<1>8. Arrives(new)'
    <2>1. \A e \in cache' : IsPrefix(new, e[2]) => IsPrefix(OldPath', e[2])
        BY <1>2 DEF Coming, Ahead, Arrives
    <2>2. Len(new) >= 2 /\ (new[1] = Away \/ Len(new) > 2)
        BY DEF Coming, Ahead, Arrives
    <2>3. \A d \in Live' : PathOf'[d] = new /\ watch'[d] # 0 /\ loc'[d][1] \in All /\ watch'[loc'[d][1]] # 0 => Found(d)'
        BY <1>7 DEF Found
    <2>. QED  BY <2>1, <2>2, <2>3 DEF Arrives
<1>. QED  BY <1>3, <1>6, <1>8 DEF Coming, Ahead, CoveredAfter

\* And so Complete.
LEMMA CompleteKept ==
    ASSUME IInv, IInv', Struct, Struct', Complete, PhaseKept, UNCHANGED <<cache, walks>>,
           NEW t \in Seq(Events), Pend' = Pend \o t,
           shaken' = {} /\ pc' # "exited" => shaken = {} /\ pc # "exited" /\ Keeps
    PROVE  Complete'
<1>. SUFFICES ASSUME shaken' = {}, pc' # "exited"
              PROVE  RootsCovered' /\ ListLive' /\ (Calm' \/ \E new \in Seq(Labels) : Coming(new)')
    BY DEF Complete
<1>1. shaken = {} /\ pc # "exited" /\ Keeps
    OBVIOUS
<1>2. RootsCovered /\ ListLive /\ (Calm \/ \E new \in Seq(Labels) : Coming(new))
    BY <1>1 DEF Complete
<1>3. ToDo' = ToDo
    BY DEF ToDo
<1>4. RootsCovered'
    BY <1>1, <1>2, <1>3 DEF RootsCovered, Keeps, KeepsRoots
<1>5. ListLive'
    <2>1. ASSUME NEW p \in Below, List(p) \in ToDo' PROVE At(p)' # {}
        <3>1. walks # <<>>
            BY <1>3, <2>1, NothingToDo
        <3>. QED  BY <1>1, <1>2, <1>3, <2>1, <3>1 DEF ListLive, Keeps, KeepsPlaces
    <2>. QED  BY <2>1 DEF ListLive
<1>6. Calm => Calm'
    BY <1>1, CalmKept DEF Calm, PhaseKept
<1>7. \A new \in Seq(Labels) : Coming(new) => Coming(new)'
    BY <1>1, ComingKept
<1>. QED  BY <1>2, <1>4, <1>5, <1>6, <1>7

\* The event of a watched directory is heard.
LEMMA PostedHeard ==
    ASSUME IInv, IInv', NEW d \in All, NEW mask, NEW n, NEW cookie, mask # "DELETE_SELF", watch[d] # 0,
           Event(d, mask, n, cookie) \in Seq(Events),
           queue' = Posts(queue, Event(d, mask, n, cookie)), buf' = buf
    PROVE  EventHeard(mask, watch[d], n)
<1>. DEFINE e == [wd |-> watch[d], mask |-> mask, name |-> n, cookie |-> cookie]
<1>1. Event(d, mask, n, cookie) = <<e>>
    BY DEF Event
<1>2. <<e>> \in Seq(Events) /\ <<e>> # <<>> /\ Head(<<e>>) = e
    BY <1>1
<1>3. e.wd = watch[d] /\ e.mask = mask /\ e.name = n
    OBVIOUS
<1>. HIDE DEF e
<1>4. e \in Events
    BY <1>2, HeadTailProperties
<1>5. EventHeard(e.mask, e.wd, e.name)
    BY <1>1, <1>3, <1>4, EventTold
<1>. QED  BY <1>3, <1>5

\* Who is not the one that moved is where it was.
LEMMA SamePlaces ==
    ASSUME Tree, NEW q \in All, \A c \in All : c # q => PathOf'[c] = PathOf[c] /\ loc'[c] = loc[c]
    PROVE  \A p : \A c \in At(p) : c # q => At(p)' # {}
<1>. SUFFICES ASSUME NEW p, NEW c \in At(p), c # q PROVE c \in At(p)'
    OBVIOUS
<1>1. c \in All /\ c \in Live /\ PathOf[c] = p
    BY LiveIs DEF At
<1>2. c \in Live'
    BY <1>1, LiveIs DEF Exists
<1>. QED  BY <1>1, <1>2 DEF At

\* mkdir() is heard of where it makes a directory to be found.
LEMMA MkdirComplete ==
    ASSUME IInv, IInv', Struct, Struct', Complete, NEW d \in Dir, NEW up \in All, NEW n \in Name, Mkdir(d, up, n)
    PROVE  Complete'
<1>. DEFINE es == Event(up, "CREATE", n, 0)
<1>1. /\ queue' = Posts(queue, es)
      /\ UNCHANGED <<moving, watch, nextWd, program, shaken, buf, pc, cache, walks>>
    BY DEF Mkdir, program
<1>2. /\ d \notin Live /\ d \in All /\ loc'[d] = <<up, n>>
      /\ \A c \in All : c # d => PathOf'[c] = PathOf[c] /\ loc'[c] = loc[c]
    BY MkdirPaths DEF Struct, Files, IInv, State, All
<1>3. es \in Seq(Events)
    BY MkdirEvents
<1>4. PICK t \in Seq(Events) : Pend' = Pend \o t
    BY <1>1, <1>3, PendPosted
<1>5. KeepsWatched
    BY <1>1, <1>2 DEF KeepsWatched, Struct, WatchedLive
<1>6. KeepsRoots
    <2>1. \A r \in Root : r # d /\ r \in All
        BY DtreeAssumption DEF All
    <2>. QED  BY <1>1, <1>2, <2>1 DEF KeepsRoots
<1>7. KeepsPlaces
    <2>1. \A p : \A c \in At(p) : c # d
        BY <1>2 DEF At
    <2>. QED  BY <1>2, <2>1, SamePlaces DEF KeepsPlaces, Struct, Files
<1>8. KeepsFrontier
    <2>1. ASSUME NEW c \in Frontier', c # d PROVE watch[c] = 0 /\ loc'[c] = loc[c] /\ PathOf'[c] = PathOf[c]
        BY <1>1, <1>2, <2>1 DEF Frontier
    <2>2. ASSUME d \in Frontier' PROVE EventHeard("CREATE", watch'[loc'[d][1]], loc'[d][2])
        <3>1. loc'[d][1] = up /\ loc'[d][2] = n
            BY <1>2
        <3>2. watch[up] # 0
            BY <1>1, <2>2, <3>1 DEF Frontier
        <3>3. EventHeard("CREATE", watch[up], n)
            BY <1>1, <1>3, <3>2, PostedHeard
        <3>. QED  BY <1>1, <3>1, <3>3
    <2>. QED  BY <2>1, <2>2 DEF KeepsFrontier
<1>9. KeepsMoving
    BY <1>1 DEF KeepsMoving, MovingTo
<1>10. PhaseKept
    BY MkdirPhase
<1>11. Keeps
    BY <1>5, <1>6, <1>7, <1>8, <1>9 DEF Keeps
<1>. QED  BY <1>1, <1>4, <1>10, <1>11, CompleteKept

\* rmdir() takes a directory from those to be found, and makes none.
LEMMA RmdirComplete ==
    ASSUME IInv, IInv', Struct, Struct', Complete, NEW d \in All, Rmdir(d)
    PROVE  Complete'
<1>. DEFINE es == Event(d, "DELETE_SELF", Nowhere, 0) \o Event(d, "IGNORED", Nowhere, 0)
<1>1. /\ watch' = [watch EXCEPT ![d] = 0] /\ queue' = Posts(queue, es) /\ shaken' = Shake(TRUE)
      /\ UNCHANGED <<moving, nextWd, program, buf, pc, cache, walks>>
    BY DEF Rmdir, program
<1>2. /\ loc'[d] = Gone /\ \A c \in All : c # d => PathOf'[c] = PathOf[c] /\ loc'[c] = loc[c]
      /\ \A c \in All : loc[c][1] # d
    BY RmdirPaths DEF Struct, Files, IInv, State
<1>3. es \in Seq(Events)
    BY RmdirEvents
<1>. HIDE DEF es
<1>4. PICK t \in Seq(Events) : Pend' = Pend \o t
    BY <1>1, <1>3, PendPosted
<1>5. watch'[d] = 0 /\ \A c \in All : c # d => watch'[c] = watch[c]
    BY <1>1 DEF IInv, Books, Descriptors
<1>6. KeepsWatched
    BY <1>2, <1>5 DEF KeepsWatched
<1>7. KeepsRoots
    <2>1. \A r \in Root : r \in All /\ Gone # <<Top, r>>
        BY GoneIsNowhere DEF All
    <2>. QED  BY <1>2, <1>5, <2>1 DEF KeepsRoots
<1>8. ASSUME shaken' = {} PROVE shaken = {} /\ KeepsPlaces
    <2>1. shaken = {} /\ pc # "walk"
        BY <1>1, <1>8 DEF Shake
    <2>. QED  BY <2>1 DEF KeepsPlaces, Struct, WalksOK
<1>9. KeepsFrontier
    <2>1. ASSUME NEW c \in Frontier' PROVE c # d
        BY <1>2, <2>1, GoneIsNowhere DEF Frontier
    <2>2. ASSUME NEW c \in Frontier' PROVE watch[c] = 0 /\ loc'[c] = loc[c] /\ PathOf'[c] = PathOf[c]
        BY <1>2, <1>5, <2>1, <2>2 DEF Frontier
    <2>. QED  BY <2>2 DEF KeepsFrontier
<1>10. KeepsMoving
    BY <1>1 DEF KeepsMoving, MovingTo
<1>11. PhaseKept
    BY RmdirPhase
<1>12. shaken' = {} /\ pc' # "exited" => shaken = {} /\ pc # "exited" /\ Keeps
    BY <1>1, <1>6, <1>7, <1>8, <1>9, <1>10 DEF Keeps
<1>. QED  BY <1>1, <1>4, <1>11, <1>12, CompleteKept

\* The second half of a rename takes its place among the events.
LEMMA RenameToComplete ==
    ASSUME IInv, IInv', Struct, Struct', Complete, NEW m \in Mover, RenameTo(m)
    PROVE  Complete'
<1>1. PICK r \in moving[m] :
          /\ moving' = [moving EXCEPT ![m] = {}]
          /\ queue' = Posts(queue, Event(r.to, "MOVED_TO", r.name, r.cookie))
          /\ UNCHANGED <<loc, ops, watch, nextWd, program, shaken>>
    BY DEF RenameTo
<1>. DEFINE es == Event(r.to, "MOVED_TO", r.name, r.cookie)
<1>2. UNCHANGED <<buf, pc, cache, walks>> /\ PathOf' = PathOf
    BY <1>1, PathOfIsPaths DEF program
<1>3. es \in Seq(Events)
    BY RenameToEvents
<1>4. PICK t \in Seq(Events) : Pend' = Pend \o t
    BY <1>1, <1>2, <1>3, PendPosted
<1>5. KeepsWatched /\ KeepsRoots /\ KeepsPlaces
    BY <1>1, <1>2 DEF KeepsWatched, KeepsRoots, KeepsPlaces, At, Live
<1>6. KeepsFrontier
    BY <1>1, <1>2 DEF KeepsFrontier, Frontier
<1>7. ASSUME NEW d \in All, MovingTo(d), loc[d][1] \in All, watch'[loc[d][1]] # 0
      PROVE  MovingTo(d)' \/ EventHeard("MOVED_TO", watch'[loc[d][1]], loc[d][2])
    <2>1. PICK k \in Mover : \E q \in moving[k] : q.to = loc[d][1] /\ q.name = loc[d][2]
        BY <1>7 DEF MovingTo
    <2>2. PICK q \in moving[k] : q.to = loc[d][1] /\ q.name = loc[d][2]
        BY <2>1
    <2>3. CASE k # m
        <3>1. moving'[k] = moving[k]
            BY <1>1, <2>3 DEF IInv, State, Renames
        <3>. QED  BY <1>1, <2>2, <3>1 DEF MovingTo
    <2>4. CASE k = m /\ q # r
        <3>1. \A x, y \in moving[m] : x = y
            BY DEF IInv, State, Renames
        <3>. QED  BY <2>2, <2>4, <3>1
    <2>5. CASE q = r
        <3>1. r.to \in All /\ watch[r.to] # 0 /\ watch'[loc[d][1]] = watch[r.to]
            BY <1>1, <1>7, <2>2, <2>5
        <3>2. EventHeard("MOVED_TO", watch[r.to], r.name)
            BY <1>1, <1>2, <1>3, <3>1, PostedHeard
        <3>. QED  BY <2>2, <2>5, <3>1, <3>2
    <2>. QED  BY <2>3, <2>4, <2>5
<1>8. Keeps
    BY <1>1, <1>5, <1>6, <1>7 DEF Keeps, KeepsMoving
<1>9. PhaseKept
    BY RenameToPhase
<1>10. UNCHANGED <<shaken, pc, cache, walks>>
    BY <1>1, <1>2
<1>. QED  BY <1>4, <1>8, <1>9, <1>10, CompleteKept

\* A step that changes neither the files, the watches, the cache nor what is to be read.
LEMMA SameComplete ==
    ASSUME IInv, IInv', Struct, Struct', Complete, PhaseKept,
           UNCHANGED <<loc, moving, watch, cache, walks, shaken>>, Pend' = Pend, pc' # "exited" => pc # "exited"
    PROVE  Complete'
<1>1. PathOf' = PathOf
    BY PathOfIsPaths
<1>2. Keeps
    BY <1>1 DEF Keeps, KeepsWatched, KeepsRoots, KeepsPlaces, KeepsFrontier, KeepsMoving, At, Live, Frontier, MovingTo
<1>3. Pend' = Pend \o <<>> /\ <<>> \in Seq(Events)
    BY PendFacts, ConcatEmptySeq, EmptySeq
<1>. QED  BY <1>2, <1>3, CompleteKept

\* select(), the reads and a wait for a second event.
LEMMA ReadingComplete ==
    ASSUME IInv, IInv', Struct, Struct', Complete, Select \/ Read \/ ReadAgain \/ EvHanging \/ UNCHANGED vars
    PROVE  Complete'
<1>1. PhaseKept
    BY SelectReadPhase, HangingPhase, StutteringPhase
<1>2. CASE Read \/ ReadAgain
    <2>1. Pend' = Pend
        BY <1>2, PendRead
    <2>2. UNCHANGED <<loc, moving, watch, cache, walks, shaken>> /\ pc # "exited"
        BY <1>2 DEF Read, ReadAgain, fs
    <2>. QED  BY <1>1, <2>1, <2>2, SameComplete
<1>3. CASE Select \/ EvHanging \/ UNCHANGED vars
    <2>1. UNCHANGED <<loc, moving, watch, cache, walks, shaken, buf, queue>> /\ (pc' # "exited" => pc # "exited")
        BY <1>3 DEF Select, EvHanging, Processing, vars, fs, kernel, program
    <2>2. Pend' = Pend
        BY <2>1 DEF Pend
    <2>. QED  BY <1>1, <2>1, <2>2, SameComplete
<1>. QED  BY <1>2, <1>3

\* With nothing to read and nothing shaken every directory is found.
LEMMA QuietComplete ==
    ASSUME IInv, Struct, Complete, Quiet, shaken = {}
    PROVE  /\ Settled /\ Frontier = {} /\ \A r \in Root : loc[r] = <<Top, r>> => watch[r] # 0
           /\ Pend = <<>> /\ walks = <<>> /\ Dying = {} /\ ~OverflowAhead
<1>1. Pend = <<>> /\ pc = "select" /\ Pending = {} /\ \A m \in Mover : moving[m] = {}
    BY QuietPend DEF Quiet
<1>2. RootsCovered /\ (Calm \/ \E new \in Seq(Labels) : Coming(new))
    BY <1>1 DEF Complete
<1>3. Calm
    BY <1>1, <1>2 DEF Coming, Ahead, Renaming, RootMoving, Awaiting
<1>4. walks = <<>> /\ ToDo = {}
    BY <1>1, NothingToDo DEF Struct, WalksOK
<1>5. Dying = {} /\ ~OverflowAhead
    BY <1>1 DEF Dying, OverflowAhead, Pending
<1>6. ASSUME NEW d \in Frontier PROVE FALSE
    <2>1. ~MovingTo(d)
        BY <1>1 DEF MovingTo
    <2>2. \A masks, ws : ~Tells(d, masks, ws)
        <3>1. Len(Pend) = 0 /\ 1..0 = {}
            BY <1>1, EmptySeq
        <3>. QED  BY <3>1 DEF Tells, Told
    <2>. QED  BY <1>3, <1>4, <1>5, <1>6, <2>1, <2>2 DEF Calm, Covered
<1>. QED  BY <1>1, <1>2, <1>3, <1>4, <1>5, <1>6 DEF Calm, RootsCovered

\* Nothing is where nothing is linked, nor below it.
LEMMA NothingThere ==
    ASSUME Tree, Names, NEW up \in Live, NEW n \in Name, Free(up, n), NEW c \in All
    PROVE  ~IsPrefix(Append(PathOf[up], n), PathOf[c])
<1>. DEFINE q == Append(PathOf[up], n)
            T == {x \in All : ~IsPrefix(q, PathOf[x])}
<1>1. up \in All /\ PathOf[up] \in Seq(Labels) /\ Len(PathOf[up]) \in Nat /\ Len(PathOf[up]) >= 2 /\ n \in Labels
    BY PathFacts, LiveIs DEF Labels
<1>2. q \in Seq(Labels) /\ Len(q) = Len(PathOf[up]) + 1
    BY <1>1, AppendFacts
<1>3. Len(q) > 2
    BY <1>1, <1>2
<1>4. ASSUME NEW x \in All, loc[x][1] \in All => loc[x][1] \in T PROVE x \in T
    <2>1. PathOf[x] \in Seq(Labels)
        BY PathFacts
    <2>2. CASE loc[x][1] \notin All
        <3>1. Len(PathOf[x]) = 2
            BY <2>2, PathFacts
        <3>. HIDE DEF q
        <3>2. IsPrefix(q, PathOf[x]) => Len(q) <= Len(PathOf[x])
            BY <1>2, <2>1, PrefixLength
        <3>3. ~IsPrefix(q, PathOf[x])
            BY <1>2, <1>3, <3>1, <3>2
        <3>. QED  BY <3>3 DEF q
    <2>3. CASE loc[x][1] \in All
        <3>. DEFINE p == loc[x][1]
                    l == loc[x][2]
        <3>1. PathOf[x] = Append(PathOf[p], l) /\ PathOf[p] \in Seq(Labels) /\ l \in Labels /\ p \in Live
            <4>1. l \in Labels
                BY PlacedFacts DEF Tree, IsTree
            <4>. QED  BY <2>3, <4>1, PathFacts, ParentsLive
        <3>2. ~IsPrefix(q, PathOf[p])
            BY <1>4, <2>3
        <3>3. loc[x] = <<p, l>>
            BY PlacedFacts DEF Tree, IsTree
        <3>. DEFINE a == PathOf[up]
                    b == PathOf[p]
        <3>4. q # Append(PathOf[p], l)
            <4>1. a \in Seq(Labels) /\ b \in Seq(Labels) /\ n \in Labels /\ l \in Labels
                BY <1>1, <3>1
            <4>2. a = b => up = p
                BY <1>1, <2>3, PathFacts
            <4>3. loc[x] # <<up, n>>
                BY DEF Free
            <4>4. q = Append(a, n)
                OBVIOUS
            <4>. HIDE DEF a, b, q, p, l
            <4>5. Append(a, n) = Append(b, l) => a = b /\ n = l
                BY <4>1, AppendInjective
            <4>. QED  BY <3>3, <4>2, <4>3, <4>4, <4>5 DEF b
        <3>5. b \in Seq(Labels) /\ l \in Labels /\ q \in Seq(Labels) /\ ~IsPrefix(q, b) /\ q # Append(b, l)
            BY <1>2, <3>1, <3>2, <3>4
        <3>. HIDE DEF b, q, l
        <3>6. ~IsPrefix(q, Append(b, l))
            BY <3>5, PrefixAppend
        <3>. QED  BY <3>1, <3>6 DEF b, q, l
    <2>. QED  BY <2>2, <2>3
<1>5. IsTree(loc)
    BY DEF Tree
<1>. HIDE DEF T
<1>6. All \subseteq T
    BY <1>4, <1>5, DownTheTree
<1>. QED  BY <1>6 DEF T

\* Where a directory has moved, nothing is in the cache but what has moved.
LEMMA ArrivalFree ==
    ASSUME IInv, Struct, Settled, Dying = {}, ~OverflowAhead, NEW up \in Live \cup {Away}, NEW n \in Name, Free(up, n),
           NEW new, new = PathAt(PathOf, <<up, n>>), new \in Seq(Labels)
    PROVE  /\ \A e \in cache : ~IsPrefix(new, e[2])
           /\ Len(new) >= 2 /\ (new[1] = Away \/ Len(new) > 2)
<1>1. CASE up = Away
    <2>1. new = <<Away, n>>
        BY <1>1, GoneIsNowhere DEF PathAt
    <2>2. Len(new) = 2 /\ new[1] = Away
        BY <2>1
    <2>3. ASSUME NEW e \in cache, IsPrefix(new, e[2]) PROVE FALSE
        <3>1. e[2] \in Seq(Labels) /\ e[2][1] = Top
            BY DEF Struct, Entries, Below
        <3>2. e[2][1] = new[1]
            BY <2>2, <2>3, <3>1, PrefixLength
        <3>. QED  BY <2>2, <3>1, <3>2, GoneIsNowhere
    <2>. QED  BY <2>2, <2>3
<1>2. CASE up \in Live
    <2>1. up \in All /\ PathOf[up] \in Seq(Labels) /\ Len(PathOf[up]) \in Nat /\ Len(PathOf[up]) >= 2 /\ n \in Labels
        BY <1>2, PathFacts, LiveIs DEF Labels, Struct, Files
    <2>2. new = Append(PathOf[up], n)
        BY <2>1 DEF PathAt
    <2>3. Len(new) = Len(PathOf[up]) + 1
        BY <2>1, <2>2, AppendFacts
    <2>4. Len(new) > 2 /\ Len(new) >= 2
        BY <2>1, <2>3
    <2>5. ASSUME NEW e \in cache PROVE ~IsPrefix(new, e[2])
        <3>1. PICK c \in All : watch[c] = e[1]
            BY <2>5 DEF IInv, Books, WatchesAreCached, KernelWds
        <3>2. PathOf[c] = e[2]
            BY <2>5, <3>1 DEF Settled, Agree
        <3>3. ~IsPrefix(Append(PathOf[up], n), PathOf[c])
            BY <1>2, NothingThere DEF Struct, Files, IInv, State
        <3>. QED  BY <2>2, <3>2, <3>3
    <2>. QED  BY <2>4, <2>5
<1>. QED  BY <1>1, <1>2

\* A rename of a clean history is made when nothing is to be found.
LEMMA RenameFromComplete ==
    ASSUME IInv, IInv', Struct, Struct', Followed, Complete,
           NEW m \in Mover, NEW d \in Dir, NEW up \in All \cup {Away}, NEW n \in Name, RenameFrom(m, d, up, n)
    PROVE  Complete'
<1>. DEFINE es == Event(loc[d][1], "MOVED_FROM", loc[d][2], ops')
            r == [from |-> loc[d][1], to |-> up, name |-> n, cookie |-> ops']
<1>. SUFFICES ASSUME shaken' = {}, pc' # "exited"
              PROVE  RootsCovered' /\ ListLive' /\ (Calm' \/ \E new \in Seq(Labels) : Coming(new)')
    BY DEF Complete
<1>1. /\ moving' = [moving EXCEPT ![m] = {r}] /\ shaken' = Shake(Quiet /\ Seen(d, es))
      /\ up \in Live \cup {Away} /\ Free(up, n) /\ d \in All
      /\ UNCHANGED <<watch, nextWd, pc, cache, roots, buf, walks>>
    BY DEF RenameFrom, program, All
<1>2. shaken = {} /\ Quiet /\ Clean'
    BY <1>1 DEF Shake, Clean
<1>3. /\ Settled /\ Frontier = {} /\ \A x \in Root : loc[x] = <<Top, x>> => watch[x] # 0
      /\ walks = <<>> /\ Dying = {} /\ ~OverflowAhead
    BY <1>2, QuietComplete
<1>4. /\ MovedTo(d, <<up, n>>)
      /\ \/ Settled' /\ Seen(d, <<>>)
         \/ loc[d][1] \in All /\ watch[loc[d][1]] # 0 /\ RenameHeard(d)
    BY <1>2, RenameFromPhase
<1>5. /\ loc'[d] = <<up, n>> /\ \A c \in All : c # d => loc'[c] = loc[c]
      /\ PathOf'[d] = PathAt(PathOf, <<up, n>>) /\ PathOf'[d] \in Seq(Labels)
    BY <1>4 DEF MovedTo
<1>6. r.to = up /\ r.name = n
    OBVIOUS
<1>7. MovingTo(d)'
    <2>. HIDE DEF r
    <2>1. moving'[m] = {r}
        BY <1>1 DEF IInv, State, Renames
    <2>2. loc'[d][1] = up /\ loc'[d][2] = n
        BY <1>5
    <2>. QED  BY <1>6, <2>1, <2>2 DEF MovingTo
<1>. HIDE DEF es, r
<1>8. Frontier' \subseteq {d} /\ (loc[d][1] \in All /\ watch[loc[d][1]] # 0 => Frontier' = {})
    <2>1. \A c \in Frontier' : c # d => c \in Frontier
        BY <1>1, <1>5 DEF Frontier
    <2>2. loc[d][1] \in All /\ watch[loc[d][1]] # 0 => watch[d] # 0
        BY <1>1, <1>3 DEF Frontier
    <2>3. d \in Frontier' => watch[d] = 0
        BY <1>1 DEF Frontier
    <2>. QED  BY <1>3, <2>1, <2>2, <2>3
<1>9. RootsCovered'
    <2>1. \A x \in Root : x # d /\ x \in All
        BY DtreeAssumption DEF All
    <2>. QED  BY <1>1, <1>3, <1>5, <2>1 DEF RootsCovered
<1>10. ListLive'
    BY <1>1, <1>3, NothingToDo DEF ListLive, ToDo
<1>11. CASE Settled' /\ Seen(d, <<>>)
    BY <1>7, <1>8, <1>9, <1>10, <1>11 DEF Calm, Covered
<1>12. CASE loc[d][1] \in All /\ watch[loc[d][1]] # 0 /\ RenameHeard(d)
    <2>1. PICK new \in Seq(Labels) : new = PathOf'[d] /\ OldPath' = PathOf[d] /\ Renaming(new)'
        BY <1>12 DEF RenameHeard
    <2>2. new = PathAt(PathOf, <<up, n>>)
        BY <1>5, <2>1
    <2>3. /\ \A e \in cache : ~IsPrefix(new, e[2])
          /\ Len(new) >= 2 /\ (new[1] = Away \/ Len(new) > 2)
        BY <1>1, <1>3, <2>2, ArrivalFree
    <2>4. \A c \in Live' : PathOf'[c] = new => c = d
        <3>1. IsTree(loc') /\ PathOf' = Paths(loc') /\ \A c \in Live' : c \in All /\ Exists(loc', c)
            BY PathOfIsPaths, LiveIs DEF Struct, Files, Tree
        <3>. QED  BY <1>1, <2>1, <3>1, PathsInjective
    <2>5. Arrives(new)'
        BY <1>1, <1>7, <2>3, <2>4 DEF Arrives, Found
    <2>6. Coming(new)'
        BY <1>8, <1>12, <2>1, <2>5 DEF Coming, Ahead
    <2>. QED  BY <1>9, <1>10, <2>6
<1>. QED  BY <1>4, <1>11, <1>12

\* So is a root's.
LEMMA MoveRootComplete ==
    ASSUME IInv, IInv', Struct, Struct', Followed, Complete, NEW d \in Root, MoveRoot(d)
    PROVE  Complete'
<1>. DEFINE es == Event(d, "MOVE_SELF", Nowhere, 0)
<1>. SUFFICES ASSUME shaken' = {}, pc' # "exited"
              PROVE  RootsCovered' /\ ListLive' /\ (Calm' \/ \E new \in Seq(Labels) : Coming(new)')
    BY DEF Complete
<1>1. /\ shaken' = Shake(Quiet /\ Seen(d, es)) /\ d \in All
      /\ UNCHANGED <<watch, nextWd, pc, cache, roots, buf, walks>>
    BY DEF MoveRoot, program, All
<1>2. shaken = {} /\ Quiet /\ Clean'
    BY <1>1 DEF Shake, Clean
<1>3. /\ Frontier = {} /\ \A x \in Root : loc[x] = <<Top, x>> => watch[x] # 0
      /\ walks = <<>>
    BY <1>2, QuietComplete
<1>4. MovedTo(d, <<Away, d>>) /\ (Settled' \/ RootHeard(d))
    BY <1>2, MoveRootPhase
<1>5. /\ loc'[d] = <<Away, d>> /\ \A c \in All : c # d => loc'[c] = loc[c]
      /\ PathOf'[d] = <<Away, d>>
    <2>1. PathAt(PathOf, <<Away, d>>) = <<Away, d>>
        BY GoneIsNowhere DEF PathAt
    <2>. QED  BY <1>4, <2>1 DEF MovedTo
<1>6. Frontier' = {}
    <2>1. \A c \in Frontier' : c # d => c \in Frontier
        BY <1>1, <1>5 DEF Frontier
    <2>2. d \notin Frontier'
        BY <1>5, GoneIsNowhere DEF Frontier
    <2>. QED  BY <1>3, <2>1, <2>2
<1>7. RootsCovered'
    <2>1. <<Away, d>> # <<Top, d>> /\ \A x \in Root : x \in All
        BY GoneIsNowhere DEF All
    <2>. QED  BY <1>1, <1>3, <1>5, <2>1 DEF RootsCovered
<1>8. ListLive'
    BY <1>1, <1>3, NothingToDo DEF ListLive, ToDo
<1>9. CASE RootHeard(d)
    <2>1. PICK new \in Seq(Labels) : new = PathOf'[d] /\ RootMoving(new)'
        BY <1>9 DEF RootHeard
    <2>2. Len(new) = 2 /\ new[1] = Away
        BY <1>5, <2>1
    <2>3. ASSUME NEW e \in cache', IsPrefix(new, e[2]) PROVE FALSE
        <3>1. e[2] \in Seq(Labels) /\ e[2][1] = Top
            BY <1>1, <2>3 DEF Struct, Entries, Below
        <3>2. e[2][1] = new[1]
            BY <2>2, <2>3, <3>1, PrefixLength
        <3>. QED  BY <2>2, <3>1, <3>2, GoneIsNowhere
    <2>4. \A c \in Live' : PathOf'[c] = new => c = d
        <3>1. IsTree(loc') /\ PathOf' = Paths(loc') /\ \A c \in Live' : c \in All /\ Exists(loc', c)
            BY PathOfIsPaths, LiveIs DEF Struct, Files, Tree
        <3>. QED  BY <1>1, <2>1, <3>1, PathsInjective
    <2>5. loc'[d][1] \notin All
        BY <1>5, GoneIsNowhere
    <2>6. Arrives(new)'
        BY <2>2, <2>3, <2>4, <2>5 DEF Arrives
    <2>7. Coming(new)'
        BY <1>6, <2>1, <2>6 DEF Coming, Ahead
    <2>. QED  BY <1>7, <1>8, <2>7
<1>. QED  BY <1>4, <1>6, <1>7, <1>8, <1>9 DEF Calm

\* The items of the walks differ by stage and by path.
LEMMA VisitsAndLists ==
    /\ \A p, q : Visit(p) # List(q) /\ (Visit(p) = Visit(q) => p = q) /\ (List(p) = List(q) => p = q)
    /\ \A p : Visit(p).stage = "visit" /\ Visit(p).path = p /\ List(p).stage = "list" /\ List(p).path = p
<1>1. \A p : Visit(p).stage = "visit" /\ Visit(p).path = p /\ List(p).stage = "list" /\ List(p).path = p
    BY DEF Visit, List
<1>2. ASSUME NEW p, NEW q PROVE Visit(p) # List(q) /\ (Visit(p) = Visit(q) => p = q) /\ (List(p) = List(q) => p = q)
    BY DEF Visit, List
<1>. QED  BY <1>1, <1>2

\* New walks visit their paths.
LEMMA VisitsStarted ==
    ASSUME NEW S, NEW paths \in Seq(S), NEW w, w = [k \in DOMAIN paths |-> <<Visit(paths[k])>>]
    PROVE  UNION {ToSet(s) : s \in ToSet(w)} = {Visit(p) : p \in ToSet(paths)}
<1>. DEFINE U == UNION {ToSet(s) : s \in ToSet(w)}
<1>1. \A x : ToSet(<<x>>) = {x}
    BY DEF ToSet
<1>2. ToSet(w) = {<<Visit(paths[k])>> : k \in DOMAIN paths}
    BY DEF ToSet
<1>3. ToSet(paths) = {paths[k] : k \in DOMAIN paths}
    BY DEF ToSet
<1>4. ASSUME NEW x \in U PROVE x \in {Visit(p) : p \in ToSet(paths)}
    <2>1. PICK k \in DOMAIN paths : x \in ToSet(<<Visit(paths[k])>>)
        BY <1>2, <1>4
    <2>2. x = Visit(paths[k])
        BY <1>1, <2>1
    <2>. QED  BY <1>3, <2>2
<1>5. ASSUME NEW p \in ToSet(paths) PROVE Visit(p) \in U
    <2>1. PICK k \in DOMAIN paths : p = paths[k]
        BY <1>3, <1>5
    <2>2. Visit(p) \in ToSet(<<Visit(paths[k])>>)
        BY <1>1, <2>1
    <2>. QED  BY <1>2, <2>2
<1>. QED  BY <1>4, <1>5

\* So do those that start now.
LEMMA StartedToDo ==
    ASSUME NEW S, NEW paths \in Seq(S), StartWalks(paths)
    PROVE  ToDo' = {Visit(p) : p \in ToSet(paths)}
<1>1. walks' = [k \in DOMAIN paths |-> <<Visit(paths[k])>>]
    BY DEF StartWalks, Visit
<1>2. UNION {ToSet(s) : s \in ToSet(walks')} = {Visit(p) : p \in ToSet(paths)}
    BY <1>1, VisitsStarted
<1>. QED  BY <1>2 DEF ToDo

\* A rebuild visits every root in place.
LEMMA ReinitComplete ==
    ASSUME Struct, Struct', NEW rp \in SUBSET roots, reinitialize(rp), roots' = rp
    PROVE  Complete'
<1>1. watch' = [d \in All |-> 0] /\ StartWalks(SetToSeq(rp))
    BY DEF reinitialize
<1>2. SetToSeq(rp) \in Seq(rp) /\ ToSet(SetToSeq(rp)) = rp
    <2>1. IsFiniteSet(rp)
        BY RootsBelow, FS_Subset DEF Struct
    <2>. QED  BY <2>1, ListCovers
<1>3. ToDo' = {Visit(p) : p \in rp}
    BY <1>1, <1>2, StartedToDo
<1>4. RootsCovered'
    <2>1. \A r \in Root : loc'[r] = <<Top, r>> => <<Top, r>> \in rp
        BY DEF Struct, RootsOK
    <2>. QED  BY <1>3, <2>1 DEF RootsCovered
<1>5. ListLive'
    BY <1>3, VisitsAndLists DEF ListLive
<1>6. Frontier' = {}
    BY <1>1 DEF Frontier
<1>7. Settled'
    BY ReinitSettled
<1>. QED  BY <1>4, <1>5, <1>6, <1>7 DEF Complete, Calm

\* What the first event says of the directories to be found.
LEMMA FirstTells ==
    ASSUME IInv, Struct, Followed, Complete, Processing, shaken = {}
    PROVE  /\ walks = <<>> /\ ToDo = {}
           /\ \A r \in Root : loc[r] = <<Top, r>> => watch[r] # 0
           /\ ev.mask \notin Moves => Calm
           /\ ev.mask \in Moves => \E new \in Seq(Labels) : Coming(new)
<1>1. pc # "exited" /\ pc # "walk"
    BY DEF Processing
<1>2. walks = <<>> /\ ToDo = {}
    BY <1>1, NothingToDo DEF Struct, WalksOK
<1>3. RootsCovered /\ (Calm \/ \E new \in Seq(Labels) : Coming(new))
    BY <1>1 DEF Complete
<1>4. Clean
    BY DEF Clean
<1>5. ev = First /\ ev \in Pending
    BY <1>4, FirstSays
<1>6. \A new : Coming(new) => First.mask \in Moves
    BY DEF Coming, Ahead, Renaming, RootMoving, Moves
<1>7. Calm => ev.mask \notin Moves
    BY <1>5 DEF Calm, Settled
<1>8. \A r \in Root : loc[r] = <<Top, r>> => watch[r] # 0
    BY <1>2, <1>3 DEF RootsCovered
<1>9. ev.mask \notin Moves => Calm
    BY <1>3, <1>5, <1>6
<1>10. ev.mask \in Moves => \E new \in Seq(Labels) : Coming(new)
    BY <1>3, <1>7
<1>. QED  BY <1>2, <1>8, <1>9, <1>10

\* One event is done with and others may be added.
LEMMA PendStep ==
    ASSUME IInv, Processing, Consume(1), NEW t \in Seq(Events), queue' = queue \o t
    PROVE  Pend' = Tail(Pend) \o t /\ Tail(Pend) \in Seq(Events)
<1>1. buf' \in Seq(Events) /\ buf' \o queue = Tail(Pend) /\ queue \in Seq(Events)
    BY PendConsumed, PendFacts
<1>2. \A x \in Seq(Events) : x \o (queue \o t) = (x \o queue) \o t
    BY SMTT(30), <1>1, ConcatAssociative
<1>3. buf' \o queue \in Seq(Events)
    BY <1>1, ConcatProperties
<1>. QED  BY <1>1, <1>2, <1>3 DEF Pend

\* An overflow event ahead is not the one that was processed.
LEMMA OverflowStays ==
    ASSUME IInv, Processing, ev.mask # "Q_OVERFLOW", NEW t \in Seq(Events), Pend' = Tail(Pend) \o t, IInv', OverflowAhead
    PROVE  OverflowAhead'
<1>1. Pend # <<>> /\ Pend \in Seq(Events) /\ ev = Head(Pend)
    BY PendConsumed, PendFacts DEF First
<1>2. ToSet(Pend) = {ev} \cup ToSet(Tail(Pend)) /\ Tail(Pend) \in Seq(Events)
    BY <1>1, FirstAndRest
<1>3. Overflow \in ToSet(Pend) /\ Overflow # ev
    BY DyingIs DEF Overflow
<1>. DEFINE s == Tail(Pend)
<1>4. s \in Seq(Events) /\ Overflow \in ToSet(s) /\ Pend' = s \o t
    BY <1>2, <1>3
<1>. HIDE DEF s
<1>5. ToSet(s \o t) = ToSet(s) \cup ToSet(t)
    BY <1>4, ConcatElements
<1>6. Overflow \in ToSet(Pend')
    BY <1>4, <1>5
<1>. QED  BY <1>6, DyingNext

\* An IN_CREATE or IN_MOVED_TO is answered by a walk, an IN_DELETE_SELF frees a path.
LEMMA PlainComplete ==
    ASSUME IInv, IInv', Struct, Struct', Followed, Complete, EvIgnored \/ EvAppeared \/ EvDeleteSelf
    PROVE  Complete'
<1>. SUFFICES ASSUME shaken' = {}, pc' # "exited"
              PROVE  RootsCovered' /\ ListLive' /\ Calm'
    BY DEF Complete
<1>1. /\ Processing /\ Consume(1) /\ ev.mask \notin Moves /\ ev.mask # "Q_OVERFLOW"
      /\ UNCHANGED <<loc, moving, watch, queue, shaken>>
      /\ cache' = IF ev.mask = "DELETE_SELF" THEN cache \ findWatch(ev.wd) ELSE cache
    BY DEF EvIgnored, EvAppeared, EvDeleteSelf, Done, fs, kernel, Moves
<1>2. /\ ToDo = {} /\ Calm /\ shaken = {}
      /\ \A r \in Root : loc[r] = <<Top, r>> => watch[r] # 0
    BY <1>1, FirstTells
<1>3. /\ ev.mask \in {"CREATE", "MOVED_TO"} /\ ~pathnameInCache(Full) => ToDo' = {Visit(Full)}
      /\ ~(ev.mask \in {"CREATE", "MOVED_TO"} /\ ~pathnameInCache(Full)) => ToDo' = {}
    <2>1. ASSUME ev.mask \in {"CREATE", "MOVED_TO"}, ~pathnameInCache(Full) PROVE ToDo' = {Visit(Full)}
        <3>1. StartWalks(<<Full>>)
            BY <2>1 DEF EvIgnored, EvAppeared, EvDeleteSelf
        <3>. DEFINE p == Full
        <3>2. <<p>> \in Seq({p}) /\ ToSet(<<p>>) = {p} /\ StartWalks(<<p>>)
            BY <3>1 DEF ToSet
        <3>. HIDE DEF p
        <3>3. ToDo' = {Visit(x) : x \in ToSet(<<p>>)}
            BY <3>2, StartedToDo
        <3>. QED  BY <3>2, <3>3 DEF p
    <2>2. ASSUME ~(ev.mask \in {"CREATE", "MOVED_TO"} /\ ~pathnameInCache(Full)) PROVE ToDo' = {}
        <3>1. UNCHANGED walks
            BY <2>2 DEF EvIgnored, EvAppeared, EvDeleteSelf, Done
        <3>. QED  BY <1>2, <3>1 DEF ToDo
    <2>. QED  BY <2>1, <2>2
<1>4. RootsCovered'
    BY <1>1, <1>2 DEF RootsCovered
<1>5. ListLive'
    BY <1>3, VisitsAndLists DEF ListLive
<1>6. Settled'
    BY <1>1, <1>2, PlainSettling DEF Settling, Clean
<1>7. /\ Pend' = Tail(Pend) /\ Tail(Pend) \in Seq(Events) /\ Pend # <<>> /\ Pend \in Seq(Events) /\ ev = Head(Pend)
      /\ (OverflowAhead => OverflowAhead')
    <2>. DEFINE t == <<>>
    <2>1. t \in Seq(Events) /\ queue' = queue \o t
        BY <1>1, PendFacts, ConcatEmptySeq, EmptySeq
    <2>2. Pend' = Tail(Pend) \o t /\ Tail(Pend) \in Seq(Events)
        BY <1>1, <2>1, PendStep
    <2>3. Tail(Pend) \o t = Tail(Pend)
        BY <2>2, ConcatEmptySeq
    <2>4. OverflowAhead => OverflowAhead'
        BY <1>1, <2>1, <2>2, OverflowStays
    <2>. QED  BY <1>1, <2>2, <2>3, <2>4, PendConsumed, PendFacts DEF First
<1>8. PathOf' = PathOf
    BY <1>1, PathOfIsPaths
<1>9. ASSUME NEW d \in Frontier, ~OverflowAhead' PROVE Covered(d)'
    <2>. DEFINE up == loc[d][1]
                n == loc[d][2]
                ws == Holders(cache, PathOf[d])
                vs == Holders(cache', PathOf[d])
    <2>1. Covered(d) /\ d \in All /\ up \in All /\ watch[up] # 0
        BY <1>2 DEF Calm, Frontier
    <2>2. CASE MovingTo(d)
        BY <1>1, <2>2 DEF MovingTo, Covered
    <2>3. CASE Tells(d, {"CREATE", "MOVED_TO"}, ws)
        <3>1. vs \in SUBSET ws
            BY <1>1 DEF Holders
        <3>2. \A w \in vs : ~(ev.mask = "DELETE_SELF" /\ ev.wd = w)
            BY <1>1 DEF Holders, findWatch
        <3>3. Told(Pend, {"CREATE", "MOVED_TO"}, watch[up], n, ws)
            BY <2>3 DEF Tells
        <3>. HIDE DEF vs, ws, up, n
        <3>4. \/ ev.mask \in {"CREATE", "MOVED_TO"} /\ ev.wd = watch[up] /\ ev.name = n /\ ws = {}
              \/ Told(Tail(Pend), {"CREATE", "MOVED_TO"}, watch[up], n, vs)
            BY <1>7, <3>1, <3>2, <3>3, ToldFirst
        <3>5. CASE Told(Tail(Pend), {"CREATE", "MOVED_TO"}, watch[up], n, vs)
            BY <1>1, <1>7, <1>8, <3>5 DEF up, n, vs, Covered, Tells
        <3>6. CASE ev.mask \in {"CREATE", "MOVED_TO"} /\ ev.wd = watch[up] /\ ev.name = n /\ ws = {}
            <4>1. CachedPath(watch[up]) = PathOf[up]
                BY <1>2, <2>1, SettledPath DEF Calm
            <4>2. PathOf[d] = Append(PathOf[up], n)
                BY <2>1, PathFacts DEF Struct, Files, up, n
            <4>3. Full = PathOf[d]
                BY <3>6, <4>1, <4>2 DEF Full
            <4>4. ~pathnameInCache(Full)
                BY <3>6, <4>3 DEF pathnameInCache, ws, Holders
            <4>5. Visit(PathOf[d]) \in ToDo'
                BY <1>3, <3>6, <4>3, <4>4
            <4>. QED  BY <1>8, <4>5 DEF Covered
        <3>. QED  BY <3>4, <3>5, <3>6
    <2>. QED  BY <1>2, <1>7, <1>9, <2>1, <2>2, <2>3 DEF Covered
<1>10. Frontier' = Frontier
    BY <1>1 DEF Frontier
<1>11. Calm'
    BY <1>6, <1>9, <1>10 DEF Calm, Covered
<1>. QED  BY <1>4, <1>5, <1>11

\* A rebuild visits every root.
LEMMA RebuildComplete ==
    ASSUME IInv, Struct, Struct', EvRebuild
    PROVE  Complete'
<1>. DEFINE rp == roots
<1>1. reinitialize(rp) /\ roots' = rp
    BY DEF EvRebuild
<1>2. rp \in SUBSET roots
    OBVIOUS
<1>. HIDE DEF rp
<1>. QED  BY <1>1, <1>2, ReinitComplete

\* Both events of a rename are done with.
LEMMA PendTwo ==
    ASSUME IInv, Processing, Paired, Consume(2), queue' = queue
    PROVE  /\ Tail(Pend) \in Seq(Events) /\ Tail(Pend) # <<>> /\ Head(Tail(Pend)) = buf[2]
           /\ Pend' = Tail(Tail(Pend))
<1>. DEFINE b == Tail(buf)
            c == Tail(b)
<1>1. buf # <<>> /\ buf \in Seq(Events) /\ queue \in Seq(Events) /\ Len(buf) \in Nat /\ 2 <= Len(buf)
    BY HasEvent, PendFacts, PairFacts
<1>2. Tail(Pend) = b \o queue
    BY <1>1, FirstStays DEF Pend
<1>3. /\ b \in Seq(Events) /\ Len(b) = Len(buf) - 1
      /\ \A i \in 1..(Len(buf) - 1) : b[i] = buf[i + 1]
    BY <1>1, FirstAndRest
<1>. HIDE DEF b
<1>4. Len(b) # 0 /\ 1 \in 1..(Len(buf) - 1) /\ 1 + 1 = 2
    BY <1>1, <1>3
<1>5. b # <<>>
    BY <1>4, EmptySeq
<1>6. /\ c \in Seq(Events) /\ Len(c) = Len(b) - 1 /\ Head(b) = b[1]
      /\ \A i \in 1..(Len(b) - 1) : c[i] = b[i + 1]
    BY <1>3, <1>5, FirstAndRest
<1>7. b \o queue # <<>> /\ Head(b \o queue) = Head(b) /\ Tail(b \o queue) = c \o queue
    BY <1>1, <1>3, <1>5, FirstStays
<1>. HIDE DEF c
<1>8. b[1] = buf[2]
    BY <1>3, <1>4
<1>9. buf' = c
    <2>. DEFINE r == SubSeq(buf, 3, Len(buf))
    <2>1. /\ r \in Seq(Events) /\ Len(r) = (IF 3 <= Len(buf) THEN Len(buf) - 3 + 1 ELSE 0)
          /\ \A i \in 1..(Len(buf) - 3 + 1) : r[i] = buf[3 + i - 1]
        BY <1>1, PartElements
    <2>2. buf' = r
        BY DEF Consume
    <2>. HIDE DEF r
    <2>3. Len(r) = Len(c)
        BY <1>1, <1>3, <1>6, <2>1
    <2>4. ASSUME NEW i \in 1..Len(r) PROVE r[i] = c[i]
        <3>1. /\ i \in 1..(Len(buf) - 3 + 1) /\ i \in 1..(Len(b) - 1)
              /\ i + 1 \in 1..(Len(buf) - 1) /\ (i + 1) + 1 = 3 + i - 1
            BY <1>1, <1>3, <1>6, <2>1, <2>3, <2>4
        <3>. QED  BY <1>3, <1>6, <2>1, <3>1
    <2>5. r = c
        BY <1>6, <2>1, <2>3, <2>4, SeqEqual
    <2>. QED  BY <2>2, <2>5
<1>10. b \o queue \in Seq(Events)
    BY <1>1, <1>3, ConcatProperties
<1>11. Pend' = c \o queue
    BY <1>9 DEF Pend
<1>. QED  BY <1>2, <1>6, <1>7, <1>8, <1>10, <1>11

\* The entries get the new paths, and who was to be told of still is.
LEMMA RenamedComplete ==
    ASSUME IInv, IInv', Struct, Struct', Followed, Complete, EvRenamed
    PROVE  Complete'
<1>1. Processing /\ Known /\ ev.mask = "MOVED_FROM" /\ Paired /\ UNCHANGED <<loc, roots>>
    BY DEF EvRenamed, fs
<1>2. CASE findWatch(buf[2].wd) = {}
    <2>. DEFINE rp == roots
    <2>1. reinitialize(rp) /\ roots' = rp /\ rp \in SUBSET roots
        BY <1>2 DEF EvRenamed
    <2>. HIDE DEF rp
    <2>. QED  BY <2>1, ReinitComplete
<1>3. CASE findWatch(buf[2].wd) # {}
    <2>. SUFFICES ASSUME shaken' = {} PROVE RootsCovered' /\ ListLive' /\ Calm'
        BY DEF Complete
    <2>. DEFINE to == Append(CachedPath(buf[2].wd), buf[2].name)
    <2>1. /\ cache' = rewriteCachedPaths(Full, to) /\ Done(2)
          /\ UNCHANGED <<watch, nextWd, queue, rset, shaken>>
        BY <1>3 DEF EvRenamed, kernel
    <2>2. shaken = {} /\ Consume(2) /\ UNCHANGED <<queue, walks>>
        BY <2>1 DEF Done
    <2>3. /\ walks = <<>> /\ ToDo = {}
          /\ \A r \in Root : loc[r] = <<Top, r>> => watch[r] # 0
          /\ \E new \in Seq(Labels) : Coming(new)
        BY <1>1, <2>2, FirstTells DEF Moves
    <2>4. PICK new \in Seq(Labels) : Coming(new)
        BY <2>3
    <2>5. /\ Pend # <<>> /\ Pend \in Seq(Events) /\ ev = Head(Pend) /\ buf[2] \in Later
          /\ Tail(Pend) \in Seq(Events) /\ Tail(Pend) # <<>> /\ Head(Tail(Pend)) = buf[2]
          /\ Pend' = Tail(Tail(Pend))
        BY <1>1, <2>2, PendConsumed, PendFacts, PendTwo DEF First
    <2>6. buf[2].mask = "MOVED_TO" /\ buf[2].cookie = ev.cookie
        BY <1>1 DEF Paired
    <2>7. Renaming(new)
        BY <1>1, <2>4, <2>5 DEF Coming, Ahead, RootMoving, First
    <2>8. to = new
        <3>1. buf[2] \in Pending
            BY <2>5, LaterPending
        <3>. QED  BY <1>3, <2>5, <2>6, <2>7, <3>1 DEF Renaming, Arriving, First
    <2>9. Full = OldPath
        BY <1>1, <2>5 DEF Full, OldPath, First
    <2>10. \A f \in cache' : \E e \in cache : f[1] = e[1] /\ f[2] = Moved(e[2], OldPath, new)
        <3>. HIDE DEF to
        <3>. QED  BY <2>1, <2>8, <2>9, Rewritten
    <2>11. RootsCovered' /\ ListLive'
        BY <1>1, <2>1, <2>2, <2>3 DEF RootsCovered, ListLive, ToDo
    <2>12. Settled'
        <3>1. pc' # "exited"
            BY <1>1, <2>1, DoneStruct DEF Struct
        <3>2. Clean'
            BY DEF Clean
        <3>. QED  BY <3>1, <3>2, RenamedSettling DEF Settling
    <2>13. OverflowAhead => OverflowAhead'
        <3>. DEFINE s == Tail(Pend)
        <3>1. s \in Seq(Events) /\ s # <<>> /\ Head(s) = buf[2] /\ Pend' = Tail(s)
            BY <2>5
        <3>2. ToSet(Pend) = {ev} \cup ToSet(s)
            BY <2>5, FirstAndRest
        <3>. HIDE DEF s
        <3>3. ToSet(s) = {buf[2]} \cup ToSet(Pend')
            BY <3>1, FirstAndRest
        <3>4. Overflow # ev /\ Overflow # buf[2]
            BY <1>1, <2>6 DEF Overflow
        <3>. QED  BY <3>2, <3>3, <3>4, DyingIs, DyingNext
    <2>14. PathOf' = PathOf
        BY <1>1, PathOfIsPaths
    <2>15. ASSUME NEW d \in Frontier, ~OverflowAhead' PROVE Covered(d)'
        <3>. DEFINE wd == watch[loc[d][1]]
                    n == loc[d][2]
                    ws == HoldersAfter(cache, PathOf[d], OldPath, new)
                    vs == Holders(cache', PathOf[d])
                    s == Tail(Pend)
        <3>1. Told(Pend, {"CREATE"}, wd, n, ws)
            BY <2>4, <2>13, <2>15 DEF Coming, CoveredAfter, Tells
        <3>2. vs \in SUBSET ws
            BY <2>10 DEF Holders, HoldersAfter
        <3>3. s \in Seq(Events) /\ s # <<>> /\ Head(s) = buf[2] /\ Pend' = Tail(s)
            BY <2>5
        <3>. HIDE DEF wd, n, ws, vs
        <3>4. Told(s, {"CREATE"}, wd, n, vs)
            BY <1>1, <2>5, <3>1, <3>2, ToldFirst
        <3>. HIDE DEF s
        <3>5. Told(Tail(s), {"CREATE"}, wd, n, vs)
            BY <2>6, <3>3, <3>4, ToldFirst
        <3>6. Told(Pend', {"CREATE", "MOVED_TO"}, wd, n, vs)
            BY <3>3, <3>5 DEF Told
        <3>. QED  BY <1>1, <2>1, <2>14, <3>6 DEF Covered, Tells, wd, n, vs
    <2>16. Frontier' = Frontier
        BY <1>1, <2>1 DEF Frontier
    <2>. QED  BY <2>11, <2>12, <2>15, <2>16 DEF Calm, Covered
<1>. QED  BY <1>2, <1>3

\* What is zapped for the first event: where the entries are to be found after it.
Zapping(new) ==
    /\ IInv /\ Struct /\ Struct' /\ IInv' /\ Processing /\ new \in Seq(Labels) /\ Coming(new)
    /\ UNCHANGED <<loc, moving, walks>> /\ Zap(Subtree(OldPath)) /\ Done(1)

\* The watches that are gone are those at the new path and below, and only those.
LEMMA ZapPaths ==
    ASSUME NEW new, Zapping(new)
    PROVE  /\ PathOf' = PathOf
           /\ \A d \in All : watch'[d] = watch[d] \/ watch'[d] = 0
           /\ \A d \in All : watch[d] # 0 /\ watch'[d] = 0 => IsPrefix(new, PathOf[d])
           /\ \A d \in All : watch'[d] # 0 => ~IsPrefix(new, PathOf[d])
           /\ \A f \in cache' : /\ f \in cache /\ ~IsPrefix(new, f[2]) /\ f[2] \in Seq(Labels)
                                /\ Moved(f[2], OldPath, new) = f[2]
<1>1. /\ IInv /\ Struct /\ Processing /\ new \in Seq(Labels) /\ Awaiting(new) /\ Arrives(new)
      /\ UNCHANGED loc /\ Zap(Subtree(OldPath))
    BY DEF Zapping, Coming, Ahead, Renaming, RootMoving
<1>2. PathOf' = PathOf
    BY <1>1, PathOfIsPaths
<1>. DEFINE sub == Subtree(OldPath)
            wds == {e[1] : e \in sub}
<1>3. /\ cache' = cache \ sub
      /\ watch' = [d \in All |-> IF watch[d] \in wds THEN 0 ELSE watch[d]]
    BY <1>1 DEF Zap
<1>4. OldPath \in Seq(Labels)
    <2>1. First = ev /\ ev.name \in Name \cup {Nowhere} /\ findWatch(First.wd) # {}
        BY <1>1, PendConsumed DEF Events, Awaiting
    <2>2. CachedPath(First.wd) \in Below /\ Append(CachedPath(First.wd), First.name) \in Below
        BY <1>1, <2>1, CachedPathBelow DEF Struct
    <2>. QED  BY <2>2 DEF OldPath, Below
<1>5. \A e \in cache : e[2] \in Seq(Labels) /\ (e \in sub <=> IsPrefix(OldPath, e[2]))
    BY <1>1 DEF Struct, Entries, Below, Subtree
<1>6. \A e \in cache, d \in All : watch[d] = e[1] => PathOf[d] = Moved(e[2], OldPath, new)
    BY <1>1 DEF Awaiting
<1>. HIDE DEF sub
<1>7. \A d \in All : (watch[d] \in wds => watch'[d] = 0) /\ (watch[d] \notin wds => watch'[d] = watch[d])
    BY <1>3
<1>8. ASSUME NEW d \in All, watch[d] # 0, watch'[d] = 0 PROVE IsPrefix(new, PathOf[d])
    <2>1. PICK e \in sub : watch[d] = e[1]
        BY <1>7, <1>8
    <2>2. e \in cache
        BY DEF sub, Subtree
    <2>3. IsPrefix(new, Moved(e[2], OldPath, new))
        BY <1>1, <1>4, <1>5, <2>2, MovedBelow
    <2>. QED  BY <1>6, <2>1, <2>2, <2>3
<1>9. ASSUME NEW f \in cache' PROVE f \in cache /\ ~IsPrefix(new, f[2]) /\ f[2] \in Seq(Labels) /\ Moved(f[2], OldPath, new) = f[2]
    <2>1. f \in cache /\ ~IsPrefix(OldPath, f[2])
        BY <1>3, <1>5, <1>9
    <2>. QED  BY <1>1, <1>5, <2>1 DEF Arrives, Moved
<1>10. ASSUME NEW d \in All, watch'[d] # 0 PROVE ~IsPrefix(new, PathOf[d])
    <2>1. watch[d] = watch'[d] /\ watch[d] \notin wds
        BY <1>7, <1>10
    <2>2. PICK f \in cache : f[1] = watch[d]
        BY <1>1, <1>10, <2>1 DEF IInv, Books, WatchesAreCached, KernelWds
    <2>3. f \in cache'
        BY <1>3, <2>1, <2>2
    <2>. QED  BY <1>6, <1>9, <2>2, <2>3
<1>. QED  BY <1>2, <1>7, <1>8, <1>9, <1>10

\* A directory that is not below a zapped one, and nothing told of it is lost.
LEMMA ZapCovered ==
    ASSUME NEW new, Zapping(new), NEW d \in Frontier', ev.mask \in Moves, ~OverflowAhead,
           NEW t \in Seq(Events), Pend' = Tail(Pend) \o t
    PROVE  Covered(d)'
<1>1. /\ IInv /\ Struct /\ Processing /\ new \in Seq(Labels) /\ Coming(new) /\ UNCHANGED <<loc, moving>>
    BY DEF Zapping
<1>. DEFINE up == loc[d][1]
            n == loc[d][2]
            wd == watch[up]
            ws == HoldersAfter(cache, PathOf[d], OldPath, new)
            vs == Holders(cache', PathOf[d])
            s == Tail(Pend)
<1>2. d \in All /\ up \in All /\ watch'[d] = 0 /\ watch'[up] # 0 /\ watch'[up] = wd /\ wd # 0 /\ PathOf' = PathOf
    BY <1>1, ZapPaths DEF Frontier
<1>3. Pend # <<>> /\ Pend \in Seq(Events) /\ ev = Head(Pend) /\ s \in Seq(Events)
    BY <1>1, PendConsumed, PendFacts, FirstAndRest DEF First
<1>4. ev.mask \notin {"CREATE", "MOVED_TO", "DELETE_SELF"}
    BY DEF Moves
<1>5. ASSUME NEW masks, masks \subseteq {"CREATE", "MOVED_TO"}, NEW us, vs \in SUBSET us, Told(Pend, masks, wd, n, us)
      PROVE  Covered(d)'
    <2>. HIDE DEF wd, n, vs
    <2>1. Told(Tail(Pend), masks, wd, n, vs)
        BY <1>3, <1>4, <1>5, ToldFirst
    <2>2. Told(s, masks, wd, n, vs)
        BY <2>1
    <2>. HIDE DEF s
    <2>3. Told(s \o t, masks, wd, n, vs)
        BY <1>3, <2>2, ToldLonger
    <2>4. Told(Pend', masks, wd, n, vs)
        BY <2>3 DEF s
    <2>5. Told(Pend', {"CREATE", "MOVED_TO"}, wd, n, vs)
        BY <1>5, <2>4 DEF Told
    <2>. QED  BY <1>1, <1>2, <2>5 DEF Covered, Tells, wd, n, vs
<1>6. CASE watch[d] = 0
    <2>1. d \in Frontier
        BY <1>2, <1>6 DEF Frontier
    <2>2. Told(Pend, {"CREATE"}, wd, n, ws)
        BY <1>1, <2>1 DEF Coming, CoveredAfter, Tells
    <2>3. vs \in SUBSET ws
        BY ZapPaths DEF Holders, HoldersAfter
    <2>. QED  BY <1>5, <2>2, <2>3
<1>7. CASE watch[d] # 0
    <2>1. d \in Live
        BY <1>1, <1>2, <1>7 DEF Struct, WatchedLive
    <2>2. PathOf[d] = new
        <3>1. IsPrefix(new, PathOf[d]) /\ ~IsPrefix(new, PathOf[up])
            BY <1>2, <1>7, ZapPaths
        <3>2. PathOf[d] = Append(PathOf[up], n) /\ PathOf[up] \in Seq(Labels) /\ n \in Labels
            <4>1. n \in Labels
                BY <1>1, <1>2, PlacedFacts DEF Struct, Files, Tree, IsTree
            <4>. QED  BY <1>1, <1>2, <4>1, PathFacts DEF Struct, Files
        <3>. DEFINE q == PathOf[up]
        <3>3. q \in Seq(Labels) /\ n \in Labels /\ IsPrefix(new, Append(q, n)) /\ ~IsPrefix(new, q)
            BY <3>1, <3>2
        <3>. HIDE DEF q, n
        <3>4. new = Append(q, n)
            BY <1>1, <3>3, PrefixAppend
        <3>. QED  BY <3>2, <3>4 DEF q, n
    <2>3. Found(d)
        <3>1. Arrives(new)
            BY <1>1 DEF Coming, Ahead
        <3>. QED  BY <1>2, <1>7, <2>1, <2>2, <3>1 DEF Arrives
    <2>4. CASE MovingTo(d)
        BY <1>1, <2>4 DEF MovingTo, Covered
    <2>5. CASE Tells(d, {"MOVED_TO"}, {})
        <3>1. vs = {}
            <4>1. \A f \in cache' : f[2] # new
                BY <1>1, ZapPaths, PrefixItself
            <4>. QED  BY <2>2, <4>1 DEF Holders
        <3>2. Told(Pend, {"MOVED_TO"}, wd, n, {})
            BY <2>5 DEF Tells
        <3>. QED  BY <1>5, <3>1, <3>2
    <2>. QED  BY <2>3, <2>4, <2>5 DEF Found
<1>. QED  BY <1>6, <1>7

\* A root in place is not what moved.
LEMMA ZapRoots ==
    ASSUME NEW new, Zapping(new), NEW r \in Root, loc[r] = <<Top, r>>, watch[r] # 0
    PROVE  watch'[r] # 0
<1>1. /\ Struct /\ new \in Seq(Labels) /\ Len(new) >= 2 /\ (new[1] = Away \/ Len(new) > 2)
    BY DEF Zapping, Coming, Ahead, Arrives
<1>. SUFFICES ASSUME watch'[r] = 0 PROVE FALSE
    OBVIOUS
<1>2. r \in All /\ loc[r][1] \notin All
    BY GoneIsNowhere DEF All
<1>3. PathOf[r] = <<Top, r>> /\ PathOf[r] \in Seq(Labels) /\ Len(PathOf[r]) = 2 /\ PathOf[r][1] = Top
    BY <1>1, <1>2, PathFacts DEF Struct, Files
<1>4. IsPrefix(new, PathOf[r])
    BY <1>2, ZapPaths
<1>5. Len(new) \in Nat
    BY <1>1, LenProperties
<1>. DEFINE q == PathOf[r]
<1>6. q \in Seq(Labels) /\ Len(q) = 2 /\ q[1] = Top /\ IsPrefix(new, q)
    BY <1>3, <1>4
<1>. HIDE DEF q
<1>7. Len(new) <= Len(q) /\ (Len(new) >= 1 => q[1] = new[1])
    BY ZenonT(60), <1>1, <1>6, PrefixLength
<1>8. Len(new) = 2 /\ new[1] = Top
    BY <1>1, <1>5, <1>6, <1>7
<1>. QED  BY <1>1, <1>8, GoneIsNowhere

\* A rename taken for one that left.
LEMMA ZapComplete ==
    ASSUME NEW new, Zapping(new), Followed, Complete, shaken = {}
    PROVE  Complete'
<1>1. /\ IInv /\ IInv' /\ Struct /\ Processing /\ new \in Seq(Labels) /\ Coming(new)
      /\ UNCHANGED <<loc, moving, walks>> /\ Zap(Subtree(OldPath)) /\ Done(1)
    BY DEF Zapping
<1>2. /\ walks = <<>> /\ ToDo = {}
      /\ \A r \in Root : loc[r] = <<Top, r>> => watch[r] # 0
    BY <1>1, FirstTells
<1>3. Awaiting(new) /\ ev.mask \in Moves /\ ev.mask # "Q_OVERFLOW"
    BY <1>1, PendConsumed DEF Coming, Ahead, Renaming, RootMoving, Moves
<1>4. Settled'
    BY <1>1, <1>3, ZapSettled
<1>5. PICK t \in Seq(Events) : queue' = queue \o t
    <2>1. Subtree(OldPath) \in SUBSET cache
        BY DEF Subtree
    <2>. QED  BY <1>1, <2>1, ZapQueues
<1>6. Consume(1) /\ Pend' = Tail(Pend) \o t
    <2>1. Consume(1)
        BY <1>1 DEF Done
    <2>. QED  BY <1>1, <1>5, <2>1, PendStep
<1>7. OverflowAhead => OverflowAhead'
    BY <1>1, <1>3, <1>6, OverflowStays
<1>8. \A d \in Frontier' : Covered(d)'
    BY <1>3, <1>6, <1>7, ZapCovered DEF Covered
<1>9. RootsCovered'
    BY <1>1, <1>2, ZapRoots DEF RootsCovered
<1>10. ListLive'
    BY <1>1, <1>2 DEF ListLive, ToDo
<1>. QED  BY <1>4, <1>8, <1>9, <1>10 DEF Complete, Calm

\* Out of the trees, or with its second event late.
LEMMA MovedOutComplete ==
    ASSUME IInv, IInv', Struct, Struct', Followed, Complete, EvMovedOut
    PROVE  Complete'
<1>1. Processing /\ ev.mask = "MOVED_FROM" /\ UNCHANGED <<loc, moving, roots>>
    BY DEF EvMovedOut, fs
<1>2. CASE ~CanZap(Subtree(Full))
    <2>. DEFINE rp == roots
    <2>1. reinitialize(rp) /\ roots' = rp /\ rp \in SUBSET roots
        BY <1>2 DEF EvMovedOut
    <2>. HIDE DEF rp
    <2>. QED  BY <2>1, ReinitComplete
<1>3. CASE CanZap(Subtree(Full))
    <2>1. Zap(Subtree(Full)) /\ Done(1) /\ UNCHANGED <<walks, shaken>>
        BY <1>3 DEF EvMovedOut, Done
    <2>. SUFFICES ASSUME shaken = {} PROVE Complete'
        BY <2>1 DEF Complete
    <2>2. PICK new \in Seq(Labels) : Coming(new)
        BY <1>1, FirstTells DEF Moves
    <2>3. Full = OldPath
        BY <1>1, PendConsumed DEF Full, OldPath
    <2>4. Zapping(new)
        BY <1>1, <2>1, <2>2, <2>3 DEF Zapping
    <2>. QED  BY <2>4, ZapComplete
<1>. QED  BY <1>2, <1>3

\* A root's.
LEMMA MoveSelfComplete ==
    ASSUME IInv, IInv', Struct, Struct', Followed, Complete, EvMoveSelf
    PROVE  Complete'
<1>. DEFINE p == CachedPath(ev.wd)
<1>1. Processing /\ ev.mask = "MOVE_SELF" /\ UNCHANGED <<loc, moving>>
    BY DEF EvMoveSelf, fs
<1>2. \/ p \notin roots /\ UNCHANGED shaken
      \/ pc' = "exited"
      \/ Zap(Subtree(p)) /\ Done(1) /\ UNCHANGED <<walks, shaken>>
      \/ reinitialize(roots') /\ roots' = roots \ {p}
    BY DEF EvMoveSelf, Done
<1>3. CASE pc' = "exited"
    BY <1>3 DEF Complete
<1>4. CASE reinitialize(roots') /\ roots' = roots \ {p}
    <2>1. \A rp \in SUBSET roots : reinitialize(rp) /\ roots' = rp => Complete'
        BY ReinitComplete
    <2>2. roots' \in SUBSET roots
        BY <1>4
    <2>. QED  BY <1>4, <2>1, <2>2
<1>5. ASSUME shaken = {}
      PROVE  p = OldPath /\ p \in roots /\ \E new \in Seq(Labels) : Coming(new)
    <2>1. PICK new \in Seq(Labels) : Coming(new)
        BY <1>1, <1>5, FirstTells DEF Moves
    <2>2. ev = First
        BY <1>1, PendConsumed
    <2>3. RootMoving(new)
        BY <1>1, <2>1, <2>2 DEF Coming, Ahead, Renaming
    <2>4. p = OldPath
        BY <1>1, <2>2 DEF OldPath
    <2>. QED  BY <2>1, <2>3, <2>4 DEF RootMoving
<1>6. CASE p \notin roots /\ UNCHANGED shaken
    BY <1>5, <1>6 DEF Complete
<1>7. CASE Zap(Subtree(p)) /\ Done(1) /\ UNCHANGED <<walks, shaken>>
    <2>. SUFFICES ASSUME shaken = {} PROVE Complete'
        BY <1>7 DEF Complete
    <2>1. PICK new \in Seq(Labels) : Coming(new)
        BY <1>5
    <2>2. Zapping(new)
        BY <1>1, <1>5, <1>7, <2>1 DEF Zapping
    <2>. QED  BY <2>2, ZapComplete
<1>. QED  BY <1>2, <1>3, <1>4, <1>6, <1>7

\* What the walks have to do but for the step at the top.
Waiting == ToSet(Tail(Head(walks))) \cup UNION {ToSet(s) : s \in ToSet(Tail(walks))}

\* A step of a walk takes the top and puts others in its place.
LEMMA WalkToDo ==
    ASSUME WalksOK, pc = "walk", NEW more \in Seq(Item), NextWalk(more \o Tail(Head(walks)))
    PROVE  ToDo = {top} \cup Waiting /\ ToDo' = ToSet(more) \cup Waiting
<1>. DEFINE h == Head(walks)
            others == Tail(walks)
            stack == more \o Tail(h)
            R == UNION {ToSet(s) : s \in ToSet(others)}
<1>1. walks \in Seq(Seq(Item) \ {<<>>}) /\ walks # <<>>
    BY DEF WalksOK
<1>2. /\ h \in Seq(Item) /\ h # <<>> /\ Tail(h) \in Seq(Item) /\ others \in Seq(Seq(Item) \ {<<>>})
      /\ top = Head(h)
    BY WalkTop
<1>3. ToSet(walks) = {h} \cup ToSet(others)
    BY <1>1, FirstAndRest
<1>4. ToSet(h) = {top} \cup ToSet(Tail(h))
    BY <1>2, FirstAndRest
<1>5. walks' = IF stack = <<>> THEN others ELSE <<stack>> \o others
    BY DEF NextWalk
<1>6. stack \in Seq(Item) /\ ToSet(stack) = ToSet(more) \cup ToSet(Tail(h))
    <2>. DEFINE q == Tail(h)
    <2>1. q \in Seq(Item)
        BY <1>2
    <2>. HIDE DEF q
    <2>2. more \o q \in Seq(Item) /\ ToSet(more \o q) = ToSet(more) \cup ToSet(q)
        BY <2>1, ConcatProperties, ConcatElements
    <2>. QED  BY <2>2 DEF q
<1>. HIDE DEF others, stack
<1>7. ToDo' = ToSet(stack) \cup R
    <2>1. CASE stack = <<>>
        <3>1. ToSet(stack) = {}
            BY <2>1 DEF ToSet
        <3>2. walks' = others
            BY <1>5, <2>1
        <3>. QED  BY <3>1, <3>2 DEF ToDo
    <2>2. CASE stack # <<>>
        <3>. DEFINE X == Seq(Item) \ {<<>>}
                    one == <<stack>>
        <3>1. others \in Seq(X) /\ stack \in X
            BY <1>2, <1>6, <2>2
        <3>. HIDE DEF X
        <3>2. one \in Seq(X) /\ ToSet(one) = {stack}
            BY <3>1 DEF ToSet
        <3>. HIDE DEF one
        <3>3. ToSet(one \o others) = {stack} \cup ToSet(others)
            BY <3>1, <3>2, ConcatElements
        <3>4. walks' = one \o others
            BY <1>5, <2>2 DEF one
        <3>5. ToSet(walks') = {stack} \cup ToSet(others)
            BY <3>3, <3>4
        <3>. QED  BY <3>5 DEF ToDo
    <2>. QED  BY <2>1, <2>2
<1>8. ToDo = ToSet(h) \cup R
    BY <1>3 DEF ToDo
<1>9. Waiting = ToSet(Tail(h)) \cup R
    BY DEF Waiting, others
<1>. QED  BY <1>4, <1>6, <1>7, <1>8, <1>9

\* During a walk no rename is coming.
LEMMA WalkCalm ==
    ASSUME Complete, shaken = {}, pc = "walk"
    PROVE  RootsCovered /\ ListLive /\ Calm
BY DEF Complete, Coming, Ahead, Renaming, RootMoving, Awaiting

\* The top of the walks.
LEMMA TopIs ==
    ASSUME WalksOK, pc = "walk"
    PROVE  /\ top.path \in Below /\ Tail(Head(walks)) \in Seq(Item)
           /\ top.stage = "visit" => top = Visit(top.path)
           /\ top.stage = "list" => top = List(top.path)
BY WalkTop DEF Item, Visit, List

\* Who stands where the top of the walks points.
LEMMA TopPath ==
    ASSUME Struct, pc = "walk", NEW d \in Live, Visit(PathOf[d]) = top \/ List(PathOf[d]) = top
    PROVE  At(top.path) = {d} /\ PathOf[d] = top.path
<1>1. top.path = PathOf[d]
    BY VisitsAndLists
<1>2. d \in At(top.path)
    BY <1>1 DEF At
<1>. QED  BY <1>1, <1>2, AtFacts DEF Struct, Files

\* Nothing is at the top's path any more.
LEMMA NobodyComplete ==
    ASSUME IInv, IInv', Struct, Struct', Followed, Complete, WalkVisit, At(top.path) = {}
    PROVE  Complete'
<1>. SUFFICES ASSUME shaken' = {}, pc' # "exited" PROVE RootsCovered' /\ ListLive' /\ Calm'
    BY DEF Complete
<1>1. /\ pc = "walk" /\ NextWalk(Tail(Head(walks)))
      /\ UNCHANGED <<loc, moving, watch, cache, buf, queue, shaken>>
    BY DEF WalkVisit, fs
<1>2. RootsCovered /\ ListLive /\ Calm
    BY <1>1, WalkCalm
<1>3. ToDo = {top} \cup Waiting /\ ToDo' = Waiting
    <2>. DEFINE none == <<>>
                rest == Tail(Head(walks))
    <2>1. rest \in Seq(Item) /\ none \in Seq(Item) /\ ToSet(none) = {}
        BY <1>1, TopIs, EmptySeq DEF Struct, ToSet
    <2>2. NextWalk(rest)
        BY <1>1
    <2>. HIDE DEF rest
    <2>3. none \o rest = rest
        BY <2>1, ConcatEmptySeq
    <2>. HIDE DEF none
    <2>4. NextWalk(none \o Tail(Head(walks)))
        BY <2>2, <2>3 DEF rest
    <2>5. ToDo = {top} \cup Waiting /\ ToDo' = ToSet(none) \cup Waiting
        BY <1>1, <2>1, <2>4, WalkToDo DEF Struct
    <2>. QED  BY <2>1, <2>5
<1>4. PathOf' = PathOf /\ Live' = Live /\ Pend' = Pend
    BY <1>1, PathOfIsPaths DEF Live, Pend
<1>5. \A d \in Live : Visit(PathOf[d]) # top /\ List(PathOf[d]) # top
    BY <1>1, TopPath
<1>6. RootsCovered'
    <2>1. ASSUME NEW r \in Root, loc[r] = <<Top, r>> PROVE Visit(<<Top, r>>) # top
        <3>1. r \in All /\ loc[r][1] \notin All /\ r \in Live
            BY <2>1, GoneIsNowhere, LiveIs DEF All, Exists, Gone
        <3>2. PathOf[r] = <<Top, r>>
            BY <2>1, <3>1, PathFacts DEF Struct, Files
        <3>3. Visit(PathOf[r]) # top
            BY <1>5, <3>1
        <3>. QED  BY <3>2, <3>3
    <2>. QED  BY <1>1, <1>2, <1>3, <2>1 DEF RootsCovered
<1>7. ListLive'
    BY <1>2, <1>3, <1>4 DEF ListLive, At
<1>8. Settled'
    <2>1. Clean'
        BY DEF Clean
    <2>. QED  BY <2>1, WalkVisitSettling DEF Settling
<1>9. ASSUME NEW d \in Frontier' PROVE Covered(d)'
    <2>1. d \in Frontier /\ d \in All /\ loc[d][1] \in All
        BY <1>1, <1>9 DEF Frontier
    <2>2. d \in Live /\ loc[d][1] \in Live
        BY <2>1, ParentsLive DEF Struct, Files
    <2>3. Covered(d)
        BY <1>2, <2>1 DEF Calm
    <2>4. Visit(PathOf[d]) \in ToDo => Visit(PathOf[d]) \in ToDo'
        BY <1>3, <1>5, <2>2
    <2>5. List(PathOf[loc[d][1]]) \in ToDo => List(PathOf[loc[d][1]]) \in ToDo'
        BY <1>3, <1>5, <2>2
    <2>6. OverflowAhead' = OverflowAhead
        BY <1>1 DEF OverflowAhead
    <2>7. MovingTo(d) => MovingTo(d)'
        BY <1>1 DEF MovingTo
    <2>. QED  BY <1>1, <1>4, <2>3, <2>4, <2>5, <2>6, <2>7 DEF Covered, Tells
<1>. QED  BY <1>6, <1>7, <1>8, <1>9 DEF Calm

\* The top's directory is watched, and to be listed.
LEMMA SomebodyComplete ==
    ASSUME IInv, IInv', Struct, Struct', Followed, Complete, WalkVisit, At(top.path) # {}
    PROVE  Complete'
<1>. SUFFICES ASSUME shaken' = {}, pc' # "exited" PROVE RootsCovered' /\ ListLive' /\ Calm'
    BY DEF Complete
<1>. DEFINE a == CHOOSE x \in At(top.path) : TRUE
            wd == IF watch[a] # 0 THEN watch[a] ELSE nextWd
            path == top.path
            item == [top EXCEPT !.stage = "list"]
            rest == Tail(Head(walks))
            more == <<List(path)>>
<1>1. /\ pc = "walk" /\ top.stage = "visit" /\ NextWalk(<<item>> \o rest)
      /\ UNCHANGED <<loc, moving, buf, queue, shaken>>
      /\ watch' = [watch EXCEPT ![a] = wd]
      /\ cache' \subseteq cache \cup {<<wd, path>>}
    BY DEF WalkVisit, fs
<1>2. RootsCovered /\ ListLive /\ Calm
    BY <1>1, WalkCalm
<1>3. a \in At(path)
    OBVIOUS
<1>4. top = Visit(path) /\ path \in Below /\ rest \in Seq(Item)
    BY <1>1, TopIs DEF Struct
<1>5. item = List(path)
    <2>. HIDE DEF path
    <2>1. item = [Visit(path) EXCEPT !.stage = "list"]
        BY <1>4
    <2>. QED  BY <2>1 DEF Visit, List
<1>. HIDE DEF a, wd, path
<1>6. a \in Live /\ a \in All /\ PathOf[a] = path /\ At(path) = {a}
    BY <1>3, AtFacts, LiveIs DEF Struct, Files
<1>7. /\ watch'[a] # 0 /\ \A c \in All : c # a => watch'[c] = watch[c]
    <2>1. wd # 0
        BY DEF wd, IInv, Books, Descriptors
    <2>. QED  BY <1>1, <1>6, <2>1 DEF IInv, Books, Descriptors
<1>8. ToDo = {top} \cup Waiting /\ ToDo' = {List(path)} \cup Waiting
    <2>1. more \in Seq(Item) /\ ToSet(more) = {List(path)}
        <3>1. List(path) \in Item
            BY <1>4 DEF List, Item
        <3>. QED  BY <3>1 DEF ToSet
    <2>2. NextWalk(more \o rest)
        BY <1>1, <1>5
    <2>. HIDE DEF more
    <2>3. ToDo = {top} \cup Waiting /\ ToDo' = ToSet(more) \cup Waiting
        BY <1>1, <2>1, <2>2, WalkToDo DEF Struct
    <2>. QED  BY <2>1, <2>3
<1>9. PathOf' = PathOf /\ Live' = Live /\ Pend' = Pend
    BY <1>1, PathOfIsPaths DEF Live, Pend
<1>10. /\ \A c \in Live : c # a => PathOf[c] # path
       /\ \A c \in Live : c # a => Visit(PathOf[c]) # top
    <2>1. \A c \in Live : c # a => PathOf[c] # path
        BY <1>6, PathFacts, LiveIs DEF Struct, Files
    <2>. QED  BY <1>4, <2>1, VisitsAndLists
<1>11. RootsCovered'
    <2>1. ASSUME NEW r \in Root, loc[r] = <<Top, r>>, watch'[r] = 0 PROVE Visit(<<Top, r>>) \in ToDo'
        <3>1. r \in All /\ loc[r][1] \notin All /\ r \in Live
            BY <2>1, GoneIsNowhere, LiveIs DEF All, Exists, Gone
        <3>2. PathOf[r] = <<Top, r>>
            BY <2>1, <3>1, PathFacts DEF Struct, Files
        <3>3. r # a /\ watch[r] = 0
            BY <1>7, <2>1, <3>1
        <3>4. Visit(PathOf[r]) # top
            BY <1>10, <3>1, <3>3
        <3>5. Visit(PathOf[r]) \in ToDo
            BY <1>2, <2>1, <3>2, <3>3 DEF RootsCovered
        <3>. QED  BY <1>8, <3>2, <3>4, <3>5
    <2>. QED  BY <1>1, <2>1 DEF RootsCovered
<1>12. ListLive'
    <2>1. ASSUME NEW p \in Below, List(p) \in ToDo' PROVE At(p) # {}
        <3>1. List(p) \in ToDo \/ List(p) = List(path)
            BY <1>8, <2>1
        <3>2. List(p) = List(path) => p = path
            BY VisitsAndLists
        <3>. QED  BY <1>2, <1>3, <3>1, <3>2 DEF ListLive
    <2>. QED  BY <1>9, <2>1 DEF ListLive, At
<1>13. Settled'
    <2>1. Clean'
        BY DEF Clean
    <2>. QED  BY <2>1, WalkVisitSettling DEF Settling
<1>14. ASSUME NEW d \in Frontier' PROVE Covered(d)'
    <2>. DEFINE up == loc[d][1]
                n == loc[d][2]
                ws == Holders(cache, PathOf[d])
                vs == Holders(cache', PathOf[d])
    <2>1. d \in All /\ watch'[d] = 0 /\ up \in All /\ watch'[up] # 0
        BY <1>1, <1>14 DEF Frontier
    <2>2. d # a /\ watch[d] = 0 /\ d \in Live /\ up \in Live
        BY <1>7, <2>1, ParentsLive DEF Struct, Files
    <2>3. CASE up = a
        <3>1. List(PathOf[up]) \in ToDo'
            BY <1>6, <1>8, <2>3
        <3>. QED  BY <1>1, <1>9, <3>1 DEF Covered
    <2>4. CASE up # a
        <3>1. watch[up] = watch'[up]
            BY <1>7, <2>1, <2>4
        <3>2. d \in Frontier
            BY <2>1, <2>2, <3>1 DEF Frontier
        <3>3. Covered(d)
            BY <1>2, <3>2 DEF Calm
        <3>4. Visit(PathOf[d]) \in ToDo => Visit(PathOf[d]) \in ToDo'
            BY <1>8, <1>10, <2>2
        <3>5. List(PathOf[up]) \in ToDo => List(PathOf[up]) \in ToDo'
            BY <1>4, <1>8, VisitsAndLists
        <3>6. OverflowAhead' = OverflowAhead
            BY <1>1 DEF OverflowAhead
        <3>7. MovingTo(d) => MovingTo(d)'
            BY <1>1 DEF MovingTo
        <3>8. vs \in SUBSET ws
            <4>1. PathOf[d] # path
                BY <1>10, <2>2
            <4>2. \A f \in cache' : f[2] = PathOf[d] => f \in cache
                BY <1>1, <4>1
            <4>. QED  BY <4>2 DEF Holders
        <3>9. ASSUME Tells(d, {"CREATE", "MOVED_TO"}, ws) PROVE Tells(d, {"CREATE", "MOVED_TO"}, Holders(cache, PathOf[d]))'
            <4>1. Told(Pend, {"CREATE", "MOVED_TO"}, watch[up], n, vs)
                <5>1. Told(Pend, {"CREATE", "MOVED_TO"}, watch[up], n, ws)
                    BY <3>9 DEF Tells
                <5>. HIDE DEF ws, vs, up, n
                <5>. QED  BY <3>8, <5>1 DEF Told
            <4>. QED  BY <1>1, <1>9, <3>1, <4>1 DEF Tells
        <3>. QED  BY <1>1, <1>9, <3>3, <3>4, <3>5, <3>6, <3>7, <3>9 DEF Covered
    <2>. QED  BY <2>3, <2>4
<1>. QED  BY <1>11, <1>12, <1>13, <1>14 DEF Calm

\* What is listed is to be visited.
LEMMA WalkListComplete ==
    ASSUME IInv, IInv', Struct, Struct', Followed, Complete, WalkList
    PROVE  Complete'
<1>. SUFFICES ASSUME shaken' = {}, pc' # "exited" PROVE RootsCovered' /\ ListLive' /\ Calm'
    BY DEF Complete
<1>1. /\ pc = "walk" /\ top.stage = "list"
      /\ UNCHANGED <<loc, moving, watch, cache, buf, queue, shaken>>
    BY DEF WalkList, fs, kernel
<1>2. RootsCovered /\ ListLive /\ Calm
    BY <1>1, WalkCalm
<1>. DEFINE path == top.path
            rest == Tail(Head(walks))
<1>3. top = List(path) /\ path \in Below /\ rest \in Seq(Item)
    BY <1>1, TopIs DEF Struct
<1>4. top \in ToDo
    <2>1. walks \in Seq(Seq(Item) \ {<<>>}) /\ walks # <<>>
        BY <1>1 DEF Struct, WalksOK
    <2>2. Head(walks) \in ToSet(walks)
        BY <2>1, FirstAndRest
    <2>3. Head(walks) \in Seq(Item) /\ Head(walks) # <<>>
        BY <1>1, WalkTop DEF Struct
    <2>. DEFINE h == Head(walks)
    <2>4. h \in Seq(Item) /\ h # <<>> /\ h \in ToSet(walks) /\ top = Head(h)
        BY <2>2, <2>3 DEF top
    <2>. HIDE DEF h
    <2>5. ToSet(h) = {Head(h)} \cup ToSet(Tail(h))
        BY <2>4, FirstAndRest
    <2>6. Head(h) \in ToDo
        BY <2>4, <2>5 DEF ToDo
    <2>. QED  BY <2>4, <2>6
<1>5. At(path) # {}
    BY <1>2, <1>3, <1>4 DEF ListLive
<1>. DEFINE a == CHOOSE x \in At(path) : TRUE
            S == {[stage |-> "visit", path |-> Append(path, loc[c][2])] : c \in Children(a)}
<1>6. PICK order \in SetToSeqs(S) : NextWalk(order \o rest)
    BY <1>5 DEF WalkList
<1>7. a \in At(path)
    BY <1>5
<1>. HIDE DEF a
<1>8. a \in Live /\ PathOf[a] = path /\ At(path) = {a}
    BY <1>7, AtFacts DEF Struct, Files
<1>9. S \subseteq Item /\ IsFiniteSet(S)
    BY <1>3, <1>7, ListedBelow DEF Struct, Files
<1>10. /\ \A c \in Children(a) : Visit(Append(path, loc[c][2])) \in S
       /\ \A x \in S : \E p : x = Visit(p)
    BY DEF Visit
<1>. HIDE DEF S
<1>11. order \in Seq(Item) /\ ToSet(order) = S
    <2>1. order \in Seq(S) /\ ToSet(order) = S
        BY <1>6, <1>9, ListCovers
    <2>. QED  BY <1>9, <2>1
<1>12. ToDo = {top} \cup Waiting /\ ToDo' = S \cup Waiting
    BY <1>1, <1>6, <1>11, WalkToDo DEF Struct
<1>. HIDE DEF path
<1>13. PathOf' = PathOf /\ Live' = Live /\ Pend' = Pend
    BY <1>1, PathOfIsPaths DEF Live, Pend
<1>14. \A p : Visit(p) \in ToDo => Visit(p) \in ToDo'
    BY <1>3, <1>12, VisitsAndLists
<1>15. RootsCovered'
    BY <1>1, <1>2, <1>14 DEF RootsCovered
<1>16. ListLive'
    <2>1. ASSUME NEW p \in Below, List(p) \in ToDo' PROVE At(p) # {}
        <3>1. List(p) \notin S
            BY <1>10, VisitsAndLists
        <3>. QED  BY <1>2, <1>12, <2>1, <3>1 DEF ListLive
    <2>. QED  BY <1>13, <2>1 DEF ListLive, At
<1>17. Settled'
    <2>1. Clean'
        BY DEF Clean
    <2>. QED  BY <2>1, WalkListSettling DEF Settling
<1>18. ASSUME NEW d \in Frontier' PROVE Covered(d)'
    <2>. DEFINE up == loc[d][1]
                n == loc[d][2]
    <2>1. d \in Frontier /\ d \in All /\ up \in All
        BY <1>1, <1>18 DEF Frontier
    <2>2. up \in Live
        BY <2>1, ParentsLive DEF Struct, Files
    <2>3. Covered(d)
        BY <1>2, <2>1 DEF Calm
    <2>4. List(PathOf[up]) \in ToDo => List(PathOf[up]) \in ToDo' \/ Visit(PathOf[d]) \in ToDo'
        <3>1. CASE List(PathOf[up]) = top
            <4>1. PathOf[up] = path
                BY <1>3, <3>1, VisitsAndLists
            <4>2. up = a
                BY <1>8, <2>2, <4>1 DEF At
            <4>3. d \in Children(a)
                BY <2>1, <4>2 DEF Children
            <4>4. PathOf[d] = Append(path, n)
                BY <2>1, <4>1, PathFacts DEF Struct, Files
            <4>5. Visit(Append(path, n)) \in S
                BY <1>10, <4>3
            <4>. QED  BY <1>12, <4>4, <4>5
        <3>2. CASE List(PathOf[up]) # top
            BY <1>12, <3>2
        <3>. QED  BY <3>1, <3>2
    <2>5. OverflowAhead' = OverflowAhead
        BY <1>1 DEF OverflowAhead
    <2>6. MovingTo(d) => MovingTo(d)'
        BY <1>1 DEF MovingTo
    <2>. QED  BY <1>1, <1>13, <1>14, <2>3, <2>4, <2>5, <2>6 DEF Covered, Tells
<1>. QED  BY <1>15, <1>16, <1>17, <1>18 DEF Calm

\* Nothing is told when there is nothing to read.
LEMMA NothingTold ==
    ASSUME Pend = <<>>, NEW masks, NEW wd, NEW n, NEW ws
    PROVE  ~Told(Pend, masks, wd, n, ws)
<1>1. Len(Pend) = 0 /\ 1..0 = {}
    BY EmptySeq
<1>. QED  BY <1>1 DEF Told

\* What "a" takes out of the cache it walks again.
LEMMA AddComplete ==
    ASSUME IInv, IInv', Struct, Struct', Followed, Complete, Command, NEW p \in Below, CmdAdd(p)
    PROVE  Complete'
<1>. SUFFICES ASSUME shaken' = {}, pc' # "exited" PROVE RootsCovered' /\ ListLive' /\ Calm'
    BY DEF Complete
<1>1. /\ pc = "command" /\ buf = <<>> /\ UNCHANGED <<loc, moving, buf>>
      /\ shaken' = shaken \cup {x \in {"command"} : queue # <<>>} /\ StartWalks(<<p>>)
    BY DEF Command, Struct, CommandReads, CmdAdd
<1>2. shaken = {} /\ queue = <<>>
    BY <1>1
<1>3. Pend = <<>> /\ Pending = {} /\ walks = <<>> /\ ToDo = {}
    <2>1. Pend = <<>> /\ Pending = {}
        BY <1>1, <1>2 DEF Pend, Pending, ToSet
    <2>2. walks = <<>>
        BY <1>1 DEF Struct, WalksOK
    <2>. QED  BY <2>1, <2>2, NothingToDo
<1>4. Dying = {} /\ ~OverflowAhead
    BY <1>3 DEF Dying, OverflowAhead, Pending
<1>5. RootsCovered /\ Calm
    BY <1>1, <1>2, <1>3 DEF Complete, Coming, Ahead, Renaming, RootMoving, Awaiting
<1>6. Agree
    BY <1>5 DEF Calm, Settled
<1>. DEFINE sub == Subtree(p)
            wds == {e[1] : e \in sub}
<1>7. /\ cache' = cache \ sub
      /\ watch' = [d \in All |-> IF watch[d] \in wds THEN 0 ELSE watch[d]]
    <2>1. CanZap(sub)
        <3>1. \A e \in cache : e[1] \in KernelWds
            BY <1>4 DEF IInv, Books, WatchesAreCached
        <3>. QED  BY <3>1 DEF CanZap, Subtree
    <2>2. Zap(sub)
        BY <2>1 DEF CmdAdd, CmdZap
    <2>. QED  BY <2>2 DEF Zap
<1>8. \A e \in cache : e[2] \in Seq(Labels) /\ (e \in sub <=> IsPrefix(p, e[2]))
    BY DEF Struct, Entries, Below, Subtree
<1>9. sub \subseteq cache
    BY DEF Subtree
<1>. HIDE DEF sub
<1>10. \A d \in All : (watch[d] \in wds => watch'[d] = 0) /\ (watch[d] \notin wds => watch'[d] = watch[d])
    BY <1>7
<1>11. ASSUME NEW d \in All, watch[d] # 0, watch'[d] = 0 PROVE IsPrefix(p, PathOf[d])
    <2>1. PICK e \in sub : watch[d] = e[1]
        BY <1>10, <1>11
    <2>. QED  BY <1>6, <1>8, <1>9, <2>1 DEF Agree
<1>12. ASSUME NEW d \in All, watch'[d] # 0 PROVE watch'[d] = watch[d] /\ ~IsPrefix(p, PathOf[d])
    <2>1. watch[d] = watch'[d] /\ watch[d] \notin wds
        BY <1>10, <1>12
    <2>2. PICK f \in cache : f[1] = watch[d]
        BY <1>12, <2>1 DEF IInv, Books, WatchesAreCached, KernelWds
    <2>3. f \notin sub
        BY <2>1, <2>2
    <2>. QED  BY <1>6, <1>8, <2>1, <2>2, <2>3 DEF Agree
<1>13. PathOf' = PathOf /\ p \in Seq(Labels) /\ Len(p) \in Nat /\ Len(p) >= 2
    BY <1>1, PathOfIsPaths, LenProperties DEF Below
<1>14. ToDo' = {Visit(p)}
    <2>. DEFINE ps == <<p>>
    <2>1. ps \in Seq({p}) /\ ToSet(ps) = {p} /\ StartWalks(ps)
        BY <1>1 DEF ToSet
    <2>. HIDE DEF ps
    <2>2. ToDo' = {Visit(x) : x \in ToSet(ps)}
        BY <2>1, StartedToDo
    <2>. QED  BY <2>1, <2>2
<1>15. RootsCovered'
    <2>1. ASSUME NEW r \in Root, loc[r] = <<Top, r>>, watch'[r] = 0 PROVE p = <<Top, r>>
        <3>1. r \in All /\ loc[r][1] \notin All
            BY <2>1, GoneIsNowhere DEF All
        <3>. DEFINE q == PathOf[r]
        <3>2. q = <<Top, r>> /\ q \in Seq(Labels) /\ Len(q) = 2
            BY <2>1, <3>1, PathFacts DEF Struct, Files
        <3>3. watch[r] # 0
            BY <1>3, <1>5, <2>1 DEF RootsCovered
        <3>4. IsPrefix(p, q)
            BY <1>11, <2>1, <3>1, <3>3
        <3>. HIDE DEF q
        <3>5. Len(p) <= Len(q) /\ (Len(p) = Len(q) => p = q)
            BY <1>13, <3>2, <3>4, PrefixLength
        <3>6. p = q
            BY <1>13, <3>2, <3>5
        <3>. QED  BY <3>2, <3>6
    <2>. QED  BY <1>1, <1>14, <2>1 DEF RootsCovered
<1>16. ListLive'
    BY <1>14, VisitsAndLists DEF ListLive
<1>17. Settled'
    <2>1. Clean'
        BY DEF Clean
    <2>. QED  BY <2>1, CommandSettling DEF Settling
<1>18. ASSUME NEW d \in Frontier' PROVE Covered(d)'
    <2>. DEFINE up == loc[d][1]
                n == loc[d][2]
    <2>1. d \in All /\ watch'[d] = 0 /\ up \in All /\ watch'[up] # 0
        BY <1>1, <1>18 DEF Frontier
    <2>2. watch[up] # 0 /\ ~IsPrefix(p, PathOf[up])
        BY <1>12, <2>1
    <2>3. CASE watch[d] = 0
        <3>1. d \in Frontier
            BY <2>1, <2>2, <2>3 DEF Frontier
        <3>2. Covered(d)
            BY <1>5, <3>1 DEF Calm
        <3>3. MovingTo(d)
            BY <1>3, <1>4, <3>2, NothingTold DEF Covered, Tells
        <3>4. MovingTo(d)'
            BY <1>1, <3>3 DEF MovingTo
        <3>. QED  BY <3>4 DEF Covered
    <2>4. CASE watch[d] # 0
        <3>1. IsPrefix(p, PathOf[d])
            BY <1>11, <2>1, <2>4
        <3>2. PathOf[d] = Append(PathOf[up], n) /\ PathOf[up] \in Seq(Labels) /\ n \in Labels
            <4>1. n \in Labels
                BY <2>1, PlacedFacts DEF Struct, Files, Tree, IsTree
            <4>. QED  BY <2>1, <4>1, PathFacts DEF Struct, Files
        <3>. DEFINE q == PathOf[up]
        <3>3. q \in Seq(Labels) /\ n \in Labels /\ IsPrefix(p, Append(q, n)) /\ ~IsPrefix(p, q)
            BY <2>2, <3>1, <3>2
        <3>. HIDE DEF q, n
        <3>4. p = Append(q, n)
            BY <1>13, <3>3, PrefixAppend
        <3>5. Visit(PathOf[d]) \in ToDo'
            BY <1>14, <3>2, <3>4 DEF q, n
        <3>. QED  BY <1>13, <3>5 DEF Covered
    <2>. QED  BY <2>3, <2>4
<1>. QED  BY <1>15, <1>16, <1>17, <1>18 DEF Calm

\* Every command.
LEMMA CommandComplete ==
    ASSUME IInv, IInv', Struct, Struct', Followed, Complete, Command
    PROVE  Complete'
<1>1. CASE CmdRebuild
    <2>. DEFINE rp == roots
    <2>1. reinitialize(rp) /\ roots' = rp /\ rp \in SUBSET roots
        BY <1>1 DEF CmdRebuild
    <2>. HIDE DEF rp
    <2>. QED  BY <2>1, ReinitComplete
<1>2. CASE CmdQuit
    BY <1>2 DEF CmdQuit, Complete
<1>3. ASSUME NEW p, CmdCut(p) PROVE Complete'
    BY <1>3 DEF CmdCut, Complete
<1>4. ASSUME NEW p \in {e[2] : e \in cache} \cup {PathOf[d] : d \in Monitored}, CmdAdd(p) PROVE Complete'
    BY <1>4, CommandPaths, AddComplete
<1>. QED  BY <1>1, <1>2, <1>3, <1>4 DEF Command

\* At the start every root is to be visited.
LEMMA InitComplete ==
    ASSUME Init
    PROVE  Complete
<1>. DEFINE R == {<<Top, d>> : d \in Root}
            paths == SetToSeq(R)
<1>1. /\ watch = [d \in All |-> 0] /\ cache = {} /\ buf = <<>> /\ queue = <<>> /\ roots = R
      /\ walks = [k \in 1..Cardinality(Root) |-> <<Visit(paths[k])>>]
    BY DEF Init, Visit
<1>2. IsFiniteSet(R)
    <2>1. RootsOK
        BY InitStruct DEF Struct
    <2>. QED  BY <1>1, <2>1, RootsBelow
<1>3. Cardinality(R) = Cardinality(Root)
    BY RootsCounted
<1>. HIDE DEF R
<1>4. paths \in Seq(R) /\ ToSet(paths) = R /\ Len(paths) = Cardinality(R)
    BY <1>2, ListCovers
<1>. HIDE DEF paths
<1>5. walks = [k \in DOMAIN paths |-> <<Visit(paths[k])>>]
    <2>1. DOMAIN paths = 1..Len(paths)
        BY <1>4, LenProperties
    <2>. QED  BY <1>1, <1>3, <1>4, <2>1
<1>6. ToDo = {Visit(p) : p \in R}
    <2>1. UNION {ToSet(s) : s \in ToSet(walks)} = {Visit(p) : p \in ToSet(paths)}
        BY <1>4, <1>5, VisitsStarted
    <2>. QED  BY <1>4, <2>1 DEF ToDo
<1>7. RootsCovered
    BY <1>6 DEF RootsCovered, R
<1>8. ListLive
    BY <1>6, VisitsAndLists DEF ListLive
<1>9. Frontier = {}
    BY <1>1 DEF Frontier
<1>10. Settled
    <2>1. Pending = {}
        BY <1>1 DEF Pending, ToSet
    <2>. QED  BY <1>1, <2>1 DEF Settled, Agree
<1>. QED  BY <1>7, <1>8, <1>9, <1>10 DEF Complete, Calm

\* Every step keeps Complete.
LEMMA CompleteInductive ==
    ASSUME IInv, IInv', Struct, Struct', Followed, Complete, [Next]_vars
    PROVE  Complete'
<1>1. CASE Environment
    BY <1>1, MkdirComplete, RmdirComplete, RenameFromComplete, RenameToComplete, MoveRootComplete DEF Environment
<1>2. CASE Select \/ Read \/ ReadAgain \/ UNCHANGED vars
    BY <1>2, ReadingComplete
<1>3. CASE ProcessEvent
    BY <1>3, ReadingComplete, RebuildComplete, PlainComplete, RenamedComplete, MovedOutComplete, MoveSelfComplete
    DEF ProcessEvent
<1>4. CASE Walk
    BY <1>4, NobodyComplete, SomebodyComplete, WalkListComplete DEF Walk
<1>5. CASE Command
    BY <1>5, CommandComplete
<1>. QED  BY <1>1, <1>2, <1>3, <1>4, <1>5 DEF Next, Program

\* Quiet and unshaken, the cache has every directory of the trees and no other.
LEMMA NothingIsMissed ==
    ASSUME IInv, Struct, Followed, Complete
    PROVE  NothingMissed
<1>. SUFFICES ASSUME Quiet, shaken = {}
              PROVE  {e[2] : e \in cache} = {PathOf[d] : d \in Monitored}
    BY DEF NothingMissed
<1>1. /\ Settled /\ Frontier = {} /\ \A r \in Root : loc[r] = <<Top, r>> => watch[r] # 0
      /\ Dying = {} /\ ~OverflowAhead
    BY QuietComplete
<1>2. \A e \in cache : e[1] \in KernelWds
    BY <1>1 DEF IInv, Books, WatchesAreCached
<1>3. Tree /\ loc \in Placed /\ \A r \in Root : r \in All
    BY DEF Struct, Files, Tree, IsTree, All
<1>4. ASSUME NEW e \in cache PROVE \E d \in Monitored : e[2] = PathOf[d]
    <2>1. PICK d \in All : watch[d] = e[1] /\ watch[d] # 0
        BY <1>2 DEF KernelWds
    <2>2. d \in Live /\ PathOf[d] = e[2] /\ e[2][1] = Top
        BY <1>1, <2>1 DEF Settled, Agree, Struct, WatchedLive, Entries, Below
    <2>3. PathOf[d][2] \in Root /\ loc[PathOf[d][2]] = <<Top, PathOf[d][2]>>
        BY <1>3, <2>2, PathFacts DEF Shape
    <2>4. <<Top, PathOf[d][2]>> \in roots
        BY <2>3 DEF Struct, RootsOK
    <2>. QED  BY <2>2, <2>4 DEF Monitored
<1>. DEFINE T == {d \in All : d \in Live /\ PathOf[d][1] = Top => watch[d] # 0}
<1>5. ASSUME NEW d \in All, loc[d][1] \in All => loc[d][1] \in T PROVE d \in T
    <2>. SUFFICES ASSUME d \in Live, PathOf[d][1] = Top PROVE watch[d] # 0
        OBVIOUS
    <2>1. CASE loc[d][1] \in All
        <3>. DEFINE up == loc[d][1]
        <3>1. up \in Live /\ PathOf[up] \in Seq(Labels) /\ Len(PathOf[up]) >= 2 /\ Len(PathOf[up]) \in Nat
              /\ PathOf[d] = Append(PathOf[up], loc[d][2]) /\ loc[d][2] \in Labels
            <4>1. loc[d][2] \in Labels
                BY <1>3, PlacedFacts
            <4>. QED  BY <1>3, <2>1, <4>1, ParentsLive, PathFacts
        <3>2. PathOf[up][1] = Top
            <4>. DEFINE q == PathOf[up]
                        n == loc[d][2]
            <4>1. q \in Seq(Labels) /\ n \in Labels /\ Len(q) >= 1 /\ Append(q, n)[1] = Top
                BY <3>1
            <4>. HIDE DEF q, n
            <4>2. q[1] = Top
                BY <4>1, AppendFacts
            <4>. QED  BY <4>2 DEF q
        <3>3. watch[up] # 0
            BY <1>5, <2>1, <3>1, <3>2
        <3>. QED  BY <1>1, <2>1, <3>3 DEF Frontier
    <2>2. CASE loc[d][1] \notin All
        <3>1. PathOf[d] = loc[d]
            BY <1>3, <2>2, PathFacts
        <3>2. d \in Root
            BY <1>3, <3>1 DEF Tree, IsTree, All
        <3>3. loc[d] = <<Top, d>>
            BY <1>3, <3>1, <3>2, GoneIsNowhere DEF Tree, IsTree
        <3>. QED  BY <1>1, <3>2, <3>3
    <2>. QED  BY <2>1, <2>2
<1>6. All \subseteq T
    <2>. HIDE DEF T
    <2>. QED  BY <1>3, <1>5, DownTheTree DEF Tree
<1>7. ASSUME NEW d \in Monitored PROVE \E e \in cache : e[2] = PathOf[d]
    <2>1. d \in All /\ d \in Live /\ PathOf[d][1] = Top
        BY LiveIs DEF Monitored
    <2>2. watch[d] # 0
        BY <1>6, <2>1
    <2>3. PICK e \in cache : e[1] = watch[d]
        BY <2>1, <2>2 DEF IInv, Books, WatchesAreCached, KernelWds
    <2>. QED  BY <1>1, <2>1, <2>3 DEF Settled, Agree
<1>. QED  BY <1>4, <1>7

\* With everything read, no rename made while the program was behind and no
\* directory gone under a walk, the paths of the cache are exactly those of the
\* directories below the monitored roots: a mkdir() or rename() that races with a walk is
\* found by the walk or by its event, and by both only once (inotify_dtree.c:805-829).
THEOREM NothingForgotten == Spec => []NothingMissed
<1>1. Init => IInv /\ Struct /\ Followed /\ Complete
    BY InitInv, InitStruct, InitFollowed, InitComplete
<1>2. IInv /\ Struct /\ Followed /\ Complete /\ [Next]_vars => (IInv /\ Struct /\ Followed /\ Complete)'
    BY Inductive, StructInductive, FollowedInductive, CompleteInductive
<1>3. IInv /\ Struct /\ Followed /\ Complete => NothingMissed
    BY NothingIsMissed
<1>. QED  BY <1>1, <1>2, <1>3, PTL DEF Spec
=============================================================================
