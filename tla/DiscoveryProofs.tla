--------------------------- MODULE DiscoveryProofs ---------------------------
(***************************************************************************)
(* Whatever was remembered, kept or watched in earlier runs, a run that    *)
(* nothing disturbs finds what there is to find (FindsAll), for every      *)
(* tree, every history of changes and every interleaving of them with the  *)
(* runs of every process.                                                  *)
(*                                                                         *)
(* The argument has three invariants.                                      *)
(*                                                                         *)
(* Sound: a stamp of the past names what it named.  A stored listing is    *)
(* the directory's own under the rules that are stored above it, whenever  *)
(* the stamps a walk compares are those that are there; so is each listing *)
(* a run remembers, under the rules the walk went on by, however the tree  *)
(* changes between the steps of a visit.  The save keeps that, as long as  *)
(* it leaves nothing behind.                                               *)
(*                                                                         *)
(* Watchful: what the watch takes for clean, or spares the comparison, is  *)
(* watched and is as it was seen, or a report of it is on its way; what is *)
(* listed before it is watched is looked at once more.                     *)
(*                                                                         *)
(* Undisturbed: in a run without a change the walk is where it has to go,  *)
(* by the rules as they are, has found what the directories it is done     *)
(* with hold, and passes none by; each listing it replays is right, by     *)
(* Sound when the stamps were looked at and by Watchful when they were     *)
(* not.  StagedTrue says the same of what is remembered of the index       *)
(* against HEAD.                                                           *)
(***************************************************************************)
EXTENDS Discovery, SequenceTheorems, TLAPS

\* A path that may exist is a sequence of names.
LEMMA PathIsSeq == ASSUME NEW p \in Paths PROVE p \in Seq(Names) /\ Len(p) \in Nat
  BY PathsAssumption, LenProperties

\* Watch.is_under, name by name.
LEMMA UnderByName ==
  ASSUME NEW p \in Paths, NEW d \in Paths
  PROVE  is_under(p, d) <=> Len(d) <= Len(p) /\ \A i \in 1..Len(d) : d[i] = p[i]
<1>1. p \in Seq(Names) /\ d \in Seq(Names) /\ Len(p) \in Nat /\ Len(d) \in Nat
  BY PathIsSeq
<1>2. SubSeq(d, 1, Len(d)) = d
  BY <1>1, SubSeqFull
<1>3. CASE Len(d) <= Len(p)
  <2>1. \A i \in 1..Len(d) : p[i] \in Names
    BY <1>1, <1>3, ElementOfSeq
  <2>2. /\ SubSeq(p, 1, Len(d)) \in Seq(Names)
        /\ Len(SubSeq(p, 1, Len(d))) = Len(d)
        /\ \A i \in 1..Len(d) : SubSeq(p, 1, Len(d))[i] = p[i]
    <3> DEFINE m == 1  n == Len(d)
    <3>1. \A i \in m..n : p[i] \in Names
      BY <2>1
    <3>2. m \in Int /\ n \in Int
      BY <1>1
    <3> HIDE DEF m, n
    <3>3. /\ SubSeq(p, m, n) \in Seq(Names)
          /\ Len(SubSeq(p, m, n)) = IF m <= n THEN n - m + 1 ELSE 0
          /\ \A i \in 1..n - m + 1 : SubSeq(p, m, n)[i] = p[m + i - 1]
      BY <3>1, <3>2, SubSeqProperties
    <3>4. m = 1 /\ n = Len(d)
      BY DEF m, n
    <3> QED
      BY <3>3, <3>4, <1>1
  <2>3. SubSeq(p, 1, Len(d)) = d <=> \A i \in 1..Len(d) : d[i] = p[i]
    <3>1. ASSUME \A i \in 1..Len(d) : d[i] = p[i]
          PROVE  SubSeq(p, 1, Len(d)) = d
      <4>1. PICK s \in Seq(Names) : s = SubSeq(p, 1, Len(d))
        BY <2>2
      <4>2. Len(s) = Len(d) /\ \A i \in 1..Len(s) : s[i] = d[i]
        BY <4>1, <2>2, <3>1
      <4> QED
        BY <4>1, <4>2, <1>1, SeqEqual
    <3> QED
      BY <3>1, <2>2
  <2> QED
    BY <1>2, <2>3, <1>3 DEF is_under, IsPrefix
<1>4. CASE ~(Len(d) <= Len(p))
  BY <1>4 DEF is_under, IsPrefix
<1> QED
  BY <1>3, <1>4

\* A path lies under itself, and what is under it under what is above it.
LEMMA UnderOrder ==
  /\ \A p \in Paths : is_under(p, p)
  /\ \A p, q, r \in Paths : is_under(p, q) /\ is_under(q, r) => is_under(p, r)
<1>1. ASSUME NEW p \in Paths PROVE is_under(p, p)
  BY PathIsSeq, UnderByName
<1>2. ASSUME NEW p \in Paths, NEW q \in Paths, NEW r \in Paths, is_under(p, q), is_under(q, r)
      PROVE  is_under(p, r)
  <2>1. Len(p) \in Nat /\ Len(q) \in Nat /\ Len(r) \in Nat
    BY PathIsSeq
  <2>2. Len(q) <= Len(p) /\ \A i \in 1..Len(q) : q[i] = p[i]
    BY <1>2, UnderByName
  <2>3. Len(r) <= Len(q) /\ \A i \in 1..Len(r) : r[i] = q[i]
    BY <1>2, UnderByName
  <2> QED
    BY <2>1, <2>2, <2>3, UnderByName
<1> QED
  BY <1>1, <1>2

\* What lies above a path lies in a line.
LEMMA UnderLine ==
  ASSUME NEW p \in Paths, NEW d \in Paths, NEW e \in Paths, is_under(p, d), is_under(p, e)
  PROVE  is_under(d, e) \/ is_under(e, d)
<1>1. Len(p) \in Nat /\ Len(d) \in Nat /\ Len(e) \in Nat
  BY PathIsSeq
<1>2. Len(d) <= Len(p) /\ \A i \in 1..Len(d) : d[i] = p[i]
  BY UnderByName
<1>3. Len(e) <= Len(p) /\ \A i \in 1..Len(e) : e[i] = p[i]
  BY UnderByName
<1>4. CASE Len(e) <= Len(d)
  BY <1>1, <1>2, <1>3, <1>4, UnderByName
<1>5. CASE Len(d) <= Len(e)
  BY <1>1, <1>2, <1>3, <1>5, UnderByName
<1> QED
  BY <1>1, <1>4, <1>5

\* Two paths of one length, one under the other, are one path.
LEMMA UnderEqual ==
  ASSUME NEW p \in Paths, NEW q \in Paths, is_under(p, q), Len(p) <= Len(q)
  PROVE  p = q
<1>1. p \in Seq(Names) /\ q \in Seq(Names) /\ Len(p) \in Nat /\ Len(q) \in Nat
  BY PathIsSeq
<1>2. Len(q) <= Len(p) /\ \A i \in 1..Len(q) : q[i] = p[i]
  BY UnderByName
<1>3. Len(p) = Len(q) /\ \A i \in 1..Len(p) : p[i] = q[i]
  BY <1>1, <1>2
<1> QED
  BY <1>1, <1>3, SeqEqual

\* The parent of a path, name by name.
LEMMA ParentByName ==
  ASSUME NEW p \in Paths, p # Root
  PROVE  /\ Parent(p) \in Dirs /\ Parent(p) \in Paths /\ Len(p) >= 1
         /\ Len(Parent(p)) = Len(p) - 1 /\ \A i \in 1..(Len(p) - 1) : Parent(p)[i] = p[i]
<1>1. p \in Seq(Names) /\ Len(p) \in Nat
  BY PathIsSeq
<1>2. Len(p) >= 1
  BY <1>1, EmptySeq DEF Root
<1>3. Parent(p) \in Dirs
  BY <1>1, <1>2, PathsAssumption DEF Parent, Front
<1>4. Parent(p) \in Paths
  BY <1>3, PathsAssumption
<1>5. /\ Len(SubSeq(p, 1, Len(p) - 1)) = Len(p) - 1
      /\ \A i \in 1..(Len(p) - 1) : SubSeq(p, 1, Len(p) - 1)[i] = p[i]
  <2> DEFINE m == 1  n == Len(p) - 1
  <2>1. \A i \in m..n : p[i] \in Names
    BY <1>1, ElementOfSeq
  <2>2. m \in Int /\ n \in Int
    BY <1>1
  <2> HIDE DEF m, n
  <2>3. /\ Len(SubSeq(p, m, n)) = IF m <= n THEN n - m + 1 ELSE 0
        /\ \A i \in 1..n - m + 1 : SubSeq(p, m, n)[i] = p[m + i - 1]
    BY <2>1, <2>2, SubSeqProperties
  <2>4. m = 1 /\ n = Len(p) - 1
    BY DEF m, n
  <2> QED
    BY <2>3, <2>4, <1>1, <1>2
<1> QED
  BY <1>2, <1>3, <1>4, <1>5 DEF Parent, Front

\* What lies above a path: its parent, and what lies above that.
LEMMA UnderParent ==
  ASSUME NEW p \in Paths, p # Root, NEW d \in Paths
  PROVE  is_under(p, d) <=> p = d \/ is_under(Parent(p), d)
<1>1. Len(p) \in Nat /\ Len(d) \in Nat
  BY PathIsSeq
<1>2. ASSUME is_under(p, d), p # d PROVE is_under(Parent(p), d)
  <2>1. ~(Len(p) <= Len(d))
    BY <1>2, UnderEqual
  <2> QED
    BY <1>1, <1>2, <2>1, UnderByName, ParentByName
<1>3. ASSUME is_under(Parent(p), d) PROVE is_under(p, d)
  BY <1>1, <1>3, UnderByName, ParentByName
<1> QED
  BY <1>2, <1>3, UnderOrder

\* Nothing is under its own child.
LEMMA ParentAbove ==
  ASSUME NEW p \in Paths, p # Root
  PROVE  /\ Parent(p) \in Dirs /\ Parent(p) \in Paths /\ Parent(p) # p
         /\ is_under(p, Parent(p)) /\ ~is_under(Parent(p), p)
<1>1. Len(p) \in Nat
  BY PathIsSeq
<1>2. Parent(p) # p
  BY <1>1, ParentByName
<1>3. ~is_under(Parent(p), p)
  BY <1>1, ParentByName, UnderByName
<1> QED
  BY <1>2, <1>3, ParentByName, UnderParent, UnderOrder

\* The directories above a path.
LEMMA AncestorsOf ==
  ASSUME NEW p \in Paths
  PROVE  /\ ancestors(p) \subseteq Dirs /\ p \notin ancestors(p)
         /\ p # Root => ancestors(p) = ancestors(Parent(p)) \cup {Parent(p)}
         /\ p = Root => ancestors(p) = {}
         /\ is_under(p, Root)
         /\ \A d \in ancestors(p) : ancestors(d) \subseteq ancestors(p)
<1>1. ASSUME p # Root PROVE ancestors(p) = ancestors(Parent(p)) \cup {Parent(p)}
  <2>1. \A d \in Dirs : d \in Paths
    BY PathsAssumption
  <2>2. \A d \in Dirs : is_under(p, d) <=> p = d \/ is_under(Parent(p), d)
    BY <1>1, <2>1, UnderParent
  <2>3. Parent(p) \in Dirs /\ Parent(p) # p /\ ~is_under(Parent(p), p) /\ is_under(Parent(p), Parent(p))
    BY <1>1, ParentAbove, UnderOrder
  <2> QED
    BY <2>2, <2>3 DEF ancestors
<1>2. Root \in Paths /\ Len(Root) = 0
  BY PathsAssumption, EmptySeq DEF Root
<1>3. ASSUME p = Root PROVE ancestors(p) = {}
  <2>1. ASSUME NEW d \in Dirs, is_under(Root, d) PROVE d = Root
    <3>1. d \in Paths /\ Len(d) \in Nat
      BY PathsAssumption, PathIsSeq
    <3>2. Len(d) <= Len(Root)
      BY <2>1, <3>1, <1>2, UnderByName
    <3>3. is_under(Root, d) /\ Len(Root) <= Len(d)
      BY <2>1, <3>1, <1>2
    <3> QED
      BY <3>1, <3>3, <1>2, UnderEqual
  <2> QED
    BY <1>3, <2>1 DEF ancestors
<1>4. is_under(p, Root)
  BY <1>2, PathIsSeq, UnderByName
<1>5. ASSUME NEW d \in ancestors(p), NEW e \in ancestors(d) PROVE e \in ancestors(p)
  <2>1. d \in Paths /\ e \in Paths /\ d \in Dirs /\ e \in Dirs
    BY PathsAssumption DEF ancestors
  <2>2. is_under(p, d) /\ is_under(d, e) /\ d # p /\ e # d
    BY DEF ancestors
  <2>3. is_under(p, e)
    BY <2>1, <2>2, UnderOrder
  <2>4. e # p
    <3>1. ASSUME e = p PROVE FALSE
      <4>1. Len(d) \in Nat /\ Len(p) \in Nat
        BY <2>1, PathIsSeq
      <4>2. Len(d) <= Len(p)
        BY <2>1, <2>2, UnderByName
      <4>3. is_under(d, p)
        BY <3>1, <2>2
      <4>4. Len(p) <= Len(d)
        BY <2>1, <4>3, UnderByName
      <4> QED
        BY <2>1, <2>2, <4>4, UnderEqual
    <3> QED
      BY <3>1
  <2> QED
    BY <2>1, <2>3, <2>4 DEF ancestors
<1>6. ancestors(p) \subseteq Dirs /\ p \notin ancestors(p)
  BY DEF ancestors
<1> QED
  BY <1>1, <1>3, <1>4, <1>5, <1>6

\* The way down from a directory to what is under it begins with a child.
LEMMA WayDown ==
  ASSUME NEW p \in Paths, NEW d \in ancestors(p)
  PROVE  \E c \in Paths : c # Root /\ Parent(c) = d /\ (c = p \/ c \in ancestors(p))
<1>1. d \in Dirs /\ d \in Paths /\ d # p /\ is_under(p, d)
  BY PathsAssumption DEF ancestors
<1>2. p \in Seq(Names) /\ d \in Seq(Names) /\ Len(p) \in Nat /\ Len(d) \in Nat
  BY <1>1, PathIsSeq
<1>3. Len(d) < Len(p)
  BY <1>1, <1>2, UnderEqual
<1> DEFINE c == SubSeq(p, 1, Len(d) + 1)
<1>4. c = p \/ c \in Dirs
  <2>1. CASE Len(d) + 1 = Len(p)
    BY <2>1, <1>2, SubSeqFull
  <2>2. CASE Len(d) + 1 # Len(p)
    <3>1. Len(d) + 1 \in 0..(Len(p) - 1)
      BY <2>2, <1>2, <1>3
    <3> QED
      BY <3>1, PathsAssumption
  <2> QED
    BY <2>1, <2>2
<1>5. c \in Paths
  BY <1>4, PathsAssumption
<1>6. Len(c) = Len(d) + 1 /\ \A i \in 1..(Len(d) + 1) : c[i] = p[i]
  <2> DEFINE m == 1  n == Len(d) + 1
  <2>1. \A i \in m..n : p[i] \in Names
    BY <1>2, <1>3, ElementOfSeq
  <2>2. m \in Int /\ n \in Int
    BY <1>2
  <2> HIDE DEF m, n
  <2>3. /\ Len(SubSeq(p, m, n)) = IF m <= n THEN n - m + 1 ELSE 0
        /\ \A i \in 1..n - m + 1 : SubSeq(p, m, n)[i] = p[m + i - 1]
    BY <2>1, <2>2, SubSeqProperties
  <2>4. m = 1 /\ n = Len(d) + 1
    BY DEF m, n
  <2> QED
    BY <2>3, <2>4, <1>2, <1>3
<1> HIDE DEF c
<1>7. Len(c) # 0
  BY <1>2, <1>6
<1>8. c # Root
  BY <1>7, EmptySeq DEF Root
<1>9. is_under(c, d) /\ is_under(p, c)
  BY <1>1, <1>2, <1>3, <1>5, <1>6, UnderByName
<1>10. Parent(c) = d
  <2>1. Parent(c) \in Paths /\ Len(Parent(c)) = Len(d)
    BY <1>2, <1>5, <1>6, <1>8, ParentByName
  <2>2. c # d
    BY <1>2, <1>6
  <2>3. is_under(Parent(c), d)
    BY <1>1, <1>5, <1>8, <1>9, <2>2, UnderParent
  <2> QED
    BY <1>1, <1>2, <2>1, <2>3, UnderEqual
<1> QED
  BY <1>4, <1>5, <1>8, <1>9, <1>10 DEF ancestors

\* The files of a directory that rule it.
LEMMA InDirectory ==
  ASSUME NEW d \in Dirs
  PROVE  /\ rules_of(d) # Root /\ Parent(rules_of(d)) = d /\ rules_of(d) # git(d)
         /\ git(d) # Root /\ Parent(git(d)) = d
<1>1. d \in Seq(Names)
  BY PathsAssumption
<1>2. ASSUME NEW n \in Names
      PROVE  /\ Append(d, n) # << >> /\ Front(Append(d, n)) = d
             /\ Append(d, n)[Len(d) + 1] = n
  <2>1. PICK s \in Seq(Names) : s = Append(d, n)
    BY <1>1, AppendProperties
  <2>2. /\ s # << >> /\ Len(s) = Len(d) + 1 /\ Len(d) \in Nat
        /\ \A i \in 1..Len(d) : s[i] = d[i]
        /\ s[Len(d) + 1] = n
    BY <1>1, <2>1, AppendProperties, LenProperties
  <2>3. SubSeq(s, 1, Len(s) - 1) = d
    <3> DEFINE a == 1  b == Len(s) - 1
    <3>1. \A i \in a..b : s[i] \in Names
      BY <2>2, ElementOfSeq
    <3>2. a \in Int /\ b \in Int
      BY <2>2
    <3> HIDE DEF a, b
    <3>3. /\ SubSeq(s, a, b) \in Seq(Names)
          /\ Len(SubSeq(s, a, b)) = IF a <= b THEN b - a + 1 ELSE 0
          /\ \A i \in 1..b - a + 1 : SubSeq(s, a, b)[i] = s[a + i - 1]
      BY <3>1, <3>2, SubSeqProperties
    <3>4. a = 1 /\ b = Len(d)
      BY <2>2 DEF a, b
    <3>5. PICK t \in Seq(Names) : t = SubSeq(s, a, b)
      BY <3>3
    <3>6. Len(t) = Len(d) /\ \A i \in 1..Len(t) : t[i] = d[i]
      BY <2>2, <3>3, <3>4, <3>5
    <3>7. t = d
      BY <1>1, <3>6, SeqEqual
    <3> QED
      BY <3>4, <3>5, <3>7, <2>2
  <2> QED
    BY <2>1, <2>2, <2>3 DEF Front
<1> ".gitignore" \in Names /\ ".git" \in Names
  BY DEF Names
<1>3. /\ Append(d, ".gitignore") # << >> /\ Front(Append(d, ".gitignore")) = d
      /\ Append(d, ".gitignore")[Len(d) + 1] = ".gitignore"
  BY <1>2
<1>4. /\ Append(d, ".git") # << >> /\ Front(Append(d, ".git")) = d
      /\ Append(d, ".git")[Len(d) + 1] = ".git"
  BY <1>2
<1>5. Append(d, ".gitignore") # Append(d, ".git")
  BY <1>3, <1>4
<1> QED
  BY <1>3, <1>4, <1>5 DEF rules_of, git, Parent, Root

\* Nothing lies under a file.
LEMMA UnderFile ==
  ASSUME NEW p \in Files, NEW q \in Paths, is_under(q, p)
  PROVE  q = p
<1>1. p \in Paths /\ p \notin Dirs
  BY DEF Files
<1>2. q \in Seq(Names) /\ p \in Seq(Names) /\ Len(p) \in Nat /\ Len(q) \in Nat
  BY <1>1, PathIsSeq
<1>3. CASE Len(p) < Len(q)
  <2>1. SubSeq(q, 1, Len(p)) \in Dirs
    BY <1>2, <1>3, PathsAssumption
  <2>2. SubSeq(q, 1, Len(p)) = p
    BY <1>2, SubSeqFull DEF is_under, IsPrefix
  <2> QED
    BY <1>1, <2>1, <2>2
<1>4. CASE ~(Len(p) < Len(q))
  BY <1>1, <1>2, <1>4, UnderEqual
<1> QED
  BY <1>3, <1>4

-----------------------------------------------------------------------------
(* The world *)

WorldTypes ==
    /\ now \in 0..MaxClock /\ events \in Nat
    /\ DOMAIN tree = Paths /\ \A p \in Paths : tree[p] = None \/ tree[p] \in Nodes(p)
    /\ exclude \in [ino : {0}, mtime : Nat, ctime : Nat, data : Texts]
    /\ exclude.ctime = exclude.mtime
    /\ index.time \in Nat /\ index.time <= Coarse(now)

\* Every inode in use or in the index was handed out.
Inodes ==
    /\ \A p \in Paths : tree[p] # None => tree[p].ino <= events
    /\ \A p \in Tracked(index) : /\ index.entries[p].stamp \in Stamps
                                 /\ index.entries[p].stamp.ino <= events

\* What is there lies in directories that are there.
Rooted ==
    /\ Present(Root)
    /\ \A p \in Paths : Present(p) => \A d \in ancestors(p) : Present(d)

\* The index tells a source file by a stamp older than itself.
Racy == \A p \in Tracked(index) \cap Sources :
            /\ Present(p) /\ StampOf(tree[p]) = index.entries[p].stamp
            /\ index.entries[p].stamp.mtime < index.time
            => tree[p].data = index.entries[p].data

\* A repository that is kept is the one on disk, or an older one.
KeptIsOld ==
    kept # None => /\ kept.stamp \in Nat /\ kept.stamp < settled_before(now)
                   /\ kept.stamp = index.time => kept.index = index

\* A stamp that can no more be given to anything that is written now.
Past(s) == s \in Stamps /\ s.ino <= events /\ is_settled(s, settled_before(now))
Kids(d) == {p \in Children(d) : Present(p)}

-----------------------------------------------------------------------------

\* The time of a moment (TimesAssumption), and of what is settled.
LEMMA Time ==
  ASSUME now \in 0..MaxClock
  PROVE  /\ now \in Nat /\ Coarse(now) \in Nat /\ settled_before(now) \in Nat
         /\ settled_before(now) <= Coarse(now)
  BY TimesAssumption DEF settled_before

\* A node is its stamp and its data.
LEMMA NodeIs ==
  ASSUME NEW p \in Paths, NEW node \in Nodes(p)
  PROVE  /\ node # None /\ StampOf(node) \in Stamps /\ StampOf(node) # None
         /\ StampOf(node).ino = node.ino /\ StampOf(node).mtime = node.mtime
         /\ StampOf(node).ctime = node.ctime
         /\ node.ino \in Nat /\ node.mtime \in Nat /\ node.ctime \in Nat
  BY NoneAssumption DEF Nodes, StampOf, Stamps

\* What a change does to one path: nothing, or the path is gone, or its node is
\* written now, or it has an inode that was never seen.
New(node) == node.ctime = Coarse(now) \/ node.ino = events + 1
Turned(p) ==
    \/ tree'[p] = tree[p]
    \/ tree'[p] = None
    \/ tree'[p] \in Nodes(p) /\ tree'[p].ino <= events' /\ New(tree'[p])

\* A node that is touched: its times are now, the rest is as it was.
LEMMA TouchIs ==
  ASSUME WorldTypes, NEW p \in Paths, NEW node \in Nodes(p), node.ino <= events
  PROVE  /\ Touch(node) \in Nodes(p) /\ Touch(node).ino = node.ino /\ Touch(node).data = node.data
         /\ Touch(node).mtime = Coarse(now) /\ Touch(node).ctime = Coarse(now)
<1>1. Coarse(now) \in Nat
  BY Time DEF WorldTypes
<1> QED
  BY <1>1 DEF Touch, Nodes

\* The fields of a node.
LEMMA NodeOf ==
  ASSUME WorldTypes, NEW p \in Paths, NEW i \in Nat, NEW t \in Nat,
         NEW data, data \in IF p \in Dirs THEN {"dir"} ELSE Contents[p]
  PROVE  /\ Node(i, t, data) \in Nodes(p) /\ Node(i, t, data).ino = i
         /\ Node(i, t, data).mtime = t /\ Node(i, t, data).ctime = t
         /\ Node(i, t, data).data = data
  BY DEF Node, Nodes

\* What a path is written with is what it may hold.
LEMMA WrittenIs ==
  ASSUME NEW p \in Paths
  PROVE  Written(p) \in IF p \in Dirs THEN {"dir"} ELSE Contents[p]
<1>1. CASE p \in Dirs
  BY <1>1 DEF Written
<1>2. CASE p \notin Dirs
  <2>1. Contents[p] # {}
    BY <1>2, ContentsAssumption DEF Files
  <2> QED
    BY <1>2, <2>1 DEF Written
<1> QED
  BY <1>1, <1>2

\* Discovery.Create.
LEMMA CreateTurns ==
  ASSUME WorldTypes, Inodes, Rooted, NEW c \in Paths, Create(c)
  PROVE  /\ events' = events + 1 /\ now' = now /\ index' = index /\ exclude' = exclude
         /\ DOMAIN tree' = Paths /\ c \in Files /\ Parent(c) \in Paths /\ c # Root
         /\ tree[c] = None /\ tree'[c] # None /\ tree'[c] \in Nodes(c) /\ tree'[c].ino = 0
         /\ tree'[c].mtime = Coarse(now) /\ tree'[c].ctime = Coarse(now)
         /\ tree'[Parent(c)] = Touch(tree[Parent(c)]) /\ tree[Parent(c)] # None
         /\ \A p \in Paths : p # c /\ p # Parent(c) => tree'[p] = tree[p]
<1>1. PICK data \in Contents[c] :
         tree' = [tree EXCEPT ![c] = Node(0, Coarse(now), data), ![Parent(c)] = Touch(@)]
  BY DEF Create
<1>2. c \notin Dirs /\ c # Root
  BY PathsAssumption DEF Create
<1>3. Parent(c) \in Paths /\ Parent(c) # c
  BY <1>2, ParentAbove
<1>4. /\ Node(0, Coarse(now), data) \in Nodes(c) /\ Node(0, Coarse(now), data).ino = 0
      /\ Node(0, Coarse(now), data).mtime = Coarse(now)
      /\ Node(0, Coarse(now), data).ctime = Coarse(now)
  BY <1>2, NodeOf, Time DEF WorldTypes
<1>5. tree'[c] = Node(0, Coarse(now), data) /\ tree'[Parent(c)] = Touch(tree[Parent(c)])
      /\ DOMAIN tree' = Paths /\ \A p \in Paths : p # c /\ p # Parent(c) => tree'[p] = tree[p]
  BY <1>1, <1>3 DEF WorldTypes
<1>6. events' = events + 1 /\ now' = now /\ index' = index /\ exclude' = exclude
      /\ tree[c] = None /\ tree[Parent(c)] # None
  BY DEF Create, Edit, Happens, Present
<1>7. tree'[c] # None
  BY <1>4, <1>5, NodeIs
<1> QED
  BY <1>2, <1>3, <1>4, <1>5, <1>6, <1>7 DEF Files

\* Discovery.Delete.
LEMMA DeleteTurns ==
  ASSUME WorldTypes, Inodes, Rooted, NEW c \in Paths, Delete(c)
  PROVE  /\ events' = events + 1 /\ now' = now /\ index' = index /\ exclude' = exclude
         /\ DOMAIN tree' = Paths /\ c \in Files /\ Parent(c) \in Paths /\ c # Root
         /\ tree[c] # None /\ tree'[c] = None
         /\ tree'[Parent(c)] = Touch(tree[Parent(c)]) /\ tree[Parent(c)] # None
         /\ \A p \in Paths : p # c /\ p # Parent(c) => tree'[p] = tree[p]
<1>1. tree' = [tree EXCEPT ![c] = None, ![Parent(c)] = Touch(@)]
  BY DEF Delete
<1>2. c \notin Dirs /\ c # Root
  BY PathsAssumption DEF Delete
<1>3. Parent(c) \in Paths /\ Parent(c) # c /\ Parent(c) \in ancestors(c)
  BY <1>2, ParentAbove, AncestorsOf
<1>4. tree'[c] = None /\ tree'[Parent(c)] = Touch(tree[Parent(c)])
      /\ DOMAIN tree' = Paths /\ \A p \in Paths : p # c /\ p # Parent(c) => tree'[p] = tree[p]
  BY <1>1, <1>3 DEF WorldTypes
<1>5. events' = events + 1 /\ now' = now /\ index' = index /\ exclude' = exclude
      /\ tree[c] # None
  BY DEF Delete, Edit, Happens, Present
<1> QED
  BY <1>2, <1>3, <1>4, <1>5 DEF Files, Rooted, Present

\* Discovery.Write.
LEMMA WriteTurns ==
  ASSUME WorldTypes, Inodes, Rooted, NEW c \in Paths, Write(c)
  PROVE  /\ events' = events + 1 /\ now' = now /\ index' = index /\ exclude' = exclude
         /\ DOMAIN tree' = Paths /\ c \in Files
         /\ tree[c] # None /\ tree'[c] # None /\ tree'[c] \in Nodes(c)
         /\ tree'[c].ino = tree[c].ino /\ tree'[c].ctime = Coarse(now)
         /\ c \notin KEEPS => tree'[c].mtime = Coarse(now)
         /\ \A p \in Paths : p # c => tree'[p] = tree[p]
<1>1. PICK data \in Contents[c], keep \in {FALSE, (c \in KEEPS)} :
         tree' = [tree EXCEPT ![c].data = data, ![c].ctime = Coarse(now),
                             ![c].mtime = IF keep THEN @ ELSE Coarse(now)]
  BY DEF Write
<1>2. c \in Files /\ tree[c] \in Nodes(c) /\ tree[c].ino <= events /\ c \notin Dirs
  BY DEF Write, Files, WorldTypes, Inodes, Present
<1>3. PICK m : m = IF keep THEN tree[c].mtime ELSE Coarse(now)
  OBVIOUS
<1>4. m \in Nat /\ Coarse(now) \in Nat /\ (c \notin KEEPS => m = Coarse(now))
  BY <1>2, <1>3, NodeIs, Time DEF WorldTypes
<1>5. /\ tree'[c] = [tree[c] EXCEPT !.data = data, !.ctime = Coarse(now), !.mtime = m]
      /\ DOMAIN tree' = Paths /\ \A p \in Paths : p # c => tree'[p] = tree[p]
  BY <1>1, <1>2, <1>3 DEF WorldTypes, Nodes
<1>6. /\ tree'[c] \in Nodes(c) /\ tree'[c].ino = tree[c].ino
      /\ tree'[c].ctime = Coarse(now) /\ tree'[c].mtime = m
  BY <1>2, <1>4, <1>5 DEF Nodes
<1>7. events' = events + 1 /\ now' = now /\ index' = index /\ exclude' = exclude
       /\ tree[c] # None
  BY DEF Write, Edit, Happens, Present
<1>8. tree'[c] # None
  BY <1>6, NodeIs
<1> QED
  BY <1>2, <1>4, <1>5, <1>6, <1>7, <1>8

\* Discovery.Swap and MoveAway: all that lies under d is other than it was.
LEMMA MoveTurns ==
  ASSUME WorldTypes, Inodes, Rooted, NEW d \in Dirs, Swap(d) \/ MoveAway(d)
  PROVE  /\ events' = events + 1 /\ now' = now /\ index' = index /\ exclude' = exclude
         /\ DOMAIN tree' = Paths /\ d # Root /\ tree[d] # None
         /\ Parent(d) \in Paths /\ Parent(d) \in Dirs /\ tree[Parent(d)] # None
         /\ ~is_under(Parent(d), d)
         /\ tree'[Parent(d)] = Touch(tree[Parent(d)])
         /\ \A p \in Paths : ~is_under(p, d) /\ p # Parent(d) => tree'[p] = tree[p]
         /\ \A p \in Paths : is_under(p, d) =>
               \/ tree'[p] = None
               \/ tree'[d] # None /\ tree'[p] \in Nodes(p) /\ tree'[p].ino = events + 1
         /\ tree'[d] = None \/ tree'[d].ctime = Coarse(now)
         /\ \A p, q \in Paths : is_under(p, d) /\ is_under(q, d) /\ q # d /\ tree'[q] # None
               => tree'[p] # None
<1>1. d \in Paths /\ d # Root /\ tree[d] # None /\ tree[d] \in Nodes(d) /\ tree[d].ino <= events
  BY PathsAssumption DEF Swap, MoveAway, Present, WorldTypes, Inodes
<1>2. /\ Parent(d) \in Paths /\ Parent(d) \in Dirs /\ Parent(d) # d /\ ~is_under(Parent(d), d)
      /\ Parent(d) \in ancestors(d) /\ is_under(d, d)
  BY <1>1, ParentAbove, AncestorsOf, UnderOrder
<1>3. tree[Parent(d)] # None
  BY <1>1, <1>2 DEF Rooted, Present
<1>4. events' = events + 1 /\ now' = now /\ index' = index /\ exclude' = exclude
  BY DEF Swap, MoveAway, Edit, Happens
<1>5. CASE MoveAway(d)
  <2>1. tree' = [p \in Paths |-> IF is_under(p, d) THEN None
                               ELSE IF p = Parent(d) THEN Touch(tree[p]) ELSE tree[p]]
    BY <1>5 DEF MoveAway
  <2> QED
    BY <1>1, <1>2, <1>3, <1>4, <2>1
<1>6. CASE Swap(d)
  <2>1. PICK was \in BOOLEAN :
          tree' = [p \in Paths |->
              IF p = d THEN [tree[d] EXCEPT !.ino = events + 1, !.ctime = Coarse(now)]
              ELSE IF p = Parent(d) THEN Touch(tree[p])
              ELSE IF is_under(p, d) THEN (IF was THEN Node(events + 1, 0, Written(p)) ELSE None)
              ELSE tree[p]]
    BY <1>6 DEF Swap
  <2>2. Coarse(now) \in Nat /\ events + 1 \in Nat
    BY Time DEF WorldTypes
  <2>3. PICK node : node = [tree[d] EXCEPT !.ino = events + 1, !.ctime = Coarse(now)]
    OBVIOUS
  <2>4. node \in Nodes(d) /\ node.ino = events + 1 /\ node.ctime = Coarse(now) /\ node # None
    <3>1. node \in Nodes(d) /\ node.ino = events + 1 /\ node.ctime = Coarse(now)
      BY <1>1, <2>2, <2>3 DEF Nodes
    <3> QED
      BY <1>1, <3>1, NodeIs
  <2>5. tree'[d] = node /\ DOMAIN tree' = Paths /\ tree'[Parent(d)] = Touch(tree[Parent(d)])
        /\ \A p \in Paths : ~is_under(p, d) /\ p # Parent(d) => tree'[p] = tree[p]
    BY <1>1, <1>2, <2>1, <2>3
  <2>6. ASSUME NEW p \in Paths, is_under(p, d), tree'[p] # None
        PROVE  tree'[p] \in Nodes(p) /\ tree'[p].ino = events + 1
    <3>1. CASE p = d
      BY <3>1, <2>4, <2>5
    <3>2. CASE p # d
      <4>1. p # Parent(d)
        BY <1>2, <2>6
      <4>2. tree'[p] = Node(events + 1, 0, Written(p))
        BY <2>1, <2>6, <3>2, <4>1
      <4>3. PICK i \in Nat : i = events + 1
        BY <2>2
      <4>4. PICK data : data = Written(p)
        OBVIOUS
      <4>5. data \in IF p \in Dirs THEN {"dir"} ELSE Contents[p]
        BY <4>4, WrittenIs
      <4>6. Node(i, 0, data) \in Nodes(p) /\ Node(i, 0, data).ino = i
        BY <4>5, NodeOf
      <4> QED
        BY <4>2, <4>3, <4>4, <4>6
    <3> QED
      BY <3>1, <3>2
  <2>7. ASSUME NEW p \in Paths, NEW q \in Paths, is_under(p, d), is_under(q, d), q # d,
               tree'[q] # None
        PROVE  tree'[p] # None
    <3>1. was
      <4>1. q # Parent(d)
        BY <1>2, <2>7
      <4> QED
        BY <2>1, <2>7, <4>1
    <3>2. CASE p = d
      BY <3>2, <2>4, <2>5
    <3>3. CASE p # d
      <4>1. p # Parent(d)
        BY <1>2, <2>7
      <4>2. tree'[p] = Node(events + 1, 0, Written(p))
        BY <2>1, <2>7, <3>1, <3>3, <4>1
      <4>3. PICK i \in Nat : i = events + 1
        BY <2>2
      <4>4. PICK data : data = Written(p)
        OBVIOUS
      <4>5. data \in IF p \in Dirs THEN {"dir"} ELSE Contents[p]
        BY <4>4, WrittenIs
      <4>6. Node(i, 0, data) \in Nodes(p)
        BY <4>5, NodeOf
      <4>7. Node(i, 0, data) # None
        BY <4>6, NodeIs
      <4> QED
        BY <4>2, <4>3, <4>4, <4>7
    <3> QED
      BY <3>2, <3>3
  <2> QED
    BY <1>1, <1>2, <1>3, <1>4, <2>4, <2>5, <2>6, <2>7
<1> QED
  BY <1>5, <1>6

\* What any change leaves of the tree: each path as it was, gone or new, and
\* the entries of a directory that is neither are its entries.
TreeTurns ==
    /\ DOMAIN tree' = Paths /\ \A p \in Paths : Turned(p)
    /\ \A p \in Paths : \/ Kids(p)' = Kids(p) \/ tree'[p] = None
                        \/ tree'[p] # None /\ New(tree'[p])

\* The directory above a change is new.
LEMMA TouchedIs ==
  ASSUME WorldTypes, Inodes, events' = events + 1, NEW p \in Paths, tree[p] # None,
         tree'[p] = Touch(tree[p])
  PROVE  Turned(p) /\ tree'[p] # None /\ New(tree'[p])
<1>1. tree[p] \in Nodes(p) /\ tree[p].ino <= events /\ tree[p].ino \in Nat /\ events \in Nat
  BY NodeIs DEF WorldTypes, Inodes
<1>2. /\ tree'[p] \in Nodes(p) /\ tree'[p].ino = tree[p].ino /\ tree'[p].ctime = Coarse(now)
  BY <1>1, TouchIs
<1>3. tree'[p] # None
  BY <1>2, NodeIs
<1> QED
  BY <1>1, <1>2, <1>3 DEF Turned, New

\* What Discovery.Create leaves of the tree.
LEMMA CreateTree ==
  ASSUME WorldTypes, Inodes, Rooted, NEW c \in Paths, Create(c)
  PROVE  TreeTurns /\ Rooted'
<1>1. /\ events' = events + 1 /\ now' = now
      /\ DOMAIN tree' = Paths /\ c \in Files /\ Parent(c) \in Paths /\ c # Root
      /\ tree[c] = None /\ tree'[c] # None /\ tree'[c] \in Nodes(c) /\ tree'[c].ino = 0
      /\ tree'[c].ctime = Coarse(now)
      /\ tree'[Parent(c)] = Touch(tree[Parent(c)]) /\ tree[Parent(c)] # None
      /\ \A p \in Paths : p # c /\ p # Parent(c) => tree'[p] = tree[p]
  BY CreateTurns
<1>2. Turned(Parent(c)) /\ tree'[Parent(c)] # None /\ New(tree'[Parent(c)])
  BY <1>1, TouchedIs
<1>3. Turned(c)
  BY <1>1 DEF Turned, New, WorldTypes
<1>4. ASSUME NEW p \in Paths, p # Parent(c) PROVE Kids(p)' = Kids(p)
  BY <1>1, <1>2, <1>4 DEF Kids, Children, Present
<1>5. \A p \in Paths : p # c /\ p # Parent(c) => Turned(p)
  BY <1>1 DEF Turned
<1>6. Rooted'
  <2>1. ASSUME NEW p \in Paths, tree'[p] # None, NEW d \in ancestors(p) PROVE tree'[d] # None
    <3>1. d \in Paths /\ d \in Dirs
      BY PathsAssumption DEF ancestors
    <3>2. tree[d] # None
      <4>1. CASE p = c
        <5>1. d = Parent(c) \/ d \in ancestors(Parent(c))
          BY <1>1, <4>1, AncestorsOf
        <5> QED
          BY <1>1, <5>1 DEF Rooted, Present
      <4>2. CASE p = Parent(c)
        BY <1>1, <4>2 DEF Rooted, Present
      <4>3. CASE p # c /\ p # Parent(c)
        BY <1>1, <2>1, <4>3 DEF Rooted, Present
      <4> QED
        BY <4>1, <4>2, <4>3
    <3> QED
      BY <1>1, <1>2, <3>1, <3>2
  <2>2. tree'[Root] # None
    <3>1. tree[Root] # None /\ Root \in Paths
      BY PathsAssumption DEF Rooted, Present
    <3> QED
      BY <1>1, <1>2, <3>1
  <2> QED
    BY <2>1, <2>2 DEF Rooted, Present
<1> QED
  BY <1>1, <1>2, <1>3, <1>4, <1>5, <1>6 DEF TreeTurns

\* What Discovery.Delete leaves of the tree.
LEMMA DeleteTree ==
  ASSUME WorldTypes, Inodes, Rooted, NEW c \in Paths, Delete(c)
  PROVE  TreeTurns /\ Rooted'
<1>1. /\ events' = events + 1 /\ now' = now
      /\ DOMAIN tree' = Paths /\ c \in Files /\ Parent(c) \in Paths /\ c # Root
      /\ tree[c] # None /\ tree'[c] = None
      /\ tree'[Parent(c)] = Touch(tree[Parent(c)]) /\ tree[Parent(c)] # None
      /\ \A p \in Paths : p # c /\ p # Parent(c) => tree'[p] = tree[p]
  BY DeleteTurns
<1>2. Turned(Parent(c)) /\ tree'[Parent(c)] # None /\ New(tree'[Parent(c)])
  BY <1>1, TouchedIs
<1>3. Turned(c)
  BY <1>1 DEF Turned
<1>4. ASSUME NEW p \in Paths, p # Parent(c) PROVE Kids(p)' = Kids(p)
  BY <1>1, <1>2, <1>4 DEF Kids, Children, Present
<1>5. \A p \in Paths : p # c /\ p # Parent(c) => Turned(p)
  BY <1>1 DEF Turned
<1>6. Rooted'
  <2>1. ASSUME NEW p \in Paths, tree'[p] # None, NEW d \in ancestors(p) PROVE tree'[d] # None
    <3>1. d \in Paths /\ d \in Dirs
      BY PathsAssumption DEF ancestors
    <3>2. d # c
      BY <1>1, <3>1 DEF Files
    <3>3. tree[p] # None
      BY <1>1, <2>1
    <3>4. tree[d] # None
      BY <3>3 DEF Rooted, Present
    <3> QED
      BY <1>1, <1>2, <3>1, <3>2, <3>4
  <2>2. tree'[Root] # None
    <3>1. tree[Root] # None /\ Root \in Paths
      BY PathsAssumption DEF Rooted, Present
    <3> QED
      BY <1>1, <1>2, <3>1
  <2> QED
    BY <2>1, <2>2 DEF Rooted, Present
<1> QED
  BY <1>1, <1>2, <1>3, <1>4, <1>5, <1>6 DEF TreeTurns

\* What Discovery.Write leaves of the tree.
LEMMA WriteTree ==
  ASSUME WorldTypes, Inodes, Rooted, NEW c \in Paths, Write(c)
  PROVE  TreeTurns /\ Rooted'
<1>1. /\ events' = events + 1 /\ now' = now
      /\ DOMAIN tree' = Paths /\ c \in Files
      /\ tree[c] # None /\ tree'[c] # None /\ tree'[c] \in Nodes(c)
      /\ tree'[c].ino = tree[c].ino /\ tree'[c].ctime = Coarse(now)
      /\ \A p \in Paths : p # c => tree'[p] = tree[p]
  BY WriteTurns
<1>2. \A p \in Paths : tree'[p] = None <=> tree[p] = None
  BY <1>1
<1>3. tree[c].ino <= events /\ tree[c].ino \in Nat /\ events \in Nat
  BY <1>1, NodeIs DEF Files, Inodes, WorldTypes
<1>4. \A p \in Paths : Turned(p)
  BY <1>1, <1>3 DEF Turned, New
<1>5. ASSUME NEW p \in Paths PROVE Kids(p)' = Kids(p)
  BY <1>2 DEF Kids, Children, Present
<1>6. Rooted'
  BY <1>2, PathsAssumption DEF Rooted, Present, ancestors
<1> QED
  BY <1>1, <1>4, <1>5, <1>6 DEF TreeTurns

\* What Discovery.Swap and MoveAway leave of the tree.
LEMMA MoveTree ==
  ASSUME WorldTypes, Inodes, Rooted, NEW d \in Dirs, Swap(d) \/ MoveAway(d)
  PROVE  TreeTurns /\ Rooted'
<1>1. /\ events' = events + 1 /\ now' = now
      /\ DOMAIN tree' = Paths /\ d # Root /\ tree[d] # None
      /\ Parent(d) \in Paths /\ Parent(d) \in Dirs /\ tree[Parent(d)] # None
      /\ ~is_under(Parent(d), d)
      /\ tree'[Parent(d)] = Touch(tree[Parent(d)])
      /\ \A p \in Paths : ~is_under(p, d) /\ p # Parent(d) => tree'[p] = tree[p]
      /\ \A p \in Paths : is_under(p, d) =>
            \/ tree'[p] = None
            \/ tree'[d] # None /\ tree'[p] \in Nodes(p) /\ tree'[p].ino = events + 1
      /\ \A p, q \in Paths : is_under(p, d) /\ is_under(q, d) /\ q # d /\ tree'[q] # None
            => tree'[p] # None
  BY MoveTurns
<1>2. Turned(Parent(d)) /\ tree'[Parent(d)] # None /\ New(tree'[Parent(d)])
  BY <1>1, TouchedIs
<1>3. d \in Paths /\ events \in Nat
  BY PathsAssumption DEF WorldTypes
<1>4. \A p \in Paths : Turned(p)
  BY <1>1, <1>2, <1>3 DEF Turned, New
<1>5. ASSUME NEW p \in Paths
      PROVE  Kids(p)' = Kids(p) \/ tree'[p] = None \/ (tree'[p] # None /\ New(tree'[p]))
  <2>1. CASE is_under(p, d) \/ p = Parent(d)
    BY <1>1, <1>2, <2>1, NodeIs DEF New
  <2>2. CASE ~is_under(p, d) /\ p # Parent(d)
    <3>1. ASSUME NEW q \in Paths, q # Root, Parent(q) = p PROVE tree'[q] = None <=> tree[q] = None
      <4>1. ~is_under(q, d)
        BY <1>3, <2>2, <3>1, UnderParent
      <4> QED
        BY <1>1, <1>2, <4>1
    <3> QED
      BY <3>1 DEF Kids, Children, Present
  <2> QED
    BY <2>1, <2>2
<1>6. Rooted'
  <2>1. ASSUME NEW p \in Paths, tree'[p] # None, NEW e \in ancestors(p) PROVE tree'[e] # None
    <3>1. e \in Paths /\ e \in Dirs /\ is_under(p, e)
      BY PathsAssumption DEF ancestors
    <3>2. CASE ~is_under(p, d)
      <4>1. ~is_under(e, d)
        BY <1>3, <3>1, <3>2, UnderOrder
      <4>2. tree[p] # None
        BY <1>1, <2>1, <3>2
      <4>3. tree[e] # None
        BY <4>2 DEF Rooted, Present
      <4> QED
        BY <1>1, <1>2, <3>1, <4>1, <4>3
    <3>3. CASE is_under(p, d)
      <4>1. CASE is_under(e, d)
        <5>1. p # d
          <6>1. ASSUME p = d PROVE FALSE
            <7>1. is_under(d, e) /\ e # d
              BY <6>1, <3>1 DEF ancestors
            <7>2. d \in ancestors(e)
              BY <4>1, <7>1 DEF ancestors
            <7>3. d \in ancestors(d)
              BY <1>3, <6>1, <7>2, AncestorsOf
            <7> QED
              BY <1>3, <7>3, AncestorsOf
          <6> QED
            BY <6>1
        <5> QED
          BY <1>1, <2>1, <3>1, <3>3, <4>1, <5>1
      <4>2. CASE ~is_under(e, d)
        <5>1. is_under(d, e) /\ e # d
          BY <1>3, <3>1, <3>3, <4>2, UnderLine, UnderOrder
        <5>2. e \in ancestors(d)
          BY <3>1, <5>1 DEF ancestors
        <5>3. tree[e] # None
          BY <1>1, <1>3, <5>2 DEF Rooted, Present
        <5> QED
          BY <1>1, <1>2, <3>1, <4>2, <5>3
      <4> QED
        BY <4>1, <4>2
    <3> QED
      BY <3>2, <3>3
  <2>2. tree'[Root] # None
    <3>1. tree[Root] # None /\ Root \in Paths /\ Root \in Dirs
      BY PathsAssumption DEF Rooted, Present
    <3>2. ~is_under(Root, d)
      <4>1. ancestors(Root) = {}
        BY <3>1, AncestorsOf
      <4> QED
        BY <1>1, <4>1 DEF ancestors
    <3> QED
      BY <1>1, <1>2, <3>1, <3>2
  <2> QED
    BY <2>1, <2>2 DEF Rooted, Present
<1> QED
  BY <1>1, <1>4, <1>5, <1>6 DEF TreeTurns

\* Every change of the world (Discovery.Change).
LEMMA ChangeTree ==
  ASSUME WorldTypes, Inodes, Rooted, Change
  PROVE  /\ TreeTurns /\ Rooted'
         /\ events <= events' /\ events' \in Nat /\ now <= now' /\ now' \in 0..MaxClock
         /\ \/ now' = now
            \/ /\ tree' = tree /\ exclude' = exclude /\ index' = index /\ events' = events
               /\ run.phase = "idle" /\ now' = now + 1
<1>1. ASSUME tree' = tree PROVE TreeTurns /\ Rooted'
  BY <1>1 DEF TreeTurns, Turned, Kids, Present, Rooted, WorldTypes, ancestors, Children
<1>2. CASE Tick
  <2>1. /\ tree' = tree /\ exclude' = exclude /\ index' = index /\ events' = events
        /\ run.phase = "idle" /\ now' = now + 1 /\ now < MaxClock
    BY <1>2 DEF Tick, session, history
  <2> QED
    BY <1>1, <2>1, TimesAssumption DEF WorldTypes
<1>3. CASE WriteExclude \/ \E p \in Sources : GitAdd(p)
  <2>1. tree' = tree /\ now' = now /\ events' = events + 1
    BY <1>3 DEF WriteExclude, GitAdd, Happens
  <2> QED
    BY <1>1, <2>1, Time DEF WorldTypes
<1>4. ASSUME NEW p \in Paths, Create(p) \/ Delete(p) \/ Write(p)
      PROVE  /\ TreeTurns /\ Rooted' /\ now' = now /\ events' = events + 1
  BY <1>4, CreateTree, DeleteTree, WriteTree, CreateTurns, DeleteTurns, WriteTurns
<1>5. ASSUME NEW d \in Dirs, Swap(d) \/ MoveAway(d)
      PROVE  /\ TreeTurns /\ Rooted' /\ now' = now /\ events' = events + 1
  BY <1>5, MoveTree, MoveTurns
<1> QED
  BY <1>2, <1>3, <1>4, <1>5 DEF Change, WorldTypes

\* info/exclude and the index under any change.
LEMMA ChangeRest ==
  ASSUME WorldTypes, Inodes, Rooted, Change
  PROVE  /\ \/ exclude' = exclude
            \/ /\ exclude' \in [ino : {0}, mtime : Nat, ctime : Nat, data : Texts]
               /\ exclude'.mtime = Coarse(now) /\ exclude'.ctime = Coarse(now)
               /\ now' = now
         /\ \/ index' = index
            \/ /\ now' = now /\ tree' = tree /\ index'.time = Coarse(now)
               /\ \A p \in Tracked(index') :
                     /\ tree[p] # None /\ index'.entries[p].stamp = StampOf(tree[p])
                     /\ index'.entries[p].data = tree[p].data
<1>1. CASE WriteExclude
  <2>1. index' = index /\ now' = now
    BY <1>1 DEF WriteExclude
  <2>2. PICK data \in Texts \ {exclude.data}, keep \in {FALSE, ("exclude" \in KEEPS)} :
          exclude' = [exclude EXCEPT !.data = data, !.ctime = Coarse(now),
                                    !.mtime = IF keep THEN @ ELSE Coarse(now)]
    BY <1>1 DEF WriteExclude
  <2>3. ~keep
    BY KeepsAssumption
  <2>4. exclude' = [exclude EXCEPT !.data = data, !.ctime = Coarse(now), !.mtime = Coarse(now)]
    BY <2>2, <2>3
  <2>5. Coarse(now) \in Nat
    BY Time DEF WorldTypes
  <2> QED
    BY <2>1, <2>4, <2>5 DEF WorldTypes
<1>2. ASSUME NEW f \in Sources, GitAdd(f)
      PROVE  /\ exclude' = exclude /\ now' = now /\ tree' = tree /\ index'.time = Coarse(now)
             /\ \A p \in Tracked(index') :
                     /\ tree[p] # None /\ index'.entries[p].stamp = StampOf(tree[p])
                     /\ index'.entries[p].data = tree[p].data
  <2>1. /\ exclude' = exclude /\ now' = now /\ tree' = tree
        /\ index' = NewIndex(Coarse(now), tree, Tracked(index) \cup {f})
    BY <1>2 DEF GitAdd
  <2>2. ASSUME NEW p \in Paths, index'.entries[p] # None
        PROVE  /\ tree[p] # None /\ index'.entries[p].stamp = StampOf(tree[p])
               /\ index'.entries[p].data = tree[p].data
    BY <2>1, <2>2 DEF NewIndex
  <2>3. index'.time = Coarse(now)
    BY <2>1 DEF NewIndex
  <2> QED
    BY <2>1, <2>2, <2>3 DEF Tracked, Files
<1>3. ASSUME NEW p \in Paths, Create(p) \/ Delete(p) \/ Write(p)
      PROVE  exclude' = exclude /\ index' = index
  BY <1>3 DEF Create, Delete, Write, Edit
<1>4. ASSUME NEW d \in Dirs, Swap(d) \/ MoveAway(d)
      PROVE  exclude' = exclude /\ index' = index
  BY <1>4 DEF Swap, MoveAway, Edit
<1>5. CASE Tick
  BY <1>5 DEF Tick
<1> QED
  BY <1>1, <1>2, <1>3, <1>4, <1>5 DEF Change

\* The types of the world, and its inodes.
LEMMA ChangeTypes ==
  ASSUME WorldTypes, Inodes, Rooted, Change
  PROVE  WorldTypes' /\ Inodes'
<1>1. /\ TreeTurns /\ events <= events' /\ events' \in Nat /\ now <= now' /\ now' \in 0..MaxClock
      /\ now' = now \/ now' = now + 1
  BY ChangeTree
<1>2. /\ \/ exclude' = exclude
         \/ /\ exclude' \in [ino : {0}, mtime : Nat, ctime : Nat, data : Texts]
            /\ exclude'.mtime = Coarse(now) /\ exclude'.ctime = Coarse(now)
      /\ \/ index' = index
         \/ /\ now' = now /\ tree' = tree /\ index'.time = Coarse(now)
            /\ \A p \in Tracked(index') :
                  tree[p] # None /\ index'.entries[p].stamp = StampOf(tree[p])
  BY ChangeRest
<1>3. Coarse(now) \in Nat /\ Coarse(now) <= Coarse(now') /\ Coarse(now') \in Nat
  BY <1>1, TimesAssumption DEF WorldTypes
<1>8. exclude' \in [ino : {0}, mtime : Nat, ctime : Nat, data : Texts] /\ exclude'.ctime = exclude'.mtime
  BY <1>2 DEF WorldTypes
<1>4. index'.time \in Nat /\ index'.time <= Coarse(now')
  BY <1>2, <1>3 DEF WorldTypes
<1>5. \A p \in Paths : tree'[p] = None \/ tree'[p] \in Nodes(p)
  BY <1>1 DEF TreeTurns, Turned, WorldTypes
<1>6. ASSUME NEW p \in Paths, tree'[p] # None PROVE tree'[p].ino <= events'
  <2>1. CASE tree'[p] = tree[p]
    <3>1. tree[p].ino \in Nat /\ tree[p].ino <= events /\ events \in Nat
      BY <1>6, <2>1, NodeIs DEF WorldTypes, Inodes
    <3> QED
      BY <1>1, <2>1, <3>1
  <2> QED
    BY <1>1, <1>6, <2>1 DEF TreeTurns, Turned
<1>7. ASSUME NEW p \in Tracked(index') 
      PROVE  index'.entries[p].stamp \in Stamps /\ index'.entries[p].stamp.ino <= events'
  <2>1. p \in Paths
    BY DEF Tracked, Files
  <2>2. CASE index' = index
    <3>1. PICK s \in Stamps : s = index.entries[p].stamp
      BY <1>7, <2>2 DEF Inodes, Tracked
    <3>2. s.ino <= events /\ s.ino \in Nat
      BY <1>7, <2>2, <3>1 DEF Inodes, Tracked, Stamps
    <3> QED
      BY <1>1, <2>2, <3>1, <3>2 DEF WorldTypes
  <2>3. CASE index' # index
    <3>1. tree[p] # None /\ index'.entries[p].stamp = StampOf(tree[p]) /\ tree' = tree
      BY <1>2, <1>7, <2>3
    <3>2. StampOf(tree[p]).ino = tree[p].ino /\ StampOf(tree[p]) \in Stamps
      BY <2>1, <3>1, NodeIs DEF WorldTypes
    <3> QED
      BY <1>6, <2>1, <3>1, <3>2
  <2> QED
    BY <2>2, <2>3
<1> QED
  BY <1>1, <1>3, <1>4, <1>5, <1>6, <1>7, <1>8 DEF WorldTypes, Inodes, TreeTurns

\* What has settled stays so.
LEMMA SettledGrows ==
  ASSUME NEW a \in Nat, NEW b \in Nat, a <= b
  PROVE  settled_before(a) \in Nat /\ settled_before(b) \in Nat
         /\ settled_before(a) <= settled_before(b)
<1>1. SETTLE \in Nat
  BY TimesAssumption
<1>2. CASE a < SETTLE
  BY <1>1, <1>2 DEF settled_before
<1>3. CASE ~(a < SETTLE)
  <2>1. ~(b < SETTLE)
    BY <1>1, <1>3
  <2>2. settled_before(a) = a - SETTLE /\ settled_before(b) = b - SETTLE
    BY <1>3, <2>1 DEF settled_before
  <2> QED
    BY <1>1, <1>3, <2>1, <2>2
<1> QED
  BY <1>2, <1>3

\* A path that still has, or has again, a stamp of the past is what it was, with
\* the entries it had: what the memory relies on.
LEMMA PastStays ==
  ASSUME WorldTypes, Inodes, Rooted, Change, NEW s \in Stamps, Past(s)
  PROVE  /\ Past(s)'
         /\ \A p \in Paths : StampOf(tree'[p]) = s => tree'[p] = tree[p] /\ Kids(p)' = Kids(p)
         /\ StampOf(exclude') = s => exclude' = exclude
<1>1. /\ TreeTurns /\ events <= events' /\ events' \in Nat /\ now <= now' /\ now' \in 0..MaxClock
  BY ChangeTree
<1>2. /\ s.ino \in Nat /\ s.mtime \in Nat /\ s.ctime \in Nat /\ s # None
      /\ s.ino <= events /\ s.mtime < settled_before(now) /\ s.ctime < settled_before(now)
  BY NoneAssumption DEF Past, is_settled, Stamps
<1>3. settled_before(now) \in Nat /\ settled_before(now) <= settled_before(now')
      /\ events \in Nat /\ Coarse(now) \in Nat /\ settled_before(now) <= Coarse(now)
      /\ settled_before(now') \in Nat
  <2>1. now \in Nat /\ now' \in Nat /\ now <= now' /\ SETTLE \in Nat
    BY <1>1, TimesAssumption DEF WorldTypes
  <2>2. settled_before(now) <= settled_before(now') /\ settled_before(now') \in Nat
    BY <2>1, SettledGrows
  <2> QED
    BY <2>2, Time DEF WorldTypes
<1>4. Past(s)'
  <2>1. s.ino <= events' /\ s.mtime < settled_before(now') /\ s.ctime < settled_before(now')
    BY <1>1, <1>2, <1>3
  <2> QED
    BY <2>1 DEF Past, is_settled, settled_before
<1>5. ASSUME NEW p \in Paths, StampOf(tree'[p]) = s
      PROVE  tree'[p] = tree[p] /\ Kids(p)' = Kids(p)
  <2>1. tree'[p] # None
    BY <1>2, <1>5 DEF StampOf
  <2>2. tree'[p].ino = s.ino /\ tree'[p].ctime = s.ctime
    BY <1>5, <2>1 DEF StampOf
  <2>3. ~New(tree'[p])
    BY <1>2, <1>3, <2>2 DEF New
  <2> QED
    BY <1>1, <2>1, <2>3 DEF TreeTurns, Turned
<1>6. ASSUME StampOf(exclude') = s PROVE exclude' = exclude
  <2>1. exclude' = exclude \/ exclude'.ctime = Coarse(now)
    BY ChangeRest
  <2>2. exclude' # None
    BY <1>2, <1>6 DEF StampOf
  <2>3. exclude'.ctime = s.ctime
    BY <1>6, <2>2 DEF StampOf
  <2> QED
    BY <1>2, <1>3, <2>1, <2>3
<1> QED
  BY <1>4, <1>5, <1>6

\* No change of a source file keeps its modification time.
LEMMA SourceTurns ==
  ASSUME WorldTypes, Inodes, Rooted, Change, NEW p \in Sources
  PROVE  \/ tree'[p] = tree[p] \/ tree'[p] = None
         \/ tree'[p].mtime = Coarse(now) \/ tree'[p].ino = events + 1
<1>1. p \in Paths /\ p \notin Dirs /\ p \notin KEEPS
  BY FilesAssumption, KeepsAssumption DEF Files
<1>2. ASSUME NEW c \in Paths, c # Root PROVE p # Parent(c)
  BY <1>1, <1>2, ParentAbove
<1>3. CASE Tick \/ WriteExclude \/ \E f \in Sources : GitAdd(f)
  <2>1. tree' = tree
    BY <1>3 DEF Tick, WriteExclude, GitAdd
  <2> QED
    BY <2>1
<1>4. ASSUME NEW c \in Paths, Create(c)
      PROVE  tree'[p] = tree[p] \/ tree'[p].mtime = Coarse(now)
  BY <1>1, <1>2, <1>4, CreateTurns
<1>5. ASSUME NEW c \in Paths, Delete(c)
      PROVE  tree'[p] = tree[p] \/ tree'[p] = None
  BY <1>1, <1>2, <1>5, DeleteTurns
<1>6. ASSUME NEW c \in Paths, Write(c)
      PROVE  tree'[p] = tree[p] \/ tree'[p].mtime = Coarse(now)
  BY <1>1, <1>6, WriteTurns
<1>7. ASSUME NEW d \in Dirs, Swap(d) \/ MoveAway(d)
      PROVE  tree'[p] = tree[p] \/ tree'[p] = None \/ tree'[p].ino = events + 1
  BY <1>1, <1>7, MoveTurns
<1> QED
  BY <1>3, <1>4, <1>5, <1>6, <1>7 DEF Change

\* The index still tells a source file by a stamp older than itself, and a kept
\* repository is still an older one.
LEMMA ChangeIndex ==
  ASSUME WorldTypes, Inodes, Rooted, Racy, KeptIsOld, Change
  PROVE  Racy' /\ KeptIsOld'
<1>1. /\ \/ index' = index
         \/ /\ now' = now /\ tree' = tree /\ index'.time = Coarse(now)
            /\ \A p \in Tracked(index') :
                  index'.entries[p].data = tree[p].data
  BY ChangeRest
<1>2. /\ Coarse(now) \in Nat /\ settled_before(now) \in Nat /\ settled_before(now) <= Coarse(now)
      /\ index.time \in Nat /\ index.time <= Coarse(now) /\ events \in Nat
  BY Time DEF WorldTypes
<1>3. ASSUME NEW p \in Tracked(index') \cap Sources, tree'[p] # None,
             StampOf(tree'[p]) = index'.entries[p].stamp,
             index'.entries[p].stamp.mtime < index'.time
      PROVE  tree'[p].data = index'.entries[p].data
  <2>1. CASE index' # index
    BY <1>1, <1>3, <2>1
  <2>2. CASE index' = index
    <3>1. p \in Tracked(index)
      BY <1>3, <2>2 DEF Tracked
    <3>2. PICK s \in Stamps : s = index.entries[p].stamp
      BY <3>1 DEF Inodes
    <3>3. s.ino \in Nat /\ s.ino <= events /\ s.mtime \in Nat /\ s.mtime < index.time
      BY <1>3, <2>2, <3>1, <3>2 DEF Inodes, Stamps
    <3>4. tree'[p].ino = s.ino /\ tree'[p].mtime = s.mtime
      BY <1>3, <2>2, <3>2 DEF StampOf
    <3>5. tree'[p] = tree[p]
      BY <1>2, <1>3, <3>3, <3>4, SourceTurns
    <3> QED
      BY <1>3, <2>2, <3>1, <3>5 DEF Racy, Present
  <2> QED
    BY <2>1, <2>2
<1>4. Racy'
  BY <1>3 DEF Racy, Present
<1>5. kept' = kept
  BY DEF Change, Tick, WriteExclude, GitAdd, Create, Delete, Write, Swap, MoveAway, Edit, session
<1>6. KeptIsOld'
  <2>1. settled_before(now') \in Nat /\ settled_before(now) <= settled_before(now')
    BY <1>2, ChangeTree, TimesAssumption DEF WorldTypes, settled_before
  <2>2. ASSUME kept # None, kept.stamp = index'.time PROVE kept.index = index'
    BY <1>1, <1>2, <2>2 DEF KeptIsOld
  <2>3. ASSUME kept # None
        PROVE  kept.stamp \in Nat /\ kept.stamp < settled_before(now')
    BY <1>2, <2>1, <2>3 DEF KeptIsOld
  <2> QED
    BY <1>5, <2>2, <2>3 DEF KeptIsOld, settled_before
<1> QED
  BY <1>4, <1>6

-----------------------------------------------------------------------------
(* True listings *)

\* The look at d that lets a walk use the listing.
Live(d, l) == StampOf(tree[d]) = l.stamp /\ (l.rules = None \/ RulesStamp(d) = l.rules)

\* The layers L have in e what the rules file of the stamp r says.
Follows(L, e, r) ==
    /\ r = None => L[e] = None
    /\ r # None /\ RulesStamp(e) = r => L[e] = tree[rules_of(e)].data

Shows(d, l, L, ex) ==
    /\ l.nested = (git(d) \in Kids(d))
    /\ ~(l.nested /\ d # Root) =>
          /\ l.files = {p \in Kids(d) \ Dirs : p # git(d) /\ ~ignored(L, ex, p)}
          /\ l.dirs = {p \in Kids(d) \cap Dirs : p # git(d) /\ ~ignored(L, ex, p)}
          /\ l.rules = None => rules_of(d) \notin Kids(d)

Heard(ctx, ex) == Past(ctx.exclude) /\ StampOf(exclude) = ctx.exclude => ex = exclude.data

\* The listing is what its directory holds under the rules of the directories
\* es above it, which have the stamps rs.
Exact(d, l, ctx, rs, es) ==
    \E L \in [Dirs -> Texts \cup {None}], ex \in Texts :
        /\ Shows(d, l, L, ex) /\ Heard(ctx, ex) /\ Follows(L, d, l.rules)
        /\ \A e \in es : Follows(L, e, rs[e])

TrueListing(d, l, ctx, rs, es) ==
    /\ Past(l.stamp) /\ (l.rules # None => Past(l.rules)) /\ l.dirs \subseteq Children(d) \cap Dirs
    /\ Live(d, l) => Exact(d, l, ctx, rs, es)

RulesIn(ls) == [e \in Dirs |-> IF ls[e] = None THEN None ELSE ls[e].rules]

TrueStore(st) ==
    /\ st.context # None => Past(st.context.exclude)
    /\ \A d \in Known(st.listings) :
          /\ st.context # None
          /\ TrueListing(d, st.listings[d], st.context, RulesIn(st.listings),
                         ancestors(d) \cap Known(st.listings))

-----------------------------------------------------------------------------

\* What every step does to the past: it stays, and what has a stamp of it is
\* what it was; in a run nothing else becomes past.
Onward ==
    /\ events \in Nat /\ events' \in Nat /\ events <= events'
    /\ \A s \in Stamps : Past(s) =>
          /\ Past(s)'
          /\ \A p \in Paths : StampOf(tree'[p]) = s => tree'[p] = tree[p] /\ Kids(p)' = Kids(p)
          /\ StampOf(exclude') = s => exclude' = exclude
    /\ now' = now => \A s \in Stamps : s.ino <= events /\ Past(s)' => Past(s)

\* The rules file that a stamp of the past names is the same file.
LEMMA RulesStay ==
  ASSUME Onward, NEW d \in Dirs, NEW s \in Stamps, Past(s), RulesStamp(d)' = s
  PROVE  RulesStamp(d) = s /\ tree'[rules_of(d)] = tree[rules_of(d)]
<1>1. s # None
  BY NoneAssumption
<1>2. rules_of(d) \in Paths /\ StampOf(tree'[rules_of(d)]) = s
  BY <1>1 DEF RulesStamp
<1> QED
  BY <1>2 DEF Onward, RulesStamp

\* A look that would use a listing of the past would have used it before.
LEMMA LiveStays ==
  ASSUME Onward, NEW d \in Dirs, NEW l, Past(l.stamp), l.rules # None => Past(l.rules), Live(d, l)'
  PROVE  Live(d, l) /\ Kids(d)' = Kids(d)
<1>1. StampOf(tree'[d]) = l.stamp /\ (l.rules = None \/ RulesStamp(d)' = l.rules)
  BY DEF Live
<1>2. l.stamp \in Stamps /\ d \in Paths
  BY PathsAssumption DEF Past
<1>3. tree'[d] = tree[d] /\ Kids(d)' = Kids(d)
  BY <1>1, <1>2 DEF Onward
<1>4. l.rules # None => RulesStamp(d) = l.rules
  <2>1. ASSUME l.rules # None PROVE RulesStamp(d) = l.rules
    <3>1. PICK s \in Stamps : s = l.rules /\ Past(s)
      BY <2>1 DEF Past
    <3> QED
      BY <1>1, <2>1, <3>1, RulesStay
  <2> QED
    BY <2>1
<1> QED
  BY <1>1, <1>3, <1>4 DEF Live

\* Layers that follow a rules file of the past go on following it.
LEMMA FollowsStays ==
  ASSUME Onward, NEW e \in Dirs, NEW L, NEW r, r # None => Past(r), Follows(L, e, r)
  PROVE  Follows(L, e, r)'
<1>1. ASSUME r # None, RulesStamp(e)' = r PROVE L[e] = tree'[rules_of(e)].data
  <2>1. r \in Stamps /\ Past(r)
    BY <1>1 DEF Past
  <2>2. RulesStamp(e) = r /\ tree'[rules_of(e)] = tree[rules_of(e)]
    BY <1>1, <2>1, RulesStay
  <2> QED
    BY <1>1, <2>2 DEF Follows
<1> QED
  BY <1>1 DEF Follows

\* What was read of info/exclude stays what its stamp says.
LEMMA HeardStays ==
  ASSUME Onward, NEW ctx, NEW ex, Heard(ctx, ex),
         \/ Past(ctx.exclude)
         \/ now' = now /\ ctx.exclude \in Stamps /\ ctx.exclude.ino <= events
  PROVE  Heard(ctx, ex)'
<1>1. ASSUME Past(ctx.exclude)', StampOf(exclude') = ctx.exclude PROVE ex = exclude'.data
  <2>1. PICK s \in Stamps : s = ctx.exclude
    BY DEF Past
  <2>2. Past(s)
    BY <1>1, <2>1 DEF Onward
  <2>3. exclude' = exclude
    BY <1>1, <2>1, <2>2 DEF Onward
  <2> QED
    BY <1>1, <2>1, <2>2, <2>3 DEF Heard
<1> QED
  BY <1>1 DEF Heard

\* A true listing stays true, whatever changes.
LEMMA TrueStays ==
  ASSUME Onward, NEW d \in Dirs, NEW l, NEW ctx, NEW rs, NEW es, es \subseteq Dirs,
         \A e \in es : rs[e] # None => Past(rs[e]),
         \/ Past(ctx.exclude)
         \/ now' = now /\ ctx.exclude \in Stamps /\ ctx.exclude.ino <= events,
         TrueListing(d, l, ctx, rs, es)
  PROVE  TrueListing(d, l, ctx, rs, es)'
<1>1. Past(l.stamp) /\ (l.rules # None => Past(l.rules))
  BY DEF TrueListing
<1>2. Past(l.stamp)' /\ (l.rules # None => Past(l.rules)')
  BY <1>1 DEF Onward, Past
<1>3. ASSUME Live(d, l)' PROVE Exact(d, l, ctx, rs, es)'
  <2>1. Live(d, l) /\ Kids(d)' = Kids(d)
    BY <1>1, <1>3, LiveStays
  <2>2. PICK L \in [Dirs -> Texts \cup {None}], ex \in Texts :
          /\ Shows(d, l, L, ex) /\ Heard(ctx, ex) /\ Follows(L, d, l.rules)
          /\ \A e \in es : Follows(L, e, rs[e])
    BY <2>1 DEF TrueListing, Exact
  <2>3. Shows(d, l, L, ex)'
    BY <2>1, <2>2 DEF Shows
  <2>4. Heard(ctx, ex)'
    BY <2>2, HeardStays
  <2>5. Follows(L, d, l.rules)'
    <3>1. PICK r : r = l.rules
      OBVIOUS
    <3>2. Follows(L, d, r)'
      BY <1>1, <2>2, <3>1, FollowsStays
    <3> QED
      BY <3>1, <3>2
  <2>6. ASSUME NEW e \in es PROVE Follows(L, e, rs[e])'
    <3>1. PICK r : r = rs[e]
      OBVIOUS
    <3>2. Follows(L, e, r)'
      BY <2>2, <3>1, FollowsStays
    <3> QED
      BY <3>1, <3>2
  <2> QED
    BY <2>3, <2>4, <2>5, <2>6 DEF Exact
<1> QED
  BY <1>2, <1>3 DEF TrueListing

Stores == ~behind => /\ store # None => TrueStore(store)
                     /\ mem.stored # None => TrueStore(mem.stored)

-----------------------------------------------------------------------------
(* A run *)

old(d) == mem.stored.listings[d]

\* The stamp of the rules file of e that the walk went on by.
Rules(e) == IF run.seen[e] # None THEN run.seen[e].rules
            ELSE IF old(e) # None THEN old(e).rules ELSE None

Before ==
    /\ run.phase = "idle" => run = Idle
    /\ run.phase \in {"idle", "open"} =>
          /\ \A d \in Dirs : /\ run.visits[d].step = "no" /\ run.layers[d] = None
                             /\ run.seen[d] = None /\ mem.fresh[d] = None
          /\ run.exclude = None /\ mem.context = None /\ ~mem.trusted

Memorised ==
    run.phase # "idle" =>
       /\ mem.stored # None /\ mem.settled = settled_before(now)
       /\ mem.trusted => mem.context # None /\ mem.stored.context = mem.context
       /\ mem.context = None => \A d \in Dirs : mem.fresh[d] = None
       /\ run.phase \in {"walk", "settle"} => mem.context # None
       /\ mem.context # None => /\ mem.context.exclude.ino = 0
                                /\ mem.context.exclude \in Stamps
                                /\ mem.context.exclude.mtime = mem.context.exclude.ctime

\* The walk comes to a directory after those above it.
Visited(d) ==
    run.visits[d].step # "no" =>
       /\ \A e \in ancestors(d) : run.visits[e].step = "done"
       /\ run.visits[d].chain = {e \in ancestors(d) : Rules(e) # None}
       /\ run.visits[d].trusted =>
             /\ mem.trusted
             /\ \A e \in ancestors(d) : old(e) # None /\ Rules(e) = old(e).rules
       /\ \A e \in ancestors(d) :
             old(e) # None /\ old(e).rules # None /\ Rules(e) # old(e).rules
             => RulesStamp(e) # old(e).rules

Looked(d) ==
    LET v == run.visits[d] IN
    /\ v.step \in {"stat", "listed"} =>
          /\ v.stamp \in Stamps /\ v.stamp.ino <= events
          /\ old(d) # None /\ StampOf(tree[d]) = old(d).stamp => v.stamp = old(d).stamp
    /\ v.step = "listed" =>
          /\ v.entries \subseteq Children(d)
          /\ Past(v.stamp) /\ StampOf(tree[d]) = v.stamp => v.entries = Kids(d)
          /\ (v.rules # None) = (rules_of(d) \in v.entries)
          /\ v.rules # None => v.rules \in Stamps /\ v.rules.ino <= events
          /\ old(d) # None /\ old(d).rules # None /\ RulesStamp(d) = old(d).rules
             => v.rules = old(d).rules

Saw(d) ==
    run.seen[d] # None =>
       /\ run.visits[d].step = "done" /\ run.seen[d] \in Sightings
       /\ run.seen[d].rules # None => run.seen[d].rules.ino <= events
       /\ mem.fresh[d] = None /\ old(d) # None /\ Live(d, old(d))
          => \A e \in ancestors(d) : old(e) # None /\ Rules(e) = old(e).rules

Clear(d) == {e \in ancestors(d) : Rules(e) = None \/ Past(Rules(e))}
Remembered(d) ==
    mem.fresh[d] # None =>
       /\ run.seen[d] # None
       /\ run.seen[d] = [stamp |-> mem.fresh[d].stamp, rules |-> mem.fresh[d].rules]
       /\ TrueListing(d, mem.fresh[d], mem.context, [e \in Dirs |-> Rules(e)], Clear(d))

Layered(e) ==
    run.layers[e] # None =>
       /\ run.visits[e].step = "done" /\ run.layers[e] \in Texts
       /\ Rules(e) # None /\ Past(Rules(e)) /\ RulesStamp(e) = Rules(e)
          => run.layers[e] = tree[rules_of(e)].data

Excluded ==
    run.exclude # None =>
       /\ run.phase # "idle" /\ mem.context # None /\ run.exclude \in Texts
       /\ Heard(mem.context, run.exclude)

Walking == ~behind /\ run.phase # "idle" =>
    /\ \A d \in Dirs : Visited(d) /\ Looked(d) /\ Saw(d) /\ Remembered(d) /\ Layered(d)
    /\ Excluded
-----------------------------------------------------------------------------

\* A run and its memory are records of the parts they begin with.
RunTypes ==
    /\ DOMAIN run = {"phase", "scope", "index", "visits", "layers", "exclude", "seen", "visited",
                     "files", "failed", "compare", "picked", "removed", "fresh"}
    /\ DOMAIN run.visits = Dirs /\ DOMAIN run.layers = Dirs /\ DOMAIN run.seen = Dirs
    /\ \A d \in Dirs : DOMAIN run.visits[d] =
                          {"step", "trusted", "chain", "stamp", "entries", "rules"}
    /\ DOMAIN mem = {"stored", "fresh", "fresh_staged", "context", "trusted", "used", "settled"}
    /\ DOMAIN mem.fresh = Dirs

\* A step of the program moves nothing into the past.
LEMMA StandsOnward ==
  ASSUME events \in Nat, UNCHANGED world, events' = events \/ events' = events + 1
  PROVE  Onward
<1>1. tree' = tree /\ exclude' = exclude /\ now' = now
  BY DEF world
<1>2. ASSUME NEW s \in Stamps
      PROVE  /\ s.ino \in Nat /\ (Past(s) => Past(s)') /\ (s.ino <= events /\ Past(s)' => Past(s))
  BY <1>1 DEF Past, Stamps
<1>3. \A p \in Paths : Kids(p)' = Kids(p)
  BY <1>1 DEF Kids, Children, Present
<1> QED
  BY <1>1, <1>2, <1>3 DEF Onward

\* Neither does a change of the world make anything of the past what it was not.
LEMMA ChangeOnward ==
  ASSUME WorldTypes, Inodes, Rooted, Change
  PROVE  Onward
<1>1. events \in Nat /\ events' \in Nat /\ events <= events'
  BY ChangeTree DEF WorldTypes
<1>2. ASSUME NEW s \in Stamps, now' = now, s.ino <= events, Past(s)' PROVE Past(s)
  BY <1>2 DEF Past
<1> QED
  BY <1>1, <1>2, PastStays DEF Onward

\* The stamps of rules files in use are stamps, of inodes that were handed out.
RuleStamp(s) == s # None => s \in Stamps /\ s.ino <= events

\* The stamps of rules files that a run goes on by are of the past or were seen.
LEMMA RulesKnown ==
  ASSUME mem.stored # None, TrueStore(mem.stored), NEW e \in Dirs, Saw(e)
  PROVE  RuleStamp(Rules(e)) /\ (old(e) # None /\ old(e).rules # None => Past(old(e).rules))
<1>1. ASSUME old(e) # None, old(e).rules # None PROVE Past(old(e).rules)
  BY <1>1 DEF TrueStore, Known, old, TrueListing
<1>2. ASSUME run.seen[e] # None, run.seen[e].rules # None
      PROVE  run.seen[e].rules \in Stamps /\ run.seen[e].rules.ino <= events
  BY <1>2 DEF Saw, Sightings
<1> QED
  BY <1>1, <1>2 DEF Rules, RuleStamp, Past

\* What a step keeps that leaves alone what the walk has of x and of the
\* directories it is done with.
Leaves(x) ==
    /\ Onward /\ now' = now
    /\ mem'.stored = mem.stored /\ mem'.trusted = mem.trusted /\ mem'.context = mem.context
    /\ mem'.fresh[x] = mem.fresh[x]
    /\ run'.visits[x] = run.visits[x] /\ run'.seen[x] = run.seen[x]
    /\ \A e \in Dirs : run.visits[e].step = "done" =>
          run'.visits[e] = run.visits[e] /\ run'.seen[e] = run.seen[e]

\* The directories that the walk is done with keep their rules.
LEMMA DoneRules ==
  ASSUME NEW x, Leaves(x), NEW e \in Dirs, run.visits[e].step = "done"
  PROVE  Rules(e)' = Rules(e) /\ old(e)' = old(e) /\ run'.visits[e].step = "done"
  BY DEF Leaves, Rules, old

\* A step that leaves a directory alone keeps the way the walk came to it.
LEMMA KeepsVisited ==
  ASSUME NEW x \in Dirs, Leaves(x), Visited(x), TrueStore(mem.stored), mem.stored # None,
         \A e \in Dirs : Saw(e)
  PROVE  Visited(x)'
<1>1. SUFFICES ASSUME run'.visits[x].step # "no"
               PROVE  /\ \A e \in ancestors(x) : run'.visits[e].step = "done"
                      /\ run'.visits[x].chain = {e \in ancestors(x) : Rules(e)' # None}
                      /\ run'.visits[x].trusted =>
                            /\ mem'.trusted
                            /\ \A e \in ancestors(x) : old(e)' # None /\ Rules(e)' = old(e)'.rules
                      /\ \A e \in ancestors(x) :
                            old(e)' # None /\ old(e)'.rules # None /\ Rules(e)' # old(e)'.rules
                            => RulesStamp(e)' # old(e)'.rules
  BY DEF Visited
<1>2. run'.visits[x] = run.visits[x] /\ mem'.trusted = mem.trusted
  BY DEF Leaves
<1>3. \A e \in ancestors(x) : e \in Dirs /\ run.visits[e].step = "done"
  BY <1>1, <1>2 DEF Visited, ancestors
<1>4. \A e \in ancestors(x) : Rules(e)' = Rules(e) /\ old(e)' = old(e) /\ run'.visits[e].step = "done"
  BY <1>3, DoneRules
<1>5. ASSUME NEW e \in ancestors(x), old(e) # None, old(e).rules # None, Rules(e) # old(e).rules,
             RulesStamp(e)' = old(e).rules
      PROVE  FALSE
  <2>1. PICK s \in Stamps : s = old(e).rules /\ Past(s)
    BY <1>3, <1>5, RulesKnown DEF Past
  <2>2. RulesStamp(e) = s
    BY <1>3, <1>5, <2>1, RulesStay DEF Leaves
  <2> QED
    BY <1>1, <1>2, <1>5, <2>1, <2>2 DEF Visited
<1> QED
  BY <1>1, <1>2, <1>4, <1>5 DEF Visited

\* It keeps what was looked at and listed of it.
LEMMA KeepsLooked ==
  ASSUME NEW x \in Dirs, Leaves(x), Looked(x), TrueStore(mem.stored), mem.stored # None
  PROVE  Looked(x)'
<1>1. run'.visits[x] = run.visits[x] /\ old(x)' = old(x) /\ Onward /\ x \in Paths /\ now' = now
  BY PathsAssumption DEF Leaves, old
<1>2. ASSUME old(x) # None PROVE Past(old(x).stamp) /\ (old(x).rules # None => Past(old(x).rules))
  BY <1>2 DEF TrueStore, Known, old, TrueListing
<1> DEFINE v == run.visits[x]
<1>3. ASSUME v.step \in {"stat", "listed"}
      PROVE  /\ v.stamp \in Stamps /\ v.stamp.ino <= events'
             /\ old(x) # None /\ StampOf(tree'[x]) = old(x).stamp => v.stamp = old(x).stamp
  <2>1. v.stamp \in Stamps /\ v.stamp.ino <= events /\ v.stamp.ino \in Nat
    BY <1>3 DEF Looked, Stamps
  <2>2. v.stamp.ino <= events'
    BY <1>1, <2>1 DEF Onward
  <2>3. ASSUME old(x) # None, StampOf(tree'[x]) = old(x).stamp PROVE v.stamp = old(x).stamp
    <3>1. PICK s \in Stamps : s = old(x).stamp /\ Past(s)
      BY <1>2, <2>3 DEF Past
    <3>2. tree'[x] = tree[x]
      BY <1>1, <2>3, <3>1 DEF Onward
    <3> QED
      BY <1>3, <2>3, <3>2 DEF Looked
  <2> QED
    BY <2>1, <2>2, <2>3
<1>4. ASSUME v.step = "listed"
      PROVE  /\ Past(v.stamp)' /\ StampOf(tree'[x]) = v.stamp => v.entries = Kids(x)'
             /\ v.rules # None => v.rules \in Stamps /\ v.rules.ino <= events'
             /\ old(x) # None /\ old(x).rules # None /\ RulesStamp(x)' = old(x).rules
                => v.rules = old(x).rules
  <2>1. ASSUME Past(v.stamp)', StampOf(tree'[x]) = v.stamp PROVE v.entries = Kids(x)'
    <3>1. PICK s \in Stamps : s = v.stamp /\ s.ino <= events
      BY <1>4 DEF Looked
    <3>2. Past(s)
      BY <1>1, <2>1, <3>1 DEF Onward
    <3>3. tree'[x] = tree[x] /\ Kids(x)' = Kids(x)
      BY <1>1, <2>1, <3>1, <3>2 DEF Onward
    <3> QED
      BY <1>4, <2>1, <3>1, <3>2, <3>3 DEF Looked
  <2>2. ASSUME v.rules # None PROVE v.rules \in Stamps /\ v.rules.ino <= events'
    <3>1. v.rules \in Stamps /\ v.rules.ino <= events /\ v.rules.ino \in Nat
      BY <1>4, <2>2 DEF Looked, Stamps
    <3> QED
      BY <1>1, <3>1 DEF Onward
  <2>3. ASSUME old(x) # None, old(x).rules # None, RulesStamp(x)' = old(x).rules
        PROVE  v.rules = old(x).rules
    <3>1. PICK s \in Stamps : s = old(x).rules /\ Past(s)
      BY <1>2, <2>3 DEF Past
    <3>2. RulesStamp(x) = s
      BY <1>1, <2>3, <3>1, RulesStay
    <3> QED
      BY <1>4, <2>3, <3>1, <3>2 DEF Looked
  <2> QED
    BY <2>1, <2>2, <2>3
<1> QED
  BY <1>1, <1>3, <1>4 DEF Looked

\* It keeps what was seen of it.
LEMMA KeepsSaw ==
  ASSUME NEW x \in Dirs, Leaves(x), Saw(x), Visited(x), TrueStore(mem.stored), mem.stored # None
  PROVE  Saw(x)'
<1>1. /\ run'.visits[x] = run.visits[x] /\ old(x)' = old(x) /\ Onward /\ x \in Paths /\ now' = now
      /\ run'.seen[x] = run.seen[x] /\ mem'.fresh[x] = mem.fresh[x]
  BY PathsAssumption DEF Leaves, old
<1>2. SUFFICES ASSUME run.seen[x] # None
               PROVE  /\ run.seen[x].rules # None => run.seen[x].rules.ino <= events'
                      /\ mem.fresh[x] = None /\ old(x) # None /\ Live(x, old(x))'
                         => \A e \in ancestors(x) : old(e)' # None /\ Rules(e)' = old(e)'.rules
  BY <1>1 DEF Saw, Live
<1>3. ASSUME run.seen[x].rules # None PROVE run.seen[x].rules.ino <= events'
  <2>1. run.seen[x].rules \in Stamps /\ run.seen[x].rules.ino <= events
    BY <1>2, <1>3 DEF Saw, Sightings
  <2>2. run.seen[x].rules.ino \in Nat
    BY <2>1 DEF Stamps
  <2> QED
    BY <1>1, <2>1, <2>2 DEF Onward
<1>4. ASSUME mem.fresh[x] = None, old(x) # None, Live(x, old(x))', NEW e \in ancestors(x)
      PROVE  old(e)' # None /\ Rules(e)' = old(e)'.rules
  <2>1. Past(old(x).stamp) /\ (old(x).rules # None => Past(old(x).rules))
    BY <1>4 DEF TrueStore, Known, old, TrueListing
  <2>2. PICK l : l = old(x)
    OBVIOUS
  <2>3. Live(x, l)'
    BY <1>1, <1>4, <2>2
  <2>4. Live(x, l)
    BY <1>1, <2>1, <2>2, <2>3, LiveStays
  <2>5. old(e) # None /\ Rules(e) = old(e).rules
    BY <1>2, <1>4, <2>2, <2>4 DEF Saw
  <2>6. e \in Dirs /\ run.visits[e].step = "done"
    BY <1>2 DEF Saw, Visited, ancestors
  <2>7. Rules(e)' = Rules(e) /\ old(e)' = old(e)
    BY <2>6, DoneRules
  <2> QED
    BY <2>5, <2>7
<1> QED
  BY <1>3, <1>4

\* It keeps the listing that this run remembers of it.
LEMMA KeepsRemembered ==
  ASSUME NEW x \in Dirs, Leaves(x), Remembered(x), Visited(x), TrueStore(mem.stored),
         mem.stored # None, \A e \in Dirs : Saw(e), mem.fresh[x] # None => mem.context # None,
         mem.context # None => mem.context.exclude \in Stamps /\ mem.context.exclude.ino = 0
  PROVE  Remembered(x)'
<1>1. /\ run'.visits[x] = run.visits[x] /\ Onward /\ now' = now /\ mem'.context = mem.context
      /\ run'.seen[x] = run.seen[x] /\ mem'.fresh[x] = mem.fresh[x]
  BY DEF Leaves
<1>2. SUFFICES ASSUME mem.fresh[x] # None
               PROVE  TrueListing(x, mem.fresh[x], mem.context, [e \in Dirs |-> Rules(e)], Clear(x))'
  BY <1>1 DEF Remembered
<1>3. PICK l : l = mem.fresh[x]
  OBVIOUS
<1>4. PICK ctx : ctx = mem.context
  OBVIOUS
<1>5. PICK rs : rs = [e \in Dirs |-> Rules(e)]
  OBVIOUS
<1>6. PICK es : es = Clear(x)
  OBVIOUS
<1>7. TrueListing(x, l, ctx, rs, es)
  BY <1>2, <1>3, <1>4, <1>5, <1>6 DEF Remembered
<1>8. es \subseteq Dirs /\ \A e \in es : rs[e] # None => Past(rs[e])
  BY <1>5, <1>6 DEF Clear, ancestors
<1>9. ctx.exclude \in Stamps /\ ctx.exclude.ino <= events
  BY <1>1, <1>2, <1>4 DEF Onward
<1>10. TrueListing(x, l, ctx, rs, es)'
  BY <1>1, <1>7, <1>8, <1>9, TrueStays
<1>11. PICK rt : rt = [e \in Dirs |-> Rules(e)]'
  OBVIOUS
<1>12. PICK et : et = Clear(x)'
  OBVIOUS
<1>13. ASSUME NEW e \in et PROVE e \in es /\ rt[e] = rs[e]
  <2>1. e \in ancestors(x) /\ (Rules(e) = None \/ Past(Rules(e)))'
    BY <1>12, <1>13 DEF Clear
  <2>2. e \in Dirs /\ run.visits[e].step = "done"
    BY <1>2, <2>1 DEF Remembered, Saw, Visited, ancestors
  <2>3. PICK r : r = Rules(e)
    OBVIOUS
  <2>4. Rules(e)' = r
    BY <2>2, <2>3, DoneRules
  <2>5. r = None \/ Past(r)'
    BY <2>1, <2>4
  <2>6. r # None => r \in Stamps /\ r.ino <= events
    BY <2>2, <2>3, RulesKnown DEF RuleStamp
  <2>7. r = None \/ Past(r)
    BY <1>1, <2>5, <2>6 DEF Onward
  <2> QED
    BY <1>5, <1>6, <1>11, <2>1, <2>2, <2>3, <2>4, <2>7 DEF Clear
<1>14. TrueListing(x, l, ctx, rt, et)'
  BY <1>10, <1>13 DEF TrueListing, Exact
<1>15. l = (mem.fresh[x])' /\ ctx = mem.context'
  BY <1>1, <1>3, <1>4
<1> QED
  BY <1>11, <1>12, <1>14, <1>15

\* It keeps what was read of its rules file.
LEMMA KeepsLayered ==
  ASSUME NEW x \in Dirs, Leaves(x), Layered(x), run'.layers[x] = run.layers[x],
         TrueStore(mem.stored), mem.stored # None, Saw(x)
  PROVE  Layered(x)'
<1>1. SUFFICES ASSUME run.layers[x] # None, Rules(x)' # None, Past(Rules(x))',
                      RulesStamp(x)' = Rules(x)'
               PROVE  run.layers[x] = tree'[rules_of(x)].data
  BY DEF Layered, Leaves
<1>2. run.visits[x].step = "done" /\ Onward /\ now' = now
  BY <1>1 DEF Layered, Leaves
<1>3. PICK r : r = Rules(x)
  OBVIOUS
<1>4. Rules(x)' = r
  BY <1>2, <1>3, DoneRules
<1>5. r \in Stamps /\ r.ino <= events
  BY <1>1, <1>3, <1>4, RulesKnown DEF RuleStamp
<1>6. Past(r)'
  BY <1>1, <1>4
<1>7. Past(r)
  BY <1>2, <1>5, <1>6 DEF Onward
<1>8. RulesStamp(x)' = r
  BY <1>1, <1>4
<1>9. RulesStamp(x) = r /\ tree'[rules_of(x)] = tree[rules_of(x)]
  BY <1>2, <1>5, <1>7, <1>8, RulesStay
<1> QED
  BY <1>1, <1>3, <1>4, <1>7, <1>9 DEF Layered

\* It keeps what was read of info/exclude.
LEMMA KeepsExcluded ==
  ASSUME Onward, now' = now, Excluded, run'.exclude = run.exclude, mem'.context = mem.context,
         run'.phase # "idle",
         mem.context # None => mem.context.exclude \in Stamps /\ mem.context.exclude.ino = 0
  PROVE  Excluded'
<1>1. SUFFICES ASSUME run.exclude # None PROVE Heard(mem.context, run.exclude)'
  BY DEF Excluded
<1>2. PICK ctx : ctx = mem.context
  OBVIOUS
<1>3. PICK ex : ex = run.exclude
  OBVIOUS
<1>4. Heard(ctx, ex) /\ ctx # None
  BY <1>1, <1>2, <1>3 DEF Excluded
<1>5. ctx.exclude \in Stamps /\ ctx.exclude.ino <= events
  BY <1>2, <1>4 DEF Onward
<1>6. Heard(ctx, ex)'
  BY <1>4, <1>5, HeardStays
<1>7. ctx = mem.context' /\ ex = (run.exclude)'
  BY <1>2, <1>3
<1> QED
  BY <1>6, <1>7

\* What holds of a store of the past.
LEMMA StoreStays ==
  ASSUME Onward, NEW st, TrueStore(st)
  PROVE  TrueStore(st)'
<1>1. st.context # None => Past(st.context.exclude)'
  BY DEF TrueStore, Onward, Past
<1>2. PICK rs : rs = RulesIn(st.listings)
  OBVIOUS
<1>3. ASSUME NEW d \in Known(st.listings)
      PROVE  /\ st.context # None
             /\ TrueListing(d, st.listings[d], st.context, RulesIn(st.listings),
                            ancestors(d) \cap Known(st.listings))'
  <2>1. PICK es : es = ancestors(d) \cap Known(st.listings)
    OBVIOUS
  <2>2. d \in Dirs /\ st.context # None /\ Past(st.context.exclude) /\ es \subseteq Dirs
    BY <2>1 DEF TrueStore, Known
  <2>3. TrueListing(d, st.listings[d], st.context, rs, es)
    BY <1>2, <2>1 DEF TrueStore
  <2>4. ASSUME NEW e \in es, rs[e] # None PROVE Past(rs[e])
    <3>1. e \in Dirs /\ st.listings[e] # None /\ rs[e] = st.listings[e].rules
      BY <1>2, <2>1 DEF Known, RulesIn
    <3> QED
      BY <2>4, <3>1 DEF TrueStore, Known, TrueListing
  <2>5. TrueListing(d, st.listings[d], st.context, rs, es)'
    BY <2>2, <2>3, <2>4, TrueStays
  <2> QED
    BY <1>2, <2>1, <2>2, <2>5
<1> QED
  BY <1>1, <1>3 DEF TrueStore

-----------------------------------------------------------------------------
(* Steps that leave the walk alone *)

Stays ==
    /\ Onward /\ now' = now /\ behind' = behind /\ run'.phase # "idle"
    /\ mem'.stored = mem.stored /\ mem'.trusted = mem.trusted /\ mem'.context = mem.context
    /\ mem'.fresh = mem.fresh /\ mem'.settled = mem.settled
    /\ run'.visits = run.visits /\ run'.seen = run.seen /\ run'.layers = run.layers
    /\ run'.exclude = run.exclude

Steady == /\ run.phase # "idle" /\ ~behind /\ Stores /\ Memorised /\ Walking

\* What a run under way has, part by part.
LEMMA Steadily ==
  ASSUME Steady
  PROVE  /\ mem.stored # None /\ TrueStore(mem.stored) /\ Excluded
         /\ \A d \in Dirs : Visited(d) /\ Looked(d) /\ Saw(d) /\ Remembered(d) /\ Layered(d)
         /\ \A d \in Dirs : mem.fresh[d] # None => mem.context # None
         /\ mem.context # None => mem.context.exclude \in Stamps /\ mem.context.exclude.ino = 0
  BY DEF Steady, Stores, Memorised, Walking

\* A step that leaves the walk alone keeps all the walk has.
LEMMA StaysWalking ==
  ASSUME Steady, Stays
  PROVE  Walking'
<1>1. Onward
  BY DEF Stays
<1>2. \A x \in Dirs : Leaves(x)
  BY DEF Stays, Leaves
<1>3. ASSUME NEW d \in Dirs
      PROVE  Visited(d)' /\ Looked(d)' /\ Saw(d)' /\ Remembered(d)' /\ Layered(d)'
  BY <1>2, Steadily, KeepsVisited, KeepsLooked, KeepsSaw, KeepsRemembered, KeepsLayered DEF Stays
<1>4. Excluded'
  BY Steadily, KeepsExcluded DEF Stays
<1> QED
  BY <1>3, <1>4 DEF Walking

-----------------------------------------------------------------------------
(* A visit *)

\* A directory that the walk goes on to from d.
Leads(d, l, e) == e \in l.dirs /\ enters(run.scope, e) /\ ~(l.nested /\ d # Root)
Below(d, l) == run.visits[d].chain \cup (IF l.rules = None THEN {} ELSE {d})

\* Discovery.replay: d is done, and the directories it leads to wait.
LEMMA ReplayIs ==
  ASSUME RunTypes, NEW d \in Dirs, NEW l, NEW t, NEW r, r = replay(run, d, l, t)
  PROVE  /\ DOMAIN r = DOMAIN run /\ r.phase = run.phase /\ r.scope = run.scope
         /\ r.index = run.index /\ r.layers = run.layers /\ r.exclude = run.exclude
         /\ r.seen = run.seen /\ r.failed = run.failed /\ r.compare = run.compare
         /\ r.picked = run.picked /\ r.removed = run.removed
         /\ DOMAIN r.visits = Dirs
         /\ r.visits[d] = [run.visits[d] EXCEPT !.step = "done"]
         /\ \A e \in Dirs : e # d /\ ~Leads(d, l, e) => r.visits[e] = run.visits[e]
         /\ \A e \in Dirs : e # d /\ Leads(d, l, e) =>
               r.visits[e] = [step |-> "queued", trusted |-> t, chain |-> Below(d, l),
                              stamp |-> None, entries |-> {}, rules |-> None]
<1>1. CASE l.nested /\ d # Root
  <2>1. r = [run EXCEPT !.visits[d].step = "done"]
    BY <1>1 DEF replay
  <2> QED
    BY <1>1, <2>1 DEF RunTypes, Leads
<1>2. CASE ~(l.nested /\ d # Root)
  <2> DEFINE files == IF every(run.scope) THEN l.files ELSE l.files \ Tracked(run.index)
             vs == [e \in Dirs |->
                 IF e = d THEN [run.visits[d] EXCEPT !.step = "done"]
                 ELSE IF e \in l.dirs /\ enters(run.scope, e)
                 THEN [NoVisit EXCEPT !.step = "queued", !.trusted = t,
                          !.chain = run.visits[d].chain \cup (IF l.rules = None THEN {} ELSE {d})]
                 ELSE run.visits[e]]
  <2>1. r = [run EXCEPT !.files   = @ \cup {p \in files : source_file(run.scope, p)},
                        !.visited = @ \cup (l.files \cap Tracked(run.index)),
                        !.visits  = vs]
    BY <1>2 DEF replay
  <2>2. r.visits = vs /\ DOMAIN r = DOMAIN run /\ r.phase = run.phase /\ r.scope = run.scope
         /\ r.index = run.index /\ r.layers = run.layers /\ r.exclude = run.exclude
         /\ r.seen = run.seen /\ r.failed = run.failed /\ r.compare = run.compare
         /\ r.picked = run.picked /\ r.removed = run.removed
    BY <2>1 DEF RunTypes
  <2>3. ASSUME NEW e \in Dirs, e # d, Leads(d, l, e)
        PROVE  vs[e] = [step |-> "queued", trusted |-> t, chain |-> Below(d, l),
                        stamp |-> None, entries |-> {}, rules |-> None]
    <3>1. vs[e] = [NoVisit EXCEPT !.step = "queued", !.trusted = t, !.chain = Below(d, l)]
      BY <2>3 DEF Leads, Below
    <3> QED
      BY <3>1 DEF NoVisit
  <2>4. ASSUME NEW e \in Dirs, e # d, ~Leads(d, l, e) PROVE vs[e] = run.visits[e]
    BY <1>2, <2>4 DEF Leads
  <2> QED
    BY <2>2, <2>3, <2>4
<1> QED
  BY <1>1, <1>2

\* What a visit of d does to the walk, on the listing l.
Visits(d, l, t) ==
    /\ UNCHANGED world /\ events' = events /\ behind' = behind
    /\ run.phase = "walk" /\ run'.phase = "walk"
    /\ mem'.stored = mem.stored /\ mem'.trusted = mem.trusted /\ mem'.context = mem.context
    /\ mem'.settled = mem.settled
    /\ run'.visits[d] = [run.visits[d] EXCEPT !.step = "done"]
    /\ \A e \in Dirs : e # d /\ ~Leads(d, l, e) => run'.visits[e] = run.visits[e]
    /\ \A e \in Dirs : e # d /\ Leads(d, l, e) =>
          run'.visits[e] = [step |-> "queued", trusted |-> t, chain |-> Below(d, l),
                            stamp |-> None, entries |-> {}, rules |-> None]
    /\ \A e \in Dirs : e # d => run'.seen[e] = run.seen[e] /\ mem'.fresh[e] = mem.fresh[e]
    /\ l.dirs \subseteq Children(d) \cap Dirs
    /\ Rules(d)' = l.rules

\* A visit that is done: only its step changes.
LEMMA NoVisitDone ==
  ASSUME RunTypes, NEW d \in Dirs
  PROVE  /\ [run.visits[d] EXCEPT !.step = "done"].step = "done"
         /\ [run.visits[d] EXCEPT !.step = "done"].chain = run.visits[d].chain
         /\ [run.visits[d] EXCEPT !.step = "done"].trusted = run.visits[d].trusted
  BY DEF RunTypes

\* The directories that d leads to were not visited before.
LEMMA NextIs ==
  ASSUME Steady, NEW d \in Dirs, run.visits[d].step # "done", NEW l,
         l.dirs \subseteq Children(d) \cap Dirs, NEW e \in Dirs, Leads(d, l, e)
  PROVE  /\ e # d /\ e \in Paths /\ e # Root /\ Parent(e) = d
         /\ ancestors(e) = ancestors(d) \cup {d} /\ d \in ancestors(e)
         /\ run.visits[e].step = "no" /\ run.seen[e] = None
         /\ mem.fresh[e] = None /\ run.layers[e] = None
<1>1. e \in Paths /\ e # Root /\ Parent(e) = d
  BY PathsAssumption DEF Leads, Children
<1>2. ancestors(e) = ancestors(d) \cup {d}
  BY <1>1, AncestorsOf
<1>3. run.visits[e].step = "no"
  BY <1>2, Steadily DEF Visited
<1>4. run.seen[e] = None /\ mem.fresh[e] = None /\ run.layers[e] = None
  BY <1>3, Steadily DEF Saw, Remembered, Layered
<1>5. e # d
  BY <1>1, ParentAbove
<1> QED
  BY <1>1, <1>2, <1>3, <1>4, <1>5

\* The walk above d, and below it, after the visit.
LEMMA VisitsOthers ==
  ASSUME Steady, RunTypes, events \in Nat, NEW d \in Dirs, NEW l, NEW t, Visits(d, l, t),
         run.visits[d].step \notin {"no", "done"}
  PROVE  /\ Onward
         /\ \A x \in Dirs : x # d /\ ~Leads(d, l, x) => Leaves(x)
         /\ \A e \in Dirs : run.visits[e].step = "done" =>
               Rules(e)' = Rules(e) /\ old(e)' = old(e) /\ run'.visits[e].step = "done"
<1>1. Onward
  BY StandsOnward DEF Visits
<1>2. ASSUME NEW e \in Dirs, run.visits[e].step = "done"
      PROVE  run'.visits[e] = run.visits[e] /\ run'.seen[e] = run.seen[e] /\ e # d /\ ~Leads(d, l, e)
  <2>1. e # d
    BY <1>2
  <2>2. ~Leads(d, l, e)
    BY <1>2, NextIs DEF Visits
  <2> QED
    BY <2>1, <2>2 DEF Visits
<1>3. ASSUME NEW x \in Dirs, x # d, ~Leads(d, l, x) PROVE Leaves(x)
  BY <1>1, <1>2, <1>3 DEF Visits, Leaves, world
<1>4. ASSUME NEW e \in Dirs, run.visits[e].step = "done"
      PROVE  Rules(e)' = Rules(e) /\ old(e)' = old(e) /\ run'.visits[e].step = "done"
  BY <1>2, <1>3, <1>4, DoneRules
<1> QED
  BY <1>1, <1>3, <1>4

\* The walk comes to the directories that a visit leads to by the way of that
\* visit, with trust only when the rules there are those of the stored listing.
LEMMA VisitsVisited ==
  ASSUME Steady, RunTypes, events \in Nat, NEW d \in Dirs, NEW l, NEW t, Visits(d, l, t),
         run.visits[d].step \notin {"no", "done"},
         t => /\ mem.trusted /\ old(d) # None /\ old(d).rules = l.rules
              /\ run.visits[d].trusted,
         ~(l.nested /\ d # Root) =>
            (old(d) # None /\ old(d).rules # None /\ l.rules # old(d).rules
               => RulesStamp(d) # old(d).rules),
         NEW x \in Dirs
  PROVE  Visited(x)'
<1>1. /\ Onward
      /\ \A y \in Dirs : y # d /\ ~Leads(d, l, y) => Leaves(y)
      /\ \A e \in Dirs : run.visits[e].step = "done" =>
            Rules(e)' = Rules(e) /\ old(e)' = old(e) /\ run'.visits[e].step = "done"
  BY VisitsOthers
<1>2. CASE x # d /\ ~Leads(d, l, x)
  BY <1>1, <1>2, KeepsVisited, Steadily
<1>3. \A e \in ancestors(d) : e \in Dirs /\ run.visits[e].step = "done"
  BY Steadily DEF Visited, ancestors
<1>4. tree' = tree /\ mem'.trusted = mem.trusted
  BY DEF Visits, world
<1>5. \A e \in Dirs : RulesStamp(e)' = RulesStamp(e)
  BY <1>4 DEF RulesStamp
<1>6. /\ run.visits[d].chain = {e \in ancestors(d) : Rules(e) # None}
      /\ run.visits[d].trusted =>
             /\ mem.trusted
             /\ \A e \in ancestors(d) : old(e) # None /\ Rules(e) = old(e).rules
      /\ \A e \in ancestors(d) :
             old(e) # None /\ old(e).rules # None /\ Rules(e) # old(e).rules
             => RulesStamp(e) # old(e).rules
  BY Steadily DEF Visited
<1>7. /\ run'.visits[d].step = "done" /\ run'.visits[d].chain = run.visits[d].chain
      /\ run'.visits[d].trusted = run.visits[d].trusted
  BY NoVisitDone DEF Visits
<1>8. CASE x = d
  BY <1>1, <1>3, <1>4, <1>5, <1>6, <1>7, <1>8 DEF Visited
<1>9. CASE x # d /\ Leads(d, l, x)
  <2>1. ancestors(x) = ancestors(d) \cup {d} /\ d \in ancestors(x) /\ d \notin ancestors(d)
    <3>1. l.dirs \subseteq Children(d) \cap Dirs
      BY DEF Visits
    <3>2. d \in Paths
      BY PathsAssumption
    <3> QED
      BY <1>9, <3>1, <3>2, NextIs, AncestorsOf
  <2>2. /\ run'.visits[x].step = "queued" /\ run'.visits[x].trusted = t
        /\ run'.visits[x].chain = Below(d, l)
    BY <1>9 DEF Visits
  <2>3. \A e \in ancestors(x) : run'.visits[e].step = "done"
    BY <1>1, <1>3, <1>7, <2>1
  <2>4. Rules(d)' = l.rules /\ old(d)' = old(d)
    BY DEF Visits, old
  <2>5. run'.visits[x].chain = {e \in ancestors(x) : Rules(e)' # None}
    <3>1. Below(d, l) = {e \in ancestors(d) : Rules(e)' # None} \cup {e \in {d} : Rules(e)' # None}
      BY <1>1, <1>3, <1>6, <2>4 DEF Below
    <3> QED
      BY <2>1, <2>2, <3>1
  <2>6. t => /\ mem'.trusted
             /\ \A e \in ancestors(x) : old(e)' # None /\ Rules(e)' = old(e)'.rules
    BY <1>1, <1>3, <1>4, <1>6, <2>1, <2>4
  <2>7. ASSUME NEW e \in ancestors(x), old(e)' # None, old(e)'.rules # None, Rules(e)' # old(e)'.rules
        PROVE  RulesStamp(e)' # old(e)'.rules
    <3>1. CASE e = d
      BY <1>5, <1>9, <2>4, <2>7, <3>1 DEF Leads
    <3>2. CASE e # d
      <4>1. e \in ancestors(d)
        BY <2>1, <3>2
      <4> QED
        BY <1>1, <1>3, <1>5, <1>6, <2>7, <4>1
    <3> QED
      BY <3>1, <3>2
  <2> QED
    BY <2>2, <2>3, <2>5, <2>6, <2>7 DEF Visited
<1> QED
  BY <1>2, <1>8, <1>9

\* A visit keeps what the walk has of the other directories.
LEMMA VisitsOther ==
  ASSUME Steady, RunTypes, events \in Nat, NEW d \in Dirs, NEW l, NEW t, Visits(d, l, t),
         run.visits[d].step \notin {"no", "done"}, NEW x \in Dirs, x # d
  PROVE  /\ Looked(x)' /\ Saw(x)' /\ Remembered(x)'
         /\ run'.layers[x] = run.layers[x] => Layered(x)'
<1>1. CASE ~Leads(d, l, x)
  <2>1. Leaves(x)
    BY <1>1, VisitsOthers
  <2> QED
    BY <2>1, Steadily, KeepsLooked, KeepsSaw, KeepsRemembered, KeepsLayered
<1>2. CASE Leads(d, l, x)
  <2>1. /\ run.visits[x].step = "no" /\ run.seen[x] = None
        /\ mem.fresh[x] = None /\ run.layers[x] = None
    BY <1>2, NextIs DEF Visits
  <2>2. run'.visits[x].step = "queued" /\ run'.seen[x] = None /\ mem'.fresh[x] = None
    BY <1>2, <2>1 DEF Visits
  <2>3. Looked(x)'
    BY <2>2 DEF Looked
  <2>4. Saw(x)' /\ Remembered(x)' /\ (run'.layers[x] = run.layers[x] => Layered(x)')
    BY <2>1, <2>2 DEF Saw, Remembered, Layered
  <2> QED
    BY <2>3, <2>4
<1> QED
  BY <1>1, <1>2

\* What is left to show of a visit.
LEMMA VisitsWalking ==
  ASSUME Steady, RunTypes, events \in Nat, NEW d \in Dirs, NEW l, NEW t, Visits(d, l, t),
         run.visits[d].step \notin {"no", "done"},
         t => /\ mem.trusted /\ old(d) # None /\ old(d).rules = l.rules
              /\ run.visits[d].trusted,
         ~(l.nested /\ d # Root) =>
            (old(d) # None /\ old(d).rules # None /\ l.rules # old(d).rules
               => RulesStamp(d) # old(d).rules),
         Saw(d)', Remembered(d)', \A x \in Dirs : Layered(x)', Excluded'
  PROVE  Walking'
<1>1. \A x \in Dirs : Visited(x)'
  BY VisitsVisited
<1>2. Looked(d)'
  <2>1. run'.visits[d].step = "done"
    BY NoVisitDone DEF Visits
  <2> QED
    BY <2>1 DEF Looked
<1>3. \A x \in Dirs : Looked(x)' /\ Saw(x)' /\ Remembered(x)'
  BY <1>2, VisitsOther
<1> QED
  BY <1>1, <1>3 DEF Walking

\* A visit that reads no rules.
LEMMA VisitsQuietly ==
  ASSUME Steady, RunTypes, events \in Nat, NEW d \in Dirs, NEW l, NEW t, Visits(d, l, t),
         run.visits[d].step \notin {"no", "done"},
         run'.layers = run.layers, run'.exclude = run.exclude
  PROVE  (\A x \in Dirs : Layered(x)') /\ Excluded'
<1>1. run.layers[d] = None
  BY Steadily DEF Layered
<1>2. \A x \in Dirs : Layered(x)'
  <2>1. Layered(d)'
    BY <1>1 DEF Layered
  <2> QED
    BY <2>1, VisitsOther
<1>3. Onward
  BY StandsOnward DEF Visits
<1>4. Excluded'
  BY <1>3, Steadily, KeepsExcluded DEF Visits, world
<1> QED
  BY <1>2, <1>4

\* A stored listing that the walk uses.
LEMMA StoredIs ==
  ASSUME Steady, NEW d \in Dirs, NEW stamp, listing(mem, d, stamp) # None
  PROVE  /\ listing(mem, d, stamp) = old(d) /\ old(d) # None /\ old(d).stamp = stamp
         /\ mem.trusted /\ Past(old(d).stamp) /\ (old(d).rules # None => Past(old(d).rules))
         /\ old(d).dirs \subseteq Children(d) \cap Dirs
<1>1. listing(mem, d, stamp) = old(d) /\ old(d) # None /\ old(d).stamp = stamp /\ mem.trusted
  BY DEF listing, old
<1> QED
  BY <1>1, Steadily DEF TrueStore, Known, TrueListing, old

\* A visit that the watch vouches for (Discovery.Vouch).
LEMMA VouchWalking ==
  ASSUME Steady, RunTypes, events \in Nat, NEW d \in Dirs, Vouch(d)
  PROVE  Walking'
<1>1. PICK l, t : l = vouched(d) /\ t = TRUE
  OBVIOUS
<1>2. PICK r : r = replay(run, d, l, t)
  OBVIOUS
<1>3. /\ run.phase = "walk" /\ run.visits[d].step = "queued" /\ run.visits[d].trusted
      /\ l # None /\ run' = r /\ mem' = use(mem, d)
      /\ UNCHANGED <<world, store, history, kept, watch, queue>>
  BY <1>1, <1>2 DEF Vouch, Visiting
<1>4. l = old(d) /\ old(d) # None /\ mem.trusted /\ l.dirs \subseteq Children(d) \cap Dirs
  BY <1>1, <1>3, StoredIs DEF vouched
<1>5. /\ mem'.stored = mem.stored /\ mem'.trusted = mem.trusted /\ mem'.context = mem.context
      /\ mem'.settled = mem.settled /\ mem'.fresh = mem.fresh
  BY <1>3 DEF use, RunTypes
<1>6. run.seen[d] = None /\ mem.fresh[d] = None
  BY <1>3, Steadily DEF Saw, Remembered
<1>7. /\ DOMAIN r = DOMAIN run /\ r.phase = run.phase /\ r.layers = run.layers
      /\ r.exclude = run.exclude /\ r.seen = run.seen
      /\ r.visits[d] = [run.visits[d] EXCEPT !.step = "done"]
      /\ \A e \in Dirs : e # d /\ ~Leads(d, l, e) => r.visits[e] = run.visits[e]
      /\ \A e \in Dirs : e # d /\ Leads(d, l, e) =>
            r.visits[e] = [step |-> "queued", trusted |-> t, chain |-> Below(d, l),
                           stamp |-> None, entries |-> {}, rules |-> None]
  BY <1>2, ReplayIs
<1>8. run'.layers = run.layers /\ run'.exclude = run.exclude /\ run'.seen = run.seen
      /\ run'.phase = run.phase
  BY <1>3, <1>7
<1>9. Visits(d, l, t)
  <2>1. Rules(d)' = l.rules
    BY <1>4, <1>5, <1>6, <1>8 DEF Rules, old
  <2>2. events' = events /\ behind' = behind /\ UNCHANGED world
    BY <1>3 DEF history
  <2>3. run.phase = "walk" /\ run'.phase = "walk"
    BY <1>3, <1>8
  <2>4. /\ run'.visits[d] = [run.visits[d] EXCEPT !.step = "done"]
        /\ \A e \in Dirs : e # d /\ ~Leads(d, l, e) => run'.visits[e] = run.visits[e]
        /\ \A e \in Dirs : e # d /\ Leads(d, l, e) =>
              run'.visits[e] = [step |-> "queued", trusted |-> t, chain |-> Below(d, l),
                                stamp |-> None, entries |-> {}, rules |-> None]
    BY <1>3, <1>7
  <2>5. \A e \in Dirs : e # d => run'.seen[e] = run.seen[e] /\ mem'.fresh[e] = mem.fresh[e]
    BY <1>5, <1>8
  <2> QED
    BY <1>4, <1>5, <2>1, <2>2, <2>3, <2>4, <2>5 DEF Visits
<1>10. Saw(d)' /\ Remembered(d)'
  BY <1>5, <1>6, <1>8 DEF Saw, Remembered
<1>11. (\A x \in Dirs : Layered(x)') /\ Excluded'
  BY <1>3, <1>9, <1>8, VisitsQuietly
<1> QED
  BY <1>3, <1>4, <1>9, <1>10, <1>11, VisitsWalking

\* A visit that finds the stored stamps (Discovery.Replay).
LEMMA ReplayWalking ==
  ASSUME Steady, RunTypes, events \in Nat, NEW d \in Dirs, Replay(d)
  PROVE  Walking'
<1>1. PICK l : l = replayed(d)
  OBVIOUS
<1>2. PICK t : t = TRUE
  OBVIOUS
<1>3. PICK r : r = replay(run, d, l, t)
  OBVIOUS
<1>4. /\ run.phase = "walk" /\ run.visits[d].step = "queued" /\ run.visits[d].trusted
      /\ l # None /\ run' = [r EXCEPT !.seen[d] = [stamp |-> l.stamp, rules |-> l.rules]]
      /\ mem' = use(mem, d)
      /\ UNCHANGED <<world, store, history, kept, watch, queue>>
  BY <1>1, <1>2, <1>3 DEF Replay, Visiting
<1>5. /\ l = old(d) /\ old(d) # None /\ mem.trusted /\ l.dirs \subseteq Children(d) \cap Dirs
      /\ Past(l.stamp) /\ (l.rules # None => Past(l.rules))
  BY <1>1, <1>4, StoredIs DEF replayed
<1>6. /\ mem'.stored = mem.stored /\ mem'.trusted = mem.trusted /\ mem'.context = mem.context
      /\ mem'.settled = mem.settled /\ mem'.fresh = mem.fresh
  BY <1>4 DEF use, RunTypes
<1>7. run.seen[d] = None /\ mem.fresh[d] = None
  BY <1>4, Steadily DEF Saw, Remembered
<1>8. /\ DOMAIN r = DOMAIN run /\ r.phase = run.phase /\ r.layers = run.layers
      /\ r.exclude = run.exclude /\ r.seen = run.seen
      /\ r.visits[d] = [run.visits[d] EXCEPT !.step = "done"]
      /\ \A e \in Dirs : e # d /\ ~Leads(d, l, e) => r.visits[e] = run.visits[e]
      /\ \A e \in Dirs : e # d /\ Leads(d, l, e) =>
            r.visits[e] = [step |-> "queued", trusted |-> t, chain |-> Below(d, l),
                           stamp |-> None, entries |-> {}, rules |-> None]
  BY <1>3, ReplayIs
<1>9. /\ run'.visits = r.visits /\ run'.phase = run.phase
      /\ run'.layers = run.layers /\ run'.exclude = run.exclude
      /\ run'.seen = [run.seen EXCEPT ![d] = [stamp |-> l.stamp, rules |-> l.rules]]
  BY <1>4, <1>8 DEF RunTypes
<1>10. /\ run'.seen[d] = [stamp |-> l.stamp, rules |-> l.rules]
      /\ \A e \in Dirs : e # d => run'.seen[e] = run.seen[e]
  BY <1>9 DEF RunTypes
<1>11. [stamp |-> l.stamp, rules |-> l.rules] \in Sightings
  BY <1>5 DEF Sightings, Past
<1>12. run'.seen[d] # None
  BY <1>10, <1>11, NoneAssumption
<1>13. Visits(d, l, t)
  <2>1. Rules(d)' = l.rules
    BY <1>10, <1>12 DEF Rules
  <2>2. events' = events /\ behind' = behind /\ UNCHANGED world
    BY <1>4 DEF history
  <2>3. run.phase = "walk" /\ run'.phase = "walk"
    BY <1>4, <1>9
  <2>4. /\ run'.visits[d] = [run.visits[d] EXCEPT !.step = "done"]
        /\ \A e \in Dirs : e # d /\ ~Leads(d, l, e) => run'.visits[e] = run.visits[e]
        /\ \A e \in Dirs : e # d /\ Leads(d, l, e) =>
              run'.visits[e] = [step |-> "queued", trusted |-> t, chain |-> Below(d, l),
                                stamp |-> None, entries |-> {}, rules |-> None]
    BY <1>8, <1>9
  <2>5. \A e \in Dirs : e # d => run'.seen[e] = run.seen[e] /\ mem'.fresh[e] = mem.fresh[e]
    BY <1>6, <1>10
  <2> QED
    BY <1>5, <1>6, <2>1, <2>2, <2>3, <2>4, <2>5 DEF Visits
<1>14. (\A x \in Dirs : Layered(x)') /\ Excluded'
  BY <1>4, <1>9, <1>13, VisitsQuietly
<1>15. Remembered(d)'
  BY <1>6, <1>7 DEF Remembered
<1>16. Saw(d)'
  <2>1. run'.visits[d].step = "done"
    BY <1>13, NoVisitDone DEF Visits
  <2>2. l.rules # None => l.rules.ino <= events'
    BY <1>4, <1>5 DEF Past, history
  <2>3. \A e \in ancestors(d) : old(e)' # None /\ Rules(e)' = old(e)'.rules
    <3>1. \A e \in ancestors(d) : /\ e \in Dirs /\ run.visits[e].step = "done"
                                  /\ old(e) # None /\ Rules(e) = old(e).rules
      BY <1>4, Steadily DEF Visited, ancestors
    <3> QED
      BY <1>4, <1>13, <3>1, VisitsOthers
  <2> QED
    BY <1>10, <1>11, <2>1, <2>2, <2>3 DEF Saw
<1> QED
  BY <1>4, <1>5, <1>13, <1>14, <1>15, <1>16, VisitsWalking

\* A step of a visit before its listing.
Turns(d) ==
    /\ UNCHANGED world /\ events' \in {events, events + 1} /\ behind' = behind
    /\ UNCHANGED session
    /\ run.phase = "walk" /\ run'.phase = "walk"
    /\ run.visits[d].step \notin {"no", "done"} /\ run'.visits[d].step # "no"
    /\ run'.visits[d].trusted = run.visits[d].trusted
    /\ run'.visits[d].chain = run.visits[d].chain
    /\ \A e \in Dirs : e # d => run'.visits[e] = run.visits[e]
    /\ run'.seen = run.seen /\ run'.layers = run.layers /\ run'.exclude = run.exclude

\* Such a step keeps what the walk has, when what it looked at is as it says.
LEMMA TurnsWalking ==
  ASSUME Steady, events \in Nat, NEW d \in Dirs, Turns(d), Looked(d)'
  PROVE  Walking'
<1>1. Onward /\ now' = now /\ tree' = tree
  BY StandsOnward DEF Turns, world
<1>2. ASSUME NEW x \in Dirs, x # d PROVE Leaves(x)
  BY <1>1, <1>2 DEF Turns, Leaves, session
<1>3. ASSUME NEW x \in Dirs, x # d
      PROVE  Visited(x)' /\ Looked(x)' /\ Saw(x)' /\ Remembered(x)' /\ Layered(x)'
  BY <1>2, <1>3, Steadily, KeepsVisited, KeepsLooked, KeepsSaw, KeepsRemembered, KeepsLayered
     DEF Turns
<1>4. Excluded'
  BY <1>1, Steadily, KeepsExcluded DEF Turns, session
<1>5. run.seen[d] = None /\ mem.fresh[d] = None /\ run.layers[d] = None
  BY Steadily DEF Saw, Remembered, Layered, Turns
<1>6. Saw(d)' /\ Remembered(d)' /\ Layered(d)'
  BY <1>5 DEF Saw, Remembered, Layered, Turns, session
<1>7. Visited(d)'
  <2>1. \A e \in ancestors(d) : e \in Dirs /\ run.visits[e].step = "done" /\ e # d
    BY Steadily DEF Visited, Turns, ancestors
  <2>2. \A e \in Dirs : Rules(e)' = Rules(e) /\ old(e)' = old(e) /\ RulesStamp(e)' = RulesStamp(e)
    BY <1>1 DEF Rules, old, RulesStamp, Turns, session
  <2>3. mem'.trusted = mem.trusted
    BY DEF Turns, session
  <2> QED
    BY <2>1, <2>2, <2>3, Steadily DEF Visited, Turns
<1> QED
  BY <1>3, <1>4, <1>6, <1>7 DEF Walking

\* The stamp of a directory that is to be listed (Discovery.Look).
LEMMA LookWalking ==
  ASSUME Steady, RunTypes, WorldTypes, Inodes, NEW d \in Dirs, Look(d)
  PROVE  Walking'
<1>1. /\ run.phase = "walk" /\ run.visits[d].step = "queued" /\ Present(d)
      /\ run' = [run EXCEPT !.visits[d].step = "stat", !.visits[d].stamp = StampOf(tree[d])]
      /\ UNCHANGED <<world, store, history, session>>
  BY DEF Look, Visiting
<1>2. /\ run'.phase = "walk" /\ run'.visits[d].step = "stat"
      /\ run'.visits[d].stamp = StampOf(tree[d]) /\ run'.visits[d].rules = run.visits[d].rules
      /\ run'.visits[d].trusted = run.visits[d].trusted
      /\ run'.visits[d].chain = run.visits[d].chain
      /\ \A e \in Dirs : e # d => run'.visits[e] = run.visits[e]
      /\ run'.seen = run.seen /\ run'.layers = run.layers /\ run'.exclude = run.exclude
  BY <1>1 DEF RunTypes
<1>3. Turns(d)
  BY <1>1, <1>2 DEF Turns, history
<1>4. Looked(d)'
  <2>1. StampOf(tree[d]) \in Stamps /\ StampOf(tree[d]).ino <= events /\ d \in Paths
    BY <1>1, PathsAssumption, NodeIs DEF WorldTypes, Inodes, Present
  <2>2. events' = events /\ tree' = tree
    BY <1>1 DEF world, history
  <2>3. old(d)' = old(d)
    BY <1>1 DEF old, session
  <2> QED
    BY <1>2, <2>1, <2>2, <2>3 DEF Looked
<1> QED
  BY <1>3, <1>4, TurnsWalking DEF WorldTypes

\* The directory's entries and rules, as List takes them.
LEMMA EntriesAre ==
  ASSUME WorldTypes, Inodes, NEW d \in Dirs
  PROVE  /\ {p \in Children(d) : Present(p)} = Kids(d) /\ Kids(d) \subseteq Children(d)
         /\ (RulesStamp(d) # None) = (rules_of(d) \in Kids(d))
         /\ RulesStamp(d) # None =>
               /\ RulesStamp(d) \in Stamps /\ RulesStamp(d).ino <= events
               /\ rules_of(d) \in Paths /\ tree[rules_of(d)] # None
<1>1. rules_of(d) # Root /\ Parent(rules_of(d)) = d
  BY InDirectory
<1>2. ASSUME rules_of(d) \in Paths, tree[rules_of(d)] # None
      PROVE  /\ StampOf(tree[rules_of(d)]) \in Stamps /\ StampOf(tree[rules_of(d)]) # None
             /\ StampOf(tree[rules_of(d)]).ino <= events
  BY <1>2, NodeIs DEF WorldTypes, Inodes
<1>3. tree[rules_of(d)] = None => StampOf(tree[rules_of(d)]) = None
  BY DEF StampOf
<1>4. rules_of(d) \in Kids(d) <=> rules_of(d) \in Paths /\ tree[rules_of(d)] # None
  BY <1>1 DEF Kids, Children, Present
<1>5. {p \in Children(d) : Present(p)} = Kids(d) /\ Kids(d) \subseteq Children(d)
  BY DEF Kids
<1> QED
  BY <1>2, <1>3, <1>4, <1>5 DEF RulesStamp

\* Its entries, and the stamp of its rules (Discovery.List).
LEMMA ListWalking ==
  ASSUME Steady, RunTypes, WorldTypes, Inodes, NEW d \in Dirs, List(d)
  PROVE  Walking'
<1> DEFINE v == [run.visits[d] EXCEPT !.step = "listed",
                   !.entries = {p \in Children(d) : Present(p)}, !.rules = RulesStamp(d)]
<1>1. /\ run.phase = "walk" /\ run.visits[d].step = "stat" /\ Present(d)
      /\ run' = [run EXCEPT !.visits[d] = v]
      /\ UNCHANGED <<world, store, history, session>>
  BY DEF List, Visiting
<1>2. /\ run'.phase = "walk" /\ run'.visits[d] = v
      /\ \A e \in Dirs : e # d => run'.visits[e] = run.visits[e]
      /\ run'.seen = run.seen /\ run'.layers = run.layers /\ run'.exclude = run.exclude
  <2> HIDE DEF v
  <2> QED
    BY <1>1 DEF RunTypes
<1>3. /\ v.step = "listed" /\ v.stamp = run.visits[d].stamp /\ v.rules = RulesStamp(d)
      /\ v.entries = {p \in Children(d) : Present(p)}
      /\ v.trusted = run.visits[d].trusted /\ v.chain = run.visits[d].chain
  BY DEF RunTypes
<1> HIDE DEF v
<1>4. Turns(d)
  BY <1>1, <1>2, <1>3 DEF Turns, history
<1>5. Looked(d)'
  <2>1. events' = events /\ tree' = tree
    BY <1>1 DEF world, history
  <2>2. old(d)' = old(d)
    BY <1>1 DEF old, session
  <2>3. Kids(d)' = Kids(d) /\ RulesStamp(d)' = RulesStamp(d)
    BY <2>1 DEF Kids, Children, Present, RulesStamp
  <2>4. /\ v.stamp \in Stamps /\ v.stamp.ino <= events
        /\ old(d) # None /\ StampOf(tree[d]) = old(d).stamp => v.stamp = old(d).stamp
    BY <1>1, <1>3, Steadily DEF Looked
  <2> QED
    BY <1>2, <1>3, <2>1, <2>2, <2>3, <2>4, EntriesAre DEF Looked
<1> QED
  BY <1>4, <1>5, TurnsWalking DEF WorldTypes

\* A directory that is gone, or cannot be read (Discovery.Gone, Unreadable).
LEMMA GoneWalking ==
  ASSUME Steady, RunTypes, WorldTypes, NEW d \in Dirs, Gone(d) \/ Unreadable(d)
  PROVE  Walking'
<1>1. /\ run.phase = "walk" /\ run.visits[d].step \in {"queued", "stat"}
      /\ \/ run' = [run EXCEPT !.visits[d].step = "done"]
         \/ run' = [run EXCEPT !.visits[d].step = "done", !.failed = TRUE]
      /\ UNCHANGED <<world, store, behind, session>>
      /\ events' \in {events, events + 1}
  BY DEF Gone, Unreadable, Visiting, history, Happens
<1>2. /\ run'.phase = "walk" /\ run'.visits[d].step = "done"
      /\ run'.visits[d].trusted = run.visits[d].trusted
      /\ run'.visits[d].chain = run.visits[d].chain
      /\ \A e \in Dirs : e # d => run'.visits[e] = run.visits[e]
      /\ run'.seen = run.seen /\ run'.layers = run.layers /\ run'.exclude = run.exclude
  <2>1. CASE run' = [run EXCEPT !.visits[d].step = "done"]
    BY <1>1, <2>1 DEF RunTypes
  <2>2. CASE run' = [run EXCEPT !.visits[d].step = "done", !.failed = TRUE]
    BY <1>1, <2>2 DEF RunTypes
  <2> QED
    BY <1>1, <2>1, <2>2
<1>3. Turns(d)
  BY <1>1, <1>2 DEF Turns
<1>4. Looked(d)'
  BY <1>2 DEF Looked
<1> QED
  BY <1>3, <1>4, TurnsWalking DEF WorldTypes

\* What the rules files say, as a look at them now finds it.
LEMMA LayersAre ==
  ASSUME WorldTypes, NEW e \in Dirs
  PROVE  /\ Layers[e] \in Texts \cup {None}
         /\ RulesStamp(e) # None => Layers[e] = tree[rules_of(e)].data /\ Layers[e] # None
<1>1. rules_of(e) \notin Dirs
  BY PathsAssumption
<1>2. ASSUME rules_of(e) \in Paths, tree[rules_of(e)] # None
      PROVE  tree[rules_of(e)].data \in Texts
  BY <1>1, <1>2, ContentsAssumption DEF WorldTypes, Nodes
<1>3. Layers[e] = IF rules_of(e) \in Paths /\ tree[rules_of(e)] # None
                  THEN tree[rules_of(e)].data ELSE None
  BY DEF Layers, Present
<1>4. RulesStamp(e) # None => rules_of(e) \in Paths /\ tree[rules_of(e)] # None
  BY DEF RulesStamp, StampOf
<1>5. None \notin Texts
  BY NoneAssumption
<1> QED
  BY <1>2, <1>3, <1>4, <1>5

\* The rules a directory is filtered by are those of the stamps the walk goes on by.
LEMMA ReadIs ==
  ASSUME Steady, WorldTypes, NEW d \in Dirs, run.visits[d].step = "listed"
  PROVE  /\ ReadLayers(d) \in [Dirs -> Texts \cup {None}]
         /\ ReadExclude \in Texts /\ Heard(mem.context, ReadExclude)
         /\ Follows(ReadLayers(d), d, run.visits[d].rules)
         /\ \A e \in ancestors(d) : Rules(e) = None \/ Past(Rules(e))
                                    => Follows(ReadLayers(d), e, Rules(e))
         /\ \A e \in Dirs : ReadLayers(d)[e] # None =>
               (e = d /\ run.visits[d].rules # None) \/ e \in ancestors(d)
<1> DEFINE v == run.visits[d]
           chain == v.chain \cup (IF v.rules = None THEN {} ELSE {d})
<1>1. ReadLayers(d) = [e \in Dirs |->
         IF e \notin chain THEN None
         ELSE IF run.layers[e] # None THEN run.layers[e]
         ELSE IF Layers[e] = None THEN Silent ELSE Layers[e]]
  BY DEF ReadLayers
<1>2. v.chain = {e \in ancestors(d) : Rules(e) # None}
  BY Steadily DEF Visited
<1>3. d \notin ancestors(d) /\ ancestors(d) \subseteq Dirs
  BY DEF ancestors
<1>4. \A e \in Dirs : Layers[e] \in Texts \cup {None} /\ (run.layers[e] # None => run.layers[e] \in Texts)
  BY LayersAre, Steadily DEF Layered
<1>5. ReadLayers(d) \in [Dirs -> Texts \cup {None}]
  BY <1>1, <1>4, ContentsAssumption
<1>6. ReadExclude \in Texts /\ Heard(mem.context, ReadExclude)
  BY Steadily DEF ReadExclude, Excluded, WorldTypes, Heard
<1>7. run.layers[d] = None
  BY Steadily DEF Layered
<1>8. Follows(ReadLayers(d), d, v.rules)
  <2>1. v.rules = None => ReadLayers(d)[d] = None
    BY <1>1, <1>2, <1>3
  <2>2. v.rules # None /\ RulesStamp(d) = v.rules => ReadLayers(d)[d] = tree[rules_of(d)].data
    BY <1>1, <1>7, LayersAre
  <2> QED
    BY <2>1, <2>2 DEF Follows
<1>9. ASSUME NEW e \in ancestors(d), Rules(e) = None \/ Past(Rules(e))
      PROVE  Follows(ReadLayers(d), e, Rules(e))
  <2>1. Rules(e) = None => ReadLayers(d)[e] = None
    BY <1>1, <1>2, <1>3
  <2>2. ASSUME Rules(e) # None, RulesStamp(e) = Rules(e)
        PROVE  ReadLayers(d)[e] = tree[rules_of(e)].data
    <3>1. e \in chain /\ e \in Dirs
      BY <1>2, <1>3, <2>2
    <3>2. CASE run.layers[e] # None
      BY <1>1, <1>9, <2>2, <3>1, <3>2, Steadily DEF Layered
    <3>3. CASE run.layers[e] = None
      BY <1>1, <2>2, <3>1, <3>3, LayersAre
    <3> QED
      BY <3>2, <3>3
  <2> QED
    BY <2>1, <2>2 DEF Follows
<1>10. \A e \in Dirs : ReadLayers(d)[e] # None => (e = d /\ v.rules # None) \/ e \in ancestors(d)
  BY <1>1, <1>2
<1> QED
  BY <1>5, <1>6, <1>8, <1>9, <1>10

\* The listing is exact when the directory is still the one that was listed.
LEMMA FilteredIs ==
  ASSUME Steady, WorldTypes, Inodes, NEW d \in Dirs, run.visits[d].step = "listed",
         NEW l, l = Filtered(d)
  PROVE  /\ l.stamp = run.visits[d].stamp /\ l.stamp \in Stamps /\ l.stamp.ino <= events
         /\ l.rules = IF l.nested /\ d # Root THEN None ELSE run.visits[d].rules
         /\ l.rules # None => l.rules \in Stamps /\ l.rules.ino <= events
         /\ l.dirs \subseteq Children(d) \cap Dirs /\ l \in Listings
         /\ l.nested = (git(d) \in run.visits[d].entries)
         /\ Past(l.stamp) /\ Live(d, l) => Exact(d, l, mem.context, [e \in Dirs |-> Rules(e)], Clear(d))
<1> DEFINE v == run.visits[d]
           nested == git(d) \in v.entries
           kept_entries == {p \in v.entries : p # git(d) /\ ~ignored(ReadLayers(d), ReadExclude, p)}
<1>1. l = IF nested /\ d # Root
          THEN [stamp |-> v.stamp, rules |-> None, nested |-> TRUE, files |-> {}, dirs |-> {}]
          ELSE [stamp |-> v.stamp, rules |-> v.rules, nested |-> nested,
                files |-> kept_entries \ Dirs, dirs |-> kept_entries \cap Dirs]
  BY DEF Filtered
<1>2. /\ v.stamp \in Stamps /\ v.stamp.ino <= events /\ v.entries \subseteq Children(d)
      /\ v.rules # None => v.rules \in Stamps /\ v.rules.ino <= events
      /\ Past(v.stamp) /\ StampOf(tree[d]) = v.stamp => v.entries = Kids(d)
      /\ (v.rules # None) = (rules_of(d) \in v.entries)
  BY Steadily DEF Looked
<1>11. kept_entries \subseteq Paths
  BY <1>2 DEF Children
<1>12. l \in Listings
  <2>1. CASE nested /\ d # Root
    BY <1>1, <1>2, <2>1 DEF Listings
  <2>2. CASE ~(nested /\ d # Root)
    <3>1. l = [stamp |-> v.stamp, rules |-> v.rules, nested |-> nested,
                files |-> kept_entries \ Dirs, dirs |-> kept_entries \cap Dirs]
      BY <1>1, <2>2
    <3>2. kept_entries \ Dirs \in SUBSET Files /\ kept_entries \cap Dirs \in SUBSET Dirs
      BY <1>11 DEF Files
    <3>3. nested \in BOOLEAN
      OBVIOUS
    <3> HIDE DEF nested, kept_entries
    <3> QED
      BY <1>2, <3>1, <3>2, <3>3 DEF Listings
  <2> QED
    BY <2>1, <2>2
<1>3. /\ l.stamp = v.stamp /\ l.nested = nested
      /\ l.rules = IF nested /\ d # Root THEN None ELSE v.rules
      /\ ~(nested /\ d # Root) => l.files = kept_entries \ Dirs /\ l.dirs = kept_entries \cap Dirs
      /\ nested /\ d # Root => l.dirs = {}
  <2>1. CASE nested /\ d # Root
    <3>1. l = [stamp |-> v.stamp, rules |-> None, nested |-> TRUE, files |-> {}, dirs |-> {}]
      BY <1>1, <2>1
    <3>2. nested = TRUE
      BY <2>1
    <3> HIDE DEF nested, v
    <3>3. /\ l.stamp = v.stamp /\ l.nested = TRUE /\ l.rules = None /\ l.dirs = {}
      BY <3>1
    <3> QED
      BY <2>1, <3>2, <3>3
  <2>2. CASE ~(nested /\ d # Root)
    <3>1. l = [stamp |-> v.stamp, rules |-> v.rules, nested |-> nested,
                files |-> kept_entries \ Dirs, dirs |-> kept_entries \cap Dirs]
      BY <1>1, <2>2
    <3> HIDE DEF nested, v, kept_entries
    <3> QED
      BY <2>2, <3>1
  <2> QED
    BY <2>1, <2>2
<1> HIDE DEF nested
<1>4. l.dirs \subseteq Children(d) \cap Dirs
  BY <1>2, <1>3
<1>5. ASSUME Past(l.stamp), Live(d, l)
      PROVE  Exact(d, l, mem.context, [e \in Dirs |-> Rules(e)], Clear(d))
  <2>1. v.entries = Kids(d)
    BY <1>2, <1>3, <1>5 DEF Live
  <2>2. /\ ReadLayers(d) \in [Dirs -> Texts \cup {None}]
        /\ ReadExclude \in Texts /\ Heard(mem.context, ReadExclude)
        /\ Follows(ReadLayers(d), d, v.rules)
        /\ \A e \in ancestors(d) : Rules(e) = None \/ Past(Rules(e))
                                   => Follows(ReadLayers(d), e, Rules(e))
    BY ReadIs
  <2>3. PICK L : L = IF nested /\ d # Root THEN [ReadLayers(d) EXCEPT ![d] = None] ELSE ReadLayers(d)
    OBVIOUS
  <2>4. L \in [Dirs -> Texts \cup {None}] /\ \A e \in Dirs : e # d => L[e] = ReadLayers(d)[e]
    BY <2>2, <2>3
  <2>5. nested /\ d # Root => L[d] = None
    BY <2>2, <2>3
  <2>6. Follows(L, d, l.rules)
    <3>1. CASE nested /\ d # Root
      BY <1>3, <2>5, <3>1 DEF Follows
    <3>2. CASE ~(nested /\ d # Root)
      BY <1>3, <2>2, <2>3, <3>2
    <3> QED
      BY <3>1, <3>2
  <2>7. \A e \in Clear(d) : Follows(L, e, [x \in Dirs |-> Rules(x)][e])
    <3>1. ASSUME NEW e \in Clear(d) PROVE Follows(L, e, [x \in Dirs |-> Rules(x)][e])
      <4>1. e \in ancestors(d) /\ e \in Dirs /\ e # d /\ Follows(ReadLayers(d), e, Rules(e))
        BY <2>2, <3>1 DEF Clear, ancestors
      <4>2. L[e] = ReadLayers(d)[e]
        BY <2>4, <4>1
      <4> QED
        BY <4>1, <4>2 DEF Follows
    <3> QED
      BY <3>1
  <2>8. Shows(d, l, L, ReadExclude)
    <3>1. CASE nested /\ d # Root
      BY <1>3, <2>1, <3>1 DEF Shows, nested
    <3>2. CASE ~(nested /\ d # Root)
      <4>1. L = ReadLayers(d)
        BY <2>3, <3>2
      <4>2. l.nested = (git(d) \in Kids(d)) /\ l.rules = v.rules
        BY <1>3, <2>1, <3>2 DEF nested
      <4>3. l.files = {p \in Kids(d) \ Dirs : p # git(d) /\ ~ignored(L, ReadExclude, p)}
        BY <1>3, <2>1, <3>2, <4>1
      <4>4. l.dirs = {p \in Kids(d) \cap Dirs : p # git(d) /\ ~ignored(L, ReadExclude, p)}
        BY <1>3, <2>1, <3>2, <4>1
      <4> QED
        BY <1>2, <2>1, <4>2, <4>3, <4>4 DEF Shows
    <3> QED
      BY <3>1, <3>2
  <2> QED
    BY <2>2, <2>4, <2>6, <2>7, <2>8 DEF Exact
<1> QED
  BY <1>2, <1>3, <1>4, <1>5, <1>12 DEF nested

\* What a listing does to the walk and the memory.
Lists(d, l, t, r) ==
    /\ run.phase = "walk" /\ run.visits[d].step = "listed"
    /\ l = Filtered(d) /\ (t => StaysTrusted(d, l)) /\ r = replay(run, d, l, t)
    /\ mem' = remember(mem, d, l)
    /\ run' = [r EXCEPT !.seen[d] = [stamp |-> l.stamp, rules |-> l.rules],
                    !.layers = [e \in Dirs |-> IF ReadLayers(d)[e] = None THEN @[e]
                                               ELSE ReadLayers(d)[e]],
                    !.exclude = IF NeedsExclude(d) THEN ReadExclude ELSE @]
    /\ UNCHANGED <<world, store, history, kept, watch, queue>>

\* Discovery.Filter is such a step.
LEMMA FilterLists ==
  ASSUME NEW d \in Dirs, Filter(d)
  PROVE  \E l, t, r : Lists(d, l, t, r)
<1>1. PICK l : l = Filtered(d)
  OBVIOUS
<1>2. PICK t : t = StaysTrusted(d, l)
  OBVIOUS
<1>3. PICK r : r = replay(run, d, l, t)
  OBVIOUS
<1> QED
  <2>1. /\ run.phase = "walk" /\ run.visits[d].step = "listed"
        /\ mem' = remember(mem, d, l)
        /\ run' = [replay(run, d, l, StaysTrusted(d, l)) EXCEPT
                    !.seen[d] = [stamp |-> l.stamp, rules |-> l.rules],
                    !.layers = [e \in Dirs |-> IF ReadLayers(d)[e] = None THEN @[e]
                                               ELSE ReadLayers(d)[e]],
                    !.exclude = IF NeedsExclude(d) THEN ReadExclude ELSE @]
        /\ UNCHANGED <<world, store, history, kept, watch, queue>>
    BY <1>1 DEF Filter, Visiting
  <2>2. replay(run, d, l, StaysTrusted(d, l)) = r
    BY <1>2, <1>3
  <2>3. t => StaysTrusted(d, l)
    BY <1>2
  <2>4. PICK q : q = replay(run, d, l, StaysTrusted(d, l))
    OBVIOUS
  <2>5. run' = [q EXCEPT
                    !.seen[d] = [stamp |-> l.stamp, rules |-> l.rules],
                    !.layers = [e \in Dirs |-> IF ReadLayers(d)[e] = None THEN @[e]
                                               ELSE ReadLayers(d)[e]],
                    !.exclude = IF NeedsExclude(d) THEN ReadExclude ELSE @]
    BY <2>1, <2>4
  <2>6. q = r
    BY <2>2, <2>4
  <2>7. Lists(d, l, t, r)
    BY <1>1, <1>3, <2>1, <2>3, <2>5, <2>6 DEF Lists
  <2> QED
    BY <2>7

\* The parts of a listing's step.
LEMMA ListsIs ==
  ASSUME Steady, RunTypes, WorldTypes, Inodes, NEW d \in Dirs, NEW l, NEW t, NEW r, Lists(d, l, t, r)
  PROVE  /\ Visits(d, l, t) /\ tree' = tree /\ exclude' = exclude
         /\ run'.seen[d] = [stamp |-> l.stamp, rules |-> l.rules] /\ run'.seen[d] \in Sightings
         /\ \A e \in Dirs : run'.layers[e] = IF ReadLayers(d)[e] = None THEN run.layers[e]
                                             ELSE ReadLayers(d)[e]
         /\ run'.exclude = IF NeedsExclude(d) THEN ReadExclude ELSE run.exclude
         /\ mem.fresh[d] = None /\ mem.settled = settled_before(now)
         /\ IF Past(l.stamp) /\ (l.rules # None => Past(l.rules))
            THEN mem'.fresh[d] = l ELSE mem'.fresh[d] = None
<1>1. /\ r.visits[d] = [run.visits[d] EXCEPT !.step = "done"]
      /\ \A e \in Dirs : e # d /\ ~Leads(d, l, e) => r.visits[e] = run.visits[e]
      /\ \A e \in Dirs : e # d /\ Leads(d, l, e) =>
            r.visits[e] = [step |-> "queued", trusted |-> t, chain |-> Below(d, l),
                           stamp |-> None, entries |-> {}, rules |-> None]
      /\ DOMAIN r = DOMAIN run /\ r.phase = run.phase /\ r.layers = run.layers
      /\ r.exclude = run.exclude /\ r.seen = run.seen
  BY ReplayIs DEF Lists
<1>2. PICK sight, ly, ex :
        /\ sight = [stamp |-> l.stamp, rules |-> l.rules]
        /\ ly = [e \in Dirs |-> IF ReadLayers(d)[e] = None THEN r.layers[e] ELSE ReadLayers(d)[e]]
        /\ ex = IF NeedsExclude(d) THEN ReadExclude ELSE r.exclude
  OBVIOUS
<1>3. run' = [r EXCEPT !.seen[d] = sight, !.layers = ly, !.exclude = ex]
  BY <1>2 DEF Lists
<1>4. /\ run'.visits = r.visits /\ run'.phase = run.phase /\ run'.layers = ly /\ run'.exclude = ex
      /\ run'.seen = [run.seen EXCEPT ![d] = sight]
  BY <1>1, <1>3 DEF RunTypes
<1>5. run'.seen[d] = sight /\ \A e \in Dirs : e # d => run'.seen[e] = run.seen[e]
  BY <1>4 DEF RunTypes
<1>6. /\ l.stamp \in Stamps /\ l.stamp.ino <= events
      /\ l.rules # None => l.rules \in Stamps /\ l.rules.ino <= events
      /\ l.dirs \subseteq Children(d) \cap Dirs
  BY FilteredIs DEF Lists
<1>7. sight \in Sightings /\ sight # None
  BY <1>2, <1>6, NoneAssumption DEF Sightings
<1>8. mem.settled = settled_before(now)
  BY DEF Steady, Memorised
<1>9. mem.fresh[d] = None
  BY Steadily DEF Saw, Remembered, Lists
<1>10. /\ mem'.stored = mem.stored /\ mem'.trusted = mem.trusted /\ mem'.context = mem.context
       /\ mem'.settled = mem.settled
       /\ \A e \in Dirs : e # d => mem'.fresh[e] = mem.fresh[e]
       /\ IF Past(l.stamp) /\ (l.rules # None => Past(l.rules))
          THEN mem'.fresh[d] = l ELSE mem'.fresh[d] = None
  <2>1. (Past(l.stamp) /\ (l.rules # None => Past(l.rules)))
        <=> is_settled(l.stamp, mem.settled) /\ settled(l.rules, mem.settled)
    BY <1>6, <1>8 DEF Past, settled
  <2>2. mem' = IF is_settled(l.stamp, mem.settled) /\ settled(l.rules, mem.settled)
               THEN [mem EXCEPT !.fresh[d] = l] ELSE mem
    BY DEF Lists, remember
  <2>3. CASE is_settled(l.stamp, mem.settled) /\ settled(l.rules, mem.settled)
    BY <2>1, <2>2, <2>3 DEF RunTypes
  <2>4. CASE ~(is_settled(l.stamp, mem.settled) /\ settled(l.rules, mem.settled))
    BY <1>9, <2>1, <2>2, <2>4
  <2> QED
    BY <2>3, <2>4
<1>11. events' = events /\ behind' = behind /\ UNCHANGED world /\ tree' = tree /\ exclude' = exclude
  BY DEF Lists, history, world
<1>12. Rules(d)' = l.rules
  <2>1. run'.seen[d] # None /\ run'.seen[d].rules = l.rules
    BY <1>2, <1>5, <1>7
  <2> QED
    BY <2>1 DEF Rules
<1>13. run.phase = "walk"
  BY DEF Lists
<1>14. Visits(d, l, t)
  <2>1. run.phase = "walk" /\ run'.phase = "walk"
    BY <1>4, <1>13
  <2>2. /\ run'.visits[d] = [run.visits[d] EXCEPT !.step = "done"]
        /\ \A e \in Dirs : e # d /\ ~Leads(d, l, e) => run'.visits[e] = run.visits[e]
        /\ \A e \in Dirs : e # d /\ Leads(d, l, e) =>
              run'.visits[e] = [step |-> "queued", trusted |-> t, chain |-> Below(d, l),
                                stamp |-> None, entries |-> {}, rules |-> None]
    BY <1>1, <1>4
  <2>3. \A e \in Dirs : e # d => run'.seen[e] = run.seen[e] /\ mem'.fresh[e] = mem.fresh[e]
    BY <1>5, <1>10
  <2>4. /\ mem'.stored = mem.stored /\ mem'.trusted = mem.trusted /\ mem'.context = mem.context
        /\ mem'.settled = mem.settled
    BY <1>10
  <2> QED
    BY <1>6, <1>11, <1>12, <2>1, <2>2, <2>3, <2>4 DEF Visits
<1> QED
  BY <1>1, <1>2, <1>4, <1>5, <1>7, <1>8, <1>9, <1>10, <1>11, <1>14

\* What was seen of a directory that is listed, beside its stored listing.
LEMMA FilterSaw ==
  ASSUME Steady, RunTypes, WorldTypes, Inodes, NEW d \in Dirs, NEW l, NEW t, NEW r, Lists(d, l, t, r)
  PROVE  Saw(d)'
<1>1. /\ Visits(d, l, t) /\ tree' = tree
      /\ run'.seen[d] = [stamp |-> l.stamp, rules |-> l.rules] /\ run'.seen[d] \in Sightings
      /\ IF Past(l.stamp) /\ (l.rules # None => Past(l.rules))
         THEN mem'.fresh[d] = l ELSE mem'.fresh[d] = None
  BY ListsIs
<1>2. /\ l.stamp = run.visits[d].stamp
      /\ l.rules = IF l.nested /\ d # Root THEN None ELSE run.visits[d].rules
      /\ l.rules # None => l.rules \in Stamps /\ l.rules.ino <= events
      /\ l.nested = (git(d) \in run.visits[d].entries)
  BY FilteredIs DEF Lists
<1>3. /\ old(d) # None /\ StampOf(tree[d]) = old(d).stamp => run.visits[d].stamp = old(d).stamp
      /\ Past(run.visits[d].stamp) /\ StampOf(tree[d]) = run.visits[d].stamp
         => run.visits[d].entries = Kids(d)
      /\ (run.visits[d].rules # None) = (rules_of(d) \in run.visits[d].entries)
      /\ old(d) # None /\ old(d).rules # None /\ RulesStamp(d) = old(d).rules
         => run.visits[d].rules = old(d).rules
  BY Steadily DEF Looked, Lists
<1>9. l \in Listings /\ l # None
  BY FilteredIs, NoneAssumption DEF Lists
<1>4. events' = events /\ old(d)' = old(d) /\ RulesStamp(d)' = RulesStamp(d)
  BY <1>1 DEF Visits, old, RulesStamp
<1>5. run'.visits[d].step = "done"
  BY <1>1, NoVisitDone DEF Visits
<1>6. ASSUME old(d) # None, Live(d, old(d))', mem'.fresh[d] = None
      PROVE  FALSE
  <2>1. Live(d, old(d))
    BY <1>1, <1>4, <1>6 DEF Live
  <2>2. /\ Past(old(d).stamp) /\ (old(d).rules # None => Past(old(d).rules))
        /\ Exact(d, old(d), mem.stored.context, RulesIn(mem.stored.listings),
                 ancestors(d) \cap Known(mem.stored.listings))
    BY <1>6, <2>1, Steadily DEF TrueStore, Known, TrueListing, old
  <2>3. l.stamp = old(d).stamp /\ run.visits[d].entries = Kids(d) /\ Past(l.stamp)
    BY <1>2, <1>3, <1>6, <2>1, <2>2 DEF Live
  <2>4. PICK L, ex : Shows(d, old(d), L, ex)
    BY <2>2 DEF Exact
  <2>5. old(d).rules = None => l.rules = None
    BY <1>2, <1>3, <2>3, <2>4 DEF Shows
  <2>6. old(d).rules # None => l.rules = None \/ l.rules = old(d).rules
    BY <1>2, <1>3, <1>6, <2>1 DEF Live
  <2>7. l.rules # None => Past(l.rules)
    BY <2>2, <2>5, <2>6
  <2>8. l # None
    BY <1>9
  <2> QED
    BY <1>1, <1>6, <2>3, <2>7, <2>8
<1> QED
  BY <1>1, <1>2, <1>4, <1>5, <1>6 DEF Saw

\* The listing that is remembered is true under the rules the walk went on by.
LEMMA FilterRemembered ==
  ASSUME Steady, RunTypes, WorldTypes, Inodes, NEW d \in Dirs, NEW l, NEW t, NEW r, Lists(d, l, t, r),
         mem.context # None
  PROVE  Remembered(d)'
<1>1. /\ Visits(d, l, t) /\ tree' = tree
      /\ run'.seen[d] = [stamp |-> l.stamp, rules |-> l.rules] /\ run'.seen[d] \in Sightings
      /\ IF Past(l.stamp) /\ (l.rules # None => Past(l.rules))
         THEN mem'.fresh[d] = l ELSE mem'.fresh[d] = None
  BY ListsIs
<1>2. /\ l.dirs \subseteq Children(d) \cap Dirs
      /\ Past(l.stamp) /\ Live(d, l)
         => Exact(d, l, mem.context, [e \in Dirs |-> Rules(e)], Clear(d))
  BY FilteredIs DEF Lists
<1>3. SUFFICES ASSUME mem'.fresh[d] # None
               PROVE  /\ run'.seen[d] # None
                      /\ run'.seen[d] = [stamp |-> mem'.fresh[d].stamp, rules |-> mem'.fresh[d].rules]
                      /\ TrueListing(d, mem.fresh[d], mem.context, [e \in Dirs |-> Rules(e)], Clear(d))'
  BY DEF Remembered
<1>4. mem'.fresh[d] = l /\ Past(l.stamp) /\ (l.rules # None => Past(l.rules))
  BY <1>1, <1>3
<1>5. PICK ctx : ctx = mem.context
  OBVIOUS
<1>6. PICK rs : rs = [e \in Dirs |-> Rules(e)]
  OBVIOUS
<1>7. PICK es : es = Clear(d)
  OBVIOUS
<1>8. TrueListing(d, l, ctx, rs, es)
  BY <1>2, <1>4, <1>5, <1>6, <1>7 DEF TrueListing
<1>9. es \subseteq Dirs /\ \A e \in es : rs[e] # None => Past(rs[e])
  BY <1>6, <1>7 DEF Clear, ancestors
<1>10. Onward /\ \A e \in ancestors(d) : Rules(e)' = Rules(e)
  BY <1>1, VisitsOthers, Steadily DEF Visited, ancestors, Lists, WorldTypes
<1>11. ctx.exclude \in Stamps /\ ctx.exclude.ino <= events /\ now' = now
  BY <1>1, <1>5, Steadily DEF WorldTypes, Visits, world
<1>12. TrueListing(d, l, ctx, rs, es)'
  BY <1>8, <1>9, <1>10, <1>11, TrueStays
<1>13. PICK rt : rt = [e \in Dirs |-> Rules(e)]'
  OBVIOUS
<1>14. PICK et : et = Clear(d)'
  OBVIOUS
<1>15. ASSUME NEW e \in et PROVE e \in es /\ rt[e] = rs[e]
  <2>1. e \in ancestors(d) /\ e \in Dirs /\ (Rules(e) = None \/ Past(Rules(e)))'
    BY <1>14 DEF Clear, ancestors
  <2>2. Rules(e)' = Rules(e)
    BY <1>10, <2>1
  <2>3. events' = events /\ now' = now
    BY <1>1 DEF Visits, world
  <2>4. Rules(e) = None \/ Past(Rules(e))
    BY <2>1, <2>2, <2>3 DEF Past
  <2> QED
    BY <1>6, <1>7, <1>13, <2>1, <2>2, <2>4 DEF Clear
<1>16. TrueListing(d, l, ctx, rt, et)'
  BY <1>12, <1>15 DEF TrueListing, Exact
<1>17. l = (mem.fresh[d])' /\ ctx = mem.context'
  BY <1>1, <1>4, <1>5 DEF Visits
<1>18. TrueListing(d, mem.fresh[d], mem.context, [e \in Dirs |-> Rules(e)], Clear(d))'
  BY <1>13, <1>14, <1>16, <1>17
<1> QED
  BY <1>1, <1>4, <1>18, NoneAssumption

\* The rules files that a listing reads are read as their stamps say.
LEMMA FilterLayered ==
  ASSUME Steady, RunTypes, WorldTypes, Inodes, NEW d \in Dirs, NEW l, NEW t, NEW r, Lists(d, l, t, r),
         NEW x \in Dirs
  PROVE  Layered(x)'
<1>1. /\ Visits(d, l, t) /\ tree' = tree
      /\ run'.layers[x] = IF ReadLayers(d)[x] = None THEN run.layers[x] ELSE ReadLayers(d)[x]
  BY ListsIs
<1>2. /\ ReadLayers(d) \in [Dirs -> Texts \cup {None}]
      /\ Follows(ReadLayers(d), d, run.visits[d].rules)
      /\ \A e \in ancestors(d) : Rules(e) = None \/ Past(Rules(e))
                                 => Follows(ReadLayers(d), e, Rules(e))
      /\ ReadLayers(d)[x] # None => (x = d /\ run.visits[d].rules # None) \/ x \in ancestors(d)
  BY ReadIs DEF Lists
<1>3. run'.visits[d].step = "done" /\ run.layers[d] = None
  <2>1. run'.visits[d].step = "done"
    BY <1>1, NoVisitDone DEF Visits
  <2>2. run.visits[d].step = "listed"
    BY DEF Lists
  <2> QED
    BY <2>1, <2>2, Steadily DEF Layered
<1>4. RulesStamp(x)' = RulesStamp(x) /\ events' = events /\ now' = now
  BY <1>1 DEF RulesStamp, Visits, world
<1>5. CASE ReadLayers(d)[x] = None
  <2>1. run'.layers[x] = run.layers[x]
    BY <1>1, <1>5
  <2>2. CASE x = d
    BY <1>3, <2>1, <2>2 DEF Layered
  <2>3. CASE x # d
    BY <1>1, <2>1, <2>3, VisitsOther DEF Lists, WorldTypes
  <2> QED
    BY <2>2, <2>3
<1>6. CASE ReadLayers(d)[x] # None /\ x = d
  <2>1. Rules(d)' = l.rules
    BY <1>1 DEF Visits
  <2>2. l.rules = None \/ l.rules = run.visits[d].rules
    BY FilteredIs DEF Lists
  <2>3. run'.layers[d] \in Texts
    BY <1>1, <1>2, <1>6
  <2>4. ASSUME l.rules # None, RulesStamp(d)' = l.rules PROVE run'.layers[d] = tree'[rules_of(d)].data
    BY <1>1, <1>2, <1>4, <1>6, <2>2, <2>4 DEF Follows
  <2> QED
    BY <1>3, <1>6, <2>1, <2>3, <2>4 DEF Layered
<1>7. CASE ReadLayers(d)[x] # None /\ x # d
  <2>1. x \in ancestors(d) /\ run.visits[x].step = "done"
    BY <1>2, <1>7, Steadily DEF Visited, Lists
  <2>2. Rules(x)' = Rules(x) /\ run'.visits[x].step = "done"
    BY <1>1, <2>1, VisitsOthers DEF Lists, WorldTypes
  <2>3. run'.layers[x] \in Texts /\ run'.layers[x] = ReadLayers(d)[x]
    BY <1>1, <1>2, <1>7
  <2>4. PICK s : s = Rules(x)
    OBVIOUS
  <2>5. ASSUME s # None, Past(s)', RulesStamp(x) = s PROVE ReadLayers(d)[x] = tree[rules_of(x)].data
    <3>1. Past(s)
      BY <1>4, <2>5 DEF Past
    <3> QED
      BY <1>2, <2>1, <2>4, <2>5, <3>1 DEF Follows
  <2> QED
    BY <1>1, <1>4, <2>2, <2>3, <2>4, <2>5 DEF Layered
<1> QED
  BY <1>5, <1>6, <1>7

\* A directory that is filtered (Discovery.Filter).
LEMMA FilterWalking ==
  ASSUME Steady, RunTypes, WorldTypes, Inodes, NEW d \in Dirs, Filter(d),
         mem.context # None
  PROVE  Walking'
<1>1. PICK l, t, r : Lists(d, l, t, r)
  BY FilterLists
<1>2. /\ Visits(d, l, t) /\ tree' = tree /\ exclude' = exclude
      /\ run'.exclude = IF NeedsExclude(d) THEN ReadExclude ELSE run.exclude
  BY <1>1, ListsIs
<1>3. \A x \in Dirs : Layered(x)'
  BY <1>1, FilterLayered
<1>4. Saw(d)' /\ Remembered(d)'
  BY <1>1, FilterSaw, FilterRemembered
<1>5. Excluded'
  <2>1. PICK ex : ex = IF NeedsExclude(d) THEN ReadExclude ELSE run.exclude
    OBVIOUS
  <2>2. PICK ctx : ctx = mem.context
    OBVIOUS
  <2>3. ex # None => ex \in Texts /\ Heard(ctx, ex)
    BY <1>1, <2>1, <2>2, ReadIs, Steadily DEF Excluded, Lists
  <2>4. ex # None => Heard(ctx, ex)'
    BY <1>2, <2>3 DEF Heard, Past, Visits, world
  <2>5. run'.exclude = ex /\ mem'.context = ctx /\ ctx # None /\ run'.phase # "idle"
    BY <1>2, <2>1, <2>2 DEF Visits
  <2>6. ex # None => Heard(mem.context, run.exclude)'
    BY <2>4, <2>5
  <2> QED
    BY <2>3, <2>5, <2>6 DEF Excluded
<1>6. t => /\ mem.trusted /\ old(d) # None /\ old(d).rules = l.rules /\ run.visits[d].trusted
  BY <1>1, Steadily DEF Lists, StaysTrusted, previous, old, Visited
<1>7. ~(l.nested /\ d # Root) =>
            (old(d) # None /\ old(d).rules # None /\ l.rules # old(d).rules
               => RulesStamp(d) # old(d).rules)
  BY <1>1, FilteredIs, Steadily DEF Lists, Looked
<1> QED
  BY <1>1, <1>2, <1>3, <1>4, <1>5, <1>6, <1>7, VisitsWalking DEF Lists, WorldTypes

\* A step of the program leaves the world as it is.
LEMMA StandsWorld ==
  ASSUME WorldTypes, Inodes, Rooted, Racy, UNCHANGED world, events' \in {events, events + 1}
  PROVE  WorldTypes' /\ Inodes' /\ Rooted' /\ Racy'
<1>1. now' = now /\ tree' = tree /\ exclude' = exclude /\ index' = index
  BY DEF world
<1>2. events \in Nat /\ events' \in Nat /\ events <= events'
  BY DEF WorldTypes
<1>3. WorldTypes'
  BY <1>1, <1>2 DEF WorldTypes
<1>4. Rooted' /\ Racy'
  BY <1>1 DEF Rooted, Racy, Present, Tracked
<1>5. ASSUME NEW p \in Paths, tree[p] # None PROVE tree[p].ino <= events'
  BY <1>2, <1>5, NodeIs DEF WorldTypes, Inodes
<1>6. ASSUME NEW p \in Tracked(index)
      PROVE  index.entries[p].stamp \in Stamps /\ index.entries[p].stamp.ino <= events'
  <2>1. index.entries[p].stamp \in Stamps /\ index.entries[p].stamp.ino <= events
    BY DEF Inodes
  <2>2. index.entries[p].stamp.ino \in Nat
    BY <2>1 DEF Stamps
  <2> QED
    BY <1>2, <2>1, <2>2
<1>7. Inodes'
  BY <1>1, <1>5, <1>6 DEF Inodes, Tracked
<1> QED
  BY <1>3, <1>4, <1>7

\* What a run and a memory begin with.
LEMMA IdleTypes ==
  /\ DOMAIN Idle = {"phase", "scope", "index", "visits", "layers", "exclude", "seen", "visited",
                     "files", "failed", "compare", "picked", "removed", "fresh"}
  /\ Idle.phase = "idle" /\ Idle.visits = [d \in Dirs |-> NoVisit]
  /\ Idle.layers = NoSeen /\ Idle.seen = NoSeen /\ Idle.exclude = None
  /\ DOMAIN Open = {"stored", "fresh", "fresh_staged", "context", "trusted", "used", "settled"}
  /\ Open.fresh = NoListings /\ Open.context = None /\ Open.trusted = FALSE /\ Open.stored = None
  /\ NoVisit.step = "no" /\ NoVisit.chain = {}
  /\ DOMAIN NoVisit = {"step", "trusted", "chain", "stamp", "entries", "rules"}
  BY DEF Idle, Open, NoVisit

\* Nothing is visited.
Unvisited == \A d \in Dirs : /\ run.visits[d].step = "no" /\ run.layers[d] = None
                             /\ run.seen[d] = None /\ mem.fresh[d] = None

\* Between two runs nothing is visited.
LEMMA UnvisitedIdle ==
  ASSUME run' = Idle, mem'.fresh = NoListings
  PROVE  Unvisited'
  BY IdleTypes DEF Unvisited, NoSeen, NoListings

\* A walk that has visited nothing has nothing wrong.
LEMMA UnvisitedWalking ==
  ASSUME Unvisited', run'.exclude = None
  PROVE  Walking'
<1>1. ASSUME NEW d \in Dirs
      PROVE  Visited(d)' /\ Looked(d)' /\ Saw(d)' /\ Remembered(d)' /\ Layered(d)'
  <2>1. /\ run'.visits[d].step = "no" /\ run'.layers[d] = None
        /\ run'.seen[d] = None /\ mem'.fresh[d] = None
    BY DEF Unvisited
  <2> QED
    BY <2>1 DEF Visited, Looked, Saw, Remembered, Layered
<1>2. Excluded'
  BY DEF Excluded
<1> QED
  BY <1>1, <1>2 DEF Walking

-----------------------------------------------------------------------------
(* The first steps of a run *)

\* A run begins, on the memory's file or on what the session has of it.
LEMMA StartRun ==
  ASSUME RunTypes, Before, NEW scope \in Scopes, Start(scope)
  PROVE  /\ RunTypes' /\ Before' /\ Memorised' /\ Walking'
         /\ mem'.stored \in {mem.stored, store, Stored} /\ mem'.stored # None
         /\ mem'.stored = store => store # None
         /\ run'.scope = scope /\ run'.index = Opened /\ mem'.fresh_staged = mem.fresh_staged
         /\ Unvisited' /\ run'.phase = "open" /\ mem'.context = None
<1>1. /\ run.phase = "idle" /\ run' = [Idle EXCEPT !.phase = "open", !.scope = scope, !.index = Opened]
      /\ mem' = next_run(load(mem, store), now) /\ now' = now
  BY DEF Start, world
<1>2. run = Idle /\ Unvisited /\ mem.context = None /\ ~mem.trusted
  BY <1>1 DEF Before, Unvisited
<1>3. /\ DOMAIN run' = DOMAIN Idle /\ run'.phase = "open" /\ run'.scope = scope /\ run'.index = Opened
      /\ run'.visits = Idle.visits /\ run'.layers = Idle.layers /\ run'.seen = Idle.seen
      /\ run'.exclude = Idle.exclude
  BY <1>1, IdleTypes
<1>4. PICK m : m = load(mem, store)
  OBVIOUS
<1>5. /\ DOMAIN m = DOMAIN mem /\ m.fresh = mem.fresh /\ m.context = mem.context
      /\ m.trusted = mem.trusted /\ m.fresh_staged = mem.fresh_staged
      /\ m.stored \in {mem.stored, store, Stored} /\ m.stored # None
      /\ m.stored = store => store # None
  BY <1>4, NoneAssumption DEF load, RunTypes
<1>6. /\ DOMAIN mem' = DOMAIN m /\ mem'.stored = m.stored /\ mem'.fresh = m.fresh
      /\ mem'.context = m.context /\ mem'.trusted = m.trusted
      /\ mem'.settled = settled_before(now) /\ mem'.fresh_staged = m.fresh_staged
  BY <1>1, <1>4, <1>5 DEF next_run, RunTypes
<1>7. Unvisited'
  BY <1>2, <1>3, <1>5, <1>6, IdleTypes DEF Unvisited, NoSeen
<1>8. RunTypes'
  BY <1>3, <1>5, <1>6, IdleTypes DEF RunTypes, NoSeen
<1>9. Before'
  BY <1>2, <1>3, <1>5, <1>6, <1>7, IdleTypes DEF Before, Unvisited
<1>10. Memorised'
  BY <1>1, <1>2, <1>3, <1>5, <1>6, <1>7 DEF Memorised, Unvisited
<1>11. Walking'
  BY <1>3, <1>7, IdleTypes, UnvisitedWalking
<1> QED
  BY <1>2, <1>3, <1>5, <1>6, <1>7, <1>8, <1>9, <1>10, <1>11

\* A run over tracked files visits nothing.
LEMMA NamesRun ==
  ASSUME RunTypes, Before, Memorised, NamesTracked
  PROVE  /\ RunTypes' /\ Before' /\ Memorised' /\ Walking'
         /\ Unvisited' /\ run'.phase = "done" /\ run.phase = "open" /\ mem' = mem
<1>1. /\ run.phase = "open" /\ mem' = mem /\ now' = now
      /\ run' = [run EXCEPT !.phase = "done", !.files =
                 {p \in run.scope.paths : source_file(run.scope, p) /\ Present(p)}]
  BY DEF NamesTracked, session, world
<1>2. Unvisited /\ run.exclude = None /\ mem.context = None /\ ~mem.trusted
  BY <1>1 DEF Before, Unvisited
<1>3. /\ DOMAIN run' = DOMAIN run /\ run'.phase = "done" /\ run'.visits = run.visits
      /\ run'.layers = run.layers /\ run'.seen = run.seen /\ run'.exclude = run.exclude
  BY <1>1 DEF RunTypes
<1>4. Unvisited'
  BY <1>1, <1>2, <1>3 DEF Unvisited
<1>5. RunTypes' /\ Before'
  BY <1>1, <1>3 DEF RunTypes, Before
<1>6. Memorised'
  BY <1>1, <1>2, <1>3 DEF Memorised
<1>7. Walking'
  BY <1>2, <1>3, <1>4, UnvisitedWalking
<1> QED
  BY <1>1, <1>3, <1>4, <1>5, <1>6, <1>7

\* The walk begins at the root.
LEMMA BeginRun ==
  ASSUME WorldTypes, RunTypes, Before, Memorised, Begin
  PROVE  /\ RunTypes' /\ Before' /\ Memorised' /\ Walking'
         /\ mem'.stored = mem.stored /\ mem'.fresh_staged = mem.fresh_staged
         /\ mem' = begin(mem, [exclude |-> StampOf(exclude)])
         /\ mem'.context = [exclude |-> StampOf(exclude)]
         /\ run'.phase = "walk" /\ run'.scope = run.scope /\ run'.index = run.index
         /\ run'.files = run.files /\ run'.visited = run.visited /\ run'.exclude = None
         /\ run'.visits[Root].step = "queued" /\ run'.visits[Root].trusted = mem'.trusted
         /\ \A d \in Dirs : /\ d # Root => run'.visits[d].step = "no"
                            /\ run'.layers[d] = None /\ run'.seen[d] = None
                            /\ mem'.fresh[d] = None
         /\ run'.failed = run.failed /\ run'.picked = run.picked /\ run'.removed = run.removed
         /\ run'.compare = IF every(run.scope) THEN "done" ELSE "pick"
<1>1. PICK ctx, cmp, tr, v : /\ ctx = [exclude |-> StampOf(exclude)] /\ tr = mem'.trusted
                      /\ cmp = (IF every(run.scope) THEN "done" ELSE "pick")
                      /\ v = [NoVisit EXCEPT !.step = "queued", !.trusted = mem'.trusted]
  OBVIOUS
<1>2. /\ run.phase = "open" /\ mem' = begin(mem, ctx) /\ UNCHANGED world
      /\ run' = [run EXCEPT !.phase = "walk", !.compare = cmp, !.visits[Root] = v]
  BY <1>1 DEF Begin
<1>3. Root \in Dirs
  BY PathsAssumption
<1>4. v.step = "queued" /\ v.trusted = tr /\ v.chain = {} /\ DOMAIN v = DOMAIN NoVisit
  BY <1>1, IdleTypes
<1>5. /\ DOMAIN run' = DOMAIN run /\ run'.phase = "walk" /\ run'.compare = cmp
      /\ run'.visits = [run.visits EXCEPT ![Root] = v]
      /\ run'.layers = run.layers /\ run'.seen = run.seen /\ run'.exclude = run.exclude
      /\ run'.scope = run.scope /\ run'.index = run.index
      /\ run'.files = run.files /\ run'.visited = run.visited
      /\ run'.failed = run.failed /\ run'.picked = run.picked /\ run'.removed = run.removed
  BY <1>2 DEF RunTypes
<1>6. /\ DOMAIN run'.visits = Dirs /\ run'.visits[Root] = v
      /\ \A d \in Dirs : d # Root => run'.visits[d] = run.visits[d]
  BY <1>3, <1>5 DEF RunTypes
<1>7. /\ DOMAIN mem' = DOMAIN mem /\ mem'.stored = mem.stored /\ mem'.fresh = mem.fresh
      /\ mem'.context = ctx /\ mem'.settled = mem.settled /\ mem'.fresh_staged = mem.fresh_staged
      /\ mem'.trusted => mem.stored.context = ctx
  BY <1>2 DEF begin, RunTypes
<1>8. /\ \A d \in Dirs : /\ run.visits[d].step = "no" /\ run.layers[d] = None
                         /\ run.seen[d] = None /\ mem.fresh[d] = None
      /\ run.exclude = None
  BY <1>2 DEF Before
<1>9. RunTypes'
  BY <1>4, <1>5, <1>6, <1>7, IdleTypes DEF RunTypes
<1>10. Before'
  BY <1>5 DEF Before
<1>11. /\ ctx # None /\ ctx.exclude = StampOf(exclude) /\ ctx.exclude \in Stamps
       /\ ctx.exclude.ino = 0 /\ ctx.exclude.mtime = ctx.exclude.ctime
  <2>1. exclude # None
    BY NoneAssumption DEF WorldTypes
  <2>2. StampOf(exclude) = [ino |-> 0, mtime |-> exclude.mtime, ctime |-> exclude.ctime]
    BY <2>1 DEF StampOf, WorldTypes
  <2>3. StampOf(exclude) \in Stamps
    BY <2>2 DEF Stamps, WorldTypes
  <2>4. ctx \in [exclude : Stamps]
    BY <1>1, <2>3
  <2> QED
    BY <1>1, <2>2, <2>3, <2>4, NoneAssumption DEF WorldTypes
<1>12. Memorised'
  BY <1>2, <1>5, <1>7, <1>11 DEF Memorised, world
<1>13. ASSUME NEW d \in Dirs
      PROVE  Visited(d)' /\ Looked(d)' /\ Saw(d)' /\ Remembered(d)' /\ Layered(d)'
  <2>1. /\ run'.visits[d].step \in {"no", "queued"} /\ run'.layers[d] = None
        /\ run'.seen[d] = None /\ mem'.fresh[d] = None
    BY <1>4, <1>5, <1>6, <1>7, <1>8
  <2>2. Looked(d)' /\ Saw(d)' /\ Remembered(d)' /\ Layered(d)'
    BY <2>1 DEF Looked, Saw, Remembered, Layered
  <2>3. Visited(d)'
    <3>1. CASE d = Root
      <4>1. ancestors(Root) = {}
        BY <1>3, PathsAssumption, AncestorsOf
      <4> QED
        BY <1>1, <1>4, <1>6, <3>1, <4>1 DEF Visited
    <3>2. CASE d # Root
      BY <1>6, <1>8, <3>2 DEF Visited
    <3> QED
      BY <3>1, <3>2
  <2> QED
    BY <2>2, <2>3
<1>14. Walking'
  BY <1>5, <1>8, <1>13 DEF Walking, Excluded
<1>15. /\ run'.visits[Root].step = "queued" /\ run'.visits[Root].trusted = mem'.trusted
       /\ \A d \in Dirs : /\ d # Root => run'.visits[d].step = "no"
                          /\ run'.layers[d] = None /\ run'.seen[d] = None
                          /\ mem'.fresh[d] = None
  <2>1. run'.visits[Root].step = "queued"
    BY <1>4, <1>6
  <2>2. run'.visits[Root].trusted = tr
    BY <1>4, <1>6
  <2>3. tr = mem'.trusted
    BY <1>1
  <2>4. \A d \in Dirs : /\ d # Root => run'.visits[d].step = "no"
                        /\ run'.layers[d] = None /\ run'.seen[d] = None
                        /\ mem'.fresh[d] = None
    BY <1>5, <1>6, <1>7, <1>8
  <2> QED
    BY <2>1, <2>2, <2>3, <2>4
<1>16. mem' = begin(mem, [exclude |-> StampOf(exclude)])
       /\ mem'.context = [exclude |-> StampOf(exclude)]
  BY <1>1, <1>2, <1>7
<1>17. run'.compare = IF every(run.scope) THEN "done" ELSE "pick"
  BY <1>1, <1>5
<1> QED
  BY <1>5, <1>7, <1>8, <1>9, <1>10, <1>12, <1>14, <1>15, <1>16, <1>17

-----------------------------------------------------------------------------
(* The comparison and the end of a run *)

\* What these steps leave alone, besides the walk (Stays).
StaysRun ==
    /\ DOMAIN run' = DOMAIN run /\ DOMAIN mem' = DOMAIN mem
    /\ run.phase \in {"walk", "settle"} /\ run'.phase \in {"walk", "settle", "done"}
    /\ run'.scope = run.scope /\ run'.index = run.index

\* The comparison and the end of a run leave the walk alone.
LEMMA RestIs ==
  ASSUME WorldTypes, RunTypes, Compare \/ Settle \/ Recheck
  PROVE  StaysRun /\ Stays
<1>1. CASE Pick
  <2>1. run.phase = "walk"
    BY <1>1 DEF Pick
  <2>2. PICK cmp, pk : run' = [run EXCEPT !.compare = cmp, !.picked = pk]
    <3>1. CASE watch = None
      BY <1>1, <3>1 DEF Pick
    <3>2. CASE watch # None
      BY <1>1, <3>2 DEF Pick
    <3> QED
      BY <3>1, <3>2
  <2>3. UNCHANGED world /\ behind' = behind /\ mem' = mem /\ events' \in {events, events + 1}
    BY <1>1 DEF Pick, Happens
  <2>4. Onward
    BY <2>3, StandsOnward DEF WorldTypes
  <2>5. /\ DOMAIN run' = DOMAIN run /\ run'.phase = run.phase /\ run'.scope = run.scope
        /\ run'.index = run.index /\ run'.visits = run.visits /\ run'.seen = run.seen
        /\ run'.layers = run.layers /\ run'.exclude = run.exclude
    BY <2>2 DEF RunTypes
  <2> QED
    BY <2>1, <2>3, <2>4, <2>5 DEF StaysRun, Stays, world
<1>2. CASE Stat
  <2>1. run.phase = "walk"
    BY <1>2 DEF Stat
  <2>2. PICK fs, rm : run' = [run EXCEPT !.compare = "done", !.picked = {}, !.files = fs, !.removed = rm]
    BY <1>2 DEF Stat
  <2>3. UNCHANGED world /\ behind' = behind /\ mem' = mem /\ events' = events
    BY <1>2 DEF Stat, history
  <2>4. Onward
    BY <2>3, StandsOnward DEF WorldTypes
  <2>5. /\ DOMAIN run' = DOMAIN run /\ run'.phase = run.phase /\ run'.scope = run.scope
        /\ run'.index = run.index /\ run'.visits = run.visits /\ run'.seen = run.seen
        /\ run'.layers = run.layers /\ run'.exclude = run.exclude
    BY <2>2 DEF RunTypes
  <2> QED
    BY <2>1, <2>3, <2>4, <2>5 DEF StaysRun, Stays, world
<1>3. CASE Settle
  <2>1. run.phase = "walk"
    BY <1>3 DEF Settle, Walked
  <2>2. PICK fs, fr : run' = [run EXCEPT !.phase = "settle", !.files = fs, !.fresh = fr]
    BY <1>3 DEF Settle
  <2>3. UNCHANGED world /\ behind' = behind /\ events' \in {events, events + 1}
    BY <1>3 DEF Settle, Happens
  <2>4. Onward
    BY <2>3, StandsOnward DEF WorldTypes
  <2>5. /\ DOMAIN run' = DOMAIN run /\ run'.phase = "settle" /\ run'.scope = run.scope
        /\ run'.index = run.index /\ run'.visits = run.visits /\ run'.seen = run.seen
        /\ run'.layers = run.layers /\ run'.exclude = run.exclude
    BY <2>2 DEF RunTypes
  <2>6. \/ mem' = mem \/ mem' = [mem EXCEPT !.fresh_staged = NewStaged]
    BY <1>3 DEF Settle, remember_staged
  <2>7. /\ mem'.stored = mem.stored /\ mem'.trusted = mem.trusted /\ mem'.context = mem.context
        /\ mem'.fresh = mem.fresh /\ mem'.settled = mem.settled /\ DOMAIN mem' = DOMAIN mem
    <3>1. CASE mem' = mem
      BY <3>1
    <3>2. CASE mem' = [mem EXCEPT !.fresh_staged = NewStaged]
      BY <3>2 DEF RunTypes
    <3> QED
      BY <2>6, <3>1, <3>2
  <2> QED
    BY <2>1, <2>3, <2>4, <2>5, <2>7 DEF StaysRun, Stays, world
<1>4. CASE Recheck
  <2>1. run.phase = "settle" /\ run' = [run EXCEPT !.phase = "done"]
    BY <1>4 DEF Recheck
  <2>3. UNCHANGED world /\ behind' = behind /\ mem' = mem /\ events' = events
    BY <1>4 DEF Recheck, history
  <2>4. Onward
    BY <2>3, StandsOnward DEF WorldTypes
  <2>5. /\ DOMAIN run' = DOMAIN run /\ run'.phase = "done" /\ run'.scope = run.scope
        /\ run'.index = run.index /\ run'.visits = run.visits /\ run'.seen = run.seen
        /\ run'.layers = run.layers /\ run'.exclude = run.exclude
    BY <2>1 DEF RunTypes
  <2> QED
    BY <2>1, <2>3, <2>4, <2>5 DEF StaysRun, Stays, world
<1> QED
  BY <1>1, <1>2, <1>3, <1>4 DEF Compare

\* They keep the shape of the run and of the memory.
LEMMA RestRun ==
  ASSUME WorldTypes, RunTypes, Before, Memorised, Compare \/ Settle \/ Recheck
  PROVE  RunTypes' /\ Before' /\ Memorised'
<1>1. StaysRun /\ Stays
  BY RestIs
<1>2. RunTypes' /\ Before'
  BY <1>1 DEF StaysRun, Stays, RunTypes, Before
<1>3. Memorised'
  BY <1>1 DEF StaysRun, Stays, Memorised
<1> QED
  BY <1>2, <1>3

\* A visit's step keeps the shape of the run and of the memory.
VisitFrame ==
    /\ DOMAIN run' = DOMAIN run /\ DOMAIN mem' = DOMAIN mem
    /\ DOMAIN run'.visits = Dirs /\ DOMAIN run'.layers = Dirs /\ DOMAIN run'.seen = Dirs
    /\ \A e \in Dirs : DOMAIN run'.visits[e] = DOMAIN NoVisit
    /\ DOMAIN mem'.fresh = Dirs
    /\ run.phase = "walk" /\ run'.phase = "walk"
    /\ run'.scope = run.scope /\ run'.index = run.index
    /\ mem'.stored = mem.stored /\ mem'.trusted = mem.trusted /\ mem'.context = mem.context
    /\ mem'.settled = mem.settled /\ mem'.fresh_staged = mem.fresh_staged
    /\ UNCHANGED <<world, store, runs, quiet, behind, kept, watch, queue>>
    /\ events' \in {events, events + 1}

\* A replay keeps the shape of the run.
LEMMA ReplayFrame ==
  ASSUME RunTypes, NEW d \in Dirs, NEW l, NEW t, NEW r, r = replay(run, d, l, t)
  PROVE  /\ \A e \in Dirs : DOMAIN r.visits[e] = DOMAIN NoVisit
         /\ DOMAIN r = DOMAIN run /\ DOMAIN r.visits = Dirs /\ r.layers = run.layers
         /\ r.seen = run.seen /\ r.phase = run.phase /\ r.scope = run.scope /\ r.index = run.index
<1>1. /\ r.visits[d] = [run.visits[d] EXCEPT !.step = "done"]
      /\ \A e \in Dirs : e # d /\ ~Leads(d, l, e) => r.visits[e] = run.visits[e]
      /\ \A e \in Dirs : e # d /\ Leads(d, l, e) =>
            r.visits[e] = [step |-> "queued", trusted |-> t, chain |-> Below(d, l),
                           stamp |-> None, entries |-> {}, rules |-> None]
      /\ DOMAIN r = DOMAIN run /\ DOMAIN r.visits = Dirs /\ r.layers = run.layers
      /\ r.seen = run.seen /\ r.phase = run.phase /\ r.scope = run.scope /\ r.index = run.index
  BY ReplayIs
<1>2. DOMAIN NoVisit = {"step", "trusted", "chain", "stamp", "entries", "rules"}
  BY IdleTypes
<1>3. ASSUME NEW e \in Dirs PROVE DOMAIN r.visits[e] = DOMAIN NoVisit
  <2>1. CASE e = d
    BY <1>1, <1>2, <2>1 DEF RunTypes
  <2>2. CASE e # d /\ ~Leads(d, l, e)
    BY <1>1, <1>2, <2>2 DEF RunTypes
  <2>3. CASE e # d /\ Leads(d, l, e)
    <3>1. r.visits[e] = [step |-> "queued", trusted |-> t, chain |-> Below(d, l),
                           stamp |-> None, entries |-> {}, rules |-> None]
      BY <1>1, <2>3
    <3> QED
      BY <1>2, <3>1
  <2> QED
    BY <2>1, <2>2, <2>3
<1> QED
  BY <1>1, <1>3

\* So does every step of a visit, and it changes nothing but run and memory.
LEMMA VisitIs ==
  ASSUME RunTypes, NEW d \in Dirs, Visit(d)
  PROVE  VisitFrame
<1>0. DOMAIN NoVisit = {"step", "trusted", "chain", "stamp", "entries", "rules"}
  BY IdleTypes
<1>1. CASE Vouch(d)
  <2>1. PICK l, t : l = vouched(d) /\ t = TRUE
    OBVIOUS
  <2>2. PICK r : r = replay(run, d, l, t)
    OBVIOUS
  <2>3. run.phase = "walk" /\ run' = r /\ mem' = use(mem, d)
        /\ UNCHANGED <<world, store, history, kept, watch, queue>>
    BY <1>1, <2>1, <2>2 DEF Vouch, Visiting
  <2>4. /\ DOMAIN mem' = DOMAIN mem /\ mem'.fresh = mem.fresh
        /\ mem'.stored = mem.stored /\ mem'.trusted = mem.trusted /\ mem'.context = mem.context
        /\ mem'.settled = mem.settled /\ mem'.fresh_staged = mem.fresh_staged
    BY <2>3 DEF use, RunTypes
  <2>5. /\ \A e \in Dirs : DOMAIN r.visits[e] = DOMAIN NoVisit
         /\ DOMAIN r = DOMAIN run /\ DOMAIN r.visits = Dirs /\ r.layers = run.layers
         /\ r.seen = run.seen /\ r.phase = run.phase /\ r.scope = run.scope /\ r.index = run.index
    BY <2>2, ReplayFrame
  <2> QED
    BY <2>3, <2>4, <2>5 DEF VisitFrame, RunTypes, history
<1>2. CASE Replay(d)
  <2>1. PICK l, t : l = replayed(d) /\ t = TRUE
    OBVIOUS
  <2>2. PICK r : r = replay(run, d, l, t)
    OBVIOUS
  <2>3. run.phase = "walk" /\ mem' = use(mem, d)
        /\ run' = [r EXCEPT !.seen[d] = [stamp |-> l.stamp, rules |-> l.rules]]
        /\ UNCHANGED <<world, store, history, kept, watch, queue>>
    BY <1>2, <2>1, <2>2 DEF Replay, Visiting
  <2>4. /\ DOMAIN mem' = DOMAIN mem /\ mem'.fresh = mem.fresh
        /\ mem'.stored = mem.stored /\ mem'.trusted = mem.trusted /\ mem'.context = mem.context
        /\ mem'.settled = mem.settled /\ mem'.fresh_staged = mem.fresh_staged
    BY <2>3 DEF use, RunTypes
  <2>5. /\ \A e \in Dirs : DOMAIN r.visits[e] = DOMAIN NoVisit
         /\ DOMAIN r = DOMAIN run /\ DOMAIN r.visits = Dirs /\ r.layers = run.layers
         /\ r.seen = run.seen /\ r.phase = run.phase /\ r.scope = run.scope /\ r.index = run.index
    BY <2>2, ReplayFrame
  <2>6. /\ DOMAIN run' = DOMAIN r /\ run'.visits = r.visits /\ run'.layers = r.layers
        /\ DOMAIN run'.seen = DOMAIN r.seen /\ run'.phase = r.phase /\ run'.scope = r.scope
        /\ run'.index = r.index
    BY <2>3, <2>5 DEF RunTypes
  <2> QED
    BY <2>3, <2>4, <2>5, <2>6 DEF VisitFrame, RunTypes, history
<1>3. CASE Filter(d)
  <2>1. PICK l, t, r : Lists(d, l, t, r)
    BY <1>3, FilterLists
  <2>2. PICK ly, ex, s : run' = [r EXCEPT !.seen[d] = s, !.layers = ly, !.exclude = ex]
                         /\ DOMAIN ly = Dirs
    <3>1. PICK ly, ex, s :
            /\ s = [stamp |-> l.stamp, rules |-> l.rules]
            /\ ly = [e \in Dirs |-> IF ReadLayers(d)[e] = None THEN r.layers[e] ELSE ReadLayers(d)[e]]
            /\ ex = IF NeedsExclude(d) THEN ReadExclude ELSE r.exclude
      OBVIOUS
    <3>2. run' = [r EXCEPT !.seen[d] = s, !.layers = ly, !.exclude = ex]
      BY <2>1, <3>1 DEF Lists
    <3>3. DOMAIN ly = Dirs
      BY <3>1
    <3> QED
      BY <3>2, <3>3
  <2>3. run.phase = "walk" /\ mem' = remember(mem, d, l) /\ r = replay(run, d, l, t)
        /\ UNCHANGED <<world, store, history, kept, watch, queue>>
    BY <2>1 DEF Lists
  <2>4. /\ DOMAIN mem' = DOMAIN mem /\ DOMAIN mem'.fresh = Dirs
        /\ mem'.stored = mem.stored /\ mem'.trusted = mem.trusted /\ mem'.context = mem.context
        /\ mem'.settled = mem.settled /\ mem'.fresh_staged = mem.fresh_staged
    <3>1. mem' = mem \/ mem' = [mem EXCEPT !.fresh[d] = l]
      BY <2>3 DEF remember
    <3>2. CASE mem' = mem
      BY <3>2 DEF RunTypes
    <3>3. CASE mem' = [mem EXCEPT !.fresh[d] = l]
      BY <3>3 DEF RunTypes
    <3> QED
      BY <3>1, <3>2, <3>3
  <2>5. /\ \A e \in Dirs : DOMAIN r.visits[e] = DOMAIN NoVisit
         /\ DOMAIN r = DOMAIN run /\ DOMAIN r.visits = Dirs /\ r.layers = run.layers
         /\ r.seen = run.seen /\ r.phase = run.phase /\ r.scope = run.scope /\ r.index = run.index
    BY <2>3, ReplayFrame
  <2>6. /\ DOMAIN run' = DOMAIN r /\ run'.visits = r.visits /\ run'.layers = ly
        /\ DOMAIN run'.seen = DOMAIN r.seen /\ run'.phase = r.phase /\ run'.scope = r.scope
        /\ run'.index = r.index
    BY <2>2, <2>5 DEF RunTypes
  <2> QED
    BY <2>2, <2>3, <2>4, <2>5, <2>6 DEF VisitFrame, RunTypes, history
<1>4. CASE Look(d)
  <2>1. PICK v : v = StampOf(tree[d])
    OBVIOUS
  <2>2. run.phase = "walk" /\ run' = [run EXCEPT !.visits[d].step = "stat", !.visits[d].stamp = v]
        /\ UNCHANGED <<world, store, history, session>>
    BY <1>4, <2>1 DEF Look, Visiting
  <2>3. /\ DOMAIN run' = DOMAIN run /\ DOMAIN run'.visits = Dirs
        /\ \A e \in Dirs : DOMAIN run'.visits[e] = DOMAIN NoVisit
        /\ run'.phase = run.phase /\ run'.scope = run.scope /\ run'.index = run.index
        /\ run'.layers = run.layers /\ run'.seen = run.seen
    BY <1>0, <2>2 DEF RunTypes
  <2> QED
    BY <2>2, <2>3 DEF VisitFrame, RunTypes, session, history
<1>5. CASE List(d)
  <2>1. PICK es, rs : run' = [run EXCEPT !.visits[d] = [@ EXCEPT
                 !.step = "listed", !.entries = es, !.rules = rs]]
    BY <1>5 DEF List
  <2>2. run.phase = "walk" /\ UNCHANGED <<world, store, history, session>>
    BY <1>5, <2>1 DEF List, Visiting
  <2>3. /\ DOMAIN run' = DOMAIN run /\ DOMAIN run'.visits = Dirs
        /\ \A e \in Dirs : DOMAIN run'.visits[e] = DOMAIN NoVisit
        /\ run'.phase = run.phase /\ run'.scope = run.scope /\ run'.index = run.index
        /\ run'.layers = run.layers /\ run'.seen = run.seen
    BY <1>0, <2>1 DEF RunTypes
  <2> QED
    BY <2>2, <2>3 DEF VisitFrame, RunTypes, session, history
<1>6. CASE Gone(d)
  <2>1. run' = [run EXCEPT !.visits[d].step = "done"]
        /\ run.phase = "walk" /\ UNCHANGED <<world, store, history, session>>
    BY <1>6 DEF Gone
  <2>2. /\ DOMAIN run' = DOMAIN run /\ DOMAIN run'.visits = Dirs
        /\ \A e \in Dirs : DOMAIN run'.visits[e] = DOMAIN NoVisit
        /\ run'.phase = run.phase /\ run'.scope = run.scope /\ run'.index = run.index
        /\ run'.layers = run.layers /\ run'.seen = run.seen
    BY <1>0, <2>1 DEF RunTypes
  <2> QED
    BY <2>1, <2>2 DEF VisitFrame, RunTypes, session, history
<1>7. CASE Unreadable(d)
  <2>1. run' = [run EXCEPT !.visits[d].step = "done", !.failed = TRUE]
        /\ run.phase = "walk" /\ UNCHANGED <<world, store, runs, quiet, behind, session>>
        /\ events' \in {events, events + 1}
    BY <1>7 DEF Unreadable, Visiting, Happens
  <2>2. /\ DOMAIN run' = DOMAIN run /\ DOMAIN run'.visits = Dirs
        /\ \A e \in Dirs : DOMAIN run'.visits[e] = DOMAIN NoVisit
        /\ run'.phase = run.phase /\ run'.scope = run.scope /\ run'.index = run.index
        /\ run'.layers = run.layers /\ run'.seen = run.seen
    BY <1>0, <2>1 DEF RunTypes
  <2> QED
    BY <2>1, <2>2 DEF VisitFrame, RunTypes, session
<1> QED
  BY <1>1, <1>2, <1>3, <1>4, <1>5, <1>6, <1>7 DEF Visit

\* A visit's step keeps what the memory is to the run.
LEMMA VisitRun ==
  ASSUME WorldTypes, RunTypes, Before, Memorised, NEW d \in Dirs, Visit(d)
  PROVE  RunTypes' /\ Before' /\ Memorised'
<1>1. VisitFrame
  BY VisitIs
<1>2. DOMAIN NoVisit = {"step", "trusted", "chain", "stamp", "entries", "rules"}
  BY IdleTypes
<1>3. RunTypes'
  BY <1>1, <1>2 DEF VisitFrame, RunTypes
<1>4. Before'
  BY <1>1 DEF VisitFrame, Before
<1>5. Memorised'
  BY <1>1 DEF VisitFrame, Memorised, world
<1> QED
  BY <1>3, <1>4, <1>5

\* Every step of a visit keeps what the walk has.
LEMMA VisitWalking ==
  ASSUME Steady, WorldTypes, Inodes, RunTypes, NEW d \in Dirs, Visit(d)
  PROVE  Walking'
<1>1. run.phase = "walk" /\ events \in Nat
  BY VisitIs DEF VisitFrame, WorldTypes
<1>2. mem.context # None
  BY <1>1 DEF Steady, Memorised
<1> QED
  BY <1>1, <1>2, VouchWalking, ReplayWalking, LookWalking, ListWalking, GoneWalking, FilterWalking
     DEF Visit

\* A change of the world is none of the session's, but for what is reported.
LEMMA ChangeSession ==
  ASSUME Change
  PROVE  /\ run' = run /\ mem' = mem /\ kept' = kept /\ watch' = watch /\ store' = store
         /\ behind' = behind /\ runs' = runs /\ (run.phase # "idle" => now' = now)
<1>1. CASE Tick
  BY <1>1 DEF Tick, session, history
<1>2. CASE WriteExclude
  BY <1>2 DEF WriteExclude, session
<1>3. ASSUME NEW p \in Paths, Create(p) \/ Delete(p) \/ Write(p)
      PROVE  /\ run' = run /\ mem' = mem /\ kept' = kept /\ watch' = watch /\ store' = store
             /\ behind' = behind /\ runs' = runs /\ now' = now
  BY <1>3 DEF Create, Delete, Write, Edit
<1>4. ASSUME NEW d \in Dirs, Swap(d) \/ MoveAway(d)
      PROVE  /\ run' = run /\ mem' = mem /\ kept' = kept /\ watch' = watch /\ store' = store
             /\ behind' = behind /\ runs' = runs /\ now' = now
  BY <1>4 DEF Swap, MoveAway, Edit
<1>5. ASSUME NEW p \in Sources, GitAdd(p)
      PROVE  /\ run' = run /\ mem' = mem /\ kept' = kept /\ watch' = watch /\ store' = store
             /\ behind' = behind /\ runs' = runs /\ now' = now
  BY <1>5 DEF GitAdd, session
<1> QED
  BY <1>1, <1>2, <1>3, <1>4, <1>5 DEF Change

\* A change of the world keeps what the memory is to the run.
LEMMA ChangeRun ==
  ASSUME RunTypes, Before, Memorised, Change
  PROVE  RunTypes' /\ Before' /\ Memorised'
<1>1. run' = run /\ mem' = mem /\ (run.phase # "idle" => now' = now)
  BY ChangeSession
<1>2. RunTypes' /\ Before'
  BY <1>1 DEF RunTypes, Before
<1>3. Memorised'
  BY <1>1 DEF Memorised
<1> QED
  BY <1>2, <1>3

\* It keeps what the walk has.
LEMMA ChangeWalking ==
  ASSUME WorldTypes, Inodes, Rooted, Stores, Memorised, Walking, Change
  PROVE  Walking'
<1>1. /\ run' = run /\ mem' = mem /\ behind' = behind /\ (run.phase # "idle" => now' = now)
  BY ChangeSession
<1>2. SUFFICES ASSUME ~behind, run.phase # "idle" PROVE Walking'
  BY <1>1 DEF Walking
<1>3. Stays
  BY <1>1, <1>2, ChangeOnward DEF Stays
<1>4. Steady
  BY <1>2 DEF Steady
<1> QED
  BY <1>3, <1>4, StaysWalking

\* The end of a process or of a run.
LEMMA EndRun ==
  ASSUME Restart \/ Persist
  PROVE  /\ RunTypes' /\ Before' /\ Memorised' /\ Walking'
         /\ run' = Idle /\ mem'.fresh_staged = None
<1>1. /\ run' = Idle /\ DOMAIN mem' = DOMAIN Open /\ mem'.fresh = NoListings
      /\ mem'.context = None /\ mem'.trusted = FALSE /\ mem'.fresh_staged = None
  <2>1. CASE Restart
    <3>1. run' = Idle /\ mem' = Open
      BY <2>1 DEF Restart, NewSession
    <3> QED
      BY <3>1 DEF Open
  <2>2. CASE Persist
    <3>1. run' = Idle
      BY <2>2 DEF Persist
    <3>2. PICK s : mem' = [Open EXCEPT !.stored = s]
      BY <2>2 DEF Persist, save
    <3> QED
      BY <3>1, <3>2 DEF Open
  <2> QED
    BY <2>1, <2>2
<1>4. Unvisited'
  BY <1>1, UnvisitedIdle
<1>5. RunTypes'
  BY <1>1, IdleTypes DEF RunTypes, NoListings, NoSeen
<1>6. Before' /\ Memorised' /\ Walking'
  BY <1>1, <1>4, IdleTypes DEF Before, Memorised, Walking, Unvisited
<1> QED
  BY <1>1, <1>5, <1>6

-----------------------------------------------------------------------------
(* The store *)

\* An empty store is true.
LEMMA StoredTrue == TrueStore(Stored)
  BY DEF TrueStore, Stored, Known, NoListings

\* A step that stores nothing new.
LEMMA StoresStay ==
  ASSUME Onward, Stores, ~behind' => ~behind, store' = store,
         mem'.stored \in {None, mem.stored, Stored, store}
  PROVE  Stores'
<1>0. SUFFICES ASSUME ~behind' PROVE /\ store' # None => TrueStore(store)'
                                     /\ mem'.stored # None => TrueStore(mem.stored)'
  BY DEF Stores
<1>1. ~behind
  BY <1>0
<1>2. ASSUME NEW st, st \in {mem.stored, Stored, store}, st # None PROVE TrueStore(st)'
  <2>1. TrueStore(st)
    BY <1>1, <1>2, StoredTrue DEF Stores
  <2> QED
    BY <2>1, StoreStays
<1>3. ASSUME store # None PROVE TrueStore(store)'
  <2>1. PICK st : st = store
    OBVIOUS
  <2>2. TrueStore(st)' /\ store' = st
    BY <1>2, <1>3, <2>1
  <2> QED
    BY <2>2
<1>4. ASSUME mem'.stored # None PROVE TrueStore(mem.stored)'
  <2>1. PICK st : st = mem'.stored
    OBVIOUS
  <2>2. TrueStore(st)'
    BY <1>2, <1>4, <2>1
  <2> QED
    BY <2>1, <2>2
<1> QED
  BY <1>3, <1>4

\* What a save keeps of the stored listings.
LEMMA KeptIs ==
  ASSUME NEW d \in Dirs, Kept(mem)[d] # None
  PROVE  Kept(mem)[d] = old(d) /\ mem.trusted
  BY DEF Kept, NoListings, old

\* What a save writes: the listings of this run, and beside them those it keeps.
LEMMA SavedIs ==
  ASSUME NEW st, st = Saved(mem)
  PROVE  /\ st.context = mem.context
         /\ \A d \in Dirs : st.listings[d] = IF mem.fresh[d] # None THEN mem.fresh[d] ELSE Kept(mem)[d]
  BY DEF Saved

\* A listing of this run is true beside the listings that are stored with it.
LEMMA FreshStored ==
  ASSUME Steady, RunTypes, ~LeftBehind(mem), NEW st, st = Saved(mem),
         NEW d \in Dirs, mem.fresh[d] # None
  PROVE  TrueListing(d, mem.fresh[d], mem.context, RulesIn(st.listings),
                     ancestors(d) \cap Known(st.listings))
<1>1. /\ run.seen[d] # None /\ run.visits[d].step = "done"
      /\ TrueListing(d, mem.fresh[d], mem.context, [e \in Dirs |-> Rules(e)], Clear(d))
  BY Steadily DEF Remembered, Saw
<1>2. SUFFICES ASSUME Live(d, mem.fresh[d])
               PROVE  Exact(d, mem.fresh[d], mem.context, RulesIn(st.listings),
                            ancestors(d) \cap Known(st.listings))
  BY <1>1 DEF TrueListing
<1>3. PICK L \in [Dirs -> Texts \cup {None}], ex \in Texts :
        /\ Shows(d, mem.fresh[d], L, ex) /\ Heard(mem.context, ex) /\ Follows(L, d, mem.fresh[d].rules)
        /\ \A e \in Clear(d) : Follows(L, e, [x \in Dirs |-> Rules(x)][e])
  BY <1>1, <1>2 DEF TrueListing, Exact
<1>4. ASSUME NEW e \in ancestors(d) \cap Known(st.listings)
      PROVE  Follows(L, e, RulesIn(st.listings)[e])
  <2>1. e \in Dirs /\ e \in ancestors(d) /\ st.listings[e] # None
    BY DEF Known
  <2>2. RulesIn(st.listings)[e] = st.listings[e].rules
    BY <2>1 DEF RulesIn
  <2>3. st.listings[e] = IF mem.fresh[e] # None THEN mem.fresh[e] ELSE Kept(mem)[e]
    BY <2>1, SavedIs
  <2>4. ASSUME Rules(e) = st.listings[e].rules, Rules(e) # None => Past(Rules(e))
        PROVE  Follows(L, e, st.listings[e].rules)
    BY <1>3, <2>1, <2>4 DEF Clear
  <2>5. CASE mem.fresh[e] # None
    <3>1. /\ run.seen[e] # None /\ run.seen[e] = [stamp |-> mem.fresh[e].stamp, rules |-> mem.fresh[e].rules]
          /\ (mem.fresh[e].rules # None => Past(mem.fresh[e].rules))
      BY <2>1, <2>5, Steadily DEF Remembered, TrueListing
    <3>2. Rules(e) = mem.fresh[e].rules
      BY <3>1 DEF Rules
    <3> QED
      BY <2>2, <2>3, <2>4, <2>5, <3>1, <3>2
  <2>6. CASE mem.fresh[e] = None
    <3>1. st.listings[e] = old(e) /\ old(e) # None /\ Kept(mem)[e] = old(e)
      BY <2>1, <2>3, <2>6, KeptIs
    <3>2. old(e).rules # None => Past(old(e).rules)
      BY <2>1, <3>1, Steadily, RulesKnown
    <3>3. CASE Rules(e) = old(e).rules
      BY <2>2, <2>4, <3>1, <3>2, <3>3
    <3>4. CASE Rules(e) # old(e).rules
      <4>1. run.seen[e] # None /\ Rules(e) = run.seen[e].rules
        BY <3>1, <3>4 DEF Rules
      <4>2. old(e).rules # None
        BY <2>1, <2>6, <3>1, <3>4, <4>1 DEF LeftBehind
      <4>3. RulesStamp(e) # old(e).rules
        BY <1>1, <2>1, <3>1, <3>4, <4>2, Steadily DEF Visited
      <4> QED
        BY <2>2, <3>1, <4>2, <4>3 DEF Follows
    <3> QED
      BY <3>3, <3>4
  <2> QED
    BY <2>5, <2>6
<1> QED
  BY <1>3, <1>4 DEF Exact

\* A listing that is kept is true beside those of this run.
LEMMA KeptStored ==
  ASSUME Steady, RunTypes, ~LeftBehind(mem), NEW st, st = Saved(mem),
         NEW d \in Dirs, mem.fresh[d] = None, Kept(mem)[d] # None
  PROVE  TrueListing(d, old(d), mem.context, RulesIn(st.listings),
                     ancestors(d) \cap Known(st.listings))
<1>1. old(d) # None /\ mem.trusted /\ Kept(mem)[d] = old(d) /\ mem.stored.context = mem.context
  BY KeptIs DEF Steady, Memorised
<1>2. TrueListing(d, old(d), mem.context, RulesIn(mem.stored.listings),
                  ancestors(d) \cap Known(mem.stored.listings))
  BY <1>1, Steadily DEF TrueStore, Known, old
<1>3. SUFFICES ASSUME Live(d, old(d))
               PROVE  Exact(d, old(d), mem.context, RulesIn(st.listings),
                            ancestors(d) \cap Known(st.listings))
  BY <1>2 DEF TrueListing
<1>4. ASSUME NEW e \in ancestors(d) \cap Known(st.listings)
      PROVE  old(e) # None /\ st.listings[e].rules = old(e).rules
  <2>1. e \in Dirs /\ e \in ancestors(d) /\ st.listings[e] # None
    BY DEF Known
  <2>2. st.listings[e] = IF mem.fresh[e] # None THEN mem.fresh[e] ELSE Kept(mem)[e]
    BY <2>1, SavedIs
  <2>3. CASE mem.fresh[e] = None
    BY <2>1, <2>2, <2>3, KeptIs
  <2>4. CASE mem.fresh[e] # None /\ run.seen[d] = None
    <3>1. Kept(mem)[e] # None /\ Kept(mem)[e].rules = mem.fresh[e].rules
      BY <2>1, <2>4, <1>1 DEF LeftBehind
    <3> QED
      BY <2>1, <2>2, <2>4, <3>1, KeptIs
  <2>5. CASE mem.fresh[e] # None /\ run.seen[d] # None
    <3>1. old(e) # None /\ Rules(e) = old(e).rules
      BY <1>1, <1>3, <2>1, <2>5, Steadily DEF Saw
    <3>2. /\ run.seen[e] # None
          /\ run.seen[e] = [stamp |-> mem.fresh[e].stamp, rules |-> mem.fresh[e].rules]
      BY <2>1, <2>5, Steadily DEF Remembered
    <3>3. Rules(e) = mem.fresh[e].rules
      BY <3>2 DEF Rules
    <3> QED
      BY <2>2, <2>5, <3>1, <3>3
  <2> QED
    BY <2>3, <2>4, <2>5
<1>5. ASSUME NEW e \in ancestors(d) \cap Known(st.listings)
      PROVE  /\ e \in ancestors(d) \cap Known(mem.stored.listings)
             /\ RulesIn(st.listings)[e] = RulesIn(mem.stored.listings)[e]
  <2>1. e \in Dirs /\ e \in ancestors(d) /\ st.listings[e] # None
    BY DEF Known
  <2> QED
    BY <1>4, <2>1 DEF Known, RulesIn, old
<1> QED
  BY <1>2, <1>3, <1>5 DEF TrueListing, Exact

\* What a save writes is true, when it leaves nothing behind.
LEMMA SavedTrue ==
  ASSUME Steady, WorldTypes, RunTypes, mem.context # None, ~RulesMoved(mem), ~LeftBehind(mem)
  PROVE  TrueStore(Saved(mem))
<1>1. PICK st : st = Saved(mem)
  OBVIOUS
<1>2. st.context = mem.context
  BY <1>1, SavedIs
<1>3. Past(mem.context.exclude)
  <2>1. /\ mem.context.exclude \in Stamps /\ mem.context.exclude.ino = 0
        /\ mem.context.exclude.mtime = mem.context.exclude.ctime
        /\ mem.settled = settled_before(now)
    BY DEF Steady, Memorised
  <2>2. ~(mem.context.exclude.mtime >= mem.settled)
    BY <2>1, NoneAssumption DEF RulesMoved
  <2>3. events \in Nat /\ mem.settled \in Nat
    BY <2>1, Time DEF WorldTypes
  <2>4. mem.context.exclude.mtime \in Nat /\ mem.context.exclude.mtime < mem.settled
    BY <2>1, <2>2, <2>3 DEF Stamps
  <2> QED
    BY <2>1, <2>3, <2>4 DEF Past, is_settled
<1>4. ASSUME NEW d \in Known(st.listings)
      PROVE  TrueListing(d, st.listings[d], st.context, RulesIn(st.listings),
                         ancestors(d) \cap Known(st.listings))
  <2>1. d \in Dirs /\ st.listings[d] # None
    BY DEF Known
  <2>2. st.listings[d] = IF mem.fresh[d] # None THEN mem.fresh[d] ELSE Kept(mem)[d]
    BY <1>1, <2>1, SavedIs
  <2>3. CASE mem.fresh[d] # None
    BY <1>1, <1>2, <2>1, <2>2, <2>3, FreshStored
  <2>4. CASE mem.fresh[d] = None
    <3>1. Kept(mem)[d] # None /\ st.listings[d] = old(d)
      BY <2>1, <2>2, <2>4, KeptIs
    <3> QED
      BY <1>1, <1>2, <2>1, <2>4, <3>1, KeptStored
  <2> QED
    BY <2>3, <2>4
<1> QED
  BY <1>1, <1>2, <1>3, <1>4 DEF TrueStore

\* The store after a run (Discovery.Persist).
LEMMA PersistStores ==
  ASSUME WorldTypes, RunTypes, Stores, Memorised, Walking, Persist
  PROVE  Stores'
<1>1. /\ run.phase = "done" /\ UNCHANGED world /\ events' = events /\ mem' = save(mem)
      /\ store' = IF Writes(mem) = None THEN store ELSE Writes(mem)
      /\ behind' = (behind \/ (mem.context # None /\ ~RulesMoved(mem) /\ LeftBehind(mem)))
  BY DEF Persist
<1>2. Onward
  BY <1>1, StandsOnward DEF WorldTypes
<1>3. SUFFICES ASSUME ~behind'
               PROVE  Stores'
  BY DEF Stores
<1>4. ~behind /\ ~(mem.context # None /\ ~RulesMoved(mem) /\ LeftBehind(mem))
  <2>1. ASSUME behind \/ (mem.context # None /\ ~RulesMoved(mem) /\ LeftBehind(mem)) PROVE FALSE
    <3>1. (behind \/ (mem.context # None /\ ~RulesMoved(mem) /\ LeftBehind(mem))) = TRUE
      BY <2>1
    <3>2. behind' = TRUE
      BY <1>1, <3>1
    <3> QED
      BY <1>3, <3>2
  <2> QED
    BY <2>1
<1>5. Steady
  BY <1>1, <1>4 DEF Steady
<1>6. mem'.stored = IF mem.context = None THEN mem.stored
                    ELSE IF RulesMoved(mem) THEN Stored ELSE Saved(mem)
  BY <1>1, IdleTypes DEF save
<1>7. CASE mem.context = None \/ RulesMoved(mem)
  <2>1. store' = store
    BY <1>1, <1>7 DEF Writes
  <2>2. mem'.stored \in {None, mem.stored, Stored, store}
    BY <1>6, <1>7
  <2> QED
    BY <1>2, <1>4, <2>1, <2>2, StoresStay
<1>8. CASE mem.context # None /\ ~RulesMoved(mem)
  <2>1. PICK st : st = Saved(mem)
    OBVIOUS
  <2>2. TrueStore(st)
    BY <1>4, <1>5, <1>8, <2>1, SavedTrue
  <2>3. TrueStore(st)'
    BY <1>2, <2>2, StoreStays
  <2>4. mem'.stored = st /\ store' \in {store, st}
    BY <1>1, <1>6, <1>8, <2>1 DEF Writes
  <2>5. TrueStore(mem.stored)'
    BY <2>3, <2>4
  <2>6. store' # None => TrueStore(store)'
    <3>1. CASE store' = st
      BY <2>3, <3>1
    <3>2. CASE store' = store /\ store # None
      <4>1. PICK so : so = store
        OBVIOUS
      <4>2. TrueStore(so)
        BY <1>4, <3>2, <4>1 DEF Stores
      <4>3. TrueStore(so)'
        BY <1>2, <4>2, StoreStays
      <4> QED
        BY <3>2, <4>1, <4>3
    <3> QED
      BY <2>4, <3>1, <3>2
  <2> QED
    BY <2>5, <2>6 DEF Stores
<1> QED
  BY <1>7, <1>8

Sound ==
    /\ WorldTypes /\ Inodes /\ Rooted /\ Racy /\ KeptIsOld
    /\ RunTypes /\ Before /\ Memorised
    /\ Stores /\ Walking

\* The world as it begins.
LEMMA InitWorld ==
  ASSUME Init
  PROVE  WorldTypes /\ Inodes /\ Rooted /\ Racy
<1>1. PICK files \in {f \in SUBSET Files : \A p \in Files : HEAD[p] # None => p \in f},
           t \in {0, Coarse(now)} :
         /\ tree = [p \in Paths |-> IF p \in Dirs THEN Node(0, t, "dir")
                                   ELSE IF p \in files THEN Node(0, t, Written(p))
                                   ELSE None]
         /\ index = NewIndex(IF t = 0 THEN 1 ELSE t, tree, {p \in Files : HEAD[p] # None})
  BY DEF Init
<1>2. now = SETTLE + 1 /\ exclude = Node(0, 0, Silent) /\ events = 0
  BY DEF Init
<1>3. now \in 0..MaxClock /\ Coarse(now) \in Nat /\ Coarse(now) > 1 /\ t \in Nat
  BY <1>2, TimesAssumption
<1>4. ASSUME NEW p \in Paths, tree[p] # None
      PROVE  tree[p] \in Nodes(p) /\ tree[p].ino = 0
  <2>1. \/ tree[p] = Node(0, t, "dir") /\ p \in Dirs
        \/ tree[p] = Node(0, t, Written(p)) /\ p \notin Dirs
    BY <1>1, <1>4
  <2>2. Written(p) \in IF p \in Dirs THEN {"dir"} ELSE Contents[p]
    BY WrittenIs
  <2> QED
    BY <1>3, <2>1, <2>2 DEF Node, Nodes
<1>5. DOMAIN tree = Paths
  BY <1>1
<1>6. \A d \in Dirs : d \in Paths /\ tree[d] # None
  <2>1. ASSUME NEW d \in Dirs PROVE d \in Paths /\ tree[d] # None
    <3>1. d \in Paths /\ tree[d] = Node(0, t, "dir")
      BY <1>1, PathsAssumption
    <3>2. Node(0, t, "dir") \in Nodes(d)
      BY <1>3 DEF Node, Nodes
    <3> QED
      BY <3>1, <3>2, NoneAssumption
  <2> QED
    BY <2>1
<1>7. Rooted
  BY <1>6, PathsAssumption DEF Rooted, Present, ancestors
<1>8. exclude \in [ino : {0}, mtime : Nat, ctime : Nat, data : Texts] /\ exclude.ctime = exclude.mtime
  BY <1>2, ContentsAssumption DEF Node
<1>9. index.time \in Nat /\ index.time <= Coarse(now)
  BY <1>1, <1>3 DEF NewIndex
<1>10. WorldTypes
  BY <1>2, <1>3, <1>4, <1>5, <1>8, <1>9 DEF WorldTypes
<1>11. ASSUME NEW p \in Tracked(index)
       PROVE  /\ p \in Paths /\ tree[p] # None /\ index.entries[p].data = tree[p].data
              /\ index.entries[p].stamp = StampOf(tree[p])
  <2>1. p \in Paths /\ index.entries[p] # None
    BY DEF Tracked, Files
  <2> QED
    BY <1>1, <2>1 DEF NewIndex
<1>12. Inodes
  BY <1>2, <1>4, <1>11, NodeIs DEF Inodes
<1>13. Racy
  BY <1>11 DEF Racy
<1> QED
  BY <1>7, <1>10, <1>12, <1>13

\* The memory is sound at first.
LEMMA InitSound == Init => Sound
<1> SUFFICES ASSUME Init PROVE Sound
  OBVIOUS
<1>1. run = Idle /\ mem = Open /\ store = None /\ kept = None
  BY DEF Init
<1>2. KeptIsOld /\ Stores
  BY <1>1, IdleTypes DEF KeptIsOld, Stores
<1>3. RunTypes
  BY <1>1, IdleTypes DEF RunTypes, NoListings, NoSeen
<1>4. Before /\ Memorised /\ Walking
  BY <1>1, IdleTypes DEF Before, Memorised, Walking, NoListings, NoSeen
<1> QED
  BY <1>2, <1>3, <1>4, InitWorld DEF Sound

\* A repository that a run opens anew is kept only when it has settled.
LEMMA StartKept ==
  ASSUME WorldTypes, KeptIsOld, NEW scope \in Scopes, Start(scope)
  PROVE  KeptIsOld'
<1>1. /\ now' = now /\ index' = index
      /\ kept' = IF kept # None /\ kept.stamp = index.time THEN kept
                 ELSE IF Keep(settled_before(now)) THEN [stamp |-> index.time, index |-> index]
                 ELSE None
  BY DEF Start, world
<1>2. CASE kept' = kept
  BY <1>1, <1>2 DEF KeptIsOld
<1>3. CASE kept' = None
  BY <1>3 DEF KeptIsOld
<1>4. CASE kept' = [stamp |-> index.time, index |-> index] /\ Keep(settled_before(now))
  BY <1>1, <1>4 DEF KeptIsOld, WorldTypes, Keep
<1> QED
  BY <1>1, <1>2, <1>3, <1>4

\* Every step keeps it sound.
LEMMA NextSound == Sound /\ [Next]_vars => Sound'
<1> SUFFICES ASSUME Sound, [Next]_vars PROVE Sound'
  OBVIOUS
<1> USE DEF Sound
<1>1. CASE UNCHANGED vars
  <2>1. Stores' /\ Walking' /\ Before' /\ Memorised' /\ RunTypes'
    <3>1. UNCHANGED world /\ events' = events /\ run' = run /\ mem' = mem /\ store' = store
          /\ behind' = behind
      BY <1>1 DEF vars, history, session
    <3>2. Onward
      BY <3>1, StandsOnward DEF WorldTypes
    <3>3. RunTypes' /\ Before' /\ Memorised'
      BY <3>1 DEF RunTypes, Before, Memorised, world
    <3>4. Stores'
      BY <3>1, <3>2, StoresStay
    <3>5. Walking'
      <4>1. SUFFICES ASSUME ~behind', run'.phase # "idle" PROVE Walking'
        BY DEF Walking
      <4>2. Stays
        BY <3>1, <3>2, <4>1 DEF Stays, world
      <4>3. Steady
        BY <3>1, <4>1 DEF Steady
      <4> QED
        BY <4>2, <4>3, StaysWalking
    <3> QED
      BY <3>3, <3>4, <3>5
  <2>2. KeptIsOld'
    BY <1>1 DEF vars, world, session, KeptIsOld
  <2>3. WorldTypes' /\ Inodes' /\ Rooted' /\ Racy'
    BY <1>1, StandsWorld DEF vars, history
  <2> QED
    BY <2>1, <2>2, <2>3
<1>2. ASSUME NEW sc \in Scopes, Start(sc) PROVE Sound'
  <2>1. UNCHANGED world /\ events' = events /\ behind' = behind /\ store' = store
    BY <1>2 DEF Start
  <2>2. WorldTypes' /\ Inodes' /\ Rooted' /\ Racy' /\ Onward
    BY <2>1, StandsWorld, StandsOnward DEF WorldTypes
  <2>3. RunTypes' /\ Before' /\ Memorised' /\ Walking' /\ mem'.stored \in {mem.stored, store, Stored}
    BY <1>2, StartRun
  <2>4. Stores'
    BY <2>1, <2>2, <2>3, StoresStay
  <2> QED
    BY <1>2, <2>2, <2>3, <2>4, StartKept
<1>3. CASE NamesTracked
  <2>1. UNCHANGED world /\ events' = events /\ behind' = behind /\ store' = store /\ kept' = kept
    BY <1>3 DEF NamesTracked, history, session
  <2>2. WorldTypes' /\ Inodes' /\ Rooted' /\ Racy' /\ Onward
    BY <2>1, StandsWorld, StandsOnward DEF WorldTypes
  <2>3. RunTypes' /\ Before' /\ Memorised' /\ Walking' /\ mem' = mem
    BY <1>3, NamesRun
  <2>4. Stores'
    BY <2>1, <2>2, <2>3, StoresStay
  <2> QED
    BY <2>1, <2>2, <2>3, <2>4 DEF KeptIsOld, world
<1>4. CASE Begin
  <2>1. /\ UNCHANGED world /\ events' \in {events, events + 1} /\ behind' = behind /\ store' = store
        /\ kept' = kept
    BY <1>4 DEF Begin, Happens
  <2>2. WorldTypes' /\ Inodes' /\ Rooted' /\ Racy' /\ Onward
    BY <2>1, StandsWorld, StandsOnward DEF WorldTypes
  <2>3. RunTypes' /\ Before' /\ Memorised' /\ Walking' /\ mem'.stored = mem.stored
    BY <1>4, BeginRun
  <2>4. Stores'
    BY <2>1, <2>2, <2>3, StoresStay
  <2> QED
    BY <2>1, <2>2, <2>3, <2>4 DEF KeptIsOld, world
<1>5. ASSUME NEW d \in Dirs, Visit(d) PROVE Sound'
  <2>1. VisitFrame
    BY <1>5, VisitIs
  <2>2. WorldTypes' /\ Inodes' /\ Rooted' /\ Racy' /\ Onward
    BY <2>1, StandsWorld, StandsOnward DEF WorldTypes, VisitFrame
  <2>3. RunTypes' /\ Before' /\ Memorised'
    BY <1>5, VisitRun
  <2>4. Stores'
    BY <2>1, <2>2, StoresStay DEF VisitFrame
  <2>5. Walking'
    <3>1. SUFFICES ASSUME ~behind' PROVE Walking'
      BY DEF Walking
    <3>2. Steady
      BY <2>1, <3>1 DEF Steady, VisitFrame
    <3> QED
      BY <1>5, <3>2, VisitWalking
  <2> QED
    BY <2>1, <2>2, <2>3, <2>4, <2>5 DEF KeptIsOld, world, VisitFrame
<1>6. CASE Compare \/ Settle \/ Recheck
  <2>1. UNCHANGED world /\ events' \in {events, events + 1} /\ store' = store /\ kept' = kept
    BY <1>6 DEF Compare, Pick, Stat, Settle, Recheck, Happens, history
  <2>2. WorldTypes' /\ Inodes' /\ Rooted' /\ Racy' /\ Onward
    BY <2>1, StandsWorld, StandsOnward DEF WorldTypes
  <2>3. RunTypes' /\ Before' /\ Memorised' /\ Stays /\ StaysRun
    BY <1>6, RestRun, RestIs
  <2>4. Stores'
    BY <2>1, <2>2, <2>3, StoresStay DEF Stays
  <2>5. Walking'
    <3>1. SUFFICES ASSUME ~behind' PROVE Walking'
      BY DEF Walking
    <3>2. Steady
      BY <2>3, <3>1 DEF Steady, Stays, StaysRun
    <3> QED
      BY <2>3, <3>2, StaysWalking
  <2> QED
    BY <2>1, <2>2, <2>3, <2>4, <2>5 DEF KeptIsOld, world
<1>7. CASE Persist
  <2>1. UNCHANGED world /\ events' = events /\ kept' = kept
    BY <1>7 DEF Persist
  <2>2. WorldTypes' /\ Inodes' /\ Rooted' /\ Racy'
    BY <2>1, StandsWorld DEF WorldTypes
  <2> QED
    BY <1>7, <2>1, <2>2, EndRun, PersistStores DEF KeptIsOld, world
<1>8. CASE Restart
  <2>1. UNCHANGED world /\ events' = events /\ kept' = None /\ store' = store /\ behind' = behind
        /\ mem' = Open
    BY <1>8 DEF Restart, NewSession, history
  <2>2. WorldTypes' /\ Inodes' /\ Rooted' /\ Racy' /\ Onward
    BY <2>1, StandsWorld, StandsOnward DEF WorldTypes
  <2>3. Stores'
    BY <2>1, <2>2, StoresStay, IdleTypes
  <2> QED
    BY <1>8, <2>1, <2>2, <2>3, EndRun DEF KeptIsOld
<1>9. CASE Change
  <2>1. run' = run /\ mem' = mem /\ kept' = kept /\ store' = store /\ behind' = behind
    BY <1>9, ChangeSession
  <2>2. WorldTypes' /\ Inodes' /\ Rooted' /\ Racy' /\ KeptIsOld' /\ Onward
    BY <1>9, ChangeTypes, ChangeTree, ChangeIndex, ChangeOnward
  <2>3. Stores'
    BY <2>1, <2>2, StoresStay
  <2> QED
    BY <1>9, <2>2, <2>3, ChangeRun, ChangeWalking
<1> QED
  BY <1>1, <1>2, <1>3, <1>4, <1>5, <1>6, <1>7, <1>8, <1>9 DEF Next

\* Sound is an invariant: however runs, saves, restarts and changes follow one
\* another, what is remembered is true (Memory, Walk::visit).
THEOREM SoundAlways == Spec => []Sound
<1>1. Init => Sound
  BY InitSound
<1>2. Sound /\ [Next]_vars => Sound'
  BY NextSound
<1> QED
  BY <1>1, <1>2, PTL DEF Spec

-----------------------------------------------------------------------------
(* The watch *)

\* A report in the kernel's queue concerns the path, or ends the watch on it.
Reported(p) == queue.lost \/ p \in queue.paths \/ \E s \in queue.subtrees : is_under(p, s)
Lost(p) == queue.lost \/ \E g \in queue.gone : is_under(p, g)

QueueTypes ==
    /\ queue.paths \subseteq Paths /\ queue.subtrees \subseteq Dirs /\ queue.gone \subseteq Paths
    /\ \A g \in queue.gone : IF g \in Dirs THEN g \in queue.subtrees ELSE g \in queue.paths

WatchTypes ==
    /\ DOMAIN watch = {"backend", "watched", "clean", "baseline", "touched", "failure"}
    /\ DOMAIN watch.watched = Paths /\ DOMAIN watch.clean = Dirs
    /\ DOMAIN watch.touched = {"paths", "subtrees"}
    /\ \A p \in Paths : watch.watched[p] # None => watch.watched[p] \in Held
    /\ watch.backend \in {"inotify", "kqueue"}

\* A watch is on what its path names, with watches above it, until it is lost.
Attached ==
    /\ watch.backend = "inotify" => \A p \in Files : watch.watched[p] = None
    /\ \A p \in Paths : watch.watched[p] # None =>
          /\ \A e \in ancestors(p) : watch.watched[e] # None
          /\ On(watch, tree, p) \/ Lost(p)

\* What a change of the tree does to the watches and the reports.
Told == \A p \in Paths : /\ watches(watch, p) => StampOf(tree'[p]) = StampOf(tree[p]) \/ Reported(p)'
                         /\ On(watch, tree, p) => On(watch, tree', p) \/ Lost(p)'
                         /\ (Reported(p) => Reported(p)') /\ (Lost(p) => Lost(p)')

\* A watch that is lost is reported.
LEMMA LostReported ==
  ASSUME QueueTypes, NEW p \in Paths, Lost(p)
  PROVE  Reported(p)
<1>1. CASE queue.lost
  BY <1>1 DEF Reported
<1>2. ASSUME NEW g \in queue.gone, is_under(p, g) PROVE Reported(p)
  <2>1. CASE g \in Dirs
    BY <1>2, <2>1 DEF QueueTypes, Reported
  <2>2. CASE g \notin Dirs
    <3>1. g \in Files /\ g \in queue.paths
      BY <2>2 DEF QueueTypes, Files
    <3> QED
      BY <1>2, <3>1, UnderFile DEF Reported
  <2> QED
    BY <2>1, <2>2
<1> QED
  BY <1>1, <1>2 DEF Lost

\* With a watch, those below it are lost.
LEMMA LostBelow ==
  ASSUME QueueTypes, NEW p \in Paths, NEW q \in Paths, is_under(p, q), Lost(q)
  PROVE  Lost(p)
  BY UnderOrder DEF Lost, QueueTypes

\* The watch that covers a path.
LEMMA CoverIs ==
  ASSUME watch.backend \in {"inotify", "kqueue"}, NEW p \in Paths
  PROVE  /\ directory(watch.backend, p) \in Paths
         /\ p \in Dirs \/ watch.backend = "kqueue" => directory(watch.backend, p) = p
         /\ p \in Files /\ watch.backend = "inotify" =>
               p # Root /\ directory(watch.backend, p) = Parent(p) /\ Parent(p) \in Dirs
         /\ is_under(p, directory(watch.backend, p))
<1>1. p \in Files => p # Root
  BY PathsAssumption DEF Files
<1>2. p # Root => Parent(p) \in Dirs /\ Parent(p) \in Paths /\ is_under(p, Parent(p))
  BY ParentAbove
<1>3. is_under(p, p)
  BY UnderOrder
<1> QED
  BY <1>1, <1>2, <1>3 DEF directory, Files

-----------------------------------------------------------------------------

\* Something appears, goes or is replaced in the directory above it.
EntryTurns(c) ==
    /\ c \in Paths /\ c # Root /\ Edit({c}, {})
    /\ \A p \in Paths : ~is_under(p, c) /\ p # Parent(c) => tree'[p] = tree[p]
    /\ tree'[Parent(c)] # None /\ tree'[Parent(c)].ino = tree[Parent(c)].ino

EntryHeard(c, r) ==
    /\ r.paths \subseteq Paths /\ r.subtrees \subseteq Dirs /\ r.gone \subseteq Paths
    /\ \A g \in r.gone : IF g \in Dirs THEN g \in r.subtrees ELSE g \in r.paths
    /\ On(watch, tree, Parent(c)) => Parent(c) \in r.paths
    /\ \A p \in Paths : is_under(p, c) /\ watch.watched[p] # None => Lost(c) \/ c \in r.gone
    /\ watch.backend = "inotify" /\ c \in Files /\ On(watch, tree, Parent(c)) => c \in r.paths

\* The kernel reports an entry that turns to the watches that see it.
LEMMA EntryReports ==
  ASSUME WatchTypes, Attached, NEW c \in Paths, c # Root, NEW r, r = Reports(watch, tree, {c}, {})
  PROVE  EntryHeard(c, r)
<1>1. Parent(c) \in Dirs /\ Parent(c) \in Paths
  BY ParentAbove
<1>2. ASSUME NEW p \in Paths, is_under(p, c), watch.watched[p] # None
      PROVE  watch.watched[c] # None /\ (On(watch, tree, c) \/ Lost(c))
  <2>1. CASE p = c
    BY <1>2, <2>1 DEF Attached
  <2>2. CASE p # c
    <3>1. c \in Dirs
      BY <1>2, <2>2, UnderFile DEF Files
    <3>2. c \in ancestors(p)
      BY <1>2, <2>2, <3>1 DEF ancestors
    <3> QED
      BY <1>2, <3>2 DEF Attached
  <2> QED
    BY <2>1, <2>2
<1>3. CASE watch.backend = "inotify"
  <2> DEFINE heard == {p \in {c} : p # Root /\ On(watch, tree, Parent(p))}
             dirs == {p \in {c} : p \in Dirs /\ (p \in heard \/ On(watch, tree, p))}
  <2>1. /\ r.paths = heard \cup {Parent(p) : p \in heard} /\ r.subtrees = dirs /\ r.gone = dirs
    <3>1. r = InotifyReports(watch, tree, {c}, {})
      BY <1>3 DEF Reports
    <3>2. {c} \cup {} = {c} /\ heard \cap {c} = heard
      OBVIOUS
    <3>3. r = [paths |-> heard \cup {Parent(p) : p \in heard}, subtrees |-> dirs, gone |-> dirs,
               lost |-> FALSE]
      BY <3>1, <3>2 DEF InotifyReports
    <3> HIDE DEF heard, dirs
    <3> QED
      BY <3>3
  <2>2. /\ r.paths \subseteq {c, Parent(c)} /\ r.gone \subseteq {c} /\ r.gone \subseteq Dirs
        /\ r.subtrees = r.gone
        /\ On(watch, tree, Parent(c)) => c \in r.paths /\ Parent(c) \in r.paths
        /\ c \in Dirs /\ On(watch, tree, c) => c \in r.gone
    BY <2>1
  <2>3. ASSUME NEW p \in Paths, is_under(p, c), watch.watched[p] # None PROVE Lost(c) \/ c \in r.gone
    <3>1. watch.watched[c] # None /\ (On(watch, tree, c) \/ Lost(c))
      BY <1>2, <2>3
    <3>2. c \in Dirs
      BY <1>3, <3>1 DEF Attached, Files
    <3> QED
      BY <2>2, <3>1, <3>2
  <2> QED
    BY <1>1, <2>2, <2>3 DEF EntryHeard
<1>4. CASE watch.backend # "inotify"
  <2> DEFINE own == {p \in {c} : On(watch, tree, p)}
             above == {d \in {Parent(p) : p \in {c}} : On(watch, tree, d)}
  <2>1. /\ r.paths = (own \ Dirs) \cup above /\ r.subtrees = own \cap Dirs /\ r.gone = own
    <3>1. r = KqueueReports(watch, tree, {c}, {})
      BY <1>4 DEF Reports
    <3>2. {p \in {} : On(watch, tree, p)} = {}
      OBVIOUS
    <3>3. r = [paths |-> (own \ Dirs) \cup above, subtrees |-> own \cap Dirs, gone |-> own,
               lost |-> FALSE]
      BY <3>1, <3>2 DEF KqueueReports
    <3> HIDE DEF own, above
    <3> QED
      BY <3>3
  <2>2. /\ r.paths \subseteq {c, Parent(c)} /\ r.gone \subseteq {c} /\ r.subtrees = r.gone \cap Dirs
        /\ c \in r.gone /\ c \notin Dirs => c \in r.paths
        /\ On(watch, tree, Parent(c)) => Parent(c) \in r.paths
        /\ On(watch, tree, c) => c \in r.gone
    BY <2>1
  <2>3. ASSUME NEW p \in Paths, is_under(p, c), watch.watched[p] # None PROVE Lost(c) \/ c \in r.gone
    BY <1>2, <2>2, <2>3
  <2> QED
    BY <1>1, <1>4, <2>2, <2>3 DEF EntryHeard
<1> QED
  BY <1>3, <1>4

\* What the kernel's queue becomes.
Queued(r) ==
    \/ queue' = queue /\ queue.lost
    \/ queue' = Enqueue(queue, r)
    \/ queue' = [NoQueue EXCEPT !.lost = TRUE]

\* What is queued is reported, and what was reported stays so.
LEMMA QueuedGrows ==
  ASSUME QueueTypes, NEW r, Queued(r), r.paths \subseteq Paths, r.subtrees \subseteq Dirs,
         r.gone \subseteq Paths,
         \A g \in r.gone : IF g \in Dirs THEN g \in r.subtrees ELSE g \in r.paths
  PROVE  /\ QueueTypes'
         /\ \A p \in Paths : /\ (Reported(p) => Reported(p)') /\ (Lost(p) => Lost(p)')
                             /\ p \in r.paths => Reported(p)'
                             /\ \A g \in r.gone : is_under(p, g) => Lost(p)'
<1>1. CASE queue' = queue /\ queue.lost
  BY <1>1 DEF QueueTypes, Reported, Lost
<1>2. CASE queue' = Enqueue(queue, r)
  <2>1. /\ queue'.paths = queue.paths \cup r.paths /\ queue'.subtrees = queue.subtrees \cup r.subtrees
        /\ queue'.gone = queue.gone \cup r.gone /\ queue'.lost = queue.lost
    BY <1>2 DEF Enqueue
  <2> QED
    BY <2>1 DEF QueueTypes, Reported, Lost
<1>3. CASE queue' = [NoQueue EXCEPT !.lost = TRUE]
  <2>1. queue'.lost /\ queue'.paths = {} /\ queue'.subtrees = {} /\ queue'.gone = {}
    BY <1>3 DEF NoQueue
  <2> QED
    BY <2>1 DEF QueueTypes, Reported, Lost
<1> QED
  BY <1>1, <1>2, <1>3 DEF Queued

\* An edit is queued, dropped with the whole queue, or not heard by a full one.
LEMMA EditQueues ==
  ASSUME watch # None, NEW es, NEW ws, Edit(es, ws), NEW r, r = Reports(watch, tree, es, ws)
  PROVE  Queued(r) /\ watch' = watch
  BY DEF Edit, Queued

\* An entry that turns is told to the watches.
LEMMA EntryTold ==
  ASSUME WatchTypes, Attached, QueueTypes, watch # None, NEW c, EntryTurns(c)
  PROVE  QueueTypes' /\ Told
<1>1. c \in Paths /\ c # Root /\ Edit({c}, {})
  BY DEF EntryTurns
<1>2. PICK r : r = Reports(watch, tree, {c}, {})
  OBVIOUS
<1>3. EntryHeard(c, r)
  BY <1>1, <1>2, EntryReports
<1>4. Queued(r)
  BY <1>1, <1>2, EditQueues
<1>5. /\ QueueTypes'
      /\ \A p \in Paths : /\ (Reported(p) => Reported(p)') /\ (Lost(p) => Lost(p)')
                          /\ p \in r.paths => Reported(p)'
                          /\ \A g \in r.gone : is_under(p, g) => Lost(p)'
  BY <1>3, <1>4, QueuedGrows DEF EntryHeard
<1>6. Parent(c) \in Paths /\ Parent(c) \in Dirs
  BY <1>1, ParentAbove
<1>7. ASSUME NEW q \in Paths, is_under(q, c), watch.watched[q] # None PROVE Lost(c)'
  <2>1. Lost(c) \/ c \in r.gone
    BY <1>3, <1>7 DEF EntryHeard
  <2>2. is_under(c, c)
    BY <1>1, UnderOrder
  <2> QED
    BY <1>1, <1>5, <2>1, <2>2
<1>8. ASSUME NEW p \in Paths, is_under(p, c), Lost(c)' PROVE Lost(p)' /\ Reported(p)'
  <2>1. Lost(p)'
    <3>1. queue'.gone \subseteq Paths
      BY <1>5 DEF QueueTypes
    <3>2. \A g \in queue'.gone : is_under(c, g) => is_under(p, g)
      BY <1>1, <1>8, <3>1, UnderOrder
    <3> QED
      BY <1>8, <3>2 DEF Lost
  <2>2. Reported(p)'
    <3>1. ASSUME NEW g \in queue'.gone, is_under(p, g) PROVE Reported(p)'
      <4>1. CASE g \in Dirs
        BY <1>5, <3>1, <4>1 DEF QueueTypes, Reported
      <4>2. CASE g \notin Dirs
        <5>1. g \in Files /\ g \in queue'.paths
          BY <1>5, <4>2 DEF QueueTypes, Files
        <5> QED
          BY <3>1, <5>1, UnderFile DEF Reported
      <4> QED
        BY <4>1, <4>2
    <3> QED
      BY <2>1, <3>1 DEF Lost, Reported
  <2> QED
    BY <2>1, <2>2
<1>9. ASSUME NEW p \in Paths, watches(watch, p)
      PROVE  StampOf(tree'[p]) = StampOf(tree[p]) \/ Reported(p)'
  <2>1. PICK q : q = directory(watch.backend, p)
    OBVIOUS
  <2>2. /\ q \in Paths /\ watch.watched[q] # None /\ is_under(p, q)
        /\ p \in Dirs \/ watch.backend = "kqueue" => q = p
        /\ p \in Files /\ watch.backend = "inotify" => q = Parent(p) /\ p # Root
    BY <1>9, <2>1, CoverIs DEF watches, WatchTypes
  <2>3. CASE is_under(p, c)
    <3>1. CASE is_under(q, c)
      BY <1>7, <1>8, <2>2, <2>3, <3>1
    <3>2. CASE ~is_under(q, c)
      <4>1. q # p
        BY <2>3, <3>2
      <4>2. p \in Files /\ watch.backend = "inotify" /\ q = Parent(p) /\ p # Root
        BY <2>2, <4>1 DEF WatchTypes, Files
      <4>3. p = c
        BY <1>1, <2>3, <3>2, <4>2, UnderParent
      <4>4. On(watch, tree, q) \/ Lost(q)
        BY <2>2 DEF Attached
      <4>5. Lost(q) => Lost(p)
        BY <2>2, LostBelow
      <4>6. Lost(p) => Reported(p)
        BY LostReported
      <4>7. On(watch, tree, q) => c \in r.paths
        BY <1>3, <4>2, <4>3 DEF EntryHeard
      <4> QED
        BY <1>5, <4>3, <4>4, <4>5, <4>6, <4>7
    <3> QED
      BY <3>1, <3>2
  <2>4. CASE ~is_under(p, c) /\ p # Parent(c)
    BY <2>4 DEF EntryTurns
  <2>5. CASE p = Parent(c)
    <3>1. q = p
      BY <1>6, <2>2, <2>5
    <3>2. On(watch, tree, p) \/ Lost(p)
      BY <2>2, <3>1 DEF Attached
    <3>3. Lost(p) => Reported(p)
      BY LostReported
    <3> QED
      BY <1>3, <1>5, <2>5, <3>2, <3>3 DEF EntryHeard
  <2> QED
    BY <2>3, <2>4, <2>5
<1>10. ASSUME NEW p \in Paths, On(watch, tree, p)
       PROVE  On(watch, tree', p) \/ Lost(p)'
  <2>1. watch.watched[p] # None /\ tree[p] # None /\ watch.watched[p].ino = tree[p].ino
    BY <1>10 DEF On
  <2>2. CASE is_under(p, c)
    BY <1>7, <1>8, <2>1, <2>2
  <2>3. CASE ~is_under(p, c)
    <3>1. tree'[p] # None /\ tree'[p].ino = tree[p].ino
      BY <2>1, <2>3 DEF EntryTurns
    <3> QED
      BY <2>1, <3>1 DEF On
  <2> QED
    BY <2>2, <2>3
<1> QED
  BY <1>5, <1>9, <1>10 DEF Told

\* Something is written in place.
WriteTold ==
    \E c \in Files : /\ Edit({}, {c}) /\ tree'[c] # None /\ tree[c] # None
                     /\ tree'[c].ino = tree[c].ino
                     /\ \A p \in Paths : p # c => tree'[p] = tree[p]

\* So is a file that is written in place.
LEMMA WrittenTold ==
  ASSUME WatchTypes, Attached, QueueTypes, watch # None, WriteTold
  PROVE  QueueTypes' /\ Told
<1>1. PICK c \in Files : /\ Edit({}, {c}) /\ tree'[c] # None /\ tree[c] # None
                         /\ tree'[c].ino = tree[c].ino
                         /\ \A p \in Paths : p # c => tree'[p] = tree[p]
  BY DEF WriteTold
<1>2. PICK r : r = Reports(watch, tree, {}, {c})
  OBVIOUS
<1>3. c \in Paths /\ c # Root /\ Parent(c) \in Paths
  BY PathsAssumption, ParentAbove DEF Files
<1>4. /\ r.paths \subseteq {c} /\ r.subtrees = {} /\ r.gone = {}
      /\ watch.backend = "inotify" /\ On(watch, tree, Parent(c)) => c \in r.paths
      /\ watch.backend # "inotify" /\ On(watch, tree, c) => c \in r.paths
  <2>1. CASE watch.backend = "inotify"
    <3> DEFINE heard == {p \in {c} : p # Root /\ On(watch, tree, Parent(p))}
    <3>1. r = InotifyReports(watch, tree, {}, {c})
      BY <1>2, <2>1 DEF Reports
    <3>2. {} \cup {c} = {c} /\ heard \cap {} = {} /\ heard \cup {Parent(p) : p \in {}} = heard
          /\ {p \in {} : p \in Dirs /\ (p \in heard \/ On(watch, tree, p))} = {}
      OBVIOUS
    <3>3. r = [paths |-> heard, subtrees |-> {}, gone |-> {}, lost |-> FALSE]
      BY <3>1, <3>2 DEF InotifyReports
    <3>4. heard \subseteq {c} /\ (On(watch, tree, Parent(c)) => c \in heard)
      BY <1>3
    <3> HIDE DEF heard
    <3> QED
      BY <2>1, <3>3, <3>4
  <2>2. CASE watch.backend # "inotify"
    <3>1. r = KqueueReports(watch, tree, {}, {c})
      BY <1>2, <2>2 DEF Reports
    <3>2. {p \in {} : On(watch, tree, p)} = {} /\ {d \in {Parent(p) : p \in {}} : On(watch, tree, d)} = {}
      OBVIOUS
    <3>3. r.paths = {p \in {c} : On(watch, tree, p)} /\ r.subtrees = {} /\ r.gone = {}
      BY <3>1, <3>2 DEF KqueueReports
    <3> QED
      BY <2>2, <3>3
  <2> QED
    BY <2>1, <2>2
<1>5. Queued(r)
  BY <1>1, <1>2, EditQueues
<1>6. /\ QueueTypes'
      /\ \A p \in Paths : /\ (Reported(p) => Reported(p)') /\ (Lost(p) => Lost(p)')
                          /\ p \in r.paths => Reported(p)'
                          /\ \A g \in r.gone : is_under(p, g) => Lost(p)'
  BY <1>3, <1>4, <1>5, QueuedGrows
<1>7. ASSUME watches(watch, c) PROVE Reported(c)'
  <2>1. PICK q : q = directory(watch.backend, c)
    OBVIOUS
  <2>2. /\ q \in Paths /\ watch.watched[q] # None /\ is_under(c, q)
        /\ watch.backend = "kqueue" => q = c
        /\ watch.backend = "inotify" => q = Parent(c)
    BY <1>3, <1>7, <2>1, CoverIs DEF watches, WatchTypes
  <2>3. On(watch, tree, q) \/ Lost(q)
    BY <2>2 DEF Attached
  <2>4. Lost(q) => Reported(c)
    BY <1>3, <2>2, LostBelow, LostReported
  <2>5. On(watch, tree, q) => c \in r.paths
    BY <1>4, <2>2 DEF WatchTypes
  <2> QED
    BY <1>3, <1>6, <2>3, <2>4, <2>5
<1>8. ASSUME NEW p \in Paths, On(watch, tree, p) PROVE On(watch, tree', p)
  BY <1>1, <1>8 DEF On
<1> QED
  BY <1>1, <1>6, <1>7, <1>8 DEF Told

\* Nothing is to be told of a tree that stays.
LEMMA StandsTold ==
  ASSUME QueueTypes, tree' = tree, queue' = queue
  PROVE  QueueTypes' /\ Told
<1>1. QueueTypes' /\ \A p \in Paths : Reported(p)' = Reported(p) /\ Lost(p)' = Lost(p)
  BY DEF QueueTypes, Reported, Lost
<1> QED
  BY <1>1 DEF Told

\* Every change of the world is told.
LEMMA ChangeTold ==
  ASSUME WorldTypes, Inodes, Rooted, WatchTypes, Attached, QueueTypes, watch # None, Change
  PROVE  QueueTypes' /\ Told
<1>1. ASSUME NEW c \in Paths, Create(c) PROVE EntryTurns(c)
  <2>1. /\ c \in Files /\ Parent(c) \in Paths /\ c # Root
        /\ tree'[Parent(c)] = Touch(tree[Parent(c)]) /\ tree[Parent(c)] # None
        /\ \A p \in Paths : p # c /\ p # Parent(c) => tree'[p] = tree[p]
    BY <1>1, CreateTurns
  <2>2. tree[Parent(c)] \in Nodes(Parent(c)) /\ tree[Parent(c)].ino <= events
    BY <2>1 DEF WorldTypes, Inodes
  <2>3. Touch(tree[Parent(c)]) \in Nodes(Parent(c)) /\ Touch(tree[Parent(c)]).ino = tree[Parent(c)].ino
    BY <2>1, <2>2, TouchIs
  <2>4. Edit({c}, {})
    BY <1>1 DEF Create
  <2>5. is_under(c, c)
    BY UnderOrder
  <2> QED
    BY <2>1, <2>3, <2>4, <2>5, NoneAssumption DEF EntryTurns
<1>2. ASSUME NEW c \in Paths, Delete(c) PROVE EntryTurns(c)
  <2>1. /\ c \in Files /\ Parent(c) \in Paths /\ c # Root
        /\ tree'[Parent(c)] = Touch(tree[Parent(c)]) /\ tree[Parent(c)] # None
        /\ \A p \in Paths : p # c /\ p # Parent(c) => tree'[p] = tree[p]
    BY <1>2, DeleteTurns
  <2>2. tree[Parent(c)] \in Nodes(Parent(c)) /\ tree[Parent(c)].ino <= events
    BY <2>1 DEF WorldTypes, Inodes
  <2>3. Touch(tree[Parent(c)]) \in Nodes(Parent(c)) /\ Touch(tree[Parent(c)]).ino = tree[Parent(c)].ino
    BY <2>1, <2>2, TouchIs
  <2>4. Edit({c}, {})
    BY <1>2 DEF Delete
  <2>5. is_under(c, c)
    BY UnderOrder
  <2> QED
    BY <2>1, <2>3, <2>4, <2>5, NoneAssumption DEF EntryTurns
<1>3. ASSUME NEW c \in Paths, Write(c) PROVE WriteTold
  <2>1. Edit({}, {c})
    BY <1>3 DEF Write
  <2> QED
    BY <1>3, <2>1, WriteTurns DEF WriteTold
<1>4. ASSUME NEW d \in Dirs, Swap(d) \/ MoveAway(d) PROVE EntryTurns(d)
  <2>1. /\ d # Root /\ Parent(d) \in Paths /\ tree[Parent(d)] # None
        /\ tree'[Parent(d)] = Touch(tree[Parent(d)])
        /\ \A p \in Paths : ~is_under(p, d) /\ p # Parent(d) => tree'[p] = tree[p]
    BY <1>4, MoveTurns
  <2>2. tree[Parent(d)] \in Nodes(Parent(d)) /\ tree[Parent(d)].ino <= events
    BY <2>1 DEF WorldTypes, Inodes
  <2>3. Touch(tree[Parent(d)]) \in Nodes(Parent(d)) /\ Touch(tree[Parent(d)]).ino = tree[Parent(d)].ino
    BY <2>1, <2>2, TouchIs
  <2>4. Edit({d}, {})
    BY <1>4 DEF Swap, MoveAway
  <2> QED
    BY <2>1, <2>3, <2>4, PathsAssumption, NoneAssumption DEF EntryTurns
<1>5. ASSUME Tick \/ WriteExclude \/ \E p \in Sources : GitAdd(p) PROVE tree' = tree /\ queue' = queue
  BY <1>5 DEF Tick, WriteExclude, GitAdd, session
<1> QED
  BY <1>1, <1>2, <1>3, <1>4, <1>5, EntryTold, WrittenTold, StandsTold DEF Change

-----------------------------------------------------------------------------
(* What the watch vouches for *)

Sure(d, s) ==
    /\ StampOf(tree[d]) = s.stamp \/ Reported(d)
    /\ s.rules # None => RulesStamp(d) = s.rules \/ Reported(rules_of(d))

\* A clean directory is as it was seen, or is reported.
Clean == \A d \in Dirs : watch.clean[d] # None =>
    /\ watch.clean[d] \in Sightings /\ watches(watch, d)
    /\ watch.clean[d].rules # None => rules_of(d) \in Paths /\ watches(watch, rules_of(d))
    /\ Sure(d, watch.clean[d])

\* So is one that the walk looks at and that was watched before.
Ruled == \A d \in Dirs :
    /\ run.visits[d].step = "listed" /\ run.visits[d].rules # None => rules_of(d) \in Paths
    /\ run.seen[d] # None /\ run.seen[d].rules # None => rules_of(d) \in Paths

Looking(d) ==
    LET v == run.visits[d] IN
    /\ v.step \in {"stat", "listed"} /\ watched_before(watch, d)
       => StampOf(tree[d]) = v.stamp \/ Reported(d)
    /\ v.step = "listed" /\ v.rules # None /\ watched_before(watch, rules_of(d))
       => RulesStamp(d) = v.rules \/ Reported(rules_of(d))

InSight(d) ==
    /\ run.seen[d] # None /\ watched_before(watch, d)
       => StampOf(tree[d]) = run.seen[d].stamp \/ Reported(d)
    /\ run.seen[d] # None /\ run.seen[d].rules # None /\ watched_before(watch, rules_of(d))
       => RulesStamp(d) = run.seen[d].rules \/ Reported(rules_of(d))
    /\ run.visits[d].step # "no" =>
          \A e \in ancestors(d) : run.seen[e] # None \/ watch.clean[e] # None

InView == \A d \in Dirs : Looking(d) /\ InSight(d)

\* A report taken, that the comparison has still to look at.
Concerned(p) == p \in watch.touched.paths \/ Parent(p) \in watch.touched.paths
                \/ \E s \in watch.touched.subtrees : is_under(p, s)

Vouched(ix, p) ==
    /\ Present(p) /\ StampOf(tree[p]) = ix.entries[p].stamp
    /\ ix.entries[p].stamp.mtime < ix.time

\* What the comparison need not look at again: it is watched, and was compared.
Spared(ix, p) == Reported(p) \/ (watches(watch, p) /\ Vouched(ix, p))

Picking == run.phase = "walk" /\ run.compare = "watched"

Baseline ==
    watch.baseline # None =>
       /\ watch.baseline.recheck \subseteq Tracked(watch.baseline.index)
       /\ \A p \in Tracked(watch.baseline.index) :
             p \in watch.baseline.recheck \/ Concerned(p) \/ Spared(watch.baseline.index, p)

Picked ==
    /\ run.picked \subseteq Tracked(run.index)
    /\ \A p \in Tracked(run.index) \ run.picked : Spared(run.index, p)

Watchful == ~behind /\ watch # None =>
    /\ QueueTypes /\ WatchTypes /\ Attached /\ Clean
    /\ run.phase \in {"walk", "settle"} => Ruled
    /\ run.phase = "walk" => InView
    /\ run.phase = "walk" /\ run.compare \in {"pick", "watched"} => ~watch.failure
    /\ ~watch.failure /\ ~Picking => Baseline
    /\ Picking => Picked

\* A report follows from a change of what is watched.
LEMMA ToldSure ==
  ASSUME Told, NEW d \in Dirs, NEW s
  PROVE  /\ watches(watch, d) /\ (StampOf(tree[d]) = s \/ Reported(d))
            => StampOf(tree'[d]) = s \/ Reported(d)'
         /\ rules_of(d) \in Paths /\ watches(watch, rules_of(d))
            /\ (RulesStamp(d) = s \/ Reported(rules_of(d)))
            => RulesStamp(d)' = s \/ Reported(rules_of(d))'
<1>1. d \in Paths
  BY PathsAssumption
<1>2. ASSUME rules_of(d) \in Paths
      PROVE RulesStamp(d) = StampOf(tree[rules_of(d)]) /\ RulesStamp(d)' = StampOf(tree'[rules_of(d)])
  BY <1>2 DEF RulesStamp
<1> QED
  BY <1>1, <1>2 DEF Told

\* The watches stay on what they are on, or are lost.
LEMMA ToldAttached ==
  ASSUME Told, Attached, watch' = watch
  PROVE  Attached'
<1>1. ASSUME NEW p \in Paths, watch.watched[p] # None PROVE On(watch, tree', p) \/ Lost(p)'
  BY <1>1 DEF Told, Attached
<1>2. ASSUME NEW p \in Paths, watch.watched[p] # None PROVE On(watch', tree', p) \/ Lost(p)'
  BY <1>1, <1>2
<1>3. ASSUME NEW p \in Paths, watch'.watched[p] # None
      PROVE  /\ \A e \in ancestors(p) : watch'.watched[e] # None
             /\ On(watch, tree, p)' \/ Lost(p)'
  <2>1. On(watch, tree, p)' <=> On(watch', tree', p)
    BY DEF On
  <2> QED
    BY <1>2, <1>3, <2>1 DEF Attached
<1>4. watch'.backend = "inotify" => \A p \in Files : watch'.watched[p] = None
  BY DEF Attached
<1> QED
  BY <1>3, <1>4 DEF Attached

\* What is clean stays so, or is reported.
LEMMA ToldClean ==
  ASSUME Told, Clean, watch' = watch
  PROVE  Clean'
<1>1. ASSUME NEW d \in Dirs, watch'.clean[d] # None
      PROVE  Sure(d, watch.clean[d])'
  <2>1. PICK s : s = watch.clean[d]
    OBVIOUS
  <2>2. s # None /\ watches(watch, d) /\ (s.rules # None => rules_of(d) \in Paths /\ watches(watch, rules_of(d)))
        /\ Sure(d, s)
    BY <1>1, <2>1 DEF Clean
  <2>3. Sure(d, s)'
    BY <2>2, ToldSure DEF Sure
  <2>4. s = watch'.clean[d]
    BY <2>1
  <2> QED
    BY <2>3, <2>4 DEF Sure
<1> QED
  BY <1>1 DEF Clean, watches

\* What the comparison may spare it may still spare.
LEMMA ToldSpared ==
  ASSUME WorldTypes, Told, NEW ix, NEW p \in Paths, Spared(ix, p), watch' = watch
  PROVE  Spared(ix, p)'
<1>1. CASE Reported(p)
  BY <1>1 DEF Told, Spared
<1>2. CASE watches(watch, p) /\ Vouched(ix, p)
  <2>1. CASE Reported(p)'
    BY <2>1 DEF Spared
  <2>2. CASE StampOf(tree'[p]) = StampOf(tree[p])
    <3>1. watches(watch, p)'
      BY <1>2 DEF watches
    <3>2. tree[p] # None /\ StampOf(tree'[p]) = ix.entries[p].stamp /\ ix.entries[p].stamp.mtime < ix.time
      BY <1>2, <2>2 DEF Vouched, Present
    <3>3. CASE tree'[p] # None
      BY <3>1, <3>2, <3>3 DEF Spared, Vouched, Present
    <3>4. CASE tree'[p] = None
      <4>1. StampOf(tree'[p]) = None
        BY <3>4 DEF StampOf
      <4>2. StampOf(tree[p]) # None
        BY <3>2, NodeIs DEF WorldTypes
      <4> QED
        BY <2>2, <4>1, <4>2
    <3> QED
      BY <3>3, <3>4
  <2> QED
    BY <1>2, <2>1, <2>2 DEF Told
<1> QED
  BY <1>1, <1>2 DEF Spared

\* What is in view stays in view, whatever changes meanwhile.
LEMMA ToldInView ==
  ASSUME Told, InView, Ruled, watch' = watch, run'.visits = run.visits, run'.seen = run.seen
  PROVE  InView'
<1>1. ASSUME NEW p, watched_before(watch, p) PROVE watches(watch, p)
  BY <1>1 DEF watched_before
<1>2. \A p : watched_before(watch', p) => watched_before(watch, p)
  OBVIOUS
<1>3. ASSUME NEW d \in Dirs PROVE Looking(d)'
  <2>1. PICK v : v = run.visits[d]
    OBVIOUS
  <2>2. run'.visits[d] = v
    BY <2>1
  <2>3. ASSUME v.step \in {"stat", "listed"}, watched_before(watch, d)
        PROVE  StampOf(tree'[d]) = v.stamp \/ Reported(d)'
    BY <1>1, <2>1, <2>3, ToldSure DEF InView, Looking
  <2>4. ASSUME v.step = "listed", v.rules # None, watched_before(watch, rules_of(d))
        PROVE  RulesStamp(d)' = v.rules \/ Reported(rules_of(d))'
    BY <1>1, <2>1, <2>4, ToldSure DEF InView, Looking, Ruled
  <2> QED
    BY <1>2, <2>2, <2>3, <2>4 DEF Looking
<1>4. ASSUME NEW d \in Dirs PROVE InSight(d)'
  <2>1. PICK s : s = run.seen[d]
    OBVIOUS
  <2>2. run'.seen[d] = s
    BY <2>1
  <2>3. ASSUME s # None, watched_before(watch, d)
        PROVE  StampOf(tree'[d]) = s.stamp \/ Reported(d)'
    BY <1>1, <2>1, <2>3, ToldSure DEF InView, InSight
  <2>4. ASSUME s # None, s.rules # None, watched_before(watch, rules_of(d))
        PROVE  RulesStamp(d)' = s.rules \/ Reported(rules_of(d))'
    BY <1>1, <2>1, <2>4, ToldSure DEF InView, InSight, Ruled
  <2>5. run'.visits[d].step # "no" =>
          \A e \in ancestors(d) : run'.seen[e] # None \/ watch'.clean[e] # None
    BY DEF InView, InSight
  <2> QED
    BY <1>2, <2>2, <2>3, <2>4, <2>5 DEF InSight
<1> QED
  BY <1>3, <1>4 DEF InView

\* The baseline still names all that may differ.
LEMMA ToldBaseline ==
  ASSUME WorldTypes, Told, Baseline, watch' = watch
  PROVE  Baseline'
<1>1. ASSUME watch.baseline # None,
             NEW p \in Tracked(watch.baseline.index), Spared(watch.baseline.index, p)
      PROVE  Spared(watch.baseline.index, p)'
  <2>1. PICK ix : ix = watch.baseline.index
    OBVIOUS
  <2>2. Spared(ix, p) /\ p \in Paths
    BY <1>1, <2>1 DEF Tracked, Files
  <2>3. Spared(ix, p)'
    BY <2>2, ToldSpared
  <2>4. ix = watch'.baseline.index
    BY <2>1
  <2> QED
    BY <2>3, <2>4 DEF Spared, Vouched
<1>2. ASSUME watch'.baseline # None, NEW p \in Tracked(watch'.baseline.index)
      PROVE  p \in watch'.baseline.recheck \/ Concerned(p)' \/ Spared(watch.baseline.index, p)'
  <2>1. p \in Tracked(watch.baseline.index) /\ watch.baseline # None
    BY <1>2
  <2>2. p \in watch.baseline.recheck \/ Concerned(p) \/ Spared(watch.baseline.index, p)
    BY <2>1 DEF Baseline
  <2>3. Concerned(p) => Concerned(p)'
    BY DEF Concerned
  <2> QED
    BY <1>1, <2>1, <2>2, <2>3
<1> QED
  BY <1>2 DEF Baseline, Tracked

\* What was not picked still need not be.
LEMMA ToldPicked ==
  ASSUME WorldTypes, Told, Picked, watch' = watch, run'.picked = run.picked, run'.index = run.index
  PROVE  Picked'
<1>1. PICK ix : ix = run.index
  OBVIOUS
<1>2. ix = run'.index
  BY <1>1
<1>3. ASSUME NEW p \in Tracked(ix) \ run.picked PROVE Spared(ix, p)'
  <2>1. Spared(ix, p) /\ p \in Paths
    BY <1>1, <1>3 DEF Picked, Tracked, Files
  <2> QED
    BY <2>1, ToldSpared
<1>4. run'.picked \subseteq Tracked(ix)
  BY <1>1 DEF Picked
<1> QED
  BY <1>2, <1>3, <1>4 DEF Picked, Tracked, Spared, Vouched

\* A step that leaves the run and the watch alone, and is told to the watch.
LEMMA ToldWatchful ==
  ASSUME WorldTypes, Watchful, watch # None => QueueTypes' /\ Told, watch' = watch,
         behind' = behind, run' = run
  PROVE  Watchful'
<1> SUFFICES ASSUME ~behind', watch' # None PROVE Watchful'
  BY DEF Watchful
<1>1. QueueTypes' /\ Told /\ WatchTypes /\ Attached /\ Clean
  BY DEF Watchful
<1>2. WatchTypes' /\ Attached' /\ Clean'
  BY <1>1, ToldAttached, ToldClean DEF WatchTypes
<1>3. run'.phase \in {"walk", "settle"} => Ruled'
  BY DEF Watchful, Ruled
<1>4. run'.phase = "walk" => InView'
  BY <1>1, ToldInView DEF Watchful
<1>5. run'.phase = "walk" /\ run'.compare \in {"pick", "watched"} => ~watch'.failure
  BY DEF Watchful
<1>6. ~watch'.failure /\ ~Picking' => Baseline'
  BY <1>1, ToldBaseline DEF Watchful, Picking
<1>7. Picking' => Picked'
  BY <1>1, ToldPicked DEF Watchful, Picking
<1> QED
  BY <1>1, <1>2, <1>3, <1>4, <1>5, <1>6, <1>7 DEF Watchful

\* Watcher.drain: the watches that are lost are dropped, the others were there.
LEMMA DrainedIs ==
  ASSUME WatchTypes, NEW v, v = Drained(watch, queue)
  PROVE  /\ DOMAIN v = DOMAIN watch /\ v.clean = watch.clean /\ v.baseline = watch.baseline
         /\ v.touched = watch.touched /\ v.backend = watch.backend /\ v.failure = watch.failure
         /\ DOMAIN v.watched = Paths
         /\ \A p \in Paths :
               IF watch.watched[p] = None \/ \E g \in queue.gone : is_under(p, g)
               THEN v.watched[p] = None
               ELSE v.watched[p] = [watch.watched[p] EXCEPT !.before = TRUE]
<1>1. PICK left : left = forget_under(watch.watched, queue.gone)
  OBVIOUS
<1>2. v = [watch EXCEPT !.watched = [p \in Paths |->
             IF left[p] = None THEN None ELSE [left[p] EXCEPT !.before = TRUE]]]
  BY <1>1 DEF Drained
<1>3. \A p \in Paths : left[p] = IF \E g \in queue.gone : is_under(p, g) THEN None ELSE watch.watched[p]
  BY <1>1 DEF forget_under
<1>4. /\ DOMAIN v = DOMAIN watch /\ v.clean = watch.clean /\ v.baseline = watch.baseline
      /\ v.touched = watch.touched /\ v.backend = watch.backend /\ v.failure = watch.failure
      /\ v.watched = [p \in Paths |->
             IF left[p] = None THEN None ELSE [left[p] EXCEPT !.before = TRUE]]
  BY <1>2 DEF WatchTypes
<1>5. ASSUME NEW p \in Paths
      PROVE  IF watch.watched[p] = None \/ \E g \in queue.gone : is_under(p, g)
             THEN v.watched[p] = None
             ELSE v.watched[p] = [watch.watched[p] EXCEPT !.before = TRUE]
  <2>1. v.watched[p] = IF left[p] = None THEN None ELSE [left[p] EXCEPT !.before = TRUE]
    BY <1>4
  <2>2. CASE \E g \in queue.gone : is_under(p, g)
    BY <1>3, <2>1, <2>2
  <2>3. CASE ~\E g \in queue.gone : is_under(p, g)
    <3>1. left[p] = watch.watched[p]
      BY <1>3, <2>3
    <3> QED
      BY <2>1, <2>3, <3>1
  <2> QED
    BY <2>2, <2>3
<1>6. DOMAIN v.watched = Paths
  BY <1>4
<1> QED
  BY <1>4, <1>5, <1>6

\* A watch that is taken over, or a new beginning of it.
LEMMA BegunIs ==
  ASSUME WatchTypes, NEW v, v = begin_watch(watch, queue)
  PROVE  /\ DOMAIN v = DOMAIN watch /\ v.backend = watch.backend /\ v.failure = watch.failure
         /\ DOMAIN v.watched = Paths /\ DOMAIN v.clean = Dirs /\ DOMAIN v.touched = DOMAIN watch.touched
         /\ \/ \A p \in Paths : v.watched[p] = None
            \/ /\ ~queue.lost
               /\ \A p \in Paths :
                     IF watch.watched[p] = None \/ \E g \in queue.gone : is_under(p, g)
                     THEN v.watched[p] = None
                     ELSE v.watched[p] = [watch.watched[p] EXCEPT !.before = TRUE]
         /\ \/ (\A d \in Dirs : v.clean[d] = None) /\ v.baseline = None
            \/ /\ ~queue.lost
               /\ \A p \in Paths :
                     IF watch.watched[p] = None \/ \E g \in queue.gone : is_under(p, g)
                     THEN v.watched[p] = None
                     ELSE v.watched[p] = [watch.watched[p] EXCEPT !.before = TRUE]
               /\ \A d \in Dirs : v.clean[d] = IF d \in Invalidated(queue) THEN None ELSE watch.clean[d]
               /\ v.baseline = watch.baseline
               /\ v.touched.paths = watch.touched.paths \cup queue.paths
               /\ v.touched.subtrees = watch.touched.subtrees \cup queue.subtrees
<1>1. CASE Overrun(queue)
  <2>1. v = [[watch EXCEPT !.watched = NoWatches] EXCEPT
                 !.clean = [d \in Dirs |-> None], !.baseline = None, !.touched = NoTouched]
    BY <1>1 DEF begin_watch, forget
  <2> QED
    BY <2>1 DEF WatchTypes, NoWatches, NoTouched
<1>2. CASE ~Overrun(queue)
  <2>1. PICK u : u = Drained(watch, queue)
    OBVIOUS
  <2>2. /\ DOMAIN u = DOMAIN watch /\ u.clean = watch.clean /\ u.baseline = watch.baseline
         /\ u.touched = watch.touched /\ u.backend = watch.backend /\ u.failure = watch.failure
         /\ DOMAIN u.watched = Paths
         /\ \A p \in Paths :
               IF watch.watched[p] = None \/ \E g \in queue.gone : is_under(p, g)
               THEN u.watched[p] = None
               ELSE u.watched[p] = [watch.watched[p] EXCEPT !.before = TRUE]
    BY <2>1, DrainedIs
  <2>3. ~queue.lost
    BY <1>2 DEF Overrun
  <2>4. CASE Size(watch.touched) + Size(queue) > REPORTS
    <3>1. v = [u EXCEPT !.clean = [d \in Dirs |-> None], !.baseline = None, !.touched = NoTouched]
      BY <1>2, <2>1, <2>4 DEF begin_watch, forget
    <3>2. /\ DOMAIN v = DOMAIN u /\ v.backend = u.backend /\ v.failure = u.failure
          /\ v.watched = u.watched /\ v.clean = [d \in Dirs |-> None] /\ v.baseline = None
          /\ v.touched = NoTouched
      BY <2>2, <3>1 DEF WatchTypes
    <3> QED
      BY <2>2, <2>3, <3>2 DEF WatchTypes, NoTouched
  <2>5. CASE ~(Size(watch.touched) + Size(queue) > REPORTS)
    <3>1. v = [u EXCEPT
            !.clean = [d \in Dirs |-> IF d \in Invalidated(queue) THEN None ELSE u.clean[d]],
            !.touched = [paths    |-> u.touched.paths \cup queue.paths,
                         subtrees |-> u.touched.subtrees \cup queue.subtrees]]
      BY <1>2, <2>1, <2>5 DEF begin_watch
    <3>2. /\ DOMAIN v = DOMAIN u /\ v.backend = u.backend /\ v.failure = u.failure
          /\ v.watched = u.watched /\ v.baseline = u.baseline
          /\ v.clean = [d \in Dirs |-> IF d \in Invalidated(queue) THEN None ELSE u.clean[d]]
          /\ v.touched = [paths    |-> u.touched.paths \cup queue.paths,
                          subtrees |-> u.touched.subtrees \cup queue.subtrees]
      BY <2>2, <3>1 DEF WatchTypes
    <3> QED
      BY <2>2, <2>3, <3>2 DEF WatchTypes
  <2> QED
    BY <2>4, <2>5
<1> QED
  BY <1>1, <1>2

\* A watch that is not lost stays, and was there before the run.
Carried(v) == \A p \in Paths :
                 IF watch.watched[p] = None \/ \E g \in queue.gone : is_under(p, g)
                 THEN v.watched[p] = None
                 ELSE v.watched[p] = [watch.watched[p] EXCEPT !.before = TRUE]

\* What is watched and not reported is watched on.
LEMMA CarriedWatch ==
  ASSUME WatchTypes, QueueTypes, NEW v, v.backend = watch.backend, Carried(v),
         NEW p \in Paths, watches(watch, p), ~Reported(p)
  PROVE  watches(v, p)
<1>1. PICK q : q = directory(watch.backend, p)
  OBVIOUS
<1>2. q \in Paths /\ watch.watched[q] # None /\ is_under(p, q)
  BY <1>1, CoverIs DEF watches, WatchTypes
<1>3. ~Lost(q)
  BY <1>2, LostBelow, LostReported
<1>4. v.watched[q] = [watch.watched[q] EXCEPT !.before = TRUE]
  BY <1>2, <1>3 DEF Carried, Lost
<1>5. v.watched[q] # None
  <2>1. v.watched[q] \in Held
    BY <1>2, <1>4 DEF WatchTypes, Held
  <2> QED
    BY <2>1, NoneAssumption
<1> QED
  BY <1>1, <1>5 DEF watches

\* A watch that begins a run is on what it is on (Watch::begin).
LEMMA BegunAttached ==
  ASSUME WatchTypes, Attached, QueueTypes, tree' = tree, queue' = NoQueue,
         watch' = begin_watch(watch, queue)
  PROVE  WatchTypes' /\ Attached' /\ QueueTypes'
<1>1. PICK v : v = begin_watch(watch, queue)
  OBVIOUS
<1>2. /\ DOMAIN v = DOMAIN watch /\ v.backend = watch.backend
      /\ DOMAIN v.watched = Paths /\ DOMAIN v.clean = Dirs /\ DOMAIN v.touched = DOMAIN watch.touched
      /\ (\A p \in Paths : v.watched[p] = None) \/ (~queue.lost /\ Carried(v))
  <2>1. Carried(v) <=> \A p \in Paths :
                     IF watch.watched[p] = None \/ \E g \in queue.gone : is_under(p, g)
                     THEN v.watched[p] = None
                     ELSE v.watched[p] = [watch.watched[p] EXCEPT !.before = TRUE]
    BY DEF Carried
  <2> QED
    BY <1>1, <2>1, BegunIs
<1>3. v = watch'
  BY <1>1
<1>4. ASSUME NEW p \in Paths, v.watched[p] # None
      PROVE  /\ watch.watched[p] # None /\ Carried(v) /\ ~Lost(p)
             /\ v.watched[p] = [watch.watched[p] EXCEPT !.before = TRUE]
             /\ v.watched[p] \in Held
  <2>1. /\ watch.watched[p] # None /\ Carried(v) /\ ~Lost(p)
        /\ v.watched[p] = [watch.watched[p] EXCEPT !.before = TRUE]
    BY <1>2, <1>4 DEF Carried, Lost
  <2> QED
    BY <2>1 DEF WatchTypes, Held
<1>5. WatchTypes'
  BY <1>2, <1>3, <1>4 DEF WatchTypes
<1>6. QueueTypes'
  BY DEF QueueTypes, NoQueue
<1>7. ASSUME NEW p \in Paths, v.watched[p] # None
      PROVE  /\ \A e \in ancestors(p) : v.watched[e] # None
             /\ On(v, tree, p)
  <2>1. ASSUME NEW e \in ancestors(p) PROVE v.watched[e] # None
    <3>1. e \in Paths /\ is_under(p, e) /\ watch.watched[e] # None
      BY <1>4, <1>7, <2>1, PathsAssumption DEF ancestors, Attached
    <3>2. ~Lost(e)
      BY <1>4, <1>7, <3>1, LostBelow
    <3>3. v.watched[e] = [watch.watched[e] EXCEPT !.before = TRUE]
      BY <1>4, <1>7, <3>1, <3>2 DEF Carried, Lost
    <3>4. v.watched[e] \in Held
      BY <3>1, <3>3 DEF WatchTypes, Held
    <3> QED
      BY <3>4, NoneAssumption
  <2>2. On(watch, tree, p)
    BY <1>4, <1>7 DEF Attached
  <2>3. v.watched[p].ino = watch.watched[p].ino
    <3>1. PICK h : h = watch.watched[p]
      OBVIOUS
    <3>2. h \in Held /\ v.watched[p] = [h EXCEPT !.before = TRUE]
      BY <1>4, <1>7, <3>1 DEF WatchTypes
    <3> QED
      BY <3>1, <3>2 DEF Held
  <2> QED
    BY <1>7, <2>1, <2>2, <2>3 DEF On
<1>8. v.backend = "inotify" => \A p \in Files : v.watched[p] = None
  BY <1>2, <1>4 DEF Attached, Files
<1>9. Attached'
  <2>1. ASSUME NEW p \in Paths, watch'.watched[p] # None
        PROVE  (\A e \in ancestors(p) : watch'.watched[e] # None) /\ On(watch, tree, p)'
    BY <1>3, <1>7, <2>1 DEF On
  <2> QED
    BY <1>3, <1>8, <2>1 DEF Attached
<1> QED
  BY <1>5, <1>6, <1>9

\* A directory that no report invalidates is not reported, nor are its rules.
LEMMA Uninvalidated ==
  ASSUME NEW d \in Dirs, d \notin Invalidated(queue), ~queue.lost, QueueTypes
  PROVE  ~Reported(d) /\ (rules_of(d) \in Paths => ~Reported(rules_of(d)))
<1>1. ~Reported(d)
  BY DEF Invalidated, Reported
<1>2. ASSUME rules_of(d) \in Paths, NEW s \in queue.subtrees, is_under(rules_of(d), s) PROVE FALSE
  <2>1. s \in Paths /\ s \in Dirs
    BY PathsAssumption DEF QueueTypes
  <2>2. rules_of(d) # Root /\ Parent(rules_of(d)) = d /\ rules_of(d) \notin Dirs
    BY InDirectory, PathsAssumption
  <2>3. is_under(d, s)
    BY <1>2, <2>1, <2>2, UnderParent
  <2> QED
    BY <2>1, <2>3 DEF Invalidated
<1> QED
  BY <1>1, <1>2 DEF Invalidated, Reported

\* What a run begins with as clean is as it was seen.
LEMMA BegunClean ==
  ASSUME WatchTypes, Attached, QueueTypes, Clean, tree' = tree, queue' = NoQueue,
         watch' = begin_watch(watch, queue)
  PROVE  Clean'
<1>1. PICK v : v = begin_watch(watch, queue)
  OBVIOUS
<1>2. /\ v.backend = watch.backend
      /\ \/ (\A d \in Dirs : v.clean[d] = None) /\ v.baseline = None
         \/ /\ ~queue.lost /\ Carried(v)
            /\ \A d \in Dirs : v.clean[d] = IF d \in Invalidated(queue) THEN None ELSE watch.clean[d]
  <2>1. Carried(v) <=> \A p \in Paths :
                     IF watch.watched[p] = None \/ \E g \in queue.gone : is_under(p, g)
                     THEN v.watched[p] = None
                     ELSE v.watched[p] = [watch.watched[p] EXCEPT !.before = TRUE]
    BY DEF Carried
  <2> QED
    BY <1>1, <2>1, BegunIs
<1>3. v = watch'
  BY <1>1
<1>4. ASSUME NEW d \in Dirs, v.clean[d] # None
      PROVE  /\ v.clean[d] \in Sightings /\ watches(v, d)
             /\ v.clean[d].rules # None => rules_of(d) \in Paths /\ watches(v, rules_of(d))
             /\ StampOf(tree[d]) = v.clean[d].stamp
             /\ v.clean[d].rules # None => RulesStamp(d) = v.clean[d].rules
  <2>1. ~queue.lost /\ Carried(v) /\ d \notin Invalidated(queue) /\ v.clean[d] = watch.clean[d]
    BY <1>2, <1>4
  <2>2. ~Reported(d) /\ (rules_of(d) \in Paths => ~Reported(rules_of(d)))
    BY <2>1, Uninvalidated
  <2>3. d \in Paths
    BY PathsAssumption
  <2>4. /\ v.clean[d] \in Sightings /\ watches(watch, d)
        /\ v.clean[d].rules # None => rules_of(d) \in Paths /\ watches(watch, rules_of(d))
        /\ Sure(d, v.clean[d])
    BY <1>4, <2>1 DEF Clean
  <2>5. watches(v, d) /\ (v.clean[d].rules # None => watches(v, rules_of(d)))
    BY <1>2, <2>1, <2>2, <2>3, <2>4, CarriedWatch
  <2> QED
    BY <2>2, <2>4, <2>5 DEF Sure
<1>5. \A d \in Dirs : RulesStamp(d)' = RulesStamp(d)
  BY DEF RulesStamp
<1>6. ASSUME NEW d \in Dirs, watch'.clean[d] # None
      PROVE  Sure(d, watch.clean[d])' /\ watches(watch, d)'
             /\ (watch'.clean[d].rules # None => watches(watch, rules_of(d))')
  BY <1>3, <1>4, <1>5, <1>6 DEF Sure, watches
<1> QED
  BY <1>3, <1>4, <1>6 DEF Clean

\* What it begins with to look at again is all that may differ.
LEMMA BegunBaseline ==
  ASSUME WatchTypes, Attached, QueueTypes, Baseline, tree' = tree, queue' = NoQueue,
         watch' = begin_watch(watch, queue)
  PROVE  Baseline'
<1>1. PICK v : v = begin_watch(watch, queue)
  OBVIOUS
<1>2. v = watch'
  BY <1>1
<1>3. /\ v.backend = watch.backend
      /\ \/ v.baseline = None
         \/ /\ ~queue.lost /\ Carried(v) /\ v.baseline = watch.baseline
            /\ v.touched.paths = watch.touched.paths \cup queue.paths
            /\ v.touched.subtrees = watch.touched.subtrees \cup queue.subtrees
  <2>1. Carried(v) <=> \A p \in Paths :
                     IF watch.watched[p] = None \/ \E g \in queue.gone : is_under(p, g)
                     THEN v.watched[p] = None
                     ELSE v.watched[p] = [watch.watched[p] EXCEPT !.before = TRUE]
    BY DEF Carried
  <2> QED
    BY <1>1, <2>1, BegunIs
<1>4. SUFFICES ASSUME v.baseline # None PROVE Baseline'
  BY <1>2 DEF Baseline
<1>5. PICK ix : ix = v.baseline.index
  OBVIOUS
<1>6. watch.baseline # None /\ ix = watch.baseline.index /\ v.baseline = watch.baseline
  BY <1>3, <1>4, <1>5
<1>7. ASSUME NEW p \in Tracked(ix), p \notin v.baseline.recheck
      PROVE  Concerned(p)' \/ Spared(ix, p)'
  <2>1. p \in Paths
    BY DEF Tracked, Files
  <2>2. Concerned(p) \/ Spared(ix, p)
    BY <1>6, <1>7 DEF Baseline
  <2>3. Concerned(p) \/ Reported(p) => Concerned(p)'
    BY <1>2, <1>3, <1>4 DEF Concerned, Reported
  <2>4. ASSUME watches(watch, p), Vouched(ix, p), ~Reported(p) PROVE Spared(ix, p)'
    <3>1. watches(v, p)
      BY <1>3, <1>4, <2>1, <2>4, CarriedWatch
    <3>2. watches(watch, p)' /\ Vouched(ix, p)'
      BY <1>2, <2>4, <3>1 DEF watches, Vouched, Present
    <3> QED
      BY <3>2 DEF Spared
  <2> QED
    BY <2>2, <2>3, <2>4 DEF Spared
<1>8. v.baseline.recheck \subseteq Tracked(ix)
  BY <1>6 DEF Baseline
<1>9. ix = watch'.baseline.index
  BY <1>2, <1>5
<1> QED
  BY <1>2, <1>7, <1>8, <1>9 DEF Baseline, Tracked, Spared, Vouched

\* The begin of a walk, with the watch's reports (Discovery.Begin).
LEMMA BeginWatchful ==
  ASSUME WorldTypes, RunTypes, Before, Memorised, Watchful, Begin
  PROVE  Watchful'
<1>1. /\ run.phase = "open" /\ tree' = tree /\ queue' = NoQueue /\ behind' = behind
      /\ watch' = Watched \/ watch' = None
  BY DEF Begin, world
<1>2. SUFFICES ASSUME ~behind', watch' # None PROVE Watchful'
  BY DEF Watchful
<1>3. watch # None /\ ~watch.failure /\ watch' = begin_watch(watch, queue)
  BY <1>1, <1>2 DEF Watched
<1>4. QueueTypes /\ WatchTypes /\ Attached /\ Clean /\ Baseline
  BY <1>1, <1>2, <1>3 DEF Watchful, Picking
<1>5. WatchTypes' /\ Attached' /\ QueueTypes' /\ Clean' /\ Baseline'
  BY <1>1, <1>3, <1>4, BegunAttached, BegunClean, BegunBaseline
<1>6. /\ run'.phase = "walk" /\ run'.visits[Root].step = "queued"
      /\ \A d \in Dirs : /\ d # Root => run'.visits[d].step = "no"
                         /\ run'.seen[d] = None
      /\ run'.compare = IF every(run.scope) THEN "done" ELSE "pick"
  BY BeginRun
<1>7. Ruled' /\ ~Picking'
  BY <1>6 DEF Ruled, Picking
<1>8. InView'
  <2>1. ancestors(Root) = {}
    BY AncestorsOf, PathsAssumption
  <2> QED
    BY <1>6, <2>1 DEF InView, Looking, InSight
<1>9. ~watch'.failure
  <2>1. PICK v : v = begin_watch(watch, queue)
    OBVIOUS
  <2>2. v.failure = watch.failure
    BY <1>4, <2>1, BegunIs
  <2> QED
    BY <1>3, <2>1, <2>2
<1> QED
  BY <1>5, <1>7, <1>8, <1>9 DEF Watchful

\* What a replay finds.
Finds(d, l, r) ==
    /\ r.failed = run.failed /\ r.compare = run.compare /\ r.picked = run.picked
    /\ r.removed = run.removed /\ r.scope = run.scope /\ r.index = run.index
    /\ IF l.nested /\ d # Root THEN r.files = run.files /\ r.visited = run.visited
       ELSE /\ r.files = run.files \cup
                  {p \in IF every(run.scope) THEN l.files ELSE l.files \ Tracked(run.index) :
                      source_file(run.scope, p)}
            /\ r.visited = run.visited \cup (l.files \cap Tracked(run.index))

\* Discovery.replay finds what its listing has.
LEMMA ReplayFinds ==
  ASSUME RunTypes, NEW d \in Dirs, NEW l, NEW t, NEW r, r = replay(run, d, l, t)
  PROVE  Finds(d, l, r)
<1>1. CASE l.nested /\ d # Root
  <2>1. r = [run EXCEPT !.visits[d].step = "done"]
    BY <1>1 DEF replay
  <2> QED
    BY <1>1, <2>1 DEF RunTypes, Finds
<1>2. CASE ~(l.nested /\ d # Root)
  <2>1. PICK fs, ws, vs :
           /\ fs = {p \in IF every(run.scope) THEN l.files ELSE l.files \ Tracked(run.index) :
                       source_file(run.scope, p)}
           /\ ws = l.files \cap Tracked(run.index)
           /\ vs = [e \in Dirs |->
                 IF e = d THEN [run.visits[d] EXCEPT !.step = "done"]
                 ELSE IF e \in l.dirs /\ enters(run.scope, e)
                 THEN [NoVisit EXCEPT !.step = "queued", !.trusted = t,
                          !.chain = run.visits[d].chain \cup (IF l.rules = None THEN {} ELSE {d})]
                 ELSE run.visits[e]]
    OBVIOUS
  <2>2. r = [run EXCEPT !.files = run.files \cup fs, !.visited = run.visited \cup ws, !.visits = vs]
    BY <1>2, <2>1 DEF replay
  <2>3. /\ r.files = run.files \cup fs /\ r.visited = run.visited \cup ws
        /\ r.failed = run.failed /\ r.compare = run.compare /\ r.picked = run.picked
        /\ r.removed = run.removed /\ r.scope = run.scope /\ r.index = run.index
    BY <2>2 DEF RunTypes
  <2> QED
    BY <1>2, <2>1, <2>3 DEF Finds
<1> QED
  BY <1>1, <1>2

\* The three ways to a listing: the watch vouches for it, its stamp is that of
\* the directory, or the directory was listed and filtered.
ByWatch(d, l) ==
    /\ l = vouched(d) /\ l # None /\ run.visits[d].trusted
    /\ run'.seen = run.seen /\ run'.layers = run.layers /\ run'.exclude = run.exclude
ByStamp(d, l) ==
    /\ l = replayed(d) /\ l # None /\ run.visits[d].trusted /\ Present(d)
    /\ run'.seen[d] = [stamp |-> l.stamp, rules |-> l.rules] /\ run'.seen[d] # None
    /\ run'.layers = run.layers /\ run'.exclude = run.exclude
ByRules(d, l) ==
    /\ l = Filtered(d) /\ run.visits[d].step = "listed"
    /\ run'.seen[d] = [stamp |-> l.stamp, rules |-> l.rules] /\ run'.seen[d] # None
    /\ \A e \in Dirs : run'.layers[e] = IF ReadLayers(d)[e] = None THEN run.layers[e]
                                        ELSE ReadLayers(d)[e]
    /\ run'.exclude = IF NeedsExclude(d) THEN ReadExclude ELSE run.exclude

Replays(d, l, t) ==
    /\ Visits(d, l, t) /\ run.visits[d].step \in {"queued", "listed"} /\ Finds(d, l, run')
    /\ \/ t = TRUE /\ ByWatch(d, l)
       \/ t = TRUE /\ ByStamp(d, l)
       \/ (t => StaysTrusted(d, l)) /\ ByRules(d, l)

\* Discovery.Vouch replays a listing.
LEMMA VouchReplays ==
  ASSUME Steady, RunTypes, events \in Nat, NEW d \in Dirs, Vouch(d)
  PROVE  \E l, t : Replays(d, l, t)
<1>1. PICK l, t : l = vouched(d) /\ t = TRUE
  OBVIOUS
<1>2. PICK r : r = replay(run, d, l, t)
  OBVIOUS
<1>3. /\ run.phase = "walk" /\ run.visits[d].step = "queued" /\ run.visits[d].trusted
      /\ l # None /\ run' = r /\ mem' = use(mem, d)
      /\ UNCHANGED <<world, store, history, kept, watch, queue>>
  BY <1>1, <1>2 DEF Vouch, Visiting
<1>4. l = old(d) /\ old(d) # None /\ mem.trusted /\ l.dirs \subseteq Children(d) \cap Dirs
  BY <1>1, <1>3, StoredIs DEF vouched
<1>5. /\ mem'.stored = mem.stored /\ mem'.trusted = mem.trusted /\ mem'.context = mem.context
      /\ mem'.settled = mem.settled /\ mem'.fresh = mem.fresh
  BY <1>3 DEF use, RunTypes
<1>6. run.seen[d] = None
  BY <1>3, Steadily DEF Saw
<1>7. /\ DOMAIN r = DOMAIN run /\ r.phase = run.phase /\ r.layers = run.layers
      /\ r.exclude = run.exclude /\ r.seen = run.seen
      /\ r.visits[d] = [run.visits[d] EXCEPT !.step = "done"]
      /\ \A e \in Dirs : e # d /\ ~Leads(d, l, e) => r.visits[e] = run.visits[e]
      /\ \A e \in Dirs : e # d /\ Leads(d, l, e) =>
            r.visits[e] = [step |-> "queued", trusted |-> t, chain |-> Below(d, l),
                           stamp |-> None, entries |-> {}, rules |-> None]
  BY <1>2, ReplayIs
<1>8. run'.layers = run.layers /\ run'.exclude = run.exclude /\ run'.seen = run.seen
      /\ run'.phase = run.phase
  BY <1>3, <1>7
<1>9. Visits(d, l, t)
  <2>2. Rules(d)' = l.rules
    BY <1>4, <1>5, <1>6, <1>8 DEF Rules, old
  <2>3. events' = events /\ behind' = behind /\ UNCHANGED world
    BY <1>3 DEF history
  <2> QED
    BY <1>3, <1>4, <1>5, <1>8, <1>7, <2>2, <2>3 DEF Visits
<1>10. ByWatch(d, l)
  BY <1>1, <1>3, <1>8 DEF ByWatch
<1>11. Finds(d, l, r)
  BY <1>2, ReplayFinds
<1>12. Finds(d, l, run')
  BY <1>3, <1>11
<1>13. Replays(d, l, t)
  BY <1>1, <1>3, <1>9, <1>10, <1>12 DEF Replays
<1> QED
  BY <1>13

\* So does Discovery.Replay.
LEMMA ReplayReplays ==
  ASSUME Steady, RunTypes, events \in Nat, NEW d \in Dirs, Replay(d)
  PROVE  \E l, t : Replays(d, l, t)
<1>1. PICK l, t : l = replayed(d) /\ t = TRUE
  OBVIOUS
<1>2. PICK r : r = replay(run, d, l, t)
  OBVIOUS
<1>3. /\ run.phase = "walk" /\ run.visits[d].step = "queued" /\ run.visits[d].trusted
      /\ Present(d)
      /\ l # None /\ run' = [r EXCEPT !.seen[d] = [stamp |-> l.stamp, rules |-> l.rules]]
      /\ mem' = use(mem, d)
      /\ UNCHANGED <<world, store, history, kept, watch, queue>>
  BY <1>1, <1>2 DEF Replay, Visiting
<1>4. /\ l = old(d) /\ old(d) # None /\ mem.trusted /\ l.dirs \subseteq Children(d) \cap Dirs
      /\ Past(l.stamp) /\ (l.rules # None => Past(l.rules))
  BY <1>1, <1>3, StoredIs DEF replayed
<1>5. /\ mem'.stored = mem.stored /\ mem'.trusted = mem.trusted /\ mem'.context = mem.context
      /\ mem'.settled = mem.settled /\ mem'.fresh = mem.fresh
  BY <1>3 DEF use, RunTypes
<1>7. /\ DOMAIN r = DOMAIN run /\ r.phase = run.phase /\ r.layers = run.layers
      /\ r.exclude = run.exclude /\ r.seen = run.seen
      /\ r.visits[d] = [run.visits[d] EXCEPT !.step = "done"]
      /\ \A e \in Dirs : e # d /\ ~Leads(d, l, e) => r.visits[e] = run.visits[e]
      /\ \A e \in Dirs : e # d /\ Leads(d, l, e) =>
            r.visits[e] = [step |-> "queued", trusted |-> t, chain |-> Below(d, l),
                           stamp |-> None, entries |-> {}, rules |-> None]
  BY <1>2, ReplayIs
<1>8. /\ run'.visits = r.visits /\ run'.phase = run.phase
      /\ run'.layers = run.layers /\ run'.exclude = run.exclude
      /\ run'.seen = [run.seen EXCEPT ![d] = [stamp |-> l.stamp, rules |-> l.rules]]
      /\ run'.files = r.files /\ run'.visited = r.visited /\ run'.failed = r.failed
      /\ run'.compare = r.compare /\ run'.picked = r.picked /\ run'.removed = r.removed
      /\ run'.scope = r.scope /\ run'.index = r.index
  BY <1>3, <1>7 DEF RunTypes
<1>9. /\ run'.seen[d] = [stamp |-> l.stamp, rules |-> l.rules]
      /\ \A e \in Dirs : e # d => run'.seen[e] = run.seen[e]
  BY <1>8 DEF RunTypes
<1>10. [stamp |-> l.stamp, rules |-> l.rules] \in Sightings
  BY <1>4 DEF Sightings, Past
<1>11. run'.seen[d] # None
  BY <1>9, <1>10, NoneAssumption
<1>12. Visits(d, l, t)
  <2>1. Rules(d)' = l.rules
    BY <1>9, <1>11 DEF Rules
  <2>2. events' = events /\ behind' = behind /\ UNCHANGED world
    BY <1>3 DEF history
  <2>3. run.phase = "walk" /\ run'.phase = "walk" /\ run'.visits = r.visits
    BY <1>3, <1>8
  <2>4. \A e \in Dirs : e # d => run'.seen[e] = run.seen[e] /\ mem'.fresh[e] = mem.fresh[e]
    BY <1>5, <1>9
  <2>5. /\ run'.visits[d] = [run.visits[d] EXCEPT !.step = "done"]
        /\ \A e \in Dirs : e # d /\ ~Leads(d, l, e) => run'.visits[e] = run.visits[e]
        /\ \A e \in Dirs : e # d /\ Leads(d, l, e) =>
              run'.visits[e] = [step |-> "queued", trusted |-> t, chain |-> Below(d, l),
                                stamp |-> None, entries |-> {}, rules |-> None]
    BY <1>7, <2>3
  <2>6. l.dirs \subseteq Children(d) \cap Dirs
    BY <1>4
  <2> QED
    BY <1>5, <2>1, <2>2, <2>3, <2>4, <2>5, <2>6 DEF Visits
<1>13. ByStamp(d, l)
  BY <1>1, <1>3, <1>8, <1>9, <1>11 DEF ByStamp
<1>14. Finds(d, l, run')
  <2>1. Finds(d, l, r)
    BY <1>2, ReplayFinds
  <2> QED
    BY <1>8, <2>1 DEF Finds
<1>15. Replays(d, l, t)
  BY <1>1, <1>3, <1>12, <1>13, <1>14 DEF Replays
<1> QED
  BY <1>15

\* So does Discovery.Filter, its own.
LEMMA FilterReplays ==
  ASSUME Steady, RunTypes, WorldTypes, Inodes, NEW d \in Dirs, Filter(d)
  PROVE  \E l, t : Replays(d, l, t)
<1>1. PICK l, t, r : Lists(d, l, t, r)
  BY FilterLists
<1>2. /\ Visits(d, l, t)
      /\ run'.seen[d] = [stamp |-> l.stamp, rules |-> l.rules] /\ run'.seen[d] \in Sightings
      /\ \A e \in Dirs : run'.layers[e] = IF ReadLayers(d)[e] = None THEN run.layers[e]
                                          ELSE ReadLayers(d)[e]
      /\ run'.exclude = IF NeedsExclude(d) THEN ReadExclude ELSE run.exclude
      /\ IF Past(l.stamp) /\ (l.rules # None => Past(l.rules))
         THEN mem'.fresh[d] = l ELSE mem'.fresh[d] = None
  BY <1>1, ListsIs
<1>3. run.visits[d].step = "listed" /\ l = Filtered(d) /\ (t => StaysTrusted(d, l))
      /\ r = replay(run, d, l, t)
  BY <1>1 DEF Lists
<1>4. ByRules(d, l)
  BY <1>2, <1>3, NoneAssumption DEF ByRules
<1>5. Finds(d, l, r)
  BY <1>3, ReplayFinds
<1>6. DOMAIN r = DOMAIN run
  BY <1>3, ReplayFrame
<1>7. PICK sight, ly, ex : run' = [r EXCEPT !.seen[d] = sight, !.layers = ly, !.exclude = ex]
  <2>1. PICK sight, ly, ex :
        /\ sight = [stamp |-> l.stamp, rules |-> l.rules]
        /\ ly = [e \in Dirs |-> IF ReadLayers(d)[e] = None THEN r.layers[e] ELSE ReadLayers(d)[e]]
        /\ ex = IF NeedsExclude(d) THEN ReadExclude ELSE r.exclude
    OBVIOUS
  <2>2. run' = [r EXCEPT !.seen[d] = sight, !.layers = ly, !.exclude = ex]
    BY <1>1, <2>1 DEF Lists
  <2> QED
    BY <2>2
<1>8. /\ run'.files = r.files /\ run'.visited = r.visited /\ run'.failed = r.failed
      /\ run'.compare = r.compare /\ run'.picked = r.picked /\ run'.removed = r.removed
      /\ run'.scope = r.scope /\ run'.index = r.index
  BY <1>6, <1>7 DEF RunTypes
<1>9. Finds(d, l, run')
  BY <1>5, <1>8 DEF Finds
<1> QED
  BY <1>2, <1>3, <1>4, <1>9 DEF Replays

\* The other steps of a visit: the look, the list, and a directory that is
\* left out.
Waits(d) ==
    /\ run.phase = "walk" /\ run'.phase = "walk"
    /\ \A e \in Dirs : e # d => run'.visits[e] = run.visits[e]
    /\ run'.visits[d].chain = run.visits[d].chain
    /\ run'.seen = run.seen /\ run'.layers = run.layers /\ run'.exclude = run.exclude
    /\ run'.files = run.files /\ run'.visited = run.visited /\ run'.compare = run.compare
    /\ run'.picked = run.picked /\ run'.removed = run.removed
    /\ run'.scope = run.scope /\ run'.index = run.index /\ mem' = mem
    /\ \/ /\ run.visits[d].step = "queued" /\ run'.visits[d].step = "stat"
          /\ run'.visits[d].stamp = StampOf(tree[d]) /\ Present(d)
          /\ run'.failed = run.failed
       \/ /\ run.visits[d].step = "stat" /\ run'.visits[d].step = "listed"
          /\ run'.visits[d].stamp = run.visits[d].stamp
          /\ run'.visits[d].entries = Kids(d) /\ run'.visits[d].rules = RulesStamp(d)
          /\ Present(d) /\ run'.failed = run.failed
       \/ /\ run.visits[d].step \in {"queued", "stat"} /\ run'.visits[d].step = "done"
          /\ ~Present(d) \/ run'.failed = TRUE

\* Every step of a visit replays a listing, or waits.
LEMMA VisitCases ==
  ASSUME Steady, RunTypes, WorldTypes, Inodes, NEW d \in Dirs, Visit(d)
  PROVE  Waits(d) \/ \E l, t : Replays(d, l, t)
<1>1. CASE Vouch(d) \/ Replay(d) \/ Filter(d)
  BY <1>1, VouchReplays, ReplayReplays, FilterReplays DEF WorldTypes
<1>2. CASE Look(d)
  <2>1. PICK v : v = StampOf(tree[d])
    OBVIOUS
  <2>2. run.phase = "walk" /\ run' = [run EXCEPT !.visits[d].step = "stat", !.visits[d].stamp = v]
        /\ run.visits[d].step = "queued" /\ mem' = mem /\ Present(d)
    BY <1>2, <2>1 DEF Look, Visiting, session
  <2>3. /\ run'.visits[d].step = "stat" /\ run'.visits[d].stamp = v
        /\ run'.visits[d].chain = run.visits[d].chain
        /\ \A e \in Dirs : e # d => run'.visits[e] = run.visits[e]
    BY <2>2 DEF RunTypes
  <2>4. /\ run'.phase = run.phase
        /\ run'.seen = run.seen /\ run'.layers = run.layers /\ run'.exclude = run.exclude
        /\ run'.files = run.files /\ run'.visited = run.visited /\ run'.compare = run.compare
        /\ run'.picked = run.picked /\ run'.removed = run.removed
        /\ run'.scope = run.scope /\ run'.index = run.index /\ run'.failed = run.failed
    BY <2>2 DEF RunTypes
  <2> QED
    BY <2>1, <2>2, <2>3, <2>4 DEF Waits
<1>3. CASE List(d)
  <2>1. PICK es, rs : es = Kids(d) /\ rs = RulesStamp(d)
    OBVIOUS
  <2>2. {p \in Children(d) : Present(p)} = es
    BY <2>1, EntriesAre
  <2>3. run.phase = "walk"
        /\ run' = [run EXCEPT !.visits[d] = [@ EXCEPT !.step = "listed", !.entries = es, !.rules = rs]]
        /\ run.visits[d].step = "stat" /\ mem' = mem /\ Present(d)
    BY <1>3, <2>1, <2>2 DEF List, Visiting, session
  <2>4. /\ run'.visits[d].step = "listed" /\ run'.visits[d].stamp = run.visits[d].stamp
        /\ run'.visits[d].chain = run.visits[d].chain /\ run'.visits[d].entries = es
        /\ run'.visits[d].rules = rs
        /\ \A e \in Dirs : e # d => run'.visits[e] = run.visits[e]
    BY <2>3 DEF RunTypes
  <2>5. /\ run'.phase = run.phase
        /\ run'.seen = run.seen /\ run'.layers = run.layers /\ run'.exclude = run.exclude
        /\ run'.files = run.files /\ run'.visited = run.visited /\ run'.compare = run.compare
        /\ run'.picked = run.picked /\ run'.removed = run.removed
        /\ run'.scope = run.scope /\ run'.index = run.index /\ run'.failed = run.failed
    BY <2>3 DEF RunTypes
  <2> QED
    BY <2>1, <2>3, <2>4, <2>5 DEF Waits
<1>4. CASE Gone(d) \/ Unreadable(d)
  <2>1. \/ ~Present(d) /\ run' = [run EXCEPT !.visits[d].step = "done"]
        \/ run' = [run EXCEPT !.visits[d].step = "done", !.failed = TRUE]
    BY <1>4 DEF Gone, Unreadable
  <2>2. run.phase = "walk" /\ run.visits[d].step \in {"queued", "stat"} /\ mem' = mem
    BY <1>4 DEF Gone, Unreadable, Visiting, session
  <2>3. CASE ~Present(d) /\ run' = [run EXCEPT !.visits[d].step = "done"]
    <3>1. /\ run'.visits[d].step = "done" /\ run'.visits[d].chain = run.visits[d].chain
          /\ \A e \in Dirs : e # d => run'.visits[e] = run.visits[e]
      BY <2>3 DEF RunTypes
    <3>2. /\ run'.phase = run.phase
          /\ run'.seen = run.seen /\ run'.layers = run.layers /\ run'.exclude = run.exclude
          /\ run'.files = run.files /\ run'.visited = run.visited /\ run'.compare = run.compare
          /\ run'.picked = run.picked /\ run'.removed = run.removed
          /\ run'.scope = run.scope /\ run'.index = run.index
      BY <2>3 DEF RunTypes
    <3> QED
      BY <2>2, <2>3, <3>1, <3>2 DEF Waits
  <2>4. CASE run' = [run EXCEPT !.visits[d].step = "done", !.failed = TRUE]
    <3>1. /\ run'.visits[d].step = "done" /\ run'.visits[d].chain = run.visits[d].chain
          /\ \A e \in Dirs : e # d => run'.visits[e] = run.visits[e]
      BY <2>4 DEF RunTypes
    <3>2. /\ run'.phase = run.phase
          /\ run'.seen = run.seen /\ run'.layers = run.layers /\ run'.exclude = run.exclude
          /\ run'.files = run.files /\ run'.visited = run.visited /\ run'.compare = run.compare
          /\ run'.picked = run.picked /\ run'.removed = run.removed
          /\ run'.scope = run.scope /\ run'.index = run.index /\ run'.failed = TRUE
      BY <2>4 DEF RunTypes
    <3> QED
      BY <2>2, <3>1, <3>2 DEF Waits
  <2> QED
    BY <2>1, <2>3, <2>4
<1> QED
  BY <1>1, <1>2, <1>3, <1>4 DEF Visit

-----------------------------------------------------------------------------

\* A directory that is looked at while it is watched is as it was, or reported.
LEMMA WaitsInView ==
  ASSUME WorldTypes, Inodes, NEW d \in Dirs, Waits(d), InView, Ruled,
         watch' = watch, tree' = tree, queue' = queue
  PROVE  InView' /\ Ruled'
<1>1. \A p : /\ Reported(p)' = Reported(p) /\ watched_before(watch, p)' = watched_before(watch, p)
  BY DEF Reported, watched_before, watches
<1>2. \A e \in Dirs : RulesStamp(e)' = RulesStamp(e)
  BY DEF RulesStamp
<1>3. ASSUME NEW x \in Dirs, x # d PROVE Looking(x)' /\ InSight(x)'
  <2>1. run'.visits[x] = run.visits[x] /\ run'.seen = run.seen
    BY <1>3 DEF Waits
  <2>2. Looking(x) /\ InSight(x)
    BY DEF InView
  <2> QED
    BY <1>1, <1>2, <2>1, <2>2 DEF Looking, InSight
<1>4. InSight(d)'
  <2>1. run'.seen = run.seen /\ run.visits[d].step # "no"
    BY DEF Waits
  <2>2. InSight(d)
    BY DEF InView
  <2> QED
    BY <1>1, <1>2, <2>1, <2>2 DEF InSight
<1>5. Looking(d)'
  <2>1. Looking(d)
    BY DEF InView
  <2>2. CASE run'.visits[d].step = "stat" /\ run'.visits[d].stamp = StampOf(tree[d])
    BY <2>2 DEF Looking
  <2>3. CASE /\ run.visits[d].step = "stat" /\ run'.visits[d].step = "listed"
             /\ run'.visits[d].stamp = run.visits[d].stamp /\ run'.visits[d].rules = RulesStamp(d)
    BY <1>1, <1>2, <2>1, <2>3 DEF Looking
  <2>4. CASE run'.visits[d].step = "done"
    BY <2>4 DEF Looking
  <2> QED
    BY <2>2, <2>3, <2>4 DEF Waits
<1>6. Ruled'
  <2>1. RulesStamp(d) # None => rules_of(d) \in Paths
    BY DEF RulesStamp
  <2>2. run'.visits[d].step = "listed" => run'.visits[d].rules = RulesStamp(d)
    BY DEF Waits
  <2>3. run'.seen = run.seen /\ \A e \in Dirs : e # d => run'.visits[e] = run.visits[e]
    BY DEF Waits
  <2> QED
    BY <2>1, <2>2, <2>3 DEF Ruled
<1> QED
  BY <1>3, <1>4, <1>5, <1>6 DEF InView

\* So is one that is seen by a listing.
LEMMA ReplaysInView ==
  ASSUME WorldTypes, Inodes, Steady, RunTypes, NEW d \in Dirs, NEW l, NEW t, Replays(d, l, t),
         InView, Ruled, watch # None,
         watch' = watch, tree' = tree, queue' = queue
  PROVE  InView' /\ Ruled'
<1>1. \A p : /\ Reported(p)' = Reported(p) /\ watched_before(watch, p)' = watched_before(watch, p)
  BY DEF Reported, watched_before, watches
<1>2. \A e \in Dirs : RulesStamp(e)' = RulesStamp(e)
  BY DEF RulesStamp
<1>3. /\ run'.visits[d].step = "done"
      /\ \A e \in Dirs : e # d /\ ~Leads(d, l, e) => run'.visits[e] = run.visits[e]
      /\ \A e \in Dirs : e # d /\ Leads(d, l, e) =>
            run'.visits[e] = [step |-> "queued", trusted |-> t, chain |-> Below(d, l),
                              stamp |-> None, entries |-> {}, rules |-> None]
      /\ \A e \in Dirs : e # d => run'.seen[e] = run.seen[e]
      /\ l.dirs \subseteq Children(d) \cap Dirs
  BY NoVisitDone DEF Replays, Visits
<1>4. \A e \in Dirs : e # d /\ Leads(d, l, e) => run'.visits[e].step = "queued"
  BY <1>3
<1>5. run.visits[d].step \notin {"no", "done"}
  BY DEF Replays
<1>6. run.seen[d] = None
  BY <1>5, Steadily DEF Saw
<1>7. run'.seen[d] # None =>
         /\ \/ run'.seen[d].stamp = StampOf(tree[d])
            \/ run'.seen[d].stamp = run.visits[d].stamp /\ run.visits[d].step = "listed"
         /\ \/ run'.seen[d].rules = None
            \/ run'.seen[d].rules = RulesStamp(d)
            \/ run'.seen[d].rules = run.visits[d].rules /\ run.visits[d].step = "listed"
  <2>1. CASE ByWatch(d, l)
    BY <1>6, <2>1 DEF ByWatch
  <2>2. CASE ByStamp(d, l)
    <3>1. l.stamp = StampOf(tree[d]) /\ (l.rules = None \/ RulesStamp(d) = l.rules)
      BY <2>2, StoredIs DEF ByStamp, replayed
    <3> QED
      BY <2>2, <3>1 DEF ByStamp
  <2>3. CASE ByRules(d, l)
    <3>1. /\ l.stamp = run.visits[d].stamp
          /\ l.rules = IF l.nested /\ d # Root THEN None ELSE run.visits[d].rules
      BY <2>3, FilteredIs DEF ByRules
    <3> QED
      BY <2>3, <3>1 DEF ByRules
  <2> QED
    BY <2>1, <2>2, <2>3 DEF Replays
<1>8. run'.seen[d] # None \/ watch.clean[d] # None
  <2>1. vouched(d) # None => watch.clean[d] # None
    BY DEF vouched
  <2> QED
    BY <2>1 DEF Replays, ByWatch, ByStamp, ByRules
<1>9. \A x \in Dirs : Looking(x) /\ InSight(x)
  BY DEF InView
<1>10. Ruled'
  <2>1. RulesStamp(d) # None => rules_of(d) \in Paths
    BY DEF RulesStamp
  <2>2. ASSUME run'.seen[d] # None, run'.seen[d].rules # None PROVE rules_of(d) \in Paths
    BY <1>7, <2>1, <2>2 DEF Ruled
  <2>3. ASSUME NEW x \in Dirs, x # d
        PROVE  /\ run'.visits[x].step = "listed" => run'.visits[x] = run.visits[x]
               /\ run'.seen[x] = run.seen[x]
    BY <1>3, <1>4, <2>3
  <2> QED
    BY <1>3, <2>2, <2>3 DEF Ruled
<1>11. ASSUME NEW x \in Dirs PROVE Looking(x)'
  <2>1. CASE x # d /\ ~Leads(d, l, x)
    BY <1>1, <1>2, <1>3, <1>9, <2>1 DEF Looking
  <2>2. CASE x # d /\ Leads(d, l, x)
    BY <1>4, <2>2 DEF Looking
  <2>3. CASE x = d
    BY <1>3, <2>3 DEF Looking
  <2> QED
    BY <2>1, <2>2, <2>3
<1>12. ASSUME NEW x \in Dirs
       PROVE  run'.visits[x].step # "no" =>
                 \A e \in ancestors(x) : run'.seen[e] # None \/ watch.clean[e] # None
  <2>1. \A e \in Dirs : run.seen[e] # None \/ watch.clean[e] # None
                        => run'.seen[e] # None \/ watch.clean[e] # None
    BY <1>3, <1>8
  <2>2. ancestors(x) \subseteq Dirs /\ ancestors(d) \subseteq Dirs
    BY DEF ancestors
  <2>3. CASE x = d \/ ~Leads(d, l, x)
    <3>1. run'.visits[x].step # "no" => run.visits[x].step # "no"
      BY <1>3, <1>5, <2>3
    <3> QED
      BY <1>9, <2>1, <2>2, <3>1 DEF InSight
  <2>4. CASE x # d /\ Leads(d, l, x)
    <3>1. ancestors(x) = ancestors(d) \cup {d}
      BY <1>3, <1>5, <2>4, NextIs
    <3>2. \A e \in ancestors(d) : run.seen[e] # None \/ watch.clean[e] # None
      BY <1>5, <1>9 DEF InSight
    <3> QED
      BY <1>8, <2>1, <2>2, <3>1, <3>2
  <2> QED
    BY <2>3, <2>4
<1>13. ASSUME NEW x \in Dirs PROVE InSight(x)'
  <2>1. CASE x # d
    <3>1. run'.seen[x] = run.seen[x]
      BY <1>3, <2>1
    <3> QED
      BY <1>1, <1>2, <1>9, <1>12, <3>1 DEF InSight
  <2>2. CASE x = d
    <3>1. PICK s : s = run'.seen[d]
      OBVIOUS
    <3>2. Looking(d) /\ (run.visits[d].step = "listed" /\ run.visits[d].rules # None => rules_of(d) \in Paths)
      BY <1>9 DEF Ruled
    <3>3. ASSUME s # None, watched_before(watch, d)
          PROVE  StampOf(tree[d]) = s.stamp \/ Reported(d)
      BY <1>7, <3>1, <3>2, <3>3 DEF Looking
    <3>4. ASSUME s # None, s.rules # None, watched_before(watch, rules_of(d))
          PROVE  RulesStamp(d) = s.rules \/ Reported(rules_of(d))
      BY <1>7, <3>1, <3>2, <3>4 DEF Looking
    <3> QED
      BY <1>1, <1>2, <1>12, <2>2, <3>1, <3>3, <3>4 DEF InSight
  <2> QED
    BY <2>1, <2>2
<1> QED
  BY <1>10, <1>11, <1>13 DEF InView

\* A visit's step, beside the watch.
LEMMA VisitWatchful ==
  ASSUME WorldTypes, Inodes, Stores, Memorised, Walking, RunTypes, Watchful, NEW d \in Dirs, Visit(d)
  PROVE  Watchful'
<1>1. /\ run.phase = "walk" /\ run'.phase = "walk" /\ run'.index = run.index
      /\ tree' = tree /\ behind' = behind /\ watch' = watch /\ queue' = queue
  BY VisitIs DEF VisitFrame, world
<1>2. SUFFICES ASSUME ~behind', watch' # None PROVE Watchful'
  BY DEF Watchful
<1>3. Steady
  BY <1>1, <1>2 DEF Steady
<1>4. watch # None /\ QueueTypes /\ WatchTypes /\ Attached /\ Clean /\ Ruled /\ InView
  BY <1>1, <1>2 DEF Watchful
<1>5. Waits(d) \/ \E l, t : Replays(d, l, t)
  BY <1>3, VisitCases
<1>6. InView' /\ Ruled'
  BY <1>1, <1>3, <1>4, <1>5, WaitsInView, ReplaysInView
<1>7. run'.compare = run.compare /\ run'.picked = run.picked
  BY <1>5 DEF Waits, Replays, Finds
<1>8. QueueTypes' /\ Told
  BY <1>1, <1>4, StandsTold
<1>9. WatchTypes' /\ Attached' /\ Clean'
  BY <1>1, <1>4, <1>8, ToldAttached, ToldClean DEF WatchTypes
<1>10. ~watch'.failure /\ ~Picking' => Baseline'
  BY <1>1, <1>2, <1>7, <1>8, ToldBaseline DEF Watchful, Picking
<1>11. Picking' => Picked'
  BY <1>1, <1>2, <1>7, <1>8, ToldPicked DEF Watchful, Picking
<1>12. run'.compare \in {"pick", "watched"} => ~watch'.failure
  BY <1>1, <1>2, <1>7 DEF Watchful
<1> QED
  BY <1>6, <1>8, <1>9, <1>10, <1>11, <1>12 DEF Watchful

-----------------------------------------------------------------------------

\* Watcher.add: what exists and is not watched yet is watched from now on.
LEMMA AddIs ==
  ASSUME WorldTypes, WatchTypes, NEW v, DOMAIN v = DOMAIN watch, v.watched = watch.watched,
         v.backend = watch.backend, NEW ps, NEW w, w = add(v, tree, ps)
  PROVE  /\ DOMAIN w = DOMAIN watch /\ w.backend = watch.backend /\ w.clean = v.clean
         /\ w.baseline = v.baseline /\ w.touched = v.touched /\ w.failure = v.failure
         /\ DOMAIN w.watched = Paths
         /\ \A p \in Paths : watch.watched[p] # None => w.watched[p] = watch.watched[p]
         /\ \A p \in Paths : w.watched[p] # watch.watched[p] =>
               /\ p \in ps /\ directory(watch.backend, p) = p /\ tree[p] # None
               /\ w.watched[p] = [ino |-> tree[p].ino, before |-> FALSE]
         /\ \A p \in ps \cap Paths :
               directory(watch.backend, p) = p /\ tree[p] # None => w.watched[p] # None
<1>1. PICK new : new = {p \in ps : /\ directory(watch.backend, p) = p
                                   /\ watch.watched[p] = None /\ tree[p] # None}
  OBVIOUS
<1>2. w = [v EXCEPT !.watched = [p \in Paths |->
              IF p \in new THEN [ino |-> tree[p].ino, before |-> FALSE] ELSE watch.watched[p]]]
  BY <1>1 DEF add
<1>3. /\ DOMAIN w = DOMAIN v /\ w.backend = v.backend /\ w.clean = v.clean
      /\ w.baseline = v.baseline /\ w.touched = v.touched /\ w.failure = v.failure
      /\ w.watched = [p \in Paths |->
              IF p \in new THEN [ino |-> tree[p].ino, before |-> FALSE] ELSE watch.watched[p]]
  BY <1>2 DEF WatchTypes
<1>4. \A p \in Paths : watch.watched[p] # None => w.watched[p] = watch.watched[p]
  BY <1>1, <1>3
<1>5. ASSUME NEW p \in Paths, w.watched[p] # watch.watched[p]
      PROVE  /\ p \in ps /\ directory(watch.backend, p) = p /\ tree[p] # None
             /\ w.watched[p] = [ino |-> tree[p].ino, before |-> FALSE]
  BY <1>1, <1>3, <1>5
<1>6. ASSUME NEW p \in ps \cap Paths, directory(watch.backend, p) = p, tree[p] # None
      PROVE  w.watched[p] # None
  <2>1. CASE p \in new
    <3>1. w.watched[p] = [ino |-> tree[p].ino, before |-> FALSE]
      BY <1>3, <2>1
    <3>2. tree[p].ino \in Nat
      BY <1>6, NodeIs DEF WorldTypes
    <3>3. w.watched[p] \in Held
      BY <3>1, <3>2 DEF Held
    <3> QED
      BY <3>3, NoneAssumption
  <2>2. CASE p \notin new
    BY <1>1, <1>3, <1>6, <2>2
  <2> QED
    BY <2>1, <2>2
<1> QED
  BY <1>3, <1>4, <1>5, <1>6

\* The watches of w are good when the directories above what is added are
\* watched with it.
Grown(w) ==
    /\ DOMAIN w = DOMAIN watch /\ w.backend = watch.backend /\ DOMAIN w.watched = Paths
    /\ w.backend = "inotify" => \A p \in Files : w.watched[p] = None
    /\ \A p \in Paths : w.watched[p] # None =>
          /\ w.watched[p] \in Held
          /\ \A e \in ancestors(p) : w.watched[e] # None
          /\ On(w, tree, p) \/ Lost(p)
          /\ w.watched[p].before => watch.watched[p] # None /\ watch.watched[p].before
    /\ \A d \in Dirs :
          /\ watches(watch, d) => watches(w, d)
          /\ rules_of(d) \in Paths /\ watches(watch, rules_of(d)) => watches(w, rules_of(d))

\* Watches are good when those above them are added with them.
LEMMA AddGrown ==
  ASSUME WorldTypes, Rooted, WatchTypes, Attached, NEW v, DOMAIN v = DOMAIN watch,
         v.watched = watch.watched, v.backend = watch.backend, NEW ps, NEW w, w = add(v, tree, ps),
         \A p \in ps \cap Paths : tree[p] # None =>
            \A e \in ancestors(p) : e \in ps \/ watch.watched[e] # None
  PROVE  Grown(w) /\ \A p \in Paths : watches(watch, p) => watches(w, p)
<1>1. /\ DOMAIN w = DOMAIN watch /\ w.backend = watch.backend
      /\ DOMAIN w.watched = Paths
      /\ \A p \in Paths : watch.watched[p] # None => w.watched[p] = watch.watched[p]
      /\ \A p \in Paths : w.watched[p] # watch.watched[p] =>
            /\ p \in ps /\ directory(watch.backend, p) = p /\ tree[p] # None
            /\ w.watched[p] = [ino |-> tree[p].ino, before |-> FALSE]
      /\ \A p \in ps \cap Paths :
            directory(watch.backend, p) = p /\ tree[p] # None => w.watched[p] # None
  BY AddIs
<1>2. ASSUME NEW p \in Files, watch.backend = "inotify" PROVE w.watched[p] = None
  <2>1. p \in Paths /\ watch.watched[p] = None
    BY <1>2 DEF Attached, Files
  <2>2. directory(watch.backend, p) # p
    BY <1>2, <2>1, CoverIs, ParentAbove DEF WatchTypes
  <2> QED
    BY <1>1, <2>1, <2>2
<1>3. ASSUME NEW p \in Paths, w.watched[p] # None
      PROVE  /\ w.watched[p] \in Held
             /\ \A e \in ancestors(p) : w.watched[e] # None
             /\ On(w, tree, p) \/ Lost(p)
             /\ w.watched[p].before => watch.watched[p] # None /\ watch.watched[p].before
  <2>1. CASE w.watched[p] = watch.watched[p]
    <3>1. \A e \in ancestors(p) : e \in Paths /\ watch.watched[e] # None
      BY <1>3, <2>1, PathsAssumption DEF Attached, ancestors
    <3>2. On(watch, tree, p) \/ Lost(p)
      BY <1>3, <2>1 DEF Attached
    <3>3. \A e \in ancestors(p) : w.watched[e] # None
      BY <1>1, <3>1
    <3>4. On(watch, tree, p) => On(w, tree, p)
      BY <2>1 DEF On
    <3> QED
      BY <1>3, <2>1, <3>2, <3>3, <3>4 DEF WatchTypes
  <2>2. CASE w.watched[p] # watch.watched[p]
    <3>1. /\ p \in ps /\ directory(watch.backend, p) = p /\ tree[p] # None
          /\ w.watched[p] = [ino |-> tree[p].ino, before |-> FALSE]
      BY <1>1, <2>2
    <3>2. tree[p].ino \in Nat
      BY <3>1, NodeIs DEF WorldTypes
    <3>3. w.watched[p] \in Held /\ w.watched[p].ino = tree[p].ino /\ w.watched[p].before = FALSE
      BY <3>1, <3>2 DEF Held
    <3>4. On(w, tree, p)
      BY <1>3, <3>1, <3>3 DEF On
    <3>5. ASSUME NEW e \in ancestors(p) PROVE w.watched[e] # None
      <4>1. e \in Dirs /\ e \in Paths /\ tree[e] # None
        BY <3>1, <3>5, PathsAssumption DEF ancestors, Rooted, Present
      <4>2. directory(watch.backend, e) = e
        BY <4>1, CoverIs DEF WatchTypes
      <4>3. e \in ps \/ watch.watched[e] # None
        BY <3>1, <3>5
      <4> QED
        BY <1>1, <4>1, <4>2, <4>3
    <3> QED
      BY <3>3, <3>4, <3>5
  <2> QED
    BY <2>1, <2>2
<1>4. ASSUME NEW p \in Paths, watches(watch, p) PROVE watches(w, p)
  <2>1. PICK q : q = directory(watch.backend, p)
    OBVIOUS
  <2>2. q \in Paths /\ watch.watched[q] # None
    BY <1>4, <2>1, CoverIs DEF watches, WatchTypes
  <2>3. w.watched[q] # None
    BY <1>1, <2>2
  <2> QED
    BY <1>1, <2>1, <2>3 DEF watches
<1>5. Dirs \subseteq Paths
  BY PathsAssumption
<1> QED
  BY <1>1, <1>2, <1>3, <1>4, <1>5 DEF Grown

\* A directory's rules file is one (Watch's IsRules).
LEMMA RulesFile ==
  ASSUME NEW d \in Dirs
  PROVE  IsRules(rules_of(d))
<1>1. d \in Seq(Names)
  BY PathsAssumption
<1>2. Len(rules_of(d)) = Len(d) + 1 /\ rules_of(d)[Len(d) + 1] = ".gitignore" /\ Len(d) \in Nat
  BY <1>1 DEF rules_of, Names
<1>3. rules_of(d) # Root
  BY InDirectory
<1> QED
  BY <1>2, <1>3 DEF IsRules, Last

\* Watcher.keep_files drops files that are not compared, and no rules file.
LEMMA KeepGrown ==
  ASSUME NEW w, Grown(w), WatchTypes, NEW ps, NEW u, u = keep_files(w, ps)
  PROVE  /\ Grown(u) /\ u.clean = w.clean /\ u.baseline = w.baseline /\ u.touched = w.touched
         /\ u.failure = w.failure
<1>1. PICK ws : ws = [p \in Paths |->
        IF w.backend = "kqueue" /\ p \notin Dirs /\ p \notin ps /\ ~IsRules(p)
        THEN None ELSE w.watched[p]]
  OBVIOUS
<1>2. u = [w EXCEPT !.watched = ws]
  BY <1>1 DEF keep_files
<1>3. /\ DOMAIN u = DOMAIN watch /\ u.backend = w.backend /\ u.watched = ws /\ DOMAIN ws = Paths
      /\ u.clean = w.clean /\ u.baseline = w.baseline /\ u.touched = w.touched
      /\ u.failure = w.failure
  BY <1>1, <1>2 DEF Grown, WatchTypes
<1>4. \A p \in Paths : /\ ws[p] # None => ws[p] = w.watched[p]
                       /\ p \in Dirs \/ IsRules(p) \/ w.backend # "kqueue" => ws[p] = w.watched[p]
  BY <1>1
<1>5. ASSUME NEW p \in Paths, ws[p] # None
      PROVE  /\ ws[p] \in Held
             /\ \A e \in ancestors(p) : ws[e] # None
             /\ On(u, tree, p) \/ Lost(p)
             /\ ws[p].before => watch.watched[p] # None /\ watch.watched[p].before
  <2>1. ws[p] = w.watched[p]
    BY <1>4, <1>5
  <2>2. \A e \in ancestors(p) : e \in Dirs /\ e \in Paths /\ w.watched[e] # None
    BY <1>5, <2>1, PathsAssumption DEF Grown, ancestors
  <2>3. \A e \in ancestors(p) : ws[e] # None
    BY <1>4, <2>2
  <2>4. On(w, tree, p) \/ Lost(p)
    BY <1>5, <2>1 DEF Grown
  <2>5. On(w, tree, p) => On(u, tree, p)
    BY <1>3, <2>1 DEF On
  <2> QED
    BY <1>5, <2>1, <2>3, <2>4, <2>5 DEF Grown
<1>6. u.backend = "inotify" => \A p \in Files : ws[p] = None
  BY <1>3, <1>4 DEF Grown, Files
<1>7. ASSUME NEW p \in Paths, p \in Dirs \/ IsRules(p), watches(w, p) PROVE watches(u, p)
  <2>1. PICK q : q = directory(w.backend, p)
    OBVIOUS
  <2>2. q \in Paths /\ (p \in Dirs \/ w.backend = "kqueue" => q = p)
        /\ (p \in Files /\ w.backend = "inotify" => q \in Dirs) /\ w.backend \in {"inotify", "kqueue"}
    BY <2>1, CoverIs DEF WatchTypes, Grown
  <2>3. ws[q] = w.watched[q]
    BY <1>4, <1>7, <2>2 DEF Files
  <2>4. w.watched[q] # None
    BY <1>7, <2>1 DEF watches
  <2> QED
    BY <1>3, <2>1, <2>3, <2>4 DEF watches
<1>8. ASSUME NEW d \in Dirs
      PROVE  /\ watches(watch, d) => watches(u, d)
             /\ rules_of(d) \in Paths /\ watches(watch, rules_of(d)) => watches(u, rules_of(d))
  BY <1>7, RulesFile, PathsAssumption DEF Grown
<1> QED
  BY <1>3, <1>5, <1>6, <1>8 DEF Grown

\* What a watch that has grown keeps.
LEMMA GrownWatch ==
  ASSUME WatchTypes, QueueTypes, Grown(watch'), tree' = tree, queue' = queue,
         DOMAIN watch'.clean = Dirs, DOMAIN watch'.touched = {"paths", "subtrees"}
  PROVE  WatchTypes' /\ Attached' /\ QueueTypes'
<1>1. PICK w : w = watch'
  OBVIOUS
<1>2. Grown(w)
  BY <1>1
<1>3. ASSUME NEW p \in Paths, watch'.watched[p] # None
      PROVE  /\ watch'.watched[p] \in Held
             /\ \A e \in ancestors(p) : watch'.watched[e] # None
             /\ On(watch, tree, p)' \/ Lost(p)'
  <2>1. w.watched[p] \in Held /\ (\A e \in ancestors(p) : w.watched[e] # None)
        /\ (On(w, tree, p) \/ Lost(p))
    BY <1>1, <1>2, <1>3 DEF Grown
  <2>2. Lost(p)' = Lost(p)
    BY DEF Lost
  <2>3. On(watch, tree, p)' <=> On(w, tree, p)
    BY <1>1 DEF On
  <2> QED
    BY <1>1, <2>1, <2>2, <2>3
<1>4. /\ DOMAIN watch' = DOMAIN watch /\ DOMAIN watch'.watched = Paths
      /\ watch'.backend = watch.backend
      /\ watch'.backend = "inotify" => \A p \in Files : watch'.watched[p] = None
  BY <1>1, <1>2 DEF Grown
<1>5. WatchTypes'
  BY <1>3, <1>4 DEF WatchTypes
<1>6. Attached'
  BY <1>3, <1>4 DEF Attached
<1>7. QueueTypes'
  BY DEF QueueTypes
<1> QED
  BY <1>5, <1>6, <1>7

\* What is in view and clean stays so under more watches.
LEMMA GrownView ==
  ASSUME WatchTypes, Grown(watch'), Ruled, InView, Clean, tree' = tree, queue' = queue,
         watch'.clean = watch.clean, run'.visits = run.visits, run'.seen = run.seen
  PROVE  InView' /\ Clean' /\ Ruled'
<1>1. PICK w : w = watch'
  OBVIOUS
<1>2. Grown(w)
  BY <1>1
<1>3. ASSUME NEW p \in Paths, watched_before(w, p) PROVE watched_before(watch, p)
  <2>1. PICK q : q = directory(watch.backend, p)
    OBVIOUS
  <2>2. q \in Paths
    BY <2>1, CoverIs DEF WatchTypes
  <2>3. w.watched[q] # None /\ w.watched[q].before
    BY <1>2, <1>3, <2>1 DEF watched_before, watches, Grown
  <2>4. watch.watched[q] # None /\ watch.watched[q].before
    BY <1>2, <2>2, <2>3 DEF Grown
  <2> QED
    BY <2>1, <2>4 DEF watched_before, watches
<1>4. \A p \in Paths : watched_before(watch, p)' => watched_before(watch, p)
  <2>1. \A p \in Paths : watched_before(watch, p)' <=> watched_before(w, p)
    BY <1>1 DEF watched_before, watches
  <2> QED
    BY <1>3, <2>1
<1>5. \A p : Reported(p)' = Reported(p)
  BY DEF Reported
<1>6. \A d \in Dirs : RulesStamp(d)' = RulesStamp(d) /\ d \in Paths
  BY PathsAssumption DEF RulesStamp
<1>7. ASSUME NEW d \in Dirs PROVE Looking(d)' /\ InSight(d)'
  <2>1. Looking(d) /\ InSight(d)
    BY DEF InView
  <2>2. /\ run.visits[d].step = "listed" /\ run.visits[d].rules # None => rules_of(d) \in Paths
        /\ run.seen[d] # None /\ run.seen[d].rules # None => rules_of(d) \in Paths
    BY DEF Ruled
  <2>3. run'.visits[d] = run.visits[d] /\ run'.seen[d] = run.seen[d] /\ d \in Paths
    BY <1>6
  <2>4. Looking(d)'
    BY <1>4, <1>5, <1>6, <2>1, <2>2, <2>3 DEF Looking
  <2>5. InSight(d)'
    BY <1>4, <1>5, <1>6, <2>1, <2>2, <2>3 DEF InSight
  <2> QED
    BY <2>4, <2>5
<1>8. ASSUME NEW d \in Dirs, watch'.clean[d] # None
      PROVE  /\ watches(watch, d)'
             /\ watch'.clean[d].rules # None => watches(watch, rules_of(d))'
             /\ Sure(d, watch.clean[d])'
  <2>1. PICK s : s = watch.clean[d]
    OBVIOUS
  <2>2. s # None /\ watches(watch, d) /\ (s.rules # None => rules_of(d) \in Paths /\ watches(watch, rules_of(d)))
        /\ Sure(d, s) /\ s = watch'.clean[d]
    BY <1>8, <2>1 DEF Clean
  <2>3. watches(w, d) /\ (s.rules # None => watches(w, rules_of(d)))
    BY <1>2, <2>2 DEF Grown
  <2>4. Sure(d, s)'
    BY <1>5, <1>6, <2>2 DEF Sure
  <2> QED
    BY <1>1, <2>2, <2>3, <2>4 DEF watches, Sure
<1>9. Clean'
  BY <1>8 DEF Clean
<1>10. Ruled'
  BY DEF Ruled
<1> QED
  BY <1>7, <1>9, <1>10 DEF InView

\* What is watched of a file is watched of the directories above it.
LEMMA AncestorsClosed ==
  ASSUME NEW ps, ps \subseteq Paths, NEW p \in WithAncestors(ps)
  PROVE  p \in Paths /\ \A e \in ancestors(p) : e \in WithAncestors(ps)
<1>1. PICK q \in ps : p = q \/ p \in ancestors(q)
  BY DEF WithAncestors
<1>2. q \in Paths
  BY <1>1
<1>3. p \in Paths /\ ancestors(p) \subseteq ancestors(q)
  BY <1>1, <1>2, AncestorsOf, PathsAssumption
<1> QED
  BY <1>1, <1>3 DEF WithAncestors

\* What the comparison has still to look at is what may have changed.
LEMMA SparedOf ==
  ASSUME Baseline, watch.baseline # None, watch.baseline.index = run.index,
         NEW p \in Tracked(run.index),
         p \notin watch.baseline.recheck \cup reported(watch.touched)
  PROVE  Spared(run.index, p)
  BY DEF Baseline, Concerned, reported

\* The comparison picks what the watch cannot vouch for (Discovery.Pick).
LEMMA PickWatchful ==
  ASSUME WorldTypes, Rooted, RunTypes, Watchful, Pick
  PROVE  Watchful'
<1>1. /\ run.phase = "walk" /\ run.compare = "pick" /\ behind' = behind /\ queue' = queue
      /\ tree' = tree
  BY DEF Pick, world
<1>2. SUFFICES ASSUME ~behind', watch' # None PROVE Watchful'
  BY DEF Watchful
<1>3. watch # None
  BY <1>2 DEF Pick
<1>4. /\ QueueTypes /\ WatchTypes /\ Attached /\ Clean /\ Ruled /\ InView /\ ~watch.failure
      /\ Baseline
  BY <1>1, <1>2, <1>3 DEF Watchful, Picking
<1>5. PICK same, picked, taken, added :
        /\ same = (watch.baseline # None /\ watch.baseline.index = run.index)
        /\ picked = IF same THEN watch.baseline.recheck \cup reported(watch.touched)
                    ELSE Tracked(run.index)
        /\ taken = [watch EXCEPT !.touched = NoTouched]
        /\ added = add(taken, tree, WithAncestors(picked))
  OBVIOUS
<1>6. \/ /\ run' = [run EXCEPT !.compare = "watched", !.picked = picked]
         /\ watch' = IF same THEN added ELSE keep_files(added, picked)
      \/ /\ run' = [run EXCEPT !.compare = "stat", !.picked = Tracked(run.index)]
         /\ watch' = [taken EXCEPT !.failure = TRUE]
  BY <1>3, <1>5 DEF Pick
<1>7. /\ DOMAIN taken = DOMAIN watch /\ taken.watched = watch.watched /\ taken.backend = watch.backend
      /\ taken.clean = watch.clean /\ taken.baseline = watch.baseline
      /\ taken.touched = NoTouched /\ taken.failure = watch.failure
  BY <1>4, <1>5 DEF WatchTypes
<1>8. picked \subseteq Tracked(run.index)
  BY <1>4, <1>5 DEF Baseline, reported
<1>9. Tracked(run.index) \subseteq Paths
  BY DEF Tracked, Files
<1>10. Grown(added) /\ (\A p \in Paths : watches(watch, p) => watches(added, p))
       /\ added.clean = watch.clean /\ added.failure = watch.failure /\ added.touched = NoTouched
  <2>1. \A p \in WithAncestors(picked) \cap Paths : \A e \in ancestors(p) : e \in WithAncestors(picked)
    BY <1>8, <1>9, AncestorsClosed
  <2>2. Grown(added) /\ (\A p \in Paths : watches(watch, p) => watches(added, p))
    BY <1>4, <1>5, <1>7, <2>1, AddGrown
  <2>3. added.clean = taken.clean /\ added.failure = taken.failure /\ added.touched = taken.touched
    <3>1. PICK ps : ps = WithAncestors(picked)
      OBVIOUS
    <3>2. added = add(taken, tree, ps)
      BY <1>5, <3>1
    <3>3. /\ DOMAIN added = DOMAIN watch /\ added.backend = watch.backend /\ added.clean = taken.clean
          /\ added.baseline = taken.baseline /\ added.touched = taken.touched
          /\ added.failure = taken.failure /\ DOMAIN added.watched = Paths
          /\ \A p \in Paths : watch.watched[p] # None => added.watched[p] = watch.watched[p]
      BY <1>4, <1>7, <3>2, AddIs
    <3> QED
      BY <3>3
  <2> QED
    BY <1>7, <2>2, <2>3
<1>11. CASE /\ run' = [run EXCEPT !.compare = "watched", !.picked = picked]
            /\ watch' = IF same THEN added ELSE keep_files(added, picked)
  <2>1. /\ run'.phase = run.phase /\ run'.compare = "watched" /\ run'.picked = picked
        /\ run'.index = run.index /\ run'.visits = run.visits /\ run'.seen = run.seen
    BY <1>11 DEF RunTypes
  <2>2. Grown(watch') /\ watch'.clean = watch.clean /\ watch'.failure = watch.failure
        /\ watch'.touched = NoTouched
    <3>1. CASE same
      BY <1>10, <1>11, <3>1
    <3>2. CASE ~same
      <4>1. PICK u : u = keep_files(added, picked)
        OBVIOUS
      <4>2. Grown(u) /\ u.clean = added.clean /\ u.failure = added.failure /\ u.touched = added.touched
        BY <1>4, <1>10, <4>1, KeepGrown
      <4> QED
        BY <1>10, <1>11, <3>2, <4>1, <4>2
    <3> QED
      BY <3>1, <3>2
  <2>3. WatchTypes' /\ Attached' /\ QueueTypes'
    BY <1>1, <1>4, <2>2, GrownWatch DEF WatchTypes, NoTouched
  <2>4. InView' /\ Clean' /\ Ruled'
    BY <1>1, <1>4, <2>1, <2>2, GrownView
  <2>5. Picked'
    <3>1. PICK ix : ix = run.index
      OBVIOUS
    <3>2. ix = run'.index
      BY <2>1, <3>1
    <3>3. ASSUME NEW p \in Tracked(ix) \ picked PROVE Spared(ix, p)'
      <4>1. same /\ p \notin watch.baseline.recheck \cup reported(watch.touched)
        BY <1>5, <3>1, <3>3
      <4>2. Spared(ix, p)
        BY <1>4, <1>5, <3>1, <3>3, <4>1, SparedOf
      <4>3. watch' = added /\ p \in Paths
        BY <1>9, <1>11, <3>1, <3>3, <4>1
      <4>4. watches(watch, p) => watches(watch, p)'
        <5>1. watches(watch, p) => watches(added, p)
          BY <1>10, <4>3
        <5>2. watches(watch, p)' <=> watches(added, p)
          BY <4>3 DEF watches
        <5> QED
          BY <5>1, <5>2
      <4>5. Reported(p)' = Reported(p) /\ (Vouched(ix, p) => Vouched(ix, p)')
        BY <1>1 DEF Reported, Vouched, Present
      <4> QED
        BY <4>2, <4>4, <4>5 DEF Spared
    <3>4. picked \subseteq Tracked(ix)
      BY <1>8, <3>1
    <3> QED
      BY <2>1, <3>2, <3>3, <3>4 DEF Picked, Tracked, Spared, Vouched
  <2> QED
    BY <1>1, <1>4, <2>1, <2>2, <2>3, <2>4, <2>5 DEF Watchful, Picking
<1>12. CASE /\ run' = [run EXCEPT !.compare = "stat", !.picked = Tracked(run.index)]
            /\ watch' = [taken EXCEPT !.failure = TRUE]
  <2>1. /\ run'.phase = run.phase /\ run'.compare = "stat"
        /\ run'.visits = run.visits /\ run'.seen = run.seen
    BY <1>12 DEF RunTypes
  <2>2. /\ DOMAIN watch' = DOMAIN watch /\ watch'.watched = watch.watched
        /\ watch'.backend = watch.backend /\ watch'.clean = watch.clean
        /\ watch'.touched = NoTouched /\ watch'.failure = TRUE
    BY <1>4, <1>7, <1>12 DEF WatchTypes
  <2>3. Grown(watch')
    <3>1. \A p \in Paths : watches(watch', p) <=> watches(watch, p)
      BY <2>2 DEF watches
    <3>2. \A p \in Paths : On(watch', tree, p) <=> On(watch, tree, p)
      BY <2>2 DEF On
    <3> QED
      BY <1>4, <2>2, <3>1, <3>2, PathsAssumption DEF Grown, WatchTypes, Attached
  <2>4. WatchTypes' /\ Attached' /\ QueueTypes'
    BY <1>1, <1>4, <2>2, <2>3, GrownWatch DEF WatchTypes, NoTouched
  <2>5. InView' /\ Clean' /\ Ruled'
    BY <1>1, <1>4, <2>1, <2>2, <2>3, GrownView
  <2> QED
    BY <1>1, <2>1, <2>2, <2>4, <2>5 DEF Watchful, Picking
<1> QED
  BY <1>6, <1>11, <1>12

\* It leaves a baseline that names all it did not vouch for (Discovery.Stat).
LEMMA StatWatchful ==
  ASSUME WorldTypes, RunTypes, Watchful, Stat
  PROVE  Watchful'
<1>1. /\ run.phase = "walk" /\ behind' = behind /\ queue' = queue /\ tree' = tree
      /\ run.compare \in {"stat", "watched"}
  BY DEF Stat, world, history
<1>2. SUFFICES ASSUME ~behind', watch' # None PROVE Watchful'
  BY DEF Watchful
<1>3. PICK suspects, fs, gone :
        /\ suspects = {p \in run.picked : ~vouched_entry(p)}
        /\ run' = [run EXCEPT !.compare = "done", !.picked = {}, !.files = fs, !.removed = gone]
        /\ watch' = IF watch = None \/ run.compare = "stat" THEN watch
                    ELSE [watch EXCEPT !.baseline =
                            [index |-> run.index,
                             recheck |-> suspects \cup {p \in run.picked : ~covers(watch, p)}]]
  BY DEF Stat
<1>4. /\ run'.phase = "walk" /\ run'.compare = "done" /\ run'.visits = run.visits
      /\ run'.seen = run.seen
  BY <1>1, <1>3 DEF RunTypes
<1>5. CASE run.compare = "stat"
  <2>1. watch' = watch
    BY <1>3, <1>5
  <2>2. QueueTypes /\ WatchTypes /\ Attached /\ Clean /\ Ruled /\ InView
        /\ (~watch.failure => Baseline)
    BY <1>1, <1>2, <1>5, <2>1 DEF Watchful, Picking
  <2>3. QueueTypes' /\ Told
    BY <1>1, <2>2, StandsTold
  <2>4. WatchTypes' /\ Attached' /\ Clean'
    BY <2>1, <2>2, <2>3, ToldAttached, ToldClean DEF WatchTypes
  <2>5. InView' /\ Ruled'
    BY <1>4, <2>1, <2>2, <2>3, ToldInView DEF Ruled
  <2>6. ~watch'.failure => Baseline'
    BY <2>1, <2>2, <2>3, ToldBaseline
  <2> QED
    BY <1>4, <2>3, <2>4, <2>5, <2>6 DEF Watchful, Picking
<1>6. CASE run.compare = "watched"
  <2>1. PICK again : again = suspects \cup {p \in run.picked : ~covers(watch, p)}
    OBVIOUS
  <2>2. watch # None
    BY <1>2, <1>3
  <2>3. watch' = [watch EXCEPT !.baseline = [index |-> run.index, recheck |-> again]]
    BY <1>3, <1>6, <2>1, <2>2
  <2>4. QueueTypes /\ WatchTypes /\ Attached /\ Clean /\ Ruled /\ InView /\ Picked
    BY <1>1, <1>2, <1>6, <2>2 DEF Watchful, Picking
  <2>5. /\ DOMAIN watch' = DOMAIN watch /\ watch'.watched = watch.watched
        /\ watch'.backend = watch.backend /\ watch'.clean = watch.clean
        /\ watch'.touched = watch.touched /\ watch'.baseline.index = run.index
        /\ watch'.baseline.recheck = again
    BY <2>3, <2>4 DEF WatchTypes
  <2>6. Grown(watch')
    <3>1. \A p \in Paths : watches(watch', p) <=> watches(watch, p)
      BY <2>5 DEF watches
    <3>2. \A p \in Paths : On(watch', tree, p) <=> On(watch, tree, p)
      BY <2>5 DEF On
    <3> QED
      BY <2>4, <2>5, <3>1, <3>2, PathsAssumption DEF Grown, WatchTypes, Attached
  <2>7. WatchTypes' /\ Attached' /\ QueueTypes'
    BY <1>1, <2>4, <2>5, <2>6, GrownWatch DEF WatchTypes
  <2>8. InView' /\ Clean' /\ Ruled'
    BY <1>1, <1>4, <2>4, <2>5, <2>6, GrownView
  <2>9. again \subseteq run.picked /\ run.picked \subseteq Tracked(run.index)
    BY <1>3, <2>1, <2>4 DEF Picked
  <2>10. PICK ix : ix = run.index
    OBVIOUS
  <2>11. ASSUME NEW p \in Tracked(ix), p \notin again PROVE Spared(ix, p)'
    <3>1. Spared(ix, p)
      <4>1. CASE p \in run.picked
        <5>1. vouched_entry(p) /\ watches(watch, p)
          BY <1>3, <2>1, <2>11, <4>1 DEF covers
        <5> QED
          BY <2>10, <5>1 DEF Spared, Vouched, vouched_entry
      <4>2. CASE p \notin run.picked
        BY <2>4, <2>10, <2>11, <4>2 DEF Picked
      <4> QED
        BY <4>1, <4>2
    <3>2. watches(watch, p)' <=> watches(watch, p)
      BY <2>5 DEF watches
    <3>3. Reported(p)' = Reported(p) /\ (Vouched(ix, p) => Vouched(ix, p)')
      BY <1>1 DEF Reported, Vouched, Present
    <3> QED
      BY <3>1, <3>2, <3>3 DEF Spared
  <2>12. Baseline'
    <3>1. ix = watch'.baseline.index /\ again \subseteq Tracked(ix)
      BY <2>5, <2>9, <2>10
    <3> QED
      BY <2>5, <2>11, <3>1 DEF Baseline, Tracked, Spared, Vouched
  <2> QED
    BY <1>4, <2>7, <2>8, <2>12 DEF Watchful, Picking
<1> QED
  BY <1>1, <1>5, <1>6

\* A watch that watches what it watched.
LEMMA SameGrown ==
  ASSUME WatchTypes, Attached, NEW w, DOMAIN w = DOMAIN watch, w.watched = watch.watched,
         w.backend = watch.backend
  PROVE  Grown(w) /\ \A p \in Paths : watches(watch, p) => watches(w, p)
<1>1. \A p \in Paths : watches(w, p) <=> watches(watch, p)
  BY DEF watches
<1>2. \A p \in Paths : On(w, tree, p) <=> On(watch, tree, p)
  BY DEF On
<1> QED
  BY <1>1, <1>2, PathsAssumption DEF Grown, WatchTypes, Attached

\* A baseline holds on under more watches.
LEMMA GrownBaseline ==
  ASSUME Baseline, NEW w, w = watch', w.baseline = watch.baseline, w.touched = watch.touched,
         \A p \in Paths : watches(watch, p) => watches(w, p), tree' = tree, queue' = queue
  PROVE  Baseline'
<1>1. ASSUME watch'.baseline # None PROVE Baseline'
  <2>1. PICK ix, again : ix = watch.baseline.index /\ again = watch.baseline.recheck
    OBVIOUS
  <2>2. ix = watch'.baseline.index /\ again = watch'.baseline.recheck /\ again \subseteq Tracked(ix)
        /\ Tracked(ix) \subseteq Paths
    BY <1>1, <2>1 DEF Baseline, Tracked, Files
  <2>3. ASSUME NEW p \in Tracked(ix), p \notin again PROVE (Concerned(p) \/ Spared(ix, p))'
    <3>1. Concerned(p) \/ Spared(ix, p)
      BY <1>1, <2>1, <2>3 DEF Baseline
    <3>2. Concerned(p) => Concerned(p)'
      BY DEF Concerned
    <3>3. watches(watch, p)' <=> watches(w, p)
      BY DEF watches
    <3>4. p \in Paths
      BY <2>2, <2>3
    <3>5. Spared(ix, p) => Spared(ix, p)'
      BY <3>3, <3>4 DEF Spared, Reported, Vouched, Present
    <3> QED
      BY <3>1, <3>2, <3>5
  <2> QED
    BY <2>2, <2>3 DEF Baseline, Tracked, Concerned, Spared, Vouched
<1> QED
  BY <1>1 DEF Baseline

\* What the watch takes for clean is what was seen of it.
LEMMA GrownClean ==
  ASSUME WatchTypes, Clean, NEW w, w = watch', Grown(w), tree' = tree, queue' = queue,
         \A d \in Dirs : run.seen[d] # None => run.seen[d] \in Sightings,
         \A d \in Dirs : w.clean[d] # watch.clean[d] /\ w.clean[d] # None =>
            /\ run.seen[d] # None /\ w.clean[d] = run.seen[d] /\ watches(watch, d)
            /\ run.seen[d].rules # None => rules_of(d) \in Paths /\ watches(watch, rules_of(d))
            /\ Sure(d, run.seen[d])
  PROVE  Clean'
<1>1. ASSUME NEW d \in Dirs, w.clean[d] # None
      PROVE  /\ w.clean[d] \in Sightings /\ watches(w, d)
             /\ w.clean[d].rules # None => rules_of(d) \in Paths /\ watches(w, rules_of(d))
             /\ Sure(d, w.clean[d])
  <2>1. CASE w.clean[d] = watch.clean[d]
    BY <1>1, <2>1 DEF Clean, Grown
  <2>2. CASE w.clean[d] # watch.clean[d]
    BY <1>1, <2>2 DEF Grown
  <2> QED
    BY <2>1, <2>2
<1>2. \A d : Reported(d)' = Reported(d) /\ RulesStamp(d)' = RulesStamp(d)
  BY DEF Reported, RulesStamp
<1>3. ASSUME NEW d \in Dirs, NEW s, Sure(d, s) PROVE Sure(d, s)'
  BY <1>2, <1>3 DEF Sure
<1>4. ASSUME NEW d \in Dirs, watch'.clean[d] # None
      PROVE  /\ watch'.clean[d] \in Sightings /\ watches(watch, d)'
             /\ watch'.clean[d].rules # None => rules_of(d) \in Paths /\ watches(watch, rules_of(d))'
             /\ Sure(d, watch.clean[d])'
  <2>1. PICK s : s = w.clean[d]
    OBVIOUS
  <2>2. s # None /\ s \in Sightings /\ watches(w, d)
        /\ (s.rules # None => rules_of(d) \in Paths /\ watches(w, rules_of(d))) /\ Sure(d, s)
    BY <1>1, <1>4, <2>1
  <2>3. Sure(d, s)'
    BY <1>3, <2>2
  <2>4. s = watch'.clean[d]
    BY <2>1
  <2> QED
    BY <2>2, <2>3, <2>4 DEF watches, Sure
<1> QED
  BY <1>4 DEF Clean

\* The first half of a settle: what was watched all along.
LEMMA KnownIs ==
  ASSUME WatchTypes, NEW k, k = SettleKnown(watch, run.seen)
  PROVE  /\ DOMAIN k = DOMAIN watch /\ k.watched = watch.watched /\ k.backend = watch.backend
         /\ k.baseline = watch.baseline /\ k.touched = watch.touched /\ k.failure = watch.failure
         /\ DOMAIN k.clean = Dirs
         /\ \A d \in Dirs : k.clean[d] = IF run.seen[d] # None /\ SinceBefore(watch, d, run.seen[d])
                                         THEN run.seen[d] ELSE watch.clean[d]
<1>1. PICK c : c = [d \in Dirs |-> IF d \in SettleAll(run.seen) \ Fresh(watch, run.seen)
                                   THEN run.seen[d] ELSE watch.clean[d]]
  OBVIOUS
<1>2. k = [watch EXCEPT !.clean = c]
  BY <1>1 DEF SettleKnown
<1>3. \A d \in Dirs : d \in SettleAll(run.seen) \ Fresh(watch, run.seen)
                      <=> run.seen[d] # None /\ SinceBefore(watch, d, run.seen[d])
  BY DEF SettleAll, Fresh
<1> QED
  BY <1>1, <1>2, <1>3 DEF WatchTypes

\* What is watched anew lies in directories that are watched.
LEMMA WatchingAbove ==
  ASSUME Steady, RunTypes, WatchTypes, Attached, Clean, InView, Ruled,
         NEW p \in Watching(watch, run.seen) \cap Paths, NEW e \in ancestors(p)
  PROVE  e \in Watching(watch, run.seen) \cap Paths \/ watch.watched[e] # None
<1>1. PICK fresh : fresh = Fresh(watch, run.seen)
  OBVIOUS
<1>2. Watching(watch, run.seen) = fresh \cup {rules_of(d) : d \in {x \in fresh : run.seen[x].rules # None}}
  BY <1>1 DEF Watching
<1>3. \A d \in fresh : d \in Dirs /\ run.seen[d] # None
  BY <1>1 DEF Fresh, SettleAll
<1>4. ASSUME NEW d \in fresh, NEW a \in ancestors(d) PROVE a \in fresh \/ watch.watched[a] # None
  <2>1. Saw(d) /\ run.visits[d].step # "no"
    BY <1>3, Steadily DEF Saw
  <2>2. InSight(d)
    BY <1>3 DEF InView
  <2>3. run.seen[a] # None \/ watch.clean[a] # None
    BY <2>1, <2>2 DEF InSight
  <2>4. a \in Dirs
    BY DEF ancestors
  <2>5. watches(watch, a) => watch.watched[a] # None
    BY <2>4 DEF watches, directory
  <2>6. CASE watch.clean[a] # None
    BY <2>4, <2>5, <2>6 DEF Clean
  <2>7. CASE run.seen[a] # None /\ a \notin fresh
    <3>1. SinceBefore(watch, a, run.seen[a])
      BY <1>1, <2>4, <2>7 DEF Fresh, SettleAll
    <3> QED
      BY <2>5, <3>1 DEF SinceBefore, watched_before
  <2> QED
    BY <2>3, <2>6, <2>7
<1>5. e \in Paths
  BY PathsAssumption DEF ancestors
<1>6. CASE p \in fresh
  BY <1>2, <1>4, <1>5, <1>6
<1>7. CASE p \notin fresh
  <2>1. PICK d \in fresh : p = rules_of(d)
    BY <1>2, <1>7
  <2>2. d \in Dirs /\ p # Root /\ Parent(p) = d
    BY <1>3, <2>1, InDirectory
  <2>3. e = d \/ e \in ancestors(d)
    BY <2>2, AncestorsOf
  <2> QED
    BY <1>2, <1>4, <1>5, <2>1, <2>3
<1> QED
  BY <1>6, <1>7

\* The first half of a settle (Discovery.Settle).
LEMMA SettleWatchful ==
  ASSUME WorldTypes, Rooted, Stores, Memorised, Walking, RunTypes, Watchful, Settle
  PROVE  Watchful'
<1>1. /\ run.phase = "walk" /\ run.compare = "done" /\ behind' = behind /\ queue' = queue
      /\ tree' = tree
  BY DEF Settle, Walked, world
<1>2. SUFFICES ASSUME ~behind', watch' # None PROVE Watchful'
  BY DEF Watchful
<1>3. watch # None
  BY <1>2 DEF Settle
<1>4. /\ QueueTypes /\ WatchTypes /\ Attached /\ Clean /\ Ruled /\ InView
      /\ ~watch.failure => Baseline
  BY <1>1, <1>2, <1>3 DEF Watchful, Picking
<1>5. Steady
  BY <1>1, <1>2 DEF Steady
<1>6. PICK fs, fresh : run' = [run EXCEPT !.phase = "settle", !.files = fs, !.fresh = fresh]
  BY DEF Settle
<1>7. run'.phase = "settle" /\ run'.visits = run.visits /\ run'.seen = run.seen
  BY <1>6 DEF RunTypes
<1>8. PICK k : k = SettleKnown(watch, run.seen)
  OBVIOUS
<1>9. PICK ps : ps = Watching(watch, run.seen) \cap Paths
  OBVIOUS
<1>10. \/ watch' = watch
       \/ watch' = add(k, tree, ps)
       \/ watch' = [k EXCEPT !.failure = TRUE]
  BY <1>3, <1>8, <1>9 DEF Settle
<1>11. PICK w : w = watch'
  OBVIOUS
<1>12. /\ DOMAIN k = DOMAIN watch /\ k.watched = watch.watched /\ k.backend = watch.backend
       /\ k.baseline = watch.baseline /\ k.touched = watch.touched /\ k.failure = watch.failure
       /\ DOMAIN k.clean = Dirs
       /\ \A d \in Dirs : k.clean[d] = IF run.seen[d] # None /\ SinceBefore(watch, d, run.seen[d])
                                       THEN run.seen[d] ELSE watch.clean[d]
  BY <1>4, <1>8, KnownIs
<1>13. /\ Grown(w) /\ \A p \in Paths : watches(watch, p) => watches(w, p)
       /\ w.clean = watch.clean \/ w.clean = k.clean
       /\ w.baseline = watch.baseline /\ w.touched = watch.touched
       /\ ~w.failure => ~watch.failure
  <2>1. CASE w = watch
    BY <1>4, <2>1, SameGrown
  <2>2. CASE w = add(k, tree, ps)
    <3>1. \A p \in ps \cap Paths : \A e \in ancestors(p) : e \in ps \/ watch.watched[e] # None
      BY <1>4, <1>5, <1>9, WatchingAbove
    <3>2. Grown(w) /\ \A p \in Paths : watches(watch, p) => watches(w, p)
      BY <1>4, <1>12, <2>2, <3>1, AddGrown
    <3>3. /\ DOMAIN w = DOMAIN watch /\ w.backend = watch.backend /\ w.clean = k.clean
          /\ w.baseline = k.baseline /\ w.touched = k.touched /\ w.failure = k.failure
          /\ DOMAIN w.watched = Paths
          /\ \A p \in Paths : watch.watched[p] # None => w.watched[p] = watch.watched[p]
      BY <1>4, <1>12, <2>2, AddIs
    <3> QED
      BY <1>12, <3>2, <3>3
  <2>3. CASE w = [k EXCEPT !.failure = TRUE]
    <3>1. /\ DOMAIN w = DOMAIN watch /\ w.watched = watch.watched /\ w.backend = watch.backend
          /\ w.baseline = watch.baseline /\ w.touched = watch.touched /\ w.failure = TRUE
          /\ w.clean = k.clean
      BY <1>4, <1>12, <2>3 DEF WatchTypes
    <3> QED
      BY <1>4, <3>1, SameGrown
  <2> QED
    BY <1>10, <1>11, <2>1, <2>2, <2>3
<1>14. \A d \in Dirs : run.seen[d] # None => run.seen[d] \in Sightings
  BY <1>5, Steadily DEF Saw
<1>15. ASSUME NEW d \in Dirs, w.clean[d] # watch.clean[d]
       PROVE  /\ run.seen[d] # None /\ w.clean[d] = run.seen[d] /\ watches(watch, d)
              /\ run.seen[d].rules # None => rules_of(d) \in Paths /\ watches(watch, rules_of(d))
              /\ Sure(d, run.seen[d])
  <2>1. run.seen[d] # None /\ w.clean[d] = run.seen[d] /\ SinceBefore(watch, d, run.seen[d])
    BY <1>12, <1>13, <1>15
  <2>2. InSight(d)
    BY <1>4 DEF InView
  <2>3. run.seen[d].rules # None => rules_of(d) \in Paths
    BY <1>4, <2>1 DEF Ruled
  <2> QED
    BY <2>1, <2>2, <2>3 DEF SinceBefore, watched_before, InSight, Sure
<1>16. Clean'
  BY <1>1, <1>4, <1>11, <1>13, <1>14, <1>15, GrownClean
<1>17. WatchTypes' /\ Attached' /\ QueueTypes'
  <2>1. DOMAIN w.clean = Dirs /\ DOMAIN w.touched = {"paths", "subtrees"}
    BY <1>4, <1>12, <1>13 DEF WatchTypes
  <2> QED
    BY <1>1, <1>4, <1>11, <1>13, <2>1, GrownWatch
<1>18. ~watch'.failure => Baseline'
  BY <1>1, <1>4, <1>11, <1>13, GrownBaseline
<1>19. Ruled'
  BY <1>4, <1>7 DEF Ruled
<1> QED
  BY <1>7, <1>16, <1>17, <1>18, <1>19 DEF Watchful, Picking

\* The second half: what was watched only now, and has not changed.
LEMMA RecheckWatchful ==
  ASSUME WorldTypes, Stores, Memorised, Walking, RunTypes, Watchful, Recheck
  PROVE  Watchful'
<1>1. /\ run.phase = "settle" /\ behind' = behind /\ queue' = queue /\ tree' = tree
  BY DEF Recheck, world, history
<1>2. SUFFICES ASSUME ~behind', watch' # None PROVE Watchful'
  BY DEF Watchful
<1>3. watch # None
  BY <1>2 DEF Recheck
<1>4. /\ QueueTypes /\ WatchTypes /\ Attached /\ Clean /\ Ruled
      /\ ~watch.failure => Baseline
  BY <1>1, <1>2, <1>3 DEF Watchful, Picking
<1>5. Steady
  BY <1>1, <1>2 DEF Steady
<1>6. run'.phase = "done"
  BY DEF Recheck, RunTypes
<1>7. PICK c : c = [d \in Dirs |-> IF d \in run.fresh /\ StillSame(watch, tree, d, run.seen[d])
                                    THEN run.seen[d] ELSE watch.clean[d]]
  OBVIOUS
<1>8. watch' = watch \/ watch' = [watch EXCEPT !.clean = c]
  BY <1>3, <1>7 DEF Recheck, SettleFresh
<1>9. PICK w : w = watch'
  OBVIOUS
<1>10. /\ DOMAIN w = DOMAIN watch /\ w.watched = watch.watched /\ w.backend = watch.backend
       /\ w.baseline = watch.baseline /\ w.touched = watch.touched /\ w.failure = watch.failure
       /\ w.clean = watch.clean \/ w.clean = c
  BY <1>4, <1>8, <1>9 DEF WatchTypes
<1>11. Grown(w) /\ \A p \in Paths : watches(watch, p) => watches(w, p)
  BY <1>4, <1>10, SameGrown
<1>12. \A d \in Dirs : run.seen[d] # None => run.seen[d] \in Sightings
  BY <1>5, Steadily DEF Saw
<1>13. ASSUME NEW d \in Dirs, w.clean[d] # watch.clean[d], w.clean[d] # None
       PROVE  /\ run.seen[d] # None /\ w.clean[d] = run.seen[d] /\ watches(watch, d)
              /\ run.seen[d].rules # None => rules_of(d) \in Paths /\ watches(watch, rules_of(d))
              /\ Sure(d, run.seen[d])
  <2>1. w.clean[d] = run.seen[d] /\ StillSame(watch, tree, d, run.seen[d])
    BY <1>7, <1>10, <1>13
  <2>2. run.seen[d].rules # None => rules_of(d) \in Paths
    BY <1>4, <1>13, <2>1 DEF Ruled
  <2> QED
    BY <1>13, <2>1, <2>2 DEF StillSame, Sure, RulesStamp
<1>14. Clean'
  BY <1>1, <1>4, <1>9, <1>11, <1>12, <1>13, GrownClean
<1>15. WatchTypes' /\ Attached' /\ QueueTypes'
  <2>1. DOMAIN w.clean = Dirs /\ DOMAIN w.touched = {"paths", "subtrees"}
    BY <1>4, <1>7, <1>10 DEF WatchTypes
  <2> QED
    BY <1>1, <1>4, <1>9, <1>11, <2>1, GrownWatch
<1>16. ~watch'.failure => Baseline'
  BY <1>1, <1>4, <1>9, <1>10, <1>11, GrownBaseline
<1> QED
  BY <1>6, <1>14, <1>15, <1>16 DEF Watchful, Picking

\* A session that begins has watched nothing.
LEMMA NewWatchful ==
  watch \in {None} \cup {NewWatch(b) : b \in Backends} /\ queue = NoQueue /\ run = Idle => Watchful
<1>1. SUFFICES ASSUME watch \in {None} \cup {NewWatch(b) : b \in Backends}, queue = NoQueue, run = Idle,
                      watch # None
               PROVE  Watchful
  BY DEF Watchful
<1>2. PICK b \in Backends : watch = NewWatch(b)
  BY <1>1
<1>3. /\ DOMAIN watch = {"backend", "watched", "clean", "baseline", "touched", "failure"}
      /\ watch.backend \in {"inotify", "kqueue"} /\ watch.watched = NoWatches
      /\ watch.clean = [d \in Dirs |-> None] /\ watch.baseline = None /\ watch.touched = NoTouched
  BY <1>2, FilesAssumption DEF NewWatch
<1>4. WatchTypes /\ Attached /\ Clean /\ Baseline
  BY <1>3, PathsAssumption DEF WatchTypes, Attached, Clean, Baseline, NoWatches, NoTouched, Files
<1>5. QueueTypes
  BY <1>1 DEF QueueTypes, NoQueue
<1>6. run.phase = "idle" /\ run.compare = "no"
  BY <1>1 DEF Idle
<1> QED
  BY <1>4, <1>5, <1>6 DEF Watchful, Picking

\* The watch vouches for nothing wrong at first.
LEMMA InitWatchful == Init => Watchful
  BY NewWatchful DEF Init

\* Nor does that of a new process.
LEMMA RestartWatchful == ASSUME Restart PROVE Watchful'
<1>1. (watch \in {None} \cup {NewWatch(b) : b \in Backends} /\ queue = NoQueue /\ run = Idle)'
  BY DEF Restart, NewSession
<1> QED
  BY <1>1, NewWatchful, PTL

\* A step outside the walk that leaves the watch and the tree alone.
LEMMA RestsWatchful ==
  ASSUME WorldTypes, Watchful, tree' = tree, queue' = queue, watch' = watch, ~behind' => ~behind,
         run.phase # "walk", run'.phase \notin {"walk", "settle"}
  PROVE  Watchful'
<1>1. SUFFICES ASSUME ~behind', watch' # None PROVE Watchful'
  BY DEF Watchful
<1>2. QueueTypes /\ WatchTypes /\ Attached /\ Clean /\ (~watch.failure => Baseline)
  BY <1>1 DEF Watchful, Picking
<1>3. QueueTypes' /\ Told
  BY <1>2, StandsTold
<1>4. WatchTypes' /\ Attached' /\ Clean'
  BY <1>2, <1>3, ToldAttached, ToldClean DEF WatchTypes
<1>5. ~watch'.failure => Baseline'
  BY <1>2, <1>3, ToldBaseline
<1> QED
  BY <1>3, <1>4, <1>5 DEF Watchful, Picking

\* Every step keeps it so.
LEMMA NextWatchful == Sound /\ Watchful /\ [Next]_vars => Watchful'
<1>1. SUFFICES ASSUME Sound, Watchful, [Next]_vars PROVE Watchful'
  OBVIOUS
<1>2. WorldTypes /\ Inodes /\ Rooted /\ RunTypes /\ Before /\ Memorised /\ Stores /\ Walking
  BY <1>1 DEF Sound
<1>3. CASE \E scope \in Scopes : Start(scope)
  <2>1. PICK scope \in Scopes : Start(scope)
    BY <1>3
  <2>2. tree' = tree /\ queue' = queue /\ watch' = watch /\ behind' = behind /\ run.phase = "idle"
        /\ run'.phase = "open"
    BY <2>1 DEF Start, world, Idle
  <2> QED
    BY <1>1, <1>2, <2>2, RestsWatchful
<1>4. CASE NamesTracked
  <2>1. tree' = tree /\ queue' = queue /\ watch' = watch /\ behind' = behind /\ run.phase = "open"
        /\ run'.phase = "done"
    BY <1>2, <1>4 DEF NamesTracked, world, session, history, RunTypes
  <2> QED
    BY <1>1, <1>2, <2>1, RestsWatchful
<1>5. CASE Begin
  BY <1>1, <1>2, <1>5, BeginWatchful
<1>6. CASE \E d \in Dirs : Visit(d)
  BY <1>1, <1>2, <1>6, VisitWatchful
<1>7. CASE Compare
  BY <1>1, <1>2, <1>7, PickWatchful, StatWatchful DEF Compare
<1>8. CASE Settle
  BY <1>1, <1>2, <1>8, SettleWatchful
<1>9. CASE Recheck
  BY <1>1, <1>2, <1>9, RecheckWatchful
<1>10. CASE Persist
  <2>1. tree' = tree /\ queue' = queue /\ watch' = watch /\ (~behind' => ~behind) /\ run.phase = "done"
        /\ run'.phase = "idle"
    BY <1>10 DEF Persist, world, Idle
  <2> QED
    BY <1>1, <1>2, <2>1, RestsWatchful
<1>11. CASE Restart
  BY <1>11, RestartWatchful
<1>12. CASE Change
  <2>1. watch' = watch /\ run' = run /\ behind' = behind
    BY <1>12, ChangeSession
  <2>2. ASSUME watch # None, ~behind PROVE QueueTypes' /\ Told
    BY <1>1, <1>2, <1>12, <2>2, ChangeTold DEF Watchful
  <2>3. CASE behind
    BY <2>1, <2>3 DEF Watchful
  <2>4. CASE ~behind
    BY <1>1, <1>2, <2>1, <2>2, <2>4, ToldWatchful
  <2> QED
    BY <2>3, <2>4
<1>13. CASE UNCHANGED vars
  <2>1. watch' = watch /\ run' = run /\ behind' = behind /\ tree' = tree /\ queue' = queue
    BY <1>13 DEF vars, world, history, session
  <2>2. CASE behind \/ watch = None
    BY <2>1, <2>2 DEF Watchful
  <2>3. CASE ~behind /\ watch # None
    <3>1. QueueTypes
      BY <1>1, <2>3 DEF Watchful
    <3> QED
      BY <1>1, <1>2, <2>1, <3>1, StandsTold, ToldWatchful
  <2> QED
    BY <2>2, <2>3
<1> QED
  BY <1>1, <1>3, <1>4, <1>5, <1>6, <1>7, <1>8, <1>9, <1>10, <1>11, <1>12, <1>13 DEF Next

\* Watchful is an invariant: what Watch vouches for is as it was seen, or is
\* reported, in every process and through every failure of a watch.
THEOREM WatchfulAlways == Spec => []Watchful
<1>1. Sound /\ Watchful /\ [Next]_vars => Sound' /\ Watchful'
  BY NextSound, NextWatchful
<1>2. Init => Sound /\ Watchful
  BY InitSound, InitWatchful
<1> QED
  BY <1>1, <1>2, PTL DEF Spec

-----------------------------------------------------------------------------
(* A run that nothing disturbs *)

\* The walk is at directories that are to be reached, by the rules as they are.
Entered(s, d) ==
    run.visits[d].step # "no" =>
       /\ Present(d) /\ (d # Root => ~Ignored(d) /\ enters(s, d))
       /\ \A e \in ancestors(d) : Reached(s, e) /\ Rules(e) = RulesStamp(e)

Current(d) ==
    /\ run.visits[d].step = "listed" => /\ run.visits[d].entries = Kids(d)
                                        /\ run.visits[d].rules = RulesStamp(d)
    /\ run.layers[d] # None => run.layers[d] = Layers[d]

\* What there is to find in a directory is found when the walk is done with it.
Sought(s, d) == {p \in Kids(d) \cap Sources :
                    ~Ignored(p) /\ covers_path(s, p) /\ (every(s) \/ p \notin Tracked(index))}
Collected(s, d) ==
    run.visits[d].step = "done" /\ ~Nested(d) /\ ~run.failed => Sought(s, d) \subseteq run.files

\* A directory that is to be reached was, or one above it waits.
Ahead(s) ==
    ~run.failed => \A d \in Dirs : Reached(s, d) =>
       \/ run.visits[d].step # "no"
       \/ \E e \in ancestors(d) : run.visits[e].step \notin {"no", "done"}

\* The comparison has looked at all that differs, or is going to.
Compared ==
    /\ run.compare = "stat" => run.picked = Tracked(index)
    /\ run.compare = "watched" => /\ run.picked \subseteq Tracked(index)
                                  /\ \A p \in Tracked(index) \ run.picked : Vouched(index, p)
    /\ run.compare = "done" => /\ Modified \subseteq run.files
                               /\ run.removed = {p \in Tracked(index) : ~Present(p)}

Walk(s) ==
    /\ queue = NoQueue /\ mem.context = [exclude |-> StampOf(exclude)]
    /\ \A d \in Dirs : Entered(s, d) /\ Current(d) /\ Collected(s, d)
    /\ run.exclude # None => run.exclude = exclude.data
    /\ run.files \subseteq Expected(s) /\ Ahead(s)
    /\ every(s) => /\ run.compare = "done"
                   /\ {p \in run.visited : source_file(s, p)} \subseteq run.files
    /\ ~every(s) => Compared

Undisturbed ==
    quiet /\ ~behind /\ run.phase # "idle" =>
       \E s \in Scopes :
          /\ run.scope = s /\ run.index = index
          /\ run.phase = "open" => run.files = {} /\ run.visited = {}
          /\ run.phase = "walk" => Walk(s)
          /\ run.phase \in {"settle", "done"} /\ ~run.failed => run.files = Expected(s)

\* What was compared with HEAD before is what differs from it.
StagedTrue ==
    /\ store # None /\ store.staged # None => store.staged.paths = StagedIn(store.staged.index)
    /\ mem.stored # None /\ mem.stored.staged # None
       => mem.stored.staged.paths = StagedIn(mem.stored.staged.index)
    /\ mem.fresh_staged # None => mem.fresh_staged.paths = StagedIn(mem.fresh_staged.index)

-----------------------------------------------------------------------------

\* What is to be found, while the world stands still.
LEMMA StandsTruth ==
  ASSUME tree' = tree, exclude' = exclude, index' = index
  PROVE  /\ \A p : (Present(p)' <=> Present(p)) /\ (Nested(p)' <=> Nested(p)) /\ Kids(p)' = Kids(p)
         /\ \A p : (Ignored(p)' <=> Ignored(p)) /\ RulesStamp(p)' = RulesStamp(p)
         /\ Layers' = Layers
         /\ \A s, d : Reached(s, d)' <=> Reached(s, d)
         /\ \A s : Expected(s)' = Expected(s)
         /\ \A s, d : Sought(s, d)' = Sought(s, d)
         /\ \A ix, p : Vouched(ix, p)' <=> Vouched(ix, p)
         /\ Modified' = Modified
<1>1. \A p : (Present(p)' <=> Present(p)) /\ (Nested(p)' <=> Nested(p)) /\ Kids(p)' = Kids(p)
  BY DEF Present, Nested, Kids
<1>2. Layers' = Layers
  BY <1>1 DEF Layers
<1>3. \A p : (Ignored(p)' <=> Ignored(p)) /\ RulesStamp(p)' = RulesStamp(p)
  BY <1>2 DEF Ignored, RulesStamp
<1>4. \A s, d : Reached(s, d)' <=> Reached(s, d)
  BY <1>1, <1>3 DEF Reached
<1>5. Modified' = Modified /\ \A s : Untracked(s)' = Untracked(s)
  BY <1>1, <1>3, <1>4 DEF Modified, Untracked
<1>6. \A s : Expected(s)' = Expected(s)
  BY <1>1, <1>5 DEF Expected
<1>7. \A s, d : Sought(s, d)' = Sought(s, d)
  BY <1>1, <1>3 DEF Sought
<1>8. \A ix, p : Vouched(ix, p)' <=> Vouched(ix, p)
  BY <1>1 DEF Vouched
<1> QED
  BY <1>1, <1>2, <1>3, <1>4, <1>5, <1>6, <1>7, <1>8

\* Discovery.ignored looks at the rules above a path only.
LEMMA IgnoredAgree ==
  ASSUME NEW p, NEW L, NEW M, NEW ex, \A e \in ancestors(p) : L[e] = M[e]
  PROVE  ignored(L, ex, p) <=> ignored(M, ex, p)
<1>1. PICK ds : ds = {d \in ancestors(p) : L[d] # None /\ Decides(L[d], p)}
  OBVIOUS
<1>2. ds = {d \in ancestors(p) : M[d] # None /\ Decides(M[d], p)}
  BY <1>1
<1>3. \A d \in ds : L[d] = M[d]
  BY <1>1
<1>4. ignored(L, ex, p) <=> IF ds = {} THEN p \in ex.ignore
                            ELSE \E x \in ds : (\A d \in ds : Len(d) <= Len(x)) /\ p \in L[x].ignore
  BY <1>1 DEF ignored
<1>5. ignored(M, ex, p) <=> IF ds = {} THEN p \in ex.ignore
                            ELSE \E x \in ds : (\A d \in ds : Len(d) <= Len(x)) /\ p \in M[x].ignore
  BY <1>2 DEF ignored
<1> QED
  BY <1>3, <1>4, <1>5

\* A directory with no rules file has no layer.
LEMMA LayersNone ==
  ASSUME WorldTypes, NEW e \in Dirs, RulesStamp(e) = None
  PROVE  Layers[e] = None /\ rules_of(e) \notin Kids(e)
<1>1. CASE rules_of(e) \notin Paths
  BY <1>1 DEF Layers, Kids, Children
<1>2. CASE rules_of(e) \in Paths
  <2>1. StampOf(tree[rules_of(e)]) = None
    BY <1>2 DEF RulesStamp
  <2>2. tree[rules_of(e)] = None
    BY <1>2, <2>1, NodeIs DEF WorldTypes
  <2> QED
    BY <2>2 DEF Layers, Kids, Present
<1> QED
  BY <1>1, <1>2

\* An entry of a directory.
LEMMA KidIs ==
  ASSUME NEW d \in Dirs, NEW p \in Kids(d)
  PROVE  /\ p \in Paths /\ p # Root /\ Parent(p) = d /\ Present(p)
         /\ ancestors(p) = ancestors(d) \cup {d}
  BY AncestorsOf DEF Kids, Children

\* A nested repository, by its entries.
LEMMA NestedIs ==
  ASSUME NEW d \in Dirs
  PROVE  Nested(d) <=> d # Root /\ git(d) \in Kids(d)
  BY InDirectory DEF Nested, Kids, Children

-----------------------------------------------------------------------------

\* A listing that is what the directory holds, by the rules as they are.
Right(d, l) ==
    /\ l.nested = (git(d) \in Kids(d))
    /\ ~(l.nested /\ d # Root) =>
          /\ l.rules = RulesStamp(d)
          /\ l.files = {p \in Kids(d) \ Dirs : p # git(d) /\ ~Ignored(p)}
          /\ l.dirs = {p \in Kids(d) \cap Dirs : p # git(d) /\ ~Ignored(p)}

\* One that is live and true is, when the walk above it goes by the rules as they are.
LEMMA LiveRight ==
  ASSUME Steady, WorldTypes, mem.context = [exclude |-> StampOf(exclude)], mem.trusted,
         NEW d \in Dirs, run.visits[d].step # "no", run.visits[d].trusted,
         \A e \in ancestors(d) : Rules(e) = RulesStamp(e),
         NEW l, l = old(d), l # None, Live(d, l)
  PROVE  Right(d, l)
<1>1. /\ TrueStore(mem.stored) /\ Visited(d) /\ mem.stored.context = mem.context
      /\ mem.context # None
  BY Steadily DEF Steady, Memorised
<1>2. PICK rs : rs = RulesIn(mem.stored.listings)
  OBVIOUS
<1>3. Past(mem.context.exclude)
  BY <1>1 DEF TrueStore
<1>4. \A e \in ancestors(d) : e \in Known(mem.stored.listings) /\ rs[e] = RulesStamp(e)
  <2>1. ASSUME NEW e \in ancestors(d) PROVE e \in Known(mem.stored.listings) /\ rs[e] = RulesStamp(e)
    <3>1. old(e) # None /\ Rules(e) = old(e).rules /\ e \in Dirs
      BY <1>1 DEF Visited, ancestors
    <3>2. rs[e] = old(e).rules
      BY <1>2, <3>1 DEF RulesIn, old
    <3> QED
      BY <3>1, <3>2 DEF Known, old
  <2> QED
    BY <2>1
<1>5. PICK es : es = ancestors(d) \cap Known(mem.stored.listings)
  OBVIOUS
<1>6. es = ancestors(d)
  BY <1>4, <1>5
<1>7. TrueListing(d, l, mem.context, rs, es)
  BY <1>1, <1>2, <1>5 DEF TrueStore, Known, old
<1>8. PICK L \in [Dirs -> Texts \cup {None}], ex \in Texts :
         /\ Shows(d, l, L, ex) /\ Heard(mem.context, ex) /\ Follows(L, d, l.rules)
         /\ \A e \in es : Follows(L, e, rs[e])
  BY <1>7 DEF TrueListing, Exact
<1>9. ex = exclude.data
  BY <1>3, <1>8 DEF Heard
<1>10. ASSUME NEW e \in Dirs, NEW r, r = RulesStamp(e), Follows(L, e, r) PROVE L[e] = Layers[e]
  <2>1. CASE r = None
    BY <1>10, <2>1, LayersNone DEF Follows
  <2>2. CASE r # None
    BY <1>10, <2>2, LayersAre DEF Follows
  <2> QED
    BY <2>1, <2>2
<1>11. \A e \in ancestors(d) : L[e] = Layers[e]
  <2>1. ASSUME NEW e \in ancestors(d) PROVE L[e] = Layers[e]
    <3>1. PICK r : r = rs[e]
      OBVIOUS
    <3>2. r = RulesStamp(e) /\ Follows(L, e, r) /\ e \in Dirs
      BY <1>4, <1>6, <1>8, <3>1 DEF ancestors
    <3> QED
      BY <1>10, <3>2
  <2> QED
    BY <2>1
<1>12. CASE l.nested /\ d # Root
  BY <1>8, <1>12 DEF Right, Shows
<1>13. CASE ~(l.nested /\ d # Root)
  <2>1. PICK r : r = l.rules
    OBVIOUS
  <2>2. r = RulesStamp(d)
    <3>1. r = None => rules_of(d) \notin Kids(d)
      BY <1>8, <1>13, <2>1 DEF Shows
    <3>2. CASE r # None
      BY <2>1, <3>2 DEF Live
    <3>3. CASE r = None
      <4>1. rules_of(d) \notin Paths \/ ~Present(rules_of(d))
        BY <3>1, <3>3, InDirectory DEF Kids, Children
      <4> QED
        BY <3>3, <4>1 DEF RulesStamp, Present, StampOf
    <3> QED
      BY <3>2, <3>3
  <2>3. L[d] = Layers[d]
    BY <1>8, <1>10, <2>1, <2>2
  <2>4. \A p \in Kids(d) : ignored(L, ex, p) <=> Ignored(p)
    <3>1. ASSUME NEW p \in Kids(d) PROVE ignored(L, ex, p) <=> Ignored(p)
      <4>1. \A e \in ancestors(p) : L[e] = Layers[e]
        BY <1>11, <2>3, KidIs
      <4>2. PICK M, xe : M = Layers /\ xe = exclude.data
        OBVIOUS
      <4>3. ignored(L, xe, p) <=> ignored(M, xe, p)
        BY <4>1, <4>2, IgnoredAgree
      <4> QED
        BY <1>9, <4>2, <4>3 DEF Ignored
    <3> QED
      BY <3>1
  <2> QED
    BY <1>8, <1>13, <2>1, <2>2, <2>4 DEF Right, Shows
<1> QED
  BY <1>12, <1>13

\* The rules that are read are the rules, while nothing changes.
LEMMA ReadRight ==
  ASSUME Steady, WorldTypes, NEW d \in Dirs, run.visits[d].step = "listed",
         \A e \in ancestors(d) : Rules(e) = RulesStamp(e),
         \A e \in Dirs : Current(e), NEW e \in ancestors(d) \cup {d}
  PROVE  ReadLayers(d)[e] = Layers[e]
<1>1. run.visits[d].entries = Kids(d) /\ run.visits[d].rules = RulesStamp(d)
  BY DEF Current
<1>2. run.visits[d].chain = {x \in ancestors(d) : Rules(x) # None}
  BY Steadily DEF Visited
<1>3. e \in Dirs
  BY DEF ancestors
<1>4. e \in run.visits[d].chain \cup (IF run.visits[d].rules = None THEN {} ELSE {d})
      <=> RulesStamp(e) # None
  <2>1. d \notin ancestors(d)
    BY PathsAssumption, AncestorsOf
  <2> QED
    BY <1>1, <1>2, <2>1
<1>5. ReadLayers(d)[e] = IF RulesStamp(e) = None THEN None
                         ELSE IF run.layers[e] # None THEN run.layers[e]
                         ELSE IF Layers[e] = None THEN Silent ELSE Layers[e]
  BY <1>3, <1>4 DEF ReadLayers
<1>6. CASE RulesStamp(e) = None
  BY <1>3, <1>5, <1>6, LayersNone
<1>7. CASE RulesStamp(e) # None
  <2>1. Layers[e] # None
    BY <1>3, <1>7, LayersAre
  <2>2. run.layers[e] # None => run.layers[e] = Layers[e]
    BY <1>3 DEF Current
  <2> QED
    BY <1>5, <1>7, <2>1, <2>2
<1> QED
  BY <1>6, <1>7

\* A directory that is listed and filtered while nothing changes.
LEMMA RulesRight ==
  ASSUME Steady, WorldTypes, NEW d \in Dirs, run.visits[d].step = "listed",
         \A e \in ancestors(d) : Rules(e) = RulesStamp(e),
         \A e \in Dirs : Current(e), run.exclude # None => run.exclude = exclude.data,
         NEW l, l = Filtered(d)
  PROVE  Right(d, l)
<1>1. run.visits[d].entries = Kids(d) /\ run.visits[d].rules = RulesStamp(d)
  BY DEF Current
<1>3. PICK L, ex : L = ReadLayers(d) /\ ex = ReadExclude
  OBVIOUS
<1>4. ex = exclude.data
  BY <1>3 DEF ReadExclude
<1>5. \A e \in ancestors(d) \cup {d} : L[e] = Layers[e]
  BY <1>3, ReadRight
<1>6. \A p \in Kids(d) : ignored(L, ex, p) <=> Ignored(p)
  <2>1. ASSUME NEW p \in Kids(d) PROVE ignored(L, ex, p) <=> Ignored(p)
    <3>1. \A e \in ancestors(p) : L[e] = Layers[e]
      BY <1>5, KidIs
    <3>2. PICK M, xe : M = Layers /\ xe = exclude.data
      OBVIOUS
    <3>3. ignored(L, xe, p) <=> ignored(M, xe, p)
      BY <3>1, <3>2, IgnoredAgree
    <3> QED
      BY <1>4, <3>2, <3>3 DEF Ignored
  <2> QED
    BY <2>1
<1>7. PICK nested \in BOOLEAN : nested = (git(d) \in Kids(d))
  <2>1. CASE git(d) \in Kids(d)
    <3>1. TRUE = (git(d) \in Kids(d))
      BY <2>1
    <3> QED
      BY <3>1
  <2>2. CASE git(d) \notin Kids(d)
    <3>1. FALSE = (git(d) \in Kids(d))
      BY <2>2
    <3>2. WITNESS FALSE \in BOOLEAN
    <3> QED
      BY <3>1
  <2> QED
    BY <2>1, <2>2
<1>8. PICK left : left = {p \in Kids(d) : p # git(d) /\ ~Ignored(p)}
  OBVIOUS
<1>9. left = {p \in run.visits[d].entries : p # git(d) /\ ~ignored(ReadLayers(d), ReadExclude, p)}
  BY <1>1, <1>3, <1>6, <1>8
<1>10. l = IF nested /\ d # Root
           THEN [stamp |-> run.visits[d].stamp, rules |-> None, nested |-> TRUE,
                 files |-> {}, dirs |-> {}]
           ELSE [stamp |-> run.visits[d].stamp, rules |-> run.visits[d].rules, nested |-> nested,
                 files |-> left \ Dirs, dirs |-> left \cap Dirs]
  BY <1>1, <1>7, <1>9 DEF Filtered
<1>11. CASE nested /\ d # Root
  <2>1. l = [stamp |-> run.visits[d].stamp, rules |-> None, nested |-> TRUE,
             files |-> {}, dirs |-> {}]
    BY <1>10, <1>11
  <2>2. l.nested = TRUE
    BY <2>1
  <2> QED
    BY <1>7, <1>11, <2>2 DEF Right
<1>12. CASE ~(nested /\ d # Root)
  <2>0. l = [stamp |-> run.visits[d].stamp, rules |-> run.visits[d].rules, nested |-> nested,
             files |-> left \ Dirs, dirs |-> left \cap Dirs]
    BY <1>10, <1>12
  <2>1. l.nested = nested /\ l.rules = run.visits[d].rules /\ l.files = left \ Dirs
        /\ l.dirs = left \cap Dirs
    BY <2>0
  <2> QED
    BY <1>1, <1>7, <1>8, <1>12, <2>1 DEF Right
<1> QED
  BY <1>11, <1>12

\* One that the watch vouches for, with no report of it.
LEMMA WatchRight ==
  ASSUME Steady, WorldTypes, Watchful, queue = NoQueue, mem.context = [exclude |-> StampOf(exclude)],
         NEW d \in Dirs, run.visits[d].step # "no", run.visits[d].trusted,
         \A e \in ancestors(d) : Rules(e) = RulesStamp(e),
         NEW l, l = vouched(d), l # None
  PROVE  Right(d, l)
<1>1. watch # None /\ watch.clean[d] # None
  BY DEF vouched
<1>2. PICK s : s = watch.clean[d]
  OBVIOUS
<1>3. Sure(d, s)
  BY <1>1, <1>2 DEF Steady, Watchful, Clean
<1>4. \A p : ~Reported(p)
  BY DEF Reported, NoQueue
<1>5. StampOf(tree[d]) = s.stamp /\ (s.rules # None => RulesStamp(d) = s.rules)
  BY <1>3, <1>4 DEF Sure
<1>6. l = listing(mem, d, s.stamp) /\ l.rules = s.rules
  BY <1>1, <1>2 DEF vouched
<1>7. l = old(d) /\ l.stamp = s.stamp /\ mem.trusted
  <2>1. PICK st : st = s.stamp
    OBVIOUS
  <2>2. listing(mem, d, st) # None /\ l = listing(mem, d, st)
    BY <1>6, <2>1
  <2> QED
    BY <2>1, <2>2, StoredIs
<1>8. Live(d, l)
  BY <1>5, <1>6, <1>7 DEF Live
<1> QED
  BY <1>7, <1>8, LiveRight

\* One that has its stamp.
LEMMA StampRight ==
  ASSUME Steady, WorldTypes, mem.context = [exclude |-> StampOf(exclude)],
         NEW d \in Dirs, run.visits[d].step # "no", run.visits[d].trusted,
         \A e \in ancestors(d) : Rules(e) = RulesStamp(e),
         NEW l, l = replayed(d), l # None
  PROVE  Right(d, l)
<1>1. PICK st : st = StampOf(tree[d])
  OBVIOUS
<1>2. l = listing(mem, d, st) /\ (l.rules = None \/ RulesStamp(d) = l.rules)
  BY <1>1 DEF replayed
<1>3. l = old(d) /\ l.stamp = st /\ mem.trusted
  BY <1>2, StoredIs
<1>4. Live(d, l)
  BY <1>1, <1>2, <1>3 DEF Live
<1> QED
  BY <1>3, <1>4, LiveRight

\* However the walk comes to a listing, it is right.
LEMMA ReplaysRight ==
  ASSUME Steady, WorldTypes, Watchful, NEW s, Walk(s), NEW d \in Dirs, NEW l, NEW t, Replays(d, l, t)
  PROVE  Right(d, l)
<1>1. /\ queue = NoQueue /\ mem.context = [exclude |-> StampOf(exclude)] /\ Entered(s, d)
      /\ \A e \in Dirs : Current(e)
      /\ run.exclude # None => run.exclude = exclude.data
  BY DEF Walk
<1>2. run.visits[d].step # "no"
  BY DEF Replays
<1>3. \A e \in ancestors(d) : Rules(e) = RulesStamp(e)
  BY <1>1, <1>2 DEF Entered
<1>4. CASE ByWatch(d, l)
  BY <1>1, <1>2, <1>3, <1>4, WatchRight DEF ByWatch
<1>5. CASE ByStamp(d, l)
  BY <1>1, <1>2, <1>3, <1>5, StampRight DEF ByStamp
<1>6. CASE ByRules(d, l)
  BY <1>1, <1>3, <1>6, RulesRight DEF ByRules
<1> QED
  BY <1>4, <1>5, <1>6 DEF Replays

\* A directory that is entered, and is no repository of its own, is reached.
LEMMA ReachedIs ==
  ASSUME NEW s, NEW d \in Dirs, Entered(s, d), run.visits[d].step # "no", ~Nested(d)
  PROVE  Reached(s, d)
<1>1. \A e \in ancestors(d) : Present(e) /\ ~Nested(e) /\ (e # Root => ~Ignored(e) /\ enters(s, e))
  BY DEF Entered, Reached
<1> QED
  BY <1>1 DEF Entered, Reached

\* What a visit does to the steps of the others.
LEMMA ReplaysSteps ==
  ASSUME Steady, RunTypes, events \in Nat, NEW d \in Dirs, NEW l, NEW t, Replays(d, l, t)
  PROVE  /\ tree' = tree /\ exclude' = exclude /\ index' = index
         /\ run'.visits[d].step = "done" /\ run.visits[d].step \notin {"no", "done"}
         /\ \A x \in Dirs : x # d /\ ~Leads(d, l, x) => run'.visits[x] = run.visits[x]
         /\ \A x \in Dirs : Leads(d, l, x) =>
               /\ x # d /\ run'.visits[x].step = "queued" /\ ancestors(x) = ancestors(d) \cup {d}
         /\ \A e \in Dirs : run.visits[e].step = "done" => Rules(e)' = Rules(e)
         /\ Rules(d)' = l.rules
<1>1. Visits(d, l, t) /\ run.visits[d].step \notin {"no", "done"}
  BY DEF Replays
<1>2. l.dirs \subseteq Children(d) \cap Dirs
  BY <1>1 DEF Visits
<1>3. \A e \in Dirs : run.visits[e].step = "done" => Rules(e)' = Rules(e)
  BY <1>1, VisitsOthers
<1>4. ASSUME NEW x \in Dirs, Leads(d, l, x)
      PROVE  x # d /\ run'.visits[x].step = "queued" /\ ancestors(x) = ancestors(d) \cup {d}
  BY <1>1, <1>2, <1>4, NextIs DEF Visits
<1>5. run'.visits[d].step = "done"
  BY <1>1, NoVisitDone DEF Visits
<1> QED
  BY <1>1, <1>3, <1>4, <1>5 DEF Visits, world

\* A visit leads to directories that are to be reached.
LEMMA ReplaysEntered ==
  ASSUME Steady, RunTypes, events \in Nat, NEW s, Walk(s), run.scope = s,
         NEW d \in Dirs, NEW l, NEW t, Replays(d, l, t), Right(d, l), NEW x \in Dirs
  PROVE  Entered(s, x)'
<1>1. /\ tree' = tree /\ exclude' = exclude /\ index' = index
      /\ run'.visits[d].step = "done" /\ run.visits[d].step \notin {"no", "done"}
      /\ \A y \in Dirs : y # d /\ ~Leads(d, l, y) => run'.visits[y] = run.visits[y]
      /\ \A y \in Dirs : Leads(d, l, y) =>
            /\ y # d /\ run'.visits[y].step = "queued" /\ ancestors(y) = ancestors(d) \cup {d}
      /\ \A e \in Dirs : run.visits[e].step = "done" => Rules(e)' = Rules(e)
      /\ Rules(d)' = l.rules
  BY ReplaysSteps
<1>2. ASSUME NEW y \in Dirs, run.visits[y].step # "no", NEW e \in ancestors(y)
      PROVE  e \in Dirs /\ Reached(s, e) /\ Rules(e)' = RulesStamp(e)
  <2>1. Visited(y) /\ Entered(s, y) /\ e \in Dirs
    BY Steadily DEF Walk, ancestors
  <2>2. run.visits[e].step = "done" /\ Rules(e) = RulesStamp(e) /\ Reached(s, e)
    BY <1>2, <2>1 DEF Visited, Entered
  <2> QED
    BY <1>1, <2>1, <2>2
<1>3. SUFFICES ASSUME run'.visits[x].step # "no"
               PROVE  /\ Present(x) /\ (x # Root => ~Ignored(x) /\ enters(s, x))
                      /\ \A e \in ancestors(x) : Reached(s, e) /\ Rules(e)' = RulesStamp(e)
  BY <1>1, StandsTruth DEF Entered
<1>4. CASE ~Leads(d, l, x)
  <2>1. run.visits[x].step # "no"
    BY <1>1, <1>3, <1>4
  <2>2. Entered(s, x)
    BY DEF Walk
  <2> QED
    BY <1>2, <2>1, <2>2 DEF Entered
<1>5. CASE Leads(d, l, x)
  <2>1. x \in l.dirs /\ enters(s, x) /\ ~(l.nested /\ d # Root)
    BY <1>5 DEF Leads
  <2>3. l.rules = RulesStamp(d) /\ x \in Kids(d) /\ ~Ignored(x) /\ ~Nested(d)
    BY <2>1, NestedIs DEF Right
  <2>4. Entered(s, d) /\ run.visits[d].step # "no"
    BY <1>1 DEF Walk
  <2>5. Reached(s, d)
    BY <2>3, <2>4, ReachedIs
  <2>6. Present(x)
    BY <2>3 DEF Kids
  <2> QED
    BY <1>1, <1>2, <1>5, <2>1, <2>3, <2>4, <2>5, <2>6
<1> QED
  BY <1>4, <1>5

\* A visit reads the rules as they are.
LEMMA ReplaysCurrent ==
  ASSUME Steady, WorldTypes, RunTypes, events \in Nat, NEW s, Walk(s),
         NEW d \in Dirs, NEW l, NEW t, Replays(d, l, t)
  PROVE  /\ \A x \in Dirs : Current(x)'
         /\ run'.exclude # None => run'.exclude = exclude'.data
<1>1. /\ tree' = tree /\ exclude' = exclude /\ index' = index
      /\ run'.visits[d].step = "done" /\ run.visits[d].step \notin {"no", "done"}
      /\ \A y \in Dirs : y # d /\ ~Leads(d, l, y) => run'.visits[y] = run.visits[y]
      /\ \A y \in Dirs : Leads(d, l, y) =>
            /\ y # d /\ run'.visits[y].step = "queued" /\ ancestors(y) = ancestors(d) \cup {d}
  BY ReplaysSteps
<1>2. \A e \in Dirs : Current(e)
  BY DEF Walk
<1>3. run.exclude # None => run.exclude = exclude.data
  BY DEF Walk
<1>4. ASSUME NEW x \in Dirs, run'.layers[x] # None PROVE run'.layers[x] = Layers[x]
  <2>1. CASE run'.layers = run.layers
    BY <1>2, <1>4, <2>1 DEF Current
  <2>2. CASE ByRules(d, l)
    <3>1. PICK r : r = ReadLayers(d)[x]
      OBVIOUS
    <3>2. run'.layers[x] = IF r = None THEN run.layers[x] ELSE r
      BY <2>2, <3>1 DEF ByRules
    <3>3. CASE r = None
      BY <1>2, <1>4, <3>2, <3>3 DEF Current
    <3>4. CASE r # None
      <4>1. run.visits[d].step = "listed"
        BY <2>2 DEF ByRules
      <4>2. x \in ancestors(d) \cup {d}
        BY <3>1, <3>4, <4>1, ReadIs
      <4>3. \A e \in ancestors(d) : Rules(e) = RulesStamp(e)
        BY <4>1 DEF Walk, Entered
      <4> QED
        BY <1>2, <3>1, <3>2, <3>4, <4>1, <4>2, <4>3, ReadRight
    <3> QED
      BY <3>3, <3>4
  <2> QED
    BY <2>1, <2>2 DEF Replays, ByWatch, ByStamp
<1>5. ASSUME NEW x \in Dirs, run'.visits[x].step = "listed"
      PROVE  run'.visits[x].entries = Kids(x) /\ run'.visits[x].rules = RulesStamp(x)
  <2>1. run'.visits[x] = run.visits[x]
    BY <1>1, <1>5
  <2> QED
    BY <1>2, <1>5, <2>1 DEF Current
<1>6. \A x \in Dirs : Current(x)'
  BY <1>1, <1>4, <1>5, StandsTruth DEF Current
<1>7. run'.exclude # None => run'.exclude = exclude.data
  <2>1. CASE run'.exclude = run.exclude
    BY <1>3, <2>1
  <2>2. CASE ByRules(d, l)
    BY <1>3, <2>2 DEF ByRules, ReadExclude
  <2> QED
    BY <2>1, <2>2 DEF Replays, ByWatch, ByStamp
<1> QED
  BY <1>1, <1>6, <1>7

\* The files that a right listing adds.
LEMMA RightFinds ==
  ASSUME NEW d \in Dirs, NEW l, Right(d, l), NEW r, Finds(d, l, r), run.index = index
  PROVE  /\ run.files \subseteq r.files /\ run.visited \subseteq r.visited
         /\ ~Nested(d) => Sought(run.scope, d) \subseteq r.files
         /\ \A p \in r.files : \/ p \in run.files
                               \/ /\ ~Nested(d) /\ p \in Kids(d) /\ ~Ignored(p)
                                  /\ source_file(run.scope, p)
                                  /\ every(run.scope) \/ p \notin Tracked(index)
         /\ every(run.scope) =>
               \A p \in r.visited : p \in run.visited \/ (source_file(run.scope, p) => p \in r.files)
<1>1. PICK s : s = run.scope
  OBVIOUS
<1>2. CASE l.nested /\ d # Root
  <2>1. r.files = run.files /\ r.visited = run.visited
    BY <1>2 DEF Finds
  <2>2. Nested(d)
    BY <1>2, NestedIs DEF Right
  <2> QED
    BY <2>1, <2>2
<1>3. CASE ~(l.nested /\ d # Root)
  <2>1. /\ r.files = run.files \cup
              {p \in IF every(s) THEN l.files ELSE l.files \ Tracked(index) : source_file(s, p)}
        /\ r.visited = run.visited \cup (l.files \cap Tracked(index))
    BY <1>1, <1>3 DEF Finds
  <2>2. ~Nested(d) /\ l.files = {p \in Kids(d) \ Dirs : p # git(d) /\ ~Ignored(p)}
    BY <1>3, NestedIs DEF Right
  <2>3. ASSUME NEW p \in Sought(s, d) PROVE p \in r.files
    <3>1. p \in Kids(d) /\ p \in Sources /\ ~Ignored(p) /\ covers_path(s, p)
          /\ (every(s) \/ p \notin Tracked(index))
      BY <2>3 DEF Sought
    <3>2. p \notin Dirs /\ p # git(d)
      BY <3>1, FilesAssumption DEF Files
    <3> QED
      BY <2>1, <2>2, <3>1, <3>2 DEF source_file
  <2>4. \A p \in r.files : \/ p \in run.files
                           \/ /\ p \in Kids(d) /\ ~Ignored(p) /\ source_file(s, p)
                              /\ every(s) \/ p \notin Tracked(index)
    BY <2>1, <2>2
  <2>5. every(s) => \A p \in r.visited : p \in run.visited \/ (source_file(s, p) => p \in r.files)
    BY <2>1
  <2> QED
    BY <1>1, <2>1, <2>2, <2>3, <2>4, <2>5
<1> QED
  BY <1>2, <1>3

\* A visit finds what is to be found in its directory, and nothing else.
LEMMA ReplaysFound ==
  ASSUME Steady, WorldTypes, RunTypes, NEW s, Walk(s), run.scope = s, run.index = index,
         NEW d \in Dirs, NEW l, NEW t, Replays(d, l, t), Right(d, l)
  PROVE  /\ \A x \in Dirs : Collected(s, x)'
         /\ run'.files \subseteq Expected(s)
         /\ every(s) => {p \in run'.visited : source_file(s, p)} \subseteq run'.files
<1>1. /\ tree' = tree /\ exclude' = exclude /\ index' = index
      /\ run'.visits[d].step = "done" /\ run.visits[d].step \notin {"no", "done"}
      /\ \A y \in Dirs : y # d /\ ~Leads(d, l, y) => run'.visits[y] = run.visits[y]
      /\ \A y \in Dirs : Leads(d, l, y) =>
            /\ y # d /\ run'.visits[y].step = "queued" /\ ancestors(y) = ancestors(d) \cup {d}
  BY ReplaysSteps DEF WorldTypes
<1>2. PICK r : r = run'
  OBVIOUS
<1>3. Finds(d, l, r)
  BY <1>2 DEF Replays
<1>4. /\ run.files \subseteq r.files /\ run.visited \subseteq r.visited
      /\ ~Nested(d) => Sought(s, d) \subseteq r.files
      /\ \A p \in r.files : \/ p \in run.files
                            \/ /\ ~Nested(d) /\ p \in Kids(d) /\ ~Ignored(p)
                               /\ source_file(s, p) /\ (every(s) \/ p \notin Tracked(index))
      /\ every(s) => \A p \in r.visited : p \in run.visited \/ (source_file(s, p) => p \in r.files)
  BY <1>3, RightFinds
<1>5. r.failed = run.failed
  BY <1>3 DEF Finds
<1>6. ASSUME NEW x \in Dirs, r.visits[x].step = "done", ~Nested(x), ~r.failed
      PROVE  Sought(s, x) \subseteq r.files
  <2>1. CASE x = d
    BY <1>4, <1>6, <2>1
  <2>2. CASE x # d
    <3>1. run.visits[x].step = "done"
      BY <1>1, <1>2, <1>6, <2>2
    <3>2. Collected(s, x)
      BY DEF Walk
    <3> QED
      BY <1>4, <1>5, <1>6, <3>1, <3>2 DEF Collected
  <2> QED
    BY <2>1, <2>2
<1>7. \A x \in Dirs : Collected(s, x)'
  BY <1>1, <1>2, <1>6, StandsTruth DEF Collected
<1>8. ASSUME NEW p \in r.files PROVE p \in Expected(s)
  <2>1. CASE p \in run.files
    BY <2>1 DEF Walk
  <2>2. CASE p \notin run.files
    <3>1. ~Nested(d) /\ p \in Kids(d) /\ ~Ignored(p) /\ source_file(s, p)
          /\ (every(s) \/ p \notin Tracked(index))
      BY <1>4, <1>8, <2>2
    <3>2. Entered(s, d) /\ run.visits[d].step # "no"
      BY <1>1 DEF Walk
    <3>3. Reached(s, d) /\ Present(p) /\ Parent(p) = d
      BY <3>1, <3>2, ReachedIs, KidIs
    <3>4. CASE p \notin Tracked(index)
      BY <3>1, <3>3, <3>4 DEF Expected, Untracked, source_file
    <3>5. CASE p \in Tracked(index)
      BY <3>1, <3>3, <3>5 DEF Expected
    <3> QED
      BY <3>4, <3>5
  <2> QED
    BY <2>1, <2>2
<1>9. ASSUME every(s), NEW p \in r.visited, source_file(s, p) PROVE p \in r.files
  BY <1>4, <1>9 DEF Walk
<1> QED
  BY <1>2, <1>7, <1>8, <1>9

\* A visit passes no directory by that is to be reached.
LEMMA ReplaysAhead ==
  ASSUME Steady, WorldTypes, RunTypes, NEW s, Walk(s), run.scope = s,
         NEW d \in Dirs, NEW l, NEW t, Replays(d, l, t), Right(d, l)
  PROVE  Ahead(s)'
<1>1. /\ tree' = tree /\ exclude' = exclude /\ index' = index
      /\ run'.visits[d].step = "done" /\ run.visits[d].step \notin {"no", "done"}
      /\ \A y \in Dirs : y # d /\ ~Leads(d, l, y) => run'.visits[y] = run.visits[y]
      /\ \A y \in Dirs : Leads(d, l, y) =>
            /\ y # d /\ run'.visits[y].step = "queued" /\ ancestors(y) = ancestors(d) \cup {d}
  BY ReplaysSteps DEF WorldTypes
<1>2. run'.failed = run.failed
  BY DEF Replays, Finds
<1>3. ASSUME ~run.failed, NEW x \in Dirs, Reached(s, x)
      PROVE  \/ run'.visits[x].step # "no"
             \/ \E e \in ancestors(x) : run'.visits[e].step \notin {"no", "done"}
  <2>1. \/ run.visits[x].step # "no"
        \/ \E e \in ancestors(x) : run.visits[e].step \notin {"no", "done"}
    BY <1>3 DEF Walk, Ahead
  <2>2. CASE run.visits[x].step # "no"
    BY <1>1, <2>2
  <2>3. ASSUME NEW e \in ancestors(x), run.visits[e].step \notin {"no", "done"}, e # d
        PROVE  run'.visits[e].step \notin {"no", "done"}
    <3>1. e \in Dirs
      BY DEF ancestors
    <3> QED
      BY <1>1, <2>3, <3>1
  <2>4. CASE d \in ancestors(x)
    <3>1. x \in Paths
      BY PathsAssumption
    <3>2. PICK c \in Paths : c # Root /\ Parent(c) = d /\ (c = x \/ c \in ancestors(x))
      BY <2>4, <3>1, WayDown
    <3>3. c \in Dirs /\ Present(c) /\ ~Ignored(c) /\ enters(s, c) /\ ~Nested(d)
      BY <1>3, <2>4, <3>2 DEF Reached, ancestors
    <3>4. c \in Kids(d) \cap Dirs /\ c # git(d)
      BY <3>2, <3>3, FilesAssumption DEF Kids, Children
    <3>5. ~(l.nested /\ d # Root) /\ c \in l.dirs
      BY <3>3, <3>4, NestedIs DEF Right
    <3>6. Leads(d, l, c)
      BY <3>3, <3>5 DEF Leads
    <3>7. run'.visits[c].step = "queued"
      BY <1>1, <3>3, <3>6
    <3> QED
      BY <3>2, <3>7
  <2> QED
    BY <2>1, <2>2, <2>3, <2>4
<1> QED
  BY <1>1, <1>2, <1>3, StandsTruth DEF Ahead

\* The comparison, while the walk goes on beside it.
LEMMA BesideCompared ==
  ASSUME Compared, tree' = tree, exclude' = exclude, index' = index, run.files \subseteq run'.files,
         run'.compare = run.compare, run'.picked = run.picked, run'.removed = run.removed
  PROVE  Compared'
<1>1. Modified' = Modified /\ (\A p : Present(p)' <=> Present(p)) /\ Tracked(index)' = Tracked(index)
  BY StandsTruth
<1>2. \A p : Vouched(index, p)' <=> Vouched(index, p)
  BY DEF Vouched, Present
<1> QED
  BY <1>1, <1>2 DEF Compared

\* A listing that is replayed keeps the walk right.
LEMMA ReplaysWalk ==
  ASSUME Steady, WorldTypes, RunTypes, Watchful, NEW s, Walk(s), run.scope = s, run.index = index,
         NEW d \in Dirs, NEW l, NEW t, Replays(d, l, t), queue' = queue
  PROVE  Walk(s)'
<1>1. Right(d, l)
  BY ReplaysRight
<1>2. tree' = tree /\ exclude' = exclude /\ index' = index
  BY ReplaysSteps DEF WorldTypes
<1>3. \A x \in Dirs : Entered(s, x)'
  BY <1>1, ReplaysEntered DEF WorldTypes
<1>4. (\A x \in Dirs : Current(x)') /\ (run'.exclude # None => run'.exclude = exclude'.data)
  BY ReplaysCurrent DEF WorldTypes
<1>5. /\ \A x \in Dirs : Collected(s, x)'
      /\ run'.files \subseteq Expected(s)
      /\ every(s) => {p \in run'.visited : source_file(s, p)} \subseteq run'.files
  BY <1>1, ReplaysFound
<1>6. Ahead(s)'
  BY <1>1, ReplaysAhead
<1>7. mem'.context = mem.context
  BY DEF Replays, Visits
<1>8. PICK r : r = run'
  OBVIOUS
<1>9. Finds(d, l, r)
  BY <1>8 DEF Replays
<1>10. /\ run.files \subseteq r.files /\ r.compare = run.compare /\ r.picked = run.picked
       /\ r.removed = run.removed
  BY <1>1, <1>9, RightFinds DEF Finds
<1>11. ~every(s) => Compared'
  BY <1>2, <1>8, <1>10, BesideCompared DEF Walk
<1>12. /\ queue' = NoQueue /\ mem'.context = [exclude |-> StampOf(exclude)]
       /\ every(s) => run'.compare = "done"
  BY <1>7, <1>8, <1>10 DEF Walk
<1>13. Expected(s)' = Expected(s)
  BY <1>2, StandsTruth
<1> QED
  BY <1>2, <1>3, <1>4, <1>5, <1>6, <1>11, <1>12, <1>13 DEF Walk

\* So does a step of a visit that waits.
LEMMA WaitsWalk ==
  ASSUME NEW s, Walk(s), NEW d \in Dirs, Waits(d),
         tree' = tree, exclude' = exclude, index' = index, queue' = queue
  PROVE  Walk(s)'
<1>1. /\ \A x \in Dirs : Rules(x)' = Rules(x)
      /\ \A x \in Dirs : x # d => run'.visits[x] = run.visits[x]
      /\ run.visits[d].step # "no" /\ run'.visits[d].step # "no"
  BY DEF Waits, Rules, old
<1>2. Entered(s, d) /\ Present(d)
  BY <1>1 DEF Walk, Entered
<1>3. \/ /\ run'.visits[d].step \in {"stat", "listed"} /\ run'.failed = run.failed
         /\ run'.visits[d].step = "listed" => /\ run'.visits[d].entries = Kids(d)
                                              /\ run'.visits[d].rules = RulesStamp(d)
      \/ run'.failed = TRUE /\ run'.visits[d].step = "done"
  BY <1>2 DEF Waits
<1>4. ASSUME NEW x \in Dirs PROVE Entered(s, x)'
  <2>1. Entered(s, x) /\ (run.visits[x].step = "no" <=> run'.visits[x].step = "no")
    BY <1>1 DEF Walk
  <2>2. \A e \in ancestors(x) : Rules(e)' = Rules(e)
    BY <1>1 DEF ancestors
  <2> QED
    BY <2>1, <2>2, StandsTruth DEF Entered
<1>5. ASSUME NEW x \in Dirs PROVE Current(x)'
  <2>1. run'.visits[x].step = "listed" => run'.visits[x].entries = Kids(x)
                                          /\ run'.visits[x].rules = RulesStamp(x)
    <3>1. CASE x = d
      BY <1>3, <3>1
    <3>2. CASE x # d
      BY <1>1, <3>2 DEF Walk, Current
    <3> QED
      BY <3>1, <3>2
  <2>2. run'.layers[x] # None => run'.layers[x] = Layers[x]
    BY DEF Waits, Walk, Current
  <2> QED
    BY <2>1, <2>2, StandsTruth DEF Current
<1>6. run'.failed # TRUE => run'.failed = run.failed /\ run'.visits[d].step \in {"stat", "listed"}
  BY <1>3
<1>7. ASSUME NEW x \in Dirs PROVE Collected(s, x)'
  <2>1. ASSUME run'.visits[x].step = "done", ~Nested(x), ~run'.failed
        PROVE  Sought(s, x) \subseteq run'.files
    <3>1. x # d /\ run'.failed = run.failed
      BY <1>3, <2>1
    <3>2. Collected(s, x) /\ run'.files = run.files
      BY DEF Walk, Waits
    <3> QED
      BY <1>1, <2>1, <3>1, <3>2 DEF Collected
  <2> QED
    BY <2>1, StandsTruth DEF Collected
<1>8. Ahead(s)'
  <2>1. ASSUME ~run'.failed, NEW x \in Dirs, Reached(s, x)
        PROVE  \/ run'.visits[x].step # "no"
               \/ \E e \in ancestors(x) : run'.visits[e].step \notin {"no", "done"}
    <3>1. run'.failed = run.failed /\ run'.visits[d].step \notin {"no", "done"}
      BY <1>3, <2>1
    <3>2. \/ run.visits[x].step # "no"
          \/ \E e \in ancestors(x) : run.visits[e].step \notin {"no", "done"}
      BY <2>1, <3>1 DEF Walk, Ahead
    <3> QED
      BY <1>1, <3>1, <3>2 DEF ancestors
  <2> QED
    BY <2>1, StandsTruth DEF Ahead
<1>9. /\ run'.files = run.files /\ run'.visited = run.visited /\ run'.compare = run.compare
      /\ run'.picked = run.picked /\ run'.removed = run.removed /\ run'.exclude = run.exclude
      /\ mem' = mem
  BY DEF Waits
<1>10. ~every(s) => Compared'
  BY <1>9, BesideCompared DEF Walk
<1>11. Expected(s)' = Expected(s)
  BY StandsTruth
<1>12. /\ queue' = NoQueue /\ mem'.context = [exclude |-> StampOf(exclude')]
       /\ run'.exclude # None => run'.exclude = exclude'.data
       /\ run'.files \subseteq Expected(s)
       /\ every(s) => run'.compare = "done" /\ {p \in run'.visited : source_file(s, p)} \subseteq run'.files
  BY <1>9 DEF Walk
<1> QED
  BY <1>4, <1>5, <1>7, <1>8, <1>10, <1>11, <1>12 DEF Walk

\* Every step of a visit in a run that nothing disturbs.
LEMMA VisitUndisturbed ==
  ASSUME Sound, Watchful, Undisturbed, NEW d \in Dirs, Visit(d)
  PROVE  Undisturbed'
<1>1. /\ WorldTypes /\ Inodes /\ RunTypes /\ Stores /\ Memorised /\ Walking
  BY DEF Sound
<1>2. VisitFrame
  BY <1>1, VisitIs
<1>3. /\ tree' = tree /\ exclude' = exclude /\ index' = index /\ queue' = queue
      /\ quiet' = quiet /\ behind' = behind /\ run.phase = "walk" /\ run'.phase = "walk"
      /\ run'.scope = run.scope /\ run'.index = run.index
  BY <1>2 DEF VisitFrame, world
<1>4. SUFFICES ASSUME quiet', ~behind' PROVE Undisturbed'
  BY DEF Undisturbed
<1>5. Steady
  BY <1>1, <1>3, <1>4 DEF Steady
<1>6. PICK s \in Scopes : run.scope = s /\ run.index = index /\ Walk(s)
  BY <1>3, <1>4 DEF Undisturbed
<1>7. Walk(s)'
  <2>1. CASE Waits(d)
    BY <1>3, <1>6, <2>1, WaitsWalk
  <2>2. CASE \E l, t : Replays(d, l, t)
    <3>1. PICK l, t : Replays(d, l, t)
      BY <2>2
    <3> QED
      BY <1>1, <1>3, <1>5, <1>6, <3>1, ReplaysWalk
  <2> QED
    BY <1>1, <1>5, <2>1, <2>2, VisitCases
<1> QED
  BY <1>3, <1>6, <1>7 DEF Undisturbed

\* A run begins on the repository's index as it is.
LEMMA StartUndisturbed ==
  ASSUME KeptIsOld, NEW scope \in Scopes, Start(scope)
  PROVE  Undisturbed'
<1>1. run' = [Idle EXCEPT !.phase = "open", !.scope = scope, !.index = Opened] /\ index' = index
  BY DEF Start, world
<1>2. Opened = index
  BY DEF Opened, KeptIsOld
<1>3. PICK ix : ix = Opened
  OBVIOUS
<1>4. /\ run'.phase = "open" /\ run'.scope = scope /\ run'.index = ix
      /\ run'.files = {} /\ run'.visited = {}
  BY <1>1, <1>3 DEF Idle
<1> QED
  BY <1>1, <1>2, <1>3, <1>4 DEF Undisturbed

\* A scope that names tracked files covers nothing else.
LEMMA NamesExpected ==
  ASSUME NEW s, s.paths # None, s.paths \subseteq Tracked(index)
  PROVE  Expected(s) = {p \in s.paths : source_file(s, p) /\ Present(p)}
<1>1. every(s)
  BY DEF every
<1>2. ASSUME NEW p \in Paths, covers_path(s, p) PROVE p \in s.paths
  <2>1. PICK q \in s.paths : is_under(p, q)
    BY <1>2 DEF covers_path
  <2>2. q \in Files
    BY <2>1 DEF Tracked
  <2> QED
    BY <1>2, <2>1, <2>2, UnderFile
<1>3. Untracked(s) = {}
  BY <1>2, FilesAssumption DEF Untracked, Files
<1>4. \A p \in Tracked(index) : source_file(s, p) => p \in s.paths
  BY <1>2 DEF Tracked, Files, source_file
<1> QED
  BY <1>1, <1>3, <1>4 DEF Expected

\* A run over tracked files finds those.
LEMMA NamesUndisturbed ==
  ASSUME RunTypes, Undisturbed, NamesTracked
  PROVE  Undisturbed'
<1>1. /\ run.phase = "open" /\ OnlyTracked /\ tree' = tree /\ exclude' = exclude /\ index' = index
      /\ quiet' = quiet /\ behind' = behind
  BY DEF NamesTracked, world, history
<1>2. SUFFICES ASSUME quiet', ~behind' PROVE Undisturbed'
  BY DEF Undisturbed
<1>3. PICK s \in Scopes : run.scope = s /\ run.index = index
  BY <1>1, <1>2 DEF Undisturbed
<1>4. PICK fs : fs = {p \in s.paths : source_file(s, p) /\ Present(p)}
  OBVIOUS
<1>5. run' = [run EXCEPT !.phase = "done", !.files = fs]
  BY <1>3, <1>4 DEF NamesTracked
<1>6. run'.phase = "done" /\ run'.files = fs /\ run'.scope = s /\ run'.index = index'
  BY <1>1, <1>3, <1>5 DEF RunTypes
<1>7. fs = Expected(s)
  BY <1>1, <1>3, <1>4, NamesExpected DEF OnlyTracked
<1>8. run'.files = Expected(s)'
  BY <1>1, <1>6, <1>7, StandsTruth
<1> QED
  BY <1>6, <1>8 DEF Undisturbed

\* The walk begins, with no report left.
LEMMA BeginUndisturbed ==
  ASSUME Sound, Undisturbed, Begin
  PROVE  Undisturbed'
<1>1. /\ run.phase = "open" /\ tree' = tree /\ exclude' = exclude /\ index' = index
      /\ quiet' = quiet /\ behind' = behind /\ queue' = NoQueue
  BY DEF Begin, world
<1>2. SUFFICES ASSUME quiet', ~behind' PROVE Undisturbed'
  BY DEF Undisturbed
<1>3. PICK s \in Scopes : run.scope = s /\ run.index = index /\ run.files = {} /\ run.visited = {}
  BY <1>1, <1>2 DEF Undisturbed
<1>4. /\ mem'.context = [exclude |-> StampOf(exclude)]
      /\ run'.phase = "walk" /\ run'.scope = run.scope /\ run'.index = run.index
      /\ run'.files = run.files /\ run'.visited = run.visited /\ run'.exclude = None
      /\ run'.visits[Root].step = "queued"
      /\ \A d \in Dirs : /\ d # Root => run'.visits[d].step = "no"
                         /\ run'.layers[d] = None
      /\ run'.compare = IF every(run.scope) THEN "done" ELSE "pick"
  BY BeginRun DEF Sound
<1>5. Root \in Dirs /\ Root \in Paths /\ Present(Root) /\ ancestors(Root) = {}
  BY PathsAssumption, AncestorsOf DEF Sound, Rooted
<1>6. \A x \in Dirs : Entered(s, x)'
  BY <1>1, <1>4, <1>5, StandsTruth DEF Entered
<1>7. \A x \in Dirs : run'.visits[x].step \notin {"listed", "done"}
  BY <1>4
<1>8. \A x \in Dirs : Current(x)' /\ Collected(s, x)'
  BY <1>4, <1>7 DEF Current, Collected
<1>9. Ahead(s)'
  <2>1. ASSUME NEW x \in Dirs
        PROVE  \/ run'.visits[x].step # "no"
               \/ \E e \in ancestors(x) : run'.visits[e].step \notin {"no", "done"}
    <3>1. x # Root => Root \in ancestors(x)
      BY <1>5, PathsAssumption, AncestorsOf DEF ancestors
    <3> QED
      BY <1>4, <3>1
  <2> QED
    BY <2>1 DEF Ahead
<1>10. every(s) => run'.compare = "done" /\ {p \in run'.visited : source_file(s, p)} \subseteq run'.files
  BY <1>3, <1>4
<1>11. ~every(s) => Compared'
  BY <1>3, <1>4 DEF Compared
<1>12. Walk(s)'
  BY <1>1, <1>3, <1>4, <1>6, <1>8, <1>9, <1>10, <1>11 DEF Walk
<1> QED
  BY <1>1, <1>3, <1>4, <1>12 DEF Undisturbed

-----------------------------------------------------------------------------

\* The walk, beside a step of the comparison.
LEMMA BesideWalk ==
  ASSUME NEW s, Walk(s), ~every(s), tree' = tree, exclude' = exclude, index' = index, queue' = queue,
         mem' = mem, run'.visits = run.visits, run'.seen = run.seen, run'.layers = run.layers,
         run'.exclude = run.exclude, run'.failed = run.failed, run.files \subseteq run'.files,
         run'.files \subseteq Expected(s), Compared'
  PROVE  Walk(s)'
<1>1. \A x : Rules(x)' = Rules(x)
  BY DEF Rules, old
<1>2. \A x \in Dirs : Entered(s, x)'
  BY <1>1, StandsTruth DEF Entered, Walk
<1>3. \A x \in Dirs : Current(x)'
  BY StandsTruth DEF Current, Walk
<1>4. ASSUME NEW x \in Dirs PROVE Collected(s, x)'
  <2>1. Collected(s, x)
    BY DEF Walk
  <2> QED
    BY <2>1, StandsTruth DEF Collected
<1>5. Ahead(s)'
  BY StandsTruth DEF Ahead, Walk
<1>6. Expected(s)' = Expected(s)
  BY StandsTruth
<1>7. queue' = NoQueue /\ mem'.context = [exclude |-> StampOf(exclude')]
      /\ (run'.exclude # None => run'.exclude = exclude'.data)
  BY DEF Walk
<1> QED
  BY <1>2, <1>3, <1>4, <1>5, <1>6, <1>7 DEF Walk

\* What the comparison picks is all that may differ.
LEMMA PickUndisturbed ==
  ASSUME Sound, Watchful, Undisturbed, Pick
  PROVE  Undisturbed'
<1>1. /\ run.phase = "walk" /\ run.compare = "pick" /\ tree' = tree /\ exclude' = exclude
      /\ index' = index /\ quiet' = quiet /\ behind' = behind /\ queue' = queue /\ mem' = mem
  BY DEF Pick, world
<1>2. SUFFICES ASSUME quiet', ~behind' PROVE Undisturbed'
  BY DEF Undisturbed
<1>3. PICK s \in Scopes : run.scope = s /\ run.index = index /\ Walk(s)
  BY <1>1, <1>2 DEF Undisturbed
<1>4. ~every(s) /\ run.files \subseteq Expected(s) /\ queue = NoQueue
  BY <1>1, <1>3 DEF Walk
<1>5. PICK c, picked : /\ run' = [run EXCEPT !.compare = c, !.picked = picked]
                       /\ \/ c = "stat" /\ picked = Tracked(index)
                          \/ /\ c = "watched" /\ picked \subseteq Tracked(index)
                             /\ \A p \in Tracked(index) \ picked : Vouched(index, p)
  <2>1. CASE watch = None
    BY <1>3, <2>1 DEF Pick
  <2>2. CASE watch # None
    <3>1. PICK same, picked :
            /\ same = (watch.baseline # None /\ watch.baseline.index = run.index)
            /\ picked = IF same THEN watch.baseline.recheck \cup reported(watch.touched)
                        ELSE Tracked(run.index)
      OBVIOUS
    <3>2. \/ run' = [run EXCEPT !.compare = "watched", !.picked = picked]
          \/ run' = [run EXCEPT !.compare = "stat", !.picked = Tracked(run.index)]
      BY <2>2, <3>1 DEF Pick
    <3>3. Baseline
      BY <1>1, <1>2, <2>2 DEF Watchful, Picking
    <3>4. picked \subseteq Tracked(run.index)
      BY <3>1, <3>3 DEF Baseline, reported
    <3>5. ASSUME NEW p \in Tracked(run.index) \ picked PROVE Vouched(run.index, p)
      <4>1. same /\ p \notin watch.baseline.recheck \cup reported(watch.touched)
        BY <3>1, <3>5
      <4>2. Spared(run.index, p)
        BY <3>1, <3>3, <3>5, <4>1, SparedOf
      <4>3. ~Reported(p)
        BY <1>4 DEF Reported, NoQueue
      <4> QED
        BY <4>2, <4>3 DEF Spared
    <3> QED
      BY <1>3, <3>2, <3>4, <3>5
  <2> QED
    BY <2>1, <2>2
<1>6. /\ run'.phase = "walk" /\ run'.scope = run.scope /\ run'.index = run.index
      /\ run'.visits = run.visits /\ run'.seen = run.seen /\ run'.layers = run.layers
      /\ run'.exclude = run.exclude /\ run'.failed = run.failed /\ run'.files = run.files
      /\ run'.compare = c /\ run'.picked = picked
  BY <1>1, <1>5 DEF Sound, RunTypes
<1>7. Compared'
  <2>1. \A p : Vouched(index, p)' <=> Vouched(index, p)
    BY <1>1 DEF Vouched, Present
  <2>2. Tracked(index)' = Tracked(index)
    BY <1>1
  <2> QED
    BY <1>5, <1>6, <2>1, <2>2 DEF Compared
<1>8. Walk(s)'
  BY <1>1, <1>3, <1>4, <1>6, <1>7, BesideWalk
<1> QED
  BY <1>1, <1>3, <1>6, <1>8 DEF Undisturbed

\* What the look at the suspects finds.
LEMMA StatFinds ==
  ASSUME Racy, NEW picked, NEW suspects, NEW compared, run.index = index,
         picked \subseteq Tracked(index), \A p \in Tracked(index) \ picked : Vouched(index, p),
         suspects = {p \in picked : ~vouched_entry(p)},
         compared = IF Cardinality(suspects) <= SUSPECTS THEN suspects ELSE Tracked(run.index)
  PROVE  /\ status(compared) \cap Sources = Modified
         /\ {p \in compared : ~Present(p)} = {p \in Tracked(index) : ~Present(p)}
<1>1. \A p : vouched_entry(p) <=> Vouched(index, p)
  BY DEF vouched_entry, Vouched
<1>2. suspects \subseteq compared /\ compared \subseteq Tracked(index)
  OBVIOUS
<1>3. \A p \in Tracked(index) : ~Vouched(index, p) => p \in compared
  BY <1>1, <1>2
<1>4. \A p \in Tracked(index) : ~Present(p) => ~Vouched(index, p)
  BY DEF Vouched
<1>5. \A p \in Modified : ~Vouched(index, p) /\ p \in Tracked(index)
  BY DEF Modified, Vouched, Racy
<1> QED
  BY <1>2, <1>3, <1>4, <1>5 DEF Modified, status

\* The comparison finds what differs.
LEMMA StatUndisturbed ==
  ASSUME Sound, Undisturbed, Stat
  PROVE  Undisturbed'
<1>1. /\ run.phase = "walk" /\ run.compare \in {"stat", "watched"} /\ tree' = tree
      /\ exclude' = exclude /\ index' = index /\ quiet' = quiet /\ behind' = behind
      /\ queue' = queue /\ mem' = mem
  BY DEF Stat, world, history
<1>2. SUFFICES ASSUME quiet', ~behind' PROVE Undisturbed'
  BY DEF Undisturbed
<1>3. PICK s \in Scopes : run.scope = s /\ run.index = index /\ Walk(s)
  BY <1>1, <1>2 DEF Undisturbed
<1>4. ~every(s) /\ run.files \subseteq Expected(s)
  BY <1>1, <1>3 DEF Walk
<1>5. PICK suspects, compared, fs, gone :
        /\ suspects = {p \in run.picked : ~vouched_entry(p)}
        /\ compared = IF Cardinality(suspects) <= SUSPECTS THEN suspects ELSE Tracked(run.index)
        /\ fs = run.files \cup (status(compared) \cap Sources)
        /\ gone = {p \in compared : ~Present(p)}
  OBVIOUS
<1>6. run' = [run EXCEPT !.compare = "done", !.picked = {}, !.files = fs, !.removed = gone]
  BY <1>5 DEF Stat
<1>7. /\ run'.phase = "walk" /\ run'.scope = run.scope /\ run'.index = run.index
      /\ run'.visits = run.visits /\ run'.seen = run.seen /\ run'.layers = run.layers
      /\ run'.exclude = run.exclude /\ run'.failed = run.failed /\ run'.files = fs
      /\ run'.compare = "done" /\ run'.removed = gone
  BY <1>1, <1>6 DEF Sound, RunTypes
<1>8. run.picked \subseteq Tracked(index) /\ \A p \in Tracked(index) \ run.picked : Vouched(index, p)
  BY <1>1, <1>3, <1>4 DEF Walk, Compared
<1>9. PICK picked : picked = run.picked
  OBVIOUS
<1>10. status(compared) \cap Sources = Modified /\ gone = {p \in Tracked(index) : ~Present(p)}
  BY <1>3, <1>5, <1>8, <1>9, StatFinds DEF Sound
<1>11. Modified \subseteq Expected(s)
  BY <1>4 DEF Modified, Expected
<1>12. run.files \subseteq fs /\ fs \subseteq Expected(s) /\ Modified \subseteq fs
  BY <1>4, <1>5, <1>10, <1>11
<1>13. Compared'
  BY <1>1, <1>7, <1>10, <1>12, StandsTruth DEF Compared
<1>14. Walk(s)'
  BY <1>1, <1>3, <1>4, <1>7, <1>12, <1>13, BesideWalk
<1> QED
  BY <1>1, <1>3, <1>7, <1>14 DEF Undisturbed

\* What is remembered of the index against HEAD is what a comparison would find.
LEMMA StagedAre ==
  ASSUME StagedTrue, mem.stored # None
  PROVE  StagedFiles = StagedIn(run.index)
<1>1. PICK st, ix : st = mem.stored.staged /\ ix = run.index
  OBVIOUS
<1>2. PICK known : known = staged(mem, HEAD, run.index)
  OBVIOUS
<1>3. known = IF st # None /\ st.tree = HEAD /\ st.index = ix THEN st.paths ELSE None
  BY <1>1, <1>2 DEF staged
<1>4. st # None => st.paths = StagedIn(st.index)
  BY <1>1 DEF StagedTrue
<1>5. StagedFiles = IF known = None THEN StagedIn(ix) ELSE known
  BY <1>1, <1>2 DEF StagedFiles
<1> QED
  BY <1>1, <1>3, <1>4, <1>5

\* A walk that is done has reached all that is to be reached.
LEMMA WalkedFinds ==
  ASSUME NEW s, Walk(s), Walked, ~run.failed, NEW p \in Untracked(s)
  PROVE  p \in run.files
<1>1. /\ p \in Sources /\ Present(p) /\ Reached(s, Parent(p)) /\ ~Ignored(p) /\ covers_path(s, p)
      /\ p \notin Tracked(index)
  BY DEF Untracked
<1>2. p \in Paths /\ p # Root
  BY <1>1, FilesAssumption, PathsAssumption DEF Files
<1>3. PICK d : d = Parent(p)
  OBVIOUS
<1>4. d \in Dirs /\ p \in Kids(d)
  BY <1>1, <1>2, <1>3, ParentAbove DEF Kids, Children
<1>5. \A e \in ancestors(d) : run.visits[e].step \in {"no", "done"}
  BY DEF Walked, ancestors
<1>6. run.visits[d].step # "no"
  BY <1>1, <1>3, <1>4, <1>5 DEF Walk, Ahead
<1>7. run.visits[d].step = "done"
  BY <1>4, <1>6 DEF Walked
<1>8. ~Nested(d)
  BY <1>1, <1>3 DEF Reached
<1>9. p \in Sought(s, d)
  BY <1>1, <1>4 DEF Sought
<1>10. Collected(s, d)
  BY <1>4 DEF Walk
<1> QED
  BY <1>7, <1>8, <1>9, <1>10 DEF Collected

\* What the three comparisons found together is what there is to find.
LEMMA SettleFinds ==
  ASSUME StagedTrue, mem.stored # None, NEW s, run.scope = s, run.index = index,
         Walk(s), Walked, ~run.failed
  PROVE  Found = Expected(s)
<1>1. Untracked(s) \subseteq run.files /\ run.files \subseteq Expected(s)
  BY WalkedFinds DEF Walk
<1>2. CASE every(s)
  <2>1. PICK left : left = {p \in Tracked(index) \ run.visited : source_file(s, p) /\ Present(p)}
    OBVIOUS
  <2>2. Found = run.files \cup left
    BY <1>2, <2>1 DEF Found, unvisited
  <2>3. Expected(s) = Untracked(s) \cup {p \in Tracked(index) : source_file(s, p) /\ Present(p)}
    BY <1>2 DEF Expected
  <2>4. {p \in run.visited : source_file(s, p)} \subseteq run.files
    BY <1>2 DEF Walk
  <2> QED
    BY <1>1, <2>1, <2>2, <2>3, <2>4
<1>3. CASE ~every(s)
  <2>1. Found = (run.files \cup (StagedIn(index) \cap Sources)) \ run.removed
    BY <1>3, StagedAre DEF Found
  <2>2. Expected(s) = Untracked(s) \cup {p \in Sources \cap (Modified \cup StagedIn(index)) : Present(p)}
    BY <1>3 DEF Expected
  <2>3. Modified \subseteq run.files /\ run.removed = {p \in Tracked(index) : ~Present(p)}
    BY <1>3 DEF Walk, Compared, Walked
  <2>4. StagedIn(index) \subseteq Tracked(index) /\ \A p \in Untracked(s) : Present(p)
    BY DEF StagedIn, Untracked
  <2> QED
    BY <1>1, <2>1, <2>2, <2>3, <2>4
<1> QED
  BY <1>2, <1>3

\* The answer of a run that nothing disturbs.
LEMMA SettleUndisturbed ==
  ASSUME Sound, StagedTrue, Undisturbed, Settle
  PROVE  Undisturbed'
<1>1. /\ run.phase = "walk" /\ Walked /\ tree' = tree /\ exclude' = exclude
      /\ index' = index /\ quiet' = quiet /\ behind' = behind
  BY DEF Settle, Walked, world
<1>2. SUFFICES ASSUME quiet', ~behind' PROVE Undisturbed'
  BY DEF Undisturbed
<1>3. PICK s \in Scopes : run.scope = s /\ run.index = index /\ Walk(s)
  BY <1>1, <1>2 DEF Undisturbed
<1>4. PICK fs, fresh : fs = Found /\ run' = [run EXCEPT !.phase = "settle", !.files = fs, !.fresh = fresh]
  BY DEF Settle
<1>5. /\ run'.phase = "settle" /\ run'.scope = run.scope /\ run'.index = run.index
      /\ run'.files = fs /\ run'.failed = run.failed
  BY <1>4 DEF Sound, RunTypes
<1>6. mem.stored # None
  BY <1>1 DEF Sound, Memorised
<1>7. ~run.failed => fs = Expected(s)
  BY <1>1, <1>3, <1>4, <1>6, SettleFinds
<1>8. ~run'.failed => run'.files = Expected(s)'
  BY <1>1, <1>5, <1>7, StandsTruth
<1> QED
  BY <1>1, <1>3, <1>5, <1>8 DEF Undisturbed

\* The answer stays through the second half of the settle.
LEMMA RecheckUndisturbed ==
  ASSUME Sound, Undisturbed, Recheck
  PROVE  Undisturbed'
<1>1. /\ run.phase = "settle" /\ tree' = tree /\ exclude' = exclude
      /\ index' = index /\ quiet' = quiet /\ behind' = behind
  BY DEF Recheck, world, history
<1>2. SUFFICES ASSUME quiet', ~behind' PROVE Undisturbed'
  BY DEF Undisturbed
<1>3. PICK s \in Scopes : run.scope = s /\ run.index = index /\ (~run.failed => run.files = Expected(s))
  BY <1>1, <1>2 DEF Undisturbed
<1>4. /\ run'.phase = "done" /\ run'.scope = run.scope /\ run'.index = run.index
      /\ run'.files = run.files /\ run'.failed = run.failed
  BY DEF Recheck, Sound, RunTypes
<1>5. ~run'.failed => run'.files = Expected(s)'
  BY <1>1, <1>3, <1>4, StandsTruth
<1> QED
  BY <1>1, <1>3, <1>4, <1>5 DEF Undisturbed

TrueStaged(st) == st # None => st.paths = StagedIn(st.index)

\* A step that stores no comparison with HEAD but those there are.
LEMMA StagedStays ==
  ASSUME StagedTrue,
         store' = store \/ (store' # None /\ store'.staged \in {None, mem.stored.staged, mem.fresh_staged}
                            /\ mem.stored # None),
         \/ mem'.stored \in {None, mem.stored, Stored, store}
         \/ mem'.stored.staged \in {None, mem.stored.staged, mem.fresh_staged} /\ mem.stored # None,
         mem'.fresh_staged \in {None, mem.fresh_staged}
  PROVE  StagedTrue'
<1>1. /\ store # None => TrueStaged(store.staged)
      /\ mem.stored # None => TrueStaged(mem.stored.staged)
      /\ TrueStaged(mem.fresh_staged) /\ TrueStaged(None) /\ Stored.staged = None
  BY DEF StagedTrue, TrueStaged, Stored
<1>2. PICK st, ms, fs : st = store' /\ ms = mem'.stored /\ fs = mem'.fresh_staged
  OBVIOUS
<1>3. st # None => TrueStaged(st.staged)
  BY <1>1, <1>2
<1>4. ms # None => TrueStaged(ms.staged)
  BY <1>1, <1>2
<1>5. TrueStaged(fs)
  BY <1>1, <1>2
<1> QED
  BY <1>2, <1>3, <1>4, <1>5 DEF StagedTrue, TrueStaged

\* At first nothing is remembered of the index against HEAD.
LEMMA InitStaged == Init => StagedTrue
  BY DEF Init, StagedTrue, Open

\* What a run remembers of it is what it compared.
LEMMA SettleStaged ==
  ASSUME Sound, StagedTrue, Settle
  PROVE  StagedTrue'
<1>1. store' = store /\ DOMAIN mem = {"stored", "fresh", "fresh_staged", "context", "trusted", "used", "settled"}
  BY DEF Settle, Sound, RunTypes
<1>2. mem' = mem \/ mem' = remember_staged(mem, NewStaged)
  BY DEF Settle
<1>3. CASE mem' = mem
  BY <1>1, <1>3, StagedStays
<1>4. CASE mem' # mem
  <2>1. mem' = [mem EXCEPT !.fresh_staged = NewStaged]
    BY <1>2, <1>4 DEF remember_staged
  <2>2. PICK n, ix : n = NewStaged /\ ix = run.index
    OBVIOUS
  <2>3. n.paths = StagedIn(ix) /\ n.index = ix
    BY <2>2 DEF NewStaged
  <2>4. mem'.stored = mem.stored /\ mem'.fresh_staged = n
    BY <1>1, <2>1, <2>2
  <2> QED
    BY <1>1, <2>3, <2>4 DEF StagedTrue
<1> QED
  BY <1>3, <1>4

\* So is what it stores.
LEMMA PersistStaged ==
  ASSUME Sound, StagedTrue, Persist
  PROVE  StagedTrue'
<1>1. run.phase = "done" /\ mem' = save(mem) /\ mem.stored # None
      /\ store' = (IF Writes(mem) = None THEN store ELSE Writes(mem))
  BY DEF Persist, Sound, Memorised
<1>2. PICK sv : sv = Saved(mem)
  OBVIOUS
<1>3. sv.staged \in {mem.stored.staged, mem.fresh_staged}
  BY <1>2 DEF Saved
<1>4. mem'.fresh_staged = None
  BY EndRun
<1>5. mem'.stored = IF mem.context = None THEN mem.stored ELSE IF RulesMoved(mem) THEN Stored ELSE sv
  BY <1>1, <1>2 DEF save, Open
<1>6. store' = store \/ (store' = sv /\ sv # None)
  BY <1>1, <1>2 DEF Writes
<1> QED
  BY <1>1, <1>3, <1>4, <1>5, <1>6, StagedStays

\* Every step keeps it true.
LEMMA NextStaged == Sound /\ StagedTrue /\ [Next]_vars => StagedTrue'
<1>1. SUFFICES ASSUME Sound, StagedTrue, [Next]_vars PROVE StagedTrue'
  OBVIOUS
<1>2. ASSUME NEW sc \in Scopes, Start(sc) PROVE StagedTrue'
  <2>1. store' = store /\ mem'.stored \in {mem.stored, store, Stored}
    BY <1>1, <1>2, StartRun DEF Sound, Start
  <2>2. mem'.fresh_staged = mem.fresh_staged
    <3>1. mem' = next_run(load(mem, store), now)
      BY <1>2 DEF Start
    <3>2. PICK m : m = load(mem, store)
      OBVIOUS
    <3>3. m.fresh_staged = mem.fresh_staged /\ DOMAIN m = DOMAIN mem
      BY <1>1, <3>2 DEF load, Sound, RunTypes
    <3> QED
      BY <1>1, <3>1, <3>2, <3>3 DEF next_run, Sound, RunTypes
  <2> QED
    BY <1>1, <2>1, <2>2, StagedStays
<1>3. CASE NamesTracked \/ Compare \/ Recheck
  <2>1. store' = store /\ mem' = mem
    BY <1>3 DEF NamesTracked, session, Compare, Pick, Stat, Recheck
  <2> QED
    BY <1>1, <2>1, StagedStays
<1>4. CASE Begin
  <2>1. store' = store /\ mem'.stored = mem.stored /\ mem'.fresh_staged = mem.fresh_staged
    BY <1>1, <1>4, BeginRun DEF Sound, Begin
  <2> QED
    BY <1>1, <2>1, StagedStays
<1>5. ASSUME NEW d \in Dirs, Visit(d) PROVE StagedTrue'
  <2>1. VisitFrame
    BY <1>1, <1>5, VisitIs DEF Sound
  <2> QED
    BY <1>1, <2>1, StagedStays DEF VisitFrame
<1>6. CASE Settle
  BY <1>1, <1>6, SettleStaged
<1>7. CASE Persist
  BY <1>1, <1>7, PersistStaged
<1>8. CASE Restart
  <2>1. store' = store /\ mem' = Open
    BY <1>8 DEF Restart, NewSession
  <2>2. mem'.stored = None /\ mem'.fresh_staged = None
    BY <2>1 DEF Open
  <2> QED
    BY <1>1, <2>1, <2>2, StagedStays
<1>9. CASE Change
  <2>1. store' = store /\ mem' = mem
    BY <1>9, ChangeSession
  <2> QED
    BY <1>1, <2>1, StagedStays
<1>10. CASE UNCHANGED vars
  BY <1>1, <1>10, StagedStays DEF vars, session
<1> QED
  BY <1>1, <1>2, <1>3, <1>4, <1>5, <1>6, <1>7, <1>8, <1>9, <1>10 DEF Next

-----------------------------------------------------------------------------

\* No run is under way at first.
LEMMA InitUndisturbed == Init => Undisturbed
  BY DEF Init, Undisturbed

\* Every change ends the quiet of a run.
LEMMA ChangeDisturbs ==
  ASSUME Change, quiet'
  PROVE  run.phase = "idle"
<1>1. Tick \/ quiet' = FALSE
  BY DEF Change, Create, Delete, Write, Swap, MoveAway, GitAdd, WriteExclude, Edit
<1> QED
  BY <1>1 DEF Tick

\* Every step keeps a run that nothing disturbs right.
LEMMA NextUndisturbed ==
  Sound /\ Watchful /\ StagedTrue /\ Undisturbed /\ [Next]_vars => Undisturbed'
<1>1. SUFFICES ASSUME Sound, Watchful, StagedTrue, Undisturbed, [Next]_vars PROVE Undisturbed'
  OBVIOUS
<1>2. ASSUME NEW sc \in Scopes, Start(sc) PROVE Undisturbed'
  BY <1>1, <1>2, StartUndisturbed DEF Sound
<1>3. CASE NamesTracked
  BY <1>1, <1>3, NamesUndisturbed DEF Sound
<1>4. CASE Begin
  BY <1>1, <1>4, BeginUndisturbed
<1>5. ASSUME NEW d \in Dirs, Visit(d) PROVE Undisturbed'
  BY <1>1, <1>5, VisitUndisturbed
<1>6. CASE Compare
  BY <1>1, <1>6, PickUndisturbed, StatUndisturbed DEF Compare
<1>7. CASE Settle
  BY <1>1, <1>7, SettleUndisturbed
<1>8. CASE Recheck
  BY <1>1, <1>8, RecheckUndisturbed
<1>9. CASE Persist \/ Restart
  <2>1. run'.phase = "idle"
    BY <1>9, EndRun DEF Idle
  <2> QED
    BY <2>1 DEF Undisturbed
<1>10. CASE Change
  <2>1. quiet' => run'.phase = "idle"
    BY <1>10, ChangeDisturbs, ChangeSession
  <2> QED
    BY <2>1 DEF Undisturbed
<1>11. CASE UNCHANGED vars
  <2>1. /\ run' = run /\ quiet' = quiet /\ behind' = behind /\ tree' = tree /\ exclude' = exclude
        /\ index' = index /\ queue' = queue /\ mem' = mem
    BY <1>11 DEF vars, world, history, session
  <2>2. SUFFICES ASSUME quiet', ~behind', run'.phase # "idle" PROVE Undisturbed'
    BY DEF Undisturbed
  <2>3. PICK s \in Scopes :
          /\ run.scope = s /\ run.index = index
          /\ run.phase = "open" => run.files = {} /\ run.visited = {}
          /\ run.phase = "walk" => Walk(s)
          /\ run.phase \in {"settle", "done"} /\ ~run.failed => run.files = Expected(s)
    BY <1>1, <2>1, <2>2 DEF Undisturbed
  <2>4. run.phase = "walk" => Walk(s)'
    <3>1. ASSUME Walk(s) PROVE Walk(s)'
      <4>1. \A x : Rules(x)' = Rules(x)
        BY <2>1 DEF Rules, old
      <4>2. Compared => Compared'
        BY <2>1, BesideCompared
      <4>3. \A x \in Dirs : Entered(s, x)' /\ Current(x)' /\ Collected(s, x)'
        BY <2>1, <3>1, <4>1, StandsTruth DEF Entered, Current, Collected, Walk
      <4>4. Ahead(s)' /\ Expected(s)' = Expected(s)
        BY <2>1, <3>1, StandsTruth DEF Ahead, Walk
      <4> QED
        BY <2>1, <3>1, <4>2, <4>3, <4>4 DEF Walk
    <3> QED
      BY <2>3, <3>1
  <2>5. Expected(s)' = Expected(s)
    BY <2>1, StandsTruth
  <2> QED
    BY <2>1, <2>3, <2>4, <2>5 DEF Undisturbed
<1> QED
  BY <1>1, <1>2, <1>3, <1>4, <1>5, <1>6, <1>7, <1>8, <1>9, <1>10, <1>11 DEF Next

\* A run that nothing disturbs finds what there is to find (discover_with).
THEOREM AlwaysFindsAll == Spec => []FindsAll
<1>1. Init => Sound /\ Watchful /\ StagedTrue /\ Undisturbed
  BY InitSound, InitWatchful, InitStaged, InitUndisturbed
<1>2. Sound /\ Watchful /\ StagedTrue /\ Undisturbed /\ [Next]_vars
      => Sound' /\ Watchful' /\ StagedTrue' /\ Undisturbed'
  BY NextSound, NextWatchful, NextStaged, NextUndisturbed
<1>3. Undisturbed => FindsAll
  BY DEF Undisturbed, FindsAll, Ended
<1> QED
  BY <1>1, <1>2, <1>3, PTL DEF Spec
=============================================================================
