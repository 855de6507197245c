---------------------------- MODULE DelDirProofs ----------------------------
(* Where del_dir reaches and what it leaves: for every tree of files and   *)
(* every directory in it, whatever readdir returns first and whatever      *)
(* system call fails.                                                      *)
EXTENDS DelDir, SequenceTheorems, TLAPS

(* What exists lies in a directory that exists.                            *)
Shaped(tree) ==
    \A p \in DOMAIN tree :
        /\ p \in Seq(STRING) /\ p # <<>>
        /\ Parent(p) = <<>> \/ (Parent(p) \in DOMAIN tree /\ tree[Parent(p)] \in DirKinds)

(* The directory of a call lies in the one to remove, and so do the paths  *)
(* made from it: "." and ".." are names like all others, but never used.   *)
Inside(frame) ==
    /\ frame.dir \in Seq(STRING) /\ Within(frame.dir, Top)
    /\ frame.unread \ Dots \subseteq STRING

Frame == [dir : Seq(STRING), owned : BOOLEAN, unread : SUBSET (STRING \cup Dots)]
DirInv ==
    /\ Shaped(files)
    /\ frames \in Seq(Frame)
    /\ \A n \in 1..Len(frames) : Inside(frames[n])
----------------------------------------------------------------------------
(* Paths: what lies within what. *)

Path == Seq(STRING)

LEMMA Extended ==
  ASSUME NEW d \in Path, NEW x \in STRING
  PROVE  /\ Append(d, x) \in Path /\ Append(d, x) # <<>>
         /\ Len(d) \in Nat /\ Len(Append(d, x)) = Len(d) + 1
         /\ \A k \in 1..Len(d) : Append(d, x)[k] = d[k]
         /\ Append(d, x)[Len(d) + 1] = x
<1>1. ASSUME NEW S, NEW s \in Seq(S), NEW e \in S
      PROVE  /\ Append(s, e) \in Seq(S) /\ Len(s) \in Nat /\ Len(Append(s, e)) = Len(s) + 1
             /\ \A k \in 1..Len(s) : Append(s, e)[k] = s[k]
             /\ Append(s, e)[Len(s) + 1] = e /\ Append(s, e) # <<>>
  OBVIOUS
<1>2. d \in Seq(STRING)
  BY DEF Path
<1>3. /\ Append(d, x) \in Seq(STRING) /\ Len(d) \in Nat /\ Len(Append(d, x)) = Len(d) + 1
      /\ \A k \in 1..Len(d) : Append(d, x)[k] = d[k]
      /\ Append(d, x)[Len(d) + 1] = x /\ Append(d, x) # <<>>
  BY <1>1, <1>2
<1> QED BY <1>3 DEF Path

LEMMA Prefix ==
  ASSUME NEW p \in Path, NEW k \in 0..Len(p)
  PROVE  /\ SubSeq(p, 1, k) \in Path /\ Len(SubSeq(p, 1, k)) = k
         /\ \A i \in 1..k : SubSeq(p, 1, k)[i] = p[i]
<1>1. Len(p) \in Nat /\ \A i \in 1..Len(p) : p[i] \in STRING
  BY DEF Path
<1>2. \A i \in 1..k : i \in 1..Len(p)
  BY <1>1
<1>3. /\ SubSeq(p, 1, k) \in Seq(STRING)
      /\ Len(SubSeq(p, 1, k)) = IF 1 <= k THEN k - 1 + 1 ELSE 0
      /\ \A i \in 1..(k - 1 + 1) : SubSeq(p, 1, k)[i] = p[1 + i - 1]
  BY <1>1, <1>2, SubSeqProperties
<1>4. k - 1 + 1 = k /\ (1 <= k \/ k = 0) /\ \A i \in 1..k : 1 + i - 1 = i
  BY <1>1
<1> DEFINE s == SubSeq(p, 1, k)
<1>5. /\ s \in Path /\ Len(s) = IF 1 <= k THEN k ELSE 0
      /\ \A i \in 1..k : s[i] = p[1 + i - 1]
  BY <1>3, <1>4 DEF Path
<1> HIDE DEF s
<1>6. s \in Path /\ Len(s) = k /\ \A i \in 1..k : s[i] = p[i]
  BY <1>4, <1>5
<1> QED BY <1>6 DEF s

LEMMA SamePath ==
  ASSUME NEW p \in Path, NEW q \in Path, Len(p) = Len(q), \A k \in 1..Len(p) : p[k] = q[k]
  PROVE  p = q
BY SeqEqual DEF Path

LEMMA WithinPlaces ==
  ASSUME NEW p \in Path, NEW d \in Path
  PROVE  Within(p, d) <=> Len(d) =< Len(p) /\ \A k \in 1..Len(d) : p[k] = d[k]
<1>1. Len(p) \in Nat /\ Len(d) \in Nat
  BY DEF Path
<1>2. CASE ~(Len(d) =< Len(p))
  BY <1>1, <1>2 DEF Within
<1>3. CASE Len(d) =< Len(p)
  <2> DEFINE s == SubSeq(p, 1, Len(d))
  <2>1. s \in Path /\ Len(s) = Len(d) /\ \A k \in 1..Len(d) : s[k] = p[k]
    <3>1. Len(d) \in 0..Len(p)
      BY <1>1, <1>3
    <3> QED BY <3>1, Prefix
  <2>2. Within(p, d) <=> s = d
    BY <1>1, <1>3 DEF Within
  <2> HIDE DEF s
  <2>3. s = d <=> \A k \in 1..Len(d) : p[k] = d[k]
    <3>1. ASSUME \A k \in 1..Len(d) : p[k] = d[k] PROVE s = d
      BY <2>1, <3>1, SamePath
    <3>2. ASSUME s = d PROVE \A k \in 1..Len(d) : p[k] = d[k]
      BY <2>1, <3>2
    <3> QED BY <3>1, <3>2
  <2> QED BY <1>3, <2>2, <2>3
<1> QED BY <1>2, <1>3

LEMMA WithinOrder ==
  ASSUME NEW p \in Path, NEW d \in Path
  PROVE  /\ Within(p, p)
         /\ Within(p, d) => Len(p) >= Len(d)
         /\ \A x \in STRING : Within(Append(d, x), d) /\ ~Within(d, Append(d, x))
         /\ \A q \in Path : Within(q, p) /\ Within(p, d) => Within(q, d)
         /\ \A x, y \in STRING :
                Within(p, Append(d, x)) /\ Within(p, Append(d, y)) => x = y
<1>1. Len(p) \in Nat /\ Len(d) \in Nat
  BY DEF Path
<1>2. Within(p, p)
  BY <1>1, WithinPlaces
<1>3. Within(p, d) => Len(p) >= Len(d)
  BY <1>1, WithinPlaces
<1>4. ASSUME NEW x \in STRING PROVE Within(Append(d, x), d) /\ ~Within(d, Append(d, x))
  <2> DEFINE q == Append(d, x)
  <2>1. q \in Path /\ Len(q) = Len(d) + 1 /\ \A k \in 1..Len(d) : q[k] = d[k]
    BY Extended
  <2> HIDE DEF q
  <2>2. Within(q, d) /\ ~Within(d, q)
    BY <1>1, <2>1, WithinPlaces
  <2> QED BY <2>2 DEF q
<1>5. ASSUME NEW q \in Path, Within(q, p), Within(p, d) PROVE Within(q, d)
  <2>1. Len(q) \in Nat /\ Len(p) =< Len(q) /\ \A k \in 1..Len(p) : q[k] = p[k]
    BY <1>5, WithinPlaces DEF Path
  <2>2. Len(d) =< Len(p) /\ \A k \in 1..Len(d) : p[k] = d[k]
    BY <1>5, WithinPlaces
  <2>3. Len(d) =< Len(q) /\ \A k \in 1..Len(d) : q[k] = d[k]
    BY <1>1, <2>1, <2>2
  <2> QED BY <2>3, WithinPlaces
<1>6. ASSUME NEW x \in STRING, NEW y \in STRING, Within(p, Append(d, x)), Within(p, Append(d, y))
      PROVE  x = y
  <2>1. ASSUME NEW z \in STRING, Within(p, Append(d, z)) PROVE p[Len(d) + 1] = z
    <3> DEFINE q == Append(d, z)
    <3>1. q \in Path /\ Len(q) = Len(d) + 1 /\ q[Len(d) + 1] = z
      BY Extended
    <3>2. Within(p, q)
      BY <2>1
    <3> HIDE DEF q
    <3>3. Len(d) + 1 \in 1..Len(q)
      BY <1>1, <3>1
    <3> QED BY <3>1, <3>2, <3>3, WithinPlaces
  <2> QED BY <1>6, <2>1
<1> QED BY <1>2, <1>3, <1>4, <1>5, <1>6

LEMMA ParentOf ==
  ASSUME NEW p \in Path
  PROVE  /\ \A x \in STRING : Parent(Append(p, x)) = p
         /\ p # <<>> => /\ Parent(p) \in Path /\ Len(p) \in Nat \ {0} /\ p[Len(p)] \in STRING
                        /\ p = Append(Parent(p), p[Len(p)])
<1>1. Len(p) \in Nat /\ (p # <<>> => Len(p) # 0) /\ \A i \in 1..Len(p) : p[i] \in STRING
  BY DEF Path
<1>2. ASSUME NEW x \in STRING PROVE Parent(Append(p, x)) = p
  <2> DEFINE q == Append(p, x)
             s == SubSeq(q, 1, Len(p))
  <2>1. q \in Path /\ Len(q) = Len(p) + 1 /\ \A k \in 1..Len(p) : q[k] = p[k]
    BY Extended
  <2>2. Parent(q) = s
    <3>1. Len(q) - 1 = Len(p)
      BY <1>1, <2>1
    <3> HIDE DEF q
    <3> QED BY <3>1 DEF Parent
  <2> HIDE DEF q
  <2>3. s \in Path /\ Len(s) = Len(p) /\ \A k \in 1..Len(p) : s[k] = q[k]
    <3>1. Len(p) \in 0..Len(q)
      BY <1>1, <2>1
    <3> QED BY <2>1, <3>1, Prefix
  <2> HIDE DEF s
  <2>4. s = p
    BY <2>1, <2>3, SamePath
  <2> QED BY <2>2, <2>4 DEF q
<1>3. ASSUME p # <<>>
      PROVE  /\ Parent(p) \in Path /\ Len(p) \in Nat \ {0} /\ p[Len(p)] \in STRING
             /\ p = Append(Parent(p), p[Len(p)])
  <2> DEFINE d == Parent(p)
             x == p[Len(p)]
             q == Append(d, x)
  <2>1. Len(p) - 1 \in 0..Len(p) /\ Len(p) \in 1..Len(p) /\ Len(p) \in Nat \ {0}
    BY <1>1, <1>3
  <2>2. d \in Path /\ Len(d) = Len(p) - 1 /\ \A k \in 1..(Len(p) - 1) : d[k] = p[k]
    BY <2>1, Prefix DEF Parent
  <2>3. x \in STRING
    BY <1>1, <2>1
  <2> HIDE DEF d, x
  <2>4. /\ q \in Path /\ Len(q) = Len(d) + 1 /\ q[Len(d) + 1] = x
        /\ \A k \in 1..Len(d) : q[k] = d[k]
    BY <2>2, <2>3, Extended
  <2> HIDE DEF q
  <2>5. Len(q) = Len(p) /\ Len(d) + 1 = Len(p)
    BY <2>1, <2>2, <2>4
  <2>6. q[Len(p)] = p[Len(p)]
    BY <2>4, <2>5 DEF x
  <2>7. \A k \in 1..Len(p) : q[k] = p[k]
    <3>1. \A k \in 1..Len(p) : k = Len(p) \/ k \in 1..(Len(p) - 1)
      BY <2>1
    <3>2. \A k \in 1..(Len(p) - 1) : q[k] = p[k]
      BY <2>2, <2>4
    <3> QED BY <2>6, <3>1, <3>2
  <2>8. p = q
    BY <2>4, <2>5, <2>7, SamePath
  <2> QED BY <2>1, <2>2, <2>3, <2>8 DEF d, x, q
<1> QED BY <1>2, <1>3

(* The way from a directory to what lies deeper begins with an entry.      *)
LEMMA WayDown ==
  ASSUME NEW p \in Path, NEW d \in Path, Within(p, d), p # d
  PROVE  /\ Len(d) \in Nat /\ Len(p) \in Nat /\ Len(d) < Len(p) /\ p[Len(d) + 1] \in STRING
         /\ Append(d, p[Len(d) + 1]) = SubSeq(p, 1, Len(d) + 1)
         /\ Within(p, Append(d, p[Len(d) + 1]))
         /\ SubSeq(p, 1, Len(d)) = d
<1>1. /\ Len(d) \in Nat /\ Len(p) \in Nat /\ \A i \in 1..Len(p) : p[i] \in STRING
      /\ Len(d) =< Len(p) /\ \A k \in 1..Len(d) : p[k] = d[k]
  BY WithinPlaces DEF Path
<1>2. Len(d) < Len(p)
  <2>1. Len(d) # Len(p)
    BY <1>1, SamePath
  <2> QED BY <1>1, <2>1
<1>3. Len(d) + 1 \in 1..Len(p) /\ Len(d) + 1 \in 0..Len(p) /\ p[Len(d) + 1] \in STRING
  BY <1>1, <1>2
<1> DEFINE x == p[Len(d) + 1]
           q == Append(d, x)
           s == SubSeq(p, 1, Len(d) + 1)
<1>4. s \in Path /\ Len(s) = Len(d) + 1 /\ \A k \in 1..(Len(d) + 1) : s[k] = p[k]
  BY <1>3, Prefix
<1>5. q \in Path /\ Len(q) = Len(d) + 1 /\ q[Len(d) + 1] = x /\ \A k \in 1..Len(d) : q[k] = d[k]
  BY <1>3, Extended
<1> HIDE DEF s, q
<1>6. \A k \in 1..(Len(d) + 1) : q[k] = p[k]
  <2>1. \A k \in 1..(Len(d) + 1) : k = Len(d) + 1 \/ k \in 1..Len(d)
    BY <1>1
  <2> QED BY <1>1, <1>5, <2>1
<1>7. q = s
  BY <1>4, <1>5, <1>6, SamePath
<1>8. Within(p, q)
  BY <1>1, <1>2, <1>5, <1>6, WithinPlaces
<1>9. SubSeq(p, 1, Len(d)) = d
  BY DEF Within
<1> QED BY <1>1, <1>2, <1>3, <1>7, <1>8, <1>9 DEF q, s
----------------------------------------------------------------------------
(* Trees: all directories on the way to what exists exist.                 *)
Rooted(tree) ==
    \A p \in DOMAIN tree :
        /\ p \in Path /\ p # <<>> /\ p[Len(p)] \notin Dots /\ tree[p] \in FileKinds
        /\ \A k \in 1..(Len(p) - 1) :
               SubSeq(p, 1, k) \in DOMAIN tree /\ tree[SubSeq(p, 1, k)] \in DirKinds

LEMMA RootedShaped ==
  ASSUME NEW tree, Rooted(tree)
  PROVE  Shaped(tree)
<1> SUFFICES ASSUME NEW p \in DOMAIN tree
             PROVE  /\ p \in Seq(STRING) /\ p # <<>>
                    /\ Parent(p) = <<>>
                       \/ (Parent(p) \in DOMAIN tree /\ tree[Parent(p)] \in DirKinds)
  BY DEF Shaped
<1>1. p \in Path /\ p # <<>> /\ Len(p) \in Nat \ {0}
  BY ParentOf DEF Rooted
<1>2. CASE Len(p) = 1
  <2>1. Parent(p) \in Path /\ Len(Parent(p)) = 0
    <3>1. 0 \in 0..Len(p) /\ Len(p) - 1 = 0
      BY <1>2
    <3> QED BY <1>1, <3>1, Prefix DEF Parent
  <2> QED BY <1>1, <2>1 DEF Path
<1>3. CASE Len(p) # 1
  <2>1. Len(p) - 1 \in 1..(Len(p) - 1)
    <3>1. \A l \in Nat \ {0} : l # 1 => l - 1 \in 1..(l - 1)
      OBVIOUS
    <3> QED BY <1>1, <1>3, <3>1
  <2> QED BY <1>1, <2>1 DEF Parent, Rooted, Path
<1> QED BY <1>1, <1>2, <1>3

LEMMA Entries ==
  ASSUME Rooted(files), NEW d \in Path
  PROVE  /\ \A x \in STRING : Append(d, x) \in DOMAIN files =>
                Append(d, x) \in Children(d) /\ x \notin Dots
         /\ \A q \in Children(d) : /\ q \in DOMAIN files /\ q \in Path /\ q[Len(q)] \in STRING \ Dots
                                   /\ q = Append(d, q[Len(q)]) /\ Within(q, d) /\ ~Within(d, q)
                                   /\ q # d
         /\ Len(d) # 0 =>
                \A p \in DOMAIN files : Within(p, d) /\ p # d =>
                    /\ d \in DOMAIN files /\ files[d] \in DirKinds
                    /\ \E q \in Children(d) : Within(p, q)
<1>1. ASSUME NEW x \in STRING, Append(d, x) \in DOMAIN files
      PROVE  Append(d, x) \in Children(d) /\ x \notin Dots
  <2> DEFINE q == Append(d, x)
  <2>1. q \in Path /\ q # <<>> /\ Len(q) = Len(d) + 1 /\ q[Len(d) + 1] = x
    BY Extended
  <2>2. Parent(q) = d
    BY ParentOf
  <2>3. q \in DOMAIN files
    BY <1>1
  <2> HIDE DEF q
  <2>4. q[Len(q)] \notin Dots
    BY <2>3 DEF Rooted
  <2>5. x \notin Dots
    BY <2>1, <2>4
  <2>6. q \in Children(d)
    BY <2>1, <2>2, <2>3 DEF Children
  <2> QED BY <2>5, <2>6 DEF q
<1>2. ASSUME NEW q \in Children(d)
      PROVE  /\ q \in DOMAIN files /\ q \in Path /\ q[Len(q)] \in STRING \ Dots
             /\ q = Append(d, q[Len(q)]) /\ Within(q, d) /\ ~Within(d, q) /\ q # d
  <2>1. q \in DOMAIN files /\ q \in Path /\ q # <<>> /\ Parent(q) = d /\ q[Len(q)] \notin Dots
    BY DEF Children, Rooted
  <2>2. q[Len(q)] \in STRING /\ q = Append(d, q[Len(q)])
    BY <2>1, ParentOf
  <2>3. \A x \in STRING : Within(Append(d, x), d) /\ ~Within(d, Append(d, x))
    BY WithinOrder
  <2>4. Within(q, d) /\ ~Within(d, q) /\ q # d
    <3>1. Within(d, d)
      BY WithinOrder
    <3>2. Within(q, d) /\ ~Within(d, q)
      BY <2>2, <2>3
    <3> QED BY <3>1, <3>2
  <2> QED BY <2>1, <2>2, <2>4
<1>3. ASSUME Len(d) # 0, NEW p \in DOMAIN files, Within(p, d), p # d
      PROVE  d \in DOMAIN files /\ files[d] \in DirKinds /\ \E q \in Children(d) : Within(p, q)
  <2> DEFINE x == p[Len(d) + 1]
             q == Append(d, x)
  <2>1. p \in Path
    BY DEF Rooted
  <2>2. /\ Len(d) \in Nat /\ Len(p) \in Nat /\ Len(d) < Len(p) /\ x \in STRING
        /\ q = SubSeq(p, 1, Len(d) + 1) /\ Within(p, q) /\ SubSeq(p, 1, Len(d)) = d
    BY <1>3, <2>1, WayDown
  <2>3. Len(d) \in 1..(Len(p) - 1)
    BY <1>3, <2>2
  <2>4. d \in DOMAIN files /\ files[d] \in DirKinds
    BY <2>2, <2>3 DEF Rooted
  <2>5. q \in DOMAIN files
    <3>1. CASE Len(d) + 1 = Len(p)
      <4>1. SubSeq(p, 1, Len(p)) = p
        BY <2>1, SubSeqFull DEF Path
      <4> QED BY <2>2, <3>1, <4>1
    <3>2. CASE Len(d) + 1 # Len(p)
      <4>1. Len(d) + 1 \in 1..(Len(p) - 1)
        BY <2>2, <3>2
      <4> QED BY <2>2, <4>1 DEF Rooted
    <3> QED BY <3>1, <3>2
  <2>6. q \in Children(d)
    BY <1>1, <2>2, <2>5
  <2> QED BY <2>2, <2>4, <2>6
<1> QED BY <1>1, <1>2, <1>3

LEMMA RemoveKeepsRooted ==
  ASSUME Rooted(files), NEW p \in Path, Len(p) # 0, Children(p) = {}, Remove(p)
  PROVE  /\ Rooted(files') /\ DOMAIN files' = DOMAIN files \ {p}
         /\ \A q \in DOMAIN files' : files'[q] = files[q]
<1>1. DOMAIN files' = DOMAIN files \ {p} /\ \A q \in DOMAIN files' : files'[q] = files[q]
  BY DEF Remove
<1>2. ASSUME NEW q \in DOMAIN files, NEW k \in 1..(Len(q) - 1) PROVE SubSeq(q, 1, k) # p
  <2> DEFINE s == SubSeq(q, 1, k)
  <2>1. q \in Path /\ Len(q) \in Nat
    BY DEF Rooted, Path
  <2>2. s \in Path /\ Len(s) = k /\ \A i \in 1..k : s[i] = q[i]
    <3>1. k \in 0..Len(q)
      BY <2>1
    <3> QED BY <2>1, <3>1, Prefix
  <2> HIDE DEF s
  <2>3. Within(q, s) /\ q # s
    BY <2>1, <2>2, WithinPlaces
  <2>4. s # p
    BY <2>3, Entries
  <2> QED BY <2>4 DEF s
<1> QED BY <1>1, <1>2 DEF Rooted
----------------------------------------------------------------------------
(* A path made from the directory of a call lies in the one to remove.     *)
LEMMA AppendWithin ==
  ASSUME TreesAssumption, NEW dir \in Seq(STRING), Within(dir, Top), NEW name \in STRING
  PROVE  Append(dir, name) \in Seq(STRING) /\ Within(Append(dir, name), Top)
<1>1. Top \in Path /\ dir \in Path
  BY DEF TreesAssumption, Path
<1>2. Append(dir, name) \in Path /\ Within(Append(dir, name), dir)
  BY <1>1, Extended, WithinOrder
<1> QED BY <1>1, <1>2, WithinOrder DEF Path

(* What is not a directory has nothing in it.                              *)
LEMMA FileIsEmpty ==
  ASSUME Shaped(files), NEW p \in DOMAIN files, files[p] = "file"
  PROVE  Children(p) = {}
BY DEF Shaped, Children, DirKinds

(* To remove what has nothing in it leaves a tree.                         *)
LEMMA RemoveKeepsShape ==
  ASSUME Shaped(files), NEW p, Children(p) = {}, Remove(p)
  PROVE  Shaped(files')
<1>1. DOMAIN files' = DOMAIN files \ {p} /\ \A q \in DOMAIN files' : files'[q] = files[q]
  BY DEF Remove
<1>2. \A q \in DOMAIN files : q # <<>> /\ Parent(q) # p
  BY DEF Children, Shaped
<1> QED BY <1>1, <1>2 DEF Shaped
----------------------------------------------------------------------------
(* A call that returns leaves the ones below it.                           *)
LEMMA Popped ==
  ASSUME NEW S, NEW fs \in Seq(S), fs # <<>>
  PROVE  LET under == SubSeq(fs, 1, Len(fs) - 1) IN
         /\ under \in Seq(S) /\ Len(fs) \in Nat \ {0} /\ Len(under) = Len(fs) - 1
         /\ \A i \in 1..Len(under) : i \in 1..Len(fs) /\ under[i] = fs[i]
<1> DEFINE under == SubSeq(fs, 1, Len(fs) - 1)
<1>1. Len(fs) \in Nat \ {0} /\ \A i \in 1..(Len(fs) - 1) : fs[i] \in S
  OBVIOUS
<1>2. /\ under \in Seq(S)
      /\ Len(under) = IF 1 <= Len(fs) - 1 THEN Len(fs) - 1 - 1 + 1 ELSE 0
      /\ \A i \in 1..(Len(fs) - 1 - 1 + 1) : under[i] = fs[1 + i - 1]
  BY <1>1, SubSeqProperties
<1> HIDE DEF under
<1>3. Len(under) = Len(fs) - 1
  <2>1. \A l \in Nat \ {0} : (IF 1 <= l - 1 THEN l - 1 - 1 + 1 ELSE 0) = l - 1
    OBVIOUS
  <2> QED BY <1>1, <1>2, <2>1
<1> QED BY <1>1, <1>2, <1>3 DEF under

(* A step changes only the innermost call, or adds one above it.           *)
LEMMA InnerIsInside ==
  ASSUME DirInv, Running
  PROVE  /\ Inner \in Frame /\ Inside(Inner) /\ Len(frames) \in Nat \ {0}
         /\ \A name : LET rest == [frames EXCEPT ![Len(frames)].unread = @ \ {name}]
                      IN  /\ rest \in Seq(Frame) /\ Len(rest) = Len(frames)
                          /\ \A n \in 1..Len(rest) : Inside(rest[n])
<1>1. Len(frames) \in Nat \ {0} /\ Inner = frames[Len(frames)] /\ Inner \in Frame /\ Inside(Inner)
  BY DEF DirInv, Running, Inner
<1>2. ASSUME NEW name
      PROVE  LET rest == [frames EXCEPT ![Len(frames)].unread = @ \ {name}]
             IN  /\ rest \in Seq(Frame) /\ Len(rest) = Len(frames)
                 /\ \A n \in 1..Len(rest) : Inside(rest[n])
  <2> DEFINE rest == [frames EXCEPT ![Len(frames)].unread = @ \ {name}]
             new  == [Inner EXCEPT !.unread = @ \ {name}]
  <2>1. new \in Frame /\ new.dir = Inner.dir /\ new.unread = Inner.unread \ {name}
    BY <1>1 DEF Frame
  <2>2. rest = [frames EXCEPT ![Len(frames)] = new]
    BY DEF Inner
  <2> HIDE DEF new, rest
  <2>3. /\ rest \in Seq(Frame) /\ Len(rest) = Len(frames)
        /\ \A n \in 1..Len(frames) : rest[n] = IF n = Len(frames) THEN new ELSE frames[n]
    BY <1>1, <2>1, <2>2, ExceptSeq DEF DirInv
  <2>4. Inside(new)
    BY <1>1, <2>1 DEF Inside
  <2>5. \A n \in 1..Len(rest) : Inside(rest[n])
    BY <2>3, <2>4 DEF DirInv
  <2> QED BY <2>3, <2>5 DEF rest
<1> QED BY <1>1, <1>2

(* del_dir is called for a directory inside, over calls that are inside.   *)
LEMMA EnterInside ==
  ASSUME Shaped(files), NEW dir \in Seq(STRING), Within(dir, Top), NEW owned \in BOOLEAN,
         NEW stack \in Seq(Frame), \A n \in 1..Len(stack) : Inside(stack[n]),
         Enter(dir, owned, stack)
  PROVE  frames' \in Seq(Frame) /\ \A n \in 1..Len(frames') : Inside(frames'[n])
<1> DEFINE names == {path[Len(path)] : path \in Children(dir)}
           new   == [dir |-> dir, owned |-> owned, unread |-> Dots \cup names]
<1>1. frames' = Append(stack, new) \/ frames' = stack
  BY DEF Enter
<1>2. names \subseteq STRING
  BY DEF Children, Shaped
<1>3. new \in Frame /\ Inside(new)
  BY <1>2 DEF Frame, Inside
<1> HIDE DEF new
<1>4. /\ Append(stack, new) \in Seq(Frame) /\ Len(Append(stack, new)) = Len(stack) + 1
      /\ Append(stack, new)[Len(stack) + 1] = new
      /\ \A n \in 1..Len(stack) : Append(stack, new)[n] = stack[n]
  BY <1>3, AppendProperties
<1>5. \A n \in 1..(Len(stack) + 1) : n = Len(stack) + 1 \/ n \in 1..Len(stack)
  OBVIOUS
<1> QED BY <1>1, <1>3, <1>4, <1>5
----------------------------------------------------------------------------
(* It holds before the first call.                                         *)
LEMMA InitInside == ASSUME TreesAssumption PROVE Init => DirInv
<1> SUFFICES ASSUME Init PROVE DirInv
  OBVIOUS
<1>1. Rooted(files)
  BY DEF Init, TreesAssumption, Rooted, Path
<1>2. Shaped(files)
  BY <1>1, RootedShaped
<1> QED BY <1>2 DEF Init, DirInv

(* Each step keeps it, and removes at most one thing: a file of a directory*)
(* that is inside, or such a directory when it is empty.                   *)
LEMMA StepInside ==
  ASSUME TreesAssumption, DirInv, [Next]_vars
  PROVE  /\ DirInv'
         /\ \A p \in DOMAIN files \ DOMAIN files' : Within(p, Top) /\ Children(p) = {}
<1> DEFINE Gone == \A p \in DOMAIN files \ DOMAIN files' : Within(p, Top) /\ Children(p) = {}
<1>1. ASSUME NEW owned \in BOOLEAN, Call(owned) PROVE DirInv' /\ Gone
  <2>1. Top \in Seq(STRING) /\ Within(Top, Top)
    <3>1. Top \in Seq(STRING) /\ Len(Top) \in Nat
      BY DEF TreesAssumption
    <3>2. SubSeq(Top, 1, Len(Top)) = Top
      BY <3>1, SubSeqFull
    <3> QED BY <3>1, <3>2 DEF Within
  <2>2. <<>> \in Seq(Frame) /\ Len(<<>>) = 0
    OBVIOUS
  <2>3. frames' \in Seq(Frame) /\ \A n \in 1..Len(frames') : Inside(frames'[n])
    <3>1. Shaped(files) /\ Enter(Top, owned, <<>>) /\ \A n \in 1..Len(<<>>) : Inside(<<>>[n])
      BY <1>1 DEF Call, DirInv
    <3> QED BY <2>1, <2>2, <3>1, EnterInside
  <2> QED BY <1>1, <2>3 DEF Call, DirInv, Shaped, Inside
<1>2. CASE SkipDots
  <2>1. PICK name \in Inner.unread \cap Dots : Read(name)
    BY <1>2 DEF SkipDots
  <2>2. frames' \in Seq(Frame) /\ \A n \in 1..Len(frames') : Inside(frames'[n])
    BY <1>2, <2>1, InnerIsInside DEF SkipDots, Read
  <2> QED BY <1>2, <2>2 DEF SkipDots, DirInv, Shaped, Inside
<1>3. CASE EnterChild
  <2>1. PICK name \in Inner.unread \ Dots :
            LET child == Resolve(Inner.dir, name)
                rest  == [frames EXCEPT ![Len(frames)].unread = @ \ {name}]
            IN  IF Readable
                THEN Enter(child, TRUE, rest) /\ UNCHANGED files
                ELSE Read(name) /\ Misuse
    BY <1>3 DEF EnterChild
  <2> DEFINE child == Resolve(Inner.dir, name)
             rest  == [frames EXCEPT ![Len(frames)].unread = @ \ {name}]
  <2>2. Running
    BY <1>3 DEF EnterChild
  <2>3. /\ rest \in Seq(Frame) /\ \A n \in 1..Len(rest) : Inside(rest[n])
        /\ Inside(Inner)
    BY <2>2, InnerIsInside
  <2>4. child \in Seq(STRING) /\ Within(child, Top)
    <3>1. child = Append(Inner.dir, name)
      BY DEF Resolve, Dots
    <3>2. name \in STRING
      BY <2>3 DEF Inside
    <3> QED BY <2>3, <3>1, <3>2, AppendWithin DEF Inside
  <2>5. files' = files
    BY <2>1 DEF Misuse
  <2> HIDE DEF child, rest
  <2>6. frames' \in Seq(Frame) /\ \A n \in 1..Len(frames') : Inside(frames'[n])
    <3>1. CASE Readable
      <4>1. Enter(child, TRUE, rest)
        BY <2>1, <3>1 DEF child, rest
      <4> QED BY <2>3, <2>4, <4>1, EnterInside DEF DirInv
    <3>2. CASE ~Readable
      BY <2>1, <2>3, <3>2 DEF Read, rest
    <3> QED BY <3>1, <3>2
  <2> QED BY <2>5, <2>6 DEF DirInv, Shaped, Inside
<1>4. CASE UnlinkChild
  <2>1. PICK name \in Inner.unread \ Dots :
            LET child == Resolve(Inner.dir, name) IN
            /\ Read(name)
            /\ \/ files[child] = "file" /\ Remove(child)
               \/ UNCHANGED files
    BY <1>4 DEF UnlinkChild, Fails, Misuse
  <2> DEFINE child == Resolve(Inner.dir, name)
  <2>2. Running
    BY <1>4 DEF UnlinkChild
  <2>3. frames' \in Seq(Frame) /\ \A n \in 1..Len(frames') : Inside(frames'[n])
    BY <2>1, <2>2, InnerIsInside DEF Read
  <2>4. Within(child, Top)
    <3>1. child = Append(Inner.dir, name)
      BY DEF Resolve, Dots
    <3>2. Inside(Inner) /\ name \in STRING
      BY <2>2, InnerIsInside DEF Inside
    <3> QED BY <3>1, <3>2, AppendWithin DEF Inside
  <2> HIDE DEF child
  <2>5. CASE files[child] = "file" /\ Remove(child) /\ child \in DOMAIN files
    <3>1. Children(child) = {}
      BY <2>5, FileIsEmpty DEF DirInv
    <3>2. Shaped(files')
      BY <2>5, <3>1, RemoveKeepsShape DEF DirInv
    <3>3. DOMAIN files \ DOMAIN files' \subseteq {child}
      BY <2>5 DEF Remove
    <3> QED BY <2>3, <2>4, <3>1, <3>2, <3>3 DEF DirInv, Shaped, Inside
  <2>6. CASE UNCHANGED files
    BY <2>3, <2>6 DEF DirInv, Shaped, Inside
  <2>7. CASE Remove(child) /\ child \notin DOMAIN files
    <3>1. DOMAIN files' = DOMAIN files /\ \A q \in DOMAIN files' : files'[q] = files[q]
      BY <2>7 DEF Remove
    <3> QED BY <2>3, <3>1 DEF DirInv, Shaped, Inside
  <2> QED BY <2>1, <2>5, <2>6, <2>7 DEF child
<1>5. CASE Leave
  <2>1. Running /\ frames' = SubSeq(frames, 1, Len(frames) - 1)
    BY <1>5 DEF Leave, Under
  <2>2. Inside(Inner) /\ Len(frames) \in Nat \ {0} /\ frames \in Seq(Frame)
    BY <2>1, InnerIsInside DEF DirInv
  <2>3. frames' \in Seq(Frame) /\ \A n \in 1..Len(frames') : Inside(frames'[n])
    <3>1. /\ frames' \in Seq(Frame)
          /\ \A n \in 1..Len(frames') : n \in 1..Len(frames) /\ frames'[n] = frames[n]
      BY <2>1, <2>2, Popped DEF Running
    <3> QED BY <2>2, <3>1 DEF DirInv
  <2>4. CASE Children(Inner.dir) = {} /\ Remove(Inner.dir)
    <3>1. Shaped(files')
      BY <2>4, RemoveKeepsShape DEF DirInv
    <3>2. DOMAIN files \ DOMAIN files' \subseteq {Inner.dir}
      BY <2>4 DEF Remove
    <3> QED BY <2>2, <2>3, <2>4, <3>1, <3>2 DEF DirInv, Inside
  <2>5. CASE UNCHANGED files
    BY <2>3, <2>5 DEF DirInv, Shaped, Inside
  <2> QED BY <1>5, <2>4, <2>5 DEF Leave, Fails, Misuse
<1>6. CASE UNCHANGED vars
  BY <1>6 DEF vars, DirInv, Shaped, Inside
<1> QED BY <1>1, <1>2, <1>3, <1>4, <1>5, <1>6 DEF Next, Step

(* Whatever del_dir removes lies in the directory it was called for and has*)
(* nothing in it any more: the names "." and "..", which readdir returns   *)
(* like all others, lead nowhere, at no depth and after no failure.        *)
THEOREM RemovalStaysInside == ASSUME TreesAssumption PROVE Spec => RemovesOnlyInside
<1>1. Init => DirInv
  BY InitInside
<1>2. DirInv /\ [Next]_vars => DirInv'
  BY StepInside
<1>3. DirInv /\ [Next]_vars =>
          [\A p \in DOMAIN files \ DOMAIN files' : Within(p, Top) /\ Children(p) = {}]_vars
  BY StepInside
<1> QED BY <1>1, <1>2, <1>3, PTL DEF Spec, RemovesOnlyInside
----------------------------------------------------------------------------
(* What del_dir leaves.  The invariant, for a stack of calls fs, calls C   *)
(* and allocated paths L:                                                  *)

Names(f) == f.unread \ Dots

(* An entry that a running call has still to read, and a directory that a  *)
(* running call is for.                                                    *)
Waits(fs, q) == \E n \in 1..Len(fs) : \E x \in Names(fs[n]) : q = Append(fs[n].dir, x)
Runs(fs, q)  == \E n \in 1..Len(fs) : fs[n].dir = q

(* The calls are for directories that exist, each in that of the call      *)
(* below it, which has read its name; what they have still to read exists. *)
Open(fs, tree) ==
    \A n \in 1..Len(fs) :
        /\ Len(fs[n].dir) = Len(Top) + n - 1
        /\ fs[n].dir \in DOMAIN tree /\ tree[fs[n].dir] \in DirKinds
Nested(fs) ==
    \A n \in 1..Len(fs) :
        /\ IF n = 1 THEN fs[n].dir = Top ELSE Parent(fs[n].dir) = fs[n - 1].dir
        /\ \A m \in 1..(n - 1) :
               \E z \in STRING : z \notin fs[m].unread /\ Within(fs[n].dir, Append(fs[m].dir, z))
There(fs, tree) == \A q : Waits(fs, q) => q \in DOMAIN tree
Stacked(fs, tree) == Open(fs, tree) /\ Nested(fs) /\ There(fs, tree)

(* No call was for anything that waits, or for what lies in it.            *)
NotCalled(fs, C) == \A c \in C : \A q : Waits(fs, q) => ~Within(c.dir, q)

(* What exists in the directory is still to come, or was failed on.        *)
Unopened(C, q) == \A c \in C : c.ok => c.dir # q
Accounted(p, fs, C, F) ==
    \/ p \in F
    \/ \E dir \in F : Within(p, dir) /\ Unopened(C, dir)
    \/ \E q : Waits(fs, q) /\ Within(p, q)
    \/ Runs(fs, p)
AllAccounted(fs, C, F, tree) ==
    \A p \in DOMAIN tree : Within(p, Top) => Accounted(p, fs, C, F)

(* A call that owns its path has found something in its directory if it    *)
(* has something to read or has freed its path; and the other way round,   *)
(* for those that found something.                                         *)
Pressed(f, L) == f.owned /\ (Names(f) # {} \/ f.dir \notin L)
Recorded(fs, C, L) ==
    \A n \in 1..Len(fs) :
        \E c \in C : /\ c.ok /\ c.dir = fs[n].dir /\ (c.owned <=> fs[n].owned)
                     /\ Pressed(fs[n], L) => c.entries # {}
Told(fs, C, L) ==
    \A c \in C : c.owned /\ c.ok /\ c.entries # {} =>
        \E n \in 1..Len(fs) : fs[n].dir = c.dir /\ Pressed(fs[n], L)

(* A path is allocated if its directory could not be opened, else only     *)
(* while the call that owns it runs.                                       *)
Leaked(C) == {c.dir : c \in {d \in C : d.owned /\ ~d.ok}}
Kept(fs, C, L) ==
    /\ Leaked(C) \subseteq L
    /\ \A p \in L : p \in Leaked(C) \/ \E n \in 1..Len(fs) : fs[n].owned /\ fs[n].dir = p
    /\ \A c \in C : ~c.ok => ~Runs(fs, c.dir)

Sound(fs, C, L) == NotCalled(fs, C) /\ Recorded(fs, C, L) /\ Told(fs, C, L) /\ Kept(fs, C, L)

CallRecord == [dir : Path, owned : BOOLEAN, ok : BOOLEAN, entries : SUBSET Path]
Typed ==
    /\ calls \in SUBSET CallRecord /\ live \in SUBSET Path /\ failed \in SUBSET Path
    /\ misused \in BOOLEAN
    /\ calls = {} => frames = <<>> /\ ~misused /\ Top \in DOMAIN files

RemInv ==
    /\ DirInv /\ Typed /\ Rooted(files) /\ Stacked(frames, files)
    /\ misused => BadFrees # {}
    /\ ~misused => Sound(frames, calls, live)
    /\ ~misused /\ calls # {} => AllAccounted(frames, calls, failed, files)
----------------------------------------------------------------------------
(* The stack of calls. *)

(* The innermost call reads a name.                                        *)
Rest(name) == [frames EXCEPT ![Len(frames)].unread = @ \ {name}]

LEMMA RestStack ==
  ASSUME DirInv, Running, NEW name
  PROVE  /\ Rest(name) \in Seq(Frame) /\ Len(frames) \in Nat \ {0}
         /\ Len(Rest(name)) = Len(frames)
         /\ \A n \in 1..Len(frames) :
                /\ Rest(name)[n].dir = frames[n].dir /\ Rest(name)[n].owned = frames[n].owned
                /\ Rest(name)[n].unread = IF n = Len(frames) THEN frames[n].unread \ {name}
                                                             ELSE frames[n].unread
         /\ Inner = frames[Len(frames)] /\ Len(frames) \in 1..Len(frames)
<1> DEFINE rest == Rest(name)
           new  == [Inner EXCEPT !.unread = @ \ {name}]
<1>1. /\ Len(frames) \in Nat \ {0} /\ Inner = frames[Len(frames)] /\ Inner \in Frame
      /\ Len(frames) \in 1..Len(frames)
  BY DEF DirInv, Running, Inner
<1>2. /\ new \in Frame /\ new.dir = Inner.dir /\ new.owned = Inner.owned
      /\ new.unread = Inner.unread \ {name}
  BY <1>1 DEF Frame
<1>3. rest = [frames EXCEPT ![Len(frames)] = new]
  BY DEF Inner, Rest
<1> HIDE DEF new, rest
<1>4. /\ rest \in Seq(Frame) /\ Len(rest) = Len(frames)
      /\ \A n \in 1..Len(frames) : rest[n] = IF n = Len(frames) THEN new ELSE frames[n]
  BY <1>1, <1>2, <1>3, ExceptSeq DEF DirInv
<1>5. \A n \in 1..Len(frames) :
          /\ rest[n].dir = frames[n].dir /\ rest[n].owned = frames[n].owned
          /\ rest[n].unread = IF n = Len(frames) THEN frames[n].unread \ {name}
                                                 ELSE frames[n].unread
  BY <1>1, <1>2, <1>4
<1> QED BY <1>1, <1>4, <1>5 DEF rest

LEMMA FrameTypes ==
  ASSUME NEW fs \in Seq(Frame), NEW n \in 1..Len(fs)
  PROVE  /\ fs[n].dir \in Path /\ fs[n].owned \in BOOLEAN
         /\ fs[n].unread \in SUBSET (STRING \cup Dots) /\ Names(fs[n]) \in SUBSET STRING
         /\ Len(fs) \in Nat /\ Len(fs[n].dir) \in Nat
<1>1. fs[n] \in Frame /\ Len(fs) \in Nat
  OBVIOUS
<1>2. fs[n].dir \in Path /\ fs[n].owned \in BOOLEAN
      /\ fs[n].unread \in SUBSET (STRING \cup Dots)
  BY <1>1 DEF Frame, Path
<1> QED BY <1>1, <1>2 DEF Names, Path

(* The directories of the calls are of different depths.                   *)
LEMMA Depths ==
  ASSUME TreesAssumption, NEW fs \in Seq(Frame), NEW tree, Open(fs, tree)
  PROVE  /\ \A n, m \in 1..Len(fs) : n # m => fs[n].dir # fs[m].dir
         /\ \A n \in 1..Len(fs) : Len(fs[n].dir) # 0
         /\ \A n \in 1..Len(fs) : \A x \in STRING :
                /\ Append(fs[n].dir, x) \in Path
                /\ Len(Append(fs[n].dir, x)) = Len(Top) + n
         /\ \A p : Len(p) = Len(Top) + Len(fs) => ~Runs(fs, p)
<1>1. Len(Top) \in Nat \ {0} /\ Len(fs) \in Nat
  <2>1. Top \in Path /\ Top # <<>>
    BY DEF TreesAssumption, Path
  <2> QED BY <2>1, ParentOf
<1>2. \A n \in 1..Len(fs) : Len(fs[n].dir) = Len(Top) + n - 1
  BY DEF Open
<1>3. \A n, m \in 1..Len(fs) : n # m => fs[n].dir # fs[m].dir
  <2>1. \A l, n, m \in Nat : l + n - 1 = l + m - 1 => n = m
    OBVIOUS
  <2> QED BY <1>1, <1>2, <2>1
<1>4. \A n \in 1..Len(fs) : Len(fs[n].dir) # 0
  <2>1. \A l, n \in Nat \ {0} : l + n - 1 # 0
    OBVIOUS
  <2> QED BY <1>1, <1>2, <2>1
<1>5. ASSUME NEW n \in 1..Len(fs), NEW x \in STRING
      PROVE  Append(fs[n].dir, x) \in Path /\ Len(Append(fs[n].dir, x)) = Len(Top) + n
  <2>1. fs[n].dir \in Path
    BY FrameTypes
  <2>2. Append(fs[n].dir, x) \in Path /\ Len(Append(fs[n].dir, x)) = Len(fs[n].dir) + 1
    BY <2>1, Extended
  <2>3. \A l, k \in Nat : l + k - 1 + 1 = l + k
    OBVIOUS
  <2>4. Len(fs[n].dir) + 1 = Len(Top) + n
    BY <1>1, <1>2, <2>3
  <2> QED BY <2>2, <2>4
<1>6. ASSUME NEW p, Len(p) = Len(Top) + Len(fs) PROVE ~Runs(fs, p)
  <2>1. \A l, k \in Nat : \A n \in 1..k : l + n - 1 # l + k
    OBVIOUS
  <2> QED BY <1>1, <1>2, <1>6, <2>1 DEF Runs
<1> QED BY <1>3, <1>4, <1>5, <1>6

(* What reading a name does to the stack.                                  *)
LEMMA RestStacked ==
  ASSUME DirInv, Running, Stacked(frames, files), NEW name
  PROVE  /\ \A q : Waits(Rest(name), q) => Waits(frames, q)
         /\ \A q : Runs(Rest(name), q) <=> Runs(frames, q)
         /\ Stacked(Rest(name), files)
<1> DEFINE rest == Rest(name)
<1>1. /\ rest \in Seq(Frame) /\ Len(frames) \in Nat \ {0} /\ Len(rest) = Len(frames)
      /\ \A n \in 1..Len(frames) :
             /\ rest[n].dir = frames[n].dir /\ rest[n].owned = frames[n].owned
             /\ rest[n].unread \subseteq frames[n].unread
  BY RestStack
<1> HIDE DEF rest
<1>2. \A q : Waits(rest, q) => Waits(frames, q)
  BY <1>1 DEF Waits, Names
<1>3. \A q : Runs(rest, q) <=> Runs(frames, q)
  BY <1>1 DEF Runs
<1>4. Open(rest, files)
  BY <1>1 DEF Stacked, Open
<1>5. Nested(rest)
  <2> SUFFICES ASSUME NEW n \in 1..Len(frames)
               PROVE  /\ IF n = 1 THEN rest[n].dir = Top ELSE Parent(rest[n].dir) = rest[n - 1].dir
                      /\ \A m \in 1..(n - 1) :
                             \E z \in STRING : /\ z \notin rest[m].unread
                                               /\ Within(rest[n].dir, Append(rest[m].dir, z))
    BY <1>1 DEF Nested
  <2>1. n # 1 => n - 1 \in 1..Len(frames)
    BY <1>1
  <2>2. \A m \in 1..(n - 1) : m \in 1..Len(frames)
    BY <1>1
  <2> QED BY <1>1, <2>1, <2>2 DEF Stacked, Nested
<1>6. There(rest, files)
  BY <1>2 DEF Stacked, There
<1> QED BY <1>2, <1>3, <1>4, <1>5, <1>6 DEF Stacked, rest

(* An entry that is read waits no longer; all others do.                   *)
LEMMA ReadChild ==
  ASSUME TreesAssumption, DirInv, Running, Rooted(files), Stacked(frames, files),
         NEW name \in Names(Inner), NEW child, child = Append(Inner.dir, name)
  PROVE  /\ name \in STRING /\ Resolve(Inner.dir, name) = child
         /\ child \in Path /\ Len(child) = Len(Top) + Len(frames) /\ Within(child, Top)
         /\ child \in DOMAIN files /\ Waits(frames, child) /\ ~Runs(frames, child)
         /\ \A q : Waits(Rest(name), q) <=> Waits(frames, q) /\ q # child
         /\ \A q : Waits(Rest(name), q) => ~Within(child, q)
<1> DEFINE rest == Rest(name)
           N    == Len(frames)
           d    == Inner.dir
<1>1. /\ rest \in Seq(Frame) /\ N \in Nat \ {0} /\ Len(rest) = N
      /\ \A n \in 1..N :
             /\ rest[n].dir = frames[n].dir
             /\ rest[n].unread = IF n = N THEN frames[n].unread \ {name} ELSE frames[n].unread
      /\ Inner = frames[N] /\ N \in 1..N /\ frames \in Seq(Frame)
  BY RestStack DEF DirInv
<1>2. /\ \A n \in 1..N : frames[n].dir \in Path /\ Names(frames[n]) \in SUBSET STRING
      /\ d \in Path /\ name \in STRING /\ Within(d, Top)
  BY <1>1, FrameTypes DEF DirInv, Inside
<1>3. /\ child \in Path /\ Len(child) = Len(Top) + N
      /\ \A n \in 1..N : \A x \in STRING : Len(Append(frames[n].dir, x)) = Len(Top) + n
      /\ ~Runs(frames, child)
  BY <1>1, <1>2, Depths DEF Stacked
<1>4. Resolve(d, name) = child
  BY DEF Resolve, Names, Dots
<1>5. Waits(frames, child)
  BY <1>1 DEF Waits
<1>6. child \in DOMAIN files
  BY <1>5 DEF Stacked, There
<1>7. Within(child, Top)
  <2>1. Top \in Path
    BY DEF TreesAssumption, Path
  <2>2. Within(child, d)
    BY <1>2, WithinOrder
  <2> QED BY <1>2, <1>3, <2>1, <2>2, WithinOrder
<1> HIDE DEF rest
<1>8. ASSUME NEW n \in 1..N, NEW x \in Names(rest[n])
      PROVE  ~Within(child, Append(frames[n].dir, x))
  <2>1. x \in Names(frames[n]) /\ x \in STRING
    BY <1>1, <1>2, <1>8 DEF Names
  <2>2. CASE n = N
    <3>1. x # name
      BY <1>1, <1>8, <2>2 DEF Names
    <3>2. Within(child, Append(d, name))
      BY <1>3, WithinOrder
    <3> QED BY <1>1, <1>2, <1>3, <2>1, <2>2, <3>1, <3>2, WithinOrder
  <2>3. CASE n # N
    <3>1. n \in 1..(N - 1)
      BY <1>1, <2>3
    <3>2. PICK z \in STRING : z \notin frames[n].unread /\ Within(d, Append(frames[n].dir, z))
      BY <1>1, <3>1 DEF Stacked, Nested
    <3>3. Append(frames[n].dir, z) \in Path
      BY <1>2, Extended
    <3>4. Within(child, d)
      BY <1>2, WithinOrder
    <3>5. Within(child, Append(frames[n].dir, z))
      BY <1>2, <1>3, <3>2, <3>3, <3>4, WithinOrder
    <3>6. x # z
      BY <2>1, <3>2 DEF Names
    <3>7. frames[n].dir \in Path
      BY <1>2
    <3> QED BY <1>3, <2>1, <3>5, <3>6, <3>7, WithinOrder
  <2> QED BY <2>2, <2>3
<1>9. ASSUME NEW q, Waits(rest, q) PROVE ~Within(child, q)
  <2>1. PICK n \in 1..N : \E x \in Names(rest[n]) : q = Append(rest[n].dir, x)
    BY <1>1, <1>9 DEF Waits
  <2>2. PICK x \in Names(rest[n]) : q = Append(rest[n].dir, x)
    BY <2>1
  <2>3. rest[n].dir = frames[n].dir
    BY <1>1
  <2> QED BY <1>8, <2>2, <2>3
<1>10. ASSUME NEW q, Waits(rest, q) PROVE Waits(frames, q) /\ q # child
  <2>1. Within(child, child)
    BY <1>3, WithinOrder
  <2> QED BY <1>9, <1>10, <2>1, RestStacked DEF rest
<1>11. ASSUME NEW q, Waits(frames, q), q # child PROVE Waits(rest, q)
  <2>1. PICK n \in 1..N : \E x \in Names(frames[n]) : q = Append(frames[n].dir, x)
    BY <1>11 DEF Waits
  <2>2. PICK x \in Names(frames[n]) : q = Append(frames[n].dir, x)
    BY <2>1
  <2>3. x \in Names(rest[n])
    BY <1>1, <1>11, <2>2 DEF Names
  <2> QED BY <1>1, <2>2, <2>3 DEF Waits
<1> QED BY <1>2, <1>3, <1>4, <1>5, <1>6, <1>7, <1>9, <1>10, <1>11 DEF rest

(* The path of the call that reads it is freed; what was read is on its    *)
(* way to a call or to unlink.                                             *)
LEMMA ReadSound ==
  ASSUME TreesAssumption, DirInv, Running, Rooted(files), Stacked(frames, files),
         NEW name \in Names(Inner), NEW child, child = Append(Inner.dir, name),
         Sound(frames, calls, live), Readable
  PROVE  /\ Sound(Rest(name), calls, live \ Freed)
         /\ \A c \in calls : ~Within(c.dir, child)
         /\ Unopened(calls, child)
         /\ \A p : Accounted(p, frames, calls, failed) =>
                Accounted(p, Rest(name), calls, failed) \/ Within(p, child)
<1> DEFINE rest == Rest(name)
           N    == Len(frames)
           L    == live \ Freed
<1>1. /\ rest \in Seq(Frame) /\ N \in Nat \ {0} /\ Len(rest) = N
      /\ \A n \in 1..N :
             /\ rest[n].dir = frames[n].dir /\ rest[n].owned = frames[n].owned
             /\ rest[n].unread = IF n = N THEN frames[n].unread \ {name} ELSE frames[n].unread
      /\ Inner = frames[N] /\ N \in 1..N /\ frames \in Seq(Frame)
  BY RestStack DEF DirInv
<1>2. \A n \in 1..N : frames[n].owned \in BOOLEAN
  BY <1>1, FrameTypes
<1>3. /\ child \in Path /\ Waits(frames, child)
      /\ \A q : Waits(rest, q) <=> Waits(frames, q) /\ q # child
  BY ReadChild
<1>4. /\ \A q : Runs(rest, q) <=> Runs(frames, q)
      /\ \A n \in 1..N : n # N => frames[n].dir # frames[N].dir
  BY <1>1, RestStacked, Depths DEF Stacked
<1>5. L \subseteq live /\ (frames[N].owned => frames[N].dir \notin L)
      /\ \A p \in live : p # frames[N].dir => p \in L
  BY <1>1 DEF Freed
<1> HIDE DEF rest, L
<1>6. NotCalled(rest, calls)
  BY <1>3 DEF Sound, NotCalled
<1>7. Recorded(rest, calls, L)
  <2> SUFFICES ASSUME NEW n \in 1..N
               PROVE  \E c \in calls :
                          /\ c.ok /\ c.dir = rest[n].dir /\ (c.owned <=> rest[n].owned)
                          /\ Pressed(rest[n], L) => c.entries # {}
    BY <1>1 DEF Recorded
  <2>1. PICK c \in calls : /\ c.ok /\ c.dir = frames[n].dir /\ (c.owned <=> frames[n].owned)
                           /\ Pressed(frames[n], live) => c.entries # {}
    BY DEF Sound, Recorded
  <2>2. Pressed(rest[n], L) => Pressed(frames[n], live)
    <3>1. CASE n = N
      BY <1>1, <3>1 DEF Pressed
    <3>2. CASE n # N
      BY <1>1, <1>4, <1>5, <3>2 DEF Pressed, Names
    <3> QED BY <3>1, <3>2
  <2> QED BY <1>1, <2>1, <2>2
<1>8. Told(rest, calls, L)
  <2> SUFFICES ASSUME NEW c \in calls, c.owned, c.ok, c.entries # {}
               PROVE  \E n \in 1..N : rest[n].dir = c.dir /\ Pressed(rest[n], L)
    BY <1>1 DEF Told
  <2>1. PICK n \in 1..N : frames[n].dir = c.dir /\ Pressed(frames[n], live)
    BY DEF Sound, Told
  <2>2. Pressed(rest[n], L)
    <3>1. CASE n = N
      BY <1>1, <1>5, <2>1, <3>1 DEF Pressed
    <3>2. CASE n # N
      BY <1>1, <1>5, <2>1, <3>2 DEF Pressed, Names
    <3> QED BY <3>1, <3>2
  <2> QED BY <1>1, <2>1, <2>2
<1>9. Kept(rest, calls, L)
  <2>1. Leaked(calls) \subseteq L
    <3>1. Runs(frames, frames[N].dir)
      BY <1>1 DEF Runs
    <3>2. \A c \in calls : ~c.ok => c.dir # frames[N].dir
      BY <3>1 DEF Sound, Kept
    <3>3. \A p \in Leaked(calls) : p # frames[N].dir
      BY <3>2 DEF Leaked
    <3> QED BY <1>5, <3>3 DEF Sound, Kept
  <2>2. \A p \in L : p \in Leaked(calls) \/ \E n \in 1..N : rest[n].owned /\ rest[n].dir = p
    BY <1>1, <1>5 DEF Sound, Kept
  <2>3. \A c \in calls : ~c.ok => ~Runs(rest, c.dir)
    BY <1>4 DEF Sound, Kept
  <2> QED BY <1>1, <2>1, <2>2, <2>3 DEF Kept
<1>10. \A c \in calls : ~Within(c.dir, child)
  BY <1>3 DEF Sound, NotCalled
<1>11. Unopened(calls, child)
  <2>1. Within(child, child)
    BY <1>3, WithinOrder
  <2> QED BY <1>10, <2>1 DEF Unopened
<1>12. ASSUME NEW p, Accounted(p, frames, calls, failed)
       PROVE  Accounted(p, rest, calls, failed) \/ Within(p, child)
  BY <1>3, <1>4, <1>12 DEF Accounted
<1> QED BY <1>6, <1>7, <1>8, <1>9, <1>10, <1>11, <1>12 DEF rest, L, Sound

(* To skip "." or ".." changes nothing.                                    *)
LEMMA SkipSound ==
  ASSUME DirInv, Running, Stacked(frames, files), NEW name \in Dots,
         Sound(frames, calls, live), AllAccounted(frames, calls, failed, files)
  PROVE  /\ Sound(Rest(name), calls, live)
         /\ AllAccounted(Rest(name), calls, failed, files)
<1> DEFINE rest == Rest(name)
           N    == Len(frames)
<1>1. /\ rest \in Seq(Frame) /\ N \in Nat \ {0} /\ Len(rest) = N
      /\ \A n \in 1..N :
             /\ rest[n].dir = frames[n].dir /\ rest[n].owned = frames[n].owned
             /\ rest[n].unread = IF n = N THEN frames[n].unread \ {name} ELSE frames[n].unread
  BY RestStack DEF DirInv
<1> HIDE DEF rest
<1>2. \A n \in 1..N : /\ rest[n].dir = frames[n].dir /\ rest[n].owned = frames[n].owned
                      /\ Names(rest[n]) = Names(frames[n])
  BY <1>1 DEF Names
<1>3. \A q : Waits(rest, q) <=> Waits(frames, q)
  BY <1>1, <1>2 DEF Waits
<1>4. \A q : Runs(rest, q) <=> Runs(frames, q)
  BY <1>1, <1>2 DEF Runs
<1>5. \A n \in 1..N : Pressed(rest[n], live) <=> Pressed(frames[n], live)
  BY <1>2 DEF Pressed
<1>6. NotCalled(rest, calls)
  BY <1>3 DEF Sound, NotCalled
<1>7. Recorded(rest, calls, live)
  BY <1>1, <1>2, <1>5 DEF Sound, Recorded
<1>8. Told(rest, calls, live)
  BY <1>1, <1>2, <1>5 DEF Sound, Told
<1>9. Kept(rest, calls, live)
  BY <1>1, <1>2, <1>4 DEF Sound, Kept
<1>10. AllAccounted(rest, calls, failed, files)
  BY <1>3, <1>4 DEF AllAccounted, Accounted
<1> QED BY <1>6, <1>7, <1>8, <1>9, <1>10 DEF rest, Sound

(* A call for a directory that no call was for, nor for anything in it.    *)
LEMMA EnterSound ==
  ASSUME TreesAssumption, Rooted(files), UNCHANGED files,
         NEW stack \in Seq(Frame), NEW owned \in BOOLEAN, NEW dir \in Path, NEW L,
         Stacked(stack, files), Sound(stack, calls, L),
         dir \in DOMAIN files, Len(dir) = Len(Top) + Len(stack),
         IF stack = <<>> THEN dir = Top ELSE Parent(dir) = stack[Len(stack)].dir,
         \A m \in 1..Len(stack) :
             \E z \in STRING : z \notin stack[m].unread /\ Within(dir, Append(stack[m].dir, z)),
         \A c \in calls : ~Within(c.dir, dir),
         \A q : Waits(stack, q) => ~Within(dir, q),
         \A p \in DOMAIN files : Within(p, Top) =>
             Accounted(p, stack, calls, failed) \/ Within(p, dir),
         calls \in SUBSET CallRecord,
         Enter(dir, owned, stack),
         live' = L \cup (IF owned THEN {dir} ELSE {})
  PROVE  /\ Stacked(frames', files')
         /\ Sound(frames', calls', live')
         /\ AllAccounted(frames', calls', failed', files')
<1> DEFINE D     == Len(stack)
           names == {path[Len(path)] : path \in Children(dir)}
           top   == [dir |-> dir, owned |-> owned, unread |-> Dots \cup names]
           Called(ok) == [dir |-> dir, owned |-> owned, ok |-> ok, entries |-> Children(dir)]
<1>1. D \in Nat /\ Len(Top) \in Nat \ {0} /\ Len(dir) # 0
  <2>1. Top \in Path /\ Top # <<>>
    BY DEF TreesAssumption, Path
  <2>2. Len(Top) \in Nat \ {0} /\ D \in Nat
    BY <2>1, ParentOf
  <2> QED BY <2>2
<1>2. Within(dir, dir) /\ \A c \in calls : c.dir # dir
  BY WithinOrder
<1>3. ~Runs(stack, dir)
  BY Depths DEF Stacked
<1>4. \A n \in 1..D : stack[n].dir # dir
  BY <1>3 DEF Runs
<1>5. L \subseteq live' /\ \A p \in live' : p \in L \/ (owned /\ p = dir)
  OBVIOUS
<1>6. \A n \in 1..D : Pressed(stack[n], live') <=> Pressed(stack[n], L)
  BY <1>4, <1>5 DEF Pressed
<1>7. CASE /\ files[dir] \in DirKinds /\ frames' = Append(stack, top)
           /\ calls' = calls \cup {Called(TRUE)} /\ failed' = failed
  <2> DEFINE new == Called(TRUE)
             fs  == frames'
  <2>1. \A q \in Children(dir) :
            /\ q \in DOMAIN files /\ q \in Path /\ q[Len(q)] \in STRING \ Dots
            /\ q = Append(dir, q[Len(q)]) /\ Within(q, dir) /\ ~Within(dir, q)
    BY Entries
  <2>2. top \in Frame /\ top.dir = dir /\ top.owned = owned /\ Names(top) = names
    BY <2>1 DEF Frame, Names, Path
  <2>3. /\ new.dir = dir /\ (new.owned <=> owned) /\ new.ok /\ new.entries = Children(dir)
        /\ \A c \in calls' : c \in calls \/ c = new
        /\ new \in calls' /\ calls \subseteq calls'
    BY <1>7
  <2> HIDE DEF new, top
  <2>4. /\ fs \in Seq(Frame) /\ Len(fs) = D + 1 /\ fs[D + 1] = top
        /\ \A n \in 1..D : fs[n] = stack[n]
        /\ D + 1 \in 1..(D + 1)
        /\ \A n \in 1..(D + 1) : n \in 1..D \/ n = D + 1
        /\ \A n \in 1..D : n \in 1..(D + 1)
    <3>1. \A n \in 1..(D + 1) : n \in 1..D \/ n = D + 1
      BY <1>1
    <3>2. D + 1 \in 1..(D + 1) /\ \A n \in 1..D : n \in 1..(D + 1)
      BY <1>1
    <3>3. frames' = Append(stack, top)
      BY <1>7 DEF top
    <3> QED BY <2>2, <3>1, <3>2, <3>3, AppendProperties
  <2> HIDE DEF fs
  <2>5. \A q : Waits(fs, q) <=> Waits(stack, q) \/ q \in Children(dir)
    <3>1. ASSUME NEW q, Waits(fs, q) PROVE Waits(stack, q) \/ q \in Children(dir)
      <4>1. PICK n \in 1..(D + 1) : \E x \in Names(fs[n]) : q = Append(fs[n].dir, x)
        BY <2>4, <3>1 DEF Waits
      <4>2. CASE n \in 1..D
        BY <2>4, <4>1, <4>2 DEF Waits
      <4>3. CASE n = D + 1
        <5>1. PICK x \in names : q = Append(dir, x)
          BY <2>2, <2>4, <4>1, <4>3
        <5>2. PICK r \in Children(dir) : x = r[Len(r)]
          BY <5>1
        <5> QED BY <2>1, <5>1, <5>2
      <4> QED BY <2>4, <4>2, <4>3
    <3>2. ASSUME NEW q, Waits(stack, q) PROVE Waits(fs, q)
      <4>1. PICK n \in 1..D : \E x \in Names(stack[n]) : q = Append(stack[n].dir, x)
        BY <3>2 DEF Waits
      <4> QED BY <2>4, <4>1 DEF Waits
    <3>3. ASSUME NEW q \in Children(dir) PROVE Waits(fs, q)
      <4>1. q[Len(q)] \in Names(fs[D + 1]) /\ q = Append(fs[D + 1].dir, q[Len(q)])
        BY <2>1, <2>2, <2>4
      <4> QED BY <2>4, <4>1 DEF Waits
    <3> QED BY <3>1, <3>2, <3>3
  <2>6. \A q : Runs(fs, q) <=> Runs(stack, q) \/ q = dir
    <3>1. ASSUME NEW q, Runs(fs, q) PROVE Runs(stack, q) \/ q = dir
      BY <2>2, <2>4, <3>1 DEF Runs
    <3>2. ASSUME NEW q, Runs(stack, q) PROVE Runs(fs, q)
      <4>1. PICK n \in 1..D : stack[n].dir = q
        BY <3>2 DEF Runs
      <4> QED BY <2>4, <4>1 DEF Runs
    <3>3. Runs(fs, dir)
      BY <2>2, <2>4 DEF Runs
    <3> QED BY <3>1, <3>2, <3>3
  <2>7. Stacked(fs, files)
    <3>1. Open(fs, files)
      <4>1. Len(dir) = Len(Top) + (D + 1) - 1
        BY <1>1
      <4> QED BY <1>7, <2>2, <2>4, <4>1 DEF Stacked, Open
    <3>2. Nested(fs)
      <4>1. ASSUME NEW n \in 1..D
            PROVE  /\ IF n = 1 THEN fs[n].dir = Top ELSE Parent(fs[n].dir) = fs[n - 1].dir
                   /\ \A m \in 1..(n - 1) :
                          \E z \in STRING : /\ z \notin fs[m].unread
                                            /\ Within(fs[n].dir, Append(fs[m].dir, z))
        <5>1. n # 1 => n - 1 \in 1..D
          BY <1>1
        <5>2. \A m \in 1..(n - 1) : m \in 1..D
          BY <1>1
        <5> QED BY <2>4, <5>1, <5>2 DEF Stacked, Nested
      <4>2. /\ IF D + 1 = 1 THEN fs[D + 1].dir = Top
               ELSE Parent(fs[D + 1].dir) = fs[(D + 1) - 1].dir
            /\ \A m \in 1..((D + 1) - 1) :
                   \E z \in STRING : /\ z \notin fs[m].unread
                                     /\ Within(fs[D + 1].dir, Append(fs[m].dir, z))
        <5>1. (D + 1) - 1 = D /\ (D + 1 = 1 => D = 0) /\ (D + 1 # 1 => D \in 1..D)
          BY <1>1
        <5>2. D = 0 <=> stack = <<>>
          OBVIOUS
        <5>3. D \in 1..D => fs[D] = stack[D] /\ stack # <<>>
          BY <2>4, <5>2, <1>1
        <5>4. IF D + 1 = 1 THEN fs[D + 1].dir = Top
              ELSE Parent(fs[D + 1].dir) = fs[(D + 1) - 1].dir
          BY <2>2, <2>4, <5>1, <5>2, <5>3
        <5>5. \A m \in 1..D : \E z \in STRING : /\ z \notin fs[m].unread
                                                /\ Within(fs[D + 1].dir, Append(fs[m].dir, z))
          BY <2>2, <2>4
        <5> QED BY <5>1, <5>4, <5>5
      <4> QED BY <2>4, <4>1, <4>2 DEF Nested
    <3>3. There(fs, files)
      BY <2>1, <2>5 DEF Stacked, There
    <3> QED BY <3>1, <3>2, <3>3 DEF Stacked
  <2>8. NotCalled(fs, calls')
    <3> SUFFICES ASSUME NEW c \in calls', NEW q, Waits(fs, q), Within(c.dir, q) PROVE FALSE
      BY DEF NotCalled
    <3>1. CASE c \in calls /\ Waits(stack, q)
      BY <3>1 DEF Sound, NotCalled
    <3>2. CASE c \in calls /\ q \in Children(dir)
      <4>1. c.dir \in Path /\ q \in Path /\ Within(q, dir)
        BY <2>1, <3>2 DEF CallRecord
      <4>2. Within(c.dir, dir)
        BY <4>1, WithinOrder
      <4> QED BY <3>2, <4>2
    <3>3. CASE c = new
      BY <2>1, <2>3, <2>5, <3>3
    <3> QED BY <2>3, <2>5, <3>1, <3>2, <3>3
  <2>9. Recorded(fs, calls', live')
    <3>1. ASSUME NEW n \in 1..D
          PROVE  \E c \in calls' : /\ c.ok /\ c.dir = fs[n].dir /\ (c.owned <=> fs[n].owned)
                                   /\ Pressed(fs[n], live') => c.entries # {}
      <4>1. PICK c \in calls : /\ c.ok /\ c.dir = stack[n].dir /\ (c.owned <=> stack[n].owned)
                               /\ Pressed(stack[n], L) => c.entries # {}
        BY DEF Sound, Recorded
      <4> QED BY <1>6, <2>3, <2>4, <4>1
    <3>2. Pressed(top, live') => new.entries # {}
      BY <1>5, <2>2, <2>3 DEF Pressed
    <3> QED BY <2>2, <2>3, <2>4, <3>1, <3>2 DEF Recorded
  <2>10. Told(fs, calls', live')
    <3> SUFFICES ASSUME NEW c \in calls', c.owned, c.ok, c.entries # {}
                 PROVE  \E n \in 1..(D + 1) : fs[n].dir = c.dir /\ Pressed(fs[n], live')
      BY <2>4 DEF Told
    <3>1. CASE c \in calls
      <4>1. PICK n \in 1..D : stack[n].dir = c.dir /\ Pressed(stack[n], L)
        BY <3>1 DEF Sound, Told
      <4> QED BY <1>6, <2>4, <4>1
    <3>2. CASE c = new
      <4>1. Names(top) # {} /\ owned
        BY <2>2, <2>3, <3>2
      <4> QED BY <2>2, <2>3, <2>4, <3>2, <4>1 DEF Pressed
    <3> QED BY <2>3, <3>1, <3>2
  <2>11. Kept(fs, calls', live')
    <3>1. Leaked(calls') = Leaked(calls)
      BY <2>3 DEF Leaked
    <3>2. Leaked(calls) \subseteq live'
      BY <1>5 DEF Sound, Kept
    <3>3. ASSUME NEW p \in live'
          PROVE  p \in Leaked(calls) \/ \E n \in 1..(D + 1) : fs[n].owned /\ fs[n].dir = p
      <4>1. CASE p \in L
        <5>1. p \in Leaked(calls) \/ \E n \in 1..D : stack[n].owned /\ stack[n].dir = p
          BY <4>1 DEF Sound, Kept
        <5> QED BY <2>4, <5>1
      <4>2. CASE owned /\ p = dir
        BY <2>2, <2>4, <4>2
      <4> QED BY <1>5, <4>1, <4>2
    <3>4. \A c \in calls' : ~c.ok => ~Runs(fs, c.dir)
      BY <1>2, <2>3, <2>6 DEF Sound, Kept
    <3> QED BY <2>4, <3>1, <3>2, <3>3, <3>4 DEF Kept
  <2>12. AllAccounted(fs, calls', failed', files)
    <3> SUFFICES ASSUME NEW p \in DOMAIN files, Within(p, Top)
                 PROVE  Accounted(p, fs, calls', failed)
      BY <1>7 DEF AllAccounted
    <3>1. CASE Within(p, dir)
      <4>1. CASE p = dir
        BY <2>6, <4>1 DEF Accounted
      <4>2. CASE p # dir
        <5>1. PICK q \in Children(dir) : Within(p, q)
          BY <1>1, <3>1, <4>2, Entries
        <5> QED BY <2>5, <5>1 DEF Accounted
      <4> QED BY <4>1, <4>2
    <3>2. CASE ~Within(p, dir)
      <4>1. Accounted(p, stack, calls, failed)
        BY <3>2
      <4>2. ASSUME NEW e, Within(p, e), Unopened(calls, e) PROVE Unopened(calls', e)
        BY <2>3, <3>2, <4>2 DEF Unopened
      <4> QED BY <2>5, <2>6, <4>1, <4>2 DEF Accounted
    <3> QED BY <3>1, <3>2
  <2>13. Sound(fs, calls', live')
    BY <2>8, <2>9, <2>10, <2>11 DEF Sound
  <2> QED BY <2>7, <2>12, <2>13 DEF fs
<1>8. CASE /\ frames' = stack /\ calls' = calls \cup {Called(FALSE)}
           /\ failed' = failed \cup {dir}
  <2> DEFINE new == Called(FALSE)
  <2>1. /\ new.dir = dir /\ (new.owned <=> owned) /\ ~new.ok
        /\ \A c \in calls' : c \in calls \/ c = new
        /\ new \in calls' /\ calls \subseteq calls'
    BY <1>8
  <2> HIDE DEF new
  <2>2. Stacked(frames', files')
    BY <1>8
  <2>3. NotCalled(stack, calls')
    BY <2>1 DEF Sound, NotCalled
  <2>4. Recorded(stack, calls', live')
    <3> SUFFICES ASSUME NEW n \in 1..D
                 PROVE  \E c \in calls' :
                            /\ c.ok /\ c.dir = stack[n].dir /\ (c.owned <=> stack[n].owned)
                            /\ Pressed(stack[n], live') => c.entries # {}
      BY DEF Recorded
    <3>1. PICK c \in calls : /\ c.ok /\ c.dir = stack[n].dir /\ (c.owned <=> stack[n].owned)
                             /\ Pressed(stack[n], L) => c.entries # {}
      BY DEF Sound, Recorded
    <3> QED BY <1>6, <2>1, <3>1
  <2>5. Told(stack, calls', live')
    <3> SUFFICES ASSUME NEW c \in calls', c.owned, c.ok, c.entries # {}
                 PROVE  \E n \in 1..D : stack[n].dir = c.dir /\ Pressed(stack[n], live')
      BY DEF Told
    <3>1. c \in calls
      BY <2>1
    <3>2. PICK n \in 1..D : stack[n].dir = c.dir /\ Pressed(stack[n], L)
      BY <3>1 DEF Sound, Told
    <3> QED BY <1>6, <3>2
  <2>6. Kept(stack, calls', live')
    <3>1. \A p : p \in Leaked(calls') <=> p \in Leaked(calls) \/ (owned /\ p = dir)
      BY <2>1 DEF Leaked
    <3>2. Leaked(calls') \subseteq live'
      BY <1>5, <3>1 DEF Sound, Kept
    <3>3. \A p \in live' : p \in Leaked(calls')
                           \/ \E n \in 1..D : stack[n].owned /\ stack[n].dir = p
      BY <1>5, <3>1 DEF Sound, Kept
    <3>4. \A c \in calls' : ~c.ok => ~Runs(stack, c.dir)
      BY <1>3, <2>1 DEF Sound, Kept
    <3> QED BY <3>2, <3>3, <3>4 DEF Kept
  <2>7. AllAccounted(stack, calls', failed', files)
    <3> SUFFICES ASSUME NEW p \in DOMAIN files, Within(p, Top)
                 PROVE  Accounted(p, stack, calls', failed')
      BY DEF AllAccounted
    <3>1. \A e : Unopened(calls, e) => Unopened(calls', e)
      BY <2>1 DEF Unopened
    <3>2. Unopened(calls', dir)
      BY <1>2, <2>1 DEF Unopened
    <3>3. failed \subseteq failed' /\ dir \in failed'
      BY <1>8
    <3> QED BY <3>1, <3>2, <3>3 DEF Accounted
  <2>8. Sound(stack, calls', live')
    BY <2>3, <2>4, <2>5, <2>6 DEF Sound
  <2> QED BY <1>8, <2>2, <2>7, <2>8
<1> QED BY <1>7, <1>8 DEF Enter

(* What remains to be done when an entry is gone, or was failed on.        *)
LEMMA UnlinkSound ==
  ASSUME TreesAssumption, DirInv, Running, Rooted(files), Stacked(frames, files),
         NEW name \in Names(Inner), NEW child, child = Append(Inner.dir, name),
         Sound(frames, calls, live), Readable, AllAccounted(frames, calls, failed, files),
         \/ files[child] = "file" /\ Remove(child) /\ UNCHANGED failed
         \/ Fails(child)
  PROVE  /\ Rooted(files') /\ Stacked(Rest(name), files')
         /\ AllAccounted(Rest(name), calls, failed', files')
<1> DEFINE rest == Rest(name)
<1>1. /\ child \in Path /\ child \in DOMAIN files /\ ~Runs(frames, child)
      /\ Len(child) = Len(Top) + Len(frames) /\ Waits(frames, child)
      /\ \A q : Waits(rest, q) <=> Waits(frames, q) /\ q # child
  BY ReadChild
<1>2. Stacked(rest, files) /\ \A q : Runs(rest, q) <=> Runs(frames, q)
  BY RestStacked
<1>3. /\ Unopened(calls, child)
      /\ \A p : Accounted(p, frames, calls, failed) =>
             Accounted(p, rest, calls, failed) \/ Within(p, child)
  BY ReadSound
<1> HIDE DEF rest
<1>4. CASE files[child] = "file" /\ Remove(child) /\ UNCHANGED failed
  <2>1. Len(child) # 0
    <3>1. Top \in Path /\ Top # <<>>
      BY DEF TreesAssumption, Path
    <3>2. Len(Top) \in Nat \ {0} /\ Len(frames) \in Nat
      BY <3>1, ParentOf DEF DirInv
    <3> QED BY <1>1, <3>2
  <2>2. Children(child) = {}
    BY <1>1, <1>4, FileIsEmpty DEF DirInv
  <2>3. /\ Rooted(files') /\ DOMAIN files' = DOMAIN files \ {child}
        /\ \A q \in DOMAIN files' : files'[q] = files[q]
    BY <1>1, <1>4, <2>1, <2>2, RemoveKeepsRooted
  <2>4. Open(rest, files')
    <3>1. \A n \in 1..Len(rest) : rest[n].dir # child
      BY <1>1, <1>2 DEF Runs
    <3> QED BY <1>2, <2>3, <3>1 DEF Stacked, Open
  <2>5. There(rest, files')
    BY <1>1, <1>2, <2>3 DEF Stacked, There
  <2>6. \A p \in DOMAIN files' : ~Within(p, child)
    BY <1>1, <2>1, <2>2, <2>3, Entries
  <2>7. AllAccounted(rest, calls, failed', files')
    BY <1>3, <1>4, <2>3, <2>6 DEF AllAccounted
  <2> QED BY <1>2, <2>3, <2>4, <2>5, <2>7 DEF Stacked, rest
<1>5. CASE Fails(child)
  <2>1. failed' = failed \cup {child} /\ files' = files
    BY <1>5 DEF Fails
  <2>2. \A p : Accounted(p, rest, calls, failed) => Accounted(p, rest, calls, failed')
    BY <2>1 DEF Accounted
  <2>3. \A p : Within(p, child) => Accounted(p, rest, calls, failed')
    BY <1>3, <2>1 DEF Accounted
  <2>4. AllAccounted(rest, calls, failed', files')
    BY <1>3, <2>1, <2>2, <2>3 DEF AllAccounted
  <2> QED BY <1>2, <2>1, <2>4 DEF rest
<1> QED BY <1>4, <1>5

(* The end of a call.                                                      *)
LEMMA UnderStack ==
  ASSUME DirInv, Running, Stacked(frames, files)
  PROVE  /\ Under \in Seq(Frame) /\ Len(frames) \in Nat \ {0} /\ Len(Under) = Len(frames) - 1
         /\ \A n \in 1..Len(Under) : n \in 1..Len(frames) /\ Under[n] = frames[n]
         /\ \A n \in 1..Len(frames) : n \in 1..Len(Under) \/ n = Len(frames)
         /\ Inner = frames[Len(frames)] /\ Len(frames) \in 1..Len(frames)
         /\ Stacked(Under, files)
<1>1. frames \in Seq(Frame) /\ frames # <<>>
  BY DEF DirInv, Running
<1>2. /\ Under \in Seq(Frame) /\ Len(frames) \in Nat \ {0} /\ Len(Under) = Len(frames) - 1
      /\ \A n \in 1..Len(Under) : n \in 1..Len(frames) /\ Under[n] = frames[n]
  BY <1>1, Popped DEF Under
<1>3. Inner = frames[Len(frames)] /\ Len(frames) \in 1..Len(frames)
  BY <1>2 DEF Inner
<1>4. Open(Under, files)
  BY <1>2 DEF Stacked, Open
<1>5. Nested(Under)
  <2>1. \A n \in 1..Len(Under) : n # 1 => n - 1 \in 1..Len(Under)
    BY <1>2
  <2>2. \A n \in 1..Len(Under) : \A m \in 1..(n - 1) : m \in 1..Len(Under)
    BY <1>2
  <2> QED BY <1>2, <2>1, <2>2 DEF Stacked, Nested
<1>6. There(Under, files)
  BY <1>2 DEF Stacked, There, Waits
<1>7. \A n \in 1..Len(frames) : n \in 1..Len(Under) \/ n = Len(frames)
  BY <1>2
<1> QED BY <1>2, <1>3, <1>4, <1>5, <1>6, <1>7 DEF Stacked

LEMMA LeaveSound ==
  ASSUME TreesAssumption, DirInv, Running, Rooted(files), Stacked(frames, files),
         Inner.unread = {}, Readable, Sound(frames, calls, live),
         AllAccounted(frames, calls, failed, files),
         \/ Children(Inner.dir) = {} /\ Remove(Inner.dir) /\ UNCHANGED failed
         \/ Fails(Inner.dir)
  PROVE  /\ Rooted(files') /\ Stacked(Under, files')
         /\ Sound(Under, calls, live \ Freed)
         /\ AllAccounted(Under, calls, failed', files')
<1> DEFINE N == Len(frames)
           d == Inner.dir
           L == live \ Freed
<1>1. /\ Under \in Seq(Frame) /\ N \in Nat \ {0} /\ Len(Under) = N - 1
      /\ \A n \in 1..Len(Under) : n \in 1..N /\ Under[n] = frames[n]
      /\ \A n \in 1..N : n \in 1..Len(Under) \/ n = N
      /\ Inner = frames[N] /\ N \in 1..N /\ Stacked(Under, files)
      /\ frames \in Seq(Frame)
  BY UnderStack DEF DirInv
<1>2. /\ d \in Path /\ Len(d) # 0 /\ d \in DOMAIN files
      /\ \A n \in 1..Len(Under) : Under[n].dir # d
  <2>1. /\ \A n, m \in 1..N : n # m => frames[n].dir # frames[m].dir
        /\ \A n \in 1..N : Len(frames[n].dir) # 0
    BY <1>1, Depths DEF Stacked
  <2>2. \A n \in 1..Len(Under) : n # N
    BY <1>1
  <2>3. frames[N].dir \in Path
    BY <1>1, FrameTypes
  <2>4. d \in DOMAIN files
    BY <1>1 DEF Stacked, Open
  <2> QED BY <1>1, <2>1, <2>2, <2>3, <2>4
<1>3. Names(frames[N]) = {}
  BY <1>1 DEF Names
<1>4. \A q : Waits(Under, q) <=> Waits(frames, q)
  <2>1. ASSUME NEW q, Waits(frames, q) PROVE Waits(Under, q)
    <3>1. PICK n \in 1..N : \E x \in Names(frames[n]) : q = Append(frames[n].dir, x)
      BY <2>1 DEF Waits
    <3>2. n \in 1..Len(Under)
      BY <1>1, <1>3, <3>1
    <3> QED BY <1>1, <3>1, <3>2 DEF Waits
  <2>2. ASSUME NEW q, Waits(Under, q) PROVE Waits(frames, q)
    BY <1>1, <2>2 DEF Waits
  <2> QED BY <2>1, <2>2
<1>5. /\ \A q : Runs(Under, q) => Runs(frames, q)
      /\ \A q : Runs(frames, q) => Runs(Under, q) \/ q = d
      /\ Runs(frames, d)
  BY <1>1 DEF Runs
<1>6. L \subseteq live /\ (Inner.owned => d \notin L /\ d \in live)
      /\ \A p \in live : p # d => p \in L
  BY DEF Freed, Readable
<1>7. ~Waits(frames, d)
  <2>1. PICK c \in calls : c.dir = frames[N].dir
    BY <1>1 DEF Sound, Recorded
  <2>2. Within(c.dir, d)
    BY <1>1, <1>2, <2>1, WithinOrder
  <2> QED BY <2>1, <2>2 DEF Sound, NotCalled
<1> HIDE DEF L
<1>8. \A n \in 1..Len(Under) : Pressed(Under[n], L) <=> Pressed(frames[n], live)
  BY <1>1, <1>2, <1>6 DEF Pressed
<1>9. Sound(Under, calls, L)
  <2>1. NotCalled(Under, calls)
    BY <1>4 DEF Sound, NotCalled
  <2>2. Recorded(Under, calls, L)
    BY <1>1, <1>8 DEF Sound, Recorded
  <2>3. Told(Under, calls, L)
    <3> SUFFICES ASSUME NEW c \in calls, c.owned, c.ok, c.entries # {}
                 PROVE  \E n \in 1..Len(Under) : Under[n].dir = c.dir /\ Pressed(Under[n], L)
      BY DEF Told
    <3>1. PICK n \in 1..N : frames[n].dir = c.dir /\ Pressed(frames[n], live)
      BY DEF Sound, Told
    <3>2. n # N
      BY <1>1, <1>3, <1>6, <3>1 DEF Pressed
    <3> QED BY <1>1, <1>8, <3>1, <3>2
  <2>4. Kept(Under, calls, L)
    <3>1. d \notin Leaked(calls)
      BY <1>5 DEF Sound, Kept, Leaked
    <3>2. Leaked(calls) \subseteq L
      BY <1>6, <3>1 DEF Sound, Kept
    <3>3. ASSUME NEW p \in L
          PROVE  p \in Leaked(calls) \/ \E n \in 1..Len(Under) : Under[n].owned /\ Under[n].dir = p
      <4>1. p \in Leaked(calls) \/ \E n \in 1..N : frames[n].owned /\ frames[n].dir = p
        BY <1>6 DEF Sound, Kept
      <4>2. ~(frames[N].owned /\ frames[N].dir = p)
        BY <1>1, <1>6
      <4> QED BY <1>1, <4>1, <4>2
    <3>4. \A c \in calls : ~c.ok => ~Runs(Under, c.dir)
      BY <1>5 DEF Sound, Kept
    <3> QED BY <3>2, <3>3, <3>4 DEF Kept
  <2> QED BY <2>1, <2>2, <2>3, <2>4 DEF Sound
<1>10. CASE Children(d) = {} /\ Remove(d) /\ UNCHANGED failed
  <2>1. /\ Rooted(files') /\ DOMAIN files' = DOMAIN files \ {d}
        /\ \A q \in DOMAIN files' : files'[q] = files[q]
    BY <1>2, <1>10, RemoveKeepsRooted
  <2>2. Open(Under, files')
    BY <1>1, <1>2, <2>1 DEF Stacked, Open
  <2>3. There(Under, files')
    BY <1>1, <1>4, <1>7, <2>1 DEF Stacked, There
  <2>4. AllAccounted(Under, calls, failed', files')
    <3> SUFFICES ASSUME NEW p \in DOMAIN files', Within(p, Top)
                 PROVE  Accounted(p, Under, calls, failed')
      BY DEF AllAccounted
    <3>1. Accounted(p, frames, calls, failed) /\ p # d
      BY <2>1 DEF AllAccounted
    <3> QED BY <1>4, <1>5, <1>10, <3>1 DEF Accounted
  <2> QED BY <1>1, <1>9, <2>1, <2>2, <2>3, <2>4 DEF Stacked, L
<1>11. CASE Fails(d)
  <2>1. failed' = failed \cup {d} /\ files' = files
    BY <1>11 DEF Fails
  <2>2. AllAccounted(Under, calls, failed', files')
    <3> SUFFICES ASSUME NEW p \in DOMAIN files, Within(p, Top)
                 PROVE  Accounted(p, Under, calls, failed')
      BY <2>1 DEF AllAccounted
    <3>1. Accounted(p, frames, calls, failed)
      BY DEF AllAccounted
    <3> QED BY <1>4, <1>5, <2>1, <3>1 DEF Accounted
  <2> QED BY <1>1, <1>9, <2>1, <2>2 DEF L
<1> QED BY <1>10, <1>11

(* A path that was freed is used: its call had found something.            *)
LEMMA MisuseTold ==
  ASSUME DirInv, Running, Recorded(frames, calls, live), ~Readable
  PROVE  BadFrees # {}
<1>1. Len(frames) \in 1..Len(frames) /\ Inner = frames[Len(frames)]
  BY RestStack
<1>2. Inner.owned /\ Inner.dir \notin live
  BY DEF Readable
<1>3. PICK c \in calls : /\ c.ok /\ (c.owned <=> Inner.owned)
                         /\ Pressed(Inner, live) => c.entries # {}
  BY <1>1 DEF Recorded
<1>4. c \in BadFrees
  BY <1>2, <1>3 DEF Pressed, BadFrees
<1> QED BY <1>4
----------------------------------------------------------------------------
(* What del_dir leaves, step by step. *)

LEMMA InitRem == ASSUME TreesAssumption PROVE Init => RemInv
<1> SUFFICES ASSUME Init PROVE RemInv
  OBVIOUS
<1>1. Rooted(files)
  BY DEF Init, TreesAssumption, Rooted, Path
<1>2. frames = <<>> /\ Len(frames) = 0
  BY DEF Init
<1>3. Stacked(frames, files)
  BY <1>2 DEF Stacked, Open, Nested, There, Waits
<1>4. Sound(frames, calls, live)
  BY <1>2 DEF Init, Sound, NotCalled, Recorded, Told, Kept, Leaked
<1>5. Typed
  BY DEF Init, Typed, TreesAssumption
<1>6. ~misused /\ calls = {}
  BY DEF Init
<1> QED BY <1>1, <1>3, <1>4, <1>5, <1>6, InitInside DEF RemInv

LEMMA EnterTypes ==
  ASSUME Typed, NEW dir \in Path, NEW owned \in BOOLEAN, NEW stack,
         Children(dir) \in SUBSET Path, Enter(dir, owned, stack)
  PROVE  calls' \in SUBSET CallRecord /\ failed' \in SUBSET Path /\ calls' # {}
<1> DEFINE called(ok) == [dir |-> dir, owned |-> owned, ok |-> ok, entries |-> Children(dir)]
<1>1. called(TRUE) \in CallRecord /\ called(FALSE) \in CallRecord
  BY DEF CallRecord
<1>2. calls \in SUBSET CallRecord /\ failed \in SUBSET Path
  BY DEF Typed
<1>3. \/ calls' = calls \cup {called(TRUE)} /\ failed' = failed
      \/ calls' = calls \cup {called(FALSE)} /\ failed' = failed \cup {dir}
  BY DEF Enter
<1> HIDE DEF called
<1> QED BY <1>1, <1>2, <1>3

LEMMA RemNext ==
  ASSUME TreesAssumption, RemInv, [Next]_vars
  PROVE  RemInv'
<1>1. DirInv'
  BY StepInside DEF RemInv
<1>2. DirInv /\ Typed /\ Rooted(files) /\ Stacked(frames, files)
  BY DEF RemInv
<1>3. \A dir : Children(dir) \in SUBSET Path
  BY <1>2 DEF Children, Rooted
<1>4. Running => Sound(frames, calls, live) /\ AllAccounted(frames, calls, failed, files)
  BY <1>2 DEF RemInv, Running, Typed
<1>5. ASSUME NEW owned \in BOOLEAN, Call(owned) PROVE RemInv'
  <2>1. calls = {} /\ ~misused /\ Top \in DOMAIN files
    BY <1>2, <1>5 DEF Call, Begun, Typed
  <2>2. Top \in Path /\ Within(Top, Top)
    <3>1. Top \in Path
      BY DEF TreesAssumption, Path
    <3> QED BY <3>1, WithinOrder
  <2>3. /\ Enter(Top, owned, <<>>) /\ files' = files /\ misused' = misused
        /\ live' = {} \cup (IF owned THEN {Top} ELSE {})
    BY <1>5 DEF Call
  <2>4. <<>> \in Seq(Frame) /\ Len(<<>>) = 0 /\ Len(Top) = Len(Top) + Len(<<>>)
    <3>1. Len(Top) \in Nat
      BY <2>2 DEF Path
    <3> QED BY <3>1
  <2>5. Stacked(<<>>, files)
    BY <2>4 DEF Stacked, Open, Nested, There, Waits
  <2>6. Sound(<<>>, calls, {})
    BY <2>1, <2>4 DEF Sound, NotCalled, Recorded, Told, Kept, Leaked
  <2>7. \A q : ~Waits(<<>>, q)
    BY <2>4 DEF Waits
  <2>8. \A m \in 1..Len(<<>>) :
            \E z \in STRING : z \notin <<>>[m].unread /\ Within(Top, Append(<<>>[m].dir, z))
    BY <2>4
  <2>9. calls \in SUBSET CallRecord
    BY <1>2 DEF Typed
  <2> DEFINE none == <<>>
  <2>10. /\ none \in Seq(Frame) /\ none = <<>> /\ Len(none) = 0
         /\ Enter(Top, owned, none) /\ Stacked(none, files) /\ Sound(none, calls, {})
         /\ \A q : ~Waits(none, q)
         /\ \A m \in 1..Len(none) :
                \E z \in STRING : z \notin none[m].unread /\ Within(Top, Append(none[m].dir, z))
         /\ Len(Top) = Len(Top) + Len(none)
    BY <2>3, <2>4, <2>5, <2>6, <2>7, <2>8
  <2> HIDE DEF none
  <2>11. /\ Stacked(frames', files')
         /\ Sound(frames', calls', live')
         /\ AllAccounted(frames', calls', failed', files')
    BY <1>2, <2>1, <2>2, <2>3, <2>9, <2>10, EnterSound
  <2>12. /\ calls' \in SUBSET CallRecord /\ failed' \in SUBSET Path /\ calls' # {}
    BY <1>2, <1>3, <2>2, <2>3, EnterTypes
  <2>13. Typed'
    BY <1>2, <2>1, <2>2, <2>3, <2>12 DEF Typed
  <2> QED BY <1>1, <1>2, <2>1, <2>3, <2>11, <2>13 DEF RemInv
<1>6. CASE SkipDots
  <2>1. PICK name \in Inner.unread \cap Dots : Read(name)
    BY <1>6 DEF SkipDots
  <2>2. /\ Running /\ frames' = Rest(name)
        /\ files' = files /\ live' = live /\ misused' = misused
        /\ calls' = calls /\ failed' = failed
    BY <1>6, <2>1 DEF SkipDots, Read, Rest
  <2>3. Stacked(frames', files')
    BY <1>2, <2>2, RestStacked
  <2>4. Sound(frames', calls', live') /\ AllAccounted(frames', calls', failed', files')
    BY <1>2, <1>4, <2>1, <2>2, SkipSound
  <2>5. calls # {} /\ ~misused
    BY <1>2, <2>2 DEF Running, Typed
  <2>6. Typed'
    BY <1>2, <2>2, <2>5 DEF Typed
  <2> QED BY <1>1, <1>2, <2>2, <2>3, <2>4, <2>5, <2>6 DEF RemInv
<1>7. CASE EnterChild
  <2>1. PICK name \in Names(Inner) :
            LET child == Resolve(Inner.dir, name) IN
            IF Readable
            THEN /\ live' = (live \ Freed) \cup {child}
                 /\ Enter(child, TRUE, Rest(name)) /\ UNCHANGED <<files, misused>>
            ELSE Read(name) /\ Misuse
    BY <1>7 DEF EnterChild, Names, Rest
  <2> DEFINE child == Append(Inner.dir, name)
             rest  == Rest(name)
  <2>2. Running /\ ~misused
    BY <1>7 DEF EnterChild, Running
  <2>3. calls # {} /\ Sound(frames, calls, live) /\ AllAccounted(frames, calls, failed, files)
    BY <1>2, <1>4, <2>2 DEF Running, Typed
  <2>4. /\ name \in STRING /\ Resolve(Inner.dir, name) = child
        /\ child \in Path /\ Len(child) = Len(Top) + Len(frames) /\ Within(child, Top)
        /\ child \in DOMAIN files /\ ~Runs(frames, child)
        /\ \A q : Waits(rest, q) => ~Within(child, q)
    BY <1>2, <2>2, ReadChild
  <2>5. /\ rest \in Seq(Frame) /\ Len(frames) \in Nat \ {0} /\ Len(rest) = Len(frames)
        /\ \A n \in 1..Len(frames) : rest[n].dir = frames[n].dir
        /\ rest[Len(frames)].unread = frames[Len(frames)].unread \ {name}
        /\ Inner = frames[Len(frames)] /\ Len(frames) \in 1..Len(frames)
    BY <1>2, <2>2, RestStack
  <2>6. Inner.dir \in Path
    BY <1>2, <2>5, FrameTypes DEF DirInv
  <2>7. Stacked(rest, files)
    BY <1>2, <2>2, RestStacked
  <2> HIDE DEF rest, child
  <2>8. CASE Readable
    <3>1. /\ live' = (live \ Freed) \cup {child} /\ Enter(child, TRUE, rest)
          /\ files' = files /\ misused' = misused
      BY <2>1, <2>4, <2>8 DEF rest
    <3>2. /\ Sound(rest, calls, live \ Freed)
          /\ \A c \in calls : ~Within(c.dir, child)
          /\ \A p : Accounted(p, frames, calls, failed) =>
                 Accounted(p, rest, calls, failed) \/ Within(p, child)
      BY <1>2, <2>2, <2>3, <2>8, ReadSound DEF rest, child
    <3>3. \A p \in DOMAIN files : Within(p, Top) =>
              Accounted(p, rest, calls, failed) \/ Within(p, child)
      BY <2>3, <3>2 DEF AllAccounted
    <3>4. rest # <<>> /\ Parent(child) = rest[Len(rest)].dir
      <4>1. Parent(child) = Inner.dir
        BY <2>4, <2>6, ParentOf DEF child
      <4> QED BY <2>5, <4>1
    <3>5. \A m \in 1..Len(rest) :
              \E z \in STRING : z \notin rest[m].unread /\ Within(child, Append(rest[m].dir, z))
      <4>1. CASE Len(rest) = Len(frames)
        <5> SUFFICES ASSUME NEW m \in 1..Len(frames)
                     PROVE  \E z \in STRING : /\ z \notin rest[m].unread
                                              /\ Within(child, Append(rest[m].dir, z))
          BY <4>1
        <5>1. CASE m = Len(frames)
          <6>1. name \notin rest[m].unread /\ Append(rest[m].dir, name) = child
            BY <2>5, <5>1 DEF child
          <6>2. Within(child, child)
            BY <2>4, WithinOrder
          <6> QED BY <2>4, <6>1, <6>2
        <5>2. CASE m # Len(frames)
          <6>1. m \in 1..(Len(frames) - 1)
            BY <2>5, <5>2
          <6>2. PICK z \in STRING : /\ z \notin rest[m].unread
                                    /\ Within(rest[Len(frames)].dir, Append(rest[m].dir, z))
            BY <2>5, <2>7, <6>1 DEF Stacked, Nested
          <6>3. rest[m].dir \in Path
            BY <2>5, FrameTypes
          <6>4. Append(rest[m].dir, z) \in Path
            BY <6>3, Extended
          <6>5. Within(child, Inner.dir)
            BY <2>4, <2>6, WithinOrder DEF child
          <6>6. Within(child, Append(rest[m].dir, z))
            BY <2>4, <2>5, <2>6, <6>2, <6>4, <6>5, WithinOrder
          <6> QED BY <6>2, <6>6
        <5> QED BY <5>1, <5>2
      <4> QED BY <2>5, <4>1
    <3>6. calls \in SUBSET CallRecord
      BY <1>2 DEF Typed
    <3>7. /\ Stacked(frames', files')
          /\ Sound(frames', calls', live')
          /\ AllAccounted(frames', calls', failed', files')
      BY <1>2, <2>4, <2>5, <2>7, <3>1, <3>2, <3>3, <3>4, <3>5, <3>6, EnterSound
    <3>8. /\ calls' \in SUBSET CallRecord /\ failed' \in SUBSET Path /\ calls' # {}
      BY <1>2, <1>3, <2>4, <3>1, EnterTypes
    <3>9. Typed'
      BY <1>2, <2>2, <2>4, <3>1, <3>8 DEF Typed
    <3> QED BY <1>1, <1>2, <2>2, <3>1, <3>7, <3>9 DEF RemInv
  <2>9. CASE ~Readable
    <3>1. /\ frames' = rest /\ misused' = TRUE
          /\ files' = files /\ live' = live /\ calls' = calls /\ failed' = failed
      BY <2>1, <2>9 DEF Read, Rest, Misuse, rest
    <3>2. BadFrees # {}
      BY <1>2, <2>2, <2>3, <2>9, MisuseTold DEF Sound
    <3>3. BadFrees' # {}
      BY <3>1, <3>2 DEF BadFrees
    <3>4. Typed'
      BY <1>2, <2>3, <3>1 DEF Typed
    <3> QED BY <1>1, <1>2, <2>7, <3>1, <3>3, <3>4 DEF RemInv
  <2> QED BY <2>8, <2>9
<1>8. CASE UnlinkChild
  <2>1. PICK name \in Names(Inner) :
            LET child == Resolve(Inner.dir, name) IN
            /\ Read(name)
            /\ IF Readable
               THEN /\ \/ files[child] = "file" /\ Remove(child) /\ UNCHANGED failed
                       \/ Fails(child)
                    /\ live' = live \ Freed
                    /\ UNCHANGED <<misused, calls>>
               ELSE Misuse
    BY <1>8 DEF UnlinkChild, Names
  <2> DEFINE child == Append(Inner.dir, name)
             rest  == Rest(name)
  <2>2. Running /\ ~misused
    BY <1>8 DEF UnlinkChild, Running
  <2>3. calls # {} /\ Sound(frames, calls, live) /\ AllAccounted(frames, calls, failed, files)
    BY <1>2, <1>4, <2>2 DEF Running, Typed
  <2>4. Resolve(Inner.dir, name) = child /\ child \in Path
    BY <1>2, <2>2, ReadChild
  <2>5. frames' = rest
    BY <2>1 DEF Read, Rest
  <2>6. Stacked(rest, files)
    BY <1>2, <2>2, RestStacked
  <2> HIDE DEF rest, child
  <2>7. CASE Readable
    <3>1. /\ \/ files[child] = "file" /\ Remove(child) /\ UNCHANGED failed
             \/ Fails(child)
          /\ live' = live \ Freed /\ misused' = misused /\ calls' = calls
      BY <2>1, <2>4, <2>7
    <3>2. /\ Rooted(files') /\ Stacked(rest, files')
          /\ AllAccounted(rest, calls, failed', files')
      BY <1>2, <2>2, <2>3, <2>7, <3>1, UnlinkSound DEF rest, child
    <3>3. Sound(rest, calls, live \ Freed)
      BY <1>2, <2>2, <2>3, <2>7, ReadSound DEF rest
    <3>4. failed' \in SUBSET Path
      BY <1>2, <2>4, <3>1 DEF Fails, Typed
    <3>5. Typed'
      BY <1>2, <2>3, <3>1, <3>4 DEF Typed
    <3> QED BY <1>1, <2>2, <2>5, <3>1, <3>2, <3>3, <3>5 DEF RemInv
  <2>8. CASE ~Readable
    <3>1. /\ misused' = TRUE
          /\ files' = files /\ live' = live /\ calls' = calls /\ failed' = failed
      BY <2>1, <2>8 DEF Misuse
    <3>2. BadFrees # {}
      BY <1>2, <2>2, <2>3, <2>8, MisuseTold DEF Sound
    <3>3. BadFrees' # {}
      BY <3>1, <3>2 DEF BadFrees
    <3>4. Typed'
      BY <1>2, <2>3, <3>1 DEF Typed
    <3> QED BY <1>1, <1>2, <2>5, <2>6, <3>1, <3>3, <3>4 DEF RemInv
  <2> QED BY <2>7, <2>8
<1>9. CASE Leave
  <2>1. Running /\ ~misused /\ Inner.unread = {} /\ frames' = Under
    BY <1>9 DEF Leave, Running
  <2>2. calls # {} /\ Sound(frames, calls, live) /\ AllAccounted(frames, calls, failed, files)
    BY <1>2, <1>4, <2>1 DEF Running, Typed
  <2>3. CASE Readable
    <3>1. /\ \/ Children(Inner.dir) = {} /\ Remove(Inner.dir) /\ UNCHANGED failed
             \/ Fails(Inner.dir)
          /\ live' = live \ Freed /\ misused' = misused /\ calls' = calls
      BY <1>9, <2>3 DEF Leave
    <3>2. /\ Rooted(files') /\ Stacked(Under, files')
          /\ Sound(Under, calls, live \ Freed)
          /\ AllAccounted(Under, calls, failed', files')
      BY <1>2, <2>1, <2>2, <2>3, <3>1, LeaveSound
    <3>3. failed' \in SUBSET Path
      <4>1. Inner.dir \in Path
        BY <1>2, <2>1, UnderStack, FrameTypes DEF DirInv
      <4> QED BY <1>2, <3>1, <4>1 DEF Fails, Typed
    <3>4. Typed'
      BY <1>2, <2>2, <3>1, <3>3 DEF Typed
    <3> QED BY <1>1, <2>1, <3>1, <3>2, <3>4 DEF RemInv
  <2>4. CASE ~Readable
    <3>1. /\ misused' = TRUE
          /\ files' = files /\ live' = live /\ calls' = calls /\ failed' = failed
      BY <1>9, <2>4 DEF Leave, Misuse
    <3>2. BadFrees # {}
      BY <1>2, <2>1, <2>2, <2>4, MisuseTold DEF Sound
    <3>3. BadFrees' # {} /\ Stacked(Under, files)
      BY <1>2, <2>1, <3>1, <3>2, UnderStack DEF BadFrees
    <3>4. Typed'
      BY <1>2, <2>2, <3>1 DEF Typed
    <3> QED BY <1>1, <1>2, <2>1, <3>1, <3>3, <3>4 DEF RemInv
  <2> QED BY <2>3, <2>4
<1>10. CASE UNCHANGED vars
  <2>1. /\ files' = files /\ frames' = frames /\ live' = live /\ misused' = misused
        /\ calls' = calls /\ failed' = failed
    BY <1>10 DEF vars
  <2>2. Typed'
    BY <1>2, <2>1 DEF Typed
  <2>3. BadFrees' = BadFrees
    BY <2>1 DEF BadFrees
  <2> QED BY <1>1, <2>1, <2>2, <2>3 DEF RemInv
<1> QED BY <1>5, <1>6, <1>7, <1>8, <1>9, <1>10 DEF Next, Step

LEMMA RemOutcome == ASSUME TreesAssumption, RemInv PROVE RemovalOutcome
<1>1. DirInv /\ Typed /\ Rooted(files) /\ Stacked(frames, files)
  BY DEF RemInv
<1>2. TypeOK
  <2>1. DOMAIN files \subseteq Seq(STRING) /\ \A p \in DOMAIN files : files[p] \in FileKinds
    BY <1>1 DEF Rooted, Path
  <2>2. \A n \in 1..Len(frames) :
            frames[n].owned \in BOOLEAN /\ frames[n].unread \subseteq STRING \cup Dots
    BY <1>1, FrameTypes DEF DirInv
  <2>3. \A n \in 1..Len(frames) :
            /\ frames[n].dir \in DOMAIN files /\ files[frames[n].dir] \in DirKinds
            /\ IF n = 1 THEN frames[n].dir = Top
               ELSE Parent(frames[n].dir) = frames[n - 1].dir
    BY <1>1 DEF Stacked, Open, Nested
  <2>4. /\ live \subseteq Seq(STRING) /\ failed \subseteq Seq(STRING) /\ misused \in BOOLEAN
        /\ \A c \in calls : c.owned \in BOOLEAN /\ c.ok \in BOOLEAN
    BY <1>1 DEF Typed, Path, CallRecord
  <2> QED BY <2>1, <2>2, <2>3, <2>4 DEF TypeOK
<1>3. ASSUME Returned
      PROVE  /\ Len(frames) = 0 /\ Sound(frames, calls, live)
             /\ AllAccounted(frames, calls, failed, files)
  BY <1>3 DEF Returned, Begun, RemInv
<1>4. OnlyFailuresStay
  BY <1>3 DEF OnlyFailuresStay, AllAccounted, Accounted, Waits, Runs, Unopened
<1>5. MisuseIffOwnedNotEmpty
  <2>1. misused => BadFrees # {}
    BY DEF RemInv
  <2>2. ASSUME Returned, NEW c \in BadFrees PROVE FALSE
    BY <1>3, <2>2 DEF BadFrees, Sound, Told
  <2> QED BY <2>1, <2>2 DEF MisuseIffOwnedNotEmpty
<1>6. PathsFreed
  <2>1. ASSUME Returned PROVE live = Leaked(calls)
    <3>1. Leaked(calls) \subseteq live
      BY <1>3, <2>1 DEF Sound, Kept
    <3>2. \A p \in live : p \in Leaked(calls) \/ \E n \in 1..Len(frames) : frames[n].dir = p
      BY <1>3, <2>1 DEF Sound, Kept
    <3>3. \A p \in live : p \in Leaked(calls)
      BY <1>3, <2>1, <3>2
    <3> QED BY <3>1, <3>3
  <2> QED BY <2>1 DEF PathsFreed, Leaked
<1> QED BY <1>2, <1>4, <1>5, <1>6 DEF RemovalOutcome

(* What a call of del_dir leaves, for every tree of files: the files and   *)
(* directories that a system call failed on, with what was in those that   *)
(* could not be opened, and the paths of the latter; unless some call was  *)
(* given a path of its own and found something, and so used what it had    *)
(* freed.                                                                  *)
THEOREM RemovalLeaves == ASSUME TreesAssumption PROVE Spec => []RemovalOutcome
<1>1. Init => RemInv
  BY InitRem
<1>2. RemInv /\ [Next]_vars => RemInv'
  BY RemNext
<1>3. RemInv => RemovalOutcome
  BY RemOutcome
<1> QED BY <1>1, <1>2, <1>3, PTL DEF Spec
=============================================================================
